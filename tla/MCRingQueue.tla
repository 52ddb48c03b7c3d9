---------------------------- MODULE MCRingQueue ----------------------------
\* A ring of two items (three slots) that one owner fills and that the owner
\* and one thief empty.
EXTENDS RingQueue
=============================================================================
