--------------------------- MODULE MCQueueSpinLock ---------------------------
\* Three threads that take the lock again and again.
EXTENDS QueueSpinLock
==============================================================================
