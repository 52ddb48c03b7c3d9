------------------------------ MODULE MCStrand ------------------------------
EXTENDS Strand

CONSTANTS c1, c2, r1, r2, r3, r4, r5

\* One client submits two routines, the other one; r1 submits a routine when
\* it runs, and that one another.
MCScript == (c1 :> << r1, r2 >>) @@ (c2 :> << r3 >>)
MCSpawns == [r \in Routines |-> CASE r = r1 -> << r4 >>
                                  [] r = r4 -> << r5 >>
                                  [] OTHER  -> << >>]
=============================================================================
