-------------------------- MODULE MCLockFreeStack --------------------------
EXTENDS LockFreeStack, TLC

CONSTANTS t1, t2, t3, x1, x2, x3

\* Two threads that push again, perhaps at the address that a pop has freed,
\* while a third one looks on; and a Clear among pushes.
MCPrograms == {(t1 :> << x1, "TryPop", x3 >>) @@ (t2 :> << x2, "TryPop" >>)
                  @@ (t3 :> << "TryPop" >>),
               (t1 :> << x1, "Clear" >>) @@ (t2 :> << x2, x3 >>) @@ (t3 :> << "TryPop" >>)}
=============================================================================
