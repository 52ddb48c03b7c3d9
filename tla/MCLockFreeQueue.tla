-------------------------- MODULE MCLockFreeQueue --------------------------
EXTENDS LockFreeQueue, TLC

CONSTANTS t1, t2, t3, x1, x2, x3

\* Two threads that push again, perhaps at the address that a pop has freed;
\* three threads, so that two others look on while one moves a pointer.
MCPrograms == {(t1 :> << x1, "TryPop", x3 >>) @@ (t2 :> << x2, "TryPop", "TryPop" >>)
                  @@ (t3 :> << >>),
               (t1 :> << x1, "TryPop" >>) @@ (t2 :> << x2 >>) @@ (t3 :> << "TryPop" >>)}
=============================================================================
