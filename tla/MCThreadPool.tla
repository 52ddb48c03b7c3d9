---------------------------- MODULE MCThreadPool ----------------------------
EXTENDS ThreadPool

CONSTANTS main, other, r1, r2, r3, r4, r5

Call_(r, h) == [op |-> "Execute", routine |-> r, hint |-> h]

\* main uses the pool as main.cpp does; another thread submits meanwhile.
StopCalls == (main :> << Call_(r2, "Global"), [op |-> "WaitIdle"],
                         [op |-> "Stop"], [op |-> "Destroy"] >>)
             @@ (other :> << Call_(r3, "Global") >>)

\* r1 uses the LIFO slot and displaces what is there, or fills the local queue
\* beyond its capacity, or leaves enough in the global queue to share it.
IdleCalls == (main :> << Call_(r1, "Global"), [op |-> "WaitIdle"] >>) @@ (other :> << >>)

\* The pool without WaitIdle, stopped at any time.
PlainCalls == (main :> << Call_(r5, "Global"), [op |-> "Stop"], [op |-> "Destroy"] >>)
              @@ (other :> << >>)
MCScripts == {[variant |-> "WithWaitIdle", calls |-> StopCalls],
              [variant |-> "WithWaitIdle", calls |-> IdleCalls],
              [variant |-> "WithoutWaitIdle", calls |-> PlainCalls]}
MCSpawns ==
    [r \in Routines |->
        IF r = r1
        THEN {<< Call_(r2, "LIFO"), Call_(r3, "LIFO") >>,
              << Call_(r2, "Local"), Call_(r3, "Local"), Call_(r4, "Local") >>,
              << Call_(r2, "Global"), Call_(r3, "Global"), Call_(r4, "Global") >>}
        ELSE IF r = r5 THEN {<< Call_(r2, "LIFO"), Call_(r3, "Local") >>}
        ELSE {<< >>}]
=============================================================================
