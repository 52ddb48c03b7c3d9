--------------------------- MODULE MCFiberLibrary ---------------------------
EXTENDS FiberLibrary, TLC

CONSTANTS main, other, f1, f2, f3, c1, c2, x1, x2, x3, x4, p1, p2

Go_(f) == [op |-> "Go", fiber |-> f]
Sync(op) == [op |-> op, at |-> IF op \in {"Lock", "Unlock"} THEN "mutex" ELSE "condvar"]
Send_(c, x) == [op |-> "Send", at |-> c, value |-> x]
TrySend_(c, x) == [op |-> "TrySend", at |-> c, value |-> x]
Receive_(c) == [op |-> "Receive", at |-> c, rest |-> 0]
TryReceive_(c) == [op |-> "TryReceive", at |-> c, rest |-> 0]
Future_(op, p) == [op |-> op, at |-> p]
Both(op) == [op |-> op, of |-> << c1, c2 >>]

Run(m, o, b1, b2, b3) == (main :> m) @@ (other :> o) @@ (f1 :> b1) @@ (f2 :> b2) @@ (f3 :> b3)
Start == << Go_(f1), Go_(f2), Go_(f3) >>

\* A mutex held across a Yield, and a condition variable that is notified with
\* and without reason.
Locking ==
    Run(Start, << Sync("NotifyOne") >>,
        << Sync("Lock"), Sync("WaitUntil"), Sync("Unlock") >>,
        << Sync("Lock"), Sync("Yield"), Sync("Unlock"), Sync("Lock"), Sync("Unlock") >>,
        << Sync("Lock"), Sync("SetReady"), Sync("Unlock"), Sync("NotifyAll") >>)

\* Fibers that wait while a fiber and the threads are done, or main says that
\* all is.
Counting ==
    Run(<< Sync("Add") >> \o Start \o << Sync("Add"), Sync("Done") >>,
        << Sync("Add"), Sync("Done") >>,
        << Sync("Wait"), Sync("Yield") >>, << Sync("Yield"), Sync("Done") >>, << Sync("Wait") >>)
Ending ==
    Run(<< Sync("Add") >> \o Start \o << Sync("AllDone") >>, << Sync("NotifyAll") >>,
        << Sync("Wait"), Sync("Yield") >>, << Sync("Yield"), Sync("Wait") >>, << Sync("Wait") >>)

\* Producers that fill a channel, two of them with a mutex, for a fiber that
\* does not wait.  No thread takes a value while a producer waits.
Producing ==
    Run(Start, << TrySend_(c1, x3) >>,
        << Sync("Lock"), Send_(c1, x1), Sync("Unlock") >>,
        << Sync("Lock"), Send_(c1, x2), Sync("Unlock") >>,
        << TryReceive_(c1), Both("TrySelect"), TryReceive_(c1) >>)

\* Two producers that wait in line while a third fiber takes their values, and a
\* thread that may get in where room is made.
Handing ==
    Run(<< Go_(f1) >>, << TrySend_(c1, x3) >>,
        << Send_(c1, x1), Go_(f2), Go_(f3), Send_(c1, x4) >>, << Send_(c1, x2) >>,
        << Both("Select"), Receive_(c1) >>)

\* A fiber that waits for one channel, or for two of which one is used.
Consuming ==
    Run(Start \o << TryReceive_(c2) >>, << TrySend_(c1, x1) >>, << Receive_(c1) >>,
        << Send_(c2, x2) >>, << Both("TrySelect") >>)
Selecting(c) ==
    Run(Start, << TrySend_(c, x1) >>, << Both("Select") >>, << Both("Select") >>,
        << Receive_(c1) >>)

\* Fibers that wait for what another fiber or a thread calculates.
Awaiting ==
    Run(Start, << Future_("SetPromise", p2) >>,
        << Sync("Lock"), Future_("Await", p1), Sync("Unlock"), Future_("Await", p2) >>,
        << Sync("Yield"), Future_("SetPromise", p1) >>, << Sync("Lock"), Sync("Unlock") >>)

MCPrograms == {Locking, Counting, Ending, Producing, Handing, Consuming, Selecting(c1),
               Selecting(c2), Awaiting}
MCCapacity == (c1 :> 1) @@ (c2 :> 2)

\* Two fibers that yield.
YieldPrograms ==
    {Run(Start, << >>, << Sync("Yield"), Sync("Yield") >>, << Sync("Yield") >>, << >>)}

\* A fiber that waits for a value, of which two are sent.
ReceivePrograms ==
    {Run(Start, << >>, << Receive_(c1) >>, << Send_(c1, x1), Send_(c1, x2) >>, << >>)}
=============================================================================
