----------------------------- MODULE MCFutures -----------------------------
EXTENDS Futures

CONSTANTS main, f1, f2, f3

Call_(o, from, d) == [op |-> o, at |-> from, to |-> d]
Execute_(d) == Call_("Execute", << >>, d)

\* A chain with a waiting client, the two groups, and futures that nobody waits for.
Chain == << Execute_(f1), Call_("Then", << f1 >>, f2), Call_("Recover", << f2 >>, f3),
            Call_("GetResult", << f3 >>, Null) >>
Group(o) == << Execute_(f1), Execute_(f2), Call_(o, << f1, f2 >>, f3),
               Call_("Subscribe", << f3 >>, Null) >>
Unused == << Execute_(f1), Call_("Drop", << f1 >>, Null), Execute_(f2),
             Call_("Subscribe", << f2 >>, Null) >>

MCPrograms == {main :> p : p \in {Chain, Group("All"), Group("FirstOf"), Unused}}
FirstOfPrograms == {main :> Group("FirstOf")}
=============================================================================
