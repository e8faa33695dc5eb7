---------------------------- MODULE MCDashboard ----------------------------
EXTENDS Dashboard, TLC

CONSTANTS p1, p2, u1, u2, t1, t2

OnePhone == {p1}
TwoPhones == {p1, p2}
OneUser == {u1}
TwoUsers == {u1, u2}
OneTask == {t1}
TwoTasks == {t1, t2}
MCCallers == {"bulk"} \cup Tasks

\* Key 1 is a shutter; the last key is the node "null" a ghost's card names.
OneDevice == 1..2

MCSwitches == {[deviceStatus |-> TRUE, calenderStatus |-> FALSE, fAuto |-> TRUE]}
OpenOnly == {openAll}
NoButtons == {}

CardOperations == {"edit", "loading", "confirm"}
WritesAndDelete == {"toggleRead", "confirm", "set"}
DeleteOnly == {"confirm"}
SaveAndDelete == {"confirm", "set"}

Symmetry == Permutations(Phones) \cup Permutations(Users) \cup Permutations(Tasks)

=============================================================================
