----------------------------- MODULE MCCommands -----------------------------
EXTENDS CommandsController

CONSTANTS p1, p2, u1, u2

TwoPhones == {p1, p2}
OneUser == {u1}
TwoUsers == {u1, u2}
TwoDevices == 1..2
TwoButtons == {openAllAndStop, closeAll}

=============================================================================
