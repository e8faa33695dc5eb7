-------------------------- MODULE MCAuthentication --------------------------
EXTENDS Authentication

CONSTANTS p1, p2, e1, e2, w1, w2

TwoPhones == {p1, p2}
TwoEmails == {e1, e2}
TwoPasswords == {w1, w2}

=============================================================================
