------------------------------ MODULE PageFlow ------------------------------
(***************************************************************************)
(* What the full-screen loader promises the rest of the app: a call that   *)
(* shows it has the screen to itself, nothing moves below it, and the call *)
(* ends on the page it was started from or on one page more.  The promise  *)
(* ends for good when the order of the routes is lost.                     *)
(***************************************************************************)
EXTENDS Naturals, Sequences

CONSTANTS
    Calls,      \* the calls that show the loader
    Routes,     \* the pages and dialogs
    Free,       \* nobody shows it
    Lost        \* the order of the routes is lost

VARIABLES
    pages,      \* the pages and dialogs, without the loader
    holder      \* the call that shows the loader, Free or Lost

flowVars == <<pages, holder>>

FlowInit ==
    /\ pages \in {<<r>> : r \in Routes}
    /\ holder = Free

\* openLoadingDialog
Open(c) ==
    /\ holder = Free
    /\ holder' = c
    /\ UNCHANGED pages

\* stopLoading, and the page a call that succeeds goes to.
Close(c) ==
    /\ holder = c
    /\ holder' = Free
    /\ UNCHANGED pages \/ \E r \in Routes : pages' = Append(pages, r)

\* A page or a dialog is opened or left, or a page replaces all of them.
Move ==
    /\ holder = Free
    /\ \/ \E r \in Routes : pages' \in {Append(pages, r), <<r>>}
       \/ Len(pages) > 1 /\ pages' = SubSeq(pages, 1, Len(pages) - 1)
    /\ UNCHANGED holder

\* The order is lost, from where only a new start leads back.
Lose ==
    /\ holder # Lost
    /\ holder' = Lost
    /\ pages' = <<>>

StartAgain == FlowInit'

FlowNext == (\E c \in Calls : Open(c) \/ Close(c)) \/ Move \/ Lose \/ StartAgain

FlowSpec == FlowInit /\ [][FlowNext]_flowVars

=============================================================================
