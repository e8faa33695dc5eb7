------------------------- MODULE CommandsController -------------------------
(***************************************************************************)
(* The eight bulk commands of the Commands page and the drawer.  They have *)
(* one body and differ in the children they write: show the loader, query  *)
(* the devices of the current user, update them one awaited request at a   *)
(* time in key order, then hide the loader and report.  Nothing makes the  *)
(* loop atomic: other phones write between two of its requests, a request  *)
(* may be rejected half way, the app may be killed, and while the phone is *)
(* offline an update simply does not complete.                             *)
(***************************************************************************)
EXTENDS ShutterDevices

openAll == [shutterIconStatus |-> TRUE]
closeAll == [shutterIconStatus |-> FALSE]
playAll == [deviceStatus |-> TRUE]
stopAll == [deviceStatus |-> FALSE]
openAllAndStop == [shutterIconStatus |-> TRUE, deviceStatus |-> FALSE]
closeAllAndStop == [shutterIconStatus |-> FALSE, deviceStatus |-> FALSE]
calenderON == [calenderStatus |-> TRUE]
calenderOFF == [calenderStatus |-> FALSE]

Commands == {openAll, closeAll, playAll, stopAll, openAllAndStop,
             closeAllAndStop, calenderON, calenderOFF}

CONSTANT Buttons    \* the commands a model lets the users press

ASSUME ButtonsAssumption == Buttons \subseteq Commands
ASSUME BulkAssumption == "bulk" \in Callers

VARIABLES
    cmd,        \* the bulk command each phone is running
    report      \* what its last command told the user

commandVars == <<cmd, report>>

NoCommand == [pc |-> "idle", patch |-> openAll, uid |-> Null, todo |-> {}]

CommandRecords ==
    [pc : {"idle", "get", "update"}, patch : Commands,
     uid : Users \cup {Null}, todo : SUBSET Devices]

CommandsInit ==
    /\ cmd = [p \in Phones |-> NoCommand]
    /\ report = [p \in Phones |-> "none"]

CommandsTypeOK ==
    /\ cmd \in [Phones -> CommandRecords]
    /\ report \in [Phones -> {"none", "success", "notFound", "failed"}]

-----------------------------------------------------------------------------

\* A button is tapped: the loader covers the screen and the query is sent
\* with the uid of this moment.
Start(p, patch) ==
    /\ cmd[p].pc = "idle"
    /\ cmd' = [cmd EXCEPT ![p] = [pc |-> "get", patch |-> patch,
                                  uid |-> session[p], todo |-> {}]]
    /\ report' = [report EXCEPT ![p] = "none"]
    /\ openLoadingDialog(p, "bulk")
    /\ Send(p, "bulk")
    /\ UNCHANGED <<db, session, online, touched>>

\* Mutant of End: a path without stopLoading().
EndLoaderLeft(p, message) ==
    /\ cmd' = [cmd EXCEPT ![p] = NoCommand]
    /\ report' = [report EXCEPT ![p] = message]
    /\ touched' = [touched EXCEPT ![p] = Devices]
    /\ UNCHANGED <<db, session, online, loader>>

\* The command ends: it closes the loader and shows a snackbar.
End(p, message) ==
    /\ cmd' = [cmd EXCEPT ![p] = NoCommand]
    /\ report' = [report EXCEPT ![p] = message]
    /\ stopLoading(p, "bulk")
    /\ touched' = [touched EXCEPT ![p] = Devices]
    /\ UNCHANGED <<db, session, online>>

\* get() answers with the user's devices.
Found(p) ==
    /\ cmd[p].pc = "get"
    /\ Served(p, "bulk")
    /\ Query(db, cmd[p].uid) # {}
    /\ ReceiveAndSend(p, "bulk")
    /\ cmd' = [cmd EXCEPT ![p].pc = "update",
                          ![p].todo = Query(db, cmd[p].uid)]
    /\ touched' = [touched EXCEPT ![p] = {}]
    /\ UNCHANGED <<db, session, online, loader, report>>

\* Mutant of NotFound: it forgets to return and reports through no known path.
NotFoundUnreported(p) ==
    /\ cmd[p].pc = "get"
    /\ Served(p, "bulk")
    /\ Query(db, cmd[p].uid) = {}
    /\ Receive(p)
    /\ End(p, "null")

\* get() answers that there are none.
NotFound(p) ==
    /\ cmd[p].pc = "get"
    /\ Served(p, "bulk")
    /\ Query(db, cmd[p].uid) = {}
    /\ Receive(p)
    /\ End(p, "notFound")

\* Mutant of UpdateNext: the request is not awaited and gets lost.
UpdateNextLost(p) ==
    /\ cmd[p].pc = "update"
    /\ Served(p, "bulk")
    /\ \E k \in cmd[p].todo :
          /\ cmd' = [cmd EXCEPT ![p].todo = cmd[p].todo \ {k}]
          /\ IF cmd[p].todo = {k} THEN Receive(p) ELSE ReceiveAndSend(p, "bulk")
    /\ UNCHANGED <<db, touched, session, online, loader, report>>

\* Mutant of UpdateNext: the updates are sent in no order.
UpdateNextAny(p) ==
    /\ cmd[p].pc = "update"
    /\ Served(p, "bulk")
    /\ \E k \in cmd[p].todo :
          /\ Put(p, k, Merge(db[k], cmd[p].patch))
          /\ cmd' = [cmd EXCEPT ![p].todo = cmd[p].todo \ {k}]
          /\ IF cmd[p].todo = {k} THEN Receive(p) ELSE ReceiveAndSend(p, "bulk")
    /\ UNCHANGED <<session, online, loader, report>>

\* The server applies the update of the first device the loop has not done.
UpdateNext(p) ==
    /\ cmd[p].pc = "update"
    /\ Served(p, "bulk")
    /\ \E k \in cmd[p].todo :
          /\ \A l \in cmd[p].todo : k <= l
          /\ Put(p, k, Merge(db[k], cmd[p].patch))
          /\ cmd' = [cmd EXCEPT ![p].todo = cmd[p].todo \ {k}]
          /\ IF cmd[p].todo = {k} THEN Receive(p) ELSE ReceiveAndSend(p, "bulk")
    /\ UNCHANGED <<session, online, loader, report>>

\* Mutant of Finish: success is reported while updates are still to be sent.
FinishEarly(p) ==
    /\ cmd[p].pc = "update"
    /\ UNCHANGED wire
    /\ End(p, "success")

\* The last update is answered: success, and the dashboard is opened.
Finish(p) ==
    /\ cmd[p].pc = "update"
    /\ cmd[p].todo = {}
    /\ UNCHANGED wire
    /\ End(p, "success")

\* A request throws.
Fail(p) ==
    /\ cmd[p].pc \in {"get", "update"}
    /\ Served(p, "bulk")
    /\ Receive(p)
    /\ End(p, "failed")

\* The app is killed and started again.
CommandsRestart(p) ==
    /\ cmd' = [cmd EXCEPT ![p] = NoCommand]
    /\ report' = [report EXCEPT ![p] = "none"]

CommandStep(p) ==
    \/ \E patch \in Buttons : Start(p, patch)
    \/ Found(p)
    \/ NotFound(p)
    \/ UpdateNext(p)
    \/ Finish(p)
    \/ Fail(p)

CommandsNext ==
    \E p \in Phones :
        \/ CommandStep(p)
        \/ SharedRestart(p) /\ CommandsRestart(p)
        \/ Connection(p) /\ UNCHANGED commandVars

commandsAllVars == <<sharedVars, commandVars>>

CommandsStart == SharedInit /\ CommandsInit

CommandsSpec == CommandsStart /\ [][CommandsNext]_commandsAllVars

\* The server answers every request of a phone that stays connected.
CommandsFairness ==
    \A p \in Phones :
        WF_commandsAllVars(Found(p) \/ NotFound(p) \/ UpdateNext(p) \/ Finish(p))

FairCommandsSpec == CommandsSpec /\ CommandsFairness

-----------------------------------------------------------------------------

\* Whatever belongs to the command's user, is not in the set rest and was not
\* written by someone else carries the command's values.
Applied(p, rest) ==
    \A k \in Query(db, cmd[p].uid) \ (touched[p] \cup rest) :
        Carries(db[k], cmd[p].patch)

\* How far a running loop has got: only what is still to do, or what others
\* have overwritten since, may lack the command's values.
LoopInvariant ==
    \A p \in Phones : cmd[p].pc = "update" => Applied(p, cmd[p].todo)

\* "All shutters have been successfully opened": when a command reports
\* success, every device of its user that nobody else wrote meanwhile has
\* the values the command stands for.
SuccessMeansApplied ==
    [][\A p \in Phones :
          report[p] # "success" /\ report'[p] = "success" =>
              \A k \in Query(db', cmd[p].uid) \ touched[p] :
                  Carries(db'[k], cmd[p].patch)]_commandsAllVars

\* The loop skips no device: wherever a rejected request or a kill stops it,
\* what it has not yet written is everything behind the first open key.
NoDeviceSkipped ==
    \A p \in Phones : \A k, l \in Devices :
        /\ cmd[p].pc = "update"
        /\ k < l
        /\ k \in cmd[p].todo
        /\ l \in Query(db, cmd[p].uid) \ touched[p]
        => l \in cmd[p].todo

=============================================================================
