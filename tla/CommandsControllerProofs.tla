---------------------- MODULE CommandsControllerProofs ----------------------
(***************************************************************************)
(* The bulk commands, for any phones, users and devices: the loop's        *)
(* invariants, and that a command that reports success was applied.  The   *)
(* lemmas are about single actions, so that Dashboard, where others write  *)
(* and delete between the requests of a command, can use them too.         *)
(***************************************************************************)
EXTENDS CommandsController, DeviceRecordsProofs

\* Every command writes Booleans to flags.
LEMMA CommandsLemma == ASSUME NEW c \in Commands PROVE FlagPatch(c)
<1>1. CASE c = openAll
    <2>1. DOMAIN c = {"shutterIconStatus"}
        BY <1>1 DEF openAll
    <2>2. c.shutterIconStatus \in BOOLEAN
        BY <1>1 DEF openAll
    <2> QED
        BY <2>1, <2>2 DEF FlagPatch, Flags
<1>2. CASE c = closeAll
    <2>1. DOMAIN c = {"shutterIconStatus"}
        BY <1>2 DEF closeAll
    <2>2. c.shutterIconStatus \in BOOLEAN
        BY <1>2 DEF closeAll
    <2> QED
        BY <2>1, <2>2 DEF FlagPatch, Flags
<1>3. CASE c = playAll
    <2>1. DOMAIN c = {"deviceStatus"}
        BY <1>3 DEF playAll
    <2>2. c.deviceStatus \in BOOLEAN
        BY <1>3 DEF playAll
    <2> QED
        BY <2>1, <2>2 DEF FlagPatch, Flags
<1>4. CASE c = stopAll
    <2>1. DOMAIN c = {"deviceStatus"}
        BY <1>4 DEF stopAll
    <2>2. c.deviceStatus \in BOOLEAN
        BY <1>4 DEF stopAll
    <2> QED
        BY <2>1, <2>2 DEF FlagPatch, Flags
<1>5. CASE c = openAllAndStop
    <2>1. DOMAIN c = {"shutterIconStatus", "deviceStatus"}
        BY <1>5 DEF openAllAndStop
    <2>2. c.shutterIconStatus \in BOOLEAN /\ c.deviceStatus \in BOOLEAN
        BY <1>5 DEF openAllAndStop
    <2> QED
        BY <2>1, <2>2 DEF FlagPatch, Flags
<1>6. CASE c = closeAllAndStop
    <2>1. DOMAIN c = {"shutterIconStatus", "deviceStatus"}
        BY <1>6 DEF closeAllAndStop
    <2>2. c.shutterIconStatus \in BOOLEAN /\ c.deviceStatus \in BOOLEAN
        BY <1>6 DEF closeAllAndStop
    <2> QED
        BY <2>1, <2>2 DEF FlagPatch, Flags
<1>7. CASE c = calenderON
    <2>1. DOMAIN c = {"calenderStatus"}
        BY <1>7 DEF calenderON
    <2>2. c.calenderStatus \in BOOLEAN
        BY <1>7 DEF calenderON
    <2> QED
        BY <2>1, <2>2 DEF FlagPatch, Flags
<1>8. CASE c = calenderOFF
    <2>1. DOMAIN c = {"calenderStatus"}
        BY <1>8 DEF calenderOFF
    <2>2. c.calenderStatus \in BOOLEAN
        BY <1>8 DEF calenderOFF
    <2> QED
        BY <2>1, <2>2 DEF FlagPatch, Flags
<1> QED
    BY <1>1, <1>2, <1>3, <1>4, <1>5, <1>6, <1>7, <1>8 DEF Commands

\* Every saved record the node starts with is a record.
LEMMA SharedInitType == SharedInit => SharedTypeOK
<1> SUFFICES ASSUME SharedInit PROVE SharedTypeOK
    OBVIOUS
<1>1. db \in [Devices -> Records]
    BY NewDeviceLemma, NoRecordLemma DEF SharedInit, Owners
<1>2. wire \in [Phones -> Seq(Callers)]
    BY DEF SharedInit
<1> QED
    BY <1>1, <1>2 DEF SharedInit, SharedTypeOK, NoLoader

\* A phone starts with no command.
LEMMA CommandsInitType == CommandsInit => CommandsTypeOK
<1>1. NoCommand \in CommandRecords
    BY DEF NoCommand, CommandRecords, Commands
<1> QED
    BY <1>1 DEF CommandsInit, CommandsTypeOK

\* A write of one record keeps the types of what Put changes.
LEMMA PutType ==
    ASSUME SharedTypeOK, NEW w, NEW k \in Devices, NEW r \in Records, Put(w, k, r)
    PROVE  /\ db' \in [Devices -> Records]
           /\ touched' \in [Phones -> SUBSET Devices]
BY DEF SharedTypeOK, Put

\* Sending and receiving keep the wires sequences of callers.
LEMMA WireType ==
    ASSUME SharedTypeOK, NEW p \in Phones, NEW c \in Callers
    PROVE  /\ Send(p, c) => wire' \in [Phones -> Seq(Callers)]
           /\ Served(p, c) /\ Receive(p) => wire' \in [Phones -> Seq(Callers)]
           /\ Served(p, c) /\ ReceiveAndSend(p, c)
                => wire' \in [Phones -> Seq(Callers)]
<1>1. wire[p] \in Seq(Callers)
    BY DEF SharedTypeOK
<1>2. Append(wire[p], c) \in Seq(Callers)
    BY <1>1
<1>3. ASSUME Served(p, c)
      PROVE  Tail(wire[p]) \in Seq(Callers) /\ Append(Tail(wire[p]), c) \in Seq(Callers)
    BY <1>1, <1>3 DEF Served
<1> QED
    BY <1>2, <1>3 DEF SharedTypeOK, Send, Receive, ReceiveAndSend

\* Putting the loader up, taking it down and pushing a page over it keep its
\* type.
LEMMA LoaderType ==
    ASSUME SharedTypeOK, NEW p \in Phones, NEW c \in Callers,
           openLoadingDialog(p, c) \/ stopLoading(p, c) \/ PushPage(p)
    PROVE  loader' \in [Phones -> [calls : SUBSET Callers, over : BOOLEAN]]
<1> DEFINE L == [calls : SUBSET Callers, over : BOOLEAN]
<1>0. loader \in [Phones -> L]
    BY DEF SharedTypeOK
<1>1. loader[p].calls \in SUBSET Callers /\ loader[p].over \in BOOLEAN
    BY <1>0
<1>2. CASE openLoadingDialog(p, c)
    <2>1. [loader[p] EXCEPT !.calls = loader[p].calls \cup {c}] \in L
        BY <1>0, <1>1
    <2>2. loader' = [loader EXCEPT ![p] =
                        [loader[p] EXCEPT !.calls = loader[p].calls \cup {c}]]
        BY <1>2 DEF openLoadingDialog
    <2> HIDE DEF L
    <2> QED
        BY <1>0, <2>1, <2>2 DEF L
<1>3. CASE stopLoading(p, c)
    BY <1>1, <1>3 DEF SharedTypeOK, stopLoading
<1>4. CASE PushPage(p)
    <2>1. PICK b \in BOOLEAN :
              loader' = [loader EXCEPT ![p].over =
                            loader[p].over \/ (b /\ loader[p].calls # {})]
        BY <1>4 DEF PushPage
    <2> DEFINE up == loader[p].over \/ (b /\ loader[p].calls # {})
    <2>2. up \in BOOLEAN
        BY <1>1
    <2>3. loader' = [loader EXCEPT ![p] = [loader[p] EXCEPT !.over = up]]
        BY <2>1
    <2> HIDE DEF up
    <2>4. [loader[p] EXCEPT !.over = up] \in L
        BY <1>0, <2>2
    <2> HIDE DEF L
    <2> QED
        BY <1>0, <2>3, <2>4 DEF L
<1> QED
    BY <1>2, <1>3, <1>4

\* The end of a command keeps the types.
LEMMA EndType ==
    ASSUME SharedTypeOK, CommandsTypeOK, NEW p \in Phones,
           NEW m \in {"success", "notFound", "failed"}, End(p, m),
           wire' \in [Phones -> Seq(Callers)]
    PROVE  SharedTypeOK' /\ CommandsTypeOK'
<1>1. NoCommand \in CommandRecords
    BY DEF NoCommand, CommandRecords, Commands
<1>2. SharedTypeOK'
    BY LoaderType, BulkAssumption DEF SharedTypeOK, End
<1>3. CommandsTypeOK'
    BY <1>1 DEF CommandsTypeOK, End
<1> QED
    BY <1>2, <1>3

\* What a served request of the loop writes is a record.
LEMMA UpdateNextType ==
    ASSUME SharedTypeOK, CommandsTypeOK, NEW p \in Phones, UpdateNext(p)
    PROVE  SharedTypeOK' /\ CommandsTypeOK'
<1> USE DEF CommandRecords
<1>1. PICK k \in cmd[p].todo :
          /\ Put(p, k, Merge(db[k], cmd[p].patch))
          /\ cmd' = [cmd EXCEPT ![p].todo = cmd[p].todo \ {k}]
          /\ IF cmd[p].todo = {k} THEN Receive(p) ELSE ReceiveAndSend(p, "bulk")
    BY DEF UpdateNext
<1>2. k \in Devices /\ cmd[p].patch \in Commands /\ db[k] \in Records
    BY DEF CommandsTypeOK, SharedTypeOK
<1>3. Merge(db[k], cmd[p].patch) \in Records
    BY <1>2, CommandsLemma, MergeLemma
<1>4. wire' \in [Phones -> Seq(Callers)]
    BY <1>1, BulkAssumption, WireType DEF UpdateNext
<1>5. /\ db' \in [Devices -> Records]
      /\ touched' \in [Phones -> SUBSET Devices]
    BY <1>1, <1>2, <1>3, PutType
<1>6. SharedTypeOK'
    BY <1>4, <1>5 DEF SharedTypeOK, UpdateNext
<1>7. CommandsTypeOK'
    BY <1>1 DEF CommandsTypeOK, UpdateNext
<1> QED
    BY <1>6, <1>7

\* Every step of a command keeps the types.
LEMMA CommandStepType ==
    ASSUME SharedTypeOK, CommandsTypeOK, NEW p \in Phones, CommandStep(p)
    PROVE  SharedTypeOK' /\ CommandsTypeOK'
<1>1. ASSUME NEW patch \in Buttons, Start(p, patch)
      PROVE  SharedTypeOK' /\ CommandsTypeOK'
    <2>1. wire' \in [Phones -> Seq(Callers)]
        BY <1>1, BulkAssumption, WireType DEF Start
    <2>2. SharedTypeOK'
        BY <1>1, <2>1, LoaderType, BulkAssumption DEF SharedTypeOK, Start
    <2>3. patch \in Commands /\ session[p] \in Users \cup {Null}
        BY ButtonsAssumption DEF SharedTypeOK
    <2>4. CommandsTypeOK'
        BY <1>1, <2>3 DEF CommandsTypeOK, CommandRecords, Start
    <2> QED
        BY <2>2, <2>4
<1>2. CASE Found(p)
    <2>1. wire' \in [Phones -> Seq(Callers)]
        BY <1>2, BulkAssumption, WireType DEF Found
    <2>2. SharedTypeOK'
        BY <1>2, <2>1 DEF SharedTypeOK, Found
    <2> DEFINE found == Query(db, cmd[p].uid)
               new == [cmd[p] EXCEPT !.pc = "update", !.todo = found]
    <2>3. found \in SUBSET Devices
        BY DEF Query
    <2>4. cmd' = [cmd EXCEPT ![p] = new]
        BY <1>2 DEF Found
    <2> HIDE DEF found
    <2>5. new \in CommandRecords
        BY <2>3 DEF CommandsTypeOK, CommandRecords
    <2> HIDE DEF new
    <2>6. CommandsTypeOK'
        BY <1>2, <2>4, <2>5 DEF CommandsTypeOK, Found
    <2> QED
        BY <2>2, <2>6
<1>3. CASE NotFound(p)
    BY <1>3, BulkAssumption, WireType, EndType DEF NotFound
<1>4. CASE UpdateNext(p)
    BY <1>4, UpdateNextType
<1>5. CASE Finish(p)
    <2>1. wire' \in [Phones -> Seq(Callers)]
        BY <1>5 DEF Finish, SharedTypeOK
    <2> QED
        BY <1>5, <2>1, EndType DEF Finish
<1>6. CASE Fail(p)
    BY <1>6, BulkAssumption, WireType, EndType DEF Fail
<1> QED
    BY <1>1, <1>2, <1>3, <1>4, <1>5, <1>6 DEF CommandStep

\* A kill keeps the types.
LEMMA RestartType ==
    ASSUME SharedTypeOK, CommandsTypeOK, NEW p \in Phones,
           SharedRestart(p), CommandsRestart(p)
    PROVE  SharedTypeOK' /\ CommandsTypeOK'
<1>1. NoCommand \in CommandRecords
    BY DEF NoCommand, CommandRecords, Commands
<1>2. CommandsTypeOK'
    BY <1>1 DEF CommandsTypeOK, CommandsRestart
<1>3. wire' \in [Phones -> Seq(Callers)]
    BY DEF SharedTypeOK, SharedRestart
<1>4. SharedTypeOK'
    BY <1>3 DEF SharedTypeOK, SharedRestart, NoLoader
<1> QED
    BY <1>2, <1>4

\* A change of the connection keeps the types.
LEMMA ConnectionType ==
    ASSUME SharedTypeOK, NEW p \in Phones, Connection(p)
    PROVE  SharedTypeOK'
BY DEF SharedTypeOK, Connection

-----------------------------------------------------------------------------
(* The loop.                                                               *)

\* What the loop of phone p keeps: LoopInvariant and NoDeviceSkipped at p.
LoopAt(p) ==
    cmd[p].pc = "update" =>
        /\ Applied(p, cmd[p].todo)
        /\ \A k, l \in Devices :
              /\ k < l
              /\ k \in cmd[p].todo
              /\ l \in Query(db, cmd[p].uid) \ touched[p]
              => l \in cmd[p].todo

\* A step that leaves the database and the command alone keeps the loop.
LEMMA LoopQuiet ==
    ASSUME NEW p \in Phones, LoopAt(p), UNCHANGED db,
           cmd'[p] = cmd[p], touched[p] \subseteq touched'[p]
    PROVE  LoopAt(p)'
BY DEF LoopAt, Applied, Query

\* A write by someone else touches its device, which the loop then no longer
\* answers for.
LEMMA LoopOthers ==
    ASSUME SharedTypeOK, NEW p \in Phones, LoopAt(p), NEW k \in Devices, NEW r,
           NEW w, w # p, Put(w, k, r), cmd'[p] = cmd[p]
    PROVE  LoopAt(p)'
<1>1. touched'[p] = touched[p] \cup {k}
    BY DEF Put
<1>2. \A l \in Devices \ {k} : db'[l] = db[l]
    BY DEF Put, SharedTypeOK
<1>3. \A l \in Query(db', cmd[p].uid) \ touched'[p] :
         l \in Query(db, cmd[p].uid) \ touched[p] /\ db'[l] = db[l]
    BY <1>1, <1>2 DEF Query
<1> QED
    BY <1>1, <1>3 DEF LoopAt, Applied

\* The loop's own write moves its first device from todo to the done ones.
LEMMA LoopOwn ==
    ASSUME SharedTypeOK, CommandsTypeOK, NEW p \in Phones, LoopAt(p), UpdateNext(p)
    PROVE  LoopAt(p)'
<1>1. PICK k \in cmd[p].todo :
          /\ \A l \in cmd[p].todo : k <= l
          /\ Put(p, k, Merge(db[k], cmd[p].patch))
          /\ cmd' = [cmd EXCEPT ![p].todo = cmd[p].todo \ {k}]
    BY DEF UpdateNext
<1>2. k \in Devices /\ cmd[p].patch \in Commands /\ db[k] \in Records
    BY DEF CommandsTypeOK, CommandRecords, SharedTypeOK
<1>3. Carries(Merge(db[k], cmd[p].patch), cmd[p].patch)
    BY <1>2, CommandsLemma, MergeLemma
<1>4. /\ cmd[p].pc = "update"
      /\ cmd'[p].patch = cmd[p].patch
      /\ cmd'[p].uid = cmd[p].uid
      /\ cmd'[p].todo = cmd[p].todo \ {k}
    BY <1>1 DEF UpdateNext, CommandsTypeOK, CommandRecords
<1>5. touched'[p] = touched[p]
    BY <1>1 DEF Put, SharedTypeOK
<1>6. /\ db'[k] = Merge(db[k], cmd[p].patch)
      /\ \A l \in Devices \ {k} : db'[l] = db[l]
    BY <1>1, <1>2 DEF Put, SharedTypeOK
<1>7. \A l \in Query(db', cmd[p].uid) \ {k} :
         l \in Query(db, cmd[p].uid) /\ db'[l] = db[l]
    BY <1>6 DEF Query
<1>8. Applied(p, cmd[p].todo)'
    BY <1>3, <1>4, <1>5, <1>6, <1>7 DEF LoopAt, Applied
<1>9. ASSUME NEW m \in Devices, NEW l \in Devices, m < l, m \in cmd'[p].todo,
             l \in Query(db', cmd'[p].uid) \ touched'[p]
      PROVE  l \in cmd'[p].todo
    <2>1. k <= m /\ l # k
        BY <1>1, <1>2, <1>4, <1>9, DevicesAssumption
    <2>2. l \in Query(db, cmd[p].uid) \ touched[p]
        BY <1>4, <1>5, <1>7, <1>9, <2>1
    <2>3. l \in cmd[p].todo
        BY <1>4, <1>9, <2>2 DEF LoopAt
    <2> QED
        BY <1>4, <2>1, <2>3
<1> QED
    BY <1>8, <1>9 DEF LoopAt

\* A command of phone p keeps its own loop.
LEMMA LoopSelf ==
    ASSUME SharedTypeOK, CommandsTypeOK, NEW p \in Phones, LoopAt(p), CommandStep(p)
    PROVE  LoopAt(p)'
<1> USE DEF CommandsTypeOK, CommandRecords
<1>1. ASSUME NEW patch \in Buttons, Start(p, patch) PROVE LoopAt(p)'
    BY <1>1 DEF Start, LoopAt
<1>2. CASE Found(p)
    <2>1. cmd'[p].todo = Query(db', cmd'[p].uid) /\ touched'[p] = {}
        BY <1>2 DEF Found, SharedTypeOK
    <2> QED
        BY <2>1 DEF LoopAt, Applied
<1>3. ASSUME NEW m, End(p, m) PROVE LoopAt(p)'
    BY <1>3 DEF End, NoCommand, LoopAt
<1>4. CASE UpdateNext(p)
    BY <1>4, LoopOwn
<1> QED
    BY <1>1, <1>2, <1>3, <1>4 DEF CommandStep, NotFound, Finish, Fail

\* A command of phone p keeps the loop of every other phone q.
LEMMA LoopOther ==
    ASSUME SharedTypeOK, CommandsTypeOK, NEW p \in Phones, CommandStep(p),
           NEW q \in Phones, q # p, LoopAt(q)
    PROVE  LoopAt(q)'
<1>1. CASE UpdateNext(p)
    <2>1. PICK k \in cmd[p].todo :
              /\ Put(p, k, Merge(db[k], cmd[p].patch))
              /\ cmd' = [cmd EXCEPT ![p].todo = cmd[p].todo \ {k}]
        BY <1>1 DEF UpdateNext
    <2>2. k \in Devices /\ cmd'[q] = cmd[q]
        BY <2>1 DEF CommandsTypeOK, CommandRecords
    <2> QED
        BY <2>1, <2>2, LoopOthers
<1>2. CASE ~UpdateNext(p)
    <2>1. UNCHANGED db /\ cmd'[q] = cmd[q] /\ touched'[q] = touched[q]
        BY <1>2 DEF CommandStep, Start, Found, NotFound, Finish, Fail, End,
                    SharedTypeOK, CommandsTypeOK
    <2> QED
        BY <2>1, LoopQuiet
<1> QED
    BY <1>1, <1>2

\* A killed app runs no loop, and its end changes no other phone's.
LEMMA LoopRestart ==
    ASSUME SharedTypeOK, CommandsTypeOK, NEW p \in Phones, NEW q \in Phones,
           LoopAt(q), SharedRestart(p), CommandsRestart(p)
    PROVE  LoopAt(q)'
<1>1. CASE q = p
    BY <1>1 DEF CommandsRestart, NoCommand, LoopAt, CommandsTypeOK
<1>2. CASE q # p
    <2>1. UNCHANGED db /\ cmd'[q] = cmd[q] /\ touched'[q] = touched[q]
        BY <1>2 DEF SharedRestart, CommandsRestart, SharedTypeOK, CommandsTypeOK
    <2> QED
        BY <2>1, LoopQuiet
<1> QED
    BY <1>1, <1>2

\* Only Finish reports success, with nothing left to do, and it leaves the
\* database as it is.
LEMMA SuccessStep ==
    ASSUME CommandsTypeOK, NEW p \in Phones, LoopAt(p), NEW q \in Phones,
           CommandStep(q), report[p] # "success", report'[p] = "success"
    PROVE  \A k \in Query(db', cmd[p].uid) \ touched[p] :
               Carries(db'[k], cmd[p].patch)
<1>1. q = p
    BY DEF CommandStep, Start, Found, NotFound, UpdateNext, Finish, Fail, End,
           CommandsTypeOK
<1>2. Finish(p)
    BY <1>1 DEF CommandStep, Start, Found, NotFound, UpdateNext, Fail, End,
                CommandsTypeOK
<1>3. cmd[p].pc = "update" /\ cmd[p].todo = {} /\ UNCHANGED db
    BY <1>2 DEF Finish, End
<1> QED
    BY <1>3 DEF LoopAt, Applied

-----------------------------------------------------------------------------
(* The commands by themselves.                                             *)

\* The inductive invariant of the commands.
CommandsInv ==
    /\ SharedTypeOK
    /\ CommandsTypeOK
    /\ \A p \in Phones : LoopAt(p)

\* No loop runs at the start.
LEMMA CommandsInitInv == SharedInit /\ CommandsInit => CommandsInv
<1> SUFFICES ASSUME SharedInit, CommandsInit PROVE CommandsInv
    OBVIOUS
<1>1. \A p \in Phones : LoopAt(p)
    BY DEF CommandsInit, NoCommand, LoopAt
<1> QED
    BY <1>1, SharedInitType, CommandsInitType DEF CommandsInv

\* Commands of any phones, kills and connection losses keep the invariant.
LEMMA CommandsStepInv == CommandsInv /\ [CommandsNext]_commandsAllVars => CommandsInv'
<1> SUFFICES ASSUME CommandsInv, [CommandsNext]_commandsAllVars PROVE CommandsInv'
    OBVIOUS
<1>1. SharedTypeOK /\ CommandsTypeOK /\ \A p \in Phones : LoopAt(p)
    BY DEF CommandsInv
<1>2. ASSUME NEW p \in Phones, CommandStep(p) PROVE CommandsInv'
    <2>1. ASSUME NEW q \in Phones PROVE LoopAt(q)'
        BY <1>1, <1>2, LoopSelf, LoopOther
    <2> QED
        BY <1>1, <1>2, <2>1, CommandStepType DEF CommandsInv
<1>3. ASSUME NEW p \in Phones, SharedRestart(p), CommandsRestart(p)
      PROVE  CommandsInv'
    <2>1. ASSUME NEW q \in Phones PROVE LoopAt(q)'
        BY <1>1, <1>3, LoopRestart
    <2> QED
        BY <1>1, <1>3, <2>1, RestartType DEF CommandsInv
<1>4. ASSUME NEW p \in Phones, Connection(p), UNCHANGED commandVars
      PROVE  CommandsInv'
    <2>1. SharedTypeOK' /\ CommandsTypeOK'
        BY <1>1, <1>4, ConnectionType DEF CommandsTypeOK, commandVars
    <2>2. UNCHANGED <<db, cmd, touched>>
        BY <1>4 DEF Connection, commandVars
    <2>3. ASSUME NEW q \in Phones PROVE LoopAt(q)'
        BY <1>1, <2>2, LoopQuiet
    <2> QED
        BY <2>1, <2>3 DEF CommandsInv
<1>5. CASE UNCHANGED commandsAllVars
    <2>1. SharedTypeOK' /\ CommandsTypeOK'
        BY <1>1, <1>5 DEF SharedTypeOK, CommandsTypeOK, commandsAllVars,
                          commandVars, sharedVars
    <2>2. UNCHANGED <<db, cmd, touched>>
        BY <1>5 DEF commandsAllVars, commandVars, sharedVars
    <2>3. ASSUME NEW q \in Phones PROVE LoopAt(q)'
        BY <1>1, <2>2, LoopQuiet
    <2> QED
        BY <2>1, <2>3 DEF CommandsInv
<1> QED
    BY <1>2, <1>3, <1>4, <1>5 DEF CommandsNext

\* Whatever belongs to the user of a running bulk command, is not still to do
\* and was not written by another phone, carries the command's values, for
\* any number of phones, users and devices.
THEOREM CommandsLoopInvariant == CommandsSpec => []LoopInvariant
<1>1. CommandsInv => LoopInvariant
    BY DEF CommandsInv, LoopInvariant, LoopAt
<1> QED
    BY CommandsInitInv, CommandsStepInv, <1>1, PTL DEF CommandsSpec, CommandsStart

\* The awaited updates of a bulk command go through its list in key order and
\* skip no device, wherever a rejection or a kill stops them.
THEOREM CommandsNoDeviceSkipped == CommandsSpec => []NoDeviceSkipped
<1>1. CommandsInv => NoDeviceSkipped
    BY DEF CommandsInv, NoDeviceSkipped, LoopAt
<1> QED
    BY CommandsInitInv, CommandsStepInv, <1>1, PTL DEF CommandsSpec, CommandsStart

\* A call of a bulk command holds a user, the list it has read and what is left
\* of it, and ends in one of its three reports, for any number of phones.
THEOREM CommandsTypes == CommandsSpec => []CommandsTypeOK
<1>1. CommandsInv => CommandsTypeOK
    BY DEF CommandsInv
<1> QED
    BY CommandsInitInv, CommandsStepInv, <1>1, PTL DEF CommandsSpec, CommandsStart

\* "All shutters have been successfully opened", for the commands of any phones
\* by themselves: success is reported only when every device of the user that no
\* other phone wrote meanwhile has the command's values.
THEOREM CommandsSuccessMeansApplied == CommandsSpec => SuccessMeansApplied
<1>1. ASSUME CommandsInv, [CommandsNext]_commandsAllVars, NEW p \in Phones,
             report[p] # "success", report'[p] = "success"
      PROVE  \A k \in Query(db', cmd[p].uid) \ touched[p] :
                 Carries(db'[k], cmd[p].patch)
    <2>1. ASSUME NEW q \in Phones, CommandsRestart(q) PROVE FALSE
        BY <1>1, <2>1 DEF CommandsRestart, CommandsInv, CommandsTypeOK
    <2>2. PICK q \in Phones : CommandStep(q)
        BY <1>1, <2>1 DEF CommandsNext, commandsAllVars, commandVars
    <2> QED
        BY <1>1, <2>2, SuccessStep DEF CommandsInv
<1>2. CommandsInv /\ [CommandsNext]_commandsAllVars =>
         [\A p \in Phones :
             report[p] # "success" /\ report'[p] = "success" =>
                 \A k \in Query(db', cmd[p].uid) \ touched[p] :
                     Carries(db'[k], cmd[p].patch)]_commandsAllVars
    BY <1>1
<1> QED
    BY <1>2, CommandsInitInv, CommandsStepInv, PTL
       DEF CommandsSpec, CommandsStart, SuccessMeansApplied

=============================================================================
