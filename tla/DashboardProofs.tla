-------------------------- MODULE DashboardProofs --------------------------
(***************************************************************************)
(* The whole app, for any phones, users, devices and calls in flight: type *)
(* correctness, the refinement of the abstract store, complete records,    *)
(* the bulk commands' promise among writers of every kind, the single      *)
(* holder of the loader, that no card stays old without an event to come,  *)
(* and that every call that waits has its request on the wire.             *)
(***************************************************************************)
EXTENDS Dashboard, CommandsControllerProofs, WellFoundedInduction

\* Every patch a card or a dialog sends writes Booleans to flags.
LEMMA PatchesLemma == ASSUME NEW q \in Patches PROVE FlagPatch(q)
<1>1. CASE q = NoPatch
    BY <1>1 DEF NoPatch, FlagPatch
<1>2. CASE q = [settings |-> TRUE]
    <2>1. DOMAIN q = {"settings"} /\ q.settings \in BOOLEAN
        BY <1>2
    <2> QED
        BY <2>1 DEF FlagPatch, Flags
<1>3. CASE q = [alarmResetButton |-> TRUE]
    <2>1. DOMAIN q = {"alarmResetButton"} /\ q.alarmResetButton \in BOOLEAN
        BY <1>3
    <2> QED
        BY <2>1 DEF FlagPatch, Flags
<1>4. CASE q \in Switches
    BY <1>4, SwitchesAssumption DEF FlagPatch, Flags
<1>5. ASSUME NEW b \in BOOLEAN, q = [shutterIconStatus |-> b] PROVE FlagPatch(q)
    <2>1. DOMAIN q = {"shutterIconStatus"} /\ q.shutterIconStatus \in BOOLEAN
        BY <1>5
    <2> QED
        BY <2>1 DEF FlagPatch, Flags
<1> QED
    BY <1>1, <1>2, <1>3, <1>4, <1>5 DEF Patches

\* An empty slot and an empty list are of the right type.
LEMMA EmptyLemma ==
    /\ NoTask \in TaskRecords
    /\ NoTask.pc = "idle"
    /\ \E S \in SUBSET Devices : NoCards \in [S -> Records]
    /\ NoUser \in [st : {"absent", "fetching", "ready"}, id : Owners]
<1>1. NoTask \in TaskRecords /\ NoTask.pc = "idle"
    BY NullKeyAssumption DEF NoTask, TaskRecords, Patches, Owners
<1>2. NoCards \in [{} -> Records]
    BY DEF NoCards
<1>3. NoUser \in [st : {"absent", "fetching", "ready"}, id : Owners]
    BY DEF NoUser, Owners
<1> QED
    BY <1>1, <1>2, <1>3

\* The phones start without lists, dialogs and profiles.
LEMMA InitType == Init => TypeOK
<1> SUFFICES ASSUME Init PROVE TypeOK
    OBVIOUS
<1>1. SharedTypeOK /\ CommandsTypeOK
    BY SharedInitType, CommandsInitType DEF Init
<1>2. DevicesTypeOK
    BY EmptyLemma DEF Init, DevicesInit, DevicesTypeOK
<1>3. EventsTypeOK
    BY <1>1 DEF Init, SharedTypeOK, EventsTypeOK
<1> QED
    BY <1>1, <1>2, <1>3 DEF TypeOK

\* A change of one slot to a well-typed call keeps the types of the slots.
LEMMA SlotType ==
    ASSUME DevicesTypeOK, NEW t \in Tasks, NEW x \in TaskRecords,
           x.pc # "idle" => x.phone \in Phones,
           task' = [task EXCEPT ![t] = x], UNCHANGED <<devices, user>>,
           listening' \in [Phones -> BOOLEAN]
    PROVE  DevicesTypeOK'
BY DEF DevicesTypeOK

\* A slot that is freed keeps the types.
LEMMA FreedType ==
    ASSUME DevicesTypeOK, NEW t \in Tasks, task' = [task EXCEPT ![t] = NoTask],
           UNCHANGED <<devices, user>>, listening' \in [Phones -> BOOLEAN]
    PROVE  DevicesTypeOK'
BY EmptyLemma, SlotType

\* A call in flight that moves on keeps the types.
LEMMA MovedType ==
    ASSUME DevicesTypeOK, NEW t \in Tasks, NEW pc \in Dialogs \cup Requests,
           NEW q \in Patches, task[t].pc # "idle",
           task' = [task EXCEPT ![t].pc = pc, ![t].patch = q],
           UNCHANGED <<devices, user, listening>>
    PROVE  DevicesTypeOK'
<1> DEFINE x == [task[t] EXCEPT !.pc = pc, !.patch = q]
<1>1. task[t] \in TaskRecords /\ task[t].phone \in Phones
    BY DEF DevicesTypeOK
<1>2. x \in TaskRecords /\ x.phone \in Phones
    BY <1>1 DEF TaskRecords
<1>3. task' = [task EXCEPT ![t] = x]
    OBVIOUS
<1>4. listening' \in [Phones -> BOOLEAN]
    BY DEF DevicesTypeOK
<1> QED
    BY <1>2, <1>3, <1>4, SlotType

\* What a task step needs of the call in flight.
LEMMA CallType ==
    ASSUME DevicesTypeOK, NEW t \in Tasks, task[t].pc # "idle"
    PROVE  /\ task[t].phone \in Phones
           /\ task[t].key \in Devices
           /\ task[t].patch \in Patches
           /\ task[t].owner \in Owners
           /\ t \in Callers
BY TasksAssumption DEF DevicesTypeOK, TaskRecords

\* A tap that starts a call keeps the types.
LEMMA TapType ==
    ASSUME TypeOK, NEW t \in Tasks, NEW p \in Phones,
           ToggleTap(t, p) \/ OpenDialog(t, p) \/ SaveTap(t, p)
    PROVE  SharedTypeOK' /\ DevicesTypeOK'
<1> USE DEF TypeOK
<1>1. \A k \in DOMAIN devices[p] : k \in Devices /\ CardKey(p, k) \in Devices
    BY NullKeyAssumption DEF DevicesTypeOK, CardKey
<1>2. ASSUME NEW pc \in Dialogs \cup Requests, NEW k \in Devices, NEW o \in Owners,
             Begin(t, Call(pc, p, k, NoPatch, o)), UNCHANGED <<devices, listening, user>>
      PROVE  DevicesTypeOK'
    <2>1. Call(pc, p, k, NoPatch, o) \in TaskRecords
        BY DEF Call, TaskRecords, Patches
    <2>2. Call(pc, p, k, NoPatch, o).phone \in Phones
        BY DEF Call
    <2>3. listening' \in [Phones -> BOOLEAN]
        BY <1>2 DEF DevicesTypeOK
    <2> QED
        BY <1>2, <2>1, <2>2, <2>3, SlotType DEF Begin
<1>3. Send(p, t) => wire' \in [Phones -> Seq(Callers)]
    BY TasksAssumption, WireType
<1>4. CASE ToggleTap(t, p)
    <2>1. SharedTypeOK'
        BY <1>3, <1>4 DEF ToggleTap, SharedTypeOK
    <2>2. PICK k \in DOMAIN devices[p] :
              Begin(t, Call("toggleRead", p, CardKey(p, k), NoPatch, Empty))
        BY <1>4 DEF ToggleTap
    <2>3. DevicesTypeOK'
        BY <1>1, <1>2, <1>4, <2>2 DEF ToggleTap, Requests, Owners
    <2> QED
        BY <2>1, <2>3
<1>5. CASE OpenDialog(t, p)
    <2>1. SharedTypeOK'
        BY <1>5 DEF OpenDialog, SharedTypeOK, sharedVars
    <2>2. PICK op \in {"edit", "loading", "confirm"}, k \in DOMAIN devices[p] :
              Begin(t, Call(op, p, CardKey(p, k), NoPatch, Empty))
        BY <1>5 DEF OpenDialog
    <2>3. DevicesTypeOK'
        BY <1>1, <1>2, <1>5, <2>2 DEF OpenDialog, Dialogs, Owners
    <2> QED
        BY <2>1, <2>3
<1>6. CASE SaveTap(t, p)
    <2>1. SharedTypeOK'
        BY <1>3, <1>6, LoaderType, TasksAssumption DEF SaveTap, SharedTypeOK
    <2>2. PICK k \in Devices \ {NullKey} :
              Begin(t, Call("set", p, k, NoPatch,
                            IF user[p].st = "ready" THEN user[p].id ELSE Empty))
        BY <1>6 DEF SaveTap
    <2>3. (IF user[p].st = "ready" THEN user[p].id ELSE Empty) \in Owners
        BY DEF DevicesTypeOK, Owners
    <2>4. DevicesTypeOK'
        BY <1>2, <1>6, <2>2, <2>3 DEF SaveTap, Requests
    <2> QED
        BY <2>1, <2>4
<1> QED
    BY <1>4, <1>5, <1>6

\* A dialog that is left, or hands its call on, keeps the types.
LEMMA DialogType ==
    ASSUME TypeOK, NEW t \in Tasks,
           \/ Cancel(t) \/ Leave(t) \/ EditUpdate(t) \/ SaveSettings(t)
           \/ ResetAlarm(t) \/ ConfirmDelete(t) \/ FillForm(t) \/ FormFails(t)
    PROVE  SharedTypeOK' /\ DevicesTypeOK'
<1> USE DEF TypeOK
<1>1. ASSUME NEW from \in Dialogs, NEW to \in Requests, NEW q \in Patches,
             Confirm(t, from, to, q)
      PROVE  SharedTypeOK' /\ DevicesTypeOK'
    <2>1. task[t].pc # "idle"
        BY <1>1 DEF Confirm, Dialogs
    <2>2. wire' \in [Phones -> Seq(Callers)]
        BY <1>1, <2>1, CallType, WireType DEF Confirm
    <2>3. SharedTypeOK'
        BY <1>1, <2>2 DEF Confirm, SharedTypeOK
    <2>4. DevicesTypeOK'
        BY <1>1, <2>1, MovedType DEF Confirm
    <2> QED
        BY <2>3, <2>4
<1>2. CASE Cancel(t)
    <2>1. SharedTypeOK' /\ listening' \in [Phones -> BOOLEAN]
        BY <1>2 DEF Cancel, SharedTypeOK, sharedVars, DevicesTypeOK
    <2> QED
        BY <1>2, <2>1, FreedType DEF Cancel
<1>3. CASE EditUpdate(t) \/ SaveSettings(t) \/ ResetAlarm(t) \/ ConfirmDelete(t)
    <2>1. \A r \in {"update", "updating", "remove"} : r \in Requests
        BY DEF Requests
    <2>2. \A d \in {"edit", "form", "loading", "missing", "confirm"} : d \in Dialogs
        BY DEF Dialogs
    <2>3. /\ Switches \subseteq Patches /\ NoPatch \in Patches
          /\ [settings |-> TRUE] \in Patches
          /\ [alarmResetButton |-> TRUE] \in Patches
        BY DEF Patches
    <2> QED
        BY <1>1, <1>3, <2>1, <2>2, <2>3
           DEF EditUpdate, SaveSettings, ResetAlarm, ConfirmDelete
<1>4. CASE Leave(t) \/ FillForm(t) \/ FormFails(t)
    <2>1. SharedTypeOK'
        BY <1>4 DEF Leave, FillForm, FormFails, SharedTypeOK, sharedVars
    <2>2. task[t].pc # "idle" /\ task[t] \in TaskRecords
        BY <1>4 DEF Leave, FillForm, FormFails, DevicesTypeOK
    <2>3. PICK pc \in {"update", "form", "missing"} : task' = [task EXCEPT ![t].pc = pc]
        BY <1>4 DEF Leave, FillForm, FormFails
    <2> DEFINE x == [task[t] EXCEPT !.pc = pc]
    <2>4. x \in TaskRecords /\ x.phone = task[t].phone
        BY <2>2 DEF TaskRecords, Dialogs, Requests
    <2>5. task' = [task EXCEPT ![t] = x]
        BY <2>3
    <2>6. UNCHANGED <<devices, listening, user>> /\ listening' \in [Phones -> BOOLEAN]
        BY <1>4 DEF Leave, FillForm, FormFails, DevicesTypeOK
    <2>7. task[t].phone \in Phones
        BY <2>2, CallType
    <2> HIDE DEF x
    <2>8. DevicesTypeOK'
        BY <2>4, <2>5, <2>6, <2>7, SlotType
    <2> QED
        BY <2>1, <2>8
<1> QED
    BY <1>2, <1>3, <1>4

\* The writes that answer a call: a patch, a removal or a save of one record.
LEMMA WriteType ==
    ASSUME TypeOK, NEW t \in Tasks, NEW pc \in Requests, NEW r \in Records,
           Answers(t, pc), Put(Null, task[t].key, r), Ends(t),
           UNCHANGED <<session, online, devices, user>>,
           loader' \in [Phones -> [calls : SUBSET Callers, over : BOOLEAN]],
           listening' \in [Phones -> BOOLEAN]
    PROVE  SharedTypeOK' /\ DevicesTypeOK'
<1> USE DEF TypeOK
<1>1. task[t].pc # "idle"
    BY DEF Answers, Requests
<1>2. wire' \in [Phones -> Seq(Callers)]
    BY <1>1, CallType, WireType DEF Answers, Ends
<1>3. SharedTypeOK'
    BY <1>1, <1>2, CallType, PutType DEF SharedTypeOK
<1>4. DevicesTypeOK'
    BY FreedType DEF Ends
<1> QED
    BY <1>3, <1>4

\* The answers of the server keep the types.
LEMMA AnswerType ==
    ASSUME TypeOK, NEW t \in Tasks,
           \/ ToggleRead(t) \/ ToggleWrite(t) \/ Update(t) \/ RemoveDevice(t)
           \/ SetDevice(t) \/ Reject(t)
    PROVE  SharedTypeOK' /\ DevicesTypeOK'
<1> USE DEF TypeOK
<1>1. CASE ToggleRead(t)
    <2> DEFINE q == [shutterIconStatus |-> db[task[t].key]["shutterIconStatus"] # TRUE]
    <2>1. task[t].pc # "idle"
        BY <1>1 DEF ToggleRead, Answers
    <2>2. wire' \in [Phones -> Seq(Callers)]
        BY <1>1, <2>1, CallType, WireType DEF ToggleRead, Answers, Ends
    <2>3. SharedTypeOK'
        BY <1>1, <2>2 DEF ToggleRead, SharedTypeOK
    <2>4. q \in Patches
        <3>1. (db[task[t].key]["shutterIconStatus"] # TRUE) \in BOOLEAN
            BY Zenon
        <3> QED
            BY <3>1, Zenon DEF Patches
    <2>5. "toggleWrite" \in Requests /\ UNCHANGED <<devices, user, listening>>
        BY <1>1 DEF ToggleRead, Requests
    <2>6. listening' \in [Phones -> BOOLEAN]
        BY <2>5 DEF DevicesTypeOK
    <2>7. CASE db[task[t].key] = NoRecord
        BY <1>1, <2>3, <2>5, <2>6, <2>7, FreedType DEF ToggleRead, Ends
    <2>8. CASE db[task[t].key] # NoRecord
        <3>1. task' = [task EXCEPT ![t].pc = "toggleWrite", ![t].patch = q]
            BY <1>1, <2>8, Zenon DEF ToggleRead
        <3> HIDE DEF q
        <3> QED
            BY <2>1, <2>3, <2>4, <2>5, <3>1, MovedType
    <2> QED
        BY <2>7, <2>8
<1>2. CASE ToggleWrite(t) \/ Update(t)
    <2>1. PICK pc \in Requests : Answers(t, pc)
        BY <1>2 DEF ToggleWrite, Update, Requests
    <2>2. task[t].pc # "idle"
        BY <2>1 DEF Answers, Requests
    <2>3. Merge(db[task[t].key], task[t].patch) \in Records
        BY <2>2, CallType, PatchesLemma, MergeLemma DEF SharedTypeOK
    <2>4. /\ loader' \in [Phones -> [calls : SUBSET Callers, over : BOOLEAN]]
          /\ listening' \in [Phones -> BOOLEAN]
        BY <1>2 DEF ToggleWrite, Update, SharedTypeOK, DevicesTypeOK
    <2> QED
        BY <1>2, <2>1, <2>3, <2>4, WriteType DEF ToggleWrite, Update
<1>3. CASE RemoveDevice(t)
    <2>0. task[t].phone \in Phones /\ t \in Callers
        BY <1>3, CallType DEF RemoveDevice, Answers
    <2>1. /\ loader' \in [Phones -> [calls : SUBSET Callers, over : BOOLEAN]]
          /\ listening' \in [Phones -> BOOLEAN]
        BY <1>3, <2>0, LoaderType DEF RemoveDevice, OpenHome, DevicesTypeOK
    <2> QED
        BY <1>3, <2>1, NoRecordLemma, WriteType DEF RemoveDevice, Requests
<1>4. CASE SetDevice(t)
    <2>1. task[t].pc # "idle"
        BY <1>4 DEF SetDevice, Answers
    <2>2. NewDevice(task[t].owner) \in Records
        BY <2>1, CallType, NewDeviceLemma
    <2>3. /\ loader' \in [Phones -> [calls : SUBSET Callers, over : BOOLEAN]]
          /\ listening' \in [Phones -> BOOLEAN]
        BY <1>4, <2>1, CallType, LoaderType DEF SetDevice, OpenHome, DevicesTypeOK
    <2> QED
        BY <1>4, <2>2, <2>3, WriteType DEF SetDevice, Requests
<1>5. CASE Reject(t)
    <2>1. task[t].pc # "idle"
        BY <1>5 DEF Reject, Requests
    <2>2. wire' \in [Phones -> Seq(Callers)]
        BY <1>5, <2>1, CallType, WireType DEF Reject, Answers, Ends
    <2>3. SharedTypeOK'
        BY <1>5, <2>1, <2>2, CallType, LoaderType DEF Reject, SharedTypeOK
    <2>4. listening' \in [Phones -> BOOLEAN]
        BY <1>5 DEF Reject, DevicesTypeOK
    <2>5. DevicesTypeOK'
        BY <1>5, <2>4, FreedType DEF Reject, Ends
    <2> QED
        BY <2>3, <2>5
<1> QED
    BY <1>1, <1>2, <1>3, <1>4, <1>5

\* The drawer, the session and the disposal keep the types.
LEMMA PhoneType ==
    ASSUME TypeOK, NEW p \in Phones, PhoneStep(p) \/ SessionStep(p)
    PROVE  SharedTypeOK' /\ DevicesTypeOK'
<1> USE DEF TypeOK
<1>2. CASE OpenDrawer(p)
    <2>1. session[p] \in Users \cup {Null} /\ Empty \in Owners
        BY DEF SharedTypeOK, Owners
    <2>2. user' \in [Phones -> [st : {"absent", "fetching", "ready"}, id : Owners]]
        BY <1>2, <2>1 DEF OpenDrawer, DevicesTypeOK, Owners
    <2> QED
        BY <1>2, <2>2 DEF OpenDrawer, SharedTypeOK, sharedVars, DevicesTypeOK
<1>3. CASE UserAnswer(p)
    <2>1. user' \in [Phones -> [st : {"absent", "fetching", "ready"}, id : Owners]]
        BY <1>3 DEF UserAnswer, DevicesTypeOK, Owners
    <2> QED
        BY <1>3, <2>1 DEF UserAnswer, SharedTypeOK, sharedVars, DevicesTypeOK
<1>4. CASE Dispose(p)
    <2>1. SharedTypeOK'
        BY <1>4 DEF Dispose, SharedTypeOK, sharedVars
    <2>2. DevicesTypeOK'
        BY <1>4, EmptyLemma DEF Dispose, DevicesTypeOK
    <2> QED
        BY <2>1, <2>2
<1>5. CASE SignOut(p)
    <2>1. loader' \in [Phones -> [calls : SUBSET Callers, over : BOOLEAN]]
        BY <1>5, LoaderType, BulkAssumption DEF SignOut
    <2> QED
        BY <1>5, <2>1 DEF SignOut, SharedTypeOK, DevicesTypeOK, deviceVars
<1>6. ASSUME NEW u \in Users, SignIn(p, u) PROVE SharedTypeOK' /\ DevicesTypeOK'
    BY <1>6 DEF SignIn, OpenHome, SharedTypeOK, DevicesTypeOK
<1> QED
    BY <1>2, <1>3, <1>4, <1>5, <1>6 DEF PhoneStep, SessionStep

\* A killed app loses its calls and lists, and the others keep theirs.
LEMMA DevicesRestartType ==
    ASSUME TypeOK, NEW p \in Phones, DevicesRestart(p)
    PROVE  DevicesTypeOK'
BY EmptyLemma DEF TypeOK, DevicesRestart, DevicesTypeOK

\* A bulk command of the app is a step of CommandsController.
LEMMA BulkCommand == ASSUME NEW p, Bulk(p) PROVE CommandStep(p) /\ UNCHANGED <<devices, user, task>>
BY DEF Bulk, CommandStep, deviceVars

\* A set of indices has a greatest one.
LEMMA MaxIndex ==
    ASSUME NEW n \in Nat, NEW S \in SUBSET (1..n), S # {}
    PROVE  Max(S) \in S
<1> DEFINE below == {n - i : i \in S}
<1>1. below \subseteq Nat /\ below # {}
    <2>1. \A i \in S : n - i \in Nat
        OBVIOUS
    <2>2. \E i \in S : TRUE
        OBVIOUS
    <2> QED
        BY <2>1, <2>2
<1>2. \E x \in below : \A y \in below : ~(<<y, x>> \in OpToRel(<, Nat))
    <2> HIDE DEF below
    <2> QED
        BY <1>1, WFMin, NatLessThanWellFounded
<1>3. PICK x \in below : \A y \in below : ~(y < x)
    BY <1>1, <1>2 DEF OpToRel
<1>4. PICK i \in S : x = n - i
    OBVIOUS
<1>5. \A j \in S : i >= j
    BY <1>3, <1>4
<1> QED
    BY <1>5 DEF Max

\* What a request of a phone writes: a whole record, or some of its flags.
LEMMA ChildrenType ==
    ASSUME TypeOK, NEW p \in Phones, NEW c \in Callers
    PROVE  Children(p, c) \in Records \/ FlagPatch(Children(p, c))
<1> USE DEF TypeOK
<1>1. CASE c = "bulk"
    <2>1. cmd[p].patch \in Commands
        BY DEF CommandsTypeOK, CommandRecords
    <2> QED
        BY <1>1, <2>1, CommandsLemma DEF Children
<1>2. CASE c # "bulk"
    <2>1. task[c].patch \in Patches /\ task[c].owner \in Owners
        BY <1>2, CallersAssumption DEF DevicesTypeOK, TaskRecords
    <2>2. /\ NewDevice(task[c].owner) \in Records /\ NoRecord \in Records
          /\ FlagPatch(task[c].patch)
        BY <2>1, NewDeviceLemma, NoRecordLemma, PatchesLemma
    <2> QED
        BY <1>2, <2>2 DEF Children
<1> QED
    BY <1>1, <1>2

\* What a phone sees is a node.
LEMMA ViewType == ASSUME TypeOK, NEW p \in Phones PROVE View(p) \in [Devices -> Records]
<1> DEFINE own(k) == Unanswered(p, k)
           last(k) == Children(p, wire[p][Max(own(k))])
           at(k, f) == {i \in own(k) : f \in DOMAIN Children(p, wire[p][i])}
           child(k, f) == IF at(k, f) = {} THEN heard[p][k][f]
                          ELSE Children(p, wire[p][Max(at(k, f))])[f]
           seen(k) == IF own(k) = {} THEN heard[p][k]
                      ELSE IF DOMAIN last(k) = Fields THEN last(k)
                      ELSE [f \in Fields |-> child(k, f)]
<1>1. /\ DOMAIN wire[p] = 1..Len(wire[p]) /\ Len(wire[p]) \in Nat
      /\ \A i \in DOMAIN wire[p] : wire[p][i] \in Callers
    BY DEF TypeOK, SharedTypeOK
<1>2. ASSUME NEW k \in Devices PROVE heard[p][k] \in Records
    BY DEF TypeOK, EventsTypeOK
<1>3. ASSUME NEW k \in Devices PROVE seen(k) \in Records
    <2>1. own(k) \in SUBSET (1..Len(wire[p]))
        BY <1>1 DEF Unanswered
    <2> HIDE DEF own
    <2>2. CASE own(k) = {}
        BY <1>2, <2>2
    <2>3. CASE own(k) # {} /\ DOMAIN last(k) = Fields
        <3>1. Max(own(k)) \in own(k)
            BY <1>1, <2>1, <2>3, MaxIndex
        <3>2. last(k) \in Records \/ FlagPatch(last(k))
            BY <1>1, <2>1, <3>1, ChildrenType
        <3> HIDE DEF last
        <3>3. last(k) \in Records
            BY <2>3, <3>2 DEF FlagPatch, Fields, Flags
        <3> QED
            BY <2>3, <3>3
    <2>4. CASE own(k) # {} /\ DOMAIN last(k) # Fields
        <3>1. ASSUME NEW f \in Fields
              PROVE  /\ child(k, f) \in Owners \cup BOOLEAN \cup {Null}
                     /\ f = "userId" => child(k, f) \in Owners \cup {Null}
                     /\ f \in Flags => child(k, f) \in BOOLEAN \cup {Null}
            <4>1. CASE at(k, f) = {}
                BY <1>2, <4>1 DEF Records
            <4>2. CASE at(k, f) # {}
                <5>1. at(k, f) \in SUBSET (1..Len(wire[p]))
                    BY <2>1
                <5>2. Max(at(k, f)) \in at(k, f)
                    <6> HIDE DEF at
                    <6> QED
                        BY <1>1, <4>2, <5>1, MaxIndex
                <5> DEFINE write == Children(p, wire[p][Max(at(k, f))])
                <5>3. f \in DOMAIN write
                    BY <5>2
                <5>4. write \in Records \/ FlagPatch(write)
                    BY <1>1, <5>1, <5>2, ChildrenType
                <5>5. child(k, f) = write[f]
                    BY <4>2
                <5> HIDE DEF write, child, at
                <5> QED
                    BY <5>3, <5>4, <5>5 DEF Records, FlagPatch, Flags
            <4> QED
                BY <4>1, <4>2
        <3> HIDE DEF child
        <3>2. [f \in Fields |-> child(k, f)] \in Records
            BY <3>1 DEF Records, Fields
        <3> QED
            BY <2>4, <3>2
    <2> QED
        BY <2>2, <2>3, <2>4
<1>4. View(p) = [k \in Devices |-> seen(k)]
    BY DEF View
<1> HIDE DEF seen
<1> QED
    BY <1>3, <1>4

\* What the SDK keeps of the events is of the right type.
LEMMA EventsType ==
    ASSUME TypeOK, SharedTypeOK', NEW new, Events(new)
    PROVE  EventsTypeOK'
<1>1. [k \in Devices |-> NoRecord] \in [Devices -> Records]
    BY NoRecordLemma
<1>2. heard' \in [Phones -> [Devices -> Records]]
    BY <1>1 DEF Events, TypeOK, SharedTypeOK, EventsTypeOK
<1>3. ASSUME NEW p \in Phones
      PROVE  (news[p] \/ p \in new \/ ~listening'[p] \/ View(p)' # View(p)) \in BOOLEAN
    BY Zenon
<1>4. news' \in [Phones -> BOOLEAN]
    BY <1>3, Zenon DEF Events
<1> QED
    BY <1>2, <1>4 DEF EventsTypeOK

\* The list a listener builds is a list of records.
LEMMA DeliverType == ASSUME TypeOK, NEW p \in Phones, Deliver(p) PROVE TypeOK'
<1> USE DEF TypeOK
<1> DEFINE node == View(p)
           list == Listed(node, session[p])
<1>1. node \in [Devices -> Records]
    BY ViewType
<1>2. \E S \in SUBSET Devices : list \in [S -> Records]
    <2> HIDE DEF node
    <2>1. Query(node, session[p]) \in SUBSET Devices
        BY DEF Query
    <2>2. list \in [Query(node, session[p]) -> Records]
        BY <1>1, <2>1 DEF Listed
    <2> QED
        BY <2>1, <2>2
<1>3. devices' = [devices EXCEPT ![p] = list]
    BY DEF Deliver
<1> HIDE DEF list
<1>4. DevicesTypeOK'
    BY <1>2, <1>3 DEF Deliver, DevicesTypeOK
<1>5. SharedTypeOK' /\ CommandsTypeOK'
    BY DEF Deliver, sharedVars, commandVars, SharedTypeOK, CommandsTypeOK
<1>6. EventsTypeOK'
    BY DEF Deliver, EventsTypeOK
<1> QED
    BY <1>4, <1>5, <1>6

\* Every step of the app keeps the types.
LEMMA StepType == TypeOK /\ [Next]_vars => TypeOK'
<1> SUFFICES ASSUME TypeOK, [Next]_vars PROVE TypeOK'
    OBVIOUS
<1> DEFINE AppTypeOK == SharedTypeOK /\ CommandsTypeOK /\ DevicesTypeOK
<1>1. SharedTypeOK /\ CommandsTypeOK /\ DevicesTypeOK
    BY DEF TypeOK
<1>2. UNCHANGED commandVars => CommandsTypeOK'
    BY <1>1 DEF commandVars, CommandsTypeOK
<1>3. UNCHANGED deviceVars => DevicesTypeOK'
    BY <1>1 DEF deviceVars, DevicesTypeOK
<1>4. ASSUME NEW p \in Phones, Bulk(p) PROVE AppTypeOK'
    <2>1. SharedTypeOK' /\ CommandsTypeOK'
        BY <1>1, <1>4, BulkCommand, CommandStepType
    <2>2. listening' \in [Phones -> BOOLEAN] /\ UNCHANGED <<devices, user, task>>
        BY <1>1, <1>4, BulkCommand DEF Bulk, OpenHome, deviceVars, DevicesTypeOK
    <2>3. DevicesTypeOK'
        BY <1>1, <2>2 DEF DevicesTypeOK
    <2> QED
        BY <2>1, <2>3
<1>5. ASSUME NEW p \in Phones, Restart(p) PROVE AppTypeOK'
    BY <1>1, <1>5, RestartType, DevicesRestartType DEF Restart
<1>6. ASSUME NEW p \in Phones, Connection(p), UNCHANGED <<commandVars, deviceVars>>
      PROVE  AppTypeOK'
    BY <1>1, <1>2, <1>3, <1>6, ConnectionType
<1>7. ASSUME NEW p \in Phones, PhoneStep(p) \/ SessionStep(p), UNCHANGED commandVars
      PROVE  AppTypeOK'
    BY <1>2, <1>7, PhoneType
<1>8. ASSUME NEW t \in Tasks, TaskStep(t), UNCHANGED commandVars PROVE AppTypeOK'
    <2>1. SharedTypeOK' /\ DevicesTypeOK'
        BY <1>8, TapType, DialogType, AnswerType DEF TaskStep, Answer
    <2> QED
        BY <1>2, <1>8, <2>1
<1>9. ASSUME AppTypeOK', NEW new, Events(new) PROVE TypeOK'
    BY <1>9, EventsType DEF TypeOK
<1>10. CASE UNCHANGED vars
    BY <1>1, <1>2, <1>3, <1>10 DEF vars, sdkVars, sharedVars, SharedTypeOK,
                                     EventsTypeOK, TypeOK
<1> HIDE DEF AppTypeOK
<1> QED
    BY <1>4, <1>5, <1>6, <1>7, <1>8, <1>9, <1>10, DeliverType DEF Next, SameUserNext

\* The app's state is well typed, whatever phones, users, devices and calls
\* in flight there are.
THEOREM DashboardTypeOK == Spec => []TypeOK
BY InitType, StepType, PTL DEF Spec

-----------------------------------------------------------------------------
(* What is written.                                                        *)

\* What a step may store at key k: nothing, a new device, or a patch of what
\* is there.
Written(k, r) ==
    \/ r = NoRecord
    \/ \E u \in Owners : r = NewDevice(u)
    \/ \E q \in Commands \cup Patches : r = Merge(db[k], q)

\* A call in flight writes at most one record, and every phone's loop learns
\* that it is touched.
LEMMA TaskWrite ==
    ASSUME TypeOK, NEW t \in Tasks, TaskStep(t)
    PROVE  \/ UNCHANGED <<db, touched>>
           \/ \E k \in Devices : \E r \in Records : Put(Null, k, r) /\ Written(k, r)
<1> USE DEF TypeOK
<1>1. CASE ToggleWrite(t) \/ Update(t)
    <2>1. task[t].pc # "idle"
        BY <1>1 DEF ToggleWrite, Update, Answers
    <2>2. /\ Put(Null, task[t].key, Merge(db[task[t].key], task[t].patch))
          /\ Merge(db[task[t].key], task[t].patch) \in Records
        BY <1>1, <2>1, CallType, PatchesLemma, MergeLemma
           DEF ToggleWrite, Update, SharedTypeOK
    <2> QED
        BY <2>1, <2>2, CallType DEF Written
<1>2. CASE RemoveDevice(t)
    <2>1. task[t].pc # "idle" /\ Put(Null, task[t].key, NoRecord)
        BY <1>2 DEF RemoveDevice, Answers
    <2> QED
        BY <2>1, CallType, NoRecordLemma DEF Written
<1>3. CASE SetDevice(t)
    <2>1. task[t].pc # "idle" /\ Put(Null, task[t].key, NewDevice(task[t].owner))
        BY <1>3 DEF SetDevice, Answers
    <2> QED
        BY <2>1, CallType, NewDeviceLemma DEF Written
<1>4. CASE ~(ToggleWrite(t) \/ Update(t) \/ RemoveDevice(t) \/ SetDevice(t))
    BY <1>4 DEF TaskStep, Answer, ToggleTap, OpenDialog, SaveTap, Cancel, Leave, EditUpdate,
                SaveSettings, ResetAlarm, ConfirmDelete, Confirm, ToggleRead, FillForm,
                Reject, FormFails, sharedVars
<1> QED
    BY <1>1, <1>2, <1>3, <1>4

\* A step of a bulk command writes at most one record, a patch.
LEMMA CommandWrite ==
    ASSUME TypeOK, NEW p \in Phones, CommandStep(p)
    PROVE  \/ UNCHANGED db
           \/ \E k \in Devices : \E r \in Records :
                 db' = [db EXCEPT ![k] = r] /\ Written(k, r)
<1> USE DEF TypeOK
<1>1. CASE UpdateNext(p)
    <2>1. PICK k \in cmd[p].todo : Put(p, k, Merge(db[k], cmd[p].patch))
        BY <1>1 DEF UpdateNext
    <2>2. k \in Devices /\ cmd[p].patch \in Commands /\ db[k] \in Records
        BY DEF CommandsTypeOK, CommandRecords, SharedTypeOK
    <2>3. Merge(db[k], cmd[p].patch) \in Records
        BY <2>2, CommandsLemma, MergeLemma
    <2> QED
        BY <2>1, <2>2, <2>3 DEF Put, Written
<1>2. CASE ~UpdateNext(p)
    BY <1>2 DEF CommandStep, Start, Found, NotFound, Finish, Fail, End
<1> QED
    BY <1>1, <1>2

\* A step of the app writes at most one record, in one of three ways.
LEMMA StepWrite ==
    ASSUME TypeOK, [Next]_vars
    PROVE  \/ UNCHANGED db
           \/ \E k \in Devices : \E r \in Records :
                 db' = [db EXCEPT ![k] = r] /\ Written(k, r)
<1>1. ASSUME NEW p \in Phones, Bulk(p)
      PROVE  \/ UNCHANGED db
             \/ \E k \in Devices : \E r \in Records :
                   db' = [db EXCEPT ![k] = r] /\ Written(k, r)
    BY <1>1, BulkCommand, CommandWrite
<1>2. ASSUME NEW p \in Phones,
             Restart(p) \/ Connection(p) \/ PhoneStep(p) \/ SessionStep(p) \/ Deliver(p)
      PROVE  UNCHANGED db
    BY <1>2 DEF Restart, SharedRestart, Connection, PhoneStep, Deliver, OpenDrawer,
                UserAnswer, Dispose, SessionStep, SignIn, SignOut, sharedVars
<1>3. ASSUME NEW t \in Tasks, TaskStep(t)
      PROVE  \/ UNCHANGED db
             \/ \E k \in Devices : \E r \in Records :
                   db' = [db EXCEPT ![k] = r] /\ Written(k, r)
    BY <1>3, TaskWrite DEF Put
<1>4. CASE UNCHANGED vars
    BY <1>4 DEF vars, sharedVars
<1> QED
    BY <1>1, <1>2, <1>3, <1>4 DEF Next, SameUserNext

\* A patch of the app writes the children of one of the store's updates, or
\* none.
LEMMA UpdatedLemma ==
    ASSUME NEW q \in Commands \cup Patches, NEW r \in Records
    PROVE  Merge(r, q) = r \/ DOMAIN q \in Store!Updated
<1>1. CASE q \in Commands
    <2>1. DOMAIN q \in {{"shutterIconStatus"}, {"deviceStatus"}, {"calenderStatus"},
                        {"shutterIconStatus", "deviceStatus"}}
        BY <1>1 DEF Commands, openAll, closeAll, playAll, stopAll, openAllAndStop,
                    closeAllAndStop, calenderON, calenderOFF
    <2> QED
        BY <2>1 DEF Store!Updated
<1>2. CASE q = NoPatch
    <2>1. DOMAIN q = {}
        BY <1>2 DEF NoPatch
    <2> QED
        BY <2>1 DEF Merge, Records
<1>3. CASE q \in Switches
    <2>1. DOMAIN q = {"deviceStatus", "calenderStatus", "fAuto"}
        BY <1>3, SwitchesAssumption
    <2> QED
        BY <2>1 DEF Store!Updated
<1>4. CASE q = [settings |-> TRUE] \/ q = [alarmResetButton |-> TRUE]
    <2>1. DOMAIN q = {"settings"} \/ DOMAIN q = {"alarmResetButton"}
        BY <1>4
    <2> QED
        BY <2>1 DEF Store!Updated
<1>5. ASSUME NEW b \in BOOLEAN, q = [shutterIconStatus |-> b]
      PROVE  DOMAIN q \in Store!Updated
    <2>1. DOMAIN q = {"shutterIconStatus"}
        BY <1>5
    <2> QED
        BY <2>1 DEF Store!Updated
<1> QED
    BY <1>1, <1>2, <1>3, <1>4, <1>5 DEF Patches

\* Every step of the app is a step of the abstract store, or leaves it alone.
LEMMA StepRefines == TypeOK /\ [Next]_vars => [Store!StoreNext]_db
<1> SUFFICES ASSUME TypeOK, [Next]_vars PROVE UNCHANGED db \/ Store!StoreNext
    OBVIOUS
<1>1. CASE UNCHANGED db
    BY <1>1
<1>2. ASSUME NEW k \in Devices, NEW r \in Records,
             db' = [db EXCEPT ![k] = r], Written(k, r)
      PROVE  UNCHANGED db \/ Store!StoreNext
    <2>0. db \in [Devices -> Records] /\ db'[k] = r
        BY <1>2 DEF TypeOK, SharedTypeOK
    <2>1. CASE r = NoRecord
        <3>1. Store!Remove(k)
            BY <1>2, <2>1 DEF Store!Remove, Store!NoRecord, NoRecord, Store!Fields,
                              Fields, Store!Flags, Flags
        <3> QED
            BY <3>1 DEF Store!StoreNext
    <2>2. ASSUME NEW u \in Owners, r = NewDevice(u) PROVE Store!StoreNext
        <3>1. Store!Save(k)
            BY <1>2, <2>2 DEF Store!Save, Store!NewDevice, NewDevice, Store!Fields,
                              Fields, Store!Flags, Flags, Store!Owners, Owners
        <3> QED
            BY <3>1 DEF Store!StoreNext
    <2>3. ASSUME NEW q \in Commands \cup Patches, r = Merge(db[k], q)
          PROVE  UNCHANGED db \/ Store!StoreNext
        <3>1. r = db[k] \/ DOMAIN q \in Store!Updated
            BY <2>0, <2>3, UpdatedLemma
        <3>2. CASE r = db[k]
            BY <1>2, <2>0, <3>2
        <3>3. CASE DOMAIN q \in Store!Updated
            <4>1. Store!Records = Records /\ Store!Fields = Fields
                BY DEF Store!Records, Records, Store!Fields, Fields, Store!Flags, Flags,
                       Store!Owners, Owners
            <4>2. FlagPatch(q)
                BY CommandsLemma, PatchesLemma
            <4>3. /\ \A f \in DOMAIN q : r[f] \in BOOLEAN
                  /\ \A f \in Fields \ DOMAIN q : r[f] = db[k][f]
                BY <2>3, <4>2 DEF Merge, FlagPatch, Fields
            <4>4. Store!Patch(k)
                BY <1>2, <2>0, <3>3, <4>1, <4>3 DEF Store!Patch
            <4> QED
                BY <4>4 DEF Store!StoreNext
        <3> QED
            BY <3>1, <3>2, <3>3
    <2> QED
        BY <1>2, <2>1, <2>2, <2>3 DEF Written
<1> QED
    BY <1>1, <1>2, StepWrite

\* The app starts with a node the abstract store may start with.
LEMMA InitRefines == Init => Store!StoreInit
BY DEF Init, SharedInit, Store!StoreInit, Store!NoRecord, NoRecord, Store!NewDevice,
       NewDevice, Store!Fields, Fields, Store!Flags, Flags

\* The app implements the abstract store: whatever phones do and whatever is
\* in flight, a step saves a complete record, removes one, or writes the children
\* of one of the app's updates and leaves the others of that record alone.
THEOREM DashboardImplementsStore == Spec => StoreSpec
<1>1. Init /\ [][Next]_vars /\ []TypeOK => Store!StoreSpec
    BY InitRefines, StepRefines, PTL DEF Store!StoreSpec
<1> QED
    BY <1>1, DashboardTypeOK, PTL DEF Spec, StoreSpec

-----------------------------------------------------------------------------
(* Complete records.                                                       *)

\* Every saved device is complete, so the node is at the start.
LEMMA InitComplete == Init => OwnedComplete
<1>1. \A u \in Users : Complete(NewDevice(u))
    BY NewDeviceLemma DEF Owners
<1>2. Complete(NoRecord)
    BY NoRecordLemma DEF Complete
<1>3. \A r : Store!Complete(r) <=> Complete(r)
    BY DEF Store!Complete, Complete, Store!Flags, Flags
<1> QED
    BY <1>1, <1>2, <1>3 DEF Init, SharedInit, OwnedComplete, Store!OwnedComplete

\* No write leaves a record with an owner and without one of its children.
LEMMA StepComplete == TypeOK /\ OwnedComplete /\ [Next]_vars => OwnedComplete'
<1> SUFFICES ASSUME TypeOK, OwnedComplete, [Next]_vars PROVE OwnedComplete'
    OBVIOUS
<1>1. \A r : Store!Complete(r) <=> Complete(r)
    BY DEF Store!Complete, Complete, Store!Flags, Flags
<1>2. CASE UNCHANGED db
    BY <1>1, <1>2 DEF OwnedComplete, Store!OwnedComplete
<1>3. ASSUME NEW k \in Devices, NEW r \in Records,
             db' = [db EXCEPT ![k] = r], Written(k, r)
      PROVE  OwnedComplete'
    <2>1. db \in [Devices -> Records]
        BY DEF TypeOK, SharedTypeOK
    <2>2. Complete(db[k])
        BY <1>1 DEF OwnedComplete, Store!OwnedComplete
    <2>3. Complete(NoRecord) /\ \A u \in Owners : Complete(NewDevice(u))
        BY NoRecordLemma, NewDeviceLemma DEF Complete
    <2>4. ASSUME NEW q \in Commands \cup Patches, r = Merge(db[k], q) PROVE Complete(r)
        <3>1. /\ r["userId"] = db[k]["userId"]
              /\ \A f \in Flags : r[f] = Null => db[k][f] = Null
            BY <2>1, <2>4, CommandsLemma, PatchesLemma, MergeLemma
        <3>2. \A f \in Flags : r[f] \in BOOLEAN \cup {Null}
            BY DEF Records
        <3> QED
            BY <2>2, <3>1, <3>2, NullAssumption DEF Complete
    <2>5. Complete(r)
        BY <1>3, <2>3, <2>4 DEF Written
    <2>6. \A l \in Devices : db'[l] = IF l = k THEN r ELSE db[l]
        BY <1>3, <2>1
    <2> QED
        BY <1>1, <2>5, <2>6 DEF OwnedComplete, Store!OwnedComplete
<1> QED
    BY <1>2, <1>3, StepWrite

\* A record with an owner always has every child, so the casts of
\* setupAutoPlayShutters do not throw, whatever saves, updates, toggles, bulk
\* commands and deletions interleave.
THEOREM DashboardOwnedComplete == Spec => []OwnedComplete
<1>1. Init /\ [][Next]_vars /\ []TypeOK => []OwnedComplete
    BY InitComplete, StepComplete, PTL
<1> QED
    BY <1>1, DashboardTypeOK, PTL DEF Spec

-----------------------------------------------------------------------------
(* The bulk commands among the other writers.                              *)

Loops == \A p \in Phones : LoopAt(p)

\* No loop runs at the start.
LEMMA InitLoops == Init => Loops
BY DEF Init, CommandsInit, NoCommand, Loops, LoopAt

\* Every step of the app, a deletion or a save among them, keeps every loop.
LEMMA StepLoops == TypeOK /\ Loops /\ [Next]_vars => Loops'
<1> SUFFICES ASSUME TypeOK, Loops, [Next]_vars, NEW q \in Phones PROVE LoopAt(q)'
    BY DEF Loops
<1>1. SharedTypeOK /\ CommandsTypeOK /\ DevicesTypeOK /\ LoopAt(q)
    BY DEF TypeOK, Loops
<1>2. UNCHANGED <<db, cmd, touched>> => LoopAt(q)'
    BY <1>1, LoopQuiet
<1>3. ASSUME NEW p \in Phones, Bulk(p) PROVE LoopAt(q)'
    BY <1>1, <1>3, BulkCommand, LoopSelf, LoopOther
<1>4. ASSUME NEW p \in Phones, Restart(p) PROVE LoopAt(q)'
    BY <1>1, <1>4, LoopRestart DEF Restart
<1>5. ASSUME NEW p \in Phones, Connection(p) \/ PhoneStep(p) \/ SessionStep(p),
             UNCHANGED commandVars
      PROVE  LoopAt(q)'
    <2>1. UNCHANGED <<db, cmd, touched>>
        BY <1>5 DEF Connection, PhoneStep, OpenDrawer, UserAnswer, Dispose,
                    SessionStep, SignIn, SignOut, sharedVars, commandVars
    <2> QED
        BY <1>2, <2>1
<1>6. ASSUME NEW t \in Tasks, TaskStep(t), UNCHANGED commandVars PROVE LoopAt(q)'
    <2>1. UNCHANGED cmd /\ cmd'[q] = cmd[q]
        BY <1>6 DEF commandVars
    <2>2. CASE UNCHANGED <<db, touched>>
        BY <1>2, <2>1, <2>2
    <2>3. ASSUME NEW k \in Devices, NEW r \in Records, Put(Null, k, r)
          PROVE  LoopAt(q)'
        BY <1>1, <2>1, <2>3, LoopOthers, PhonesAssumption
    <2> QED
        BY <1>6, <2>2, <2>3, TaskWrite
<1>7. ASSUME NEW p \in Phones, Deliver(p) PROVE LoopAt(q)'
    BY <1>2, <1>7 DEF Deliver, sharedVars, commandVars
<1>8. CASE UNCHANGED vars
    BY <1>2, <1>8 DEF vars, sharedVars, commandVars
<1> QED
    BY <1>3, <1>4, <1>5, <1>6, <1>7, <1>8 DEF Next, SameUserNext

\* A step that reports success leaves every device of the command's user that
\* nobody else has written as the command wants it.
LEMMA StepSuccess ==
    ASSUME TypeOK, Loops, [Next]_vars, NEW p \in Phones,
           report[p] # "success", report'[p] = "success"
    PROVE  \A k \in Query(db', cmd[p].uid) \ touched[p] :
               Carries(db'[k], cmd[p].patch)
<1>1. PICK q \in Phones : Bulk(q)
    <2>1. ~UNCHANGED report
        OBVIOUS
    <2>2. ASSUME NEW q \in Phones, Restart(q) PROVE FALSE
        BY <2>2 DEF Restart, CommandsRestart, TypeOK, CommandsTypeOK
    <2> QED
        BY <2>1, <2>2 DEF Next, SameUserNext, Deliver, vars, commandVars
<1> QED
    BY <1>1, BulkCommand, SuccessStep DEF TypeOK, Loops

\* "All shutters have been successfully opened": a bulk command that reports
\* success has been applied to every device of its user, except those that
\* someone else wrote between its query and its end.
THEOREM DashboardSuccessMeansApplied == Spec => SuccessMeansApplied
<1>1. TypeOK /\ Loops /\ [Next]_vars =>
         [\A p \in Phones :
             report[p] # "success" /\ report'[p] = "success" =>
                 \A k \in Query(db', cmd[p].uid) \ touched[p] :
                     Carries(db'[k], cmd[p].patch)]_commandsAllVars
    BY StepSuccess
<1>2. Init /\ [][Next]_vars /\ []TypeOK => []Loops
    BY InitLoops, StepLoops, PTL
<1>3. [][Next]_vars /\ []TypeOK /\ []Loops => SuccessMeansApplied
    BY <1>1, PTL DEF SuccessMeansApplied
<1> QED
    BY <1>2, <1>3, DashboardTypeOK, PTL DEF Spec

-----------------------------------------------------------------------------
(* The loader.                                                             *)

\* LoaderHasOneHolder at phone p.
HolderAt(p) ==
    /\ loader[p].calls = Holders(p)
    /\ loader[p].over \/ \A c, d \in Holders(p) : c = d

\* Taking and releasing the loader, call by call.
LEMMA LoaderLemma ==
    ASSUME SharedTypeOK, NEW q \in Phones, NEW c
    PROVE  /\ openLoadingDialog(q, c) =>
                 /\ loader'[q].calls = loader[q].calls \cup {c}
                 /\ loader'[q].over = loader[q].over
                 /\ \A p \in Phones \ {q} : loader'[p] = loader[p]
           /\ stopLoading(q, c) =>
                 /\ loader'[q].calls = loader[q].calls \ {c}
                 /\ loader'[q].over = (loader[q].over /\ loader'[q].calls # {})
                 /\ \A p \in Phones \ {q} : loader'[p] = loader[p]
           /\ PushPage(q) =>
                 /\ loader'[q].calls = loader[q].calls
                 /\ loader[q].over => loader'[q].over
                 /\ \A p \in Phones \ {q} : loader'[p] = loader[p]
<1> USE DEF SharedTypeOK
<1>1. ASSUME openLoadingDialog(q, c)
      PROVE  /\ loader'[q].calls = loader[q].calls \cup {c}
             /\ loader'[q].over = loader[q].over
             /\ \A p \in Phones \ {q} : loader'[p] = loader[p]
    BY <1>1 DEF openLoadingDialog
<1>2. ASSUME stopLoading(q, c)
      PROVE  /\ loader'[q].calls = loader[q].calls \ {c}
             /\ loader'[q].over = (loader[q].over /\ loader'[q].calls # {})
             /\ \A p \in Phones \ {q} : loader'[p] = loader[p]
    BY <1>2 DEF stopLoading
<1>3. ASSUME PushPage(q)
      PROVE  /\ loader'[q].calls = loader[q].calls
             /\ loader[q].over => loader'[q].over
             /\ \A p \in Phones \ {q} : loader'[p] = loader[p]
    BY <1>3 DEF PushPage
<1> QED
    BY <1>1, <1>2, <1>3

\* A step that leaves the command and the saves of p alone, and its loader or
\* only a page over it, keeps its holder.
LEMMA HolderQuiet ==
    ASSUME NEW p \in Phones, HolderAt(p), loader'[p].calls = loader[p].calls,
           loader[p].over => loader'[p].over, cmd'[p].pc = "idle" <=> cmd[p].pc = "idle",
           \A t \in Tasks : (task'[t].pc = "set" /\ task'[t].phone = p)
                                <=> (task[t].pc = "set" /\ task[t].phone = p)
    PROVE  HolderAt(p)'
<1>1. Holders(p)' = Holders(p)
    BY DEF Holders
<1> QED
    BY <1>1 DEF HolderAt

\* A call that takes the loader when nobody has it, or over a pushed page, and
\* one that gives it back, keep the holders.
LEMMA HolderMove ==
    ASSUME SharedTypeOK, NEW p \in Phones, HolderAt(p), NEW c,
           \/ /\ loader[p].calls = {} \/ loader[p].over
              /\ openLoadingDialog(p, c)
              /\ Holders(p)' = Holders(p) \cup {c}
           \/ /\ stopLoading(p, c)
              /\ Holders(p)' = Holders(p) \ {c}
    PROVE  HolderAt(p)'
<1>1. CASE /\ loader[p].calls = {} \/ loader[p].over
           /\ openLoadingDialog(p, c)
           /\ Holders(p)' = Holders(p) \cup {c}
    <2>1. loader'[p].calls = Holders(p)' /\ loader'[p].over = loader[p].over
        BY <1>1, LoaderLemma DEF HolderAt
    <2>2. loader[p].over \/ Holders(p)' = {c}
        BY <1>1 DEF HolderAt
    <2> QED
        BY <2>1, <2>2 DEF HolderAt
<1>2. CASE stopLoading(p, c) /\ Holders(p)' = Holders(p) \ {c}
    <2>1. /\ loader'[p].calls = Holders(p)'
          /\ loader'[p].over = (loader[p].over /\ loader'[p].calls # {})
        BY <1>2, LoaderLemma DEF HolderAt
    <2>2. loader'[p].over \/ Holders(p)' = {} \/ ~loader[p].over
        BY <2>1
    <2>3. CASE ~loader[p].over
        BY <1>2, <2>1, <2>3 DEF HolderAt
    <2> QED
        BY <2>1, <2>2, <2>3 DEF HolderAt
<1> QED
    BY <1>1, <1>2

\* A bulk command takes the loader when nobody has it, and gives it back.
LEMMA HolderCommand ==
    ASSUME TypeOK, NEW p \in Phones, HolderAt(p), NEW q \in Phones, Bulk(q)
    PROVE  HolderAt(p)'
<1> USE DEF TypeOK, CommandsTypeOK, CommandRecords
<1>0. UNCHANGED task
    BY BulkCommand
<1>1. CASE p # q
    <2>1. cmd'[p] = cmd[p]
        <3> HIDE DEF CommandRecords
        <3>1. CASE UpdateNext(q)
            BY <1>1, <3>1 DEF UpdateNext
        <3>2. CASE \E patch \in Buttons : Start(q, patch)
            BY <1>1, <3>2 DEF Start
        <3>3. CASE Found(q)
            BY <1>1, <3>3 DEF Found
        <3>4. ASSUME NEW m, End(q, m) PROVE cmd'[p] = cmd[p]
            BY <1>1, <3>4 DEF End
        <3>5. CASE NotFound(q) \/ Finish(q) \/ Fail(q)
            BY <3>4, <3>5 DEF NotFound, Finish, Fail
        <3> QED
            BY <3>1, <3>2, <3>3, <3>5, BulkCommand DEF CommandStep
    <2>2. UNCHANGED loader \/ openLoadingDialog(q, "bulk") \/ stopLoading(q, "bulk")
        BY BulkCommand
           DEF CommandStep, Start, Found, NotFound, UpdateNext, Finish, Fail, End
    <2>3. loader'[p] = loader[p]
        BY <1>1, <2>2, LoaderLemma
    <2> QED
        BY <1>0, <2>1, <2>3, HolderQuiet
<1>2. ASSUME p = q, NEW patch \in Buttons, Free(p), Start(p, patch) PROVE HolderAt(p)'
    <2>1. cmd[p].pc = "idle" /\ cmd'[p].pc = "get"
        BY <1>2 DEF Start
    <2>2. Holders(p)' = Holders(p) \cup {"bulk"}
        BY <1>0, <2>1 DEF Holders
    <2> QED
        BY <1>2, <2>2, HolderMove DEF Start, Free
<1>3. CASE p = q /\ (Found(p) \/ UpdateNext(p))
    <2>1. loader'[p] = loader[p] /\ cmd'[p].pc # "idle" /\ cmd[p].pc # "idle"
        BY <1>3 DEF Found, UpdateNext
    <2> QED
        BY <1>0, <2>1, HolderQuiet
<1>4. ASSUME NEW m, End(p, m), cmd[p].pc # "idle" PROVE HolderAt(p)'
    <2>1. cmd'[p].pc = "idle"
        BY <1>4 DEF End, NoCommand
    <2>2. "bulk" \notin Tasks
        BY TasksAssumption
    <2>3. Holders(p)' = Holders(p) \ {"bulk"}
        BY <1>0, <2>1, <2>2 DEF Holders
    <2> QED
        BY <1>4, <2>3, HolderMove DEF End
<1> QED
    BY <1>1, <1>2, <1>3, <1>4 DEF Bulk, NotFound, Finish, Fail

\* A save takes the loader when nobody has it, and its end gives it back; no
\* other call takes it, and a deletion only pushes a page over it.
LEMMA HolderTask ==
    ASSUME TypeOK, NEW p \in Phones, HolderAt(p), NEW t \in Tasks, TaskStep(t),
           UNCHANGED cmd
    PROVE  HolderAt(p)'
<1> USE DEF TypeOK
<1>0. task \in [Tasks -> TaskRecords] /\ t # "bulk"
    BY TasksAssumption DEF DevicesTypeOK
<1>1. ASSUME NEW q \in Phones, ToggleTap(t, q) \/ OpenDialog(t, q)
      PROVE  HolderAt(p)'
    <2>1. task[t].pc = "idle" /\ UNCHANGED loader
        BY <1>1 DEF ToggleTap, OpenDialog, Begin, sharedVars
    <2>2. /\ task'[t].pc # "set"
          /\ \A s \in Tasks \ {t} : task'[s] = task[s]
        BY <1>0, <1>1 DEF ToggleTap, OpenDialog, Begin, Call
    <2> QED
        BY <2>1, <2>2, HolderQuiet
<1>2. ASSUME NEW q \in Phones, SaveTap(t, q) PROVE HolderAt(p)'
    <2>1. PICK k \in Devices :
              Begin(t, Call("set", q, k, NoPatch,
                            IF user[q].st = "ready" THEN user[q].id ELSE Empty))
        BY <1>2 DEF SaveTap
    <2>2. /\ task[t].pc = "idle" /\ task'[t].pc = "set" /\ task'[t].phone = q
          /\ \A s \in Tasks \ {t} : task'[s] = task[s]
        BY <1>0, <2>1 DEF Begin, Call
    <2>3. (loader[q].calls = {} \/ loader[q].over) /\ openLoadingDialog(q, t)
        BY <1>2 DEF SaveTap, Free
    <2>4. CASE p # q
        BY <2>2, <2>3, <2>4, LoaderLemma, HolderQuiet
    <2>5. CASE p = q
        <3>1. Holders(p)' = Holders(p) \cup {t}
            BY <2>2, <2>5 DEF Holders
        <3> QED
            BY <2>3, <2>5, <3>1, HolderMove
    <2> QED
        BY <2>4, <2>5
<1>3. CASE SetDevice(t) \/ (Reject(t) /\ task[t].pc = "set")
    <2>1. /\ task[t].pc = "set" /\ task' = [task EXCEPT ![t] = NoTask]
          /\ stopLoading(task[t].phone, t)
        BY <1>3 DEF SetDevice, Reject, Answers, Ends
    <2>2. task'[t].pc # "set" /\ \A s \in Tasks \ {t} : task'[s] = task[s]
        BY <1>0, <2>1, EmptyLemma
    <2>3. task[t].phone \in Phones
        BY <2>1, CallType
    <2>4. CASE p # task[t].phone
        BY <2>1, <2>2, <2>3, <2>4, LoaderLemma, HolderQuiet
    <2>5. CASE p = task[t].phone
        <3>1. Holders(p)' = Holders(p) \ {t}
            BY <1>0, <2>2 DEF Holders
        <3> QED
            BY <2>1, <2>5, <3>1, HolderMove
    <2> QED
        BY <2>4, <2>5
<1>4. ASSUME task[t].pc # "set", task'[t].pc # "set",
             UNCHANGED loader \/ PushPage(task[t].phone),
             task[t].phone \in Phones \/ UNCHANGED loader,
             \A s \in Tasks \ {t} : task'[s] = task[s]
      PROVE  HolderAt(p)'
    <2>1. loader'[p].calls = loader[p].calls /\ (loader[p].over => loader'[p].over)
        BY <1>4, LoaderLemma
    <2> QED
        BY <1>4, <2>1, HolderQuiet
<1>5. CASE \/ Cancel(t) \/ ToggleWrite(t) \/ Update(t)
           \/ (Reject(t) /\ task[t].pc # "set")
    <2>1. task[t].pc # "set" /\ task' = [task EXCEPT ![t] = NoTask] /\ UNCHANGED loader
        BY <1>5 DEF Cancel, Dialogs, Requests, ToggleWrite, Update, Reject, Answers,
                    Ends, sharedVars
    <2> QED
        BY <1>0, <1>4, <2>1, EmptyLemma
<1>6. CASE RemoveDevice(t)
    <2>1. /\ task[t].pc = "remove" /\ task' = [task EXCEPT ![t] = NoTask]
          /\ PushPage(task[t].phone)
        BY <1>6 DEF RemoveDevice, Answers, Ends
    <2>2. task[t].phone \in Phones
        BY <2>1, CallType
    <2> QED
        BY <1>0, <1>4, <2>1, <2>2, EmptyLemma
<1>7. CASE \/ EditUpdate(t) \/ SaveSettings(t) \/ ResetAlarm(t) \/ ConfirmDelete(t)
           \/ Leave(t) \/ FillForm(t) \/ FormFails(t) \/ ToggleRead(t)
    <2>1. task[t].pc # "set" /\ UNCHANGED loader
        BY <1>7 DEF EditUpdate, SaveSettings, ResetAlarm, ConfirmDelete, Confirm,
                    Leave, FillForm, FormFails, ToggleRead, Answers, sharedVars
    <2>2. ASSUME NEW pc \in {"update", "updating", "remove", "toggleWrite"}, NEW q,
                 task' = [task EXCEPT ![t].pc = pc, ![t].patch = q]
          PROVE  task'[t].pc # "set" /\ \A s \in Tasks \ {t} : task'[s] = task[s]
        BY <1>0, <2>2 DEF TaskRecords
    <2>3. ASSUME EditUpdate(t) \/ SaveSettings(t) \/ ResetAlarm(t) \/ ConfirmDelete(t)
          PROVE  task'[t].pc # "set" /\ \A s \in Tasks \ {t} : task'[s] = task[s]
        BY <2>2, <2>3 DEF EditUpdate, SaveSettings, ResetAlarm, ConfirmDelete, Confirm
    <2>4. ASSUME Leave(t) \/ FillForm(t) \/ FormFails(t)
          PROVE  task'[t].pc # "set" /\ \A s \in Tasks \ {t} : task'[s] = task[s]
        BY <1>0, <2>4 DEF Leave, FillForm, FormFails, TaskRecords
    <2>5. ASSUME ToggleRead(t)
          PROVE  task'[t].pc # "set" /\ \A s \in Tasks \ {t} : task'[s] = task[s]
        <3>1. CASE db[task[t].key] = NoRecord
            BY <1>0, <2>5, <3>1, EmptyLemma DEF ToggleRead, Ends
        <3>2. CASE db[task[t].key] # NoRecord
            <4> DEFINE q == [shutterIconStatus |->
                                 db[task[t].key]["shutterIconStatus"] # TRUE]
            <4>1. task' = [task EXCEPT ![t].pc = "toggleWrite", ![t].patch = q]
                BY <2>5, <3>2, Zenon DEF ToggleRead
            <4> HIDE DEF q
            <4> QED
                BY <2>2, <4>1
        <3> QED
            BY <3>1, <3>2
    <2> QED
        BY <1>4, <1>7, <2>1, <2>3, <2>4, <2>5
<1> QED
    BY <1>1, <1>2, <1>3, <1>5, <1>6, <1>7 DEF TaskStep, Answer

\* A killed app has no loader, no command and no save.
LEMMA HolderRestart ==
    ASSUME TypeOK, NEW p \in Phones, HolderAt(p), NEW q \in Phones, Restart(q)
    PROVE  HolderAt(p)'
<1> USE DEF TypeOK, SharedTypeOK, CommandsTypeOK
<1>1. /\ loader' = [loader EXCEPT ![q] = NoLoader]
      /\ cmd' = [cmd EXCEPT ![q] = NoCommand]
      /\ task' = [t \in Tasks |-> IF task[t].phone = q THEN NoTask ELSE task[t]]
    BY DEF Restart, SharedRestart, CommandsRestart, DevicesRestart
<1>2. CASE p = q
    <2>1. cmd'[p].pc = "idle" /\ loader'[p].calls = {}
        BY <1>1, <1>2 DEF NoCommand, NoLoader
    <2>2. Holders(p)' = {}
        BY <1>1, <1>2, <2>1, EmptyLemma DEF Holders
    <2> QED
        BY <2>1, <2>2 DEF HolderAt
<1>3. CASE p # q
    <2>1. loader'[p] = loader[p] /\ cmd'[p] = cmd[p]
        BY <1>1, <1>3
    <2>2. ASSUME NEW t \in Tasks
          PROVE  (task'[t].pc = "set" /\ task'[t].phone = p)
                     <=> (task[t].pc = "set" /\ task[t].phone = p)
        BY <1>1, <1>3, EmptyLemma
    <2> QED
        BY <2>1, <2>2, HolderQuiet
<1> QED
    BY <1>2, <1>3

\* At the start no phone has a loader.
LEMMA InitHolder == Init => LoaderHasOneHolder
<1> SUFFICES ASSUME Init, NEW p \in Phones PROVE HolderAt(p)
    BY DEF LoaderHasOneHolder, HolderAt
<1>1. Holders(p) = {}
    BY EmptyLemma DEF Init, DevicesInit, CommandsInit, NoCommand, Holders
<1> QED
    BY <1>1 DEF Init, SharedInit, NoLoader, HolderAt

\* No step puts up a loader that is up, or forgets to take its own down.
LEMMA StepHolder == TypeOK /\ LoaderHasOneHolder /\ [Next]_vars => LoaderHasOneHolder'
<1> SUFFICES ASSUME TypeOK, LoaderHasOneHolder, [Next]_vars, NEW p \in Phones
             PROVE  HolderAt(p)'
    BY DEF LoaderHasOneHolder, HolderAt
<1>1. HolderAt(p)
    BY DEF LoaderHasOneHolder, HolderAt
<1>2. UNCHANGED <<loader, cmd, task>> => HolderAt(p)'
    BY <1>1, HolderQuiet
<1>3. ASSUME NEW q \in Phones, Bulk(q) PROVE HolderAt(p)'
    BY <1>1, <1>3, HolderCommand
<1>4. ASSUME NEW q \in Phones, Restart(q) PROVE HolderAt(p)'
    BY <1>1, <1>4, HolderRestart
<1>5. ASSUME NEW q \in Phones, Connection(q), UNCHANGED <<commandVars, deviceVars>>
      PROVE  HolderAt(p)'
    BY <1>2, <1>5 DEF Connection, commandVars, deviceVars
<1>6. ASSUME NEW q \in Phones, PhoneStep(q) \/ SessionStep(q), UNCHANGED commandVars
      PROVE  HolderAt(p)'
    <2>1. CASE SignOut(q)
        <3>1. PushPage(q) /\ UNCHANGED <<cmd, task>>
            BY <1>6, <2>1 DEF SignOut, commandVars, deviceVars
        <3>2. loader'[p].calls = loader[p].calls /\ (loader[p].over => loader'[p].over)
            BY <3>1, LoaderLemma DEF TypeOK
        <3> QED
            BY <1>1, <3>1, <3>2, HolderQuiet
    <2>2. CASE ~SignOut(q)
        <3>1. UNCHANGED <<loader, cmd, task>>
            BY <1>6, <2>2 DEF PhoneStep, OpenDrawer, UserAnswer, Dispose,
                              SessionStep, SignIn, sharedVars, commandVars, deviceVars
        <3> QED
            BY <1>2, <3>1
    <2> QED
        BY <2>1, <2>2
<1>7. ASSUME NEW t \in Tasks, TaskStep(t), UNCHANGED commandVars PROVE HolderAt(p)'
    BY <1>1, <1>7, HolderTask DEF commandVars
<1>8. ASSUME NEW q \in Phones, Deliver(q) PROVE HolderAt(p)'
    BY <1>2, <1>8 DEF Deliver, sharedVars, commandVars
<1>9. CASE UNCHANGED vars
    BY <1>2, <1>9 DEF vars, sharedVars, commandVars, deviceVars
<1> QED
    BY <1>3, <1>4, <1>5, <1>6, <1>7, <1>8, <1>9 DEF Next, SameUserNext

\* The loader of a phone is held exactly by the bulk command and the saves
\* between their openLoadingDialog and their stopLoading, and by two of them
\* only where a deletion or a sign-out was answered under it.
THEOREM DashboardLoader == Spec => []LoaderHasOneHolder
<1>1. Init /\ [][Next]_vars /\ []TypeOK => []LoaderHasOneHolder
    BY InitHolder, StepHolder, PTL
<1> QED
    BY <1>1, DashboardTypeOK, PTL DEF Spec

-----------------------------------------------------------------------------
(* The list.                                                               *)

\* Why no card stays old: a phone that is owed no event has a listener, and its
\* list is the one that listener would build from the view now; and a connected
\* phone has been told what is stored.
ListAt(p) ==
    /\ news[p] \/ (listening[p] /\ devices[p] = Listed(View(p), session[p]))
    /\ online[p] => heard[p] = db

ListInv == \A p \in Phones : ListAt(p)

\* A step that leaves the list of a listener and its user alone.
LEMMA ListEvents ==
    ASSUME NEW p \in Phones, ListAt(p), NEW new, Events(new),
           \/ p \in new
           \/ /\ session'[p] = session[p]
              /\ listening'[p] => devices'[p] = devices[p]
    PROVE  ListAt(p)'
<1>1. online'[p] => heard'[p] = db'
    BY DEF Events
<1>2. news'[p] <=> (news[p] \/ p \in new \/ ~listening'[p] \/ View(p)' # View(p))
    BY Zenon DEF Events
<1>3. CASE news'[p]
    BY <1>1, <1>3 DEF ListAt
<1>4. CASE ~news'[p]
    <2>1. /\ ~news[p] /\ listening'[p] /\ View(p)' = View(p)
          /\ session'[p] = session[p] /\ devices'[p] = devices[p]
        BY <1>2, <1>4
    <2>2. devices[p] = Listed(View(p), session[p])
        BY <2>1 DEF ListAt
    <2>3. Listed(View(p), session[p])' = Listed(View(p), session[p])
        BY <2>1 DEF Listed, Query
    <2> QED
        BY <1>1, <2>1, <2>2, <2>3 DEF ListAt
<1> QED
    BY <1>3, <1>4

\* What a phone sees does not depend on its list.
LEMMA ViewSame ==
    ASSUME NEW p \in Phones, UNCHANGED <<wire, cmd, task, heard>>
    PROVE  View(p)' = View(p)
BY DEF View, Unanswered, WritesAt, Children

\* The listener builds the list of the moment.
LEMMA ListDeliver ==
    ASSUME TypeOK, NEW p \in Phones, ListAt(p), NEW q \in Phones, Deliver(q)
    PROVE  ListAt(p)'
<1>1. /\ UNCHANGED <<db, session, online, listening, heard>> /\ listening[q]
      /\ news' = [news EXCEPT ![q] = FALSE]
      /\ devices' = [devices EXCEPT ![q] = Listed(View(q), session[q])]
    BY DEF Deliver, sharedVars
<1>2. View(p)' = View(p)
    BY ViewSame DEF Deliver, sharedVars, commandVars
<1>3. Listed(View(p), session[p])' = Listed(View(p), session[p])
    BY <1>1, <1>2 DEF Listed, Query
<1>4. devices \in [Phones -> {devices[r] : r \in Phones}] /\ news \in [Phones -> BOOLEAN]
    BY DEF TypeOK, DevicesTypeOK, EventsTypeOK
<1>5. CASE p = q
    <2>1. devices'[p] = Listed(View(p), session[p])
        BY <1>1, <1>4, <1>5
    <2> QED
        BY <1>1, <1>3, <1>5, <2>1 DEF ListAt
<1>6. CASE p # q
    <2>1. devices'[p] = devices[p] /\ news'[p] = news[p]
        BY <1>1, <1>4, <1>6
    <2> QED
        BY <1>1, <1>3, <2>1 DEF ListAt
<1> QED
    BY <1>5, <1>6

\* No step but a change of user leaves an old card behind.
LEMMA StepList == TypeOK /\ ListInv /\ [SameUserNext]_vars => ListInv'
<1> SUFFICES ASSUME TypeOK, ListInv, [SameUserNext]_vars, NEW p \in Phones
             PROVE  ListAt(p)'
    BY DEF ListInv
<1>1. ListAt(p)
    BY DEF ListInv
<1>2. ASSUME UNCHANGED <<session, devices>>, Events({}) PROVE ListAt(p)'
    BY <1>1, <1>2, ListEvents
<1>3. ASSUME NEW q \in Phones, Bulk(q), Events({}) PROVE ListAt(p)'
    <2>1. UNCHANGED <<session, devices>>
        BY <1>3, BulkCommand
           DEF CommandStep, Start, Found, NotFound, UpdateNext, Finish, Fail, End
    <2> QED
        BY <1>2, <1>3, <2>1
<1>4. ASSUME NEW q \in Phones, Connection(q), UNCHANGED deviceVars, Events({})
      PROVE  ListAt(p)'
    BY <1>2, <1>4 DEF Connection, deviceVars
<1>5. ASSUME NEW t \in Tasks, TaskStep(t), Events({}) PROVE ListAt(p)'
    <2>1. UNCHANGED <<session, devices>>
        BY <1>5 DEF TaskStep, Answer, ToggleTap, OpenDialog, SaveTap, Cancel, Leave,
                    EditUpdate, SaveSettings, ResetAlarm, ConfirmDelete, Confirm,
                    ToggleRead, ToggleWrite, Update, RemoveDevice, SetDevice,
                    FillForm, Reject, FormFails, sharedVars
    <2> QED
        BY <1>2, <1>5, <2>1
<1>6. ASSUME NEW q \in Phones, PhoneStep(q), Events({}) PROVE ListAt(p)'
    <2>1. CASE Dispose(q)
        <3>1. /\ session' = session
              /\ devices' = [devices EXCEPT ![q] = NoCards]
              /\ listening' = [listening EXCEPT ![q] = FALSE]
            BY <2>1 DEF Dispose
        <3>2. listening'[p] => devices'[p] = devices[p]
            BY <3>1 DEF TypeOK, DevicesTypeOK
        <3> QED
            BY <1>1, <1>6, <3>1, <3>2, ListEvents
    <2>2. CASE OpenDrawer(q) \/ UserAnswer(q)
        BY <1>2, <1>6, <2>2 DEF OpenDrawer, UserAnswer, sharedVars
    <2> QED
        BY <1>6, <2>1, <2>2 DEF PhoneStep
<1>7. ASSUME NEW q \in Phones, Restart(q), Events({q}) PROVE ListAt(p)'
    <2>1. session' = session /\ devices' = [devices EXCEPT ![q] = NoCards]
        BY <1>7 DEF Restart, SharedRestart, DevicesRestart
    <2>2. p \in {q} \/ devices'[p] = devices[p]
        BY <2>1 DEF TypeOK, DevicesTypeOK
    <2> QED
        BY <1>1, <1>7, <2>1, <2>2, ListEvents
<1>8. ASSUME NEW q \in Phones, Deliver(q) PROVE ListAt(p)'
    BY <1>1, <1>8, ListDeliver
<1>9. CASE UNCHANGED vars
    <2>1. UNCHANGED <<db, session, online, listening, devices, heard, news>>
        BY <1>9 DEF vars, sdkVars, sharedVars, deviceVars
    <2>2. View(p)' = View(p)
        BY <1>9, ViewSame DEF vars, sdkVars, sharedVars, commandVars, deviceVars
    <2>3. Listed(View(p), session[p])' = Listed(View(p), session[p])
        BY <2>1, <2>2 DEF Listed, Query
    <2> QED
        BY <1>1, <2>1, <2>3 DEF ListAt
<1> QED
    BY <1>3, <1>4, <1>5, <1>6, <1>7, <1>8, <1>9 DEF SameUserNext

\* A list built from the view shows what is stored, where the phone writes
\* nothing itself.
LEMMA ListSettled == ListInv => SettledCardsAreStored
<1> SUFFICES ASSUME ListInv, NEW p \in Phones, NEW k \in Devices, listening[p], online[p],
                    ~news[p], Unanswered(p, k) = {}
             PROVE  /\ k \in DOMAIN devices[p] <=> k \in Query(db, session[p])
                    /\ k \in DOMAIN devices[p] => devices[p][k] = db[k]
    BY DEF SettledCardsAreStored
<1> DEFINE node == View(p)
<1>1. devices[p] = Listed(node, session[p]) /\ heard[p] = db
    BY DEF ListInv, ListAt
<1>2. node[k] = db[k]
    BY <1>1 DEF View
<1> HIDE DEF node
<1> QED
    BY <1>1, <1>2 DEF Listed, Query

\* Without a change of user, for any phones, devices and calls in flight, a card
\* that a connected phone is not writing itself and that differs from what is
\* stored is always owed the event that corrects it, after local events of its
\* own writes, rejections, kills and reconnections: what DashboardConverges
\* rests on besides the delivery of events.
THEOREM DashboardSettledCards == SameUserSpec => []SettledCardsAreStored
<1>1. Init => ListInv
    BY DEF Init, ListInv, ListAt
<1>2. [SameUserNext]_vars => [Next]_vars
    BY DEF Next
<1>3. SameUserSpec => []TypeOK
    BY <1>2, DashboardTypeOK, PTL DEF SameUserSpec, Spec
<1> QED
    BY <1>1, <1>3, StepList, ListSettled, PTL DEF SameUserSpec

-----------------------------------------------------------------------------
(* Calls and their requests.                                               *)

\* EachCallHasItsRequest at phone p.
Sent(s) == {s[i] : i \in DOMAIN s}

Once(s) == \A i, j \in DOMAIN s : s[i] = s[j] => i = j

RequestAt(p) == Sent(wire[p]) = Waiting(p) /\ Once(wire[p])

\* A request more, and one less, on a wire where no request is twice.
LEMMA SentAppend ==
    ASSUME NEW S, NEW s \in Seq(S), NEW c \in S, Once(s), c \notin Sent(s)
    PROVE  Sent(Append(s, c)) = Sent(s) \cup {c} /\ Once(Append(s, c))
<1> DEFINE r == Append(s, c)
           n == Len(s) + 1
<1>1. /\ DOMAIN s = 1..Len(s) /\ Len(s) \in Nat /\ DOMAIN r = 1..n
      /\ n \in DOMAIN r /\ r[n] = c
      /\ \A i \in DOMAIN s : i \in DOMAIN r /\ r[i] = s[i] /\ i # n
      /\ \A i \in DOMAIN r : i = n \/ i \in DOMAIN s
    OBVIOUS
<1> HIDE DEF r, n
<1>2. Sent(r) = Sent(s) \cup {c}
    BY <1>1 DEF Sent
<1>3. Once(r)
    BY <1>1 DEF Sent, Once
<1> QED
    BY <1>2, <1>3 DEF r

LEMMA SentTail ==
    ASSUME NEW S, NEW s \in Seq(S), s # <<>>, Once(s)
    PROVE  /\ Tail(s) \in Seq(S) /\ Head(s) \in S
           /\ Head(s) \in Sent(s)
           /\ Sent(Tail(s)) = Sent(s) \ {Head(s)} /\ Once(Tail(s))
<1> DEFINE r == Tail(s)
<1>1. /\ r \in Seq(S) /\ Head(s) = s[1] /\ 1 \in DOMAIN s /\ s[1] \in S
      /\ \A i \in DOMAIN r : i \in Nat /\ i # 0 /\ i + 1 \in DOMAIN s /\ r[i] = s[i + 1]
      /\ \A i \in DOMAIN s : i = 1 \/ (i - 1 \in DOMAIN r /\ r[i - 1] = s[i])
    OBVIOUS
<1> HIDE DEF r
<1>2. Head(s) \in Sent(s)
    BY <1>1 DEF Sent
<1>3. ASSUME NEW x \in Sent(r) PROVE x \in Sent(s) \ {Head(s)}
    <2>1. PICK i \in DOMAIN r : x = r[i]
        BY DEF Sent
    <2>2. i + 1 \in DOMAIN s /\ x = s[i + 1] /\ i + 1 # 1
        BY <1>1, <2>1
    <2> QED
        BY <1>1, <2>2 DEF Sent, Once
<1>4. ASSUME NEW x \in Sent(s) \ {Head(s)} PROVE x \in Sent(r)
    <2>1. PICK i \in DOMAIN s : x = s[i]
        BY DEF Sent
    <2>2. i # 1
        BY <1>1, <2>1
    <2> QED
        BY <1>1, <2>1, <2>2 DEF Sent
<1>5. Once(r)
    <2> SUFFICES ASSUME NEW i \in DOMAIN r, NEW j \in DOMAIN r, r[i] = r[j] PROVE i = j
        BY DEF Once
    <2>1. i \in Nat /\ j \in Nat /\ i + 1 = j + 1
        BY <1>1 DEF Once
    <2> QED
        BY <2>1
<1> QED
    BY <1>1, <1>2, <1>3, <1>4, <1>5 DEF r

\* A step that does nothing on the wire of p, and starts or ends no call there.
LEMMA RequestQuiet ==
    ASSUME NEW p \in Phones, RequestAt(p), wire'[p] = wire[p], Waiting(p)' = Waiting(p)
    PROVE  RequestAt(p)'
BY DEF RequestAt

\* A call c of phone p sends its request, has its answer, or has it and asks
\* again.
LEMMA RequestMove ==
    ASSUME SharedTypeOK, NEW p \in Phones, RequestAt(p), NEW c \in Callers,
           \/ /\ Send(p, c)
              /\ c \notin Waiting(p)
              /\ Waiting(p)' = Waiting(p) \cup {c}
           \/ /\ Served(p, c)
              /\ Receive(p)
              /\ Waiting(p)' = Waiting(p) \ {c}
           \/ /\ Served(p, c)
              /\ ReceiveAndSend(p, c)
              /\ Waiting(p)' = Waiting(p)
    PROVE  RequestAt(p)'
<1>1. wire \in [Phones -> Seq(Callers)] /\ wire[p] \in Seq(Callers)
    BY DEF SharedTypeOK
<1>2. Sent(wire[p]) = Waiting(p) /\ Once(wire[p])
    BY DEF RequestAt
<1>3. CASE Send(p, c) /\ c \notin Waiting(p) /\ Waiting(p)' = Waiting(p) \cup {c}
    <2>1. wire'[p] = Append(wire[p], c)
        BY <1>1, <1>3 DEF Send
    <2>2. Sent(Append(wire[p], c)) = Waiting(p) \cup {c} /\ Once(Append(wire[p], c))
        BY <1>1, <1>2, <1>3, SentAppend
    <2> QED
        BY <1>3, <2>1, <2>2 DEF RequestAt
<1>4. ASSUME Served(p, c)
      PROVE  /\ Tail(wire[p]) \in Seq(Callers) /\ c \in Waiting(p)
             /\ Sent(Tail(wire[p])) = Waiting(p) \ {c} /\ Once(Tail(wire[p]))
    BY <1>1, <1>2, <1>4, SentTail DEF Served
<1>5. CASE Served(p, c) /\ Receive(p) /\ Waiting(p)' = Waiting(p) \ {c}
    <2>1. wire'[p] = Tail(wire[p])
        BY <1>1, <1>5 DEF Receive
    <2> QED
        BY <1>4, <1>5, <2>1 DEF RequestAt
<1>6. CASE Served(p, c) /\ ReceiveAndSend(p, c) /\ Waiting(p)' = Waiting(p)
    <2>1. wire'[p] = Append(Tail(wire[p]), c)
        BY <1>1, <1>6 DEF ReceiveAndSend
    <2>2. /\ Sent(Append(Tail(wire[p]), c)) = (Waiting(p) \ {c}) \cup {c}
          /\ Once(Append(Tail(wire[p]), c))
        <3> DEFINE s == Tail(wire[p])
        <3>1. /\ s \in Seq(Callers) /\ Once(s)
              /\ Sent(s) = Waiting(p) \ {c} /\ c \notin Sent(s)
            BY <1>4, <1>6
        <3> HIDE DEF s
        <3>2. Sent(Append(s, c)) = Sent(s) \cup {c} /\ Once(Append(s, c))
            BY <3>1, SentAppend
        <3> QED
            BY <3>1, <3>2 DEF s
    <2>3. (Waiting(p) \ {c}) \cup {c} = Waiting(p)
        BY <1>4, <1>6
    <2> QED
        BY <1>6, <2>1, <2>2, <2>3 DEF RequestAt
<1> QED
    BY <1>3, <1>5, <1>6

\* The wires of the other phones.
LEMMA RequestOthers ==
    ASSUME SharedTypeOK, NEW q, NEW c, Send(q, c) \/ Receive(q) \/ ReceiveAndSend(q, c),
           NEW p \in Phones, p # q
    PROVE  wire'[p] = wire[p]
BY DEF SharedTypeOK, Send, Receive, ReceiveAndSend

\* The bulk command has a request on the wire until its last device is done.
LEMMA RequestCommand ==
    ASSUME TypeOK, NEW p \in Phones, RequestAt(p), NEW q \in Phones, Bulk(q)
    PROVE  RequestAt(p)'
<1> USE BulkAssumption DEF TypeOK
<1>0. UNCHANGED task /\ "bulk" \notin Tasks /\ cmd \in [Phones -> CommandRecords]
    BY BulkCommand, TasksAssumption DEF CommandsTypeOK
<1>1. CASE p # q
    <2>1. cmd'[p] = cmd[p]
        <3>1. ASSUME NEW m, End(q, m) PROVE cmd'[p] = cmd[p]
            BY <1>0, <1>1, <3>1 DEF End
        <3>2. CASE NotFound(q) \/ Finish(q) \/ Fail(q)
            BY <3>1, <3>2 DEF NotFound, Finish, Fail
        <3>3. CASE UpdateNext(q) \/ Found(q) \/ \E patch \in Buttons : Start(q, patch)
            BY <1>0, <1>1, <3>3 DEF UpdateNext, Found, Start
        <3> QED
            BY <3>2, <3>3, BulkCommand DEF CommandStep
    <2>2. \/ UNCHANGED wire
          \/ Send(q, "bulk") \/ Receive(q) \/ ReceiveAndSend(q, "bulk")
        BY BulkCommand DEF CommandStep, Start, Found, NotFound, UpdateNext, Finish, Fail
    <2>3. wire'[p] = wire[p]
        BY <1>1, <2>2, RequestOthers
    <2>4. Waiting(p)' = Waiting(p)
        BY <1>0, <2>1 DEF Waiting
    <2> QED
        BY <2>3, <2>4, RequestQuiet
<1>2. ASSUME p = q, NEW patch \in Buttons, Start(p, patch) PROVE RequestAt(p)'
    <2>1. cmd[p].pc = "idle" /\ cmd'[p].pc = "get" /\ Send(p, "bulk")
        BY <1>0, <1>2 DEF Start
    <2>2. Waiting(p)' = Waiting(p) \cup {"bulk"} /\ "bulk" \notin Waiting(p)
        BY <1>0, <2>1 DEF Waiting
    <2> QED
        BY <2>1, <2>2, RequestMove
<1>3. CASE p = q /\ Found(p)
    <2>1. /\ cmd[p].pc = "get" /\ cmd'[p].pc = "update" /\ cmd'[p].todo # {}
          /\ Served(p, "bulk") /\ ReceiveAndSend(p, "bulk")
        BY <1>0, <1>3 DEF Found, CommandRecords
    <2>2. Waiting(p)' = Waiting(p)
        BY <1>0, <2>1 DEF Waiting
    <2> QED
        BY <2>1, <2>2, RequestMove
<1>4. CASE p = q /\ UpdateNext(p)
    <2>1. PICK k \in cmd[p].todo :
              /\ cmd' = [cmd EXCEPT ![p].todo = cmd[p].todo \ {k}]
              /\ IF cmd[p].todo = {k} THEN Receive(p) ELSE ReceiveAndSend(p, "bulk")
        BY <1>4 DEF UpdateNext
    <2>2. /\ cmd[p].pc = "update" /\ cmd'[p].pc = "update" /\ Served(p, "bulk")
          /\ cmd'[p].todo = cmd[p].todo \ {k}
        BY <1>0, <1>4, <2>1 DEF UpdateNext, CommandRecords
    <2>3. CASE cmd[p].todo = {k}
        <3>1. Waiting(p)' = Waiting(p) \ {"bulk"}
            BY <1>0, <2>2, <2>3 DEF Waiting
        <3> QED
            BY <2>1, <2>2, <2>3, <3>1, RequestMove
    <2>4. CASE cmd[p].todo # {k}
        <3>1. Waiting(p)' = Waiting(p)
            BY <1>0, <2>2, <2>4 DEF Waiting
        <3> QED
            BY <2>1, <2>2, <2>4, <3>1, RequestMove
    <2> QED
        BY <2>3, <2>4
<1>5. ASSUME NEW m, End(p, m) PROVE Waiting(p)' = Waiting(p) \ {"bulk"}
    <2>1. cmd'[p].pc = "idle"
        BY <1>0, <1>5 DEF End, NoCommand
    <2> QED
        BY <1>0, <2>1 DEF Waiting
<1>6. CASE p = q /\ (NotFound(p) \/ Fail(p))
    BY <1>5, <1>6, RequestMove DEF NotFound, Fail
<1>7. CASE p = q /\ Finish(p)
    <2>1. "bulk" \notin Waiting(p) /\ UNCHANGED wire
        BY <1>0, <1>7 DEF Finish, Waiting
    <2>2. Waiting(p)' = Waiting(p)
        BY <1>5, <1>7, <2>1 DEF Finish
    <2> QED
        BY <2>1, <2>2, RequestQuiet
<1> QED
    BY <1>1, <1>2, <1>3, <1>4, <1>6, <1>7, BulkCommand DEF CommandStep

\* What becomes of the waiting calls when only the slot t changes.
LEMMA WaitingSlot ==
    ASSUME NEW p \in Phones, NEW t \in Tasks, UNCHANGED cmd,
           \A s \in Tasks \ {t} : task'[s] = task[s]
    PROVE  /\ (task'[t].pc \in Requests /\ task'[t].phone = p)
                  => Waiting(p)' = Waiting(p) \cup {t}
           /\ ~(task'[t].pc \in Requests /\ task'[t].phone = p)
                  => Waiting(p)' = Waiting(p) \ {t}
           /\ t \in Waiting(p) <=> (task[t].pc \in Requests /\ task[t].phone = p)
<1>1. t # "bulk"
    BY TasksAssumption
<1> QED
    BY <1>1 DEF Waiting

\* A call of a card, a dialog or the form sends when it starts to wait, and ends
\* or asks again when it is answered.
LEMMA RequestTask ==
    ASSUME TypeOK, NEW p \in Phones, RequestAt(p), NEW t \in Tasks, TaskStep(t),
           UNCHANGED cmd
    PROVE  RequestAt(p)'
<1> USE DEF TypeOK
<1>0. task \in [Tasks -> TaskRecords] /\ t \in Callers
    BY TasksAssumption DEF DevicesTypeOK
<1>1. ASSUME NEW q \in Phones, task[t].pc \notin Requests,
             task'[t].pc \in Requests, task'[t].phone = q, Send(q, t),
             \A s \in Tasks \ {t} : task'[s] = task[s]
      PROVE  RequestAt(p)'
    <2>1. CASE p # q
        <3>1. Waiting(p)' = Waiting(p) \ {t} /\ t \notin Waiting(p)
            BY <1>1, <2>1, WaitingSlot
        <3>2. wire'[p] = wire[p]
            BY <1>1, <2>1, RequestOthers
        <3> QED
            BY <3>1, <3>2, RequestQuiet
    <2>2. CASE p = q
        <3>1. Waiting(p)' = Waiting(p) \cup {t} /\ t \notin Waiting(p)
            BY <1>1, <2>2, WaitingSlot
        <3> QED
            BY <1>0, <1>1, <2>2, <3>1, RequestMove
    <2> QED
        BY <2>1, <2>2
<1>2. ASSUME task[t].pc \in Requests, Answers(t, task[t].pc), Ends(t) PROVE RequestAt(p)'
    <2>1. task[t].phone \in Phones /\ Served(task[t].phone, t) /\ Receive(task[t].phone)
        BY <1>2, CallType DEF Answers, Ends, Requests
    <2>2. task'[t].pc \notin Requests /\ \A s \in Tasks \ {t} : task'[s] = task[s]
        BY <1>0, <1>2, EmptyLemma DEF Ends, Requests
    <2>3. Waiting(p)' = Waiting(p) \ {t}
        BY <2>2, WaitingSlot
    <2>4. CASE p # task[t].phone
        <3>1. t \notin Waiting(p)
            BY <2>2, <2>4, WaitingSlot
        <3>2. Waiting(p)' = Waiting(p)
            BY <2>3, <3>1
        <3> QED
            BY <2>1, <2>4, <3>2, RequestOthers, RequestQuiet
    <2>5. CASE p = task[t].phone
        BY <1>0, <2>1, <2>3, <2>5, RequestMove
    <2> QED
        BY <2>4, <2>5
<1>3. ASSUME UNCHANGED wire, \A s \in Tasks \ {t} : task'[s] = task[s],
             (task'[t].pc \in Requests) <=> (task[t].pc \in Requests),
             task[t].pc \in Requests => task'[t].phone = task[t].phone
      PROVE  RequestAt(p)'
    <2>1. Waiting(p)' = Waiting(p)
        BY <1>3, WaitingSlot
    <2> QED
        BY <1>3, <2>1, RequestQuiet
<1>4. ASSUME NEW q \in Phones, NEW k, NEW o, NEW pc \in {"toggleRead", "set"},
             Begin(t, Call(pc, q, k, NoPatch, o)), Send(q, t)
      PROVE  RequestAt(p)'
    <2>1. /\ task[t].pc \notin Requests /\ task'[t].pc \in Requests /\ task'[t].phone = q
          /\ \A s \in Tasks \ {t} : task'[s] = task[s]
        BY <1>0, <1>4 DEF Begin, Call, Requests
    <2> QED
        BY <1>1, <1>4, <2>1
<1>5. ASSUME NEW q \in Phones, ToggleTap(t, q) \/ SaveTap(t, q) PROVE RequestAt(p)'
    BY <1>4, <1>5 DEF ToggleTap, SaveTap
<1>6. ASSUME NEW q \in Phones, OpenDialog(t, q) PROVE RequestAt(p)'
    <2>1. PICK op \in {"edit", "loading", "confirm"}, k \in DOMAIN devices[q] :
              Begin(t, Call(op, q, CardKey(q, k), NoPatch, Empty))
        BY <1>6 DEF OpenDialog
    <2>2. /\ task[t].pc \notin Requests /\ task'[t].pc \notin Requests
          /\ \A s \in Tasks \ {t} : task'[s] = task[s]
        BY <1>0, <2>1 DEF Begin, Call, Requests
    <2> QED
        BY <1>3, <1>6, <2>2 DEF OpenDialog, sharedVars
<1>7. ASSUME NEW from \in {"edit", "form", "loading", "missing", "confirm"},
             NEW to \in {"updating", "update", "remove"}, NEW patch,
             Confirm(t, from, to, patch)
      PROVE  RequestAt(p)'
    <2>1. task[t].phone \in Phones
        BY <1>7, CallType DEF Confirm
    <2>2. /\ task[t].pc \notin Requests /\ task'[t].pc \in Requests
          /\ task'[t].phone = task[t].phone
          /\ \A s \in Tasks \ {t} : task'[s] = task[s]
        BY <1>0, <1>7 DEF Confirm, Requests, TaskRecords
    <2> QED
        BY <1>1, <1>7, <2>1, <2>2 DEF Confirm
<1>8. CASE EditUpdate(t) \/ SaveSettings(t) \/ ResetAlarm(t) \/ ConfirmDelete(t)
    BY <1>7, <1>8 DEF EditUpdate, SaveSettings, ResetAlarm, ConfirmDelete
<1>9. CASE Cancel(t)
    <2>1. /\ task[t].pc \notin Requests /\ task'[t].pc \notin Requests
          /\ \A s \in Tasks \ {t} : task'[s] = task[s]
        BY <1>0, <1>9, EmptyLemma DEF Cancel, Requests
    <2> QED
        BY <1>3, <1>9, <2>1 DEF Cancel, sharedVars
<1>10. CASE Leave(t) \/ FillForm(t) \/ FormFails(t)
    <2>1. /\ (task'[t].pc \in Requests) <=> (task[t].pc \in Requests)
          /\ task'[t].phone = task[t].phone
          /\ \A s \in Tasks \ {t} : task'[s] = task[s]
        BY <1>0, <1>10 DEF Leave, FillForm, FormFails, Requests, TaskRecords
    <2> QED
        BY <1>3, <1>10, <2>1 DEF Leave, FillForm, FormFails, sharedVars
<1>11. CASE ToggleWrite(t) \/ Update(t) \/ RemoveDevice(t) \/ SetDevice(t) \/ Reject(t)
    <2>1. task[t].pc \in Requests /\ Answers(t, task[t].pc) /\ Ends(t)
        BY <1>11 DEF ToggleWrite, Update, RemoveDevice, SetDevice, Reject, Answers, Requests
    <2> QED
        BY <1>2, <2>1
<1>12. CASE ToggleRead(t)
    <2>1. task[t].pc = "toggleRead" /\ task[t].pc \in Requests /\ Answers(t, task[t].pc)
        BY <1>12 DEF ToggleRead, Answers, Requests
    <2>2. CASE Ends(t)
        BY <1>2, <2>1, <2>2
    <2>3. CASE ~Ends(t)
        <3> DEFINE q == [shutterIconStatus |-> db[task[t].key]["shutterIconStatus"] # TRUE]
        <3>1. /\ task' = [task EXCEPT ![t].pc = "toggleWrite", ![t].patch = q]
              /\ ReceiveAndSend(task[t].phone, t)
            BY <1>12, <2>3, Zenon DEF ToggleRead
        <3> HIDE DEF q
        <3>2. /\ task'[t].pc \in Requests /\ task'[t].phone = task[t].phone
              /\ \A s \in Tasks \ {t} : task'[s] = task[s]
            BY <1>0, <3>1 DEF Requests, TaskRecords
        <3>3. task[t].phone \in Phones /\ Served(task[t].phone, t)
            BY <2>1, CallType DEF Answers
        <3>4. Waiting(p)' = Waiting(p)
            <4>1. CASE p # task[t].phone
                <5>1. Waiting(p)' = Waiting(p) \ {t} /\ t \notin Waiting(p)
                    BY <3>2, <4>1, WaitingSlot
                <5> QED
                    BY <5>1
            <4>2. CASE p = task[t].phone
                <5>1. Waiting(p)' = Waiting(p) \cup {t} /\ t \in Waiting(p)
                    BY <2>1, <3>2, <4>2, WaitingSlot
                <5> QED
                    BY <5>1
            <4> QED
                BY <4>1, <4>2
        <3>5. CASE p # task[t].phone
            BY <3>1, <3>3, <3>4, <3>5, RequestOthers, RequestQuiet
        <3>6. CASE p = task[t].phone
            BY <1>0, <3>1, <3>3, <3>4, <3>6, RequestMove
        <3> QED
            BY <3>5, <3>6
    <2> QED
        BY <2>2, <2>3
<1> QED
    BY <1>5, <1>6, <1>8, <1>9, <1>10, <1>11, <1>12 DEF TaskStep, Answer

\* A killed app takes its requests with it, and nobody else's.
LEMMA RequestRestart ==
    ASSUME TypeOK, NEW p \in Phones, RequestAt(p), NEW q \in Phones, Restart(q)
    PROVE  RequestAt(p)'
<1> USE DEF TypeOK, SharedTypeOK, CommandsTypeOK
<1>1. /\ wire' = [wire EXCEPT ![q] = <<>>]
      /\ cmd' = [cmd EXCEPT ![q] = NoCommand]
      /\ task' = [t \in Tasks |-> IF task[t].phone = q THEN NoTask ELSE task[t]]
    BY DEF Restart, SharedRestart, CommandsRestart, DevicesRestart
<1>2. NoTask.pc \notin Requests
    BY EmptyLemma DEF Requests
<1>3. CASE p = q
    <2>1. cmd'[p].pc = "idle" /\ wire'[p] = <<>>
        BY <1>1, <1>3 DEF NoCommand
    <2>2. Waiting(p)' = {}
        BY <1>1, <1>2, <1>3, <2>1 DEF Waiting
    <2> QED
        BY <2>1, <2>2 DEF RequestAt, Sent, Once
<1>4. CASE p # q
    <2>1. wire'[p] = wire[p] /\ cmd'[p] = cmd[p]
        BY <1>1, <1>4
    <2>2. ASSUME NEW t \in Tasks
          PROVE  (task'[t].pc \in Requests /\ task'[t].phone = p)
                     <=> (task[t].pc \in Requests /\ task[t].phone = p)
        BY <1>1, <1>2, <1>4
    <2>3. Waiting(p)' = Waiting(p)
        BY <2>1, <2>2 DEF Waiting
    <2> QED
        BY <2>1, <2>3, RequestQuiet
<1> QED
    BY <1>3, <1>4

LEMMA StepRequests == TypeOK /\ EachCallHasItsRequest /\ [Next]_vars => EachCallHasItsRequest'
<1> SUFFICES ASSUME TypeOK, EachCallHasItsRequest, [Next]_vars, NEW p \in Phones
             PROVE  RequestAt(p)'
    BY DEF EachCallHasItsRequest, RequestAt, Sent, Once
<1>1. RequestAt(p)
    BY DEF EachCallHasItsRequest, RequestAt, Sent, Once
<1>2. UNCHANGED <<wire, cmd, task>> => RequestAt(p)'
    BY <1>1, RequestQuiet DEF Waiting
<1>3. ASSUME NEW q \in Phones, Bulk(q) \/ Restart(q) PROVE RequestAt(p)'
    BY <1>1, <1>3, RequestCommand, RequestRestart
<1>4. ASSUME NEW q \in Phones, Connection(q), UNCHANGED <<commandVars, deviceVars>>
      PROVE  RequestAt(p)'
    BY <1>2, <1>4 DEF Connection, commandVars, deviceVars
<1>5. ASSUME NEW q \in Phones, PhoneStep(q) \/ SessionStep(q), UNCHANGED commandVars
      PROVE  RequestAt(p)'
    BY <1>2, <1>5 DEF PhoneStep, OpenDrawer, UserAnswer, Dispose, SessionStep,
                      SignIn, SignOut, sharedVars, commandVars, deviceVars
<1>6. ASSUME NEW t \in Tasks, TaskStep(t), UNCHANGED commandVars PROVE RequestAt(p)'
    BY <1>1, <1>6, RequestTask DEF commandVars
<1>7. ASSUME NEW q \in Phones, Deliver(q) PROVE RequestAt(p)'
    BY <1>2, <1>7 DEF Deliver, sharedVars, commandVars
<1>8. CASE UNCHANGED vars
    BY <1>2, <1>8 DEF vars, sharedVars, commandVars, deviceVars
<1> QED
    BY <1>3, <1>4, <1>5, <1>6, <1>7, <1>8 DEF Next, SameUserNext

LEMMA InitRequests == Init => EachCallHasItsRequest
<1> SUFFICES ASSUME Init, NEW p \in Phones PROVE RequestAt(p)
    BY DEF EachCallHasItsRequest, RequestAt, Sent, Once
<1>1. Waiting(p) = {}
    BY EmptyLemma DEF Init, DevicesInit, CommandsInit, NoCommand, Waiting, Requests
<1> QED
    BY <1>1 DEF Init, SharedInit, RequestAt, Sent, Once

\* For any phones, users, devices and calls in flight, the requests of a phone
\* are those of its calls that wait, one each: no await without an answer to
\* come, the part of LoaderCloses that does not depend on fairness.
THEOREM DashboardRequests == Spec => []EachCallHasItsRequest
<1>1. Init /\ [][Next]_vars /\ []TypeOK => []EachCallHasItsRequest
    BY InitRequests, StepRequests, PTL
<1> QED
    BY <1>1, DashboardTypeOK, PTL DEF Spec

=============================================================================
