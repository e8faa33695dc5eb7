-------------------------- MODULE DeviceController --------------------------
(***************************************************************************)
(* The dashboard of one user's devices: DeviceController with the cards    *)
(* and dialogs that call it, the cached profile of UserRepository that a   *)
(* new device is filed under, and the list its listener rebuilds.          *)
(*                                                                         *)
(* Every method is split at its awaits.  A call in flight is a task: the   *)
(* code keeps no queue and disables no button, so a phone may have several *)
(* (two taps on one card, an update under a closed dialog).                *)
(***************************************************************************)
EXTENDS ShutterDevices

CONSTANTS
    Tasks,      \* slots for calls in flight, shared by all phones
    NullKey,    \* the key "null" that a card of a record without deviceId uses
    Switches,   \* the positions of the edit dialog's switches a model offers
    Operations  \* the operations of the cards and the form a model offers

ASSUME TasksAssumption == Tasks \subseteq Callers \ {"bulk"}
ASSUME NullKeyAssumption == NullKey \in Devices
ASSUME SwitchesAssumption ==
    Switches \subseteq
        [{"deviceStatus", "calenderStatus", "fAuto"} -> BOOLEAN]

VARIABLES
    devices,    \* the observable list of each phone: listed key -> record
    listening,  \* a DeviceController is alive and listens
    user,       \* UserRepository: its state and the id in userData
    task        \* the calls in flight

deviceVars == <<devices, listening, user, task>>

NoPatch == [f \in {} |-> FALSE]

NoTask == [pc |-> "idle", phone |-> Null, key |-> NullKey,
           patch |-> NoPatch, owner |-> Empty]

NoCards == [k \in {} |-> NoRecord]

NoUser == [st |-> "absent", id |-> Empty]

\* Where a call may be: in a dialog that covers the dashboard, waiting for the
\* server, or both, when its dialog stays until the update is answered.
Dialogs == {"edit", "loading", "missing", "form", "confirm", "updating"}

Requests == {"toggleRead", "toggleWrite", "update", "updating", "remove", "set"}

DevicesInit ==
    /\ db[NullKey] = NoRecord
    /\ devices = [p \in Phones |-> NoCards]
    /\ listening = [p \in Phones |-> session[p] # Null]
    /\ user = [p \in Phones |-> NoUser]
    /\ task = [t \in Tasks |-> NoTask]

Patches ==
    {NoPatch, [settings |-> TRUE], [alarmResetButton |-> TRUE]}
        \cup Switches \cup {[shutterIconStatus |-> b] : b \in BOOLEAN}

TaskRecords ==
    [pc : {"idle"} \cup Dialogs \cup Requests, phone : Phones \cup {Null},
     key : Devices, patch : Patches, owner : Owners]

DevicesTypeOK ==
    /\ devices = [p \in Phones |-> devices[p]]
    /\ \A p \in Phones : \E S \in SUBSET Devices : devices[p] \in [S -> Records]
    /\ listening \in [Phones -> BOOLEAN]
    /\ user \in [Phones -> [st : {"absent", "fetching", "ready"}, id : Owners]]
    /\ task \in [Tasks -> TaskRecords]
    /\ \A t \in Tasks : task[t].pc # "idle" => task[t].phone \in Phones

-----------------------------------------------------------------------------
(* The list.                                                               *)

\* The children of a snapshot whose userId is the current uid.
Listed(node, uid) == [k \in Query(node, uid) |-> node[k]]

\* Get.to(HomeScreen): Get.put finds the controller, or makes one with a
\* listener of its own.
OpenHome(p) == listening' = [listening EXCEPT ![p] = TRUE]

-----------------------------------------------------------------------------
(* What the user taps.                                                     *)

\* Nothing modal covers the dashboard of phone p.
Free(p) ==
    /\ loader[p].calls = {} \/ loader[p].over
    /\ \A t \in Tasks : ~(task[t].phone = p /\ task[t].pc \in Dialogs)

Call(pc, p, key, patch, owner) ==
    [pc |-> pc, phone |-> p, key |-> key, patch |-> patch, owner |-> owner]

\* device.deviceId.toString() of a card.
CardKey(p, k) == IF devices[p][k]["userId"] = Null THEN NullKey ELSE k

Begin(t, x) ==
    /\ task[t].pc = "idle"
    /\ task' = [task EXCEPT ![t] = x]

\* The image of a card is tapped: toggleDeviceStatus reads the record.
ToggleTap(t, p) ==
    /\ "toggleRead" \in Operations
    /\ Free(p)
    /\ \E k \in DOMAIN devices[p] :
          Begin(t, Call("toggleRead", p, CardKey(p, k), NoPatch, Empty))
    /\ Send(p, t)
    /\ UNCHANGED <<db, session, online, loader, touched,
                   devices, listening, user>>

\* The pencil, the gear or the bin of a card opens its dialog; the gear needs
\* a deviceName (deviceName!).
OpenDialog(t, p) ==
    /\ Free(p)
    /\ \E op \in Operations \cap {"edit", "loading", "confirm"},
          k \in DOMAIN devices[p] :
          /\ op = "loading" => devices[p][k]["settings"] # Null
          /\ Begin(t, Call(op, p, CardKey(p, k), NoPatch, Empty))
    /\ UNCHANGED <<sharedVars, devices, listening, user>>

\* A dialog is left by its Cancel, or by a tap beside it.
Cancel(t) ==
    /\ task[t].pc \in Dialogs \ Requests
    /\ task' = [task EXCEPT ![t] = NoTask]
    /\ UNCHANGED <<sharedVars, devices, listening, user>>

\* It is left while its update is in flight, which goes on.
Leave(t) ==
    /\ task[t].pc = "updating"
    /\ task' = [task EXCEPT ![t].pc = "update"]
    /\ UNCHANGED <<sharedVars, devices, listening, user>>

\* The dialog hands its call on: its request is sent.
Confirm(t, from, to, patch) ==
    /\ task[t].pc = from
    /\ task' = [task EXCEPT ![t].pc = to, ![t].patch = patch]
    /\ Send(task[t].phone, t)
    /\ UNCHANGED <<db, session, online, loader, touched,
                   devices, listening, user>>

\* Update of the edit dialog.
EditUpdate(t) == \E s \in Switches : Confirm(t, "edit", "updating", s)

\* Save of the settings dialog, once its fields hold integers.
SaveSettings(t) == Confirm(t, "form", "updating", [settings |-> TRUE])

\* The alarm button of the settings dialog, loaded or not, closes it at once.
ResetAlarm(t) ==
    \E shown \in {"form", "loading", "missing"} :
        Confirm(t, shown, "update", [alarmResetButton |-> TRUE])

\* Delete of the confirmation.
ConfirmDelete(t) == Confirm(t, "confirm", "remove", NoPatch)

\* Mutant of SaveTap: no default for the id of a profile that is not there.
SaveTapNullOwner(t, p) ==
    /\ "set" \in Operations
    /\ Free(p)
    /\ user[p].st # "absent"
    /\ \E k \in Devices \ {NullKey} :
          Begin(t, Call("set", p, k, NoPatch, IF user[p].st = "ready"
                                           THEN user[p].id ELSE Null))
    /\ openLoadingDialog(p, t)
    /\ Send(p, t)
    /\ UNCHANGED <<db, session, online, touched,
                   devices, listening, user>>

\* Save of the device form, which is reached through the drawer: the record
\* is filed under whatever id userData holds at this moment.
SaveTap(t, p) ==
    /\ "set" \in Operations
    /\ Free(p)
    /\ user[p].st # "absent"
    /\ \E k \in Devices \ {NullKey} :
          Begin(t, Call("set", p, k, NoPatch, IF user[p].st = "ready"
                                           THEN user[p].id ELSE Empty))
    /\ openLoadingDialog(p, t)
    /\ Send(p, t)
    /\ UNCHANGED <<db, session, online, touched,
                   devices, listening, user>>

-----------------------------------------------------------------------------
(* What the server answers.                                                *)

Answers(t, pc) == task[t].pc = pc /\ Served(task[t].phone, t)

Ends(t) ==
    /\ task' = [task EXCEPT ![t] = NoTask]
    /\ Receive(task[t].phone)

\* once() of toggleDeviceStatus: the new value is fixed here, and written
\* later; a missing record ends the call.
ToggleRead(t) ==
    /\ Answers(t, "toggleRead")
    /\ LET r == db[task[t].key]
       IN  IF r = NoRecord
           THEN Ends(t)
           ELSE /\ task' = [task EXCEPT
                       ![t].pc = "toggleWrite",
                       ![t].patch = [shutterIconStatus |->
                                        r["shutterIconStatus"] # TRUE]]
                /\ ReceiveAndSend(task[t].phone, t)
    /\ UNCHANGED <<db, session, online, loader, touched,
                   devices, listening, user>>

\* The write of toggleDeviceStatus.
ToggleWrite(t) ==
    /\ Answers(t, "toggleWrite")
    /\ Put(Null, task[t].key, Merge(db[task[t].key], task[t].patch))
    /\ Ends(t)
    /\ UNCHANGED <<session, online, loader, devices, listening, user>>

\* updateDevice, updateDeviceNewData and resetAlarm; the dialog, if it is
\* still there, closes.
Update(t) ==
    /\ Answers(t, "update") \/ Answers(t, "updating")
    /\ Put(Null, task[t].key, Merge(db[task[t].key], task[t].patch))
    /\ Ends(t)
    /\ UNCHANGED <<session, online, loader, devices, listening, user>>

\* remove() of deleteShutterDevice, which then opens the dashboard, whatever
\* page the user has gone to and whatever loader is up.
RemoveDevice(t) ==
    /\ Answers(t, "remove")
    /\ Put(Null, task[t].key, NoRecord)
    /\ Ends(t)
    /\ PushPage(task[t].phone)
    /\ OpenHome(task[t].phone)
    /\ UNCHANGED <<session, online, devices, user>>

\* Mutant of SetDevice: it opens the dashboard without closing the loader.
SetDeviceLoaderLeft(t) ==
    /\ Answers(t, "set")
    /\ Put(Null, task[t].key, NewDevice(task[t].owner))
    /\ Ends(t)
    /\ OpenHome(task[t].phone)
    /\ UNCHANGED <<loader, session, online, devices, user>>

\* set() of saveShutterDevice: the loader closes and the dashboard opens.
SetDevice(t) ==
    /\ Answers(t, "set")
    /\ Put(Null, task[t].key, NewDevice(task[t].owner))
    /\ Ends(t)
    /\ stopLoading(task[t].phone, t)
    /\ OpenHome(task[t].phone)
    /\ UNCHANGED <<session, online, devices, user>>

\* Mutant of FillForm: only a device whose settings were saved ends the loading.
FillFormEdited(t) ==
    /\ task[t].pc = "loading"
    /\ online[task[t].phone]
    /\ task' = [task EXCEPT ![t].pc =
           IF db[task[t].key]["settings"] = TRUE THEN "form" ELSE "missing"]
    /\ UNCHANGED <<sharedVars, devices, listening, user>>

\* The one get() of fetchDeviceData is answered: the form is filled, or the
\* record is missing and the dialog keeps its spinner for as long as it is up.
FillForm(t) ==
    /\ task[t].pc = "loading"
    /\ online[task[t].phone]
    /\ task' = [task EXCEPT ![t].pc =
           IF db[task[t].key] = NoRecord THEN "missing" ELSE "form"]
    /\ UNCHANGED <<sharedVars, devices, listening, user>>

\* Mutant of Reject: the error path of the save keeps the loader.
RejectLoaderLeft(t) ==
    /\ task[t].pc \in Requests
    /\ Answers(t, task[t].pc)
    /\ Ends(t)
    /\ UNCHANGED <<db, session, online, loader, touched,
                   devices, listening, user>>

\* A request throws: the call shows an error, and a save closes its loader.
Reject(t) ==
    /\ task[t].pc \in Requests
    /\ Answers(t, task[t].pc)
    /\ Ends(t)
    /\ IF task[t].pc = "set" THEN stopLoading(task[t].phone, t)
                             ELSE UNCHANGED loader
    /\ UNCHANGED <<db, session, online, touched,
                   devices, listening, user>>

\* The read of the settings dialog throws: its form is shown empty.
FormFails(t) ==
    /\ task[t].pc = "loading"
    /\ task' = [task EXCEPT ![t].pc = "form"]
    /\ UNCHANGED <<sharedVars, devices, listening, user>>

-----------------------------------------------------------------------------
(* The profile, and the session.                                           *)

\* The drawer is built: UserRepository starts its only fetch, for the uid of
\* this moment, and gives up at once when there is none.
OpenDrawer(p) ==
    /\ listening[p]
    /\ Free(p)
    /\ user[p].st = "absent"
    /\ user' = [user EXCEPT ![p] =
                   IF session[p] = Null
                   THEN [st |-> "ready", id |-> Empty]
                   ELSE [st |-> "fetching", id |-> session[p]]]
    /\ UNCHANGED <<sharedVars, devices, listening, task>>

\* once() on users/uid answers with the profile; without one, or on an
\* error, userData is empty.
UserAnswer(p) ==
    /\ user[p].st = "fetching"
    /\ online[p]
    /\ \E id \in {user[p].id, Empty} :
          user' = [user EXCEPT ![p] = [st |-> "ready", id |-> id]]
    /\ UNCHANGED <<sharedVars, devices, listening, task>>

\* userSignin succeeds: the dashboard is opened over what is still there.
SignIn(p, u) ==
    /\ Free(p)
    /\ online[p]
    /\ session' = [session EXCEPT ![p] = u]
    /\ OpenHome(p)
    /\ UNCHANGED <<db, online, wire, loader, touched, devices, user, task>>

\* logout() is answered: only the session ends; list, listeners and profile
\* stay, and the sign-in page covers whatever is on the screen.
SignOut(p) ==
    /\ session[p] # Null
    /\ session' = [session EXCEPT ![p] = Null]
    /\ PushPage(p)
    /\ UNCHANGED <<db, online, wire, touched, deviceVars>>

\* The last dashboard route is gone (back, or Get.offAll to the sign-up
\* page), and GetX deletes the controllers made under it.
Dispose(p) ==
    /\ Free(p)
    /\ listening[p]
    /\ listening' = [listening EXCEPT ![p] = FALSE]
    /\ devices' = [devices EXCEPT ![p] = NoCards]
    /\ user' = [user EXCEPT ![p] = NoUser]
    /\ UNCHANGED <<db, session, online, wire, loader, touched, task>>

\* The app is killed and started again: the splash page opens the dashboard
\* when the stored session names a user.
DevicesRestart(p) ==
    /\ devices' = [devices EXCEPT ![p] = NoCards]
    /\ listening' = [listening EXCEPT ![p] = session[p] # Null]
    /\ user' = [user EXCEPT ![p] = NoUser]
    /\ task' = [t \in Tasks |->
                   IF task[t].phone = p THEN NoTask ELSE task[t]]

-----------------------------------------------------------------------------

Answer(t) ==
    \/ ToggleRead(t)
    \/ ToggleWrite(t)
    \/ Update(t)
    \/ RemoveDevice(t)
    \/ SetDevice(t)
    \/ FillForm(t)

TaskStep(t) ==
    \/ \E p \in Phones : ToggleTap(t, p) \/ OpenDialog(t, p) \/ SaveTap(t, p)
    \/ Cancel(t)
    \/ Leave(t)
    \/ EditUpdate(t)
    \/ SaveSettings(t)
    \/ ResetAlarm(t)
    \/ ConfirmDelete(t)
    \/ Answer(t)
    \/ Reject(t)
    \/ FormFails(t)

PhoneStep(p) ==
    \/ OpenDrawer(p)
    \/ UserAnswer(p)
    \/ Dispose(p)

SessionStep(p) == SignOut(p) \/ \E u \in Users : SignIn(p, u)

=============================================================================
