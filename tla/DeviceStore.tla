---------------------------- MODULE DeviceStore ----------------------------
(***************************************************************************)
(* What the app promises about the device node as a whole, whatever phones *)
(* do and whatever is in flight: a step changes one record, and it either  *)
(* saves a complete record, removes it, or writes the children of one of   *)
(* the app's updates and leaves all others alone.  Dashboard is shown to   *)
(* implement it.                                                           *)
(***************************************************************************)
EXTENDS DeviceRecords

VARIABLE db

StoreInit ==
    db \in [Devices -> {NoRecord} \cup {NewDevice(u) : u \in Users}]

Save(k) == \E owner \in Owners : db' = [db EXCEPT ![k] = NewDevice(owner)]

Remove(k) == db' = [db EXCEPT ![k] = NoRecord]

\* The children that one update of the app may write: those of a card, of the
\* bulk commands, of the two dialogs and of the alarm button.
Updated ==
    {{"shutterIconStatus"}, {"deviceStatus"}, {"shutterIconStatus", "deviceStatus"},
     {"calenderStatus"}, {"deviceStatus", "calenderStatus", "fAuto"},
     {"settings"}, {"alarmResetButton"}}

Patch(k) ==
    /\ db' = [db EXCEPT ![k] = db'[k]]
    /\ db'[k] \in Records
    /\ \E fields \in Updated :
          /\ \A f \in fields : db'[k][f] \in BOOLEAN
          /\ \A f \in Fields \ fields : db'[k][f] = db[k][f]

StoreNext == \E k \in Devices : Save(k) \/ Remove(k) \/ Patch(k)

StoreSpec == StoreInit /\ [][StoreNext]_db

\* Every record that has an owner has all its children, so the casts
\* `as bool` and `as String` in setupAutoPlayShutters cannot throw.
OwnedComplete == \A k \in Devices : Complete(db[k])

=============================================================================
