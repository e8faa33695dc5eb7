--------------------------- MODULE DeviceRecords ---------------------------
(***************************************************************************)
(* The records the app keeps under the node ShutterDevices of the Firebase *)
(* Realtime Database, and the three ways it writes them: set() of a whole  *)
(* record, update() of some children, remove() of the node.                *)
(*                                                                         *)
(* A record is a function from Fields; a child that is absent reads as     *)
(* Dart's null, here Null, and a node with no child does not exist.  The   *)
(* thirty children of ShutterDeviceModel are grouped by the writes that    *)
(* tell them apart: "userId" also stands for deviceId, userName and the    *)
(* other children only set() writes; "fAuto" for fCrep, fAuto and aParz,   *)
(* which the edit dialog writes together; "settings" for deviceName,       *)
(* sleepTime and the six efforts, which the settings dialog writes         *)
(* together (FALSE: as first saved, TRUE: as last edited);                 *)
(* "alarmResetButton" is TRUE for the 1 that resetAlarm writes.            *)
(***************************************************************************)
EXTENDS Integers

CONSTANTS
    Users,      \* uids of Firebase Authentication
    Devices,    \* keys of ShutterDevices, numbered in the order of the node
    Null,       \* Dart's null: an absent child, or the uid of no session
    Empty       \* the empty string that toJson writes for a missing userId

ASSUME DevicesAssumption == Devices \subseteq Nat
ASSUME NullAssumption == Null \notin Users \cup BOOLEAN \cup {Empty}

Owners == Users \cup {Empty}

Flags == {"shutterIconStatus", "deviceStatus", "calenderStatus", "fAuto",
          "autoPlay", "settings", "alarmResetButton"}

Fields == {"userId"} \cup Flags

NoRecord == [f \in Fields |-> Null]

\* Mutant of NewDevice: toJson forgets a child.
NewDeviceWithoutAutoPlay(owner) ==
    [f \in Fields |-> IF f = "userId" THEN owner
                      ELSE IF f = "autoPlay" THEN Null ELSE FALSE]

\* toJson of the model saveShutterDevice builds: every child is written, the
\* switches are off and the counters 0.
NewDevice(owner) == [f \in Fields |-> IF f = "userId" THEN owner ELSE FALSE]

\* Mutant of Merge: set() in place of update().
MergeBySet(r, patch) ==
    [f \in Fields |-> IF f \in DOMAIN patch THEN patch[f] ELSE Null]

\* update(patch): the named children are replaced, the others stay; on a
\* missing node it creates one with just these children.
Merge(r, patch) ==
    [f \in Fields |-> IF f \in DOMAIN patch THEN patch[f] ELSE r[f]]

\* orderByChild('userId').equalTo(uid): equalTo(null) matches the records
\* that have no userId.
Query(d, uid) == {k \in Devices : d[k] # NoRecord /\ d[k]["userId"] = uid}

Carries(r, patch) == \A f \in DOMAIN patch : r[f] = patch[f]

Records ==
    {r \in [Fields -> Owners \cup BOOLEAN \cup {Null}] :
        /\ r["userId"] \in Owners \cup {Null}
        /\ \A f \in Flags : r[f] \in BOOLEAN \cup {Null}}

\* A record that has an owner has all its children.
Complete(r) == r["userId"] # Null => \A f \in Flags : r[f] \in BOOLEAN

=============================================================================
