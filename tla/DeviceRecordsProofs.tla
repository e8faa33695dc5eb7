------------------------ MODULE DeviceRecordsProofs ------------------------
(***************************************************************************)
(* What the three writes do to a record.                                   *)
(***************************************************************************)
EXTENDS DeviceRecords, TLAPS

\* What every patch the app sends is: Booleans for some of the flags.
FlagPatch(q) ==
    /\ DOMAIN q \subseteq Flags
    /\ \A f \in DOMAIN q : q[f] \in BOOLEAN

\* The record of a node that does not exist is a record, without owner.
LEMMA NoRecordLemma == NoRecord \in Records /\ NoRecord["userId"] = Null
BY DEF NoRecord, Records, Fields, Flags

\* saveShutterDevice writes a complete record of the given owner.
LEMMA NewDeviceLemma ==
    ASSUME NEW u \in Owners
    PROVE  /\ NewDevice(u) \in Records
           /\ NewDevice(u)["userId"] = u
           /\ Complete(NewDevice(u))
BY DEF NewDevice, Records, Complete, Fields, Flags

\* update() keeps the owner, stores the patch and deletes no child.
LEMMA MergeLemma ==
    ASSUME NEW r \in Records, NEW q, FlagPatch(q)
    PROVE  /\ Merge(r, q) \in Records
           /\ Merge(r, q)["userId"] = r["userId"]
           /\ \A f \in Flags : Merge(r, q)[f] = Null => r[f] = Null
           /\ Carries(Merge(r, q), q)
<1>1. "userId" \notin DOMAIN q
    BY DEF FlagPatch, Flags
<1>2. \A f \in DOMAIN q : f \in Fields /\ q[f] \in BOOLEAN /\ q[f] # Null
    BY NullAssumption DEF FlagPatch, Fields
<1>3. Merge(r, q)["userId"] = r["userId"]
    BY <1>1 DEF Merge, Fields
<1>4. ASSUME NEW f \in Flags
      PROVE  /\ Merge(r, q)[f] \in BOOLEAN \cup {Null}
             /\ Merge(r, q)[f] = Null => r[f] = Null
    BY <1>2 DEF Merge, Records, Fields
<1>5. Merge(r, q) \in [Fields -> Owners \cup BOOLEAN \cup {Null}]
    BY <1>2 DEF Merge, Records
<1>6. r["userId"] \in Owners \cup {Null}
    BY DEF Records
<1>7. Carries(Merge(r, q), q)
    BY <1>2 DEF Carries, Merge
<1> QED
    BY <1>3, <1>4, <1>5, <1>6, <1>7 DEF Records

=============================================================================
