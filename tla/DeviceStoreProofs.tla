------------------------- MODULE DeviceStoreProofs -------------------------
(***************************************************************************)
(* The abstract store keeps owned records complete.                        *)
(***************************************************************************)
EXTENDS DeviceStore, DeviceRecordsProofs

\* The inductive invariant: records are records, owned ones complete.
StoreInv == db \in [Devices -> Records] /\ OwnedComplete

\* The node starts with saved devices only.
LEMMA StoreInitInv == StoreInit => StoreInv
<1> SUFFICES ASSUME StoreInit PROVE StoreInv
    OBVIOUS
<1>1. \A u \in Users : NewDevice(u) \in Records /\ Complete(NewDevice(u))
    BY NewDeviceLemma DEF Owners
<1>2. NoRecord \in Records /\ Complete(NoRecord)
    BY NoRecordLemma DEF Complete
<1> QED
    BY <1>1, <1>2 DEF StoreInit, StoreInv, OwnedComplete

\* Saving, removing and patching keep owned records complete.
LEMMA StoreStepInv == StoreInv /\ [StoreNext]_db => StoreInv'
<1> SUFFICES ASSUME StoreInv, [StoreNext]_db PROVE StoreInv'
    OBVIOUS
<1>1. CASE UNCHANGED db
    BY <1>1 DEF StoreInv, OwnedComplete
<1>2. ASSUME NEW k \in Devices, Save(k) PROVE StoreInv'
    BY <1>2, NewDeviceLemma DEF Save, StoreInv, OwnedComplete
<1>3. ASSUME NEW k \in Devices, Remove(k) PROVE StoreInv'
    BY <1>3, NoRecordLemma DEF Remove, StoreInv, OwnedComplete, Complete
<1>4. ASSUME NEW k \in Devices, Patch(k) PROVE StoreInv'
    <2>1. db' \in [Devices -> Records]
        BY <1>4 DEF Patch, StoreInv
    <2>2. Complete(db'[k])
        <3>1. PICK fields \in Updated :
                  /\ \A f \in fields : db'[k][f] \in BOOLEAN
                  /\ \A f \in Fields \ fields : db'[k][f] = db[k][f]
            BY <1>4 DEF Patch
        <3>2. "userId" \notin fields
            BY DEF Updated
        <3> QED
            BY <3>1, <3>2 DEF StoreInv, OwnedComplete, Complete, Fields
    <2>3. \A l \in Devices \ {k} : db'[l] = db[l]
        BY <1>4 DEF Patch, StoreInv
    <2> QED
        BY <2>1, <2>2, <2>3 DEF StoreInv, OwnedComplete
<1> QED
    BY <1>1, <1>2, <1>3, <1>4 DEF StoreNext

\* The store's promise: whatever saves, removals and patches happen, a record
\* with an owner has all the children setupAutoPlayShutters casts.
THEOREM StoreOwnedComplete == StoreSpec => []OwnedComplete
<1>1. StoreInv => OwnedComplete
    BY DEF StoreInv
<1> QED
    BY StoreInitInv, StoreStepInv, <1>1, PTL DEF StoreSpec

=============================================================================
