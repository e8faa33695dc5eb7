---------------------- MODULE ScheduleControllerProofs ----------------------
(***************************************************************************)
(* Proofs about ScheduleController, for any number of phones, languages,   *)
(* days and saves in flight: type correctness, that the stored days are a  *)
(* prefix of the week, that row i is therefore day i, and that a first     *)
(* calendar is stored as it was typed; and about LocalizedSchedule, its    *)
(* composition with Localization: that it implements ScheduleController,   *)
(* that it keeps a calendar in one language and its rows in order, and     *)
(* that the language shown is kept.                                        *)
(***************************************************************************)
EXTENDS LocalizedSchedule, SequenceTheorems, FunctionTheorems, FiniteSetTheorems,
        WellFoundedInduction, TLAPS

\* Why the stored days are a prefix: an update that is under way for a day has
\* all the days before it stored.
SavesFollowPrefix ==
    replaced \/ \A p \in Phones : \A i \in DOMAIN wire[p] : \A c \in Days :
        c < wire[p][i].day => stored[<<form[p].lang, c>>] # Null

ScheduleInv == TypeOK /\ PrefixStored /\ SavesFollowPrefix

-----------------------------------------------------------------------------
(* Types.                                                                  *)

\* A non-empty set of indices has a greatest one: the update that counts in a
\* phone's view is the last it sent for a day.
LEMMA GreatestIndex ==
    ASSUME NEW n \in Nat, NEW S \in SUBSET (1..n), S # {}
    PROVE  \E i \in S : \A j \in S : j <= i
<1> DEFINE T == {n - i : i \in S}
<1>1. T \subseteq Nat /\ T # {}
    <2>1. \A i \in S : n - i \in Nat
        OBVIOUS
    <2>2. \E i \in S : TRUE
        OBVIOUS
    <2> QED
        BY <2>1, <2>2
<1>2. \E x \in T : \A y \in T : ~ (<<y, x>> \in OpToRel(<, Nat))
    <2> HIDE DEF T
    <2> QED
        BY <1>1, WFMin, NatLessThanWellFounded
<1>3. PICK x \in T : \A y \in T : ~ (y < x)
    BY <1>1, <1>2 DEF OpToRel
<1>4. PICK i \in S : x = n - i
    OBVIOUS
<1>5. \A j \in S : j <= i
    BY <1>3, <1>4
<1> QED
    BY <1>5

\* A phone's view is a calendar.
LEMMA ViewType ==
    ASSUME TypeOK, NEW p \in Phones
    PROVE  View(p) \in [Keys -> Texts \cup {Null}]
<1>1. wire[p] \in Seq(Updates) /\ stored \in [Keys -> Texts \cup {Null}]
    BY DEF TypeOK
<1>2. ASSUME NEW own \in SUBSET (DOMAIN wire[p]), own # {}
      PROVE  wire[p][CHOOSE i \in own : \A j \in own : j <= i].text \in Texts
    <2>1. Len(wire[p]) \in Nat /\ own \in SUBSET (1..Len(wire[p]))
        BY <1>1
    <2>2. (CHOOSE i \in own : \A j \in own : j <= i) \in own
        BY <1>2, <2>1, GreatestIndex
    <2>3. \A i \in own : wire[p][i].text \in Texts
        <3>1. \A i \in own : wire[p][i] \in Updates
            BY <1>1, <2>1
        <3> QED
            BY <3>1 DEF Updates
    <2> QED
        BY <2>2, <2>3
<1> DEFINE own(k) == {i \in DOMAIN wire[p] : <<form[p].lang, wire[p][i].day>> = k}
           seen(k) == IF own(k) = {} THEN stored[k]
                      ELSE wire[p][CHOOSE i \in own(k) : \A j \in own(k) : j <= i].text
<1>3. ASSUME NEW k \in Keys PROVE seen(k) \in Texts \cup {Null}
    <2>1. own(k) \in SUBSET (DOMAIN wire[p])
        OBVIOUS
    <2> HIDE DEF own
    <2> QED
        BY <1>1, <1>2, <2>1
<1>4. View(p) = [k \in Keys |-> seen(k)]
    BY DEF View
<1> HIDE DEF seen
<1> QED
    BY <1>3, <1>4

\* What the oldest update of a phone is, and what is left without it.
LEMMA HeadLemma ==
    ASSUME TypeOK, NEW p \in Phones, wire[p] # <<>>
    PROVE  /\ Head(wire[p]) \in Updates
           /\ Head(wire[p]).day \in Days /\ Head(wire[p]).text \in Texts
           /\ Tail(wire[p]) \in Seq(Updates)
           /\ <<form[p].lang, Head(wire[p]).day>> \in Keys
<1>1. wire[p] \in Seq(Updates) /\ form[p].lang \in Languages
    BY DEF TypeOK
<1>2. Head(wire[p]) \in Updates /\ Tail(wire[p]) \in Seq(Updates)
    BY <1>1
<1>3. Head(wire[p]).day \in Days /\ Head(wire[p]).text \in Texts
    BY <1>2 DEF Updates
<1> QED
    BY <1>1, <1>2, <1>3 DEF Keys

\* Storing the oldest update keeps the type of the calendar.
LEMMA StoredType ==
    ASSUME TypeOK, NEW p \in Phones, wire[p] # <<>>, Stored(p)
    PROVE  stored' \in [Keys -> Texts \cup {Null}]
BY HeadLemma DEF TypeOK, Stored

\* The history keeps its type, and so do the events owed.
LEMMA HistoryType ==
    ASSUME TypeOK
    PROVE  /\ NoSave \in [rows : [Days -> Texts], first : BOOLEAN, clean : BOOLEAN]
           /\ \A Q : Spoil(Q) =>
                 saved' \in [Phones -> [rows : [Days -> Texts], first : BOOLEAN,
                                        clean : BOOLEAN]]
           /\ \A new : Raise(new) => news' \in [Phones -> BOOLEAN]
<1>1. Blank \in [Days -> Texts]
    BY TextsAssumption DEF Blank
<1>2. NoSave \in [rows : [Days -> Texts], first : BOOLEAN, clean : BOOLEAN]
    BY <1>1 DEF NoSave
<1>3. ASSUME NEW Q, Spoil(Q)
      PROVE  saved' \in [Phones -> [rows : [Days -> Texts], first : BOOLEAN,
                                    clean : BOOLEAN]]
    BY <1>2, <1>3 DEF TypeOK, Spoil
<1>4. ASSUME NEW new, Raise(new) PROVE news' \in [Phones -> BOOLEAN]
    BY <1>4 DEF Raise
<1> QED
    BY <1>2, <1>3, <1>4

\* The row a save reads next is a text.
LEMMA NextRow ==
    ASSUME TypeOK, NEW p \in Phones, NEW d \in Days
    PROVE  [day |-> d, text |-> fields[p][d]] \in Updates
BY DEF TypeOK, Updates

LEMMA InitType == Init => TypeOK
<1> SUFFICES ASSUME Init PROVE TypeOK
    OBVIOUS
<1>1. Blank \in [Days -> Texts]
    BY TextsAssumption DEF Blank
<1>2. NoSave \in [rows : [Days -> Texts], first : BOOLEAN, clean : BOOLEAN]
    BY <1>1 DEF NoSave
<1>3. form \in [Phones -> [open : BOOLEAN, lang : Languages]]
    BY DEF Init
<1>4. wire \in [Phones -> Seq(Updates)]
    BY DEF Init
<1>5. stored \in [Keys -> Texts \cup {Null}]
    BY DEF Init, NoSchedule
<1>6. fields \in [Phones -> [Days -> Texts]]
    BY <1>1 DEF Init
<1>7. saved \in [Phones -> [rows : [Days -> Texts], first : BOOLEAN, clean : BOOLEAN]]
    BY <1>2 DEF Init
<1> QED
    BY <1>3, <1>4, <1>5, <1>6, <1>7 DEF Init, TypeOK

\* Every step keeps the types.
LEMMA StepType == TypeOK /\ [Next]_vars => TypeOK'
<1> SUFFICES ASSUME TypeOK, [Next]_vars PROVE TypeOK'
    OBVIOUS
<1>0. Blank \in [Days -> Texts]
    BY TextsAssumption DEF Blank
<1>1. CASE ReplaceDevice
    <2>1. stored' \in [Keys -> Texts \cup {Null}]
        BY <1>1 DEF ReplaceDevice, NoSchedule
    <2>2. replaced' \in BOOLEAN
        BY <1>1 DEF ReplaceDevice, TypeOK
    <2> QED
        BY <1>1, <2>1, <2>2, HistoryType DEF ReplaceDevice, TypeOK
<1>2. ASSUME NEW p \in Phones, Deliver(p) PROVE TypeOK'
    <2>1. PICK s \in Rows(p) : fields' = [fields EXCEPT ![p] =
              [d \in Days |-> IF d \in DOMAIN s THEN View(p)[s[d]] ELSE fields[p][d]]]
        BY <1>2 DEF Deliver
    <2>2. ASSUME NEW d \in Days, d \in DOMAIN s PROVE View(p)[s[d]] \in Texts
        <3>1. s[d] \in {k \in Keys : View(p)[k] # Null}
            BY <2>2 DEF Rows
        <3> QED
            BY <3>1, ViewType
    <2>3. [d \in Days |-> IF d \in DOMAIN s THEN View(p)[s[d]] ELSE fields[p][d]]
              \in [Days -> Texts]
        BY <2>2 DEF TypeOK
    <2>4. fields' \in [Phones -> [Days -> Texts]]
        BY <2>1, <2>3 DEF TypeOK
    <2> QED
        BY <1>2, <2>4 DEF Deliver, TypeOK
<1>3. ASSUME NEW p \in Phones, NEW l \in Languages, OpenForm(p, l) PROVE TypeOK'
    BY <1>0, <1>3 DEF OpenForm, TypeOK
<1>4. ASSUME NEW p \in Phones, CloseForm(p) PROVE TypeOK'
    BY <1>4 DEF CloseForm, TypeOK
<1>5. ASSUME NEW p \in Phones, NEW d \in Days, NEW t \in Texts, Type(p, d, t)
      PROVE  TypeOK'
    <2>1. fields' \in [Phones -> [Days -> Texts]]
        BY <1>5 DEF Type, TypeOK
    <2> QED
        BY <1>5, <2>1, HistoryType DEF Type, TypeOK
<1>6. ASSUME NEW p \in Phones, SaveTap(p) PROVE TypeOK'
    <2>1. 1 \in Days
        BY DayCountAssumption DEF Days
    <2>2. wire' \in [Phones -> Seq(Updates)]
        BY <1>6, <2>1, NextRow DEF SaveTap, TypeOK
    <2>3. saved' \in [Phones -> [rows : [Days -> Texts], first : BOOLEAN, clean : BOOLEAN]]
        <3> DEFINE new == IF wire[p] = <<>>
                          THEN [rows |-> fields[p], first |-> View(p) = NoSchedule,
                                clean |-> TRUE]
                          ELSE NoSave
        <3>1. new \in [rows : [Days -> Texts], first : BOOLEAN, clean : BOOLEAN]
            BY HistoryType DEF TypeOK
        <3>2. saved' = [saved EXCEPT ![p] = new]
            BY <1>6 DEF SaveTap
        <3> HIDE DEF new
        <3> QED
            BY <3>1, <3>2 DEF TypeOK
    <2> QED
        BY <1>6, <2>2, <2>3, HistoryType DEF SaveTap, TypeOK
<1>7. ASSUME NEW p \in Phones, SaveNext(p) PROVE TypeOK'
    <2> DEFINE d == Head(wire[p]).day + 1
    <2>1. d \in Days /\ Tail(wire[p]) \in Seq(Updates)
        <3>1. /\ Head(wire[p]).day \in Days /\ Head(wire[p]).day < DayCount
              /\ Tail(wire[p]) \in Seq(Updates)
            BY <1>7, HeadLemma DEF SaveNext
        <3> QED
            BY <3>1, DayCountAssumption DEF Days
    <2>2. wire' = [wire EXCEPT ![p] =
                      Append(Tail(wire[p]), [day |-> d, text |-> fields[p][d]])]
        BY <1>7 DEF SaveNext
    <2>3. [day |-> d, text |-> fields[p][d]] \in Updates
        BY <2>1, NextRow
    <2> HIDE DEF d
    <2>4. wire' \in [Phones -> Seq(Updates)]
        BY <2>1, <2>2, <2>3 DEF TypeOK
    <2> QED
        BY <1>7, <2>4, StoredType, HistoryType DEF SaveNext, TypeOK
<1>8. ASSUME NEW p \in Phones, SaveDone(p) PROVE TypeOK'
    <2>1. wire' \in [Phones -> Seq(Updates)]
        BY <1>8, HeadLemma DEF SaveDone, TypeOK
    <2> QED
        BY <1>8, <2>1, StoredType, HistoryType DEF SaveDone, TypeOK
<1>9. ASSUME NEW p \in Phones, SaveFails(p) PROVE TypeOK'
    <2>1. wire' \in [Phones -> Seq(Updates)]
        BY <1>9, HeadLemma DEF SaveFails, TypeOK
    <2> QED
        BY <1>9, <2>1, HistoryType DEF SaveFails, TypeOK
<1>10. ASSUME NEW p \in Phones, Restart(p) PROVE TypeOK'
    <2>1. wire' \in [Phones -> Seq(Updates)]
        BY <1>10 DEF Restart, TypeOK
    <2>2. form' \in [Phones -> [open : BOOLEAN, lang : Languages]]
        BY <1>10 DEF Restart, TypeOK
    <2>3. fields' \in [Phones -> [Days -> Texts]]
        BY <1>0, <1>10 DEF Restart, TypeOK
    <2> QED
        BY <1>10, <2>1, <2>2, <2>3, HistoryType DEF Restart, TypeOK
<1>11. CASE UNCHANGED vars
    BY <1>11 DEF vars, TypeOK
<1> QED
    BY <1>1, <1>2, <1>3, <1>4, <1>5, <1>6, <1>7, <1>8, <1>9, <1>10, <1>11 DEF Next

\* The calendar keeps its types, for every run of the app.
THEOREM ScheduleTypeOK == Spec => []TypeOK
<1> QED
    BY InitType, StepType, PTL DEF Spec

-----------------------------------------------------------------------------
(* The stored days.                                                        *)

\* Where an update of phone p is after the oldest one has left the queue.
LEMMA TailLemma ==
    ASSUME TypeOK, NEW p \in Phones, wire[p] # <<>>, NEW i \in DOMAIN Tail(wire[p])
    PROVE  i + 1 \in DOMAIN wire[p] /\ Tail(wire[p])[i] = wire[p][i + 1]
<1>1. wire[p] \in Seq(Updates)
    BY DEF TypeOK
<1> QED
    BY <1>1

\* The first day of the queue is one a save is at.
LEMMA FirstLemma ==
    ASSUME TypeOK, NEW p \in Phones, wire[p] # <<>>
    PROVE  1 \in DOMAIN wire[p] /\ wire[p][1] = Head(wire[p])
<1>1. wire[p] \in Seq(Updates)
    BY DEF TypeOK
<1> QED
    BY <1>1

\* Storing the oldest update adds its day to the stored ones and takes none
\* away, so that they stay a prefix.
LEMMA StoredPrefix ==
    ASSUME ScheduleInv, NEW p \in Phones, wire[p] # <<>>, Stored(p), UNCHANGED replaced
    PROVE  /\ \A k \in Keys : stored[k] # Null => stored'[k] # Null
           /\ stored'[<<form[p].lang, Head(wire[p]).day>>] # Null
           /\ PrefixStored'
<1> DEFINE l == form[p].lang
           d == Head(wire[p]).day
<1>1. /\ l \in Languages /\ d \in Days /\ <<l, d>> \in Keys
      /\ Head(wire[p]).text \in Texts
    BY HeadLemma DEF ScheduleInv, TypeOK
<1>2. \A k \in Keys : stored'[k] = IF k = <<l, d>> THEN Head(wire[p]).text ELSE stored[k]
    BY <1>1 DEF ScheduleInv, TypeOK, Stored
<1>3. \A k \in Keys : stored[k] # Null => stored'[k] # Null
    BY <1>1, <1>2, TextsAssumption
<1>4. stored'[<<l, d>>] # Null
    BY <1>1, <1>2, TextsAssumption
<1>5. ASSUME ~replaced, NEW m \in Languages, NEW b \in Days, NEW c \in Days,
             b < c, stored'[<<m, c>>] # Null
      PROVE  stored'[<<m, b>>] # Null
    <2>1. <<m, b>> \in Keys /\ <<m, c>> \in Keys
        BY DEF Keys
    <2>2. CASE stored[<<m, c>>] # Null
        <3>1. stored[<<m, b>>] # Null
            BY <1>5, <2>2 DEF ScheduleInv, PrefixStored
        <3> QED
            BY <1>3, <2>1, <3>1
    <2>3. CASE m = l /\ c = d
        <3>1. stored[<<l, b>>] # Null
            BY <1>5, <2>3, FirstLemma DEF ScheduleInv, SavesFollowPrefix
        <3> QED
            BY <1>3, <2>1, <2>3, <3>1
    <2> QED
        BY <1>2, <1>5, <2>1, <2>2, <2>3
<1>6. PrefixStored'
    BY <1>5 DEF PrefixStored
<1> QED
    BY <1>3, <1>4, <1>6

\* Every step keeps the stored days a prefix and the saves behind it.
LEMMA StepInv == ScheduleInv /\ [Next]_vars => ScheduleInv'
<1> SUFFICES ASSUME ScheduleInv, [Next]_vars PROVE ScheduleInv'
    OBVIOUS
<1>0. TypeOK /\ TypeOK'
    BY StepType DEF ScheduleInv
<1>q. ASSUME UNCHANGED <<stored, form, wire, replaced>> PROVE ScheduleInv'
    BY <1>0, <1>q DEF ScheduleInv, PrefixStored, SavesFollowPrefix
<1>1. CASE ReplaceDevice
    <2>1. CASE replaced'
        BY <1>0, <2>1 DEF ScheduleInv, PrefixStored, SavesFollowPrefix
    <2>2. CASE ~replaced'
        <3>1. \A p \in Phones : wire'[p] = <<>>
            BY <1>1, <2>2 DEF ReplaceDevice
        <3>2. SavesFollowPrefix'
            BY <3>1 DEF SavesFollowPrefix
        <3>3. \A l \in Languages, d \in Days : stored'[<<l, d>>] = Null
            BY <1>1 DEF ReplaceDevice, NoSchedule, Keys
        <3>4. PrefixStored'
            BY <3>3 DEF PrefixStored
        <3> QED
            BY <1>0, <3>2, <3>4 DEF ScheduleInv
    <2> QED
        BY <2>1, <2>2
<1>2. ASSUME NEW p \in Phones, Deliver(p) PROVE ScheduleInv'
    BY <1>q, <1>2 DEF Deliver
<1>3. ASSUME NEW p \in Phones, NEW l \in Languages, OpenForm(p, l) PROVE ScheduleInv'
    <2>1. \A q \in Phones : wire[q] # <<>> => form'[q].lang = form[q].lang
        BY <1>0, <1>3 DEF OpenForm, TypeOK
    <2>2. SavesFollowPrefix'
        BY <1>3, <2>1 DEF OpenForm, ScheduleInv, SavesFollowPrefix
    <2>3. PrefixStored'
        BY <1>3 DEF OpenForm, ScheduleInv, PrefixStored
    <2> QED
        BY <1>0, <2>2, <2>3 DEF ScheduleInv
<1>4. ASSUME NEW p \in Phones, CloseForm(p) PROVE ScheduleInv'
    <2>1. \A q \in Phones : form'[q].lang = form[q].lang
        BY <1>0, <1>4 DEF CloseForm, TypeOK
    <2>2. SavesFollowPrefix'
        BY <1>4, <2>1 DEF CloseForm, ScheduleInv, SavesFollowPrefix
    <2>3. PrefixStored'
        BY <1>4 DEF CloseForm, ScheduleInv, PrefixStored
    <2> QED
        BY <1>0, <2>2, <2>3 DEF ScheduleInv
<1>5. ASSUME NEW p \in Phones, NEW d \in Days, NEW t \in Texts, Type(p, d, t)
      PROVE  ScheduleInv'
    BY <1>q, <1>5 DEF Type
<1>6. ASSUME NEW p \in Phones, SaveTap(p) PROVE ScheduleInv'
    <2>1. ASSUME ~replaced, NEW q \in Phones, NEW i \in DOMAIN wire'[q], NEW c \in Days,
                 c < wire'[q][i].day
          PROVE  stored[<<form[q].lang, c>>] # Null
        <3>1. i \in DOMAIN wire[q] /\ wire'[q][i] = wire[q][i]
            <4>1. wire[p] \in Seq(Updates) /\ wire[q] \in Seq(Updates)
                BY <1>0 DEF TypeOK
            <4>2. CASE q # p
                BY <1>0, <1>6, <4>2 DEF SaveTap, TypeOK
            <4>3. CASE q = p
                <5>1. wire'[p] = Append(wire[p], [day |-> 1, text |-> fields[p][1]])
                    BY <1>0, <1>6 DEF SaveTap, TypeOK
                <5>2. CASE i = Len(wire[p]) + 1
                    <6>1. wire'[p][i].day = 1
                        BY <4>1, <5>1, <5>2
                    <6> QED
                        BY <2>1, <4>3, <6>1, DayCountAssumption DEF Days
                <5> QED
                    BY <2>1, <4>1, <4>3, <5>1, <5>2
            <4> QED
                BY <4>2, <4>3
        <3> QED
            BY <2>1, <3>1 DEF ScheduleInv, SavesFollowPrefix
    <2>2. SavesFollowPrefix'
        BY <1>6, <2>1 DEF SaveTap, SavesFollowPrefix
    <2>3. PrefixStored'
        BY <1>6 DEF SaveTap, ScheduleInv, PrefixStored
    <2> QED
        BY <1>0, <2>2, <2>3 DEF ScheduleInv
<1>7. ASSUME NEW p \in Phones, SaveNext(p) PROVE ScheduleInv'
    <2> DEFINE d == Head(wire[p]).day
               next == [day |-> d + 1, text |-> fields[p][d + 1]]
    <2>1. /\ \A k \in Keys : stored[k] # Null => stored'[k] # Null
          /\ stored'[<<form[p].lang, d>>] # Null
          /\ PrefixStored'
        BY <1>7, StoredPrefix DEF SaveNext
    <2>2. /\ wire[p] # <<>> /\ wire[p] \in Seq(Updates) /\ d \in Days
          /\ Tail(wire[p]) \in Seq(Updates)
          /\ wire' = [wire EXCEPT ![p] = Append(Tail(wire[p]), next)]
          /\ UNCHANGED <<form, replaced>>
        BY <1>0, <1>7, HeadLemma DEF SaveNext, TypeOK
    <2>3. ASSUME ~replaced, NEW q \in Phones, NEW i \in DOMAIN wire'[q], NEW c \in Days,
                 c < wire'[q][i].day
          PROVE  stored'[<<form[q].lang, c>>] # Null
        <3>1. form[q].lang \in Languages /\ <<form[q].lang, c>> \in Keys
            BY <1>0 DEF TypeOK, Keys
        <3>2. CASE q # p
            <4>1. wire'[q] = wire[q]
                BY <1>0, <2>2, <3>2 DEF TypeOK
            <4> QED
                BY <2>1, <2>3, <3>1, <4>1 DEF ScheduleInv, SavesFollowPrefix
        <3>3. CASE q = p /\ i = Len(Tail(wire[p])) + 1
            <4> HIDE DEF next, d
            <4>1. wire'[p][i] = next
                BY <1>0, <2>2, <3>3 DEF TypeOK
            <4>2. next.day = d + 1
                BY DEF next
            <4>3. c < d \/ c = d
                BY <2>2, <2>3, <3>3, <4>1, <4>2, DayCountAssumption DEF Days
            <4>4. c < d => stored[<<form[p].lang, c>>] # Null
                BY <1>0, <2>2, <2>3, FirstLemma DEF d, ScheduleInv, SavesFollowPrefix
            <4> QED
                BY <2>1, <3>1, <3>3, <4>3, <4>4
        <3>4. CASE q = p /\ i # Len(Tail(wire[p])) + 1
            <4> HIDE DEF next
            <4>1. i \in DOMAIN Tail(wire[p]) /\ wire'[p][i] = Tail(wire[p])[i]
                BY <1>0, <2>2, <2>3, <3>4 DEF TypeOK
            <4>2. i + 1 \in DOMAIN wire[p] /\ wire'[p][i] = wire[p][i + 1]
                BY <1>0, <2>2, <4>1, TailLemma
            <4>3. stored[<<form[p].lang, c>>] # Null
                BY <2>3, <3>4, <4>2 DEF ScheduleInv, SavesFollowPrefix
            <4> QED
                BY <2>1, <3>1, <3>4, <4>3
        <3> QED
            BY <3>2, <3>3, <3>4
    <2>4. SavesFollowPrefix'
        BY <2>2, <2>3 DEF SavesFollowPrefix
    <2> QED
        BY <1>0, <2>1, <2>4 DEF ScheduleInv
<1>8. ASSUME NEW p \in Phones, wire[p] # <<>>,
             wire' = [wire EXCEPT ![p] = Tail(wire[p])] \/ wire' = [wire EXCEPT ![p] = <<>>],
             UNCHANGED replaced, \A q \in Phones : form'[q].lang = form[q].lang,
             \A k \in Keys : stored[k] # Null => stored'[k] # Null
      PROVE  SavesFollowPrefix'
    <2>1. ASSUME ~replaced, NEW q \in Phones, NEW i \in DOMAIN wire'[q], NEW c \in Days,
                 c < wire'[q][i].day
          PROVE  stored'[<<form[q].lang, c>>] # Null
        <3>1. <<form[q].lang, c>> \in Keys
            BY <1>0 DEF TypeOK, Keys
        <3>2. \E j \in DOMAIN wire[q] : wire'[q][i] = wire[q][j]
            <4>1. CASE q # p
                BY <1>0, <1>8, <2>1, <4>1 DEF TypeOK
            <4>2. CASE q = p /\ wire'[p] = Tail(wire[p])
                BY <1>0, <1>8, <2>1, <4>2, TailLemma
            <4>3. CASE q = p /\ wire'[p] = <<>>
                BY <2>1, <4>3
            <4> QED
                BY <1>0, <1>8, <4>1, <4>2, <4>3 DEF TypeOK
        <3>3. stored[<<form[q].lang, c>>] # Null
            BY <2>1, <3>2 DEF ScheduleInv, SavesFollowPrefix
        <3> QED
            BY <1>8, <3>1, <3>3
    <2> QED
        BY <1>8, <2>1 DEF SavesFollowPrefix
<1>9. ASSUME NEW p \in Phones, SaveDone(p) PROVE ScheduleInv'
    <2>1. /\ \A k \in Keys : stored[k] # Null => stored'[k] # Null
          /\ PrefixStored'
        BY <1>9, StoredPrefix DEF SaveDone
    <2>2. SavesFollowPrefix'
        BY <1>8, <1>9, <2>1 DEF SaveDone
    <2> QED
        BY <1>0, <2>1, <2>2 DEF ScheduleInv
<1>10. ASSUME NEW p \in Phones, SaveFails(p) PROVE ScheduleInv'
    <2>1. SavesFollowPrefix'
        BY <1>8, <1>10 DEF SaveFails
    <2>2. PrefixStored'
        BY <1>10 DEF SaveFails, ScheduleInv, PrefixStored
    <2> QED
        BY <1>0, <2>1, <2>2 DEF ScheduleInv
<1>11. ASSUME NEW p \in Phones, Restart(p) PROVE ScheduleInv'
    <2>1. PrefixStored'
        BY <1>11 DEF Restart, ScheduleInv, PrefixStored
    <2>2. \A q \in Phones : form'[q].lang = form[q].lang
        BY <1>0, <1>11 DEF Restart, TypeOK
    <2>3. CASE wire[p] = <<>>
        <3>1. wire' = wire
            BY <1>0, <1>11, <2>3 DEF Restart, TypeOK
        <3>2. SavesFollowPrefix'
            BY <1>11, <2>2, <3>1 DEF Restart, ScheduleInv, SavesFollowPrefix
        <3> QED
            BY <1>0, <2>1, <3>2 DEF ScheduleInv
    <2>4. CASE wire[p] # <<>>
        <3>1. SavesFollowPrefix'
            BY <1>8, <1>11, <2>2, <2>4 DEF Restart
        <3> QED
            BY <1>0, <2>1, <3>1 DEF ScheduleInv
    <2> QED
        BY <2>3, <2>4
<1>12. CASE UNCHANGED vars
    BY <1>q, <1>12 DEF vars
<1> QED
    BY <1>1, <1>2, <1>3, <1>4, <1>5, <1>6, <1>7, <1>9, <1>10, <1>11, <1>12 DEF Next

LEMMA InitInv == Init => ScheduleInv
<1> SUFFICES ASSUME Init PROVE ScheduleInv
    OBVIOUS
<1>1. \A l \in Languages, d \in Days : stored[<<l, d>>] = Null
    BY DEF Init, NoSchedule, Keys
<1>2. PrefixStored
    BY <1>1 DEF PrefixStored
<1>3. SavesFollowPrefix
    BY DEF Init, SavesFollowPrefix
<1> QED
    BY <1>2, <1>3, InitType DEF ScheduleInv

\* The days stored in a language are the first ones of the week, for any
\* number of phones, languages and days and any number of saves in flight,
\* until a device is replaced under a running save.
THEOREM SchedulePrefixStored == Spec => []PrefixStored
<1>1. ScheduleInv => PrefixStored
    BY DEF ScheduleInv
<1> QED
    BY InitInv, StepInv, <1>1, PTL DEF Spec

-----------------------------------------------------------------------------
(* The rows of the form.                                                   *)

\* A non-empty set of indices has a least one.
LEMMA LeastIndex ==
    ASSUME NEW n \in Nat, NEW S \in SUBSET (1..n), S # {}
    PROVE  \E i \in S : \A j \in S : i <= j
<1>1. S \subseteq Nat
    OBVIOUS
<1>2. \E x \in S : \A y \in S : ~ (<<y, x>> \in OpToRel(<, Nat))
    BY <1>1, WFMin, NatLessThanWellFounded
<1>3. PICK x \in S : \A y \in S : ~ (y < x)
    BY <1>1, <1>2 DEF OpToRel
<1> QED
    BY <1>1, <1>3

\* The numbers 1..n in order are 1, 2, ..., n: sorting the first days of a week
\* puts day i in place i.
LEMMA SortedLemma ==
    ASSUME NEW n \in Nat, NEW f \in [1..n -> 1..n],
           \A i, j \in 1..n : i < j => f[i] < f[j]
    PROVE  \A i \in 1..n : f[i] = i
<1>0. \A i \in 1..n : i \in Nat /\ f[i] \in Nat /\ 1 <= f[i] /\ f[i] <= n
    OBVIOUS
<1>1. \A i \in 1..n : i <= f[i]
    <2> DEFINE S == {i \in 1..n : f[i] < i}
    <2>1. SUFFICES ASSUME S # {} PROVE FALSE
        BY <1>0
    <2>2. PICK i \in S : \A j \in S : i <= j
        BY <2>1, LeastIndex
    <2>3. i - 1 \in 1..n /\ i - 1 < i
        BY <1>0
    <2>4. i - 1 <= f[i - 1]
        <3>1. i - 1 \notin S
            BY <2>2, <2>3
        <3> QED
            BY <1>0, <2>3, <3>1
    <2>5. f[i - 1] < f[i]
        BY <2>3
    <2> QED
        BY <1>0, <2>3, <2>4, <2>5
<1>2. \A i \in 1..n : f[i] <= i
    <2> DEFINE S == {i \in 1..n : i < f[i]}
    <2>1. SUFFICES ASSUME S # {} PROVE FALSE
        BY <1>0
    <2>2. PICK i \in S : \A j \in S : j <= i
        BY <2>1, GreatestIndex
    <2>3. i + 1 \in 1..n /\ i < i + 1
        BY <1>0
    <2>4. f[i + 1] <= i + 1
        <3>1. i + 1 \notin S
            BY <2>2, <2>3
        <3> QED
            BY <1>0, <2>3, <3>1
    <2>5. f[i] < f[i + 1]
        BY <2>3
    <2> QED
        BY <1>0, <2>3, <2>4, <2>5
<1> QED
    BY <1>0, <1>1, <1>2

\* A day is in a phone's view if it is stored or the phone has sent it.
LEMMA ViewSeen ==
    ASSUME TypeOK, NEW p \in Phones, NEW k \in Keys
    PROVE  View(p)[k] # Null <=>
               \/ stored[k] # Null
               \/ \E i \in DOMAIN wire[p] : <<form[p].lang, wire[p][i].day>> = k
<1> DEFINE own == {i \in DOMAIN wire[p] : <<form[p].lang, wire[p][i].day>> = k}
           last == CHOOSE i \in own : \A j \in own : j <= i
<1>1. View(p)[k] = IF own = {} THEN stored[k] ELSE wire[p][last].text
    BY DEF View
<1>2. CASE own = {}
    BY <1>1, <1>2
<1>3. CASE own # {}
    <2>1. wire[p] \in Seq(Updates) /\ Len(wire[p]) \in Nat /\ own \in SUBSET (1..Len(wire[p]))
        BY DEF TypeOK
    <2>2. last \in own
        <3> HIDE DEF own
        <3> QED
            BY <1>3, <2>1, GreatestIndex
    <2> HIDE DEF last
    <2>3. wire[p][last].text \in Texts
        <3>1. wire[p][last] \in Updates
            BY <2>1, <2>2
        <3> QED
            BY <3>1 DEF Updates
    <2> QED
        BY <1>1, <1>3, <2>2, <2>3, TextsAssumption
<1> QED
    BY <1>2, <1>3

\* The days a phone sees in its own language are the first ones, too.
LEMMA ViewPrefix ==
    ASSUME ScheduleInv, ~replaced, NEW p \in Phones, NEW c \in Days, NEW d \in Days,
           c < d, View(p)[<<form[p].lang, d>>] # Null
    PROVE  View(p)[<<form[p].lang, c>>] # Null
<1> DEFINE l == form[p].lang
<1>1. l \in Languages /\ <<l, c>> \in Keys /\ <<l, d>> \in Keys
    BY DEF ScheduleInv, TypeOK, Keys
<1>2. CASE stored[<<l, d>>] # Null
    <2>1. stored[<<l, c>>] # Null
        BY <1>1, <1>2 DEF ScheduleInv, PrefixStored
    <2> QED
        BY <1>1, <2>1, ViewSeen DEF ScheduleInv
<1>3. ASSUME NEW i \in DOMAIN wire[p], <<l, wire[p][i].day>> = <<l, d>>
      PROVE  View(p)[<<l, c>>] # Null
    <2>1. stored[<<l, c>>] # Null
        BY <1>3 DEF ScheduleInv, SavesFollowPrefix
    <2> QED
        BY <1>1, <2>1, ViewSeen DEF ScheduleInv
<1> QED
    BY <1>1, <1>2, <1>3, ViewSeen DEF ScheduleInv

\* The days of a view in one language are the days 1..m.
LEMMA FirstDays ==
    ASSUME NEW D \in SUBSET Days, \A c, d \in Days : c < d /\ d \in D => c \in D
    PROVE  \E m \in 0..DayCount : D = 1..m
<1>1. CASE D = {}
    <2>1. D = 1..0 /\ 0 \in 0..DayCount
        BY <1>1, DayCountAssumption
    <2> QED
        BY <2>1
<1>2. CASE D # {}
    <2>1. PICK m \in D : \A d \in D : d <= m
        BY <1>2, DayCountAssumption, GreatestIndex DEF Days
    <2>2. m \in 0..DayCount /\ m \in Days
        BY <2>1, DayCountAssumption DEF Days
    <2>3. \A d \in 1..m : d \in Days /\ (d < m \/ d = m)
        BY <2>2, DayCountAssumption DEF Days
    <2>4. \A d \in D : d \in 1..m
        BY <2>1, <2>2, DayCountAssumption DEF Days
    <2>5. D = 1..m
        BY <2>1, <2>2, <2>3, <2>4
    <2> QED
        BY <2>2, <2>5
<1> QED
    BY <1>1, <1>2

\* When the days of a view are the first ones in one language, row i is day i.
LEMMA RowsCounted ==
    ASSUME TypeOK, NEW p \in Phones,
           \A k \in Keys : View(p)[k] # Null => k[1] = form[p].lang,
           \A c, d \in Days : c < d /\ View(p)[<<form[p].lang, d>>] # Null =>
                                  View(p)[<<form[p].lang, c>>] # Null,
           NEW s \in Rows(p), NEW i \in DOMAIN s
    PROVE  s[i] = <<form[p].lang, i>>
<1> DEFINE l == form[p].lang
           found == {k \in Keys : View(p)[k] # Null}
           D == {d \in Days : View(p)[<<l, d>>] # Null}
           n == Cardinality(found)
           index == [k \in found |-> IF k[1] = l THEN k[2] ELSE 0]
<1>1. /\ s \in [1..n -> found]
      /\ \A a, b \in 1..n : a # b => s[a] # s[b]
      /\ n <= DayCount => \A a, b \in 1..n : a < b => index[s[a]] <= index[s[b]]
    BY DEF Rows
<1>2. l \in Languages
    BY DEF TypeOK
<1>3. PICK m \in 0..DayCount : D = 1..m
    <2>1. \A c, d \in Days : c < d /\ d \in D => c \in D
        OBVIOUS
    <2> HIDE DEF D
    <2>2. D \in SUBSET Days
        BY DEF D
    <2> QED
        BY <2>1, <2>2, FirstDays
<1>4. /\ \A k \in found : k = <<l, k[2]>> /\ k[2] \in D
      /\ \A d \in D : <<l, d>> \in found
    BY <1>2 DEF Keys
<1>5. \A k \in found : index[k] = k[2]
    BY <1>4
<1> HIDE DEF found, D, index
<1>6. m \in Nat /\ m <= DayCount
    BY DayCountAssumption
<1>7. n = m
    <2> DEFINE g == [d \in 1..m |-> <<l, d>>]
    <2>1. g \in Bijection(1..m, found)
        <3>1. g \in [1..m -> found] /\ \A a, b \in 1..m : g[a] = g[b] => a = b
            BY <1>3, <1>4
        <3>2. \A k \in found : \E d \in 1..m : g[d] = k
            BY <1>3, <1>4
        <3> HIDE DEF g
        <3> QED
            BY <3>1, <3>2, Fun_IsBij
    <2>2. ExistsBijection(1..m, found)
        BY <2>1 DEF ExistsBijection
    <2> QED
        BY <1>6, <2>2, FS_CountingElements
<1> HIDE DEF n
<1> DEFINE f == [a \in 1..m |-> s[a][2]]
<1>8. /\ s \in [1..m -> found] /\ DOMAIN s = 1..m
      /\ \A a \in 1..m : s[a] \in found
    BY <1>1, <1>7
<1>9. f \in [1..m -> 1..m]
    BY <1>3, <1>4, <1>8
<1>10. ASSUME NEW a \in 1..m, NEW b \in 1..m, a < b PROVE f[a] < f[b]
    <2>1. f[a] <= f[b]
        BY <1>1, <1>5, <1>6, <1>7, <1>8, <1>10
    <2>2. f[a] # f[b]
        <3>1. s[a] # s[b]
            BY <1>1, <1>6, <1>7, <1>10
        <3>2. s[a] = <<l, f[a]>> /\ s[b] = <<l, f[b]>>
            BY <1>4, <1>8
        <3> QED
            BY <3>1, <3>2
    <2>3. f[a] \in Nat /\ f[b] \in Nat
        BY <1>9
    <2> QED
        BY <2>1, <2>2, <2>3
<1>11. f[i] = i
    <2> HIDE DEF f
    <2>1. \A a \in 1..m : f[a] = a
        BY <1>6, <1>9, <1>10, SortedLemma
    <2> QED
        BY <1>8, <2>1
<1>12. s[i] = <<l, f[i]>>
    BY <1>4, <1>8
<1> QED
    BY <1>11, <1>12

LEMMA RowsInv == ScheduleInv => RowsAreDays
<1> SUFFICES ASSUME ScheduleInv, NEW p \in Phones, ~replaced,
                    \A k \in Keys : View(p)[k] # Null => k[1] = form[p].lang,
                    NEW s \in Rows(p), NEW i \in DOMAIN s
             PROVE  s[i] = <<form[p].lang, i>>
    BY DEF RowsAreDays
<1>1. \A c, d \in Days : c < d /\ View(p)[<<form[p].lang, d>>] # Null =>
                             View(p)[<<form[p].lang, c>>] # Null
    BY ViewPrefix
<1> QED
    BY <1>1, RowsCounted DEF ScheduleInv

\* However the rows of a phone's view are counted, row i is day i, for any number
\* of phones, days and saves in flight, as long as the days are all named in
\* the language of the form.
THEOREM ScheduleRowsAreDays == Spec => []RowsAreDays
<1> QED
    BY InitInv, StepInv, RowsInv, PTL DEF Spec

-----------------------------------------------------------------------------
(* The first calendar of a device.                                         *)

\* Why it is stored as typed: while its save runs undisturbed, it is the only
\* one of its phone, the form holds the rows of the tap, the update under way
\* is one of them, and the days before it, and no others, are stored so.
FirstSaveInv ==
    \A p \in Phones : saved[p].clean =>
        /\ Len(wire[p]) = 1
        /\ saved[p].first =>
              /\ fields[p] = saved[p].rows
              /\ wire[p][1].text = saved[p].rows[wire[p][1].day]
              /\ \A k \in Keys :
                    stored[k] = IF k[1] = form[p].lang /\ k[2] < wire[p][1].day
                                THEN saved[p].rows[k[2]] ELSE Null

\* The view of a phone with one update under way.
LEMMA ViewOne ==
    ASSUME TypeOK, NEW p \in Phones, Len(wire[p]) = 1, NEW k \in Keys
    PROVE  View(p)[k] = IF k = <<form[p].lang, wire[p][1].day>> THEN wire[p][1].text
                        ELSE stored[k]
<1> DEFINE own == {i \in DOMAIN wire[p] : <<form[p].lang, wire[p][i].day>> = k}
<1>1. View(p)[k] = IF own = {} THEN stored[k]
                   ELSE wire[p][CHOOSE i \in own : \A j \in own : j <= i].text
    BY DEF View
<1>2. wire[p] \in Seq(Updates) /\ DOMAIN wire[p] = {1}
    BY DEF TypeOK
<1>3. CASE k = <<form[p].lang, wire[p][1].day>>
    <2>1. own = {1}
        BY <1>2, <1>3
    <2>2. (CHOOSE i \in own : \A j \in own : j <= i) = 1
        BY <2>1
    <2> QED
        BY <1>1, <1>3, <2>1, <2>2
<1>4. CASE k # <<form[p].lang, wire[p][1].day>>
    <2>1. own = {}
        BY <1>2, <1>4
    <2> QED
        BY <1>1, <1>4, <2>1
<1> QED
    BY <1>3, <1>4

\* The view of a phone that saves nothing.
LEMMA ViewStored ==
    ASSUME TypeOK, NEW p \in Phones, wire[p] = <<>>
    PROVE  \A k \in Keys : View(p)[k] = stored[k]
BY DEF View

\* The events of the days already stored leave the form as it was typed.
LEMMA FirstDeliver ==
    ASSUME TypeOK, FirstSaveInv, NEW p \in Phones, saved[p].clean, saved[p].first,
           NEW s \in Rows(p), NEW e \in Days, e \in DOMAIN s
    PROVE  View(p)[s[e]] = saved[p].rows[e]
<1> DEFINE l == form[p].lang
           u == wire[p][1]
           rows == saved[p].rows
<1>1. /\ Len(wire[p]) = 1 /\ u.text = rows[u.day]
      /\ \A k \in Keys : stored[k] = IF k[1] = l /\ k[2] < u.day THEN rows[k[2]] ELSE Null
    BY DEF FirstSaveInv
<1>2. /\ u \in Updates /\ u.day \in Days /\ l \in Languages /\ rows \in [Days -> Texts]
      /\ \A d \in Days : <<l, d>> \in Keys /\ d \in Nat
    <2>0. wire[p] \in Seq(Updates)
        BY DEF TypeOK
    <2>1. u \in Updates
        BY <1>1, <2>0
    <2>2. u.day \in Days
        BY <2>1 DEF Updates
    <2>3. l \in Languages /\ rows \in [Days -> Texts]
        BY DEF TypeOK
    <2>4. \A d \in Days : <<l, d>> \in Keys /\ d \in Nat
        BY <2>3 DEF Keys, Days
    <2> QED
        BY <2>1, <2>2, <2>3, <2>4
<1>3. \A k \in Keys : View(p)[k] = IF k = <<l, u.day>> THEN u.text ELSE stored[k]
    BY <1>1, ViewOne
<1>4. \A k \in Keys : View(p)[k] # Null => k[1] = l
    BY <1>1, <1>3
<1>5. ASSUME NEW d \in Days
      PROVE  View(p)[<<l, d>>] = IF d <= u.day THEN rows[d] ELSE Null
    <2>1. d \in Nat /\ u.day \in Nat /\ <<l, d>> \in Keys
        BY <1>2
    <2>2. CASE d = u.day
        BY <1>1, <1>3, <2>1, <2>2
    <2>3. CASE d # u.day
        <3>1. View(p)[<<l, d>>] = stored[<<l, d>>]
            BY <1>3, <2>1, <2>3
        <3>2. stored[<<l, d>>] = IF d < u.day THEN rows[d] ELSE Null
            BY <1>1, <2>1
        <3> QED
            BY <2>1, <2>3, <3>1, <3>2
    <2> QED
        BY <2>2, <2>3
<1>6. \A d \in Days : View(p)[<<l, d>>] # Null <=> d <= u.day
    <2>1. \A d \in Days : rows[d] # Null
        BY <1>2, TextsAssumption
    <2> QED
        BY <1>5, <2>1
<1>7. ASSUME NEW c \in Days, NEW d \in Days, c < d, View(p)[<<l, d>>] # Null
      PROVE  View(p)[<<l, c>>] # Null
    <2>1. c \in Nat /\ d \in Nat /\ u.day \in Nat /\ d <= u.day
        BY <1>2, <1>6, <1>7
    <2>2. c <= u.day
        BY <1>7, <2>1
    <2> QED
        BY <1>6, <2>2
<1>8. s[e] = <<l, e>>
    BY <1>4, <1>7, RowsCounted
<1>9. View(p)[s[e]] # Null
    BY DEF Rows
<1> QED
    BY <1>5, <1>6, <1>8, <1>9

LEMMA StepFirst == TypeOK /\ FirstSaveInv /\ [Next]_vars => FirstSaveInv'
<1> SUFFICES ASSUME TypeOK, FirstSaveInv, [Next]_vars PROVE FirstSaveInv'
    OBVIOUS
<1>b. NoSave.clean = FALSE
    BY DEF NoSave
<1>q. ASSUME UNCHANGED stored,
             \A q \in Phones : saved'[q].clean =>
                 /\ saved'[q] = saved[q] /\ wire'[q] = wire[q] /\ fields'[q] = fields[q]
                 /\ form'[q].lang = form[q].lang
      PROVE  FirstSaveInv'
    BY <1>q DEF FirstSaveInv
<1>s. ASSUME NEW Q, Spoil(Q), NEW q \in Phones, saved'[q].clean
      PROVE  q \notin Q /\ saved'[q] = saved[q]
    BY <1>b, <1>s DEF Spoil
<1>f. \A q \in Phones : form[q] \in [open : BOOLEAN, lang : Languages]
    BY DEF TypeOK
<1>1. CASE ReplaceDevice
    BY <1>1, <1>s DEF ReplaceDevice, FirstSaveInv
<1>2. ASSUME NEW p \in Phones, Deliver(p) PROVE FirstSaveInv'
    <2>1. PICK s \in Rows(p) : fields' = [fields EXCEPT ![p] =
              [d \in Days |-> IF d \in DOMAIN s THEN View(p)[s[d]] ELSE fields[p][d]]]
        BY <1>2 DEF Deliver
    <2>2. \A q \in Phones : q # p => fields'[q] = fields[q]
        BY <2>1 DEF TypeOK
    <2>3. saved[p].clean /\ saved[p].first => fields'[p] = saved[p].rows
        <3> SUFFICES ASSUME saved[p].clean, saved[p].first PROVE fields'[p] = saved[p].rows
            OBVIOUS
        <3>1. fields[p] = saved[p].rows /\ saved[p].rows \in [Days -> Texts]
            BY DEF FirstSaveInv, TypeOK
        <3>2. \A d \in Days : d \in DOMAIN s => View(p)[s[d]] = saved[p].rows[d]
            BY FirstDeliver
        <3>3. fields'[p] = [d \in Days |-> saved[p].rows[d]]
            BY <2>1, <3>1, <3>2 DEF TypeOK
        <3> QED
            BY <3>1, <3>3
    <2>4. UNCHANGED <<stored, form, wire, saved>>
        BY <1>2 DEF Deliver
    <2> QED
        BY <2>2, <2>3, <2>4 DEF FirstSaveInv
<1>3. ASSUME NEW p \in Phones, NEW l \in Languages, OpenForm(p, l) PROVE FirstSaveInv'
    <2>1. /\ wire[p] = <<>> /\ UNCHANGED <<stored, wire, saved>>
          /\ \A q \in Phones : q # p => form'[q] = form[q] /\ fields'[q] = fields[q]
        BY <1>3 DEF OpenForm, TypeOK
    <2>2. ~saved[p].clean
        <3>1. Len(wire[p]) # 1
            BY <2>1
        <3> QED
            BY <3>1 DEF FirstSaveInv
    <2> QED
        BY <1>q, <2>1, <2>2
<1>4. ASSUME NEW p \in Phones, CloseForm(p) PROVE FirstSaveInv'
    <2>1. \A q \in Phones : form'[q].lang = form[q].lang
        BY <1>4, <1>f DEF CloseForm, TypeOK
    <2> QED
        BY <1>4, <1>q, <2>1 DEF CloseForm
<1>5. ASSUME NEW p \in Phones, NEW d \in Days, NEW t \in Texts, Type(p, d, t)
      PROVE  FirstSaveInv'
    <2>1. \A q \in Phones : saved'[q].clean => q # p /\ saved'[q] = saved[q]
        BY <1>5, <1>s DEF Type
    <2>2. \A q \in Phones : q # p => fields'[q] = fields[q]
        BY <1>5 DEF Type, TypeOK
    <2> QED
        BY <1>5, <1>q, <2>1, <2>2 DEF Type
<1>6. ASSUME NEW p \in Phones, SaveTap(p) PROVE FirstSaveInv'
    <2>1. /\ UNCHANGED <<stored, form, fields>>
          /\ \A q \in Phones : q # p => saved'[q] = saved[q] /\ wire'[q] = wire[q]
        BY <1>6 DEF SaveTap, TypeOK
    <2>2. saved'[p] = IF wire[p] = <<>>
                      THEN [rows |-> fields[p], first |-> View(p) = NoSchedule, clean |-> TRUE]
                      ELSE NoSave
        BY <1>6 DEF SaveTap, TypeOK
    <2>3. CASE wire[p] # <<>>
        <3>1. ~saved'[p].clean
            BY <1>b, <2>2, <2>3
        <3> QED
            BY <1>q, <2>1, <3>1
    <2>4. CASE wire[p] = <<>>
        <3>1. /\ saved'[p].rows = fields[p]
              /\ saved'[p].first = (View(p) = NoSchedule)
            BY <2>2, <2>4
        <3>2. wire'[p] = Append(<<>>, [day |-> 1, text |-> fields[p][1]])
            BY <1>6, <2>4 DEF SaveTap, TypeOK
        <3>3. Len(wire'[p]) = 1 /\ wire'[p][1] = [day |-> 1, text |-> fields[p][1]]
            BY <3>2
        <3>4. ASSUME View(p) = NoSchedule, NEW k \in Keys
              PROVE  stored[k] = Null /\ ~(k[2] < 1)
            <4>1. stored[k] = Null
                BY <2>4, <3>4, ViewStored DEF NoSchedule
            <4>2. k[2] \in 1..DayCount
                BY DEF Keys, Days
            <4> QED
                BY <4>1, <4>2, DayCountAssumption
        <3>5. saved'[p].first =>
                  \A k \in Keys : stored'[k] = IF k[1] = form'[p].lang /\ k[2] < wire'[p][1].day
                                               THEN saved'[p].rows[k[2]] ELSE Null
            <4>1. wire'[p][1].day = 1 /\ stored' = stored
                BY <2>1, <3>3
            <4>2. View(p) = NoSchedule =>
                      \A k \in Keys : stored'[k] = Null /\ ~(k[2] < wire'[p][1].day)
                BY <3>4, <4>1
            <4> QED
                BY <3>1, <4>2
        <3>6. ASSUME NEW q \in Phones, saved'[q].clean
              PROVE  /\ Len(wire'[q]) = 1
                     /\ saved'[q].first =>
                           /\ fields'[q] = saved'[q].rows
                           /\ wire'[q][1].text = saved'[q].rows[wire'[q][1].day]
                           /\ \A k \in Keys :
                                 stored'[k] = IF k[1] = form'[q].lang /\ k[2] < wire'[q][1].day
                                              THEN saved'[q].rows[k[2]] ELSE Null
            <4>1. CASE q = p
                BY <2>1, <3>1, <3>3, <3>5, <4>1
            <4>2. CASE q # p
                BY <2>1, <3>6, <4>2 DEF FirstSaveInv
            <4> QED
                BY <4>1, <4>2
        <3> QED
            BY <3>6 DEF FirstSaveInv
    <2> QED
        BY <2>3, <2>4
<1>7. ASSUME NEW p \in Phones, SaveNext(p) PROVE FirstSaveInv'
    <2> DEFINE u == Head(wire[p])
               next == [day |-> u.day + 1, text |-> fields[p][u.day + 1]]
    <2>1. /\ wire[p] # <<>> /\ Stored(p) /\ u.day < DayCount
          /\ UNCHANGED <<form, fields>>
          /\ wire' = [wire EXCEPT ![p] = Append(Tail(wire[p]), next)]
          /\ Spoil(Phones \ {p})
        BY <1>7 DEF SaveNext
    <2>2. \A q \in Phones : saved'[q].clean => q = p /\ saved'[q] = saved[q]
        BY <1>s, <2>1
    <2>3. wire[p] \in Seq(Updates) /\ wire'[p] = Append(Tail(wire[p]), next)
        BY <2>1 DEF TypeOK
    <2>4. u \in Updates /\ u.day \in Days /\ <<form[p].lang, u.day>> \in Keys
        BY <2>1, HeadLemma
    <2> HIDE DEF next
    <2>5. ASSUME Len(wire[p]) = 1 PROVE wire[p][1] = u /\ Len(wire'[p]) = 1 /\ wire'[p][1] = next
        <3>1. Tail(wire[p]) = <<>> /\ wire[p][1] = u
            BY <2>1, <2>3, <2>5
        <3>2. wire'[p] = Append(<<>>, next)
            BY <2>3, <3>1
        <3> QED
            BY <3>1, <3>2
    <2>6. ASSUME saved[p].clean, saved[p].first, NEW k \in Keys
          PROVE  stored'[k] = IF k[1] = form[p].lang /\ k[2] < u.day + 1
                              THEN saved[p].rows[k[2]] ELSE Null
        <3>1. /\ u.text = saved[p].rows[u.day]
              /\ stored[k] = IF k[1] = form[p].lang /\ k[2] < u.day
                             THEN saved[p].rows[k[2]] ELSE Null
            BY <2>5, <2>6 DEF FirstSaveInv
        <3>2. stored'[k] = IF k = <<form[p].lang, u.day>> THEN u.text ELSE stored[k]
            BY <2>1, <2>4 DEF Stored, TypeOK
        <3>3. k = <<k[1], k[2]>> /\ k[2] \in Nat /\ u.day \in Nat
            BY <2>4, DayCountAssumption DEF Keys, Days
        <3>4. k[2] < u.day + 1 <=> k[2] < u.day \/ k[2] = u.day
            BY <3>3
        <3>5. CASE k = <<form[p].lang, u.day>>
            <4>1. k[1] = form[p].lang /\ k[2] = u.day
                BY <3>5
            <4> QED
                BY <3>1, <3>2, <3>4, <3>5, <4>1
        <3>6. CASE k # <<form[p].lang, u.day>>
            <4>1. ~(k[1] = form[p].lang /\ k[2] = u.day)
                BY <3>3, <3>6
            <4> QED
                BY <3>1, <3>2, <3>4, <3>6, <4>1
        <3> QED
            BY <3>5, <3>6
    <2>7. ASSUME saved[p].clean PROVE Len(wire'[p]) = 1 /\ wire'[p][1] = next
        BY <2>5, <2>7 DEF FirstSaveInv
    <2>8. next.day = u.day + 1 /\ next.text = fields[p][u.day + 1]
        BY DEF next
    <2>9. saved[p].clean /\ saved[p].first => fields[p] = saved[p].rows
        BY DEF FirstSaveInv
    <2> HIDE DEF u
    <2> QED
        BY <2>1, <2>2, <2>6, <2>7, <2>8, <2>9 DEF FirstSaveInv
<1>8. ASSUME NEW p \in Phones, SaveDone(p) PROVE FirstSaveInv'
    BY <1>8, <1>s DEF SaveDone, FirstSaveInv
<1>9. ASSUME NEW p \in Phones, SaveFails(p) PROVE FirstSaveInv'
    <2>1. \A q \in Phones : saved'[q].clean => q # p /\ saved'[q] = saved[q]
        BY <1>9, <1>s DEF SaveFails
    <2>2. \A q \in Phones : q # p => wire'[q] = wire[q]
        BY <1>9 DEF SaveFails, TypeOK
    <2> QED
        BY <1>9, <1>q, <2>1, <2>2 DEF SaveFails
<1>10. ASSUME NEW p \in Phones, Restart(p) PROVE FirstSaveInv'
    <2>1. \A q \in Phones : saved'[q].clean => q # p /\ saved'[q] = saved[q]
        BY <1>10, <1>s DEF Restart
    <2>2. \A q \in Phones : q # p => /\ wire'[q] = wire[q] /\ fields'[q] = fields[q]
                                     /\ form'[q] = form[q]
        BY <1>10 DEF Restart, TypeOK
    <2> QED
        BY <1>10, <1>q, <2>1, <2>2 DEF Restart
<1>11. CASE UNCHANGED vars
    BY <1>11, <1>q DEF vars
<1> QED
    BY <1>1, <1>2, <1>3, <1>4, <1>5, <1>6, <1>7, <1>8, <1>9, <1>10, <1>11 DEF Next

\* The last answer completes the rows.
LEMMA FirstDone ==
    ASSUME TypeOK, FirstSaveInv, NEW p \in Phones, SaveDone(p),
           saved[p].clean, saved[p].first
    PROVE  SavedRows(p)
<1> DEFINE l == form[p].lang
           u == Head(wire[p])
           rows == saved[p].rows
<1>1. wire[p] # <<>> /\ Stored(p) /\ u.day = DayCount
    BY DEF SaveDone
<1>2. /\ Len(wire[p]) = 1 /\ wire[p][1] = u /\ u.text = rows[u.day]
      /\ \A k \in Keys : stored[k] = IF k[1] = l /\ k[2] < u.day THEN rows[k[2]] ELSE Null
    BY <1>1, FirstLemma DEF FirstSaveInv
<1>3. l \in Languages /\ rows \in [Days -> Texts] /\ <<l, u.day>> \in Keys
    BY <1>1, HeadLemma DEF TypeOK
<1>4. \A k \in Keys : stored'[k] = IF k = <<l, u.day>> THEN u.text ELSE stored[k]
    BY <1>1, <1>3 DEF Stored, TypeOK
<1>5. ASSUME NEW d \in Days PROVE stored'[<<l, d>>] = rows[d]
    <2>1. <<l, d>> \in Keys /\ (d < u.day \/ d = u.day)
        BY <1>1, <1>3, DayCountAssumption DEF Keys, Days
    <2> QED
        BY <1>2, <1>4, <2>1
<1>6. [d \in Days |-> stored'[<<l, d>>]] = rows
    BY <1>3, <1>5
<1> QED
    BY <1>6 DEF SavedRows

LEMMA InitFirst == Init => FirstSaveInv
BY DEF Init, NoSave, FirstSaveInv

\* The first calendar of a device is stored as it was typed, for any number of
\* phones, days and texts, although every answer fills the form anew.
THEOREM ScheduleFirstSaveAsTyped == Spec => FirstSaveAsTyped
<1>1. TypeOK /\ FirstSaveInv /\ [Next]_vars =>
          [\A p \in Phones :
              SaveDone(p) /\ saved[p].clean /\ saved[p].first => SavedRows(p)]_vars
    BY FirstDone
<1> QED
    BY <1>1, InitType, StepType, InitFirst, StepFirst, PTL DEF Spec, FirstSaveAsTyped

-----------------------------------------------------------------------------
(* The composition with Localization.                                      *)

\* What a step of the composition does to the languages.
LocalizedInv ==
    /\ LanguageTypeOK
    /\ page \in [Phones -> Languages \cup {Null}]
    /\ \A p \in Phones : loading[p] /\ ~upset[p] => choices[p] = <<>>
    /\ ShownIsKept

\* The last choice is the oldest one, or the last of those behind it.
LEMMA LastOfTail ==
    ASSUME NEW S, NEW s \in Seq(S), s # <<>>
    PROVE  /\ Tail(s) = <<>> => s[Len(s)] = Head(s)
           /\ Tail(s) # <<>> => Tail(s)[Len(Tail(s))] = s[Len(s)]
<1>1. /\ Head(s) = s[1] /\ Tail(s) \in Seq(S) /\ Len(Tail(s)) = Len(s) - 1
      /\ \A i \in 1..Len(Tail(s)) : Tail(s)[i] = s[i + 1]
    BY HeadTailProperties
<1> SUFFICES ASSUME NEW t \in Seq(S), Len(t) = Len(s) - 1,
                    \A i \in 1..Len(t) : t[i] = s[i + 1]
             PROVE  /\ t = <<>> => s[Len(s)] = s[1]
                    /\ t # <<>> => t[Len(t)] = s[Len(s)]
    BY <1>1
<1>2. Len(t) \in Nat /\ Len(s) \in Nat
    OBVIOUS
<1>3. t = <<>> <=> Len(t) = 0
    BY EmptySeq
<1> QED
    BY <1>2, <1>3

\* A choice that is appended is the last one.
LEMMA LastOfAppend ==
    \A S : \A s \in Seq(S), e \in S :
        /\ Append(s, e) \in Seq(S) /\ Append(s, e) # <<>>
        /\ Append(s, e)[Len(Append(s, e))] = e
<1> SUFFICES ASSUME NEW S, NEW s \in Seq(S), NEW e \in S
             PROVE  /\ Append(s, e) \in Seq(S) /\ Append(s, e) # <<>>
                    /\ Append(s, e)[Len(Append(s, e))] = e
    OBVIOUS
<1> QED
    BY AppendProperties

LEMMA InitLocalized == LocalizedInit => LocalizedInv
<1> SUFFICES ASSUME LocalizedInit PROVE LocalizedInv
    OBVIOUS
<1>1. LanguageTypeOK
    BY DefaultAssumption DEF LocalizedInit, LanguageInit, LanguageTypeOK
<1> QED
    BY <1>1 DEF LocalizedInit, LanguageInit, LocalizedInv, ShownIsKept

\* The languages change only in a choice, in the answers of the preferences
\* and in a restart.
LEMMA LanguageSteps ==
    ASSUME LocalizedNext
    PROVE  \/ UNCHANGED phoneVars
           \/ \E p \in Phones : \/ LanguageLoaded(p) \/ LanguageStored(p)
                                \/ StoreFails(p) \/ LoadFails(p) \/ LanguageRestart(p)
                                \/ \E l \in Languages : ChangeLanguage(p, l)
BY DEF LocalizedNext, OpenPage, OpenLocalized, ClosePage, FormStep, Choose, PreferencesStep,
       RestartLocalized, phoneVars

\* A page is named in a language that the phone shows.
LEMMA PageSteps ==
    ASSUME LanguageTypeOK, page \in [Phones -> Languages \cup {Null}],
           [LocalizedNext]_localizedVars
    PROVE  page' \in [Phones -> Languages \cup {Null}]
<1>1. code \in [Phones -> Languages]
    BY DEF LanguageTypeOK
<1>2. \/ UNCHANGED page
      \/ \E p \in Phones : page' \in {[page EXCEPT ![p] = code[p]], [page EXCEPT ![p] = Null]}
    BY DEF LocalizedNext, OpenPage, OpenLocalized, ClosePage, FormStep, Choose,
           PreferencesStep, RestartLocalized, localizedVars
<1> QED
    BY <1>1, <1>2

LEMMA StepLocalized == LocalizedInv /\ [LocalizedNext]_localizedVars => LocalizedInv'
<1> SUFFICES ASSUME LocalizedInv, [LocalizedNext]_localizedVars PROVE LocalizedInv'
    OBVIOUS
<1>7. page' \in [Phones -> Languages \cup {Null}]
    BY PageSteps DEF LocalizedInv
<1> USE <1>7 DEF LocalizedInv, LanguageTypeOK, ShownIsKept, StoredLanguage
<1>0. CASE UNCHANGED phoneVars
    BY <1>0 DEF phoneVars
<1>1. ASSUME NEW p \in Phones, LanguageLoaded(p) PROVE LocalizedInv'
    BY <1>1, DefaultAssumption DEF LanguageLoaded
<1>2. ASSUME NEW p \in Phones, LanguageStored(p) PROVE LocalizedInv'
    <2>1. /\ choices[p] \in Seq(Languages) /\ choices[p] # <<>>
          /\ Head(choices[p]) \in Languages /\ Head(choices[p]) # Null
          /\ Tail(choices[p]) \in Seq(Languages)
        BY <1>2, DefaultAssumption DEF LanguageStored
    <2>2. /\ Tail(choices[p]) = <<>> => choices[p][Len(choices[p])] = Head(choices[p])
          /\ Tail(choices[p]) # <<>> => Tail(choices[p])[Len(Tail(choices[p]))]
                                            = choices[p][Len(choices[p])]
        BY <2>1, LastOfTail
    <2>3. LanguageTypeOK'
        BY <1>2, <2>1 DEF LanguageStored
    <2>4. ASSUME NEW q \in Phones, ~loading'[q], ~upset'[q]
          PROVE  code'[q] = IF choices'[q] = <<>> THEN StoredLanguage(q)'
                            ELSE choices'[q][Len(choices'[q])]
        BY <1>2, <2>1, <2>2, <2>4 DEF LanguageStored
    <2>5. \A q \in Phones : loading'[q] /\ ~upset'[q] => choices'[q] = <<>>
        BY <1>2 DEF LanguageStored
    <2> QED
        BY <2>3, <2>4, <2>5
<1>3. ASSUME NEW p \in Phones, StoreFails(p) PROVE LocalizedInv'
    BY <1>3 DEF StoreFails
<1>4. ASSUME NEW p \in Phones, LoadFails(p) PROVE LocalizedInv'
    BY <1>4 DEF LoadFails
<1>5. ASSUME NEW p \in Phones, LanguageRestart(p) PROVE LocalizedInv'
    BY <1>5, DefaultAssumption DEF LanguageRestart
<1>6. ASSUME NEW p \in Phones, NEW l \in Languages, ChangeLanguage(p, l)
      PROVE  LocalizedInv'
    <2>0. choices[p] \in Seq(Languages)
        OBVIOUS
    <2>1. /\ Append(choices[p], l) \in Seq(Languages) /\ Append(choices[p], l) # <<>>
          /\ Append(choices[p], l)[Len(Append(choices[p], l))] = l
        BY <2>0, LastOfAppend
    <2> QED
        BY <1>6, <2>1 DEF ChangeLanguage
<1> QED
    BY <1>0, <1>1, <1>2, <1>3, <1>4, <1>5, <1>6, LanguageSteps
    DEF localizedVars, phoneVars

\* The code of a phone is always one of the languages, so that every form has
\* names for its days.
THEOREM LocalizedTypeOK == LocalizedSpec => []LanguageTypeOK
<1>1. LocalizedInv => LanguageTypeOK
    BY DEF LocalizedInv
<1> QED
    BY InitLocalized, StepLocalized, <1>1, PTL DEF LocalizedSpec

\* The language on the screen is the one the next start will show, for any
\* number of phones, languages and choices still to be stored, unless a choice
\* came before the load or storing one failed.
THEOREM LocalizedShownIsKept == LocalizedSpec => []ShownIsKept
<1>1. LocalizedInv => ShownIsKept
    BY DEF LocalizedInv
<1> QED
    BY InitLocalized, StepLocalized, <1>1, PTL DEF LocalizedSpec

\* A step of the composition is a step of the calendar or leaves it alone.
LEMMA StepCalendar == LocalizedInv /\ [LocalizedNext]_localizedVars => [Next]_vars
<1> SUFFICES ASSUME LocalizedInv, [LocalizedNext]_localizedVars PROVE [Next]_vars
    OBVIOUS
<1>1. \A p \in Phones : page[p] # Null => page[p] \in Languages
    BY DEF LocalizedInv
<1>2. ASSUME NEW p \in Phones, OpenLocalized(p) PROVE Next
    BY <1>1, <1>2 DEF OpenLocalized, Next
<1>3. ASSUME NEW p \in Phones, FormStep(p) PROVE Next
    BY <1>3 DEF FormStep, Next
<1>4. ASSUME NEW p \in Phones, RestartLocalized(p) PROVE Next
    BY <1>4 DEF RestartLocalized, Next
<1>5. ASSUME NEW p \in Phones,
             \/ OpenPage(p) \/ ClosePage(p)
             \/ PreferencesStep(p) \/ \E l \in Languages : Choose(p, l)
      PROVE  UNCHANGED vars
    BY <1>5 DEF OpenPage, ClosePage, PreferencesStep, Choose
<1>6. ReplaceDevice => Next
    BY DEF Next
<1>7. UNCHANGED localizedVars => UNCHANGED vars
    BY DEF localizedVars
<1> QED
    BY <1>2, <1>3, <1>4, <1>5, <1>6, <1>7 DEF LocalizedNext

\* The calendar in the language of the phones implements ScheduleController,
\* where a form may be opened in any language: what is proved of that holds of
\* the composition.
THEOREM LocalizedImplementsSchedule == LocalizedSpec => Spec
<1>1. LocalizedInit => Init
    BY DEF LocalizedInit
<1> QED
    BY <1>1, InitLocalized, StepLocalized, StepCalendar, PTL DEF LocalizedSpec, Spec

\* Why the calendar stays in one language: until mother is lost, it is what
\* every phone has stored and is about to store, what it shows once it has
\* loaded, and what every page names its days in and every form found them in.
MotherInv ==
    /\ mother \in Languages \cup {Null}
    /\ mother # Null => \A p \in Phones :
          /\ StoredLanguage(p) = mother
          /\ \A i \in DOMAIN choices[p] : choices[p][i] = mother
          /\ ~loading[p] => code[p] = mother
          /\ page[p] \in {mother, Null}
          /\ form[p].lang = mother
    /\ OneLanguage

LEMMA InitMother == LocalizedInit => MotherInv
<1> SUFFICES ASSUME LocalizedInit PROVE MotherInv
    OBVIOUS
<1>1. OneLanguage
    BY DEF LocalizedInit, Init, NoSchedule, OneLanguage
<1> QED
    BY <1>1 DEF LocalizedInit, LanguageInit, MotherInv

\* Choices, loads and writes of the preferences leave mother everywhere, or
\* lose it.
LEMMA LanguageMother ==
    ASSUME TypeOK, LanguageTypeOK, MotherInv, UNCHANGED <<form, stored>>,
           \A p \in Phones : page'[p] \in {page[p], Null},
           NEW q \in Phones,
           \/ (LanguageLoaded(q) \/ LanguageStored(q) \/ StoreFails(q)) /\ UNCHANGED mother
           \/ LoadFails(q) /\ mother' = Null
           \/ \E l \in Languages : ChangeLanguage(q, l) /\ mother' \in {mother, Null}
                                   /\ (mother' # Null => l = mother)
           \/ LanguageRestart(q) /\ UNCHANGED mother
    PROVE  MotherInv'
<1>1. mother' \in {mother, Null}
    OBVIOUS
<1>2. OneLanguage'
    BY <1>1 DEF MotherInv, OneLanguage
<1> SUFFICES ASSUME mother' # Null, NEW p \in Phones
             PROVE  /\ StoredLanguage(p)' = mother
                    /\ \A i \in DOMAIN choices'[p] : choices'[p][i] = mother
                    /\ ~loading'[p] => code'[p] = mother
    BY <1>1, <1>2 DEF MotherInv
<1>3. /\ mother' = mother /\ mother # Null
      /\ StoredLanguage(p) = mother
      /\ \A i \in DOMAIN choices[p] : choices[p][i] = mother
      /\ ~loading[p] => code[p] = mother
    BY <1>1 DEF MotherInv
<1>4. choices \in [Phones -> Seq(Languages)] /\ choices[p] \in Seq(Languages)
    BY DEF LanguageTypeOK
<1> USE DEF StoredLanguage, LanguageTypeOK
<1>5. CASE LanguageLoaded(q)
    BY <1>3, <1>5 DEF LanguageLoaded
<1>6. CASE LanguageStored(q) \/ StoreFails(q)
    <2>1. CASE p # q
        BY <1>3, <1>6, <2>1 DEF LanguageStored, StoreFails
    <2>2. CASE p = q
        <3>1. choices[p] # <<>> /\ choices'[p] = Tail(choices[p])
            BY <1>6, <2>2 DEF LanguageStored, StoreFails
        <3>2. Head(choices[p]) = mother
            BY <1>3, <1>4, <3>1
        <3>3. \A i \in DOMAIN Tail(choices[p]) : Tail(choices[p])[i] = choices[p][i + 1]
                                                 /\ i + 1 \in DOMAIN choices[p]
            BY <1>4, <3>1
        <3> QED
            BY <1>3, <1>6, <2>2, <3>1, <3>2, <3>3 DEF LanguageStored, StoreFails
    <2> QED
        BY <2>1, <2>2
<1>7. CASE LanguageRestart(q)
    BY <1>3, <1>7 DEF LanguageRestart
<1>8. ASSUME NEW l \in Languages, ChangeLanguage(q, l), l = mother
      PROVE  /\ StoredLanguage(p)' = mother
             /\ \A i \in DOMAIN choices'[p] : choices'[p][i] = mother
             /\ ~loading'[p] => code'[p] = mother
    <2>1. \A i \in DOMAIN Append(choices[p], l) :
             Append(choices[p], l)[i] = IF i = Len(choices[p]) + 1 THEN l ELSE choices[p][i]
        BY <1>4
    <2>2. \A i \in DOMAIN Append(choices[p], l) : i # Len(choices[p]) + 1 =>
             i \in DOMAIN choices[p]
        BY <1>4
    <2>3. choices'[p] \in {choices[p], Append(choices[p], l)}
        BY <1>8 DEF ChangeLanguage
    <2> QED
        BY <1>3, <1>8, <2>1, <2>2, <2>3 DEF ChangeLanguage
<1> QED
    BY <1>3, <1>5, <1>6, <1>7, <1>8

\* What the form stores goes under the name of its day in its own language.
LEMMA FormMother ==
    ASSUME TypeOK, MotherInv, NEW q \in Phones, FormStep(q)
    PROVE  MotherInv'
<1>1. mother' = mother /\ UNCHANGED page /\ UNCHANGED phoneVars /\ UNCHANGED <<code, loading, choices, prefs>>
    BY DEF FormStep, phoneVars
<1>2. \A p \in Phones : form'[p].lang = form[p].lang
    <2>1. UNCHANGED form \/ CloseForm(q)
        BY DEF FormStep, Deliver, Type, SaveTap, SaveNext, SaveDone, SaveFails
    <2>2. form \in [Phones -> [open : BOOLEAN, lang : Languages]]
        BY DEF TypeOK
    <2>3. CASE CloseForm(q)
        BY <2>2, <2>3 DEF CloseForm
    <2> QED
        BY <2>1, <2>3
<1>3. \/ UNCHANGED stored
      \/ wire[q] # <<>> /\ Stored(q)
    BY DEF FormStep, Deliver, CloseForm, Type, SaveTap, SaveNext, SaveDone, SaveFails
<1>4. OneLanguage'
    <2>1. CASE UNCHANGED stored
        BY <1>1, <2>1 DEF MotherInv, OneLanguage
    <2>2. CASE wire[q] # <<>> /\ Stored(q)
        <3>1. \A k \in Keys : k # <<form[q].lang, Head(wire[q]).day>> => stored'[k] = stored[k]
            BY <2>2 DEF Stored, TypeOK
        <3> QED
            BY <1>1, <3>1 DEF MotherInv, OneLanguage
    <2> QED
        BY <1>3, <2>1, <2>2
<1> QED
    BY <1>1, <1>2, <1>4 DEF MotherInv, StoredLanguage

LEMMA StepMother ==
    TypeOK /\ LocalizedInv /\ MotherInv /\ [LocalizedNext]_localizedVars => MotherInv'
<1> SUFFICES ASSUME TypeOK, LocalizedInv, MotherInv, [LocalizedNext]_localizedVars
             PROVE  MotherInv'
    OBVIOUS
<1>0. LanguageTypeOK
    BY DEF LocalizedInv
<1>1. CASE ReplaceDevice /\ UNCHANGED <<phoneVars, page, mother>>
    BY <1>1 DEF ReplaceDevice, NoSchedule, MotherInv, OneLanguage, StoredLanguage, phoneVars
<1>2. ASSUME NEW p \in Phones, OpenLocalized(p) PROVE MotherInv'
    BY <1>2 DEF OpenLocalized, OpenForm, MotherInv, OneLanguage, StoredLanguage, phoneVars,
                TypeOK
<1>3. ASSUME NEW p \in Phones, FormStep(p) PROVE MotherInv'
    BY <1>3, FormMother
<1>4. ASSUME NEW p \in Phones, NEW l \in Languages, Choose(p, l) PROVE MotherInv'
    BY <1>0, <1>4, LanguageMother DEF Choose, vars
<1>5. ASSUME NEW p \in Phones, PreferencesStep(p) PROVE MotherInv'
    BY <1>0, <1>5, LanguageMother DEF PreferencesStep, vars
<1>6. ASSUME NEW p \in Phones, RestartLocalized(p) PROVE MotherInv'
    <2>1. \A q \in Phones : form'[q].lang = form[q].lang
        BY <1>6 DEF RestartLocalized, Restart, TypeOK
    <2> QED
        BY <1>0, <1>6, <2>1 DEF RestartLocalized, Restart, LanguageRestart, LocalizedInv, MotherInv, OneLanguage,
                          StoredLanguage, LanguageTypeOK
<1>7. CASE UNCHANGED localizedVars
    BY <1>7 DEF localizedVars, vars, phoneVars, MotherInv, OneLanguage, StoredLanguage
<1>8. ASSUME NEW p \in Phones, OpenPage(p) \/ ClosePage(p) PROVE MotherInv'
    <2>1. /\ UNCHANGED <<form, stored, code, loading, choices, prefs>>
          /\ mother' \in {mother, Null} /\ (mother' # Null => mother' = mother)
          /\ \A q \in Phones : mother' # Null =>
                page'[q] = page[q] \/ page'[q] = Null \/ (~loading[q] /\ page'[q] = code[q])
        BY <1>8 DEF OpenPage, ClosePage, LocalizedInv, vars, phoneVars
    <2> QED
        BY <2>1 DEF MotherInv, OneLanguage, StoredLanguage
<1> QED
    BY <1>1, <1>2, <1>3, <1>4, <1>5, <1>6, <1>7, <1>8 DEF LocalizedNext

\* For any number of phones that share a language, the days of a device are
\* stored in that language until somebody chooses another one, a phone cannot
\* load its preferences, or a schedule page is opened before they are loaded.
THEOREM LocalizedOneLanguage == LocalizedSpec => []OneLanguage
<1>1. LocalizedSpec => []TypeOK
    BY LocalizedImplementsSchedule, ScheduleTypeOK, PTL
<1>2. MotherInv => OneLanguage
    BY DEF MotherInv
<1> QED
    BY <1>1, <1>2, InitLocalized, StepLocalized, InitMother, StepMother, PTL DEF LocalizedSpec

\* What ScheduleController promises, in the language of the phones: the first
\* days are stored whatever is chosen between two forms, the rows of a phone are
\* its days, and a first calendar is stored as it was typed.
THEOREM LocalizedCalendar ==
    LocalizedSpec => []PrefixStored /\ []RowsAreDays /\ FirstSaveAsTyped
BY LocalizedImplementsSchedule, SchedulePrefixStored, ScheduleRowsAreDays,
   ScheduleFirstSaveAsTyped, PTL

\* Row i of every form is day i in the language of the phones.
MotherRows ==
    mother # Null /\ ~replaced =>
        \A p \in Phones : \A s \in Rows(p) : \A i \in DOMAIN s : s[i] = <<mother, i>>

\* A view has the days of the database and of the phone's own form, so it is in
\* one language as long as these are.
LEMMA RowsMother == TypeOK /\ MotherInv /\ RowsAreDays => MotherRows
<1> SUFFICES ASSUME TypeOK, MotherInv, RowsAreDays, mother # Null, ~replaced,
                    NEW p \in Phones
             PROVE  \A s \in Rows(p) : \A i \in DOMAIN s : s[i] = <<mother, i>>
    BY DEF MotherRows
<1>1. form[p].lang = mother
    BY DEF MotherInv
<1>2. ASSUME NEW k \in Keys, View(p)[k] # Null PROVE k[1] = form[p].lang
    <2>1. \/ stored[k] # Null
          \/ \E i \in DOMAIN wire[p] : <<form[p].lang, wire[p][i].day>> = k
        BY <1>2, ViewSeen
    <2>2. CASE stored[k] # Null
        BY <1>1, <2>2 DEF MotherInv, OneLanguage
    <2> QED
        BY <2>1, <2>2
<1> QED
    BY <1>1, <1>2 DEF RowsAreDays

\* Until somebody chooses another language, a phone cannot load its preferences,
\* a page is opened before they are, or the device is replaced under a save, the
\* form of every phone shows each day in the row of that day: the premise of
\* RowsAreDays, that a view is in one language, is one the phones keep themselves.
THEOREM LocalizedMotherRows == LocalizedSpec => []MotherRows
<1>1. LocalizedSpec => []TypeOK
    BY LocalizedImplementsSchedule, ScheduleTypeOK, PTL
<1>2. LocalizedSpec => []MotherInv
    BY <1>1, InitLocalized, StepLocalized, InitMother, StepMother, PTL DEF LocalizedSpec
<1>3. LocalizedSpec => []RowsAreDays
    BY LocalizedImplementsSchedule, ScheduleRowsAreDays, PTL
<1> QED
    BY <1>1, <1>2, <1>3, RowsMother, PTL

=============================================================================
