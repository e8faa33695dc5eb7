---------------------- MODULE AutoPlayControllerProofs ----------------------
(***************************************************************************)
(* Proofs about AutoPlayController: type correctness, that a tick forgets  *)
(* no shutter that is due, that the last choice of the switch and of the   *)
(* time wins on every device, and that the time field shows it, for any    *)
(* number of phones, devices, minutes and calls in flight.                 *)
(***************************************************************************)
EXTENDS AutoPlayController, WellFoundedInduction, TLAPS

AutoPlayInv == TypeOK /\ DueOpened

-----------------------------------------------------------------------------
(* Requests and their answers.                                             *)

\* A loop that has devices left has a first one.
LEMMA FirstDevice ==
    ASSUME NEW rest \in SUBSET Devices, rest # {}
    PROVE  LET first == CHOOSE d \in rest : \A e \in rest : d <= e
           IN  first \in rest /\ \A e \in rest : first <= e
<1>1. rest \subseteq Nat /\ \A d \in rest : d \in Nat
    BY AutoPlayAssumption DEF Devices
<1>2. \E x \in rest : \A y \in rest : ~ (<<y, x>> \in OpToRel(<, Nat))
    BY <1>1, WFMin, NatLessThanWellFounded
<1>3. PICK x \in rest : \A y \in rest : ~ (y < x)
    BY <1>1, <1>2 DEF OpToRel
<1>4. \A y \in rest : x <= y
    BY <1>1, <1>3
<1> QED
    BY <1>4

\* The oldest request of a phone.
LEMMA HeadLemma ==
    ASSUME TypeOK, NEW p \in Phones, wire[p] # <<>>
    PROVE  /\ wire[p] \in Seq(Requests) /\ Tail(wire[p]) \in Seq(Requests)
           /\ 1 \in DOMAIN wire[p] /\ wire[p][1] = Head(wire[p])
           /\ Head(wire[p]) \in Requests
           /\ Head(wire[p]).call \in Calls /\ Head(wire[p]).isEnabled \in BOOLEAN
           /\ Head(wire[p]).time \in Texts \cup {Null}
           /\ Head(wire[p]).at \in 0..DeviceCount
           /\ Head(wire[p]).due \in SUBSET Devices
<1>1. wire[p] \in Seq(Requests)
    BY DEF TypeOK
<1>2. /\ Tail(wire[p]) \in Seq(Requests)
      /\ 1 \in DOMAIN wire[p] /\ wire[p][1] = Head(wire[p])
      /\ Head(wire[p]) \in Requests
    BY <1>1
<1> QED
    BY <1>1, <1>2 DEF Requests

\* What an answer does to the requests: the others move up, and the call that
\* has devices left is at one of them and has the others to do.
LEMMA GoOnLemma ==
    ASSUME TypeOK, NEW p \in Phones, wire[p] # <<>>,
           NEW rest \in SUBSET Devices, GoOn(p, rest)
    PROVE  /\ wire' \in [Phones -> Seq(Requests)]
           /\ \A q \in Phones : q # p => wire'[q] = wire[q]
           /\ \A i \in DOMAIN wire[p] : i # 1 =>
                 i - 1 \in DOMAIN wire'[p] /\ wire'[p][i - 1] = wire[p][i]
           /\ rest # {} =>
                 \E j \in DOMAIN wire'[p] :
                    /\ wire'[p][j].call = Head(wire[p]).call
                    /\ rest = {wire'[p][j].at} \cup wire'[p][j].due
<1> DEFINE s == wire[p]
           d == CHOOSE d \in rest : \A e \in rest : d <= e
           next == [Head(wire[p]) EXCEPT !.at = d, !.due = rest \ {d}]
<1>1. /\ s \in Seq(Requests) /\ Tail(s) \in Seq(Requests) /\ s # <<>>
      /\ Head(s) \in Requests
    BY HeadLemma
<1>2. \A i \in DOMAIN s : i # 1 => i - 1 \in DOMAIN Tail(s) /\ Tail(s)[i - 1] = s[i]
    BY <1>1
<1>3. CASE rest = {}
    <2>1. wire' = [wire EXCEPT ![p] = Tail(s)]
        BY <1>3 DEF GoOn, EndCall
    <2> QED
        BY <1>1, <1>2, <1>3, <2>1 DEF TypeOK
<1>4. CASE rest # {}
    <2>1. wire' = [wire EXCEPT ![p] = Append(Tail(s), next)]
        BY <1>4 DEF GoOn
    <2>2. d \in rest
        BY <1>4, FirstDevice
    <2> HIDE DEF d
    <2>8. d \in 0..DeviceCount
        BY <2>2, AutoPlayAssumption DEF Devices
    <2>3. /\ next \in Requests /\ next.call = Head(s).call
          /\ rest = {next.at} \cup next.due
        BY <1>1, <2>2, <2>8 DEF Requests
    <2> HIDE DEF next
    <2>4. wire'[p] = Append(Tail(s), next) /\ Append(Tail(s), next) \in Seq(Requests)
        BY <1>1, <2>1, <2>3 DEF TypeOK
    <2>5. /\ wire' \in [Phones -> Seq(Requests)]
          /\ \A q \in Phones : q # p => wire'[q] = wire[q]
        BY <2>1, <2>4 DEF TypeOK
    <2>6. \A i \in DOMAIN Tail(s) : i \in DOMAIN wire'[p] /\ wire'[p][i] = Tail(s)[i]
        BY <1>1, <2>3, <2>4
    <2>7. Len(Tail(s)) + 1 \in DOMAIN wire'[p] /\ wire'[p][Len(Tail(s)) + 1] = next
        BY <1>1, <2>3, <2>4
    <2> QED
        BY <1>2, <2>3, <2>5, <2>6, <2>7
<1> QED
    BY <1>3, <1>4

\* How a request goes on: with the first of the devices that are left.
Successor(r, next, rest) ==
    /\ next.call = r.call /\ next.isEnabled = r.isEnabled /\ next.time = r.time
    /\ next.at \in rest /\ next.due = rest \ {next.at}
    /\ \A e \in rest : next.at <= e

\* t is s without its oldest request, which may have gone on at the end.
Shifted(s, t) ==
    /\ \A i \in DOMAIN s : i # 1 => i - 1 \in DOMAIN t /\ t[i - 1] = s[i]
    /\ \A i \in DOMAIN t : i # Len(s) => i + 1 \in DOMAIN s /\ t[i] = s[i + 1]

\* The requests after an answer, exactly.
LEMMA GoOnShape ==
    ASSUME TypeOK, NEW p \in Phones, wire[p] # <<>>,
           NEW rest \in SUBSET Devices, GoOn(p, rest)
    PROVE  /\ wire'[p] \in Seq(Requests) /\ Shifted(wire[p], wire'[p])
           /\ IF rest = {} THEN Len(wire[p]) \notin DOMAIN wire'[p]
              ELSE /\ Len(wire[p]) \in DOMAIN wire'[p]
                   /\ Successor(Head(wire[p]), wire'[p][Len(wire[p])], rest)
<1> DEFINE s == wire[p]
           d == CHOOSE d \in rest : \A e \in rest : d <= e
           next == [Head(wire[p]) EXCEPT !.at = d, !.due = rest \ {d}]
<1>1. /\ s \in Seq(Requests) /\ Tail(s) \in Seq(Requests) /\ s # <<>>
      /\ Head(s) \in Requests
    BY HeadLemma
<1>2. /\ Len(s) \in Nat /\ Len(Tail(s)) = Len(s) - 1 /\ DOMAIN s = 1..Len(s)
      /\ DOMAIN Tail(s) = 1..(Len(s) - 1)
      /\ \A i \in 1..(Len(s) - 1) : Tail(s)[i] = s[i + 1]
    BY <1>1
<1>3. CASE rest = {}
    <2>1. wire'[p] = Tail(s)
        BY <1>3 DEF GoOn, EndCall, TypeOK
    <2>2. Shifted(s, Tail(s)) /\ Len(s) \notin DOMAIN Tail(s)
        <3> HIDE DEF s
        <3> QED
            BY <1>2 DEF Shifted
    <2> QED
        BY <1>1, <1>3, <2>1, <2>2
<1>4. CASE rest # {}
    <2>1. wire'[p] = Append(Tail(s), next)
        BY <1>4 DEF GoOn, TypeOK
    <2>2. d \in rest /\ \A e \in rest : d <= e
        BY <1>4, FirstDevice
    <2> HIDE DEF d
    <2>3. d \in 0..DeviceCount
        BY <2>2, AutoPlayAssumption DEF Devices
    <2>4. next \in Requests /\ Successor(Head(s), next, rest)
        BY <1>1, <2>2, <2>3 DEF Requests, Successor
    <2> HIDE DEF next, s
    <2>5. /\ Append(Tail(s), next) \in Seq(Requests)
          /\ DOMAIN Append(Tail(s), next) = 1..Len(s)
          /\ Append(Tail(s), next)[Len(s)] = next
          /\ \A i \in 1..(Len(s) - 1) : Append(Tail(s), next)[i] = s[i + 1]
        BY <1>1, <1>2, <2>4
    <2>6. Len(s) \in 1..Len(s)
        BY <1>1, <1>2
    <2>7. Shifted(s, Append(Tail(s), next))
        BY <1>2, <2>5 DEF Shifted
    <2> QED
        BY <1>4, <2>1, <2>4, <2>5, <2>6, <2>7 DEF s
<1> QED
    BY <1>3, <1>4

\* A tick that goes on with a device has it on its way.
LEMMA GoesOn ==
    ASSUME TypeOK, NEW p \in Phones, wire[p] # <<>>, Head(wire[p]).call = "tick",
           NEW rest \in SUBSET Devices, GoOn(p, rest), NEW d \in rest
    PROVE  OnItsWay(p, d)'
<1>1. PICK j \in DOMAIN wire'[p] :
          /\ wire'[p][j].call = Head(wire[p]).call
          /\ rest = {wire'[p][j].at} \cup wire'[p][j].due
    BY GoOnLemma
<1>2. wire'[p][j].at # 0
    <2>1. \A e \in Devices : e # 0
        BY AutoPlayAssumption DEF Devices
    <2>2. wire'[p][j].at \in Devices
        BY <1>1
    <2> QED
        BY <2>1, <2>2
<1> QED
    BY <1>1, <1>2 DEF OnItsWay

\* A shutter that is on its way stays so, unless it is the call's that was
\* answered and not among those it goes on with.
LEMMA StaysOnItsWay ==
    ASSUME TypeOK, NEW p \in Phones, wire[p] # <<>>,
           NEW rest \in SUBSET Devices, GoOn(p, rest),
           NEW q \in Phones, NEW d \in Devices, OnItsWay(q, d),
           q = p /\ Head(wire[p]).call = "tick" /\ Head(wire[p]).at # 0 =>
               d \in rest \/ ~(Head(wire[p]).at = d \/ d \in Head(wire[p]).due)
    PROVE  OnItsWay(q, d)'
<1>1. PICK i \in DOMAIN wire[q] :
          /\ wire[q][i].call = "tick" /\ wire[q][i].at # 0
          /\ wire[q][i].at = d \/ d \in wire[q][i].due
    BY DEF OnItsWay
<1>2. CASE q # p
    BY <1>1, <1>2, GoOnLemma DEF OnItsWay
<1>3. CASE q = p /\ i # 1
    BY <1>1, <1>3, GoOnLemma DEF OnItsWay
<1>4. CASE q = p /\ i = 1
    <2>1. Head(wire[p]).call = "tick" /\ d \in rest
        BY <1>1, <1>4, HeadLemma
    <2> QED
        BY <1>4, <2>1, GoesOn
<1> QED
    BY <1>2, <1>3, <1>4

\* Sending requests keeps the types and what is on its way.
LEMMA SendLemma ==
    ASSUME TypeOK, NEW p \in Phones, NEW new \in Seq(Requests), Send(p, new)
    PROVE  /\ wire' \in [Phones -> Seq(Requests)]
           /\ \A q \in Phones, d \in Devices : OnItsWay(q, d) => OnItsWay(q, d)'
<1>1. wire[p] \in Seq(Requests) /\ wire' = [wire EXCEPT ![p] = wire[p] \o new]
    BY DEF TypeOK, Send
<1>2. wire' \in [Phones -> Seq(Requests)]
    BY <1>1 DEF TypeOK
<1>3. \A q \in Phones : \A i \in DOMAIN wire[q] :
          i \in DOMAIN wire'[q] /\ wire'[q][i] = wire[q][i]
    <2> SUFFICES ASSUME NEW q \in Phones, NEW i \in DOMAIN wire[q]
                 PROVE  i \in DOMAIN wire'[q] /\ wire'[q][i] = wire[q][i]
        OBVIOUS
    <2>1. CASE q # p
        BY <1>1, <2>1 DEF TypeOK
    <2>2. CASE q = p
        <3>1. wire'[p] = wire[p] \o new
            BY <1>1 DEF TypeOK
        <3> QED
            BY <1>1, <2>2, <3>1
    <2> QED
        BY <2>1, <2>2
<1> QED
    BY <1>2, <1>3 DEF OnItsWay

LEMMA QueryType ==
    ASSUME NEW c \in Calls
    PROVE  /\ Query(c) \in Requests
           /\ \A b \in BOOLEAN : [Query(c) EXCEPT !.isEnabled = b] \in Requests
           /\ \A t \in Texts : [Query(c) EXCEPT !.time = t] \in Requests
<1> DEFINE all == [call : Calls, isEnabled : BOOLEAN, time : Texts \cup {Null},
                   at : {0}, due : {{}}]
<1>1. all \subseteq Requests
    BY AutoPlayAssumption DEF Requests
<1>2. Query(c) \in all
    BY DEF Query
<1>3. ASSUME NEW b \in BOOLEAN PROVE [Query(c) EXCEPT !.isEnabled = b] \in all
    BY DEF Query
<1>4. ASSUME NEW t \in Texts PROVE [Query(c) EXCEPT !.time = t] \in all
    BY DEF Query
<1> QED
    BY <1>1, <1>2, <1>3, <1>4

\* What a card and the page of the settings send.
LoadOrders == {<<Query("loadStatus"), Query("loadTime")>>,
               <<Query("loadTime"), Query("loadStatus")>>}

LEMMA LoadsType ==
    ASSUME NEW new \in LoadOrders
    PROVE  /\ new \in Seq(Requests)
           /\ \A j \in DOMAIN new : /\ new[j].at = 0
                                    /\ new[j].call \in {"loadStatus", "loadTime"}
<1>1. "loadStatus" \in Calls /\ "loadTime" \in Calls
    BY DEF Calls
<1>2. /\ Query("loadStatus") \in Requests /\ Query("loadTime") \in Requests
      /\ Query("loadStatus").at = 0 /\ Query("loadTime").at = 0
      /\ Query("loadStatus").call = "loadStatus" /\ Query("loadTime").call = "loadTime"
    BY <1>1, QueryType DEF Query
<1>3. ASSUME NEW a \in {Query("loadStatus"), Query("loadTime")},
             NEW b \in {Query("loadStatus"), Query("loadTime")}
      PROVE  /\ <<a, b>> \in Seq(Requests)
             /\ \A j \in DOMAIN <<a, b>> :
                   /\ <<a, b>>[j].at = 0
                   /\ <<a, b>>[j].call \in {"loadStatus", "loadTime"}
    <2>1. /\ a \in Requests /\ a.at = 0 /\ a.call \in {"loadStatus", "loadTime"}
          /\ b \in Requests /\ b.at = 0 /\ b.call \in {"loadStatus", "loadTime"}
        BY <1>2
    <2>2. /\ <<a, b>> \in Seq(Requests) /\ DOMAIN <<a, b>> = {1, 2}
          /\ <<a, b>>[1] = a /\ <<a, b>>[2] = b
        BY <2>1
    <2> QED
        BY <2>1, <2>2
<1> QED
    BY <1>3 DEF LoadOrders

\* They send nothing else.
LEMMA BuildSends ==
    ASSUME NEW p, BuildCard(p) \/ BuildSettings(p)
    PROVE  \E new \in LoadOrders : Send(p, new)
BY DEF BuildCard, BuildSettings, LoadOrders

-----------------------------------------------------------------------------
(* Types.                                                                  *)

\* The history keeps its type.
LEMMA TouchType ==
    ASSUME TypeOK, NEW d, Touch(d)
    PROVE  vouched' \in [Phones -> SUBSET Devices]
BY DEF TypeOK, Touch

Stored == [autoPlay : BOOLEAN, autoPlayTime : Texts \cup {Null}, open : BOOLEAN]

\* A child of a device is written.
LEMMA ChildType ==
    ASSUME TypeOK, NEW d \in Devices, NEW b \in BOOLEAN, NEW t \in Texts \cup {Null}
    PROVE  /\ [db EXCEPT ![d].autoPlay = b] \in [Devices -> Stored]
           /\ [db EXCEPT ![d].autoPlayTime = t] \in [Devices -> Stored]
           /\ [db EXCEPT ![d].open = b] \in [Devices -> Stored]
<1>1. db \in [Devices -> Stored]
    BY DEF TypeOK, Stored
<1>2. db[d] \in Stored
    BY <1>1
<1>3. /\ [db[d] EXCEPT !.autoPlay = b] \in Stored
      /\ [db[d] EXCEPT !.autoPlayTime = t] \in Stored
      /\ [db[d] EXCEPT !.open = b] \in Stored
    BY <1>2 DEF Stored
<1> QED
    BY <1>1, <1>3

\* What a phone shows is loaded or set.
LEMMA ShownType ==
    ASSUME TypeOK, NEW p \in Phones, NEW b \in BOOLEAN, NEW t \in Texts \cup {Null}
    PROVE  /\ [shown EXCEPT ![p].status = b]
                  \in [Phones -> [status : BOOLEAN, time : Texts \cup {Null}]]
           /\ [shown EXCEPT ![p].time = t]
                  \in [Phones -> [status : BOOLEAN, time : Texts \cup {Null}]]
<1> DEFINE S == [status : BOOLEAN, time : Texts \cup {Null}]
<1>1. shown \in [Phones -> S] /\ shown[p] \in S
    BY DEF TypeOK
<1>2. [shown[p] EXCEPT !.status = b] \in S /\ [shown[p] EXCEPT !.time = t] \in S
    BY <1>1
<1> HIDE DEF S
<1>3. /\ [shown EXCEPT ![p].status = b] \in [Phones -> S]
      /\ [shown EXCEPT ![p].time = t] \in [Phones -> S]
    BY <1>1, <1>2
<1> QED
    BY <1>3 DEF S

Asked == [status : BOOLEAN \cup {Null}, time : Texts \cup {Null}, by : Phones \cup {Null}]

LEMMA ForgetType ==
    ASSUME TypeOK, NEW p \in Phones, Forget(p)
    PROVE  asked' \in Asked
BY DEF TypeOK, Forget, Asked

LEMMA InitType == Init => TypeOK
<1> SUFFICES ASSUME Init PROVE TypeOK
    OBVIOUS
<1>1. NewDevice \in Stored
    BY DEF NewDevice, Stored
<1>2. db \in [Devices -> Stored]
    BY <1>1 DEF Init
<1>3. minute \in Minutes
    BY AutoPlayAssumption DEF Init, Minutes
<1>4. wire \in [Phones -> Seq(Requests)]
    BY DEF Init
<1> QED
    BY <1>2, <1>3, <1>4 DEF Init, TypeOK, Stored, NotLoaded

\* Every step keeps the types.
LEMMA StepType == TypeOK /\ [Next]_vars => TypeOK'
<1> SUFFICES ASSUME TypeOK, [Next]_vars PROVE TypeOK'
    OBVIOUS
<1>1. CASE NextMinute
    <2>1. minute' \in Minutes
        <3>1. minute \in Int /\ MinuteCount \in Nat /\ MinuteCount > 0
            BY AutoPlayAssumption DEF TypeOK, Minutes
        <3>2. (minute + 1) % MinuteCount \in 0..(MinuteCount - 1)
            BY <3>1
        <3> QED
            BY <1>1, <3>2 DEF NextMinute, Minutes
    <2> QED
        BY <1>1, <2>1 DEF NextMinute, TypeOK
<1>2. ASSUME NEW d \in Devices, MoveShutter(d) PROVE TypeOK'
    <2>1. db' \in [Devices -> Stored]
        <3>1. (~db[d].open) \in BOOLEAN
            OBVIOUS
        <3>2. db' = [db EXCEPT ![d].open = ~db[d].open]
            BY <1>2 DEF MoveShutter
        <3>3. \A b \in BOOLEAN : [db EXCEPT ![d].open = b] \in [Devices -> Stored]
            BY ChildType
        <3> QED
            BY <3>1, <3>2, <3>3
    <2> QED
        BY <1>2, <2>1, TouchType DEF MoveShutter, TypeOK, Stored
<1>3. ASSUME NEW d \in Devices, ReplaceDevice(d) PROVE TypeOK'
    <2>1. NewDevice \in Stored
        BY DEF NewDevice, Stored
    <2>2. db' \in [Devices -> Stored]
        BY <1>3, <2>1 DEF ReplaceDevice, TypeOK, Stored
    <2> QED
        BY <1>3, <2>2, TouchType DEF ReplaceDevice, TypeOK, Stored
<1>4. ASSUME NEW p \in Phones, BuildCard(p) PROVE TypeOK'
    <2>1. wire' \in [Phones -> Seq(Requests)]
        BY <1>4, BuildSends, LoadsType, SendLemma
    <2> QED
        BY <1>4, <2>1 DEF BuildCard, TypeOK
<1>5. ASSUME NEW p \in Phones, BuildSettings(p) PROVE TypeOK'
    <2>1. wire' \in [Phones -> Seq(Requests)]
        BY <1>5, BuildSends, LoadsType, SendLemma
    <2> QED
        BY <1>5, <2>1 DEF BuildSettings, TypeOK
<1>6. ASSUME NEW p \in Phones, CloseSettings(p) PROVE TypeOK'
    BY <1>6 DEF CloseSettings, TypeOK
<1>7. ASSUME NEW p \in Phones, updateAutoPlayStatus(p) PROVE TypeOK'
    <2> DEFINE isEnabled == ~shown[p].status
    <2>1. isEnabled \in BOOLEAN
        OBVIOUS
    <2>2. /\ Send(p, <<[Query("updateStatus") EXCEPT !.isEnabled = isEnabled]>>)
          /\ shown' = [shown EXCEPT ![p].status = isEnabled]
          /\ asked' = [asked EXCEPT !.status = Outcome(p, "updateStatus", isEnabled)]
          /\ UNCHANGED <<db, minute, page, vouched>>
        BY <1>7 DEF updateAutoPlayStatus
    <2> HIDE DEF isEnabled
    <2>3. wire' \in [Phones -> Seq(Requests)]
        <3>1. [Query("updateStatus") EXCEPT !.isEnabled = isEnabled] \in Requests
            BY <2>1, QueryType DEF Calls
        <3>2. <<[Query("updateStatus") EXCEPT !.isEnabled = isEnabled]>> \in Seq(Requests)
            BY <3>1
        <3> QED
            BY <2>2, <3>2, SendLemma
    <2>4. shown' \in [Phones -> [status : BOOLEAN, time : Texts \cup {Null}]]
        BY <2>1, <2>2, ShownType
    <2>5. Outcome(p, "updateStatus", isEnabled) \in BOOLEAN \cup {Null}
        BY <2>1 DEF Outcome
    <2>6. asked' \in Asked
        BY <2>2, <2>5 DEF TypeOK, Asked
    <2> QED
        BY <2>2, <2>3, <2>4, <2>6 DEF TypeOK, Asked
<1>8. ASSUME NEW p \in Phones, NEW m \in Minutes, updateAutoPlayTime(p, m) PROVE TypeOK'
    <2> DEFINE time == [minute |-> m, amPm |-> p \notin TwentyFour]
    <2>1. time \in Texts
        BY DEF Texts
    <2>2. /\ Send(p, <<[Query("updateTime") EXCEPT !.time = time]>>)
          /\ asked' = [asked EXCEPT !.time = Outcome(p, "updateTime", time), !.by = p]
          /\ UNCHANGED <<db, minute, shown, page, vouched>>
        BY <1>8 DEF updateAutoPlayTime
    <2> HIDE DEF time
    <2>3. wire' \in [Phones -> Seq(Requests)]
        <3>1. [Query("updateTime") EXCEPT !.time = time] \in Requests
            BY <2>1, QueryType DEF Calls
        <3>2. <<[Query("updateTime") EXCEPT !.time = time]>> \in Seq(Requests)
            BY <3>1
        <3> QED
            BY <2>2, <3>2, SendLemma
    <2>4. Outcome(p, "updateTime", time) \in Texts \cup {Null}
        BY <2>1 DEF Outcome
    <2>5. asked' \in Asked
        BY <2>2, <2>4 DEF TypeOK, Asked
    <2> QED
        BY <2>2, <2>3, <2>5 DEF TypeOK, Asked
<1>9. ASSUME NEW p \in Phones, Tick(p) PROVE TypeOK'
    <2>1. Query("tick") \in Requests
        BY QueryType DEF Calls
    <2>3. <<Query("tick")>> \in Seq(Requests)
        BY <2>1
    <2>2. wire' \in [Phones -> Seq(Requests)]
        BY <1>9, <2>3, SendLemma DEF Tick
    <2> QED
        BY <1>9, <2>2 DEF Tick, TypeOK
<1>10. ASSUME NEW p \in Phones, Restart(p) PROVE TypeOK'
    <2>1. wire' \in [Phones -> Seq(Requests)]
        BY <1>10 DEF Restart, TypeOK
    <2>2. asked' \in Asked
        BY <1>10 DEF Restart, TypeOK, Asked
    <2>3. shown' \in [Phones -> [status : BOOLEAN, time : Texts \cup {Null}]]
        BY <1>10 DEF Restart, TypeOK, NotLoaded
    <2> QED
        BY <1>10, <2>1, <2>2, <2>3 DEF Restart, TypeOK, Asked
<1>11. ASSUME NEW p \in Phones, wire[p] # <<>>, EndCall(p)
       PROVE  wire' \in [Phones -> Seq(Requests)]
    BY <1>11, HeadLemma DEF EndCall, TypeOK
<1>12. ASSUME NEW p \in Phones, StatusLoaded(p) PROVE TypeOK'
    <2>1. 1 \in Devices
        BY AutoPlayAssumption DEF Devices
    <2>2. db[1].autoPlay \in BOOLEAN
        BY <2>1 DEF TypeOK
    <2>3. shown' \in [Phones -> [status : BOOLEAN, time : Texts \cup {Null}]]
        BY <1>12, <2>2, ShownType DEF StatusLoaded
    <2> QED
        BY <1>11, <1>12, <2>3 DEF StatusLoaded, Served, TypeOK
<1>13. ASSUME NEW p \in Phones, TimeLoaded(p) PROVE TypeOK'
    <2>1. 1 \in Devices
        BY AutoPlayAssumption DEF Devices
    <2>2. db[1].autoPlayTime \in Texts \cup {Null}
        BY <2>1 DEF TypeOK
    <2>3. shown' \in [Phones -> [status : BOOLEAN, time : Texts \cup {Null}]]
        BY <1>13, <2>2, ShownType DEF TimeLoaded
    <2> QED
        BY <1>11, <1>13, <2>3 DEF TimeLoaded, Served, TypeOK
<1>14. ASSUME NEW p \in Phones, ListRead(p) PROVE TypeOK'
    <2>1. wire' \in [Phones -> Seq(Requests)]
        BY <1>14, GoOnLemma DEF ListRead, Served
    <2> QED
        BY <1>14, <2>1 DEF ListRead, TypeOK
<1>15. ASSUME NEW p \in Phones, StatusStored(p) PROVE TypeOK'
    <2> DEFINE r == Head(wire[p])
    <2>1. /\ r.at \in Devices /\ r.isEnabled \in BOOLEAN /\ r.due \in SUBSET Devices
          /\ wire[p] # <<>>
        BY <1>15, HeadLemma, AutoPlayAssumption DEF StatusStored, Served, Devices
    <2>2. /\ db' = [db EXCEPT ![r.at].autoPlay = r.isEnabled]
          /\ Touch(r.at) /\ GoOn(p, r.due)
          /\ UNCHANGED <<minute, shown, page, asked>>
        BY <1>15 DEF StatusStored
    <2> HIDE DEF r
    <2>3. db' \in [Devices -> Stored]
        BY <2>1, <2>2, ChildType
    <2>4. wire' \in [Phones -> Seq(Requests)]
        BY <2>1, <2>2, GoOnLemma
    <2> QED
        BY <2>2, <2>3, <2>4, TouchType DEF TypeOK, Stored
<1>16. ASSUME NEW p \in Phones, TimeStored(p) PROVE TypeOK'
    <2> DEFINE r == Head(wire[p])
    <2>1. /\ r.at \in Devices /\ r.time \in Texts \cup {Null} /\ r.due \in SUBSET Devices
          /\ wire[p] # <<>>
        BY <1>16, HeadLemma, AutoPlayAssumption DEF TimeStored, Served, Devices
    <2>2. /\ db' = [db EXCEPT ![r.at].autoPlayTime = r.time]
          /\ Touch(r.at) /\ GoOn(p, r.due)
          /\ shown' = [shown EXCEPT ![p].time = IF r.due = {} THEN r.time ELSE @]
          /\ UNCHANGED <<minute, page, asked>>
        BY <1>16 DEF TimeStored
    <2> HIDE DEF r
    <2>3. db' \in [Devices -> Stored]
        BY <2>1, <2>2, ChildType
    <2>4. wire' \in [Phones -> Seq(Requests)]
        BY <2>1, <2>2, GoOnLemma
    <2>5. shown' \in [Phones -> [status : BOOLEAN, time : Texts \cup {Null}]]
        <3>1. shown' = [shown EXCEPT ![p].time = r.time] \/ shown' = shown
            BY <2>2 DEF TypeOK
        <3>2. CASE shown' = shown
            BY <3>2 DEF TypeOK
        <3>3. CASE shown' = [shown EXCEPT ![p].time = r.time]
            BY <2>1, <3>3, ShownType
        <3> QED
            BY <3>1, <3>2, <3>3
    <2> QED
        BY <2>2, <2>3, <2>4, <2>5, TouchType DEF TypeOK, Stored
<1>17. ASSUME NEW p \in Phones, TickRead(p) PROVE TypeOK'
    <2>1. wire' \in [Phones -> Seq(Requests)]
        <3>1. {d \in Devices : Due(d)} \in SUBSET Devices
            OBVIOUS
        <3> QED
            BY <1>17, <3>1, GoOnLemma DEF TickRead, Served
    <2> QED
        BY <1>17, <2>1 DEF TickRead, TypeOK
<1>18. ASSUME NEW p \in Phones, ShutterOpened(p) PROVE TypeOK'
    <2> DEFINE r == Head(wire[p])
    <2>1. r.at \in Devices /\ r.due \in SUBSET Devices /\ wire[p] # <<>>
        BY <1>18, HeadLemma, AutoPlayAssumption DEF ShutterOpened, Served, Devices
    <2>2. /\ db' = [db EXCEPT ![r.at].open = TRUE] /\ GoOn(p, r.due)
          /\ UNCHANGED <<minute, shown, page, asked, vouched>>
        BY <1>18 DEF ShutterOpened
    <2> HIDE DEF r
    <2>3. db' \in [Devices -> Stored]
        BY <2>1, <2>2, ChildType
    <2>4. wire' \in [Phones -> Seq(Requests)]
        BY <2>1, <2>2, GoOnLemma
    <2> QED
        BY <2>2, <2>3, <2>4 DEF TypeOK, Stored
<1>19. ASSUME NEW p \in Phones, OpenFails(p) PROVE TypeOK'
    <2>1. wire' \in [Phones -> Seq(Requests)]
        BY <1>19, HeadLemma, GoOnLemma DEF OpenFails, Served
    <2> QED
        BY <1>19, <2>1, TouchType DEF OpenFails, TypeOK
<1>20. ASSUME NEW p \in Phones, CallFails(p) PROVE TypeOK'
    <2>1. wire' \in [Phones -> Seq(Requests)]
        BY <1>11, <1>20 DEF CallFails
    <2> QED
        BY <1>20, <2>1, ForgetType DEF CallFails, TypeOK, Asked
<1>21. CASE UNCHANGED vars
    BY <1>21 DEF vars, TypeOK
<1> QED
    BY <1>1, <1>2, <1>3, <1>4, <1>5, <1>6, <1>7, <1>8, <1>9, <1>10, <1>12, <1>13, <1>14,
       <1>15, <1>16, <1>17, <1>18, <1>19, <1>20, <1>21
    DEF Next, UserStep, ServerStep

\* Auto play keeps its types, for every run of the app.
THEOREM AutoPlayTypeOK == Spec => []TypeOK
<1> QED
    BY InitType, StepType, PTL DEF Spec

-----------------------------------------------------------------------------
(* The shutters that are due.                                              *)

\* Every step keeps the promise of a tick.
LEMMA StepDue == AutoPlayInv /\ [Next]_vars => DueOpened'
<1> SUFFICES ASSUME TypeOK, DueOpened, [Next]_vars PROVE DueOpened'
    BY DEF AutoPlayInv
<1>q. ASSUME UNCHANGED <<db, minute, vouched>>,
             \A q \in Phones, d \in Devices : OnItsWay(q, d) => OnItsWay(q, d)'
      PROVE  DueOpened'
    BY <1>q DEF DueOpened, Due, TypeOK
<1>t. ASSUME NEW e \in Devices, Touch(e), UNCHANGED minute,
             \A d \in Devices : d # e => db'[d] = db[d],
             \A q \in Phones, d \in Devices : d # e /\ OnItsWay(q, d) => OnItsWay(q, d)'
      PROVE  DueOpened'
    <2> SUFFICES ASSUME NEW q \in Phones, NEW d \in vouched'[q], Due(d)'
                 PROVE  db'[d].open \/ OnItsWay(q, d)'
        BY DEF DueOpened
    <2>1. d \in vouched[q] /\ d \in Devices /\ d # e
        BY <1>t DEF Touch, TypeOK
    <2>2. db'[d] = db[d] /\ Due(d)
        BY <1>t, <2>1 DEF Due
    <2>3. db[d].open \/ OnItsWay(q, d)
        BY <2>1, <2>2 DEF DueOpened
    <2> QED
        BY <1>t, <2>1, <2>2, <2>3
<1>e. ASSUME NEW p \in Phones, wire[p] # <<>>, EndCall(p),
             Head(wire[p]).call = "tick" => Head(wire[p]).at = 0
      PROVE  \A q \in Phones, d \in Devices : OnItsWay(q, d) => OnItsWay(q, d)'
    <2>1. GoOn(p, {}) /\ {} \in SUBSET Devices
        BY <1>e DEF GoOn
    <2> QED
        BY <1>e, <2>1, StaysOnItsWay
<1>1. CASE NextMinute
    BY <1>1 DEF NextMinute, DueOpened
<1>2. ASSUME NEW d \in Devices, MoveShutter(d) PROVE DueOpened'
    <2>1. /\ Touch(d) /\ UNCHANGED <<minute, wire>>
          /\ \A e \in Devices : e # d => db'[e] = db[e]
        BY <1>2 DEF MoveShutter, TypeOK
    <2>2. \A q \in Phones, e \in Devices : OnItsWay(q, e) => OnItsWay(q, e)'
        BY <2>1 DEF OnItsWay
    <2> QED
        BY <1>t, <2>1, <2>2
<1>3. ASSUME NEW d \in Devices, ReplaceDevice(d) PROVE DueOpened'
    <2>1. /\ Touch(d) /\ UNCHANGED <<minute, wire>>
          /\ \A e \in Devices : e # d => db'[e] = db[e]
        BY <1>3 DEF ReplaceDevice, TypeOK
    <2>2. \A q \in Phones, e \in Devices : OnItsWay(q, e) => OnItsWay(q, e)'
        BY <2>1 DEF OnItsWay
    <2> QED
        BY <1>t, <2>1, <2>2
<1>4. ASSUME NEW p \in Phones, BuildCard(p) PROVE DueOpened'
    <2>1. \A q \in Phones, d \in Devices : OnItsWay(q, d) => OnItsWay(q, d)'
        BY <1>4, BuildSends, LoadsType, SendLemma
    <2> QED
        BY <1>q, <1>4, <2>1 DEF BuildCard
<1>5. ASSUME NEW p \in Phones, BuildSettings(p) PROVE DueOpened'
    <2>1. \A q \in Phones, d \in Devices : OnItsWay(q, d) => OnItsWay(q, d)'
        BY <1>5, BuildSends, LoadsType, SendLemma
    <2> QED
        BY <1>q, <1>5, <2>1 DEF BuildSettings
<1>6. ASSUME NEW p \in Phones, CloseSettings(p) PROVE DueOpened'
    <2>1. UNCHANGED <<db, minute, vouched, wire>>
        BY <1>6 DEF CloseSettings
    <2> QED
        BY <1>q, <2>1 DEF OnItsWay
<1>7. ASSUME NEW p \in Phones, updateAutoPlayStatus(p) PROVE DueOpened'
    <2>1. PICK b \in BOOLEAN :
              Send(p, <<[Query("updateStatus") EXCEPT !.isEnabled = b]>>)
        BY <1>7 DEF updateAutoPlayStatus
    <2>2. <<[Query("updateStatus") EXCEPT !.isEnabled = b]>> \in Seq(Requests)
        BY QueryType DEF Calls
    <2> QED
        BY <1>q, <1>7, <2>1, <2>2, SendLemma DEF updateAutoPlayStatus
<1>8. ASSUME NEW p \in Phones, NEW m \in Minutes, updateAutoPlayTime(p, m)
      PROVE  DueOpened'
    <2>1. PICK t \in Texts : Send(p, <<[Query("updateTime") EXCEPT !.time = t]>>)
        BY <1>8 DEF updateAutoPlayTime, Texts
    <2>2. <<[Query("updateTime") EXCEPT !.time = t]>> \in Seq(Requests)
        BY QueryType DEF Calls
    <2> QED
        BY <1>q, <1>8, <2>1, <2>2, SendLemma DEF updateAutoPlayTime
<1>9. ASSUME NEW p \in Phones, Tick(p) PROVE DueOpened'
    <2>1. <<Query("tick")>> \in Seq(Requests)
        BY QueryType DEF Calls
    <2> QED
        BY <1>q, <1>9, <2>1, SendLemma DEF Tick
<1>10. ASSUME NEW p \in Phones, Restart(p) PROVE DueOpened'
    <2> SUFFICES ASSUME NEW q \in Phones, NEW d \in vouched'[q], Due(d)'
                 PROVE  db'[d].open \/ OnItsWay(q, d)'
        BY DEF DueOpened
    <2>1. q # p /\ d \in vouched[q] /\ wire'[q] = wire[q] /\ UNCHANGED <<db, minute>>
        BY <1>10 DEF Restart, TypeOK
    <2>2. Due(d)
        BY <2>1 DEF Due
    <2>3. db[d].open \/ OnItsWay(q, d)
        BY <2>1, <2>2 DEF DueOpened
    <2> QED
        BY <2>1, <2>3 DEF OnItsWay
<1>12. ASSUME NEW p \in Phones, StatusLoaded(p) PROVE DueOpened'
    BY <1>e, <1>q, <1>12 DEF StatusLoaded, Served
<1>13. ASSUME NEW p \in Phones, TimeLoaded(p) PROVE DueOpened'
    BY <1>e, <1>q, <1>13 DEF TimeLoaded, Served
<1>14. ASSUME NEW p \in Phones, ListRead(p) PROVE DueOpened'
    <2>1. /\ wire[p] # <<>> /\ Head(wire[p]).call # "tick" /\ GoOn(p, Devices)
          /\ UNCHANGED <<db, minute, vouched>>
        BY <1>14 DEF ListRead, Served
    <2>2. \A q \in Phones, d \in Devices : OnItsWay(q, d) => OnItsWay(q, d)'
        BY <2>1, StaysOnItsWay
    <2> QED
        BY <1>q, <2>1, <2>2
<1>15. ASSUME NEW p \in Phones, NEW at \in Devices, NEW due \in SUBSET Devices,
              wire[p] # <<>>, GoOn(p, due), Touch(at), UNCHANGED minute,
              \/ Head(wire[p]).call # "tick"
              \/ Head(wire[p]).at = at /\ Head(wire[p]).due = due,
              \A d \in Devices : d # at => db'[d] = db[d]
       PROVE  DueOpened'
    <2>1. \A q \in Phones, d \in Devices : d # at /\ OnItsWay(q, d) => OnItsWay(q, d)'
        BY <1>15, StaysOnItsWay
    <2> QED
        BY <1>t, <1>15, <2>1
<1>16. ASSUME NEW p \in Phones, wire[p] # <<>>, Head(wire[p]).at # 0
       PROVE  Head(wire[p]).at \in Devices /\ Head(wire[p]).due \in SUBSET Devices
    BY <1>16, HeadLemma, AutoPlayAssumption DEF Devices
<1>17. ASSUME NEW p \in Phones, StatusStored(p) PROVE DueOpened'
    <2>1. /\ wire[p] # <<>> /\ Head(wire[p]).call # "tick" /\ Head(wire[p]).at # 0
          /\ GoOn(p, Head(wire[p]).due) /\ Touch(Head(wire[p]).at) /\ UNCHANGED minute
          /\ \A d \in Devices : d # Head(wire[p]).at => db'[d] = db[d]
        BY <1>17 DEF StatusStored, Served, TypeOK
    <2> QED
        BY <1>15, <1>16, <2>1
<1>18. ASSUME NEW p \in Phones, TimeStored(p) PROVE DueOpened'
    <2>1. /\ wire[p] # <<>> /\ Head(wire[p]).call # "tick" /\ Head(wire[p]).at # 0
          /\ GoOn(p, Head(wire[p]).due) /\ Touch(Head(wire[p]).at) /\ UNCHANGED minute
          /\ \A d \in Devices : d # Head(wire[p]).at => db'[d] = db[d]
        BY <1>18 DEF TimeStored, Served, TypeOK
    <2> QED
        BY <1>15, <1>16, <2>1
<1>19. ASSUME NEW p \in Phones, OpenFails(p) PROVE DueOpened'
    <2>1. /\ wire[p] # <<>> /\ Head(wire[p]).at # 0
          /\ GoOn(p, Head(wire[p]).due) /\ Touch(Head(wire[p]).at)
          /\ UNCHANGED <<db, minute>>
        BY <1>19 DEF OpenFails, Served
    <2> QED
        BY <1>15, <1>16, <2>1
<1>20. ASSUME NEW p \in Phones, TickRead(p) PROVE DueOpened'
    <2> DEFINE rest == {d \in Devices : Due(d)}
    <2>1. /\ wire[p] # <<>> /\ Head(wire[p]).call = "tick" /\ Head(wire[p]).at = 0
          /\ GoOn(p, rest) /\ UNCHANGED <<db, minute>>
          /\ vouched' = [vouched EXCEPT ![p] = Devices]
        BY <1>20 DEF TickRead, Served
    <2> SUFFICES ASSUME NEW q \in Phones, NEW d \in vouched'[q], Due(d)'
                 PROVE  db'[d].open \/ OnItsWay(q, d)'
        BY DEF DueOpened
    <2>2. d \in Devices /\ Due(d) /\ (q # p => d \in vouched[q])
        BY <2>1 DEF Due, TypeOK
    <2>3. rest \in SUBSET Devices /\ d \in rest
        BY <2>2
    <2> HIDE DEF rest
    <2>4. CASE q = p
        BY <2>1, <2>3, <2>4, GoesOn
    <2>5. CASE q # p
        <3>1. db[d].open \/ OnItsWay(q, d)
            BY <2>2, <2>5 DEF DueOpened
        <3> QED
            BY <2>1, <2>2, <2>3, <2>5, <3>1, StaysOnItsWay
    <2> QED
        BY <2>4, <2>5
<1>21. ASSUME NEW p \in Phones, ShutterOpened(p) PROVE DueOpened'
    <2> DEFINE at == Head(wire[p]).at
               due == Head(wire[p]).due
    <2>1. /\ wire[p] # <<>> /\ Head(wire[p]).call = "tick" /\ at # 0
          /\ GoOn(p, due) /\ UNCHANGED <<minute, vouched>>
          /\ db' = [db EXCEPT ![at].open = TRUE]
        BY <1>21 DEF ShutterOpened, Served
    <2>2. at \in Devices /\ due \in SUBSET Devices
        BY <1>16, <2>1
    <2> SUFFICES ASSUME NEW q \in Phones, NEW d \in vouched'[q], Due(d)'
                 PROVE  db'[d].open \/ OnItsWay(q, d)'
        BY DEF DueOpened
    <2>3. d \in Devices /\ d \in vouched[q]
        BY <2>1 DEF TypeOK
    <2>4. CASE d = at
        BY <2>1, <2>2, <2>4 DEF TypeOK
    <2>5. CASE d # at
        <3>1. db'[d] = db[d] /\ Due(d)
            BY <2>1, <2>2, <2>3, <2>5 DEF Due, TypeOK
        <3>2. db[d].open \/ OnItsWay(q, d)
            BY <2>3, <3>1 DEF DueOpened
        <3> QED
            BY <2>1, <2>2, <2>3, <2>5, <3>1, <3>2, StaysOnItsWay
    <2> QED
        BY <2>4, <2>5
<1>22. ASSUME NEW p \in Phones, CallFails(p) PROVE DueOpened'
    BY <1>e, <1>q, <1>22 DEF CallFails
<1>23. CASE UNCHANGED vars
    <2>1. UNCHANGED <<db, minute, vouched, wire>>
        BY <1>23 DEF vars
    <2> QED
        BY <1>q, <2>1 DEF OnItsWay
<1> QED
    BY <1>1, <1>2, <1>3, <1>4, <1>5, <1>6, <1>7, <1>8, <1>9, <1>10, <1>12, <1>13, <1>14,
       <1>17, <1>18, <1>19, <1>20, <1>21, <1>22, <1>23
    DEF Next, UserStep, ServerStep

\* A tick that has its list within the minute forgets no shutter that is due,
\* for any number of phones, devices, minutes and overlapping calls.
THEOREM AutoPlayDueOpened == Spec => []DueOpened
<1>1. Init => AutoPlayInv
    BY InitType DEF Init, AutoPlayInv, DueOpened
<1>2. AutoPlayInv /\ [Next]_vars => AutoPlayInv'
    BY StepType, StepDue DEF AutoPlayInv
<1>3. AutoPlayInv => DueOpened
    BY DEF AutoPlayInv
<1> QED
    BY <1>1, <1>2, <1>3, PTL DEF Spec

-----------------------------------------------------------------------------
(* The last choice.                                                        *)

\* The calls that write a setting into every device.
Choices == {"updateStatus", "updateTime"}

\* What such a request writes, what device d holds, and what was asked for.
Chosen(r, c) == IF c = "updateStatus" THEN r.isEnabled ELSE r.time
Kept(d, c) == IF c = "updateStatus" THEN db[d].autoPlay ELSE db[d].autoPlayTime
Wanted(c) == IF c = "updateStatus" THEN asked.status ELSE asked.time

\* Such a call goes along the whole list.
LoopShape ==
    \A p \in Phones : \A i \in DOMAIN wire[p] :
        wire[p][i].call \in Choices /\ wire[p][i].at # 0 =>
            wire[p][i].due = {e \in Devices : wire[p][i].at < e}

\* Request i of the requests s is of the last call c: it is the least far along
\* the list, and of several at one device the last in the queue.
Newest(s, c, i) ==
    /\ s[i].call = c
    /\ \A j \in DOMAIN s : s[j].call = c =>
          s[i].at < s[j].at \/ (s[i].at = s[j].at /\ j <= i)

\* Why the last choice wins: only one phone has such calls in flight; the last
\* of them writes what was asked for, and the devices it has passed hold it,
\* since every earlier call was there before.
ChoiceInv(c) ==
    Wanted(c) # Null =>
        /\ \A p, q \in Phones : InFlight(p, c) /\ InFlight(q, c) => p = q
        /\ \A p \in Phones : \A i \in DOMAIN wire[p] : Newest(wire[p], c, i) =>
              /\ Chosen(wire[p][i], c) = Wanted(c)
              /\ \A d \in Devices : d < wire[p][i].at => Kept(d, c) = Wanted(c)
        /\ (\A p \in Phones : ~InFlight(p, c)) => \A d \in Devices : Kept(d, c) = Wanted(c)

\* The devices that are left after one are the following ones.
LEMMA LoopRest ==
    ASSUME NEW at \in 0..DeviceCount, NEW rest, rest = {e \in Devices : at < e}
    PROVE  /\ rest \in SUBSET Devices
           /\ rest = {} => at = DeviceCount
           /\ \A first \in rest : (\A e \in rest : first <= e) =>
                 first = at + 1 /\ rest \ {first} = {e \in Devices : first < e}
<1>1. DeviceCount \in Nat /\ at \in Nat /\ at <= DeviceCount
    BY AutoPlayAssumption
<1>2. at < DeviceCount => at + 1 \in rest
    BY <1>1 DEF Devices
<1>3. ASSUME NEW first \in rest, \A e \in rest : first <= e
      PROVE  first = at + 1 /\ rest \ {first} = {e \in Devices : first < e}
    <2>1. first \in Nat /\ at < first /\ first <= DeviceCount
        BY <1>1, <1>3 DEF Devices
    <2>2. first = at + 1
        BY <1>1, <1>2, <1>3, <2>1
    <2>3. \A e \in Devices : e \in Nat
        BY <1>1 DEF Devices
    <2>4. \A e \in Devices : at < e /\ e # first <=> first < e
        BY <1>1, <2>2, <2>3
    <2>5. rest \ {first} = {e \in Devices : first < e}
        BY <2>4
    <2> QED
        BY <2>2, <2>5
<1> QED
    BY <1>1, <1>2, <1>3

\* A request of the queue.
LEMMA RequestType ==
    ASSUME NEW s \in Seq(Requests), NEW i \in DOMAIN s
    PROVE  /\ i \in Nat /\ 1 <= i /\ i <= Len(s) /\ Len(s) \in Nat
           /\ s[i].at \in Nat /\ s[i].at <= DeviceCount /\ s[i].at \in 0..DeviceCount
<1>1. s[i] \in Requests /\ i \in 1..Len(s) /\ Len(s) \in Nat
    OBVIOUS
<1>2. s[i].at \in 0..DeviceCount
    BY <1>1 DEF Requests
<1> QED
    BY <1>1, <1>2, AutoPlayAssumption

\* The oldest request is answered and is of another kind: the last call of
\* kind c moves up.
LEMMA NewestOther ==
    ASSUME NEW s \in Seq(Requests), s # <<>>, NEW t \in Seq(Requests), NEW c,
           Shifted(s, t), s[1].call # c,
           Len(s) \in DOMAIN t => t[Len(s)].call # c,
           NEW i \in DOMAIN t, t[i].call = c
    PROVE  /\ i + 1 \in DOMAIN s /\ t[i] = s[i + 1]
           /\ Newest(t, c, i) => Newest(s, c, i + 1)
<1>1. i + 1 \in DOMAIN s /\ t[i] = s[i + 1]
    BY DEF Shifted
<1>2. ASSUME NEW j \in DOMAIN s, s[j].call = c, Newest(t, c, i)
      PROVE  s[i + 1].at < s[j].at \/ (s[i + 1].at = s[j].at /\ j <= i + 1)
    <2>1. j # 1 /\ j - 1 \in DOMAIN t /\ t[j - 1] = s[j]
        BY <1>2 DEF Shifted
    <2>2. t[i].at < t[j - 1].at \/ (t[i].at = t[j - 1].at /\ j - 1 <= i)
        BY <1>2, <2>1 DEF Newest
    <2>3. i \in Nat /\ j \in Nat
        BY RequestType
    <2> QED
        BY <1>1, <2>1, <2>2, <2>3
<1> QED
    BY <1>1, <1>2 DEF Newest

\* The oldest request is answered and is of kind c.  The last call of that kind
\* moves up, and is not ahead of the answered one; or it is the answered one.
\* A request that does not go on was at the last device or not the last call.
LEMMA NewestAdvances ==
    ASSUME NEW s \in Seq(Requests), s # <<>>, NEW t \in Seq(Requests), NEW c,
           Shifted(s, t), s[1].call = c,
           IF Len(s) \in DOMAIN t
           THEN t[Len(s)].call = c /\ t[Len(s)].at = s[1].at + 1
           ELSE s[1].at = DeviceCount
                \/ \E k \in DOMAIN s : k # 1 /\ s[k].call = c /\ s[k].at <= s[1].at,
           NEW i \in DOMAIN t, Newest(t, c, i)
    PROVE  \/ /\ i + 1 \in DOMAIN s /\ t[i] = s[i + 1]
              /\ Newest(s, c, i + 1) /\ s[i + 1].at <= s[1].at
           \/ i = Len(s) /\ Newest(s, c, 1)
<1>0. 1 \in DOMAIN s
    OBVIOUS
<1>1. \A j \in DOMAIN s : j \in Nat /\ 1 <= j /\ j <= Len(s) /\ Len(s) \in Nat
                          /\ s[j].at \in Nat /\ s[j].at <= DeviceCount
    BY RequestType
<1>2. i \in Nat /\ 1 <= i /\ t[i].at \in Nat
    BY RequestType
<1>3. \A j \in DOMAIN s : j # 1 /\ s[j].call = c =>
          t[i].at < s[j].at \/ (t[i].at = s[j].at /\ j - 1 <= i)
    BY DEF Shifted, Newest
<1>4. CASE i = Len(s)
    <2>1. t[i].at = s[1].at + 1
        BY <1>4
    <2>2. ASSUME NEW j \in DOMAIN s, s[j].call = c, j # 1
          PROVE  s[1].at < s[j].at
        <3>1. t[i].at <= s[j].at
            BY <1>1, <1>2, <1>3, <2>2
        <3> QED
            BY <1>0, <1>1, <2>1, <2>2, <3>1
    <2>3. Newest(s, c, 1)
        BY <1>0, <2>2 DEF Newest
    <2> QED
        BY <1>4, <2>3
<1>5. CASE i # Len(s)
    <2>1. i + 1 \in DOMAIN s /\ t[i] = s[i + 1]
        BY <1>5 DEF Shifted
    <2>2. s[i + 1].at <= s[1].at
        <3>1. CASE Len(s) \in DOMAIN t
            <4>1. t[i].at < t[Len(s)].at \/ Len(s) <= i
                BY <3>1 DEF Newest
            <4>2. i + 1 <= Len(s)
                BY <1>1, <2>1
            <4>3. t[i].at < s[1].at + 1
                BY <1>0, <1>1, <1>2, <3>1, <4>1, <4>2
            <4> QED
                BY <1>0, <1>1, <2>1, <4>3
        <3>2. CASE Len(s) \notin DOMAIN t /\ s[1].at = DeviceCount
            BY <1>1, <2>1, <3>2
        <3>3. ASSUME NEW k \in DOMAIN s, k # 1, s[k].call = c, s[k].at <= s[1].at
              PROVE  s[i + 1].at <= s[1].at
            <4>1. t[i].at <= s[k].at
                BY <1>1, <1>2, <1>3, <3>3
            <4> QED
                BY <1>0, <1>1, <2>1, <3>3, <4>1
        <3> QED
            BY <3>1, <3>2, <3>3
    <2>3. ASSUME NEW j \in DOMAIN s, s[j].call = c
          PROVE  s[i + 1].at < s[j].at \/ (s[i + 1].at = s[j].at /\ j <= i + 1)
        <3>1. CASE j = 1
            BY <1>0, <1>1, <1>2, <2>1, <2>2, <3>1
        <3>2. CASE j # 1
            BY <1>1, <1>2, <1>3, <2>1, <2>3, <3>2
        <3> QED
            BY <3>1, <3>2
    <2>4. s[i + 1].call = c
        BY <2>1 DEF Newest
    <2>5. Newest(s, c, i + 1)
        BY <2>3, <2>4 DEF Newest
    <2> QED
        BY <2>1, <2>2, <2>5
<1> QED
    BY <1>4, <1>5

\* A step that leaves the last call of kind c what it was, and where it is.
Follows(c) ==
    \A q \in Phones :
        /\ InFlight(q, c)' <=> InFlight(q, c)
        /\ \A i \in DOMAIN wire'[q] : Newest(wire'[q], c, i) =>
              \E k \in DOMAIN wire[q] : wire[q][k] = wire'[q][i] /\ Newest(wire[q], c, k)

LEMMA FollowsChoice ==
    ASSUME NEW c, ChoiceInv(c), Wanted(c)' = Wanted(c),
           \A d \in Devices : Kept(d, c)' = Kept(d, c), Follows(c)
    PROVE  ChoiceInv(c)'
<1> SUFFICES ASSUME Wanted(c)' # Null
             PROVE  /\ \A p, q \in Phones : InFlight(p, c)' /\ InFlight(q, c)' => p = q
                    /\ \A p \in Phones : \A i \in DOMAIN wire'[p] : Newest(wire'[p], c, i) =>
                          /\ Chosen(wire'[p][i], c) = Wanted(c)
                          /\ \A d \in Devices : d < wire'[p][i].at => Kept(d, c) = Wanted(c)
                    /\ (\A p \in Phones : ~InFlight(p, c)') =>
                          \A d \in Devices : Kept(d, c) = Wanted(c)
    BY DEF ChoiceInv
<1>1. \A p, q \in Phones : InFlight(p, c)' /\ InFlight(q, c)' => p = q
    BY DEF ChoiceInv, Follows
<1>2. ASSUME NEW p \in Phones, NEW i \in DOMAIN wire'[p], Newest(wire'[p], c, i)
      PROVE  /\ Chosen(wire'[p][i], c) = Wanted(c)
             /\ \A d \in Devices : d < wire'[p][i].at => Kept(d, c) = Wanted(c)
    <2>1. PICK k \in DOMAIN wire[p] : wire[p][k] = wire'[p][i] /\ Newest(wire[p], c, k)
        BY <1>2 DEF Follows
    <2>2. /\ Chosen(wire[p][k], c) = Wanted(c)
          /\ \A d \in Devices : d < wire[p][k].at => Kept(d, c) = Wanted(c)
        BY <2>1 DEF ChoiceInv
    <2> QED
        BY <2>1, <2>2
<1>3. (\A p \in Phones : ~InFlight(p, c)') => \A d \in Devices : Kept(d, c) = Wanted(c)
    BY DEF ChoiceInv, Follows
<1> QED
    BY <1>1, <1>2, <1>3

LEMMA SameWire ==
    ASSUME NEW c, UNCHANGED wire
    PROVE  Follows(c)
BY DEF Follows, InFlight

\* Requests of other kinds are sent.
LEMMA SendOther ==
    ASSUME TypeOK, NEW c, NEW p \in Phones, NEW new \in Seq(Requests), Send(p, new),
           \A j \in DOMAIN new : new[j].call # c
    PROVE  Follows(c)
<1> DEFINE s == wire[p]
           t == wire'[p]
<1>1. s \in Seq(Requests) /\ t = s \o new /\ \A q \in Phones : q # p => wire'[q] = wire[q]
    BY DEF TypeOK, Send
<1>2. \A i \in DOMAIN s : i \in DOMAIN t /\ t[i] = s[i]
    BY <1>1
<1>3. ASSUME NEW i \in DOMAIN t, t[i].call = c PROVE i \in DOMAIN s
    <2>1. i \in 1..(Len(s) + Len(new)) /\ Len(s) \in Nat /\ Len(new) \in Nat
        BY <1>1
    <2>2. CASE i > Len(s)
        <3>1. i - Len(s) \in DOMAIN new /\ t[i] = new[i - Len(s)]
            BY <1>1, <2>1, <2>2
        <3> QED
            BY <1>3, <3>1
    <2> QED
        BY <1>1, <2>1, <2>2
<1>4. InFlight(p, c)' <=> InFlight(p, c)
    BY <1>2, <1>3 DEF InFlight
<1>5. ASSUME NEW i \in DOMAIN t, Newest(t, c, i)
      PROVE  i \in DOMAIN s /\ s[i] = t[i] /\ Newest(s, c, i)
    BY <1>2, <1>3, <1>5 DEF Newest
<1>6. \A q \in Phones : q # p => (InFlight(q, c)' <=> InFlight(q, c))
    BY <1>1 DEF InFlight
<1> QED
    BY <1>1, <1>4, <1>5, <1>6 DEF Follows

\* The oldest request is answered and is of another kind.
LEMMA AnswerOther ==
    ASSUME TypeOK, NEW c, NEW p \in Phones, wire[p] # <<>>, Head(wire[p]).call # c,
           NEW rest \in SUBSET Devices, GoOn(p, rest)
    PROVE  Follows(c)
<1> DEFINE s == wire[p]
           t == wire'[p]
<1>1. /\ s \in Seq(Requests) /\ s # <<>> /\ s[1].call # c
      /\ t \in Seq(Requests) /\ Shifted(s, t)
      /\ Len(s) \in DOMAIN t => t[Len(s)].call # c
    BY HeadLemma, GoOnShape DEF Successor
<1>2. \A q \in Phones : q # p => wire'[q] = wire[q]
    BY GoOnLemma
<1>3. ASSUME NEW i \in DOMAIN t, t[i].call = c
      PROVE  /\ i + 1 \in DOMAIN s /\ t[i] = s[i + 1]
             /\ Newest(t, c, i) => Newest(s, c, i + 1)
    BY <1>1, <1>3, NewestOther
<1>4. InFlight(p, c)' => InFlight(p, c)
    BY <1>3 DEF InFlight
<1>5. InFlight(p, c) => InFlight(p, c)'
    BY <1>1 DEF InFlight, Shifted
<1>6. \A q \in Phones : q # p => (InFlight(q, c)' <=> InFlight(q, c))
    BY <1>2 DEF InFlight
<1>7. \A i \in DOMAIN t : Newest(t, c, i) =>
          \E k \in DOMAIN s : s[k] = t[i] /\ Newest(s, c, k)
    BY <1>3 DEF Newest
<1> QED
    BY <1>2, <1>4, <1>5, <1>6, <1>7 DEF Follows

\* An update is rejected, but a later call of its kind is under way.
LEMMA FailsNotLast ==
    ASSUME TypeOK, NEW c, NEW p \in Phones, wire[p] # <<>>, Head(wire[p]).call = c,
           EndCall(p), ~IsLastChoice(p)
    PROVE  Follows(c)
<1> DEFINE s == wire[p]
           t == wire'[p]
<1>0. GoOn(p, {}) /\ {} \in SUBSET Devices
    BY DEF GoOn
<1>1. /\ s \in Seq(Requests) /\ s # <<>> /\ s[1].call = c /\ s[1] = Head(s)
      /\ t \in Seq(Requests) /\ Shifted(s, t) /\ Len(s) \notin DOMAIN t
    BY <1>0, HeadLemma, GoOnShape
<1>2. \A q \in Phones : q # p => wire'[q] = wire[q]
    BY <1>0, GoOnLemma
<1>3. PICK k \in DOMAIN s : k # 1 /\ s[k].call = c /\ ~(s[1].at < s[k].at)
    BY <1>1 DEF IsLastChoice
<1>4. s[k].at <= s[1].at
    <2>1. 1 \in DOMAIN s
        BY <1>1
    <2>2. s[k].at \in Nat /\ s[1].at \in Nat
        BY <1>1, <2>1, RequestType
    <2> QED
        BY <1>3, <2>2
<1> HIDE DEF s, t
<1>5. ASSUME NEW i \in DOMAIN t, Newest(t, c, i)
      PROVE  \E j \in DOMAIN s : s[j] = t[i] /\ Newest(s, c, j)
    <2>1. i # Len(s)
        BY <1>1
    <2>2. i + 1 \in DOMAIN s /\ t[i] = s[i + 1] /\ Newest(s, c, i + 1)
        BY <1>1, <1>3, <1>4, <1>5, <2>1, NewestAdvances
    <2> QED
        BY <2>2
<1>6. (\E i \in DOMAIN s : s[i].call = c) /\ (\E i \in DOMAIN t : t[i].call = c)
    BY <1>1, <1>3 DEF Shifted
<1>7. InFlight(p, c)' <=> InFlight(p, c)
    BY <1>6 DEF InFlight, s, t
<1>8. \A q \in Phones : q # p => (InFlight(q, c)' <=> InFlight(q, c))
    BY <1>2 DEF InFlight
<1> QED
    BY <1>2, <1>5, <1>7, <1>8 DEF Follows, s, t

\* A phone without such calls is killed.
LEMMA RestartOther ==
    ASSUME TypeOK, NEW c, NEW p \in Phones, ~InFlight(p, c),
           wire' = [wire EXCEPT ![p] = <<>>]
    PROVE  Follows(c)
<1>1. wire'[p] = <<>> /\ \A q \in Phones : q # p => wire'[q] = wire[q]
    BY DEF TypeOK
<1>2. \A q \in Phones : InFlight(q, c)' <=> InFlight(q, c)
    BY <1>1 DEF InFlight
<1> QED
    BY <1>1, <1>2 DEF Follows

\* A new choice is the last one, and has everything before it.
LEMMA NewChoice ==
    ASSUME TypeOK, NEW c, NEW p \in Phones, NEW r \in Requests,
           Send(p, <<r>>), r.call = c, r.at = 0,
           Wanted(c)' = IF \E q \in Phones \ {p} : InFlight(q, c) THEN Null
                        ELSE Chosen(r, c)
    PROVE  ChoiceInv(c)'
<1> DEFINE s == wire[p]
           t == wire'[p]
<1> SUFFICES ASSUME Wanted(c)' # Null
             PROVE  ChoiceInv(c)'
    BY DEF ChoiceInv
<1>1. /\ Wanted(c)' = Chosen(r, c)
      /\ \A q \in Phones : q # p => ~InFlight(q, c)
    OBVIOUS
<1>2. s \in Seq(Requests) /\ t = s \o <<r>> /\ \A q \in Phones : q # p => wire'[q] = wire[q]
    BY DEF TypeOK, Send
<1>3. /\ t \in Seq(Requests) /\ Len(s) \in Nat /\ DOMAIN t = 1..(Len(s) + 1)
      /\ t[Len(s) + 1] = r
    BY <1>2
<1>4. \A q \in Phones : q # p => ~InFlight(q, c)'
    BY <1>1, <1>2 DEF InFlight
<1>5. InFlight(p, c)'
    BY <1>3 DEF InFlight
<1>6. ASSUME NEW i \in DOMAIN t, Newest(t, c, i) PROVE t[i] = r
    <2>1. Len(s) + 1 \in DOMAIN t /\ i \in Nat /\ i <= Len(s) + 1 /\ t[i].at \in Nat
        BY <1>3, RequestType
    <2>2. t[i].at < 0 \/ Len(s) + 1 <= i
        BY <1>3, <1>6, <2>1 DEF Newest
    <2>3. i = Len(s) + 1
        BY <1>3, <2>1, <2>2
    <2> QED
        BY <1>3, <2>3
<1>7. \A q \in Phones : \A i \in DOMAIN wire'[q] : Newest(wire'[q], c, i) => q = p
    BY <1>4 DEF Newest, InFlight
<1>8. \A d \in Devices : ~(d < 0)
    BY AutoPlayAssumption DEF Devices
<1>9. ASSUME NEW q \in Phones, NEW i \in DOMAIN wire'[q], Newest(wire'[q], c, i)
      PROVE  /\ Chosen(wire'[q][i], c) = Wanted(c)'
             /\ \A d \in Devices : ~(d < wire'[q][i].at)
    BY <1>1, <1>6, <1>7, <1>8, <1>9
<1>10. \A q, h \in Phones : InFlight(q, c)' /\ InFlight(h, c)' => q = h
    BY <1>4
<1> QED
    BY <1>5, <1>9, <1>10 DEF ChoiceInv

\* The oldest request is answered, and its call goes on: where it was the last
\* call, one more device holds what was asked for; where it was not, the last
\* call has that device still before it.
LEMMA ChoiceGoesOn ==
    ASSUME TypeOK, NEW c, ChoiceInv(c), NEW p \in Phones, wire[p] # <<>>,
           Head(wire[p]).call = c,
           GoOn(p, {e \in Devices : Head(wire[p]).at < e}),
           Wanted(c)' = Wanted(c),
           \A d \in Devices : Kept(d, c)' = IF d = Head(wire[p]).at THEN Chosen(Head(wire[p]), c)
                                             ELSE Kept(d, c)
    PROVE  ChoiceInv(c)'
<1> DEFINE s == wire[p]
           t == wire'[p]
           h == Head(wire[p])
           rest == {e \in Devices : h.at < e}
<1>1. /\ s \in Seq(Requests) /\ s # <<>> /\ 1 \in DOMAIN s /\ s[1] = h
      /\ h.at \in 0..DeviceCount
    BY HeadLemma
<1>2. /\ rest \in SUBSET Devices
      /\ rest = {} => h.at = DeviceCount
      /\ \A first \in rest : (\A e \in rest : first <= e) => first = h.at + 1
    BY <1>1, LoopRest
<1> HIDE DEF rest
<1>3. GoOn(p, rest)
    BY DEF rest
<1>4. /\ t \in Seq(Requests) /\ Shifted(s, t)
      /\ IF rest = {} THEN Len(s) \notin DOMAIN t
         ELSE /\ Len(s) \in DOMAIN t /\ Successor(h, t[Len(s)], rest)
    BY <1>2, <1>3, GoOnShape
<1>5. /\ Len(s) \in DOMAIN t =>
            t[Len(s)].call = c /\ t[Len(s)].at = h.at + 1 /\ Chosen(t[Len(s)], c) = Chosen(h, c)
      /\ Len(s) \notin DOMAIN t => h.at = DeviceCount
    BY <1>2, <1>4 DEF Successor, Chosen
<1>6. \A q \in Phones : q # p => wire'[q] = wire[q]
    BY <1>2, <1>3, GoOnLemma
<1> SUFFICES ASSUME Wanted(c) # Null PROVE ChoiceInv(c)'
    BY DEF ChoiceInv
<1>7. InFlight(p, c) /\ \A q \in Phones : q # p => ~InFlight(q, c)
    BY <1>1 DEF ChoiceInv, InFlight
<1>8. \A q \in Phones : q # p => ~InFlight(q, c)'
    BY <1>6, <1>7 DEF InFlight
<1>9. Newest(s, c, 1) =>
          /\ Chosen(h, c) = Wanted(c)
          /\ \A d \in Devices : d < h.at => Kept(d, c) = Wanted(c)
    BY <1>1 DEF ChoiceInv
<1>10. Newest(s, c, 1) => \A d \in Devices : d < h.at + 1 => Kept(d, c)' = Wanted(c)
    <2>1. \A d \in Devices : d < h.at + 1 => d = h.at \/ d < h.at
        BY <1>1, AutoPlayAssumption DEF Devices
    <2> QED
        BY <1>9, <2>1
<1>11. ASSUME NEW i \in DOMAIN t, Newest(t, c, i)
       PROVE  /\ Chosen(t[i], c) = Wanted(c)
              /\ \A d \in Devices : d < t[i].at => Kept(d, c)' = Wanted(c)
    <2>1. CASE i = Len(s) /\ Newest(s, c, 1)
        BY <1>5, <1>9, <1>10, <1>11, <2>1
    <2>2. CASE /\ i + 1 \in DOMAIN s /\ t[i] = s[i + 1]
               /\ Newest(s, c, i + 1) /\ s[i + 1].at <= s[1].at
        <3>1. /\ Chosen(t[i], c) = Wanted(c)
              /\ \A d \in Devices : d < t[i].at => Kept(d, c) = Wanted(c)
            BY <2>2 DEF ChoiceInv
        <3>2. t[i].at \in Nat /\ t[i].at <= h.at /\ h.at \in Nat
            BY <1>1, <1>4, <2>2, RequestType
        <3>3. \A d \in Devices : d < t[i].at => d # h.at
            BY <3>2, AutoPlayAssumption DEF Devices
        <3> QED
            BY <3>1, <3>3
    <2>3. \/ /\ i + 1 \in DOMAIN s /\ t[i] = s[i + 1]
             /\ Newest(s, c, i + 1) /\ s[i + 1].at <= s[1].at
          \/ i = Len(s) /\ Newest(s, c, 1)
        <3>1. s[1].call = c
            BY <1>1
        <3>2. IF Len(s) \in DOMAIN t
              THEN t[Len(s)].call = c /\ t[Len(s)].at = s[1].at + 1
              ELSE s[1].at = DeviceCount
            BY <1>1, <1>5
        <3> HIDE DEF s, t
        <3> QED
            BY <1>1, <1>4, <1>11, <3>1, <3>2, NewestAdvances
    <2> QED
        BY <2>1, <2>2, <2>3
<1>12. ASSUME ~InFlight(p, c)', NEW d \in Devices PROVE Kept(d, c)' = Wanted(c)
    <2>1. \A j \in DOMAIN s : s[j].call = c => j = 1
        BY <1>4, <1>12 DEF InFlight, Shifted
    <2>2. Newest(s, c, 1)
        BY <1>1, <2>1 DEF Newest
    <2>3. h.at = DeviceCount
        BY <1>5, <1>12 DEF InFlight
    <2>4. d < h.at + 1
        BY <2>3, AutoPlayAssumption DEF Devices
    <2> QED
        BY <1>10, <2>2, <2>4
<1>13. ASSUME NEW q \in Phones, NEW i \in DOMAIN wire'[q], Newest(wire'[q], c, i)
       PROVE  q = p
    BY <1>8, <1>13 DEF InFlight, Newest
<1>14. \A q \in Phones : \A i \in DOMAIN wire'[q] : Newest(wire'[q], c, i) =>
          /\ Chosen(wire'[q][i], c) = Wanted(c)'
          /\ \A d \in Devices : d < wire'[q][i].at => Kept(d, c)' = Wanted(c)'
    BY <1>11, <1>13
<1>15. \A q, g \in Phones : InFlight(q, c)' /\ InFlight(g, c)' => q = g
    BY <1>8
<1> QED
    BY <1>12, <1>14, <1>15 DEF ChoiceInv

\* Requests that are queries are sent.
LEMMA SendShape ==
    ASSUME TypeOK, LoopShape, NEW p \in Phones, NEW new \in Seq(Requests), Send(p, new),
           \A j \in DOMAIN new : new[j].at = 0
    PROVE  LoopShape'
<1> DEFINE s == wire[p]
           t == wire'[p]
<1>1. s \in Seq(Requests) /\ t = s \o new /\ \A q \in Phones : q # p => wire'[q] = wire[q]
    BY DEF TypeOK, Send
<1>2. ASSUME NEW i \in DOMAIN t, t[i].at # 0 PROVE i \in DOMAIN s /\ t[i] = s[i]
    <2>1. i \in 1..(Len(s) + Len(new)) /\ Len(s) \in Nat /\ Len(new) \in Nat
        BY <1>1
    <2>2. CASE i > Len(s)
        <3>1. i - Len(s) \in DOMAIN new /\ t[i] = new[i - Len(s)]
            BY <1>1, <2>1, <2>2
        <3> QED
            BY <1>2, <3>1
    <2> QED
        BY <1>1, <2>1, <2>2
<1>3. ASSUME NEW q \in Phones, NEW i \in DOMAIN wire'[q], wire'[q][i].at # 0
      PROVE  i \in DOMAIN wire[q] /\ wire'[q][i] = wire[q][i]
    <2>1. CASE q = p
        BY <1>2, <1>3, <2>1
    <2>2. CASE q # p
        BY <1>1, <2>2
    <2> QED
        BY <2>1, <2>2
<1> QED
    BY <1>3 DEF LoopShape

\* A request is answered and goes on along the list.
LEMMA GoOnLoop ==
    ASSUME TypeOK, LoopShape, NEW p \in Phones, wire[p] # <<>>,
           NEW rest \in SUBSET Devices, GoOn(p, rest),
           Head(wire[p]).call \in Choices =>
               rest = {} \/ rest = {e \in Devices : Head(wire[p]).at < e}
    PROVE  LoopShape'
<1> DEFINE s == wire[p]
           t == wire'[p]
           h == Head(wire[p])
<1>1. /\ Shifted(s, t)
      /\ IF rest = {} THEN Len(s) \notin DOMAIN t
         ELSE /\ Len(s) \in DOMAIN t /\ Successor(h, t[Len(s)], rest)
    BY GoOnShape
<1>2. \A q \in Phones : q # p => wire'[q] = wire[q]
    BY GoOnLemma
<1>3. ASSUME NEW i \in DOMAIN t, t[i].call \in Choices, t[i].at # 0
      PROVE  t[i].due = {e \in Devices : t[i].at < e}
    <2>1. CASE i # Len(s)
        BY <1>1, <1>3, <2>1 DEF Shifted, LoopShape
    <2>2. CASE i = Len(s)
        <3>1. rest # {} /\ Successor(h, t[i], rest) /\ h.call \in Choices
            BY <1>1, <1>3, <2>2 DEF Successor
        <3>2. rest = {e \in Devices : h.at < e} /\ h.at \in 0..DeviceCount
            BY <3>1, HeadLemma
        <3>3. \A first \in rest : (\A e \in rest : first <= e) =>
                  rest \ {first} = {e \in Devices : first < e}
            BY <3>2, LoopRest
        <3> QED
            BY <3>1, <3>3 DEF Successor
    <2> QED
        BY <2>1, <2>2
<1> QED
    BY <1>2, <1>3 DEF LoopShape

\* What a loop has left when its oldest request is answered.
LEMMA LoopHead ==
    ASSUME TypeOK, LoopShape, NEW p \in Phones, wire[p] # <<>>,
           Head(wire[p]).call \in Choices
    PROVE  /\ Head(wire[p]).at # 0 => Head(wire[p]).due = {e \in Devices : Head(wire[p]).at < e}
           /\ Head(wire[p]).at = 0 => Devices = {e \in Devices : Head(wire[p]).at < e}
<1>1. 1 \in DOMAIN wire[p] /\ wire[p][1] = Head(wire[p])
    BY HeadLemma
<1>2. \A e \in Devices : 0 < e
    BY AutoPlayAssumption DEF Devices
<1> QED
    BY <1>1, <1>2 DEF LoopShape

LEMMA StepShape == TypeOK /\ LoopShape /\ [Next]_vars => LoopShape'
<1> SUFFICES ASSUME TypeOK, LoopShape, [Next]_vars PROVE LoopShape'
    OBVIOUS
<1>q. ASSUME UNCHANGED wire PROVE LoopShape'
    BY <1>q DEF LoopShape
<1>e. ASSUME NEW p \in Phones, wire[p] # <<>>, EndCall(p) PROVE LoopShape'
    <2>1. GoOn(p, {}) /\ {} \in SUBSET Devices
        BY <1>e DEF GoOn
    <2> QED
        BY <1>e, <2>1, GoOnLoop
<1>1. CASE NextMinute \/ (\E d \in Devices : MoveShutter(d) \/ ReplaceDevice(d))
    BY <1>q, <1>1 DEF NextMinute, MoveShutter, ReplaceDevice
<1>2. ASSUME NEW p \in Phones, BuildCard(p) \/ BuildSettings(p) PROVE LoopShape'
    BY <1>2, BuildSends, LoadsType, SendShape
<1>3. ASSUME NEW p \in Phones, CloseSettings(p) PROVE LoopShape'
    BY <1>q, <1>3 DEF CloseSettings
<1>4. ASSUME NEW p \in Phones, NEW r \in Requests, r.at = 0, Send(p, <<r>>) PROVE LoopShape'
    <2>1. <<r>> \in Seq(Requests) /\ \A j \in DOMAIN <<r>> : <<r>>[j].at = 0
        BY <1>4
    <2> QED
        BY <1>4, <2>1, SendShape
<1>5. ASSUME NEW p \in Phones, updateAutoPlayStatus(p) PROVE LoopShape'
    <2>1. PICK b \in BOOLEAN : Send(p, <<[Query("updateStatus") EXCEPT !.isEnabled = b]>>)
        BY <1>5 DEF updateAutoPlayStatus
    <2>2. /\ [Query("updateStatus") EXCEPT !.isEnabled = b] \in Requests
          /\ [Query("updateStatus") EXCEPT !.isEnabled = b].at = 0
        BY QueryType DEF Calls, Query
    <2> QED
        BY <1>4, <2>1, <2>2
<1>6. ASSUME NEW p \in Phones, NEW m \in Minutes, updateAutoPlayTime(p, m) PROVE LoopShape'
    <2>1. PICK x \in Texts : Send(p, <<[Query("updateTime") EXCEPT !.time = x]>>)
        BY <1>6 DEF updateAutoPlayTime, Texts
    <2>2. /\ [Query("updateTime") EXCEPT !.time = x] \in Requests
          /\ [Query("updateTime") EXCEPT !.time = x].at = 0
        BY QueryType DEF Calls, Query
    <2> QED
        BY <1>4, <2>1, <2>2
<1>7. ASSUME NEW p \in Phones, Tick(p) PROVE LoopShape'
    <2>1. Query("tick") \in Requests /\ Query("tick").at = 0
        BY QueryType DEF Calls, Query
    <2> QED
        BY <1>4, <1>7, <2>1 DEF Tick
<1>8. ASSUME NEW p \in Phones, Restart(p) PROVE LoopShape'
    <2>1. wire'[p] = <<>> /\ \A q \in Phones : q # p => wire'[q] = wire[q]
        BY <1>8 DEF Restart, TypeOK
    <2> QED
        BY <2>1 DEF LoopShape
<1>9. ASSUME NEW p \in Phones, StatusLoaded(p) \/ TimeLoaded(p) \/ CallFails(p)
      PROVE  LoopShape'
    BY <1>e, <1>9 DEF StatusLoaded, TimeLoaded, CallFails, Served
<1>10. ASSUME NEW p \in Phones, ListRead(p) PROVE LoopShape'
    BY <1>10, LoopHead, GoOnLoop DEF ListRead, Served, Choices
<1>11. ASSUME NEW p \in Phones, StatusStored(p) \/ TimeStored(p) PROVE LoopShape'
    <2>1. /\ wire[p] # <<>> /\ Head(wire[p]).call \in Choices /\ Head(wire[p]).at # 0
          /\ GoOn(p, Head(wire[p]).due)
        BY <1>11 DEF StatusStored, TimeStored, Served, Choices
    <2> QED
        BY <2>1, HeadLemma, LoopHead, GoOnLoop
<1>12. ASSUME NEW p \in Phones, TickRead(p) PROVE LoopShape'
    <2>1. /\ wire[p] # <<>> /\ Head(wire[p]).call \notin Choices
          /\ GoOn(p, {d \in Devices : Due(d)}) /\ {d \in Devices : Due(d)} \in SUBSET Devices
        BY <1>12 DEF TickRead, Served, Choices
    <2> QED
        BY <2>1, GoOnLoop
<1>13. ASSUME NEW p \in Phones, ShutterOpened(p) \/ OpenFails(p) PROVE LoopShape'
    <2>1. /\ wire[p] # <<>> /\ Head(wire[p]).call \notin Choices
          /\ GoOn(p, Head(wire[p]).due)
        BY <1>13 DEF ShutterOpened, OpenFails, Served, Choices
    <2> QED
        BY <2>1, HeadLemma, GoOnLoop
<1>14. CASE UNCHANGED vars
    BY <1>q, <1>14 DEF vars
<1> QED
    BY <1>1, <1>2, <1>3, <1>5, <1>6, <1>7, <1>8, <1>9, <1>10, <1>11, <1>12, <1>13, <1>14
    DEF Next, UserStep, ServerStep

\* Every step keeps the last choice of either kind on its way.
LEMMA StepChoice ==
    ASSUME TypeOK, LoopShape, NEW c \in Choices, ChoiceInv(c), [Next]_vars
    PROVE  ChoiceInv(c)'
<1>c. c = "updateStatus" \/ c = "updateTime"
    BY DEF Choices
<1>n. ASSUME Wanted(c)' = Null PROVE ChoiceInv(c)'
    BY <1>n DEF ChoiceInv
<1>q. ASSUME UNCHANGED asked, Follows(c),
             \A d \in Devices : Kept(d, c)' = Kept(d, c)
      PROVE  ChoiceInv(c)'
    <2>1. Wanted(c)' = Wanted(c)
        BY <1>q DEF Wanted
    <2> QED
        BY <1>q, <2>1, FollowsChoice
<1>k. ASSUME UNCHANGED db PROVE \A d \in Devices : Kept(d, c)' = Kept(d, c)
    BY <1>k DEF Kept
<1>e. ASSUME NEW p \in Phones, wire[p] # <<>>, EndCall(p), Head(wire[p]).call # c
      PROVE  Follows(c)
    <2>1. GoOn(p, {}) /\ {} \in SUBSET Devices
        BY <1>e DEF GoOn
    <2> QED
        BY <1>e, <2>1, AnswerOther
<1>o. ASSUME NEW d \in Devices, NEW b, db' = [db EXCEPT ![d].open = b]
      PROVE  \A e \in Devices : Kept(e, c)' = Kept(e, c)
    <2>1. \A e \in Devices : /\ db'[e].autoPlay = db[e].autoPlay
                             /\ db'[e].autoPlayTime = db[e].autoPlayTime
        BY <1>o DEF TypeOK
    <2> QED
        BY <2>1 DEF Kept
<1>s. ASSUME NEW p \in Phones, NEW r \in Requests, r.call # c, Send(p, <<r>>)
      PROVE  Follows(c)
    <2>1. <<r>> \in Seq(Requests) /\ \A j \in DOMAIN <<r>> : <<r>>[j].call # c
        BY <1>s
    <2> QED
        BY <1>s, <2>1, SendOther
<1>1. CASE NextMinute
    BY <1>1, <1>k, <1>q, SameWire DEF NextMinute
<1>2. ASSUME NEW d \in Devices, MoveShutter(d) PROVE ChoiceInv(c)'
    BY <1>2, <1>o, <1>q, SameWire DEF MoveShutter
<1>3. ASSUME NEW d \in Devices, ReplaceDevice(d) PROVE ChoiceInv(c)'
    <2>1. Wanted(c)' = Null
        BY <1>3 DEF ReplaceDevice, Wanted
    <2> QED
        BY <1>n, <2>1
<1>4. ASSUME NEW p \in Phones, BuildCard(p) \/ BuildSettings(p) PROVE ChoiceInv(c)'
    <2>1. PICK new \in LoadOrders : Send(p, new)
        BY <1>4, BuildSends
    <2>2. new \in Seq(Requests) /\ \A j \in DOMAIN new : new[j].call # c
        BY <1>c, LoadsType
    <2>3. UNCHANGED <<db, asked>>
        BY <1>4 DEF BuildCard, BuildSettings
    <2> QED
        BY <1>k, <1>q, <2>1, <2>2, <2>3, SendOther
<1>5. ASSUME NEW p \in Phones, CloseSettings(p) PROVE ChoiceInv(c)'
    BY <1>5, <1>k, <1>q, SameWire DEF CloseSettings
<1>6. ASSUME NEW p \in Phones, updateAutoPlayStatus(p) PROVE ChoiceInv(c)'
    <2> DEFINE r(b) == [Query("updateStatus") EXCEPT !.isEnabled = b]
    <2>1. PICK b \in BOOLEAN :
              /\ Send(p, <<r(b)>>) /\ UNCHANGED db
              /\ asked' = [asked EXCEPT !.status = Outcome(p, "updateStatus", b)]
        BY <1>6 DEF updateAutoPlayStatus
    <2>2. /\ r(b) \in Requests /\ r(b).call = "updateStatus" /\ r(b).at = 0
          /\ r(b).isEnabled = b
        BY QueryType DEF Calls, Query
    <2> HIDE DEF r
    <2>3. CASE c = "updateStatus"
        <3>1. Wanted(c)' = IF \E q \in Phones \ {p} : InFlight(q, c) THEN Null
                           ELSE Chosen(r(b), c)
            BY <2>1, <2>2, <2>3 DEF Wanted, Chosen, Outcome, TypeOK
        <3> QED
            BY <2>1, <2>2, <2>3, <3>1, NewChoice
    <2>4. CASE c = "updateTime"
        <3>1. Wanted(c)' = Wanted(c)
            BY <2>1, <2>4 DEF Wanted, TypeOK
        <3>2. Follows(c)
            BY <1>s, <2>1, <2>2, <2>4
        <3> QED
            BY <1>k, <2>1, <3>1, <3>2, FollowsChoice
    <2> QED
        BY <1>c, <2>3, <2>4
<1>7. ASSUME NEW p \in Phones, NEW m \in Minutes, updateAutoPlayTime(p, m)
      PROVE  ChoiceInv(c)'
    <2> DEFINE r(x) == [Query("updateTime") EXCEPT !.time = x]
    <2>1. PICK x \in Texts :
              /\ Send(p, <<r(x)>>) /\ UNCHANGED db
              /\ asked' = [asked EXCEPT !.time = Outcome(p, "updateTime", x), !.by = p]
        BY <1>7 DEF updateAutoPlayTime, Texts
    <2>2. /\ r(x) \in Requests /\ r(x).call = "updateTime" /\ r(x).at = 0
          /\ r(x).time = x
        BY QueryType DEF Calls, Query
    <2> HIDE DEF r
    <2>3. CASE c = "updateTime"
        <3>1. Wanted(c)' = IF \E q \in Phones \ {p} : InFlight(q, c) THEN Null
                           ELSE Chosen(r(x), c)
            BY <2>1, <2>2, <2>3 DEF Wanted, Chosen, Outcome, TypeOK
        <3> QED
            BY <2>1, <2>2, <2>3, <3>1, NewChoice
    <2>4. CASE c = "updateStatus"
        <3>1. Wanted(c)' = Wanted(c)
            BY <2>1, <2>4 DEF Wanted, TypeOK
        <3>2. Follows(c)
            BY <1>s, <2>1, <2>2, <2>4
        <3> QED
            BY <1>k, <2>1, <3>1, <3>2, FollowsChoice
    <2> QED
        BY <1>c, <2>3, <2>4
<1>8. ASSUME NEW p \in Phones, Tick(p) PROVE ChoiceInv(c)'
    <2>1. Query("tick") \in Requests /\ Query("tick").call # c
        BY <1>c, QueryType DEF Calls, Query
    <2> QED
        BY <1>8, <1>k, <1>q, <1>s, <2>1 DEF Tick
<1>9. ASSUME NEW p \in Phones, Restart(p) PROVE ChoiceInv(c)'
    <2>1. CASE InFlight(p, c)
        <3>1. Wanted(c)' = Null
            BY <1>9, <1>c, <2>1 DEF Restart, Wanted
        <3> QED
            BY <1>n, <3>1
    <2>2. CASE ~InFlight(p, c)
        <3>1. Wanted(c)' = Wanted(c)
            BY <1>9, <1>c, <2>2 DEF Restart, Wanted
        <3>2. Follows(c)
            BY <1>9, <2>2, RestartOther DEF Restart
        <3> QED
            BY <1>9, <1>k, <3>1, <3>2, FollowsChoice DEF Restart
    <2> QED
        BY <2>1, <2>2
<1>10. ASSUME NEW p \in Phones, StatusLoaded(p) \/ TimeLoaded(p) PROVE ChoiceInv(c)'
    <2>1. /\ wire[p] # <<>> /\ EndCall(p) /\ Head(wire[p]).call # c
          /\ UNCHANGED <<db, asked>>
        BY <1>10, <1>c DEF StatusLoaded, TimeLoaded, Served
    <2> QED
        BY <1>e, <1>k, <1>q, <2>1
<1>11. ASSUME NEW p \in Phones, ListRead(p) PROVE ChoiceInv(c)'
    <2>1. /\ wire[p] # <<>> /\ Head(wire[p]).at = 0 /\ Head(wire[p]).call \in Choices
          /\ GoOn(p, Devices) /\ UNCHANGED <<db, asked>>
        BY <1>11 DEF ListRead, Served, Choices
    <2>2. CASE Head(wire[p]).call # c
        BY <1>k, <1>q, <2>1, <2>2, AnswerOther
    <2>3. CASE Head(wire[p]).call = c
        <3>1. GoOn(p, {e \in Devices : Head(wire[p]).at < e})
            BY <2>1, LoopHead
        <3>2. \A d \in Devices : d # Head(wire[p]).at
            BY <2>1, AutoPlayAssumption DEF Devices
        <3>3. Wanted(c)' = Wanted(c)
            BY <2>1 DEF Wanted
        <3> QED
            BY <1>k, <2>1, <2>3, <3>1, <3>2, <3>3, ChoiceGoesOn
    <2> QED
        BY <2>2, <2>3
<1>12. ASSUME NEW p \in Phones, StatusStored(p) PROVE ChoiceInv(c)'
    <2> DEFINE h == Head(wire[p])
    <2>1. /\ wire[p] # <<>> /\ h.call = "updateStatus" /\ h.at # 0
          /\ GoOn(p, h.due) /\ UNCHANGED asked
          /\ db' = [db EXCEPT ![h.at].autoPlay = h.isEnabled]
        BY <1>12 DEF StatusStored, Served
    <2>2. Wanted(c)' = Wanted(c) /\ h.at \in Devices /\ h.due \in SUBSET Devices
        BY <2>1, HeadLemma, AutoPlayAssumption DEF Wanted, Devices
    <2>3. \A d \in Devices : /\ db'[d].autoPlay = IF d = h.at THEN h.isEnabled ELSE db[d].autoPlay
                             /\ db'[d].autoPlayTime = db[d].autoPlayTime
        BY <2>1, <2>2 DEF TypeOK
    <2>4. CASE c = "updateStatus"
        <3>1. \A d \in Devices : Kept(d, c)' = IF d = h.at THEN Chosen(h, c) ELSE Kept(d, c)
            BY <2>3, <2>4 DEF Kept, Chosen
        <3>2. GoOn(p, {e \in Devices : h.at < e})
            BY <2>1, LoopHead DEF Choices
        <3> QED
            BY <2>1, <2>2, <2>4, <3>1, <3>2, ChoiceGoesOn
    <2>5. CASE c = "updateTime"
        <3>1. \A d \in Devices : Kept(d, c)' = Kept(d, c)
            BY <2>3, <2>5 DEF Kept
        <3> QED
            BY <1>q, <2>1, <2>2, <2>5, <3>1, AnswerOther
    <2> QED
        BY <1>c, <2>4, <2>5
<1>13. ASSUME NEW p \in Phones, TimeStored(p) PROVE ChoiceInv(c)'
    <2> DEFINE h == Head(wire[p])
    <2>1. /\ wire[p] # <<>> /\ h.call = "updateTime" /\ h.at # 0
          /\ GoOn(p, h.due) /\ UNCHANGED asked
          /\ db' = [db EXCEPT ![h.at].autoPlayTime = h.time]
        BY <1>13 DEF TimeStored, Served
    <2>2. Wanted(c)' = Wanted(c) /\ h.at \in Devices /\ h.due \in SUBSET Devices
        BY <2>1, HeadLemma, AutoPlayAssumption DEF Wanted, Devices
    <2>3. \A d \in Devices : /\ db'[d].autoPlayTime = IF d = h.at THEN h.time ELSE db[d].autoPlayTime
                             /\ db'[d].autoPlay = db[d].autoPlay
        BY <2>1, <2>2 DEF TypeOK
    <2>4. CASE c = "updateTime"
        <3>1. \A d \in Devices : Kept(d, c)' = IF d = h.at THEN Chosen(h, c) ELSE Kept(d, c)
            BY <2>3, <2>4 DEF Kept, Chosen
        <3>2. GoOn(p, {e \in Devices : h.at < e})
            BY <2>1, LoopHead DEF Choices
        <3> QED
            BY <2>1, <2>2, <2>4, <3>1, <3>2, ChoiceGoesOn
    <2>5. CASE c = "updateStatus"
        <3>1. \A d \in Devices : Kept(d, c)' = Kept(d, c)
            BY <2>3, <2>5 DEF Kept
        <3> QED
            BY <1>q, <2>1, <2>2, <2>5, <3>1, AnswerOther
    <2> QED
        BY <1>c, <2>4, <2>5
<1>14. ASSUME NEW p \in Phones, TickRead(p) PROVE ChoiceInv(c)'
    <2>1. /\ wire[p] # <<>> /\ Head(wire[p]).call # c /\ UNCHANGED <<db, asked>>
          /\ GoOn(p, {d \in Devices : Due(d)}) /\ {d \in Devices : Due(d)} \in SUBSET Devices
        BY <1>14, <1>c DEF TickRead, Served
    <2> QED
        BY <1>k, <1>q, <2>1, AnswerOther
<1>15. ASSUME NEW p \in Phones, ShutterOpened(p) \/ OpenFails(p) PROVE ChoiceInv(c)'
    <2>1. /\ wire[p] # <<>> /\ Head(wire[p]).call # c /\ Head(wire[p]).at # 0
          /\ UNCHANGED asked /\ GoOn(p, Head(wire[p]).due)
          /\ UNCHANGED db \/ db' = [db EXCEPT ![Head(wire[p]).at].open = TRUE]
        BY <1>15, <1>c DEF ShutterOpened, OpenFails, Served
    <2>2. Head(wire[p]).at \in Devices /\ Head(wire[p]).due \in SUBSET Devices
        BY <2>1, HeadLemma, AutoPlayAssumption DEF Devices
    <2>3. \A d \in Devices : Kept(d, c)' = Kept(d, c)
        BY <1>k, <1>o, <2>1, <2>2
    <2> QED
        BY <1>q, <2>1, <2>2, <2>3, AnswerOther
<1>16. ASSUME NEW p \in Phones, CallFails(p) PROVE ChoiceInv(c)'
    <2>1. wire[p] # <<>> /\ EndCall(p) /\ Forget(p) /\ UNCHANGED db
        BY <1>16 DEF CallFails
    <2>2. Wanted(c)' = IF Head(wire[p]).call = c /\ IsLastChoice(p) THEN Null ELSE Wanted(c)
        BY <1>c, <2>1 DEF Forget, Wanted, TypeOK
    <2>3. CASE Head(wire[p]).call = c /\ IsLastChoice(p)
        BY <1>n, <2>2, <2>3
    <2>4. CASE ~(Head(wire[p]).call = c /\ IsLastChoice(p))
        <3>1. Follows(c)
            BY <1>e, <2>1, <2>4, FailsNotLast
        <3> QED
            BY <1>k, <2>1, <2>2, <2>4, <3>1, FollowsChoice
    <2> QED
        BY <2>3, <2>4
<1>17. CASE UNCHANGED vars
    BY <1>17, <1>k, <1>q, SameWire DEF vars
<1> QED
    BY <1>1, <1>2, <1>3, <1>4, <1>5, <1>6, <1>7, <1>8, <1>9, <1>10, <1>11, <1>12, <1>13,
       <1>14, <1>15, <1>16, <1>17
    DEF Next, UserStep, ServerStep

\* The time that was asked for is on its way from the phone that picked it.
PickedBy ==
    asked.time # Null => \A p \in Phones : InFlight(p, "updateTime") => p = asked.by

ChoicesInv ==
    /\ TypeOK /\ LoopShape
    /\ ChoiceInv("updateStatus") /\ ChoiceInv("updateTime")
    /\ PickedBy /\ TimeShown

\* A step that leaves the updates of the time where they are.
SameUpdates == \A q \in Phones : InFlight(q, "updateTime")' <=> InFlight(q, "updateTime")

\* The answer to a request of another kind, or a call sent, is such a step.
LEMMA FollowsUpdates == Follows("updateTime") => SameUpdates
BY DEF Follows, SameUpdates

\* Every step keeps the time field with the time that was picked last.
LEMMA StepTime == ChoicesInv /\ [Next]_vars => PickedBy' /\ TimeShown'
<1> SUFFICES ASSUME ChoicesInv, [Next]_vars PROVE PickedBy' /\ TimeShown'
    OBVIOUS
<1> USE DEF ChoicesInv
<1> DEFINE upd == "updateTime"
<1>n. ASSUME asked'.time = Null PROVE PickedBy' /\ TimeShown'
    BY <1>n DEF PickedBy, TimeShown
<1>q. ASSUME asked'.time = asked.time, asked'.by = asked.by, SameUpdates,
             \A q \in Phones : q = asked.by => shown'[q].time = shown[q].time
      PROVE  PickedBy' /\ TimeShown'
    <2>1. asked.by # Null => asked.by \in Phones
        BY DEF TypeOK
    <2>2. PickedBy'
        BY <1>q DEF PickedBy, SameUpdates
    <2>3. TimeShown'
        <3> SUFFICES ASSUME asked'.by # Null, asked'.time # Null, ~InFlight(asked.by, upd)'
                     PROVE  shown'[asked'.by].time = asked'.time
            BY DEF TimeShown
        <3>1. asked.by \in Phones /\ ~InFlight(asked.by, upd)
            <4>1. asked.by \in Phones
                BY <1>q, <2>1
            <4>2. ~InFlight(asked.by, upd)' <=> ~ \E i \in DOMAIN wire'[asked.by] :
                                                    wire'[asked.by][i].call = upd
                BY <1>q DEF InFlight
            <4> QED
                BY <4>1, <4>2, <1>q DEF SameUpdates, InFlight
        <3> QED
            BY <1>q, <3>1 DEF TimeShown
    <2> QED
        BY <2>2, <2>3
<1>e. ASSUME NEW p \in Phones, wire[p] # <<>>, EndCall(p), Head(wire[p]).call # upd
      PROVE  SameUpdates
    <2>1. GoOn(p, {}) /\ {} \in SUBSET Devices
        BY <1>e DEF GoOn
    <2> QED
        BY <1>e, <2>1, AnswerOther, FollowsUpdates
<1>g. ASSUME NEW p \in Phones, wire[p] # <<>>, Head(wire[p]).call # upd,
             NEW rest \in SUBSET Devices, GoOn(p, rest)
      PROVE  SameUpdates
    BY <1>g, AnswerOther, FollowsUpdates
<1>s. ASSUME NEW p \in Phones, NEW r \in Requests, r.call # upd, Send(p, <<r>>)
      PROVE  SameUpdates
    <2>1. <<r>> \in Seq(Requests) /\ \A j \in DOMAIN <<r>> : <<r>>[j].call # upd
        BY <1>s
    <2> QED
        BY <1>s, <2>1, SendOther, FollowsUpdates
<1>w. ASSUME UNCHANGED wire PROVE SameUpdates
    BY <1>w, SameWire, FollowsUpdates
<1>1. CASE NextMinute \/ (\E d \in Devices : MoveShutter(d))
    BY <1>1, <1>q, <1>w DEF NextMinute, MoveShutter
<1>2. ASSUME NEW d \in Devices, ReplaceDevice(d) PROVE PickedBy' /\ TimeShown'
    BY <1>2, <1>n DEF ReplaceDevice
<1>3. ASSUME NEW p \in Phones, BuildCard(p) \/ BuildSettings(p)
      PROVE  PickedBy' /\ TimeShown'
    <2>1. PICK new \in LoadOrders : Send(p, new)
        BY <1>3, BuildSends
    <2>2. new \in Seq(Requests) /\ \A j \in DOMAIN new : new[j].call # upd
        BY LoadsType
    <2>3. UNCHANGED <<shown, asked>>
        BY <1>3 DEF BuildCard, BuildSettings
    <2> QED
        BY <1>q, <2>1, <2>2, <2>3, SendOther, FollowsUpdates
<1>4. ASSUME NEW p \in Phones, CloseSettings(p) PROVE PickedBy' /\ TimeShown'
    BY <1>4, <1>q, <1>w DEF CloseSettings
<1>5. ASSUME NEW p \in Phones, updateAutoPlayStatus(p) PROVE PickedBy' /\ TimeShown'
    <2>1. PICK b \in BOOLEAN :
              /\ Send(p, <<[Query("updateStatus") EXCEPT !.isEnabled = b]>>)
              /\ shown' = [shown EXCEPT ![p].status = b]
              /\ asked' = [asked EXCEPT !.status = Outcome(p, "updateStatus", b)]
        BY <1>5 DEF updateAutoPlayStatus
    <2>2. /\ [Query("updateStatus") EXCEPT !.isEnabled = b] \in Requests
          /\ [Query("updateStatus") EXCEPT !.isEnabled = b].call # upd
        BY QueryType DEF Calls, Query
    <2>3. SameUpdates
        BY <1>s, <2>1, <2>2
    <2>4. asked'.time = asked.time /\ asked'.by = asked.by
        BY <2>1 DEF TypeOK
    <2>5. \A q \in Phones : shown'[q].time = shown[q].time
        BY <2>1 DEF TypeOK
    <2> QED
        BY <1>q, <2>3, <2>4, <2>5
<1>6. ASSUME NEW p \in Phones, NEW m \in Minutes, updateAutoPlayTime(p, m)
      PROVE  PickedBy' /\ TimeShown'
    <2> DEFINE r(x) == [Query("updateTime") EXCEPT !.time = x]
    <2>1. PICK x \in Texts :
              /\ Send(p, <<r(x)>>)
              /\ asked' = [asked EXCEPT !.time = Outcome(p, upd, x), !.by = p]
        BY <1>6 DEF updateAutoPlayTime, Texts
    <2>2. r(x) \in Requests /\ r(x).call = upd
        BY QueryType DEF Calls, Query
    <2> HIDE DEF r
    <2>3. asked'.by = p /\ asked'.time = Outcome(p, upd, x)
        BY <2>1 DEF TypeOK
    <2>4. /\ wire[p] \in Seq(Requests) /\ wire'[p] = wire[p] \o <<r(x)>>
          /\ \A q \in Phones : q # p => wire'[q] = wire[q]
        BY <2>1 DEF Send, TypeOK
    <2>5. InFlight(p, upd)'
        <3>1. Len(wire[p]) + 1 \in DOMAIN wire'[p] /\ wire'[p][Len(wire[p]) + 1] = r(x)
            BY <2>2, <2>4
        <3> QED
            BY <2>2, <3>1 DEF InFlight
    <2>6. \A q \in Phones : asked'.time # Null /\ InFlight(q, upd)' => q = p
        BY <2>3, <2>4 DEF InFlight, Outcome
    <2>7. PickedBy'
        BY <2>3, <2>6 DEF PickedBy
    <2>8. InFlight(asked.by, upd)'
        BY <2>3, <2>5 DEF InFlight
    <2> QED
        BY <2>7, <2>8 DEF TimeShown
<1>7. ASSUME NEW p \in Phones, Tick(p) PROVE PickedBy' /\ TimeShown'
    <2>1. Query("tick") \in Requests /\ Query("tick").call # upd
        BY QueryType DEF Calls, Query
    <2> QED
        BY <1>7, <1>q, <1>s, <2>1 DEF Tick
<1>8. ASSUME NEW p \in Phones, Restart(p) PROVE PickedBy' /\ TimeShown'
    <2>1. CASE InFlight(p, upd)
        <3>1. asked'.time = Null
            BY <1>8, <2>1 DEF Restart
        <3> QED
            BY <1>n, <3>1
    <2>2. CASE ~InFlight(p, upd)
        <3>1. asked'.time = asked.time /\ asked'.by = IF asked.by = p THEN Null ELSE asked.by
            BY <1>8, <2>2 DEF Restart
        <3>2. SameUpdates
            BY <1>8, <2>2, RestartOther, FollowsUpdates DEF Restart
        <3>3. \A q \in Phones : q # p => shown'[q].time = shown[q].time
            BY <1>8 DEF Restart, TypeOK
        <3>4. CASE asked.by # p
            BY <1>q, <3>1, <3>2, <3>3, <3>4
        <3>5. CASE asked.by = p
            <4>1. asked.time # Null => \A q \in Phones : ~InFlight(q, upd)'
                BY <2>2, <3>2, <3>5 DEF PickedBy, SameUpdates
            <4> QED
                BY <3>1, <3>5, <4>1 DEF PickedBy, TimeShown
        <3> QED
            BY <3>4, <3>5
    <2> QED
        BY <2>1, <2>2
<1>9. ASSUME NEW p \in Phones, StatusLoaded(p) PROVE PickedBy' /\ TimeShown'
    <2>1. wire[p] # <<>> /\ EndCall(p) /\ Head(wire[p]).call # upd /\ UNCHANGED asked
        BY <1>9 DEF StatusLoaded, Served
    <2>2. \A q \in Phones : shown'[q].time = shown[q].time
        BY <1>9 DEF StatusLoaded, TypeOK
    <2> QED
        BY <1>e, <1>q, <2>1, <2>2
<1>10. ASSUME NEW p \in Phones, TimeLoaded(p) PROVE PickedBy' /\ TimeShown'
    <2>1. /\ wire[p] # <<>> /\ EndCall(p) /\ Head(wire[p]).call # upd /\ UNCHANGED asked
          /\ shown' = [shown EXCEPT ![p].time = db[1].autoPlayTime]
        BY <1>10 DEF TimeLoaded, Served
    <2>2. SameUpdates
        BY <1>e, <2>1
    <2>3. /\ \A q \in Phones : q # p => shown'[q].time = shown[q].time
          /\ shown'[p].time = db[1].autoPlayTime
        BY <2>1 DEF TypeOK
    <2>4. CASE asked.by # p
        BY <1>q, <2>1, <2>2, <2>3, <2>4
    <2>5. CASE asked.by = p
        <3>1. PickedBy'
            BY <2>1, <2>2 DEF PickedBy, SameUpdates
        <3>2. ASSUME asked.time # Null, ~InFlight(p, upd) PROVE db[1].autoPlayTime = asked.time
            <4>1. \A q \in Phones : ~InFlight(q, upd)
                BY <2>5, <3>2 DEF PickedBy
            <4>2. Wanted(upd) = asked.time /\ Kept(1, upd) = db[1].autoPlayTime /\ 1 \in Devices
                BY AutoPlayAssumption DEF Wanted, Kept, Devices
            <4> QED
                BY <3>2, <4>1, <4>2 DEF ChoiceInv
        <3>3. TimeShown'
            BY <2>1, <2>2, <2>3, <2>5, <3>2 DEF TimeShown, SameUpdates
        <3> QED
            BY <3>1, <3>3
    <2> QED
        BY <2>4, <2>5
<1>11. ASSUME NEW p \in Phones, ListRead(p) PROVE PickedBy' /\ TimeShown'
    <2>1. /\ wire[p] # <<>> /\ GoOn(p, Devices) /\ UNCHANGED <<asked, shown>>
        BY <1>11 DEF ListRead, Served
    <2>2. CASE Head(wire[p]).call # upd
        BY <1>g, <1>q, <2>1, <2>2
    <2>3. CASE Head(wire[p]).call = upd
        <3>1. 1 \in Devices /\ Devices # {}
            BY AutoPlayAssumption DEF Devices
        <3>2. InFlight(p, upd) /\ InFlight(p, upd)'
            <4>1. 1 \in DOMAIN wire[p] /\ wire[p][1].call = upd
                BY <2>1, <2>3, HeadLemma
            <4>2. \E j \in DOMAIN wire'[p] : wire'[p][j].call = upd
                BY <2>1, <2>3, <3>1, GoOnLemma
            <4> QED
                BY <4>1, <4>2 DEF InFlight
        <3>3. \A q \in Phones : q # p => (InFlight(q, upd)' <=> InFlight(q, upd))
            BY <2>1, GoOnLemma DEF InFlight
        <3>4. SameUpdates
            BY <3>2, <3>3 DEF SameUpdates
        <3> QED
            BY <1>q, <2>1, <3>4
    <2> QED
        BY <2>2, <2>3
<1>12. ASSUME NEW p \in Phones, StatusStored(p) PROVE PickedBy' /\ TimeShown'
    <2>1. /\ wire[p] # <<>> /\ Head(wire[p]).call # upd /\ GoOn(p, Head(wire[p]).due)
          /\ UNCHANGED <<asked, shown>>
        BY <1>12 DEF StatusStored, Served
    <2> QED
        BY <1>g, <1>q, <2>1, HeadLemma
<1>13. ASSUME NEW p \in Phones, TimeStored(p) PROVE PickedBy' /\ TimeShown'
    <2> DEFINE h == Head(wire[p])
    <2>1. /\ wire[p] # <<>> /\ h.call = upd /\ GoOn(p, h.due) /\ UNCHANGED asked
          /\ shown' = [shown EXCEPT ![p].time = IF h.due = {} THEN h.time ELSE @]
        BY <1>13 DEF TimeStored, Served
    <2>2. /\ wire[p] \in Seq(Requests) /\ 1 \in DOMAIN wire[p] /\ wire[p][1] = h
          /\ h.due \in SUBSET Devices
        BY <2>1, HeadLemma
    <2>3. \A q \in Phones : q # p => wire'[q] = wire[q]
        BY <2>1, <2>2, GoOnLemma
    <2>4. Shifted(wire[p], wire'[p]) /\ (h.due # {} => InFlight(p, upd)')
        BY <2>1, <2>2, GoOnShape DEF Successor, InFlight
    <2>5. shown'[p].time = IF h.due = {} THEN h.time ELSE shown[p].time
        BY <2>1 DEF TypeOK
    <2>6. CASE asked.time = Null
        BY <1>n, <2>1, <2>6
    <2>7. CASE asked.time # Null
        <3>1. InFlight(p, upd) /\ p = asked.by
            BY <2>1, <2>2, <2>7 DEF InFlight, PickedBy
        <3>2. PickedBy'
            BY <2>1, <2>3, <2>7, <3>1 DEF PickedBy, InFlight
        <3>3. ASSUME ~InFlight(p, upd)' PROVE shown'[p].time = asked.time
            <4>1. \A j \in DOMAIN wire[p] : wire[p][j].call = upd => j = 1
                BY <2>4, <3>3 DEF InFlight, Shifted
            <4>2. Newest(wire[p], upd, 1)
                BY <2>1, <2>2, <4>1 DEF Newest
            <4>3. Wanted(upd) = asked.time /\ Chosen(wire[p][1], upd) = h.time
                BY <2>2 DEF Wanted, Chosen
            <4>4. h.time = asked.time
                BY <2>2, <2>7, <4>2, <4>3 DEF ChoiceInv
            <4> QED
                BY <2>4, <2>5, <3>3, <4>4
        <3>4. TimeShown'
            BY <2>1, <3>1, <3>3 DEF TimeShown
        <3> QED
            BY <3>2, <3>4
    <2> QED
        BY <2>6, <2>7
<1>14. ASSUME NEW p \in Phones, TickRead(p) PROVE PickedBy' /\ TimeShown'
    <2>1. /\ wire[p] # <<>> /\ Head(wire[p]).call # upd /\ UNCHANGED <<shown, asked>>
          /\ GoOn(p, {d \in Devices : Due(d)}) /\ {d \in Devices : Due(d)} \in SUBSET Devices
        BY <1>14 DEF TickRead, Served
    <2> QED
        BY <1>g, <1>q, <2>1
<1>15. ASSUME NEW p \in Phones, ShutterOpened(p) \/ OpenFails(p)
       PROVE  PickedBy' /\ TimeShown'
    <2>1. /\ wire[p] # <<>> /\ Head(wire[p]).call # upd /\ UNCHANGED <<asked, shown>>
          /\ GoOn(p, Head(wire[p]).due)
        BY <1>15 DEF ShutterOpened, OpenFails, Served
    <2> QED
        BY <1>g, <1>q, <2>1, HeadLemma
<1>16. ASSUME NEW p \in Phones, CallFails(p) PROVE PickedBy' /\ TimeShown'
    <2>1. wire[p] # <<>> /\ EndCall(p) /\ Forget(p) /\ UNCHANGED shown
        BY <1>16 DEF CallFails
    <2>2. /\ asked'.by = asked.by
          /\ asked'.time = IF Head(wire[p]).call = upd /\ IsLastChoice(p) THEN Null
                           ELSE asked.time
        BY <2>1 DEF Forget, TypeOK
    <2>3. CASE Head(wire[p]).call = upd /\ IsLastChoice(p)
        BY <1>n, <2>2, <2>3
    <2>4. CASE ~(Head(wire[p]).call = upd /\ IsLastChoice(p))
        <3>1. SameUpdates
            BY <1>e, <2>1, <2>4, FailsNotLast, FollowsUpdates
        <3> QED
            BY <1>q, <2>1, <2>2, <2>4, <3>1
    <2> QED
        BY <2>3, <2>4
<1>17. CASE UNCHANGED vars
    BY <1>17, <1>q, <1>w DEF vars
<1> QED
    BY <1>1, <1>2, <1>3, <1>4, <1>5, <1>6, <1>7, <1>8, <1>9, <1>10, <1>11, <1>12, <1>13,
       <1>14, <1>15, <1>16, <1>17
    DEF Next, UserStep, ServerStep

LEMMA InitChoices == Init => ChoicesInv
<1> SUFFICES ASSUME Init PROVE ChoicesInv
    OBVIOUS
<1>1. \A p \in Phones : wire[p] = <<>>
    BY DEF Init
<1>2. LoopShape
    BY <1>1 DEF LoopShape
<1>3. asked.status = Null /\ asked.time = Null
    BY DEF Init
<1>4. ChoiceInv("updateStatus") /\ ChoiceInv("updateTime")
    BY <1>3 DEF ChoiceInv, Wanted
<1> QED
    BY <1>2, <1>3, <1>4, InitType DEF ChoicesInv, PickedBy, TimeShown

LEMMA StepChoices == ChoicesInv /\ [Next]_vars => ChoicesInv'
<1> SUFFICES ASSUME ChoicesInv, [Next]_vars PROVE ChoicesInv'
    OBVIOUS
<1>1. TypeOK' /\ LoopShape'
    BY StepType, StepShape DEF ChoicesInv
<1>2. ChoiceInv("updateStatus")' /\ ChoiceInv("updateTime")'
    BY StepChoice DEF ChoicesInv, Choices
<1>3. PickedBy' /\ TimeShown'
    BY StepTime
<1> QED
    BY <1>1, <1>2, <1>3 DEF ChoicesInv

\* Of several flips of the switch and several times picked on one phone, the
\* last one wins on every device, for any number of phones, devices and
\* overlapping loops, also when an earlier loop ends half-way.
THEOREM AutoPlayLastChoiceWins == Spec => []LastChoiceWins
<1>1. ChoicesInv => LastChoiceWins
    BY DEF ChoicesInv, ChoiceInv, Wanted, Kept, LastChoiceWins
<1> QED
    BY InitChoices, StepChoices, <1>1, PTL DEF Spec

\* The time field shows the time that was picked last as soon as no update of
\* it is under way, for any number of phones, devices and overlapping calls.
THEOREM AutoPlayTimeShown == Spec => []TimeShown
<1>1. ChoicesInv => TimeShown
    BY DEF ChoicesInv
<1> QED
    BY InitChoices, StepChoices, <1>1, PTL DEF Spec

=============================================================================
