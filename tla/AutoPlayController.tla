------------------------- MODULE AutoPlayController -------------------------
(***************************************************************************)
(* Auto play: the shutters of a user are opened every day at a time he has *)
(* picked, by the phones that run the app.                                 *)
(*                                                                         *)
(* Periodic timers ask the database once a minute which shutters are due,  *)
(* each of them for itself; a switch and a time field write the            *)
(* setting into every device.  Every call reads the list of devices first  *)
(* and then writes one device after the other, and nothing waits for a     *)
(* call to end before it starts the next: calls of one phone overlap, and  *)
(* their requests share its connection.                                    *)
(*                                                                         *)
(* The devices are those of one user, who stays signed in.                 *)
(***************************************************************************)
EXTENDS Integers, Sequences, FiniteSets

CONSTANTS
    Phones,
    TwentyFour,     \* the phones whose clock shows 24 hours
    DeviceCount,    \* the devices of the user, numbered in the order of the node
    MinuteCount,    \* the minutes of a day
    Null,           \* no value; also the empty autoPlayTime
    MaxCalls        \* bound: calls one phone has in flight when it starts more

ASSUME AutoPlayAssumption ==
    /\ TwentyFour \subseteq Phones
    /\ DeviceCount \in Nat \ {0}
    /\ MinuteCount \in Nat \ {0}

VARIABLES
    db,         \* the children of each device that auto play reads and writes
    minute,     \* the time of day
    wire,       \* for each phone the requests it has sent, oldest first; each
                \* call has one of them in flight, which holds its state
    shown,      \* isAutoPlayEnabled and autoPlayTime
    page,       \* where the user is; nowhere before the controller is created
    asked,      \* history: the last status and time chosen, Null when calls
                \* of two phones, an error or a kill leave the outcome open;
                \* and the phone that has chosen the time
    vouched     \* history: for a phone that has read the list of a tick in this
                \* minute the devices that no other call, no user and no error
                \* has got hold of since

vars == <<db, minute, wire, shown, page, asked, vouched>>

Devices == 1..DeviceCount

Minutes == 0..(MinuteCount - 1)

\* "2:30 PM", or "14:30" from a phone whose clock shows 24 hours.
Texts == [minute : Minutes, amPm : BOOLEAN]

\* The text of a stored time as HH:mm, if it can be parsed as h:mm a.
convertTo24HourFormat(t) == IF t # Null /\ t.amPm THEN t.minute ELSE Null

NewDevice == [autoPlay |-> FALSE, autoPlayTime |-> Null, open |-> FALSE]

NotLoaded == [status |-> FALSE, time |-> Null]

Calls == {"updateStatus", "updateTime", "loadStatus", "loadTime", "tick"}

\* at is 0 for the query of the list, or the device the update is for; due are
\* the devices the call has still to write after that.
Requests == [call : Calls, isEnabled : BOOLEAN, time : Texts \cup {Null},
             at : 0..DeviceCount, due : SUBSET Devices]

Query(call) ==
    [call |-> call, isEnabled |-> FALSE, time |-> Null, at |-> 0, due |-> {}]

TypeOK ==
    /\ db \in [Devices -> [autoPlay : BOOLEAN, autoPlayTime : Texts \cup {Null},
                           open : BOOLEAN]]
    /\ minute \in Minutes
    /\ wire \in [Phones -> Seq(Requests)]
    /\ shown \in [Phones -> [status : BOOLEAN, time : Texts \cup {Null}]]
    /\ page \in [Phones -> {"none", "home", "settings"}]
    /\ asked \in [status : BOOLEAN \cup {Null}, time : Texts \cup {Null},
                  by : Phones \cup {Null}]
    /\ vouched \in [Phones -> SUBSET Devices]

Init ==
    /\ db = [d \in Devices |-> NewDevice]
    /\ minute = 0
    /\ wire = [p \in Phones |-> <<>>]
    /\ shown = [p \in Phones |-> NotLoaded]
    /\ page = [p \in Phones |-> "none"]
    /\ asked = [status |-> Null, time |-> Null, by |-> Null]
    /\ vouched = [p \in Phones |-> {}]

-----------------------------------------------------------------------------
(* Requests and their answers.                                             *)

Room(p) == Len(wire[p]) < MaxCalls

Send(p, requests) == wire' = [wire EXCEPT ![p] = wire[p] \o requests]

Served(p, calls) == wire[p] # <<>> /\ Head(wire[p]).call \in calls

InFlight(p, call) == \E i \in DOMAIN wire[p] : wire[p][i].call = call

\* The oldest request is answered, and its call ends.
EndCall(p) == wire' = [wire EXCEPT ![p] = Tail(wire[p])]

\* The oldest request is answered, and its call writes the devices in rest,
\* in their order.
GoOn(p, rest) ==
    IF rest = {} THEN EndCall(p)
    ELSE LET d == CHOOSE d \in rest : \A e \in rest : d <= e
         IN  wire' = [wire EXCEPT ![p] =
                Append(Tail(wire[p]),
                       [Head(wire[p]) EXCEPT !.at = d, !.due = rest \ {d}])]

\* Device d is written, or could not be.
Touch(d) == vouched' = [p \in Phones |-> vouched[p] \ {d}]

-----------------------------------------------------------------------------
(* What the user and the clock do.                                         *)

\* The first card of the dashboard is built: onInit of the controller loads
\* the setting and starts a timer.  This and every later build of a card start
\* one more, so that a running phone has any number of them.
BuildCard(p) ==
    /\ page[p] = "none"
    /\ Room(p)
    /\ page' = [page EXCEPT ![p] = "home"]
    /\ Send(p, <<Query("loadStatus"), Query("loadTime")>>)
    /\ UNCHANGED <<db, minute, shown, asked, vouched>>

\* The page of the settings is built, or built again, whatever is in flight: its
\* time field and then its switch load the setting (bound: after the cards of
\* the dashboard).
BuildSettings(p) ==
    /\ page[p] # "none"
    /\ Room(p)
    /\ page' = [page EXCEPT ![p] = "settings"]
    /\ Send(p, <<Query("loadTime"), Query("loadStatus")>>)
    /\ UNCHANGED <<db, minute, shown, asked, vouched>>

CloseSettings(p) ==
    /\ page[p] = "settings"
    /\ page' = [page EXCEPT ![p] = "home"]
    /\ UNCHANGED <<db, minute, wire, shown, asked, vouched>>

\* What is left when the calls of phone p are the only ones of their kind.
Outcome(p, call, value) ==
    IF \E q \in Phones \ {p} : InFlight(q, call) THEN Null ELSE value

\* The switch, which a spinner replaces while its load is in flight.
updateAutoPlayStatus(p) ==
    LET isEnabled == ~shown[p].status
    IN  /\ page[p] = "settings"
        /\ ~InFlight(p, "loadStatus")
        /\ Room(p)
        /\ Send(p, <<[Query("updateStatus") EXCEPT !.isEnabled = isEnabled]>>)
        /\ shown' = [shown EXCEPT ![p].status = isEnabled]
        /\ asked' = [asked EXCEPT !.status = Outcome(p, "updateStatus", isEnabled)]
        /\ UNCHANGED <<db, minute, page, vouched>>

\* A time is picked; the phone's settings decide how it is written.
updateAutoPlayTime(p, m) ==
    LET time == [minute |-> m, amPm |-> p \notin TwentyFour]
    IN  /\ page[p] = "settings"
        /\ Room(p)
        /\ Send(p, <<[Query("updateTime") EXCEPT !.time = time]>>)
        /\ asked' = [asked EXCEPT !.time = Outcome(p, "updateTime", time), !.by = p]
        /\ UNCHANGED <<db, minute, shown, page, vouched>>

\* A timer fires: setupAutoPlayShutters asks for the list.
Tick(p) ==
    /\ page[p] # "none"
    /\ Room(p)
    /\ Send(p, <<Query("tick")>>)
    /\ UNCHANGED <<db, minute, shown, page, asked, vouched>>

\* A minute ends, with or without ticks of phones that were asleep.
NextMinute ==
    /\ minute' = (minute + 1) % MinuteCount
    /\ vouched' = [p \in Phones |-> {}]
    /\ UNCHANGED <<db, wire, shown, page, asked>>

\* A card, a dialog or a bulk command moves the shutter of device d.
MoveShutter(d) ==
    /\ db' = [db EXCEPT ![d].open = ~db[d].open]
    /\ Touch(d)
    /\ UNCHANGED <<minute, wire, shown, page, asked>>

\* Device d is saved anew.
ReplaceDevice(d) ==
    /\ db[d] # NewDevice
    /\ db' = [db EXCEPT ![d] = NewDevice]
    /\ asked' = [status |-> Null, time |-> Null, by |-> Null]
    /\ Touch(d)
    /\ UNCHANGED <<minute, wire, shown, page>>

-----------------------------------------------------------------------------
(* What the server answers.                                                *)

\* loadAutoPlayStatus: the switch shows the first device's.
StatusLoaded(p) ==
    /\ Served(p, {"loadStatus"})
    /\ EndCall(p)
    /\ shown' = [shown EXCEPT ![p].status = db[1].autoPlay]
    /\ UNCHANGED <<db, minute, page, asked, vouched>>

\* loadAutoPlayTime
TimeLoaded(p) ==
    /\ Served(p, {"loadTime"})
    /\ EndCall(p)
    /\ shown' = [shown EXCEPT ![p].time = db[1].autoPlayTime]
    /\ UNCHANGED <<db, minute, page, asked, vouched>>

\* Mutant of ListRead: the loop runs past the end of the list.
ListReadPastEnd(p) ==
    /\ Served(p, {"updateStatus", "updateTime"})
    /\ Head(wire[p]).at = 0
    /\ GoOn(p, 1..(DeviceCount + 1))
    /\ UNCHANGED <<db, minute, shown, page, asked, vouched>>

\* Mutant of ListRead: the loop stops before the last device.
ListReadButLast(p) ==
    /\ Served(p, {"updateStatus", "updateTime"})
    /\ Head(wire[p]).at = 0
    /\ GoOn(p, 1..(DeviceCount - 1))
    /\ UNCHANGED <<db, minute, shown, page, asked, vouched>>

\* The list of the devices to update is there.
ListRead(p) ==
    /\ Served(p, {"updateStatus", "updateTime"})
    /\ Head(wire[p]).at = 0
    /\ GoOn(p, Devices)
    /\ UNCHANGED <<db, minute, shown, page, asked, vouched>>

StatusStored(p) ==
    /\ Served(p, {"updateStatus"})
    /\ LET r == Head(wire[p])
       IN  /\ r.at # 0
           /\ db' = [db EXCEPT ![r.at].autoPlay = r.isEnabled]
           /\ Touch(r.at)
           /\ GoOn(p, r.due)
    /\ UNCHANGED <<minute, shown, page, asked>>

\* Mutant of TimeStored: the time is not shown when the last update is stored.
TimeStoredUnshown(p) ==
    /\ Served(p, {"updateTime"})
    /\ LET r == Head(wire[p])
       IN  /\ r.at # 0
           /\ db' = [db EXCEPT ![r.at].autoPlayTime = r.time]
           /\ Touch(r.at)
           /\ GoOn(p, r.due)
    /\ UNCHANGED <<minute, shown, page, asked>>

\* After the last device the time is shown.
TimeStored(p) ==
    /\ Served(p, {"updateTime"})
    /\ LET r == Head(wire[p])
       IN  /\ r.at # 0
           /\ db' = [db EXCEPT ![r.at].autoPlayTime = r.time]
           /\ Touch(r.at)
           /\ GoOn(p, r.due)
           /\ shown' = [shown EXCEPT ![p].time = IF r.due = {} THEN r.time ELSE @]
    /\ UNCHANGED <<minute, page, asked>>

Due(d) == db[d].autoPlay /\ convertTo24HourFormat(db[d].autoPlayTime) = minute

\* The list of a tick is there, and only now is the time of day looked at.
TickRead(p) ==
    /\ Served(p, {"tick"})
    /\ Head(wire[p]).at = 0
    /\ GoOn(p, {d \in Devices : Due(d)})
    /\ vouched' = [vouched EXCEPT ![p] = Devices]
    /\ UNCHANGED <<db, minute, shown, page, asked>>

\* A due shutter is opened, whatever has become of its setting meanwhile.
ShutterOpened(p) ==
    /\ Served(p, {"tick"})
    /\ LET r == Head(wire[p])
       IN  /\ r.at # 0
           /\ db' = [db EXCEPT ![r.at].open = TRUE]
           /\ GoOn(p, r.due)
    /\ UNCHANGED <<minute, shown, page, asked, vouched>>

\* Mutant of OpenFails: the catch is outside the loop.
OpenFailsEnds(p) ==
    /\ Served(p, {"tick"})
    /\ Head(wire[p]).at # 0
    /\ EndCall(p)
    /\ Touch(Head(wire[p]).at)
    /\ UNCHANGED <<db, minute, shown, page, asked>>

\* The update of a tick is rejected: the loop catches the error and goes on.
OpenFails(p) ==
    /\ Served(p, {"tick"})
    /\ LET r == Head(wire[p])
       IN  /\ r.at # 0
           /\ GoOn(p, r.due)
           /\ Touch(r.at)
    /\ UNCHANGED <<db, minute, shown, page, asked>>

\* The oldest request is of the last call of its kind: all others are further
\* along the list.
IsLastChoice(p) ==
    \A i \in DOMAIN wire[p] :
        i # 1 /\ wire[p][i].call = Head(wire[p]).call => Head(wire[p]).at < wire[p][i].at

\* What the oldest call asked for is left open, unless a later one replaces it.
Forget(p) ==
    asked' = [asked EXCEPT
        !.status = IF Head(wire[p]).call = "updateStatus" /\ IsLastChoice(p) THEN Null ELSE @,
        !.time = IF Head(wire[p]).call = "updateTime" /\ IsLastChoice(p) THEN Null ELSE @]

\* Any other request is rejected, and ends its call.
CallFails(p) ==
    /\ wire[p] # <<>>
    /\ Head(wire[p]).call = "tick" => Head(wire[p]).at = 0
    /\ EndCall(p)
    /\ Forget(p)
    /\ UNCHANGED <<db, minute, shown, page, vouched>>

\* The app is killed.
Restart(p) ==
    /\ wire' = [wire EXCEPT ![p] = <<>>]
    /\ shown' = [shown EXCEPT ![p] = NotLoaded]
    /\ page' = [page EXCEPT ![p] = "none"]
    /\ asked' = [status |-> IF InFlight(p, "updateStatus") THEN Null ELSE asked.status,
                 time |-> IF InFlight(p, "updateTime") THEN Null ELSE asked.time,
                 by |-> IF asked.by = p THEN Null ELSE asked.by]
    /\ vouched' = [vouched EXCEPT ![p] = {}]
    /\ UNCHANGED <<db, minute>>

UserStep(p) ==
    \/ BuildCard(p)
    \/ BuildSettings(p)
    \/ CloseSettings(p)
    \/ updateAutoPlayStatus(p)
    \/ \E m \in Minutes : updateAutoPlayTime(p, m)
    \/ Tick(p)
    \/ Restart(p)

ServerStep(p) ==
    \/ StatusLoaded(p)
    \/ TimeLoaded(p)
    \/ ListRead(p)
    \/ StatusStored(p)
    \/ TimeStored(p)
    \/ TickRead(p)
    \/ ShutterOpened(p)
    \/ OpenFails(p)
    \/ CallFails(p)

Next ==
    \/ NextMinute
    \/ \E d \in Devices : MoveShutter(d) \/ ReplaceDevice(d)
    \/ \E p \in Phones : UserStep(p) \/ ServerStep(p)

Spec == Init /\ [][Next]_vars

-----------------------------------------------------------------------------

\* Phone p is on its way to open device d for a tick.
OnItsWay(p, d) ==
    \E i \in DOMAIN wire[p] :
        /\ wire[p][i].call = "tick" /\ wire[p][i].at # 0
        /\ wire[p][i].at = d \/ d \in wire[p][i].due

\* A tick that has its list within the minute forgets no shutter: every one
\* that is due in this minute is open or will be tried, however many updates
\* of the same tick were rejected and whatever other calls run, unless someone
\* else got hold of the device since the list was read.
DueOpened ==
    \A p \in Phones : \A d \in vouched[p] :
        Due(d) => db[d].open \/ OnItsWay(p, d)

\* Of several flips of the switch and several times picked on one phone, whose
\* loops overlap, the last one wins on every device, also when an update of an
\* earlier one is rejected and ends its loop half-way.
LastChoiceWins ==
    /\ asked.status # Null /\ (\A p \in Phones : ~InFlight(p, "updateStatus")) =>
          \A d \in Devices : db[d].autoPlay = asked.status
    /\ asked.time # Null /\ (\A p \in Phones : ~InFlight(p, "updateTime")) =>
          \A d \in Devices : db[d].autoPlayTime = asked.time

\* Once the updates of the phone that picked last are over, its time field shows
\* the time it picked, although loads that were sent before are answered between
\* and after them.
TimeShown ==
    asked.by # Null /\ asked.time # Null =>
        \/ InFlight(asked.by, "updateTime")
        \/ shown[asked.by].time = asked.time

=============================================================================
