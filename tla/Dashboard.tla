----------------------------- MODULE Dashboard -----------------------------
(***************************************************************************)
(* The app on several phones: the dashboard of DeviceController and the    *)
(* bulk commands of CommandsController over one database, one session and  *)
(* one loader per phone.                                                   *)
(***************************************************************************)
EXTENDS CommandsController, DeviceController, FiniteSetsExt

ASSUME CallersAssumption == Callers = {"bulk"} \cup Tasks

VARIABLES
    heard,      \* the node as the server has last told it to each phone
    news        \* whether the phone's listener is owed an onValue event

sdkVars == <<heard, news>>

vars == <<sharedVars, commandVars, deviceVars, sdkVars>>

Init ==
    /\ SharedInit
    /\ CommandsInit
    /\ DevicesInit
    /\ heard = [p \in Phones |-> db]
    /\ news = [p \in Phones |-> TRUE]

EventsTypeOK ==
    /\ heard \in [Phones -> [Devices -> Records]]
    /\ news \in [Phones -> BOOLEAN]

TypeOK == SharedTypeOK /\ CommandsTypeOK /\ DevicesTypeOK /\ EventsTypeOK

-----------------------------------------------------------------------------
(* What a phone sees: the SDK applies a write to its copy of the node when *)
(* it is sent, connected or not, and raises onValue for that too.          *)

\* Whether the request of call c of phone p writes at key k: the bulk command's
\* is its query, or the update of the first device it has not done.
WritesAt(p, c, k) ==
    IF c = "bulk" THEN k \in cmd[p].todo /\ \A l \in cmd[p].todo : k <= l
    ELSE task[c].key = k /\ task[c].pc # "toggleRead"

\* The children it writes: set() and remove() replace them all.
Children(p, c) ==
    CASE c = "bulk" -> cmd[p].patch
      [] c # "bulk" /\ task[c].pc = "set" -> NewDevice(task[c].owner)
      [] c # "bulk" /\ task[c].pc = "remove" -> NoRecord
      [] OTHER -> task[c].patch

\* The unanswered writes of phone p at key k.
Unanswered(p, k) == {i \in DOMAIN wire[p] : WritesAt(p, wire[p][i], k)}

\* The node as phone p was told it, with the phone's own unanswered writes on
\* top: the record it has set or removed last, or child by child what it has
\* written last.
View(p) ==
    [k \in Devices |->
        LET own == Unanswered(p, k)
            last == Children(p, wire[p][Max(own)])
            at(f) == {i \in own : f \in DOMAIN Children(p, wire[p][i])}
        IN  IF own = {} THEN heard[p][k]
            ELSE IF DOMAIN last = Fields THEN last
            ELSE [f \in Fields |->
                     IF at(f) = {} THEN heard[p][k][f]
                     ELSE Children(p, wire[p][Max(at(f))])[f]]]

\* A phone that is connected is told every change, one that is started again
\* (new) has been told nothing before; a listener is owed an event when it is
\* new, or to come, and when the view has changed, be it by a write of its own
\* that was sent or rejected.
Events(new) ==
    /\ heard' = [p \in Phones |->
                    IF online'[p] THEN db'
                    ELSE IF p \in new THEN [k \in Devices |-> NoRecord] ELSE heard[p]]
    /\ news' = [p \in Phones |->
                   \/ news[p]
                   \/ p \in new
                   \/ ~listening'[p]
                   \/ View(p)' # View(p)]

\* Mutant of Deliver: the list is not cleared before it is rebuilt.
DeliverUncleared(p) ==
    /\ listening[p]
    /\ news[p]
    /\ devices' = [devices EXCEPT ![p] =
           LET shown == Listed(View(p), session[p])
           IN  [k \in DOMAIN devices[p] \cup DOMAIN shown |->
                   IF k \in DOMAIN shown THEN shown[k] ELSE devices[p][k]]]
    /\ news' = [news EXCEPT ![p] = FALSE]
    /\ UNCHANGED <<sharedVars, commandVars, listening, user, task, heard>>

\* onValue with the view of the moment: the listener clears the list and
\* rebuilds it for the user of the moment.
Deliver(p) ==
    /\ listening[p]
    /\ news[p]
    /\ devices' = [devices EXCEPT ![p] = Listed(View(p), session[p])]
    /\ news' = [news EXCEPT ![p] = FALSE]
    /\ UNCHANGED <<sharedVars, commandVars, listening, user, task, heard>>

-----------------------------------------------------------------------------
(* The app.                                                                *)

\* A bulk command, from the page or the drawer above the dashboard; the one
\* that succeeds opens the dashboard again.
Bulk(p) ==
    \/ /\ \/ listening[p] /\ Free(p) /\ \E patch \in Buttons : Start(p, patch)
          \/ Found(p)
          \/ NotFound(p)
          \/ UpdateNext(p)
          \/ Fail(p)
       /\ UNCHANGED deviceVars
    \/ /\ Finish(p)
       /\ OpenHome(p)
       /\ UNCHANGED <<devices, user, task>>

Restart(p) == SharedRestart(p) /\ CommandsRestart(p) /\ DevicesRestart(p)

\* Everything but a change of user.
SameUserNext ==
    \/ \E p \in Phones :
          \/ Bulk(p) /\ Events({})
          \/ Restart(p) /\ Events({p})
          \/ Connection(p) /\ UNCHANGED <<commandVars, deviceVars>> /\ Events({})
          \/ PhoneStep(p) /\ UNCHANGED commandVars /\ Events({})
          \/ Deliver(p)
    \/ \E t \in Tasks : TaskStep(t) /\ UNCHANGED commandVars /\ Events({})

Next ==
    \/ SameUserNext
    \/ \E p \in Phones : SessionStep(p) /\ UNCHANGED commandVars /\ Events({})

Spec == Init /\ [][Next]_vars

\* The server answers the calls of the cards and dialogs of a phone that stays
\* connected.
AnswerFairness ==
    \A t \in Tasks : WF_vars(Answer(t) /\ UNCHANGED commandVars /\ Events({}))

\* It answers the bulk commands too, and the event loop delivers what it has;
\* users owe nothing.
Fairness ==
    /\ \A p \in Phones :
          /\ WF_vars(/\ Found(p) \/ NotFound(p) \/ UpdateNext(p)
                     /\ UNCHANGED deviceVars
                     /\ Events({}))
          /\ WF_vars(Finish(p) /\ Bulk(p) /\ Events({}))
          /\ WF_vars(Deliver(p))
    /\ AnswerFairness

FairSpec == Spec /\ Fairness

SameUserSpec == Init /\ [][SameUserNext]_vars

SameUserFairSpec == SameUserSpec /\ Fairness

SameUserAnsweredSpec == SameUserSpec /\ AnswerFairness

Store == INSTANCE DeviceStore WITH db <- db

StoreSpec == Store!StoreSpec

-----------------------------------------------------------------------------

\* Every record that has an owner has all its children, so the casts
\* `as bool` and `as String` of setupAutoPlayShutters do not throw.
OwnedComplete == Store!OwnedComplete

\* The calls of phone p between their openLoadingDialog and stopLoading.
Holders(p) ==
    {c \in {"bulk"} : cmd[p].pc # "idle"}
        \cup {t \in Tasks : task[t].pc = "set" /\ task[t].phone = p}

\* The loader belongs to the calls that put it up and are not over, and to at
\* most one of them, so that stopLoading() has one dialog to pop; two calls
\* share it only where a deletion or a sign-out was answered under it and has
\* pushed a page on top.
LoaderHasOneHolder ==
    \A p \in Phones :
        /\ loader[p].calls = Holders(p)
        /\ loader[p].over \/ \A c, d \in Holders(p) : c = d

\* The calls of phone p that wait for an answer of the server.
Waiting(p) ==
    {c \in {"bulk"} : cmd[p].pc = "get" \/ (cmd[p].pc = "update" /\ cmd[p].todo # {})}
        \cup {t \in Tasks : task[t].pc \in Requests /\ task[t].phone = p}

\* Every call that waits has its one request on the wire, and every request
\* there has its call: no await is left without an answer to come, and no
\* answer comes to a call that is over, whatever loops end early, are rejected
\* or killed.  A connected phone is then never stuck behind its own calls.
EachCallHasItsRequest ==
    \A p \in Phones :
        /\ {wire[p][i] : i \in DOMAIN wire[p]} = Waiting(p)
        /\ \A i, j \in DOMAIN wire[p] : wire[p][i] = wire[p][j] => i = j

\* A connected phone that is owed no event shows every device it is not writing
\* itself as it is stored now, and no device that is gone: without a change of
\* user no write, by whichever phone, accepted or rejected, sent while offline
\* or lost in a kill, and no dashboard that is closed and opened again, leaves
\* an old card that nothing corrects.
SettledCardsAreStored ==
    \A p \in Phones, k \in Devices :
        /\ listening[p]
        /\ online[p]
        /\ ~news[p]
        /\ Unanswered(p, k) = {}
        => /\ k \in DOMAIN devices[p] <=> k \in Query(db, session[p])
           /\ k \in DOMAIN devices[p] => devices[p][k] = db[k]

\* The list a phone shows is eventually the user's devices as they are stored,
\* once nobody writes any more, the phone sends nothing more and stays connected
\* and running: no event that matters is lost between writes, rejections,
\* listeners and restarts.
DashboardConverges ==
    \A p \in Phones :
        /\ <>[][UNCHANGED <<db, session, wire[p]>> /\ ~Restart(p)]_vars
        /\ <>[](online[p] /\ listening[p])
        => <>[](devices[p] = Listed(db, session[p]))

\* fetchDeviceData ends the loading state of the settings dialog, unless the
\* record it asks for is missing when it asks.
FormLoads ==
    \A t \in Tasks, p \in Phones :
        <>[]online[p] =>
            [](task[t].pc = "loading" /\ task[t].phone = p =>
                  <>(\/ task[t].pc \notin {"loading", "missing"}
                     \/ db[task[t].key] = NoRecord))

-----------------------------------------------------------------------------
(* What the app tells its users and does not keep.                         *)

\* "This action cannot be undone": a deleted device comes back only when it
\* is saved again, never as the remains of some update.
DeletedStaysDeleted ==
    [][\A k \in Devices :
          db[k] = NoRecord /\ db'[k] # NoRecord => db'[k]["userId"] # Null]_vars

\* "Device added successfully! You can now manage your shutters.": a saved
\* device is one of the devices of the user who is signed in.
SavedIsMine ==
    [][\A t \in Tasks :
          SetDevice(t) =>
              task[t].key \in Query(db', session[task[t].phone])]_vars

=============================================================================
