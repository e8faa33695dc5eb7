--------------------------- MODULE ShutterDevices ---------------------------
(***************************************************************************)
(* The state every controller of the app shares: the device node of the    *)
(* database, and for each phone that runs the app the signed-in user, the  *)
(* connection, the requests in flight and the full-screen loader.          *)
(***************************************************************************)
EXTENDS DeviceRecords, Sequences

CONSTANTS
    Phones,     \* the phones that run the app
    Callers,    \* what a phone can have a request in flight for
    Flaky       \* those of them that may lose the connection in a model

ASSUME PhonesAssumption == Null \notin Phones /\ Flaky \subseteq Phones

VARIABLES
    db,         \* the node ShutterDevices on the server
    session,    \* FirebaseAuth.instance.currentUser?.uid of each phone
    online,     \* whether the phone reaches the server
    wire,       \* the callers whose requests the phone has sent, oldest first
    loader,     \* the calls that have put FullScreenLoader up and not yet called
                \* stopLoading(), and whether a page was pushed over it
    touched     \* history: the devices others have written since the phone's
                \* bulk command read its list (all of them when it runs none)

NoLoader == [calls |-> {}, over |-> FALSE]

sharedVars == <<db, session, online, wire, loader, touched>>

SharedInit ==
    /\ db \in [Devices -> {NoRecord} \cup {NewDevice(u) : u \in Users}]
    /\ session \in [Phones -> Users \cup {Null}]
    /\ online = [p \in Phones |-> TRUE]
    /\ wire = [p \in Phones |-> <<>>]
    /\ loader = [p \in Phones |-> NoLoader]
    /\ touched = [p \in Phones |-> Devices]

SharedTypeOK ==
    /\ db \in [Devices -> Records]
    /\ session \in [Phones -> Users \cup {Null}]
    /\ online \in [Phones -> BOOLEAN]
    /\ wire \in [Phones -> Seq(Callers)]
    /\ loader \in [Phones -> [calls : SUBSET Callers, over : BOOLEAN]]
    /\ touched \in [Phones -> SUBSET Devices]

\* The server stores record r at key k, for the bulk command of phone w or,
\* when w is Null, for anyone else.
Put(w, k, r) ==
    /\ db' = [db EXCEPT ![k] = r]
    /\ touched' = [p \in Phones |->
                      IF p = w THEN touched[p] ELSE touched[p] \cup {k}]

\* One connection carries the requests of a phone: the server handles them
\* in the order they were sent.
Send(p, c) == wire' = [wire EXCEPT ![p] = Append(wire[p], c)]

Served(p, c) == online[p] /\ wire[p] # <<>> /\ Head(wire[p]) = c

Receive(p) == wire' = [wire EXCEPT ![p] = Tail(wire[p])]

ReceiveAndSend(p, c) ==
    wire' = [wire EXCEPT ![p] = Append(Tail(wire[p]), c)]

openLoadingDialog(p, c) ==
    loader' = [loader EXCEPT ![p].calls = loader[p].calls \cup {c}]

stopLoading(p, c) ==
    LET rest == loader[p].calls \ {c}
    IN  loader' = [loader EXCEPT ![p] = [calls |-> rest,
                                         over |-> loader[p].over /\ rest # {}]]

\* Get.to under a loader that is up: GetX pushes the page over it, unless the
\* page below the loader is that page itself (Navigation says which).
PushPage(p) ==
    \E pushed \in BOOLEAN :
        loader' = [loader EXCEPT ![p].over =
                      loader[p].over \/ (pushed /\ loader[p].calls # {})]

\* The app is killed and started again: the session is on disk, the rest of
\* the phone's state is not, what was sent and not answered included.
SharedRestart(p) ==
    /\ loader' = [loader EXCEPT ![p] = NoLoader]
    /\ wire' = [wire EXCEPT ![p] = <<>>]
    /\ touched' = [touched EXCEPT ![p] = Devices]
    /\ UNCHANGED <<db, session, online>>

\* The connection drops or comes back.  RTDB holds a request back while the
\* phone is offline and reports no error for it.
Connection(p) ==
    /\ p \in Flaky
    /\ online' = [online EXCEPT ![p] = ~online[p]]
    /\ UNCHANGED <<db, session, wire, loader, touched>>

\* On a phone that stays connected no call keeps the loader forever: every
\* path of every call, its error paths too, reaches its stopLoading().
LoaderCloses ==
    \A p \in Phones, c \in Callers :
        <>[]online[p] => []<>(c \notin loader[p].calls)

=============================================================================
