----------------------------- MODULE Navigation -----------------------------
(***************************************************************************)
(* The stack of routes of one phone: the pages, the drawer, the dialogs    *)
(* and the full-screen loader, and the calls in flight that push a page or *)
(* pop a route when they are answered.                                     *)
(*                                                                         *)
(* Nothing ties a pop to the route it is meant for.  stopLoading() and the *)
(* dialogs' Navigator.pop(context) take whatever is on top, and Get.to()   *)
(* pushes a page over whatever is on top, unless GetX believes that this   *)
(* page is the current one.                                                *)
(***************************************************************************)
EXTENDS Naturals, Sequences

CONSTANTS
    Calls,      \* slots for calls in flight
    Visits,     \* the pages a model lets the user open
    MaxDepth,   \* bound: routes on the stack when the user opens one more
    Null        \* no name

Pages == {"Splash", "Home", "Signin", "Signup", "Reset", "Sent", "DeviceForm",
          "Commands", "Settings", "Schedule", "ScheduleForm"}

\* The edit dialog of a card and its settings dialog are one here.
Popups == {"loader", "edit", "confirm", "signOut", "timePicker"}

\* An open drawer is no route but a local history entry of the dashboard, which
\* a pop takes before it takes the page.
Routes == Pages \cup Popups \cup {"drawer"}

ASSUME NullAssumption == Null \notin Routes \cup Calls
ASSUME CallsAssumption == Calls \cap Routes = {} /\ "Free" \notin Calls /\ "Lost" \notin Calls
ASSUME VisitsAssumption == Visits \subseteq Pages
ASSUME MaxDepthAssumption == MaxDepth \in Nat

VARIABLES
    nav,        \* the navigator's stack, and GetX's current and previous route
    call,       \* the calls in flight, and the place of the dialog they close
    signedIn,   \* whether FirebaseAuth has a current user
    timer,      \* the page the splash page will open
    stray       \* history: a pop has taken a route that was not its own, or a
                \* page was pushed over the loader

vars == <<nav, call, signedIn, timer, stray>>

-----------------------------------------------------------------------------
(* GetX and the navigator.                                                 *)

IsPage(r) == r \in Pages \cup {"drawer"}

\* What GetX calls a route: showDialog gives its routes no name, Get.dialog one
\* of their own.
Name(r) ==
    IF r = "drawer" THEN "Home"
    ELSE IF r = "signOut" THEN "DIALOG"
    ELSE IF r \in Popups THEN Null
    ELSE r

Names == Pages \cup {"DIALOG"}

Top(s) == s[Len(s)]

TopIs(s, r) == s # <<>> /\ Top(s) = r

\* push, and GetObserver.didPush: only a page changes the current route.
Push(n, r) ==
    [stack |-> Append(n.stack, r),
     current |-> IF IsPage(r) THEN Name(r) ELSE n.current,
     previous |-> IF n.stack # <<>> /\ Name(Top(n.stack)) # Null
                  THEN Name(Top(n.stack)) ELSE n.previous]

\* pop, and GetObserver.didPop: the page that appears is the current one, and
\* where a dialog appears the previous one is.  With no route left pop throws.
Pop(n) ==
    LET s == SubSeq(n.stack, 1, Len(n.stack) - 1)
    IN  IF n.stack = <<>> THEN n
        ELSE IF Top(n.stack) = "drawer" THEN [n EXCEPT !.stack = s]
        ELSE IF s # <<>> /\ IsPage(Top(s))
        THEN [stack |-> s, current |-> Name(Top(s)), previous |-> Name(Top(s))]
        ELSE [stack |-> s,
              current |-> IF n.previous = Null THEN n.current ELSE n.previous,
              previous |-> n.previous]

\* Get.to: preventDuplicates is on.
To(n, page) == IF n.current = page THEN n ELSE Push(n, page)

\* Get.offAll: the last route that is removed becomes the previous one.
OffAll(n, page) ==
    [stack |-> <<page>>, current |-> page, previous |-> Name(n.stack[1])]

-----------------------------------------------------------------------------

NoCall == [kind |-> "idle", at |-> 0]

\* The calls that show the loader (the eight bulk commands, saveShutterDevice,
\* userSignin, userSignUp, resetPassword): where they are started, and the page
\* they open when they succeed.
Loading == {"bulk", "save", "signin", "signup", "reset"}

Origins == [bulk |-> {"Commands", "drawer"}, save |-> {"DeviceForm"},
            signin |-> {"Signin"}, signup |-> {"Signup"}, reset |-> {"Reset"}]

Target == [bulk |-> "Home", save |-> "Home", signin |-> "Home",
           signup |-> "Signin", reset |-> "Sent"]

\* The pages a page leads to (drawer.dart, room_card.dart, schedule_screen.dart,
\* signin_form.dart, signup_screen.dart, email_send_confrimation.dart), and the
\* dialogs (room_card.dart, drawer.dart, time_input_field.dart).
Links(r) ==
    CASE r = "drawer" -> {"DeviceForm", "Commands", "Settings"}
      [] r = "Home" -> {"Schedule"}
      [] r = "Schedule" -> {"ScheduleForm"}
      [] r = "Signin" -> {"Reset"}
      [] r \in {"Signup", "Sent"} -> {"Signin"}
      [] OTHER -> {}

Dialogs(r) ==
    CASE r = "Home" -> {"edit", "confirm"}
      [] r = "drawer" -> {"signOut"}
      [] r = "Settings" -> {"timePicker"}
      [] OTHER -> {}

Splash == [stack |-> <<"Splash">>, current |-> "Splash", previous |-> Null]

Init ==
    /\ nav = Splash
    /\ call = [c \in Calls |-> NoCall]
    /\ signedIn \in BOOLEAN
    /\ timer = IF signedIn THEN "Home" ELSE "Signin"
    /\ stray = FALSE

TypeOK ==
    /\ nav \in [stack : Seq(Routes), current : Names, previous : Names \cup {Null}]
    /\ call \in [Calls -> [kind : {"idle", "remove", "logout", "update"} \cup Loading,
                           at : Nat]]
    /\ \A c \in Calls : call[c].at # 0 => /\ call[c].at \in 1..Len(nav.stack)
                                          /\ nav.stack[call[c].at] = "edit"
    /\ signedIn \in BOOLEAN
    /\ timer \in {"Home", "Signin", Null}
    /\ stray \in BOOLEAN

\* The calls once the stack has sunk to a depth: a dialog above it is on its
\* way out, and still mounted for the time of its animation.
Sunk(depth) ==
    [c \in Calls |-> IF call[c].at > depth THEN [call[c] EXCEPT !.at = 0] ELSE call[c]]

-----------------------------------------------------------------------------
(* What the user does.                                                     *)

\* The user sees route r.
Sees(r) == TopIs(nav.stack, r)

OpenPage ==
    /\ Len(nav.stack) < MaxDepth
    /\ \E r \in Routes : \E page \in Links(r) \cap Visits :
          Sees(r) /\ nav' = To(nav, page)
    /\ UNCHANGED <<call, signedIn, timer, stray>>

OpenDrawer ==
    /\ Len(nav.stack) < MaxDepth
    /\ Sees("Home")
    /\ nav' = [nav EXCEPT !.stack = Append(nav.stack, "drawer")]
    /\ UNCHANGED <<call, signedIn, timer, stray>>

OpenDialog ==
    /\ Len(nav.stack) < MaxDepth
    /\ \E r \in Routes : \E d \in Dialogs(r) : Sees(r) /\ nav' = Push(nav, d)
    /\ UNCHANGED <<call, signedIn, timer, stray>>

\* "Create new account": every route goes.
CreateAccount ==
    /\ "Signup" \in Visits
    /\ Sees("Signin")
    /\ nav' = OffAll(nav, "Signup")
    /\ call' = Sunk(0)
    /\ UNCHANGED <<signedIn, timer, stray>>

\* Mutant of Back: the loader has no PopScope.
BackDismisses ==
    /\ Len(nav.stack) > 1
    /\ nav' = Pop(nav)
    /\ call' = Sunk(Len(nav.stack) - 1)
    /\ UNCHANGED <<signedIn, timer, stray>>

\* The back button or arrow, a Cancel, a tap beside a dialog or the drawer; the
\* loader's PopScope and barrier refuse it, and the last page leaves the app.
\* (The Cancel that is a Get.back() takes a snackbar first, which is no step.)
Back ==
    /\ Len(nav.stack) > 1
    /\ ~Sees("loader")
    /\ nav' = Pop(nav)
    /\ call' = Sunk(Len(nav.stack) - 1)
    /\ UNCHANGED <<signedIn, timer, stray>>

Begin(c, kind, at) ==
    /\ call[c].kind = "idle"
    /\ call' = [call EXCEPT ![c] = [kind |-> kind, at |-> at]]

\* Mutant of Load: the loader is not opened.
LoadUnshown(c, kind) ==
    /\ \E r \in Origins[kind] : Sees(r)
    /\ Begin(c, kind, 0)
    /\ UNCHANGED <<nav, signedIn, timer, stray>>

\* A call that shows the loader is started.
Load(c, kind) ==
    /\ \E r \in Origins[kind] : Sees(r)
    /\ Begin(c, kind, 0)
    /\ nav' = Push(nav, "loader")
    /\ UNCHANGED <<signedIn, timer, stray>>

\* Delete of the confirmation closes it and sends the request.
ConfirmDelete(c) ==
    /\ Sees("confirm")
    /\ Begin(c, "remove", 0)
    /\ nav' = Pop(nav)
    /\ UNCHANGED <<signedIn, timer, stray>>

\* Signout leaves its dialog where it is.
SignOut(c) ==
    /\ Sees("signOut")
    /\ Begin(c, "logout", 0)
    /\ UNCHANGED <<nav, signedIn, timer, stray>>

\* Update of the edit dialog, Save of the settings dialog: the dialog waits for
\* the answer, and nothing disables its button.
UpdateDevice(c) ==
    /\ Sees("edit")
    /\ Begin(c, "update", Len(nav.stack))
    /\ UNCHANGED <<nav, signedIn, timer, stray>>

-----------------------------------------------------------------------------
(* What happens by itself.                                                 *)

\* The timer of the splash page opens the first page.
SplashDone ==
    /\ timer # Null
    /\ nav' = To(nav, timer)
    /\ timer' = Null
    /\ stray' = (stray \/ Sees("loader"))
    /\ UNCHANGED <<call, signedIn>>

\* Mutant of Fail: a return without stopLoading().
FailKeepsLoader(c) ==
    /\ call[c].kind \in Loading
    /\ call' = [call EXCEPT ![c] = NoCall]
    /\ UNCHANGED <<nav, signedIn, timer, stray>>

\* Mutant of Fail: stopLoading() before the return and in the catch.
FailPopsTwice(c) ==
    /\ call[c].kind \in Loading
    /\ nav' = Pop(Pop(nav))
    /\ call' = [Sunk(Len(nav.stack) - 2) EXCEPT ![c] = NoCall]
    /\ stray' = (stray \/ ~Sees("loader"))
    /\ UNCHANGED <<signedIn, timer>>

\* A call that shows the loader fails: stopLoading().
Fail(c) ==
    /\ call[c].kind \in Loading
    /\ nav' = Pop(nav)
    /\ call' = [Sunk(Len(nav.stack) - 1) EXCEPT ![c] = NoCall]
    /\ signedIn' \in IF call[c].kind = "signup" THEN {signedIn, TRUE} ELSE {signedIn}
    /\ stray' = (stray \/ ~Sees("loader"))
    /\ UNCHANGED timer

\* Mutant of Succeed: Get.to, then stopLoading().
SucceedSwapped(c) ==
    /\ call[c].kind \in Loading
    /\ nav' = IF nav.stack = <<>> THEN nav ELSE Pop(To(nav, Target[call[c].kind]))
    /\ call' = [Sunk(Len(nav.stack) - 1) EXCEPT ![c] = NoCall]
    /\ signedIn' = (signedIn \/ call[c].kind \in {"signin", "signup"})
    /\ stray' = (stray \/ ~Sees("loader"))
    /\ UNCHANGED timer

\* It succeeds: stopLoading(), then Get.to.
Succeed(c) ==
    /\ call[c].kind \in Loading
    /\ nav' = IF nav.stack = <<>> THEN nav ELSE To(Pop(nav), Target[call[c].kind])
    /\ call' = [Sunk(Len(nav.stack) - 1) EXCEPT ![c] = NoCall]
    /\ signedIn' = (signedIn \/ call[c].kind \in {"signin", "signup"})
    /\ stray' = (stray \/ ~Sees("loader"))
    /\ UNCHANGED timer

\* Mutant of Removed: Get.offAll, and the dialogs above are taken for mounted.
RemovedOffAll(c) ==
    /\ call[c].kind = "remove"
    /\ nav.stack # <<>>
    /\ nav' = OffAll(nav, "Home")
    /\ call' = [call EXCEPT ![c] = NoCall]
    /\ stray' = (stray \/ Sees("loader"))
    /\ UNCHANGED <<signedIn, timer>>

\* remove() is answered: the dashboard is opened.
Removed(c) ==
    /\ call[c].kind = "remove"
    /\ nav' = To(nav, "Home")
    /\ call' = [call EXCEPT ![c] = NoCall]
    /\ stray' = (stray \/ (Sees("loader") /\ nav' # nav))
    /\ UNCHANGED <<signedIn, timer>>

\* signOut() is answered: the sign-in page is opened.
LoggedOut(c) ==
    /\ call[c].kind = "logout"
    /\ nav' = To(nav, "Signin")
    /\ call' = [call EXCEPT ![c] = NoCall]
    /\ signedIn' = FALSE
    /\ stray' = (stray \/ (Sees("loader") /\ nav' # nav))
    /\ UNCHANGED timer

\* One of them throws: an error is shown.
Rejected(c) ==
    /\ call[c].kind \in {"remove", "logout"}
    /\ call' = [call EXCEPT ![c] = NoCall]
    /\ UNCHANGED <<nav, signedIn, timer, stray>>

\* The update is answered or has failed: Navigator.pop(context), with a dialog
\* that may be covered, or on its way out.
Updated(c) ==
    /\ call[c].kind = "update"
    /\ nav' = Pop(nav)
    /\ call' = [Sunk(Len(nav.stack) - 1) EXCEPT ![c] = NoCall]
    /\ stray' = (stray \/ call[c].at # Len(nav.stack) \/ nav.stack = <<>>)
    /\ UNCHANGED <<signedIn, timer>>

\* Its dialog is gone before the answer: pop will throw.
Unmounted(c) ==
    /\ call[c].kind = "update"
    /\ call[c].at = 0
    /\ call' = [call EXCEPT ![c] = NoCall]
    /\ UNCHANGED <<nav, signedIn, timer, stray>>

\* The app is killed and started again; what it had asked of FirebaseAuth may
\* have been done.
Restart ==
    /\ nav' = Splash
    /\ call' = [c \in Calls |-> NoCall]
    /\ signedIn' \in {signedIn}
          \cup {TRUE : c \in {d \in Calls : call[d].kind \in {"signin", "signup"}}}
          \cup {FALSE : c \in {d \in Calls : call[d].kind = "logout"}}
    /\ timer' = IF signedIn' THEN "Home" ELSE "Signin"
    /\ stray' = FALSE

Answer(c) ==
    \/ Fail(c)
    \/ Succeed(c)
    \/ Removed(c)
    \/ LoggedOut(c)
    \/ Rejected(c)
    \/ Updated(c)
    \/ Unmounted(c)

Next ==
    \/ OpenPage
    \/ OpenDrawer
    \/ OpenDialog
    \/ CreateAccount
    \/ Back
    \/ SplashDone
    \/ Restart
    \/ \E c \in Calls :
          \/ \E kind \in Loading : Load(c, kind)
          \/ ConfirmDelete(c)
          \/ SignOut(c)
          \/ UpdateDevice(c)
          \/ Answer(c)

Spec == Init /\ [][Next]_vars

\* Every request is answered, with success or an error.
FairSpec == Spec /\ \A c \in Calls : WF_vars(Answer(c))

-----------------------------------------------------------------------------

Holders == {c \in Calls : call[c].kind \in Loading}

\* As long as no route has gone astray, there is a loader exactly while some
\* call has one to close, that call is alone, the loader is the route its
\* stopLoading() will pop, and there is always a page below.
LoaderOnTop ==
    ~stray =>
        /\ nav.stack # <<>> /\ nav.stack[1] # "loader"
        /\ \A i \in DOMAIN nav.stack : nav.stack[i] = "loader" => i = Len(nav.stack)
        /\ Sees("loader") <=> Holders # {}
        /\ \A c, d \in Holders : c = d

\* The order of the routes is lost in three places only: where a deletion or a
\* sign-out opens its page while a loader is up, and where a dialog pops itself
\* after the answer to an update.
LostBy ==
    [][~stray /\ stray' =>
          \E c \in Calls : /\ call[c].kind \in {"remove", "logout", "update"}
                           /\ call'[c] = NoCall]_vars

\* "You can now manage your shutters": a call that succeeds ends on the page
\* it promises, whether GetX pushes it or takes it for the current one.
SuccessIsSeen ==
    [][\A c \in Calls :
          Succeed(c) /\ ~stray =>
              Name(Top(nav'.stack)) = Target[call[c].kind]]_vars

\* The loader does not stay: the screen is free again and again, unless the
\* order of the routes is lost.
ScreenFrees == []<>(stray \/ ~Sees("loader"))

\* The refinement: who has the screen, and what is below the loader.
Holder ==
    IF stray THEN "Lost"
    ELSE IF Holders = {} THEN "Free"
    ELSE CHOOSE c \in Holders : TRUE

Flow == INSTANCE PageFlow WITH
    Free <- "Free",
    Lost <- "Lost",
    holder <- Holder,
    pages <- IF stray THEN <<>>
             ELSE IF Sees("loader") THEN SubSeq(nav.stack, 1, Len(nav.stack) - 1)
             ELSE nav.stack

\* A call that shows the loader has the screen to itself, as PageFlow says.
FlowSpec == Flow!FlowSpec

=============================================================================
