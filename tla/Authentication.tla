--------------------------- MODULE Authentication ---------------------------
(***************************************************************************)
(* Sign-up, sign-in, password reset and sign-out.  A user is known twice:  *)
(* to Firebase Authentication as an account, and under users/ in the       *)
(* database as a profile that repeats the password.  Sign-up creates the   *)
(* two one after the other; sign-in and reset consult the profile first    *)
(* and the account second; the link a reset mails out changes the account  *)
(* alone.                                                                  *)
(*                                                                         *)
(* An e-mail address stands for its account's uid.  A page whose call is   *)
(* in flight is covered by the loader, so a phone has at most one call.    *)
(***************************************************************************)
EXTENDS Integers

CONSTANTS Phones, Emails, Passwords, Null

ASSUME NullAssumption == Null \notin Emails \cup Passwords

VARIABLES
    account,    \* Firebase Authentication: the password of each address
    profile,    \* users/<uid>: the password child
    mailed,     \* addresses with an unused reset link in their mail box
    changed,    \* history: addresses whose owner has used such a link
    session,    \* the signed-in address of each phone
    call        \* the page's call in flight

vars == <<account, profile, mailed, changed, session, call>>

NoCall == [pc |-> "idle", email |-> Null, password |-> Null]

Calls ==
    [pc : {"idle", "create", "store", "signinUsers", "login",
           "resetUsers", "send"},
     email : Emails \cup {Null}, password : Passwords \cup {Null}]

TypeOK ==
    /\ account \in [Emails -> Passwords \cup {Null}]
    /\ profile \in [Emails -> Passwords \cup {Null}]
    /\ mailed \subseteq Emails
    /\ changed \subseteq Emails
    /\ session \in [Phones -> Emails \cup {Null}]
    /\ call \in [Phones -> Calls]
    /\ \A p \in Phones : call[p].pc # "idle" => call[p].email \in Emails

Init ==
    /\ account = [e \in Emails |-> Null]
    /\ profile = [e \in Emails |-> Null]
    /\ mailed = {}
    /\ changed = {}
    /\ session = [p \in Phones |-> Null]
    /\ call = [p \in Phones |-> NoCall]

-----------------------------------------------------------------------------

Begin(p, pc, e, w) ==
    /\ call[p].pc = "idle"
    /\ call' = [call EXCEPT ![p] = [pc |-> pc, email |-> e, password |-> w]]
    /\ UNCHANGED <<account, profile, mailed, changed, session>>

Continue(p, pc) == call' = [call EXCEPT ![p].pc = pc]

\* stopLoading(), and a snackbar or page that says how the call ended.
End(p) == call' = [call EXCEPT ![p] = NoCall]

\* Mutant of ResetTap: the field is cleared before it is read.
ResetTapCleared(p, e) == Begin(p, "resetUsers", Null, Null)

\* The forms, validated.
SignUpTap(p, e, w) == Begin(p, "create", e, w)
SignInTap(p, e, w) == Begin(p, "signinUsers", e, w)
ResetTap(p, e) == Begin(p, "resetUsers", e, Null)

\* createUserWithEmailAndPassword also signs the phone in.
CreateAccount(p) ==
    LET e == call[p].email
    IN  /\ call[p].pc = "create"
        /\ account[e] = Null
        /\ account' = [account EXCEPT ![e] = call[p].password]
        /\ session' = [session EXCEPT ![p] = e]
        /\ Continue(p, "store")
        /\ UNCHANGED <<profile, mailed, changed>>

\* Mutant of AccountTaken: the sign-up goes on with the account that is there.
AccountTakenIgnored(p) ==
    /\ call[p].pc = "create"
    /\ account[call[p].email] # Null
    /\ Continue(p, "store")
    /\ UNCHANGED <<account, profile, mailed, changed, session>>

\* email-already-in-use.
AccountTaken(p) ==
    /\ call[p].pc = "create"
    /\ account[call[p].email] # Null
    /\ End(p)
    /\ UNCHANGED <<account, profile, mailed, changed, session>>

\* Mutant of StoreProfile: the password field is read again after the await.
StoreProfileReread(p) ==
    /\ call[p].pc = "store"
    /\ \E w \in Passwords : profile' = [profile EXCEPT ![call[p].email] = w]
    /\ End(p)
    /\ UNCHANGED <<account, mailed, changed, session>>

\* The profile is stored and the sign-in page opened.
StoreProfile(p) ==
    /\ call[p].pc = "store"
    /\ profile' = [profile EXCEPT ![call[p].email] = call[p].password]
    /\ End(p)
    /\ UNCHANGED <<account, mailed, changed, session>>

\* What userSignin finds when it looks for the address in the users node; a
\* missing node throws in the cast to Map.
SignInVerdict(p) ==
    LET e == call[p].email
    IN  IF \A f \in Emails : profile[f] = Null THEN "error"
        ELSE IF profile[e] = Null THEN "notSignedUp"
        ELSE IF profile[e] # call[p].password THEN "incorrectPassword"
        ELSE "found"

SignInUsers(p) ==
    /\ call[p].pc = "signinUsers"
    /\ IF SignInVerdict(p) = "found" THEN Continue(p, "login") ELSE End(p)
    /\ UNCHANGED <<account, profile, mailed, changed, session>>

\* signInWithEmailAndPassword.
Login(p) ==
    /\ call[p].pc = "login"
    /\ IF account[call[p].email] = call[p].password
       THEN /\ session' = [session EXCEPT ![p] = call[p].email]
            /\ End(p)
       ELSE /\ End(p)
            /\ UNCHANGED session
    /\ UNCHANGED <<account, profile, mailed, changed>>

\* Mutant of ResetUsers: an unknown address leaves the loader up.
ResetUsersStuck(p) ==
    /\ call[p].pc = "resetUsers"
    /\ profile[call[p].email] # Null
    /\ Continue(p, "send")
    /\ UNCHANGED <<account, profile, mailed, changed, session>>

\* resetPassword looks for the address in the users node, and gives up when
\* it, or the whole node, is missing.
ResetUsers(p) ==
    /\ call[p].pc = "resetUsers"
    /\ IF profile[call[p].email] # Null THEN Continue(p, "send") ELSE End(p)
    /\ UNCHANGED <<account, profile, mailed, changed, session>>

\* sendPasswordResetEmail.
SendMail(p) ==
    /\ call[p].pc = "send"
    /\ mailed' = mailed \cup {call[p].email}
    /\ End(p)
    /\ UNCHANGED <<account, profile, changed, session>>

\* A request throws.
Fail(p) ==
    /\ call[p].pc # "idle"
    /\ End(p)
    /\ UNCHANGED <<account, profile, mailed, changed, session>>

\* logout().
Logout(p) ==
    /\ call[p].pc = "idle"
    /\ session[p] # Null
    /\ session' = [session EXCEPT ![p] = Null]
    /\ UNCHANGED <<account, profile, mailed, changed, call>>

\* The app is killed and started again.
Restart(p) ==
    /\ call' = [call EXCEPT ![p] = NoCall]
    /\ UNCHANGED <<account, profile, mailed, changed, session>>

\* The owner of the mail box follows the link and sets a new password on
\* Firebase's page.
FollowLink(e, w) ==
    /\ e \in mailed
    /\ account' = [account EXCEPT ![e] = w]
    /\ mailed' = mailed \ {e}
    /\ changed' = changed \cup {e}
    /\ UNCHANGED <<profile, session, call>>

Tap(p) ==
    \E e \in Emails :
        \/ ResetTap(p, e)
        \/ \E w \in Passwords : SignUpTap(p, e, w) \/ SignInTap(p, e, w)

Answer(p) ==
    \/ CreateAccount(p)
    \/ AccountTaken(p)
    \/ StoreProfile(p)
    \/ SignInUsers(p)
    \/ Login(p)
    \/ ResetUsers(p)
    \/ SendMail(p)

Next ==
    \/ \E p \in Phones :
          Tap(p) \/ Answer(p) \/ Fail(p) \/ Logout(p) \/ Restart(p)
    \/ \E e \in Emails, w \in Passwords : FollowLink(e, w)

Spec == Init /\ [][Next]_vars

\* Firebase answers; nobody has to tap.
FairSpec == Spec /\ \A p \in Phones : WF_vars(Answer(p))

-----------------------------------------------------------------------------

\* Two phones may sign the same address up at once, be killed or fail half
\* way: the profile still repeats the account's password, until its owner
\* uses a reset link.
PasswordsAgree ==
    \A e \in Emails :
        profile[e] # Null => e \in changed \/ profile[e] = account[e]

\* A phone that is between the two steps of a sign-up is the one that
\* created the account, and its profile is not there yet.
SignUpInvariant ==
    /\ \A e \in Emails : account[e] = Null => profile[e] = Null
    /\ \A e \in mailed \cup changed : account[e] # Null /\ profile[e] # Null
    /\ \A p \in Phones :
          call[p].pc = "store" =>
              /\ account[call[p].email] = call[p].password
              /\ call[p].password # Null
              /\ profile[call[p].email] = Null
              /\ \A q \in Phones \ {p} :
                    ~(call[q].pc = "store" /\ call[q].email = call[p].email)

\* Every call ends, and with it the loader that covers the page.
CallsEnd == \A p \in Phones : call[p].pc # "idle" ~> call[p].pc = "idle"

\* "After changing password you will be able to login with new password":
\* sign-in never turns the account's password down as incorrect.
NewPasswordWorks ==
    [][\A p \in Phones :
          SignInUsers(p) /\ SignInVerdict(p) = "incorrectPassword" =>
              account[call[p].email] # call[p].password]_vars

=============================================================================
