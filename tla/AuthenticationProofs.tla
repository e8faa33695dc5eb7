------------------------ MODULE AuthenticationProofs ------------------------
(***************************************************************************)
(* For any phones, addresses and passwords: the profile repeats the        *)
(* account's password until the owner uses a reset link.                   *)
(***************************************************************************)
EXTENDS Authentication, TLAPS

\* What SignUpInvariant rests on: the form's password is there when the
\* account is created, and a reset mail is asked for only with a profile.
CallInvariant ==
    \A p \in Phones :
        /\ call[p].pc = "create" => call[p].password # Null
        /\ call[p].pc = "send" => profile[call[p].email] # Null

\* The inductive invariant.
AuthInv == TypeOK /\ CallInvariant /\ SignUpInvariant /\ PasswordsAgree

\* Nobody is known at the start, and no call is in flight.
LEMMA AuthInit == Init => AuthInv
BY DEF Init, AuthInv, TypeOK, CallInvariant, SignUpInvariant, PasswordsAgree,
       NoCall, Calls

\* A step that moves one call on, and leaves accounts, profiles and mail
\* alone, keeps the invariant when the new call is in order.
LEMMA CallStep ==
    ASSUME AuthInv, NEW p \in Phones, NEW x \in Calls,
           call' = [call EXCEPT ![p] = x],
           x.pc # "store",
           x.pc # "idle" => x.email \in Emails,
           x.pc = "create" => x.password # Null,
           x.pc = "send" => profile[x.email] # Null,
           session' \in [Phones -> Emails \cup {Null}],
           UNCHANGED <<account, profile, mailed, changed>>
    PROVE  AuthInv'
<1> USE DEF AuthInv
<1>1. call \in [Phones -> Calls]
    BY DEF TypeOK
<1>2. TypeOK'
    BY <1>1 DEF TypeOK
<1>3. CallInvariant'
    BY <1>1 DEF CallInvariant
<1>4. SignUpInvariant'
    BY <1>1 DEF SignUpInvariant
<1>5. PasswordsAgree'
    BY DEF PasswordsAgree
<1> QED
    BY <1>2, <1>3, <1>4, <1>5

\* A call that ends keeps the invariant.
LEMMA EndStep ==
    ASSUME AuthInv, NEW p \in Phones, End(p),
           session' \in [Phones -> Emails \cup {Null}],
           UNCHANGED <<account, profile, mailed, changed>>
    PROVE  AuthInv'
<1>1. NoCall \in Calls /\ NoCall.pc = "idle"
    BY DEF NoCall, Calls
<1> QED
    BY <1>1, CallStep DEF End

\* A form that is sent keeps the invariant.
LEMMA TapStep ==
    ASSUME AuthInv, NEW p \in Phones, Tap(p)
    PROVE  AuthInv'
<1>1. session \in [Phones -> Emails \cup {Null}]
    BY DEF AuthInv, TypeOK
<1>2. ASSUME NEW e \in Emails, NEW w \in Passwords \cup {Null},
             NEW pc \in {"create", "signinUsers", "resetUsers"},
             pc = "create" => w # Null, Begin(p, pc, e, w)
      PROVE  AuthInv'
    <2> DEFINE x == [pc |-> pc, email |-> e, password |-> w]
    <2>1. x \in Calls /\ x.pc = pc /\ x.email = e /\ x.password = w
        BY DEF Calls
    <2>2. call' = [call EXCEPT ![p] = x]
        BY <1>2 DEF Begin
    <2>3. UNCHANGED <<account, profile, mailed, changed, session>>
        BY <1>2 DEF Begin
    <2> HIDE DEF x
    <2> QED
        BY <1>1, <1>2, <2>1, <2>2, <2>3, CallStep
<1>3. \A w \in Passwords : w # Null
    BY NullAssumption
<1> QED
    BY <1>2, <1>3 DEF Tap, SignUpTap, SignInTap, ResetTap

\* The account is created only when there is none, so nobody else is between
\* the two steps of a sign-up with this address.
LEMMA CreateStep ==
    ASSUME AuthInv, NEW p \in Phones, CreateAccount(p)
    PROVE  AuthInv'
<1> USE DEF AuthInv
<1>1. call[p] \in Calls /\ call \in [Phones -> Calls] /\ call[p].email \in Emails
    BY DEF TypeOK, CreateAccount
<1> DEFINE e == call[p].email
<1>2. /\ call[p].pc = "create" /\ account[e] = Null
      /\ account' = [account EXCEPT ![e] = call[p].password]
      /\ session' = [session EXCEPT ![p] = e]
      /\ UNCHANGED <<profile, mailed, changed>>
    BY DEF CreateAccount
<1>3. /\ call'[p].pc = "store" /\ call'[p].email = e
      /\ call'[p].password = call[p].password
      /\ \A q \in Phones \ {p} : call'[q] = call[q]
      /\ call' \in [Phones -> Calls]
    BY <1>1 DEF CreateAccount, Continue, Calls
<1>4. call[p].password # Null /\ call[p].password \in Passwords
    BY <1>1, <1>2 DEF CallInvariant, Calls
<1>5. profile[e] = Null /\ e \notin mailed \cup changed
    BY <1>1, <1>2 DEF SignUpInvariant
<1>6. TypeOK'
    BY <1>1, <1>2, <1>3, <1>4 DEF TypeOK
<1>7. CallInvariant'
    BY <1>2, <1>3 DEF CallInvariant
<1>8. \A q \in Phones \ {p} : call[q].pc = "store" => call[q].email # e
    BY <1>2, <1>4 DEF SignUpInvariant
<1>9. \A f \in Emails : account'[f] = IF f = e THEN call[p].password ELSE account[f]
    BY <1>2 DEF TypeOK
<1> HIDE DEF e
<1>10. SignUpInvariant'
    <2>1. \A f \in Emails : account'[f] = Null => profile'[f] = Null
        BY <1>2, <1>4, <1>9 DEF SignUpInvariant
    <2>2. \A f \in (mailed \cup changed)' : account'[f] # Null /\ profile'[f] # Null
        BY <1>2, <1>5, <1>9 DEF SignUpInvariant, TypeOK
    <2>3. ASSUME NEW q \in Phones, call'[q].pc = "store"
          PROVE  /\ account'[call'[q].email] = call'[q].password
                 /\ call'[q].password # Null
                 /\ profile'[call'[q].email] = Null
                 /\ \A r \in Phones \ {q} :
                       ~(call'[r].pc = "store" /\ call'[r].email = call'[q].email)
        <3>1. CASE q = p
            BY <1>1, <1>2, <1>3, <1>4, <1>5, <1>8, <1>9, <3>1 DEF e
        <3>2. CASE q # p
            <4>1. call'[q] = call[q] /\ call[q].email \in Emails /\ call[q].email # e
                BY <1>3, <1>8, <2>3, <3>2 DEF TypeOK
            <4> QED
                BY <1>2, <1>3, <1>9, <2>3, <4>1 DEF SignUpInvariant
        <3> QED
            BY <3>1, <3>2
    <2> QED
        BY <2>1, <2>2, <2>3 DEF SignUpInvariant
<1>11. PasswordsAgree'
    BY <1>2, <1>5, <1>9 DEF PasswordsAgree
<1> QED
    BY <1>6, <1>7, <1>10, <1>11

\* The profile is stored by the phone that created the account, with the
\* account's password.
LEMMA StoreStep ==
    ASSUME AuthInv, NEW p \in Phones, StoreProfile(p)
    PROVE  AuthInv'
<1> USE DEF AuthInv
<1>1. call \in [Phones -> Calls] /\ call[p].email \in Emails /\ call[p].pc = "store"
    BY DEF TypeOK, StoreProfile
<1>2. /\ \A q \in Phones : call'[q] = IF q = p THEN NoCall ELSE call[q]
      /\ call' \in [Phones -> Calls] /\ NoCall.pc = "idle"
    BY <1>1 DEF StoreProfile, End, NoCall, Calls
<1> DEFINE e == call[p].email
           w == call[p].password
<1>3. account[e] = w /\ w # Null /\ w \in Passwords /\ e \in Emails
    BY <1>1 DEF SignUpInvariant, Calls
<1>4. /\ \A f \in Emails : profile'[f] = IF f = e THEN w ELSE profile[f]
      /\ profile' \in [Emails -> Passwords \cup {Null}]
      /\ UNCHANGED <<account, mailed, changed, session>>
    BY <1>3 DEF StoreProfile, TypeOK
<1>5. \A q \in Phones \ {p} : call[q].pc = "store" => call[q].email # e
    BY <1>1 DEF SignUpInvariant
<1> HIDE DEF e, w
<1>6. TypeOK'
    BY <1>2, <1>4 DEF TypeOK
<1>7. CallInvariant'
    BY <1>2, <1>3, <1>4 DEF CallInvariant, TypeOK
<1>8. SignUpInvariant'
    <2>1. \A f \in Emails : account'[f] = Null => profile'[f] = Null
        BY <1>3, <1>4 DEF SignUpInvariant
    <2>2. \A f \in (mailed \cup changed)' : account'[f] # Null /\ profile'[f] # Null
        BY <1>3, <1>4 DEF SignUpInvariant, TypeOK
    <2>3. ASSUME NEW q \in Phones, call'[q].pc = "store"
          PROVE  /\ account'[call'[q].email] = call'[q].password
                 /\ call'[q].password # Null
                 /\ profile'[call'[q].email] = Null
                 /\ \A r \in Phones \ {q} :
                       ~(call'[r].pc = "store" /\ call'[r].email = call'[q].email)
        <3>1. q # p /\ call'[q] = call[q]
            BY <1>2, <2>3
        <3>2. call[q].email \in Emails /\ call[q].email # e
            BY <1>5, <2>3, <3>1 DEF TypeOK
        <3> QED
            BY <1>2, <1>4, <2>3, <3>1, <3>2 DEF SignUpInvariant
    <2> QED
        BY <2>1, <2>2, <2>3 DEF SignUpInvariant
<1>9. PasswordsAgree'
    BY <1>3, <1>4 DEF PasswordsAgree
<1> QED
    BY <1>6, <1>7, <1>8, <1>9

\* Reading the users node, signing in and mailing a link keep the invariant.
LEMMA AnswerStep ==
    ASSUME AuthInv, NEW p \in Phones,
           AccountTaken(p) \/ SignInUsers(p) \/ Login(p) \/ ResetUsers(p) \/ SendMail(p)
    PROVE  AuthInv'
<1> USE DEF AuthInv
<1>1. session \in [Phones -> Emails \cup {Null}] /\ call \in [Phones -> Calls]
    BY DEF TypeOK
<1>2. CASE AccountTaken(p)
    BY <1>1, <1>2, EndStep DEF AccountTaken
<1>3. ASSUME NEW pc \in {"login", "send"}, call[p].pc \in {"signinUsers", "resetUsers"},
             Continue(p, pc), pc = "send" => profile[call[p].email] # Null,
             UNCHANGED <<account, profile, mailed, changed, session>>
      PROVE  AuthInv'
    <2> DEFINE x == [call[p] EXCEPT !.pc = pc]
    <2>1. x \in Calls /\ x.pc = pc /\ x.email = call[p].email
        BY <1>1 DEF Calls
    <2>2. call[p].email \in Emails
        BY <1>3 DEF TypeOK
    <2>3. call' = [call EXCEPT ![p] = x]
        BY <1>3 DEF Continue
    <2> HIDE DEF x
    <2> QED
        BY <1>1, <1>3, <2>1, <2>2, <2>3, CallStep
<1>4. CASE SignInUsers(p)
    BY <1>1, <1>3, <1>4, EndStep DEF SignInUsers
<1>5. CASE Login(p)
    <2>1. call[p].email \in Emails
        BY <1>5 DEF Login, TypeOK
    <2>2. session' \in [Phones -> Emails \cup {Null}]
        BY <1>1, <1>5, <2>1 DEF Login
    <2> QED
        BY <1>5, <2>2, EndStep DEF Login
<1>6. CASE ResetUsers(p)
    BY <1>1, <1>3, <1>6, EndStep DEF ResetUsers
<1>7. CASE SendMail(p)
    <2>1. call[p].email \in Emails /\ profile[call[p].email] # Null
        BY <1>7 DEF SendMail, TypeOK, CallInvariant
    <2>2. account[call[p].email] # Null
        BY <2>1 DEF SignUpInvariant
    <2>3. /\ \A q \in Phones : call'[q] = IF q = p THEN NoCall ELSE call[q]
          /\ call' \in [Phones -> Calls] /\ NoCall.pc = "idle"
        BY <1>1, <1>7 DEF SendMail, End, NoCall, Calls
    <2>4. mailed' = mailed \cup {call[p].email} /\ UNCHANGED <<account, profile, changed, session>>
        BY <1>7 DEF SendMail
    <2>5. TypeOK'
        BY <2>1, <2>3, <2>4 DEF TypeOK
    <2>6. CallInvariant'
        BY <2>3, <2>4 DEF CallInvariant
    <2>7. SignUpInvariant'
        BY <2>1, <2>2, <2>3, <2>4 DEF SignUpInvariant
    <2>8. PasswordsAgree'
        BY <2>4 DEF PasswordsAgree
    <2> QED
        BY <2>5, <2>6, <2>7, <2>8
<1> QED
    BY <1>2, <1>4, <1>5, <1>6, <1>7

\* A used link changes an account that has a profile, and is remembered.
LEMMA LinkStep ==
    ASSUME AuthInv, NEW e \in Emails, NEW w \in Passwords, FollowLink(e, w)
    PROVE  AuthInv'
<1> USE DEF AuthInv
<1>1. /\ e \in mailed /\ mailed' = mailed \ {e} /\ changed' = changed \cup {e}
      /\ account' \in [Emails -> Passwords \cup {Null}]
      /\ \A f \in Emails : account'[f] = IF f = e THEN w ELSE account[f]
      /\ UNCHANGED <<profile, session, call>>
    BY DEF FollowLink, TypeOK
<1>2. w # Null /\ account[e] # Null /\ profile[e] # Null
    BY <1>1, NullAssumption DEF SignUpInvariant
<1>3. TypeOK'
    BY <1>1 DEF TypeOK
<1>4. CallInvariant'
    BY <1>1 DEF CallInvariant
<1>5. SignUpInvariant'
    <2>1. \A f \in Emails : account'[f] = Null => profile'[f] = Null
        BY <1>1, <1>2 DEF SignUpInvariant
    <2>2. \A f \in (mailed \cup changed)' : account'[f] # Null /\ profile'[f] # Null
        BY <1>1, <1>2 DEF SignUpInvariant, TypeOK
    <2>3. ASSUME NEW q \in Phones, call'[q].pc = "store"
          PROVE  /\ account'[call'[q].email] = call'[q].password
                 /\ call'[q].password # Null
                 /\ profile'[call'[q].email] = Null
                 /\ \A r \in Phones \ {q} :
                       ~(call'[r].pc = "store" /\ call'[r].email = call'[q].email)
        <3>1. call[q].email \in Emails /\ call[q].email # e
            BY <1>1, <1>2, <2>3 DEF SignUpInvariant, TypeOK
        <3> QED
            BY <1>1, <2>3, <3>1 DEF SignUpInvariant
    <2> QED
        BY <2>1, <2>2, <2>3 DEF SignUpInvariant
<1>6. PasswordsAgree'
    BY <1>1 DEF PasswordsAgree
<1> QED
    BY <1>3, <1>4, <1>5, <1>6

\* Every step keeps the invariant.
LEMMA AuthStep == AuthInv /\ [Next]_vars => AuthInv'
<1> SUFFICES ASSUME AuthInv, [Next]_vars PROVE AuthInv'
    OBVIOUS
<1>1. ASSUME NEW p \in Phones, Tap(p) PROVE AuthInv'
    BY <1>1, TapStep
<1>2. ASSUME NEW p \in Phones, Answer(p) PROVE AuthInv'
    BY <1>2, CreateStep, StoreStep, AnswerStep DEF Answer
<1>3. ASSUME NEW p \in Phones, Fail(p) \/ Restart(p) PROVE AuthInv'
    <2>1. /\ End(p) /\ UNCHANGED <<account, profile, mailed, changed>>
          /\ session' \in [Phones -> Emails \cup {Null}]
        BY <1>3 DEF Fail, Restart, End, AuthInv, TypeOK
    <2> QED
        BY <2>1, EndStep
<1>4. ASSUME NEW p \in Phones, Logout(p) PROVE AuthInv'
    <2>1. TypeOK'
        BY <1>4 DEF Logout, AuthInv, TypeOK
    <2> QED
        BY <1>4, <2>1 DEF Logout, AuthInv, CallInvariant, SignUpInvariant, PasswordsAgree
<1>5. ASSUME NEW e \in Emails, NEW w \in Passwords, FollowLink(e, w) PROVE AuthInv'
    BY <1>5, LinkStep
<1>6. CASE UNCHANGED vars
    BY <1>6 DEF vars, AuthInv, TypeOK, CallInvariant, SignUpInvariant, PasswordsAgree
<1> QED
    BY <1>1, <1>2, <1>3, <1>4, <1>5, <1>6 DEF Next

\* However many phones sign the same address up at once, fail or are killed
\* half way, a stored profile repeats the account's password until the owner
\* uses a reset link.
THEOREM AuthenticationPasswordsAgree == Spec => []PasswordsAgree
<1>1. AuthInv => PasswordsAgree
    BY DEF AuthInv
<1> QED
    BY AuthInit, AuthStep, <1>1, PTL DEF Spec

\* Only the phone that created an account stores its profile.
THEOREM AuthenticationSignUp == Spec => []SignUpInvariant
<1>1. AuthInv => SignUpInvariant
    BY DEF AuthInv
<1> QED
    BY AuthInit, AuthStep, <1>1, PTL DEF Spec

\* Accounts, profiles, sessions and the calls of the three controllers keep
\* their types, for any number of phones and addresses.
THEOREM AuthenticationTypeOK == Spec => []TypeOK
<1>1. AuthInv => TypeOK
    BY DEF AuthInv
<1> QED
    BY AuthInit, AuthStep, <1>1, PTL DEF Spec

=============================================================================
