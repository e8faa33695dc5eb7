-------------------------- MODULE NavigationProofs --------------------------
(***************************************************************************)
(* Proofs about Navigation, for any number of calls in flight and any      *)
(* depth of the stack: types, the loader's place, where the order of the   *)
(* routes can be lost, and that Navigation implements PageFlow.            *)
(***************************************************************************)
EXTENDS Navigation, SequenceTheorems, TLAPS

NavStates == [stack : Seq(Routes), current : Names, previous : Names \cup {Null}]

Kinds == {"idle", "remove", "logout", "update"} \cup Loading

CallStates == [kind : Kinds, at : Nat]

\* The dialog of every update that still has one is where the call says.
Mounted(cs, s) ==
    \A c \in Calls : cs[c].at # 0 => cs[c].at \in 1..Len(s) /\ s[cs[c].at] = "edit"

\* The routes without the last one.
Lower(s) == SubSeq(s, 1, Len(s) - 1)

-----------------------------------------------------------------------------
(* Stacks.                                                                 *)

LEMMA LowerLemma ==
    \A s \in Seq(Routes) : s # <<>> =>
        /\ Lower(s) \in Seq(Routes) /\ Len(s) \in Nat \ {0} /\ Len(Lower(s)) = Len(s) - 1
        /\ \A i \in 1..(Len(s) - 1) : Lower(s)[i] = s[i]
        /\ Top(s) = s[Len(s)] /\ Top(s) \in Routes
        /\ Lower(s) # <<>> <=> Len(s) # 1
<1> SUFFICES ASSUME NEW s \in Seq(Routes), s # <<>>
             PROVE  /\ Lower(s) \in Seq(Routes) /\ Len(s) \in Nat \ {0}
                    /\ Len(Lower(s)) = Len(s) - 1
                    /\ \A i \in 1..(Len(s) - 1) : Lower(s)[i] = s[i]
                    /\ Top(s) = s[Len(s)] /\ Top(s) \in Routes
                    /\ Lower(s) # <<>> <=> Len(s) # 1
    OBVIOUS
<1>1. Len(s) \in Nat \ {0}
    BY EmptySeq
<1>2. /\ Lower(s) \in Seq(Routes) /\ Len(Lower(s)) = Len(s) - 1
      /\ \A i \in 1..(Len(s) - 1) : Lower(s)[i] = s[i]
    <2>1. 1 \in 1..(Len(s) + 1) /\ Len(s) - 1 \in (1 - 1)..Len(s)
        BY <1>1
    <2>2. /\ SubSeq(s, 1, Len(s) - 1) \in Seq(Routes)
          /\ Len(SubSeq(s, 1, Len(s) - 1)) = (Len(s) - 1) - 1 + 1
          /\ \A i \in 1..((Len(s) - 1) - 1 + 1) : SubSeq(s, 1, Len(s) - 1)[i] = s[1 + i - 1]
        BY <2>1, SubSeqProperties
    <2> QED
        BY <1>1, <2>2 DEF Lower
<1>3. Top(s) = s[Len(s)] /\ Top(s) \in Routes
    BY <1>1 DEF Top
<1>4. Lower(s) # <<>> => Len(Lower(s)) \in Nat \ {0}
    BY <1>2, EmptySeq
<1>5. Lower(s) = <<>> => Len(Lower(s)) = 0
    BY EmptySeq
<1> QED
    BY <1>1, <1>2, <1>3, <1>4, <1>5

LEMMA AppendLemma ==
    \A s \in Seq(Routes), r \in Routes :
        /\ Append(s, r) \in Seq(Routes) /\ Append(s, r) # <<>>
        /\ Len(s) \in Nat /\ Len(Append(s, r)) = Len(s) + 1
        /\ \A i \in 1..Len(s) : Append(s, r)[i] = s[i]
        /\ Append(s, r)[Len(s) + 1] = r /\ Top(Append(s, r)) = r
        /\ Lower(Append(s, r)) = s
<1> SUFFICES ASSUME NEW s \in Seq(Routes), NEW r \in Routes
             PROVE  /\ Append(s, r) \in Seq(Routes) /\ Append(s, r) # <<>>
                    /\ Len(s) \in Nat /\ Len(Append(s, r)) = Len(s) + 1
                    /\ \A i \in 1..Len(s) : Append(s, r)[i] = s[i]
                    /\ Append(s, r)[Len(s) + 1] = r /\ Top(Append(s, r)) = r
                    /\ Lower(Append(s, r)) = s
    OBVIOUS
<1>1. /\ Append(s, r) \in Seq(Routes) /\ Append(s, r) # <<>>
      /\ Len(s) \in Nat /\ Len(Append(s, r)) = Len(s) + 1
      /\ \A i \in 1..Len(s) : Append(s, r)[i] = s[i]
      /\ Append(s, r)[Len(s) + 1] = r
    BY AppendProperties, LenProperties
<1>2. Top(Append(s, r)) = r
    BY <1>1 DEF Top
<1>3. Lower(Append(s, r)) = s
    <2>1. ASSUME NEW a \in Seq(Routes), a # <<>>, Len(a) = Len(s) + 1,
                 \A i \in 1..Len(s) : a[i] = s[i]
          PROVE  Lower(a) = s
        <3>1. /\ Lower(a) \in Seq(Routes) /\ Len(Lower(a)) = Len(s)
              /\ \A i \in 1..Len(s) : Lower(a)[i] = s[i]
            <4>1. Len(s) \in Nat /\ Len(a) - 1 = Len(s)
                BY <2>1, LenProperties
            <4>2. /\ Lower(a) \in Seq(Routes) /\ Len(Lower(a)) = Len(a) - 1
                  /\ \A i \in 1..(Len(a) - 1) : Lower(a)[i] = a[i]
                BY <2>1, LowerLemma
            <4> QED
                BY <2>1, <4>1, <4>2, Zenon
        <3> QED
            BY <3>1, SeqEqual
    <2> QED
        BY <1>1, <2>1, Zenon
<1> QED
    BY <1>1, <1>2, <1>3

\* What GetX calls a page is one of its names.
LEMMA NameLemma ==
    /\ \A r \in Routes : Name(r) \in Names \cup {Null}
    /\ \A r \in Routes : IsPage(r) => Name(r) \in Names
    /\ \A r \in Pages : IsPage(r) /\ Name(r) = r /\ r \in Routes
    /\ \A r \in Popups : ~IsPage(r) /\ r \in Routes
    /\ "loader" \in Routes \ Pages /\ "drawer" \in Routes /\ Pages \subseteq Names
BY DEF Name, Names, IsPage, Routes, Pages, Popups

LEMMA PushLemma ==
    \A n \in NavStates, r \in Routes :
        /\ Push(n, r) \in NavStates
        /\ Push(n, r).stack = Append(n.stack, r)
        /\ IsPage(r) => Push(n, r).current = Name(r)
<1> SUFFICES ASSUME NEW n \in NavStates, NEW r \in Routes
             PROVE  /\ Push(n, r) \in NavStates
                    /\ Push(n, r).stack = Append(n.stack, r)
                    /\ IsPage(r) => Push(n, r).current = Name(r)
    OBVIOUS
<1>1. n.stack \in Seq(Routes) /\ n.current \in Names /\ n.previous \in Names \cup {Null}
    BY DEF NavStates
<1>2. n.stack # <<>> => Name(Top(n.stack)) \in Names \cup {Null}
    BY <1>1, LowerLemma, NameLemma
<1>3. Append(n.stack, r) \in Seq(Routes)
    BY <1>1, AppendLemma
<1>4. (IF IsPage(r) THEN Name(r) ELSE n.current) \in Names
    BY <1>1, NameLemma
<1> QED
    BY <1>1, <1>2, <1>3, <1>4 DEF Push, NavStates

\* A pop that finds a route takes it away, and leaves the page that appears as
\* the current one.
LEMMA PopLemma ==
    \A n \in NavStates :
        /\ Pop(n) \in NavStates
        /\ n.stack = <<>> => Pop(n) = n
        /\ n.stack # <<>> => Pop(n).stack = Lower(n.stack)
        /\ n.stack # <<>> /\ Top(n.stack) # "drawer" /\ Lower(n.stack) # <<>>
              /\ IsPage(Top(Lower(n.stack))) =>
                 Pop(n).current = Name(Top(Lower(n.stack)))
<1> SUFFICES ASSUME NEW n \in NavStates, n.stack # <<>>
             PROVE  /\ Pop(n) \in NavStates
                    /\ Pop(n).stack = Lower(n.stack)
                    /\ Top(n.stack) # "drawer" /\ Lower(n.stack) # <<>>
                          /\ IsPage(Top(Lower(n.stack))) =>
                             Pop(n).current = Name(Top(Lower(n.stack)))
    BY DEF Pop
<1>1. n.stack \in Seq(Routes) /\ n.current \in Names /\ n.previous \in Names \cup {Null}
    BY DEF NavStates
<1>2. Lower(n.stack) \in Seq(Routes)
    BY <1>1, LowerLemma
<1>3. Lower(n.stack) # <<>> /\ IsPage(Top(Lower(n.stack))) =>
          Name(Top(Lower(n.stack))) \in Names
    BY <1>2, LowerLemma, NameLemma
<1> DEFINE s == Lower(n.stack)
<1>4. Pop(n) = IF Top(n.stack) = "drawer" THEN [n EXCEPT !.stack = s]
               ELSE IF s # <<>> /\ IsPage(Top(s))
               THEN [stack |-> s, current |-> Name(Top(s)), previous |-> Name(Top(s))]
               ELSE [stack |-> s,
                     current |-> IF n.previous = Null THEN n.current ELSE n.previous,
                     previous |-> n.previous]
    BY DEF Pop, Lower
<1> HIDE DEF s
<1>5. s \in Seq(Routes) /\ (s # <<>> /\ IsPage(Top(s)) => Name(Top(s)) \in Names)
    BY <1>2, <1>3 DEF s
<1>6. /\ Pop(n) \in NavStates /\ Pop(n).stack = s
      /\ Top(n.stack) # "drawer" /\ s # <<>> /\ IsPage(Top(s)) =>
            Pop(n).current = Name(Top(s))
    BY <1>1, <1>4, <1>5 DEF NavStates
<1> QED
    BY <1>6 DEF s

\* After Get.to its page is the current one, and the stack has grown by it or
\* stayed.
LEMMA ToLemma ==
    \A n \in NavStates, page \in Pages :
        /\ To(n, page) \in NavStates
        /\ To(n, page).current = page
        /\ \/ To(n, page) = n
           \/ To(n, page).stack = Append(n.stack, page)
        /\ n.current = page => To(n, page) = n
        /\ n.current # page => To(n, page).stack = Append(n.stack, page)
BY PushLemma, NameLemma DEF To

-----------------------------------------------------------------------------
(* Types.                                                                  *)

LEMMA TypeParts ==
    TypeOK <=> /\ nav \in NavStates
               /\ call \in [Calls -> CallStates]
               /\ Mounted(call, nav.stack)
               /\ signedIn \in BOOLEAN
               /\ timer \in {"Home", "Signin", Null}
               /\ stray \in BOOLEAN
BY DEF TypeOK, NavStates, CallStates, Kinds, Mounted

LEMMA NoCallLemma == NoCall \in CallStates /\ NoCall.at = 0 /\ NoCall.kind = "idle"
BY DEF NoCall, CallStates, Kinds

\* A stack that grows or stays leaves the dialogs mounted.
LEMMA MountedGrows ==
    ASSUME TypeOK, NEW s, NEW r \in Routes, s = nav.stack \/ s = Append(nav.stack, r)
    PROVE  Mounted(call, s)
<1>1. nav.stack \in Seq(Routes) /\ call \in [Calls -> CallStates]
    BY TypeParts DEF NavStates
<1>2. Mounted(call, nav.stack)
    BY TypeParts
<1>3. CASE s = Append(nav.stack, r)
    <2>1. /\ Len(nav.stack) \in Nat /\ Len(s) = Len(nav.stack) + 1
          /\ \A i \in 1..Len(nav.stack) : s[i] = nav.stack[i]
        BY <1>1, <1>3, AppendLemma
    <2> QED
        BY <1>2, <2>1 DEF Mounted
<1> QED
    BY <1>2, <1>3

\* A call that begins or ends changes the mounted dialogs by its own.
LEMMA MountedCall ==
    ASSUME NEW cs \in [Calls -> CallStates], NEW s, Mounted(cs, s), NEW c,
           NEW x \in CallStates,
           x.at # 0 => x.at \in 1..Len(s) /\ s[x.at] = "edit"
    PROVE  /\ [cs EXCEPT ![c] = x] \in [Calls -> CallStates]
           /\ Mounted([cs EXCEPT ![c] = x], s)
BY DEF Mounted

\* A pop unmounts the dialog it takes, and no other.
LEMMA MountedSunk ==
    ASSUME TypeOK
    PROVE  /\ Sunk(Len(nav.stack) - 1) \in [Calls -> CallStates]
           /\ Mounted(Sunk(Len(nav.stack) - 1), Pop(nav).stack)
           /\ \A c \in Calls : Sunk(Len(nav.stack) - 1)[c].kind = call[c].kind
<1>1. nav \in NavStates /\ nav.stack \in Seq(Routes) /\ call \in [Calls -> CallStates]
    BY TypeParts DEF NavStates
<1>2. Mounted(call, nav.stack) /\ Len(nav.stack) \in Nat
    BY <1>1, TypeParts
<1>3. \A c \in Calls : /\ call[c].at \in Nat
                       /\ [call[c] EXCEPT !.at = 0] \in CallStates
                       /\ [call[c] EXCEPT !.at = 0].at = 0
                       /\ [call[c] EXCEPT !.at = 0].kind = call[c].kind
    BY <1>1 DEF CallStates
<1>4. /\ Sunk(Len(nav.stack) - 1) \in [Calls -> CallStates]
      /\ \A c \in Calls : Sunk(Len(nav.stack) - 1)[c].kind = call[c].kind
    BY <1>1, <1>3 DEF Sunk
<1>5. ASSUME NEW c \in Calls, Sunk(Len(nav.stack) - 1)[c].at # 0
      PROVE  /\ Sunk(Len(nav.stack) - 1)[c].at \in 1..Len(Pop(nav).stack)
             /\ Pop(nav).stack[Sunk(Len(nav.stack) - 1)[c].at] = "edit"
    <2>1. /\ Sunk(Len(nav.stack) - 1)[c].at = call[c].at
          /\ call[c].at # 0 /\ ~(call[c].at > Len(nav.stack) - 1)
        BY <1>3, <1>5 DEF Sunk
    <2>2. call[c].at \in 1..(Len(nav.stack) - 1) /\ nav.stack[call[c].at] = "edit"
        BY <1>2, <1>3, <2>1 DEF Mounted
    <2>3. nav.stack # <<>>
        BY <1>2, <2>2, EmptySeq
    <2>4. Pop(nav).stack = Lower(nav.stack)
        BY <1>1, <2>3, PopLemma
    <2> QED
        BY <1>1, <2>1, <2>2, <2>3, <2>4, LowerLemma
<1> QED
    BY <1>4, <1>5 DEF Mounted

LEMMA InitTypes == Init => TypeOK
<1> SUFFICES ASSUME Init PROVE TypeOK
    OBVIOUS
<1>1. nav \in NavStates
    BY DEF Init, Splash, NavStates, Routes, Pages, Names
<1>2. call \in [Calls -> CallStates] /\ Mounted(call, nav.stack)
    BY NoCallLemma DEF Init, Mounted
<1> QED
    BY <1>1, <1>2, TypeParts DEF Init

\* What an action that keeps the types does to the stack and the calls: it
\* leaves the stack or puts a route on it, and begins or ends at most one call ...
Grows(c) ==
    /\ nav' \in NavStates
    /\ \E r \in Routes : nav'.stack \in {nav.stack, Append(nav.stack, r)}
    /\ \/ UNCHANGED call
       \/ \E x \in CallStates :
             /\ call' = [call EXCEPT ![c] = x]
             /\ x.at # 0 => x.at \in 1..Len(nav.stack) /\ nav.stack[x.at] = "edit"

\* ... or it pops a route, and ends at most one call.
Sinks(c) ==
    /\ nav' = Pop(nav)
    /\ call' \in {Sunk(Len(nav.stack) - 1), [Sunk(Len(nav.stack) - 1) EXCEPT ![c] = NoCall]}

LEMMA ShapeTypes ==
    ASSUME TypeOK, NEW c, Grows(c) \/ Sinks(c), signedIn' \in BOOLEAN,
           timer' \in {"Home", "Signin", Null}, stray' \in BOOLEAN
    PROVE  TypeOK'
<1>1. call \in [Calls -> CallStates] /\ nav \in NavStates /\ Mounted(call, nav.stack)
    BY TypeParts
<1>2. CASE Grows(c)
    <2>1. Mounted(call, nav'.stack) /\ nav' \in NavStates
        BY <1>2, MountedGrows DEF Grows
    <2>2. CASE UNCHANGED call
        BY <1>1, <2>1, <2>2 DEF TypeOK, NavStates, CallStates, Kinds, Mounted
    <2>3. ASSUME NEW x \in CallStates, call' = [call EXCEPT ![c] = x],
                 x.at # 0 => x.at \in 1..Len(nav.stack) /\ nav.stack[x.at] = "edit"
          PROVE  call' \in [Calls -> CallStates] /\ Mounted(call', nav'.stack)
        <3>1. nav.stack \in Seq(Routes)
            BY <1>1 DEF NavStates
        <3>2. x.at # 0 => x.at \in 1..Len(nav'.stack) /\ nav'.stack[x.at] = "edit"
            BY <1>2, <2>3, <3>1, AppendLemma DEF Grows
        <3> QED
            BY <1>1, <2>1, <2>3, <3>2, MountedCall
    <2> QED
        BY <1>2, <2>1, <2>2, <2>3
        DEF Grows, TypeOK, NavStates, CallStates, Kinds, Mounted
<1>3. CASE Sinks(c)
    <2>1. nav' \in NavStates
        BY <1>1, <1>3, PopLemma DEF Sinks
    <2>2. call' \in [Calls -> CallStates] /\ Mounted(call', nav'.stack)
        BY <1>3, MountedSunk, MountedCall, NoCallLemma DEF Sinks
    <2> QED
        BY <2>1, <2>2 DEF TypeOK, NavStates, CallStates, Kinds, Mounted
<1> QED
    BY <1>2, <1>3

\* The pages that are opened are pages, and the routes the user taps routes.
LEMMA LinksLemma ==
    /\ \A r \in Routes : Links(r) \subseteq Pages /\ Dialogs(r) \subseteq Popups \ {"loader"}
    /\ \A kind \in Loading : Target[kind] \in Pages
    /\ \A kind \in Loading : \A r \in Origins[kind] : IsPage(r) /\ r # "loader"
    /\ Links("Splash") = {} /\ Dialogs("Splash") = {} /\ Links("loader") = {}
    /\ Dialogs("loader") = {}
BY DEF Links, Dialogs, Routes, Pages, Popups, Loading, Target, Origins, IsPage

LEMMA TopLemma ==
    \A r : Sees(r) => nav.stack # <<>> /\ Top(nav.stack) = r
BY DEF Sees, TopIs

LEMMA StepTypes == TypeOK /\ [Next]_vars => TypeOK'
<1> SUFFICES ASSUME TypeOK, [Next]_vars PROVE TypeOK'
    OBVIOUS
<1>0. /\ nav \in NavStates /\ nav.stack \in Seq(Routes) /\ call \in [Calls -> CallStates]
      /\ signedIn \in BOOLEAN /\ timer \in {"Home", "Signin", Null} /\ stray \in BOOLEAN
    BY TypeParts DEF NavStates
<1>a. \A r : TopIs(nav.stack, r) \in BOOLEAN /\ Sees(r) \in BOOLEAN
    BY DEF Sees, TopIs
<1>b. \A page \in Pages : /\ To(nav, page) \in NavStates
                          /\ \E r \in Routes : To(nav, page).stack
                                                  \in {nav.stack, Append(nav.stack, r)}
    BY <1>0, ToLemma, NameLemma
<1>1. CASE OpenPage
    <2>1. PICK page \in Pages : nav' = To(nav, page)
        BY <1>1, LinksLemma DEF OpenPage
    <2>2. Grows(Null)
        BY <1>1, <1>b, <2>1 DEF OpenPage, Grows
    <2> QED
        BY <1>0, <1>1, <2>2, ShapeTypes DEF OpenPage
<1>2. CASE OpenDrawer
    <2>1. [nav EXCEPT !.stack = Append(nav.stack, "drawer")] \in NavStates
        BY <1>0, AppendLemma, NameLemma DEF NavStates
    <2>2. Grows(Null)
        BY <1>0, <1>2, <2>1, NameLemma DEF OpenDrawer, Grows, NavStates
    <2> QED
        BY <1>0, <1>2, <2>2, ShapeTypes DEF OpenDrawer
<1>3. CASE OpenDialog
    <2>1. PICK d \in Popups : nav' = Push(nav, d)
        BY <1>3, LinksLemma DEF OpenDialog
    <2>2. d \in Routes
        BY <2>1, NameLemma
    <2>3. Grows(Null)
        BY <1>0, <1>3, <2>1, <2>2, PushLemma DEF OpenDialog, Grows
    <2> QED
        BY <1>0, <1>3, <2>3, ShapeTypes DEF OpenDialog
<1>4. CASE CreateAccount
    <2>1. nav.stack # <<>> /\ nav.stack[1] \in Routes
        BY <1>0, <1>4, TopLemma, EmptySeq DEF CreateAccount
    <2>2. nav' \in NavStates
        <3>1. "Signup" \in Routes /\ "Signup" \in Names
            BY DEF Routes, Pages, Names
        <3>2. <<"Signup">> \in Seq(Routes) /\ Name(nav.stack[1]) \in Names \cup {Null}
            BY <2>1, <3>1, NameLemma
        <3> QED
            BY <1>4, <3>1, <3>2 DEF CreateAccount, OffAll, NavStates
    <2>3. \A c \in Calls : call[c].at \in Nat /\ [call[c] EXCEPT !.at = 0] \in CallStates
                           /\ [call[c] EXCEPT !.at = 0].at = 0
        BY <1>0 DEF CallStates
    <2>4. call' \in [Calls -> CallStates] /\ \A c \in Calls : call'[c].at = 0
        <3>1. call' = [c \in Calls |-> IF call[c].at > 0 THEN [call[c] EXCEPT !.at = 0]
                                       ELSE call[c]]
            BY <1>4 DEF CreateAccount, Sunk
        <3>2. ASSUME NEW c \in Calls PROVE call'[c] \in CallStates /\ call'[c].at = 0
            BY <1>0, <2>3, <3>1
        <3> QED
            BY <3>1, <3>2
    <2> QED
        BY <1>0, <1>4, <2>2, <2>4
        DEF CreateAccount, TypeOK, NavStates, CallStates, Kinds, Mounted
<1>5. CASE Back
    <2>1. Sinks(Null)
        BY <1>5 DEF Back, Sinks
    <2> QED
        BY <1>0, <1>5, <2>1, ShapeTypes DEF Back
<1>6. CASE SplashDone
    <2>1. Grows(Null)
        BY <1>0, <1>6, <1>b DEF SplashDone, Grows, Pages
    <2> QED
        BY <1>0, <1>a, <1>6, <2>1, ShapeTypes DEF SplashDone
<1>7. CASE Restart
    <2>1. signedIn' \in BOOLEAN /\ timer' \in {"Home", "Signin", Null}
        BY <1>0, <1>7 DEF Restart
    <2>2. nav' \in NavStates
        BY <1>7 DEF Restart, Splash, NavStates, Routes, Pages, Names
    <2>3. call' \in [Calls -> CallStates] /\ Mounted(call', nav'.stack)
        BY <1>7, NoCallLemma DEF Restart, Mounted
    <2> QED
        BY <1>7, <2>1, <2>2, <2>3
        DEF Restart, TypeOK, NavStates, CallStates, Kinds, Mounted
<1>8. ASSUME NEW c \in Calls, NEW kind \in Loading, Load(c, kind) PROVE TypeOK'
    <2>1. [kind |-> kind, at |-> 0] \in CallStates
        BY DEF CallStates, Kinds
    <2>2. Grows(c)
        BY <1>0, <1>8, <2>1, PushLemma, NameLemma DEF Load, Begin, Grows
    <2> QED
        BY <1>0, <1>8, <2>2, ShapeTypes DEF Load
<1>9. ASSUME NEW c \in Calls, ConfirmDelete(c) PROVE TypeOK'
    <2>1. nav.stack # <<>> /\ Top(nav.stack) = "confirm"
        BY <1>9, TopLemma DEF ConfirmDelete
    <2>2. Mounted(call, Lower(nav.stack))
        <3> SUFFICES ASSUME NEW d \in Calls, call[d].at # 0
                     PROVE  /\ call[d].at \in 1..Len(Lower(nav.stack))
                            /\ Lower(nav.stack)[call[d].at] = "edit"
            BY DEF Mounted
        <3>1. call[d].at \in 1..Len(nav.stack) /\ nav.stack[call[d].at] = "edit"
            BY TypeParts DEF Mounted
        <3>2. call[d].at \in 1..(Len(nav.stack) - 1)
            BY <1>0, <2>1, <3>1, LowerLemma
        <3> QED
            BY <1>0, <2>1, <3>1, <3>2, LowerLemma
    <2>3. nav' \in NavStates /\ nav'.stack = Lower(nav.stack)
        BY <1>0, <1>9, <2>1, PopLemma DEF ConfirmDelete
    <2> DEFINE x == [kind |-> "remove", at |-> 0]
    <2>4. x \in CallStates /\ x.at = 0 /\ call' = [call EXCEPT ![c] = x]
        BY <1>9 DEF CallStates, Kinds, ConfirmDelete, Begin
    <2> HIDE DEF x
    <2>5. call' \in [Calls -> CallStates] /\ Mounted(call', nav'.stack)
        BY <1>0, <2>2, <2>3, <2>4, MountedCall
    <2> QED
        BY <1>0, <1>9, <2>3, <2>5
        DEF ConfirmDelete, TypeOK, NavStates, CallStates, Kinds, Mounted
<1>10. ASSUME NEW c \in Calls, SignOut(c) PROVE TypeOK'
    <2>1. [kind |-> "logout", at |-> 0] \in CallStates
        BY DEF CallStates, Kinds
    <2>2. Grows(c)
        BY <1>0, <1>10, <2>1, NameLemma DEF SignOut, Begin, Grows
    <2> QED
        BY <1>0, <1>10, <2>2, ShapeTypes DEF SignOut
<1>11. ASSUME NEW c \in Calls, UpdateDevice(c) PROVE TypeOK'
    <2>1. nav.stack # <<>> /\ nav.stack[Len(nav.stack)] = "edit" /\ Len(nav.stack) \in Nat \ {0}
        BY <1>0, <1>11, TopLemma, LowerLemma DEF UpdateDevice
    <2> DEFINE x == [kind |-> "update", at |-> Len(nav.stack)]
    <2>2. x \in CallStates /\ x.at = Len(nav.stack) /\ call' = [call EXCEPT ![c] = x]
        BY <1>11, <2>1 DEF CallStates, Kinds, UpdateDevice, Begin
    <2> HIDE DEF x
    <2>3. x.at \in 1..Len(nav.stack) /\ nav.stack[x.at] = "edit"
        BY <2>1, <2>2
    <2>4. nav' \in NavStates /\ \E r \in Routes : nav'.stack \in {nav.stack, Append(nav.stack, r)}
        BY <1>0, <1>11, NameLemma DEF UpdateDevice
    <2>5. Grows(c)
        BY <2>2, <2>3, <2>4 DEF Grows
    <2> QED
        BY <1>0, <1>11, <2>5, ShapeTypes DEF UpdateDevice
<1>12. ASSUME NEW c \in Calls, Fail(c) PROVE TypeOK'
    <2>1. Sinks(c)
        BY <1>12 DEF Fail, Sinks
    <2>2. signedIn' \in BOOLEAN
        BY <1>0, <1>12 DEF Fail
    <2> QED
        BY <1>0, <1>a, <1>12, <2>1, <2>2, ShapeTypes DEF Fail
<1>13. ASSUME NEW c \in Calls, Succeed(c) PROVE TypeOK'
    <2>1. Target[call[c].kind] \in Pages
        BY <1>13, LinksLemma DEF Succeed
    <2>2. Pop(nav) \in NavStates /\ (nav.stack = <<>> => Pop(nav) = nav)
        BY <1>0, PopLemma
    <2>3. nav' \in NavStates /\ \/ nav'.stack = Pop(nav).stack
                                \/ nav'.stack = Append(Pop(nav).stack, Target[call[c].kind])
        BY <1>0, <1>13, <2>1, <2>2, ToLemma DEF Succeed
    <2>4. call' \in [Calls -> CallStates] /\ Mounted(call', Pop(nav).stack)
        BY <1>13, MountedSunk, MountedCall, NoCallLemma DEF Succeed
    <2>5. Pop(nav).stack \in Seq(Routes) /\ Target[call[c].kind] \in Routes
        BY <2>1, <2>2, NameLemma DEF NavStates
    <2>6. ASSUME NEW t \in Seq(Routes), NEW r \in Routes, Mounted(call', t)
          PROVE  Mounted(call', Append(t, r))
        BY <2>6, AppendLemma DEF Mounted
    <2>7. Mounted(call', nav'.stack)
        BY <2>3, <2>4, <2>5, <2>6
    <2> QED
        BY <1>0, <1>a, <1>13, <2>3, <2>4, <2>7
        DEF Succeed, TypeOK, NavStates, CallStates, Kinds, Mounted
<1>14. ASSUME NEW c \in Calls, Removed(c) \/ LoggedOut(c) PROVE TypeOK'
    <2>1. Grows(c)
        BY <1>0, <1>14, <1>b, NoCallLemma DEF Removed, LoggedOut, Grows, Pages
    <2> QED
        BY <1>0, <1>a, <1>14, <2>1, ShapeTypes DEF Removed, LoggedOut
<1>15. ASSUME NEW c \in Calls, Rejected(c) \/ Unmounted(c) PROVE TypeOK'
    <2>1. Grows(c)
        BY <1>0, <1>15, NoCallLemma, NameLemma DEF Rejected, Unmounted, Grows
    <2> QED
        BY <1>0, <1>15, <2>1, ShapeTypes DEF Rejected, Unmounted
<1>16. ASSUME NEW c \in Calls, Updated(c) PROVE TypeOK'
    <2>1. Sinks(c)
        BY <1>16 DEF Updated, Sinks
    <2> QED
        BY <1>0, <1>a, <1>16, <2>1, ShapeTypes DEF Updated
<1>17. CASE UNCHANGED vars
    BY <1>17 DEF vars, TypeOK
<1> QED
    BY <1>1, <1>2, <1>3, <1>4, <1>5, <1>6, <1>7, <1>8, <1>9, <1>10, <1>11, <1>12, <1>13,
       <1>14, <1>15, <1>16, <1>17 DEF Next, Answer

\* The stack is one of routes, GetX's current route has a name, and a call that
\* waits with a dialog knows where it is, for any number of calls and routes.
THEOREM NavigationTypeOK == Spec => []TypeOK
<1> QED
    BY InitTypes, StepTypes, PTL DEF Spec

-----------------------------------------------------------------------------
(* The order of the routes.                                                *)

\* Stack s is in order for the holders H of the loader: LoaderOnTop, and what
\* it needs to be inductive, the page at the bottom and the one below the loader.
InOrder(s, H) ==
    /\ s # <<>> /\ s[1] \in Pages
    /\ \A i \in 1..Len(s) : s[i] = "loader" => i = Len(s)
    /\ TopIs(s, "loader") <=> H # {}
    /\ \A c, d \in H : c = d
    /\ TopIs(s, "loader") => IsPage(s[Len(s) - 1])

\* What is below the top of a stack in order is no loader.
LEMMA OrderBelow ==
    ASSUME NEW s \in Seq(Routes), NEW H, InOrder(s, H)
    PROVE  /\ Len(s) \in Nat \ {0} /\ s[1] \in Pages /\ s[1] # "loader"
           /\ \A i \in 1..(Len(s) - 1) : s[i] # "loader"
           /\ H = {} => \A i \in 1..Len(s) : s[i] # "loader"
           /\ H # {} => Len(s) > 1 /\ Top(s) = "loader" /\ IsPage(s[Len(s) - 1])
<1>1. Len(s) \in Nat \ {0} /\ Top(s) = s[Len(s)] /\ s[1] \in Pages
    BY LowerLemma DEF InOrder
<1>2. "loader" \notin Pages
    BY NameLemma
<1>3. \A i \in 1..(Len(s) - 1) : s[i] # "loader"
    BY <1>1 DEF InOrder
<1>4. H = {} => s[Len(s)] # "loader"
    BY <1>1 DEF InOrder, TopIs
<1>5. H # {} => Top(s) = "loader" /\ IsPage(s[Len(s) - 1])
    BY DEF InOrder, TopIs
<1> QED
    BY <1>1, <1>2, <1>3, <1>4, <1>5

\* A page or a dialog is opened.
LEMMA OrderRise ==
    ASSUME NEW s \in Seq(Routes), InOrder(s, {}), NEW r \in Routes, r # "loader"
    PROVE  InOrder(Append(s, r), {})
<1>1. /\ Append(s, r) # <<>> /\ Len(s) \in Nat \ {0} /\ Len(Append(s, r)) = Len(s) + 1
      /\ \A i \in 1..Len(s) : Append(s, r)[i] = s[i]
      /\ Append(s, r)[Len(s) + 1] = r /\ Top(Append(s, r)) = r
    BY AppendLemma, OrderBelow
<1>2. s[1] \in Pages /\ \A i \in 1..Len(s) : s[i] # "loader"
    BY OrderBelow
<1>3. Append(s, r)[1] \in Pages
    BY <1>1, <1>2
<1>4. \A i \in 1..(Len(s) + 1) : Append(s, r)[i] # "loader"
    BY <1>1, <1>2
<1>5. ~TopIs(Append(s, r), "loader")
    BY <1>1 DEF TopIs
<1> QED
    BY <1>1, <1>3, <1>4, <1>5 DEF InOrder

\* A call opens the loader over a page.
LEMMA OrderOpens ==
    ASSUME NEW s \in Seq(Routes), InOrder(s, {}), IsPage(Top(s)), NEW c
    PROVE  InOrder(Append(s, "loader"), {c})
<1> DEFINE a == Append(s, "loader")
<1>1. /\ a # <<>> /\ Len(s) \in Nat \ {0} /\ Len(a) = Len(s) + 1
      /\ \A i \in 1..Len(s) : a[i] = s[i]
      /\ a[Len(s) + 1] = "loader" /\ Top(a) = "loader"
    BY AppendLemma, OrderBelow, NameLemma
<1>2. s[1] \in Pages /\ \A i \in 1..Len(s) : s[i] # "loader"
    BY OrderBelow
<1>3. Top(s) = s[Len(s)]
    BY DEF Top
<1> HIDE DEF a
<1>4. a[1] \in Pages /\ IsPage(a[Len(a) - 1])
    BY <1>1, <1>2, <1>3
<1>5. \A i \in 1..Len(a) : a[i] = "loader" => i = Len(a)
    BY <1>1, <1>2
<1>6. TopIs(a, "loader")
    BY <1>1 DEF TopIs
<1>7. InOrder(a, {c})
    BY <1>1, <1>4, <1>5, <1>6 DEF InOrder
<1> QED
    BY <1>7 DEF a

\* A route is popped, the loader or another one.
LEMMA OrderFalls ==
    ASSUME NEW s \in Seq(Routes), NEW H, InOrder(s, H), Len(s) > 1
    PROVE  InOrder(Lower(s), {})
<1>1. /\ Lower(s) \in Seq(Routes) /\ Len(s) \in Nat \ {0} /\ Len(Lower(s)) = Len(s) - 1
      /\ \A i \in 1..(Len(s) - 1) : Lower(s)[i] = s[i]
      /\ Lower(s) # <<>>
    BY LowerLemma, OrderBelow
<1>2. s[1] \in Pages /\ \A i \in 1..(Len(s) - 1) : s[i] # "loader"
    BY OrderBelow
<1>3. Lower(s)[1] \in Pages /\ \A i \in 1..Len(Lower(s)) : Lower(s)[i] # "loader"
    BY <1>1, <1>2
<1>4. ~TopIs(Lower(s), "loader")
    BY <1>1, <1>3 DEF TopIs, Top
<1> QED
    BY <1>1, <1>3, <1>4 DEF InOrder

\* One page is left.
LEMMA OrderOne == ASSUME NEW r \in Pages PROVE InOrder(<<r>>, {})
<1>1. r # "loader" /\ r \in Routes
    BY NameLemma
<1>2. <<r>> # <<>> /\ Len(<<r>>) = 1 /\ <<r>>[1] = r
    OBVIOUS
<1>3. ~TopIs(<<r>>, "loader")
    BY <1>1, <1>2 DEF TopIs, Top
<1> QED
    BY <1>1, <1>2, <1>3 DEF InOrder

-----------------------------------------------------------------------------
(* Every step keeps the order in one of five ways, or loses it.            *)

Ordered == ~stray => InOrder(nav.stack, Holders)

Rests == nav'.stack = nav.stack /\ Holders' = Holders

Moves ==
    /\ Holders = {} /\ Holders' = {}
    /\ \/ \E r \in Routes \ {"loader"} : nav'.stack = Append(nav.stack, r)
       \/ \E r \in Pages : nav'.stack = <<r>>
       \/ Len(nav.stack) > 1 /\ nav'.stack = Lower(nav.stack)

Opens(c) ==
    /\ Holders = {} /\ Holders' = {c}
    /\ IsPage(Top(nav.stack))
    /\ nav'.stack = Append(nav.stack, "loader")

Closes(c) ==
    /\ Holders = {c} /\ Holders' = {}
    /\ \/ nav'.stack = Lower(nav.stack)
       \/ \E r \in Pages : nav'.stack = Append(Lower(nav.stack), r)

Restarts == nav' = Splash /\ Holders' = {} /\ ~stray'

\* Whom a step makes a holder of the loader: the calls whose kind it changes.
LEMMA HoldersLemma ==
    ASSUME NEW cs \in [Calls -> CallStates],
           \A d \in Calls : cs[d].kind = call[d].kind
    PROVE  /\ call' = cs => Holders' = Holders
           /\ \A c \in Calls, x \in CallStates :
                 call' = [cs EXCEPT ![c] = x] =>
                    /\ x.kind \notin Loading => Holders' = Holders \ {c}
                    /\ x.kind \in Loading => Holders' = Holders \cup {c}
BY DEF Holders

LEMMA SunkKinds ==
    ASSUME TypeOK, NEW n \in Int
    PROVE  /\ Sunk(n) \in [Calls -> CallStates]
           /\ \A c \in Calls : Sunk(n)[c].kind = call[c].kind
<1>1. call \in [Calls -> CallStates]
    BY TypeParts
<1>2. \A c \in Calls : /\ [call[c] EXCEPT !.at = 0] \in CallStates
                       /\ [call[c] EXCEPT !.at = 0].kind = call[c].kind
    BY <1>1 DEF CallStates
<1> QED
    BY <1>1, <1>2 DEF Sunk

\* What the user sees is no loader: nobody holds it.
LEMMA SeesOther ==
    ASSUME InOrder(nav.stack, Holders), NEW r, r # "loader", Sees(r)
    PROVE  Holders = {}
BY DEF InOrder, Sees, TopIs

\* A dialog on top of a stack in order is not alone.
LEMMA DialogAbove ==
    ASSUME NEW s \in Seq(Routes), NEW H, InOrder(s, H), Top(s) \in Popups
    PROVE  Len(s) > 1
<1>1. Len(s) \in Nat \ {0} /\ s[1] \in Pages /\ Top(s) = s[Len(s)]
    BY OrderBelow DEF Top
<1>2. Pages \cap Popups = {}
    BY DEF Pages, Popups
<1> QED
    BY <1>1, <1>2

\* Get.to on a free screen moves or rests.
LEMMA ToShape ==
    ASSUME TypeOK, NEW page \in Pages, nav' = To(nav, page), Holders = {}, Holders' = {}
    PROVE  Rests \/ Moves
<1>1. nav \in NavStates
    BY TypeParts
<1>2. nav' = nav \/ nav'.stack = Append(nav.stack, page)
    BY <1>1, ToLemma
<1>3. page \in Routes \ {"loader"}
    BY NameLemma
<1> QED
    BY <1>2, <1>3 DEF Rests, Moves

LEMMA Shapes ==
    ASSUME TypeOK, Ordered, [Next]_vars, ~stray, ~stray'
    PROVE  Restarts \/ Rests \/ Moves \/ \E c \in Calls : Opens(c) \/ Closes(c)
<1>0. /\ nav \in NavStates /\ nav.stack \in Seq(Routes) /\ call \in [Calls -> CallStates]
      /\ timer \in {"Home", "Signin", Null} /\ InOrder(nav.stack, Holders)
      /\ nav.stack # <<>> /\ Len(nav.stack) \in Nat \ {0}
    BY TypeParts, OrderBelow DEF NavStates, Ordered, InOrder
<1>a. \A c \in Calls, x \in CallStates :
          call' = [call EXCEPT ![c] = x] =>
             /\ x.kind \notin Loading => Holders' = Holders \ {c}
             /\ x.kind \in Loading => Holders' = Holders \cup {c}
    BY <1>0, HoldersLemma
<1>b. call' = call \/ (\E n \in Int : call' = Sunk(n)) => Holders' = Holders
    BY <1>0, SunkKinds, HoldersLemma
<1>c. \A c \in Calls : call[c].kind \notin Loading => Holders \ {c} = Holders
    BY DEF Holders
<1>d. /\ NoCall \in CallStates /\ NoCall.kind \notin Loading
      /\ \A kind \in Kinds, n \in Nat : /\ [kind |-> kind, at |-> n] \in CallStates
                                        /\ [kind |-> kind, at |-> n].kind = kind
      /\ "idle" \notin Loading /\ "remove" \notin Loading /\ "logout" \notin Loading
      /\ "update" \notin Loading /\ {"remove", "logout", "update"} \cup Loading \subseteq Kinds
    BY DEF NoCall, CallStates, Kinds, Loading
<1>e. \A c \in Calls : call' = [Sunk(Len(nav.stack) - 1) EXCEPT ![c] = NoCall] =>
                           Holders' = Holders \ {c}
    BY <1>0, <1>d, SunkKinds, HoldersLemma
<1>f. Pop(nav).stack = Lower(nav.stack) /\ Pop(nav) \in NavStates
    BY <1>0, PopLemma
<1>g. \A c \in Calls : call' = [call EXCEPT ![c] = NoCall] /\ call[c].kind \notin Loading =>
                           Holders' = Holders
    BY <1>a, <1>c, <1>d
<1>1. CASE OpenPage
    <2>a. PICK r \in Routes : \E page \in Links(r) : Sees(r) /\ nav' = To(nav, page)
        BY <1>1 DEF OpenPage
    <2>1. PICK page \in Links(r) : Sees(r) /\ nav' = To(nav, page)
        BY <2>a
    <2>2. r # "loader" /\ page \in Pages
        BY <2>1, LinksLemma
    <2>3. Holders = {} /\ Holders' = Holders
        BY <1>0, <1>1, <1>b, <2>1, <2>2, SeesOther DEF OpenPage
    <2> QED
        BY <2>1, <2>2, <2>3, ToShape
<1>2. CASE OpenDrawer
    <2>1. Holders = {} /\ Holders' = Holders
        BY <1>0, <1>2, <1>b, SeesOther DEF OpenDrawer
    <2>2. nav'.stack = Append(nav.stack, "drawer") /\ "drawer" \in Routes \ {"loader"}
        BY <1>0, <1>2, NameLemma DEF OpenDrawer, NavStates
    <2> QED
        BY <2>1, <2>2 DEF Moves
<1>3. CASE OpenDialog
    <2>a. PICK r \in Routes : \E d \in Dialogs(r) : Sees(r) /\ nav' = Push(nav, d)
        BY <1>3 DEF OpenDialog
    <2>1. PICK d \in Dialogs(r) : Sees(r) /\ nav' = Push(nav, d)
        BY <2>a
    <2>2. r # "loader" /\ d \in Popups \ {"loader"}
        BY <2>1, LinksLemma
    <2>3. d \in Routes \ {"loader"}
        BY <2>2, NameLemma
    <2>4. Holders = {} /\ Holders' = Holders
        BY <1>0, <1>3, <1>b, <2>1, <2>2, SeesOther DEF OpenDialog
    <2>5. nav'.stack = Append(nav.stack, d)
        BY <1>0, <2>1, <2>3, PushLemma
    <2> QED
        BY <2>3, <2>4, <2>5 DEF Moves
<1>4. CASE CreateAccount
    <2>1. Holders = {} /\ Holders' = Holders
        BY <1>0, <1>4, <1>b, SeesOther DEF CreateAccount
    <2>2. nav'.stack = <<"Signup">> /\ "Signup" \in Pages
        BY <1>4 DEF CreateAccount, OffAll, Pages
    <2> QED
        BY <2>1, <2>2 DEF Moves
<1>5. CASE Back
    <2>1. Holders = {}
        BY <1>0, <1>5 DEF Back, InOrder, Sees
    <2>2. Holders' = Holders
        BY <1>0, <1>5, <1>b DEF Back
    <2> QED
        BY <1>5, <1>f, <2>1, <2>2 DEF Back, Moves
<1>6. CASE SplashDone
    <2>1. Holders = {}
        BY <1>0, <1>6 DEF SplashDone, InOrder, Sees
    <2>2. Holders' = Holders /\ timer \in Pages
        BY <1>0, <1>6, <1>b DEF SplashDone, Pages
    <2> QED
        BY <1>6, <2>1, <2>2, ToShape DEF SplashDone
<1>7. CASE Restart
    <2>1. Holders' = {}
        BY <1>7, <1>d DEF Restart, Holders
    <2> QED
        BY <1>7, <2>1 DEF Restart, Restarts
<1>8. ASSUME NEW c \in Calls, NEW kind \in Loading, Load(c, kind) PROVE Opens(c)
    <2>1. PICK r \in Origins[kind] : Sees(r)
        BY <1>8 DEF Load
    <2>2. IsPage(r) /\ r # "loader"
        BY <2>1, LinksLemma
    <2>3. Holders = {} /\ Top(nav.stack) = r
        BY <1>0, <2>1, <2>2, SeesOther, TopLemma
    <2>a. [kind |-> kind, at |-> 0] \in CallStates /\ [kind |-> kind, at |-> 0].kind \in Loading
        BY <1>d
    <2>b. call' = [call EXCEPT ![c] = [kind |-> kind, at |-> 0]]
        BY <1>8 DEF Load, Begin
    <2>4. Holders' = Holders \cup {c}
        BY <1>a, <2>a, <2>b
    <2>5. nav'.stack = Append(nav.stack, "loader")
        BY <1>0, <1>8, PushLemma, NameLemma DEF Load
    <2> QED
        BY <2>2, <2>3, <2>4, <2>5 DEF Opens
<1>9. ASSUME NEW c \in Calls, ConfirmDelete(c) PROVE Moves
    <2>1. Holders = {} /\ Top(nav.stack) = "confirm"
        BY <1>0, <1>9, SeesOther, TopLemma DEF ConfirmDelete
    <2>2. Holders' = Holders \ {c}
        BY <1>9, <1>a, <1>d DEF ConfirmDelete, Begin
    <2>3. Len(nav.stack) > 1
        BY <1>0, <2>1, DialogAbove DEF Popups
    <2> QED
        BY <1>9, <1>f, <2>1, <2>2, <2>3 DEF ConfirmDelete, Moves
<1>10. ASSUME NEW c \in Calls, SignOut(c) \/ UpdateDevice(c) PROVE Rests
    <2>1. Holders' = Holders \ {c} /\ call[c].kind = "idle"
        BY <1>0, <1>10, <1>a, <1>d DEF SignOut, UpdateDevice, Begin
    <2> QED
        BY <1>10, <1>c, <1>d, <2>1 DEF SignOut, UpdateDevice, Rests
<1>11. ASSUME NEW c \in Calls, Fail(c) PROVE Closes(c)
    <2>1. c \in Holders
        BY <1>11 DEF Fail, Holders
    <2>2. Holders = {c} /\ Holders' = {}
        BY <1>0, <1>11, <1>e, <2>1 DEF InOrder, Fail
    <2> QED
        BY <1>11, <1>f, <2>2 DEF Fail, Closes
<1>12. ASSUME NEW c \in Calls, Succeed(c) PROVE Closes(c)
    <2>1. c \in Holders
        BY <1>12 DEF Succeed, Holders
    <2>2. Holders = {c} /\ Holders' = {}
        BY <1>0, <1>12, <1>e, <2>1 DEF InOrder, Succeed
    <2>3. Target[call[c].kind] \in Pages /\ nav' = To(Pop(nav), Target[call[c].kind])
        BY <1>0, <1>12, LinksLemma DEF Succeed
    <2>4. \/ nav'.stack = Lower(nav.stack)
          \/ nav'.stack = Append(Lower(nav.stack), Target[call[c].kind])
        BY <1>f, <2>3, ToLemma
    <2> QED
        BY <2>2, <2>3, <2>4 DEF Closes
<1>13. ASSUME NEW c \in Calls, Removed(c) \/ LoggedOut(c) PROVE Rests \/ Moves
    <2>1. PICK page \in Pages : nav' = To(nav, page)
        BY <1>13 DEF Removed, LoggedOut, Pages
    <2>2. Holders' = Holders
        BY <1>13, <1>d, <1>g DEF Removed, LoggedOut
    <2>3. CASE nav' = nav
        BY <2>2, <2>3 DEF Rests
    <2>4. CASE nav' # nav
        <3>1. ~Sees("loader")
            BY <1>13, <2>4 DEF Removed, LoggedOut
        <3>2. Holders = {}
            BY <1>0, <3>1 DEF InOrder, Sees
        <3> QED
            BY <2>1, <2>2, <3>2, ToShape
    <2> QED
        BY <2>3, <2>4
<1>14. ASSUME NEW c \in Calls, Rejected(c) \/ Unmounted(c) PROVE Rests
    BY <1>14, <1>d, <1>g DEF Rejected, Unmounted, Rests
<1>15. ASSUME NEW c \in Calls, Updated(c) PROVE Moves
    <2>1. call[c].at = Len(nav.stack) /\ call[c].kind \notin Loading
        BY <1>15, <1>d DEF Updated
    <2>2. Top(nav.stack) = "edit"
        BY <1>0, <2>1, TypeParts DEF Mounted, Top
    <2>3. Holders = {}
        BY <1>0, <2>2 DEF InOrder, TopIs
    <2>4. Len(nav.stack) > 1
        BY <1>0, <2>2, DialogAbove DEF Popups
    <2>5. Holders' = {}
        BY <1>15, <1>e, <2>3 DEF Updated
    <2> QED
        BY <1>15, <1>f, <2>3, <2>4, <2>5 DEF Updated, Moves
<1>16. CASE UNCHANGED vars
    BY <1>16, <1>b DEF vars, Rests
<1> QED
    BY <1>1, <1>2, <1>3, <1>4, <1>5, <1>6, <1>7, <1>8, <1>9, <1>10, <1>11, <1>12, <1>13,
       <1>14, <1>15, <1>16 DEF Next, Answer

\* The splash page waits on a fresh stack.
Waiting ==
    timer # Null => nav = Splash /\ ~stray /\ \A c \in Calls : call[c] = NoCall

NavInv == TypeOK /\ Ordered /\ Waiting

LEMMA SplashOrder == InOrder(Splash.stack, {}) /\ Splash.stack = <<"Splash">>
<1>1. "Splash" \in Pages /\ Splash.stack = <<"Splash">>
    BY DEF Splash, Pages
<1> QED
    BY <1>1, OrderOne

\* A step in one of the five shapes keeps the order.
LEMMA ShapeOrder ==
    ASSUME TypeOK, InOrder(nav.stack, Holders),
           Restarts \/ Rests \/ Moves \/ \E c \in Calls : Opens(c) \/ Closes(c)
    PROVE  InOrder(nav'.stack, Holders')
<1>0. nav.stack \in Seq(Routes)
    BY TypeParts DEF NavStates
<1>1. CASE Restarts
    BY <1>1, SplashOrder DEF Restarts
<1>2. CASE Rests
    BY <1>2 DEF Rests
<1>3. CASE Moves
    BY <1>0, <1>3, OrderRise, OrderOne, OrderFalls DEF Moves
<1>4. ASSUME NEW c \in Calls, Opens(c) PROVE InOrder(nav'.stack, Holders')
    BY <1>0, <1>4, OrderOpens DEF Opens
<1>5. ASSUME NEW c \in Calls, Closes(c) PROVE InOrder(nav'.stack, Holders')
    <2>1. Len(nav.stack) > 1 /\ nav.stack # <<>>
        BY <1>0, <1>5, OrderBelow DEF Closes, InOrder
    <2>2. InOrder(Lower(nav.stack), {}) /\ Lower(nav.stack) \in Seq(Routes)
        BY <1>0, <2>1, OrderFalls, LowerLemma
    <2>3. \A r \in Pages : r \in Routes /\ r # "loader"
        BY NameLemma
    <2> QED
        BY <1>5, <2>2, <2>3, OrderRise DEF Closes
<1> QED
    BY <1>1, <1>2, <1>3, <1>4, <1>5

LEMMA InitInv == Init => NavInv
<1> SUFFICES ASSUME Init PROVE NavInv
    OBVIOUS
<1>1. TypeOK
    BY InitTypes
<1>2. Holders = {}
    BY DEF Init, Holders, NoCall, Loading
<1>3. Ordered
    BY <1>2, SplashOrder DEF Init, Ordered
<1>4. Waiting
    BY DEF Init, Waiting
<1> QED
    BY <1>1, <1>3, <1>4 DEF NavInv

\* While the splash page waits, nothing can be done on it.
LEMMA StepWaiting == NavInv /\ [Next]_vars => Waiting'
<1> SUFFICES ASSUME NavInv, [Next]_vars, timer' # Null
             PROVE  nav' = Splash /\ ~stray' /\ \A c \in Calls : call'[c] = NoCall
    BY DEF Waiting
<1>1. CASE Restart
    BY <1>1 DEF Restart
<1>2. CASE timer # Null /\ ~Restart
    <2>1. nav = Splash /\ ~stray /\ \A c \in Calls : call[c] = NoCall
        BY <1>2 DEF NavInv, Waiting
    <2>2. Len(nav.stack) = 1 /\ Top(nav.stack) = "Splash"
        BY <2>1 DEF Splash, Top
    <2>3. \A r : Sees(r) => r = "Splash"
        BY <2>2 DEF Sees, TopIs
    <2>4. ~OpenPage /\ ~OpenDialog
        BY <2>3, LinksLemma DEF OpenPage, OpenDialog
    <2>5. ~OpenDrawer /\ ~CreateAccount /\ ~Back /\ ~SplashDone
        BY <1>2, <2>2, <2>3 DEF OpenDrawer, CreateAccount, Back, SplashDone
    <2>6. ASSUME NEW c \in Calls PROVE ~Answer(c)
        <3>1. call[c].kind = "idle"
            BY <2>1 DEF NoCall
        <3> QED
            BY <3>1 DEF Answer, Fail, Succeed, Removed, LoggedOut, Rejected, Updated,
                        Unmounted, Loading
    <2>7. ASSUME NEW c \in Calls PROVE ~ConfirmDelete(c) /\ ~SignOut(c) /\ ~UpdateDevice(c)
        BY <2>3 DEF ConfirmDelete, SignOut, UpdateDevice
    <2>8. ASSUME NEW c \in Calls, NEW kind \in Loading PROVE ~Load(c, kind)
        <3>1. "Splash" \notin Origins[kind]
            BY DEF Origins, Loading
        <3> QED
            BY <2>3, <3>1 DEF Load
    <2>9. UNCHANGED vars
        BY <1>2, <2>4, <2>5, <2>6, <2>7, <2>8 DEF Next
    <2> QED
        BY <2>1, <2>9 DEF vars
<1>3. CASE timer = Null /\ ~Restart
    BY <1>3 DEF Next, Answer, vars, OpenPage, OpenDrawer, OpenDialog, CreateAccount, Back,
                SplashDone, Load, ConfirmDelete, SignOut, UpdateDevice, Fail, Succeed,
                Removed, LoggedOut, Rejected, Updated, Unmounted
<1> QED
    BY <1>1, <1>2, <1>3

\* An order that is lost comes back with a restart only.
LEMMA StrayStays == TypeOK /\ [Next]_vars /\ stray /\ ~stray' => Restarts
<1> SUFFICES ASSUME TypeOK, [Next]_vars, stray, ~stray' PROVE Restarts
    OBVIOUS
<1>1. Restart
    BY DEF Next, Answer, vars, OpenPage, OpenDrawer, OpenDialog, CreateAccount, Back,
           SplashDone, Load, ConfirmDelete, SignOut, UpdateDevice, Fail, Succeed,
           Removed, LoggedOut, Rejected, Updated, Unmounted
<1>2. Holders' = {}
    BY <1>1 DEF Restart, Holders, NoCall, Loading
<1> QED
    BY <1>1, <1>2 DEF Restart, Restarts

LEMMA StepInv == NavInv /\ [Next]_vars => NavInv'
<1> SUFFICES ASSUME NavInv, [Next]_vars PROVE NavInv'
    OBVIOUS
<1>1. TypeOK'
    BY StepTypes DEF NavInv
<1>2. Waiting'
    BY StepWaiting
<1>3. ASSUME ~stray' PROVE InOrder(nav'.stack, Holders')
    <2>1. CASE ~stray
        BY <1>3, <2>1, Shapes, ShapeOrder DEF NavInv, Ordered
    <2>2. CASE stray
        BY <1>3, <2>2, StrayStays, SplashOrder DEF NavInv, Restarts
    <2> QED
        BY <2>1, <2>2
<1>4. Ordered'
    BY <1>3 DEF Ordered, InOrder
<1> QED
    BY <1>1, <1>2, <1>4 DEF NavInv

\* The stack keeps its order under every tap, answer and kill, as long as no
\* pop of stopLoading() or of a dialog has gone astray: the inductive invariant.
THEOREM NavigationInv == Spec => []NavInv
<1> QED
    BY InitInv, StepInv, PTL DEF Spec

\* As long as no route has gone astray, a loader is shown exactly while one
\* call has it to close, and stopLoading() pops it, for any number of calls in
\* flight, pages and routes.
THEOREM NavigationLoaderOnTop == Spec => []LoaderOnTop
<1>1. NavInv => LoaderOnTop
    <2> SUFFICES ASSUME NavInv, ~stray
                 PROVE  /\ nav.stack # <<>> /\ nav.stack[1] # "loader"
                        /\ \A i \in DOMAIN nav.stack :
                              nav.stack[i] = "loader" => i = Len(nav.stack)
                        /\ Sees("loader") <=> Holders # {}
                        /\ \A c, d \in Holders : c = d
        BY DEF LoaderOnTop
    <2>1. nav.stack \in Seq(Routes) /\ InOrder(nav.stack, Holders)
        BY TypeParts DEF NavInv, NavStates, Ordered
    <2>2. nav.stack[1] # "loader" /\ DOMAIN nav.stack = 1..Len(nav.stack)
        BY <2>1, OrderBelow
    <2> QED
        BY <2>1, <2>2 DEF InOrder, Sees
<1> QED
    BY <1>1, NavigationInv, PTL

\* The order of the routes is lost only where a deletion or a sign-out opens
\* its page under a loader's call, or a dialog pops itself late: no other step
\* of the code can put a route where it does not belong.
THEOREM NavigationLostBy == Spec => LostBy
<1>1. NavInv /\ [Next]_vars =>
          (~stray /\ stray' => \E c \in Calls : /\ call[c].kind \in {"remove", "logout", "update"}
                                                /\ call'[c] = NoCall)
    <2> SUFFICES ASSUME NavInv, [Next]_vars, ~stray, stray'
                 PROVE  \E c \in Calls : /\ call[c].kind \in {"remove", "logout", "update"}
                                         /\ call'[c] = NoCall
        OBVIOUS
    <2>0. /\ InOrder(nav.stack, Holders) /\ call \in [Calls -> CallStates]
          /\ nav.stack \in Seq(Routes)
        BY TypeParts DEF NavInv, Ordered, NavStates
    <2>1. ~SplashDone
        <3>1. ASSUME timer # Null PROVE ~Sees("loader")
            BY <3>1 DEF NavInv, Waiting, Splash, Sees, TopIs, Top
        <3> QED
            BY <3>1 DEF SplashDone
    <2>2. ASSUME NEW c \in Calls PROVE ~Fail(c) /\ ~Succeed(c)
        <3>1. call[c].kind \in Loading => Sees("loader")
            BY <2>0 DEF InOrder, Sees, Holders
        <3> QED
            BY <3>1 DEF Fail, Succeed
    <2>3. PICK c \in Calls : Removed(c) \/ LoggedOut(c) \/ Updated(c)
        BY <2>1, <2>2 DEF Next, Answer, vars, OpenPage, OpenDrawer, OpenDialog,
               CreateAccount, Back, Restart, Load, ConfirmDelete, SignOut, UpdateDevice,
               Rejected, Unmounted
    <2>4. Sunk(Len(nav.stack) - 1) \in [Calls -> CallStates]
        BY <2>0, MountedSunk DEF NavInv
    <2>5. call'[c] = NoCall
        BY <2>0, <2>3, <2>4 DEF Removed, LoggedOut, Updated
    <2> QED
        BY <2>3, <2>5 DEF Removed, LoggedOut, Updated
<1> QED
    BY <1>1, NavigationInv, PTL DEF Spec, LostBy

\* A call that succeeds ends on the page it promises: GetX's current route,
\* which decides whether Get.to pushes, is right after the loader is popped.
THEOREM NavigationSuccessIsSeen == Spec => SuccessIsSeen
<1>1. NavInv =>
          \A c \in Calls : Succeed(c) /\ ~stray => Name(Top(nav'.stack)) = Target[call[c].kind]
    <2> SUFFICES ASSUME NavInv, NEW c \in Calls, Succeed(c), ~stray
                 PROVE  Name(Top(nav'.stack)) = Target[call[c].kind]
        OBVIOUS
    <2>0. /\ InOrder(nav.stack, Holders) /\ nav \in NavStates /\ nav.stack \in Seq(Routes)
        BY TypeParts DEF NavInv, Ordered, NavStates
    <2>1. c \in Holders /\ nav.stack # <<>>
        BY <2>0 DEF Succeed, Holders, InOrder
    <2>2. Len(nav.stack) > 1 /\ Top(nav.stack) = "loader" /\ IsPage(nav.stack[Len(nav.stack) - 1])
        BY <2>0, <2>1, OrderBelow
    <2>3. /\ Lower(nav.stack) \in Seq(Routes) /\ Lower(nav.stack) # <<>>
          /\ Top(Lower(nav.stack)) = nav.stack[Len(nav.stack) - 1]
        <3>1. /\ Lower(nav.stack) \in Seq(Routes) /\ Lower(nav.stack) # <<>>
              /\ Len(Lower(nav.stack)) = Len(nav.stack) - 1 /\ Len(nav.stack) \in Nat
              /\ \A i \in 1..(Len(nav.stack) - 1) : Lower(nav.stack)[i] = nav.stack[i]
            BY <2>0, <2>1, <2>2, LowerLemma
        <3> QED
            BY <2>2, <3>1 DEF Top
    <2>4. /\ Pop(nav) \in NavStates /\ Pop(nav).stack = Lower(nav.stack)
          /\ Pop(nav).current = Name(Top(Lower(nav.stack)))
        BY <2>0, <2>1, <2>2, <2>3, PopLemma
    <2> DEFINE page == Target[call[c].kind]
    <2>5. page \in Pages /\ nav' = To(Pop(nav), page)
        BY <2>1, LinksLemma DEF Succeed
    <2>6. page \in Routes /\ Name(page) = page
        BY <2>5, NameLemma
    <2> HIDE DEF page
    <2>7. ASSUME Pop(nav).current = page PROVE Name(Top(nav'.stack)) = page
        BY <2>4, <2>5, <2>7, ToLemma
    <2>8. ASSUME Pop(nav).current # page PROVE Name(Top(nav'.stack)) = page
        <3>1. nav'.stack = Append(Lower(nav.stack), page)
            BY <2>4, <2>5, <2>8, ToLemma
        <3> QED
            BY <2>3, <2>6, <3>1, AppendLemma
    <2>9. Name(Top(nav'.stack)) = page
        BY <2>7, <2>8
    <2> QED
        BY <2>9 DEF page
<1> QED
    BY <1>1, NavigationInv, PTL DEF Spec, SuccessIsSeen

-----------------------------------------------------------------------------
(* The refinement.                                                         *)

Below ==
    IF stray THEN <<>>
    ELSE IF Sees("loader") THEN SubSeq(nav.stack, 1, Len(nav.stack) - 1)
    ELSE nav.stack

\* What the mapping makes of a state in order.
LEMMA MappingLemma ==
    ASSUME ~stray, InOrder(nav.stack, Holders)
    PROVE  /\ Holders = {} => Holder = "Free" /\ Below = nav.stack
           /\ \A c : Holders = {c} => Holder = c /\ Below = Lower(nav.stack)
BY DEF Holder, Below, Lower, InOrder, Sees

LEMMA MappingPrimed ==
    ASSUME ~stray', InOrder(nav'.stack, Holders')
    PROVE  /\ Holders' = {} => Holder' = "Free" /\ Below' = nav'.stack
           /\ \A c : Holders' = {c} => Holder' = c /\ Below' = Lower(nav'.stack)
BY DEF Holder, Below, Lower, InOrder, Sees

\* Whatever is in flight, the screen behaves as PageFlow says: a call that
\* shows the loader has it to itself, and nothing moves below it.
THEOREM NavigationImplementsFlow == Spec => FlowSpec
<1>1. Init => Flow!FlowInit
    <2> SUFFICES ASSUME Init PROVE Flow!FlowInit
        OBVIOUS
    <2>1. NavInv /\ ~stray /\ nav.stack = <<"Splash">> /\ "Splash" \in Routes
        BY InitInv, SplashOrder, NameLemma DEF Init, Pages
    <2>2. Holders = {}
        BY DEF Init, Holders, NoCall, Loading
    <2>3. Holder = "Free" /\ Below = nav.stack
        BY <2>1, <2>2, MappingLemma DEF NavInv, Ordered
    <2> QED
        BY <2>1, <2>3 DEF Flow!FlowInit, Below
<1>2. NavInv /\ NavInv' /\ [Next]_vars => [Flow!FlowNext]_(Flow!flowVars)
    <2> SUFFICES ASSUME NavInv, NavInv', [Next]_vars
                 PROVE  Flow!FlowNext \/ (Below' = Below /\ Holder' = Holder)
        BY DEF Flow!flowVars, Below
    <2>0. /\ nav.stack \in Seq(Routes) /\ TypeOK
          /\ ~stray => InOrder(nav.stack, Holders)
          /\ ~stray' => InOrder(nav'.stack, Holders')
        BY TypeParts DEF NavInv, Ordered, InOrder, NavStates
    <2>1. ASSUME stray' PROVE Holder' = "Lost" /\ Below' = <<>>
        BY <2>1 DEF Holder, Below
    <2>2. ASSUME stray PROVE Holder = "Lost" /\ Below = <<>>
        BY <2>2 DEF Holder, Below
    <2>3. CASE stray /\ stray'
        BY <2>1, <2>2, <2>3
    <2>4. CASE ~stray /\ stray'
        <3>1. Holder # "Lost"
            <4>1. CASE Holders = {}
                BY <2>4, <4>1 DEF Holder
            <4>2. CASE Holders # {}
                <5>1. Holder \in Calls
                    BY <2>4, <4>2 DEF Holder, Holders
                <5> QED
                    BY <5>1, CallsAssumption
            <4> QED
                BY <4>1, <4>2
        <3> QED
            BY <2>1, <2>4, <3>1 DEF Flow!FlowNext, Flow!Lose, Below
    <2>5. ASSUME Restarts PROVE Flow!FlowNext
        <3>1. nav'.stack = <<"Splash">> /\ "Splash" \in Routes
            BY <2>5, SplashOrder, NameLemma DEF Restarts, Pages
        <3>2. Holder' = "Free" /\ Below' = nav'.stack
            BY <2>0, <2>5, MappingPrimed DEF Restarts
        <3> QED
            BY <3>1, <3>2 DEF Flow!FlowNext, Flow!StartAgain, Flow!FlowInit, Below
    <2>6. CASE stray /\ ~stray'
        BY <2>0, <2>5, <2>6, StrayStays
    <2>7. CASE ~stray /\ ~stray'
        <3>1. InOrder(nav.stack, Holders) /\ InOrder(nav'.stack, Holders')
            BY <2>0, <2>7
        <3>2. CASE Rests
            <4>1. Sees("loader")' <=> Sees("loader")
                BY <3>2 DEF Rests, Sees
            <4> QED
                BY <2>7, <3>2, <4>1 DEF Rests, Holder, Below
        <3>3. CASE Moves
            <4>1. /\ Holder = "Free" /\ Below = nav.stack
                  /\ Holder' = "Free" /\ Below' = nav'.stack
                BY <2>7, <3>1, <3>3, MappingLemma, MappingPrimed DEF Moves
            <4>2. Pages \subseteq Routes
                BY NameLemma
            <4> QED
                BY <3>3, <4>1, <4>2 DEF Moves, Flow!FlowNext, Flow!Move, Below, Lower
        <3>4. ASSUME NEW c \in Calls, Opens(c) PROVE Flow!FlowNext
            <4>1. Holder = "Free" /\ Below = nav.stack /\ Holder' = c
                BY <2>7, <3>1, <3>4, MappingLemma, MappingPrimed DEF Opens
            <4>2. Below' = Lower(Append(nav.stack, "loader"))
                BY <2>7, <3>1, <3>4, MappingPrimed DEF Opens
            <4>3. Below' = Below
                BY <2>0, <4>1, <4>2, AppendLemma, NameLemma
            <4> QED
                BY <4>1, <4>3 DEF Flow!FlowNext, Flow!Open, Below
        <3>5. ASSUME NEW c \in Calls, Closes(c) PROVE Flow!FlowNext
            <4>1. /\ Holder = c /\ Below = Lower(nav.stack)
                  /\ Holder' = "Free" /\ Below' = nav'.stack
                BY <2>7, <3>1, <3>5, MappingLemma, MappingPrimed DEF Closes
            <4>2. Pages \subseteq Routes
                BY NameLemma
            <4>3. Below' = Below \/ \E r \in Routes : Below' = Append(Below, r)
                BY <3>5, <4>1, <4>2 DEF Closes
            <4> QED
                BY <4>1, <4>3 DEF Flow!FlowNext, Flow!Close, Below
        <3> QED
            BY <2>0, <2>5, <2>7, <3>2, <3>3, <3>4, <3>5, Shapes DEF Ordered
    <2> QED
        BY <2>3, <2>4, <2>6, <2>7
<1> QED
    BY <1>1, <1>2, NavigationInv, PTL DEF Spec, FlowSpec, Flow!FlowSpec

=============================================================================
