------------------------- MODULE ScheduleController -------------------------
(***************************************************************************)
(* The weekly calendar of one device: ScheduleController and the form that *)
(* edits it, on several phones.                                            *)
(*                                                                         *)
(* A calendar is stored as one child per day, under the name of the day in *)
(* the language of the phone that saved it.  saveSchedule() sends one      *)
(* awaited update per day, each with what the form shows at that moment;   *)
(* the listener on the calendar copies the stored rows back into the form  *)
(* whenever the phone's view of it changes, and the phone's own update     *)
(* changes that view at once, before the server has answered.              *)
(*                                                                         *)
(* The four times of a row are edited and written together and are one     *)
(* text here.                                                              *)
(***************************************************************************)
EXTENDS Naturals, Sequences, FiniteSets

CONSTANTS
    Phones,
    Languages,  \* what the days are named in
    DayCount,   \* the length of the list days, 7 in the code
    Texts,      \* what a row of the form can hold
    Dash,       \* the "-" an empty row shows
    Null,       \* a day that is not stored
    MaxSaves    \* bound: saves one phone has in flight

ASSUME DayCountAssumption == DayCount \in Nat \ {0}
ASSUME TextsAssumption == Dash \in Texts /\ Null \notin Texts

VARIABLES
    stored,     \* ShutterDevices/<id>/Schedule on the server
    form,       \* whether the form is open, and the language of its days
    fields,     \* the text controllers of its rows
    wire,       \* the updates sent and not answered, oldest first
    isSaving,   \* the spinner on the save button
    news,       \* whether the listener is owed an event
    saved,      \* history of a running save: the rows as they were at the tap,
                \* whether none was stored then, and whether it is clean, that
                \* is, nobody has written or typed since
    replaced    \* history: the device was saved anew or deleted during a save

vars == <<stored, form, fields, wire, isSaving, news, saved, replaced>>

Days == 1..DayCount

Keys == Languages \X Days

NoSchedule == [k \in Keys |-> Null]

Blank == [d \in Days |-> Dash]

NoSave == [rows |-> Blank, first |-> FALSE, clean |-> FALSE]

Updates == [day : Days, text : Texts]

TypeOK ==
    /\ stored \in [Keys -> Texts \cup {Null}]
    /\ form \in [Phones -> [open : BOOLEAN, lang : Languages]]
    /\ fields \in [Phones -> [Days -> Texts]]
    /\ wire \in [Phones -> Seq(Updates)]
    /\ isSaving \in [Phones -> BOOLEAN]
    /\ news \in [Phones -> BOOLEAN]
    /\ saved \in [Phones -> [rows : [Days -> Texts], first : BOOLEAN, clean : BOOLEAN]]
    /\ replaced \in BOOLEAN

Init ==
    /\ stored = NoSchedule
    /\ form \in [Phones -> [open : {FALSE}, lang : Languages]]
    /\ fields = [p \in Phones |-> Blank]
    /\ wire = [p \in Phones |-> <<>>]
    /\ isSaving = [p \in Phones |-> FALSE]
    /\ news = [p \in Phones |-> FALSE]
    /\ saved = [p \in Phones |-> NoSave]
    /\ replaced = FALSE

-----------------------------------------------------------------------------
(* What a phone sees.                                                      *)

\* The stored calendar with the phone's own unanswered updates on top.
View(p) ==
    [k \in Keys |->
        LET own == {i \in DOMAIN wire[p] : <<form[p].lang, wire[p][i].day>> = k}
        IN  IF own = {} THEN stored[k]
            ELSE wire[p][CHOOSE i \in own : \A j \in own : j <= i].text]

\* A listener whose form is open, or whose save is running, is owed an event
\* when the view changes, or when it is new.
Raise(new) ==
    news' = [p \in Phones |->
                /\ form[p].open \/ wire'[p] # <<>>
                /\ news[p] \/ p \in new \/ View(p)' # View(p)]

\* The rows of a snapshot as the form counts them: sorted by days.indexOf,
\* which puts the days of another language first, in any order; one row too
\* many throws before they are sorted.
Rows(p) ==
    LET found == {k \in Keys : View(p)[k] # Null}
        index == [k \in found |-> IF k[1] = form[p].lang THEN k[2] ELSE 0]
        n == Cardinality(found)
    IN  {s \in [1..n -> found] :
            /\ \A i, j \in 1..n : i # j => s[i] # s[j]
            /\ n <= DayCount => \A i, j \in 1..n : i < j => index[s[i]] <= index[s[j]]}

\* Mutant of Deliver: rows without a stored day are emptied.
DeliverBlank(p) ==
    /\ news[p]
    /\ \E s \in Rows(p) :
          fields' = [fields EXCEPT ![p] =
              [d \in Days |-> IF d \in DOMAIN s THEN View(p)[s[d]] ELSE Dash]]
    /\ news' = [news EXCEPT ![p] = FALSE]
    /\ UNCHANGED <<stored, form, wire, isSaving, saved, replaced>>

\* onValue: the list is rebuilt, and what listens to it fills the form.
Deliver(p) ==
    /\ news[p]
    /\ \E s \in Rows(p) :
          fields' = [fields EXCEPT ![p] =
              [d \in Days |-> IF d \in DOMAIN s THEN View(p)[s[d]] ELSE fields[p][d]]]
    /\ news' = [news EXCEPT ![p] = FALSE]
    /\ UNCHANGED <<stored, form, wire, isSaving, saved, replaced>>

-----------------------------------------------------------------------------
(* What the user does.                                                     *)

\* The form is opened, in the language of the moment (bound: once the saves
\* of the previous one are over).
OpenForm(p, l) ==
    /\ ~form[p].open
    /\ wire[p] = <<>>
    /\ form' = [form EXCEPT ![p] = [open |-> TRUE, lang |-> l]]
    /\ fields' = [fields EXCEPT ![p] = Blank]
    /\ isSaving' = [isSaving EXCEPT ![p] = FALSE]
    /\ news' = [news EXCEPT ![p] = TRUE]
    /\ UNCHANGED <<stored, wire, saved, replaced>>

\* The form is left; its listeners and a running save go on.
CloseForm(p) ==
    /\ form[p].open
    /\ form' = [form EXCEPT ![p].open = FALSE]
    /\ UNCHANGED <<stored, fields, wire, isSaving, news, saved, replaced>>

\* The saves of the phones Q are over, or someone gets in their way.
Spoil(Q) == saved' = [p \in Phones |-> IF p \in Q THEN NoSave ELSE saved[p]]

Type(p, d, t) ==
    /\ form[p].open
    /\ fields[p][d] # t
    /\ fields' = [fields EXCEPT ![p][d] = t]
    /\ Spoil({p})
    /\ UNCHANGED <<stored, form, wire, isSaving, news, replaced>>

\* Mutant of SaveTap: the loop starts one day early.
SaveTapFromZero(p) ==
    /\ form[p].open
    /\ Len(wire[p]) < MaxSaves
    /\ wire' = [wire EXCEPT ![p] = Append(wire[p], [day |-> 0, text |-> fields[p][1]])]
    /\ isSaving' = [isSaving EXCEPT ![p] = TRUE]
    /\ UNCHANGED <<stored, form, fields, saved, news, replaced>>

\* The save button, which nothing disables: the loop sends its first day.
SaveTap(p) ==
    /\ form[p].open
    /\ Len(wire[p]) < MaxSaves
    /\ wire' = [wire EXCEPT ![p] = Append(wire[p], [day |-> 1, text |-> fields[p][1]])]
    /\ isSaving' = [isSaving EXCEPT ![p] = TRUE]
    /\ saved' = [saved EXCEPT ![p] =
                    IF wire[p] = <<>>
                    THEN [rows |-> fields[p], first |-> View(p) = NoSchedule,
                          clean |-> TRUE]
                    ELSE NoSave]
    /\ UNCHANGED <<stored, form, fields, replaced>>
    /\ Raise({})

-----------------------------------------------------------------------------
(* What the server answers.                                                *)

\* The oldest update of phone p is stored.
Stored(p) ==
    LET k == <<form[p].lang, Head(wire[p]).day>>
    IN  stored' = [stored EXCEPT ![k] = Head(wire[p]).text]

\* It is answered: the loop reads the row of the next day and sends it.
SaveNext(p) ==
    /\ wire[p] # <<>>
    /\ Head(wire[p]).day < DayCount
    /\ Stored(p)
    /\ LET d == Head(wire[p]).day + 1
       IN  wire' = [wire EXCEPT ![p] =
                       Append(Tail(wire[p]), [day |-> d, text |-> fields[p][d]])]
    /\ Spoil(Phones \ {p})
    /\ UNCHANGED <<form, fields, isSaving, replaced>>
    /\ Raise({})

\* The last day is answered: fetchSchedule() adds a listener, and the user is
\* told that the calendar is updated.
SaveDone(p) ==
    /\ wire[p] # <<>>
    /\ Head(wire[p]).day = DayCount
    /\ Stored(p)
    /\ wire' = [wire EXCEPT ![p] = Tail(wire[p])]
    /\ isSaving' = [isSaving EXCEPT ![p] = FALSE]
    /\ Spoil(Phones)
    /\ UNCHANGED <<form, fields, replaced>>
    /\ Raise({p})

\* Mutant of SaveFails: the error is caught inside the loop, which goes on.
SaveFailsGoesOn(p) ==
    /\ wire[p] # <<>>
    /\ Head(wire[p]).day < DayCount
    /\ LET d == Head(wire[p]).day + 1
       IN  wire' = [wire EXCEPT ![p] =
                       Append(Tail(wire[p]), [day |-> d, text |-> fields[p][d]])]
    /\ UNCHANGED <<stored, form, fields, isSaving, saved, replaced>>
    /\ Raise({})

\* An update is rejected: the save ends with an error, and the view goes back.
SaveFails(p) ==
    /\ wire[p] # <<>>
    /\ wire' = [wire EXCEPT ![p] = Tail(wire[p])]
    /\ isSaving' = [isSaving EXCEPT ![p] = FALSE]
    /\ Spoil({p})
    /\ UNCHANGED <<stored, form, fields, replaced>>
    /\ Raise({})

\* The app is killed.
Restart(p) ==
    /\ wire' = [wire EXCEPT ![p] = <<>>]
    /\ form' = [form EXCEPT ![p].open = FALSE]
    /\ fields' = [fields EXCEPT ![p] = Blank]
    /\ isSaving' = [isSaving EXCEPT ![p] = FALSE]
    /\ news' = [news EXCEPT ![p] = FALSE]
    /\ Spoil({p})
    /\ UNCHANGED <<stored, replaced>>

\* saveShutterDevice or deleteShutterDevice replaces the record of the device,
\* and its calendar with it.
ReplaceDevice ==
    /\ stored # NoSchedule
    /\ stored' = NoSchedule
    /\ replaced' = (replaced \/ \E p \in Phones : wire[p] # <<>>)
    /\ Spoil(Phones)
    /\ UNCHANGED <<form, fields, wire, isSaving>>
    /\ Raise({})

Next ==
    \/ ReplaceDevice
    \/ \E p \in Phones :
          \/ Deliver(p)
          \/ \E l \in Languages : OpenForm(p, l)
          \/ CloseForm(p)
          \/ \E d \in Days, t \in Texts : Type(p, d, t)
          \/ SaveTap(p)
          \/ SaveNext(p)
          \/ SaveDone(p)
          \/ SaveFails(p)
          \/ Restart(p)

Spec == Init /\ [][Next]_vars

-----------------------------------------------------------------------------

\* The days stored in a language are the first ones of the week, whatever
\* saves were rejected, killed or ran at once: fetchSchedule and the form count
\* rows, and only so does row i belong to day i.  A device that is replaced
\* under a running save is the exception.
PrefixStored ==
    replaced \/ \A l \in Languages : \A c, d \in Days :
        c < d /\ stored[<<l, d>>] # Null => stored[<<l, c>>] # Null

\* So every way of counting the rows of the phone's view, its own unanswered
\* updates included, gives day i the row i, as long as all days are named in
\* one language.
RowsAreDays ==
    \A p \in Phones :
        ~replaced /\ (\A k \in Keys : View(p)[k] # Null => k[1] = form[p].lang) =>
            \A s \in Rows(p) : \A i \in DOMAIN s : s[i] = <<form[p].lang, i>>

SavedRows(p) == [d \in Days |-> stored'[<<form[p].lang, d>>]] = saved[p].rows

\* The first calendar of a device is stored as it was typed: the events of the
\* days already saved do not disturb the rows the loop has still to read.
FirstSaveAsTyped ==
    [][\A p \in Phones :
          SaveDone(p) /\ saved[p].clean /\ saved[p].first => SavedRows(p)]_vars

\* "The calendar is updated": a save that nobody interferes with stores the
\* rows as they were when the button was tapped.
SavedAsTyped ==
    [][\A p \in Phones : SaveDone(p) /\ saved[p].clean => SavedRows(p)]_vars

=============================================================================
