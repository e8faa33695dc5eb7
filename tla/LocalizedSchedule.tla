------------------------- MODULE LocalizedSchedule -------------------------
(***************************************************************************)
(* The calendar in the language of the phone: a ScheduleController names   *)
(* its days once, in the language of the moment at which the schedule page *)
(* of the device is opened, and these names are the keys the calendar is   *)
(* stored under by every form opened from that page.                       *)
(***************************************************************************)
EXTENDS ScheduleController

CONSTANTS
    Default,    \* _defaultLang
    MaxChoices  \* bound: choices of a phone that are still to be stored

ASSUME DefaultAssumption == Default \in Languages /\ Null \notin Languages

VARIABLES
    code, loading, choices, prefs, upset,   \* see Localization
    page,       \* the language the controller of the phone's schedule page has
                \* named its days in, or Null when that page is not open
    mother      \* history: the language stored on every phone when the app was
                \* installed, or Null once another one was chosen, the
                \* preferences could not be loaded, or a page was opened
                \* before they were

INSTANCE Localization

phoneVars == <<code, loading, choices, prefs, upset>>

localizedVars == <<vars, phoneVars, page, mother>>

LocalizedInit ==
    /\ Init
    /\ LanguageInit
    /\ page = [p \in Phones |-> Null]
    /\ mother \in Languages
    /\ \A p \in Phones : mother = StoredLanguage(p)
    /\ \A p \in Phones : form[p].lang = mother

\* The schedule page of the device: its controller names the days (bound: once
\* the last choice is stored and no save of an earlier page runs).
OpenPage(p) ==
    /\ page[p] = Null
    /\ choices[p] = <<>>
    /\ wire[p] = <<>>
    /\ page' = [page EXCEPT ![p] = code[p]]
    /\ mother' = IF loading[p] THEN Null ELSE mother
    /\ UNCHANGED <<vars, phoneVars>>

\* The form finds the controller of the page, and with it the names of the days,
\* whatever the language has become since.
OpenLocalized(p) ==
    /\ page[p] # Null
    /\ OpenForm(p, page[p])
    /\ UNCHANGED <<phoneVars, page, mother>>

\* The page is left, which takes its controller away; a running save goes on.
ClosePage(p) ==
    /\ page[p] # Null
    /\ ~form[p].open
    /\ page' = [page EXCEPT ![p] = Null]
    /\ UNCHANGED <<vars, phoneVars, mother>>

\* What the form does after that does not depend on the language any more.
FormStep(p) ==
    /\ \/ Deliver(p)
       \/ CloseForm(p)
       \/ \E d \in Days, t \in Texts : Type(p, d, t)
       \/ SaveTap(p)
       \/ SaveNext(p)
       \/ SaveDone(p)
       \/ SaveFails(p)
    /\ UNCHANGED <<phoneVars, page, mother>>

\* The settings page, which is not on the screen while the schedule page is
\* (bound: and while no save is running).
Choose(p, l) ==
    /\ page[p] = Null
    /\ wire[p] = <<>>
    /\ ChangeLanguage(p, l)
    /\ mother' = IF l = mother THEN mother ELSE Null
    /\ UNCHANGED <<vars, page>>

PreferencesStep(p) ==
    /\ \/ /\ LanguageLoaded(p) \/ LanguageStored(p) \/ StoreFails(p)
          /\ UNCHANGED mother
       \/ LoadFails(p) /\ mother' = Null
    /\ UNCHANGED <<vars, page>>

RestartLocalized(p) ==
    /\ Restart(p)
    /\ LanguageRestart(p)
    /\ page' = [page EXCEPT ![p] = Null]
    /\ UNCHANGED mother

LocalizedNext ==
    \/ ReplaceDevice /\ UNCHANGED <<phoneVars, page, mother>>
    \/ \E p \in Phones :
          \/ OpenPage(p)
          \/ OpenLocalized(p)
          \/ ClosePage(p)
          \/ FormStep(p)
          \/ \E l \in Languages : Choose(p, l)
          \/ PreferencesStep(p)
          \/ RestartLocalized(p)

LocalizedSpec == LocalizedInit /\ [][LocalizedNext]_localizedVars

-----------------------------------------------------------------------------

\* As long as nobody chooses a language, the days of a device are all stored in
\* one, that of the phones: saveSchedule never mixes keys by itself, and what
\* makes the form count rows wrongly is a choice, preferences that cannot be
\* loaded or a schedule page opened before they are.
OneLanguage ==
    mother # Null => \A k \in Keys : stored[k] # Null => k[1] = mother

=============================================================================
