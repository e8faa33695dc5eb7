---------------------------- MODULE Localization ----------------------------
(***************************************************************************)
(* The language of the app on each phone: LocalizationController over the  *)
(* preferences stored on the phone.  The controller starts in the default  *)
(* language and loads the stored one behind the first pages; a choice is   *)
(* shown at once and stored behind the user's back.  Nothing orders the    *)
(* two: a load that is answered after a choice takes the choice off the    *)
(* screen.                                                                 *)
(***************************************************************************)
EXTENDS Naturals, Sequences

CONSTANTS
    Phones,
    Languages,
    Default,    \* _defaultLang
    Null,       \* no language is stored
    MaxChoices  \* bound: choices of a phone that are still to be stored

VARIABLES
    code,       \* _languageCode
    loading,    \* whether _loadLanguage waits for the preferences
    choices,    \* the calls of changeLanguage not yet over, oldest first
    prefs,      \* 'language_code' as it is stored on the phone
    upset       \* history: since the start of the app a choice came before the
                \* load, or storing one has failed

languageVars == <<code, loading, choices, prefs, upset>>

LanguageInit ==
    /\ code = [p \in Phones |-> Default]
    /\ loading = [p \in Phones |-> TRUE]
    /\ choices = [p \in Phones |-> <<>>]
    /\ prefs \in [Phones -> Languages \cup {Null}]
    /\ upset = [p \in Phones |-> FALSE]

\* The code of a phone is always a language; the rest is typed.
LanguageTypeOK ==
    /\ code \in [Phones -> Languages]
    /\ loading \in [Phones -> BOOLEAN]
    /\ choices \in [Phones -> Seq(Languages)]
    /\ prefs \in [Phones -> Languages \cup {Null}]
    /\ upset \in [Phones -> BOOLEAN]

-----------------------------------------------------------------------------

\* prefs.getString('language_code') ?? _defaultLang
StoredLanguage(p) == IF prefs[p] = Null THEN Default ELSE prefs[p]

\* Mutant of LanguageLoaded: without the ??.
LoadedOrNull(p) ==
    /\ loading[p]
    /\ loading' = [loading EXCEPT ![p] = FALSE]
    /\ code' = [code EXCEPT ![p] = prefs[p]]
    /\ UNCHANGED <<choices, prefs, upset>>

\* Mutant of LanguageLoaded: what was stored is read and not shown.
LoadedUnseen(p) ==
    /\ loading[p]
    /\ loading' = [loading EXCEPT ![p] = FALSE]
    /\ UNCHANGED <<code, choices, prefs, upset>>

\* The preferences are there: the code is set, and the choices made meanwhile
\* go on to be stored.
LanguageLoaded(p) ==
    /\ loading[p]
    /\ loading' = [loading EXCEPT ![p] = FALSE]
    /\ code' = [code EXCEPT ![p] = StoredLanguage(p)]
    /\ UNCHANGED <<choices, prefs, upset>>

\* They are not: the code stays, and the choices that waited for them throw.
LoadFails(p) ==
    /\ loading[p]
    /\ loading' = [loading EXCEPT ![p] = FALSE]
    /\ choices' = [choices EXCEPT ![p] = <<>>]
    /\ upset' = [upset EXCEPT ![p] = TRUE]
    /\ UNCHANGED <<code, prefs>>

\* changeLanguage, up to its first await.
ChangeLanguage(p, l) ==
    /\ Len(choices[p]) < MaxChoices
    /\ code' = [code EXCEPT ![p] = l]
    /\ choices' = [choices EXCEPT ![p] = Append(choices[p], l)]
    /\ upset' = [upset EXCEPT ![p] = upset[p] \/ loading[p]]
    /\ UNCHANGED <<loading, prefs>>

\* Mutant of LanguageStored: of two writes under way the second is done first.
StoredLastFirst(p) ==
    /\ ~loading[p]
    /\ choices[p] # <<>>
    /\ prefs' = [prefs EXCEPT ![p] = choices[p][Len(choices[p])]]
    /\ choices' = [choices EXCEPT ![p] = SubSeq(choices[p], 1, Len(choices[p]) - 1)]
    /\ UNCHANGED <<code, loading, upset>>

\* setString is answered; the writes of a phone are done in order.
LanguageStored(p) ==
    /\ ~loading[p]
    /\ choices[p] # <<>>
    /\ prefs' = [prefs EXCEPT ![p] = Head(choices[p])]
    /\ choices' = [choices EXCEPT ![p] = Tail(choices[p])]
    /\ UNCHANGED <<code, loading, upset>>

\* The preferences or setString throw.
StoreFails(p) ==
    /\ ~loading[p]
    /\ choices[p] # <<>>
    /\ choices' = [choices EXCEPT ![p] = Tail(choices[p])]
    /\ upset' = [upset EXCEPT ![p] = TRUE]
    /\ UNCHANGED <<code, loading, prefs>>

\* The app is killed and started again: what is stored stays.
LanguageRestart(p) ==
    /\ code' = [code EXCEPT ![p] = Default]
    /\ loading' = [loading EXCEPT ![p] = TRUE]
    /\ choices' = [choices EXCEPT ![p] = <<>>]
    /\ upset' = [upset EXCEPT ![p] = FALSE]
    /\ UNCHANGED prefs

-----------------------------------------------------------------------------

\* changeLanguage: the language on the screen is the one the next start will show, once
\* the choices under way are stored, unless a choice came before the load or
\* storing one failed.
ShownIsKept ==
    \A p \in Phones :
        ~loading[p] /\ ~upset[p] =>
            code[p] = IF choices[p] = <<>> THEN StoredLanguage(p)
                      ELSE choices[p][Len(choices[p])]

=============================================================================
