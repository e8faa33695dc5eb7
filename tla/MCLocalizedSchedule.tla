------------------------ MODULE MCLocalizedSchedule ------------------------
(***************************************************************************)
(* One phone that has a language and may choose the other one, a week of   *)
(* two days, and two texts for a row.                                      *)
(***************************************************************************)
EXTENDS LocalizedSchedule

CONSTANTS p1, it, en, time

OnePhone == {p1}
TwoLanguages == {it, en}
TwoTexts == {Dash, time}

=============================================================================
