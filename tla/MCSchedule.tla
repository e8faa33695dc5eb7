----------------------------- MODULE MCSchedule -----------------------------
(***************************************************************************)
(* One phone with one language, a week of two days, and two texts for a    *)
(* row.                                                                    *)
(***************************************************************************)
EXTENDS ScheduleController

CONSTANTS p1, it, time

OnePhone == {p1}
ItalianOnly == {it}
TwoTexts == {Dash, time}

=============================================================================
