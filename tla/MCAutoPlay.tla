----------------------------- MODULE MCAutoPlay -----------------------------
(***************************************************************************)
(* One phone with two devices and two calls in flight at a time, in a day  *)
(* of two minutes.                                                         *)
(***************************************************************************)
EXTENDS AutoPlayController

CONSTANT p1

OnePhone == {p1}
NoPhones == {}

=============================================================================
