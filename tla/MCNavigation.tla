---------------------------- MODULE MCNavigation ----------------------------
(***************************************************************************)
(* Two calls in flight, all pages, and five routes on top of each other.   *)
(***************************************************************************)
EXTENDS Navigation

CONSTANTS c1, c2

TwoCalls == {c1, c2}

=============================================================================
