------------------------------- MODULE MCCover -------------------------------
(***************************************************************************)
(* A curtain with two places between its ends and two seconds of settling. *)
(***************************************************************************)
EXTENDS Cover

MCPlaces == {0, 30, 70, 100}
==============================================================================
