------------------------------- MODULE MCDelta -------------------------------
(***************************************************************************)
(* A meter that reports three increments, the second of them with a        *)
(* timestamp.                                                              *)
(***************************************************************************)
EXTENDS Delta

MCInc(i) == IF i = 2 THEN 3 ELSE 5
MCStamped == {2}
==============================================================================
