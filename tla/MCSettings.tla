----------------------------- MODULE MCSettings -----------------------------
(***************************************************************************)
(* Two settings, off by default.  The rule pack overrides neither, or the  *)
(* first of them.                                                          *)
(***************************************************************************)
EXTENDS Settings

MCDefault == [k \in Keys |-> FALSE]
NoPackBlocks == {Empty}
MCPackBlocks == {Empty, [k \in Keys |-> IF k = "invert_position" THEN TRUE ELSE Unset]}
=============================================================================
