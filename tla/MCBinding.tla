----------------------------- MODULE MCBinding ------------------------------
(***************************************************************************)
(* Three threads of a host with two rule packs, one of them invalid.       *)
(***************************************************************************)
EXTENDS Binding, TLC

CONSTANTS t1, t2, t3, good, bad

MCThreads == {t1, t2, t3}
MCIds == {good, bad}
MCValid == {good}

MCSymmetry == Permutations(MCThreads)
=============================================================================
