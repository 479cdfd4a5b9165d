----------------------------- MODULE MCRegistry -----------------------------
(***************************************************************************)
(* Two threads, one id, two packs that pass validation and one that does   *)
(* not.                                                                    *)
(***************************************************************************)
EXTENDS Registry

CONSTANTS t1, t2, good, other, broken

MCThreads == {t1, t2}
MCPacks == {good, other, broken}
MCValid == {good, other}
=============================================================================
