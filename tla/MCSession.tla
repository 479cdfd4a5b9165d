----------------------------- MODULE MCSession ------------------------------
(***************************************************************************)
(* A session for TLC, with up to MaxFrames commands and frames under way.  *)
(***************************************************************************)
EXTENDS Session
=============================================================================
