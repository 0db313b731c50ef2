----------------------------- MODULE MCProfile -----------------------------
(***************************************************************************)
(* Instances of Profile for TLC.                                           *)
(***************************************************************************)
EXTENDS Profile
=============================================================================
