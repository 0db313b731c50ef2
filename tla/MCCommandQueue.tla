--------------------------- MODULE MCCommandQueue ---------------------------
(***************************************************************************)
(* Instances of CommandQueue for TLC.                                      *)
(***************************************************************************)
EXTENDS CommandQueue

OneHelper == {"picker"}
=============================================================================
