---------------------------- MODULE MCDownloads ----------------------------
(***************************************************************************)
(* Instances of Downloads for TLC.                                         *)
(***************************************************************************)
EXTENDS Downloads

CONSTANTS d1, d2

Two == {d1, d2}
TwoURLs == {"page", "file"}
=============================================================================
