----------------------------- MODULE MCDialogs -----------------------------
(***************************************************************************)
(* Instances of Dialogs for TLC.                                           *)
(***************************************************************************)
EXTENDS Dialogs

CertificateAndPicker == {"certificate", "picker"}
TwoPages == {"first", "second"}
=============================================================================
