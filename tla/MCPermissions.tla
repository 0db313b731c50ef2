--------------------------- MODULE MCPermissions ---------------------------
(***************************************************************************)
(* Instances of Permissions for TLC.                                       *)
(***************************************************************************)
EXTENDS Permissions

Location == {"geolocation"}
LocationAndDevices == {"geolocation", "both"}
OneSite == {"site"}
Fresh == {EmptyTable}
TwoPages == {"first", "second"}
=============================================================================
