----------------------------- MODULE MCTabView -----------------------------
(***************************************************************************)
(* Instances of TabView for TLC.                                           *)
(***************************************************************************)
EXTENDS TabView

Two == {1, 2}
Three == {1, 2, 3}
Rectangles == {"wide", "narrow"}
Everything == {"Open", "OpenBehind", "Select", "Close", "CloseAll", "Reparent"}
Selects == {"Open", "Select"}
=============================================================================
