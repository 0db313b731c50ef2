----------------------------- MODULE MCLibrary -----------------------------
(***************************************************************************)
(* Instances of Library for TLC.                                           *)
(***************************************************************************)
EXTENDS Library

CONSTANTS u1, u2, t1

TwoURLs == {u1, u2}

\* A folder on the bar with a bookmark in it, and the same page filed beside it.
SomeFiles ==
  [m \in Models |->
     IF m = "history" THEN [u \in {u1} |-> <<1>>]
     ELSE <<[id |-> 1, parent |-> 0, folder |-> TRUE, url |-> NoURL],
            [id |-> 3, parent |-> 1, folder |-> TRUE, url |-> NoURL],
            [id |-> 4, parent |-> 3, folder |-> FALSE, url |-> u1],
            [id |-> 5, parent |-> 1, folder |-> FALSE, url |-> u1],
            [id |-> 2, parent |-> 0, folder |-> TRUE, url |-> NoURL]>>]

FrontAndBack == {0, 2}
OneTab == {t1}
=============================================================================
