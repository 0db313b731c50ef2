--------------------------- MODULE MCTabRegistry ---------------------------
(***************************************************************************)
(* Instances of TabRegistry for TLC: what the host asks for in each run.    *)
(***************************************************************************)
EXTENDS TabRegistry

ListAsks == {"Open", "Close", "Move", "SetPinned", "ReopenClosed", "Select", "SelectIndex",
             "SelectNext", "SelectPrevious"}
ClosingAsks == {"Close", "CloseOthers", "CloseAll", "ReopenClosed", "Select"}

EveryAsk == ListAsks \cup ClosingAsks

FromFront == {0, 1, 2}
NoIndex == {}
=============================================================================
