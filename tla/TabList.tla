------------------------------ MODULE TabList ------------------------------
(***************************************************************************)
(* The tab strip as a sequence of tab ids, and the arithmetic the registry *)
(* does on it: where a tab may be inserted, what shows once a tab has gone, *)
(* which tab is next (browser/NativeLibs/harmony_tabs_model.cpp).           *)
(*                                                                         *)
(* The code counts positions from 0 and a sequence from 1: `at' is always  *)
(* the code's position, list[at + 1] the tab there.  The pinned tabs are   *)
(* given beside the list as a set of ids.                                  *)
(***************************************************************************)
EXTENDS Integers, SequencesExt

Pinned(list, pinned) == { i \in 1..Len(list) : list[i] \in pinned }

PinnedCount(list, pinned) == Cardinality(Pinned(list, pinned))

\* A position brought into the tab's own group: pinned tabs before the
\* boundary, the others after it; a negative one is the end of the group.
Clamp(index, low, high) ==
  IF index < 0 \/ index > high THEN high
  ELSE IF index < low THEN low ELSE index

\* Mutant: the groups are not told apart.
ClampAnywhere(list, pinned, index, isPinned) == Clamp(index, 0, Len(list))

ClampInsertIndex(list, pinned, index, isPinned) ==
  LET boundary == PinnedCount(list, pinned)
  IN  IF isPinned THEN Clamp(index, 0, boundary)
                  ELSE Clamp(index, boundary, Len(list))

InsertTab(list, at, id) == InsertAt(list, at + 1, id)

\* Mutant: the last tab is moved into the gap.
EraseSwapping(list, at) == Front([list EXCEPT ![at + 1] = Last(list)])

EraseTab(list, at) == RemoveAt(list, at + 1)

\* -1 when the tab is not in the list.
IndexOfTab(list, id) ==
  IF \E i \in 1..Len(list) : list[i] = id
  THEN (CHOOSE i \in 1..Len(list) : list[i] = id) - 1
  ELSE -1

\* The list createTab leaves.
Placed(list, pinned, index, id, isPinned) ==
  InsertTab(list, ClampInsertIndex(list, pinned, index, isPinned), id)

\* The list moveTab leaves: the tab is out of it while its place is worked out.
Moved(list, pinned, id, index) ==
  LET rest == EraseTab(list, IndexOfTab(list, id))
  IN  Placed(rest, pinned, index, id, id \in pinned)

\* The list setTabPinned leaves: the end of the pinned tabs that are left is
\* also the front of the others.
Repinned(list, pinned, id) ==
  LET rest == EraseTab(list, IndexOfTab(list, id))
  IN  InsertTab(rest, PinnedCount(rest, pinned), id)

\* What shows once the tab at `at' has been taken out: the one that moved into
\* its place, or the new last one.
Neighbour(list, at) == IF at >= Len(list) THEN list[Len(list)] ELSE list[at + 1]

\* selectAdjacentTab's target.  With nothing selected it starts from the front.
Adjacent(list, active, delta) ==
  LET at == IF IndexOfTab(list, active) < 0 THEN 0 ELSE IndexOfTab(list, active)
  IN  list[((at + delta) % Len(list)) + 1]

\* What rememberClosedTab leaves of the stack of closed tabs.
Remembered(closed, entry, cap) ==
  LET grown == Append(closed, entry)
  IN  IF Len(grown) > cap THEN Tail(grown) ELSE grown
=============================================================================
