-------------------------- MODULE TabListTheorems --------------------------
(***************************************************************************)
(* What the operators of TabList and Lists return and preserve, for every   *)
(* list.                                                                   *)
(***************************************************************************)
EXTENDS TabList, Lists, SequenceTheorems, FiniteSetTheorems, WellFoundedInduction, TLAPS

\* The pinned tabs of a list are a prefix of it.
Prefixed(list, pinned) ==
  \E k \in 0..Len(list) : \A i \in 1..Len(list) : list[i] \in pinned <=> i <= k

\* No tab is in a list twice.
Distinct(list) == \A i, j \in 1..Len(list) : list[i] = list[j] => i = j

\* `new' is `list' with id inserted at `at', and with the tab at `at' taken out.
IsInsertion(new, list, at, id) ==
  /\ Len(new) = Len(list) + 1
  /\ \A i \in 1..(Len(list) + 1) :
       new[i] = IF i <= at THEN list[i] ELSE IF i = at + 1 THEN id ELSE list[i - 1]

IsRemoval(new, list, at) ==
  /\ Len(new) = Len(list) - 1
  /\ \A i \in 1..(Len(list) - 1) : new[i] = IF i <= at THEN list[i] ELSE list[i + 1]

LEMMA InsertTabProperties ==
  ASSUME NEW S, NEW list \in Seq(S), NEW id \in S, NEW at \in 0..Len(list)
  PROVE  InsertTab(list, at, id) \in Seq(S) /\ IsInsertion(InsertTab(list, at, id), list, at, id)
<1> DEFINE before == SubSeq(list, 1, (at + 1) - 1)
           after == SubSeq(list, at + 1, Len(list))
           front == before \o <<id>>
<1>1. before \in Seq(S) /\ Len(before) = at /\ \A i \in 1..at : before[i] = list[i]
  BY SubSeqProperties
<1>2. after \in Seq(S) /\ Len(after) = Len(list) - at
      /\ \A i \in 1..(Len(list) - at) : after[i] = list[at + i]
  BY SubSeqProperties
<1>3. front \in Seq(S) /\ Len(front) = at + 1 /\ front[at + 1] = id
      /\ \A i \in 1..at : front[i] = list[i]
  <2> HIDE DEF before
  <2> QED BY <1>1
<1>4. InsertTab(list, at, id) = front \o after
  BY DEF InsertTab, InsertAt
<1> HIDE DEF before, after, front
<1>5. /\ front \o after \in Seq(S)
      /\ Len(front \o after) = Len(list) + 1
      /\ \A i \in 1..(Len(list) + 1) :
           (front \o after)[i] = IF i <= at + 1 THEN front[i] ELSE after[i - (at + 1)]
  BY <1>2, <1>3, ConcatProperties
<1>6. \A i \in 1..(Len(list) + 1) : i > at + 1 => after[i - (at + 1)] = list[i - 1]
  BY <1>2
<1> QED BY <1>3, <1>4, <1>5, <1>6 DEF IsInsertion

LEMMA EraseTabProperties ==
  ASSUME NEW S, NEW list \in Seq(S), NEW at \in 0..(Len(list) - 1)
  PROVE  EraseTab(list, at) \in Seq(S) /\ IsRemoval(EraseTab(list, at), list, at)
<1> DEFINE before == SubSeq(list, 1, (at + 1) - 1)
           after == SubSeq(list, at + 1 + 1, Len(list))
<1>1. before \in Seq(S) /\ Len(before) = at /\ \A i \in 1..at : before[i] = list[i]
  BY SubSeqProperties
<1>2. after \in Seq(S) /\ Len(after) = Len(list) - at - 1
      /\ \A i \in 1..(Len(list) - at - 1) : after[i] = list[at + 1 + i]
  BY SubSeqProperties
<1>3. EraseTab(list, at) = before \o after
  BY DEF EraseTab, RemoveAt
<1> HIDE DEF before, after
<1>4. /\ before \o after \in Seq(S)
      /\ Len(before \o after) = Len(list) - 1
      /\ \A i \in 1..(Len(list) - 1) :
           (before \o after)[i] = IF i <= at THEN before[i] ELSE after[i - at]
  <2>1. /\ before \o after \in Seq(S)
        /\ Len(before \o after) = Len(before) + Len(after)
        /\ \A i \in 1..(Len(before) + Len(after)) :
             (before \o after)[i] = IF i <= Len(before) THEN before[i] ELSE after[i - Len(before)]
    BY <1>1, <1>2, ConcatProperties
  <2>2. Len(before) + Len(after) = Len(list) - 1 /\ Len(before) = at
    BY <1>1, <1>2
  <2> QED BY <2>1, <2>2
<1>5. \A i \in 1..(Len(list) - 1) : i > at => after[i - at] = list[i + 1]
  BY <1>2
<1> QED BY <1>1, <1>3, <1>4, <1>5 DEF IsRemoval

LEMMA IndexOfTabProperties ==
  ASSUME NEW S, NEW list \in Seq(S), NEW id, IndexOfTab(list, id) >= 0
  PROVE  /\ IndexOfTab(list, id) \in 0..(Len(list) - 1)
         /\ list[IndexOfTab(list, id) + 1] = id
<1>1. CASE \E i \in 1..Len(list) : list[i] = id
  BY <1>1 DEF IndexOfTab
<1>2. CASE ~ \E i \in 1..Len(list) : list[i] = id
  BY <1>2 DEF IndexOfTab
<1> QED BY <1>1, <1>2

\* While the pinned tabs are a prefix, pinnedCount is the length of it.
LEMMA PinnedCountIsBoundary ==
  ASSUME NEW S, NEW list \in Seq(S), NEW pinned, NEW k \in 0..Len(list),
         \A i \in 1..Len(list) : list[i] \in pinned <=> i <= k
  PROVE  PinnedCount(list, pinned) = k
<1>1. Pinned(list, pinned) = 1..k
  BY DEF Pinned
<1>2. Cardinality(1..k) = k
  BY FS_Interval
<1> QED BY <1>1, <1>2 DEF PinnedCount

\* Every insertion position lies in the tab's own group.
LEMMA ClampInsertIndexInGroup ==
  ASSUME NEW S, NEW list \in Seq(S), NEW pinned, NEW index \in Int, NEW isPinned \in BOOLEAN,
         NEW k \in 0..Len(list), \A i \in 1..Len(list) : list[i] \in pinned <=> i <= k
  PROVE  /\ ClampInsertIndex(list, pinned, index, isPinned) \in 0..Len(list)
         /\ isPinned => ClampInsertIndex(list, pinned, index, isPinned) <= k
         /\ ~isPinned => ClampInsertIndex(list, pinned, index, isPinned) >= k
<1>1. PinnedCount(list, pinned) = k
  BY PinnedCountIsBoundary
<1>2. Len(list) \in Nat
  OBVIOUS
<1> QED BY <1>1, <1>2 DEF ClampInsertIndex, Clamp

\* Inserting a tab in its own group keeps the pinned tabs a prefix.  `after' is
\* the set of pinned tabs once it is in: the same, but for the tab itself.
LEMMA InsertKeepsPrefix ==
  ASSUME NEW S, NEW list \in Seq(S), NEW id \in S, NEW at \in 0..Len(list),
         NEW pinned, NEW after, NEW k \in 0..Len(list),
         \A i \in 1..Len(list) : list[i] \in pinned <=> i <= k,
         \A i \in 1..Len(list) : list[i] \in after <=> list[i] \in pinned,
         id \in after => at <= k,
         id \notin after => at >= k
  PROVE  Prefixed(InsertTab(list, at, id), after)
<1> DEFINE new == InsertTab(list, at, id)
           boundary == IF id \in after THEN k + 1 ELSE k
<1>1. /\ new \in Seq(S)
      /\ Len(new) = Len(list) + 1
      /\ \A i \in 1..(Len(list) + 1) :
           new[i] = IF i <= at THEN list[i] ELSE IF i = at + 1 THEN id ELSE list[i - 1]
  <2>1. new \in Seq(S) /\ IsInsertion(new, list, at, id)
    BY InsertTabProperties
  <2> HIDE DEF new
  <2> QED BY <2>1 DEF IsInsertion
<1>2. boundary \in 0..Len(new)
  BY <1>1
<1>3. ASSUME NEW i \in 1..Len(new)
      PROVE  new[i] \in after <=> i <= boundary
  <2>1. CASE i <= at
    <3>1. i \in 1..Len(list) /\ new[i] = list[i]
      BY <1>1, <2>1
    <3> HIDE DEF new
    <3> QED BY <2>1, <3>1
  <2>2. CASE i = at + 1
    <3>1. new[i] = id
      BY <1>1, <2>2
    <3> HIDE DEF new
    <3> QED BY <2>2, <3>1
  <2>3. CASE i > at + 1
    <3>1. i - 1 \in 1..Len(list) /\ new[i] = list[i - 1]
      BY <1>1, <2>3
    <3> HIDE DEF new
    <3> QED BY <2>3, <3>1
  <2> QED BY <1>1, <2>1, <2>2, <2>3
<1> HIDE DEF new, boundary
<1>4. Prefixed(new, after)
  BY <1>2, <1>3 DEF Prefixed
<1> QED BY <1>4 DEF new

\* So does inserting it at the position createTab works out for it.
LEMMA PlacedKeepsPrefix ==
  ASSUME NEW S, NEW list \in Seq(S), NEW id \in S, NEW pinned, NEW after,
         NEW index \in Int, NEW isPinned \in BOOLEAN,
         Prefixed(list, pinned),
         \A i \in 1..Len(list) : list[i] \in after <=> list[i] \in pinned,
         isPinned <=> id \in after
  PROVE  /\ Prefixed(Placed(list, pinned, index, id, isPinned), after)
         /\ ClampInsertIndex(list, pinned, index, isPinned) \in 0..Len(list)
<1>1. PICK k \in 0..Len(list) : \A i \in 1..Len(list) : list[i] \in pinned <=> i <= k
  BY DEF Prefixed
<1> DEFINE at == ClampInsertIndex(list, pinned, index, isPinned)
<1>2. at \in 0..Len(list) /\ (isPinned => at <= k) /\ (~isPinned => at >= k)
  BY <1>1, ClampInsertIndexInGroup
<1> HIDE DEF at
<1>3. Prefixed(InsertTab(list, at, id), after)
  BY <1>1, <1>2, InsertKeepsPrefix
<1> QED BY <1>2, <1>3 DEF Placed, at

\* And taking a tab out.
LEMMA EraseKeepsPrefix ==
  ASSUME NEW S, NEW list \in Seq(S), NEW at \in 0..(Len(list) - 1),
         NEW pinned, NEW after, Prefixed(list, pinned),
         \A i \in 1..Len(list) : i # at + 1 => (list[i] \in after <=> list[i] \in pinned)
  PROVE  Prefixed(EraseTab(list, at), after)
<1> DEFINE new == EraseTab(list, at)
<1>1. PICK k \in 0..Len(list) : \A i \in 1..Len(list) : list[i] \in pinned <=> i <= k
  BY DEF Prefixed
<1>2. /\ new \in Seq(S)
      /\ Len(new) = Len(list) - 1
      /\ \A i \in 1..(Len(list) - 1) : new[i] = IF i <= at THEN list[i] ELSE list[i + 1]
  <2>1. new \in Seq(S) /\ IsRemoval(new, list, at)
    BY EraseTabProperties
  <2> HIDE DEF new
  <2> QED BY <2>1 DEF IsRemoval
<1> DEFINE boundary == IF at < k THEN k - 1 ELSE k
<1> HIDE DEF new
<1>3. boundary \in 0..Len(new)
  BY <1>2
<1>4. \A i \in 1..Len(new) : new[i] \in after <=> i <= boundary
  BY <1>1, <1>2
<1>5. Prefixed(new, after)
  BY <1>3, <1>4 DEF Prefixed
<1> QED BY <1>5 DEF new

\* An insertion of a tab that is not there, and any removal, leave no tab twice.
LEMMA InsertKeepsDistinct ==
  ASSUME NEW S, NEW list \in Seq(S), NEW id \in S, NEW at \in 0..Len(list),
         Distinct(list), \A i \in 1..Len(list) : list[i] # id
  PROVE  Distinct(InsertTab(list, at, id))
<1> DEFINE new == InsertTab(list, at, id)
<1>1. /\ new \in Seq(S)
      /\ Len(new) = Len(list) + 1
      /\ \A i \in 1..(Len(list) + 1) :
           new[i] = IF i <= at THEN list[i] ELSE IF i = at + 1 THEN id ELSE list[i - 1]
  <2>1. new \in Seq(S) /\ IsInsertion(new, list, at, id)
    BY InsertTabProperties
  <2> HIDE DEF new
  <2> QED BY <2>1 DEF IsInsertion
<1> HIDE DEF new
<1>2. Distinct(new)
  BY SMTT(30), <1>1 DEF Distinct
<1> QED BY <1>2 DEF new

LEMMA EraseKeepsDistinct ==
  ASSUME NEW S, NEW list \in Seq(S), NEW at \in 0..(Len(list) - 1), Distinct(list)
  PROVE  /\ Distinct(EraseTab(list, at))
         /\ \A i \in 1..Len(EraseTab(list, at)) : EraseTab(list, at)[i] # list[at + 1]
<1> DEFINE new == EraseTab(list, at)
<1>1. /\ new \in Seq(S)
      /\ Len(new) = Len(list) - 1
      /\ \A i \in 1..(Len(list) - 1) : new[i] = IF i <= at THEN list[i] ELSE list[i + 1]
  <2>1. new \in Seq(S) /\ IsRemoval(new, list, at)
    BY EraseTabProperties
  <2> HIDE DEF new
  <2> QED BY <2>1 DEF IsRemoval
<1> HIDE DEF new
<1> DEFINE from(i) == IF i <= at THEN i ELSE i + 1
<1>2. \A i \in 1..Len(new) :
        from(i) \in 1..Len(list) /\ from(i) # at + 1 /\ new[i] = list[from(i)]
  BY <1>1
<1>3. \A i, j \in 1..Len(new) : from(i) = from(j) => i = j
  BY <1>1
<1>4. at + 1 \in 1..Len(list)
  OBVIOUS
<1> HIDE DEF from
<1>5. Distinct(new) /\ \A i \in 1..Len(new) : new[i] # list[at + 1]
  BY <1>2, <1>3, <1>4 DEF Distinct
<1> QED BY <1>5 DEF new

\* What an insertion and a removal do to the set of tabs that are listed.
LEMMA Listed ==
  ASSUME NEW S, NEW list \in Seq(S), NEW id
  PROVE  id \in Range(list) <=> \E i \in 1..Len(list) : list[i] = id
BY DEF Range

LEMMA EmptyRange == Range(<<>>) = {}
<1> DEFINE none == <<>>
<1>1. none \in Seq({}) /\ Len(none) = 0
  OBVIOUS
<1> HIDE DEF none
<1>2. \A id : id \in Range(none) <=> \E i \in 1..Len(none) : none[i] = id
  BY <1>1, Listed
<1>3. Range(none) = {}
  BY <1>1, <1>2
<1> QED BY <1>3 DEF none

LEMMA InsertRange ==
  ASSUME NEW S, NEW list \in Seq(S), NEW id \in S, NEW at \in 0..Len(list)
  PROVE  Range(InsertTab(list, at, id)) = Range(list) \cup {id}
<1> DEFINE new == InsertTab(list, at, id)
<1>1. /\ new \in Seq(S)
      /\ Len(new) = Len(list) + 1
      /\ \A i \in 1..(Len(list) + 1) :
           new[i] = IF i <= at THEN list[i] ELSE IF i = at + 1 THEN id ELSE list[i - 1]
  <2>1. new \in Seq(S) /\ IsInsertion(new, list, at, id)
    BY InsertTabProperties
  <2> HIDE DEF new
  <2> QED BY <2>1 DEF IsInsertion
<1> HIDE DEF new
<1>2. ASSUME NEW i \in 1..Len(new)
      PROVE  new[i] = id \/ \E j \in 1..Len(list) : list[j] = new[i]
  <2>1. CASE i <= at
    BY <1>1, <2>1
  <2>2. CASE i = at + 1
    BY <1>1, <2>2
  <2>3. CASE i > at + 1
    <3>1. i - 1 \in 1..Len(list) /\ list[i - 1] = new[i]
      BY <1>1, <2>3
    <3> QED BY <3>1
  <2> QED BY <1>1, <2>1, <2>2, <2>3
<1>3. at + 1 \in 1..Len(new) /\ new[at + 1] = id
  BY <1>1
<1>4. ASSUME NEW j \in 1..Len(list)
      PROVE  \E i \in 1..Len(new) : new[i] = list[j]
  <2>1. CASE j <= at
    BY <1>1, <2>1
  <2>2. CASE j > at
    <3>1. j + 1 \in 1..Len(new) /\ new[j + 1] = list[j]
      BY <1>1, <2>2
    <3> QED BY <3>1
  <2> QED BY <2>1, <2>2
<1>5. \A x : x \in Range(new) <=> x \in Range(list) \cup {id}
  <2>1. \A x : x \in Range(new) <=> \E i \in 1..Len(new) : new[i] = x
    BY <1>1, Listed
  <2>2. \A x : x \in Range(list) <=> \E i \in 1..Len(list) : list[i] = x
    BY Listed
  <2> QED BY <1>2, <1>3, <1>4, <2>1, <2>2
<1> QED BY <1>5 DEF new

LEMMA EraseRange ==
  ASSUME NEW S, NEW list \in Seq(S), NEW at \in 0..(Len(list) - 1), Distinct(list)
  PROVE  Range(EraseTab(list, at)) = Range(list) \ {list[at + 1]}
<1> DEFINE new == EraseTab(list, at)
<1>1. /\ new \in Seq(S)
      /\ Len(new) = Len(list) - 1
      /\ \A i \in 1..(Len(list) - 1) : new[i] = IF i <= at THEN list[i] ELSE list[i + 1]
  <2>1. new \in Seq(S) /\ IsRemoval(new, list, at)
    BY EraseTabProperties
  <2> HIDE DEF new
  <2> QED BY <2>1 DEF IsRemoval
<1>2. \A i \in 1..Len(new) : new[i] # list[at + 1]
  BY EraseKeepsDistinct
<1> HIDE DEF new
<1>3. ASSUME NEW i \in 1..Len(new) PROVE \E j \in 1..Len(list) : list[j] = new[i]
  BY <1>1
<1>4. ASSUME NEW j \in 1..Len(list), j # at + 1
      PROVE  \E i \in 1..Len(new) : new[i] = list[j]
  <2>1. CASE j <= at
    BY <1>1, <2>1
  <2>2. CASE j > at + 1
    <3>1. j - 1 \in 1..Len(new) /\ new[j - 1] = list[j]
      BY <1>1, <2>2
    <3> QED BY <3>1
  <2> QED BY <1>4, <2>1, <2>2
<1>5. \A x : x \in Range(new) <=> x \in Range(list) \ {list[at + 1]}
  <2>1. \A x : x \in Range(new) <=> \E i \in 1..Len(new) : new[i] = x
    BY <1>1, Listed
  <2>2. \A x : x \in Range(list) <=> \E i \in 1..Len(list) : list[i] = x
    BY Listed
  <2> QED BY <1>2, <1>3, <1>4, <2>1, <2>2
<1> QED BY <1>5 DEF new

\* Where the tabs are after an insertion and after a removal.
LEMMA PositionIsIndex ==
  ASSUME NEW S, NEW list \in Seq(S), Distinct(list), NEW i \in 1..Len(list)
  PROVE  IndexOfTab(list, list[i]) = i - 1
<1> DEFINE at == IndexOfTab(list, list[i])
<1>1. at >= 0
  BY DEF IndexOfTab
<1>2. at \in 0..(Len(list) - 1) /\ list[at + 1] = list[i]
  BY <1>1, IndexOfTabProperties
<1> HIDE DEF at
<1>3. at + 1 \in 1..Len(list) /\ at + 1 = i
  BY <1>2 DEF Distinct
<1>4. at = i - 1
  BY <1>2, <1>3
<1> QED BY <1>4 DEF at

LEMMA PositionAfterInsert ==
  ASSUME NEW S, NEW list \in Seq(S), NEW id \in S, NEW at \in 0..Len(list), Distinct(list),
         \A i \in 1..Len(list) : list[i] # id, NEW i \in 1..Len(list)
  PROVE  IndexOfTab(InsertTab(list, at, id), list[i]) = IF i <= at THEN i - 1 ELSE i
<1> DEFINE new == InsertTab(list, at, id)
<1>1. /\ new \in Seq(S)
      /\ Len(new) = Len(list) + 1
      /\ \A j \in 1..(Len(list) + 1) :
           new[j] = IF j <= at THEN list[j] ELSE IF j = at + 1 THEN id ELSE list[j - 1]
  <2>1. new \in Seq(S) /\ IsInsertion(new, list, at, id)
    BY InsertTabProperties
  <2> HIDE DEF new
  <2> QED BY <2>1 DEF IsInsertion
<1>2. Distinct(new)
  BY InsertKeepsDistinct
<1> HIDE DEF new
<1> DEFINE j == IF i <= at THEN i ELSE i + 1
<1>3. j \in 1..Len(new) /\ new[j] = list[i] /\ j - 1 = IF i <= at THEN i - 1 ELSE i
  BY <1>1
<1> HIDE DEF j
<1>4. IndexOfTab(new, new[j]) = j - 1
  BY <1>1, <1>2, <1>3, PositionIsIndex
<1> QED BY <1>3, <1>4 DEF new

LEMMA PositionAfterErase ==
  ASSUME NEW S, NEW list \in Seq(S), NEW at \in 0..(Len(list) - 1), Distinct(list),
         NEW i \in 1..Len(list), i # at + 1
  PROVE  IndexOfTab(EraseTab(list, at), list[i]) = IF i <= at THEN i - 1 ELSE i - 2
<1> DEFINE new == EraseTab(list, at)
<1>1. /\ new \in Seq(S)
      /\ Len(new) = Len(list) - 1
      /\ \A j \in 1..(Len(list) - 1) : new[j] = IF j <= at THEN list[j] ELSE list[j + 1]
  <2>1. new \in Seq(S) /\ IsRemoval(new, list, at)
    BY EraseTabProperties
  <2> HIDE DEF new
  <2> QED BY <2>1 DEF IsRemoval
<1>2. Distinct(new)
  BY EraseKeepsDistinct
<1> HIDE DEF new
<1> DEFINE j == IF i <= at THEN i ELSE i - 1
<1>3. j \in 1..Len(new) /\ new[j] = list[i] /\ j - 1 = IF i <= at THEN i - 1 ELSE i - 2
  BY <1>1
<1> HIDE DEF j
<1>4. IndexOfTab(new, new[j]) = j - 1
  BY <1>1, <1>2, <1>3, PositionIsIndex
<1> QED BY <1>3, <1>4 DEF new

\* Two tabs are in the same order in both lists.
SameOrder(list, new, a, b) ==
  (IndexOfTab(list, a) < IndexOfTab(list, b)) = (IndexOfTab(new, a) < IndexOfTab(new, b))

LEMMA InsertKeepsOrder ==
  ASSUME NEW S, NEW list \in Seq(S), NEW id \in S, NEW at \in 0..Len(list), Distinct(list),
         \A i \in 1..Len(list) : list[i] # id, NEW a \in Range(list), NEW b \in Range(list)
  PROVE  SameOrder(list, InsertTab(list, at, id), a, b)
<1>1. PICK i \in 1..Len(list) : list[i] = a
  BY Listed
<1>2. PICK j \in 1..Len(list) : list[j] = b
  BY Listed
<1>3. IndexOfTab(list, a) = i - 1 /\ IndexOfTab(list, b) = j - 1
  BY <1>1, <1>2, PositionIsIndex
<1>4. /\ IndexOfTab(InsertTab(list, at, id), a) = IF i <= at THEN i - 1 ELSE i
      /\ IndexOfTab(InsertTab(list, at, id), b) = IF j <= at THEN j - 1 ELSE j
  BY <1>1, <1>2, PositionAfterInsert
<1> QED BY <1>3, <1>4 DEF SameOrder

LEMMA EraseKeepsOrder ==
  ASSUME NEW S, NEW list \in Seq(S), NEW at \in 0..(Len(list) - 1), Distinct(list),
         NEW a \in Range(list), NEW b \in Range(list), a # list[at + 1], b # list[at + 1]
  PROVE  SameOrder(list, EraseTab(list, at), a, b)
<1>1. PICK i \in 1..Len(list) : list[i] = a
  BY Listed
<1>2. PICK j \in 1..Len(list) : list[j] = b
  BY Listed
<1>3. IndexOfTab(list, a) = i - 1 /\ IndexOfTab(list, b) = j - 1
  BY <1>1, <1>2, PositionIsIndex
<1>4. i # at + 1 /\ j # at + 1
  BY <1>1, <1>2
<1>5. /\ IndexOfTab(EraseTab(list, at), a) = IF i <= at THEN i - 1 ELSE i - 2
      /\ IndexOfTab(EraseTab(list, at), b) = IF j <= at THEN j - 1 ELSE j - 2
  BY <1>1, <1>2, <1>4, PositionAfterErase
<1> QED BY <1>3, <1>4, <1>5 DEF SameOrder

\* A tab put back at the position it was taken from.
LEMMA InsertUndoesErase ==
  ASSUME NEW S, NEW list \in Seq(S), NEW at \in 0..(Len(list) - 1)
  PROVE  InsertTab(EraseTab(list, at), at, list[at + 1]) = list
<1> DEFINE rest == EraseTab(list, at)
           id == list[at + 1]
           new == InsertTab(rest, at, id)
<1>1. id \in S
  OBVIOUS
<1>2. /\ rest \in Seq(S)
      /\ Len(rest) = Len(list) - 1
      /\ \A j \in 1..(Len(list) - 1) : rest[j] = IF j <= at THEN list[j] ELSE list[j + 1]
  <2>1. rest \in Seq(S) /\ IsRemoval(rest, list, at)
    BY EraseTabProperties
  <2> HIDE DEF rest
  <2> QED BY <2>1 DEF IsRemoval
<1> HIDE DEF rest
<1>3. at \in 0..Len(rest)
  BY <1>2
<1>4. /\ new \in Seq(S)
      /\ Len(new) = Len(rest) + 1
      /\ \A j \in 1..(Len(rest) + 1) :
           new[j] = IF j <= at THEN rest[j] ELSE IF j = at + 1 THEN id ELSE rest[j - 1]
  <2> HIDE DEF id
  <2>1. new \in Seq(S) /\ IsInsertion(new, rest, at, id)
    BY <1>1, <1>2, <1>3, InsertTabProperties
  <2> HIDE DEF new
  <2> QED BY <2>1 DEF IsInsertion
<1> HIDE DEF new
<1>5. Len(new) = Len(list)
  BY <1>2, <1>4
<1>6. ASSUME NEW j \in 1..Len(list) PROVE new[j] = list[j]
  <2>1. CASE j <= at
    <3>1. j \in 1..(Len(list) - 1) /\ j \in 1..(Len(rest) + 1)
      BY <1>2, <2>1
    <3>2. new[j] = rest[j]
      BY <1>4, <2>1, <3>1
    <3> QED BY <1>2, <2>1, <3>1, <3>2
  <2>2. CASE j = at + 1
    BY <1>2, <1>4, <2>2
  <2>3. CASE j > at + 1
    <3>1. j - 1 \in 1..(Len(list) - 1) /\ ~(j - 1 <= at) /\ j - 1 + 1 = j /\ j \in 1..(Len(rest) + 1)
      BY <1>2, <2>3
    <3>2. new[j] = rest[j - 1]
      BY <1>4, <2>3, <3>1
    <3> QED BY <1>2, <3>1, <3>2
  <2> QED BY <2>1, <2>2, <2>3
<1>7. new = list
  BY <1>4, <1>5, <1>6, SeqEqual
<1> QED BY <1>7 DEF new, rest, id

\* Placed puts a tab of a list back where it was, in the list without it and given
\* the position it had and whether it was pinned.
LEMMA PlacedUndoesErase ==
  ASSUME NEW S, NEW list \in Seq(S), NEW at \in 0..(Len(list) - 1), Distinct(list), NEW pinned,
         Prefixed(list, pinned)
  PROVE  Placed(EraseTab(list, at), pinned \ {list[at + 1]}, at, list[at + 1],
                list[at + 1] \in pinned) = list
<1> DEFINE id == list[at + 1]
           rest == EraseTab(list, at)
           after == pinned \ {id}
<1>1. /\ rest \in Seq(S)
      /\ Len(rest) = Len(list) - 1
      /\ \A j \in 1..(Len(list) - 1) : rest[j] = IF j <= at THEN list[j] ELSE list[j + 1]
  <2>1. rest \in Seq(S) /\ IsRemoval(rest, list, at)
    BY EraseTabProperties
  <2> HIDE DEF rest
  <2> QED BY <2>1 DEF IsRemoval
<1>2. \A i \in 1..Len(rest) : rest[i] # id
  BY EraseKeepsDistinct
<1> HIDE DEF rest
<1>3. PICK k \in 0..Len(list) : \A i \in 1..Len(list) : list[i] \in pinned <=> i <= k
  BY DEF Prefixed
<1>4. at + 1 \in 1..Len(list) /\ (id \in pinned <=> at + 1 <= k)
  BY <1>3
<1> DEFINE m == IF id \in pinned THEN k - 1 ELSE k
<1>5. m \in 0..Len(rest) /\ (id \in pinned => at <= m) /\ (id \notin pinned => at >= m)
  BY <1>1, <1>3, <1>4
<1>6. ASSUME NEW i \in 1..Len(rest) PROVE rest[i] \in after <=> i <= m
  <2>1. rest[i] \in after <=> rest[i] \in pinned
    BY <1>2, <1>6
  <2>2. CASE i <= at
    BY <1>1, <1>3, <1>4, <2>1, <2>2
  <2>3. CASE i > at
    <3>1. i + 1 \in 1..Len(list) /\ rest[i] = list[i + 1]
      BY <1>1, <2>3
    <3>2. rest[i] \in pinned <=> i + 1 <= k
      BY <1>3, <3>1
    <3> QED BY <1>3, <1>4, <2>1, <2>3, <3>2
  <2> QED BY <1>1, <2>2, <2>3
<1> HIDE DEF m, id, after
<1>7. PinnedCount(rest, after) = m
  BY <1>1, <1>5, <1>6, PinnedCountIsBoundary
<1>8. ClampInsertIndex(rest, after, at, id \in pinned) = at
  BY <1>1, <1>5, <1>7 DEF ClampInsertIndex, Clamp
<1>9. InsertTab(rest, at, id) = list
  BY InsertUndoesErase DEF rest, id
<1>10. Placed(rest, after, at, id, id \in pinned) = list
  BY <1>8, <1>9 DEF Placed
<1> QED BY <1>10 DEF rest, after, id

\* What is left of a sequence without its head, and with one more element.
LEMMA TailOf ==
  ASSUME NEW S, NEW q \in Seq(S), q # <<>>
  PROVE  /\ Tail(q) \in Seq(S) /\ Len(Tail(q)) = Len(q) - 1
         /\ \A i \in 1..Len(Tail(q)) : i + 1 \in 1..Len(q) /\ Tail(q)[i] = q[i + 1]
         /\ 1 \in 1..Len(q) /\ Head(q) = q[1] /\ Head(q) \in S
OBVIOUS

LEMMA AppendOf ==
  ASSUME NEW S, NEW q \in Seq(S), NEW e \in S
  PROVE  /\ Append(q, e) \in Seq(S) /\ Len(Append(q, e)) = Len(q) + 1
         /\ \A i \in 1..Len(q) : Append(q, e)[i] = q[i]
         /\ Append(q, e)[Len(q) + 1] = e
OBVIOUS

\* A tab put at the end of the strip.
LEMMA AppendTab ==
  ASSUME NEW S, NEW list \in Seq(S), NEW id \in S, Distinct(list), id \notin Range(list)
  PROVE  /\ Append(list, id) \in Seq(S) /\ Distinct(Append(list, id))
         /\ Range(Append(list, id)) = Range(list) \cup {id}
<1> DEFINE longer == Append(list, id)
<1>1. /\ longer \in Seq(S) /\ Len(longer) = Len(list) + 1
      /\ \A i \in 1..Len(list) : longer[i] = list[i]
      /\ longer[Len(list) + 1] = id
  BY AppendOf
<1> HIDE DEF longer
<1>2. \A i \in 1..Len(longer) : (i \in 1..Len(list) /\ longer[i] = list[i]) \/ (i = Len(list) + 1 /\ longer[i] = id)
  BY <1>1
<1>3. \A t : t \in Range(list) <=> \E i \in 1..Len(list) : list[i] = t
  BY Listed
<1>4. \A t : t \in Range(longer) <=> \E i \in 1..Len(longer) : longer[i] = t
  BY <1>1, Listed
<1>5. Distinct(longer)
  BY <1>2, <1>3 DEF Distinct
<1>6. Len(list) + 1 \in 1..Len(longer) /\ \A i \in 1..Len(list) : i \in 1..Len(longer)
  BY <1>1
<1>7. Range(longer) = Range(list) \cup {id}
  BY <1>1, <1>2, <1>3, <1>4, <1>6
<1> QED BY <1>1, <1>5, <1>7 DEF longer

\* Where a tab of the strip is, and that a tab that moves stays one of them.
LEMMA IndexOfListed ==
  ASSUME NEW S, NEW list \in Seq(S), NEW id \in Range(list)
  PROVE  IndexOfTab(list, id) \in 0..(Len(list) - 1) /\ list[IndexOfTab(list, id) + 1] = id
<1>1. \E i \in 1..Len(list) : list[i] = id
  BY Listed
<1>2. IndexOfTab(list, id) >= 0
  BY <1>1 DEF IndexOfTab
<1> QED BY <1>2, IndexOfTabProperties

LEMMA IndexIsInteger ==
  ASSUME NEW S, NEW list \in Seq(S), NEW id PROVE IndexOfTab(list, id) \in Int
<1>1. CASE \E i \in 1..Len(list) : list[i] = id
  BY <1>1 DEF IndexOfTab
<1>2. CASE ~ \E i \in 1..Len(list) : list[i] = id
  BY <1>2 DEF IndexOfTab
<1> QED BY <1>1, <1>2

LEMMA MovedKeepsTabs ==
  ASSUME NEW S, NEW list \in Seq(S), Distinct(list), NEW id \in Range(list)
  PROVE  /\ Moved(list, {}, id, 0) \in Seq(S) /\ Distinct(Moved(list, {}, id, 0))
         /\ Range(Moved(list, {}, id, 0)) = Range(list)
<1> DEFINE at == IndexOfTab(list, id)
           rest == EraseTab(list, at)
           pinned == {}
           isPinned == id \in {}
           target == 0
           place == ClampInsertIndex(rest, pinned, target, isPinned)
           new == InsertTab(rest, place, id)
<1>1. at \in 0..(Len(list) - 1) /\ list[at + 1] = id
  BY IndexOfListed
<1>2. id \in S
  <2>1. at + 1 \in 1..Len(list)
    BY <1>1
  <2> QED BY <1>1, <2>1
<1> HIDE DEF at
<1>3. /\ rest \in Seq(S) /\ Distinct(rest) /\ Range(rest) = Range(list) \ {id}
      /\ \A i \in 1..Len(rest) : rest[i] # id
  BY <1>1, EraseTabProperties, EraseKeepsDistinct, EraseRange
<1>4. isPinned \in BOOLEAN /\ target \in Int /\ 0 \in 0..Len(rest) /\ \A i \in 1..Len(rest) : rest[i] \in pinned <=> i <= 0
  BY <1>3
<1>5. Moved(list, {}, id, 0) = new
  BY DEF Moved, Placed, at
<1> HIDE DEF rest, pinned, isPinned, target
<1>6. place \in 0..Len(rest)
  BY <1>3, <1>4, ClampInsertIndexInGroup
<1> HIDE DEF place
<1>7. new \in Seq(S) /\ Distinct(new) /\ Range(new) = Range(rest) \cup {id}
  BY <1>2, <1>3, <1>6, InsertTabProperties, InsertKeepsDistinct, InsertRange
<1> HIDE DEF new
<1> QED BY <1>3, <1>5, <1>7

\* A strip without its last tab, and what shows in the place of one that has gone.
LEMMA FrontOfTabs ==
  ASSUME NEW S, NEW list \in Seq(S), list # <<>>, Distinct(list)
  PROVE  /\ Front(list) \in Seq(S) /\ Distinct(Front(list))
         /\ Range(Front(list)) \subseteq Range(list) /\ Last(list) \in Range(list) /\ Last(list) \in S
<1> DEFINE first == 1
           last == Len(list) - 1
           rest == SubSeq(list, first, last)
<1>1. Len(list) \in 1..Len(list) /\ last \in Nat /\ first \in Int /\ \A i \in first..last : list[i] \in S
  OBVIOUS
<1> HIDE DEF first, last
<1>b. /\ rest \in Seq(S) /\ Len(rest) = (IF first <= last THEN last - first + 1 ELSE 0)
      /\ \A i \in 1..(last - first + 1) : rest[i] = list[first + i - 1]
  BY <1>1, SubSeqProperties
<1> HIDE DEF rest
<1>a. /\ rest \in Seq(S) /\ Len(rest) = Len(list) - 1
      /\ \A i \in 1..(Len(list) - 1) : rest[i] = list[i]
  <2>1. last - first + 1 = last /\ Len(rest) = last
    BY <1>1, <1>b DEF first
  <2>2. ASSUME NEW i \in 1..last PROVE rest[i] = list[i]
    <3>1. i \in 1..(last - first + 1) /\ first + i - 1 = i
      BY <1>1, <2>1 DEF first
    <3> QED BY <1>b, <3>1
  <2> QED BY <1>b, <2>1, <2>2 DEF last
<1>2. rest \in Seq(S) /\ Len(rest) = Len(list) - 1 /\ \A i \in 1..Len(rest) : rest[i] = list[i]
  BY <1>a
<1>3. Front(list) = rest /\ Last(list) = list[Len(list)]
  BY DEF Front, Last, rest, first, last
<1>4. Distinct(rest)
  BY <1>2 DEF Distinct
<1>5. Range(rest) \subseteq Range(list)
  <2>1. ASSUME NEW id \in Range(rest) PROVE id \in Range(list)
    <3>1. PICK i \in 1..Len(rest) : rest[i] = id
      BY <1>2, Listed
    <3>2. i \in 1..Len(list) /\ list[i] = id
      BY <1>2, <3>1
    <3> QED BY <3>2, Listed
  <2> QED BY <2>1
<1>6. list[Len(list)] \in Range(list) /\ list[Len(list)] \in S
  BY <1>1, Listed
<1> QED BY <1>2, <1>3, <1>4, <1>5, <1>6

LEMMA NeighbourIsListed ==
  ASSUME NEW S, NEW list \in Seq(S), list # <<>>, NEW at \in Nat
  PROVE  Neighbour(list, at) \in Range(list)
<1> DEFINE i == IF at >= Len(list) THEN Len(list) ELSE at + 1
<1>1. i \in 1..Len(list)
  OBVIOUS
<1>2. Neighbour(list, at) = list[i]
  BY DEF Neighbour
<1> HIDE DEF i
<1> QED BY <1>1, <1>2, Listed

-----------------------------------------------------------------------------
(* The members of a list that are in a set.                                *)

At(list, S) == {i \in 1..Len(list) : list[i] \in S}
Upto(list, S, i) == {j \in At(list, S) : j <= i}
Rank(list, S, i) == Cardinality(Upto(list, S, i))

\* A set of natural numbers that is not empty has a least one.
LEMMA LeastNatural ==
  ASSUME NEW S \in SUBSET Nat, S # {}
  PROVE  \E n \in S : \A m \in S : n <= m
<1> DEFINE R == OpToRel(<, Nat)
<1>1. IsWellFoundedOn(R, Nat)
  BY NatLessThanWellFounded
<1>2. \A n, m \in Nat : m < n => <<m, n>> \in R
  BY DEF OpToRel
<1> HIDE DEF R
<1>3. \E n \in S : \A m \in S : ~(<<m, n>> \in R)
  BY <1>1, WFMin
<1>4. \A n, m \in Nat : m < n \/ n <= m
  OBVIOUS
<1>5. \A n \in S : n \in Nat
  OBVIOUS
<1>6. \A n, m \in S : m < n => <<m, n>> \in R
  BY <1>2, <1>5
<1>7. \A n, m \in S : m < n \/ n <= m
  BY <1>4, <1>5
<1> QED BY <1>3, <1>6, <1>7

LEMMA OnlyByRank ==
  ASSUME NEW list, NEW S
  PROVE  Only(list, S) = [k \in 1..Cardinality(At(list, S)) |->
                            list[CHOOSE i \in At(list, S) : Rank(list, S, i) = k]]
BY DEF Only, At, Upto, Rank

\* Positions are finitely many, and no more than the list is long.
LEMMA AtIsFinite ==
  ASSUME NEW T, NEW list \in Seq(T), NEW S
  PROVE  /\ IsFiniteSet(At(list, S)) /\ Cardinality(At(list, S)) \in 0..Len(list)
         /\ \A i : IsFiniteSet(Upto(list, S, i)) /\ Rank(list, S, i) \in 0..Cardinality(At(list, S))
<1>1. IsFiniteSet(1..Len(list)) /\ Cardinality(1..Len(list)) = Len(list)
  <2> DEFINE one == 1
             n == Len(list)
  <2>1. one \in Int /\ n \in Int /\ n >= 0
    OBVIOUS
  <2>2. IsFiniteSet(one..n) /\ Cardinality(one..n) = IF one > n THEN 0 ELSE n - one + 1
    <3> HIDE DEF one, n
    <3> QED BY <2>1, FS_Interval
  <2> QED BY <2>1, <2>2
<1>2. At(list, S) \in SUBSET (1..Len(list))
  BY DEF At
<1>3. IsFiniteSet(At(list, S)) /\ Cardinality(At(list, S)) <= Len(list)
  BY <1>1, <1>2, FS_Subset
<1>4. Cardinality(At(list, S)) \in Nat
  BY <1>3, FS_CardinalityType
<1>5. ASSUME NEW i
      PROVE  IsFiniteSet(Upto(list, S, i)) /\ Rank(list, S, i) \in 0..Cardinality(At(list, S))
  <2>1. Upto(list, S, i) \in SUBSET At(list, S)
    BY DEF Upto
  <2>2. IsFiniteSet(Upto(list, S, i)) /\ Rank(list, S, i) <= Cardinality(At(list, S))
    BY <1>3, <2>1, FS_Subset DEF Rank
  <2>3. Rank(list, S, i) \in Nat
    BY <2>2, FS_CardinalityType DEF Rank
  <2> QED BY <1>4, <2>2, <2>3
<1> QED BY <1>3, <1>4, <1>5

\* The rank grows by one at each position of a member.
LEMMA RankSteps ==
  ASSUME NEW T, NEW list \in Seq(T), NEW S
  PROVE  /\ Rank(list, S, 0) = 0 /\ Rank(list, S, Len(list)) = Cardinality(At(list, S))
         /\ \A i \in Nat : Rank(list, S, i + 1) = IF i + 1 \in At(list, S) THEN Rank(list, S, i) + 1
                                                                         ELSE Rank(list, S, i)
<1>1. Upto(list, S, 0) = {}
  BY DEF Upto, At
<1>2. Upto(list, S, Len(list)) = At(list, S)
  BY DEF Upto, At
<1>3. ASSUME NEW i \in Nat
      PROVE  Rank(list, S, i + 1) = IF i + 1 \in At(list, S) THEN Rank(list, S, i) + 1 ELSE Rank(list, S, i)
  <2>1. CASE i + 1 \in At(list, S)
    <3>1. Upto(list, S, i + 1) = Upto(list, S, i) \cup {i + 1} /\ i + 1 \notin Upto(list, S, i)
      BY <2>1 DEF Upto, At
    <3>2. IsFiniteSet(Upto(list, S, i))
      BY AtIsFinite
    <3> QED BY <2>1, <3>1, <3>2, FS_AddElement DEF Rank
  <2>2. CASE i + 1 \notin At(list, S)
    <3>1. Upto(list, S, i + 1) = Upto(list, S, i)
      BY <2>2 DEF Upto, At
    <3> QED BY <2>2, <3>1 DEF Rank
  <2> QED BY <2>1, <2>2
<1> QED BY <1>1, <1>2, <1>3, FS_EmptySet DEF Rank

\* Every rank up to the number of members is that of one member.
LEMMA RankReaches ==
  ASSUME NEW T, NEW list \in Seq(T), NEW S, NEW k \in 1..Cardinality(At(list, S))
  PROVE  \E i \in At(list, S) : Rank(list, S, i) = k
<1> DEFINE c == Cardinality(At(list, S))
           rank(i) == Rank(list, S, i)
           enough == {i \in Nat : rank(i) >= k}
<1>1. c \in Nat /\ k \in 1..c /\ \A i : rank(i) \in 0..c
  BY AtIsFinite
<1>2. rank(0) = 0 /\ rank(Len(list)) = c
  BY RankSteps
<1>3. Len(list) \in enough
  BY <1>1, <1>2
<1>4. PICK n \in enough : \A m \in enough : n <= m
  <2>1. enough \in SUBSET Nat /\ enough # {}
    BY <1>3
  <2> HIDE DEF enough
  <2> QED BY <2>1, LeastNatural
<1>5. n \in Nat /\ n # 0 /\ rank(n) >= k
  BY <1>1, <1>2, <1>4
<1>6. n - 1 \in Nat /\ n = (n - 1) + 1 /\ rank(n - 1) < k
  BY <1>1, <1>4, <1>5
<1>7. rank(n) = IF n \in At(list, S) THEN rank(n - 1) + 1 ELSE rank(n - 1)
  <2> DEFINE m == n - 1
  <2>1. m \in Nat /\ n = m + 1
    BY <1>6
  <2> HIDE DEF m
  <2>2. rank(m + 1) = IF m + 1 \in At(list, S) THEN rank(m) + 1 ELSE rank(m)
    BY <2>1, RankSteps
  <2>3. rank(n) = IF n \in At(list, S) THEN rank(m) + 1 ELSE rank(m)
    BY <2>1, <2>2
  <2> QED BY <2>3 DEF m
<1>8. n \in At(list, S) /\ rank(n) = k
  BY <1>1, <1>5, <1>6, <1>7
<1> QED BY <1>8

\* Two members do not have the same rank, and a member has one.
LEMMA RankTellsApart ==
  ASSUME NEW T, NEW list \in Seq(T), NEW S, NEW i \in At(list, S)
  PROVE  /\ Rank(list, S, i) \in 1..Cardinality(At(list, S))
         /\ \A j \in At(list, S) : Rank(list, S, j) = Rank(list, S, i) => j = i
<1>1. ASSUME NEW a \in At(list, S), NEW b \in At(list, S), a < b, Rank(list, S, a) = Rank(list, S, b) PROVE FALSE
  <2>1. a \in Nat /\ b \in Nat /\ \A j \in At(list, S) : j \in Nat
    BY DEF At
  <2>2. Upto(list, S, a) \in SUBSET Upto(list, S, b) /\ b \in Upto(list, S, b) /\ b \notin Upto(list, S, a)
    <3>1. \A j \in Upto(list, S, a) : j \in Upto(list, S, b)
      BY <1>1, <2>1 DEF Upto
    <3>2. b \in Upto(list, S, b) /\ b \notin Upto(list, S, a)
      BY <1>1, <2>1 DEF Upto
    <3> QED BY <3>1, <3>2
  <2>3. IsFiniteSet(Upto(list, S, b))
    BY AtIsFinite
  <2> QED BY <1>1, <2>2, <2>3, FS_Subset DEF Rank
<1>2. \A j \in At(list, S) : j \in Nat
  BY DEF At
<1>3. \A j \in At(list, S) : Rank(list, S, j) = Rank(list, S, i) => j = i
  BY <1>1, <1>2
<1>4. Rank(list, S, i) # 0
  <2>1. i \in Upto(list, S, i)
    BY <1>2 DEF Upto
  <2>2. IsFiniteSet(Upto(list, S, i))
    BY AtIsFinite
  <2> QED BY <2>1, <2>2, FS_EmptySet DEF Rank
<1> QED BY <1>3, <1>4, AtIsFinite

\* What Only returns: a list of members, as long as there are members, each in the
\* place of its rank.
LEMMA OnlyProperties ==
  ASSUME NEW T, NEW list \in Seq(T), NEW S
  PROVE  /\ Only(list, S) \in Seq(T) /\ Len(Only(list, S)) = Cardinality(At(list, S))
         /\ Len(Only(list, S)) \in 0..Len(list)
         /\ \A k \in 1..Len(Only(list, S)) : Only(list, S)[k] \in S /\ Only(list, S)[k] \in Range(list)
         /\ \A i \in At(list, S) : /\ Rank(list, S, i) \in 1..Len(Only(list, S))
                                   /\ Only(list, S)[Rank(list, S, i)] = list[i]
<1> DEFINE c == Cardinality(At(list, S))
           pick(k) == CHOOSE i \in At(list, S) : Rank(list, S, i) = k
<1>1. Only(list, S) = [k \in 1..c |-> list[pick(k)]]
  BY OnlyByRank
<1>2. c \in 0..Len(list) /\ Len(list) \in Nat
  BY AtIsFinite
<1>3. \A k \in 1..c : pick(k) \in At(list, S) /\ Rank(list, S, pick(k)) = k
  BY RankReaches
<1>4. \A i \in At(list, S) : i \in 1..Len(list) /\ list[i] \in S /\ list[i] \in T
  BY DEF At
<1>5. \A i \in At(list, S) : Rank(list, S, i) \in 1..c /\ pick(Rank(list, S, i)) = i
  BY <1>3, RankTellsApart
<1> HIDE DEF c, pick
<1>6. Only(list, S) \in Seq(T) /\ Len(Only(list, S)) = c
  BY <1>1, <1>2, <1>3, <1>4
<1>7. \A k \in 1..c : Only(list, S)[k] = list[pick(k)] /\ pick(k) \in 1..Len(list) /\ list[pick(k)] \in S
  BY <1>1, <1>3, <1>4
<1>8. \A k \in 1..c : Only(list, S)[k] \in Range(list)
  BY <1>7, Listed
<1>9. \A i \in At(list, S) : Only(list, S)[Rank(list, S, i)] = list[i]
  BY <1>5, <1>7
<1> QED BY <1>2, <1>5, <1>6, <1>7, <1>8, <1>9 DEF c

\* Only looks at the members of the list.
LEMMA OnlySame ==
  ASSUME NEW T, NEW list \in Seq(T), NEW S, NEW U, \A t \in Range(list) : t \in S <=> t \in U
  PROVE  Only(list, S) = Only(list, U)
<1>1. At(list, S) = At(list, U)
  BY Listed DEF At
<1>2. \A i : Rank(list, S, i) = Rank(list, U, i)
  BY <1>1 DEF Rank, Upto
<1> DEFINE c == Cardinality(At(list, S))
<1>3. /\ Only(list, S) \in Seq(T) /\ Len(Only(list, S)) = c /\ Only(list, U) \in Seq(T) /\ Len(Only(list, U)) = c
      /\ \A i \in At(list, S) : Only(list, S)[Rank(list, S, i)] = list[i]
      /\ \A i \in At(list, S) : Only(list, U)[Rank(list, S, i)] = list[i]
  BY <1>1, <1>2, OnlyProperties
<1>4. \A k \in 1..c : \E i \in At(list, S) : Rank(list, S, i) = k
  BY RankReaches
<1> HIDE DEF c
<1>5. \A k \in 1..c : Only(list, S)[k] = Only(list, U)[k]
  BY <1>3, <1>4
<1> QED BY <1>3, <1>5, SeqEqual

LEMMA OnlyAll ==
  ASSUME NEW T, NEW list \in Seq(T), NEW S, \A t \in Range(list) : t \in S
  PROVE  Only(list, S) = list
<1>1. At(list, S) = 1..Len(list)
  BY Listed DEF At
<1>2. \A i \in 1..Len(list) : Rank(list, S, i) = i
  <2>1. ASSUME NEW i \in 1..Len(list) PROVE Rank(list, S, i) = i
    <3>1. Upto(list, S, i) = 1..i
      BY <1>1 DEF Upto
    <3> QED BY <3>1, FS_Interval DEF Rank
  <2> QED BY <2>1
<1>3. Cardinality(At(list, S)) = Len(list)
  BY <1>1, FS_Interval
<1>4. /\ Only(list, S) \in Seq(T) /\ Len(Only(list, S)) = Len(list)
      /\ \A i \in 1..Len(list) : Only(list, S)[i] = list[i]
  BY <1>1, <1>2, <1>3, OnlyProperties
<1> HIDE DEF Only
<1> QED BY <1>4, SeqEqual

LEMMA OnlyOfNothing == ASSUME NEW S PROVE Only(<<>>, S) = <<>>
<1> DEFINE none == <<>>
<1>1. none \in Seq(Nat) /\ Len(none) = 0
  OBVIOUS
<1> HIDE DEF none
<1>2. Only(none, S) \in Seq(Nat) /\ Len(Only(none, S)) \in 0..Len(none)
  BY <1>1, OnlyProperties
<1>3. Only(none, S) = <<>>
  BY <1>1, <1>2
<1> QED BY <1>3 DEF none

\* A tab behind the others is kept behind the others, or not at all.
LEMMA OnlyAppends ==
  ASSUME NEW T, NEW list \in Seq(T), NEW x \in T, NEW S
  PROVE  Only(Append(list, x), S) = IF x \in S THEN Append(Only(list, S), x) ELSE Only(list, S)
<1> DEFINE longer == Append(list, x)
           n == Len(list)
           c == Cardinality(At(list, S))
<1>1. /\ longer \in Seq(T) /\ Len(longer) = n + 1 /\ longer[n + 1] = x /\ n \in Nat
      /\ \A i \in 1..n : longer[i] = list[i]
  OBVIOUS
<1> HIDE DEF longer
<1>2. At(longer, S) = At(list, S) \cup (IF x \in S THEN {n + 1} ELSE {})
  BY <1>1 DEF At
<1>3. \A i \in 1..n : Upto(longer, S, i) = Upto(list, S, i)
  BY <1>1, <1>2 DEF Upto
<1>4. \A i \in 1..n : Rank(longer, S, i) = Rank(list, S, i)
  BY <1>3 DEF Rank
<1>5. /\ Only(list, S) \in Seq(T) /\ Len(Only(list, S)) = c /\ c \in Nat
      /\ \A i \in At(list, S) : Rank(list, S, i) \in 1..c /\ Only(list, S)[Rank(list, S, i)] = list[i]
  BY OnlyProperties
<1>6. /\ Only(longer, S) \in Seq(T) /\ Len(Only(longer, S)) = Cardinality(At(longer, S))
      /\ \A i \in At(longer, S) : Only(longer, S)[Rank(longer, S, i)] = longer[i]
  BY <1>1, OnlyProperties
<1>7. \A i \in At(list, S) : i \in 1..n /\ i \in At(longer, S)
  BY <1>2 DEF At
<1>8. \A k \in 1..c : Only(longer, S)[k] = Only(list, S)[k]
  <2>1. ASSUME NEW k \in 1..c PROVE Only(longer, S)[k] = Only(list, S)[k]
    <3>1. PICK i \in At(list, S) : Rank(list, S, i) = k
      BY RankReaches
    <3> QED BY <1>1, <1>4, <1>5, <1>6, <1>7, <3>1
  <2> QED BY <2>1
<1>9. CASE x \in S
  <2>1. n + 1 \notin At(list, S) /\ n + 1 \in At(longer, S) /\ IsFiniteSet(At(list, S))
    <3>1. n + 1 \notin At(list, S)
      BY <1>1 DEF At
    <3>2. n + 1 \in At(longer, S)
      BY <1>2, <1>9
    <3> QED BY <3>1, <3>2, AtIsFinite
  <2>2. Cardinality(At(longer, S)) = c + 1
    BY <1>2, <1>9, <2>1, FS_AddElement
  <2>3. Rank(longer, S, n + 1) = c + 1
    BY <1>1, <2>2, RankSteps
  <2>4. Only(longer, S)[c + 1] = x
    BY <1>1, <1>6, <2>1, <2>3
  <2> DEFINE kept == Only(list, S)
             new == Only(longer, S)
  <2>5. /\ Append(kept, x) \in Seq(T) /\ Len(Append(kept, x)) = c + 1 /\ Append(kept, x)[c + 1] = x
        /\ \A k \in 1..c : Append(kept, x)[k] = kept[k]
    BY <1>5
  <2>6. \A k \in 1..(c + 1) : new[k] = Append(kept, x)[k]
    BY <1>5, <1>8, <2>4, <2>5
  <2>7. new \in Seq(T) /\ Len(new) = c + 1
    BY <1>6, <2>2
  <2>8. new = Append(kept, x)
    BY <2>5, <2>6, <2>7, SeqEqual
  <2> QED BY <1>9, <2>8 DEF longer
<1>10. CASE x \notin S
  <2>1. Cardinality(At(longer, S)) = c
    BY <1>2, <1>10
  <2>2. Only(longer, S) = Only(list, S)
    BY <1>5, <1>6, <1>8, <2>1, SeqEqual
  <2> QED BY <1>10, <2>2 DEF longer
<1> QED BY <1>9, <1>10

\* What holds of the empty list, and of a list with one more at the end whenever it
\* holds of the list, holds of every list: `bad' is where it would not.
LEMMA NoShortest ==
  ASSUME NEW T, NEW Bad \in SUBSET Seq(T), <<>> \notin Bad,
         \A s \in Seq(T), x \in T : Append(s, x) \in Bad => s \in Bad
  PROVE  Bad = {}
<1> DEFINE lengths == {Len(s) : s \in Bad}
<1> SUFFICES ASSUME Bad # {} PROVE FALSE
  OBVIOUS
<1>1. lengths \in SUBSET Nat /\ lengths # {}
  <2>1. \A s \in Bad : s \in Seq(T) /\ Len(s) \in Nat
    OBVIOUS
  <2> QED BY <2>1
<1>2. PICK n \in lengths : \A m \in lengths : n <= m
  <2> HIDE DEF lengths
  <2> QED BY <1>1, LeastNatural
<1>3. PICK s \in Bad : Len(s) = n
  BY <1>2
<1>4. s \in Seq(T) /\ s # <<>>
  BY <1>3
<1>5. PICK front \in Seq(T), last \in T : s = Append(front, last)
  BY <1>4, SequenceEmptyOrAppend
<1>6. front \in Bad /\ Len(s) = Len(front) + 1 /\ Len(front) \in Nat
  BY <1>3, <1>5
<1>7. Len(front) \in lengths
  BY <1>6
<1> QED BY <1>2, <1>3, <1>6, <1>7

LEMMA OnlyJoins ==
  ASSUME NEW T, NEW left \in Seq(T), NEW right \in Seq(T), NEW S
  PROVE  Only(left \o right, S) = Only(left, S) \o Only(right, S)
<1> DEFINE Bad == {s \in Seq(T) : Only(left \o s, S) # Only(left, S) \o Only(s, S)}
<1>0. Only(left, S) \in Seq(T)
  BY OnlyProperties
<1>1. <<>> \notin Bad
  <2>1. left \o <<>> = left /\ Only(<<>>, S) = <<>> /\ Only(left, S) \o <<>> = Only(left, S)
    BY OnlyOfNothing, <1>0
  <2> QED BY <2>1
<1>2. ASSUME NEW s \in Seq(T), NEW x \in T, Append(s, x) \in Bad PROVE s \in Bad
  <2> SUFFICES ASSUME Only(left \o s, S) = Only(left, S) \o Only(s, S)
               PROVE  Only(left \o Append(s, x), S) = Only(left, S) \o Only(Append(s, x), S)
    BY <1>2
  <2>1. left \o s \in Seq(T) /\ left \o Append(s, x) = Append(left \o s, x)
    OBVIOUS
  <2>2. Only(s, S) \in Seq(T)
    BY OnlyProperties
  <2>3. Only(Append(s, x), S) = IF x \in S THEN Append(Only(s, S), x) ELSE Only(s, S)
    BY OnlyAppends
  <2>4. Only(Append(left \o s, x), S) = IF x \in S THEN Append(Only(left \o s, S), x) ELSE Only(left \o s, S)
    <3> DEFINE both == left \o s
    <3>1. both \in Seq(T)
      BY <2>1
    <3> HIDE DEF both
    <3>2. Only(Append(both, x), S) = IF x \in S THEN Append(Only(both, S), x) ELSE Only(both, S)
      BY <3>1, OnlyAppends
    <3> QED BY <3>2 DEF both
  <2>5. Only(left, S) \o Append(Only(s, S), x) = Append(Only(left, S) \o Only(s, S), x)
    BY <1>0, <2>2
  <2> QED BY <2>1, <2>3, <2>4, <2>5
<1>3. Bad \in SUBSET Seq(T)
  OBVIOUS
<1> HIDE DEF Bad
<1>4. Bad = {}
  BY <1>1, <1>2, <1>3, NoShortest
<1> QED BY <1>4 DEF Bad

LEMMA OnlyOne ==
  ASSUME NEW x, NEW S
  PROVE  Only(<<x>>, S) = IF x \in S THEN <<x>> ELSE <<>>
<1> DEFINE none == <<>>
<1>1. none \in Seq({x}) /\ <<x>> = Append(none, x) /\ Only(none, S) = <<>>
  BY OnlyOfNothing
<1> HIDE DEF none
<1>2. Only(Append(none, x), S) = IF x \in S THEN Append(Only(none, S), x) ELSE Only(none, S)
  BY <1>1, OnlyAppends
<1>3. Append(Only(none, S), x) = <<x>>
  BY <1>1 DEF none
<1> QED BY <1>1, <1>2, <1>3 DEF none

\* What is left out in two goes.
LEMMA OnlyTwice ==
  ASSUME NEW T, NEW list \in Seq(T), NEW S, NEW U, U \subseteq S
  PROVE  Only(Only(list, S), U) = Only(list, U)
<1> DEFINE Bad == {s \in Seq(T) : Only(Only(s, S), U) # Only(s, U)}
<1>1. <<>> \notin Bad
  BY OnlyOfNothing
<1>2. ASSUME NEW s \in Seq(T), NEW x \in T, Append(s, x) \in Bad PROVE s \in Bad
  <2> SUFFICES ASSUME Only(Only(s, S), U) = Only(s, U)
               PROVE  Only(Only(Append(s, x), S), U) = Only(Append(s, x), U)
    BY <1>2
  <2>1. Only(s, S) \in Seq(T)
    BY OnlyProperties
  <2>2. /\ Only(Append(s, x), S) = IF x \in S THEN Append(Only(s, S), x) ELSE Only(s, S)
        /\ Only(Append(s, x), U) = IF x \in U THEN Append(Only(s, U), x) ELSE Only(s, U)
    BY OnlyAppends
  <2>3. Only(Append(Only(s, S), x), U) = IF x \in U THEN Append(Only(Only(s, S), U), x) ELSE Only(Only(s, S), U)
    BY <2>1, OnlyAppends
  <2> QED BY <2>2, <2>3
<1>3. Bad \in SUBSET Seq(T)
  OBVIOUS
<1> HIDE DEF Bad
<1>4. Bad = {}
  BY <1>1, <1>2, <1>3, NoShortest
<1> QED BY <1>4 DEF Bad

\* Two lists that agree on which of their places are kept are kept place by place.
LEMMA OnlyAlike ==
  ASSUME NEW T, NEW list \in Seq(T), NEW S, NEW V, NEW other \in Seq(V), NEW U, Len(other) = Len(list),
         \A i \in 1..Len(list) : list[i] \in S <=> other[i] \in U
  PROVE  /\ Len(Only(other, U)) = Len(Only(list, S))
         /\ \A k \in 1..Len(Only(list, S)) : \E i \in 1..Len(list) :
              list[i] \in S /\ Only(list, S)[k] = list[i] /\ Only(other, U)[k] = other[i]
<1>1. At(other, U) = At(list, S)
  BY DEF At
<1>2. \A i : Rank(other, U, i) = Rank(list, S, i)
  BY <1>1 DEF Rank, Upto
<1>3. /\ Len(Only(list, S)) = Cardinality(At(list, S))
      /\ \A i \in At(list, S) : Only(list, S)[Rank(list, S, i)] = list[i]
  BY OnlyProperties
<1>4. /\ Len(Only(other, U)) = Cardinality(At(list, S))
      /\ \A i \in At(list, S) : Only(other, U)[Rank(list, S, i)] = other[i]
  BY <1>1, <1>2, OnlyProperties
<1>5. \A k \in 1..Cardinality(At(list, S)) : \E i \in At(list, S) : Rank(list, S, i) = k
  BY RankReaches
<1>6. \A i \in At(list, S) : i \in 1..Len(list) /\ list[i] \in S
  BY DEF At
<1> QED BY <1>3, <1>4, <1>5, <1>6

\* What is kept of a list in which nothing is twice has nothing twice.
LEMMA OnlyKeepsPlaces ==
  ASSUME NEW T, NEW list \in Seq(T), NEW S
  PROVE  \A k, m \in 1..Len(Only(list, S)) : \E i, j \in 1..Len(list) :
           /\ list[i] \in S /\ Only(list, S)[k] = list[i] /\ Only(list, S)[m] = list[j]
           /\ i = j => k = m
<1>1. /\ Len(Only(list, S)) = Cardinality(At(list, S))
      /\ \A i \in At(list, S) : Only(list, S)[Rank(list, S, i)] = list[i]
  BY OnlyProperties
<1>2. \A k \in 1..Cardinality(At(list, S)) : \E i \in At(list, S) : Rank(list, S, i) = k
  BY RankReaches
<1>3. \A i \in At(list, S) : i \in 1..Len(list) /\ list[i] \in S
  BY DEF At
<1> QED BY <1>1, <1>2, <1>3

\* What is kept of a list is what is in it and to be kept.
LEMMA OnlyRange ==
  ASSUME NEW T, NEW list \in Seq(T), NEW S
  PROVE  Range(Only(list, S)) = Range(list) \cap S
<1>1. /\ Only(list, S) \in Seq(T)
      /\ \A k \in 1..Len(Only(list, S)) : Only(list, S)[k] \in S /\ Only(list, S)[k] \in Range(list)
      /\ \A i \in At(list, S) : /\ Rank(list, S, i) \in 1..Len(Only(list, S))
                                /\ Only(list, S)[Rank(list, S, i)] = list[i]
  BY OnlyProperties
<1>2. ASSUME NEW x \in Range(Only(list, S)) PROVE x \in Range(list) \cap S
  BY <1>1, Listed
<1>3. ASSUME NEW x \in Range(list) \cap S PROVE x \in Range(Only(list, S))
  <2>1. PICK i \in 1..Len(list) : list[i] = x
    BY Listed
  <2>2. i \in At(list, S)
    BY <1>3, <2>1 DEF At
  <2>3. Rank(list, S, i) \in 1..Len(Only(list, S)) /\ Only(list, S)[Rank(list, S, i)] = x
    BY <1>1, <2>1, <2>2
  <2> QED BY <1>1, <2>3, Listed
<1> QED BY <1>2, <1>3

=============================================================================
