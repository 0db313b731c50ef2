------------------------- MODULE TabRegistryProofs -------------------------
(***************************************************************************)
(* For every number of tabs, queue length and set of calls: the registry's  *)
(* state has its type, no id is in the list twice, the pinned tabs are a    *)
(* prefix of the list, and the list is what the host and the page observers *)
(* have been told.                                                         *)
(*                                                                         *)
(* None of these is inductive alone.  A close erases the position the tab   *)
(* had before its page was destroyed, so it matters that a page opened      *)
(* meanwhile went in behind it; and a tab being destroyed by closeAllTabs   *)
(* is out of the list but still pinned.  WorkOK says so.                    *)
(***************************************************************************)
EXTENDS TabRegistry, TabListTheorems

Creates == {"Open", "ReopenClosed"}

\* The ids that are waiting in commands have been reserved.
Reserved(c) == c.id < nextId /\ (c.kind \in Creates => c.id # 0)

QueueReserved == \A i \in 1..Len(queue) : Reserved(queue[i])

WorkOK ==
  /\ work.id < nextId
  /\ work.op = "none" => work.id = 0
  /\ work.op = "close" => work.at < Len(tabs) /\ tabs[work.at + 1] = work.id
  /\ work.op \in {"record", "destroy"} => \A i \in 1..Len(tabs) : tabs[i] # work.id

IInv == TypeOK /\ PinnedPrefix /\ UniqueIds /\ QueueReserved /\ WorkOK

LEMMA PrefixedIsPinnedPrefix == PinnedPrefix <=> Prefixed(tabs, pinned)
BY DEF PinnedPrefix, Prefixed

LEMMA InitInv == Init => IInv
<1> SUFFICES ASSUME Init PROVE IInv
  OBVIOUS
<1> USE RegistryAssumption DEF RegistryAssumption
<1>1. tabs = <<>> /\ queue = <<>> /\ doomed = <<>> /\ closed = <<>> /\ Len(tabs) = 0
  BY DEF Init
<1>2. work \in Works /\ work.id = 0 /\ work.op = "none"
  <2>1. work = NoWork
    BY DEF Init
  <2> QED BY <2>1 DEF NoWork, Works
<1>3. published \in [tabs : Seq(Ids), pinned : SUBSET Ids, active : 0..MaxTabs, closed : Nat]
  BY DEF Init
<1>4. TypeOK
  <2>1. /\ queue \in Seq(Commands) /\ doomed \in Seq(Ids) /\ tabs \in Seq(Ids)
        /\ closed \in Seq(ClosedTabs)
    BY <1>1
  <2>2. /\ engine = "new" /\ firstQueued = FALSE /\ stage = "drain" /\ nextId \in 1..(MaxTabs + 1)
        /\ active \in 0..MaxTabs
        /\ pinned = {} /\ addressed = {} /\ awake = {} /\ observed = {}
    BY DEF Init
  <2> QED BY <1>2, <1>3, <2>1, <2>2 DEF TypeOK
<1>5. PinnedPrefix /\ UniqueIds /\ QueueReserved /\ WorkOK
  BY <1>1, <1>2 DEF Init, PinnedPrefix, UniqueIds, QueueReserved, WorkOK
<1> QED BY <1>4, <1>5 DEF IInv

-----------------------------------------------------------------------------
(* What the handlers have in common.                                       *)

LEMMA PublishType ==
  ASSUME tabs' \in Seq(Ids), pinned' \subseteq Ids, active' \in 0..MaxTabs,
         closed' \in Seq(ClosedTabs), Publish
  PROVE  published' \in [tabs : Seq(Ids), pinned : SUBSET Ids, active : 0..MaxTabs, closed : Nat]
BY DEF Publish

\* createTab keeps the list in order; a tab opened at the end moves no other.
LEMMA CreateTabKeeps ==
  ASSUME IInv, NEW id \in Ids, NEW index \in Int, NEW isPinned \in BOOLEAN,
         NEW foreground \in BOOLEAN, NEW hasAddress \in BOOLEAN,
         nextId' \in Nat, nextId' >= nextId, id < nextId',
         CreateTab(id, index, isPinned, foreground, hasAddress)
  PROVE  /\ tabs' \in Seq(Ids) /\ pinned' \subseteq Ids /\ addressed' \subseteq Ids
         /\ observed' \subseteq Ids /\ awake' \subseteq Ids /\ active' \in 0..MaxTabs
         /\ PinnedPrefix' /\ UniqueIds'
         /\ index = -1 /\ ~isPinned =>
              /\ Len(tabs') = Len(tabs) + 1
              /\ tabs'[Len(tabs) + 1] = id
              /\ \A i \in 1..Len(tabs) : tabs'[i] = tabs[i]
<1> DEFINE at == ClampInsertIndex(tabs, pinned, index, isPinned)
<1>1. tabs \in Seq(Ids) /\ Len(tabs) \in Nat /\ nextId \in Nat
  BY DEF IInv, TypeOK
<1>2. \A i \in 1..Len(tabs) : tabs[i] # id
  BY <1>1 DEF CreateTab, IndexOfTab
<1>3. Prefixed(tabs, pinned) /\ Distinct(tabs)
  BY DEF IInv, PinnedPrefix, UniqueIds, Prefixed, Distinct
<1>4. /\ \A i \in 1..Len(tabs) : tabs[i] \in pinned' <=> tabs[i] \in pinned
      /\ isPinned <=> id \in pinned'
  BY <1>2 DEF CreateTab
<1>5. Prefixed(Placed(tabs, pinned, index, id, isPinned), pinned') /\ at \in 0..Len(tabs)
  BY <1>1, <1>3, <1>4, PlacedKeepsPrefix
<1>6. tabs' = InsertTab(tabs, at, id)
  BY DEF CreateTab, Placed
<1>7. index = -1 /\ ~isPinned => at = Len(tabs)
  BY DEF ClampInsertIndex, Clamp
<1> HIDE DEF at
<1>8. /\ tabs' \in Seq(Ids) /\ Len(tabs') = Len(tabs) + 1
      /\ \A i \in 1..(Len(tabs) + 1) :
           tabs'[i] = IF i <= at THEN tabs[i] ELSE IF i = at + 1 THEN id ELSE tabs[i - 1]
  <2>1. tabs' \in Seq(Ids) /\ IsInsertion(tabs', tabs, at, id)
    BY <1>1, <1>5, <1>6, InsertTabProperties
  <2> QED BY <2>1 DEF IsInsertion
<1>9. Distinct(tabs')
  BY <1>1, <1>2, <1>3, <1>5, <1>6, InsertKeepsDistinct
<1>10. \A i \in 1..Len(tabs') : tabs'[i] < nextId'
  <2>1. \A i \in 1..Len(tabs) : tabs[i] \in Ids /\ tabs[i] < nextId
    BY <1>1 DEF IInv, UniqueIds
  <2>2. ASSUME NEW i \in 1..Len(tabs')
        PROVE  tabs'[i] = id \/ \E j \in 1..Len(tabs) : tabs'[i] = tabs[j]
    <3>1. CASE i <= at
      BY <1>1, <1>5, <1>8, <3>1
    <3>2. CASE i = at + 1
      BY <1>1, <1>5, <1>8, <3>2
    <3>3. CASE i > at + 1
      <4>1. i - 1 \in 1..Len(tabs) /\ tabs'[i] = tabs[i - 1]
        BY <1>1, <1>5, <1>8, <3>3
      <4> QED BY <4>1
    <3> QED BY <1>1, <1>5, <1>8, <3>1, <3>2, <3>3
  <2> QED BY SMTT(30), <1>1, <2>1, <2>2 DEF Ids
<1>11. Prefixed(tabs', pinned')
  BY <1>5 DEF CreateTab
<1>12. /\ pinned' \subseteq Ids /\ addressed' \subseteq Ids /\ observed' \subseteq Ids
       /\ awake' \subseteq Ids /\ active' \in 0..MaxTabs
  <2>1. /\ pinned \subseteq Ids /\ addressed \subseteq Ids /\ observed \subseteq Ids
        /\ awake \subseteq Ids /\ active \in 0..MaxTabs
    BY DEF IInv, TypeOK
  <2>2. /\ pinned' \subseteq pinned \cup {id} /\ addressed' \subseteq addressed \cup {id}
        /\ observed' = observed \cup {id}
    BY DEF CreateTab
  <2>3. /\ awake' \subseteq awake \cup {id} /\ active' \in {active, id}
    BY DEF CreateTab, SelectedFrom
  <2>4. id \in 0..MaxTabs
    BY RegistryAssumption DEF RegistryAssumption, Ids
  <2> QED BY ONLY <2>1, <2>2, <2>3, <2>4, id \in Ids
<1>13. PinnedPrefix' /\ UniqueIds'
  BY <1>9, <1>10, <1>11 DEF PinnedPrefix, UniqueIds, Prefixed, Distinct
<1>14. index = -1 /\ ~isPinned =>
         /\ tabs'[Len(tabs) + 1] = id
         /\ \A i \in 1..Len(tabs) : tabs'[i] = tabs[i]
  BY ONLY <1>1, <1>7, <1>8
<1> QED BY <1>8, <1>12, <1>13, <1>14

\* rememberClosedTab
LEMMA RememberType ==
  ASSUME TypeOK, NEW id, NEW at \in Nat, Remember(id, at)
  PROVE  closed' \in Seq(ClosedTabs)
<1> DEFINE entry == [index |-> at, pinned |-> id \in pinned]
           grown == Append(closed, entry)
<1>1. entry \in ClosedTabs
  BY DEF ClosedTabs
<1>2. closed \in Seq(ClosedTabs)
  BY DEF TypeOK
<1>3. grown \in Seq(ClosedTabs) /\ grown # <<>>
  <2> HIDE DEF entry
  <2> QED BY <1>1, <1>2, AppendProperties
<1>4. closed' \in {grown, Tail(grown), closed}
  BY DEF Remember, Remembered
<1> HIDE DEF grown
<1>5. Tail(grown) \in Seq(ClosedTabs)
  BY <1>3
<1> QED BY ONLY <1>2, <1>3, <1>4, <1>5

\* A tab at a position of the list is taken out of it.
LEMMA EraseKeeps ==
  ASSUME IInv, NEW at \in 0..(Len(tabs) - 1)
  PROVE  /\ EraseTab(tabs, at) \in Seq(Ids)
         /\ Len(EraseTab(tabs, at)) = Len(tabs) - 1
         /\ Distinct(EraseTab(tabs, at))
         /\ \A i \in 1..Len(EraseTab(tabs, at)) :
              /\ EraseTab(tabs, at)[i] # tabs[at + 1]
              /\ EraseTab(tabs, at)[i] < nextId
              /\ \E j \in 1..Len(tabs) : EraseTab(tabs, at)[i] = tabs[j]
         /\ \A after : (\A i \in 1..Len(tabs) :
                          i # at + 1 => (tabs[i] \in after <=> tabs[i] \in pinned))
                        => Prefixed(EraseTab(tabs, at), after)
<1> DEFINE new == EraseTab(tabs, at)
<1>1. tabs \in Seq(Ids) /\ Prefixed(tabs, pinned) /\ Distinct(tabs)
  BY DEF IInv, TypeOK, PinnedPrefix, UniqueIds, Prefixed, Distinct
<1>2. /\ new \in Seq(Ids)
      /\ Len(new) = Len(tabs) - 1
      /\ \A i \in 1..(Len(tabs) - 1) : new[i] = IF i <= at THEN tabs[i] ELSE tabs[i + 1]
  <2>1. new \in Seq(Ids) /\ IsRemoval(new, tabs, at)
    BY <1>1, EraseTabProperties
  <2> HIDE DEF new
  <2> QED BY <2>1 DEF IsRemoval
<1>3. Distinct(new) /\ \A i \in 1..Len(new) : new[i] # tabs[at + 1]
  BY <1>1, EraseKeepsDistinct
<1>4. \A after : (\A i \in 1..Len(tabs) : i # at + 1 => (tabs[i] \in after <=> tabs[i] \in pinned))
                 => Prefixed(new, after)
  BY <1>1, EraseKeepsPrefix
<1> HIDE DEF new
<1>5. \A i \in 1..Len(new) : \E j \in 1..Len(tabs) : new[i] = tabs[j]
  BY <1>1, <1>2
<1>6. \A i \in 1..Len(new) : new[i] < nextId
  BY <1>5 DEF IInv, UniqueIds
<1>7. /\ new \in Seq(Ids) /\ Len(new) = Len(tabs) - 1 /\ Distinct(new)
      /\ \A i \in 1..Len(new) : /\ new[i] # tabs[at + 1] /\ new[i] < nextId
                                /\ \E j \in 1..Len(tabs) : new[i] = tabs[j]
      /\ \A after : (\A i \in 1..Len(tabs) : i # at + 1 => (tabs[i] \in after <=> tabs[i] \in pinned))
                 => Prefixed(new, after)
  BY <1>2, <1>3, <1>4, <1>5, <1>6
<1> QED BY <1>7 DEF new

\* A step that touches neither the list nor the close under way.
LEMMA ListUnchanged ==
  ASSUME IInv, UNCHANGED <<tabs, pinned, work>>, nextId' \in Nat, nextId' >= nextId
  PROVE  PinnedPrefix' /\ UniqueIds' /\ WorkOK'
<1>1. \A i \in 1..Len(tabs) : tabs[i] \in Ids /\ tabs[i] < nextId
  BY DEF IInv, TypeOK, UniqueIds
<1>2. nextId \in Nat /\ work.id \in Nat /\ work.id < nextId
  BY DEF IInv, TypeOK, Works, WorkOK
<1>3. UniqueIds'
  BY <1>1, <1>2 DEF IInv, UniqueIds, Ids
<1>4. WorkOK'
  BY <1>2 DEF IInv, WorkOK
<1>5. PinnedPrefix'
  BY DEF IInv, PinnedPrefix
<1> QED BY <1>3, <1>4, <1>5

\* postCommand
LEMMA PostKeeps ==
  ASSUME IInv, NEW c \in Commands, nextId' \in Nat, nextId' >= nextId, c.id < nextId',
         c.kind \in Creates => c.id # 0,
         queue' = Append(queue, c) \/ queue' = queue
  PROVE  queue' \in Seq(Commands) /\ QueueReserved'
<1>1. /\ queue \in Seq(Commands) /\ nextId \in Nat
      /\ \A i \in 1..Len(queue) : queue[i].id < nextId /\ (queue[i].kind \in Creates => queue[i].id # 0)
  BY DEF IInv, TypeOK, QueueReserved, Reserved
<1>2. \A d \in Commands : d.id \in Nat
  BY DEF Commands
<1>3. \A i \in 1..Len(queue) : queue[i].id < nextId' /\ (queue[i].kind \in Creates => queue[i].id # 0)
  BY <1>1, <1>2
<1>4. CASE queue' = queue
  BY <1>1, <1>3, <1>4 DEF QueueReserved, Reserved
<1>5. CASE queue' = Append(queue, c)
  <2>1. /\ queue' \in Seq(Commands) /\ Len(queue') = Len(queue) + 1
        /\ queue'[Len(queue) + 1] = c /\ \A i \in 1..Len(queue) : queue'[i] = queue[i]
    BY <1>1, <1>5, AppendProperties
  <2> QED BY <1>1, <1>3, <2>1 DEF QueueReserved, Reserved
<1> QED BY <1>4, <1>5

\* drainCommands, up to the handler.
LEMMA TakeKeeps ==
  ASSUME IInv, NEW kind, TakeNext(kind)
  PROVE  /\ queue' \in Seq(Commands) /\ QueueReserved'
         /\ Head(queue) \in Commands /\ Head(queue).kind = kind
         /\ Head(queue).id < nextId /\ (kind \in Creates => Head(queue).id \in Ids)
         /\ Head(queue).id \in 0..MaxTabs /\ Head(queue).index \in Int
         /\ Head(queue).flag \in BOOLEAN
         /\ nextId' = nextId /\ nextId \in Nat
         /\ engine' \in {"new", "on", "stopping", "off"} /\ firstQueued' \in BOOLEAN
         /\ work = NoWork /\ doomed = <<>>
<1>1. queue \in Seq(Commands) /\ queue # <<>> /\ queue' = Tail(queue)
  BY DEF IInv, TypeOK, TakeNext
<1>2. Head(queue) \in Commands /\ Head(queue) = queue[1] /\ 1 \in 1..Len(queue)
  BY <1>1
<1>3. Head(queue).id < nextId /\ Head(queue).kind = kind /\ (kind \in Creates => Head(queue).id # 0)
  BY <1>2 DEF IInv, QueueReserved, Reserved, TakeNext
<1>4. /\ Tail(queue) \in Seq(Commands) /\ Len(Tail(queue)) = Len(queue) - 1
      /\ \A i \in 1..Len(Tail(queue)) : Tail(queue)[i] = queue[i + 1]
  BY <1>1, HeadTailProperties
<1>5. nextId' = nextId /\ nextId \in Nat /\ engine' = engine /\ firstQueued' = firstQueued
      /\ work = NoWork /\ doomed = <<>>
  BY DEF IInv, TypeOK, TakeNext, AtRest
<1>6. QueueReserved'
  BY <1>1, <1>4, <1>5 DEF IInv, QueueReserved, Reserved
<1>7. /\ Head(queue).id \in 0..MaxTabs /\ Head(queue).index \in Int
      /\ Head(queue).flag \in BOOLEAN
  BY <1>2 DEF Commands
<1>8. kind \in Creates => Head(queue).id \in Ids
  BY <1>3, <1>7, RegistryAssumption DEF RegistryAssumption, Ids
<1> QED BY <1>1, <1>2, <1>3, <1>4, <1>5, <1>6, <1>7, <1>8 DEF IInv, TypeOK

\* closeTab up to the destruction of the page.
LEMMA BeginCloseKeeps ==
  ASSUME IInv, NEW id \in 0..MaxTabs, work = NoWork, BeginClose(id), nextId' = nextId
  PROVE  /\ PinnedPrefix' /\ UniqueIds' /\ WorkOK' /\ work' \in Works
         /\ tabs' \in Seq(Ids) /\ pinned' \subseteq Ids /\ addressed' \subseteq Ids
         /\ awake' \subseteq Ids /\ observed' \subseteq Ids /\ active' \in 0..MaxTabs
         /\ closed' \in Seq(ClosedTabs) /\ published' = published
<1> DEFINE at == IndexOfTab(tabs, id)
<1>1. tabs \in Seq(Ids) /\ nextId \in Nat
  BY DEF IInv, TypeOK
<1>2. CASE at < 0
  <2>1. UNCHANGED <<tabs, pinned, work>> /\ UNCHANGED <<listVars, published>>
    BY <1>2 DEF BeginClose, listVars
  <2>2. PinnedPrefix' /\ UniqueIds' /\ WorkOK'
    BY <1>1, <2>1, ListUnchanged
  <2> QED BY <2>1, <2>2 DEF IInv, TypeOK, listVars
<1>3. CASE ~(at < 0)
  <2>1. /\ UNCHANGED <<tabs, pinned, addressed, awake, active, published>>
        /\ Remember(id, at) /\ observed' = observed \ {id}
        /\ work' = [op |-> "close", id |-> id, at |-> at, wasActive |-> active = id]
    BY <1>3 DEF BeginClose
  <2>2. at \in 0..(Len(tabs) - 1) /\ tabs[at + 1] = id
    <3>1. at >= 0
      BY <1>1, <1>3 DEF IndexOfTab
    <3> QED BY <1>1, <3>1, IndexOfTabProperties
  <2> HIDE DEF at
  <2>3. /\ work' \in Works /\ work'.op = "close" /\ work'.id = id /\ work'.at = at
    BY <2>1, <2>2 DEF Works
  <2>4. id < nextId /\ at < Len(tabs)
    BY <1>1, <2>2 DEF IInv, UniqueIds
  <2>5. WorkOK'
    BY <2>1, <2>2, <2>3, <2>4 DEF WorkOK
  <2>6. PinnedPrefix' /\ UniqueIds'
    BY <2>1 DEF IInv, PinnedPrefix, UniqueIds
  <2>7. closed' \in Seq(ClosedTabs)
    BY <2>1, <2>2, RememberType DEF IInv
  <2> QED BY <2>1, <2>3, <2>5, <2>6, <2>7 DEF IInv, TypeOK
<1> QED BY <1>2, <1>3

\* selectTab
LEMMA SelectTabKeeps ==
  ASSUME IInv, NEW id \in Ids, SelectTab(id)
  PROVE  /\ UNCHANGED <<tabs, pinned, addressed, closed, observed>>
         /\ awake' \subseteq Ids /\ active' \in 0..MaxTabs
         /\ published' \in [tabs : Seq(Ids), pinned : SUBSET Ids, active : 0..MaxTabs, closed : Nat]
<1>1. UNCHANGED <<tabs, pinned, addressed, closed, observed>>
  BY DEF SelectTab
<1>2. tabs' \in Seq(Ids) /\ pinned' \subseteq Ids /\ closed' \in Seq(ClosedTabs)
      /\ awake \subseteq Ids
  BY <1>1 DEF IInv, TypeOK
<1>3. awake' \subseteq Ids /\ active' \in 0..MaxTabs
  <2>1. active' = id /\ awake' \subseteq awake \cup {id}
    BY DEF SelectTab, SelectedFrom
  <2>2. id \in 0..MaxTabs
    BY RegistryAssumption DEF RegistryAssumption, Ids
  <2> QED BY <1>2, <2>1, <2>2
<1>4. CASE Publish
  BY <1>1, <1>2, <1>3, <1>4, PublishType
<1>5. CASE UNCHANGED published
  BY <1>1, <1>3, <1>5 DEF IInv, TypeOK
<1>6. Publish \/ UNCHANGED published
  BY DEF SelectTab
<1> QED BY <1>1, <1>3, <1>4, <1>5, <1>6

-----------------------------------------------------------------------------
(* The steps.                                                              *)

LEMMA CommandType ==
  ASSUME NEW kind \in {"Open", "Close", "CloseOthers", "CloseAll", "ReopenClosed", "Select",
                       "SelectIndex", "SelectNext", "SelectPrevious", "Move", "SetPinned",
                       "Shutdown"},
         NEW id \in 0..MaxTabs, NEW index \in Int, NEW flag \in BOOLEAN
  PROVE  /\ Command(kind, id, index, flag) \in Commands
         /\ Command(kind, id, index, flag).id = id
         /\ Command(kind, id, index, flag).kind = kind
BY DEF Command, Commands

\* A step of the frame thread that posts at most one command, about an id that
\* has been reserved by the time it is posted.
LEMMA PostStep ==
  ASSUME IInv, UNCHANGED <<work, doomed, listVars, published>>,
         nextId' \in 1..(MaxTabs + 1), nextId' >= nextId,
         engine' \in {"new", "on", "stopping", "off"}, firstQueued' \in BOOLEAN,
         stage' \in {"drain", "cycle", "exit"},
         NEW c \in Commands, c.id < nextId', c.kind \in Creates => c.id # 0,
         queue' = Append(queue, c) \/ queue' = queue
  PROVE  IInv'
<1>1. nextId' \in Nat
  BY RegistryAssumption DEF RegistryAssumption
<1>2. queue' \in Seq(Commands) /\ QueueReserved'
  BY <1>1, PostKeeps
<1>3. UNCHANGED <<work, doomed, tabs, pinned, addressed, awake, active, closed, observed, published>>
  BY DEF listVars
<1>4. PinnedPrefix' /\ UniqueIds' /\ WorkOK'
  BY <1>1, <1>3, ListUnchanged
<1>5. TypeOK'
  BY <1>2, <1>3 DEF IInv, TypeOK
<1> QED BY <1>2, <1>4, <1>5 DEF IInv

LEMMA FrameStep == IInv /\ Frame => IInv'
<1> SUFFICES ASSUME IInv, Frame PROVE IInv'
  OBVIOUS
<1>1. /\ nextId \in Nat /\ nextId \in 1..(MaxTabs + 1)
      /\ stage \in {"drain", "cycle", "exit"} /\ firstQueued \in BOOLEAN
      /\ engine \in {"new", "on", "stopping", "off"}
      /\ MaxTabs \in Nat /\ 0 \in 0..MaxTabs /\ Indices \subseteq Int
  BY RegistryAssumption DEF RegistryAssumption, IInv, TypeOK
<1>2. ASSUME Reserve
      PROVE  /\ nextId \in 0..MaxTabs /\ nextId # 0 /\ nextId < nextId'
             /\ nextId' \in 1..(MaxTabs + 1) /\ nextId' >= nextId
  BY <1>1, <1>2 DEF Reserve, IInv, TypeOK
<1>3. CASE HbStart
  <2>1. /\ UNCHANGED <<work, doomed, listVars, published>>
        /\ engine' \in {"new", "on", "stopping", "off"} /\ firstQueued' \in BOOLEAN
        /\ stage' \in {"drain", "cycle", "exit"}
    BY <1>1, <1>3 DEF HbStart
  <2>2. CASE firstQueued
    <3>1. nextId' = nextId /\ queue' = queue
      BY <1>3, <2>2 DEF HbStart
    <3>2. /\ Command("Shutdown", 0, 0, FALSE) \in Commands
          /\ Command("Shutdown", 0, 0, FALSE).id = 0
          /\ Command("Shutdown", 0, 0, FALSE).kind \notin Creates
      BY <1>1 DEF Command, Commands, Creates
    <3>3. 0 < nextId' /\ nextId' >= nextId
      BY <1>1, <3>1
    <3> QED BY <1>1, <2>1, <3>1, <3>2, <3>3, PostStep
  <2>3. CASE ~firstQueued
    <3>1. Reserve /\ queue' = Append(queue, Command("Open", nextId, -1, TRUE))
      BY <1>3, <2>3 DEF HbStart
    <3>2. /\ Command("Open", nextId, -1, TRUE) \in Commands
          /\ Command("Open", nextId, -1, TRUE).id = nextId
      BY <1>2, <3>1 DEF Command, Commands
    <3> QED BY <1>2, <2>1, <3>1, <3>2, PostStep
  <2> QED BY <2>2, <2>3
<1>4. CASE HbShutdown
  <2>1. /\ UNCHANGED <<nextId, stage, work, doomed, listVars, published>>
        /\ engine' = "stopping" /\ firstQueued' = FALSE
        /\ queue' = Append(queue, Command("Shutdown", 0, 0, FALSE))
    BY <1>4 DEF HbShutdown
  <2>2. /\ Command("Shutdown", 0, 0, FALSE) \in Commands
        /\ Command("Shutdown", 0, 0, FALSE).id = 0
        /\ Command("Shutdown", 0, 0, FALSE).kind \notin Creates
    BY <1>1 DEF Command, Commands, Creates
  <2>3. 0 < nextId' /\ nextId' >= nextId
    BY <1>1, <2>1
  <2> QED BY <1>1, <2>1, <2>2, <2>3, PostStep
<1>5. ASSUME NEW kind \in {"Open", "ReopenClosed"}, NEW index \in Int, NEW flag \in BOOLEAN,
             Reserve, Post(Command(kind, nextId, index, flag)),
             UNCHANGED <<engine, firstQueued, stage, work, doomed, listVars, published>>
      PROVE  IInv'
  <2>1. /\ Command(kind, nextId, index, flag) \in Commands
        /\ Command(kind, nextId, index, flag).id = nextId
    BY <1>2, <1>5, CommandType
  <2>2. queue' = Append(queue, Command(kind, nextId, index, flag)) \/ queue' = queue
    BY <1>5 DEF Post
  <2> QED BY <1>1, <1>2, <1>5, <2>1, <2>2, PostStep
<1>6. CASE HbReopenClosed
  <2>1. 0 \in Int /\ FALSE \in BOOLEAN /\ "ReopenClosed" \in {"Open", "ReopenClosed"}
    OBVIOUS
  <2> QED BY <1>5, <1>6, <2>1, Zenon DEF HbReopenClosed
<1>7. ASSUME NEW index \in Indices \cup {-1}, NEW foreground \in BOOLEAN, HbOpen(index, foreground)
      PROVE  IInv'
  <2>1. index \in Int
    BY <1>1
  <2> QED BY <1>5, <1>7, <2>1 DEF HbOpen
<1>8. ASSUME NEW kind \in {"Close", "CloseOthers", "CloseAll", "Select", "SelectIndex",
                           "SelectNext", "SelectPrevious", "Move", "SetPinned"},
             NEW id, id \in Known \/ id = 0, NEW index \in Int, NEW flag \in BOOLEAN,
             HbTab(kind, id, index, flag)
      PROVE  IInv'
  <2>1. id \in 0..MaxTabs /\ id < nextId
    BY <1>1, <1>8 DEF Known
  <2>2. /\ Command(kind, id, index, flag) \in Commands
        /\ Command(kind, id, index, flag).id = id
        /\ Command(kind, id, index, flag).kind \notin Creates
    BY <2>1, CommandType DEF Creates
  <2>3. /\ UNCHANGED <<engine, firstQueued, nextId, stage, work, doomed, listVars, published>>
        /\ queue' = Append(queue, Command(kind, id, index, flag)) \/ queue' = queue
    BY <1>8 DEF HbTab, Post
  <2>4. nextId' >= nextId /\ id < nextId'
    BY <1>1, <2>1, <2>3
  <2> QED BY <1>1, <2>2, <2>3, <2>4, PostStep
<1>9. ASSUME NEW kind \in {"Close", "CloseOthers", "Select"}, NEW id \in Known,
             HbTab(kind, id, 0, FALSE)
      PROVE  IInv'
  <2>1. /\ 0 \in Int /\ FALSE \in BOOLEAN
        /\ kind \in {"Close", "CloseOthers", "CloseAll", "Select", "SelectIndex",
                     "SelectNext", "SelectPrevious", "Move", "SetPinned"}
    BY <1>9
  <2> QED BY <1>8, <1>9, <2>1, Zenon
<1>10. ASSUME NEW kind \in {"CloseAll", "SelectNext", "SelectPrevious"}, HbTab(kind, 0, 0, FALSE)
       PROVE  IInv'
  <2>1. /\ 0 \in Int /\ FALSE \in BOOLEAN
        /\ kind \in {"Close", "CloseOthers", "CloseAll", "Select", "SelectIndex",
                     "SelectNext", "SelectPrevious", "Move", "SetPinned"}
    OBVIOUS
  <2> QED BY <1>8, <1>10, <2>1, Zenon
<1>11. ASSUME NEW index \in Indices, HbTab("SelectIndex", 0, index, FALSE)
       PROVE  IInv'
  <2>1. /\ index \in Int /\ FALSE \in BOOLEAN
        /\ "SelectIndex" \in {"Close", "CloseOthers", "CloseAll", "Select", "SelectIndex",
                              "SelectNext", "SelectPrevious", "Move", "SetPinned"}
    BY <1>1
  <2> QED BY <1>8, <1>11, <2>1, Zenon
<1>12. ASSUME NEW id \in Known, NEW index \in Indices, HbTab("Move", id, index, FALSE)
       PROVE  IInv'
  BY <1>1, <1>8, <1>12
<1>13. ASSUME NEW id \in Known, NEW flag \in BOOLEAN, HbTab("SetPinned", id, -1, flag)
       PROVE  IInv'
  <2>1. -1 \in Int
    OBVIOUS
  <2> QED BY <1>8, <1>13, <2>1
<1> QED BY <1>3, <1>4, <1>6, <1>7, <1>9, <1>10, <1>11, <1>12, <1>13 DEF Frame

-----------------------------------------------------------------------------
(* The commands.                                                           *)

ListType ==
  /\ tabs \in Seq(Ids)
  /\ pinned \subseteq Ids /\ addressed \subseteq Ids /\ awake \subseteq Ids
  /\ observed \subseteq Ids
  /\ active \in 0..MaxTabs
  /\ closed \in Seq(ClosedTabs)
  /\ published \in [tabs : Seq(Ids), pinned : SUBSET Ids, active : 0..MaxTabs, closed : Nat]

WorkType == work \in Works /\ doomed \in Seq(Ids)

ListInv == ListType /\ PinnedPrefix /\ UniqueIds /\ WorkType /\ WorkOK

LEMMA ListInvNow == IInv => ListInv /\ nextId \in Nat \ {0}
BY RegistryAssumption DEF RegistryAssumption, IInv, TypeOK, ListInv, ListType, WorkType

\* A handler run for a command.
LEMMA CommandStep ==
  ASSUME IInv, NEW kind, TakeNext(kind), stage' \in {"drain", "cycle", "exit"}, ListInv'
  PROVE  IInv'
BY TakeKeeps DEF IInv, TypeOK, ListInv, ListType, WorkType

\* A step of the WebKit thread that takes no command.
LEMMA ThreadStep ==
  ASSUME IInv, UNCHANGED <<threadVars, stage>>, ListInv'
  PROVE  IInv'
<1>1. UNCHANGED <<engine, firstQueued, nextId, queue, stage>>
  BY DEF threadVars
<1>2. QueueReserved'
  BY <1>1 DEF IInv, QueueReserved, Reserved
<1>3. TypeOK'
  BY <1>1 DEF IInv, TypeOK, ListInv, ListType, WorkType
<1> QED BY <1>2, <1>3 DEF IInv, ListInv

\* A step that leaves the list and the work as they are.
LEMMA ListInvUnchanged ==
  ASSUME IInv, UNCHANGED <<work, doomed, tabs, pinned, addressed, awake, active, closed, observed, published>>,
         nextId' = nextId
  PROVE  ListInv'
<1>1. PinnedPrefix' /\ UniqueIds' /\ WorkOK'
  BY ListUnchanged DEF IInv, TypeOK
<1> QED BY <1>1, ListInvNow DEF ListInv, ListType, WorkType

LEMMA RestIsOK ==
  ASSUME nextId' \in Nat \ {0}, work' = NoWork
  PROVE  WorkOK' /\ work' \in Works
<1>1. work' \in Works /\ work'.id = 0 /\ work'.op = "none"
  BY RegistryAssumption DEF RegistryAssumption, NoWork, Works
<1> QED BY <1>1 DEF WorkOK

LEMMA RunOpenStep == IInv /\ RunOpen => IInv'
<1> SUFFICES ASSUME IInv, RunOpen PROVE IInv'
  OBVIOUS
<1>1. TakeNext("Open") /\ stage' \in {"drain", "cycle", "exit"}
  BY DEF RunOpen, Take, IInv, TypeOK
<1>2. /\ nextId' = nextId /\ work = NoWork /\ doomed = <<>>
      /\ Head(queue).id \in Ids /\ Head(queue).id < nextId
      /\ Head(queue).index \in Int /\ Head(queue).flag \in BOOLEAN
  BY <1>1, TakeKeeps DEF Creates
<1>3. nextId \in Nat \ {0} /\ closed \in Seq(ClosedTabs)
  BY ListInvNow DEF ListInv, ListType
<1>4. CASE NoEffect
  BY <1>1, <1>2, <1>4, CommandStep, ListInvUnchanged DEF NoEffect, listVars
<1>5. CASE /\ CreateTab(Head(queue).id, Head(queue).index, FALSE, Head(queue).flag, TRUE)
           /\ UNCHANGED <<closed, work, doomed>>
           /\ Publish
  <2>1. /\ tabs' \in Seq(Ids) /\ pinned' \subseteq Ids /\ addressed' \subseteq Ids
        /\ observed' \subseteq Ids /\ awake' \subseteq Ids /\ active' \in 0..MaxTabs
        /\ PinnedPrefix' /\ UniqueIds'
    <3> DEFINE id == Head(queue).id
               index == Head(queue).index
               flag == Head(queue).flag
    <3>1. CreateTab(id, index, FALSE, flag, TRUE)
      BY <1>5
    <3>2. id \in Ids /\ index \in Int /\ flag \in BOOLEAN /\ FALSE \in BOOLEAN /\ TRUE \in BOOLEAN
          /\ nextId' \in Nat /\ nextId' >= nextId /\ id < nextId'
      BY <1>2, <1>3
    <3> HIDE DEF id, index, flag
    <3> QED BY <3>1, <3>2, CreateTabKeeps
  <2>2. closed' \in Seq(ClosedTabs)
    BY <1>3, <1>5
  <2>3. WorkOK' /\ work' \in Works /\ doomed' \in Seq(Ids)
    BY <1>2, <1>3, <1>5, RestIsOK
  <2>4. ListInv'
    BY <1>5, <2>1, <2>2, <2>3, PublishType DEF ListInv, ListType, WorkType
  <2> QED BY <1>1, <2>4, CommandStep
<1> QED BY <1>4, <1>5 DEF RunOpen

LEMMA RunReopenClosedStep == IInv /\ RunReopenClosed => IInv'
<1> SUFFICES ASSUME IInv, RunReopenClosed PROVE IInv'
  OBVIOUS
<1>1. TakeNext("ReopenClosed") /\ stage' \in {"drain", "cycle", "exit"}
  BY DEF RunReopenClosed, Take, IInv, TypeOK
<1>2. /\ nextId' = nextId /\ work = NoWork /\ doomed = <<>>
      /\ Head(queue).id \in Ids /\ Head(queue).id < nextId
      /\ UNCHANGED <<work, doomed>>
  BY <1>1, TakeKeeps DEF Creates, RunReopenClosed
<1>3. nextId \in Nat \ {0} /\ closed \in Seq(ClosedTabs) /\ ListInv
  BY ListInvNow DEF ListInv, ListType
<1>4. WorkOK' /\ work' \in Works /\ doomed' \in Seq(Ids)
  BY <1>2, <1>3, RestIsOK
<1>5. CASE closed = <<>>
  BY <1>1, <1>2, <1>5, CommandStep, ListInvUnchanged DEF RunReopenClosed, listVars
<1>6. CASE closed # <<>>
  <2> DEFINE entry == Last(closed)
  <2>1. closed' = Front(closed)
    BY <1>6 DEF RunReopenClosed
  <2>2. Len(closed) \in 1..Len(closed) /\ entry = closed[Len(closed)]
    BY <1>3, <1>6 DEF Last
  <2>3. entry \in ClosedTabs
    BY <1>3, <2>2
  <2>4. closed' \in Seq(ClosedTabs)
    <3>1. Front(closed) = SubSeq(closed, 1, Len(closed) - 1)
      BY DEF Front
    <3>2. Len(closed) - 1 \in 0..Len(closed)
      BY <1>3, <2>2
    <3> QED BY <1>3, <2>1, <3>1, <3>2, SubSeqProperties
  <2>5. CASE UNCHANGED <<tabs, pinned, addressed, awake, active, observed, published>>
    <3>1. PinnedPrefix' /\ UniqueIds'
      BY <1>2, <1>3, <2>5, ListUnchanged
    <3>2. ListInv'
      BY <1>3, <1>4, <2>4, <2>5, <3>1 DEF ListInv, ListType, WorkType
    <3> QED BY <1>1, <3>2, CommandStep
  <2>6. CASE CreateTab(Head(queue).id, entry.index, entry.pinned, TRUE, TRUE) /\ Publish
    <3> DEFINE id == Head(queue).id
               index == entry.index
               flag == entry.pinned
    <3>1. CreateTab(id, index, flag, TRUE, TRUE)
      BY <2>6
    <3>2. id \in Ids /\ index \in Int /\ flag \in BOOLEAN /\ TRUE \in BOOLEAN
          /\ nextId' \in Nat /\ nextId' >= nextId /\ id < nextId'
      <4> HIDE DEF entry
      <4> QED BY <1>2, <1>3, <2>3 DEF ClosedTabs
    <3> HIDE DEF id, index, flag
    <3>3. /\ tabs' \in Seq(Ids) /\ pinned' \subseteq Ids /\ addressed' \subseteq Ids
          /\ observed' \subseteq Ids /\ awake' \subseteq Ids /\ active' \in 0..MaxTabs
          /\ PinnedPrefix' /\ UniqueIds'
      BY <3>1, <3>2, CreateTabKeeps
    <3>4. ListInv'
      BY <1>4, <2>4, <2>6, <3>3, PublishType DEF ListInv, ListType, WorkType
    <3> QED BY <1>1, <3>4, CommandStep
  <2> QED BY <1>6, <2>5, <2>6 DEF RunReopenClosed
<1> QED BY <1>5, <1>6

LEMMA BeginCloseInv ==
  ASSUME IInv, NEW id \in 0..MaxTabs, work = NoWork, BeginClose(id), nextId' = nextId,
         doomed' \in Seq(Ids)
  PROVE  ListInv'
<1>1. /\ PinnedPrefix' /\ UniqueIds' /\ WorkOK' /\ work' \in Works
      /\ tabs' \in Seq(Ids) /\ pinned' \subseteq Ids /\ addressed' \subseteq Ids
      /\ awake' \subseteq Ids /\ observed' \subseteq Ids /\ active' \in 0..MaxTabs
      /\ closed' \in Seq(ClosedTabs) /\ published' = published
  BY BeginCloseKeeps
<1> QED BY <1>1, ListInvNow DEF ListInv, ListType, WorkType

LEMMA RunCloseStep == IInv /\ RunClose => IInv'
<1> SUFFICES ASSUME IInv, RunClose PROVE IInv'
  OBVIOUS
<1>1. TakeNext("Close") /\ stage' \in {"drain", "cycle", "exit"} /\ BeginClose(Head(queue).id)
      /\ doomed' = doomed
  BY DEF RunClose, Take, IInv, TypeOK
<1>2. nextId' = nextId /\ work = NoWork /\ Head(queue).id \in 0..MaxTabs
  BY <1>1, TakeKeeps
<1>3. doomed' \in Seq(Ids)
  BY <1>1 DEF IInv, TypeOK
<1>4. ListInv'
  BY <1>1, <1>2, <1>3, BeginCloseInv
<1> QED BY <1>1, <1>4, CommandStep

LEMMA CloseDoomedStep == IInv /\ CloseDoomed => IInv'
<1> SUFFICES ASSUME IInv, CloseDoomed PROVE IInv'
  OBVIOUS
<1>1. /\ BeginClose(Head(doomed)) /\ doomed' = Tail(doomed) /\ work = NoWork
      /\ UNCHANGED <<threadVars, stage>> /\ doomed # <<>> /\ doomed \in Seq(Ids)
  BY DEF CloseDoomed, IInv, TypeOK
<1>2. Head(doomed) \in 0..MaxTabs /\ doomed' \in Seq(Ids)
  <2>1. Head(doomed) \in Ids
    BY <1>1
  <2> QED BY <1>1, <2>1, RegistryAssumption DEF RegistryAssumption, Ids
<1>3. nextId' = nextId
  BY <1>1 DEF threadVars
<1>4. ListInv'
  BY <1>1, <1>2, <1>3, BeginCloseInv
<1> QED BY <1>1, <1>4, ThreadStep

\* closeTab from the destruction of the page on.
LEMMA FinishCloseStep == IInv /\ FinishClose => IInv'
<1> SUFFICES ASSUME IInv, FinishClose PROVE IInv'
  OBVIOUS
<1> DEFINE new == EraseTab(tabs, work.at)
<1>1. /\ work.op = "close" /\ tabs' = new /\ Publish /\ work' = NoWork
      /\ pinned' = pinned \ {work.id} /\ addressed' = addressed \ {work.id}
      /\ UNCHANGED <<threadVars, stage, doomed, closed, observed>>
  BY DEF FinishClose, Forgotten
<1>2. nextId' = nextId /\ nextId \in Nat \ {0} /\ ListInv
  BY <1>1, ListInvNow DEF threadVars
<1>3. tabs \in Seq(Ids) /\ work.at \in 0..(Len(tabs) - 1) /\ tabs[work.at + 1] = work.id
  <2>1. work.at \in Nat
    BY DEF IInv, TypeOK, Works
  <2> QED BY <1>1, <2>1 DEF IInv, TypeOK, WorkOK
<1>4. /\ new \in Seq(Ids) /\ Len(new) = Len(tabs) - 1 /\ Distinct(new)
      /\ \A i \in 1..Len(new) : new[i] < nextId
      /\ \A after : (\A i \in 1..Len(tabs) :
                          i # work.at + 1 => (tabs[i] \in after <=> tabs[i] \in pinned))
                        => Prefixed(new, after)
  BY <1>3, EraseKeeps
<1>5. Prefixed(tabs', pinned')
  <2>1. \A i \in 1..Len(tabs) : i # work.at + 1 => tabs[i] # work.id
    BY <1>3 DEF IInv, UniqueIds
  <2> HIDE DEF new
  <2> QED BY <1>1, <1>4, <2>1
<1> HIDE DEF new
<1>6. PinnedPrefix' /\ UniqueIds'
  BY <1>1, <1>2, <1>4, <1>5 DEF PinnedPrefix, UniqueIds, Prefixed, Distinct
<1>7. WorkOK' /\ work' \in Works /\ doomed' \in Seq(Ids)
  BY <1>1, <1>2, RestIsOK DEF ListInv, WorkType
<1>8. /\ tabs' \in Seq(Ids) /\ pinned' \subseteq Ids /\ addressed' \subseteq Ids
      /\ observed' \subseteq Ids /\ closed' \in Seq(ClosedTabs)
  BY <1>1, <1>2, <1>4 DEF ListInv, ListType
<1>9. awake' \subseteq Ids /\ active' \in 0..MaxTabs
  <2>1. awake \subseteq Ids /\ active \in 0..MaxTabs /\ 0 \in 0..MaxTabs /\ Ids \subseteq 0..MaxTabs
    BY <1>2, RegistryAssumption DEF RegistryAssumption, ListInv, ListType, Ids
  <2>2. CASE work.wasActive /\ new # <<>>
    <3>1. Neighbour(new, work.at) \in Ids
      <4>1. Len(new) # 0 /\ Len(new) \in Nat /\ work.at \in Nat
        BY <1>3, <1>4, <2>2
      <4>2. \A i \in 1..Len(new) : new[i] \in Ids
        BY <1>4
      <4> QED BY <4>1, <4>2 DEF Neighbour
    <3>2. SelectedFrom(work.id, Neighbour(new, work.at))
      BY <1>1, <2>2 DEF FinishClose
    <3> QED BY <2>1, <3>1, <3>2 DEF SelectedFrom
  <2>3. CASE ~(work.wasActive /\ new # <<>>)
    <3>1. active' \in {0, active} /\ awake' = awake \ {work.id}
      BY <1>1, <2>3 DEF FinishClose
    <3> QED BY <2>1, <3>1
  <2> QED BY <2>2, <2>3
<1>10. ListInv'
  BY <1>1, <1>6, <1>7, <1>8, <1>9, PublishType DEF ListInv, ListType, WorkType
<1> QED BY <1>1, <1>10, ThreadStep

\* The position of a tab of the list.
LEMMA ListedTab ==
  ASSUME IInv, NEW id \in 0..MaxTabs, ~(IndexOfTab(tabs, id) < 0)
  PROVE  /\ IndexOfTab(tabs, id) \in 0..(Len(tabs) - 1)
         /\ tabs[IndexOfTab(tabs, id) + 1] = id
         /\ id \in Ids /\ id < nextId
<1>1. tabs \in Seq(Ids)
  BY DEF IInv, TypeOK
<1>2. IndexOfTab(tabs, id) >= 0
  BY <1>1 DEF IndexOfTab
<1> DEFINE at == IndexOfTab(tabs, id)
<1>3. at \in 0..(Len(tabs) - 1) /\ tabs[at + 1] = id
  BY <1>1, <1>2, IndexOfTabProperties
<1> HIDE DEF at
<1>4. at + 1 \in 1..Len(tabs)
  BY <1>1, <1>3
<1>5. id \in Ids /\ id < nextId
  BY <1>1, <1>3, <1>4 DEF IInv, UniqueIds
<1> QED BY <1>3, <1>5 DEF at

LEMMA SelectInv ==
  ASSUME IInv, NEW id \in Ids, SelectTab(id), nextId' = nextId,
         work' = work, doomed' \in Seq(Ids)
  PROVE  ListInv'
<1>1. /\ UNCHANGED <<tabs, pinned, addressed, closed, observed>>
      /\ awake' \subseteq Ids /\ active' \in 0..MaxTabs
      /\ published' \in [tabs : Seq(Ids), pinned : SUBSET Ids, active : 0..MaxTabs, closed : Nat]
  BY SelectTabKeeps
<1>2. PinnedPrefix' /\ UniqueIds' /\ WorkOK'
  BY <1>1, ListUnchanged, ListInvNow
<1> QED BY <1>1, <1>2, ListInvNow DEF ListInv, ListType, WorkType

LEMMA RunCloseOthersStep == IInv /\ RunCloseOthers => IInv'
<1> SUFFICES ASSUME IInv, RunCloseOthers PROVE IInv'
  OBVIOUS
<1> DEFINE id == Head(queue).id
<1>1. TakeNext("CloseOthers") /\ stage' \in {"drain", "cycle", "exit"}
  BY DEF RunCloseOthers, Take, IInv, TypeOK
<1>2. nextId' = nextId /\ id \in 0..MaxTabs
  BY <1>1, TakeKeeps
<1>3. CASE NoEffect
  BY <1>1, <1>2, <1>3, CommandStep, ListInvUnchanged DEF NoEffect, listVars
<1>4. CASE /\ ~(IndexOfTab(tabs, id) < 0)
           /\ SelectTab(id) /\ doomed' = EraseTab(tabs, IndexOfTab(tabs, id)) /\ work' = work
  <2> HIDE DEF id
  <2>1. id \in Ids /\ IndexOfTab(tabs, id) \in 0..(Len(tabs) - 1)
    BY <1>2, <1>4, ListedTab
  <2>2. doomed' \in Seq(Ids)
    BY <1>4, <2>1, EraseKeeps
  <2> QED BY <1>1, <1>2, <1>4, <2>1, <2>2, SelectInv, CommandStep
<1> QED BY <1>3, <1>4 DEF RunCloseOthers

LEMMA RunSelectStep == IInv /\ RunSelect => IInv'
<1> SUFFICES ASSUME IInv, RunSelect PROVE IInv'
  OBVIOUS
<1>1. PICK kind \in {"Select", "SelectIndex", "SelectNext", "SelectPrevious"} : Take(kind)
  BY DEF RunSelect
<1>2. TakeNext(kind) /\ stage' \in {"drain", "cycle", "exit"}
  BY <1>1 DEF Take, IInv, TypeOK
<1>3. nextId' = nextId
  BY <1>2, TakeKeeps
<1> DEFINE id == Target(Head(queue))
<1>4. CASE IndexOfTab(tabs, id) < 0
  BY <1>2, <1>3, <1>4, CommandStep, ListInvUnchanged DEF RunSelect, listVars
<1>5. CASE ~(IndexOfTab(tabs, id) < 0)
  <2>1. SelectTab(id) /\ work' = work /\ doomed' = doomed
    BY <1>5 DEF RunSelect
  <2> HIDE DEF id
  <2>2. id \in Ids
    <3>1. \E i \in 1..Len(tabs) : tabs[i] = id
      BY <1>5 DEF IndexOfTab
    <3> QED BY <3>1 DEF IInv, TypeOK
  <2>3. doomed' \in Seq(Ids)
    BY <2>1 DEF IInv, TypeOK
  <2> QED BY <1>2, <1>3, <2>1, <2>2, <2>3, SelectInv, CommandStep
<1> QED BY <1>4, <1>5

\* A tab taken out of the list and put back elsewhere.
LEMMA PutBackKeeps ==
  ASSUME IInv, NEW id \in 0..MaxTabs, ~(IndexOfTab(tabs, id) < 0),
         NEW rest, rest = EraseTab(tabs, IndexOfTab(tabs, id)), NEW at \in 0..Len(rest)
  PROVE  /\ rest \in Seq(Ids) /\ id \in Ids
         /\ \A i \in 1..Len(rest) : rest[i] # id
         /\ Prefixed(rest, pinned)
         /\ InsertTab(rest, at, id) \in Seq(Ids)
         /\ Distinct(InsertTab(rest, at, id))
         /\ \A i \in 1..Len(InsertTab(rest, at, id)) : InsertTab(rest, at, id)[i] < nextId
<1> DEFINE from == IndexOfTab(tabs, id)
           new == InsertTab(rest, at, id)
<1>1. from \in 0..(Len(tabs) - 1) /\ tabs[from + 1] = id /\ id \in Ids /\ id < nextId
  BY ListedTab
<1> HIDE DEF from
<1>2. rest = EraseTab(tabs, from)
  BY DEF from
<1>3. /\ rest \in Seq(Ids) /\ Distinct(rest) /\ Prefixed(rest, pinned)
      /\ \A i \in 1..Len(rest) : rest[i] # id /\ rest[i] < nextId
  <2>1. /\ EraseTab(tabs, from) \in Seq(Ids) /\ Distinct(EraseTab(tabs, from))
        /\ \A i \in 1..Len(EraseTab(tabs, from)) :
             EraseTab(tabs, from)[i] # tabs[from + 1] /\ EraseTab(tabs, from)[i] < nextId
        /\ Prefixed(EraseTab(tabs, from), pinned)
    BY <1>1, EraseKeeps
  <2> QED BY ONLY <1>1, <1>2, <2>1
<1>4. Distinct(new)
  BY <1>1, <1>3, InsertKeepsDistinct
<1>5. /\ new \in Seq(Ids) /\ Len(new) = Len(rest) + 1
      /\ \A i \in 1..(Len(rest) + 1) :
           new[i] = IF i <= at THEN rest[i] ELSE IF i = at + 1 THEN id ELSE rest[i - 1]
  <2>1. new \in Seq(Ids) /\ IsInsertion(new, rest, at, id)
    BY <1>1, <1>3, InsertTabProperties
  <2> HIDE DEF new
  <2> QED BY <2>1 DEF IsInsertion
<1> HIDE DEF new
<1>6. ASSUME NEW i \in 1..Len(new) PROVE new[i] < nextId
  <2>1. CASE i <= at
    BY <1>3, <1>5, <2>1
  <2>2. CASE i = at + 1
    BY <1>1, <1>3, <1>5, <2>2
  <2>3. CASE i > at + 1
    <3>1. i - 1 \in 1..Len(rest) /\ new[i] = rest[i - 1]
      BY <1>3, <1>5, <2>3
    <3> QED BY <1>3, <3>1
  <2> QED BY <1>3, <1>5, <2>1, <2>2, <2>3
<1> QED BY <1>1, <1>3, <1>4, <1>5, <1>6 DEF new

LEMMA ReorderInv ==
  ASSUME IInv, nextId' = nextId, tabs' \in Seq(Ids), Distinct(tabs'), Prefixed(tabs', pinned'),
         \A i \in 1..Len(tabs') : tabs'[i] < nextId, pinned' \subseteq Ids,
         UNCHANGED <<addressed, awake, active, closed, observed, work, doomed>>,
         work = NoWork, Publish
  PROVE  ListInv'
<1>1. ListInv /\ nextId' \in Nat \ {0}
  BY ListInvNow
<1>2. PinnedPrefix' /\ UniqueIds'
  BY <1>1 DEF PinnedPrefix, UniqueIds, Prefixed, Distinct
<1>3. WorkOK' /\ WorkType'
  BY <1>1, RestIsOK DEF ListInv, WorkType
<1>4. active' \in 0..MaxTabs /\ closed' \in Seq(ClosedTabs)
  BY <1>1 DEF ListInv, ListType
<1>5. ListType'
  BY <1>1, <1>4, PublishType DEF ListInv, ListType
<1> QED BY <1>2, <1>3, <1>5 DEF ListInv

LEMMA RunMoveStep == IInv /\ RunMove => IInv'
<1> SUFFICES ASSUME IInv, RunMove PROVE IInv'
  OBVIOUS
<1> DEFINE id == Head(queue).id
           index == Head(queue).index
           rest == EraseTab(tabs, IndexOfTab(tabs, id))
           at == ClampInsertIndex(rest, pinned, index, id \in pinned)
<1>1. TakeNext("Move") /\ stage' \in {"drain", "cycle", "exit"}
  BY DEF RunMove, Take, IInv, TypeOK
<1>2. nextId' = nextId /\ id \in 0..MaxTabs /\ index \in Int /\ work = NoWork
  BY <1>1, TakeKeeps
<1>3. CASE NoEffect
  BY <1>1, <1>2, <1>3, CommandStep, ListInvUnchanged DEF NoEffect, listVars
<1>4. CASE /\ ~(IndexOfTab(tabs, id) < 0)
           /\ tabs' = Moved(tabs, pinned, id, index)
           /\ UNCHANGED <<pinned, addressed, awake, active, closed, observed, work, doomed>>
           /\ Publish
  <2>1. tabs' = Placed(rest, pinned, index, id, id \in pinned) /\ tabs' = InsertTab(rest, at, id)
    BY <1>4 DEF Moved, Placed
  <2> HIDE DEF id, index
  <2>2. 0 \in 0..Len(rest)
    BY <1>2, <1>4, ListedTab, EraseKeeps
  <2> HIDE DEF rest
  <2>3. rest \in Seq(Ids) /\ id \in Ids /\ Prefixed(rest, pinned)
    BY <1>2, <1>4, <2>2, PutBackKeeps DEF rest
  <2>4. (id \in pinned) \in BOOLEAN
    OBVIOUS
  <2>5. Prefixed(Placed(rest, pinned, index, id, id \in pinned), pinned) /\ at \in 0..Len(rest)
    BY <1>2, <2>3, <2>4, PlacedKeepsPrefix
  <2> HIDE DEF at
  <2>6. tabs' \in Seq(Ids) /\ Distinct(tabs') /\ \A i \in 1..Len(tabs') : tabs'[i] < nextId
    BY <1>2, <1>4, <2>1, <2>5, PutBackKeeps DEF rest
  <2>7. pinned' \subseteq Ids /\ Prefixed(tabs', pinned')
    BY <1>4, <2>1, <2>5 DEF IInv, TypeOK
  <2> QED BY <1>1, <1>2, <1>4, <2>6, <2>7, ReorderInv, CommandStep
<1> QED BY <1>3, <1>4 DEF RunMove

LEMMA RunSetPinnedStep == IInv /\ RunSetPinned => IInv'
<1> SUFFICES ASSUME IInv, RunSetPinned PROVE IInv'
  OBVIOUS
<1> DEFINE id == Head(queue).id
           flag == Head(queue).flag
           rest == EraseTab(tabs, IndexOfTab(tabs, id))
           at == PinnedCount(rest, pinned)
<1>1. TakeNext("SetPinned") /\ stage' \in {"drain", "cycle", "exit"}
  BY DEF RunSetPinned, Take, IInv, TypeOK
<1>2. nextId' = nextId /\ id \in 0..MaxTabs /\ work = NoWork
  BY <1>1, TakeKeeps
<1>3. CASE NoEffect
  BY <1>1, <1>2, <1>3, CommandStep, ListInvUnchanged DEF NoEffect, listVars
<1>4. CASE /\ ~(IndexOfTab(tabs, id) < 0)
           /\ tabs' = Repinned(tabs, pinned, id)
           /\ pinned' = IF flag THEN pinned \cup {id} ELSE pinned \ {id}
           /\ UNCHANGED <<addressed, awake, active, closed, observed, work, doomed>>
           /\ Publish
  <2>1. tabs' = InsertTab(rest, at, id)
    BY <1>4 DEF Repinned
  <2> HIDE DEF id, flag
  <2>2. 0 \in 0..Len(rest)
    BY <1>2, <1>4, ListedTab, EraseKeeps
  <2> HIDE DEF rest
  <2>3. /\ rest \in Seq(Ids) /\ id \in Ids /\ Prefixed(rest, pinned)
        /\ \A i \in 1..Len(rest) : rest[i] # id
    BY <1>2, <1>4, <2>2, PutBackKeeps DEF rest
  <2>4. PICK k \in 0..Len(rest) : \A i \in 1..Len(rest) : rest[i] \in pinned <=> i <= k
    BY <2>3 DEF Prefixed
  <2>5. at = k
    BY <2>3, <2>4, PinnedCountIsBoundary
  <2> HIDE DEF at
  <2>6. \A i \in 1..Len(rest) : rest[i] \in pinned' <=> rest[i] \in pinned
    BY <1>4, <2>3
  <2>7. at \in 0..Len(rest) /\ at <= k /\ at >= k
    BY <2>3, <2>5
  <2>8. Prefixed(InsertTab(rest, at, id), pinned')
    BY <2>3, <2>4, <2>6, <2>7, InsertKeepsPrefix
  <2>9. tabs' \in Seq(Ids) /\ Distinct(tabs') /\ \A i \in 1..Len(tabs') : tabs'[i] < nextId
    BY <1>2, <1>4, <2>1, <2>7, PutBackKeeps DEF rest
  <2>10. pinned' \subseteq Ids /\ Prefixed(tabs', pinned')
    BY <1>4, <2>1, <2>3, <2>8 DEF IInv, TypeOK
  <2> QED BY <1>1, <1>2, <1>4, <2>9, <2>10, ReorderInv, CommandStep
<1> QED BY <1>3, <1>4 DEF RunSetPinned

LEMMA ClosingWork ==
  ASSUME NEW op \in {"record", "destroy"}
  PROVE  /\ [NoWork EXCEPT !.op = op] \in Works
         /\ [NoWork EXCEPT !.op = op].op = op /\ [NoWork EXCEPT !.op = op].id = 0
<1>1. NoWork \in Works /\ NoWork.id = 0
  BY RegistryAssumption DEF RegistryAssumption, NoWork, Works
<1> QED BY <1>1 DEF Works

LEMMA ListedIsATab == IInv => \A i \in 1..Len(tabs) : tabs[i] \in Ids /\ tabs[i] # 0
<1> SUFFICES ASSUME IInv, NEW i \in 1..Len(tabs) PROVE tabs[i] \in Ids /\ tabs[i] # 0
  OBVIOUS
<1>1. tabs[i] \in Ids
  BY DEF IInv, TypeOK
<1> QED BY <1>1 DEF Ids

\* closeAllTabs, as far as its first change to the list.
LEMMA BeginCloseAllInv ==
  ASSUME IInv, BeginCloseAll, work = NoWork, nextId' = nextId
  PROVE  ListInv'
<1>1. ListInv /\ nextId' \in Nat \ {0}
  BY ListInvNow
<1>2. CASE NoEffect
  BY <1>2, ListInvUnchanged DEF NoEffect, listVars
<1>3. CASE /\ active' = 0
           /\ work' = [NoWork EXCEPT !.op = "record"]
           /\ UNCHANGED <<tabs, pinned, addressed, awake, closed, observed, doomed, published>>
  <2>1. work' \in Works /\ work'.op = "record" /\ work'.id = 0
    BY <1>3, ClosingWork
  <2>2. \A i \in 1..Len(tabs') : tabs'[i] # 0
    BY <1>3, ListedIsATab
  <2>3. WorkOK'
    BY <1>1, <2>1, <2>2 DEF WorkOK
  <2>4. PinnedPrefix' /\ UniqueIds'
    BY <1>1, <1>3 DEF ListInv, PinnedPrefix, UniqueIds
  <2>5. active' \in 0..MaxTabs
    BY <1>3, RegistryAssumption DEF RegistryAssumption
  <2> QED BY <1>1, <1>3, <2>1, <2>3, <2>4, <2>5 DEF ListInv, ListType, WorkType
<1> QED BY <1>2, <1>3 DEF BeginCloseAll

LEMMA RunCloseAllStep == IInv /\ (RunCloseAll \/ RunShutdown) => IInv'
<1> SUFFICES ASSUME IInv, RunCloseAll \/ RunShutdown PROVE IInv'
  OBVIOUS
<1>1. PICK kind \in {"CloseAll", "Shutdown"} :
        TakeNext(kind) /\ stage' \in {"drain", "cycle", "exit"} /\ BeginCloseAll
  BY DEF RunCloseAll, RunShutdown, Take, IInv, TypeOK
<1>2. nextId' = nextId /\ work = NoWork
  BY <1>1, TakeKeeps
<1> QED BY <1>1, <1>2, BeginCloseAllInv, CommandStep

LEMMA RecordNextStep == IInv /\ RecordNext => IInv'
<1> SUFFICES ASSUME IInv, RecordNext PROVE IInv'
  OBVIOUS
<1>1. ListInv /\ nextId \in Nat \ {0}
  BY ListInvNow
<1>2. /\ work.op = "record" /\ work.at < Len(tabs) /\ Remember(tabs[work.at + 1], work.at)
      /\ UNCHANGED <<threadVars, stage, doomed, tabs, pinned, addressed, awake, active,
                     observed, published>>
  BY DEF RecordNext
<1>3. work.at \in Nat /\ work \in Works
  BY <1>1 DEF ListInv, WorkType, Works
<1>4. closed' \in Seq(ClosedTabs)
  BY <1>2, <1>3, RememberType DEF IInv
<1>5. work' \in Works /\ work'.op \in {"record", "destroy"} /\ work'.id \in {0, work.id}
  <2>1. CASE work' = [NoWork EXCEPT !.op = "destroy"]
    BY <2>1, ClosingWork
  <2>2. CASE work' = [work EXCEPT !.at = @ + 1]
    <3>1. /\ work'.at = work.at + 1 /\ work'.op = work.op /\ work'.id = work.id
          /\ work' \in Works
      BY <1>3, <2>2 DEF Works
    <3> QED BY <1>2, <3>1
  <2> QED BY <2>1, <2>2 DEF RecordNext
<1>6. WorkOK'
  <2>1. \A i \in 1..Len(tabs) : tabs[i] # 0 /\ tabs[i] # work.id
    BY <1>2, ListedIsATab DEF IInv, WorkOK
  <2>2. nextId' = nextId /\ tabs' = tabs /\ work.id < nextId
    BY <1>1, <1>2 DEF threadVars, ListInv, WorkOK
  <2> QED BY <1>1, <1>5, <2>1, <2>2 DEF WorkOK
<1>7. PinnedPrefix' /\ UniqueIds'
  BY <1>1, <1>2 DEF ListInv, PinnedPrefix, UniqueIds, threadVars
<1>8. ListInv'
  BY <1>1, <1>2, <1>4, <1>5, <1>6, <1>7 DEF ListInv, ListType, WorkType
<1> QED BY <1>2, <1>8, ThreadStep

\* The tab taken out is still pinned, if it was, but it is no longer in the list.
LEMMA DestroyLastStep == IInv /\ DestroyLast => IInv'
<1> SUFFICES ASSUME IInv, DestroyLast PROVE IInv'
  OBVIOUS
<1> DEFINE at == Len(tabs) - 1
           new == EraseTab(tabs, at)
<1>1. ListInv /\ nextId \in Nat \ {0} /\ tabs \in Seq(Ids)
  BY ListInvNow DEF ListInv, ListType
<1>2. /\ work.op = "destroy" /\ tabs # <<>> /\ tabs' = new
      /\ work' = [work EXCEPT !.id = Last(tabs)] /\ observed' = observed \ {Last(tabs)}
      /\ UNCHANGED <<threadVars, stage, doomed, pinned, addressed, awake, active, closed, published>>
  BY DEF DestroyLast
<1>3. at \in 0..(Len(tabs) - 1) /\ Last(tabs) = tabs[at + 1] /\ at + 1 \in 1..Len(tabs)
  BY <1>1, <1>2 DEF Last
<1>4. Last(tabs) \in 0..MaxTabs /\ Last(tabs) < nextId
  BY <1>1, <1>3, RegistryAssumption DEF RegistryAssumption, ListInv, UniqueIds, Ids
<1> HIDE DEF at
<1>5. /\ new \in Seq(Ids) /\ Distinct(new)
      /\ \A i \in 1..Len(new) : new[i] # tabs[at + 1] /\ new[i] < nextId
      /\ Prefixed(new, pinned)
  BY <1>3, EraseKeeps
<1> HIDE DEF new
<1>6. work' \in Works /\ work'.op = "destroy" /\ work'.id = Last(tabs)
  BY <1>1, <1>2, <1>4 DEF ListInv, WorkType, Works
<1>7. nextId' = nextId
  BY <1>2 DEF threadVars
<1>8. WorkOK'
  BY <1>2, <1>3, <1>4, <1>5, <1>6, <1>7 DEF WorkOK
<1>9. PinnedPrefix' /\ UniqueIds'
  BY <1>2, <1>5, <1>7 DEF PinnedPrefix, UniqueIds, Prefixed, Distinct
<1>10. ListInv'
  BY <1>1, <1>2, <1>5, <1>6, <1>8, <1>9 DEF ListInv, ListType, WorkType
<1> QED BY <1>2, <1>10, ThreadStep

LEMMA EndDestroyStep == IInv /\ EndDestroy => IInv'
<1> SUFFICES ASSUME IInv, EndDestroy PROVE IInv'
  OBVIOUS
<1>1. ListInv /\ nextId \in Nat \ {0}
  BY ListInvNow
<1>2. /\ work.op = "destroy" /\ work' = [work EXCEPT !.id = 0]
      /\ pinned' = pinned \ {work.id} /\ addressed' = addressed \ {work.id}
      /\ awake' = awake \ {work.id}
      /\ UNCHANGED <<threadVars, stage, doomed, tabs, active, closed, observed, published>>
  BY DEF EndDestroy, Forgotten
<1>3. nextId' = nextId
  BY <1>2 DEF threadVars
<1>4. \A i \in 1..Len(tabs) : tabs[i] # 0 /\ tabs[i] # work.id
  BY <1>2, ListedIsATab DEF IInv, WorkOK
<1>5. work' \in Works /\ work'.op = "destroy" /\ work'.id = 0
  BY <1>1, <1>2, RegistryAssumption DEF RegistryAssumption, ListInv, WorkType, Works
<1>6. WorkOK'
  BY <1>1, <1>2, <1>3, <1>4, <1>5 DEF WorkOK
<1>7. PinnedPrefix' /\ UniqueIds'
  BY <1>1, <1>2, <1>3, <1>4 DEF ListInv, PinnedPrefix, UniqueIds
<1>8. ListInv'
  BY <1>1, <1>2, <1>5, <1>6, <1>7 DEF ListInv, ListType, WorkType
<1> QED BY <1>2, <1>8, ThreadStep

LEMMA FinishCloseAllStep == IInv /\ FinishCloseAll => IInv'
<1> SUFFICES ASSUME IInv, FinishCloseAll PROVE IInv'
  OBVIOUS
<1>1. ListInv /\ nextId \in Nat \ {0}
  BY ListInvNow
<1>2. /\ active' = 0 /\ work' = NoWork /\ Publish
      /\ UNCHANGED <<threadVars, stage, doomed, tabs, pinned, addressed, awake, closed, observed>>
  BY DEF FinishCloseAll
<1>3. nextId' = nextId
  BY <1>2 DEF threadVars
<1>4. WorkOK' /\ work' \in Works
  BY <1>1, <1>2, <1>3, RestIsOK
<1>5. PinnedPrefix' /\ UniqueIds'
  BY <1>1, <1>2, <1>3 DEF ListInv, PinnedPrefix, UniqueIds
<1>6. active' \in 0..MaxTabs /\ tabs' \in Seq(Ids) /\ pinned' \subseteq Ids /\ closed' \in Seq(ClosedTabs)
  BY <1>1, <1>2, RegistryAssumption DEF RegistryAssumption, ListInv, ListType
<1>7. ListInv'
  BY <1>1, <1>2, <1>4, <1>5, <1>6, PublishType DEF ListInv, ListType, WorkType
<1> QED BY <1>2, <1>7, ThreadStep

LEMMA ThreadEndsStep == IInv /\ ThreadEnds => IInv'
<1> SUFFICES ASSUME IInv, ThreadEnds PROVE IInv'
  OBVIOUS
<1>1. /\ engine' = "off" /\ queue' = <<>>
      /\ UNCHANGED <<firstQueued, nextId, stage, work, doomed, listVars, published>>
  BY DEF ThreadEnds
<1>2. ListInv'
  BY <1>1, ListInvUnchanged DEF listVars
<1>3. queue' \in Seq(Commands) /\ QueueReserved'
  BY <1>1 DEF QueueReserved
<1> QED BY <1>1, <1>2, <1>3 DEF IInv, TypeOK, ListInv, ListType, WorkType

LEMMA StageStep == IInv /\ (EndDrain \/ EndCycle) => IInv'
<1> SUFFICES ASSUME IInv, EndDrain \/ EndCycle PROVE IInv'
  OBVIOUS
<1>1. stage' \in {"drain", "cycle", "exit"} /\ UNCHANGED <<threadVars, work, doomed, listVars, published>>
  BY DEF EndDrain, EndCycle
<1>2. UNCHANGED <<engine, firstQueued, nextId, queue>> /\ UNCHANGED listVars
  BY <1>1 DEF threadVars
<1>3. ListInv'
  BY <1>1, <1>2, ListInvUnchanged DEF listVars
<1>4. QueueReserved'
  BY <1>2 DEF IInv, QueueReserved, Reserved
<1> QED BY <1>1, <1>2, <1>3, <1>4 DEF IInv, TypeOK, ListInv, ListType, WorkType

-----------------------------------------------------------------------------
(* The pages.                                                              *)

\* A page may open another while a tab is being destroyed: the new one goes in
\* at the end, so the position a close is holding on to is still right.
LEMMA PageOpensStep == IInv /\ PageOpens => IInv'
<1> SUFFICES ASSUME IInv, PageOpens PROVE IInv'
  OBVIOUS
<1>1. /\ Reserve /\ CreateTab(nextId, -1, FALSE, TRUE, FALSE) /\ Publish
      /\ UNCHANGED <<engine, firstQueued, queue, stage, work, doomed, closed>>
  BY DEF PageOpens
<1>2. ListInv /\ nextId \in Nat \ {0}
  BY ListInvNow
<1>3. nextId \in Ids /\ nextId' = nextId + 1 /\ nextId' \in 1..(MaxTabs + 1)
  BY <1>1, <1>2, RegistryAssumption DEF RegistryAssumption, Reserve, Ids
<1>4. nextId' \in Nat \ {0} /\ nextId' >= nextId /\ nextId < nextId'
  BY <1>2, <1>3
<1>5. /\ tabs' \in Seq(Ids) /\ pinned' \subseteq Ids /\ addressed' \subseteq Ids
      /\ observed' \subseteq Ids /\ awake' \subseteq Ids /\ active' \in 0..MaxTabs
      /\ PinnedPrefix' /\ UniqueIds'
      /\ Len(tabs') = Len(tabs) + 1 /\ tabs'[Len(tabs) + 1] = nextId
      /\ \A i \in 1..Len(tabs) : tabs'[i] = tabs[i]
  <2> DEFINE id == nextId
             index == -1
             no == FALSE
             yes == TRUE
  <2>1. id \in Ids /\ index \in Int /\ index = -1 /\ no \in BOOLEAN /\ yes \in BOOLEAN /\ ~no
        /\ nextId' \in Nat /\ nextId' >= nextId /\ id < nextId'
    BY <1>3, <1>4
  <2>2. CreateTab(id, index, no, yes, no)
    BY <1>1, Zenon
  <2> HIDE DEF id, index, no, yes
  <2>3. /\ tabs' \in Seq(Ids) /\ pinned' \subseteq Ids /\ addressed' \subseteq Ids
        /\ observed' \subseteq Ids /\ awake' \subseteq Ids /\ active' \in 0..MaxTabs
        /\ PinnedPrefix' /\ UniqueIds'
        /\ Len(tabs') = Len(tabs) + 1 /\ tabs'[Len(tabs) + 1] = id
        /\ \A i \in 1..Len(tabs) : tabs'[i] = tabs[i]
    BY <2>1, <2>2, CreateTabKeeps
  <2> QED BY <2>3 DEF id
<1>6. WorkOK'
  <2>1. /\ work' = work /\ work.id \in Nat /\ work.at \in Nat /\ Len(tabs) \in Nat
        /\ work.id < nextId
    BY <1>1, <1>2 DEF ListInv, ListType, WorkType, WorkOK, Works
  <2>2. work.op = "close" => work.at < Len(tabs') /\ tabs'[work.at + 1] = work.id
    BY <1>5, <2>1 DEF IInv, WorkOK
  <2>3. work.op \in {"record", "destroy"} => \A i \in 1..Len(tabs') : tabs'[i] # work.id
    <3> SUFFICES ASSUME work.op \in {"record", "destroy"}, NEW i \in 1..Len(tabs')
                 PROVE  tabs'[i] # work.id
      OBVIOUS
    <3>1. CASE i \in 1..Len(tabs)
      BY <1>5, <3>1 DEF IInv, WorkOK
    <3>2. CASE i = Len(tabs) + 1
      BY <1>2, <1>5, <2>1, <3>2
    <3> QED BY <1>5, <2>1, <3>1, <3>2
  <2> QED BY <1>2, <1>4, <2>1, <2>2, <2>3 DEF IInv, WorkOK
<1>7. ListInv'
  <2>1. closed' \in Seq(ClosedTabs) /\ work' \in Works /\ doomed' \in Seq(Ids)
    BY <1>1, <1>2 DEF ListInv, ListType, WorkType
  <2> QED BY <1>1, <1>5, <1>6, <2>1, PublishType DEF ListInv, ListType, WorkType
<1>8. QueueReserved'
  <2>1. queue' = queue /\ \A i \in 1..Len(queue) : queue[i].id \in Nat
    <3>1. \A i \in 1..Len(queue) : queue[i] \in Commands
      BY DEF IInv, TypeOK
    <3> QED BY <1>1, <3>1 DEF Commands
  <2>2. \A i \in 1..Len(queue) : queue[i].id < nextId'
    BY <1>2, <1>3, <2>1 DEF IInv, QueueReserved, Reserved
  <2> QED BY <2>1, <2>2 DEF IInv, QueueReserved, Reserved
<1> QED BY <1>1, <1>3, <1>7, <1>8 DEF IInv, TypeOK, ListInv, ListType, WorkType

LEMMA PageAsksCloseStep == ASSUME IInv, NEW id \in Ids, PageAsksClose(id) PROVE IInv'
<1>1. /\ id \in Range(tabs) /\ Post(Command("Close", id, 0, FALSE))
      /\ UNCHANGED <<engine, firstQueued, nextId, stage, work, doomed, listVars, published>>
  BY DEF PageAsksClose
<1>2. id < nextId
  BY <1>1 DEF Range, IInv, TypeOK, UniqueIds
<1>3. /\ nextId' \in 1..(MaxTabs + 1) /\ nextId' >= nextId
      /\ engine' \in {"new", "on", "stopping", "off"} /\ firstQueued' \in BOOLEAN
      /\ stage' \in {"drain", "cycle", "exit"}
  BY <1>1, RegistryAssumption DEF RegistryAssumption, IInv, TypeOK
<1>4. /\ Command("Close", id, 0, FALSE) \in Commands
      /\ Command("Close", id, 0, FALSE).id = id
      /\ Command("Close", id, 0, FALSE).kind \notin Creates
  BY RegistryAssumption DEF RegistryAssumption, Command, Commands, Ids, Creates
<1>5. queue' = Append(queue, Command("Close", id, 0, FALSE)) \/ queue' = queue
  BY <1>1 DEF Post
<1> QED BY <1>1, <1>2, <1>3, <1>4, <1>5, PostStep

LEMMA PageCommitsStep == ASSUME IInv, NEW id \in Ids, PageCommits(id) PROVE IInv'
<1>1. /\ addressed' = addressed \cup {id} /\ Publish
      /\ UNCHANGED <<threadVars, stage, work, doomed, tabs, pinned, awake, active, closed, observed>>
  BY DEF PageCommits
<1>2. nextId' = nextId /\ ListInv /\ nextId \in Nat \ {0}
  BY <1>1, ListInvNow DEF threadVars
<1>3. PinnedPrefix' /\ UniqueIds' /\ WorkOK'
  BY <1>1, <1>2, ListUnchanged
<1>4. /\ tabs' \in Seq(Ids) /\ pinned' \subseteq Ids /\ active' \in 0..MaxTabs
      /\ closed' \in Seq(ClosedTabs)
  BY <1>1, <1>2 DEF ListInv, ListType
<1>5. ListInv'
  BY <1>1, <1>2, <1>3, <1>4, PublishType DEF ListInv, ListType, WorkType
<1> QED BY <1>1, <1>5, ThreadStep

-----------------------------------------------------------------------------

\* The invariant is inductive.
LEMMA NextInv == IInv /\ [Next]_vars => IInv'
<1> SUFFICES ASSUME IInv, [Next]_vars PROVE IInv'
  OBVIOUS
<1>1. CASE UNCHANGED vars
  <2>1. UNCHANGED <<threadVars, stage>> /\ nextId' = nextId
        /\ UNCHANGED <<work, doomed, tabs, pinned, addressed, awake, active, closed, observed, published>>
    BY <1>1 DEF vars, listVars, threadVars
  <2> QED BY <2>1, ListInvUnchanged, ThreadStep
<1>2. CASE Frame
  BY <1>2, FrameStep
<1>3. CASE RunCommand
  BY <1>3, RunOpenStep, RunReopenClosedStep, RunCloseStep, RunCloseOthersStep,
     RunCloseAllStep, RunSelectStep, RunMoveStep, RunSetPinnedStep DEF RunCommand
<1>4. CASE WebKitStep
  BY <1>3, <1>4, FinishCloseStep, CloseDoomedStep, RecordNextStep, DestroyLastStep,
     EndDestroyStep, FinishCloseAllStep, ThreadEndsStep, StageStep DEF WebKitStep
<1>5. CASE Page
  BY <1>5, PageOpensStep, PageAsksCloseStep, PageCommitsStep DEF Page
<1> QED BY <1>1, <1>2, <1>4, <1>5 DEF Next

LEMMA AlwaysIInv == Spec => []IInv
BY InitInv, NextInv, PTL DEF Spec

\* The registry's state always has its type: no id out of range, no command
\* with a missing field, no entry of the closed stack with a negative position.
THEOREM TypeCorrect == Spec => []TypeOK
BY AlwaysIInv, PTL DEF IInv

\* Pinned tabs are a prefix of the list, however many tabs and calls there are
\* and whatever pages do while another is being destroyed (model.cpp:9).
THEOREM PinnedTabsArePrefix == Spec => []PinnedPrefix
BY AlwaysIInv, PTL DEF IInv

\* No tab is in the list twice, and the ids still to be reserved are unused.
THEOREM IdsAreUnique == Spec => []UniqueIds
BY AlwaysIInv, PTL DEF IInv

\* The three together, which the runs check.
THEOREM TabsAreConsistent == Spec => []TabsConsistent
BY TypeCorrect, PinnedTabsArePrefix, IdsAreUnique, PTL DEF TabsConsistent

-----------------------------------------------------------------------------
(* What everybody outside knows of the list.  A close publishes nothing until *)
(* it is over, so what it leaves selected has to follow from how it began: a  *)
(* tab that was not selected then is not selected now, whatever the pages     *)
(* opened and selected meanwhile.  And no page is left behind by the thread   *)
(* because the list is empty whenever nothing is being closed past its loop.  *)

SelectionOK ==
  work.op = "close" =>
    active \in Range(tabs) /\ (~work.wasActive => active # work.id)

AwakeOK ==
  /\ awake \subseteq Range(tabs) \cup {work.id}
  /\ work.op = "record" => work.id = 0

ExitOK ==
  stage = "exit" => /\ work.op # "close" /\ doomed = <<>>
                    /\ work = NoWork => tabs = <<>>

FInv == PublishedIsCurrent /\ ObserversFollow /\ SelectionOK /\ AwakeOK /\ ExitOK

LEMMA RestFields == NoWork.op = "none" /\ NoWork.id = 0
BY DEF NoWork

LEMMA InitFollowed == Init => FInv
<1> SUFFICES ASSUME Init PROVE FInv
  OBVIOUS
<1>1. /\ engine = "new" /\ stage = "drain" /\ work = NoWork /\ tabs = <<>> /\ pinned = {}
      /\ awake = {} /\ active = 0 /\ closed = <<>> /\ observed = {} /\ work.op = "none"
  BY RestFields DEF Init
<1>2. /\ published.tabs = tabs /\ published.pinned = pinned /\ published.active = active
      /\ published.closed = 0
  BY DEF Init
<1>3. Len(closed) = 0 /\ Range(tabs) = {}
  BY <1>1, EmptyRange
<1>4. PublishedIsCurrent
  BY <1>1, <1>2, <1>3 DEF PublishedIsCurrent
<1> QED BY <1>1, <1>3, <1>4 DEF FInv, ObserversFollow, SelectionOK, AwakeOK, ExitOK

\* A step that leaves the list, the close under way and the copy as they are.
LEMMA QuietStep ==
  ASSUME FInv, UNCHANGED <<work, doomed, listVars, published>>,
         engine' \in {"new", "off"} => tabs = <<>> /\ awake = {},
         stage' = "exit" => stage = "exit"
  PROVE  FInv'
<1>1. UNCHANGED <<work, doomed, tabs, pinned, addressed, awake, active, closed, observed, published>>
  BY DEF listVars
<1>2. PublishedIsCurrent'
  BY <1>1 DEF FInv, PublishedIsCurrent
<1>3. ObserversFollow'
  BY <1>1 DEF FInv, ObserversFollow
<1>4. SelectionOK' /\ AwakeOK' /\ ExitOK'
  BY <1>1 DEF FInv, SelectionOK, AwakeOK, ExitOK
<1> QED BY <1>2, <1>3, <1>4 DEF FInv

\* A step after which nothing is being closed and that publishes the list.
LEMMA PublishingStep ==
  ASSUME Publish, work' = NoWork, closed' \in Seq(ClosedTabs), awake' \subseteq Ids,
         engine' \notin {"new", "off"},
         stage' = "exit" => doomed' = <<>> /\ tabs' = <<>>,
         IF tabs' = <<>> THEN active' = 0 ELSE active' \in Range(tabs'),
         observed' = Range(tabs'), awake' \subseteq Range(tabs') \cup {0}
  PROVE  FInv'
<1>1. work'.op = "none" /\ work'.id = 0
  BY RestFields
<1>2. /\ published'.tabs = tabs' /\ published'.pinned = pinned' /\ published'.active = active'
      /\ published'.closed = Len(closed')
  BY DEF Publish
<1>3. Len(closed') \in Nat
  OBVIOUS
<1>4. PublishedIsCurrent'
  BY <1>2, <1>3 DEF PublishedIsCurrent
<1>5. ObserversFollow'
  BY <1>1 DEF ObserversFollow
<1>6. SelectionOK' /\ AwakeOK' /\ ExitOK'
  BY <1>1 DEF SelectionOK, AwakeOK, ExitOK
<1> QED BY <1>4, <1>5, <1>6 DEF FInv

-----------------------------------------------------------------------------
(* What the handlers have in common.                                       *)

LEMMA ListedIds == IInv => \A x \in Range(tabs) : x \in Ids /\ x < nextId /\ x # 0
<1> SUFFICES ASSUME IInv, NEW x \in Range(tabs) PROVE x \in Ids /\ x < nextId /\ x # 0
  OBVIOUS
<1>1. PICK i \in 1..Len(tabs) : tabs[i] = x
  BY Listed DEF IInv, TypeOK
<1> QED BY <1>1, ListedIsATab DEF IInv, UniqueIds

\* The tabs that stay when the one at a position is taken out.
LEMMA EraseFollows ==
  ASSUME IInv, NEW at \in 0..(Len(tabs) - 1)
  PROVE  /\ Range(EraseTab(tabs, at)) = Range(tabs) \ {tabs[at + 1]}
         /\ tabs[at + 1] \in Range(tabs)
<1>1. tabs \in Seq(Ids) /\ Distinct(tabs)
  BY DEF IInv, TypeOK, UniqueIds, Distinct
<1>2. at + 1 \in 1..Len(tabs)
  BY <1>1
<1> QED BY <1>1, <1>2, EraseRange, Listed

\* createTab
LEMMA CreateFollows ==
  ASSUME IInv, NEW id \in Ids, NEW index \in Int, NEW isPinned \in BOOLEAN,
         NEW foreground \in BOOLEAN, NEW hasAddress \in BOOLEAN,
         CreateTab(id, index, isPinned, foreground, hasAddress)
  PROVE  /\ Range(tabs') = Range(tabs) \cup {id} /\ id \notin Range(tabs)
         /\ tabs' # <<>>
         /\ observed' = observed \cup {id}
         /\ awake' \subseteq awake \cup {id}
         /\ active' \in {active, id}
         /\ active = 0 => active' = id
<1> DEFINE at == ClampInsertIndex(tabs, pinned, index, isPinned)
<1>1. tabs \in Seq(Ids) /\ Prefixed(tabs, pinned)
  BY DEF IInv, TypeOK, PinnedPrefix, Prefixed
<1>2. \A i \in 1..Len(tabs) : tabs[i] # id
  BY <1>1 DEF CreateTab, IndexOfTab
<1>3. at \in 0..Len(tabs)
  <2>1. PICK k \in 0..Len(tabs) : \A i \in 1..Len(tabs) : tabs[i] \in pinned <=> i <= k
    BY <1>1 DEF Prefixed
  <2> QED BY <1>1, <2>1, ClampInsertIndexInGroup
<1>4. tabs' = InsertTab(tabs, at, id)
  BY DEF CreateTab, Placed
<1> HIDE DEF at
<1>5. Range(tabs') = Range(tabs) \cup {id}
  BY <1>1, <1>3, <1>4, InsertRange
<1>6. id \notin Range(tabs)
  BY <1>1, <1>2, Listed
<1>7. tabs' # <<>>
  BY <1>5, EmptyRange
<1>8. /\ observed' = observed \cup {id}
      /\ awake' \subseteq awake \cup {id} /\ active' \in {active, id} /\ (active = 0 => active' = id)
  BY DEF CreateTab, SelectedFrom
<1> QED BY <1>5, <1>6, <1>7, <1>8

\* What holds between two closes, as the handlers use it.
LEMMA AtRestNow ==
  ASSUME IInv, FInv, work = NoWork
  PROVE  /\ published.tabs = tabs /\ published.pinned = pinned /\ published.active = active
         /\ published.closed >= Len(closed)
         /\ IF tabs = <<>> THEN active = 0 ELSE active \in Range(tabs)
         /\ observed = Range(tabs) /\ awake \subseteq Range(tabs)
<1>1. work.op = "none" /\ work.id = 0 /\ awake \subseteq Ids /\ 0 \notin Ids
  BY RestFields DEF IInv, TypeOK, Ids
<1> QED BY <1>1 DEF FInv, PublishedIsCurrent, ObserversFollow, AwakeOK

\* selectTab
LEMMA SelectFollows ==
  ASSUME IInv, FInv, NEW id \in Range(tabs), SelectTab(id), work = NoWork, work' = work,
         engine' \notin {"new", "off"}, stage' # "exit"
  PROVE  FInv'
<1>1. /\ published.tabs = tabs /\ published.pinned = pinned /\ published.active = active
      /\ published.closed >= Len(closed)
      /\ observed = Range(tabs) /\ awake \subseteq Range(tabs)
  BY AtRestNow
<1>2. /\ active' = id /\ awake' \subseteq awake \cup {id}
      /\ UNCHANGED <<tabs, pinned, addressed, closed, observed>>
      /\ IF id = active THEN UNCHANGED published ELSE Publish
  BY DEF SelectTab, SelectedFrom
<1>3. tabs # <<>>
  BY EmptyRange
<1>4. id \in Ids /\ closed' \in Seq(ClosedTabs) /\ awake' \subseteq Ids
  BY <1>2, ListedIds DEF IInv, TypeOK
<1>5. CASE Publish
  BY <1>1, <1>2, <1>3, <1>4, <1>5, PublishingStep
<1>6. CASE id = active /\ UNCHANGED published
  <2>1. work'.op = "none" /\ work'.id = 0
    BY RestFields
  <2>2. PublishedIsCurrent'
    BY <1>1, <1>2, <1>3, <1>6 DEF PublishedIsCurrent
  <2>3. ObserversFollow'
    BY <1>1, <1>2, <2>1 DEF ObserversFollow
  <2>4. SelectionOK' /\ AwakeOK' /\ ExitOK'
    BY <1>1, <1>2, <2>1 DEF SelectionOK, AwakeOK, ExitOK
  <2> QED BY <2>2, <2>3, <2>4 DEF FInv
<1> QED BY <1>2, <1>5, <1>6

\* closeTab up to the destruction of the page: a tab that can be closed means that
\* one is selected.
LEMMA BeginCloseFollows ==
  ASSUME IInv, FInv, NEW id \in 0..MaxTabs, BeginClose(id), work = NoWork,
         engine' \notin {"new", "off"}, stage' # "exit"
  PROVE  FInv'
<1>1. /\ published.tabs = tabs /\ published.pinned = pinned /\ published.active = active
      /\ published.closed >= Len(closed)
      /\ IF tabs = <<>> THEN active = 0 ELSE active \in Range(tabs)
      /\ observed = Range(tabs) /\ awake \subseteq Range(tabs)
  BY AtRestNow
<1> DEFINE at == IndexOfTab(tabs, id)
<1>2. CASE at < 0
  <2>1. UNCHANGED <<work, listVars, published>>
    BY <1>2 DEF BeginClose
  <2>2. UNCHANGED <<tabs, pinned, awake, active, closed, observed>>
    BY <2>1 DEF listVars
  <2>3. work'.op = "none" /\ work'.id = 0
    BY <2>1, RestFields
  <2>4. PublishedIsCurrent'
    BY <1>1, <2>1, <2>2 DEF PublishedIsCurrent
  <2>5. ObserversFollow'
    BY <1>1, <2>2, <2>3 DEF ObserversFollow
  <2>6. SelectionOK' /\ AwakeOK' /\ ExitOK'
    BY <1>1, <2>2, <2>3 DEF SelectionOK, AwakeOK, ExitOK
  <2> QED BY <2>4, <2>5, <2>6 DEF FInv
<1>3. CASE ~(at < 0)
  <2>1. /\ work' = [op |-> "close", id |-> id, at |-> at, wasActive |-> active = id]
        /\ observed' = observed \ {id}
        /\ UNCHANGED <<tabs, pinned, addressed, awake, active, published>>
    BY <1>3 DEF BeginClose
  <2>2. id \in Range(tabs)
    <3>1. /\ at \in 0..(Len(tabs) - 1) /\ tabs[at + 1] = id
      BY <1>3, ListedTab
    <3> QED BY <3>1, EraseFollows
  <2> HIDE DEF at
  <2>3. /\ work'.op = "close" /\ work'.id = id /\ work' # NoWork
        /\ work'.wasActive = (active = id)
    BY <2>1, RestFields
  <2>4. active \in Range(tabs)
    BY <1>1, <2>2, EmptyRange
  <2>5. PublishedIsCurrent'
    BY <2>3 DEF PublishedIsCurrent
  <2>6. ObserversFollow'
    BY <1>1, <2>1, <2>3 DEF ObserversFollow
  <2>7. SelectionOK' /\ AwakeOK' /\ ExitOK'
    BY <1>1, <2>1, <2>3, <2>4 DEF SelectionOK, AwakeOK, ExitOK
  <2> QED BY <2>5, <2>6, <2>7 DEF FInv
<1> QED BY <1>2, <1>3

\* A handler runs while the thread is in its loop.
LEMMA TakeFollows ==
  ASSUME IInv, FInv, NEW kind, TakeNext(kind)
  PROVE  /\ engine' \notin {"new", "off"} /\ stage = "drain"
         /\ work = NoWork /\ doomed = <<>>
         /\ Head(queue).id \in 0..MaxTabs /\ Head(queue).index \in Int
         /\ Head(queue).flag \in BOOLEAN
         /\ kind \in Creates => Head(queue).id \in Ids
BY TakeKeeps DEF TakeNext, Running

-----------------------------------------------------------------------------
(* The steps.                                                              *)

LEMMA FrameFollows == IInv /\ FInv /\ Frame => FInv'
<1> SUFFICES ASSUME IInv, FInv, Frame PROVE FInv'
  OBVIOUS
<1>1. engine \in {"new", "off"} => tabs = <<>> /\ awake = {}
  BY DEF FInv, ObserversFollow
<1>2. CASE HbStart
  <2>1. /\ engine' = "on" /\ (stage' = stage \/ stage' = "drain")
        /\ UNCHANGED <<work, doomed, listVars, published>>
    BY <1>2 DEF HbStart
  <2> QED BY <2>1, QuietStep
<1>3. CASE HbShutdown
  BY <1>3, QuietStep DEF HbShutdown
<1>4. CASE HbReopenClosed
  BY <1>1, <1>4, QuietStep DEF HbReopenClosed
<1>5. CASE \E index \in Indices \cup {-1}, foreground \in BOOLEAN : HbOpen(index, foreground)
  BY <1>1, <1>5, QuietStep DEF HbOpen
<1>6. ASSUME NEW kind, NEW id, NEW index, NEW flag, HbTab(kind, id, index, flag) PROVE FInv'
  BY <1>1, <1>6, QuietStep DEF HbTab
<1> QED BY <1>2, <1>3, <1>4, <1>5, <1>6, Zenon DEF Frame

\* openTab and reopenClosedTab, and any other tab created while nothing is closing.
LEMMA CreatedAtRest ==
  ASSUME IInv, FInv, NEW id \in Ids, NEW index \in Int, NEW isPinned \in BOOLEAN,
         NEW foreground \in BOOLEAN, NEW hasAddress \in BOOLEAN,
         CreateTab(id, index, isPinned, foreground, hasAddress), Publish,
         work = NoWork, work' = work, closed' \in Seq(ClosedTabs),
         engine' \notin {"new", "off"}, stage' # "exit"
  PROVE  FInv'
<1>1. /\ Range(tabs') = Range(tabs) \cup {id} /\ tabs' # <<>>
      /\ observed' = observed \cup {id} /\ awake' \subseteq awake \cup {id}
      /\ active' \in {active, id} /\ (active = 0 => active' = id)
  BY CreateFollows
<1>2. /\ IF tabs = <<>> THEN active = 0 ELSE active \in Range(tabs)
      /\ observed = Range(tabs) /\ awake \subseteq Range(tabs)
  BY AtRestNow
<1>3. awake' \subseteq Ids
  BY <1>1, <1>2, ListedIds
<1> QED BY <1>1, <1>2, <1>3, PublishingStep

LEMMA RunOpenFollows == IInv /\ FInv /\ RunOpen => FInv'
<1> SUFFICES ASSUME IInv, FInv, RunOpen PROVE FInv'
  OBVIOUS
<1> DEFINE id == Head(queue).id
           index == Head(queue).index
           flag == Head(queue).flag
           no == FALSE
           yes == TRUE
<1>1. TakeNext("Open") /\ stage' = stage
  BY DEF RunOpen, Take
<1>2. /\ engine' \notin {"new", "off"} /\ stage' # "exit" /\ work = NoWork
      /\ id \in Ids /\ index \in Int /\ flag \in BOOLEAN /\ no \in BOOLEAN /\ yes \in BOOLEAN
  BY <1>1, TakeFollows DEF Creates
<1>3. CASE NoEffect
  BY <1>2, <1>3, QuietStep DEF NoEffect
<1>4. CASE CreateTab(id, index, no, flag, yes) /\ Publish /\ UNCHANGED <<closed, work>>
  <2>1. closed' \in Seq(ClosedTabs)
    BY <1>4 DEF IInv, TypeOK
  <2> HIDE DEF id, index, flag, no, yes
  <2> QED BY <1>2, <1>4, <2>1, CreatedAtRest
<1> QED BY <1>3, <1>4 DEF RunOpen

LEMMA RunReopenClosedFollows == IInv /\ FInv /\ RunReopenClosed => FInv'
<1> SUFFICES ASSUME IInv, FInv, RunReopenClosed PROVE FInv'
  OBVIOUS
<1> DEFINE entry == Last(closed)
           id == Head(queue).id
           index == entry.index
           flag == entry.pinned
           yes == TRUE
<1>1. TakeNext("ReopenClosed") /\ stage' = stage /\ UNCHANGED <<work, doomed>>
  BY DEF RunReopenClosed, Take
<1>2. /\ engine' \notin {"new", "off"} /\ stage' # "exit" /\ work = NoWork
      /\ id \in Ids /\ yes \in BOOLEAN
  BY <1>1, TakeFollows DEF Creates
<1>3. CASE closed = <<>>
  BY <1>1, <1>2, <1>3, QuietStep DEF RunReopenClosed
<1>4. CASE closed # <<>>
  <2>1. closed \in Seq(ClosedTabs) /\ Len(closed) \in 1..Len(closed) /\ entry = closed[Len(closed)]
    BY <1>4 DEF IInv, TypeOK, Last
  <2>2. /\ closed' \in Seq(ClosedTabs) /\ Len(closed') = Len(closed) - 1
    <3>1. closed' = SubSeq(closed, 1, Len(closed) - 1)
      BY <1>4 DEF RunReopenClosed, Front
    <3>2. Len(closed) - 1 \in 0..Len(closed)
      BY <2>1
    <3>3. closed' \in Seq(ClosedTabs)
      BY <2>1, <3>1, <3>2, SubSeqProperties
    <3>4. Len(SubSeq(closed, 1, Len(closed) - 1)) = Len(closed) - 1
      <4> DEFINE n == Len(closed) - 1
      <4>1. n \in Int /\ 1 \in Int /\ \A i \in 1..n : closed[i] \in ClosedTabs
        BY <2>1
      <4>2. Len(SubSeq(closed, 1, n)) = IF 1 <= n THEN n - 1 + 1 ELSE 0
        <5> HIDE DEF n
        <5> QED BY <4>1, SubSeqProperties
      <4>3. n \in Nat
        BY <2>1
      <4> HIDE DEF n
      <4>4. Len(SubSeq(closed, 1, n)) = n
        BY <4>2, <4>3
      <4> QED BY <4>4 DEF n
    <3> QED BY <3>1, <3>3, <3>4
  <2>3. CASE UNCHANGED <<tabs, pinned, addressed, awake, active, observed, published>>
    <3>1. /\ published.tabs = tabs /\ published.pinned = pinned /\ published.active = active
          /\ published.closed >= Len(closed) /\ published.closed \in Nat
          /\ IF tabs = <<>> THEN active = 0 ELSE active \in Range(tabs)
          /\ observed = Range(tabs) /\ awake \subseteq Range(tabs)
      BY <1>2, AtRestNow DEF IInv, TypeOK
    <3>2. work'.op = "none" /\ work'.id = 0
      BY <1>1, <1>2, RestFields
    <3>3. published.closed >= Len(closed')
      BY <2>1, <2>2, <3>1
    <3>4. PublishedIsCurrent'
      BY <2>3, <3>1, <3>3 DEF PublishedIsCurrent
    <3>5. ObserversFollow'
      BY <1>2, <2>3, <3>1, <3>2 DEF ObserversFollow
    <3>6. SelectionOK' /\ AwakeOK' /\ ExitOK'
      BY <1>2, <2>3, <3>1, <3>2 DEF SelectionOK, AwakeOK, ExitOK
    <3> QED BY <3>4, <3>5, <3>6 DEF FInv
  <2>4. CASE CreateTab(id, index, flag, yes, yes) /\ Publish
    <3>1. index \in Int /\ flag \in BOOLEAN
      <4>1. entry \in ClosedTabs
        BY <2>1
      <4> HIDE DEF entry
      <4> QED BY <4>1 DEF ClosedTabs
    <3> HIDE DEF id, index, flag, yes
    <3> QED BY <1>1, <1>2, <2>2, <2>4, <3>1, CreatedAtRest
  <2> QED BY <1>4, <2>3, <2>4 DEF RunReopenClosed
<1> QED BY <1>3, <1>4

LEMMA RunCloseFollows == IInv /\ FInv /\ RunClose => FInv'
<1> SUFFICES ASSUME IInv, FInv, RunClose PROVE FInv'
  OBVIOUS
<1>1. TakeNext("Close") /\ stage' = stage /\ BeginClose(Head(queue).id)
  BY DEF RunClose, Take
<1>2. /\ engine' \notin {"new", "off"} /\ stage' # "exit" /\ work = NoWork
      /\ Head(queue).id \in 0..MaxTabs
  BY <1>1, TakeFollows
<1> QED BY <1>1, <1>2, BeginCloseFollows

LEMMA CloseDoomedFollows == IInv /\ FInv /\ CloseDoomed => FInv'
<1> SUFFICES ASSUME IInv, FInv, CloseDoomed PROVE FInv'
  OBVIOUS
<1>1. /\ BeginClose(Head(doomed)) /\ work = NoWork /\ doomed # <<>>
      /\ UNCHANGED <<threadVars, stage>> /\ engine \in {"on", "stopping"}
      /\ doomed \in Seq(Ids)
  BY DEF CloseDoomed, Running, IInv, TypeOK
<1>2. engine' \notin {"new", "off"} /\ stage' # "exit"
  BY <1>1 DEF FInv, ExitOK, threadVars
<1>3. Head(doomed) \in 0..MaxTabs
  <2>1. Head(doomed) \in Ids
    BY <1>1
  <2> QED BY <2>1, RegistryAssumption DEF RegistryAssumption, Ids
<1> QED BY <1>1, <1>2, <1>3, BeginCloseFollows

LEMMA RunCloseOthersFollows == IInv /\ FInv /\ RunCloseOthers => FInv'
<1> SUFFICES ASSUME IInv, FInv, RunCloseOthers PROVE FInv'
  OBVIOUS
<1> DEFINE id == Head(queue).id
<1>1. TakeNext("CloseOthers") /\ stage' = stage
  BY DEF RunCloseOthers, Take
<1>2. /\ engine' \notin {"new", "off"} /\ stage' # "exit" /\ work = NoWork
      /\ id \in 0..MaxTabs
  BY <1>1, TakeFollows
<1>3. CASE NoEffect
  BY <1>2, <1>3, QuietStep DEF NoEffect
<1>4. CASE ~(IndexOfTab(tabs, id) < 0) /\ SelectTab(id) /\ work' = work
  <2> HIDE DEF id
  <2>1. IndexOfTab(tabs, id) \in 0..(Len(tabs) - 1) /\ tabs[IndexOfTab(tabs, id) + 1] = id
    BY <1>2, <1>4, ListedTab
  <2>2. id \in Range(tabs)
    BY <2>1, EraseFollows
  <2> QED BY <1>2, <1>4, <2>2, SelectFollows
<1> QED BY <1>3, <1>4 DEF RunCloseOthers

LEMMA RunSelectFollows == IInv /\ FInv /\ RunSelect => FInv'
<1> SUFFICES ASSUME IInv, FInv, RunSelect PROVE FInv'
  OBVIOUS
<1> DEFINE id == Target(Head(queue))
<1>1. PICK kind \in {"Select", "SelectIndex", "SelectNext", "SelectPrevious"} : Take(kind)
  BY DEF RunSelect
<1>2. TakeNext(kind) /\ stage' = stage
  BY <1>1 DEF Take
<1>3. engine' \notin {"new", "off"} /\ stage' # "exit" /\ work = NoWork
  BY <1>2, TakeFollows
<1>4. CASE IndexOfTab(tabs, id) < 0
  BY <1>3, <1>4, QuietStep DEF RunSelect
<1>5. CASE ~(IndexOfTab(tabs, id) < 0)
  <2>1. SelectTab(id) /\ work' = work
    BY <1>5 DEF RunSelect
  <2> HIDE DEF id
  <2>2. id \in Range(tabs)
    <3>1. \E i \in 1..Len(tabs) : tabs[i] = id
      BY <1>5 DEF IndexOfTab
    <3> QED BY <3>1, Listed DEF IInv, TypeOK
  <2> QED BY <1>3, <2>1, <2>2, SelectFollows
<1> QED BY <1>4, <1>5

\* moveTab and setTabPinned take a tab out and put it back.
LEMMA PutBackFollows ==
  ASSUME IInv, FInv, NEW id \in 0..MaxTabs, ~(IndexOfTab(tabs, id) < 0),
         NEW rest, rest = EraseTab(tabs, IndexOfTab(tabs, id)), NEW at \in 0..Len(rest),
         tabs' = InsertTab(rest, at, id), Publish,
         UNCHANGED <<addressed, awake, active, closed, observed, work>>,
         work = NoWork, engine' \notin {"new", "off"}, stage' # "exit"
  PROVE  FInv'
<1>1. /\ IF tabs = <<>> THEN active = 0 ELSE active \in Range(tabs)
      /\ observed = Range(tabs) /\ awake \subseteq Range(tabs)
  BY AtRestNow
<1> DEFINE from == IndexOfTab(tabs, id)
<1>2. from \in 0..(Len(tabs) - 1) /\ tabs[from + 1] = id /\ id \in Ids
  BY ListedTab
<1> HIDE DEF from
<1>3. rest = EraseTab(tabs, from)
  BY DEF from
<1>4. Range(rest) = Range(tabs) \ {id} /\ id \in Range(tabs)
  BY <1>2, <1>3, EraseFollows
<1>5. rest \in Seq(Ids)
  BY PutBackKeeps
<1>6. Range(tabs') = Range(rest) \cup {id}
  BY <1>2, <1>5, InsertRange
<1>7. Range(tabs') = Range(tabs)
  BY <1>4, <1>6
<1>8. tabs # <<>> /\ tabs' # <<>>
  BY <1>4, <1>6, EmptyRange
<1>9. awake' \subseteq Ids /\ closed' \in Seq(ClosedTabs)
  BY DEF IInv, TypeOK
<1> QED BY <1>1, <1>7, <1>8, <1>9, PublishingStep

LEMMA RunMoveFollows == IInv /\ FInv /\ RunMove => FInv'
<1> SUFFICES ASSUME IInv, FInv, RunMove PROVE FInv'
  OBVIOUS
<1> DEFINE id == Head(queue).id
           index == Head(queue).index
           rest == EraseTab(tabs, IndexOfTab(tabs, id))
           at == ClampInsertIndex(rest, pinned, index, id \in pinned)
<1>1. TakeNext("Move") /\ stage' = stage
  BY DEF RunMove, Take
<1>2. /\ engine' \notin {"new", "off"} /\ stage' # "exit" /\ work = NoWork
      /\ id \in 0..MaxTabs /\ index \in Int
  BY <1>1, TakeFollows
<1>3. CASE NoEffect
  BY <1>2, <1>3, QuietStep DEF NoEffect
<1>4. CASE /\ ~(IndexOfTab(tabs, id) < 0)
           /\ tabs' = Moved(tabs, pinned, id, index)
           /\ UNCHANGED <<pinned, addressed, awake, active, closed, observed, work, doomed>>
           /\ Publish
  <2>1. tabs' = InsertTab(rest, at, id)
    BY <1>4 DEF Moved, Placed
  <2> HIDE DEF id, index
  <2>2. 0 \in 0..Len(rest)
    BY <1>2, <1>4, ListedTab, EraseKeeps
  <2> HIDE DEF rest
  <2>3. rest \in Seq(Ids) /\ Prefixed(rest, pinned)
    BY <1>2, <1>4, <2>2, PutBackKeeps DEF rest
  <2>4. at \in 0..Len(rest)
    <3>1. PICK k \in 0..Len(rest) : \A i \in 1..Len(rest) : rest[i] \in pinned <=> i <= k
      BY <2>3 DEF Prefixed
    <3>2. (id \in pinned) \in BOOLEAN
      OBVIOUS
    <3> QED BY <1>2, <2>3, <3>1, <3>2, ClampInsertIndexInGroup
  <2> HIDE DEF at
  <2> QED BY <1>2, <1>4, <2>1, <2>4, PutBackFollows DEF rest
<1> QED BY <1>3, <1>4 DEF RunMove

LEMMA RunSetPinnedFollows == IInv /\ FInv /\ RunSetPinned => FInv'
<1> SUFFICES ASSUME IInv, FInv, RunSetPinned PROVE FInv'
  OBVIOUS
<1> DEFINE id == Head(queue).id
           rest == EraseTab(tabs, IndexOfTab(tabs, id))
           at == PinnedCount(rest, pinned)
<1>1. TakeNext("SetPinned") /\ stage' = stage
  BY DEF RunSetPinned, Take
<1>2. /\ engine' \notin {"new", "off"} /\ stage' # "exit" /\ work = NoWork
      /\ id \in 0..MaxTabs
  BY <1>1, TakeFollows
<1>3. CASE NoEffect
  BY <1>2, <1>3, QuietStep DEF NoEffect
<1>4. CASE /\ ~(IndexOfTab(tabs, id) < 0)
           /\ tabs' = Repinned(tabs, pinned, id)
           /\ UNCHANGED <<addressed, awake, active, closed, observed, work, doomed>>
           /\ Publish
  <2>1. tabs' = InsertTab(rest, at, id)
    BY <1>4 DEF Repinned
  <2> HIDE DEF id
  <2>2. 0 \in 0..Len(rest)
    BY <1>2, <1>4, ListedTab, EraseKeeps
  <2> HIDE DEF rest
  <2>3. rest \in Seq(Ids) /\ Prefixed(rest, pinned)
    BY <1>2, <1>4, <2>2, PutBackKeeps DEF rest
  <2>4. at \in 0..Len(rest)
    BY <2>3, PinnedCountIsBoundary DEF Prefixed
  <2> HIDE DEF at
  <2> QED BY <1>2, <1>4, <2>1, <2>4, PutBackFollows DEF rest
<1> QED BY <1>3, <1>4 DEF RunSetPinned

\* A tab that was not selected when its close began is not the one that shows now;
\* one that was leaves the selection to a tab of the list that is left.
LEMMA FinishCloseFollows == IInv /\ FInv /\ FinishClose => FInv'
<1> SUFFICES ASSUME IInv, FInv, FinishClose PROVE FInv'
  OBVIOUS
<1> DEFINE new == EraseTab(tabs, work.at)
<1>1. /\ work.op = "close" /\ tabs' = new /\ Publish /\ work' = NoWork
      /\ UNCHANGED <<threadVars, stage, doomed, closed, observed>>
      /\ engine \in {"on", "stopping"}
  BY DEF FinishClose, Running
<1>2. tabs \in Seq(Ids) /\ work.at \in 0..(Len(tabs) - 1) /\ tabs[work.at + 1] = work.id
  <2>1. work.at \in Nat
    BY DEF IInv, TypeOK, Works
  <2> QED BY <1>1, <2>1 DEF IInv, TypeOK, WorkOK
<1>3. new \in Seq(Ids) /\ Range(new) = Range(tabs) \ {work.id}
  <2>1. new \in Seq(Ids)
    BY <1>2, EraseKeeps
  <2>2. Range(new) = Range(tabs) \ {tabs[work.at + 1]}
    BY <1>2, EraseFollows
  <2> QED BY <1>2, <2>1, <2>2
<1> HIDE DEF new
<1>4. /\ observed = Range(tabs) \ {work.id}
      /\ awake \subseteq Range(tabs) \cup {work.id}
      /\ active \in Range(tabs) /\ (~work.wasActive => active # work.id)
      /\ stage # "exit"
  BY <1>1 DEF FInv, ObserversFollow, AwakeOK, SelectionOK, ExitOK
<1>5. /\ IF new = <<>> THEN active' = 0 ELSE active' \in Range(new)
      /\ awake' \subseteq Range(new)
  <2>1. CASE work.wasActive /\ new # <<>>
    <3> DEFINE next == Neighbour(new, work.at)
    <3>1. SelectedFrom(work.id, next)
      BY <1>1, <2>1 DEF FinishClose
    <3>2. next \in Range(new)
      <4>1. Len(new) # 0 /\ Len(new) \in Nat /\ work.at \in Nat
        BY <1>2, <1>3, <2>1
      <4>2. \E i \in 1..Len(new) : new[i] = next
        BY <4>1 DEF Neighbour
      <4> QED BY <1>3, <4>2, Listed
    <3> HIDE DEF next
    <3>3. next # work.id
      BY <1>3, <3>2
    <3> QED BY <1>3, <1>4, <2>1, <3>1, <3>2, <3>3 DEF SelectedFrom
  <2>2. CASE work.wasActive /\ new = <<>>
    <3>1. active' = 0 /\ awake' = awake \ {work.id}
      BY <1>1, <2>2 DEF FinishClose
    <3> QED BY <1>3, <1>4, <2>2, <3>1
  <2>3. CASE ~work.wasActive
    <3>1. active' = active /\ awake' = awake \ {work.id}
      BY <2>3 DEF FinishClose
    <3>2. active \in Range(new) /\ new # <<>>
      BY <1>3, <1>4, <2>3, EmptyRange
    <3> QED BY <1>3, <1>4, <3>1, <3>2
  <2> QED BY <2>1, <2>2, <2>3
<1>6. /\ engine' \notin {"new", "off"} /\ stage' # "exit" /\ closed' \in Seq(ClosedTabs)
      /\ observed' = Range(tabs')
  BY <1>1, <1>3, <1>4 DEF threadVars, IInv, TypeOK
<1>7. awake' \subseteq Ids
  BY <1>3, <1>4, <1>5, ListedIds
<1> QED BY <1>1, <1>5, <1>6, <1>7, PublishingStep

LEMMA RunCloseAllFollows == IInv /\ FInv /\ (RunCloseAll \/ RunShutdown) => FInv'
<1> SUFFICES ASSUME IInv, FInv, RunCloseAll \/ RunShutdown PROVE FInv'
  OBVIOUS
<1>1. PICK kind \in {"CloseAll", "Shutdown"} : TakeNext(kind) /\ BeginCloseAll
  BY DEF RunCloseAll, RunShutdown, Take
<1>2. engine' \notin {"new", "off"} /\ work = NoWork /\ doomed = <<>>
  BY <1>1, TakeFollows
<1>3. /\ published.tabs = tabs /\ published.pinned = pinned /\ published.active = active
      /\ published.closed >= Len(closed)
      /\ IF tabs = <<>> THEN active = 0 ELSE active \in Range(tabs)
      /\ observed = Range(tabs) /\ awake \subseteq Range(tabs)
  BY <1>2, AtRestNow
<1>4. CASE tabs = <<>> /\ NoEffect
  <2>1. UNCHANGED <<work, doomed, tabs, pinned, awake, active, closed, observed, published>>
    BY <1>4 DEF NoEffect, listVars
  <2>2. work'.op = "none" /\ work'.id = 0
    BY <1>2, <2>1, RestFields
  <2>3. PublishedIsCurrent'
    BY <1>3, <2>1 DEF PublishedIsCurrent
  <2>4. ObserversFollow'
    BY <1>2, <1>3, <2>1, <2>2 DEF ObserversFollow
  <2>5. SelectionOK' /\ AwakeOK' /\ ExitOK'
    BY <1>2, <1>3, <1>4, <2>1, <2>2 DEF SelectionOK, AwakeOK, ExitOK
  <2> QED BY <2>3, <2>4, <2>5 DEF FInv
<1>5. CASE /\ work' = [NoWork EXCEPT !.op = "record"]
           /\ UNCHANGED <<tabs, pinned, addressed, awake, closed, observed, doomed, published>>
  <2>1. work'.op = "record" /\ work'.id = 0 /\ work' # NoWork
    <3>1. work'.op = "record" /\ work'.id = 0
      BY <1>5, ClosingWork
    <3> QED BY <3>1, RestFields
  <2>2. PublishedIsCurrent'
    BY <2>1 DEF PublishedIsCurrent
  <2>3. ObserversFollow'
    BY <1>2, <1>3, <1>5, <2>1 DEF ObserversFollow
  <2>4. SelectionOK' /\ AwakeOK' /\ ExitOK'
    BY <1>2, <1>3, <1>5, <2>1 DEF SelectionOK, AwakeOK, ExitOK
  <2> QED BY <2>2, <2>3, <2>4 DEF FInv
<1> QED BY <1>1, <1>4, <1>5 DEF BeginCloseAll

\* A step of closeAllTabs before its end publishes nothing; the tab it is about is
\* out of the list, if there is one, and the observers have seen it go.
LEMMA ClosingAllStep ==
  ASSUME IInv, FInv, work'.op \in {"record", "destroy"}, UNCHANGED <<threadVars, stage, doomed>>,
         engine \in {"on", "stopping"}, observed' = Range(tabs'),
         awake' \subseteq Range(tabs') \cup {work'.id}, work'.op = "record" => work'.id = 0
  PROVE  FInv'
<1>1. work' # NoWork /\ work'.op # "close" /\ engine' \notin {"new", "off"}
  BY RestFields DEF threadVars
<1>2. PublishedIsCurrent' /\ ObserversFollow' /\ SelectionOK' /\ AwakeOK'
  BY <1>1 DEF PublishedIsCurrent, ObserversFollow, SelectionOK, AwakeOK
<1>3. ExitOK'
  BY <1>1 DEF FInv, ExitOK
<1> QED BY <1>2, <1>3 DEF FInv

LEMMA RecordNextFollows == IInv /\ FInv /\ RecordNext => FInv'
<1> SUFFICES ASSUME IInv, FInv, RecordNext PROVE FInv'
  OBVIOUS
<1>1. /\ work.op = "record" /\ engine \in {"on", "stopping"}
      /\ UNCHANGED <<threadVars, stage, doomed, tabs, pinned, addressed, awake, active,
                     observed, published>>
  BY DEF RecordNext, Running
<1>2. observed = Range(tabs) /\ awake \subseteq Range(tabs) \cup {work.id} /\ work.id = 0
  BY <1>1 DEF FInv, ObserversFollow, AwakeOK
<1>3. work \in Works
  BY DEF IInv, TypeOK
<1>4. CASE work' = [NoWork EXCEPT !.op = "destroy"]
  <2>1. work'.op = "destroy" /\ work'.id = 0
    BY <1>4, ClosingWork
  <2> QED BY <1>1, <1>2, <2>1, ClosingAllStep
<1>5. CASE work' = [work EXCEPT !.at = @ + 1]
  <2>1. work'.op = "record" /\ work'.id = work.id
    BY <1>1, <1>3, <1>5 DEF Works
  <2> QED BY <1>1, <1>2, <2>1, ClosingAllStep
<1> QED BY <1>4, <1>5 DEF RecordNext

LEMMA DestroyLastFollows == IInv /\ FInv /\ DestroyLast => FInv'
<1> SUFFICES ASSUME IInv, FInv, DestroyLast PROVE FInv'
  OBVIOUS
<1> DEFINE at == Len(tabs) - 1
<1>1. /\ work.op = "destroy" /\ work.id = 0 /\ tabs # <<>> /\ engine \in {"on", "stopping"}
      /\ work' = [work EXCEPT !.id = Last(tabs)] /\ tabs' = EraseTab(tabs, at)
      /\ observed' = observed \ {Last(tabs)}
      /\ UNCHANGED <<threadVars, stage, doomed, awake>>
  BY DEF DestroyLast, Running
<1>2. at \in 0..(Len(tabs) - 1) /\ Last(tabs) = tabs[at + 1] /\ work \in Works
  BY <1>1 DEF Last, IInv, TypeOK
<1> HIDE DEF at
<1>3. Range(tabs') = Range(tabs) \ {Last(tabs)}
  BY <1>1, <1>2, EraseFollows
<1>4. work'.op = "destroy" /\ work'.id = Last(tabs)
  BY <1>1, <1>2 DEF Works
<1>5. observed = Range(tabs) /\ awake \subseteq Range(tabs) \cup {0}
  BY <1>1 DEF FInv, ObserversFollow, AwakeOK
<1>6. awake \subseteq Ids /\ 0 \notin Ids
  BY DEF IInv, TypeOK, Ids
<1> QED BY <1>1, <1>3, <1>4, <1>5, <1>6, ClosingAllStep

LEMMA EndDestroyFollows == IInv /\ FInv /\ EndDestroy => FInv'
<1> SUFFICES ASSUME IInv, FInv, EndDestroy PROVE FInv'
  OBVIOUS
<1>1. /\ work.op = "destroy" /\ engine \in {"on", "stopping"}
      /\ work' = [work EXCEPT !.id = 0] /\ awake' = awake \ {work.id}
      /\ UNCHANGED <<threadVars, stage, doomed, tabs, observed>>
  BY DEF EndDestroy, Running
<1>2. work'.op = "destroy" /\ work'.id = 0
  BY <1>1 DEF IInv, TypeOK, Works
<1>3. observed = Range(tabs) /\ awake \subseteq Range(tabs) \cup {work.id}
  BY <1>1 DEF FInv, ObserversFollow, AwakeOK
<1> QED BY <1>1, <1>2, <1>3, ClosingAllStep

LEMMA FinishCloseAllFollows == IInv /\ FInv /\ FinishCloseAll => FInv'
<1> SUFFICES ASSUME IInv, FInv, FinishCloseAll PROVE FInv'
  OBVIOUS
<1>1. /\ work.op = "destroy" /\ work.id = 0 /\ tabs = <<>> /\ engine \in {"on", "stopping"}
      /\ active' = 0 /\ work' = NoWork /\ Publish
      /\ UNCHANGED <<threadVars, stage, doomed, tabs, awake, closed, observed>>
  BY DEF FinishCloseAll, Running
<1>2. observed = Range(tabs) /\ awake \subseteq Range(tabs) \cup {0}
  BY <1>1 DEF FInv, ObserversFollow, AwakeOK
<1>3. /\ closed' \in Seq(ClosedTabs) /\ awake' \subseteq Ids /\ engine' \notin {"new", "off"}
      /\ stage' = "exit" => doomed' = <<>>
  BY <1>1 DEF FInv, ExitOK, IInv, TypeOK, threadVars
<1> QED BY <1>1, <1>2, <1>3, PublishingStep

\* The thread returns with the list empty.
LEMMA ThreadEndsFollows == IInv /\ FInv /\ ThreadEnds => FInv'
<1> SUFFICES ASSUME IInv, FInv, ThreadEnds PROVE FInv'
  OBVIOUS
<1>1. /\ stage = "exit" /\ work = NoWork
      /\ UNCHANGED <<stage, work, doomed, listVars, published>>
  BY DEF ThreadEnds, AtRest
<1>2. tabs = <<>>
  BY <1>1 DEF FInv, ExitOK
<1>3. awake = {}
  BY <1>1, <1>2, AtRestNow, EmptyRange
<1> QED BY <1>1, <1>2, <1>3, QuietStep

LEMMA StageFollows == IInv /\ FInv /\ (EndDrain \/ EndCycle) => FInv'
<1> SUFFICES ASSUME IInv, FInv, EndDrain \/ EndCycle PROVE FInv'
  OBVIOUS
<1>1. /\ stage' # "exit" /\ engine' = engine /\ UNCHANGED <<work, doomed, listVars, published>>
  BY DEF EndDrain, EndCycle, threadVars
<1> QED BY <1>1, QuietStep DEF FInv, ObserversFollow

\* A page that is opened while another is being destroyed is selected, which no
\* close undoes unless it is the one the close is about.
LEMMA PageOpensFollows == IInv /\ FInv /\ PageOpens => FInv'
<1> SUFFICES ASSUME IInv, FInv, PageOpens PROVE FInv'
  OBVIOUS
<1> DEFINE id == nextId
           index == -1
           no == FALSE
           yes == TRUE
<1>1. /\ Reserve /\ CreateTab(id, index, no, yes, no) /\ Publish
      /\ UNCHANGED <<engine, stage, work, doomed, closed>>
      /\ engine \in {"on", "stopping"}
      /\ (stage = "cycle" /\ tabs # <<>>) \/ work.id # 0
  BY DEF PageOpens, InCycle, Running
<1>2. /\ id \in Ids /\ index \in Int /\ no \in BOOLEAN /\ yes \in BOOLEAN
      /\ engine' \notin {"new", "off"} /\ closed' \in Seq(ClosedTabs)
  BY <1>1, ListInvNow, RegistryAssumption DEF RegistryAssumption, Reserve, Ids, ListInv, ListType
<1>3. CASE work = NoWork
  <2>1. stage' # "exit"
    BY <1>1, <1>3, RestFields
  <2> HIDE DEF id, index, no, yes
  <2> QED BY <1>1, <1>2, <1>3, <2>1, CreatedAtRest
<1>4. CASE work # NoWork
  <2>1. /\ Range(tabs') = Range(tabs) \cup {id} /\ id \notin Range(tabs)
        /\ observed' = observed \cup {id}
        /\ awake' \subseteq awake \cup {id}
        /\ active' \in {active, id}
    <3> HIDE DEF id, index, no, yes
    <3> QED BY <1>1, <1>2, CreateFollows
  <2>2. work' = work /\ work.id # id
    BY <1>1 DEF IInv, TypeOK, WorkOK
  <2> HIDE DEF id
  <2>3. PublishedIsCurrent'
    BY <1>4, <2>2 DEF PublishedIsCurrent
  <2>4. ObserversFollow'
    BY <1>2, <2>1, <2>2 DEF FInv, ObserversFollow
  <2>5. SelectionOK' /\ AwakeOK'
    BY <2>1, <2>2 DEF FInv, SelectionOK, AwakeOK
  <2>6. ExitOK'
    BY <1>1, <1>4, <2>2 DEF FInv, ExitOK
  <2> QED BY <2>3, <2>4, <2>5, <2>6 DEF FInv
<1> QED BY <1>3, <1>4

LEMMA PageAsksCloseFollows == ASSUME IInv, FInv, NEW id \in Ids, PageAsksClose(id) PROVE FInv'
<1>1. UNCHANGED <<engine, stage, work, doomed, listVars, published>>
  BY DEF PageAsksClose
<1> QED BY <1>1, QuietStep DEF FInv, ObserversFollow

LEMMA PageCommitsFollows == ASSUME IInv, FInv, NEW id \in Ids, PageCommits(id) PROVE FInv'
<1>1. /\ UNCHANGED <<threadVars, stage, work, doomed, tabs, pinned, awake, active, closed, observed>>
      /\ Publish /\ engine \in {"on", "stopping"} /\ stage = "cycle"
  BY DEF PageCommits, InCycle, Running
<1>2. engine' \notin {"new", "off"} /\ stage' # "exit" /\ closed' \in Seq(ClosedTabs) /\ awake' \subseteq Ids
  BY <1>1 DEF threadVars, IInv, TypeOK
<1>3. CASE work = NoWork
  <2>1. /\ IF tabs = <<>> THEN active = 0 ELSE active \in Range(tabs)
        /\ observed = Range(tabs) /\ awake \subseteq Range(tabs)
    BY <1>3, AtRestNow
  <2> QED BY <1>1, <1>2, <1>3, <2>1, PublishingStep
<1>4. CASE work # NoWork
  <2>1. PublishedIsCurrent'
    BY <1>1, <1>4 DEF PublishedIsCurrent
  <2>2. ObserversFollow' /\ SelectionOK' /\ AwakeOK' /\ ExitOK'
    BY <1>1, <1>2 DEF FInv, ObserversFollow, SelectionOK, AwakeOK, ExitOK
  <2> QED BY <2>1, <2>2 DEF FInv
<1> QED BY <1>3, <1>4

LEMMA NextFollows == IInv /\ FInv /\ [Next]_vars => FInv'
<1> SUFFICES ASSUME IInv, FInv, [Next]_vars PROVE FInv'
  OBVIOUS
<1>1. CASE UNCHANGED vars
  BY <1>1, QuietStep DEF vars, threadVars, FInv, ObserversFollow
<1>2. CASE Frame
  BY <1>2, FrameFollows
<1>3. CASE RunCommand
  BY <1>3, RunOpenFollows, RunReopenClosedFollows, RunCloseFollows, RunCloseOthersFollows,
     RunCloseAllFollows, RunSelectFollows, RunMoveFollows, RunSetPinnedFollows DEF RunCommand
<1>4. CASE WebKitStep
  BY <1>3, <1>4, FinishCloseFollows, CloseDoomedFollows, RecordNextFollows, DestroyLastFollows,
     EndDestroyFollows, FinishCloseAllFollows, ThreadEndsFollows, StageFollows DEF WebKitStep
<1>5. CASE Page
  BY <1>5, PageOpensFollows, PageAsksCloseFollows, PageCommitsFollows DEF Page
<1> QED BY <1>1, <1>2, <1>4, <1>5 DEF Next

\* Between two commands the host reads the list as it is, with a tab of it selected;
\* the page observers are told of every page that goes, whatever closes it; and the
\* thread leaves no page behind it.
THEOREM TheListIsFollowed == Spec => []ListIsFollowed
<1>1. Spec => []FInv
  BY AlwaysIInv, InitFollowed, NextFollows, PTL DEF Spec
<1>2. FInv => ListIsFollowed
  BY DEF FInv, ListIsFollowed
<1> QED BY <1>1, <1>2, PTL

-----------------------------------------------------------------------------
(* What a step does to the order of the list.  Every tab that stays keeps its *)
(* place among the others, the one a move or a pin names apart: tabs are      *)
(* inserted and erased one at a time, and a move is the two together.         *)

\* The tabs in both lists, but for those of a set, are in the same order.
OrderStays(except) ==
  \A a, b \in Range(tabs) \cap Range(tabs') :
    SameOrder(tabs, tabs', a, b) \/ a \in except \/ b \in except

LEMMA ListNow == IInv => tabs \in Seq(Ids) /\ Distinct(tabs) /\ Prefixed(tabs, pinned)
BY DEF IInv, TypeOK, UniqueIds, Distinct, PinnedPrefix, Prefixed

LEMMA UnchangedOrder == ASSUME tabs' = tabs PROVE OrderStays({})
BY DEF OrderStays, SameOrder

LEMMA CreateOrder ==
  ASSUME IInv, NEW id \in Ids, NEW index \in Int, NEW isPinned \in BOOLEAN,
         NEW foreground \in BOOLEAN, NEW hasAddress \in BOOLEAN,
         CreateTab(id, index, isPinned, foreground, hasAddress)
  PROVE  OrderStays({})
<1> DEFINE at == ClampInsertIndex(tabs, pinned, index, isPinned)
<1>1. tabs \in Seq(Ids) /\ Distinct(tabs) /\ Prefixed(tabs, pinned)
  BY ListNow
<1>2. \A i \in 1..Len(tabs) : tabs[i] # id
  BY <1>1 DEF CreateTab, IndexOfTab
<1>3. at \in 0..Len(tabs)
  <2>1. PICK k \in 0..Len(tabs) : \A i \in 1..Len(tabs) : tabs[i] \in pinned <=> i <= k
    BY <1>1 DEF Prefixed
  <2> QED BY <1>1, <2>1, ClampInsertIndexInGroup
<1>4. tabs' = InsertTab(tabs, at, id)
  BY DEF CreateTab, Placed
<1> HIDE DEF at
<1> QED BY <1>1, <1>2, <1>3, <1>4, InsertKeepsOrder DEF OrderStays

LEMMA EraseOrder ==
  ASSUME IInv, NEW at \in 0..(Len(tabs) - 1), tabs' = EraseTab(tabs, at)
  PROVE  OrderStays({})
<1>1. tabs \in Seq(Ids) /\ Distinct(tabs)
  BY ListNow
<1>2. Range(tabs') = Range(tabs) \ {tabs[at + 1]}
  BY EraseFollows
<1> QED BY <1>1, <1>2, EraseKeepsOrder DEF OrderStays

LEMMA PutBackOrder ==
  ASSUME IInv, NEW id \in 0..MaxTabs, ~(IndexOfTab(tabs, id) < 0),
         NEW rest, rest = EraseTab(tabs, IndexOfTab(tabs, id)), NEW at \in 0..Len(rest),
         tabs' = InsertTab(rest, at, id)
  PROVE  OrderStays({id})
<1> DEFINE from == IndexOfTab(tabs, id)
<1>1. tabs \in Seq(Ids) /\ Distinct(tabs)
  BY ListNow
<1>2. from \in 0..(Len(tabs) - 1) /\ tabs[from + 1] = id /\ id \in Ids
  BY ListedTab
<1>3. rest \in Seq(Ids) /\ \A i \in 1..Len(rest) : rest[i] # id
  BY PutBackKeeps
<1> HIDE DEF from
<1>4. rest = EraseTab(tabs, from)
  BY DEF from
<1>5. Distinct(rest) /\ Range(rest) = Range(tabs) \ {id}
  BY <1>1, <1>2, <1>4, EraseKeepsDistinct, EraseFollows
<1>6. ASSUME NEW a \in Range(tabs), NEW b \in Range(tabs), a # id, b # id
      PROVE  SameOrder(tabs, tabs', a, b)
  <2>1. SameOrder(tabs, rest, a, b)
    BY <1>1, <1>2, <1>4, <1>6, EraseKeepsOrder
  <2>2. SameOrder(rest, tabs', a, b)
    BY <1>2, <1>3, <1>5, <1>6, InsertKeepsOrder
  <2> QED BY <2>1, <2>2 DEF SameOrder
<1> QED BY <1>6 DEF OrderStays

LEMMA RunMoveOrder == IInv /\ RunMove => OrderStays({Head(queue).id})
<1> SUFFICES ASSUME IInv, RunMove PROVE OrderStays({Head(queue).id})
  OBVIOUS
<1> DEFINE id == Head(queue).id
           index == Head(queue).index
           rest == EraseTab(tabs, IndexOfTab(tabs, id))
           at == ClampInsertIndex(rest, pinned, index, id \in pinned)
<1>1. id \in 0..MaxTabs /\ index \in Int
  BY TakeKeeps DEF RunMove, Take
<1>2. CASE NoEffect
  BY <1>2, UnchangedOrder DEF NoEffect, listVars, OrderStays
<1>3. CASE ~(IndexOfTab(tabs, id) < 0) /\ tabs' = Moved(tabs, pinned, id, index)
  <2>1. tabs' = InsertTab(rest, at, id)
    BY <1>3 DEF Moved, Placed
  <2> HIDE DEF id, index
  <2>2. 0 \in 0..Len(rest)
    BY <1>1, <1>3, ListedTab, EraseKeeps
  <2> HIDE DEF rest
  <2>3. rest \in Seq(Ids) /\ Prefixed(rest, pinned)
    BY <1>1, <1>3, <2>2, PutBackKeeps DEF rest
  <2>4. at \in 0..Len(rest)
    <3>1. PICK k \in 0..Len(rest) : \A i \in 1..Len(rest) : rest[i] \in pinned <=> i <= k
      BY <2>3 DEF Prefixed
    <3>2. (id \in pinned) \in BOOLEAN
      OBVIOUS
    <3> QED BY <1>1, <2>3, <3>1, <3>2, ClampInsertIndexInGroup
  <2> HIDE DEF at
  <2>5. OrderStays({id})
    BY <1>1, <1>3, <2>1, <2>4, PutBackOrder DEF rest
  <2> QED BY <2>5 DEF id
<1> QED BY <1>2, <1>3 DEF RunMove

LEMMA RunSetPinnedOrder == IInv /\ RunSetPinned => OrderStays({Head(queue).id})
<1> SUFFICES ASSUME IInv, RunSetPinned PROVE OrderStays({Head(queue).id})
  OBVIOUS
<1> DEFINE id == Head(queue).id
           rest == EraseTab(tabs, IndexOfTab(tabs, id))
           at == PinnedCount(rest, pinned)
<1>1. id \in 0..MaxTabs
  BY TakeKeeps DEF RunSetPinned, Take
<1>2. CASE NoEffect
  BY <1>2, UnchangedOrder DEF NoEffect, listVars, OrderStays
<1>3. CASE ~(IndexOfTab(tabs, id) < 0) /\ tabs' = Repinned(tabs, pinned, id)
  <2>1. tabs' = InsertTab(rest, at, id)
    BY <1>3 DEF Repinned
  <2> HIDE DEF id
  <2>2. 0 \in 0..Len(rest)
    BY <1>1, <1>3, ListedTab, EraseKeeps
  <2> HIDE DEF rest
  <2>3. rest \in Seq(Ids) /\ Prefixed(rest, pinned)
    BY <1>1, <1>3, <2>2, PutBackKeeps DEF rest
  <2>4. at \in 0..Len(rest)
    BY <2>3, PinnedCountIsBoundary DEF Prefixed
  <2> HIDE DEF at
  <2>5. OrderStays({id})
    BY <1>1, <1>3, <2>1, <2>4, PutBackOrder DEF rest
  <2> QED BY <2>5 DEF id
<1> QED BY <1>2, <1>3 DEF RunSetPinned

LEMMA RunOpenOrder == IInv /\ RunOpen => OrderStays({})
<1> SUFFICES ASSUME IInv, RunOpen PROVE OrderStays({})
  OBVIOUS
<1> DEFINE id == Head(queue).id
           index == Head(queue).index
           flag == Head(queue).flag
           no == FALSE
           yes == TRUE
<1>1. id \in Ids /\ index \in Int /\ flag \in BOOLEAN /\ no \in BOOLEAN /\ yes \in BOOLEAN
  BY TakeKeeps DEF RunOpen, Take, Creates
<1>2. CASE NoEffect
  BY <1>2, UnchangedOrder DEF NoEffect, listVars
<1>3. CASE CreateTab(id, index, no, flag, yes)
  <2> HIDE DEF id, index, flag, no, yes
  <2> QED BY <1>1, <1>3, CreateOrder
<1> QED BY <1>2, <1>3 DEF RunOpen

LEMMA RunReopenClosedOrder == IInv /\ RunReopenClosed => OrderStays({})
<1> SUFFICES ASSUME IInv, RunReopenClosed PROVE OrderStays({})
  OBVIOUS
<1> DEFINE entry == Last(closed)
           id == Head(queue).id
           index == entry.index
           flag == entry.pinned
           yes == TRUE
<1>1. id \in Ids /\ yes \in BOOLEAN
  BY TakeKeeps DEF RunReopenClosed, Take, Creates
<1>2. CASE tabs' = tabs
  BY <1>2, UnchangedOrder
<1>3. CASE closed # <<>> /\ CreateTab(id, index, flag, yes, yes)
  <2>1. index \in Int /\ flag \in BOOLEAN
    <3>1. entry \in ClosedTabs
      BY <1>3 DEF Last, IInv, TypeOK
    <3> HIDE DEF entry
    <3> QED BY <3>1 DEF ClosedTabs
  <2> HIDE DEF id, index, flag, yes
  <2> QED BY <1>1, <1>3, <2>1, CreateOrder
<1> QED BY <1>2, <1>3 DEF RunReopenClosed, listVars

LEMMA PageOpensOrder == IInv /\ PageOpens => OrderStays({})
<1> SUFFICES ASSUME IInv, PageOpens PROVE OrderStays({})
  OBVIOUS
<1> DEFINE id == nextId
           index == -1
           no == FALSE
           yes == TRUE
<1>1. id \in Ids /\ index \in Int /\ no \in BOOLEAN /\ yes \in BOOLEAN
  BY ListInvNow, RegistryAssumption DEF RegistryAssumption, PageOpens, Reserve, Ids
<1>2. CreateTab(id, index, no, yes, no)
  BY DEF PageOpens
<1> HIDE DEF id, index, no, yes
<1> QED BY <1>1, <1>2, CreateOrder

LEMMA EraseStepOrder == IInv /\ (FinishClose \/ DestroyLast) => OrderStays({})
<1> SUFFICES ASSUME IInv, FinishClose \/ DestroyLast PROVE OrderStays({})
  OBVIOUS
<1>1. CASE FinishClose
  <2>1. work.op = "close" /\ tabs' = EraseTab(tabs, work.at)
    BY <1>1 DEF FinishClose
  <2>2. work.at \in 0..(Len(tabs) - 1)
    <3>1. work.at \in Nat
      BY DEF IInv, TypeOK, Works
    <3> QED BY <2>1, <3>1 DEF IInv, TypeOK, WorkOK
  <2> QED BY <2>1, <2>2, EraseOrder
<1>2. CASE DestroyLast
  <2> DEFINE at == Len(tabs) - 1
  <2>1. tabs' = EraseTab(tabs, at) /\ tabs # <<>>
    BY <1>2 DEF DestroyLast
  <2>2. at \in 0..(Len(tabs) - 1)
    BY <2>1 DEF IInv, TypeOK
  <2> HIDE DEF at
  <2> QED BY <2>1, <2>2, EraseOrder
<1> QED BY <1>1, <1>2

\* The steps that leave the list as it is.
LEMMA OtherStepOrder ==
  IInv /\ (\/ Frame \/ RunClose \/ RunCloseOthers \/ RunCloseAll \/ RunShutdown \/ RunSelect
           \/ CloseDoomed \/ RecordNext \/ EndDestroy \/ FinishCloseAll \/ ThreadEnds
           \/ EndDrain \/ EndCycle \/ \E id \in Ids : PageAsksClose(id) \/ PageCommits(id))
  => tabs' = tabs
<1>1. Frame => tabs' = tabs
  BY DEF Frame, HbStart, HbShutdown, HbOpen, HbReopenClosed, HbTab, listVars
<1>2. RunClose \/ CloseDoomed => tabs' = tabs
  BY DEF RunClose, CloseDoomed, BeginClose, listVars
<1>3. RunCloseOthers \/ RunSelect => tabs' = tabs
  BY DEF RunCloseOthers, RunSelect, SelectTab, NoEffect, listVars
<1>4. RunCloseAll \/ RunShutdown => tabs' = tabs
  BY DEF RunCloseAll, RunShutdown, BeginCloseAll, NoEffect, listVars
<1>5. RecordNext \/ EndDestroy \/ FinishCloseAll => tabs' = tabs
  BY DEF RecordNext, EndDestroy, FinishCloseAll
<1>6. ThreadEnds \/ EndDrain \/ EndCycle => tabs' = tabs
  BY DEF ThreadEnds, EndDrain, EndCycle, listVars
<1>7. (\E id \in Ids : PageAsksClose(id) \/ PageCommits(id)) => tabs' = tabs
  BY DEF PageAsksClose, PageCommits, listVars
<1> QED BY <1>1, <1>2, <1>3, <1>4, <1>5, <1>6, <1>7

OrderStep ==
  \A a, b \in Range(tabs) \cap Range(tabs') :
    \/ (IndexOfTab(tabs, a) < IndexOfTab(tabs, b)) = (IndexOfTab(tabs', a) < IndexOfTab(tabs', b))
    \/ RunMove /\ Head(queue).id \in {a, b}
    \/ RunSetPinned /\ Head(queue).id \in {a, b}

LEMMA NextKeepsOrder == IInv /\ [Next]_vars => OrderStep
<1> SUFFICES ASSUME IInv, [Next]_vars PROVE OrderStep
  OBVIOUS
<1>1. CASE OrderStays({})
  BY <1>1 DEF OrderStays, SameOrder, OrderStep
<1>2. CASE RunMove
  <2>1. OrderStays({Head(queue).id})
    BY <1>2, RunMoveOrder
  <2> QED BY <1>2, <2>1 DEF OrderStays, SameOrder, OrderStep
<1>3. CASE RunSetPinned
  <2>1. OrderStays({Head(queue).id})
    BY <1>3, RunSetPinnedOrder
  <2> QED BY <1>3, <2>1 DEF OrderStays, SameOrder, OrderStep
<1>4. CASE tabs' = tabs
  BY <1>1, <1>4, UnchangedOrder
<1>5. CASE RunOpen \/ RunReopenClosed \/ PageOpens \/ FinishClose \/ DestroyLast
  BY <1>1, <1>5, RunOpenOrder, RunReopenClosedOrder, PageOpensOrder, EraseStepOrder
<1>6. CASE UNCHANGED vars
  BY <1>4, <1>6 DEF vars, listVars
<1>7. CASE Next
  BY <1>2, <1>3, <1>4, <1>5, <1>7, OtherStepOrder DEF Next, WebKitStep, RunCommand, Page
<1> QED BY <1>6, <1>7

\* A move or a pin changes the order of nothing but the tab it names; everything
\* else keeps the order of the tabs that stay.
THEOREM TheOrderIsKept == Spec => OrderKept
<1>1. Spec => [][OrderStep]_vars
  <2>1. IInv /\ [Next]_vars => [OrderStep]_vars
    BY NextKeepsOrder
  <2> QED BY <2>1, AlwaysIInv, PTL DEF Spec
<1>2. ([][OrderStep]_vars) <=> OrderKept
  BY DEF OrderKept, OrderStep
<1> QED BY <1>1, <1>2

-----------------------------------------------------------------------------
(* Reopening a closed tab.  While its page is destroyed, the entry on top of  *)
(* the stack is the tab's, with the position and the group it still has: a    *)
(* page opened meanwhile has no address yet and no close begins.              *)

RememberedOK ==
  /\ stage = "cycle" => AtRest
  /\ work.op = "close" /\ work.id \in addressed =>
       closed # <<>> /\ Last(closed) = [index |-> work.at, pinned |-> work.id \in pinned]

LEMMA RememberedLast ==
  ASSUME closed \in Seq(ClosedTabs), NEW entry \in ClosedTabs
  PROVE  /\ Remembered(closed, entry, ClosedCap) # <<>>
         /\ Last(Remembered(closed, entry, ClosedCap)) = entry
<1> DEFINE grown == Append(closed, entry)
<1>1. /\ grown \in Seq(ClosedTabs) /\ Len(grown) = Len(closed) + 1 /\ grown # <<>>
      /\ grown[Len(closed) + 1] = entry /\ Len(closed) \in Nat
  BY AppendProperties
<1> HIDE DEF grown
<1>2. CASE Len(grown) > ClosedCap
  <2>1. Len(closed) >= 1
    BY <1>1, <1>2, RegistryAssumption DEF RegistryAssumption
  <2>2. /\ Tail(grown) \in Seq(ClosedTabs) /\ Len(Tail(grown)) = Len(closed)
        /\ \A i \in 1..Len(Tail(grown)) : Tail(grown)[i] = grown[i + 1]
    BY <1>1, HeadTailProperties
  <2>3. Tail(grown)[Len(closed)] = entry
    BY <1>1, <2>1, <2>2
  <2>4. Tail(grown) # <<>>
    BY <2>1, <2>2
  <2> QED BY <1>2, <2>2, <2>3, <2>4 DEF Remembered, Last, grown
<1>3. CASE ~(Len(grown) > ClosedCap)
  BY <1>1, <1>3 DEF Remembered, Last, grown
<1> QED BY <1>2, <1>3

LEMMA BeginCloseRemembers ==
  ASSUME IInv, work = NoWork, stage # "cycle", stage' = stage, NEW id \in 0..MaxTabs, BeginClose(id)
  PROVE  RememberedOK'
<1> DEFINE at == IndexOfTab(tabs, id)
<1>1. CASE at < 0
  BY <1>1, RestFields DEF BeginClose, RememberedOK
<1>2. CASE ~(at < 0)
  <2>1. /\ work' = [op |-> "close", id |-> id, at |-> at, wasActive |-> active = id]
        /\ Remember(id, at) /\ UNCHANGED <<pinned, addressed>>
    BY <1>2 DEF BeginClose
  <2>2. at \in Nat
    BY <1>2, ListedTab
  <2> HIDE DEF at
  <2> DEFINE entry == [index |-> at, pinned |-> id \in pinned]
  <2>3. work'.id = id /\ work'.at = at
    BY <2>1
  <2>4. entry \in ClosedTabs
    BY <2>2 DEF ClosedTabs
  <2>5. id \in addressed => closed' = Remembered(closed, entry, ClosedCap)
    BY <2>1 DEF Remember
  <2>6. closed \in Seq(ClosedTabs)
    BY DEF IInv, TypeOK
  <2>7. id \in addressed => closed' # <<>> /\ Last(closed') = entry
    <3> HIDE DEF entry
    <3> QED BY <2>4, <2>5, <2>6, RememberedLast
  <2> QED BY <2>1, <2>3, <2>7 DEF RememberedOK
<1> QED BY <1>1, <1>2

\* A step after which no tab is being closed and WebKit's cycle is not running.
LEMMA NotClosingStep ==
  ASSUME work'.op # "close", stage' # "cycle"
  PROVE  RememberedOK'
BY DEF RememberedOK

LEMMA SameClosingStep ==
  ASSUME RememberedOK, UNCHANGED <<work, doomed, listVars>>, stage' \in {stage, "drain", "exit"}
  PROVE  RememberedOK'
BY DEF RememberedOK, AtRest, listVars

LEMMA CommandRemembers == IInv /\ RememberedOK /\ RunCommand => RememberedOK'
<1> SUFFICES ASSUME IInv, RememberedOK, RunCommand PROVE RememberedOK'
  OBVIOUS
<1>1. PICK kind : TakeNext(kind) /\ (stage' = stage \/ stage' = "exit")
  BY DEF RunCommand, RunOpen, RunReopenClosed, RunClose, RunCloseOthers, RunCloseAll, RunShutdown,
         RunSelect, RunMove, RunSetPinned, Take
<1>2. /\ work = NoWork /\ stage = "drain" /\ stage' # "cycle"
  BY <1>1 DEF TakeNext, AtRest
<1>3. CASE RunClose
  <2>1. BeginClose(Head(queue).id) /\ Head(queue).id \in 0..MaxTabs /\ stage' = stage
    BY <1>3, TakeKeeps DEF RunClose, Take
  <2> QED BY <1>2, <2>1, BeginCloseRemembers
<1>4. CASE ~RunClose
  <2>1. work' = work \/ work' = [NoWork EXCEPT !.op = "record"]
    BY <1>4 DEF RunCommand, RunOpen, RunReopenClosed, RunCloseOthers, RunCloseAll, RunShutdown,
         RunSelect, RunMove, RunSetPinned, BeginCloseAll, NoEffect
  <2>2. work'.op # "close"
    BY <1>2, <2>1, RestFields, ClosingWork
  <2> QED BY <1>2, <2>2, NotClosingStep
<1> QED BY <1>3, <1>4

LEMMA ThreadRemembers ==
  IInv /\ FInv /\ RememberedOK /\
    (FinishClose \/ CloseDoomed \/ RecordNext \/ DestroyLast \/ EndDestroy \/ FinishCloseAll)
  => RememberedOK'
<1> SUFFICES ASSUME IInv, FInv, RememberedOK,
                    FinishClose \/ CloseDoomed \/ RecordNext \/ DestroyLast \/ EndDestroy
                      \/ FinishCloseAll
             PROVE  RememberedOK'
  OBVIOUS
<1>1. stage' = stage /\ work \in Works
  BY DEF FinishClose, CloseDoomed, RecordNext, DestroyLast, EndDestroy, FinishCloseAll, IInv, TypeOK
<1>2. stage # "cycle"
  BY RestFields DEF RememberedOK, AtRest, FinishClose, CloseDoomed, RecordNext, DestroyLast,
                    EndDestroy, FinishCloseAll
<1>3. CASE CloseDoomed
  <2>1. /\ BeginClose(Head(doomed)) /\ work = NoWork /\ doomed # <<>> /\ doomed \in Seq(Ids)
    BY <1>3 DEF CloseDoomed, IInv, TypeOK
  <2>2. Head(doomed) \in 0..MaxTabs
    <3>1. Head(doomed) \in Ids
      BY <2>1
    <3> QED BY <3>1, RegistryAssumption DEF RegistryAssumption, Ids
  <2> QED BY <1>1, <1>2, <2>1, <2>2, BeginCloseRemembers
<1>4. CASE FinishClose \/ FinishCloseAll
  <2>1. work' = NoWork
    BY <1>4 DEF FinishClose, FinishCloseAll
  <2> QED BY <1>1, <1>2, <2>1, RestFields, NotClosingStep
<1>5. CASE RecordNext
  <2>1. CASE work' = [NoWork EXCEPT !.op = "destroy"]
    BY <1>1, <1>2, <2>1, ClosingWork, NotClosingStep
  <2>2. CASE work' = [work EXCEPT !.at = @ + 1]
    <3>1. work'.op = "record"
      BY <1>1, <1>5, <2>2 DEF Works, RecordNext
    <3> QED BY <1>1, <1>2, <3>1, NotClosingStep
  <2> QED BY <1>5, <2>1, <2>2 DEF RecordNext
<1>6. CASE DestroyLast \/ EndDestroy
  <2>1. work'.op = "destroy"
    BY <1>1, <1>6 DEF Works, DestroyLast, EndDestroy
  <2> QED BY <1>1, <1>2, <2>1, NotClosingStep
<1> QED BY <1>3, <1>4, <1>5, <1>6

LEMMA PageOpensRemembers == IInv /\ RememberedOK /\ PageOpens => RememberedOK'
<1> SUFFICES ASSUME IInv, RememberedOK, PageOpens PROVE RememberedOK'
  OBVIOUS
<1>1. /\ UNCHANGED <<stage, work, doomed, closed>>
      /\ pinned' = pinned \ {nextId} /\ addressed' = addressed
  BY DEF PageOpens, CreateTab
<1>2. work.id # nextId
  BY DEF IInv, TypeOK, Works, WorkOK
<1> QED BY <1>1, <1>2 DEF RememberedOK, AtRest

LEMMA PageCommitsRemembers ==
  ASSUME IInv, RememberedOK, NEW id \in Ids, PageCommits(id) PROVE RememberedOK'
<1>1. stage = "cycle" /\ UNCHANGED <<stage, work, doomed>>
  BY DEF PageCommits, InCycle
<1>2. AtRest
  BY <1>1 DEF RememberedOK
<1> QED BY <1>1, <1>2, RestFields DEF RememberedOK, AtRest

LEMMA NextRemembers == IInv /\ FInv /\ RememberedOK /\ [Next]_vars => RememberedOK'
<1> SUFFICES ASSUME IInv, FInv, RememberedOK, [Next]_vars PROVE RememberedOK'
  OBVIOUS
<1>1. CASE UNCHANGED vars
  BY <1>1, SameClosingStep DEF vars
<1>2. CASE Frame
  <2>1. UNCHANGED <<work, doomed, listVars>> /\ stage' \in {stage, "drain", "exit"}
    BY <1>2 DEF Frame, HbStart, HbShutdown, HbOpen, HbReopenClosed, HbTab
  <2> QED BY <2>1, SameClosingStep
<1>3. CASE ThreadEnds \/ EndCycle
  <2>1. UNCHANGED <<work, doomed, listVars>> /\ stage' \in {stage, "drain", "exit"}
    BY <1>3 DEF ThreadEnds, EndCycle
  <2> QED BY <2>1, SameClosingStep
<1>4. CASE EndDrain
  <2>1. AtRest /\ UNCHANGED <<work, doomed>>
    BY <1>4 DEF EndDrain
  <2> QED BY <2>1, RestFields DEF RememberedOK, AtRest
<1>5. CASE \E id \in Ids : PageAsksClose(id)
  <2>1. UNCHANGED <<work, doomed, listVars>> /\ stage' \in {stage, "drain", "exit"}
    BY <1>5 DEF PageAsksClose
  <2> QED BY <2>1, SameClosingStep
<1> QED BY <1>1, <1>2, <1>3, <1>4, <1>5, CommandRemembers, ThreadRemembers, PageOpensRemembers,
           PageCommitsRemembers DEF Next, WebKitStep, Page

LEMMA InitRemembers == Init => RememberedOK
BY RestFields DEF Init, RememberedOK

UndoStep ==
  FinishClose /\ work.id \in addressed =>
    LET entry == Last(closed)
    IN  Placed(tabs', pinned', entry.index, work.id, entry.pinned) = tabs

LEMMA FinishCloseUndone == IInv /\ RememberedOK => UndoStep
<1> SUFFICES ASSUME IInv, RememberedOK, FinishClose, work.id \in addressed
             PROVE  Placed(tabs', pinned', Last(closed).index, work.id, Last(closed).pinned) = tabs
  BY DEF UndoStep
<1>1. work.op = "close" /\ tabs' = EraseTab(tabs, work.at) /\ pinned' = pinned \ {work.id}
  BY DEF FinishClose, Forgotten
<1>2. Last(closed).index = work.at /\ Last(closed).pinned = (work.id \in pinned)
  BY <1>1 DEF RememberedOK
<1>3. work.at \in 0..(Len(tabs) - 1) /\ tabs[work.at + 1] = work.id
  <2>1. work.at \in Nat
    BY DEF IInv, TypeOK, Works
  <2> QED BY <1>1, <2>1 DEF IInv, TypeOK, WorkOK
<1>4. Placed(EraseTab(tabs, work.at), pinned \ {tabs[work.at + 1]}, work.at, tabs[work.at + 1],
             tabs[work.at + 1] \in pinned) = tabs
  BY <1>3, ListNow, PlacedUndoesErase
<1> QED BY <1>1, <1>2, <1>3, <1>4

\* Reopening the tab a close has just remembered puts it back where it was, among
\* the pinned tabs or behind them, whatever pages opened while it was closed.
THEOREM TheCloseIsUndone == Spec => ReopenUndoesClose
<1>1. Spec => [](IInv /\ FInv /\ RememberedOK)
  BY AlwaysIInv, InitFollowed, NextFollows, InitRemembers, NextRemembers, PTL DEF Spec
<1>2. Spec => [][UndoStep]_vars
  <2>1. IInv /\ RememberedOK /\ [Next]_vars => [UndoStep]_vars
    BY FinishCloseUndone
  <2> QED BY <1>1, <2>1, PTL DEF Spec
<1>3. ([][UndoStep]_vars) <=> ReopenUndoesClose
  BY DEF ReopenUndoesClose, UndoStep
<1> QED BY <1>2, <1>3
=============================================================================
