---------------------------- MODULE ProfileProofs ----------------------------
(***************************************************************************)
(* For any numbers of tabs, events and processes: private tabs share the    *)
(* one private session there is, which ends with them; no private tab gets  *)
(* into the file or on its way there; and from one process to the next what *)
(* was open is what is written, and what was written is what comes back.    *)
(*                                                                         *)
(* The sequence of commands that wait is part of the state that matters:    *)
(* the mark stands in front of the open it was posted with, and a restore   *)
(* in progress is split between the tabs that are there and the commands    *)
(* that will open the others.                                               *)
(***************************************************************************)
EXTENDS Profile, TabListTheorems, WellFoundedInduction

-----------------------------------------------------------------------------
(* The inductive invariant.                                                *)

Opens == {"Open", "OpenAt"}
Commands == [op : {"Open", "OpenAt", "Close", "Mark", "Load", "SelectIndex", "Shutdown"},
             id : 0..MaxTabs, url : Addresses, at : -1..MaxTabs]
Hosts == [at : {"idle", "marked", "restoring", "listing", "saved", "joining"},
          i : 0..MaxTabs, n : 0..MaxTabs, ids : Seq(Ids), active : 0..MaxTabs]
Restores == [entries : Seq([url : Addresses, private : BOOLEAN]), active : -2..MaxTabs]

\* A session no longer than a process has tabs, that says rightly which of its entries
\* showed; and one with no private tab.
Fits(s) == Len(s.entries) <= MaxTabs
Shows(s) ==
  s.showing # 0 => /\ s.active \in 0..(Len(s.entries) - 1)
                   /\ s.entries[s.active + 1].url = s.showing
Sound(s) == s \in Sessions /\ Fits(s) /\ Shows(s)
Clean(s) == \A i \in 1..Len(s.entries) : ~s.entries[i].private

EntryValues == [url : Addresses, private : BOOLEAN]
LeftValues == [urls : Seq(Addresses \ {0}), showing : Addresses, blank : BOOLEAN]
RestoreOK(r) == r \in Restores /\ Len(r.entries) <= MaxTabs /\ r.active < Len(r.entries)

\* The part of the type invariant that is about tabs and stores.
TabTypes ==
  /\ tabs \in Seq(Ids) /\ active \in 0..MaxTabs /\ url \in [Ids -> Addresses]
  /\ loading \subseteq Ids /\ closing \in 0..MaxTabs
  /\ private \subseteq Ids /\ ephemeral \in 0..MaxTabs /\ store \in [Ids -> -1..MaxTabs]

FlagTypes ==
  /\ prepared \in BOOLEAN /\ loaded \in BOOLEAN /\ nextPrivate \in BOOLEAN /\ dirty \in BOOLEAN
  /\ stopped \in BOOLEAN /\ restored \in BOOLEAN /\ stolen \in BOOLEAN /\ quiet \in BOOLEAN

\* How far the host is, and what it restores.
HostOK ==
  /\ unused \in 1..(MaxTabs + 1) /\ stage \in {"up", "stopping", "down"}
  /\ asked \in [Ids -> {"none", "ordinary", "private"}]
  /\ host \in Hosts /\ (host.at = "listing" => host.i <= host.n)
  /\ Len(host.ids) <= host.i
  /\ host.at \notin {"restoring", "listing"} => host = [Idle EXCEPT !.at = host.at]
  /\ host.at = "restoring" => host.ids = <<>> /\ host.i \in 1..Len(restore.entries)
  /\ stage # "up" => host = Idle
  /\ RestoreOK(restore) /\ (~loaded => restore = Empty)

TabsOK ==
  /\ Distinct(tabs) /\ \A t \in Range(tabs) : t < unused
  /\ closing # 0 => closing \in Range(tabs)

\* Opens that wait in q have ids below `un' of their own, and not those of the tabs
\* in `tb' or of the private ones.
Waiting(q, x) == \E i \in 1..Len(q) : q[i].op \in Opens /\ q[i].id = x
QueueOK(q, tb, un, pr) ==
  /\ q \in Seq(Commands)
  /\ \A x : Waiting(q, x) => x \in Ids /\ x < un /\ x \notin Range(tb) /\ x \notin pr
  /\ \A i, j \in 1..Len(q) : q[i].op \in Opens /\ q[j].op \in Opens /\ q[i].id = q[j].id => i = j
  /\ \A i \in 1..Len(q) : q[i].op = "SelectIndex" => q[i].at >= 0

\* Whatever is called private is in the ephemeral store there is, and no other open
\* tab is; the tab that closes is not called so.
StoresOK ==
  /\ \A t \in private : store[t] = ephemeral /\ ephemeral > 0 /\ t < unused /\ t # closing
  /\ private = {} => ephemeral = 0
  /\ private # {} => loaded
  /\ prepared => loaded
  /\ \A t \in Open : store[t] > 0 => t \in private

\* The mark stands in front of the open it was posted with, in the queue or out of
\* it, and nowhere else.
Waits(i) == queue[i].op \in Opens
MarksOK ==
  /\ \A i \in 1..(Len(queue) - 1) :
       /\ queue[i].op = "Mark" => Waits(i + 1)
       /\ Waits(i + 1) => (asked[queue[i + 1].id] = "private" <=> queue[i].op = "Mark")
  /\ queue # <<>> /\ Waits(1) => (asked[queue[1].id] = "private" <=> nextPrivate)
  /\ nextPrivate /\ queue # <<>> => Waits(1)
  /\ nextPrivate /\ queue = <<>> => host.at = "marked"
  /\ queue # <<>> => (queue[Len(queue)].op = "Mark" <=> host.at = "marked")
  /\ queue = <<>> /\ host.at = "marked" => nextPrivate

AskedOK ==
  \A t \in Open : /\ t \in private => asked[t] = "private"
                  /\ asked[t] = "private" => t \in private \cup denied

MarkOK == ~stolen => MarksOK /\ AskedOK

\* What is on its way to the file, or in it, has no private tab.
SessionsOK ==
  /\ Sound(hand) /\ Sound(file) /\ Sound(last) /\ Clean(hand) /\ Clean(file) /\ Clean(last)
  /\ work \in Seq(Sessions) /\ \A i \in 1..Len(work) : Sound(work[i]) /\ Clean(work[i])

\* What a last encoding has still to come from, until something gets in its way.
Listing ==
  host.at = "listing" /\ last # Nothing =>
    /\ closing = 0 /\ host.n = Len(tabs) /\ host.active = active
    /\ last = Encoded(Kept(tabs), active)
    /\ host.ids = Kept(SubSeq(tabs, 1, host.i))

\* Where the last encoding is once it is made.
IsLast(s) == IF work = <<>> THEN file = s ELSE work[Len(work)] = s
QuitOK ==
  /\ Listing
  /\ stage = "up" => (stopped <=> host.at = "joining")
  /\ stage = "up" /\ host.at \in {"idle", "marked", "restoring"} => last = Nothing
  /\ host.at \in {"saved", "joining"} /\ last # Nothing => IsLast(last)
  /\ stage = "stopping" /\ last # Nothing => stopped /\ work = <<>> /\ file = last
  /\ stage = "down" => work = <<>> /\ ~stopped /\ (last # Nothing => file = last)

\* The command that ends a process is posted by a host that does nothing else then.
StopsOK == \A i \in 1..Len(queue) : queue[i].op = "Shutdown" => stage = "stopping"

-----------------------------------------------------------------------------
(* The restore, as long as nothing else has touched the tabs.              *)

Count == Len(left.urls)
Whole == left.showing # 0 /\ ~left.blank

\* What is to be restored is what the last process left.
LeftOK ==
  /\ left \in LeftValues
  /\ ~loaded => left = Left(file) /\ work = <<>> /\ hand = Nothing
  /\ loaded /\ ~restored =>
       /\ Len(restore.entries) = Count
       /\ \A i \in 1..Count : restore.entries[i].url = left.urls[i]
       /\ Whole => restore.active \in 0..(Count - 1) /\ left.urls[restore.active + 1] = left.showing
  /\ host.at = "restoring" => ~restored
  /\ host.at = "listing" => loaded
  /\ host.at = "marked" => ~quiet
  /\ stage = "down" => ~loaded /\ ~restored /\ hand = Nothing /\ closing = 0 /\ queue = <<FirstTab>> /\ tabs = <<>> /\ unused = 2

\* Nothing has been asked for but the tab of the registry's own.
BeforeRestore ==
  /\ host.at # "restoring" /\ ~restored /\ unused = 2
  /\ \/ queue = <<FirstTab>> /\ tabs = <<>>
     \/ queue = <<>> /\ tabs = <<1>> /\ url[1] # 0

\* How many entries have been asked for: the first takes the registry's tab.
Asked == IF host.at = "restoring" THEN host.i ELSE Count

Brings(r, c) ==
  \/ r = 1 /\ c.op = "Load" /\ c.id = 1 /\ c.url = left.urls[1]
  \/ r > 1 /\ c.op = "OpenAt" /\ c.id = r /\ c.url = left.urls[r] /\ c.at = r - 1

Selects(c) ==
  /\ c.op = "SelectIndex" /\ c.at \in 0..(Count - 1)
  /\ Whole => left.urls[c.at + 1] = left.showing

\* The first `done' entries are open, and the commands for the others wait in order.
RestoresUpTo(done) ==
  /\ Len(queue) \in {Asked - done, Asked - done + 1}
  /\ \A j \in 1..(Asked - done) : Brings(done + j, queue[j])
  /\ Len(queue) = Asked - done + 1 => restored /\ Selects(queue[Len(queue)])
  /\ Len(tabs) = IF done = 0 THEN 1 ELSE done
  /\ \A k \in 1..Len(tabs) : tabs[k] = k
  /\ \A k \in 1..done : url[k] = left.urls[k]
  /\ done = 0 => url[1] # 0
  /\ restored /\ Len(queue) = Asked - done /\ Whole =>
       active \in 1..Count /\ left.urls[active] = left.showing

DuringRestore ==
  /\ host.at = "restoring" \/ restored
  /\ unused = Asked + 1 /\ Asked <= Count
  /\ \E done \in 0..Asked : RestoresUpTo(done)

ComingBack ==
  stage = "up" /\ quiet /\ left.urls # <<>> => closing = 0 /\ (BeforeRestore \/ DuringRestore)

RegistryOK == TabTypes /\ FlagTypes /\ HostOK /\ TabsOK /\ StoresOK /\ QueueOK(queue, tabs, unused, private)

IInv ==
  /\ RegistryOK /\ MarkOK
  /\ SessionsOK /\ QuitOK /\ StopsOK /\ LeftOK /\ ComingBack

-----------------------------------------------------------------------------
(* Tabs, ids and places.                                                   *)

\* No tab twice among the ids there are: no more tabs than ids.
LEMMA DistinctIsShort ==
  ASSUME NEW n \in Nat, NEW list \in Seq(1..n), Distinct(list)
  PROVE  Len(list) \in 0..n
<1>1. Len(list) \in Nat /\ IsFiniteSet(1..n) /\ Cardinality(1..n) = n /\ Cardinality(1..Len(list)) = Len(list)
  <2>1. Len(list) \in Nat
    OBVIOUS
  <2>2. IsFiniteSet(1..n) /\ Cardinality(1..n) = n
    BY FS_Interval
  <2>3. Cardinality(1..Len(list)) = Len(list)
    <3> DEFINE m == Len(list)
    <3>1. m \in Nat /\ m \in Int /\ 1 \in Int
      BY <2>1
    <3> HIDE DEF m
    <3>2. Cardinality(1..m) = IF 1 > m THEN 0 ELSE m - 1 + 1
      BY <3>1, FS_Interval
    <3>3. Cardinality(1..m) = m
      BY <3>1, <3>2
    <3> QED BY <3>3 DEF m
  <2> QED BY <2>1, <2>2, <2>3
<1>2. list \in Injection(1..Len(list), 1..n)
  BY DEF Distinct, Injection, IsInjective
<1>3. Cardinality(1..Len(list)) <= Cardinality(1..n)
  BY <1>1, <1>2, FS_Injection
<1> QED BY <1>1, <1>3

-----------------------------------------------------------------------------
(* Sessions.                                                               *)

LEMMA Bounds ==
  /\ MaxTabs \in Nat /\ MaxTabs > 0 /\ Ids = 1..MaxTabs /\ Addresses = 0..MaxTabs
  /\ 1 \in Ids /\ \A x \in Ids : x \in 0..MaxTabs /\ x # 0
BY ProfileAssumption DEF Ids, Addresses

\* What is encoded of these tabs, by addresses and stores.
EncodedBy(u, st, kept, shown) ==
  [entries |-> [i \in 1..Len(kept) |-> [url |-> u[kept[i]], private |-> st[kept[i]] > Persistent]],
   active |-> IndexOfTab(kept, shown),
   showing |-> IF shown \in Range(kept) THEN u[shown] ELSE 0]

LEMMA EncodedIsSound ==
  ASSUME NEW u \in [Ids -> Addresses], NEW st \in [Ids -> -1..MaxTabs],
         NEW kept \in Seq(Ids), Len(kept) <= MaxTabs, NEW shown \in 0..MaxTabs
  PROVE  /\ Sound(EncodedBy(u, st, kept, shown))
         /\ Sound(Unwatched(EncodedBy(u, st, kept, shown))) /\ Clean(Unwatched(EncodedBy(u, st, kept, shown)))
         /\ (\A i \in 1..Len(kept) : st[kept[i]] <= 0) => Clean(EncodedBy(u, st, kept, shown))
<1> DEFINE es == [i \in 1..Len(kept) |-> [url |-> u[kept[i]], private |-> st[kept[i]] > Persistent]]
           fs == [i \in 1..Len(kept) |-> [url |-> es[i].url, private |-> FALSE]]
           at == IndexOfTab(kept, shown)
           address == IF shown \in Range(kept) THEN u[shown] ELSE 0
           s == EncodedBy(u, st, kept, shown)
<1>1. Len(kept) \in Nat /\ \A i \in 1..Len(kept) : kept[i] \in Ids
  OBVIOUS
<1>2. /\ es \in Seq(EntryValues) /\ Len(es) = Len(kept)
      /\ \A i \in 1..Len(kept) : es[i].url = u[kept[i]] /\ es[i].private = (st[kept[i]] > 0)
  BY <1>1, Bounds DEF EntryValues, Persistent
<1>3. /\ fs \in Seq(EntryValues) /\ Len(fs) = Len(kept)
      /\ \A i \in 1..Len(kept) : fs[i].url = u[kept[i]] /\ fs[i].private = FALSE
  BY <1>1, <1>2, Bounds DEF EntryValues
<1>4. address \in Addresses /\ at \in -1..(Len(kept) - 1)
      /\ (address # 0 => at \in 0..(Len(kept) - 1) /\ u[kept[at + 1]] = address)
  <2>1. CASE shown \in Range(kept)
    <3>1. at \in 0..(Len(kept) - 1) /\ kept[at + 1] = shown
      BY <2>1, IndexOfListed
    <3>2. shown \in Ids
      BY <1>1, <3>1
    <3> QED BY <1>1, <2>1, <3>1, <3>2
  <2>2. CASE shown \notin Range(kept)
    <3>1. at = -1
      BY <2>2, Listed DEF IndexOfTab
    <3> QED BY <1>1, <2>2, <3>1, Bounds
  <2> QED BY <2>1, <2>2
<1>5. s = [entries |-> es, active |-> at, showing |-> address]
  BY DEF EncodedBy
<1>6. Unwatched(s) = [entries |-> fs, active |-> at, showing |-> address]
  <2>1. fs = [i \in 1..Len(es) |-> [url |-> es[i].url, private |-> FALSE]]
    BY <1>2
  <2> HIDE DEF es, fs, at, address, s
  <2>2. s.entries = es
    BY <1>5
  <2>3. Unwatched(s) = [s EXCEPT !.entries = fs]
    BY <2>1, <2>2 DEF Unwatched
  <2> QED BY <1>5, <2>3
<1> HIDE DEF es, fs, at, address, s
<1>7. s.entries = es /\ s.active = at /\ s.showing = address
  BY <1>5
<1>8. Unwatched(s).entries = fs /\ Unwatched(s).active = at /\ Unwatched(s).showing = address
  BY <1>6
<1>9. at \in -2..MaxTabs
  BY <1>1, <1>4, Bounds
<1>10. s \in Sessions /\ Unwatched(s) \in Sessions
  BY <1>2, <1>3, <1>4, <1>5, <1>6, <1>9 DEF Sessions, EntryValues
<1>11. Fits(s) /\ Fits(Unwatched(s))
  BY <1>2, <1>3, <1>7, <1>8 DEF Fits
<1>12. \A k \in 1..Len(kept) : es[k].url = u[kept[k]] /\ fs[k].url = u[kept[k]]
  BY <1>2, <1>3
<1>13. address # 0 => at + 1 \in 1..Len(kept)
  BY <1>1, <1>4
<1>14. Shows(s) /\ Shows(Unwatched(s))
  BY <1>2, <1>3, <1>4, <1>7, <1>8, <1>12, <1>13 DEF Shows
<1>15. Clean(Unwatched(s))
  BY <1>3, <1>8 DEF Clean
<1>16. ASSUME \A i \in 1..Len(kept) : st[kept[i]] <= 0 PROVE Clean(s)
  <2>1. \A i \in 1..Len(kept) : st[kept[i]] \in Int
    BY <1>1
  <2>2. \A i \in 1..Len(kept) : ~es[i].private
    <3>1. \A i \in 1..Len(kept) : ~(st[kept[i]] > 0)
      BY <1>16, <2>1
    <3> QED BY Zenon, <1>2, <3>1
  <2> QED BY <1>2, <1>7, <2>2 DEF Clean
<1> QED BY <1>10, <1>11, <1>14, <1>15, <1>16 DEF s, Sound

LEMMA NothingIsSound == Sound(Nothing) /\ Clean(Nothing)
<1> DEFINE none == <<>>
<1>1. none \in Seq(EntryValues) /\ Len(none) = 0
  OBVIOUS
<1> HIDE DEF none
<1>2. [entries |-> none, active |-> -2, showing |-> 0] \in Sessions
  BY <1>1, Bounds DEF Sessions, EntryValues
<1>3. Nothing = [entries |-> none, active |-> -2, showing |-> 0]
  BY DEF Nothing, none
<1>4. Nothing.entries = none /\ Nothing.showing = 0 /\ Nothing \in Sessions
  BY <1>2, <1>3
<1> QED BY <1>1, <1>4, Bounds DEF Sound, Clean, Fits, Shows

LEMMA EmptyIsRestore == RestoreOK(Empty) /\ Empty.entries = <<>> /\ Len(Empty.entries) = 0
<1> DEFINE none == <<>>
<1>1. none \in Seq(EntryValues) /\ Len(none) = 0
  OBVIOUS
<1> HIDE DEF none
<1>2. [entries |-> none, active |-> -1] \in Restores
  BY <1>1, Bounds DEF Restores, EntryValues
<1>3. Empty = [entries |-> none, active |-> -1]
  BY DEF Empty, none
<1>4. Empty.entries = none /\ Empty.active = -1 /\ Empty \in Restores
  BY <1>2, <1>3
<1>5. RestoreOK(Empty) /\ Len(Empty.entries) = 0
  BY <1>1, <1>4, Bounds DEF RestoreOK
<1> QED BY <1>4, <1>5 DEF none

\* What the next process finds is what it loads.
LEMMA LoadedIsLeft ==
  ASSUME NEW s, Sound(s)
  PROVE  /\ RestoreOK(Loaded(s)) /\ Left(s) \in LeftValues
         /\ Len(Loaded(s).entries) = Len(Left(s).urls)
         /\ \A i \in 1..Len(Left(s).urls) : Loaded(s).entries[i].url = Left(s).urls[i]
         /\ Left(s).showing # 0 /\ ~Left(s).blank =>
              /\ Loaded(s).active \in 0..(Len(Left(s).urls) - 1)
              /\ Left(s).urls[Loaded(s).active + 1] = Left(s).showing
<1> DEFINE named == {e \in Range(s.entries) : HasAddress(e)}
           es == WithAddress(s)
           us == [i \in 1..Len(es) |-> es[i].url]
           at == IF s.active >= Len(es) THEN -1 ELSE s.active
           blank == \E e \in Range(s.entries) : ~HasAddress(e)
<1>1. /\ s.entries \in Seq(EntryValues) /\ Len(s.entries) \in Nat /\ Len(s.entries) <= MaxTabs
      /\ s.active \in -2..MaxTabs /\ s.showing \in Addresses
  BY DEF Sound, Sessions, EntryValues, Fits
<1>2. es = Only(s.entries, named)
  BY DEF WithAddress
<1>3. /\ es \in Seq(EntryValues) /\ Len(es) \in 0..Len(s.entries)
      /\ \A k \in 1..Len(es) : es[k] \in named
  BY <1>1, <1>2, OnlyProperties
<1>4. \A k \in 1..Len(es) : es[k].url \in Addresses \ {0}
  <2>1. \A k \in 1..Len(es) : es[k] \in EntryValues
    BY <1>3
  <2>2. \A k \in 1..Len(es) : HasAddress(es[k])
    BY <1>3
  <2> HIDE DEF es
  <2> QED BY <2>1, <2>2 DEF HasAddress, EntryValues
<1>5. ~blank => es = s.entries
  <2>1. ~blank => \A e \in Range(s.entries) : e \in named
    OBVIOUS
  <2> HIDE DEF named, blank
  <2> QED BY <1>1, <1>2, <2>1, OnlyAll
<1>6. Left(s) = [urls |-> us, showing |-> s.showing, blank |-> blank]
  BY DEF Left
<1>7. Loaded(s) = [entries |-> es, active |-> at]
  BY DEF Loaded
<1> HIDE DEF named, es, blank
<1>8. us \in Seq(Addresses \ {0}) /\ Len(us) = Len(es) /\ \A i \in 1..Len(es) : us[i] = es[i].url
  BY <1>1, <1>3, <1>4
<1>9. at \in -2..MaxTabs /\ at < Len(es)
  BY <1>1, <1>3, Bounds
<1>10. blank \in BOOLEAN
  BY DEF blank
<1>11. s.showing # 0 /\ ~blank => at \in 0..(Len(es) - 1) /\ us[at + 1] = s.showing
  <2> SUFFICES ASSUME s.showing # 0, ~blank PROVE at \in 0..(Len(es) - 1) /\ us[at + 1] = s.showing
    OBVIOUS
  <2>1. s.active \in 0..(Len(es) - 1) /\ es[s.active + 1].url = s.showing
    BY <1>5 DEF Sound, Shows
  <2>2. at = s.active /\ s.active + 1 \in 1..Len(es)
    BY <1>1, <1>3, <2>1
  <2> QED BY <1>8, <2>1, <2>2
<1> HIDE DEF us, at
<1>12. Loaded(s).entries = es /\ Loaded(s).active = at /\ Loaded(s) \in Restores
  BY <1>3, <1>7, <1>9 DEF Restores, EntryValues
<1>13. Left(s).urls = us /\ Left(s).showing = s.showing /\ Left(s).blank = blank /\ Left(s) \in LeftValues
  BY <1>1, <1>6, <1>8, <1>10 DEF LeftValues
<1>14. RestoreOK(Loaded(s))
  <2>1. Len(es) \in Nat /\ Len(es) <= MaxTabs
    BY <1>1, <1>3, Bounds
  <2> QED BY <1>9, <1>12, <2>1 DEF RestoreOK
<1> QED BY <1>8, <1>11, <1>12, <1>13, <1>14

-----------------------------------------------------------------------------
(* The commands that wait.                                                 *)

LEMMA QueueStays ==
  ASSUME NEW q, NEW tb, NEW un \in Int, NEW pr, QueueOK(q, tb, un, pr),
         NEW tb2, NEW un2 \in Int, NEW pr2, un2 >= un,
         \A x : Waiting(q, x) => x \notin Range(tb2) /\ x \notin pr2
  PROVE  QueueOK(q, tb2, un2, pr2)
<1>1. ASSUME NEW x, Waiting(q, x) PROVE x \in Ids /\ x < un2
  <2>1. x \in Ids /\ x < un
    BY <1>1 DEF QueueOK
  <2> QED BY <2>1, Bounds
<1> QED BY <1>1 DEF QueueOK

LEMMA CommandTyped ==
  ASSUME NEW op \in {"Open", "OpenAt", "Close", "Mark", "Load", "SelectIndex", "Shutdown"},
         NEW id \in 0..MaxTabs, NEW address \in Addresses, NEW at \in -1..MaxTabs
  PROVE  /\ Command(op, id, address, at) \in Commands
         /\ Command(op, id, address, at).op = op /\ Command(op, id, address, at).id = id
         /\ Command(op, id, address, at).url = address /\ Command(op, id, address, at).at = at
BY DEF Command, Commands

LEMMA OpenTyped ==
  ASSUME NEW op \in Opens, NEW id \in Ids, NEW address \in Addresses, NEW at \in -1..MaxTabs
  PROVE  /\ Command(op, id, address, at) \in Commands
         /\ Command(op, id, address, at).op = op /\ Command(op, id, address, at).id = id
         /\ Command(op, id, address, at).url = address /\ Command(op, id, address, at).at = at
<1>1. id \in 0..MaxTabs /\ op \in {"Open", "OpenAt", "Close", "Mark", "Load", "SelectIndex", "Shutdown"}
  BY Bounds DEF Opens
<1> QED BY <1>1, CommandTyped

\* A tab is opened with its own number for an address.
LEMMA NumberTyped ==
  ASSUME NEW id \in Ids
  PROVE  /\ Command("Open", id, id, -1) \in Commands
         /\ Command("Open", id, id, -1).op = "Open" /\ Command("Open", id, id, -1).id = id
         /\ Command("Open", id, id, -1).url = id /\ Command("Open", id, id, -1).at = -1
<1>1. id \in Addresses /\ -1 \in -1..MaxTabs /\ "Open" \in Opens
  BY Bounds DEF Opens
<1> QED BY <1>1, OpenTyped

LEMMA QueueAppends ==
  ASSUME NEW q, NEW tb, NEW un \in Int, NEW pr, QueueOK(q, tb, un, pr),
         NEW c \in Commands, c.op \in Opens => c.id = un /\ un \in Ids /\ un \notin Range(tb) /\ un \notin pr,
         c.op = "SelectIndex" => c.at >= 0,
         NEW un2 \in Int, un2 >= un, c.op \in Opens => un2 > un
  PROVE  QueueOK(Append(q, c), tb, un2, pr)
<1> DEFINE new == Append(q, c)
           n == Len(q)
<1>1. q \in Seq(Commands)
  BY DEF QueueOK
<1>2. /\ new \in Seq(Commands) /\ Len(new) = n + 1 /\ new[n + 1] = c /\ n \in Nat
      /\ \A i \in 1..n : new[i] = q[i]
  BY <1>1, AppendOf
<1> HIDE DEF new
<1>3. \A i \in 1..(n + 1) : (i \in 1..n /\ new[i] = q[i]) \/ (i = n + 1 /\ new[i] = c)
  BY <1>2
<1>4. \A x : Waiting(new, x) => Waiting(q, x) \/ (c.op \in Opens /\ x = c.id)
  BY <1>2, <1>3 DEF Waiting
<1>5. \A x : Waiting(q, x) => x \in Ids /\ x < un /\ x \notin Range(tb) /\ x \notin pr
  BY DEF QueueOK
<1>6. \A x : Waiting(new, x) => x \in Ids /\ x < un2 /\ x \notin Range(tb) /\ x \notin pr
  BY <1>4, <1>5, Bounds
<1>7. \A i \in 1..n : q[i].op \in Opens => q[i].id < un
  BY <1>5 DEF Waiting
<1>8. \A i, j \in 1..n : q[i].op \in Opens /\ q[j].op \in Opens /\ q[i].id = q[j].id => i = j
  BY DEF QueueOK
<1>9. \A i, j \in 1..(n + 1) : new[i].op \in Opens /\ new[j].op \in Opens /\ new[i].id = new[j].id => i = j
  BY <1>3, <1>7, <1>8
<1>10. \A i \in 1..n : q[i].op = "SelectIndex" => q[i].at >= 0
  BY DEF QueueOK
<1>11. \A i \in 1..(n + 1) : new[i].op = "SelectIndex" => new[i].at >= 0
  BY <1>3, <1>10
<1>12. QueueOK(new, tb, un2, pr)
  BY <1>2, <1>6, <1>9, <1>11 DEF QueueOK
<1> QED BY <1>12 DEF new

LEMMA QueueTakes ==
  ASSUME NEW q, NEW tb, NEW un \in Int, NEW pr, QueueOK(q, tb, un, pr), q # <<>>
  PROVE  /\ QueueOK(Tail(q), tb, un, pr) /\ Head(q) \in Commands /\ Head(q) = q[1] /\ Len(q) >= 1
         /\ Head(q).op = "SelectIndex" => Head(q).at >= 0
         /\ Len(Tail(q)) = Len(q) - 1 /\ \A i \in 1..Len(Tail(q)) : Tail(q)[i] = q[i + 1]
         /\ Head(q).op \in Opens => /\ Head(q).id \in Ids /\ Head(q).id < un /\ Head(q).id \notin Range(tb)
                                    /\ Head(q).id \notin pr /\ ~Waiting(Tail(q), Head(q).id)
         /\ \A x : Waiting(Tail(q), x) => Waiting(q, x)
<1> DEFINE rest == Tail(q)
           n == Len(q)
<1>1. q \in Seq(Commands)
  BY DEF QueueOK
<1>2. /\ rest \in Seq(Commands) /\ Len(rest) = n - 1 /\ n \in Nat /\ 1 \in 1..n
      /\ Head(q) = q[1] /\ Head(q) \in Commands
      /\ \A i \in 1..Len(rest) : i + 1 \in 1..n /\ rest[i] = q[i + 1]
  BY <1>1, TailOf
<1> HIDE DEF rest
<1>3. \A x : Waiting(rest, x) => Waiting(q, x)
  BY <1>2 DEF Waiting
<1>4. /\ \A x : Waiting(q, x) => x \in Ids /\ x < un /\ x \notin Range(tb) /\ x \notin pr
      /\ \A i, j \in 1..n : q[i].op \in Opens /\ q[j].op \in Opens /\ q[i].id = q[j].id => i = j
      /\ \A i \in 1..n : q[i].op = "SelectIndex" => q[i].at >= 0
  BY DEF QueueOK
<1>5. \A i, j \in 1..Len(rest) : rest[i].op \in Opens /\ rest[j].op \in Opens /\ rest[i].id = rest[j].id => i = j
  BY <1>2, <1>4
<1>6. \A i \in 1..Len(rest) : rest[i].op = "SelectIndex" => rest[i].at >= 0
  BY <1>2, <1>4
<1>7. QueueOK(rest, tb, un, pr)
  BY <1>2, <1>3, <1>4, <1>5, <1>6 DEF QueueOK
<1>8. Head(q).op \in Opens => Waiting(q, Head(q).id)
  BY <1>2 DEF Waiting
<1>9. Head(q).op \in Opens => ~Waiting(rest, Head(q).id)
  BY <1>2, <1>4 DEF Waiting
<1> QED BY <1>2, <1>3, <1>4, <1>7, <1>8, <1>9 DEF rest

LEMMA FirstTabWaits ==
  /\ FirstTab \in Commands /\ FirstTab.op = "Open" /\ FirstTab.id = 1 /\ FirstTab.url = 1 /\ FirstTab.at = -1
  /\ \A un \in Int : un > 1 => QueueOK(<<FirstTab>>, <<>>, un, {})
<1>1. /\ FirstTab \in Commands /\ FirstTab.op = "Open" /\ FirstTab.id = 1 /\ FirstTab.url = 1
      /\ FirstTab.at = -1
  BY CommandTyped, Bounds DEF FirstTab
<1> DEFINE q == <<FirstTab>>
<1>2. q \in Seq(Commands) /\ Len(q) = 1 /\ q[1] = FirstTab
  BY <1>1
<1> HIDE DEF q
<1>3. \A x : Waiting(q, x) => x = 1
  BY <1>1, <1>2 DEF Waiting
<1>4. \A un \in Int : un > 1 => QueueOK(q, <<>>, un, {})
  <2>1. \A i \in 1..Len(q) : i = 1 /\ q[i].op # "SelectIndex"
    BY <1>1, <1>2
  <2>2. \A x : x \notin Range(<<>>)
    BY EmptyRange
  <2> QED BY <1>2, <1>3, <2>1, <2>2, Bounds DEF QueueOK
<1> QED BY <1>1, <1>4 DEF q

-----------------------------------------------------------------------------
(* The registry: the host's steps.                                         *)

LEMMA UnusedIsNew ==
  ASSUME RegistryOK
  PROVE  /\ unused \in Int /\ unused \notin Range(tabs) /\ unused \notin private
         /\ QueueOK(queue, tabs, unused, private) /\ \A x : Waiting(queue, x) => x # unused
<1>1. unused \in Int
  BY Bounds DEF RegistryOK, HostOK
<1>2. unused \notin Range(tabs) /\ unused \notin private
  BY <1>1 DEF RegistryOK, TabsOK, StoresOK
<1>3. QueueOK(queue, tabs, unused, private)
  BY DEF RegistryOK
<1>4. \A x : Waiting(queue, x) => x < unused
  BY <1>3 DEF QueueOK
<1> QED BY <1>1, <1>2, <1>3, <1>4

\* What the host does leaves the tabs and their stores alone.
LEMMA TabsUntouched ==
  ASSUME RegistryOK, UNCHANGED <<tabs, active, url, loading, closing, loaded, private, ephemeral, store>>,
         prepared' => prepared, unused' \in {unused, unused + 1}
  PROVE  TabTypes' /\ TabsOK' /\ StoresOK'
<1>1. unused \in Int /\ unused' >= unused
  BY UnusedIsNew
<1>2. Open' = Open
  BY DEF Open
<1>3. TabTypes'
  BY DEF RegistryOK, TabTypes
<1>4. \A t \in Range(tabs) : t \in Ids
  BY Listed DEF RegistryOK, TabTypes
<1>5. TabsOK'
  BY <1>1, <1>4, Bounds DEF RegistryOK, TabsOK
<1>6. StoresOK'
  BY <1>1, <1>2, Bounds DEF RegistryOK, StoresOK, TabTypes
<1> QED BY <1>3, <1>5, <1>6

\* Where the host may be.
LEMMA HostValues ==
  /\ Idle \in Hosts /\ Idle.at = "idle" /\ Idle.i = 0 /\ Idle.n = 0 /\ Idle.ids = <<>> /\ Idle.active = 0
  /\ Len(Idle.ids) = 0
  /\ \A a \in {"idle", "marked", "saved", "joining"} :
       /\ [Idle EXCEPT !.at = a] \in Hosts /\ [Idle EXCEPT !.at = a].at = a /\ [Idle EXCEPT !.at = a].i = 0
       /\ [Idle EXCEPT !.at = a].ids = <<>>
  /\ [Idle EXCEPT !.at = "idle"] = Idle
<1> DEFINE none == <<>>
<1>1. none \in Seq(Ids) /\ Len(none) = 0
  OBVIOUS
<1>2. Idle = [at |-> "idle", i |-> 0, n |-> 0, ids |-> none, active |-> 0]
  BY DEF Idle
<1> HIDE DEF none
<1>3. Idle \in Hosts /\ Idle.at = "idle" /\ Idle.i = 0 /\ Idle.n = 0 /\ Idle.ids = none /\ Idle.active = 0
  BY <1>1, <1>2, Bounds DEF Hosts
<1> HIDE DEF Idle
<1>4. \A a \in {"idle", "marked", "saved", "joining"} :
        /\ [Idle EXCEPT !.at = a] \in Hosts /\ [Idle EXCEPT !.at = a].at = a /\ [Idle EXCEPT !.at = a].i = 0
        /\ [Idle EXCEPT !.at = a].ids = none
  BY <1>3 DEF Hosts
<1>5. [Idle EXCEPT !.at = "idle"] = Idle
  BY <1>3 DEF Hosts
<1> QED BY <1>1, <1>3, <1>4, <1>5 DEF none

\* The host comes to rest at one of these points.
LEMMA HostRests ==
  ASSUME HostOK, NEW a \in {"idle", "marked", "saved", "joining"}, host' = [Idle EXCEPT !.at = a],
         stage' \in {"up", "stopping"}, stage' = "up" \/ a = "idle", RestoreOK(restore'), ~loaded' => restore' = Empty,
         unused' \in 1..(MaxTabs + 1), asked' \in [Ids -> {"none", "ordinary", "private"}]
  PROVE  HostOK'
<1>1. host' \in Hosts /\ host'.at = a /\ host'.i = 0 /\ host'.ids = <<>> /\ Len(host'.ids) = 0
  BY HostValues
<1>2. stage' # "up" => host' = Idle
  BY HostValues
<1> QED BY <1>1, <1>2 DEF HostOK

LEMMA AskedTyped ==
  ASSUME HostOK, NEW kind \in {"none", "ordinary", "private"}, Reserves(kind)
  PROVE  /\ unused \in Ids /\ unused' = unused + 1 /\ unused' \in 1..(MaxTabs + 1)
         /\ asked' \in [Ids -> {"none", "ordinary", "private"}]
         /\ asked'[unused] = kind /\ \A t \in Ids : t # unused => asked'[t] = asked[t]
BY Bounds DEF Reserves, HostOK

LEMMA MarkPrivateKeeps == ASSUME RegistryOK, MarkPrivate PROVE RegistryOK'
<1>1. /\ host = Idle /\ stage = "up" /\ queue' = Append(queue, Command("Mark", 0, 0, 0))
      /\ host' = [Idle EXCEPT !.at = "marked"] /\ quiet' = FALSE
      /\ UNCHANGED <<tabs, active, url, loading, closing, storeVars, sessionVars, unused, stage, restored, asked, stolen>>
  BY DEF MarkPrivate, HostIdle, Posts
<1>2. UNCHANGED <<prepared, loaded, nextPrivate, private, ephemeral, store, restore, dirty, stopped>>
  BY <1>1 DEF storeVars, sessionVars
<1>3. TabTypes' /\ TabsOK' /\ StoresOK'
  BY <1>1, <1>2, TabsUntouched
<1>4. HostOK'
  BY <1>1, <1>2, HostRests DEF RegistryOK, HostOK
<1>5. FlagTypes'
  BY <1>1, <1>2 DEF RegistryOK, FlagTypes
<1>6. QueueOK(queue', tabs', unused', private')
  <2> DEFINE c == Command("Mark", 0, 0, 0)
  <2>1. c \in Commands /\ c.op = "Mark"
    BY CommandTyped, Bounds
  <2> HIDE DEF c
  <2> QED BY <1>1, <1>2, <2>1, UnusedIsNew, QueueAppends DEF c, Opens
<1> QED BY <1>3, <1>4, <1>5, <1>6 DEF RegistryOK

LEMMA OpenMarkedKeeps == ASSUME RegistryOK, OpenMarked PROVE RegistryOK'
<1>1. /\ stage = "up" /\ queue' = Append(queue, Command("Open", unused, unused, -1)) /\ Reserves("private")
      /\ host' = Idle
      /\ UNCHANGED <<tabs, active, url, loading, closing, storeVars, sessionVars, stage, restored, stolen, quiet>>
  BY DEF OpenMarked, Posts
<1>2. UNCHANGED <<prepared, loaded, nextPrivate, private, ephemeral, store, restore, dirty, stopped>>
  BY <1>1 DEF storeVars, sessionVars
<1>3. /\ unused \in Ids /\ unused' = unused + 1 /\ unused' \in 1..(MaxTabs + 1)
      /\ asked' \in [Ids -> {"none", "ordinary", "private"}]
  BY <1>1, AskedTyped DEF RegistryOK
<1>4. TabTypes' /\ TabsOK' /\ StoresOK'
  BY <1>1, <1>2, <1>3, TabsUntouched
<1>5. HostOK'
  BY <1>1, <1>2, <1>3, HostRests, HostValues DEF RegistryOK, HostOK
<1>6. FlagTypes'
  BY <1>1, <1>2 DEF RegistryOK, FlagTypes
<1>7. QueueOK(queue', tabs', unused', private')
  <2> DEFINE c == Command("Open", unused, unused, -1)
  <2>1. c \in Commands /\ c.op = "Open" /\ c.id = unused
    BY <1>3, NumberTyped
  <2> HIDE DEF c
  <2> QED BY <1>1, <1>2, <1>3, <2>1, UnusedIsNew, QueueAppends DEF c, Opens
<1> QED BY <1>4, <1>5, <1>6, <1>7 DEF RegistryOK

LEMMA PersonKeeps == ASSUME RegistryOK, Person PROVE RegistryOK'
<1>1. /\ host = Idle /\ stage = "up" /\ (OpenTab \/ CloseTab) /\ quiet' = FALSE
      /\ UNCHANGED <<tabs, active, url, loading, closing, storeVars, sessionVars, host, stage, restored, stolen>>
  BY DEF Person, HostIdle
<1>2. UNCHANGED <<prepared, loaded, nextPrivate, private, ephemeral, store, restore, dirty, stopped>>
  BY <1>1 DEF storeVars, sessionVars
<1>3. /\ unused' \in {unused, unused + 1} /\ unused' \in 1..(MaxTabs + 1)
      /\ asked' \in [Ids -> {"none", "ordinary", "private"}]
      /\ QueueOK(queue', tabs', unused', private')
  <2>1. CASE OpenTab
    <3>1. queue' = Append(queue, Command("Open", unused, unused, -1)) /\ Reserves("ordinary")
      BY <2>1 DEF OpenTab, Posts
    <3>2. /\ unused \in Ids /\ unused' = unused + 1 /\ unused' \in 1..(MaxTabs + 1)
          /\ asked' \in [Ids -> {"none", "ordinary", "private"}]
      BY <3>1, AskedTyped DEF RegistryOK
    <3> DEFINE c == Command("Open", unused, unused, -1)
    <3>3. c \in Commands /\ c.op = "Open" /\ c.id = unused
      BY <3>2, NumberTyped
    <3>4. queue' = Append(queue, c)
      BY <3>1
    <3> HIDE DEF c
    <3>5. QueueOK(queue', tabs', unused', private')
      BY <1>1, <1>2, <3>2, <3>3, <3>4, UnusedIsNew, QueueAppends DEF Opens
    <3> QED BY <3>2, <3>5
  <2>2. CASE CloseTab
    <3>1. UNCHANGED <<unused, asked>>
      BY <2>2 DEF CloseTab
    <3>2. PICK id \in Range(tabs) : queue' = Append(queue, Command("Close", id, 0, 0))
      BY <2>2 DEF CloseTab, Posts
    <3>3. id \in 0..MaxTabs
      <4>1. tabs \in Seq(Ids)
        BY DEF RegistryOK, TabTypes
      <4>2. id \in Ids
        BY <4>1, Listed
      <4> QED BY <4>2, Bounds
    <3> DEFINE c == Command("Close", id, 0, 0)
    <3>4. c \in Commands /\ c.op = "Close"
      BY <3>3, CommandTyped, Bounds
    <3>5. queue' = Append(queue, c)
      BY <3>2
    <3> HIDE DEF c
    <3>6. QueueOK(queue', tabs', unused', private')
      BY <1>1, <1>2, <3>1, <3>4, <3>5, UnusedIsNew, QueueAppends DEF Opens
    <3> QED BY <3>1, <3>6 DEF RegistryOK, HostOK
  <2> QED BY <1>1, <2>1, <2>2
<1>4. TabTypes' /\ TabsOK' /\ StoresOK'
  BY <1>1, <1>2, <1>3, TabsUntouched
<1>5. HostOK'
  BY <1>1, <1>2, <1>3, HostRests, HostValues DEF RegistryOK, HostOK
<1>6. FlagTypes'
  BY <1>1, <1>2 DEF RegistryOK, FlagTypes
<1> QED BY <1>3, <1>4, <1>5, <1>6 DEF RegistryOK

LEMMA RestoreNothingKeeps == ASSUME RegistryOK, RestoreNothing PROVE RegistryOK'
<1>1. /\ host = Idle /\ stage = "up" /\ restored' = TRUE /\ restore' = Empty /\ quiet' = (quiet /\ loaded)
      /\ UNCHANGED <<registryVars, prepared, loaded, nextPrivate, private, ephemeral, store, sessionVars,
                     host, unused, stage, asked, stolen>>
  BY DEF RestoreNothing, HostIdle
<1>2. UNCHANGED <<queue, tabs, active, url, loading, closing, dirty, stopped>>
  BY <1>1 DEF registryVars, sessionVars
<1>3. TabTypes' /\ TabsOK' /\ StoresOK'
  BY <1>1, <1>2, TabsUntouched
<1>4. HostOK'
  BY <1>1, HostRests, HostValues, EmptyIsRestore DEF RegistryOK, HostOK
<1>5. FlagTypes'
  BY <1>1, <1>2 DEF RegistryOK, FlagTypes
<1>6. QueueOK(queue', tabs', unused', private')
  BY <1>1, <1>2 DEF RegistryOK
<1> QED BY <1>3, <1>4, <1>5, <1>6 DEF RegistryOK

LEMMA EntryTyped ==
  ASSUME RegistryOK, NEW i \in 1..Len(Entries)
  PROVE  Entries[i].url \in Addresses /\ Len(Entries) \in 0..MaxTabs
<1>1. Entries \in Seq(EntryValues) /\ Len(Entries) <= MaxTabs
  BY DEF RegistryOK, HostOK, RestoreOK, Restores, EntryValues, Entries
<1>2. Entries[i] \in EntryValues /\ Len(Entries) \in Nat
  BY <1>1
<1> QED BY <1>1, <1>2, Bounds DEF EntryValues

LEMMA AdoptFirstKeeps == ASSUME RegistryOK, AdoptFirst PROVE RegistryOK'
<1>1. /\ host = Idle /\ stage = "up" /\ tabs # <<>> /\ Entries # <<>>
      /\ queue' = Append(queue, Command("Load", tabs[1], Entries[1].url, 0))
      /\ host' = [Idle EXCEPT !.at = "restoring", !.i = 1]
      /\ UNCHANGED <<tabs, active, url, loading, closing, storeVars, sessionVars, unused, stage, restored, ghosts>>
  BY DEF AdoptFirst, HostIdle, Posts
<1>2. UNCHANGED <<prepared, loaded, nextPrivate, private, ephemeral, store, restore, dirty, stopped, asked, stolen, quiet>>
  BY <1>1 DEF storeVars, sessionVars, ghosts
<1>3. TabTypes' /\ TabsOK' /\ StoresOK'
  BY <1>1, <1>2, TabsUntouched
<1>4. 1 \in 1..Len(Entries)
  <2>1. Entries \in Seq(EntryValues)
    BY DEF RegistryOK, HostOK, RestoreOK, Restores, EntryValues, Entries
  <2> QED BY <1>1, <2>1
<1>5. HostOK'
  <2> DEFINE h == [Idle EXCEPT !.at = "restoring", !.i = 1]
  <2>1. h \in Hosts /\ h.at = "restoring" /\ h.i = 1 /\ h.ids = <<>> /\ Len(h.ids) = 0
    <3> HIDE DEF Idle
    <3>1. 1 \in 0..MaxTabs
      BY Bounds
    <3>2. h \in Hosts /\ h.at = "restoring" /\ h.i = 1 /\ h.ids = Idle.ids
      BY <3>1, HostValues DEF Hosts
    <3> QED BY <3>2, HostValues
  <2> HIDE DEF h
  <2>2. host' = h
    BY <1>1 DEF h
  <2>3. Len(h.ids) <= h.i /\ h.i \in 1..Len(restore.entries)
    BY <1>4, <2>1 DEF Entries
  <2>4. HostOK
    BY DEF RegistryOK
  <2> QED BY <1>1, <1>2, <2>1, <2>2, <2>3, <2>4 DEF HostOK
<1>6. FlagTypes'
  BY <1>1, <1>2 DEF RegistryOK, FlagTypes
<1>7. QueueOK(queue', tabs', unused', private')
  <2>1. tabs \in Seq(Ids) /\ Entries[1].url \in Addresses
    BY <1>4, EntryTyped DEF RegistryOK, TabTypes
  <2>2. tabs[1] \in 0..MaxTabs /\ 0 \in -1..MaxTabs
    <3>1. tabs[1] \in Ids
      BY <1>1, <2>1
    <3> QED BY <3>1, Bounds
  <2> DEFINE c == Command("Load", tabs[1], Entries[1].url, 0)
  <2>3. c \in Commands /\ c.op = "Load"
    BY <2>1, <2>2, CommandTyped
  <2> HIDE DEF c
  <2> QED BY <1>1, <1>2, <2>3, UnusedIsNew, QueueAppends DEF c, Opens
<1> QED BY <1>3, <1>5, <1>6, <1>7 DEF RegistryOK

LEMMA RestoreNextKeeps == ASSUME RegistryOK, RestoreNext PROVE RegistryOK'
<1>1. /\ host.at = "restoring" /\ stage = "up" /\ host.i < Len(Entries)
      /\ queue' = Append(queue, Command("OpenAt", unused, Entries[host.i + 1].url, host.i)) /\ Reserves("ordinary")
      /\ host' = [host EXCEPT !.i = host.i + 1]
      /\ UNCHANGED <<tabs, active, url, loading, closing, storeVars, sessionVars, stage, restored, stolen, quiet>>
  BY DEF RestoreNext, Posts
<1>2. UNCHANGED <<prepared, loaded, nextPrivate, private, ephemeral, store, restore, dirty, stopped>>
  BY <1>1 DEF storeVars, sessionVars
<1>3. /\ unused \in Ids /\ unused' = unused + 1 /\ unused' \in 1..(MaxTabs + 1)
      /\ asked' \in [Ids -> {"none", "ordinary", "private"}]
  BY <1>1, AskedTyped DEF RegistryOK
<1>4. TabTypes' /\ TabsOK' /\ StoresOK'
  BY <1>1, <1>2, <1>3, TabsUntouched
<1>5. /\ host \in Hosts /\ host.i \in 1..Len(Entries) /\ host.i + 1 \in 1..Len(Entries) /\ host.ids = <<>>
      /\ Len(Entries) \in 0..MaxTabs /\ Entries[host.i + 1].url \in Addresses /\ Len(host.ids) <= host.i
  <2>1. host \in Hosts /\ host.i \in 1..Len(Entries) /\ host.ids = <<>> /\ Len(host.ids) <= host.i
    BY <1>1 DEF RegistryOK, HostOK, Entries
  <2>2. host.i + 1 \in 1..Len(Entries)
    BY <1>1, <2>1
  <2> QED BY <2>1, <2>2, EntryTyped
<1>6. HostOK'
  <2> DEFINE h == [host EXCEPT !.i = host.i + 1]
  <2>1. h \in Hosts /\ h.at = "restoring" /\ h.i = host.i + 1 /\ h.ids = host.ids
    <3>1. host.i + 1 \in 0..MaxTabs
      BY <1>5, Bounds
    <3> QED BY <1>1, <1>5, <3>1 DEF Hosts
  <2> HIDE DEF h
  <2>2. host' = h
    BY <1>1 DEF h
  <2>3. Len(h.ids) <= h.i
    BY <1>5, <2>1
  <2> QED BY <1>1, <1>2, <1>3, <1>5, <2>1, <2>2, <2>3 DEF RegistryOK, HostOK, Entries
<1>7. FlagTypes'
  BY <1>1, <1>2 DEF RegistryOK, FlagTypes
<1>8. QueueOK(queue', tabs', unused', private')
  <2> DEFINE c == Command("OpenAt", unused, Entries[host.i + 1].url, host.i)
  <2>1. c \in Commands /\ c.op = "OpenAt" /\ c.id = unused
    <3>1. host.i \in -1..MaxTabs /\ "OpenAt" \in Opens
      BY <1>5, Bounds DEF Opens
    <3> QED BY <1>3, <1>5, <3>1, OpenTyped
  <2> HIDE DEF c
  <2> QED BY <1>1, <1>2, <1>3, <2>1, UnusedIsNew, QueueAppends DEF c, Opens
<1> QED BY <1>4, <1>6, <1>7, <1>8 DEF RegistryOK

LEMMA RestoreSelectsKeeps == ASSUME RegistryOK, RestoreSelects PROVE RegistryOK'
<1>1. /\ host.at = "restoring" /\ stage = "up"
      /\ host' = Idle /\ restored' = TRUE /\ restore' = Empty
      /\ UNCHANGED <<tabs, active, url, loading, closing, prepared, loaded, nextPrivate, private, ephemeral, store,
                     sessionVars, unused, stage, asked, stolen, quiet>>
      /\ \/ restore.active \in 0..(Len(Entries) - 1) /\ queue' = Append(queue, Command("SelectIndex", 0, 0, restore.active))
         \/ UNCHANGED queue
  BY DEF RestoreSelects, Posts
<1>2. UNCHANGED <<dirty, stopped>>
  BY <1>1 DEF sessionVars
<1>3. TabTypes' /\ TabsOK' /\ StoresOK'
  BY <1>1, TabsUntouched
<1>4. HostOK'
  BY <1>1, HostRests, HostValues, EmptyIsRestore DEF RegistryOK, HostOK
<1>5. FlagTypes'
  BY <1>1, <1>2 DEF RegistryOK, FlagTypes
<1>6. QueueOK(queue', tabs', unused', private')
  <2>1. CASE restore.active \in 0..(Len(Entries) - 1) /\ queue' = Append(queue, Command("SelectIndex", 0, 0, restore.active))
    <3>1. Entries \in Seq(EntryValues) /\ Len(Entries) <= MaxTabs
      BY DEF RegistryOK, HostOK, RestoreOK, Restores, EntryValues, Entries
    <3>2. restore.active \in 0..MaxTabs
      BY <2>1, <3>1, Bounds
    <3> DEFINE c == Command("SelectIndex", 0, 0, restore.active)
    <3>3. c \in Commands /\ c.op = "SelectIndex" /\ c.at = restore.active
      <4>1. restore.active \in -1..MaxTabs /\ 0 \in 0..MaxTabs /\ 0 \in Addresses
        BY <3>2, Bounds
      <4> QED BY <4>1, CommandTyped
    <3>4. queue' = Append(queue, c)
      BY <2>1
    <3> HIDE DEF c
    <3> QED BY <1>1, <3>2, <3>3, <3>4, UnusedIsNew, QueueAppends DEF Opens
  <2>2. CASE UNCHANGED queue
    BY <1>1, <2>2 DEF RegistryOK
  <2> QED BY <1>1, <2>1, <2>2
<1> QED BY <1>3, <1>4, <1>5, <1>6 DEF RegistryOK

LEMMA TabsAreFew == ASSUME RegistryOK PROVE tabs \in Seq(Ids) /\ Distinct(tabs) /\ Len(tabs) \in 0..MaxTabs
<1>1. tabs \in Seq(1..MaxTabs) /\ Distinct(tabs)
  BY Bounds DEF RegistryOK, TabTypes, TabsOK
<1>2. Len(tabs) \in 0..MaxTabs
  BY <1>1, DistinctIsShort, Bounds
<1> QED BY <1>1, <1>2, Bounds

\* Shutdown is the last command of a process.
LEMMA ShutdownWaits ==
  ASSUME RegistryOK, queue' = Append(queue, Command("Shutdown", 0, 0, 0)), UNCHANGED <<tabs, unused, private>>
  PROVE  QueueOK(queue', tabs', unused', private')
<1> DEFINE c == Command("Shutdown", 0, 0, 0)
<1>1. c \in Commands /\ c.op = "Shutdown"
  BY CommandTyped, Bounds
<1>2. queue' = Append(queue, c)
  OBVIOUS
<1> HIDE DEF c
<1> QED BY <1>1, <1>2, UnusedIsNew, QueueAppends DEF Opens

LEMMA QuitBeginsKeeps == ASSUME RegistryOK, QuitBegins PROVE RegistryOK'
<1>1. /\ host = Idle /\ stage = "up"
      /\ UNCHANGED <<tabs, active, url, loading, closing, storeVars, sessionVars, unused, restored, asked, stolen, quiet>>
      /\ \/ host' = [Idle EXCEPT !.at = "listing", !.n = Len(tabs), !.active = active] /\ UNCHANGED <<stage, queue>>
         \/ stage' = "stopping" /\ queue' = Append(queue, Command("Shutdown", 0, 0, 0)) /\ UNCHANGED host
  BY DEF QuitBegins, HostIdle
<1>2. UNCHANGED <<prepared, loaded, nextPrivate, private, ephemeral, store, restore, dirty, stopped>>
  BY <1>1 DEF storeVars, sessionVars
<1>3. TabTypes' /\ TabsOK' /\ StoresOK'
  BY <1>1, <1>2, TabsUntouched
<1>4. FlagTypes'
  BY <1>1, <1>2 DEF RegistryOK, FlagTypes
<1>5. HostOK /\ active \in 0..MaxTabs
  BY DEF RegistryOK, TabTypes
<1>6. CASE host' = [Idle EXCEPT !.at = "listing", !.n = Len(tabs), !.active = active] /\ UNCHANGED <<stage, queue>>
  <2> DEFINE h == [Idle EXCEPT !.at = "listing", !.n = Len(tabs), !.active = active]
  <2>1. Len(tabs) \in 0..MaxTabs
    BY TabsAreFew
  <2>2. h \in Hosts /\ h.at = "listing" /\ h.i = 0 /\ h.n = Len(tabs) /\ h.ids = Idle.ids
    <3> HIDE DEF Idle
    <3> QED BY <1>5, <2>1, HostValues DEF Hosts
  <2>3. host' = h
    BY <1>6
  <2> HIDE DEF h
  <2>4. Len(h.ids) <= h.i /\ h.i <= h.n
    BY <2>1, <2>2, HostValues
  <2>5. HostOK'
    BY <1>1, <1>2, <1>5, <1>6, <2>2, <2>3, <2>4 DEF HostOK
  <2>6. QueueOK(queue', tabs', unused', private')
    BY <1>1, <1>2, <1>6 DEF RegistryOK
  <2> QED BY <1>3, <1>4, <2>5, <2>6 DEF RegistryOK
<1>7. CASE stage' = "stopping" /\ queue' = Append(queue, Command("Shutdown", 0, 0, 0)) /\ UNCHANGED host
  <2>1. HostOK'
    BY <1>1, <1>2, <1>5, <1>7 DEF HostOK
  <2>2. QueueOK(queue', tabs', unused', private')
    BY <1>1, <1>2, <1>7, ShutdownWaits
  <2> QED BY <1>3, <1>4, <2>1, <2>2 DEF RegistryOK
<1> QED BY <1>1, <1>6, <1>7

LEMMA QuitListsKeeps ==
  ASSUME RegistryOK, QuitLists
  PROVE  /\ RegistryOK'
         /\ host.i + 1 \in 1..host.n /\ host'.i = host.i + 1 /\ host'.n = host.n /\ host'.at = "listing"
         /\ host'.active = host.active
         /\ host.i < Len(tabs) => host'.ids = IF tabs[host.i + 1] \in private THEN host.ids
                                              ELSE Append(host.ids, tabs[host.i + 1])
<1> DEFINE id == IF host.i < Len(tabs) THEN tabs[host.i + 1] ELSE 0
           ids == IF id = 0 \/ id \in private THEN host.ids ELSE Append(host.ids, id)
           h == [host EXCEPT !.i = host.i + 1, !.ids = ids]
<1>1. /\ host.at = "listing" /\ stage = "up" /\ host.i < host.n
      /\ host' = h
      /\ UNCHANGED <<registryVars, storeVars, sessionVars, unused, stage, restored, ghosts>>
  BY DEF QuitLists
<1>2. UNCHANGED <<queue, tabs, active, url, loading, closing, prepared, loaded, nextPrivate, private, ephemeral, store,
                  restore, dirty, stopped, asked, stolen, quiet>>
  BY <1>1 DEF registryVars, storeVars, sessionVars, ghosts
<1>3. TabTypes' /\ TabsOK' /\ StoresOK'
  BY <1>1, <1>2, TabsUntouched
<1>4. FlagTypes'
  BY <1>1, <1>2 DEF RegistryOK, FlagTypes
<1>5. /\ HostOK /\ host \in Hosts /\ host.ids \in Seq(Ids) /\ Len(host.ids) <= host.i
      /\ host.i \in 0..MaxTabs /\ host.n \in 0..MaxTabs
  BY DEF RegistryOK, HostOK, Hosts
<1>6. id = 0 \/ id \in Ids
  BY <1>5, TabsAreFew
<1>7. /\ host.i < Len(tabs) => id = tabs[host.i + 1] /\ id # 0
  BY <1>5, <1>6, TabsAreFew, Bounds
<1> HIDE DEF id
<1>8. ids \in Seq(Ids) /\ Len(ids) <= host.i + 1
  <2>1. CASE id = 0 \/ id \in private
    BY <1>5, <2>1
  <2>2. CASE ~(id = 0 \/ id \in private)
    <3>1. Append(host.ids, id) \in Seq(Ids) /\ Len(Append(host.ids, id)) = Len(host.ids) + 1
      BY <1>5, <1>6, <2>2
    <3> QED BY <1>5, <2>2, <3>1
  <2> QED BY <2>1, <2>2
<1>9. host.i < Len(tabs) => ids = IF tabs[host.i + 1] \in private THEN host.ids ELSE Append(host.ids, tabs[host.i + 1])
  BY <1>7
<1> HIDE DEF ids
<1>10. host.i + 1 \in 1..host.n /\ host.i + 1 \in 0..MaxTabs
  BY <1>1, <1>5, Bounds
<1>11. h \in Hosts /\ h.at = "listing" /\ h.i = host.i + 1 /\ h.n = host.n /\ h.ids = ids /\ h.active = host.active
  BY <1>1, <1>5, <1>8, <1>10 DEF Hosts
<1> HIDE DEF h
<1>12. HostOK'
  BY <1>1, <1>2, <1>5, <1>8, <1>10, <1>11 DEF HostOK
<1>13. QueueOK(queue', tabs', unused', private')
  BY <1>1, <1>2 DEF RegistryOK
<1> QED BY <1>1, <1>3, <1>4, <1>9, <1>10, <1>11, <1>12, <1>13 DEF RegistryOK

LEMMA QuitEndsKeep ==
  ASSUME RegistryOK, QuitWrites \/ QuitStops \/ QuitJoins
  PROVE  /\ RegistryOK'
         /\ QuitStops => host.at = "saved" /\ host'.at = "joining"
<1>1. /\ UNCHANGED <<tabs, active, url, loading, closing, loaded, nextPrivate, private, ephemeral, store, restore, dirty,
                     unused, restored, asked, stolen, quiet>>
      /\ prepared' = prepared \/ prepared' = FALSE
      /\ stopped' = stopped \/ stopped' = TRUE
      /\ stage = "up"
      /\ \/ UNCHANGED <<queue, stage>> /\ host' = [Idle EXCEPT !.at = "saved"]
         \/ UNCHANGED <<queue, stage>> /\ host.at = "saved" /\ host' = [host EXCEPT !.at = "joining"]
         \/ queue' = Append(queue, Command("Shutdown", 0, 0, 0)) /\ stage' = "stopping" /\ host' = Idle
  <2>1. CASE QuitWrites
    BY <2>1 DEF QuitWrites, registryVars, storeVars, ghosts
  <2>2. CASE QuitStops
    BY <2>2 DEF QuitStops, registryVars, ghosts
  <2>3. CASE QuitJoins
    BY <2>3 DEF QuitJoins, storeVars, sessionVars, ghosts
  <2> QED BY <2>1, <2>2, <2>3
<1>2. TabTypes' /\ TabsOK' /\ StoresOK'
  BY <1>1, TabsUntouched DEF RegistryOK, FlagTypes
<1>3. FlagTypes'
  BY <1>1 DEF RegistryOK, FlagTypes
<1>4. HostOK
  BY DEF RegistryOK
<1>5. host.at = "saved" => [host EXCEPT !.at = "joining"] = [Idle EXCEPT !.at = "joining"]
  <2> SUFFICES ASSUME host.at = "saved" PROVE [host EXCEPT !.at = "joining"] = [Idle EXCEPT !.at = "joining"]
    OBVIOUS
  <2>1. host = [Idle EXCEPT !.at = "saved"]
    BY <1>4 DEF HostOK
  <2> QED BY <2>1 DEF Idle
<1>6. \E a \in {"idle", "saved", "joining"} : host' = [Idle EXCEPT !.at = a] /\ (stage' = "up" \/ a = "idle")
  BY <1>1, <1>5, HostValues
<1>7. HostOK'
  BY <1>1, <1>4, <1>6, HostRests DEF HostOK
<1>8. QueueOK(queue', tabs', unused', private')
  <2>1. CASE UNCHANGED queue
    BY <1>1, <2>1 DEF RegistryOK
  <2>2. CASE queue' = Append(queue, Command("Shutdown", 0, 0, 0))
    BY <1>1, <2>2, ShutdownWaits
  <2> QED BY <1>1, <2>1, <2>2
<1>9. QuitStops => host.at = "saved" /\ host'.at = "joining"
  <2> SUFFICES ASSUME QuitStops PROVE host.at = "saved" /\ host'.at = "joining"
    OBVIOUS
  <2>1. host.at = "saved" /\ host' = [host EXCEPT !.at = "joining"]
    BY DEF QuitStops
  <2> QED BY <1>5, <2>1, HostValues
<1> QED BY <1>2, <1>3, <1>7, <1>8, <1>9 DEF RegistryOK

\* The pump and the worker leave the registry alone.
LEMMA WritersKeep == ASSUME RegistryOK, PumpEncodes \/ PumpSubmits \/ WorkerWrites PROVE RegistryOK'
<1>1. /\ UNCHANGED <<queue, tabs, active, url, loading, closing, prepared, loaded, nextPrivate, private, ephemeral, store,
                     restore, stopped, host, unused, stage, restored, asked, stolen, quiet>>
      /\ dirty' \in {dirty, FALSE}
  <2>1. CASE PumpEncodes
    BY <2>1 DEF PumpEncodes, registryVars, storeVars, hostVars, ghosts
  <2>2. CASE PumpSubmits
    BY <2>2 DEF PumpSubmits, registryVars, storeVars, hostVars
  <2>3. CASE WorkerWrites
    BY <2>3 DEF WorkerWrites, registryVars, storeVars, hostVars, ghosts
  <2> QED BY <2>1, <2>2, <2>3
<1>2. TabTypes' /\ TabsOK' /\ StoresOK'
  BY <1>1, TabsUntouched
<1>3. FlagTypes'
  BY <1>1 DEF RegistryOK, FlagTypes
<1>4. HostOK' /\ QueueOK(queue', tabs', unused', private')
  BY <1>1 DEF RegistryOK, HostOK
<1> QED BY <1>2, <1>3, <1>4 DEF RegistryOK

\* A process that has ended, or has just begun.
Fresh ==
  /\ queue = <<FirstTab>> /\ tabs = <<>> /\ active = 0 /\ url = [id \in Ids |-> 0] /\ loading = {} /\ closing = 0
  /\ prepared = FALSE /\ loaded = FALSE /\ nextPrivate = FALSE /\ private = {} /\ ephemeral = 0
  /\ store = [id \in Ids |-> None] /\ restore = Empty /\ dirty = TRUE /\ stopped = FALSE
  /\ host = Idle /\ unused = 2 /\ restored = FALSE /\ stage \in {"up", "down"}
  /\ asked = [id \in Ids |-> IF id = 1 THEN "ordinary" ELSE "none"] /\ stolen = FALSE /\ quiet = TRUE

LEMMA FreshIsConsistent == Fresh => RegistryOK
<1> SUFFICES ASSUME Fresh PROVE RegistryOK
  OBVIOUS
<1> USE DEF Fresh
<1>1. 2 \in 1..(MaxTabs + 1) /\ -2 \in -2..MaxTabs /\ -1 \in -1..MaxTabs /\ 0 \in 0..MaxTabs /\ 0 \in Addresses
  BY Bounds
<1> DEFINE none == <<>>
<1>2. none \in Seq(Ids) /\ Len(none) = 0
  OBVIOUS
<1>3. Range(tabs) = {}
  BY EmptyRange
<1>4. Open = {}
  BY <1>3 DEF Open
<1>5. tabs = none
  OBVIOUS
<1> HIDE DEF none
<1>6. TabTypes
  BY <1>1, <1>2, <1>5 DEF TabTypes, None
<1>7. FlagTypes
  BY DEF FlagTypes
<1>8. HostOK
  <2>1. asked \in [Ids -> {"none", "ordinary", "private"}]
    OBVIOUS
  <2>2. host \in Hosts /\ host.at = "idle" /\ Len(host.ids) = 0 /\ host.i = 0 /\ host = [Idle EXCEPT !.at = host.at]
    BY HostValues
  <2>3. RestoreOK(restore)
    BY EmptyIsRestore
  <2>4. host = Idle /\ stage \in {"up", "stopping", "down"} /\ unused \in 1..(MaxTabs + 1)
    BY <1>1
  <2> QED BY <2>1, <2>2, <2>3, <2>4 DEF HostOK
<1>9. TabsOK
  BY <1>2, <1>3, <1>5 DEF TabsOK, Distinct
<1>10. StoresOK
  BY <1>4 DEF StoresOK
<1>11. QueueOK(queue, tabs, unused, private)
  BY FirstTabWaits
<1> QED BY <1>6, <1>7, <1>8, <1>9, <1>10, <1>11 DEF RegistryOK

LEMMA EndsAfresh == ASSUME Ends PROVE Fresh' /\ RegistryOK'
<1>1. Fresh'
  BY DEF Ends, Fresh
<1>2. Fresh' => RegistryOK'
  BY FreshIsConsistent, PTL
<1> QED BY <1>1, <1>2

LEMMA RestartKeeps == ASSUME RegistryOK, Restart PROVE RegistryOK'
<1>1. /\ stage' = "up" /\ stage = "down"
      /\ UNCHANGED <<queue, tabs, active, url, loading, closing, prepared, loaded, nextPrivate, private, ephemeral, store,
                     restore, dirty, stopped, host, unused, restored, asked, stolen, quiet>>
  BY DEF Restart, registryVars, storeVars, sessionVars
<1>2. TabTypes' /\ TabsOK' /\ StoresOK'
  BY <1>1, TabsUntouched
<1>3. FlagTypes'
  BY <1>1 DEF RegistryOK, FlagTypes
<1>4. HostOK' /\ QueueOK(queue', tabs', unused', private')
  BY <1>1 DEF RegistryOK, HostOK
<1> QED BY <1>2, <1>3, <1>4 DEF RegistryOK

-----------------------------------------------------------------------------
(* The registry: the steps of the WebKit thread.                           *)

\* What the profile does to the tab a page is made for, and to nothing else.
LEMMA AppliesTo ==
  ASSUME RegistryOK, SessionsOK, NEW id \in Ids, id \notin private, NEW opener, opener = 0 \/ opener \in Open,
         Applies(id, opener)
  PROVE  /\ private \subseteq private' /\ private' \subseteq private \cup {id}
         /\ store' \in [Ids -> -1..MaxTabs] /\ \A t : t # id => store'[t] = store[t]
         /\ ephemeral' \in 0..MaxTabs /\ \A t \in private' : store'[t] = ephemeral' /\ ephemeral' > 0
         /\ private' = {} => ephemeral' = 0
         /\ (private' # {} => loaded') /\ (prepared' => loaded') /\ (loaded => loaded')
         /\ prepared' \in BOOLEAN /\ loaded' \in BOOLEAN /\ nextPrivate' \in BOOLEAN /\ stolen' \in BOOLEAN
         /\ store'[id] > 0 => id \in private'
         /\ restore' = (IF loaded \/ ~loaded' THEN restore ELSE Loaded(file)) /\ RestoreOK(restore')
         /\ denied \subseteq denied'
         /\ ~stolen' => /\ ~stolen /\ nextPrivate' = FALSE /\ (opener # 0 => ~nextPrivate)
                        /\ id \in private' => nextPrivate \/ (opener # 0 /\ store[opener] > 0)
                        /\ nextPrivate \/ (opener # 0 /\ store[opener] > 0) => id \in private' \cup denied'
<1>1. /\ private \subseteq Ids /\ ephemeral \in 0..MaxTabs /\ store \in [Ids -> -1..MaxTabs]
      /\ prepared \in BOOLEAN /\ loaded \in BOOLEAN /\ nextPrivate \in BOOLEAN /\ stolen \in BOOLEAN
      /\ RestoreOK(restore) /\ Sound(file)
      /\ \A t \in private : store[t] = ephemeral /\ ephemeral > 0
      /\ private = {} => ephemeral = 0
      /\ private # {} => loaded
      /\ prepared => loaded
      /\ \A t \in Open : store[t] > 0 => t \in private
  BY DEF RegistryOK, TabTypes, FlagTypes, HostOK, StoresOK, SessionsOK
<1>2. RestoreOK(Loaded(file))
  BY <1>1, LoadedIsLeft
<1>3. id \in 1..MaxTabs /\ MaxTabs \in Nat /\ 0 \in -1..MaxTabs
  BY Bounds
<1>4. CASE /\ MayFailToPrepare
           /\ store' = [store EXCEPT ![id] = Persistent]
           /\ stolen' = (stolen \/ nextPrivate)
           /\ UNCHANGED <<prepared, loaded, restore, nextPrivate, private, ephemeral, denied>>
  <2>1. ~loaded /\ private = {}
    BY <1>1, <1>4 DEF MayFailToPrepare
  <2>2. store' \in [Ids -> -1..MaxTabs] /\ store'[id] = 0 /\ \A t : t # id => store'[t] = store[t]
    BY <1>1, <1>3, <1>4 DEF Persistent
  <2>3. opener # 0 => ~(store[opener] > 0)
    BY <1>1, <2>1
  <2>4. ~stolen' => ~stolen /\ ~nextPrivate
    BY <1>4
  <2>5. private' = private /\ ephemeral' = ephemeral /\ loaded' = loaded /\ prepared' = prepared /\ restore' = restore
        /\ nextPrivate' = nextPrivate /\ stolen' \in BOOLEAN /\ denied' = denied
    BY <1>1, <1>4
  <2>6. nextPrivate' \in BOOLEAN /\ (~stolen' => nextPrivate' = FALSE)
    BY <1>1, <2>4, <2>5
  <2> QED BY <1>1, <2>1, <2>2, <2>3, <2>4, <2>5, <2>6
<1>5. CASE /\ Prepares
           /\ nextPrivate' = FALSE
           /\ LET inherited == opener # 0 /\ ephemeral # 0 /\ store[opener] = ephemeral
                  session == IF ephemeral = 0 THEN id ELSE ephemeral
              IN  /\ IF inherited \/ nextPrivate
                     THEN /\ private' = private \cup {id} /\ ephemeral' = session
                          /\ store' = [store EXCEPT ![id] = session]
                     ELSE /\ store' = [store EXCEPT ![id] = Persistent]
                          /\ UNCHANGED <<private, ephemeral>>
                  /\ stolen' = (stolen \/ (opener # 0 /\ nextPrivate))
           /\ UNCHANGED denied
  <2> DEFINE inherited == opener # 0 /\ ephemeral # 0 /\ store[opener] = ephemeral
             session == IF ephemeral = 0 THEN id ELSE ephemeral
  <2>1. prepared' = TRUE /\ loaded' = TRUE /\ restore' = IF loaded THEN restore ELSE Loaded(file)
    BY <1>5 DEF Prepares
  <2>2. inherited <=> opener # 0 /\ store[opener] > 0
    <3>1. CASE opener = 0
      BY <3>1
    <3>2. CASE opener # 0
      <4>1. opener \in Open
        BY <3>2
      <4> QED BY <1>1, <3>2, <4>1
    <3> QED BY <3>1, <3>2
  <2>3. session \in 1..MaxTabs /\ session \in -1..MaxTabs /\ (private # {} => session = ephemeral)
    <3>1. private # {} => ephemeral # 0
      BY <1>1
    <3>2. session \in 1..MaxTabs /\ (private # {} => session = ephemeral)
      BY <1>1, <1>3, <3>1
    <3> HIDE DEF session
    <3> QED BY <1>3, <3>2
  <2>4. stolen' = (stolen \/ (opener # 0 /\ nextPrivate)) /\ stolen' \in BOOLEAN /\ denied' = denied
    BY <1>5
  <2>5. nextPrivate' = FALSE /\ RestoreOK(restore')
    BY <1>1, <1>2, <1>5, <2>1
  <2>6. CASE inherited \/ nextPrivate
    <3>1. private' = private \cup {id} /\ ephemeral' = session /\ store' = [store EXCEPT ![id] = session]
      BY <1>5, <2>6
    <3> HIDE DEF inherited, session
    <3>2. store' \in [Ids -> -1..MaxTabs] /\ store'[id] = session /\ \A t : t # id => store'[t] = store[t]
      BY <1>1, <2>3, <3>1
    <3>3. \A t \in private' : store'[t] = ephemeral' /\ ephemeral' > 0
      BY <1>1, <2>3, <3>1, <3>2
    <3>4. id \in private' /\ private' # {} /\ ephemeral' \in 0..MaxTabs
      BY <2>3, <3>1
    <3>5. nextPrivate \/ (opener # 0 /\ store[opener] > 0)
      BY <2>2, <2>6
    <3>6. ~stolen' => ~stolen /\ (opener # 0 => ~nextPrivate)
      BY <2>4
    <3>7. private \subseteq private' /\ private' \subseteq private \cup {id}
      BY <3>1
    <3>8. id \in private' <=> nextPrivate \/ (opener # 0 /\ store[opener] > 0)
      BY <3>4, <3>5
    <3>9. /\ prepared' \in BOOLEAN /\ loaded' \in BOOLEAN /\ nextPrivate' \in BOOLEAN
          /\ restore' = (IF loaded \/ ~loaded' THEN restore ELSE Loaded(file))
      BY <2>1, <2>5
    <3> QED BY <2>1, <2>4, <2>5, <3>2, <3>3, <3>4, <3>6, <3>7, <3>8, <3>9
  <2>7. CASE ~(inherited \/ nextPrivate)
    <3>1. private' = private /\ ephemeral' = ephemeral /\ store' = [store EXCEPT ![id] = Persistent]
      BY <1>5, <2>7
    <3> HIDE DEF inherited, session
    <3>2. store' \in [Ids -> -1..MaxTabs] /\ store'[id] = 0 /\ \A t : t # id => store'[t] = store[t]
      BY <1>1, <1>3, <3>1 DEF Persistent
    <3>3. \A t \in private' : store'[t] = ephemeral' /\ ephemeral' > 0
      BY <1>1, <3>1, <3>2
    <3>4. id \notin private' /\ ephemeral' \in 0..MaxTabs /\ (private' = {} => ephemeral' = 0)
      BY <1>1, <3>1
    <3>5. ~(nextPrivate \/ (opener # 0 /\ store[opener] > 0))
      BY <2>2, <2>7
    <3>6. ~stolen' => ~stolen /\ (opener # 0 => ~nextPrivate)
      BY <2>4
    <3>7. private \subseteq private' /\ private' \subseteq private \cup {id} /\ (private' # {} => loaded')
      BY <2>1, <3>1
    <3>8. id \in private' <=> nextPrivate \/ (opener # 0 /\ store[opener] > 0)
      BY <3>4, <3>5
    <3>9. /\ prepared' \in BOOLEAN /\ loaded' \in BOOLEAN /\ nextPrivate' \in BOOLEAN
          /\ restore' = (IF loaded \/ ~loaded' THEN restore ELSE Loaded(file))
      BY <2>1, <2>5
    <3>10. ~(store'[id] > 0)
      BY <3>2
    <3> QED BY <2>1, <2>4, <2>5, <3>2, <3>3, <3>4, <3>6, <3>7, <3>8, <3>9, <3>10
  <2> QED BY <2>6, <2>7
<1>6. CASE /\ CanFail /\ Prepares /\ nextPrivate /\ ephemeral = 0
           /\ nextPrivate' = FALSE /\ denied' = denied \cup {id}
           /\ store' = [store EXCEPT ![id] = Persistent]
           /\ stolen' = (stolen \/ opener # 0)
           /\ UNCHANGED <<private, ephemeral>>
  <2>1. prepared' = TRUE /\ loaded' = TRUE /\ restore' = IF loaded THEN restore ELSE Loaded(file)
    BY <1>6 DEF Prepares
  <2>2. private = {} /\ private' = {} /\ ephemeral' = 0
    BY <1>1, <1>6
  <2>3. store' \in [Ids -> -1..MaxTabs] /\ store'[id] = 0 /\ \A t : t # id => store'[t] = store[t]
    BY <1>1, <1>3, <1>6 DEF Persistent
  <2>4. stolen' = (stolen \/ opener # 0) /\ nextPrivate' = FALSE
    BY <1>6
  <2>5. stolen' \in BOOLEAN /\ (~stolen' => ~stolen /\ opener = 0)
    BY <1>1, <2>4
  <2>6. denied \subseteq denied' /\ id \in denied'
    BY <1>6
  <2>7. RestoreOK(restore') /\ restore' = (IF loaded \/ ~loaded' THEN restore ELSE Loaded(file))
    BY <1>1, <1>2, <2>1
  <2>8. ephemeral' \in 0..MaxTabs /\ ~(store'[id] > 0)
    BY <1>3, <2>2, <2>3
  <2>9. prepared' \in BOOLEAN /\ loaded' \in BOOLEAN /\ nextPrivate' \in BOOLEAN
    BY <2>1, <2>4
  <2> QED BY <2>1, <2>2, <2>3, <2>4, <2>5, <2>6, <2>7, <2>8, <2>9
<1> QED BY <1>4, <1>5, <1>6 DEF Applies

\* A tab that is created, at any position, with no tab pinned.
LEMMA PlacedAt ==
  ASSUME NEW S, NEW list \in Seq(S), NEW id \in S, NEW at \in Int
  PROVE  \E place \in 0..Len(list) : /\ Placed(list, {}, at, id, FALSE) = InsertTab(list, place, id)
                                     /\ (at = Len(list) \/ at = -1) => place = Len(list)
<1> DEFINE k == 0
           none == {}
           place == ClampInsertIndex(list, none, at, FALSE)
<1>1. k \in 0..Len(list) /\ (\A i \in 1..Len(list) : list[i] \in none <=> i <= k) /\ k = 0
  OBVIOUS
<1>2. Placed(list, none, at, id, FALSE) = InsertTab(list, place, id)
  BY DEF Placed
<1> HIDE DEF none
<1>3. PinnedCount(list, none) = 0
  <2>1. PinnedCount(list, none) = k
    <3> HIDE DEF k
    <3> QED BY <1>1, PinnedCountIsBoundary
  <2> QED BY <2>1
<1>4. place \in 0..Len(list)
  <2> HIDE DEF k
  <2> QED BY <1>1, ClampInsertIndexInGroup
<1>5. place = Clamp(at, 0, Len(list))
  BY <1>3 DEF ClampInsertIndex
<1> HIDE DEF place
<1>6. (at = Len(list) \/ at = -1) => place = Len(list)
  <2>1. Len(list) \in Nat
    OBVIOUS
  <2> QED BY <1>5, <2>1 DEF Clamp
<1> QED BY <1>2, <1>4, <1>6 DEF none

LEMMA PlacedTab ==
  ASSUME NEW S, NEW list \in Seq(S), Distinct(list), NEW id \in S, id \notin Range(list), NEW at \in Int
  PROVE  /\ Placed(list, {}, at, id, FALSE) \in Seq(S) /\ Distinct(Placed(list, {}, at, id, FALSE))
         /\ \A x : x \in Range(Placed(list, {}, at, id, FALSE)) <=> x \in Range(list) \/ x = id
<1>1. PICK place \in 0..Len(list) : Placed(list, {}, at, id, FALSE) = InsertTab(list, place, id)
  BY PlacedAt
<1>2. \A i \in 1..Len(list) : list[i] # id
  BY Listed
<1>3. /\ InsertTab(list, place, id) \in Seq(S) /\ Distinct(InsertTab(list, place, id))
      /\ Range(InsertTab(list, place, id)) = Range(list) \cup {id}
  BY <1>1, <1>2, InsertTabProperties, InsertKeepsDistinct, InsertRange
<1> QED BY <1>1, <1>3

\* The tab a page was made for is in the list, or it is not and its id is used up.
LEMMA OpenedKeeps ==
  ASSUME RegistryOK, SessionsOK, NEW id \in Ids, id \notin private, id \notin Range(tabs), id # 0,
         NEW opener, opener = 0 \/ opener \in Open, Applies(id, opener),
         NEW at \in Int, NEW address \in Addresses, NEW front \in BOOLEAN,
         Created(id, at, address, front) \/ NotCreated,
         UNCHANGED <<closing, stopped, host, stage, restored>>,
         unused' >= unused, unused' \in 1..(MaxTabs + 1), id < unused',
         asked' \in [Ids -> {"none", "ordinary", "private"}], quiet' \in BOOLEAN,
         NEW q, queue' = q, QueueOK(q, tabs, unused, private), ~Waiting(q, id)
  PROVE  RegistryOK'
<1>1. /\ private \subseteq private' /\ private' \subseteq private \cup {id}
      /\ store' \in [Ids -> -1..MaxTabs] /\ \A t : t # id => store'[t] = store[t]
      /\ ephemeral' \in 0..MaxTabs /\ \A t \in private' : store'[t] = ephemeral' /\ ephemeral' > 0
      /\ private' = {} => ephemeral' = 0
      /\ (private' # {} => loaded') /\ (prepared' => loaded')
      /\ prepared' \in BOOLEAN /\ loaded' \in BOOLEAN /\ nextPrivate' \in BOOLEAN /\ stolen' \in BOOLEAN
      /\ store'[id] > 0 => id \in private'
      /\ RestoreOK(restore') /\ restore' = (IF loaded \/ ~loaded' THEN restore ELSE Loaded(file)) /\ (loaded => loaded')
  BY AppliesTo
<1>2. /\ tabs \in Seq(Ids) /\ Distinct(tabs) /\ active \in 0..MaxTabs /\ url \in [Ids -> Addresses]
      /\ loading \subseteq Ids /\ closing \in 0..MaxTabs /\ private \subseteq Ids
      /\ \A t \in Range(tabs) : t < unused
      /\ closing # 0 => closing \in Range(tabs)
      /\ dirty \in BOOLEAN /\ stopped \in BOOLEAN /\ restored \in BOOLEAN /\ HostOK /\ unused \in Int
  BY UnusedIsNew DEF RegistryOK, TabTypes, FlagTypes, TabsOK
<1>3. /\ tabs' \in Seq(Ids) /\ Distinct(tabs') /\ Range(tabs) \subseteq Range(tabs') /\ Range(tabs') \subseteq Range(tabs) \cup {id}
      /\ active' \in 0..MaxTabs /\ url' \in [Ids -> Addresses] /\ loading' \subseteq Ids /\ dirty' \in BOOLEAN
  <2>1. CASE Created(id, at, address, front)
    <3>1. /\ tabs' = Placed(tabs, {}, at, id, FALSE) /\ active' \in {id, active}
          /\ url' = [url EXCEPT ![id] = address] /\ loading' = loading \cup {id} /\ dirty' = TRUE
      BY <2>1 DEF Created
    <3>2. tabs' \in Seq(Ids) /\ Distinct(tabs') /\ Range(tabs') = Range(tabs) \cup {id}
      <4>1. tabs \in Seq(Ids) /\ Distinct(tabs) /\ id \in Ids /\ id \notin Range(tabs) /\ at \in Int
        BY <1>2
      <4>2. /\ Placed(tabs, {}, at, id, FALSE) \in Seq(Ids) /\ Distinct(Placed(tabs, {}, at, id, FALSE))
            /\ \A x : x \in Range(Placed(tabs, {}, at, id, FALSE)) <=> x \in Range(tabs) \/ x = id
        BY <4>1, PlacedTab
      <4>3. \A x : x \in Range(tabs') <=> x \in Range(tabs) \/ x = id
        BY <3>1, <4>2
      <4> QED BY <3>1, <4>2, <4>3
    <3> QED BY <1>2, <3>1, <3>2, Bounds
  <2>2. CASE NotCreated
    BY <1>2, <2>2 DEF NotCreated
  <2> QED BY <2>1, <2>2
<1>4. TabTypes'
  BY <1>1, <1>2, <1>3 DEF TabTypes
<1>5. FlagTypes'
  BY <1>1, <1>2, <1>3 DEF FlagTypes
<1>6. \A t \in Range(tabs) : t \in Ids /\ t \in Int
  <2>1. \A t \in Range(tabs) : t \in Ids
    BY <1>2, Listed
  <2> QED BY <2>1, Bounds
<1>7. id \in Int /\ unused' \in Int
  BY Bounds
<1>8. TabsOK'
  <2>1. \A t \in Range(tabs') : t < unused'
    BY <1>2, <1>3, <1>6, <1>7
  <2> QED BY <1>2, <1>3, <2>1 DEF TabsOK
<1>9. id # closing
  BY <1>2
<1>10. StoresOK'
  <2>1. \A t \in private' : t < unused' /\ t # closing'
    <3>1. \A t \in private : t < unused /\ t # closing /\ t \in Int
      BY <1>2, Bounds DEF RegistryOK, StoresOK
    <3> QED BY <1>1, <1>2, <1>7, <1>9, <3>1
  <2>2. \A t \in Open' : store'[t] > 0 => t \in private'
    <3>1. \A t \in Open : store[t] > 0 => t \in private
      BY DEF RegistryOK, StoresOK
    <3>2. \A t \in Open' : t = id \/ (t \in Open /\ t # id)
      BY <1>3 DEF Open
    <3> QED BY <1>1, <3>1, <3>2
  <2> QED BY <1>1, <2>1, <2>2 DEF StoresOK
<1>11. QueueOK(queue', tabs', unused', private')
  <2>1. \A x : Waiting(q, x) => x \notin Range(tabs) /\ x \notin private /\ x # id
    BY DEF QueueOK
  <2> QED BY <1>1, <1>2, <1>3, <1>7, <2>1, QueueStays
<1>12. HostOK'
  <2>1. CASE loaded \/ ~loaded'
    BY <1>1, <1>2, <2>1 DEF HostOK
  <2>2. CASE ~(loaded \/ ~loaded')
    <3>1. host.at # "restoring" \/ restore' = restore
      BY <1>2, <2>2, EmptyIsRestore DEF HostOK
    <3> QED BY <1>1, <1>2, <2>2, <3>1 DEF HostOK
  <2> QED BY <2>1, <2>2
<1> QED BY <1>4, <1>5, <1>8, <1>10, <1>11, <1>12 DEF RegistryOK

\* The command that is run, and the ones that stay.
LEMMA TakesOne ==
  ASSUME RegistryOK, NEW op, Take(op)
  PROVE  /\ closing = 0 /\ queue # <<>> /\ Running /\ queue' = Tail(queue) /\ Head(queue).op = op
         /\ Head(queue) \in Commands /\ Head(queue) = queue[1] /\ Len(queue) >= 1
         /\ QueueOK(queue', tabs, unused, private)
         /\ op = "SelectIndex" => Head(queue).at >= 0
         /\ Len(queue') = Len(queue) - 1 /\ \A i \in 1..Len(queue') : queue'[i] = queue[i + 1]
         /\ op \in Opens => /\ Head(queue).id \in Ids /\ Head(queue).id < unused /\ Head(queue).id \notin Range(tabs)
                            /\ Head(queue).id \notin private /\ ~Waiting(queue', Head(queue).id)
<1>1. closing = 0 /\ queue # <<>> /\ Running /\ queue' = Tail(queue) /\ Head(queue).op = op
  BY DEF Take
<1>2. QueueOK(queue, tabs, unused, private) /\ unused \in Int
  BY UnusedIsNew
<1> QED BY <1>1, <1>2, QueueTakes

LEMMA RunOpenKeeps ==
  ASSUME RegistryOK, SessionsOK, NEW op \in Opens, RunOpen(op)
  PROVE  RegistryOK'
<1> DEFINE c == Head(queue)
<1>1. Take(op) /\ Applies(c.id, 0)
  BY DEF RunOpen
<1>2. /\ Created(c.id, c.at, c.url, op = "Open") \/ NotCreated
      /\ quiet' = quiet \/ quiet' = FALSE
      /\ UNCHANGED <<closing, stopped, host, stage, restored, unused, asked>>
  BY DEF RunOpen, hostVars
<1>3. /\ c \in Commands /\ QueueOK(queue', tabs, unused, private)
      /\ c.id \in Ids /\ c.id < unused /\ c.id \notin Range(tabs) /\ c.id \notin private /\ ~Waiting(queue', c.id)
  BY <1>1, TakesOne
<1>4. c.id # 0 /\ c.at \in Int /\ c.url \in Addresses
  BY <1>3, Bounds DEF Commands
<1>5. /\ unused \in 1..(MaxTabs + 1) /\ unused \in Int /\ asked \in [Ids -> {"none", "ordinary", "private"}]
      /\ quiet \in BOOLEAN
  BY UnusedIsNew DEF RegistryOK, HostOK, FlagTypes
<1> HIDE DEF c
<1> DEFINE front == op = "Open"
           x == c.id
           at == c.at
           address == c.url
           q == queue'
<1>6. front \in BOOLEAN /\ (Created(x, at, address, front) \/ NotCreated) /\ Applies(x, 0)
  BY <1>1, <1>2
<1>7. /\ x \in Ids /\ x \notin private /\ x \notin Range(tabs) /\ x # 0 /\ at \in Int /\ address \in Addresses
      /\ x < unused /\ ~Waiting(q, x) /\ QueueOK(q, tabs, unused, private)
  BY <1>3, <1>4
<1> HIDE DEF front, x, at, address
<1>8. /\ unused' >= unused /\ unused' \in 1..(MaxTabs + 1) /\ x < unused' /\ quiet' \in BOOLEAN
      /\ asked' \in [Ids -> {"none", "ordinary", "private"}]
  <2>1. unused' = unused /\ asked' = asked /\ quiet' \in BOOLEAN
    BY <1>2, <1>5
  <2> QED BY <1>5, <1>7, <2>1
<1> QED BY <1>2, <1>6, <1>7, <1>8, OpenedKeeps

LEMMA PageOpensKeeps ==
  ASSUME RegistryOK, SessionsOK, NEW opener \in Ids, PageOpens(opener)
  PROVE  RegistryOK'
<1>1. /\ opener \in Open /\ unused <= MaxTabs /\ Applies(unused, opener)
      /\ Created(unused, -1, 0, TRUE) \/ NotCreated
      /\ asked' = [asked EXCEPT ![unused] = IF store[opener] > Persistent THEN "private" ELSE "ordinary"]
      /\ unused' = unused + 1 /\ quiet' = FALSE
      /\ UNCHANGED <<queue, closing, stopped, host, stage, restored>>
  BY DEF PageOpens, Open
<1>2. /\ unused \in Int /\ unused \notin Range(tabs) /\ unused \notin private
      /\ QueueOK(queue, tabs, unused, private) /\ ~Waiting(queue, unused)
  BY UnusedIsNew
<1>3. unused \in 1..(MaxTabs + 1) /\ asked \in [Ids -> {"none", "ordinary", "private"}]
  BY DEF RegistryOK, HostOK
<1>4. unused \in Ids /\ unused # 0 /\ unused' \in 1..(MaxTabs + 1) /\ unused' >= unused /\ unused < unused'
  BY <1>1, <1>2, <1>3, Bounds
<1>5. asked' \in [Ids -> {"none", "ordinary", "private"}]
  BY <1>1, <1>3
<1>6. -1 \in Int /\ 0 \in Addresses /\ TRUE \in BOOLEAN
  BY Bounds
<1> DEFINE id == unused
           at == -1
           address == 0
           front == TRUE
           q == queue
<1>7. /\ id \in Ids /\ id \notin private /\ id \notin Range(tabs) /\ id # 0 /\ at \in Int /\ address \in Addresses
      /\ front \in BOOLEAN /\ Applies(id, opener) /\ (Created(id, at, address, front) \/ NotCreated)
      /\ id < unused' /\ ~Waiting(q, id) /\ QueueOK(q, tabs, unused, private) /\ queue' = q
  BY <1>1, <1>2, <1>4, <1>6
<1> HIDE DEF id, at, address, front, q
<1>8. opener = 0 \/ opener \in Open
  BY <1>1
<1>9. /\ UNCHANGED <<closing, stopped, host, stage, restored>> /\ unused' >= unused /\ unused' \in 1..(MaxTabs + 1)
      /\ quiet' \in BOOLEAN
  BY <1>1, <1>4
<1> QED BY <1>5, <1>7, <1>8, <1>9, OpenedKeeps

\* Steps of the WebKit thread that leave the tabs, their stores and the host alone.
LEMMA TabsStay ==
  ASSUME RegistryOK, UNCHANGED <<tabs, closing, prepared, loaded, private, ephemeral, store, restore, stopped, host,
                                 unused, stage, restored, asked, stolen>>,
         active' \in 0..MaxTabs, url' \in [Ids -> Addresses], loading' \subseteq Ids,
         dirty' \in BOOLEAN, nextPrivate' \in BOOLEAN, quiet' \in BOOLEAN,
         QueueOK(queue', tabs, unused, private)
  PROVE  RegistryOK'
<1>1. Open' = Open
  BY DEF Open
<1>2. TabTypes'
  BY DEF RegistryOK, TabTypes
<1>3. FlagTypes'
  BY DEF RegistryOK, FlagTypes
<1>4. HostOK'
  BY DEF RegistryOK, HostOK
<1>5. TabsOK'
  BY DEF RegistryOK, TabsOK
<1>6. StoresOK'
  BY <1>1 DEF RegistryOK, StoresOK
<1>7. QueueOK(queue', tabs', unused', private')
  OBVIOUS
<1> QED BY <1>2, <1>3, <1>4, <1>5, <1>6, <1>7 DEF RegistryOK

LEMMA RunMarkKeeps == ASSUME RegistryOK, RunMark PROVE RegistryOK'
<1>1. /\ Take("Mark") /\ nextPrivate' = TRUE
      /\ UNCHANGED <<tabs, active, url, loading, closing, prepared, loaded, private, ephemeral, store, restore, dirty,
                     stopped, host, unused, stage, restored, asked, stolen, quiet>>
  BY DEF RunMark, sessionVars, hostVars, ghosts
<1>2. QueueOK(queue', tabs, unused, private)
  BY <1>1, TakesOne
<1>3. /\ active \in 0..MaxTabs /\ url \in [Ids -> Addresses] /\ loading \subseteq Ids /\ dirty \in BOOLEAN
      /\ quiet \in BOOLEAN
  BY DEF RegistryOK, TabTypes, FlagTypes
<1> QED BY <1>1, <1>2, <1>3, TabsStay

LEMMA RunLoadKeeps == ASSUME RegistryOK, RunLoad PROVE RegistryOK'
<1> DEFINE c == Head(queue)
<1>1. /\ Take("Load")
      /\ \/ c.id \in Range(tabs) /\ url' = [url EXCEPT ![c.id] = c.url] /\ loading' = loading \cup {c.id} /\ dirty' = TRUE
         \/ UNCHANGED <<url, loading, dirty>>
      /\ UNCHANGED <<tabs, active, closing, prepared, loaded, nextPrivate, private, ephemeral, store, restore,
                     stopped, host, unused, stage, restored, asked, stolen, quiet>>
  BY DEF RunLoad, storeVars, hostVars
<1>2. QueueOK(queue', tabs, unused, private) /\ c \in Commands
  BY <1>1, TakesOne
<1>3. /\ active \in 0..MaxTabs /\ url \in [Ids -> Addresses] /\ loading \subseteq Ids /\ dirty \in BOOLEAN
      /\ quiet \in BOOLEAN /\ nextPrivate \in BOOLEAN /\ tabs \in Seq(Ids)
  BY DEF RegistryOK, TabTypes, FlagTypes
<1>4. c.url \in Addresses /\ (c.id \in Range(tabs) => c.id \in Ids)
  BY <1>2, <1>3, Listed DEF Commands
<1> HIDE DEF c
<1>5. url' \in [Ids -> Addresses] /\ loading' \subseteq Ids /\ dirty' \in BOOLEAN
  BY <1>1, <1>3, <1>4
<1> QED BY <1>1, <1>2, <1>3, <1>5, TabsStay

LEMMA RunSelectIndexKeeps ==
  ASSUME RegistryOK, RunSelectIndex
  PROVE  /\ RegistryOK'
         /\ active' = active \/ active' \in Range(tabs)
<1> DEFINE at == Head(queue).at
<1>1. /\ Take("SelectIndex")
      /\ \/ at < Len(tabs) /\ active' = tabs[at + 1] /\ dirty' = TRUE
         \/ UNCHANGED <<active, dirty>>
      /\ UNCHANGED <<tabs, url, loading, closing, prepared, loaded, nextPrivate, private, ephemeral, store, restore,
                     stopped, host, unused, stage, restored, asked, stolen, quiet>>
  BY DEF RunSelectIndex, storeVars, hostVars
<1>2. QueueOK(queue', tabs, unused, private) /\ at >= 0 /\ at \in Int
  BY <1>1, TakesOne, Bounds DEF Commands
<1>3. /\ active \in 0..MaxTabs /\ url \in [Ids -> Addresses] /\ loading \subseteq Ids /\ dirty \in BOOLEAN
      /\ quiet \in BOOLEAN /\ nextPrivate \in BOOLEAN /\ tabs \in Seq(Ids)
  BY DEF RegistryOK, TabTypes, FlagTypes
<1> HIDE DEF at
<1>4. at < Len(tabs) => at + 1 \in 1..Len(tabs) /\ tabs[at + 1] \in Ids /\ tabs[at + 1] \in Range(tabs)
  <2> SUFFICES ASSUME at < Len(tabs) PROVE at + 1 \in 1..Len(tabs) /\ tabs[at + 1] \in Ids /\ tabs[at + 1] \in Range(tabs)
    OBVIOUS
  <2> DEFINE i == at + 1
  <2>1. i \in 1..Len(tabs)
    BY <1>2, <1>3
  <2> HIDE DEF i
  <2>2. tabs[i] \in Ids /\ tabs[i] \in Range(tabs)
    BY <1>3, <2>1, Listed
  <2> QED BY <2>1, <2>2 DEF i
<1>5. active' \in 0..MaxTabs /\ dirty' \in BOOLEAN /\ (active' = active \/ active' \in Range(tabs))
  BY <1>1, <1>3, <1>4, Bounds
<1> QED BY <1>1, <1>2, <1>3, <1>5, TabsStay

LEMMA PageSettlesKeeps == ASSUME RegistryOK, NEW id \in Ids, PageSettles(id) PROVE RegistryOK'
<1>1. /\ loading' = loading \ {id} /\ dirty' = TRUE
      /\ \/ url' = [url EXCEPT ![id] = IF url[id] = 0 THEN id ELSE url[id]] /\ UNCHANGED quiet
         \/ url' = [url EXCEPT ![id] = 0] /\ quiet' = FALSE
      /\ UNCHANGED <<queue, tabs, active, closing, prepared, loaded, nextPrivate, private, ephemeral, store, restore,
                     stopped, host, unused, stage, restored, asked, stolen>>
  BY DEF PageSettles, storeVars
<1>2. /\ active \in 0..MaxTabs /\ url \in [Ids -> Addresses] /\ loading \subseteq Ids /\ quiet \in BOOLEAN
      /\ nextPrivate \in BOOLEAN /\ QueueOK(queue, tabs, unused, private)
  BY DEF RegistryOK, TabTypes, FlagTypes
<1>3. id \in Addresses /\ url[id] \in Addresses /\ 0 \in Addresses
  BY <1>2, Bounds
<1>4. url' \in [Ids -> Addresses] /\ loading' \subseteq Ids /\ quiet' \in BOOLEAN
  BY <1>1, <1>2, <1>3
<1> QED BY <1>1, <1>2, <1>4, TabsStay

\* The first success reads the session.
LEMMA PumpPreparesKeeps == ASSUME RegistryOK, SessionsOK, PumpPrepares PROVE RegistryOK'
<1>1. /\ prepared' = TRUE /\ loaded' = TRUE /\ restore' = IF loaded THEN restore ELSE Loaded(file)
      /\ UNCHANGED <<queue, tabs, active, url, loading, closing, nextPrivate, private, ephemeral, store, dirty, stopped,
                     host, unused, stage, restored, asked, stolen, quiet>>
  BY DEF PumpPrepares, Prepares, registryVars, sessionVars, hostVars, ghosts
<1>2. Open' = Open
  BY <1>1 DEF Open
<1>3. TabTypes' /\ FlagTypes' /\ TabsOK'
  <2>1. TabTypes'
    BY <1>1 DEF RegistryOK, TabTypes
  <2>2. FlagTypes'
    BY <1>1 DEF RegistryOK, FlagTypes
  <2>3. TabsOK'
    BY <1>1 DEF RegistryOK, TabsOK
  <2> QED BY <2>1, <2>2, <2>3
<1>4. StoresOK' /\ QueueOK(queue', tabs', unused', private')
  BY <1>1, <1>2 DEF RegistryOK, StoresOK
<1>5. Sound(file) /\ HostOK
  BY DEF SessionsOK, RegistryOK
<1>6. RestoreOK(restore')
  BY <1>1, <1>5, LoadedIsLeft DEF HostOK
<1>7. host.at = "restoring" => loaded
  <2> SUFFICES ASSUME host.at = "restoring", ~loaded PROVE FALSE
    OBVIOUS
  <2>1. host.i \in 1..Len(restore.entries) /\ restore = Empty
    BY <1>5 DEF HostOK
  <2>2. Len(restore.entries) = 0
    BY <2>1, EmptyIsRestore
  <2> QED BY <2>1, <2>2
<1>8. HostOK'
  <2>1. host.at = "restoring" => host.ids = <<>> /\ host.i \in 1..Len(restore'.entries)
    BY <1>1, <1>5, <1>7 DEF HostOK
  <2> QED BY <1>1, <1>5, <1>6, <2>1 DEF HostOK
<1> QED BY <1>3, <1>4, <1>8 DEF RegistryOK

\* The tab that closes is forgotten before its page is destroyed.
LEMMA RunCloseKeeps ==
  ASSUME RegistryOK, RunClose
  PROVE  /\ RegistryOK'
         /\ private' \subseteq private /\ \A t \in Range(tabs) : t # closing' => (t \in private' <=> t \in private)
<1> DEFINE id == Head(queue).id
<1>1. /\ Take("Close")
      /\ \/ id \in Range(tabs) /\ closing' = id /\ Forgets({id})
         \/ UNCHANGED <<closing, private, ephemeral>>
      /\ UNCHANGED <<tabs, active, url, loading, prepared, loaded, nextPrivate, store, restore, dirty, stopped, host,
                     unused, stage, restored, asked, stolen, quiet>>
  BY DEF RunClose, sessionVars, hostVars
<1>2. QueueOK(queue', tabs, unused, private) /\ closing = 0
  BY <1>1, TakesOne
<1> HIDE DEF id
<1>3. /\ tabs \in Seq(Ids) /\ active \in 0..MaxTabs /\ url \in [Ids -> Addresses] /\ loading \subseteq Ids
      /\ dirty \in BOOLEAN /\ quiet \in BOOLEAN /\ nextPrivate \in BOOLEAN /\ private \subseteq Ids
      /\ ephemeral \in 0..MaxTabs /\ unused \in Int
  BY UnusedIsNew DEF RegistryOK, TabTypes, FlagTypes
<1>4. CASE UNCHANGED <<closing, private, ephemeral>>
  <2>1. RegistryOK'
    BY <1>1, <1>2, <1>3, <1>4, TabsStay
  <2> QED BY <1>4, <2>1
<1>5. CASE id \in Range(tabs) /\ closing' = id /\ Forgets({id})
  <2>1. id \in Ids /\ id # 0 /\ id \in 0..MaxTabs
    <3>1. id \in Ids
      BY <1>3, <1>5, Listed
    <3> QED BY <3>1, Bounds
  <2>2. private' = private \ {id}
    BY <1>5 DEF Forgets
  <2>3. ephemeral' = IF private \cap {id} # {} /\ private \subseteq {id} THEN 0 ELSE ephemeral
    BY <1>5 DEF Forgets
  <2>4. private \cap {id} # {} /\ private \subseteq {id} => private' = {}
    BY <2>2
  <2>5. private' = {} /\ private # {} => private \cap {id} # {} /\ private \subseteq {id}
    BY <2>2
  <2>6. /\ \A t \in private : store[t] = ephemeral /\ ephemeral > 0 /\ t < unused
        /\ private = {} => ephemeral = 0
        /\ private # {} => loaded
        /\ prepared => loaded
        /\ \A t \in Open : store[t] > 0 => t \in private
    BY DEF RegistryOK, StoresOK
  <2>7. \A t \in private' : store[t] = ephemeral' /\ ephemeral' > 0 /\ t < unused /\ t # closing'
    BY <1>5, <2>2, <2>3, <2>4, <2>6
  <2>8. (private' = {} => ephemeral' = 0) /\ (private' # {} => loaded) /\ ephemeral' \in 0..MaxTabs
    BY <1>3, <2>2, <2>3, <2>5, <2>6, Bounds
  <2>9. \A t \in Open' : t \in Open /\ t # id
    <3>1. 0 \notin Range(tabs)
      <4>1. \A t \in Range(tabs) : t \in Ids
        BY <1>3, Listed
      <4> QED BY <4>1, Bounds
    <3> QED BY <1>1, <1>2, <1>5, <3>1 DEF Open
  <2>10. StoresOK'
    BY <1>1, <2>2, <2>6, <2>7, <2>8, <2>9 DEF StoresOK
  <2>11. TabTypes'
    BY <1>1, <1>3, <1>5, <2>1, <2>2, <2>8 DEF TabTypes, RegistryOK
  <2>12. FlagTypes' /\ HostOK'
    <3>1. FlagTypes'
      BY <1>1 DEF FlagTypes, RegistryOK
    <3>2. HostOK'
      BY <1>1 DEF HostOK, RegistryOK
    <3> QED BY <3>1, <3>2
  <2>13. TabsOK'
    BY <1>1, <1>5 DEF TabsOK, RegistryOK
  <2>14. QueueOK(queue', tabs', unused', private')
    <3>1. \A x : Waiting(queue', x) => x \notin Range(tabs) /\ x \notin private
      BY <1>2 DEF QueueOK
    <3> QED BY <1>1, <1>2, <1>3, <2>2, <3>1, QueueStays
  <2> QED BY <1>1, <1>5, <2>2, <2>10, <2>11, <2>12, <2>13, <2>14 DEF RegistryOK
<1> QED BY <1>1, <1>4, <1>5

LEMMA FinishCloseKeeps ==
  ASSUME RegistryOK, FinishClose
  PROVE  /\ RegistryOK'
         /\ Range(tabs') = Range(tabs) \ {closing} /\ closing' = 0
<1> DEFINE at == IndexOfTab(tabs, closing)
           rest == EraseTab(tabs, at)
<1>1. /\ closing # 0 /\ tabs' = rest /\ closing' = 0 /\ loading' = loading \ {closing} /\ dirty' = TRUE
      /\ active' = IF active # closing THEN active ELSE IF rest = <<>> THEN 0 ELSE Neighbour(rest, at)
      /\ UNCHANGED <<queue, url, prepared, loaded, nextPrivate, private, ephemeral, store, restore, stopped, host,
                     unused, stage, restored, asked, stolen, quiet>>
  BY DEF FinishClose, storeVars, hostVars
<1>2. /\ tabs \in Seq(Ids) /\ Distinct(tabs) /\ closing \in Range(tabs) /\ active \in 0..MaxTabs
      /\ unused \in Int /\ \A t \in Range(tabs) : t < unused
  BY <1>1, UnusedIsNew DEF RegistryOK, TabTypes, TabsOK
<1>3. at \in 0..(Len(tabs) - 1) /\ tabs[at + 1] = closing
  BY <1>2, IndexOfListed
<1> HIDE DEF at
<1>4. rest \in Seq(Ids) /\ Distinct(rest) /\ Range(rest) = Range(tabs) \ {closing}
  BY <1>2, <1>3, EraseTabProperties, EraseKeepsDistinct, EraseRange
<1> HIDE DEF rest
<1>5. active' \in 0..MaxTabs
  <2>1. CASE active # closing
    BY <1>1, <1>2, <2>1
  <2>2. CASE active = closing /\ rest = <<>>
    BY <1>1, <2>2, Bounds
  <2>3. CASE active = closing /\ rest # <<>>
    <3>1. at \in Nat
      BY <1>2, <1>3
    <3>2. Neighbour(rest, at) \in Range(rest)
      BY <1>4, <2>3, <3>1, NeighbourIsListed
    <3>3. Neighbour(rest, at) \in Ids
      BY <1>4, <3>2, Listed
    <3> QED BY <1>1, <2>3, <3>3, Bounds
  <2> QED BY <2>1, <2>2, <2>3
<1>6. Range(tabs') = Range(tabs) \ {closing} /\ Open' = Open
  <2>1. 0 \notin Range(tabs)
    BY <1>2, Listed, Bounds
  <2> QED BY <1>1, <1>4, <2>1 DEF Open
<1>7. TabTypes'
  <2>1. /\ url \in [Ids -> Addresses] /\ loading \subseteq Ids /\ private \subseteq Ids /\ ephemeral \in 0..MaxTabs
        /\ store \in [Ids -> -1..MaxTabs]
    BY DEF TabTypes, RegistryOK
  <2>2. tabs' = rest /\ closing' = 0 /\ loading' = loading \ {closing}
    BY <1>1
  <2>3. 0 \in 0..MaxTabs
    BY Bounds
  <2>4. tabs' \in Seq(Ids)
    BY <1>4, <2>2
  <2>5. closing' \in 0..MaxTabs
    BY <2>2, <2>3
  <2>6. loading' \subseteq Ids
    BY <2>1, <2>2
  <2> QED BY <1>1, <1>5, <2>1, <2>4, <2>5, <2>6 DEF TabTypes
<1>8. FlagTypes' /\ HostOK'
  <2>1. FlagTypes'
    BY <1>1 DEF FlagTypes, RegistryOK
  <2>2. HostOK'
    BY <1>1 DEF HostOK, RegistryOK
  <2> QED BY <2>1, <2>2
<1>9. TabsOK'
  BY <1>1, <1>2, <1>4, <1>6 DEF TabsOK
<1>10. StoresOK'
  <2>1. \A t \in private : t # 0
    BY Bounds DEF RegistryOK, TabTypes
  <2> QED BY <1>1, <1>6, <2>1 DEF StoresOK, RegistryOK
<1>11. QueueOK(queue', tabs', unused', private')
  <2>1. QueueOK(queue, tabs, unused, private) /\ \A x : Waiting(queue, x) => x \notin Range(tabs) /\ x \notin private
    BY DEF RegistryOK, QueueOK
  <2> QED BY <1>1, <1>2, <1>6, <2>1, QueueStays
<1> QED BY <1>1, <1>6, <1>7, <1>8, <1>9, <1>10, <1>11 DEF RegistryOK

-----------------------------------------------------------------------------
(* The mark.                                                               *)

\* A command that is run takes its mark with it, or leaves it to the next.
LEMMA MarksTaken ==
  ASSUME RegistryOK, MarksOK, NEW op, Take(op), UNCHANGED <<asked, host>>, nextPrivate' <=> op = "Mark"
  PROVE  MarksOK'
<1> DEFINE n == Len(queue)
<1>1. /\ queue # <<>> /\ queue[1].op = op /\ n >= 1
      /\ Len(queue') = n - 1 /\ \A i \in 1..Len(queue') : queue'[i] = queue[i + 1]
  BY TakesOne
<1>2. queue \in Seq(Commands) /\ queue' \in Seq(Commands) /\ n \in Nat
  BY TakesOne DEF RegistryOK, QueueOK
<1>3. queue' = <<>> <=> n = 1
  BY <1>1, <1>2
<1>4. /\ \A i \in 1..(n - 1) : queue[i].op = "Mark" => queue[i + 1].op \in Opens
      /\ \A i \in 1..(n - 1) : queue[i + 1].op \in Opens => (asked[queue[i + 1].id] = "private" <=> queue[i].op = "Mark")
      /\ queue[n].op = "Mark" <=> host.at = "marked"
  BY <1>1 DEF MarksOK, Waits
<1>5. \A i \in 1..(n - 2) : i + 1 \in 1..(n - 1) /\ queue'[i] = queue[i + 1] /\ queue'[i + 1] = queue[(i + 1) + 1]
  BY <1>1, <1>2
<1>6. \A i \in 1..(Len(queue') - 1) : queue'[i].op = "Mark" => queue'[i + 1].op \in Opens
  <2>1. ASSUME NEW i \in 1..(Len(queue') - 1) PROVE queue'[i].op = "Mark" => queue'[i + 1].op \in Opens
    <3>1. i \in 1..(n - 2) /\ i + 1 \in 1..(n - 1)
      BY <1>1, <1>2
    <3>2. queue'[i] = queue[i + 1] /\ queue'[i + 1] = queue[(i + 1) + 1]
      BY <1>5, <3>1
    <3> QED BY <1>4, <3>1, <3>2
  <2> QED BY <2>1
<1>7. \A i \in 1..(Len(queue') - 1) :
        queue'[i + 1].op \in Opens => (asked'[queue'[i + 1].id] = "private" <=> queue'[i].op = "Mark")
  <2>1. ASSUME NEW i \in 1..(Len(queue') - 1)
        PROVE  queue'[i + 1].op \in Opens => (asked'[queue'[i + 1].id] = "private" <=> queue'[i].op = "Mark")
    <3>1. i \in 1..(n - 2) /\ i + 1 \in 1..(n - 1)
      BY <1>1, <1>2
    <3>2. queue'[i] = queue[i + 1] /\ queue'[i + 1] = queue[(i + 1) + 1] /\ asked' = asked
      BY <1>5, <3>1
    <3> QED BY <1>4, <3>1, <3>2
  <2> QED BY <2>1
<1>8. queue' # <<>> => 1 \in 1..(n - 1) /\ queue'[1] = queue[2] /\ queue'[n - 1] = queue[n]
  BY <1>1, <1>2, <1>3
<1>9. queue' # <<>> /\ queue'[1].op \in Opens => (asked'[queue'[1].id] = "private" <=> nextPrivate')
  BY <1>1, <1>4, <1>8
<1>10. nextPrivate' /\ queue' # <<>> => queue'[1].op \in Opens
  BY <1>1, <1>4, <1>8
<1>11. queue' = <<>> => (nextPrivate' <=> host'.at = "marked")
  BY <1>1, <1>3, <1>4
<1>12. queue' # <<>> => (queue'[Len(queue')].op = "Mark" <=> host'.at = "marked")
  BY <1>1, <1>4, <1>8
<1> QED BY <1>6, <1>7, <1>9, <1>10, <1>11, <1>12 DEF MarksOK, Waits

\* A command behind the others: a mark, the open it was posted for, or neither.
LEMMA MarksAppended ==
  ASSUME RegistryOK, MarksOK, NEW c \in Commands, queue' = Append(queue, c), nextPrivate' <=> nextPrivate,
         c.op = "Mark" <=> host'.at = "marked", host.at = "marked" => c.op \in Opens,
         c.op \in Opens => (asked'[c.id] = "private" <=> host.at = "marked"),
         \A x : Waiting(queue, x) => asked'[x] = asked[x]
  PROVE  MarksOK'
<1> DEFINE n == Len(queue)
<1>1. queue \in Seq(Commands) /\ n \in Nat
  BY DEF RegistryOK, QueueOK
<1>2. Len(queue') = n + 1 /\ queue'[n + 1] = c /\ queue' # <<>> /\ \A i \in 1..n : queue'[i] = queue[i]
  BY <1>1
<1>3. queue = <<>> <=> n = 0
  BY <1>1
<1>4. /\ \A i \in 1..(n - 1) : queue[i].op = "Mark" => queue[i + 1].op \in Opens
      /\ \A i \in 1..(n - 1) : queue[i + 1].op \in Opens => (asked[queue[i + 1].id] = "private" <=> queue[i].op = "Mark")
  BY DEF MarksOK, Waits
<1>5. \A i \in 1..n : queue[i].op \in Opens => asked'[queue[i].id] = asked[queue[i].id]
  BY DEF Waiting
<1>6. \A i \in 1..(n - 1) : i \in 1..n /\ i + 1 \in 1..n
  BY <1>1
<1>7. \A i \in 1..(n - 1) : /\ queue'[i].op = "Mark" => queue'[i + 1].op \in Opens
                            /\ queue'[i + 1].op \in Opens => (asked'[queue'[i + 1].id] = "private" <=> queue'[i].op = "Mark")
  BY <1>2, <1>4, <1>5, <1>6
<1>8. n # 0 => /\ queue[n].op = "Mark" <=> host.at = "marked"
               /\ queue[1].op \in Opens => (asked[queue[1].id] = "private" <=> nextPrivate)
               /\ nextPrivate => queue[1].op \in Opens
  BY <1>3 DEF MarksOK, Waits
<1>9. n = 0 => (nextPrivate <=> host.at = "marked")
  BY <1>3 DEF MarksOK
<1>10. n # 0 => n \in 1..n /\ 1 \in 1..n
  BY <1>1
<1>11. n # 0 => /\ queue'[n].op = "Mark" => queue'[n + 1].op \in Opens
                /\ queue'[n + 1].op \in Opens => (asked'[queue'[n + 1].id] = "private" <=> queue'[n].op = "Mark")
  BY <1>2, <1>8, <1>10
<1>12. \A i \in 1..n : i \in 1..(n - 1) \/ (n # 0 /\ i = n)
  BY <1>1
<1>13. \A i \in 1..n : /\ queue'[i].op = "Mark" => queue'[i + 1].op \in Opens
                       /\ queue'[i + 1].op \in Opens => (asked'[queue'[i + 1].id] = "private" <=> queue'[i].op = "Mark")
  BY <1>7, <1>11, <1>12
<1>14. /\ queue'[1].op \in Opens => (asked'[queue'[1].id] = "private" <=> nextPrivate')
       /\ nextPrivate' => queue'[1].op \in Opens
  <2>1. CASE n = 0
    BY <1>2, <1>9, <2>1
  <2>2. CASE n # 0
    BY <1>2, <1>5, <1>8, <1>10, <2>2
  <2> QED BY <2>1, <2>2
<1>15. Len(queue') - 1 = n
  BY <1>1, <1>2
<1>16. queue'[Len(queue')].op = "Mark" <=> host'.at = "marked"
  BY <1>2
<1> QED BY <1>2, <1>13, <1>14, <1>15, <1>16 DEF MarksOK, Waits

LEMMA MarksStay ==
  ASSUME MarksOK, queue' = queue, nextPrivate' <=> nextPrivate, host'.at = "marked" <=> host.at = "marked",
         \A x : Waiting(queue, x) => asked'[x] = asked[x]
  PROVE  MarksOK'
<1>1. \A i \in 1..Len(queue) : queue[i].op \in Opens => asked'[queue[i].id] = asked[queue[i].id]
  BY DEF Waiting
<1> QED BY <1>1 DEF MarksOK, Waits

LEMMA AskedStays ==
  ASSUME AskedOK, denied \subseteq denied',
         \A t \in Open' : t \in Open /\ asked'[t] = asked[t] /\ (t \in private' <=> t \in private)
  PROVE  AskedOK'
BY DEF AskedOK

\* An id that is reserved is nobody's yet.
LEMMA ReservedIsNew ==
  ASSUME RegistryOK, NEW kind \in {"none", "ordinary", "private"}, Reserves(kind)
  PROVE  /\ unused \in Ids /\ asked'[unused] = kind
         /\ \A x : Waiting(queue, x) => asked'[x] = asked[x]
         /\ \A t \in Open : asked'[t] = asked[t]
<1>1. unused \in Ids /\ asked'[unused] = kind /\ \A t \in Ids : t # unused => asked'[t] = asked[t]
  BY AskedTyped DEF RegistryOK
<1>2. unused \notin Range(tabs) /\ \A x : Waiting(queue, x) => x # unused /\ x \in Ids
  BY UnusedIsNew DEF QueueOK
<1>3. \A t \in Open : t \in Ids /\ t # unused
  BY <1>2, Listed DEF RegistryOK, TabTypes, Open
<1> QED BY <1>1, <1>2, <1>3

LEMMA MarkAfterRunOpen ==
  ASSUME RegistryOK, SessionsOK, MarkOK, NEW op \in Opens, RunOpen(op)
  PROVE  MarkOK'
<1> SUFFICES ASSUME ~stolen' PROVE MarksOK' /\ AskedOK'
  BY DEF MarkOK
<1> DEFINE id == Head(queue).id
           at == Head(queue).at
           address == Head(queue).url
           front == op = "Open"
           zero == 0
<1>1. /\ Take(op) /\ Applies(id, zero) /\ (Created(id, at, address, front) \/ NotCreated)
      /\ UNCHANGED <<asked, host, closing>>
  BY DEF RunOpen, hostVars
<1>2. /\ queue # <<>> /\ queue[1].op = op /\ queue[1].id = id
      /\ id \in Ids /\ id \notin Range(tabs) /\ id \notin private /\ at \in Int
  BY <1>1, TakesOne, Bounds DEF Commands
<1> HIDE DEF id, at, address, front
<1>3. zero = 0 \/ zero \in Open
  OBVIOUS
<1>4. /\ private \subseteq private' /\ private' \subseteq private \cup {id}
      /\ ~stolen /\ nextPrivate' = FALSE
      /\ id \in private' => nextPrivate \/ (zero # 0 /\ store[zero] > 0)
      /\ nextPrivate => id \in private' \cup denied'
      /\ denied \subseteq denied'
  <2> HIDE DEF zero
  <2> QED BY <1>1, <1>2, <1>3, AppliesTo
<1>5. (id \in private' => nextPrivate) /\ (nextPrivate => id \in private' \cup denied')
  BY <1>4
<1>6. MarksOK /\ AskedOK
  BY <1>4 DEF MarkOK
<1>7. MarksOK'
  <2>1. op # "Mark"
    BY DEF Opens
  <2> QED BY <1>1, <1>4, <1>6, <2>1, MarksTaken
<1>8. asked[id] = "private" <=> nextPrivate
  BY <1>2, <1>6 DEF MarksOK, Waits
<1>9. \A t \in Range(tabs') : t \in Range(tabs) \/ t = id
  <2>1. CASE Created(id, at, address, front)
    <3>1. tabs \in Seq(Ids) /\ Distinct(tabs) /\ tabs' = Placed(tabs, {}, at, id, FALSE)
      BY <2>1 DEF Created, RegistryOK, TabTypes, TabsOK
    <3>2. id \in Ids /\ id \notin Range(tabs) /\ at \in Int /\ tabs \in Seq(Ids) /\ Distinct(tabs)
      BY <1>2, <3>1
    <3>3. \A x : x \in Range(Placed(tabs, {}, at, id, FALSE)) <=> x \in Range(tabs) \/ x = id
      BY <3>2, PlacedTab
    <3> QED BY <3>1, <3>3
  <2>2. CASE NotCreated
    BY <2>2 DEF NotCreated
  <2> QED BY <1>1, <2>1, <2>2
<1>10. AskedOK'
  <2>1. ASSUME NEW t \in Open'
        PROVE  /\ t \in private' => asked'[t] = "private"
               /\ asked'[t] = "private" => t \in private' \cup denied'
    <3>1. CASE t = id
      BY <1>1, <1>5, <1>8, <3>1
    <3>2. CASE t # id
      <4>1. t \in Open
        BY <1>1, <1>9, <3>2 DEF Open
      <4> QED BY <1>1, <1>4, <1>6, <3>2, <4>1 DEF AskedOK
    <3> QED BY <3>1, <3>2
  <2> QED BY <2>1 DEF AskedOK
<1> QED BY <1>7, <1>10

LEMMA MarkAfterPageOpens ==
  ASSUME RegistryOK, SessionsOK, MarkOK, NEW opener \in Ids, PageOpens(opener)
  PROVE  MarkOK'
<1> SUFFICES ASSUME ~stolen' PROVE MarksOK' /\ AskedOK'
  BY DEF MarkOK
<1> DEFINE id == unused
           at == -1
<1>1. /\ opener \in Open /\ id <= MaxTabs /\ Applies(id, opener) /\ (Created(id, at, 0, TRUE) \/ NotCreated)
      /\ asked' = [asked EXCEPT ![id] = IF store[opener] > Persistent THEN "private" ELSE "ordinary"]
      /\ UNCHANGED <<queue, closing, host>>
  BY DEF PageOpens, Open
<1>2. id \in Ids /\ id \notin Range(tabs) /\ id \notin private /\ at \in Int /\ \A x : Waiting(queue, x) => x # id /\ x \in Ids
  BY <1>1, UnusedIsNew, Bounds DEF RegistryOK, HostOK, QueueOK
<1>3. asked \in [Ids -> {"none", "ordinary", "private"}] /\ opener # 0 /\ tabs \in Seq(Ids) /\ Distinct(tabs)
  BY Bounds DEF RegistryOK, HostOK, TabTypes, TabsOK
<1> HIDE DEF id, at
<1>4. /\ private \subseteq private' /\ private' \subseteq private \cup {id}
      /\ ~stolen /\ nextPrivate' = FALSE /\ (opener # 0 => ~nextPrivate)
      /\ id \in private' => nextPrivate \/ (opener # 0 /\ store[opener] > 0)
      /\ nextPrivate \/ (opener # 0 /\ store[opener] > 0) => id \in private' \cup denied'
      /\ denied \subseteq denied'
  <2>1. id \in Ids /\ id \notin private /\ opener \in Open /\ Applies(id, opener) /\ ~stolen'
    BY <1>1, <1>2
  <2>2. private \subseteq private' /\ private' \subseteq private \cup {id} /\ denied \subseteq denied'
    BY <2>1, AppliesTo
  <2>3. ~stolen /\ nextPrivate' = FALSE /\ (opener # 0 => ~nextPrivate)
    <3>1. ~stolen' => /\ ~stolen /\ nextPrivate' = FALSE /\ (opener # 0 => ~nextPrivate)
                      /\ id \in private' => nextPrivate \/ (opener # 0 /\ store[opener] > 0)
                      /\ nextPrivate \/ (opener # 0 /\ store[opener] > 0) => id \in private' \cup denied'
      BY <2>1, AppliesTo
    <3> QED BY <2>1, <3>1
  <2>4. id \in private' => nextPrivate \/ (opener # 0 /\ store[opener] > 0)
    BY <2>1, AppliesTo
  <2>5. nextPrivate \/ (opener # 0 /\ store[opener] > 0) => id \in private' \cup denied'
    BY <2>1, AppliesTo
  <2> QED BY <2>2, <2>3, <2>4, <2>5
<1>5. /\ id \in private' => store[opener] > 0
      /\ store[opener] > 0 => id \in private' \cup denied'
      /\ nextPrivate = FALSE
  <2>1. nextPrivate \in BOOLEAN
    BY DEF RegistryOK, FlagTypes
  <2> QED BY <1>3, <1>4, <2>1
<1>6. MarksOK /\ AskedOK
  BY <1>4 DEF MarkOK
<1>7. /\ asked'[id] = "private" <=> store[opener] > 0
      /\ \A t \in Ids : t # id => asked'[t] = asked[t]
  BY <1>1, <1>2, <1>3 DEF Persistent
<1>8. MarksOK'
  BY <1>1, <1>2, <1>4, <1>5, <1>6, <1>7, MarksStay
<1>9. \A t \in Range(tabs') : t \in Range(tabs) \/ t = id
  <2>1. CASE Created(id, at, 0, TRUE)
    <3>1. tabs' = Placed(tabs, {}, at, id, FALSE)
      BY <2>1 DEF Created
    <3> QED BY <1>2, <1>3, <3>1, PlacedTab
  <2>2. CASE NotCreated
    BY <2>2 DEF NotCreated
  <2> QED BY <1>1, <2>1, <2>2
<1>10. AskedOK'
  <2>1. ASSUME NEW t \in Open'
        PROVE  /\ t \in private' => asked'[t] = "private"
               /\ asked'[t] = "private" => t \in private' \cup denied'
    <3>1. CASE t = id
      BY <1>5, <1>7, <3>1
    <3>2. CASE t # id
      <4>1. t \in Open
        BY <1>1, <1>9, <3>2 DEF Open
      <4>2. t \in Ids
        BY <1>3, <4>1, Listed DEF Open
      <4> QED BY <1>4, <1>6, <1>7, <3>2, <4>1, <4>2 DEF AskedOK
    <3> QED BY <3>1, <3>2
  <2> QED BY <2>1 DEF AskedOK
<1> QED BY <1>8, <1>10

LEMMA MarkAfterRuns ==
  ASSUME RegistryOK, MarkOK, RunMark \/ RunLoad \/ RunSelectIndex \/ RunClose
  PROVE  MarkOK'
<1> SUFFICES ASSUME ~stolen' PROVE MarksOK' /\ AskedOK'
  BY DEF MarkOK
<1>1. /\ UNCHANGED <<tabs, asked, denied, host, stolen>>
      /\ \E op : op \notin Opens /\ Take(op) /\ (IF op = "Mark" THEN nextPrivate' = TRUE ELSE UNCHANGED nextPrivate)
      /\ \A t \in Open' : t \in Open /\ (t \in private' <=> t \in private)
  <2>1. CASE RunMark \/ RunLoad \/ RunSelectIndex
    <3>1. /\ UNCHANGED <<tabs, closing, private, asked, denied, host, stolen>>
          /\ \E op : op \notin Opens /\ Take(op) /\ (IF op = "Mark" THEN nextPrivate' = TRUE ELSE UNCHANGED nextPrivate)
      <4>1. CASE RunMark
        BY <4>1 DEF RunMark, hostVars, ghosts, Opens
      <4>2. CASE RunLoad
        BY <4>2 DEF RunLoad, hostVars, storeVars, Opens
      <4>3. CASE RunSelectIndex
        BY <4>3 DEF RunSelectIndex, hostVars, storeVars, Opens
      <4> QED BY <2>1, <4>1, <4>2, <4>3
    <3> QED BY <3>1 DEF Open
  <2>2. CASE RunClose
    <3>1. /\ UNCHANGED <<tabs, asked, denied, host, stolen, nextPrivate>> /\ Take("Close")
          /\ closing' = Head(queue).id \/ closing' = closing
      BY <2>2 DEF RunClose, hostVars
    <3>2. \A t \in Range(tabs) : t # closing' => (t \in private' <=> t \in private)
      BY <2>2, RunCloseKeeps
    <3>3. closing = 0 /\ \A t \in Range(tabs) : t # 0
      <4>1. tabs \in Seq(Ids)
        BY DEF RegistryOK, TabTypes
      <4>2. \A t \in Range(tabs) : t # 0
        BY <4>1, Listed, Bounds
      <4> QED BY <3>1, <4>2, TakesOne
    <3> QED BY <3>1, <3>2, <3>3 DEF Open, Opens
  <2> QED BY <2>1, <2>2
<1>2. MarksOK /\ AskedOK
  BY <1>1 DEF MarkOK
<1>3. AskedOK'
  BY <1>1, <1>2, AskedStays
<1>4. PICK op : op \notin Opens /\ Take(op) /\ (IF op = "Mark" THEN nextPrivate' = TRUE ELSE UNCHANGED nextPrivate)
  BY <1>1
<1>5. nextPrivate' <=> op = "Mark"
  <2>1. queue # <<>> /\ queue[1].op = op
    BY <1>4, TakesOne
  <2>2. ~nextPrivate
    BY <1>2, <1>4, <2>1 DEF MarksOK, Waits
  <2>3. CASE op = "Mark"
    BY <1>4, <2>3
  <2>4. CASE op # "Mark"
    BY <1>4, <2>2, <2>4
  <2> QED BY <2>3, <2>4
<1>6. MarksOK'
  BY <1>1, <1>2, <1>4, <1>5, MarksTaken
<1> QED BY <1>3, <1>6

\* Everything else that does not reserve an id nor post a command.
LEMMA MarkStays ==
  ASSUME RegistryOK, MarkOK, UNCHANGED <<queue, nextPrivate, private, asked, denied, stolen>>,
         host'.at = "marked" <=> host.at = "marked", \A t \in Open' : t \in Open
  PROVE  MarkOK'
<1> SUFFICES ASSUME ~stolen' PROVE MarksOK' /\ AskedOK'
  BY DEF MarkOK
<1>1. MarksOK /\ AskedOK
  BY DEF MarkOK
<1> QED BY <1>1, MarksStay, AskedStays

\* A command of the host behind the others.
LEMMA MarkAfterPost ==
  ASSUME RegistryOK, MarkOK, NEW c \in Commands, queue' = Append(queue, c),
         UNCHANGED <<tabs, closing, nextPrivate, private, denied, stolen>>,
         c.op = "Mark" <=> host'.at = "marked", host.at = "marked" => c.op \in Opens,
         \/ c.op \notin Opens /\ asked' = asked
         \/ \E kind \in {"ordinary", "private"} : Reserves(kind) /\ c.id = unused /\ (kind = "private" <=> host.at = "marked")
  PROVE  MarkOK'
<1> SUFFICES ASSUME ~stolen' PROVE MarksOK' /\ AskedOK'
  BY DEF MarkOK
<1>1. MarksOK /\ AskedOK /\ (nextPrivate' <=> nextPrivate)
  BY DEF MarkOK
<1>2. Open' = Open
  BY DEF Open
<1>3. /\ c.op \in Opens => (asked'[c.id] = "private" <=> host.at = "marked")
      /\ \A x : Waiting(queue, x) => asked'[x] = asked[x]
      /\ \A t \in Open : asked'[t] = asked[t]
  <2>1. CASE c.op \notin Opens /\ asked' = asked
    BY <2>1
  <2>2. ASSUME NEW kind \in {"ordinary", "private"}, Reserves(kind), c.id = unused, kind = "private" <=> host.at = "marked"
        PROVE  /\ asked'[c.id] = "private" <=> host.at = "marked"
               /\ \A x : Waiting(queue, x) => asked'[x] = asked[x]
               /\ \A t \in Open : asked'[t] = asked[t]
    BY <2>2, ReservedIsNew
  <2> QED BY <2>1, <2>2
<1>4. AskedOK'
  BY <1>1, <1>2, <1>3, AskedStays
<1> QED BY <1>1, <1>3, <1>4, MarksAppended

\* What the restore posts.
LEMMA RestorePosts ==
  ASSUME RegistryOK
  PROVE  /\ AdoptFirst => \E c \in Commands :
              /\ queue' = Append(queue, c) /\ c.op = "Load" /\ c.id = tabs[1] /\ c.url = Entries[1].url
              /\ host' = [Idle EXCEPT !.at = "restoring", !.i = 1] /\ host'.at = "restoring" /\ host'.i = 1
              /\ 1 \in 1..Len(Entries)
         /\ RestoreNext => \E c \in Commands :
              /\ queue' = Append(queue, c) /\ c.op = "OpenAt" /\ c.id = unused /\ c.url = Entries[host.i + 1].url
              /\ c.at = host.i /\ host'.at = "restoring" /\ host'.i = host.i + 1 /\ host.i + 1 \in 1..Len(Entries)
         /\ RestoreSelects =>
              /\ host' = Idle /\ host'.at = "idle"
              /\ \/ restore.active \notin 0..(Len(Entries) - 1) /\ UNCHANGED queue
                 \/ /\ restore.active \in 0..(Len(Entries) - 1)
                    /\ \E c \in Commands : queue' = Append(queue, c) /\ c.op = "SelectIndex" /\ c.at = restore.active
<1>1. /\ tabs \in Seq(Ids) /\ Entries \in Seq(EntryValues) /\ Len(Entries) \in Nat /\ Len(Entries) <= MaxTabs
      /\ host \in Hosts /\ host.i \in 0..MaxTabs
  BY DEF RegistryOK, TabTypes, HostOK, RestoreOK, Restores, EntryValues, Entries, Hosts
<1>2. ASSUME AdoptFirst
      PROVE  \E c \in Commands :
              /\ queue' = Append(queue, c) /\ c.op = "Load" /\ c.id = tabs[1] /\ c.url = Entries[1].url
              /\ host' = [Idle EXCEPT !.at = "restoring", !.i = 1] /\ host'.at = "restoring" /\ host'.i = 1
              /\ 1 \in 1..Len(Entries)
  <2>1. /\ host = Idle /\ tabs # <<>> /\ Entries # <<>>
        /\ queue' = Append(queue, Command("Load", tabs[1], Entries[1].url, 0))
        /\ host' = [host EXCEPT !.at = "restoring", !.i = 1]
    BY <1>2 DEF AdoptFirst, HostIdle, Posts
  <2>2. 1 \in 1..Len(Entries) /\ tabs[1] \in Ids
    BY <1>1, <2>1
  <2>3. tabs[1] \in 0..MaxTabs /\ Entries[1].url \in Addresses /\ 0 \in -1..MaxTabs
    BY <2>2, EntryTyped, Bounds
  <2> DEFINE c == Command("Load", tabs[1], Entries[1].url, 0)
  <2>4. c \in Commands /\ c.op = "Load" /\ c.id = tabs[1] /\ c.url = Entries[1].url
    BY <2>3, CommandTyped
  <2>5. queue' = Append(queue, c)
    BY <2>1
  <2> HIDE DEF c
  <2>6. host' = [Idle EXCEPT !.at = "restoring", !.i = 1] /\ host'.at = "restoring" /\ host'.i = 1
    BY <1>1, <2>1 DEF Hosts
  <2> QED BY <2>2, <2>4, <2>5, <2>6
<1>3. ASSUME RestoreNext
      PROVE  \E c \in Commands :
              /\ queue' = Append(queue, c) /\ c.op = "OpenAt" /\ c.id = unused /\ c.url = Entries[host.i + 1].url
              /\ c.at = host.i /\ host'.at = "restoring" /\ host'.i = host.i + 1 /\ host.i + 1 \in 1..Len(Entries)
  <2>1. /\ host.at = "restoring" /\ host.i < Len(Entries) /\ Reserves("ordinary")
        /\ queue' = Append(queue, Command("OpenAt", unused, Entries[host.i + 1].url, host.i))
        /\ host' = [host EXCEPT !.i = host.i + 1]
    BY <1>3 DEF RestoreNext, Posts
  <2>2. host.i + 1 \in 1..Len(Entries)
    BY <1>1, <2>1
  <2>3. unused \in Ids
    BY <2>1, AskedTyped DEF RegistryOK
  <2>4. Entries[host.i + 1].url \in Addresses /\ host.i \in -1..MaxTabs /\ "OpenAt" \in Opens
    BY <1>1, <2>2, EntryTyped, Bounds DEF Opens
  <2> DEFINE c == Command("OpenAt", unused, Entries[host.i + 1].url, host.i)
  <2>5. c \in Commands /\ c.op = "OpenAt" /\ c.id = unused /\ c.url = Entries[host.i + 1].url /\ c.at = host.i
    BY <2>3, <2>4, OpenTyped
  <2>6. queue' = Append(queue, c)
    BY <2>1
  <2> HIDE DEF c
  <2>7. host'.at = "restoring" /\ host'.i = host.i + 1
    BY <1>1, <2>1 DEF Hosts
  <2> QED BY <2>2, <2>5, <2>6, <2>7
<1>4. ASSUME RestoreSelects
      PROVE  /\ host' = Idle /\ host'.at = "idle"
             /\ \/ restore.active \notin 0..(Len(Entries) - 1) /\ UNCHANGED queue
                \/ /\ restore.active \in 0..(Len(Entries) - 1)
                   /\ \E c \in Commands : queue' = Append(queue, c) /\ c.op = "SelectIndex" /\ c.at = restore.active
  <2>1. /\ host' = Idle
        /\ \/ restore.active \notin 0..(Len(Entries) - 1) /\ UNCHANGED queue
           \/ /\ restore.active \in 0..(Len(Entries) - 1)
              /\ queue' = Append(queue, Command("SelectIndex", 0, 0, restore.active))
    BY <1>4 DEF RestoreSelects, Posts
  <2> DEFINE c == Command("SelectIndex", 0, 0, restore.active)
  <2>2. ASSUME restore.active \in 0..(Len(Entries) - 1) PROVE c \in Commands /\ c.op = "SelectIndex" /\ c.at = restore.active
    <3>1. restore.active \in -1..MaxTabs /\ 0 \in 0..MaxTabs /\ 0 \in Addresses
      BY <1>1, <2>2, Bounds
    <3> QED BY <3>1, CommandTyped
  <2>3. restore.active \in 0..(Len(Entries) - 1) /\ queue' = Append(queue, Command("SelectIndex", 0, 0, restore.active))
          => queue' = Append(queue, c)
    OBVIOUS
  <2> HIDE DEF c
  <2> QED BY <2>1, <2>2, <2>3, HostValues
<1> QED BY <1>2, <1>3, <1>4

\* The host's steps that post a command.
LEMMA MarkAfterHostPosts ==
  ASSUME RegistryOK, MarkOK, MarkPrivate \/ OpenMarked \/ Person \/ AdoptFirst \/ RestoreNext
  PROVE  MarkOK'
<1>1. UNCHANGED <<tabs, closing, nextPrivate, private, denied, stolen>>
  BY DEF MarkPrivate, OpenMarked, Person, AdoptFirst, RestoreNext, storeVars, ghosts
<1>2. CASE MarkPrivate
  <2>1. /\ host = Idle /\ queue' = Append(queue, Command("Mark", 0, 0, 0))
        /\ host' = [Idle EXCEPT !.at = "marked"] /\ asked' = asked
    BY <1>2 DEF MarkPrivate, HostIdle, Posts
  <2> DEFINE c == Command("Mark", 0, 0, 0)
  <2>2. c \in Commands /\ c.op = "Mark" /\ queue' = Append(queue, c)
    BY <2>1, CommandTyped, Bounds
  <2> HIDE DEF c
  <2>3. host'.at = "marked" /\ host.at = "idle" /\ c.op \notin Opens
    BY <2>1, <2>2, HostValues DEF Opens
  <2> QED BY <1>1, <2>1, <2>2, <2>3, MarkAfterPost
<1>3. CASE OpenMarked
  <2>1. /\ host.at = "marked" /\ queue' = Append(queue, Command("Open", unused, unused, -1)) /\ Reserves("private")
        /\ host' = Idle
    BY <1>3 DEF OpenMarked, Posts
  <2>2. unused \in Ids
    BY <2>1, AskedTyped DEF RegistryOK
  <2> DEFINE c == Command("Open", unused, unused, -1)
  <2>3. c \in Commands /\ c.op = "Open" /\ c.id = unused /\ queue' = Append(queue, c)
    BY <2>1, <2>2, NumberTyped
  <2> HIDE DEF c
  <2>4. host'.at # "marked" /\ c.op \in Opens
    BY <2>1, <2>3, HostValues DEF Opens
  <2> QED BY <1>1, <2>1, <2>3, <2>4, MarkAfterPost
<1>4. CASE Person
  <2>1. host = Idle /\ host' = host /\ (OpenTab \/ CloseTab)
    BY <1>4 DEF Person, HostIdle
  <2>2. host.at # "marked" /\ host'.at # "marked"
    BY <2>1, HostValues
  <2>3. CASE OpenTab
    <3>1. queue' = Append(queue, Command("Open", unused, unused, -1)) /\ Reserves("ordinary")
      BY <2>3 DEF OpenTab, Posts
    <3>2. unused \in Ids
      BY <3>1, AskedTyped DEF RegistryOK
    <3> DEFINE c == Command("Open", unused, unused, -1)
    <3>3. c \in Commands /\ c.op = "Open" /\ c.id = unused /\ queue' = Append(queue, c)
      BY <3>1, <3>2, NumberTyped
    <3> HIDE DEF c
    <3> QED BY <1>1, <2>2, <3>1, <3>3, MarkAfterPost
  <2>4. CASE CloseTab
    <3>1. PICK id \in Range(tabs) : queue' = Append(queue, Command("Close", id, 0, 0)) /\ UNCHANGED asked
      BY <2>4 DEF CloseTab, Posts
    <3>2. id \in 0..MaxTabs
      <4>1. tabs \in Seq(Ids)
        BY DEF RegistryOK, TabTypes
      <4>2. id \in Ids
        BY <4>1, Listed
      <4> QED BY <4>2, Bounds
    <3> DEFINE c == Command("Close", id, 0, 0)
    <3>3. c \in Commands /\ c.op = "Close" /\ queue' = Append(queue, c)
      BY <3>1, <3>2, CommandTyped, Bounds
    <3> HIDE DEF c
    <3>4. c.op \notin Opens
      BY <3>3 DEF Opens
    <3> QED BY <1>1, <2>2, <3>1, <3>3, <3>4, MarkAfterPost
  <2> QED BY <2>1, <2>3, <2>4
<1>5. CASE AdoptFirst
  <2>1. PICK c \in Commands : queue' = Append(queue, c) /\ c.op = "Load" /\ host'.at = "restoring"
    BY <1>5, RestorePosts
  <2>2. host = Idle /\ asked' = asked
    BY <1>5 DEF AdoptFirst, HostIdle, ghosts
  <2>3. host.at # "marked" /\ c.op \notin Opens
    BY <2>1, <2>2, HostValues DEF Opens
  <2> QED BY <1>1, <2>1, <2>2, <2>3, MarkAfterPost
<1>6. CASE RestoreNext
  <2>1. PICK c \in Commands : queue' = Append(queue, c) /\ c.op = "OpenAt" /\ c.id = unused /\ host'.at = "restoring"
    BY <1>6, RestorePosts
  <2>2. host.at = "restoring" /\ Reserves("ordinary")
    BY <1>6 DEF RestoreNext
  <2> QED BY <1>1, <2>1, <2>2, MarkAfterPost
<1> QED BY <1>2, <1>3, <1>4, <1>5, <1>6

\* The end of the restore, and the quit.
LEMMA MarkAfterHostEnds ==
  ASSUME RegistryOK, MarkOK, RestoreNothing \/ RestoreSelects \/ QuitBegins \/ QuitLists \/ QuitWrites \/ QuitStops \/ QuitJoins
  PROVE  MarkOK'
<1>1. UNCHANGED <<tabs, closing, nextPrivate, private, asked, denied, stolen>> /\ Open' = Open
  <2>1. UNCHANGED <<tabs, closing, nextPrivate, private, asked, denied, stolen>>
    BY DEF RestoreNothing, RestoreSelects, QuitBegins, QuitLists, QuitWrites, QuitStops, QuitJoins,
           registryVars, storeVars, ghosts
  <2> QED BY <2>1 DEF Open
<1>2. CASE RestoreNothing
  <2>1. UNCHANGED <<queue, host>>
    BY <1>2 DEF RestoreNothing, registryVars
  <2> QED BY <1>1, <2>1, MarkStays
<1>3. CASE RestoreSelects
  <2>1. host.at = "restoring" /\ host'.at = "idle"
    BY <1>3, RestorePosts DEF RestoreSelects
  <2>2. CASE UNCHANGED queue
    BY <1>1, <2>1, <2>2, MarkStays
  <2>3. ASSUME NEW c \in Commands, queue' = Append(queue, c), c.op = "SelectIndex" PROVE MarkOK'
    <3>1. c.op \notin Opens
      BY <2>3 DEF Opens
    <3> QED BY <1>1, <2>1, <2>3, <3>1, MarkAfterPost
  <2> QED BY <1>3, <2>2, <2>3, RestorePosts
<1> DEFINE stop == Command("Shutdown", 0, 0, 0)
<1>4. stop \in Commands /\ stop.op = "Shutdown"
  BY CommandTyped, Bounds
<1>5. stop.op \notin Opens
  BY <1>4 DEF Opens
<1>6. CASE QuitBegins
  <2>1. /\ host = Idle
        /\ \/ host' = [Idle EXCEPT !.at = "listing", !.n = Len(tabs), !.active = active] /\ UNCHANGED queue
           \/ host' = host /\ queue' = Append(queue, stop)
    BY <1>6 DEF QuitBegins, HostIdle
  <2>2. host.at = "idle" /\ host'.at # "marked"
    BY <2>1, HostValues DEF Idle
  <2> HIDE DEF stop
  <2>3. CASE UNCHANGED queue
    BY <1>1, <2>2, <2>3, MarkStays
  <2>4. CASE queue' = Append(queue, stop)
    BY <1>1, <1>4, <1>5, <2>2, <2>4, MarkAfterPost
  <2> QED BY <2>1, <2>3, <2>4
<1>7. CASE QuitLists
  <2>1. UNCHANGED queue /\ host.at = "listing"
    BY <1>7 DEF QuitLists, registryVars
  <2>2. host'.at = "listing"
    BY <1>7, QuitListsKeeps
  <2> QED BY <1>1, <2>1, <2>2, MarkStays
<1>8. CASE QuitWrites
  <2>1. UNCHANGED queue /\ host.at = "listing" /\ host' = [Idle EXCEPT !.at = "saved"]
    BY <1>8 DEF QuitWrites, registryVars
  <2>2. host'.at = "saved"
    BY <2>1, HostValues
  <2> QED BY <1>1, <2>1, <2>2, MarkStays
<1>9. CASE QuitStops
  <2>1. UNCHANGED queue /\ host.at = "saved" /\ host'.at = "joining"
    BY <1>9, QuitEndsKeep DEF QuitStops, registryVars
  <2> QED BY <1>1, <2>1, MarkStays
<1>10. CASE QuitJoins
  <2>1. queue' = Append(queue, stop) /\ host.at = "joining" /\ host' = Idle
    BY <1>10 DEF QuitJoins
  <2>2. host'.at # "marked"
    BY <2>1, HostValues
  <2> HIDE DEF stop
  <2> QED BY <1>1, <1>4, <1>5, <2>1, <2>2, MarkAfterPost
<1> QED BY <1>2, <1>3, <1>6, <1>7, <1>8, <1>9, <1>10

LEMMA FreshIsMarked == Fresh => MarkOK
<1> SUFFICES ASSUME Fresh PROVE MarksOK /\ AskedOK
  BY DEF MarkOK
<1>1. queue = <<FirstTab>> /\ nextPrivate = FALSE /\ host = Idle /\ tabs = <<>>
      /\ asked = [id \in Ids |-> IF id = 1 THEN "ordinary" ELSE "none"]
  BY DEF Fresh
<1>2. Len(queue) = 1 /\ queue[1] = FirstTab /\ queue # <<>> /\ FirstTab.op = "Open" /\ FirstTab.id = 1
  BY <1>1, FirstTabWaits
<1>3. asked[1] = "ordinary" /\ host.at = "idle"
  BY <1>1, Bounds, HostValues
<1>4. MarksOK
  BY <1>1, <1>2, <1>3 DEF MarksOK, Waits, Opens
<1>5. Open = {}
  BY <1>1, EmptyRange DEF Open
<1> QED BY <1>4, <1>5 DEF AskedOK

LEMMA RegistryKept == ASSUME RegistryOK, SessionsOK, Next PROVE RegistryOK'
<1>1. CASE HostStep
  <2>1. CASE QuitLists
    BY <2>1, QuitListsKeeps
  <2>2. CASE QuitWrites \/ QuitStops \/ QuitJoins
    BY <2>2, QuitEndsKeep
  <2> QED BY <1>1, <2>1, <2>2, MarkPrivateKeeps, OpenMarkedKeeps, PersonKeeps, RestoreNothingKeeps, AdoptFirstKeeps,
             RestoreNextKeeps, RestoreSelectsKeeps, QuitBeginsKeeps DEF HostStep
<1>2. CASE EngineStep
  <2>1. CASE RunOpen("Open") \/ RunOpen("OpenAt")
    <3>1. "Open" \in Opens /\ "OpenAt" \in Opens
      BY DEF Opens
    <3> QED BY <2>1, <3>1, RunOpenKeeps
  <2>2. CASE RunClose \/ FinishClose \/ RunMark \/ RunLoad \/ RunSelectIndex
    BY <2>2, RunCloseKeeps, FinishCloseKeeps, RunMarkKeeps, RunLoadKeeps, RunSelectIndexKeeps
  <2>3. ASSUME NEW id \in Ids, PageOpens(id) \/ PageSettles(id) PROVE RegistryOK'
    BY <2>3, PageOpensKeeps, PageSettlesKeeps
  <2>4. CASE PumpPrepares \/ PumpEncodes \/ PumpSubmits
    BY <2>4, PumpPreparesKeeps, WritersKeep
  <2> QED BY <1>2, <2>1, <2>2, <2>3, <2>4 DEF EngineStep
<1>3. CASE WorkerWrites
  BY <1>3, WritersKeep
<1>4. CASE RunShutdown \/ Killed
  BY <1>4, EndsAfresh DEF RunShutdown, Killed
<1>5. CASE Restart
  BY <1>5, RestartKeeps
<1> QED BY <1>1, <1>2, <1>3, <1>4, <1>5 DEF Next

LEMMA MarkKept == ASSUME RegistryOK, SessionsOK, MarkOK, Next PROVE MarkOK'
<1>1. CASE HostStep
  BY <1>1, MarkAfterHostPosts, MarkAfterHostEnds DEF HostStep
<1>2. CASE RunOpen("Open") \/ RunOpen("OpenAt")
  <2>1. "Open" \in Opens /\ "OpenAt" \in Opens
    BY DEF Opens
  <2> QED BY <1>2, <2>1, MarkAfterRunOpen
<1>3. CASE RunMark \/ RunLoad \/ RunSelectIndex \/ RunClose
  BY <1>3, MarkAfterRuns
<1>4. ASSUME NEW id \in Ids, PageOpens(id) PROVE MarkOK'
  BY <1>4, MarkAfterPageOpens
<1>5. CASE FinishClose
  <2>1. Range(tabs') = Range(tabs) \ {closing} /\ closing' = 0
    BY <1>5, FinishCloseKeeps
  <2>2. UNCHANGED <<queue, nextPrivate, private, asked, denied, stolen, host>>
    BY <1>5 DEF FinishClose, storeVars, hostVars
  <2> QED BY <2>1, <2>2, MarkStays DEF Open
<1>6. ASSUME NEW id \in Ids, PageSettles(id) PROVE MarkOK'
  <2>1. UNCHANGED <<queue, tabs, closing, nextPrivate, private, asked, denied, stolen, host>>
    BY <1>6 DEF PageSettles, storeVars
  <2> QED BY <2>1, MarkStays DEF Open
<1>7. CASE PumpPrepares \/ PumpEncodes \/ PumpSubmits \/ WorkerWrites
  <2>1. UNCHANGED <<queue, tabs, closing, nextPrivate, private, asked, denied, stolen, host>>
    BY <1>7 DEF PumpPrepares, PumpEncodes, PumpSubmits, WorkerWrites, registryVars, storeVars, hostVars, ghosts
  <2> QED BY <2>1, MarkStays DEF Open
<1>8. CASE RunShutdown \/ Killed
  <2>1. Fresh'
    BY <1>8, EndsAfresh DEF RunShutdown, Killed
  <2>2. Fresh' => MarkOK'
    BY FreshIsMarked, PTL
  <2> QED BY <2>1, <2>2
<1>9. CASE Restart
  <2>1. UNCHANGED <<queue, tabs, closing, nextPrivate, private, asked, denied, stolen, host>>
    BY <1>9 DEF Restart, registryVars, storeVars
  <2> QED BY <2>1, MarkStays DEF Open
<1> QED BY <1>1, <1>2, <1>3, <1>4, <1>5, <1>6, <1>7, <1>8, <1>9 DEF Next, EngineStep

-----------------------------------------------------------------------------
(* What gets into the file.                                                *)

LEMMA EncodedSame ==
  ASSUME NEW u, NEW st, NEW st2, NEW kept, NEW shown, \A i \in 1..Len(kept) : st[kept[i]] = st2[kept[i]]
  PROVE  EncodedBy(u, st, kept, shown) = EncodedBy(u, st2, kept, shown)
BY DEF EncodedBy

LEMMA KeptOf ==
  ASSUME RegistryOK
  PROVE  /\ Kept(tabs) \in Seq(Ids) /\ Len(Kept(tabs)) <= MaxTabs
         /\ \A i \in 1..Len(Kept(tabs)) : Kept(tabs)[i] \in Range(tabs) /\ Kept(tabs)[i] \notin private
<1>1. tabs \in Seq(Ids) /\ Len(tabs) \in 0..MaxTabs
  BY TabsAreFew
<1> DEFINE kept == Only(tabs, Ids \ private)
<1>2. /\ kept \in Seq(Ids) /\ Len(kept) \in 0..Len(tabs)
      /\ \A k \in 1..Len(kept) : kept[k] \in (Ids \ private) /\ kept[k] \in Range(tabs)
  <2> DEFINE S == Ids \ private
  <2>1. kept = Only(tabs, S)
    OBVIOUS
  <2> HIDE DEF S, kept
  <2>2. /\ kept \in Seq(Ids) /\ Len(kept) \in 0..Len(tabs)
        /\ \A k \in 1..Len(kept) : kept[k] \in S /\ kept[k] \in Range(tabs)
    BY <1>1, <2>1, OnlyProperties
  <2> QED BY <2>2 DEF S
<1>3. Kept(tabs) = kept
  BY DEF Kept
<1> HIDE DEF kept
<1> QED BY <1>1, <1>2, <1>3, Bounds

\* While no page is being destroyed, the tabs that are kept are in no private store.
LEMMA KeptIsClean ==
  ASSUME RegistryOK, closing = 0
  PROVE  Sound(Encoded(Kept(tabs), active)) /\ Clean(Encoded(Kept(tabs), active))
<1> DEFINE kept == Kept(tabs)
<1>1. /\ kept \in Seq(Ids) /\ Len(kept) <= MaxTabs
      /\ \A i \in 1..Len(kept) : kept[i] \in Range(tabs) /\ kept[i] \notin private
  BY KeptOf
<1> HIDE DEF kept
<1>2. /\ url \in [Ids -> Addresses] /\ store \in [Ids -> -1..MaxTabs] /\ active \in 0..MaxTabs /\ tabs \in Seq(Ids)
      /\ \A t \in Open : store[t] > 0 => t \in private
  BY DEF RegistryOK, TabTypes, StoresOK
<1>3. \A t \in Range(tabs) : t \in Open /\ store[t] \in -1..MaxTabs
  <2>1. \A t \in Range(tabs) : t \in Ids
    BY <1>2, Listed
  <2>2. \A t \in Range(tabs) : t # 0
    BY <2>1, Bounds
  <2> QED BY <1>2, <2>1, <2>2 DEF Open
<1>4. \A i \in 1..Len(kept) : store[kept[i]] <= 0
  <2>1. \A t \in Range(tabs) : t \notin private => store[t] <= 0
    BY <1>2, <1>3, Bounds
  <2> QED BY <1>1, <2>1
<1>5. Sound(EncodedBy(url, store, kept, active)) /\ Clean(EncodedBy(url, store, kept, active))
  BY <1>1, <1>2, <1>4, EncodedIsSound
<1> QED BY <1>5 DEF Encoded, EncodedBy, kept

LEMMA SessionsStay ==
  ASSUME SessionsOK, UNCHANGED <<hand, file, work>>, last' \in {last, Nothing}
  PROVE  SessionsOK'
BY NothingIsSound DEF SessionsOK

LEMMA SubmittedKeeps ==
  ASSUME SessionsOK, NEW s, Sound(s), Clean(s), Submitted(s)
  PROVE  work' \in Seq(Sessions) /\ \A i \in 1..Len(work') : Sound(work'[i]) /\ Clean(work'[i])
<1>1. work \in Seq(Sessions) /\ s \in Sessions /\ \A i \in 1..Len(work) : Sound(work[i]) /\ Clean(work[i])
  BY DEF SessionsOK, Sound
<1>2. CASE work' = work
  BY <1>1, <1>2
<1>3. CASE work' = Append(work, s)
  <2>1. /\ work' \in Seq(Sessions) /\ Len(work') = Len(work) + 1 /\ work'[Len(work) + 1] = s
        /\ \A i \in 1..Len(work) : work'[i] = work[i]
    BY <1>1, <1>3, AppendOf
  <2>2. \A i \in 1..Len(work') : i \in 1..Len(work) \/ i = Len(work) + 1
    BY <1>1, <2>1
  <2> QED BY <1>1, <2>1, <2>2
<1> QED BY <1>2, <1>3 DEF Submitted

\* What the host lists is kept in step with the tabs, as long as it says so.
LEMMA ListingStays ==
  ASSUME RegistryOK, Listing, UNCHANGED <<host, tabs, active, url, closing, last>>,
         \A t \in Range(tabs) : store'[t] = store[t] /\ (t \in private' <=> t \in private)
  PROVE  Listing'
<1> SUFFICES ASSUME host.at = "listing", last # Nothing
             PROVE  /\ closing' = 0 /\ host'.n = Len(tabs') /\ host'.active = active'
                    /\ last' = Encoded(Kept(tabs), active)'
                    /\ host'.ids = Kept(SubSeq(tabs, 1, host.i))'
  BY DEF Listing
<1>1. /\ closing = 0 /\ host.n = Len(tabs) /\ host.active = active
      /\ last = Encoded(Kept(tabs), active) /\ host.ids = Kept(SubSeq(tabs, 1, host.i))
  BY DEF Listing
<1>2. tabs \in Seq(Ids) /\ Len(tabs) \in Nat
  BY TabsAreFew
<1>3. host.i \in 0..Len(tabs)
  BY <1>1, <1>2, Bounds DEF RegistryOK, HostOK, Hosts
<1>4. \A t \in Range(tabs) : t \in Ids
  BY <1>2, Listed
<1>5. \A t \in Range(tabs) : t \in (Ids \ private) <=> t \in (Ids \ private')
  BY <1>4
<1> DEFINE S == Ids \ private
           U == Ids \ private'
           part == SubSeq(tabs, 1, host.i)
<1>6. part \in Seq(Ids) /\ \A t \in Range(part) : t \in Range(tabs)
  <2>1. part \in Seq(Ids) /\ Len(part) = host.i /\ \A j \in 1..host.i : part[j] = tabs[j]
    <3> DEFINE i == host.i
    <3>1. i \in 0..Len(tabs)
      BY <1>3
    <3> HIDE DEF i
    <3>2. SubSeq(tabs, 1, i) \in Seq(Ids) /\ Len(SubSeq(tabs, 1, i)) = i /\ \A j \in 1..i : SubSeq(tabs, 1, i)[j] = tabs[j]
      BY <1>2, <3>1
    <3> QED BY <3>2 DEF i
  <2>2. \A j \in 1..host.i : j \in 1..Len(tabs)
    BY <1>2, <1>3
  <2> HIDE DEF part
  <2> QED BY <1>2, <2>1, <2>2, Listed
<1>7. \A t \in Range(tabs) : t \in S <=> t \in U
  BY <1>5
<1>8. Kept(tabs) = Only(tabs, S) /\ Kept(tabs)' = Only(tabs, U)
      /\ Kept(part) = Only(part, S) /\ Kept(SubSeq(tabs, 1, host.i))' = Only(part, U)
  BY DEF Kept
<1> HIDE DEF S, U, part
<1>9. Only(tabs, S) = Only(tabs, U) /\ Only(part, S) = Only(part, U)
  BY <1>2, <1>6, <1>7, OnlySame
<1>10. Kept(tabs)' = Kept(tabs) /\ Kept(SubSeq(tabs, 1, host.i))' = Kept(SubSeq(tabs, 1, host.i))
  BY <1>8, <1>9 DEF part
<1> DEFINE kept == Kept(tabs)
<1>11. \A i \in 1..Len(kept) : store[kept[i]] = store'[kept[i]]
  BY KeptOf
<1>12. kept = Kept(tabs)'
  BY <1>10
<1>13. Encoded(Kept(tabs), active)' = EncodedBy(url', store', Kept(tabs)', active')
  BY DEF Encoded, EncodedBy
<1>14. Encoded(Kept(tabs), active) = EncodedBy(url, store, kept, active)
  BY DEF Encoded, EncodedBy
<1> HIDE DEF kept
<1>15. EncodedBy(url, store, kept, active) = EncodedBy(url, store', kept, active)
  BY <1>11, EncodedSame
<1>16. Encoded(Kept(tabs), active)' = Encoded(Kept(tabs), active)
  BY <1>12, <1>13, <1>14, <1>15
<1> QED BY <1>1, <1>10, <1>16

\* The steps that do not write: the last encoding stays, or counts no more.
NotWriting ==
  /\ UNCHANGED <<hand, file, work, stopped, stage, host>>
  /\ \/ UNCHANGED <<tabs, active, url, closing, last>>
     \/ Disturbs

LEMMA EngineDoesNotWrite ==
  ASSUME RegistryOK,
         \/ RunOpen("Open") \/ RunOpen("OpenAt") \/ RunClose \/ FinishClose \/ RunMark \/ RunLoad \/ RunSelectIndex
         \/ (\E id \in Ids : PageOpens(id) \/ PageSettles(id)) \/ PumpPrepares
  PROVE  NotWriting
<1>1. CASE RunOpen("Open") \/ RunOpen("OpenAt")
  BY <1>1 DEF RunOpen, Created, NotCreated, NotWriting, hostVars
<1>2. CASE RunClose \/ FinishClose \/ RunLoad \/ RunSelectIndex
  BY <1>2 DEF RunClose, FinishClose, RunLoad, RunSelectIndex, NotWriting, sessionVars, hostVars
<1>3. CASE RunMark \/ PumpPrepares
  BY <1>3 DEF RunMark, PumpPrepares, NotWriting, registryVars, sessionVars, hostVars, ghosts
<1>4. ASSUME NEW id \in Ids, PageOpens(id) PROVE NotWriting
  BY <1>4 DEF PageOpens, Created, NotCreated, NotWriting
<1>5. ASSUME NEW id \in Ids, PageSettles(id) PROVE NotWriting
  BY <1>5 DEF PageSettles, NotWriting
<1> QED BY <1>1, <1>2, <1>3, <1>4, <1>5

LEMMA NotWritingKeeps == ASSUME SessionsOK, NotWriting PROVE SessionsOK'
<1>1. last' \in {last, Nothing}
  BY DEF NotWriting, Disturbs
<1> QED BY <1>1, SessionsStay DEF NotWriting

LEMMA SessionsKept == ASSUME RegistryOK, SessionsOK, QuitOK, Next PROVE SessionsOK'
<1>1. CASE MarkPrivate \/ OpenMarked \/ Person \/ RestoreNothing \/ AdoptFirst \/ RestoreNext \/ RestoreSelects
           \/ QuitLists \/ QuitStops \/ QuitJoins \/ Restart
  <2>1. UNCHANGED <<hand, file, work>> /\ last' \in {last, Nothing}
    BY <1>1 DEF MarkPrivate, OpenMarked, Person, RestoreNothing, AdoptFirst, RestoreNext, RestoreSelects, QuitLists,
                QuitStops, QuitJoins, Restart, sessionVars, ghosts
  <2> QED BY <2>1, SessionsStay
<1>2. CASE QuitBegins
  <2>1. UNCHANGED <<hand, file, work>>
    BY <1>2 DEF QuitBegins, sessionVars
  <2>2. last' \in {last, Nothing} \/ (closing = 0 /\ last' = Encoded(Kept(tabs), active))
    BY <1>2 DEF QuitBegins
  <2>3. CASE last' \in {last, Nothing}
    BY <2>1, <2>3, SessionsStay
  <2>4. CASE closing = 0 /\ last' = Encoded(Kept(tabs), active)
    BY <2>1, <2>4, KeptIsClean DEF SessionsOK
  <2> QED BY <2>2, <2>3, <2>4
<1>3. CASE QuitWrites
  <2> DEFINE e == Encoded(host.ids, host.active)
             s == IF last = Nothing THEN Unwatched(e) ELSE e
  <2>1. /\ host.at = "listing" /\ host.i = host.n /\ Submitted(s)
        /\ UNCHANGED <<hand, file, last>>
    BY <1>3 DEF QuitWrites, ghosts
  <2>2. /\ host.ids \in Seq(Ids) /\ Len(host.ids) <= MaxTabs /\ host.active \in 0..MaxTabs
    <3>1. host.ids \in Seq(Ids) /\ Len(host.ids) <= host.i /\ host.i \in 0..MaxTabs /\ host.active \in 0..MaxTabs
      BY DEF RegistryOK, HostOK, Hosts
    <3> QED BY <3>1, Bounds
  <2>3. url \in [Ids -> Addresses] /\ store \in [Ids -> -1..MaxTabs]
    BY DEF RegistryOK, TabTypes
  <2>4. Sound(Unwatched(e)) /\ Clean(Unwatched(e))
    <3> DEFINE ids == host.ids
               shown == host.active
    <3>1. e = EncodedBy(url, store, ids, shown)
      BY DEF Encoded, EncodedBy
    <3>2. ids \in Seq(Ids) /\ Len(ids) <= MaxTabs /\ shown \in 0..MaxTabs
      BY <2>2
    <3> HIDE DEF ids, shown, e
    <3> QED BY <2>3, <3>1, <3>2, EncodedIsSound
  <2>5. last # Nothing => e = last
    <3> SUFFICES ASSUME last # Nothing PROVE e = last
      OBVIOUS
    <3>1. /\ host.n = Len(tabs) /\ host.active = active /\ last = Encoded(Kept(tabs), active)
          /\ host.ids = Kept(SubSeq(tabs, 1, host.i))
      BY <2>1 DEF QuitOK, Listing
    <3>2. SubSeq(tabs, 1, host.i) = tabs
      BY <2>1, <3>1, TabsAreFew
    <3> QED BY <3>1, <3>2
  <2>6. Sound(s) /\ Clean(s)
    BY <2>4, <2>5 DEF SessionsOK
  <2> HIDE DEF s
  <2>7. work' \in Seq(Sessions) /\ \A i \in 1..Len(work') : Sound(work'[i]) /\ Clean(work'[i])
    BY <2>1, <2>6, SubmittedKeeps
  <2> QED BY <2>1, <2>7 DEF SessionsOK
<1>4. CASE \/ RunOpen("Open") \/ RunOpen("OpenAt") \/ RunClose \/ FinishClose \/ RunMark \/ RunLoad \/ RunSelectIndex
           \/ (\E id \in Ids : PageOpens(id) \/ PageSettles(id)) \/ PumpPrepares
  BY <1>4, EngineDoesNotWrite, NotWritingKeeps
<1>5. CASE PumpEncodes
  <2>1. closing = 0 /\ hand' = Encoded(Kept(tabs), active) /\ UNCHANGED <<file, work, last>>
    BY <1>5 DEF PumpEncodes, Pumping, ghosts
  <2> QED BY <2>1, KeptIsClean DEF SessionsOK
<1>6. CASE PumpSubmits
  <2>1. Submitted(hand) /\ hand' = Nothing /\ UNCHANGED file /\ last' \in {last, Nothing}
    BY <1>6 DEF PumpSubmits, Disturbs
  <2>2. work' \in Seq(Sessions) /\ \A i \in 1..Len(work') : Sound(work'[i]) /\ Clean(work'[i])
    BY <2>1, SubmittedKeeps DEF SessionsOK
  <2> QED BY <2>1, <2>2, NothingIsSound DEF SessionsOK
<1>7. CASE WorkerWrites
  <2>1. work # <<>> /\ file' \in {file, Head(work)} /\ work' = Tail(work) /\ UNCHANGED hand /\ last' \in {last, Nothing}
    BY <1>7 DEF WorkerWrites
  <2>2. work \in Seq(Sessions) /\ \A i \in 1..Len(work) : Sound(work[i]) /\ Clean(work[i])
    BY DEF SessionsOK
  <2>3. /\ work' \in Seq(Sessions) /\ file' \in {file, work[1]} /\ 1 \in 1..Len(work)
        /\ \A i \in 1..Len(work') : i + 1 \in 1..Len(work) /\ work'[i] = work[i + 1]
    BY <2>1, <2>2, TailOf
  <2> QED BY <2>1, <2>2, <2>3, NothingIsSound DEF SessionsOK
<1>8. CASE RunShutdown \/ Killed
  <2>1. UNCHANGED file /\ hand' = Nothing /\ work' = <<>> /\ last' \in {last, Nothing}
    BY <1>8 DEF RunShutdown, Killed, Ends
  <2> DEFINE none == <<>>
  <2>2. none \in Seq(Sessions) /\ Len(none) = 0
    OBVIOUS
  <2>3. work' = none
    BY <2>1
  <2> HIDE DEF none
  <2>4. work' \in Seq(Sessions) /\ \A i \in 1..Len(work') : FALSE
    BY <2>2, <2>3
  <2> QED BY <2>1, <2>4, NothingIsSound DEF SessionsOK
<1> QED BY <1>1, <1>2, <1>3, <1>4, <1>5, <1>6, <1>7, <1>8 DEF Next, HostStep, EngineStep

\* What a step that does not write leaves of the tabs the host lists.
LEMMA ListedTabsStay ==
  ASSUME RegistryOK, SessionsOK, UNCHANGED <<tabs, active, url, closing, last>>,
         \/ RunOpen("Open") \/ RunOpen("OpenAt") \/ RunClose \/ FinishClose \/ RunMark \/ RunLoad \/ RunSelectIndex
         \/ (\E id \in Ids : PageOpens(id) \/ PageSettles(id)) \/ PumpPrepares
  PROVE  \A t \in Range(tabs) : store'[t] = store[t] /\ (t \in private' <=> t \in private)
<1>1. ASSUME NEW op \in Opens, RunOpen(op)
      PROVE  \A t \in Range(tabs) : store'[t] = store[t] /\ (t \in private' <=> t \in private)
  <2> DEFINE id == Head(queue).id
             zero == 0
  <2>1. Take(op) /\ Applies(id, zero)
    BY <1>1 DEF RunOpen
  <2>2. id \in Ids /\ id \notin Range(tabs) /\ id \notin private
    BY <2>1, TakesOne
  <2>3. zero = 0 \/ zero \in Open
    OBVIOUS
  <2> HIDE DEF id, zero
  <2>4. private \subseteq private' /\ private' \subseteq private \cup {id} /\ \A t : t # id => store'[t] = store[t]
    BY <2>1, <2>2, <2>3, AppliesTo
  <2> QED BY <2>2, <2>4
<1>2. ASSUME NEW opener \in Ids, PageOpens(opener)
      PROVE  \A t \in Range(tabs) : store'[t] = store[t] /\ (t \in private' <=> t \in private)
  <2> DEFINE id == unused
  <2>1. opener \in Open /\ Applies(id, opener) /\ id <= MaxTabs
    BY <1>2 DEF PageOpens, Open
  <2>2. id \in Ids /\ id \notin Range(tabs) /\ id \notin private
    BY <2>1, UnusedIsNew, Bounds DEF RegistryOK, HostOK
  <2> HIDE DEF id
  <2>3. opener = 0 \/ opener \in Open
    BY <2>1
  <2>4. private \subseteq private' /\ private' \subseteq private \cup {id} /\ \A t : t # id => store'[t] = store[t]
    BY <2>1, <2>2, <2>3, AppliesTo
  <2> QED BY <2>2, <2>4
<1>3. CASE RunClose
  <2>1. UNCHANGED store /\ Take("Close")
    BY <1>3 DEF RunClose
  <2>2. \A t \in Range(tabs) : t # closing' => (t \in private' <=> t \in private)
    BY <1>3, RunCloseKeeps
  <2>3. closing = 0 /\ \A t \in Range(tabs) : t \in Ids
    <3>1. closing = 0
      BY <2>1, TakesOne
    <3>2. tabs \in Seq(Ids)
      BY DEF RegistryOK, TabTypes
    <3> QED BY <3>1, <3>2, Listed
  <2> QED BY <2>1, <2>2, <2>3, Bounds
<1>4. CASE FinishClose \/ RunMark \/ RunLoad \/ RunSelectIndex \/ PumpPrepares
  <2>1. UNCHANGED <<store, private>>
    BY <1>4 DEF FinishClose, RunMark, RunLoad, RunSelectIndex, PumpPrepares, storeVars
  <2> QED BY <2>1
<1>5. ASSUME NEW id \in Ids, PageSettles(id)
      PROVE  \A t \in Range(tabs) : store'[t] = store[t] /\ (t \in private' <=> t \in private)
  <2>1. UNCHANGED <<store, private>>
    BY <1>5 DEF PageSettles, storeVars
  <2> QED BY <2>1
<1>6. "Open" \in Opens /\ "OpenAt" \in Opens
  BY DEF Opens
<1> QED BY <1>1, <1>2, <1>3, <1>4, <1>5, <1>6

LEMMA QuitAfterEngine ==
  ASSUME RegistryOK, SessionsOK, QuitOK,
         \/ RunOpen("Open") \/ RunOpen("OpenAt") \/ RunClose \/ FinishClose \/ RunMark \/ RunLoad \/ RunSelectIndex
         \/ (\E id \in Ids : PageOpens(id) \/ PageSettles(id)) \/ PumpPrepares
  PROVE  QuitOK'
<1>1. UNCHANGED <<hand, file, work, stopped, stage, host>>
  BY EngineDoesNotWrite DEF NotWriting
<1>2. CASE UNCHANGED <<tabs, active, url, closing, last>>
  <2>1. \A t \in Range(tabs) : store'[t] = store[t] /\ (t \in private' <=> t \in private)
    BY <1>2, ListedTabsStay
  <2>2. Listing'
    BY <1>1, <1>2, <2>1, ListingStays DEF QuitOK
  <2> QED BY <1>1, <1>2, <2>2 DEF QuitOK, IsLast
<1>3. CASE Disturbs
  <2>1. host.at \in {"listing", "saved"} => last' = Nothing
    BY <1>3 DEF Disturbs
  <2>2. last' \in {last, Nothing} /\ (last' # Nothing => last' = last)
    BY <1>3 DEF Disturbs
  <2>3. Listing'
    BY <1>1, <2>1 DEF Listing
  <2> QED BY <1>1, <2>2, <2>3 DEF QuitOK, IsLast
<1> QED BY <1>2, <1>3, EngineDoesNotWrite DEF NotWriting

\* A host that is not about to quit.
LEMMA QuitNotBegun ==
  ASSUME RegistryOK, QuitOK, stage = "up", stage' = "up", host.at \in {"idle", "marked", "restoring"},
         host'.at \in {"idle", "marked", "restoring"}, UNCHANGED <<last, stopped>>
  PROVE  QuitOK'
<1>1. host'.at # "joining" /\ host'.at # "saved" /\ host'.at # "listing" /\ host.at # "joining"
  OBVIOUS
<1>2. last' = Nothing /\ (stopped' <=> host'.at = "joining")
  BY <1>1 DEF QuitOK
<1>3. Listing'
  BY <1>1 DEF Listing
<1> QED BY <1>1, <1>2, <1>3 DEF QuitOK

LEMMA QuitAfterHost ==
  ASSUME RegistryOK, QuitOK,
         MarkPrivate \/ OpenMarked \/ Person \/ RestoreNothing \/ AdoptFirst \/ RestoreNext \/ RestoreSelects
  PROVE  QuitOK'
<1>1. stage = "up" /\ stage' = stage /\ UNCHANGED <<last, stopped>>
  BY DEF MarkPrivate, OpenMarked, Person, RestoreNothing, AdoptFirst, RestoreNext, RestoreSelects, HostIdle,
         sessionVars, ghosts
<1>2. host.at \in {"idle", "marked", "restoring"} /\ host'.at \in {"idle", "marked", "restoring"}
  <2>1. CASE MarkPrivate
    BY <2>1, HostValues DEF MarkPrivate, HostIdle
  <2>2. CASE OpenMarked
    BY <2>2, HostValues DEF OpenMarked
  <2>3. CASE Person \/ RestoreNothing
    BY <2>3, HostValues DEF Person, RestoreNothing, HostIdle
  <2>4. CASE AdoptFirst
    <3>1. host = Idle
      BY <2>4 DEF AdoptFirst, HostIdle
    <3> QED BY <2>4, <3>1, HostValues, RestorePosts
  <2>5. CASE RestoreNext
    <3>1. host.at = "restoring"
      BY <2>5 DEF RestoreNext
    <3> QED BY <2>5, <3>1, RestorePosts
  <2>6. CASE RestoreSelects
    <3>1. host.at = "restoring"
      BY <2>6 DEF RestoreSelects
    <3> QED BY <2>6, <3>1, RestorePosts
  <2> QED BY <2>1, <2>2, <2>3, <2>4, <2>5, <2>6
<1> QED BY <1>1, <1>2, QuitNotBegun

LEMMA QuitAfterQuitBegins == ASSUME RegistryOK, QuitOK, QuitBegins PROVE QuitOK'
<1>1. host = Idle /\ stage = "up" /\ UNCHANGED <<tabs, active, url, closing, store, private, work, file, stopped>>
  BY DEF QuitBegins, HostIdle, storeVars, sessionVars
<1>2. host.at = "idle" /\ last = Nothing /\ ~stopped
  <2>1. host.at = "idle"
    BY <1>1, HostValues
  <2>2. (stopped <=> host.at = "joining") /\ last = Nothing
    BY <1>1, <2>1 DEF QuitOK
  <2> QED BY <2>1, <2>2
<1>3. CASE /\ host' = [Idle EXCEPT !.at = "listing", !.n = Len(tabs), !.active = active]
           /\ last' = IF closing = 0 /\ hand = Nothing THEN Encoded(Kept(tabs), active) ELSE Nothing
           /\ UNCHANGED <<stage, queue>>
  <2>1. /\ host'.at = "listing" /\ host'.n = Len(tabs) /\ host'.active = active /\ host'.i = 0 /\ host'.ids = <<>>
    BY <1>3 DEF Idle
  <2>2. Listing'
    <3> SUFFICES ASSUME last' # Nothing
                 PROVE  /\ closing' = 0 /\ host'.n = Len(tabs') /\ host'.active = active'
                        /\ last' = Encoded(Kept(tabs), active)'
                        /\ host'.ids = Kept(SubSeq(tabs, 1, host.i))'
      BY DEF Listing
    <3>1. closing = 0 /\ last' = Encoded(Kept(tabs), active)
      BY <1>3
    <3>2. Encoded(Kept(tabs), active)' = Encoded(Kept(tabs), active)
      BY <1>1 DEF Encoded, Kept
    <3>3. Kept(SubSeq(tabs, 1, host.i))' = <<>>
      <4>1. tabs' \in Seq(Ids)
        BY <1>1, TabsAreFew
      <4>2. SubSeq(tabs', 1, 0) = <<>>
        BY <4>1
      <4>3. Kept(SubSeq(tabs, 1, host.i))' = Only(SubSeq(tabs', 1, 0), Ids \ private')
        BY <2>1 DEF Kept
      <4> DEFINE S == Ids \ private'
      <4>4. Kept(SubSeq(tabs, 1, host.i))' = Only(<<>>, S)
        BY <4>2, <4>3
      <4> HIDE DEF S
      <4> QED BY <4>4, OnlyOfNothing
    <3> QED BY <1>1, <2>1, <3>1, <3>2, <3>3
  <2> QED BY <1>1, <1>2, <1>3, <2>1, <2>2 DEF QuitOK
<1>4. CASE stage' = "stopping" /\ UNCHANGED <<host, last>>
  <2>1. Listing'
    BY <1>2, <1>4 DEF Listing
  <2> QED BY <1>1, <1>2, <1>4, <2>1 DEF QuitOK
<1> QED BY <1>3, <1>4 DEF QuitBegins

LEMMA QuitAfterQuitLists == ASSUME RegistryOK, QuitOK, QuitLists PROVE QuitOK'
<1>1. /\ host.at = "listing" /\ stage = "up" /\ host.i < host.n
      /\ UNCHANGED <<tabs, active, url, closing, store, private, work, file, stopped, stage, last>>
  BY DEF QuitLists, registryVars, storeVars, sessionVars, ghosts
<1>2. /\ host.i + 1 \in 1..host.n /\ host'.i = host.i + 1 /\ host'.n = host.n /\ host'.at = "listing"
      /\ host'.active = host.active
      /\ host.i < Len(tabs) => host'.ids = IF tabs[host.i + 1] \in private THEN host.ids
                                           ELSE Append(host.ids, tabs[host.i + 1])
  BY QuitListsKeeps
<1>3. Listing'
  <2> SUFFICES ASSUME last # Nothing
               PROVE  /\ closing' = 0 /\ host'.n = Len(tabs') /\ host'.active = active'
                      /\ last' = Encoded(Kept(tabs), active)'
                      /\ host'.ids = Kept(SubSeq(tabs, 1, host.i))'
    BY <1>1 DEF Listing
  <2>1. /\ closing = 0 /\ host.n = Len(tabs) /\ host.active = active /\ last = Encoded(Kept(tabs), active)
        /\ host.ids = Kept(SubSeq(tabs, 1, host.i))
    BY <1>1 DEF QuitOK, Listing
  <2>2. Encoded(Kept(tabs), active)' = Encoded(Kept(tabs), active)
    BY <1>1 DEF Encoded, Kept
  <2>3. tabs \in Seq(Ids) /\ host.i \in Nat
    BY TabsAreFew, Bounds DEF RegistryOK, HostOK, Hosts
  <2> DEFINE i == host.i
             x == tabs[i + 1]
             part == SubSeq(tabs, 1, i)
             S == Ids \ private
  <2>4. i \in Nat /\ i + 1 \in 1..Len(tabs) /\ i < Len(tabs)
    BY <1>2, <2>1, <2>3
  <2>5. x \in Ids
    BY <2>3, <2>4
  <2>6. part \in Seq(Ids) /\ SubSeq(tabs, 1, i + 1) = Append(part, x)
    <3> HIDE DEF i
    <3>1. part \in Seq(Ids) /\ Len(part) = i /\ \A j \in 1..i : part[j] = tabs[j]
      BY <2>3, <2>4
    <3> DEFINE more == SubSeq(tabs, 1, i + 1)
               longer == Append(part, x)
    <3>2. more \in Seq(Ids) /\ Len(more) = i + 1 /\ \A j \in 1..(i + 1) : more[j] = tabs[j]
      BY <2>3, <2>4
    <3> HIDE DEF part, x
    <3>3. longer \in Seq(Ids) /\ Len(longer) = i + 1 /\ longer[i + 1] = x /\ \A j \in 1..i : longer[j] = part[j]
      BY <2>4, <2>5, <3>1
    <3> HIDE DEF more, longer
    <3>4. \A j \in 1..(i + 1) : j \in 1..i \/ j = i + 1
      BY <2>4
    <3>5. \A j \in 1..(i + 1) : more[j] = longer[j]
      BY <3>1, <3>2, <3>3, <3>4 DEF x
    <3>6. more = longer
      BY <3>2, <3>3, <3>5, SeqEqual
    <3> QED BY <3>1, <3>6 DEF more, longer
  <2>7. Kept(SubSeq(tabs, 1, host.i))' = Only(SubSeq(tabs, 1, i + 1), S)
    BY <1>1, <1>2 DEF Kept
  <2>8. host.ids = Only(part, S)
    BY <2>1 DEF Kept
  <2>9. host'.ids = IF x \in S THEN Append(host.ids, x) ELSE host.ids
    BY <1>2, <2>4, <2>5
  <2> HIDE DEF i, x, part, S
  <2>10. Only(Append(part, x), S) = IF x \in S THEN Append(Only(part, S), x) ELSE Only(part, S)
    BY <2>5, <2>6, OnlyAppends
  <2>11. host'.ids = Kept(SubSeq(tabs, 1, host.i))'
    BY <2>6, <2>7, <2>8, <2>9, <2>10
  <2> QED BY <1>1, <1>2, <2>1, <2>2, <2>11
<1> QED BY <1>1, <1>2, <1>3 DEF QuitOK

LEMMA QuitAfterQuitWrites == ASSUME RegistryOK, SessionsOK, QuitOK, QuitWrites PROVE QuitOK'
<1>1. /\ host.at = "listing" /\ stage = "up" /\ host.i = host.n
      /\ last # Nothing => Submitted(Encoded(host.ids, host.active))
      /\ host' = [Idle EXCEPT !.at = "saved"]
      /\ UNCHANGED <<stopped, stage, last>>
  BY DEF QuitWrites, ghosts
<1>2. host'.at = "saved" /\ ~stopped
  <2>1. ~stopped
    BY <1>1 DEF QuitOK
  <2> QED BY <1>1, <2>1, HostValues
<1>3. last # Nothing => IsLast(last)'
  <2> SUFFICES ASSUME last # Nothing PROVE IsLast(last)'
    OBVIOUS
  <2>1. /\ host.n = Len(tabs) /\ host.active = active /\ last = Encoded(Kept(tabs), active)
        /\ host.ids = Kept(SubSeq(tabs, 1, host.i))
    BY <1>1 DEF QuitOK, Listing
  <2>2. SubSeq(tabs, 1, host.i) = tabs
    BY <1>1, <2>1, TabsAreFew
  <2>3. Encoded(host.ids, host.active) = last
    BY <2>1, <2>2
  <2>4. work' = Append(work, last) /\ work \in Seq(Sessions) /\ last \in Sessions
    BY <1>1, <1>2, <2>3 DEF Submitted, SessionsOK, Sound
  <2>5. work' # <<>> /\ work'[Len(work')] = last
    BY <2>4
  <2> QED BY <1>1, <2>5 DEF IsLast
<1>4. Listing'
  BY <1>2 DEF Listing
<1> QED BY <1>1, <1>2, <1>3, <1>4 DEF QuitOK

LEMMA QuitAfterQuitStops == ASSUME RegistryOK, QuitOK, QuitStops PROVE QuitOK'
<1>1. host.at = "saved" /\ stage = "up" /\ stopped' = TRUE /\ host'.at = "joining" /\ UNCHANGED <<work, file, stage, last>>
  BY QuitEndsKeep DEF QuitStops, ghosts
<1>2. last # Nothing => IsLast(last)
  BY <1>1 DEF QuitOK
<1>3. IsLast(last)' <=> IsLast(last)
  BY <1>1 DEF IsLast
<1>4. Listing'
  BY <1>1 DEF Listing
<1> QED BY <1>1, <1>2, <1>3, <1>4 DEF QuitOK

LEMMA QuitAfterQuitJoins == ASSUME RegistryOK, QuitOK, QuitJoins PROVE QuitOK'
<1>1. host.at = "joining" /\ stage = "up" /\ work = <<>> /\ stage' = "stopping" /\ host' = Idle
      /\ UNCHANGED <<work, file, stopped, last>>
  BY DEF QuitJoins, sessionVars, ghosts
<1>2. host'.at = "idle"
  BY <1>1, HostValues
<1>3. stopped /\ (last # Nothing => file = last)
  BY <1>1 DEF QuitOK, IsLast
<1>4. Listing'
  BY <1>2 DEF Listing
<1> QED BY <1>1, <1>2, <1>3, <1>4 DEF QuitOK

\* The host rests outside "up", so it is up when it is anywhere else.
LEMMA HostIsUp == ASSUME RegistryOK, host.at # "idle" PROVE stage = "up"
<1>1. stage # "up" => host = Idle
  BY DEF RegistryOK, HostOK
<1> QED BY <1>1, HostValues

LEMMA QuitAfterWriters ==
  ASSUME RegistryOK, SessionsOK, QuitOK, PumpEncodes \/ PumpSubmits \/ WorkerWrites
  PROVE  QuitOK'
<1>1. UNCHANGED <<tabs, active, url, closing, store, private, host, stage, stopped>>
  BY DEF PumpEncodes, PumpSubmits, WorkerWrites, registryVars, storeVars, hostVars
<1>2. stage = "up" => (stopped <=> host.at = "joining")
  BY DEF QuitOK
<1>3. CASE PumpEncodes
  <2>1. UNCHANGED <<work, file, last>>
    BY <1>3 DEF PumpEncodes, ghosts
  <2>2. Listing'
    BY <1>1, <2>1, ListingStays DEF QuitOK
  <2> QED BY <1>1, <2>1, <2>2 DEF QuitOK, IsLast
<1>4. CASE PumpSubmits
  <2>1. /\ Submitted(hand) /\ UNCHANGED file /\ stage # "down"
        /\ last' = IF host.at \in {"listing", "saved"} THEN Nothing ELSE last
    BY <1>4 DEF PumpSubmits, Disturbs
  <2>2. Listing'
    BY <1>1, <2>1 DEF Listing
  <2>3. stopped => work' = work
    BY <2>1 DEF Submitted
  <2>4. host.at = "joining" => stopped
    BY <1>2, HostIsUp
  <2>5. host'.at \in {"saved", "joining"} /\ last' # Nothing => IsLast(last)'
    BY <1>1, <2>1, <2>3, <2>4 DEF QuitOK, IsLast
  <2>6. stage' = "stopping" /\ last' # Nothing => stopped' /\ work' = <<>> /\ file' = last'
    BY <1>1, <2>1, <2>3 DEF QuitOK
  <2>7. stage' = "up" /\ host'.at \in {"idle", "marked", "restoring"} => last' = Nothing
    BY <1>1, <2>1 DEF QuitOK
  <2> QED BY <1>1, <1>2, <2>1, <2>2, <2>5, <2>6, <2>7 DEF QuitOK
<1>5. CASE WorkerWrites
  <2>1. /\ stage # "down" /\ work # <<>> /\ work' = Tail(work)
        /\ \/ file' = Head(work) /\ last' = last
           \/ last' = IF QuitsOwn THEN Nothing ELSE last
    BY <1>5 DEF WorkerWrites
  <2>2. work \in Seq(Sessions)
    BY DEF SessionsOK
  <2>3. /\ Head(work) = work[1] /\ Len(work') = Len(work) - 1 /\ Len(work) \in Nat /\ 1 \in 1..Len(work)
        /\ \A i \in 1..Len(work') : work'[i] = work[i + 1]
    BY <2>1, <2>2, TailOf
  <2>4. work'= <<>> => Len(work) = 1
    BY <2>3
  <2>5. work' # <<>> => Len(work') \in 1..Len(work') /\ work'[Len(work')] = work[Len(work)]
    <3>1. work' \in Seq(Sessions)
      BY <2>1, <2>2, TailOf
    <3>2. work' # <<>> => Len(work') \in 1..Len(work')
      BY <3>1
    <3> QED BY <2>3, <3>2
  <2>6. host.at \in {"saved", "joining"} /\ IsLast(last) /\ last' # Nothing => IsLast(last)'
    <3>1. CASE file' = Head(work) /\ last' = last
      BY <2>1, <2>3, <2>4, <2>5, <3>1 DEF IsLast
    <3>2. CASE last' = IF QuitsOwn THEN Nothing ELSE last
      BY <2>1, <2>3, <2>4, <2>5, <3>2 DEF IsLast, QuitsOwn
    <3> QED BY <2>1, <3>1, <3>2
  <2>7. Listing'
    <3>1. CASE last' = last
      BY <1>1, <3>1, ListingStays DEF QuitOK
    <3>2. CASE last' = Nothing
      BY <3>2 DEF Listing
    <3> QED BY <2>1, <3>1, <3>2
  <2>8. stage = "stopping" => last = Nothing
    BY <2>1 DEF QuitOK
  <2>9. last' \in {last, Nothing}
    BY <2>1
  <2> QED BY <1>1, <1>2, <2>1, <2>6, <2>7, <2>8, <2>9 DEF QuitOK
<1> QED BY <1>3, <1>4, <1>5

LEMMA QuitAfterEnd == ASSUME RegistryOK, QuitOK, StopsOK, RunShutdown \/ Killed PROVE QuitOK'
<1>1. stage' = "down" /\ work' = <<>> /\ stopped' = FALSE /\ host' = Idle /\ UNCHANGED file
  BY DEF RunShutdown, Killed, Ends
<1>2. last' # Nothing => last' = last /\ stage = "stopping"
  <2>1. CASE RunShutdown
    <3>1. queue # <<>> /\ Head(queue).op = "Shutdown" /\ last' = last
      BY <2>1 DEF RunShutdown
    <3>2. queue \in Seq(Commands)
      BY DEF RegistryOK, QueueOK
    <3>3. 1 \in 1..Len(queue) /\ Head(queue) = queue[1]
      BY <3>1, <3>2
    <3> QED BY <3>1, <3>3 DEF StopsOK
  <2>2. CASE Killed
    BY <2>2 DEF Killed
  <2> QED BY <2>1, <2>2
<1>3. last' # Nothing => file' = last'
  BY <1>1, <1>2 DEF QuitOK
<1>4. host'.at = "idle"
  BY <1>1, HostValues
<1>5. Listing'
  BY <1>4 DEF Listing
<1> QED BY <1>1, <1>3, <1>4, <1>5 DEF QuitOK

LEMMA QuitAfterRestart == ASSUME RegistryOK, QuitOK, Restart PROVE QuitOK'
<1>1. stage = "down" /\ stage' = "up" /\ last' = Nothing /\ UNCHANGED <<host, stopped, work, file>>
  BY DEF Restart, sessionVars
<1>2. host.at = "idle" /\ ~stopped
  BY <1>1, HostIsUp DEF QuitOK
<1>3. Listing'
  BY <1>1 DEF Listing
<1> QED BY <1>1, <1>2, <1>3 DEF QuitOK

LEMMA QuitKept == ASSUME RegistryOK, SessionsOK, QuitOK, StopsOK, Next PROVE QuitOK'
BY QuitAfterEngine, QuitAfterHost, QuitAfterQuitBegins, QuitAfterQuitLists, QuitAfterQuitWrites, QuitAfterQuitStops,
   QuitAfterQuitJoins, QuitAfterWriters, QuitAfterEnd, QuitAfterRestart DEF Next, HostStep, EngineStep

\* Only what stops the registry posts the command that ends the process.
LEMMA StopsAppended ==
  ASSUME RegistryOK, StopsOK, NEW c \in Commands, queue' = Append(queue, c), stage' # stage => stage' = "stopping",
         c.op = "Shutdown" => stage' = "stopping"
  PROVE  StopsOK'
<1>1. queue \in Seq(Commands)
  BY DEF RegistryOK, QueueOK
<1>2. /\ Len(queue') = Len(queue) + 1 /\ queue'[Len(queue) + 1] = c /\ Len(queue) \in Nat
      /\ \A i \in 1..Len(queue) : queue'[i] = queue[i]
  BY <1>1
<1>3. \A i \in 1..Len(queue') : i \in 1..Len(queue) \/ i = Len(queue) + 1
  BY <1>2
<1> QED BY <1>2, <1>3 DEF StopsOK

LEMMA StopsKept == ASSUME RegistryOK, StopsOK, Next PROVE StopsOK'
<1> DEFINE stop == Command("Shutdown", 0, 0, 0)
<1>1. stop \in Commands /\ stop.op = "Shutdown"
  BY CommandTyped, Bounds
<1>2. CASE \/ RestoreNothing \/ QuitLists \/ QuitWrites \/ QuitStops \/ FinishClose \/ PumpPrepares \/ PumpEncodes
           \/ PumpSubmits \/ WorkerWrites \/ \E id \in Ids : PageOpens(id) \/ PageSettles(id)
  <2>1. UNCHANGED <<queue, stage>>
    BY <1>2 DEF RestoreNothing, QuitLists, QuitWrites, QuitStops, FinishClose, PumpPrepares, PumpEncodes, PumpSubmits,
                WorkerWrites, PageOpens, PageSettles, registryVars, hostVars
  <2> QED BY <2>1 DEF StopsOK
<1>3. CASE \E op : Take(op) /\ UNCHANGED stage
  <2>1. /\ UNCHANGED stage /\ Len(queue') = Len(queue) - 1 /\ \A i \in 1..Len(queue') : queue'[i] = queue[i + 1]
    BY <1>3, TakesOne
  <2>2. queue \in Seq(Commands)
    BY DEF RegistryOK, QueueOK
  <2>3. \A i \in 1..Len(queue') : i + 1 \in 1..Len(queue)
    BY <2>1, <2>2
  <2> QED BY <2>1, <2>3 DEF StopsOK
<1>4. RunOpen("Open") \/ RunOpen("OpenAt") \/ RunClose \/ RunMark \/ RunLoad \/ RunSelectIndex
      => \E op : Take(op) /\ UNCHANGED stage
  BY DEF RunOpen, RunClose, RunMark, RunLoad, RunSelectIndex, hostVars
<1>5. CASE MarkPrivate \/ OpenMarked \/ Person
  <2>1. UNCHANGED stage
    BY <1>5 DEF MarkPrivate, OpenMarked, Person
  <2>2. \E op \in {"Mark", "Open", "Close"}, id \in 0..MaxTabs, u \in Addresses, at \in -1..MaxTabs :
          queue' = Append(queue, Command(op, id, u, at))
    <3>1. CASE MarkPrivate
      <4>1. queue' = Append(queue, Command("Mark", 0, 0, 0))
        BY <3>1 DEF MarkPrivate, Posts
      <4> QED BY <4>1, Bounds
    <3>2. CASE \E kind \in {"private", "ordinary"} :
                 queue' = Append(queue, Command("Open", unused, unused, -1)) /\ Reserves(kind)
      <4>1. unused \in Ids
        BY <3>2, AskedTyped DEF RegistryOK
      <4>2. unused \in 0..MaxTabs /\ unused \in Addresses /\ -1 \in -1..MaxTabs
        BY <4>1, Bounds
      <4> QED BY <3>2, <4>2
    <3>3. CASE CloseTab
      <4>1. PICK id \in Range(tabs) : queue' = Append(queue, Command("Close", id, 0, 0))
        BY <3>3 DEF CloseTab, Posts
      <4>2. tabs \in Seq(Ids)
        BY DEF RegistryOK, TabTypes
      <4>3. id \in Ids
        BY <4>2, Listed
      <4>4. id \in 0..MaxTabs /\ 0 \in Addresses /\ 0 \in -1..MaxTabs
        BY <4>3, Bounds
      <4> QED BY <4>1, <4>4
    <3> QED BY <1>5, <3>1, <3>2, <3>3 DEF OpenMarked, Person, OpenTab, Posts
  <2>3. PICK op \in {"Mark", "Open", "Close"}, id \in 0..MaxTabs, u \in Addresses, at \in -1..MaxTabs :
          queue' = Append(queue, Command(op, id, u, at))
    BY <2>2
  <2> DEFINE c == Command(op, id, u, at)
  <2>4. c \in Commands /\ c.op = op
    BY CommandTyped
  <2>5. queue' = Append(queue, c)
    BY <2>3
  <2> HIDE DEF c
  <2> QED BY <2>1, <2>4, <2>5, StopsAppended
<1>6. CASE AdoptFirst \/ RestoreNext
  <2>1. UNCHANGED stage
    BY <1>6 DEF AdoptFirst, RestoreNext
  <2>2. \E c \in Commands : queue' = Append(queue, c) /\ c.op # "Shutdown"
    BY <1>6, RestorePosts
  <2> QED BY <2>1, <2>2, StopsAppended
<1>7. CASE RestoreSelects
  <2>1. UNCHANGED stage
    BY <1>7 DEF RestoreSelects
  <2>2. UNCHANGED queue \/ \E c \in Commands : queue' = Append(queue, c) /\ c.op # "Shutdown"
    BY <1>7, RestorePosts
  <2>3. CASE UNCHANGED queue
    BY <2>1, <2>3 DEF StopsOK
  <2> QED BY <2>1, <2>2, <2>3, StopsAppended
<1>8. CASE QuitBegins \/ QuitJoins
  <2>1. UNCHANGED <<queue, stage>> \/ (queue' = Append(queue, stop) /\ stage' = "stopping")
    BY <1>8 DEF QuitBegins, QuitJoins
  <2>2. CASE UNCHANGED <<queue, stage>>
    BY <2>2 DEF StopsOK
  <2> HIDE DEF stop
  <2> QED BY <1>1, <2>1, <2>2, StopsAppended
<1>9. CASE RunShutdown \/ Killed
  <2>1. queue' = <<FirstTab>>
    BY <1>9 DEF RunShutdown, Killed, Ends
  <2>2. \A i \in 1..Len(queue') : queue'[i].op = "Open"
    BY <2>1, FirstTabWaits
  <2> QED BY <2>2 DEF StopsOK
<1>10. CASE Restart
  BY <1>10 DEF Restart, registryVars, StopsOK
<1> QED BY <1>2, <1>3, <1>4, <1>5, <1>6, <1>7, <1>8, <1>9, <1>10 DEF Next, HostStep, EngineStep

-----------------------------------------------------------------------------
(* What the next process finds.                                            *)

\* A step of a process that does not read the session.
LEMMA LeftStays ==
  ASSUME LeftOK, UNCHANGED <<left, loaded, restored, restore>>, stage' # "down",
         ~loaded => UNCHANGED <<file, work, hand>>,
         host'.at = "restoring" => ~restored, host'.at = "listing" => loaded, host'.at = "marked" => ~quiet'
  PROVE  LeftOK'
<1>1. Count' = Count /\ (Whole' <=> Whole)
  BY DEF Count, Whole
<1>2. ~loaded => Left(file)' = Left(file)
  <2> SUFFICES ASSUME ~loaded PROVE Left(file)' = Left(file)
    OBVIOUS
  <2>1. file' = file
    OBVIOUS
  <2> QED BY <2>1
<1> QED BY <1>1, <1>2 DEF LeftOK

LEMMA LeftIsTyped ==
  ASSUME LeftOK
  PROVE  /\ Count \in Nat /\ left.urls \in Seq(Addresses \ {0}) /\ (left.urls # <<>> => Count >= 1)
         /\ \A i \in 1..Count : left.urls[i] \in Addresses /\ left.urls[i] # 0
<1>1. left.urls \in Seq(Addresses \ {0})
  BY DEF LeftOK, LeftValues
<1> QED BY <1>1 DEF Count

\* The session is read once, and what is read is what was left.
LEMMA LeftIsRead ==
  ASSUME SessionsOK, LeftOK, UNCHANGED <<left, restored, host>>, stage' # "down", quiet' => quiet,
         loaded' = TRUE, restore' = IF loaded THEN restore ELSE Loaded(file)
  PROVE  LeftOK'
<1>1. Count' = Count /\ (Whole' <=> Whole)
  BY DEF Count, Whole
<1>2. CASE loaded
  BY <1>1, <1>2 DEF LeftOK
<1>3. CASE ~loaded
  <2>1. left = Left(file) /\ restore' = Loaded(file) /\ Sound(file)
    BY <1>3 DEF LeftOK, SessionsOK
  <2>2. /\ Len(restore'.entries) = Count
        /\ \A i \in 1..Count : restore'.entries[i].url = left.urls[i]
        /\ Whole => restore'.active \in 0..(Count - 1) /\ left.urls[restore'.active + 1] = left.showing
    BY <2>1, LoadedIsLeft DEF Count, Whole
  <2> QED BY <1>1, <1>3, <2>2 DEF LeftOK
<1> QED BY <1>2, <1>3

LEMMA LeftAfterApplies ==
  ASSUME SessionsOK, LeftOK, NEW id, NEW opener, Applies(id, opener), UNCHANGED <<left, restored, host, file, work, hand>>,
         stage' # "down", quiet' => quiet
  PROVE  LeftOK'
<1>1. CASE UNCHANGED <<loaded, restore>>
  <2>1. host'.at = "restoring" => ~restored
    BY DEF LeftOK
  <2>2. (host'.at = "listing" => loaded) /\ (host'.at = "marked" => ~quiet')
    BY DEF LeftOK
  <2> QED BY <1>1, <2>1, <2>2, LeftStays
<1>2. CASE loaded' = TRUE /\ restore' = IF loaded THEN restore ELSE Loaded(file)
  BY <1>2, LeftIsRead
<1> QED BY <1>1, <1>2 DEF Applies, Prepares

\* Nothing is written before the session has been read.
LEMMA ReadBeforeWritten ==
  ASSUME RegistryOK, LeftOK, ~loaded
  PROVE  hand = Nothing /\ work = <<>> /\ ~prepared /\ host.at # "listing" /\ host.at # "restoring"
<1>1. hand = Nothing /\ work = <<>> /\ host.at # "listing"
  BY DEF LeftOK
<1>2. ~prepared
  BY DEF RegistryOK, StoresOK
<1>3. host.at # "restoring"
  <2> SUFFICES ASSUME host.at = "restoring" PROVE FALSE
    OBVIOUS
  <2>1. host.i \in 1..Len(restore.entries) /\ restore = Empty
    BY DEF RegistryOK, HostOK
  <2>2. Len(restore.entries) = 0
    BY <2>1, EmptyIsRestore
  <2> QED BY <2>1, <2>2
<1> QED BY <1>1, <1>2, <1>3

LEMMA LeftAfterHost == ASSUME RegistryOK, LeftOK, HostStep PROVE LeftOK'
<1>1. stage = "up" /\ UNCHANGED <<left, loaded>> /\ stage' # "down" /\ (quiet' => quiet)
  <2>1. CASE MarkPrivate \/ OpenMarked \/ Person
    BY <2>1 DEF MarkPrivate, OpenMarked, Person, HostIdle, storeVars
  <2>2. CASE RestoreNothing
    <3>1. stage = "up" /\ UNCHANGED <<left, loaded, stage>> /\ quiet' = (quiet /\ loaded)
      BY <2>2 DEF RestoreNothing, HostIdle
    <3> QED BY <3>1
  <2>3. CASE AdoptFirst \/ RestoreNext \/ RestoreSelects
    BY <2>3 DEF AdoptFirst, RestoreNext, RestoreSelects, HostIdle, storeVars, ghosts
  <2>4. CASE QuitBegins \/ QuitLists \/ QuitWrites \/ QuitStops \/ QuitJoins
    BY <2>4 DEF QuitBegins, QuitLists, QuitWrites, QuitStops, QuitJoins, HostIdle, storeVars, ghosts
  <2> QED BY <2>1, <2>2, <2>3, <2>4 DEF HostStep
<1>2. CASE MarkPrivate
  <2>1. host = Idle /\ host' = [host EXCEPT !.at = "marked"] /\ quiet' = FALSE
        /\ UNCHANGED <<restored, restore, file, work, hand>>
    BY <1>2 DEF MarkPrivate, HostIdle, storeVars, sessionVars
  <2>2. host'.at = "marked"
    BY <2>1, HostValues
  <2> QED BY <1>1, <2>1, <2>2, LeftStays
<1>3. CASE OpenMarked \/ Person
  <2>1. (host' = Idle \/ (host = Idle /\ host' = host)) /\ UNCHANGED <<restored, restore, file, work, hand>>
    BY <1>3 DEF OpenMarked, Person, HostIdle, storeVars, sessionVars
  <2>2. host'.at = "idle"
    BY <2>1, HostValues
  <2> QED BY <1>1, <2>1, <2>2, LeftStays
<1>4. CASE RestoreNothing \/ RestoreSelects
  <2>1. restored' = TRUE /\ host' = Idle /\ UNCHANGED <<file, work, hand>>
    BY <1>4 DEF RestoreNothing, RestoreSelects, HostIdle, sessionVars
  <2>2. host'.at = "idle"
    BY <2>1, HostValues
  <2>3. Left(file)' = Left(file)
    BY <2>1 DEF Left, WithAddress, HasAddress, Only
  <2>4. left' \in LeftValues /\ (~loaded' => left' = Left(file)' /\ work' = <<>> /\ hand' = Nothing)
    BY <1>1, <2>1, <2>3 DEF LeftOK
  <2> QED BY <1>1, <2>1, <2>2, <2>4 DEF LeftOK
<1>5. CASE AdoptFirst \/ RestoreNext
  <2>1. UNCHANGED <<restored, restore, file, work, hand>>
    BY <1>5 DEF AdoptFirst, RestoreNext, storeVars, sessionVars
  <2>2. host'.at = "restoring"
    BY <1>5, RestorePosts
  <2>3. ~restored
    BY <1>5 DEF AdoptFirst, RestoreNext, LeftOK
  <2> QED BY <1>1, <2>1, <2>2, <2>3, LeftStays
<1>6. CASE QuitBegins
  <2>1. UNCHANGED <<restored, restore, file, work, hand>> /\ host = Idle
        /\ \/ prepared /\ host' = [Idle EXCEPT !.at = "listing", !.n = Len(tabs), !.active = active]
           \/ host' = host
    BY <1>6 DEF QuitBegins, HostIdle, storeVars, sessionVars
  <2>2. (prepared /\ host'.at = "listing") \/ host'.at = "idle"
    BY <2>1, HostValues DEF Idle
  <2>3. prepared => loaded
    BY ReadBeforeWritten
  <2> QED BY <1>1, <2>1, <2>2, <2>3, LeftStays
<1>7. CASE QuitLists
  <2>1. UNCHANGED <<restored, restore, file, work, hand>> /\ host.at = "listing"
    BY <1>7 DEF QuitLists, storeVars, sessionVars
  <2>2. host'.at = "listing"
    BY <1>7, QuitListsKeeps
  <2>3. loaded
    BY <2>1, ReadBeforeWritten
  <2> QED BY <1>1, <2>1, <2>2, <2>3, LeftStays
<1>8. CASE QuitWrites
  <2>1. UNCHANGED <<restored, restore>> /\ host.at = "listing" /\ host' = [Idle EXCEPT !.at = "saved"]
    BY <1>8 DEF QuitWrites, storeVars
  <2>2. host'.at = "saved" /\ loaded
    BY <2>1, HostValues, ReadBeforeWritten
  <2> QED BY <1>1, <2>1, <2>2, LeftStays
<1>9. CASE QuitStops
  <2>1. UNCHANGED <<restored, restore, file, work, hand>> /\ host'.at = "joining"
    BY <1>9, QuitEndsKeep DEF QuitStops
  <2> QED BY <1>1, <2>1, LeftStays
<1>10. CASE QuitJoins
  <2>1. UNCHANGED <<restored, restore, file, work, hand>> /\ host' = Idle
    BY <1>10 DEF QuitJoins, storeVars, sessionVars
  <2>2. host'.at = "idle"
    BY <2>1, HostValues
  <2> QED BY <1>1, <2>1, <2>2, LeftStays
<1> QED BY <1>2, <1>3, <1>4, <1>5, <1>6, <1>7, <1>8, <1>9, <1>10 DEF HostStep

LEMMA LeftKept == ASSUME RegistryOK, SessionsOK, LeftOK, Next PROVE LeftOK'
<1>1. CASE HostStep
  BY <1>1, LeftAfterHost
<1>2. ASSUME NEW op, RunOpen(op) PROVE LeftOK'
  <2>1. /\ Running /\ \E id : Applies(id, 0)
        /\ UNCHANGED <<left, restored, host, file, work, hand, stage>> /\ (quiet' => quiet)
    BY <1>2 DEF RunOpen, Take, hostVars
  <2>2. stage' # "down"
    BY <2>1 DEF Running
  <2> DEFINE zero == 0
  <2>3. PICK id : Applies(id, zero)
    BY <2>1
  <2> HIDE DEF zero
  <2> QED BY <2>1, <2>2, <2>3, LeftAfterApplies
<1>3. ASSUME NEW opener \in Ids, PageOpens(opener) PROVE LeftOK'
  <2>1. /\ Running /\ Applies(unused, opener)
        /\ UNCHANGED <<left, restored, host, file, work, hand, stage>> /\ (quiet' => quiet)
    BY <1>3 DEF PageOpens
  <2>2. stage' # "down"
    BY <2>1 DEF Running
  <2> DEFINE id == unused
  <2>3. Applies(id, opener)
    BY <2>1
  <2> HIDE DEF id
  <2> QED BY <2>1, <2>2, <2>3, LeftAfterApplies
<1>4. CASE PumpPrepares
  <2>1. /\ UNCHANGED <<left, restored, host, stage, quiet>> /\ stage # "down"
        /\ loaded' = TRUE /\ restore' = IF loaded THEN restore ELSE Loaded(file)
    BY <1>4 DEF PumpPrepares, Pumping, Running, Prepares, hostVars, ghosts
  <2> QED BY <2>1, LeftIsRead
<1>5. (host.at = "restoring" => ~restored) /\ (host.at = "listing" => loaded) /\ (host.at = "marked" => ~quiet)
  BY DEF LeftOK
<1>6. CASE \/ RunClose \/ FinishClose \/ RunMark \/ RunLoad \/ RunSelectIndex \/ (\E id \in Ids : PageSettles(id))
           \/ PumpEncodes \/ PumpSubmits \/ WorkerWrites
  <2>1. UNCHANGED <<left, loaded, restored, restore, stage, host>> /\ (quiet' => quiet) /\ stage # "down"
    <3>1. CASE RunClose \/ FinishClose \/ RunMark \/ RunLoad \/ RunSelectIndex
      BY <3>1 DEF RunClose, FinishClose, RunMark, RunLoad, RunSelectIndex, Take, Running, storeVars, hostVars, ghosts
    <3>2. CASE \E id \in Ids : PageSettles(id)
      BY <3>2 DEF PageSettles, Running, storeVars
    <3>3. CASE PumpEncodes \/ PumpSubmits \/ WorkerWrites
      BY <3>3 DEF PumpEncodes, PumpSubmits, WorkerWrites, Pumping, Running, storeVars, hostVars, ghosts
    <3> QED BY <1>6, <3>1, <3>2, <3>3
  <2>2. ~loaded => UNCHANGED <<file, work, hand>>
    <3> SUFFICES ASSUME ~loaded PROVE UNCHANGED <<file, work, hand>>
      OBVIOUS
    <3>1. hand = Nothing /\ work = <<>> /\ ~prepared
      BY ReadBeforeWritten
    <3>2. ~PumpEncodes /\ ~PumpSubmits /\ ~WorkerWrites
      BY <3>1 DEF PumpEncodes, PumpSubmits, WorkerWrites
    <3>3. CASE RunClose \/ FinishClose \/ RunMark \/ RunLoad \/ RunSelectIndex
      BY <3>3 DEF RunClose, FinishClose, RunMark, RunLoad, RunSelectIndex, sessionVars
    <3>4. CASE \E id \in Ids : PageSettles(id)
      BY <3>4 DEF PageSettles
    <3> QED BY <1>6, <3>2, <3>3, <3>4
  <2> QED BY <1>5, <2>1, <2>2, LeftStays
<1>7. CASE RunShutdown \/ Killed
  <2>1. /\ left' = Left(file) /\ file' = file /\ work' = <<>> /\ hand' = Nothing /\ loaded' = FALSE /\ restored' = FALSE
        /\ host' = Idle /\ closing' = 0 /\ queue' = <<FirstTab>> /\ tabs' = <<>> /\ unused' = 2
    BY <1>7 DEF RunShutdown, Killed, Ends
  <2>2. left' \in LeftValues
    BY <2>1, LoadedIsLeft DEF SessionsOK
  <2>3. host'.at = "idle"
    BY <2>1, HostValues
  <2>4. left' = Left(file)'
    BY <2>1
  <2> QED BY <2>1, <2>2, <2>3, <2>4 DEF LeftOK
<1>8. CASE Restart
  <2>1. stage' = "up" /\ UNCHANGED <<left, loaded, restored, restore, file, work, hand, host, quiet>>
    BY <1>8 DEF Restart, storeVars, sessionVars
  <2> QED BY <1>5, <2>1, LeftStays
<1> QED BY <1>1, <1>2, <1>3, <1>4, <1>6, <1>7, <1>8 DEF Next, EngineStep

-----------------------------------------------------------------------------
(* The restore in progress.                                                *)

LEMMA AskedIsNumber ==
  ASSUME RegistryOK, LeftOK, left.urls # <<>>
  PROVE  Asked \in Nat /\ Asked >= 1 /\ Count \in Nat /\ Count >= 1 /\ left.urls \in Seq(Addresses \ {0})
<1>1. Count \in Nat /\ Count >= 1 /\ left.urls \in Seq(Addresses \ {0})
  BY LeftIsTyped
<1>2. host.at = "restoring" => host.i \in Nat /\ host.i >= 1
  BY DEF RegistryOK, HostOK
<1> QED BY <1>1, <1>2 DEF Asked

\* A step that leaves the restore where it is: a page whose address is known keeps it.
LEMMA BackStays ==
  ASSUME RegistryOK, LeftOK, ComingBack,
         UNCHANGED <<left, closing, queue, tabs, active, unused, restored>>,
         \A t : url[t] # 0 => url'[t] = url[t],
         stage' = "up" /\ quiet' => stage = "up" /\ quiet,
         host'.at = "restoring" <=> host.at = "restoring", host.at = "restoring" => host'.i = host.i
  PROVE  ComingBack'
<1> SUFFICES ASSUME stage' = "up", quiet', left'.urls # <<>>
             PROVE  closing' = 0 /\ (BeforeRestore' \/ DuringRestore')
  BY DEF ComingBack
<1>1. stage = "up" /\ quiet /\ left.urls # <<>>
  OBVIOUS
<1>2. closing' = 0 /\ (BeforeRestore \/ DuringRestore)
  BY <1>1 DEF ComingBack
<1>3. CASE BeforeRestore
  <2>1. url[1] # 0 => url'[1] # 0
    OBVIOUS
  <2>2. BeforeRestore'
    BY <1>3, <2>1 DEF BeforeRestore, FirstTab
  <2> QED BY <1>2, <2>2
<1>4. CASE DuringRestore
  <2>1. Asked \in Nat /\ Count \in Nat /\ left.urls \in Seq(Addresses \ {0})
    BY <1>1, AskedIsNumber
  <2>2. Asked' = Asked /\ Count' = Count /\ (Whole' <=> Whole)
    BY DEF Asked, Count, Whole
  <2>3. PICK done \in 0..Asked : RestoresUpTo(done)
    BY <1>4 DEF DuringRestore
  <2>4. Asked <= Count
    BY <1>4 DEF DuringRestore
  <2>5. \A k \in 1..done : left.urls[k] # 0
    BY <2>1, <2>3, <2>4 DEF Count
  <2>6. /\ \A r, c : Brings(r, c)' <=> Brings(r, c)
        /\ \A c : Selects(c)' <=> Selects(c)
    BY <2>2 DEF Brings, Selects
  <2>7. RestoresUpTo(done)'
    BY <2>2, <2>3, <2>5, <2>6 DEF RestoresUpTo
  <2>8. unused' = Asked' + 1 /\ Asked' <= Count' /\ (host'.at = "restoring" \/ restored')
    BY <1>4, <2>2 DEF DuringRestore
  <2>9. \E d \in 0..Asked' : RestoresUpTo(d)'
    BY <2>2, <2>7
  <2>10. DuringRestore'
    BY <2>8, <2>9 DEF DuringRestore
  <2> QED BY <1>2, <2>10
<1> QED BY <1>2, <1>3, <1>4

\* The command the restore waits for next.
LEMMA WaitsNext ==
  ASSUME RegistryOK, LeftOK, left.urls # <<>>, DuringRestore, queue # <<>>
  PROVE  /\ \E done \in 0..Asked :
              /\ RestoresUpTo(done)
              /\ \/ done < Asked /\ Brings(done + 1, queue[1])
                 \/ done = Asked /\ Len(queue) = 1 /\ restored /\ Selects(queue[1])
         /\ queue[1].op \in {"Load", "OpenAt", "SelectIndex"}
<1>1. Asked \in Nat /\ queue \in Seq(Commands)
  BY AskedIsNumber DEF RegistryOK, QueueOK
<1>2. PICK done \in 0..Asked : RestoresUpTo(done)
  BY DEF DuringRestore
<1>3. Len(queue) >= 1 /\ Len(queue) \in Nat
  BY <1>1
<1>4. CASE done < Asked
  <2>1. 1 \in 1..(Asked - done)
    BY <1>1, <1>4
  <2>2. Brings(done + 1, queue[1])
    BY <1>2, <2>1 DEF RestoresUpTo
  <2> QED BY <1>2, <1>4, <2>2 DEF Brings
<1>5. CASE done = Asked
  <2>1. Len(queue) = 1 /\ restored /\ Selects(queue[1])
    BY <1>1, <1>2, <1>3, <1>5 DEF RestoresUpTo
  <2> QED BY <1>2, <1>5, <2>1 DEF Selects
<1> QED BY <1>1, <1>4, <1>5

\* One more entry has its tab.
LEMMA OneMore ==
  ASSUME RegistryOK, LeftOK, left.urls # <<>>, DuringRestore,
         NEW done \in 0..Asked, RestoresUpTo(done), done < Asked,
         UNCHANGED <<left, unused, restored, host>>,
         Len(queue') = Len(queue) - 1, \A i \in 1..Len(queue') : queue'[i] = queue[i + 1],
         Len(tabs') = done + 1, \A k \in 1..(done + 1) : tabs'[k] = k,
         \A k \in 1..done : url'[k] = url[k], url'[done + 1] = left.urls[done + 1],
         active # 0 => active' = active
  PROVE  DuringRestore'
<1> DEFINE more == done + 1
<1>1. Asked \in Nat /\ Count \in Nat /\ queue \in Seq(Commands) /\ Len(queue) \in Nat
  BY AskedIsNumber DEF RegistryOK, QueueOK
<1>2. Asked' = Asked /\ Count' = Count /\ (Whole' <=> Whole)
  BY DEF Asked, Count, Whole
<1>3. more \in 1..Asked /\ more \in Nat
  BY <1>1
<1>4. /\ \A r, c : Brings(r, c)' <=> Brings(r, c)
      /\ \A c : Selects(c)' <=> Selects(c)
  BY <1>2 DEF Brings, Selects
<1>5. RestoresUpTo(more)'
  <2>1. Len(queue') \in {Asked - more, Asked - more + 1}
    BY <1>1 DEF RestoresUpTo
  <2>2. ASSUME NEW j \in 1..(Asked - more) PROVE Brings(more + j, queue'[j])
    <3>1. j + 1 \in 1..(Asked - done) /\ j \in 1..Len(queue') /\ more + j = done + (j + 1)
      BY <1>1, <2>1
    <3>2. Brings(done + (j + 1), queue[j + 1])
      BY <3>1 DEF RestoresUpTo
    <3> QED BY <3>1, <3>2
  <2>3. ASSUME Len(queue') = Asked - more + 1 PROVE restored /\ Selects(queue'[Len(queue')])
    <3>1. Len(queue) = Asked - done + 1 /\ Len(queue') \in 1..Len(queue') /\ Len(queue') + 1 = Len(queue)
      BY <1>1, <1>3, <2>3
    <3> QED BY <3>1 DEF RestoresUpTo
  <2>4. Len(tabs') = (IF more = 0 THEN 1 ELSE more) /\ (\A k \in 1..Len(tabs') : tabs'[k] = k) /\ more # 0
    BY <1>3
  <2>5. \A k \in 1..more : url'[k] = left.urls[k]
    <3>1. \A k \in 1..more : k \in 1..done \/ k = more
      OBVIOUS
    <3> QED BY <3>1 DEF RestoresUpTo
  <2>6. ASSUME restored, Len(queue') = Asked - more, Whole PROVE active' \in 1..Count /\ left.urls[active'] = left.showing
    <3>1. Len(queue) = Asked - done
      <4>1. done \in Int /\ Asked \in Int /\ Len(queue) \in Int /\ Len(queue') = Len(queue) - 1
        BY <1>1
      <4>2. Len(queue') = Asked - more
        BY <2>6
      <4>3. Len(queue) - 1 = Asked - (done + 1)
        BY <4>1, <4>2
      <4> QED BY <4>1, <4>3
    <3>2. active \in 1..Count /\ left.urls[active] = left.showing
      BY <2>6, <3>1 DEF RestoresUpTo
    <3> QED BY <3>2
  <2> HIDE DEF more
  <2> QED BY <1>2, <1>4, <2>1, <2>2, <2>3, <2>4, <2>5, <2>6 DEF RestoresUpTo
<1> HIDE DEF more
<1>6. \E d \in 0..Asked' : RestoresUpTo(d)'
  BY <1>2, <1>3, <1>5
<1> QED BY <1>2, <1>6 DEF DuringRestore

\* What the restore's steps have in common.
LEMMA BackIs ==
  ASSUME ComingBack, left.urls # <<>>, stage = "up", quiet
  PROVE  closing = 0 /\ (BeforeRestore \/ DuringRestore)
BY DEF ComingBack

LEMMA BackAfterOpen ==
  ASSUME RegistryOK, LeftOK, ComingBack, NEW op \in Opens, RunOpen(op)
  PROVE  ComingBack'
<1> SUFFICES ASSUME stage' = "up", quiet', left'.urls # <<>>
             PROVE  closing' = 0 /\ (BeforeRestore' \/ DuringRestore')
  BY DEF ComingBack
<1> DEFINE c == Head(queue)
<1>1. /\ Take(op) /\ UNCHANGED <<left, unused, restored, host, stage, closing, quiet>>
      /\ Created(c.id, c.at, c.url, op = "Open")
  BY DEF RunOpen, hostVars
<1>2. /\ queue' = Tail(queue) /\ queue # <<>> /\ Len(queue) >= 1 /\ c \in Commands /\ c = queue[1] /\ c.op = op
      /\ Len(queue') = Len(queue) - 1 /\ \A i \in 1..Len(queue') : queue'[i] = queue[i + 1]
      /\ c.id \in Ids /\ closing = 0
  BY <1>1, TakesOne
<1>3. BeforeRestore \/ DuringRestore
  BY <1>1, BackIs
<1>4. /\ tabs' = Placed(tabs, {}, c.at, c.id, FALSE) /\ url' = [url EXCEPT ![c.id] = c.url]
      /\ active' = IF op = "Open" \/ active = 0 THEN c.id ELSE active
  BY <1>1 DEF Created
<1>5. /\ tabs \in Seq(Ids) /\ url \in [Ids -> Addresses] /\ queue \in Seq(Commands) /\ c.at \in Int
      /\ Len(tabs) \in Nat
  <2>1. c.at \in Int
    BY <1>2, Bounds DEF Commands
  <2> QED BY <2>1 DEF RegistryOK, TabTypes, QueueOK
<1> HIDE DEF c
<1>6. ASSUME c.at = Len(tabs) \/ c.at = -1
      PROVE  Len(tabs') = Len(tabs) + 1 /\ tabs'[Len(tabs) + 1] = c.id /\ \A k \in 1..Len(tabs) : tabs'[k] = tabs[k]
  <2>1. PICK place \in 0..Len(tabs) : /\ Placed(tabs, {}, c.at, c.id, FALSE) = InsertTab(tabs, place, c.id)
                                      /\ (c.at = Len(tabs) \/ c.at = -1) => place = Len(tabs)
    <3>1. tabs \in Seq(Ids) /\ c.id \in Ids /\ c.at \in Int
      BY <1>2, <1>5
    <3> QED BY <3>1, PlacedAt
  <2>2. tabs' = InsertTab(tabs, place, c.id) /\ place = Len(tabs)
    BY <1>4, <1>6, <2>1
  <2>3. IsInsertion(tabs', tabs, place, c.id)
    BY <1>2, <1>5, <2>2, InsertTabProperties
  <2>4. /\ Len(tabs) + 1 \in 1..(Len(tabs) + 1) /\ ~(Len(tabs) + 1 <= Len(tabs))
        /\ \A k \in 1..Len(tabs) : k \in 1..(Len(tabs) + 1) /\ k <= Len(tabs)
    BY <1>5
  <2> HIDE DEF Opens
  <2> QED BY <2>2, <2>3, <2>4 DEF IsInsertion
<1>7. CASE BeforeRestore
  <2>1. queue = <<FirstTab>> /\ tabs = <<>>
    BY <1>2, <1>7 DEF BeforeRestore
  <2>2. c = FirstTab /\ queue' = <<>> /\ Len(tabs) = 0
    BY <1>2, <2>1 DEF c
  <2>3. c.id = 1 /\ c.url = 1 /\ c.at = -1
    BY <2>2, FirstTabWaits
  <2>4. Len(tabs') = 1 /\ tabs'[1] = 1
    BY <1>6, <2>2, <2>3
  <2>5. tabs' \in Seq(Ids)
    <3>1. Placed(tabs, {}, c.at, c.id, FALSE) \in Seq(Ids)
      <4>1. PICK place \in 0..Len(tabs) : Placed(tabs, {}, c.at, c.id, FALSE) = InsertTab(tabs, place, c.id)
        BY <1>2, <1>5, PlacedAt
      <4>2. InsertTab(tabs, place, c.id) \in Seq(Ids)
        BY <1>2, <1>5, InsertTabProperties
      <4> QED BY <4>1, <4>2
    <3> QED BY <1>4, <3>1
  <2>6. tabs' = <<1>>
    BY <2>4, <2>5
  <2>7. url'[1] # 0
    BY <1>4, <1>5, <2>3, Bounds
  <2>8. host'.at # "restoring" /\ ~restored' /\ unused' = 2
    BY <1>1, <1>7 DEF BeforeRestore
  <2>9. BeforeRestore'
    BY <2>2, <2>6, <2>7, <2>8 DEF BeforeRestore
  <2> QED BY <1>1, <1>2, <2>9
<1>8. CASE DuringRestore
  <2>1. /\ Asked \in Nat /\ Asked >= 1 /\ left.urls # <<>>
    BY <1>1, AskedIsNumber
  <2>2. PICK done \in 0..Asked :
          /\ RestoresUpTo(done)
          /\ \/ done < Asked /\ Brings(done + 1, queue[1])
             \/ done = Asked /\ Len(queue) = 1 /\ restored /\ Selects(queue[1])
    BY <1>2, <1>8, <2>1, WaitsNext
  <2>3. op # "Load" /\ op # "SelectIndex"
    BY DEF Opens
  <2>4. done < Asked /\ done >= 1 /\ c.op = "OpenAt" /\ c.id = done + 1 /\ c.url = left.urls[done + 1] /\ c.at = done
    BY <1>2, <2>1, <2>2, <2>3 DEF Brings, Selects
  <2>5. Len(tabs) = done /\ \A k \in 1..done : tabs[k] = k
    BY <2>2, <2>4 DEF RestoresUpTo
  <2>6. Len(tabs') = done + 1 /\ \A k \in 1..(done + 1) : tabs'[k] = k
    <3>1. Len(tabs') = done + 1 /\ tabs'[done + 1] = done + 1 /\ \A k \in 1..done : tabs'[k] = k
      BY <1>6, <2>4, <2>5
    <3>2. \A k \in 1..(done + 1) : k \in 1..done \/ k = done + 1
      OBVIOUS
    <3> QED BY <3>1, <3>2
  <2>7. (\A k \in 1..done : url'[k] = url[k]) /\ url'[done + 1] = left.urls[done + 1]
    BY <1>2, <1>4, <1>5, <2>4
  <2>8. active # 0 => active' = active
    BY <1>2, <1>4, <2>4
  <2>9. DuringRestore'
    BY <1>1, <1>2, <1>8, <2>1, <2>2, <2>4, <2>6, <2>7, <2>8, OneMore
  <2> QED BY <1>1, <1>2, <2>9
<1> QED BY <1>3, <1>7, <1>8

\* The command that runs is one of the restore's, or the one for the registry's own tab.
LEMMA BackTakes ==
  ASSUME RegistryOK, LeftOK, NEW op, Take(op), BeforeRestore \/ DuringRestore, left.urls # <<>>
  PROVE  op \in {"Open", "Load", "OpenAt", "SelectIndex"} /\ (op # "Open" => DuringRestore)
<1>1. queue # <<>> /\ Head(queue) = queue[1] /\ Head(queue).op = op
  BY TakesOne
<1>2. CASE BeforeRestore
  <2>1. queue = <<FirstTab>>
    BY <1>1, <1>2 DEF BeforeRestore
  <2> QED BY <1>1, <2>1, FirstTabWaits
<1>3. CASE DuringRestore
  BY <1>1, <1>3, WaitsNext
<1> QED BY <1>2, <1>3

LEMMA BackAfterLoad ==
  ASSUME RegistryOK, LeftOK, ComingBack, RunLoad
  PROVE  ComingBack'
<1> SUFFICES ASSUME stage' = "up", quiet', left'.urls # <<>>
             PROVE  closing' = 0 /\ (BeforeRestore' \/ DuringRestore')
  BY DEF ComingBack
<1> DEFINE c == Head(queue)
<1>1. /\ Take("Load") /\ UNCHANGED <<left, unused, restored, host, stage, closing, quiet, tabs, active>>
      /\ c.id \in Range(tabs) => url' = [url EXCEPT ![c.id] = c.url]
  BY DEF RunLoad, hostVars
<1>2. /\ queue # <<>> /\ Len(queue) >= 1 /\ c = queue[1] /\ c.op = "Load"
      /\ Len(queue') = Len(queue) - 1 /\ \A i \in 1..Len(queue') : queue'[i] = queue[i + 1]
  BY <1>1, TakesOne
<1>3. closing = 0 /\ DuringRestore /\ left.urls # <<>>
  BY <1>1, BackIs, BackTakes
<1>4. tabs \in Seq(Ids) /\ url \in [Ids -> Addresses] /\ 1 \in Ids
  BY Bounds DEF RegistryOK, TabTypes
<1>5. Asked \in Nat /\ Asked >= 1
  BY <1>3, AskedIsNumber
<1>6. PICK done \in 0..Asked :
        /\ RestoresUpTo(done)
        /\ \/ done < Asked /\ Brings(done + 1, queue[1])
           \/ done = Asked /\ Len(queue) = 1 /\ restored /\ Selects(queue[1])
  BY <1>2, <1>3, WaitsNext
<1>7. done < Asked /\ done = 0 /\ c.id = 1 /\ c.url = left.urls[1]
  BY <1>2, <1>5, <1>6 DEF Brings, Selects
<1>8. Len(tabs) = 1 /\ tabs[1] = 1
  BY <1>6, <1>7 DEF RestoresUpTo
<1>9. 1 \in Range(tabs)
  BY <1>4, <1>8, Listed
<1>10. url'[1] = left.urls[1]
  BY <1>1, <1>4, <1>7, <1>9
<1>11. Len(tabs') = done + 1 /\ \A k \in 1..(done + 1) : tabs'[k] = k
  BY <1>1, <1>7, <1>8
<1>12. (\A k \in 1..done : url'[k] = url[k]) /\ url'[done + 1] = left.urls[done + 1]
  BY <1>7, <1>10
<1>13. DuringRestore'
  BY <1>1, <1>2, <1>3, <1>5, <1>6, <1>7, <1>11, <1>12, OneMore
<1> QED BY <1>1, <1>3, <1>13

LEMMA BackAfterSelect ==
  ASSUME RegistryOK, LeftOK, ComingBack, RunSelectIndex
  PROVE  ComingBack'
<1> SUFFICES ASSUME stage' = "up", quiet', left'.urls # <<>>
             PROVE  closing' = 0 /\ (BeforeRestore' \/ DuringRestore')
  BY DEF ComingBack
<1> DEFINE at == Head(queue).at
<1>1. /\ Take("SelectIndex") /\ UNCHANGED <<left, unused, restored, host, stage, closing, quiet, tabs, url>>
      /\ at < Len(tabs) => active' = tabs[at + 1]
  BY DEF RunSelectIndex, hostVars
<1>2. /\ queue # <<>> /\ Len(queue) >= 1 /\ Head(queue) = queue[1] /\ Head(queue).op = "SelectIndex"
      /\ Len(queue') = Len(queue) - 1 /\ \A i \in 1..Len(queue') : queue'[i] = queue[i + 1]
  BY <1>1, TakesOne
<1>3. closing = 0 /\ DuringRestore /\ left.urls # <<>>
  BY <1>1, BackIs, BackTakes
<1>4. Asked \in Nat /\ Asked >= 1 /\ Count \in Nat
  BY <1>3, AskedIsNumber
<1>5. PICK done \in 0..Asked :
        /\ RestoresUpTo(done)
        /\ \/ done < Asked /\ Brings(done + 1, queue[1])
           \/ done = Asked /\ Len(queue) = 1 /\ restored /\ Selects(queue[1])
  BY <1>2, <1>3, WaitsNext
<1>6. done = Asked /\ Len(queue) = 1 /\ restored /\ at \in 0..(Count - 1)
      /\ (Whole => left.urls[at + 1] = left.showing)
  BY <1>2, <1>5 DEF Brings, Selects
<1>7. Asked = Count /\ done = Count /\ done # 0
  BY <1>4, <1>6 DEF Asked, LeftOK
<1>8. Len(tabs) = Count /\ \A k \in 1..Len(tabs) : tabs[k] = k
  BY <1>5, <1>7 DEF RestoresUpTo
<1>9. active' = at + 1 /\ at + 1 \in 1..Count
  BY <1>1, <1>4, <1>6, <1>8
<1>10. Asked' = Asked /\ Count' = Count /\ (Whole' <=> Whole) /\ Len(queue') = Asked - done
  BY <1>1, <1>2, <1>4, <1>6 DEF Asked, Count, Whole
<1>11. \A j : j \notin 1..(Asked - done)
  BY <1>4, <1>6
<1>12. Len(queue') # Asked - done + 1 /\ Asked - done = 0
  BY <1>4, <1>6, <1>10
<1> HIDE DEF at
<1>13. \A k \in 1..done : url[k] = left.urls[k]
  BY <1>5 DEF RestoresUpTo
<1>14. RestoresUpTo(done)'
  BY <1>1, <1>6, <1>7, <1>8, <1>9, <1>10, <1>11, <1>12, <1>13 DEF RestoresUpTo
<1>15. \E d \in 0..Asked' : RestoresUpTo(d)'
  BY <1>10, <1>14
<1>16. DuringRestore'
  BY <1>1, <1>3, <1>10, <1>15 DEF DuringRestore
<1> QED BY <1>1, <1>3, <1>16

LEMMA BackAfterEngine ==
  ASSUME RegistryOK, SessionsOK, LeftOK, ComingBack, EngineStep \/ WorkerWrites
  PROVE  ComingBack'
<1>1. CASE RunOpen("Open") \/ RunOpen("OpenAt")
  BY <1>1, BackAfterOpen DEF Opens
<1>2. CASE RunClose \/ RunMark
  <2> SUFFICES ASSUME stage' = "up", quiet', left'.urls # <<>> PROVE FALSE
    BY DEF ComingBack
  <2>1. UNCHANGED <<stage, quiet, left>> /\ \E op : op \in {"Close", "Mark"} /\ Take(op)
    BY <1>2 DEF RunClose, RunMark, hostVars, ghosts
  <2> QED BY <2>1, BackIs, BackTakes
<1>3. CASE FinishClose
  <2> SUFFICES ASSUME stage' = "up", quiet', left'.urls # <<>> PROVE FALSE
    BY DEF ComingBack
  <2>1. UNCHANGED <<stage, quiet, left>> /\ closing # 0
    BY <1>3 DEF FinishClose, hostVars
  <2> QED BY <2>1, BackIs
<1>4. CASE RunLoad \/ RunSelectIndex
  BY <1>4, BackAfterLoad, BackAfterSelect
<1>5. ASSUME NEW id \in Ids, PageOpens(id) PROVE ComingBack'
  BY <1>5 DEF PageOpens, ComingBack
<1>6. ASSUME NEW id \in Ids, PageSettles(id) PROVE ComingBack'
  <2>1. UNCHANGED <<left, closing, queue, tabs, active, unused, restored, host, stage>>
    BY <1>6 DEF PageSettles
  <2>2. \/ quiet' = quiet /\ url' = [url EXCEPT ![id] = IF @ = 0 THEN id ELSE @]
        \/ quiet' = FALSE
    BY <1>6 DEF PageSettles
  <2>3. CASE quiet' = FALSE
    BY <2>3 DEF ComingBack
  <2>4. CASE quiet' = quiet /\ url' = [url EXCEPT ![id] = IF @ = 0 THEN id ELSE @]
    <3>1. url \in [Ids -> Addresses]
      BY DEF RegistryOK, TabTypes
    <3>2. \A t : url[t] # 0 => url'[t] = url[t]
      BY <2>4, <3>1
    <3> QED BY <2>1, <2>4, <3>2, BackStays
  <2> QED BY <2>2, <2>3, <2>4
<1>7. CASE PumpPrepares \/ PumpEncodes \/ PumpSubmits \/ WorkerWrites
  <2>1. UNCHANGED <<left, closing, queue, tabs, active, url, unused, restored, host, stage, quiet>>
    BY <1>7 DEF PumpPrepares, PumpEncodes, PumpSubmits, WorkerWrites, registryVars, hostVars, ghosts
  <2> QED BY <2>1, BackStays
<1> QED BY <1>1, <1>2, <1>3, <1>4, <1>5, <1>6, <1>7 DEF EngineStep

\* What the host reads is what was left.
LEMMA EntriesAreLeft ==
  ASSUME RegistryOK, LeftOK, Entries # <<>>, ~restored
  PROVE  /\ Len(Entries) = Count /\ \A i \in 1..Count : Entries[i].url = left.urls[i]
         /\ Whole => restore.active \in 0..(Count - 1) /\ left.urls[restore.active + 1] = left.showing
<1>1. loaded
  BY EmptyIsRestore DEF RegistryOK, HostOK, Entries
<1> QED BY <1>1 DEF LeftOK, Entries

LEMMA BackAfterAdopt ==
  ASSUME RegistryOK, LeftOK, ComingBack, AdoptFirst
  PROVE  ComingBack'
<1> SUFFICES ASSUME stage' = "up", quiet', left'.urls # <<>>
             PROVE  closing' = 0 /\ (BeforeRestore' \/ DuringRestore')
  BY DEF ComingBack
<1>1. /\ UNCHANGED <<left, unused, restored, stage, closing, quiet, tabs, url, active>>
      /\ host = Idle /\ ~restored /\ tabs # <<>> /\ Entries # <<>>
  BY DEF AdoptFirst, HostIdle, ghosts
<1>2. PICK c \in Commands :
        /\ queue' = Append(queue, c) /\ c.op = "Load" /\ c.id = tabs[1] /\ c.url = Entries[1].url
        /\ host'.at = "restoring" /\ host'.i = 1 /\ 1 \in 1..Len(Entries)
  BY RestorePosts
<1>3. host.at # "restoring"
  BY <1>1, HostValues
<1>4. closing = 0 /\ BeforeRestore
  BY <1>1, <1>3, BackIs DEF DuringRestore
<1>5. queue = <<>> /\ tabs = <<1>> /\ url[1] # 0 /\ unused = 2
  BY <1>1, <1>4 DEF BeforeRestore
<1>6. queue' = <<c>>
  BY <1>2, <1>5
<1>7. Len(Entries) = Count /\ (\A i \in 1..Count : Entries[i].url = left.urls[i]) /\ Count \in Nat /\ Count >= 1
  BY <1>1, EntriesAreLeft, LeftIsTyped
<1>8. c.id = 1 /\ c.url = left.urls[1]
  BY <1>2, <1>5, <1>7
<1>9. Asked' = 1 /\ Count' = Count
  BY <1>1, <1>2 DEF Asked, Count
<1>10. Brings(1, c)'
  BY <1>1, <1>2, <1>8 DEF Brings
<1>11. Len(queue') = 1 /\ queue'[1] = c
  BY <1>6
<1>12. Len(tabs') = 1 /\ (\A k \in 1..Len(tabs') : tabs'[k] = k) /\ url'[1] # 0
  BY <1>1, <1>5
<1> DEFINE done == 0
<1>13. /\ done \in 0..Asked' /\ Len(queue') = Asked' - done /\ Len(queue') # Asked' - done + 1 /\ ~restored'
       /\ \A j \in 1..(Asked' - done) : j = 1 /\ done + j = 1
       /\ (\A k : k \notin 1..done) /\ done = 0
  BY <1>1, <1>9, <1>11
<1> HIDE DEF done
<1>14. RestoresUpTo(done)'
  BY <1>9, <1>10, <1>11, <1>12, <1>13 DEF RestoresUpTo
<1>15. DuringRestore'
  BY <1>1, <1>2, <1>5, <1>7, <1>9, <1>13, <1>14 DEF DuringRestore
<1> QED BY <1>1, <1>4, <1>15

LEMMA BackAfterNext ==
  ASSUME RegistryOK, LeftOK, ComingBack, RestoreNext
  PROVE  ComingBack'
<1> SUFFICES ASSUME stage' = "up", quiet', left'.urls # <<>>
             PROVE  closing' = 0 /\ (BeforeRestore' \/ DuringRestore')
  BY DEF ComingBack
<1>1. /\ UNCHANGED <<left, restored, stage, closing, quiet, tabs, url, active>>
      /\ host.at = "restoring" /\ host.i < Len(Entries) /\ unused' = unused + 1
  BY DEF RestoreNext, Reserves
<1>2. PICK c \in Commands :
        /\ queue' = Append(queue, c) /\ c.op = "OpenAt" /\ c.id = unused /\ c.url = Entries[host.i + 1].url
        /\ c.at = host.i /\ host'.at = "restoring" /\ host'.i = host.i + 1 /\ host.i + 1 \in 1..Len(Entries)
  BY RestorePosts
<1>3. closing = 0 /\ DuringRestore
  BY <1>1, BackIs DEF BeforeRestore
<1>4. ~restored
  BY <1>1 DEF LeftOK
<1>5. /\ Asked = host.i /\ Asked' = Asked + 1 /\ Count' = Count /\ Asked \in Nat /\ Asked >= 1 /\ unused = Asked + 1
      /\ Count \in Nat
  BY <1>1, <1>2, <1>3, AskedIsNumber DEF Asked, Count, DuringRestore
<1>6. Entries # <<>>
  BY <1>1, EmptyIsRestore, <1>5
<1>7. Len(Entries) = Count /\ \A i \in 1..Count : Entries[i].url = left.urls[i]
  BY <1>4, <1>6, EntriesAreLeft
<1>8. Asked + 1 <= Count /\ c.id = Asked + 1 /\ c.at = Asked /\ c.url = left.urls[Asked + 1]
  BY <1>2, <1>5, <1>7
<1> PICK n \in Nat : n = Asked
  BY <1>5
<1>9. Brings(n + 1, c)'
  BY <1>1, <1>2, <1>5, <1>8 DEF Brings
<1>10. PICK done \in 0..Asked : RestoresUpTo(done)
  BY <1>3 DEF DuringRestore
<1>11. queue \in Seq(Commands)
  BY DEF RegistryOK, QueueOK
<1>12. Len(queue) = Asked - done /\ Len(queue) \in Nat
  BY <1>4, <1>10, <1>11 DEF RestoresUpTo
<1>13. Len(queue') = Len(queue) + 1 /\ queue'[Len(queue) + 1] = c /\ \A j \in 1..Len(queue) : queue'[j] = queue[j]
  BY <1>2, <1>11
<1>14. /\ done \in 0..Asked' /\ Len(queue') = Asked' - done /\ Len(queue') # Asked' - done + 1
  <2>1. Asked' = n + 1 /\ done \in 0..n /\ Len(queue') = n - done + 1
    BY <1>5, <1>12, <1>13
  <2> QED BY <2>1
<1>15. \A r, d : Brings(r, d)' <=> Brings(r, d)
  BY <1>1 DEF Brings
<1>16. ASSUME NEW j \in 1..(Asked' - done) PROVE Brings(done + j, queue'[j])
  <2>1. j \in 1..(n - done) \/ (j = Len(queue) + 1 /\ done + j = n + 1)
    <3>1. Len(queue) = n - done /\ done \in 0..n
      BY <1>12
    <3>2. Asked' = n + 1
      BY <1>5
    <3>3. j \in 1..(n + 1 - done)
      BY <3>2
    <3> QED BY <3>1, <3>3
  <2>2. CASE j \in 1..(n - done)
    BY <1>10, <1>12, <1>13, <2>2 DEF RestoresUpTo
  <2>3. CASE j = Len(queue) + 1 /\ done + j = n + 1
    <3>1. queue'[j] = c
      BY <1>13, <2>3
    <3> QED BY <1>9, <1>15, <2>3, <3>1
  <2> QED BY <2>1, <2>2, <2>3
<1>17. RestoresUpTo(done)'
  BY <1>1, <1>4, <1>10, <1>14, <1>15, <1>16 DEF RestoresUpTo
<1>18. \E d \in 0..Asked' : RestoresUpTo(d)'
  BY <1>14, <1>17
<1>19. DuringRestore'
  BY <1>1, <1>2, <1>5, <1>8, <1>18 DEF DuringRestore
<1> QED BY <1>1, <1>3, <1>19

LEMMA BackAfterSelects ==
  ASSUME RegistryOK, LeftOK, ComingBack, RestoreSelects
  PROVE  ComingBack'
<1> SUFFICES ASSUME stage' = "up", quiet', left'.urls # <<>>
             PROVE  closing' = 0 /\ (BeforeRestore' \/ DuringRestore')
  BY DEF ComingBack
<1>1. /\ UNCHANGED <<left, unused, stage, closing, quiet, tabs, url, active>>
      /\ host.at = "restoring" /\ host.i = Len(Entries) /\ restored' = TRUE
  BY DEF RestoreSelects
<1>2. /\ host'.at = "idle"
      /\ \/ restore.active \notin 0..(Len(Entries) - 1) /\ UNCHANGED queue
         \/ /\ restore.active \in 0..(Len(Entries) - 1)
            /\ \E c \in Commands : queue' = Append(queue, c) /\ c.op = "SelectIndex" /\ c.at = restore.active
  BY RestorePosts
<1>3. closing = 0 /\ DuringRestore
  BY <1>1, BackIs DEF BeforeRestore
<1>4. ~restored
  BY <1>1 DEF LeftOK
<1>5. Asked = host.i /\ Asked \in Nat /\ Asked >= 1 /\ unused = Asked + 1 /\ Count \in Nat
  BY <1>1, <1>3, AskedIsNumber DEF Asked, DuringRestore
<1>6. Entries # <<>>
  BY <1>1, EmptyIsRestore, <1>5
<1>7. Len(Entries) = Count
      /\ (Whole => restore.active \in 0..(Count - 1) /\ left.urls[restore.active + 1] = left.showing)
  BY <1>4, <1>6, EntriesAreLeft
<1>8. Asked = Count /\ Asked' = Count /\ Count' = Count /\ (Whole' <=> Whole)
  BY <1>1, <1>2, <1>5, <1>7 DEF Asked, Count, Whole
<1>9. PICK done \in 0..Asked : RestoresUpTo(done)
  BY <1>3 DEF DuringRestore
<1>10. queue \in Seq(Commands)
  BY DEF RegistryOK, QueueOK
<1>11. Len(queue) = Asked - done /\ Len(queue) \in Nat
  BY <1>4, <1>9, <1>10 DEF RestoresUpTo
<1>12. /\ \A r, c : Brings(r, c)' <=> Brings(r, c)
       /\ \A c : Selects(c)' <=> Selects(c)
  BY <1>1, <1>8 DEF Brings, Selects
<1>13. CASE UNCHANGED queue /\ restore.active \notin 0..(Len(Entries) - 1)
  <2>1. ~Whole /\ Len(queue') = Asked - done /\ Len(queue') # Asked - done + 1
    BY <1>7, <1>11, <1>13
  <2>2. RestoresUpTo(done)'
    BY <1>1, <1>8, <1>9, <1>12, <1>13, <2>1 DEF RestoresUpTo
  <2> QED BY <1>1, <1>2, <1>3, <1>5, <1>8, <2>2 DEF DuringRestore
<1>14. CASE \E c \in Commands : queue' = Append(queue, c) /\ c.op = "SelectIndex" /\ c.at = restore.active
                              /\ restore.active \in 0..(Len(Entries) - 1)
  <2>1. PICK c \in Commands : queue' = Append(queue, c) /\ c.op = "SelectIndex" /\ c.at = restore.active
                              /\ restore.active \in 0..(Len(Entries) - 1)
    BY <1>14
  <2>2. Selects(c)
    BY <1>7, <2>1 DEF Selects
  <2>3. Len(queue') = Asked - done + 1 /\ queue'[Len(queue')] = c /\ \A j \in 1..(Asked - done) : queue'[j] = queue[j]
    BY <1>10, <1>11, <2>1
  <2>4. Len(queue') # Asked - done
    BY <1>11, <2>3
  <2>5. RestoresUpTo(done)'
    BY <1>1, <1>8, <1>9, <1>12, <2>2, <2>3, <2>4 DEF RestoresUpTo
  <2> QED BY <1>1, <1>2, <1>3, <1>5, <1>8, <2>5 DEF DuringRestore
<1> QED BY <1>2, <1>13, <1>14

LEMMA BackKept == ASSUME RegistryOK, SessionsOK, LeftOK, ComingBack, Next PROVE ComingBack'
<1>1. CASE EngineStep \/ WorkerWrites
  BY <1>1, BackAfterEngine
<1>2. CASE MarkPrivate \/ Person
  BY <1>2 DEF MarkPrivate, Person, ComingBack
<1>3. CASE OpenMarked
  <2>1. ~quiet /\ quiet' = quiet
    BY <1>3 DEF OpenMarked, LeftOK
  <2> QED BY <2>1 DEF ComingBack
<1>4. CASE RestoreNothing
  <2> SUFFICES ASSUME stage' = "up", quiet', left'.urls # <<>> PROVE FALSE
    BY DEF ComingBack
  <2>1. /\ loaded /\ quiet /\ left' = left /\ ~restored /\ Entries = <<>>
    BY <1>4 DEF RestoreNothing
  <2>2. Len(restore.entries) = Count
    BY <2>1 DEF LeftOK
  <2>3. Len(restore.entries) = 0
    BY <2>1 DEF Entries
  <2>4. Count >= 1 /\ Count \in Nat
    BY <2>1, LeftIsTyped
  <2> QED BY <2>2, <2>3, <2>4
<1>5. CASE AdoptFirst \/ RestoreNext \/ RestoreSelects
  BY <1>5, BackAfterAdopt, BackAfterNext, BackAfterSelects
<1>6. CASE QuitBegins
  <2>1. /\ UNCHANGED <<left, closing, tabs, active, url, unused, restored, quiet>> /\ host = Idle
        /\ \/ stage' = "stopping"
           \/ stage' = stage /\ queue' = queue
              /\ host' = [Idle EXCEPT !.at = "listing", !.n = Len(tabs), !.active = active]
    BY <1>6 DEF QuitBegins, HostIdle
  <2>2. CASE stage' = "stopping"
    BY <2>2 DEF ComingBack
  <2>3. CASE stage' = stage /\ queue' = queue
             /\ host' = [Idle EXCEPT !.at = "listing", !.n = Len(tabs), !.active = active]
    <3>1. host.at # "restoring" /\ host'.at # "restoring"
      BY <2>1, <2>3, HostValues DEF Idle
    <3> QED BY <2>1, <2>3, <3>1, BackStays
  <2> QED BY <2>1, <2>2, <2>3
<1>7. CASE QuitLists \/ QuitWrites \/ QuitStops
  <2>1. UNCHANGED <<left, closing, queue, tabs, active, url, unused, restored, stage, quiet>>
    BY <1>7 DEF QuitLists, QuitWrites, QuitStops, registryVars, ghosts
  <2>2. host.at # "restoring"
    BY <1>7 DEF QuitLists, QuitWrites, QuitStops
  <2>3. host'.at # "restoring"
    <3>1. CASE QuitLists
      BY <3>1, QuitListsKeeps
    <3>2. CASE QuitWrites
      BY <3>2, HostValues DEF QuitWrites
    <3>3. CASE QuitStops
      BY <3>3, QuitEndsKeep
    <3> QED BY <1>7, <3>1, <3>2, <3>3
  <2> QED BY <2>1, <2>2, <2>3, BackStays
<1>8. CASE QuitJoins \/ RunShutdown \/ Killed
  BY <1>8 DEF QuitJoins, RunShutdown, Killed, Ends, ComingBack
<1>9. CASE Restart
  <2>1. /\ stage = "down" /\ UNCHANGED <<left, closing, queue, tabs, unused, restored, host>>
    BY <1>9 DEF Restart, registryVars
  <2>2. closing = 0 /\ queue = <<FirstTab>> /\ tabs = <<>> /\ unused = 2 /\ ~restored
    BY <2>1 DEF LeftOK
  <2>3. host.at # "restoring"
    BY <2>1, HostValues DEF RegistryOK, HostOK
  <2>4. closing' = 0 /\ BeforeRestore'
    BY <2>1, <2>2, <2>3 DEF BeforeRestore, FirstTab
  <2> QED BY <2>4 DEF ComingBack
<1> QED BY <1>1, <1>2, <1>3, <1>4, <1>5, <1>6, <1>7, <1>8, <1>9 DEF Next, HostStep

-----------------------------------------------------------------------------
(* The theorems.                                                           *)

LEMMA ProfileInit == Init => IInv
<1> SUFFICES ASSUME Init PROVE IInv
  OBVIOUS
<1>1. Fresh /\ stage = "up" /\ work = <<>> /\ hand = Nothing /\ file = Nothing /\ last = Nothing /\ left = Left(Nothing)
  BY DEF Init, Fresh
<1>2. RegistryOK
  BY <1>1, FreshIsConsistent
<1>3. MarkOK
  BY <1>1, FreshIsMarked
<1>4. host = Idle /\ host.at = "idle" /\ ~stopped /\ ~loaded
  BY <1>1, HostValues DEF Fresh
<1> DEFINE none == <<>>
<1>5. none \in Seq(Sessions) /\ Len(none) = 0 /\ work = none
  BY <1>1
<1> HIDE DEF none
<1>6. SessionsOK
  BY <1>1, <1>5, NothingIsSound DEF SessionsOK
<1>7. QuitOK
  BY <1>1, <1>4 DEF QuitOK, Listing
<1>8. StopsOK
  <2>1. queue = <<FirstTab>>
    BY <1>1 DEF Fresh
  <2>2. \A i \in 1..Len(queue) : queue[i].op = "Open"
    BY <2>1, FirstTabWaits
  <2> QED BY <2>2 DEF StopsOK
<1>9. LeftOK
  <2>1. left \in LeftValues
    BY <1>1, <1>6, LoadedIsLeft DEF SessionsOK
  <2>2. left = Left(file)
    BY <1>1
  <2> QED BY <1>1, <1>4, <2>1, <2>2 DEF LeftOK
<1>10. ComingBack
  BY <1>1, <1>4 DEF Fresh, ComingBack, BeforeRestore
<1> QED BY <1>2, <1>3, <1>6, <1>7, <1>8, <1>9, <1>10 DEF IInv

LEMMA ProfileStutters == ASSUME IInv, UNCHANGED vars PROVE IInv'
<1>1. /\ UNCHANGED <<queue, tabs, active, url, loading, closing, prepared, loaded, nextPrivate, private, ephemeral, store>>
      /\ UNCHANGED <<restore, dirty, hand, work, stopped, file, host, unused, stage, restored, asked, denied, stolen, left, quiet, last>>
  BY DEF vars, registryVars, storeVars, sessionVars, hostVars, ghosts
<1>2. RegistryOK'
  <2>1. TabTypes' /\ FlagTypes' /\ HostOK' /\ TabsOK'
    BY <1>1 DEF IInv, RegistryOK, TabTypes, FlagTypes, HostOK, TabsOK
  <2>2. StoresOK' /\ QueueOK(queue', tabs', unused', private')
    BY <1>1 DEF IInv, RegistryOK, StoresOK, Open
  <2> QED BY <2>1, <2>2 DEF RegistryOK
<1>3. MarkOK'
  BY <1>1 DEF IInv, MarkOK, MarksOK, Waits, AskedOK, Open
<1>4. SessionsOK'
  BY <1>1 DEF IInv, SessionsOK
<1>5. QuitOK'
  <2>1. Encoded(Kept(tabs), active)' = Encoded(Kept(tabs), active)
    BY <1>1 DEF Encoded, Kept
  <2>2. Listing'
    BY <1>1, <2>1 DEF IInv, QuitOK, Listing, Kept
  <2> QED BY <1>1, <2>2 DEF IInv, QuitOK, IsLast
<1>6. StopsOK'
  BY <1>1 DEF IInv, StopsOK
<1>7. LeftOK' /\ ComingBack'
  <2>1. LeftOK /\ ComingBack /\ RegistryOK
    BY DEF IInv
  <2>2. LeftOK'
    BY <1>1, <2>1 DEF LeftOK, Count, Whole
  <2> QED BY <1>1, <2>1, <2>2, BackStays
<1> QED BY <1>2, <1>3, <1>4, <1>5, <1>6, <1>7 DEF IInv

LEMMA ProfileStep == ASSUME IInv, Next PROVE IInv'
<1>1. RegistryOK'
  BY RegistryKept DEF IInv
<1>2. MarkOK'
  BY MarkKept DEF IInv
<1>3. SessionsOK' /\ QuitOK' /\ StopsOK'
  BY SessionsKept, QuitKept, StopsKept DEF IInv
<1>4. LeftOK' /\ ComingBack'
  BY LeftKept, BackKept DEF IInv
<1> QED BY <1>1, <1>2, <1>3, <1>4 DEF IInv

LEMMA ProfileInvariant == Spec => []IInv
<1>1. Init => IInv
  BY ProfileInit
<1>2. IInv /\ [Next]_vars => IInv'
  BY ProfileStep, ProfileStutters
<1> QED BY <1>1, <1>2, PTL DEF Spec

LEMMA TypesHold == IInv => TypeOK
<1> SUFFICES ASSUME IInv PROVE TypeOK
  OBVIOUS
<1>1. RegistryOK /\ SessionsOK
  BY DEF IInv
<1>2. queue \in Seq(Commands)
  BY <1>1 DEF RegistryOK, QueueOK
<1>3. /\ tabs \in Seq(Ids) /\ active \in 0..MaxTabs /\ url \in [Ids -> Addresses]
      /\ loading \subseteq Ids /\ closing \in 0..MaxTabs
      /\ private \subseteq Ids /\ ephemeral \in 0..MaxTabs /\ store \in [Ids -> -1..MaxTabs]
  BY <1>1 DEF RegistryOK, TabTypes
<1>4. {prepared, loaded, nextPrivate, dirty, stopped, restored} \subseteq BOOLEAN
  BY <1>1 DEF RegistryOK, FlagTypes
<1>5. hand \in Sessions /\ work \in Seq(Sessions) /\ file \in Sessions
  BY <1>1 DEF SessionsOK, Sound
<1>6. unused \in 1..(MaxTabs + 1) /\ stage \in {"up", "stopping", "down"}
  BY <1>1 DEF RegistryOK, HostOK
<1> QED BY <1>2, <1>3, <1>4, <1>5, <1>6 DEF TypeOK, Commands

LEMMA StoresAgree == IInv => OneSession /\ SessionEnds /\ AskedIsGiven
<1> SUFFICES ASSUME IInv PROVE OneSession /\ SessionEnds /\ AskedIsGiven
  OBVIOUS
<1>1. RegistryOK /\ MarkOK
  BY DEF IInv
<1>2. /\ \A t \in private : store[t] = ephemeral /\ ephemeral > 0 /\ t # closing
      /\ private = {} => ephemeral = 0
      /\ \A t \in Open : store[t] > 0 => t \in private
  BY <1>1 DEF RegistryOK, StoresOK
<1>3. tabs \in Seq(Ids) /\ store \in [Ids -> -1..MaxTabs] /\ MaxTabs \in Nat
  BY <1>1, Bounds DEF RegistryOK, TabTypes
<1>4. OneSession
  BY <1>2 DEF OneSession, Persistent
<1>5. SessionEnds
  <2> SUFFICES ASSUME private \subseteq Range(tabs), \A t \in Open : store[t] <= Persistent PROVE ephemeral = 0
    BY DEF SessionEnds
  <2>1. ASSUME NEW t \in private PROVE FALSE
    <3>1. t \in Open /\ store[t] = ephemeral /\ ephemeral > 0
      BY <1>2, <2>1 DEF Open
    <3>2. t \in Ids
      BY <1>3, Listed, <2>1
    <3>3. store[t] \in Int
      BY <1>3, <3>2
    <3> QED BY <3>1, <3>3 DEF Persistent
  <2> QED BY <1>2, <2>1
<1>6. AskedIsGiven
  BY <1>1 DEF AskedIsGiven, MarkOK, AskedOK
<1> QED BY <1>4, <1>5, <1>6

LEMMA NothingPrivate == IInv => PrivateNeverWritten
<1> SUFFICES ASSUME IInv, NEW s \in Range(work) \cup {hand, file}, NEW e \in Range(s.entries) PROVE ~e.private
  BY DEF PrivateNeverWritten
<1>1. SessionsOK
  BY DEF IInv
<1>2. work \in Seq(Sessions) /\ \A i \in 1..Len(work) : Sound(work[i]) /\ Clean(work[i])
  BY <1>1 DEF SessionsOK
<1>3. Sound(s) /\ Clean(s)
  <2>1. CASE s \in Range(work)
    BY <1>2, <2>1, Listed
  <2>2. CASE s \in {hand, file}
    BY <1>1, <2>2 DEF SessionsOK
  <2> QED BY <2>1, <2>2
<1>4. s.entries \in Seq(EntryValues)
  BY <1>3 DEF Sound, Sessions, EntryValues
<1>5. PICK i \in 1..Len(s.entries) : s.entries[i] = e
  BY <1>4, Listed
<1> QED BY <1>3, <1>5 DEF Clean

LEMMA QuitIsKept == IInv => QuitKeepsSession
BY DEF IInv, QuitOK, QuitKeepsSession

LEMMA AllComeBack == IInv => ComesBack
<1> SUFFICES ASSUME IInv, Settled
             PROVE  /\ [i \in 1..Len(tabs) |-> url[tabs[i]]] = left.urls
                    /\ left.showing # 0 /\ ~left.blank => url[active] = left.showing
  BY DEF ComesBack
<1>1. stage = "up" /\ host = Idle /\ restored /\ queue = <<>> /\ closing = 0 /\ quiet /\ left.urls # <<>>
  BY DEF Settled
<1>2. RegistryOK /\ LeftOK /\ ComingBack
  BY DEF IInv
<1>3. DuringRestore
  BY <1>1, <1>2, BackIs DEF BeforeRestore
<1>4. Asked = Count /\ Count \in Nat /\ Count >= 1 /\ left.urls \in Seq(Addresses \ {0})
  BY <1>1, <1>2, AskedIsNumber, HostValues DEF Asked
<1>5. PICK done \in 0..Asked : RestoresUpTo(done)
  BY <1>3 DEF DuringRestore
<1>6. Len(queue) = 0
  BY <1>1
<1>7. done = Count /\ Len(queue) = Asked - done
  <2>1. Len(queue) \in {Asked - done, Asked - done + 1}
    BY <1>5 DEF RestoresUpTo
  <2> QED BY <1>4, <1>6, <2>1
<1>8. Len(tabs) = Count /\ (\A k \in 1..Count : tabs[k] = k /\ url[k] = left.urls[k])
      /\ (Whole => active \in 1..Count /\ left.urls[active] = left.showing)
  BY <1>1, <1>4, <1>5, <1>7 DEF RestoresUpTo
<1>9. [i \in 1..Len(tabs) |-> url[tabs[i]]] = left.urls
  <2>1. left.urls = [i \in 1..Count |-> left.urls[i]]
    BY <1>4 DEF Count
  <2>2. \A i \in 1..Count : url[tabs[i]] = left.urls[i]
    BY <1>8
  <2> QED BY <1>8, <2>1, <2>2
<1>10. Whole => url[active] = left.showing
  BY <1>8
<1> QED BY <1>9, <1>10 DEF Whole

\* The stores of the open tabs, the list of private tabs, the one private session and
\* what each tab was asked for agree, in any process and whatever its host, its pages
\* and its worker do (profile.cpp: hb_data_store_apply_to_page_configuration, forgetTab).
THEOREM TheProfileIsConsistent == Spec => []ProfileConsistent
<1>1. IInv => ProfileConsistent
  BY TypesHold, StoresAgree DEF ProfileConsistent
<1> QED BY <1>1, ProfileInvariant, PTL

\* No private tab is in the session file, nor in what the pump holds or the worker has
\* yet to write (session.cpp: captureOpenTabs, encodeSession).
THEOREM NothingPrivateIsWritten == Spec => []PrivateNeverWritten
BY NothingPrivate, ProfileInvariant, PTL

\* A quit leaves on disk the tabs that were open, and the process that comes after has
\* them in their order with the same one showing, as long as every one had an address
\* (session.cpp: sessionShutdown, sessionLoad; SessionRestore.kira).
THEOREM TheSessionSurvives == Spec => []SessionSurvives
<1>1. IInv => SessionSurvives
  BY QuitIsKept, AllComeBack DEF SessionSurvives
<1> QED BY <1>1, ProfileInvariant, PTL

=============================================================================
