-------------------------- MODULE NavigationProofs --------------------------
(***************************************************************************)
(* For any number of tabs, commands and reports: what is published of a tab *)
(* is what the WebKit thread knows of it, and a command goes to the entry   *)
(* the person was shown, unless the list or the strip has moved.            *)
(*                                                                         *)
(* The host names an entry by its place in a list it read earlier, and the  *)
(* tab in front by none.  What the proof keeps about a command that waits   *)
(* is what its two stamps still say: while the page's version is the one    *)
(* read the list has the entry at that place, and while the registry's      *)
(* revision is the one read the tab in front is the one that was.           *)
(***************************************************************************)
EXTENDS Navigation, TabListTheorems

QueueEntries == [op : {"Open", "Close", "Select", "Move", "Drain", "Shutdown"}, id : 0..MaxTabs]

PageValues == [list : Seq(Nat), at : Nat, load : {"none", "provisional", "committed"}, version : Nat]

RecordValues == [row : Int, loading : BOOLEAN, error : Int]

CommandValues ==
  [op : {"Load", "Stop", "GoTo"}, tab : 0..MaxTabs, index : Nat, seen : Ids, entry : Nat, version : Nat,
   revision : Nat \cup {-1}]

ValuesOK ==
  /\ page \in [Ids -> PageValues] /\ \A t \in Ids : page[t].at <= Len(page[t].list)
  /\ records \in [DOMAIN records -> RecordValues]
  /\ commands \in Seq(CommandValues)

\* Tab `id' waits to be opened in queue q, and no two such entries are for one tab.
Waiting(q, id) == \E i \in 1..Len(q) : q[i].op = "Open" /\ q[i].id = id

Apart(q) ==
  \A i, j \in 1..Len(q) : q[i].op = "Open" /\ q[j].op = "Open" /\ q[i].id = q[j].id => i = j

\* A tab is waited for, opened and listed once, and has no page before and after.
TabsOK ==
  /\ Distinct(strip) /\ Apart(queue)
  /\ \A t \in Range(strip) : t < unused
  /\ \A id : Waiting(queue, id) => id \in Ids \ Range(strip) /\ id < unused /\ id # task.id
  /\ task.at = "opening" => task.id \in Ids \ Range(strip) /\ task.id < unused
  /\ task.at = "closing" => task.id \in Range(strip)
  /\ task.at \in {"none", "draining"} => task.id = 0
  /\ phase \in {"cycle", "down"} => task = Idle
  /\ \A t \in Ids \ Range(strip) : page[t] = NewPage
  /\ navRevision <= revision

\* The list the host read for a command has not moved, or the version tells.
ListStamped(c) ==
  c.op = "GoTo" /\ c.seen \in DOMAIN records =>
    /\ c.version <= page[c.seen].version
    /\ c.version = page[c.seen].version =>
         c.index + 1 \in 1..Len(page[c.seen].list) /\ page[c.seen].list[c.index + 1] = c.entry

\* The tab in front is the one that was when the host read it, or the revision tells.
FrontStamped(c) ==
  /\ c.tab = 0 /\ c.revision = navRevision /\ navActive # 0 => navActive = c.seen
  /\ c.revision <= revision
  /\ c.revision = revision /\ task.at # "opening" => navRevision = revision
  /\ c.revision = -1 /\ navRevision # -1 => task.at = "draining"

SeenOK(c) == c.tab \in {0, c.seen} /\ c.seen < unused /\ ~Waiting(queue, c.seen)

CommandOK(c) == SeenOK(c) /\ ListStamped(c) /\ FrontStamped(c)

CommandsOK == \A i \in 1..Len(commands) : CommandOK(commands[i])

IInv ==
  TypeOK /\ ValuesOK /\ TabsOK /\ PublishedIsKnown /\ FollowsTheStrip /\ LoadShown /\ CommandsOK

-----------------------------------------------------------------------------
(* The operators.                                                          *)

\* Taking an entry out of the queue, and putting one in.
LEMMA TailWaits ==
  ASSUME NEW q \in Seq(QueueEntries), q # <<>>, Apart(q)
  PROVE  /\ Tail(q) \in Seq(QueueEntries) /\ Apart(Tail(q)) /\ Head(q) \in QueueEntries
         /\ \A id : Waiting(Tail(q), id) => Waiting(q, id)
         /\ Head(q).op = "Open" => Waiting(q, Head(q).id) /\ ~Waiting(Tail(q), Head(q).id)
<1> DEFINE rest == Tail(q)
<1>1. /\ rest \in Seq(QueueEntries) /\ Len(rest) = Len(q) - 1
      /\ \A i \in 1..Len(rest) : i + 1 \in 1..Len(q) /\ rest[i] = q[i + 1]
      /\ 1 \in 1..Len(q) /\ Head(q) = q[1] /\ Head(q) \in QueueEntries
  BY TailOf
<1> HIDE DEF rest
<1>2. Apart(rest)
  BY <1>1 DEF Apart
<1>3. \A id : Waiting(rest, id) => Waiting(q, id)
  BY <1>1 DEF Waiting
<1>4. Head(q).op = "Open" => Waiting(q, Head(q).id) /\ ~Waiting(rest, Head(q).id)
  BY <1>1 DEF Waiting, Apart
<1> QED BY <1>1, <1>2, <1>3, <1>4 DEF rest

LEMMA AppendWaits ==
  ASSUME NEW q \in Seq(QueueEntries), Apart(q), NEW e \in QueueEntries, e.op = "Open" => ~Waiting(q, e.id)
  PROVE  /\ Append(q, e) \in Seq(QueueEntries) /\ Apart(Append(q, e))
         /\ \A id : Waiting(Append(q, e), id) => Waiting(q, id) \/ (e.op = "Open" /\ id = e.id)
<1> DEFINE longer == Append(q, e)
<1>1. /\ longer \in Seq(QueueEntries) /\ Len(longer) = Len(q) + 1
      /\ \A i \in 1..Len(q) : longer[i] = q[i]
      /\ longer[Len(q) + 1] = e
  BY AppendOf
<1> HIDE DEF longer
<1>2. \A i \in 1..Len(longer) : (i \in 1..Len(q) /\ longer[i] = q[i]) \/ (i = Len(q) + 1 /\ longer[i] = e)
  BY <1>1
<1>3. Apart(longer)
  BY <1>2 DEF Apart, Waiting
<1>4. \A id : Waiting(longer, id) => Waiting(q, id) \/ (e.op = "Open" /\ id = e.id)
  BY <1>2 DEF Waiting
<1> QED BY <1>1, <1>3, <1>4 DEF longer

LEMMA TakeWaits ==
  ASSUME IInv, NEW op, Take(op)
  PROVE  /\ phase = "registry" /\ task = Idle
         /\ queue' \in Seq(QueueEntries) /\ Apart(queue') /\ Head(queue) \in QueueEntries /\ Head(queue).op = op
         /\ \A id : Waiting(queue', id) => Waiting(queue, id)
         /\ op = "Open" => Waiting(queue, Head(queue).id) /\ ~Waiting(queue', Head(queue).id)
<1>1. queue \in Seq(QueueEntries) /\ Apart(queue)
  BY DEF IInv, TypeOK, TabsOK, QueueEntries
<1>2. queue # <<>> /\ queue' = Tail(queue) /\ phase = "registry" /\ task = Idle /\ Head(queue).op = op
  BY DEF Take
<1> QED BY <1>1, <1>2, TailWaits


-----------------------------------------------------------------------------
(* Reports.                                                                *)

\* What the invariant says of a tab that has a record.
LEMMA RecordsKnown ==
  ASSUME IInv
  PROVE  /\ DOMAIN records = Alive /\ DOMAIN pages = DOMAIN records /\ DOMAIN records \subseteq Ids
         /\ \A t \in DOMAIN records :
              /\ page[t] \in PageValues /\ page[t].at <= Len(page[t].list) /\ records[t] \in RecordValues
              /\ pages[t] = Snapshot(records[t], page[t])
              /\ pages[t].loading = records[t].loading
              /\ records[t].loading => page[t].load # "none"
              /\ page[t].load # "none" /\ t \notin stopped => records[t].loading
<1>1. DOMAIN records = Alive /\ DOMAIN records \subseteq Ids
  BY DEF IInv, TypeOK, PublishedIsKnown
<1>2. pages = [t \in DOMAIN records |-> Snapshot(records[t], page[t])]
  BY DEF IInv, PublishedIsKnown
<1>3. DOMAIN pages = DOMAIN records /\ \A t \in DOMAIN records : pages[t] = Snapshot(records[t], page[t])
  BY <1>2
<1>4. \A t \in DOMAIN records : pages[t].loading = records[t].loading
  BY <1>3 DEF Snapshot
<1>5. \A t \in DOMAIN records :
        page[t] \in PageValues /\ page[t].at <= Len(page[t].list) /\ records[t] \in RecordValues
  BY <1>1 DEF IInv, ValuesOK
<1>6. \A t \in DOMAIN records :
        /\ pages[t].loading => page[t].load # "none"
        /\ page[t].load # "none" /\ t \notin stopped => pages[t].loading
  BY <1>3 DEF IInv, LoadShown
<1> QED BY <1>1, <1>3, <1>4, <1>5, <1>6

\* A report as the invariant sees it: the page moves on and says so with its
\* version, its row stays, and it is shown loading while it loads.
Told(id, p, record) ==
  /\ id \in Ids /\ (id \in Range(strip) \/ p = page[id])
  /\ p \in PageValues /\ p.at <= Len(p.list)
  /\ p.version > page[id].version \/ (p.version = page[id].version /\ p.list = page[id].list)
  /\ id \in DOMAIN records =>
       /\ record \in RecordValues /\ record.row = records[id].row
       /\ record.loading => p.load # "none"
       /\ p.load # "none" /\ id \notin stopped' => record.loading
  /\ stopped' \subseteq Ids /\ \A t \in Ids \ {id} : t \in stopped' <=> t \in stopped
  /\ Reports(id, p, record)

LEMMA GrownGrows ==
  ASSUME NEW p \in PageValues, p.at <= Len(p.list), NEW load \in {"none", "provisional", "committed"}
  PROVE  /\ [Grown(p) EXCEPT !.load = load] \in PageValues
         /\ Grown(p) \in PageValues /\ Grown(p).at <= Len(Grown(p).list) /\ Grown(p).version = p.version + 1
         /\ Grown(p).load = p.load
<1> DEFINE kept == SubSeq(p.list, 1, p.at)
           list == Append(kept, p.version + 1)
           grown == [p EXCEPT !.list = list, !.at = p.at + 1, !.version = p.version + 1]
<1>1. p.list \in Seq(Nat) /\ p.at \in 0..Len(p.list) /\ p.version \in Nat
  BY DEF PageValues
<1>2. kept \in Seq(Nat) /\ Len(kept) = p.at
  <2> DEFINE old == p.list
             n == p.at
             short == SubSeq(old, 1, n)
  <2>1. old \in Seq(Nat) /\ n \in 0..Len(old)
    BY <1>1
  <2> HIDE DEF old, n
  <2>2. short \in Seq(Nat) /\ Len(short) = n
    BY <2>1, SubSeqProperties
  <2> QED BY <2>2 DEF old, n
<1> HIDE DEF kept
<1>3. list \in Seq(Nat) /\ Len(list) = p.at + 1
  <2> DEFINE next == p.version + 1
  <2>1. next \in Nat
    BY <1>1
  <2> HIDE DEF next
  <2>2. Append(kept, next) \in Seq(Nat) /\ Len(Append(kept, next)) = Len(kept) + 1
    BY <1>2, <2>1, AppendOf
  <2> QED BY <1>2, <2>2 DEF next
<1>4. Grown(p) = grown
  BY DEF Grown, kept
<1> HIDE DEF list
<1>5. grown \in PageValues /\ grown.list = list /\ grown.at = p.at + 1 /\ grown.version = p.version + 1 /\ grown.load = p.load
  <2>1. p.at + 1 \in Nat /\ p.version + 1 \in Nat
    BY <1>1
  <2>2. grown \in PageValues
    BY <1>3, <2>1 DEF PageValues
  <2>3. grown.list = list /\ grown.at = p.at + 1 /\ grown.version = p.version + 1 /\ grown.load = p.load
    BY DEF PageValues
  <2> QED BY <2>2, <2>3
<1> HIDE DEF grown
<1>6. [grown EXCEPT !.load = load] \in PageValues
  BY <1>5 DEF PageValues
<1> QED BY <1>1, <1>3, <1>4, <1>5, <1>6

\* A tab that reports is listed, nothing else is going on, and it has a record.
LEMMA ReportingHasRecord ==
  ASSUME IInv, NEW id \in Ids, Reporting(id)
  PROVE  /\ id \in DOMAIN records /\ id \in Range(strip) /\ Record(id) = records[id] /\ stopped \subseteq Ids
         /\ page[id] \in PageValues /\ page[id].at <= Len(page[id].list) /\ records[id] \in RecordValues
         /\ records[id].loading => page[id].load # "none"
         /\ page[id].load # "none" /\ id \notin stopped => records[id].loading
<1>1. id \in Range(strip) /\ task.at = "none"
  BY DEF Reporting, Idle
<1>2. id \in Alive
  BY <1>1 DEF Alive
<1>3. id \in DOMAIN records
  BY <1>2, RecordsKnown
<1>4. Record(id) = records[id] /\ stopped \subseteq Ids
  BY <1>3 DEF Record, IInv, TypeOK
<1> QED BY <1>1, <1>3, <1>4, RecordsKnown

LEMMA PageReportsTells ==
  ASSUME IInv, PageReports
  PROVE  /\ \E id \in Ids : \E p, record : Told(id, p, record)
         /\ UNCHANGED <<registryVars, phase, task, commands, hostVars, went>>
<1>1. PICK id \in Ids :
        /\ \/ DidStartProvisional(id) \/ DidCommit(id) \/ DidFinish(id) \/ DidFail(id)
           \/ WebProcessDidCrash(id) \/ DidSameDocument(id) \/ PageStateChanged(id)
        /\ UNCHANGED <<registryVars, phase, task, commands, hostVars, went>>
  BY DEF PageReports
<1>2. Reporting(id)
  BY <1>1 DEF DidStartProvisional, DidCommit, DidFinish, DidFail, WebProcessDidCrash, DidSameDocument, PageStateChanged
<1>3. /\ id \in DOMAIN records /\ id \in Range(strip) /\ Record(id) = records[id] /\ stopped \subseteq Ids
      /\ page[id] \in PageValues /\ page[id].at <= Len(page[id].list) /\ records[id] \in RecordValues
      /\ records[id].loading => page[id].load # "none"
      /\ page[id].load # "none" /\ id \notin stopped => records[id].loading
  BY <1>2, ReportingHasRecord
<1> DEFINE pg == page[id]
           rec == records[id]
<1>4. /\ pg \in PageValues /\ pg.at \in Nat /\ pg.at <= Len(pg.list) /\ rec \in RecordValues
      /\ pg.version \in Nat /\ pg.list \in Seq(Nat) /\ Len(pg.list) \in Nat
      /\ rec.loading => pg.load # "none"
      /\ pg.load # "none" /\ id \notin stopped => rec.loading
  <2>1. pg \in PageValues
    BY <1>3
  <2>2. pg.at \in Nat /\ pg.version \in Nat /\ pg.list \in Seq(Nat)
    BY <2>1 DEF PageValues
  <2> QED BY <1>3, <2>1, <2>2
\* The page is left with another load, and the record with what that shows.
<1>5. ASSUME NEW load \in {"none", "provisional", "committed"}, NEW loading \in BOOLEAN, NEW error \in Int,
             loading <=> load # "none",
             Reports(id, [pg EXCEPT !.load = load], [rec EXCEPT !.loading = loading, !.error = error]),
             stopped' \subseteq Ids, \A t \in Ids \ {id} : t \in stopped' <=> t \in stopped
      PROVE  \E p, record : Told(id, p, record)
  <2> DEFINE p == [pg EXCEPT !.load = load]
             record == [rec EXCEPT !.loading = loading, !.error = error]
  <2>1. p \in PageValues /\ p.at = pg.at /\ p.version = pg.version /\ p.list = pg.list /\ p.load = load
    <3>1. p \in PageValues
      BY <1>4 DEF PageValues
    <3>2. p.at = pg.at /\ p.version = pg.version /\ p.list = pg.list /\ p.load = load
      BY <1>4 DEF PageValues
    <3> QED BY <3>1, <3>2
  <2>2. record \in RecordValues /\ record.row = rec.row /\ record.loading = loading
    BY <1>4 DEF RecordValues
  <2>3. Reports(id, p, record)
    BY <1>5
  <2> HIDE DEF p, record
  <2>4. Told(id, p, record)
    BY <1>3, <1>4, <1>5, <2>1, <2>2, <2>3 DEF Told
  <2> QED BY <2>4
<1>6. /\ \A error \in Int : Ended(id, error) = [rec EXCEPT !.loading = FALSE, !.error = error]
      /\ \A t \in Ids \ {id} : t \in (stopped \ {id}) <=> t \in stopped
      /\ stopped \ {id} \subseteq Ids
  BY <1>3 DEF Ended
<1>7. CASE DidStartProvisional(id)
  <2> DEFINE load == "provisional"
             loading == TRUE
             error == 0
  <2>1. Reports(id, [pg EXCEPT !.load = load], [rec EXCEPT !.loading = loading, !.error = error])
    BY <1>3, <1>7 DEF DidStartProvisional
  <2>2. /\ stopped' \subseteq Ids /\ \A t \in Ids \ {id} : t \in stopped' <=> t \in stopped
        /\ load \in {"none", "provisional", "committed"} /\ loading \in BOOLEAN /\ error \in Int
        /\ loading <=> load # "none"
    BY <1>3, <1>7 DEF DidStartProvisional
  <2> HIDE DEF load, loading, error
  <2>3. \E p, record : Told(id, p, record)
    BY <1>5, <2>1, <2>2
  <2> QED BY <1>1, <2>3
<1>8. CASE DidFinish(id) \/ DidFail(id) \/ WebProcessDidCrash(id)
  <2> DEFINE load == "none"
             loading == FALSE
  <2>1. stopped' = stopped \ {id}
    BY <1>8 DEF DidFinish, DidFail, WebProcessDidCrash
  <2>2. \E error \in {-1, 0, 1} : Reports(id, [pg EXCEPT !.load = "none"], Ended(id, error))
    BY <1>8 DEF DidFinish, DidFail, WebProcessDidCrash
  <2>3. PICK error \in Int : Reports(id, [pg EXCEPT !.load = load], [rec EXCEPT !.loading = loading, !.error = error])
    <3>1. PICK e \in {-1, 0, 1} : Reports(id, [pg EXCEPT !.load = "none"], Ended(id, e))
      BY <2>2
    <3>2. e \in Int
      OBVIOUS
    <3>3. Ended(id, e) = [rec EXCEPT !.loading = loading, !.error = e]
      BY <1>6, <3>2
    <3>4. Reports(id, [pg EXCEPT !.load = load], [rec EXCEPT !.loading = loading, !.error = e])
      BY <3>1, <3>3
    <3> QED BY <3>2, <3>4
  <2>4. /\ stopped' \subseteq Ids /\ \A t \in Ids \ {id} : t \in stopped' <=> t \in stopped
        /\ load \in {"none", "provisional", "committed"} /\ loading \in BOOLEAN
        /\ loading <=> load # "none"
    BY <1>6, <2>1
  <2> HIDE DEF load, loading
  <2>5. \E p, record : Told(id, p, record)
    BY <1>5, <2>3, <2>4
  <2> QED BY <1>1, <2>5
\* A page that moved on with its load as it was, or further on in it.
<1>9. ASSUME NEW p \in PageValues, p.at <= Len(p.list), p.version = pg.version + 1,
             p.load # "none" <=> pg.load # "none",
             Reports(id, p, rec), stopped' = stopped
      PROVE  Told(id, p, rec)
  BY <1>3, <1>4, <1>9 DEF Told
<1>10. CASE DidCommit(id)
  <2>1. pg.load = "provisional" /\ stopped' = stopped
    BY <1>10 DEF DidCommit
  <2>2. CASE Reports(id, [Grown(pg) EXCEPT !.load = "committed"], rec)
    <3> DEFINE grown == Grown(pg)
               load == "committed"
               p == [grown EXCEPT !.load = load]
    <3>1. load \in {"none", "provisional", "committed"}
      OBVIOUS
    <3>2. p \in PageValues /\ grown \in PageValues /\ grown.at <= Len(grown.list) /\ grown.version = pg.version + 1
      <4> HIDE DEF load
      <4> QED BY <1>4, <3>1, GrownGrows
    <3>3. p.at = grown.at /\ p.list = grown.list /\ p.version = grown.version /\ p.load = "committed"
      <4> HIDE DEF grown
      <4> QED BY <3>2 DEF PageValues
    <3>4. Reports(id, p, rec)
      BY <2>2
    <3> HIDE DEF grown, load, p
    <3>5. Told(id, p, rec)
      BY <1>9, <2>1, <3>2, <3>3, <3>4
    <3> QED BY <1>1, <3>5
  <2>3. CASE \E at \in { i \in 1..Len(pg.list) : pg.list[i] # 0 } :
               Reports(id, [pg EXCEPT !.load = "committed", !.at = at, !.version = @ + 1], rec)
    <3>1. PICK at \in 1..Len(pg.list) : Reports(id, [pg EXCEPT !.load = "committed", !.at = at, !.version = @ + 1], rec)
      BY <2>3
    <3> DEFINE p == [pg EXCEPT !.load = "committed", !.at = at, !.version = @ + 1]
    <3>2. p \in PageValues /\ p.at <= Len(p.list) /\ p.version = pg.version + 1 /\ p.load = "committed"
      <4> DEFINE version == pg.version + 1
                 new == [pg EXCEPT !.load = "committed", !.at = at, !.version = version]
      <4>1. at \in Nat /\ at <= Len(pg.list) /\ version \in Nat
        BY <1>4, <3>1
      <4> HIDE DEF version
      <4>2. new \in PageValues
        BY <1>4, <4>1 DEF PageValues
      <4>3. new.at = at /\ new.list = pg.list /\ new.version = version /\ new.load = "committed"
        BY <1>4 DEF PageValues
      <4> QED BY <4>1, <4>2, <4>3 DEF version
    <3>3. Reports(id, p, rec)
      BY <3>1
    <3> HIDE DEF p
    <3>4. Told(id, p, rec)
      BY <1>9, <2>1, <3>2, <3>3
    <3> QED BY <1>1, <3>4
  <2>4. \/ Reports(id, [Grown(pg) EXCEPT !.load = "committed"], rec)
        \/ \E at \in { i \in 1..Len(pg.list) : pg.list[i] # 0 } :
               Reports(id, [pg EXCEPT !.load = "committed", !.at = at, !.version = @ + 1], rec)
    BY <1>3, <1>10 DEF DidCommit
  <2> QED BY <2>2, <2>3, <2>4
<1>11. CASE DidSameDocument(id)
  <2> DEFINE grown == Grown(pg)
             load == "none"
  <2>1. Reports(id, grown, rec) /\ stopped' = stopped
    BY <1>3, <1>11 DEF DidSameDocument
  <2>2. load \in {"none", "provisional", "committed"}
    OBVIOUS
  <2>3. grown \in PageValues /\ grown.at <= Len(grown.list) /\ grown.version = pg.version + 1 /\ grown.load = pg.load
    <3> HIDE DEF load
    <3> QED BY <1>4, <2>2, GrownGrows
  <2> HIDE DEF grown
  <2>4. Told(id, grown, rec)
    BY <1>9, <2>1, <2>3
  <2> QED BY <1>1, <2>4
<1>12. CASE PageStateChanged(id)
  <2>1. PICK i \in 1..Len(pg.list) : Reports(id, [pg EXCEPT !.list[i] = 0, !.version = @ + 1], rec)
    BY <1>3, <1>12 DEF PageStateChanged
  <2>2. stopped' = stopped
    BY <1>12 DEF PageStateChanged
  <2> DEFINE list == [pg.list EXCEPT ![i] = 0]
             p == [pg EXCEPT !.list = list, !.version = @ + 1]
  <2>3. list \in Seq(Nat) /\ Len(list) = Len(pg.list)
    BY <1>4
  <2>4. Reports(id, p, rec)
    BY <2>1
  <2> HIDE DEF list
  <2>5. p \in PageValues /\ p.at = pg.at /\ p.list = list /\ p.version = pg.version + 1 /\ p.load = pg.load
    <3> DEFINE version == pg.version + 1
               new == [pg EXCEPT !.list = list, !.version = version]
    <3>1. version \in Nat
      BY <1>4
    <3> HIDE DEF version
    <3>2. new \in PageValues
      BY <1>4, <2>3, <3>1 DEF PageValues
    <3>3. new.at = pg.at /\ new.list = list /\ new.version = version /\ new.load = pg.load
      BY <1>4 DEF PageValues
    <3> QED BY <3>2, <3>3 DEF version
  <2> HIDE DEF p
  <2>6. p.at <= Len(p.list)
    BY <1>4, <2>3, <2>5
  <2>7. Told(id, p, rec)
    BY <1>9, <2>2, <2>4, <2>5, <2>6
  <2> QED BY <1>1, <2>7
<1> QED BY <1>1, <1>7, <1>8, <1>10, <1>11, <1>12

\* What a report leaves of the records, the snapshots and the pages.
LEMMA ReportPublishes ==
  ASSUME IInv, NEW id, NEW p, NEW record, Told(id, p, record)
  PROVE  /\ page' = [page EXCEPT ![id] = p] /\ page' \in [Ids -> PageValues]
         /\ \A t \in Ids : page'[t].at <= Len(page'[t].list)
         /\ DOMAIN records' = DOMAIN records /\ records' \in [DOMAIN records' -> RecordValues]
         /\ \A t \in DOMAIN records : records'[t] = IF t = id THEN record ELSE records[t]
         /\ pages' = [t \in DOMAIN records' |-> Snapshot(records'[t], page'[t])]
         /\ UNCHANGED <<navActive, navRevision, pubActive>>
<1>1. /\ id \in Ids /\ p \in PageValues /\ p.at <= Len(p.list) /\ Reports(id, p, record)
      /\ id \in DOMAIN records => record \in RecordValues
  BY DEF Told
<1>2. page \in [Ids -> PageValues] /\ \A t \in Ids : page[t].at <= Len(page[t].list)
  BY DEF IInv, ValuesOK
<1>3. records \in [DOMAIN records -> RecordValues] /\ DOMAIN records \subseteq Ids
  BY DEF IInv, ValuesOK, TypeOK
<1>4. pages = [t \in DOMAIN records |-> Snapshot(records[t], page[t])]
  BY DEF IInv, PublishedIsKnown
<1>5. page' = [page EXCEPT ![id] = p] /\ UNCHANGED <<navActive, navRevision, pubActive>>
  BY <1>1 DEF Reports
<1>6. page' \in [Ids -> PageValues] /\ \A t \in Ids : page'[t] = IF t = id THEN p ELSE page[t]
  BY <1>1, <1>2, <1>5
<1>7. \A t \in Ids : page'[t].at <= Len(page'[t].list)
  BY <1>1, <1>2, <1>6
<1>8. CASE id \in DOMAIN records
  <2>1. records' = [records EXCEPT ![id] = record] /\ pages' = With(pages, id, Snapshot(record, p))
    BY <1>1, <1>8 DEF Reports
  <2>2. /\ DOMAIN records' = DOMAIN records /\ records' \in [DOMAIN records' -> RecordValues]
        /\ \A t \in DOMAIN records : records'[t] = IF t = id THEN record ELSE records[t]
    BY <1>1, <1>3, <1>8, <2>1
  <2>3. DOMAIN pages \cup {id} = DOMAIN records'
    BY <1>4, <1>8, <2>2
  <2>4. pages' = [t \in DOMAIN records' |-> IF t = id THEN Snapshot(record, p) ELSE pages[t]]
    BY <2>1, <2>3 DEF With
  <2>5. \A t \in DOMAIN records' :
          Snapshot(records'[t], page'[t]) = IF t = id THEN Snapshot(record, p) ELSE pages[t]
    BY <1>3, <1>4, <1>6, <2>2
  <2>6. pages' = [t \in DOMAIN records' |-> Snapshot(records'[t], page'[t])]
    BY <2>4, <2>5
  <2> QED BY <1>5, <1>6, <1>7, <2>2, <2>6
<1>9. CASE id \notin DOMAIN records
  <2>1. records' = records /\ pages' = pages
    BY <1>1, <1>9 DEF Reports
  <2>2. \A t \in DOMAIN records' : Snapshot(records'[t], page'[t]) = Snapshot(records[t], page[t])
    BY <1>3, <1>6, <1>9, <2>1
  <2>3. pages' = [t \in DOMAIN records' |-> Snapshot(records'[t], page'[t])]
    BY <1>4, <2>1, <2>2
  <2> QED BY <1>3, <1>5, <1>6, <1>7, <1>9, <2>1, <2>3
<1> QED BY <1>8, <1>9

\* The commands that wait are judged one by one.
LEMMA CommandsFollow ==
  ASSUME IInv, commands' = commands \/ (commands # <<>> /\ commands' = Tail(commands)),
         \A c \in CommandValues : CommandOK(c) => CommandOK(c)'
  PROVE  CommandsOK' /\ commands' \in Seq(CommandValues)
<1>1. commands \in Seq(CommandValues) /\ \A i \in 1..Len(commands) : CommandOK(commands[i])
  BY DEF IInv, ValuesOK, CommandsOK
<1>2. /\ commands' \in Seq(CommandValues)
      /\ \A i \in 1..Len(commands') : \E j \in 1..Len(commands) : commands'[i] = commands[j]
  <2>1. CASE commands' = commands
    BY <1>1, <2>1
  <2>2. CASE commands # <<>> /\ commands' = Tail(commands)
    BY <1>1, <2>2, TailOf
  <2> QED BY <2>1, <2>2
<1>3. ASSUME NEW i \in 1..Len(commands')
      PROVE  \E c \in CommandValues : c = commands'[i] /\ CommandOK(c)'
  <2>1. PICK j \in 1..Len(commands) : commands'[i] = commands[j]
    BY <1>2
  <2>2. PICK c \in CommandValues : c = commands[j]
    BY <1>1
  <2>3. CommandOK(c)
    BY <1>1, <2>2
  <2> QED BY <2>1, <2>2, <2>3
<1>4. ASSUME NEW i \in 1..Len(commands'), NEW c \in CommandValues, c = commands'[i], CommandOK(c)'
      PROVE  CommandOK(commands[i])'
  BY <1>4 DEF CommandOK, SeenOK, ListStamped, FrontStamped, Waiting
<1>5. \A i \in 1..Len(commands') : CommandOK(commands[i])'
  BY <1>3, <1>4
<1> QED BY <1>2, <1>5 DEF CommandsOK

LEMMA TellKeeps ==
  ASSUME IInv, NEW id, NEW p, NEW record, Told(id, p, record),
         UNCHANGED <<registryVars, phase, task, hostVars>>,
         commands' = commands \/ (commands # <<>> /\ commands' = Tail(commands))
  PROVE  IInv'
<1>1. /\ page' = [page EXCEPT ![id] = p] /\ page' \in [Ids -> PageValues]
      /\ \A t \in Ids : page'[t].at <= Len(page'[t].list)
      /\ DOMAIN records' = DOMAIN records /\ records' \in [DOMAIN records' -> RecordValues]
      /\ \A t \in DOMAIN records : records'[t] = IF t = id THEN record ELSE records[t]
      /\ pages' = [t \in DOMAIN records' |-> Snapshot(records'[t], page'[t])]
      /\ UNCHANGED <<navActive, navRevision, pubActive>>
  BY ReportPublishes
<1>2. UNCHANGED <<queue, strip, shown, revision, phase, task, owes, unused>>
  BY DEF registryVars, hostVars
<1>3. /\ id \in Ids /\ (id \in Range(strip) \/ p = page[id])
      /\ p.version > page[id].version \/ (p.version = page[id].version /\ p.list = page[id].list)
      /\ id \in DOMAIN records => /\ record.row = records[id].row
                                  /\ record.loading => p.load # "none"
                                  /\ p.load # "none" /\ id \notin stopped' => record.loading
      /\ stopped' \subseteq Ids /\ \A t \in Ids \ {id} : t \in stopped' <=> t \in stopped
  BY DEF Told
<1>4. page \in [Ids -> PageValues] /\ \A t \in Ids : page'[t] = IF t = id THEN p ELSE page[t]
  BY <1>1, <1>3 DEF IInv, ValuesOK
<1>5. TypeOK'
  BY <1>1, <1>2, <1>3 DEF IInv, TypeOK
<1>6. TabsOK'
  BY <1>1, <1>2, <1>3, <1>4 DEF IInv, TabsOK
<1>7. PublishedIsKnown'
  <2>1. DOMAIN records' = Alive' /\ pubActive' = navActive'
    BY <1>1, <1>2 DEF IInv, PublishedIsKnown, Alive
  <2> QED BY <1>1, <2>1 DEF PublishedIsKnown
<1>8. FollowsTheStrip'
  BY <1>1, <1>2, <1>3 DEF IInv, FollowsTheStrip
<1>9. LoadShown'
  <2>1. ASSUME NEW t \in DOMAIN records
        PROVE  /\ pages'[t].loading => page'[t].load # "none"
               /\ page'[t].load # "none" /\ t \notin stopped' => pages'[t].loading
    <3>1. pages'[t].loading = records'[t].loading
      BY <1>1 DEF Snapshot
    <3>2. t \in Ids /\ (records[t].loading => page[t].load # "none")
          /\ (page[t].load # "none" /\ t \notin stopped => records[t].loading)
      BY RecordsKnown
    <3>3. CASE t = id
      BY <1>1, <1>3, <1>4, <3>1, <3>3
    <3>4. CASE t # id
      BY <1>1, <1>3, <1>4, <3>1, <3>2, <3>4
    <3> QED BY <3>3, <3>4
  <2>2. DOMAIN pages' = DOMAIN records
    BY <1>1
  <2> QED BY <2>1, <2>2 DEF LoadShown
<1>10. ASSUME NEW c \in CommandValues, CommandOK(c)
       PROVE  CommandOK(c)'
  <2>1. SeenOK(c)'
    BY <1>2, <1>10 DEF CommandOK, SeenOK
  <2>2. FrontStamped(c)'
    BY <1>1, <1>2, <1>10 DEF CommandOK, FrontStamped
  <2>3. ListStamped(c)'
    <3>1. c.seen \in Ids /\ c.version \in Nat /\ p.version \in Nat /\ page[c.seen].version \in Nat
      BY <1>4 DEF CommandValues, PageValues, Told
    <3>2. CASE c.seen = id
      BY <1>1, <1>3, <1>4, <1>10, <3>1, <3>2 DEF CommandOK, ListStamped
    <3>3. CASE c.seen # id
      BY <1>1, <1>3, <1>4, <1>10, <3>1, <3>3 DEF CommandOK, ListStamped
    <3> QED BY <3>2, <3>3
  <2> QED BY <2>1, <2>2, <2>3 DEF CommandOK
<1>11. CommandsOK' /\ commands' \in Seq(CommandValues)
  BY <1>10, CommandsFollow
<1>12. ValuesOK'
  BY <1>1, <1>11 DEF ValuesOK
<1> QED BY <1>5, <1>6, <1>7, <1>8, <1>9, <1>11, <1>12 DEF IInv

-----------------------------------------------------------------------------
(* The registry's steps, and the host's.                                   *)

\* A step that tells the model nothing: what is left to show of it.
LEMMA QuietKeeps ==
  ASSUME IInv, UNCHANGED <<page, recordVars, publishedVars, commands, stopped>>,
         TypeOK', TabsOK', Alive' = Alive, FollowsTheStrip',
         \/ commands = <<>>
         \/ \A c \in CommandValues : SeenOK(c) /\ FrontStamped(c) => SeenOK(c)' /\ FrontStamped(c)'
  PROVE  IInv'
<1>1. UNCHANGED <<page, records, navActive, navRevision, pages, pubActive, commands, stopped>>
  BY DEF recordVars, publishedVars
<1>2. PublishedIsKnown'
  BY <1>1 DEF IInv, PublishedIsKnown
<1>3. LoadShown'
  BY <1>1 DEF IInv, LoadShown
<1>4. CASE commands = <<>>
  BY <1>1, <1>2, <1>3, <1>4 DEF IInv, ValuesOK, CommandsOK
<1>5. CASE \A c \in CommandValues : SeenOK(c) /\ FrontStamped(c) => SeenOK(c)' /\ FrontStamped(c)'
  <2>1. ASSUME NEW c \in CommandValues, CommandOK(c) PROVE CommandOK(c)'
    <3>1. ListStamped(c)'
      BY <1>1, <2>1 DEF CommandOK, ListStamped
    <3> QED BY <1>5, <2>1, <3>1 DEF CommandOK
  <2>2. CommandsOK' /\ commands' \in Seq(CommandValues)
    BY <1>1, <2>1, CommandsFollow
  <2>3. ValuesOK'
    BY <1>1, <2>2 DEF IInv, ValuesOK
  <2> QED BY <1>2, <1>3, <2>2, <2>3 DEF IInv
<1> QED BY <1>4, <1>5

LEMMA StutterKeeps == ASSUME IInv, UNCHANGED vars PROVE IInv'
<1>1. UNCHANGED <<queue, strip, shown, revision, phase, task, page, records, navActive, navRevision, pages, pubActive,
                  commands, owes, unused, stopped>>
  BY DEF vars, registryVars, recordVars, publishedVars, hostVars
<1>2. UNCHANGED <<page, recordVars, publishedVars, commands, stopped>>
  BY <1>1 DEF recordVars, publishedVars
<1>3. TypeOK' /\ TabsOK' /\ FollowsTheStrip' /\ Alive' = Alive
  BY <1>1 DEF IInv, TypeOK, TabsOK, FollowsTheStrip, Alive
<1>4. \A c \in CommandValues : SeenOK(c) /\ FrontStamped(c) => SeenOK(c)' /\ FrontStamped(c)'
  BY <1>1 DEF SeenOK, FrontStamped
<1> QED BY <1>2, <1>3, <1>4, QuietKeeps

LEMMA LoopTurnsKeeps == ASSUME IInv, LoopTurns PROVE IInv'
<1>1. /\ task = Idle /\ phase' \in {"cycle", "registry"}
      /\ UNCHANGED <<queue, strip, shown, revision, task, page, recordVars, publishedVars, commands, owes, unused, stopped>>
  BY DEF LoopTurns, registryVars, hostVars
<1>2. UNCHANGED <<navActive, navRevision, records>>
  BY <1>1 DEF recordVars
<1>3. TypeOK' /\ FollowsTheStrip' /\ Alive' = Alive
  <2>1. TypeOK'
    BY <1>1, <1>2 DEF IInv, TypeOK, publishedVars
  <2>2. FollowsTheStrip'
    BY <1>1, <1>2 DEF IInv, FollowsTheStrip
  <2>3. Alive' = Alive
    BY <1>1 DEF Alive
  <2> QED BY <2>1, <2>2, <2>3
<1>4. TabsOK'
  BY <1>1, <1>2 DEF IInv, TabsOK
<1>5. \A c \in CommandValues : SeenOK(c) /\ FrontStamped(c) => SeenOK(c)' /\ FrontStamped(c)'
  BY <1>1, <1>2 DEF SeenOK, FrontStamped
<1> QED BY <1>1, <1>3, <1>4, <1>5, QuietKeeps

LEMMA OpenedKeeps == ASSUME IInv, Opened PROVE IInv'
<1>1. /\ task.at = "opening" /\ task' = Idle /\ Published(Append(strip, task.id), task.id)
      /\ UNCHANGED <<queue, phase, page, recordVars, publishedVars, commands, owes, unused, stopped>>
  BY DEF Opened, hostVars
<1>2. UNCHANGED <<navActive, navRevision, pubActive, records>>
  BY <1>1 DEF recordVars, publishedVars
<1>3. task.id \in Ids /\ task.id \notin Range(strip) /\ task.id < unused /\ strip \in Seq(Ids) /\ Distinct(strip)
  BY <1>1 DEF IInv, TypeOK, TabsOK
<1> DEFINE new == Append(strip, task.id)
<1>4. new \in Seq(Ids) /\ Distinct(new) /\ Range(new) = Range(strip) \cup {task.id}
  BY <1>3, AppendTab
<1>5. strip' = new /\ shown' = task.id /\ revision' = revision + 1 /\ revision \in Nat
  BY <1>1 DEF Published, IInv, TypeOK
<1> HIDE DEF new
<1>6. task'.at = "none" /\ task'.id = 0 /\ task' \in [at : {"none", "opening", "closing", "draining"}, id : 0..MaxTabs]
  BY <1>1, NavigationAssumption DEF Idle
<1>7. TypeOK'
  BY <1>1, <1>2, <1>3, <1>4, <1>5, <1>6 DEF IInv, TypeOK, Ids
<1>8. TabsOK'
  <2>1. navRevision <= revision /\ navRevision \in Int
    BY DEF IInv, TabsOK, TypeOK
  <2> QED BY <1>1, <1>2, <1>3, <1>4, <1>5, <1>6, <2>1 DEF IInv, TabsOK, Ids
<1>9. Alive' = Alive
  BY <1>1, <1>4, <1>5, <1>6 DEF Alive
<1>10. FollowsTheStrip'
  BY <1>2, <1>5 DEF IInv, TabsOK, TypeOK, FollowsTheStrip
<1>11. ASSUME NEW c \in CommandValues, SeenOK(c), FrontStamped(c) PROVE SeenOK(c)' /\ FrontStamped(c)'
  <2>1. c.revision \in Int /\ navRevision \in Int /\ navRevision <= revision
    BY DEF CommandValues, IInv, TabsOK, TypeOK
  <2>2. SeenOK(c)'
    BY <1>1, <1>11 DEF SeenOK
  <2> QED BY <1>1, <1>2, <1>5, <1>6, <1>11, <2>1, <2>2 DEF FrontStamped
<1> QED BY <1>1, <1>7, <1>8, <1>9, <1>10, <1>11, QuietKeeps

LEMMA RearrangesKeeps == ASSUME IInv, Rearranges PROVE IInv'
<1>1. UNCHANGED <<phase, task, page, recordVars, publishedVars, commands, owes, unused, stopped>>
  BY DEF Rearranges, hostVars
<1>2. UNCHANGED <<navActive, navRevision, pubActive, records>>
  BY <1>1 DEF recordVars, publishedVars
<1>3. PICK op : Take(op)
  BY DEF Rearranges
<1>4. /\ task = Idle /\ queue' \in Seq(QueueEntries) /\ Apart(queue')
      /\ \A id : Waiting(queue', id) => Waiting(queue, id)
  BY <1>3, TakeWaits
<1>5. strip \in Seq(Ids) /\ Distinct(strip) /\ shown \in 0..MaxTabs /\ revision \in Nat
  BY DEF IInv, TypeOK, TabsOK
<1> DEFINE id == Head(queue).id
<1>6. /\ strip' \in Seq(Ids) /\ Distinct(strip') /\ Range(strip') = Range(strip)
      /\ shown' \in 0..MaxTabs /\ revision' = revision + 1
  <2>1. CASE Published(strip, IF id \in Range(strip) THEN id ELSE shown)
    <3>1. id \in Range(strip) => id \in Ids
      BY <1>5, Listed
    <3> QED BY <1>5, <2>1, <3>1 DEF Published, Ids
  <2>2. CASE Published(IF id \in Range(strip) THEN Moved(strip, {}, id, 0) ELSE strip, shown)
    <3> DEFINE new == Moved(strip, {}, id, 0)
    <3>1. id \in Range(strip) => new \in Seq(Ids) /\ Distinct(new) /\ Range(new) = Range(strip)
      BY <1>5, MovedKeepsTabs
    <3>2. strip' = IF id \in Range(strip) THEN new ELSE strip
      BY <2>2 DEF Published
    <3>3. shown' = shown /\ revision' = revision + 1
      BY <2>2 DEF Published
    <3> HIDE DEF new, id
    <3> QED BY <1>5, <3>1, <3>2, <3>3
  <2> QED BY <2>1, <2>2 DEF Rearranges
<1>7. TypeOK'
  BY <1>1, <1>2, <1>4, <1>5, <1>6 DEF IInv, TypeOK, QueueEntries
<1>8. navRevision <= revision /\ navRevision \in Int
  BY DEF IInv, TabsOK, TypeOK
<1>9. TabsOK'
  BY <1>1, <1>2, <1>4, <1>5, <1>6, <1>8 DEF IInv, TabsOK
<1>10. Alive' = Alive
  BY <1>1, <1>6 DEF Alive
<1>11. FollowsTheStrip'
  BY <1>2, <1>5, <1>6, <1>8 DEF FollowsTheStrip
<1>12. ASSUME NEW c \in CommandValues, SeenOK(c), FrontStamped(c) PROVE SeenOK(c)' /\ FrontStamped(c)'
  <2>1. c.revision \in Int
    BY DEF CommandValues
  <2> QED BY <1>1, <1>2, <1>4, <1>5, <1>6, <1>8, <1>12, <2>1 DEF SeenOK, FrontStamped
<1> QED BY <1>1, <1>7, <1>9, <1>10, <1>11, <1>12, QuietKeeps

LEMMA RunInvokeKeeps == ASSUME IInv, RunInvoke PROVE IInv'
<1>1. /\ Take("Drain") /\ task' = [Idle EXCEPT !.at = "draining"]
      /\ UNCHANGED <<strip, shown, revision, phase, page, recordVars, publishedVars, commands, owes, unused, stopped>>
  BY DEF RunInvoke, hostVars
<1>2. UNCHANGED <<navActive, navRevision, pubActive, records>>
  BY <1>1 DEF recordVars, publishedVars
<1>3. /\ phase = "registry" /\ task = Idle /\ queue' \in Seq(QueueEntries) /\ Apart(queue')
      /\ \A id : Waiting(queue', id) => Waiting(queue, id)
  BY <1>1, TakeWaits
<1>4. /\ task'.at = "draining" /\ task'.id = 0 /\ task.at = "none" /\ task.id = 0
      /\ task' \in [at : {"none", "opening", "closing", "draining"}, id : 0..MaxTabs]
  BY <1>1, <1>3, NavigationAssumption DEF Idle
<1>5. TypeOK'
  BY <1>1, <1>2, <1>3, <1>4 DEF IInv, TypeOK, QueueEntries
<1>6. TabsOK'
  BY <1>1, <1>2, <1>3, <1>4 DEF IInv, TabsOK
<1>7. Alive' = Alive /\ FollowsTheStrip'
  BY <1>1, <1>2, <1>4 DEF IInv, Alive, FollowsTheStrip
<1>8. \A c \in CommandValues : SeenOK(c) /\ FrontStamped(c) => SeenOK(c)' /\ FrontStamped(c)'
  BY <1>1, <1>2, <1>3, <1>4 DEF SeenOK, FrontStamped
<1> QED BY <1>1, <1>5, <1>6, <1>7, <1>8, QuietKeeps

LEMMA AskRegistryKeeps == ASSUME IInv, AskRegistry PROVE IInv'
<1>1. UNCHANGED <<strip, shown, revision, phase, task, page, recordVars, publishedVars, commands, owes, stopped>>
  BY DEF AskRegistry
<1>2. UNCHANGED <<navActive, navRevision, pubActive, records>>
  BY <1>1 DEF recordVars, publishedVars
<1>3. /\ queue \in Seq(QueueEntries) /\ Apart(queue) /\ unused \in 1..(MaxTabs + 1)
      /\ strip \in Seq(Ids) /\ task.id \in 0..MaxTabs /\ MaxTabs \in Nat /\ Ids = 1..MaxTabs
  BY NavigationAssumption DEF IInv, TypeOK, TabsOK, QueueEntries, Ids
<1>4. \A id : Waiting(queue, id) => id < unused /\ id \in Ids
  BY DEF IInv, TabsOK
<1>5. /\ queue' \in Seq(QueueEntries) /\ Apart(queue') /\ unused' \in 1..(MaxTabs + 1)
      /\ \/ unused' = unused /\ \A id : Waiting(queue', id) => Waiting(queue, id)
         \/ /\ unused' = unused + 1 /\ unused <= MaxTabs
            /\ \A id : Waiting(queue', id) => Waiting(queue, id) \/ id = unused
  <2>1. CASE unused <= MaxTabs /\ Posts("Open", unused) /\ unused' = unused + 1
    <3> DEFINE e == [op |-> "Open", id |-> unused]
    <3>1. e \in QueueEntries /\ e.op = "Open" /\ e.id = unused
      BY <1>3, <2>1 DEF QueueEntries
    <3>2. queue' = Append(queue, e)
      BY <2>1 DEF Posts
    <3> HIDE DEF e
    <3>3. e.op = "Open" => ~Waiting(queue, e.id)
      BY <1>3, <1>4, <3>1
    <3>4. /\ queue' \in Seq(QueueEntries) /\ Apart(queue')
          /\ \A id : Waiting(queue', id) => Waiting(queue, id) \/ id = unused
      BY <1>3, <3>1, <3>2, <3>3, AppendWaits
    <3> QED BY <1>3, <2>1, <3>4
  <2>2. CASE /\ \/ \E id \in Range(strip), op \in {"Close", "Select", "Move"} : Posts(op, id)
                \/ Posts("Shutdown", 0)
             /\ unused' = unused
    <3>1. PICK e \in QueueEntries : e.op # "Open" /\ queue' = Append(queue, e)
      <4>1. CASE \E id \in Range(strip), op \in {"Close", "Select", "Move"} : Posts(op, id)
        <5>1. PICK id \in Range(strip), op \in {"Close", "Select", "Move"} : Posts(op, id)
          BY <4>1
        <5>2. id \in 0..MaxTabs
          BY <1>3, Listed
        <5> DEFINE e == [op |-> op, id |-> id]
        <5>3. e \in QueueEntries /\ e.op # "Open"
          BY <5>2 DEF QueueEntries
        <5> QED BY <5>1, <5>3 DEF Posts
      <4>2. CASE Posts("Shutdown", 0)
        <5> DEFINE e == [op |-> "Shutdown", id |-> 0]
        <5>1. e \in QueueEntries /\ e.op # "Open"
          BY <1>3 DEF QueueEntries
        <5> QED BY <4>2, <5>1 DEF Posts
      <4> QED BY <2>2, <4>1, <4>2
    <3>2. /\ queue' \in Seq(QueueEntries) /\ Apart(queue')
          /\ \A id : Waiting(queue', id) => Waiting(queue, id)
      BY <1>3, <3>1, AppendWaits
    <3> QED BY <1>3, <2>2, <3>2
  <2> QED BY <2>1, <2>2 DEF AskRegistry
<1>6. TypeOK'
  BY <1>1, <1>2, <1>5 DEF IInv, TypeOK, QueueEntries
<1>7. \A id : Waiting(queue', id) => id \in Ids \ Range(strip) /\ id < unused' /\ id # task.id
  <2>1. \A t \in Range(strip) : t < unused /\ t \in Ids
    BY <1>3, Listed DEF IInv, TabsOK
  <2>2. task.id < unused
    <3>1. task.at \in {"none", "opening", "closing", "draining"}
      BY DEF IInv, TypeOK
    <3> QED BY <1>3, <2>1, <3>1 DEF IInv, TabsOK
  <2>3. \A id : Waiting(queue, id) => id \in Ids \ Range(strip) /\ id < unused /\ id # task.id
    BY DEF IInv, TabsOK
  <2> QED BY <1>3, <1>5, <2>1, <2>2, <2>3
<1>8. TabsOK'
  <2>1. unused' >= unused
    BY <1>3, <1>5
  <2>2. \A t \in Range(strip) : t \in Int
    BY <1>3, Listed
  <2>3. /\ Apart(queue') /\ Distinct(strip') /\ navRevision' <= revision'
        /\ \A t \in Ids \ Range(strip') : page'[t] = NewPage
        /\ phase' \in {"cycle", "down"} => task' = Idle
        /\ task'.at = "closing" => task'.id \in Range(strip')
        /\ task'.at \in {"none", "draining"} => task'.id = 0
    BY <1>1, <1>2, <1>5 DEF IInv, TabsOK
  <2>4. /\ \A t \in Range(strip') : t < unused'
        /\ task'.at = "opening" => task'.id \in Ids \ Range(strip') /\ task'.id < unused'
    <3>1. /\ \A t \in Range(strip) : t < unused
          /\ task.at = "opening" => task.id \in Ids \ Range(strip) /\ task.id < unused
      BY DEF IInv, TabsOK
    <3>2. task.id \in Int /\ unused \in Int /\ unused' \in Int
      BY <1>3, <1>5
    <3> HIDE DEF IInv
    <3> QED BY <1>1, <2>1, <2>2, <3>1, <3>2
  <2>5. \A id : Waiting(queue', id) => id \in Ids \ Range(strip') /\ id < unused' /\ id # task'.id
    BY <1>1, <1>7
  <2> QED BY <2>3, <2>4, <2>5 DEF TabsOK
<1>9. Alive' = Alive /\ FollowsTheStrip'
  BY <1>1, <1>2 DEF IInv, Alive, FollowsTheStrip
<1>10. ASSUME NEW c \in CommandValues, SeenOK(c), FrontStamped(c) PROVE SeenOK(c)' /\ FrontStamped(c)'
  <2>1. c.seen \in Ids
    BY DEF CommandValues
  <2>2. SeenOK(c)'
    BY <1>3, <1>5, <1>10, <2>1 DEF SeenOK
  <2> QED BY <1>1, <1>2, <1>10, <2>2 DEF FrontStamped
<1> QED BY <1>1, <1>6, <1>8, <1>9, <1>10, QuietKeeps

LEMMA DrainedKeeps == ASSUME IInv, Drained PROVE IInv'
<1>1. /\ task.at = "draining" /\ commands = <<>> /\ task' = Idle
      /\ UNCHANGED <<queue, strip, shown, revision, phase, page, recordVars, publishedVars, commands, owes, unused, stopped>>
  BY DEF Drained, registryVars, hostVars
<1>2. UNCHANGED <<navActive, navRevision, pubActive, records>>
  BY <1>1 DEF recordVars, publishedVars
<1>3. /\ task'.at = "none" /\ task'.id = 0 /\ task.id = 0
      /\ task' \in [at : {"none", "opening", "closing", "draining"}, id : 0..MaxTabs]
  BY <1>1, NavigationAssumption DEF Idle, IInv, TabsOK
<1>4. TypeOK'
  BY <1>1, <1>2, <1>3 DEF IInv, TypeOK
<1>5. TabsOK'
  BY <1>1, <1>2, <1>3 DEF IInv, TabsOK
<1>6. Alive' = Alive /\ FollowsTheStrip'
  BY <1>1, <1>2, <1>3 DEF IInv, Alive, FollowsTheStrip
<1> QED BY <1>1, <1>4, <1>5, <1>6, QuietKeeps

LEMMA AskDrainKeeps == ASSUME IInv, AskDrain PROVE IInv'
<1>1. /\ owes' = FALSE /\ queue' = IF phase = "down" THEN queue ELSE Append(queue, [op |-> "Drain", id |-> 0])
      /\ UNCHANGED <<strip, shown, revision, phase, task, page, recordVars, publishedVars, commands, unused, stopped>>
  BY DEF AskDrain
<1>2. UNCHANGED <<navActive, navRevision, pubActive, records>>
  BY <1>1 DEF recordVars, publishedVars
<1>3. queue \in Seq(QueueEntries) /\ Apart(queue)
  BY DEF IInv, TypeOK, TabsOK, QueueEntries
<1>4. queue' \in Seq(QueueEntries) /\ Apart(queue') /\ \A id : Waiting(queue', id) => Waiting(queue, id)
  <2> DEFINE e == [op |-> "Drain", id |-> 0]
  <2>1. e \in QueueEntries /\ e.op # "Open"
    BY NavigationAssumption DEF QueueEntries
  <2>2. queue' = queue \/ queue' = Append(queue, e)
    BY <1>1
  <2> HIDE DEF e
  <2>3. CASE queue' = queue
    BY <1>3, <2>3
  <2>4. CASE queue' = Append(queue, e)
    BY <1>3, <2>1, <2>4, AppendWaits
  <2> QED BY <2>2, <2>3, <2>4
<1>5. TypeOK'
  BY <1>1, <1>2, <1>4 DEF IInv, TypeOK, QueueEntries
<1>6. TabsOK'
  BY <1>1, <1>2, <1>4 DEF IInv, TabsOK
<1>7. Alive' = Alive /\ FollowsTheStrip'
  BY <1>1, <1>2 DEF IInv, Alive, FollowsTheStrip
<1>8. \A c \in CommandValues : SeenOK(c) /\ FrontStamped(c) => SeenOK(c)' /\ FrontStamped(c)'
  BY <1>1, <1>2, <1>4 DEF SeenOK, FrontStamped
<1> QED BY <1>1, <1>5, <1>6, <1>7, <1>8, QuietKeeps

\* The tab that is opened is one nobody has had a snapshot of.
LEMMA PageCreatedKeeps == ASSUME IInv, PageCreated PROVE IInv'
<1>1. UNCHANGED <<strip, shown, revision, phase, page, commands, owes, stopped>> /\ AttachRecord(task'.id)
  BY DEF PageCreated
<1>2. /\ queue \in Seq(QueueEntries) /\ Apart(queue) /\ unused \in 1..(MaxTabs + 1)
      /\ strip \in Seq(Ids) /\ Ids = 1..MaxTabs /\ MaxTabs \in Nat /\ revision \in Nat
      /\ \A x : Waiting(queue, x) => x \in Ids \ Range(strip) /\ x < unused
      /\ \A t \in Range(strip) : t < unused /\ t \in Ids
  <2>1. \A t \in Range(strip) : t \in Ids
    BY Listed DEF IInv, TypeOK
  <2> QED BY <2>1, NavigationAssumption DEF IInv, TypeOK, TabsOK, QueueEntries, Ids
<1>3. PICK id : task' = [at |-> "opening", id |-> id] /\
        /\ \/ Take("Open") /\ id = Head(queue).id /\ UNCHANGED unused
           \/ /\ task = Idle /\ phase = "webkit" /\ unused <= MaxTabs
              /\ id = unused /\ unused' = unused + 1 /\ UNCHANGED queue
  BY DEF PageCreated
<1>4. /\ task = Idle /\ phase \in {"registry", "webkit"}
      /\ queue' \in Seq(QueueEntries) /\ Apart(queue') /\ unused' \in 1..(MaxTabs + 1) /\ unused' >= unused
      /\ \A x : Waiting(queue', x) => Waiting(queue, x) /\ x # id
      /\ id \in Ids \ Range(strip) /\ id < unused'
      /\ id >= unused \/ Waiting(queue, id)
  <2>1. CASE Take("Open") /\ id = Head(queue).id /\ UNCHANGED unused
    <3> DEFINE op == "Open"
    <3>1. Take(op)
      BY <2>1
    <3> HIDE DEF op
    <3>2. /\ phase = "registry" /\ task = Idle /\ queue' \in Seq(QueueEntries) /\ Apart(queue')
          /\ \A x : Waiting(queue', x) => Waiting(queue, x)
          /\ op = "Open" => Waiting(queue, Head(queue).id) /\ ~Waiting(queue', Head(queue).id)
      BY <3>1, TakeWaits
    <3> QED BY <1>2, <2>1, <3>2 DEF op
  <2>2. CASE task = Idle /\ phase = "webkit" /\ unused <= MaxTabs /\ id = unused /\ unused' = unused + 1 /\ UNCHANGED queue
    BY <1>2, <2>2
  <2> QED BY <1>3, <2>1, <2>2
<1>5. /\ task'.at = "opening" /\ task'.id = id /\ task.at = "none"
      /\ task' \in [at : {"none", "opening", "closing", "draining"}, id : 0..MaxTabs]
  BY <1>2, <1>3, <1>4 DEF Idle
<1>6. DOMAIN records = Range(strip) /\ id \notin DOMAIN records
  <2>1. Alive = Range(strip)
    BY <1>5 DEF Alive
  <2> QED BY <1>4, <2>1, RecordsKnown
<1> DEFINE row == IndexOfTab(strip, id)
           record == [NoRecord EXCEPT !.row = row]
<1>7. /\ records' = With(records, id, record) /\ pages' = With(pages, id, Snapshot(record, page[id]))
      /\ navRevision' = -1 /\ UNCHANGED <<navActive, pubActive>>
  BY <1>1, <1>5 DEF AttachRecord
<1>8. record \in RecordValues /\ record.loading = FALSE
  <2>1. row \in Int
    BY <1>2, IndexIsInteger
  <2> HIDE DEF row
  <2>2. NoRecord \in RecordValues /\ NoRecord.loading = FALSE
    <3> DEFINE none == -1
    <3>1. none \in Int
      OBVIOUS
    <3>2. NoRecord = [row |-> none, loading |-> FALSE, error |-> 0]
      BY DEF NoRecord
    <3> HIDE DEF none
    <3> QED BY <3>1, <3>2 DEF RecordValues
  <2> QED BY <2>1, <2>2 DEF RecordValues
<1> HIDE DEF record
<1>9. records \in [DOMAIN records -> RecordValues] /\ pages = [t \in DOMAIN records |-> Snapshot(records[t], page[t])]
  BY DEF IInv, ValuesOK, PublishedIsKnown
<1>10. /\ DOMAIN records' = DOMAIN records \cup {id} /\ records' \in [DOMAIN records' -> RecordValues]
       /\ \A t \in DOMAIN records' : records'[t] = IF t = id THEN record ELSE records[t]
  BY <1>7, <1>8, <1>9 DEF With
<1>11. pages' = [t \in DOMAIN records' |-> Snapshot(records'[t], page'[t])]
  <2>1. DOMAIN pages \cup {id} = DOMAIN records'
    BY <1>9, <1>10
  <2>2. pages' = [t \in DOMAIN records' |-> IF t = id THEN Snapshot(record, page[id]) ELSE pages[t]]
    BY <1>7, <2>1 DEF With
  <2>3. \A t \in DOMAIN records' :
          Snapshot(records'[t], page'[t]) = IF t = id THEN Snapshot(record, page[id]) ELSE pages[t]
    BY <1>1, <1>9, <1>10
  <2> QED BY <2>2, <2>3
<1>12. DOMAIN records' \subseteq Ids
  BY <1>2, <1>4, <1>6, <1>10
<1>13. TypeOK'
  BY <1>1, <1>4, <1>5, <1>7, <1>12 DEF IInv, TypeOK, QueueEntries
<1>14. TabsOK'
  <2>1. \A t \in Range(strip) : t < unused'
    <3>1. \A t \in Range(strip) : t \in Int
      BY <1>2
    <3> QED BY <1>2, <1>4, <3>1
  <2>2. \A x : Waiting(queue', x) => x \in Ids \ Range(strip) /\ x < unused' /\ x # id
    BY <1>2, <1>4
  <2> QED BY <1>1, <1>2, <1>4, <1>5, <1>7, <2>1, <2>2 DEF IInv, TabsOK
<1>15. PublishedIsKnown'
  <2>1. Alive' = Range(strip) \cup {id}
    BY <1>1, <1>5 DEF Alive
  <2> QED BY <1>6, <1>7, <1>10, <1>11, <2>1 DEF IInv, PublishedIsKnown
<1>16. FollowsTheStrip'
  BY <1>1, <1>2, <1>7 DEF FollowsTheStrip
<1>17. LoadShown'
  <2>1. page[id].load = "none" /\ page' = page /\ stopped' = stopped
    BY <1>1, <1>4 DEF IInv, TabsOK, NewPage
  <2>2. ASSUME NEW t \in DOMAIN records'
        PROVE  /\ pages'[t].loading => page[t].load # "none"
               /\ page[t].load # "none" /\ t \notin stopped => pages'[t].loading
    <3>1. pages'[t].loading = records'[t].loading
      BY <1>11 DEF Snapshot
    <3>2. CASE t = id
      BY <1>8, <1>10, <2>1, <3>1, <3>2
    <3>3. CASE t # id
      BY <1>10, <3>1, <3>3, RecordsKnown
    <3> QED BY <3>2, <3>3
  <2>3. DOMAIN pages' = DOMAIN records'
    BY <1>11
  <2> QED BY <2>1, <2>2, <2>3 DEF LoadShown
<1>18. ASSUME NEW c \in CommandValues, CommandOK(c) PROVE CommandOK(c)'
  <2>1. /\ c.seen \in Ids /\ c.seen < unused /\ ~Waiting(queue, c.seen) /\ c.revision \in Int
        /\ navRevision \in Int
    BY <1>18 DEF CommandOK, SeenOK, CommandValues, IInv, TypeOK
  <2>2. c.seen # id
    BY <1>2, <1>4, <2>1
  <2>3. SeenOK(c)'
    BY <1>2, <1>4, <1>18, <2>1 DEF CommandOK, SeenOK
  <2>4. ListStamped(c)'
    BY <1>1, <1>10, <1>18, <2>2 DEF CommandOK, ListStamped
  <2>5. FrontStamped(c)'
    BY <1>1, <1>2, <1>5, <1>7, <1>18, <2>1 DEF CommandOK, FrontStamped
  <2> QED BY <2>3, <2>4, <2>5 DEF CommandOK
<1>19. CommandsOK' /\ commands' \in Seq(CommandValues)
  BY <1>1, <1>18, CommandsFollow
<1>20. ValuesOK'
  BY <1>1, <1>10, <1>19 DEF IInv, ValuesOK
<1> QED BY <1>13, <1>14, <1>15, <1>16, <1>17, <1>19, <1>20 DEF IInv

LEMMA PageDestroyingKeeps == ASSUME IInv, PageDestroying PROVE IInv'
<1>1. /\ Take("Close")
      /\ UNCHANGED <<strip, shown, revision, phase, page, commands, owes, unused, stopped>>
  BY DEF PageDestroying, hostVars
<1>2. /\ phase = "registry" /\ task = Idle /\ queue' \in Seq(QueueEntries) /\ Apart(queue')
      /\ \A x : Waiting(queue', x) => Waiting(queue, x)
  BY <1>1, TakeWaits
<1>3. /\ strip \in Seq(Ids) /\ Ids = 1..MaxTabs /\ MaxTabs \in Nat /\ task.at = "none"
      /\ \A t \in Range(strip) : t \in Ids
  <2>1. \A t \in Range(strip) : t \in Ids
    BY Listed DEF IInv, TypeOK
  <2> QED BY <1>2, <2>1, NavigationAssumption DEF IInv, TypeOK, Ids, Idle
<1> DEFINE id == Head(queue).id
<1>4. CASE id \in Range(strip)
  <2>1. task' = [at |-> "closing", id |-> id] /\ DetachRecord(id)
    BY <1>4 DEF PageDestroying
  <2> HIDE DEF id
  <2>2. /\ task'.at = "closing" /\ task'.id = id /\ id \in Ids /\ id \in 0..MaxTabs
        /\ task' \in [at : {"none", "opening", "closing", "draining"}, id : 0..MaxTabs]
    BY <1>3, <1>4, <2>1
  <2>3. /\ records' = Without(records, id) /\ pages' = Without(pages, id)
        /\ navActive' = (IF navActive = id THEN 0 ELSE navActive)
        /\ pubActive' = (IF pubActive = id THEN 0 ELSE pubActive)
        /\ navRevision' = navRevision
    BY <2>1 DEF DetachRecord
  <2>4. records \in [DOMAIN records -> RecordValues] /\ pages = [t \in DOMAIN records |-> Snapshot(records[t], page[t])]
    BY DEF IInv, ValuesOK, PublishedIsKnown
  <2>5. DOMAIN records = Range(strip)
    BY <1>3, RecordsKnown DEF Alive
  <2>6. /\ records' = [t \in DOMAIN records \ {id} |-> records[t]]
        /\ pages' = [t \in DOMAIN pages \ {id} |-> pages[t]]
    BY <2>3 DEF Without, Restrict
  <2>7. /\ DOMAIN records' = DOMAIN records \ {id} /\ records' \in [DOMAIN records' -> RecordValues]
        /\ \A t \in DOMAIN records' : records'[t] = records[t]
    BY <2>4, <2>6
  <2>8. pages' = [t \in DOMAIN records' |-> Snapshot(records'[t], page'[t])]
    <3>1. DOMAIN pages \ {id} = DOMAIN records'
      BY <2>4, <2>7
    <3>2. \A t \in DOMAIN records' : Snapshot(records'[t], page'[t]) = pages[t]
      BY <1>1, <2>4, <2>7
    <3> QED BY <2>6, <3>1, <3>2
  <2>9. TypeOK'
    <3>1. navActive' \in 0..MaxTabs /\ pubActive' \in 0..MaxTabs /\ DOMAIN records' \subseteq Ids
      BY <1>3, <2>3, <2>7 DEF IInv, TypeOK
    <3> QED BY <1>1, <1>2, <2>2, <2>3, <3>1 DEF IInv, TypeOK, QueueEntries
  <2>10. TabsOK'
    BY <1>1, <1>2, <1>3, <1>4, <2>2, <2>3 DEF IInv, TabsOK
  <2>11. PublishedIsKnown'
    <3>1. Alive' = Range(strip) \ {id}
      BY <1>1, <2>2 DEF Alive
    <3> QED BY <2>3, <2>5, <2>7, <2>8, <3>1 DEF IInv, PublishedIsKnown
  <2>12. FollowsTheStrip'
    BY <2>2 DEF FollowsTheStrip
  <2>13. LoadShown'
    <3>1. DOMAIN pages' \subseteq DOMAIN pages /\ \A t \in DOMAIN pages' : pages'[t] = pages[t]
      BY <2>6
    <3> QED BY <1>1, <3>1 DEF IInv, LoadShown
  <2>14. ASSUME NEW c \in CommandValues, CommandOK(c) PROVE CommandOK(c)'
    <3>1. SeenOK(c)'
      BY <1>1, <1>2, <2>14 DEF CommandOK, SeenOK
    <3>2. ListStamped(c)'
      BY <1>1, <2>7, <2>14 DEF CommandOK, ListStamped
    <3>3. FrontStamped(c)'
      BY <1>1, <1>3, <2>2, <2>3, <2>14 DEF CommandOK, FrontStamped
    <3> QED BY <3>1, <3>2, <3>3 DEF CommandOK
  <2>15. CommandsOK' /\ commands' \in Seq(CommandValues)
    BY <1>1, <2>14, CommandsFollow
  <2>16. ValuesOK'
    BY <1>1, <2>7, <2>15 DEF IInv, ValuesOK
  <2> QED BY <2>9, <2>10, <2>11, <2>12, <2>13, <2>15, <2>16 DEF IInv
<1>5. CASE id \notin Range(strip)
  <2>1. UNCHANGED <<task, recordVars, publishedVars>>
    BY <1>5 DEF PageDestroying
  <2>2. UNCHANGED <<navActive, navRevision, pubActive, records>>
    BY <2>1 DEF recordVars, publishedVars
  <2>3. TypeOK'
    BY <1>1, <1>2, <2>1, <2>2 DEF IInv, TypeOK, QueueEntries
  <2>4. TabsOK'
    BY <1>1, <1>2, <2>1, <2>2 DEF IInv, TabsOK
  <2>5. Alive' = Alive /\ FollowsTheStrip'
    BY <1>1, <2>1, <2>2 DEF IInv, Alive, FollowsTheStrip
  <2>6. \A c \in CommandValues : SeenOK(c) /\ FrontStamped(c) => SeenOK(c)' /\ FrontStamped(c)'
    BY <1>1, <1>2, <2>1, <2>2 DEF SeenOK, FrontStamped
  <2> QED BY <1>1, <2>1, <2>3, <2>4, <2>5, <2>6, QuietKeeps
<1> QED BY <1>4, <1>5

LEMMA ClosedKeeps == ASSUME IInv, Closed PROVE IInv'
<1> DEFINE id == task.id
           at == IndexOfTab(strip, id)
           rest == EraseTab(strip, at)
           front == IF shown # id THEN shown ELSE IF rest = <<>> THEN 0 ELSE Neighbour(rest, at)
<1>1. /\ task.at = "closing" /\ task' = Idle /\ Published(rest, front)
      /\ page' = [page EXCEPT ![id] = NewPage] /\ stopped' = stopped \ {id}
      /\ UNCHANGED <<queue, phase, recordVars, publishedVars, commands, owes, unused>>
  BY DEF Closed, hostVars
<1>2. UNCHANGED <<records, navActive, navRevision, pages, pubActive>>
  BY <1>1 DEF recordVars, publishedVars
<1>3. /\ strip \in Seq(Ids) /\ Distinct(strip) /\ id \in Range(strip)
      /\ Ids = 1..MaxTabs /\ shown \in 0..MaxTabs /\ MaxTabs \in Nat
      /\ revision \in Nat /\ navRevision <= revision /\ navRevision \in Int
  BY <1>1, NavigationAssumption DEF IInv, TypeOK, TabsOK, Ids
<1>4. at \in 0..(Len(strip) - 1) /\ strip[at + 1] = id
  BY <1>3, IndexOfListed
<1>5. id \in Ids
  BY SMTT(30), <1>3, Listed
<1> HIDE DEF at
<1>6. rest \in Seq(Ids) /\ Distinct(rest) /\ Range(rest) = Range(strip) \ {id}
  BY <1>3, <1>4, EraseTabProperties, EraseKeepsDistinct, EraseRange
<1> HIDE DEF rest
<1>7. front \in 0..MaxTabs
  <2>1. ASSUME rest # <<>> PROVE Neighbour(rest, at) \in Ids
    <3>1. Len(rest) \in Nat /\ Len(rest) # 0 /\ at \in Nat
      BY <1>4, <1>6, <2>1
    <3> QED BY <1>6, <3>1 DEF Neighbour
  <2> QED BY <1>3, <2>1
<1> HIDE DEF front
<1>8. strip' = rest /\ shown' = front /\ revision' = revision + 1
  BY <1>1 DEF Published
<1>9. /\ task'.at = "none" /\ task'.id = 0
      /\ task' \in [at : {"none", "opening", "closing", "draining"}, id : 0..MaxTabs]
  BY <1>1, <1>3 DEF Idle
<1>10. /\ page' \in [Ids -> PageValues]
       /\ \A t \in Ids : page'[t] = IF t = id THEN NewPage ELSE page[t]
       /\ \A t \in Ids : page'[t].at <= Len(page'[t].list)
  <2> DEFINE none == <<>>
  <2>1. none \in Seq(Nat) /\ Len(none) = 0
    OBVIOUS
  <2>2. NewPage = [list |-> none, at |-> 0, load |-> "none", version |-> 0]
    BY DEF NewPage
  <2> HIDE DEF none
  <2>3. NewPage \in PageValues /\ NewPage.at <= Len(NewPage.list)
    BY <2>1, <2>2 DEF PageValues
  <2>4. page \in [Ids -> PageValues] /\ \A t \in Ids : page[t].at <= Len(page[t].list)
    BY DEF IInv, ValuesOK
  <2>5. page' \in [Ids -> PageValues] /\ \A t \in Ids : page'[t] = IF t = id THEN NewPage ELSE page[t]
    BY <1>1, <1>5, <2>3, <2>4
  <2> QED BY <2>3, <2>4, <2>5
<1>11. DOMAIN records = Range(strip) \ {id} /\ DOMAIN records \subseteq Ids /\ id \notin DOMAIN records
  BY <1>1, RecordsKnown DEF Alive
<1>12. TypeOK'
  <2>1. stopped' \subseteq Ids
    BY <1>1 DEF IInv, TypeOK
  <2>2. revision' \in Nat /\ strip' \in Seq(Ids) /\ shown' \in 0..MaxTabs
    BY <1>3, <1>6, <1>7, <1>8
  <2> QED BY <1>1, <1>2, <1>9, <2>1, <2>2 DEF IInv, TypeOK
<1>13. TabsOK'
  BY <1>1, <1>2, <1>3, <1>6, <1>8, <1>9, <1>10 DEF IInv, TabsOK
<1>14. PublishedIsKnown'
  <2>1. Alive' = DOMAIN records'
    BY <1>2, <1>6, <1>8, <1>9, <1>11 DEF Alive
  <2>2. \A t \in DOMAIN records : page'[t] = page[t]
    BY <1>10, <1>11
  <2>3. pages' = [t \in DOMAIN records' |-> Snapshot(records'[t], page'[t])]
    BY <1>2, <2>2 DEF IInv, PublishedIsKnown
  <2> QED BY <1>2, <2>1, <2>3 DEF IInv, PublishedIsKnown
<1>15. FollowsTheStrip'
  BY <1>2, <1>3, <1>8 DEF FollowsTheStrip
<1>16. LoadShown'
  <2>1. DOMAIN pages = DOMAIN records
    BY RecordsKnown
  <2>2. \A t \in DOMAIN pages : page'[t] = page[t] /\ (t \in stopped' <=> t \in stopped)
    BY <1>1, <1>10, <1>11, <2>1
  <2> QED BY <1>2, <2>2 DEF IInv, LoadShown
<1>17. ASSUME NEW c \in CommandValues, CommandOK(c) PROVE CommandOK(c)'
  <2>1. SeenOK(c)'
    BY <1>1, <1>17 DEF CommandOK, SeenOK
  <2>2. ListStamped(c)'
    <3>1. \A t \in DOMAIN records : page'[t] = page[t]
      BY <1>10, <1>11
    <3> QED BY <1>2, <1>17, <3>1 DEF CommandOK, ListStamped
  <2>3. FrontStamped(c)'
    <3>1. c.revision \in Int
      BY DEF CommandValues
    <3> QED BY <1>1, <1>2, <1>3, <1>8, <1>9, <1>17, <3>1 DEF CommandOK, FrontStamped
  <2> QED BY <2>1, <2>2, <2>3 DEF CommandOK
<1>18. CommandsOK' /\ commands' \in Seq(CommandValues)
  BY <1>1, <1>17, CommandsFollow
<1>19. ValuesOK'
  BY <1>2, <1>10, <1>18 DEF IInv, ValuesOK
<1> QED BY <1>12, <1>13, <1>14, <1>15, <1>16, <1>18, <1>19 DEF IInv

LEMMA EngineCycleKeeps == ASSUME IInv, EngineCycle PROVE IInv'
<1>1. /\ phase = "cycle" /\ phase' = "webkit" /\ task' = [Idle EXCEPT !.at = "draining"]
      /\ UNCHANGED <<queue, strip, shown, revision, page, commands, owes, unused, stopped>>
  BY DEF EngineCycle, registryVars, hostVars
<1>2. /\ task = Idle /\ task.at = "none" /\ task'.at = "draining" /\ task'.id = 0 /\ task.id = 0
      /\ task' \in [at : {"none", "opening", "closing", "draining"}, id : 0..MaxTabs]
  BY <1>1, NavigationAssumption DEF IInv, TabsOK, Idle
<1>3. CASE navRevision = revision
  <2>1. UNCHANGED <<recordVars, publishedVars>>
    BY <1>3 DEF EngineCycle
  <2>2. UNCHANGED <<navActive, navRevision, pubActive, records>>
    BY <2>1 DEF recordVars, publishedVars
  <2>3. TypeOK'
    BY <1>1, <1>2, <2>2 DEF IInv, TypeOK
  <2>4. TabsOK'
    BY <1>1, <1>2, <2>2 DEF IInv, TabsOK
  <2>5. Alive' = Alive /\ FollowsTheStrip'
    BY <1>1, <1>2, <2>2 DEF IInv, Alive, FollowsTheStrip
  <2>6. \A c \in CommandValues : SeenOK(c) /\ FrontStamped(c) => SeenOK(c)' /\ FrontStamped(c)'
    BY <1>1, <1>2, <2>2 DEF SeenOK, FrontStamped
  <2> QED BY <1>1, <2>1, <2>3, <2>4, <2>5, <2>6, QuietKeeps
<1>4. CASE navRevision # revision
  <2>1. /\ navRevision' = revision /\ records' = InRows(records) /\ pages' = InRows(pages)
        /\ navActive' = shown /\ pubActive' = shown
    BY <1>4 DEF EngineCycle
  <2>2. /\ records \in [DOMAIN records -> RecordValues] /\ pages = [t \in DOMAIN records |-> Snapshot(records[t], page[t])]
        /\ strip \in Seq(Ids) /\ revision \in Nat /\ shown \in 0..MaxTabs /\ DOMAIN records \subseteq Ids
    BY DEF IInv, ValuesOK, PublishedIsKnown, TypeOK
  <2>3. DOMAIN records' = DOMAIN records /\ DOMAIN pages' = DOMAIN records
    BY <2>1, <2>2 DEF InRows
  <2>4. ASSUME NEW t \in DOMAIN records
        PROVE  /\ records'[t] \in RecordValues /\ records'[t].row = IndexOfTab(strip, t)
               /\ records'[t].loading = records[t].loading
               /\ pages'[t] = Snapshot(records'[t], page'[t])
    <3> DEFINE row == IndexOfTab(strip, t)
               record == records[t]
               new == [record EXCEPT !.row = row]
    <3>1. row \in Int /\ record \in RecordValues
      BY <2>2, IndexIsInteger
    <3>2. records'[t] = new /\ pages'[t] = [Snapshot(record, page[t]) EXCEPT !.row = row]
      BY <2>1, <2>2 DEF InRows
    <3>3. page' = page
      BY <1>1
    <3> HIDE DEF row, record
    <3>4. new \in RecordValues /\ new.row = row /\ new.loading = record.loading /\ new.error = record.error
      BY <3>1 DEF RecordValues
    <3> HIDE DEF new
    <3>5. [Snapshot(record, page[t]) EXCEPT !.row = row] = Snapshot(new, page[t])
      BY <3>4 DEF Snapshot
    <3>6. records'[t].row = row /\ records'[t].loading = record.loading /\ pages'[t] = Snapshot(records'[t], page'[t])
      BY <3>2, <3>3, <3>4, <3>5
    <3> QED BY <3>2, <3>4, <3>6 DEF row, record
  <2>5. records' \in [DOMAIN records' -> RecordValues]
    <3>1. records' = [t \in DOMAIN records' |-> records'[t]]
      BY <2>1, <2>3 DEF InRows
    <3> QED BY <2>3, <2>4, <3>1
  <2>6. pages' = [t \in DOMAIN records' |-> Snapshot(records'[t], page'[t])]
    <3>1. pages' = [t \in DOMAIN records' |-> pages'[t]]
      BY <2>1, <2>3 DEF InRows
    <3> QED BY <2>3, <2>4, <3>1
  <2>7. TypeOK'
    BY <1>1, <1>2, <2>1, <2>2, <2>3 DEF IInv, TypeOK
  <2>8. TabsOK'
    BY <1>1, <1>2, <2>1, <2>2 DEF IInv, TabsOK
  <2>9. PublishedIsKnown'
    <3>1. Alive' = Alive
      BY <1>1, <1>2 DEF Alive
    <3> QED BY <2>1, <2>3, <2>6, <3>1, RecordsKnown DEF PublishedIsKnown
  <2>10. FollowsTheStrip'
    BY <1>1, <2>1, <2>3, <2>4 DEF FollowsTheStrip
  <2>11. LoadShown'
    <3>1. ASSUME NEW t \in DOMAIN records
          PROVE  /\ pages'[t].loading => page[t].load # "none"
                 /\ page[t].load # "none" /\ t \notin stopped => pages'[t].loading
      <4>1. pages'[t].loading = records'[t].loading
        BY <2>3, <2>6 DEF Snapshot
      <4> QED BY <2>4, <4>1, RecordsKnown
    <3> QED BY <1>1, <2>3, <3>1 DEF LoadShown
  <2>12. ASSUME NEW c \in CommandValues, CommandOK(c) PROVE CommandOK(c)'
    <3>1. SeenOK(c)'
      BY <1>1, <2>12 DEF CommandOK, SeenOK
    <3>2. ListStamped(c)'
      BY <1>1, <2>3, <2>12 DEF CommandOK, ListStamped
    <3>3. FrontStamped(c)'
      BY <1>1, <1>2, <1>4, <2>1, <2>12 DEF CommandOK, FrontStamped
    <3> QED BY <3>1, <3>2, <3>3 DEF CommandOK
  <2>13. CommandsOK' /\ commands' \in Seq(CommandValues)
    BY <1>1, <2>12, CommandsFollow
  <2>14. ValuesOK'
    BY <1>1, <2>5, <2>13 DEF IInv, ValuesOK
  <2> QED BY <2>7, <2>8, <2>9, <2>10, <2>11, <2>13, <2>14 DEF IInv
<1> QED BY <1>3, <1>4

\* Nothing is listed, published, recorded or commanded.
LEMMA EmptyModel ==
  ASSUME strip' = <<>>, records' = << >>, pages' = << >>, commands' = <<>>, page' = [t \in Ids |-> NewPage],
         task'.at = "none", pubActive' = navActive', navRevision' = -1, revision' \in Nat
  PROVE  /\ ValuesOK' /\ PublishedIsKnown' /\ FollowsTheStrip' /\ LoadShown' /\ CommandsOK'
         /\ Range(strip') = {} /\ Distinct(strip') /\ strip' \in Seq(Ids) /\ DOMAIN records' = {}
         /\ \A t \in Ids : page'[t] = NewPage
<1> DEFINE none == <<>>
<1>1. none \in Seq(Ids) /\ none \in Seq(Nat) /\ none \in Seq(CommandValues) /\ Len(none) = 0 /\ DOMAIN none = {}
  OBVIOUS
<1>2. Range(none) = {}
  BY EmptyRange
<1>3. none \in [DOMAIN none -> RecordValues]
  BY <1>1
<1>4. \A t \in Ids : page'[t] = NewPage
  OBVIOUS
<1>5. page' \in [Ids -> PageValues] /\ \A t \in Ids : page'[t].at <= Len(page'[t].list)
  <2>1. NewPage = [list |-> none, at |-> 0, load |-> "none", version |-> 0]
    BY DEF NewPage
  <2> HIDE DEF none
  <2>2. NewPage \in PageValues /\ NewPage.at <= Len(NewPage.list)
    BY <1>1, <2>1 DEF PageValues
  <2> QED BY <1>4, <2>2
<1>6. strip' = none /\ records' = none /\ pages' = none /\ commands' = none
  OBVIOUS
<1>7. none = [t \in DOMAIN none |-> Snapshot(records'[t], page'[t])]
  BY <1>1
<1> HIDE DEF none
<1>8. ValuesOK'
  BY <1>1, <1>3, <1>5, <1>6 DEF ValuesOK
<1>9. PublishedIsKnown'
  <2>1. Alive' = {}
    BY <1>2, <1>6 DEF Alive
  <2> QED BY <1>1, <1>6, <1>7, <2>1 DEF PublishedIsKnown
<1>10. FollowsTheStrip'
  BY DEF FollowsTheStrip
<1>11. LoadShown' /\ CommandsOK' /\ Distinct(none)
  BY <1>1, <1>6 DEF LoadShown, CommandsOK, Distinct
<1> QED BY <1>1, <1>2, <1>4, <1>6, <1>8, <1>9, <1>10, <1>11

LEMMA EngineTeardownKeeps == ASSUME IInv, EngineTeardown PROVE IInv'
<1>1. /\ Take("Shutdown") /\ phase' = "down" /\ page' = [t \in Ids |-> NewPage]
      /\ strip' = <<>> /\ shown' = 0 /\ revision' = revision + 1
      /\ records' = << >> /\ navActive' = 0 /\ navRevision' = -1
      /\ pages' = << >> /\ pubActive' = 0 /\ commands' = <<>> /\ stopped' = {}
      /\ UNCHANGED <<task, owes, unused>>
  BY DEF EngineTeardown, Published, hostVars
<1>2. /\ task = Idle /\ queue' \in Seq(QueueEntries) /\ Apart(queue')
      /\ \A x : Waiting(queue', x) => Waiting(queue, x)
  BY <1>1, TakeWaits
<1>3. task'.at = "none" /\ task.at = "none" /\ task.id = 0 /\ pubActive' = navActive' /\ revision' \in Nat
  BY <1>1, <1>2 DEF Idle, IInv, TypeOK
<1>4. /\ ValuesOK' /\ PublishedIsKnown' /\ FollowsTheStrip' /\ LoadShown' /\ CommandsOK'
      /\ Range(strip') = {} /\ Distinct(strip') /\ strip' \in Seq(Ids) /\ DOMAIN records' = {}
      /\ \A t \in Ids : page'[t] = NewPage
  BY <1>1, <1>3, EmptyModel
<1>5. TypeOK'
  <2>1. shown' \in 0..MaxTabs /\ navActive' \in 0..MaxTabs /\ pubActive' \in 0..MaxTabs
    BY <1>1, NavigationAssumption
  <2>2. navRevision' \in Nat \cup {-1} /\ stopped' \subseteq Ids /\ DOMAIN records' \subseteq Ids
    BY <1>1, <1>4
  <2>3. strip' \in Seq(Ids) /\ queue' \in Seq(QueueEntries) /\ revision' \in Nat
    BY <1>2, <1>3, <1>4
  <2>4. task' = task /\ owes' = owes /\ unused' = unused /\ phase' = "down"
    BY <1>1
  <2> HIDE DEF IInv
  <2>5. /\ task \in [at : {"none", "opening", "closing", "draining"}, id : 0..MaxTabs]
        /\ owes \in BOOLEAN /\ unused \in 1..(MaxTabs + 1)
    BY DEF IInv, TypeOK
  <2> QED BY <2>1, <2>2, <2>3, <2>4, <2>5 DEF TypeOK, QueueEntries
<1>6. TabsOK'
  <2>1. \A x : Waiting(queue', x) => x \in Ids /\ x < unused /\ x # task.id
    BY <1>2 DEF IInv, TabsOK
  <2>2. navRevision' <= revision'
    BY <1>1, <1>3
  <2>3. UNCHANGED <<task, unused>> /\ phase' = "down"
    BY <1>1
  <2> QED BY <1>2, <1>3, <1>4, <2>1, <2>2, <2>3 DEF TabsOK
<1> QED BY <1>4, <1>5, <1>6 DEF IInv

LEMMA InitHolds == Init => IInv /\ GoesWhereShown
<1> SUFFICES ASSUME Init PROVE IInv /\ GoesWhereShown
  OBVIOUS
<1> DEFINE first == [op |-> "Open", id |-> 1]
<1>1. /\ queue = <<first>> /\ strip = <<>> /\ shown = 0 /\ revision = 0 /\ phase = "registry" /\ task = Idle
      /\ page = [t \in Ids |-> NewPage] /\ records = << >> /\ navActive = 0 /\ navRevision = -1
      /\ pages = << >> /\ pubActive = 0 /\ commands = <<>> /\ owes = FALSE /\ unused = 2 /\ stopped = {}
  BY DEF Init
<1>2. MaxTabs \in Nat \ {0} /\ task.at = "none" /\ task.id = 0
      /\ task \in [at : {"none", "opening", "closing", "draining"}, id : 0..MaxTabs]
  BY <1>1, NavigationAssumption DEF Idle
<1>3. first \in QueueEntries /\ first.op = "Open" /\ first.id = 1
  BY <1>2 DEF QueueEntries
<1> HIDE DEF first
<1>4. queue \in Seq(QueueEntries) /\ Len(queue) = 1 /\ queue[1] = first
  BY <1>1, <1>3
<1>5. Apart(queue) /\ \A x : Waiting(queue, x) => x = 1
  BY <1>3, <1>4 DEF Apart, Waiting
<1> DEFINE none == <<>>
<1>6. none \in Seq(Ids) /\ none \in Seq(Nat) /\ none \in Seq(CommandValues) /\ Len(none) = 0 /\ DOMAIN none = {}
  OBVIOUS
<1>7. Range(none) = {}
  BY EmptyRange
<1>8. strip = none /\ records = none /\ pages = none /\ commands = none
  BY <1>1
<1>9. none = [t \in DOMAIN none |-> Snapshot(records[t], page[t])] /\ none \in [DOMAIN none -> RecordValues]
  BY <1>6
<1>10. \A t \in Ids : page[t] = NewPage
  BY <1>1
<1>11. page \in [Ids -> PageValues] /\ \A t \in Ids : page[t].at <= Len(page[t].list)
  <2>1. NewPage = [list |-> none, at |-> 0, load |-> "none", version |-> 0]
    BY DEF NewPage
  <2> HIDE DEF none
  <2>2. NewPage \in PageValues /\ NewPage.at <= Len(NewPage.list)
    BY <1>6, <2>1 DEF PageValues
  <2> QED BY <1>1, <1>10, <2>2
<1> HIDE DEF none
<1>12. TypeOK
  <2>1. navRevision \in Nat \cup {-1} /\ revision \in Nat /\ unused \in 1..(MaxTabs + 1)
    BY <1>1, <1>2
  <2>2. DOMAIN records \subseteq Ids /\ strip \in Seq(Ids)
    BY <1>6, <1>8
  <2> QED BY <1>1, <1>2, <1>4, <2>1, <2>2 DEF TypeOK, QueueEntries
<1>13. ValuesOK
  BY <1>6, <1>8, <1>9, <1>11 DEF ValuesOK
<1>14. TabsOK
  <2>1. 1 \in Ids /\ 1 < unused /\ 1 # task.id /\ navRevision <= revision
    BY <1>1, <1>2 DEF Ids
  <2>2. Distinct(strip)
    BY <1>6, <1>8 DEF Distinct
  <2> QED BY <1>1, <1>2, <1>5, <1>7, <1>8, <1>10, <2>1, <2>2 DEF TabsOK
<1>15. PublishedIsKnown
  <2>1. Alive = {}
    BY <1>2, <1>7, <1>8 DEF Alive
  <2> QED BY <1>1, <1>6, <1>8, <1>9, <2>1 DEF PublishedIsKnown
<1>16. FollowsTheStrip /\ LoadShown /\ CommandsOK
  BY <1>1, <1>6, <1>8 DEF FollowsTheStrip, LoadShown, CommandsOK
<1>17. GoesWhereShown
  BY DEF Init, Nowhere, GoesWhereShown
<1> QED BY <1>12, <1>13, <1>14, <1>15, <1>16, <1>17 DEF IInv

-----------------------------------------------------------------------------
(* Commands.                                                               *)

\* A command is stamped with what the host reads at that moment.
LEMMA PushCommandKeeps == ASSUME IInv, PushCommand PROVE IInv'
<1>1. /\ owes' = TRUE
      /\ UNCHANGED <<queue, strip, shown, revision, phase, task, page, records, navActive, navRevision, pages, pubActive,
                     unused, stopped>>
  BY DEF PushCommand, registryVars, recordVars, publishedVars
<1>2. PICK seen \in DOMAIN pages, op \in {"Load", "Stop", "GoTo"}, named \in BOOLEAN :
        /\ named \/ seen = pubActive
        /\ \E index \in 0..(IF op = "GoTo" THEN Len(pages[seen].history) - 1 ELSE 0) :
             commands' = Append(commands,
               [op |-> op, tab |-> IF named THEN seen ELSE 0, index |-> index, seen |-> seen,
                entry |-> IF op = "GoTo" THEN pages[seen].history[index + 1] ELSE 0,
                version |-> pages[seen].version, revision |-> navRevision])
  BY ZenonT(40) DEF PushCommand
<1>3. /\ seen \in DOMAIN records /\ seen \in Ids /\ page[seen] \in PageValues
      /\ pages[seen] = Snapshot(records[seen], page[seen])
  BY RecordsKnown
<1> DEFINE list == page[seen].list
<1>4. /\ pages[seen].history = list /\ pages[seen].version = page[seen].version
      /\ list \in Seq(Nat) /\ page[seen].version \in Nat
  BY <1>3 DEF Snapshot, ReadHistory, PageValues
<1> DEFINE entry(i) == IF op = "GoTo" THEN list[i + 1] ELSE 0
           command(i) == [op |-> op, tab |-> IF named THEN seen ELSE 0, index |-> i, seen |-> seen,
                          entry |-> entry(i), version |-> page[seen].version, revision |-> navRevision]
<1>5. PICK index \in 0..(IF op = "GoTo" THEN Len(list) - 1 ELSE 0) : commands' = Append(commands, command(index))
  BY <1>2, <1>4
<1>6. index \in Nat /\ entry(index) \in Nat /\ (op = "GoTo" => index + 1 \in 1..Len(list))
  <2>1. Len(list) \in Nat
    BY <1>4
  <2>2. op = "GoTo" => index + 1 \in 1..Len(list)
    BY <1>5, <2>1
  <2> HIDE DEF list
  <2> QED BY <1>4, <1>5, <2>1, <2>2
<1> DEFINE c == command(index)
<1>7. /\ c.op = op /\ c.tab = (IF named THEN seen ELSE 0) /\ c.index = index /\ c.seen = seen
      /\ c.entry = entry(index) /\ c.version = page[seen].version /\ c.revision = navRevision
  OBVIOUS
<1>8. c \in CommandValues
  <2>1. seen \in 0..MaxTabs /\ 0 \in 0..MaxTabs /\ navRevision \in Nat \cup {-1}
    BY <1>3, NavigationAssumption DEF Ids, IInv, TypeOK
  <2> HIDE DEF entry, list
  <2> QED BY <1>3, <1>4, <1>6, <2>1 DEF CommandValues
<1>9. commands' = Append(commands, c)
  BY <1>5
<1>10. op = "GoTo" => c.entry = page[seen].list[index + 1]
  BY <1>7
<1> HIDE DEF c, command, entry
<1>11. CommandOK(c)
  <2>1. seen < unused /\ ~Waiting(queue, seen)
    <3>1. seen \in Alive
      BY <1>3, RecordsKnown
    <3>2. seen \in Range(strip) \/ (task.at = "opening" /\ seen = task.id)
      BY <3>1 DEF Alive
    <3> QED BY <3>2 DEF IInv, TabsOK
  <2>2. SeenOK(c)
    BY <1>7, <2>1 DEF SeenOK
  <2>3. ListStamped(c)
    BY <1>4, <1>6, <1>7, <1>10 DEF ListStamped
  <2>4. FrontStamped(c)
    <3>1. pubActive = navActive /\ navRevision <= revision
      BY DEF IInv, PublishedIsKnown, TabsOK
    <3>2. c.tab = 0 => seen = navActive
      BY <1>2, <1>3, <1>7, <3>1 DEF Ids
    <3> QED BY <1>7, <3>1, <3>2 DEF FrontStamped
  <2> QED BY <2>2, <2>3, <2>4 DEF CommandOK
<1>12. commands \in Seq(CommandValues) /\ \A i \in 1..Len(commands) : CommandOK(commands[i])
  BY DEF IInv, ValuesOK, CommandsOK
<1>13. /\ commands' \in Seq(CommandValues) /\ Len(commands') = Len(commands) + 1
       /\ \A i \in 1..Len(commands) : commands'[i] = commands[i]
       /\ commands'[Len(commands) + 1] = c
  BY <1>8, <1>9, <1>12, AppendOf
<1>14. \A i \in 1..Len(commands') : CommandOK(commands'[i])
  <2>1. \A i \in 1..Len(commands') : i \in 1..Len(commands) \/ i = Len(commands) + 1
    BY <1>12, <1>13
  <2> QED BY <1>11, <1>12, <1>13, <2>1
<1>15. ASSUME NEW i \in 1..Len(commands') PROVE CommandOK(commands[i])'
  <2>1. CommandOK(commands'[i])
    BY <1>14
  <2> QED BY <1>1, <2>1 DEF CommandOK, SeenOK, ListStamped, FrontStamped, Waiting
<1>16. CommandsOK'
  BY <1>15 DEF CommandsOK
<1>17. TypeOK'
  BY <1>1 DEF IInv, TypeOK
<1>18. ValuesOK'
  BY <1>1, <1>13 DEF IInv, ValuesOK
<1>19. TabsOK' /\ FollowsTheStrip' /\ LoadShown'
  BY <1>1 DEF IInv, TabsOK, FollowsTheStrip, LoadShown
<1>20. PublishedIsKnown'
  BY <1>1 DEF IInv, PublishedIsKnown, Alive
<1> QED BY <1>16, <1>17, <1>18, <1>19, <1>20 DEF IInv

LEMMA RunCommandKeeps == ASSUME IInv, RunCommand PROVE IInv' /\ GoesWhereShown'
<1> DEFINE c == Head(commands)
           id == Wanted(c)
           pg == page[id]
           record == IF c.op = "Stop" THEN [Record(id) EXCEPT !.loading = FALSE] ELSE Record(id)
<1>1. /\ commands # <<>> /\ commands' = Tail(commands)
      /\ UNCHANGED <<registryVars, phase, task, hostVars>>
  BY DEF RunCommand
<1>2. c \in CommandValues /\ CommandOK(c)
  <2>1. commands \in Seq(CommandValues) /\ \A i \in 1..Len(commands) : CommandOK(commands[i])
    BY DEF IInv, ValuesOK, CommandsOK
  <2>2. c = commands[1] /\ 1 \in 1..Len(commands)
    BY <1>1, <2>1, TailOf
  <2> QED BY <2>1, <2>2
<1>3. CASE id \notin DOMAIN records
  <2>1. went' = Nowhere /\ UNCHANGED <<page, recordVars, publishedVars, stopped>>
    BY <1>3 DEF RunCommand
  <2>2. UNCHANGED <<queue, strip, shown, revision, phase, task, page, records, navActive, navRevision, pages, pubActive,
                    owes, unused, stopped>>
    BY <1>1, <2>1 DEF registryVars, hostVars, recordVars, publishedVars
  <2> HIDE DEF c, id
  <2>3. ASSUME NEW d \in CommandValues, CommandOK(d) PROVE CommandOK(d)'
    BY <2>2, <2>3 DEF CommandOK, SeenOK, ListStamped, FrontStamped
  <2>4. CommandsOK' /\ commands' \in Seq(CommandValues)
    BY <1>1, <2>3, CommandsFollow
  <2>5. TypeOK' /\ ValuesOK'
    BY <2>2, <2>4 DEF IInv, TypeOK, ValuesOK
  <2>6. TabsOK' /\ FollowsTheStrip' /\ LoadShown' /\ PublishedIsKnown'
    BY <2>2 DEF IInv, TabsOK, FollowsTheStrip, LoadShown, PublishedIsKnown, Alive
  <2>7. GoesWhereShown'
    BY <2>1 DEF Nowhere, GoesWhereShown
  <2> QED BY <2>4, <2>5, <2>6, <2>7 DEF IInv
<1>4. CASE id \in DOMAIN records
  <2>1. /\ Reports(id, pg, record)
        /\ stopped' = (IF c.op = "Stop" /\ pg.load # "none" THEN stopped \cup {id} ELSE stopped)
        /\ Goes(c, id, Entry(pg, c.index))
    BY <1>4 DEF RunCommand
  <2>2. /\ id \in Ids /\ pg \in PageValues /\ pg.at <= Len(pg.list) /\ records[id] \in RecordValues
        /\ records[id].loading => pg.load # "none"
        /\ pg.load # "none" /\ id \notin stopped => records[id].loading
        /\ stopped \subseteq Ids
    BY <1>4, RecordsKnown DEF IInv, TypeOK
  <2>3. Record(id) = records[id]
    BY <1>4 DEF Record
  <2> HIDE DEF c, id
  <2>4. Told(id, pg, record)
    <3>1. /\ record \in RecordValues /\ record.row = records[id].row
          /\ record.loading = IF c.op = "Stop" THEN FALSE ELSE records[id].loading
      BY <2>2, <2>3 DEF RecordValues
    <3> HIDE DEF record
    <3>2. stopped' \subseteq Ids /\ \A t \in Ids \ {id} : t \in stopped' <=> t \in stopped
      BY <2>1, <2>2
    <3> QED BY <2>1, <2>2, <3>1, <3>2 DEF Told
  <2>5. IInv'
    BY <1>1, <2>4, TellKeeps
  <2>6. GoesWhereShown'
    <3> DEFINE entry == Entry(pg, c.index)
    <3>1. CASE c.op # "GoTo" \/ entry = 0
      BY <2>1, <3>1 DEF Goes, Nowhere, GoesWhereShown
    <3>2. CASE c.op = "GoTo" /\ entry # 0
      <4>1. /\ went'.unmoved = (c.revision = navRevision /\ (id = c.seen => c.version = pg.version))
            /\ went'.meant = <<c.seen, c.entry>> /\ went'.reached = <<id, entry>>
        BY <2>1, <3>2 DEF Goes
      <4>2. ASSUME c.revision = navRevision, id = c.seen => c.version = pg.version
            PROVE  id = c.seen /\ entry = c.entry
        <5>1. id = c.seen
          <6>1. c.tab \in {0, c.seen} /\ c.tab \in 0..MaxTabs /\ c.seen \in Ids /\ id \in Ids
            BY <1>2, <2>2 DEF CommandOK, SeenOK, CommandValues
          <6>2. id = IF c.tab > 0 THEN c.tab ELSE navActive
            BY DEF id, Wanted
          <6>3. c.tab = 0 /\ navActive # 0 => navActive = c.seen
            BY <1>2, <4>2 DEF CommandOK, FrontStamped
          <6> QED BY <6>1, <6>2, <6>3 DEF Ids
        <5>2. c.index + 1 \in 1..Len(pg.list) /\ pg.list[c.index + 1] = c.entry
          BY <1>2, <1>4, <3>2, <4>2, <5>1 DEF CommandOK, ListStamped
        <5>3. entry = pg.list[c.index + 1]
          <6>1. c.index \in Nat /\ pg.at \in Nat /\ Len(pg.list) \in Nat
            BY <1>2, <2>2 DEF CommandValues, PageValues
          <6>2. pg.at + (c.index - (pg.at - 1)) = c.index + 1
            BY <6>1
          <6> QED BY <3>2, <6>2 DEF Entry
        <5> QED BY <5>1, <5>2, <5>3
      <4> QED BY <4>1, <4>2 DEF GoesWhereShown
    <3> QED BY <3>1, <3>2
  <2> QED BY <2>5, <2>6
<1> QED BY <1>3, <1>4

-----------------------------------------------------------------------------
(* The theorems.                                                           *)

LEMMA PageReportsKeeps == ASSUME IInv, PageReports PROVE IInv'
<1>1. /\ \E id \in Ids : \E p, record : Told(id, p, record)
      /\ UNCHANGED <<registryVars, phase, task, commands, hostVars, went>>
  BY PageReportsTells
<1> QED BY <1>1, TellKeeps

LEMMA StepKeeps == ASSUME IInv, [Next]_vars PROVE IInv'
<1>1. CASE AskRegistry
  BY <1>1, AskRegistryKeeps
<1>2. CASE PushCommand
  BY <1>2, PushCommandKeeps
<1>3. CASE AskDrain
  BY <1>3, AskDrainKeeps
<1>4. CASE PageReports
  BY <1>4, PageReportsKeeps
<1>5. CASE EngineCycle
  BY <1>5, EngineCycleKeeps
<1>6. CASE LoopTurns
  BY <1>6, LoopTurnsKeeps
<1>7. CASE PageCreated
  BY <1>7, PageCreatedKeeps
<1>8. CASE Opened
  BY <1>8, OpenedKeeps
<1>9. CASE PageDestroying
  BY <1>9, PageDestroyingKeeps
<1>10. CASE Closed
  BY <1>10, ClosedKeeps
<1>11. CASE Rearranges
  BY <1>11, RearrangesKeeps
<1>12. CASE RunInvoke
  BY <1>12, RunInvokeKeeps
<1>13. CASE EngineTeardown
  BY <1>13, EngineTeardownKeeps
<1>14. CASE RunCommand
  BY <1>14, RunCommandKeeps
<1>15. CASE Drained
  BY <1>15, DrainedKeeps
<1>16. CASE UNCHANGED vars
  BY <1>16, StutterKeeps
<1> QED BY <1>1, <1>2, <1>3, <1>4, <1>5, <1>6, <1>7, <1>8, <1>9, <1>10, <1>11, <1>12, <1>13, <1>14, <1>15, <1>16
        DEF Next, HostStep, EngineStep

\* Only a command that runs says where it went.
LEMMA StepGoes == ASSUME IInv, GoesWhereShown, [Next]_vars PROVE GoesWhereShown'
<1>1. CASE RunCommand
  BY <1>1, RunCommandKeeps
<1>2. CASE PageReports
  BY <1>2, PageReportsTells DEF GoesWhereShown
<1>3. CASE HostStep
  BY <1>3 DEF HostStep, AskRegistry, PushCommand, AskDrain, GoesWhereShown
<1>4. CASE \/ EngineCycle \/ LoopTurns \/ PageCreated \/ Opened \/ PageDestroying \/ Closed \/ Rearranges \/ RunInvoke
           \/ EngineTeardown \/ Drained
  BY <1>4 DEF EngineCycle, LoopTurns, PageCreated, Opened, PageDestroying, Closed, Rearranges, RunInvoke, EngineTeardown,
              Drained, GoesWhereShown
<1>5. CASE UNCHANGED vars
  BY <1>5 DEF vars, GoesWhereShown
<1> QED BY <1>1, <1>2, <1>3, <1>4, <1>5 DEF Next, EngineStep

\* What is published of a tab is what the WebKit thread knows of it and of its
\* page, for as long as the page lives; the rows and the tab in front are the
\* registry's as of the revision the model has read; a tab is shown loading from
\* the start of a load until it ends or is told to stop (hb_nav_*,
\* navigation_state.cpp and _publish.cpp).
THEOREM TheModelIsConsistent == Spec => []NavigationConsistent
<1>1. Init => IInv
  BY InitHolds
<1>2. IInv /\ [Next]_vars => IInv'
  BY StepKeeps
<1>3. IInv => NavigationConsistent
  BY DEF IInv, NavigationConsistent
<1> QED BY <1>1, <1>2, <1>3, PTL DEF Spec

\* A command goes to the entry the person was shown, in the tab it was shown for,
\* unless the list or the strip has moved since (hb_nav_go_to_history_entry: a command
\* carries a place in a list, and 0 for the tab in front).
THEOREM CommandsGoWhereShown == Spec => []GoesWhereShown
<1>1. Init => IInv /\ GoesWhereShown
  BY InitHolds
<1>2. IInv /\ GoesWhereShown /\ [Next]_vars => IInv' /\ GoesWhereShown'
  BY StepKeeps, StepGoes
<1> QED BY <1>1, <1>2, PTL DEF Spec
=============================================================================
