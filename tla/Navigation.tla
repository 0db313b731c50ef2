----------------------------- MODULE Navigation -----------------------------
(***************************************************************************)
(* The navigation model: what the chrome is told of each tab's load and of  *)
(* its back and forward list, and the commands it gives by what it was told *)
(* (browser/NativeLibs/harmony_navigation_state.cpp and _publish.cpp,       *)
(* browser/app/Navigation).                                                 *)
(*                                                                         *)
(* Records and published snapshots are kept by the WebKit thread, from the  *)
(* pages' reports and, once per cycle, from the registry's published list.  *)
(* The host reads the snapshots and posts commands to a queue of the        *)
(* model's own, beside the registry's.  Titles, addresses and progress are  *)
(* left out: they are read off the page with the history, and in one go.    *)
(***************************************************************************)
EXTENDS TabList

CONSTANTS
  MaxTabs,     \* bound: tabs ever opened
  MaxQueue,    \* bound: commands that wait, in either queue
  MaxEvents,   \* bound: reports of the pages
  MaxAsks,     \* bound: what persons ask for
  CanForget    \* whether WebKit may answer nothing for an entry of the list

ASSUME NavigationAssumption ==
  /\ {MaxTabs, MaxQueue, MaxEvents, MaxAsks} \subseteq Nat \ {0}
  /\ CanForget \in BOOLEAN

VARIABLES
  queue,       \* the registry's queue
  strip, shown, revision,  \* what the registry has published
  phase,       \* where the WebKit thread is in its loop: "registry", "cycle", "webkit", "down"
  task,        \* what it is in the middle of there
  page,        \* the pages, as WebKit has them
  records, navActive, navRevision,  \* g_records, g_activeTabId, g_tabsRevision
  pages, pubActive,                 \* g_pages and g_activeTabId of the published half
  commands,    \* g_commands
  owes,        \* a command is in g_commands and its drain not yet asked for
  unused, events, asks,
  \* What the properties remember: loads that have been told to stop, and what the
  \* last command that went to an entry was given and did.
  stopped, went

registryVars == <<queue, strip, shown, revision>>
recordVars == <<records, navActive, navRevision>>
publishedVars == <<pages, pubActive>>
hostVars == <<owes, unused, asks>>
vars == <<registryVars, phase, task, page, recordVars, publishedVars, commands, hostVars, events, stopped, went>>

Ids == 1..MaxTabs
Idle == [at |-> "none", id |-> 0]
NoRecord == [row |-> -1, loading |-> FALSE, error |-> 0]
NewPage == [list |-> <<>>, at |-> 0, load |-> "none", version |-> 0]
Nowhere == [unmoved |-> FALSE, meant |-> <<0, 0>>, reached |-> <<0, 0>>]

-----------------------------------------------------------------------------
(* Publishing.                                                             *)

\* Mutant: an entry WebKit answers nothing for is left out.
ReadHistoryShort(p) ==
  [history |-> SelectSeq(p.list, LAMBDA e : e # 0), current |-> Len(SelectSeq(SubSeq(p.list, 1, p.at), LAMBDA e : e # 0)) - 1]

\* readHistory: an entry for every offset, and the current one's place among them.
ReadHistory(p) == [history |-> p.list, current |-> p.at - 1]

Snapshot(record, p) ==
  [row |-> record.row, loading |-> record.loading, error |-> record.error,
   history |-> ReadHistory(p).history, current |-> ReadHistory(p).current, version |-> p.version]

With(f, id, value) == [t \in DOMAIN f \cup {id} |-> IF t = id THEN value ELSE f[t]]
Without(f, id) == Restrict(f, DOMAIN f \ {id})

\* A report about the page of tab `id', which leaves the page at p: only a tab
\* that has a record is told of, and the record is published with the page.
Reports(id, p, record) ==
  /\ page' = [page EXCEPT ![id] = p]
  /\ IF id \in DOMAIN records
     THEN /\ records' = [records EXCEPT ![id] = record]
          /\ pages' = With(pages, id, Snapshot(record, p))
     ELSE UNCHANGED <<records, pages>>
  /\ UNCHANGED <<navActive, navRevision, pubActive>>

-----------------------------------------------------------------------------
(* The pages' reports, in WebKit's turn of the loop.                       *)

Reporting(id) ==
  /\ phase = "webkit" /\ task = Idle /\ id \in Range(strip)
  /\ events < MaxEvents /\ events' = events + 1

Record(id) == IF id \in DOMAIN records THEN records[id] ELSE NoRecord

Ended(id, error) == [Record(id) EXCEPT !.loading = FALSE, !.error = error]

\* A page has one load at a time: one that is replaced fails before the next starts.
DidStartProvisional(id) ==
  /\ Reporting(id) /\ page[id].load = "none"
  /\ Reports(id, [page[id] EXCEPT !.load = "provisional"], [Record(id) EXCEPT !.loading = TRUE, !.error = 0])
  /\ UNCHANGED <<stopped>>

\* The list after a new entry, which takes those ahead of the current one with it.
Grown(p) ==
  [p EXCEPT !.list = Append(SubSeq(@, 1, p.at), p.version + 1), !.at = @ + 1, !.version = @ + 1]

\* A load commits at a new entry, or at one of those that are there.
DidCommit(id) ==
  /\ Reporting(id) /\ page[id].load = "provisional"
  /\ \/ Reports(id, [Grown(page[id]) EXCEPT !.load = "committed"], Record(id))
     \/ \E at \in { i \in 1..Len(page[id].list) : page[id].list[i] # 0 } :
          Reports(id, [page[id] EXCEPT !.load = "committed", !.at = at, !.version = @ + 1], Record(id))
  /\ UNCHANGED <<stopped>>

DidFinish(id) ==
  /\ Reporting(id) /\ page[id].load = "committed"
  /\ Reports(id, [page[id] EXCEPT !.load = "none"], Ended(id, 0))
  /\ stopped' = stopped \ {id}

\* didFailProvisionalNavigation, didFailNavigation: recordFailure.
DidFail(id) ==
  /\ Reporting(id) /\ page[id].load # "none"
  /\ Reports(id, [page[id] EXCEPT !.load = "none"], Ended(id, 1))
  /\ stopped' = stopped \ {id}

\* Mutant: a process that ends is only named.
CrashUnended(id) ==
  /\ Reporting(id)
  /\ Reports(id, [page[id] EXCEPT !.load = "none"], [Record(id) EXCEPT !.error = -1])
  /\ stopped' = stopped \ {id}

WebProcessDidCrash(id) ==
  /\ Reporting(id)
  /\ Reports(id, [page[id] EXCEPT !.load = "none"], Ended(id, -1))
  /\ stopped' = stopped \ {id}

DidSameDocument(id) ==
  /\ Reporting(id) /\ page[id].load # "provisional" /\ page[id].list # <<>>
  /\ Reports(id, Grown(page[id]), Record(id))
  /\ UNCHANGED <<stopped>>

\* pageStateChanged, for an entry WebKit has nothing to answer for any more.
PageStateChanged(id) ==
  /\ CanForget /\ Reporting(id)
  /\ \E i \in 1..Len(page[id].list) \ {page[id].at} :
       Reports(id, [page[id] EXCEPT !.list[i] = 0, !.version = @ + 1], Record(id))
  /\ UNCHANGED <<stopped>>

PageReports ==
  \E id \in Ids :
    /\ \/ DidStartProvisional(id) \/ DidCommit(id) \/ DidFinish(id) \/ DidFail(id)
       \/ WebProcessDidCrash(id) \/ DidSameDocument(id) \/ PageStateChanged(id)
    /\ UNCHANGED <<registryVars, phase, task, commands, hostVars, went>>

-----------------------------------------------------------------------------
(* The registry's seams.                                                   *)

DetachRecord(id) ==
  /\ records' = Without(records, id)
  /\ navActive' = IF navActive = id THEN 0 ELSE navActive
  /\ pages' = Without(pages, id)
  /\ pubActive' = IF pubActive = id THEN 0 ELSE pubActive
  /\ UNCHANGED navRevision

\* attachRecord: the registry has no row for the tab yet.
AttachRecord(id) ==
  /\ LET record == [NoRecord EXCEPT !.row = IndexOfTab(strip, id)]
     IN  /\ records' = With(records, id, record)
         /\ pages' = With(pages, id, Snapshot(record, page[id]))
  /\ navRevision' = -1
  /\ UNCHANGED <<navActive, pubActive>>

\* publishSlot, and the record's own: where the strip has each tab.
InRows(f) == [t \in DOMAIN f |-> [f[t] EXCEPT !.row = IndexOfTab(strip, t)]]

\* The rows are followed, and the tab that is shown.
EngineCycle ==
  /\ phase = "cycle"
  /\ IF navRevision = revision
     THEN UNCHANGED <<recordVars, publishedVars>>
     ELSE /\ navRevision' = revision
          /\ records' = InRows(records)
          /\ pages' = InRows(pages)
          /\ navActive' = shown /\ pubActive' = shown
  /\ phase' = "webkit" /\ task' = [Idle EXCEPT !.at = "draining"]
  /\ UNCHANGED <<registryVars, page, commands, hostVars, events, stopped, went>>

\* The loop's other turns.
LoopTurns ==
  /\ task = Idle
  /\ \/ phase = "registry" /\ queue = <<>> /\ phase' = "cycle"
     \/ phase = "webkit" /\ phase' = "registry"
  /\ UNCHANGED <<registryVars, task, page, recordVars, publishedVars, commands, hostVars, events, stopped, went>>

-----------------------------------------------------------------------------
(* The registry, as far as the model sees it.                              *)

Take(op) ==
  /\ phase = "registry" /\ task = Idle /\ queue # <<>> /\ Head(queue).op = op
  /\ queue' = Tail(queue)

Published(list, active) == strip' = list /\ shown' = active /\ revision' = revision + 1

\* The page is made, and the strip published when it has a row; a page may also
\* open one in WebKit's turn.
PageCreated ==
  /\ \/ /\ Take("Open")
        /\ task' = [at |-> "opening", id |-> Head(queue).id]
        /\ UNCHANGED <<unused, events>>
     \/ /\ phase = "webkit" /\ task = Idle /\ strip # <<>> /\ unused <= MaxTabs
        /\ events < MaxEvents /\ events' = events + 1
        /\ task' = [at |-> "opening", id |-> unused] /\ unused' = unused + 1
        /\ UNCHANGED queue
  /\ AttachRecord(task'.id)
  /\ UNCHANGED <<strip, shown, revision, phase, page, commands, owes, asks, stopped, went>>

Opened ==
  /\ task.at = "opening"
  /\ Published(Append(strip, task.id), task.id)
  /\ task' = Idle
  /\ UNCHANGED <<queue, phase, page, recordVars, publishedVars, commands, hostVars, events, stopped, went>>

PageDestroying ==
  /\ Take("Close")
  /\ LET id == Head(queue).id IN
     IF id \in Range(strip)
     THEN task' = [at |-> "closing", id |-> id] /\ DetachRecord(id)
     ELSE UNCHANGED <<task, recordVars, publishedVars>>
  /\ UNCHANGED <<strip, shown, revision, phase, page, commands, hostVars, events, stopped, went>>

Closed ==
  /\ task.at = "closing"
  /\ LET at == IndexOfTab(strip, task.id)
         rest == EraseTab(strip, at)
     IN  Published(rest, IF shown # task.id THEN shown ELSE IF rest = <<>> THEN 0 ELSE Neighbour(rest, at))
  /\ task' = Idle
  /\ page' = [page EXCEPT ![task.id] = NewPage] /\ stopped' = stopped \ {task.id}
  /\ UNCHANGED <<queue, phase, recordVars, publishedVars, commands, hostVars, events, went>>

\* Selecting a tab, and moving one.
Rearranges ==
  /\ \/ Take("Select") /\ Published(strip, IF Head(queue).id \in Range(strip) THEN Head(queue).id ELSE shown)
     \/ Take("Move")
        /\ Published(IF Head(queue).id \in Range(strip) THEN Moved(strip, {}, Head(queue).id, 0) ELSE strip, shown)
  /\ UNCHANGED <<phase, task, page, recordVars, publishedVars, commands, hostVars, events, stopped, went>>

\* The drain that a post asked for.
RunInvoke ==
  /\ Take("Drain")
  /\ task' = [Idle EXCEPT !.at = "draining"]
  /\ UNCHANGED <<strip, shown, revision, phase, page, recordVars, publishedVars, commands, hostVars, events, stopped, went>>

\* The pages go, and then engineTeardown.
EngineTeardown ==
  /\ Take("Shutdown")
  /\ phase' = "down"
  /\ Published(<<>>, 0)
  /\ page' = [t \in Ids |-> NewPage]
  /\ records' = << >> /\ navActive' = 0 /\ navRevision' = -1
  /\ pages' = << >> /\ pubActive' = 0
  /\ commands' = <<>> /\ stopped' = {}
  /\ UNCHANGED <<task, hostVars, events, went>>

-----------------------------------------------------------------------------
(* Commands.                                                               *)

\* The tab a command is for: 0 is the one the model has for the active one.
Wanted(c) == IF c.tab > 0 THEN c.tab ELSE navActive

\* goToHistoryEntry: the offset counts from the current entry.  What is left out
\* of its guards, the current entry itself, is no navigation.
Entry(p, index) ==
  LET offset == index - (p.at - 1)
  IN  IF index >= 0 /\ index <= Len(p.list) - 1 /\ offset # 0 THEN p.list[p.at + offset] ELSE 0

\* What the entry a command goes to was meant to be, when neither the strip nor
\* the list has moved since the host read it.
Goes(c, id, entry) ==
  went' = IF c.op # "GoTo" \/ entry = 0 THEN Nowhere
          ELSE [unmoved |-> c.revision = navRevision /\ (id = c.seen => c.version = page[id].version),
                meant |-> <<c.seen, c.entry>>, reached |-> <<id, entry>>]

RunCommand ==
  /\ task.at = "draining" /\ commands # <<>> /\ phase # "down"
  /\ commands' = Tail(commands)
  /\ LET c == Head(commands)
         id == Wanted(c)
         record == IF c.op = "Stop" THEN [Record(id) EXCEPT !.loading = FALSE] ELSE Record(id)
     IN  IF id \notin DOMAIN records
         THEN went' = Nowhere /\ UNCHANGED <<page, recordVars, publishedVars, stopped>>
         ELSE /\ Reports(id, page[id], record)
              /\ stopped' = IF c.op = "Stop" /\ page[id].load # "none" THEN stopped \cup {id} ELSE stopped
              /\ Goes(c, id, Entry(page[id], c.index))
  /\ UNCHANGED <<registryVars, phase, task, hostVars, events>>

Drained ==
  /\ task.at = "draining" /\ commands = <<>>
  /\ task' = Idle
  /\ UNCHANGED <<registryVars, phase, page, recordVars, publishedVars, commands, hostVars, events, stopped, went>>

-----------------------------------------------------------------------------
(* The host's thread.                                                      *)

Asks == asks < MaxAsks /\ ~owes /\ asks' = asks + 1

Posts(op, id) == Len(queue) < MaxQueue /\ queue' = Append(queue, [op |-> op, id |-> id])

\* What the host asks of the registry.
AskRegistry ==
  /\ Asks
  /\ \/ unused <= MaxTabs /\ Posts("Open", unused) /\ unused' = unused + 1
     \/ \E id \in Range(strip), op \in {"Close", "Select", "Move"} : Posts(op, id) /\ UNCHANGED unused
     \/ Posts("Shutdown", 0) /\ UNCHANGED unused
  /\ phase # "down"
  /\ UNCHANGED <<strip, shown, revision, phase, task, page, recordVars, publishedVars, commands, owes, events, stopped, went>>

\* The first half of post: a command for a tab, or for the one in front, by what
\* its snapshot said; the row of a history menu that was pressed.
PushCommand ==
  /\ Asks /\ Len(commands) < MaxQueue
  /\ \E seen \in DOMAIN pages, op \in {"Load", "Stop", "GoTo"}, named \in BOOLEAN :
       /\ named \/ seen = pubActive
       /\ op = "Stop" => pages[seen].loading
       /\ \E index \in 0..(IF op = "GoTo" THEN Len(pages[seen].history) - 1 ELSE 0) :
            commands' = Append(commands,
              [op |-> op, tab |-> IF named THEN seen ELSE 0, index |-> index, seen |-> seen,
               entry |-> IF op = "GoTo" THEN pages[seen].history[index + 1] ELSE 0,
               version |-> pages[seen].version, revision |-> navRevision])
  /\ owes' = TRUE
  /\ UNCHANGED <<registryVars, phase, task, page, recordVars, publishedVars, unused, events, stopped, went>>

\* The second half: hb_tabs_invoke_on_webkit_thread, which a stopped registry refuses.
AskDrain ==
  /\ owes /\ owes' = FALSE
  /\ queue' = IF phase = "down" THEN queue ELSE Append(queue, [op |-> "Drain", id |-> 0])
  /\ UNCHANGED <<strip, shown, revision, phase, task, page, recordVars, publishedVars, commands, unused, asks,
                 events, stopped, went>>

HostStep == AskRegistry \/ PushCommand \/ AskDrain

-----------------------------------------------------------------------------
Init ==
  /\ queue = <<[op |-> "Open", id |-> 1]>> /\ strip = <<>> /\ shown = 0 /\ revision = 0
  /\ phase = "registry" /\ task = Idle /\ page = [t \in Ids |-> NewPage]
  /\ records = << >> /\ navActive = 0 /\ navRevision = -1
  /\ pages = << >> /\ pubActive = 0
  /\ commands = <<>> /\ owes = FALSE /\ unused = 2 /\ events = 0 /\ asks = 0
  /\ stopped = {} /\ went = Nowhere

EngineStep ==
  \/ PageReports \/ EngineCycle \/ LoopTurns
  \/ PageCreated \/ Opened \/ PageDestroying \/ Closed \/ Rearranges \/ RunInvoke \/ EngineTeardown
  \/ RunCommand \/ Drained

Next == HostStep \/ EngineStep

Spec == Init /\ [][Next]_vars

-----------------------------------------------------------------------------
(* Properties.                                                             *)

TypeOK ==
  /\ queue \in Seq([op : {"Open", "Close", "Select", "Move", "Drain", "Shutdown"}, id : 0..MaxTabs])
  /\ strip \in Seq(Ids) /\ shown \in 0..MaxTabs /\ revision \in Nat
  /\ phase \in {"registry", "cycle", "webkit", "down"}
  /\ task \in [at : {"none", "opening", "closing", "draining"}, id : 0..MaxTabs]
  /\ DOMAIN records \subseteq Ids
  /\ navActive \in 0..MaxTabs /\ pubActive \in 0..MaxTabs /\ navRevision \in Nat \cup {-1}
  /\ owes \in BOOLEAN /\ unused \in 1..(MaxTabs + 1) /\ stopped \subseteq Ids

\* The tabs whose pages are alive.
Alive == (Range(strip) \ (IF task.at = "closing" THEN {task.id} ELSE {}))
         \cup (IF task.at = "opening" THEN {task.id} ELSE {})

\* What is published is what the WebKit thread knows: no report is left behind in
\* a record, and nothing is published of a tab whose page is gone
\* (navigation_state.cpp:477-480, navigation_publish.cpp:107-118).
PublishedIsKnown ==
  /\ DOMAIN records = Alive
  /\ pages = [t \in DOMAIN records |-> Snapshot(records[t], page[t])]
  /\ pubActive = navActive

\* While the registry's revision is the one the model has read, the rows and the
\* tab in front are the registry's (navigation_state.cpp:49-50, 532-545).
FollowsTheStrip ==
  navRevision = revision /\ task.at # "closing" =>
    /\ \A t \in DOMAIN records : records[t].row = IndexOfTab(strip, t)
    /\ navActive = shown

\* A tab is shown loading from the start of a load until it ends or is told to
\* stop, however it ends (navigation_state.h: "Non-zero between the start of a
\* provisional load and the navigation finishing or failing").
LoadShown ==
  \A t \in DOMAIN pages :
    /\ pages[t].loading => page[t].load # "none"
    /\ page[t].load # "none" /\ t \notin stopped => pages[t].loading

\* The two halves of the model, the registry it follows, and the pages agree.
NavigationConsistent == TypeOK /\ PublishedIsKnown /\ FollowsTheStrip /\ LoadShown

\* A command goes to the entry the person was shown at that place in the list, in
\* the tab it was shown for, unless the list or the strip has moved in between
\* (navigation_state.cpp:121-124, navigation_state.h: "Goes to an entry of
\* hb_nav_history_* by its index in that list").
GoesWhereShown == went.unmoved => went.reached = went.meant
=============================================================================
