------------------------------ MODULE Profile ------------------------------
(***************************************************************************)
(* The browsing profile: which tab browses in which data store, the list of *)
(* tabs written to disk while they change and as the process ends, and the  *)
(* list a new process comes back with                                       *)
(* (browser/NativeLibs/harmony_data_store_profile.cpp and _session.cpp,     *)
(* browser/app/DataStore).                                                  *)
(*                                                                         *)
(* The host and the WebKit thread meet in the tab registry's queue, in the  *)
(* published list, and in the queue of the worker that writes the file.     *)
(* TabRegistry is where the list of tabs is modelled in full: here it has   *)
(* no pinned tabs, and a reopened tab is opened like any other.             *)
(***************************************************************************)
EXTENDS TabList, Lists

CONSTANTS
  MaxTabs,   \* bound: tabs opened by one process
  MaxQueue,  \* bound: commands that wait
  MaxWork,   \* bound: sessions that wait for the worker when the pump encodes another
  MaxEvents, \* bound: what persons and pages do
  MaxRuns,   \* bound: processes, of which the last is not asked to quit
  CanFail    \* whether preparing the profile, making the private store, creating a
             \* view and writing the session may fail

ASSUME ProfileAssumption ==
  /\ {MaxTabs, MaxQueue, MaxWork, MaxEvents, MaxRuns} \subseteq Nat \ {0}
  /\ CanFail \in BOOLEAN

VARIABLES
  queue,      \* g_commands of the registry
  tabs,       \* the published list
  active,     \* the published selection
  url,        \* the published address of each tab, 0 while it has none
  loading,    \* tabs that have not committed a load
  closing,    \* the tab whose page is being destroyed, or 0
  prepared,   \* g_prepared
  loaded,     \* g_loaded
  nextPrivate,\* g_nextTabPrivate
  private,    \* g_privateTabs
  ephemeral,  \* g_ephemeral: 0, or which store of this process it is
  store,      \* the store of each page: None, Persistent, or an ephemeral one
  restore,    \* g_restore and g_restoreActive
  dirty,      \* the list has changed since the pump last wrote it (g_lastRevision, g_dirtySince)
  hand,       \* what the pump has encoded and not yet submitted
  work,       \* the sessions the worker has yet to write
  stopped,    \* g_workerStopping
  file,       \* the session file
  host,       \* where the host's thread is
  unused,     \* the id reserved next
  stage,      \* "up", "stopping" once the profile is shut down, "down"
  runs, events,
  restored,   \* HarmonySession.restored
  \* What the properties remember: how each tab was asked for, the tabs for which no
  \* private store could be made, whether a mark was taken by another tab, what the
  \* host found to restore, whether anything but the restore has touched the tabs,
  \* and what a quit should leave on disk.
  asked, denied, stolen, left, quiet, last

registryVars == <<queue, tabs, active, url, loading, closing>>
storeVars == <<prepared, loaded, nextPrivate, private, ephemeral, store, restore>>
sessionVars == <<dirty, hand, work, stopped, file>>
hostVars == <<host, unused, stage, runs, events, restored>>
ghosts == <<asked, denied, stolen, left, quiet, last>>
vars == <<registryVars, storeVars, sessionVars, hostVars, ghosts>>

Ids == 1..MaxTabs
\* The profile's store.  A page made before the profile is ready gets WebKit's own
\* instead, which is told apart nowhere: it is not a private one either.
Persistent == 0
None == -1

Nothing == [entries |-> <<>>, active |-> -2, showing |-> 0]

Command(op, id, address, at) == [op |-> op, id |-> id, url |-> address, at |-> at]

-----------------------------------------------------------------------------
(* The session as it is written and read.                                  *)

\* What encodeSession makes of the tabs it kept; `private' and `showing' are not
\* in the file.
Encoded(kept, shown) ==
  [entries |-> [i \in 1..Len(kept) |->
                  [url |-> url[kept[i]], private |-> store[kept[i]] > Persistent]],
   active |-> IndexOfTab(kept, shown),
   showing |-> IF shown \in Range(kept) THEN url[shown] ELSE 0]

\* An encoding of which the properties say nothing about private tabs.
Unwatched(s) == [s EXCEPT !.entries = [i \in 1..Len(@) |-> [url |-> @[i].url, private |-> FALSE]]]

\* Mutant: a private tab is kept like any other.
KeptAll(list) == list

Kept(list) == Only(list, Ids \ private)

HasAddress(e) == e.url # 0

WithAddress(s) == Only(s.entries, {e \in Range(s.entries) : HasAddress(e)})

\* sessionLoad: entries without an address are dropped, and the position of the
\* one that was showing is only held against the number of those that are left.
Loaded(s) ==
  LET entries == WithAddress(s)
  IN  [entries |-> entries, active |-> IF s.active >= Len(entries) THEN -1 ELSE s.active]

Empty == [entries |-> <<>>, active |-> -1]

\* What the file holds for the next process, told from the file itself.
Left(s) ==
  [urls |-> [i \in 1..Len(WithAddress(s)) |-> WithAddress(s)[i].url],
   showing |-> s.showing,
   blank |-> \E e \in Range(s.entries) : ~HasAddress(e)]

-----------------------------------------------------------------------------
(* The profile, on the WebKit thread.                                      *)

Running == stage # "down" /\ hand = Nothing

\* hb_data_store_prepare: the session is read with the first success.
Prepares ==
  /\ prepared' = TRUE /\ loaded' = TRUE
  /\ restore' = IF loaded THEN restore ELSE Loaded(file)

\* The engine may not have finished loading when it is first asked.
MayFailToPrepare == CanFail /\ ~prepared /\ ~loaded

\* hb_data_store_apply_to_page_configuration for a page opened by `opener', or by
\* the host when it is 0.  The mark is used up by whichever page comes next, one that
\* would have been private without it included.  Where no ephemeral store can be made
\* the tab gets the profile's own.
Applies(id, opener) ==
  \/ /\ MayFailToPrepare
     /\ store' = [store EXCEPT ![id] = Persistent]
     /\ stolen' = (stolen \/ nextPrivate)
     /\ UNCHANGED <<prepared, loaded, restore, nextPrivate, private, ephemeral, denied>>
  \/ /\ Prepares
     /\ nextPrivate' = FALSE
     /\ LET inherited == opener # 0 /\ ephemeral # 0 /\ store[opener] = ephemeral
            session == IF ephemeral = 0 THEN id ELSE ephemeral
        IN  /\ IF inherited \/ nextPrivate
               THEN /\ private' = private \cup {id} /\ ephemeral' = session
                    /\ store' = [store EXCEPT ![id] = session]
               ELSE /\ store' = [store EXCEPT ![id] = Persistent]
                    /\ UNCHANGED <<private, ephemeral>>
            /\ stolen' = (stolen \/ (opener # 0 /\ nextPrivate))
     /\ UNCHANGED denied
  \/ /\ CanFail /\ Prepares /\ nextPrivate /\ ephemeral = 0
     /\ nextPrivate' = FALSE /\ denied' = denied \cup {id}
     /\ store' = [store EXCEPT ![id] = Persistent]
     /\ stolen' = (stolen \/ opener # 0)
     /\ UNCHANGED <<private, ephemeral>>

\* Mutant: the ephemeral store stays for the next private tab.
ForgetsOnly(ids) == private' = private \ ids /\ UNCHANGED ephemeral

\* forgetTab and releaseEphemeralStoreIfUnused.
Forgets(ids) ==
  /\ private' = private \ ids
  /\ ephemeral' = IF private \cap ids # {} /\ private \subseteq ids THEN 0 ELSE ephemeral

\* Nothing is expected of a last encoding the WebKit thread gets in the way of.
Disturbs == last' = IF host.at \in {"listing", "saved"} THEN Nothing ELSE last

-----------------------------------------------------------------------------
(* The registry, as far as the profile sees it.                            *)

Take(op) ==
  /\ Running /\ closing = 0 /\ queue # <<>> /\ Head(queue).op = op
  /\ queue' = Tail(queue)

\* createTab, and the load that gives the tab its address.
Created(id, at, address, front) ==
  /\ tabs' = Placed(tabs, {}, at, id, FALSE)
  /\ active' = IF front \/ active = 0 THEN id ELSE active
  /\ url' = [url EXCEPT ![id] = address]
  /\ loading' = loading \cup {id}
  /\ dirty' = TRUE /\ Disturbs

\* WKViewCreate fails, and the store is already chosen.
NotCreated == CanFail /\ UNCHANGED <<tabs, active, url, loading, dirty, last>>

\* A tab asked for by the host: in front, or at a position behind the others.
RunOpen(op) ==
  /\ Take(op)
  /\ LET c == Head(queue) IN
     /\ Applies(c.id, 0)
     /\ \/ Created(c.id, c.at, c.url, op = "Open") /\ UNCHANGED quiet
        \/ NotCreated /\ quiet' = FALSE
  /\ UNCHANGED <<closing, hand, work, stopped, file, hostVars, asked, left>>

\* target=_blank and window.open, which may also come while a page is destroyed.
PageOpens(opener) ==
  /\ Running /\ opener \in Range(tabs) \ {closing} /\ unused <= MaxTabs
  /\ events < MaxEvents /\ events' = events + 1
  /\ Applies(unused, opener)
  /\ Created(unused, -1, 0, TRUE) \/ NotCreated
  /\ asked' = [asked EXCEPT ![unused] = IF store[opener] > Persistent THEN "private" ELSE "ordinary"]
  /\ unused' = unused + 1
  /\ quiet' = FALSE
  /\ UNCHANGED <<queue, closing, hand, work, stopped, file, host, stage, runs, restored, left>>

\* A load commits, or the first one fails and leaves the tab without an address.
PageSettles(id) ==
  /\ Running /\ id \in loading \ {closing}
  /\ events < MaxEvents /\ events' = events + 1
  /\ loading' = loading \ {id}
  /\ \/ url' = [url EXCEPT ![id] = IF @ = 0 THEN id ELSE @] /\ UNCHANGED quiet
     \/ url' = [url EXCEPT ![id] = 0] /\ quiet' = FALSE
  /\ dirty' = TRUE /\ Disturbs
  /\ UNCHANGED <<queue, tabs, active, closing, storeVars, hand, work, stopped, file, host, unused, stage, runs, restored,
                 asked, denied, stolen, left>>

\* closeTab tells the profile first, and publishes last.
RunClose ==
  /\ Take("Close")
  /\ LET id == Head(queue).id IN
     IF id \in Range(tabs) THEN closing' = id /\ Forgets({id}) ELSE UNCHANGED <<closing, private, ephemeral>>
  /\ Disturbs
  /\ UNCHANGED <<tabs, active, url, loading, prepared, loaded, nextPrivate, store, restore, sessionVars,
                 hostVars, asked, denied, stolen, left, quiet>>

FinishClose ==
  /\ Running /\ closing # 0
  /\ LET at == IndexOfTab(tabs, closing)
         rest == EraseTab(tabs, at)
     IN  /\ tabs' = rest
         /\ active' = IF active # closing THEN active ELSE IF rest = <<>> THEN 0 ELSE Neighbour(rest, at)
  /\ closing' = 0
  /\ loading' = loading \ {closing}
  /\ dirty' = TRUE /\ Disturbs
  /\ UNCHANGED <<queue, url, storeVars, hand, work, stopped, file, hostVars, asked, denied, stolen, left, quiet>>

\* markNextTabPrivate.
RunMark ==
  /\ Take("Mark")
  /\ nextPrivate' = TRUE
  /\ UNCHANGED <<tabs, active, url, loading, closing, prepared, loaded, private, ephemeral, store, restore,
                 sessionVars, hostVars, ghosts>>

RunLoad ==
  /\ Take("Load")
  /\ LET c == Head(queue) IN
     IF c.id \in Range(tabs)
     THEN url' = [url EXCEPT ![c.id] = c.url] /\ loading' = loading \cup {c.id} /\ dirty' = TRUE
     ELSE UNCHANGED <<url, loading, dirty>>
  /\ Disturbs
  /\ UNCHANGED <<tabs, active, closing, storeVars, hand, work, stopped, file, hostVars,
                 asked, denied, stolen, left, quiet>>

RunSelectIndex ==
  /\ Take("SelectIndex")
  /\ LET at == Head(queue).at IN
     IF at < Len(tabs) THEN active' = tabs[at + 1] /\ dirty' = TRUE ELSE UNCHANGED <<active, dirty>>
  /\ Disturbs
  /\ UNCHANGED <<tabs, url, loading, closing, storeVars, hand, work, stopped, file, hostVars,
                 asked, denied, stolen, left, quiet>>

-----------------------------------------------------------------------------
(* The pump, once per cycle of the WebKit thread, and the worker.          *)

Pumping == Running /\ closing = 0

PumpPrepares ==
  /\ Pumping /\ ~prepared /\ Prepares
  /\ UNCHANGED <<registryVars, nextPrivate, private, ephemeral, store, sessionVars, hostVars, ghosts>>

\* The list has stood still for kSettleSeconds since it last changed.
PumpEncodes ==
  /\ Pumping /\ prepared /\ dirty /\ Len(work) < MaxWork
  /\ dirty' = FALSE
  /\ hand' = Encoded(Kept(tabs), active)
  /\ UNCHANGED <<registryVars, storeVars, work, stopped, file, hostVars, ghosts>>

\* submitWork.
Submitted(s) == work' = IF stopped THEN work ELSE Append(work, s)

PumpSubmits ==
  /\ hand # Nothing /\ stage # "down"
  /\ Submitted(hand) /\ hand' = Nothing
  /\ Disturbs
  /\ UNCHANGED <<registryVars, storeVars, dirty, stopped, file, hostVars, asked, denied, stolen, left, quiet>>

\* The session a quit has submitted is the last the worker has.
QuitsOwn == host.at \in {"saved", "joining"} /\ Len(work) = 1

\* One job at a time, each moved over the file that was there; a file that cannot be
\* created, written whole or moved leaves the one that was there, and nobody tries again.
WorkerWrites ==
  /\ stage # "down" /\ work # <<>>
  /\ work' = Tail(work)
  /\ \/ file' = Head(work) /\ UNCHANGED last
     \/ CanFail /\ UNCHANGED file /\ last' = IF QuitsOwn THEN Nothing ELSE last
  /\ UNCHANGED <<registryVars, storeVars, dirty, hand, stopped, hostVars, asked, denied, stolen, left, quiet>>

-----------------------------------------------------------------------------
(* The host's thread.                                                      *)

Idle == [at |-> "idle", i |-> 0, n |-> 0, ids |-> <<>>, active |-> 0]

HostIdle == stage = "up" /\ host = Idle

Posts(c) == Len(queue) < MaxQueue /\ queue' = Append(queue, c)

Reserves(kind) ==
  /\ unused <= MaxTabs /\ unused' = unused + 1
  /\ asked' = [asked EXCEPT ![unused] = kind]

\* hb_data_store_open_private_tab: the mark, and then the open.
MarkPrivate ==
  /\ HostIdle /\ events < MaxEvents /\ unused <= MaxTabs
  /\ Posts(Command("Mark", 0, 0, 0))
  /\ host' = [host EXCEPT !.at = "marked"]
  /\ events' = events + 1 /\ quiet' = FALSE
  /\ UNCHANGED <<tabs, active, url, loading, closing, storeVars, sessionVars, unused, stage, runs, restored,
                 asked, denied, stolen, left, last>>

OpenMarked ==
  /\ host.at = "marked" /\ stage = "up"
  /\ Posts(Command("Open", unused, unused, -1)) /\ Reserves("private")
  /\ host' = Idle
  /\ UNCHANGED <<tabs, active, url, loading, closing, storeVars, sessionVars, stage, runs, events, restored,
                 denied, stolen, left, quiet, last>>

\* hb_tabs_open and hb_tabs_reopen_closed, hb_tabs_close.
OpenTab ==
  /\ Posts(Command("Open", unused, unused, -1)) /\ Reserves("ordinary")
CloseTab ==
  /\ \E id \in Range(tabs) : Posts(Command("Close", id, 0, 0))
  /\ UNCHANGED <<unused, asked>>

Person ==
  /\ HostIdle /\ events < MaxEvents /\ (OpenTab \/ CloseTab)
  /\ events' = events + 1 /\ quiet' = FALSE
  /\ UNCHANGED <<tabs, active, url, loading, closing, storeVars, sessionVars, host, stage, runs, restored,
                 denied, stolen, left, last>>

\* harmonyDataStoreFrame: the restore begins as soon as the registry has a tab.
Entries == restore.entries

RestoreNothing ==
  /\ HostIdle /\ ~restored /\ tabs # <<>> /\ Entries = <<>>
  /\ restored' = TRUE /\ restore' = Empty
  /\ quiet' = (quiet /\ loaded)
  /\ UNCHANGED <<registryVars, prepared, loaded, nextPrivate, private, ephemeral, store, sessionVars,
                 host, unused, stage, runs, events, asked, denied, stolen, left, last>>

\* Mutant: the first entry opens beside the registry's own tab, like the others.
AdoptNone ==
  /\ HostIdle /\ ~restored /\ tabs # <<>> /\ Entries # <<>>
  /\ host' = [host EXCEPT !.at = "restoring"]
  /\ UNCHANGED <<registryVars, storeVars, sessionVars, unused, stage, runs, events, restored, ghosts>>

\* The registry's own tab takes the first entry.
AdoptFirst ==
  /\ HostIdle /\ ~restored /\ tabs # <<>> /\ Entries # <<>>
  /\ Posts(Command("Load", tabs[1], Entries[1].url, 0))
  /\ host' = [host EXCEPT !.at = "restoring", !.i = 1]
  /\ UNCHANGED <<tabs, active, url, loading, closing, storeVars, sessionVars, unused, stage, runs, events, restored, ghosts>>

\* The others open behind it, each at its own position.
RestoreNext ==
  /\ host.at = "restoring" /\ stage = "up" /\ host.i < Len(Entries)
  /\ Posts(Command("OpenAt", unused, Entries[host.i + 1].url, host.i)) /\ Reserves("ordinary")
  /\ host' = [host EXCEPT !.i = @ + 1]
  /\ UNCHANGED <<tabs, active, url, loading, closing, storeVars, sessionVars, stage, runs, events, restored,
                 denied, stolen, left, quiet, last>>

\* harmonySessionSelectActive, and the entries have been handed out.
RestoreSelects ==
  /\ host.at = "restoring" /\ stage = "up" /\ host.i = Len(Entries)
  /\ IF restore.active \in 0..(Len(Entries) - 1)
     THEN Posts(Command("SelectIndex", 0, 0, restore.active))
     ELSE UNCHANGED queue
  /\ host' = Idle /\ restored' = TRUE /\ restore' = Empty
  /\ UNCHANGED <<tabs, active, url, loading, closing, prepared, loaded, nextPrivate, private, ephemeral, store,
                 sessionVars, unused, stage, runs, events, asked, denied, stolen, left, quiet, last>>
\* hb_data_store_shutdown on the host's thread: what encodeSession reads there it
\* reads under one lock after another.
QuitBegins ==
  /\ HostIdle /\ runs < MaxRuns
  /\ IF prepared
     THEN /\ host' = [Idle EXCEPT !.at = "listing", !.n = Len(tabs), !.active = active]
          /\ last' = IF closing = 0 /\ hand = Nothing THEN Encoded(Kept(tabs), active) ELSE Nothing
          /\ UNCHANGED <<stage, queue>>
     ELSE /\ stage' = "stopping" /\ queue' = Append(queue, Command("Shutdown", 0, 0, 0))
          /\ UNCHANGED <<host, last>>
  /\ UNCHANGED <<tabs, active, url, loading, closing, storeVars, sessionVars, unused, runs, events, restored,
                 asked, denied, stolen, left, quiet>>

QuitLists ==
  /\ host.at = "listing" /\ stage = "up" /\ host.i < host.n
  /\ LET id == IF host.i < Len(tabs) THEN tabs[host.i + 1] ELSE 0
     IN  host' = [host EXCEPT !.i = @ + 1, !.ids = IF id = 0 \/ id \in private THEN @ ELSE Append(@, id)]
  /\ UNCHANGED <<registryVars, storeVars, sessionVars, unused, stage, runs, events, restored, ghosts>>

QuitWrites ==
  /\ host.at = "listing" /\ stage = "up" /\ host.i = host.n
  /\ Submitted(IF last = Nothing THEN Unwatched(Encoded(host.ids, host.active))
                                  ELSE Encoded(host.ids, host.active))
  /\ host' = [Idle EXCEPT !.at = "saved"]
  /\ UNCHANGED <<registryVars, storeVars, dirty, hand, stopped, file, unused, stage, runs, events, restored, ghosts>>

QuitStops ==
  /\ host.at = "saved" /\ stage = "up"
  /\ prepared' = FALSE /\ stopped' = TRUE
  /\ host' = [host EXCEPT !.at = "joining"]
  /\ UNCHANGED <<registryVars, loaded, nextPrivate, private, ephemeral, store, restore,
                 dirty, hand, work, file, unused, stage, runs, events, restored, ghosts>>

\* The worker is joined once it has written what it was given; then the registry stops.
QuitJoins ==
  /\ host.at = "joining" /\ stage = "up" /\ work = <<>>
  /\ stage' = "stopping" /\ host' = Idle
  /\ queue' = Append(queue, Command("Shutdown", 0, 0, 0))
  /\ UNCHANGED <<tabs, active, url, loading, closing, storeVars, sessionVars, unused, runs, events, restored, ghosts>>

HostStep ==
  \/ MarkPrivate \/ OpenMarked \/ Person
  \/ RestoreNothing \/ AdoptFirst \/ RestoreNext \/ RestoreSelects
  \/ QuitBegins \/ QuitLists \/ QuitWrites \/ QuitStops \/ QuitJoins

EngineStep ==
  \/ RunOpen("Open") \/ RunOpen("OpenAt") \/ RunClose \/ FinishClose
  \/ RunMark \/ RunLoad \/ RunSelectIndex
  \/ \E id \in Ids : PageOpens(id) \/ PageSettles(id)
  \/ PumpPrepares \/ PumpEncodes \/ PumpSubmits

-----------------------------------------------------------------------------
(* Processes.                                                              *)

\* hb_tabs_start queues a tab of its own.
FirstTab == Command("Open", 1, 1, -1)

Init ==
  /\ queue = <<FirstTab>> /\ tabs = <<>> /\ active = 0 /\ url = [id \in Ids |-> 0]
  /\ loading = {} /\ closing = 0
  /\ prepared = FALSE /\ loaded = FALSE /\ nextPrivate = FALSE
  /\ private = {} /\ ephemeral = 0 /\ store = [id \in Ids |-> None] /\ restore = Empty
  /\ dirty = TRUE /\ hand = Nothing /\ work = <<>> /\ stopped = FALSE /\ file = Nothing
  /\ host = Idle /\ unused = 2 /\ stage = "up" /\ runs = 1 /\ events = 0 /\ restored = FALSE
  /\ asked = [id \in Ids |-> IF id = 1 THEN "ordinary" ELSE "none"]
  /\ denied = {} /\ stolen = FALSE /\ left = Left(Nothing) /\ quiet = TRUE /\ last = Nothing

\* Nothing in memory outlives the process.
Ends ==
  /\ stage' = "down"
  /\ queue' = <<FirstTab>> /\ tabs' = <<>> /\ active' = 0 /\ url' = [id \in Ids |-> 0]
  /\ loading' = {} /\ closing' = 0
  /\ prepared' = FALSE /\ loaded' = FALSE /\ nextPrivate' = FALSE
  /\ private' = {} /\ ephemeral' = 0 /\ store' = [id \in Ids |-> None] /\ restore' = Empty
  /\ dirty' = TRUE /\ hand' = Nothing /\ work' = <<>> /\ stopped' = FALSE
  /\ host' = Idle /\ unused' = 2 /\ restored' = FALSE
  /\ asked' = [id \in Ids |-> IF id = 1 THEN "ordinary" ELSE "none"]
  /\ denied' = {} /\ stolen' = FALSE /\ left' = Left(file) /\ quiet' = TRUE
  /\ UNCHANGED <<file, runs, events>>

\* The process ends without a word; what the worker had not written is lost.
Killed ==
  /\ stage # "down" /\ Ends
  /\ last' = IF stage = "stopping" THEN last ELSE Nothing

\* Every tab goes, and the process with the last of them.
RunShutdown ==
  /\ Running /\ closing = 0 /\ queue # <<>> /\ Head(queue).op = "Shutdown"
  /\ Ends /\ UNCHANGED last

Restart ==
  /\ stage = "down" /\ runs < MaxRuns
  /\ stage' = "up" /\ runs' = runs + 1 /\ last' = Nothing
  /\ UNCHANGED <<registryVars, storeVars, sessionVars, host, unused, events, restored,
                 asked, denied, stolen, left, quiet>>

Next == HostStep \/ EngineStep \/ WorkerWrites \/ RunShutdown \/ Killed \/ Restart

Spec == Init /\ [][Next]_vars
-----------------------------------------------------------------------------
(* Properties.                                                             *)

Addresses == 0..MaxTabs
Sessions == [entries : Seq([url : Addresses, private : BOOLEAN]), active : -2..MaxTabs, showing : Addresses]

TypeOK ==
  /\ queue \in Seq([op : {"Open", "OpenAt", "Close", "Mark", "Load", "SelectIndex", "Shutdown"},
                    id : 0..MaxTabs, url : Addresses, at : -1..MaxTabs])
  /\ tabs \in Seq(Ids) /\ active \in 0..MaxTabs /\ url \in [Ids -> Addresses]
  /\ loading \subseteq Ids /\ closing \in 0..MaxTabs
  /\ {prepared, loaded, nextPrivate, dirty, stopped, restored} \subseteq BOOLEAN
  /\ private \subseteq Ids /\ ephemeral \in 0..MaxTabs /\ store \in [Ids -> -1..MaxTabs]
  /\ hand \in Sessions /\ work \in Seq(Sessions) /\ file \in Sessions
  /\ unused \in 1..(MaxTabs + 1) /\ stage \in {"up", "stopping", "down"}

Open == Range(tabs) \ {closing}

\* The tabs that are in an ephemeral store are the ones called private, and they
\* are all in the one there is (profile.cpp:8-11).
OneSession ==
  \A t \in Open : /\ store[t] > Persistent <=> t \in private
                  /\ t \in private => store[t] = ephemeral

\* The private session ends with the last tab that was in it (profile.cpp:9-11).
\* A view that could not be created leaves its id behind, and the store with it.
SessionEnds ==
  private \subseteq Range(tabs) /\ (\A t \in Open : store[t] <= Persistent) => ephemeral = 0

\* A tab asked for privately, or opened by a page that is, is private, and no other
\* is, unless another tab came between the mark and the open (profile.cpp:287-304,
\* 344-351).  Excepted is the tab that was to begin the private session when no
\* ephemeral store could be made: it browses in the profile (profile.cpp:307-313).
AskedIsGiven ==
  ~stolen => \A t \in Open : /\ t \in private => asked[t] = "private"
                            /\ asked[t] = "private" => t \in private \cup denied

\* The stores of the open tabs, the list of private tabs and what the tabs were
\* asked for agree: the three facts above, and the type of the state.
ProfileConsistent == TypeOK /\ OneSession /\ SessionEnds /\ AskedIsGiven

\* No private tab gets into the file, or on its way there (session.cpp:21:
\* "Private tabs are never written").  Excluded is the last encoding of a host that
\* a close on the WebKit thread gets in the way of.
PrivateNeverWritten ==
  \A s \in Range(work) \cup {hand, file} : \A e \in Range(s.entries) : ~e.private

\* A quit leaves the tabs that were open on disk, whatever the worker still had to
\* write and although the tabs close after it (session.cpp:13-19,
\* SessionRestore.kira:151-152: "Runs at the end of the process, BEFORE the tabs
\* registry is stopped"), unless it is this last write that fails.
QuitKeepsSession == stage \in {"stopping", "down"} /\ last # Nothing => file = last

\* The restore is over, and nothing else has touched the tabs.
Settled ==
  /\ stage = "up" /\ host = Idle /\ restored /\ queue = <<>> /\ closing = 0
  /\ quiet /\ left.urls # <<>>

\* The tabs that were written come back in their order and without another beside
\* them, and the one that was showing shows (SessionRestore.kira:11-13, 66-68, 86),
\* as long as every tab that was written had an address.
ComesBack ==
  Settled => /\ [i \in 1..Len(tabs) |-> url[tabs[i]]] = left.urls
             /\ left.showing # 0 /\ ~left.blank => url[active] = left.showing

\* From one run to the next: what was open is what is written, and what was written is
\* what comes back.
SessionSurvives == QuitKeepsSession /\ ComesBack

\* "The tab that was showing when the browser was last closed comes back showing"
\* (SessionRestore.kira:86).
ComesBackShowing == Settled /\ left.showing # 0 => url[active] = left.showing
=============================================================================
