---------------------------- MODULE TabRegistry ----------------------------
(***************************************************************************)
(* The tab registry of the browser (browser/NativeLibs/harmony_tabs_*.cpp). *)
(*                                                                         *)
(* Two threads.  The frame thread draws the chrome: it reserves tab ids,    *)
(* posts commands and reads the published copy of the list.  The WebKit     *)
(* thread owns the list: it drains the commands, then runs WebKit's own     *)
(* cycle, in which pages call back.  Destroying a page runs the observers   *)
(* and WebKit's teardown, and a page may open another from inside either,   *)
(* so a close is two steps here, with that call in between.                 *)
(*                                                                         *)
(* What a switch does on screen (bounds, stand-in frames, repaints) is      *)
(* TabView; posting, refusal and cancellation under shutdown CommandQueue.  *)
(***************************************************************************)
EXTENDS TabList

CONSTANTS
  MaxTabs,      \* bound: ids are reserved from 1 up to this
  MaxQueue,     \* bound: commands waiting at once
  ClosedCap,    \* kClosedTabHistory
  Indices,      \* the positions the host passes to open_at and move
  Asks,         \* the kinds of command the host posts
  OpensInside   \* whether a page opens another while one is destroyed

ASSUME RegistryAssumption ==
  /\ MaxTabs \in Nat \ {0}
  /\ MaxQueue \in Nat
  /\ ClosedCap \in Nat \ {0}
  /\ Indices \subseteq Int
  /\ OpensInside \in BOOLEAN

Ids == 1..MaxTabs

VARIABLES
  engine,       \* "new", "on", "stopping" or "off": g_thread and g_stopping
  firstQueued,  \* g_firstTabQueued
  nextId,       \* g_nextTabId
  queue,        \* g_commands
  stage,        \* where the WebKit thread is: "drain", "cycle", or "exit" past its loop
  work,         \* the close under way, or NoWork
  doomed,       \* tabs closeOtherTabs has yet to close
  tabs,         \* g_tabs, as ids
  pinned,       \* the tabs whose pinned flag is set
  addressed,    \* the tabs whose url is not empty
  awake,        \* the tabs not suspended
  active,       \* g_activeTabId
  closed,       \* g_closedTabs
  observed,     \* pages the observers have been told of and not yet seen go
  published     \* the copy under g_publishedMutex

threadVars == <<engine, firstQueued, nextId, queue>>
listVars == <<tabs, pinned, addressed, awake, active, closed, observed>>
vars == <<threadVars, stage, work, doomed, listVars, published>>

Commands ==
  [kind : {"Open", "Close", "CloseOthers", "CloseAll", "ReopenClosed", "Select",
           "SelectIndex", "SelectNext", "SelectPrevious", "Move", "SetPinned",
           "Shutdown"},
   id : 0..MaxTabs, index : Int, flag : BOOLEAN]

Command(kind, id, index, flag) ==
  [kind |-> kind, id |-> id, index |-> index, flag |-> flag]

\* op "close" erases the tab at `at'.  closeAllTabs is "record", the tab at `at'
\* the next to be remembered, then "destroy".  id is the page being destroyed, 0
\* between two.
NoWork == [op |-> "none", id |-> 0, at |-> 0, wasActive |-> FALSE]

Works == [op : {"none", "close", "record", "destroy"}, id : 0..MaxTabs, at : Nat,
          wasActive : BOOLEAN]

ClosedTabs == [index : Nat, pinned : BOOLEAN]

-----------------------------------------------------------------------------
(* What the list operations have in common.                                *)

Publish ==
  published' = [tabs |-> tabs', pinned |-> pinned', active |-> active',
                closed |-> Len(closed')]

\* selectTab(id) with `prev' selected: the target is woken first, and the tab
\* being left, if there is one, suspended.
SelectedFrom(prev, id) ==
  /\ active' = id
  /\ awake' = IF prev = id THEN awake \cup {id} ELSE (awake \cup {id}) \ {prev}

\* selectTab returns before publishing when the tab is already selected.
SelectTab(id) ==
  /\ SelectedFrom(active, id)
  /\ UNCHANGED <<tabs, pinned, addressed, closed, observed>>
  /\ IF id = active THEN UNCHANGED published ELSE Publish

\* createTab, which refuses an id already in use; a new tab is suspended until
\* it is selected.
CreateTab(id, index, isPinned, foreground, hasAddress) ==
  /\ IndexOfTab(tabs, id) < 0
  /\ tabs' = Placed(tabs, pinned, index, id, isPinned)
  /\ pinned' = IF isPinned THEN pinned \cup {id} ELSE pinned \ {id}
  /\ addressed' = IF hasAddress THEN addressed \cup {id} ELSE addressed
  /\ observed' = observed \cup {id}
  /\ IF foreground \/ active = 0
     THEN SelectedFrom(active, id)
     ELSE UNCHANGED <<active, awake>>

Forgotten(id) ==
  /\ pinned' = pinned \ {id}
  /\ addressed' = addressed \ {id}

\* Mutant: the pinned flag is not recorded.
RememberUnpinned(id, at) ==
  closed' = IF id \in addressed
            THEN Remembered(closed, [index |-> at, pinned |-> FALSE], ClosedCap)
            ELSE closed

\* rememberClosedTab skips a tab that never had an address.
Remember(id, at) ==
  closed' = IF id \in addressed
            THEN Remembered(closed, [index |-> at, pinned |-> id \in pinned], ClosedCap)
            ELSE closed

-----------------------------------------------------------------------------
(* The frame thread.                                                       *)

\* postCommand, which refuses everything once teardown has begun.
Post(command) ==
  queue' = IF engine \in {"new", "on"} THEN Append(queue, command) ELSE queue

CanPost == engine # "stopping" /\ Len(queue) < MaxQueue

Reserve == nextId <= MaxTabs /\ nextId' = nextId + 1

Known == 1..(nextId - 1)

\* hb_tabs_start, called every frame: starts the thread if there is none, and
\* asks for the first tab once.
HbStart ==
  /\ CanPost
  /\ engine \in {"new", "off"} \/ ~firstQueued
  /\ engine' = "on"
  /\ firstQueued' = TRUE
  /\ stage' = IF engine = "on" THEN stage ELSE "drain"
  /\ IF firstQueued
     THEN UNCHANGED <<nextId, queue>>
     ELSE /\ Reserve
          /\ queue' = Append(queue, Command("Open", nextId, -1, TRUE))
  /\ UNCHANGED <<work, doomed, listVars, published>>

\* hb_tabs_shutdown: the Shutdown command goes in last and the caller waits.
HbShutdown ==
  /\ engine = "on"
  /\ engine' = "stopping"
  /\ firstQueued' = FALSE
  /\ queue' = Append(queue, Command("Shutdown", 0, 0, FALSE))
  /\ UNCHANGED <<nextId, stage, work, doomed, listVars, published>>

\* The calls that post one command.  The id an open or a reopen returns is
\* reserved here, before the WebKit thread has created anything; a reopen looks
\* at the published depth of the stack of closed tabs.
HbOpen(index, foreground) ==
  /\ "Open" \in Asks /\ CanPost
  /\ Reserve
  /\ Post(Command("Open", nextId, index, foreground))
  /\ UNCHANGED <<engine, firstQueued, stage, work, doomed, listVars, published>>

HbReopenClosed ==
  /\ "ReopenClosed" \in Asks /\ CanPost
  /\ published.closed > 0
  /\ Reserve
  /\ Post(Command("ReopenClosed", nextId, 0, FALSE))
  /\ UNCHANGED <<engine, firstQueued, stage, work, doomed, listVars, published>>

\* Calls about a tab the host knows the id of.
HbTab(kind, id, index, flag) ==
  /\ kind \in Asks /\ CanPost
  /\ Post(Command(kind, id, index, flag))
  /\ UNCHANGED <<engine, firstQueued, nextId, stage, work, doomed, listVars, published>>

Frame ==
  \/ HbStart \/ HbShutdown \/ HbReopenClosed
  \/ \E index \in Indices \cup {-1}, foreground \in BOOLEAN : HbOpen(index, foreground)
  \/ \E kind \in {"Close", "CloseOthers", "Select"}, id \in Known : HbTab(kind, id, 0, FALSE)
  \/ \E kind \in {"CloseAll", "SelectNext", "SelectPrevious"} : HbTab(kind, 0, 0, FALSE)
  \/ \E index \in Indices : index >= 0 /\ HbTab("SelectIndex", 0, index, FALSE)
  \/ \E id \in Known, index \in Indices : HbTab("Move", id, index, FALSE)
  \/ \E id \in Known, flag \in BOOLEAN : HbTab("SetPinned", id, -1, flag)
-----------------------------------------------------------------------------
(* The WebKit thread: drainCommands and the command handlers.              *)

Running == engine \in {"on", "stopping"}

\* Between two commands.
AtRest == work = NoWork /\ doomed = <<>>

TakeNext(kind) ==
  /\ Running /\ stage = "drain" /\ AtRest
  /\ queue # <<>> /\ Head(queue).kind = kind
  /\ queue' = Tail(queue)
  /\ UNCHANGED <<engine, firstQueued, nextId>>

Take(kind) == TakeNext(kind) /\ UNCHANGED stage

NoEffect == UNCHANGED <<work, doomed, listVars, published>>

\* openTab: nothing happens when the view cannot be created.  loadInTabDirect
\* has given the tab its address by the time it returns.
RunOpen ==
  /\ Take("Open")
  /\ \/ NoEffect
     \/ /\ CreateTab(Head(queue).id, Head(queue).index, FALSE, Head(queue).flag, TRUE)
        /\ UNCHANGED <<closed, work, doomed>>
        /\ Publish

\* reopenClosedTab: the entry is off the stack before the tab is created, and
\* stays off it when the tab cannot be.
RunReopenClosed ==
  /\ Take("ReopenClosed")
  /\ UNCHANGED <<work, doomed>>
  /\ IF closed = <<>>
     THEN UNCHANGED <<listVars, published>>
     ELSE LET entry == Last(closed)
          IN  /\ closed' = Front(closed)
              /\ \/ UNCHANGED <<tabs, pinned, addressed, awake, active, observed, published>>
                 \/ /\ CreateTab(Head(queue).id, entry.index, entry.pinned, TRUE, TRUE)
                    /\ Publish

\* closeTab up to the destruction of the page: whether the tab was the selected
\* one is read here, and the observers have been told.
BeginClose(id) ==
  LET at == IndexOfTab(tabs, id)
  IN  IF at < 0
      THEN UNCHANGED <<work, listVars, published>>
      ELSE /\ work' = [op |-> "close", id |-> id, at |-> at, wasActive |-> active = id]
           /\ Remember(id, at)
           /\ observed' = observed \ {id}
           /\ UNCHANGED <<tabs, pinned, addressed, awake, active, published>>

RunClose ==
  /\ Take("Close")
  /\ BeginClose(Head(queue).id)
  /\ UNCHANGED doomed

\* Mutant: the list is published before the selection has moved.
FinishCloseEarly ==
  /\ Running /\ work.op = "close"
  /\ tabs' = EraseTab(tabs, work.at)
  /\ Forgotten(work.id)
  /\ published' = [tabs |-> tabs', pinned |-> pinned', active |-> active, closed |-> Len(closed)]
  /\ IF work.wasActive
     THEN IF tabs' = <<>>
          THEN active' = 0 /\ awake' = awake \ {work.id}
          ELSE SelectedFrom(work.id, Neighbour(tabs', work.at))
     ELSE active' = active /\ awake' = awake \ {work.id}
  /\ UNCHANGED <<threadVars, stage, doomed, closed, observed>>
  /\ work' = NoWork

\* closeTab from there: the tab is erased at the position it had, and the
\* selection moves if it was the selected one when the close began.
FinishClose ==
  /\ Running /\ work.op = "close"
  /\ tabs' = EraseTab(tabs, work.at)
  /\ Forgotten(work.id)
  /\ IF work.wasActive
     THEN IF tabs' = <<>>
          THEN active' = 0 /\ awake' = awake \ {work.id}
          ELSE SelectedFrom(work.id, Neighbour(tabs', work.at))
     ELSE active' = active /\ awake' = awake \ {work.id}
  /\ UNCHANGED <<threadVars, stage, doomed, closed, observed>>
  /\ work' = NoWork
  /\ Publish

\* closeOtherTabs shows the survivor, then closes the tabs that were there.
RunCloseOthers ==
  /\ Take("CloseOthers")
  /\ LET id == Head(queue).id
     IN  IF IndexOfTab(tabs, id) < 0
         THEN NoEffect
         ELSE /\ SelectTab(id)
              /\ doomed' = EraseTab(tabs, IndexOfTab(tabs, id))
              /\ UNCHANGED work

CloseDoomed ==
  /\ Running /\ work = NoWork /\ doomed # <<>>
  /\ BeginClose(Head(doomed))
  /\ doomed' = Tail(doomed)
  /\ UNCHANGED <<threadVars, stage>>

\* closeAllTabs, for a command or on the thread's way out of its loop: nothing is
\* selected while it runs.
BeginCloseAll ==
  IF tabs = <<>>
  THEN NoEffect
  ELSE /\ active' = 0
       /\ work' = [NoWork EXCEPT !.op = "record"]
       /\ UNCHANGED <<tabs, pinned, addressed, awake, closed, observed, doomed, published>>

RunCloseAll == Take("CloseAll") /\ BeginCloseAll

RunShutdown ==
  /\ TakeNext("Shutdown")
  /\ stage' = "exit"
  /\ BeginCloseAll

\* Every tab is recorded, left to right, before any is destroyed.
RecordNext ==
  /\ Running /\ work.op = "record" /\ work.at < Len(tabs)
  /\ Remember(tabs[work.at + 1], work.at)
  /\ work' = IF work.at + 1 = Len(tabs)
             THEN [NoWork EXCEPT !.op = "destroy"]
             ELSE [work EXCEPT !.at = @ + 1]
  /\ UNCHANGED <<threadVars, stage, doomed, tabs, pinned, addressed, awake, active,
                 observed, published>>

\* One turn of the loop: the last tab is taken out before it is destroyed.
DestroyLast ==
  /\ Running /\ work.op = "destroy" /\ work.id = 0 /\ tabs # <<>>
  /\ work' = [work EXCEPT !.id = Last(tabs)]
  /\ tabs' = EraseTab(tabs, Len(tabs) - 1)
  /\ observed' = observed \ {Last(tabs)}
  /\ UNCHANGED <<threadVars, stage, doomed, pinned, addressed, awake, active, closed, published>>

EndDestroy ==
  /\ Running /\ work.op = "destroy" /\ work.id # 0
  /\ Forgotten(work.id)
  /\ awake' = awake \ {work.id}
  /\ work' = [work EXCEPT !.id = 0]
  /\ UNCHANGED <<threadVars, stage, doomed, tabs, active, closed, observed, published>>

\* A tab opened from inside may have selected itself, so the selection is
\* cleared again.
FinishCloseAll ==
  /\ Running /\ work.op = "destroy" /\ work.id = 0 /\ tabs = <<>>
  /\ active' = 0
  /\ UNCHANGED <<threadVars, stage, doomed, tabs, pinned, addressed, awake, closed, observed>>
  /\ work' = NoWork
  /\ Publish

\* The thread returns, and stopWebKitThread drops what is left of the queue.
ThreadEnds ==
  /\ Running /\ stage = "exit" /\ AtRest
  /\ engine' = "off"
  /\ queue' = <<>>
  /\ UNCHANGED <<firstQueued, nextId, stage, work, doomed, listVars, published>>

Target(command) ==
  CASE command.kind = "Select" -> command.id
    [] command.kind = "SelectIndex" ->
         IF command.index < Len(tabs) THEN tabs[command.index + 1] ELSE 0
    [] command.kind = "SelectNext" ->
         IF tabs = <<>> THEN 0 ELSE Adjacent(tabs, active, 1)
    [] OTHER ->
         IF tabs = <<>> THEN 0 ELSE Adjacent(tabs, active, -1)

RunSelect ==
  /\ \E kind \in {"Select", "SelectIndex", "SelectNext", "SelectPrevious"} : Take(kind)
  /\ UNCHANGED <<work, doomed>>
  /\ IF IndexOfTab(tabs, Target(Head(queue))) < 0
     THEN UNCHANGED <<listVars, published>>
     ELSE SelectTab(Target(Head(queue)))

RunMove ==
  /\ Take("Move")
  /\ LET id == Head(queue).id
     IN  IF IndexOfTab(tabs, id) < 0
         THEN NoEffect
         ELSE /\ tabs' = Moved(tabs, pinned, id, Head(queue).index)
              /\ UNCHANGED <<pinned, addressed, awake, active, closed, observed, work, doomed>>
              /\ Publish

RunSetPinned ==
  /\ Take("SetPinned")
  /\ LET id == Head(queue).id
         flag == Head(queue).flag
     IN  IF IndexOfTab(tabs, id) < 0 \/ (id \in pinned) = flag
         THEN NoEffect
         ELSE /\ tabs' = Repinned(tabs, pinned, id)
              /\ pinned' = IF flag THEN pinned \cup {id} ELSE pinned \ {id}
              /\ UNCHANGED <<addressed, awake, active, closed, observed, work, doomed>>
              /\ Publish

EndDrain ==
  /\ Running /\ stage = "drain" /\ AtRest /\ queue = <<>>
  /\ stage' = "cycle"
  /\ UNCHANGED <<threadVars, work, doomed, listVars, published>>

-----------------------------------------------------------------------------
(* WebKit's own cycle: the pages call back.                                *)

InCycle == Running /\ stage = "cycle"

\* createNewPageForTab: window.open, from WebKit's cycle or from inside the
\* destruction of a page.  The new tab has no address yet.
PageOpens ==
  /\ \/ InCycle /\ tabs # <<>>
     \/ OpensInside /\ Running /\ work.id # 0
  /\ Reserve
  /\ CreateTab(nextId, -1, FALSE, TRUE, FALSE)
  /\ UNCHANGED <<engine, firstQueued, queue, stage, work, doomed, closed>>
  /\ Publish

\* window.close() is queued: WebKit is inside the page's own callback.
PageAsksClose(id) ==
  /\ InCycle /\ Len(queue) < MaxQueue
  /\ id \in Range(tabs)
  /\ Post(Command("Close", id, 0, FALSE))
  /\ UNCHANGED <<engine, firstQueued, nextId, stage, work, doomed, listVars, published>>

\* tabStateDidChange: the record is read back off the page and published.
PageCommits(id) ==
  /\ InCycle
  /\ id \in Range(tabs)
  /\ addressed' = addressed \cup {id}
  /\ UNCHANGED <<threadVars, stage, work, doomed, tabs, pinned, awake, active, closed, observed>>
  /\ Publish

EndCycle ==
  /\ InCycle
  /\ stage' = "drain"
  /\ UNCHANGED <<threadVars, work, doomed, listVars, published>>

-----------------------------------------------------------------------------

Init ==
  /\ engine = "new" /\ firstQueued = FALSE /\ nextId = 1 /\ queue = <<>>
  /\ stage = "drain" /\ work = NoWork /\ doomed = <<>>
  /\ tabs = <<>> /\ pinned = {} /\ addressed = {} /\ awake = {} /\ active = 0
  /\ closed = <<>> /\ observed = {}
  /\ published = [tabs |-> <<>>, pinned |-> {}, active |-> 0, closed |-> 0]

RunCommand ==
  \/ RunOpen \/ RunReopenClosed \/ RunClose \/ RunCloseOthers \/ RunCloseAll
  \/ RunShutdown \/ RunSelect \/ RunMove \/ RunSetPinned

WebKitStep ==
  \/ RunCommand \/ FinishClose \/ CloseDoomed
  \/ RecordNext \/ DestroyLast \/ EndDestroy \/ FinishCloseAll \/ ThreadEnds
  \/ EndDrain \/ EndCycle

Page == PageOpens \/ \E id \in Ids : PageAsksClose(id) \/ PageCommits(id)

Next == Frame \/ WebKitStep \/ Page

\* The thread is scheduled and its handlers return.  Nothing is assumed of the
\* host or of the pages.
Spec == Init /\ [][Next]_vars /\ WF_vars(WebKitStep)

-----------------------------------------------------------------------------
(* Properties.                                                             *)

TypeOK ==
  /\ engine \in {"new", "on", "stopping", "off"}
  /\ firstQueued \in BOOLEAN
  /\ nextId \in 1..(MaxTabs + 1)
  /\ queue \in Seq(Commands)
  /\ stage \in {"drain", "cycle", "exit"}
  /\ work \in Works
  /\ doomed \in Seq(Ids)
  /\ tabs \in Seq(Ids)
  /\ pinned \subseteq Ids /\ addressed \subseteq Ids /\ awake \subseteq Ids
  /\ observed \subseteq Ids
  /\ active \in 0..MaxTabs
  /\ closed \in Seq(ClosedTabs)
  /\ published \in [tabs : Seq(Ids), pinned : SUBSET Ids, active : 0..MaxTabs, closed : Nat]

\* Pinned tabs are a prefix of the list (model.cpp:9), through every insertion,
\* move, pin, close and reopen, and whatever a page does during a close.
PinnedPrefix ==
  \E k \in 0..Len(tabs) : \A i \in 1..Len(tabs) : tabs[i] \in pinned <=> i <= k

\* No tab is in the list twice, and none has an id that is still to be reserved.
UniqueIds ==
  /\ \A i, j \in 1..Len(tabs) : tabs[i] = tabs[j] => i = j
  /\ \A i \in 1..Len(tabs) : tabs[i] < nextId

\* The type of the state, with the pinned tabs in front and every id once.
TabsConsistent == TypeOK /\ PinnedPrefix /\ UniqueIds

\* Between two commands the host reads the list as it is, with a tab of it selected
\* unless it is empty.  The depth of the stack of closed tabs may only be out of date
\* upwards: a reopen whose tab could not be created has taken an entry off it and
\* published nothing.
PublishedIsCurrent ==
  work = NoWork =>
    /\ published.tabs = tabs /\ published.pinned = pinned /\ published.active = active
    /\ published.closed >= Len(closed)
    /\ IF tabs = <<>> THEN active = 0 ELSE active \in Range(tabs)

\* Whatever closes a tab, the page observers (permissions, dialogs, navigation,
\* downloads, profile) are told of every page that goes, and once; the thread leaves
\* no page behind it.
ObserversFollow ==
  /\ observed = Range(tabs) \ (IF work.op = "close" THEN {work.id} ELSE {})
  /\ engine \in {"new", "off"} => tabs = <<>> /\ awake = {}

\* Everybody outside the registry -- the host, and the observers of pages -- knows the
\* list as it is.
ListIsFollowed == PublishedIsCurrent /\ ObserversFollow

\* A move or a pin changes the order of nothing but the tab it names; everything
\* else keeps the order of the tabs that stay.
OrderKept ==
  [][\A a, b \in Range(tabs) \cap Range(tabs') :
       \/ (IndexOfTab(tabs, a) < IndexOfTab(tabs, b)) = (IndexOfTab(tabs', a) < IndexOfTab(tabs', b))
       \/ RunMove /\ Head(queue).id \in {a, b}
       \/ RunSetPinned /\ Head(queue).id \in {a, b}]_vars

\* Reopening the tab a close has just remembered puts it back where it was.
ReopenUndoesClose ==
  [][FinishClose /\ work.id \in addressed =>
       LET entry == Last(closed)
       IN  Placed(tabs', pinned', entry.index, work.id, entry.pinned) = tabs]_vars
=============================================================================
