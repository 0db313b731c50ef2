------------------------------ MODULE TabView ------------------------------
(***************************************************************************)
(* What a tab switch and a resize do on screen: the child window of every   *)
(* tab, the rectangle the selected one fills, and the stand-in frame shown  *)
(* until its page has rendered (browser/NativeLibs/harmony_tabs_view.cpp).  *)
(*                                                                         *)
(* The frame thread moves the selected tab's window without waiting for the *)
(* thread that owns it, and a selection is several steps of that thread, so *)
(* the two are steps of their own here.  The list itself is as plain as     *)
(* this needs (tabs open at its end); TabRegistry has the rest of it.       *)
(***************************************************************************)
EXTENDS TabList

CONSTANTS
  Tabs,         \* the ids tabs may get, each once
  Bounds,       \* the rectangles the host asks for
  Asks,         \* the kinds of command the host posts
  OpensInside,  \* whether a page opens another while one is destroyed
  MaxQueue,     \* bound: commands waiting at once
  MaxResizes    \* bound: how often the host changes the rectangle

ASSUME ViewAssumption ==
  /\ Tabs \subseteq Nat \ {0}
  /\ Bounds # {}
  /\ OpensInside \in BOOLEAN
  /\ Asks \subseteq {"Open", "OpenBehind", "Select", "Close", "CloseAll", "Reparent"}
  /\ MaxQueue \in Nat /\ MaxResizes \in Nat

VARIABLES
  bounds,     \* g_boundsX .. g_boundsHeight
  resizes,    \* changes of the rectangle so far, for the bound
  host,       \* where the frame thread is in hb_tabs_set_bounds
  queue,      \* g_commands
  moves,      \* asynchronous SetWindowPos requests on their way to the WebKit thread
  unused,     \* ids not reserved yet
  cycling,    \* whether the WebKit thread is in WebKit's cycle, or else draining
  tabs,       \* g_tabs, as ids
  active,     \* g_activeTabId, and g_activeChild with it
  selecting,  \* selectTab under way
  closing,    \* the destruction under way
  view,       \* the window and the frame of each tab
  standIn,    \* the stand-in window
  left,       \* history: the tabs that have been selected and left
  late        \* history: the tabs a request has moved when they were not selected

hostVars == <<bounds, host, resizes>>
workVars == <<tabs, active, selecting, closing, view, standIn, left>>
vars == <<hostVars, queue, moves, unused, cycling, workVars, late>>

\* The position and the size are what a request to move may leave alone.  They
\* are stored one after the other.
Rects == [pos : Bounds, size : Bounds]
Rect(b) == [pos |-> b, size |-> b]

Ids == Tabs \cup {0}

Hosts == [at : {"idle", "positioned", "stored", "moving", "posting"}, to : Bounds, child : Ids]

Commands == [kind : {"Open", "OpenBehind", "Select", "Close", "CloseAll", "Reparent", "ApplyBounds"}, id : Ids]
Command(kind, id) == [kind |-> kind, id |-> id]

\* A tab's Tab and child window.  sized is Tab::width and height, kept whether the
\* tab's last frame is kept, rendered whether the page has drawn since it was last woken.
Views ==
  [rect : Rects, sized : Bounds, shown : BOOLEAN, suspended : BOOLEAN,
   kept : BOOLEAN, repaint : {"none", "asked", "answered"}, rendered : BOOLEAN]

NotSelecting == [at |-> "none", id |-> 0, previous |-> 0]
Selecting(id) == [at |-> "asked", id |-> id, previous |-> 0]
Selections == [at : {"none", "asked", "switched"}, id : Ids, previous : Ids]

\* all is closeAllTabs, id the tab being destroyed: told is before its frame is
\* released, released after.
NotClosing == [at |-> "none", all |-> FALSE, id |-> 0, wasActive |-> FALSE]
Closings == [at : {"none", "between", "told", "released"}, all : BOOLEAN, id : Ids, wasActive : BOOLEAN]

\* Of a tab that does not exist.
NoView ==
  LET b == CHOOSE b \in Bounds : TRUE
  IN  [rect |-> Rect(b), sized |-> b, shown |-> FALSE, suspended |-> TRUE,
       kept |-> FALSE, repaint |-> "none", rendered |-> FALSE]

StandIns == [up : BOOLEAN, of : Ids, rect : Rects]
NoStandIn == [up |-> FALSE, of |-> 0, rect |-> NoView.rect]

-----------------------------------------------------------------------------
(* The frame thread.                                                       *)

\* reserveTabId: ids go up.
Reserve(id) ==
  /\ id \in unused /\ \A other \in unused : id <= other
  /\ unused' = unused \ {id}

CanPost == host.at = "idle" /\ Len(queue) < MaxQueue

\* hb_tabs_set_bounds returns at once when nothing has changed.
HbSetBounds(b) ==
  /\ CanPost /\ resizes < MaxResizes /\ bounds # Rect(b)
  /\ resizes' = resizes + 1
  /\ bounds' = [bounds EXCEPT !.pos = b]
  /\ host' = [at |-> "positioned", to |-> b, child |-> 0]
  /\ UNCHANGED <<queue, moves, unused, cycling, workVars, late>>

StoreSize ==
  /\ host.at = "positioned"
  /\ bounds' = [bounds EXCEPT !.size = host.to]
  /\ host' = [host EXCEPT !.at = "stored"]
  /\ UNCHANGED <<resizes, queue, moves, unused, cycling, workVars, late>>

ReadChild ==
  /\ host.at = "stored"
  /\ host' = [host EXCEPT !.at = "moving", !.child = active]
  /\ UNCHANGED <<bounds, resizes, queue, moves, unused, cycling, workVars, late>>

\* The window may be gone by now; its owner will carry the request out when it
\* next looks at its messages.
MoveChild ==
  /\ host.at = "moving"
  /\ moves' = IF host.child # 0 /\ host.child \in Range(tabs) \cup {closing.id}
              THEN Append(moves, [id |-> host.child, to |-> host.to]) ELSE moves
  /\ host' = [host EXCEPT !.at = "posting"]
  /\ UNCHANGED <<bounds, resizes, queue, unused, cycling, workVars, late>>

PostBounds ==
  /\ host.at = "posting"
  /\ queue' = Append(queue, Command("ApplyBounds", 0))
  /\ host' = [host EXCEPT !.at = "idle", !.child = 0]
  /\ UNCHANGED <<bounds, resizes, moves, unused, cycling, workVars, late>>

\* The other calls post one command; an open reserves the tab's id.
HbCall(kind, id) ==
  /\ CanPost /\ kind \in Asks
  /\ CASE kind \in {"Open", "OpenBehind"} -> Reserve(id)
       [] kind \in {"Select", "Close"} -> id \in Tabs \ unused /\ UNCHANGED unused
       [] OTHER -> id = 0 /\ UNCHANGED unused
  /\ queue' = Append(queue, Command(kind, id))
  /\ UNCHANGED <<hostVars, moves, cycling, workVars, late>>

HostStep == StoreSize \/ ReadChild \/ MoveChild \/ PostBounds

-----------------------------------------------------------------------------
(* The WebKit thread: a selection.                                         *)

AtRest == selecting = NotSelecting /\ closing = NotClosing

\* resumeTab: the size is left alone when it is the one the tab was last given.
Resumed(v) ==
  [v EXCEPT !.rect = [pos |-> bounds.pos,
                      size |-> IF v.sized = bounds.size THEN v.rect.size ELSE bounds.size],
            !.sized = bounds.size,
            !.shown = TRUE,
            !.suspended = FALSE,
            !.rendered = ~v.suspended /\ v.rendered]

\* suspendTab does nothing to a tab that is suspended already.
Suspended(v) == IF v.suspended THEN v ELSE [v EXCEPT !.suspended = TRUE, !.shown = FALSE]

\* requestRepaint: one at a time.
Asked(v) == [v EXCEPT !.repaint = IF @ = "none" THEN "asked" ELSE @]

\* Mutant: the frame is freed while it is on screen.
ReleasedOnScreen(id) ==
  /\ view' = [view EXCEPT ![id].kept = FALSE]
  /\ UNCHANGED standIn

\* releaseSnapshot.
Released(id) ==
  /\ view' = [view EXCEPT ![id].kept = FALSE]
  /\ standIn' = IF view[id].kept /\ standIn.of = id THEN NoStandIn ELSE standIn

\* captureSnapshot: the frame of a tab is kept, in place of the one kept before, if it
\* can be drawn.
Captured(id) ==
  \/ UNCHANGED <<view, standIn>>
  \/ /\ view' = [view EXCEPT ![id].kept = TRUE]
     /\ standIn' = IF view[id].kept /\ standIn.of = id THEN NoStandIn ELSE standIn

\* selectTab up to the switch of g_activeTabId and g_activeChild.  A tab taken out of
\* the list is not found.
SelectSwitches ==
  /\ selecting.at = "asked"
  /\ LET id == selecting.id
         previous == IF active \in Range(tabs) THEN active ELSE 0
     IN  IF id = active
         THEN /\ view' = [view EXCEPT ![id] = Resumed(@)]
              /\ selecting' = NotSelecting
              /\ UNCHANGED <<active, standIn, left>>
         ELSE /\ active' = id
              /\ left' = left \cup ({previous} \ {0})
              /\ selecting' = [at |-> "switched", id |-> id, previous |-> previous]
              /\ IF previous = 0 THEN UNCHANGED <<view, standIn>> ELSE Captured(previous)
  /\ UNCHANGED <<hostVars, queue, moves, unused, cycling, tabs, closing, late>>

\* The rest of selectTab: showSnapshot puts the stand-in over everything,
\* resumeTab the page under it.
SelectShows ==
  /\ selecting.at = "switched"
  /\ standIn' = [up |-> TRUE, of |-> IF view[selecting.id].kept THEN selecting.id ELSE 0,
                 rect |-> bounds]
  /\ view' = [t \in Tabs |->
                CASE t = selecting.id -> Asked(Resumed(view[t]))
                  [] t = selecting.previous -> Suspended(view[t])
                  [] OTHER -> view[t]]
  /\ selecting' = NotSelecting
  /\ UNCHANGED <<hostVars, queue, moves, unused, cycling, tabs, active, closing, left, late>>

-----------------------------------------------------------------------------
(* The WebKit thread: the commands.                                        *)

Take(kind) ==
  /\ ~cycling /\ AtRest /\ queue # <<>> /\ Head(queue).kind = kind
  /\ queue' = Tail(queue)
  /\ UNCHANGED <<hostVars, moves, cycling, left, late>>

NewView == [NoView EXCEPT !.rect = bounds, !.sized = bounds.size]

\* createTab: hidden, asleep and at the bottom until it is selected.
CreateTab(id, foreground) ==
  /\ tabs' = Append(tabs, id)
  /\ view' = [view EXCEPT ![id] = NewView]
  /\ selecting' = IF foreground \/ active = 0 THEN Selecting(id) ELSE NotSelecting
  /\ UNCHANGED <<active, closing, standIn>>

RunOpen ==
  \E kind \in {"Open", "OpenBehind"} :
    Take(kind) /\ CreateTab(Head(queue).id, kind = "Open") /\ UNCHANGED unused

RunSelect ==
  /\ Take("Select")
  /\ selecting' = IF Head(queue).id \in Range(tabs) THEN Selecting(Head(queue).id) ELSE NotSelecting
  /\ UNCHANGED <<unused, tabs, active, closing, view, standIn>>

\* moveSnapshotToBounds.
StandInFollows == IF standIn.up THEN [standIn EXCEPT !.rect = bounds] ELSE standIn

\* applyBounds: the size is noted, a repaint asked for, and a stand-in follows
\* the window.
RunApplyBounds ==
  /\ Take("ApplyBounds")
  /\ view' = IF active = 0 THEN view
             ELSE [view EXCEPT ![active] = Asked([@ EXCEPT !.sized = bounds.size])]
  /\ standIn' = StandInFollows
  /\ UNCHANGED <<unused, tabs, active, selecting, closing>>

\* reparentViews: the stand-in window goes with the old parent.
RunReparent ==
  /\ Take("Reparent")
  /\ standIn' = NoStandIn
  /\ view' = [t \in Tabs |->
                CASE t \notin Range(tabs) -> view[t]
                  [] t = active -> Resumed(view[t])
                  [] OTHER -> Suspended(view[t])]
  /\ UNCHANGED <<unused, tabs, active, selecting, closing>>

\* closeTab: the observers are told first.
RunClose ==
  /\ Take("Close")
  /\ closing' = IF Head(queue).id \in Range(tabs)
                THEN [at |-> "told", all |-> FALSE, id |-> Head(queue).id,
                      wasActive |-> active = Head(queue).id]
                ELSE NotClosing
  /\ UNCHANGED <<unused, tabs, active, selecting, view, standIn>>

\* closeAllTabs: nothing is selected first.
RunCloseAll ==
  /\ Take("CloseAll")
  /\ IF tabs = <<>> THEN UNCHANGED <<active, standIn, closing>>
     ELSE /\ active' = 0 /\ standIn' = NoStandIn
          /\ closing' = [NotClosing EXCEPT !.at = "between", !.all = TRUE]
  /\ UNCHANGED <<unused, tabs, selecting, view>>

CloseNext ==
  /\ closing.at = "between" /\ selecting = NotSelecting /\ tabs # <<>>
  /\ closing' = [closing EXCEPT !.at = "told", !.id = Last(tabs)]
  /\ tabs' = Front(tabs)
  /\ UNCHANGED <<hostVars, queue, moves, unused, cycling, active, selecting, view, standIn, left, late>>

\* destroyTab, between the observers and the window.
ReleaseFrame ==
  /\ closing.at = "told" /\ selecting = NotSelecting
  /\ Released(closing.id)
  /\ closing' = [closing EXCEPT !.at = "released"]
  /\ UNCHANGED <<hostVars, queue, moves, unused, cycling, tabs, active, selecting, left, late>>

Gone(id) == view' = [view EXCEPT ![id] = NoView]

\* The window is gone; the tab that was selected has its place taken.
FinishClose ==
  /\ closing.at = "released" /\ selecting = NotSelecting
  /\ LET rest == EraseTab(tabs, IndexOfTab(tabs, closing.id))
     IN  IF closing.all
         THEN /\ closing' = [closing EXCEPT !.at = "between", !.id = 0]
              /\ UNCHANGED <<tabs, active, selecting, standIn, left>>
         ELSE /\ closing' = NotClosing
              /\ tabs' = rest
              /\ IF closing.wasActive
                 THEN /\ active' = 0
                      /\ left' = left \cup ({active} \ {0})
                      /\ IF rest = <<>>
                         THEN selecting' = NotSelecting /\ standIn' = NoStandIn
                         ELSE /\ selecting' = Selecting(Neighbour(rest, IndexOfTab(tabs, closing.id)))
                              /\ UNCHANGED standIn
                 ELSE UNCHANGED <<active, selecting, standIn, left>>
  /\ Gone(closing.id)
  /\ UNCHANGED <<hostVars, queue, moves, unused, cycling, late>>

FinishCloseAll ==
  /\ closing.at = "between" /\ selecting = NotSelecting /\ tabs = <<>>
  /\ closing' = NotClosing /\ active' = 0 /\ left' = left \cup ({active} \ {0})
  /\ UNCHANGED <<hostVars, queue, moves, unused, cycling, tabs, selecting, view, standIn, late>>

WorkStep ==
  \/ SelectSwitches \/ SelectShows
  \/ RunOpen \/ RunSelect \/ RunApplyBounds \/ RunReparent \/ RunClose \/ RunCloseAll
  \/ CloseNext \/ ReleaseFrame \/ FinishClose \/ FinishCloseAll

-----------------------------------------------------------------------------
(* The WebKit thread: the rest of its loop, and the pages.                 *)

\* Mutant: a page that has not answered keeps its stand-in.
ExpireAnswered ==
  /\ ~cycling /\ AtRest /\ queue = <<>> /\ standIn.up
  /\ active # 0 /\ view[active].repaint # "asked"
  /\ standIn' = NoStandIn
  /\ UNCHANGED <<hostVars, queue, moves, unused, cycling, tabs, active, selecting, closing, view, left, late>>

\* kSnapshotHoldMs after the stand-in went up, whatever the page does.
Expire ==
  /\ ~cycling /\ AtRest /\ queue = <<>> /\ standIn.up
  /\ standIn' = NoStandIn
  /\ UNCHANGED <<hostVars, queue, moves, unused, cycling, tabs, active, selecting, closing, view, left, late>>

BeginCycle ==
  /\ ~cycling /\ AtRest /\ queue = <<>>
  /\ cycling' = TRUE
  /\ UNCHANGED <<hostVars, queue, moves, unused, workVars, late>>

\* A request to move a window is carried out, and shows the window, on top.
MoveArrives ==
  /\ cycling /\ AtRest /\ moves # <<>>
  /\ moves' = Tail(moves)
  /\ LET m == Head(moves)
     IN  /\ view' = IF m.id \in Range(tabs)
                    THEN [view EXCEPT ![m.id].rect = Rect(m.to), ![m.id].shown = TRUE]
                    ELSE view
         /\ late' = IF m.id = active THEN late ELSE late \cup {m.id}
  /\ UNCHANGED <<hostVars, queue, unused, cycling, tabs, active, selecting, closing, standIn, left>>

\* Mutant: the answer of any page will do.
RepaintCompletedAny(id) ==
  /\ cycling /\ AtRest /\ id \in Range(tabs) /\ view[id].repaint = "answered"
  /\ view' = [view EXCEPT ![id].repaint = "none"]
  /\ standIn' = NoStandIn
  /\ UNCHANGED <<hostVars, queue, moves, unused, cycling, tabs, active, selecting, closing, left, late>>

\* repaintCompleted.
RepaintCompleted(id) ==
  /\ cycling /\ AtRest /\ id \in Range(tabs) /\ view[id].repaint = "answered"
  /\ view' = [view EXCEPT ![id].repaint = "none"]
  /\ standIn' = IF id = active THEN NoStandIn ELSE standIn
  /\ UNCHANGED <<hostVars, queue, moves, unused, cycling, tabs, active, selecting, closing, left, late>>

EndCycle ==
  /\ cycling /\ AtRest
  /\ cycling' = FALSE
  /\ UNCHANGED <<hostVars, queue, moves, unused, workVars, late>>

\* createNewPageForTab, from WebKit's cycle or from inside a destruction.
PageOpens(id) ==
  /\ \/ cycling /\ AtRest /\ tabs # <<>>
     \/ OpensInside /\ closing.id # 0 /\ selecting = NotSelecting
  /\ Reserve(id)
  /\ CreateTab(id, TRUE)
  /\ UNCHANGED <<hostVars, queue, moves, cycling, left, late>>

\* The process of the page draws, unless it is out of the window, and answers.
PageAnswers(id) ==
  /\ id \in Range(tabs) /\ view[id].repaint = "asked"
  /\ view' = [view EXCEPT ![id].repaint = "answered", ![id].rendered = @ \/ ~view[id].suspended]
  /\ UNCHANGED <<hostVars, queue, moves, unused, cycling, tabs, active, selecting, closing, standIn, left, late>>

LoopStep == BeginCycle \/ EndCycle \/ MoveArrives \/ \E id \in Tabs : RepaintCompleted(id)

-----------------------------------------------------------------------------

Init ==
  /\ \E b \in Bounds :
       /\ bounds = Rect(b)
       /\ host = [at |-> "idle", to |-> b, child |-> 0]
  /\ queue = <<>> /\ moves = <<>> /\ unused = Tabs /\ cycling = FALSE
  /\ tabs = <<>> /\ active = 0 /\ selecting = NotSelecting /\ closing = NotClosing
  /\ view = [t \in Tabs |-> NoView] /\ left = {} /\ late = {} /\ resizes = 0
  /\ standIn = NoStandIn

Next ==
  \/ \E b \in Bounds : HbSetBounds(b)
  \/ HostStep
  \/ \E kind \in Asks, id \in Ids : HbCall(kind, id)
  \/ WorkStep \/ LoopStep \/ Expire
  \/ \E id \in Tabs : PageOpens(id) \/ PageAnswers(id)

\* Both threads are scheduled; the clock passes the deadline however often the
\* loop is elsewhere at the time.
Spec ==
  /\ Init /\ [][Next]_vars
  /\ WF_vars(HostStep) /\ WF_vars(WorkStep) /\ WF_vars(LoopStep) /\ SF_vars(Expire)

-----------------------------------------------------------------------------
(* Properties.                                                             *)

TypeOK ==
  /\ bounds \in Rects /\ host \in Hosts
  /\ queue \in Seq(Commands) /\ moves \in Seq([id : Tabs, to : Bounds])
  /\ unused \subseteq Tabs /\ cycling \in BOOLEAN
  /\ tabs \in Seq(Tabs) /\ active \in Ids
  /\ selecting \in Selections /\ closing \in Closings
  /\ view \in [Tabs -> Views] /\ standIn \in StandIns
  /\ left \subseteq Tabs /\ late \subseteq Tabs /\ resizes \in 0..MaxResizes

\* Nothing is on its way to the WebKit thread.
Settled == host.at = "idle" /\ queue = <<>> /\ moves = <<>> /\ AtRest

\* The frame on screen has not been freed: whatever closes, replaces or releases
\* a tab's kept frame takes the stand-in that shows it down first
\* (releaseSnapshot, view.cpp:201-210).
StandInHasItsFrame ==
  standIn.of # 0 => standIn.up /\ standIn.of \in Tabs /\ view[standIn.of].kept

\* A stand-in follows the window, however the resize, the switch and the stores
\* of the new rectangle interleave (engine.cpp:181-182).
StandInFollowsWindow == Settled /\ standIn.up => standIn.rect = bounds

\* "A background tab is suspended -- hidden, and told it is out of the window"
\* (view.cpp:9): a suspended tab is visible only when a request to move it came
\* after the switch, whatever switches, closes and new parent windows there were.
SuspendedIsHidden ==
  Settled => \A t \in Range(tabs) :
               /\ view[t].suspended /\ view[t].shown => t \in late
               /\ ~view[t].suspended => view[t].shown

\* The type of the state, and what holds of the stand-in and of suspended tabs.
ViewConsistent == TypeOK /\ StandInHasItsFrame /\ StandInFollowsWindow /\ SuspendedIsHidden

\* "The rectangle the active tab's view occupies ... Applied asynchronously"
\* (harmony_tabs.h:47-48): whatever a resize overlaps, the selected tab fills the
\* window in the end, the first time it is selected.
FirstShowingFills == Settled /\ active \notin left \cup {0} => view[active].rect = bounds

\* A stand-in comes down before its time only when "the view underneath has
\* pixels now" (view.cpp:338), the first time a tab is selected.
PageIsReadyBelow ==
  [][\A t \in Tabs : RepaintCompleted(t) /\ standIn.up /\ ~standIn'.up /\ active \notin left
       => view[active].rendered]_vars

\* What the person sees the first time a tab is selected: a page with pixels, as large
\* as the window.
FirstShowingIsWhole == []FirstShowingFills /\ PageIsReadyBelow

\* "A page that never answers must not leave a stale frame up for good"
\* (engine.cpp:303), unless the host keeps switching.
StandInComesDown == standIn.up ~> (~standIn.up \/ queue # <<>>)
=============================================================================
