---------------------------- MODULE TabViewProofs ----------------------------
(***************************************************************************)
(* For any tabs and rectangles: the stand-in on screen has its frame and    *)
(* follows the window, a suspended tab is hidden unless a request moved it  *)
(* late, and a tab that is shown for the first time fills the window and    *)
(* has pixels when its stand-in comes down.                                 *)
(*                                                                         *)
(* The frame thread stores a rectangle in two halves, reads the selected    *)
(* tab and asks for its window to be moved, while the WebKit thread selects *)
(* and closes.  What the proof keeps about a tab nobody has left yet is     *)
(* that no request for it is older than its selection, and that until the   *)
(* last one has been carried out the rectangle is on its way to it.         *)
(***************************************************************************)
EXTENDS TabView, TabListTheorems

Requests == [id : Tabs, to : Bounds]

Opens(c) == c.kind \in {"Open", "OpenBehind"}

\* Tab `id' waits to be opened in queue q, and no two such commands are for one tab.
Waiting(q, id) == \E i \in 1..Len(q) : Opens(q[i]) /\ q[i].id = id

Apart(q) == \A i, j \in 1..Len(q) : Opens(q[i]) /\ Opens(q[j]) /\ q[i].id = q[j].id => i = j

Applying(q) == \E i \in 1..Len(q) : q[i].kind = "ApplyBounds"

\* A request in m is for tab t, and the last of those is for rectangle r.
Moving(m, t) == \E i \in 1..Len(m) : m[i].id = t

LastTo(m, t, r) ==
  \E i \in 1..Len(m) : m[i].id = t /\ Rect(m[i].to) = r /\ \A j \in (i + 1)..Len(m) : m[j].id # t

\* Nothing anywhere is about a tab that does not exist yet.
Unborn(t) == t \in unused \/ Waiting(queue, t)

TabsOK ==
  /\ Distinct(tabs) /\ Apart(queue)
  /\ \A id \in Ids : Waiting(queue, id) => id \in Tabs \ unused
  /\ \A t \in Tabs : Unborn(t) =>
       t \notin Range(tabs) /\ t # closing.id /\ t # active /\ t # host.child /\ ~Moving(moves, t) /\ t # standIn.of

\* What a selection and a destruction under way may still count on: a page that
\* opens inside the destruction selects itself, never the tab that goes.
UnderWay ==
  /\ closing.at = "none" => closing = NotClosing
  /\ closing.at = "between" => closing.all /\ closing.id = 0
  /\ closing.at \in {"told", "released"} => closing.id \in Tabs /\ (~closing.all => closing.id \in Range(tabs))
  /\ closing.at \in {"told", "released"} /\ ~closing.all /\ ~closing.wasActive => active # closing.id
  /\ selecting.at = "none" => selecting = NotSelecting
  /\ selecting.at # "none" => selecting.id \in Range(tabs) /\ selecting.id # closing.id
  /\ selecting.at = "switched" => active = selecting.id /\ selecting.previous # selecting.id

\* The selected tab is listed, and awake once its selection is over.
ActiveOK ==
  ~closing.all /\ active # 0 =>
    active \in Range(tabs) /\ (selecting.at # "switched" => ~view[active].suspended)

\* A stand-in the window has left behind is about to be moved.
StandInOK ==
  /\ StandInHasItsFrame
  /\ closing.at = "released" => standIn.of # closing.id
  /\ standIn.up /\ standIn.rect # bounds => host.at # "idle" \/ Applying(queue)

HiddenOK ==
  \A t \in Tabs : (view[t].suspended /\ view[t].shown => t \in late) /\ (~view[t].suspended => view[t].shown)

\* The frame thread stores the position first, then the size.
StoredOK == bounds.pos = host.to /\ (host.at # "positioned" => bounds.size = host.to)

\* The frame thread will ask for the window of tab t to be moved.
Sends(t) == host.at \in {"positioned", "stored"} \/ (host.at = "moving" /\ host.child = t)

\* A tab nobody has left yet: before its selection nothing has moved it, and since
\* then it fills the window, or will.
First(t) ==
  /\ t # active => ~Moving(moves, t) /\ host.child # t
  /\ t # active \/ selecting.at = "switched" => view[t].sized = view[t].rect.size /\ view[t].repaint = "none"
  /\ t = active => \/ Sends(t) \/ LastTo(moves, t, bounds)
                   \/ ~Moving(moves, t) /\ (selecting.at # "switched" => view[t].rect = bounds)
  /\ t = active /\ view[t].repaint = "answered" => view[t].rendered

FirstOK == ~closing.all => \A t \in Range(tabs) \ left : First(t)

IInv ==
  TypeOK /\ TabsOK /\ UnderWay /\ ActiveOK /\ StandInOK /\ HiddenOK /\ StoredOK /\ FirstOK

-----------------------------------------------------------------------------
(* The operators.                                                          *)

LEMMA ZeroIsNoTab == 0 \notin Tabs /\ Ids = Tabs \cup {0}
BY ViewAssumption DEF Ids

LEMMA TailWaits ==
  ASSUME NEW q \in Seq(Commands), q # <<>>, Apart(q)
  PROVE  /\ Tail(q) \in Seq(Commands) /\ Apart(Tail(q)) /\ Head(q) \in Commands
         /\ \A id : Waiting(Tail(q), id) => Waiting(q, id)
         /\ Opens(Head(q)) => Waiting(q, Head(q).id) /\ ~Waiting(Tail(q), Head(q).id)
         /\ Applying(q) /\ Head(q).kind # "ApplyBounds" => Applying(Tail(q))
<1> DEFINE rest == Tail(q)
<1>1. /\ rest \in Seq(Commands) /\ Len(rest) = Len(q) - 1
      /\ \A i \in 1..Len(rest) : i + 1 \in 1..Len(q) /\ rest[i] = q[i + 1]
      /\ 1 \in 1..Len(q) /\ Head(q) = q[1] /\ Head(q) \in Commands
  BY TailOf
<1> HIDE DEF rest
<1>2. Apart(rest)
  BY <1>1 DEF Apart
<1>3. \A id : Waiting(rest, id) => Waiting(q, id)
  BY <1>1 DEF Waiting
<1>4. Opens(Head(q)) => Waiting(q, Head(q).id) /\ ~Waiting(rest, Head(q).id)
  BY <1>1 DEF Waiting, Apart
<1>5. Applying(q) /\ Head(q).kind # "ApplyBounds" => Applying(rest)
  <2>1. ASSUME NEW i \in 1..Len(q), i # 1 PROVE i - 1 \in 1..Len(rest) /\ rest[i - 1] = q[i]
    BY <1>1, <2>1
  <2> QED BY <1>1, <2>1 DEF Applying
<1> QED BY <1>1, <1>2, <1>3, <1>4, <1>5 DEF rest

LEMMA AppendWaits ==
  ASSUME NEW q \in Seq(Commands), Apart(q), NEW e \in Commands, Opens(e) => ~Waiting(q, e.id)
  PROVE  /\ Append(q, e) \in Seq(Commands) /\ Apart(Append(q, e))
         /\ \A id : Waiting(Append(q, e), id) => Waiting(q, id) \/ (Opens(e) /\ id = e.id)
         /\ Applying(q) \/ e.kind = "ApplyBounds" => Applying(Append(q, e))
<1> DEFINE longer == Append(q, e)
<1>1. /\ longer \in Seq(Commands) /\ Len(longer) = Len(q) + 1
      /\ \A i \in 1..Len(q) : longer[i] = q[i]
      /\ longer[Len(q) + 1] = e
  BY AppendOf
<1> HIDE DEF longer
<1>2. \A i \in 1..Len(longer) : (i \in 1..Len(q) /\ longer[i] = q[i]) \/ (i = Len(q) + 1 /\ longer[i] = e)
  BY <1>1
<1>3. Apart(longer)
  BY <1>2 DEF Apart, Waiting
<1>4. \A id : Waiting(longer, id) => Waiting(q, id) \/ (Opens(e) /\ id = e.id)
  BY <1>2 DEF Waiting
<1>5. Applying(q) \/ e.kind = "ApplyBounds" => Applying(longer)
  <2>1. Len(q) + 1 \in 1..Len(longer) /\ \A i \in 1..Len(q) : i \in 1..Len(longer)
    BY <1>1
  <2> QED BY <1>1, <2>1 DEF Applying
<1> QED BY <1>1, <1>3, <1>4, <1>5 DEF longer

LEMMA TailMoves ==
  ASSUME NEW m \in Seq(Requests), m # <<>>, NEW t
  PROVE  /\ Tail(m) \in Seq(Requests) /\ Head(m) \in Requests
         /\ Moving(Tail(m), t) => Moving(m, t)
         /\ Head(m).id = t => Moving(m, t)
         /\ \A r : LastTo(m, t, r) => LastTo(Tail(m), t, r)
                                      \/ (Head(m).id = t /\ Rect(Head(m).to) = r /\ ~Moving(Tail(m), t))
<1> DEFINE rest == Tail(m)
<1>1. /\ rest \in Seq(Requests) /\ Len(rest) = Len(m) - 1
      /\ \A i \in 1..Len(rest) : i + 1 \in 1..Len(m) /\ rest[i] = m[i + 1]
      /\ 1 \in 1..Len(m) /\ Head(m) = m[1] /\ Head(m) \in Requests
  BY TailOf
<1> HIDE DEF rest
<1>2. (Moving(rest, t) => Moving(m, t)) /\ (Head(m).id = t => Moving(m, t))
  BY <1>1 DEF Moving
<1>3. ASSUME NEW r, LastTo(m, t, r)
      PROVE  LastTo(rest, t, r) \/ (Head(m).id = t /\ Rect(Head(m).to) = r /\ ~Moving(rest, t))
  <2>1. PICK i \in 1..Len(m) : m[i].id = t /\ Rect(m[i].to) = r /\ \A j \in (i + 1)..Len(m) : m[j].id # t
    BY <1>3 DEF LastTo
  <2>2. CASE i = 1
    <3>1. \A j \in 1..Len(rest) : rest[j].id # t
      BY <1>1, <2>1, <2>2
    <3> QED BY <1>1, <2>1, <2>2, <3>1 DEF Moving
  <2>3. CASE i # 1
    <3>1. i - 1 \in 1..Len(rest) /\ rest[i - 1] = m[i]
      BY <1>1, <2>3
    <3>2. \A j \in ((i - 1) + 1)..Len(rest) : rest[j].id # t
      BY <1>1, <2>1, <2>3
    <3> QED BY <2>1, <3>1, <3>2 DEF LastTo
  <2> QED BY <2>2, <2>3
<1> QED BY <1>1, <1>2, <1>3 DEF rest

LEMMA AppendMoves ==
  ASSUME NEW m \in Seq(Requests), NEW e \in Requests, NEW t
  PROVE  /\ Append(m, e) \in Seq(Requests)
         /\ Moving(Append(m, e), t) => Moving(m, t) \/ e.id = t
         /\ e.id = t => LastTo(Append(m, e), t, Rect(e.to))
         /\ e.id # t => \A r : LastTo(m, t, r) => LastTo(Append(m, e), t, r)
<1> DEFINE longer == Append(m, e)
<1>1. /\ longer \in Seq(Requests) /\ Len(longer) = Len(m) + 1 /\ Len(m) \in Nat
      /\ \A i \in 1..Len(m) : longer[i] = m[i]
      /\ longer[Len(m) + 1] = e
  BY AppendOf
<1> HIDE DEF longer
<1>2. \A i \in 1..Len(longer) : (i \in 1..Len(m) /\ longer[i] = m[i]) \/ (i = Len(m) + 1 /\ longer[i] = e)
  BY <1>1
<1>3. Moving(longer, t) => Moving(m, t) \/ e.id = t
  BY <1>2 DEF Moving
<1>4. e.id = t => LastTo(longer, t, Rect(e.to))
  <2>1. Len(m) + 1 \in 1..Len(longer) /\ \A j \in ((Len(m) + 1) + 1)..Len(longer) : FALSE
    BY <1>1
  <2> QED BY <1>1, <2>1 DEF LastTo
<1>5. ASSUME e.id # t, NEW r, LastTo(m, t, r) PROVE LastTo(longer, t, r)
  <2>1. PICK i \in 1..Len(m) : m[i].id = t /\ Rect(m[i].to) = r /\ \A j \in (i + 1)..Len(m) : m[j].id # t
    BY <1>5 DEF LastTo
  <2>2. i \in 1..Len(longer) /\ longer[i] = m[i]
    BY <1>1
  <2>3. \A j \in (i + 1)..Len(longer) : j \in (i + 1)..Len(m) \/ j = Len(m) + 1
    BY <1>1
  <2>4. \A j \in (i + 1)..Len(m) : longer[j] = m[j]
    BY <1>1
  <2>5. \A j \in (i + 1)..Len(longer) : longer[j].id # t
    BY <1>1, <1>5, <2>1, <2>3, <2>4
  <2> QED BY <2>1, <2>2, <2>5 DEF LastTo
<1> QED BY <1>1, <1>3, <1>4, <1>5 DEF longer

LEMMA RectsAreRects ==
  /\ \A b \in Bounds : Rect(b) \in Rects /\ Rect(b).pos = b /\ Rect(b).size = b
  /\ \A r, s \in Rects : r.pos = s.pos /\ r.size = s.size => r = s
<1>1. \A b \in Bounds : Rect(b) \in Rects /\ Rect(b).pos = b /\ Rect(b).size = b
  BY DEF Rect, Rects
<1>2. \A r, s \in Rects : r.pos = s.pos /\ r.size = s.size => r = s
  BY DEF Rects
<1> QED BY <1>1, <1>2

LEMMA NoViewIsView == NoView \in Views /\ NoView.suspended /\ ~NoView.shown /\ ~NoView.kept /\ NoView.repaint = "none"
<1> DEFINE b == CHOOSE b \in Bounds : TRUE
<1>1. b \in Bounds
  BY ViewAssumption
<1>2. NoView = [rect |-> Rect(b), sized |-> b, shown |-> FALSE, suspended |-> TRUE,
                kept |-> FALSE, repaint |-> "none", rendered |-> FALSE]
  BY DEF NoView
<1> HIDE DEF b
<1>3. Rect(b) \in Rects
  BY <1>1, RectsAreRects
<1> QED BY <1>1, <1>2, <1>3 DEF Views

LEMMA NoStandInIsStandIn == NoStandIn \in StandIns /\ ~NoStandIn.up /\ NoStandIn.of = 0
<1>1. NoView.rect \in Rects
  BY NoViewIsView DEF Views
<1> QED BY <1>1 DEF NoStandIn, StandIns, Ids

\* resumeTab, suspendTab and requestRepaint, field by field.
LEMMA ResumedOf ==
  ASSUME NEW v \in Views, bounds \in Rects
  PROVE  /\ Resumed(v) \in Views /\ Resumed(v).shown /\ ~Resumed(v).suspended
         /\ Resumed(v).rect.pos = bounds.pos
         /\ Resumed(v).rect.size = (IF v.sized = bounds.size THEN v.rect.size ELSE bounds.size)
         /\ v.rect = bounds \/ v.sized = v.rect.size => Resumed(v).rect = bounds
         /\ Resumed(v).kept = v.kept /\ Resumed(v).repaint = v.repaint
         /\ ~v.suspended /\ v.rendered => Resumed(v).rendered
<1> DEFINE rect == [pos |-> bounds.pos, size |-> IF v.sized = bounds.size THEN v.rect.size ELSE bounds.size]
           rendered == ~v.suspended /\ v.rendered
           size == bounds.size
           new == [v EXCEPT !.rect = rect, !.sized = size, !.shown = TRUE, !.suspended = FALSE, !.rendered = rendered]
<1>1. /\ bounds.pos \in Bounds /\ bounds.size \in Bounds /\ v.rect \in Rects /\ v.rect.size \in Bounds
      /\ v.suspended \in BOOLEAN /\ v.rendered \in BOOLEAN
  BY DEF Rects, Views
<1>2. /\ rect \in Rects /\ rect.pos = bounds.pos
      /\ rect.size = (IF v.sized = bounds.size THEN v.rect.size ELSE bounds.size)
  BY <1>1 DEF Rects
<1>3. v.rect = bounds \/ v.sized = v.rect.size => rect = bounds
  BY <1>1, <1>2, RectsAreRects
<1>4. rendered \in BOOLEAN /\ (~v.suspended /\ v.rendered => rendered) /\ size \in Bounds
  BY <1>1
<1>5. Resumed(v) = new
  BY DEF Resumed
<1> HIDE DEF rect, rendered, size
<1>6. new \in Views
  BY <1>2, <1>4 DEF Views
<1>7. /\ new.rect = rect /\ new.shown /\ ~new.suspended /\ new.kept = v.kept /\ new.repaint = v.repaint
      /\ new.rendered = rendered
  BY DEF Views
<1> QED BY <1>2, <1>3, <1>4, <1>5, <1>6, <1>7

LEMMA SuspendedOf ==
  ASSUME NEW v \in Views
  PROVE  /\ Suspended(v) \in Views /\ Suspended(v).suspended /\ (Suspended(v).shown => v.suspended /\ v.shown)
         /\ Suspended(v).rect = v.rect /\ Suspended(v).sized = v.sized /\ Suspended(v).kept = v.kept
         /\ Suspended(v).repaint = v.repaint /\ Suspended(v).rendered = v.rendered
<1>1. CASE v.suspended
  BY <1>1 DEF Suspended
<1>2. CASE ~v.suspended
  <2> DEFINE new == [v EXCEPT !.suspended = TRUE, !.shown = FALSE]
  <2>1. Suspended(v) = new
    BY <1>2 DEF Suspended
  <2>2. new \in Views
    BY DEF Views
  <2>3. /\ new.suspended /\ ~new.shown /\ new.rect = v.rect /\ new.sized = v.sized /\ new.kept = v.kept
        /\ new.repaint = v.repaint /\ new.rendered = v.rendered
    BY DEF Views
  <2> QED BY <2>1, <2>2, <2>3
<1> QED BY <1>1, <1>2

LEMMA AskedOf ==
  ASSUME NEW v \in Views
  PROVE  /\ Asked(v) \in Views /\ Asked(v).rect = v.rect /\ Asked(v).sized = v.sized /\ Asked(v).kept = v.kept
         /\ Asked(v).shown = v.shown /\ Asked(v).suspended = v.suspended /\ Asked(v).rendered = v.rendered
         /\ Asked(v).repaint = (IF v.repaint = "none" THEN "asked" ELSE v.repaint)
<1> DEFINE repaint == IF v.repaint = "none" THEN "asked" ELSE v.repaint
           new == [v EXCEPT !.repaint = repaint]
<1>1. repaint \in {"none", "asked", "answered"}
  BY DEF Views
<1>2. Asked(v) = new
  BY DEF Asked
<1> HIDE DEF repaint
<1>3. new \in Views
  BY <1>1 DEF Views
<1>4. /\ new.rect = v.rect /\ new.sized = v.sized /\ new.kept = v.kept /\ new.shown = v.shown
      /\ new.suspended = v.suspended /\ new.rendered = v.rendered /\ new.repaint = repaint
  BY DEF Views
<1> QED BY <1>2, <1>3, <1>4 DEF repaint

\* The thread takes its next command.
LEMMA TakeWaits ==
  ASSUME IInv, NEW kind, Take(kind)
  PROVE  /\ ~cycling /\ AtRest /\ UNCHANGED <<hostVars, moves, cycling, left, late>>
         /\ queue' \in Seq(Commands) /\ Apart(queue') /\ Head(queue) \in Commands /\ Head(queue).kind = kind
         /\ \A id : Waiting(queue', id) => Waiting(queue, id)
         /\ Opens(Head(queue)) => Waiting(queue, Head(queue).id) /\ ~Waiting(queue', Head(queue).id)
         /\ Applying(queue) /\ kind # "ApplyBounds" => Applying(queue')
<1>1. queue \in Seq(Commands) /\ Apart(queue)
  BY DEF IInv, TypeOK, TabsOK
<1>2. /\ ~cycling /\ AtRest /\ queue # <<>> /\ queue' = Tail(queue) /\ Head(queue).kind = kind
      /\ UNCHANGED <<hostVars, moves, cycling, left, late>>
  BY DEF Take
<1> QED BY <1>1, <1>2, TailWaits

-----------------------------------------------------------------------------
(* The frame thread.                                                       *)

LEMMA HostKeeps ==
  ASSUME IInv, UNCHANGED <<workVars, late>>
  PROVE  /\ UnderWay' /\ ActiveOK' /\ HiddenOK' /\ StandInHasItsFrame'
         /\ (closing.at = "released" => standIn.of # closing.id)'
         /\ (tabs \in Seq(Tabs) /\ active \in Ids /\ selecting \in Selections /\ closing \in Closings)'
         /\ (view \in [Tabs -> Views] /\ standIn \in StandIns /\ left \subseteq Tabs /\ late \subseteq Tabs)'
<1>0. UNCHANGED <<tabs, active, selecting, closing, view, standIn, left, late>>
  BY DEF workVars
<1>1. UnderWay' /\ ActiveOK' /\ HiddenOK'
  BY <1>0 DEF IInv, UnderWay, ActiveOK, HiddenOK
<1>2. StandInHasItsFrame' /\ (closing.at = "released" => standIn.of # closing.id)'
  BY <1>0 DEF IInv, StandInOK, StandInHasItsFrame
<1>3. /\ (tabs \in Seq(Tabs) /\ active \in Ids /\ selecting \in Selections /\ closing \in Closings)'
      /\ (view \in [Tabs -> Views] /\ standIn \in StandIns /\ left \subseteq Tabs /\ late \subseteq Tabs)'
  BY <1>0 DEF IInv, TypeOK
<1> QED BY <1>1, <1>2, <1>3

LEMMA HbSetBoundsKeeps ==
  ASSUME IInv, NEW b \in Bounds, HbSetBounds(b)
  PROVE  IInv'
<1>0. /\ host.at = "idle" /\ bounds' = [bounds EXCEPT !.pos = b]
      /\ host' = [at |-> "positioned", to |-> b, child |-> 0]
      /\ resizes < MaxResizes /\ resizes' = resizes + 1
      /\ UNCHANGED <<queue, moves, unused, cycling, workVars, late>>
  BY DEF HbSetBounds, CanPost
<1>1. /\ bounds \in Rects /\ host \in Hosts /\ resizes \in 0..MaxResizes /\ MaxResizes \in Nat
  BY ViewAssumption DEF IInv, TypeOK
<1>2. bounds' \in Rects /\ bounds'.pos = b
  BY <1>0, <1>1 DEF Rects
<1>3. host' \in Hosts /\ host'.at = "positioned" /\ host'.to = b /\ host'.child = 0
  BY <1>0 DEF Hosts, Ids
<1>4. TypeOK'
  BY <1>0, <1>1, <1>2, <1>3, HostKeeps DEF IInv, TypeOK
<1>5. TabsOK'
  BY <1>0, <1>3, ZeroIsNoTab DEF IInv, TabsOK, workVars, Unborn
<1>6. StandInOK'
  BY <1>0, <1>3, HostKeeps DEF StandInOK
<1>7. StoredOK'
  BY <1>2, <1>3 DEF StoredOK
<1>8. FirstOK'
  <2> SUFFICES ASSUME ~closing'.all, NEW t \in Range(tabs)' \ left' PROVE First(t)'
    BY DEF FirstOK
  <2>1. t \in Tabs /\ First(t)
    BY <1>0 DEF IInv, FirstOK, TypeOK, workVars, Range
  <2> QED BY <1>0, <1>3, <2>1, ZeroIsNoTab DEF First, Sends, workVars
<1> QED BY <1>0, <1>4, <1>5, <1>6, <1>7, <1>8, HostKeeps DEF IInv

LEMMA StoreSizeKeeps ==
  ASSUME IInv, StoreSize
  PROVE  IInv'
<1>0. /\ host.at = "positioned" /\ bounds' = [bounds EXCEPT !.size = host.to]
      /\ host' = [host EXCEPT !.at = "stored"]
      /\ UNCHANGED <<resizes, queue, moves, unused, cycling, workVars, late>>
  BY DEF StoreSize
<1>1. bounds \in Rects /\ host \in Hosts
  BY DEF IInv, TypeOK
<1>2. bounds' \in Rects /\ bounds'.pos = bounds.pos /\ bounds'.size = host.to
  BY <1>0, <1>1 DEF Rects, Hosts
<1>3. host' \in Hosts /\ host'.at = "stored" /\ host'.to = host.to /\ host'.child = host.child
  BY <1>0, <1>1 DEF Hosts
<1>4. TypeOK'
  BY <1>0, <1>2, <1>3, HostKeeps DEF IInv, TypeOK
<1>5. TabsOK'
  BY <1>0, <1>3 DEF IInv, TabsOK, workVars, Unborn
<1>6. StandInOK'
  BY <1>0, <1>3, HostKeeps DEF StandInOK
<1>7. StoredOK'
  BY <1>2, <1>3 DEF IInv, StoredOK
<1>8. FirstOK'
  <2> SUFFICES ASSUME ~closing'.all, NEW t \in Range(tabs)' \ left' PROVE First(t)'
    BY DEF FirstOK
  <2>1. First(t)
    BY <1>0 DEF IInv, FirstOK, workVars
  <2> QED BY <1>0, <1>3, <2>1 DEF First, Sends, workVars
<1> QED BY <1>0, <1>4, <1>5, <1>6, <1>7, <1>8, HostKeeps DEF IInv

\* The frame thread reads which tab is selected, and may act on it later.
LEMMA ReadChildKeeps ==
  ASSUME IInv, ReadChild
  PROVE  IInv'
<1>0. /\ host.at = "stored" /\ host' = [host EXCEPT !.at = "moving", !.child = active]
      /\ UNCHANGED <<bounds, resizes, queue, moves, unused, cycling, workVars, late>>
  BY DEF ReadChild
<1>1. host \in Hosts /\ active \in Ids
  BY DEF IInv, TypeOK
<1>3. host' \in Hosts /\ host'.at = "moving" /\ host'.to = host.to /\ host'.child = active
  BY <1>0, <1>1 DEF Hosts
<1>4. TypeOK'
  BY <1>0, <1>3, HostKeeps DEF IInv, TypeOK
<1>5. TabsOK'
  BY <1>0, <1>3 DEF IInv, TabsOK, workVars, Unborn
<1>6. StandInOK'
  BY <1>0, <1>3, HostKeeps DEF StandInOK
<1>7. StoredOK'
  BY <1>0, <1>3 DEF IInv, StoredOK
<1>8. FirstOK'
  <2> SUFFICES ASSUME ~closing'.all, NEW t \in Range(tabs)' \ left' PROVE First(t)'
    BY DEF FirstOK
  <2>1. First(t)
    BY <1>0 DEF IInv, FirstOK, workVars
  <2> QED BY <1>0, <1>3, <2>1 DEF First, Sends, workVars
<1> QED BY <1>0, <1>4, <1>5, <1>6, <1>7, <1>8, HostKeeps DEF IInv

LEMMA MoveChildKeeps ==
  ASSUME IInv, MoveChild
  PROVE  IInv'
<1> DEFINE asks == host.child # 0 /\ host.child \in Range(tabs) \cup {closing.id}
           new == [id |-> host.child, to |-> host.to]
<1>0. /\ host.at = "moving" /\ host' = [host EXCEPT !.at = "posting"]
      /\ moves' = (IF asks THEN Append(moves, new) ELSE moves)
      /\ UNCHANGED <<bounds, resizes, queue, unused, cycling, workVars, late>>
  BY DEF MoveChild
<1>1. host \in Hosts /\ moves \in Seq(Requests)
  BY DEF IInv, TypeOK, Requests
<1>2. host.child # 0 => new \in Requests /\ new.id = host.child /\ new.to = host.to
  BY <1>1 DEF Hosts, Ids, Requests
<1>3. host' \in Hosts /\ host'.at = "posting" /\ host'.to = host.to /\ host'.child = host.child
  BY <1>0, <1>1 DEF Hosts
<1>a. asks => host.child # 0
  OBVIOUS
<1>b. host.child \in Range(tabs) /\ host.child \in Tabs => asks
  BY ZeroIsNoTab
<1>c. tabs \in Seq(Tabs) /\ UNCHANGED <<tabs, active, selecting, closing, view, standIn, left, late>>
  BY <1>0 DEF workVars, IInv, TypeOK
<1>d. bounds = Rect(host.to)
  BY <1>0 DEF IInv, StoredOK, TypeOK, Rect, Rects
<1> HIDE DEF asks, new
<1>4. moves' \in Seq(Requests)
  BY <1>0, <1>1, <1>2, <1>a, AppendMoves
<1>5. ASSUME NEW t
      PROVE  /\ Moving(moves', t) => Moving(moves, t) \/ t = host.child
             /\ asks /\ t = host.child => LastTo(moves', t, bounds)
             /\ t # host.child => \A r : LastTo(moves, t, r) => LastTo(moves', t, r)
  BY <1>0, <1>1, <1>2, <1>a, <1>d, AppendMoves
<1>6. TypeOK'
  BY <1>0, <1>3, <1>4, HostKeeps DEF IInv, TypeOK, Requests
<1>7. TabsOK'
  BY <1>0, <1>3, <1>5, <1>c DEF IInv, TabsOK, Unborn
<1>8. StandInOK'
  BY <1>0, <1>3, HostKeeps DEF StandInOK
<1>9. StoredOK'
  BY <1>0, <1>3 DEF IInv, StoredOK
<1>10. FirstOK'
  <2> SUFFICES ASSUME ~closing'.all, NEW t \in Range(tabs)' \ left' PROVE First(t)'
    BY DEF FirstOK
  <2>1. First(t) /\ t \in Range(tabs) /\ t \in Tabs
    BY <1>c DEF IInv, FirstOK, Range
  <2>2. t # active => ~Moving(moves', t) /\ host'.child # t
    BY <1>3, <1>5, <2>1 DEF First
  <2>3. ASSUME t = active
        PROVE  \/ LastTo(moves', t, bounds)
               \/ ~Moving(moves', t) /\ (selecting.at # "switched" => view[t].rect = bounds)
    <3>1. CASE host.child = t
      BY <3>1, <1>5, <1>b, <2>1
    <3>2. CASE host.child # t
      BY <3>2, <1>0, <1>5, <2>1, <2>3 DEF First, Sends
    <3> QED BY <3>1, <3>2
  <2> QED BY <1>0, <1>c, <2>1, <2>2, <2>3 DEF First
<1> QED BY <1>0, <1>6, <1>7, <1>8, <1>9, <1>10, HostKeeps DEF IInv

LEMMA PostBoundsKeeps ==
  ASSUME IInv, PostBounds
  PROVE  IInv'
<1> DEFINE new == Command("ApplyBounds", 0)
<1>0. /\ host.at = "posting" /\ queue' = Append(queue, new)
      /\ host' = [host EXCEPT !.at = "idle", !.child = 0]
      /\ UNCHANGED <<bounds, resizes, moves, unused, cycling, workVars, late>>
  BY DEF PostBounds
<1>1. host \in Hosts /\ queue \in Seq(Commands) /\ Apart(queue)
  BY DEF IInv, TypeOK, TabsOK
<1>2. new \in Commands /\ new.kind = "ApplyBounds" /\ ~Opens(new)
  BY DEF Command, Commands, Ids, Opens
<1> HIDE DEF new
<1>3. /\ host' \in Hosts /\ host'.at = "idle" /\ host'.to = host.to /\ host'.child = 0
  BY <1>0, <1>1 DEF Hosts, Ids
<1>4. /\ queue' \in Seq(Commands) /\ Apart(queue') /\ Applying(queue')
      /\ \A id : Waiting(queue', id) => Waiting(queue, id)
  BY <1>0, <1>1, <1>2, AppendWaits
<1>5. TypeOK'
  BY <1>0, <1>3, <1>4, HostKeeps DEF IInv, TypeOK
<1>6. TabsOK'
  BY <1>0, <1>3, <1>4, ZeroIsNoTab DEF IInv, TabsOK, workVars, Unborn
<1>7. StandInOK'
  BY <1>0, <1>4, HostKeeps DEF StandInOK
<1>8. StoredOK'
  BY <1>0, <1>3 DEF IInv, StoredOK
<1>9. FirstOK'
  <2> SUFFICES ASSUME ~closing'.all, NEW t \in Range(tabs)' \ left' PROVE First(t)'
    BY DEF FirstOK
  <2>1. First(t) /\ t \in Tabs
    BY <1>0 DEF IInv, FirstOK, workVars, TypeOK, Range
  <2> QED BY <1>0, <1>3, <2>1, ZeroIsNoTab DEF First, Sends, workVars
<1> QED BY <1>0, <1>5, <1>6, <1>7, <1>8, <1>9, HostKeeps DEF IInv

LEMMA HbCallKeeps ==
  ASSUME IInv, NEW kind \in Asks, NEW id \in Ids, HbCall(kind, id)
  PROVE  IInv'
<1> DEFINE new == Command(kind, id)
<1>0. /\ queue' = Append(queue, new) /\ UNCHANGED <<hostVars, moves, cycling, workVars, late>>
      /\ host.at = "idle"
      /\ CASE kind \in {"Open", "OpenBehind"} -> Reserve(id)
           [] kind \in {"Select", "Close"} -> id \in Tabs \ unused /\ UNCHANGED unused
           [] OTHER -> id = 0 /\ UNCHANGED unused
  BY DEF HbCall, CanPost
<1>a. new.kind = kind /\ new.id = id
  BY DEF Command
<1>b. kind \in {"Open", "OpenBehind"} => Reserve(id)
  BY <1>0
<1>c. kind \notin {"Open", "OpenBehind"} => UNCHANGED unused
  BY <1>0
<1>d. unused' \subseteq unused /\ (Opens(new) => id \in unused /\ id \notin unused')
  BY <1>a, <1>b, <1>c DEF Reserve, Opens
<1>1. queue \in Seq(Commands) /\ Apart(queue) /\ unused \subseteq Tabs
  BY DEF IInv, TypeOK, TabsOK
<1>2. ~Waiting(queue, id) \/ id \notin unused
  BY DEF IInv, TabsOK
<1>3. new \in Commands
  BY ViewAssumption DEF Command, Commands
<1> HIDE DEF new
<1>4. /\ queue' \in Seq(Commands) /\ Apart(queue') /\ (Applying(queue) => Applying(queue'))
      /\ \A t : Waiting(queue', t) => Waiting(queue, t) \/ (Opens(new) /\ t = id)
  BY <1>0, <1>1, <1>2, <1>3, <1>a, <1>d, AppendWaits
<1>5. UNCHANGED <<bounds, resizes, host, moves, cycling, tabs, active, closing, standIn, late>>
  BY <1>0 DEF hostVars, workVars
<1>6. TypeOK'
  BY <1>0, <1>1, <1>4, <1>5, <1>d, HostKeeps DEF IInv, TypeOK
<1>7. TabsOK'
  <2>1. \A t : Unborn(t)' => Unborn(t)
    BY <1>4, <1>d DEF Unborn
  <2>2. \A t \in Ids : Waiting(queue', t) => t \in Tabs \ unused'
    BY <1>1, <1>4, <1>d DEF IInv, TabsOK
  <2> QED BY <1>4, <1>5, <2>1, <2>2 DEF IInv, TabsOK
<1>8. StandInOK'
  BY <1>0, <1>4, <1>5, HostKeeps DEF IInv, StandInOK
<1>9. StoredOK'
  BY <1>5 DEF IInv, StoredOK
<1>10. FirstOK'
  BY <1>0, <1>5 DEF IInv, FirstOK, First, Sends, workVars
<1> QED BY <1>0, <1>6, <1>7, <1>8, <1>9, <1>10, HostKeeps DEF IInv

-----------------------------------------------------------------------------
(* The WebKit thread: a selection.                                         *)

\* Selecting the tab that is selected already gives it its rectangle again.
LEMMA SelectedAgain ==
  ASSUME IInv, SelectSwitches, selecting.id = active
  PROVE  IInv'
<1> DEFINE id == selecting.id
           new == Resumed(view[id])
<1>0. /\ selecting.at = "asked" /\ view' = [view EXCEPT ![id] = new] /\ selecting' = NotSelecting
      /\ UNCHANGED <<active, standIn, left, hostVars, queue, moves, unused, cycling, tabs, closing, late>>
  BY DEF SelectSwitches
<1>1. /\ view \in [Tabs -> Views] /\ bounds \in Rects /\ tabs \in Seq(Tabs)
      /\ id \in Range(tabs) /\ id = active
  BY <1>0 DEF IInv, TypeOK, UnderWay
<1>2. id \in Tabs
  BY <1>1 DEF Range
<1>3. /\ new \in Views /\ new.shown /\ ~new.suspended /\ new.kept = view[id].kept /\ new.repaint = view[id].repaint
      /\ view[id].rect = bounds => new.rect = bounds
      /\ ~view[id].suspended /\ view[id].rendered => new.rendered
  BY <1>1, <1>2, ResumedOf
<1> HIDE DEF new
<1>4. view' \in [Tabs -> Views] /\ view'[id] = new /\ \A t \in Tabs : t # id => view'[t] = view[t]
  BY <1>0, <1>1, <1>2, <1>3
<1>5. selecting' \in Selections /\ selecting'.at = "none"
  BY <1>0 DEF NotSelecting, Selections, Ids
<1>6. UNCHANGED <<bounds, host, resizes>>
  BY <1>0 DEF hostVars
<1>7. TypeOK'
  BY <1>0, <1>4, <1>5, <1>6 DEF IInv, TypeOK
<1>8. TabsOK'
  BY <1>0, <1>6 DEF IInv, TabsOK, Unborn
<1>9. UnderWay'
  BY <1>0, <1>5 DEF IInv, UnderWay
<1>10. ActiveOK'
  BY <1>0, <1>1, <1>3, <1>4 DEF IInv, ActiveOK
<1>11. StandInOK'
  BY <1>0, <1>3, <1>4, <1>6 DEF IInv, StandInOK, StandInHasItsFrame
<1>12. HiddenOK'
  BY <1>0, <1>3, <1>4 DEF IInv, HiddenOK
<1>13. StoredOK'
  BY <1>6 DEF IInv, StoredOK
<1>14. FirstOK'
  <2> SUFFICES ASSUME ~closing'.all, NEW t \in Range(tabs)' \ left' PROVE First(t)'
    BY DEF FirstOK
  <2>1. First(t) /\ t \in Tabs /\ ~closing.all
    BY <1>0, <1>1 DEF IInv, FirstOK, Range
  <2>2. CASE t = id
    <3>1. ~view[t].suspended
      BY <1>0, <1>1, <1>2, <2>1, <2>2, ZeroIsNoTab DEF IInv, ActiveOK
    <3> QED BY <1>0, <1>1, <1>3, <1>4, <1>5, <1>6, <2>1, <2>2, <3>1 DEF First, Sends
  <2>3. CASE t # id
    BY <1>0, <1>1, <1>4, <1>6, <2>1, <2>3 DEF First, Sends
  <2> QED BY <2>2, <2>3
<1> QED BY <1>7, <1>8, <1>9, <1>10, <1>11, <1>12, <1>13, <1>14 DEF IInv

LEMMA SelectedAnew ==
  ASSUME IInv, SelectSwitches, selecting.id # active
  PROVE  IInv'
<1> DEFINE id == selecting.id
           previous == IF active \in Range(tabs) THEN active ELSE 0
<1>0. /\ selecting.at = "asked" /\ active' = id /\ left' = left \cup ({previous} \ {0})
      /\ selecting' = [at |-> "switched", id |-> id, previous |-> previous]
      /\ UNCHANGED <<hostVars, queue, moves, unused, cycling, tabs, closing, late>>
      /\ IF previous = 0 THEN UNCHANGED <<view, standIn>> ELSE Captured(previous)
  BY DEF SelectSwitches
<1>1. /\ view \in [Tabs -> Views] /\ tabs \in Seq(Tabs) /\ standIn \in StandIns /\ left \subseteq Tabs
      /\ id \in Range(tabs) /\ id # closing.id
  BY <1>0 DEF IInv, TypeOK, UnderWay
<1>2. id \in Tabs /\ previous \in Ids /\ previous # id /\ (active \in Range(tabs) => previous = active)
  BY <1>1, ZeroIsNoTab DEF Range
<1>a. id \in Ids
  BY <1>2 DEF Ids
<1> HIDE DEF id, previous
<1>3. selecting' \in Selections /\ selecting'.at = "switched" /\ selecting'.id = id /\ selecting'.previous = previous
  BY <1>0, <1>2, <1>a DEF Selections
<1>4. /\ view' \in [Tabs -> Views]
      /\ \A t \in Tabs : /\ view'[t].rect = view[t].rect /\ view'[t].sized = view[t].sized
                         /\ view'[t].shown = view[t].shown /\ view'[t].suspended = view[t].suspended
                         /\ view'[t].repaint = view[t].repaint /\ view'[t].rendered = view[t].rendered
                         /\ view[t].kept => view'[t].kept
      /\ standIn' \in {standIn, NoStandIn}
  <2>1. CASE UNCHANGED <<view, standIn>>
    BY <1>1, <2>1
  <2>2. CASE /\ previous # 0
             /\ view' = [view EXCEPT ![previous].kept = TRUE]
             /\ standIn' = IF view[previous].kept /\ standIn.of = previous THEN NoStandIn ELSE standIn
    <3> DEFINE new == [view[previous] EXCEPT !.kept = TRUE]
    <3>1. previous \in Tabs
      BY <1>2, <2>2, ZeroIsNoTab
    <3>2. /\ new \in Views /\ new.kept
          /\ new.rect = view[previous].rect /\ new.sized = view[previous].sized
          /\ new.shown = view[previous].shown /\ new.suspended = view[previous].suspended
          /\ new.repaint = view[previous].repaint /\ new.rendered = view[previous].rendered
      BY <1>1, <3>1 DEF Views
    <3>3. view' = [view EXCEPT ![previous] = new]
      BY <2>2
    <3> HIDE DEF new
    <3>4. view' \in [Tabs -> Views] /\ view'[previous] = new /\ \A t \in Tabs : t # previous => view'[t] = view[t]
      BY <1>1, <3>1, <3>2, <3>3
    <3>5. standIn' \in {standIn, NoStandIn}
      BY <2>2
    <3> QED BY <3>2, <3>4, <3>5
  <2> QED BY <1>0, <2>1, <2>2 DEF Captured
<1>5. standIn' \in StandIns /\ (standIn'.of = 0 \/ standIn' = standIn) /\ (standIn'.up => standIn' = standIn)
  BY <1>1, <1>4, NoStandInIsStandIn
<1>6. UNCHANGED <<bounds, host, resizes>>
  BY <1>0 DEF hostVars
<1>7. left' \subseteq Tabs
  BY <1>0, <1>1, <1>2, ZeroIsNoTab
<1>8. TypeOK'
  BY <1>0, <1>3, <1>4, <1>5, <1>6, <1>7, <1>a DEF IInv, TypeOK
<1>9. TabsOK'
  BY <1>0, <1>1, <1>5, <1>6, ZeroIsNoTab DEF IInv, TabsOK, Unborn
<1>10. UnderWay'
  BY <1>0, <1>1, <1>2, <1>3 DEF IInv, UnderWay
<1>11. ActiveOK'
  BY <1>0, <1>1, <1>3 DEF ActiveOK
<1>12. StandInOK'
  BY <1>0, <1>4, <1>5, <1>6, ZeroIsNoTab DEF IInv, StandInOK, StandInHasItsFrame, UnderWay
<1>13. HiddenOK'
  BY <1>0, <1>4 DEF IInv, HiddenOK
<1>14. StoredOK'
  BY <1>6 DEF IInv, StoredOK
<1>15. FirstOK'
  <2> SUFFICES ASSUME ~closing'.all, NEW t \in Range(tabs)' \ left' PROVE First(t)'
    BY DEF FirstOK
  <2>1. First(t) /\ t \in Tabs /\ t \in Range(tabs)
    BY <1>0, <1>1 DEF IInv, FirstOK, Range
  <2>2. t # active
    BY <1>0, <1>2, <2>1, ZeroIsNoTab
  <2>3. ~Moving(moves, t) /\ host.child # t /\ view[t].sized = view[t].rect.size /\ view[t].repaint = "none"
    BY <2>1, <2>2 DEF First
  <2> QED BY <1>0, <1>3, <1>4, <1>6, <2>1, <2>3 DEF First
<1> QED BY <1>8, <1>9, <1>10, <1>11, <1>12, <1>13, <1>14, <1>15 DEF IInv

LEMMA SelectShowsKeeps ==
  ASSUME IInv, SelectShows
  PROVE  IInv'
<1> DEFINE id == selecting.id
           previous == selecting.previous
           of == IF view[id].kept THEN id ELSE 0
           woken == Resumed(view[id])
           shown == Asked(woken)
<1>0. /\ selecting.at = "switched" /\ standIn' = [up |-> TRUE, of |-> of, rect |-> bounds]
      /\ view' = [t \in Tabs |-> CASE t = id -> shown [] t = previous -> Suspended(view[t]) [] OTHER -> view[t]]
      /\ selecting' = NotSelecting
      /\ UNCHANGED <<hostVars, queue, moves, unused, cycling, tabs, active, closing, left, late>>
  BY DEF SelectShows
<1>1. /\ view \in [Tabs -> Views] /\ tabs \in Seq(Tabs) /\ bounds \in Rects
      /\ id \in Range(tabs) /\ id # closing.id /\ active = id /\ previous # id
  BY <1>0 DEF IInv, TypeOK, UnderWay
<1>2. id \in Tabs
  BY <1>1 DEF Range
<1>3. /\ woken \in Views /\ woken.shown /\ ~woken.suspended /\ woken.kept = view[id].kept
      /\ woken.repaint = view[id].repaint
      /\ view[id].sized = view[id].rect.size => woken.rect = bounds
  BY <1>1, <1>2, ResumedOf
<1> HIDE DEF woken
<1>4. /\ shown \in Views /\ shown.shown /\ ~shown.suspended /\ shown.kept = view[id].kept
      /\ view[id].repaint = "none" => shown.repaint = "asked"
      /\ view[id].sized = view[id].rect.size => shown.rect = bounds
  BY <1>3, AskedOf
<1> HIDE DEF shown
<1>5. ASSUME NEW t \in Tabs, t # id
      PROVE  /\ view'[t] \in Views /\ view'[t].rect = view[t].rect /\ view'[t].sized = view[t].sized
             /\ view'[t].repaint = view[t].repaint /\ view'[t].rendered = view[t].rendered
             /\ view'[t].kept = view[t].kept
             /\ view'[t].suspended /\ view'[t].shown => view[t].suspended /\ view[t].shown
             /\ ~view'[t].suspended => ~view[t].suspended /\ view'[t].shown = view[t].shown
  <2>1. CASE t = previous
    <3>1. view'[t] = Suspended(view[t])
      BY <1>0, <1>5, <2>1
    <3> QED BY <1>1, <3>1, SuspendedOf
  <2>2. CASE t # previous
    <3>1. view'[t] = view[t]
      BY <1>0, <1>5, <2>2
    <3> QED BY <1>1, <3>1
  <2> QED BY <2>1, <2>2
<1>6. view'[id] = shown
  BY <1>0, <1>1, <1>2
<1>7. view' \in [Tabs -> Views]
  <2> DEFINE now(t) == CASE t = id -> shown [] t = previous -> Suspended(view[t]) [] OTHER -> view[t]
  <2>1. view' = [t \in Tabs |-> now(t)]
    BY <1>0
  <2>2. \A t \in Tabs : now(t) = view'[t]
    BY <2>1
  <2> HIDE DEF now
  <2>3. \A t \in Tabs : now(t) \in Views
    BY <1>4, <1>5, <1>6, <2>2
  <2> QED BY <2>1, <2>3
<1>8. of \in Ids /\ (of # 0 => of = id /\ view[id].kept)
  BY <1>2 DEF Ids
<1>a. 0 # closing.id \/ closing.at # "released"
  BY ZeroIsNoTab DEF IInv, UnderWay
<1> HIDE DEF of, id, previous
<1>9. standIn' \in StandIns /\ standIn'.up /\ standIn'.of = of /\ standIn'.rect = bounds
  BY <1>0, <1>1, <1>8 DEF StandIns
<1>10. selecting' \in Selections /\ selecting'.at = "none"
  BY <1>0 DEF NotSelecting, Selections, Ids
<1>11. UNCHANGED <<bounds, host, resizes>>
  BY <1>0 DEF hostVars
<1>12. TypeOK'
  BY <1>0, <1>7, <1>9, <1>10, <1>11 DEF IInv, TypeOK
<1>13. TabsOK'
  BY <1>0, <1>1, <1>8, <1>9, <1>11, ZeroIsNoTab DEF IInv, TabsOK, Unborn
<1>14. UnderWay'
  BY <1>0, <1>10 DEF IInv, UnderWay
<1>15. ActiveOK'
  BY <1>0, <1>1, <1>4, <1>6 DEF ActiveOK
<1>16. StandInOK'
  BY <1>0, <1>1, <1>2, <1>4, <1>6, <1>8, <1>9, <1>11, <1>a DEF StandInOK, StandInHasItsFrame
<1>17. HiddenOK'
  <2> SUFFICES ASSUME NEW t \in Tabs
               PROVE  (view'[t].suspended /\ view'[t].shown => t \in late) /\ (~view'[t].suspended => view'[t].shown)
    BY <1>0 DEF HiddenOK
  <2>1. (view[t].suspended /\ view[t].shown => t \in late) /\ (~view[t].suspended => view[t].shown)
    BY DEF IInv, HiddenOK
  <2> QED BY <1>4, <1>5, <1>6, <2>1
<1>18. StoredOK'
  BY <1>11 DEF IInv, StoredOK
<1>19. FirstOK'
  <2> SUFFICES ASSUME ~closing'.all, NEW t \in Range(tabs)' \ left' PROVE First(t)'
    BY DEF FirstOK
  <2>1. First(t) /\ t \in Tabs
    BY <1>0, <1>1 DEF IInv, FirstOK, Range
  <2>2. CASE t = id
    BY <1>0, <1>1, <1>4, <1>6, <1>10, <1>11, <2>1, <2>2 DEF First, Sends
  <2>3. CASE t # id
    BY <1>0, <1>1, <1>5, <1>10, <1>11, <2>1, <2>3 DEF First, Sends
  <2> QED BY <2>2, <2>3
<1> QED BY <1>12, <1>13, <1>14, <1>15, <1>16, <1>17, <1>18, <1>19 DEF IInv

-----------------------------------------------------------------------------
(* The WebKit thread: the commands.                                        *)

\* A new tab, from a command or from a page: nothing is about it yet.
LEMMA CreateTabKeeps ==
  ASSUME IInv, NEW id \in Tabs, NEW foreground, CreateTab(id, foreground), Unborn(id), selecting = NotSelecting,
         UNCHANGED <<hostVars, moves, left, late>>, cycling' \in BOOLEAN, unused' \subseteq unused, id \notin unused',
         queue' \in Seq(Commands), Apart(queue'), ~Waiting(queue', id),
         \A t : Waiting(queue', t) => Waiting(queue, t), Applying(queue) => Applying(queue')
  PROVE  IInv'
<1> DEFINE new == NewView
<1>0. /\ tabs' = Append(tabs, id) /\ view' = [view EXCEPT ![id] = new]
      /\ selecting' = (IF foreground \/ active = 0 THEN Selecting(id) ELSE NotSelecting)
      /\ UNCHANGED <<active, closing, standIn, bounds, host, resizes, moves, left, late>>
  BY DEF CreateTab, hostVars
<1>1. /\ view \in [Tabs -> Views] /\ tabs \in Seq(Tabs) /\ bounds \in Rects /\ Distinct(tabs) /\ unused \subseteq Tabs
  BY DEF IInv, TypeOK, TabsOK
<1>2. /\ id \notin Range(tabs) /\ id # closing.id /\ id # active /\ id # host.child
      /\ ~Moving(moves, id) /\ id # standIn.of
  BY DEF IInv, TabsOK
<1>3. /\ new \in Views /\ new.suspended /\ ~new.shown /\ ~new.kept /\ new.repaint = "none"
      /\ new.rect = bounds /\ new.sized = bounds.size
  <2> DEFINE size == bounds.size
  <2>1. size \in Bounds
    BY <1>1 DEF Rects
  <2>2. new = [NoView EXCEPT !.rect = bounds, !.sized = size]
    BY DEF NewView
  <2> HIDE DEF size, new
  <2>3. new \in Views
    BY <1>1, <2>1, <2>2, NoViewIsView DEF Views
  <2>4. /\ new.rect = bounds /\ new.sized = size /\ new.suspended = NoView.suspended /\ new.shown = NoView.shown
        /\ new.kept = NoView.kept /\ new.repaint = NoView.repaint
    BY <2>2, NoViewIsView DEF Views
  <2> QED BY <2>3, <2>4, NoViewIsView DEF size
<1> HIDE DEF new
<1>4. view' \in [Tabs -> Views] /\ view'[id] = new /\ \A t \in Tabs : t # id => view'[t] = view[t]
  BY <1>0, <1>1, <1>3
<1>5. tabs' \in Seq(Tabs) /\ Distinct(tabs') /\ Range(tabs') = Range(tabs) \cup {id}
  BY <1>0, <1>1, <1>2, AppendTab
<1>6. /\ selecting' \in Selections /\ selecting'.at \in {"none", "asked"}
      /\ selecting'.at = "none" => selecting' = NotSelecting
      /\ selecting'.at # "none" => selecting'.id = id
  BY <1>0 DEF Selecting, NotSelecting, Selections, Ids
<1>7. selecting.at = "none"
  BY DEF NotSelecting
<1>8. TypeOK'
  BY <1>0, <1>1, <1>4, <1>5, <1>6 DEF IInv, TypeOK
<1>9. TabsOK'
  <2>1. \A t \in Ids : Waiting(queue', t) => t \in Tabs \ unused'
    BY DEF IInv, TabsOK
  <2>2. \A t \in Tabs : Unborn(t)' => Unborn(t) /\ t # id
    BY DEF Unborn
  <2> QED BY <1>0, <1>5, <2>1, <2>2 DEF IInv, TabsOK
<1>10. UnderWay'
  BY <1>0, <1>2, <1>5, <1>6 DEF IInv, UnderWay
<1>11. ActiveOK'
  <2>1. ASSUME ~closing'.all, active' # 0 PROVE active' \in Range(tabs)' /\ ~view'[active'].suspended
    <3>1. active \in Range(tabs) /\ ~view[active].suspended
      BY <1>0, <1>7, <2>1 DEF IInv, ActiveOK
    <3>2. active \in Tabs /\ active # id
      BY <1>1, <1>2, <3>1 DEF Range
    <3> QED BY <1>0, <1>4, <1>5, <3>1, <3>2
  <2> QED BY <2>1 DEF ActiveOK
<1>12. StandInOK'
  BY <1>0, <1>2, <1>4 DEF IInv, StandInOK, StandInHasItsFrame
<1>13. HiddenOK'
  BY <1>0, <1>3, <1>4 DEF IInv, HiddenOK
<1>14. StoredOK'
  BY <1>0 DEF IInv, StoredOK
<1>15. FirstOK'
  <2> SUFFICES ASSUME ~closing'.all, NEW t \in Range(tabs)' \ left' PROVE First(t)'
    BY DEF FirstOK
  <2>1. CASE t = id
    BY <1>0, <1>2, <1>3, <1>4, <2>1 DEF First
  <2>2. CASE t # id
    <3>1. First(t) /\ t \in Tabs
      BY <1>0, <1>1, <1>5, <2>2 DEF IInv, FirstOK, Range
    <3> QED BY <1>0, <1>4, <1>6, <1>7, <2>2, <3>1 DEF First, Sends
  <2> QED BY <2>1, <2>2
<1> QED BY <1>8, <1>9, <1>10, <1>11, <1>12, <1>13, <1>14, <1>15 DEF IInv

LEMMA RunOpenKeeps ==
  ASSUME IInv, RunOpen
  PROVE  IInv'
<1>1. PICK kind \in {"Open", "OpenBehind"} :
        Take(kind) /\ CreateTab(Head(queue).id, kind = "Open") /\ UNCHANGED unused
  BY DEF RunOpen
<1> DEFINE id == Head(queue).id
           foreground == kind = "Open"
<1>2. /\ AtRest /\ UNCHANGED <<hostVars, moves, cycling, left, late>>
      /\ queue' \in Seq(Commands) /\ Apart(queue') /\ Head(queue) \in Commands /\ Opens(Head(queue))
      /\ \A t : Waiting(queue', t) => Waiting(queue, t)
      /\ Waiting(queue, id) /\ ~Waiting(queue', id)
      /\ Applying(queue) => Applying(queue')
  BY <1>1, TakeWaits DEF Opens
<1>3. id \in Ids
  BY <1>2 DEF Commands
<1>4. CreateTab(id, foreground)
  BY <1>1
<1> HIDE DEF id, foreground
<1>5. id \in Tabs /\ id \notin unused /\ Unborn(id)
  BY <1>2, <1>3 DEF IInv, TabsOK, Unborn
<1>6. cycling' \in BOOLEAN /\ unused' \subseteq unused /\ id \notin unused' /\ selecting = NotSelecting
  BY <1>1, <1>2, <1>5 DEF IInv, TypeOK, AtRest
<1> QED BY <1>2, <1>4, <1>5, <1>6, CreateTabKeeps

\* What a command finds, and what it leaves of the queue.
LEMMA CommandBegins ==
  ASSUME IInv, NEW kind, Take(kind), UNCHANGED <<unused, tabs>>
  PROVE  /\ selecting = NotSelecting /\ selecting.at = "none" /\ closing = NotClosing
         /\ closing.at = "none" /\ ~closing.all /\ closing.id = 0
         /\ UNCHANGED <<bounds, host, resizes, moves, cycling, left, late>>
         /\ queue' \in Seq(Commands) /\ Distinct(tabs) /\ Apart(queue')
         /\ \A t \in Ids : Waiting(queue', t) => t \in Tabs \ unused
         /\ \A t \in Tabs : Unborn(t)' => Unborn(t)
         /\ kind # "ApplyBounds" /\ Applying(queue) => Applying(queue')
         /\ Head(queue) \in Commands /\ Head(queue).id \in Ids
<1>1. /\ AtRest /\ UNCHANGED <<hostVars, moves, cycling, left, late>>
      /\ queue' \in Seq(Commands) /\ Apart(queue') /\ Head(queue) \in Commands
      /\ \A t : Waiting(queue', t) => Waiting(queue, t)
      /\ kind # "ApplyBounds" /\ Applying(queue) => Applying(queue')
  BY TakeWaits
<1>2. selecting = NotSelecting /\ selecting.at = "none" /\ closing = NotClosing
  BY <1>1 DEF AtRest, NotSelecting
<1>3. closing.at = "none" /\ ~closing.all /\ closing.id = 0
  BY <1>2 DEF NotClosing
<1>4. UNCHANGED <<bounds, host, resizes>>
  BY <1>1 DEF hostVars
<1>5. Distinct(tabs) /\ \A t \in Ids : Waiting(queue', t) => t \in Tabs \ unused
  BY <1>1 DEF IInv, TabsOK
<1>6. \A t \in Tabs : Unborn(t)' => Unborn(t)
  BY <1>1 DEF Unborn
<1>7. Head(queue).id \in Ids
  BY <1>1 DEF Commands
<1> QED BY <1>1, <1>2, <1>3, <1>4, <1>5, <1>6, <1>7

LEMMA RunSelectKeeps ==
  ASSUME IInv, RunSelect
  PROVE  IInv'
<1> DEFINE id == Head(queue).id
<1>0. /\ Take("Select") /\ selecting' = (IF id \in Range(tabs) THEN Selecting(id) ELSE NotSelecting)
      /\ UNCHANGED <<unused, tabs, active, closing, view, standIn>>
  BY DEF RunSelect
<1>1. /\ selecting.at = "none" /\ closing.at = "none" /\ closing.id = 0
      /\ UNCHANGED <<bounds, host, resizes, moves, cycling, left, late>>
      /\ queue' \in Seq(Commands) /\ Apart(queue')
      /\ \A t \in Ids : Waiting(queue', t) => t \in Tabs \ unused
      /\ \A t \in Tabs : Unborn(t)' => Unborn(t)
      /\ Applying(queue) => Applying(queue')
      /\ id \in Ids
  BY <1>0, CommandBegins
<1>2. tabs \in Seq(Tabs) /\ (id \in Range(tabs) => id \in Tabs /\ id # 0)
  BY ZeroIsNoTab DEF IInv, TypeOK, Range
<1> HIDE DEF id
<1>3. /\ selecting' \in Selections /\ selecting'.at \in {"none", "asked"}
      /\ selecting'.at = "none" => selecting' = NotSelecting
      /\ selecting'.at # "none" => selecting'.id = id /\ id \in Range(tabs)
  BY <1>0, <1>1 DEF Selecting, NotSelecting, Selections, Ids
<1>4. TypeOK'
  BY <1>0, <1>1, <1>3 DEF IInv, TypeOK
<1>5. TabsOK'
  BY <1>0, <1>1 DEF IInv, TabsOK
<1>6. UnderWay'
  BY <1>0, <1>1, <1>2, <1>3 DEF IInv, UnderWay
<1>7. ActiveOK'
  BY <1>0, <1>1 DEF IInv, ActiveOK
<1>8. StandInOK'
  BY <1>0, <1>1 DEF IInv, StandInOK, StandInHasItsFrame
<1>9. HiddenOK' /\ StoredOK'
  BY <1>0, <1>1 DEF IInv, HiddenOK, StoredOK
<1>10. FirstOK'
  BY <1>0, <1>1, <1>3 DEF IInv, FirstOK, First, Sends
<1> QED BY <1>4, <1>5, <1>6, <1>7, <1>8, <1>9, <1>10 DEF IInv

LEMMA RunApplyBoundsKeeps ==
  ASSUME IInv, RunApplyBounds
  PROVE  IInv'
<1> DEFINE size == bounds.size
           noted == [view[active] EXCEPT !.sized = size]
           new == Asked(noted)
<1>0. /\ Take("ApplyBounds") /\ view' = (IF active = 0 THEN view ELSE [view EXCEPT ![active] = new])
      /\ standIn' = (IF standIn.up THEN [standIn EXCEPT !.rect = bounds] ELSE standIn)
      /\ UNCHANGED <<unused, tabs, active, selecting, closing>>
  BY DEF RunApplyBounds, StandInFollows
<1>1. /\ selecting.at = "none" /\ closing.at = "none" /\ ~closing.all
      /\ UNCHANGED <<bounds, host, resizes, moves, cycling, left, late>>
      /\ queue' \in Seq(Commands) /\ Apart(queue')
      /\ \A t \in Ids : Waiting(queue', t) => t \in Tabs \ unused
      /\ \A t \in Tabs : Unborn(t)' => Unborn(t)
  BY <1>0, CommandBegins
<1>2. /\ view \in [Tabs -> Views] /\ bounds \in Rects /\ tabs \in Seq(Tabs) /\ standIn \in StandIns
      /\ size \in Bounds
  BY DEF IInv, TypeOK, Rects
<1>3. active # 0 => active \in Tabs /\ ~view[active].suspended
  BY <1>1, <1>2 DEF IInv, ActiveOK, Range
<1> HIDE DEF size
<1>4. ASSUME active # 0
      PROVE  /\ new \in Views /\ new.shown = view[active].shown /\ new.suspended = view[active].suspended
             /\ new.kept = view[active].kept /\ new.rect = view[active].rect /\ new.rendered = view[active].rendered
             /\ new.repaint = "answered" => view[active].repaint = "answered"
  <2>1. noted \in Views
    BY <1>2, <1>3, <1>4 DEF Views
  <2>2. /\ noted.shown = view[active].shown /\ noted.suspended = view[active].suspended
        /\ noted.kept = view[active].kept /\ noted.rect = view[active].rect
        /\ noted.rendered = view[active].rendered /\ noted.repaint = view[active].repaint
    BY <1>2, <1>3, <1>4 DEF Views
  <2> HIDE DEF noted
  <2> QED BY <2>1, <2>2, AskedOf
<1> HIDE DEF new
<1>5. /\ view' \in [Tabs -> Views]
      /\ \A t \in Tabs : t # active => view'[t] = view[t]
      /\ active # 0 => view'[active] = new
  BY <1>0, <1>2, <1>3, <1>4
<1>6. standIn' \in StandIns /\ standIn'.of = standIn.of /\ standIn'.up = standIn.up /\ (standIn'.up => standIn'.rect = bounds)
  BY <1>0, <1>2 DEF StandIns
<1>7. TypeOK'
  BY <1>0, <1>1, <1>5, <1>6 DEF IInv, TypeOK
<1>8. TabsOK'
  BY <1>0, <1>1, <1>6 DEF IInv, TabsOK
<1>9. UnderWay'
  BY <1>0 DEF IInv, UnderWay
<1>10. ActiveOK'
  BY <1>0, <1>1, <1>4, <1>5 DEF IInv, ActiveOK
<1>a. \A t \in Tabs : /\ view'[t].kept = view[t].kept /\ view'[t].shown = view[t].shown
                      /\ view'[t].suspended = view[t].suspended /\ view'[t].rect = view[t].rect
                      /\ view'[t].rendered = view[t].rendered
                      /\ view'[t].repaint = "answered" => view[t].repaint = "answered"
  BY <1>4, <1>5, ZeroIsNoTab
<1>11. StandInOK'
  BY <1>0, <1>1, <1>6, <1>a DEF IInv, StandInOK, StandInHasItsFrame
<1>12. HiddenOK' /\ StoredOK'
  BY <1>1, <1>a DEF IInv, HiddenOK, StoredOK
<1>13. FirstOK'
  <2> SUFFICES ASSUME ~closing'.all, NEW t \in Range(tabs)' \ left' PROVE First(t)'
    BY DEF FirstOK
  <2>1. First(t) /\ t \in Tabs
    BY <1>0, <1>1, <1>2 DEF IInv, FirstOK, Range
  <2> QED BY <1>0, <1>1, <1>5, <1>a, <2>1 DEF First, Sends
<1> QED BY <1>7, <1>8, <1>9, <1>10, <1>11, <1>12, <1>13 DEF IInv

\* Every tab is given to the new window, hidden, and the selected one shown.
LEMMA RunReparentKeeps ==
  ASSUME IInv, RunReparent
  PROVE  IInv'
<1> DEFINE now(t) == CASE t \notin Range(tabs) -> view[t] [] t = active -> Resumed(view[t]) [] OTHER -> Suspended(view[t])
<1>0. /\ Take("Reparent") /\ standIn' = NoStandIn /\ view' = [t \in Tabs |-> now(t)]
      /\ UNCHANGED <<unused, tabs, active, selecting, closing>>
  BY DEF RunReparent
<1>1. /\ selecting.at = "none" /\ closing.at = "none" /\ ~closing.all
      /\ UNCHANGED <<bounds, host, resizes, moves, cycling, left, late>>
      /\ queue' \in Seq(Commands) /\ Apart(queue')
      /\ \A t \in Ids : Waiting(queue', t) => t \in Tabs \ unused
      /\ \A t \in Tabs : Unborn(t)' => Unborn(t)
  BY <1>0, CommandBegins
<1>2. /\ view \in [Tabs -> Views] /\ bounds \in Rects /\ tabs \in Seq(Tabs)
      /\ standIn' \in StandIns /\ ~standIn'.up /\ standIn'.of = 0
  BY <1>0, NoStandInIsStandIn DEF IInv, TypeOK
<1>3. ASSUME NEW t \in Tabs
      PROVE  /\ view'[t] = now(t) /\ now(t) \in Views /\ view'[t].repaint = view[t].repaint
             /\ t # active => view'[t].rect = view[t].rect /\ view'[t].sized = view[t].sized
                              /\ view'[t].rendered = view[t].rendered
             /\ t = active /\ t \in Range(tabs) =>
                  /\ ~view'[t].suspended
                  /\ view[t].rect = bounds => view'[t].rect = bounds
                  /\ ~view[t].suspended /\ view[t].rendered => view'[t].rendered
             /\ view'[t].suspended /\ view'[t].shown => view[t].suspended /\ view[t].shown
             /\ ~view'[t].suspended => view'[t].shown \/ view'[t] = view[t]
  <2>0. view'[t] = now(t)
    BY <1>0
  <2>1. CASE t \notin Range(tabs)
    <3>1. t # active
      BY <1>1, <2>1, ZeroIsNoTab DEF IInv, ActiveOK
    <3>2. now(t) = view[t]
      BY <2>1, <3>1
    <3> HIDE DEF now
    <3> QED BY <1>2, <2>0, <2>1, <3>2
  <2>2. CASE t \in Range(tabs) /\ t = active
    BY <1>2, <2>0, <2>2, ResumedOf
  <2>3. CASE t \in Range(tabs) /\ t # active
    BY <1>2, <2>0, <2>3, SuspendedOf
  <2> QED BY <2>1, <2>2, <2>3
<1>4. view' \in [Tabs -> Views]
  <2>1. \A t \in Tabs : now(t) \in Views
    BY <1>3
  <2> HIDE DEF now
  <2> QED BY <1>0, <2>1
<1> HIDE DEF now
<1>5. TypeOK'
  BY <1>0, <1>1, <1>2, <1>4 DEF IInv, TypeOK
<1>6. TabsOK'
  BY <1>0, <1>1, <1>2, ZeroIsNoTab DEF IInv, TabsOK
<1>7. UnderWay'
  BY <1>0 DEF IInv, UnderWay
<1>8. ActiveOK'
  <2>1. active # 0 => active \in Range(tabs) /\ active \in Tabs
    BY <1>1, <1>2 DEF IInv, ActiveOK, Range
  <2> QED BY <1>0, <1>3, <2>1 DEF ActiveOK
<1>9. StandInOK'
  BY <1>0, <1>1, <1>2 DEF StandInOK, StandInHasItsFrame
<1>10. HiddenOK'
  BY <1>1, <1>3 DEF IInv, HiddenOK
<1>11. StoredOK'
  BY <1>1 DEF IInv, StoredOK
<1>12. FirstOK'
  <2> SUFFICES ASSUME ~closing'.all, NEW t \in Range(tabs)' \ left' PROVE First(t)'
    BY DEF FirstOK
  <2>1. First(t) /\ t \in Tabs /\ t \in Range(tabs)
    BY <1>0, <1>1, <1>2 DEF IInv, FirstOK, Range
  <2>2. t = active => ~view[t].suspended
    BY <1>1, <2>1, ZeroIsNoTab DEF IInv, ActiveOK
  <2>3. view'[t].repaint = view[t].repaint
    BY <1>3, <2>1
  <2>4. CASE t = active
    <3>1. (view[t].rect = bounds => view'[t].rect = bounds) /\ (view[t].rendered => view'[t].rendered)
      BY <1>3, <2>1, <2>2, <2>4
    <3> QED BY <1>0, <1>1, <2>1, <2>3, <2>4, <3>1 DEF First, Sends
  <2>5. CASE t # active
    BY <1>0, <1>1, <1>3, <2>1, <2>3, <2>5 DEF First
  <2> QED BY <2>4, <2>5
<1> QED BY <1>5, <1>6, <1>7, <1>8, <1>9, <1>10, <1>11, <1>12 DEF IInv

LEMMA RunCloseKeeps ==
  ASSUME IInv, RunClose
  PROVE  IInv'
<1> DEFINE id == Head(queue).id
           was == active = id
           no == FALSE
           new == [at |-> "told", all |-> no, id |-> id, wasActive |-> was]
<1>0. /\ Take("Close") /\ closing' = (IF id \in Range(tabs) THEN new ELSE NotClosing)
      /\ UNCHANGED <<unused, tabs, active, selecting, view, standIn>>
  BY DEF RunClose
<1>1. /\ selecting.at = "none" /\ selecting = NotSelecting /\ closing = NotClosing /\ closing.at = "none" /\ ~closing.all
      /\ UNCHANGED <<bounds, host, resizes, moves, cycling, left, late>>
      /\ queue' \in Seq(Commands) /\ Apart(queue')
      /\ \A t \in Ids : Waiting(queue', t) => t \in Tabs \ unused
      /\ \A t \in Tabs : Unborn(t)' => Unborn(t)
      /\ Applying(queue) => Applying(queue')
      /\ id \in Ids
  BY <1>0, CommandBegins
<1>2. tabs \in Seq(Tabs) /\ (id \in Range(tabs) => id \in Tabs /\ id # 0) /\ was \in BOOLEAN /\ (~was => active # id)
  BY ZeroIsNoTab DEF IInv, TypeOK, Range
<1>3. no \in BOOLEAN /\ ~no
  OBVIOUS
<1> HIDE DEF id, was, no
<1>4. new \in Closings /\ new.at = "told" /\ ~new.all /\ new.id = id /\ new.wasActive = was
  BY <1>1, <1>2, <1>3 DEF Closings
<1> HIDE DEF new
<1>5. CASE id \notin Range(tabs)
  <2>1. closing' = closing
    BY <1>0, <1>1, <1>5
  <2>2. TypeOK' /\ TabsOK' /\ UnderWay' /\ ActiveOK'
    BY <1>0, <1>1, <2>1 DEF IInv, TypeOK, TabsOK, UnderWay, ActiveOK
  <2>3. StandInOK' /\ HiddenOK' /\ StoredOK'
    BY <1>0, <1>1, <2>1 DEF IInv, StandInOK, StandInHasItsFrame, HiddenOK, StoredOK
  <2>4. FirstOK'
    BY <1>0, <1>1, <2>1 DEF IInv, FirstOK, First, Sends
  <2> QED BY <2>2, <2>3, <2>4 DEF IInv
<1>6. CASE id \in Range(tabs)
  <2>1. closing' = new
    BY <1>0, <1>6
  <2>2. TypeOK'
    BY <1>0, <1>1, <1>4, <2>1 DEF IInv, TypeOK
  <2>3. TabsOK'
    BY <1>0, <1>1, <1>4, <1>6, <2>1 DEF IInv, TabsOK
  <2>4. UnderWay'
    BY <1>0, <1>1, <1>2, <1>4, <1>6, <2>1 DEF UnderWay
  <2>5. ActiveOK'
    BY <1>0, <1>1, <1>4, <2>1 DEF IInv, ActiveOK
  <2>6. StandInOK' /\ HiddenOK' /\ StoredOK'
    BY <1>0, <1>1, <1>4, <2>1 DEF IInv, StandInOK, StandInHasItsFrame, HiddenOK, StoredOK
  <2>7. FirstOK'
    BY <1>0, <1>1 DEF IInv, FirstOK, First, Sends
  <2> QED BY <2>2, <2>3, <2>4, <2>5, <2>6, <2>7 DEF IInv
<1> QED BY <1>5, <1>6

LEMMA RunCloseAllKeeps ==
  ASSUME IInv, RunCloseAll
  PROVE  IInv'
<1>0. /\ Take("CloseAll") /\ UNCHANGED <<unused, tabs, selecting, view>>
      /\ IF tabs = <<>> THEN UNCHANGED <<active, standIn, closing>>
         ELSE /\ active' = 0 /\ standIn' = NoStandIn
              /\ closing' = [NotClosing EXCEPT !.at = "between", !.all = TRUE]
  BY DEF RunCloseAll
<1>1. /\ selecting = NotSelecting /\ closing = NotClosing /\ closing.at = "none" /\ ~closing.all
      /\ UNCHANGED <<bounds, host, resizes, moves, cycling, left, late>>
      /\ queue' \in Seq(Commands) /\ Apart(queue')
      /\ \A t \in Ids : Waiting(queue', t) => t \in Tabs \ unused
      /\ \A t \in Tabs : Unborn(t)' => Unborn(t)
      /\ Applying(queue) => Applying(queue')
  BY <1>0, CommandBegins
<1>2. CASE tabs = <<>>
  <2>1. UNCHANGED <<active, standIn, closing>>
    BY <1>0, <1>2
  <2>2. TypeOK' /\ TabsOK' /\ UnderWay' /\ ActiveOK'
    BY <1>0, <1>1, <2>1 DEF IInv, TypeOK, TabsOK, UnderWay, ActiveOK
  <2>3. StandInOK' /\ HiddenOK' /\ StoredOK'
    BY <1>0, <1>1, <2>1 DEF IInv, StandInOK, StandInHasItsFrame, HiddenOK, StoredOK
  <2>4. FirstOK'
    BY <1>0, <1>1, <2>1 DEF IInv, FirstOK, First, Sends
  <2> QED BY <2>2, <2>3, <2>4 DEF IInv
<1>3. CASE tabs # <<>>
  <2>1. active' = 0 /\ standIn' = NoStandIn /\ closing' = [NotClosing EXCEPT !.at = "between", !.all = TRUE]
    BY <1>0, <1>3
  <2>2. active' \in Ids /\ standIn' \in StandIns /\ ~standIn'.up /\ standIn'.of = 0
    BY <2>1, NoStandInIsStandIn DEF Ids
  <2>3. NotClosing \in Closings /\ NotClosing.id = 0
    BY DEF NotClosing, Closings, Ids
  <2>4. closing' \in Closings /\ closing'.at = "between" /\ closing'.all /\ closing'.id = 0
    BY <2>1, <2>3 DEF Closings
  <2>5. TypeOK'
    BY <1>0, <1>1, <2>2, <2>4 DEF IInv, TypeOK
  <2>6. TabsOK'
    BY <1>0, <1>1, <2>1, <2>2, <2>4, ZeroIsNoTab DEF IInv, TabsOK
  <2>7. UnderWay'
    BY <1>0, <1>1, <2>4 DEF UnderWay, NotSelecting
  <2>8. ActiveOK' /\ FirstOK'
    BY <2>4 DEF ActiveOK, FirstOK
  <2>9. StandInOK' /\ HiddenOK' /\ StoredOK'
    BY <1>0, <1>1, <2>2, <2>4 DEF IInv, StandInOK, StandInHasItsFrame, HiddenOK, StoredOK
  <2> QED BY <2>5, <2>6, <2>7, <2>8, <2>9 DEF IInv
<1> QED BY <1>2, <1>3

LEMMA CloseNextKeeps ==
  ASSUME IInv, CloseNext
  PROVE  IInv'
<1> DEFINE id == Last(tabs)
<1>0. /\ closing.at = "between" /\ selecting = NotSelecting /\ tabs # <<>>
      /\ closing' = [closing EXCEPT !.at = "told", !.id = id] /\ tabs' = Front(tabs)
      /\ UNCHANGED <<hostVars, queue, moves, unused, cycling, active, selecting, view, standIn, left, late>>
  BY DEF CloseNext
<1>1. tabs \in Seq(Tabs) /\ Distinct(tabs) /\ closing \in Closings /\ closing.all
  BY <1>0 DEF IInv, TypeOK, TabsOK, UnderWay
<1>2. tabs' \in Seq(Tabs) /\ Distinct(tabs') /\ Range(tabs') \subseteq Range(tabs) /\ id \in Range(tabs) /\ id \in Tabs
  BY <1>0, <1>1, FrontOfTabs
<1>3. id \in Ids /\ id # 0
  BY <1>2, ZeroIsNoTab
<1> HIDE DEF id
<1>4. closing' \in Closings /\ closing'.at = "told" /\ closing'.all /\ closing'.id = id
  BY <1>0, <1>1, <1>3 DEF Closings
<1>5. UNCHANGED <<bounds, host, resizes>>
  BY <1>0 DEF hostVars
<1>6. TypeOK'
  BY <1>0, <1>2, <1>4, <1>5 DEF IInv, TypeOK
<1>7. TabsOK'
  BY <1>0, <1>2, <1>4, <1>5 DEF IInv, TabsOK, Unborn
<1>8. UnderWay'
  BY <1>0, <1>2, <1>4 DEF UnderWay, NotSelecting
<1>9. ActiveOK' /\ FirstOK'
  BY <1>4 DEF ActiveOK, FirstOK
<1>10. StandInOK' /\ HiddenOK' /\ StoredOK'
  BY <1>0, <1>4, <1>5 DEF IInv, StandInOK, StandInHasItsFrame, HiddenOK, StoredOK
<1> QED BY <1>6, <1>7, <1>8, <1>9, <1>10 DEF IInv

LEMMA ReleaseFrameKeeps ==
  ASSUME IInv, ReleaseFrame
  PROVE  IInv'
<1> DEFINE id == closing.id
           new == [view[id] EXCEPT !.kept = FALSE]
<1>0. /\ closing.at = "told" /\ closing' = [closing EXCEPT !.at = "released"]
      /\ view' = [view EXCEPT ![id] = new]
      /\ standIn' = (IF view[id].kept /\ standIn.of = id THEN NoStandIn ELSE standIn)
      /\ UNCHANGED <<hostVars, queue, moves, unused, cycling, tabs, active, selecting, left, late>>
  BY DEF ReleaseFrame, Released
<1>1. view \in [Tabs -> Views] /\ closing \in Closings /\ id \in Tabs /\ tabs \in Seq(Tabs) /\ standIn \in StandIns
  BY <1>0 DEF IInv, TypeOK, UnderWay
<1>2. /\ new \in Views /\ ~new.kept /\ new.rect = view[id].rect /\ new.sized = view[id].sized
      /\ new.shown = view[id].shown /\ new.suspended = view[id].suspended
      /\ new.repaint = view[id].repaint /\ new.rendered = view[id].rendered
  BY ZenonT(40), <1>1 DEF Views
<1> HIDE DEF new
<1>3. view' \in [Tabs -> Views] /\ view'[id] = new /\ \A t \in Tabs : t # id => view'[t] = view[t]
  BY <1>0, <1>1, <1>2
<1>4. \A t \in Tabs : /\ view'[t].rect = view[t].rect /\ view'[t].sized = view[t].sized
                      /\ view'[t].shown = view[t].shown /\ view'[t].suspended = view[t].suspended
                      /\ view'[t].repaint = view[t].repaint /\ view'[t].rendered = view[t].rendered
  BY <1>2, <1>3
<1>5. /\ standIn' \in StandIns /\ standIn'.of # id /\ (standIn'.of # 0 \/ standIn'.up => standIn' = standIn)
      /\ standIn'.of \in {0, standIn.of}
  <2>1. standIn.of = id => view[id].kept
    BY <1>1, ZeroIsNoTab DEF IInv, StandInOK, StandInHasItsFrame
  <2> QED BY <1>0, <1>1, <2>1, NoStandInIsStandIn, ZeroIsNoTab
<1>6. closing' \in Closings /\ closing'.at = "released" /\ closing'.id = id
      /\ closing'.all = closing.all /\ closing'.wasActive = closing.wasActive
  BY <1>0, <1>1 DEF Closings
<1> HIDE DEF id
<1>7. UNCHANGED <<bounds, host, resizes>>
  BY <1>0 DEF hostVars
<1>8. TypeOK'
  BY <1>0, <1>3, <1>5, <1>6, <1>7 DEF IInv, TypeOK
<1>9. TabsOK'
  BY <1>0, <1>5, <1>6, <1>7, ZeroIsNoTab DEF IInv, TabsOK, Unborn, id
<1>10. UnderWay'
  BY <1>0, <1>6 DEF IInv, UnderWay, id
<1>11. ActiveOK'
  BY <1>0, <1>1, <1>4, <1>6 DEF IInv, ActiveOK, Range
<1>12. StandInOK'
  BY <1>0, <1>1, <1>3, <1>5, <1>6, <1>7 DEF IInv, StandInOK, StandInHasItsFrame
<1>13. HiddenOK' /\ StoredOK'
  BY <1>0, <1>4, <1>7 DEF IInv, HiddenOK, StoredOK
<1>14. FirstOK'
  <2> SUFFICES ASSUME ~closing'.all, NEW t \in Range(tabs)' \ left' PROVE First(t)'
    BY DEF FirstOK
  <2>1. First(t) /\ t \in Tabs
    BY <1>0, <1>1, <1>6 DEF IInv, FirstOK, Range
  <2> QED BY <1>0, <1>4, <1>7, <2>1 DEF First, Sends
<1> QED BY <1>8, <1>9, <1>10, <1>11, <1>12, <1>13, <1>14 DEF IInv

\* The window of the tab that goes is destroyed: nothing else is about it by now.
LEMMA GoneKeeps ==
  ASSUME IInv, closing.at = "released", Gone(closing.id)
  PROVE  /\ closing.id \in Tabs /\ view' \in [Tabs -> Views]
         /\ \A t \in Tabs : t # closing.id => view'[t] = view[t]
         /\ view'[closing.id].suspended /\ ~view'[closing.id].shown
         /\ standIn.of # 0 => standIn.up /\ standIn.of \in Tabs /\ view'[standIn.of].kept
<1>1. view \in [Tabs -> Views] /\ closing.id \in Tabs /\ view' = [view EXCEPT ![closing.id] = NoView]
  BY DEF IInv, TypeOK, UnderWay, Gone
<1>2. /\ view' \in [Tabs -> Views] /\ view'[closing.id] = NoView
      /\ \A t \in Tabs : t # closing.id => view'[t] = view[t]
  BY <1>1, NoViewIsView
<1> QED BY <1>1, <1>2, NoViewIsView DEF IInv, StandInOK, StandInHasItsFrame

LEMMA FinishOneOfAll ==
  ASSUME IInv, FinishClose, closing.all
  PROVE  IInv'
<1>0. /\ closing.at = "released" /\ selecting = NotSelecting /\ Gone(closing.id)
      /\ closing' = [closing EXCEPT !.at = "between", !.id = 0]
      /\ UNCHANGED <<tabs, active, selecting, standIn, left, hostVars, queue, moves, unused, cycling, late>>
  BY DEF FinishClose
<1>1. /\ closing.id \in Tabs /\ view' \in [Tabs -> Views]
      /\ \A t \in Tabs : t # closing.id => view'[t] = view[t]
      /\ view'[closing.id].suspended /\ ~view'[closing.id].shown
      /\ standIn.of # 0 => standIn.up /\ standIn.of \in Tabs /\ view'[standIn.of].kept
  BY <1>0, GoneKeeps
<1>2. closing \in Closings /\ 0 \in Ids
  BY DEF IInv, TypeOK, Ids
<1>3. closing' \in Closings /\ closing'.at = "between" /\ closing'.all /\ closing'.id = 0
  BY <1>0, <1>2 DEF Closings
<1>4. UNCHANGED <<bounds, host, resizes>>
  BY <1>0 DEF hostVars
<1>5. TypeOK'
  BY <1>0, <1>1, <1>3, <1>4 DEF IInv, TypeOK
<1>6. TabsOK'
  BY <1>0, <1>3, <1>4, ZeroIsNoTab DEF IInv, TabsOK, Unborn
<1>7. UnderWay'
  BY <1>0, <1>3 DEF UnderWay, NotSelecting
<1>8. ActiveOK' /\ FirstOK'
  BY <1>3 DEF ActiveOK, FirstOK
<1>9. StandInOK'
  BY <1>0, <1>1, <1>3, <1>4 DEF IInv, StandInOK, StandInHasItsFrame
<1>10. HiddenOK' /\ StoredOK'
  BY <1>0, <1>1, <1>4 DEF IInv, HiddenOK, StoredOK
<1> QED BY <1>5, <1>6, <1>7, <1>8, <1>9, <1>10 DEF IInv

\* A tab closed by itself: what was selected has been left, and its neighbour is next.
LEMMA FinishOne ==
  ASSUME IInv, FinishClose, ~closing.all
  PROVE  IInv'
<1> DEFINE id == closing.id
           at == IndexOfTab(tabs, id)
           rest == EraseTab(tabs, at)
           next == Neighbour(rest, at)
<1>0. /\ closing.at = "released" /\ selecting = NotSelecting /\ Gone(id)
      /\ closing' = NotClosing /\ tabs' = rest
      /\ IF closing.wasActive
         THEN /\ active' = 0 /\ left' = left \cup ({active} \ {0})
              /\ IF rest = <<>>
                 THEN selecting' = NotSelecting /\ standIn' = NoStandIn
                 ELSE selecting' = Selecting(next) /\ UNCHANGED standIn
         ELSE UNCHANGED <<active, selecting, standIn, left>>
      /\ UNCHANGED <<hostVars, queue, moves, unused, cycling, late>>
  BY DEF FinishClose
<1>1. /\ tabs \in Seq(Tabs) /\ Distinct(tabs) /\ id \in Range(tabs) /\ standIn \in StandIns
      /\ active \in Ids /\ left \subseteq Tabs
  BY <1>0 DEF IInv, TypeOK, TabsOK, UnderWay
<1>2. at \in 0..(Len(tabs) - 1) /\ tabs[at + 1] = id
  BY <1>1, IndexOfListed
<1>a. /\ id \in Tabs /\ view' \in [Tabs -> Views]
      /\ \A t \in Tabs : t # id => view'[t] = view[t]
      /\ view'[id].suspended /\ ~view'[id].shown
      /\ standIn.of # 0 => standIn.up /\ standIn.of \in Tabs /\ view'[standIn.of].kept
  BY <1>0, GoneKeeps
<1> HIDE DEF id, at
<1>3. rest \in Seq(Tabs) /\ Distinct(rest) /\ Range(rest) = Range(tabs) \ {id}
  BY <1>1, <1>2, EraseTabProperties, EraseKeepsDistinct, EraseRange
<1> HIDE DEF rest
<1>4. rest # <<>> => next \in Range(rest) /\ next \in Tabs /\ next # 0
  <2>1. ASSUME rest # <<>> PROVE next \in Range(rest) /\ next \in Tabs
    <3>1. at \in Nat
      BY <1>2
    <3>2. next \in Range(rest)
      BY <1>3, <2>1, <3>1, NeighbourIsListed
    <3> QED BY <1>3, <3>2 DEF Range
  <2> QED BY <2>1, ZeroIsNoTab
<1> HIDE DEF next
<1>5. /\ selecting' \in Selections /\ selecting'.at \in {"none", "asked"}
      /\ selecting'.at = "none" => selecting' = NotSelecting
      /\ selecting'.at # "none" => selecting'.id \in Range(rest) /\ selecting'.id # 0
  <2>1. CASE selecting' = NotSelecting
    BY <2>1 DEF NotSelecting, Selections, Ids
  <2>2. CASE selecting' = Selecting(next) /\ rest # <<>>
    BY <1>4, <2>2 DEF Selecting, Selections, Ids
  <2> QED BY <1>0, <2>1, <2>2
<1>6. /\ standIn' \in StandIns /\ (standIn'.of # 0 \/ standIn'.up => standIn' = standIn)
      /\ standIn'.of \in {0, standIn.of}
  BY <1>0, <1>1, NoStandInIsStandIn
<1>7. /\ active' \in {0, active} /\ active' \in Ids /\ left' \subseteq Tabs /\ left \subseteq left'
      /\ active # 0 /\ active' = 0 => active \in left'
      /\ active' # id
  <2>1. ~closing.wasActive => active # id
    BY <1>0 DEF IInv, UnderWay, id
  <2> QED BY <1>0, <1>1, <1>a, <2>1, ZeroIsNoTab
<1>8. closing' \in Closings /\ closing'.at = "none" /\ ~closing'.all /\ closing'.id = 0 /\ closing' = NotClosing
  BY <1>0 DEF NotClosing, Closings, Ids
<1>9. UNCHANGED <<bounds, host, resizes>>
  BY <1>0 DEF hostVars
<1>10. TypeOK'
  BY <1>0, <1>3, <1>5, <1>6, <1>7, <1>8, <1>9, <1>a DEF IInv, TypeOK
<1>11. TabsOK'
  BY <1>0, <1>3, <1>6, <1>7, <1>8, <1>9, ZeroIsNoTab DEF IInv, TabsOK, Unborn
<1>12. UnderWay'
  BY <1>0, <1>5, <1>8 DEF UnderWay
<1>b. selecting.at = "none"
  BY <1>0 DEF NotSelecting
<1>13. ActiveOK'
  <2>1. ASSUME active' # 0 PROVE active' \in Range(tabs)' /\ ~view'[active'].suspended
    <3>1. active' = active /\ active \in Range(tabs) /\ ~view[active].suspended
      BY <1>7, <1>b, <2>1 DEF IInv, ActiveOK
    <3>2. active \in Tabs /\ active # id
      BY <1>1, <1>7, <3>1 DEF Range
    <3> QED BY <1>0, <1>3, <1>a, <3>1, <3>2
  <2> QED BY <2>1 DEF ActiveOK
<1>14. StandInOK'
  BY <1>0, <1>6, <1>8, <1>9, <1>a DEF IInv, StandInOK, StandInHasItsFrame
<1>15. HiddenOK' /\ StoredOK'
  BY <1>0, <1>9, <1>a DEF IInv, HiddenOK, StoredOK
<1>16. FirstOK'
  <2> SUFFICES ASSUME ~closing'.all, NEW t \in Range(tabs)' \ left' PROVE First(t)'
    BY DEF FirstOK
  <2>0. t \in Range(tabs) \ left /\ t # id
    BY <1>0, <1>3, <1>7
  <2>1. First(t) /\ t \in Tabs /\ t # id
    BY <1>1, <2>0 DEF IInv, FirstOK, Range
  <2>2. t = active <=> t = active'
    BY <1>7, <2>1, ZeroIsNoTab
  <2> QED BY <1>0, <1>5, <1>9, <1>a, <1>b, <2>1, <2>2 DEF First, Sends
<1> QED BY <1>10, <1>11, <1>12, <1>13, <1>14, <1>15, <1>16 DEF IInv

LEMMA FinishCloseAllKeeps ==
  ASSUME IInv, FinishCloseAll
  PROVE  IInv'
<1>0. /\ selecting = NotSelecting /\ tabs = <<>>
      /\ closing' = NotClosing /\ active' = 0 /\ left' = left \cup ({active} \ {0})
      /\ UNCHANGED <<hostVars, queue, moves, unused, cycling, tabs, selecting, view, standIn, late>>
  BY DEF FinishCloseAll
<1>1. closing' \in Closings /\ closing'.at = "none" /\ closing'.id = 0
  BY <1>0 DEF NotClosing, Closings, Ids
<1>2. active' \in Ids /\ left' \subseteq Tabs
  BY <1>0, ZeroIsNoTab DEF IInv, TypeOK, Ids
<1>3. UNCHANGED <<bounds, host, resizes>>
  BY <1>0 DEF hostVars
<1>4. TypeOK'
  BY <1>0, <1>1, <1>2, <1>3 DEF IInv, TypeOK
<1>5. TabsOK'
  BY <1>0, <1>1, <1>3, ZeroIsNoTab DEF IInv, TabsOK, Unborn
<1>6. UnderWay'
  BY <1>0, <1>1 DEF UnderWay, NotSelecting
<1>7. ActiveOK'
  BY <1>0 DEF ActiveOK
<1>8. FirstOK'
  <2>1. Range(tabs) = {}
    BY <1>0, EmptyRange
  <2> QED BY <1>0, <2>1 DEF FirstOK
<1>9. StandInOK' /\ HiddenOK' /\ StoredOK'
  BY <1>0, <1>1, <1>3 DEF IInv, StandInOK, StandInHasItsFrame, HiddenOK, StoredOK
<1> QED BY <1>4, <1>5, <1>6, <1>7, <1>8, <1>9 DEF IInv

-----------------------------------------------------------------------------
(* The WebKit thread: the rest of its loop, and the pages.                 *)

\* Going into WebKit's cycle or out of it, or taking the stand-in down.
LEMMA LoopKeeps ==
  ASSUME IInv, cycling' \in BOOLEAN, standIn' \in {standIn, NoStandIn},
         UNCHANGED <<hostVars, queue, moves, unused, tabs, active, selecting, closing, view, left, late>>
  PROVE  IInv'
<1>1. UNCHANGED <<bounds, host, resizes>>
  BY DEF hostVars
<1>2. standIn \in StandIns
  BY DEF IInv, TypeOK
<1>3. /\ standIn' \in StandIns /\ (standIn'.of # 0 \/ standIn'.up => standIn' = standIn)
      /\ standIn'.of \in {0, standIn.of}
  BY <1>2, NoStandInIsStandIn
<1>4. TypeOK'
  BY <1>1, <1>3 DEF IInv, TypeOK
<1>5. TabsOK'
  BY <1>1, <1>3, ZeroIsNoTab DEF IInv, TabsOK, Unborn
<1>6. UnderWay' /\ ActiveOK'
  BY DEF IInv, UnderWay, ActiveOK
<1>7. StandInOK'
  BY <1>1, <1>3, ZeroIsNoTab DEF IInv, StandInOK, StandInHasItsFrame, UnderWay
<1>8. HiddenOK' /\ StoredOK'
  BY <1>1 DEF IInv, HiddenOK, StoredOK
<1>9. FirstOK'
  BY <1>1 DEF IInv, FirstOK, First, Sends
<1> QED BY <1>4, <1>5, <1>6, <1>7, <1>8, <1>9 DEF IInv

LEMMA MoveArrivesKeeps ==
  ASSUME IInv, MoveArrives
  PROVE  IInv'
<1> DEFINE m == Head(moves)
           new == [view[m.id] EXCEPT !.rect = Rect(m.to), !.shown = TRUE]
<1>0. /\ AtRest /\ moves # <<>> /\ moves' = Tail(moves)
      /\ view' = (IF m.id \in Range(tabs) THEN [view EXCEPT ![m.id].rect = Rect(m.to), ![m.id].shown = TRUE] ELSE view)
      /\ late' = (IF m.id = active THEN late ELSE late \cup {m.id})
      /\ UNCHANGED <<hostVars, queue, unused, cycling, tabs, active, selecting, closing, standIn, left>>
  BY DEF MoveArrives
<1>1. /\ moves \in Seq(Requests) /\ view \in [Tabs -> Views] /\ tabs \in Seq(Tabs) /\ late \subseteq Tabs
  BY DEF IInv, TypeOK, Requests
<1>2. /\ moves' \in Seq(Requests) /\ m \in Requests
      /\ \A t : /\ Moving(moves', t) => Moving(moves, t)
                /\ m.id = t => Moving(moves, t)
                /\ \A r : LastTo(moves, t, r) => LastTo(moves', t, r)
                                                 \/ (m.id = t /\ Rect(m.to) = r /\ ~Moving(moves', t))
  BY <1>0, <1>1, TailMoves
<1>3. m.id \in Tabs /\ Rect(m.to) \in Rects
  BY <1>2, RectsAreRects DEF Requests
<1> HIDE DEF m
<1> DEFINE rect == Rect(m.to)
<1>4. /\ new \in Views /\ new.rect = rect /\ new.shown /\ new.suspended = view[m.id].suspended
      /\ new.kept = view[m.id].kept /\ new.repaint = view[m.id].repaint /\ new.rendered = view[m.id].rendered
      /\ new.sized = view[m.id].sized
  <2> HIDE DEF rect
  <2>1. view[m.id] \in Views /\ rect \in Rects
    BY <1>1, <1>3 DEF rect
  <2>2. [view[m.id] EXCEPT !.rect = rect, !.shown = TRUE] = new
    BY DEF rect
  <2> HIDE DEF new
  <2> QED BY <2>1, <2>2 DEF Views
<1>5. /\ view' \in [Tabs -> Views] /\ \A t \in Tabs : t # m.id => view'[t] = view[t]
      /\ m.id \in Range(tabs) => view'[m.id] = new
      /\ m.id \notin Range(tabs) => view' = view
  <2> HIDE DEF rect
  <2>1. CASE m.id \in Range(tabs)
    <3>1. view' = [view EXCEPT ![m.id] = new]
      BY <1>0, <1>1, <1>3, <2>1
    <3> HIDE DEF new
    <3> QED BY <1>1, <1>3, <1>4, <2>1, <3>1
  <2>2. CASE m.id \notin Range(tabs)
    BY <1>0, <1>1, <2>2
  <2> QED BY <2>1, <2>2
<1> HIDE DEF new, rect
<1>6. UNCHANGED <<bounds, host, resizes>>
  BY <1>0 DEF hostVars
<1>7. selecting.at = "none" /\ closing.at = "none" /\ ~closing.all
  BY <1>0 DEF AtRest, NotSelecting, NotClosing
<1>8. late' \subseteq Tabs /\ late \subseteq late' /\ (m.id # active => m.id \in late')
  BY <1>0, <1>1, <1>3
<1>9. TypeOK'
  BY <1>0, <1>2, <1>5, <1>6, <1>8 DEF IInv, TypeOK, Requests
<1>10. TabsOK'
  BY <1>0, <1>2, <1>6 DEF IInv, TabsOK, Unborn
<1>11. UnderWay'
  BY <1>0 DEF IInv, UnderWay
<1>a. \A t \in Tabs : /\ view'[t].suspended = view[t].suspended /\ view'[t].kept = view[t].kept
                      /\ view'[t].repaint = view[t].repaint /\ view'[t].rendered = view[t].rendered
                      /\ view[t].shown => view'[t].shown
  BY <1>3, <1>4, <1>5
<1>b. active # 0 => active \in Range(tabs) /\ active \in Tabs /\ ~view[active].suspended
  BY <1>1, <1>7 DEF IInv, ActiveOK, Range
<1>12. ActiveOK'
  BY <1>0, <1>a, <1>b DEF ActiveOK
<1>13. StandInOK'
  BY <1>0, <1>6, <1>a DEF IInv, StandInOK, StandInHasItsFrame
<1>14. HiddenOK'
  <2> SUFFICES ASSUME NEW t \in Tabs
               PROVE  (view'[t].suspended /\ view'[t].shown => t \in late') /\ (~view'[t].suspended => view'[t].shown)
    BY DEF HiddenOK
  <2>1. (view[t].suspended /\ view[t].shown => t \in late) /\ (~view[t].suspended => view[t].shown)
    BY DEF IInv, HiddenOK
  <2>2. CASE t = m.id /\ t = active
    BY <1>8, <1>a, <1>b, <2>1, <2>2, ZeroIsNoTab
  <2>3. CASE t = m.id /\ t # active
    BY <1>8, <1>a, <2>1, <2>3
  <2>4. CASE t # m.id
    BY <1>5, <1>8, <2>1, <2>4
  <2> QED BY <2>2, <2>3, <2>4
<1>15. StoredOK'
  BY <1>6 DEF IInv, StoredOK
<1>16. FirstOK'
  <2> SUFFICES ASSUME ~closing'.all, NEW t \in Range(tabs)' \ left' PROVE First(t)'
    BY DEF FirstOK
  <2>1. First(t) /\ t \in Tabs /\ t \in Range(tabs)
    BY <1>0, <1>1 DEF IInv, FirstOK, Range
  <2>2. CASE t # active
    <3>1. ~Moving(moves, t) /\ t # m.id /\ ~Moving(moves', t)
      BY <1>2, <2>1, <2>2 DEF First
    <3> QED BY <1>0, <1>5, <1>6, <2>1, <2>2, <3>1 DEF First
  <2>3. CASE t = active
    <3>1. \/ Sends(t) \/ LastTo(moves', t, bounds)
          \/ ~Moving(moves', t) /\ view'[t].rect = bounds
      <4>1. CASE Sends(t)
        BY <4>1
      <4>2. CASE LastTo(moves, t, bounds)
        <5>1. CASE LastTo(moves', t, bounds)
          BY <5>1
        <5>2. CASE m.id = t /\ Rect(m.to) = bounds /\ ~Moving(moves', t)
          BY <1>4, <1>5, <2>1, <5>2 DEF rect
        <5> QED BY <1>2, <4>2, <5>1, <5>2
      <4>3. CASE ~Moving(moves, t) /\ (selecting.at # "switched" => view[t].rect = bounds)
        BY <1>2, <1>5, <1>7, <2>1, <4>3
      <4> QED BY <2>1, <2>3, <4>1, <4>2, <4>3 DEF First
    <3> QED BY <1>0, <1>6, <1>7, <1>a, <2>1, <2>3, <3>1 DEF First, Sends
  <2> QED BY <2>2, <2>3
<1> QED BY <1>9, <1>10, <1>11, <1>12, <1>13, <1>14, <1>15, <1>16 DEF IInv

LEMMA RepaintCompletedKeeps ==
  ASSUME IInv, NEW id \in Tabs, RepaintCompleted(id)
  PROVE  IInv'
<1> DEFINE none == "none"
           new == [view[id] EXCEPT !.repaint = none]
<1>0. /\ AtRest /\ view' = [view EXCEPT ![id] = new]
      /\ standIn' = (IF id = active THEN NoStandIn ELSE standIn)
      /\ UNCHANGED <<hostVars, queue, moves, unused, cycling, tabs, active, selecting, closing, left, late>>
  BY DEF RepaintCompleted
<1>1. view \in [Tabs -> Views] /\ tabs \in Seq(Tabs) /\ standIn \in StandIns
  BY DEF IInv, TypeOK
<1>2. /\ new \in Views /\ new.repaint = "none" /\ new.rect = view[id].rect /\ new.sized = view[id].sized
      /\ new.shown = view[id].shown /\ new.suspended = view[id].suspended /\ new.kept = view[id].kept
      /\ new.rendered = view[id].rendered
  BY <1>1 DEF Views
<1> HIDE DEF new
<1>3. view' \in [Tabs -> Views] /\ view'[id] = new /\ \A t \in Tabs : t # id => view'[t] = view[t]
  BY <1>0, <1>1, <1>2
<1>4. \A t \in Tabs : /\ view'[t].rect = view[t].rect /\ view'[t].sized = view[t].sized
                      /\ view'[t].shown = view[t].shown /\ view'[t].suspended = view[t].suspended
                      /\ view'[t].kept = view[t].kept /\ view'[t].rendered = view[t].rendered
                      /\ view'[t].repaint \in {"none", view[t].repaint}
  BY <1>2, <1>3
<1>5. /\ standIn' \in StandIns /\ (standIn'.of # 0 \/ standIn'.up => standIn' = standIn)
      /\ standIn'.of \in {0, standIn.of}
  BY <1>0, <1>1, NoStandInIsStandIn
<1>6. UNCHANGED <<bounds, host, resizes>>
  BY <1>0 DEF hostVars
<1>7. closing.at = "none"
  BY <1>0 DEF AtRest, NotClosing
<1>8. TypeOK'
  BY <1>0, <1>3, <1>5, <1>6 DEF IInv, TypeOK
<1>9. TabsOK'
  BY <1>0, <1>5, <1>6, ZeroIsNoTab DEF IInv, TabsOK, Unborn
<1>10. UnderWay' /\ ActiveOK'
  BY <1>0, <1>1, <1>4 DEF IInv, UnderWay, ActiveOK, Range
<1>11. StandInOK'
  BY <1>0, <1>4, <1>5, <1>6, <1>7 DEF IInv, StandInOK, StandInHasItsFrame
<1>12. HiddenOK' /\ StoredOK'
  BY <1>0, <1>4, <1>6 DEF IInv, HiddenOK, StoredOK
<1>13. FirstOK'
  <2> SUFFICES ASSUME ~closing'.all, NEW t \in Range(tabs)' \ left' PROVE First(t)'
    BY DEF FirstOK
  <2>1. First(t) /\ t \in Tabs
    BY <1>0, <1>1 DEF IInv, FirstOK, Range
  <2>2. /\ view'[t].rect = view[t].rect /\ view'[t].sized = view[t].sized
        /\ view'[t].rendered = view[t].rendered /\ view'[t].repaint \in {"none", view[t].repaint}
    BY <1>4, <2>1
  <2> QED BY <1>0, <1>6, <2>1, <2>2 DEF First, Sends
<1> QED BY <1>8, <1>9, <1>10, <1>11, <1>12, <1>13 DEF IInv

LEMMA PageOpensKeeps ==
  ASSUME IInv, NEW id \in Tabs, PageOpens(id)
  PROVE  IInv'
<1> DEFINE foreground == TRUE
<1>0. /\ id \in unused /\ unused' = unused \ {id} /\ CreateTab(id, foreground)
      /\ UNCHANGED <<hostVars, queue, moves, cycling, left, late>> /\ selecting = NotSelecting
  BY DEF PageOpens, Reserve, AtRest
<1> HIDE DEF foreground
<1>1. Unborn(id) /\ ~Waiting(queue, id) /\ queue \in Seq(Commands) /\ Apart(queue) /\ cycling \in BOOLEAN
  BY <1>0 DEF IInv, TypeOK, TabsOK, Unborn, Ids
<1> QED BY <1>0, <1>1, CreateTabKeeps

LEMMA PageAnswersKeeps ==
  ASSUME IInv, NEW id \in Tabs, PageAnswers(id)
  PROVE  IInv'
<1> DEFINE rendered == view[id].rendered \/ ~view[id].suspended
           new == [view[id] EXCEPT !.repaint = "answered", !.rendered = rendered]
<1>0. /\ id \in Range(tabs) /\ view[id].repaint = "asked"
      /\ view' = [view EXCEPT ![id].repaint = "answered", ![id].rendered = @ \/ ~view[id].suspended]
      /\ UNCHANGED <<hostVars, queue, moves, unused, cycling, tabs, active, selecting, closing, standIn, left, late>>
  BY DEF PageAnswers
<1>1. view \in [Tabs -> Views] /\ tabs \in Seq(Tabs)
  BY DEF IInv, TypeOK
<1>2. view' = [view EXCEPT ![id] = new]
  BY <1>0, <1>1
<1>3. rendered \in BOOLEAN /\ (view[id].rendered \/ ~view[id].suspended => rendered)
  BY <1>1 DEF Views
<1> HIDE DEF rendered
<1>4. /\ new \in Views /\ new.rect = view[id].rect /\ new.sized = view[id].sized
      /\ new.shown = view[id].shown /\ new.suspended = view[id].suspended /\ new.kept = view[id].kept
      /\ new.rendered = rendered
  BY <1>1, <1>3 DEF Views
<1> HIDE DEF new
<1>5. view' \in [Tabs -> Views] /\ view'[id] = new /\ \A t \in Tabs : t # id => view'[t] = view[t]
  BY <1>1, <1>2, <1>4
<1>6. \A t \in Tabs : /\ view'[t].rect = view[t].rect /\ view'[t].sized = view[t].sized
                      /\ view'[t].shown = view[t].shown /\ view'[t].suspended = view[t].suspended
                      /\ view'[t].kept = view[t].kept
  BY <1>4, <1>5
<1>7. UNCHANGED <<bounds, host, resizes>>
  BY <1>0 DEF hostVars
<1>8. TypeOK'
  BY <1>0, <1>5, <1>7 DEF IInv, TypeOK
<1>9. TabsOK'
  BY <1>0, <1>7 DEF IInv, TabsOK, Unborn
<1>10. UnderWay' /\ ActiveOK'
  BY <1>0, <1>1, <1>6 DEF IInv, UnderWay, ActiveOK, Range
<1>11. StandInOK'
  BY <1>0, <1>6, <1>7 DEF IInv, StandInOK, StandInHasItsFrame
<1>12. HiddenOK' /\ StoredOK'
  BY <1>0, <1>6, <1>7 DEF IInv, HiddenOK, StoredOK
<1>13. FirstOK'
  <2> SUFFICES ASSUME ~closing'.all, NEW t \in Range(tabs)' \ left' PROVE First(t)'
    BY DEF FirstOK
  <2>1. First(t) /\ t \in Tabs /\ t \in Range(tabs) /\ ~closing.all
    BY <1>0, <1>1 DEF IInv, FirstOK, Range
  <2>2. CASE t = id
    <3>1. t = active /\ selecting.at # "switched"
      BY <1>0, <2>1, <2>2 DEF First
    <3>2. ~view[t].suspended
      BY <2>1, <3>1, ZeroIsNoTab DEF IInv, ActiveOK
    <3>3. view'[t].rendered
      BY <1>3, <1>4, <1>5, <2>2, <3>2
    <3> QED BY <1>0, <1>6, <1>7, <2>1, <3>1, <3>3 DEF First, Sends
  <2>3. CASE t # id
    BY <1>0, <1>5, <1>7, <2>1, <2>3 DEF First, Sends
  <2> QED BY <2>2, <2>3
<1> QED BY <1>8, <1>9, <1>10, <1>11, <1>12, <1>13 DEF IInv

-----------------------------------------------------------------------------
(* Every step, and the theorems.                                           *)

LEMMA InitHolds == Init => IInv
<1> SUFFICES ASSUME Init PROVE IInv
  OBVIOUS
<1> DEFINE empty == <<>>
<1>1. empty \in Seq(Commands) /\ empty \in Seq(Requests) /\ empty \in Seq(Tabs) /\ Len(empty) = 0
  OBVIOUS
<1>2. PICK b \in Bounds : bounds = Rect(b) /\ host = [at |-> "idle", to |-> b, child |-> 0]
  BY DEF Init
<1>3. /\ queue = empty /\ moves = empty /\ unused = Tabs /\ cycling = FALSE
      /\ tabs = empty /\ active = 0 /\ selecting = NotSelecting /\ closing = NotClosing
      /\ view = [t \in Tabs |-> NoView] /\ left = {} /\ late = {} /\ resizes = 0 /\ standIn = NoStandIn
  BY DEF Init
<1>4. Range(tabs) = {}
  BY <1>3, EmptyRange
<1> HIDE DEF empty
<1>5. /\ bounds \in Rects /\ bounds.pos = host.to /\ bounds.size = host.to
      /\ host \in Hosts /\ host.at = "idle" /\ host.child = 0
  BY <1>2, RectsAreRects DEF Hosts, Ids
<1>6. /\ selecting \in Selections /\ selecting.at = "none" /\ closing \in Closings /\ closing.at = "none" /\ closing.id = 0
  BY <1>3 DEF NotSelecting, NotClosing, Selections, Closings, Ids
<1>7. standIn \in StandIns /\ ~standIn.up /\ standIn.of = 0 /\ view \in [Tabs -> Views]
      /\ \A t \in Tabs : view[t].suspended /\ ~view[t].shown
  BY <1>3, NoStandInIsStandIn, NoViewIsView
<1>8. 0 \in Ids /\ 0 \in 0..MaxResizes
  BY ViewAssumption DEF Ids
<1>9. TypeOK
  BY <1>1, <1>3, <1>5, <1>6, <1>7, <1>8 DEF TypeOK, Requests
<1>10. TabsOK
  <2>1. Distinct(tabs) /\ Apart(queue) /\ (\A t : ~Waiting(queue, t)) /\ \A t : ~Moving(moves, t)
    BY <1>1, <1>3 DEF Distinct, Apart, Waiting, Moving
  <2> QED BY <1>3, <1>4, <1>5, <1>6, <1>7, <2>1, ZeroIsNoTab DEF TabsOK
<1>11. UnderWay
  BY <1>3, <1>6 DEF UnderWay
<1>12. ActiveOK /\ FirstOK /\ HiddenOK
  BY <1>3, <1>4, <1>7 DEF ActiveOK, FirstOK, HiddenOK
<1>13. StandInOK /\ StoredOK
  BY <1>5, <1>6, <1>7 DEF StandInOK, StandInHasItsFrame, StoredOK
<1> QED BY <1>9, <1>10, <1>11, <1>12, <1>13 DEF IInv

LEMMA NextHolds == IInv /\ [Next]_vars => IInv'
<1> SUFFICES ASSUME IInv, [Next]_vars PROVE IInv'
  OBVIOUS
<1>1. ASSUME NEW b \in Bounds, HbSetBounds(b) PROVE IInv'
  BY <1>1, HbSetBoundsKeeps
<1>2. CASE HostStep
  BY <1>2, StoreSizeKeeps, ReadChildKeeps, MoveChildKeeps, PostBoundsKeeps DEF HostStep
<1>3. ASSUME NEW kind \in Asks, NEW id \in Ids, HbCall(kind, id) PROVE IInv'
  BY <1>3, HbCallKeeps
<1>4. CASE WorkStep
  <2>1. CASE SelectSwitches
    BY <2>1, SelectedAgain, SelectedAnew
  <2>2. CASE SelectShows
    BY <2>2, SelectShowsKeeps
  <2>3. CASE RunOpen \/ RunSelect \/ RunApplyBounds \/ RunReparent \/ RunClose \/ RunCloseAll
    BY <2>3, RunOpenKeeps, RunSelectKeeps, RunApplyBoundsKeeps, RunReparentKeeps, RunCloseKeeps, RunCloseAllKeeps
  <2>4. CASE CloseNext \/ ReleaseFrame \/ FinishCloseAll
    BY <2>4, CloseNextKeeps, ReleaseFrameKeeps, FinishCloseAllKeeps
  <2>5. CASE FinishClose
    BY <2>5, FinishOneOfAll, FinishOne
  <2> QED BY <1>4, <2>1, <2>2, <2>3, <2>4, <2>5 DEF WorkStep
<1>5. CASE LoopStep
  <2>1. CASE BeginCycle \/ EndCycle
    BY <2>1, LoopKeeps DEF BeginCycle, EndCycle, workVars
  <2>2. CASE MoveArrives
    BY <2>2, MoveArrivesKeeps
  <2>3. ASSUME NEW id \in Tabs, RepaintCompleted(id) PROVE IInv'
    BY <2>3, RepaintCompletedKeeps
  <2> QED BY <1>5, <2>1, <2>2, <2>3 DEF LoopStep
<1>6. CASE Expire
  BY <1>6, LoopKeeps DEF Expire, IInv, TypeOK
<1>7. ASSUME NEW id \in Tabs, PageOpens(id) PROVE IInv'
  BY <1>7, PageOpensKeeps
<1>8. ASSUME NEW id \in Tabs, PageAnswers(id) PROVE IInv'
  BY <1>8, PageAnswersKeeps
<1>9. CASE UNCHANGED vars
  BY <1>9, LoopKeeps DEF vars, workVars, IInv, TypeOK
<1> QED BY <1>1, <1>2, <1>3, <1>4, <1>5, <1>6, <1>7, <1>8, <1>9 DEF Next

LEMMA InvariantHolds == Spec => []IInv
BY InitHolds, NextHolds, PTL DEF Spec

\* The frame on screen is never one that has been freed; once nothing is on its way the
\* stand-in is where the window is, and a suspended tab is visible only because a request
\* to move it came after the switch (releaseSnapshot, moveSnapshotToBounds, suspendTab).
THEOREM ScreenIsConsistent == Spec => []ViewConsistent
<1>1. IInv => ViewConsistent
  <2> SUFFICES ASSUME IInv PROVE ViewConsistent
    OBVIOUS
  <2>1. TypeOK /\ StandInHasItsFrame
    BY DEF IInv, StandInOK
  <2>2. StandInFollowsWindow
    <3>1. ASSUME Settled PROVE ~Applying(queue) /\ host.at = "idle"
      <4> DEFINE empty == <<>>
      <4>1. queue = empty /\ Len(empty) = 0 /\ host.at = "idle"
        BY <3>1 DEF Settled
      <4> HIDE DEF empty
      <4> QED BY <4>1 DEF Applying
    <3> QED BY <3>1 DEF IInv, StandInOK, StandInFollowsWindow
  <2>3. SuspendedIsHidden
    <3>1. tabs \in Seq(Tabs) /\ \A t \in Range(tabs) : t \in Tabs
      BY DEF IInv, TypeOK, Range
    <3> QED BY <3>1 DEF IInv, HiddenOK, SuspendedIsHidden
  <2> QED BY <2>1, <2>2, <2>3 DEF ViewConsistent
<1> QED BY <1>1, InvariantHolds, PTL

\* The first time a tab is selected it ends up as large as the window, whatever resizes
\* overlapped the switch, and its stand-in comes down before its time only over a page
\* that has pixels (resumeTab, hb_tabs_set_bounds, repaintCompleted).
THEOREM FirstShowing == Spec => FirstShowingIsWhole
<1>1. IInv => FirstShowingFills
  <2> SUFFICES ASSUME IInv, Settled, active \notin left \cup {0} PROVE view[active].rect = bounds
    BY DEF FirstShowingFills
  <2>1. selecting.at = "none" /\ ~closing.all /\ host.at = "idle"
    BY DEF Settled, AtRest, NotSelecting, NotClosing
  <2>2. ~Moving(moves, active) /\ \A r : ~LastTo(moves, active, r)
    <3> DEFINE empty == <<>>
    <3>1. moves = empty /\ Len(empty) = 0
      BY DEF Settled
    <3> HIDE DEF empty
    <3> QED BY <3>1 DEF Moving, LastTo
  <2>3. First(active)
    BY <2>1 DEF IInv, ActiveOK, FirstOK
  <2> QED BY <2>1, <2>2, <2>3 DEF First, Sends
<1> DEFINE Ready == \A t \in Tabs : RepaintCompleted(t) /\ standIn.up /\ ~standIn'.up /\ active \notin left
                      => view[active].rendered
<1>2. IInv => Ready
  <2> SUFFICES ASSUME IInv, NEW t \in Tabs, RepaintCompleted(t), standIn.up, ~standIn'.up, active \notin left
               PROVE  view[active].rendered
    OBVIOUS
  <2>1. /\ AtRest /\ t \in Range(tabs) /\ view[t].repaint = "answered"
        /\ standIn' = IF t = active THEN NoStandIn ELSE standIn
    BY DEF RepaintCompleted
  <2>2. t = active /\ ~closing.all
    BY <2>1 DEF AtRest, NotClosing
  <2>3. First(t)
    BY <2>1, <2>2 DEF IInv, FirstOK
  <2> QED BY <2>1, <2>2, <2>3 DEF First
<1>3. Spec => []FirstShowingFills
  BY <1>1, InvariantHolds, PTL
<1>4. Spec => PageIsReadyBelow
  <2>1. IInv => [Ready]_vars
    BY <1>2
  <2> QED BY <2>1, InvariantHolds, PTL DEF PageIsReadyBelow
<1> QED BY <1>3, <1>4, PTL DEF FirstShowingIsWhole

=============================================================================
