------------------------------- MODULE Input -------------------------------
(***************************************************************************)
(* The keyboard, the find bar and the zoom of the pages                     *)
(* (browser/NativeLibs/harmony_input_{engine,hooks,focus,find,zoom}.cpp).   *)
(*                                                                         *)
(* A key goes to the thread whose window has the keyboard: the frame thread *)
(* for the chrome, the WebKit thread for a page.  A hook on either pump may *)
(* claim it as a chord.  What a chord decides is queued and carried out by  *)
(* the frame, after the frame has looked where the keyboard is and brought  *)
(* every page to the level of its site.  A tab stands for its window.       *)
(***************************************************************************)
EXTENDS Integers, FiniteSets, SequencesExt

CONSTANTS
  Tabs, First,      \* the tabs, and the one that is open when the hooks go in
  Host, NoWindow,   \* the chrome's window, and none
  URLs, SiteOf,     \* addresses, and the site of each
  Sites, NoSite,    \* an address may have none
  StartURL,         \* what a tab shows at first
  Texts, NoText,    \* what may be searched for
  MatchesOf,        \* how often each text stands on a page
  Ladder,           \* kZoomSteps
  Starts            \* bound: how often each kind of thing may happen in one behaviour, and
                    \* the file of the levels it finds

Default == 100      \* kZoomDefault
NoLevel == 0        \* a site the file does not name, or with a number that is none

\* Chords and presses, what is about the find bar, changes of zoom, what tabs do.
Kinds == {"keys", "find", "zoom", "tabs"}

NoTab == "no tab"

\* The steps of the zoom go up from the lowest to the highest, and 100 is one of them.
ASSUME LadderAssumption ==
  /\ Ladder \subseteq Nat \ {NoLevel} /\ Default \in Ladder
  /\ \E low, high \in Ladder : \A p \in Ladder : low <= p /\ p <= high

ASSUME InputAssumption ==
  /\ IsFiniteSet(Tabs) /\ First \in Tabs
  /\ Host \notin Tabs /\ NoWindow \notin Tabs \cup {Host} /\ NoTab \notin Tabs
  /\ StartURL \in URLs /\ NoTab \notin URLs /\ SiteOf \in [URLs -> Sites \cup {NoSite}] /\ NoSite \notin Sites
  /\ NoText \notin Texts /\ MatchesOf \in [Texts -> Nat]
  /\ Starts \subseteq [acts : [Kinds -> Nat], file : [Sites -> Nat]]

VARIABLES
  open, selected, url,  \* the registry's list, its tab in front, and what each shows
  focus,       \* the window that has the keyboard
  foreground,  \* the browser is the active window
  known,       \* g_tabWindows, and with them the pages with a find client
  shown,       \* g_activeTabId
  target,      \* g_textTarget
  owner,       \* g_publishedOwner
  pressed,     \* where a press has landed that g_pressSerial counts and Kira has not seen
  events,      \* g_events
  bar,         \* g_findOpen, g_query, the counts and what the search in flight asked for
  calls,       \* what each thread is at, of a search or of closing the bar
  field,       \* the text of the find field
  finding,     \* what each page's process has been asked and has not come to
  marked,      \* what each page has found and highlighted
  levels,      \* g_levels: 100 where a site has no entry
  factor,      \* how large each page is shown
  applied,     \* g_applied
  stale,       \* the revision or the generation is not the one of the last scan
  zooming,     \* what each thread is at, of a change of zoom
  dirty,       \* g_zoomDirty
  file,        \* the file of the levels: NoLevel where it does not name a site
  work,        \* what has been posted to the WebKit thread
  at,          \* where the frame thread is
  acts,        \* what is left of the budget
  last,        \* history: what was asked of the keyboard last
  muddled,     \* history: a search met another or a close, began backwards, the page changed
               \* under it, or a page goes on with a search it was left with
  bounced,     \* history: the page took the keyboard where no frame could see it
  missed,      \* history: both threads changed the zoom at once, a page left and came back
               \* between two scans, or the level of a page without a site went to another
  failed       \* history: the file was not written

registry == <<open, selected, url>>
keyboard == <<focus, known, shown, target, owner, pressed>>
finder == <<bar, calls, field, finding, marked>>
zoomer == <<levels, factor, applied, stale, zooming>>
disk == <<dirty, file, failed>>
history == <<last, muddled, bounced, missed>>
vars == <<registry, foreground, keyboard, events, finder, zoomer, disk, work, at, acts, history>>

Threads == {"frame", "engine"}
Fields == {"address", "find"}
Idle == [step |-> "idle"]
Pumping == [step |-> "pump"]
NoFind == [text |-> NoText, place |-> 0]

LevelOf(u) == IF SiteOf[u] = NoSite THEN Default ELSE levels[SiteOf[u]]

\* The thread is at its pump and may take a message.
Pumps(th) == zooming[th] = Idle /\ calls[th] = Idle /\ (th = "frame" => at.step = "pump")
Act(kind) == acts[kind] > 0 /\ acts' = [acts EXCEPT ![kind] = @ - 1]

-----------------------------------------------------------------------------
(* The keyboard.                                                            *)

Content(w) == w \in known             \* isTabWindow
OwnerIs(w) == IF Content(w) THEN "content" ELSE "chrome"

\* The page has the keyboard again before a frame saw that it had not, or before the
\* frame saw the press that took it away.  (A press leaves it with a page whose window
\* is not known yet.)
Bounces == focus' \in Tabs /\ focus \notin Tabs /\ (owner = "content" \/ pressed # "none")

\* focusChrome; and with field f, g_textTarget.store(f).
ToChrome(f) == focus' = Host /\ target' = f /\ UNCHANGED bounced

\* focusContent.
ToContent(otherwise) ==
  IF shown \in known
  THEN focus' = shown /\ target' = "none" /\ bounced' = (bounced \/ Bounces)
  ELSE UNCHANGED <<focus, bounced>> /\ target' = otherwise

\* cycleFocus: the fields in order, then the page, then the first again.
Stops == IF bar.open THEN <<"address", "find", "page">> ELSE <<"address", "page">>
NextStop(direction) ==
  LET here == IF Content(focus) THEN {Len(Stops)} ELSE {i \in 1..Len(Stops) : Stops[i] = target}
      i == IF here = {} THEN 0 ELSE CHOOSE n \in here : TRUE
      j == i + direction
  IN  Stops[IF j < 1 THEN Len(Stops) ELSE IF j > Len(Stops) THEN 1 ELSE j]
Cycles(direction) ==
  LET s == NextStop(direction)
  IN  IF s = "page" THEN ToContent(target) ELSE ToChrome(s)

-----------------------------------------------------------------------------
(* Find in page.                                                            *)

Finds(s) == \E i \in 1..Len(s) : s[i].kind = "find"
Hides(s, t) == \E i \in 1..Len(s) : s[i].kind = "hide" /\ s[i].tab = t
Unanswered == Finds(work) \/ \E t \in Tabs : Finds(finding[t])

\* findOpen.
Opened(b) == [b EXCEPT !.open = TRUE]

\* Asking for the same text again walks the matches.
RepeatOf(text) == text = bar.query

\* postFind: to the tab that is shown.
PostFind(request) == IF shown = NoTab THEN UNCHANGED work ELSE work' = Append(work, request)
Hide == [kind |-> "hide", tab |-> shown]
\* The page in front was left with the text found in it, which nothing has hidden
\* since: it goes on from where it was, and the bar begins anew.
GoesOn(text) ==
  shown \in Tabs /\ marked[shown].text = text /\ ~Hides(work, shown) /\ ~Hides(finding[shown], shown)

\* What a thread is at: a close, from a key in either pump or from Kira, or a search.
\* Each of them is several stores, and the other thread may come between.
Close(whose) == [step |-> "exchange", then |-> whose]
At(step, call) == [call EXCEPT !.step = step]
Clearing(th) == calls[th].step \in {"clear", "reset", "hide"}
Asking == calls["frame"].step \in {"aim", "ask"}
Goes(th, call) == calls' = [calls EXCEPT ![th] = call]

\* findSearch, on the frame thread, as far as the query is stored; it goes on at
\* FindResets or at FindAims.
SearchTakes(text, direction) ==
  /\ bar' = [bar EXCEPT !.query = text]
  /\ IF text = NoText
     THEN Goes("frame", [step |-> "reset", then |-> "search"]) /\ muddled' = (muddled \/ Unanswered)
     ELSE /\ Goes("frame", [step |-> "aim", text |-> text, direction |-> direction, again |-> RepeatOf(text)])
          /\ muddled' = (Unanswered \/ Clearing("engine")
                         \/ IF text = bar.query THEN muddled ELSE GoesOn(text) \/ direction = -1)

FindKeeps == UNCHANGED <<registry, foreground, known, shown, owner, pressed, finding, marked, zoomer, disk, at, acts, missed>>

\* g_pendingRepeat and g_pendingDirection, ...
FindAims ==
  /\ calls["frame"].step = "aim"
  /\ bar' = [bar EXCEPT !.repeat = calls["frame"].again, !.direction = calls["frame"].direction]
  /\ Goes("frame", At("ask", calls["frame"]))
  /\ FindKeeps /\ UNCHANGED <<focus, target, events, field, work, last, muddled, bounced>>

\* ... and the post.
FindAsks ==
  /\ calls["frame"].step = "ask"
  /\ LET c == calls["frame"]
     IN  PostFind([kind |-> "find", tab |-> shown, text |-> c.text, direction |-> c.direction])
  /\ Goes("frame", Idle)
  /\ FindKeeps /\ UNCHANGED <<focus, target, events, bar, field, last, muddled, bounced>>

\* findClose: only the thread that finds the bar open goes on; ...
FindExchanges(th) ==
  /\ calls[th].step = "exchange"
  /\ bar' = [bar EXCEPT !.open = FALSE]
  /\ Goes(th, At(IF bar.open THEN "clear" ELSE "leave", calls[th]))
  /\ muddled' = (muddled \/ (bar.open /\ (Unanswered \/ Asking)))
  /\ FindKeeps /\ UNCHANGED <<focus, target, events, field, work, last, bounced>>

\* ... the query, ...
FindClears(th) ==
  /\ calls[th].step = "clear"
  /\ bar' = [bar EXCEPT !.query = NoText]
  /\ Goes(th, At("reset", calls[th]))
  /\ FindKeeps /\ UNCHANGED <<focus, target, events, field, work, last, muddled, bounced>>

\* ... what the bar says, as for a search for nothing, ...
FindResets(th) ==
  /\ calls[th].step = "reset"
  /\ bar' = [bar EXCEPT !.count = 0, !.index = 0, !.searched = FALSE]
  /\ Goes(th, At("hide", calls[th]))
  /\ FindKeeps /\ UNCHANGED <<focus, target, events, field, work, last, muddled, bounced>>

\* ... and the post.
FindHides(th) ==
  /\ calls[th].step = "hide"
  /\ PostFind(Hide)
  /\ Goes(th, IF calls[th].then = "search" THEN Idle ELSE At("leave", calls[th]))
  /\ FindKeeps /\ UNCHANGED <<focus, target, events, bar, field, last, muddled, bounced>>

\* What comes behind a close: the event of the chord, or the rest of
\* harmonyInputFindCloseBar.
FindLeaves(th) ==
  /\ calls[th].step = "leave"
  /\ \/ /\ calls[th].then = "key"
        /\ events' = Append(events, [kind |-> "close find"]) /\ last' = "closed"
        /\ UNCHANGED <<focus, target, bounced, field>>
     \/ /\ calls[th].then = "frame"
        /\ field' = NoText /\ ToContent("none") /\ UNCHANGED <<events, last>>
  /\ Goes(th, Idle)
  /\ FindKeeps /\ UNCHANGED <<bar, work, muddled>>

FindGoesOn(th) ==
  FindExchanges(th) \/ FindClears(th) \/ FindResets(th) \/ FindHides(th) \/ FindLeaves(th)

\* What WebKit makes of it: a text that is new to the page is found at its first
\* place, or backwards at its last, one that is found already at its next, and round again.
Found(m, r) ==
  LET n == MatchesOf[r.text] IN
  IF n = 0 THEN [text |-> r.text, place |-> 0]
  ELSE [text |-> r.text,
        place |-> IF m.text = r.text THEN ((m.place - 1 + r.direction) % n) + 1
                  ELSE IF r.direction = 1 THEN 1 ELSE n]

\* Mutant: a text that is new goes on from where the last one was.
AdvancedOn(b, count) ==
  IF count = 0 THEN 0 ELSE IF ~b.repeat THEN b.index ELSE ((b.index - 1 + b.direction) % count) + 1

\* advanceMatchIndex.
Advanced(b, count) ==
  LET next == b.index + b.direction
  IN  IF count = 0 THEN 0
      ELSE IF ~b.repeat THEN 1
      ELSE IF next > count THEN 1 ELSE IF next < 1 THEN count ELSE next

\* attachFindClient, with the window: the answers of a page are heard once it has a
\* client, and heeded while its tab is the one shown.
Heard(t) == t \in known /\ t = shown

\* A page answers, with didFindString or didFailToFindString.
PageAnswers(t) ==
  /\ Pumps("engine") /\ t \in open /\ finding[t] # <<>>
  /\ LET r == Head(finding[t]) IN
     /\ finding' = [finding EXCEPT ![t] = Tail(@)]
     /\ marked' = [marked EXCEPT ![t] = IF r.kind = "hide" THEN NoFind ELSE Found(@, r)]
     /\ bar' = IF r.kind = "hide" \/ ~Heard(t) THEN bar
               ELSE LET n == MatchesOf[r.text]
                    IN  [bar EXCEPT !.count = n, !.index = Advanced(bar, n), !.searched = TRUE]
  /\ UNCHANGED <<registry, foreground, keyboard, events, calls, field, zoomer, disk, work, at, acts, history>>

-----------------------------------------------------------------------------
(* Chords and presses.                                                      *)

KeyThread == IF focus = Host THEN "frame" ELSE "engine"
KeyComes(kind) == Act(kind) /\ foreground /\ focus # NoWindow /\ Pumps(KeyThread)

\* routingToChrome.
Routing == focus = Host /\ target # "none"
Queued(e) == events' = Append(events, e)

\* Ctrl+L.
KeyAddress ==
  /\ KeyComes("keys") /\ ToChrome("address") /\ Queued([kind |-> "address"]) /\ last' = "address"
  /\ UNCHANGED <<registry, foreground, known, shown, owner, pressed, finder, zoomer, disk, work, at, muddled, missed>>

\* Ctrl+F.
KeyFind ==
  /\ KeyComes("find") /\ ToChrome("find") /\ Queued([kind |-> "open find"]) /\ last' = "find"
  /\ bar' = Opened(bar)
  /\ UNCHANGED <<registry, foreground, known, shown, owner, pressed, calls, field, finding, marked, zoomer, disk, work, at, muddled, missed>>

\* Escape: from a field, or the find session from anywhere, or a load (left out).
KeyEscape ==
  /\ KeyComes("find")
  /\ \/ /\ Routing /\ Queued([kind |-> "cancel", target |-> target])
        /\ ToContent("none")
        /\ last' = (IF target = "find" THEN "closed" ELSE "other")
        /\ UNCHANGED calls
     \/ /\ ~Routing /\ bar.open /\ Goes(KeyThread, Close("key"))
        /\ UNCHANGED <<focus, target, bounced, events, last>>
  /\ UNCHANGED <<registry, foreground, known, shown, owner, pressed, bar, field, finding, marked, zoomer, disk, work, at, muddled, missed>>

\* F6, and Tab in the chrome; a field that is reached so is selected.
KeyCycle(direction) ==
  /\ KeyComes("keys") /\ Cycles(direction) /\ last' = "other"
  /\ UNCHANGED <<registry, foreground, known, shown, owner, pressed, events, finder, zoomer, disk, work, at, muddled, missed>>

\* Return in a field, Ctrl+G, and typing in the find field.
KeyEdits(e) ==
  /\ KeyComes("find")
  /\ CASE e.kind = "text"   -> Routing /\ target = "find"
       [] e.kind = "walk"   -> (Routing /\ target = "find") \/ bar.open
       [] e.kind = "submit" -> Routing /\ target = "address"
  /\ Queued(e) /\ last' = "other"
  /\ UNCHANGED <<registry, foreground, keyboard, finder, zoomer, disk, work, at, muddled, bounced, missed>>

\* noticePress: a press on the chrome, on one of its fields or beside them.
Press(region) ==
  /\ Act("keys") /\ foreground /\ Pumps("frame") /\ (region = "find" => bar.open)
  /\ pressed' = region /\ last' = "other"
  /\ focus' = IF Content(focus) THEN Host ELSE focus
  /\ bounced' = (bounced \/ focus \in open \ known)
  /\ UNCHANGED <<registry, foreground, known, shown, target, owner, events, finder, zoomer, disk, work, at, muddled, missed>>

\* A press in the page: WebKit gives its window the keyboard.
PressPage ==
  /\ Act("keys") /\ foreground /\ Pumps("engine") /\ selected \in Tabs
  /\ focus' = selected /\ last' = "other" /\ bounced' = (bounced \/ Bounces)
  /\ UNCHANGED <<registry, foreground, known, shown, target, owner, pressed, events, finder, zoomer, disk, work, at, muddled, missed>>

\* takeFocusFromPage, pageAskedForFocus and pageGaveUpFocus.
PageMovesFocus ==
  /\ Act("keys") /\ Pumps("engine") /\ known # {}
  /\ \/ Content(focus) /\ \E d \in {-1, 1} : Cycles(d)
     \/ ToContent(target)
     \/ ToChrome(target)
  /\ last' = "other"
  /\ UNCHANGED <<registry, foreground, known, shown, owner, pressed, events, finder, zoomer, disk, work, at, muddled, missed>>

-----------------------------------------------------------------------------
(* Zoom, on either thread: from a chord, the wheel or a button.             *)

Higher(p) == {q \in Ladder : q > p}
Lower(p) == {q \in Ladder : q < p}

\* clampPercent: what a file may give is brought within the ladder.
Clamped(p) ==
  IF \A q \in Ladder : q < p THEN CHOOSE q \in Ladder : Higher(q) = {}
  ELSE IF \A q \in Ladder : q > p THEN CHOOSE q \in Ladder : Lower(q) = {}
  ELSE p

\* loadZoomLevels.
Loaded(f) == [s \in Sites |-> IF f[s] = NoLevel THEN Default ELSE Clamped(f[s])]

\* What saveZoomLevels writes: the sites that are not at 100.
Encoded(l) == [s \in Sites |-> IF l[s] = Default THEN NoLevel ELSE l[s]]

\* steppedPercent, or the level itself for a reset.
Stepped(p, change) ==
  CASE change = "reset" -> Default
    [] change = "in"  -> IF Higher(p) = {} THEN p ELSE CHOOSE q \in Higher(p) : \A r \in Higher(p) : q <= r
    [] change = "out" -> IF Lower(p) = {} THEN p ELSE CHOOSE q \in Lower(p) : \A r \in Lower(p) : q >= r

\* zoomStep as far as zoomPercent.
ZoomReads(th, change) ==
  /\ Act("zoom") /\ foreground /\ Pumps(th) /\ shown \in open
  /\ zooming' = [zooming EXCEPT ![th] = [step |-> "store", percent |-> Stepped(LevelOf(url[shown]), change)]]
  /\ missed' = (missed \/ \E o \in Threads \ {th} : zooming[o] # Idle)
  /\ UNCHANGED <<registry, foreground, keyboard, events, finder, levels, factor, applied, stale, disk, work, at, last, muddled, bounced>>

\* changeZoom: storeLevel for the site that is shown by now.
ZoomStores(th) ==
  /\ zooming[th].step = "store"
  /\ LET s == IF shown \in open THEN SiteOf[url[shown]] ELSE NoSite
     IN  /\ zooming' = [zooming EXCEPT ![th] = [step |-> "post", percent |-> zooming[th].percent, site |-> s]]
         /\ IF s = NoSite THEN UNCHANGED <<levels, dirty>>
            ELSE levels' = [levels EXCEPT ![s] = zooming[th].percent] /\ dirty' = TRUE
  /\ UNCHANGED <<registry, foreground, keyboard, events, finder, factor, applied, stale, file, failed, work, at, acts, history>>

\* applyToEverySiteTab; a page without a site is moved alone.
PostedTo(s) == IF s = NoSite THEN {shown} \cap open ELSE {t \in open : SiteOf[url[t]] = s}

ZoomRequests(ts, percent) ==
  LET tabs == SetToSeq(ts)
  IN  [i \in 1..Len(tabs) |-> [kind |-> "zoom", tab |-> tabs[i], percent |-> percent]]

\* ... the posts, and the generation.
ZoomPosts(th) ==
  /\ zooming[th].step = "post"
  /\ work' = work \o ZoomRequests(PostedTo(zooming[th].site), zooming[th].percent)
  /\ stale' = TRUE
  /\ zooming' = [zooming EXCEPT ![th] = Idle]
  /\ missed' = (missed \/ (zooming[th].site = NoSite /\ \E t \in open \cap {shown} : SiteOf[url[t]] # NoSite))
  /\ UNCHANGED <<registry, foreground, keyboard, events, finder, levels, factor, applied, disk, at, acts, last, muddled, bounced>>

\* matchControlChord.  The chords that only queue a command for another part are left
\* out: tabs open, close and navigate when they like.
ControlChord ==
  \/ KeyAddress \/ KeyFind
  \/ \E d \in {-1, 1} : KeyEdits([kind |-> "walk", direction |-> d])
  \/ \E th \in Threads, c \in {"in", "out", "reset"} : ZoomReads(th, c)

-----------------------------------------------------------------------------
(* The registry and the WebKit thread.                                      *)

Searching == bar.query # NoText

\* recordTabWindow: as the page is created, or by the sweep.
Recorded(ts) == known' = known \cup ts

\* A tab opens.
TabOpens(t) ==
  /\ Act("tabs") /\ Pumps("engine") /\ url[t] = NoTab
  /\ open' = open \cup {t} /\ selected' = t /\ url' = [url EXCEPT ![t] = StartURL]
  /\ Recorded({t}) /\ stale' = TRUE
  /\ last' = "other"
  /\ UNCHANGED <<foreground, focus, shown, target, owner, pressed, events, finder, levels, factor, applied, zooming, disk, work, at, muddled, bounced, missed>>

\* A tab closes: pageDestroying forgets its window, which goes, and the keyboard with it.
TabCloses(t) ==
  /\ Act("tabs") /\ Pumps("engine") /\ t \in open
  /\ open' = open \ {t} /\ known' = known \ {t} /\ stale' = TRUE
  /\ selected' = (IF selected # t THEN selected ELSE IF open = {t} THEN NoTab ELSE CHOOSE o \in open \ {t} : TRUE)
  /\ focus' = (IF focus = t THEN NoWindow ELSE focus)
  /\ marked' = [marked EXCEPT ![t] = NoFind] /\ finding' = [finding EXCEPT ![t] = <<>>]
  /\ UNCHANGED <<url, foreground, shown, target, owner, pressed, events, bar, calls, field, levels, factor, applied, zooming, disk, work, at, history>>

TabSelected(t) ==
  /\ Act("tabs") /\ Pumps("engine") /\ t \in open \ {selected}
  /\ selected' = t /\ stale' = TRUE
  /\ UNCHANGED <<open, url, foreground, keyboard, events, finder, levels, factor, applied, zooming, disk, work, at, history>>

\* A page comes to show u, at the engine's own scale and with nothing found in it.
TabCommits(t, u) ==
  /\ Act("tabs") /\ Pumps("engine") /\ t \in open /\ u # url[t]
  /\ url' = [url EXCEPT ![t] = u] /\ stale' = TRUE
  /\ factor' = [factor EXCEPT ![t] = Default] /\ marked' = [marked EXCEPT ![t] = NoFind]
  /\ muddled' = (muddled \/ (Searching /\ t = shown))
  /\ missed' = (missed \/ u = applied[t].url)
  /\ UNCHANGED <<open, selected, foreground, keyboard, events, bar, calls, field, finding, levels, applied, zooming, disk, work, at, last, bounced>>

\* The person turns to another program, and back.
Activation ==
  /\ Act("keys") /\ foreground' = ~foreground
  /\ UNCHANGED <<registry, keyboard, events, finder, zoomer, disk, work, at, history>>

\* applyZoomToTab; a page that has gone is passed over, here and by a search.
ZoomRuns(r) ==
  /\ r.kind = "zoom"
  /\ factor' = IF r.tab \in open THEN [factor EXCEPT ![r.tab] = r.percent] ELSE factor
  /\ UNCHANGED <<known, finding>>

\* runFind.
FindRuns(r) ==
  /\ r.kind \in {"find", "hide"}
  /\ finding' = IF r.tab \in open THEN [finding EXCEPT ![r.tab] = Append(@, r)] ELSE finding
  /\ UNCHANGED <<known, factor>>

\* sweepTabWindows.
SweepRuns(r) == r.kind = "sweep" /\ Recorded(open) /\ UNCHANGED <<factor, finding>>

WebKitWorks ==
  /\ Pumps("engine") /\ work # <<>>
  /\ work' = Tail(work)
  /\ ZoomRuns(Head(work)) \/ FindRuns(Head(work)) \/ SweepRuns(Head(work))
  /\ UNCHANGED <<registry, foreground, focus, shown, target, owner, pressed, events, bar, calls, field, marked, levels, applied, stale, zooming, disk, at, acts, history>>

-----------------------------------------------------------------------------
(* The frame: hb_input_frame, then Kira's part of it.                       *)

\* Mutant: only the page observer records windows.
NoneMissing == {}

\* tabWindowsAreMissing.
Missing == open \ known

\* hb_input_frame up to the look at the keyboard (serviceFocus).
FrameBegins ==
  /\ Pumps("frame")
  /\ shown' = selected
  /\ muddled' = (muddled \/ (Searching /\ shown # selected))
  \* bound: one sweep waits at a time, though each frame would post one.
  /\ work' = IF Missing # {} /\ \A i \in 1..Len(work) : work[i].kind # "sweep"
             THEN Append(work, [kind |-> "sweep"]) ELSE work
  /\ at' = IF foreground THEN [step |-> "focus", looked |-> focus] ELSE [step |-> "zoom"]
  /\ UNCHANGED <<registry, foreground, focus, known, target, owner, pressed, events, finder, zoomer, disk, acts, last, bounced, missed>>

\* The keyboard was left with a page that is not shown, or with nothing.
FocusMoves ==
  /\ at.step = "focus"
  /\ LET f == at.looked
         to == IF Content(f) /\ shown \in known /\ f # shown THEN shown
               ELSE IF f = NoWindow THEN (IF shown \in known THEN shown ELSE Host)
               ELSE f
     IN  /\ at' = [step |-> "owner", looked |-> to]
         /\ focus' = IF to = f THEN focus ELSE to
  /\ bounced' = (bounced \/ Bounces)
  /\ UNCHANGED <<registry, foreground, known, shown, target, owner, pressed, events, finder, zoomer, disk, work, acts, last, muddled, missed>>

\* The keyboard leaving the chrome leaves no field holding it.
TargetAfter(o) == IF o = "content" THEN "none" ELSE target

FocusSettles ==
  /\ at.step = "owner"
  /\ LET o == OwnerIs(at.looked)
     IN  /\ owner' = o
         /\ target' = IF o = owner THEN target ELSE TargetAfter(o)
  /\ at' = [step |-> "zoom"]
  /\ UNCHANGED <<registry, foreground, focus, known, shown, pressed, events, finder, zoomer, disk, work, acts, history>>

\* serviceZoom: the revision and the generation are taken first.
ZoomLooks ==
  /\ at.step = "zoom"
  /\ at' = IF stale THEN [step |-> "scan", left |-> open] ELSE [step |-> "save"]
  /\ stale' = FALSE
  /\ UNCHANGED <<registry, foreground, keyboard, events, finder, levels, factor, applied, zooming, disk, work, acts, history>>

\* Mutant: a page is spoken to only when the level of its site has moved.
MovesByLevel(t, now) == applied[t].percent # now.percent

Moves(t, now) == applied[t] # now

\* One tab: what it shows and the level of its site are read, ...
ScanReads(t) ==
  /\ at.step = "scan" /\ t \in at.left
  /\ LET now == [url |-> url[t], percent |-> LevelOf(url[t])]
     IN  /\ at' = IF Moves(t, now) THEN [step |-> "post", tab |-> t, percent |-> now.percent, left |-> at.left \ {t}]
                  ELSE [at EXCEPT !.left = @ \ {t}]
         /\ applied' = [applied EXCEPT ![t] = now]
  /\ UNCHANGED <<registry, foreground, keyboard, events, finder, levels, factor, stale, zooming, disk, work, acts, history>>

\* ... and its page is told.
ScanPosts ==
  /\ at.step = "post"
  /\ work' = Append(work, [kind |-> "zoom", tab |-> at.tab, percent |-> at.percent])
  /\ at' = [step |-> "scan", left |-> at.left]
  /\ UNCHANGED <<registry, foreground, keyboard, events, finder, zoomer, disk, acts, history>>

\* saveZoomLevels, when kZoomSaveDelayMs have passed, as far as the encoding.
SaveTakes(due) ==
  /\ at.step = "save" \/ (at.step = "scan" /\ at.left = {})
  /\ IF due /\ dirty THEN dirty' = FALSE /\ at' = [step |-> "write", holds |-> Encoded(levels)]
     ELSE UNCHANGED dirty /\ at' = [step |-> "sync"]
  /\ UNCHANGED <<registry, foreground, keyboard, events, finder, zoomer, file, failed, work, acts, history>>

\* Mutant: the levels count as written once the file is.
CleanWhenWritten == FALSE

\* A level that is set while the file is written is for the next time.
StillDirty == dirty

SaveEnds(ok) ==
  /\ at.step \in {"write", "last write"}
  /\ file' = (IF ok THEN at.holds ELSE file) /\ failed' = (failed \/ ~ok)
  /\ dirty' = StillDirty
  /\ at' = [step |-> IF at.step = "write" THEN "sync" ELSE "over"]
  /\ UNCHANGED <<registry, foreground, keyboard, events, finder, zoomer, work, acts, history>>

\* harmonyInputSyncTarget: a press claims a field, or takes the keyboard from both.
SyncsTarget ==
  /\ at.step = "sync"
  /\ target' = IF pressed = "none" THEN target ELSE IF pressed \in Fields THEN pressed ELSE "none"
  /\ pressed' = "none"
  /\ at' = [step |-> "drain"]
  /\ UNCHANGED <<registry, foreground, focus, known, shown, owner, events, finder, zoomer, disk, work, acts, history>>

\* Mutant: the hook has set the field already.
FieldAsLeft(f) == UNCHANGED bounced /\ focus' = Host /\ target' = target

\* harmonyInputFocusAddressBar and harmonyInputFocusFindField.
TakesField(f) == ToChrome(f)

\* harmonyInputFindCloseBar, as far as findClose begins.
CloseBar == Goes("frame", Close("frame")) /\ UNCHANGED <<bar, muddled, focus, target, bounced, field>>

KeepsBar == UNCHANGED <<bar, calls, muddled>>

\* harmonyInputApplyEvent.
Applies(e) ==
  CASE e.kind = "address"    -> TakesField("address") /\ KeepsBar /\ UNCHANGED field
    [] e.kind = "open find"  -> bar' = Opened(bar) /\ TakesField("find") /\ UNCHANGED <<calls, muddled, field>>
    [] e.kind = "close find" -> CloseBar
    [] e.kind = "cancel"     -> IF e.target = "find" THEN CloseBar
                                ELSE KeepsBar /\ UNCHANGED <<focus, target, bounced, field>>
    [] e.kind = "submit"     -> ToContent("none") /\ KeepsBar /\ UNCHANGED field
    [] e.kind = "walk"       -> /\ IF field = NoText THEN KeepsBar ELSE SearchTakes(field, e.direction)
                                /\ UNCHANGED <<focus, target, bounced, field>>
    [] e.kind = "text"       -> /\ field' = e.text /\ SearchTakes(e.text, 1)
                                /\ UNCHANGED <<focus, target, bounced>>

\* popEvent: the oldest, and it is applied.
PopsEvent == events # <<>> /\ events' = Tail(events) /\ Applies(Head(events))

\* harmonyInputDrainEvents.
DrainsEvent ==
  /\ at.step = "drain" /\ calls["frame"] = Idle /\ PopsEvent
  /\ UNCHANGED <<registry, foreground, known, shown, owner, pressed, finding, marked, zoomer, disk, work, at, acts, last, missed>>

FrameEnds ==
  /\ at.step = "drain" /\ calls["frame"] = Idle /\ events = <<>>
  /\ at' = Pumping
  /\ UNCHANGED <<registry, foreground, keyboard, events, finder, zoomer, disk, work, acts, history>>

\* hb_input_shutdown: what is unsaved is saved at once.  The WebKit thread's hook is
\* removed later, by that thread.
Shutdown ==
  /\ Pumps("frame")
  /\ IF dirty THEN dirty' = FALSE /\ at' = [step |-> "last write", holds |-> Encoded(levels)]
     ELSE UNCHANGED dirty /\ at' = [step |-> "over"]
  /\ UNCHANGED <<registry, foreground, keyboard, events, finder, zoomer, file, failed, work, acts, history>>

FrameStep ==
  \/ FrameBegins \/ FocusMoves \/ FocusSettles \/ ZoomLooks \/ ScanPosts
  \/ \E t \in Tabs : ScanReads(t)
  \/ \E due \in BOOLEAN : SaveTakes(due)
  \/ \E ok \in BOOLEAN : SaveEnds(ok)
  \/ SyncsTarget \/ DrainsEvent \/ FrameEnds
  \/ FindGoesOn("frame") \/ FindAims \/ FindAsks
  \/ ZoomStores("frame") \/ ZoomPosts("frame")

EngineStep == WebKitWorks \/ FindGoesOn("engine") \/ ZoomStores("engine") \/ ZoomPosts("engine")

PersonStep ==
  \/ ControlChord \/ KeyEscape
  \/ \E d \in {-1, 1} : KeyCycle(d)
  \/ \E x \in Texts \cup {NoText} : KeyEdits([kind |-> "text", text |-> x])
  \/ KeyEdits([kind |-> "submit"])
  \/ \E r \in Fields \cup {"elsewhere"} : Press(r)
  \/ PressPage
  \/ Activation

PageStep ==
  \/ PageMovesFocus
  \/ \E t \in Tabs : PageAnswers(t) \/ TabOpens(t) \/ TabCloses(t) \/ TabSelected(t) \/ \E u \in URLs : TabCommits(t, u)

Init ==
  /\ open = {First} /\ selected = First
  /\ url = [t \in Tabs |-> IF t = First THEN StartURL ELSE NoTab]
  /\ focus \in {First, Host} /\ foreground = TRUE
  /\ known = {} /\ shown = NoTab /\ target = "none" /\ owner = "chrome" /\ pressed = "none"
  /\ events = <<>>
  /\ bar = [open |-> FALSE, query |-> NoText, count |-> 0, index |-> 0, searched |-> FALSE, repeat |-> FALSE, direction |-> 1]
  /\ field = NoText /\ finding = [t \in Tabs |-> <<>>] /\ marked = [t \in Tabs |-> NoFind]
  /\ \E start \in Starts : acts = start.acts /\ file = start.file
  /\ levels = Loaded(file) /\ factor = [t \in Tabs |-> Default]
  /\ applied = [t \in Tabs |-> [url |-> NoTab, percent |-> Default]] /\ stale = TRUE
  /\ zooming = [th \in Threads |-> Idle] /\ calls = [th \in Threads |-> Idle]
  /\ dirty = FALSE /\ failed = FALSE
  /\ work = <<>> /\ at = Pumping
  /\ last = "other" /\ muddled = FALSE /\ bounced = FALSE /\ missed = FALSE

Next == FrameStep \/ EngineStep \/ PersonStep \/ PageStep \/ Shutdown

\* Both threads go on.  Pages answer when they like.
Spec == Init /\ [][Next]_vars /\ WF_vars(FrameStep) /\ WF_vars(EngineStep)

-----------------------------------------------------------------------------
(* What the code promises.                                                  *)

TypeOK ==
  /\ known \subseteq open /\ open \subseteq Tabs
  /\ focus \in open \cup {Host, NoWindow}
  /\ target \in Fields \cup {"none"} /\ owner \in {"chrome", "content"}
  /\ bar.count \in Nat /\ bar.index \in Nat
  /\ \A s \in Sites : Clamped(levels[s]) = levels[s]
  /\ acts \in [Kinds -> Nat]

\* When the levels are not marked and not being written the next process would load
\* them, unless a write failed: a level that is set on one thread while the other writes is not lost.
FileHasLevels == (~dirty /\ at.step \notin {"write", "last write"} /\ ~failed) => Loaded(file) = levels

InputConsistent == TypeOK /\ FileHasLevels

AtRest == at.step = "pump" /\ events = <<>> /\ pressed = "none" /\ \A th \in Threads : calls[th] = Idle

\* "An event that moves the keyboard has the last word over a press that came before
\* it" (InputFrame.kira:16), from whichever pump it came: once the frame has carried
\* out what was asked, the field a chord named has the keyboard and the find bar is up
\* or down as asked.
ChordHasLastWord ==
  AtRest =>
    /\ last = "address" => focus = Host /\ target = "address"
    /\ last = "find" => focus = Host /\ target = "find" /\ bar.open
    /\ last = "closed" => ~bar.open

\* "A field that kept being routed to would swallow the page's keys" (focus.cpp:182):
\* once a frame has seen the page with the keyboard no field has the keys, unless the
\* page got it back behind the frame's back.
PageHasItsKeys == (AtRest /\ owner = "content" /\ Content(focus) /\ ~bounced) => target = "none"

KeysGoWhereAsked == ChordHasLastWord /\ PageHasItsKeys

\* "Counting it is exact as long as the count is" (find.cpp:11): once a search has its
\* answer the bar says how many matches the page has and which one it shows, and
\* without a search it says nothing, as long as no search met another or a close on the
\* other thread, none went backwards to a text that is new, the page in front stayed what
\* it was and does not go on with what was found in it before it was left.
CountIsExact ==
  (~Unanswered /\ ~muddled /\ shown \in known /\ \A th \in Threads : calls[th] = Idle) =>
    IF ~Searching THEN bar.count = 0 /\ bar.index = 0 /\ ~bar.searched
    ELSE /\ bar.searched /\ bar.count = MatchesOf[bar.query]
         /\ bar.index = marked[shown].place

\* "The level its every page opens at, in this tab and in any other" (zoom.cpp:8): in
\* the end every page of a site is shown at the site's level, whatever navigated while
\* it was set, unless both threads set levels at once, a page left and came back
\* unseen, or a level meant for a page without a site reached another.
ZoomSettles ==
  <>[](missed \/ at.step \in {"last write", "over"}
       \/ \A t \in open : SiteOf[url[t]] # NoSite => factor[t] = LevelOf(url[t]))

\* The keyboard does not stay with a page that is hidden, or with nothing, while the
\* browser is in front (focus.cpp:149-164).
KeyboardSettles ==
  <>[](~foreground \/ at.step \in {"last write", "over"} \/ focus = Host \/ focus = selected)
=============================================================================
