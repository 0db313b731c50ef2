------------------------------ MODULE Library ------------------------------
(***************************************************************************)
(* Bookmarks and history as the browser keeps them: edited by the frame     *)
(* thread, recorded by the WebKit thread, written behind their backs by a   *)
(* worker once they have stood still, flushed as the process ends, and read *)
(* again by the next one                                                    *)
(* (browser/NativeLibs/harmony_bookmarks_{file,webkit,api}.cpp).            *)
(*                                                                         *)
(* One mutex covers both models, so each edit is one step.  A file that is  *)
(* moved over another replaces it whole.                                    *)
(***************************************************************************)
EXTENDS BookmarkTree

CONSTANTS
  URLs,        \* the addresses
  Tabs,        \* the tabs that report their pages
  Found,       \* the lines of the bookmarks file, and the visits of the history file, at first
  Indices,     \* the places a person may name
  MaxEvents,   \* bound: edits and visits in all processes
  MaxTime,     \* bound: the clock
  MaxRuns      \* bound: processes, one after the other

ASSUME LibraryAssumption == MaxEvents \in Nat /\ MaxTime \in Nat /\ MaxRuns \in Nat \ {0}

\* The files there are at first were written by a process before: a history in order, no
\* visit of which is ahead of the clock, and the lines of a tree.
ASSUME FoundAssumption ==
  /\ DOMAIN Found = {"history", "bookmarks"}
  /\ LET h == Found["history"]
     IN  /\ h \in [DOMAIN h -> Seq(Int)] /\ DOMAIN h \subseteq URLs /\ IsFiniteSet(DOMAIN h)
         /\ InOrder(h) /\ \A u \in DOMAIN h : \A i \in 1..Len(h[u]) : h[u][i] <= 1
  /\ EncodeTree(DecodeTree(Found["bookmarks"])) = Found["bookmarks"]

VARIABLES
  tree,        \* g_nodes
  nextId,      \* g_nextId
  entries,     \* g_entries of the history
  committed,   \* g_records: the address each tab has last committed
  mark,        \* g_historyDirtySince and g_bookmarksDirtySince
  work,        \* the worker's queue
  pen,         \* what each writer has in its temporary file
  flushing,    \* what filesFlush has encoded and not yet written
  disk,        \* the two files
  now,         \* the clock
  stage,       \* the process: running, being torn down, over
  events,      \* edits and visits so far, for the bound
  runs,        \* processes so far, for the bound
  past,        \* history: the models as they were when this process read and encoded them
  disturbed    \* history: a write failed, or two writers met

models == <<tree, nextId, entries>>
writing == <<mark, work, pen, flushing, disk>>
vars == <<models, committed, writing, now, stage, events, runs, past, disturbed>>

Models == {"history", "bookmarks"}
Writers == {"worker", "flusher"}
Marks == {"clean", "fresh", "settled"}
NoPen == [busy |-> FALSE, of |-> "history", holds |-> <<>>]

\* What encodeHistoryLocked and encodeBookmarksLocked make of the models.
Encoded(m) == IF m = "history" THEN entries ELSE EncodeTree(tree)
Parts(m) == IF m = "history" THEN entries ELSE tree

\* A job for a writer.
Copy(m) == [of |-> m, holds |-> Encoded(m)]

-----------------------------------------------------------------------------
(* Edits.  Whatever changes a model marks it, and the wait begins again.    *)

\* A change of model m to what the operation made of it.
Changes(m) ==
  /\ mark' = [mark EXCEPT ![m] = "fresh"]
  /\ events' = events + 1
  /\ UNCHANGED <<work, pen, flushing, disk, now, stage, runs, past, disturbed>>

Edits == stage = "up" /\ events < MaxEvents

\* hb_bookmarks_add and hb_bookmarks_add_folder.
AddNode(parent, index, url) ==
  /\ Edits /\ IsFolder(tree, parent)
  /\ tree' = Added(tree, nextId, IF url = NoURL THEN Folder(parent) ELSE Bookmark(parent, url), index)
  /\ nextId' = nextId + 1
  /\ Changes("bookmarks")
  /\ UNCHANGED <<entries, committed>>

\* hb_bookmarks_remove.
RemoveNode(id) ==
  /\ Edits /\ id \in DOMAIN tree \ RootIds
  /\ tree' = Removed(tree, id)
  /\ Changes("bookmarks")
  /\ UNCHANGED <<nextId, entries, committed>>

\* hb_bookmarks_move, where it moves anything.
MoveNode(id, parent, index) ==
  /\ Edits
  /\ Moved(tree, id, parent, index) # tree
  /\ tree' = Moved(tree, id, parent, index)
  /\ Changes("bookmarks")
  /\ UNCHANGED <<nextId, entries, committed>>

\* hb_bookmarks_set_url.
SetURL(id, url) ==
  /\ Edits
  /\ id \in DOMAIN tree /\ ~tree[id].folder /\ tree[id].url # url
  /\ tree' = [tree EXCEPT ![id].url = url]
  /\ Changes("bookmarks")
  /\ UNCHANGED <<nextId, entries, committed>>

\* hb_bookmarks_toggle.
Toggle(url) ==
  /\ Edits
  /\ IF NodesFor(tree, url) # {}
     THEN tree' = Unfiled(tree, url) /\ UNCHANGED nextId
     ELSE tree' = Added(tree, nextId, Bookmark(Bar, url), -1) /\ nextId' = nextId + 1
  /\ Changes("bookmarks")
  /\ UNCHANGED <<entries, committed>>

\* Mutant: a report for a document that is known records it again.
ReportedAgain(t, u) == entries' \in Recorded(entries, u, now)

\* pageStateChanged: a document that is new to the tab is a visit; of one that is
\* known only the name can be new, and a name makes no entry.
Reported(t, u) ==
  IF committed[t] # u THEN entries' \in Recorded(entries, u, now) ELSE UNCHANGED entries

\* WebKit reports something of the page a tab shows, or that it has committed u.
PageReports(t, u) ==
  /\ stage = "up" /\ (committed[t] # u => events < MaxEvents)
  /\ Reported(t, u)
  /\ committed' = [committed EXCEPT ![t] = u]
  /\ IF committed[t] # u \/ entries' # entries THEN Changes("history")
     ELSE UNCHANGED <<writing, now, stage, events, runs, past, disturbed>>
  /\ UNCHANGED <<tree, nextId>>

\* pageDestroying: the tab's record goes.
PageGoes(t) ==
  /\ stage = "up" /\ committed[t] # NoURL
  /\ committed' = [committed EXCEPT ![t] = NoURL]
  /\ UNCHANGED <<models, writing, now, stage, events, runs, past, disturbed>>

\* hb_history_forget_url and hb_history_forget_host.
ForgetURLs(urls) ==
  /\ Edits /\ urls \cap DOMAIN entries # {}
  /\ entries' = Forgotten(entries, urls)
  /\ Changes("history")
  /\ UNCHANGED <<tree, nextId, committed>>

\* hb_history_forget_since.
ForgetSince(since) ==
  /\ Edits /\ ForgottenSince(entries, since) # entries
  /\ entries' = ForgottenSince(entries, since)
  /\ Changes("history")
  /\ UNCHANGED <<tree, nextId, committed>>

-----------------------------------------------------------------------------
(* Writing.                                                                 *)

Tick ==
  /\ stage = "up" /\ now < MaxTime /\ now' = now + 1
  /\ UNCHANGED <<models, committed, writing, stage, events, runs, past, disturbed>>

\* Mutant: one model waits for the other to have stood still too.
BothStoodStill(m) == \A o \in Models : mark[o] = "fresh" <=> o = m

\* kSettleSeconds pass without a change of this model, whatever the other does.
StoodStill(m) == mark[m] = "fresh"

Settle(m) ==
  /\ stage = "up" /\ StoodStill(m)
  /\ mark' = [mark EXCEPT ![m] = "settled"]
  /\ UNCHANGED <<models, committed, work, pen, flushing, disk, now, stage, events, runs, past, disturbed>>

\* The mark goes as the model is encoded, both under the lock.
TakeMark(m) == mark' = [mark EXCEPT ![m] = "clean"]

\* filesPump, for one of the models.
Pump(m) ==
  /\ stage = "up" /\ mark[m] = "settled"
  /\ TakeMark(m)
  /\ work' = Append(work, Copy(m))
  /\ past' = [past EXCEPT ![m] = @ \cup {Parts(m)}]
  /\ UNCHANGED <<models, committed, pen, flushing, disk, now, stage, events, runs, disturbed>>

\* What filesFlush writes: whatever is marked, settled or not.
Due(m) == mark[m] # "clean"

\* engineTeardown: no more reports, and filesFlush encodes what is marked.
Teardown ==
  /\ stage = "up"
  /\ stage' = "ending"
  /\ committed' = [t \in Tabs |-> NoURL]
  /\ flushing' = (IF Due("history") THEN <<Copy("history")>> ELSE <<>>) \o (IF Due("bookmarks") THEN <<Copy("bookmarks")>> ELSE <<>>)
  /\ mark' = [m \in Models |-> "clean"]
  /\ past' = [m \in Models |-> past[m] \cup {Parts(m)}]
  /\ UNCHANGED <<models, work, pen, disk, now, events, runs, disturbed>>

Jobs(w) == IF w = "worker" THEN work ELSE flushing
TakeJob(w) ==
  IF w = "worker" THEN work' = Tail(work) /\ UNCHANGED flushing
  ELSE flushing' = Tail(flushing) /\ UNCHANGED work
Meets(w, m) == \E v \in Writers \ {w} : pen[v].busy /\ pen[v].of = m

\* writeFileAtomically, as far as the temporary file: one that another writer has
\* open cannot be opened, and the write is given up.
OpenFile(w) ==
  /\ stage # "over" /\ ~pen[w].busy /\ Jobs(w) # <<>>
  /\ TakeJob(w)
  /\ LET j == Head(Jobs(w))
     IN  IF Meets(w, j.of) THEN disturbed' = TRUE /\ UNCHANGED pen
         ELSE /\ pen' = [pen EXCEPT ![w] = [busy |-> TRUE, of |-> j.of, holds |-> j.holds]]
              /\ disturbed' = (disturbed \/ \E v \in Writers \ {w}, n \in 1..Len(work) : w = "flusher" /\ work[n].of = j.of)
  /\ UNCHANGED <<models, committed, mark, disk, now, stage, events, runs, past>>

\* Mutant: the file itself is written, and is short when the write fails.
MovedOrCut(w, ok) == disk' = [disk EXCEPT ![pen[w].of] = IF ok THEN pen[w].holds ELSE <<>>]

\* MoveFileEx, or the temporary file is deleted and the file stays.
MovedOver(w, ok) == disk' = IF ok THEN [disk EXCEPT ![pen[w].of] = pen[w].holds] ELSE disk

\* ... and the rest of it.
FinishFile(w, ok) ==
  /\ stage # "over" /\ pen[w].busy
  /\ pen' = [pen EXCEPT ![w] = NoPen]
  /\ MovedOver(w, ok)
  /\ disturbed' = (disturbed \/ ~ok)
  /\ UNCHANGED <<models, committed, mark, work, flushing, now, stage, events, runs, past>>

Quiet == work = <<>> /\ flushing = <<>> /\ \A w \in Writers : ~pen[w].busy

\* hb_bookmarks_shutdown: filesStop waits for the worker to have done what is queued.
Shutdown ==
  /\ stage = "ending" /\ Quiet
  /\ stage' = "over"
  /\ UNCHANGED <<models, committed, writing, now, events, runs, past, disturbed>>

-----------------------------------------------------------------------------
(* Processes.                                                               *)

\* filesLoad, once the profile has a directory: both models as the files have them.
Load ==
  /\ tree' = DecodeTree(disk["bookmarks"]) /\ nextId' = NextIdAfter(tree')
  /\ entries' = DecodedHistory(disk["history"])

\* The process is over, or is killed at any moment, and the next one loads.
Restart ==
  /\ runs < MaxRuns
  /\ Load
  /\ committed' = [t \in Tabs |-> NoURL]
  /\ mark' = [m \in Models |-> "clean"] /\ work' = <<>> /\ flushing' = <<>>
  /\ pen' = [w \in Writers |-> NoPen]
  /\ stage' = "up" /\ runs' = runs + 1 /\ disturbed' = FALSE
  /\ past' = [past EXCEPT !["history"] = {entries'}, !["bookmarks"] = {tree'}]
  /\ UNCHANGED <<disk, now, events>>

Init ==
  /\ disk = Found
  /\ tree = DecodeTree(Found["bookmarks"]) /\ nextId = NextIdAfter(tree)
  /\ entries = DecodedHistory(Found["history"])
  /\ committed = [t \in Tabs |-> NoURL]
  /\ mark = [m \in Models |-> "clean"] /\ work = <<>> /\ flushing = <<>>
  /\ pen = [w \in Writers |-> NoPen]
  /\ now = 1 /\ stage = "up" /\ events = 0 /\ runs = 1
  /\ past = [m \in Models |-> {Parts(m)}] /\ disturbed = FALSE

Ids == 1..nextId

PersonStep ==
  \/ \E p \in Ids, i \in Indices, u \in URLs \cup {NoURL} : AddNode(p, i, u)
  \/ \E n \in Ids : RemoveNode(n)
  \/ \E n, p \in Ids, i \in Indices : MoveNode(n, p, i)
  \/ \E n \in Ids, u \in URLs : SetURL(n, u)
  \/ \E u \in URLs : Toggle(u)
  \/ \E u \in URLs : ForgetURLs({u})
  \/ ForgetURLs(URLs)
  \/ \E s \in 1..MaxTime : ForgetSince(s)

PageStep == \E t \in Tabs : PageGoes(t) \/ \E u \in URLs : PageReports(t, u)

Next ==
  \/ PersonStep
  \/ PageStep
  \/ Tick
  \/ \E m \in Models : Settle(m) \/ Pump(m)
  \/ Teardown
  \/ \E w \in Writers : OpenFile(w) \/ \E ok \in BOOLEAN : FinishFile(w, ok)
  \/ Shutdown
  \/ Restart

\* The clock goes on, the WebKit thread goes round its loop, and the writers write.
Fairness ==
  /\ \A m \in Models : WF_vars(Settle(m)) /\ WF_vars(Pump(m))
  /\ \A w \in Writers : WF_vars(OpenFile(w)) /\ WF_vars(\E ok \in BOOLEAN : FinishFile(w, ok))

Spec == Init /\ [][Next]_vars /\ Fairness

-----------------------------------------------------------------------------
(* What the code promises.                                                  *)

\* The tree is a tree: every node but a root is a child, once, of the folder it calls
\* its parent, the folders' lists name nothing else, and everything hangs from the two
\* roots, so that the walk that draws it ends (tree.cpp:217-221).
TreeIsATree ==
  /\ RootIds \subseteq DOMAIN tree /\ \A i \in DOMAIN tree : i < nextId
  /\ \A i \in DOMAIN tree \ RootIds :
       /\ IsFolder(tree, tree[i].parent)
       /\ Cardinality({n \in 1..Len(tree[tree[i].parent].children) : tree[tree[i].parent].children[n] = i}) = 1
  /\ \A i \in DOMAIN tree : \A c \in Range(tree[i].children) : c \in DOMAIN tree /\ tree[c].parent = i
  /\ UNION {Subtree(tree, r) : r \in RootIds} = DOMAIN tree

\* What would be written of the tree, read back, is the tree.
TreeReadsBack == DecodeTree(EncodeTree(tree)) = tree

HistoryIsInOrder == InOrder(entries)

TypeOK ==
  /\ \A i \in DOMAIN tree : tree[i].folder <=> tree[i].url = NoURL
  /\ DOMAIN entries \subseteq URLs
  /\ committed \in [Tabs -> URLs \cup {NoURL}]
  /\ mark \in [Models -> Marks]
  /\ \A w \in Writers : pen[w].busy => pen[w].of \in Models
  /\ now \in 1..MaxTime /\ stage \in {"up", "ending", "over"} /\ runs \in 1..MaxRuns /\ disturbed \in BOOLEAN

\* The models have their type, the tree is a tree that comes back from its lines as it is,
\* and the history is in order, also when they have just been read.
LibraryConsistent == TypeOK /\ TreeIsATree /\ TreeReadsBack /\ HistoryIsInOrder

\* What a file holds at any moment, read back, is what its model once was, with every
\* folder, bookmark and visit in its place: a kill at any point, a write that fails and
\* two writers that meet leave an older model, never a torn or a mixed one.
ReadsBackAsItWas ==
  /\ DecodeTree(disk["bookmarks"]) \in past["bookmarks"]
  /\ DecodedHistory(disk["history"]) \in past["history"]

\* Once nothing is marked, queued or being written, the files hold the models, unless
\* a write failed or the flush met the worker.
FilesAreCurrent ==
  (~disturbed /\ Quiet /\ \A m \in Models : mark[m] = "clean") => \A m \in Models : disk[m] = Encoded(m)

\* What the files hold: a state the model was in, and the last one when nothing is
\* under way.
FilesHoldTheModels == ReadsBackAsItWas /\ FilesAreCurrent

\* What is marked as changed is given to a write in the end, which may fail, or the
\* process ends.
FilesCatchUp ==
  \A m \in Models : (mark[m] # "clean") ~> (stage # "up" \/ (mark[m] = "clean" /\ Quiet))

\* A visit that was forgotten, or fell to a cap, comes back only with a restart: a page
\* that is still open and goes on reporting is not taken for visited again, until it
\* commits another document.
ForgottenStaysForgotten ==
  [][\A u \in URLs : (u \notin DOMAIN entries /\ u \in DOMAIN entries') =>
       \/ runs' # runs
       \/ \E t \in Tabs : committed[t] # u /\ committed'[t] = u]_vars

=============================================================================
