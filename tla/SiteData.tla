------------------------------ MODULE SiteData ------------------------------
(***************************************************************************)
(* What the sites of the profile have stored: the list of it, its removal   *)
(* and the ledger of the sites that were visited                            *)
(* (browser/NativeLibs/harmony_data_store_{records,remove,origins}.cpp).    *)
(*                                                                         *)
(* Three threads of the browser take part.  The WebKit thread drives a      *)
(* removal and a listing one step per cycle and hears WebKit's answers      *)
(* between two cycles; the worker walks, measures and deletes files; the    *)
(* frame thread asks.  The network process of WebKit is a fourth party: it  *)
(* keeps what pages write in memory until it is told, or likes, to write.   *)
(*                                                                         *)
(* A file is "old" when it was written before the range a person clears and *)
(* "new" when it was written within it.  Byte counts, hosts and the names   *)
(* of the directories are left out.                                         *)
(***************************************************************************)
EXTENDS Integers, FiniteSets, SequencesExt

CONSTANTS
  Sites,       \* the origins that are visited, or embedded by one another
  NoSite,      \* no origin: the request is for the whole profile
  Found,       \* what the profile holds as the process starts: item -> age
  Visited,     \* what the ledger holds then: site -> age
  Clearings,   \* the requests a person may make
  Writes,      \* the items pages may write
  MaxAsks,     \* bound: requests to remove
  MaxEvents,   \* bound: requests to remove and to list, navigations and writes of pages
  Held,        \* the items of which the files may be held open, and not be deleted
  CanFail      \* whether a write of the ledger may fail

ASSUME SiteDataAssumption ==
  NoSite \notin Sites /\ MaxAsks \in Nat /\ MaxEvents \in Nat /\ CanFail \in BOOLEAN

VARIABLES
  open,        \* the sites the tabs show
  revised,     \* the tab list has a revision sessionPump has not seen
  settling,    \* g_dirtySince
  memory,      \* what the network process holds and has not written
  files,       \* the profile's files
  ledger,      \* g_ledger: when each site was last seen
  dirty,       \* g_ledgerDirty
  ledgerFile,  \* the ledger's file
  queue,       \* g_queue
  clearing,    \* g_pending of the removal
  phase,       \* g_phase of the removal
  request,     \* g_request
  token,       \* g_stepToken
  outstanding, \* g_outstanding
  asked,       \* what WebKit has been asked and has not answered
  late,        \* the deadline of the step has passed
  work,        \* the worker's queue
  done,        \* g_workFinished
  requested,   \* g_requested of the list
  listing,     \* g_phase of the list
  scanned,     \* g_scanFinished
  published,   \* g_published: the sites on the list
  reading,     \* the list the worker has put together and not yet published
  frame,       \* what the frame thread is about to set
  asks,        \* requests to remove so far, for the bound
  events,      \* asks, looks, writes and visits so far, for the bound
  condemned,   \* history: what the removal under way has to take
  unsaved,     \* history: what was only in memory as the flush began
  overtaken    \* history: a removal ended between the push and the flag of its request

siteVars == <<open, revised, settling, memory, files>>
ledgerVars == <<ledger, dirty, ledgerFile>>
removalVars == <<queue, clearing, phase, request, token, outstanding, asked, late, done>>
listVars == <<requested, listing, scanned, published, reading>>
history == <<condemned, unsaved, overtaken>>
vars == <<siteVars, ledgerVars, removalVars, listVars, work, frame, asks, events, history>>

-----------------------------------------------------------------------------
(* What is stored.  An item is what one site stored while another, or it-   *)
(* self, was the site in front: <<in front, stored by, kind>>.  The cookies *)
(* are one file for all.                                                    *)

StorageKinds == {"local", "dom"}
Jar == <<NoSite, NoSite, "cookies">>
Items == (Sites \X Sites \X StorageKinds) \cup {Jar}
Ages == {"none", "old", "new"}

Stored(i) == files[i] # "none" \/ i \in memory
HasData(s) == \E i \in Items \ {Jar} : i[2] = s /\ Stored(i)
OnDisk(s) == \E i \in Items \ {Jar} : i[2] = s /\ files[i] # "none"
NamesOfCaches == {i[2] : i \in {j \in Items : j[3] = "dom" /\ Stored(j)}}

Requests == [origin : Sites \cup {NoSite}, types : SUBSET (StorageKinds \cup {"cookies"}), recent : BOOLEAN]
NoRequest == [origin |-> NoSite, types |-> {}, recent |-> FALSE]

\* A person clears a site, whole, or kinds of data of a range (remove.cpp:396-420).
ASSUME ProfileAssumption ==
  /\ Found \in [Items -> Ages] /\ Visited \in [Sites -> Ages] /\ Writes \cup Held \subseteq Items
  /\ Clearings \subseteq Requests /\ \A r \in Clearings : r.origin # NoSite => ~r.recent

\* originStorageDirectories: the trees of a site are the one it is in front of, with
\* what others stored there, and its own under the others.
TreesOf(s) == {i \in Items \ {Jar} : s \in {i[1], i[2]}}

\* affectedTrees.
Matches(r, i) == IF r.origin # NoSite THEN i \in TreesOf(r.origin) ELSE i[3] \in r.types

\* What was written before the cutoff of the request is older than its range.
InRange(r, i) == r.recent => files[i] = "new"

\* What removeTree finds to delete: what was written before the cutoff is left.
ToSweep(r) == {i \in Items : files[i] # "none" /\ Matches(r, i) /\ InRange(r, i)}

\* The files that cannot be deleted stay, and nobody is told.
Swept(r, stays) == [i \in Items |-> IF i \in ToSweep(r) \ stays THEN "none" ELSE files[i]]

\* What request r has to take of what is there as it is begun.  The jar has no
\* ages: it goes whole.
ToTake(r) ==
  {i \in Items : Matches(r, i) /\ Stored(i) /\ (InRange(r, i) \/ i \in memory \/ i = Jar)}

-----------------------------------------------------------------------------
(* The ledger: each of these holds g_ledgerMutex once.                      *)

Known(s) == ledger[s] # "none"

\* ledgerNote, for each tab.
Noted == [s \in Sites |-> IF s \in open THEN "new" ELSE ledger[s]]

\* ledgerForget, ledgerClear and ledgerForgetSince, as finishRequest chooses.
Remaining(r) ==
  [s \in Sites |->
     IF \/ r.origin = s
        \/ /\ r.origin = NoSite /\ r.types # {}
           /\ r.recent => ledger[s] = "new"
     THEN "none" ELSE ledger[s]]

\* ledgerSave on the ledger l, changed if d: the mark goes as the text is taken,
\* and comes back when the file could not be opened, or not be written whole.
Saved(l, d) ==
  IF ~d THEN ledger' = l /\ UNCHANGED <<dirty, ledgerFile>>
  ELSE /\ ledger' = l
       /\ \/ ledgerFile' = l /\ dirty' = FALSE
          \/ CanFail /\ dirty' = TRUE /\ \E file \in {ledgerFile, [s \in Sites |-> "none"]} : ledgerFile' = file

-----------------------------------------------------------------------------
(* The pages and the network process.                                       *)

\* A tab comes to show s.
Visit(s) ==
  /\ events < MaxEvents /\ s \notin open
  /\ open' = open \cup {s}
  /\ revised' = TRUE
  /\ events' = events + 1
  /\ UNCHANGED <<settling, memory, files, ledgerVars, removalVars, listVars, work, frame, asks, history>>

\* A page stores something, for itself or for a site it embeds, or gets a cookie.
PageWrites(i) ==
  /\ events < MaxEvents
  /\ IF i = Jar THEN open # {} ELSE i[1] \in open
  /\ IF i = Jar THEN files' = [files EXCEPT ![i] = "new"] /\ UNCHANGED memory
     ELSE memory' = memory \cup {i} /\ UNCHANGED files
  /\ condemned' = condemned \ {i} /\ unsaved' = unsaved \ {i}
  /\ events' = events + 1
  /\ UNCHANGED <<open, revised, settling, ledgerVars, removalVars, listVars, work, frame, asks, overtaken>>

\* What is in memory in S reaches the disk.
Written(S) ==
  /\ files' = [i \in Items |-> IF i \in S THEN "new" ELSE files[i]]
  /\ memory' = memory \ S

\* The network process writes by itself.
NetworkWrites(i) ==
  /\ i \in memory
  /\ Written({i})
  /\ UNCHANGED <<open, revised, settling, ledgerVars, removalVars, listVars, work, frame, asks, events, history>>

-----------------------------------------------------------------------------
(* What WebKit is asked during a removal, and how it answers.               *)

ForKind(k) == {i \in Items : i[3] = k}

\* The items in S go, from the disk and from memory.
Removed(S) ==
  /\ files' = [i \in Items |-> IF i \in S THEN "none" ELSE files[i]]
  /\ memory' = memory \ S

\* What WebKit has done to the profile when it answers.
Effect(a) ==
  CASE a.does = "sync" -> Written(memory \cap ForKind("local"))
    [] a.does = "flush" -> Written(memory \ ForKind("local"))
    [] a.does = "cachesOf" -> Removed({i \in ForKind("dom") : i[2] = a.of})
    [] a.does = "tracking" -> Removed({})
    [] OTHER -> Removed(ForKind(a.does))

\* Mutant: an answer counts for the step under way, whichever it belongs to.
CountAny(a) == outstanding' = IF outstanding > 0 THEN outstanding - 1 ELSE 0

\* finishStep: an answer counts for the step it was asked in.
CountOwn(a) == outstanding' = IF a.step = token /\ outstanding > 0 THEN outstanding - 1 ELSE outstanding

\* WebKit answers, in any order, late, or never.
Answers(a) ==
  /\ a \in asked
  /\ Effect(a)
  /\ CountOwn(a)
  /\ asked' = asked \ {a}
  /\ UNCHANGED <<open, revised, settling, ledgerVars, queue, clearing, phase, request, token, late, done, listVars, work, frame, asks, events, history>>

\* beginStep, and what the step asks.
Asking(doing) ==
  /\ token' = token + 1
  /\ outstanding' = Cardinality(doing)
  /\ asked' = asked \cup {[step |-> token + 1, does |-> d, of |-> request.origin] : d \in doing}
  /\ late' = FALSE

\* The removals WebKit is asked for by startEngineRemovals.
EngineWork(r) ==
  IF r.origin # NoSite THEN {"cachesOf", "tracking"}
  ELSE (r.types \cap {"cookies"}) \cup (IF r.recent THEN {} ELSE r.types \cap StorageKinds)

-----------------------------------------------------------------------------
(* The removal, one step per cycle (removalPump).  The three pumps of a     *)
(* cycle run in a fixed order, and WebKit answers between two cycles; here  *)
(* they and the answers come in any order, which allows more.               *)

Submit(job) == work' = Append(work, job)

\* takeNextRequest, startMeasuring: the cutoff is decided here, once.
TakeRequest ==
  /\ phase = "idle" /\ queue # <<>>
  /\ request' = Head(queue) /\ queue' = Tail(queue)
  /\ phase' = "measuring" /\ done' = FALSE
  /\ Submit([job |-> "measure", of |-> Head(queue), sites |-> {}])
  /\ condemned' = ToTake(Head(queue))
  /\ UNCHANGED <<siteVars, ledgerVars, clearing, token, outstanding, asked, late, listVars, frame, asks, events, unsaved, overtaken>>

\* startFlushing.
StartFlushing ==
  /\ phase = "measuring" /\ done
  /\ phase' = "flushing" /\ done' = FALSE
  /\ Asking({"sync", "flush"})
  /\ unsaved' = memory
  /\ UNCHANGED <<siteVars, ledgerVars, queue, clearing, request, listVars, work, frame, asks, events, condemned, overtaken>>

\* Mutant: the next step begins whatever the last one still waits for.
NeverWaits == TRUE

\* Mutant: a step waits as long as it takes.
WaitsForEver == outstanding = 0

\* Whether a step that waits on WebKit is over: all have answered, or the deadline
\* has passed.
StepIsOver == outstanding = 0 \/ late

\* startEngineRemovals, once the flush is over.
StartEngine ==
  /\ phase = "flushing" /\ StepIsOver
  /\ phase' = "engine"
  /\ Asking(EngineWork(request))
  /\ unsaved' = IF late /\ outstanding > 0 THEN {} ELSE unsaved
  /\ UNCHANGED <<siteVars, ledgerVars, queue, clearing, request, done, listVars, work, frame, asks, events, condemned, overtaken>>

\* Mutant: the network process is left running.
NotTerminated == UNCHANGED <<memory, asked>>

\* terminateNetworkProcess: what it had in memory is lost, and what it was asked for
\* is neither done nor answered (remove.cpp:45-47).
Terminated == memory' = {} /\ asked' = {}

\* startSweeping.
StartSweeping ==
  /\ phase = "engine" /\ StepIsOver
  /\ phase' = "sweeping" /\ done' = FALSE
  /\ Terminated
  /\ Submit([job |-> "sweep", of |-> request, sites |-> {}])
  /\ condemned' = IF request.recent /\ outstanding > 0 THEN condemned \ {Jar} ELSE condemned
  /\ UNCHANGED <<open, revised, settling, files, ledgerVars, queue, clearing, request, token, outstanding, late, listVars, frame, asks, events, unsaved, overtaken>>

\* The flag stays up while requests wait; they are looked at under the queue's lock.
FlagAfter == IF queue = <<>> THEN FALSE ELSE clearing

\* finishRequest: the ledger forgets, and the list is to be made again
\* (recordsInvalidate).
FinishRequest ==
  /\ phase = "sweeping" /\ done
  /\ Saved(Remaining(request), dirty \/ Remaining(request) # ledger)
  /\ phase' = "idle" /\ request' = NoRequest /\ done' = FALSE
  /\ requested' = TRUE
  /\ clearing' = FlagAfter
  /\ overtaken' = (overtaken \/ (frame = "clearing" /\ queue = <<>>))
  /\ condemned' = {}
  /\ UNCHANGED <<siteVars, queue, token, outstanding, asked, late, listing, scanned, published, reading, work, frame, asks, events, unsaved>>

\* The deadline of a step passes.
TimePasses ==
  /\ phase \in {"flushing", "engine"} /\ ~late /\ outstanding > 0
  /\ late' = TRUE
  /\ UNCHANGED <<siteVars, ledgerVars, queue, clearing, phase, request, token, outstanding, asked, done, listVars, work, frame, asks, events, history>>

-----------------------------------------------------------------------------
(* The list (recordsPump), and the session's part of the cycle.             *)

RecordsPump ==
  /\ \/ /\ listing = "idle" /\ requested
        /\ requested' = FALSE /\ listing' = "asking"
        /\ UNCHANGED scanned
     \/ /\ listing = "scanning" /\ scanned
        /\ scanned' = FALSE /\ listing' = "idle"
        /\ UNCHANGED requested
  /\ UNCHANGED <<siteVars, ledgerVars, removalVars, published, reading, work, frame, asks, events, history>>

\* domCacheOriginsAnswered, the sizes asked one after the other, and startDiskScan.
CachesNamed ==
  /\ listing = "asking"
  /\ listing' = "scanning" /\ scanned' = FALSE
  /\ Submit([job |-> "scan", of |-> NoRequest, sites |-> NamesOfCaches])
  /\ UNCHANGED <<siteVars, ledgerVars, removalVars, requested, published, reading, frame, asks, events, history>>

\* noteOpenOrigins.
NotesOpen == ledger' = Noted /\ dirty' = (dirty \/ Noted # ledger)

\* sessionPump, with the ledger's share of it: a new revision is noted, and once the
\* strip has settled the ledger is saved.
SessionPump ==
  /\ \/ /\ revised
        /\ revised' = FALSE /\ settling' = TRUE
        /\ NotesOpen
        /\ UNCHANGED ledgerFile
     \/ /\ ~revised /\ settling
        /\ settling' = FALSE
        /\ Saved(ledger, dirty)
        /\ UNCHANGED revised
  /\ UNCHANGED <<open, memory, files, removalVars, listVars, work, frame, asks, events, history>>

-----------------------------------------------------------------------------
(* The worker: one job after the other.                                     *)

Working(job) == work # <<>> /\ Head(work).job = job

Measure ==
  /\ Working("measure")
  /\ work' = Tail(work) /\ done' = TRUE
  /\ UNCHANGED <<siteVars, ledgerVars, queue, clearing, phase, request, token, outstanding, asked, late, listVars, frame, asks, events, history>>

Sweep ==
  /\ Working("sweep")
  /\ \E stays \in SUBSET (Held \cap ToSweep(Head(work).of)) :
       /\ files' = Swept(Head(work).of, stays)
       /\ condemned' = condemned \ stays
  /\ work' = Tail(work) /\ done' = TRUE
  /\ UNCHANGED <<open, revised, settling, memory, ledgerVars, queue, clearing, phase, request, token, outstanding, asked, late, listVars, frame, asks, events, unsaved, overtaken>>

\* scan, up to the publication: the sites of the ledger that have something on disk,
\* and those WebKit named.
ScanReads ==
  /\ Working("scan") /\ reading = <<>>
  /\ reading' = <<{s \in Sites : Known(s) /\ OnDisk(s)} \cup Head(work).sites>>
  /\ UNCHANGED <<siteVars, ledgerVars, removalVars, requested, listing, scanned, published, work, frame, asks, events, history>>

ScanPublishes ==
  /\ Working("scan") /\ reading # <<>>
  /\ published' = Head(reading) /\ reading' = <<>>
  /\ scanned' = TRUE /\ work' = Tail(work)
  /\ UNCHANGED <<siteVars, ledgerVars, removalVars, requested, listing, frame, asks, events, history>>

-----------------------------------------------------------------------------
(* The frame thread.                                                        *)

\* hb_data_store_remove_origin and hb_data_store_clear: the request is pushed under
\* the lock, and the flag set without it.
Ask(r) ==
  /\ frame = "idle" /\ asks < MaxAsks /\ events < MaxEvents
  /\ asks' = asks + 1
  /\ queue' = Append(queue, r)
  /\ frame' = "clearing"
  /\ events' = events + 1
  /\ UNCHANGED <<siteVars, ledgerVars, clearing, phase, request, token, outstanding, asked, late, done, listVars, work, history>>

SetFlag ==
  /\ frame = "clearing"
  /\ clearing' = TRUE /\ frame' = "idle"
  /\ UNCHANGED <<siteVars, ledgerVars, queue, phase, request, token, outstanding, asked, late, done, listVars, work, asks, events, history>>

\* hb_data_store_request_records.
Look ==
  /\ frame = "idle" /\ events < MaxEvents
  /\ requested' = TRUE
  /\ events' = events + 1
  /\ UNCHANGED <<siteVars, ledgerVars, removalVars, listing, scanned, published, reading, work, frame, asks, history>>

-----------------------------------------------------------------------------
Init ==
  /\ open = {} /\ revised = FALSE /\ settling = FALSE /\ memory = {} /\ files = Found
  /\ ledger = Visited /\ dirty = FALSE /\ ledgerFile = Visited
  /\ queue = <<>> /\ clearing = FALSE /\ phase = "idle" /\ request = NoRequest
  /\ token = 0 /\ outstanding = 0 /\ asked = {} /\ late = FALSE /\ done = FALSE
  /\ requested = FALSE /\ listing = "idle" /\ scanned = FALSE /\ published = {} /\ reading = <<>>
  /\ work = <<>> /\ frame = "idle"
  /\ asks = 0 /\ events = 0
  /\ condemned = {} /\ unsaved = {} /\ overtaken = FALSE

PageStep ==
  \/ \E s \in Sites : Visit(s)
  \/ \E i \in Writes : PageWrites(i)
  \/ \E i \in Items : NetworkWrites(i)

RemovalPump == TakeRequest \/ StartFlushing \/ StartEngine \/ StartSweeping \/ FinishRequest

WorkerStep == Measure \/ Sweep \/ ScanReads \/ ScanPublishes

FrameStep == (\E r \in Clearings : Ask(r)) \/ SetFlag \/ Look

Next ==
  \/ PageStep
  \/ \E a \in asked : Answers(a)
  \/ RemovalPump
  \/ RecordsPump
  \/ SessionPump
  \/ CachesNamed
  \/ TimePasses
  \/ WorkerStep
  \/ FrameStep

\* The WebKit thread goes round its loop and the worker works; the clock goes on;
\* the frame thread sets the flag it is about to set.  WebKit names its caches in the
\* end, for which the code has no deadline; it need not answer anything else.
Fairness ==
  /\ WF_vars(RemovalPump) /\ WF_vars(RecordsPump) /\ WF_vars(WorkerStep) /\ WF_vars(TimePasses) /\ WF_vars(SetFlag)
  /\ SF_vars(CachesNamed)

Spec == Init /\ [][Next]_vars /\ Fairness

-----------------------------------------------------------------------------
(* What the code promises.                                                  *)

Jobs == [job : {"measure", "sweep", "scan"}, of : Requests, sites : SUBSET Sites]
Questions ==
  [step : Nat, does : {"sync", "flush", "cachesOf", "tracking", "cookies"} \cup StorageKinds,
   of : Sites \cup {NoSite}]

TypeOK ==
  /\ open \subseteq Sites /\ revised \in BOOLEAN /\ settling \in BOOLEAN
  /\ memory \subseteq Items \ {Jar} /\ files \in [Items -> Ages]
  /\ ledger \in [Sites -> Ages] /\ dirty \in BOOLEAN /\ ledgerFile \in [Sites -> Ages]
  /\ queue \in Seq(Requests) /\ clearing \in BOOLEAN
  /\ phase \in {"idle", "measuring", "flushing", "engine", "sweeping"} /\ request \in Requests
  /\ token \in Nat /\ outstanding \in Nat /\ asked \subseteq Questions /\ late \in BOOLEAN /\ done \in BOOLEAN
  /\ requested \in BOOLEAN /\ listing \in {"idle", "asking", "scanning"} /\ scanned \in BOOLEAN
  /\ published \subseteq Sites /\ reading \in Seq(SUBSET Sites)
  /\ work \in Seq(Jobs) /\ frame \in {"idle", "clearing"}
  /\ condemned \subseteq Items /\ unsaved \subseteq Items /\ overtaken \in BOOLEAN

\* A step waits for the answers to its own questions, all of them, and for no other:
\* an answer that comes after its step gave up is not taken for one of the next step
\* (remove.cpp:51-53).
StepsCountTheirOwn ==
  phase \in {"flushing", "engine"} => outstanding = Cardinality({a \in asked : a.step = token})

\* Measuring and sweeping have one job at the worker, or its result, and the list has
\* one while it is scanned.  (The queue has sessions to write in it as well, which the
\* worker takes in their turn: Profile.)
WorkIsAccountedFor ==
  /\ Cardinality({n \in 1..Len(work) : work[n].job # "scan"}) + (IF done THEN 1 ELSE 0)
       = (IF phase \in {"measuring", "sweeping"} THEN 1 ELSE 0)
  /\ Cardinality({n \in 1..Len(work) : work[n].job = "scan"}) + (IF scanned THEN 1 ELSE 0)
       = (IF listing = "scanning" THEN 1 ELSE 0)

\* The file of the ledger is the ledger, unless the ledger is marked as unwritten: a
\* save that failed is remembered until one succeeds.
LedgerFileFollows == dirty \/ ledgerFile = ledger

\* The panel says that it is clearing as long as a request waits or is carried out,
\* once the thread that asked has set the flag: the end of one request does not hide
\* the one that was pushed during it.
ClearingIsShown == (frame = "idle" /\ (queue # <<>> \/ phase # "idle")) => clearing

\* The type of the state, with the answers, the jobs, the ledger's file and the flag
\* accounted for.
SiteDataConsistent ==
  TypeOK /\ StepsCountTheirOwn /\ WorkIsAccountedFor /\ LedgerFileFollows /\ ClearingIsShown

\* What a removal was asked to take is gone when it says that it is done, unless a
\* page has written it again: also what was only in memory, and whichever answers
\* never came.  (Excluded are cookies of a range for which WebKit gave no answer, and
\* files that could not be deleted: the removal ends, and the ledger forgets them.)
AskedIsGone ==
  (phase = "sweeping" /\ phase' = "idle") => 
    \A i \in condemned : i \notin memory /\ (files[i] = "none" \/ (request.recent /\ i # Jar /\ files[i] = "old"))

\* A file goes only while a removal that matches it, and its age, is carried out: no
\* answer that comes late takes what was stored after the removal.
OnlyAskedGoes ==
  \A i \in Items : (files[i] # "none" /\ files'[i] = "none") =>
    /\ phase \in {"engine", "sweeping"}
    /\ IF request.origin = NoSite THEN i[3] \in request.types
       ELSE i # Jar /\ (i[1] = request.origin \/ i[2] = request.origin)
    /\ request.recent => (files[i] = "new" \/ i = Jar)

\* A removal takes what it was asked to take, and nothing else.
RemovesWhatIsAsked == [][AskedIsGone /\ OnlyAskedGoes]_vars

\* The network process is ended for the files' sake, with whatever it holds.  What it
\* held of any site as the removal began to flush is on disk by then, unless WebKit
\* let the deadline of the flush pass (remove.cpp:207-209, 288-290).
UnsavedIsSpared ==
  [][(phase = "engine" /\ phase' = "sweeping") => unsaved \cap memory = {}]_vars

\* A removal ends, although WebKit may never answer what it was asked, and the panel
\* stops saying that it is clearing; and a site whose data is gone leaves the list,
\* also when a list was being put together as the removal ended.  (A flag set after
\* the end of its own removal stays up: excluded by `overtaken'.)
SiteDataSettles ==
  /\ clearing ~> (~clearing \/ overtaken)
  /\ \A s \in Sites : (phase = "idle" /\ s \in published /\ ~HasData(s)) ~> (s \notin published \/ HasData(s))
=============================================================================
