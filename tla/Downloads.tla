----------------------------- MODULE Downloads -----------------------------
(***************************************************************************)
(* The record of downloads, shared by the WebKit thread, which follows each *)
(* of them, and the frame thread, which lists, cancels and forgets them;    *)
(* and the history file both threads write outside the lock                 *)
(* (browser/NativeLibs/harmony_downloads_*.cpp).                            *)
(*                                                                         *)
(* A download stands for its id.  Names, paths and byte counts are left     *)
(* out: with them the record's Running state is the one setDestination      *)
(* sets, for WebKit writes nothing before it has a destination.             *)
(***************************************************************************)
EXTENDS Lists

CONSTANTS
  Downloads,     \* what WebKit may come to download
  URLs,          \* the addresses the pages load
  HistoryLimit,  \* kHistoryLimit: how many ended downloads the file holds
  MaxForced,     \* bound: asks that stand at once
  MaxRuns        \* bound: processes, one after the other

ASSUME DownloadsAssumption == HistoryLimit \in Nat /\ MaxForced \in Nat /\ MaxRuns \in Nat \ {0}

VARIABLES
  records,     \* g_records, the newest first
  cancels,     \* g_cancels
  forced,      \* g_forced: the asks to save an address, and whether each is past its deadline
  disk,        \* the history file
  pen,         \* for each thread, the snapshot it has yet to write
  inHand,      \* the references the WebKit thread gives up after its write
  engine,      \* how far WebKit is with each download
  cancelling,  \* the downloads WebKit has been told to cancel, and has yet to say so
  stage,       \* the process: running, being shut down, torn down
  runs,        \* processes so far, for the bound
  releases,    \* history: how often each reference has been released
  disturbed    \* history: a write has failed, or one thread wrote while the other was about to

vars == <<records, cancels, forced, disk, pen, inHand, engine, cancelling, stage, runs, releases, disturbed>>

Threads == {"webkit", "frame"}
Ends == {"finished", "failed", "cancelled"}
States == {"starting", "running"} \cup Ends
Loads == {"page", "attachment", "unshowable"}
EngineStates == {"none", "coming", "asked", "writing", "refused", "over", "past"}

NoPen == [busy |-> FALSE, list |-> <<>>]

-----------------------------------------------------------------------------
(* The record store: each of these is one hold of g_mutex.                  *)

Live(r) == r.state \notin Ends
Lists(d) == \E r \in Range(records) : r.dl = d
IsLive(d) == \E r \in Range(records) : r.dl = d /\ Live(r)

\* historySnapshotLocked, cut where writeHistory stops.
Snapshot(list) ==
  LET ended == Only(list, {r \in Range(list) : ~Live(r)})
      kept == SubSeq(ended, 1, IF Len(ended) < HistoryLimit THEN Len(ended) ELSE HistoryLimit)
  IN  [i \in 1..Len(kept) |-> [dl |-> kept[i].dl, state |-> kept[i].state]]

\* A snapshot is taken with the lock held, and written by thread t without it.
ToWrite(t, list) ==
  /\ pen' = [pen EXCEPT ![t] = [busy |-> TRUE, list |-> Snapshot(list)]]
  /\ disturbed' = (disturbed \/ \E u \in Threads \ {t} : pen[u].busy)

\* add, and the reference that comes with it.
Added(d) == <<[dl |-> d, state |-> "starting", held |-> TRUE]>> \o records

\* setDestination: what was only asked for is now running.
WithDestination(d) ==
  [i \in 1..Len(records) |->
     IF records[i].dl = d /\ records[i].state = "starting"
     THEN [records[i] EXCEPT !.state = "running"] ELSE records[i]]

Ended(d, s) ==
  [i \in 1..Len(records) |->
     IF records[i].dl = d THEN [dl |-> d, state |-> s, held |-> FALSE] ELSE records[i]]

\* Mutant: the last word counts, not the first.
FinishAgain(d, s) ==
  IF Lists(d)
  THEN /\ records' = Ended(d, s)
       /\ inHand' = inHand \cup {r.dl : r \in {r \in Range(records) : r.dl = d /\ r.held}}
       /\ ToWrite("webkit", records')
  ELSE UNCHANGED <<records, inHand, pen, disturbed>>

\* finish: only a download that has not ended ends; its reference leaves the
\* record, to be released once the history is written.
Finish(d, s) ==
  IF IsLive(d)
  THEN /\ records' = Ended(d, s)
       /\ inHand' = inHand \cup {r.dl : r \in {r \in Range(records) : r.dl = d /\ r.held}}
       /\ ToWrite("webkit", records')
  ELSE UNCHANGED <<records, inHand, pen, disturbed>>

-----------------------------------------------------------------------------
(* The asks: "save this address rather than show it".                       *)

Asked(u) == \E a \in Range(forced) : a.url = u

\* The place of the first ask for u, and of the oldest that still stands; 0 for none.
FirstFor(u) == SelectInSeq(forced, LAMBDA a : a.url = u)
OldestStanding == SelectInSeq(forced, LAMBDA a : ~a.late)

\* The asks without the first one for u.
Without(u) == IF FirstFor(u) = 0 THEN forced ELSE RemoveAt(forced, FirstFor(u))

\* Mutant: the comparison with the deadline the wrong way round.
AsksLeftLate(u) ==
  Only(Without(u), {a \in Range(Without(u)) : a.late})

\* consumeForcedURL: the first ask for u is used up, and what is past its
\* deadline goes with it.
AsksLeft(u) ==
  Only(Without(u), {a \in Range(Without(u)) : ~a.late})

-----------------------------------------------------------------------------
(* The WebKit thread.  While it writes the file it does nothing else.       *)

WebKitRuns == stage \in {"up", "ending"} /\ ~pen["webkit"].busy

\* claimedAsDownload: what a page is about to load is saved when the page says so or
\* the server sends it as an attachment, without a look at the asks; when it has been
\* asked for; and when the engine cannot show it.
Policy(u, d, kind) ==
  /\ WebKitRuns /\ engine[d] = "none"
  /\ engine' = IF kind # "page" \/ Asked(u) THEN [engine EXCEPT ![d] = "coming"] ELSE engine
  /\ forced' = IF kind = "attachment" THEN forced ELSE AsksLeft(u)
  /\ UNCHANGED <<records, cancels, disk, pen, inHand, cancelling, stage, runs, releases, disturbed>>

\* hb_downloads_adopt: the registry hands the download over; its reference is kept.
Adopt(d) ==
  /\ WebKitRuns /\ engine[d] = "coming"
  /\ engine' = [engine EXCEPT ![d] = "asked"]
  /\ records' = Added(d)
  /\ UNCHANGED <<cancels, forced, disk, pen, inHand, cancelling, stage, runs, releases, disturbed>>

\* decideDestinationWithResponse, when the file gets a name.
DecideDestination(d) ==
  /\ WebKitRuns /\ engine[d] = "asked"
  /\ records' = WithDestination(d)
  /\ engine' = [engine EXCEPT ![d] = "writing"]
  /\ UNCHANGED <<cancels, forced, disk, pen, inHand, cancelling, stage, runs, releases, disturbed>>

\* ... and when there is no folder or no name: the record ends here, and WebKit,
\* given nowhere to write, is yet to say that the download failed.
RefuseDestination(d) ==
  /\ WebKitRuns /\ engine[d] = "asked"
  /\ Finish(d, "failed")
  /\ engine' = [engine EXCEPT ![d] = "refused"]
  /\ UNCHANGED <<cancels, forced, disk, cancelling, stage, runs, releases>>

\* didFinish and didFailWithError; code 302 is a cancellation.
Over(d, s) ==
  /\ WebKitRuns
  /\ engine[d] \in (IF s = "finished" THEN {"writing"} ELSE {"asked", "writing", "refused"})
  /\ Finish(d, s)
  /\ engine' = [engine EXCEPT ![d] = "over"]
  /\ UNCHANGED <<cancels, forced, disk, cancelling, stage, runs, releases>>

\* didCancel: comes for every cancellation, also of what is over meanwhile.
DidCancel(d) ==
  /\ WebKitRuns /\ d \in cancelling
  /\ cancelling' = cancelling \ {d}
  /\ Finish(d, "cancelled")
  /\ engine' = [engine EXCEPT ![d] = "over"]
  /\ UNCHANGED <<cancels, forced, disk, stage, runs, releases>>

\* Mutant: the cancel is taken from the queue and WebKit is not told.
PumpForgetting ==
  /\ WebKitRuns /\ cancels # <<>>
  /\ cancels' = Tail(cancels)
  /\ UNCHANGED <<records, forced, disk, pen, inHand, engine, cancelling, stage, runs, releases, disturbed>>

\* One turn of hb_downloads_pump.  Nothing of what the frame thread does between
\* its two looks at the store matters: it ends no download.
Pump ==
  /\ WebKitRuns /\ cancels # <<>>
  /\ cancels' = Tail(cancels)
  /\ LET d == Head(cancels)
     IN  IF \E r \in Range(records) : r.dl = d /\ Live(r) /\ r.held
         THEN cancelling' = cancelling \cup {d} /\ UNCHANGED <<records, inHand, pen, disturbed>>
         ELSE Finish(d, "cancelled") /\ UNCHANGED cancelling
  /\ UNCHANGED <<forced, disk, engine, stage, runs, releases>>

\* hb_downloads_shutdown, from the registry's teardown: every reference is taken
\* out of its record, whose state stays what it was.
Teardown ==
  /\ stage = "ending" /\ WebKitRuns
  /\ stage' = "down"
  /\ inHand' = {r.dl : r \in {r \in Range(records) : r.held}}
  /\ records' = [i \in 1..Len(records) |-> [records[i] EXCEPT !.held = FALSE]]
  /\ cancels' = <<>> /\ forced' = <<>>
  /\ ToWrite("webkit", records)
  /\ UNCHANGED <<disk, engine, cancelling, runs, releases>>

-----------------------------------------------------------------------------
(* The frame thread: what a person asks of the list, which may no longer be *)
(* what they see.                                                           *)

FrameRuns == stage = "up" /\ ~pen["frame"].busy

\* queueCancel: a live download, once.
Cancel(d) ==
  /\ FrameRuns /\ IsLive(d) /\ d \notin Range(cancels)
  /\ cancels' = Append(cancels, d)
  /\ UNCHANGED <<records, forced, disk, pen, inHand, engine, cancelling, stage, runs, releases, disturbed>>

\* remove: what has not ended stays.
RemoveRecord(d) ==
  /\ FrameRuns /\ Lists(d) /\ ~IsLive(d)
  /\ records' = Only(records, {r \in Range(records) : r.dl # d})
  /\ ToWrite("frame", records')
  /\ UNCHANGED <<cancels, forced, disk, inHand, engine, cancelling, stage, runs, releases>>

\* Mutant: the list is cleared, the file is not.
ClearFinishedOnly ==
  /\ FrameRuns /\ \E r \in Range(records) : ~Live(r)
  /\ records' = Only(records, {r \in Range(records) : Live(r)})
  /\ UNCHANGED <<cancels, forced, disk, pen, inHand, engine, cancelling, stage, runs, releases, disturbed>>

\* clearTerminal.
ClearFinished ==
  /\ FrameRuns /\ \E r \in Range(records) : ~Live(r)
  /\ records' = Only(records, {r \in Range(records) : Live(r)})
  /\ ToWrite("frame", records')
  /\ UNCHANGED <<cancels, forced, disk, inHand, engine, cancelling, stage, runs, releases>>

\* downloadsSaveLinkAs: the ask; the load it is meant for is a load like any other.
SaveLinkAs(u) ==
  /\ FrameRuns /\ Len(forced) < MaxForced
  /\ forced' = Append(forced, [url |-> u, late |-> FALSE])
  /\ UNCHANGED <<records, cancels, disk, pen, inHand, engine, cancelling, stage, runs, releases, disturbed>>

\* harmonyBrowserShutdown reaches the registry, whose thread the host waits for.
BeginShutdown ==
  /\ FrameRuns
  /\ stage' = "ending"
  /\ UNCHANGED <<records, cancels, forced, disk, pen, inHand, engine, cancelling, runs, releases, disturbed>>

-----------------------------------------------------------------------------
(* The file, the clock, and the end of the process.                         *)

\* Thread t writes, or fails to and leaves the file that is there; the WebKit
\* thread then releases what it took out of the records.
Write(t, ok) ==
  /\ pen[t].busy
  /\ disk' = IF ok THEN pen[t].list ELSE disk
  /\ disturbed' = (disturbed \/ ~ok)
  /\ pen' = [pen EXCEPT ![t] = NoPen]
  /\ IF t = "webkit"
     THEN /\ releases' = [d \in Downloads |-> IF d \in inHand THEN releases[d] + 1 ELSE releases[d]]
          /\ inHand' = {}
     ELSE UNCHANGED <<releases, inHand>>
  /\ UNCHANGED <<records, cancels, forced, engine, cancelling, stage, runs>>

\* The oldest ask that still stands passes its deadline.
Expire ==
  /\ OldestStanding > 0
  /\ forced' = [forced EXCEPT ![OldestStanding].late = TRUE]
  /\ UNCHANGED <<records, cancels, disk, pen, inHand, engine, cancelling, stage, runs, releases, disturbed>>

\* readHistory and ensureLoadedLocked: entries that had ended, as many as the file may hold.
Loaded(written) ==
  LET ended == Only(written, {w \in Range(written) : w.state \in Ends})
  IN  [i \in 1..(IF Len(ended) < HistoryLimit THEN Len(ended) ELSE HistoryLimit) |->
         [dl |-> ended[i].dl, state |-> ended[i].state, held |-> FALSE]]

\* The process ends when everything is written, or is killed at any time; the next
\* one reads what the file holds.
Restart(killed) ==
  /\ runs < MaxRuns
  /\ killed \/ (stage = "down" /\ \A t \in Threads : ~pen[t].busy)
  /\ runs' = runs + 1
  /\ stage' = "up"
  /\ records' = Loaded(disk)
  /\ engine' = [d \in Downloads |-> IF engine[d] = "none" THEN "none" ELSE "past"]
  /\ cancels' = <<>> /\ forced' = <<>> /\ inHand' = {} /\ cancelling' = {}
  /\ pen' = [t \in Threads |-> NoPen]
  /\ disturbed' = FALSE
  /\ UNCHANGED <<disk, releases>>

-----------------------------------------------------------------------------
Init ==
  /\ records = <<>> /\ cancels = <<>> /\ forced = <<>> /\ disk = <<>>
  /\ pen = [t \in Threads |-> NoPen] /\ inHand = {}
  /\ engine = [d \in Downloads |-> "none"] /\ cancelling = {}
  /\ stage = "up" /\ runs = 1
  /\ releases = [d \in Downloads |-> 0] /\ disturbed = FALSE

EngineStep ==
  \E d \in Downloads :
    \/ \E u \in URLs, kind \in Loads : Policy(u, d, kind)
    \/ Adopt(d)
    \/ DecideDestination(d)
    \/ RefuseDestination(d)
    \/ \E s \in Ends : Over(d, s)
    \/ DidCancel(d)

FrameStep ==
  \/ \E d \in Downloads : Cancel(d) \/ RemoveRecord(d)
  \/ ClearFinished
  \/ \E u \in URLs : SaveLinkAs(u)
  \/ BeginShutdown

Next ==
  \/ EngineStep
  \/ Pump
  \/ Teardown
  \/ FrameStep
  \/ \E t \in Threads, ok \in BOOLEAN : Write(t, ok)
  \/ Expire
  \/ \E killed \in BOOLEAN : Restart(killed)

\* The WebKit thread goes round its loop, a write comes to an end, and WebKit
\* answers what it has been told to cancel.
Fairness ==
  /\ WF_vars(Pump) /\ WF_vars(Teardown)
  /\ \A t \in Threads : WF_vars(\E ok \in BOOLEAN : Write(t, ok))
  /\ \A d \in Downloads : SF_vars(DidCancel(d))

Spec == Init /\ [][Next]_vars /\ Fairness

-----------------------------------------------------------------------------
(* What the code promises.                                                  *)

Written == [dl : Downloads, state : Ends]

\* Types: the file and what goes into it hold ended downloads only, and no more of
\* them than the limit.
TypeOK ==
  /\ records \in Seq([dl : Downloads, state : States, held : BOOLEAN])
  /\ cancels \in Seq(Downloads)
  /\ forced \in Seq([url : URLs, late : BOOLEAN])
  /\ disk \in Seq(Written) /\ Len(disk) <= HistoryLimit
  /\ pen \in [Threads -> [busy : BOOLEAN, list : Seq(Written)]]
  /\ inHand \subseteq Downloads /\ cancelling \subseteq Downloads
  /\ engine \in [Downloads -> EngineStates]
  /\ stage \in {"up", "ending", "down"} /\ runs \in 1..MaxRuns
  /\ releases \in [Downloads -> Nat] /\ disturbed \in BOOLEAN

\* A download that has ended keeps the end it came to, whatever WebKit says later
\* -- a cancellation that arrives after the last byte -- and across a restart.
EndedStaysEnded ==
  [][\A r \in Range(records) : \A n \in Range(records') :
       (r.dl = n.dl /\ ~Live(r)) => n.state = r.state]_vars

Holders(d) ==
  Cardinality({i \in 1..Len(records) : records[i].dl = d /\ records[i].held}) + (IF d \in inHand THEN 1 ELSE 0)

\* The reference a download was adopted with is held by its record or by the WebKit
\* thread on its way to releasing it, and is released once, however the download
\* ends: at its last callback, by a cancellation, or by the teardown.
ReleasedOnce ==
  \A d \in Downloads :
    IF engine[d] \in {"asked", "writing", "refused", "over"}
    THEN releases[d] + Holders(d) = 1
    ELSE Holders(d) = 0 /\ releases[d] <= 1

\* "Dropping the record would leave WebKit writing a file nothing is watching"
\* (remove): what WebKit writes is a live record of the list until the teardown.
WrittenIsWatched ==
  \A d \in Downloads : (engine[d] = "writing" /\ stage # "down") => IsLive(d)

\* Once nothing waits to be written the file holds what has ended and has not been
\* forgotten, provided the two threads never wrote at once and no write failed.
HistoryIsCurrent ==
  (~disturbed /\ \A t \in Threads : ~pen[t].busy) => disk = Snapshot(records)

\* The type of the state, with the references balanced, every write watched and the
\* history current.
DownloadsConsistent == TypeOK /\ ReleasedOnce /\ WrittenIsWatched /\ HistoryIsCurrent

\* A download a person cancels ends, unless the process does.
CancelSettles ==
  \A d \in Downloads : (d \in Range(cancels)) ~> (~IsLive(d) \/ stage = "down")

\* How many asks for u still stand.
Standing(u) == Cardinality({i \in 1..Len(forced) : forced[i] = [url |-> u, late |-> FALSE]})

TimePasses == Len(forced') = Len(forced) /\ \E i \in 1..Len(forced) : forced'[i].late # forced[i].late

\* An ask that still stands is used up by one download and by nothing else while the
\* process runs: no load of another address and no other ask's deadline drops it
\* (model.cpp:407-428).
AsksAreKept ==
  [][\A u \in URLs : Standing(u)' < Standing(u) =>
       \/ stage' # stage \/ runs' # runs \/ TimePasses
       \/ /\ \E d \in Downloads : engine[d] = "none" /\ engine'[d] = "coming"
          /\ Standing(u)' = Standing(u) - 1
          /\ \A w \in URLs \ {u} : Standing(w)' = Standing(w)]_vars
=============================================================================
