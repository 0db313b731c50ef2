------------------------------ MODULE Dialogs ------------------------------
(***************************************************************************)
(* The questions a page is suspended on: parked by the WebKit thread, shown *)
(* and answered on the frame thread, handed back on the WebKit thread; and  *)
(* the file picker, which has a thread of its own                           *)
(* (browser/NativeLibs/harmony_dialogs*.cpp, browser/app/Dialogs).          *)
(*                                                                         *)
(* Questions are numbered as they arrive, and the number is the id.  The    *)
(* deprecated callbacks that wait for their answer are left out: the client *)
(* the registry installs is too new for them.                               *)
(***************************************************************************)
EXTENDS Integers, Sequences, Functions

CONSTANTS
  Kinds,         \* "sheet", "certificate", "picker": what the pages ask
  Pages,         \* the pages
  MaxQuestions,  \* bound: questions
  MaxOverlays    \* bound: how often the host draws something of its own over the page

ASSUME DialogsAssumption ==
  /\ Kinds \subseteq {"sheet", "certificate", "picker"}
  /\ MaxQuestions \in Nat /\ MaxOverlays \in Nat

VARIABLES
  open,         \* g_pages: the pages that are open
  asked,        \* the questions so far
  fate,         \* what has become of each of them
  requests,     \* g_requests, whose order is that of the ids
  trusted,      \* g_trustedCertificates: whether the certificate is in it
  invokes,      \* the invokes waiting for the WebKit thread
  pickerQueue,  \* the picker's g_queue
  picker,       \* the picker's thread
  stopping,     \* the picker's g_stopping
  host,         \* where the frame thread is
  shown,        \* HarmonyDialogState: the question on screen
  overlay,      \* whether the host draws something of its own over the page
  overlays,     \* changes of it so far, for the bound
  heldDown,     \* g_hiddenWindows is not empty
  repaints,     \* g_repaintPages
  blank,        \* the pages whose window has been taken down and that have not drawn since
  agreed        \* history: the questions a person, or a remembered answer, has agreed to

viewVars == <<heldDown, repaints, blank>>
hostVars == <<host, shown, overlay, overlays>>
pickerVars == <<pickerQueue, picker, stopping>>
vars == <<open, asked, fate, requests, trusted, invokes, pickerVars, hostVars, viewVars, agreed>>

Numbers == 1..MaxQuestions
Ids == 0..MaxQuestions
Fates == {"new", "open", "allowed", "denied"}
Questions == [kind : Kinds, page : Pages]
Requests == [id : Numbers, answered : BOOLEAN, accepted : BOOLEAN, remember : BOOLEAN]

NothingShown == [id |-> 0, kind |-> "none"]
Shown == [id : Ids, kind : {"none", "sheet", "certificate"}]

HostIdle == [at |-> "idle", id |-> 0]
Hosts == [at : {"idle", "read", "applied", "posting", "joining", "abandoning", "refusing", "ended"}, id : Ids]

NoPicker == [at |-> "none", id |-> 0, chosen |-> FALSE]
Waiting == [NoPicker EXCEPT !.at = "waiting"]
Pickers == [at : {"none", "waiting", "taken", "showing", "completing", "posting", "ended"}, id : Ids, chosen : BOOLEAN]

-----------------------------------------------------------------------------
(* The queue of questions.                                                 *)

Parked == {r.id : r \in requests}
Unanswered == {r.id : r \in {r \in requests : ~r.answered}}

\* Marks one answered, if it is still there and not answered yet.
Answered(id, accepted, remember) ==
  {IF r.id = id /\ ~r.answered
   THEN [id |-> id, answered |-> TRUE, accepted |-> accepted, remember |-> remember]
   ELSE r : r \in requests}

\* Mutant: whatever the answer was, WebKit hears a yes.
DeliverYes(taken) ==
  /\ requests' = requests \ taken
  /\ fate' = [q \in Numbers |-> IF \E r \in taken : r.id = q THEN "allowed" ELSE fate[q]]

\* The answers WebKit gets for requests that leave the queue.
Deliver(taken) ==
  /\ requests' = requests \ taken
  /\ fate' = [q \in Numbers |->
       IF \E r \in taken : r.id = q
       THEN (IF \E r \in taken : r.id = q /\ r.answered /\ r.accepted THEN "allowed" ELSE "denied")
       ELSE fate[q]]

\* Refused, answered or not.
Refuse(taken) ==
  /\ requests' = requests \ taken
  /\ fate' = [q \in Numbers |-> IF \E r \in taken : r.id = q THEN "denied" ELSE fate[q]]

-----------------------------------------------------------------------------
(* The WebKit thread.                                                      *)

NewRequest(q) == [id |-> q, answered |-> FALSE, accepted |-> FALSE, remember |-> FALSE]

\* A page asks, and is parked; a certificate a person trusts already is accepted
\* there and then (queueCertificateRequest).
Asks(k, p) ==
  LET q == Len(asked) + 1
  IN  /\ q \in Numbers /\ p \in open /\ k # "picker"
      /\ asked' = Append(asked, [kind |-> k, page |-> p])
      /\ IF k = "certificate" /\ trusted
         THEN fate' = [fate EXCEPT ![q] = "allowed"] /\ agreed' = agreed \cup {q} /\ UNCHANGED requests
         ELSE /\ fate' = [fate EXCEPT ![q] = "open"]
              /\ requests' = requests \cup {NewRequest(q)}
              /\ UNCHANGED agreed
      /\ UNCHANGED <<open, trusted, invokes, pickerVars, hostVars, viewVars>>

\* filePickerSubmit: the picker's thread starts with the first question, and once it is
\* stopping the answer is no.
Submits(q) ==
  IF stopping
  THEN /\ requests' = requests \cup {[NewRequest(q) EXCEPT !.answered = TRUE]}
       /\ invokes' = Append(invokes, "service")
       /\ UNCHANGED <<pickerQueue, picker>>
  ELSE /\ requests' = requests \cup {NewRequest(q)}
       /\ pickerQueue' = Append(pickerQueue, q)
       /\ picker' = IF picker.at = "none" THEN Waiting ELSE picker
       /\ UNCHANGED invokes

\* runOpenPanel.
OpenPanel(p) ==
  LET q == Len(asked) + 1
  IN  /\ q \in Numbers /\ p \in open /\ "picker" \in Kinds
      /\ asked' = Append(asked, [kind |-> "picker", page |-> p])
      /\ fate' = [fate EXCEPT ![q] = "open"]
      /\ Submits(q)
      /\ UNCHANGED <<open, trusted, stopping, hostVars, viewVars, agreed>>

\* Mutant: what the page had parked stays.
DetachPageOnly(p) ==
  /\ p \in open
  /\ open' = open \ {p} /\ blank' = blank \ {p}
  /\ UNCHANGED <<requests, fate, asked, trusted, invokes, pickerVars, hostVars, heldDown, repaints, agreed>>

\* detachPage: what the page had parked is refused, answered or not.
DetachPage(p) ==
  /\ p \in open
  /\ open' = open \ {p} /\ blank' = blank \ {p}
  /\ Refuse({r \in requests : asked[r.id].page = p})
  /\ UNCHANGED <<asked, trusted, invokes, pickerVars, hostVars, heldDown, repaints, agreed>>

\* serviceOnWebKitThread.
Service ==
  LET ready == {r \in requests : r.answered}
  IN  /\ invokes # <<>> /\ Head(invokes) = "service"
      /\ invokes' = Tail(invokes)
      /\ Deliver(ready)
      /\ trusted' = (trusted \/ \E r \in ready : r.accepted /\ r.remember /\ asked[r.id].kind = "certificate")
      /\ repaints' = {}
      /\ blank' = blank \ repaints
      /\ UNCHANGED <<open, asked, pickerVars, hostVars, heldDown, agreed>>

RefuseEverything ==
  /\ invokes # <<>> /\ Head(invokes) = "refuse"
  /\ invokes' = Tail(invokes)
  /\ Refuse(requests)
  /\ repaints' = {}
  /\ UNCHANGED <<open, asked, trusted, pickerVars, hostVars, heldDown, blank, agreed>>

WorkStep == Service \/ RefuseEverything

\* hb_tabs_shutdown comes after hb_dialogs_shutdown, and closes every tab.
Teardown == host.at = "ended" /\ invokes = <<>> /\ \E p \in Pages : DetachPage(p)

-----------------------------------------------------------------------------
(* The picker's thread.                                                    *)

PickerTakes ==
  /\ picker.at = "waiting"
  /\ IF pickerQueue # <<>>
     THEN picker' = [picker EXCEPT !.at = "taken", !.id = Head(pickerQueue)] /\ pickerQueue' = Tail(pickerQueue)
     ELSE stopping /\ picker' = [picker EXCEPT !.at = "ended"] /\ UNCHANGED pickerQueue
  /\ UNCHANGED <<open, asked, fate, requests, trusted, invokes, stopping, hostVars, viewVars, agreed>>

PickerShows ==
  /\ picker.at = "taken"
  /\ picker' = [picker EXCEPT !.at = IF stopping THEN "completing" ELSE "showing"]
  /\ UNCHANGED <<open, asked, fate, requests, trusted, invokes, pickerQueue, stopping, hostVars, viewVars, agreed>>

\* A person chooses files or cancels, whether or not the page still waits.
Picks(chosen) ==
  /\ picker.at = "showing"
  /\ picker' = [picker EXCEPT !.at = "completing", !.chosen = chosen]
  /\ agreed' = IF chosen /\ picker.id \in Unanswered THEN agreed \cup {picker.id} ELSE agreed
  /\ UNCHANGED <<open, asked, fate, requests, trusted, invokes, pickerQueue, stopping, hostVars, viewVars>>

\* filePickerCompleted.
PickerCompletes ==
  /\ picker.at = "completing"
  /\ requests' = Answered(picker.id, picker.chosen, FALSE)
  /\ picker' = IF picker.id \in Unanswered THEN [picker EXCEPT !.at = "posting"] ELSE Waiting
  /\ UNCHANGED <<open, asked, fate, trusted, invokes, pickerQueue, stopping, hostVars, viewVars, agreed>>

PickerPosts ==
  /\ picker.at = "posting"
  /\ invokes' = Append(invokes, "service")
  /\ picker' = Waiting
  /\ UNCHANGED <<open, asked, fate, requests, trusted, pickerQueue, stopping, hostVars, viewVars, agreed>>

PickerStep == PickerTakes \/ PickerShows \/ PickerCompletes \/ PickerPosts

-----------------------------------------------------------------------------
(* The frame thread: hb_dialogs_frame, then the state it is synced with.   *)

ToShow == {q \in Unanswered : asked[q].kind # "picker"}

\* The newest question is the one presented.
FrameReads ==
  /\ host.at = "idle"
  /\ IF ToShow = {}
     THEN host' = [at |-> "read", id |-> 0]
     ELSE \E q \in ToShow : (\A r \in ToShow : r <= q) /\ host' = [at |-> "read", id |-> q]
  /\ UNCHANGED <<open, asked, fate, requests, trusted, invokes, pickerVars, shown, overlay, overlays, viewVars, agreed>>

\* Mutant: the windows come back and nobody asks their pages to draw.
ApplyVisibilityOnce ==
  /\ host.at = "read"
  /\ host' = [host EXCEPT !.at = "applied"]
  /\ IF host.id # 0 \/ overlay
     THEN heldDown' = TRUE /\ blank' = open /\ UNCHANGED <<repaints, invokes>>
     ELSE heldDown' = FALSE /\ UNCHANGED <<repaints, blank, invokes>>
  /\ UNCHANGED <<open, asked, fate, requests, trusted, pickerVars, shown, overlay, overlays, agreed>>

\* applyViewVisibility: held down on every frame that something is over the page;
\* on the first that nothing is, every page is asked to draw.
ApplyVisibility ==
  /\ host.at = "read"
  /\ host' = [host EXCEPT !.at = "applied"]
  /\ IF host.id # 0 \/ overlay
     THEN heldDown' = TRUE /\ blank' = open /\ UNCHANGED <<repaints, invokes>>
     ELSE /\ heldDown' = FALSE
          /\ repaints' = IF heldDown THEN repaints \cup open ELSE repaints
          /\ invokes' = IF heldDown THEN Append(invokes, "service") ELSE invokes
          /\ UNCHANGED blank
  /\ UNCHANGED <<open, asked, fate, requests, trusted, pickerVars, shown, overlay, overlays, agreed>>

\* HarmonyDialogState.sync, which asks for the request again by its id: it may
\* have gone, and then there is nothing to show but the id.
Sync ==
  /\ host.at = "applied"
  /\ shown' = IF host.id = shown.id THEN shown
              ELSE IF host.id = 0 THEN NothingShown
              ELSE [id |-> host.id, kind |-> IF host.id \in Parked THEN asked[host.id].kind ELSE "none"]
  /\ host' = HostIdle
  /\ UNCHANGED <<open, asked, fate, requests, trusted, invokes, pickerVars, overlay, overlays, viewVars, agreed>>

\* harmonyDialogAccept and harmonyDialogDismiss; a dialog with no kind has nothing
\* to accept.
Respond(accepted, remember) ==
  LET reaches == shown.id \in Unanswered /\ ~(accepted /\ shown.kind = "none")
  IN  /\ host.at = "idle" /\ shown.id # 0
      /\ remember => accepted /\ shown.kind = "certificate"
      /\ requests' = IF reaches THEN Answered(shown.id, accepted, remember) ELSE requests
      /\ agreed' = IF reaches /\ accepted THEN agreed \cup {shown.id} ELSE agreed
      /\ host' = IF reaches THEN [HostIdle EXCEPT !.at = "posting"] ELSE HostIdle
      /\ shown' = NothingShown
      /\ UNCHANGED <<open, asked, fate, trusted, invokes, pickerVars, overlay, overlays, viewVars>>

\* Mutant: the WebKit thread is not told.
RespondNothing ==
  /\ host.at = "posting"
  /\ host' = HostIdle
  /\ UNCHANGED <<open, asked, fate, requests, trusted, invokes, pickerVars, shown, overlay, overlays, viewVars, agreed>>

RespondPosts ==
  /\ host.at = "posting"
  /\ invokes' = Append(invokes, "service")
  /\ host' = HostIdle
  /\ UNCHANGED <<open, asked, fate, requests, trusted, pickerVars, shown, overlay, overlays, viewVars, agreed>>

Overlay ==
  /\ host.at = "idle" /\ overlays < MaxOverlays
  /\ overlay' = ~overlay /\ overlays' = overlays + 1
  /\ UNCHANGED <<open, asked, fate, requests, trusted, invokes, pickerVars, host, shown, viewVars, agreed>>

\* harmonyDialogsShutdown: the picker is stopped and waited for, for a while.
BeginShutdown ==
  /\ host.at = "idle"
  /\ stopping' = TRUE
  /\ host' = [HostIdle EXCEPT !.at = "joining"]
  /\ shown' = NothingShown
  /\ UNCHANGED <<open, asked, fate, requests, trusted, invokes, pickerQueue, picker, overlay, overlays, viewVars, agreed>>

Join ==
  /\ host.at = "joining"
  /\ host' = [host EXCEPT !.at = "abandoning"]
  /\ UNCHANGED <<open, asked, fate, requests, trusted, invokes, pickerVars, shown, overlay, overlays, viewVars, agreed>>

\* What the picker never came to is answered for it.
Abandon ==
  /\ host.at = "abandoning"
  /\ requests' = {[r EXCEPT !.answered = @ \/ r.id \in Range(pickerQueue)] : r \in requests}
  /\ invokes' = IF Parked \cap Range(pickerQueue) = {} THEN invokes ELSE Append(invokes, "service")
  /\ pickerQueue' = <<>>
  /\ host' = [host EXCEPT !.at = "refusing"]
  /\ UNCHANGED <<open, asked, fate, trusted, picker, stopping, shown, overlay, overlays, viewVars, agreed>>

PostRefusal ==
  /\ host.at = "refusing"
  /\ invokes' = Append(invokes, "refuse")
  /\ host' = [host EXCEPT !.at = "ended"]
  /\ UNCHANGED <<open, asked, fate, requests, trusted, pickerVars, shown, overlay, overlays, viewVars, agreed>>

HostStep == FrameReads \/ ApplyVisibility \/ Sync \/ RespondPosts \/ Join \/ Abandon \/ PostRefusal
Person == \E accepted, remember \in BOOLEAN : Respond(accepted, remember)

-----------------------------------------------------------------------------

Init ==
  /\ open = Pages /\ asked = <<>> /\ fate = [q \in Numbers |-> "new"]
  /\ requests = {} /\ trusted = FALSE /\ invokes = <<>>
  /\ pickerQueue = <<>> /\ picker = NoPicker /\ stopping = FALSE
  /\ host = HostIdle /\ shown = NothingShown /\ overlay = FALSE /\ overlays = 0
  /\ heldDown = FALSE /\ repaints = {} /\ blank = {}
  /\ agreed = {}

Next ==
  \/ WorkStep \/ PickerStep \/ HostStep \/ Person \/ Overlay \/ BeginShutdown
  \/ \E p \in Pages : OpenPanel(p) \/ DetachPage(p) \/ \E k \in Kinds : Asks(k, p)
  \/ \E chosen \in BOOLEAN : Picks(chosen)

\* The three threads run, frames are drawn, a person answers a question on screen
\* while it is one, and the picker that is open, and the registry is shut down after
\* the dialogs.  Nobody is relied on to press what no longer asks anything.
Spec ==
  /\ Init /\ [][Next]_vars
  /\ WF_vars(WorkStep) /\ WF_vars(PickerStep) /\ WF_vars(HostStep)
  /\ SF_vars(shown.id \in Unanswered /\ Person) /\ WF_vars(\E chosen \in BOOLEAN : Picks(chosen))
  /\ WF_vars(Teardown)

-----------------------------------------------------------------------------
(* Properties.                                                             *)

TypeOK ==
  /\ open \subseteq Pages /\ asked \in Seq(Questions) /\ Len(asked) <= MaxQuestions
  /\ fate \in [Numbers -> Fates]
  /\ requests \subseteq Requests /\ trusted \in BOOLEAN
  /\ invokes \in Seq({"service", "refuse"})
  /\ pickerQueue \in Seq(Numbers) /\ picker \in Pickers /\ stopping \in BOOLEAN
  /\ host \in Hosts /\ shown \in Shown
  /\ overlay \in BOOLEAN /\ overlays \in 0..MaxOverlays
  /\ heldDown \in BOOLEAN /\ repaints \subseteq Pages /\ blank \subseteq Pages
  /\ agreed \subseteq Numbers

\* Every question is answered once, and with a yes only if a person was shown it
\* and agreed, or had the certificate remembered: the dialogs keep the promise of
\* Questions (harmony_dialogs.h: "A page asks on the WebKit thread and is suspended
\* until it is answered").
Promise == INSTANCE Questions WITH Asked <- Numbers

KeepsPromise == Promise!Spec

\* No question waits for a page that has been destroyed.
NobodyAsksForGone == \A r \in requests : asked[r.id].page \in open

\* A question is parked exactly as long as its page waits for the answer.
ParkedIsOpen == \A q \in Numbers : fate[q] = "open" <=> q \in Parked

\* The type of the state, and what is in the queue of questions.
DialogsConsistent == TypeOK /\ NobodyAsksForGone /\ ParkedIsOpen

\* Every question is answered in the end, whatever happens to its page, the picker
\* and the process.
QuestionsSettle == \A q \in Numbers : fate[q] = "open" ~> fate[q] \in {"allowed", "denied"}

\* A dialog leaves the screen once its page has its answer.
DialogGoes == \A q \in Numbers : (shown.id = q /\ fate[q] # "open") ~> shown.id # q

\* Once nothing is over the page, every page draws again.
PagesDrawAgain == (blank # {} /\ ~heldDown) ~> (blank = {} \/ heldDown \/ host.at = "ended")

\* No dialog and no blank page is left behind by a question that was answered.
ScreenIsGivenBack == DialogGoes /\ PagesDrawAgain
=============================================================================
