---------------------------- MODULE Permissions ----------------------------
(***************************************************************************)
(* What a page may do: the requests WebKit delivers on its own thread, the  *)
(* table of remembered answers, the prompt a person answers on the frame    *)
(* thread, and the way back (browser/NativeLibs/harmony_permissions*.cpp,   *)
(* browser/app/Permissions).                                               *)
(*                                                                         *)
(* A step is one lock of one thread.  Requests are numbered as they arrive; *)
(* an id is what enqueueRequest gives the ones it queues.                   *)
(***************************************************************************)
EXTENDS Integers, Sequences, Functions

CONSTANTS
  Kinds,        \* what the pages ask for
  Origins,      \* the origins they ask from
  Pages,        \* the pages
  Files,        \* the tables the file may hold when the browser starts
  MaxRequests,  \* bound: requests
  MaxChanges    \* bound: changes a person makes in the panel

\* Both is asked for, and never stored: it is the two devices' answers together.
AllKinds == {"geolocation", "camera", "microphone", "both"}

VARIABLES
  open,         \* the pages that are open
  asked,        \* the requests so far
  fate,         \* what has become of each of them
  routing,      \* the request the WebKit thread is in route() with
  queue,        \* g_queue, whose order is that of the ids
  nextId,       \* g_nextRequestId
  resolutions,  \* g_resolutions
  answers,      \* what drainResolutions has taken and not yet carried out
  invokes,      \* the invokes waiting for the WebKit thread
  policy,       \* g_policy
  shutdown,     \* g_shutdown
  ended,        \* whether shutdownOnWebKitThread has run
  grants,       \* the registry's grants, and the file
  prompt,       \* HarmonyPermissionSession: the question on screen
  lastResolved, \* HarmonyPermissionSession.lastResolvedId
  host,         \* what the frame thread is in the middle of
  changes,      \* changes in the panel so far, for the bound
  agreed        \* history: the requests the table, or a person who was shown them, has agreed to

pageVars == <<open, asked, fate, routing, queue, nextId, answers, ended>>
hostVars == <<grants, prompt, lastResolved, host, changes>>
vars == <<pageVars, resolutions, invokes, policy, shutdown, agreed, hostVars>>

Devices(k) == IF k = "both" THEN <<"camera", "microphone">> ELSE <<k>>
Stored == UNION {Range(Devices(k)) : k \in Kinds}
Decisions == {"ask", "allow", "deny"}
\* One record for an origin and kind; each end of a file edited by hand has its own idea
\* of two.
Tables == [Stored \X Origins -> Decisions]
EmptyTable == [t \in Stored \X Origins |-> "ask"]

ASSUME PermissionsAssumption ==
  /\ Kinds \subseteq AllKinds /\ "geolocation" \in Kinds
  /\ Files \subseteq Tables
  /\ MaxRequests \in Nat /\ MaxChanges \in Nat

Numbers == 1..MaxRequests
Requests == [kind : Kinds, origin : Origins, page : Pages]
Entries == [id : Numbers, req : Numbers, resolved : BOOLEAN]
Fates == {"new", "open", "allowed", "denied"}

NotRouting == [at |-> "idle", req |-> 0, decision |-> "ask"]
Routings == [at : {"idle", "second", "pushing", "pushed"}, req : 0..MaxRequests, decision : Decisions]

NoOrigin == ""
NoPrompt == [id |-> 0, kind |-> "geolocation", origin |-> NoOrigin]
Prompts == [id : 0..MaxRequests, kind : Kinds, origin : Origins \cup {NoOrigin}]

\* topics are the answers still to be remembered, sets the entries still to be
\* published, answering whether a resolution follows, of id (0 is all of them).
HostIdle ==
  [at |-> "idle", id |-> 0, kind |-> "geolocation", decision |-> "ask",
   topics |-> <<>>, sets |-> {}, answering |-> FALSE]
Hosts ==
  [at : {"idle", "kind", "origin", "remembering", "clearing", "setting", "marking",
         "pushing", "posting", "stopping", "leaving", "ended"},
   id : 0..MaxRequests, kind : Kinds, decision : Decisions, topics : Seq(Stored \X Origins),
   sets : SUBSET (Stored \X Origins), answering : BOOLEAN]

-----------------------------------------------------------------------------
(* The queue.                                                              *)

Unresolved == {e \in queue : ~e.resolved}
NoEntry == [id |-> 0, req |-> 0, resolved |-> FALSE]

\* Mutant: the youngest one.
BackUnresolved ==
  IF Unresolved = {} THEN NoEntry ELSE CHOOSE e \in Unresolved : \A f \in Unresolved : f.id <= e.id

\* frontUnresolved: the oldest, which is the one with the smallest id.
FrontUnresolved ==
  IF Unresolved = {} THEN NoEntry ELSE CHOOSE e \in Unresolved : \A f \in Unresolved : e.id <= f.id

\* markResolved.
Marked(id) == {[e EXCEPT !.resolved = @ \/ id \in {0, e.id}] : e \in queue}

\* Requests S leave the queue, denied.
DenyAndRelease(S) ==
  /\ queue' = {e \in queue : e.req \notin S}
  /\ fate' = [r \in Numbers |-> IF r \in S THEN "denied" ELSE fate[r]]

Queued == {e.req : e \in queue}
DenyEveryRequest == DenyAndRelease(Queued)
DenyRequestsForPage(p) == DenyAndRelease({r \in Queued : asked[r].page = p})

WithId(id) == {e.req : e \in {e \in queue : e.id = id}}
Told(S, d) == [r \in Numbers |-> IF r \in S THEN (IF d = "allow" THEN "allowed" ELSE "denied") ELSE fate[r]]

\* Mutant: the request stays in the queue.
AnswerRequestKeeping(id, d) == UNCHANGED queue /\ fate' = Told(WithId(id), d)

AnswerRequest(id, d) ==
  /\ queue' = {e \in queue : e.id # id}
  /\ fate' = Told(WithId(id), d)

-----------------------------------------------------------------------------
(* The WebKit thread.                                                      *)

Free == routing.at = "idle" /\ answers = <<>>

Together(a, b) ==
  IF "deny" \in {a, b} THEN "deny" ELSE IF {a, b} = {"allow"} THEN "allow" ELSE "ask"

\* The end of route() for a table that says d: refused, or on its way to the queue.
Route(r, d) ==
  IF d = "deny" \/ shutdown
  THEN routing' = NotRouting /\ fate' = [fate EXCEPT ![r] = "denied"]
  ELSE routing' = [at |-> "pushing", req |-> r, decision |-> d] /\ fate' = [fate EXCEPT ![r] = "open"]

Decides(r, d) == agreed' = IF d = "allow" THEN agreed \cup {r} ELSE agreed

\* A request for both devices reads the table twice.
Asks(k, o, p) ==
  LET r == Len(asked) + 1
      d == policy[<<Devices(k)[1], o>>]
  IN  /\ Free /\ r \in Numbers /\ p \in open
      /\ asked' = Append(asked, [kind |-> k, origin |-> o, page |-> p])
      /\ IF k = "both"
         THEN /\ routing' = [at |-> "second", req |-> r, decision |-> d]
              /\ UNCHANGED <<fate, agreed>>
         ELSE Route(r, d) /\ Decides(r, d)
      /\ UNCHANGED <<open, queue, nextId, answers, ended, resolutions, invokes, policy, shutdown, hostVars>>

ReadSecond ==
  LET r == routing.req
      d == Together(routing.decision, policy[<<"microphone", asked[r].origin>>])
  IN  /\ routing.at = "second"
      /\ Route(r, d) /\ Decides(r, d)
      /\ UNCHANGED <<open, asked, queue, nextId, answers, ended, resolutions, invokes, policy, shutdown, hostVars>>

\* enqueueRequest; an allowed one is answered from the queue in the next step.
Push ==
  /\ routing.at = "pushing"
  /\ queue' = queue \cup {[id |-> nextId, req |-> routing.req, resolved |-> FALSE]}
  /\ nextId' = nextId + 1
  /\ routing' = IF routing.decision = "allow" THEN [routing EXCEPT !.at = "pushed"] ELSE NotRouting
  /\ UNCHANGED <<open, asked, fate, answers, ended, resolutions, invokes, policy, shutdown, agreed, hostVars>>

AnswerAllowed ==
  /\ routing.at = "pushed"
  /\ \E e \in queue : e.req = routing.req /\ AnswerRequest(e.id, "allow")
  /\ routing' = NotRouting
  /\ UNCHANGED <<open, asked, nextId, answers, ended, resolutions, invokes, policy, shutdown, agreed, hostVars>>

PageGoes(p) ==
  /\ Free /\ p \in open
  /\ open' = open \ {p}
  /\ DenyRequestsForPage(p)
  /\ UNCHANGED <<asked, routing, nextId, answers, ended, resolutions, invokes, policy, shutdown, agreed, hostVars>>

\* drainResolutions takes the list whole.
Drain ==
  /\ Free /\ invokes # <<>> /\ Head(invokes) = "drain"
  /\ invokes' = Tail(invokes)
  /\ answers' = resolutions
  /\ resolutions' = <<>>
  /\ UNCHANGED <<open, asked, fate, routing, queue, nextId, ended, policy, shutdown, agreed, hostVars>>

CarryOut ==
  /\ answers # <<>>
  /\ answers' = Tail(answers)
  /\ IF Head(answers).id = 0 THEN DenyEveryRequest ELSE AnswerRequest(Head(answers).id, Head(answers).decision)
  /\ UNCHANGED <<open, asked, routing, nextId, ended, resolutions, invokes, policy, shutdown, agreed, hostVars>>

ShutdownOnWebKitThread ==
  /\ Free /\ invokes # <<>> /\ Head(invokes) = "shutdown"
  /\ invokes' = Tail(invokes)
  /\ DenyEveryRequest
  /\ ended' = TRUE
  /\ UNCHANGED <<open, asked, routing, nextId, answers, resolutions, policy, shutdown, agreed, hostVars>>

WorkStep == ReadSecond \/ Push \/ AnswerAllowed \/ Drain \/ CarryOut \/ ShutdownOnWebKitThread

-----------------------------------------------------------------------------
(* The frame thread: harmonyPermissionPump asks three questions of the queue *)
(* and takes the lock for each.                                            *)

PumpReadsId ==
  LET id == FrontUnresolved.id IN
  /\ host.at = "idle" /\ prompt.id = 0
  /\ id \notin {0, lastResolved}
  /\ host' = [HostIdle EXCEPT !.at = "kind", !.id = id]
  /\ UNCHANGED <<pageVars, resolutions, invokes, policy, shutdown, agreed, grants, prompt, lastResolved, changes>>

\* With nothing waiting the kind is 0, which permissionKindFromCode takes for geolocation.
PumpReadsKind ==
  LET r == FrontUnresolved.req IN
  /\ host.at = "kind"
  /\ host' = [host EXCEPT !.at = "origin", !.kind = IF r = 0 THEN "geolocation" ELSE asked[r].kind]
  /\ UNCHANGED <<pageVars, resolutions, invokes, policy, shutdown, agreed, grants, prompt, lastResolved, changes>>

\* A question with no origin is refused without a prompt.
PumpReadsOrigin ==
  LET r == FrontUnresolved.req IN
  /\ host.at = "origin"
  /\ IF r = 0
     THEN /\ host' = [host EXCEPT !.at = "marking", !.decision = "deny", !.answering = TRUE]
          /\ lastResolved' = host.id
          /\ UNCHANGED prompt
     ELSE /\ prompt' = [id |-> host.id, kind |-> host.kind, origin |-> asked[r].origin]
          /\ host' = HostIdle
          /\ UNCHANGED lastResolved
  /\ UNCHANGED <<pageVars, resolutions, invokes, policy, shutdown, agreed, grants, changes>>

\* harmonyPermissionAnswer.  What is agreed to is the request, if it still waits
\* and is the one on screen.
Answer(d, remember) ==
  /\ host.at = "idle" /\ prompt.id # 0
  /\ host' = [HostIdle EXCEPT
       !.at = IF remember THEN "remembering" ELSE "marking", !.id = prompt.id, !.decision = d, !.answering = TRUE,
       !.topics = IF remember
                  THEN [i \in 1..Len(Devices(prompt.kind)) |-> <<Devices(prompt.kind)[i], prompt.origin>>]
                  ELSE <<>>]
  /\ agreed' = IF d = "allow"
       THEN agreed \cup {r \in WithId(prompt.id) :
              asked[r].kind = prompt.kind /\ asked[r].origin = prompt.origin}
       ELSE agreed
  /\ prompt' = NoPrompt
  /\ lastResolved' = prompt.id
  /\ UNCHANGED <<pageVars, resolutions, invokes, policy, shutdown, grants, changes>>

\* harmonyPermissionRemember, which saves the table and then publishes it.
Remember ==
  /\ host.at = "remembering"
  /\ grants' = [grants EXCEPT ![Head(host.topics)] = host.decision]
  /\ host' = [host EXCEPT !.at = "clearing", !.topics = Tail(@)]
  /\ UNCHANGED <<pageVars, resolutions, invokes, policy, shutdown, agreed, prompt, lastResolved, changes>>

\* The panel: one answer changed, one site forgotten, all of them forgotten.
Panel(new) ==
  /\ host.at = "idle" /\ changes < MaxChanges /\ new # grants
  /\ \/ \E t \in DOMAIN grants, d \in Decisions : new = [grants EXCEPT ![t] = d]
     \/ \E S \in {Origins} \cup {{o} : o \in Origins} :
          new = [t \in DOMAIN grants |-> IF t[2] \in S THEN "ask" ELSE grants[t]]
  /\ grants' = new
  /\ changes' = changes + 1
  /\ host' = [HostIdle EXCEPT !.at = "clearing"]
  /\ UNCHANGED <<pageVars, resolutions, invokes, policy, shutdown, agreed, prompt, lastResolved>>

AfterPublishing(h) ==
  IF h.topics # <<>> THEN [h EXCEPT !.at = "remembering"]
  ELSE IF h.answering THEN [h EXCEPT !.at = "marking"] ELSE HostIdle

Set == {t \in DOMAIN grants : grants[t] # "ask"}
Publishing(h) == IF h.sets = {} THEN AfterPublishing(h) ELSE [h EXCEPT !.at = "setting"]

\* Mutant: the old table is not cleared first.
PolicyKept ==
  /\ host.at = "clearing"
  /\ host' = Publishing([host EXCEPT !.sets = Set])
  /\ UNCHANGED <<pageVars, resolutions, invokes, policy, shutdown, agreed, grants, prompt, lastResolved, changes>>

PolicyClear ==
  /\ host.at = "clearing"
  /\ policy' = EmptyTable
  /\ host' = Publishing([host EXCEPT !.sets = Set])
  /\ UNCHANGED <<pageVars, resolutions, invokes, shutdown, agreed, grants, prompt, lastResolved, changes>>

PolicySet(t) ==
  /\ host.at = "setting" /\ t \in host.sets
  /\ policy' = [policy EXCEPT ![t] = grants[t]]
  /\ host' = Publishing([host EXCEPT !.sets = @ \ {t}])
  /\ UNCHANGED <<pageVars, resolutions, invokes, shutdown, agreed, grants, prompt, lastResolved, changes>>

\* postResolution: marked, pushed, and an invoke posted to carry it out.
MarkResolved ==
  /\ host.at = "marking"
  /\ queue' = Marked(host.id)
  /\ host' = [host EXCEPT !.at = "pushing"]
  /\ UNCHANGED <<open, asked, fate, routing, nextId, answers, ended, resolutions, invokes, policy, shutdown, agreed,
                 grants, prompt, lastResolved, changes>>

PushResolution ==
  /\ host.at = "pushing"
  /\ resolutions' = Append(resolutions, [id |-> host.id, decision |-> host.decision])
  /\ host' = [host EXCEPT !.at = "posting"]
  /\ UNCHANGED <<pageVars, invokes, policy, shutdown, agreed, grants, prompt, lastResolved, changes>>

\* Mutant: nothing is posted, the answer waits for the next one.
PostNothing ==
  /\ host.at = "posting"
  /\ host' = HostIdle
  /\ UNCHANGED <<pageVars, resolutions, invokes, policy, shutdown, agreed, grants, prompt, lastResolved, changes>>

PostDrain ==
  /\ host.at = "posting"
  /\ invokes' = Append(invokes, "drain")
  /\ host' = HostIdle
  /\ UNCHANGED <<pageVars, resolutions, policy, shutdown, agreed, grants, prompt, lastResolved, changes>>

\* harmonyPermissionShutdown and hb_permissions_shutdown, at the end of the process.
BeginShutdown ==
  /\ host.at = "idle"
  /\ shutdown' = TRUE
  /\ prompt' = NoPrompt
  /\ host' = [HostIdle EXCEPT !.at = "stopping"]
  /\ UNCHANGED <<pageVars, resolutions, invokes, policy, agreed, grants, lastResolved, changes>>

MarkAll ==
  /\ host.at = "stopping"
  /\ queue' = Marked(0)
  /\ host' = [host EXCEPT !.at = "leaving"]
  /\ UNCHANGED <<open, asked, fate, routing, nextId, answers, ended, resolutions, invokes, policy, shutdown, agreed,
                 grants, prompt, lastResolved, changes>>

PostShutdown ==
  /\ host.at = "leaving"
  /\ invokes' = Append(invokes, "shutdown")
  /\ host' = [host EXCEPT !.at = "ended"]
  /\ UNCHANGED <<pageVars, resolutions, policy, shutdown, agreed, grants, prompt, lastResolved, changes>>

HostStep ==
  \/ PumpReadsId \/ PumpReadsKind \/ PumpReadsOrigin \/ Remember
  \/ PolicyClear \/ (\E t \in Stored \X Origins : PolicySet(t))
  \/ MarkResolved \/ PushResolution \/ PostDrain \/ MarkAll \/ PostShutdown

Person == \E d \in {"allow", "deny"}, remember \in BOOLEAN : Answer(d, remember)

-----------------------------------------------------------------------------

\* The table is loaded and published before the first page exists.
Init ==
  /\ open = Pages /\ asked = <<>> /\ fate = [r \in Numbers |-> "new"]
  /\ routing = NotRouting /\ queue = {} /\ nextId = 1
  /\ resolutions = <<>> /\ answers = <<>> /\ invokes = <<>>
  /\ grants \in Files /\ policy = grants
  /\ shutdown = FALSE /\ ended = FALSE
  /\ prompt = NoPrompt /\ lastResolved = 0 /\ host = HostIdle /\ changes = 0
  /\ agreed = {}

Next ==
  \/ WorkStep \/ HostStep \/ Person \/ BeginShutdown
  \/ \E k \in Kinds, o \in Origins, p \in Pages : Asks(k, o, p)
  \/ \E p \in Pages : PageGoes(p)
  \/ \E new \in Tables : Panel(new)

\* Both threads run, and a person answers what is on screen.  Nobody has to ask,
\* close a page, open the panel or shut down.
Spec ==
  /\ Init /\ [][Next]_vars
  /\ WF_vars(WorkStep) /\ WF_vars(HostStep) /\ WF_vars(Person)

-----------------------------------------------------------------------------
(* Properties.                                                             *)

TypeOK ==
  /\ open \subseteq Pages /\ asked \in Seq(Requests) /\ Len(asked) <= MaxRequests
  /\ fate \in [Numbers -> Fates]
  /\ routing \in Routings
  /\ queue \subseteq Entries /\ nextId \in 1..(MaxRequests + 1)
  /\ resolutions \in Seq([id : 0..MaxRequests, decision : Decisions])
  /\ answers \in Seq([id : 0..MaxRequests, decision : Decisions])
  /\ invokes \in Seq({"drain", "shutdown"})
  /\ policy \in Tables /\ grants \in Tables
  /\ shutdown \in BOOLEAN /\ ended \in BOOLEAN
  /\ prompt \in Prompts /\ lastResolved \in 0..MaxRequests
  /\ host \in Hosts /\ changes \in 0..MaxChanges
  /\ agreed \subseteq Numbers

\* Every request is answered once, and allowed only if the table allows it or a
\* person was shown that request and said so: the bridge keeps the promise of
\* Questions (harmony_permissions.h: "must be answered exactly once").
Promise == INSTANCE Questions WITH Asked <- Numbers

KeepsPromise == Promise!Spec

\* What has been allowed was agreed to: the request, the kind and the origin a
\* person sees are read one at a time, and an answer reaches the request only if
\* all three are its own.
AllowedAsShown == \A r \in Numbers : fate[r] = "allowed" => r \in agreed

\* No request waits for a page that has been destroyed.
NobodyAsksForGone == \A e \in queue : asked[e.req].page \in open

\* Once the shutdown has refused what was queued, nothing is queued again.
QuietAfterShutdown == ended => queue = {}

\* The two copies of the table agree whenever the frame thread is not in the
\* middle of publishing (PermissionBridge.kira: "what keeps the two copies from
\* drifting apart").
CopiesAgree == host.at \notin {"clearing", "setting"} => policy = grants

\* The type of the state, what the queue of requests never holds, and the table the
\* requests are resolved by.
RequestsConsistent == TypeOK /\ NobodyAsksForGone /\ QuietAfterShutdown /\ CopiesAgree

\* Every request is answered in the end, whatever happens to its page, its prompt
\* and the bridge.
RequestsSettle == \A r \in Numbers : fate[r] = "open" ~> fate[r] \in {"allowed", "denied"}

=============================================================================
