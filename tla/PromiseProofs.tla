---------------------------- MODULE PromiseProofs ----------------------------
(***************************************************************************)
(* The four components that are handed something and promise what becomes   *)
(* of it.  Permissions and Dialogs implement Questions, CommandQueue         *)
(* implements Handoff; Downloads promises one end for each download, one     *)
(* release of its reference and one download for each ask.  For any pages,   *)
(* origins, tables, threads and numbers of what is asked, posted and         *)
(* downloaded their states are consistent, every question is answered at     *)
(* most once, with a yes only if somebody said it, work is done in order and *)
(* once, or cancelled, and a download that has ended stays as it ended.      *)
(*                                                                         *)
(* The four parts are independent.  The module extends Permissions; Dialogs, *)
(* CommandQueue and Downloads are instances, D, C and L, which go by the     *)
(* variables of the same names: a theorem about D!Spec, C!Spec or L!Spec     *)
(* says nothing of what Permissions does with them.  What the constants of   *)
(* an instance are assumed to be is a hypothesis of its theorems.            *)
(***************************************************************************)
EXTENDS Permissions, TabListTheorems

CONSTANTS
  Sheets,        \* Kinds of Dialogs: what the pages ask
  MaxQuestions,  \* of Dialogs: bound: questions
  MaxOverlays,   \* of Dialogs: bound: how often the host draws something of its own over the page
  Work,          \* of CommandQueue: the owned invokes posted, each once
  Shutdown,      \* of CommandQueue: Command::Kind::Shutdown
  Helpers,       \* of CommandQueue: the threads that post besides the host and the WebKit thread
  CanFail,       \* of CommandQueue: whether WebKit may fail to load
  Downloads,     \* of Downloads: what WebKit may come to download
  URLs,          \* of Downloads: the addresses the pages load
  HistoryLimit,  \* of Downloads: how many ended downloads the file holds
  MaxForced,     \* of Downloads: bound: asks that stand at once
  MaxRuns        \* of Downloads: bound: processes, one after the other

\* The variables of Dialogs that Permissions has none of: the others are open, asked,
\* fate, invokes, host and agreed.
VARIABLES requests, trusted, pickerQueue, picker, stopping, shown, overlay, overlays, heldDown, repaints, blank

\* The variables of CommandQueue that neither has: the others are stopping, queue, host
\* and fate.
VARIABLES thread, requested, event, worker, post

\* The variables of Downloads, which shares none with the others.
VARIABLES records, cancels, forced, disk, pen, inHand, engine, cancelling, stage, runs, releases, disturbed

D == INSTANCE Dialogs WITH Kinds <- Sheets

C == INSTANCE CommandQueue

L == INSTANCE Downloads

-----------------------------------------------------------------------------
(* Permissions.                                                            *)
(*                                                                         *)
(* The prompt is put together from three reads of the queue.  What makes an *)
(* answer reach the right request is that the request whose id was read     *)
(* stays the oldest that waits for as long as it is in the queue, for ids   *)
(* only grow and only the frame thread itself marks a request resolved.     *)

\* What is queued waits for an answer, in the order of the ids.
QueueOK ==
  /\ \A e \in queue : e.id < nextId /\ e.req \in 1..Len(asked) /\ fate[e.req] = "open"
  /\ \A e, f \in queue : e.id = f.id \/ e.req = f.req => e = f

\* How far the request is that the WebKit thread has in hand.
RoutingOK ==
  /\ \A r \in Numbers : r > Len(asked) => fate[r] = "new"
  /\ routing.at # "idle" =>
       /\ routing.req \in 1..Len(asked) /\ asked[routing.req].page \in open
       /\ answers = <<>>
  /\ routing.at = "second" => fate[routing.req] = "new" /\ asked[routing.req].kind = "both"
  /\ routing.at = "pushing" =>
       /\ fate[routing.req] = "open" /\ \A e \in queue : e.req # routing.req
  /\ routing.at \in {"pushing", "pushed"} /\ routing.decision = "allow" => routing.req \in agreed
  /\ routing.at = "pushed" => routing.decision = "allow"
  \* Not every request has been given an id.
  /\ nextId <= Len(asked) + 1
  /\ routing.at \in {"second", "pushing"} => nextId <= Len(asked)

\* The flag is set before the invoke is posted, and read before anything is queued.
EndOK ==
  /\ ended => shutdown /\ routing.at \in {"idle", "second"} /\ queue = {}
  /\ \A i \in 1..Len(invokes) : invokes[i] = "shutdown" => shutdown
  /\ host.at \in {"stopping", "leaving", "ended"} => shutdown

\* How far the frame thread is with publishing its table.
TableOK ==
  /\ CopiesAgree
  /\ host.at = "setting" => policy = [t \in Stored \X Origins |-> IF t \in host.sets THEN "ask" ELSE grants[t]]
  /\ host.at = "remembering" => host.topics # <<>>

\* An answer on its way to the request with this id.
AnswerOK(id, d) ==
  /\ id \in 1..(nextId - 1)
  /\ d = "allow" => \A e \in queue : e.id = id => e.req \in agreed

AnswersOK ==
  /\ \A i \in 1..Len(resolutions) : AnswerOK(resolutions[i].id, resolutions[i].decision)
  /\ \A i \in 1..Len(answers) : AnswerOK(answers[i].id, answers[i].decision)
  /\ host.at \in {"remembering", "clearing", "setting", "marking", "pushing"} /\ host.answering =>
       AnswerOK(host.id, host.decision)
  /\ host.at \in {"marking", "pushing"} => host.answering

\* The request with this id is the oldest that waits, if it is there at all.
IsFront(id) ==
  /\ id \in 1..(nextId - 1)
  /\ \A e \in queue : e.id = id => ~e.resolved /\ \A f \in queue : f.id < id => f.resolved

ScreenOK ==
  /\ host.at \in {"kind", "origin"} => IsFront(host.id)
  /\ host.at = "origin" => \A e \in queue : e.id = host.id => asked[e.req].kind = host.kind
  /\ prompt.id # 0 =>
       /\ prompt.id \in 1..(nextId - 1) /\ prompt.origin \in Origins
       /\ \A e \in queue : e.id = prompt.id =>
            asked[e.req].kind = prompt.kind /\ asked[e.req].origin = prompt.origin

IInv ==
  /\ TypeOK /\ QueueOK /\ RoutingOK /\ NobodyAsksForGone
  /\ EndOK /\ TableOK /\ AnswersOK /\ ScreenOK /\ AllowedAsShown

-----------------------------------------------------------------------------
(* The operators.                                                          *)

\* Every set of numbers that is not empty has a least member.
LEMMA LeastNumber == ASSUME NEW S \in SUBSET Nat, S # {} PROVE \E n \in S : \A m \in S : n <= m
<1>1. PICK n \in S : \A m \in S : ~(<<m, n>> \in OpToRel(<, Nat))
  BY NatLessThanWellFounded, WFMin
<1>2. \A m \in S : m < n => <<m, n>> \in OpToRel(<, Nat)
  BY DEF OpToRel
<1>3. \A m \in S : ~(m < n) /\ m \in Nat /\ n \in Nat
  BY <1>1, <1>2
<1> QED BY <1>3

\* frontUnresolved returns the oldest request that waits.
LEMMA FrontIsOldest ==
  ASSUME TypeOK
  PROVE  /\ Unresolved = {} => FrontUnresolved = NoEntry
         /\ Unresolved # {} =>
              FrontUnresolved \in Unresolved /\ \A f \in Unresolved : FrontUnresolved.id <= f.id
<1>1. CASE Unresolved # {}
  <2>1. {e.id : e \in Unresolved} \in SUBSET Nat /\ {e.id : e \in Unresolved} # {}
    BY <1>1 DEF TypeOK, Entries, Unresolved, Numbers
  <2>2. PICK n \in {e.id : e \in Unresolved} : \A m \in {e.id : e \in Unresolved} : n <= m
    BY <2>1, LeastNumber
  <2>3. \E e \in Unresolved : \A f \in Unresolved : e.id <= f.id
    BY <2>2
  <2> QED BY <1>1, <2>3 DEF FrontUnresolved
<1> QED BY <1>1 DEF FrontUnresolved

LEMMA DevicesAreStored ==
  ASSUME NEW k \in Kinds
  PROVE  /\ Len(Devices(k)) \in 1..2
         /\ \A i \in 1..Len(Devices(k)) : Devices(k)[i] \in Stored
         /\ k = "both" => "microphone" \in Stored
<1>1. Range(Devices(k)) \subseteq Stored
  BY DEF Stored
<1>2. CASE k = "both"
  <2>1. Devices(k) = <<"camera", "microphone">> /\ Len(<<"camera", "microphone">>) = 2
    BY <1>2 DEF Devices
  <2>2. <<"camera", "microphone">>[1] \in Range(Devices(k)) /\ <<"camera", "microphone">>[2] \in Range(Devices(k))
    BY <2>1 DEF Range
  <2> QED BY <1>1, <2>1, <2>2
<1>3. CASE k # "both"
  <2>1. Devices(k) = <<k>>
    BY <1>3 DEF Devices
  <2>2. Len(<<k>>) = 1 /\ <<k>>[1] \in Range(<<k>>)
    BY DEF Range
  <2> QED BY <1>1, <1>3, <2>1, <2>2
<1> QED BY <1>2, <1>3

LEMMA Idle ==
  /\ HostIdle \in Hosts /\ HostIdle.at = "idle" /\ ~HostIdle.answering
  /\ NoPrompt \in Prompts /\ NoPrompt.id = 0
  /\ NotRouting \in Routings /\ NotRouting.at = "idle"
BY PermissionsAssumption DEF PermissionsAssumption, HostIdle, Hosts, NoPrompt, Prompts, NotRouting, Routings, Decisions

-----------------------------------------------------------------------------
(* The invariant.                                                          *)

LEMMA InitInv == Init => IInv
<1> SUFFICES ASSUME Init PROVE IInv
  OBVIOUS
<1> USE DEF Init
<1>1. TypeOK
  <2>1. NotRouting \in Routings
    BY Idle
  <2>2. NoPrompt \in Prompts /\ HostIdle \in Hosts
    BY Idle
  <2>3. fate \in [Numbers -> Fates] /\ asked \in Seq(Requests) /\ Len(asked) <= MaxRequests
    BY PermissionsAssumption DEF PermissionsAssumption, Fates
  <2>4. nextId \in 1..(MaxRequests + 1) /\ lastResolved \in 0..MaxRequests /\ changes \in 0..MaxChanges
    BY PermissionsAssumption DEF PermissionsAssumption, Numbers
  <2>5. policy \in Tables /\ grants \in Tables
    BY PermissionsAssumption DEF PermissionsAssumption, Numbers
  <2>6. /\ resolutions \in Seq([id : 0..MaxRequests, decision : Decisions]) /\ answers = resolutions
        /\ invokes \in Seq({"drain", "shutdown"})
    OBVIOUS
  <2> QED BY <2>1, <2>2, <2>3, <2>4, <2>5, <2>6 DEF TypeOK
<1>2. host.at = "idle" /\ prompt.id = 0 /\ routing.at = "idle"
  BY DEF HostIdle, NoPrompt, NotRouting
<1>3. Len(asked) = 0 /\ Len(resolutions) = 0 /\ Len(answers) = 0 /\ Len(invokes) = 0
  OBVIOUS
<1>4. QueueOK /\ RoutingOK /\ NobodyAsksForGone /\ AllowedAsShown
  BY <1>2, <1>3 DEF QueueOK, RoutingOK, NobodyAsksForGone, AllowedAsShown, Numbers
<1>5. EndOK /\ TableOK /\ AnswersOK /\ ScreenOK
  BY <1>2, <1>3 DEF EndOK, TableOK, CopiesAgree, AnswersOK, ScreenOK
<1> QED BY <1>1, <1>4, <1>5 DEF IInv

\* A step of the frame thread that leaves the queue and the pages alone.
LEMMA PagesUntouched ==
  ASSUME IInv, UNCHANGED pageVars, agreed \subseteq agreed'
  PROVE  QueueOK' /\ RoutingOK' /\ NobodyAsksForGone' /\ AllowedAsShown'
BY DEF IInv, pageVars, QueueOK, RoutingOK, NobodyAsksForGone, AllowedAsShown

\* A request is routed, or begins to be: what is queued stays as it is.
RoutingBegins ==
  /\ UNCHANGED <<open, queue, nextId, answers, ended, resolutions, invokes, policy, shutdown, hostVars>>
  /\ agreed \subseteq agreed'
  /\ Len(asked') >= Len(asked) /\ \A i \in 1..Len(asked) : asked'[i] = asked[i]

LEMMA RoutingSpares ==
  ASSUME IInv, NEW r \in Numbers, fate[r] = "new", RoutingBegins,
         \A q \in Numbers \ {r} : fate'[q] = fate[q]
  PROVE  QueueOK' /\ NobodyAsksForGone' /\ TableOK' /\ AnswersOK' /\ ScreenOK'
<1>1. \A e \in queue : e.req \in 1..Len(asked) /\ e.req \in Numbers /\ fate[e.req] = "open"
  BY DEF IInv, QueueOK, TypeOK, Entries
<1>2. QueueOK'
  BY <1>1 DEF IInv, TypeOK, QueueOK, RoutingBegins
<1>3. NobodyAsksForGone'
  BY <1>1 DEF IInv, NobodyAsksForGone, RoutingBegins
<1>4. TableOK'
  BY DEF IInv, TableOK, CopiesAgree, RoutingBegins, hostVars
<1>5. AnswersOK'
  BY DEF IInv, AnswersOK, AnswerOK, RoutingBegins, hostVars
<1>6. ScreenOK'
  BY <1>1 DEF IInv, ScreenOK, IsFront, RoutingBegins, hostVars
<1> QED BY <1>2, <1>3, <1>4, <1>5, <1>6

\* What route does with a request whose table is known.
LEMMA RouteStep ==
  ASSUME IInv, NEW r \in Numbers, fate[r] = "new", RoutingBegins,
         Len(asked') \in Numbers, r \in 1..Len(asked'), NEW d \in Decisions, Route(r, d), Decides(r, d),
         asked' \in Seq(Requests), asked'[r].page \in open, answers = <<>>,
         r > Len(asked) \/ (routing.at = "second" /\ r = routing.req)
  PROVE  IInv'
<1>1. /\ fate' \in [Numbers -> Fates] /\ fate'[r] \in {"open", "denied"}
      /\ \A q \in Numbers \ {r} : fate'[q] = fate[q]
  BY DEF Route, IInv, TypeOK, Fates
<1>2. QueueOK' /\ NobodyAsksForGone' /\ TableOK' /\ AnswersOK' /\ ScreenOK'
  BY <1>1, RoutingSpares
<1>3. routing' \in Routings
  BY PermissionsAssumption DEF PermissionsAssumption, Route, NotRouting, Routings, Numbers, Decisions
<1>4. agreed' = (IF d = "allow" THEN agreed \cup {r} ELSE agreed)
  BY DEF Decides
<1>5. TypeOK'
  <2>1. Len(asked') <= MaxRequests
    BY DEF Numbers
  <2> QED BY <1>1, <1>3, <1>4, <2>1 DEF IInv, TypeOK, RoutingBegins, hostVars
<1>6. RoutingOK'
  <2>1. Len(asked) \in Nat /\ Len(asked') \in Nat /\ r \in Nat
    BY DEF IInv, TypeOK, Numbers
  <2>2. \A q \in Numbers : q > Len(asked') => fate'[q] = "new"
    BY <1>1, <2>1 DEF IInv, RoutingOK, RoutingBegins, Numbers
  <2>3. nextId' <= Len(asked')
    BY <2>1 DEF IInv, RoutingOK, RoutingBegins, TypeOK
  <2>4. \A e \in queue' : e.req # r
    BY DEF IInv, QueueOK, TypeOK, Entries, RoutingBegins
  <2>5. CASE d = "deny" \/ shutdown
    BY <2>1, <2>2, <2>3, <2>5 DEF Route, NotRouting, RoutingOK, TypeOK, IInv, RoutingBegins
  <2>6. CASE ~(d = "deny" \/ shutdown)
    <3>1. routing' = [at |-> "pushing", req |-> r, decision |-> d] /\ fate'[r] = "open"
      BY <2>6 DEF Route, IInv, TypeOK
    <3>2. routing'.at = "pushing" /\ routing'.req = r /\ routing'.decision = d
      BY <3>1
    <3>3. r \in 1..Len(asked') /\ asked'[r].page \in open' /\ answers' = <<>>
      BY <2>1 DEF RoutingBegins, Numbers
    <3>4. nextId' \in Nat /\ Len(asked') \in Nat
      BY <2>1 DEF RoutingBegins, IInv, TypeOK
    <3> QED BY <1>4, <2>2, <2>3, <2>4, <3>1, <3>2, <3>3, <3>4 DEF RoutingOK
  <2> QED BY <2>5, <2>6
<1>7. EndOK'
  BY DEF IInv, EndOK, RoutingBegins, hostVars, Route, NotRouting
<1>8. AllowedAsShown'
  BY <1>1, <1>4 DEF IInv, AllowedAsShown
<1> QED BY <1>2, <1>5, <1>6, <1>7, <1>8 DEF IInv

LEMMA AsksStep ==
  ASSUME IInv, NEW k \in Kinds, NEW o \in Origins, NEW p \in Pages, Asks(k, o, p) PROVE IInv'
<1> DEFINE r == Len(asked) + 1
           d == policy[<<Devices(k)[1], o>>]
<1>1. /\ routing.at = "idle" /\ answers = <<>> /\ r \in Numbers /\ p \in open
      /\ asked' = Append(asked, [kind |-> k, origin |-> o, page |-> p])
      /\ UNCHANGED <<open, queue, nextId, answers, ended, resolutions, invokes, policy, shutdown, hostVars>>
  BY DEF Asks, Free
<1>2. /\ asked' \in Seq(Requests) /\ Len(asked') = r /\ asked'[r].page = p /\ asked'[r].kind = k
      /\ Len(asked) \in Nat /\ \A i \in 1..Len(asked) : asked'[i] = asked[i]
  <2>1. [kind |-> k, origin |-> o, page |-> p] \in Requests
    BY DEF Requests
  <2> QED BY <1>1, <2>1, AppendProperties DEF IInv, TypeOK
<1>3. fate[r] = "new"
  BY <1>1, <1>2 DEF IInv, RoutingOK
<1>4. d \in Decisions
  <2>1. <<Devices(k)[1], o>> \in Stored \X Origins
    BY DevicesAreStored
  <2> QED BY <2>1 DEF IInv, TypeOK, Tables
<1>5. CASE k # "both"
  <2>1. Route(r, d) /\ Decides(r, d)
    BY <1>5 DEF Asks
  <2>2. RoutingBegins
    BY <1>1, <1>2, <2>1 DEF RoutingBegins, Decides
  <2> HIDE DEF r, d
  <2>3. r > Len(asked)
    BY <1>2 DEF r
  <2>4. Len(asked') \in Numbers /\ r \in 1..Len(asked')
    BY <1>1, <1>2 DEF r, Numbers
  <2> QED BY <1>1, <1>2, <1>3, <1>4, <2>1, <2>2, <2>3, <2>4, RouteStep
<1>6. CASE k = "both"
  <2>1. routing' = [at |-> "second", req |-> r, decision |-> d] /\ UNCHANGED <<fate, agreed>>
    BY <1>6 DEF Asks
  <2>2. RoutingBegins
    BY <1>1, <1>2, <2>1 DEF RoutingBegins
  <2>3. QueueOK' /\ NobodyAsksForGone' /\ TableOK' /\ AnswersOK' /\ ScreenOK'
    BY <1>1, <1>3, <2>1, <2>2, RoutingSpares
  <2>4. TypeOK'
    <3>1. routing' \in Routings
      BY <1>1, <1>4, <2>1 DEF Routings, Numbers
    <3>2. Len(asked') <= MaxRequests
      BY <1>1, <1>2 DEF Numbers
    <3> QED BY <1>1, <1>2, <2>1, <3>1, <3>2 DEF IInv, TypeOK, hostVars
  <2>5. RoutingOK'
    <3>1. routing'.at = "second" /\ routing'.req = r
      BY <2>1
    <3>2. /\ r \in 1..Len(asked') /\ asked'[r].page \in open' /\ answers' = <<>>
          /\ asked'[r].kind = "both" /\ fate'[r] = "new"
      BY <1>1, <1>2, <1>3, <1>6, <2>1 DEF Numbers
    <3>3. \A q \in Numbers : q > Len(asked') => fate'[q] = "new"
      BY <1>2, <2>1 DEF IInv, RoutingOK, Numbers
    <3>4. nextId' <= Len(asked')
      BY <1>1, <1>2 DEF IInv, RoutingOK
    <3>5. nextId' \in Nat /\ Len(asked') \in Nat
      BY <1>1, <1>2 DEF IInv, TypeOK
    <3> QED BY <3>1, <3>2, <3>3, <3>4, <3>5 DEF RoutingOK
  <2>6. EndOK' /\ AllowedAsShown'
    BY <1>1, <2>1 DEF IInv, EndOK, AllowedAsShown, hostVars
  <2> QED BY <2>3, <2>4, <2>5, <2>6 DEF IInv
<1> QED BY <1>5, <1>6

LEMMA ReadSecondStep == ASSUME IInv, ReadSecond PROVE IInv'
<1> DEFINE r == routing.req
           d == Together(routing.decision, policy[<<"microphone", asked[r].origin>>])
<1>1. /\ routing.at = "second" /\ Route(r, d) /\ Decides(r, d)
      /\ UNCHANGED <<open, asked, queue, nextId, answers, ended, resolutions, invokes, policy, shutdown, hostVars>>
  BY DEF ReadSecond
<1>2. /\ r \in 1..Len(asked) /\ r \in Numbers /\ fate[r] = "new" /\ asked[r].page \in open /\ answers = <<>>
  <2>1. Len(asked) \in Nat /\ Len(asked) <= MaxRequests /\ MaxRequests \in Nat
    BY PermissionsAssumption DEF PermissionsAssumption, IInv, TypeOK
  <2> QED BY <1>1, <2>1 DEF IInv, RoutingOK, Numbers
<1>3. d \in Decisions
  BY DEF Together, Decisions
<1>4. RoutingBegins
  BY <1>1 DEF RoutingBegins, Decides, IInv, TypeOK
<1> HIDE DEF r, d
<1>5. r = routing.req
  BY DEF r
<1>6. /\ Len(asked') \in Numbers /\ r \in 1..Len(asked') /\ asked' \in Seq(Requests)
      /\ asked'[r].page \in open
  BY <1>1, <1>2 DEF IInv, TypeOK, Numbers
<1> QED BY <1>1, <1>2, <1>3, <1>4, <1>5, <1>6, RouteStep

\* enqueueRequest gives out an id nobody has heard of.
LEMMA PushStep == ASSUME IInv, Push PROVE IInv'
<1> DEFINE r == routing.req
           new == [id |-> nextId, req |-> r, resolved |-> FALSE]
<1>1. /\ routing.at = "pushing" /\ queue' = queue \cup {new} /\ nextId' = nextId + 1
      /\ routing' = (IF routing.decision = "allow" THEN [routing EXCEPT !.at = "pushed"] ELSE NotRouting)
      /\ UNCHANGED <<open, asked, fate, answers, ended, resolutions, invokes, policy, shutdown, agreed, hostVars>>
  BY DEF Push
<1>2. /\ r \in 1..Len(asked) /\ asked[r].page \in open /\ answers = <<>> /\ fate[r] = "open"
      /\ nextId <= Len(asked) /\ \A e \in queue : e.req # r
  BY <1>1 DEF IInv, RoutingOK
<1>3. /\ Len(asked) \in Nat /\ Len(asked) <= MaxRequests /\ MaxRequests \in Nat /\ nextId \in Nat \ {0}
  BY PermissionsAssumption DEF PermissionsAssumption, IInv, TypeOK
<1>4. r \in Numbers /\ nextId \in Numbers /\ nextId' \in 1..(MaxRequests + 1)
  BY <1>1, <1>2, <1>3 DEF Numbers
<1>5. new \in Entries /\ new.id = nextId /\ new.req = r /\ new.resolved = FALSE
  BY <1>4 DEF Entries
<1>6. /\ routing' \in Routings
      /\ routing'.at = (IF routing.decision = "allow" THEN "pushed" ELSE "idle")
      /\ routing.decision = "allow" => routing'.req = r /\ routing'.decision = "allow"
  <2>1. CASE routing.decision = "allow"
    <3>1. routing' = [routing EXCEPT !.at = "pushed"] /\ routing \in Routings
      BY <1>1, <2>1 DEF IInv, TypeOK
    <3>2. routing' \in Routings
      BY <3>1 DEF Routings
    <3>3. routing'.at = "pushed" /\ routing'.req = r /\ routing'.decision = routing.decision
      BY <3>1 DEF Routings
    <3> QED BY <2>1, <3>2, <3>3
  <2>2. CASE routing.decision # "allow"
    BY <1>1, <1>3, <2>2 DEF Routings, NotRouting, Decisions
  <2> QED BY <2>1, <2>2
<1> HIDE DEF new
<1>7. TypeOK'
  BY <1>1, <1>4, <1>5, <1>6 DEF IInv, TypeOK, hostVars
<1>8. \A e \in queue : e.id \in Nat /\ e.id < nextId
  BY DEF IInv, QueueOK, TypeOK, Entries, Numbers
<1>9. QueueOK'
  BY <1>1, <1>2, <1>3, <1>5, <1>8 DEF IInv, QueueOK
<1>10. RoutingOK'
  BY <1>1, <1>2, <1>3, <1>6 DEF IInv, RoutingOK
<1>11. NobodyAsksForGone'
  BY <1>1, <1>2, <1>5 DEF IInv, NobodyAsksForGone
<1>12. EndOK'
  BY <1>1 DEF IInv, EndOK, hostVars
<1>13. TableOK' /\ AllowedAsShown'
  BY <1>1 DEF IInv, TableOK, CopiesAgree, AllowedAsShown, hostVars
<1>14. ASSUME NEW id, NEW d, AnswerOK(id, d) PROVE AnswerOK(id, d)'
  BY <1>1, <1>3, <1>5, <1>14 DEF AnswerOK
<1>15. AnswersOK'
  BY <1>1, <1>14 DEF IInv, AnswersOK, hostVars
<1>16. ASSUME NEW id, IsFront(id) PROVE IsFront(id)'
  BY <1>1, <1>3, <1>5, <1>8, <1>16 DEF IsFront
<1>17. ScreenOK'
  BY <1>1, <1>3, <1>5, <1>16 DEF IInv, ScreenOK, IsFront, hostVars
<1> QED BY <1>7, <1>9, <1>10, <1>11, <1>12, <1>13, <1>15, <1>17 DEF IInv

-----------------------------------------------------------------------------
(* Requests leave the queue.                                               *)

\* Those that leave are answered, with a yes only if that was agreed to, and nothing
\* else is.
Answering ==
  /\ queue' \subseteq queue /\ fate' \in [Numbers -> Fates]
  /\ \A e \in queue : IF e \in queue' THEN fate'[e.req] = fate[e.req] ELSE fate'[e.req] \in {"allowed", "denied"}
  /\ \A r \in Numbers \ Queued : fate'[r] = fate[r]
  /\ \A r \in Numbers : fate'[r] = "allowed" /\ fate[r] # "allowed" => r \in agreed

LEMMA QueuedAreNumbers == ASSUME IInv PROVE Queued \subseteq Numbers /\ \A r \in Queued : fate[r] = "open"
BY DEF IInv, TypeOK, QueueOK, Entries, Queued

LEMMA DenyAnswers == ASSUME IInv, NEW S, S \subseteq Queued, DenyAndRelease(S) PROVE Answering
<1>1. queue' = {e \in queue : e.req \notin S} /\ fate' = [r \in Numbers |-> IF r \in S THEN "denied" ELSE fate[r]]
  BY DEF DenyAndRelease
<1>2. fate' \in [Numbers -> Fates]
  BY <1>1 DEF IInv, TypeOK, Fates
<1>3. \A e \in queue : e.req \in Numbers
  BY DEF IInv, TypeOK, Entries
<1> QED BY <1>1, <1>2, <1>3 DEF Answering

LEMMA AnswerAnswers ==
  ASSUME IInv, NEW id, NEW d, AnswerRequest(id, d),
         d = "allow" => \A e \in queue : e.id = id => e.req \in agreed
  PROVE  Answering
<1>1. queue' = {e \in queue : e.id # id} /\ fate' = Told(WithId(id), d)
  BY DEF AnswerRequest
<1>2. WithId(id) \subseteq Queued /\ \A r \in WithId(id) : d = "allow" => r \in agreed
  BY DEF WithId, Queued
<1>3. fate' \in [Numbers -> Fates]
  BY <1>1 DEF IInv, TypeOK, Fates, Told
<1>4. \A r \in Numbers : fate'[r] = IF r \in WithId(id) THEN (IF d = "allow" THEN "allowed" ELSE "denied") ELSE fate[r]
  BY <1>1 DEF Told
<1>5. \A e \in queue : e.req \in Numbers /\ (e.req \in WithId(id) <=> e.id = id)
  BY DEF IInv, TypeOK, Entries, QueueOK, WithId
<1> QED BY <1>1, <1>2, <1>3, <1>4, <1>5 DEF Answering

LEMMA AnsweringStep ==
  ASSUME IInv, Answering,
         UNCHANGED <<asked, nextId, resolutions, policy, shutdown, agreed, hostVars>>,
         routing' \in Routings, routing'.at = "idle",
         open' \subseteq open, \A e \in queue' : asked[e.req].page \in open',
         answers' \in Seq([id : 0..MaxRequests, decision : Decisions]),
         \A i \in 1..Len(answers') : \E j \in 1..Len(answers) : answers'[i] = answers[j],
         invokes' \in Seq({"drain", "shutdown"}),
         \A i \in 1..Len(invokes') : \E j \in 1..Len(invokes) : invokes'[i] = invokes[j],
         ended' \in BOOLEAN, ended' => shutdown /\ queue' = {}
  PROVE  IInv'
<1>1. TypeOK'
  BY DEF IInv, TypeOK, Answering, hostVars
<1>2. QueueOK'
  BY DEF IInv, QueueOK, Answering
<1>3. RoutingOK'
  <2>1. \A e \in queue : e.req \in 1..Len(asked)
    BY DEF IInv, QueueOK
  <2>2. \A r \in Queued : r <= Len(asked)
    BY <2>1 DEF Queued, IInv, TypeOK
  <2>3. \A r \in Numbers : r > Len(asked) => r \notin Queued
    BY <2>2 DEF Numbers, IInv, TypeOK
  <2>4. \A r \in Numbers : r > Len(asked') => fate'[r] = "new"
    BY <2>3 DEF IInv, RoutingOK, Answering
  <2> QED BY <2>4 DEF IInv, RoutingOK
<1>4. NobodyAsksForGone'
  BY DEF NobodyAsksForGone
<1>5. EndOK'
  BY DEF IInv, EndOK, hostVars
<1>6. TableOK'
  BY DEF IInv, TableOK, CopiesAgree, hostVars
<1>7. AllowedAsShown'
  BY DEF IInv, AllowedAsShown, Answering
<1>8. ASSUME NEW id, NEW d, AnswerOK(id, d) PROVE AnswerOK(id, d)'
  BY <1>8 DEF AnswerOK, Answering
<1>9. AnswersOK'
  BY <1>8 DEF IInv, AnswersOK, hostVars
<1>10. ScreenOK'
  BY DEF IInv, ScreenOK, IsFront, Answering, hostVars
<1> QED BY <1>1, <1>2, <1>3, <1>4, <1>5, <1>6, <1>7, <1>9, <1>10 DEF IInv

LEMMA TailKeeps ==
  ASSUME NEW S, NEW s \in Seq(S), s # <<>>
  PROVE  /\ Head(s) = s[1] /\ 1 \in 1..Len(s) /\ Tail(s) \in Seq(S)
         /\ \A i \in 1..Len(Tail(s)) : \E j \in 1..Len(s) : Tail(s)[i] = s[j]
<1>1. \A i \in 1..Len(Tail(s)) : i + 1 \in 1..Len(s) /\ Tail(s)[i] = s[i + 1]
  BY HeadTailProperties, LenProperties
<1> QED BY <1>1, HeadTailProperties, EmptySeq

LEMMA AnswerAllowedStep ==
  ASSUME IInv, AnswerAllowed PROVE Answering /\ IInv'
<1>1. PICK e \in queue : e.req = routing.req /\ AnswerRequest(e.id, "allow")
  BY DEF AnswerAllowed
<1>2. /\ routing.at = "pushed" /\ routing' = NotRouting
      /\ UNCHANGED <<open, asked, nextId, answers, ended, resolutions, invokes, policy, shutdown, agreed, hostVars>>
  BY DEF AnswerAllowed
<1>3. \A f \in queue : f.id = e.id => f.req \in agreed
  BY <1>1, <1>2 DEF IInv, QueueOK, RoutingOK
<1>4. Answering
  BY <1>1, <1>3, AnswerAnswers
<1>5. routing' \in Routings /\ routing'.at = "idle"
  BY <1>2, Idle
<1>6. \A f \in queue' : asked[f.req].page \in open'
  BY <1>2, <1>4 DEF IInv, NobodyAsksForGone, Answering
<1>7. ~ended
  BY <1>1 DEF IInv, EndOK
<1> QED BY <1>2, <1>4, <1>5, <1>6, <1>7, AnsweringStep DEF IInv, TypeOK

LEMMA PageGoesStep == ASSUME IInv, NEW p \in Pages, PageGoes(p) PROVE Answering /\ IInv'
<1>1. /\ routing.at = "idle" /\ p \in open /\ open' = open \ {p}
      /\ DenyAndRelease({r \in Queued : asked[r].page = p})
      /\ UNCHANGED <<asked, routing, nextId, answers, ended, resolutions, invokes, policy, shutdown, agreed, hostVars>>
  BY DEF PageGoes, Free, DenyRequestsForPage
<1>2. Answering
  BY <1>1, DenyAnswers
<1>3. \A e \in queue' : asked[e.req].page \in open'
  BY <1>1 DEF DenyAndRelease, Queued, IInv, NobodyAsksForGone
<1>4. ended => shutdown /\ queue' = {}
  BY <1>2 DEF IInv, EndOK, Answering
<1> QED BY <1>1, <1>2, <1>3, <1>4, AnsweringStep DEF IInv, TypeOK

LEMMA CarryOutStep == ASSUME IInv, CarryOut PROVE Answering /\ IInv'
<1> DEFINE a == Head(answers)
<1>1. /\ answers # <<>> /\ answers' = Tail(answers)
      /\ UNCHANGED <<open, asked, routing, nextId, ended, resolutions, invokes, policy, shutdown, agreed, hostVars>>
      /\ IF a.id = 0 THEN DenyEveryRequest ELSE AnswerRequest(a.id, a.decision)
  BY DEF CarryOut
<1>2. /\ a = answers[1] /\ 1 \in 1..Len(answers)
      /\ answers' \in Seq([id : 0..MaxRequests, decision : Decisions])
      /\ \A i \in 1..Len(answers') : \E j \in 1..Len(answers) : answers'[i] = answers[j]
  BY <1>1, TailKeeps DEF IInv, TypeOK
<1>3. AnswerOK(a.id, a.decision)
  BY <1>2 DEF IInv, AnswersOK
<1>4. Answering
  <2>1. CASE a.id = 0
    BY <1>1, <2>1, DenyAnswers DEF DenyEveryRequest
  <2>2. CASE a.id # 0
    BY <1>1, <1>3, <2>2, AnswerAnswers DEF AnswerOK
  <2> QED BY <2>1, <2>2
<1>5. routing.at = "idle"
  BY <1>1 DEF IInv, RoutingOK
<1>6. (ended => shutdown /\ queue' = {}) /\ \A e \in queue' : asked[e.req].page \in open'
  BY <1>1, <1>4 DEF IInv, EndOK, Answering, NobodyAsksForGone
<1> QED BY <1>1, <1>2, <1>4, <1>5, <1>6, AnsweringStep DEF IInv, TypeOK

LEMMA ShutdownStep == ASSUME IInv, ShutdownOnWebKitThread PROVE Answering /\ IInv'
<1>1. /\ routing.at = "idle" /\ invokes # <<>> /\ Head(invokes) = "shutdown" /\ invokes' = Tail(invokes)
      /\ DenyAndRelease(Queued) /\ ended' = TRUE
      /\ UNCHANGED <<open, asked, routing, nextId, answers, resolutions, policy, shutdown, agreed, hostVars>>
  BY DEF ShutdownOnWebKitThread, Free, DenyEveryRequest
<1>2. /\ Head(invokes) = invokes[1] /\ 1 \in 1..Len(invokes) /\ invokes' \in Seq({"drain", "shutdown"})
      /\ \A i \in 1..Len(invokes') : \E j \in 1..Len(invokes) : invokes'[i] = invokes[j]
  BY <1>1, TailKeeps DEF IInv, TypeOK
<1>3. Answering
  BY <1>1, DenyAnswers
<1>4. shutdown /\ queue' = {}
  BY <1>1, <1>2 DEF IInv, EndOK, DenyAndRelease, Queued
<1> QED BY <1>1, <1>2, <1>3, <1>4, AnsweringStep DEF IInv, TypeOK

\* drainResolutions takes the answers over as they are.
LEMMA DrainStep == ASSUME IInv, Drain PROVE IInv'
<1>1. /\ routing.at = "idle" /\ invokes # <<>> /\ invokes' = Tail(invokes)
      /\ answers' = resolutions /\ resolutions' = <<>>
      /\ UNCHANGED <<open, asked, fate, routing, queue, nextId, ended, policy, shutdown, agreed, hostVars>>
  BY DEF Drain, Free
<1>2. /\ invokes' \in Seq({"drain", "shutdown"})
      /\ \A i \in 1..Len(invokes') : \E j \in 1..Len(invokes) : invokes'[i] = invokes[j]
  BY <1>1, TailKeeps DEF IInv, TypeOK
<1>3. TypeOK'
  BY <1>1, <1>2 DEF IInv, TypeOK, hostVars
<1>4. QueueOK' /\ RoutingOK' /\ NobodyAsksForGone' /\ AllowedAsShown'
  BY <1>1 DEF IInv, QueueOK, RoutingOK, NobodyAsksForGone, AllowedAsShown
<1>5. EndOK' /\ TableOK'
  BY <1>1, <1>2 DEF IInv, EndOK, TableOK, CopiesAgree, hostVars
<1>6. AnswersOK'
  BY <1>1 DEF IInv, AnswersOK, AnswerOK, hostVars
<1>7. ScreenOK'
  BY <1>1 DEF IInv, ScreenOK, IsFront, hostVars
<1> QED BY <1>3, <1>4, <1>5, <1>6, <1>7 DEF IInv

-----------------------------------------------------------------------------
(* The frame thread.                                                       *)

\* The frame thread works on its own table, with nothing on screen being read.
LEMMA HostWorks ==
  ASSUME IInv, UNCHANGED <<pageVars, resolutions, invokes, shutdown, agreed, prompt, lastResolved>>,
         policy' \in Tables, grants' \in Tables, host' \in Hosts, changes' \in 0..MaxChanges,
         host'.at \notin {"kind", "origin", "stopping", "leaving", "ended"}, TableOK',
         host'.at \in {"remembering", "clearing", "setting", "marking", "pushing"} /\ host'.answering =>
           AnswerOK(host'.id, host'.decision),
         host'.at \in {"marking", "pushing"} => host'.answering
  PROVE  IInv'
<1>1. TypeOK'
  BY DEF IInv, TypeOK, pageVars
<1>2. EndOK'
  BY DEF IInv, EndOK, pageVars
<1>3. AnswersOK'
  BY DEF IInv, AnswersOK, AnswerOK, pageVars
<1>4. ScreenOK'
  BY DEF IInv, ScreenOK, IsFront, pageVars
<1> QED BY <1>1, <1>2, <1>3, <1>4, PagesUntouched DEF IInv

\* The id that is read is that of the oldest request that waits.
LEMMA PumpReadsIdStep == ASSUME IInv, PumpReadsId PROVE IInv'
<1> DEFINE id == FrontUnresolved.id
<1>1. /\ host.at = "idle" /\ prompt.id = 0 /\ id # 0
      /\ host' = [HostIdle EXCEPT !.at = "kind", !.id = id]
      /\ UNCHANGED <<pageVars, resolutions, invokes, policy, shutdown, agreed, grants, prompt, lastResolved, changes>>
  BY DEF PumpReadsId
<1>2. FrontUnresolved \in Unresolved /\ \A f \in Unresolved : FrontUnresolved.id <= f.id
  BY <1>1, FrontIsOldest DEF IInv, NoEntry
<1>3. \A e \in queue : e.id \in Nat \ {0} /\ e.id < nextId /\ e.resolved \in BOOLEAN
  BY DEF IInv, QueueOK, TypeOK, Entries, Numbers
<1>4. IsFront(id)
  <2>1. id \in 1..(nextId - 1)
    BY <1>2, <1>3 DEF Unresolved, IInv, TypeOK
  <2>2. \A e \in queue : e.id = id => ~e.resolved
    BY <1>2 DEF Unresolved, IInv, QueueOK
  <2>3. \A f \in queue : f.id < id => f.resolved
    BY <1>2, <1>3 DEF Unresolved
  <2> QED BY <2>1, <2>2, <2>3 DEF IsFront
<1>5. id \in 0..MaxRequests
  BY <1>4, PermissionsAssumption DEF IsFront, IInv, TypeOK, PermissionsAssumption
<1> HIDE DEF id
<1>6. host' \in Hosts /\ host'.at = "kind" /\ host'.id = id
  BY <1>1, <1>5, Idle DEF Hosts
<1>7. TypeOK'
  BY <1>1, <1>6 DEF IInv, TypeOK, pageVars
<1>8. EndOK' /\ TableOK' /\ AnswersOK'
  BY <1>1, <1>6 DEF IInv, EndOK, TableOK, CopiesAgree, AnswersOK, AnswerOK, pageVars
<1>9. ScreenOK'
  BY <1>1, <1>4, <1>6 DEF IInv, ScreenOK, IsFront, pageVars
<1> QED BY <1>1, <1>7, <1>8, <1>9, PagesUntouched DEF IInv

\* If the request whose id was read is still there, it is the one that is found now.
LEMMA FrontIsRead ==
  ASSUME IInv, NEW id, IsFront(id)
  PROVE  \A e \in queue : e.id = id => FrontUnresolved = e
<1> SUFFICES ASSUME NEW e \in queue, e.id = id PROVE FrontUnresolved = e
  OBVIOUS
<1>1. e \in Unresolved /\ \A f \in queue : f.id < e.id => f.resolved
  BY DEF IsFront, Unresolved
<1>2. FrontUnresolved \in Unresolved /\ FrontUnresolved.id <= e.id
  BY <1>1, FrontIsOldest DEF IInv
<1>3. \A f \in queue : f.id \in Nat
  BY DEF IInv, TypeOK, Entries, Numbers
<1>4. FrontUnresolved.id = e.id
  BY <1>1, <1>2, <1>3 DEF Unresolved
<1> QED BY <1>2, <1>4 DEF IInv, QueueOK, Unresolved

\* The request found first, if there is one, is one that was asked.
LEMMA FrontIsAsked ==
  ASSUME IInv
  PROVE  FrontUnresolved.req # 0 => FrontUnresolved.req \in 1..Len(asked) /\ asked[FrontUnresolved.req] \in Requests
<1> SUFFICES ASSUME FrontUnresolved.req # 0
             PROVE  FrontUnresolved.req \in 1..Len(asked) /\ asked[FrontUnresolved.req] \in Requests
  OBVIOUS
<1>1. FrontUnresolved \in queue
  BY FrontIsOldest DEF IInv, NoEntry, Unresolved
<1> QED BY <1>1, ElementOfSeq DEF IInv, QueueOK, TypeOK

LEMMA PumpReadsKindStep == ASSUME IInv, PumpReadsKind PROVE IInv'
<1> DEFINE r == FrontUnresolved.req
           k == IF r = 0 THEN "geolocation" ELSE asked[r].kind
<1>1. /\ host.at = "kind" /\ host' = [host EXCEPT !.at = "origin", !.kind = k]
      /\ UNCHANGED <<pageVars, resolutions, invokes, policy, shutdown, agreed, grants, prompt, lastResolved, changes>>
  BY DEF PumpReadsKind
<1>2. k \in Kinds
  BY FrontIsAsked, PermissionsAssumption DEF PermissionsAssumption, Requests
<1>3. IsFront(host.id)
  BY <1>1 DEF IInv, ScreenOK
<1>4. \A e \in queue : e.id = host.id => asked[e.req].kind = k
  <2> SUFFICES ASSUME NEW e \in queue, e.id = host.id PROVE asked[e.req].kind = k
    OBVIOUS
  <2>1. FrontUnresolved = e
    BY <1>3, FrontIsRead
  <2>2. e.req # 0
    BY DEF IInv, TypeOK, Entries, Numbers
  <2> QED BY <2>1, <2>2
<1> HIDE DEF k
<1>5. host' \in Hosts /\ host'.at = "origin" /\ host'.id = host.id /\ host'.kind = k
  BY <1>1, <1>2 DEF IInv, TypeOK, Hosts
<1>6. TypeOK'
  BY <1>1, <1>5 DEF IInv, TypeOK, pageVars
<1>7. EndOK' /\ TableOK' /\ AnswersOK'
  BY <1>1, <1>5 DEF IInv, EndOK, TableOK, CopiesAgree, AnswersOK, AnswerOK, pageVars
<1>8. ScreenOK'
  BY <1>1, <1>3, <1>4, <1>5 DEF IInv, ScreenOK, IsFront, pageVars
<1> QED BY <1>1, <1>6, <1>7, <1>8, PagesUntouched DEF IInv

LEMMA PumpReadsOriginStep == ASSUME IInv, PumpReadsOrigin PROVE IInv'
<1> DEFINE r == FrontUnresolved.req
<1>1. /\ host.at = "origin"
      /\ UNCHANGED <<pageVars, resolutions, invokes, policy, shutdown, agreed, grants, changes>>
  BY DEF PumpReadsOrigin
<1>2. IsFront(host.id) /\ \A e \in queue : e.id = host.id => asked[e.req].kind = host.kind
  BY <1>1 DEF IInv, ScreenOK
<1>3. host.id \in 1..(nextId - 1) /\ host.id \in 0..MaxRequests /\ host.kind \in Kinds /\ host \in Hosts
  BY <1>2 DEF IsFront, IInv, TypeOK, Hosts
<1>4. CASE r = 0
  <2>1. /\ host' = [host EXCEPT !.at = "marking", !.decision = "deny", !.answering = TRUE]
        /\ lastResolved' = host.id /\ prompt' = prompt
    BY <1>4 DEF PumpReadsOrigin
  <2>2. /\ host' \in Hosts /\ host'.at = "marking" /\ host'.id = host.id
        /\ host'.decision = "deny" /\ host'.answering = TRUE
    BY <1>3, <2>1 DEF Hosts, Decisions
  <2>3. TypeOK'
    BY <1>1, <1>3, <2>1, <2>2 DEF IInv, TypeOK, pageVars
  <2>4. EndOK' /\ TableOK' /\ AnswersOK' /\ ScreenOK'
    BY <1>1, <1>3, <2>1, <2>2
    DEF IInv, EndOK, TableOK, CopiesAgree, AnswersOK, AnswerOK, ScreenOK, pageVars
  <2> QED BY <1>1, <2>3, <2>4, PagesUntouched DEF IInv
<1>5. CASE r # 0
  <2>1. /\ prompt' = [id |-> host.id, kind |-> host.kind, origin |-> asked[r].origin]
        /\ host' = HostIdle /\ lastResolved' = lastResolved
    BY <1>5 DEF PumpReadsOrigin
  <2>2. asked[r].origin \in Origins
    BY <1>5, FrontIsAsked DEF Requests
  <2>3. \A e \in queue : e.id = host.id => asked[e.req].origin = asked[r].origin
    BY <1>2, FrontIsRead
  <2>4. prompt' \in Prompts /\ prompt'.id = host.id /\ prompt'.kind = host.kind /\ prompt'.origin = asked[r].origin
    BY <1>3, <2>1, <2>2 DEF Prompts
  <2>5. host' \in Hosts /\ host'.at = "idle"
    BY <2>1, Idle
  <2>6. TypeOK'
    BY <1>1, <2>1, <2>4, <2>5 DEF IInv, TypeOK, pageVars
  <2>7. EndOK' /\ TableOK' /\ AnswersOK'
    BY <1>1, <2>1, <2>5 DEF IInv, EndOK, TableOK, CopiesAgree, AnswersOK, AnswerOK, pageVars
  <2>8. ScreenOK'
    BY <1>1, <1>2, <1>3, <2>2, <2>3, <2>4, <2>5 DEF ScreenOK, pageVars
  <2> QED BY <1>1, <2>6, <2>7, <2>8, PagesUntouched DEF IInv
<1> QED BY <1>4, <1>5

\* A person answers what is on screen: if its request still waits, it is agreed to.
LEMMA AnswerStep ==
  ASSUME IInv, NEW d \in {"allow", "deny"}, NEW remember \in BOOLEAN, Answer(d, remember) PROVE IInv'
<1> DEFINE id == prompt.id
           n == Len(Devices(prompt.kind))
           topics == IF remember THEN [i \in 1..n |-> <<Devices(prompt.kind)[i], prompt.origin>>] ELSE <<>>
           yes == {r \in WithId(id) : asked[r].kind = prompt.kind /\ asked[r].origin = prompt.origin}
<1>1. /\ host.at = "idle" /\ id # 0 /\ prompt' = NoPrompt /\ lastResolved' = id
      /\ host' = [HostIdle EXCEPT !.at = IF remember THEN "remembering" ELSE "marking", !.id = id,
                                  !.decision = d, !.answering = TRUE, !.topics = topics]
      /\ agreed' = (IF d = "allow" THEN agreed \cup yes ELSE agreed)
      /\ UNCHANGED <<pageVars, resolutions, invokes, policy, shutdown, grants, changes>>
  BY DEF Answer
<1>2. /\ id \in 1..(nextId - 1) /\ prompt.origin \in Origins /\ prompt.kind \in Kinds
      /\ \A e \in queue : e.id = id => asked[e.req].kind = prompt.kind /\ asked[e.req].origin = prompt.origin
  BY <1>1 DEF IInv, ScreenOK, TypeOK, Prompts
<1>3. id \in 0..MaxRequests
  BY <1>2, PermissionsAssumption DEF IInv, TypeOK, PermissionsAssumption
<1>4. topics \in Seq(Stored \X Origins) /\ (remember => topics # <<>>)
  <2>1. n \in 1..2 /\ \A i \in 1..n : <<Devices(prompt.kind)[i], prompt.origin>> \in Stored \X Origins
    BY <1>2, DevicesAreStored
  <2> HIDE DEF n
  <2>2. CASE remember
    <3>1. topics = [i \in 1..n |-> <<Devices(prompt.kind)[i], prompt.origin>>] /\ n \in Nat
      BY <2>1, <2>2
    <3> HIDE DEF topics
    <3>2. topics \in [1..n -> Stored \X Origins]
      BY <2>1, <3>1
    <3>3. topics \in Seq(Stored \X Origins)
      BY <3>1, <3>2, SeqDef
    <3>4. DOMAIN topics = 1..n /\ DOMAIN <<>> = {}
      BY <3>1
    <3> QED BY <2>1, <3>3, <3>4
  <2>3. CASE ~remember
    BY <2>3
  <2> QED BY <2>2, <2>3
<1>5. agreed \subseteq agreed' /\ agreed' \subseteq Numbers
  BY <1>1 DEF IInv, TypeOK, Entries, WithId
<1>6. d = "allow" => \A e \in queue : e.id = id => e.req \in agreed'
  BY <1>1, <1>2 DEF WithId
<1> HIDE DEF id, topics, yes
<1>7. /\ host' \in Hosts /\ host'.at = (IF remember THEN "remembering" ELSE "marking")
      /\ host'.id = id /\ host'.decision = d /\ host'.answering = TRUE /\ host'.topics = topics
  BY <1>1, <1>3, <1>4, Idle DEF Hosts, Decisions
<1>8. TypeOK'
  BY <1>1, <1>3, <1>5, <1>7, Idle DEF IInv, TypeOK, pageVars
<1>9. EndOK' /\ TableOK'
  BY <1>1, <1>4, <1>7 DEF IInv, EndOK, TableOK, CopiesAgree, pageVars
<1>10. AnswersOK'
  <2>1. UNCHANGED <<queue, nextId, resolutions, answers>>
    BY <1>1 DEF pageVars
  <2>2. host'.id \in 1..(nextId' - 1)
    BY <1>2, <1>7, <2>1
  <2> QED BY <1>5, <1>6, <1>7, <2>1, <2>2 DEF IInv, AnswersOK, AnswerOK
<1>11. ScreenOK'
  BY <1>1, <1>7, Idle DEF ScreenOK
<1> QED BY <1>1, <1>5, <1>8, <1>9, <1>10, <1>11, PagesUntouched DEF IInv

LEMMA RememberStep == ASSUME IInv, Remember PROVE IInv'
<1> DEFINE t == Head(host.topics)
<1>1. /\ host.at = "remembering" /\ grants' = [grants EXCEPT ![t] = host.decision]
      /\ host' = [host EXCEPT !.at = "clearing", !.topics = Tail(@)]
      /\ UNCHANGED <<pageVars, resolutions, invokes, policy, shutdown, agreed, prompt, lastResolved, changes>>
  BY DEF Remember
<1>2. host.topics \in Seq(Stored \X Origins) /\ host.topics # <<>> /\ host.decision \in Decisions /\ host \in Hosts
  BY <1>1 DEF IInv, TableOK, TypeOK, Hosts
<1>3. t \in Stored \X Origins /\ Tail(host.topics) \in Seq(Stored \X Origins)
  BY <1>2, HeadTailProperties
<1>4. grants' \in Tables
  BY <1>1, <1>2, <1>3 DEF IInv, TypeOK, Tables
<1>5. /\ host' \in Hosts /\ host'.at = "clearing" /\ host'.id = host.id /\ host'.decision = host.decision
      /\ host'.answering = host.answering
  BY <1>1, <1>2, <1>3 DEF Hosts
<1>6. TableOK'
  BY <1>5 DEF TableOK, CopiesAgree
<1>7. host'.answering => AnswerOK(host'.id, host'.decision)
  BY <1>1, <1>5 DEF IInv, AnswersOK
<1> QED BY <1>1, <1>4, <1>5, <1>6, <1>7, HostWorks DEF IInv, TypeOK

LEMMA PanelStep == ASSUME IInv, NEW new \in Tables, Panel(new) PROVE IInv'
<1>1. /\ host.at = "idle" /\ changes < MaxChanges /\ grants' = new /\ changes' = changes + 1
      /\ host' = [HostIdle EXCEPT !.at = "clearing"]
      /\ UNCHANGED <<pageVars, resolutions, invokes, policy, shutdown, agreed, prompt, lastResolved>>
  BY DEF Panel
<1>2. host' \in Hosts /\ host'.at = "clearing" /\ ~host'.answering
  BY <1>1, Idle DEF Hosts
<1>3. changes' \in 0..MaxChanges
  BY <1>1, PermissionsAssumption DEF IInv, TypeOK, PermissionsAssumption
<1>4. TableOK'
  BY <1>2 DEF TableOK, CopiesAgree
<1> QED BY <1>1, <1>2, <1>3, <1>4, HostWorks DEF IInv, TypeOK

\* What the frame thread goes on with, once it has published what it has to.
LEMMA PublishingGoesOn ==
  ASSUME NEW h \in Hosts
  PROVE  /\ Publishing(h) \in Hosts
         /\ Publishing(h).at \in {"idle", "remembering", "setting", "marking"}
         /\ Publishing(h).answering => Publishing(h).id = h.id /\ Publishing(h).decision = h.decision /\ h.answering
         /\ Publishing(h).at = "setting" <=> h.sets # {}
         /\ Publishing(h).at = "setting" => Publishing(h).sets = h.sets
         /\ Publishing(h).at = "remembering" => Publishing(h).topics # <<>>
         /\ Publishing(h).at = "marking" => Publishing(h).answering
<1>1. CASE h.sets # {}
  <2>1. Publishing(h) = [h EXCEPT !.at = "setting"]
    BY <1>1 DEF Publishing
  <2> QED BY <1>1, <2>1 DEF Hosts
<1>2. CASE h.sets = {} /\ h.topics # <<>>
  <2>1. Publishing(h) = [h EXCEPT !.at = "remembering"]
    BY <1>2 DEF Publishing, AfterPublishing
  <2> QED BY <1>2, <2>1 DEF Hosts
<1>3. CASE h.sets = {} /\ h.topics = <<>> /\ h.answering
  <2>1. Publishing(h) = [h EXCEPT !.at = "marking"]
    BY <1>3 DEF Publishing, AfterPublishing
  <2> QED BY <1>3, <2>1 DEF Hosts
<1>4. CASE h.sets = {} /\ h.topics = <<>> /\ ~h.answering
  <2>1. Publishing(h) = HostIdle
    BY <1>4 DEF Publishing, AfterPublishing
  <2> QED BY <1>4, <2>1, Idle
<1> QED BY <1>1, <1>2, <1>3, <1>4

\* The table is published in as many steps as it has answers: between them it holds
\* those that have been published, and asks about the others.
LEMMA PolicyClearStep == ASSUME IInv, PolicyClear PROVE IInv'
<1> DEFINE h == [host EXCEPT !.sets = Set]
<1>1. /\ host.at = "clearing" /\ policy' = EmptyTable /\ host' = Publishing(h)
      /\ UNCHANGED <<pageVars, resolutions, invokes, shutdown, agreed, grants, prompt, lastResolved, changes>>
  BY DEF PolicyClear
<1>2. grants \in [Stored \X Origins -> Decisions] /\ DOMAIN grants = Stored \X Origins
  BY DEF IInv, TypeOK, Tables
<1>3. Set \subseteq Stored \X Origins
  BY <1>2 DEF Set
<1>4. /\ h \in Hosts /\ h.sets = Set /\ h.id = host.id /\ h.decision = host.decision
      /\ h.answering = host.answering
  BY <1>3 DEF IInv, TypeOK, Hosts
<1> HIDE DEF h
<1>5. /\ host' \in Hosts /\ host'.at \in {"idle", "remembering", "setting", "marking"}
      /\ host'.answering => host'.id = h.id /\ host'.decision = h.decision /\ h.answering
      /\ host'.at = "setting" <=> h.sets # {}
      /\ host'.at = "setting" => host'.sets = h.sets
      /\ host'.at = "remembering" => host'.topics # <<>>
      /\ host'.at = "marking" => host'.answering
  BY <1>1, <1>4, PublishingGoesOn
<1>6. policy' \in Tables /\ \A t \in Stored \X Origins : policy'[t] = "ask"
  BY <1>1 DEF EmptyTable, Tables, Decisions
<1>7. policy' = [t \in Stored \X Origins |-> IF t \in Set THEN "ask" ELSE grants[t]]
  BY <1>1, <1>2 DEF EmptyTable, Set
<1>8. TableOK'
  <2>1. CASE host'.at = "setting"
    BY <1>1, <1>4, <1>5, <1>7, <2>1 DEF TableOK, CopiesAgree
  <2>2. CASE host'.at # "setting"
    <3>1. policy' = grants'
      BY <1>1, <1>2, <1>4, <1>5, <1>7, <2>2
    <3> QED BY <1>5, <2>2, <3>1 DEF TableOK, CopiesAgree
  <2> QED BY <2>1, <2>2
<1>9. host'.answering => AnswerOK(host'.id, host'.decision)
  BY <1>1, <1>4, <1>5 DEF IInv, AnswersOK
<1> QED BY <1>1, <1>5, <1>6, <1>8, <1>9, HostWorks DEF IInv, TypeOK

LEMMA PolicySetStep == ASSUME IInv, NEW t \in Stored \X Origins, PolicySet(t) PROVE IInv'
<1> DEFINE h == [host EXCEPT !.sets = @ \ {t}]
<1>1. /\ host.at = "setting" /\ t \in host.sets /\ policy' = [policy EXCEPT ![t] = grants[t]]
      /\ host' = Publishing(h)
      /\ UNCHANGED <<pageVars, resolutions, invokes, shutdown, agreed, grants, prompt, lastResolved, changes>>
  BY DEF PolicySet
<1>2. grants \in [Stored \X Origins -> Decisions] /\ policy \in [Stored \X Origins -> Decisions]
  BY DEF IInv, TypeOK, Tables
<1>3. policy = [u \in Stored \X Origins |-> IF u \in host.sets THEN "ask" ELSE grants[u]]
  BY <1>1 DEF IInv, TableOK
<1>4. /\ h \in Hosts /\ h.sets = host.sets \ {t} /\ h.id = host.id /\ h.decision = host.decision
      /\ h.answering = host.answering
  BY DEF IInv, TypeOK, Hosts
<1> HIDE DEF h
<1>5. /\ host' \in Hosts /\ host'.at \in {"idle", "remembering", "setting", "marking"}
      /\ host'.answering => host'.id = h.id /\ host'.decision = h.decision /\ h.answering
      /\ host'.at = "setting" <=> h.sets # {}
      /\ host'.at = "setting" => host'.sets = h.sets
      /\ host'.at = "remembering" => host'.topics # <<>>
      /\ host'.at = "marking" => host'.answering
  BY <1>1, <1>4, PublishingGoesOn
<1>6. policy' \in Tables
  BY <1>1, <1>2 DEF Tables
<1>7. policy' = [u \in Stored \X Origins |-> IF u \in host.sets \ {t} THEN "ask" ELSE grants[u]]
  BY <1>1, <1>2, <1>3
<1>8. TableOK'
  <2>1. CASE host'.at = "setting"
    BY ZenonT(40), <1>1, <1>4, <1>5, <1>7, <2>1 DEF TableOK, CopiesAgree
  <2>2. CASE host'.at # "setting"
    <3>1. policy' = grants'
      BY <1>1, <1>2, <1>4, <1>5, <1>7, <2>2
    <3> QED BY <1>5, <2>2, <3>1 DEF TableOK, CopiesAgree
  <2> QED BY <2>1, <2>2
<1>9. host'.answering => AnswerOK(host'.id, host'.decision)
  BY <1>1, <1>4, <1>5 DEF IInv, AnswersOK
<1> QED BY <1>1, <1>5, <1>6, <1>8, <1>9, HostWorks DEF IInv, TypeOK

\* postResolution marks what it answers; nothing is being read for the prompt meanwhile.
LEMMA MarkStep ==
  ASSUME IInv, NEW id, queue' = Marked(id), host.at \in {"marking", "stopping"},
         host' = [host EXCEPT !.at = IF host.at = "marking" THEN "pushing" ELSE "leaving"],
         UNCHANGED <<open, asked, fate, routing, nextId, answers, ended, resolutions, invokes, policy, shutdown, agreed,
                     grants, prompt, lastResolved, changes>>
  PROVE  IInv'
<1>1. \A g \in queue' : \E e \in queue : g = [e EXCEPT !.resolved = @ \/ id \in {0, e.id}]
  BY DEF Marked
<1>2. \A g \in queue' : \E e \in queue : g = [e EXCEPT !.resolved = @ \/ id \in {0, e.id}]
                                     /\ g \in Entries /\ g.id = e.id /\ g.req = e.req
  <2> SUFFICES ASSUME NEW g \in queue', NEW e \in queue, g = [e EXCEPT !.resolved = @ \/ id \in {0, e.id}]
               PROVE  g \in Entries /\ g.id = e.id /\ g.req = e.req
    BY <1>1
  <2>1. e \in Entries /\ (e.resolved \/ id \in {0, e.id}) \in BOOLEAN
    BY DEF IInv, TypeOK
  <2> HIDE DEF Marked
  <2> QED BY <2>1 DEF Entries
<1>3. /\ host' \in Hosts /\ host'.at = (IF host.at = "marking" THEN "pushing" ELSE "leaving")
      /\ host'.id = host.id /\ host'.decision = host.decision /\ host'.answering = host.answering
  BY DEF IInv, TypeOK, Hosts
<1>4. TypeOK'
  BY <1>2, <1>3 DEF IInv, TypeOK
<1>5. QueueOK'
  <2>1. \A e \in queue' : e.id < nextId' /\ e.req \in 1..Len(asked') /\ fate'[e.req] = "open"
    BY <1>2 DEF IInv, QueueOK
  <2>2. ASSUME NEW g \in queue', NEW h \in queue', g.id = h.id \/ g.req = h.req PROVE g = h
    BY <1>2, <2>2 DEF IInv, QueueOK
  <2> QED BY <2>1, <2>2 DEF QueueOK
<1>6. RoutingOK' /\ NobodyAsksForGone' /\ AllowedAsShown'
  BY <1>2 DEF IInv, RoutingOK, NobodyAsksForGone, AllowedAsShown
<1>7. EndOK' /\ TableOK'
  BY <1>2, <1>3 DEF IInv, EndOK, TableOK, CopiesAgree
<1>8. AnswersOK'
  <2>1. host'.at = "pushing" => AnswerOK(host.id, host.decision)'
    BY <1>2, <1>3 DEF IInv, AnswersOK, AnswerOK
  <2>2. (\A i \in 1..Len(resolutions) : AnswerOK(resolutions[i].id, resolutions[i].decision))'
    BY <1>2 DEF IInv, AnswersOK, AnswerOK
  <2>3. (\A i \in 1..Len(answers) : AnswerOK(answers[i].id, answers[i].decision))'
    BY <1>2 DEF IInv, AnswersOK, AnswerOK
  <2>4. host'.at \in {"marking", "pushing"} => host'.answering
    BY <1>3 DEF IInv, AnswersOK
  <2> QED BY <1>3, <2>1, <2>2, <2>3, <2>4 DEF AnswersOK
<1>9. ScreenOK'
  BY <1>2, <1>3 DEF IInv, ScreenOK
<1> QED BY <1>4, <1>5, <1>6, <1>7, <1>8, <1>9 DEF IInv

LEMMA PushResolutionStep == ASSUME IInv, PushResolution PROVE IInv'
<1> DEFINE a == [id |-> host.id, decision |-> host.decision]
<1>1. /\ host.at = "pushing" /\ resolutions' = Append(resolutions, a)
      /\ host' = [host EXCEPT !.at = "posting"]
      /\ UNCHANGED <<pageVars, invokes, policy, shutdown, agreed, grants, prompt, lastResolved, changes>>
  BY DEF PushResolution
<1>2. host' \in Hosts /\ host'.at = "posting" /\ a \in [id : 0..MaxRequests, decision : Decisions]
  BY <1>1 DEF IInv, TypeOK, Hosts
<1>3. AnswerOK(a.id, a.decision)
  BY <1>1 DEF IInv, AnswersOK
<1> HIDE DEF a
<1>4. /\ resolutions' \in Seq([id : 0..MaxRequests, decision : Decisions])
      /\ \A i \in 1..Len(resolutions') :
           resolutions'[i] = a \/ (i \in 1..Len(resolutions) /\ resolutions'[i] = resolutions[i])
  BY <1>1, <1>2, AppendProperties DEF IInv, TypeOK
<1>5. TypeOK'
  BY <1>1, <1>2, <1>4 DEF IInv, TypeOK, pageVars
<1>6. EndOK' /\ TableOK' /\ ScreenOK'
  BY <1>1, <1>2 DEF IInv, EndOK, TableOK, CopiesAgree, ScreenOK, pageVars
<1>7. AnswersOK'
  <2>1. \A i \in 1..Len(resolutions') : AnswerOK(resolutions'[i].id, resolutions'[i].decision)
    BY <1>3, <1>4 DEF IInv, AnswersOK
  <2>2. UNCHANGED <<queue, nextId, answers, agreed>>
    BY <1>1 DEF pageVars
  <2> QED BY <1>2, <2>1, <2>2 DEF IInv, AnswersOK, AnswerOK
<1> QED BY <1>1, <1>5, <1>6, <1>7, PagesUntouched DEF IInv

\* An invoke is posted.
LEMMA PostStep ==
  ASSUME IInv, NEW w \in {"drain", "shutdown"}, invokes' = Append(invokes, w), w = "shutdown" => shutdown,
         host' \in Hosts, host'.at \in {"idle", "ended"}, host'.at = "ended" => shutdown,
         host.at \in {"posting", "leaving"},
         UNCHANGED <<pageVars, resolutions, policy, shutdown, agreed, grants, prompt, lastResolved, changes>>
  PROVE  IInv'
<1>1. /\ invokes' \in Seq({"drain", "shutdown"})
      /\ \A i \in 1..Len(invokes') : invokes'[i] = w \/ (i \in 1..Len(invokes) /\ invokes'[i] = invokes[i])
  <2>1. invokes \in Seq({"drain", "shutdown"})
    BY DEF IInv, TypeOK
  <2> QED BY <2>1, AppendProperties
<1>2. TypeOK'
  BY <1>1 DEF IInv, TypeOK, pageVars
<1>3. EndOK' /\ TableOK'
  BY <1>1 DEF IInv, EndOK, TableOK, CopiesAgree, pageVars
<1>4. AnswersOK' /\ ScreenOK'
  BY DEF IInv, AnswersOK, AnswerOK, ScreenOK, pageVars
<1> QED BY <1>2, <1>3, <1>4, PagesUntouched DEF IInv

LEMMA BeginShutdownStep == ASSUME IInv, BeginShutdown PROVE IInv'
<1>1. /\ host.at = "idle" /\ shutdown' = TRUE /\ prompt' = NoPrompt
      /\ host' = [HostIdle EXCEPT !.at = "stopping"]
      /\ UNCHANGED <<pageVars, resolutions, invokes, policy, agreed, grants, lastResolved, changes>>
  BY DEF BeginShutdown
<1>2. host' \in Hosts /\ host'.at = "stopping"
  BY <1>1, Idle DEF Hosts
<1>3. TypeOK'
  BY <1>1, <1>2, Idle DEF IInv, TypeOK, pageVars
<1>4. EndOK' /\ TableOK' /\ AnswersOK' /\ ScreenOK'
  BY <1>1, <1>2, Idle DEF IInv, EndOK, TableOK, CopiesAgree, AnswersOK, AnswerOK, ScreenOK, pageVars
<1> QED BY <1>1, <1>3, <1>4, PagesUntouched DEF IInv

LEMMA NextInv == IInv /\ [Next]_vars => IInv'
<1> SUFFICES ASSUME IInv, [Next]_vars PROVE IInv'
  OBVIOUS
<1>1. CASE WorkStep
  BY <1>1, ReadSecondStep, PushStep, AnswerAllowedStep, DrainStep, CarryOutStep, ShutdownStep DEF WorkStep
<1>2. CASE MarkResolved
  BY <1>2, MarkStep DEF MarkResolved
<1>3. CASE MarkAll
  BY <1>3, MarkStep DEF MarkAll
<1>4. CASE PostDrain
  BY <1>4, PostStep, Idle DEF PostDrain
<1>5. CASE PostShutdown
  <2>1. host' \in Hosts /\ host'.at = "ended"
    BY <1>5 DEF PostShutdown, IInv, TypeOK, Hosts
  <2>2. shutdown
    BY <1>5 DEF PostShutdown, IInv, EndOK
  <2> QED BY <1>5, <2>1, <2>2, PostStep DEF PostShutdown
<1>6. CASE HostStep
  BY <1>2, <1>3, <1>4, <1>5, <1>6, PumpReadsIdStep, PumpReadsKindStep, PumpReadsOriginStep, RememberStep,
     PolicyClearStep, PolicySetStep, PushResolutionStep DEF HostStep
<1>7. CASE Person
  BY <1>7, AnswerStep DEF Person
<1>8. CASE \E k \in Kinds, o \in Origins, p \in Pages : Asks(k, o, p)
  BY <1>8, AsksStep
<1>9. CASE (\E p \in Pages : PageGoes(p)) \/ (\E new \in Tables : Panel(new)) \/ BeginShutdown
  BY <1>9, PageGoesStep, PanelStep, BeginShutdownStep
<1>10. CASE UNCHANGED vars
  <2>1. UNCHANGED <<pageVars, resolutions, invokes, policy, shutdown, agreed, grants, prompt, lastResolved, host, changes>>
    BY <1>10 DEF vars, hostVars
  <2>2. TypeOK' /\ EndOK' /\ TableOK' /\ AnswersOK' /\ ScreenOK'
    BY <2>1 DEF IInv, TypeOK, EndOK, TableOK, CopiesAgree, AnswersOK, AnswerOK, ScreenOK, IsFront, pageVars
  <2> QED BY <2>1, <2>2, PagesUntouched DEF IInv
<1> QED BY <1>1, <1>6, <1>7, <1>8, <1>9, <1>10 DEF Next

LEMMA AlwaysIInv == Spec => []IInv
BY InitInv, NextInv, PTL DEF Spec

-----------------------------------------------------------------------------
(* The theorems.                                                           *)

\* No request waits for a page that is gone, nothing is queued once the shutdown has
\* refused what there was, and the table the WebKit thread reads is the one the
\* frame thread keeps, except while it is being published.
THEOREM RequestsAreConsistent == Spec => []RequestsConsistent
<1>1. IInv => RequestsConsistent
  BY DEF IInv, RequestsConsistent, EndOK, TableOK, QuietAfterShutdown
<1> QED BY <1>1, AlwaysIInv, PTL

\* Whatever is allowed was agreed to: by the table, or by a person who was shown that
\* very request, its kind and its origin.
THEOREM AllowedIsShown == Spec => []AllowedAsShown
<1>1. IInv => AllowedAsShown
  BY DEF IInv
<1> QED BY <1>1, AlwaysIInv, PTL

LEMMA InitPromise == Init => Promise!Init
BY DEF Init, Promise!Init

LEMMA RoutePromise ==
  ASSUME IInv, NEW r \in Numbers, fate[r] = "new", NEW d \in Decisions, Route(r, d), Decides(r, d)
  PROVE  Promise!Ask(r)
<1>1. agreed' \in {agreed, agreed \cup {r}} /\ (d = "allow" => r \in agreed')
  BY DEF Decides
<1>2. CASE d = "deny" \/ shutdown
  BY <1>1, <1>2 DEF Route, Promise!Ask, Promise!Fates
<1>3. CASE ~(d = "deny" \/ shutdown)
  BY <1>1, <1>3 DEF Route, Promise!Ask, Promise!Fates
<1> QED BY <1>2, <1>3

LEMMA AnsweringPromise ==
  ASSUME IInv, Answering, UNCHANGED agreed
  PROVE  Promise!Next
<1> DEFINE yes == {r \in Numbers : fate'[r] = "allowed" /\ fate[r] # "allowed"}
           no == {r \in Numbers : fate'[r] = "denied" /\ fate[r] # "denied"}
<1>1. \A r \in Numbers : fate'[r] # fate[r] => r \in Queued
  BY DEF Answering
<1>2. \A r \in yes \cup no : fate[r] = "open"
  BY <1>1, QueuedAreNumbers
<1>3. yes \subseteq agreed
  BY DEF Answering
<1>4. \A r \in Numbers : fate'[r] # fate[r] => fate'[r] \in {"allowed", "denied"}
  BY <1>1 DEF Answering, Queued
<1>5. \A r \in Numbers : fate'[r] = IF r \in yes THEN "allowed" ELSE IF r \in no THEN "denied" ELSE fate[r]
  BY <1>4
<1>6. fate' = [r \in Numbers |-> IF r \in yes THEN "allowed" ELSE IF r \in no THEN "denied" ELSE fate[r]]
  BY <1>5 DEF Answering
<1>7. Promise!Answer(yes, no)
  BY <1>2, <1>3, <1>6 DEF Promise!Answer
<1>8. yes \in SUBSET Numbers /\ no \in SUBSET Numbers
  OBVIOUS
<1> QED BY <1>7, <1>8 DEF Promise!Next

LEMMA StepPromise == IInv /\ [Next]_vars => [Promise!Next]_<<fate, agreed>>
<1> SUFFICES ASSUME IInv, [Next]_vars PROVE [Promise!Next]_<<fate, agreed>>
  OBVIOUS
<1>1. ASSUME NEW k \in Kinds, NEW o \in Origins, NEW p \in Pages, Asks(k, o, p)
      PROVE  [Promise!Next]_<<fate, agreed>>
  <2> DEFINE r == Len(asked) + 1
             d == policy[<<Devices(k)[1], o>>]
  <2>1. r \in Numbers /\ fate[r] = "new"
    BY <1>1 DEF Asks, IInv, RoutingOK, TypeOK
  <2>2. d \in Decisions
    <3>1. <<Devices(k)[1], o>> \in Stored \X Origins
      BY DevicesAreStored
    <3> QED BY <3>1 DEF IInv, TypeOK, Tables
  <2>3. UNCHANGED <<fate, agreed>> \/ (Route(r, d) /\ Decides(r, d))
    BY <1>1 DEF Asks
  <2> HIDE DEF r, d
  <2> QED BY <2>1, <2>2, <2>3, RoutePromise DEF Promise!Next
<1>2. CASE ReadSecond
  <2> DEFINE r == routing.req
             d == Together(routing.decision, policy[<<"microphone", asked[r].origin>>])
  <2>1. Len(asked) \in Nat /\ Len(asked) <= MaxRequests /\ MaxRequests \in Nat
    BY PermissionsAssumption DEF PermissionsAssumption, IInv, TypeOK
  <2>2. r \in Numbers /\ fate[r] = "new"
    BY <1>2, <2>1 DEF ReadSecond, IInv, RoutingOK, Numbers
  <2>3. d \in Decisions
    BY DEF Together, Decisions
  <2>4. Route(r, d) /\ Decides(r, d)
    BY <1>2 DEF ReadSecond
  <2> HIDE DEF r, d
  <2> QED BY <2>2, <2>3, <2>4, RoutePromise DEF Promise!Next
<1>3. CASE AnswerAllowed
  BY <1>3, AnswerAllowedStep, AnsweringPromise DEF AnswerAllowed
<1>4. CASE CarryOut
  BY <1>4, CarryOutStep, AnsweringPromise DEF CarryOut
<1>5. CASE ShutdownOnWebKitThread
  BY <1>5, ShutdownStep, AnsweringPromise DEF ShutdownOnWebKitThread
<1>6. CASE \E p \in Pages : PageGoes(p)
  BY <1>6, PageGoesStep, AnsweringPromise DEF PageGoes
<1>7. ASSUME NEW d \in {"allow", "deny"}, NEW remember \in BOOLEAN, Answer(d, remember)
      PROVE  [Promise!Next]_<<fate, agreed>>
  <2> DEFINE yes == {r \in WithId(prompt.id) : asked[r].kind = prompt.kind /\ asked[r].origin = prompt.origin}
  <2>1. UNCHANGED fate /\ (agreed' = agreed \/ agreed' = agreed \cup yes)
    BY <1>7 DEF Answer, pageVars
  <2>2. CASE yes = {}
    BY <2>1, <2>2
  <2>3. CASE yes # {}
    <3>1. PICK e \in queue : e.id = prompt.id
      BY <2>3 DEF WithId
    <3>2. yes = {e.req}
      BY <2>3, <3>1 DEF WithId, IInv, QueueOK
    <3>3. e.req \in Numbers /\ fate[e.req] = "open"
      BY DEF IInv, QueueOK, TypeOK, Entries
    <3> QED BY <2>1, <3>2, <3>3 DEF Promise!Next, Promise!Agree
  <2> QED BY <2>2, <2>3
<1>8. CASE Push \/ Drain \/ HostStep \/ BeginShutdown \/ (\E new \in Tables : Panel(new)) \/ UNCHANGED vars
  BY <1>8 DEF Push, Drain, HostStep, PumpReadsId, PumpReadsKind, PumpReadsOrigin, Remember, PolicyClear, PolicySet,
     MarkResolved, PushResolution, PostDrain, MarkAll, PostShutdown, BeginShutdown, Panel, vars, pageVars
<1> QED BY <1>1, <1>2, <1>3, <1>4, <1>5, <1>6, <1>7, <1>8 DEF Next, WorkStep, Person

\* The bridge keeps the promise of Questions: every request is answered at most once,
\* and with a yes only if the table or a person has agreed to it.
THEOREM PermissionsImplementQuestions == Spec => KeepsPromise
<1>1. IInv /\ [Next]_vars => [Promise!Next]_(Promise!questionVars)
  BY StepPromise DEF Promise!questionVars
<1> QED BY <1>1, InitPromise, AlwaysIInv, PTL DEF Spec, KeepsPromise, Promise!Spec

-----------------------------------------------------------------------------
(* Dialogs.                                                                *)
(*                                                                         *)
(* Three threads answer: a person on the frame thread, the picker's own, and *)
(* the WebKit thread when a page goes or everything is refused.  What keeps  *)
(* a yes from reaching the wrong question is that an answer is written into  *)
(* the parked question, found by its id, and that ids are never used again.  *)

\* Every parked question is one that was asked, and its yes was said to it.
ParkedOK ==
  /\ \A r \in requests : r.id \in 1..Len(asked) /\ (r.accepted => r.id \in agreed)
  /\ \A r, s \in requests : r.id = s.id => r = s
  /\ \A q \in D!Numbers : q > Len(asked) => fate[q] = "new"

\* The picker's thread has one question in hand; it may have gone meanwhile, and
\* what was chosen was chosen for it.
PickerOK ==
  /\ \A i \in 1..Len(pickerQueue) : pickerQueue[i] \in 1..Len(asked)
  /\ picker.id \in 0..Len(asked)
  /\ picker.chosen => picker.at \in {"completing", "posting"}
  /\ picker.at = "completing" /\ picker.chosen /\ picker.id \in D!Unanswered => picker.id \in agreed

\* The question read for the screen was asked, and is not the picker's.
SheetOK == host.at \in {"read", "applied"} /\ host.id # 0 => host.id \in 1..Len(asked) /\ asked[host.id].kind # "picker"

DialogsInv ==
  /\ D!DialogsAssumption
  /\ D!TypeOK /\ ParkedOK /\ D!NobodyAsksForGone /\ D!ParkedIsOpen /\ PickerOK /\ SheetOK

-----------------------------------------------------------------------------
(* The operators.                                                          *)

\* Questions leave with an answer: the others stay parked, and open.
Leave(taken) ==
  /\ requests' = requests \ taken
  /\ fate' \in [D!Numbers -> D!Fates]
  /\ \A r \in taken : fate'[r.id] \in {"allowed", "denied"} /\ (fate'[r.id] = "allowed" => r.id \in agreed)
  /\ \A q \in D!Numbers : (\A r \in taken : r.id # q) => fate'[q] = fate[q]

LEMMA RefuseLeaves == ASSUME DialogsInv, NEW taken \in SUBSET requests, D!Refuse(taken) PROVE Leave(taken)
<1>1. /\ requests' = requests \ taken
      /\ fate' = [q \in D!Numbers |-> IF \E r \in taken : r.id = q THEN "denied" ELSE fate[q]]
  BY DEF D!Refuse
<1>2. fate' \in [D!Numbers -> D!Fates]
  BY <1>1 DEF DialogsInv, D!TypeOK, D!Fates
<1>3. \A r \in taken : r.id \in D!Numbers
  BY DEF DialogsInv, D!TypeOK, D!Requests
<1> QED BY <1>1, <1>2, <1>3 DEF Leave

LEMMA DeliverLeaves == ASSUME DialogsInv, NEW taken \in SUBSET requests, D!Deliver(taken) PROVE Leave(taken)
<1>1. /\ requests' = requests \ taken
      /\ fate' = [q \in D!Numbers |->
           IF \E r \in taken : r.id = q
           THEN (IF \E r \in taken : r.id = q /\ r.answered /\ r.accepted THEN "allowed" ELSE "denied")
           ELSE fate[q]]
  BY DEF D!Deliver
<1>2. fate' \in [D!Numbers -> D!Fates]
  BY <1>1 DEF DialogsInv, D!TypeOK, D!Fates
<1>3. \A r \in taken : r.id \in D!Numbers /\ (r.accepted => r.id \in agreed)
  BY DEF DialogsInv, D!TypeOK, D!Requests, ParkedOK
<1>4. ASSUME NEW r \in taken
      PROVE  fate'[r.id] \in {"allowed", "denied"} /\ (fate'[r.id] = "allowed" => r.id \in agreed)
  BY <1>1, <1>3
<1> QED BY <1>1, <1>2, <1>4 DEF Leave

\* Parked questions are marked answered: a yes only where it was said.
Mark ==
  /\ requests' \subseteq D!Requests
  /\ \A g \in requests' : \E r \in requests : g.id = r.id /\ (r.answered => g = r) /\ (g.accepted => g.id \in agreed')
  /\ \A r \in requests : \E g \in requests' : g.id = r.id
  /\ \A g, h \in requests' : g.id = h.id => g = h

LEMMA AnsweredMarks ==
  ASSUME DialogsInv, NEW id, NEW accepted \in BOOLEAN, NEW remember \in BOOLEAN,
         requests' = D!Answered(id, accepted, remember), agreed \subseteq agreed',
         accepted /\ id \in D!Unanswered => id \in agreed'
  PROVE  Mark
<1> DEFINE f(r) == IF r.id = id /\ ~r.answered
                   THEN [id |-> id, answered |-> TRUE, accepted |-> accepted, remember |-> remember]
                   ELSE r
<1>1. requests' = {f(r) : r \in requests}
  BY DEF D!Answered
<1>2. \A r \in requests : r \in D!Requests
  BY DEF DialogsInv, D!TypeOK
<1>3. ASSUME NEW r \in requests
      PROVE  f(r) \in D!Requests /\ f(r).id = r.id /\ (r.answered => f(r) = r) /\ (f(r).accepted => r.id \in agreed')
  <2>1. CASE r.id = id /\ ~r.answered
    BY <1>2, <2>1 DEF D!Requests, D!Unanswered
  <2>2. CASE ~(r.id = id /\ ~r.answered)
    BY <1>2, <2>2 DEF DialogsInv, ParkedOK
  <2> QED BY <2>1, <2>2
<1> HIDE DEF f
<1>4. \A g, h \in requests' : g.id = h.id => g = h
  BY <1>1, <1>3 DEF DialogsInv, ParkedOK
<1> QED BY <1>1, <1>3, <1>4 DEF Mark

-----------------------------------------------------------------------------
(* What the kinds of step do to the queue of questions.                     *)

QueueInv == ParkedOK /\ D!NobodyAsksForGone /\ D!ParkedIsOpen

LEMMA ParkedAreNumbers == ASSUME DialogsInv PROVE D!Unanswered \subseteq D!Parked /\ D!Parked \subseteq D!Numbers
BY DEF DialogsInv, D!TypeOK, D!Requests, D!Unanswered, D!Parked

LEMMA LeavesStep ==
  ASSUME DialogsInv, NEW taken \in SUBSET requests, Leave(taken), UNCHANGED <<asked, agreed>>,
         \A r \in requests \ taken : asked[r.id].page \in open'
  PROVE  QueueInv' /\ D!Unanswered' \subseteq D!Unanswered
<1>1. \A r \in requests : r.id \in D!Numbers /\ r.id \in 1..Len(asked) /\ fate[r.id] = "open"
  BY DEF DialogsInv, D!TypeOK, D!Requests, ParkedOK, D!ParkedIsOpen, D!Parked
<1>2. \A r \in requests, s \in requests : r.id = s.id => r = s
  BY DEF DialogsInv, ParkedOK
<1>3. ParkedOK'
  <2>1. \A r \in requests' : r.id \in 1..Len(asked) /\ (r.accepted => r.id \in agreed)
    BY DEF Leave, DialogsInv, ParkedOK
  <2>2. \A q \in D!Numbers : q > Len(asked) => fate'[q] = "new"
    <3> SUFFICES ASSUME NEW q \in D!Numbers, q > Len(asked) PROVE fate'[q] = "new"
      OBVIOUS
    <3>1. \A r \in taken : r.id # q
      BY <1>1 DEF DialogsInv, D!TypeOK, D!Numbers
    <3> QED BY <3>1 DEF Leave, DialogsInv, ParkedOK
  <2> QED BY <1>2, <2>1, <2>2 DEF ParkedOK, Leave
<1>4. D!ParkedIsOpen'
  <2> SUFFICES ASSUME NEW q \in D!Numbers PROVE (fate[q] = "open" <=> q \in D!Parked)'
    BY DEF D!ParkedIsOpen
  <2>1. CASE \E r \in taken : r.id = q
    BY <1>1, <1>2, <2>1 DEF Leave, D!Parked
  <2>2. CASE \A r \in taken : r.id # q
    <3>1. q \in D!Parked' <=> q \in D!Parked
      BY <2>2 DEF Leave, D!Parked
    <3> QED BY <2>2, <3>1 DEF Leave, DialogsInv, D!ParkedIsOpen
  <2> QED BY <2>1, <2>2
<1>5. D!NobodyAsksForGone' /\ D!Unanswered' \subseteq D!Unanswered
  BY DEF Leave, D!NobodyAsksForGone, D!Unanswered
<1> QED BY <1>3, <1>4, <1>5 DEF QueueInv

LEMMA MarksStep ==
  ASSUME DialogsInv, Mark, UNCHANGED <<open, asked, fate>>
  PROVE  QueueInv' /\ D!Unanswered' \subseteq D!Unanswered
<1>1. ParkedOK'
  BY DEF Mark, DialogsInv, ParkedOK
<1>2. D!Parked' = D!Parked
  BY DEF Mark, D!Parked
<1>3. D!ParkedIsOpen'
  BY <1>2 DEF DialogsInv, D!ParkedIsOpen
<1>4. D!NobodyAsksForGone'
  BY DEF Mark, DialogsInv, D!NobodyAsksForGone
<1>5. ASSUME NEW g \in requests', ~g.answered PROVE g.id \in D!Unanswered
  <2>1. PICK r \in requests : g.id = r.id /\ (r.answered => g = r)
    BY DEF Mark
  <2> QED BY <1>5, <2>1 DEF D!Unanswered
<1>6. D!Unanswered' \subseteq D!Unanswered
  BY <1>5 DEF D!Unanswered
<1> QED BY <1>1, <1>3, <1>4, <1>6 DEF QueueInv

LEMMA UntouchedStep ==
  ASSUME DialogsInv, UNCHANGED <<open, asked, fate, requests>>, agreed \subseteq agreed'
  PROVE  QueueInv' /\ D!Unanswered' \subseteq D!Unanswered
BY DEF DialogsInv, QueueInv, ParkedOK, D!NobodyAsksForGone, D!ParkedIsOpen, D!Parked, D!Unanswered

\* A question arrives under a number nobody has heard of.
LEMMA ArrivesStep ==
  ASSUME DialogsInv, NEW k \in Sheets, NEW p \in open, NEW q \in D!Numbers, q = Len(asked) + 1,
         asked' = Append(asked, [kind |-> k, page |-> p]), open' = open,
         NEW f \in {"open", "allowed"}, fate' = [fate EXCEPT ![q] = f], agreed \subseteq agreed',
         IF f = "open"
         THEN \E r \in D!Requests : r.id = q /\ ~r.accepted /\ requests' = requests \cup {r}
         ELSE requests' = requests
  PROVE  /\ QueueInv' /\ D!Unanswered' \subseteq D!Unanswered \cup {q} /\ requests' \subseteq D!Requests
         /\ fate[q] = "new" /\ fate' \in [D!Numbers -> D!Fates]
         /\ asked' \in Seq(D!Questions) /\ Len(asked') = q /\ q <= MaxQuestions
         /\ \A i \in 1..Len(asked) : asked'[i] = asked[i]
<1>1. /\ asked' \in Seq(D!Questions) /\ Len(asked') = q /\ asked'[q].page = p /\ Len(asked) \in Nat
      /\ \A i \in 1..Len(asked) : asked'[i] = asked[i]
  <2>1. [kind |-> k, page |-> p] \in D!Questions
    BY DEF D!Questions, DialogsInv, D!TypeOK
  <2> QED BY <2>1, AppendProperties DEF DialogsInv, D!TypeOK
<1>2. fate[q] = "new" /\ q <= MaxQuestions
  BY <1>1 DEF DialogsInv, ParkedOK, D!Numbers
<1>3. fate' \in [D!Numbers -> D!Fates] /\ fate'[q] = f /\ \A x \in D!Numbers \ {q} : fate'[x] = fate[x]
  BY DEF DialogsInv, D!TypeOK, D!Fates
<1>4. \A r \in requests : r.id \in 1..Len(asked) /\ r.id # q /\ r.id \in D!Numbers
  BY <1>1 DEF DialogsInv, ParkedOK, D!TypeOK, D!Requests
<1>5. PICK r \in D!Requests \cup {"none"} :
        IF f = "open"
        THEN r \in D!Requests /\ r.id = q /\ ~r.accepted /\ requests' = requests \cup {r}
        ELSE requests' = requests
  OBVIOUS
<1>6. ParkedOK'
  <2>1. \A x \in requests' : x.id \in 1..Len(asked') /\ (x.accepted => x.id \in agreed')
    BY <1>1, <1>4, <1>5 DEF DialogsInv, ParkedOK
  <2>2. \A x, y \in requests' : x.id = y.id => x = y
    BY <1>4, <1>5 DEF DialogsInv, ParkedOK
  <2>3. \A x \in D!Numbers : x > Len(asked') => fate'[x] = "new"
    BY <1>1, <1>3 DEF DialogsInv, ParkedOK, D!Numbers
  <2> QED BY <2>1, <2>2, <2>3 DEF ParkedOK
<1>7. D!NobodyAsksForGone'
  BY <1>1, <1>4, <1>5 DEF DialogsInv, D!NobodyAsksForGone
<1>8. D!ParkedIsOpen'
  <2>1. D!Parked' = IF f = "open" THEN D!Parked \cup {q} ELSE D!Parked
    BY <1>5 DEF D!Parked
  <2>2. q \notin D!Parked
    BY <1>4 DEF D!Parked
  <2> QED BY <1>3, <2>1, <2>2 DEF DialogsInv, D!ParkedIsOpen
<1>9. D!Unanswered' \subseteq D!Unanswered \cup {q} /\ requests' \subseteq D!Requests
  BY <1>5 DEF D!Unanswered, DialogsInv, D!TypeOK
<1> QED BY <1>1, <1>2, <1>3, <1>6, <1>7, <1>8, <1>9 DEF QueueInv

\* What is known of the picker and of the screen stays known.
LEMMA PickerKept ==
  ASSUME DialogsInv, UNCHANGED <<picker, pickerQueue>>, agreed \subseteq agreed',
         Len(asked') \in Nat, Len(asked) <= Len(asked'), \A q \in D!Unanswered' : q \in D!Unanswered \/ q > Len(asked)
  PROVE  PickerOK'
<1>1. Len(asked) \in Nat
  BY DEF DialogsInv, D!TypeOK
<1>2. picker.id \in D!Unanswered' => picker.id \in D!Unanswered
  BY <1>1 DEF DialogsInv, PickerOK
<1> QED BY <1>1, <1>2 DEF DialogsInv, PickerOK

LEMMA ScreenKept ==
  ASSUME DialogsInv, host' = host, Len(asked') \in Nat, Len(asked) <= Len(asked'), \A i \in 1..Len(asked) : asked'[i] = asked[i]
  PROVE  SheetOK'
<1>1. Len(asked) \in Nat
  BY DEF DialogsInv, D!TypeOK
<1> QED BY <1>1 DEF DialogsInv, SheetOK

-----------------------------------------------------------------------------
(* The steps.                                                              *)

\* The variables no invariant but TypeOK speaks of.
RestOK ==
  /\ open \subseteq Pages /\ trusted \in BOOLEAN /\ invokes \in Seq({"service", "refuse"}) /\ stopping \in BOOLEAN
  /\ shown \in D!Shown /\ overlay \in BOOLEAN /\ overlays \in 0..MaxOverlays
  /\ heldDown \in BOOLEAN /\ repaints \subseteq Pages /\ blank \subseteq Pages

LEMMA Posts == \A s \in Seq({"service", "refuse"}), w \in {"service", "refuse"} : Append(s, w) \in Seq({"service", "refuse"})
BY AppendProperties

LEMMA Takes ==
  ASSUME NEW S, NEW s \in Seq(S), s # <<>>
  PROVE  /\ Head(s) = s[1] /\ 1 \in 1..Len(s) /\ Tail(s) \in Seq(S)
         /\ \A i \in 1..Len(Tail(s)) : \E j \in 1..Len(s) : Tail(s)[i] = s[j]
<1>1. \A i \in 1..Len(Tail(s)) : i + 1 \in 1..Len(s) /\ Tail(s)[i] = s[i + 1]
  BY HeadTailProperties, LenProperties
<1> QED BY <1>1, HeadTailProperties, EmptySeq

LEMMA DialogConstants ==
  ASSUME D!DialogsAssumption
  PROVE  /\ D!HostIdle \in D!Hosts /\ D!HostIdle.at = "idle"
         /\ D!NothingShown \in D!Shown /\ D!NothingShown.id = 0
         /\ D!NoPicker \in D!Pickers /\ D!NoPicker.id = 0 /\ ~D!NoPicker.chosen
         /\ D!Waiting \in D!Pickers /\ D!Waiting.at = "waiting" /\ D!Waiting.id = 0 /\ ~D!Waiting.chosen
<1>1. D!HostIdle \in D!Hosts /\ D!NothingShown \in D!Shown /\ D!NoPicker \in D!Pickers /\ D!NoPicker.id = 0 /\ ~D!NoPicker.chosen
  BY DEF D!DialogsAssumption, D!HostIdle, D!Hosts, D!NothingShown, D!Shown, D!NoPicker, D!Pickers, D!Ids
<1>2. D!Waiting \in D!Pickers /\ D!Waiting.at = "waiting" /\ D!Waiting.id = 0 /\ ~D!Waiting.chosen
  BY <1>1 DEF D!Waiting, D!Pickers
<1> QED BY <1>1, <1>2 DEF D!HostIdle, D!NothingShown

LEMMA DialogIdle ==
  ASSUME DialogsInv
  PROVE  /\ D!HostIdle \in D!Hosts /\ D!HostIdle.at = "idle"
         /\ D!NothingShown \in D!Shown /\ D!NothingShown.id = 0
         /\ D!NoPicker \in D!Pickers /\ D!NoPicker.id = 0 /\ ~D!NoPicker.chosen
         /\ D!Waiting \in D!Pickers /\ D!Waiting.at = "waiting" /\ D!Waiting.id = 0 /\ ~D!Waiting.chosen
BY DialogConstants DEF DialogsInv

LEMMA DialogsInitInv == D!DialogsAssumption /\ D!Init => DialogsInv
<1> SUFFICES ASSUME D!DialogsAssumption, D!Init PROVE DialogsInv
  OBVIOUS
<1> USE DEF D!Init
<1>1. D!TypeOK
  <2>1. host \in D!Hosts /\ picker \in D!Pickers /\ shown \in D!Shown
    BY DialogConstants
  <2>2. /\ asked \in Seq(D!Questions) /\ Len(asked) <= MaxQuestions
        /\ invokes \in Seq({"service", "refuse"}) /\ pickerQueue \in Seq(D!Numbers)
    BY DEF D!DialogsAssumption
  <2>3. fate \in [D!Numbers -> D!Fates] /\ overlays \in 0..MaxOverlays
    BY DEF D!DialogsAssumption, D!Fates
  <2> QED BY <2>1, <2>2, <2>3 DEF D!TypeOK
<1>2. Len(asked) = 0 /\ Len(pickerQueue) = 0
  OBVIOUS
<1>3. ParkedOK /\ D!NobodyAsksForGone /\ D!ParkedIsOpen
  BY DEF ParkedOK, D!NobodyAsksForGone, D!ParkedIsOpen, D!Parked
<1>4. PickerOK /\ SheetOK
  BY <1>2 DEF PickerOK, SheetOK, D!NoPicker, D!HostIdle
<1> QED BY <1>1, <1>3, <1>4 DEF DialogsInv

LEMMA DialogAsksStep ==
  ASSUME DialogsInv, NEW k \in Sheets, NEW p \in Pages, D!Asks(k, p) PROVE DialogsInv' /\ D!Promise!Ask(Len(asked) + 1)
<1> DEFINE q == Len(asked) + 1
           f == IF k = "certificate" /\ trusted THEN "allowed" ELSE "open"
<1>1. /\ q \in D!Numbers /\ p \in open /\ asked' = Append(asked, [kind |-> k, page |-> p])
      /\ UNCHANGED <<open, trusted, invokes, D!pickerVars, D!hostVars, D!viewVars>>
  BY DEF D!Asks
<1>2. fate' = [fate EXCEPT ![q] = f] /\ agreed' = IF f = "allowed" THEN agreed \cup {q} ELSE agreed
  BY DEF D!Asks
<1>3. IF f = "open"
      THEN \E r \in D!Requests : r.id = q /\ ~r.accepted /\ requests' = requests \cup {r}
      ELSE requests' = requests
  <2>1. D!NewRequest(q) \in D!Requests /\ D!NewRequest(q).id = q /\ ~D!NewRequest(q).accepted
    BY <1>1 DEF D!NewRequest, D!Requests
  <2> QED BY <2>1 DEF D!Asks
<1>4. /\ QueueInv' /\ D!Unanswered' \subseteq D!Unanswered \cup {q} /\ requests' \subseteq D!Requests
      /\ fate[q] = "new" /\ fate' \in [D!Numbers -> D!Fates]
      /\ asked' \in Seq(D!Questions) /\ Len(asked') = q /\ q <= MaxQuestions
      /\ \A i \in 1..Len(asked) : asked'[i] = asked[i]
  <2> HIDE DEF q
  <2>1. q = Len(asked) + 1
    BY DEF q
  <2> QED BY <1>1, <1>2, <1>3, <2>1, ArrivesStep
<1>5. Len(asked) \in Nat /\ Len(asked) <= Len(asked') /\ Len(asked') \in Nat /\ q > Len(asked)
  BY <1>4 DEF DialogsInv, D!TypeOK
<1>6. D!TypeOK'
  BY <1>1, <1>2, <1>4 DEF DialogsInv, D!TypeOK, D!pickerVars, D!hostVars, D!viewVars
<1>7. PickerOK' /\ SheetOK'
  BY <1>1, <1>2, <1>4, <1>5, PickerKept, ScreenKept DEF D!pickerVars, D!hostVars
<1>8. D!Promise!Ask(q)
  BY <1>2, <1>4 DEF D!Promise!Ask, D!Promise!Fates
<1> QED BY <1>4, <1>6, <1>7, <1>8 DEF DialogsInv, QueueInv

LEMMA OpenPanelStep ==
  ASSUME DialogsInv, NEW p \in Pages, D!OpenPanel(p) PROVE DialogsInv' /\ D!Promise!Ask(Len(asked) + 1)
<1> DEFINE q == Len(asked) + 1
<1>1. /\ q \in D!Numbers /\ p \in open /\ "picker" \in Sheets /\ asked' = Append(asked, [kind |-> "picker", page |-> p])
      /\ fate' = [fate EXCEPT ![q] = "open"] /\ D!Submits(q)
      /\ UNCHANGED <<open, trusted, stopping, D!hostVars, D!viewVars, agreed>>
  BY DEF D!OpenPanel
<1>2. \E r \in D!Requests : r.id = q /\ ~r.accepted /\ requests' = requests \cup {r}
  <2>1. /\ D!NewRequest(q) \in D!Requests /\ D!NewRequest(q).id = q /\ ~D!NewRequest(q).accepted
        /\ [D!NewRequest(q) EXCEPT !.answered = TRUE] \in D!Requests
        /\ [D!NewRequest(q) EXCEPT !.answered = TRUE].id = q /\ ~[D!NewRequest(q) EXCEPT !.answered = TRUE].accepted
    BY <1>1 DEF D!NewRequest, D!Requests
  <2> QED BY <1>1, <2>1 DEF D!Submits
<1>3. /\ QueueInv' /\ D!Unanswered' \subseteq D!Unanswered \cup {q} /\ requests' \subseteq D!Requests
      /\ fate[q] = "new" /\ fate' \in [D!Numbers -> D!Fates]
      /\ asked' \in Seq(D!Questions) /\ Len(asked') = q /\ q <= MaxQuestions
      /\ \A i \in 1..Len(asked) : asked'[i] = asked[i]
  <2> HIDE DEF q
  <2>1. q = Len(asked) + 1
    BY DEF q
  <2> QED BY <1>1, <1>2, <2>1, ArrivesStep
<1>4. Len(asked) \in Nat /\ Len(asked) <= Len(asked') /\ Len(asked') \in Nat /\ q > Len(asked)
  BY <1>3 DEF DialogsInv, D!TypeOK
<1> HIDE DEF q
<1>5. invokes' \in Seq({"service", "refuse"})
  BY <1>1, Posts DEF D!Submits, DialogsInv, D!TypeOK
<1>6. \/ UNCHANGED <<pickerQueue, picker>>
      \/ pickerQueue' = Append(pickerQueue, q) /\ (picker' = picker \/ (picker.at = "none" /\ picker' = D!Waiting))
  BY <1>1 DEF D!Submits
<1>7. D!Waiting \in D!Pickers /\ D!Waiting.at = "waiting" /\ D!Waiting.id = 0 /\ ~D!Waiting.chosen
  BY DialogIdle
<1>8. /\ pickerQueue' \in Seq(D!Numbers)
      /\ \A i \in 1..Len(pickerQueue') :
           pickerQueue'[i] = q \/ (i \in 1..Len(pickerQueue) /\ pickerQueue'[i] = pickerQueue[i])
  <2>1. pickerQueue \in Seq(D!Numbers)
    BY DEF DialogsInv, D!TypeOK
  <2>2. CASE UNCHANGED <<pickerQueue, picker>>
    BY <2>1, <2>2
  <2>3. CASE pickerQueue' = Append(pickerQueue, q)
    BY <1>1, <2>1, <2>3, AppendProperties
  <2> QED BY <1>6, <2>2, <2>3
<1>9. D!TypeOK'
  BY <1>1, <1>3, <1>5, <1>6, <1>7, <1>8 DEF DialogsInv, D!TypeOK, D!hostVars, D!viewVars
<1>10. SheetOK'
  BY <1>1, <1>3, <1>4, ScreenKept DEF D!hostVars
<1>11. PickerOK'
  <2>1. \A i \in 1..Len(pickerQueue') : pickerQueue'[i] \in 1..Len(asked')
    BY <1>3, <1>4, <1>8 DEF DialogsInv, PickerOK
  <2>2. CASE picker' = picker
    <3>1. picker.id \in D!Unanswered' => picker.id \in D!Unanswered
      BY <1>3, <1>4 DEF DialogsInv, PickerOK
    <3> QED BY <1>1, <1>4, <2>1, <2>2, <3>1 DEF DialogsInv, PickerOK
  <2>3. CASE picker' = D!Waiting
    BY <1>4, <1>7, <2>1, <2>3 DEF PickerOK
  <2> QED BY <1>6, <2>2, <2>3
<1>12. D!Promise!Ask(q)
  BY <1>1, <1>3 DEF D!Promise!Ask, D!Promise!Fates
<1> QED BY <1>3, <1>9, <1>10, <1>11, <1>12 DEF DialogsInv, QueueInv, q

\* Questions leave, and the page, the view and the invokes may change with them.
LEMMA LeavingStep ==
  ASSUME DialogsInv, NEW taken \in SUBSET requests, Leave(taken), UNCHANGED <<asked, agreed, D!pickerVars, D!hostVars>>,
         \A r \in requests \ taken : asked[r.id].page \in open', RestOK'
  PROVE  DialogsInv'
<1>1. QueueInv' /\ D!Unanswered' \subseteq D!Unanswered
  BY LeavesStep
<1>2. Len(asked) \in Nat
  BY DEF DialogsInv, D!TypeOK
<1>3. PickerOK' /\ SheetOK'
  BY <1>1, <1>2, PickerKept, ScreenKept DEF D!pickerVars, D!hostVars
<1>4. D!TypeOK'
  BY DEF DialogsInv, D!TypeOK, RestOK, Leave, D!pickerVars, D!hostVars
<1> QED BY <1>1, <1>3, <1>4 DEF DialogsInv, QueueInv

\* Which, seen by the page, is an answer.
LEMMA LeavingPromise ==
  ASSUME DialogsInv, NEW taken \in SUBSET requests, Leave(taken), UNCHANGED agreed
  PROVE  D!Promise!Next
<1> DEFINE ids == {r.id : r \in taken}
           yes == {q \in ids : fate'[q] = "allowed"}
           no == {q \in ids : fate'[q] = "denied"}
<1>1. ids \subseteq D!Numbers /\ \A q \in ids : fate[q] = "open"
  BY DEF DialogsInv, D!TypeOK, D!Requests, D!ParkedIsOpen, D!Parked
<1>2. yes \subseteq agreed /\ yes \cup no = ids
  BY DEF Leave
<1>3. \A q \in D!Numbers : fate'[q] = IF q \in yes THEN "allowed" ELSE IF q \in no THEN "denied" ELSE fate[q]
  BY <1>2 DEF Leave
<1>4. fate' = [q \in D!Numbers |-> IF q \in yes THEN "allowed" ELSE IF q \in no THEN "denied" ELSE fate[q]]
  BY <1>3 DEF Leave
<1>5. D!Promise!Answer(yes, no)
  BY <1>1, <1>2, <1>4 DEF D!Promise!Answer
<1>6. yes \in SUBSET D!Numbers /\ no \in SUBSET D!Numbers
  BY <1>1
<1> QED BY <1>5, <1>6 DEF D!Promise!Next

LEMMA DetachPageStep == ASSUME DialogsInv, NEW p \in Pages, D!DetachPage(p) PROVE DialogsInv' /\ D!Promise!Next
<1> DEFINE taken == {r \in requests : asked[r.id].page = p}
<1>1. /\ open' = open \ {p} /\ blank' = blank \ {p} /\ D!Refuse(taken)
      /\ UNCHANGED <<asked, trusted, invokes, D!pickerVars, D!hostVars, heldDown, repaints, agreed>>
  BY DEF D!DetachPage
<1>2. taken \in SUBSET requests /\ Leave(taken)
  BY <1>1, RefuseLeaves
<1>3. \A r \in requests \ taken : asked[r.id].page \in open'
  BY <1>1 DEF DialogsInv, D!NobodyAsksForGone
<1>4. RestOK'
  BY <1>1 DEF DialogsInv, D!TypeOK, RestOK, D!pickerVars, D!hostVars
<1> HIDE DEF taken
<1> QED BY <1>1, <1>2, <1>3, <1>4, LeavingStep, LeavingPromise

LEMMA ServiceStep == ASSUME DialogsInv, D!Service PROVE DialogsInv' /\ D!Promise!Next
<1> DEFINE ready == {r \in requests : r.answered}
<1>1. /\ invokes # <<>> /\ invokes' = Tail(invokes) /\ D!Deliver(ready) /\ repaints' = {} /\ blank' = blank \ repaints
      /\ trusted' = (trusted \/ \E r \in ready : r.accepted /\ r.remember /\ asked[r.id].kind = "certificate")
      /\ UNCHANGED <<open, asked, D!pickerVars, D!hostVars, heldDown, agreed>>
  BY DEF D!Service
<1>2. ready \in SUBSET requests /\ Leave(ready)
  BY <1>1, DeliverLeaves
<1>3. \A r \in requests \ ready : asked[r.id].page \in open'
  BY <1>1 DEF DialogsInv, D!NobodyAsksForGone
<1>4. RestOK'
  <2>1. invokes' \in Seq({"service", "refuse"})
    BY <1>1, Takes DEF DialogsInv, D!TypeOK
  <2>2. trusted' \in BOOLEAN
    BY <1>1
  <2> QED BY <1>1, <2>1, <2>2 DEF DialogsInv, D!TypeOK, RestOK, D!pickerVars, D!hostVars
<1> HIDE DEF ready
<1> QED BY <1>1, <1>2, <1>3, <1>4, LeavingStep, LeavingPromise

LEMMA RefuseEverythingStep == ASSUME DialogsInv, D!RefuseEverything PROVE DialogsInv' /\ D!Promise!Next
<1>1. /\ invokes # <<>> /\ invokes' = Tail(invokes) /\ D!Refuse(requests) /\ repaints' = {}
      /\ UNCHANGED <<open, asked, trusted, D!pickerVars, D!hostVars, heldDown, blank, agreed>>
  BY DEF D!RefuseEverything
<1>2. requests \in SUBSET requests /\ Leave(requests)
  BY <1>1, RefuseLeaves
<1>3. RestOK'
  <2>1. invokes' \in Seq({"service", "refuse"})
    BY <1>1, Takes DEF DialogsInv, D!TypeOK
  <2> QED BY <1>1, <2>1 DEF DialogsInv, D!TypeOK, RestOK, D!pickerVars, D!hostVars
<1> QED BY <1>1, <1>2, <1>3, LeavingStep, LeavingPromise

\* A step of the picker's thread, or of the frame thread, which leaves the questions be.
LEMMA ElsewhereStep ==
  ASSUME DialogsInv, UNCHANGED <<open, asked, fate, requests>>, agreed' = agreed, RestOK',
         pickerQueue' \in Seq(D!Numbers), picker' \in D!Pickers, host' \in D!Hosts, PickerOK', SheetOK'
  PROVE  DialogsInv'
<1>1. QueueInv'
  BY UntouchedStep
<1>2. D!TypeOK'
  BY DEF DialogsInv, D!TypeOK, RestOK
<1> QED BY <1>1, <1>2 DEF DialogsInv, QueueInv

LEMMA PickerTakesStep == ASSUME DialogsInv, D!PickerTakes PROVE DialogsInv'
<1>1. /\ picker.at = "waiting"
      /\ UNCHANGED <<open, asked, fate, requests, trusted, invokes, stopping, D!hostVars, D!viewVars, agreed>>
  BY DEF D!PickerTakes
<1>2. RestOK' /\ SheetOK' /\ host' \in D!Hosts /\ picker \in D!Pickers /\ pickerQueue \in Seq(D!Numbers) /\ Len(asked) \in Nat
  BY <1>1 DEF DialogsInv, D!TypeOK, RestOK, SheetOK, D!hostVars, D!viewVars
<1>3. CASE pickerQueue # <<>>
  <2>1. picker' = [picker EXCEPT !.at = "taken", !.id = Head(pickerQueue)] /\ pickerQueue' = Tail(pickerQueue)
    BY <1>3 DEF D!PickerTakes
  <2>2. /\ Head(pickerQueue) = pickerQueue[1] /\ 1 \in 1..Len(pickerQueue) /\ pickerQueue' \in Seq(D!Numbers)
        /\ \A i \in 1..Len(pickerQueue') : \E j \in 1..Len(pickerQueue) : pickerQueue'[i] = pickerQueue[j]
    BY <1>2, <1>3, <2>1, Takes
  <2>3. Head(pickerQueue) \in 1..Len(asked) /\ Head(pickerQueue) \in D!Ids
    BY <2>2, <1>2 DEF DialogsInv, PickerOK, D!TypeOK, D!Ids, D!DialogsAssumption
  <2>4. /\ picker' \in D!Pickers /\ picker'.at = "taken" /\ picker'.id = Head(pickerQueue) /\ picker'.chosen = picker.chosen
    BY <1>2, <2>1, <2>3 DEF D!Pickers
  <2>5. PickerOK'
    <3>1. \A i \in 1..Len(pickerQueue') : pickerQueue'[i] \in 1..Len(asked')
      BY <1>1, <2>2 DEF DialogsInv, PickerOK
    <3>2. ~picker'.chosen
      BY <1>1, <2>4 DEF DialogsInv, PickerOK
    <3> QED BY <1>1, <1>2, <2>3, <2>4, <3>1, <3>2 DEF PickerOK
  <2> QED BY <1>1, <1>2, <2>2, <2>4, <2>5, ElsewhereStep
<1>4. CASE pickerQueue = <<>>
  <2>1. picker' = [picker EXCEPT !.at = "ended"] /\ pickerQueue' = pickerQueue
    BY <1>4 DEF D!PickerTakes
  <2>2. picker' \in D!Pickers /\ picker'.at = "ended" /\ picker'.id = picker.id /\ picker'.chosen = picker.chosen
    BY <1>2, <2>1 DEF D!Pickers
  <2>3. PickerOK'
    BY <1>1, <2>1, <2>2 DEF DialogsInv, PickerOK
  <2> QED BY <1>1, <1>2, <2>1, <2>2, <2>3, ElsewhereStep
<1> QED BY <1>3, <1>4

LEMMA PickerShowsStep == ASSUME DialogsInv, D!PickerShows PROVE DialogsInv'
<1>1. /\ picker.at = "taken" /\ picker' = [picker EXCEPT !.at = IF stopping THEN "completing" ELSE "showing"]
      /\ UNCHANGED <<open, asked, fate, requests, trusted, invokes, pickerQueue, stopping, D!hostVars, D!viewVars, agreed>>
  BY DEF D!PickerShows
<1>2. RestOK' /\ SheetOK' /\ host' \in D!Hosts /\ picker \in D!Pickers /\ pickerQueue' \in Seq(D!Numbers)
  BY <1>1 DEF DialogsInv, D!TypeOK, RestOK, SheetOK, D!hostVars, D!viewVars
<1>3. /\ picker' \in D!Pickers /\ picker'.at \in {"completing", "showing"} /\ picker'.id = picker.id
      /\ picker'.chosen = picker.chosen
  BY <1>1, <1>2 DEF D!Pickers
<1>4. PickerOK'
  BY <1>1, <1>3 DEF DialogsInv, PickerOK
<1> QED BY <1>1, <1>2, <1>3, <1>4, ElsewhereStep

\* A person agrees to a question that still waits.
LEMMA AgreePromise ==
  ASSUME DialogsInv, NEW q \in D!Unanswered, agreed' = agreed \cup {q}, fate' = fate
  PROVE  D!Promise!Next /\ agreed' \subseteq D!Numbers
<1>1. q \in D!Numbers /\ fate[q] = "open"
  BY ParkedAreNumbers DEF DialogsInv, D!ParkedIsOpen
<1>2. D!Promise!Agree(q)
  BY <1>1 DEF D!Promise!Agree
<1> QED BY <1>1, <1>2 DEF D!Promise!Next, DialogsInv, D!TypeOK

LEMMA PicksStep == ASSUME DialogsInv, NEW chosen \in BOOLEAN, D!Picks(chosen) PROVE DialogsInv' /\ [D!Promise!Next]_<<fate, agreed>>
<1>1. /\ picker.at = "showing" /\ picker' = [picker EXCEPT !.at = "completing", !.chosen = chosen]
      /\ agreed' = (IF chosen /\ picker.id \in D!Unanswered THEN agreed \cup {picker.id} ELSE agreed)
      /\ UNCHANGED <<open, asked, fate, requests, trusted, invokes, pickerQueue, stopping, D!hostVars, D!viewVars>>
  BY DEF D!Picks
<1>2. agreed \subseteq agreed' /\ agreed' \subseteq D!Numbers /\ [D!Promise!Next]_<<fate, agreed>>
  BY <1>1, AgreePromise DEF DialogsInv, D!TypeOK
<1>3. picker' \in D!Pickers /\ picker'.at = "completing" /\ picker'.id = picker.id /\ picker'.chosen = chosen
  BY <1>1 DEF DialogsInv, D!TypeOK, D!Pickers
<1>4. QueueInv' /\ D!Unanswered' \subseteq D!Unanswered
  BY <1>1, <1>2, UntouchedStep
<1>5. PickerOK'
  BY <1>1, <1>3, <1>4 DEF DialogsInv, PickerOK
<1>6. D!TypeOK' /\ SheetOK'
  BY <1>1, <1>2, <1>3 DEF DialogsInv, D!TypeOK, SheetOK, D!hostVars, D!viewVars
<1> QED BY <1>2, <1>4, <1>5, <1>6 DEF DialogsInv, QueueInv

LEMMA PickerCompletesStep == ASSUME DialogsInv, D!PickerCompletes PROVE DialogsInv'
<1>1. /\ picker.at = "completing" /\ requests' = D!Answered(picker.id, picker.chosen, FALSE)
      /\ picker' = (IF picker.id \in D!Unanswered THEN [picker EXCEPT !.at = "posting"] ELSE D!Waiting)
      /\ UNCHANGED <<open, asked, fate, trusted, invokes, pickerQueue, stopping, D!hostVars, D!viewVars, agreed>>
  BY DEF D!PickerCompletes
<1>2. picker \in D!Pickers /\ picker.chosen \in BOOLEAN /\ (picker.chosen /\ picker.id \in D!Unanswered => picker.id \in agreed)
  BY <1>1 DEF DialogsInv, D!TypeOK, D!Pickers, PickerOK
<1>3. Mark
  BY <1>1, <1>2, AnsweredMarks
<1>4. QueueInv' /\ D!Unanswered' \subseteq D!Unanswered
  BY <1>1, <1>3, MarksStep
<1>5. /\ picker' \in D!Pickers /\ picker'.at \in {"posting", "waiting"} /\ picker'.id \in {0, picker.id}
      /\ picker'.chosen => picker'.at = "posting"
  <2>1. CASE picker' = [picker EXCEPT !.at = "posting"]
    BY <1>2, <2>1 DEF D!Pickers
  <2>2. CASE picker' = D!Waiting
    BY <2>2, DialogIdle
  <2> QED BY <1>1, <2>1, <2>2
<1>6. PickerOK'
  BY <1>1, <1>5 DEF DialogsInv, PickerOK, D!TypeOK
<1>7. D!TypeOK' /\ SheetOK'
  BY <1>1, <1>3, <1>5 DEF DialogsInv, D!TypeOK, Mark, SheetOK, D!hostVars, D!viewVars
<1> QED BY <1>4, <1>6, <1>7 DEF DialogsInv, QueueInv

LEMMA PickerPostsStep == ASSUME DialogsInv, D!PickerPosts PROVE DialogsInv'
<1>1. /\ invokes' = Append(invokes, "service") /\ picker' = D!Waiting
      /\ UNCHANGED <<open, asked, fate, requests, trusted, pickerQueue, stopping, D!hostVars, D!viewVars, agreed>>
  BY DEF D!PickerPosts
<1>2. RestOK' /\ SheetOK' /\ host' \in D!Hosts /\ pickerQueue' \in Seq(D!Numbers)
  BY <1>1, Posts DEF DialogsInv, D!TypeOK, RestOK, SheetOK, D!hostVars, D!viewVars
<1>3. PickerOK'
  BY <1>1, DialogIdle DEF DialogsInv, PickerOK, D!TypeOK
<1> QED BY <1>1, <1>2, <1>3, DialogIdle, ElsewhereStep

-----------------------------------------------------------------------------
(* The frame thread.                                                       *)

\* It leaves the picker alone, and knows what it has read.
LEMMA FrameStep ==
  ASSUME DialogsInv, UNCHANGED <<open, asked, fate, requests, agreed, pickerQueue, picker>>, RestOK', host' \in D!Hosts,
         host'.at \in {"read", "applied"} /\ host'.id # 0 => host'.id \in 1..Len(asked) /\ asked[host'.id].kind # "picker"
  PROVE  DialogsInv'
<1>1. PickerOK' /\ SheetOK'
  BY DEF DialogsInv, PickerOK, D!Unanswered, SheetOK
<1>2. pickerQueue' \in Seq(D!Numbers) /\ picker' \in D!Pickers
  BY DEF DialogsInv, D!TypeOK
<1> QED BY <1>1, <1>2, ElsewhereStep

LEMMA FrameReadsStep == ASSUME DialogsInv, D!FrameReads PROVE DialogsInv'
<1>1. UNCHANGED <<open, asked, fate, requests, trusted, invokes, D!pickerVars, shown, overlay, overlays, D!viewVars, agreed>>
  BY DEF D!FrameReads
<1>2. \E q \in {0} \cup D!ToShow : host' = [at |-> "read", id |-> q]
  BY DEF D!FrameReads
<1>3. \A q \in D!ToShow : q \in 1..Len(asked) /\ q \in D!Numbers /\ asked[q].kind # "picker"
  BY DEF D!ToShow, D!Unanswered, DialogsInv, ParkedOK, D!TypeOK, D!Requests
<1>4. PICK q \in {0} \cup D!ToShow : host' = [at |-> "read", id |-> q]
  BY <1>2
<1>5. host' \in D!Hosts /\ host'.id = q
  BY <1>3, <1>4 DEF D!Hosts, D!Ids, D!Numbers, DialogsInv, D!DialogsAssumption
<1>6. RestOK'
  BY <1>1 DEF DialogsInv, D!TypeOK, RestOK, D!pickerVars, D!viewVars
<1> QED BY <1>1, <1>3, <1>5, <1>6, FrameStep DEF D!pickerVars

LEMMA ApplyVisibilityStep == ASSUME DialogsInv, D!ApplyVisibility PROVE DialogsInv'
<1>1. /\ host.at = "read" /\ host' = [host EXCEPT !.at = "applied"]
      /\ UNCHANGED <<open, asked, fate, requests, trusted, D!pickerVars, shown, overlay, overlays, agreed>>
  BY DEF D!ApplyVisibility
<1>2. host' \in D!Hosts /\ host'.id = host.id
  BY <1>1 DEF DialogsInv, D!TypeOK, D!Hosts
<1>3. /\ heldDown' \in BOOLEAN /\ blank' \in {blank, open} /\ repaints' \in {repaints, repaints \cup open}
      /\ invokes' \in {invokes, Append(invokes, "service")}
  BY DEF D!ApplyVisibility
<1>4. RestOK'
  BY <1>1, <1>3, Posts DEF DialogsInv, D!TypeOK, RestOK, D!pickerVars
<1> QED BY <1>1, <1>2, <1>4, FrameStep DEF DialogsInv, SheetOK, D!pickerVars

LEMMA SyncStep == ASSUME DialogsInv, D!Sync PROVE DialogsInv'
<1>1. /\ host.at = "applied" /\ host' = D!HostIdle
      /\ UNCHANGED <<open, asked, fate, requests, trusted, invokes, D!pickerVars, overlay, overlays, D!viewVars, agreed>>
  BY DEF D!Sync
<1>2. shown' \in D!Shown
  <2>1. CASE shown' \in {shown, D!NothingShown}
    BY <2>1, DialogIdle DEF DialogsInv, D!TypeOK
  <2>2. CASE host.id # 0 /\ shown' = [id |-> host.id, kind |-> IF host.id \in D!Parked THEN asked[host.id].kind ELSE "none"]
    <3>1. host.id \in 1..Len(asked) /\ asked[host.id].kind # "picker" /\ host.id \in D!Ids
      BY <1>1, <2>2 DEF DialogsInv, SheetOK, D!TypeOK, D!Hosts
    <3>2. asked[host.id] \in D!Questions
      BY <3>1, ElementOfSeq DEF DialogsInv, D!TypeOK
    <3>3. asked[host.id].kind \in {"sheet", "certificate"}
      BY <3>1, <3>2 DEF D!Questions, DialogsInv, D!DialogsAssumption
    <3> QED BY <2>2, <3>1, <3>3 DEF D!Shown
  <2> QED BY <2>1, <2>2 DEF D!Sync
<1>3. RestOK'
  BY <1>1, <1>2 DEF DialogsInv, D!TypeOK, RestOK, D!pickerVars, D!viewVars
<1> QED BY <1>1, <1>3, DialogIdle, FrameStep DEF D!pickerVars

\* A person answers the dialog on the screen: it counts if its question still waits.
LEMMA RespondStep ==
  ASSUME DialogsInv, NEW accepted \in BOOLEAN, NEW remember \in BOOLEAN, D!Respond(accepted, remember)
  PROVE  DialogsInv' /\ [D!Promise!Next]_<<fate, agreed>>
<1> DEFINE reaches == shown.id \in D!Unanswered /\ ~(accepted /\ shown.kind = "none")
<1>1. /\ requests' = (IF reaches THEN D!Answered(shown.id, accepted, remember) ELSE requests)
      /\ agreed' = (IF reaches /\ accepted THEN agreed \cup {shown.id} ELSE agreed)
      /\ host' = (IF reaches THEN [D!HostIdle EXCEPT !.at = "posting"] ELSE D!HostIdle)
      /\ shown' = D!NothingShown
      /\ UNCHANGED <<open, asked, fate, trusted, invokes, D!pickerVars, overlay, overlays, D!viewVars>>
  BY DEF D!Respond
<1>2. agreed \subseteq agreed' /\ agreed' \subseteq D!Numbers /\ [D!Promise!Next]_<<fate, agreed>>
  BY <1>1, AgreePromise DEF DialogsInv, D!TypeOK
<1>3. QueueInv' /\ D!Unanswered' \subseteq D!Unanswered /\ requests' \subseteq D!Requests
  <2>1. CASE reaches
    <3>1. Mark
      BY <1>1, <1>2, <2>1, AnsweredMarks
    <3> QED BY <1>1, <3>1, MarksStep DEF Mark
  <2>2. CASE ~reaches
    BY <1>1, <1>2, <2>2, UntouchedStep DEF DialogsInv, D!TypeOK
  <2> QED BY <2>1, <2>2
<1>4. host' \in D!Hosts /\ host'.at \in {"idle", "posting"}
  BY <1>1, DialogIdle DEF D!Hosts
<1>5. PickerOK'
  BY <1>1, <1>2, <1>3 DEF DialogsInv, PickerOK, D!pickerVars
<1>6. D!TypeOK' /\ SheetOK'
  BY <1>1, <1>2, <1>3, <1>4, DialogIdle DEF DialogsInv, D!TypeOK, QueueInv, SheetOK, D!pickerVars, D!viewVars
<1> QED BY <1>2, <1>3, <1>5, <1>6 DEF DialogsInv, QueueInv

\* What the picker never came to is refused by whoever waited for its thread.
LEMMA AbandonStep == ASSUME DialogsInv, D!Abandon PROVE DialogsInv'
<1> DEFINE f(r) == [r EXCEPT !.answered = @ \/ r.id \in Range(pickerQueue)]
<1>1. /\ requests' = {f(r) : r \in requests} /\ pickerQueue' = <<>>
      /\ host.at = "abandoning" /\ host' = [host EXCEPT !.at = "refusing"]
      /\ invokes' \in {invokes, Append(invokes, "service")}
      /\ UNCHANGED <<open, asked, fate, trusted, picker, stopping, shown, overlay, overlays, D!viewVars, agreed>>
  BY DEF D!Abandon, Range, D!Range
<1>2. ASSUME NEW r \in requests
      PROVE  f(r) \in D!Requests /\ f(r).id = r.id /\ f(r).accepted = r.accepted /\ (r.answered => f(r) = r)
  <2>1. r \in D!Requests
    BY DEF DialogsInv, D!TypeOK
  <2> QED BY <2>1 DEF D!Requests
<1> HIDE DEF f
<1>3. Mark
  <2>1. \A g, h \in requests' : g.id = h.id => g = h
    BY <1>1, <1>2 DEF DialogsInv, ParkedOK
  <2> QED BY <1>1, <1>2, <2>1 DEF Mark, DialogsInv, ParkedOK
<1>4. QueueInv' /\ D!Unanswered' \subseteq D!Unanswered
  BY <1>1, <1>3, MarksStep
<1>5. host' \in D!Hosts /\ host'.at = "refusing"
  BY <1>1 DEF DialogsInv, D!TypeOK, D!Hosts
<1>6. PickerOK' /\ SheetOK'
  BY <1>1, <1>4, <1>5 DEF DialogsInv, PickerOK, SheetOK
<1>7. D!TypeOK'
  <2>1. pickerQueue' \in Seq(D!Numbers)
    BY <1>1
  <2>2. invokes' \in Seq({"service", "refuse"})
    BY <1>1, Posts DEF DialogsInv, D!TypeOK
  <2> QED BY <1>1, <1>3, <1>5, <2>1, <2>2 DEF DialogsInv, D!TypeOK, Mark, D!viewVars
<1> QED BY <1>4, <1>6, <1>7 DEF DialogsInv, QueueInv

LEMMA RestOfFrameStep ==
  ASSUME DialogsInv, D!RespondPosts \/ D!Overlay \/ D!BeginShutdown \/ D!Join \/ D!PostRefusal \/ UNCHANGED D!vars
  PROVE  DialogsInv'
<1>1. CASE D!RespondPosts
  <2>1. RestOK'
    BY <1>1, Posts DEF D!RespondPosts, DialogsInv, D!TypeOK, RestOK, D!pickerVars, D!viewVars
  <2> QED BY <1>1, <2>1, DialogIdle, FrameStep DEF D!RespondPosts, D!pickerVars
<1>2. CASE D!Overlay
  <2>1. RestOK'
    BY <1>2 DEF D!Overlay, DialogsInv, D!TypeOK, RestOK, D!pickerVars, D!viewVars, D!DialogsAssumption
  <2>2. host' \in D!Hosts /\ host'.at = "idle"
    BY <1>2 DEF D!Overlay, DialogsInv, D!TypeOK
  <2> QED BY <1>2, <2>1, <2>2, FrameStep DEF D!Overlay, D!pickerVars
<1>3. CASE D!BeginShutdown
  <2>1. RestOK'
    BY <1>3, DialogIdle DEF D!BeginShutdown, DialogsInv, D!TypeOK, RestOK, D!viewVars
  <2>2. host' \in D!Hosts /\ host'.at = "joining"
    BY <1>3, DialogIdle DEF D!BeginShutdown, D!Hosts
  <2> QED BY <1>3, <2>1, <2>2, FrameStep DEF D!BeginShutdown
<1>4. CASE D!Join
  <2>1. RestOK'
    BY <1>4 DEF D!Join, DialogsInv, D!TypeOK, RestOK, D!pickerVars, D!viewVars
  <2>2. host' \in D!Hosts /\ host'.at = "abandoning"
    BY <1>4 DEF D!Join, DialogsInv, D!TypeOK, D!Hosts
  <2> QED BY <1>4, <2>1, <2>2, FrameStep DEF D!Join, D!pickerVars
<1>5. CASE D!PostRefusal
  <2>1. RestOK'
    BY <1>5, Posts DEF D!PostRefusal, DialogsInv, D!TypeOK, RestOK, D!pickerVars, D!viewVars
  <2>2. host' \in D!Hosts /\ host'.at = "ended"
    BY <1>5 DEF D!PostRefusal, DialogsInv, D!TypeOK, D!Hosts
  <2> QED BY <1>5, <2>1, <2>2, FrameStep DEF D!PostRefusal, D!pickerVars
<1>6. CASE UNCHANGED D!vars
  <2>1. RestOK' /\ host' \in D!Hosts
    BY <1>6 DEF DialogsInv, D!TypeOK, RestOK, D!vars, D!pickerVars, D!hostVars, D!viewVars
  <2> QED BY <1>6, <2>1, FrameStep DEF DialogsInv, SheetOK, D!vars, D!pickerVars, D!hostVars
<1> QED BY <1>1, <1>2, <1>3, <1>4, <1>5, <1>6

-----------------------------------------------------------------------------
(* The theorems.                                                           *)

LEMMA NextStep == DialogsInv /\ [D!Next]_(D!vars) => DialogsInv' /\ [D!Promise!Next]_<<fate, agreed>>
<1> SUFFICES ASSUME DialogsInv, [D!Next]_(D!vars) PROVE DialogsInv' /\ [D!Promise!Next]_<<fate, agreed>>
  OBVIOUS
<1>1. CASE D!WorkStep
  BY <1>1, ServiceStep, RefuseEverythingStep DEF D!WorkStep
<1>2. CASE D!PickerStep
  <2>1. UNCHANGED <<fate, agreed>>
    BY <1>2 DEF D!PickerStep, D!PickerTakes, D!PickerShows, D!PickerCompletes, D!PickerPosts
  <2> QED BY <1>2, <2>1, PickerTakesStep, PickerShowsStep, PickerCompletesStep, PickerPostsStep DEF D!PickerStep
<1>3. CASE D!HostStep \/ D!Overlay \/ D!BeginShutdown \/ UNCHANGED D!vars
  <2>1. UNCHANGED <<fate, agreed>>
    BY <1>3 DEF D!HostStep, D!FrameReads, D!ApplyVisibility, D!Sync, D!RespondPosts, D!Join, D!Abandon, D!PostRefusal, D!Overlay,
       D!BeginShutdown, D!vars
  <2> QED BY <1>3, <2>1, FrameReadsStep, ApplyVisibilityStep, SyncStep, AbandonStep, RestOfFrameStep DEF D!HostStep
<1>4. CASE D!Person
  BY <1>4, RespondStep DEF D!Person
<1>5. CASE \E chosen \in BOOLEAN : D!Picks(chosen)
  BY <1>5, PicksStep
<1>6. ASSUME NEW p \in Pages, D!OpenPanel(p) \/ \E k \in Sheets : D!Asks(k, p)
      PROVE  DialogsInv' /\ [D!Promise!Next]_<<fate, agreed>>
  <2>1. Len(asked) + 1 \in D!Numbers
    BY <1>6 DEF D!OpenPanel, D!Asks
  <2>2. DialogsInv' /\ D!Promise!Ask(Len(asked) + 1)
    BY <1>6, DialogAsksStep, OpenPanelStep
  <2> QED BY <2>1, <2>2 DEF D!Promise!Next
<1>7. CASE \E p \in Pages : D!DetachPage(p)
  BY <1>7, DetachPageStep
<1> QED BY <1>1, <1>2, <1>3, <1>4, <1>5, <1>6, <1>7 DEF D!Next

LEMMA AlwaysDialogsInv == D!DialogsAssumption => (D!Spec => []DialogsInv)
<1>1. DialogsInv /\ [D!Next]_(D!vars) => DialogsInv'
  BY NextStep
<1> QED BY <1>1, DialogsInitInv, PTL DEF D!Spec

\* No question waits for a page that has been destroyed, and a question is parked
\* exactly as long as its page waits for the answer.
THEOREM DialogsAreConsistent == D!DialogsAssumption => (D!Spec => []D!DialogsConsistent)
<1>1. DialogsInv => D!DialogsConsistent
  BY DEF DialogsInv, D!DialogsConsistent
<1> QED BY <1>1, AlwaysDialogsInv, PTL

LEMMA DialogInitPromise == D!Init => D!Promise!Init
BY DEF D!Init, D!Promise!Init

\* The dialogs keep the promise of Questions: every question is answered at most once,
\* and with a yes only if it was said to that question, or remembered.
THEOREM DialogsImplementQuestions == D!DialogsAssumption => (D!Spec => D!KeepsPromise)
<1>1. DialogsInv /\ [D!Next]_(D!vars) => [D!Promise!Next]_(D!Promise!questionVars)
  BY NextStep DEF D!Promise!questionVars
<1> QED BY <1>1, DialogInitPromise, AlwaysDialogsInv, PTL DEF D!Spec, D!KeepsPromise, D!Promise!Spec

-----------------------------------------------------------------------------
(* CommandQueue.                                                           *)
(*                                                                         *)
(* The queue is read and written under one lock, but stopping is set and    *)
(* the thread is joined outside it.  What carries the argument is where the *)
(* host is: Shutdown is in the queue only while the host waits or clears,   *)
(* and all that time stopping is set.                                      *)

ShutdownQueued == \E i \in 1..Len(queue) : queue[i] = Shutdown

HostOK ==
  /\ ShutdownQueued => host \in {"joining", "closing"}
  /\ host # "idle" => stopping /\ ~thread
  /\ worker # "off" => thread \/ host \in {"stopping", "joining"}
  /\ thread \/ host \in {"stopping", "joining"} => event

\* No work is twice in the queue, or in the hands of two threads.
Once ==
  /\ \A i, j \in 1..Len(queue) : queue[i] = queue[j] => i = j
  /\ \A t \in C!Threads : post[t].at = "checked" => post[t].item \in Work
  /\ \A t, u \in C!Threads : post[t].at = "checked" /\ post[u].at = "checked"
       /\ post[t].item = post[u].item => t = u

CommandsInv ==
  /\ C!QueueAssumption
  /\ C!TypeOK /\ C!NothingBehindShutdown /\ HostOK /\ C!WorkIsAccountedFor /\ Once

LEMMA CommandsInitInv == C!QueueAssumption /\ C!Init => CommandsInv
<1> SUFFICES ASSUME C!QueueAssumption, C!Init PROVE CommandsInv
  OBVIOUS
<1>1. C!Idle \in C!Posts /\ C!Idle.at = "idle"
  BY DEF C!Idle, C!Posts, C!Nothing
<1>2. post \in [C!Threads -> C!Posts] /\ fate \in [Work -> C!Fates] /\ queue \in Seq(Work \cup {Shutdown})
  BY <1>1 DEF C!Init, C!Fates
<1>3. C!TypeOK
  BY <1>2 DEF C!Init, C!TypeOK, C!Workers, C!Hosts
<1>4. Len(queue) = 0 /\ \A t \in C!Threads : post[t].at = "idle"
  BY <1>1 DEF C!Init
<1>5. C!NothingBehindShutdown /\ HostOK
  BY <1>4 DEF C!Init, C!NothingBehindShutdown, HostOK, ShutdownQueued
<1>6. C!WorkIsAccountedFor /\ Once
  BY <1>4 DEF C!Init, C!WorkIsAccountedFor, Once
<1> QED BY <1>3, <1>5, <1>6 DEF CommandsInv

\* What appending to a queue without Shutdown leaves.
LEMMA AppendKeepsShutdownLast ==
  ASSUME CommandsInv, ~ShutdownQueued, NEW c \in Work \cup {Shutdown}, queue' = Append(queue, c)
  PROVE  /\ queue' \in Seq(Work \cup {Shutdown}) /\ C!NothingBehindShutdown'
         /\ ShutdownQueued' => c = Shutdown
<1>1. queue \in Seq(Work \cup {Shutdown})
  BY DEF CommandsInv, C!TypeOK
<1>2. /\ queue' \in Seq(Work \cup {Shutdown}) /\ Len(queue') = Len(queue) + 1
      /\ queue'[Len(queue) + 1] = c /\ \A i \in 1..Len(queue) : queue'[i] = queue[i]
  BY <1>1, AppendProperties
<1>3. \A i \in 1..Len(queue) : queue'[i] # Shutdown
  BY <1>2 DEF ShutdownQueued
<1>4. ASSUME NEW i \in 1..Len(queue'), queue'[i] = Shutdown PROVE i = Len(queue') /\ c = Shutdown
  BY <1>1, <1>2, <1>3, <1>4
<1> QED BY <1>2, <1>4 DEF C!NothingBehindShutdown, ShutdownQueued

\* What a thread holds, or what waits, is untouched by a step that changes
\* neither the queue, nor what is posted, nor what has become of any work.
LEMMA WorkUnchanged ==
  ASSUME CommandsInv, UNCHANGED <<queue, post, fate>>
  PROVE  C!NothingBehindShutdown' /\ C!WorkIsAccountedFor' /\ Once'
BY DEF CommandsInv, C!NothingBehindShutdown, C!WorkIsAccountedFor, Once

LEMMA PostBeginsStep == ASSUME CommandsInv, NEW t \in C!Threads, NEW w \in Work, C!PostBegins(t, w) PROVE CommandsInv'
<1>1. /\ UNCHANGED <<thread, stopping, requested, event, queue, worker, host>>
      /\ post[t].at = "idle" /\ fate[w] = "new"
  BY DEF C!PostBegins, C!Free
<1>2. C!NothingBehindShutdown' /\ HostOK'
  BY <1>1 DEF CommandsInv, C!NothingBehindShutdown, HostOK, ShutdownQueued
<1>3. CASE fate' = [fate EXCEPT ![w] = "cancelled"] /\ UNCHANGED post
  <2>1. C!TypeOK'
    BY <1>1, <1>3 DEF CommandsInv, C!TypeOK, C!Fates
  <2>2. \A v \in Work : fate'[v] = IF v = w THEN "cancelled" ELSE fate[v]
    BY <1>3 DEF CommandsInv, C!TypeOK
  <2>3. C!WorkIsAccountedFor' /\ Once'
    BY <1>1, <1>3, <2>2 DEF CommandsInv, C!WorkIsAccountedFor, Once
  <2> QED BY <1>2, <2>1, <2>3 DEF CommandsInv
<1>4. CASE /\ fate' = [fate EXCEPT ![w] = "posting"]
           /\ post' = [post EXCEPT ![t] = [at |-> "checked", item |-> w]]
  <2>1. C!TypeOK'
    <3>1. fate' \in [Work -> C!Fates]
      BY <1>4 DEF CommandsInv, C!TypeOK, C!Fates
    <3>2. post' \in [C!Threads -> C!Posts]
      BY <1>4 DEF CommandsInv, C!TypeOK, C!Posts
    <3> QED BY <1>1, <3>1, <3>2 DEF CommandsInv, C!TypeOK
  <2>2. /\ \A u \in C!Threads : u # t => post'[u] = post[u]
        /\ post'[t].at = "checked" /\ post'[t].item = w
    BY <1>4 DEF CommandsInv, C!TypeOK
  <2>3. \A v \in Work : fate'[v] = IF v = w THEN "posting" ELSE fate[v]
    BY <1>4 DEF CommandsInv, C!TypeOK
  <2>4. \A u \in C!Threads : ~(post[u].at = "checked" /\ post[u].item = w)
    BY <1>1 DEF CommandsInv, C!WorkIsAccountedFor
  <2>5. C!WorkIsAccountedFor /\ Once /\ UNCHANGED queue
    BY <1>1 DEF CommandsInv
  <2>6. C!WorkIsAccountedFor'
    <3> SUFFICES ASSUME NEW v \in Work
                 PROVE  /\ fate'[v] = "waiting" <=> \E i \in 1..Len(queue) : queue[i] = v
                        /\ fate'[v] = "posting" <=> \E u \in C!Threads : post'[u].at = "checked" /\ post'[u].item = v
      BY <2>5 DEF C!WorkIsAccountedFor
    <3>1. CASE v = w
      <4>1. fate[v] = "new" /\ fate'[v] = "posting"
        BY <1>1, <2>3, <3>1
      <4> QED BY <2>2, <2>5, <3>1, <4>1 DEF C!WorkIsAccountedFor
    <3>2. CASE v # w
      <4>1. fate'[v] = fate[v] /\ ~(post[t].at = "checked")
        BY <1>1, <2>3, <3>2
      <4>2. (\E u \in C!Threads : post'[u].at = "checked" /\ post'[u].item = v)
               <=> \E u \in C!Threads : post[u].at = "checked" /\ post[u].item = v
        BY <2>2, <3>2, <4>1
      <4> QED BY <2>5, <4>1, <4>2 DEF C!WorkIsAccountedFor
    <3> QED BY <3>1, <3>2
  <2>7. Once'
    <3>1. \A i, j \in 1..Len(queue) : queue[i] = queue[j] => i = j
      BY <2>5 DEF Once
    <3>2. ASSUME NEW u \in C!Threads, post'[u].at = "checked" PROVE post'[u].item \in Work
      <4>1. CASE u = t
        BY <2>2, <4>1
      <4>2. CASE u # t
        BY <2>2, <2>5, <3>2, <4>2 DEF Once
      <4> QED BY <4>1, <4>2
    <3>3. ASSUME NEW u \in C!Threads, NEW x \in C!Threads, post'[u].at = "checked", post'[x].at = "checked",
                 post'[u].item = post'[x].item
          PROVE  u = x
      <4>1. CASE u # t /\ x # t
        BY <2>2, <2>5, <3>3, <4>1 DEF Once
      <4>2. CASE (u = t /\ x # t) \/ (u # t /\ x = t)
        BY <2>2, <2>4, <3>3, <4>2
      <4> QED BY <4>1, <4>2
    <3> QED BY <2>5, <3>1, <3>2, <3>3 DEF Once
  <2> QED BY <1>2, <2>1, <2>6, <2>7 DEF CommandsInv
<1> QED BY <1>3, <1>4 DEF C!PostBegins

LEMMA PostPushesStep == ASSUME CommandsInv, NEW t \in C!Threads, C!PostPushes(t) PROVE CommandsInv'
<1> DEFINE w == post[t].item
<1>1. /\ UNCHANGED <<thread, stopping, requested, event, worker, host>>
      /\ post[t].at = "checked" /\ w \in Work /\ fate[w] = "posting"
  BY DEF C!PostPushes, CommandsInv, Once, C!WorkIsAccountedFor
<1>2. C!Idle \in C!Posts /\ C!Idle.at = "idle"
  BY DEF C!Idle, C!Posts, C!Nothing
<1>3. \A u \in C!Threads : u # t => ~(post[u].at = "checked" /\ post[u].item = w)
  BY <1>1 DEF CommandsInv, Once
<1>4. CASE /\ stopping /\ fate' = [fate EXCEPT ![w] = "cancelled"]
           /\ post' = [post EXCEPT ![t] = C!Idle] /\ UNCHANGED queue
  <2>1. C!TypeOK'
    BY <1>1, <1>2, <1>4 DEF CommandsInv, C!TypeOK, C!Fates
  <2>2. \A u \in C!Threads : /\ u # t => post'[u] = post[u]
                           /\ post'[t].at = "idle"
    BY <1>2, <1>4 DEF CommandsInv, C!TypeOK
  <2>3. \A v \in Work : fate'[v] = IF v = w THEN "cancelled" ELSE fate[v]
    BY <1>4 DEF CommandsInv, C!TypeOK
  <2>4. C!WorkIsAccountedFor'
    BY <1>1, <1>3, <1>4, <2>2, <2>3 DEF CommandsInv, C!WorkIsAccountedFor
  <2>5. Once'
    BY <1>1, <1>4, <2>2 DEF CommandsInv, Once
  <2>6. C!NothingBehindShutdown' /\ HostOK'
    BY <1>1, <1>4 DEF CommandsInv, C!NothingBehindShutdown, HostOK, ShutdownQueued
  <2> QED BY <2>1, <2>4, <2>5, <2>6 DEF CommandsInv
<1>5. CASE /\ ~stopping /\ queue' = Append(queue, w) /\ fate' = [fate EXCEPT ![w] = "waiting"]
           /\ post' = [post EXCEPT ![t].at = "pushed"]
  <2>1. ~ShutdownQueued /\ w # Shutdown
    BY <1>1, <1>5 DEF C!QueueAssumption, CommandsInv, HostOK
  <2>2. queue' \in Seq(Work \cup {Shutdown}) /\ C!NothingBehindShutdown' /\ ~ShutdownQueued'
    BY <1>1, <1>5, <2>1, AppendKeepsShutdownLast
  <2>3. [post[t] EXCEPT !.at = "pushed"] \in C!Posts /\ [post[t] EXCEPT !.at = "pushed"].at = "pushed"
    BY DEF CommandsInv, C!TypeOK, C!Posts
  <2>4. post' \in [C!Threads -> C!Posts]
    BY <1>5, <2>3 DEF CommandsInv, C!TypeOK
  <2>5. \A u \in C!Threads : /\ u # t => post'[u] = post[u]
                           /\ post'[t].at = "pushed"
    BY <1>5, <2>3 DEF CommandsInv, C!TypeOK
  <2>6. \A v \in Work : fate'[v] = IF v = w THEN "waiting" ELSE fate[v]
    BY <1>5 DEF CommandsInv, C!TypeOK
  <2>7. C!TypeOK'
    BY <1>1, <1>5, <2>2, <2>4 DEF CommandsInv, C!TypeOK, C!Fates
  <2>8. /\ Len(queue') = Len(queue) + 1 /\ Len(queue) \in Nat
        /\ queue'[Len(queue) + 1] = w /\ \A i \in 1..Len(queue) : queue'[i] = queue[i]
    BY <1>1, <1>5, AppendProperties DEF CommandsInv, C!TypeOK
  <2>9. \A i \in 1..Len(queue) : queue[i] # w
    BY <1>1 DEF CommandsInv, C!WorkIsAccountedFor
  <2>10. \A v \in Work : (\E i \in 1..Len(queue') : queue'[i] = v)
                          <=> v = w \/ \E i \in 1..Len(queue) : queue[i] = v
    BY <2>8
  <2>11. C!WorkIsAccountedFor'
    BY <1>1, <1>3, <2>5, <2>6, <2>10 DEF CommandsInv, C!WorkIsAccountedFor
  <2>12. Once'
    <3>1. \A i, j \in 1..Len(queue') : queue'[i] = queue'[j] => i = j
      BY <2>8, <2>9 DEF CommandsInv, Once
    <3> QED BY <2>5, <3>1 DEF CommandsInv, Once
  <2>13. HostOK'
    BY <1>1, <2>2 DEF CommandsInv, HostOK
  <2> QED BY <2>2, <2>7, <2>11, <2>12, <2>13 DEF CommandsInv
<1> QED BY <1>4, <1>5 DEF C!PostPushes

LEMMA PostEndsStep ==
  ASSUME CommandsInv, NEW t \in C!Threads, C!PostTestsEvent(t) \/ C!PostSignals(t) PROVE CommandsInv'
<1>1. /\ UNCHANGED <<thread, stopping, requested, event, queue, worker, host, fate>>
      /\ post[t].at # "checked"
      /\ \/ post' = [post EXCEPT ![t] = C!Idle]
         \/ post' = [post EXCEPT ![t] = [@ EXCEPT !.at = "signalling"]]
  BY DEF C!PostTestsEvent, C!PostSignals
<1>2. C!NothingBehindShutdown' /\ HostOK'
  BY <1>1 DEF CommandsInv, C!NothingBehindShutdown, HostOK, ShutdownQueued
<1>3. /\ C!Idle \in C!Posts /\ C!Idle.at = "idle"
      /\ [post[t] EXCEPT !.at = "signalling"] \in C!Posts
      /\ [post[t] EXCEPT !.at = "signalling"].at = "signalling"
  BY DEF C!Idle, C!Posts, C!Nothing, CommandsInv, C!TypeOK
<1>4. PICK p \in C!Posts : p.at # "checked" /\ post' = [post EXCEPT ![t] = p]
  BY <1>1, <1>3
<1>5. /\ post' \in [C!Threads -> C!Posts]
      /\ \A u \in C!Threads : u # t => post'[u] = post[u]
      /\ post'[t].at # "checked"
  BY <1>4 DEF CommandsInv, C!TypeOK
<1>6. C!WorkIsAccountedFor' /\ Once'
  BY <1>1, <1>5 DEF CommandsInv, C!WorkIsAccountedFor, Once
<1>7. C!TypeOK'
  BY <1>1, <1>5 DEF CommandsInv, C!TypeOK
<1> QED BY <1>2, <1>6, <1>7 DEF CommandsInv

LEMMA StopPushesStep == CommandsInv /\ C!StopPushes => CommandsInv'
<1> SUFFICES ASSUME CommandsInv, C!StopPushes PROVE CommandsInv'
  OBVIOUS
<1>1. /\ host = "stopping" /\ queue' = Append(queue, Shutdown) /\ host' = "joining"
      /\ UNCHANGED <<thread, stopping, requested, event, worker, post, fate>>
  BY DEF C!StopPushes
<1>2. ~ShutdownQueued
  BY <1>1 DEF CommandsInv, HostOK
<1>3. queue' \in Seq(Work \cup {Shutdown}) /\ C!NothingBehindShutdown'
  BY <1>1, <1>2, AppendKeepsShutdownLast
<1>4. C!TypeOK'
  BY <1>1, <1>3 DEF CommandsInv, C!TypeOK, C!Hosts
<1>5. HostOK'
  BY <1>1 DEF CommandsInv, HostOK
<1>6. /\ Len(queue') = Len(queue) + 1 /\ Len(queue) \in Nat
      /\ queue'[Len(queue) + 1] = Shutdown /\ \A i \in 1..Len(queue) : queue'[i] = queue[i]
  BY <1>1, AppendProperties DEF CommandsInv, C!TypeOK
<1>7. \A v \in Work : (\E i \in 1..Len(queue') : queue'[i] = v) <=> \E i \in 1..Len(queue) : queue[i] = v
  BY <1>6 DEF CommandsInv, C!QueueAssumption
<1>8. C!WorkIsAccountedFor'
  BY <1>1, <1>7 DEF CommandsInv, C!WorkIsAccountedFor
<1>9. Once'
  <2>1. \A i, j \in 1..Len(queue') : queue'[i] = queue'[j] => i = j
    BY <1>2, <1>6 DEF CommandsInv, Once, ShutdownQueued
  <2> QED BY <1>1, <2>1 DEF CommandsInv, Once
<1> QED BY <1>3, <1>4, <1>5, <1>8, <1>9 DEF CommandsInv

LEMMA HostSteps == CommandsInv /\ (C!Start \/ C!StopBegins \/ C!StopCloses) => CommandsInv'
<1> SUFFICES ASSUME CommandsInv, C!Start \/ C!StopBegins \/ C!StopCloses PROVE CommandsInv'
  OBVIOUS
<1>1. UNCHANGED <<queue, post, fate>>
  BY DEF C!Start, C!StopBegins, C!StopCloses
<1>2. C!NothingBehindShutdown' /\ C!WorkIsAccountedFor' /\ Once'
  BY <1>1, WorkUnchanged
<1>3. C!TypeOK'
  BY <1>1 DEF CommandsInv, C!TypeOK, C!Start, C!StopBegins, C!StopCloses, C!Workers, C!Hosts
<1>4. ShutdownQueued' <=> ShutdownQueued
  BY <1>1 DEF ShutdownQueued
<1>5. HostOK'
  BY <1>4 DEF CommandsInv, HostOK, C!Start, C!StopBegins, C!StopCloses, C!HostFree
<1> QED BY <1>2, <1>3, <1>5 DEF CommandsInv

\* What is left is cancelled, and nothing else.
LEMMA StopCancelsStep == CommandsInv /\ C!StopCancels => CommandsInv'
<1> SUFFICES ASSUME CommandsInv, C!StopCancels PROVE CommandsInv'
  OBVIOUS
<1>1. /\ queue' = <<>> /\ host' = "idle" /\ host = "closing"
      /\ fate' = [w \in Work |-> IF w \in Range(queue) THEN "cancelled" ELSE fate[w]]
      /\ UNCHANGED <<thread, stopping, requested, event, worker, post>>
  BY DEF C!StopCancels, Range, C!Range
<1>2. C!TypeOK'
  <2>1. fate' \in [Work -> C!Fates]
    BY <1>1 DEF CommandsInv, C!TypeOK, C!Fates
  <2> QED BY <1>1, <2>1 DEF CommandsInv, C!TypeOK, C!Hosts
<1>3. Len(queue') = 0
  BY <1>1
<1>4. C!NothingBehindShutdown' /\ HostOK'
  BY <1>1, <1>3 DEF CommandsInv, HostOK, C!NothingBehindShutdown, ShutdownQueued
<1>5. \A w \in Work : w \in Range(queue) <=> fate[w] = "waiting"
  BY DEF Range, CommandsInv, C!TypeOK, C!WorkIsAccountedFor
<1>6. \A w \in Work : fate'[w] = IF fate[w] = "waiting" THEN "cancelled" ELSE fate[w]
  BY <1>1, <1>5
<1>7. C!WorkIsAccountedFor' /\ Once'
  BY <1>1, <1>3, <1>6 DEF CommandsInv, C!WorkIsAccountedFor, Once
<1> QED BY <1>2, <1>4, <1>7 DEF CommandsInv

LEMMA TakeStep == CommandsInv /\ C!Take => CommandsInv'
<1> SUFFICES ASSUME CommandsInv, C!Take PROVE CommandsInv'
  OBVIOUS
<1>1. /\ queue # <<>> /\ queue' = Tail(queue)
      /\ requested' = (requested \/ Head(queue) = Shutdown)
      /\ fate' = [w \in Work |-> IF w = Head(queue) THEN "run" ELSE fate[w]]
      /\ UNCHANGED <<thread, stopping, event, worker, host, post>>
  BY DEF C!Take
<1>2. queue \in Seq(Work \cup {Shutdown})
  BY DEF CommandsInv, C!TypeOK
<1>3. /\ queue' \in Seq(Work \cup {Shutdown}) /\ Len(queue') = Len(queue) - 1
      /\ Len(queue) \in Nat /\ Head(queue) = queue[1] /\ 1 \in 1..Len(queue)
      /\ \A i \in 1..Len(queue') : queue'[i] = queue[i + 1]
  BY <1>1, <1>2, HeadTailProperties
<1>4. \A i \in 1..Len(queue') : i + 1 \in 1..Len(queue) /\ queue'[i] = queue[i + 1]
  BY <1>3
<1>5. C!NothingBehindShutdown' /\ (ShutdownQueued' => ShutdownQueued)
  <2>1. ASSUME NEW i \in 1..Len(queue'), queue'[i] = Shutdown
        PROVE  i = Len(queue') /\ ShutdownQueued
    <3>1. i + 1 = Len(queue)
      BY <1>4, <2>1 DEF CommandsInv, C!NothingBehindShutdown
    <3> QED BY <1>3, <1>4, <2>1, <3>1 DEF ShutdownQueued
  <2> QED BY <2>1 DEF C!NothingBehindShutdown, ShutdownQueued
<1>6. C!TypeOK'
  <2>1. fate' \in [Work -> C!Fates]
    BY <1>1 DEF CommandsInv, C!TypeOK, C!Fates
  <2> QED BY <1>1, <1>3, <2>1 DEF CommandsInv, C!TypeOK
<1>7. HostOK'
  BY <1>1, <1>5 DEF CommandsInv, HostOK
<1>8. \A i \in 1..Len(queue') : queue'[i] # Head(queue)
  BY <1>3, <1>4 DEF CommandsInv, Once
<1>9. ASSUME NEW i \in 1..Len(queue), queue[i] # Head(queue)
      PROVE  \E j \in 1..Len(queue') : queue'[j] = queue[i]
  <2>1. i - 1 \in 1..Len(queue') /\ queue'[i - 1] = queue[i]
    BY <1>3, <1>9
  <2> QED BY <2>1
<1>10. \A v \in Work : (\E i \in 1..Len(queue') : queue'[i] = v)
                        <=> v # Head(queue) /\ \E i \in 1..Len(queue) : queue[i] = v
  BY <1>4, <1>8, <1>9
<1>11. \A v \in Work : fate'[v] = IF v = Head(queue) THEN "run" ELSE fate[v]
  BY <1>1
<1>12. Head(queue) \in Work => fate[Head(queue)] = "waiting"
  BY <1>3 DEF CommandsInv, C!WorkIsAccountedFor
<1>13. C!WorkIsAccountedFor'
  <2>1. C!WorkIsAccountedFor /\ UNCHANGED post
    BY <1>1 DEF CommandsInv
  <2>2. ASSUME NEW v \in Work
        PROVE  fate'[v] = "waiting" <=> \E i \in 1..Len(queue') : queue'[i] = v
    BY <1>10, <1>11, <2>1 DEF C!WorkIsAccountedFor
  <2>3. ASSUME NEW v \in Work PROVE fate'[v] = "posting" <=> fate[v] = "posting"
    BY <1>11, <1>12
  <2> QED BY <2>1, <2>2, <2>3 DEF C!WorkIsAccountedFor
<1>14. Once'
  <2>1. ASSUME NEW i \in 1..Len(queue'), NEW j \in 1..Len(queue'), queue'[i] = queue'[j]
        PROVE  i = j
    <3>1. i + 1 = j + 1
      BY <1>4, <2>1 DEF CommandsInv, Once
    <3> QED BY <1>3, <3>1
  <2>2. UNCHANGED post
    BY <1>1
  <2> QED BY <2>1, <2>2 DEF CommandsInv, Once
<1> QED BY <1>5, <1>6, <1>7, <1>13, <1>14 DEF CommandsInv

LEMMA WorkerSteps == CommandsInv /\ (C!Load \/ C!DrainEnds \/ C!CycleEnds \/ C!ThreadReturns) => CommandsInv'
<1> SUFFICES ASSUME CommandsInv, C!Load \/ C!DrainEnds \/ C!CycleEnds \/ C!ThreadReturns PROVE CommandsInv'
  OBVIOUS
<1>1. /\ UNCHANGED <<thread, stopping, requested, event, queue, host, post, fate>>
      /\ worker # "off" /\ worker' \in C!Workers
  BY DEF C!Load, C!DrainEnds, C!CycleEnds, C!ThreadReturns, C!Workers
<1>2. C!NothingBehindShutdown' /\ C!WorkIsAccountedFor' /\ Once'
  BY <1>1, WorkUnchanged
<1>3. C!TypeOK'
  BY <1>1 DEF CommandsInv, C!TypeOK
<1>4. HostOK'
  BY <1>1 DEF CommandsInv, HostOK, ShutdownQueued
<1> QED BY <1>2, <1>3, <1>4 DEF CommandsInv

LEMMA CommandsNextInv == CommandsInv /\ [C!Next]_(C!vars) => CommandsInv'
<1> SUFFICES ASSUME CommandsInv, [C!Next]_(C!vars) PROVE CommandsInv'
  OBVIOUS
<1>1. CASE UNCHANGED C!vars
  <2>1. UNCHANGED <<thread, stopping, requested, event, queue, worker, host, post, fate>>
    BY <1>1 DEF C!vars
  <2>2. C!NothingBehindShutdown' /\ C!WorkIsAccountedFor' /\ Once'
    BY <2>1, WorkUnchanged
  <2> QED BY <2>1, <2>2 DEF CommandsInv, C!TypeOK, HostOK, ShutdownQueued
<1>2. CASE C!StopStep
  BY <1>2, StopPushesStep, HostSteps, StopCancelsStep DEF C!StopStep
<1>3. CASE C!WorkerStep
  BY <1>3, TakeStep, WorkerSteps DEF C!WorkerStep
<1>4. ASSUME NEW t \in C!Threads, C!PostStep(t) \/ \E w \in Work : C!PostBegins(t, w) PROVE CommandsInv'
  BY <1>4, PostBeginsStep, PostPushesStep, PostEndsStep DEF C!PostStep
<1> QED BY <1>1, <1>2, <1>3, <1>4, HostSteps DEF C!Next

LEMMA AlwaysCommandsInv == C!QueueAssumption => (C!Spec => []CommandsInv)
BY CommandsInitInv, CommandsNextInv, PTL DEF C!Spec

\* The queue, the threads and what they hold always have their types.
THEOREM QueueIsTyped == C!QueueAssumption => (C!Spec => []C!TypeOK)
BY AlwaysCommandsInv, PTL DEF CommandsInv

\* Nothing lands behind Shutdown, whoever posts meanwhile (engine.cpp:633-635).
THEOREM ShutdownIsLast == C!QueueAssumption => (C!Spec => []C!NothingBehindShutdown)
BY AlwaysCommandsInv, PTL DEF CommandsInv

\* No work is lost or held twice on its way to the WebKit thread.
THEOREM WorkIsNeverLost == C!QueueAssumption => (C!Spec => []C!WorkIsAccountedFor)
BY AlwaysCommandsInv, PTL DEF CommandsInv

\* The event is there for as long as the thread that waits on it
\* (engine.cpp:645-647).
THEOREM EventIsThereForWorker == C!QueueAssumption => (C!Spec => []C!EventOutlivesWorker)
<1>1. CommandsInv => C!EventOutlivesWorker
  BY DEF CommandsInv, HostOK, C!EventOutlivesWorker
<1> QED BY <1>1, AlwaysCommandsInv, PTL

\* The host posts between its calls and the WebKit thread while it runs, so
\* neither is in postCommand while the event is being closed.
OwnersOK ==
  /\ post["host"].at # "idle" => host = "idle"
  /\ post["worker"].at # "idle" => worker \in {"draining", "cycling", "leaving"}
  /\ C!OwnersSignalAnOpenEvent

LEMMA OwnersInit == C!Init => OwnersOK
BY DEF C!Init, OwnersOK, C!OwnersSignalAnOpenEvent, C!Idle, C!Threads

LEMMA OwnersNext == CommandsInv /\ OwnersOK /\ [C!Next]_(C!vars) => OwnersOK'
<1> SUFFICES ASSUME CommandsInv, OwnersOK, [C!Next]_(C!vars) PROVE OwnersOK'
  OBVIOUS
<1> USE DEF OwnersOK, C!OwnersSignalAnOpenEvent, C!Threads
<1>1. CASE UNCHANGED C!vars
  BY <1>1 DEF C!vars
<1>2. CASE C!Start
  <2>1. worker = "off"
    BY <1>2 DEF CommandsInv, HostOK, C!Start, C!HostFree
  <2> QED BY <1>2, <2>1 DEF C!Start, C!HostFree, C!Free
<1>3. CASE C!StopBegins \/ C!StopPushes \/ C!StopCancels
  BY <1>3 DEF C!StopBegins, C!HostFree, C!Free, C!StopPushes, C!StopCancels
<1>4. CASE C!StopCloses
  BY <1>4 DEF C!StopCloses, C!QueueAssumption
<1>5. CASE C!WorkerStep
  BY <1>5 DEF C!WorkerStep, C!Load, C!Take, C!DrainEnds, C!CycleEnds, C!ThreadReturns, C!Free
<1>6. ASSUME NEW t \in C!Threads, NEW w \in Work, C!PostBegins(t, w) PROVE OwnersOK'
  <2>1. t = "host" => host = "idle"
    BY <1>6 DEF C!PostBegins, C!MayPost
  <2>2. t = "worker" => worker \in {"draining", "cycling", "leaving"}
    BY <1>6 DEF C!PostBegins, C!MayPost
  <2> QED BY <1>6, <2>1, <2>2 DEF C!PostBegins, CommandsInv, C!TypeOK
<1>7. ASSUME NEW t \in C!Threads, C!PostStep(t) PROVE OwnersOK'
  BY <1>7 DEF C!PostStep, C!PostPushes, C!PostTestsEvent, C!PostSignals, C!Idle, CommandsInv, C!TypeOK, C!Posts
<1> QED BY <1>1, <1>2, <1>3, <1>4, <1>5, <1>6, <1>7 DEF C!Next, C!StopStep

\* Neither the host nor the WebKit thread signals an event that has been closed
\* (engine.cpp:585-586).
THEOREM OwnersSignalSafely == C!QueueAssumption => (C!Spec => []C!OwnersSignalAnOpenEvent)
<1>1. OwnersOK => C!OwnersSignalAnOpenEvent
  BY DEF OwnersOK
<1> QED BY <1>1, AlwaysCommandsInv, OwnersInit, OwnersNext, PTL DEF C!Spec

\* The facts above together, which the runs check.
THEOREM QueueIsConsistent == C!QueueAssumption => (C!Spec => []C!QueueConsistent)
BY QueueIsTyped, ShutdownIsLast, WorkIsNeverLost, EventIsThereForWorker, OwnersSignalSafely, PTL
   DEF C!QueueConsistent

-----------------------------------------------------------------------------
(* The queue implements Handoff.                                           *)

\* An invoke in the hands of the thread that posts it has yet to be accepted.
Seen == [w \in Work |-> IF fate[w] = "posting" THEN "new" ELSE fate[w]]

LEMMA CommandInitPromise == C!Init => C!Promise!Init
BY DEF C!Init, C!Promise!Init

LEMMA NoShutdownQueued == CommandsInv /\ host \notin {"joining", "closing"} => Shutdown \notin Range(queue)
BY DEF CommandsInv, C!TypeOK, HostOK, ShutdownQueued, Range

LEMMA CommandStepPromise == CommandsInv /\ [C!Next]_(C!vars) => [C!Promise!Next]_<<queue, Seen>>
<1> SUFFICES ASSUME CommandsInv, [C!Next]_(C!vars) PROVE [C!Promise!Next]_<<queue, Seen>>
  OBVIOUS
<1> USE DEF Seen
<1>1. ASSUME UNCHANGED <<queue, fate>> PROVE UNCHANGED <<queue, Seen>>
  BY <1>1
<1>2. ASSUME NEW t \in C!Threads, NEW w \in Work, C!PostBegins(t, w)
      PROVE  [C!Promise!Next]_<<queue, Seen>>
  <2>1. UNCHANGED queue /\ fate[w] = "new" /\ fate \in [Work -> C!Fates]
    BY <1>2 DEF C!PostBegins, CommandsInv, C!TypeOK
  <2>2. CASE fate' = [fate EXCEPT ![w] = "cancelled"]
    <3>1. Seen' = [Seen EXCEPT ![w] = "cancelled"] /\ Seen[w] = "new"
      BY <2>1, <2>2
    <3>2. C!Promise!Refuse(w)
      BY <2>1, <3>1 DEF C!Promise!Refuse
    <3> QED BY <3>2 DEF C!Promise!Next
  <2>3. CASE fate' = [fate EXCEPT ![w] = "posting"]
    <3>1. Seen' = Seen
      BY <2>1, <2>3
    <3> QED BY <2>1, <3>1
  <2> QED BY <1>2, <2>2, <2>3 DEF C!PostBegins
<1>3. ASSUME NEW t \in C!Threads, C!PostPushes(t)
      PROVE  [C!Promise!Next]_<<queue, Seen>>
  <2>0. PICK w \in Work : w = post[t].item /\ fate[w] = "posting"
    BY <1>3 DEF C!PostPushes, CommandsInv, C!TypeOK, Once, C!WorkIsAccountedFor
  <2>1. fate \in [Work -> C!Fates] /\ fate[w] = "posting"
    BY <2>0 DEF CommandsInv, C!TypeOK
  <2>2. CASE fate' = [fate EXCEPT ![w] = "cancelled"] /\ UNCHANGED queue
    <3>1. Seen' = [Seen EXCEPT ![w] = "cancelled"] /\ Seen[w] = "new"
      BY <2>1, <2>2
    <3>2. C!Promise!Refuse(w)
      BY <2>2, <3>1 DEF C!Promise!Refuse
    <3> QED BY <2>1, <3>2 DEF C!Promise!Next
  <2>3. CASE ~stopping /\ fate' = [fate EXCEPT ![w] = "waiting"] /\ queue' = Append(queue, w)
    <3>1. Seen' = [Seen EXCEPT ![w] = "waiting"] /\ Seen[w] = "new"
      BY <2>1, <2>3
    <3>2. Shutdown \notin Range(queue)
      BY <2>3, NoShutdownQueued DEF CommandsInv, HostOK
    <3>3. C!Promise!Accept(w)
      BY <2>3, <3>1, <3>2 DEF C!Promise!Accept, C!Promise!Range, Range
    <3> QED BY <2>1, <3>3 DEF C!Promise!Next
  <2> QED BY <1>3, <2>0, <2>2, <2>3 DEF C!PostPushes
<1>4. CASE C!StopPushes
  <2>1. Shutdown \notin Range(queue)
    BY <1>4, NoShutdownQueued DEF C!StopPushes
  <2>2. C!Promise!AskShutdown
    BY <1>4, <2>1 DEF C!StopPushes, C!Promise!AskShutdown, C!Promise!Range, Range
  <2> QED BY <2>2 DEF C!Promise!Next
<1>5. CASE C!StopCancels
  <2>1. Seen' = [w \in Work |-> IF w \in Range(queue) THEN "cancelled" ELSE Seen[w]]
    BY <1>5 DEF C!StopCancels, Range, C!Range
  <2>2. C!Promise!CancelAll
    BY <1>5, <2>1 DEF C!StopCancels, C!Promise!CancelAll, C!Promise!Range, Range
  <2> QED BY <2>2 DEF C!Promise!Next
<1>6. CASE C!Take
  <2>1. Seen' = [w \in Work |-> IF w = Head(queue) THEN "run" ELSE Seen[w]]
    BY <1>6 DEF C!Take
  <2>2. C!Promise!RunNext
    BY <1>6, <2>1 DEF C!Take, C!Promise!RunNext
  <2> QED BY <2>2 DEF C!Promise!Next
<1>7. CASE \/ C!Start \/ C!StopBegins \/ C!StopCloses \/ C!Load \/ C!DrainEnds \/ C!CycleEnds \/ C!ThreadReturns
           \/ \E t \in C!Threads : C!PostTestsEvent(t) \/ C!PostSignals(t)
           \/ UNCHANGED C!vars
  BY <1>1, <1>7 DEF C!Start, C!StopBegins, C!StopCloses, C!Load, C!DrainEnds, C!CycleEnds, C!ThreadReturns,
     C!PostTestsEvent, C!PostSignals, C!vars
<1> QED BY <1>2, <1>3, <1>4, <1>5, <1>6, <1>7 DEF C!Next, C!StopStep, C!WorkerStep, C!PostStep

\* The lock-level queue keeps Handoff's promise: whatever is accepted runs in
\* order or is cancelled, once, and a refused invoke is cancelled at once.
THEOREM ImplementsHandoff == C!QueueAssumption => (C!Spec => C!KeepsPromise)
<1>1. CommandsInv /\ [C!Next]_(C!vars) => [C!Promise!Next]_(C!Promise!handoffVars)
  BY CommandStepPromise DEF Seen, C!Promise!handoffVars
<1> QED BY <1>1, CommandInitPromise, AlwaysCommandsInv, PTL DEF C!Spec, C!KeepsPromise, C!Promise!Spec

-----------------------------------------------------------------------------
(* Downloads.                                                              *)
(*                                                                         *)
(* Two threads change the records under one lock and write the history      *)
(* outside it.  What carries the argument is that a download has one record, *)
(* that whatever is in the file or on its way there gives the state that     *)
(* record has, and that a reference is in one place of three.                *)

Entry == [dl : Downloads, state : L!States, held : BOOLEAN]

\* The downloads WebKit has handed over, and has not forgotten with its process.
Adopted == {"asked", "writing", "refused", "over"}

\* No download is in a list twice.
Unique(list) == \A i, j \in 1..Len(list) : list[i].dl = list[j].dl => i = j

Held(d) == \E i \in 1..Len(records) : records[i].dl = d /\ records[i].held

\* What is in the file, or on its way there.
OnPaper(w) == w \in Range(disk) \/ \E t \in L!Threads : w \in Range(pen[t].list)

\* A download has one record, of what has been handed over, which holds the reference
\* as long as it has not ended.
RecordsOK ==
  /\ Unique(records)
  /\ \A i \in 1..Len(records) :
       /\ engine[records[i].dl] \notin {"none", "coming"}
       /\ records[i].held => L!Live(records[i])
       /\ stage # "down" /\ L!Live(records[i]) => records[i].held

\* What is written of a download is the end its record has, if it still has one.
PaperOK ==
  /\ Unique(disk) /\ \A t \in L!Threads : Unique(pen[t].list) /\ Len(pen[t].list) <= HistoryLimit
  /\ \A w : OnPaper(w) =>
       /\ engine[w.dl] \notin {"none", "coming"}
       /\ \A i \in 1..Len(records) : records[i].dl = w.dl => records[i].state = w.state

\* A reference is in one place of three: its record, the WebKit thread's hand, or gone.
ReferencesOK ==
  /\ pen["webkit"].busy \/ inHand = {}
  /\ \A d \in Downloads :
       /\ releases[d] <= 1
       /\ Held(d) => d \notin inHand
       /\ Held(d) \/ d \in inHand => engine[d] \in Adopted /\ releases[d] = 0
       /\ engine[d] \in Adopted => Held(d) \/ d \in inHand \/ releases[d] = 1
       /\ engine[d] \in {"none", "coming"} => releases[d] = 0
       /\ d \in cancelling => engine[d] \in Adopted
       /\ stage # "down" /\ engine[d] \in {"asked", "writing"} => Held(d)

\* What is about to be written is what is to be in the file, if it will get there.
HistoryOK ==
  ~disturbed =>
    /\ ~pen["webkit"].busy \/ ~pen["frame"].busy
    /\ \A t \in L!Threads : pen[t].busy => pen[t].list = L!Snapshot(records)
    /\ (\A t \in L!Threads : ~pen[t].busy) => disk = L!Snapshot(records)

DownloadsInv == L!TypeOK /\ RecordsOK /\ PaperOK /\ ReferencesOK /\ HistoryOK

-----------------------------------------------------------------------------
(* The operators: what is written, what is read, what is left of a list.    *)

\* The operators of the library that Downloads brings with it are those of this module.
LEMMA SameLists ==
  /\ \A list : L!Range(list) = Range(list)
  /\ \A list, S : L!Only(list, S) = Only(list, S)
  /\ \A S : L!Cardinality(S) = Cardinality(S)
  /\ \A list, n : L!RemoveAt(list, n) = RemoveAt(list, n)
<1>1. ASSUME NEW list PROVE L!Range(list) = Range(list)
  BY DEF L!Range, Range
<1>2. ASSUME NEW list, NEW S PROVE L!Only(list, S) = Only(list, S)
  BY DEF L!Only, Only, L!Cardinality, Cardinality, L!IsFiniteSet
<1>3. ASSUME NEW S PROVE L!Cardinality(S) = Cardinality(S)
  BY DEF L!Cardinality, Cardinality
<1>4. ASSUME NEW list, NEW n PROVE L!RemoveAt(list, n) = RemoveAt(list, n)
  BY DEF L!RemoveAt, RemoveAt
<1> QED BY <1>1, <1>2, <1>3, <1>4

LEMMA SnapshotProperties ==
  ASSUME L!DownloadsAssumption, NEW list \in Seq(Entry)
  PROVE  /\ L!Snapshot(list) \in Seq(L!Written) /\ Len(L!Snapshot(list)) <= HistoryLimit
         /\ \A w \in Range(L!Snapshot(list)) :
              \E i \in 1..Len(list) : list[i].dl = w.dl /\ list[i].state = w.state /\ ~L!Live(list[i])
         /\ Unique(list) => Unique(L!Snapshot(list))
<1> DEFINE S == {r \in Range(list) : ~L!Live(r)}
           finals == Only(list, S)
           n == IF Len(finals) < HistoryLimit THEN Len(finals) ELSE HistoryLimit
           kept == SubSeq(finals, 1, n)
<1>1. L!Snapshot(list) = [i \in 1..Len(kept) |-> [dl |-> kept[i].dl, state |-> kept[i].state]]
  BY SameLists DEF L!Snapshot
<1>2. finals \in Seq(Entry)
  BY OnlyProperties
<1>3. \A k, m \in 1..Len(finals) : \E i, j \in 1..Len(list) :
           /\ list[i] \in S /\ finals[k] = list[i] /\ finals[m] = list[j]
           /\ i = j => k = m
  BY OnlyKeepsPlaces
<1>4. \A r \in S : ~L!Live(r)
  OBVIOUS
<1> HIDE DEF S, finals
<1>5. n \in 0..Len(finals) /\ n <= HistoryLimit /\ n \in Nat
  BY <1>2 DEF L!DownloadsAssumption
<1>6. kept \in Seq(Entry) /\ Len(kept) = n /\ \A k \in 1..n : kept[k] = finals[k] /\ k \in 1..Len(finals)
  <2> HIDE DEF n
  <2>1. \A i \in 1..n : finals[i] \in Entry
    BY <1>2, <1>5
  <2>2. /\ kept \in Seq(Entry) /\ Len(kept) = (IF 1 <= n THEN n - 1 + 1 ELSE 0)
        /\ \A i \in 1..(n - 1 + 1) : kept[i] = finals[1 + i - 1]
    BY <1>5, <2>1, SubSeqProperties
  <2> QED BY <1>2, <1>5, <2>2
<1> HIDE DEF n, kept
<1>7. \A k \in 1..n : finals[k] \in Entry /\ ~L!Live(finals[k])
  <2>1. ASSUME NEW k \in 1..n PROVE finals[k] \in Entry /\ ~L!Live(finals[k])
    <3>1. k \in 1..Len(finals)
      BY <1>6
    <3>2. PICK i \in 1..Len(list) : list[i] \in S /\ finals[k] = list[i]
      BY <1>3, <3>1
    <3> QED BY <1>4, <3>2
  <2> QED BY <2>1
<1>8. \A r \in Entry : ~L!Live(r) => [dl |-> r.dl, state |-> r.state] \in L!Written
  BY DEF Entry, L!Written, L!Live, L!States, L!Ends
<1>9. /\ L!Snapshot(list) \in Seq(L!Written) /\ Len(L!Snapshot(list)) = n
      /\ \A k \in 1..n : L!Snapshot(list)[k] = [dl |-> finals[k].dl, state |-> finals[k].state]
  BY <1>1, <1>5, <1>6, <1>7, <1>8
<1>10. ASSUME NEW w \in Range(L!Snapshot(list))
       PROVE  \E i \in 1..Len(list) : list[i].dl = w.dl /\ list[i].state = w.state /\ ~L!Live(list[i])
  <2>1. PICK k \in 1..n : L!Snapshot(list)[k] = w
    BY <1>9, Listed
  <2>2. PICK i \in 1..Len(list) : finals[k] = list[i]
    BY <1>3, <1>6
  <2> QED BY <1>7, <1>9, <2>1, <2>2
<1>11. ASSUME Unique(list), NEW k \in 1..n, NEW m \in 1..n, L!Snapshot(list)[k].dl = L!Snapshot(list)[m].dl PROVE k = m
  <2>1. PICK i \in 1..Len(list), j \in 1..Len(list) : finals[k] = list[i] /\ finals[m] = list[j] /\ (i = j => k = m)
    BY <1>3, <1>6
  <2>2. list[i].dl = list[j].dl
    BY <1>9, <1>11, <2>1
  <2> QED BY <1>11, <2>1, <2>2 DEF Unique
<1>12. Unique(list) => Unique(L!Snapshot(list))
  BY <1>9, <1>11 DEF Unique
<1> QED BY <1>5, <1>9, <1>10, <1>12

\* What has not ended is not written, wherever it is put.
LEMMA SnapshotOfMore ==
  ASSUME L!DownloadsAssumption, NEW list \in Seq(Entry), NEW r \in Entry, L!Live(r)
  PROVE  L!Snapshot(<<r>> \o list) = L!Snapshot(list)
<1> DEFINE more == <<r>> \o list
           S == {e \in Range(list) : ~L!Live(e)}
           U == {e \in Range(more) : ~L!Live(e)}
<1>1. more \in Seq(Entry) /\ <<r>> \in Seq(Entry)
  OBVIOUS
<1>2. Only(more, U) = Only(<<r>>, U) \o Only(list, U)
  <2> DEFINE one == <<r>>
  <2>1. one \in Seq(Entry)
    OBVIOUS
  <2> HIDE DEF one, U
  <2>2. Only(one \o list, U) = Only(one, U) \o Only(list, U)
    BY <2>1, OnlyJoins
  <2> QED BY <2>2 DEF one
<1>3. Only(<<r>>, U) = <<>>
  BY OnlyOne
<1>4. Only(list, U) = Only(list, S)
  <2>1. \A e \in Range(list) : e \in Range(more)
    <3>1. ASSUME NEW e \in Range(list) PROVE e \in Range(more)
      <4>1. PICK i \in 1..Len(list) : list[i] = e
        BY Listed
      <4>2. i + 1 \in 1..Len(more) /\ more[i + 1] = e
        BY <4>1
      <4> QED BY <1>1, <4>2, Listed
    <3> QED BY <3>1
  <2>2. \A e \in Range(list) : e \in U <=> e \in S
    BY <2>1
  <2> HIDE DEF U, S, more
  <2> QED BY <2>2, OnlySame
<1>5. Only(list, S) \in Seq(Entry)
  BY OnlyProperties
<1>6. Only(more, U) = Only(list, S)
  <2> HIDE DEF U, S, more
  <2> QED BY <1>2, <1>3, <1>4, <1>5
<1> QED BY <1>6, SameLists DEF L!Snapshot

\* Two lists with the same ends in the same places are written alike.
LEMMA SnapshotAlike ==
  ASSUME L!DownloadsAssumption, NEW list \in Seq(Entry), NEW other \in Seq(Entry), Len(other) = Len(list),
         \A i \in 1..Len(list) : /\ L!Live(list[i]) <=> L!Live(other[i])
                                 /\ ~L!Live(list[i]) => list[i].dl = other[i].dl /\ list[i].state = other[i].state
  PROVE  L!Snapshot(other) = L!Snapshot(list)
<1> DEFINE S == {e \in Range(list) : ~L!Live(e)}
           U == {e \in Range(other) : ~L!Live(e)}
           finals == Only(list, S)
           ends == Only(other, U)
           n == IF Len(finals) < HistoryLimit THEN Len(finals) ELSE HistoryLimit
<1>1. \A i \in 1..Len(list) : list[i] \in Range(list) /\ other[i] \in Range(other)
  BY Listed
<1>2. \A i \in 1..Len(list) : (list[i] \in S <=> ~L!Live(list[i])) /\ (other[i] \in U <=> ~L!Live(other[i]))
  BY <1>1
<1> HIDE DEF S, U
<1>3. /\ Len(ends) = Len(finals)
      /\ \A k \in 1..Len(finals) : \E i \in 1..Len(list) : list[i] \in S /\ finals[k] = list[i] /\ ends[k] = other[i]
  <2>1. \A i \in 1..Len(list) : list[i] \in S <=> other[i] \in U
    BY <1>2
  <2> HIDE DEF finals, ends
  <2>2. /\ Len(Only(other, U)) = Len(Only(list, S))
        /\ \A k \in 1..Len(Only(list, S)) : \E i \in 1..Len(list) :
             list[i] \in S /\ Only(list, S)[k] = list[i] /\ Only(other, U)[k] = other[i]
    BY <2>1, OnlyAlike
  <2> QED BY <2>2 DEF finals, ends
<1>4. \A k \in 1..Len(finals) : finals[k].dl = ends[k].dl /\ finals[k].state = ends[k].state
  BY <1>2, <1>3
<1>5. finals \in Seq(Entry) /\ ends \in Seq(Entry)
  BY OnlyProperties
<1>6. /\ L!Snapshot(list) =
          [i \in 1..Len(SubSeq(finals, 1, n)) |-> [dl |-> SubSeq(finals, 1, n)[i].dl, state |-> SubSeq(finals, 1, n)[i].state]]
      /\ L!Snapshot(other) =
          [i \in 1..Len(SubSeq(ends, 1, n)) |-> [dl |-> SubSeq(ends, 1, n)[i].dl, state |-> SubSeq(ends, 1, n)[i].state]]
  BY <1>3, SameLists DEF L!Snapshot, S, U
<1> HIDE DEF finals, ends
<1>7. n \in 0..Len(finals) /\ n \in Nat
  BY <1>5 DEF L!DownloadsAssumption
<1> HIDE DEF n
<1>8. /\ Len(SubSeq(finals, 1, n)) = n /\ Len(SubSeq(ends, 1, n)) = n
      /\ \A i \in 1..n : i \in 1..Len(finals) /\ SubSeq(finals, 1, n)[i] = finals[i] /\ SubSeq(ends, 1, n)[i] = ends[i]
  <2>1. \A i \in 1..n : finals[i] \in Entry /\ ends[i] \in Entry
    BY <1>3, <1>5, <1>7
  <2>2. /\ Len(SubSeq(finals, 1, n)) = (IF 1 <= n THEN n - 1 + 1 ELSE 0)
        /\ \A i \in 1..(n - 1 + 1) : SubSeq(finals, 1, n)[i] = finals[1 + i - 1]
    BY <1>7, <2>1, SubSeqProperties
  <2>3. /\ Len(SubSeq(ends, 1, n)) = (IF 1 <= n THEN n - 1 + 1 ELSE 0)
        /\ \A i \in 1..(n - 1 + 1) : SubSeq(ends, 1, n)[i] = ends[1 + i - 1]
    BY <1>7, <2>1, SubSeqProperties
  <2> QED BY <1>5, <1>7, <2>2, <2>3
<1>9. \A i \in 1..n : /\ SubSeq(ends, 1, n)[i].dl = SubSeq(finals, 1, n)[i].dl
                      /\ SubSeq(ends, 1, n)[i].state = SubSeq(finals, 1, n)[i].state
  BY <1>4, <1>8
<1>10. Len(SubSeq(finals, 1, n)) = n /\ Len(SubSeq(ends, 1, n)) = n
  BY <1>8
<1> QED BY <1>6, <1>9, <1>10, Zenon

\* What a process reads is what the file holds, and would be written again as it is.
LEMMA LoadedProperties ==
  ASSUME L!DownloadsAssumption, NEW list \in Seq(L!Written), Len(list) <= HistoryLimit
  PROVE  /\ L!Loaded(list) \in Seq(Entry) /\ Len(L!Loaded(list)) = Len(list)
         /\ \A i \in 1..Len(list) : L!Loaded(list)[i] = [dl |-> list[i].dl, state |-> list[i].state, held |-> FALSE]
         /\ L!Snapshot(L!Loaded(list)) = list
<1> DEFINE S == {w \in Range(list) : w.state \in L!Ends}
           load == L!Loaded(list)
<1>1. Only(list, S) = list
  <2>1. \A w \in Range(list) : w \in L!Written
    BY Listed
  <2>2. \A w \in Range(list) : w \in S
    BY <2>1 DEF L!Written
  <2> HIDE DEF S
  <2> QED BY <2>2, OnlyAll
<1>2. load = [i \in 1..Len(list) |-> [dl |-> list[i].dl, state |-> list[i].state, held |-> FALSE]]
  <2>1. load = [i \in 1..(IF Len(list) < HistoryLimit THEN Len(list) ELSE HistoryLimit) |->
                  [dl |-> list[i].dl, state |-> list[i].state, held |-> FALSE]]
    BY <1>1, SameLists DEF L!Loaded
  <2>2. (IF Len(list) < HistoryLimit THEN Len(list) ELSE HistoryLimit) = Len(list)
    BY DEF L!DownloadsAssumption
  <2> HIDE DEF load
  <2> QED BY <2>1, <2>2
<1> HIDE DEF load
<1>3. \A i \in 1..Len(list) : list[i] \in L!Written
  OBVIOUS
<1>4. \A w \in L!Written : [dl |-> w.dl, state |-> w.state, held |-> FALSE] \in Entry
  BY DEF L!Written, Entry, L!States
<1>5. /\ load \in Seq(Entry) /\ Len(load) = Len(list)
      /\ \A i \in 1..Len(list) : load[i] = [dl |-> list[i].dl, state |-> list[i].state, held |-> FALSE]
  BY <1>2, <1>3, <1>4
<1> DEFINE U == {r \in Range(load) : ~L!Live(r)}
           n == IF Len(load) < HistoryLimit THEN Len(load) ELSE HistoryLimit
<1>6. Only(load, U) = load
  <2>1. \A i \in 1..Len(load) : ~L!Live(load[i])
    <3>1. \A w \in L!Written : w.state \in L!Ends
      BY DEF L!Written
    <3>2. ASSUME NEW i \in 1..Len(list) PROVE load[i].state = list[i].state /\ list[i].state \in L!Ends
      <4>1. load[i] = [dl |-> list[i].dl, state |-> list[i].state, held |-> FALSE]
        BY <1>5
      <4>2. load[i].state = list[i].state
        BY <4>1
      <4> QED BY <1>3, <3>1, <4>2
    <3> QED BY <1>5, <3>2 DEF L!Live
  <2>2. \A r \in Range(load) : ~L!Live(r)
    <3>1. ASSUME NEW r \in Range(load) PROVE ~L!Live(r)
      <4>1. PICK i \in 1..Len(load) : load[i] = r
        BY <1>5, Listed
      <4> QED BY <2>1, <4>1
    <3> QED BY <3>1
  <2>3. \A r \in Range(load) : r \in U
    BY <2>2
  <2> HIDE DEF U
  <2> QED BY <1>5, <2>3, OnlyAll
<1>7. n = Len(load)
  BY <1>5 DEF L!DownloadsAssumption
<1>8. SubSeq(load, 1, n) = load
  BY <1>5, <1>7, SubSeqFull
<1>9. L!Snapshot(load) = [i \in 1..Len(load) |-> [dl |-> load[i].dl, state |-> load[i].state]]
  BY <1>6, <1>8, SameLists DEF L!Snapshot
<1>10. \A w \in L!Written : [dl |-> w.dl, state |-> w.state] = w
  BY DEF L!Written
<1>11. /\ L!Snapshot(load) \in Seq(L!Written) /\ Len(L!Snapshot(load)) = Len(list)
       /\ \A i \in 1..Len(list) : L!Snapshot(load)[i] = list[i]
  <2> DEFINE back(i) == [dl |-> load[i].dl, state |-> load[i].state]
  <2>1. ASSUME NEW i \in 1..Len(list) PROVE load[i].dl = list[i].dl /\ load[i].state = list[i].state
    <3>1. load[i] = [dl |-> list[i].dl, state |-> list[i].state, held |-> FALSE]
      BY <1>5
    <3> QED BY <3>1
  <2>2. \A i \in 1..Len(list) : back(i) = list[i]
    BY <1>3, <1>10, <2>1
  <2>3. L!Snapshot(load) = [i \in 1..Len(list) |-> back(i)]
    BY <1>5, <1>9
  <2> HIDE DEF back
  <2> QED BY <1>3, <2>2, <2>3
<1>12. L!Snapshot(load) = list
  <2> DEFINE snap == L!Snapshot(load)
  <2> HIDE DEF snap
  <2> QED BY <1>11, SeqEqual DEF snap
<1> QED BY <1>5, <1>12 DEF load

\* What is left of the records when some are forgotten.
LEMMA LessProperties ==
  ASSUME NEW list \in Seq(Entry), NEW S
  PROVE  /\ Only(list, S) \in Seq(Entry)
         /\ \A k \in 1..Len(Only(list, S)) : \E i \in 1..Len(list) : list[i] \in S /\ Only(list, S)[k] = list[i]
         /\ \A i \in 1..Len(list) : list[i] \in S => \E k \in 1..Len(Only(list, S)) : Only(list, S)[k] = list[i]
         /\ Unique(list) => Unique(Only(list, S))
<1> DEFINE less == Only(list, S)
<1>1. less \in Seq(Entry)
  BY OnlyProperties
<1>2. \A k, m \in 1..Len(less) : \E i, j \in 1..Len(list) :
           /\ list[i] \in S /\ less[k] = list[i] /\ less[m] = list[j]
           /\ i = j => k = m
  BY OnlyKeepsPlaces
<1>3. Range(less) = Range(list) \cap S
  BY OnlyRange
<1> HIDE DEF less
<1>4. \A k \in 1..Len(less) : \E i \in 1..Len(list) : list[i] \in S /\ less[k] = list[i]
  <2>1. ASSUME NEW k \in 1..Len(less) PROVE \E i \in 1..Len(list) : list[i] \in S /\ less[k] = list[i]
    BY <1>2
  <2> QED BY <2>1
<1>5. ASSUME NEW i \in 1..Len(list), list[i] \in S PROVE \E k \in 1..Len(less) : less[k] = list[i]
  <2>1. list[i] \in Range(less)
    BY <1>3, <1>5, Listed
  <2> QED BY <1>1, <2>1, Listed
<1>6. ASSUME Unique(list), NEW k \in 1..Len(less), NEW m \in 1..Len(less), less[k].dl = less[m].dl PROVE k = m
  <2>1. PICK i \in 1..Len(list), j \in 1..Len(list) : less[k] = list[i] /\ less[m] = list[j] /\ (i = j => k = m)
    BY <1>2
  <2> QED BY <1>6, <2>1 DEF Unique
<1>7. Unique(list) => Unique(less)
  BY <1>6 DEF Unique
<1> QED BY <1>1, <1>4, <1>5, <1>7 DEF less

\* What WithDestination, Ended and the teardown make of the records.
LEMMA WithDestinationProperties ==
  ASSUME records \in Seq(Entry), NEW d \in Downloads
  PROVE  /\ L!WithDestination(d) \in Seq(Entry) /\ Len(L!WithDestination(d)) = Len(records)
         /\ \A i \in 1..Len(records) :
              /\ L!WithDestination(d)[i].dl = records[i].dl /\ L!WithDestination(d)[i].held = records[i].held
              /\ L!Live(L!WithDestination(d)[i]) <=> L!Live(records[i])
              /\ ~L!Live(records[i]) => L!WithDestination(d)[i] = records[i]
<1> DEFINE new(i) == IF records[i].dl = d /\ records[i].state = "starting"
                     THEN [records[i] EXCEPT !.state = "running"] ELSE records[i]
<1>1. \A i \in 1..Len(records) : records[i] \in Entry
  OBVIOUS
<1>2. \A i \in 1..Len(records) :
        /\ new(i) \in Entry /\ new(i).dl = records[i].dl /\ new(i).held = records[i].held
        /\ L!Live(new(i)) <=> L!Live(records[i])
        /\ ~L!Live(records[i]) => new(i) = records[i]
  BY <1>1 DEF Entry, L!States, L!Live, L!Ends
<1>3. L!WithDestination(d) = [i \in 1..Len(records) |-> new(i)]
  BY DEF L!WithDestination
<1> HIDE DEF new
<1> QED BY <1>2, <1>3

LEMMA EndedProperties ==
  ASSUME records \in Seq(Entry), NEW d \in Downloads, NEW s \in L!Ends
  PROVE  /\ L!Ended(d, s) \in Seq(Entry) /\ Len(L!Ended(d, s)) = Len(records)
         /\ \A i \in 1..Len(records) :
              L!Ended(d, s)[i] = IF records[i].dl = d THEN [dl |-> d, state |-> s, held |-> FALSE] ELSE records[i]
<1> DEFINE new(i) == IF records[i].dl = d THEN [dl |-> d, state |-> s, held |-> FALSE] ELSE records[i]
<1>1. \A i \in 1..Len(records) : records[i] \in Entry
  OBVIOUS
<1>2. \A i \in 1..Len(records) : new(i) \in Entry
  BY <1>1 DEF Entry, L!States
<1>3. L!Ended(d, s) = [i \in 1..Len(records) |-> new(i)]
  BY DEF L!Ended
<1>4. L!Ended(d, s) \in Seq(Entry) /\ Len(L!Ended(d, s)) = Len(records) /\ \A i \in 1..Len(records) : L!Ended(d, s)[i] = new(i)
  <2> HIDE DEF new
  <2> QED BY <1>2, <1>3
<1> QED BY <1>4

LEMMA LetGoProperties ==
  ASSUME records \in Seq(Entry)
  PROVE  LET gone == [i \in 1..Len(records) |-> [records[i] EXCEPT !.held = FALSE]]
         IN  /\ gone \in Seq(Entry) /\ Len(gone) = Len(records)
             /\ \A i \in 1..Len(records) : gone[i] = [dl |-> records[i].dl, state |-> records[i].state, held |-> FALSE]
<1> DEFINE new(i) == [records[i] EXCEPT !.held = FALSE]
<1>1. \A i \in 1..Len(records) : records[i] \in Entry
  OBVIOUS
<1>2. \A i \in 1..Len(records) : new(i) \in Entry /\ new(i) = [dl |-> records[i].dl, state |-> records[i].state, held |-> FALSE]
  <2>1. ASSUME NEW r \in Entry PROVE [r EXCEPT !.held = FALSE] = [dl |-> r.dl, state |-> r.state, held |-> FALSE]
    <3> DEFINE e == [r EXCEPT !.held = FALSE]
    <3>1. e \in Entry /\ e.dl = r.dl /\ e.state = r.state /\ e.held = FALSE
      BY DEF Entry
    <3>2. \A f \in Entry : f = [dl |-> f.dl, state |-> f.state, held |-> f.held]
      BY DEF Entry
    <3> HIDE DEF e
    <3>3. e = [dl |-> e.dl, state |-> e.state, held |-> e.held]
      BY <3>1, <3>2
    <3>4. e = [dl |-> r.dl, state |-> r.state, held |-> FALSE]
      BY <3>1, <3>3
    <3> QED BY <3>4 DEF e
  <2>2. \A r \in Entry : [dl |-> r.dl, state |-> r.state, held |-> FALSE] \in Entry
    BY DEF Entry
  <2> QED BY <1>1, <2>1, <2>2
<1> HIDE DEF new
<1>3. LET gone == [i \in 1..Len(records) |-> new(i)]
      IN  /\ gone \in Seq(Entry) /\ Len(gone) = Len(records)
          /\ \A i \in 1..Len(records) : gone[i] = [dl |-> records[i].dl, state |-> records[i].state, held |-> FALSE]
  BY <1>2
<1> QED BY <1>3 DEF new

\* Records by their places.
LEMMA ByPlace ==
  ASSUME records \in Seq(Entry), NEW d
  PROVE  /\ L!Lists(d) <=> \E i \in 1..Len(records) : records[i].dl = d
         /\ L!IsLive(d) <=> \E i \in 1..Len(records) : records[i].dl = d /\ L!Live(records[i])
         /\ {r.dl : r \in {r \in Range(records) : r.dl = d /\ r.held}} = IF Held(d) THEN {d} ELSE {}
         /\ {r.dl : r \in {r \in Range(records) : r.held}} = {e \in Downloads : Held(e)}
<1>1. \A r : r \in Range(records) <=> \E i \in 1..Len(records) : records[i] = r
  BY Listed
<1>2. \A i \in 1..Len(records) : records[i] \in Range(records) /\ records[i].dl \in Downloads
  <2>1. \A i \in 1..Len(records) : records[i] \in Entry
    OBVIOUS
  <2>2. \A r \in Entry : r.dl \in Downloads
    BY DEF Entry
  <2> QED BY <1>1, <2>1, <2>2
<1>3. L!Lists(d) <=> \E i \in 1..Len(records) : records[i].dl = d
  BY <1>1, <1>2, SameLists DEF L!Lists
<1>4. L!IsLive(d) <=> \E i \in 1..Len(records) : records[i].dl = d /\ L!Live(records[i])
  BY <1>1, <1>2, SameLists DEF L!IsLive
<1>5. {r.dl : r \in {r \in Range(records) : r.dl = d /\ r.held}} = IF Held(d) THEN {d} ELSE {}
  BY <1>1, <1>2 DEF Held
<1>6. {r.dl : r \in {r \in Range(records) : r.held}} = {e \in Downloads : Held(e)}
  BY <1>1, <1>2 DEF Held
<1> QED BY <1>3, <1>4, <1>5, <1>6

-----------------------------------------------------------------------------
(* What every step does.                                                   *)

\* The records that are there after a step are of what has been handed over, and where
\* something is on paper they have the state it gives.
Follows ==
  /\ records' \in Seq(Entry) /\ Unique(records')
  /\ \A i \in 1..Len(records') : engine'[records'[i].dl] \notin {"none", "coming"}
  /\ \A d \in Downloads : engine[d] \notin {"none", "coming"} => engine'[d] \notin {"none", "coming"}
  /\ \A w : OnPaper(w) => \A i \in 1..Len(records') : records'[i].dl = w.dl => records'[i].state = w.state

LEMMA TypesOfPaper ==
  ASSUME L!TypeOK
  PROVE  /\ \A w : OnPaper(w) => w \in L!Written
         /\ records \in Seq(Entry) /\ disk \in Seq(L!Written)
         /\ \A t \in L!Threads : pen[t] \in [busy : BOOLEAN, list : Seq(L!Written)] /\ pen[t].list \in Seq(L!Written)
         /\ \A w \in L!Written : w.dl \in Downloads
<1>1. records \in Seq(Entry) /\ disk \in Seq(L!Written)
  BY DEF L!TypeOK, Entry
<1>2. \A t \in L!Threads : pen[t] \in [busy : BOOLEAN, list : Seq(L!Written)] /\ pen[t].list \in Seq(L!Written)
  BY DEF L!TypeOK
<1>3. ASSUME NEW w, OnPaper(w) PROVE w \in L!Written
  <2>1. CASE w \in Range(disk)
    BY <1>1, <2>1, Listed
  <2>2. CASE \E t \in L!Threads : w \in Range(pen[t].list)
    <3>1. PICK t \in L!Threads : w \in Range(pen[t].list)
      BY <2>2
    <3>2. pen[t].list \in Seq(L!Written)
      BY <1>2
    <3> QED BY <3>1, <3>2, Listed
  <2> QED BY <1>3, <2>1, <2>2 DEF OnPaper
<1> QED BY <1>1, <1>2, <1>3 DEF L!Written

\* Steps that write nothing and leave what would be written as it is.
LEMMA NothingWritten ==
  ASSUME L!TypeOK, PaperOK, HistoryOK, Follows, UNCHANGED <<disk, pen, disturbed>>, L!Snapshot(records') = L!Snapshot(records)
  PROVE  PaperOK' /\ HistoryOK'
<1>1. \A w : OnPaper(w)' <=> OnPaper(w)
  BY DEF OnPaper
<1>2. \A w : OnPaper(w) => engine[w.dl] \notin {"none", "coming"} /\ w.dl \in Downloads
  BY TypesOfPaper DEF PaperOK
<1>3. \A w : OnPaper(w)' => engine'[w.dl] \notin {"none", "coming"}
  BY <1>1, <1>2 DEF Follows
<1>4. \A w : OnPaper(w)' => \A i \in 1..Len(records') : records'[i].dl = w.dl => records'[i].state = w.state
  BY <1>1 DEF Follows
<1>5. Unique(disk') /\ \A t \in L!Threads : Unique(pen'[t].list) /\ Len(pen'[t].list) <= HistoryLimit
  BY DEF PaperOK, Unique
<1>6. PaperOK'
  BY <1>3, <1>4, <1>5 DEF PaperOK, Unique
<1>7. HistoryOK'
  <2>1. L!Snapshot(records)' = L!Snapshot(records)
    BY DEF L!Snapshot
  <2> QED BY <2>1 DEF HistoryOK
<1> QED BY <1>6, <1>7

\* Steps that leave a snapshot with a thread.
LEMMA SnapshotTaken ==
  ASSUME L!DownloadsAssumption, L!TypeOK, PaperOK, HistoryOK, Follows, NEW t \in L!Threads, ~pen[t].busy,
         NEW list \in Seq(Entry), L!ToWrite(t, list), L!Snapshot(records') = L!Snapshot(list), Unique(list), disk' = disk,
         \A i \in 1..Len(list) : ~L!Live(list[i]) =>
           \E j \in 1..Len(records') : records'[j].dl = list[i].dl /\ records'[j].state = list[i].state
  PROVE  /\ PaperOK' /\ HistoryOK'
         /\ pen' \in [L!Threads -> [busy : BOOLEAN, list : Seq(L!Written)]] /\ disturbed' \in BOOLEAN
<1> DEFINE snap == L!Snapshot(list)
<1>1. /\ snap \in Seq(L!Written) /\ Len(snap) <= HistoryLimit /\ Unique(snap)
      /\ \A w \in Range(snap) : \E i \in 1..Len(list) : list[i].dl = w.dl /\ list[i].state = w.state /\ ~L!Live(list[i])
  BY SnapshotProperties
<1>2. /\ pen' = [pen EXCEPT ![t] = [busy |-> TRUE, list |-> snap]]
      /\ disturbed' = (disturbed \/ \E u \in L!Threads \ {t} : pen[u].busy)
  BY DEF L!ToWrite
<1> HIDE DEF snap
<1>3. /\ pen'[t].busy /\ pen'[t].list = snap
      /\ \A u \in L!Threads \ {t} : pen'[u] = pen[u]
      /\ pen' \in [L!Threads -> [busy : BOOLEAN, list : Seq(L!Written)]]
  BY <1>1, <1>2 DEF L!TypeOK
<1>4. ASSUME NEW w, OnPaper(w)' PROVE OnPaper(w) \/ w \in Range(snap)
  BY <1>3, <1>4 DEF OnPaper
<1>5. ASSUME NEW w \in Range(snap)
      PROVE  /\ engine'[w.dl] \notin {"none", "coming"}
             /\ \A i \in 1..Len(records') : records'[i].dl = w.dl => records'[i].state = w.state
  <2>1. PICK i \in 1..Len(list) : list[i].dl = w.dl /\ list[i].state = w.state /\ ~L!Live(list[i])
    BY <1>1
  <2>2. PICK j \in 1..Len(records') : records'[j].dl = w.dl /\ records'[j].state = w.state
    BY <2>1
  <2> QED BY <2>2 DEF Follows, Unique
<1>6. \A w : OnPaper(w) => engine'[w.dl] \notin {"none", "coming"}
  BY TypesOfPaper DEF PaperOK, Follows
<1>7. ASSUME NEW w, OnPaper(w)'
      PROVE  /\ engine'[w.dl] \notin {"none", "coming"}
             /\ \A i \in 1..Len(records') : records'[i].dl = w.dl => records'[i].state = w.state
  <2>1. CASE OnPaper(w)
    BY <1>6, <2>1 DEF Follows
  <2>2. CASE w \in Range(snap)
    BY <1>5, <2>2
  <2> QED BY <1>4, <1>7, <2>1, <2>2
<1>8. Unique(disk') /\ \A u \in L!Threads : Unique(pen'[u].list) /\ Len(pen'[u].list) <= HistoryLimit
  <2>1. Unique(disk')
    BY DEF PaperOK
  <2>2. ASSUME NEW u \in L!Threads PROVE Unique(pen'[u].list) /\ Len(pen'[u].list) <= HistoryLimit
    <3>1. CASE u = t
      BY <1>1, <1>3, <3>1
    <3>2. CASE u # t
      BY <1>3, <3>2 DEF PaperOK
    <3> QED BY <3>1, <3>2
  <2> QED BY <2>1, <2>2
<1>9. PaperOK'
  BY <1>7, <1>8 DEF PaperOK, Unique
<1>10. HistoryOK'
  <2>1. L!Snapshot(records)' = snap
    BY DEF L!Snapshot, snap
  <2>2. disturbed' \in BOOLEAN
    BY <1>2 DEF L!TypeOK
  <2>3. ~disturbed' => \A u \in L!Threads \ {t} : ~pen'[u].busy
    BY <1>2, <1>3
  <2> QED BY <1>3, <2>1, <2>3 DEF HistoryOK, L!Threads
<1> QED BY <1>2, <1>3, <1>9, <1>10 DEF L!TypeOK

\* Records that stay what they were are followed.
LEMMA RecordsStay ==
  ASSUME L!TypeOK, RecordsOK, PaperOK, records' = records,
         \A d \in Downloads : engine[d] \notin {"none", "coming"} => engine'[d] \notin {"none", "coming"}
  PROVE  /\ Follows /\ L!Snapshot(records') = L!Snapshot(records)
         /\ stage' = stage => RecordsOK'
<1>1. records \in Seq(Entry) /\ \A i \in 1..Len(records) : records[i].dl \in Downloads
  <2>1. records \in Seq(Entry)
    BY TypesOfPaper
  <2>2. \A r \in Entry : r.dl \in Downloads
    BY DEF Entry
  <2> QED BY <2>1, <2>2
<1>2. Follows
  BY <1>1 DEF Follows, RecordsOK, PaperOK
<1>3. stage' = stage => RecordsOK'
  BY <1>1, <1>2 DEF RecordsOK, Follows, Unique, L!Live
<1> QED BY <1>2, <1>3

\* References that nothing moves.
LEMMA ReferencesStay ==
  ASSUME L!TypeOK, ReferencesOK, UNCHANGED <<inHand, releases, stage, cancelling>>,
         pen'["webkit"].busy = pen["webkit"].busy \/ inHand = {},
         \A d \in Downloads : /\ Held(d)' <=> Held(d)
                              /\ engine'[d] = engine[d] \/ (engine[d] = "none" /\ engine'[d] = "coming")
                                   \/ (engine[d] = "asked" /\ engine'[d] = "writing")
  PROVE  ReferencesOK'
<1>1. pen'["webkit"].busy \/ inHand' = {}
  BY DEF ReferencesOK
<1>2. ASSUME NEW d \in Downloads
      PROVE  (/\ releases[d] <= 1
              /\ Held(d) => d \notin inHand
              /\ Held(d) \/ d \in inHand => engine[d] \in Adopted /\ releases[d] = 0
              /\ engine[d] \in Adopted => Held(d) \/ d \in inHand \/ releases[d] = 1
              /\ engine[d] \in {"none", "coming"} => releases[d] = 0
              /\ d \in cancelling => engine[d] \in Adopted
              /\ stage # "down" /\ engine[d] \in {"asked", "writing"} => Held(d))'
  BY DEF ReferencesOK, Adopted
<1> QED BY <1>1, <1>2 DEF ReferencesOK

-----------------------------------------------------------------------------
(* One lemma per action.                                                   *)

LEMMA DownloadsInitInv == L!DownloadsAssumption /\ L!Init => DownloadsInv
<1> SUFFICES ASSUME L!DownloadsAssumption, L!Init PROVE DownloadsInv
  OBVIOUS
<1>1. records = <<>> /\ disk = <<>> /\ \A t \in L!Threads : pen[t] = L!NoPen
  BY DEF L!Init
<1>2. <<>> \in Seq(L!Written) /\ <<>> \in Seq(Entry) /\ Len(<<>>) = 0 /\ 0 <= HistoryLimit /\ Range(<<>>) = {}
  BY EmptyRange DEF L!DownloadsAssumption
<1>3. L!TypeOK
  <2>1. /\ records \in Seq([dl : Downloads, state : L!States, held : BOOLEAN]) /\ cancels \in Seq(Downloads)
        /\ forced \in Seq([url : URLs, late : BOOLEAN]) /\ disk \in Seq(L!Written) /\ Len(disk) <= HistoryLimit
    BY <1>2 DEF L!Init, Entry
  <2>2. pen \in [L!Threads -> [busy : BOOLEAN, list : Seq(L!Written)]]
    BY <1>2 DEF L!Init, L!NoPen
  <2>3. /\ inHand \subseteq Downloads /\ cancelling \subseteq Downloads /\ engine \in [Downloads -> L!EngineStates]
        /\ releases \in [Downloads -> Nat] /\ disturbed \in BOOLEAN /\ stage \in {"up", "ending", "down"}
    BY DEF L!Init, L!EngineStates
  <2>4. runs \in 1..MaxRuns
    BY DEF L!Init, L!DownloadsAssumption
  <2> QED BY <2>1, <2>2, <2>3, <2>4 DEF L!TypeOK
<1>4. RecordsOK
  BY <1>1 DEF RecordsOK, Unique
<1>5. PaperOK
  BY <1>1, <1>2 DEF PaperOK, Unique, OnPaper, L!NoPen
<1>6. ReferencesOK
  BY <1>1, <1>2 DEF L!Init, ReferencesOK, Held, Adopted
<1>7. HistoryOK
  <2>1. L!Snapshot(<<>>) = <<>>
    <3> DEFINE none == <<>>
    <3>1. none \in Seq(L!Written) /\ Len(none) = 0 /\ 0 <= HistoryLimit
      BY DEF L!DownloadsAssumption
    <3> HIDE DEF none
    <3>2. L!Loaded(none) \in Seq(Entry) /\ Len(L!Loaded(none)) = 0 /\ L!Snapshot(L!Loaded(none)) = none
      BY <3>1, LoadedProperties
    <3>3. L!Loaded(none) = none
      BY <3>1, <3>2
    <3> QED BY <3>2, <3>3 DEF none
  <2> QED BY <1>1, <2>1 DEF L!Init, HistoryOK, L!NoPen, L!Threads
<1> QED BY <1>3, <1>4, <1>5, <1>6, <1>7 DEF DownloadsInv

\* Steps that touch neither records nor paper nor references.
LEMMA Aside ==
  ASSUME L!DownloadsAssumption, DownloadsInv, UNCHANGED <<records, disk, pen, inHand, releases, stage, disturbed>>, L!TypeOK',
         cancelling' = cancelling,
         \A d \in Downloads : engine'[d] = engine[d] \/ (engine[d] = "none" /\ engine'[d] = "coming")
  PROVE  DownloadsInv'
<1>1. Follows /\ L!Snapshot(records') = L!Snapshot(records) /\ RecordsOK'
  BY RecordsStay DEF DownloadsInv
<1>2. PaperOK' /\ HistoryOK'
  BY <1>1, NothingWritten DEF DownloadsInv
<1>3. \A d \in Downloads : Held(d)' <=> Held(d)
  BY DEF Held
<1>4. ReferencesOK'
  BY <1>3, ReferencesStay DEF DownloadsInv
<1> QED BY <1>1, <1>2, <1>4 DEF DownloadsInv

Ask == [url : URLs, late : BOOLEAN]

\* The first ask of its kind, and the asks without it.
LEMMA FirstAsk ==
  ASSUME forced \in Seq(Ask), NEW u
  PROVE  /\ L!FirstFor(u) \in 0..Len(forced)
         /\ L!FirstFor(u) # 0 => forced[L!FirstFor(u)].url = u
         /\ L!FirstFor(u) = 0 => \A i \in 1..Len(forced) : forced[i].url # u
<1> DEFINE I == {i \in 1..Len(forced) : forced[i].url = u}
           first == L!FirstFor(u)
<1>1. first = IF I # {} THEN Min(I) ELSE 0
  BY DEF L!FirstFor, SelectInSeq, L!SelectInSeq, L!Min, Min
<1>2. ASSUME I # {} PROVE Min(I) \in I
  <2>1. I \in SUBSET Nat
    OBVIOUS
  <2>2. \E n \in I : \A m \in I : n <= m
    <3> HIDE DEF I
    <3> QED BY <1>2, <2>1, LeastNatural
  <2> QED BY <2>2 DEF Min
<1> HIDE DEF first
<1>3. /\ first \in 0..Len(forced)
      /\ first # 0 => forced[first].url = u
      /\ first = 0 => \A i \in 1..Len(forced) : forced[i].url # u
  <2>1. CASE I = {}
    BY <1>1, <2>1
  <2>2. CASE I # {}
    BY <1>1, <1>2, <2>2
  <2> QED BY <2>1, <2>2
<1> QED BY <1>3 DEF first

LEMMA LateAsk ==
  ASSUME forced \in Seq(Ask)
  PROVE  L!OldestStanding > 0 => L!OldestStanding \in 1..Len(forced) /\ ~forced[L!OldestStanding].late
<1> DEFINE I == {i \in 1..Len(forced) : ~forced[i].late}
           first == L!OldestStanding
<1>1. first = IF I # {} THEN Min(I) ELSE 0
  BY DEF L!OldestStanding, SelectInSeq, L!SelectInSeq, L!Min, Min
<1>2. ASSUME I # {} PROVE Min(I) \in I
  <2>1. I \in SUBSET Nat
    OBVIOUS
  <2>2. \E n \in I : \A m \in I : n <= m
    <3> HIDE DEF I
    <3> QED BY <1>2, <2>1, LeastNatural
  <2> QED BY <2>2 DEF Min
<1> HIDE DEF first
<1>3. first > 0 => first \in 1..Len(forced) /\ ~forced[first].late
  <2>1. CASE I = {}
    BY <1>1, <2>1
  <2>2. CASE I # {}
    BY <1>1, <1>2, <2>2
  <2> QED BY <2>1, <2>2
<1> QED BY <1>3 DEF first

Before(list, n) == SubSeq(list, 1, n - 1)
Behind(list, n) == SubSeq(list, n + 1, Len(list))

LEMMA WithoutOne ==
  ASSUME NEW T, NEW list \in Seq(T), NEW n \in 1..Len(list)
  PROVE  /\ Before(list, n) \in Seq(T) /\ Behind(list, n) \in Seq(T) /\ list[n] \in T
         /\ list = (Before(list, n) \o <<list[n]>>) \o Behind(list, n)
         /\ RemoveAt(list, n) = Before(list, n) \o Behind(list, n)
<1> DEFINE front == SubSeq(list, 1, n - 1)
           back == SubSeq(list, n + 1, Len(list))
<1>1. front \in Seq(T) /\ back \in Seq(T)
  <2>1. \A i \in 1..Len(list) : list[i] \in T
    OBVIOUS
  <2>2. front \in Seq(T)
    BY <2>1, SubSeqProperties
  <2>3. back \in Seq(T)
    BY <2>1, SubSeqProperties
  <2> QED BY <2>2, <2>3
<1>2. RemoveAt(list, n) = front \o back
  BY DEF RemoveAt
<1>3. SubSeq(list, 1, n) = front \o <<list[n]>>
  BY SubSeqRecursiveSecond
<1>4. SubSeq(list, 1, n) \o back = SubSeq(list, 1, Len(list))
  BY ConcatAdjacentSubSeq
<1>5. SubSeq(list, 1, Len(list)) = list
  BY SubSeqFull
<1>6. Before(list, n) = front /\ Behind(list, n) = back /\ list[n] \in T
  BY DEF Before, Behind
<1> HIDE DEF front, back
<1>7. list = (front \o <<list[n]>>) \o back
  BY <1>3, <1>4, <1>5
<1> QED BY <1>1, <1>2, <1>6, <1>7

LEMMA AsksLeftType ==
  ASSUME forced \in Seq(Ask), NEW u
  PROVE  L!Without(u) \in Seq(Ask) /\ L!AsksLeft(u) \in Seq(Ask)
<1> DEFINE S == {a \in Range(L!Without(u)) : ~a.late}
<1>1. L!AsksLeft(u) = Only(L!Without(u), S)
  BY SameLists DEF L!AsksLeft
<1>2. L!FirstFor(u) \in 0..Len(forced)
  BY FirstAsk
<1>3. L!Without(u) \in Seq(Ask)
  <2>1. CASE L!FirstFor(u) = 0
    BY <2>1 DEF L!Without
  <2>2. CASE L!FirstFor(u) # 0
    <3> DEFINE n == L!FirstFor(u)
    <3>1. n \in 1..Len(forced)
      BY <1>2, <2>2
    <3> HIDE DEF n
    <3>2. /\ Before(forced, n) \in Seq(Ask) /\ Behind(forced, n) \in Seq(Ask)
          /\ RemoveAt(forced, n) = Before(forced, n) \o Behind(forced, n)
      BY <3>1, WithoutOne
    <3>3. RemoveAt(forced, n) \in Seq(Ask)
      BY <3>2
    <3> QED BY <2>2, <3>3, SameLists DEF L!Without, n
  <2> QED BY <2>1, <2>2
<1> HIDE DEF S
<1> QED BY <1>1, <1>3, OnlyProperties

-----------------------------------------------------------------------------
(* The WebKit thread's steps.                                              *)

LEMMA PolicyStep ==
  ASSUME L!DownloadsAssumption, DownloadsInv, NEW u \in URLs, NEW d \in Downloads, NEW kind \in L!Loads, L!Policy(u, d, kind)
  PROVE  DownloadsInv'
<1>1. forced' \in Seq(Ask)
  <2>1. forced \in Seq(Ask)
    BY DEF DownloadsInv, L!TypeOK, Ask
  <2> QED BY <2>1, AsksLeftType DEF L!Policy
<1>2. L!TypeOK'
  BY <1>1 DEF DownloadsInv, L!TypeOK, L!Policy, L!EngineStates, Ask
<1>3. \A e \in Downloads : engine'[e] = engine[e] \/ (engine[e] = "none" /\ engine'[e] = "coming")
  BY DEF DownloadsInv, L!TypeOK, L!Policy
<1>4. /\ UNCHANGED <<records, disk, pen, inHand, releases, stage, disturbed>> /\ cancelling' = cancelling
  BY DEF L!Policy
<1> QED BY <1>2, <1>3, <1>4, Aside

LEMMA AdoptStep ==
  ASSUME L!DownloadsAssumption, DownloadsInv, NEW d \in Downloads, L!Adopt(d)
  PROVE  DownloadsInv'
<1> DEFINE r == [dl |-> d, state |-> "starting", held |-> TRUE]
<1>1. /\ records \in Seq(Entry) /\ r \in Entry /\ L!Live(r) /\ records' = <<r>> \o records
      /\ engine[d] = "coming" /\ engine' = [engine EXCEPT ![d] = "asked"] /\ engine \in [Downloads -> L!EngineStates]
  BY DEF DownloadsInv, L!TypeOK, L!Adopt, L!Added, Entry, L!States, L!Live, L!Ends
<1>2. r.dl = d /\ r.held /\ r.state = "starting"
  OBVIOUS
<1> HIDE DEF r
<1>3. /\ records' \in Seq(Entry) /\ Len(records') = Len(records) + 1 /\ records'[1] = r /\ Len(records) \in Nat
      /\ \A i \in 1..Len(records) : records'[i + 1] = records[i] /\ records[i] \in Entry
  BY <1>1
<1>4. \A i \in 1..Len(records') : i = 1 \/ (i - 1 \in 1..Len(records) /\ records'[i] = records[i - 1])
  <2>1. ASSUME NEW i \in 1..Len(records'), i # 1 PROVE i - 1 \in 1..Len(records) /\ records'[i] = records[i - 1]
    <3>1. i - 1 \in 1..Len(records) /\ (i - 1) + 1 = i
      BY <1>3, <2>1
    <3> QED BY <1>3, <3>1
  <2> QED BY <2>1
<1>5. \A i \in 1..Len(records) : records[i].dl # d /\ records[i].dl \in Downloads
  <2>1. \A e \in Entry : e.dl \in Downloads
    BY DEF Entry
  <2> QED BY <1>1, <1>3, <2>1 DEF DownloadsInv, RecordsOK
<1>6. engine'[d] = "asked" /\ \A e \in Downloads : e # d => engine'[e] = engine[e]
  BY <1>1
<1>7. \A w : OnPaper(w) => w.dl # d /\ w.dl \in Downloads
  BY <1>1, TypesOfPaper DEF DownloadsInv, PaperOK
<1>8. Unique(records')
  <2> SUFFICES ASSUME NEW i \in 1..Len(records'), NEW j \in 1..Len(records'), records'[i].dl = records'[j].dl PROVE i = j
    BY DEF Unique
  <2>1. CASE i = 1 \/ j = 1
    <3>1. \A k \in 1..Len(records') : k # 1 => records'[k].dl # d
      BY <1>4, <1>5
    <3> QED BY <1>2, <1>3, <2>1, <3>1
  <2>2. CASE i # 1 /\ j # 1
    <3>1. i - 1 \in 1..Len(records) /\ j - 1 \in 1..Len(records) /\ records[i - 1].dl = records[j - 1].dl
      BY <1>4, <2>2
    <3>2. i - 1 = j - 1
      BY <3>1 DEF DownloadsInv, RecordsOK, Unique
    <3> QED BY <3>2
  <2> QED BY <2>1, <2>2
<1>9. \A i \in 1..Len(records') : engine'[records'[i].dl] \notin {"none", "coming"}
  <2>1. ASSUME NEW i \in 1..Len(records') PROVE engine'[records'[i].dl] \notin {"none", "coming"}
    <3>1. CASE i = 1
      BY <1>2, <1>3, <1>6, <3>1
    <3>2. CASE i # 1
      <4>1. i - 1 \in 1..Len(records) /\ records'[i] = records[i - 1]
        BY <1>4, <3>2
      <4>2. engine[records[i - 1].dl] \notin {"none", "coming"}
        BY <4>1 DEF DownloadsInv, RecordsOK
      <4> QED BY <1>5, <1>6, <4>1, <4>2
    <3> QED BY <3>1, <3>2
  <2> QED BY <2>1
<1>10. \A w : OnPaper(w) => \A i \in 1..Len(records') : records'[i].dl = w.dl => records'[i].state = w.state
  <2>1. ASSUME NEW w, OnPaper(w), NEW i \in 1..Len(records'), records'[i].dl = w.dl PROVE records'[i].state = w.state
    <3>1. i # 1
      BY <1>2, <1>3, <1>7, <2>1
    <3>2. i - 1 \in 1..Len(records) /\ records'[i] = records[i - 1]
      BY <1>4, <3>1
    <3> QED BY <2>1, <3>2 DEF DownloadsInv, PaperOK
  <2> QED BY <2>1
<1>11. Follows
  BY <1>3, <1>6, <1>8, <1>9, <1>10 DEF Follows
<1>12. L!Snapshot(records') = L!Snapshot(records)
  BY <1>1, SnapshotOfMore
<1>13. PaperOK' /\ HistoryOK'
  BY <1>11, <1>12, NothingWritten DEF DownloadsInv, L!Adopt
<1>14. stage' = stage /\ stage # "down"
  BY DEF L!Adopt, L!WebKitRuns
<1>15. RecordsOK'
  <2>1. ASSUME NEW i \in 1..Len(records')
        PROVE  /\ records'[i].held => L!Live(records'[i])
               /\ stage' # "down" /\ L!Live(records'[i]) => records'[i].held
    <3>1. CASE i = 1
      BY <1>1, <1>2, <1>3, <3>1
    <3>2. CASE i # 1
      BY <1>4, <1>14, <3>2 DEF DownloadsInv, RecordsOK
    <3> QED BY <3>1, <3>2
  <2> QED BY <1>8, <1>9, <2>1 DEF RecordsOK, Unique, L!Live
<1>16. Held(d)' /\ ~Held(d) /\ \A e \in Downloads : e # d => (Held(e)' <=> Held(e))
  <2>1. Held(d)'
    BY <1>2, <1>3 DEF Held
  <2>2. ~Held(d)
    BY <1>5 DEF Held
  <2>3. ASSUME NEW e \in Downloads, e # d PROVE Held(e)' <=> Held(e)
    <3>1. ASSUME Held(e) PROVE Held(e)'
      <4>1. PICK i \in 1..Len(records) : records[i].dl = e /\ records[i].held
        BY <3>1 DEF Held
      <4>2. i + 1 \in 1..Len(records') /\ records'[i + 1] = records[i]
        BY <1>3
      <4> QED BY <4>1, <4>2 DEF Held
    <3>2. ASSUME Held(e)' PROVE Held(e)
      <4>1. PICK i \in 1..Len(records') : records'[i].dl = e /\ records'[i].held
        BY <3>2 DEF Held
      <4> QED BY <1>2, <1>3, <1>4, <2>3, <4>1 DEF Held
    <3> QED BY <3>1, <3>2
  <2> QED BY <2>1, <2>2, <2>3
<1>17. ReferencesOK'
  <2>1. UNCHANGED <<inHand, releases, cancelling, stage, pen>>
    BY DEF L!Adopt
  <2>2. d \notin inHand /\ releases[d] = 0 /\ d \notin cancelling
    BY <1>1 DEF DownloadsInv, ReferencesOK, Adopted
  <2>3. ASSUME NEW e \in Downloads
        PROVE  (/\ releases[e] <= 1
                /\ Held(e) => e \notin inHand
                /\ Held(e) \/ e \in inHand => engine[e] \in Adopted /\ releases[e] = 0
                /\ engine[e] \in Adopted => Held(e) \/ e \in inHand \/ releases[e] = 1
                /\ engine[e] \in {"none", "coming"} => releases[e] = 0
                /\ e \in cancelling => engine[e] \in Adopted
                /\ stage # "down" /\ engine[e] \in {"asked", "writing"} => Held(e))'
    <3>1. CASE e = d
      BY <1>6, <1>16, <2>1, <2>2, <3>1 DEF Adopted
    <3>2. CASE e # d
      BY <1>6, <1>16, <2>1, <3>2 DEF DownloadsInv, ReferencesOK
    <3> QED BY <3>1, <3>2
  <2>4. (pen["webkit"].busy \/ inHand = {})'
    BY <2>1 DEF DownloadsInv, ReferencesOK
  <2> QED BY <2>3, <2>4 DEF ReferencesOK
<1>18. L!TypeOK'
  BY <1>1, <1>3 DEF DownloadsInv, L!TypeOK, L!Adopt, L!EngineStates, Entry
<1> QED BY <1>13, <1>15, <1>17, <1>18 DEF DownloadsInv

LEMMA DecideDestinationStep ==
  ASSUME L!DownloadsAssumption, DownloadsInv, NEW d \in Downloads, L!DecideDestination(d)
  PROVE  DownloadsInv'
<1>1. /\ records \in Seq(Entry) /\ records' = L!WithDestination(d) /\ engine[d] = "asked"
      /\ engine' = [engine EXCEPT ![d] = "writing"] /\ engine \in [Downloads -> L!EngineStates]
  BY DEF DownloadsInv, L!TypeOK, L!DecideDestination, Entry
<1>2. /\ records' \in Seq(Entry) /\ Len(records') = Len(records)
      /\ \A i \in 1..Len(records) :
           /\ records'[i].dl = records[i].dl /\ records'[i].held = records[i].held
           /\ L!Live(records'[i]) <=> L!Live(records[i])
           /\ ~L!Live(records[i]) => records'[i] = records[i]
  BY <1>1, WithDestinationProperties
<1>3. engine'[d] = "writing" /\ \A e \in Downloads : e # d => engine'[e] = engine[e]
  BY <1>1
<1>4. \A i \in 1..Len(records) : records[i].dl \in Downloads
  <2>1. \A e \in Entry : e.dl \in Downloads
    BY DEF Entry
  <2> QED BY <1>1, <2>1
<1>5. Unique(records')
  BY <1>2 DEF DownloadsInv, RecordsOK, Unique
<1>6. \A i \in 1..Len(records') : engine'[records'[i].dl] \notin {"none", "coming"}
  BY <1>2, <1>3, <1>4 DEF DownloadsInv, RecordsOK
<1>7. \A w : OnPaper(w) => \A i \in 1..Len(records') : records'[i].dl = w.dl => records'[i].state = w.state
  <2>1. ASSUME NEW w, OnPaper(w), NEW i \in 1..Len(records'), records'[i].dl = w.dl PROVE records'[i].state = w.state
    <3>1. records[i].dl = w.dl /\ records[i].state = w.state
      BY <1>2, <2>1 DEF DownloadsInv, PaperOK
    <3>2. w.state \in L!Ends
      BY <2>1, TypesOfPaper DEF DownloadsInv, L!Written
    <3>3. ~L!Live(records[i])
      BY <3>1, <3>2 DEF L!Live
    <3> QED BY <1>2, <3>1, <3>3
  <2> QED BY <2>1
<1>8. Follows
  BY <1>2, <1>3, <1>5, <1>6, <1>7 DEF Follows
<1>9. L!Snapshot(records') = L!Snapshot(records)
  <2>1. \A i \in 1..Len(records) :
          /\ L!Live(records[i]) <=> L!Live(records'[i])
          /\ ~L!Live(records[i]) => records[i].dl = records'[i].dl /\ records[i].state = records'[i].state
    BY <1>2
  <2> QED BY <1>1, <1>2, <2>1, SnapshotAlike
<1>10. PaperOK' /\ HistoryOK'
  BY <1>8, <1>9, NothingWritten DEF DownloadsInv, L!DecideDestination
<1>11. UNCHANGED <<inHand, releases, cancelling, stage, pen>>
  BY DEF L!DecideDestination
<1>12. RecordsOK'
  BY <1>2, <1>5, <1>6, <1>11 DEF DownloadsInv, RecordsOK, Unique, L!Live
<1>13. \A e \in Downloads : Held(e)' <=> Held(e)
  BY <1>2 DEF Held
<1>14. ReferencesOK'
  BY <1>1, <1>3, <1>11, <1>13, ReferencesStay DEF DownloadsInv
<1>15. L!TypeOK'
  BY <1>1, <1>2 DEF DownloadsInv, L!TypeOK, L!DecideDestination, L!EngineStates, Entry
<1> QED BY <1>10, <1>12, <1>14, <1>15 DEF DownloadsInv

\* A download that has not ended ends; another word on one that has is not heard.
LEMMA FinishStep ==
  ASSUME L!DownloadsAssumption, DownloadsInv, L!WebKitRuns, NEW d \in Downloads, NEW s \in L!Ends, L!Finish(d, s),
         engine[d] \in Adopted, NEW e \in {"refused", "over"}, engine' = [engine EXCEPT ![d] = e],
         UNCHANGED <<cancels, forced, disk, stage, runs, releases>>, cancelling' \in SUBSET cancelling
  PROVE  DownloadsInv'
<1>1. records \in Seq(Entry) /\ engine \in [Downloads -> L!EngineStates] /\ ~pen["webkit"].busy /\ inHand = {} /\ stage # "down"
  BY DEF DownloadsInv, L!TypeOK, L!WebKitRuns, ReferencesOK, Entry
<1>2. engine'[d] = e /\ (\A f \in Downloads : f # d => engine'[f] = engine[f]) /\ engine' \in [Downloads -> L!EngineStates]
  BY <1>1 DEF L!EngineStates
<1>3. \A f \in Downloads : engine[f] \notin {"none", "coming"} => engine'[f] \notin {"none", "coming"}
  BY <1>2
<1>4. \A i \in 1..Len(records) : records[i].dl \in Downloads
  <2>1. \A f \in Entry : f.dl \in Downloads
    BY DEF Entry
  <2> QED BY <1>1, <2>1
<1>5. CASE ~L!IsLive(d)
  <2>1. UNCHANGED <<records, inHand, pen, disturbed>>
    BY <1>5 DEF L!Finish
  <2>2. Follows /\ L!Snapshot(records') = L!Snapshot(records) /\ RecordsOK'
    BY <1>3, <2>1, RecordsStay DEF DownloadsInv
  <2>3. PaperOK' /\ HistoryOK'
    BY <2>1, <2>2, NothingWritten DEF DownloadsInv
  <2>4. \A f \in Downloads : Held(f)' <=> Held(f)
    BY <2>1 DEF Held
  <2>5. ReferencesOK'
    <3>1. ASSUME NEW f \in Downloads
          PROVE  (/\ releases[f] <= 1
                  /\ Held(f) => f \notin inHand
                  /\ Held(f) \/ f \in inHand => engine[f] \in Adopted /\ releases[f] = 0
                  /\ engine[f] \in Adopted => Held(f) \/ f \in inHand \/ releases[f] = 1
                  /\ engine[f] \in {"none", "coming"} => releases[f] = 0
                  /\ f \in cancelling => engine[f] \in Adopted
                  /\ stage # "down" /\ engine[f] \in {"asked", "writing"} => Held(f))'
      <4>1. CASE f = d
        BY <1>2, <2>1, <2>4, <4>1 DEF DownloadsInv, ReferencesOK, Adopted
      <4>2. CASE f # d
        BY <1>2, <2>1, <2>4, <4>2 DEF DownloadsInv, ReferencesOK
      <4> QED BY <4>1, <4>2
    <3> QED BY <1>1, <2>1, <3>1 DEF ReferencesOK
  <2>6. L!TypeOK'
    BY <1>2, <2>1 DEF DownloadsInv, L!TypeOK
  <2> QED BY <2>2, <2>3, <2>5, <2>6 DEF DownloadsInv
<1>6. CASE L!IsLive(d)
  <2>1. /\ records' = L!Ended(d, s) /\ L!ToWrite("webkit", records')
        /\ inHand' = inHand \cup {r.dl : r \in {r \in Range(records) : r.dl = d /\ r.held}}
    BY <1>6, SameLists DEF L!Finish
  <2>2. /\ records' \in Seq(Entry) /\ Len(records') = Len(records)
        /\ \A i \in 1..Len(records) :
             records'[i] = IF records[i].dl = d THEN [dl |-> d, state |-> s, held |-> FALSE] ELSE records[i]
    BY <1>1, <2>1, EndedProperties
  <2>3. PICK n \in 1..Len(records) : records[n].dl = d /\ L!Live(records[n])
    BY <1>1, <1>6, ByPlace
  <2>4. records[n].held /\ Held(d)
    BY <1>1, <2>3 DEF DownloadsInv, RecordsOK, Held
  <2>5. inHand' = {d}
    BY <1>1, <2>1, <2>4, ByPlace
  <2>6. \A i \in 1..Len(records) :
          /\ records'[i].dl = records[i].dl
          /\ records[i].dl = d => records'[i].state = s /\ ~records'[i].held /\ ~L!Live(records'[i])
          /\ records[i].dl # d => records'[i] = records[i]
    <3>1. ASSUME NEW i \in 1..Len(records), records[i].dl = d
          PROVE  records'[i].dl = d /\ records'[i].state = s /\ ~records'[i].held /\ ~L!Live(records'[i])
      <4>1. records'[i] = [dl |-> d, state |-> s, held |-> FALSE]
        BY <2>2, <3>1
      <4> QED BY <4>1 DEF L!Live
    <3> QED BY <2>2, <3>1
  <2>7. Unique(records')
    BY <2>2, <2>6 DEF DownloadsInv, RecordsOK, Unique
  <2>8. \A i \in 1..Len(records') : engine'[records'[i].dl] \notin {"none", "coming"}
    BY <1>3, <1>4, <2>2, <2>6 DEF DownloadsInv, RecordsOK
  <2>9. \A w : OnPaper(w) => w.dl # d
    <3>1. ASSUME NEW w, OnPaper(w), w.dl = d PROVE FALSE
      <4>1. records[n].state = w.state
        BY <2>3, <3>1 DEF DownloadsInv, PaperOK
      <4>2. w.state \in L!Ends
        BY <3>1, TypesOfPaper DEF DownloadsInv, L!Written
      <4> QED BY <2>3, <4>1, <4>2 DEF L!Live
    <3> QED BY <3>1
  <2>10. \A w : OnPaper(w) => \A i \in 1..Len(records') : records'[i].dl = w.dl => records'[i].state = w.state
    <3>1. ASSUME NEW w, OnPaper(w), NEW i \in 1..Len(records'), records'[i].dl = w.dl PROVE records'[i].state = w.state
      <4>1. records[i].dl # d /\ records'[i] = records[i]
        BY <2>2, <2>6, <2>9, <3>1
      <4> QED BY <2>2, <3>1, <4>1 DEF DownloadsInv, PaperOK
    <3> QED BY <3>1
  <2>11. Follows
    BY <1>3, <2>2, <2>7, <2>8, <2>10 DEF Follows
  <2>12. /\ PaperOK' /\ HistoryOK'
         /\ pen' \in [L!Threads -> [busy : BOOLEAN, list : Seq(L!Written)]] /\ disturbed' \in BOOLEAN
    <3>1. "webkit" \in L!Threads
      BY DEF L!Threads
    <3> DEFINE new == records'
    <3>2. new \in Seq(Entry) /\ L!ToWrite("webkit", new) /\ L!Snapshot(records') = L!Snapshot(new) /\ Unique(new)
      BY <2>1, <2>2, <2>7
    <3>3. \A i \in 1..Len(new) : ~L!Live(new[i]) =>
            \E j \in 1..Len(records') : records'[j].dl = new[i].dl /\ records'[j].state = new[i].state
      OBVIOUS
    <3> HIDE DEF new
    <3> QED BY <1>1, <2>11, <3>1, <3>2, <3>3, SnapshotTaken DEF DownloadsInv
  <2>13. pen'["webkit"].busy
    BY <2>1 DEF L!ToWrite, DownloadsInv, L!TypeOK, L!Threads
  <2>14. RecordsOK'
    <3>1. ASSUME NEW i \in 1..Len(records')
          PROVE  /\ records'[i].held => L!Live(records'[i])
                 /\ stage' # "down" /\ L!Live(records'[i]) => records'[i].held
      BY <2>2, <2>6 DEF DownloadsInv, RecordsOK
    <3> QED BY <2>7, <2>8, <3>1 DEF RecordsOK, Unique, L!Live
  <2>15. ~Held(d)' /\ \A f \in Downloads : f # d => (Held(f)' <=> Held(f))
    BY <2>2, <2>6 DEF Held
  <2>16. ReferencesOK'
    <3>1. ASSUME NEW f \in Downloads
          PROVE  (/\ releases[f] <= 1
                  /\ Held(f) => f \notin inHand
                  /\ Held(f) \/ f \in inHand => engine[f] \in Adopted /\ releases[f] = 0
                  /\ engine[f] \in Adopted => Held(f) \/ f \in inHand \/ releases[f] = 1
                  /\ engine[f] \in {"none", "coming"} => releases[f] = 0
                  /\ f \in cancelling => engine[f] \in Adopted
                  /\ stage # "down" /\ engine[f] \in {"asked", "writing"} => Held(f))'
      <4>1. CASE f = d
        <5>1. releases[d] = 0
          BY <2>4 DEF DownloadsInv, ReferencesOK
        <5> QED BY <1>2, <2>5, <2>15, <4>1, <5>1 DEF Adopted
      <4>2. CASE f # d
        BY <1>1, <1>2, <2>5, <2>15, <4>2 DEF DownloadsInv, ReferencesOK
      <4> QED BY <4>1, <4>2
    <3> QED BY <2>13, <3>1 DEF ReferencesOK
  <2>17. L!TypeOK'
    BY <1>2, <2>2, <2>5, <2>12 DEF DownloadsInv, L!TypeOK, Entry
  <2> QED BY <2>12, <2>14, <2>16, <2>17 DEF DownloadsInv
<1> QED BY <1>5, <1>6

LEMMA RefuseDestinationStep ==
  ASSUME L!DownloadsAssumption, DownloadsInv, NEW d \in Downloads, L!RefuseDestination(d)
  PROVE  DownloadsInv'
<1>1. /\ L!WebKitRuns /\ L!Finish(d, "failed") /\ engine[d] \in Adopted /\ engine' = [engine EXCEPT ![d] = "refused"]
      /\ UNCHANGED <<cancels, forced, disk, stage, runs, releases>> /\ cancelling' \in SUBSET cancelling
  BY DEF L!RefuseDestination, Adopted
<1>2. "failed" \in L!Ends
  BY DEF L!Ends
<1> QED BY <1>1, <1>2, FinishStep

LEMMA OverStep ==
  ASSUME L!DownloadsAssumption, DownloadsInv, NEW d \in Downloads, NEW s \in L!Ends, L!Over(d, s)
  PROVE  DownloadsInv'
<1>1. /\ L!WebKitRuns /\ L!Finish(d, s) /\ engine[d] \in Adopted /\ engine' = [engine EXCEPT ![d] = "over"]
      /\ UNCHANGED <<cancels, forced, disk, stage, runs, releases>> /\ cancelling' \in SUBSET cancelling
  BY DEF L!Over, Adopted
<1> QED BY <1>1, FinishStep

LEMMA DidCancelStep ==
  ASSUME L!DownloadsAssumption, DownloadsInv, NEW d \in Downloads, L!DidCancel(d)
  PROVE  DownloadsInv'
<1>1. /\ L!WebKitRuns /\ L!Finish(d, "cancelled") /\ d \in cancelling /\ engine' = [engine EXCEPT ![d] = "over"]
      /\ UNCHANGED <<cancels, forced, disk, stage, runs, releases>> /\ cancelling' \in SUBSET cancelling
  BY DEF L!DidCancel
<1>2. engine[d] \in Adopted
  BY <1>1 DEF DownloadsInv, ReferencesOK
<1>3. "cancelled" \in L!Ends
  BY DEF L!Ends
<1> QED BY <1>1, <1>2, <1>3, FinishStep

LEMMA PumpStep ==
  ASSUME L!DownloadsAssumption, DownloadsInv, L!Pump
  PROVE  DownloadsInv'
<1> DEFINE d == Head(cancels)
<1>1. d \in Downloads /\ cancels' \in Seq(Downloads)
  BY DEF L!Pump, DownloadsInv, L!TypeOK
<1>2. records \in Seq(Entry) /\ L!WebKitRuns /\ stage # "down" /\ UNCHANGED <<forced, disk, engine, stage, runs, releases>>
  BY DEF L!Pump, DownloadsInv, L!TypeOK, Entry, L!WebKitRuns
<1> HIDE DEF d
<1>3. (\E r \in Range(records) : r.dl = d /\ L!Live(r) /\ r.held) <=>
        \E i \in 1..Len(records) : records[i].dl = d /\ L!Live(records[i]) /\ records[i].held
  <2>1. \A r : r \in Range(records) <=> \E i \in 1..Len(records) : records[i] = r
    BY <1>2, Listed
  <2> QED BY <2>1
<1>4. \/ /\ \E i \in 1..Len(records) : records[i].dl = d /\ L!Live(records[i]) /\ records[i].held
         /\ cancelling' = cancelling \cup {d} /\ UNCHANGED <<records, inHand, pen, disturbed>>
      \/ /\ ~\E i \in 1..Len(records) : records[i].dl = d /\ L!Live(records[i]) /\ records[i].held
         /\ L!Finish(d, "cancelled") /\ UNCHANGED cancelling
  BY <1>3, SameLists DEF L!Pump, d
<1>5. /\ UNCHANGED <<records, inHand, pen, disturbed>>
      /\ cancelling' \in SUBSET (cancelling \cup {d}) /\ (d \in cancelling' => d \in cancelling \/ Held(d))
  <2>1. CASE \E i \in 1..Len(records) : records[i].dl = d /\ L!Live(records[i]) /\ records[i].held
    BY <1>4, <2>1 DEF Held
  <2>2. CASE ~\E i \in 1..Len(records) : records[i].dl = d /\ L!Live(records[i]) /\ records[i].held
    <3>1. ~L!IsLive(d)
      <4>1. ~\E i \in 1..Len(records) : records[i].dl = d /\ L!Live(records[i])
        BY <1>2, <2>2 DEF DownloadsInv, RecordsOK
      <4> QED BY <1>2, <4>1, ByPlace
    <3>2. L!Finish(d, "cancelled") /\ UNCHANGED cancelling
      BY <1>4, <2>2
    <3> QED BY <3>1, <3>2 DEF L!Finish
  <2> QED BY <2>1, <2>2
<1>6. Follows /\ L!Snapshot(records') = L!Snapshot(records) /\ RecordsOK'
  BY <1>2, <1>5, RecordsStay DEF DownloadsInv
<1>7. PaperOK' /\ HistoryOK'
  BY <1>2, <1>5, <1>6, NothingWritten DEF DownloadsInv
<1>8. \A f \in Downloads : Held(f)' <=> Held(f)
  BY <1>5 DEF Held
<1>9. ReferencesOK'
  <2>1. ASSUME NEW f \in Downloads
        PROVE  (/\ releases[f] <= 1
                /\ Held(f) => f \notin inHand
                /\ Held(f) \/ f \in inHand => engine[f] \in Adopted /\ releases[f] = 0
                /\ engine[f] \in Adopted => Held(f) \/ f \in inHand \/ releases[f] = 1
                /\ engine[f] \in {"none", "coming"} => releases[f] = 0
                /\ f \in cancelling => engine[f] \in Adopted
                /\ stage # "down" /\ engine[f] \in {"asked", "writing"} => Held(f))'
    <3>1. CASE f = d
      BY <1>2, <1>5, <1>8, <3>1 DEF DownloadsInv, ReferencesOK
    <3>2. CASE f # d
      BY <1>2, <1>5, <1>8, <3>2 DEF DownloadsInv, ReferencesOK
    <3> QED BY <3>1, <3>2
  <2>2. (pen["webkit"].busy \/ inHand = {})'
    BY <1>5 DEF DownloadsInv, ReferencesOK
  <2> QED BY <2>1, <2>2 DEF ReferencesOK
<1>10. L!TypeOK'
  BY <1>1, <1>2, <1>5 DEF DownloadsInv, L!TypeOK
<1> QED BY <1>6, <1>7, <1>9, <1>10 DEF DownloadsInv

LEMMA TeardownStep ==
  ASSUME L!DownloadsAssumption, DownloadsInv, L!Teardown
  PROVE  DownloadsInv'
<1>1. /\ records \in Seq(Entry) /\ ~pen["webkit"].busy /\ inHand = {} /\ stage = "ending" /\ stage' = "down"
      /\ cancels' = <<>> /\ forced' = <<>> /\ UNCHANGED <<disk, engine, cancelling, runs, releases>>
      /\ L!ToWrite("webkit", records)
  BY DEF L!Teardown, DownloadsInv, L!TypeOK, Entry, L!WebKitRuns, ReferencesOK
<1>2. /\ records' \in Seq(Entry) /\ Len(records') = Len(records)
      /\ \A i \in 1..Len(records) : records'[i] = [dl |-> records[i].dl, state |-> records[i].state, held |-> FALSE]
  BY <1>1, LetGoProperties DEF L!Teardown
<1>3. \A i \in 1..Len(records) :
        /\ records'[i].dl = records[i].dl /\ records'[i].state = records[i].state /\ ~records'[i].held
        /\ L!Live(records[i]) <=> L!Live(records'[i])
  <2>1. ASSUME NEW i \in 1..Len(records)
        PROVE  records'[i].dl = records[i].dl /\ records'[i].state = records[i].state /\ ~records'[i].held
    <3>1. records'[i] = [dl |-> records[i].dl, state |-> records[i].state, held |-> FALSE]
      BY <1>2
    <3> QED BY <3>1
  <2> QED BY <2>1 DEF L!Live
<1>4. inHand' = {d \in Downloads : Held(d)}
  BY <1>1, ByPlace, SameLists DEF L!Teardown
<1>5. Follows
  <2>1. \A i \in 1..Len(records') : engine'[records'[i].dl] \notin {"none", "coming"}
    BY <1>1, <1>2, <1>3 DEF DownloadsInv, RecordsOK
  <2>2. Unique(records')
    BY <1>2, <1>3 DEF DownloadsInv, RecordsOK, Unique
  <2>3. \A w : OnPaper(w) => \A i \in 1..Len(records') : records'[i].dl = w.dl => records'[i].state = w.state
    BY <1>2, <1>3 DEF DownloadsInv, PaperOK
  <2> QED BY <1>1, <1>2, <2>1, <2>2, <2>3 DEF Follows
<1>6. L!Snapshot(records') = L!Snapshot(records)
  BY <1>1, <1>2, <1>3, SnapshotAlike
<1>7. /\ PaperOK' /\ HistoryOK'
      /\ pen' \in [L!Threads -> [busy : BOOLEAN, list : Seq(L!Written)]] /\ disturbed' \in BOOLEAN
  <2>1. "webkit" \in L!Threads /\ Unique(records)
    BY DEF L!Threads, DownloadsInv, RecordsOK
  <2>2. \A i \in 1..Len(records) : ~L!Live(records[i]) =>
          \E j \in 1..Len(records') : records'[j].dl = records[i].dl /\ records'[j].state = records[i].state
    BY <1>2, <1>3
  <2> QED BY <1>1, <1>5, <1>6, <2>1, <2>2, SnapshotTaken DEF DownloadsInv
<1>8. pen'["webkit"].busy
  BY <1>1 DEF L!ToWrite, DownloadsInv, L!TypeOK, L!Threads
<1>9. RecordsOK'
  BY <1>1, <1>2, <1>3, <1>5 DEF Follows, RecordsOK, Unique
<1>10. \A d \in Downloads : ~Held(d)'
  BY <1>2, <1>3 DEF Held
<1>11. ReferencesOK'
  <2>1. ASSUME NEW f \in Downloads
        PROVE  (/\ releases[f] <= 1
                /\ Held(f) => f \notin inHand
                /\ Held(f) \/ f \in inHand => engine[f] \in Adopted /\ releases[f] = 0
                /\ engine[f] \in Adopted => Held(f) \/ f \in inHand \/ releases[f] = 1
                /\ engine[f] \in {"none", "coming"} => releases[f] = 0
                /\ f \in cancelling => engine[f] \in Adopted
                /\ stage # "down" /\ engine[f] \in {"asked", "writing"} => Held(f))'
    BY <1>1, <1>4, <1>10 DEF DownloadsInv, ReferencesOK
  <2> QED BY <1>8, <2>1 DEF ReferencesOK
<1>12. L!TypeOK'
  <2>1. inHand' \subseteq Downloads
    BY <1>4
  <2>2. cancels' \in Seq(Downloads) /\ forced' \in Seq([url : URLs, late : BOOLEAN])
    BY <1>1
  <2> QED BY <1>1, <1>2, <1>7, <2>1, <2>2 DEF DownloadsInv, L!TypeOK, Entry
<1> QED BY <1>7, <1>9, <1>11, <1>12 DEF DownloadsInv

-----------------------------------------------------------------------------
(* The frame thread's steps.                                               *)

LEMMA CancelStep ==
  ASSUME L!DownloadsAssumption, DownloadsInv, NEW d \in Downloads, L!Cancel(d)
  PROVE  DownloadsInv'
<1>1. L!TypeOK'
  BY DEF DownloadsInv, L!TypeOK, L!Cancel
<1> QED BY <1>1, Aside DEF L!Cancel

LEMMA SaveLinkAsStep ==
  ASSUME L!DownloadsAssumption, DownloadsInv, NEW u \in URLs, L!SaveLinkAs(u)
  PROVE  DownloadsInv'
<1>1. L!TypeOK'
  BY DEF DownloadsInv, L!TypeOK, L!SaveLinkAs
<1> QED BY <1>1, Aside DEF L!SaveLinkAs

LEMMA ExpireStep ==
  ASSUME L!DownloadsAssumption, DownloadsInv, L!Expire
  PROVE  DownloadsInv'
<1>1. forced \in Seq(Ask)
  BY DEF DownloadsInv, L!TypeOK, Ask
<1>2. L!OldestStanding \in 1..Len(forced)
  BY <1>1, LateAsk DEF L!Expire
<1>3. forced' \in Seq(Ask)
  <2> DEFINE n == L!OldestStanding
             a == [forced[n] EXCEPT !.late = TRUE]
  <2>1. forced[n] \in Ask
    BY <1>1, <1>2
  <2>2. a \in Ask
    BY <2>1 DEF Ask
  <2>3. forced' = [forced EXCEPT ![n] = a]
    BY DEF L!Expire
  <2> HIDE DEF a
  <2> QED BY <1>1, <1>2, <2>2, <2>3
<1>4. L!TypeOK'
  BY <1>3 DEF DownloadsInv, L!TypeOK, L!Expire, Ask
<1> QED BY <1>4, Aside DEF L!Expire

LEMMA DownloadsEndStep ==
  ASSUME L!DownloadsAssumption, DownloadsInv, L!BeginShutdown
  PROVE  DownloadsInv'
<1>1. UNCHANGED <<records, cancels, forced, disk, pen, inHand, engine, cancelling, runs, releases, disturbed>>
  BY DEF L!BeginShutdown
<1>2. stage # "down" /\ stage' = "ending"
  BY DEF L!BeginShutdown, L!FrameRuns
<1>3. L!TypeOK'
  BY <1>1, <1>2 DEF DownloadsInv, L!TypeOK
<1>4. Follows /\ L!Snapshot(records') = L!Snapshot(records)
  BY <1>1, RecordsStay DEF DownloadsInv
<1>5. PaperOK' /\ HistoryOK'
  BY <1>1, <1>4, NothingWritten DEF DownloadsInv
<1>6. RecordsOK'
  BY <1>1, <1>2 DEF DownloadsInv, RecordsOK, Unique, L!Live
<1>7. ReferencesOK'
  BY <1>1, <1>2 DEF DownloadsInv, ReferencesOK, Held
<1> QED BY <1>3, <1>5, <1>6, <1>7 DEF DownloadsInv

\* What is forgotten has ended.
LEMMA ForgetStep ==
  ASSUME L!DownloadsAssumption, DownloadsInv, L!FrameRuns, NEW S, records' = Only(records, S), L!ToWrite("frame", records'),
         \A i \in 1..Len(records) : L!Live(records[i]) => records[i] \in S,
         UNCHANGED <<cancels, forced, disk, inHand, engine, cancelling, stage, runs, releases>>
  PROVE  DownloadsInv'
<1>1. records \in Seq(Entry) /\ ~pen["frame"].busy /\ Unique(records)
  BY DEF DownloadsInv, L!TypeOK, Entry, RecordsOK, L!FrameRuns
<1>2. /\ records' \in Seq(Entry) /\ Unique(records')
      /\ \A k \in 1..Len(records') : \E i \in 1..Len(records) : records'[k] = records[i]
      /\ \A i \in 1..Len(records) : records[i] \in S => \E k \in 1..Len(records') : records'[k] = records[i]
  <2> DEFINE less == Only(records, S)
  <2>1. /\ less \in Seq(Entry) /\ Unique(less)
        /\ \A k \in 1..Len(less) : \E i \in 1..Len(records) : records[i] \in S /\ less[k] = records[i]
        /\ \A i \in 1..Len(records) : records[i] \in S => \E k \in 1..Len(less) : less[k] = records[i]
    BY <1>1, LessProperties
  <2>2. records' = less
    OBVIOUS
  <2> HIDE DEF less
  <2> QED BY <2>1, <2>2
<1>3. Follows
  <2>1. \A k \in 1..Len(records') : engine'[records'[k].dl] \notin {"none", "coming"}
    BY <1>2 DEF DownloadsInv, RecordsOK
  <2>2. \A w : OnPaper(w) => \A k \in 1..Len(records') : records'[k].dl = w.dl => records'[k].state = w.state
    BY <1>2 DEF DownloadsInv, PaperOK
  <2> QED BY <1>2, <2>1, <2>2 DEF Follows
<1>4. /\ PaperOK' /\ HistoryOK'
      /\ pen' \in [L!Threads -> [busy : BOOLEAN, list : Seq(L!Written)]] /\ disturbed' \in BOOLEAN
  <2> DEFINE new == records'
  <2>1. "frame" \in L!Threads
    BY DEF L!Threads
  <2>2. new \in Seq(Entry) /\ L!ToWrite("frame", new) /\ L!Snapshot(records') = L!Snapshot(new) /\ Unique(new)
    BY <1>2
  <2>3. \A i \in 1..Len(new) : ~L!Live(new[i]) =>
          \E j \in 1..Len(records') : records'[j].dl = new[i].dl /\ records'[j].state = new[i].state
    OBVIOUS
  <2> HIDE DEF new
  <2> QED BY <1>1, <1>3, <2>1, <2>2, <2>3, SnapshotTaken DEF DownloadsInv
<1>5. pen'["webkit"].busy = pen["webkit"].busy
  BY DEF L!ToWrite, DownloadsInv, L!TypeOK, L!Threads
<1>6. RecordsOK'
  <2>1. ASSUME NEW k \in 1..Len(records')
        PROVE  /\ records'[k].held => L!Live(records'[k])
               /\ stage' # "down" /\ L!Live(records'[k]) => records'[k].held
    BY <1>2 DEF DownloadsInv, RecordsOK
  <2> QED BY <1>2, <1>3, <2>1 DEF RecordsOK, Follows, Unique, L!Live
<1>7. \A d \in Downloads : Held(d)' <=> Held(d)
  <2>1. ASSUME NEW d \in Downloads, Held(d) PROVE Held(d)'
    <3>1. PICK i \in 1..Len(records) : records[i].dl = d /\ records[i].held
      BY <2>1 DEF Held
    <3>2. records[i] \in S
      BY <3>1 DEF DownloadsInv, RecordsOK
    <3> QED BY <1>2, <3>1, <3>2 DEF Held
  <2>2. ASSUME NEW d \in Downloads, Held(d)' PROVE Held(d)
    BY <1>2, <2>2 DEF Held
  <2> QED BY <2>1, <2>2
<1>8. ReferencesOK'
  BY <1>5, <1>7, ReferencesStay DEF DownloadsInv
<1>9. L!TypeOK'
  BY <1>2, <1>4 DEF DownloadsInv, L!TypeOK, Entry
<1> QED BY <1>4, <1>6, <1>8, <1>9 DEF DownloadsInv

LEMMA RemoveRecordStep ==
  ASSUME L!DownloadsAssumption, DownloadsInv, NEW d \in Downloads, L!RemoveRecord(d)
  PROVE  DownloadsInv'
<1> DEFINE S == {r \in Range(records) : r.dl # d}
<1>1. records \in Seq(Entry)
  BY DEF DownloadsInv, L!TypeOK, Entry
<1>2. \A i \in 1..Len(records) : L!Live(records[i]) => records[i] \in S
  <2>1. \A i \in 1..Len(records) : records[i] \in Range(records)
    BY <1>1, Listed
  <2>2. ~\E i \in 1..Len(records) : records[i].dl = d /\ L!Live(records[i])
    BY <1>1, ByPlace DEF L!RemoveRecord
  <2> QED BY <2>1, <2>2
<1>3. /\ L!FrameRuns /\ records' = Only(records, S) /\ L!ToWrite("frame", records')
      /\ UNCHANGED <<cancels, forced, disk, inHand, engine, cancelling, stage, runs, releases>>
  BY SameLists DEF L!RemoveRecord
<1> HIDE DEF S
<1> QED BY <1>2, <1>3, ForgetStep

LEMMA ClearFinishedStep ==
  ASSUME L!DownloadsAssumption, DownloadsInv, L!ClearFinished
  PROVE  DownloadsInv'
<1> DEFINE S == {r \in Range(records) : L!Live(r)}
<1>1. records \in Seq(Entry)
  BY DEF DownloadsInv, L!TypeOK, Entry
<1>2. \A i \in 1..Len(records) : L!Live(records[i]) => records[i] \in S
  BY <1>1, Listed
<1>3. /\ L!FrameRuns /\ records' = Only(records, S) /\ L!ToWrite("frame", records')
      /\ UNCHANGED <<cancels, forced, disk, inHand, engine, cancelling, stage, runs, releases>>
  BY SameLists DEF L!ClearFinished
<1> HIDE DEF S
<1> QED BY <1>2, <1>3, ForgetStep

-----------------------------------------------------------------------------
(* The file and the end of the process.                                    *)

LEMMA WriteStep ==
  ASSUME L!DownloadsAssumption, DownloadsInv, NEW t \in L!Threads, NEW ok \in BOOLEAN, L!Write(t, ok)
  PROVE  DownloadsInv'
<1>1. /\ pen[t].busy /\ disk' = (IF ok THEN pen[t].list ELSE disk) /\ disturbed' = (disturbed \/ ~ok)
      /\ pen' = [pen EXCEPT ![t] = L!NoPen] /\ UNCHANGED <<records, cancels, forced, engine, cancelling, stage, runs>>
  BY DEF L!Write
<1>2. pen \in [L!Threads -> [busy : BOOLEAN, list : Seq(L!Written)]] /\ records \in Seq(Entry)
  BY DEF DownloadsInv, L!TypeOK, Entry
<1>3. /\ ~pen'[t].busy /\ pen'[t].list = <<>> /\ \A u \in L!Threads \ {t} : pen'[u] = pen[u]
      /\ pen' \in [L!Threads -> [busy : BOOLEAN, list : Seq(L!Written)]]
  <2>1. <<>> \in Seq(L!Written)
    OBVIOUS
  <2>2. ~L!NoPen.busy /\ L!NoPen.list = <<>> /\ L!NoPen \in [busy : BOOLEAN, list : Seq(L!Written)]
    BY <2>1 DEF L!NoPen
  <2> HIDE DEF L!NoPen
  <2> QED BY <1>1, <1>2, <2>2
<1>4. disk' \in Seq(L!Written) /\ Len(disk') <= HistoryLimit /\ Unique(disk') /\ disturbed' \in BOOLEAN
  <2>1. CASE ok
    BY <1>1, <1>2, <2>1 DEF DownloadsInv, L!TypeOK, PaperOK
  <2>2. CASE ~ok
    BY <1>1, <2>2 DEF DownloadsInv, L!TypeOK, PaperOK
  <2> QED BY <2>1, <2>2
<1>5. ASSUME NEW w, OnPaper(w)' PROVE OnPaper(w)
  <2>1. Range(<<>>) = {}
    BY EmptyRange
  <2> QED BY <1>1, <1>3, <1>5, <2>1 DEF OnPaper
<1>6. PaperOK'
  <2>1. \A u \in L!Threads : Unique(pen'[u].list) /\ Len(pen'[u].list) <= HistoryLimit
    <3>1. Unique(pen'[t].list) /\ Len(pen'[t].list) <= HistoryLimit
      BY <1>3 DEF Unique, L!DownloadsAssumption
    <3>2. \A u \in L!Threads \ {t} : Unique(pen'[u].list) /\ Len(pen'[u].list) <= HistoryLimit
      BY <1>3 DEF DownloadsInv, PaperOK
    <3> QED BY <3>1, <3>2
  <2>2. \A w : OnPaper(w)' =>
          /\ engine'[w.dl] \notin {"none", "coming"}
          /\ \A i \in 1..Len(records') : records'[i].dl = w.dl => records'[i].state = w.state
    BY <1>1, <1>5 DEF DownloadsInv, PaperOK
  <2> QED BY <1>4, <2>1, <2>2 DEF PaperOK, Unique
<1>7. HistoryOK'
  <2>1. L!Snapshot(records)' = L!Snapshot(records)
    BY <1>1 DEF L!Snapshot
  <2>2. ASSUME ~disturbed' PROVE /\ ~pen'["webkit"].busy /\ ~pen'["frame"].busy /\ disk' = L!Snapshot(records)
    <3>1. ~disturbed /\ ok
      BY <1>1, <2>2 DEF DownloadsInv, L!TypeOK
    <3>2. pen[t].list = L!Snapshot(records) /\ \A u \in L!Threads \ {t} : ~pen[u].busy
      BY <1>1, <3>1 DEF DownloadsInv, HistoryOK, L!Threads
    <3> QED BY <1>1, <1>3, <3>1, <3>2 DEF L!Threads
  <2> QED BY <2>1, <2>2 DEF HistoryOK, L!Threads
<1>8. RecordsOK'
  BY <1>1 DEF DownloadsInv, RecordsOK, Unique, L!Live
<1>9. \A d \in Downloads : Held(d)' <=> Held(d)
  BY <1>1 DEF Held
<1>10. CASE t = "webkit"
  <2>1. /\ inHand' = {} /\ releases' = [d \in Downloads |-> IF d \in inHand THEN releases[d] + 1 ELSE releases[d]]
    BY <1>10 DEF L!Write
  <2>2. releases \in [Downloads -> Nat]
    BY DEF DownloadsInv, L!TypeOK
  <2>3. ASSUME NEW d \in Downloads
        PROVE  (/\ releases[d] <= 1
                /\ Held(d) => d \notin inHand
                /\ Held(d) \/ d \in inHand => engine[d] \in Adopted /\ releases[d] = 0
                /\ engine[d] \in Adopted => Held(d) \/ d \in inHand \/ releases[d] = 1
                /\ engine[d] \in {"none", "coming"} => releases[d] = 0
                /\ d \in cancelling => engine[d] \in Adopted
                /\ stage # "down" /\ engine[d] \in {"asked", "writing"} => Held(d))'
    <3>1. releases'[d] = IF d \in inHand THEN releases[d] + 1 ELSE releases[d]
      BY <2>1
    <3> QED BY <1>1, <1>9, <2>1, <2>2, <3>1 DEF DownloadsInv, ReferencesOK, Adopted
  <2>4. ReferencesOK'
    BY <2>1, <2>3 DEF ReferencesOK
  <2>5. releases' \in [Downloads -> Nat]
    BY <2>1, <2>2
  <2>6. L!TypeOK'
    BY <1>1, <1>3, <1>4, <2>1, <2>5 DEF DownloadsInv, L!TypeOK
  <2> QED BY <1>6, <1>7, <1>8, <2>4, <2>6 DEF DownloadsInv
<1>11. CASE t # "webkit"
  <2>1. UNCHANGED <<inHand, releases>>
    BY <1>11 DEF L!Write
  <2>2. pen'["webkit"].busy = pen["webkit"].busy
    BY <1>3, <1>11 DEF L!Threads
  <2>3. ReferencesOK'
    BY <1>1, <1>9, <2>1, <2>2, ReferencesStay DEF DownloadsInv
  <2>4. L!TypeOK'
    BY <1>1, <1>3, <1>4, <2>1 DEF DownloadsInv, L!TypeOK
  <2> QED BY <1>6, <1>7, <1>8, <2>3, <2>4 DEF DownloadsInv
<1> QED BY <1>10, <1>11

LEMMA RestartStep ==
  ASSUME L!DownloadsAssumption, DownloadsInv, NEW killed \in BOOLEAN, L!Restart(killed)
  PROVE  DownloadsInv'
<1>1. /\ runs < MaxRuns /\ runs' = runs + 1 /\ stage' = "up" /\ records' = L!Loaded(disk)
      /\ engine' = [d \in Downloads |-> IF engine[d] = "none" THEN "none" ELSE "past"]
      /\ cancels' = <<>> /\ forced' = <<>> /\ inHand' = {} /\ cancelling' = {}
      /\ pen' = [t \in L!Threads |-> L!NoPen] /\ disturbed' = FALSE /\ UNCHANGED <<disk, releases>>
  BY DEF L!Restart
<1>2. disk \in Seq(L!Written) /\ Len(disk) <= HistoryLimit /\ Unique(disk)
  BY DEF DownloadsInv, L!TypeOK, PaperOK
<1>3. /\ records' \in Seq(Entry) /\ Len(records') = Len(disk) /\ L!Snapshot(records') = disk
      /\ \A i \in 1..Len(disk) : records'[i] = [dl |-> disk[i].dl, state |-> disk[i].state, held |-> FALSE]
  BY <1>1, <1>2, LoadedProperties
<1>4. ASSUME NEW i \in 1..Len(disk)
      PROVE  /\ records'[i].dl = disk[i].dl /\ records'[i].state = disk[i].state /\ ~records'[i].held
             /\ ~L!Live(records'[i]) /\ disk[i].dl \in Downloads /\ engine[disk[i].dl] \notin {"none", "coming"}
  <2>1. records'[i] = [dl |-> disk[i].dl, state |-> disk[i].state, held |-> FALSE]
    BY <1>3
  <2>2. records'[i].dl = disk[i].dl /\ records'[i].state = disk[i].state /\ ~records'[i].held
    BY <2>1
  <2>3. disk[i] \in L!Written /\ OnPaper(disk[i])
    BY <1>2, Listed DEF OnPaper
  <2>4. disk[i].state \in L!Ends /\ disk[i].dl \in Downloads
    BY <2>3 DEF L!Written
  <2> QED BY <2>2, <2>3, <2>4 DEF L!Live, DownloadsInv, PaperOK
<1>5. ~L!NoPen.busy /\ L!NoPen.list = <<>> /\ L!NoPen \in [busy : BOOLEAN, list : Seq(L!Written)]
  <2>1. <<>> \in Seq(L!Written)
    OBVIOUS
  <2> QED BY <2>1 DEF L!NoPen
<1>6. \A t \in L!Threads : pen'[t] = L!NoPen
  BY <1>1
<1>7. \A d \in Downloads : /\ engine[d] = "none" => engine'[d] = "none"
                           /\ engine[d] # "none" => engine'[d] = "past"
  BY <1>1
<1>8. Unique(records')
  BY <1>2, <1>3, <1>4 DEF Unique
<1>9. RecordsOK'
  <2>1. ASSUME NEW i \in 1..Len(records')
        PROVE  /\ engine'[records'[i].dl] \notin {"none", "coming"}
               /\ records'[i].held => L!Live(records'[i])
               /\ stage' # "down" /\ L!Live(records'[i]) => records'[i].held
    BY <1>3, <1>4, <1>7
  <2> QED BY <1>8, <2>1 DEF RecordsOK, Unique, L!Live
<1>10. PaperOK'
  <2> HIDE DEF L!NoPen
  <2>1. ASSUME NEW w, OnPaper(w)' PROVE w \in Range(disk)
    <3>1. Range(<<>>) = {}
      BY EmptyRange
    <3> QED BY <1>1, <1>5, <1>6, <2>1, <3>1 DEF OnPaper
  <2>2. ASSUME NEW w, OnPaper(w)'
        PROVE  /\ engine'[w.dl] \notin {"none", "coming"}
               /\ \A i \in 1..Len(records') : records'[i].dl = w.dl => records'[i].state = w.state
    <3>1. PICK k \in 1..Len(disk) : disk[k] = w
      BY <1>2, <2>1, <2>2, Listed
    <3>2. engine'[w.dl] \notin {"none", "coming"}
      BY <1>4, <1>7, <3>1
    <3>3. ASSUME NEW i \in 1..Len(records'), records'[i].dl = w.dl PROVE records'[i].state = w.state
      <4>1. disk[i].dl = disk[k].dl
        BY <1>3, <1>4, <3>1, <3>3
      <4>2. i = k
        BY <1>2, <1>3, <4>1 DEF Unique
      <4> QED BY <1>4, <3>1, <4>2
    <3> QED BY <3>2, <3>3
  <2>3. \A t \in L!Threads : Unique(pen'[t].list) /\ Len(pen'[t].list) <= HistoryLimit
    BY <1>5, <1>6 DEF Unique, L!DownloadsAssumption
  <2>4. Unique(disk')
    BY <1>1, <1>2
  <2> QED BY <2>2, <2>3, <2>4 DEF PaperOK, Unique
<1>11. HistoryOK'
  <2>1. L!Snapshot(records)' = disk'
    BY <1>1, <1>3 DEF L!Snapshot
  <2> QED BY <1>5, <1>6, <2>1 DEF HistoryOK, L!Threads
<1>12. \A d \in Downloads : ~Held(d)'
  BY <1>3, <1>4 DEF Held
<1>13. ReferencesOK'
  <2>1. ASSUME NEW d \in Downloads
        PROVE  (/\ releases[d] <= 1
                /\ Held(d) => d \notin inHand
                /\ Held(d) \/ d \in inHand => engine[d] \in Adopted /\ releases[d] = 0
                /\ engine[d] \in Adopted => Held(d) \/ d \in inHand \/ releases[d] = 1
                /\ engine[d] \in {"none", "coming"} => releases[d] = 0
                /\ d \in cancelling => engine[d] \in Adopted
                /\ stage # "down" /\ engine[d] \in {"asked", "writing"} => Held(d))'
    BY <1>1, <1>7, <1>12 DEF DownloadsInv, ReferencesOK, Adopted
  <2> QED BY <1>1, <2>1 DEF ReferencesOK
<1>14. L!TypeOK'
  <2>1. /\ cancels' \in Seq(Downloads) /\ forced' \in Seq([url : URLs, late : BOOLEAN])
        /\ pen' \in [L!Threads -> [busy : BOOLEAN, list : Seq(L!Written)]]
    BY <1>1, <1>5
  <2>2. engine' \in [Downloads -> L!EngineStates] /\ runs' \in 1..MaxRuns
    BY <1>1 DEF L!EngineStates, DownloadsInv, L!TypeOK, L!DownloadsAssumption
  <2> QED BY <1>1, <1>2, <1>3, <2>1, <2>2 DEF DownloadsInv, L!TypeOK, Entry
<1> QED BY <1>9, <1>10, <1>11, <1>13, <1>14 DEF DownloadsInv

LEMMA DownloadsNextInv == L!DownloadsAssumption /\ DownloadsInv /\ [L!Next]_(L!vars) => DownloadsInv'
<1> SUFFICES ASSUME L!DownloadsAssumption, DownloadsInv, [L!Next]_(L!vars) PROVE DownloadsInv'
  OBVIOUS
<1>1. CASE L!EngineStep
  <2>1. PICK d \in Downloads :
          \/ \E u \in URLs, kind \in L!Loads : L!Policy(u, d, kind)
          \/ L!Adopt(d) \/ L!DecideDestination(d) \/ L!RefuseDestination(d) \/ (\E s \in L!Ends : L!Over(d, s)) \/ L!DidCancel(d)
    BY <1>1 DEF L!EngineStep
  <2> QED BY <2>1, PolicyStep, AdoptStep, DecideDestinationStep, RefuseDestinationStep, OverStep, DidCancelStep
<1>2. CASE L!FrameStep
  BY <1>2, CancelStep, RemoveRecordStep, ClearFinishedStep, SaveLinkAsStep, DownloadsEndStep DEF L!FrameStep
<1>3. CASE \E t \in L!Threads, ok \in BOOLEAN : L!Write(t, ok)
  BY <1>3, WriteStep
<1>4. CASE \E killed \in BOOLEAN : L!Restart(killed)
  BY <1>4, RestartStep
<1>5. CASE UNCHANGED L!vars
  <2>1. UNCHANGED <<records, cancels, forced, disk, pen, inHand, engine, cancelling, stage, runs, releases, disturbed>>
    BY <1>5 DEF L!vars
  <2>2. L!TypeOK'
    BY <2>1 DEF DownloadsInv, L!TypeOK
  <2> QED BY <2>1, <2>2, Aside
<1> QED BY <1>1, <1>2, <1>3, <1>4, <1>5, PumpStep, TeardownStep, ExpireStep DEF L!Next

LEMMA AlwaysDownloadsInv == L!DownloadsAssumption => (L!Spec => []DownloadsInv)
<1> SUFFICES ASSUME L!DownloadsAssumption PROVE L!Spec => []DownloadsInv
  OBVIOUS
<1>1. DownloadsInv /\ [L!Next]_(L!vars) => DownloadsInv'
  BY DownloadsNextInv
<1>2. L!Init => DownloadsInv
  BY DownloadsInitInv
<1> QED BY <1>1, <1>2, PTL DEF L!Spec

-----------------------------------------------------------------------------
(* What the runs check.                                                    *)

\* How many records hold a reference to a download: one or none.
LEMMA HoldersAre ==
  ASSUME DownloadsInv, NEW d
  PROVE  L!Holders(d) = (IF Held(d) THEN 1 ELSE 0) + (IF d \in inHand THEN 1 ELSE 0)
<1> DEFINE at == {i \in 1..Len(records) : records[i].dl = d /\ records[i].held}
<1>1. CASE Held(d)
  <2>1. PICK n \in 1..Len(records) : records[n].dl = d /\ records[n].held
    BY <1>1 DEF Held
  <2>2. at = {n}
    BY <2>1 DEF DownloadsInv, RecordsOK, Unique
  <2> QED BY <1>1, <2>2, FS_Singleton, SameLists DEF L!Holders
<1>2. CASE ~Held(d)
  <2>1. at = {}
    BY <1>2 DEF Held
  <2> QED BY <1>2, <2>1, FS_EmptySet, SameLists DEF L!Holders
<1> QED BY <1>1, <1>2

\* For any number of downloads, runs and entries of the history: the file and what goes
\* into it hold ended downloads only; the reference of a download is held in one place
\* and released once; what WebKit writes is a live record of the list; and once nothing
\* waits to be written the file holds what has ended, unless the two threads wrote at once
\* or a write failed (downloads_model.cpp:250-356).
THEOREM DownloadsAreConsistent == L!DownloadsAssumption => (L!Spec => []L!DownloadsConsistent)
<1> SUFFICES ASSUME L!DownloadsAssumption PROVE L!Spec => []L!DownloadsConsistent
  OBVIOUS
<1>1. ASSUME DownloadsInv PROVE L!DownloadsConsistent
  <2>1. L!ReleasedOnce
    <3>1. ASSUME NEW d \in Downloads
          PROVE  IF engine[d] \in {"asked", "writing", "refused", "over"} THEN releases[d] + L!Holders(d) = 1
                 ELSE L!Holders(d) = 0 /\ releases[d] <= 1
      <4>1. L!Holders(d) = (IF Held(d) THEN 1 ELSE 0) + (IF d \in inHand THEN 1 ELSE 0) /\ releases[d] \in Nat
        BY <1>1, HoldersAre DEF DownloadsInv, L!TypeOK
      <4> QED BY <1>1, <4>1 DEF DownloadsInv, ReferencesOK, Adopted
    <3> QED BY <3>1 DEF L!ReleasedOnce
  <2>2. L!WrittenIsWatched
    <3>1. ASSUME NEW d \in Downloads, engine[d] = "writing", stage # "down" PROVE L!IsLive(d)
      <4>1. PICK i \in 1..Len(records) : records[i].dl = d /\ records[i].held
        BY <1>1, <3>1 DEF DownloadsInv, ReferencesOK, Held
      <4>2. L!Live(records[i])
        BY <1>1, <4>1 DEF DownloadsInv, RecordsOK
      <4>3. records \in Seq(Entry)
        BY <1>1 DEF DownloadsInv, L!TypeOK, Entry
      <4> QED BY <4>1, <4>2, <4>3, ByPlace
    <3> QED BY <3>1 DEF L!WrittenIsWatched
  <2>3. L!HistoryIsCurrent
    BY <1>1 DEF DownloadsInv, HistoryOK, L!HistoryIsCurrent
  <2> QED BY <1>1, <2>1, <2>2, <2>3 DEF DownloadsInv, L!DownloadsConsistent
<1>2. L!Spec => []DownloadsInv
  BY AlwaysDownloadsInv
<1>3. DownloadsInv => L!DownloadsConsistent
  BY <1>1
<1> QED BY <1>2, <1>3, PTL

-----------------------------------------------------------------------------
(* The end a download came to.                                             *)

\* Every record that is there after a step is of a download that was not listed, or
\* follows a record of it from before, with the end that one had.
EndsFollow ==
  \A j \in 1..Len(records') :
    \/ \A i \in 1..Len(records) : records[i].dl # records'[j].dl
    \/ \E i \in 1..Len(records) : /\ records[i].dl = records'[j].dl
                                  /\ ~L!Live(records[i]) => records'[j].state = records[i].state

LEMMA FinishKeepsEnds ==
  ASSUME DownloadsInv, NEW d \in Downloads, NEW s \in L!Ends, L!Finish(d, s)
  PROVE  EndsFollow
<1>1. records \in Seq(Entry)
  BY DEF DownloadsInv, L!TypeOK, Entry
<1>2. CASE ~L!IsLive(d)
  <2>1. records' = records
    BY <1>2 DEF L!Finish
  <2> QED BY <2>1 DEF EndsFollow
<1>3. CASE L!IsLive(d)
  <2>1. records' = L!Ended(d, s)
    BY <1>3 DEF L!Finish
  <2>2. /\ Len(records') = Len(records)
        /\ \A i \in 1..Len(records) :
             records'[i] = IF records[i].dl = d THEN [dl |-> d, state |-> s, held |-> FALSE] ELSE records[i]
    BY <1>1, <2>1, EndedProperties
  <2>3. PICK n \in 1..Len(records) : records[n].dl = d /\ L!Live(records[n])
    BY <1>1, <1>3, ByPlace
  <2>4. ASSUME NEW i \in 1..Len(records)
        PROVE  records[i].dl = records'[i].dl /\ (~L!Live(records[i]) => records'[i].state = records[i].state)
    <3>1. records[i].dl = d => i = n
      BY <2>3 DEF DownloadsInv, RecordsOK, Unique
    <3> QED BY <2>2, <2>3, <3>1
  <2> QED BY <2>2, <2>4 DEF EndsFollow
<1> QED BY <1>2, <1>3

LEMMA ForgettingKeepsEnds ==
  ASSUME DownloadsInv, NEW S, records' = Only(records, S)
  PROVE  EndsFollow
<1>1. records \in Seq(Entry)
  BY DEF DownloadsInv, L!TypeOK, Entry
<1>2. \A j \in 1..Len(records') : \E i \in 1..Len(records) : records'[j] = records[i]
  BY <1>1, LessProperties
<1> QED BY <1>2 DEF EndsFollow

LEMMA EndsStep ==
  ASSUME L!DownloadsAssumption, DownloadsInv, L!Next
  PROVE  EndsFollow
<1>1. records \in Seq(Entry)
  BY DEF DownloadsInv, L!TypeOK, Entry
<1>2. CASE records' = records
  BY <1>2 DEF EndsFollow
<1>3. CASE L!EngineStep
  <2>1. PICK d \in Downloads :
          \/ \E u \in URLs, kind \in L!Loads : L!Policy(u, d, kind)
          \/ L!Adopt(d) \/ L!DecideDestination(d) \/ L!RefuseDestination(d) \/ (\E s \in L!Ends : L!Over(d, s)) \/ L!DidCancel(d)
    BY <1>3 DEF L!EngineStep
  <2>2. CASE \E u \in URLs, kind \in L!Loads : L!Policy(u, d, kind)
    BY <1>2, <2>2 DEF L!Policy
  <2>3. CASE L!Adopt(d)
    <3> DEFINE r == [dl |-> d, state |-> "starting", held |-> TRUE]
    <3>1. records' = <<r>> \o records /\ r.dl = d /\ r \in Entry /\ engine[d] = "coming"
      BY <2>3 DEF L!Adopt, L!Added, Entry, L!States
    <3>2. \A i \in 1..Len(records) : records[i].dl # d
      BY <3>1 DEF DownloadsInv, RecordsOK
    <3> HIDE DEF r
    <3>3. ASSUME NEW j \in 1..Len(records'), j # 1 PROVE \E i \in 1..Len(records) : records'[j] = records[i]
      <4>1. j - 1 \in 1..Len(records) /\ records'[j] = records[j - 1]
        BY <1>1, <3>1, <3>3
      <4> QED BY <4>1
    <3>4. records'[1] = r
      BY <1>1, <3>1
    <3>5. ASSUME NEW j \in 1..Len(records')
          PROVE  \/ \A i \in 1..Len(records) : records[i].dl # records'[j].dl
                 \/ \E i \in 1..Len(records) : /\ records[i].dl = records'[j].dl
                                               /\ ~L!Live(records[i]) => records'[j].state = records[i].state
      <4>1. CASE j = 1
        BY <3>1, <3>2, <3>4, <4>1
      <4>2. CASE j # 1
        BY <3>3, <4>2
      <4> QED BY <4>1, <4>2
    <3> QED BY <3>5 DEF EndsFollow
  <2>4. CASE L!DecideDestination(d)
    <3>1. records' = L!WithDestination(d)
      BY <2>4 DEF L!DecideDestination
    <3>2. /\ Len(records') = Len(records)
          /\ \A i \in 1..Len(records) : /\ records'[i].dl = records[i].dl
                                        /\ ~L!Live(records[i]) => records'[i] = records[i]
      BY <1>1, <3>1, WithDestinationProperties
    <3> QED BY <3>2 DEF EndsFollow
  <2>5. CASE L!RefuseDestination(d)
    BY <2>5, FinishKeepsEnds DEF L!RefuseDestination, L!Ends
  <2>6. CASE \E s \in L!Ends : L!Over(d, s)
    BY <2>6, FinishKeepsEnds DEF L!Over
  <2>7. CASE L!DidCancel(d)
    BY <2>7, FinishKeepsEnds DEF L!DidCancel, L!Ends
  <2> QED BY <2>1, <2>2, <2>3, <2>4, <2>5, <2>6, <2>7
<1>4. CASE L!Pump
  <2>1. records' = records \/ L!Finish(Head(cancels), "cancelled")
    BY <1>4 DEF L!Pump
  <2>2. Head(cancels) \in Downloads
    BY <1>4 DEF L!Pump, DownloadsInv, L!TypeOK
  <2> QED BY <1>2, <2>1, <2>2, FinishKeepsEnds DEF L!Ends
<1>5. CASE L!Teardown
  <2>1. /\ Len(records') = Len(records)
        /\ \A i \in 1..Len(records) : records'[i] = [dl |-> records[i].dl, state |-> records[i].state, held |-> FALSE]
    BY <1>1, <1>5, LetGoProperties DEF L!Teardown
  <2>2. ASSUME NEW i \in 1..Len(records) PROVE records'[i].dl = records[i].dl /\ records'[i].state = records[i].state
    <3>1. records'[i] = [dl |-> records[i].dl, state |-> records[i].state, held |-> FALSE]
      BY <2>1
    <3> QED BY <3>1
  <2> QED BY <2>1, <2>2 DEF EndsFollow
<1>6. CASE L!FrameStep
  <2>1. CASE \E d \in Downloads : L!RemoveRecord(d)
    BY <2>1, ForgettingKeepsEnds, SameLists DEF L!RemoveRecord
  <2>2. CASE L!ClearFinished
    BY <2>2, ForgettingKeepsEnds, SameLists DEF L!ClearFinished
  <2> QED BY <1>2, <1>6, <2>1, <2>2 DEF L!FrameStep, L!Cancel, L!SaveLinkAs, L!BeginShutdown
<1>7. CASE \E killed \in BOOLEAN : L!Restart(killed)
  <2>1. records' = L!Loaded(disk) /\ disk \in Seq(L!Written) /\ Len(disk) <= HistoryLimit
    BY <1>7 DEF L!Restart, DownloadsInv, L!TypeOK
  <2>2. /\ Len(records') = Len(disk)
        /\ \A i \in 1..Len(disk) : records'[i] = [dl |-> disk[i].dl, state |-> disk[i].state, held |-> FALSE]
    BY <2>1, LoadedProperties
  <2>3. ASSUME NEW j \in 1..Len(records'), NEW i \in 1..Len(records), records[i].dl = records'[j].dl
        PROVE  records'[j].state = records[i].state
    <3>1. records'[j] = [dl |-> disk[j].dl, state |-> disk[j].state, held |-> FALSE] /\ j \in 1..Len(disk)
      BY <2>2
    <3>2. records'[j].dl = disk[j].dl /\ records'[j].state = disk[j].state
      BY <3>1
    <3>3. OnPaper(disk[j])
      BY <2>1, <3>1, Listed DEF OnPaper
    <3> QED BY <2>3, <3>2, <3>3 DEF DownloadsInv, PaperOK
  <2> QED BY <2>3 DEF EndsFollow
<1>8. CASE \E t \in L!Threads, ok \in BOOLEAN : L!Write(t, ok)
  BY <1>2, <1>8 DEF L!Write
<1>9. CASE L!Expire
  BY <1>2, <1>9 DEF L!Expire
<1> QED BY <1>3, <1>4, <1>5, <1>6, <1>7, <1>8, <1>9 DEF L!Next

\* A download that has ended keeps the end it came to, whatever is heard of it later and
\* whatever process reads the history: for any number of downloads and runs
\* (downloads_model.cpp:272-299).
THEOREM EndsAreFinal == L!DownloadsAssumption => (L!Spec => L!EndedStaysEnded)
<1> DEFINE Kept == \A r \in L!Range(records) : \A n \in L!Range(records') : (r.dl = n.dl /\ ~L!Live(r)) => n.state = r.state
<1> SUFFICES ASSUME L!DownloadsAssumption PROVE L!Spec => [][Kept]_(L!vars)
  BY DEF L!EndedStaysEnded
<1>1. ASSUME DownloadsInv, DownloadsInv', [L!Next]_(L!vars) PROVE [Kept]_(L!vars)
  <2>1. SUFFICES ASSUME L!Next, NEW r \in Range(records), NEW n \in Range(records'), r.dl = n.dl, ~L!Live(r)
                 PROVE  n.state = r.state
    BY <1>1, SameLists
  <2>2. records \in Seq(Entry) /\ records' \in Seq(Entry)
    BY <1>1 DEF DownloadsInv, L!TypeOK, Entry
  <2>3. PICK i \in 1..Len(records) : records[i] = r
    BY <2>2, Listed
  <2>4. PICK j \in 1..Len(records') : records'[j] = n
    BY <2>2, Listed
  <2>5. PICK k \in 1..Len(records) : records[k].dl = n.dl /\ (~L!Live(records[k]) => n.state = records[k].state)
    BY <1>1, <2>1, <2>3, <2>4, EndsStep DEF EndsFollow
  <2>6. k = i
    BY <1>1, <2>1, <2>3, <2>5 DEF DownloadsInv, RecordsOK, Unique
  <2> QED BY <2>1, <2>3, <2>5, <2>6
<1>2. L!Spec => []DownloadsInv
  BY AlwaysDownloadsInv
<1> QED BY <1>1, <1>2, PTL DEF L!Spec

-----------------------------------------------------------------------------
(* The asks.                                                               *)

\* How many asks for u stand in a list.
StandingIn(list, u) == Len(Only(list, {[url |-> u, late |-> FALSE]}))

LEMMA StandingJoins ==
  ASSUME NEW left \in Seq(Ask), NEW right \in Seq(Ask), NEW u
  PROVE  /\ StandingIn(left, u) \in Nat
         /\ StandingIn(left \o right, u) = StandingIn(left, u) + StandingIn(right, u)
<1> DEFINE S == {[url |-> u, late |-> FALSE]}
<1> HIDE DEF S
<1>1. Only(left, S) \in Seq(Ask) /\ Only(right, S) \in Seq(Ask)
  BY OnlyProperties
<1>2. Only(left \o right, S) = Only(left, S) \o Only(right, S)
  BY OnlyJoins
<1>3. Len(Only(left, S)) \in Nat /\ Len(Only(left \o right, S)) = Len(Only(left, S)) + Len(Only(right, S))
  BY <1>1, <1>2
<1> QED BY <1>3 DEF StandingIn, S

LEMMA StandingOfOne ==
  ASSUME NEW a \in Ask, NEW u
  PROVE  /\ StandingIn(<<a>>, u) \in {0, 1}
         /\ a.url # u => StandingIn(<<a>>, u) = 0
<1> DEFINE S == {[url |-> u, late |-> FALSE]}
           none == <<>>
           one == <<a>>
<1>1. Len(none) = 0 /\ Len(one) = 1
  OBVIOUS
<1>2. a \in S => a.url = u
  OBVIOUS
<1>3. Only(<<a>>, S) = IF a \in S THEN one ELSE none
  <2> HIDE DEF S
  <2> QED BY OnlyOne
<1> HIDE DEF S, none, one
<1>4. Len(Only(<<a>>, S)) \in {0, 1} /\ (a.url # u => Len(Only(<<a>>, S)) = 0)
  BY <1>1, <1>2, <1>3
<1> QED BY <1>4 DEF StandingIn, S

\* What a load leaves of the asks: all of those for other addresses that stand, and at
\* most one less for its own.
LEMMA StandingLeft ==
  ASSUME forced \in Seq(Ask), NEW u, NEW w
  PROVE  /\ StandingIn(forced, w) \in Nat /\ StandingIn(L!AsksLeft(u), w) \in Nat
         /\ w # u => StandingIn(L!AsksLeft(u), w) = StandingIn(forced, w)
         /\ StandingIn(L!AsksLeft(u), u) \in {StandingIn(forced, u), StandingIn(forced, u) - 1}
         /\ StandingIn(L!AsksLeft(u), u) # StandingIn(forced, u) => L!Asked(u)
<1> DEFINE rest == L!Without(u)
           N == {a \in Range(rest) : ~a.late}
           M == {a \in Ask : ~a.late}
<1>1. rest \in Seq(Ask) /\ L!AsksLeft(u) \in Seq(Ask) /\ L!AsksLeft(u) = Only(rest, N)
  BY AsksLeftType, SameLists DEF L!AsksLeft
<1>2. \A a \in Range(rest) : a \in N <=> a \in M
  <2>1. \A a \in Range(rest) : a \in Ask
    BY <1>1, Listed
  <2> QED BY <2>1
<1>3. L!AsksLeft(u) = Only(rest, M)
  <2> HIDE DEF rest, N, M
  <2> QED BY <1>1, <1>2, OnlySame
<1>4. ASSUME NEW v PROVE StandingIn(L!AsksLeft(u), v) = StandingIn(rest, v)
  <2> DEFINE S == {[url |-> v, late |-> FALSE]}
  <2>1. CASE v \in URLs
    <3>1. S \subseteq M
      BY <2>1 DEF Ask
    <3> HIDE DEF S, M, rest
    <3>2. Only(Only(rest, M), S) = Only(rest, S)
      BY <1>1, <3>1, OnlyTwice
    <3> QED BY <1>3, <3>2 DEF StandingIn, S
  <2>2. CASE v \notin URLs
    <3>1. \A a \in Ask : a \notin S
      BY <2>2 DEF Ask
    <3>2. ASSUME NEW list \in Seq(Ask) PROVE Only(list, S) = <<>>
      <4>1. /\ Only(list, S) \in Seq(Ask)
            /\ \A k \in 1..Len(Only(list, S)) : Only(list, S)[k] \in S /\ Only(list, S)[k] \in Range(list)
        BY OnlyProperties
      <4>2. \A a \in Range(list) : a \in Ask
        BY Listed
      <4> DEFINE few == Only(list, S)
      <4> HIDE DEF few, S
      <4>3. few \in Seq(Ask) /\ \A k \in 1..Len(few) : few[k] \in S /\ few[k] \in Ask
        BY <4>1, <4>2 DEF few
      <4>4. Len(few) = 0
        BY <3>1, <4>3
      <4>5. few = <<>>
        BY <4>3, <4>4
      <4> QED BY <4>5 DEF few
    <3>3. Only(L!AsksLeft(u), S) = Only(rest, S)
      <4> HIDE DEF S, rest
      <4> QED BY <1>1, <3>2
    <3> QED BY <3>3 DEF StandingIn
  <2> QED BY <2>1, <2>2
<1>5. \A list \in Seq(Ask) : \A v : StandingIn(list, v) \in Nat
  BY StandingJoins
<1>6. CASE L!FirstFor(u) = 0
  BY <1>1, <1>4, <1>5, <1>6 DEF L!Without
<1>7. CASE L!FirstFor(u) # 0
  <2> DEFINE n == L!FirstFor(u)
             front == Before(forced, n)
             back == Behind(forced, n)
  <2>1. n \in 1..Len(forced) /\ forced[n].url = u
    BY <1>7, FirstAsk
  <2> HIDE DEF n
  <2>2. /\ front \in Seq(Ask) /\ back \in Seq(Ask) /\ forced[n] \in Ask
        /\ forced = (front \o <<forced[n]>>) \o back
        /\ RemoveAt(forced, n) = front \o back
    BY <2>1, WithoutOne
  <2>3. rest = front \o back
    BY <1>7, <2>2, SameLists DEF L!Without, n
  <2>4. L!Asked(u)
    <3>1. forced[n] \in Range(forced)
      BY <2>1, Listed
    <3> QED BY <2>1, <3>1, SameLists DEF L!Asked
  <2> DEFINE one == <<forced[n]>>
  <2>5. one \in Seq(Ask) /\ front \o one \in Seq(Ask)
    BY <2>2
  <2> HIDE DEF front, back, rest
  <2>6. ASSUME NEW v
        PROVE  /\ StandingIn(rest, v) = StandingIn(front, v) + StandingIn(back, v)
               /\ StandingIn(forced, v) = (StandingIn(front, v) + StandingIn(one, v)) + StandingIn(back, v)
               /\ StandingIn(one, v) \in {0, 1} /\ (v # u => StandingIn(one, v) = 0)
    <3>1. StandingIn(rest, v) = StandingIn(front, v) + StandingIn(back, v)
      BY <2>2, <2>3, StandingJoins
    <3>2. StandingIn(front \o one, v) = StandingIn(front, v) + StandingIn(one, v)
      BY <2>2, <2>5, StandingJoins
    <3>3. StandingIn((front \o one) \o back, v) = StandingIn(front \o one, v) + StandingIn(back, v)
      <4> DEFINE both == front \o one
      <4>1. both \in Seq(Ask)
        BY <2>5
      <4> HIDE DEF both, one
      <4>2. StandingIn(both \o back, v) = StandingIn(both, v) + StandingIn(back, v)
        BY <2>2, <4>1, StandingJoins
      <4> QED BY <4>2 DEF both
    <3>4. StandingIn(one, v) \in {0, 1} /\ (v # u => StandingIn(one, v) = 0)
      BY <2>1, <2>2, StandingOfOne
    <3> QED BY <2>2, <3>1, <3>2, <3>3, <3>4
  <2> HIDE DEF one
  <2>7. \A v : StandingIn(front, v) \in Nat /\ StandingIn(back, v) \in Nat
    BY <1>5, <2>2
  <2>8. \A v : StandingIn(L!AsksLeft(u), v) = StandingIn(front, v) + StandingIn(back, v)
    BY <1>4, <2>6
  <2> QED BY <2>4, <2>6, <2>7, <2>8
<1> QED BY <1>6, <1>7

LEMMA AskKeptStep ==
  ASSUME L!DownloadsAssumption, DownloadsInv, L!Next, NEW u \in URLs, StandingIn(forced', u) < StandingIn(forced, u)
  PROVE  \/ stage' # stage \/ runs' # runs \/ L!TimePasses
         \/ /\ \E d \in Downloads : engine[d] = "none" /\ engine'[d] = "coming"
            /\ StandingIn(forced', u) = StandingIn(forced, u) - 1
            /\ \A w \in URLs \ {u} : StandingIn(forced', w) = StandingIn(forced, w)
<1>1. forced \in Seq(Ask) /\ engine \in [Downloads -> L!EngineStates]
  BY DEF DownloadsInv, L!TypeOK, Ask
<1>2. \A list \in Seq(Ask) : \A v : StandingIn(list, v) \in Nat
  BY StandingJoins
<1>3. forced' # forced
  BY <1>1, <1>2
<1>4. CASE L!EngineStep
  <2>1. PICK v \in URLs, d \in Downloads, kind \in L!Loads : L!Policy(v, d, kind)
    BY <1>3, <1>4 DEF L!EngineStep, L!Adopt, L!DecideDestination, L!RefuseDestination, L!Over, L!DidCancel
  <2>2. forced' = L!AsksLeft(v)
    BY <1>3, <2>1 DEF L!Policy
  <2>3. u = v /\ StandingIn(forced', u) = StandingIn(forced, u) - 1 /\ L!Asked(u)
    BY <1>1, <2>2, StandingLeft
  <2>4. \A w \in URLs \ {u} : StandingIn(forced', w) = StandingIn(forced, w)
    BY <1>1, <2>2, <2>3, StandingLeft
  <2>5. engine[d] = "none" /\ engine'[d] = "coming"
    BY <1>1, <2>1, <2>3 DEF L!Policy
  <2> QED BY <2>3, <2>4, <2>5
<1>5. CASE L!FrameStep
  <2>1. PICK v \in URLs : L!SaveLinkAs(v)
    BY <1>3, <1>5 DEF L!FrameStep, L!Cancel, L!RemoveRecord, L!ClearFinished, L!BeginShutdown
  <2> DEFINE a == [url |-> v, late |-> FALSE]
             one == <<a>>
  <2>2. forced' = Append(forced, a) /\ a \in Ask
    BY <2>1 DEF L!SaveLinkAs, Ask
  <2> HIDE DEF a
  <2>3. one \in Seq(Ask) /\ forced' = forced \o one
    BY <1>1, <2>2
  <2> HIDE DEF one
  <2>4. StandingIn(forced \o one, u) = StandingIn(forced, u) + StandingIn(one, u)
    BY <1>1, <2>3, StandingJoins
  <2>5. StandingIn(forced, u) \in Nat /\ StandingIn(one, u) \in Nat
    BY <1>1, <1>2, <2>3
  <2> QED BY <2>3, <2>4, <2>5
<1>6. CASE L!Expire
  <2> DEFINE n == L!OldestStanding
  <2>1. n \in 1..Len(forced) /\ ~forced[n].late /\ forced' = [forced EXCEPT ![n].late = TRUE]
    BY <1>1, <1>6, LateAsk DEF L!Expire
  <2> HIDE DEF n
  <2> DEFINE a == [forced[n] EXCEPT !.late = TRUE]
  <2>2. forced' = [forced EXCEPT ![n] = a]
    BY <2>1
  <2> HIDE DEF a
  <2>3. Len(forced') = Len(forced) /\ forced'[n] = a
    BY <1>1, <2>1, <2>2
  <2>4. forced[n] \in Ask
    BY <1>1, <2>1
  <2>5. forced'[n].late # forced[n].late
    BY <2>1, <2>3, <2>4 DEF Ask, a
  <2> QED BY <2>1, <2>3, <2>5 DEF L!TimePasses
<1>7. CASE L!Teardown
  BY <1>7 DEF L!Teardown
<1>8. CASE \E killed \in BOOLEAN : L!Restart(killed)
  <2>1. runs' = runs + 1 /\ runs \in Nat
    BY <1>8 DEF L!Restart, DownloadsInv, L!TypeOK, L!DownloadsAssumption
  <2> QED BY <2>1
<1> QED BY <1>3, <1>4, <1>5, <1>6, <1>7, <1>8 DEF L!Next, L!Pump, L!Write

\* An ask that still stands is used up by one download, and by nothing else as long as
\* the process runs: for any number of asks and addresses (downloads_model.cpp:407-428).
THEOREM StandingAsksAreKept == L!DownloadsAssumption => (L!Spec => L!AsksAreKept)
<1> DEFINE Kept ==
      \A u \in URLs : L!Standing(u)' < L!Standing(u) =>
        \/ stage' # stage \/ runs' # runs \/ L!TimePasses
        \/ /\ \E d \in Downloads : engine[d] = "none" /\ engine'[d] = "coming"
           /\ L!Standing(u)' = L!Standing(u) - 1
           /\ \A w \in URLs \ {u} : L!Standing(w)' = L!Standing(w)
<1> SUFFICES ASSUME L!DownloadsAssumption PROVE L!Spec => [][Kept]_(L!vars)
  BY DEF L!AsksAreKept
<1>1. ASSUME DownloadsInv, DownloadsInv', [L!Next]_(L!vars) PROVE [Kept]_(L!vars)
  <2>1. SUFFICES ASSUME L!Next PROVE Kept
    BY <1>1
  <2>2. \A u : L!Standing(u) = StandingIn(forced, u) /\ L!Standing(u)' = StandingIn(forced', u)
    <3>1. forced \in Seq(Ask) /\ forced' \in Seq(Ask)
      BY <1>1 DEF DownloadsInv, L!TypeOK, Ask
    <3>2. ASSUME NEW u PROVE L!Standing(u) = StandingIn(forced, u) /\ L!Standing(u)' = StandingIn(forced', u)
      <4>1. L!Standing(u) = Cardinality(At(forced, {[url |-> u, late |-> FALSE]}))
        BY SameLists DEF L!Standing, At
      <4>2. L!Standing(u)' = Cardinality(At(forced', {[url |-> u, late |-> FALSE]}))
        BY SameLists DEF L!Standing, At
      <4> QED BY <3>1, <4>1, <4>2, OnlyProperties DEF StandingIn
    <3> QED BY <3>2
  <2>3. ASSUME NEW u \in URLs, StandingIn(forced', u) < StandingIn(forced, u)
        PROVE  \/ stage' # stage \/ runs' # runs \/ L!TimePasses
               \/ /\ \E d \in Downloads : engine[d] = "none" /\ engine'[d] = "coming"
                  /\ StandingIn(forced', u) = StandingIn(forced, u) - 1
                  /\ \A w \in URLs \ {u} : StandingIn(forced', w) = StandingIn(forced, w)
    BY <1>1, <2>1, <2>3, AskKeptStep
  <2> QED BY <2>2, <2>3
<1>2. L!Spec => []DownloadsInv
  BY AlwaysDownloadsInv
<1> QED BY <1>1, <1>2, PTL DEF L!Spec
=============================================================================
