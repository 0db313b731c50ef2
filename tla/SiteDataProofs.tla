--------------------------- MODULE SiteDataProofs ---------------------------
(***************************************************************************)
(* What a profile keeps of the sites, and of the person's way among them.   *)
(*                                                                         *)
(* SiteData, for any sites, files and requests: a removal takes what it was *)
(* asked to take and nothing else, spares what was only in memory, and its  *)
(* state is consistent all along, whichever answers of WebKit come late or  *)
(* never.  An answer says which step it was asked in, and the end of the    *)
(* network process ends every question: what is still being asked tells how *)
(* far a removal is.  The invariant follows three sets of items through it, *)
(* what is condemned, what is in memory and what was there as the flush     *)
(* began.                                                                  *)
(*                                                                         *)
(* Library, for any addresses, tabs and caps: the history stays in order,   *)
(* what was forgotten stays so, and the files hold what the models were.    *)
(* The two parts are independent.  Library is an instance, L, which goes by *)
(* the variables of the same names: a theorem about L!Spec says nothing of  *)
(* what SiteData does with them.  What its constants are assumed to be is a *)
(* hypothesis of its theorems.                                             *)
(***************************************************************************)
EXTENDS SiteData, TabListTheorems

CONSTANTS
  NoURL,       \* of Library: what a folder has for an address
  MaxVisits,   \* of Library: kMaxVisitsPerEntry
  MaxEntries,  \* of Library: kMaxHistoryEntries
  URLs,        \* of Library: the addresses
  Tabs,        \* of Library: the tabs that report their pages
  Files,       \* Found of Library: what its two files hold at first
  Indices,     \* of Library: the places a person may name
  MaxTime,     \* of Library: bound: the clock
  MaxRuns      \* of Library: bound: processes, one after the other

\* The variables of Library that SiteData has none of: the others are work and events.
VARIABLES tree, nextId, entries, committed, mark, pen, flushing, disk, now, stage, runs, past, disturbed

L == INSTANCE Library WITH Found <- Files

-----------------------------------------------------------------------------
(* SiteData.                                                               *)

\* What WebKit has been asked of: nothing while no step waits for it, nothing that the
\* step under way has not asked for, but for what the flush gave up.
AskedOK ==
  /\ IsFiniteSet(asked)
  /\ phase \in {"idle", "measuring", "sweeping"} => asked = {}
  /\ \A a \in asked :
       /\ a.step <= token /\ a.of = request.origin
       /\ phase = "flushing" \/ a.step # token => a.does \in {"sync", "flush"}
       /\ phase = "engine" /\ a.step = token => a.does \in EngineWork(request)

\* The removal and the list have at most one job each with the worker, the one they
\* wait for.
WorkOK ==
  /\ \A n \in 1..Len(work) : work[n].job # "scan" =>
       /\ ~done
       /\ \/ phase = "measuring" /\ work[n].job = "measure"
          \/ phase = "sweeping" /\ work[n].job = "sweep" /\ work[n].of = request
  /\ \A n \in 1..Len(work) : work[n].job = "scan" => listing = "scanning" /\ ~scanned
  /\ \A m, n \in 1..Len(work) : (work[m].job = "scan" <=> work[n].job = "scan") => m = n
  /\ done => phase \in {"measuring", "sweeping"}
  /\ scanned => listing = "scanning"
  /\ phase \in {"measuring", "sweeping"} => done \/ \E n \in 1..Len(work) : work[n].job # "scan"
  /\ listing = "scanning" => scanned \/ \E n \in 1..Len(work) : work[n].job = "scan"

\* A site is cleared whole, and what is condemned is what the request is about.
Whole(r) == r.origin # NoSite => ~r.recent

RequestOK ==
  /\ Whole(request) /\ \A n \in 1..Len(queue) : Whole(queue[n])
  /\ phase = "idle" => condemned = {}
  /\ \A i \in condemned : Matches(request, i)

\* What is condemned and not written since is not in memory once the network process
\* has ended, and not on disk once the worker has swept; the jar, which has no ages,
\* goes before, when WebKit answers.
Gone(i) == files[i] = "none" \/ (request.recent /\ i # Jar /\ files[i] = "old")

TakenOK ==
  /\ phase = "sweeping" => condemned \cap memory = {}
  /\ phase = "sweeping" /\ done => \A i \in condemned : Gone(i)
  /\ phase = "engine" /\ Jar \in condemned =>
       files[Jar] = "none" \/ \E a \in asked : a.step = token /\ a.does = "cookies"
  /\ phase = "sweeping" /\ request.recent /\ Jar \in condemned => files[Jar] = "none"

\* What was in memory as the flush began is still asked for, or written.
WrittenBy(i) == IF i[3] = "local" THEN "sync" ELSE "flush"

SparedOK ==
  /\ phase = "flushing" => \A i \in unsaved \cap memory : \E a \in asked : a.step = token /\ a.does = WrittenBy(i)
  /\ phase = "engine" => unsaved \cap memory = {}

IInv ==
  /\ TypeOK /\ StepsCountTheirOwn /\ LedgerFileFollows /\ ClearingIsShown
  /\ AskedOK /\ WorkOK /\ RequestOK /\ TakenOK /\ SparedOK

-----------------------------------------------------------------------------
(* The operators.                                                          *)

LEMMA ItemParts ==
  /\ Jar \in Items /\ Jar[3] = "cookies" /\ "cookies" \notin StorageKinds
  /\ \A i \in Items \ {Jar} : i[1] \in Sites /\ i[2] \in Sites /\ i[3] \in StorageKinds
BY DEF Items, Jar, StorageKinds

LEMMA NoRequestIsOne == NoRequest \in Requests /\ Whole(NoRequest)
BY DEF NoRequest, Requests, Whole

LEMMA EngineWorkIsFinite ==
  ASSUME NEW r \in Requests
  PROVE  /\ IsFiniteSet(EngineWork(r))
         /\ EngineWork(r) \subseteq {"cachesOf", "tracking", "cookies"} \cup StorageKinds
<1> DEFINE All == {"cachesOf", "tracking", "cookies", "local", "dom"}
<1>1. EngineWork(r) \subseteq All
  BY DEF EngineWork, Requests, StorageKinds
<1>2. IsFiniteSet(All)
  <2>1. IsFiniteSet({"cachesOf"})
    BY FS_Singleton
  <2>2. IsFiniteSet({"cachesOf"} \cup {"tracking"})
    BY <2>1, FS_AddElement
  <2>3. IsFiniteSet({"cachesOf", "tracking"} \cup {"cookies"})
    <3>1. {"cachesOf", "tracking"} = {"cachesOf"} \cup {"tracking"}
      OBVIOUS
    <3> QED BY <2>2, <3>1, FS_AddElement
  <2>4. IsFiniteSet({"cachesOf", "tracking", "cookies"} \cup {"local"})
    <3>1. {"cachesOf", "tracking", "cookies"} = {"cachesOf", "tracking"} \cup {"cookies"}
      OBVIOUS
    <3> QED BY <2>3, <3>1, FS_AddElement
  <2>5. All = ({"cachesOf", "tracking", "cookies"} \cup {"local"}) \cup {"dom"}
    OBVIOUS
  <2> QED BY <2>4, <2>5, FS_AddElement
<1> QED BY <1>1, <1>2, FS_Subset DEF StorageKinds

\* The questions of a step are new, and as many as what the step asks.
LEMMA AskingCounts ==
  ASSUME IInv, NEW doing \in SUBSET ({"sync", "flush", "cachesOf", "tracking", "cookies"} \cup StorageKinds),
         IsFiniteSet(doing), Asking(doing)
  PROVE  /\ token' = token + 1 /\ token' \in Nat /\ outstanding' \in Nat /\ late' = FALSE
         /\ asked' \subseteq Questions /\ IsFiniteSet(asked')
         /\ outstanding' = Cardinality({a \in asked' : a.step = token'})
         /\ \A a \in asked' : a \in asked \/ (a.step = token' /\ a.does \in doing /\ a.of = request.origin)
         /\ \A d \in doing : \E a \in asked' : a.step = token' /\ a.does = d
<1> DEFINE t == token + 1
           q(d) == [step |-> t, does |-> d, of |-> request.origin]
           new == {q(d) : d \in doing}
<1>1. token \in Nat /\ asked \subseteq Questions /\ IsFiniteSet(asked) /\ request.origin \in Sites \cup {NoSite}
  BY DEF IInv, TypeOK, AskedOK, Requests
<1>2. /\ token' = t /\ late' = FALSE /\ outstanding' = Cardinality(doing)
      /\ asked' = asked \cup new
  BY DEF Asking
<1>3. t \in Nat /\ \A a \in asked : a.step # t
  BY <1>1 DEF IInv, AskedOK, Questions
<1> HIDE DEF t
<1>4. \A d \in doing : q(d) \in Questions /\ q(d).step = t /\ q(d).does = d /\ q(d).of = request.origin
  BY <1>1, <1>3 DEF Questions
<1> HIDE DEF q
<1>5. new = {a \in asked' : a.step = t}
  BY <1>2, <1>3, <1>4
<1>6. IsFiniteSet(new) /\ Cardinality(new) = Cardinality(doing)
  <2> DEFINE f == [d \in doing |-> q(d)]
  <2>1. f \in Bijection(doing, new)
    <3>1. f \in [doing -> new] /\ \A a, b \in doing : a # b => f[a] # f[b]
      BY <1>4
    <3>2. \A a \in new : \E d \in doing : f[d] = a
      OBVIOUS
    <3> QED BY <3>1, <3>2 DEF Bijection, Injection, Surjection, IsInjective
  <2>2. ExistsBijection(doing, new)
    BY <2>1 DEF ExistsBijection
  <2> QED BY <2>2, FS_Bijection
<1>7. Cardinality(doing) \in Nat
  BY FS_CardinalityType
<1>8. IsFiniteSet(asked')
  BY <1>1, <1>2, <1>6, FS_Union
<1>9. asked' \subseteq Questions
  BY <1>1, <1>2, <1>4
<1>10. \A d \in doing : q(d) \in asked'
  BY <1>2
<1>11. \A a \in asked' : a \in asked \/ (a.step = t /\ a.does \in doing /\ a.of = request.origin)
  BY <1>2, <1>4
<1>12. \A d \in doing : \E a \in asked' : a.step = t /\ a.does = d
  BY <1>4, <1>10
<1>13. outstanding' = Cardinality({a \in asked' : a.step = t})
  BY <1>2, <1>5, <1>6
<1> QED BY <1>2, <1>3, <1>7, <1>8, <1>9, <1>11, <1>12, <1>13 DEF t

-----------------------------------------------------------------------------
(* What a step leaves alone stays as it was.                               *)

LEMMA AskedKept ==
  ASSUME IInv, UNCHANGED <<asked, phase, token, request, outstanding>>
  PROVE  StepsCountTheirOwn' /\ AskedOK'
BY DEF IInv, StepsCountTheirOwn, AskedOK

LEMMA WorkKept == ASSUME IInv, UNCHANGED <<work, done, phase, request, listing, scanned>> PROVE WorkOK'
BY DEF IInv, WorkOK

LEMMA RequestKept == ASSUME IInv, UNCHANGED <<request, phase, queue>>, condemned' \subseteq condemned PROVE RequestOK'
BY DEF IInv, RequestOK, Whole, Matches

LEMMA ClearingKept == ASSUME IInv, UNCHANGED <<frame, queue, phase, clearing>> PROVE ClearingIsShown'
BY DEF IInv, ClearingIsShown

LEMMA LedgerKept == ASSUME IInv, UNCHANGED ledgerVars PROVE LedgerFileFollows'
BY DEF IInv, LedgerFileFollows, ledgerVars

LEMMA FilesKept ==
  ASSUME IInv, UNCHANGED <<phase, done, request, asked, token, files, memory, condemned, unsaved>>
  PROVE  TakenOK' /\ SparedOK'
BY DEF IInv, TakenOK, SparedOK, Gone, WrittenBy

-----------------------------------------------------------------------------
(* The pages and the network process.                                      *)

\* Files that go, and files that are written from memory, leave what is condemned gone.
LEMMA FilesStep ==
  ASSUME IInv, memory' \subseteq memory, UNCHANGED <<phase, done, request, condemned, token>>,
         \A i \in Items : i \in memory \/ files'[i] \in {files[i], "none"},
         phase = "engine" /\ Jar \in condemned =>
           files'[Jar] = "none" \/ \E a \in asked' : a.step = token /\ a.does = "cookies"
  PROVE  TakenOK'
<1>1. condemned \subseteq Items /\ memory \subseteq Items \ {Jar} /\ Jar \in Items
  BY ItemParts DEF IInv, TypeOK
<1>2. TakenOK
  BY DEF IInv
<1>3. phase = "sweeping" => condemned \cap memory' = {} /\ \A i \in condemned : files'[i] \in {files[i], "none"}
  BY <1>1, <1>2 DEF TakenOK
<1>4. ASSUME phase = "sweeping", done, NEW i \in condemned PROVE Gone(i)'
  BY <1>2, <1>3, <1>4 DEF TakenOK, Gone
<1>5. phase = "sweeping" /\ request.recent /\ Jar \in condemned => files'[Jar] = "none"
  BY <1>2, <1>3 DEF TakenOK
<1> QED BY <1>3, <1>4, <1>5 DEF TakenOK

LEMMA VisitStep == ASSUME IInv, NEW s \in Sites, Visit(s) PROVE IInv'
<1>1. /\ open' = open \cup {s} /\ revised' = TRUE
      /\ UNCHANGED <<settling, memory, files, ledgerVars, removalVars, listVars, work, frame, asks, history>>
  BY DEF Visit
<1>2. TypeOK'
  BY <1>1 DEF IInv, TypeOK, ledgerVars, removalVars, listVars, history
<1> QED BY <1>1, <1>2, AskedKept, WorkKept, RequestKept, ClearingKept, LedgerKept, FilesKept
        DEF IInv, removalVars, listVars, history

LEMMA PageWritesStep == ASSUME IInv, NEW i \in Items, PageWrites(i) PROVE IInv'
<1>1. /\ IF i = Jar THEN files' = [files EXCEPT ![i] = "new"] /\ UNCHANGED memory
         ELSE memory' = memory \cup {i} /\ UNCHANGED files
      /\ condemned' = condemned \ {i} /\ unsaved' = unsaved \ {i}
      /\ UNCHANGED <<open, revised, settling, ledgerVars, removalVars, listVars, work, frame, asks, overtaken>>
  BY DEF PageWrites
<1>2. memory \subseteq Items \ {Jar} /\ files \in [Items -> Ages] /\ condemned \subseteq Items /\ unsaved \subseteq Items
  BY DEF IInv, TypeOK
<1>3. files' \in [Items -> Ages] /\ memory' \subseteq Items \ {Jar} /\ \A j \in Items \ {i} : files'[j] = files[j]
  BY <1>1, <1>2 DEF Ages
<1>4. TypeOK'
  BY <1>1, <1>2, <1>3 DEF IInv, TypeOK, ledgerVars, removalVars, listVars
<1>5. UNCHANGED <<phase, done, request, asked, token, queue, outstanding, listing, scanned, clearing>>
  BY <1>1 DEF removalVars, listVars
<1>6. TakenOK'
  <2>1. TakenOK /\ Jar \in Items
    BY ItemParts DEF IInv
  <2>2. \A j \in condemned' : j \in condemned /\ files'[j] = files[j] /\ (j \in memory' => j \in memory)
    BY <1>1, <1>2, <1>3
  <2>3. \A j \in condemned' : Gone(j) => Gone(j)'
    BY <1>5, <2>2 DEF Gone
  <2> QED BY <1>5, <2>1, <2>2, <2>3 DEF TakenOK
<1>7. SparedOK'
  <2>1. \A j \in unsaved' \cap memory' : j \in unsaved \cap memory
    BY <1>1, <1>2
  <2> QED BY <1>5, <2>1 DEF IInv, SparedOK, WrittenBy
<1> QED BY <1>1, <1>4, <1>5, <1>6, <1>7, AskedKept, WorkKept, RequestKept, ClearingKept, LedgerKept DEF IInv

LEMMA NetworkWritesStep == ASSUME IInv, NEW i \in Items, NetworkWrites(i) PROVE IInv'
<1>1. /\ i \in memory
      /\ files' = [j \in Items |-> IF j \in {i} THEN "new" ELSE files[j]] /\ memory' = memory \ {i}
      /\ UNCHANGED <<open, revised, settling, ledgerVars, removalVars, listVars, work, frame, asks, events, history>>
  BY DEF NetworkWrites, Written
<1>2. memory \subseteq Items \ {Jar} /\ files \in [Items -> Ages] /\ Jar \in Items
  BY ItemParts DEF IInv, TypeOK
<1>3. files' \in [Items -> Ages] /\ memory' \subseteq Items \ {Jar}
  BY <1>1, <1>2 DEF Ages
<1>4. TypeOK'
  BY <1>1, <1>3 DEF IInv, TypeOK, ledgerVars, removalVars, listVars, history
<1>5. UNCHANGED <<phase, done, request, asked, token, queue, outstanding, listing, scanned, clearing, condemned, unsaved>>
  BY <1>1 DEF removalVars, listVars, history
<1>6. files'[Jar] = files[Jar] /\ \A j \in Items : j \in memory \/ files'[j] \in {files[j], "none"}
  BY <1>1, <1>2
<1>7. TakenOK'
  <2>1. phase = "engine" /\ Jar \in condemned =>
          files'[Jar] = "none" \/ \E a \in asked' : a.step = token /\ a.does = "cookies"
    BY <1>5, <1>6 DEF IInv, TakenOK
  <2> QED BY <1>1, <1>5, <1>6, <2>1, FilesStep
<1>8. SparedOK'
  BY <1>1, <1>5 DEF IInv, SparedOK, WrittenBy
<1> QED BY <1>1, <1>4, <1>5, <1>7, <1>8, AskedKept, WorkKept, RequestKept, ClearingKept, LedgerKept DEF IInv

-----------------------------------------------------------------------------
(* What WebKit answers.                                                     *)

\* What an answer writes was in memory; what it removes the removal is asked to take.
Takeable(i) ==
  /\ IF request.origin = NoSite THEN i[3] \in request.types
     ELSE i # Jar /\ (i[1] = request.origin \/ i[2] = request.origin)
  /\ request.recent => (files[i] = "new" \/ i = Jar)

LEMMA EffectOfAnswer ==
  ASSUME IInv, NEW a \in asked, Effect(a)
  PROVE  /\ files' \in [Items -> Ages] /\ memory' \subseteq memory
         /\ \A i \in Items : files'[i] # files[i] => i \in memory \/ files'[i] = "none"
         /\ \A i \in Items : files[i] # "none" /\ files'[i] = "none" => phase = "engine" /\ Takeable(i)
         /\ a.does = "sync" => \A i \in memory' : i[3] # "local"
         /\ a.does = "flush" => \A i \in memory' : i[3] = "local"
         /\ a.does = "cookies" => files'[Jar] = "none"
<1>1. /\ memory \subseteq Items \ {Jar} /\ files \in [Items -> Ages] /\ Jar \in Items /\ a \in Questions
      /\ request \in Requests
  BY ItemParts DEF IInv, TypeOK
<1>2. a.does \in {"sync", "flush"} \/ (phase = "engine" /\ a.does \in EngineWork(request) /\ a.of = request.origin)
  BY DEF IInv, AskedOK, TypeOK
<1>3. ASSUME NEW S \in SUBSET memory, Written(S)
      PROVE  /\ files' \in [Items -> Ages] /\ memory' = memory \ S
             /\ \A i \in Items : files'[i] # files[i] => i \in memory
             /\ \A i \in Items : files[i] # "none" => files'[i] # "none"
  BY <1>1, <1>3 DEF Written, Ages
<1>4. ASSUME NEW S, Removed(S)
      PROVE  /\ files' \in [Items -> Ages] /\ memory' \subseteq memory
             /\ \A i \in Items : files'[i] = IF i \in S THEN "none" ELSE files[i]
  BY <1>1, <1>4 DEF Removed, Ages
<1>5. CASE a.does = "sync"
  <2>1. Written(memory \cap ForKind("local"))
    BY <1>5 DEF Effect
  <2>2. memory' = memory \ (memory \cap ForKind("local"))
    BY <1>3, <2>1
  <2>3. \A i \in memory' : i[3] # "local"
    BY <1>1, <2>2 DEF ForKind
  <2> QED BY <1>3, <1>5, <2>1, <2>2, <2>3
<1>6. CASE a.does = "flush"
  <2>1. Written(memory \ ForKind("local"))
    BY <1>6 DEF Effect
  <2>2. memory' = memory \ (memory \ ForKind("local"))
    BY <1>3, <2>1
  <2>3. \A i \in memory' : i[3] = "local"
    BY <1>1, <2>2 DEF ForKind
  <2> QED BY <1>3, <1>6, <2>1, <2>2, <2>3
<1>7. CASE a.does \notin {"sync", "flush"}
  <2>1. phase = "engine" /\ a.does \in EngineWork(request) /\ a.of = request.origin /\ (request.origin # NoSite => ~request.recent)
    BY <1>2, <1>7 DEF IInv, RequestOK, Whole
  <2>2. ASSUME NEW S \in SUBSET Items, Removed(S), \A i \in S : files[i] # "none" => Takeable(i),
               a.does = "cookies" => Jar \in S
        PROVE  /\ files' \in [Items -> Ages] /\ memory' \subseteq memory
               /\ \A i \in Items : files'[i] # files[i] => files'[i] = "none"
               /\ \A i \in Items : files[i] # "none" /\ files'[i] = "none" => Takeable(i)
               /\ a.does = "cookies" => files'[Jar] = "none"
    BY <1>1, <1>4, <2>2
  <2>3. CASE a.does = "cachesOf"
    <3>1. Removed({i \in ForKind("dom") : i[2] = a.of})
      BY <2>3 DEF Effect
    <3>2. request.origin # NoSite
      BY <1>1, <2>1, <2>3 DEF EngineWork, Requests, StorageKinds
    <3>3. \A i \in {i \in ForKind("dom") : i[2] = a.of} : i \in Items /\ Takeable(i)
      BY <2>1, <3>2, ItemParts DEF ForKind, Takeable
    <3> QED BY <1>7, <2>1, <2>2, <2>3, <3>1, <3>3
  <2>4. CASE a.does = "tracking"
    BY <1>7, <2>1, <2>2, <2>4 DEF Effect
  <2>5. CASE a.does \notin {"cachesOf", "tracking"}
    <3>1. Removed(ForKind(a.does))
      BY <1>7, <2>5 DEF Effect
    <3>2. request.origin = NoSite /\ a.does \in request.types /\ (request.recent => a.does = "cookies")
      BY <2>1, <2>5 DEF EngineWork, Requests, StorageKinds
    <3>3. \A i \in ForKind(a.does) : i \in Items /\ Takeable(i)
      BY <3>2, ItemParts DEF ForKind, Takeable, StorageKinds
    <3>4. a.does = "cookies" => Jar \in ForKind(a.does)
      BY ItemParts DEF ForKind
    <3> QED BY <1>7, <2>1, <2>2, <2>5, <3>1, <3>3, <3>4
  <2> QED BY <2>3, <2>4, <2>5
<1> QED BY <1>5, <1>6, <1>7

LEMMA AnswersStep == ASSUME IInv, NEW a \in asked, Answers(a) PROVE IInv'
<1>1. /\ Effect(a) /\ CountOwn(a) /\ asked' = asked \ {a}
      /\ UNCHANGED <<open, revised, settling, ledgerVars, queue, clearing, phase, request, token, late, done, listVars, work, frame, asks, events, history>>
  BY DEF Answers
<1>2. /\ files' \in [Items -> Ages] /\ memory' \subseteq memory
      /\ \A i \in Items : i \in memory \/ files'[i] \in {files[i], "none"}
      /\ a.does = "sync" => \A i \in memory' : i[3] # "local"
      /\ a.does = "flush" => \A i \in memory' : i[3] = "local"
      /\ a.does = "cookies" => files'[Jar] = "none"
      /\ Jar \notin memory /\ Jar \in Items
  BY <1>1, EffectOfAnswer, ItemParts DEF IInv, TypeOK
<1>3. outstanding \in Nat /\ token \in Nat /\ IsFiniteSet(asked) /\ AskedOK /\ asked \subseteq Questions
  BY DEF IInv, TypeOK, AskedOK
<1>4. AskedOK' /\ outstanding' \in Nat /\ StepsCountTheirOwn'
  <2> DEFINE own == {b \in asked : b.step = token}
  <2>1. IsFiniteSet(own) /\ Cardinality(own) \in Nat
    BY <1>3, FS_Subset, FS_CardinalityType
  <2>2. IsFiniteSet(asked')
    BY <1>1, <1>3, FS_RemoveElement
  <2>3. AskedOK'
    BY <1>1, <1>3, <2>2 DEF AskedOK
  <2>4. {b \in asked' : b.step = token'} = own \ {a} /\ (a \in own <=> a.step = token)
    BY <1>1
  <2>5. Cardinality(own \ {a}) = IF a \in own THEN Cardinality(own) - 1 ELSE Cardinality(own)
    BY <2>1, FS_RemoveElement
  <2>6. a \in own => Cardinality(own) # 0
    BY <2>1, FS_EmptySet
  <2>7. phase \in {"flushing", "engine"} => outstanding = Cardinality(own)
    BY DEF IInv, StepsCountTheirOwn
  <2> HIDE DEF own
  <2>8. outstanding' = IF a.step = token /\ outstanding > 0 THEN outstanding - 1 ELSE outstanding
    BY <1>1 DEF CountOwn
  <2>9. outstanding' \in Nat
    BY <1>3, <2>8
  <2>10. phase \in {"flushing", "engine"} => outstanding' = Cardinality(own \ {a})
    BY <1>3, <2>1, <2>4, <2>5, <2>6, <2>7, <2>8
  <2> QED BY <1>1, <2>3, <2>4, <2>9, <2>10 DEF StepsCountTheirOwn
<1>5. TypeOK'
  BY <1>1, <1>2, <1>4 DEF IInv, TypeOK, ledgerVars, listVars, history
<1>6. UNCHANGED <<condemned, unsaved, listing, scanned>>
  BY <1>1 DEF listVars, history
<1>7. TakenOK'
  <2>1. ASSUME phase = "engine", Jar \in condemned
        PROVE  files'[Jar] = "none" \/ \E b \in asked' : b.step = token /\ b.does = "cookies"
    <3>1. files[Jar] = "none" \/ \E b \in asked : b.step = token /\ b.does = "cookies"
      BY <2>1 DEF IInv, TakenOK
    <3>2. files[Jar] = "none" => files'[Jar] = "none"
      BY <1>2
    <3> QED BY <1>1, <1>2, <3>1, <3>2
  <2> QED BY <1>1, <1>2, <1>6, <2>1, FilesStep
<1>8. SparedOK'
  <2>1. ASSUME phase = "flushing", NEW i \in unsaved \cap memory'
        PROVE  \E b \in asked' : b.step = token /\ b.does = WrittenBy(i)
    <3>1. PICK b \in asked : b.step = token /\ b.does = WrittenBy(i)
      BY <1>2, <2>1 DEF IInv, SparedOK
    <3>2. a.does # WrittenBy(i) \/ a.does \notin {"sync", "flush"}
      BY <1>2 DEF WrittenBy
    <3> QED BY <1>1, <3>1, <3>2 DEF WrittenBy
  <2>2. phase = "engine" => unsaved \cap memory' = {}
    BY <1>2 DEF IInv, SparedOK
  <2> QED BY <1>1, <1>6, <2>1, <2>2 DEF SparedOK, WrittenBy
<1> QED BY <1>1, <1>4, <1>5, <1>6, <1>7, <1>8, WorkKept, RequestKept, ClearingKept, LedgerKept DEF IInv

-----------------------------------------------------------------------------
(* The queues: what is added at the end, and what is taken from the front.  *)

LEMMA Added ==
  ASSUME NEW S, NEW list \in Seq(S), NEW x \in S
  PROVE  /\ Append(list, x) \in Seq(S) /\ Len(Append(list, x)) = Len(list) + 1 /\ Len(list) \in Nat
         /\ Append(list, x)[Len(list) + 1] = x
         /\ \A n \in 1..Len(list) : Append(list, x)[n] = list[n]
BY AppendProperties

LEMMA Taken ==
  ASSUME NEW S, NEW list \in Seq(S), list # <<>>
  PROVE  /\ Head(list) \in S /\ Head(list) = list[1] /\ 1 \in 1..Len(list)
         /\ Tail(list) \in Seq(S) /\ Len(Tail(list)) = Len(list) - 1 /\ Len(list) \in Nat \ {0}
         /\ \A n \in 1..Len(Tail(list)) : n + 1 \in 1..Len(list) /\ Tail(list)[n] = list[n + 1]
<1>1. Len(list) \in Nat \ {0} /\ Tail(list) \in Seq(S) /\ Len(Tail(list)) = Len(list) - 1 /\ Head(list) = list[1]
      /\ \A n \in 1..Len(Tail(list)) : Tail(list)[n] = list[n + 1]
  BY HeadTailProperties, EmptySeq
<1>2. list[1] \in S
  BY <1>1, ElementOfSeq
<1> QED BY <1>1, <1>2

\* A job is submitted when there is none of its kind.
LEMMA SubmitWork ==
  ASSUME IInv, NEW j \in Jobs, Submit(j),
         \A n \in 1..Len(work) : ~(work[n].job = "scan" <=> j.job = "scan"),
         UNCHANGED done \/ ~done', UNCHANGED scanned \/ ~scanned',
         done' => phase' \in {"measuring", "sweeping"},
         scanned' => listing' = "scanning",
         j.job = "scan" => /\ UNCHANGED <<phase, done, request>> /\ listing' = "scanning" /\ ~scanned',
         j.job # "scan" =>
           /\ UNCHANGED <<listing, scanned>> /\ ~done'
           /\ \/ phase' = "measuring" /\ j.job = "measure"
              \/ phase' = "sweeping" /\ j.job = "sweep" /\ j.of = request'
  PROVE  WorkOK' /\ work' \in Seq(Jobs)
<1>1. work \in Seq(Jobs) /\ WorkOK /\ work' = Append(work, j)
  BY DEF IInv, TypeOK, Submit
<1>2. /\ work' \in Seq(Jobs) /\ Len(work') = Len(work) + 1 /\ Len(work) \in Nat
      /\ work'[Len(work) + 1] = j /\ \A n \in 1..Len(work) : work'[n] = work[n]
  BY <1>1, Added
<1>3. \A n \in 1..Len(work') : (n \in 1..Len(work) /\ work'[n] = work[n]) \/ (n = Len(work') /\ work'[n] = j)
  BY <1>2
<1>4. Len(work') \in 1..Len(work') /\ work'[Len(work')] = j /\ \A n \in 1..Len(work) : n \in 1..Len(work')
  BY <1>2
<1>5. ASSUME NEW m \in 1..Len(work'), NEW n \in 1..Len(work'), work'[m].job = "scan" <=> work'[n].job = "scan"
      PROVE  m = n
  BY <1>1, <1>3, <1>5 DEF WorkOK
<1>6. CASE j.job = "scan"
  <2>1. \A n \in 1..Len(work) : work[n].job # "scan"
    BY <1>6
  <2>2. ASSUME NEW n \in 1..Len(work'), work'[n].job # "scan"
        PROVE  /\ ~done'
               /\ \/ phase' = "measuring" /\ work'[n].job = "measure"
                  \/ phase' = "sweeping" /\ work'[n].job = "sweep" /\ work'[n].of = request'
    BY <1>1, <1>3, <1>6, <2>2 DEF WorkOK
  <2>3. phase' \in {"measuring", "sweeping"} => done' \/ \E n \in 1..Len(work') : work'[n].job # "scan"
    BY <1>1, <1>2, <1>4, <1>6 DEF WorkOK
  <2>4. \E n \in 1..Len(work') : work'[n].job = "scan"
    BY <1>4, <1>6
  <2> QED BY <1>2, <1>5, <1>6, <2>2, <2>3, <2>4 DEF WorkOK
<1>7. CASE j.job # "scan"
  <2>1. \A n \in 1..Len(work) : work[n].job = "scan"
    BY <1>7
  <2>2. \A n \in 1..Len(work') : work'[n].job # "scan" => work'[n] = j
    BY <1>3, <2>1
  <2>3. \A n \in 1..Len(work') : work'[n].job = "scan" => listing' = "scanning" /\ ~scanned'
    BY <1>1, <1>3, <1>7 DEF WorkOK
  <2>4. \E n \in 1..Len(work') : work'[n].job # "scan"
    BY <1>4, <1>7
  <2>5. listing' = "scanning" => scanned' \/ \E n \in 1..Len(work') : work'[n].job = "scan"
    BY <1>1, <1>2, <1>4, <1>7 DEF WorkOK
  <2> QED BY <1>2, <1>5, <1>7, <2>2, <2>3, <2>4, <2>5 DEF WorkOK
<1> QED BY <1>6, <1>7

\* A job is over when its result is there.
LEMMA WorkDone ==
  ASSUME IInv, work # <<>>, work' = Tail(work), UNCHANGED <<phase, request, listing>>,
         Head(work).job = "scan" => scanned' /\ UNCHANGED done,
         Head(work).job # "scan" => done' /\ UNCHANGED scanned
  PROVE  WorkOK' /\ work' \in Seq(Jobs)
<1>1. work \in Seq(Jobs) /\ WorkOK
  BY DEF IInv, TypeOK
<1>2. /\ Head(work) = work[1] /\ 1 \in 1..Len(work) /\ Len(work) \in Nat \ {0}
      /\ work' \in Seq(Jobs) /\ Len(work') = Len(work) - 1
      /\ \A n \in 1..Len(work') : n + 1 \in 1..Len(work) /\ work'[n] = work[n + 1]
  BY <1>1, Taken
<1>3. \A n \in 1..Len(work') : ~(work'[n].job = "scan" <=> work[1].job = "scan")
  <2> SUFFICES ASSUME NEW n \in 1..Len(work'), work'[n].job = "scan" <=> work[1].job = "scan" PROVE FALSE
    OBVIOUS
  <2>1. n + 1 = 1
    BY <1>1, <1>2 DEF WorkOK
  <2> QED BY <2>1
<1>4. ASSUME NEW m \in 1..Len(work'), NEW n \in 1..Len(work'), work'[m].job = "scan" <=> work'[n].job = "scan"
      PROVE  m = n
  <2>1. m + 1 = n + 1
    BY <1>1, <1>2, <1>4 DEF WorkOK
  <2> QED BY <2>1
<1>5. ASSUME NEW n \in 1..Len(work), n # 1 PROVE \E m \in 1..Len(work') : work'[m] = work[n]
  <2>1. n - 1 \in 1..Len(work') /\ work'[n - 1] = work[n]
    BY <1>2, <1>5
  <2> QED BY <2>1
<1>6. CASE work[1].job = "scan"
  <2>1. scanned' /\ UNCHANGED done /\ listing = "scanning"
    BY <1>1, <1>2, <1>6 DEF WorkOK
  <2>2. \A n \in 1..Len(work') : work'[n].job # "scan"
    BY <1>3, <1>6
  <2>3. \A n \in 1..Len(work') :
          /\ ~done
          /\ \/ phase = "measuring" /\ work'[n].job = "measure"
             \/ phase = "sweeping" /\ work'[n].job = "sweep" /\ work'[n].of = request
    BY <1>1, <1>2, <2>2 DEF WorkOK
  <2>4. phase \in {"measuring", "sweeping"} => done \/ \E n \in 1..Len(work') : work'[n].job # "scan"
    BY <1>1, <1>5, <1>6 DEF WorkOK
  <2> QED BY <1>1, <1>2, <1>4, <2>1, <2>2, <2>3, <2>4 DEF WorkOK
<1>7. CASE work[1].job # "scan"
  <2>1. done' /\ UNCHANGED scanned /\ phase \in {"measuring", "sweeping"}
    BY <1>1, <1>2, <1>7 DEF WorkOK
  <2>2. \A n \in 1..Len(work') : work'[n].job = "scan"
    BY <1>3, <1>7
  <2>3. \A n \in 1..Len(work') : listing = "scanning" /\ ~scanned
    BY <1>1, <1>2, <2>2 DEF WorkOK
  <2>4. listing = "scanning" => scanned \/ \E n \in 1..Len(work') : work'[n].job = "scan"
    BY <1>1, <1>5, <1>7 DEF WorkOK
  <2> QED BY <1>1, <1>2, <1>4, <2>1, <2>2, <2>3, <2>4 DEF WorkOK
<1> QED BY <1>6, <1>7

-----------------------------------------------------------------------------
(* The removal.                                                            *)

LEMMA TakeRequestStep == ASSUME IInv, TakeRequest PROVE IInv'
<1> DEFINE r == Head(queue)
           job == [job |-> "measure", of |-> r, sites |-> {}]
<1>1. /\ phase = "idle" /\ queue # <<>>
      /\ request' = r /\ queue' = Tail(queue)
      /\ phase' = "measuring" /\ done' = FALSE
      /\ Submit(job) /\ condemned' = ToTake(r)
      /\ UNCHANGED <<siteVars, ledgerVars, clearing, token, outstanding, asked, late, listVars, frame, asks, events, unsaved, overtaken>>
  BY DEF TakeRequest
<1>2. queue \in Seq(Requests)
  BY DEF IInv, TypeOK
<1>3. /\ r \in Requests /\ r = queue[1] /\ 1 \in 1..Len(queue) /\ queue' \in Seq(Requests)
      /\ \A n \in 1..Len(queue') : n + 1 \in 1..Len(queue) /\ queue'[n] = queue[n + 1]
  BY <1>1, <1>2, Taken
<1>4. job \in Jobs /\ job.job = "measure" /\ ToTake(r) \subseteq Items /\ \A i \in ToTake(r) : Matches(r, i)
  BY <1>3 DEF Jobs, ToTake
<1> HIDE DEF r, job
<1>5. \A n \in 1..Len(work) : work[n].job = "scan"
  BY <1>1 DEF IInv, WorkOK
<1>6. WorkOK' /\ work' \in Seq(Jobs)
  <2>1. /\ \A n \in 1..Len(work) : ~(work[n].job = "scan" <=> job.job = "scan")
        /\ job.job # "scan" /\ ~done' /\ UNCHANGED <<listing, scanned>>
        /\ phase' = "measuring" /\ job.job = "measure"
    BY <1>1, <1>4, <1>5 DEF listVars
  <2>2. scanned' => listing' = "scanning"
    BY <2>1 DEF IInv, WorkOK
  <2> QED BY <1>1, <1>4, <2>1, <2>2, SubmitWork
<1>7. TypeOK'
  <2>1. TypeOK
    BY DEF IInv
  <2>2. UNCHANGED <<open, revised, settling, memory, files, ledger, dirty, ledgerFile, clearing, token, outstanding, asked,
                    late, requested, listing, scanned, published, reading, frame, unsaved, overtaken>>
    BY <1>1 DEF siteVars, ledgerVars, listVars
  <2>3. /\ queue' \in Seq(Requests) /\ phase' \in {"idle", "measuring", "flushing", "engine", "sweeping"}
        /\ request' \in Requests /\ done' \in BOOLEAN /\ work' \in Seq(Jobs) /\ condemned' \subseteq Items
    BY <1>1, <1>3, <1>4, <1>6, <2>1 DEF TypeOK
  <2> QED BY <2>1, <2>2, <2>3 DEF TypeOK
<1>8. RequestOK'
  BY <1>1, <1>3, <1>4 DEF IInv, RequestOK, Whole, Matches
<1>9. AskedOK' /\ StepsCountTheirOwn'
  BY <1>1 DEF IInv, AskedOK, StepsCountTheirOwn
<1>10. ClearingIsShown'
  BY <1>1 DEF IInv, ClearingIsShown
<1>11. TakenOK' /\ SparedOK'
  BY <1>1 DEF TakenOK, SparedOK
<1> QED BY <1>1, <1>6, <1>7, <1>8, <1>9, <1>10, <1>11, LedgerKept DEF IInv

LEMMA StartFlushingStep == ASSUME IInv, StartFlushing PROVE IInv'
<1> DEFINE doing == {"sync", "flush"}
<1>1. /\ phase = "measuring" /\ done /\ phase' = "flushing" /\ done' = FALSE
      /\ Asking(doing) /\ unsaved' = memory
      /\ UNCHANGED <<siteVars, ledgerVars, queue, clearing, request, listVars, work, frame, asks, events, condemned, overtaken>>
  BY DEF StartFlushing
<1>2. IsFiniteSet(doing) /\ doing \subseteq {"sync", "flush", "cachesOf", "tracking", "cookies"} \cup StorageKinds
  <2>1. IsFiniteSet({"sync"})
    BY FS_Singleton
  <2>2. IsFiniteSet({"sync"} \cup {"flush"})
    BY <2>1, FS_AddElement
  <2>3. doing = {"sync"} \cup {"flush"}
    OBVIOUS
  <2> QED BY <2>2, <2>3
<1>3. \A d \in doing : d \in {"sync", "flush"}
  OBVIOUS
<1>4. "sync" \in doing /\ "flush" \in doing
  OBVIOUS
<1> HIDE DEF doing
<1>5. /\ token' = token + 1 /\ token' \in Nat /\ outstanding' \in Nat /\ late' = FALSE
      /\ asked' \subseteq Questions /\ IsFiniteSet(asked')
      /\ outstanding' = Cardinality({a \in asked' : a.step = token'})
      /\ \A a \in asked' : a \in asked \/ (a.step = token' /\ a.does \in doing /\ a.of = request.origin)
      /\ \A d \in doing : \E a \in asked' : a.step = token' /\ a.does = d
  BY <1>1, <1>2, AskingCounts
<1>6. asked = {} /\ memory \subseteq Items \ {Jar}
  BY <1>1 DEF IInv, AskedOK, TypeOK
<1>7. TypeOK'
  <2>1. TypeOK
    BY DEF IInv
  <2>2. UNCHANGED <<open, revised, settling, memory, files, ledger, dirty, ledgerFile, queue, clearing, request, requested,
                    listing, scanned, published, reading, work, frame, condemned, overtaken>>
    BY <1>1 DEF siteVars, ledgerVars, listVars
  <2>3. /\ phase' \in {"idle", "measuring", "flushing", "engine", "sweeping"} /\ token' \in Nat
        /\ outstanding' \in Nat /\ asked' \subseteq Questions /\ late' \in BOOLEAN /\ done' \in BOOLEAN
        /\ unsaved' \subseteq Items
    BY <1>1, <1>5, <1>6, <2>1 DEF TypeOK
  <2> QED BY <2>1, <2>2, <2>3 DEF TypeOK
<1>8. AskedOK' /\ StepsCountTheirOwn'
  BY <1>1, <1>3, <1>5, <1>6 DEF AskedOK, StepsCountTheirOwn
<1>9. WorkOK'
  BY <1>1 DEF IInv, WorkOK, listVars
<1>10. RequestOK' /\ TakenOK' /\ ClearingIsShown'
  BY <1>1 DEF IInv, RequestOK, TakenOK, ClearingIsShown, Whole, Matches
<1>11. SparedOK'
  BY <1>1, <1>4, <1>5 DEF SparedOK, WrittenBy
<1> QED BY <1>1, <1>7, <1>8, <1>9, <1>10, <1>11, LedgerKept DEF IInv

LEMMA StartEngineStep == ASSUME IInv, StartEngine PROVE IInv'
<1> DEFINE doing == EngineWork(request)
<1>1. /\ phase = "flushing" /\ StepIsOver /\ phase' = "engine"
      /\ Asking(doing)
      /\ unsaved' = IF late /\ outstanding > 0 THEN {} ELSE unsaved
      /\ UNCHANGED <<siteVars, ledgerVars, queue, clearing, request, done, listVars, work, frame, asks, events, condemned, overtaken>>
  BY DEF StartEngine
<1>2. request \in Requests /\ Jar \in Items
  BY ItemParts DEF IInv, TypeOK
<1>3. IsFiniteSet(doing) /\ doing \subseteq {"sync", "flush", "cachesOf", "tracking", "cookies"} \cup StorageKinds
  BY <1>2, EngineWorkIsFinite
<1>4. Jar \in condemned => "cookies" \in doing
  <2> SUFFICES ASSUME Jar \in condemned PROVE "cookies" \in doing
    OBVIOUS
  <2>1. Matches(request, Jar)
    BY DEF IInv, RequestOK
  <2>2. request.origin = NoSite /\ "cookies" \in request.types
    BY <2>1, ItemParts DEF Matches, TreesOf
  <2> QED BY <2>2 DEF EngineWork
<1> HIDE DEF doing
<1>5. /\ token' = token + 1 /\ token' \in Nat /\ outstanding' \in Nat /\ late' = FALSE
      /\ asked' \subseteq Questions /\ IsFiniteSet(asked')
      /\ outstanding' = Cardinality({a \in asked' : a.step = token'})
      /\ \A a \in asked' : a \in asked \/ (a.step = token' /\ a.does \in doing /\ a.of = request.origin)
      /\ \A d \in doing : \E a \in asked' : a.step = token' /\ a.does = d
  BY <1>1, <1>3, AskingCounts
<1>6. TypeOK'
  <2>1. TypeOK
    BY DEF IInv
  <2>2. UNCHANGED <<open, revised, settling, memory, files, ledger, dirty, ledgerFile, queue, clearing, request, done,
                    requested, listing, scanned, published, reading, work, frame, condemned, overtaken>>
    BY <1>1 DEF siteVars, ledgerVars, listVars
  <2>3. /\ phase' \in {"idle", "measuring", "flushing", "engine", "sweeping"} /\ token' \in Nat
        /\ outstanding' \in Nat /\ asked' \subseteq Questions /\ late' \in BOOLEAN /\ unsaved' \subseteq Items
    BY <1>1, <1>5, <2>1 DEF TypeOK
  <2> QED BY <2>1, <2>2, <2>3 DEF TypeOK
<1>7. AskedOK' /\ StepsCountTheirOwn'
  <2>1. token \in Nat /\ \A a \in asked : a.step \in Nat /\ a.step <= token /\ a.of = request.origin /\ a.does \in {"sync", "flush"}
    BY <1>1 DEF IInv, TypeOK, AskedOK, Questions
  <2>2. \A a \in asked' : /\ a.step <= token' /\ a.of = request.origin
                          /\ a.step # token' => a.does \in {"sync", "flush"}
                          /\ a.step = token' => a.does \in doing
    BY <1>5, <2>1
  <2> QED BY <1>1, <1>5, <2>2 DEF AskedOK, StepsCountTheirOwn, doing
<1>8. WorkOK'
  BY <1>1 DEF IInv, WorkOK, listVars
<1>9. RequestOK' /\ ClearingIsShown'
  BY <1>1 DEF IInv, RequestOK, ClearingIsShown, Whole, Matches
<1>10. TakenOK'
  BY <1>1, <1>4, <1>5 DEF TakenOK
<1>11. SparedOK'
  <2>1. unsaved' \cap memory = {}
    <3>1. CASE late /\ outstanding > 0
      BY <1>1, <3>1
    <3>2. CASE outstanding = 0
      <4>1. IsFiniteSet({a \in asked : a.step = token})
        BY FS_Subset DEF IInv, AskedOK
      <4>2. {a \in asked : a.step = token} = {}
        BY <1>1, <3>2, <4>1, FS_EmptySet DEF IInv, StepsCountTheirOwn
      <4>3. unsaved \cap memory = {}
        BY <1>1, <4>2 DEF IInv, SparedOK
      <4> QED BY <1>1, <3>2, <4>3
    <3> QED BY <1>1, <3>1, <3>2 DEF StepIsOver, IInv, TypeOK
  <2> QED BY <1>1, <2>1 DEF SparedOK, siteVars
<1> QED BY <1>1, <1>6, <1>7, <1>8, <1>9, <1>10, <1>11, LedgerKept DEF IInv

\* Once all have answered, none of the questions of the step is left.
LEMMA AllHaveAnswered ==
  ASSUME IInv, phase \in {"flushing", "engine"}, outstanding = 0
  PROVE  \A a \in asked : a.step # token
<1>1. IsFiniteSet({a \in asked : a.step = token})
  BY FS_Subset DEF IInv, AskedOK
<1>2. {a \in asked : a.step = token} = {}
  BY <1>1, FS_EmptySet DEF IInv, StepsCountTheirOwn
<1> QED BY <1>2

LEMMA StartSweepingStep == ASSUME IInv, StartSweeping PROVE IInv'
<1> DEFINE job == [job |-> "sweep", of |-> request, sites |-> {}]
<1>1. /\ phase = "engine" /\ StepIsOver /\ phase' = "sweeping" /\ done' = FALSE
      /\ memory' = {} /\ asked' = {} /\ Submit(job)
      /\ condemned' = IF request.recent /\ outstanding > 0 THEN condemned \ {Jar} ELSE condemned
      /\ UNCHANGED <<open, revised, settling, files, ledgerVars, queue, clearing, request, token, outstanding, late, listVars, frame, asks, events, unsaved, overtaken>>
  BY DEF StartSweeping, Terminated
<1>2. job \in Jobs /\ job.job = "sweep" /\ job.of = request
  BY DEF Jobs, IInv, TypeOK
<1> HIDE DEF job
<1>3. WorkOK' /\ work' \in Seq(Jobs)
  <2>1. \A n \in 1..Len(work) : work[n].job = "scan"
    BY <1>1 DEF IInv, WorkOK
  <2>2. /\ \A n \in 1..Len(work) : ~(work[n].job = "scan" <=> job.job = "scan")
        /\ job.job # "scan" /\ ~done' /\ UNCHANGED <<listing, scanned>>
        /\ phase' = "sweeping" /\ job.job = "sweep" /\ job.of = request'
    BY <1>1, <1>2, <2>1 DEF listVars
  <2>3. scanned' => listing' = "scanning"
    BY <2>2 DEF IInv, WorkOK
  <2> QED BY <1>1, <1>2, <2>2, <2>3, SubmitWork
<1>4. TypeOK'
  <2>1. TypeOK
    BY DEF IInv
  <2>2. UNCHANGED <<open, revised, settling, files, ledger, dirty, ledgerFile, queue, clearing, request, token, outstanding,
                    late, requested, listing, scanned, published, reading, frame, unsaved, overtaken>>
    BY <1>1 DEF ledgerVars, listVars
  <2>3. /\ memory' \subseteq Items \ {Jar} /\ phase' \in {"idle", "measuring", "flushing", "engine", "sweeping"}
        /\ asked' \subseteq Questions /\ done' \in BOOLEAN /\ work' \in Seq(Jobs) /\ condemned' \subseteq Items
    BY <1>1, <1>3, <2>1 DEF TypeOK
  <2> QED BY <2>1, <2>2, <2>3 DEF TypeOK
<1>5. AskedOK' /\ StepsCountTheirOwn'
  BY <1>1, FS_EmptySet DEF AskedOK, StepsCountTheirOwn
<1>6. RequestOK' /\ ClearingIsShown'
  BY <1>1 DEF IInv, RequestOK, ClearingIsShown, Whole, Matches
<1>7. TakenOK'
  <2>1. ASSUME request.recent, Jar \in condemned' PROVE files[Jar] = "none"
    <3>1. Jar \in condemned /\ outstanding = 0
      BY <1>1, <2>1 DEF IInv, TypeOK
    <3> QED BY <1>1, <3>1, AllHaveAnswered DEF IInv, TakenOK
  <2> QED BY <1>1, <2>1 DEF TakenOK
<1>8. SparedOK'
  BY <1>1 DEF SparedOK
<1> QED BY <1>1, <1>3, <1>4, <1>5, <1>6, <1>7, <1>8, LedgerKept DEF IInv

\* The mark goes only with a file that was written.
LEMMA SavedLedger ==
  ASSUME IInv, NEW l \in [Sites -> Ages], NEW d \in BOOLEAN, Saved(l, d), ~d => l = ledger
  PROVE  /\ LedgerFileFollows'
         /\ ledger' \in [Sites -> Ages] /\ dirty' \in BOOLEAN /\ ledgerFile' \in [Sites -> Ages]
<1>1. dirty \in BOOLEAN /\ ledger \in [Sites -> Ages] /\ ledgerFile \in [Sites -> Ages]
  BY DEF IInv, TypeOK
<1>2. CASE ~d
  BY <1>1, <1>2 DEF Saved, LedgerFileFollows, IInv
<1>3. CASE d
  <2>1. [s \in Sites |-> "none"] \in [Sites -> Ages]
    BY DEF Ages
  <2> QED BY <1>1, <1>3, <2>1 DEF Saved, LedgerFileFollows
<1> QED BY <1>2, <1>3

LEMMA FinishRequestStep == ASSUME IInv, FinishRequest PROVE IInv'
<1> DEFINE left == Remaining(request)
           changed == dirty \/ left # ledger
<1>1. /\ phase = "sweeping" /\ done /\ Saved(left, changed)
      /\ phase' = "idle" /\ request' = NoRequest /\ done' = FALSE
      /\ requested' = TRUE /\ clearing' = FlagAfter
      /\ overtaken' = (overtaken \/ (frame = "clearing" /\ queue = <<>>))
      /\ condemned' = {}
      /\ UNCHANGED <<siteVars, queue, token, outstanding, asked, late, listing, scanned, published, reading, work, frame, asks, events, unsaved>>
  BY DEF FinishRequest
<1>2. left \in [Sites -> Ages] /\ changed \in BOOLEAN /\ (~changed => left = ledger)
  BY DEF Remaining, Ages, IInv, TypeOK
<1> HIDE DEF left, changed
<1>3. /\ LedgerFileFollows'
      /\ ledger' \in [Sites -> Ages] /\ dirty' \in BOOLEAN /\ ledgerFile' \in [Sites -> Ages]
  BY <1>1, <1>2, SavedLedger
<1>4. TypeOK'
  <2>1. clearing' \in BOOLEAN /\ overtaken' \in BOOLEAN
    BY <1>1 DEF FlagAfter, IInv, TypeOK
  <2> QED BY <1>1, <1>3, <2>1, NoRequestIsOne DEF IInv, TypeOK, siteVars
<1>5. AskedOK' /\ StepsCountTheirOwn'
  <2>1. asked' = {}
    BY <1>1 DEF IInv, AskedOK
  <2> QED BY <1>1, <2>1, FS_EmptySet DEF AskedOK, StepsCountTheirOwn
<1>6. WorkOK'
  BY <1>1 DEF IInv, WorkOK
<1>7. RequestOK'
  BY <1>1, NoRequestIsOne DEF IInv, RequestOK, Whole
<1>8. ClearingIsShown'
  BY <1>1 DEF IInv, ClearingIsShown, FlagAfter
<1>9. TakenOK' /\ SparedOK'
  BY <1>1 DEF TakenOK, SparedOK
<1> QED BY <1>3, <1>4, <1>5, <1>6, <1>7, <1>8, <1>9 DEF IInv

LEMMA TimePassesStep == ASSUME IInv, TimePasses PROVE IInv'
<1>1. /\ late' = TRUE
      /\ UNCHANGED <<siteVars, ledgerVars, queue, clearing, phase, request, token, outstanding, asked, done, listVars, work, frame, asks, events, history>>
  BY DEF TimePasses
<1>2. UNCHANGED <<files, memory, condemned, unsaved, listing, scanned>>
  BY <1>1 DEF siteVars, listVars, history
<1>3. TypeOK'
  BY <1>1 DEF IInv, TypeOK, siteVars, ledgerVars, listVars, history
<1> QED BY <1>1, <1>2, <1>3, AskedKept, WorkKept, RequestKept, ClearingKept, LedgerKept, FilesKept DEF IInv

-----------------------------------------------------------------------------
(* The list, the session and the worker.                                    *)

LEMMA RecordsPumpStep == ASSUME IInv, RecordsPump PROVE IInv'
<1>1. UNCHANGED <<siteVars, ledgerVars, removalVars, published, reading, work, frame, asks, events, history>>
  BY DEF RecordsPump
<1>2. \/ /\ listing = "idle" /\ requested /\ requested' = FALSE /\ listing' = "asking"
         /\ UNCHANGED scanned
      \/ /\ listing = "scanning" /\ scanned /\ scanned' = FALSE /\ listing' = "idle"
         /\ UNCHANGED requested
  BY DEF RecordsPump
<1>3. TypeOK'
  <2>1. requested' \in BOOLEAN /\ listing' \in {"idle", "asking", "scanning"} /\ scanned' \in BOOLEAN
    BY <1>2 DEF IInv, TypeOK
  <2> QED BY <1>1, <2>1 DEF IInv, TypeOK, siteVars, ledgerVars, removalVars, history
<1>4. UNCHANGED <<files, memory, condemned, unsaved, asked, token, phase, done, request, outstanding, queue, clearing>>
  BY <1>1 DEF siteVars, removalVars, history
<1>5. WorkOK'
  BY <1>1, <1>2, <1>4 DEF IInv, WorkOK
<1> QED BY <1>1, <1>3, <1>4, <1>5, AskedKept, RequestKept, ClearingKept, LedgerKept, FilesKept DEF IInv

LEMMA CachesNamedStep == ASSUME IInv, CachesNamed PROVE IInv'
<1> DEFINE job == [job |-> "scan", of |-> NoRequest, sites |-> NamesOfCaches]
<1>1. /\ listing = "asking" /\ listing' = "scanning" /\ scanned' = FALSE /\ Submit(job)
      /\ UNCHANGED <<siteVars, ledgerVars, removalVars, requested, published, reading, frame, asks, events, history>>
  BY DEF CachesNamed
<1>2. job \in Jobs /\ job.job = "scan"
  <2>1. NamesOfCaches \subseteq Sites
    <3> SUFFICES ASSUME NEW i \in Items, i[3] = "dom" PROVE i[2] \in Sites
      BY DEF NamesOfCaches
    <3>1. i # Jar
      BY DEF Jar
    <3> QED BY <3>1, ItemParts
  <2> QED BY <2>1, NoRequestIsOne DEF Jobs
<1> HIDE DEF job
<1>3. UNCHANGED <<files, memory, condemned, unsaved, asked, token, phase, done, request, outstanding, queue, clearing>>
  BY <1>1 DEF siteVars, removalVars, history
<1>4. WorkOK' /\ work' \in Seq(Jobs)
  <2>1. \A n \in 1..Len(work) : work[n].job # "scan"
    BY <1>1 DEF IInv, WorkOK
  <2>2. \A n \in 1..Len(work) : ~(work[n].job = "scan" <=> job.job = "scan")
    BY <1>2, <2>1
  <2>3. done' => phase' \in {"measuring", "sweeping"}
    BY <1>3 DEF IInv, WorkOK
  <2> QED BY <1>1, <1>2, <1>3, <2>2, <2>3, SubmitWork
<1>5. TypeOK'
  <2>1. TypeOK
    BY DEF IInv
  <2>2. UNCHANGED <<open, revised, settling, memory, files, ledger, dirty, ledgerFile, queue, clearing, phase, request,
                    token, outstanding, asked, late, done, requested, published, reading, frame, condemned, unsaved,
                    overtaken>>
    BY <1>1 DEF siteVars, ledgerVars, removalVars, history
  <2>3. listing' \in {"idle", "asking", "scanning"} /\ scanned' \in BOOLEAN /\ work' \in Seq(Jobs)
    BY <1>1, <1>4, <2>1 DEF TypeOK
  <2> QED BY <2>1, <2>2, <2>3 DEF TypeOK
<1> QED BY <1>1, <1>3, <1>4, <1>5, AskedKept, RequestKept, ClearingKept, LedgerKept, FilesKept DEF IInv

LEMMA SessionPumpStep == ASSUME IInv, SessionPump PROVE IInv'
<1>1. UNCHANGED <<open, memory, files, removalVars, listVars, work, frame, asks, events, history>>
  BY DEF SessionPump
<1>2. /\ revised' \in BOOLEAN /\ settling' \in BOOLEAN /\ LedgerFileFollows'
      /\ ledger' \in [Sites -> Ages] /\ dirty' \in BOOLEAN /\ ledgerFile' \in [Sites -> Ages]
  <2>1. /\ revised \in BOOLEAN /\ settling \in BOOLEAN /\ LedgerFileFollows
        /\ ledger \in [Sites -> Ages] /\ dirty \in BOOLEAN /\ ledgerFile \in [Sites -> Ages]
    BY DEF IInv, TypeOK
  <2>2. CASE revised' = FALSE /\ settling' = TRUE /\ NotesOpen /\ UNCHANGED ledgerFile
    <3>1. Noted \in [Sites -> Ages]
      BY <2>1 DEF Noted, Ages
    <3> QED BY <2>1, <2>2, <3>1 DEF NotesOpen, LedgerFileFollows
  <2>3. CASE settling' = FALSE /\ Saved(ledger, dirty) /\ UNCHANGED revised
    BY <2>1, <2>3, SavedLedger
  <2> QED BY <2>2, <2>3 DEF SessionPump
<1>3. TypeOK'
  BY <1>1, <1>2 DEF IInv, TypeOK, removalVars, listVars, history
<1>4. UNCHANGED <<files, memory, condemned, unsaved, asked, token, phase, done, request, outstanding, queue, clearing, listing, scanned>>
  BY <1>1 DEF removalVars, listVars, history
<1> QED BY <1>1, <1>2, <1>3, <1>4, AskedKept, WorkKept, RequestKept, ClearingKept, FilesKept DEF IInv

\* The job in front is the one the removal waits for.
LEMMA JobInFront ==
  ASSUME IInv, work # <<>>
  PROVE  /\ Head(work) \in Jobs /\ Tail(work) \in Seq(Jobs)
         /\ Head(work).job = "scan" => listing = "scanning" /\ ~scanned
         /\ Head(work).job # "scan" => ~done
         /\ Head(work).job = "measure" => phase = "measuring"
         /\ Head(work).job = "sweep" => phase = "sweeping" /\ Head(work).of = request
<1>1. work \in Seq(Jobs) /\ WorkOK
  BY DEF IInv, TypeOK
<1>2. Head(work) = work[1] /\ 1 \in 1..Len(work) /\ Head(work) \in Jobs /\ Tail(work) \in Seq(Jobs)
  BY <1>1, Taken
<1> QED BY <1>1, <1>2 DEF WorkOK

LEMMA MeasureStep == ASSUME IInv, Measure PROVE IInv'
<1>1. /\ work # <<>> /\ Head(work).job = "measure" /\ work' = Tail(work) /\ done' = TRUE
      /\ UNCHANGED <<siteVars, ledgerVars, queue, clearing, phase, request, token, outstanding, asked, late, listVars, frame, asks, events, history>>
  BY DEF Measure, Working
<1>2. UNCHANGED <<files, memory, condemned, unsaved, listing, scanned>>
  BY <1>1 DEF siteVars, listVars, history
<1>3. WorkOK' /\ work' \in Seq(Jobs)
  BY <1>1, <1>2, WorkDone
<1>4. TypeOK'
  BY <1>1, <1>3 DEF IInv, TypeOK, siteVars, ledgerVars, listVars, history
<1>5. phase = "measuring"
  BY <1>1, JobInFront
<1>6. TakenOK' /\ SparedOK'
  BY <1>1, <1>5 DEF TakenOK, SparedOK
<1> QED BY <1>1, <1>2, <1>3, <1>4, <1>6, AskedKept, RequestKept, ClearingKept, LedgerKept DEF IInv

LEMMA SweepStep == ASSUME IInv, Sweep PROVE IInv'
<1> DEFINE of == Head(work).of
<1>1. PICK stays \in SUBSET (Held \cap ToSweep(of)) :
        /\ work # <<>> /\ Head(work).job = "sweep" /\ work' = Tail(work) /\ done' = TRUE
        /\ files' = Swept(of, stays) /\ condemned' = condemned \ stays
        /\ UNCHANGED <<open, revised, settling, memory, ledgerVars, queue, clearing, phase, request, token, outstanding, asked, late, listVars, frame, asks, events, unsaved, overtaken>>
  BY DEF Sweep, Working
<1>2. UNCHANGED <<memory, unsaved, listing, scanned>> /\ condemned' \subseteq condemned
  BY <1>1 DEF listVars
<1>3. phase = "sweeping" /\ files' = Swept(request, stays)
  BY <1>1, JobInFront
<1>4. WorkOK' /\ work' \in Seq(Jobs)
  BY <1>1, <1>2, WorkDone
<1>5. files \in [Items -> Ages] /\ condemned \subseteq Items
  BY DEF IInv, TypeOK
<1>6. files' \in [Items -> Ages]
  BY <1>3, <1>5 DEF Swept, Ages
<1>7. TypeOK'
  BY <1>1, <1>2, <1>4, <1>6 DEF IInv, TypeOK, ledgerVars, listVars
<1>8. TakenOK'
  <2>1. condemned \cap memory = {} /\ (request.recent /\ Jar \in condemned => files[Jar] = "none")
    BY <1>3 DEF IInv, TakenOK
  <2>2. \A i \in condemned' : /\ i \in condemned
                              /\ files'[i] = IF Matches(request, i) /\ InRange(request, i) THEN "none" ELSE files[i]
    BY <1>1, <1>3, <1>5 DEF Swept, ToSweep
  <2>3. ASSUME NEW i \in condemned' PROVE Gone(i)'
    <3>1. i \in condemned /\ Matches(request, i)
      BY <2>2 DEF IInv, RequestOK
    <3>2. CASE InRange(request, i)
      BY <2>2, <3>1, <3>2 DEF Gone
    <3>3. CASE ~InRange(request, i)
      <4>1. request.recent /\ files[i] \in {"none", "old"} /\ files'[i] = files[i]
        BY <1>5, <2>2, <3>1, <3>3 DEF InRange, Ages
      <4> QED BY <1>1, <2>1, <3>1, <4>1 DEF Gone
    <3> QED BY <3>2, <3>3
  <2>4. request.recent /\ Jar \in condemned' => files'[Jar] = "none"
    BY <2>1, <2>2
  <2> QED BY <1>1, <1>2, <1>3, <2>1, <2>3, <2>4 DEF TakenOK
<1>9. SparedOK'
  BY <1>1, <1>3 DEF SparedOK
<1> QED BY <1>1, <1>2, <1>4, <1>7, <1>8, <1>9, AskedKept, RequestKept, ClearingKept, LedgerKept DEF IInv

LEMMA ScanReadsStep == ASSUME IInv, ScanReads PROVE IInv'
<1>1. /\ work # <<>> /\ Head(work).job = "scan"
      /\ reading' = <<{s \in Sites : Known(s) /\ OnDisk(s)} \cup Head(work).sites>>
      /\ UNCHANGED <<siteVars, ledgerVars, removalVars, requested, listing, scanned, published, work, frame, asks, events, history>>
  BY DEF ScanReads, Working
<1>2. Head(work).sites \subseteq Sites
  BY <1>1, JobInFront DEF Jobs
<1>3. reading' \in Seq(SUBSET Sites)
  BY <1>1, <1>2
<1>4. TypeOK'
  BY <1>1, <1>3 DEF IInv, TypeOK, siteVars, ledgerVars, removalVars, history
<1>5. UNCHANGED <<files, memory, condemned, unsaved, asked, token, phase, done, request, outstanding, queue, clearing>>
  BY <1>1 DEF siteVars, removalVars, history
<1> QED BY <1>1, <1>4, <1>5, AskedKept, WorkKept, RequestKept, ClearingKept, LedgerKept, FilesKept DEF IInv

LEMMA ScanPublishesStep == ASSUME IInv, ScanPublishes PROVE IInv'
<1>1. /\ work # <<>> /\ Head(work).job = "scan" /\ reading # <<>>
      /\ published' = Head(reading) /\ reading' = <<>> /\ scanned' = TRUE /\ work' = Tail(work)
      /\ UNCHANGED <<siteVars, ledgerVars, removalVars, requested, listing, frame, asks, events, history>>
  BY DEF ScanPublishes, Working
<1>2. published' \subseteq Sites /\ reading' \in Seq(SUBSET Sites)
  <2>1. reading \in Seq(SUBSET Sites)
    BY DEF IInv, TypeOK
  <2>2. Head(reading) \in SUBSET Sites
    BY <1>1, <2>1, Taken
  <2> QED BY <1>1, <2>2, EmptySeq
<1>3. UNCHANGED <<files, memory, condemned, unsaved, asked, token, phase, done, request, outstanding, queue, clearing>>
  BY <1>1 DEF siteVars, removalVars, history
<1>4. WorkOK' /\ work' \in Seq(Jobs)
  BY <1>1, <1>3, WorkDone
<1>5. TypeOK'
  BY <1>1, <1>2, <1>4 DEF IInv, TypeOK, siteVars, ledgerVars, removalVars, history
<1> QED BY <1>1, <1>3, <1>4, <1>5, AskedKept, RequestKept, ClearingKept, LedgerKept, FilesKept DEF IInv

-----------------------------------------------------------------------------
(* The frame thread.                                                        *)

LEMMA AskStep == ASSUME IInv, NEW r \in Clearings, Ask(r) PROVE IInv'
<1>1. /\ frame = "idle" /\ queue' = Append(queue, r) /\ frame' = "clearing"
      /\ UNCHANGED <<siteVars, ledgerVars, clearing, phase, request, token, outstanding, asked, late, done, listVars, work, history>>
  BY DEF Ask
<1>2. UNCHANGED <<files, memory, condemned, unsaved, listing, scanned>>
  BY <1>1 DEF siteVars, listVars, history
<1>3. r \in Requests /\ Whole(r) /\ queue \in Seq(Requests)
  BY ProfileAssumption DEF IInv, TypeOK, Whole
<1>4. /\ queue' \in Seq(Requests) /\ Len(queue') = Len(queue) + 1 /\ Len(queue) \in Nat
      /\ queue'[Len(queue) + 1] = r /\ \A n \in 1..Len(queue) : queue'[n] = queue[n]
  BY <1>1, <1>3, Added
<1>5. TypeOK'
  BY <1>1, <1>4 DEF IInv, TypeOK, siteVars, ledgerVars, listVars, history
<1>6. RequestOK'
  <2>1. \A n \in 1..Len(queue') : Whole(queue'[n])
    <3> SUFFICES ASSUME NEW n \in 1..Len(queue') PROVE Whole(queue'[n])
      OBVIOUS
    <3>1. CASE n \in 1..Len(queue)
      BY <1>4, <3>1 DEF IInv, RequestOK
    <3>2. CASE n = Len(queue) + 1
      BY <1>3, <1>4, <3>2
    <3> QED BY <1>4, <3>1, <3>2
  <2> QED BY <1>1, <1>2, <2>1 DEF IInv, RequestOK, Whole, Matches
<1>7. ClearingIsShown'
  BY <1>1 DEF ClearingIsShown
<1> QED BY <1>1, <1>2, <1>5, <1>6, <1>7, AskedKept, WorkKept, LedgerKept, FilesKept DEF IInv

LEMMA SetFlagStep == ASSUME IInv, SetFlag PROVE IInv'
<1>1. /\ clearing' = TRUE /\ frame' = "idle"
      /\ UNCHANGED <<siteVars, ledgerVars, queue, phase, request, token, outstanding, asked, late, done, listVars, work, asks, events, history>>
  BY DEF SetFlag
<1>2. UNCHANGED <<files, memory, condemned, unsaved, listing, scanned>>
  BY <1>1 DEF siteVars, listVars, history
<1>3. TypeOK' /\ ClearingIsShown'
  BY <1>1 DEF IInv, TypeOK, ClearingIsShown, siteVars, ledgerVars, listVars, history
<1> QED BY <1>1, <1>2, <1>3, AskedKept, WorkKept, RequestKept, LedgerKept, FilesKept DEF IInv

LEMMA LookStep == ASSUME IInv, Look PROVE IInv'
<1>1. /\ requested' = TRUE
      /\ UNCHANGED <<siteVars, ledgerVars, removalVars, listing, scanned, published, reading, work, frame, asks, history>>
  BY DEF Look
<1>2. UNCHANGED <<files, memory, condemned, unsaved, asked, token, phase, done, request, outstanding, queue, clearing>>
  BY <1>1 DEF siteVars, removalVars, history
<1>3. TypeOK'
  BY <1>1 DEF IInv, TypeOK, siteVars, ledgerVars, removalVars, history
<1> QED BY <1>1, <1>2, <1>3, AskedKept, WorkKept, RequestKept, ClearingKept, LedgerKept, FilesKept DEF IInv

-----------------------------------------------------------------------------
(* The invariant.                                                          *)

LEMMA InitInv == Init => IInv
<1> SUFFICES ASSUME Init PROVE IInv
  OBVIOUS
<1>1. /\ open = {} /\ revised = FALSE /\ settling = FALSE /\ memory = {} /\ files = Found
      /\ ledger = Visited /\ dirty = FALSE /\ ledgerFile = Visited
      /\ queue = <<>> /\ clearing = FALSE /\ phase = "idle" /\ request = NoRequest
      /\ token = 0 /\ outstanding = 0 /\ asked = {} /\ late = FALSE /\ done = FALSE
      /\ requested = FALSE /\ listing = "idle" /\ scanned = FALSE /\ published = {} /\ reading = <<>>
      /\ work = <<>> /\ frame = "idle"
      /\ condemned = {} /\ unsaved = {} /\ overtaken = FALSE
  BY DEF Init
<1>2. TypeOK
  <2>1. queue \in Seq(Requests) /\ work \in Seq(Jobs) /\ reading \in Seq(SUBSET Sites)
    BY <1>1, EmptySeq
  <2> QED BY <1>1, <2>1, ProfileAssumption, NoRequestIsOne DEF TypeOK
<1>3. AskedOK /\ RequestOK /\ TakenOK /\ SparedOK
  BY <1>1, NoRequestIsOne, FS_EmptySet DEF AskedOK, RequestOK, TakenOK, SparedOK
<1>4. WorkOK
  BY <1>1 DEF WorkOK
<1>5. StepsCountTheirOwn /\ LedgerFileFollows /\ ClearingIsShown
  BY <1>1 DEF StepsCountTheirOwn, LedgerFileFollows, ClearingIsShown
<1> QED BY <1>2, <1>3, <1>4, <1>5 DEF IInv

LEMMA StutterStep == ASSUME IInv, UNCHANGED vars PROVE IInv'
<1>1. UNCHANGED <<siteVars, ledgerVars, removalVars, listVars, work, frame, history>>
  BY DEF vars
<1>2. UNCHANGED <<files, memory, condemned, unsaved, asked, token, phase, done, request, outstanding, queue, clearing, listing, scanned>>
  BY <1>1 DEF siteVars, removalVars, listVars, history
<1>3. TypeOK'
  BY <1>1 DEF IInv, TypeOK, siteVars, ledgerVars, removalVars, listVars, history
<1> QED BY <1>1, <1>2, <1>3, AskedKept, WorkKept, RequestKept, ClearingKept, LedgerKept, FilesKept DEF IInv

LEMMA NextInv == IInv /\ [Next]_vars => IInv'
<1> SUFFICES ASSUME IInv, [Next]_vars PROVE IInv'
  OBVIOUS
<1>1. CASE PageStep
  BY <1>1, VisitStep, PageWritesStep, NetworkWritesStep, ProfileAssumption DEF PageStep
<1>2. CASE \E a \in asked : Answers(a)
  BY <1>2, AnswersStep
<1>3. CASE RemovalPump
  BY <1>3, TakeRequestStep, StartFlushingStep, StartEngineStep, StartSweepingStep, FinishRequestStep DEF RemovalPump
<1>4. CASE RecordsPump \/ SessionPump \/ CachesNamed \/ TimePasses
  BY <1>4, RecordsPumpStep, SessionPumpStep, CachesNamedStep, TimePassesStep
<1>5. CASE WorkerStep
  BY <1>5, MeasureStep, SweepStep, ScanReadsStep, ScanPublishesStep DEF WorkerStep
<1>6. CASE FrameStep
  BY <1>6, AskStep, SetFlagStep, LookStep DEF FrameStep
<1>7. CASE UNCHANGED vars
  BY <1>7, StutterStep
<1> QED BY <1>1, <1>2, <1>3, <1>4, <1>5, <1>6, <1>7 DEF Next

LEMMA AlwaysIInv == Spec => []IInv
BY InitInv, NextInv, PTL DEF Spec

-----------------------------------------------------------------------------
(* The results.                                                            *)

\* The jobs of a kind are one at most.
LEMMA OneOfAKind ==
  ASSUME IInv, NEW A, A \subseteq 1..Len(work),
         \A m, n \in A : work[m].job = "scan" <=> work[n].job = "scan"
  PROVE  Cardinality(A) = IF A = {} THEN 0 ELSE 1
<1>1. CASE A = {}
  BY <1>1, FS_EmptySet
<1>2. CASE A # {}
  <2>1. PICK n \in A : TRUE
    BY <1>2
  <2>2. A = {n}
    BY <2>1 DEF IInv, WorkOK
  <2> QED BY <1>2, <2>2, FS_Singleton
<1> QED BY <1>1, <1>2

LEMMA WorkCounted == IInv => WorkIsAccountedFor
<1> SUFFICES ASSUME IInv PROVE WorkIsAccountedFor
  OBVIOUS
<1> DEFINE own == {n \in 1..Len(work) : work[n].job # "scan"}
           scans == {n \in 1..Len(work) : work[n].job = "scan"}
<1>1. /\ Cardinality(own) = IF own = {} THEN 0 ELSE 1
      /\ Cardinality(scans) = IF scans = {} THEN 0 ELSE 1
  BY OneOfAKind
<1>2. /\ own # {} => ~done /\ phase \in {"measuring", "sweeping"}
      /\ done => phase \in {"measuring", "sweeping"}
      /\ phase \in {"measuring", "sweeping"} => done \/ own # {}
  BY DEF IInv, WorkOK
<1>3. /\ scans # {} => ~scanned /\ listing = "scanning"
      /\ scanned => listing = "scanning"
      /\ listing = "scanning" => scanned \/ scans # {}
  BY DEF IInv, WorkOK
<1> HIDE DEF own, scans
<1>4. done \in BOOLEAN /\ scanned \in BOOLEAN
  BY DEF IInv, TypeOK
<1>5. Cardinality(own) + (IF done THEN 1 ELSE 0) = IF phase \in {"measuring", "sweeping"} THEN 1 ELSE 0
  BY <1>1, <1>2, <1>4
<1>6. Cardinality(scans) + (IF scanned THEN 1 ELSE 0) = IF listing = "scanning" THEN 1 ELSE 0
  BY <1>1, <1>3, <1>4
<1> QED BY <1>5, <1>6 DEF WorkIsAccountedFor, own, scans

\* A step of a removal waits for the answers to its own questions and for no others,
\* the worker has the job that the removal or the list waits for and no other, the
\* file of the ledger is the ledger unless it is marked, and the panel says that it
\* is clearing as long as a request waits (remove.cpp:51-53, records.cpp, origins.cpp).
THEOREM SiteDataIsConsistent == Spec => []SiteDataConsistent
<1>1. IInv => SiteDataConsistent
  BY WorkCounted DEF IInv, SiteDataConsistent
<1> QED BY <1>1, AlwaysIInv, PTL

\* Only WebKit's answers and the worker's sweep take files.
LEMMA FilesOfOthers ==
  ASSUME IInv, Next, ~(\E a \in asked : Answers(a)), ~Sweep
  PROVE  \A i \in Items : files[i] # "none" => files'[i] # "none"
<1>1. files \in [Items -> Ages]
  BY DEF IInv, TypeOK
<1>2. CASE UNCHANGED files
  BY <1>2
<1>3. CASE PageStep
  <2>1. ASSUME NEW s \in Sites, Visit(s) PROVE UNCHANGED files
    BY <2>1 DEF Visit
  <2>2. ASSUME NEW j \in Writes, PageWrites(j) PROVE \A i \in Items : files[i] # "none" => files'[i] # "none"
    BY <1>1, <2>2, ProfileAssumption DEF PageWrites
  <2>3. ASSUME NEW j \in Items, NetworkWrites(j) PROVE \A i \in Items : files[i] # "none" => files'[i] # "none"
    BY <2>3 DEF NetworkWrites, Written
  <2> QED BY <1>3, <2>1, <2>2, <2>3 DEF PageStep
<1>4. CASE RemovalPump
  BY <1>2, <1>4 DEF RemovalPump, TakeRequest, StartFlushing, StartEngine, StartSweeping, FinishRequest, siteVars
<1>5. CASE RecordsPump \/ SessionPump \/ CachesNamed \/ TimePasses
  BY <1>2, <1>5 DEF RecordsPump, SessionPump, CachesNamed, TimePasses, siteVars
<1>6. CASE WorkerStep
  BY <1>2, <1>6 DEF WorkerStep, Measure, ScanReads, ScanPublishes, siteVars
<1>7. CASE FrameStep
  BY <1>2, <1>7 DEF FrameStep, Ask, SetFlag, Look, siteVars
<1> QED BY <1>3, <1>4, <1>5, <1>6, <1>7 DEF Next

\* Only the removal's pump moves it from one phase to the next.
LEMMA PhaseOfOthers ==
  ASSUME Next, ~RemovalPump
  PROVE  UNCHANGED phase
<1>1. PageStep => UNCHANGED phase
  BY DEF PageStep, Visit, PageWrites, NetworkWrites, removalVars
<1>2. (\E a \in asked : Answers(a)) => UNCHANGED phase
  BY DEF Answers
<1>3. RecordsPump \/ SessionPump \/ CachesNamed \/ TimePasses => UNCHANGED phase
  BY DEF RecordsPump, SessionPump, CachesNamed, TimePasses, removalVars
<1>4. WorkerStep => UNCHANGED phase
  BY DEF WorkerStep, Measure, Sweep, ScanReads, ScanPublishes, removalVars
<1>5. FrameStep => UNCHANGED phase
  BY DEF FrameStep, Ask, SetFlag, Look, removalVars
<1> QED BY <1>1, <1>2, <1>3, <1>4, <1>5 DEF Next

LEMMA EndOfRemoval == Next /\ phase = "sweeping" /\ phase' = "idle" => FinishRequest
<1>1. Next => RemovalPump \/ UNCHANGED phase
  BY PhaseOfOthers
<1> QED BY <1>1 DEF RemovalPump, TakeRequest, StartFlushing, StartEngine, StartSweeping, FinishRequest

LEMMA SweepTakes ==
  ASSUME IInv, Sweep
  PROVE  /\ phase = "sweeping"
         /\ \A i \in Items : files[i] # "none" /\ files'[i] = "none" => Takeable(i)
<1>1. /\ work # <<>> /\ Head(work).job = "sweep"
      /\ \E stays : files' = Swept(Head(work).of, stays)
  BY DEF Sweep, Working
<1>2. phase = "sweeping" /\ \E stays : files' = Swept(request, stays)
  BY <1>1, JobInFront
<1>3. ASSUME NEW i \in Items, files[i] # "none", files'[i] = "none" PROVE Takeable(i)
  <2>1. Matches(request, i) /\ InRange(request, i)
    BY <1>2, <1>3 DEF Swept, ToSweep
  <2> QED BY <2>1 DEF Takeable, Matches, InRange, TreesOf
<1> QED BY <1>2, <1>3

\* A removal takes what it was asked to take, and nothing else: when it is over, what
\* it was asked for is neither in memory nor on disk, whichever answers never came;
\* and an answer that comes late takes nothing that was stored after the removal
\* (remove.cpp:230-309).
THEOREM TakesWhatIsAsked == Spec => RemovesWhatIsAsked
<1>1. ASSUME IInv, [Next]_vars PROVE [AskedIsGone /\ OnlyAskedGoes]_vars
  <2> SUFFICES ASSUME Next PROVE AskedIsGone /\ OnlyAskedGoes
    BY <1>1
  <2>1. AskedIsGone
    <3> SUFFICES ASSUME phase = "sweeping", phase' = "idle", NEW i \in condemned
                 PROVE  i \notin memory /\ Gone(i)
      BY DEF AskedIsGone, Gone
    <3>1. done
      BY EndOfRemoval DEF FinishRequest
    <3> QED BY <1>1, <3>1 DEF IInv, TakenOK
  <2>2. OnlyAskedGoes
    <3> SUFFICES ASSUME NEW i \in Items, files[i] # "none", files'[i] = "none"
                 PROVE  phase \in {"engine", "sweeping"} /\ Takeable(i)
      BY DEF OnlyAskedGoes, Takeable
    <3>1. CASE \E a \in asked : Answers(a)
      BY <1>1, <3>1, EffectOfAnswer DEF Answers
    <3>2. CASE Sweep
      BY <1>1, <3>2, SweepTakes
    <3> QED BY <1>1, <3>1, <3>2, FilesOfOthers
  <2> QED BY <2>1, <2>2
<1> QED BY <1>1, AlwaysIInv, PTL DEF Spec, RemovesWhatIsAsked

\* The network process is ended for the files' sake, with whatever it holds; what it
\* held as the removal began to flush is written by then, unless WebKit let the
\* deadline of the flush pass (remove.cpp:207-209, 288-290).
THEOREM SparesTheUnsaved == Spec => UnsavedIsSpared
<1>1. ASSUME IInv, [Next]_vars
      PROVE  [(phase = "engine" /\ phase' = "sweeping") => unsaved \cap memory = {}]_vars
  BY <1>1 DEF IInv, SparedOK
<1> QED BY <1>1, AlwaysIInv, PTL DEF Spec, UnsavedIsSpared

-----------------------------------------------------------------------------
(* Library.                                                                *)
(*                                                                         *)
(* Two writers carry encoded models to the files, and what keeps a file from *)
(* going back in time is that the job of a model that is last in the way    *)
(* holds the model as it is, for as long as the model is not marked.        *)

\* What the constants of Library are assumed to be.
LibraryAssumptions == L!TreeAssumption /\ L!LibraryAssumption /\ L!FoundAssumption

\* The times of an entry.
Timeline(s, t) ==
  /\ s \in Seq(Int) /\ Len(s) \in 1..MaxVisits
  /\ \A i, j \in 1..Len(s) : i < j => s[i] < s[j]
  /\ \A i \in 1..Len(s) : s[i] <= t

\* A history as the code keeps it, at time t.
InTime(h, t) ==
  /\ h = [u \in DOMAIN h |-> h[u]] /\ DOMAIN h \subseteq URLs
  /\ IsFiniteSet(DOMAIN h) /\ Cardinality(DOMAIN h) <= MaxEntries
  /\ \A u \in DOMAIN h : Timeline(h[u], t)

\* The operators of the library that Library brings with it are those of this module.
LEMMA SameInLibrary ==
  /\ \A list : L!Range(list) = Range(list)
  /\ \A list, S : L!Only(list, S) = Only(list, S)
  /\ \A S : L!Cardinality(S) = Cardinality(S) /\ (L!IsFiniteSet(S) <=> IsFiniteSet(S))
  /\ \A f, S : L!Restrict(f, S) = [x \in S |-> f[x]]
<1>1. ASSUME NEW list PROVE L!Range(list) = Range(list)
  BY DEF L!Range, Range
<1>2. ASSUME NEW list, NEW S PROVE L!Only(list, S) = Only(list, S)
  BY DEF L!Only, Only, L!Cardinality, Cardinality, L!IsFiniteSet
<1>3. ASSUME NEW S PROVE L!Cardinality(S) = Cardinality(S) /\ (L!IsFiniteSet(S) <=> IsFiniteSet(S))
  BY DEF L!Cardinality, Cardinality, L!IsFiniteSet, IsFiniteSet
<1>4. ASSUME NEW f, NEW S PROVE L!Restrict(f, S) = [x \in S |-> f[x]]
  BY DEF L!Restrict
<1> QED BY <1>1, <1>2, <1>3, <1>4

-----------------------------------------------------------------------------
(* The history and its file.                                               *)

\* A map of the places of a list onto themselves that keeps their order moves none.
LEMMA NothingMoves ==
  ASSUME NEW n \in Nat, NEW p \in [1..n -> 1..n], \A i, j \in 1..n : i < j => p[i] < p[j]
  PROVE  \A i \in 1..n : p[i] = i
<1>1. ASSUME NEW i \in 1..n, p[i] < i PROVE FALSE
  <2> DEFINE D == {k \in 1..n : p[k] < k}
  <2>1. D \in SUBSET Nat /\ D # {}
    BY <1>1
  <2>2. PICK k \in D : \A m \in D : k <= m
    <3> HIDE DEF D
    <3> QED BY <2>1, LeastNatural
  <2>3. k \in 1..n /\ p[k] < k /\ p[k] \in 1..n
    BY <2>2
  <2>4. k - 1 \in 1..n /\ k - 1 \notin D
    BY <2>2, <2>3
  <2>5. p[k - 1] >= k - 1 /\ p[k - 1] < p[k] /\ p[k - 1] \in 1..n
    BY <2>3, <2>4
  <2> QED BY <2>3, <2>5
<1>2. ASSUME NEW i \in 1..n, p[i] > i PROVE FALSE
  <2> DEFINE D == {k \in 0..n : n - k \in 1..n /\ p[n - k] > n - k}
  <2>1. n - i \in D /\ D \in SUBSET Nat
    BY <1>2
  <2>2. PICK k \in D : \A m \in D : k <= m
    <3> HIDE DEF D
    <3> QED BY <2>1, LeastNatural
  <2>3. k \in 0..n /\ n - k \in 1..n /\ p[n - k] > n - k /\ p[n - k] \in 1..n
    BY <2>2
  <2>4. k - 1 \in 0..n /\ n - (k - 1) \in 1..n /\ n - (k - 1) = (n - k) + 1
    BY <2>3
  <2>5. k - 1 \notin D
    <3>1. k \in Int /\ ~(k <= k - 1)
      BY <2>3
    <3> HIDE DEF D
    <3> QED BY <2>2, <3>1
  <2>6. p[(n - k) + 1] <= (n - k) + 1 /\ p[n - k] < p[(n - k) + 1] /\ p[(n - k) + 1] \in 1..n
    BY <2>3, <2>4, <2>5
  <2> QED BY <2>3, <2>6
<1>3. \A i \in 1..n : p[i] \in 1..n
  OBVIOUS
<1> QED BY <1>1, <1>2, <1>3

\* What is in order is sorted already, and within the cap already.
LEMMA SortedAlready ==
  ASSUME LibraryAssumptions, NEW t, NEW s, Timeline(s, t)
  PROVE  L!Capped(L!Sorted(s)) = s
<1> DEFINE n == Len(s)
           P == L!Bijection(DOMAIN s, DOMAIN s)
           all == {[i \in DOMAIN s |-> s[p[i]]] : p \in P}
           Orders(r) == \A i, j \in DOMAIN s : i < j => r[i] <= r[j]
<1>1. s \in Seq(Int) /\ n \in Nat /\ DOMAIN s = 1..n /\ s = [i \in 1..n |-> s[i]] /\ \A i \in 1..n : s[i] \in Int
  BY DEF Timeline
<1>2. \A p \in P : p \in [1..n -> 1..n] /\ \A i, j \in 1..n : p[i] = p[j] => i = j
  BY <1>1 DEF L!Bijection, L!Injection, L!IsInjective
<1>3. s \in all /\ Orders(s)
  <2> DEFINE id == [i \in 1..n |-> i]
  <2>1. id \in P
    BY <1>1 DEF L!Bijection, L!Injection, L!IsInjective, L!Surjection
  <2>2. [i \in DOMAIN s |-> s[id[i]]] = s
    BY <1>1
  <2>3. Orders(s)
    BY <1>1 DEF Timeline
  <2> HIDE DEF P, id
  <2> QED BY <2>1, <2>2, <2>3
<1>4. ASSUME NEW r \in all, Orders(r) PROVE r = s
  <2>1. PICK p \in P : r = [i \in DOMAIN s |-> s[p[i]]]
    BY <1>4
  <2>2. p \in [1..n -> 1..n] /\ \A i, j \in 1..n : p[i] = p[j] => i = j
    BY <1>2
  <2>3. \A i, j \in 1..n : i < j => s[p[i]] <= s[p[j]]
    BY <1>1, <1>4, <2>1
  <2>4. ASSUME NEW i \in 1..n, NEW j \in 1..n, i < j PROVE p[i] < p[j]
    <3>1. p[i] \in 1..n /\ p[j] \in 1..n /\ p[i] # p[j]
      BY <1>1, <2>2, <2>4
    <3>2. p[j] < p[i] => s[p[j]] < s[p[i]]
      BY <3>1 DEF Timeline
    <3>3. s[p[i]] <= s[p[j]] /\ s[p[i]] \in Int /\ s[p[j]] \in Int
      BY <1>1, <2>3, <2>4, <3>1
    <3> QED BY <1>1, <3>1, <3>2, <3>3
  <2>5. \A i \in 1..n : p[i] = i
    <3> HIDE DEF n, P
    <3> QED BY <1>1, <2>2, <2>4, NothingMoves
  <2> QED BY <1>1, <2>1, <2>5
<1>5. L!Sorted(s) = CHOOSE r \in all : Orders(r)
  BY DEF L!Sorted
<1>6. L!Sorted(s) = s
  <2> HIDE DEF all, Orders
  <2> QED BY <1>3, <1>4, <1>5
<1>7. L!Capped(s) = s
  BY <1>1 DEF L!Capped, Timeline, LibraryAssumptions, L!TreeAssumption
<1> QED BY <1>6, <1>7

\* What the history's file holds is read as it was written.
LEMMA HistoryReadsBack ==
  ASSUME LibraryAssumptions, NEW t, NEW h, InTime(h, t)
  PROVE  L!DecodedHistory(h) = h
<1>1. \A u \in DOMAIN h : L!Capped(L!Sorted(h[u])) = h[u]
  BY SortedAlready DEF InTime
<1> QED BY <1>1 DEF L!DecodedHistory, InTime

\* A list is one of its own members.
IsList(q) == q \in Seq(Range(q))

LEMMA OwnList == ASSUME NEW S, NEW q \in Seq(S) PROVE IsList(q)
<1>1. q = [i \in 1..Len(q) |-> q[i]] /\ Len(q) \in Nat /\ \A i \in 1..Len(q) : q[i] \in Range(q)
  BY DEF Range
<1> QED BY <1>1 DEF IsList

\* What changes no more than the members' order of a history keeps it in time.
LEMMA LaterInTime ==
  ASSUME NEW t \in Int, NEW s \in Int, t <= s, NEW h, InTime(h, t) PROVE InTime(h, s)
<1>1. \A u \in DOMAIN h : Timeline(h[u], s)
  <2>1. ASSUME NEW u \in DOMAIN h PROVE Timeline(h[u], s)
    <3>1. Timeline(h[u], t)
      BY DEF InTime
    <3>2. \A i \in 1..Len(h[u]) : h[u][i] \in Int /\ h[u][i] <= s
      BY <3>1 DEF Timeline
    <3> QED BY <3>1, <3>2 DEF Timeline
  <2> QED BY <2>1
<1> QED BY <1>1 DEF InTime

\* Only keeps the order of the list.
LEMMA OnlyKeepsOrder ==
  ASSUME NEW T, NEW list \in Seq(T), NEW S
  PROVE  \A k, m \in 1..Len(Only(list, S)) : k < m =>
           \E i, j \in 1..Len(list) : i < j /\ Only(list, S)[k] = list[i] /\ Only(list, S)[m] = list[j]
<1>1. /\ Len(Only(list, S)) = Cardinality(At(list, S))
      /\ \A i \in At(list, S) : Only(list, S)[Rank(list, S, i)] = list[i]
  BY OnlyProperties
<1>2. \A k \in 1..Cardinality(At(list, S)) : \E i \in At(list, S) : Rank(list, S, i) = k
  BY RankReaches
<1>3. \A i \in At(list, S) : i \in 1..Len(list) /\ i \in Nat
  BY DEF At
<1>4. ASSUME NEW i \in At(list, S), NEW j \in At(list, S), i >= j PROVE Rank(list, S, i) >= Rank(list, S, j)
  <2>1. Upto(list, S, j) \in SUBSET Upto(list, S, i)
    <3>1. \A n \in Upto(list, S, j) : n \in Upto(list, S, i)
      BY <1>3, <1>4 DEF Upto
    <3> QED BY <3>1
  <2>2. IsFiniteSet(Upto(list, S, i))
    BY AtIsFinite
  <2>3. Cardinality(Upto(list, S, j)) <= Cardinality(Upto(list, S, i))
    BY <2>1, <2>2, FS_Subset
  <2>4. Rank(list, S, i) \in Nat /\ Rank(list, S, j) \in Nat
    BY AtIsFinite
  <2> QED BY <2>3, <2>4 DEF Rank
<1>5. ASSUME NEW k \in 1..Len(Only(list, S)), NEW m \in 1..Len(Only(list, S)), k < m
      PROVE  \E i, j \in 1..Len(list) : i < j /\ Only(list, S)[k] = list[i] /\ Only(list, S)[m] = list[j]
  <2>1. PICK i \in At(list, S) : Rank(list, S, i) = k
    BY <1>1, <1>2
  <2>2. PICK j \in At(list, S) : Rank(list, S, j) = m
    BY <1>1, <1>2
  <2>3. ~(i >= j)
    <3>1. k \in Int /\ m \in Int
      OBVIOUS
    <3> QED BY <1>4, <1>5, <2>1, <2>2, <3>1
  <2>4. i < j
    BY <1>3, <2>3
  <2> QED BY <1>1, <1>3, <2>1, <2>2, <2>4
<1> QED BY <1>5

\* Some of the visits of an entry, if any are left, are an entry.
LEMMA SomeOfTimeline ==
  ASSUME LibraryAssumptions, NEW t, NEW s, Timeline(s, t), NEW S, Only(s, S) # <<>>
  PROVE  Timeline(Only(s, S), t)
<1> DEFINE r == Only(s, S)
<1>1. s \in Seq(Int) /\ Len(s) \in 1..MaxVisits
  BY DEF Timeline
<1>2. r \in Seq(Int) /\ Len(r) \in 0..Len(s) /\ \A k \in 1..Len(r) : r[k] \in Range(s)
  BY <1>1, OnlyProperties
<1>3. \A k, m \in 1..Len(r) : k < m => \E i, j \in 1..Len(s) : i < j /\ r[k] = s[i] /\ r[m] = s[j]
  BY <1>1, OnlyKeepsOrder
<1>4. \A k \in 1..Len(r) : \E i \in 1..Len(s) : r[k] = s[i]
  BY <1>1, <1>2, Listed
<1>5. Len(r) # 0
  BY <1>2, EmptySeq
<1> HIDE DEF r
<1>6. Len(r) \in 1..MaxVisits
  BY <1>1, <1>2, <1>5 DEF LibraryAssumptions, L!TreeAssumption
<1>7. \A k, m \in 1..Len(r) : k < m => r[k] < r[m]
  BY <1>3 DEF Timeline
<1>8. \A k \in 1..Len(r) : r[k] <= t
  BY <1>4 DEF Timeline
<1>9. Timeline(r, t)
  BY <1>2, <1>6, <1>7, <1>8 DEF Timeline
<1> QED BY <1>9 DEF r

\* Part of a history is a history.
LEMMA PartInTime ==
  ASSUME LibraryAssumptions, NEW t, NEW h, InTime(h, t), NEW K \in SUBSET DOMAIN h, NEW g, DOMAIN g = K, g = [u \in K |-> g[u]],
         \A u \in K : Timeline(g[u], t)
  PROVE  InTime(g, t)
<1>1. IsFiniteSet(K) /\ Cardinality(K) <= Cardinality(DOMAIN h) /\ Cardinality(K) \in Nat /\ Cardinality(DOMAIN h) \in Nat
  BY FS_Subset, FS_CardinalityType DEF InTime
<1> QED BY <1>1 DEF InTime, LibraryAssumptions, L!TreeAssumption

\* What the operations make of a history is one.
LEMMA ForgottenInTime ==
  ASSUME LibraryAssumptions, NEW t, NEW h, InTime(h, t), NEW urls PROVE InTime(L!Forgotten(h, urls), t)
<1> DEFINE K == DOMAIN h \ urls
           g == [u \in K |-> h[u]]
<1>1. L!Forgotten(h, urls) = g
  BY SameInLibrary DEF L!Forgotten
<1>2. \A u \in K : Timeline(g[u], t)
  BY DEF InTime
<1>3. K \in SUBSET DOMAIN h /\ DOMAIN g = K /\ g = [u \in K |-> g[u]]
  OBVIOUS
<1> HIDE DEF K, g
<1> QED BY <1>1, <1>2, <1>3, PartInTime

LEMMA ForgottenSinceInTime ==
  ASSUME LibraryAssumptions, NEW t, NEW h, InTime(h, t), NEW since PROVE InTime(L!ForgottenSince(h, since), t)
<1> DEFINE S(u) == {v \in Range(h[u]) : v < since}
           K == {u \in DOMAIN h : Only(h[u], S(u)) # <<>>}
           g == [u \in K |-> Only(h[u], S(u))]
<1>1. L!ForgottenSince(h, since) = g
  BY SameInLibrary DEF L!ForgottenSince
<1>2. \A u \in K : Timeline(g[u], t)
  <2>1. ASSUME NEW u \in K PROVE Timeline(g[u], t)
    <3>1. Timeline(h[u], t) /\ Only(h[u], S(u)) # <<>> /\ g[u] = Only(h[u], S(u))
      BY DEF InTime
    <3> HIDE DEF S, g
    <3> QED BY <3>1, SomeOfTimeline
  <2> QED BY <2>1
<1>3. K \in SUBSET DOMAIN h /\ DOMAIN g = K /\ g = [u \in K |-> g[u]]
  OBVIOUS
<1> HIDE DEF K, g
<1> QED BY <1>1, <1>2, <1>3, PartInTime

\* A visit put behind the others.
LEMMA VisitedInTime ==
  ASSUME LibraryAssumptions, NEW t \in Int, NEW s, s = <<>> \/ Timeline(s, t)
  PROVE  Timeline(L!Capped(IF s # <<>> /\ s[Len(s)] = t THEN s ELSE Append(s, t)), t)
<1>1. s \in Seq(Int) /\ Len(s) \in 0..MaxVisits /\ MaxVisits \in Nat /\ MaxVisits >= 1
  <2>1. MaxVisits \in Nat /\ MaxVisits >= 1
    BY DEF LibraryAssumptions, L!TreeAssumption
  <2>2. CASE s = <<>>
    BY <2>1, <2>2
  <2>3. CASE Timeline(s, t)
    BY <2>1, <2>3 DEF Timeline
  <2> QED BY <2>1, <2>2, <2>3
<1>2. \A i, j \in 1..Len(s) : i < j => s[i] < s[j]
  BY DEF Timeline
<1>3. \A i \in 1..Len(s) : s[i] \in Int /\ s[i] <= t
  BY <1>1 DEF Timeline
<1>4. CASE s # <<>> /\ s[Len(s)] = t
  <2>1. L!Capped(s) = s
    BY <1>1 DEF L!Capped
  <2> QED BY <1>4, <2>1
<1>5. CASE ~(s # <<>> /\ s[Len(s)] = t)
  <2> DEFINE new == Append(s, t)
  <2>1. /\ new \in Seq(Int) /\ Len(new) = Len(s) + 1
        /\ \A i \in 1..Len(s) : new[i] = s[i]
        /\ new[Len(s) + 1] = t
    BY <1>1, AppendOf
  <2> HIDE DEF new
  <2>2. \A i \in 1..Len(s) : s[i] < t
    <3>1. ASSUME NEW i \in 1..Len(s) PROVE s[i] < t
      <4>1. Len(s) \in 1..Len(s) /\ s # <<>>
        BY <1>1
      <4>2. s[Len(s)] < t
        BY <1>3, <1>5, <4>1
      <4>3. i = Len(s) \/ (i < Len(s) /\ s[i] < s[Len(s)])
        BY <1>1, <1>2, <4>1
      <4> QED BY <1>3, <4>1, <4>2, <4>3
    <3> QED BY <3>1
  <2>3. \A i, j \in 1..Len(new) : i < j => new[i] < new[j]
    <3>1. ASSUME NEW i \in 1..Len(new), NEW j \in 1..Len(new), i < j PROVE new[i] < new[j]
      <4>1. i \in 1..Len(s) /\ (j \in 1..Len(s) \/ j = Len(s) + 1)
        <5>1. Len(s) \in Nat /\ i \in 1..(Len(s) + 1) /\ j \in 1..(Len(s) + 1)
          BY <1>1, <2>1
        <5> QED BY <3>1, <5>1
      <4> QED BY <1>2, <2>1, <2>2, <3>1, <4>1
    <3> QED BY <3>1
  <2>4. \A i \in 1..Len(new) : new[i] <= t
    <3>1. ASSUME NEW i \in 1..Len(new) PROVE new[i] <= t
      <4>1. i \in 1..Len(s) \/ i = Len(s) + 1
        BY <1>1, <2>1
      <4> QED BY <1>3, <2>1, <4>1
    <3> QED BY <3>1
  <2>5. CASE Len(new) <= MaxVisits
    <3>1. L!Capped(new) = new
      BY <1>1, <2>1, <2>5 DEF L!Capped
    <3>2. Timeline(new, t)
      BY <1>1, <2>1, <2>3, <2>4, <2>5 DEF Timeline
    <3> QED BY <1>5, <3>1, <3>2 DEF new
  <2>6. CASE Len(new) > MaxVisits
    <3> DEFINE n == Len(new)
               from == n - MaxVisits + 1
               r == SubSeq(new, from, n)
    <3>1. L!Capped(new) = r
      BY <2>6 DEF L!Capped
    <3>2. n \in Nat /\ from \in 1..n /\ n - from + 1 = MaxVisits
      BY <1>1, <2>1, <2>6
    <3>3. r \in Seq(Int) /\ Len(r) = MaxVisits /\ \A k \in 1..MaxVisits : r[k] = new[from + k - 1]
      <4> HIDE DEF from
      <4> QED BY <1>1, <2>1, <3>2, SubSeqProperties
    <3>4. \A k \in 1..MaxVisits : from + k - 1 \in 1..n
      BY <1>1, <3>2
    <3>5. \A k, m \in 1..MaxVisits : k < m => from + k - 1 < from + m - 1
      BY <1>1, <3>2
    <3> HIDE DEF r, from, n
    <3>6. Timeline(r, t)
      <4>1. \A k, m \in 1..Len(r) : k < m => r[k] < r[m]
        BY <2>3, <3>3, <3>4, <3>5 DEF n
      <4>2. \A k \in 1..Len(r) : r[k] <= t
        BY <2>4, <3>3, <3>4 DEF n
      <4>3. Len(r) \in 1..MaxVisits
        BY <1>1, <3>3
      <4> QED BY <3>3, <4>1, <4>2, <4>3 DEF Timeline
    <3> QED BY <1>5, <3>1, <3>6 DEF new
  <2>7. Len(new) \in Nat
    BY <1>1, <2>1
  <2> QED BY <1>1, <2>5, <2>6, <2>7
<1> QED BY <1>4, <1>5

LEMMA RecordedInTime ==
  ASSUME LibraryAssumptions, NEW t \in Int, NEW h, InTime(h, t), NEW u \in URLs, NEW g \in L!Recorded(h, u, t)
  PROVE  InTime(g, t) /\ DOMAIN g \subseteq DOMAIN h \cup {u}
<1> DEFINE old == IF u \in DOMAIN h THEN h[u] ELSE <<>>
           visited == L!Capped(IF old # <<>> /\ old[Len(old)] = t THEN old ELSE Append(old, t))
           more == DOMAIN h \cup {u}
           longer == [v \in more |-> IF v = u THEN visited ELSE h[v]]
<1>1. g \in L!Trimmed(longer)
  BY DEF L!Recorded
<1>2. Timeline(visited, t)
  <2>1. old = <<>> \/ Timeline(old, t)
    BY DEF InTime
  <2> HIDE DEF old
  <2> QED BY <2>1, VisitedInTime
<1> HIDE DEF visited
<1>3. \A v \in more : Timeline(longer[v], t)
  BY <1>2 DEF InTime
<1>4. IsFiniteSet(more) /\ more \subseteq URLs /\ DOMAIN longer = more /\ longer = [v \in more |-> longer[v]]
  BY FS_AddElement DEF InTime
<1> HIDE DEF more, longer
<1>5. CASE Cardinality(more) <= MaxEntries
  <2>1. g = longer
    BY <1>1, <1>4, <1>5, SameInLibrary DEF L!Trimmed
  <2> QED BY <1>3, <1>4, <1>5, <2>1 DEF InTime, more
<1>6. CASE ~(Cardinality(more) <= MaxEntries)
  <2>1. PICK K \in SUBSET more : Cardinality(K) = MaxEntries /\ g = [v \in K |-> longer[v]]
    BY <1>1, <1>4, <1>6, SameInLibrary DEF L!Trimmed
  <2>2. IsFiniteSet(K)
    BY <1>4, FS_Subset
  <2>3. MaxEntries <= MaxEntries
    BY DEF LibraryAssumptions, L!TreeAssumption
  <2> QED BY <1>3, <1>4, <2>1, <2>2, <2>3 DEF InTime, more
<1> QED BY <1>5, <1>6

-----------------------------------------------------------------------------
(* The invariant.                                                          *)

LibraryTyped ==
  /\ now \in Nat /\ runs \in Nat /\ stage \in {"up", "ending", "over"} /\ disturbed \in BOOLEAN
  /\ IsList(work) /\ IsList(flushing)
  /\ DOMAIN mark = L!Models /\ DOMAIN pen = L!Writers /\ DOMAIN disk = L!Models /\ DOMAIN past = L!Models
  /\ committed \in [Tabs -> URLs \cup {NoURL}]

HistoryOK == InTime(entries, now) /\ \A h \in past["history"] : InTime(h, now)

\* What a file of a model may hold: what one of these models is written as.
IsPaper(m, p, P) ==
  IF m = "history" THEN p \in P
  ELSE L!DecodeTree(p) \in P /\ L!EncodeTree(L!DecodeTree(p)) = p

HasOpen(w, m) == pen[w].busy /\ pen[w].of = m

\* Whatever is queued, being written or in a file is what a model was at one time.
PapersOK(m) ==
  /\ \A i \in 1..Len(work) : work[i].of = m => IsPaper(m, work[i].holds, past[m])
  /\ \A i \in 1..Len(flushing) : flushing[i].of = m => IsPaper(m, flushing[i].holds, past[m])
  /\ \A w \in L!Writers : HasOpen(w, m) => IsPaper(m, pen[w].holds, past[m])
  /\ IsPaper(m, disk[m], past[m])

\* The flush begins with the end, and what it writes is the model as it stays.
FlushOK ==
  /\ stage = "up" => flushing = <<>> /\ ~pen["flusher"].busy
  /\ stage # "up" => \A m \in L!Models : mark[m] = "clean"
  /\ \A i \in 1..Len(flushing) : flushing[i].holds = L!Encoded(flushing[i].of)
  /\ pen["flusher"].busy => pen["flusher"].holds = L!Encoded(pen["flusher"].of)

Queued(m) == \E i \in 1..Len(work) : work[i].of = m
Flushed(m) == \E i \in 1..Len(flushing) : flushing[i].of = m

\* The worker leaves this in the file of m, if nothing fails.
Leaves(m, p) ==
  \/ \E i \in 1..Len(work) : /\ work[i].of = m /\ work[i].holds = p
                             /\ \A j \in 1..Len(work) : j > i => work[j].of # m
  \/ ~Queued(m) /\ HasOpen("worker", m) /\ pen["worker"].holds = p
  \/ ~Queued(m) /\ ~HasOpen("worker", m) /\ disk[m] = p

\* What is not marked is on its way into its file, last of all that is.
ArrivesOK(m) ==
  ~disturbed =>
    /\ HasOpen("flusher", m) => ~Queued(m) /\ ~HasOpen("worker", m)
    /\ mark[m] = "clean" /\ ~Flushed(m) /\ ~HasOpen("flusher", m) => Leaves(m, L!Encoded(m))

HistoryInv == LibraryTyped /\ HistoryOK /\ PapersOK("history")

FilesInv == HistoryInv /\ PapersOK("bookmarks") /\ FlushOK /\ \A m \in L!Models : ArrivesOK(m)

\* What the steps of the person and of the pages do to the rest.
LEMMA EditsAre ==
  ASSUME L!PersonStep \/ L!PageStep, LibraryTyped
  PROVE  /\ stage = "up" /\ UNCHANGED <<work, pen, flushing, disk, now, stage, runs, past, disturbed>>
         /\ \/ UNCHANGED <<tree, entries, mark>>
            \/ UNCHANGED entries /\ mark' = [mark EXCEPT !["bookmarks"] = "fresh"]
            \/ UNCHANGED tree /\ mark' = [mark EXCEPT !["history"] = "fresh"]
         /\ \/ UNCHANGED entries
            \/ \E u \in URLs : entries' \in L!Recorded(entries, u, now)
            \/ \E urls : entries' = L!Forgotten(entries, urls)
            \/ \E since : entries' = L!ForgottenSince(entries, since)
         /\ committed' \in [Tabs -> URLs \cup {NoURL}]
         /\ \A u \in URLs : u \notin DOMAIN entries /\ u \in DOMAIN entries' =>
              \E t \in Tabs : committed[t] # u /\ committed'[t] = u /\ entries' \in L!Recorded(entries, u, now)
<1> USE DEF L!Changes, L!Edits, LibraryTyped
<1> DEFINE Rest == stage = "up" /\ UNCHANGED <<work, pen, flushing, disk, now, stage, runs, past, disturbed>>
           Filed == Rest /\ UNCHANGED <<entries, committed>> /\ mark' = [mark EXCEPT !["bookmarks"] = "fresh"]
<1>0. /\ \A urls : DOMAIN L!Forgotten(entries, urls) \subseteq DOMAIN entries
      /\ \A since : DOMAIN L!ForgottenSince(entries, since) \subseteq DOMAIN entries
  BY SameInLibrary DEF L!Forgotten, L!ForgottenSince
<1>1. ASSUME NEW i, NEW f, NEW u, L!AddNode(f, i, u) PROVE Filed
  BY <1>1 DEF L!AddNode
<1>2. ASSUME NEW n, L!RemoveNode(n) PROVE Filed
  BY <1>2 DEF L!RemoveNode
<1>3. ASSUME NEW n, NEW f, NEW i, L!MoveNode(n, f, i) PROVE Filed
  BY <1>3 DEF L!MoveNode
<1>4. ASSUME NEW n, NEW u, L!SetURL(n, u) PROVE Filed
  BY <1>4 DEF L!SetURL
<1>5. ASSUME NEW u, L!Toggle(u) PROVE Filed
  BY <1>5 DEF L!Toggle
<1>6. ASSUME NEW urls, L!ForgetURLs(urls)
      PROVE  /\ Rest /\ UNCHANGED <<tree, committed>> /\ mark' = [mark EXCEPT !["history"] = "fresh"]
             /\ entries' = L!Forgotten(entries, urls)
  BY <1>6 DEF L!ForgetURLs
<1>7. ASSUME NEW s, L!ForgetSince(s)
      PROVE  /\ Rest /\ UNCHANGED <<tree, committed>> /\ mark' = [mark EXCEPT !["history"] = "fresh"]
             /\ entries' = L!ForgottenSince(entries, s)
  BY <1>7 DEF L!ForgetSince
<1>8. CASE L!PersonStep
  <2>1. \/ \E n, f, i, u : L!AddNode(f, i, u) \/ L!RemoveNode(n) \/ L!MoveNode(n, f, i) \/ L!SetURL(n, u) \/ L!Toggle(u)
        \/ \E urls : L!ForgetURLs(urls)
        \/ \E s : L!ForgetSince(s)
    BY <1>8, Zenon DEF L!PersonStep
  <2>2. CASE \E n, f, i, u : L!AddNode(f, i, u) \/ L!RemoveNode(n) \/ L!MoveNode(n, f, i) \/ L!SetURL(n, u) \/ L!Toggle(u)
    <3>1. Filed
      <4> HIDE DEF Filed
      <4> QED BY <1>1, <1>2, <1>3, <1>4, <1>5, <2>2, Zenon
    <3> QED BY <3>1
  <2>3. CASE \E urls : L!ForgetURLs(urls)
    BY <1>0, <1>6, <2>3
  <2>4. CASE \E s : L!ForgetSince(s)
    BY <1>0, <1>7, <2>4
  <2> QED BY <2>1, <2>2, <2>3, <2>4
<1>9. CASE L!PageStep
  <2>1. PICK t \in Tabs : L!PageGoes(t) \/ \E u \in URLs : L!PageReports(t, u)
    BY <1>9 DEF L!PageStep
  <2>2. CASE L!PageGoes(t)
    BY <2>2 DEF L!PageGoes, L!models, L!writing
  <2>3. CASE \E u \in URLs : L!PageReports(t, u)
    <3>1. PICK u \in URLs : L!PageReports(t, u)
      BY <2>3
    <3>2. /\ Rest /\ UNCHANGED tree
          /\ committed' = [committed EXCEPT ![t] = u]
          /\ UNCHANGED mark \/ mark' = [mark EXCEPT !["history"] = "fresh"]
          /\ IF committed[t] # u THEN entries' \in L!Recorded(entries, u, now) /\ mark' = [mark EXCEPT !["history"] = "fresh"]
             ELSE UNCHANGED entries
      BY <3>1 DEF L!PageReports, L!Reported, L!models, L!writing
    <3>3. committed' \in [Tabs -> URLs \cup {NoURL}] /\ committed'[t] = u
      BY <3>2
    <3>4. \A v \in URLs : v \notin DOMAIN entries /\ v \in DOMAIN entries' => v = u /\ committed[t] # u
      <4>1. ASSUME NEW g \in L!Recorded(entries, u, now) PROVE DOMAIN g \subseteq DOMAIN entries \cup {u}
        <5>1. PICK longer : DOMAIN longer = DOMAIN entries \cup {u} /\ g \in L!Trimmed(longer)
          BY <4>1 DEF L!Recorded
        <5>2. g = longer \/ \E K \in SUBSET DOMAIN longer : g = [v \in K |-> longer[v]]
          BY <5>1, SameInLibrary DEF L!Trimmed
        <5> QED BY <5>1, <5>2
      <4> QED BY <3>2, <4>1
    <3> QED BY <3>2, <3>3, <3>4
  <2> QED BY <2>1, <2>2, <2>3
<1> QED BY <1>8, <1>9

\* The tree needs to come back from its lines for what is written of it to be a paper.
ReadsBack(m) == m = "bookmarks" => L!TreeReadsBack

LEMMA EncodedIsPaper ==
  ASSUME NEW m \in L!Models, ReadsBack(m), NEW P, L!Parts(m) \in P
  PROVE  IsPaper(m, L!Encoded(m), P)
BY DEF ReadsBack, L!TreeReadsBack, IsPaper, L!Parts, L!Encoded, L!Models

LEMMA StillPaper ==
  ASSUME NEW m, NEW p, NEW P, IsPaper(m, p, P), NEW Q, P \subseteq Q PROVE IsPaper(m, p, Q)
BY DEF IsPaper

\* What pumping, flushing, writing and starting over do to the rest.
LEMMA PumpIs ==
  ASSUME LibraryTyped, NEW n \in L!Models, L!Pump(n)
  PROVE  /\ stage = "up" /\ mark[n] = "settled"
         /\ UNCHANGED <<tree, entries, committed, pen, flushing, disk, now, stage, runs, disturbed>>
         /\ DOMAIN mark' = L!Models /\ \A m \in L!Models : mark'[m] = IF m = n THEN "clean" ELSE mark[m]
         /\ DOMAIN past' = L!Models /\ \A m \in L!Models : past'[m] = IF m = n THEN past[m] \cup {L!Parts(m)} ELSE past[m]
         /\ IsList(work') /\ Len(work) \in Nat /\ Len(work') = Len(work) + 1
         /\ \A i \in 1..Len(work) : work'[i] = work[i]
         /\ work'[Len(work) + 1] = [of |-> n, holds |-> L!Encoded(n)]
<1>1. work \in Seq(Range(work)) /\ work' = Append(work, L!Copy(n)) /\ L!Copy(n) = [of |-> n, holds |-> L!Encoded(n)]
  BY DEF L!Pump, LibraryTyped, IsList, L!Copy
<1> DEFINE S == Range(work) \cup {L!Copy(n)}
<1>2. work \in Seq(S) /\ L!Copy(n) \in S
  BY <1>1
<1> HIDE DEF S
<1>3. /\ work' \in Seq(S) /\ Len(work') = Len(work) + 1 /\ Len(work) \in Nat
      /\ \A i \in 1..Len(work) : work'[i] = work[i]
      /\ work'[Len(work) + 1] = L!Copy(n)
  BY <1>1, <1>2, AppendOf
<1>4. IsList(work')
  BY <1>3, OwnList
<1> QED BY <1>1, <1>3, <1>4 DEF L!Pump, L!TakeMark, L!models, LibraryTyped

LEMMA TeardownIs ==
  ASSUME LibraryTyped, L!Teardown
  PROVE  /\ stage = "up" /\ stage' = "ending"
         /\ UNCHANGED <<tree, entries, work, pen, disk, now, runs, disturbed>>
         /\ mark' = [m \in L!Models |-> "clean"] /\ committed' = [t \in Tabs |-> NoURL]
         /\ DOMAIN past' = L!Models /\ \A m \in L!Models : past'[m] = past[m] \cup {L!Parts(m)}
         /\ IsList(flushing')
         /\ \A i \in 1..Len(flushing') : flushing'[i].of \in L!Models /\ flushing'[i].holds = L!Encoded(flushing'[i].of)
         /\ \A m \in L!Models : mark[m] # "clean" => \E i \in 1..Len(flushing') : flushing'[i].of = m
<1> DEFINE h == L!Copy("history")
           b == L!Copy("bookmarks")
           first == IF mark["history"] # "clean" THEN <<h>> ELSE <<>>
           second == IF mark["bookmarks"] # "clean" THEN <<b>> ELSE <<>>
<1>1. flushing' = first \o second
  BY DEF L!Teardown, L!Due
<1>2. h.of = "history" /\ h.holds = L!Encoded("history") /\ b.of = "bookmarks" /\ b.holds = L!Encoded("bookmarks")
  BY DEF L!Copy
<1> HIDE DEF h, b
<1>3. /\ flushing' \in Seq({h, b})
      /\ \A i \in 1..Len(flushing') : flushing'[i] \in {h, b}
      /\ mark["history"] # "clean" => 1 \in 1..Len(flushing') /\ flushing'[1] = h
      /\ mark["bookmarks"] # "clean" => Len(flushing') \in 1..Len(flushing') /\ flushing'[Len(flushing')] = b
  <2>1. CASE mark["history"] # "clean" /\ mark["bookmarks"] # "clean"
    <3> DEFINE f == <<h>>
               g == <<b>>
    <3>1. flushing' = f \o g
      BY <1>1, <2>1
    <3>2. f \in Seq({h, b}) /\ g \in Seq({h, b}) /\ Len(f) = 1 /\ Len(g) = 1 /\ f[1] = h /\ g[1] = b
      OBVIOUS
    <3> HIDE DEF f, g
    <3>3. /\ f \o g \in Seq({h, b}) /\ Len(f \o g) = 2
          /\ \A i \in 1..2 : (f \o g)[i] = IF i <= 1 THEN f[i] ELSE g[i - 1]
      BY <3>2, ConcatProperties
    <3>4. flushing' \in Seq({h, b}) /\ Len(flushing') = 2 /\ flushing'[1] = h /\ flushing'[2] = b
      BY <3>1, <3>2, <3>3
    <3> QED BY <3>4
  <2>2. CASE mark["history"] # "clean" /\ ~(mark["bookmarks"] # "clean")
    <3>1. flushing' = <<h>>
      BY <1>1, <2>2
    <3> QED BY <2>2, <3>1
  <2>3. CASE ~(mark["history"] # "clean") /\ mark["bookmarks"] # "clean"
    <3>1. flushing' = <<b>>
      BY <1>1, <2>3
    <3> QED BY <2>3, <3>1
  <2>4. CASE ~(mark["history"] # "clean") /\ ~(mark["bookmarks"] # "clean")
    <3>1. flushing' = <<>>
      BY <1>1, <2>4
    <3> QED BY <2>4, <3>1
  <2> QED BY <2>1, <2>2, <2>3, <2>4
<1>4. IsList(flushing')
  BY <1>3, OwnList
<1>5. \A i \in 1..Len(flushing') : flushing'[i].of \in L!Models /\ flushing'[i].holds = L!Encoded(flushing'[i].of)
  BY <1>2, <1>3 DEF L!Models
<1>6. \A m \in L!Models : mark[m] # "clean" => \E i \in 1..Len(flushing') : flushing'[i].of = m
  BY <1>2, <1>3 DEF L!Models
<1>7. DOMAIN past' = L!Models /\ \A m \in L!Models : past'[m] = past[m] \cup {L!Parts(m)}
  BY DEF L!Teardown
<1> QED BY <1>4, <1>5, <1>6, <1>7 DEF L!Teardown, L!models

LEMMA OpenFileIs ==
  ASSUME LibraryTyped, NEW w \in L!Writers, L!OpenFile(w)
  PROVE  /\ UNCHANGED <<tree, entries, committed, mark, disk, now, stage, runs, past>>
         /\ stage # "over" /\ ~pen[w].busy /\ DOMAIN pen' = L!Writers /\ disturbed' \in BOOLEAN
         /\ (disturbed => disturbed')
         /\ L!Jobs(w) \in Seq(Range(L!Jobs(w))) /\ L!Jobs(w) # <<>>
         /\ IF w = "worker" THEN work' = Tail(work) /\ UNCHANGED flushing ELSE flushing' = Tail(flushing) /\ UNCHANGED work
         /\ \A v \in L!Writers : v # w => pen'[v] = pen[v]
         /\ \/ disturbed' /\ UNCHANGED pen
            \/ LET j == Head(L!Jobs(w))
               IN  /\ pen'[w].busy /\ pen'[w].of = j.of /\ pen'[w].holds = j.holds
                   /\ ~disturbed' => ~disturbed /\ \A v \in L!Writers : v # w => ~HasOpen(v, j.of)
                   /\ ~disturbed' /\ w = "flusher" => ~Queued(j.of)
<1> DEFINE j == Head(L!Jobs(w))
<1>1. L!Jobs(w) \in Seq(Range(L!Jobs(w))) /\ L!Jobs(w) # <<>>
  BY DEF L!OpenFile, L!Jobs, LibraryTyped, IsList
<1>2. /\ UNCHANGED <<tree, entries, committed, mark, disk, now, stage, runs, past>> /\ stage # "over" /\ ~pen[w].busy
      /\ IF w = "worker" THEN work' = Tail(work) /\ UNCHANGED flushing ELSE flushing' = Tail(flushing) /\ UNCHANGED work
  BY DEF L!OpenFile, L!TakeJob, L!models
<1>3. CASE L!Meets(w, j.of)
  <2>1. disturbed' = TRUE /\ UNCHANGED pen
    BY <1>3 DEF L!OpenFile
  <2> QED BY <1>1, <1>2, <2>1 DEF LibraryTyped
<1>4. CASE ~L!Meets(w, j.of)
  <2>1. /\ pen' = [pen EXCEPT ![w] = [busy |-> TRUE, of |-> j.of, holds |-> j.holds]]
        /\ disturbed' = (disturbed \/ \E v \in L!Writers \ {w}, n \in 1..Len(work) : w = "flusher" /\ work[n].of = j.of)
    BY <1>4 DEF L!OpenFile
  <2>2. \A v \in L!Writers : v # w => ~HasOpen(v, j.of)
    BY <1>4 DEF L!Meets, HasOpen
  <2>3. ~disturbed' /\ w = "flusher" => ~Queued(j.of)
    <3>1. w = "flusher" => "worker" \in L!Writers \ {w}
      BY DEF L!Writers
    <3> HIDE DEF j
    <3> QED BY <2>1, <3>1 DEF Queued
  <2>4. DOMAIN pen' = L!Writers /\ pen'[w] = [busy |-> TRUE, of |-> j.of, holds |-> j.holds] /\ \A v \in L!Writers : v # w => pen'[v] = pen[v]
    BY <2>1 DEF LibraryTyped
  <2>5. disturbed' \in BOOLEAN /\ (~disturbed' => ~disturbed)
    BY <2>1 DEF LibraryTyped
  <2> HIDE DEF j
  <2>6. pen'[w].busy /\ pen'[w].of = j.of /\ pen'[w].holds = j.holds
    BY <2>4
  <2> QED BY <1>1, <1>2, <2>2, <2>3, <2>4, <2>5, <2>6 DEF j
<1> QED BY <1>3, <1>4

LEMMA FinishFileIs ==
  ASSUME LibraryTyped, NEW w \in L!Writers, NEW ok \in BOOLEAN, L!FinishFile(w, ok)
  PROVE  /\ UNCHANGED <<tree, entries, committed, mark, work, flushing, now, stage, runs, past>>
         /\ stage # "over" /\ pen[w].busy /\ DOMAIN pen' = L!Writers /\ DOMAIN disk' = L!Models
         /\ ~pen'[w].busy /\ \A v \in L!Writers : v # w => pen'[v] = pen[v]
         /\ disturbed' \in BOOLEAN /\ (~disturbed' => ~disturbed /\ ok)
         /\ \A m \in L!Models : disk'[m] = IF ok /\ HasOpen(w, m) THEN pen[w].holds ELSE disk[m]
BY DEF L!FinishFile, L!MovedOver, L!NoPen, L!models, LibraryTyped, HasOpen

LEMMA RestartIs ==
  ASSUME LibraryTyped, L!Restart
  PROVE  /\ tree' = L!DecodeTree(disk["bookmarks"]) /\ entries' = L!DecodedHistory(disk["history"])
         /\ committed' = [t \in Tabs |-> NoURL] /\ mark' = [m \in L!Models |-> "clean"]
         /\ work' = <<>> /\ flushing' = <<>> /\ IsList(work') /\ IsList(flushing')
         /\ DOMAIN pen' = L!Writers /\ \A w \in L!Writers : ~pen'[w].busy
         /\ stage' = "up" /\ runs' = runs + 1 /\ disturbed' = FALSE /\ UNCHANGED <<disk, now>>
         /\ DOMAIN past' = L!Models /\ past'["history"] = {entries'} /\ past'["bookmarks"] = {tree'}
<1> DEFINE none == <<>>
<1>1. IsList(none)
  <2>1. none \in Seq({})
    OBVIOUS
  <2> HIDE DEF none
  <2> QED BY <2>1, OwnList
<1>2. DOMAIN past' = L!Models /\ past'["history"] = {entries'} /\ past'["bookmarks"] = {tree'}
  BY DEF L!Restart, LibraryTyped, L!Models
<1>3. DOMAIN pen' = L!Writers /\ \A w \in L!Writers : ~pen'[w].busy
  BY DEF L!Restart, L!NoPen
<1> QED BY <1>1, <1>2, <1>3 DEF L!Restart, L!Load

\* A step of the clock, of a mark that has stood still, the end, or none.
MinorStep ==
  /\ UNCHANGED <<tree, entries, committed, work, pen, flushing, disk, runs, past, disturbed>>
  /\ now' = now \/ now' = now + 1
  /\ stage' = stage \/ (stage = "ending" /\ stage' = "over")
  /\ mark' = mark \/ (stage = "up" /\ \E n \in L!Models : mark[n] = "fresh" /\ mark' = [mark EXCEPT ![n] = "settled"])

LEMMA NextIs ==
  ASSUME [L!Next]_L!vars
  PROVE  \/ L!PersonStep \/ L!PageStep
         \/ MinorStep
         \/ \E n \in L!Models : L!Pump(n)
         \/ L!Teardown
         \/ \E w \in L!Writers : L!OpenFile(w)
         \/ \E w \in L!Writers, ok \in BOOLEAN : L!FinishFile(w, ok)
         \/ L!Restart
<1>1. CASE L!Tick
  BY <1>1 DEF L!Tick, MinorStep, L!models, L!writing
<1>2. ASSUME NEW n \in L!Models, L!Settle(n) PROVE MinorStep
  BY <1>2 DEF L!Settle, L!StoodStill, MinorStep, L!models
<1>3. CASE L!Shutdown
  BY <1>3 DEF L!Shutdown, MinorStep, L!models, L!writing
<1>4. CASE UNCHANGED L!vars
  BY <1>4 DEF L!vars, MinorStep, L!models, L!writing
<1>5. CASE L!Next
  BY <1>1, <1>2, <1>3, <1>5, Zenon DEF L!Next
<1> QED BY <1>4, <1>5

LEMMA TypedStep == ASSUME LibraryTyped, [L!Next]_L!vars PROVE LibraryTyped'
<1>1. CASE L!PersonStep \/ L!PageStep
  <2>1. /\ UNCHANGED <<work, pen, flushing, disk, now, stage, runs, past, disturbed>> /\ committed' \in [Tabs -> URLs \cup {NoURL}]
        /\ DOMAIN mark' = DOMAIN mark
    BY <1>1, EditsAre DEF L!Models
  <2> QED BY <2>1 DEF LibraryTyped, IsList
<1>2. CASE MinorStep
  <2>1. DOMAIN mark' = L!Models /\ now' \in Nat
    BY <1>2 DEF MinorStep, LibraryTyped
  <2> QED BY <1>2, <2>1 DEF LibraryTyped, IsList, MinorStep
<1>3. ASSUME NEW n \in L!Models, L!Pump(n) PROVE LibraryTyped'
  BY <1>3, PumpIs DEF LibraryTyped, IsList
<1>4. CASE L!Teardown
  <2>1. committed' \in [Tabs -> URLs \cup {NoURL}] /\ DOMAIN mark' = L!Models
    BY <1>4, TeardownIs
  <2> QED BY <1>4, <2>1, TeardownIs DEF LibraryTyped, IsList
<1>5. ASSUME NEW w \in L!Writers, L!OpenFile(w) PROVE LibraryTyped'
  <2>1. /\ UNCHANGED <<committed, mark, disk, now, stage, runs, past>>
        /\ DOMAIN pen' = L!Writers /\ disturbed' \in BOOLEAN
        /\ L!Jobs(w) \in Seq(Range(L!Jobs(w))) /\ L!Jobs(w) # <<>>
        /\ IF w = "worker" THEN work' = Tail(work) /\ UNCHANGED flushing ELSE flushing' = Tail(flushing) /\ UNCHANGED work
    BY <1>5, OpenFileIs
  <2>2. Tail(L!Jobs(w)) \in Seq(Range(L!Jobs(w)))
    BY <2>1, TailOf
  <2>3. IsList(Tail(L!Jobs(w)))
    BY <2>2, OwnList
  <2>4. IsList(work') /\ IsList(flushing')
    <3>1. CASE w = "worker"
      BY <2>1, <2>3, <3>1 DEF L!Jobs, LibraryTyped, IsList
    <3>2. CASE w # "worker"
      BY <2>1, <2>3, <3>2 DEF L!Jobs, LibraryTyped, IsList
    <3> QED BY <3>1, <3>2
  <2> QED BY <2>1, <2>4 DEF LibraryTyped, IsList
<1>6. ASSUME NEW w \in L!Writers, NEW ok \in BOOLEAN, L!FinishFile(w, ok) PROVE LibraryTyped'
  BY <1>6, FinishFileIs DEF LibraryTyped, IsList
<1>7. CASE L!Restart
  <2>1. committed' \in [Tabs -> URLs \cup {NoURL}] /\ DOMAIN mark' = L!Models
    BY <1>7, RestartIs
  <2>2. /\ UNCHANGED <<disk, now>> /\ IsList(work') /\ IsList(flushing') /\ DOMAIN pen' = L!Writers
        /\ stage' = "up" /\ runs' = runs + 1 /\ disturbed' = FALSE /\ DOMAIN past' = L!Models
    BY <1>7, RestartIs
  <2>3. now' \in Nat /\ runs' \in Nat /\ stage' \in {"up", "ending", "over"} /\ disturbed' \in BOOLEAN /\ DOMAIN disk' = L!Models
    <3>1. now' = now /\ disk' = disk /\ runs' = runs + 1 /\ stage' = "up" /\ disturbed' = FALSE
      BY <2>2
    <3>2. now \in Nat /\ runs \in Nat /\ DOMAIN disk = L!Models
      BY DEF LibraryTyped
    <3>3. runs + 1 \in Nat
      BY <3>2
    <3>4. disturbed' \in BOOLEAN
      BY <3>1, Zenon
    <3> QED BY <3>1, <3>2, <3>3, <3>4, Zenon
  <2>4. IsList(work)' /\ IsList(flushing)'
    BY <2>2 DEF IsList
  <2> QED BY <2>1, <2>2, <2>3, <2>4 DEF LibraryTyped
<1> QED BY <1>1, <1>2, <1>3, <1>4, <1>5, <1>6, <1>7, NextIs

LEMMA HistoryStep == ASSUME LibraryAssumptions, HistoryInv, [L!Next]_L!vars PROVE HistoryOK'
<1> USE DEF HistoryInv
<1>0. now \in Int /\ InTime(entries, now) /\ \A h \in past["history"] : InTime(h, now)
  BY DEF LibraryTyped, HistoryOK
<1>1. CASE L!PersonStep \/ L!PageStep
  <2>1. /\ UNCHANGED <<now, past>>
        /\ \/ UNCHANGED entries
           \/ \E u \in URLs : entries' \in L!Recorded(entries, u, now)
           \/ \E urls : entries' = L!Forgotten(entries, urls)
           \/ \E since : entries' = L!ForgottenSince(entries, since)
    BY <1>1, EditsAre
  <2>2. InTime(entries', now)
    BY <1>0, <2>1, RecordedInTime, ForgottenInTime, ForgottenSinceInTime
  <2> QED BY <1>0, <2>1, <2>2 DEF HistoryOK
<1>2. CASE MinorStep
  <2>1. UNCHANGED <<entries, past>> /\ now' \in Int /\ now <= now'
    BY <1>0, <1>2 DEF MinorStep
  <2> QED BY <1>0, <2>1, LaterInTime DEF HistoryOK
<1>3. ASSUME NEW n \in L!Models, L!Pump(n) PROVE HistoryOK'
  <2>1. UNCHANGED <<now, entries>> /\ past'["history"] \subseteq past["history"] \cup {entries}
    BY <1>3, PumpIs DEF L!Parts, L!Models
  <2> QED BY <1>0, <2>1 DEF HistoryOK
<1>4. CASE L!Teardown
  <2>1. UNCHANGED <<now, entries>> /\ past'["history"] = past["history"] \cup {entries}
    BY <1>4, TeardownIs DEF L!Parts, L!Models
  <2> QED BY <1>0, <2>1 DEF HistoryOK
<1>5. ASSUME NEW w \in L!Writers, L!OpenFile(w) PROVE HistoryOK'
  <2>1. UNCHANGED <<now, entries, past>>
    BY <1>5, OpenFileIs
  <2> QED BY <1>0, <2>1 DEF HistoryOK
<1>6. ASSUME NEW w \in L!Writers, NEW ok \in BOOLEAN, L!FinishFile(w, ok) PROVE HistoryOK'
  <2>1. UNCHANGED <<now, entries, past>>
    BY <1>6, FinishFileIs
  <2> QED BY <1>0, <2>1 DEF HistoryOK
<1>7. CASE L!Restart
  <2>1. now' = now /\ past'["history"] = {entries'} /\ entries' = L!DecodedHistory(disk["history"])
    BY <1>7, RestartIs
  <2>2. InTime(disk["history"], now)
    BY <1>0 DEF PapersOK, IsPaper
  <2>3. entries' = disk["history"]
    BY <2>1, <2>2, HistoryReadsBack
  <2> QED BY <2>1, <2>2, <2>3 DEF HistoryOK
<1> QED BY <1>1, <1>2, <1>3, <1>4, <1>5, <1>6, <1>7, NextIs

LEMMA PapersStep ==
  ASSUME LibraryAssumptions, HistoryInv, NEW m \in L!Models, PapersOK(m), ReadsBack(m), [L!Next]_L!vars
  PROVE  PapersOK(m)'
<1>0. LibraryTyped /\ IsPaper(m, L!Encoded(m), past[m] \cup {L!Parts(m)})
  BY EncodedIsPaper DEF HistoryInv
<1>1. ASSUME UNCHANGED <<work, pen, flushing, disk, past>> PROVE PapersOK(m)'
  BY <1>1 DEF PapersOK, HasOpen
<1>2. CASE L!PersonStep \/ L!PageStep
  BY <1>0, <1>1, <1>2, EditsAre
<1>3. CASE MinorStep
  BY <1>1, <1>3 DEF MinorStep
<1>4. ASSUME past[m] \subseteq past'[m], UNCHANGED disk, \A w \in L!Writers : pen'[w] = pen[w],
             \A i \in 1..Len(work') : \/ i \in 1..Len(work) /\ work'[i] = work[i]
                                      \/ work'[i].of = m => IsPaper(m, work'[i].holds, past'[m]),
             \A i \in 1..Len(flushing') : \/ i \in 1..Len(flushing) /\ flushing'[i] = flushing[i]
                                          \/ flushing'[i].of = m => IsPaper(m, flushing'[i].holds, past'[m])
      PROVE  PapersOK(m)'
  <2>1. \A p : IsPaper(m, p, past[m]) => IsPaper(m, p, past'[m])
    BY <1>4, StillPaper
  <2>2. \A i \in 1..Len(work') : work'[i].of = m => IsPaper(m, work'[i].holds, past'[m])
    BY <1>4, <2>1 DEF PapersOK
  <2>3. \A i \in 1..Len(flushing') : flushing'[i].of = m => IsPaper(m, flushing'[i].holds, past'[m])
    BY <1>4, <2>1 DEF PapersOK
  <2>4. \A w \in L!Writers : HasOpen(w, m)' => IsPaper(m, pen'[w].holds, past'[m])
    BY <1>4, <2>1 DEF PapersOK, HasOpen
  <2>5. IsPaper(m, disk'[m], past'[m])
    BY <1>4, <2>1 DEF PapersOK
  <2> QED BY <2>2, <2>3, <2>4, <2>5 DEF PapersOK, HasOpen
<1>5. ASSUME NEW n \in L!Models, L!Pump(n) PROVE PapersOK(m)'
  <2>1. /\ UNCHANGED <<disk, pen, flushing>> /\ past'[m] = IF m = n THEN past[m] \cup {L!Parts(m)} ELSE past[m]
        /\ Len(work) \in Nat /\ Len(work') = Len(work) + 1 /\ \A i \in 1..Len(work) : work'[i] = work[i]
        /\ work'[Len(work) + 1].of = n /\ work'[Len(work) + 1].holds = L!Encoded(n)
    <3>1. \A a, b : [of |-> a, holds |-> b].of = a /\ [of |-> a, holds |-> b].holds = b
      OBVIOUS
    <3>2. work'[Len(work) + 1] = [of |-> n, holds |-> L!Encoded(n)]
      BY <1>0, <1>5, PumpIs
    <3>3. /\ UNCHANGED <<disk, pen, flushing>> /\ past'[m] = IF m = n THEN past[m] \cup {L!Parts(m)} ELSE past[m]
          /\ Len(work) \in Nat /\ Len(work') = Len(work) + 1 /\ \A i \in 1..Len(work) : work'[i] = work[i]
      BY <1>0, <1>5, PumpIs
    <3> QED BY <3>1, <3>2, <3>3
  <2>2. \A i \in 1..Len(work') : i \in 1..Len(work) \/ i = Len(work) + 1
    BY <2>1
  <2>3. \A i \in 1..Len(work') : \/ i \in 1..Len(work) /\ work'[i] = work[i]
                                 \/ work'[i].of = m => IsPaper(m, work'[i].holds, past'[m])
    BY <1>0, <2>1, <2>2
  <2> QED BY <1>4, <2>1, <2>3
<1>6. CASE L!Teardown
  <2>1. /\ UNCHANGED <<disk, pen, work>> /\ past'[m] = past[m] \cup {L!Parts(m)}
        /\ \A i \in 1..Len(flushing') : flushing'[i].holds = L!Encoded(flushing'[i].of)
    BY <1>0, <1>6, TeardownIs
  <2>2. \A i \in 1..Len(flushing') : flushing'[i].of = m => IsPaper(m, flushing'[i].holds, past'[m])
    BY <1>0, <2>1
  <2> QED BY <1>4, <2>1, <2>2
<1>7. ASSUME NEW w \in L!Writers, L!OpenFile(w) PROVE PapersOK(m)'
  <2> DEFINE q == L!Jobs(w)
  <2>1. /\ UNCHANGED <<disk, past>>
        /\ q \in Seq(Range(q)) /\ q # <<>>
        /\ IF w = "worker" THEN work' = Tail(work) /\ UNCHANGED flushing ELSE flushing' = Tail(flushing) /\ UNCHANGED work
        /\ \A v \in L!Writers : v # w => pen'[v] = pen[v]
        /\ \/ UNCHANGED pen
           \/ pen'[w].of = Head(q).of /\ pen'[w].holds = Head(q).holds
    BY <1>0, <1>7, OpenFileIs
  <2>2. \A i \in 1..Len(q) : q[i].of = m => IsPaper(m, q[i].holds, past[m])
    BY DEF PapersOK, L!Jobs
  <2>3. /\ Len(Tail(q)) = Len(q) - 1
        /\ \A i \in 1..Len(Tail(q)) : i + 1 \in 1..Len(q) /\ Tail(q)[i] = q[i + 1]
        /\ 1 \in 1..Len(q) /\ Head(q) = q[1]
    BY <2>1, TailOf
  <2>4. \A i \in 1..Len(Tail(q)) : Tail(q)[i].of = m => IsPaper(m, Tail(q)[i].holds, past[m])
    BY <2>2, <2>3
  <2>5. (IF w = "worker" THEN work' = Tail(q) /\ UNCHANGED flushing ELSE flushing' = Tail(q) /\ UNCHANGED work)
    BY <2>1 DEF L!Jobs
  <2> HIDE DEF q
  <2>6. \A v \in L!Writers : HasOpen(v, m)' => IsPaper(m, pen'[v].holds, past[m])
    BY <2>1, <2>2, <2>3 DEF PapersOK, HasOpen
  <2>7. \A i \in 1..Len(work') : work'[i].of = m => IsPaper(m, work'[i].holds, past[m])
    BY <2>4, <2>5 DEF PapersOK
  <2>8. \A i \in 1..Len(flushing') : flushing'[i].of = m => IsPaper(m, flushing'[i].holds, past[m])
    BY <2>4, <2>5 DEF PapersOK
  <2> QED BY <2>1, <2>6, <2>7, <2>8 DEF PapersOK, HasOpen
<1>8. ASSUME NEW w \in L!Writers, NEW ok \in BOOLEAN, L!FinishFile(w, ok) PROVE PapersOK(m)'
  <2>1. /\ UNCHANGED <<work, flushing, past>> /\ ~pen'[w].busy /\ \A v \in L!Writers : v # w => pen'[v] = pen[v]
        /\ disk'[m] = IF ok /\ HasOpen(w, m) THEN pen[w].holds ELSE disk[m]
    BY <1>0, <1>8, FinishFileIs
  <2> QED BY <2>1 DEF PapersOK, HasOpen
<1>9. CASE L!Restart
  <2>1. /\ tree' = L!DecodeTree(disk["bookmarks"]) /\ entries' = L!DecodedHistory(disk["history"]) /\ UNCHANGED disk
        /\ work' = <<>> /\ flushing' = <<>> /\ \A w \in L!Writers : ~pen'[w].busy
        /\ past'["history"] = {entries'} /\ past'["bookmarks"] = {tree'}
    BY <1>0, <1>9, RestartIs
  <2>2. entries' = disk["history"]
    <3>1. InTime(disk["history"], now)
      BY DEF HistoryInv, HistoryOK, PapersOK, IsPaper
    <3> QED BY <2>1, <3>1, HistoryReadsBack
  <2>3. IsPaper(m, disk'[m], past'[m])
    BY <2>1, <2>2 DEF PapersOK, IsPaper, L!Models
  <2>4. \A i : i \notin 1..Len(work') /\ i \notin 1..Len(flushing')
    BY <2>1
  <2> QED BY <2>1, <2>3, <2>4 DEF PapersOK, HasOpen
<1> QED BY <1>2, <1>3, <1>5, <1>6, <1>7, <1>8, <1>9, NextIs

LEMMA FlushStep == ASSUME LibraryTyped, FlushOK, [L!Next]_L!vars PROVE FlushOK'
<1>0. "flusher" \in L!Writers /\ "worker" \in L!Writers /\ \A w \in L!Writers : w = "worker" \/ w = "flusher"
  BY DEF L!Writers
<1>1. ASSUME stage = "up", stage' = "up", UNCHANGED <<flushing, pen>> PROVE FlushOK'
  <2>1. \A i : i \notin 1..Len(flushing')
    BY <1>1 DEF FlushOK
  <2> QED BY <1>1, <2>1 DEF FlushOK
<1>2. CASE L!PersonStep \/ L!PageStep
  BY <1>1, <1>2, EditsAre
<1>3. CASE MinorStep
  BY <1>3 DEF MinorStep, FlushOK, L!Encoded
<1>4. ASSUME NEW n \in L!Models, L!Pump(n) PROVE FlushOK'
  BY <1>1, <1>4, PumpIs
<1>5. CASE L!Teardown
  <2>1. /\ stage = "up" /\ stage' = "ending" /\ UNCHANGED <<tree, entries, pen>> /\ \A m \in L!Models : mark'[m] = "clean"
        /\ \A i \in 1..Len(flushing') : flushing'[i].holds = L!Encoded(flushing'[i].of)
    BY <1>5, TeardownIs
  <2> QED BY <2>1 DEF FlushOK, L!Encoded
<1>6. ASSUME NEW w \in L!Writers, L!OpenFile(w) PROVE FlushOK'
  <2> DEFINE q == L!Jobs(w)
  <2>1. /\ UNCHANGED <<tree, entries, mark, stage>>
        /\ q \in Seq(Range(q)) /\ q # <<>>
        /\ IF w = "worker" THEN UNCHANGED flushing ELSE flushing' = Tail(flushing)
        /\ \A v \in L!Writers : v # w => pen'[v] = pen[v]
        /\ UNCHANGED pen \/ (pen'[w].of = Head(q).of /\ pen'[w].holds = Head(q).holds)
    BY <1>6, OpenFileIs
  <2>2. CASE w = "worker"
    <3>1. UNCHANGED <<tree, entries, mark, stage, flushing>> /\ pen'["flusher"] = pen["flusher"]
      BY <1>0, <2>1, <2>2
    <3> QED BY <3>1 DEF FlushOK, L!Encoded
  <2>3. CASE w = "flusher"
    <3>1. q = flushing
      BY <2>3 DEF L!Jobs
    <3>2. /\ Len(Tail(q)) = Len(q) - 1
          /\ \A i \in 1..Len(Tail(q)) : i + 1 \in 1..Len(q) /\ Tail(q)[i] = q[i + 1]
          /\ 1 \in 1..Len(q) /\ Head(q) = q[1]
      BY <2>1, TailOf
    <3> HIDE DEF q
    <3>3. stage # "up" /\ flushing' = Tail(flushing)
      BY <2>1, <2>3, <3>1 DEF FlushOK
    <3>4. \A i \in 1..Len(flushing') : flushing'[i].holds = L!Encoded(flushing'[i].of)
      BY <3>1, <3>2, <3>3 DEF FlushOK
    <3>5. pen'["flusher"].busy => pen'["flusher"].holds = L!Encoded(pen'["flusher"].of)
      BY <2>1, <2>3, <3>1, <3>2 DEF FlushOK
    <3> QED BY <2>1, <3>3, <3>4, <3>5 DEF FlushOK, L!Encoded
  <2> QED BY <1>0, <2>2, <2>3
<1>7. ASSUME NEW w \in L!Writers, NEW ok \in BOOLEAN, L!FinishFile(w, ok) PROVE FlushOK'
  <2>1. UNCHANGED <<tree, entries, mark, flushing, stage>> /\ ~pen'[w].busy /\ \A v \in L!Writers : v # w => pen'[v] = pen[v]
    BY <1>7, FinishFileIs
  <2>2. ~pen'["flusher"].busy \/ pen'["flusher"] = pen["flusher"]
    BY <1>0, <2>1
  <2> QED BY <2>1, <2>2 DEF FlushOK, L!Encoded
<1>8. CASE L!Restart
  <2>1. stage' = "up" /\ flushing' = <<>> /\ ~pen'["flusher"].busy
    BY <1>0, <1>8, RestartIs
  <2>2. \A i : i \notin 1..Len(flushing')
    BY <2>1
  <2> QED BY <2>1, <2>2 DEF FlushOK
<1> QED BY <1>2, <1>3, <1>4, <1>5, <1>6, <1>7, <1>8, NextIs

LEMMA ArrivesStep == ASSUME LibraryAssumptions, FilesInv, NEW m \in L!Models, [L!Next]_L!vars PROVE ArrivesOK(m)'
<1> DEFINE E == L!Encoded(m)
<1>0. /\ LibraryTyped /\ FlushOK /\ ArrivesOK(m) /\ DOMAIN mark = L!Models
      /\ "flusher" \in L!Writers /\ "worker" \in L!Writers /\ "worker" # "flusher" /\ \A w \in L!Writers : w = "worker" \/ w = "flusher"
  BY DEF FilesInv, HistoryInv, LibraryTyped, L!Writers
<1>1. ASSUME UNCHANGED <<work, pen, flushing, disk, disturbed>>, mark'[m] = "clean" => mark[m] = "clean" /\ E' = E
      PROVE  ArrivesOK(m)'
  BY <1>0, <1>1 DEF ArrivesOK, HasOpen, Queued, Flushed, Leaves
<1>2. CASE L!PersonStep \/ L!PageStep
  <2>1. /\ UNCHANGED <<work, pen, flushing, disk, disturbed>>
        /\ \/ UNCHANGED <<tree, entries, mark>>
           \/ UNCHANGED entries /\ mark' = [mark EXCEPT !["bookmarks"] = "fresh"]
           \/ UNCHANGED tree /\ mark' = [mark EXCEPT !["history"] = "fresh"]
    BY <1>0, <1>2, EditsAre
  <2>2. mark'[m] = "clean" => mark[m] = "clean" /\ E' = E
    BY <1>0, <2>1 DEF L!Encoded, L!Models
  <2> QED BY <1>1, <2>1, <2>2
<1>3. CASE MinorStep
  <2>1. UNCHANGED <<work, pen, flushing, disk, disturbed>> /\ E' = E /\ (mark'[m] = "clean" => mark[m] = "clean")
    BY <1>0, <1>3 DEF MinorStep, L!Encoded
  <2> QED BY <1>1, <2>1
<1>4. ASSUME NEW n \in L!Models, L!Pump(n) PROVE ArrivesOK(m)'
  <2> DEFINE l == Len(work)
  <2>1. work'[l + 1].of = n /\ work'[l + 1].holds = L!Encoded(n)
    <3>1. \A a, b : [of |-> a, holds |-> b].of = a /\ [of |-> a, holds |-> b].holds = b
      OBVIOUS
    <3>2. work'[l + 1] = [of |-> n, holds |-> L!Encoded(n)]
      BY <1>0, <1>4, PumpIs
    <3> QED BY <3>1, <3>2
  <2>2. /\ stage = "up" /\ mark[n] = "settled" /\ UNCHANGED <<tree, entries, pen, flushing, disk, disturbed>>
        /\ mark'[m] = IF m = n THEN "clean" ELSE mark[m]
        /\ l \in Nat /\ Len(work') = l + 1 /\ \A i \in 1..l : work'[i] = work[i]
    BY <1>0, <1>4, PumpIs, ZenonT(30)
  <2>3. ~HasOpen("flusher", m)' /\ E' = E /\ ~HasOpen("flusher", m) /\ ~Flushed(m)
    BY <1>0, <2>2 DEF FlushOK, HasOpen, L!Encoded, Flushed
  <2> HIDE DEF l, E
  <2>4. l + 1 \in 1..Len(work') /\ \A j \in 1..Len(work') : j \in 1..l \/ j = l + 1
    BY <2>2
  <2>5. CASE m = n
    <3>1. Leaves(m, E)'
      <4>1. \A j \in 1..Len(work') : ~(j > l + 1)
        BY <2>2
      <4> QED BY <2>1, <2>2, <2>3, <2>4, <2>5, <4>1 DEF Leaves, E
    <3> QED BY <2>3, <3>1 DEF ArrivesOK, E
  <2>6. CASE m # n
    <3>1. \A i \in 1..l : i \in 1..Len(work')
      BY <2>2
    <3>2. Queued(m)' <=> Queued(m)
      BY <2>1, <2>2, <2>4, <2>6, <3>1 DEF Queued, l
    <3>3. Leaves(m, E) => Leaves(m, E)'
      BY <2>1, <2>2, <2>3, <2>4, <2>6, <3>1, <3>2 DEF Leaves, HasOpen, l
    <3>4. mark[m] = "clean" /\ ~disturbed => Leaves(m, E)
      BY <1>0, <2>3 DEF ArrivesOK, E
    <3> QED BY <2>2, <2>3, <2>6, <3>3, <3>4 DEF ArrivesOK, E
  <2> QED BY <2>5, <2>6
<1>5. CASE L!Teardown
  <2>1. /\ stage = "up" /\ UNCHANGED <<tree, entries, work, pen, disk, disturbed>>
        /\ mark[m] # "clean" => \E i \in 1..Len(flushing') : flushing'[i].of = m
    BY <1>0, <1>5, TeardownIs
  <2>2. ~HasOpen("flusher", m)' /\ E' = E /\ ~HasOpen("flusher", m) /\ ~Flushed(m) /\ (~Flushed(m)' => mark[m] = "clean")
    BY <1>0, <2>1 DEF FlushOK, HasOpen, L!Encoded, Flushed
  <2>3. Leaves(m, E) => Leaves(m, E)'
    BY <2>1, <2>2 DEF Leaves, Queued, HasOpen
  <2> QED BY <1>0, <2>1, <2>2, <2>3 DEF ArrivesOK
<1>6. ASSUME NEW w \in L!Writers, L!OpenFile(w), ~disturbed' PROVE ArrivesOK(m)'
  <2> DEFINE q == L!Jobs(w)
             j == Head(q)
  <2>1. /\ UNCHANGED <<tree, entries, mark, disk>> /\ ~pen[w].busy
        /\ q \in Seq(Range(q)) /\ q # <<>>
        /\ IF w = "worker" THEN work' = Tail(work) /\ UNCHANGED flushing ELSE flushing' = Tail(flushing) /\ UNCHANGED work
        /\ \A v \in L!Writers : v # w => pen'[v] = pen[v]
    BY <1>0, <1>6, OpenFileIs
  <2>2. /\ ~disturbed /\ pen'[w].busy /\ pen'[w].of = j.of /\ pen'[w].holds = j.holds
        /\ \A v \in L!Writers : v # w => ~HasOpen(v, j.of)
        /\ w = "flusher" => ~Queued(j.of)
    BY <1>0, <1>6, OpenFileIs
  <2>3. /\ Len(Tail(q)) = Len(q) - 1 /\ Len(q) \in Nat
        /\ \A i \in 1..Len(Tail(q)) : i + 1 \in 1..Len(q) /\ Tail(q)[i] = q[i + 1]
        /\ 1 \in 1..Len(q) /\ j = q[1]
    BY <2>1, TailOf
  <2>4. E' = E
    BY <2>1 DEF L!Encoded
  <2>5. \A i \in 1..Len(q) : i = 1 \/ (i - 1 \in 1..Len(Tail(q)) /\ Tail(q)[i - 1] = q[i])
    BY <2>3
  <2>6. CASE w = "worker"
    <3>1. q = work /\ work' = Tail(q) /\ UNCHANGED flushing /\ pen'["flusher"] = pen["flusher"] /\ ~HasOpen("worker", m)
      BY <1>0, <2>1, <2>6 DEF L!Jobs, HasOpen
    <3> HIDE DEF q, j, E
    <3>2. Queued(m) <=> (j.of = m \/ Queued(m)')
      <4>1. Queued(m) => j.of = m \/ Queued(m)'
        <5>1. ASSUME NEW i \in 1..Len(q), q[i].of = m PROVE j.of = m \/ \E k \in 1..Len(Tail(q)) : Tail(q)[k].of = m
          BY <2>3, <2>5, <5>1
        <5> QED BY <3>1, <5>1 DEF Queued
      <4>2. j.of = m => Queued(m)
        BY <2>3, <3>1 DEF Queued
      <4>3. Queued(m)' => Queued(m)
        <5>1. ASSUME NEW k \in 1..Len(Tail(q)), Tail(q)[k].of = m PROVE \E i \in 1..Len(q) : q[i].of = m
          BY <2>3, <5>1
        <5> QED BY <3>1, <5>1 DEF Queued
      <4> QED BY <4>1, <4>2, <4>3
    <3>3. HasOpen("worker", m)' <=> j.of = m
      BY <2>2, <2>6 DEF HasOpen
    <3>4. HasOpen("flusher", m)' => ~Queued(m)' /\ ~HasOpen("worker", m)'
      BY <1>0, <2>2, <3>1, <3>2, <3>3 DEF ArrivesOK, HasOpen
    <3>5. Leaves(m, E) => Leaves(m, E)'
      <4>1. CASE \E i \in 1..Len(work) : work[i].of = m /\ work[i].holds = E /\ \A k \in 1..Len(work) : k > i => work[k].of # m
        <5>1. PICK i \in 1..Len(work) : work[i].of = m /\ work[i].holds = E /\ \A k \in 1..Len(work) : k > i => work[k].of # m
          BY <4>1
        <5>2. CASE i = 1
          <6>1. \A k \in 1..Len(work') : work'[k].of # m
            <7>1. \A k \in 1..Len(work') : k + 1 \in 1..Len(work) /\ work'[k] = work[k + 1] /\ k + 1 > 1
              BY <2>3, <3>1
            <7> QED BY <5>1, <5>2, <7>1
          <6>2. ~Queued(m)' /\ HasOpen("worker", m)' /\ pen'["worker"].holds = E
            BY <2>2, <2>3, <2>6, <3>1, <3>3, <5>1, <5>2, <6>1 DEF Queued
          <6> QED BY <2>4, <6>2 DEF Leaves
        <5>3. CASE i # 1
          <6>1. i - 1 \in 1..Len(work') /\ work'[i - 1] = work[i]
            BY <2>5, <3>1, <5>3
          <6>2. \A k \in 1..Len(work') : k > i - 1 => work'[k].of # m
            <7>1. \A k \in 1..Len(work') : k + 1 \in 1..Len(work) /\ work'[k] = work[k + 1] /\ (k > i - 1 => k + 1 > i)
              BY <2>3, <3>1
            <7> QED BY <5>1, <7>1
          <6> QED BY <2>4, <5>1, <6>1, <6>2 DEF Leaves
        <5> QED BY <5>2, <5>3
      <4>2. CASE ~Queued(m) /\ ~HasOpen("worker", m) /\ disk[m] = E
        BY <2>1, <2>4, <3>2, <3>3, <4>2 DEF Leaves
      <4> QED BY <3>1, <4>1, <4>2 DEF Leaves
    <3>6. Flushed(m)' = Flushed(m) /\ HasOpen("flusher", m)' = HasOpen("flusher", m)
      BY <3>1 DEF Flushed, HasOpen
    <3>7. mark'[m] = "clean" /\ ~Flushed(m)' /\ ~HasOpen("flusher", m)' => Leaves(m, E)'
      BY <1>0, <2>1, <2>2, <2>4, <3>5, <3>6 DEF ArrivesOK, E
    <3> QED BY <3>4, <3>7 DEF ArrivesOK, E
  <2>7. CASE w = "flusher"
    <3>1. q = flushing /\ flushing' = Tail(q) /\ UNCHANGED work /\ pen'["worker"] = pen["worker"] /\ ~HasOpen("flusher", m)
      BY <1>0, <2>1, <2>7 DEF L!Jobs, HasOpen
    <3> HIDE DEF q, j, E
    <3>2. Flushed(m) <=> (j.of = m \/ Flushed(m)')
      <4>1. Flushed(m) => j.of = m \/ Flushed(m)'
        <5>1. ASSUME NEW i \in 1..Len(q), q[i].of = m PROVE j.of = m \/ \E k \in 1..Len(Tail(q)) : Tail(q)[k].of = m
          BY <2>3, <2>5, <5>1
        <5> QED BY <3>1, <5>1 DEF Flushed
      <4>2. j.of = m => Flushed(m)
        BY <2>3, <3>1 DEF Flushed
      <4>3. Flushed(m)' => Flushed(m)
        <5>1. ASSUME NEW k \in 1..Len(Tail(q)), Tail(q)[k].of = m PROVE \E i \in 1..Len(q) : q[i].of = m
          BY <2>3, <5>1
        <5> QED BY <3>1, <5>1 DEF Flushed
      <4> QED BY <4>1, <4>2, <4>3
    <3>3. HasOpen("flusher", m)' <=> j.of = m
      BY <2>2, <2>7 DEF HasOpen
    <3>4. Queued(m)' = Queued(m) /\ HasOpen("worker", m)' = HasOpen("worker", m)
      BY <3>1 DEF Queued, HasOpen
    <3>5. HasOpen("flusher", m)' => ~Queued(m)' /\ ~HasOpen("worker", m)'
      BY <1>0, <2>2, <2>7, <3>3, <3>4
    <3>6. Leaves(m, E) => Leaves(m, E)'
      BY <2>1, <2>4, <3>1, <3>4 DEF Leaves
    <3>7. mark'[m] = "clean" /\ ~Flushed(m)' /\ ~HasOpen("flusher", m)' => Leaves(m, E)'
      BY <1>0, <2>1, <2>2, <3>1, <3>2, <3>3, <3>6 DEF ArrivesOK, E
    <3> QED BY <3>5, <3>7 DEF ArrivesOK, E
  <2> QED BY <1>0, <2>6, <2>7
<1>7. ASSUME NEW w \in L!Writers, NEW ok \in BOOLEAN, L!FinishFile(w, ok), ~disturbed' PROVE ArrivesOK(m)'
  <2>1. /\ UNCHANGED <<tree, entries, mark, work, flushing>> /\ pen[w].busy /\ ~pen'[w].busy
        /\ \A v \in L!Writers : v # w => pen'[v] = pen[v]
        /\ ~disturbed /\ ok
        /\ disk'[m] = IF ok /\ HasOpen(w, m) THEN pen[w].holds ELSE disk[m]
    BY <1>0, <1>7, FinishFileIs
  <2>2. E' = E /\ Queued(m)' = Queued(m) /\ Flushed(m)' = Flushed(m)
    BY <2>1 DEF L!Encoded, Queued, Flushed
  <2>3. /\ HasOpen("flusher", m) => ~Queued(m) /\ ~HasOpen("worker", m)
        /\ mark[m] = "clean" /\ ~Flushed(m) /\ ~HasOpen("flusher", m) => Leaves(m, E)
    BY <1>0, <2>1 DEF ArrivesOK
  <2>4. CASE w = "worker"
    <3>1. ~HasOpen("worker", m)' /\ HasOpen("flusher", m)' = HasOpen("flusher", m)
      BY <1>0, <2>1, <2>4 DEF HasOpen
    <3> HIDE DEF E
    <3>2. Leaves(m, E) => Leaves(m, E)'
      BY <2>1, <2>2, <2>4, <3>1 DEF Leaves
    <3> QED BY <2>1, <2>2, <2>3, <3>1, <3>2 DEF ArrivesOK, E
  <2>5. CASE w = "flusher"
    <3>1. ~HasOpen("flusher", m)' /\ HasOpen("worker", m)' = HasOpen("worker", m)
      BY <1>0, <2>1, <2>5 DEF HasOpen
    <3>2. HasOpen("flusher", m) => disk'[m] = E
      BY <1>0, <2>1, <2>5 DEF FlushOK, HasOpen
    <3> HIDE DEF E
    <3>3. CASE HasOpen("flusher", m)
      <4>1. Leaves(m, E)'
        BY <2>2, <2>3, <3>1, <3>2, <3>3 DEF Leaves
      <4> QED BY <3>1, <4>1 DEF ArrivesOK, E
    <3>4. CASE ~HasOpen("flusher", m)
      <4>1. disk'[m] = disk[m]
        BY <2>1, <2>5, <3>4
      <4>2. Leaves(m, E) => Leaves(m, E)'
        <5>1. work' = work /\ pen'["worker"] = pen["worker"] /\ E' = E
          BY <1>0, <2>1, <2>2, <2>5
        <5> QED BY <4>1, <5>1 DEF Leaves, Queued, HasOpen
      <4> QED BY <2>1, <2>2, <2>3, <3>1, <3>4, <4>2 DEF ArrivesOK, E
    <3> QED BY <3>3, <3>4
  <2> QED BY <1>0, <2>4, <2>5
<1>8. ASSUME disturbed' PROVE ArrivesOK(m)'
  BY <1>8 DEF ArrivesOK
<1>9. CASE L!Restart
  <2>1. /\ tree' = L!DecodeTree(disk["bookmarks"]) /\ entries' = L!DecodedHistory(disk["history"]) /\ UNCHANGED disk
        /\ work' = <<>> /\ \A w \in L!Writers : ~pen'[w].busy
    BY <1>0, <1>9, RestartIs
  <2>2. entries' = disk["history"]
    <3>1. InTime(disk["history"], now)
      BY DEF FilesInv, HistoryInv, HistoryOK, PapersOK, IsPaper
    <3> QED BY <2>1, <3>1, HistoryReadsBack
  <2>3. L!EncodeTree(tree') = disk["bookmarks"]
    BY <2>1 DEF FilesInv, PapersOK, IsPaper
  <2>4. disk'[m] = E'
    BY <2>1, <2>2, <2>3 DEF L!Encoded, L!Models
  <2>5. ~Queued(m)' /\ \A w \in L!Writers : ~HasOpen(w, m)'
    BY <2>1 DEF Queued, HasOpen
  <2> HIDE DEF E
  <2>6. Leaves(m, E)'
    BY <1>0, <2>4, <2>5 DEF Leaves
  <2> QED BY <1>0, <2>5, <2>6 DEF ArrivesOK, E
<1> QED BY <1>2, <1>3, <1>4, <1>5, <1>6, <1>7, <1>8, <1>9, NextIs

LEMMA LibraryStarts == ASSUME LibraryAssumptions, L!Init PROVE FilesInv
<1> USE DEF L!Init
<1> DEFINE h == Files["history"]
           b == Files["bookmarks"]
<1>1. InTime(h, 1)
  <2>1. /\ h \in [DOMAIN h -> Seq(Int)] /\ DOMAIN h \subseteq URLs /\ L!IsFiniteSet(DOMAIN h)
        /\ L!InOrder(h) /\ \A u \in DOMAIN h : \A i \in 1..Len(h[u]) : h[u][i] <= 1
    BY DEF LibraryAssumptions, L!FoundAssumption
  <2> HIDE DEF h
  <2>2. IsFiniteSet(DOMAIN h) /\ Cardinality(DOMAIN h) <= MaxEntries
    BY <2>1, SameInLibrary DEF L!InOrder
  <2>3. \A u \in DOMAIN h : Timeline(h[u], 1)
    BY <2>1 DEF L!InOrder, Timeline
  <2> QED BY <2>1, <2>2, <2>3 DEF InTime
<1>2. entries = h /\ tree = L!DecodeTree(b) /\ L!EncodeTree(tree) = b /\ disk["history"] = h /\ disk["bookmarks"] = b /\ DOMAIN disk = L!Models
  <2>1. L!DecodedHistory(h) = h
    BY <1>1, HistoryReadsBack
  <2> QED BY <2>1 DEF LibraryAssumptions, L!FoundAssumption, L!Models
<1>3. past = [m \in L!Models |-> {L!Parts(m)}] /\ past["history"] = {h} /\ past["bookmarks"] = {tree}
  BY <1>2 DEF L!Parts, L!Models
<1>4. IsList(work) /\ IsList(flushing) /\ \A i : i \notin 1..Len(work) /\ i \notin 1..Len(flushing)
  <2> DEFINE none == <<>>
  <2>1. none \in Seq({}) /\ \A i : i \notin 1..Len(none)
    OBVIOUS
  <2>2. work = none /\ flushing = none
    OBVIOUS
  <2> HIDE DEF none
  <2>3. IsList(none)
    BY <2>1, OwnList
  <2> QED BY <2>1, <2>2, <2>3
<1>5. DOMAIN pen = L!Writers /\ \A w \in L!Writers : ~pen[w].busy
  BY DEF L!NoPen
<1>6. LibraryTyped
  <2>1. committed \in [Tabs -> URLs \cup {NoURL}]
    OBVIOUS
  <2>2. disturbed \in BOOLEAN /\ stage \in {"up", "ending", "over"}
    OBVIOUS
  <2>3. DOMAIN mark = L!Models /\ DOMAIN past = L!Models
    BY <1>3
  <2> QED BY <1>2, <1>4, <1>5, <2>1, <2>2, <2>3 DEF LibraryTyped
<1>7. HistoryOK
  BY <1>1, <1>2, <1>3 DEF HistoryOK
<1>8. ASSUME NEW m \in L!Models PROVE PapersOK(m)
  <2>1. IsPaper(m, disk[m], past[m])
    BY <1>2, <1>3 DEF IsPaper, L!Models
  <2> QED BY <1>4, <1>5, <2>1 DEF PapersOK, HasOpen
<1>9. FlushOK
  BY <1>4, <1>5 DEF FlushOK, L!Writers
<1>10. ASSUME NEW m \in L!Models PROVE ArrivesOK(m)
  <2>1. disk[m] = L!Encoded(m)
    BY <1>2 DEF L!Encoded, L!Models
  <2>2. ~Queued(m) /\ ~HasOpen("worker", m) /\ ~HasOpen("flusher", m)
    BY <1>4, <1>5 DEF Queued, HasOpen, L!Writers
  <2> QED BY <2>1, <2>2 DEF ArrivesOK, Leaves
<1>11. "history" \in L!Models /\ "bookmarks" \in L!Models
  BY DEF L!Models
<1> QED BY <1>6, <1>7, <1>8, <1>9, <1>10, <1>11 DEF FilesInv, HistoryInv

LEMMA HistoryInvStep == ASSUME LibraryAssumptions, HistoryInv, [L!Next]_L!vars PROVE HistoryInv'
<1>1. "history" \in L!Models /\ ReadsBack("history")
  BY DEF L!Models, ReadsBack
<1> QED BY <1>1, TypedStep, HistoryStep, PapersStep DEF HistoryInv

LEMMA FilesInvStep == ASSUME LibraryAssumptions, FilesInv, L!TreeReadsBack, [L!Next]_L!vars PROVE FilesInv'
<1>1. "bookmarks" \in L!Models /\ ReadsBack("bookmarks") /\ HistoryInv /\ LibraryTyped /\ FlushOK /\ PapersOK("bookmarks")
  BY DEF L!Models, ReadsBack, FilesInv, HistoryInv
<1> QED BY <1>1, HistoryInvStep, PapersStep, FlushStep, ArrivesStep DEF FilesInv

LEMMA AlwaysHistoryInv == LibraryAssumptions => (L!Spec => []HistoryInv)
<1> SUFFICES ASSUME LibraryAssumptions PROVE L!Spec => []HistoryInv
  OBVIOUS
<1>1. L!Init => HistoryInv
  BY LibraryStarts DEF FilesInv
<1>2. HistoryInv /\ [L!Next]_L!vars => HistoryInv'
  BY HistoryInvStep
<1> QED BY <1>1, <1>2, PTL DEF L!Spec

\* For any addresses, tabs and caps: every entry of the history has visits, in the order
\* of time and within the caps, also when it has just been read from a file that any
\* sequence of edits, kills, failed writes and meetings of the writers has left.
THEOREM HistoryStaysInOrder == LibraryAssumptions => (L!Spec => []L!HistoryIsInOrder)
<1> SUFFICES ASSUME LibraryAssumptions PROVE L!Spec => []L!HistoryIsInOrder
  OBVIOUS
<1>1. HistoryInv => L!HistoryIsInOrder
  BY SameInLibrary DEF HistoryInv, HistoryOK, InTime, Timeline, L!HistoryIsInOrder, L!InOrder
<1> QED BY <1>1, AlwaysHistoryInv, PTL

\* For any addresses, tabs, caps and processes, as long as the tree comes back from its
\* lines: what a file holds is at any moment what its model once was, and once nothing is
\* marked, queued or being written it is what the model is, unless a write failed or the
\* writers met.
THEOREM FilesHold == LibraryAssumptions => (L!Spec /\ []L!TreeReadsBack => []L!FilesHoldTheModels)
<1> SUFFICES ASSUME LibraryAssumptions PROVE L!Spec /\ []L!TreeReadsBack => []L!FilesHoldTheModels
  OBVIOUS
<1>1. ASSUME FilesInv PROVE L!ReadsBackAsItWas
  <2>1. InTime(disk["history"], now) /\ disk["history"] \in past["history"]
    BY <1>1 DEF FilesInv, HistoryInv, HistoryOK, PapersOK, IsPaper
  <2>2. L!DecodedHistory(disk["history"]) = disk["history"]
    BY <2>1, HistoryReadsBack
  <2>3. L!DecodeTree(disk["bookmarks"]) \in past["bookmarks"]
    BY <1>1 DEF FilesInv, PapersOK, IsPaper
  <2> QED BY <2>1, <2>2, <2>3 DEF L!ReadsBackAsItWas
<1>2. ASSUME FilesInv PROVE L!FilesAreCurrent
  <2> SUFFICES ASSUME ~disturbed, L!Quiet, \A m \in L!Models : mark[m] = "clean", NEW m \in L!Models
               PROVE  disk[m] = L!Encoded(m)
    BY DEF L!FilesAreCurrent
  <2>1. \A i : i \notin 1..Len(work) /\ i \notin 1..Len(flushing)
    BY DEF L!Quiet
  <2>2. ~Queued(m) /\ ~Flushed(m) /\ ~HasOpen("worker", m) /\ ~HasOpen("flusher", m)
    BY <2>1 DEF Queued, Flushed, HasOpen, L!Quiet, L!Writers
  <2>3. Leaves(m, L!Encoded(m))
    BY <1>2, <2>2 DEF FilesInv, ArrivesOK
  <2> QED BY <2>2, <2>3 DEF Leaves, Queued
<1>3. FilesInv => L!FilesHoldTheModels
  BY <1>1, <1>2 DEF L!FilesHoldTheModels
<1>4. L!Init => FilesInv
  BY LibraryStarts
<1>5. FilesInv /\ L!TreeReadsBack /\ [L!Next]_L!vars => FilesInv'
  BY FilesInvStep
<1> QED BY <1>3, <1>4, <1>5, PTL DEF L!Spec

\* A visit that was forgotten, or fell to a cap, comes back only with a restart or with
\* another document that is committed.
THEOREM ForgottenIsForgotten == LibraryAssumptions => (L!Spec => L!ForgottenStaysForgotten)
<1> DEFINE Committed == \A u \in URLs : (u \notin DOMAIN entries /\ u \in DOMAIN entries') =>
                          \/ runs' # runs
                          \/ \E t \in Tabs : committed[t] # u /\ committed'[t] = u
<1> SUFFICES ASSUME LibraryAssumptions PROVE L!Spec => [][Committed]_(L!vars)
  BY DEF L!ForgottenStaysForgotten
<1>1. ASSUME HistoryInv, [L!Next]_L!vars, NEW u \in URLs, u \notin DOMAIN entries, u \in DOMAIN entries'
      PROVE  runs' # runs \/ \E t \in Tabs : committed[t] # u /\ committed'[t] = u
  <2>0. LibraryTyped
    BY <1>1 DEF HistoryInv
  <2>1. CASE L!PersonStep \/ L!PageStep
    BY <1>1, <2>0, <2>1, EditsAre
  <2>2. CASE MinorStep
    BY <1>1, <2>2 DEF MinorStep
  <2>3. ASSUME NEW n \in L!Models, L!Pump(n) PROVE FALSE
    BY <1>1, <2>0, <2>3, PumpIs
  <2>4. CASE L!Teardown
    BY <1>1, <2>0, <2>4, TeardownIs
  <2>5. ASSUME NEW w \in L!Writers, L!OpenFile(w) PROVE FALSE
    BY <1>1, <2>0, <2>5, OpenFileIs
  <2>6. ASSUME NEW w \in L!Writers, NEW ok \in BOOLEAN, L!FinishFile(w, ok) PROVE FALSE
    BY <1>1, <2>0, <2>6, FinishFileIs
  <2>7. CASE L!Restart
    <3>1. runs' = runs + 1 /\ runs \in Nat
      BY <2>0, <2>7, RestartIs DEF LibraryTyped
    <3> QED BY <3>1
  <2> QED BY <1>1, <2>1, <2>2, <2>3, <2>4, <2>5, <2>6, <2>7, NextIs
<1>2. ASSUME HistoryInv, [L!Next]_(L!vars) PROVE [Committed]_(L!vars)
  BY <1>1, <1>2
<1>3. L!Spec => []HistoryInv
  BY AlwaysHistoryInv
<1> QED BY <1>2, <1>3, PTL DEF L!Spec
=============================================================================
