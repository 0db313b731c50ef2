---------------------------- MODULE InputProofs ----------------------------
(***************************************************************************)
(* For any tabs, sites, texts and presses: the keyboard goes where it was   *)
(* asked, the bar counts what the page shows, and a level that is set is    *)
(* not lost.                                                                *)
(*                                                                         *)
(* A chord is carried out when its event is, and nothing that comes between *)
(* has the last word.  A search and what hides it go through two queues, to *)
(* the WebKit thread and to the page, in order: while no search met another *)
(* or a close there is one at most, and nothing for its page behind it; and *)
(* while a thread is at a close or at a search nothing is unanswered.       *)
(***************************************************************************)
EXTENDS Input, SequenceTheorems, FiniteSetTheorems, WellFoundedInduction, TLAPS

Queries == Texts \cup {NoText}
Steps == {1, -1}

Events ==
  [kind : {"address", "open find", "close find", "submit"}] \cup [kind : {"cancel"}, target : Fields]
    \cup [kind : {"walk"}, direction : Steps] \cup [kind : {"text"}, text : Queries]

Searches == [kind : {"find"}, tab : Tabs, text : Texts, direction : Steps] \cup [kind : {"hide"}, tab : Tabs]
Requests == Searches \cup [kind : {"sweep"}] \cup [kind : {"zoom"}, tab : Tabs, percent : Nat]

Bars ==
  [open : BOOLEAN, query : Queries, count : Nat, index : Nat, searched : BOOLEAN, repeat : BOOLEAN, direction : Steps]

Percents == {p \in Nat : p # NoLevel /\ Clamped(p) = p}

\* What a thread is at: a close from a key, Kira's, a search for nothing, or for a text.
CloseSteps == {"exchange", "clear", "reset", "hide", "leave"}
KeyCalls == [step : CloseSteps, then : {"key"}]
KiraCalls == [step : CloseSteps, then : {"frame"}]
EndCalls == [step : {"reset", "hide"}, then : {"search"}]
AskCalls == [step : {"aim", "ask"}, text : Texts, direction : Steps, again : BOOLEAN]
Calls == {Idle} \cup KeyCalls \cup KiraCalls \cup EndCalls \cup AskCalls

Changes == [step : {"idle"}] \cup [step : {"store"}, percent : Percents] \cup [step : {"post"}, percent : Percents, site : Sites \cup {NoSite}]

Places ==
  [step : {"pump", "zoom", "save", "sync", "drain", "over"}] \cup [step : {"focus", "owner"}, looked : Tabs \cup {Host, NoWindow}]
    \cup [step : {"scan"}, left : SUBSET Tabs] \cup [step : {"post"}, tab : Tabs, percent : Nat, left : SUBSET Tabs]
    \cup [step : {"write", "last write"}, holds : [Sites -> Nat]]

\* The tabs and the keyboard.
TabsOK ==
  /\ known \subseteq open /\ open \subseteq Tabs /\ selected \in open \cup {NoTab} /\ shown \in Tabs \cup {NoTab}
  /\ url \in [Tabs -> URLs \cup {NoTab}] /\ (\A t \in open : url[t] # NoTab) /\ (shown # NoTab => url[shown] # NoTab)
  /\ focus \in open \cup {Host, NoWindow} /\ target \in Fields \cup {"none"} /\ owner \in {"chrome", "content"}
  /\ pressed \in Fields \cup {"none", "elsewhere"} /\ events \in Seq(Events)
  /\ at \in Places /\ (at.step \in {"scan", "post"} => \A t \in at.left : url[t] # NoTab)
  /\ acts \in [Kinds -> Nat]

\* The find bar and the pages.
FindType ==
  /\ bar \in Bars /\ field \in Queries /\ work \in Seq(Requests)
  /\ finding \in [Tabs -> Seq(Searches)] /\ marked \in [Tabs -> [text : Queries, place : Nat]]
  /\ bar.index > 0 => bar.count > 0
  /\ calls \in [Threads -> Calls] /\ calls["engine"] \in {Idle} \cup KeyCalls
  /\ \A t \in Tabs : /\ \A i \in 1..Len(finding[t]) : finding[t][i].tab = t
                     /\ t \notin open => finding[t] = <<>>
                     /\ IF marked[t].text = NoText \/ MatchesOf[marked[t].text] = 0 THEN marked[t].place = 0
                        ELSE marked[t].place \in 1..MatchesOf[marked[t].text]

\* The levels.
LevelsOK ==
  /\ levels \in [Sites -> Percents] /\ file \in [Sites -> Nat] /\ zooming \in [Threads -> Changes]
  /\ dirty \in BOOLEAN /\ failed \in BOOLEAN
  /\ ~failed => IF at.step \in {"write", "last write"} THEN ~dirty => at.holds = Encoded(levels)
                ELSE ~dirty => Loaded(file) = levels

\* A field does not have the keys while the page has the keyboard, but behind the
\* frame's back; a press is seen before events are carried out.
FieldOK ==
  /\ at.step = "drain" => pressed = "none"
  /\ focus \in Tabs /\ ~bounced => pressed = "none" /\ (owner = "content" => target = "none")

\* What was asked last is the last event that waits, or has been carried out and not
\* been undone since.
Asks(e) ==
  CASE last = "address" -> e.kind = "address"
    [] last = "find" -> e.kind = "open find"
    [] OTHER -> e.kind = "close find" \/ (e.kind = "cancel" /\ e.target = "find")

Done ==
  CASE last = "closed" -> ~bar.open
    [] OTHER -> /\ focus = Host /\ target = (IF last = "address" THEN "address" ELSE "find")
                /\ (last = "find" => bar.open)
                /\ pressed = "none" /\ (at.step \in {"focus", "owner"} => at.looked = Host)

\* A close from a key will queue its event, and Kira's ends what was asked.
KeyCloses == \E th \in Threads : calls[th] \in KeyCalls

ChordOK ==
  /\ last \in {"address", "find", "closed", "other"}
  /\ last # "other" /\ ~KeyCloses =>
       IF events # <<>> THEN Asks(events[Len(events)])
       ELSE /\ calls["frame"] \in KiraCalls => last = "closed"
            /\ calls["frame"] = Close("frame") \/ Done

\* Until the sweep has run nothing has been searched for: the sweep is in front of it.
SweepOK ==
  \/ open \subseteq known
  \/ /\ \A t \in Tabs : ~Finds(finding[t])
     /\ \A i \in 1..Len(work) : work[i].kind = "find" => \E j \in 1..(i - 1) : work[j].kind = "sweep"
     /\ shown # NoTab => \E j \in 1..Len(work) : work[j].kind = "sweep"

\* While no search met another there is one at most, for the page in front, and
\* nothing else for that page behind it.
IsFind(s, i) == i \in 1..Len(s) /\ s[i].kind = "find"
IsHide(s, i) == i \in 1..Len(s) /\ s[i].kind = "hide" /\ s[i].tab = shown
IsTheOne(r) == r.tab = shown /\ r.text = bar.query /\ r.direction = bar.direction

OneSearch ==
  /\ \A i \in Nat : IsFind(work, i) => IsTheOne(work[i])
  /\ \A t \in Tabs : \A i \in Nat : IsFind(finding[t], i) => IsTheOne(finding[t][i])
  /\ \A i, j \in Nat : IsFind(work, i) /\ IsFind(work, j) => i = j
  /\ \A t \in Tabs : \A i, j \in Nat : IsFind(finding[t], i) /\ IsFind(finding[t], j) => i = j
  /\ \A t \in Tabs : ~(Finds(work) /\ Finds(finding[t]))

HidesBefore ==
  /\ \A j \in Nat : IsHide(work, j) => \E i \in Nat : i > j /\ IsFind(work, i)
  /\ shown \in Tabs => \A j \in Nat : IsHide(finding[shown], j) =>
                         Finds(work) \/ \E i \in Nat : i > j /\ IsFind(finding[shown], i)

\* What the bar says is what the page has found, and if it is walked stays so.
Agrees ==
  /\ bar.count = MatchesOf[bar.query] /\ bar.searched
  /\ marked[shown].text = bar.query /\ bar.index = marked[shown].place

Hidden == Hides(work, shown) \/ Hides(finding[shown], shown)

Empty == bar.count = 0 /\ bar.index = 0 /\ ~bar.searched
Walks == Agrees /\ ~Hidden
Begins == marked[shown].text # bar.query \/ Hidden

\* While a search is ended nothing is unanswered, and what is ended stays so.
EndsOK ==
  \A th \in Threads : Clearing(th) =>
    /\ ~Unanswered /\ ~Asking
    /\ calls[th].step # "clear" => ~Searching
    /\ calls[th].step = "hide" => Empty

\* While a search is prepared nothing is unanswered, and the page is as it was found.
AskOK ==
  Asking => LET c == calls["frame"] IN
    /\ ~Unanswered /\ c.text = bar.query /\ (~c.again => c.direction = 1)
    /\ shown \in open => IF c.again THEN Walks ELSE Begins
    /\ c.step = "ask" => bar.repeat = c.again /\ bar.direction = c.direction

SearchOK ==
  IF ~Searching THEN ~Unanswered /\ Empty
  ELSE /\ OneSearch /\ HidesBefore
       /\ shown \in open => IF ~Unanswered THEN Agrees
                            ELSE IF bar.repeat THEN Walks ELSE bar.direction = 1 /\ Begins

Quiet == ~Asking /\ \A th \in Threads : ~Clearing(th)

CountOK == ~muddled => EndsOK /\ AskOK /\ (Quiet => SearchOK)

IInv == TabsOK /\ FindType /\ LevelsOK /\ FieldOK /\ ChordOK /\ SweepOK /\ CountOK

-----------------------------------------------------------------------------
(* The operators.                                                          *)

\* A set of natural numbers that is not empty has a least one, ...
LEMMA LeastNatural ==
  ASSUME NEW S \in SUBSET Nat, S # {}
  PROVE  \E n \in S : \A m \in S : n <= m
<1> DEFINE R == OpToRel(<, Nat)
<1>1. IsWellFoundedOn(R, Nat)
  BY NatLessThanWellFounded
<1>2. \A n, m \in Nat : m < n => <<m, n>> \in R
  BY DEF OpToRel
<1> HIDE DEF R
<1>3. \E n \in S : \A m \in S : ~(<<m, n>> \in R)
  BY <1>1, WFMin
<1>4. \A n, m \in Nat : m < n \/ n <= m
  OBVIOUS
<1>5. \A n \in S : n \in Nat
  OBVIOUS
<1>6. \A n, m \in S : m < n => <<m, n>> \in R
  BY <1>2, <1>5
<1>7. \A n, m \in S : m < n \/ n <= m
  BY <1>4, <1>5
<1> QED BY <1>3, <1>6, <1>7

\* ... and a greatest, if there is a number none of it is above.
LEMMA GreatestNatural ==
  ASSUME NEW S \in SUBSET Nat, S # {}, NEW p \in Nat, \A m \in S : m <= p
  PROVE  \E n \in S : \A m \in S : n >= m
<1> DEFINE U == {u \in Nat : \A m \in S : m <= u}
<1>1. p \in U /\ U \in SUBSET Nat
  OBVIOUS
<1>2. PICK n \in U : \A u \in U : n <= u
  BY <1>1, LeastNatural
<1>3. n \in Nat /\ \A m \in S : m \in Nat /\ m <= n
  BY <1>2
<1>4. n \in S
  <2> SUFFICES ASSUME n \notin S PROVE FALSE
    OBVIOUS
  <2>1. PICK m \in S : TRUE
    OBVIOUS
  <2>2. \A k \in S : k \in Nat /\ k < n
    BY <1>3
  <2>3. n - 1 \in Nat /\ \A k \in S : k <= n - 1
    BY <1>3, <2>1, <2>2
  <2> QED BY <1>2, <1>3, <2>3
<1> QED BY <1>3, <1>4

LEMMA LadderIsSound ==
  /\ Ladder \subseteq Percents /\ Default \in Percents
  /\ \A p \in Nat : p # NoLevel => Clamped(p) \in Percents
<1>1. /\ Ladder \subseteq Nat \ {NoLevel} /\ Default \in Ladder
      /\ \E q \in Ladder : Higher(q) = {}
      /\ \E q \in Ladder : Lower(q) = {}
  <2>1. PICK low \in Ladder, high \in Ladder : \A p \in Ladder : low <= p /\ p <= high
    BY LadderAssumption
  <2>2. Ladder \subseteq Nat
    BY LadderAssumption
  <2>3. \A p \in Ladder : ~(p > high) /\ ~(p < low)
    BY <2>1, <2>2
  <2>4. Higher(high) = {} /\ Lower(low) = {}
    BY <2>3 DEF Higher, Lower
  <2> QED BY <2>1, <2>4, LadderAssumption
<1>2. \A q \in Ladder : q \in Percents
  <2>1. \A q \in Nat : ~(q < q) /\ ~(q > q)
    OBVIOUS
  <2> QED BY <1>1, <2>1 DEF Percents, Clamped
<1>3. ASSUME NEW p \in Nat, p # NoLevel PROVE Clamped(p) \in Percents
  <2>1. CASE \A q \in Ladder : q < p
    BY <1>1, <1>2, <2>1 DEF Clamped
  <2>2. CASE ~(\A q \in Ladder : q < p) /\ \A q \in Ladder : q > p
    BY <1>1, <1>2, <2>2 DEF Clamped
  <2>3. CASE ~(\A q \in Ladder : q < p) /\ ~(\A q \in Ladder : q > p)
    BY <1>3, <2>3 DEF Clamped, Percents
  <2> QED BY <2>1, <2>2, <2>3
<1> QED BY <1>1, <1>2, <1>3

LEMMA SteppedIsLevel ==
  ASSUME NEW p \in Percents, NEW c \in {"in", "out", "reset"}
  PROVE  Stepped(p, c) \in Percents
<1>1. p \in Nat /\ Ladder \subseteq Percents /\ Ladder \subseteq Nat /\ Default \in Percents
  BY LadderIsSound, LadderAssumption DEF Percents
<1>2. CASE c = "reset"
  BY <1>1, <1>2 DEF Stepped
<1>3. CASE c = "in"
  <2>1. Higher(p) \in SUBSET Nat /\ Higher(p) \subseteq Percents
    BY <1>1 DEF Higher
  <2>2. Higher(p) # {} => \E q \in Higher(p) : \A r \in Higher(p) : q <= r
    BY <2>1, LeastNatural
  <2> QED BY <1>3, <2>1, <2>2 DEF Stepped
<1>4. CASE c = "out"
  <2>1. Lower(p) \in SUBSET Nat /\ Lower(p) \subseteq Percents
    BY <1>1 DEF Lower
  <2>3. \A q \in Lower(p) : q <= p
    <3>1. \A q \in Nat : q < p => q <= p
      BY <1>1
    <3> QED BY <1>1, <3>1 DEF Lower
  <2>2. Lower(p) # {} => \E q \in Lower(p) : \A r \in Lower(p) : q >= r
    BY <1>1, <2>1, <2>3, GreatestNatural
  <2> QED BY <1>4, <2>1, <2>2 DEF Stepped
<1> QED BY <1>2, <1>3, <1>4

\* What is written is read back.
LEMMA FileOfLevels ==
  ASSUME NEW l \in [Sites -> Percents]
  PROVE  Encoded(l) \in [Sites -> Nat] /\ Loaded(Encoded(l)) = l
<1>1. Encoded(l) \in [Sites -> Nat]
  BY DEF Encoded, Percents, NoLevel
<1>2. \A s \in Sites : Loaded(Encoded(l))[s] = l[s]
  <2> TAKE s \in Sites
  <2>1. l[s] # NoLevel /\ Clamped(l[s]) = l[s]
    BY DEF Percents
  <2> QED BY <2>1 DEF Loaded, Encoded
<1>3. Loaded(Encoded(l)) = [s \in Sites |-> Loaded(Encoded(l))[s]]
  BY DEF Loaded
<1>4. l = [s \in Sites |-> l[s]]
  OBVIOUS
<1> QED BY <1>1, <1>2, <1>3, <1>4

LEMMA LoadedIsLevels ==
  ASSUME NEW f \in [Sites -> Nat]
  PROVE  Loaded(f) \in [Sites -> Percents]
BY LadderIsSound DEF Loaded

LEMMA SetAsSequence ==
  ASSUME NEW S, IsFiniteSet(S)
  PROVE  SetToSeq(S) \in Seq(S)
<1> DEFINE n == Cardinality(S)
<1>1. n \in Nat
  BY FS_CardinalityType
<1>2. PICK f : f \in Bijection(1..n, S)
  BY FS_CardinalityType DEF ExistsBijection
<1>3. f \in [1..n -> S] /\ IsInjective(f)
  BY <1>2 DEF Bijection, Injection, IsInjective
<1>4. SetToSeq(S) \in [1..n -> S]
  BY <1>3 DEF SetToSeq
<1> QED BY <1>1, <1>4, SeqDef

LEMMA RequestsOfZoom ==
  ASSUME NEW ts \in SUBSET Tabs, NEW percent \in Nat
  PROVE  /\ ZoomRequests(ts, percent) \in Seq(Requests)
         /\ \A i \in 1..Len(ZoomRequests(ts, percent)) : ZoomRequests(ts, percent)[i].kind = "zoom"
<1> DEFINE tabs == SetToSeq(ts)
           request(i) == [kind |-> "zoom", tab |-> tabs[i], percent |-> percent]
<1>1. IsFiniteSet(ts)
  BY InputAssumption, FS_Subset
<1>2. tabs \in Seq(ts) /\ Len(tabs) \in Nat
  BY <1>1, SetAsSequence, LenProperties
<1>3. \A i \in 1..Len(tabs) : tabs[i] \in Tabs
  BY <1>2, ElementOfSeq
<1> HIDE DEF tabs
<1>4. \A i \in 1..Len(tabs) : request(i) \in Requests /\ request(i).kind = "zoom"
  BY <1>3 DEF Requests
<1> HIDE DEF request
<1>5. ZoomRequests(ts, percent) = [i \in 1..Len(tabs) |-> request(i)]
  BY DEF ZoomRequests, tabs, request
<1>6. ZoomRequests(ts, percent) \in [1..Len(tabs) -> Requests]
  BY <1>4, <1>5
<1>7. ZoomRequests(ts, percent) \in Seq(Requests)
  BY <1>2, <1>6, SeqDef
<1>8. Len(ZoomRequests(ts, percent)) = Len(tabs)
  BY <1>2, <1>6, <1>7, LenProperties
<1> QED BY <1>4, <1>5, <1>7, <1>8

-----------------------------------------------------------------------------
(* The queues: what is added at the end, and what is taken from the front.  *)

LEMMA Added ==
  ASSUME NEW S, NEW list \in Seq(S), NEW x \in S
  PROVE  /\ Append(list, x) \in Seq(S) /\ Len(Append(list, x)) = Len(list) + 1 /\ Len(list) \in Nat
         /\ Append(list, x) # <<>> /\ Append(list, x)[Len(list) + 1] = x
         /\ \A n \in 1..Len(list) : Append(list, x)[n] = list[n]
BY AppendProperties

LEMMA Taken ==
  ASSUME NEW S, NEW list \in Seq(S), list # <<>>
  PROVE  /\ Head(list) \in S /\ Head(list) = list[1] /\ 1 \in 1..Len(list)
         /\ Tail(list) \in Seq(S) /\ Len(Tail(list)) = Len(list) - 1 /\ Len(list) \in Nat \ {0}
         /\ \A n \in 1..Len(Tail(list)) : n + 1 \in 1..Len(list) /\ Tail(list)[n] = list[n + 1]
<1>1. Len(list) \in Nat \ {0} /\ Tail(list) \in Seq(S) /\ Len(Tail(list)) = Len(list) - 1 /\ Head(list) = list[1]
      /\ \A n \in 1..Len(Tail(list)) : Tail(list)[n] = list[n + 1]
  BY HeadTailProperties, EmptySeq
<1>2. list[1] \in S
  BY <1>1, ElementOfSeq
<1> QED BY <1>1, <1>2

\* What is last stays last while the front is taken.
LEMMA LastStays ==
  ASSUME NEW S, NEW list \in Seq(S), list # <<>>
  PROVE  IF Tail(list) = <<>> THEN list[Len(list)] = Head(list)
         ELSE Tail(list)[Len(Tail(list))] = list[Len(list)]
<1>1. /\ Len(list) \in Nat \ {0} /\ Tail(list) \in Seq(S) /\ Len(Tail(list)) = Len(list) - 1 /\ Head(list) = list[1]
      /\ \A n \in 1..Len(Tail(list)) : Tail(list)[n] = list[n + 1]
  BY Taken
<1>2. Tail(list) = <<>> => Len(Tail(list)) = 0
  BY EmptySeq
<1>3. Tail(list) # <<>> => Len(Tail(list)) \in Nat \ {0}
  BY <1>1, EmptySeq
<1> QED BY <1>1, <1>2, <1>3

-----------------------------------------------------------------------------
(* What a step leaves alone.                                               *)

LEMMA TabsKept ==
  ASSUME IInv, UNCHANGED <<registry, keyboard, events>>, at' \in Places, acts' \in [Kinds -> Nat],
         at' = at \/ at'.step \notin {"scan", "post"} \/ \A t \in at'.left : url[t] # NoTab
  PROVE  TabsOK'
BY DEF IInv, TabsOK, registry, keyboard

LEMMA FindKept ==
  ASSUME IInv, UNCHANGED <<open, bar, calls, field, finding, marked>>, work' \in Seq(Requests)
  PROVE  FindType'
BY DEF IInv, FindType

Writing(a) == a.step \in {"write", "last write"}

LEMMA LevelsKept ==
  ASSUME IInv, UNCHANGED <<levels, file, zooming, dirty, failed>>, at' = at \/ (~Writing(at) /\ ~Writing(at'))
  PROVE  LevelsOK'
<1>1. CASE at' = at
  BY <1>1 DEF IInv, LevelsOK
<1>2. CASE ~Writing(at) /\ ~Writing(at')
  BY <1>2 DEF IInv, LevelsOK, Writing
<1> QED BY <1>1, <1>2

LEMMA FieldKept ==
  ASSUME IInv, UNCHANGED <<focus, target, owner, pressed>>, bounced => bounced', at' = at \/ at'.step # "drain"
  PROVE  FieldOK'
BY DEF IInv, FieldOK

\* What has been done stays done.
LEMMA ChordFollows ==
  ASSUME IInv, UNCHANGED <<last, events, calls>>, last # "other" /\ events = <<>> /\ Done => Done'
  PROVE  ChordOK'
<1>1. ChordOK /\ last' = last /\ events' = events /\ calls' = calls
  BY DEF IInv
<1>2. KeyCloses <=> KeyCloses'
  BY <1>1 DEF KeyCloses
<1>3. CASE last = "other" \/ KeyCloses \/ events # <<>>
  BY <1>1, <1>2, <1>3 DEF ChordOK, Asks
<1>4. CASE ~(last = "other" \/ KeyCloses \/ events # <<>>)
  BY <1>1, <1>2, <1>4 DEF ChordOK, Close
<1> QED BY <1>3, <1>4

LEMMA ChordKept ==
  ASSUME IInv, UNCHANGED <<last, events, focus, target, pressed, calls>>, bar'.open = bar.open,
         at' = at \/ (at'.step \in {"focus", "owner"} => at'.looked = focus)
  PROVE  ChordOK'
<1>1. last # "other" /\ Done => Done'
  BY DEF Done
<1> QED BY <1>1, ChordFollows

LEMMA ChordForgotten ==
  ASSUME last' = "other"
  PROVE  ChordOK'
BY DEF ChordOK

LEMMA SweepKept ==
  ASSUME IInv, UNCHANGED <<open, known, finding, shown, work>>
  PROVE  SweepOK'
BY DEF IInv, SweepOK, Finds

\* The searches are where they were, and so is what hides them.
LEMMA CountKept ==
  ASSUME IInv, UNCHANGED <<finding, shown, marked, open, work, calls>>, muddled => muddled', bar' = bar \/ bar' = Opened(bar)
  PROVE  CountOK'
<1>1. /\ bar'.query = bar.query /\ bar'.count = bar.count /\ bar'.index = bar.index /\ bar'.searched = bar.searched
      /\ bar'.repeat = bar.repeat /\ bar'.direction = bar.direction
  BY DEF IInv, FindType, Bars, Opened
<1>2. (OneSearch <=> OneSearch') /\ (HidesBefore <=> HidesBefore')
  BY <1>1 DEF OneSearch, HidesBefore, IsFind, IsHide, IsTheOne, Finds
<1>3. (Agrees <=> Agrees') /\ (Hidden <=> Hidden') /\ (Unanswered <=> Unanswered') /\ (Searching <=> Searching')
  BY <1>1 DEF Agrees, Hidden, Hides, Unanswered, Finds, Searching
<1>4. (Walks <=> Walks') /\ (Begins <=> Begins') /\ (Empty <=> Empty')
  BY <1>1, <1>3 DEF Walks, Begins, Empty
<1>5. (EndsOK <=> EndsOK') /\ (AskOK <=> AskOK') /\ (Quiet <=> Quiet')
  BY <1>1, <1>3, <1>4 DEF EndsOK, AskOK, Quiet, Clearing, Asking
<1>6. SearchOK <=> SearchOK'
  BY <1>1, <1>2, <1>3, <1>4 DEF SearchOK
<1> QED BY <1>5, <1>6 DEF IInv, CountOK

\* A call goes on as it was, while nothing is asked and its page is not disturbed.
LEMMA CallsKept ==
  ASSUME IInv, calls' = calls, muddled => muddled', ~Unanswered => ~Unanswered' /\ bar' = bar,
         Asking /\ ~muddled' /\ shown' \in open' => shown \in open /\ (Walks => Walks') /\ (Begins => Begins'),
         ~muddled' /\ Quiet => SearchOK'
  PROVE  CountOK'
<1> SUFFICES ASSUME ~muddled' PROVE EndsOK' /\ AskOK' /\ (Quiet' => SearchOK')
  BY DEF CountOK
<1>1. (Quiet' <=> Quiet) /\ (Asking' <=> Asking) /\ \A th \in Threads : Clearing(th)' <=> Clearing(th)
  BY DEF Quiet, Asking, Clearing
<1>2. EndsOK /\ AskOK
  BY DEF IInv, CountOK
<1>3. ~Unanswered => ~Unanswered' /\ (Searching' <=> Searching) /\ (Empty' <=> Empty)
  BY DEF Searching, Empty
<1>4. EndsOK'
  BY <1>1, <1>2, <1>3 DEF EndsOK, Clearing
<1>5. AskOK'
  BY <1>1, <1>2, <1>3 DEF AskOK
<1> QED BY <1>1, <1>4, <1>5

\* What is searched for is a text.
LEMMA AskedIsText ==
  ASSUME IInv, Asking
  PROVE  calls["frame"] \in AskCalls /\ (~muddled => Searching)
<1>1. calls["frame"] \in Calls
  BY DEF IInv, FindType, Threads
<1>2. calls["frame"] \in AskCalls
  BY <1>1 DEF Calls, Asking, Idle, KeyCalls, KiraCalls, EndCalls, CloseSteps
<1>3. calls["frame"].text \in Texts
  BY <1>2 DEF AskCalls
<1> QED BY <1>2, <1>3, InputAssumption DEF IInv, CountOK, AskOK, Searching

\* A request that is none of a search comes behind.
LEMMA SearchesKept ==
  ASSUME IInv, NEW more \in Seq(Requests), work' = work \o more,
         \A i \in 1..Len(more) : more[i].kind \notin {"find", "hide"},
         UNCHANGED <<open, known, finding, marked, bar, calls>>, muddled => muddled',
         \/ UNCHANGED shown
         \/ /\ Searching => muddled'
            /\ open \subseteq known \/ \E j \in 1..Len(work') : work'[j].kind = "sweep"
  PROVE  SweepOK' /\ CountOK' /\ work' \in Seq(Requests)
<1>1. /\ work \in Seq(Requests) /\ work' \in Seq(Requests) /\ Len(work) \in Nat /\ Len(more) \in Nat
      /\ Len(work') = Len(work) + Len(more)
      /\ \A i \in 1..(Len(work) + Len(more)) : work'[i] = IF i <= Len(work) THEN work[i] ELSE more[i - Len(work)]
  BY ConcatProperties, LenProperties DEF IInv, FindType
<1>2. \A i \in Nat : /\ i \in 1..Len(work) => i \in 1..Len(work') /\ work'[i] = work[i]
                     /\ i \in 1..Len(work') /\ i \notin 1..Len(work) => work'[i].kind \notin {"find", "hide"}
  <2> TAKE i \in Nat
  <2>1. i \in 1..Len(work) => i \in 1..Len(work') /\ work'[i] = work[i]
    BY <1>1
  <2>2. ASSUME i \in 1..Len(work'), i \notin 1..Len(work)
        PROVE  work'[i].kind \notin {"find", "hide"}
    <3>1. i - Len(work) \in 1..Len(more) /\ work'[i] = more[i - Len(work)]
      BY <1>1, <2>2
    <3> QED BY <3>1
  <2> QED BY <2>1, <2>2
<1>3. \A i \in 1..Len(work) : i \in Nat
  BY <1>1
<1>4. \A i \in 1..Len(work') : i \in Nat
  BY <1>1
<1>5. SweepOK'
  <2>1. CASE open \subseteq known
    BY <2>1 DEF SweepOK
  <2>2. CASE ~(open \subseteq known)
    <3>1. \A t \in Tabs : ~Finds(finding[t])'
      BY <2>2 DEF IInv, SweepOK, Finds
    <3>2. ASSUME NEW i \in 1..Len(work'), work'[i].kind = "find"
          PROVE  \E j \in 1..(i - 1) : work'[j].kind = "sweep"
      <4>1. i \in 1..Len(work) /\ work[i].kind = "find"
        BY <1>2, <1>4, <3>2
      <4>2. PICK j \in 1..(i - 1) : work[j].kind = "sweep"
        BY <2>2, <4>1 DEF IInv, SweepOK
      <4>3. j \in Nat /\ j \in 1..Len(work)
        BY <1>1, <4>1
      <4>4. work'[j].kind = "sweep"
        BY <1>2, <4>2, <4>3
      <4> QED BY <4>4
    <3>3. shown' # NoTab => \E j \in 1..Len(work') : work'[j].kind = "sweep"
      <4>1. CASE UNCHANGED shown
        BY <1>2, <1>3, <2>2, <4>1 DEF IInv, SweepOK
      <4>2. CASE ~UNCHANGED shown
        BY <2>2, <4>2
      <4> QED BY <4>1, <4>2
    <3> QED BY <3>1, <3>2, <3>3 DEF SweepOK
  <2> QED BY <2>1, <2>2
<1>6. \A i \in Nat : /\ IsFind(work, i) <=> IsFind(work, i)'
                     /\ shown' = shown => (IsHide(work, i) <=> IsHide(work, i)')
                     /\ IsFind(work, i) => work'[i] = work[i]
  BY <1>2 DEF IsFind, IsHide
<1>7. CountOK'
  <2>1. Finds(work) <=> Finds(work)'
    <3>1. Finds(work) <=> \E i \in Nat : IsFind(work, i)
      BY <1>3 DEF Finds, IsFind
    <3>2. Finds(work)' <=> \E i \in Nat : IsFind(work, i)'
      BY <1>4 DEF Finds, IsFind
    <3> QED BY <1>6, <3>1, <3>2
  <2>2. (Unanswered <=> Unanswered') /\ (Searching <=> Searching')
    BY <2>1 DEF Unanswered, Finds, Searching
  <2>3. CASE UNCHANGED shown
    <3>1. Hides(work, shown) <=> Hides(work, shown)'
      <4>1. Hides(work, shown) <=> \E i \in Nat : IsHide(work, i)
        BY <1>3 DEF Hides, IsHide
      <4>2. Hides(work, shown)' <=> \E i \in Nat : IsHide(work, i)'
        BY <1>4 DEF Hides, IsHide
      <4> QED BY <1>6, <2>3, <4>1, <4>2
    <3>2. OneSearch => OneSearch'
      BY <1>6, <2>1, <2>3 DEF OneSearch, IsFind, IsTheOne, Finds
    <3>3. HidesBefore => HidesBefore'
      BY <1>6, <2>1, <2>3 DEF HidesBefore, IsFind, IsHide
    <3>4. (Agrees <=> Agrees') /\ (Hidden <=> Hidden')
      BY <2>3, <3>1 DEF Agrees, Hidden, Hides
    <3>5. (Walks <=> Walks') /\ (Begins <=> Begins') /\ (Empty <=> Empty')
      BY <2>3, <3>4 DEF Walks, Begins, Empty
    <3>6. SearchOK => SearchOK'
      BY <2>2, <2>3, <3>2, <3>3, <3>4, <3>5 DEF SearchOK
    <3>7. ~muddled' /\ Quiet => SearchOK'
      BY <3>6 DEF IInv, CountOK
    <3> QED BY <2>2, <2>3, <3>5, <3>7, CallsKept
  <2>4. CASE ~UNCHANGED shown
    <3>1. Empty <=> Empty'
      BY DEF Empty
    <3>2. ~muddled' => ~Searching /\ ~Asking
      BY <2>4, AskedIsText
    <3>3. ~muddled' /\ Quiet => SearchOK'
      BY <2>2, <3>1, <3>2 DEF IInv, CountOK, SearchOK
    <3> QED BY <2>2, <3>2, <3>3, CallsKept
  <2> QED BY <2>3, <2>4
<1> QED BY <1>1, <1>5, <1>7

-----------------------------------------------------------------------------
(* Where the keyboard goes.                                                *)

LEMMA Windows ==
  ASSUME IInv
  PROVE  /\ Host \notin Tabs /\ NoWindow \notin Tabs /\ Host # NoWindow /\ NoTab \notin Tabs
         /\ known \subseteq open /\ open \subseteq Tabs /\ ~Content(Host) /\ ~Content(NoWindow)
BY InputAssumption DEF IInv, TabsOK, Content

LEMMA ActTyped ==
  ASSUME IInv, NEW kind \in Kinds, Act(kind)
  PROVE  acts' \in [Kinds -> Nat]
<1>1. acts \in [Kinds -> Nat] /\ acts[kind] > 0
  BY DEF IInv, TabsOK, Act
<1>2. acts[kind] - 1 \in Nat
  BY <1>1
<1> QED BY <1>1, <1>2 DEF Act

\* The keyboard goes to a page only without a field that has the keys, or behind the
\* frame's back.
FocusGoes ==
  /\ focus' \in open \cup {Host, NoWindow} /\ target' \in Fields \cup {"none"} /\ (bounced => bounced')
  /\ focus' \in Tabs /\ ~bounced' => pressed = "none" /\ (owner = "content" => target' = "none")

LEMMA GoesToChrome ==
  ASSUME IInv, NEW f \in Fields \cup {"none"}, ToChrome(f)
  PROVE  FocusGoes
BY Windows DEF FocusGoes, ToChrome

LEMMA GoesToContent ==
  ASSUME IInv, NEW f \in {target, "none"}, ToContent(f)
  PROVE  FocusGoes
<1>1. target \in Fields \cup {"none"} /\ focus \in open \cup {Host, NoWindow} /\ FieldOK
  BY DEF IInv, TabsOK
<1>2. CASE shown \in known
  BY <1>1, <1>2, Windows DEF FocusGoes, ToContent, Bounces, FieldOK
<1>3. CASE shown \notin known
  BY <1>1, <1>3, Windows DEF FocusGoes, ToContent, FieldOK
<1> QED BY <1>2, <1>3

LEMMA GoesRound ==
  ASSUME IInv, NEW d \in Steps, Cycles(d)
  PROVE  FocusGoes
<1> DEFINE here == IF Content(focus) THEN {Len(Stops)} ELSE {i \in 1..Len(Stops) : Stops[i] = target}
           n == IF here = {} THEN 0 ELSE CHOOSE i \in here : TRUE
           j == n + d
<1>1. /\ Len(Stops) \in {2, 3} /\ \A i \in 1..Len(Stops) : Stops[i] \in Fields \cup {"page"}
  BY DEF Stops, Fields
<1>2. here \subseteq 1..Len(Stops)
  BY <1>1
<1>3. n \in 0..Len(Stops)
  <2> HIDE DEF here
  <2>1. CASE here = {}
    BY <1>1, <2>1
  <2>2. CASE here # {}
    <3>1. n \in here
      BY <2>2
    <3>2. n \in 1..Len(Stops)
      BY <1>2, <3>1
    <3> QED BY <1>1, <3>2
  <2> QED BY <2>1, <2>2
<1>4. j \in Int
  BY <1>1, <1>3 DEF Steps
<1>5. NextStop(d) = Stops[IF j < 1 THEN Len(Stops) ELSE IF j > Len(Stops) THEN 1 ELSE j]
  BY DEF NextStop
<1> HIDE DEF j
<1>6. NextStop(d) \in Fields \cup {"page"}
  BY <1>1, <1>4, <1>5
<1>7. CASE NextStop(d) = "page"
  BY <1>7, GoesToContent DEF Cycles
<1>8. CASE NextStop(d) # "page"
  BY <1>6, <1>8, GoesToChrome DEF Cycles
<1> QED BY <1>7, <1>8

LEMMA KeyboardMoves ==
  ASSUME IInv, FocusGoes, UNCHANGED <<registry, known, shown, owner, pressed, at>>,
         events' \in Seq(Events), acts' \in [Kinds -> Nat]
  PROVE  TabsOK' /\ FieldOK'
<1>1. TabsOK'
  BY DEF IInv, TabsOK, FocusGoes, registry
<1>2. FieldOK'
  BY DEF IInv, FieldOK, FocusGoes
<1> QED BY <1>1, <1>2

\* An event is queued.
LEMMA EventQueued ==
  ASSUME IInv, NEW e \in Events, Queued(e)
  PROVE  events' \in Seq(Events) /\ events' # <<>> /\ events'[Len(events')] = e
BY Added DEF IInv, TabsOK, Queued

LEMMA ChordAsked ==
  ASSUME IInv, NEW e \in Events, Queued(e),
         \/ last' = "address" /\ e.kind = "address"
         \/ last' = "find" /\ e.kind = "open find"
         \/ last' = "closed" /\ (e.kind = "close find" \/ (e.kind = "cancel" /\ e.target = "find"))
  PROVE  ChordOK'
<1>1. events' # <<>> /\ events'[Len(events')] = e
  BY EventQueued
<1>2. (\A x : (x = e => Asks(x)'))
  BY DEF Asks
<1>3. Asks(events[Len(events)])'
  BY <1>1, <1>2 DEF Asks
<1>4. last' \in {"address", "find", "closed", "other"}
  OBVIOUS
<1> QED BY <1>1, <1>3, <1>4 DEF ChordOK, KeyCloses

-----------------------------------------------------------------------------
(* Chords and presses.                                                      *)

LEMMA KeyAddressStep == ASSUME IInv, KeyAddress PROVE IInv'
<1> USE DEF KeyAddress
<1>1. [kind |-> "address"] \in Events /\ "address" \in Fields /\ "keys" \in Kinds
  BY DEF Events, Fields, Kinds
<1>2. events' \in Seq(Events) /\ ChordOK'
  <2> DEFINE e == [kind |-> "address"]
  <2>1. Queued(e) /\ last' = "address" /\ e.kind = "address"
    OBVIOUS
  <2> HIDE DEF e
  <2>2. e \in Events
    BY <1>1 DEF e
  <2> QED BY <2>1, <2>2, EventQueued, ChordAsked
<1>3. acts' \in [Kinds -> Nat] /\ FocusGoes
  BY <1>1, ActTyped, GoesToChrome DEF KeyComes
<1>4. TabsOK' /\ FieldOK'
  BY <1>2, <1>3, KeyboardMoves
<1>5. FindType' /\ LevelsOK' /\ SweepOK' /\ CountOK'
  BY FindKept, LevelsKept, SweepKept, CountKept DEF registry, finder, zoomer, disk, IInv, FindType
<1> QED BY <1>2, <1>4, <1>5 DEF IInv

LEMMA KeyFindStep == ASSUME IInv, KeyFind PROVE IInv'
<1> USE DEF KeyFind
<1>1. [kind |-> "open find"] \in Events /\ "find" \in Fields /\ "find" \in Kinds
  BY DEF Events, Fields, Kinds
<1>2. events' \in Seq(Events) /\ ChordOK'
  <2> DEFINE e == [kind |-> "open find"]
  <2>1. Queued(e) /\ last' = "find" /\ e.kind = "open find"
    OBVIOUS
  <2> HIDE DEF e
  <2>2. e \in Events
    BY <1>1 DEF e
  <2> QED BY <2>1, <2>2, EventQueued, ChordAsked
<1>3. acts' \in [Kinds -> Nat] /\ FocusGoes
  BY <1>1, ActTyped, GoesToChrome DEF KeyComes
<1>4. TabsOK' /\ FieldOK'
  BY <1>2, <1>3, KeyboardMoves
<1>5. FindType'
  BY DEF IInv, FindType, Opened, Bars, registry
<1>6. LevelsOK' /\ SweepOK' /\ CountOK'
  BY LevelsKept, SweepKept, CountKept DEF registry, zoomer, disk
<1> QED BY <1>2, <1>4, <1>5, <1>6 DEF IInv

LEMMA KeyCycleStep == ASSUME IInv, NEW d \in Steps, KeyCycle(d) PROVE IInv'
<1> USE DEF KeyCycle
<1>1. acts' \in [Kinds -> Nat] /\ FocusGoes
  BY ActTyped, GoesRound DEF KeyComes, Kinds
<1>2. TabsOK' /\ FieldOK'
  BY <1>1, KeyboardMoves DEF IInv, TabsOK
<1>3. ChordOK'
  BY ChordForgotten
<1>4. FindType' /\ LevelsOK' /\ SweepOK' /\ CountOK'
  BY FindKept, LevelsKept, SweepKept, CountKept DEF registry, finder, zoomer, disk, IInv, FindType
<1> QED BY <1>2, <1>3, <1>4 DEF IInv

Edits ==
  [kind : {"text"}, text : Queries] \cup [kind : {"walk"}, direction : Steps] \cup [kind : {"submit"}]

LEMMA KeyEditsStep == ASSUME IInv, NEW e \in Edits, KeyEdits(e) PROVE IInv'
<1> USE DEF KeyEdits
<1>1. acts' \in [Kinds -> Nat] /\ e \in Events
  BY ActTyped DEF KeyComes, Kinds, Edits, Events
<1>2. events' \in Seq(Events)
  BY <1>1, EventQueued
<1>3. TabsOK'
  BY <1>1, <1>2 DEF IInv, TabsOK, registry, keyboard
<1>4. FieldOK' /\ ChordOK'
  BY FieldKept, ChordForgotten DEF keyboard
<1>5. FindType' /\ LevelsOK' /\ SweepOK' /\ CountOK'
  BY FindKept, LevelsKept, SweepKept, CountKept DEF registry, keyboard, finder, zoomer, disk, IInv, FindType
<1> QED BY <1>3, <1>4, <1>5 DEF IInv

LEMMA PressStep == ASSUME IInv, NEW region \in Fields \cup {"elsewhere"}, Press(region) PROVE IInv'
<1> USE DEF Press
<1>1. acts' \in [Kinds -> Nat]
  BY ActTyped DEF Kinds
<1>2. TabsOK'
  BY <1>1 DEF IInv, TabsOK, registry
<1>3. FieldOK'
  <2>1. at.step = "pump" /\ at' = at
    BY DEF Pumps
  <2>2. focus' \in Tabs => focus \in open \ known
    BY Windows DEF Content, IInv, TabsOK
  <2> QED BY <2>1, <2>2 DEF FieldOK
<1>4. ChordOK'
  BY ChordForgotten
<1>5. FindType' /\ LevelsOK' /\ SweepOK' /\ CountOK'
  BY FindKept, LevelsKept, SweepKept, CountKept DEF registry, finder, zoomer, disk, IInv, FindType
<1> QED BY <1>2, <1>3, <1>4, <1>5 DEF IInv

LEMMA PressPageStep == ASSUME IInv, PressPage PROVE IInv'
<1> USE DEF PressPage
<1>1. acts' \in [Kinds -> Nat]
  BY ActTyped DEF Kinds
<1>2. FocusGoes
  <2>1. selected \in open /\ selected \in Tabs /\ FieldOK /\ target \in Fields \cup {"none"}
    BY Windows DEF IInv, TabsOK
  <2> QED BY <2>1 DEF FocusGoes, Bounces, FieldOK
<1>3. TabsOK' /\ FieldOK'
  BY <1>1, <1>2, KeyboardMoves DEF IInv, TabsOK
<1>4. ChordOK'
  BY ChordForgotten
<1>5. FindType' /\ LevelsOK' /\ SweepOK' /\ CountOK'
  BY FindKept, LevelsKept, SweepKept, CountKept DEF registry, finder, zoomer, disk, IInv, FindType
<1> QED BY <1>3, <1>4, <1>5 DEF IInv

LEMMA PageMovesFocusStep == ASSUME IInv, PageMovesFocus PROVE IInv'
<1> USE DEF PageMovesFocus
<1>1. acts' \in [Kinds -> Nat]
  BY ActTyped DEF Kinds
<1>2. FocusGoes
  <2>1. CASE \E d \in {-1, 1} : Cycles(d)
    BY <2>1, GoesRound DEF Steps
  <2>2. CASE ToContent(target)
    BY <2>2, GoesToContent
  <2>3. CASE ToChrome(target)
    BY <2>3, GoesToChrome DEF IInv, TabsOK
  <2> QED BY <2>1, <2>2, <2>3
<1>3. TabsOK' /\ FieldOK'
  BY <1>1, <1>2, KeyboardMoves DEF IInv, TabsOK
<1>4. ChordOK'
  BY ChordForgotten
<1>5. FindType' /\ LevelsOK' /\ SweepOK' /\ CountOK'
  BY FindKept, LevelsKept, SweepKept, CountKept DEF registry, finder, zoomer, disk, IInv, FindType
<1> QED BY <1>3, <1>4, <1>5 DEF IInv

LEMMA ActivationStep == ASSUME IInv, Activation PROVE IInv'
<1> USE DEF Activation
<1>1. acts' \in [Kinds -> Nat] /\ at' \in Places
  BY ActTyped DEF Kinds, IInv, TabsOK
<1>2. TabsOK' /\ FieldOK' /\ ChordOK'
  BY <1>1, TabsKept, FieldKept, ChordKept DEF registry, keyboard, finder, history
<1>3. FindType' /\ LevelsOK' /\ SweepOK' /\ CountOK'
  BY FindKept, LevelsKept, SweepKept, CountKept DEF registry, keyboard, finder, zoomer, disk, history, IInv, FindType
<1> QED BY <1>2, <1>3 DEF IInv

-----------------------------------------------------------------------------
(* The levels.                                                             *)

LEMMA FinderKept ==
  ASSUME IInv, UNCHANGED <<open, known, shown, finder, work, muddled>>
  PROVE  FindType' /\ SweepOK' /\ CountOK'
BY FindKept, SweepKept, CountKept DEF finder, IInv, FindType

LEMMA PlaceParts ==
  ASSUME IInv
  PROVE  /\ at.step = "scan" => at.left \in SUBSET Tabs /\ at = [step |-> "scan", left |-> at.left]
         /\ at.step \in {"scan", "post"} => \A t \in at.left : url[t] # NoTab
         /\ at.step = "post" => at.tab \in Tabs /\ at.percent \in Nat /\ at.left \in SUBSET Tabs
         /\ at.step \in {"write", "last write"} => at.holds \in [Sites -> Nat]
         /\ at.step \in {"focus", "owner"} => at.looked \in Tabs \cup {Host, NoWindow}
<1>1. at \in Places
  BY DEF IInv, TabsOK
<1>2. at.step = "scan" => at.left \in SUBSET Tabs /\ at = [step |-> "scan", left |-> at.left]
  BY <1>1 DEF Places
<1>3. at.step = "post" => at.tab \in Tabs /\ at.percent \in Nat /\ at.left \in SUBSET Tabs
  BY <1>1 DEF Places
<1>4. at.step \in {"write", "last write"} => at.holds \in [Sites -> Nat]
  BY <1>1 DEF Places
<1>5. at.step \in {"focus", "owner"} => at.looked \in Tabs \cup {Host, NoWindow}
  BY <1>1 DEF Places
<1>6. at.step \in {"scan", "post"} => \A t \in at.left : url[t] # NoTab
  BY DEF IInv, TabsOK
<1> QED BY <1>2, <1>3, <1>4, <1>5, <1>6

LEMMA PageLevel ==
  ASSUME IInv, NEW t \in Tabs, url[t] # NoTab
  PROVE  t \in Tabs /\ url[t] \in URLs /\ SiteOf[url[t]] \in Sites \cup {NoSite} /\ LevelOf(url[t]) \in Percents
<1>1. t \in Tabs /\ url[t] \in URLs
  BY DEF IInv, TabsOK
<1>2. SiteOf[url[t]] \in Sites \cup {NoSite} /\ levels \in [Sites -> Percents]
  BY <1>1, InputAssumption DEF IInv, LevelsOK
<1> QED BY <1>1, <1>2, LadderIsSound DEF LevelOf

LEMMA ZoomReadsStep ==
  ASSUME IInv, NEW th \in Threads, NEW c \in {"in", "out", "reset"}, ZoomReads(th, c)
  PROVE  IInv'
<1> USE DEF ZoomReads
<1>1. acts' \in [Kinds -> Nat] /\ at' \in Places
  BY ActTyped DEF Kinds, IInv, TabsOK
<1>2. TabsOK' /\ FieldOK' /\ ChordOK'
  BY <1>1, TabsKept, FieldKept, ChordKept DEF registry, keyboard, finder
<1>3. FindType' /\ SweepOK' /\ CountOK'
  BY FinderKept DEF registry, keyboard
<1>4. LevelsOK'
  <2> DEFINE p == Stepped(LevelOf(url[shown]), c)
  <2>1. p \in Percents
    <3>1. shown \in Tabs /\ url[shown] # NoTab
      BY DEF IInv, TabsOK
    <3> QED BY <3>1, PageLevel, SteppedIsLevel
  <2> HIDE DEF p
  <2>2. [step |-> "store", percent |-> p] \in Changes
    BY <2>1 DEF Changes
  <2>3. zooming' = [zooming EXCEPT ![th] = [step |-> "store", percent |-> p]]
    BY DEF p
  <2>4. zooming' \in [Threads -> Changes]
    BY <2>2, <2>3 DEF IInv, LevelsOK
  <2> QED BY <2>4 DEF IInv, LevelsOK, disk
<1> QED BY <1>2, <1>3, <1>4 DEF IInv

LEMMA ChangeParts ==
  ASSUME IInv, NEW th \in Threads
  PROVE  /\ zooming[th].step = "store" => zooming[th].percent \in Percents
         /\ zooming[th].step = "post" => zooming[th].percent \in Percents /\ zooming[th].site \in Sites \cup {NoSite}
<1>1. zooming[th] \in Changes
  BY DEF IInv, LevelsOK
<1> QED BY <1>1 DEF Changes

LEMMA LevelSet ==
  ASSUME IInv, UNCHANGED <<file, failed, at>>, zooming' \in [Threads -> Changes],
         UNCHANGED <<levels, dirty>> \/ (levels' \in [Sites -> Percents] /\ dirty' = TRUE)
  PROVE  LevelsOK'
<1>1. CASE UNCHANGED <<levels, dirty>>
  BY <1>1 DEF IInv, LevelsOK
<1>2. CASE levels' \in [Sites -> Percents] /\ dirty' = TRUE
  BY <1>2 DEF IInv, LevelsOK
<1> QED BY <1>1, <1>2

LEMMA ZoomStoresStep == ASSUME IInv, NEW th \in Threads, ZoomStores(th) PROVE IInv'
<1> USE DEF ZoomStores
<1>1. TabsOK' /\ FieldOK' /\ ChordOK'
  BY TabsKept, FieldKept, ChordKept DEF registry, keyboard, finder, history, IInv, TabsOK
<1>2. FindType' /\ SweepOK' /\ CountOK'
  BY FinderKept DEF registry, keyboard, history
<1>3. LevelsOK'
  <2> DEFINE s == IF shown \in open THEN SiteOf[url[shown]] ELSE NoSite
             p == zooming[th].percent
  <2>1. s \in Sites \cup {NoSite} /\ p \in Percents
    <3>1. shown \in open => shown \in Tabs /\ url[shown] # NoTab
      BY DEF IInv, TabsOK
    <3> QED BY <3>1, PageLevel, ChangeParts
  <2>2. /\ zooming' = [zooming EXCEPT ![th] = [step |-> "post", percent |-> p, site |-> s]]
        /\ (s = NoSite => UNCHANGED <<levels, dirty>>)
        /\ (s # NoSite => levels' = [levels EXCEPT ![s] = p] /\ dirty' = TRUE)
        /\ UNCHANGED <<file, failed, at>>
    OBVIOUS
  <2> HIDE DEF s, p
  <2>3. zooming' \in [Threads -> Changes]
    <3>1. [step |-> "post", percent |-> p, site |-> s] \in Changes
      BY <2>1 DEF Changes
    <3> QED BY <2>2, <3>1 DEF IInv, LevelsOK
  <2>4. UNCHANGED <<levels, dirty>> \/ (levels' \in [Sites -> Percents] /\ dirty' = TRUE)
    <3>1. CASE s = NoSite
      BY <2>2, <3>1
    <3>2. CASE s # NoSite
      BY <2>1, <2>2, <3>2 DEF IInv, LevelsOK
    <3> QED BY <3>1, <3>2
  <2> QED BY <2>2, <2>3, <2>4, LevelSet
<1> QED BY <1>1, <1>2, <1>3 DEF IInv

LEMMA ZoomPostsStep == ASSUME IInv, NEW th \in Threads, ZoomPosts(th) PROVE IInv'
<1> USE DEF ZoomPosts
<1>1. TabsOK' /\ FieldOK' /\ ChordOK'
  BY TabsKept, FieldKept, ChordKept DEF registry, keyboard, finder, IInv, TabsOK
<1>2. SweepOK' /\ CountOK' /\ work' \in Seq(Requests)
  <2> DEFINE ts == PostedTo(zooming[th].site)
             more == ZoomRequests(ts, zooming[th].percent)
  <2>1. ts \in SUBSET Tabs /\ zooming[th].percent \in Nat
    BY ChangeParts, Windows DEF PostedTo, Percents
  <2>2. more \in Seq(Requests) /\ \A i \in 1..Len(more) : more[i].kind = "zoom"
    BY <2>1, RequestsOfZoom
  <2>3. work' = work \o more
    OBVIOUS
  <2> HIDE DEF more
  <2> QED BY <2>2, <2>3, SearchesKept DEF registry, keyboard, finder
<1>3. FindType'
  BY <1>2, FindKept DEF registry, finder
<1>4. LevelsOK'
  <2>1. Idle \in Changes
    BY DEF Idle, Changes
  <2>2. zooming' \in [Threads -> Changes]
    BY <2>1 DEF IInv, LevelsOK
  <2> QED BY <2>2 DEF IInv, LevelsOK, disk
<1> QED BY <1>1, <1>2, <1>3, <1>4 DEF IInv

LEMMA ZoomLooksStep == ASSUME IInv, ZoomLooks PROVE IInv'
<1> USE DEF ZoomLooks
<1>1. at' \in Places /\ at'.step \in {"scan", "save"}
  <2>1. open \in SUBSET Tabs
    BY DEF IInv, TabsOK
  <2> QED BY <2>1 DEF Places
<1>2. TabsOK' /\ FieldOK' /\ ChordOK'
  BY <1>1, TabsKept, FieldKept, ChordKept DEF registry, keyboard, finder, history, IInv, TabsOK
<1>3. FindType' /\ SweepOK' /\ CountOK'
  BY FinderKept DEF registry, keyboard, history
<1>4. LevelsOK'
  BY <1>1, LevelsKept DEF disk, Writing
<1> QED BY <1>2, <1>3, <1>4 DEF IInv

LEMMA ScanReadsStep == ASSUME IInv, NEW t \in Tabs, ScanReads(t) PROVE IInv'
<1> USE DEF ScanReads
<1> DEFINE p == LevelOf(url[t])
           left == at.left \ {t}
<1>1. /\ at.step = "scan" /\ at = [step |-> "scan", left |-> at.left] /\ left \in SUBSET Tabs
      /\ at' \in {[step |-> "post", tab |-> t, percent |-> p, left |-> left], [step |-> "scan", left |-> left]}
  BY PlaceParts
<1>2. p \in Nat
  <2>1. url[t] # NoTab
    BY PlaceParts
  <2> QED BY <2>1, PageLevel DEF Percents
<1> HIDE DEF p, left
<1>3. at' \in Places /\ at'.step \in {"scan", "post"}
  BY <1>1, <1>2 DEF Places
<1>7. \A x \in at'.left : url[x] # NoTab
  BY <1>1, PlaceParts DEF left
<1>4. TabsOK' /\ FieldOK' /\ ChordOK'
  BY <1>3, <1>7, TabsKept, FieldKept, ChordKept DEF registry, keyboard, finder, history, IInv, TabsOK
<1>5. FindType' /\ SweepOK' /\ CountOK'
  BY FinderKept DEF registry, keyboard, history
<1>6. LevelsOK'
  BY <1>1, <1>3, LevelsKept DEF disk, Writing
<1> QED BY <1>4, <1>5, <1>6 DEF IInv

LEMMA ScanPostsStep == ASSUME IInv, ScanPosts PROVE IInv'
<1> USE DEF ScanPosts
<1> DEFINE r == [kind |-> "zoom", tab |-> at.tab, percent |-> at.percent]
<1>1. at.tab \in Tabs /\ at.percent \in Nat /\ at.left \in SUBSET Tabs
  BY PlaceParts
<1>2. at' \in Places /\ at'.step = "scan"
  BY <1>1 DEF Places
<1>3. TabsOK' /\ FieldOK' /\ ChordOK'
  BY <1>2, TabsKept, FieldKept, ChordKept DEF registry, keyboard, finder, history, IInv, TabsOK
<1>4. SweepOK' /\ CountOK' /\ work' \in Seq(Requests)
  <2>1. r \in Requests /\ r.kind = "zoom" /\ work' = Append(work, r)
    BY <1>1 DEF Requests
  <2> HIDE DEF r
  <2>2. work' = work \o <<r>> /\ <<r>> \in Seq(Requests) /\ \A i \in 1..Len(<<r>>) : <<r>>[i] = r
    BY <2>1, AppendIsConcat DEF IInv, FindType
  <2> QED BY <2>1, <2>2, SearchesKept DEF registry, keyboard, finder, history
<1>5. FindType'
  BY <1>4, FindKept DEF registry, finder
<1>6. LevelsOK'
  BY <1>2, LevelsKept DEF disk, zoomer, Writing
<1> QED BY <1>3, <1>4, <1>5, <1>6 DEF IInv

LEMMA WritingBegins ==
  ASSUME IInv, UNCHANGED <<levels, file, zooming, failed>>, dirty' = FALSE, Writing(at'), at'.holds = Encoded(levels)
  PROVE  LevelsOK'
BY DEF IInv, LevelsOK, Writing

LEMMA SaveTakesStep == ASSUME IInv, NEW due \in BOOLEAN, SaveTakes(due) PROVE IInv'
<1> USE DEF SaveTakes
<1>1. \/ at' = [step |-> "write", holds |-> Encoded(levels)] /\ dirty' = FALSE
      \/ at' = [step |-> "sync"] /\ dirty' = dirty
  OBVIOUS
<1>2. UNCHANGED <<registry, keyboard, events, finder, levels, file, zooming, failed, work, acts, history>> /\ ~Writing(at)
  BY DEF zoomer, Writing, Pumps
<1> HIDE DEF SaveTakes
<1>3. [step |-> "write", holds |-> Encoded(levels)] \in Places /\ [step |-> "sync"] \in Places
  <2>1. Encoded(levels) \in [Sites -> Nat]
    BY FileOfLevels DEF IInv, LevelsOK
  <2> QED BY <2>1 DEF Places
<1>4. at' \in Places /\ at'.step \in {"write", "sync"}
  <2>1. CASE at' = [step |-> "write", holds |-> Encoded(levels)]
    BY <1>3, <2>1
  <2>2. CASE at' = [step |-> "sync"]
    BY <1>3, <2>2
  <2> QED BY <1>1, <2>1, <2>2
<1>5. TabsOK' /\ FieldOK' /\ ChordOK'
  BY <1>2, <1>4, TabsKept, FieldKept, ChordKept DEF registry, keyboard, finder, history, IInv, TabsOK
<1>6. FindType' /\ SweepOK' /\ CountOK'
  BY <1>2, FinderKept DEF registry, keyboard, history
<1>7. LevelsOK'
  <2>1. CASE at' = [step |-> "write", holds |-> Encoded(levels)] /\ dirty' = FALSE
    <3>1. Writing(at') /\ at'.holds = Encoded(levels)
      BY <2>1 DEF Writing
    <3> QED BY <1>2, <2>1, <3>1, WritingBegins
  <2>2. CASE at' = [step |-> "sync"] /\ dirty' = dirty
    <3>1. ~Writing(at')
      BY <2>2 DEF Writing
    <3> QED BY <1>2, <2>2, <3>1, LevelsKept
  <2> QED BY <1>1, <2>1, <2>2
<1> QED BY <1>5, <1>6, <1>7 DEF IInv

LEMMA ShutdownStep == ASSUME IInv, Shutdown PROVE IInv'
<1> USE DEF Shutdown
<1>1. \/ at' = [step |-> "last write", holds |-> Encoded(levels)] /\ dirty' = FALSE
      \/ at' = [step |-> "over"] /\ dirty' = dirty
  OBVIOUS
<1>2. UNCHANGED <<registry, keyboard, events, finder, levels, file, zooming, failed, work, acts, history>> /\ ~Writing(at)
  BY DEF zoomer, Writing, Pumps
<1> HIDE DEF Shutdown
<1>3. [step |-> "last write", holds |-> Encoded(levels)] \in Places /\ [step |-> "over"] \in Places
  <2>1. Encoded(levels) \in [Sites -> Nat]
    BY FileOfLevels DEF IInv, LevelsOK
  <2> QED BY <2>1 DEF Places
<1>4. at' \in Places /\ at'.step \in {"last write", "over"}
  <2>1. CASE at' = [step |-> "last write", holds |-> Encoded(levels)]
    BY <1>3, <2>1
  <2>2. CASE at' = [step |-> "over"]
    BY <1>3, <2>2
  <2> QED BY <1>1, <2>1, <2>2
<1>5. TabsOK' /\ FieldOK' /\ ChordOK'
  BY <1>2, <1>4, TabsKept, FieldKept, ChordKept DEF registry, keyboard, finder, history, IInv, TabsOK
<1>6. FindType' /\ SweepOK' /\ CountOK'
  BY <1>2, FinderKept DEF registry, keyboard, history
<1>7. LevelsOK'
  <2>1. CASE at' = [step |-> "last write", holds |-> Encoded(levels)] /\ dirty' = FALSE
    <3>1. Writing(at') /\ at'.holds = Encoded(levels)
      BY <2>1 DEF Writing
    <3> QED BY <1>2, <2>1, <3>1, WritingBegins
  <2>2. CASE at' = [step |-> "over"] /\ dirty' = dirty
    <3>1. ~Writing(at')
      BY <2>2 DEF Writing
    <3> QED BY <1>2, <2>2, <3>1, LevelsKept
  <2> QED BY <1>1, <2>1, <2>2
<1> QED BY <1>5, <1>6, <1>7 DEF IInv

LEMMA SaveEndsStep == ASSUME IInv, NEW ok \in BOOLEAN, SaveEnds(ok) PROVE IInv'
<1> USE DEF SaveEnds
<1>1. at' \in Places /\ at'.step \in {"sync", "over"}
  BY DEF Places
<1>2. TabsOK'
  BY <1>1, TabsKept DEF IInv, TabsOK
<1>3. FieldOK' /\ ChordOK'
  BY <1>1, FieldKept, ChordKept DEF keyboard, finder, history
<1>4. FindType' /\ SweepOK' /\ CountOK'
  BY FinderKept DEF registry, keyboard, history
<1>5. LevelsOK'
  <2>1. at.holds \in [Sites -> Nat] /\ file' \in [Sites -> Nat]
    BY PlaceParts DEF IInv, LevelsOK
  <2>2. ~failed' /\ ~dirty' => Loaded(file') = levels
    BY FileOfLevels DEF IInv, LevelsOK, StillDirty
  <2>3. Loaded(file)' = Loaded(file') /\ Encoded(levels)' = Encoded(levels')
    BY DEF Loaded, Encoded
  <2>4. UNCHANGED <<levels, zooming>> /\ dirty' \in BOOLEAN /\ failed' \in BOOLEAN
    BY DEF IInv, LevelsOK, zoomer, StillDirty
  <2> HIDE DEF SaveEnds
  <2> QED BY <1>1, <2>1, <2>2, <2>3, <2>4 DEF IInv, LevelsOK
<1> QED BY <1>2, <1>3, <1>4, <1>5 DEF IInv

-----------------------------------------------------------------------------
(* The look at the keyboard, and the ends of a frame.                      *)

LEMMA FocusMovesStep == ASSUME IInv, FocusMoves PROVE IInv'
<1> DEFINE f == at.looked
           to == IF Content(f) /\ shown \in known /\ f # shown THEN shown
                 ELSE IF f = NoWindow THEN (IF shown \in known THEN shown ELSE Host)
                 ELSE f
<1>1. /\ at.step = "focus" /\ at' = [step |-> "owner", looked |-> to] /\ focus' = IF to = f THEN focus ELSE to
      /\ bounced' = (bounced \/ Bounces)
      /\ UNCHANGED <<registry, foreground, known, shown, target, owner, pressed, events, finder, zoomer, disk, work, acts, last, muddled, missed>>
  BY DEF FocusMoves
<1>2. f \in Tabs \cup {Host, NoWindow} /\ focus \in open \cup {Host, NoWindow}
  BY <1>1, PlaceParts DEF IInv, TabsOK
<1>3. /\ to \in Tabs \cup {Host, NoWindow} /\ (to # f => to \in known \cup {Host}) /\ (f = Host => to = Host)
      /\ focus' \in open \cup {Host, NoWindow}
  BY <1>1, <1>2, Windows
<1> HIDE DEF to, f
<1>4. at' \in Places /\ at'.step = "owner" /\ at'.looked = to
  BY <1>1, <1>3 DEF Places
<1>5. TabsOK'
  BY <1>1, <1>3, <1>4 DEF IInv, TabsOK, registry
<1>6. FieldOK'
  <2>1. at'.step # "drain"
    BY <1>4
  <2>2. ASSUME focus' \in Tabs, ~bounced'
        PROVE  pressed = "none" /\ (owner = "content" => target = "none")
    BY <1>1, <2>2 DEF Bounces, IInv, FieldOK
  <2> QED BY <1>1, <2>1, <2>2 DEF FieldOK
<1>7. ChordOK'
  <2>1. last \in {"address", "find", "closed", "other"} /\ UNCHANGED <<last, events, bar, target, pressed, calls>>
    BY <1>1 DEF IInv, ChordOK, finder
  <2>2. ASSUME last # "other", Done PROVE Done'
    <3>1. last # "closed" => f = Host /\ focus = Host
      BY <1>1, <2>1, <2>2 DEF Done, f
    <3>2. last # "closed" => at'.looked = Host /\ focus' = Host
      BY <1>1, <1>3, <1>4, <3>1
    <3> QED BY <2>1, <2>2, <3>2 DEF Done
  <2> QED BY <2>1, <2>2, ChordFollows
<1>8. FindType' /\ SweepOK' /\ CountOK' /\ LevelsOK'
  BY <1>1, <1>4, FinderKept, LevelsKept DEF registry, zoomer, disk, Writing
<1> QED BY <1>5, <1>6, <1>7, <1>8 DEF IInv

LEMMA FocusSettlesStep == ASSUME IInv, FocusSettles PROVE IInv'
<1> DEFINE o == OwnerIs(at.looked)
<1>1. /\ at.step = "owner" /\ at' = [step |-> "zoom"] /\ owner' = o
      /\ target' = IF o = owner THEN target ELSE TargetAfter(o)
      /\ UNCHANGED <<registry, foreground, focus, known, shown, pressed, events, finder, zoomer, disk, work, acts, history>>
  BY DEF FocusSettles
<1>2. /\ o \in {"chrome", "content"} /\ target' \in {target, "none"} /\ (o = "content" => o = owner \/ target' = "none")
      /\ (o = "content" /\ o = owner => target' = target) /\ (o = "chrome" => target' = target)
  BY <1>1 DEF OwnerIs, TargetAfter
<1>3. at.looked = Host => o = "chrome"
  BY Windows DEF OwnerIs
<1> HIDE DEF o
<1>4. at' \in Places /\ at'.step = "zoom"
  BY <1>1 DEF Places
<1>5. TabsOK'
  BY <1>1, <1>2, <1>4 DEF IInv, TabsOK, registry
<1>6. FieldOK'
  BY <1>1, <1>2, <1>4 DEF IInv, FieldOK, history
<1>7. ChordOK'
  <2>1. UNCHANGED <<last, events, bar, focus, pressed, calls>>
    BY <1>1 DEF finder, history
  <2>2. ASSUME last # "other", Done PROVE Done'
    <3>1. last # "closed" => target' = target
      BY <1>1, <1>2, <1>3, <2>2 DEF Done
    <3> QED BY <1>4, <2>1, <2>2, <3>1 DEF Done
  <2> QED BY <2>1, <2>2, ChordFollows
<1>8. FindType' /\ SweepOK' /\ CountOK' /\ LevelsOK'
  BY <1>1, <1>4, FinderKept, LevelsKept DEF registry, zoomer, disk, history, Writing
<1> QED BY <1>5, <1>6, <1>7, <1>8 DEF IInv

LEMMA SyncsTargetStep == ASSUME IInv, SyncsTarget PROVE IInv'
<1>1. /\ at.step = "sync" /\ at' = [step |-> "drain"] /\ pressed' = "none"
      /\ target' \in Fields \cup {"none"} /\ (pressed = "none" => target' = target)
      /\ UNCHANGED <<registry, foreground, focus, known, shown, owner, events, finder, zoomer, disk, work, acts, history>>
  BY DEF SyncsTarget, IInv, TabsOK
<1>2. at' \in Places /\ at'.step = "drain"
  BY <1>1 DEF Places
<1>3. TabsOK'
  BY <1>1, <1>2 DEF IInv, TabsOK, registry
<1>4. FieldOK'
  BY <1>1 DEF IInv, FieldOK, history
<1>5. ChordOK'
  <2>1. UNCHANGED <<last, events, bar, focus, calls>>
    BY <1>1 DEF finder, history
  <2>2. ASSUME Done PROVE Done'
    BY <1>1, <1>2, <2>1, <2>2 DEF Done
  <2> QED BY <2>1, <2>2, ChordFollows
<1>6. FindType' /\ SweepOK' /\ CountOK' /\ LevelsOK'
  BY <1>1, <1>2, FinderKept, LevelsKept DEF registry, zoomer, disk, history, Writing
<1> QED BY <1>3, <1>4, <1>5, <1>6 DEF IInv

LEMMA FrameEndsStep == ASSUME IInv, FrameEnds PROVE IInv'
<1> USE DEF FrameEnds
<1>1. at' \in Places /\ at'.step = "pump"
  BY DEF Places, Pumping
<1>2. TabsOK' /\ FieldOK' /\ ChordOK'
  BY <1>1, TabsKept, FieldKept, ChordKept DEF registry, keyboard, finder, history, IInv, TabsOK
<1>3. FindType' /\ SweepOK' /\ CountOK' /\ LevelsOK'
  BY <1>1, FinderKept, LevelsKept DEF registry, keyboard, zoomer, disk, history, Writing
<1> QED BY <1>2, <1>3 DEF IInv

LEMMA FrameBeginsStep == ASSUME IInv, FrameBegins PROVE IInv'
<1> DEFINE sweep == [kind |-> "sweep"]
<1>1. /\ at.step = "pump" /\ shown' = selected
      /\ muddled' = (muddled \/ (Searching /\ shown # selected))
      /\ work' = IF Missing # {} /\ \A i \in 1..Len(work) : work[i].kind # "sweep" THEN Append(work, sweep) ELSE work
      /\ at' = IF foreground THEN [step |-> "focus", looked |-> focus] ELSE [step |-> "zoom"]
      /\ UNCHANGED <<registry, foreground, focus, known, target, owner, pressed, events, finder, zoomer, disk, acts, last, bounced, missed>>
  BY DEF FrameBegins, Pumps
<1>2. at' \in Places /\ at'.step \in {"focus", "zoom"} /\ (at'.step = "focus" => at'.looked = focus)
  <2>1. [step |-> "focus", looked |-> focus] \in Places /\ [step |-> "zoom"] \in Places
    BY Windows DEF Places, IInv, TabsOK
  <2>2. CASE at' = [step |-> "focus", looked |-> focus]
    BY <2>1, <2>2
  <2>3. CASE at' = [step |-> "zoom"]
    BY <2>1, <2>3
  <2> QED BY <1>1, <2>2, <2>3
<1>3. TabsOK'
  <2>1. selected \in Tabs \cup {NoTab} /\ (selected # NoTab => url[selected] # NoTab)
    BY Windows DEF IInv, TabsOK
  <2> QED BY <1>1, <1>2, <2>1 DEF IInv, TabsOK, registry
<1>4. FieldOK' /\ ChordOK' /\ LevelsOK'
  BY <1>1, <1>2, FieldKept, ChordKept, LevelsKept DEF finder, zoomer, disk, Writing
<1>5. CASE Missing # {} /\ \A i \in 1..Len(work) : work[i].kind # "sweep"
  <2> DEFINE more == <<sweep>>
  <2>1. work \in Seq(Requests) /\ sweep \in Requests /\ sweep.kind = "sweep"
    BY DEF IInv, FindType, Requests
  <2> HIDE DEF sweep
  <2>2. work' = Append(work, sweep)
    BY <1>1, <1>5
  <2>3. work' = work \o more /\ more \in Seq(Requests) /\ \A i \in 1..Len(more) : more[i] = sweep
    BY <2>1, <2>2, AppendIsConcat
  <2>4. \E j \in 1..Len(work') : work'[j].kind = "sweep"
    BY <2>1, <2>2, Added
  <2>5. (muddled => muddled') /\ (UNCHANGED shown \/ (Searching => muddled'))
    BY <1>1
  <2> HIDE DEF more
  <2>6. SweepOK' /\ CountOK' /\ work' \in Seq(Requests)
    BY <1>1, <2>1, <2>3, <2>4, <2>5, SearchesKept DEF registry, finder
  <2> QED BY <1>1, <1>3, <1>4, <2>6, FindKept DEF registry, finder, IInv
<1>6. CASE ~(Missing # {} /\ \A i \in 1..Len(work) : work[i].kind # "sweep")
  <2>1. work' = work /\ work \in Seq(Requests)
    BY <1>1, <1>6 DEF IInv, FindType
  <2>2. work' = work \o <<>> /\ <<>> \in Seq(Requests) /\ \A i \in 1..Len(<<>>) : FALSE
    BY <2>1, ConcatEmptySeq
  <2>3. open \subseteq known \/ \E j \in 1..Len(work') : work'[j].kind = "sweep"
    BY <1>6, <2>1 DEF Missing
  <2>4. (muddled => muddled') /\ (UNCHANGED shown \/ (Searching => muddled'))
    BY <1>1
  <2> DEFINE more == <<>>
  <2>5. work' = work \o more /\ more \in Seq(Requests) /\ \A i \in 1..Len(more) : more[i].kind \notin {"find", "hide"}
    BY <2>2
  <2> HIDE DEF more
  <2>6. SweepOK' /\ CountOK' /\ work' \in Seq(Requests)
    BY <1>1, <2>3, <2>4, <2>5, SearchesKept DEF registry, finder
  <2> QED BY <1>1, <1>3, <1>4, <2>6, FindKept DEF registry, finder, IInv
<1> QED BY <1>5, <1>6

-----------------------------------------------------------------------------
(* The tabs.                                                               *)

LEMMA TabOpensStep == ASSUME IInv, NEW t \in Tabs, TabOpens(t) PROVE IInv'
<1> USE DEF TabOpens
<1>1. acts' \in [Kinds -> Nat]
  BY ActTyped DEF Kinds
<1>2. /\ url[t] = NoTab /\ StartURL \in URLs /\ StartURL # NoTab /\ t \notin open /\ t # shown
      /\ open' = open \cup {t} /\ known' = known \cup {t} /\ selected' = t /\ url' = [url EXCEPT ![t] = StartURL]
  BY InputAssumption DEF Recorded, IInv, TabsOK
<1>3. TabsOK'
  <2>1. TabsOK
    BY DEF IInv
  <2>2. url' \in [Tabs -> URLs \cup {NoTab}] /\ \A x \in Tabs : url[x] # NoTab \/ x = t => url'[x] # NoTab
    BY <1>2, <2>1 DEF TabsOK
  <2>3. UNCHANGED <<shown, focus, target, owner, pressed, events, at>>
    OBVIOUS
  <2>4. shown # NoTab => url'[shown] # NoTab
    BY <2>1, <2>2 DEF TabsOK
  <2>5. \A x \in open' : url'[x] # NoTab
    BY <1>2, <2>1, <2>2 DEF TabsOK
  <2>6. at.step \in {"scan", "post"} => \A x \in at.left : url'[x] # NoTab
    BY <2>2, PlaceParts
  <2> HIDE DEF TabOpens
  <2> QED BY <1>1, <1>2, <2>1, <2>2, <2>3, <2>4, <2>5, <2>6 DEF TabsOK
<1>4. FieldOK' /\ ChordOK' /\ LevelsOK'
  BY FieldKept, ChordForgotten, LevelsKept DEF disk
<1>5. FindType'
  BY <1>2 DEF IInv, FindType, finder
<1>6. SweepOK'
  BY <1>2 DEF IInv, SweepOK, Finds, finder
<1>7. CountOK'
  <2>1. shown \in open' <=> shown \in open
    BY <1>2
  <2>2. UNCHANGED <<bar, calls, finding, marked, work, shown, muddled>>
    BY DEF finder
  <2> HIDE DEF TabOpens
  <2>3. (OneSearch <=> OneSearch') /\ (HidesBefore <=> HidesBefore')
    BY <2>2 DEF OneSearch, HidesBefore, IsFind, IsHide, IsTheOne, Finds
  <2>4. (Agrees <=> Agrees') /\ (Hidden <=> Hidden') /\ (Unanswered <=> Unanswered') /\ (Searching <=> Searching')
    BY <2>2 DEF Agrees, Hidden, Hides, Unanswered, Finds, Searching
  <2>5. (Walks <=> Walks') /\ (Begins <=> Begins') /\ (Empty <=> Empty')
    BY <2>2, <2>4 DEF Walks, Begins, Empty
  <2>6. SearchOK <=> SearchOK'
    BY <2>1, <2>2, <2>3, <2>4, <2>5 DEF SearchOK
  <2>7. ~muddled' /\ Quiet => SearchOK'
    BY <2>2, <2>6 DEF IInv, CountOK
  <2> QED BY <2>1, <2>2, <2>4, <2>5, <2>7, CallsKept
<1> QED BY <1>3, <1>4, <1>5, <1>6, <1>7 DEF IInv

LEMMA TabSelectedStep == ASSUME IInv, NEW t \in Tabs, TabSelected(t) PROVE IInv'
<1> USE DEF TabSelected
<1>1. acts' \in [Kinds -> Nat]
  BY ActTyped DEF Kinds
<1>2. TabsOK'
  BY <1>1 DEF IInv, TabsOK, keyboard
<1>3. FieldOK' /\ ChordOK' /\ LevelsOK'
  BY FieldKept, ChordKept, LevelsKept DEF keyboard, finder, history, disk
<1>4. FindType' /\ SweepOK' /\ CountOK'
  BY FinderKept DEF keyboard, history
<1> QED BY <1>2, <1>3, <1>4 DEF IInv

\* A page forgets what has been found in it, and with its tab what it has been asked.
LEMMA TabClosesStep == ASSUME IInv, NEW t \in Tabs, TabCloses(t) PROVE IInv'
<1>1. /\ acts' \in [Kinds -> Nat] /\ t \in open
      /\ open' = open \ {t} /\ known' = known \ {t}
      /\ selected' = (IF selected # t THEN selected ELSE IF open = {t} THEN NoTab ELSE CHOOSE o \in open \ {t} : TRUE)
      /\ focus' = (IF focus = t THEN NoWindow ELSE focus)
      /\ marked' = [marked EXCEPT ![t] = NoFind] /\ finding' = [finding EXCEPT ![t] = <<>>]
      /\ UNCHANGED <<url, foreground, shown, target, owner, pressed, events, bar, calls, field, levels, factor, applied, zooming, disk, work, at, history>>
  BY ActTyped DEF Kinds, TabCloses
<1>2. TabsOK'
  <2>1. selected' \in open' \cup {NoTab}
    <3>1. CASE selected # t
      BY <1>1, <3>1 DEF IInv, TabsOK
    <3>2. CASE selected = t /\ open \ {t} # {}
      <4>1. open # {t}
        BY <3>2
      <4>2. (CHOOSE o \in open \ {t} : TRUE) \in open \ {t}
        BY <3>2
      <4> QED BY <1>1, <3>2, <4>1, <4>2
    <3>3. CASE selected = t /\ open \ {t} = {}
      BY <1>1, <3>3
    <3> QED BY <3>1, <3>2, <3>3
  <2>2. focus' \in open' \cup {Host, NoWindow}
    BY <1>1 DEF IInv, TabsOK
  <2> QED BY <1>1, <2>1, <2>2 DEF IInv, TabsOK
<1>3. FieldOK'
  BY <1>1, Windows DEF IInv, FieldOK, history
<1>4. ChordOK'
  <2>1. UNCHANGED <<last, events, bar, target, pressed, at, calls>> /\ (focus = Host => focus' = Host)
    BY <1>1, Windows DEF history
  <2>2. ASSUME Done PROVE Done'
    BY <2>1, <2>2 DEF Done
  <2> QED BY <2>1, <2>2, ChordFollows
<1>5. LevelsOK'
  BY <1>1, LevelsKept DEF disk
<1>6. /\ finding \in [Tabs -> Seq(Searches)] /\ finding' \in [Tabs -> Seq(Searches)] /\ finding'[t] = <<>>
      /\ \A x \in Tabs : x # t => finding'[x] = finding[x] /\ marked'[x] = marked[x]
      /\ marked' \in [Tabs -> [text : Queries, place : Nat]] /\ marked'[t] = NoFind
  <2>1. NoFind \in [text : Queries, place : Nat]
    BY DEF NoFind, Queries
  <2>2. finding \in [Tabs -> Seq(Searches)] /\ marked \in [Tabs -> [text : Queries, place : Nat]]
    BY DEF IInv, FindType
  <2> QED BY <1>1, <2>1, <2>2
<1>7. FindType'
  <2>1. \A x \in Tabs : /\ \A i \in 1..Len(finding'[x]) : finding'[x][i].tab = x
                        /\ x \notin open' => finding'[x] = <<>>
    BY <1>1, <1>6 DEF IInv, FindType
  <2>2. \A x \in Tabs : IF marked'[x].text = NoText \/ MatchesOf[marked'[x].text] = 0 THEN marked'[x].place = 0
                        ELSE marked'[x].place \in 1..MatchesOf[marked'[x].text]
    <3> TAKE x \in Tabs
    <3>1. CASE x = t
      BY <1>6, <3>1 DEF NoFind
    <3>2. CASE x # t
      BY <1>6, <3>2 DEF IInv, FindType
    <3> QED BY <3>1, <3>2
  <2> QED BY <1>1, <1>6, <2>1, <2>2 DEF IInv, FindType
<1>8. SweepOK'
  <2>1. ~Finds(finding'[t])
    BY <1>6 DEF Finds
  <2>2. \A x \in Tabs : Finds(finding'[x]) => Finds(finding[x])
    BY <1>6, <2>1
  <2> QED BY <1>1, <1>6, <2>2 DEF IInv, SweepOK, Finds
<1>9. CountOK'
  <2>1. \A i : ~IsFind(finding'[t], i) /\ ~(i \in 1..Len(finding'[t]))
    BY <1>6 DEF IsFind
  <2>2. ~Finds(finding'[t])
    BY <1>6 DEF Finds
  <2>3. Unanswered' => Unanswered
    BY <1>1, <1>6, <2>2 DEF Unanswered, Finds
  <2>4. (Searching <=> Searching') /\ (muddled' = muddled)
    BY <1>1 DEF Searching, history
  <2>5. ASSUME OneSearch PROVE OneSearch'
    <3>1. \A x \in Tabs : \A i \in Nat : IsFind(finding'[x], i) => IsFind(finding[x], i) /\ finding'[x][i] = finding[x][i]
      BY <1>6, <2>1
    <3>2. \A x \in Tabs : Finds(finding'[x]) => Finds(finding[x])
      BY <1>6, <2>2
    <3> QED BY <1>1, <2>5, <3>1, <3>2 DEF OneSearch, IsFind, IsTheOne, Finds
  <2>6. ASSUME HidesBefore PROVE HidesBefore'
    <3>1. CASE shown = t
      BY <1>1, <1>6, <2>1, <2>6, <3>1 DEF HidesBefore, IsFind, IsHide
    <3>2. CASE shown # t
      <4>1. work' = work /\ shown' = shown /\ (shown \in Tabs => finding'[shown] = finding[shown])
        BY <1>1, <1>6, <3>2
      <4> QED BY <2>6, <4>1 DEF HidesBefore, IsFind, IsHide, Finds
    <3> QED BY <3>1, <3>2
  <2>7. ASSUME Searching, OneSearch, shown \in open', Unanswered PROVE Unanswered'
    <3>1. CASE Finds(work)
      BY <1>1, <3>1 DEF Unanswered, Finds
    <3>2. CASE \E x \in Tabs : Finds(finding[x])
      <4>1. PICK x \in Tabs : \E n \in 1..Len(finding[x]) : finding[x][n].kind = "find"
        BY <3>2 DEF Finds
      <4>6. PICK i \in 1..Len(finding[x]) : finding[x][i].kind = "find"
        BY <4>1
      <4>2. finding[x] \in Seq(Searches) /\ finding[x][i].tab = x
        BY <1>6 DEF IInv, FindType
      <4>3. i \in Nat /\ IsFind(finding[x], i)
        BY <4>2, <4>6, LenProperties DEF IsFind
      <4>4. x = shown
        BY <2>7, <4>2, <4>3 DEF OneSearch, IsTheOne
      <4>5. finding'[x] = finding[x]
        BY <1>1, <1>6, <2>7, <4>4
      <4> QED BY <4>1, <4>5 DEF Unanswered, Finds
    <3> QED BY <2>7, <3>1, <3>2 DEF Unanswered
  <2>8. shown \in open' => shown \in open /\ shown \in Tabs /\ shown # t
    BY <1>1, Windows
  <2>9. shown \in open' => (Agrees <=> Agrees') /\ (Hidden <=> Hidden') /\ marked'[shown] = marked[shown]
    BY <1>1, <1>6, <2>8 DEF Agrees, Hidden, Hides
  <2>10. (Empty <=> Empty') /\ (shown \in open' => (Walks <=> Walks') /\ (Begins <=> Begins'))
    BY <1>1, <2>9 DEF Empty, Walks, Begins
  <2>11. ASSUME SearchOK PROVE SearchOK'
    <3>1. CASE ~Searching
      BY <2>3, <2>4, <2>10, <2>11, <3>1 DEF SearchOK
    <3>2. CASE Searching
      <4>1. OneSearch /\ OneSearch' /\ HidesBefore'
        BY <2>5, <2>6, <2>11, <3>2 DEF SearchOK
      <4>2. bar' = bar /\ shown' = shown
        BY <1>1
      <4>3. CASE shown \notin open'
        BY <2>4, <3>2, <4>1, <4>2, <4>3 DEF SearchOK
      <4>4. CASE shown \in open'
        <5>1. Unanswered <=> Unanswered'
          BY <2>3, <2>7, <3>2, <4>1, <4>4
        <5> QED BY <2>4, <2>8, <2>9, <2>10, <2>11, <3>2, <4>1, <4>2, <4>4, <5>1 DEF SearchOK
      <4> QED BY <4>3, <4>4
    <3> QED BY <3>1, <3>2
  <2>12. ~muddled' /\ Quiet => SearchOK'
    BY <2>4, <2>11 DEF IInv, CountOK
  <2> QED BY <1>1, <2>3, <2>4, <2>8, <2>10, <2>12, CallsKept
<1> QED BY <1>2, <1>3, <1>4, <1>5, <1>7, <1>8, <1>9 DEF IInv

LEMMA TabCommitsStep == ASSUME IInv, NEW t \in Tabs, NEW u \in URLs, TabCommits(t, u) PROVE IInv'
<1>1. /\ acts' \in [Kinds -> Nat] /\ t \in open /\ url' = [url EXCEPT ![t] = u]
      /\ marked' = [marked EXCEPT ![t] = NoFind] /\ muddled' = (muddled \/ (Searching /\ t = shown))
      /\ UNCHANGED <<open, selected, foreground, keyboard, events, bar, calls, field, finding, levels, applied, zooming, disk, work, at, last, bounced>>
  BY ActTyped DEF Kinds, TabCommits
<1>2. TabsOK'
  <2>1. u # NoTab
    BY InputAssumption
  <2>2. url' \in [Tabs -> URLs \cup {NoTab}] /\ \A x \in Tabs : url[x] # NoTab => url'[x] # NoTab
    BY <1>1, <2>1 DEF IInv, TabsOK
  <2>3. UNCHANGED <<known, shown, focus, target, owner, pressed>>
    BY <1>1 DEF keyboard
  <2>4. at.step \in {"scan", "post"} => \A x \in at.left : url'[x] # NoTab
    BY <2>2, PlaceParts
  <2>5. (shown # NoTab => url'[shown] # NoTab) /\ \A x \in open : url'[x] # NoTab
    BY <2>2 DEF IInv, TabsOK
  <2> QED BY <1>1, <2>2, <2>3, <2>4, <2>5 DEF IInv, TabsOK
<1>3. FieldOK' /\ ChordOK' /\ LevelsOK' /\ SweepOK'
  BY <1>1, FieldKept, ChordKept, LevelsKept, SweepKept DEF keyboard, disk
<1>4. /\ marked' \in [Tabs -> [text : Queries, place : Nat]] /\ marked'[t] = NoFind
      /\ \A x \in Tabs : x # t => marked'[x] = marked[x]
  <2>1. NoFind \in [text : Queries, place : Nat]
    BY DEF NoFind, Queries
  <2> QED BY <1>1, <2>1 DEF IInv, FindType
<1>5. FindType'
  <2>1. \A x \in Tabs : IF marked'[x].text = NoText \/ MatchesOf[marked'[x].text] = 0 THEN marked'[x].place = 0
                        ELSE marked'[x].place \in 1..MatchesOf[marked'[x].text]
    <3> TAKE x \in Tabs
    <3>1. CASE x = t
      BY <1>4, <3>1 DEF NoFind
    <3>2. CASE x # t
      BY <1>4, <3>2 DEF IInv, FindType
    <3> QED BY <3>1, <3>2
  <2> QED BY <1>1, <1>4, <2>1 DEF IInv, FindType
<1>6. CountOK'
  <2>1. UNCHANGED <<bar, finding, work, shown, open>>
    BY <1>1 DEF keyboard
  <2>2. (OneSearch <=> OneSearch') /\ (HidesBefore <=> HidesBefore')
    BY <2>1 DEF OneSearch, HidesBefore, IsFind, IsHide, IsTheOne, Finds
  <2>3. (Hidden <=> Hidden') /\ (Unanswered <=> Unanswered') /\ (Searching <=> Searching')
    BY <2>1 DEF Hidden, Hides, Unanswered, Finds, Searching
  <2>4. Empty <=> Empty'
    BY <2>1 DEF Empty
  <2>5. CASE ~Searching
    <3>1. SearchOK => SearchOK'
      BY <2>3, <2>4, <2>5 DEF SearchOK
    <3>2. ~muddled' /\ Quiet => SearchOK'
      BY <1>1, <3>1 DEF IInv, CountOK
    <3> QED BY <1>1, <2>1, <2>3, <2>5, <3>2, AskedIsText, CallsKept
  <2>6. CASE Searching /\ t = shown
    BY <1>1, <2>6 DEF CountOK
  <2>7. CASE Searching /\ t # shown
    <3>1. shown \in open => marked'[shown] = marked[shown]
      BY <1>4, <2>7, Windows
    <3>2. shown \in open => (Agrees <=> Agrees')
      BY <2>1, <3>1 DEF Agrees
    <3>3. shown \in open => (Walks <=> Walks') /\ (Begins <=> Begins')
      BY <2>1, <2>3, <3>1, <3>2 DEF Walks, Begins
    <3>4. SearchOK => SearchOK'
      BY <2>1, <2>2, <2>3, <2>7, <3>2, <3>3 DEF SearchOK
    <3>5. ~muddled' /\ Quiet => SearchOK'
      BY <1>1, <3>4 DEF IInv, CountOK
    <3> QED BY <1>1, <2>1, <2>3, <3>3, <3>5, CallsKept
  <2> QED BY <2>5, <2>6, <2>7
<1> QED BY <1>2, <1>3, <1>5, <1>6 DEF IInv

-----------------------------------------------------------------------------
(* The two queues of the searches.                                         *)

LEMMA Positions ==
  ASSUME NEW S, NEW list \in Seq(S)
  PROVE  /\ Finds(list) <=> \E i \in Nat : IsFind(list, i)
         /\ Hides(list, shown) <=> \E i \in Nat : IsHide(list, i)
         /\ \A i : IsFind(list, i) \/ IsHide(list, i) => i \in 1..Len(list) /\ i \in Nat /\ i >= 1
<1>1. \A i \in 1..Len(list) : i \in Nat /\ i >= 1
  BY LenProperties
<1> QED BY <1>1 DEF Finds, Hides, IsFind, IsHide

LEMMA AddedPositions ==
  ASSUME NEW S, NEW list \in Seq(S), NEW x \in S
  PROVE  /\ \A i \in Nat : /\ IsFind(Append(list, x), i) <=> IsFind(list, i) \/ (i = Len(list) + 1 /\ x.kind = "find")
                           /\ IsHide(Append(list, x), i) <=> IsHide(list, i) \/ (i = Len(list) + 1 /\ x.kind = "hide" /\ x.tab = shown)
                           /\ IsFind(list, i) => Append(list, x)[i] = list[i]
         /\ Append(list, x)[Len(list) + 1] = x /\ Len(list) + 1 \in Nat
         /\ \A i \in Nat : IsFind(list, i) \/ IsHide(list, i) => i < Len(list) + 1
<1>1. /\ Len(list) \in Nat /\ Len(Append(list, x)) = Len(list) + 1 /\ Append(list, x)[Len(list) + 1] = x
      /\ \A n \in 1..Len(list) : Append(list, x)[n] = list[n]
  BY Added
<1>2. \A i \in Nat : /\ i \in 1..(Len(list) + 1) <=> i \in 1..Len(list) \/ i = Len(list) + 1
                     /\ i \in 1..Len(list) => i < Len(list) + 1 /\ i # Len(list) + 1
  BY <1>1
<1> QED BY <1>1, <1>2 DEF IsFind, IsHide

LEMMA TakenPositions ==
  ASSUME NEW S, NEW list \in Seq(S), list # <<>>
  PROVE  /\ \A i \in Nat : /\ IsFind(Tail(list), i) <=> i >= 1 /\ IsFind(list, i + 1)
                           /\ IsHide(Tail(list), i) <=> i >= 1 /\ IsHide(list, i + 1)
                           /\ IsFind(Tail(list), i) => Tail(list)[i] = list[i + 1]
         /\ IsFind(list, 1) <=> Head(list).kind = "find"
         /\ IsHide(list, 1) <=> Head(list).kind = "hide" /\ Head(list).tab = shown
<1>1. /\ Head(list) = list[1] /\ 1 \in 1..Len(list) /\ Len(list) \in Nat /\ Len(Tail(list)) = Len(list) - 1
      /\ \A n \in 1..Len(Tail(list)) : Tail(list)[n] = list[n + 1]
  BY Taken
<1>2. \A i \in Nat : i \in 1..Len(Tail(list)) <=> i >= 1 /\ i + 1 \in 1..Len(list)
  BY <1>1
<1> QED BY <1>1, <1>2 DEF IsFind, IsHide

\* The WebKit thread hands a search, and what hides one, on to the page.
LEMMA RequestHandedOn ==
  ASSUME IInv, work # <<>>, work' = Tail(work), UNCHANGED <<bar, calls, shown, marked, open, muddled>>,
         finding' \in [Tabs -> Seq(Searches)],
         \A x \in Tabs : finding'[x] = IF Head(work).kind \in {"find", "hide"} /\ Head(work).tab = x /\ x \in open
                                       THEN Append(finding[x], Head(work)) ELSE finding[x],
         Head(work).kind \in {"find", "hide"} => Head(work) \in Searches
  PROVE  CountOK'
<1> DEFINE r == Head(work)
           moved(x) == r.kind \in {"find", "hide"} /\ r.tab = x /\ x \in open
<1>1. work \in Seq(Requests) /\ work' \in Seq(Requests) /\ finding \in [Tabs -> Seq(Searches)]
  BY Taken DEF IInv, FindType
<1>2. /\ \A i \in Nat : /\ IsFind(work', i) <=> i >= 1 /\ IsFind(work, i + 1)
                        /\ IsHide(work', i) <=> i >= 1 /\ IsHide(work, i + 1)
                        /\ IsFind(work', i) => work'[i] = work[i + 1]
      /\ IsFind(work, 1) <=> r.kind = "find"
      /\ IsHide(work, 1) <=> r.kind = "hide" /\ r.tab = shown
      /\ r = work[1]
  <2>1. r = work[1]
    BY <1>1, Taken
  <2> QED BY <1>1, <2>1, TakenPositions
<1> DEFINE end(x) == Len(finding[x]) + 1
<1>3. \A x \in Tabs : moved(x) =>
        /\ \A i \in Nat : /\ IsFind(finding'[x], i) <=> IsFind(finding[x], i) \/ (i = end(x) /\ r.kind = "find")
                          /\ IsHide(finding'[x], i) <=> IsHide(finding[x], i) \/ (i = end(x) /\ r.kind = "hide" /\ x = shown)
                          /\ IsFind(finding[x], i) => finding'[x][i] = finding[x][i]
        /\ finding'[x][end(x)] = r /\ end(x) \in Nat
        /\ \A i \in Nat : IsFind(finding[x], i) \/ IsHide(finding[x], i) => i < end(x)
  <2> SUFFICES ASSUME NEW x \in Tabs, moved(x)
               PROVE  /\ \A i \in Nat : /\ IsFind(finding'[x], i) <=> IsFind(finding[x], i) \/ (i = end(x) /\ r.kind = "find")
                                        /\ IsHide(finding'[x], i) <=> IsHide(finding[x], i) \/ (i = end(x) /\ r.kind = "hide" /\ x = shown)
                                        /\ IsFind(finding[x], i) => finding'[x][i] = finding[x][i]
                      /\ finding'[x][end(x)] = r /\ end(x) \in Nat
                      /\ \A i \in Nat : IsFind(finding[x], i) \/ IsHide(finding[x], i) => i < end(x)
    OBVIOUS
  <2>1. finding'[x] = Append(finding[x], r) /\ r \in Searches /\ finding[x] \in Seq(Searches) /\ r.tab = x
    BY <1>1
  <2> HIDE DEF r, moved
  <2> DEFINE list == finding[x]
  <2>2. /\ \A i \in Nat : /\ IsFind(Append(list, r), i) <=> IsFind(list, i) \/ (i = Len(list) + 1 /\ r.kind = "find")
                          /\ IsHide(Append(list, r), i) <=> IsHide(list, i) \/ (i = Len(list) + 1 /\ r.kind = "hide" /\ r.tab = shown)
                          /\ IsFind(list, i) => Append(list, r)[i] = list[i]
        /\ Append(list, r)[Len(list) + 1] = r /\ Len(list) + 1 \in Nat
        /\ \A i \in Nat : IsFind(list, i) \/ IsHide(list, i) => i < Len(list) + 1
    <3> HIDE DEF list
    <3>1. list \in Seq(Searches) /\ r \in Searches
      BY <2>1 DEF list
    <3> QED BY <3>1, AddedPositions
  <2> QED BY <2>1, <2>2
<1>4. \A x \in Tabs : ~moved(x) => finding'[x] = finding[x]
  OBVIOUS
<1>5. \A x \in Tabs : finding[x] \in Seq(Searches) /\ finding'[x] \in Seq(Searches)
  BY <1>1
<1>6. /\ Finds(work) <=> \E i \in Nat : IsFind(work, i)
      /\ Finds(work') <=> \E i \in Nat : IsFind(work', i)
      /\ \A x \in Tabs : /\ Finds(finding[x]) <=> \E i \in Nat : IsFind(finding[x], i)
                         /\ Finds(finding'[x]) <=> \E i \in Nat : IsFind(finding'[x], i)
  BY <1>1, <1>5, Positions
<1>7. \A i \in Nat : (IsFind(work, i) \/ IsHide(work, i)) => i = 1 \/ (i - 1 \in Nat /\ i - 1 >= 1 /\ (i - 1) + 1 = i)
  BY <1>1, Positions
<1>8. \A x \in Tabs : x \notin open => finding[x] = <<>>
  BY DEF IInv, FindType
<1>9. \A x \in Tabs, i \in Nat : finding[x] = <<>> => ~IsHide(finding[x], i) /\ ~IsFind(finding[x], i)
  BY DEF IsHide, IsFind
<1> HIDE DEF end
<1>10. /\ (Searching <=> Searching') /\ bar' = bar /\ shown' = shown /\ marked' = marked /\ open' = open /\ muddled' = muddled
       /\ IsFind(work, 1) => r.tab \in Tabs
  BY <1>2 DEF Searching, IsTheOne, Searches
<1> HIDE DEF moved
<1>11. \A i \in Nat : IsFind(work', i) => i + 1 \in Nat /\ IsFind(work, i + 1) /\ work'[i] = work[i + 1] /\ i + 1 # 1
  <2> TAKE i \in Nat
  <2>1. i >= 1 => i + 1 \in Nat /\ i + 1 # 1
    OBVIOUS
  <2> QED BY <1>2, <2>1
<1>12. ASSUME NEW x \in Tabs, NEW i \in Nat, IsFind(finding'[x], i)
      PROVE  \/ IsFind(finding[x], i) /\ finding'[x][i] = finding[x][i]
             \/ moved(x) /\ IsFind(work, 1) /\ i = end(x) /\ finding'[x][i] = work[1]
  BY <1>2, <1>3, <1>4, <1>12
<1>13. Unanswered' => Unanswered
  <2>1. Finds(work') => Finds(work)
    BY <1>6, <1>11
  <2>2. \A x \in Tabs : Finds(finding'[x]) => Finds(finding[x]) \/ Finds(work)
    BY <1>6, <1>12
  <2> QED BY <2>1, <2>2 DEF Unanswered, Finds
<1>14. shown \in open => (Hidden <=> Hidden')
  <2> SUFFICES ASSUME shown \in open PROVE Hidden <=> Hidden'
    OBVIOUS
  <2>0. shown \in Tabs
    BY Windows
  <2>1. /\ Hides(work, shown) <=> \E i \in Nat : IsHide(work, i)
        /\ Hides(work', shown) <=> \E i \in Nat : IsHide(work', i)
        /\ Hides(finding[shown], shown) <=> \E i \in Nat : IsHide(finding[shown], i)
        /\ Hides(finding'[shown], shown) <=> \E i \in Nat : IsHide(finding'[shown], i)
    BY <1>1, <1>5, <2>0, Positions
  <2>2. Hides(work', shown) => Hides(work, shown)
    <3>1. \A i \in Nat : IsHide(work', i) => i + 1 \in Nat /\ IsHide(work, i + 1)
      BY <1>2
    <3> QED BY <2>1, <3>1
  <2>3. \A i \in Nat : IsHide(finding[shown], i) => IsHide(finding'[shown], i)
    BY <1>3, <1>4, <2>0
  <2>4. \A i \in Nat : IsHide(finding'[shown], i) => IsHide(finding[shown], i) \/ IsHide(work, 1)
    BY <1>2, <1>3, <1>4, <2>0 DEF moved
  <2>5. \A i \in Nat : IsHide(work, i) => Hides(work', shown) \/ Hides(finding'[shown], shown)
    <3> SUFFICES ASSUME NEW i \in Nat, IsHide(work, i) PROVE Hides(work', shown) \/ Hides(finding'[shown], shown)
      OBVIOUS
    <3>1. CASE i = 1
      <4>1. r.kind = "hide" /\ r.tab = shown
        BY <1>2, <3>1
      <4>2. moved(shown)
        BY <4>1 DEF moved
      <4>3. end(shown) \in Nat /\ IsHide(finding'[shown], end(shown))
        BY <1>3, <2>0, <4>1, <4>2
      <4> QED BY <2>1, <4>3
    <3>2. CASE i # 1
      <4>1. i - 1 \in Nat /\ i - 1 >= 1 /\ (i - 1) + 1 = i
        BY <1>7, <3>2
      <4>2. IsHide(work', i - 1)
        BY <1>2, <4>1
      <4> QED BY <2>1, <4>1, <4>2
    <3> QED BY <3>1, <3>2
  <2>6. Hidden <=> Hides(work, shown) \/ Hides(finding[shown], shown)
    BY DEF Hidden
  <2>7. Hidden' <=> Hides(work', shown) \/ Hides(finding'[shown], shown)
    BY <1>10 DEF Hidden, Hides
  <2> QED BY <2>1, <2>2, <2>3, <2>4, <2>5, <2>6, <2>7
<1>15. ASSUME ~Searching, SearchOK PROVE SearchOK'
  BY <1>10, <1>13, <1>15 DEF SearchOK, Empty
<1>16. ASSUME Searching, SearchOK PROVE SearchOK'
  <2>1. OneSearch /\ HidesBefore
    BY <1>16 DEF SearchOK
  <2>4. OneSearch'
    <3>1. \A i \in Nat : IsFind(work', i) => IsTheOne(work'[i])
      BY <1>10, <2>1, <1>11 DEF OneSearch
    <3>2. \A x \in Tabs : \A i \in Nat : IsFind(finding'[x], i) => IsTheOne(finding'[x][i])
      BY <1>10, <2>1, <1>12 DEF OneSearch
    <3>3. \A i, j \in Nat : IsFind(work', i) /\ IsFind(work', j) => i = j
      <4> SUFFICES ASSUME NEW i \in Nat, NEW j \in Nat, IsFind(work', i), IsFind(work', j) PROVE i = j
        OBVIOUS
      <4>1. i + 1 = j + 1
        BY <2>1, <1>11 DEF OneSearch
      <4> QED BY <4>1
    <3>4. \A x \in Tabs : \A i, j \in Nat : IsFind(finding'[x], i) /\ IsFind(finding'[x], j) => i = j
      <4> SUFFICES ASSUME NEW x \in Tabs, NEW i \in Nat, NEW j \in Nat, IsFind(finding'[x], i), IsFind(finding'[x], j) PROVE i = j
        OBVIOUS
      <4>1. IsFind(work, 1) => \A k \in Nat : ~IsFind(finding[x], k)
        BY <1>6, <2>1 DEF OneSearch
      <4>2. IsFind(finding[x], i) /\ IsFind(finding[x], j) => i = j
        BY <2>1 DEF OneSearch
      <4> QED BY <1>12, <4>1, <4>2
    <3>5. \A x \in Tabs : ~(Finds(work') /\ Finds(finding'[x]))
      <4> SUFFICES ASSUME NEW x \in Tabs, NEW i \in Nat, NEW j \in Nat, IsFind(work', i), IsFind(finding'[x], j) PROVE FALSE
        BY <1>6
      <4>1. IsFind(work, i + 1) /\ i + 1 # 1 /\ i + 1 \in Nat
        BY <1>11
      <4>2. ~IsFind(finding[x], j)
        BY <1>6, <2>1, <4>1 DEF OneSearch
      <4>3. ~IsFind(work, 1)
        BY <2>1, <4>1 DEF OneSearch
      <4> QED BY <1>12, <4>2, <4>3
    <3> QED BY <1>10, <3>1, <3>2, <3>3, <3>4, <3>5, SMTT(20) DEF OneSearch, IsFind, Finds, IsTheOne
  <2>5. \A j \in Nat : IsHide(work', j) => \E i \in Nat : i > j /\ IsFind(work', i)
    <3> SUFFICES ASSUME NEW j \in Nat, IsHide(work', j) PROVE \E i \in Nat : i > j /\ IsFind(work', i)
      OBVIOUS
    <3>1. j + 1 \in Nat /\ IsHide(work, j + 1)
      BY <1>2
    <3>2. PICK i \in Nat : i > j + 1 /\ IsFind(work, i)
      BY <2>1, <3>1 DEF HidesBefore
    <3>3. i - 1 \in Nat /\ i - 1 >= 1 /\ (i - 1) + 1 = i /\ i - 1 > j
      BY <3>2
    <3>4. IsFind(work', i - 1)
      BY <1>2, <3>2, <3>3
    <3> QED BY <3>3, <3>4
  <2>6. ASSUME IsFind(work, 1), shown \in open
        PROVE  moved(shown) /\ shown \in Tabs /\ IsFind(finding'[shown], end(shown)) /\ end(shown) \in Nat
    <3>1. r.tab = shown /\ r.kind = "find" /\ shown \in Tabs
      BY <1>2, <1>10, <2>1, <2>6 DEF OneSearch, IsTheOne
    <3>2. moved(shown)
      BY <2>6, <3>1 DEF moved
    <3> QED BY <1>3, <3>1, <3>2
  <2>7. \A i \in Nat : IsFind(work, i) => i = 1 \/ Finds(work')
    <3> SUFFICES ASSUME NEW i \in Nat, IsFind(work, i), i # 1 PROVE Finds(work')
      OBVIOUS
    <3>1. i - 1 \in Nat /\ i - 1 >= 1 /\ (i - 1) + 1 = i
      BY <1>7
    <3>2. IsFind(work', i - 1)
      BY <1>2, <3>1
    <3> QED BY <1>6, <3>1, <3>2
  <2>8. ASSUME shown \in Tabs, NEW j \in Nat, IsHide(finding'[shown], j)
        PROVE  Finds(work') \/ \E i \in Nat : i > j /\ IsFind(finding'[shown], i)
    <3>1. CASE IsHide(finding[shown], j)
      <4>1. shown \in open
        BY <1>8, <1>9, <2>8, <3>1
      <4>2. CASE \E i \in Nat : i > j /\ IsFind(finding[shown], i)
        BY <1>3, <1>4, <2>8, <4>2
      <4>3. CASE Finds(work)
        <5>1. PICK i \in Nat : IsFind(work, i)
          BY <1>6, <4>3
        <5>2. CASE i = 1
          <6>1. moved(shown) /\ IsFind(finding'[shown], end(shown)) /\ end(shown) \in Nat
            BY <2>6, <4>1, <5>1, <5>2
          <6>2. j < end(shown)
            BY <1>3, <2>8, <3>1, <6>1
          <6>3. end(shown) > j
            BY <6>1, <6>2
          <6> QED BY <6>1, <6>3
        <5> QED BY <2>7, <5>1, <5>2
      <4> QED BY <2>1, <2>8, <3>1, <4>2, <4>3 DEF HidesBefore
    <3>2. CASE ~IsHide(finding[shown], j)
      <4>1. moved(shown) /\ r.kind = "hide"
        BY <1>3, <1>4, <2>8, <3>2
      <4>2. IsHide(work, 1)
        BY <1>2, <4>1 DEF moved
      <4>3. PICK i \in Nat : i > 1 /\ IsFind(work, i)
        BY <2>1, <4>2 DEF HidesBefore
      <4> QED BY <2>7, <4>3
    <3> QED BY <3>1, <3>2
  <2>9. HidesBefore'
    BY <1>10, <2>5, <2>8 DEF HidesBefore, IsHide, IsFind, Finds
  <2>10. CASE shown \notin open
    BY <1>10, <1>16, <2>4, <2>9, <2>10 DEF SearchOK
  <2>11. CASE shown \in open
    <3>1. shown \in Tabs
      BY <2>11, Windows
    <3>2. Unanswered => Unanswered'
      <4>1. CASE Finds(work)
        <5>1. PICK i \in Nat : IsFind(work, i)
          BY <1>6, <4>1
        <5>2. CASE i = 1
          <6>1. IsFind(finding'[shown], end(shown)) /\ end(shown) \in Nat
            BY <2>6, <2>11, <5>1, <5>2
          <6>2. Finds(finding'[shown])
            BY <1>6, <3>1, <6>1
          <6> QED BY <3>1, <6>2 DEF Unanswered, Finds
        <5>3. CASE Finds(work')
          BY <5>3 DEF Unanswered, Finds
        <5> QED BY <2>7, <5>1, <5>2, <5>3
      <4>2. ASSUME NEW x \in Tabs, Finds(finding[x]) PROVE Unanswered'
        <5>1. Finds(finding'[x])
          BY <1>3, <1>4, <1>6, <4>2
        <5> QED BY <5>1 DEF Unanswered, Finds
      <4> QED BY <4>1, <4>2 DEF Unanswered
    <3>5. Agrees <=> Agrees'
      BY <1>10 DEF Agrees
    <3>6. (Walks <=> Walks') /\ (Begins <=> Begins')
      BY <1>10, <1>14, <2>11, <3>5 DEF Walks, Begins
    <3> QED BY <1>10, <1>13, <1>16, <2>4, <2>9, <2>11, <3>2, <3>5, <3>6 DEF SearchOK
  <2> QED BY <2>10, <2>11
<1>17. Asking /\ shown \in open => (Walks => Walks') /\ (Begins => Begins')
  <2>1. Agrees <=> Agrees'
    BY <1>10 DEF Agrees
  <2> QED BY <1>10, <1>14, <2>1 DEF Walks, Begins
<1>18. ~muddled' /\ Quiet => SearchOK'
  BY <1>10, <1>15, <1>16 DEF IInv, CountOK
<1> QED BY <1>10, <1>13, <1>17, <1>18, CallsKept

LEMMA RequestParts ==
  ASSUME NEW r \in Requests
  PROVE  /\ r.kind \in {"find", "hide", "sweep", "zoom"}
         /\ r.kind \in {"find", "hide"} => r \in Searches /\ r.tab \in Tabs
<1>1. r.kind \in {"find", "hide", "sweep", "zoom"}
  BY DEF Requests, Searches
<1>2. r.kind \in {"find", "hide"} => r \in Searches
  BY DEF Requests, Searches
<1>3. r \in Searches => r.tab \in Tabs
  BY DEF Searches
<1> QED BY <1>1, <1>2, <1>3

LEMMA WebKitWorksStep == ASSUME IInv, WebKitWorks PROVE IInv'
<1> DEFINE r == Head(work)
<1>1. /\ work # <<>> /\ work' = Tail(work) /\ (ZoomRuns(r) \/ FindRuns(r) \/ SweepRuns(r))
      /\ UNCHANGED <<registry, foreground, focus, shown, target, owner, pressed, events, bar, calls, field, marked, levels, applied, stale, zooming, disk, at, acts, history>>
  BY DEF WebKitWorks
<1>2. /\ work \in Seq(Requests) /\ work' \in Seq(Requests) /\ r \in Requests /\ r = work[1] /\ 1 \in 1..Len(work)
      /\ Len(work) \in Nat \ {0} /\ Len(work') = Len(work) - 1
      /\ \A n \in 1..Len(work') : n + 1 \in 1..Len(work) /\ work'[n] = work[n + 1]
  <2>1. work \in Seq(Requests)
    BY DEF IInv, FindType
  <2> QED BY <1>1, <2>1, Taken
<1>3. /\ r.kind \in {"find", "hide", "sweep", "zoom"} /\ (r.kind \in {"find", "hide"} => r \in Searches /\ r.tab \in Tabs)
  BY <1>2, RequestParts
<1>4. /\ r.kind \in {"find", "hide"} =>
           known' = known /\ finding' = IF r.tab \in open THEN [finding EXCEPT ![r.tab] = Append(@, r)] ELSE finding
      /\ r.kind = "sweep" => known' = known \cup open /\ finding' = finding
      /\ r.kind = "zoom" => known' = known /\ finding' = finding
  BY <1>1 DEF ZoomRuns, FindRuns, SweepRuns, Recorded
<1>5. finding \in [Tabs -> Seq(Searches)] /\ open \subseteq Tabs /\ known \subseteq open
  BY Windows DEF IInv, FindType
<1> HIDE DEF r
<1>6. /\ finding' \in [Tabs -> Seq(Searches)]
      /\ \A x \in Tabs : finding'[x] = IF r.kind \in {"find", "hide"} /\ r.tab = x /\ x \in open
                                       THEN Append(finding[x], r) ELSE finding[x]
  <2>1. CASE r.kind \in {"find", "hide"} /\ r.tab \in open
    <3>1. Append(finding[r.tab], r) \in Seq(Searches)
      BY <1>3, <1>5, <2>1, Added
    <3>2. finding' = [finding EXCEPT ![r.tab] = Append(finding[r.tab], r)]
      BY <1>4, <2>1
    <3> QED BY <1>5, <2>1, <3>1, <3>2
  <2>2. CASE ~(r.kind \in {"find", "hide"} /\ r.tab \in open)
    <3>1. finding' = finding
      BY <1>3, <1>4, <2>2
    <3> QED BY <1>5, <2>2, <3>1
  <2> QED BY <2>1, <2>2
<1>7. TabsOK'
  <2>1. known' \subseteq open
    BY <1>3, <1>4, <1>5
  <2> QED BY <1>1, <2>1 DEF IInv, TabsOK, registry
<1>8. FieldOK' /\ ChordOK' /\ LevelsOK'
  BY <1>1, FieldKept, ChordKept, LevelsKept DEF disk, history
<1>9. FindType'
  <2>1. ASSUME NEW x \in Tabs
        PROVE  /\ \A i \in 1..Len(finding'[x]) : finding'[x][i].tab = x
               /\ x \notin open => finding'[x] = <<>>
    <3>1. CASE r.kind \in {"find", "hide"} /\ r.tab = x /\ x \in open
      <4>1. finding'[x] = Append(finding[x], r) /\ finding[x] \in Seq(Searches) /\ r \in Searches
        BY <1>3, <1>5, <1>6, <3>1
      <4>2. \A i \in 1..Len(finding'[x]) : finding'[x][i] = r \/ (i \in 1..Len(finding[x]) /\ finding'[x][i] = finding[x][i])
        BY <4>1, Added
      <4>3. \A i \in 1..Len(finding[x]) : finding[x][i].tab = x
        BY DEF IInv, FindType
      <4> QED BY <3>1, <4>2, <4>3
    <3>2. CASE ~(r.kind \in {"find", "hide"} /\ r.tab = x /\ x \in open)
      BY <1>6, <3>2 DEF IInv, FindType
    <3> QED BY <3>1, <3>2
  <2> QED BY <1>1, <1>2, <1>6, <2>1 DEF IInv, FindType, registry
<1>10. SweepOK'
  <2>1. CASE r.kind = "sweep" \/ open \subseteq known
    <3>1. open \subseteq known'
      BY <1>3, <1>4, <2>1
    <3>2. open' = open
      BY <1>1 DEF registry
    <3> QED BY <3>1, <3>2 DEF SweepOK
  <2>2. CASE r.kind # "sweep" /\ ~(open \subseteq known)
    <3>1. /\ \A x \in Tabs : ~Finds(finding[x])
          /\ \A i \in 1..Len(work) : work[i].kind = "find" => \E j \in 1..(i - 1) : work[j].kind = "sweep"
          /\ shown # NoTab => \E j \in 1..Len(work) : work[j].kind = "sweep"
      BY <2>2 DEF IInv, SweepOK
    <3>2. r.kind # "find"
      BY <1>2, <3>1
    <3>3. ASSUME NEW x \in Tabs PROVE ~Finds(finding'[x])
      <4>1. CASE finding'[x] = finding[x]
        BY <3>1, <4>1
      <4>2. CASE finding'[x] # finding[x]
        <5>1. finding'[x] = Append(finding[x], r) /\ finding[x] \in Seq(Searches) /\ r \in Searches
          BY <1>3, <1>5, <1>6, <4>2
        <5>2. \A i \in 1..Len(finding'[x]) : finding'[x][i] = r \/ (i \in 1..Len(finding[x]) /\ finding'[x][i] = finding[x][i])
          BY <5>1, Added
        <5> QED BY <3>1, <3>2, <5>2 DEF Finds
      <4> QED BY <4>1, <4>2
    <3>4. \A j \in 1..Len(work) : work[j].kind = "sweep" => j - 1 \in 1..Len(work') /\ work'[j - 1] = work[j]
      <4> SUFFICES ASSUME NEW j \in 1..Len(work), work[j].kind = "sweep" PROVE j - 1 \in 1..Len(work') /\ work'[j - 1] = work[j]
        OBVIOUS
      <4>1. j # 1
        BY <1>2, <2>2
      <4>2. j - 1 \in 1..Len(work') /\ (j - 1) + 1 = j
        BY <1>2, <4>1
      <4> QED BY <1>2, <4>2
    <3>5. ASSUME NEW i \in 1..Len(work'), work'[i].kind = "find"
          PROVE  \E j \in 1..(i - 1) : work'[j].kind = "sweep"
      <4>1. i + 1 \in 1..Len(work) /\ work[i + 1].kind = "find"
        BY <1>2, <3>5
      <4>2. PICK j \in 1..((i + 1) - 1) : work[j].kind = "sweep"
        BY <3>1, <4>1
      <4>3. j \in 1..Len(work)
        BY <1>2, <4>1
      <4>4. j - 1 \in 1..Len(work') /\ work'[j - 1].kind = "sweep"
        BY <3>4, <4>2, <4>3
      <4>5. j - 1 \in 1..(i - 1)
        BY <4>1, <4>3, <4>4
      <4> QED BY <4>4, <4>5
    <3>6. shown # NoTab => \E j \in 1..Len(work') : work'[j].kind = "sweep"
      BY <3>1, <3>4
    <3>7. shown' = shown
      BY <1>1
    <3> QED BY <3>3, <3>5, <3>6, <3>7 DEF SweepOK, Finds
  <2> QED BY <2>1, <2>2
<1>11. CountOK'
  BY <1>1, <1>3, <1>6, RequestHandedOn DEF r, registry, history
<1> QED BY <1>7, <1>8, <1>9, <1>10, <1>11 DEF IInv

\* A page walks its matches as the bar counts them.
LEMMA WalksRound ==
  ASSUME NEW n \in Nat \ {0}, NEW p \in 1..n, NEW d \in Steps
  PROVE  ((p - 1 + d) % n) + 1 = IF p + d > n THEN 1 ELSE IF p + d < 1 THEN n ELSE p + d
<1>1. n % n = 0 /\ (-1) % n = n - 1 /\ \A x \in 0..(n - 1) : x % n = x
  OBVIOUS
<1>2. CASE p + d > n
  <2>1. p - 1 + d = n
    BY <1>2 DEF Steps
  <2> QED BY <1>1, <1>2, <2>1
<1>3. CASE p + d < 1
  <2>1. p - 1 + d = -1
    BY <1>3 DEF Steps
  <2>2. ((p - 1 + d) % n) + 1 = n
    BY <1>1, <2>1
  <2>3. ~(p + d > n)
    BY <1>3 DEF Steps
  <2> QED BY <1>3, <2>2, <2>3
<1>4. CASE ~(p + d > n) /\ ~(p + d < 1)
  <2>1. p - 1 + d \in 0..(n - 1)
    BY <1>4 DEF Steps
  <2>2. (p - 1 + d) % n = p - 1 + d
    BY <1>1, <2>1
  <2> QED BY <1>4, <2>2 DEF Steps
<1> QED BY <1>2, <1>3, <1>4

\* What a page has found is one of its matches, or none.
PlaceOK(m) ==
  IF m.text = NoText \/ MatchesOf[m.text] = 0 THEN m.place = 0 ELSE m.place \in 1..MatchesOf[m.text]

LEMMA FoundIsMatch ==
  ASSUME NEW m \in [text : Queries, place : Nat], PlaceOK(m), NEW r, r.text \in Texts, r.direction \in Steps
  PROVE  Found(m, r) \in [text : Queries, place : Nat] /\ PlaceOK(Found(m, r)) /\ Found(m, r).text = r.text
<1> DEFINE n == MatchesOf[r.text]
<1>1. n \in Nat /\ r.text # NoText /\ r.text \in Queries
  BY InputAssumption DEF Queries
<1>2. CASE n = 0
  BY <1>1, <1>2 DEF Found, PlaceOK
<1>3. CASE n # 0
  <2> DEFINE p == IF m.text = r.text THEN ((m.place - 1 + r.direction) % n) + 1
                  ELSE IF r.direction = 1 THEN 1 ELSE n
  <2>1. p \in 1..n
    <3>1. CASE m.text # r.text
      BY <1>1, <1>3, <3>1
    <3>2. CASE m.text = r.text
      <4>1. m.place \in 1..n /\ n \in Nat \ {0}
        BY <1>1, <1>3, <3>2 DEF PlaceOK
      <4>2. ((m.place - 1 + r.direction) % n) + 1 \in 1..n
        <5>1. m.place + r.direction \in Int
          BY <4>1 DEF Steps
        <5> HIDE DEF n
        <5>2. ((m.place - 1 + r.direction) % n) + 1
                = IF m.place + r.direction > n THEN 1 ELSE IF m.place + r.direction < 1 THEN n ELSE m.place + r.direction
          BY <4>1, WalksRound
        <5> QED BY <4>1, <5>1, <5>2
      <4> QED BY <3>2, <4>2
    <3> QED BY <3>1, <3>2
  <2>2. Found(m, r) = [text |-> r.text, place |-> p]
    BY <1>3 DEF Found
  <2> HIDE DEF p
  <2> QED BY <1>1, <1>3, <2>1, <2>2 DEF PlaceOK
<1> QED BY <1>2, <1>3

LEMMA AdvancedIsMatch ==
  ASSUME NEW b \in Bars, NEW count \in Nat
  PROVE  Advanced(b, count) \in 0..count
<1>1. b.index + b.direction \in Int
  BY DEF Bars, Steps
<1> QED BY <1>1 DEF Advanced

\* The bar and the page agree on what a search shows.
LEMMA SearchAgrees ==
  ASSUME NEW b \in Bars, NEW m \in [text : Queries, place : Nat], PlaceOK(m),
         NEW r, r.text \in Texts, r.direction \in Steps, r.text = b.query, r.direction = b.direction,
         IF b.repeat THEN m.text = b.query /\ b.index = m.place ELSE m.text # b.query /\ b.direction = 1
  PROVE  Advanced(b, MatchesOf[r.text]) = Found(m, r).place
<1> DEFINE n == MatchesOf[r.text]
<1>1. n \in Nat /\ r.text # NoText /\ b.index \in Nat
  BY InputAssumption DEF Bars
<1>2. CASE n = 0
  BY <1>2 DEF Found, Advanced
<1>3. CASE n # 0 /\ ~b.repeat
  BY <1>3 DEF Found, Advanced
<1>4. CASE n # 0 /\ b.repeat
  <2>1. m.place \in 1..n /\ b.index = m.place /\ m.text = r.text
    BY <1>1, <1>4 DEF PlaceOK
  <2>2. Found(m, r).place = ((m.place - 1 + r.direction) % n) + 1
    BY <1>4, <2>1 DEF Found
  <2>3. Advanced(b, n) = IF m.place + r.direction > n THEN 1 ELSE IF m.place + r.direction < 1 THEN n ELSE m.place + r.direction
    BY <1>4, <2>1 DEF Advanced
  <2>4. n \in Nat \ {0}
    BY <1>1, <1>4
  <2> HIDE DEF n
  <2>5. ((m.place - 1 + r.direction) % n) + 1
          = IF m.place + r.direction > n THEN 1 ELSE IF m.place + r.direction < 1 THEN n ELSE m.place + r.direction
    BY <2>1, <2>4, WalksRound
  <2> QED BY <2>2, <2>3, <2>5 DEF n
<1> QED BY <1>2, <1>3, <1>4

LEMMA PageAnswersStep == ASSUME IInv, NEW t \in Tabs, PageAnswers(t) PROVE IInv'
<1> DEFINE r == Head(finding[t])
           n == MatchesOf[r.text]
           answered == r.kind # "hide" /\ Heard(t)
<1>1. /\ t \in open /\ finding[t] # <<>>
      /\ finding' = [finding EXCEPT ![t] = Tail(finding[t])]
      /\ marked' = [marked EXCEPT ![t] = IF r.kind = "hide" THEN NoFind ELSE Found(marked[t], r)]
      /\ (~answered => bar' = bar)
      /\ (answered => bar' = [bar EXCEPT !.count = n, !.index = Advanced(bar, n), !.searched = TRUE])
      /\ UNCHANGED <<registry, foreground, keyboard, events, calls, field, zoomer, disk, work, at, acts, history>>
  BY DEF PageAnswers
<1>2. /\ finding \in [Tabs -> Seq(Searches)] /\ finding[t] \in Seq(Searches) /\ bar \in Bars /\ bar.count \in Nat
      /\ marked \in [Tabs -> [text : Queries, place : Nat]] /\ (\A x \in Tabs : PlaceOK(marked[x])) /\ work \in Seq(Requests)
  BY DEF IInv, FindType, PlaceOK, Bars
<1>3. /\ r \in Searches /\ r = finding[t][1] /\ 1 \in 1..Len(finding[t]) /\ r.tab = t
      /\ Tail(finding[t]) \in Seq(Searches)
      /\ \A i \in 1..Len(Tail(finding[t])) : i + 1 \in 1..Len(finding[t]) /\ Tail(finding[t])[i] = finding[t][i + 1]
  <2>1. /\ r \in Searches /\ r = finding[t][1] /\ 1 \in 1..Len(finding[t]) /\ Tail(finding[t]) \in Seq(Searches)
        /\ \A i \in 1..Len(Tail(finding[t])) : i + 1 \in 1..Len(finding[t]) /\ Tail(finding[t])[i] = finding[t][i + 1]
    BY <1>1, <1>2, Taken
  <2>2. \A i \in 1..Len(finding[t]) : finding[t][i].tab = t
    BY DEF IInv, FindType
  <2> QED BY <2>1, <2>2
<1> HIDE DEF r
<1>4. /\ r.kind \in {"find", "hide"}
      /\ r.kind = "find" => r.text \in Texts /\ r.direction \in Steps /\ n \in Nat
  BY <1>3, InputAssumption DEF Searches
<1> HIDE DEF n, answered
<1>5. bar' \in Bars /\ bar'.open = bar.open /\ (bar'.index > 0 => bar'.count > 0)
      /\ UNCHANGED <<bar.query, bar.repeat, bar.direction>>
      /\ (answered => bar'.count = n /\ bar'.index = Advanced(bar, n) /\ bar'.searched)
  <2>1. CASE answered
    <3>1. n \in Nat /\ Advanced(bar, n) \in 0..n
      BY <1>2, <1>4, <2>1, AdvancedIsMatch DEF answered
    <3> DEFINE a == Advanced(bar, n)
    <3>2. bar' = [bar EXCEPT !.count = n, !.index = a, !.searched = TRUE]
      BY <1>1, <2>1
    <3>3. a \in Nat /\ (a > 0 => n > 0)
      BY <3>1
    <3> HIDE DEF a
    <3>4. bar' \in Bars
      BY <1>2, <3>1, <3>2, <3>3 DEF Bars
    <3>5. bar'.open = bar.open /\ bar'.count = n /\ bar'.index = a /\ bar'.searched = TRUE
      BY <1>2, <3>2 DEF Bars
    <3>6. bar'.query = bar.query /\ bar'.repeat = bar.repeat /\ bar'.direction = bar.direction
      BY <1>2, <3>2 DEF Bars
    <3> QED BY <3>3, <3>4, <3>5, <3>6 DEF a
  <2>2. CASE ~answered
    <3>1. bar' = bar
      BY <1>1, <2>2
    <3> QED BY <1>2, <2>2, <3>1 DEF IInv, FindType
  <2> QED BY <2>1, <2>2
<1> DEFINE after == IF r.kind = "hide" THEN NoFind ELSE Found(marked[t], r)
<1>6. /\ after \in [text : Queries, place : Nat] /\ PlaceOK(after)
      /\ (r.kind = "find" => after = Found(marked[t], r) /\ after.text = r.text)
      /\ (r.kind = "hide" => after.text = NoText)
  <2>1. CASE r.kind = "hide"
    BY <2>1 DEF NoFind, Queries, PlaceOK
  <2>2. CASE r.kind = "find"
    BY <1>2, <1>4, <2>2, FoundIsMatch
  <2> QED BY <1>4, <2>1, <2>2
<1>7. marked' = [marked EXCEPT ![t] = after]
  BY <1>1
<1> HIDE DEF after
<1>8. /\ marked' \in [Tabs -> [text : Queries, place : Nat]] /\ marked'[t] = after
      /\ \A x \in Tabs : x # t => marked'[x] = marked[x]
  BY <1>2, <1>6, <1>7
<1>9. /\ finding' \in [Tabs -> Seq(Searches)] /\ finding'[t] = Tail(finding[t])
      /\ \A x \in Tabs : x # t => finding'[x] = finding[x]
  BY <1>1, <1>2, <1>3
<1>10. TabsOK' /\ FieldOK' /\ ChordOK' /\ LevelsOK'
  BY <1>1, <1>5, TabsKept, FieldKept, ChordKept, LevelsKept DEF keyboard, zoomer, disk, history, IInv, TabsOK
<1>11. FindType'
  <2>1. \A x \in Tabs : /\ \A i \in 1..Len(finding'[x]) : finding'[x][i].tab = x
                        /\ x \notin open => finding'[x] = <<>>
    <3> TAKE x \in Tabs
    <3>1. CASE x = t
      <4>1. \A i \in 1..Len(finding[t]) : finding[t][i].tab = t
        BY DEF IInv, FindType
      <4> QED BY <1>1, <1>3, <1>9, <3>1, <4>1
    <3>2. CASE x # t
      BY <1>9, <3>2 DEF IInv, FindType
    <3> QED BY <3>1, <3>2
  <2>2. \A x \in Tabs : PlaceOK(marked'[x])
    BY <1>2, <1>6, <1>8
  <2>3. UNCHANGED <<open, field, work, calls>>
    BY <1>1 DEF registry
  <2> QED BY <1>5, <1>8, <1>9, <2>1, <2>2, <2>3 DEF IInv, FindType, PlaceOK
<1>12. SweepOK'
  <2>1. \A x \in Tabs : Finds(finding'[x]) => Finds(finding[x])
    <3> TAKE x \in Tabs
    <3>1. CASE x = t
      BY <1>3, <1>9, <3>1 DEF Finds
    <3>2. CASE x # t
      BY <1>9, <3>2
    <3> QED BY <3>1, <3>2
  <2>2. UNCHANGED <<open, known, shown, work>>
    BY <1>1 DEF registry, keyboard
  <2> QED BY <2>1, <2>2 DEF IInv, SweepOK, Finds
<1>13. open' = open /\ known' = known /\ shown' = shown /\ work' = work /\ muddled' = muddled /\ calls' = calls
  BY <1>1 DEF registry, keyboard, history
<1>14. /\ \A i \in Nat : /\ IsFind(finding'[t], i) <=> i >= 1 /\ IsFind(finding[t], i + 1)
                         /\ IsHide(finding'[t], i) <=> i >= 1 /\ IsHide(finding[t], i + 1)
                         /\ IsFind(finding'[t], i) => finding'[t][i] = finding[t][i + 1]
       /\ IsFind(finding[t], 1) <=> r.kind = "find"
       /\ IsHide(finding[t], 1) <=> r.kind = "hide" /\ t = shown
  <2> DEFINE list == finding[t]
  <2>1. list \in Seq(Searches) /\ list # <<>>
    BY <1>1, <1>2
  <2> HIDE DEF list
  <2>2. /\ \A i \in Nat : /\ IsFind(Tail(list), i) <=> i >= 1 /\ IsFind(list, i + 1)
                          /\ IsHide(Tail(list), i) <=> i >= 1 /\ IsHide(list, i + 1)
                          /\ IsFind(Tail(list), i) => Tail(list)[i] = list[i + 1]
        /\ IsFind(list, 1) <=> Head(list).kind = "find"
        /\ IsHide(list, 1) <=> Head(list).kind = "hide" /\ Head(list).tab = shown
    BY <2>1, TakenPositions
  <2>3. r = Head(list) /\ finding'[t] = Tail(list) /\ list = finding[t]
    BY <1>9 DEF r, list
  <2> QED BY <1>3, <2>2, <2>3
<1>15. /\ Finds(work) <=> \E i \in Nat : IsFind(work, i)
       /\ \A x \in Tabs : /\ Finds(finding[x]) <=> \E i \in Nat : IsFind(finding[x], i)
                          /\ Finds(finding'[x]) <=> \E i \in Nat : IsFind(finding'[x], i)
  BY <1>2, <1>9, Positions
<1>16. \A x \in Tabs : Finds(finding'[x]) => Finds(finding[x])
  <2> TAKE x \in Tabs
  <2>1. CASE x = t
    BY <1>14, <1>15, <2>1
  <2>2. CASE x # t
    BY <1>9, <2>2
  <2> QED BY <2>1, <2>2
<1>17. (Searching <=> Searching') /\ (Unanswered' => Unanswered)
  BY <1>5, <1>13, <1>16 DEF Searching, Unanswered, Finds
<1>18. ASSUME ~Searching, SearchOK PROVE SearchOK'
  <2>1. ~Unanswered /\ Empty
    BY <1>18 DEF SearchOK
  <2>2. r.kind # "find"
    BY <1>14, <1>15, <2>1 DEF Unanswered
  <2>3. bar' = bar
    BY <1>1, <1>4, <2>2 DEF answered
  <2> QED BY <1>17, <1>18, <2>1, <2>3 DEF SearchOK, Empty
<1>19. ASSUME Searching, SearchOK PROVE SearchOK'
  <2>1. OneSearch /\ HidesBefore
    BY <1>19 DEF SearchOK
  <2>2. ASSUME NEW i \in Nat, IsFind(finding'[t], i)
        PROVE  i + 1 \in Nat /\ i + 1 # 1 /\ IsFind(finding[t], i + 1) /\ finding'[t][i] = finding[t][i + 1]
    BY <1>14, <2>2
  <2>3. OneSearch'
    <3>1. \A x \in Tabs : \A i \in Nat : IsFind(finding'[x], i) => IsTheOne(finding'[x][i])
      <4> TAKE x \in Tabs
      <4>1. CASE x = t
        BY <2>1, <2>2, <4>1 DEF OneSearch
      <4>2. CASE x # t
        BY <1>9, <2>1, <4>2 DEF OneSearch
      <4> QED BY <4>1, <4>2
    <3>2. \A x \in Tabs : \A i, j \in Nat : IsFind(finding'[x], i) /\ IsFind(finding'[x], j) => i = j
      <4> SUFFICES ASSUME NEW x \in Tabs, NEW i \in Nat, NEW j \in Nat, IsFind(finding'[x], i), IsFind(finding'[x], j) PROVE i = j
        OBVIOUS
      <4>1. CASE x = t
        <5>1. i + 1 = j + 1
          BY <2>1, <2>2, <4>1 DEF OneSearch
        <5> QED BY <5>1
      <4>2. CASE x # t
        BY <1>9, <2>1, <4>2 DEF OneSearch
      <4> QED BY <4>1, <4>2
    <3>3. \A x \in Tabs : ~(Finds(work) /\ Finds(finding'[x]))
      BY <1>16, <2>1 DEF OneSearch
    <3> QED BY <1>5, <1>13, <2>1, <3>1, <3>2, <3>3 DEF OneSearch, IsFind, Finds, IsTheOne
  <2>4. ASSUME shown \in Tabs, NEW j \in Nat, IsHide(finding'[shown], j)
        PROVE  Finds(work) \/ \E i \in Nat : i > j /\ IsFind(finding'[shown], i)
    <3>1. CASE shown = t
      <4>1. j + 1 \in Nat /\ IsHide(finding[t], j + 1)
        BY <1>14, <2>4, <3>1
      <4>2. CASE Finds(work)
        BY <4>2
      <4>3. ASSUME NEW i \in Nat, i > j + 1, IsFind(finding[t], i) PROVE \E k \in Nat : k > j /\ IsFind(finding'[shown], k)
        <5>1. i - 1 \in Nat /\ i - 1 >= 1 /\ (i - 1) + 1 = i /\ i - 1 > j
          BY <4>3
        <5>2. IsFind(finding'[t], i - 1)
          BY <1>14, <4>3, <5>1
        <5> QED BY <3>1, <5>1, <5>2
      <4> QED BY <2>1, <2>4, <3>1, <4>1, <4>2, <4>3 DEF HidesBefore
    <3>2. CASE shown # t
      BY <1>9, <2>1, <2>4, <3>2 DEF HidesBefore
    <3> QED BY <3>1, <3>2
  <2>5. HidesBefore'
    BY <1>13, <2>1, <2>4 DEF HidesBefore, IsHide, IsFind, Finds
  <2>6. CASE shown \notin open
    BY <1>13, <1>17, <1>19, <2>3, <2>5, <2>6 DEF SearchOK
  <2>7. CASE shown \in open
    <3>1. shown \in Tabs
      BY <2>7, Windows
    <3>2. IF ~Unanswered THEN Agrees ELSE IF bar.repeat THEN Walks ELSE bar.direction = 1 /\ Begins
      BY <1>19, <2>7 DEF SearchOK
    <3>3. CASE r.kind = "find"
      <4>1. IsFind(finding[t], 1) /\ IsTheOne(finding[t][1]) /\ 1 \in Nat
        BY <1>14, <2>1, <3>3 DEF OneSearch
      <4>2. t = shown /\ r.text = bar.query /\ r.direction = bar.direction
        BY <1>3, <4>1 DEF IsTheOne
      <4>3. \A i \in Nat : IsFind(finding[t], i) => i = 1
        BY <2>1, <4>1 DEF OneSearch
      <4>4. \A i \in Nat : ~IsFind(finding'[t], i)
        BY <2>2, <4>3
      <4>5. ~Finds(work)
        BY <1>15, <2>1, <4>1 DEF OneSearch
      <4>6. ASSUME NEW x \in Tabs, x # t PROVE ~Finds(finding[x])
        <5> SUFFICES ASSUME NEW i \in Nat, IsFind(finding[x], i) PROVE FALSE
          BY <1>15
        <5>1. finding[x][i].tab = shown
          BY <2>1 DEF OneSearch, IsTheOne
        <5>2. finding[x][i].tab = x
          BY <1>2, Positions DEF IInv, FindType
        <5> QED BY <4>2, <4>6, <5>1, <5>2
      <4>7. ~Unanswered'
        <5>1. \A x \in Tabs : ~Finds(finding'[x])
          BY <1>9, <1>15, <4>4, <4>6
        <5> QED BY <1>13, <4>5, <5>1 DEF Unanswered, Finds
      <4>8. Unanswered
        BY <1>15, <3>1, <4>1, <4>2 DEF Unanswered
      <4>9. ~Hidden
        <5>1. \A j \in Nat : ~IsHide(work, j)
          BY <1>15, <2>1, <4>5 DEF HidesBefore
        <5>2. \A j \in Nat : ~IsHide(finding[t], j)
          <6> SUFFICES ASSUME NEW j \in Nat, IsHide(finding[t], j) PROVE FALSE
            OBVIOUS
          <6>1. PICK i \in Nat : i > j /\ IsFind(finding[t], i)
            BY <2>1, <3>1, <4>2, <4>5 DEF HidesBefore
          <6>2. i = 1 /\ j >= 1
            BY <1>2, <4>3, <6>1, Positions
          <6> QED BY <6>1, <6>2
        <5>3. ~Hides(work, shown) /\ ~Hides(finding[shown], shown)
          BY <1>2, <4>2, <5>1, <5>2, Positions
        <5> QED BY <5>3 DEF Hidden
      <4>10. answered
        <5>1. t \in known
          <6>1. Finds(finding[t])
            BY <1>15, <4>1
          <6> QED BY <2>7, <4>2, <6>1 DEF IInv, SweepOK
        <5> QED BY <3>3, <4>2, <5>1 DEF answered, Heard
      <4>11. bar.count \in Nat /\ IF bar.repeat THEN marked[t].text = bar.query /\ bar.index = marked[t].place
                               ELSE marked[t].text # bar.query /\ bar.direction = 1
        BY <1>2, <3>2, <4>2, <4>8, <4>9 DEF Agrees, Walks, Begins
      <4>12. Advanced(bar, n) = Found(marked[t], r).place
        BY <1>2, <1>4, <3>3, <4>2, <4>11, SearchAgrees DEF n
      <4>13. Agrees'
        <5>1. bar'.count = MatchesOf[bar'.query] /\ bar'.searched /\ bar'.index = after.place /\ after.text = bar'.query
          BY <1>5, <1>6, <3>3, <4>2, <4>10, <4>12 DEF n
        <5>2. shown' = t /\ marked'[shown'] = after
          BY <1>8, <1>13, <4>2
        <5> QED BY <5>1, <5>2 DEF Agrees
      <4> QED BY <1>13, <1>17, <1>19, <2>3, <2>5, <4>7, <4>13 DEF SearchOK
    <3>4. CASE r.kind = "hide" /\ t # shown
      <4>1. bar' = bar /\ marked'[shown] = marked[shown] /\ finding'[shown] = finding[shown]
        BY <1>1, <1>8, <1>9, <3>1, <3>4 DEF answered
      <4>2. (Agrees <=> Agrees') /\ (Hidden <=> Hidden')
        BY <1>13, <4>1 DEF Agrees, Hidden, Hides
      <4>3. Unanswered => Unanswered'
        <5>1. ASSUME NEW x \in Tabs, Finds(finding[x]) PROVE Finds(finding'[x])
          <6>1. CASE x = t
            <7>1. PICK i \in Nat : IsFind(finding[t], i)
              BY <1>15, <5>1, <6>1
            <7>2. i # 1 /\ i >= 1
              BY <1>2, <1>14, <3>4, <7>1, Positions
            <7>3. i - 1 \in Nat /\ i - 1 >= 1 /\ (i - 1) + 1 = i
              BY <7>2
            <7>4. IsFind(finding'[t], i - 1)
              BY <1>14, <7>1, <7>3
            <7> QED BY <1>15, <6>1, <7>3, <7>4
          <6>2. CASE x # t
            BY <1>9, <5>1, <6>2
          <6> QED BY <6>1, <6>2
        <5> QED BY <1>13, <5>1 DEF Unanswered, Finds
      <4>4. (Walks <=> Walks') /\ (Begins <=> Begins')
        BY <1>13, <4>1, <4>2 DEF Walks, Begins
      <4> QED BY <1>13, <1>17, <1>19, <2>3, <2>5, <2>7, <3>2, <4>1, <4>2, <4>3, <4>4 DEF SearchOK
    <3>5. CASE r.kind = "hide" /\ t = shown
      <4>1. bar' = bar /\ marked'[shown].text = NoText
        BY <1>1, <1>6, <1>8, <3>5 DEF answered
      <4>2. Hidden
        <5>1. IsHide(finding[t], 1) /\ 1 \in Nat
          BY <1>14, <3>5
        <5> QED BY <1>2, <3>5, <5>1, Positions DEF Hidden
      <4>3. PICK j \in Nat : j = 1 /\ IsHide(finding[t], j)
        BY <1>14, <3>5
      <4>4. Finds(work) \/ \E i \in Nat : i > 1 /\ IsFind(finding[t], i)
        BY <2>1, <3>5, <4>3 DEF HidesBefore
      <4>5. Unanswered /\ Unanswered'
        <5>1. CASE Finds(work)
          BY <1>13, <5>1 DEF Unanswered, Finds
        <5>2. ASSUME NEW i \in Nat, i > 1, IsFind(finding[t], i) PROVE Unanswered /\ Unanswered'
          <6>1. i - 1 \in Nat /\ i - 1 >= 1 /\ (i - 1) + 1 = i
            BY <5>2
          <6>2. IsFind(finding'[t], i - 1)
            BY <1>14, <5>2, <6>1
          <6>3. Finds(finding[t]) /\ Finds(finding'[t])
            BY <1>15, <5>2, <6>1, <6>2
          <6> QED BY <6>3 DEF Unanswered, Finds
        <5> QED BY <4>4, <5>1, <5>2
      <4>6. ~bar.repeat /\ bar.direction = 1
        BY <3>2, <4>2, <4>5 DEF Walks
      <4>7. marked'[shown].text # bar.query
        BY <1>19, <4>1 DEF Searching
      <4> QED BY <1>13, <1>17, <1>19, <2>3, <2>5, <4>1, <4>5, <4>6, <4>7 DEF SearchOK, Begins
    <3> QED BY <1>4, <3>3, <3>4, <3>5
  <2> QED BY <2>6, <2>7
<1>20. ASSUME ~Unanswered PROVE r.kind = "hide" /\ bar' = bar /\ ~Unanswered'
  <2>1. r.kind # "find"
    BY <1>14, <1>15, <1>20 DEF Unanswered
  <2>2. bar' = bar
    BY <1>1, <1>4, <2>1 DEF answered
  <2> QED BY <1>4, <1>17, <1>20, <2>1, <2>2
<1>21. ASSUME Asking, ~muddled, shown \in open PROVE (Walks => Walks') /\ (Begins => Begins')
  <2>1. ~Unanswered /\ Searching /\ shown \in Tabs
    BY <1>21, AskedIsText, Windows DEF IInv, CountOK, AskOK
  <2>2. r.kind = "hide" /\ bar' = bar
    BY <1>20, <2>1
  <2>3. CASE t # shown
    <3>1. marked'[shown] = marked[shown] /\ finding'[shown] = finding[shown]
      BY <1>8, <1>9, <2>1, <2>3
    <3>2. (Agrees <=> Agrees') /\ (Hidden <=> Hidden')
      BY <1>13, <2>2, <3>1 DEF Agrees, Hidden, Hides
    <3> QED BY <1>13, <2>2, <3>1, <3>2 DEF Walks, Begins
  <2>4. CASE t = shown
    <3>1. IsHide(finding[t], 1) /\ 1 \in Nat
      BY <1>14, <2>2, <2>4
    <3>2. Hidden
      BY <1>2, <2>4, <3>1, Positions DEF Hidden
    <3>3. marked'[shown].text = NoText
      BY <1>6, <1>8, <2>2, <2>4
    <3>4. Begins'
      BY <1>13, <2>1, <2>2, <3>3 DEF Begins, Searching
    <3> QED BY <3>2, <3>4 DEF Walks
  <2> QED BY <2>3, <2>4
<1>22. ~muddled' /\ Quiet => SearchOK'
  BY <1>13, <1>18, <1>19 DEF IInv, CountOK
<1>23. CountOK'
  BY <1>13, <1>20, <1>21, <1>22, CallsKept
<1> QED BY <1>10, <1>11, <1>12, <1>23 DEF IInv

-----------------------------------------------------------------------------
(* What the frame asks of a page.                                          *)

LEMMA SearchPosted ==
  ASSUME IInv, NEW r \in Searches, work' = Append(work, r), shown \in Tabs, UNCHANGED <<open, known, finding, shown>>
  PROVE  SweepOK' /\ work' \in Seq(Requests)
<1>1. work \in Seq(Requests) /\ r \in Requests
  BY DEF IInv, FindType, Requests
<1>2. /\ work' \in Seq(Requests) /\ Len(work') = Len(work) + 1 /\ Len(work) \in Nat
      /\ \A n \in 1..Len(work) : work'[n] = work[n]
  BY <1>1, Added
<1>3. CASE open \subseteq known
  BY <1>2, <1>3 DEF SweepOK
<1>4. CASE ~(open \subseteq known)
  <2>1. /\ \A t \in Tabs : ~Finds(finding[t])
        /\ \A i \in 1..Len(work) : work[i].kind = "find" => \E j \in 1..(i - 1) : work[j].kind = "sweep"
        /\ shown # NoTab => \E j \in 1..Len(work) : work[j].kind = "sweep"
    BY <1>4 DEF IInv, SweepOK
  <2>2. PICK n \in 1..Len(work) : work[n].kind = "sweep"
    BY <2>1, Windows
  <2>3. ASSUME NEW i \in 1..Len(work'), work'[i].kind = "find"
        PROVE  \E j \in 1..(i - 1) : work'[j].kind = "sweep"
    <3>1. CASE i \in 1..Len(work)
      <4>1. PICK j \in 1..(i - 1) : work[j].kind = "sweep"
        BY <1>2, <2>1, <2>3, <3>1
      <4>2. j \in 1..Len(work)
        BY <1>2, <3>1
      <4> QED BY <1>2, <4>1, <4>2
    <3>2. CASE i \notin 1..Len(work)
      <4>1. n \in 1..(i - 1) /\ work'[n].kind = "sweep"
        BY <1>2, <2>2, <3>2
      <4> QED BY <4>1
    <3> QED BY <3>1, <3>2
  <2>4. n \in 1..Len(work') /\ work'[n].kind = "sweep"
    BY <1>2, <2>2
  <2> QED BY <1>2, <2>1, <2>3, <2>4 DEF SweepOK, Finds
<1> QED BY <1>3, <1>4

LEMMA NoSearches ==
  ASSUME IInv, ~Unanswered
  PROVE  /\ \A i \in Nat : ~IsFind(work, i)
         /\ \A t \in Tabs : ~Finds(finding[t]) /\ \A i \in Nat : ~IsFind(finding[t], i)
<1>1. work \in Seq(Requests) /\ \A t \in Tabs : finding[t] \in Seq(Searches)
  BY DEF IInv, FindType
<1>2. ~Finds(work) /\ \A t \in Tabs : ~Finds(finding[t])
  BY DEF Unanswered
<1> QED BY <1>1, <1>2, Positions

\* Without a page there is nobody to ask, and nothing was asked of it.
LEMMA NobodyAsked ==
  ASSUME IInv, shown \notin Tabs
  PROVE  \A i \in Nat : ~IsHide(work, i)
<1> SUFFICES ASSUME NEW i \in Nat, IsHide(work, i) PROVE FALSE
  OBVIOUS
<1>1. work \in Seq(Requests) /\ i \in 1..Len(work) /\ work[i].kind = "hide" /\ work[i].tab = shown
  BY DEF IInv, FindType, IsHide
<1>2. work[i] \in Requests
  BY <1>1, ElementOfSeq
<1> QED BY <1>1, <1>2, RequestParts

LEMMA CallParts ==
  ASSUME IInv, NEW th \in Threads
  PROVE  /\ calls[th] \in Calls /\ bar \in Bars /\ NoText \in Queries
         /\ calls[th].step = "exchange" => calls[th] \in KeyCalls \cup KiraCalls
         /\ calls[th].step = "clear" => calls[th] \in KeyCalls \cup KiraCalls
         /\ calls[th].step = "leave" => calls[th] \in KeyCalls \cup KiraCalls
         /\ calls[th].step \in {"reset", "hide"} => calls[th] \in KeyCalls \cup KiraCalls \cup EndCalls
         /\ th = "engine" => calls[th] = Idle \/ calls[th] \in KeyCalls
<1>1. calls[th] \in Calls /\ bar \in Bars /\ NoText \in Queries
  BY DEF IInv, FindType, Queries
<1>2. calls[th].step \in CloseSteps => calls[th] \in KeyCalls \cup KiraCalls \cup EndCalls
  BY <1>1 DEF Calls, Idle, AskCalls, CloseSteps
<1>3. calls[th] \in EndCalls => calls[th].step \in {"reset", "hide"}
  BY DEF EndCalls
<1>4. th = "engine" => calls[th] = Idle \/ calls[th] \in KeyCalls
  BY DEF IInv, FindType
<1> QED BY <1>1, <1>2, <1>3, <1>4 DEF CloseSteps

\* A close, or a search for nothing, takes its next step.
LEMMA CallMoves ==
  ASSUME NEW c \in KeyCalls \cup KiraCalls \cup EndCalls, NEW step \in CloseSteps, c \in EndCalls => step \in {"reset", "hide"}
  PROVE  /\ At(step, c) \in Calls /\ At(step, c).step = step
         /\ At(step, c) \in KeyCalls <=> c \in KeyCalls
         /\ At(step, c) \in KiraCalls <=> c \in KiraCalls
<1>1. CASE c \in KeyCalls
  <2>1. At(step, c) \in KeyCalls /\ At(step, c).step = step
    BY <1>1 DEF At, KeyCalls
  <2>2. \A x \in KeyCalls : x \notin KiraCalls
    BY DEF KeyCalls, KiraCalls
  <2> QED BY <1>1, <2>1, <2>2 DEF Calls
<1>2. CASE c \in KiraCalls
  <2>1. At(step, c) \in KiraCalls /\ At(step, c).step = step
    BY <1>2 DEF At, KiraCalls
  <2>2. \A x \in KeyCalls : x \notin KiraCalls
    BY DEF KeyCalls, KiraCalls
  <2> QED BY <1>2, <2>1, <2>2 DEF Calls
<1>3. CASE c \in EndCalls
  <2>1. At(step, c) \in EndCalls /\ At(step, c).step = step
    BY <1>3 DEF At, EndCalls
  <2>2. \A x \in EndCalls : x \notin KiraCalls /\ x \notin KeyCalls
    BY DEF KeyCalls, KiraCalls, EndCalls
  <2> QED BY <1>3, <2>1, <2>2 DEF Calls
<1> QED BY <1>1, <1>2, <1>3

\* The step of one thread's call.
LEMMA CallStep ==
  ASSUME IInv, NEW th \in Threads, NEW c \in Calls, Goes(th, c), th = "engine" => c \in {Idle} \cup KeyCalls
  PROVE  /\ calls' \in [Threads -> Calls] /\ calls'["engine"] \in {Idle} \cup KeyCalls
         /\ calls'[th] = c /\ \A o \in Threads : o # th => calls'[o] = calls[o]
BY DEF IInv, FindType, Goes, Threads

\* While a close goes on, what was done last stays done.
LEMMA ChordCalls ==
  ASSUME IInv, UNCHANGED <<last, events, focus, target, pressed, at>>, KeyCloses => KeyCloses',
         ~KeyCloses' => /\ calls'["frame"] \in KiraCalls => calls["frame"] \in KiraCalls
                        /\ bar'.open = bar.open \/ (~bar'.open /\ calls["frame"] \in KiraCalls)
                        /\ calls["frame"] = Close("frame") => calls'["frame"] = Close("frame") \/ ~bar'.open
  PROVE  ChordOK'
<1>1. ChordOK /\ last' = last /\ events' = events
  BY DEF IInv
<1>2. CASE last = "other" \/ KeyCloses' \/ events # <<>>
  BY <1>1, <1>2 DEF ChordOK, Asks
<1>3. CASE ~(last = "other" \/ KeyCloses' \/ events # <<>>)
  <2>1. /\ last \in {"address", "find", "closed"} /\ (calls["frame"] \in KiraCalls => last = "closed")
        /\ calls["frame"] = Close("frame") \/ Done
    BY <1>1, <1>3 DEF ChordOK
  <2>2. CASE calls["frame"] \in KiraCalls
    <3>1. Done <=> ~bar.open
      BY <2>1, <2>2 DEF Done
    <3>2. Done' <=> ~bar'.open
      BY <1>1, <2>1, <2>2 DEF Done
    <3> QED BY <1>1, <1>3, <2>1, <2>2, <3>1, <3>2 DEF ChordOK
  <2>3. CASE calls["frame"] \notin KiraCalls
    <3>1. calls["frame"] # Close("frame")
      BY <2>3 DEF KiraCalls, Close, CloseSteps
    <3>2. Done'
      BY <1>1, <1>3, <2>1, <2>3, <3>1 DEF Done
    <3> QED BY <1>1, <1>3, <2>1, <2>3, <3>2 DEF ChordOK
  <2> QED BY <2>2, <2>3
<1> QED BY <1>2, <1>3

\* What no step of a search or a close disturbs.
LEMMA BesideKept ==
  ASSUME IInv, FindKeeps, UNCHANGED <<focus, target, bounced>>, events' \in Seq(Events)
  PROVE  TabsOK' /\ FieldOK' /\ LevelsOK'
<1>1. FocusGoes
  BY DEF FocusGoes, IInv, TabsOK, FieldOK
<1>2. TabsOK' /\ FieldOK'
  BY <1>1, KeyboardMoves DEF FindKeeps, IInv, TabsOK
<1> QED BY <1>2, LevelsKept DEF FindKeeps, zoomer, disk

LEMMA BarMoved ==
  ASSUME IInv, FindKeeps, bar' \in Bars, bar'.index > 0 => bar'.count > 0, field' \in Queries, work' \in Seq(Requests),
         calls' \in [Threads -> Calls], calls'["engine"] \in {Idle} \cup KeyCalls
  PROVE  FindType'
BY DEF IInv, FindType, FindKeeps, registry

\* A step of a close that asks nothing of a page: the searches are where they were.
LEMMA QueuesKept ==
  ASSUME IInv, FindKeeps, work' = work
  PROVE  SweepOK' /\ (Unanswered <=> Unanswered') /\ work' \in Seq(Requests)
<1>1. UNCHANGED <<open, known, finding, shown, work>>
  BY DEF FindKeeps, registry
<1> QED BY <1>1, SweepKept DEF Unanswered, Finds, IInv, FindType

LEMMA FindExchangesStep == ASSUME IInv, NEW th \in Threads, FindExchanges(th) PROVE IInv'
<1> DEFINE step == IF bar.open THEN "clear" ELSE "leave"
           c == At(step, calls[th])
<1>1. /\ calls[th].step = "exchange" /\ bar' = [bar EXCEPT !.open = FALSE] /\ Goes(th, c)
      /\ muddled' = (muddled \/ (bar.open /\ (Unanswered \/ Asking)))
      /\ FindKeeps /\ UNCHANGED <<focus, target, events, field, work, last, bounced>>
  BY DEF FindExchanges
<1>2. calls[th] \in KeyCalls \cup KiraCalls /\ bar \in Bars /\ step \in CloseSteps /\ calls[th] \notin EndCalls
  BY <1>1, CallParts DEF CloseSteps, EndCalls
<1>3. c \in Calls /\ c.step = step /\ (c \in KeyCalls <=> calls[th] \in KeyCalls) /\ (c \in KiraCalls <=> calls[th] \in KiraCalls)
  BY <1>2, CallMoves
<1> HIDE DEF c
<1>4. /\ calls' \in [Threads -> Calls] /\ calls'["engine"] \in {Idle} \cup KeyCalls
      /\ calls'[th] = c /\ \A o \in Threads : o # th => calls'[o] = calls[o]
  <2>1. th = "engine" => c \in {Idle} \cup KeyCalls
    BY <1>1, <1>3, CallParts DEF Idle
  <2> QED BY <1>1, <1>3, <2>1, CallStep
<1>5. /\ bar' \in Bars /\ ~bar'.open /\ bar'.query = bar.query /\ bar'.count = bar.count /\ bar'.index = bar.index
      /\ bar'.searched = bar.searched /\ bar'.repeat = bar.repeat /\ bar'.direction = bar.direction
  BY <1>1, <1>2 DEF Bars
<1>6. TabsOK' /\ FieldOK' /\ LevelsOK'
  BY <1>1, BesideKept DEF IInv, TabsOK
<1>7. SweepOK' /\ (Unanswered <=> Unanswered') /\ FindType'
  <2>1. SweepOK' /\ (Unanswered <=> Unanswered') /\ work' \in Seq(Requests)
    BY <1>1, QueuesKept
  <2>2. (bar'.index > 0 => bar'.count > 0) /\ field' \in Queries
    BY <1>1, <1>5 DEF IInv, FindType
  <2> QED BY <1>1, <1>4, <1>5, <2>1, <2>2, BarMoved
<1>8. ChordOK'
  <2>1. KeyCloses => KeyCloses'
    BY <1>3, <1>4 DEF KeyCloses
  <2>2. calls[th] \in KeyCalls => KeyCloses'
    BY <1>3, <1>4 DEF KeyCloses
  <2>3. calls[th] \notin KeyCalls => th = "frame" /\ calls["frame"] \in KiraCalls
    BY <1>1, <1>2, CallParts DEF Threads, Idle
  <2>4. UNCHANGED <<last, events, focus, target, pressed, at>>
    BY <1>1 DEF FindKeeps
  <2> QED BY <1>5, <2>1, <2>2, <2>3, <2>4, ChordCalls
<1>9. CountOK'
  <2>1. UNCHANGED <<open, finding, marked, shown, work>>
    BY <1>1 DEF FindKeeps, registry
  <2>2. (OneSearch <=> OneSearch') /\ (HidesBefore <=> HidesBefore')
    BY <1>5, <2>1 DEF OneSearch, HidesBefore, IsFind, IsHide, IsTheOne, Finds
  <2>3. (Agrees <=> Agrees') /\ (Hidden <=> Hidden') /\ (Searching <=> Searching')
    BY <1>5, <2>1 DEF Agrees, Hidden, Hides, Searching
  <2>4. (Walks <=> Walks') /\ (Begins <=> Begins') /\ (Empty <=> Empty')
    BY <1>5, <2>1, <2>3 DEF Walks, Begins, Empty
  <2>5. SearchOK <=> SearchOK'
    BY <1>5, <1>7, <2>1, <2>2, <2>3, <2>4 DEF SearchOK
  <2>6. ~Clearing(th) /\ (Clearing(th)' <=> bar.open) /\ (Clearing(th)' => calls'[th].step = "clear")
    BY <1>1, <1>3, <1>4 DEF Clearing
  <2>7. \A o \in Threads : o # th => (Clearing(o)' <=> Clearing(o)) /\ calls'[o] = calls[o]
    BY <1>4 DEF Clearing
  <2>8. (Asking <=> Asking') /\ (Asking => calls'["frame"] = calls["frame"])
    BY <1>1, <1>3, <1>4 DEF Asking, Threads
  <2> SUFFICES ASSUME ~muddled' PROVE EndsOK' /\ AskOK' /\ (Quiet' => SearchOK')
    BY DEF CountOK
  <2>9. EndsOK /\ AskOK /\ (Quiet => SearchOK) /\ (bar.open => ~Unanswered /\ ~Asking)
    BY <1>1 DEF IInv, CountOK
  <2>10. EndsOK'
    BY <1>7, <2>3, <2>4, <2>6, <2>7, <2>8, <2>9 DEF EndsOK
  <2>11. AskOK'
    BY <1>5, <1>7, <2>1, <2>4, <2>8, <2>9 DEF AskOK
  <2>12. Quiet' => Quiet
    BY <2>6, <2>7, <2>8 DEF Quiet
  <2> QED BY <2>5, <2>9, <2>10, <2>11, <2>12
<1> QED BY <1>6, <1>7, <1>8, <1>9 DEF IInv

\* A call that is at the clearing or the asking is where it was.
LEMMA CallsBeside ==
  ASSUME IInv, UNCHANGED <<bar, work, finding, marked, open, shown, muddled>>,
         \A th \in Threads : \/ calls'[th] = calls[th]
                            \/ {calls[th].step, calls'[th].step} \subseteq {"idle", "exchange", "leave"}
  PROVE  CountOK'
<1>1. (OneSearch <=> OneSearch') /\ (HidesBefore <=> HidesBefore')
  BY DEF OneSearch, HidesBefore, IsFind, IsHide, IsTheOne, Finds
<1>2. (Agrees <=> Agrees') /\ (Hidden <=> Hidden') /\ (Unanswered <=> Unanswered') /\ (Searching <=> Searching')
  BY DEF Agrees, Hidden, Hides, Unanswered, Finds, Searching
<1>3. (Walks <=> Walks') /\ (Begins <=> Begins') /\ (Empty <=> Empty')
  BY <1>2 DEF Walks, Begins, Empty
<1>4. SearchOK <=> SearchOK'
  BY <1>1, <1>2, <1>3 DEF SearchOK
<1>5. \A th \in Threads : (Clearing(th)' <=> Clearing(th)) /\ (Clearing(th) => calls'[th] = calls[th])
  BY DEF Clearing
<1>6. (Asking' <=> Asking) /\ (Asking => calls'["frame"] = calls["frame"])
  BY DEF Asking, Threads
<1>7. EndsOK => EndsOK'
  BY <1>2, <1>3, <1>5, <1>6 DEF EndsOK
<1>8. AskOK => AskOK'
  BY <1>2, <1>3, <1>6 DEF AskOK
<1>9. Quiet' <=> Quiet
  BY <1>5, <1>6 DEF Quiet
<1> QED BY <1>4, <1>7, <1>8, <1>9 DEF IInv, CountOK

\* A close goes from one step to the next of its thread.
LEMMA EndMoves ==
  ASSUME IInv, NEW th \in Threads, NEW step \in {"reset", "hide"}, Clearing(th), Goes(th, At(step, calls[th])),
         FindKeeps, UNCHANGED <<focus, target, events, field, work, last, muddled, bounced>>,
         bar' \in Bars, bar'.open = bar.open, bar'.index > 0 => bar'.count > 0, bar'.query \in {bar.query, NoText},
         ~muddled' => ~Searching', Empty \/ step = "hide" => Empty'
  PROVE  IInv'
<1> DEFINE c == At(step, calls[th])
<1>1. calls[th] \in KeyCalls \cup KiraCalls \cup EndCalls /\ step \in CloseSteps
  BY CallParts DEF Clearing, CloseSteps
<1>2. c \in Calls /\ c.step = step /\ (c \in KeyCalls <=> calls[th] \in KeyCalls) /\ (c \in KiraCalls <=> calls[th] \in KiraCalls)
  BY <1>1, CallMoves
<1>3. Goes(th, c)
  OBVIOUS
<1> HIDE DEF c
<1>4. /\ calls' \in [Threads -> Calls] /\ calls'["engine"] \in {Idle} \cup KeyCalls
      /\ calls'[th] = c /\ \A o \in Threads : o # th => calls'[o] = calls[o]
  <2>1. th = "engine" => c \in {Idle} \cup KeyCalls
    BY <1>2, CallParts DEF Idle, Clearing
  <2> QED BY <1>2, <1>3, <2>1, CallStep
<1>5. TabsOK' /\ FieldOK' /\ LevelsOK'
  BY BesideKept DEF IInv, TabsOK
<1>6. SweepOK' /\ (Unanswered <=> Unanswered') /\ FindType'
  <2>1. SweepOK' /\ (Unanswered <=> Unanswered') /\ work' \in Seq(Requests)
    BY QueuesKept
  <2>2. field' \in Queries
    BY DEF IInv, FindType
  <2> QED BY <1>4, <2>1, <2>2, BarMoved
<1>7. ChordOK'
  <2>1. KeyCloses => KeyCloses'
    BY <1>2, <1>4 DEF KeyCloses
  <2>2. calls'["frame"] \in KiraCalls => calls["frame"] \in KiraCalls
    BY <1>2, <1>4 DEF Threads
  <2>3. calls["frame"] = Close("frame") => calls'["frame"] = calls["frame"]
    BY <1>4 DEF Close, Clearing, Threads
  <2>4. UNCHANGED <<last, events, focus, target, pressed, at>>
    BY DEF FindKeeps
  <2> QED BY <2>1, <2>2, <2>3, <2>4, ChordCalls
<1>8. CountOK'
  <2> SUFFICES ASSUME ~muddled' PROVE EndsOK' /\ AskOK' /\ (Quiet' => SearchOK')
    BY DEF CountOK
  <2>1. EndsOK /\ ~Unanswered /\ ~Asking
    BY DEF IInv, CountOK, EndsOK
  <2>2. ~Asking' /\ Clearing(th)' /\ ~Unanswered'
    BY <1>2, <1>4, <1>6, <2>1 DEF Asking, Clearing, Threads
  <2>3. \A o \in Threads : o # th => (Clearing(o)' <=> Clearing(o)) /\ calls'[o] = calls[o]
    BY <1>4 DEF Clearing
  <2>4. ASSUME NEW o \in Threads, Clearing(o)', calls'[o].step = "hide" PROVE Empty'
    BY <1>2, <1>4, <2>1, <2>3, <2>4 DEF EndsOK
  <2>5. EndsOK'
    BY <2>2, <2>4 DEF EndsOK
  <2> QED BY <2>2, <2>5 DEF AskOK, Quiet
<1> QED BY <1>5, <1>6, <1>7, <1>8 DEF IInv

LEMMA FindClearsStep == ASSUME IInv, NEW th \in Threads, FindClears(th) PROVE IInv'
<1>1. /\ calls[th].step = "clear" /\ bar' = [bar EXCEPT !.query = NoText] /\ Goes(th, At("reset", calls[th]))
      /\ FindKeeps /\ UNCHANGED <<focus, target, events, field, work, last, muddled, bounced>>
  BY DEF FindClears
<1>2. bar \in Bars /\ NoText \in Queries /\ Clearing(th)
  BY <1>1, CallParts DEF Clearing
<1>3. /\ bar' \in Bars /\ bar'.open = bar.open /\ bar'.query = NoText
      /\ bar'.count = bar.count /\ bar'.index = bar.index /\ bar'.searched = bar.searched
  BY <1>1, <1>2 DEF Bars
<1>4. ~Searching' /\ (Empty => Empty') /\ (bar'.index > 0 => bar'.count > 0)
  BY <1>3 DEF Searching, Empty, IInv, FindType
<1> QED BY <1>1, <1>2, <1>3, <1>4, EndMoves

LEMMA FindResetsStep == ASSUME IInv, NEW th \in Threads, FindResets(th) PROVE IInv'
<1>1. /\ calls[th].step = "reset" /\ bar' = [bar EXCEPT !.count = 0, !.index = 0, !.searched = FALSE] /\ Goes(th, At("hide", calls[th]))
      /\ FindKeeps /\ UNCHANGED <<focus, target, events, field, work, last, muddled, bounced>>
  BY DEF FindResets
<1>2. bar \in Bars /\ Clearing(th)
  BY <1>1, CallParts DEF Clearing
<1>3. /\ bar' \in Bars /\ bar'.open = bar.open /\ bar'.query = bar.query
      /\ bar'.count = 0 /\ bar'.index = 0 /\ ~bar'.searched
  BY <1>1, <1>2 DEF Bars
<1>4. Empty' /\ ~(bar'.index > 0)
  BY <1>3 DEF Empty
<1>5. ~muddled' => ~Searching'
  BY <1>1, <1>2, <1>3 DEF IInv, CountOK, EndsOK, Searching
<1> QED BY <1>1, <1>2, <1>3, <1>4, <1>5, EndMoves


\* The page in front is told that a search is over.
LEMMA HidePosted ==
  ASSUME IInv, PostFind(Hide), UNCHANGED <<open, known, finding, shown>>
  PROVE  SweepOK' /\ work' \in Seq(Requests) /\ (Unanswered' => Unanswered)
<1>1. work \in Seq(Requests) /\ (shown \in Tabs \/ shown = NoTab) /\ NoTab \notin Tabs
  BY Windows DEF IInv, FindType, TabsOK
<1>2. CASE shown = NoTab
  <2>1. work' = work
    BY <1>2 DEF PostFind
  <2> QED BY <1>1, <2>1, SweepKept DEF Unanswered, Finds
<1>3. CASE shown \in Tabs
  <2>1. Hide \in Searches /\ Hide \in Requests /\ Hide.kind = "hide" /\ work' = Append(work, Hide)
    BY <1>1, <1>3 DEF PostFind, Hide, Searches, Requests
  <2>2. SweepOK' /\ work' \in Seq(Requests)
    BY <1>3, <2>1, SearchPosted
  <2>3. Unanswered' => Unanswered
    <3> SUFFICES ASSUME Finds(work') PROVE Finds(work)
      BY DEF Unanswered, Finds
    <3>1. PICK i \in Nat : IsFind(work', i)
      BY <2>2, Positions
    <3>2. IsFind(work, i)
      BY <1>1, <2>1, <3>1, AddedPositions
    <3> QED BY <1>1, <3>2, Positions
  <2> QED BY <2>2, <2>3
<1> QED BY <1>1, <1>2, <1>3

LEMMA FindHidesStep == ASSUME IInv, NEW th \in Threads, FindHides(th) PROVE IInv'
<1> DEFINE c == IF calls[th].then = "search" THEN Idle ELSE At("leave", calls[th])
<1>1. /\ calls[th].step = "hide" /\ PostFind(Hide) /\ Goes(th, c)
      /\ FindKeeps /\ UNCHANGED <<focus, target, events, bar, field, last, muddled, bounced>>
  BY DEF FindHides
<1>2. calls[th] \in KeyCalls \cup KiraCalls \cup EndCalls /\ Clearing(th)
  BY <1>1, CallParts DEF Clearing
<1>3. /\ c \in Calls /\ c.step \in {"idle", "leave"}
      /\ (c \in KeyCalls <=> calls[th] \in KeyCalls) /\ (c \in KiraCalls <=> calls[th] \in KiraCalls)
  <2>1. CASE calls[th] \in EndCalls
    <3>1. c = Idle
      BY <2>1 DEF EndCalls
    <3>2. Idle.step = "idle" /\ Idle \notin KeyCalls /\ Idle \notin KiraCalls /\ Idle \in Calls
      BY DEF Idle, KeyCalls, KiraCalls, CloseSteps, Calls
    <3>3. calls[th] \notin KeyCalls /\ calls[th] \notin KiraCalls
      BY <2>1 DEF EndCalls, KeyCalls, KiraCalls
    <3> QED BY <3>1, <3>2, <3>3
  <2>2. CASE calls[th] \in KeyCalls \cup KiraCalls
    <3>1. c = At("leave", calls[th]) /\ calls[th] \notin EndCalls
      BY <2>2 DEF KeyCalls, KiraCalls, EndCalls
    <3>2. "leave" \in CloseSteps
      BY DEF CloseSteps
    <3> QED BY <2>2, <3>1, <3>2, CallMoves
  <2> QED BY <1>2, <2>1, <2>2
<1> HIDE DEF c
<1>4. /\ calls' \in [Threads -> Calls] /\ calls'["engine"] \in {Idle} \cup KeyCalls
      /\ calls'[th] = c /\ \A o \in Threads : o # th => calls'[o] = calls[o]
  <2>1. th = "engine" => c \in {Idle} \cup KeyCalls
    BY <1>1, <1>3, CallParts DEF Idle
  <2> QED BY <1>1, <1>3, <2>1, CallStep
<1>5. TabsOK' /\ FieldOK' /\ LevelsOK'
  BY <1>1, BesideKept DEF IInv, TabsOK
<1>6. UNCHANGED <<open, known, finding, marked, shown, bar>>
  BY <1>1 DEF FindKeeps, registry
<1>7. SweepOK' /\ work' \in Seq(Requests) /\ (Unanswered' => Unanswered)
  BY <1>1, <1>6, HidePosted
<1>8. FindType'
  BY <1>1, <1>4, <1>6, <1>7, BarMoved DEF IInv, FindType
<1>9. ChordOK'
  <2>1. KeyCloses => KeyCloses'
    BY <1>3, <1>4 DEF KeyCloses
  <2>2. calls'["frame"] \in KiraCalls => calls["frame"] \in KiraCalls
    BY <1>3, <1>4 DEF Threads
  <2>3. calls["frame"] = Close("frame") => calls'["frame"] = calls["frame"]
    BY <1>1, <1>4 DEF Close, Threads
  <2>4. UNCHANGED <<last, events, focus, target, pressed, at>>
    BY <1>1 DEF FindKeeps
  <2> QED BY <1>6, <2>1, <2>2, <2>3, <2>4, ChordCalls
<1>10. CountOK'
  <2> SUFFICES ASSUME ~muddled' PROVE EndsOK' /\ AskOK' /\ (Quiet' => SearchOK')
    BY DEF CountOK
  <2>1. EndsOK /\ ~Unanswered /\ ~Asking /\ ~Searching /\ Empty
    BY <1>1, <1>2 DEF IInv, CountOK, EndsOK
  <2>2. ~Asking' /\ ~Clearing(th)' /\ ~Unanswered' /\ ~Searching' /\ Empty'
    BY <1>3, <1>4, <1>6, <1>7, <2>1 DEF Asking, Clearing, Threads, Searching, Empty
  <2>3. EndsOK'
    BY <2>2 DEF EndsOK
  <2> QED BY <2>2, <2>3 DEF AskOK, SearchOK
<1> QED BY <1>5, <1>7, <1>8, <1>9, <1>10 DEF IInv

\* A close is over: the chord's event is queued, or Kira leaves the bar.
LEMMA FindLeavesStep == ASSUME IInv, NEW th \in Threads, FindLeaves(th) PROVE IInv'
<1>1. calls[th].step = "leave" /\ Goes(th, Idle) /\ FindKeeps /\ UNCHANGED <<bar, work, muddled>>
  BY DEF FindLeaves
<1>2. Idle \in Calls /\ Idle.step = "idle" /\ Idle \notin KeyCalls /\ Idle \notin KiraCalls
  BY DEF Idle, KeyCalls, KiraCalls, CloseSteps, Calls
<1>3. /\ calls' \in [Threads -> Calls] /\ calls'["engine"] \in {Idle} \cup KeyCalls
      /\ calls'[th] = Idle /\ \A o \in Threads : o # th => calls'[o] = calls[o]
  BY <1>1, <1>2, CallStep
<1>4. UNCHANGED <<open, known, finding, marked, shown>> /\ LevelsOK'
  BY <1>1, LevelsKept DEF FindKeeps, registry, zoomer, disk
<1>5. SweepOK' /\ CountOK'
  BY <1>1, <1>2, <1>3, <1>4, QueuesKept, CallsBeside
<1>6. field' \in Queries => FindType'
  BY <1>1, <1>3, BarMoved DEF IInv, FindType
<1>7. CASE /\ calls[th].then = "key" /\ Queued([kind |-> "close find"]) /\ last' = "closed"
           /\ UNCHANGED <<focus, target, bounced, field>>
  <2> DEFINE e == [kind |-> "close find"]
  <2>1. e \in Events /\ e.kind = "close find" /\ Queued(e)
    BY <1>7 DEF Events
  <2> HIDE DEF e
  <2>2. events' \in Seq(Events) /\ ChordOK'
    BY <1>7, <2>1, EventQueued, ChordAsked
  <2>3. TabsOK' /\ FieldOK'
    BY <1>1, <1>7, <2>2, BesideKept
  <2>4. FindType'
    BY <1>6, <1>7 DEF IInv, FindType
  <2> QED BY <1>4, <1>5, <2>2, <2>3, <2>4 DEF IInv
<1>8. CASE /\ calls[th].then = "frame" /\ field' = NoText /\ ToContent("none") /\ UNCHANGED <<events, last>>
  <2>1. FindType'
    BY <1>6, <1>8 DEF Queries
  <2>2. FocusGoes
    BY <1>8, GoesToContent
  <2>3. TabsOK' /\ FieldOK'
    BY <1>1, <1>8, <2>2, KeyboardMoves DEF IInv, TabsOK, FindKeeps
  <2>4. ChordOK'
    <3>1. calls[th] \in KiraCalls /\ calls[th] \notin KeyCalls /\ th = "frame" /\ calls["frame"] # Close("frame")
      <4>1. calls[th] \in KeyCalls \cup KiraCalls /\ (th = "engine" => calls[th] = Idle \/ calls[th] \in KeyCalls)
        BY <1>1, CallParts
      <4> QED BY <1>1, <1>2, <1>8, <4>1 DEF KeyCalls, KiraCalls, Threads, Close
    <3>2. KeyCloses => KeyCloses'
      BY <1>3, <3>1 DEF KeyCloses
    <3>3. calls'["frame"] = Idle
      BY <1>3, <3>1
    <3> SUFFICES ASSUME last # "other", ~KeyCloses PROVE IF events # <<>> THEN Asks(events[Len(events)]) ELSE last = "closed" /\ ~bar.open
      BY <1>1, <1>2, <1>8, <3>2, <3>3 DEF IInv, ChordOK, Asks, Done
    <3> QED BY <3>1 DEF IInv, ChordOK, Done
  <2> QED BY <1>4, <1>5, <2>1, <2>3, <2>4 DEF IInv
<1> QED BY <1>1, <1>7, <1>8 DEF FindLeaves, Queued

LEMMA FindGoesOnStep == ASSUME IInv, NEW th \in Threads, FindGoesOn(th) PROVE IInv'
BY FindExchangesStep, FindClearsStep, FindResetsStep, FindHidesStep, FindLeavesStep DEF FindGoesOn

-----------------------------------------------------------------------------
(* A search for a text.                                                     *)

\* No close waits on the frame while it searches.
LEMMA AskingCalls ==
  ASSUME IInv, Asking, NEW c \in {Idle} \cup AskCalls, Goes("frame", c)
  PROVE  /\ calls' \in [Threads -> Calls] /\ calls'["engine"] \in {Idle} \cup KeyCalls
         /\ calls'["frame"] = c /\ calls'["engine"] = calls["engine"]
         /\ KeyCloses <=> KeyCloses'
         /\ calls["frame"] \notin KiraCalls /\ c \notin KiraCalls /\ calls["frame"] # Close("frame")
<1>1. "frame" \in Threads /\ "engine" \in Threads /\ Threads = {"frame", "engine"} /\ c \in Calls
  BY DEF Threads, Calls
<1>2. /\ calls' \in [Threads -> Calls] /\ calls'["engine"] \in {Idle} \cup KeyCalls
      /\ calls'["frame"] = c /\ calls'["engine"] = calls["engine"]
  BY <1>1, CallStep
<1>3. calls["frame"] \in AskCalls
  BY AskedIsText
<1>4. \A x \in {Idle} \cup AskCalls : x \notin KeyCalls /\ x \notin KiraCalls /\ x # Close("frame")
  BY DEF Idle, AskCalls, KeyCalls, KiraCalls, CloseSteps, Close
<1>5. KeyCloses <=> KeyCloses'
  BY <1>1, <1>2, <1>3, <1>4 DEF KeyCloses
<1> QED BY <1>2, <1>3, <1>4, <1>5

LEMMA FindAimsStep == ASSUME IInv, FindAims PROVE IInv'
<1> DEFINE c == calls["frame"]
           d == At("ask", c)
<1>1. /\ c.step = "aim" /\ bar' = [bar EXCEPT !.repeat = c.again, !.direction = c.direction] /\ Goes("frame", d)
      /\ FindKeeps /\ UNCHANGED <<focus, target, events, field, work, last, muddled, bounced>>
  BY DEF FindAims
<1>2. Asking /\ c \in AskCalls
  BY <1>1, AskedIsText DEF Asking
<1>3. d \in AskCalls /\ d.step = "ask" /\ d.text = c.text /\ d.direction = c.direction /\ d.again = c.again
  BY <1>2 DEF At, AskCalls
<1>4. bar \in Bars /\ c.again \in BOOLEAN /\ c.direction \in Steps
  BY <1>2 DEF IInv, FindType, AskCalls
<1>5. /\ bar' \in Bars /\ bar'.open = bar.open /\ bar'.query = bar.query /\ bar'.count = bar.count /\ bar'.index = bar.index
      /\ bar'.searched = bar.searched /\ bar'.repeat = c.again /\ bar'.direction = c.direction
  BY <1>1, <1>4 DEF Bars
<1> HIDE DEF d
<1>6. /\ calls' \in [Threads -> Calls] /\ calls'["engine"] \in {Idle} \cup KeyCalls
      /\ calls'["frame"] = d /\ calls'["engine"] = calls["engine"] /\ (KeyCloses <=> KeyCloses')
      /\ c \notin KiraCalls /\ d \notin KiraCalls /\ c # Close("frame")
  BY <1>1, <1>2, <1>3, AskingCalls
<1>7. TabsOK' /\ FieldOK' /\ LevelsOK'
  BY <1>1, BesideKept DEF IInv, TabsOK
<1>8. SweepOK' /\ (Unanswered <=> Unanswered') /\ FindType'
  <2>1. SweepOK' /\ (Unanswered <=> Unanswered') /\ work' \in Seq(Requests)
    BY <1>1, QueuesKept
  <2>2. (bar'.index > 0 => bar'.count > 0) /\ field' \in Queries
    BY <1>1, <1>5 DEF IInv, FindType
  <2> QED BY <1>1, <1>5, <1>6, <2>1, <2>2, BarMoved
<1>9. ChordOK'
  BY <1>1, <1>5, <1>6, ChordCalls DEF FindKeeps
<1>10. CountOK'
  <2> SUFFICES ASSUME ~muddled' PROVE EndsOK' /\ AskOK' /\ (Quiet' => SearchOK')
    BY DEF CountOK
  <2>1. EndsOK /\ AskOK
    BY <1>1 DEF IInv, CountOK
  <2>2. UNCHANGED <<open, finding, marked, shown, work>>
    BY <1>1 DEF FindKeeps, registry
  <2>3. (Agrees <=> Agrees') /\ (Hidden <=> Hidden')
    BY <1>5, <2>2 DEF Agrees, Hidden, Hides
  <2>4. (Walks <=> Walks') /\ (Begins <=> Begins')
    BY <1>5, <2>2, <2>3 DEF Walks, Begins
  <2>5. Asking'
    BY <1>3, <1>6 DEF Asking
  <2>6. \A th \in Threads : ~Clearing(th)'
    <3>1. ~Clearing("engine") /\ ~Clearing("engine")'
      BY <1>2, <1>6, <2>1 DEF EndsOK, Clearing, Threads
    <3>2. ~Clearing("frame")'
      BY <1>3, <1>6 DEF Clearing
    <3> QED BY <3>1, <3>2 DEF Threads
  <2>7. AskOK'
    <3>1. /\ ~Unanswered /\ c.text = bar.query /\ (~c.again => c.direction = 1)
          /\ shown \in open => IF c.again THEN Walks ELSE Begins
      BY <1>2, <2>1 DEF AskOK
    <3> QED BY <1>3, <1>5, <1>6, <1>8, <2>2, <2>4, <3>1 DEF AskOK
  <2> QED BY <2>5, <2>6, <2>7 DEF EndsOK, Quiet
<1> QED BY <1>7, <1>8, <1>9, <1>10 DEF IInv

LEMMA FindAsksStep == ASSUME IInv, FindAsks PROVE IInv'
<1> DEFINE c == calls["frame"]
           r == [kind |-> "find", tab |-> shown, text |-> c.text, direction |-> c.direction]
<1>1. /\ c.step = "ask" /\ PostFind(r) /\ Goes("frame", Idle)
      /\ FindKeeps /\ UNCHANGED <<focus, target, events, bar, field, last, muddled, bounced>>
  BY DEF FindAsks
<1>2. Asking /\ c \in AskCalls /\ (~muddled => Searching)
  BY <1>1, AskedIsText DEF Asking
<1>3. r.kind = "find" /\ r.tab = shown /\ r.text = c.text /\ r.direction = c.direction /\ (shown \in Tabs => r \in Searches /\ r \in Requests)
  BY <1>2 DEF Searches, Requests, AskCalls
<1> HIDE DEF r
<1>4. /\ work \in Seq(Requests) /\ (\A t \in Tabs : finding[t] \in Seq(Searches)) /\ bar \in Bars
      /\ (shown \in Tabs \/ shown = NoTab) /\ NoTab \notin Tabs
  BY Windows DEF IInv, FindType, TabsOK
<1>5. /\ calls' \in [Threads -> Calls] /\ calls'["engine"] \in {Idle} \cup KeyCalls
      /\ calls'["frame"] = Idle /\ calls'["engine"] = calls["engine"] /\ (KeyCloses <=> KeyCloses')
      /\ c \notin KiraCalls /\ Idle \notin KiraCalls /\ c # Close("frame")
  BY <1>1, <1>2, AskingCalls
<1>6. TabsOK' /\ FieldOK' /\ LevelsOK'
  BY <1>1, BesideKept DEF IInv, TabsOK
<1>7. UNCHANGED <<open, known, finding, marked, shown, bar>>
  BY <1>1 DEF FindKeeps, registry
<1>8. SweepOK' /\ work' \in Seq(Requests)
  <2>1. CASE shown = NoTab
    <3>1. work' = work
      BY <1>1, <2>1 DEF PostFind
    <3> QED BY <1>4, <1>7, <3>1, SweepKept
  <2>2. CASE shown \in Tabs
    <3>1. work' = Append(work, r) /\ r \in Searches
      BY <1>1, <1>3, <1>4, <2>2 DEF PostFind
    <3> QED BY <1>7, <2>2, <3>1, SearchPosted
  <2> QED BY <1>4, <2>1, <2>2
<1>9. FindType'
  BY <1>1, <1>5, <1>7, <1>8, BarMoved DEF IInv, FindType
<1>10. ChordOK'
  BY <1>1, <1>5, ChordCalls DEF FindKeeps
<1>11. CountOK'
  <2> SUFFICES ASSUME ~muddled' PROVE EndsOK' /\ AskOK' /\ SearchOK'
    BY DEF CountOK
  <2>1. EndsOK /\ AskOK /\ Searching /\ Searching'
    BY <1>1, <1>2, <1>7 DEF IInv, CountOK, Searching
  <2>2. /\ ~Unanswered /\ c.text = bar.query /\ (~c.again => c.direction = 1) /\ bar.repeat = c.again /\ bar.direction = c.direction
        /\ shown \in open => IF c.again THEN Walks ELSE Begins
    BY <1>1, <1>2, <2>1 DEF AskOK
  <2>3. /\ \A i \in Nat : ~IsFind(work, i)
        /\ \A t \in Tabs : ~Finds(finding[t]) /\ \A i \in Nat : ~IsFind(finding[t], i)
    BY <2>2, NoSearches
  <2>4. ~Asking' /\ \A th \in Threads : ~Clearing(th)'
    <3>1. ~Clearing("engine") /\ ~Clearing("engine")'
      BY <1>2, <1>5, <2>1 DEF EndsOK, Clearing, Threads
    <3>2. ~Clearing("frame")' /\ ~Asking'
      BY <1>5 DEF Clearing, Asking, Idle
    <3> QED BY <3>1, <3>2 DEF Threads
  <2>5. SearchOK'
    <3>1. CASE shown = NoTab
      <4>1. work' = work
        BY <1>1, <3>1 DEF PostFind
      <4>2. \A i \in Nat : ~IsHide(work, i)
        BY <1>4, <3>1, NobodyAsked
      <4>3. \A i \in Nat : ~IsHide(work', i) /\ ~IsFind(work', i)
        BY <1>7, <2>3, <4>1, <4>2 DEF IsHide, IsFind
      <4>4. OneSearch'
        BY <1>7, <2>3, <4>3 DEF OneSearch, IsFind, Finds, IsTheOne
      <4>5. HidesBefore'
        BY <1>4, <1>7, <3>1, <4>3 DEF HidesBefore, IsHide
      <4>6. shown \notin open
        BY <1>4, <3>1, Windows
      <4> QED BY <1>7, <2>1, <4>4, <4>5, <4>6 DEF SearchOK
    <3>2. CASE shown \in Tabs
      <4> DEFINE last1 == Len(work) + 1
      <4>1. work' = Append(work, r) /\ r \in Requests
        BY <1>1, <1>3, <1>4, <3>2 DEF PostFind
      <4>2. /\ \A i \in Nat : /\ IsFind(work', i) <=> i = last1
                              /\ IsHide(work', i) <=> IsHide(work, i)
            /\ work'[last1] = r /\ last1 \in Nat
            /\ \A i \in Nat : IsHide(work, i) => i < last1
        BY <1>3, <1>4, <2>3, <4>1, AddedPositions
      <4> HIDE DEF last1
      <4>3. OneSearch'
        <5>1. r.tab = shown' /\ r.text = bar'.query /\ r.direction = bar'.direction
          BY <1>3, <1>7, <2>2
        <5> QED BY <1>7, <2>3, <4>2, <5>1 DEF OneSearch, IsFind, Finds, IsTheOne
      <4>4. Finds(work') /\ Unanswered'
        <5>1. Finds(work')
          BY <1>8, <4>2, Positions
        <5> QED BY <5>1 DEF Unanswered, Finds
      <4>5. HidesBefore'
        <5>1. \A j \in Nat : IsHide(work', j) => \E i \in Nat : i > j /\ IsFind(work', i)
          <6> TAKE j \in Nat
          <6>1. IsHide(work', j) => last1 > j /\ IsFind(work', last1) /\ last1 \in Nat
            BY <4>2
          <6> QED BY <6>1
        <5> QED BY <1>7, <4>4, <5>1 DEF HidesBefore, IsHide, IsFind, Finds
      <4>6. Hidden <=> Hidden'
        <5>1. Hides(work', shown) <=> Hides(work, shown)
          <6>1. /\ Hides(work', shown) <=> \E i \in Nat : IsHide(work', i)
                /\ Hides(work, shown) <=> \E i \in Nat : IsHide(work, i)
            BY <1>4, <1>8, Positions
          <6> QED BY <4>2, <6>1
        <5> QED BY <1>7, <5>1 DEF Hidden, Hides
      <4>7. (Walks <=> Walks') /\ (Begins <=> Begins')
        BY <1>7, <4>6 DEF Walks, Begins, Agrees
      <4> QED BY <1>7, <2>1, <2>2, <4>3, <4>4, <4>5, <4>7 DEF SearchOK
    <3> QED BY <1>4, <3>1, <3>2
  <2> QED BY <2>4, <2>5 DEF EndsOK, AskOK
<1> QED BY <1>6, <1>8, <1>9, <1>10, <1>11 DEF IInv

-----------------------------------------------------------------------------
(* What the frame does to the bar when it carries out an event.             *)

\* The bar, and what the frame begins: a search, or Kira's close.
BarGoes ==
  /\ SweepOK' /\ CountOK' /\ bar' \in Bars /\ (bar'.index > 0 => bar'.count > 0) /\ bar'.open \in {bar.open, TRUE}
  /\ calls' \in [Threads -> Calls] /\ calls'["engine"] = calls["engine"]
  /\ calls'["frame"] \notin KeyCalls /\ (calls'["frame"] \in KiraCalls => calls'["frame"] = Close("frame"))

\* The frame is at nothing, and begins c.
LEMMA FrameTurns ==
  ASSUME IInv, calls["frame"] = Idle, NEW c \in Calls, c \notin KeyCalls, c \in KiraCalls => c = Close("frame"), Goes("frame", c)
  PROVE  /\ calls' \in [Threads -> Calls] /\ calls'["engine"] = calls["engine"] /\ calls'["frame"] = c
         /\ \A th \in Threads : th # "frame" => th = "engine"
BY DEF IInv, FindType, Goes, Threads

\* A search begins: what it finds of the page is what it was when the query was stored.
LEMMA SearchTaken ==
  ASSUME IInv, calls["frame"] = Idle, NEW text \in Queries, NEW direction \in Steps, SearchTakes(text, direction),
         UNCHANGED <<open, known, finding, marked, shown, work>>
  PROVE  BarGoes /\ calls'["frame"] \notin KiraCalls /\ bar'.open = bar.open
<1>1. /\ bar' = [bar EXCEPT !.query = text] /\ bar \in Bars
      /\ (shown \in Tabs \/ shown = NoTab) /\ NoTab \notin Tabs /\ open \subseteq Tabs
  BY Windows DEF SearchTakes, IInv, FindType, TabsOK
<1>2. /\ bar' \in Bars /\ bar'.open = bar.open /\ bar'.count = bar.count /\ bar'.index = bar.index /\ bar'.searched = bar.searched
      /\ bar'.query = text /\ bar'.repeat = bar.repeat /\ bar'.direction = bar.direction
  BY <1>1 DEF Bars
<1>3. (bar'.index > 0 => bar'.count > 0) /\ (bar'.open \in {bar.open, TRUE})
  BY <1>2 DEF IInv, FindType
<1>4. SweepOK' /\ (Unanswered <=> Unanswered') /\ (Hidden <=> Hidden') /\ (Empty <=> Empty')
  BY <1>2, SweepKept DEF Unanswered, Finds, Hidden, Hides, Empty
<1>5. ~Asking /\ ~Clearing("frame")
  BY DEF Asking, Clearing, Idle
<1>6. CASE text = NoText
  <2> DEFINE c == [step |-> "reset", then |-> "search"]
  <2>1. Goes("frame", c) /\ muddled' = (muddled \/ Unanswered)
    BY <1>6 DEF SearchTakes
  <2>2. c \in Calls /\ c \notin KeyCalls /\ c \notin KiraCalls /\ c.step = "reset"
    BY DEF Calls, EndCalls, KeyCalls, KiraCalls
  <2> HIDE DEF c
  <2>3. /\ calls' \in [Threads -> Calls] /\ calls'["engine"] = calls["engine"] /\ calls'["frame"] = c
        /\ \A th \in Threads : th # "frame" => th = "engine"
    BY <2>1, <2>2, FrameTurns
  <2>4. CountOK'
    <3> SUFFICES ASSUME ~muddled' PROVE EndsOK' /\ AskOK' /\ (Quiet' => SearchOK')
      BY DEF CountOK
    <3>1. EndsOK /\ ~Unanswered'
      BY <1>4, <2>1 DEF IInv, CountOK
    <3>2. ~Asking' /\ Clearing("frame")' /\ ~Searching' /\ (Clearing("engine")' <=> Clearing("engine"))
      BY <1>2, <1>6, <2>2, <2>3 DEF Asking, Clearing, Searching
    <3>3. ASSUME NEW th \in Threads, Clearing(th)', calls'[th].step = "hide" PROVE Empty'
      <4>1. th = "engine"
        BY <2>2, <2>3, <3>3
      <4> QED BY <1>4, <2>3, <3>1, <3>2, <3>3, <4>1 DEF EndsOK
    <3>4. EndsOK'
      BY <3>1, <3>2, <3>3 DEF EndsOK
    <3> QED BY <3>2, <3>4 DEF AskOK, Quiet, Threads
  <2> QED BY <1>2, <1>3, <1>4, <2>2, <2>3, <2>4 DEF BarGoes
<1>7. CASE text # NoText
  <2> DEFINE again == RepeatOf(text)
             c == [step |-> "aim", text |-> text, direction |-> direction, again |-> again]
  <2>1. Goes("frame", c)
    BY <1>7 DEF SearchTakes
  <2>2. muddled' = (Unanswered \/ Clearing("engine") \/ IF text = bar.query THEN muddled ELSE GoesOn(text) \/ direction = -1)
    BY <1>7 DEF SearchTakes
  <2>3. again \in BOOLEAN /\ (again <=> text = bar.query)
    BY DEF RepeatOf
  <2> HIDE DEF again
  <2>4. c \in AskCalls /\ c.step = "aim" /\ c.text = text /\ c.direction = direction /\ c.again = again
    BY <1>7, <2>3 DEF AskCalls, Queries
  <2>5. c \in Calls /\ c \notin KeyCalls /\ c \notin KiraCalls
    BY <2>4 DEF Calls, KeyCalls, KiraCalls, CloseSteps, AskCalls
  <2> HIDE DEF c
  <2>6. /\ calls' \in [Threads -> Calls] /\ calls'["engine"] = calls["engine"] /\ calls'["frame"] = c
        /\ \A th \in Threads : th # "frame" => th = "engine"
    BY <2>1, <2>5, FrameTurns
  <2>7. CountOK'
    <3> SUFFICES ASSUME ~muddled' PROVE EndsOK' /\ AskOK' /\ (Quiet' => SearchOK')
      BY DEF CountOK
    <3>1. ~Unanswered /\ ~Clearing("engine") /\ (text = bar.query => ~muddled) /\ (text # bar.query => ~GoesOn(text) /\ direction # -1)
      BY <2>2
    <3>2. Asking' /\ \A th \in Threads : ~Clearing(th)'
      BY <2>4, <2>6, <3>1 DEF Asking, Clearing
    <3>3. text # bar.query => direction = 1
      BY <3>1 DEF Steps
    <3>4. ASSUME shown \in open, text = bar.query PROVE Walks'
      <4>1. Quiet /\ Searching /\ SearchOK
        BY <1>5, <1>7, <2>6, <3>1, <3>4 DEF Quiet, Searching, IInv, CountOK, Threads
      <4>2. Agrees /\ HidesBefore
        BY <3>1, <3>4, <4>1 DEF SearchOK
      <4>3. ~Hidden
        <5>1. work \in Seq(Requests) /\ shown \in Tabs /\ finding[shown] \in Seq(Searches)
          BY <1>1, <3>4 DEF IInv, FindType
        <5>2. \A i \in Nat : ~IsHide(work, i) /\ ~IsHide(finding[shown], i)
          <6>1. ~Finds(work)
            BY <3>1 DEF Unanswered
          <6> QED BY <3>1, <4>2, <5>1, <6>1, NoSearches DEF HidesBefore
        <5>3. ~Hides(work, shown) /\ ~Hides(finding[shown], shown)
          BY <5>1, <5>2, Positions
        <5> QED BY <5>3 DEF Hidden
      <4> QED BY <1>2, <1>4, <3>4, <4>2, <4>3 DEF Walks, Agrees
    <3>5. ASSUME shown \in open, text # bar.query PROVE Begins'
      <4>1. marked[shown].text # text \/ Hidden
        BY <1>1, <3>1, <3>5 DEF GoesOn, Hidden
      <4> QED BY <1>2, <1>4, <4>1 DEF Begins
    <3>6. AskOK'
      BY <1>2, <1>4, <2>3, <2>4, <2>6, <3>1, <3>3, <3>4, <3>5 DEF AskOK
    <3> QED BY <3>2, <3>6 DEF EndsOK, Quiet
  <2> QED BY <1>2, <1>3, <1>4, <2>5, <2>6, <2>7 DEF BarGoes
<1> QED BY <1>6, <1>7

LEMMA LetBe ==
  ASSUME IInv, calls["frame"] = Idle, UNCHANGED <<work, muddled, open, known, finding, marked, shown, calls>>,
         bar' = bar \/ bar' = Opened(bar)
  PROVE  BarGoes /\ calls'["frame"] \notin KiraCalls
<1>1. bar' \in Bars /\ (bar'.index > 0 => bar'.count > 0) /\ bar'.open \in {bar.open, TRUE}
  BY DEF IInv, FindType, Opened, Bars
<1>2. calls \in [Threads -> Calls] /\ Idle \notin KeyCalls /\ Idle \notin KiraCalls
  BY DEF IInv, FindType, Idle, KeyCalls, KiraCalls, CloseSteps
<1> QED BY <1>1, <1>2, SweepKept, CountKept DEF BarGoes

LEMMA Closes ==
  ASSUME IInv, calls["frame"] = Idle, CloseBar, UNCHANGED <<open, known, finding, marked, shown, work>>
  PROVE  BarGoes /\ calls'["frame"] = Close("frame")
<1> DEFINE c == Close("frame")
<1>1. c \in Calls /\ c \in KiraCalls /\ c \notin KeyCalls /\ c.step = "exchange"
  BY DEF Close, Calls, KeyCalls, KiraCalls, CloseSteps
<1>2. Goes("frame", c) /\ bar' = bar /\ muddled' = muddled
  BY DEF CloseBar
<1> HIDE DEF c
<1>3. /\ calls' \in [Threads -> Calls] /\ calls'["engine"] = calls["engine"] /\ calls'["frame"] = c
      /\ \A th \in Threads : th # "frame" => th = "engine"
  BY <1>1, <1>2, FrameTurns DEF c
<1>4. \A th \in Threads : \/ calls'[th] = calls[th]
                          \/ {calls[th].step, calls'[th].step} \subseteq {"idle", "exchange", "leave"}
  BY <1>1, <1>3 DEF Idle
<1>5. SweepOK' /\ CountOK'
  BY <1>2, <1>4, SweepKept, CallsBeside
<1>6. bar' \in Bars /\ (bar'.index > 0 => bar'.count > 0)
  BY <1>2 DEF IInv, FindType
<1> QED BY <1>1, <1>2, <1>3, <1>5, <1>6 DEF BarGoes, c

LEMMA BarAndField ==
  ASSUME IInv, BarGoes, field' \in Queries, UNCHANGED <<open, finding, marked, work>>
  PROVE  FindType'
BY DEF IInv, FindType, BarGoes

LEMMA KeyEscapeStep == ASSUME IInv, KeyEscape PROVE IInv'
<1>1. /\ KeyComes("find")
      /\ UNCHANGED <<registry, foreground, known, shown, owner, pressed, bar, field, finding, marked, zoomer, disk, work, at, muddled, missed>>
  BY DEF KeyEscape
<1>2. acts' \in [Kinds -> Nat]
  BY <1>1, ActTyped DEF KeyComes, Kinds
<1>3. LevelsOK' /\ SweepOK'
  BY <1>1, LevelsKept, SweepKept DEF zoomer, disk, registry
<1>4. CASE /\ Routing /\ Queued([kind |-> "cancel", target |-> target]) /\ ToContent("none")
           /\ last' = (IF target = "find" THEN "closed" ELSE "other")
           /\ UNCHANGED calls
  <2> DEFINE e == [kind |-> "cancel", target |-> target]
  <2>1. e \in Events /\ e.kind = "cancel" /\ e.target = target
    BY <1>4 DEF Routing, Events, IInv, TabsOK
  <2> HIDE DEF e
  <2>2. Queued(e)
    BY <1>4 DEF e
  <2>3. events' \in Seq(Events)
    BY <2>1, <2>2, EventQueued
  <2>4. FocusGoes
    BY <1>4, GoesToContent
  <2>5. TabsOK' /\ FieldOK'
    BY <1>1, <1>2, <2>3, <2>4, KeyboardMoves
  <2>6. ChordOK'
    <3>1. CASE target = "find"
      BY <1>4, <2>1, <2>2, <3>1, ChordAsked
    <3>2. CASE target # "find"
      BY <1>4, <3>2, ChordForgotten
    <3> QED BY <3>1, <3>2
  <2>7. FindType' /\ CountOK'
    BY <1>1, <1>4, FindKept, CountKept DEF registry, IInv, FindType
  <2> QED BY <1>3, <2>5, <2>6, <2>7 DEF IInv
<1>5. CASE /\ ~Routing /\ bar.open /\ Goes(KeyThread, Close("key"))
           /\ UNCHANGED <<focus, target, bounced, events, last>>
  <2> DEFINE th == KeyThread
             c == Close("key")
  <2>1. th \in Threads /\ calls[th] = Idle
    BY <1>1 DEF KeyComes, KeyThread, Pumps, Threads
  <2>2. c \in Calls /\ c \in KeyCalls /\ c.step = "exchange"
    BY DEF Close, Calls, KeyCalls, CloseSteps
  <2>3. Goes(th, c)
    BY <1>5
  <2> HIDE DEF th, c
  <2>4. /\ calls' \in [Threads -> Calls] /\ calls'["engine"] \in {Idle} \cup KeyCalls
        /\ calls'[th] = c /\ \A o \in Threads : o # th => calls'[o] = calls[o]
    BY <2>1, <2>2, <2>3, CallStep
  <2>5. \A o \in Threads : \/ calls'[o] = calls[o]
                           \/ {calls[o].step, calls'[o].step} \subseteq {"idle", "exchange", "leave"}
    BY <2>1, <2>2, <2>4 DEF Idle
  <2>6. CountOK'
    BY <1>1, <2>5, CallsBeside DEF registry
  <2>7. FindType'
    BY <1>1, <2>4 DEF IInv, FindType, registry
  <2>8. KeyCloses'
    BY <2>1, <2>2, <2>4 DEF KeyCloses
  <2>9. ChordOK'
    BY <1>5, <2>8 DEF IInv, ChordOK
  <2>10. FocusGoes
    BY <1>5 DEF FocusGoes, IInv, TabsOK, FieldOK
  <2>11. TabsOK' /\ FieldOK'
    BY <1>1, <1>2, <1>5, <2>10, KeyboardMoves DEF IInv, TabsOK
  <2> QED BY <1>3, <2>6, <2>7, <2>9, <2>11 DEF IInv
<1> QED BY <1>4, <1>5 DEF KeyEscape

LEMMA EventParts ==
  ASSUME NEW e \in Events
  PROVE  /\ e.kind \in {"address", "open find", "close find", "submit", "cancel", "walk", "text"}
         /\ e.kind = "cancel" => e.target \in Fields
         /\ e.kind = "walk" => e.direction \in Steps
         /\ e.kind = "text" => e.text \in Queries
BY DEF Events

\* The keyboard stays where it is.
LEMMA KeyboardStays ==
  ASSUME IInv, UNCHANGED <<focus, target, bounced>>
  PROVE  FocusGoes
BY DEF FocusGoes, IInv, TabsOK, FieldOK

\* What an event asks for is done when it has been carried out, or when the close it
\* begins has.
LEMMA EventApplied ==
  ASSUME IInv, NEW e \in Events, Applies(e), at.step = "drain", calls["frame"] = Idle,
         UNCHANGED <<open, known, finding, marked, shown, last, pressed, at, work>>
  PROVE  /\ FocusGoes /\ BarGoes /\ field' \in Queries
         /\ last # "other" /\ Asks(e) => IF calls'["frame"] \in KiraCalls THEN last = "closed" /\ calls'["frame"] = Close("frame")
                                          ELSE Done'
<1>1. field \in Queries /\ NoText \in Queries /\ pressed = "none" /\ last \in {"address", "find", "closed", "other"}
  BY DEF IInv, FindType, Queries, FieldOK, ChordOK
<1>2. /\ e.kind \in {"address", "open find", "close find", "submit", "cancel", "walk", "text"}
      /\ (e.kind = "walk" => e.direction \in Steps) /\ (e.kind = "text" => e.text \in Queries)
  BY EventParts
<1>3. ASSUME CloseBar PROVE FocusGoes /\ BarGoes /\ field' \in Queries /\ calls'["frame"] = Close("frame") /\ calls'["frame"] \in KiraCalls
  <2>1. BarGoes /\ calls'["frame"] = Close("frame")
    BY <1>3, Closes DEF CloseBar
  <2>2. Close("frame") \in KiraCalls
    BY DEF Close, KiraCalls, CloseSteps
  <2> QED BY <1>1, <1>3, <2>1, <2>2, KeyboardStays DEF CloseBar
<1>4. CASE e.kind = "address"
  <2>1. ToChrome("address") /\ UNCHANGED <<bar, calls, muddled, field>>
    BY <1>4 DEF Applies, TakesField, KeepsBar
  <2>2. FocusGoes /\ BarGoes /\ calls'["frame"] \notin KiraCalls
    BY <2>1, GoesToChrome, LetBe DEF Fields
  <2>3. last # "other" /\ Asks(e) => last = "address"
    BY <1>1, <1>4 DEF Asks
  <2> QED BY <1>1, <2>1, <2>2, <2>3 DEF Done, ToChrome
<1>5. CASE e.kind = "open find"
  <2>1. ToChrome("find") /\ UNCHANGED <<calls, muddled, field>> /\ bar' = Opened(bar)
    BY <1>5 DEF Applies, TakesField
  <2>2. FocusGoes /\ BarGoes /\ bar'.open /\ calls'["frame"] \notin KiraCalls
    BY <2>1, GoesToChrome, LetBe DEF Fields, Opened, IInv, FindType, Bars
  <2>3. last # "other" /\ Asks(e) => last = "find"
    BY <1>1, <1>5 DEF Asks
  <2> QED BY <1>1, <2>1, <2>2, <2>3 DEF Done, ToChrome
<1>6. CASE e.kind = "close find"
  <2>1. CloseBar
    BY <1>6 DEF Applies
  <2>2. last # "other" /\ Asks(e) => last = "closed"
    BY <1>1, <1>6 DEF Asks
  <2> QED BY <1>3, <2>1, <2>2
<1>7. CASE e.kind = "cancel"
  <2>1. last # "other" /\ Asks(e) => last = "closed" /\ e.target = "find"
    BY <1>1, <1>7 DEF Asks
  <2>2. CASE e.target = "find"
    <3>1. CloseBar
      BY <1>7, <2>2 DEF Applies
    <3> QED BY <1>3, <2>1, <3>1
  <2>3. CASE e.target # "find"
    <3>1. UNCHANGED <<bar, calls, muddled, focus, target, bounced, field>>
      BY <1>7, <2>3 DEF Applies, KeepsBar
    <3> QED BY <1>1, <2>1, <2>3, <3>1, KeyboardStays, LetBe
  <2> QED BY <2>2, <2>3
<1>8. CASE e.kind \in {"submit", "walk", "text"}
  <2>1. ~(last # "other" /\ Asks(e))
    BY <1>1, <1>8 DEF Asks
  <2>2. CASE e.kind = "submit"
    <3>1. ToContent("none") /\ UNCHANGED <<bar, calls, muddled, field>>
      BY <2>2 DEF Applies, KeepsBar
    <3> QED BY <1>1, <2>1, <3>1, GoesToContent, LetBe
  <2>3. CASE e.kind = "walk"
    <3>1. /\ IF field = NoText THEN UNCHANGED <<bar, calls, muddled>> ELSE SearchTakes(field, e.direction)
          /\ UNCHANGED <<focus, target, bounced, field>>
      BY <2>3 DEF Applies, KeepsBar
    <3>2. BarGoes
      BY <1>1, <1>2, <2>3, <3>1, LetBe, SearchTaken
    <3> QED BY <1>1, <2>1, <3>1, <3>2, KeyboardStays
  <2>4. CASE e.kind = "text"
    <3>1. field' = e.text /\ SearchTakes(e.text, 1) /\ UNCHANGED <<focus, target, bounced>>
      BY <2>4 DEF Applies
    <3>2. BarGoes
      BY <1>2, <2>4, <3>1, SearchTaken DEF Steps
    <3> QED BY <1>2, <2>1, <2>4, <3>1, <3>2, KeyboardStays
  <2> QED BY <1>8, <2>2, <2>3, <2>4
<1> QED BY <1>2, <1>4, <1>5, <1>6, <1>7, <1>8

LEMMA DrainsEventStep == ASSUME IInv, DrainsEvent PROVE IInv'
<1> DEFINE e == Head(events)
<1>1. /\ at.step = "drain" /\ calls["frame"] = Idle /\ events # <<>> /\ events' = Tail(events) /\ Applies(e)
      /\ UNCHANGED <<registry, foreground, known, shown, owner, pressed, finding, marked, zoomer, disk, work, at, acts, last, missed>>
  BY DEF DrainsEvent, PopsEvent
<1>2. events \in Seq(Events) /\ e \in Events /\ events' \in Seq(Events)
  <2>1. events \in Seq(Events)
    BY DEF IInv, TabsOK
  <2> QED BY <1>1, <2>1, Taken
<1>3. IF events' = <<>> THEN events[Len(events)] = e ELSE events'[Len(events')] = events[Len(events)]
  BY <1>1, <1>2, LastStays
<1> HIDE DEF e
<1>4. open' = open /\ known' = known /\ finding' = finding /\ marked' = marked /\ shown' = shown /\ last' = last /\ pressed' = pressed /\ at' = at
  BY <1>1 DEF registry
<1>5. /\ FocusGoes /\ BarGoes /\ field' \in Queries
      /\ last # "other" /\ Asks(e) => IF calls'["frame"] \in KiraCalls THEN last = "closed" /\ calls'["frame"] = Close("frame")
                                       ELSE Done'
  BY <1>1, <1>2, <1>4, EventApplied
<1>6. TabsOK' /\ FieldOK'
  BY <1>1, <1>2, <1>5, KeyboardMoves DEF IInv, TabsOK
<1>7. FindType'
  BY <1>1, <1>4, <1>5, BarAndField
<1>8. LevelsOK'
  BY <1>1, LevelsKept DEF zoomer, disk
<1>9. ChordOK'
  <2>1. KeyCloses => KeyCloses'
    <3>1. Idle \notin KeyCalls
      BY DEF Idle, KeyCalls, CloseSteps
    <3> QED BY <1>1, <1>5, <3>1 DEF KeyCloses, BarGoes, Threads
  <2>2. CASE last = "other" \/ KeyCloses
    BY <1>4, <2>1, <2>2 DEF IInv, ChordOK
  <2>3. CASE last # "other" /\ ~KeyCloses /\ events' = <<>>
    <3>1. last \in {"address", "find", "closed", "other"} /\ Asks(e)
      BY <1>1, <1>3, <2>3 DEF IInv, ChordOK
    <3> QED BY <1>4, <1>5, <2>3, <3>1 DEF ChordOK
  <2>4. CASE last # "other" /\ ~KeyCloses /\ events' # <<>>
    <3>1. events'[Len(events')] = events[Len(events)]
      BY <1>3, <2>4
    <3>2. last \in {"address", "find", "closed", "other"} /\ Asks(events[Len(events)])
      BY <1>1, <2>4 DEF IInv, ChordOK
    <3>3. Asks(events[Len(events)])'
      BY <1>4, <2>4, <3>1, <3>2 DEF Asks
    <3> QED BY <1>4, <2>4, <3>2, <3>3 DEF ChordOK
  <2> QED BY <2>2, <2>3, <2>4
<1> QED BY <1>5, <1>6, <1>7, <1>8, <1>9 DEF IInv, BarGoes

-----------------------------------------------------------------------------
(* The invariant.                                                          *)

LEMMA InitInv == Init => IInv
<1> SUFFICES ASSUME Init PROVE IInv
  OBVIOUS
<1>1. /\ open = {First} /\ selected = First /\ url = [t \in Tabs |-> IF t = First THEN StartURL ELSE NoTab]
      /\ focus \in {First, Host} /\ known = {} /\ shown = NoTab /\ target = "none" /\ owner = "chrome" /\ pressed = "none"
      /\ events = <<>> /\ at = Pumping /\ last = "other"
  BY DEF Init
<1>2. /\ bar = [open |-> FALSE, query |-> NoText, count |-> 0, index |-> 0, searched |-> FALSE, repeat |-> FALSE, direction |-> 1]
      /\ field = NoText /\ finding = [t \in Tabs |-> <<>>] /\ marked = [t \in Tabs |-> NoFind] /\ work = <<>>
      /\ calls = [th \in Threads |-> Idle]
  BY DEF Init
<1>3. /\ levels = Loaded(file) /\ zooming = [th \in Threads |-> Idle] /\ dirty = FALSE /\ failed = FALSE
      /\ acts \in [Kinds -> Nat] /\ file \in [Sites -> Nat]
  <2>1. PICK start \in Starts : acts = start.acts /\ file = start.file
    BY DEF Init
  <2>2. start \in [acts : [Kinds -> Nat], file : [Sites -> Nat]]
    BY InputAssumption
  <2> QED BY <2>1, <2>2 DEF Init
<1>4. First \in Tabs /\ StartURL \in URLs /\ NoTab \notin URLs /\ NoTab \notin Tabs /\ Host \notin Tabs
  BY InputAssumption
<1>5. TabsOK
  <2>1. at \in Places /\ at.step = "pump"
    BY <1>1 DEF Pumping, Places
  <2>2. url \in [Tabs -> URLs \cup {NoTab}] /\ url[First] # NoTab
    BY <1>1, <1>4
  <2> QED BY <1>1, <1>3, <1>4, <2>1, <2>2 DEF TabsOK, Fields
<1>6. FindType
  <2>1. bar \in Bars /\ bar.index = 0 /\ field \in Queries
    BY <1>2 DEF Bars, Queries, Steps
  <2>2. NoFind \in [text : Queries, place : Nat] /\ NoFind.text = NoText /\ NoFind.place = 0
    BY DEF NoFind, Queries
  <2>3. /\ work \in Seq(Requests) /\ finding \in [Tabs -> Seq(Searches)] /\ marked \in [Tabs -> [text : Queries, place : Nat]]
        /\ \A t \in Tabs : finding[t] = <<>> /\ marked[t] = NoFind
    BY <1>2, <2>2
  <2>4. \A t \in Tabs : \A i \in 1..Len(finding[t]) : FALSE
    BY <2>3
  <2>5. calls \in [Threads -> Calls] /\ calls["engine"] \in {Idle} \cup KeyCalls
    BY <1>2 DEF Calls, Threads
  <2> QED BY <2>1, <2>2, <2>3, <2>4, <2>5 DEF FindType
<1>7. LevelsOK
  <2>1. Idle \in Changes /\ levels \in [Sites -> Percents]
    BY <1>3, LoadedIsLevels DEF Idle, Changes
  <2> QED BY <1>1, <1>3, <2>1 DEF LevelsOK, Pumping
<1>8. FieldOK /\ ChordOK
  BY <1>1 DEF FieldOK, ChordOK, Pumping
<1>9. ~Finds(work) /\ \A t \in Tabs : ~Finds(finding[t])
  BY <1>2 DEF Finds
<1>10. SweepOK
  <2>1. \A i \in 1..Len(work) : FALSE
    BY <1>2
  <2> QED BY <1>1, <1>9, <2>1 DEF SweepOK
<1>11. CountOK
  <2>1. ~Asking /\ \A th \in Threads : ~Clearing(th)
    BY <1>2 DEF Asking, Clearing, Idle, Threads
  <2>2. SearchOK
    BY <1>2, <1>9 DEF SearchOK, Searching, Unanswered, Empty
  <2> QED BY <2>1, <2>2 DEF CountOK, EndsOK, AskOK
<1> QED BY <1>5, <1>6, <1>7, <1>8, <1>10, <1>11 DEF IInv

LEMMA StutterStep == ASSUME IInv, UNCHANGED vars PROVE IInv'
<1>1. UNCHANGED <<registry, foreground, keyboard, events, finder, zoomer, disk, work, at, acts, history>>
  BY DEF vars
<1>2. TabsOK' /\ FieldOK' /\ ChordOK' /\ LevelsOK'
  BY <1>1, TabsKept, FieldKept, ChordKept, LevelsKept DEF keyboard, finder, zoomer, disk, history, IInv, TabsOK
<1>3. FindType' /\ SweepOK' /\ CountOK'
  BY <1>1, FinderKept DEF registry, keyboard, history
<1> QED BY <1>2, <1>3 DEF IInv

LEMMA FrameKeepsInv == ASSUME IInv, FrameStep PROVE IInv'
BY FrameBeginsStep, FocusMovesStep, FocusSettlesStep, ZoomLooksStep, ScanPostsStep, ScanReadsStep, SaveTakesStep,
   SaveEndsStep, SyncsTargetStep, DrainsEventStep, FrameEndsStep, FindGoesOnStep, FindAimsStep, FindAsksStep,
   ZoomStoresStep, ZoomPostsStep DEF FrameStep, Threads

LEMMA EngineKeepsInv == ASSUME IInv, EngineStep PROVE IInv'
BY WebKitWorksStep, FindGoesOnStep, ZoomStoresStep, ZoomPostsStep DEF EngineStep, Threads

LEMMA PersonKeepsInv == ASSUME IInv, PersonStep PROVE IInv'
<1>1. CASE ControlChord
  <2>1. \A d \in {-1, 1} : [kind |-> "walk", direction |-> d] \in Edits
    BY DEF Edits, Steps
  <2> QED BY <1>1, <2>1, KeyAddressStep, KeyFindStep, KeyEditsStep, ZoomReadsStep DEF ControlChord
<1>2. CASE KeyEscape
  BY <1>2, KeyEscapeStep
<1>3. CASE \E d \in {-1, 1} : KeyCycle(d)
  BY <1>3, KeyCycleStep DEF Steps
<1>4. CASE \E x \in Texts \cup {NoText} : KeyEdits([kind |-> "text", text |-> x])
  <2>1. PICK x \in Texts \cup {NoText} : KeyEdits([kind |-> "text", text |-> x])
    BY <1>4
  <2>2. [kind |-> "text", text |-> x] \in Edits
    BY DEF Edits, Queries
  <2> QED BY <2>1, <2>2, KeyEditsStep
<1>5. CASE KeyEdits([kind |-> "submit"])
  <2>1. [kind |-> "submit"] \in Edits
    BY DEF Edits
  <2> QED BY <1>5, <2>1, KeyEditsStep
<1>6. CASE (\E r \in Fields \cup {"elsewhere"} : Press(r)) \/ PressPage \/ Activation
  BY <1>6, PressStep, PressPageStep, ActivationStep
<1> QED BY <1>1, <1>2, <1>3, <1>4, <1>5, <1>6 DEF PersonStep

LEMMA PageKeepsInv == ASSUME IInv, PageStep PROVE IInv'
BY PageMovesFocusStep, PageAnswersStep, TabOpensStep, TabClosesStep, TabSelectedStep, TabCommitsStep DEF PageStep

LEMMA NextInv == IInv /\ [Next]_vars => IInv'
BY FrameKeepsInv, EngineKeepsInv, PersonKeepsInv, PageKeepsInv, ShutdownStep, StutterStep DEF Next

LEMMA AlwaysIInv == Spec => []IInv
BY InitInv, NextInv, PTL DEF Spec

-----------------------------------------------------------------------------
(* What the code promises.                                                  *)

\* The keyboard, the fields and the levels keep to their kinds, and the file has the
\* levels whenever nothing of them is waiting to be written, whichever thread set them
\* and however the last write ended (zoom.cpp:316-352).
THEOREM InputIsConsistent == Spec => []InputConsistent
<1>1. IInv => TypeOK
  <2> SUFFICES ASSUME IInv PROVE TypeOK
    OBVIOUS
  <2>1. bar.count \in Nat /\ bar.index \in Nat
    BY DEF IInv, FindType, Bars
  <2>2. \A s \in Sites : Clamped(levels[s]) = levels[s]
    BY DEF IInv, LevelsOK, Percents
  <2> QED BY <2>1, <2>2 DEF IInv, TabsOK, TypeOK
<1>2. IInv => FileHasLevels
  BY DEF IInv, LevelsOK, FileHasLevels
<1> QED BY <1>1, <1>2, AlwaysIInv, PTL DEF InputConsistent

\* Once the frame has carried out what was asked, the last chord has had its way over
\* every press before it, and no field has the keys of the page (InputFrame.kira:16,
\* focus.cpp:182).
THEOREM KeysAreWhereAsked == Spec => []KeysGoWhereAsked
<1>1. IInv => ChordHasLastWord
  <2> SUFFICES ASSUME IInv, AtRest, last # "other" PROVE ChordHasLastWord
    BY DEF ChordHasLastWord
  <2>1. calls["frame"] = Idle /\ ~KeyCloses /\ calls["frame"] # Close("frame")
    BY DEF AtRest, KeyCloses, Threads, Idle, KeyCalls, CloseSteps, Close
  <2>2. Done
    BY <2>1 DEF IInv, ChordOK, AtRest
  <2> QED BY <2>2 DEF Done, ChordHasLastWord
<1>2. IInv => PageHasItsKeys
  BY DEF IInv, TabsOK, FieldOK, PageHasItsKeys, AtRest, Content
<1> QED BY <1>1, <1>2, AlwaysIInv, PTL DEF KeysGoWhereAsked

\* The bar says how many matches the page in front has, and which of them it shows,
\* through both queues and whatever was asked of other pages, once no thread is at a
\* search or a close: each of them is several stores, and a close runs on either thread
\* (find.cpp:11, :141-180).
THEOREM TheCountIsExact == Spec => []CountIsExact
<1>1. IInv => CountIsExact
  <2> SUFFICES ASSUME IInv, ~Unanswered, ~muddled, shown \in known, \A th \in Threads : calls[th] = Idle
               PROVE  IF ~Searching THEN bar.count = 0 /\ bar.index = 0 /\ ~bar.searched
                      ELSE /\ bar.searched /\ bar.count = MatchesOf[bar.query]
                           /\ bar.index = marked[shown].place
    BY DEF CountIsExact
  <2>1. shown \in open
    BY Windows
  <2>2. Quiet
    BY DEF Quiet, Asking, Clearing, Idle, Threads
  <2> QED BY <2>1, <2>2 DEF IInv, CountOK, SearchOK, Agrees, Empty
<1> QED BY <1>1, AlwaysIInv, PTL
=============================================================================
