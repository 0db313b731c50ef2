----------------------------- MODULE Questions -----------------------------
(***************************************************************************)
(* What a bridge between a page that asks and a person who answers promises: *)
(* every question is answered once, and the answer is yes only if somebody  *)
(* has agreed to that very question.  Permissions and Dialogs implement it.  *)
(***************************************************************************)
CONSTANT Asked   \* the questions pages may ask, each once

VARIABLES
  fate,    \* what has become of each question
  agreed   \* the questions somebody has agreed to

questionVars == <<fate, agreed>>

Fates == {"new", "open", "allowed", "denied"}

Init == fate = [q \in Asked |-> "new"] /\ agreed = {}

\* A question may be agreed to already, and be answered as it is asked.
Ask(q) ==
  /\ fate[q] = "new"
  /\ agreed' \in {agreed, agreed \cup {q}}
  /\ \E f \in Fates \ {"new"} :
       /\ f = "allowed" => q \in agreed'
       /\ fate' = [fate EXCEPT ![q] = f]

Agree(q) ==
  /\ fate[q] = "open"
  /\ agreed' = agreed \cup {q}
  /\ UNCHANGED fate

\* Any number of open questions are answered together.
Answer(yes, no) ==
  /\ yes \subseteq agreed
  /\ \A q \in yes \cup no : fate[q] = "open"
  /\ fate' = [q \in Asked |-> IF q \in yes THEN "allowed" ELSE IF q \in no THEN "denied" ELSE fate[q]]
  /\ UNCHANGED agreed

Next ==
  \/ \E q \in Asked : Ask(q) \/ Agree(q)
  \/ \E yes, no \in SUBSET Asked : Answer(yes, no)

Spec == Init /\ [][Next]_questionVars
=============================================================================
