------------------------------ MODULE Handoff ------------------------------
(***************************************************************************)
(* What the command queue promises the threads that post to the WebKit      *)
(* thread.  Work is accepted in the order it will run in, or refused; what  *)
(* is accepted is run or cancelled, once; and nothing is accepted behind    *)
(* the Shutdown that ends the thread.  CommandQueue implements this.        *)
(***************************************************************************)
EXTENDS Integers, SequencesExt

CONSTANTS
  Work,      \* the invokes that may be posted, each once
  Shutdown   \* the command that ends the thread, which is not in Work

VARIABLES queue, fate

handoffVars == <<queue, fate>>

Fates == {"new", "waiting", "run", "cancelled"}

Init == queue = <<>> /\ fate = [w \in Work |-> "new"]

Accept(w) ==
  /\ fate[w] = "new"
  /\ Shutdown \notin Range(queue)
  /\ queue' = Append(queue, w)
  /\ fate' = [fate EXCEPT ![w] = "waiting"]

\* The payload of a refused invoke is cancelled there and then.
Refuse(w) ==
  /\ fate[w] = "new"
  /\ fate' = [fate EXCEPT ![w] = "cancelled"]
  /\ UNCHANGED queue

AskShutdown ==
  /\ Shutdown \notin Range(queue)
  /\ queue' = Append(queue, Shutdown)
  /\ UNCHANGED fate

RunNext ==
  /\ queue # <<>>
  /\ queue' = Tail(queue)
  /\ fate' = [w \in Work |-> IF w = Head(queue) THEN "run" ELSE fate[w]]

CancelAll ==
  /\ queue' = <<>>
  /\ fate' = [w \in Work |-> IF w \in Range(queue) THEN "cancelled" ELSE fate[w]]

Next ==
  \/ \E w \in Work : Accept(w) \/ Refuse(w)
  \/ AskShutdown \/ RunNext \/ CancelAll

Spec == Init /\ [][Next]_handoffVars
=============================================================================
