---------------------------- MODULE CommandQueue ----------------------------
(***************************************************************************)
(* The command queue of the WebKit thread and the life of that thread, one  *)
(* lock or one read of shared state at a time                               *)
(* (browser/NativeLibs/harmony_tabs_engine.cpp).                            *)
(*                                                                         *)
(* The host starts and stops the WebKit thread; the host, the WebKit thread *)
(* itself, and helper threads (the file picker, the location source) post.  *)
(* An owned invoke carries a payload that has to be consumed by the call or *)
(* cancelled, whatever the shutdown it meets.                               *)
(***************************************************************************)
EXTENDS Integers, SequencesExt

CONSTANTS
  Work,      \* the owned invokes posted, each once
  Shutdown,  \* Command::Kind::Shutdown
  Helpers,   \* the threads that post besides the host and the WebKit thread
  CanFail    \* whether WebKit may fail to load

ASSUME QueueAssumption ==
  /\ Shutdown \notin Work
  /\ Helpers \cap {"host", "worker"} = {}
  /\ CanFail \in BOOLEAN

VARIABLES
  thread,     \* g_thread is not null
  stopping,   \* g_stopping
  requested,  \* g_shutdownRequested
  event,      \* g_commandEvent is not null
  queue,      \* g_commands
  worker,     \* where the WebKit thread is
  host,       \* where the host is in stopWebKitThread
  post,       \* where each thread is in postCommand
  fate        \* what has become of each invoke

vars == <<thread, stopping, requested, event, queue, worker, host, post, fate>>

Threads == {"host", "worker"} \cup Helpers

Workers == {"off", "loading", "draining", "cycling", "leaving"}
Hosts == {"idle", "stopping", "joining", "closing"}
Nothing == Shutdown
Posts == [at : {"idle", "checked", "pushed", "signalling"}, item : Work \cup {Nothing}]
Fates == {"new", "posting", "waiting", "run", "cancelled"}

Idle == [at |-> "idle", item |-> Nothing]

Free(t) == post[t].at = "idle"

-----------------------------------------------------------------------------
(* postCommand.                                                            *)

\* The host posts between two calls, the WebKit thread from inside a command,
\* its own cycle or the teardown of the pages.
MayPost(t) ==
  CASE t = "host" -> host = "idle"
    [] t = "worker" -> worker \in {"draining", "cycling", "leaving"}
    [] OTHER -> TRUE

\* The first look at g_stopping, with no lock.
PostBegins(t, w) ==
  /\ Free(t) /\ MayPost(t) /\ fate[w] = "new"
  /\ IF stopping
     THEN fate' = [fate EXCEPT ![w] = "cancelled"] /\ UNCHANGED post
     ELSE /\ fate' = [fate EXCEPT ![w] = "posting"]
          /\ post' = [post EXCEPT ![t] = [at |-> "checked", item |-> w]]
  /\ UNCHANGED <<thread, stopping, requested, event, queue, worker, host>>

\* Mutant: g_stopping is not looked at again under the lock.
PostPushesUnchecked(t) ==
  /\ post[t].at = "checked"
  /\ queue' = Append(queue, post[t].item)
  /\ fate' = [fate EXCEPT ![post[t].item] = "waiting"]
  /\ post' = [post EXCEPT ![t].at = "pushed"]
  /\ UNCHANGED <<thread, stopping, requested, event, worker, host>>

\* Under g_commandMutex: teardown may have begun while the caller waited for it.
PostPushes(t) ==
  /\ post[t].at = "checked"
  /\ IF stopping
     THEN /\ fate' = [fate EXCEPT ![post[t].item] = "cancelled"]
          /\ post' = [post EXCEPT ![t] = Idle]
          /\ UNCHANGED queue
     ELSE /\ queue' = Append(queue, post[t].item)
          /\ fate' = [fate EXCEPT ![post[t].item] = "waiting"]
          /\ post' = [post EXCEPT ![t].at = "pushed"]
  /\ UNCHANGED <<thread, stopping, requested, event, worker, host>>

\* With the lock gone: g_commandEvent is tested, and signalled after that.
PostTestsEvent(t) ==
  /\ post[t].at = "pushed"
  /\ post' = [post EXCEPT ![t] = IF event THEN [@ EXCEPT !.at = "signalling"] ELSE Idle]
  /\ UNCHANGED <<thread, stopping, requested, event, queue, worker, host, fate>>

PostSignals(t) ==
  /\ post[t].at = "signalling"
  /\ post' = [post EXCEPT ![t] = Idle]
  /\ UNCHANGED <<thread, stopping, requested, event, queue, worker, host, fate>>

PostStep(t) == PostPushes(t) \/ PostTestsEvent(t) \/ PostSignals(t)

-----------------------------------------------------------------------------
(* startWebKitThread and stopWebKitThread, which only the host calls.      *)

HostFree == host = "idle" /\ Free("host")

\* Mutant: the last shutdown's request is still there.
StartKeepingRequest ==
  /\ HostFree /\ ~thread
  /\ event' = TRUE /\ stopping' = FALSE
  /\ \/ thread' = TRUE /\ worker' = "loading"
     \/ UNCHANGED <<thread, worker>>
  /\ UNCHANGED <<requested, queue, host, post, fate>>

\* CreateThread may fail, with everything before it done.
Start ==
  /\ HostFree /\ ~thread
  /\ event' = TRUE /\ requested' = FALSE /\ stopping' = FALSE
  /\ \/ thread' = TRUE /\ worker' = "loading"
     \/ UNCHANGED <<thread, worker>>
  /\ UNCHANGED <<queue, host, post, fate>>

\* Under g_startMutex; without a thread there is nothing more to do.
StopBegins ==
  /\ HostFree
  /\ thread' = FALSE /\ stopping' = TRUE
  /\ host' = IF thread THEN "stopping" ELSE "idle"
  /\ UNCHANGED <<requested, event, queue, worker, post, fate>>

StopPushes ==
  /\ host = "stopping"
  /\ queue' = Append(queue, Shutdown)
  /\ host' = "joining"
  /\ UNCHANGED <<thread, stopping, requested, event, worker, post, fate>>

\* The wait for the thread to end, and then the event is closed.
StopCloses ==
  /\ host = "joining" /\ worker = "off"
  /\ event' = FALSE
  /\ host' = "closing"
  /\ UNCHANGED <<thread, stopping, requested, queue, worker, post, fate>>

\* What is left in the queue is cancelled.
StopCancels ==
  /\ host = "closing"
  /\ queue' = <<>>
  /\ fate' = [w \in Work |-> IF w \in Range(queue) THEN "cancelled" ELSE fate[w]]
  /\ host' = "idle"
  /\ UNCHANGED <<thread, stopping, requested, event, worker, post>>

StopStep == StopPushes \/ StopCloses \/ StopCancels

-----------------------------------------------------------------------------
(* webKitThreadMain.                                                       *)

\* A failure to load ends the thread, and leaves g_thread as it is.
Load ==
  /\ worker = "loading"
  /\ \/ worker' = "draining"
     \/ CanFail /\ worker' = "off"
  /\ UNCHANGED <<thread, stopping, requested, event, queue, host, post, fate>>

\* Mutant: the command that came last is taken first.
TakeLast ==
  /\ worker = "draining" /\ Free("worker") /\ queue # <<>>
  /\ queue' = Front(queue)
  /\ requested' = (requested \/ Last(queue) = Shutdown)
  /\ fate' = [w \in Work |-> IF w = Last(queue) THEN "run" ELSE fate[w]]
  /\ UNCHANGED <<thread, stopping, event, worker, host, post>>

\* drainCommands and runCommand.
Take ==
  /\ worker = "draining" /\ Free("worker") /\ queue # <<>>
  /\ queue' = Tail(queue)
  /\ requested' = (requested \/ Head(queue) = Shutdown)
  /\ fate' = [w \in Work |-> IF w = Head(queue) THEN "run" ELSE fate[w]]
  /\ UNCHANGED <<thread, stopping, event, worker, host, post>>

DrainEnds ==
  /\ worker = "draining" /\ Free("worker") /\ queue = <<>>
  /\ worker' = IF requested THEN "leaving" ELSE "cycling"
  /\ UNCHANGED <<thread, stopping, requested, event, queue, host, post, fate>>

\* The cycle hooks, WebKit's own cycle and the wait, which times out by itself.
CycleEnds ==
  /\ worker = "cycling" /\ Free("worker")
  /\ worker' = "draining"
  /\ UNCHANGED <<thread, stopping, requested, event, queue, host, post, fate>>

\* closeAllTabs and the teardown hooks are behind it.
ThreadReturns ==
  /\ worker = "leaving" /\ Free("worker")
  /\ worker' = "off"
  /\ UNCHANGED <<thread, stopping, requested, event, queue, host, post, fate>>

WorkerStep == Load \/ Take \/ DrainEnds \/ CycleEnds \/ ThreadReturns

-----------------------------------------------------------------------------

Init ==
  /\ thread = FALSE /\ stopping = FALSE /\ requested = FALSE /\ event = FALSE
  /\ queue = <<>> /\ worker = "off" /\ host = "idle"
  /\ post = [t \in Threads |-> Idle]
  /\ fate = [w \in Work |-> "new"]

Next ==
  \/ Start \/ StopBegins \/ StopStep \/ WorkerStep
  \/ \E t \in Threads : PostStep(t) \/ \E w \in Work : PostBegins(t, w)

\* A call that has begun goes on, and the WebKit thread is scheduled.  Nobody has
\* to post, start or stop.
Spec ==
  /\ Init /\ [][Next]_vars
  /\ WF_vars(StopStep) /\ WF_vars(WorkerStep)
  /\ \A t \in Threads : WF_vars(PostStep(t))

-----------------------------------------------------------------------------
(* Properties.                                                             *)

TypeOK ==
  /\ thread \in BOOLEAN /\ stopping \in BOOLEAN /\ requested \in BOOLEAN
  /\ event \in BOOLEAN
  /\ queue \in Seq(Work \cup {Shutdown})
  /\ worker \in Workers
  /\ host \in Hosts
  /\ post \in [Threads -> Posts]
  /\ fate \in [Work -> Fates]

\* No command lands behind Shutdown (engine.cpp:633-635).
NothingBehindShutdown ==
  \A i \in 1..Len(queue) : queue[i] = Shutdown => i = Len(queue)

\* The event is closed only once the thread that waits on it has ended
\* (engine.cpp:645-647).
EventOutlivesWorker == worker # "off" => event

\* An invoke is in the queue exactly while it waits to be run or cancelled, and
\* in the hands of exactly one thread while it is being posted.
WorkIsAccountedFor ==
  \A w \in Work :
    /\ fate[w] = "waiting" <=> \E i \in 1..Len(queue) : queue[i] = w
    /\ fate[w] = "posting" <=> \E t \in Threads : post[t].at = "checked" /\ post[t].item = w

\* Neither the host nor the WebKit thread signals an event that has been closed
\* (engine.cpp:645-647: "Destroying either while WebKit is still running turns a slow
\* shutdown into a race or use-after-close").  A helper thread that posts while the
\* host stops may.
OwnersSignalAnOpenEvent == \A t \in Threads \ Helpers : post[t].at = "signalling" => event

\* Commands, threads and the event fit together whoever posts, starts or stops:
\* the facts above and the type of the state (engine.cpp:568-586, 597-665).
QueueConsistent ==
  /\ TypeOK /\ NothingBehindShutdown /\ EventOutlivesWorker
  /\ WorkIsAccountedFor /\ OwnersSignalAnOpenEvent

\* The queue keeps the promise of Handoff; a posted invoke counts as new until
\* it is in the queue.
Promise == INSTANCE Handoff
  WITH fate <- [w \in Work |-> IF fate[w] = "posting" THEN "new" ELSE fate[w]]

KeepsPromise == Promise!Spec

\* A stop returns, whatever was in the queue.
StopReturns == host # "idle" ~> host = "idle"

\* Once WebKit has loaded, what is queued is run or cancelled (api.cpp:110:
\* "the thread drains whatever arrived while it started").
QueuedWorkSettles ==
  \A w \in Work :
    (worker \notin {"off", "loading"} /\ fate[w] = "waiting") ~> fate[w] \in {"run", "cancelled"}

\* Neither the host nor what it posted waits for ever.
NobodyWaitsForEver == StopReturns /\ QueuedWorkSettles
=============================================================================
