------------------------- MODULE ReinforcementQueue -------------------------
(***************************************************************************)
(* The deferred queue of salience reinforcements of one fabric             *)
(* (src/src/zaxy/core/reinforcement_queue.py): a checkout enqueues a spec  *)
(* and returns; the spec is appended to the session log by a drain task,   *)
(* by a flush, or by the hook that runs when the interpreter exits.        *)
(*                                                                         *)
(* The coroutines of one event loop interleave only where they await, so   *)
(* an action is what runs between two awaits.                              *)
(***************************************************************************)
EXTENDS Integers, Sequences

CONSTANTS Item,          \* reinforcement specs, each enqueued at most once
          Flusher,       \* coroutines that call flush (a checkout, close)
          Task,          \* the drain task of the queue
          NoSpec,        \* nothing is being appended
          MaxFailures    \* bound: appends that fail

ASSUME ReinforcementAssumption ==
  /\ Task \notin Flusher
  /\ NoSpec \notin Item
  /\ MaxFailures \in Nat

VARIABLES
  pending,     \* _pending: specs enqueued and not popped
  registered,  \* the queue is in _PENDING_QUEUES
  pc,          \* pc[d]: where the drain of coroutine d is
  writing,     \* writing[d]: spec that d is appending, or NoSpec
  process,     \* "running", "stopping" (the loop is gone), "exited" or "failed"
  enqueued,    \* specs enqueued so far, in order (history)
  log,         \* specs in the session log, in order
  failures,    \* number of appends that failed
  cancelled,   \* specs whose append was cancelled with the loop (history)
  overlapped   \* a drain began an append while another had one in hand (history)

vars == <<pending, registered, pc, writing, process, enqueued, log, failures, cancelled, overlapped>>
-----------------------------------------------------------------------------
Drainer == Flusher \cup {Task}

Init ==
  /\ pending = <<>>
  /\ registered = FALSE
  /\ pc = [d \in Drainer |-> "done"]
  /\ writing = [d \in Drainer |-> NoSpec]
  /\ process = "running"
  /\ enqueued = <<>>
  /\ log = <<>>
  /\ failures = 0
  /\ cancelled = {}
  /\ overlapped = FALSE

(* Mutation of Enqueue: the queue is registered only when it is empty and  *)
(* a drain task is scheduled.                                              *)
Enqueue_RegistersWithTask(s, loop) ==
  /\ process = "running"
  /\ s \notin {enqueued[i] : i \in DOMAIN enqueued}
  /\ enqueued' = Append(enqueued, s)
  /\ pending' = Append(pending, s)
  /\ registered' = (registered \/ loop)
  /\ pc' = IF loop /\ pc[Task] = "done" THEN [pc EXCEPT ![Task] = "ready"] ELSE pc
  /\ UNCHANGED <<writing, process, log, failures, cancelled, overlapped>>

(* A checkout enqueues s.  The drain task is scheduled unless one is       *)
(* running, or the caller has no event loop.                               *)
Enqueue(s, loop) ==
  /\ process = "running"
  /\ s \notin {enqueued[i] : i \in DOMAIN enqueued}
  /\ enqueued' = Append(enqueued, s)
  /\ pending' = Append(pending, s)
  /\ registered' = TRUE
  /\ pc' = IF loop /\ pc[Task] = "done" THEN [pc EXCEPT ![Task] = "ready"] ELSE pc
  /\ UNCHANGED <<writing, process, log, failures, cancelled, overlapped>>

(* Mutation of Finished: the flushes that await the task are not resumed. *)
Finished_NoWake(d) == [pc EXCEPT ![d] = "done"]

(* The drain of d ends.  What awaited the drain task can go on. *)
Finished(d) ==
  [e \in Drainer |-> IF e = d THEN "done"
                     ELSE IF d = Task /\ pc[e] = "waiting" THEN "woken" ELSE pc[e]]

(* The head of the loop of _drain, for a queue that holds q: start the     *)
(* append of the first spec and await it, or leave the registry.           *)
Drain(d, q) ==
  IF q = <<>>
    THEN /\ pc' = Finished(d)
         /\ writing' = [writing EXCEPT ![d] = NoSpec]
         /\ registered' = FALSE
         /\ UNCHANGED overlapped
    ELSE /\ pc' = [pc EXCEPT ![d] = "appending"]
         /\ writing' = [writing EXCEPT ![d] = Head(q)]
         /\ overlapped' = (overlapped \/ \E e \in Drainer \ {d} : writing[e] # NoSpec)
         /\ UNCHANGED registered

(* The drain task gets its first turn: the loop is first in, first out, so *)
(* the coroutines that the task before it has woken ran already.           *)
StartTask ==
  /\ process = "running"
  /\ pc[Task] = "ready"
  /\ \A f \in Flusher : pc[f] # "woken"
  /\ Drain(Task, pending)
  /\ UNCHANGED <<pending, process, enqueued, log, failures, cancelled>>

(* flush is called: it awaits the drain task if there is one, and drains   *)
(* the queue itself otherwise.                                             *)
Flush(f) ==
  /\ process = "running"
  /\ pc[f] = "done"
  /\ IF pc[Task] = "done"
       THEN Drain(f, pending)
       ELSE /\ pc' = [pc EXCEPT ![f] = "waiting"]
            /\ UNCHANGED <<writing, registered, overlapped>>
  /\ UNCHANGED <<pending, process, enqueued, log, failures, cancelled>>

(* The flush goes on after the task, and drains what is pending by now. *)
Wake(f) ==
  /\ process = "running"
  /\ pc[f] = "woken"
  /\ Drain(f, pending)
  /\ UNCHANGED <<pending, process, enqueued, log, failures, cancelled>>

(* The append of d is sealed in the log; its projection is still awaited.  *)
Land(d) ==
  /\ process = "running"
  /\ pc[d] = "appending"
  /\ log' = Append(log, writing[d])
  /\ pc' = [pc EXCEPT ![d] = "landed"]
  /\ UNCHANGED <<pending, registered, writing, process, enqueued, failures, cancelled, overlapped>>

(* Mutation of Fail: the drain that gives up still holds its spec. *)
Fail_KeepsSpec(d) ==
  /\ process = "running"
  /\ pc[d] = "appending"
  /\ failures < MaxFailures
  /\ failures' = failures + 1
  /\ pc' = Finished(d)
  /\ UNCHANGED <<pending, registered, writing, process, enqueued, log, cancelled, overlapped>>

(* The append of d raises: the spec stays queued and the drain gives up. *)
Fail(d) ==
  /\ process = "running"
  /\ pc[d] = "appending"
  /\ failures < MaxFailures
  /\ failures' = failures + 1
  /\ pc' = Finished(d)
  /\ writing' = [writing EXCEPT ![d] = NoSpec]
  /\ UNCHANGED <<pending, registered, process, enqueued, log, cancelled, overlapped>>

(* Mutation of Pop: the last spec is popped, not the first. *)
Pop_Last(d) ==
  /\ process = "running"
  /\ pc[d] = "landed"
  /\ pending # <<>>
  /\ pending' = SubSeq(pending, 1, Len(pending) - 1)
  /\ Drain(d, pending')
  /\ UNCHANGED <<process, enqueued, log, failures, cancelled>>

(* The append of d has returned: pop(0), and the next turn of the loop.    *)
(* pop(0) of an empty queue raises, and ends the drain.                    *)
Pop(d) ==
  /\ process = "running"
  /\ pc[d] = "landed"
  /\ IF pending = <<>>
       THEN /\ pc' = Finished(d)
            /\ writing' = [writing EXCEPT ![d] = NoSpec]
            /\ UNCHANGED <<pending, registered, overlapped>>
       ELSE /\ pending' = Tail(pending)
            /\ Drain(d, Tail(pending))
  /\ UNCHANGED <<process, enqueued, log, failures, cancelled>>

(* The event loop ends and cancels its coroutines.  An append whose worker *)
(* thread has the write in hand is left to that thread.                    *)
LoopEnds ==
  /\ process = "running"
  /\ process' = "stopping"
  /\ cancelled' = {writing[d] : d \in Drainer} \ {NoSpec}
  /\ pc' = [d \in Drainer |-> IF pc[d] = "appending" THEN "orphan" ELSE "done"]
  /\ writing' = [d \in Drainer |-> IF pc[d] = "appending" THEN writing[d] ELSE NoSpec]
  /\ UNCHANGED <<pending, registered, enqueued, log, failures, overlapped>>

(* The worker thread of a cancelled append writes, or never started. *)
Orphan(d, writes) ==
  /\ pc[d] = "orphan"
  /\ log' = IF writes THEN Append(log, writing[d]) ELSE log
  /\ pc' = [pc EXCEPT ![d] = "done"]
  /\ writing' = [writing EXCEPT ![d] = NoSpec]
  /\ UNCHANGED <<pending, registered, process, enqueued, failures, cancelled, overlapped>>

(* The interpreter exits when its worker threads have ended. *)
AtExit ==
  /\ process = "stopping"
  /\ \A d \in Drainer : pc[d] = "done"

(* drain_to_log_sync: one spec straight to the log. *)
ExitAppend ==
  /\ AtExit
  /\ registered
  /\ pending # <<>>
  /\ log' = Append(log, Head(pending))
  /\ pending' = Tail(pending)
  /\ UNCHANGED <<registered, pc, writing, process, enqueued, failures, cancelled, overlapped>>

(* The hook has nothing left to do. *)
ExitDone ==
  /\ AtExit
  /\ registered => pending = <<>>
  /\ registered' = FALSE
  /\ process' = "exited"
  /\ UNCHANGED <<pending, pc, writing, enqueued, log, failures, cancelled, overlapped>>

(* The hook cannot write either, and gives up. *)
ExitFail ==
  /\ AtExit
  /\ registered
  /\ pending # <<>>
  /\ failures < MaxFailures
  /\ failures' = failures + 1
  /\ process' = "failed"
  /\ UNCHANGED <<pending, registered, pc, writing, enqueued, log, cancelled, overlapped>>

Next ==
  \/ \E s \in Item, loop \in BOOLEAN : Enqueue(s, loop)
  \/ StartTask
  \/ \E f \in Flusher : Flush(f) \/ Wake(f)
  \/ \E d \in Drainer :
       \/ Land(d)
       \/ Fail(d)
       \/ Pop(d)
       \/ \E writes \in BOOLEAN : Orphan(d, writes)
  \/ LoopEnds
  \/ ExitAppend
  \/ ExitDone
  \/ ExitFail

Spec == Init /\ [][Next]_vars

(* The event loop gives every coroutine its turn, and appends end. *)
FairSpec ==
  /\ Spec
  /\ WF_vars(StartTask)
  /\ \A f \in Flusher : WF_vars(Wake(f))
  /\ \A d \in Drainer :
       /\ WF_vars(Land(d) \/ Fail(d))
       /\ WF_vars(Pop(d))
       /\ WF_vars(\E writes \in BOOLEAN : Orphan(d, writes))
-----------------------------------------------------------------------------
Elements(q) == {q[i] : i \in DOMAIN q}

TypeOK ==
  /\ pending \in Seq(Item)
  /\ registered \in BOOLEAN
  /\ pc \in [Drainer -> {"done", "ready", "waiting", "woken", "appending", "landed", "orphan"}]
  /\ writing \in [Drainer -> Item \cup {NoSpec}]
  /\ process \in {"running", "stopping", "exited", "failed"}
  /\ enqueued \in Seq(Item)
  /\ log \in Seq(Item)
  /\ failures \in 0..MaxFailures
  /\ cancelled \subseteq Item
  /\ overlapped \in BOOLEAN
  /\ \A d \in Drainer :
       writing[d] # NoSpec <=> pc[d] \in {"appending", "landed", "orphan"}

(* A spec that was enqueued is still queued, is being appended, or is in   *)
(* the log: no failure, no cancellation and no exit drops it.  This is     *)
(* what "loss-resistant" and "Pop only after the append landed" say of the *)
(* queue.                                                                  *)
NothingLost ==
  Elements(enqueued) \subseteq
    Elements(pending) \cup Elements(log) \cup {writing[d] : d \in Drainer}

(* A process that exits in order leaves nothing unwritten, whatever failed *)
(* before: the queue is still known to the exit hook.                      *)
LandedByExit == process = "exited" => Elements(enqueued) \subseteq Elements(log)

(* Both, while no two drains ever had an append in hand at once: that      *)
(* overlap is the one thing, among failed appends, retries, the end of the *)
(* loop and the exit hook, that can lose a spec.                           *)
NothingLostAlone == ~ overlapped => NothingLost /\ LandedByExit

(* A spec is appended once, unless the event loop was cancelled between    *)
(* its append and its pop (then the exit hook appends it again) or two     *)
(* drains overlapped.                                                      *)
AppendedOnce ==
  ~ overlapped =>
    \A i, j \in DOMAIN log : i # j /\ log[i] = log[j] => log[i] \in cancelled

(* A retry never lets a later spec overtake an earlier one. *)
AppendsInOrder ==
  ~ overlapped =>
    \A i, j \in DOMAIN enqueued :
      i < j /\ enqueued[j] \in Elements(log) => enqueued[i] \in Elements(log)

(* The specs land in the order of the checkouts that made them, each once. *)
AppendsFaithful == AppendedOnce /\ AppendsInOrder

(* A flush, which a checkout awaits before it reads anything, returns. *)
FlushReturns ==
  \A f \in Flusher : pc[f] = "waiting" ~> pc[f] = "done"
=============================================================================
