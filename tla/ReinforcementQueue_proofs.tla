----------------------- MODULE ReinforcementQueue_proofs -----------------------
(***************************************************************************)
(* For any specs, flushes and failures: unless two drains have had an      *)
(* append in hand at once, no spec is lost, none is appended twice (but    *)
(* what was cancelled with the loop), and none overtakes another.          *)
(***************************************************************************)
EXTENDS ReinforcementQueue, TLAPS

\* How many specs have been popped: what is pending are the others.
Popped == Len(enqueued) - Len(pending)

\* No spec is enqueued twice.
DistinctInv == \A i, j \in DOMAIN enqueued : enqueued[i] = enqueued[j] => i = j

\* The exit hook knows of a queue that has something to write.
RegisteredInv == pending # <<>> => registered

\* What the end of the loop leaves behind: nothing is cancelled before, nothing but
\* worker threads goes on after, and the process ends when these have.
EndInv ==
  /\ process = "running" => cancelled = {} /\ \A d \in Drainer : pc[d] # "orphan"
  /\ process # "running" => \A d \in Drainer : pc[d] \in {"orphan", "done"}
  /\ process \in {"exited", "failed"} => \A d \in Drainer : pc[d] = "done"
  /\ process = "exited" => pending = <<>>
  /\ \A d \in Drainer : pc[d] = "orphan" => writing[d] \in cancelled

\* The queue is what is left of the specs that were enqueued.
SuffixInv ==
  /\ Len(pending) <= Len(enqueued)
  /\ \A i \in 1..Len(pending) : pending[i] = enqueued[Popped + i]

\* One drain writes, and it writes the head.
WriterInv ==
  /\ \A d \in Drainer : writing[d] # NoSpec => pending # <<>> /\ writing[d] = pending[1]
  /\ \A d, e \in Drainer : writing[d] # NoSpec /\ writing[e] # NoSpec => d = e

\* What is popped is in the log; of the rest the head may be, when its append has
\* landed and its pop is still to come, or was cancelled.
LogInv ==
  /\ \A i \in 1..Popped : enqueued[i] \in Elements(log)
  /\ \A d \in Drainer : pc[d] = "landed" => writing[d] \in Elements(log)
  /\ \A x \in Elements(log) :
       \/ \E i \in 1..Popped : x = enqueued[i]
       \/ /\ pending # <<>> /\ x = pending[1]
          /\ x \in cancelled \/ \E d \in Drainer : pc[d] = "landed"

\* What holds of drains that do not overlap.
AloneInv == SuffixInv /\ WriterInv /\ LogInv /\ AppendedOnce

IInv == TypeOK /\ DistinctInv /\ RegisteredInv /\ EndInv /\ (~ overlapped => AloneInv)
-----------------------------------------------------------------------------
\* Appending to a sequence adds one element at its end.
LEMMA ElementsAppend ==
  ASSUME NEW S, NEW q \in Seq(S), NEW x
  PROVE  /\ Elements(Append(q, x)) = Elements(q) \cup {x}
         /\ Len(Append(q, x)) = Len(q) + 1
         /\ Append(q, x)[Len(q) + 1] = x
         /\ \A i \in 1..Len(q) : Append(q, x)[i] = q[i]
  BY DEF Elements

\* Nothing is enqueued, appended or pending at the start.
LEMMA InitIInv == Init => IInv
  <1> SUFFICES ASSUME Init PROVE IInv
    OBVIOUS
  <1>1. TypeOK
    <2>1. /\ \A d \in Drainer : pc[d] = "done" /\ writing[d] = NoSpec
          /\ pc \in [Drainer -> {"done", "ready", "waiting", "woken", "appending", "landed", "orphan"}]
          /\ writing \in [Drainer -> Item \cup {NoSpec}]
      BY DEF Init
    <2>2. pending \in Seq(Item) /\ enqueued \in Seq(Item) /\ log \in Seq(Item)
      BY DEF Init
    <2>3. registered \in BOOLEAN /\ overlapped \in BOOLEAN
      BY DEF Init
    <2>4. failures \in 0..MaxFailures
      BY ReinforcementAssumption DEF Init
    <2>5. process \in {"running", "stopping", "exited", "failed"} /\ cancelled \subseteq Item
      BY DEF Init
    <2> QED
      BY <2>1, <2>2, <2>3, <2>4, <2>5 DEF TypeOK
  <1>2. DistinctInv /\ RegisteredInv /\ EndInv
    BY DEF Init, DistinctInv, RegisteredInv, EndInv
  <1>3. SuffixInv /\ WriterInv
    BY DEF Init, SuffixInv, WriterInv, Popped
  <1>4. LogInv /\ AppendedOnce
    BY DEF Init, LogInv, AppendedOnce, Popped, Elements
  <1> QED
    BY <1>1, <1>2, <1>3, <1>4 DEF IInv, AloneInv

\* Who awaits the task stays in the loop when the drain of d ends.
LEMMA FinishedType ==
  ASSUME TypeOK, NEW d \in Drainer, pc' = Finished(d)
  PROVE  /\ pc' \in [Drainer -> {"done", "ready", "waiting", "woken", "appending", "landed", "orphan"}]
         /\ pc'[d] = "done"
         /\ \A e \in Drainer \ {d} : \/ pc'[e] = pc[e]
                                     \/ pc[e] = "waiting" /\ pc'[e] = "woken"
  BY DEF TypeOK, Finished

\* What is written stays so while nothing is appended, popped or landed.
LEMMA LogKept ==
  ASSUME LogInv, Popped' = Popped, log' = log, cancelled' = cancelled,
         \A i \in 1..Popped : enqueued'[i] = enqueued[i],
         pending # <<>> => pending' # <<>> /\ pending'[1] = pending[1],
         \A d \in Drainer : pc'[d] = "landed" <=> pc[d] = "landed",
         \A d \in Drainer : pc[d] = "landed" => writing'[d] = writing[d]
  PROVE  LogInv'
  <1>1. Elements(log)' = Elements(log)
    BY DEF Elements
  <1>2. (\A i \in 1..Popped : enqueued[i] \in Elements(log))'
    BY <1>1 DEF LogInv
  <1>3. (\A d \in Drainer : pc[d] = "landed" => writing[d] \in Elements(log))'
    BY <1>1 DEF LogInv
  <1>4. ASSUME NEW x \in Elements(log)
        PROVE  \/ \E i \in 1..Popped : x = enqueued'[i]
               \/ /\ pending' # <<>> /\ x = pending'[1]
                  /\ x \in cancelled \/ \E d \in Drainer : pc'[d] = "landed"
    <2>1. CASE \E i \in 1..Popped : x = enqueued[i]
      BY <2>1
    <2>2. CASE /\ pending # <<>> /\ x = pending[1]
               /\ x \in cancelled \/ \E d \in Drainer : pc[d] = "landed"
      BY <2>2
    <2> QED
      BY <2>1, <2>2 DEF LogInv
  <1> QED
    BY <1>1, <1>2, <1>3, <1>4 DEF LogInv

\* A drain that enters its loop, with nothing in hand, keeps the invariant: it takes
\* the head unless the queue is empty, in which case nobody else has it.
LEMMA DrainKeeps ==
  ASSUME IInv, process = "running", NEW d \in Drainer, writing[d] = NoSpec,
         Drain(d, pending), UNCHANGED <<pending, process, enqueued, log, failures, cancelled>>
  PROVE  IInv'
  <1> USE DEF IInv
  <1>1. CASE pending = <<>>
    <2>1. /\ pc' = Finished(d) /\ writing' = [writing EXCEPT ![d] = NoSpec]
          /\ registered' = FALSE /\ UNCHANGED overlapped
      BY <1>1 DEF Drain
    <2>2. writing' = writing
      BY <2>1 DEF TypeOK
    <2>3. /\ pc' \in [Drainer -> {"done", "ready", "waiting", "woken", "appending", "landed", "orphan"}]
          /\ pc'[d] = "done"
          /\ \A e \in Drainer \ {d} : pc'[e] = pc[e] \/ (pc[e] = "waiting" /\ pc'[e] = "woken")
      BY <2>1, FinishedType
    <2>4. TypeOK'
      BY <2>1, <2>2, <2>3 DEF TypeOK
    <2>5. DistinctInv' /\ RegisteredInv' /\ EndInv'
      BY <1>1, <2>2, <2>3 DEF DistinctInv, RegisteredInv, EndInv
    <2>6. ~ overlapped => (SuffixInv /\ WriterInv /\ AppendedOnce)'
      BY <2>1, <2>2 DEF AloneInv, SuffixInv, WriterInv, AppendedOnce, Popped
    <2>7. pc[d] # "landed"
      BY DEF TypeOK
    <2>8. \A e \in Drainer : pc'[e] = "landed" <=> pc[e] = "landed"
      BY <2>3, <2>7
    <2>9. ~ overlapped => LogInv'
      BY <2>2, <2>8, LogKept DEF AloneInv, Popped
    <2> QED
      BY <2>1, <2>4, <2>5, <2>6, <2>9 DEF AloneInv
  <1>2. CASE pending # <<>>
    <2>1. /\ pc' = [pc EXCEPT ![d] = "appending"]
          /\ writing' = [writing EXCEPT ![d] = Head(pending)]
          /\ overlapped' = (overlapped \/ \E e \in Drainer \ {d} : writing[e] # NoSpec)
          /\ UNCHANGED registered
      BY <1>2 DEF Drain
    <2>2. Head(pending) = pending[1] /\ pending[1] \in Item /\ pending[1] # NoSpec
      BY <1>2, ReinforcementAssumption DEF TypeOK
    <2>3. TypeOK'
      <3>1. overlapped' \in BOOLEAN
        BY <2>1, Zenon
      <3>2. pc[d] \notin {"appending", "landed", "orphan"}
        BY DEF TypeOK
      <3> QED
        BY <2>1, <2>2, <3>1, <3>2 DEF TypeOK
    <2>4. DistinctInv' /\ RegisteredInv' /\ EndInv'
      BY <2>1 DEF TypeOK, DistinctInv, RegisteredInv, EndInv
    <2>5. ~ overlapped' => ~ overlapped /\ \A e \in Drainer \ {d} : writing[e] = NoSpec
      BY <2>1, Zenon
    <2>6. ~ overlapped' => (SuffixInv /\ WriterInv /\ AppendedOnce)'
      <3>1. ~ overlapped' => (SuffixInv /\ AppendedOnce)'
        BY <2>5 DEF AloneInv, SuffixInv, AppendedOnce, Popped
      <3>2. \A e \in Drainer : writing'[e] = IF e = d THEN pending[1] ELSE writing[e]
        BY <2>1, <2>2 DEF TypeOK
      <3>3. ~ overlapped' => \A e \in Drainer : writing'[e] # NoSpec => e = d
        BY <2>5, <3>2
      <3>4. ~ overlapped' => WriterInv'
        BY <1>2, <3>2, <3>3 DEF WriterInv
      <3> QED
        BY <3>1, <3>4
    <2>7. pc[d] # "landed"
      BY DEF TypeOK
    <2>8. \A e \in Drainer : pc'[e] = "landed" <=> pc[e] = "landed"
      BY <2>1, <2>7 DEF TypeOK
    <2>9. \A e \in Drainer : pc[e] = "landed" => writing'[e] = writing[e]
      BY <2>1, <2>7 DEF TypeOK
    <2>10. ~ overlapped' => LogInv'
      BY <2>5, <2>8, <2>9, LogKept DEF AloneInv, Popped
    <2> QED
      BY <2>3, <2>4, <2>6, <2>10 DEF AloneInv
  <1> QED
    BY <1>1, <1>2
-----------------------------------------------------------------------------
\* A new spec goes to the end of what is enqueued and of what is pending.
LEMMA EnqueueKeeps ==
  ASSUME IInv, NEW s \in Item, NEW loop \in BOOLEAN, Enqueue(s, loop)
  PROVE  IInv'
  <1> USE DEF IInv
  <1>1. /\ process = "running" /\ enqueued' = Append(enqueued, s) /\ pending' = Append(pending, s)
        /\ registered' = TRUE
        /\ UNCHANGED <<writing, process, log, failures, cancelled, overlapped>>
    BY DEF Enqueue
  <1>2. pc' = pc \/ (pc[Task] = "done" /\ pc' = [pc EXCEPT ![Task] = "ready"])
    BY DEF Enqueue
  <1>3. /\ Len(enqueued') = Len(enqueued) + 1 /\ Len(pending') = Len(pending) + 1
        /\ enqueued'[Len(enqueued) + 1] = s /\ pending'[Len(pending) + 1] = s
        /\ \A i \in 1..Len(enqueued) : enqueued'[i] = enqueued[i]
        /\ \A i \in 1..Len(pending) : pending'[i] = pending[i]
        /\ enqueued' \in Seq(Item) /\ pending' \in Seq(Item)
        /\ Len(enqueued) \in Nat /\ Len(pending) \in Nat
    BY <1>1 DEF TypeOK
  <1>4. TypeOK'
    BY <1>1, <1>2, <1>3 DEF TypeOK, Drainer
  <1>5. \A i \in DOMAIN enqueued : enqueued[i] # s
    BY DEF Enqueue
  <1>6. DOMAIN enqueued' = 1..(Len(enqueued) + 1) /\ DOMAIN enqueued = 1..Len(enqueued)
    BY <1>1, <1>3 DEF TypeOK
  <1>7. DistinctInv'
    BY <1>3, <1>5, <1>6 DEF DistinctInv
  <1>8. RegisteredInv' /\ EndInv'
    BY <1>1, <1>2 DEF TypeOK, RegisteredInv, EndInv
  <1>9. Popped' = Popped
    BY <1>3 DEF Popped
  <1>10. ASSUME ~ overlapped PROVE AloneInv'
    <2>1. SuffixInv'
      <3>1. Len(pending') <= Len(enqueued')
        BY <1>3, <1>10 DEF AloneInv, SuffixInv
      <3>2. ASSUME NEW i \in 1..Len(pending') PROVE pending'[i] = enqueued'[Popped + i]
        <4>1. CASE i = Len(pending) + 1
          <5>1. Popped + i = Len(enqueued) + 1
            BY <1>3, <4>1 DEF Popped
          <5> QED
            BY <1>3, <4>1, <5>1
        <4>2. CASE i \in 1..Len(pending)
          <5>1. Popped + i \in 1..Len(enqueued)
            BY <1>3, <1>10, <4>2 DEF Popped, AloneInv, SuffixInv
          <5> QED
            BY <1>3, <1>10, <4>2, <5>1 DEF AloneInv, SuffixInv
        <4> QED
          BY <1>3, <4>1, <4>2
      <3> QED
        BY <1>9, <3>1, <3>2 DEF SuffixInv
    <2>2. pending # <<>> => pending' # <<>> /\ pending'[1] = pending[1]
      BY <1>1, <1>3 DEF TypeOK
    <2>3. WriterInv'
      BY <1>1, <1>10, <2>2 DEF AloneInv, WriterInv
    <2>4. \A d \in Drainer : pc'[d] = "landed" <=> pc[d] = "landed"
      BY <1>2 DEF TypeOK
    <2>5. \A i \in 1..Popped : enqueued'[i] = enqueued[i]
      BY <1>3 DEF Popped
    <2>6. LogInv'
      BY <1>1, <1>9, <1>10, <2>2, <2>4, <2>5, LogKept DEF AloneInv
    <2>7. AppendedOnce'
      BY <1>1, <1>10 DEF AloneInv, AppendedOnce
    <2> QED
      BY <2>1, <2>3, <2>6, <2>7 DEF AloneInv
  <1> QED
    BY <1>1, <1>4, <1>7, <1>8, <1>10

\* An append to the log of what is the head, and is not in the log unless it was
\* cancelled: nothing but the log and the drain that has written changes.
LEMMA AppendsOnce ==
  ASSUME TypeOK, AppendedOnce, ~ overlapped, NEW x \in Item, log' = Append(log, x),
         x \in Elements(log) => x \in cancelled,
         UNCHANGED <<cancelled, overlapped>>
  PROVE  AppendedOnce'
  <1>1. /\ DOMAIN log' = 1..(Len(log) + 1) /\ DOMAIN log = 1..Len(log) /\ Len(log) \in Nat
        /\ log'[Len(log) + 1] = x /\ \A i \in 1..Len(log) : log'[i] = log[i]
    BY DEF TypeOK
  <1>2. ASSUME NEW i \in DOMAIN log', NEW j \in DOMAIN log', i # j, log'[i] = log'[j]
        PROVE  log'[i] \in cancelled
    <2>1. CASE i \in 1..Len(log) /\ j \in 1..Len(log)
      BY <1>1, <1>2, <2>1 DEF AppendedOnce
    <2>2. CASE i = Len(log) + 1 \/ j = Len(log) + 1
      <3>1. log'[i] = x /\ x \in Elements(log)
        BY <1>1, <1>2, <2>2 DEF Elements
      <3> QED
        BY <3>1
    <2> QED
      BY <1>1, <2>1, <2>2
  <1> QED
    BY <1>2 DEF AppendedOnce
-----------------------------------------------------------------------------
\* A drain has its first turn.
LEMMA StartTaskKeeps == ASSUME IInv, StartTask PROVE IInv'
  <1>1. Task \in Drainer /\ writing[Task] = NoSpec
    BY DEF IInv, TypeOK, StartTask, Drainer
  <1> QED
    BY <1>1, DrainKeeps DEF StartTask

\* A flush drains, or awaits the task.
LEMMA FlushKeeps == ASSUME IInv, NEW f \in Flusher, Flush(f) PROVE IInv'
  <1>1. f \in Drainer /\ writing[f] = NoSpec /\ pc[f] = "done" /\ process = "running"
    BY DEF IInv, TypeOK, Flush, Drainer
  <1>2. UNCHANGED <<pending, process, enqueued, log, failures, cancelled>>
    BY DEF Flush
  <1>3. CASE pc[Task] = "done"
    BY <1>1, <1>2, <1>3, DrainKeeps DEF Flush
  <1>4. CASE pc[Task] # "done"
    <2>1. pc' = [pc EXCEPT ![f] = "waiting"] /\ UNCHANGED <<writing, registered, overlapped>>
      BY <1>4 DEF Flush
    <2>2. /\ pc' \in [Drainer -> {"done", "ready", "waiting", "woken", "appending", "landed", "orphan"}]
          /\ pc'[f] = "waiting"
          /\ \A e \in Drainer \ {f} : pc'[e] = pc[e]
      BY <1>1, <2>1 DEF IInv, TypeOK
    <2>3. TypeOK'
      BY <1>1, <1>2, <2>1, <2>2 DEF IInv, TypeOK
    <2>4. DistinctInv' /\ RegisteredInv' /\ EndInv'
      BY <1>1, <1>2, <2>1, <2>2 DEF IInv, DistinctInv, RegisteredInv, EndInv
    <2>5. ~ overlapped => (SuffixInv /\ WriterInv /\ AppendedOnce)'
      BY <1>2, <2>1 DEF IInv, AloneInv, SuffixInv, WriterInv, AppendedOnce, Popped
    <2>6. ~ overlapped => LogInv'
      BY <1>1, <1>2, <2>1, <2>2, LogKept DEF IInv, AloneInv, Popped
    <2> QED
      BY <2>1, <2>3, <2>4, <2>5, <2>6 DEF IInv, AloneInv
  <1> QED
    BY <1>3, <1>4

\* A flush goes on when the task has ended.
LEMMA WakeKeeps == ASSUME IInv, NEW f \in Flusher, Wake(f) PROVE IInv'
  <1>1. f \in Drainer /\ writing[f] = NoSpec
    BY DEF IInv, TypeOK, Wake, Drainer
  <1> QED
    BY <1>1, DrainKeeps DEF Wake

\* What a drain that is alone has in hand is the head of the queue, which nobody
\* has popped: it is in the log only when its append was cancelled or has landed.
LEMMA HeadNotPopped ==
  ASSUME TypeOK, DistinctInv, SuffixInv, pending # <<>>
  PROVE  \A i \in 1..Popped : enqueued[i] # pending[1]
  <1>1. /\ Len(pending) \in Nat /\ Len(enqueued) \in Nat /\ Len(pending) >= 1
        /\ DOMAIN enqueued = 1..Len(enqueued)
    BY DEF TypeOK
  <1>2. pending[1] = enqueued[Popped + 1] /\ Popped \in Nat /\ Popped + 1 <= Len(enqueued)
    BY <1>1 DEF SuffixInv, Popped
  <1> QED
    BY <1>1, <1>2 DEF DistinctInv

\* An append lands: the head is now in the log, where it was not.
LEMMA LandKeeps == ASSUME IInv, NEW d \in Drainer, Land(d) PROVE IInv'
  <1> USE DEF IInv
  <1>1. /\ process = "running" /\ pc[d] = "appending"
        /\ log' = Append(log, writing[d]) /\ pc' = [pc EXCEPT ![d] = "landed"]
        /\ UNCHANGED <<pending, registered, writing, process, enqueued, failures, cancelled, overlapped>>
    BY DEF Land
  <1>2. writing[d] \in Item /\ writing[d] # NoSpec
    BY <1>1 DEF TypeOK
  <1>3. /\ pc' \in [Drainer -> {"done", "ready", "waiting", "woken", "appending", "landed", "orphan"}]
        /\ pc'[d] = "landed"
        /\ \A e \in Drainer \ {d} : pc'[e] = pc[e]
    BY <1>1 DEF TypeOK
  <1>4. TypeOK'
    BY <1>1, <1>2, <1>3 DEF TypeOK
  <1>5. DistinctInv' /\ RegisteredInv' /\ EndInv'
    BY <1>1, <1>3 DEF DistinctInv, RegisteredInv, EndInv
  <1>6. ASSUME ~ overlapped PROVE AloneInv'
    <2> DEFINE x == writing[d]
    <2>1. pending # <<>> /\ x = pending[1]
      BY <1>2, <1>6 DEF AloneInv, WriterInv
    <2>2. SuffixInv' /\ WriterInv'
      BY <1>1, <1>6 DEF AloneInv, SuffixInv, WriterInv, Popped
    <2>3. \A e \in Drainer : pc[e] # "landed"
      BY <1>1, <1>2, <1>6 DEF AloneInv, WriterInv, TypeOK
    <2>4. x \notin Elements(log)
      BY <1>1, <1>6, <2>1, <2>3, HeadNotPopped DEF AloneInv, LogInv, EndInv
    <2>5. AppendedOnce'
      BY <1>1, <1>2, <1>6, <2>4, AppendsOnce DEF AloneInv
    <2>6. Elements(log)' = Elements(log) \cup {x}
      BY <1>1, <1>2, ElementsAppend DEF TypeOK
    <2>7. LogInv'
      <3>1. (\A i \in 1..Popped : enqueued[i] \in Elements(log))'
        BY <1>1, <1>6, <2>6 DEF AloneInv, LogInv, Popped
      <3>2. ASSUME NEW e \in Drainer, pc'[e] = "landed" PROVE writing'[e] \in Elements(log)'
        BY <1>1, <1>3, <2>3, <2>6, <3>2
      <3>3. ASSUME NEW y \in Elements(log)'
            PROVE  \/ \E i \in 1..Popped : y = enqueued[i]
                   \/ /\ pending # <<>> /\ y = pending[1]
                      /\ y \in cancelled \/ \E e \in Drainer : pc'[e] = "landed"
        BY <1>3, <1>6, <2>1, <2>6, <3>3 DEF AloneInv, LogInv
      <3> QED
        BY <1>1, <3>1, <3>2, <3>3 DEF LogInv, Popped
    <2> QED
      BY <2>2, <2>5, <2>7 DEF AloneInv
  <1> QED
    BY <1>1, <1>4, <1>5, <1>6

\* An append fails: nothing is written, and the head stays.
LEMMA FailKeeps == ASSUME IInv, NEW d \in Drainer, Fail(d) PROVE IInv'
  <1> USE DEF IInv
  <1>1. /\ process = "running" /\ pc[d] = "appending" /\ pc' = Finished(d)
        /\ writing' = [writing EXCEPT ![d] = NoSpec]
        /\ UNCHANGED <<pending, registered, process, enqueued, log, cancelled, overlapped>>
    BY DEF Fail
  <1>2. failures' \in 0..MaxFailures
    BY ReinforcementAssumption DEF Fail, TypeOK
  <1>3. /\ pc' \in [Drainer -> {"done", "ready", "waiting", "woken", "appending", "landed", "orphan"}]
        /\ pc'[d] = "done"
        /\ \A e \in Drainer \ {d} : pc'[e] = pc[e] \/ (pc[e] = "waiting" /\ pc'[e] = "woken")
    BY <1>1, FinishedType
  <1>4. /\ writing' \in [Drainer -> Item \cup {NoSpec}] /\ writing'[d] = NoSpec
        /\ \A e \in Drainer \ {d} : writing'[e] = writing[e]
    BY <1>1 DEF TypeOK
  <1>5. TypeOK'
    BY <1>1, <1>2, <1>3, <1>4 DEF TypeOK
  <1>6. DistinctInv' /\ RegisteredInv' /\ EndInv'
    BY <1>1, <1>3, <1>4 DEF DistinctInv, RegisteredInv, EndInv
  <1>7. ~ overlapped => (SuffixInv /\ AppendedOnce)'
    BY <1>1 DEF AloneInv, SuffixInv, AppendedOnce, Popped
  <1>8. ~ overlapped => WriterInv'
    BY <1>1, <1>4 DEF AloneInv, WriterInv
  <1>9. \A e \in Drainer : pc'[e] = "landed" <=> pc[e] = "landed"
    BY <1>1, <1>3
  <1>10. ~ overlapped => LogInv'
    BY <1>1, <1>4, <1>9, LogKept DEF AloneInv, Popped
  <1> QED
    BY <1>1, <1>5, <1>6, <1>7, <1>8, <1>10 DEF AloneInv

\* Taking the first spec off the queue moves one from what is pending to what is popped.
LEMMA TailPopped ==
  ASSUME TypeOK, SuffixInv, pending # <<>>, pending' = Tail(pending), enqueued' = enqueued
  PROVE  /\ SuffixInv' /\ Popped' = Popped + 1 /\ Popped \in Nat
         /\ enqueued[Popped + 1] = pending[1]
         /\ pending' # <<>> => pending'[1] = pending[2]
  <1>1. /\ Len(pending) \in Nat /\ Len(enqueued) \in Nat /\ Len(pending) >= 1
        /\ Len(pending') = Len(pending) - 1
        /\ \A i \in 1..Len(pending') : pending'[i] = pending[i + 1]
    BY DEF TypeOK
  <1>2. /\ Len(pending) <= Len(enqueued) /\ Popped' = Popped + 1 /\ Popped \in Nat
        /\ enqueued[Popped + 1] = pending[1]
    BY <1>1 DEF SuffixInv, Popped
  <1>3. ASSUME NEW i \in 1..Len(pending') PROVE pending'[i] = enqueued[(Popped + 1) + i]
    <2>1. i + 1 \in 1..Len(pending) /\ Popped + (i + 1) = (Popped + 1) + i
      BY <1>1, <1>2
    <2> QED
      BY <1>1, <2>1 DEF SuffixInv
  <1>4. SuffixInv'
    BY <1>1, <1>2, <1>3 DEF SuffixInv
  <1>5. pending' # <<>> => pending'[1] = pending[2]
    BY <1>1 DEF TypeOK
  <1> QED
    BY <1>2, <1>4, <1>5

\* When the head is written and popped, what is in the log are the popped specs.
LEMMA HeadPopped ==
  ASSUME TypeOK, SuffixInv, LogInv, pending # <<>>, pending' = Tail(pending),
         enqueued' = enqueued, pending[1] \in Elements(log)',
         Elements(log)' = Elements(log) \cup {pending[1]}
  PROVE  /\ \A i \in 1..Popped' : enqueued'[i] \in Elements(log)'
         /\ \A x \in Elements(log)' : \E i \in 1..Popped' : x = enqueued'[i]
  <1>1. Popped' = Popped + 1 /\ Popped \in Nat /\ enqueued[Popped + 1] = pending[1]
    BY TailPopped
  <1>2. ASSUME NEW i \in 1..Popped' PROVE enqueued'[i] \in Elements(log)'
    <2>1. i \in 1..Popped \/ i = Popped + 1
      BY <1>1
    <2> QED
      BY <1>1, <2>1 DEF LogInv
  <1>3. ASSUME NEW x \in Elements(log)' PROVE \E i \in 1..Popped' : x = enqueued'[i]
    <2>1. CASE \E i \in 1..Popped : x = enqueued[i]
      BY <1>1, <2>1
    <2>2. CASE x = pending[1]
      BY <1>1, <2>2
    <2> QED
      BY <2>1, <2>2 DEF LogInv
  <1> QED
    BY <1>2, <1>3

\* The drain pops what it has written, and takes the next.
LEMMA PopKeeps == ASSUME IInv, NEW d \in Drainer, Pop(d) PROVE IInv'
  <1> USE DEF IInv
  <1>1. /\ process = "running" /\ pc[d] = "landed" /\ writing[d] # NoSpec
        /\ UNCHANGED <<process, enqueued, log, failures, cancelled>>
    BY DEF Pop, TypeOK
  <1>2. CASE pending = <<>>
    <2>1. /\ pc' = Finished(d) /\ writing' = [writing EXCEPT ![d] = NoSpec]
          /\ UNCHANGED <<pending, registered, overlapped>>
      BY <1>2 DEF Pop
    <2>2. /\ pc' \in [Drainer -> {"done", "ready", "waiting", "woken", "appending", "landed", "orphan"}]
          /\ pc'[d] = "done"
          /\ \A e \in Drainer \ {d} : pc'[e] = pc[e] \/ (pc[e] = "waiting" /\ pc'[e] = "woken")
      BY <2>1, FinishedType
    <2>3. /\ writing' \in [Drainer -> Item \cup {NoSpec}] /\ writing'[d] = NoSpec
          /\ \A e \in Drainer \ {d} : writing'[e] = writing[e]
      BY <2>1 DEF TypeOK
    <2>4. TypeOK'
      BY <1>1, <2>1, <2>2, <2>3 DEF TypeOK
    <2>5. DistinctInv' /\ RegisteredInv' /\ EndInv'
      BY <1>1, <2>1, <2>2, <2>3 DEF DistinctInv, RegisteredInv, EndInv
    <2>6. overlapped
      BY <1>1, <1>2 DEF AloneInv, WriterInv
    <2> QED
      BY <2>1, <2>4, <2>5, <2>6
  <1>3. CASE pending # <<>>
    <2>1. pending' = Tail(pending) /\ Drain(d, Tail(pending))
      BY <1>3 DEF Pop
    <2>2. pending' \in Seq(Item)
      BY <1>3, <2>1 DEF TypeOK
    <2>3. ASSUME ~ overlapped
          PROVE  /\ writing[d] = pending[1] /\ pending[1] \in Elements(log)
                 /\ \A e \in Drainer \ {d} : writing[e] = NoSpec /\ pc[e] # "landed"
      BY <1>1, <2>3 DEF AloneInv, WriterInv, LogInv, TypeOK
    <2>4. ASSUME ~ overlapped
          PROVE  /\ SuffixInv'
                 /\ \A i \in 1..Popped' : enqueued'[i] \in Elements(log)'
                 /\ \A x \in Elements(log)' : \E i \in 1..Popped' : x = enqueued'[i]
      <3>1. Elements(log)' = Elements(log) /\ Elements(log) = Elements(log) \cup {pending[1]}
        BY <1>1, <2>3, <2>4 DEF Elements
      <3> QED
        BY <1>1, <1>3, <2>1, <2>3, <2>4, <3>1, HeadPopped, TailPopped DEF AloneInv
    <2>5. CASE Tail(pending) = <<>>
      <3>1. /\ pc' = Finished(d) /\ writing' = [writing EXCEPT ![d] = NoSpec]
            /\ registered' = FALSE /\ UNCHANGED overlapped
        BY <2>1, <2>5 DEF Drain
      <3>2. /\ pc' \in [Drainer -> {"done", "ready", "waiting", "woken", "appending", "landed", "orphan"}]
            /\ pc'[d] = "done"
            /\ \A e \in Drainer \ {d} : pc'[e] = pc[e] \/ (pc[e] = "waiting" /\ pc'[e] = "woken")
        BY <3>1, FinishedType
      <3>3. /\ writing' \in [Drainer -> Item \cup {NoSpec}] /\ writing'[d] = NoSpec
            /\ \A e \in Drainer \ {d} : writing'[e] = writing[e]
        BY <3>1 DEF TypeOK
      <3>4. TypeOK'
        BY <1>1, <2>2, <3>1, <3>2, <3>3 DEF TypeOK
      <3>5. DistinctInv' /\ RegisteredInv' /\ EndInv'
        BY <1>1, <2>1, <2>5, <3>2, <3>3 DEF DistinctInv, RegisteredInv, EndInv
      <3>6. ~ overlapped => WriterInv' /\ AppendedOnce'
        BY <1>1, <2>3, <3>1, <3>3 DEF WriterInv, AloneInv, AppendedOnce
      <3>7. ~ overlapped => \A e \in Drainer : pc'[e] # "landed"
        BY <2>3, <3>2
      <3>8. ~ overlapped => LogInv'
        BY <2>4, <3>7 DEF LogInv
      <3> QED
        BY <2>4, <3>1, <3>4, <3>5, <3>6, <3>8 DEF AloneInv
    <2>6. CASE Tail(pending) # <<>>
      <3>1. /\ pc' = [pc EXCEPT ![d] = "appending"]
            /\ writing' = [writing EXCEPT ![d] = Head(pending')]
            /\ overlapped' = (overlapped \/ \E e \in Drainer \ {d} : writing[e] # NoSpec)
            /\ UNCHANGED registered
        BY <2>1, <2>6 DEF Drain
      <3>2. pending' # <<>> /\ Head(pending') = pending'[1] /\ pending'[1] \in Item /\ pending'[1] # NoSpec
        BY <2>1, <2>2, <2>6, ReinforcementAssumption
      <3>3. /\ pc' \in [Drainer -> {"done", "ready", "waiting", "woken", "appending", "landed", "orphan"}]
            /\ pc'[d] = "appending" /\ \A e \in Drainer \ {d} : pc'[e] = pc[e]
            /\ writing' \in [Drainer -> Item \cup {NoSpec}]
            /\ writing'[d] = pending'[1] /\ \A e \in Drainer \ {d} : writing'[e] = writing[e]
        BY <3>1, <3>2 DEF TypeOK
      <3>4. overlapped' \in BOOLEAN
        BY <3>1, Zenon
      <3>5. TypeOK'
        BY <1>1, <2>2, <3>1, <3>2, <3>3, <3>4 DEF TypeOK
      <3>6. DistinctInv' /\ RegisteredInv' /\ EndInv'
        BY <1>1, <1>3, <3>1, <3>3 DEF DistinctInv, RegisteredInv, EndInv
      <3>7. ~ overlapped' => ~ overlapped
        BY <3>1, Zenon
      <3>8. ~ overlapped => WriterInv' /\ \A e \in Drainer : pc'[e] # "landed"
        BY <2>3, <3>2, <3>3 DEF WriterInv
      <3>9. ~ overlapped => LogInv'
        BY <2>4, <3>8 DEF LogInv
      <3>10. ~ overlapped' => AppendedOnce'
        BY <1>1, <3>7 DEF AloneInv, AppendedOnce
      <3> QED
        BY <2>4, <3>5, <3>6, <3>7, <3>8, <3>9, <3>10 DEF AloneInv
    <2> QED
      BY <2>5, <2>6
  <1> QED
    BY <1>2, <1>3
-----------------------------------------------------------------------------
\* The loop ends: what it had in hand is cancelled.
LEMMA LoopEndsKeeps == ASSUME IInv, LoopEnds PROVE IInv'
  <1> USE DEF IInv
  <1>1. /\ process = "running" /\ process' = "stopping"
        /\ cancelled' = {writing[d] : d \in Drainer} \ {NoSpec}
        /\ pc' = [d \in Drainer |-> IF pc[d] = "appending" THEN "orphan" ELSE "done"]
        /\ writing' = [d \in Drainer |-> IF pc[d] = "appending" THEN writing[d] ELSE NoSpec]
        /\ UNCHANGED <<pending, registered, enqueued, log, failures, overlapped>>
    BY DEF LoopEnds
  <1>2. TypeOK'
    <2>1. cancelled' \subseteq Item
      BY <1>1 DEF TypeOK
    <2>2. /\ pc' \in [Drainer -> {"done", "ready", "waiting", "woken", "appending", "landed", "orphan"}]
          /\ writing' \in [Drainer -> Item \cup {NoSpec}]
          /\ \A d \in Drainer : writing'[d] # NoSpec <=> pc'[d] \in {"appending", "landed", "orphan"}
      BY <1>1 DEF TypeOK
    <2> QED
      BY <1>1, <2>1, <2>2 DEF TypeOK
  <1>3. DistinctInv' /\ RegisteredInv' /\ EndInv'
    <2>1. \A d \in Drainer : pc'[d] \in {"orphan", "done"}
      BY <1>1
    <2>2. ASSUME NEW d \in Drainer, pc'[d] = "orphan" PROVE writing'[d] \in cancelled'
      BY <1>1, <2>2 DEF TypeOK
    <2> QED
      BY <1>1, <2>1, <2>2 DEF DistinctInv, RegisteredInv, EndInv
  <1>4. ASSUME ~ overlapped PROVE AloneInv'
    <2>1. SuffixInv'
      BY <1>1, <1>4 DEF AloneInv, SuffixInv, Popped
    <2>2. \A d \in Drainer : writing'[d] # NoSpec => writing'[d] = writing[d]
      BY <1>1
    <2>3. WriterInv'
      BY <1>1, <1>4, <2>2 DEF AloneInv, WriterInv
    <2>4. AppendedOnce'
      BY <1>1, <1>4 DEF AloneInv, AppendedOnce, EndInv
    <2>5. Elements(log)' = Elements(log) /\ Popped' = Popped
      BY <1>1 DEF Elements, Popped
    <2>6. \A d \in Drainer : pc'[d] # "landed"
      BY <1>1
    <2>7. ASSUME NEW d \in Drainer, pc[d] = "landed" PROVE writing[d] \in cancelled' /\ writing[d] = pending[1]
      BY <1>1, <1>4, <2>7 DEF TypeOK, AloneInv, WriterInv
    <2>8. ASSUME NEW x \in Elements(log)
          PROVE  \/ \E i \in 1..Popped : x = enqueued[i]
                 \/ pending # <<>> /\ x = pending[1] /\ x \in cancelled'
      <3>1. CASE \E i \in 1..Popped : x = enqueued[i]
        BY <3>1
      <3>2. CASE pending # <<>> /\ x = pending[1] /\ \E d \in Drainer : pc[d] = "landed"
        BY <2>7, <3>2
      <3> QED
        BY <1>1, <1>4, <3>1, <3>2 DEF AloneInv, LogInv, EndInv
    <2>9. LogInv'
      BY <1>1, <1>4, <2>5, <2>6, <2>8 DEF AloneInv, LogInv
    <2> QED
      BY <2>1, <2>3, <2>4, <2>9 DEF AloneInv
  <1> QED
    BY <1>1, <1>2, <1>3, <1>4

\* A worker thread ends the append that was cancelled.
LEMMA OrphanKeeps == ASSUME IInv, NEW d \in Drainer, NEW writes \in BOOLEAN, Orphan(d, writes) PROVE IInv'
  <1> USE DEF IInv
  <1>1. /\ pc[d] = "orphan" /\ pc' = [pc EXCEPT ![d] = "done"]
        /\ writing' = [writing EXCEPT ![d] = NoSpec]
        /\ UNCHANGED <<pending, registered, process, enqueued, failures, cancelled, overlapped>>
    BY DEF Orphan
  <1>2. log' = log \/ log' = Append(log, writing[d])
    BY DEF Orphan
  <1>3. /\ pc' \in [Drainer -> {"done", "ready", "waiting", "woken", "appending", "landed", "orphan"}]
        /\ pc'[d] = "done" /\ \A e \in Drainer \ {d} : pc'[e] = pc[e]
        /\ writing' \in [Drainer -> Item \cup {NoSpec}]
        /\ writing'[d] = NoSpec /\ \A e \in Drainer \ {d} : writing'[e] = writing[e]
    BY <1>1 DEF TypeOK
  <1>4. writing[d] \in Item /\ writing[d] # NoSpec /\ writing[d] \in cancelled
    BY <1>1 DEF TypeOK, EndInv
  <1>5. log' \in Seq(Item)
    <2>1. log \in Seq(Item)
      BY DEF TypeOK
    <2> QED
      BY <1>2, <1>4, <2>1
  <1>6. TypeOK'
    BY <1>1, <1>3, <1>5 DEF TypeOK
  <1>7. DistinctInv' /\ RegisteredInv' /\ EndInv'
    BY <1>1, <1>3 DEF DistinctInv, RegisteredInv, EndInv
  <1>8. ASSUME ~ overlapped PROVE AloneInv'
    <2>1. SuffixInv' /\ Popped' = Popped
      BY <1>1, <1>8 DEF AloneInv, SuffixInv, Popped
    <2>2. WriterInv'
      BY <1>1, <1>3, <1>8 DEF AloneInv, WriterInv
    <2>3. \A e \in Drainer : pc'[e] = "landed" <=> pc[e] = "landed"
      BY <1>1, <1>3
    <2>4. CASE log' = log
      <3>1. LogInv'
        BY <1>1, <1>3, <1>8, <2>1, <2>3, <2>4, LogKept DEF AloneInv
      <3>2. AppendedOnce'
        BY <1>1, <1>8, <2>4 DEF AloneInv, AppendedOnce
      <3> QED
        BY <2>1, <2>2, <3>1, <3>2 DEF AloneInv
    <2>5. CASE log' = Append(log, writing[d])
      <3>1. AppendedOnce'
        BY <1>1, <1>4, <1>8, <2>5, AppendsOnce DEF AloneInv
      <3>2. Elements(log)' = Elements(log) \cup {writing[d]}
        BY <1>4, <2>5, ElementsAppend DEF TypeOK
      <3>3. pending # <<>> /\ writing[d] = pending[1]
        BY <1>4, <1>8 DEF AloneInv, WriterInv
      <3>4. (\A i \in 1..Popped : enqueued[i] \in Elements(log))'
        BY <1>1, <1>8, <2>1, <3>2 DEF AloneInv, LogInv
      <3>5. \A e \in Drainer : pc'[e] # "landed"
        BY <1>1, <2>3 DEF EndInv
      <3>6. ASSUME NEW x \in Elements(log)'
            PROVE  \/ \E i \in 1..Popped : x = enqueued[i]
                   \/ pending # <<>> /\ x = pending[1] /\ x \in cancelled
        BY <1>4, <1>8, <2>3, <3>2, <3>3, <3>5 DEF AloneInv, LogInv
      <3>7. LogInv'
        BY <1>1, <2>1, <3>4, <3>5, <3>6 DEF LogInv
      <3> QED
        BY <2>1, <2>2, <3>1, <3>7 DEF AloneInv
    <2> QED
      BY <1>2, <2>4, <2>5
  <1> QED
    BY <1>1, <1>6, <1>7, <1>8

\* The exit hook writes the head, and pops it.
LEMMA ExitAppendKeeps == ASSUME IInv, ExitAppend PROVE IInv'
  <1> USE DEF IInv
  <1>1. /\ process = "stopping" /\ \A d \in Drainer : pc[d] = "done"
        /\ registered /\ pending # <<>>
        /\ log' = Append(log, Head(pending)) /\ pending' = Tail(pending)
        /\ UNCHANGED <<registered, pc, writing, process, enqueued, failures, cancelled, overlapped>>
    BY DEF ExitAppend, AtExit
  <1>2. Head(pending) = pending[1] /\ pending[1] \in Item /\ pending' \in Seq(Item)
    BY <1>1 DEF TypeOK
  <1>3. log' \in Seq(Item)
    BY <1>1, <1>2 DEF TypeOK
  <1>4. TypeOK'
    BY <1>1, <1>2, <1>3 DEF TypeOK
  <1>5. DistinctInv' /\ RegisteredInv' /\ EndInv'
    BY <1>1 DEF DistinctInv, RegisteredInv, EndInv
  <1>6. ASSUME ~ overlapped PROVE AloneInv'
    <2>1. \A d \in Drainer : writing[d] = NoSpec
      BY <1>1 DEF TypeOK
    <2>2. WriterInv'
      BY <1>1, <2>1 DEF WriterInv
    <2>3. pending[1] \in Elements(log) => pending[1] \in cancelled
      BY <1>1, <1>6, HeadNotPopped DEF AloneInv, LogInv
    <2>4. AppendedOnce'
      BY <1>1, <1>2, <1>6, <2>3, AppendsOnce DEF AloneInv
    <2>5. Elements(log)' = Elements(log) \cup {pending[1]}
      BY <1>1, <1>2, ElementsAppend DEF TypeOK
    <2>6. SuffixInv'
      BY <1>1, <1>6, TailPopped DEF AloneInv
    <2>7. /\ \A i \in 1..Popped' : enqueued'[i] \in Elements(log)'
          /\ \A x \in Elements(log)' : \E i \in 1..Popped' : x = enqueued'[i]
      BY <1>1, <1>6, <2>5, HeadPopped DEF AloneInv
    <2>8. LogInv'
      BY <1>1, <2>7 DEF LogInv
    <2> QED
      BY <2>2, <2>4, <2>6, <2>8 DEF AloneInv
  <1> QED
    BY <1>1, <1>4, <1>5, <1>6

\* Neither the exit, its failure nor a stutter touches what is queued or written.
LEMMA QueueKept ==
  ASSUME IInv, UNCHANGED <<pending, pc, writing, enqueued, log, cancelled, overlapped>>
  PROVE  /\ DistinctInv' /\ (~ overlapped => AloneInv)'
  <1>1. DistinctInv'
    BY DEF IInv, DistinctInv
  <1>2. ~ overlapped => (SuffixInv /\ WriterInv /\ AppendedOnce)'
    BY DEF IInv, AloneInv, SuffixInv, WriterInv, AppendedOnce, Popped
  <1>3. ~ overlapped => LogInv'
    BY LogKept DEF IInv, AloneInv, Popped
  <1> QED
    BY <1>1, <1>2, <1>3 DEF AloneInv

\* The process exits: what the hook does not know of is empty.
LEMMA ExitDoneKeeps == ASSUME IInv, ExitDone PROVE IInv'
  <1>1. /\ process = "stopping" /\ \A d \in Drainer : pc[d] = "done"
        /\ pending = <<>> /\ registered' = FALSE /\ process' = "exited"
        /\ UNCHANGED <<pending, pc, writing, enqueued, log, failures, cancelled, overlapped>>
    BY DEF ExitDone, AtExit, IInv, RegisteredInv
  <1>2. TypeOK' /\ RegisteredInv' /\ EndInv'
    BY <1>1 DEF IInv, TypeOK, RegisteredInv, EndInv
  <1> QED
    BY <1>1, <1>2, QueueKept DEF IInv

\* The exit hook gives up.
LEMMA ExitFailKeeps == ASSUME IInv, ExitFail PROVE IInv'
  <1>1. /\ \A d \in Drainer : pc[d] = "done"
        /\ UNCHANGED <<pending, pc, writing, enqueued, log, cancelled, overlapped>>
    BY DEF ExitFail, AtExit
  <1>2. registered' = registered /\ process' = "failed"
    BY DEF ExitFail
  <1>3. failures' \in 0..MaxFailures
    BY ReinforcementAssumption DEF ExitFail, IInv, TypeOK
  <1>4. TypeOK /\ RegisteredInv /\ EndInv
    BY DEF IInv
  <1>5. registered' \in BOOLEAN /\ RegisteredInv'
    BY <1>1, <1>2, <1>4 DEF TypeOK, RegisteredInv
  <1>6. process' \in {"running", "stopping", "exited", "failed"}
    BY <1>2
  <1>7. TypeOK'
    BY <1>1, <1>3, <1>4, <1>5, <1>6 DEF TypeOK
  <1>8. process' # "running" /\ process' # "exited"
    BY <1>2
  <1>9. EndInv'
    BY <1>1, <1>4, <1>8 DEF EndInv
  <1>10. DistinctInv' /\ (~ overlapped => AloneInv)'
    BY <1>1, QueueKept
  <1> QED
    BY <1>5, <1>7, <1>9, <1>10 DEF IInv
-----------------------------------------------------------------------------
\* Every step keeps the invariant.
LEMMA NextIInv == IInv /\ [Next]_vars => IInv'
  <1> SUFFICES ASSUME IInv, [Next]_vars PROVE IInv'
    OBVIOUS
  <1>1. ASSUME NEW s \in Item, NEW loop \in BOOLEAN, Enqueue(s, loop) PROVE IInv'
    BY <1>1, EnqueueKeeps
  <1>2. CASE StartTask
    BY <1>2, StartTaskKeeps
  <1>3. ASSUME NEW f \in Flusher, Flush(f) \/ Wake(f) PROVE IInv'
    BY <1>3, FlushKeeps, WakeKeeps
  <1>4. ASSUME NEW d \in Drainer, Land(d) \/ Fail(d) \/ Pop(d) PROVE IInv'
    BY <1>4, LandKeeps, FailKeeps, PopKeeps
  <1>5. ASSUME NEW d \in Drainer, NEW writes \in BOOLEAN, Orphan(d, writes) PROVE IInv'
    BY <1>5, OrphanKeeps
  <1>6. CASE LoopEnds
    BY <1>6, LoopEndsKeeps
  <1>7. CASE ExitAppend \/ ExitDone \/ ExitFail
    BY <1>7, ExitAppendKeeps, ExitDoneKeeps, ExitFailKeeps
  <1>8. CASE UNCHANGED vars
    <2>1. UNCHANGED <<pending, registered, pc, writing, process, enqueued, log, failures, cancelled, overlapped>>
      BY <1>8 DEF vars
    <2>2. TypeOK' /\ RegisteredInv' /\ EndInv'
      BY <2>1 DEF IInv, TypeOK, RegisteredInv, EndInv
    <2> QED
      BY <2>1, <2>2, QueueKept DEF IInv
  <1> QED
    BY <1>1, <1>2, <1>3, <1>4, <1>5, <1>6, <1>7, <1>8 DEF Next

\* The invariant holds in every reachable state.
LEMMA Invariant == Spec => []IInv
  BY InitIInv, NextIInv, PTL DEF Spec

\* Every variable has its type, and a coroutine holds a spec exactly while it appends it.
THEOREM TypeCorrect == Spec => []TypeOK
  <1>1. IInv => TypeOK
    BY DEF IInv
  <1> QED
    BY <1>1, Invariant, PTL

\* Failed appends, retries, the end of the loop and the exit hook lose no spec, and an
\* orderly exit leaves none unwritten, as long as no two drains had an append in hand
\* at once (_drain, flush, drain_to_log_sync).
THEOREM NothingIsLost == Spec => []NothingLostAlone
  <1>1. IInv => NothingLostAlone
    <2> SUFFICES ASSUME IInv, ~ overlapped PROVE NothingLost /\ LandedByExit
      BY DEF NothingLostAlone
    <2>1. /\ Len(pending) \in Nat /\ Len(enqueued) \in Nat /\ Len(pending) <= Len(enqueued)
          /\ DOMAIN enqueued = 1..Len(enqueued) /\ DOMAIN pending = 1..Len(pending)
      BY DEF IInv, TypeOK, AloneInv, SuffixInv
    <2>2. ASSUME NEW i \in DOMAIN enqueued PROVE enqueued[i] \in Elements(log) \cup Elements(pending)
      <3>1. CASE i \in 1..Popped
        BY <3>1 DEF IInv, AloneInv, LogInv
      <3>2. CASE i \notin 1..Popped
        <4>1. i - Popped \in 1..Len(pending) /\ Popped + (i - Popped) = i
          BY <2>1, <2>2, <3>2 DEF Popped
        <4>2. pending[i - Popped] = enqueued[Popped + (i - Popped)]
          BY <4>1 DEF IInv, AloneInv, SuffixInv
        <4> QED
          BY <2>1, <4>1, <4>2 DEF Elements
      <3> QED
        BY <3>1, <3>2
    <2>3. NothingLost
      BY <2>2 DEF NothingLost, Elements
    <2>4. pending = <<>> => Elements(pending) = {}
      BY DEF Elements
    <2>5. LandedByExit
      BY <2>2, <2>4 DEF IInv, EndInv, LandedByExit, Elements
    <2> QED
      BY <2>3, <2>5
  <1> QED
    BY <1>1, Invariant, PTL

\* Specs land in the order of the checkouts that made them, each once unless its append
\* was cancelled with the loop, while drains do not overlap: the guarantee that popping
\* only after the append has landed gives.
THEOREM AppendsAreFaithful == Spec => []AppendsFaithful
  <1>1. IInv => AppendsFaithful
    <2> SUFFICES ASSUME IInv PROVE AppendsFaithful
      OBVIOUS
    <2>0. CASE overlapped
      BY <2>0 DEF AppendsFaithful, AppendedOnce, AppendsInOrder
    <2> SUFFICES ASSUME ~ overlapped PROVE AppendsFaithful
      BY <2>0
    <2>1. /\ Len(pending) \in Nat /\ Len(enqueued) \in Nat /\ Len(pending) <= Len(enqueued)
          /\ DOMAIN enqueued = 1..Len(enqueued) /\ Popped \in Nat
      BY DEF IInv, TypeOK, AloneInv, SuffixInv, Popped
    <2>2. ASSUME NEW j \in DOMAIN enqueued, enqueued[j] \in Elements(log) PROVE j <= Popped + 1
      <3>1. CASE \E i \in 1..Popped : enqueued[j] = enqueued[i]
        BY <2>1, <2>2, <3>1 DEF IInv, DistinctInv, Popped
      <3>2. CASE pending # <<>> /\ enqueued[j] = pending[1]
        <4>1. Len(pending) >= 1
          BY <3>2 DEF IInv, TypeOK
        <4>2. pending[1] = enqueued[Popped + 1] /\ Popped + 1 \in DOMAIN enqueued
          BY <2>1, <4>1 DEF IInv, AloneInv, SuffixInv, Popped
        <4> QED
          BY <2>1, <3>2, <4>2 DEF IInv, DistinctInv
      <3> QED
        BY <2>2, <3>1, <3>2 DEF IInv, AloneInv, LogInv
    <2>3. ASSUME NEW i \in DOMAIN enqueued, NEW j \in DOMAIN enqueued,
                 i < j, enqueued[j] \in Elements(log)
          PROVE  enqueued[i] \in Elements(log)
      <3>1. i \in 1..Popped
        BY <2>1, <2>2, <2>3
      <3> QED
        BY <3>1 DEF IInv, AloneInv, LogInv
    <2> QED
      BY <2>3 DEF IInv, AloneInv, AppendsFaithful, AppendsInOrder
  <1> QED
    BY <1>1, Invariant, PTL
=============================================================================
