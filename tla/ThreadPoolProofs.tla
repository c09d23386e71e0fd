-------------------------- MODULE ThreadPoolProofs --------------------------
(***************************************************************************)
(* The safety properties of ThreadPool, for any number of threads, tasks   *)
(* and callers of shutdown().                                              *)
(***************************************************************************)
EXTENDS ThreadPool, ProofLemmas

USE PoolAssumption DEF Workers

\* Type correctness of every step, whatever the schedule.
LEMMA TypeStep == ASSUME TypeOK, [Next]_vars PROVE TypeOK'
<1> USE DEF TypeOK, pool
<1>1. CASE UNCHANGED vars
  BY <1>1 DEF vars
<1>2. ASSUME NEW t \in Tasks, Submit(t) PROVE TypeOK'
  <2>1. wpc' \in [Workers -> {"check", "wait", "run", "exited"}]
        /\ \A w \in Workers : wpc'[w] = "run" <=> wpc[w] = "run"
    BY <1>2 DEF Submit, NotifyOne, Asleep
  <2>2. CASE running
    <3>0. tasks' = Append(tasks, t) /\ accepted' = Append(accepted, t)
      BY <1>2, <2>2 DEF Submit
    <3>1. tasks' \in Seq(Tasks) /\ accepted' \in Seq(Tasks)
      BY <3>0, AppendProperties
    <3>2. future' = [future EXCEPT ![t] = "pending"]
          /\ UNCHANGED <<running, cur, taken, spc, joined>>
      BY <1>2, <2>2 DEF Submit
    <3> QED
      BY <2>1, <3>1, <3>2
  <2>3. CASE ~running
    BY <1>2, <2>3 DEF Submit
  <2> QED
    BY <2>2, <2>3
<1>3. ASSUME NEW w \in Workers, Sleep(w) \/ SpuriousWake(w) \/ Exit(w) PROVE TypeOK'
  BY <1>3 DEF Sleep, SpuriousWake, Exit
<1>4. ASSUME NEW w \in Workers, Take(w) PROVE TypeOK'
  <2>1. tasks # <<>>
    BY <1>4 DEF Take, WaitPredicate, MustReturn
  <2>2. Head(tasks) \in Tasks /\ Tail(tasks) \in Seq(Tasks)
    BY <2>1, HeadTailProperties
  <2> QED
    BY <1>4, <2>2 DEF Take, Front, Popped
<1>5. ASSUME NEW w \in Workers, Finish(w) PROVE TypeOK'
  BY <1>5 DEF Finish
<1>6. ASSUME NEW s \in Stoppers, BeginShutdown(s) \/ NotifyAll(s) PROVE TypeOK'
  BY <1>6 DEF BeginShutdown, NotifyAll, Asleep
<1>7. ASSUME NEW s \in Stoppers, Join(s) PROVE TypeOK'
  <2>1. joined' \in 0..NumThreads /\ spc' \in [Stoppers -> {"idle", "notify", "join", "returned"}]
    BY <1>7 DEF Join, JoinedAll
  <2>2. UNCHANGED <<running, tasks, wpc, cur, future, accepted, taken>>
    BY <1>7 DEF Join
  <2> QED
    BY <2>1, <2>2
<1> QED
  BY <1>1, <1>2, <1>3, <1>4, <1>5, <1>6, <1>7 DEF Next, WorkerStep

\* Every state of the pool has the types of ThreadPool's members, and a worker
\* holds a task exactly while it runs one.
THEOREM TypeCorrect == Spec => []TypeOK
<1>1. Init => TypeOK
  BY DEF Init, TypeOK
<1> QED
  BY <1>1, TypeStep, PTL DEF Spec
----------------------------------------------------------------------------
\* Between the flag and notify_all() a worker may be asleep, but not for ever:
\* the stopper that set the flag has yet to notify.
LEMMA StrandedStep ==
    ASSUME TypeOK, NobodyStranded, [Next]_vars PROVE NobodyStranded'
<1> USE DEF TypeOK, NobodyStranded, Asleep, pool
<1>1. CASE UNCHANGED vars
  BY <1>1 DEF vars
<1>2. ASSUME NEW t \in Tasks, Submit(t) PROVE NobodyStranded'
  <2>1. Asleep' \subseteq Asleep
    BY <1>2 DEF Submit, NotifyOne
  <2> QED
    BY <1>2, <2>1 DEF Submit
<1>3. ASSUME NEW w \in Workers, Sleep(w) PROVE NobodyStranded'
  BY <1>3 DEF Sleep, WaitPredicate
<1>4. ASSUME NEW w \in Workers, SpuriousWake(w) \/ Exit(w) \/ Take(w) \/ Finish(w)
      PROVE  NobodyStranded'
  BY <1>4 DEF SpuriousWake, Exit, Take, Finish
<1>5. ASSUME NEW s \in Stoppers, BeginShutdown(s) PROVE NobodyStranded'
  BY <1>5 DEF BeginShutdown
<1>6. ASSUME NEW s \in Stoppers, NotifyAll(s) PROVE NobodyStranded'
  BY <1>6 DEF NotifyAll
<1>7. ASSUME NEW s \in Stoppers, Join(s) PROVE NobodyStranded'
  BY <1>7 DEF Join
<1> QED
  BY <1>1, <1>2, <1>3, <1>4, <1>5, <1>6, <1>7 DEF Next, WorkerStep

\* The race of the worker that is about to sleep with shutdown(): whoever has set
\* the flag and notified has left no worker asleep.
THEOREM ShutdownStrandsNobody == Spec => []NobodyStranded
<1>1. Init => NobodyStranded
  BY DEF Init, NobodyStranded
<1>2. TypeOK /\ NobodyStranded /\ [Next]_vars => NobodyStranded'
  BY StrandedStep
<1> QED
  BY <1>1, <1>2, TypeCorrect, PTL DEF Spec
----------------------------------------------------------------------------
\* A worker exits when MustReturn holds, and then it holds for ever.
LEMMA LeftStep ==
    ASSUME TypeOK, LeftWhenDone, [Next]_vars PROVE LeftWhenDone'
<1> USE DEF TypeOK, LeftWhenDone, MustReturn, pool
<1>1. CASE UNCHANGED vars
  BY <1>1 DEF vars
<1>2. ASSUME NEW t \in Tasks, Submit(t) PROVE LeftWhenDone'
  <2>1. \A w \in Workers : wpc'[w] = "exited" => wpc[w] = "exited"
    BY <1>2 DEF Submit, NotifyOne, Asleep
  <2>2. running => \A w \in Workers : wpc[w] # "exited"
    OBVIOUS
  <2> QED
    BY <1>2, <2>1, <2>2 DEF Submit
<1>3. ASSUME NEW w \in Workers, Exit(w) PROVE LeftWhenDone'
  BY <1>3 DEF Exit
<1>4. ASSUME NEW w \in Workers, Sleep(w) \/ SpuriousWake(w) \/ Finish(w)
      PROVE  LeftWhenDone'
  BY <1>4 DEF Sleep, SpuriousWake, Finish
<1>5. ASSUME NEW w \in Workers, Take(w) PROVE LeftWhenDone'
  BY <1>5 DEF Take
<1>6. ASSUME NEW s \in Stoppers, BeginShutdown(s) \/ NotifyAll(s) \/ Join(s)
      PROVE  LeftWhenDone'
  BY <1>6 DEF BeginShutdown, NotifyAll, Join, Asleep
<1> QED
  BY <1>1, <1>2, <1>3, <1>4, <1>5, <1>6 DEF Next, WorkerStep
----------------------------------------------------------------------------
\* Each push goes to both histories, each pop to the end of `taken`.
LEMMA OrderStep ==
    ASSUME TypeOK, StartedInOrder, [Next]_vars PROVE StartedInOrder'
<1> USE DEF StartedInOrder, pool
<1>1. ASSUME UNCHANGED <<tasks, taken, accepted>> PROVE StartedInOrder'
  BY <1>1
<1>2. ASSUME NEW t \in Tasks, Submit(t) PROVE StartedInOrder'
  <2>1. CASE ~running
    BY <1>1, <1>2, <2>1 DEF Submit
  <2>2. CASE running
    <3>1. tasks' = Append(tasks, t) /\ accepted' = Append(accepted, t) /\ taken' = taken
      BY <1>2, <2>2 DEF Submit
    <3>2. tasks' = tasks \o <<t>> /\ accepted' = accepted \o <<t>> /\ <<t>> \in Seq(Tasks)
      BY <3>1, AppendIsConcat DEF TypeOK
    <3>3. taken \o (tasks \o <<t>>) = (taken \o tasks) \o <<t>>
      BY <3>2, ConcatAssociative DEF TypeOK
    <3> QED
      BY <3>1, <3>2, <3>3
  <2> QED
    BY <2>1, <2>2
<1>3. ASSUME NEW w \in Workers, Take(w) PROVE StartedInOrder'
  <2>1. tasks # <<>> /\ taken' = Append(taken, Head(tasks)) /\ tasks' = Tail(tasks)
        /\ accepted' = accepted
    BY <1>3 DEF Take, WaitPredicate, MustReturn, Front, Popped
  <2> QED
    BY <2>1, MoveHead DEF TypeOK
<1>4. ASSUME NEW w \in Workers, Sleep(w) \/ SpuriousWake(w) \/ Exit(w) \/ Finish(w)
      PROVE  StartedInOrder'
  BY <1>1, <1>4 DEF Sleep, SpuriousWake, Exit, Finish
<1>5. ASSUME NEW s \in Stoppers, BeginShutdown(s) \/ NotifyAll(s) \/ Join(s)
      PROVE  StartedInOrder'
  BY <1>1, <1>5 DEF BeginShutdown, NotifyAll, Join
<1>6. CASE UNCHANGED vars
  BY <1>1, <1>6 DEF vars
<1> QED
  BY <1>2, <1>3, <1>4, <1>5, <1>6 DEF Next, WorkerStep

\* First come first served: the tasks taken so far, followed by those queued, are
\* exactly the accepted ones, in the order submit() accepted them.
THEOREM FirstComeFirstServed == Spec => []StartedInOrder
<1>1. Init => StartedInOrder
  <2>1. <<>> \in Seq(Tasks)
    OBVIOUS
  <2> QED
    BY <2>1, ConcatEmptySeq DEF Init, StartedInOrder
<1>2. TypeOK /\ StartedInOrder /\ [Next]_vars => StartedInOrder'
  BY OrderStep
<1> QED
  BY <1>1, <1>2, TypeCorrect, PTL DEF Spec
----------------------------------------------------------------------------
\* The workers are finitely many, so those on their way can be counted.
LEMMA WokenFinite == IsFiniteSet(Woken) /\ Cardinality(Woken) \in Nat
<1>1. IsFiniteSet(Workers)
  BY FS_Interval
<1>2. Woken \in SUBSET Workers
  BY DEF Woken
<1> QED
  BY <1>1, <1>2, FS_Subset, FS_CardinalityType

\* A step that sends one more worker on its way is worth one more task.
LEMMA OneMoreWoken ==
    ASSUME NEW w \in Workers, w \notin Woken, Woken' = Woken \cup {w}
    PROVE  Cardinality(Woken') = Cardinality(Woken) + 1
BY WokenFinite, FS_AddElement

\* Each push wakes a sleeper, each worker that takes a task takes one task.
LEMMA WakeupStep ==
    ASSUME TypeOK, NoLostWakeup, [Next]_vars PROVE NoLostWakeup'
<1> USE DEF pool
<1>0. /\ tasks \in Seq(Tasks) /\ Len(tasks) \in Nat
      /\ wpc \in [Workers -> {"check", "wait", "run", "exited"}]
      /\ Cardinality(Woken) \in Nat /\ IsFiniteSet(Woken)
  BY WokenFinite DEF TypeOK
<1>1. ASSUME UNCHANGED <<tasks, wpc>> PROVE NoLostWakeup'
  BY <1>1 DEF NoLostWakeup, Asleep, Woken
<1>2. ASSUME NEW t \in Tasks, Submit(t) PROVE NoLostWakeup'
  <2>1. CASE ~running
    BY <1>1, <1>2, <2>1 DEF Submit
  <2>2. CASE running
    <3>1. tasks' = Append(tasks, t) /\ NotifyOne
      BY <1>2, <2>2 DEF Submit
    <3>2. Len(tasks') = Len(tasks) + 1
      BY <1>0, <3>1, AppendProperties
    <3>3. CASE Asleep = {}
      BY <3>1, <3>3 DEF NotifyOne, NoLostWakeup, Asleep
    <3>4. CASE Asleep # {}
      <4>1. PICK w \in Asleep : wpc' = [wpc EXCEPT ![w] = "check"]
        BY <3>1, <3>4 DEF NotifyOne
      <4>2. w \in Workers /\ w \notin Woken /\ Woken' = Woken \cup {w}
        BY <1>0, <4>1 DEF Asleep, Woken
      <4>3. Cardinality(Woken') = Cardinality(Woken) + 1
        BY <4>2, OneMoreWoken
      <4> QED
        BY <1>0, <3>2, <3>4, <4>3 DEF NoLostWakeup
    <3> QED
      BY <3>3, <3>4
  <2> QED
    BY <2>1, <2>2
<1>3. ASSUME NEW w \in Workers, Sleep(w) \/ Exit(w) PROVE NoLostWakeup'
  <2>1. tasks' = <<>>
    BY <1>3 DEF Sleep, Exit, WaitPredicate, MustReturn
  <2>2. (IsFiniteSet(Woken) /\ Cardinality(Woken) \in Nat)'
    BY WokenFinite, PTL
  <2>3. Len(tasks') = 0
    BY <2>1
  <2> QED
    BY <2>2, <2>3 DEF NoLostWakeup
<1>4. ASSUME NEW w \in Workers, SpuriousWake(w) \/ Finish(w) PROVE NoLostWakeup'
  <2>1. tasks' = tasks /\ Asleep' \subseteq Asleep
        /\ w \notin Woken /\ Woken' = Woken \cup {w}
    BY <1>0, <1>4 DEF SpuriousWake, Finish, Asleep, Woken
  <2>2. Cardinality(Woken') = Cardinality(Woken) + 1
    BY <2>1, OneMoreWoken
  <2> QED
    BY <1>0, <2>1, <2>2 DEF NoLostWakeup
<1>5. ASSUME NEW w \in Workers, Take(w) PROVE NoLostWakeup'
  <2>1. tasks # <<>> /\ tasks' = Tail(tasks)
    BY <1>5 DEF Take, WaitPredicate, MustReturn, Popped
  <2>2. Len(tasks') = Len(tasks) - 1
    BY <1>0, <2>1, HeadTailProperties
  <2>3. Asleep' = Asleep /\ w \in Woken /\ Woken' = Woken \ {w}
    BY <1>0, <1>5 DEF Take, Asleep, Woken
  <2>4. Cardinality(Woken') = Cardinality(Woken) - 1
    BY <1>0, <2>3, FS_RemoveElement
  <2> QED
    BY <1>0, <2>2, <2>3, <2>4 DEF NoLostWakeup
<1>6. ASSUME NEW s \in Stoppers, NotifyAll(s) PROVE NoLostWakeup'
  BY <1>6 DEF NotifyAll, NoLostWakeup, Asleep
<1>7. ASSUME NEW s \in Stoppers, BeginShutdown(s) \/ Join(s) PROVE NoLostWakeup'
  BY <1>1, <1>7 DEF BeginShutdown, Join
<1>8. CASE UNCHANGED vars
  BY <1>1, <1>8 DEF vars
<1> QED
  BY <1>2, <1>3, <1>4, <1>5, <1>6, <1>7, <1>8 DEF Next, WorkerStep

\* notify_one() under the mutex is enough: no task waits in the queue for want of
\* a wakeup while a worker sleeps.
THEOREM WakeupsSuffice == Spec => []NoLostWakeup
<1>1. Init => NoLostWakeup
  BY DEF Init, NoLostWakeup, Asleep
<1>2. TypeOK /\ NoLostWakeup /\ [Next]_vars => NoLostWakeup'
  BY WakeupStep
<1> QED
  BY <1>1, <1>2, TypeCorrect, PTL DEF Spec
----------------------------------------------------------------------------
\* What PromisesKept needs to be inductive: no task is queued twice.
PromiseInv == PromisesKept /\ OnceEach(tasks)

LEMMA PromiseStep ==
    ASSUME TypeOK, PromiseInv, [Next]_vars PROVE PromiseInv'
<1> USE DEF pool
<1>0. /\ tasks \in Seq(Tasks) /\ NoTask \notin Tasks
      /\ cur \in [Workers -> Tasks \cup {NoTask}]
      /\ \A w \in Workers : cur[w] = NoTask <=> wpc[w] # "run"
      /\ future \in [Tasks -> {"none", "rejected", "pending", "value", "exception"}]
  BY DEF TypeOK
<1>P. /\ \A t \in Tasks : future[t] = "pending" <=>
              (t \in Elems(tasks) \/ \E w \in Workers : cur[w] = t)
      /\ \A v, w \in Workers : cur[v] = cur[w] /\ v # w => cur[v] = NoTask
      /\ \A w \in Workers : cur[w] \notin Elems(tasks)
      /\ OnceEach(tasks)
  BY DEF PromiseInv, PromisesKept, Queued, Holders, Elems
<1>Q. ASSUME \A t \in Tasks : future'[t] = "pending" <=>
                 (t \in Elems(tasks') \/ \E w \in Workers : cur'[w] = t),
             \A v, w \in Workers : cur'[v] = cur'[w] /\ v # w => cur'[v] = NoTask,
             \A w \in Workers : cur'[w] \notin Elems(tasks'),
             OnceEach(tasks')
      PROVE  PromiseInv'
  BY <1>Q DEF PromiseInv, PromisesKept, Queued, Holders, Elems, OnceEach
<1>1. ASSUME UNCHANGED <<tasks, cur, future>> PROVE PromiseInv'
  BY <1>1, <1>P, <1>Q
<1>2. ASSUME NEW t \in Tasks, Submit(t) PROVE PromiseInv'
  <2>1. future[t] = "none" /\ cur' = cur
    BY <1>2 DEF Submit
  <2>2. CASE ~running
    <3>1. future' = [future EXCEPT ![t] = "rejected"] /\ tasks' = tasks
      BY <1>2, <2>2 DEF Submit
    <3> QED
      BY <1>0, <1>P, <1>Q, <2>1, <3>1
  <2>3. CASE running
    <3>1. future' = [future EXCEPT ![t] = "pending"] /\ tasks' = Append(tasks, t)
      BY <1>2, <2>3 DEF Submit
    <3>2. t \notin Elems(tasks) /\ \A w \in Workers : cur[w] # t
      BY <1>P, <2>1
    <3>3. Elems(tasks') = Elems(tasks) \cup {t} /\ OnceEach(tasks')
      BY <1>0, <1>P, <3>1, <3>2, AppendOnce
    <3> QED
      BY <1>0, <1>P, <1>Q, <2>1, <3>1, <3>2, <3>3
  <2> QED
    BY <2>2, <2>3
<1>3. ASSUME NEW w \in Workers, Take(w) PROVE PromiseInv'
  <2>1. /\ tasks # <<>> /\ wpc[w] = "check" /\ future' = future
        /\ cur' = [cur EXCEPT ![w] = Head(tasks)] /\ tasks' = Tail(tasks)
    BY <1>3 DEF Take, WaitPredicate, MustReturn, Front, Popped
  <2>2. /\ Head(tasks) \in Tasks /\ Elems(tasks) = Elems(tasks') \cup {Head(tasks)}
        /\ OnceEach(tasks') /\ Head(tasks) \notin Elems(tasks')
    BY <1>0, <1>P, <2>1, TailOnce
  <2>3. cur[w] = NoTask /\ cur'[w] = Head(tasks)
        /\ \A v \in Workers \ {w} : cur'[v] = cur[v] /\ cur[v] # Head(tasks)
    BY <1>0, <1>P, <2>1, <2>2
  <2>4. \A t \in Tasks : future'[t] = "pending" <=>
            (t \in Elems(tasks') \/ \E v \in Workers : cur'[v] = t)
    BY <1>0, <1>P, <2>1, <2>2, <2>3
  <2>5. \A u, v \in Workers : cur'[u] = cur'[v] /\ u # v => cur'[u] = NoTask
    BY <1>P, <2>3
  <2>6. \A v \in Workers : cur'[v] \notin Elems(tasks')
    BY <1>P, <2>2, <2>3
  <2> QED
    BY <1>Q, <2>2, <2>4, <2>5, <2>6
<1>4. ASSUME NEW w \in Workers, Finish(w) PROVE PromiseInv'
  <2>1. /\ wpc[w] = "run" /\ cur' = [cur EXCEPT ![w] = NoTask] /\ tasks' = tasks
        /\ \E v \in {"value", "exception"} : future' = [future EXCEPT ![cur[w]] = v]
    BY <1>4 DEF Finish
  <2>2. cur[w] \in Tasks
    BY <1>0, <2>1
  <2>3. /\ future'[cur[w]] # "pending"
        /\ \A t \in Tasks \ {cur[w]} : future'[t] = future[t]
    BY <1>0, <2>1, <2>2
  <2>4. /\ cur'[w] = NoTask
        /\ \A v \in Workers \ {w} : cur'[v] = cur[v] /\ cur[v] # cur[w]
    BY <1>0, <1>P, <2>1, <2>2
  <2>5. \A t \in Tasks : future'[t] = "pending" <=>
            (t \in Elems(tasks') \/ \E v \in Workers : cur'[v] = t)
    BY <1>0, <1>P, <2>1, <2>2, <2>3, <2>4
  <2>6. \A v \in Workers : cur'[v] \notin Elems(tasks')
    <3>1. Elems(tasks) \subseteq Tasks
      BY <1>0, ElementOfSeq DEF Elems
    <3> QED
      BY <1>0, <1>P, <2>1, <2>4, <3>1
  <2> QED
    BY <1>P, <1>Q, <2>1, <2>4, <2>5, <2>6
<1>5. ASSUME NEW w \in Workers, Sleep(w) \/ SpuriousWake(w) \/ Exit(w) PROVE PromiseInv'
  BY <1>1, <1>5 DEF Sleep, SpuriousWake, Exit
<1>6. ASSUME NEW s \in Stoppers, BeginShutdown(s) \/ NotifyAll(s) \/ Join(s)
      PROVE  PromiseInv'
  BY <1>1, <1>6 DEF BeginShutdown, NotifyAll, Join
<1>7. CASE UNCHANGED vars
  BY <1>1, <1>7 DEF vars
<1> QED
  BY <1>2, <1>3, <1>4, <1>5, <1>6, <1>7 DEF Next, WorkerStep

LEMMA PromiseInvariant == Spec => []PromiseInv
<1>1. Init => PromiseInv
  BY DEF Init, PromiseInv, PromisesKept, Queued, Holders, OnceEach
<1>2. TypeOK /\ PromiseInv /\ [Next]_vars => PromiseInv'
  BY PromiseStep
<1> QED
  BY <1>1, <1>2, TypeCorrect, PTL DEF Spec

\* Every future that is pending belongs to one task, which is queued once or run
\* by one worker: no promise is broken or kept twice.
THEOREM PromisesAreKept == Spec => []PromisesKept
BY PromiseInvariant, PTL DEF PromiseInv
----------------------------------------------------------------------------
\* join() waits for its thread: the joined ones have exited, and stay so.
JoinedHaveExited == \A w \in 1..joined : wpc[w] = "exited"

LEMMA JoinedStep ==
    ASSUME TypeOK, JoinedHaveExited, [Next]_vars PROVE JoinedHaveExited'
<1> USE DEF pool
<1>0. joined \in 0..NumThreads /\ wpc \in [Workers -> {"check", "wait", "run", "exited"}]
  BY DEF TypeOK
<1>1. ASSUME joined' = joined, \A w \in Workers : wpc[w] = "exited" => wpc'[w] = "exited"
      PROVE  JoinedHaveExited'
  BY <1>0, <1>1 DEF JoinedHaveExited
<1>2. ASSUME NEW t \in Tasks, Submit(t) PROVE JoinedHaveExited'
  BY <1>0, <1>1, <1>2 DEF Submit, NotifyOne, Asleep
<1>3. ASSUME NEW w \in Workers,
             Sleep(w) \/ SpuriousWake(w) \/ Exit(w) \/ Take(w) \/ Finish(w)
      PROVE  JoinedHaveExited'
  BY <1>0, <1>1, <1>3 DEF Sleep, SpuriousWake, Exit, Take, Finish
<1>4. ASSUME NEW s \in Stoppers, BeginShutdown(s) \/ NotifyAll(s) PROVE JoinedHaveExited'
  BY <1>0, <1>1, <1>4 DEF BeginShutdown, NotifyAll, Asleep
<1>5. ASSUME NEW s \in Stoppers, Join(s) PROVE JoinedHaveExited'
  BY <1>0, <1>5 DEF Join, JoinedHaveExited
<1>6. CASE UNCHANGED vars
  BY <1>1, <1>6 DEF vars
<1> QED
  BY <1>2, <1>3, <1>4, <1>5, <1>6 DEF Next, WorkerStep

\* shutdown() drains: once the last thread is joined, every accepted task has run
\* to its end.
THEOREM JoiningDrains == Spec => []JoinedMeansDrained
<1>1. Init => LeftWhenDone /\ JoinedHaveExited
  BY DEF Init, LeftWhenDone, JoinedHaveExited
<1>2. TypeOK /\ LeftWhenDone /\ JoinedHaveExited /\ [Next]_vars
          => LeftWhenDone' /\ JoinedHaveExited'
  BY LeftStep, JoinedStep
<1>3. TypeOK /\ LeftWhenDone /\ JoinedHaveExited /\ PromiseInv => JoinedMeansDrained
  <2> SUFFICES ASSUME TypeOK, LeftWhenDone, JoinedHaveExited, PromisesKept,
                      joined = NumThreads, NumThreads > 0, NEW t \in Tasks
               PROVE  future[t] # "pending"
    BY DEF JoinedMeansDrained, PromiseInv
  <2>1. \A w \in Workers : wpc[w] = "exited"
    BY DEF JoinedHaveExited
  <2>2. tasks = <<>>
    BY <2>1 DEF LeftWhenDone, MustReturn
  <2>3. \A w \in Workers : cur[w] # t
    BY <2>1 DEF TypeOK
  <2> QED
    BY <2>2, <2>3 DEF PromisesKept, Queued, Holders
<1> QED
  BY <1>1, <1>2, <1>3, TypeCorrect, PromiseInvariant, PTL DEF Spec
----------------------------------------------------------------------------
\* The pool implements TaskService: every initial state is one of the service,
\* and every step is a step of the service or one that a caller cannot see.

\* The tasks that workers are running: the service's `executing`.
Executing == {cur[w] : w \in Workers} \ {NoTask}

\* A worker that holds nothing leaves room for one more running task.
LEMMA IdleWorkerLeavesRoom ==
    ASSUME TypeOK, NEW w \in Workers, cur[w] = NoTask
    PROVE  Cardinality(Executing) < NumThreads
<1> DEFINE Others == Workers \ {w}
           Held == {cur[v] : v \in Others}
           holds == [v \in Others |-> cur[v]]
<1>1. IsFiniteSet(Workers) /\ Cardinality(Workers) = NumThreads
  BY FS_Interval
<1>2. IsFiniteSet(Others) /\ Cardinality(Others) = NumThreads - 1
  BY <1>1, FS_RemoveElement
<1>3. holds \in Surjection(Others, Held)
  BY DEF Surjection
<1>4. IsFiniteSet(Held) /\ Cardinality(Held) <= Cardinality(Others)
  BY <1>2, <1>3, FS_Surjection
<1>5. Executing \in SUBSET Held
  BY DEF Executing
<1>6. Cardinality(Executing) <= Cardinality(Held) /\ IsFiniteSet(Executing)
  BY <1>4, <1>5, FS_Subset
<1>7. Cardinality(Executing) \in Nat /\ Cardinality(Held) \in Nat
  BY <1>4, <1>6, FS_CardinalityType
<1> QED
  BY <1>2, <1>4, <1>6, <1>7

\* The instance has FiniteSets' definitions under names of its own.
LEMMA SameCardinality == \A S : Service!Cardinality(S) = Cardinality(S)
BY DEF Service!Cardinality, Cardinality

LEMMA InitRefined == Init => Service!Init
BY DEF Init, Service!Init

\* Each of the pool's actions, seen through the mapping.
LEMMA StepRefined ==
    ASSUME TypeOK, PromisesKept, [Next]_vars
    PROVE  [Service!Next]_(Service!vars)
<1> USE DEF pool
<1>0. /\ tasks \in Seq(Tasks)
      /\ NoTask \notin Tasks
      /\ cur \in [Workers -> Tasks \cup {NoTask}]
      /\ \A w \in Workers : cur[w] = NoTask <=> wpc[w] # "run"
      /\ running \in BOOLEAN
  BY DEF TypeOK
<1>H. UNCHANGED <<running, tasks, cur, future>> => UNCHANGED Service!vars
  BY DEF Service!vars
<1>1. CASE UNCHANGED vars
  BY <1>H, <1>1 DEF vars
<1>2. ASSUME NEW t \in Tasks, Submit(t) PROVE Service!Accept(t) \/ Service!Refuse(t)
  BY <1>2 DEF Submit, Service!Accept, Service!Refuse
<1>3. ASSUME NEW w \in Workers, Sleep(w) \/ SpuriousWake(w) \/ Exit(w)
      PROVE  UNCHANGED Service!vars
  BY <1>3, <1>H DEF Sleep, SpuriousWake, Exit
<1>4. ASSUME NEW w \in Workers, Take(w) PROVE Service!Start
  <2>1. /\ tasks # <<>> /\ tasks' = Tail(tasks) /\ wpc[w] = "check"
        /\ cur' = [cur EXCEPT ![w] = Head(tasks)]
        /\ UNCHANGED <<running, future>>
    BY <1>4 DEF Take, Front, Popped, WaitPredicate, MustReturn
  <2>2. Head(tasks) \in Tasks
    BY <1>0, <2>1, HeadTailProperties
  <2>3. cur[w] = NoTask
    BY <1>0, <2>1
  <2>4. Service!Cardinality({cur[v] : v \in Workers} \ {NoTask}) < NumThreads
    BY <2>3, IdleWorkerLeavesRoom, SameCardinality DEF Executing
  <2>5. {cur'[v] : v \in Workers} \ {NoTask}
            = ({cur[v] : v \in Workers} \ {NoTask}) \cup {Head(tasks)}
    BY <1>0, <2>1, <2>2, <2>3
  <2> QED
    BY <2>1, <2>4, <2>5 DEF Service!Start
<1>5. ASSUME NEW w \in Workers, Finish(w) PROVE \E t \in Tasks : Service!Complete(t)
  <2>1. /\ wpc[w] = "run" /\ cur' = [cur EXCEPT ![w] = NoTask]
        /\ \E r \in {"value", "exception"} : future' = [future EXCEPT ![cur[w]] = r]
        /\ UNCHANGED <<running, tasks>>
    BY <1>5 DEF Finish
  <2>2. cur[w] \in Tasks
    BY <1>0, <2>1
  <2>3. \A v \in Workers : v # w => cur[v] # cur[w]
    BY <2>2, <1>0 DEF PromisesKept
  <2>4. {cur'[v] : v \in Workers} \ {NoTask}
            = ({cur[v] : v \in Workers} \ {NoTask}) \ {cur[w]}
    BY <1>0, <2>1, <2>2, <2>3
  <2>5. cur[w] \in {cur[v] : v \in Workers} \ {NoTask}
    BY <1>0, <2>2
  <2>6. Service!Complete(cur[w])
    BY <2>1, <2>4, <2>5 DEF Service!Complete
  <2> QED
    BY <2>2, <2>6 DEF Service!Complete
<1>6. ASSUME NEW s \in Stoppers, BeginShutdown(s)
      PROVE  Service!Close \/ UNCHANGED Service!vars
  BY <1>0, <1>6, <1>H DEF BeginShutdown, Service!Close
<1>7. ASSUME NEW s \in Stoppers, NotifyAll(s) \/ Join(s) PROVE UNCHANGED Service!vars
  BY <1>7, <1>H DEF NotifyAll, Join
<1> QED
  BY <1>1, <1>2, <1>3, <1>4, <1>5, <1>6, <1>7 DEF Next, WorkerStep, Service!Next

\* What a caller of the pool can see, the queue, the running tasks and the
\* futures, behaves as TaskService says: first come first served, no more tasks
\* at a time than threads, an outcome only for what ran, nothing accepted after
\* shutdown().  This is ImplementsTaskService without its fairness.
THEOREM PoolImplementsService == Spec => Service!Spec
<1>1. TypeOK /\ PromisesKept /\ [Next]_vars => [Service!Next]_(Service!vars)
  BY StepRefined
<1> QED
  BY <1>1, InitRefined, TypeCorrect, PromisesAreKept, PTL DEF Spec, Service!Spec
=============================================================================
