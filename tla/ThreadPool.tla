----------------------------- MODULE ThreadPool -----------------------------
(***************************************************************************)
(* src/src/core/ThreadPool.h: a fixed set of threads that take tasks from  *)
(* one queue under one mutex, sleep on one condition variable, and are     *)
(* joined by shutdown().                                                   *)
(*                                                                         *)
(* `tasks` and `running` are touched only while the mutex is held, so each *)
(* critical section is one step.  What lies between two critical sections  *)
(* of a thread (running a task, the gap between clearing `running` and     *)
(* notify_all, each join) is a step boundary.  A task is a model value:    *)
(* what it computes is irrelevant to the pool, only whether its future is  *)
(* resolved, and with a value or with the exception packaged_task caught.  *)
(***************************************************************************)
EXTENDS Naturals, Sequences, FiniteSets

CONSTANTS NumThreads,   \* the num_threads given to the constructor
          Tasks,        \* the tasks callers may submit, each at most once
          Stoppers,     \* the threads that call shutdown() (or the destructor)
          NoTask        \* "this worker holds no task"

ASSUME PoolAssumption ==
    /\ NumThreads \in Nat
    /\ IsFiniteSet(Tasks)
    /\ NoTask \notin Tasks

Workers == 1..NumThreads

VARIABLES
    running,    \* ThreadPool::running
    tasks,      \* ThreadPool::tasks, front first
    wpc,        \* where each worker is in its loop
    cur,        \* the task object local to each worker
    spc,        \* where each stopper is in shutdown()
    joined,     \* how many of `threads` have been joined, in vector order
    future,     \* the state of the future of each task
    accepted,   \* history: tasks pushed, in order
    taken       \* history: tasks popped, in order

vars == <<running, tasks, wpc, cur, spc, joined, future, accepted, taken>>
pool == <<running, spc, joined>>
----------------------------------------------------------------------------
\* A worker that has started holds no lock and is about to take the mutex and
\* evaluate the wait predicate: a thread not yet spawned is in the same state.
Init ==
    /\ running = TRUE
    /\ tasks = <<>>
    /\ wpc = [w \in Workers |-> "check"]
    /\ cur = [w \in Workers |-> NoTask]
    /\ spc = [s \in Stoppers |-> "idle"]
    /\ joined = 0
    /\ future = [t \in Tasks |-> "none"]
    /\ accepted = <<>>
    /\ taken = <<>>

Asleep == {w \in Workers : wpc[w] = "wait"}
Woken  == {w \in Workers : wpc[w] = "check"}

NotifyNobody == UNCHANGED wpc   \* mutant of NotifyOne

\* condition.notify_one(): one sleeper, if there is one, goes back to the mutex.
NotifyOne ==
    IF Asleep = {} THEN UNCHANGED wpc
                   ELSE \E w \in Asleep : wpc' = [wpc EXCEPT ![w] = "check"]

\* submit(): throws when the pool is not running, else pushes and notifies
\* before it lets the mutex go.
Submit(t) ==
    /\ future[t] = "none"
    /\ \/ /\ running
          /\ tasks' = Append(tasks, t)
          /\ accepted' = Append(accepted, t)
          /\ future' = [future EXCEPT ![t] = "pending"]
          /\ NotifyOne
       \/ /\ ~running
          /\ future' = [future EXCEPT ![t] = "rejected"]
          /\ UNCHANGED <<tasks, accepted, wpc>>
    /\ UNCHANGED <<pool, cur, taken>>
----------------------------------------------------------------------------
WaitForTask == tasks # <<>>     \* mutant of WaitPredicate: shutdown is forgotten
LeaveNow    == ~running         \* mutant of MustReturn: the queue is forgotten
KeepFront   == tasks            \* mutant of Popped: front() without pop()
Newest      == tasks[Len(tasks)] \* mutant of Front: a stack

\* The decisions of the worker loop, all made under the mutex.
WaitPredicate == ~running \/ tasks # <<>>
MustReturn    == ~running /\ tasks = <<>>
Front         == Head(tasks)
Popped        == Tail(tasks)

\* condition.wait(lock, pred): a false predicate releases the mutex and sleeps
\* in one step.
Sleep(w) ==
    /\ wpc[w] = "check" /\ ~WaitPredicate
    /\ wpc' = [wpc EXCEPT ![w] = "wait"]
    /\ UNCHANGED <<pool, tasks, cur, future, accepted, taken>>

\* The standard lets wait() wake unnotified; the predicate is evaluated again.
SpuriousWake(w) ==
    /\ wpc[w] = "wait"
    /\ wpc' = [wpc EXCEPT ![w] = "check"]
    /\ UNCHANGED <<pool, tasks, cur, future, accepted, taken>>

Exit(w) ==
    /\ wpc[w] = "check" /\ WaitPredicate /\ MustReturn
    /\ wpc' = [wpc EXCEPT ![w] = "exited"]
    /\ UNCHANGED <<pool, tasks, cur, future, accepted, taken>>

Take(w) ==
    /\ wpc[w] = "check" /\ WaitPredicate /\ ~MustReturn
    /\ cur' = [cur EXCEPT ![w] = Front]
    /\ taken' = Append(taken, Front)
    /\ tasks' = Popped
    /\ wpc' = [wpc EXCEPT ![w] = "run"]
    /\ UNCHANGED <<pool, future, accepted>>

\* Mutant of Finish: the task object outlives its loop iteration.
FinishAndKeep(w) ==
    /\ wpc[w] = "run"
    /\ \E r \in {"value", "exception"} : future' = [future EXCEPT ![cur[w]] = r]
    /\ wpc' = [wpc EXCEPT ![w] = "check"]
    /\ UNCHANGED <<pool, tasks, cur, accepted, taken>>

\* Mutant of Finish: an exception of the task is not caught by the wrapper.
FinishOrDie(w) ==
    /\ wpc[w] = "run"
    /\ \/ /\ future' = [future EXCEPT ![cur[w]] = "value"]
          /\ wpc' = [wpc EXCEPT ![w] = "check"]
       \/ /\ wpc' = [wpc EXCEPT ![w] = "exited"]
          /\ UNCHANGED future
    /\ cur' = [cur EXCEPT ![w] = NoTask]
    /\ UNCHANGED <<pool, tasks, accepted, taken>>

\* task() outside the mutex: packaged_task stores the result or the exception,
\* so no task ends its worker; the task object dies at the end of the iteration.
Finish(w) ==
    /\ wpc[w] = "run"
    /\ \E r \in {"value", "exception"} : future' = [future EXCEPT ![cur[w]] = r]
    /\ cur' = [cur EXCEPT ![w] = NoTask]
    /\ wpc' = [wpc EXCEPT ![w] = "check"]
    /\ UNCHANGED <<pool, tasks, accepted, taken>>
----------------------------------------------------------------------------
\* shutdown(), its critical section: only the first caller goes on.
BeginShutdown(s) ==
    /\ spc[s] = "idle"
    /\ running' = FALSE
    /\ spc' = [spc EXCEPT ![s] = IF running THEN "notify" ELSE "returned"]
    /\ UNCHANGED <<tasks, wpc, cur, joined, future, accepted, taken>>

\* Mutant of NotifyAll: notify_one() in its place.
NotifyJustOne(s) ==
    /\ spc[s] = "notify"
    /\ NotifyOne
    /\ spc' = [spc EXCEPT ![s] = "join"]
    /\ UNCHANGED <<running, tasks, cur, joined, future, accepted, taken>>

\* condition.notify_all(), after the mutex has been let go.
NotifyAll(s) ==
    /\ spc[s] = "notify"
    /\ wpc' = [w \in Workers |-> IF w \in Asleep THEN "check" ELSE wpc[w]]
    /\ spc' = [spc EXCEPT ![s] = "join"]
    /\ UNCHANGED <<running, tasks, cur, joined, future, accepted, taken>>

JoinedAll == joined = NumThreads

\* The join loop: each join waits for its thread to exit.
Join(s) ==
    /\ spc[s] = "join"
    /\ \/ /\ ~JoinedAll /\ wpc[joined + 1] = "exited"
          /\ joined' = joined + 1
          /\ UNCHANGED spc
       \/ /\ JoinedAll
          /\ spc' = [spc EXCEPT ![s] = "returned"]
          /\ UNCHANGED joined
    /\ UNCHANGED <<running, tasks, wpc, cur, future, accepted, taken>>
----------------------------------------------------------------------------
WorkerStep(w) == Sleep(w) \/ Exit(w) \/ Take(w) \/ Finish(w)

Next ==
    \/ \E t \in Tasks : Submit(t)
    \/ \E w \in Workers : WorkerStep(w) \/ SpuriousWake(w)
    \/ \E s \in Stoppers : BeginShutdown(s) \/ NotifyAll(s) \/ Join(s)

\* Threads that can run are eventually scheduled and tasks end.  Nobody has to
\* submit, to shut down or to be woken spuriously.
Fairness ==
    /\ \A w \in Workers : WF_vars(WorkerStep(w))
    /\ \A s \in Stoppers : WF_vars(NotifyAll(s) \/ Join(s))

Spec == Init /\ [][Next]_vars

FairSpec == Spec /\ Fairness
----------------------------------------------------------------------------
TypeOK ==
    /\ running \in BOOLEAN
    /\ tasks \in Seq(Tasks) /\ accepted \in Seq(Tasks) /\ taken \in Seq(Tasks)
    /\ wpc \in [Workers -> {"check", "wait", "run", "exited"}]
    /\ cur \in [Workers -> Tasks \cup {NoTask}]
    /\ \A w \in Workers : cur[w] = NoTask <=> wpc[w] # "run"
    /\ spc \in [Stoppers -> {"idle", "notify", "join", "returned"}]
    /\ joined \in 0..NumThreads
    /\ future \in [Tasks -> {"none", "rejected", "pending", "value", "exception"}]

\* Tasks are started in the order in which submit() accepted them, and between
\* the queue and the workers none is lost, doubled or overtaken.
StartedInOrder == taken \o tasks = accepted

Queued  == {tasks[i] : i \in 1..Len(tasks)}
Holders(t) == {w \in Workers : cur[w] = t}

\* A future is pending exactly as long as its task is queued or is run by one
\* worker: nobody waits on a promise that no thread is going to keep, and no
\* promise is kept twice (packaged_task would throw), whatever tasks throw.
PromisesKept ==
    /\ \A t \in Tasks : future[t] = "pending" <=> (t \in Queued \/ Holders(t) # {})
    /\ \A v, w \in Workers : cur[v] = cur[w] /\ v # w => cur[v] = NoTask
    /\ \A w \in Workers : cur[w] \notin Queued

\* No lost wakeup: while a worker sleeps, every queued task has a woken worker
\* of its own on its way to the mutex.
NoLostWakeup == Asleep # {} => Len(tasks) <= Cardinality(Woken)

\* Once the shutdown flag is set and notify_all has been called no worker
\* sleeps: the gap between the flag and the notification strands nobody.
NobodyStranded ==
    (~running /\ \A s \in Stoppers : spc[s] # "notify") => Asleep = {}

\* A thread leaves its loop for good only when the queue is empty and closed.
LeftWhenDone == \A w \in Workers : wpc[w] = "exited" => MustReturn

\* Joining drains: a thread that has exited saw an empty queue of a pool that
\* takes no more tasks, so after the last join every accepted task has run.
JoinedMeansDrained ==
    /\ LeftWhenDone
    /\ joined = NumThreads /\ NumThreads > 0 =>
           \A t \in Tasks : future[t] # "pending"

\* Every accepted task is run to its end, shutdown or not.
AcceptedRuns == \A t \in Tasks : future[t] = "pending" ~> future[t] \in {"value", "exception"}

\* A shutdown() that has begun returns.
ShutdownReturns == \A s \in Stoppers : spc[s] = "notify" ~> spc[s] = "returned"

Service == INSTANCE TaskService
    WITH Capacity <- NumThreads, open <- running, queue <- tasks,
         executing <- {cur[w] : w \in Workers} \ {NoTask}, outcome <- future

\* The pool, seen through its queue, the workers' tasks and the futures, is the
\* abstract service, with its fairness: no thread schedule, spurious wakeup or
\* racing shutdown() makes a difference a caller can see.
ImplementsTaskService == Service!FairSpec
=============================================================================
