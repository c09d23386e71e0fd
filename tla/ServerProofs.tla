---------------------------- MODULE ServerProofs ----------------------------
(***************************************************************************)
(* The safety properties of Server, for any number of clients, workers,    *)
(* descriptors and waiting tasks.                                          *)
(***************************************************************************)
EXTENDS Server, ProofLemmas

USE ServerAssumption DEF Kinds, Fds, NoFd, Conns, env, main, work

\* What accept(), socket() and open() return while any descriptor is free.
LEMMA LowestFreeIsFree ==
    ASSUME FreeFds # {} PROVE LowestFree \in FreeFds
<1>1. FreeFds \in SUBSET Nat
  BY DEF FreeFds
<1>2. \E f \in FreeFds : \A g \in FreeFds : f <= g
  BY <1>1, LeastElement
<1> QED
  BY <1>2 DEF LowestFree

\* Taking a task keeps the types of the queue and gives a job.
LEMMA TakeTyped ==
    ASSUME TypeOK, tasks # <<>>
    PROVE  /\ Head(tasks) \in Jobs /\ Tail(tasks) \in Seq(Jobs)
           /\ Len(Tail(tasks)) <= MaxTasks
<1>1. tasks \in Seq(Jobs) /\ Len(tasks) <= MaxTasks /\ Len(tasks) \in Nat
  BY LenProperties DEF TypeOK
<1>2. Head(tasks) \in Jobs /\ Tail(tasks) \in Seq(Jobs) /\ Len(Tail(tasks)) = Len(tasks) - 1
  BY <1>1, HeadTailProperties
<1> QED
  BY <1>1, <1>2

\* Submitting one, too.
LEMMA SubmitTyped ==
    ASSUME TypeOK, NEW k \in Kinds, NEW f \in Fds, NEW c \in Conns \cup {None}, Submit(k, f, c)
    PROVE  tasks' \in Seq(Jobs) /\ Len(tasks') <= MaxTasks
<1>1. [kind |-> k, fd |-> f, conn |-> c] \in Jobs
  BY DEF Jobs
<1>2. tasks \in Seq(Jobs) /\ Len(tasks) \in Nat /\ Len(tasks) < MaxTasks
  BY LenProperties DEF TypeOK, Submit
<1>3. tasks' = Append(tasks, [kind |-> k, fd |-> f, conn |-> c])
  BY DEF Submit
<1> QED
  BY <1>1, <1>2, <1>3, AppendProperties

LEMMA TypeStep == ASSUME TypeOK, [Next]_vars PROVE TypeOK'
<1>1. CASE UNCHANGED vars
  BY <1>1 DEF vars, TypeOK
<1>2. ASSUME NEW c \in Conns, Connect(c) \/ ClientStep(c) \/ Vanish(c) PROVE TypeOK'
  BY <1>2 DEF TypeOK, Connect, ClientStep, Ask, HangUp, SeeEnd, Vanish
<1>3. CASE Sigterm \/ EnterWait \/ EventsHandled \/ TestRunning \/ Return
  BY <1>3 DEF TypeOK, Sigterm, EnterWait, EventsHandled, TestRunning, AfterTest, Return
<1>4. CASE WaitReturns
  BY <1>4 DEF TypeOK, WaitReturns, Ready
<1>5. ASSUME NEW k \in Kinds, Accept(k) PROVE TypeOK'
  <2>1. events' \subseteq Kinds /\ backlog' \subseteq Conns /\ harmed' \in BOOLEAN
        /\ UNCHANGED <<client, isRunning, mpc, wpc, job, backend>>
    BY <1>5 DEF TypeOK, Accept
  <2>2. /\ fdt' \in [Fds -> Conns \cup Workers \cup {Free, Stdin}]
        /\ tasks' \in Seq(Jobs) /\ Len(tasks') <= MaxTasks
    <3>1. ASSUME NEW c \in backlog \cap ConnsOf(k), FreeFds # {},
                 fdt' = [fdt EXCEPT ![LowestFree] = c], Submit(k, LowestFree, c)
          PROVE  <2>2
      <4>1. LowestFree \in Fds /\ c \in Conns
        BY <3>1, LowestFreeIsFree DEF TypeOK, FreeFds
      <4> QED
        BY <3>1, <4>1, SubmitTyped DEF TypeOK
    <3>2. ASSUME Submit(k, 0, None), fdt' = fdt PROVE <2>2
      BY <3>2, SubmitTyped DEF TypeOK
    <3>3. ASSUME UNCHANGED <<fdt, tasks>> PROVE <2>2
      BY <3>3 DEF TypeOK
    <3> QED
      BY <1>5, <3>1, <3>2, <3>3 DEF Accept
  <2> QED
    BY <2>1, <2>2 DEF TypeOK
<1>6. ASSUME NEW w \in Workers, Begin(w) PROVE TypeOK'
  <2>1. tasks # <<>> /\ wpc[w] = "idle"
    BY <1>6 DEF Begin
  <2>2. job' = [job EXCEPT ![w] = Head(tasks)] /\ tasks' = Tail(tasks)
        /\ (wpc' = [wpc EXCEPT ![w] = "read"] \/ wpc' = [wpc EXCEPT ![w] = "tls"])
        /\ UNCHANGED <<client, backlog, isRunning, mpc, events, backend, fdt, harmed>>
    BY <1>6 DEF Begin, Goto
  <2> HIDE DEF Kinds, Fds, NoFd
  <2> QED
    BY <2>1, <2>2, TakeTyped DEF TypeOK
<1>7. ASSUME NEW w \in Workers, Handshake(w) \/ Read(w) PROVE TypeOK'
  BY <1>7 DEF TypeOK, Handshake, Read, Goto, Closing
<1>8. ASSUME NEW w \in Workers, Serve(w) PROVE TypeOK'
  <2>1. CASE Goto(w, "close") /\ UNCHANGED <<fdt, backend>>
    BY <1>8, <2>1 DEF TypeOK, Serve, Goto
  <2>2. CASE FreeFds # {} /\ fdt' = [fdt EXCEPT ![LowestFree] = w]
             /\ backend' = [backend EXCEPT ![w] = LowestFree] /\ Goto(w, "relay")
    <3>1. LowestFree \in Fds /\ LowestFree # NoFd
      BY <2>2, LowestFreeIsFree DEF FreeFds
    <3> QED
      BY <1>8, <2>2, <3>1 DEF TypeOK, Serve, Goto
  <2> QED
    BY <1>8, <2>1, <2>2 DEF Serve
<1>9. ASSUME NEW w \in Workers, Relay(w) PROVE TypeOK'
  BY <1>9 DEF TypeOK, Relay, Goto, Closing
<1>10. ASSUME NEW w \in Workers, Close(w) \/ Destroy(w) PROVE TypeOK'
  <2>1. NoJob \in Jobs /\ FdAfterClose(w) \in Fds \cup {NoFd}
    BY DEF TypeOK, NoJob, Jobs, FdAfterClose
  <2>2. job' \in [Workers -> Jobs]
    <3>1. CASE Close(w)
      <4>1. [kind |-> job[w].kind, fd |-> FdAfterClose(w), conn |-> job[w].conn] \in Jobs
        BY <2>1 DEF TypeOK, Jobs
      <4> QED
        BY <3>1, <4>1 DEF TypeOK, Close
    <3>2. CASE Destroy(w)
      BY <2>1, <3>2 DEF TypeOK, Destroy
    <3> QED
      BY <1>10, <3>1, <3>2
  <2>3. fdt' \in [Fds -> Conns \cup Workers \cup {Free, Stdin}]
    BY <1>10 DEF TypeOK, Close, Destroy, Closing
  <2> QED
    BY <1>10, <2>2, <2>3 DEF TypeOK, Close, Destroy, Goto
<1>11. ASSUME NEW w \in Workers, Sigpipe(w) PROVE TypeOK'
  BY <1>11 DEF TypeOK, Sigpipe
<1> QED
  BY <1>1, <1>2, <1>3, <1>4, <1>5, <1>6, <1>7, <1>8, <1>9, <1>10, <1>11
     DEF Next, MainStep, WorkerStep, Progress, AnswerStep

\* Every state has the types of the model, and a worker holds a second
\* descriptor exactly while it relays.
THEOREM TypeCorrect == Spec => []TypeOK
<1>1. Init => TypeOK
  <2>1. <<>> \in Seq(Jobs) /\ Len(<<>>) = 0
    OBVIOUS
  <2> QED
    BY <2>1 DEF Init, TypeOK, NoJob, Jobs
<1> QED
  BY <1>1, TypeStep, PTL DEF Spec
----------------------------------------------------------------------------
\* What EveryFdHasACloser needs to be inductive: a worker that takes a task has
\* nothing in its hands, which the task would replace.
IdleHoldsNothing == \A w \in Workers : wpc[w] = "idle" => job[w] = NoJob

CloserInv == EveryFdHasACloser /\ IdleHoldsNothing

LEMMA CloserStep ==
    ASSUME TypeOK, CloserInv, [Next]_vars PROVE CloserInv'
<1> USE DEF CloserInv
<1>1. ASSUME UNCHANGED <<tasks, wpc, job, backend, fdt>> PROVE CloserInv'
  BY <1>1 DEF EveryFdHasACloser, IdleHoldsNothing, Queued
<1>2. ASSUME NEW k \in Kinds, Accept(k) PROVE CloserInv'
  <2>1. UNCHANGED <<wpc, job, backend>>
    BY <1>2 DEF Accept
  <2>2. ASSUME NEW f \in Fds, NEW c \in Conns \cup {None}, Submit(k, f, c),
               fdt' = [fdt EXCEPT ![f] = c] \/ fdt' = fdt
        PROVE  EveryFdHasACloser'
    <3> DEFINE j == [kind |-> k, fd |-> f, conn |-> c]
    <3>1. j \in Jobs /\ tasks' = Append(tasks, j) /\ j.fd = f
      BY <2>2 DEF Submit, Jobs
    <3>2. Queued' = Queued \cup {j}
      <4>1. j \in Jobs /\ tasks \in Seq(Jobs)
        BY <3>1 DEF TypeOK
      <4> HIDE DEF j
      <4>2. Elems(Append(tasks, j)) = Elems(tasks) \cup {j}
        BY <4>1, AppendOnce
      <4> QED
        BY <3>1, <4>2 DEF Queued, Elems
    <3> HIDE DEF j
    <3>3. \A g \in Fds : fdt'[g] = fdt[g] \/ g = f
      BY <2>2 DEF TypeOK
    <3> QED
      BY <2>1, <3>1, <3>2, <3>3 DEF EveryFdHasACloser
  <2>3. CASE UNCHANGED <<fdt, tasks>>
    BY <1>1, <2>1, <2>3
  <2>4. EveryFdHasACloser'
    <3>1. ASSUME NEW c \in backlog \cap ConnsOf(k), FreeFds # {},
                 fdt' = [fdt EXCEPT ![LowestFree] = c], Submit(k, LowestFree, c)
          PROVE  EveryFdHasACloser'
      <4>1. LowestFree \in Fds /\ c \in Conns
        BY <3>1, LowestFreeIsFree DEF TypeOK, FreeFds
      <4> QED
        BY <2>2, <3>1, <4>1
    <3>2. ASSUME Submit(k, 0, None), fdt' = fdt PROVE EveryFdHasACloser'
      BY <2>2, <3>2
    <3> QED
      BY <1>2, <2>3, <3>1, <3>2 DEF Accept
  <2> QED
    BY <2>1, <2>4 DEF IdleHoldsNothing
<1>3. ASSUME NEW w \in Workers, Begin(w) PROVE CloserInv'
  <2>1. tasks # <<>> /\ tasks' = Tail(tasks) /\ UNCHANGED <<fdt, backend>>
        /\ job' = [job EXCEPT ![w] = Head(tasks)] /\ job[w] = NoJob /\ wpc[w] = "idle"
    BY <1>3 DEF Begin, IdleHoldsNothing
  <2>2. Queued = Queued' \cup {Head(tasks)}
    <3>1. tasks \in Seq(Jobs)
      BY DEF TypeOK
    <3>2. Elems(tasks) = Elems(Tail(tasks)) \cup {Head(tasks)}
      BY <2>1, <3>1, TailOnce
    <3> QED
      BY <2>1, <3>2 DEF Queued, Elems
  <2>3. job'[w] = Head(tasks) /\ \A v \in Workers \ {w} : job'[v] = job[v]
    BY <2>1 DEF TypeOK
  <2>4. job[w].fd \notin Fds /\ backend[w] \notin Fds
    BY <2>1 DEF TypeOK, NoJob
  <2>5. EveryFdHasACloser'
    <3> SUFFICES ASSUME NEW f \in Fds, fdt[f] \notin {Free, Stdin}
                 PROVE  \/ \E j \in Queued' : j.fd = f
                        \/ \E v \in Workers : f \in {job'[v].fd, backend[v]}
      BY <2>1 DEF EveryFdHasACloser
    <3>1. CASE \E j \in Queued : j.fd = f
      BY <2>2, <2>3, <3>1
    <3>2. CASE \E v \in Workers : f \in {job[v].fd, backend[v]}
      BY <2>3, <2>4, <3>2
    <3> QED
      BY <3>1, <3>2 DEF EveryFdHasACloser
  <2>6. IdleHoldsNothing'
    BY <1>3, <2>3 DEF IdleHoldsNothing, Begin, Goto, TypeOK
  <2> QED
    BY <2>5, <2>6
<1>4. ASSUME NEW w \in Workers, Handshake(w) \/ Read(w) PROVE CloserInv'
  <2>1. UNCHANGED <<tasks, job, backend>> /\ wpc[w] # "idle"
    BY <1>4 DEF Handshake, Read
  <2>2. IdleHoldsNothing'
    BY <1>4, <2>1 DEF IdleHoldsNothing, Handshake, Read, Goto, TypeOK
  <2>3. \A f \in Fds : fdt'[f] \in {fdt[f], Free}
    BY <1>4 DEF Handshake, Read, Closing, TypeOK
  <2> QED
    BY <2>1, <2>2, <2>3 DEF EveryFdHasACloser, Queued
<1>5. ASSUME NEW w \in Workers, Serve(w) PROVE CloserInv'
  <2>1. UNCHANGED <<tasks, job>> /\ wpc[w] = "serve" /\ backend[w] \notin Fds
    BY <1>5 DEF Serve, TypeOK
  <2>2. IdleHoldsNothing'
    BY <1>5, <2>1 DEF IdleHoldsNothing, Serve, Goto, TypeOK
  <2>3. CASE UNCHANGED <<fdt, backend>>
    BY <2>1, <2>2, <2>3 DEF EveryFdHasACloser, Queued
  <2>4. CASE FreeFds # {} /\ fdt' = [fdt EXCEPT ![LowestFree] = w]
             /\ backend' = [backend EXCEPT ![w] = LowestFree]
    <3>1. LowestFree \in Fds
      BY <2>4, LowestFreeIsFree DEF FreeFds
    <3>2. \A f \in Fds : f # LowestFree => fdt'[f] = fdt[f]
      BY <2>4, <3>1 DEF TypeOK
    <3>3. backend'[w] = LowestFree /\ \A v \in Workers \ {w} : backend'[v] = backend[v]
      BY <2>4 DEF TypeOK
    <3>4. EveryFdHasACloser'
      BY <2>1, <3>1, <3>2, <3>3 DEF EveryFdHasACloser, Queued
    <3> QED
      BY <2>2, <3>4
  <2> QED
    BY <1>5, <2>3, <2>4 DEF Serve
<1>6. ASSUME NEW w \in Workers, Relay(w) PROVE CloserInv'
  <2>1. UNCHANGED <<tasks, job>> /\ fdt' = [fdt EXCEPT ![backend[w]] = Free]
        /\ backend' = [backend EXCEPT ![w] = NoFd] /\ wpc[w] = "relay"
    BY <1>6 DEF Relay, Closing
  <2>2. backend[w] \in Fds
    BY <2>1 DEF TypeOK
  <2>3. \A f \in Fds : fdt'[f] = IF f = backend[w] THEN Free ELSE fdt[f]
    BY <2>1, <2>2 DEF TypeOK
  <2>4. \A v \in Workers \ {w} : backend'[v] = backend[v]
    BY <2>1 DEF TypeOK
  <2>5. IdleHoldsNothing'
    BY <1>6, <2>1 DEF IdleHoldsNothing, Relay, Goto, TypeOK
  <2> QED
    BY <2>1, <2>3, <2>4, <2>5 DEF EveryFdHasACloser, Queued
<1>7. ASSUME NEW w \in Workers, Close(w) \/ Destroy(w) PROVE CloserInv'
  <2>1. UNCHANGED <<tasks, backend>> /\ wpc[w] # "idle"
    BY <1>7 DEF Close, Destroy
  <2>2. \A f \in Fds : fdt'[f] = IF f = job[w].fd THEN Free ELSE fdt[f]
    BY <1>7 DEF Close, Destroy, Closing, TypeOK
  <2>3. \A v \in Workers \ {w} : job'[v] = job[v]
    BY <1>7 DEF Close, Destroy, TypeOK
  <2>4. IdleHoldsNothing'
    BY <1>7, <2>1, <2>3 DEF IdleHoldsNothing, Close, Destroy, Goto, TypeOK
  <2> QED
    BY <2>1, <2>2, <2>3, <2>4 DEF EveryFdHasACloser, Queued
<1>8. ASSUME NEW c \in Conns, Connect(c) \/ ClientStep(c) \/ Vanish(c) PROVE CloserInv'
  BY <1>1, <1>8 DEF Connect, ClientStep, Ask, HangUp, SeeEnd, Vanish
<1>9. CASE Sigterm \/ EnterWait \/ WaitReturns \/ EventsHandled \/ TestRunning \/ Return
  BY <1>1, <1>9 DEF Sigterm, EnterWait, WaitReturns, EventsHandled, TestRunning, Return
<1>10. ASSUME NEW w \in Workers, Sigpipe(w) PROVE CloserInv'
  BY <1>1, <1>10 DEF Sigpipe
<1>11. CASE UNCHANGED vars
  BY <1>1, <1>11 DEF vars
<1> QED
  BY <1>2, <1>3, <1>4, <1>5, <1>6, <1>7, <1>8, <1>9, <1>10, <1>11
     DEF Next, MainStep, WorkerStep, Progress, AnswerStep

LEMMA ClosersInvariant == Spec => []CloserInv
<1>1. Init => CloserInv
  BY DEF Init, CloserInv, EveryFdHasACloser, IdleHoldsNothing
<1>2. TypeOK /\ CloserInv /\ [Next]_vars => CloserInv'
  BY CloserStep
<1> QED
  BY <1>1, <1>2, TypeCorrect, PTL DEF Spec

\* Whatever clients do, however many descriptors there are and whoever closes a
\* number twice: no descriptor is open that no task and no worker will close.
THEOREM NoDescriptorLeaks == Spec => []EveryFdHasACloser
BY ClosersInvariant, PTL DEF CloserInv
----------------------------------------------------------------------------
\* The pool was drained before startListen() returned, and nothing is submitted
\* to it or begun afterwards.
NothingLeftToDo == mpc = "returned" => Drained

LEMMA NothingLeftStep ==
    ASSUME TypeOK, NothingLeftToDo, [Next]_vars PROVE NothingLeftToDo'
<1> USE DEF NothingLeftToDo, Drained, Idle
<1>1. ASSUME UNCHANGED <<mpc, tasks, wpc>> PROVE NothingLeftToDo'
  BY <1>1
<1>2. CASE Sigterm \/ EnterWait \/ WaitReturns \/ EventsHandled \/ TestRunning \/ Return
  BY <1>2 DEF Sigterm, EnterWait, WaitReturns, EventsHandled, TestRunning, AfterTest, Return
<1>3. ASSUME NEW k \in Kinds, Accept(k) PROVE NothingLeftToDo'
  BY <1>3 DEF Accept
<1>4. ASSUME NEW w \in Workers, WorkerStep(w) PROVE NothingLeftToDo'
  <2>1. mpc' = mpc /\ (wpc[w] # "idle" \/ tasks # <<>>)
    BY <1>4 DEF WorkerStep, Progress, AnswerStep, Begin, Handshake, Read, Serve, Relay, Close,
           Destroy
  <2> QED
    BY <2>1
<1>5. ASSUME NEW w \in Workers, Sigpipe(w) PROVE NothingLeftToDo'
  BY <1>5 DEF Sigpipe
<1>6. ASSUME NEW c \in Conns, Connect(c) \/ ClientStep(c) \/ Vanish(c) PROVE NothingLeftToDo'
  BY <1>1, <1>6 DEF Connect, ClientStep, Ask, HangUp, SeeEnd, Vanish
<1>7. CASE UNCHANGED vars
  BY <1>1, <1>7 DEF vars
<1> QED
  BY <1>2, <1>3, <1>4, <1>5, <1>6, <1>7 DEF Next, MainStep

\* When startListen() returns, every connection it has accepted is closed: the
\* drained pool holds no descriptor, and nobody else does.
THEOREM ReturnedIsDone == Spec => []ReturnedMeansDone
<1>1. Init => NothingLeftToDo
  BY DEF Init, NothingLeftToDo
<1>2. TypeOK /\ NothingLeftToDo /\ [Next]_vars => NothingLeftToDo'
  BY NothingLeftStep
<1>3. TypeOK /\ NothingLeftToDo /\ CloserInv => ReturnedMeansDone
  <2> SUFFICES ASSUME TypeOK, CloserInv, Drained, NEW c \in Conns, NEW f \in Fds, fdt[f] = c
               PROVE  FALSE
    BY DEF NothingLeftToDo, ReturnedMeansDone, Open, Drained
  <2>1. Queued = {}
    BY DEF Queued, Drained
  <2>2. \A w \in Workers : job[w] = NoJob /\ backend[w] = NoFd
    BY DEF Drained, Idle, CloserInv, IdleHoldsNothing, TypeOK
  <2>3. \A w \in Workers : f \notin {job[w].fd, backend[w]}
    BY <2>2 DEF NoJob
  <2> QED
    BY <2>1, <2>3 DEF CloserInv, EveryFdHasACloser
<1> QED
  BY <1>1, <1>2, <1>3, TypeCorrect, ClosersInvariant, PTL DEF Spec
----------------------------------------------------------------------------
\* The object of a worker that is at work, and has not closed it yet.
Active(w) == wpc[w] \notin {"idle", "destroy"}

\* No client and no worker has two descriptors.
OneFdEach ==
    /\ \A f, g \in Fds : fdt[f] = fdt[g] /\ fdt[f] \in Conns => f = g
    /\ \A f \in Fds : fdt[f] \in Workers => backend[fdt[f]] = f

\* Who has not come yet, or waits to be accepted, has no descriptor and no object.
WaitingHaveNone ==
    \A c \in Conns : c \in backlog \/ client[c] = "away" =>
        ~Open(c) /\ \A w \in Workers : job[w].conn # c

AwayAreNotWaiting == \A c \in backlog : client[c] # "away"

OwnsItsFd(j) == j.conn \in Conns /\ j.fd \in Fds /\ fdt[j.fd] = j.conn

JobsOwnTheirFds ==
    /\ \A i \in 1..Len(tasks) : OwnsItsFd(tasks[i])
    /\ \A w \in Workers : Active(w) => OwnsItsFd(job[w])
    /\ \A w \in Workers : backend[w] # NoFd => fdt[backend[w]] = w

\* No connection has two objects: the one that closed it would leave the other with
\* a number that may soon be a stranger's.
OneJobEach ==
    /\ \A i, j \in 1..Len(tasks) : tasks[i].conn = tasks[j].conn => i = j
    /\ \A i \in 1..Len(tasks), w \in Workers : tasks[i].conn # job[w].conn
    /\ \A v, w \in Workers : job[v].conn = job[w].conn /\ job[v].conn # None => v = w

Own ==
    /\ OneFdEach /\ WaitingHaveNone /\ AwayAreNotWaiting
    /\ JobsOwnTheirFds /\ OneJobEach /\ IdleHoldsNothing

OwnInv == harmed \/ Own

LEMMA OwnAcceptStep ==
    ASSUME TypeOK, Own, ~harmed', NEW k \in Kinds, Accept(k) PROVE Own'
<1> USE DEF Own
<1>0. UNCHANGED <<client, wpc, job, backend>>
  BY DEF Accept
<1>1. CASE UNCHANGED <<fdt, backlog, tasks>>
  BY <1>0, <1>1 DEF OneFdEach, WaitingHaveNone, AwayAreNotWaiting, JobsOwnTheirFds, OneJobEach,
     IdleHoldsNothing, OwnsItsFd, Active, Open
<1>2. ASSUME NEW c \in backlog \cap ConnsOf(k), FreeFds # {},
             fdt' = [fdt EXCEPT ![LowestFree] = c], backlog' = backlog \ {c},
             Submit(k, LowestFree, c)
      PROVE  Own'
  <2> DEFINE f == LowestFree
             j == [kind |-> k, fd |-> f, conn |-> c]
  <2>1. /\ f \in Fds /\ fdt[f] = Free /\ c \in Conns /\ ~Open(c) /\ client[c] # "away"
        /\ \A w \in Workers : job[w].conn # c
    BY <1>2, LowestFreeIsFree DEF FreeFds, TypeOK, WaitingHaveNone, AwayAreNotWaiting
  <2>2. /\ Len(tasks) \in Nat /\ Len(tasks') = Len(tasks) + 1 /\ tasks'[Len(tasks) + 1] = j
        /\ \A i \in 1..Len(tasks) : tasks'[i] = tasks[i] /\ tasks[i] \in Jobs
    <3>1. j \in Jobs /\ tasks \in Seq(Jobs) /\ tasks' = Append(tasks, j)
      BY <1>2, <2>1 DEF Jobs, Submit, TypeOK
    <3> HIDE DEF j
    <3> QED
      BY <3>1, AppendProperties, LenProperties
  <2>3. j.fd = f /\ j.conn = c
    OBVIOUS
  <2> HIDE DEF f, j
  <2>4. \A g \in Fds : fdt'[g] = IF g = f THEN c ELSE fdt[g]
    BY <1>2 DEF TypeOK, f
  <2>5. OneFdEach'
    BY <1>0, <2>1, <2>4 DEF OneFdEach, Open
  <2>6. WaitingHaveNone' /\ AwayAreNotWaiting'
    BY <1>0, <1>2, <2>1, <2>4 DEF WaitingHaveNone, AwayAreNotWaiting, Open, TypeOK
  <2>7. \A i \in 1..Len(tasks) : tasks[i].fd # f /\ tasks[i].conn # c
    BY <2>1 DEF JobsOwnTheirFds, OwnsItsFd, Open
  <2>8. \A w \in Workers : (Active(w) => job[w].fd # f) /\ backend[w] # f
    BY <2>1 DEF JobsOwnTheirFds, OwnsItsFd
  <2>9. JobsOwnTheirFds'
    <3>1. ASSUME NEW i \in 1..Len(tasks')
          PROVE  /\ tasks'[i].conn \in Conns /\ tasks'[i].fd \in Fds
                 /\ fdt'[tasks'[i].fd] = tasks'[i].conn
      <4>1. CASE i = Len(tasks) + 1
        BY <2>1, <2>2, <2>3, <2>4, <4>1 DEF OwnsItsFd
      <4>2. CASE i \in 1..Len(tasks)
        BY <2>2, <2>4, <2>7, <4>2 DEF OwnsItsFd, JobsOwnTheirFds
      <4> QED
        BY <2>2, <4>1, <4>2
    <3> QED
      BY <1>0, <2>4, <2>8, <3>1 DEF JobsOwnTheirFds, OwnsItsFd, Active, TypeOK
  <2>10. OneJobEach'
    BY <1>0, <2>1, <2>2, <2>3, <2>7 DEF OneJobEach
  <2> QED
    BY <1>0, <2>5, <2>6, <2>9, <2>10 DEF IdleHoldsNothing
<1> QED
  BY <1>1, <1>2 DEF Accept

\* A task is taken: the job goes from the queue to the worker, and with it its
\* descriptor.
LEMMA OwnBeginStep ==
    ASSUME TypeOK, Own, NEW w \in Workers, Begin(w) PROVE Own'
<1> USE DEF Own
<1>0. UNCHANGED <<client, backlog, backend, fdt>> /\ tasks # <<>> /\ wpc[w] = "idle"
  BY DEF Begin
<1>1. /\ Len(tasks) \in Nat \ {0} /\ Len(tasks') = Len(tasks) - 1 /\ Head(tasks) = tasks[1]
      /\ \A i \in 1..Len(tasks') : tasks'[i] = tasks[i + 1]
  <2>1. tasks \in Seq(Jobs) /\ tasks' = Tail(tasks)
    BY DEF Begin, TypeOK
  <2> QED
    BY <1>0, <2>1, HeadTailProperties, EmptySeq
<1>2. job'[w] = tasks[1] /\ \A v \in Workers \ {w} : job'[v] = job[v]
  BY <1>1 DEF Begin, TypeOK
<1>3. wpc'[w] # "idle" /\ \A v \in Workers \ {w} : wpc'[v] = wpc[v]
  BY DEF Begin, Goto, TypeOK
<1>4. OwnsItsFd(tasks[1]) /\ 1 \in 1..Len(tasks)
  BY <1>1 DEF JobsOwnTheirFds
<1>5. \A i \in 1..Len(tasks') : i + 1 \in 1..Len(tasks) /\ i + 1 # 1
  BY <1>1
<1>6. JobsOwnTheirFds'
  <2>1. \A i \in 1..Len(tasks') : OwnsItsFd(tasks[i + 1])
    BY <1>5 DEF JobsOwnTheirFds
  <2> QED
    BY <1>0, <1>1, <1>2, <1>3, <1>4, <2>1 DEF JobsOwnTheirFds, OwnsItsFd, Active
<1>7. OneJobEach'
  <2>1. \A i, j \in 1..Len(tasks') : tasks'[i].conn = tasks'[j].conn => i = j
    <3>1. \A i, j \in 1..Len(tasks') : i + 1 = j + 1 => i = j
      OBVIOUS
    <3> QED
      BY <1>1, <1>5, <3>1 DEF OneJobEach
  <2>2. \A i \in 1..Len(tasks'), v \in Workers : tasks'[i].conn # job'[v].conn
    BY <1>1, <1>2, <1>4, <1>5 DEF OneJobEach
  <2>3. \A u, v \in Workers : job'[u].conn = job'[v].conn /\ job'[u].conn # None => u = v
    BY <1>2, <1>4 DEF OneJobEach
  <2> QED
    BY <2>1, <2>2, <2>3 DEF OneJobEach
<1>8. WaitingHaveNone'
  <2>1. Open(tasks[1].conn) /\ tasks[1].conn \in Conns
    BY <1>4 DEF OwnsItsFd, Open
  <2> QED
    BY <1>0, <1>2, <2>1 DEF WaitingHaveNone, Open
<1>9. OneFdEach' /\ AwayAreNotWaiting'
  BY <1>0 DEF OneFdEach, AwayAreNotWaiting
<1> QED
  BY <1>2, <1>3, <1>6, <1>7, <1>8, <1>9 DEF IdleHoldsNothing

\* A worker's own descriptor is closed, or nothing is: nobody else's object has it.
\* This is so in the constructor, in close(), and in ~Connection if it does no harm.
LEMMA OwnCloseStep ==
    ASSUME TypeOK, Own, NEW w \in Workers, wpc[w] # "idle", wpc'[w] \in {"destroy", "idle"},
           UNCHANGED <<client, backlog, tasks, backend>>,
           job[w].fd # NoFd => ~Stranger(w),
           job'[w].conn \in {job[w].conn, None}, wpc'[w] = "idle" => job'[w] = NoJob,
           \A v \in Workers \ {w} : job'[v] = job[v] /\ wpc'[v] = wpc[v],
           \A g \in Fds : fdt'[g] = IF g = job[w].fd THEN Free ELSE fdt[g]
    PROVE  Own'
<1> USE DEF Own
<1> DEFINE f == job[w].fd
<1>1. f \in Fds => fdt[f] \in {job[w].conn, Free} /\ job[w].conn \notin Workers
  BY DEF Stranger, Peer, TypeOK, Jobs
<1>2. /\ \A i \in 1..Len(tasks) : tasks[i].fd # f
      /\ \A v \in Workers \ {w} : Active(v) => job[v].fd # f
      /\ \A v \in Workers : backend[v] # NoFd => backend[v] # f
  <2>1. \A i \in 1..Len(tasks) : tasks[i].fd \in Fds /\ fdt[tasks[i].fd] \notin {job[w].conn, Free}
    BY DEF OneJobEach, JobsOwnTheirFds, OwnsItsFd
  <2>2. \A v \in Workers \ {w} : Active(v) =>
            job[v].fd \in Fds /\ fdt[job[v].fd] \notin {job[w].conn, Free}
    BY DEF OneJobEach, JobsOwnTheirFds, OwnsItsFd
  <2>3. \A v \in Workers : backend[v] # NoFd => backend[v] \in Fds /\ fdt[backend[v]] = v
    BY DEF JobsOwnTheirFds, TypeOK
  <2> QED
    BY <1>1, <2>1, <2>2, <2>3
<1>3. \A g \in Fds : fdt'[g] = IF g = f THEN Free ELSE fdt[g]
  OBVIOUS
<1> HIDE DEF f
<1>4. OneFdEach' /\ AwayAreNotWaiting'
  BY <1>3 DEF OneFdEach, AwayAreNotWaiting
<1>5. WaitingHaveNone'
  BY <1>3 DEF WaitingHaveNone, Open
<1>6. JobsOwnTheirFds'
  <2>1. \A i \in 1..Len(tasks) : OwnsItsFd(tasks[i])'
    BY <1>2, <1>3 DEF JobsOwnTheirFds, OwnsItsFd
  <2>2. \A v \in Workers : Active(v)' => v # w /\ Active(v)
    BY DEF Active
  <2>3. \A v \in Workers : Active(v)' =>
            job'[v].conn \in Conns /\ job'[v].fd \in Fds /\ fdt'[job'[v].fd] = job'[v].conn
    BY <1>2, <1>3, <2>2 DEF JobsOwnTheirFds, OwnsItsFd
  <2>4. \A v \in Workers : backend'[v] # NoFd => fdt'[backend'[v]] = v
    BY <1>2, <1>3 DEF JobsOwnTheirFds, TypeOK
  <2> QED
    BY <2>1, <2>3, <2>4 DEF JobsOwnTheirFds, OwnsItsFd
<1>7. OneJobEach'
  <2>1. \A i \in 1..Len(tasks) : tasks[i].conn # None
    BY DEF JobsOwnTheirFds, OwnsItsFd
  <2> QED
    BY <2>1 DEF OneJobEach
<1> QED
  BY <1>4, <1>5, <1>6, <1>7 DEF IdleHoldsNothing

\* A worker goes on and closes nothing.
LEMMA OwnGoOn ==
    ASSUME TypeOK, Own, NEW w \in Workers, Active(w),
           NEW l \in {"read", "serve", "close", "destroy"}, Goto(w, l),
           UNCHANGED <<client, backlog, tasks, job, backend, fdt>>
    PROVE  Own'
<1> USE DEF Own
<1>1. IdleHoldsNothing' /\ \A v \in Workers : Active(v)' => Active(v)
  BY DEF IdleHoldsNothing, Active, Goto, TypeOK
<1>2. JobsOwnTheirFds'
  BY <1>1 DEF JobsOwnTheirFds, OwnsItsFd
<1> QED
  BY <1>1, <1>2 DEF OneFdEach, WaitingHaveNone, AwayAreNotWaiting, OneJobEach, Open

\* What a worker at work has is its client's, and so no stranger's.
LEMMA ActiveOwns ==
    ASSUME Own, NEW w \in Workers, Active(w)
    PROVE  job[w].fd \in Fds /\ ~Stranger(w)
BY DEF Own, JobsOwnTheirFds, OwnsItsFd, Stranger, Peer

LEMMA OwnReadStep ==
    ASSUME TypeOK, Own, NEW w \in Workers, Handshake(w) \/ Read(w) PROVE Own'
<1>1. UNCHANGED <<client, backlog, tasks, job, backend>> /\ Active(w)
  BY DEF Handshake, Read, Active
<1>2. CASE Closing(job[w].fd) /\ Goto(w, "destroy")
  <2>1. /\ wpc'[w] = "destroy" /\ \A v \in Workers \ {w} : wpc'[v] = wpc[v]
        /\ \A g \in Fds : fdt'[g] = IF g = job[w].fd THEN Free ELSE fdt[g]
    BY <1>2 DEF Closing, Goto, TypeOK
  <2>2. ~Stranger(w)
    BY <1>1, ActiveOwns
  <2> QED
    BY <1>1, <2>1, <2>2, OwnCloseStep DEF Active
<1>3. CASE fdt' = fdt /\ \E l \in {"read", "serve", "destroy"} : Goto(w, l)
  BY <1>1, <1>3, OwnGoOn
<1> QED
  BY <1>2, <1>3 DEF Handshake, Read

LEMMA OwnServeStep ==
    ASSUME TypeOK, Own, NEW w \in Workers, Serve(w) PROVE Own'
<1>1. UNCHANGED <<client, backlog, tasks, job>> /\ wpc[w] = "serve" /\ backend[w] = NoFd
  BY DEF Serve, TypeOK
<1>2. CASE UNCHANGED <<fdt, backend>> /\ Goto(w, "close")
  BY <1>1, <1>2, OwnGoOn DEF Active
<1>3. ASSUME FreeFds # {}, fdt' = [fdt EXCEPT ![LowestFree] = w],
             backend' = [backend EXCEPT ![w] = LowestFree], Goto(w, "relay")
      PROVE  Own'
  <2> USE DEF Own
  <2> DEFINE f == LowestFree
  <2>1. f \in Fds /\ fdt[f] = Free
    BY <1>3, LowestFreeIsFree DEF FreeFds
  <2> HIDE DEF f
  <2>2. \A g \in Fds : fdt'[g] = IF g = f THEN w ELSE fdt[g]
    BY <1>3 DEF TypeOK, f
  <2>3. \A v \in Workers : backend'[v] = IF v = w THEN f ELSE backend[v]
    BY <1>3 DEF TypeOK, f
  <2>4. \A g \in Fds : fdt[g] # w
    BY <1>1 DEF OneFdEach
  <2>5. OneFdEach'
    BY <2>1, <2>2, <2>3, <2>4 DEF OneFdEach
  <2>6. WaitingHaveNone' /\ AwayAreNotWaiting' /\ OneJobEach'
    BY <1>1, <2>2 DEF WaitingHaveNone, AwayAreNotWaiting, OneJobEach, Open, TypeOK
  <2>7. \A v \in Workers : (Active(v)' => Active(v)) /\ (wpc'[v] = "idle" => wpc[v] = "idle")
    BY <1>1, <1>3 DEF Active, Goto, TypeOK
  <2>8. JobsOwnTheirFds'
    <3>1. \A v \in Workers : Active(v)' => OwnsItsFd(job[v]) /\ job[v].fd # f
      BY <2>1, <2>7 DEF JobsOwnTheirFds, OwnsItsFd
    <3> QED
      BY <1>1, <2>1, <2>2, <2>3, <3>1 DEF JobsOwnTheirFds, OwnsItsFd, TypeOK
  <2> QED
    BY <1>1, <2>5, <2>6, <2>7, <2>8 DEF IdleHoldsNothing
<1> QED
  BY <1>2, <1>3 DEF Serve

LEMMA OwnRelayStep ==
    ASSUME TypeOK, Own, NEW w \in Workers, Relay(w) PROVE Own'
<1> USE DEF Own
<1> DEFINE f == backend[w]
<1>1. UNCHANGED <<client, backlog, tasks, job>> /\ wpc[w] = "relay"
      /\ f \in Fds /\ fdt[f] = w
  BY DEF Relay, TypeOK, JobsOwnTheirFds
<1>2. \A v \in Workers : (Active(v)' => Active(v)) /\ (wpc'[v] = "idle" => wpc[v] = "idle")
  BY <1>1 DEF Active, Relay, Goto, TypeOK
<1>3. \A g \in Fds : fdt'[g] = IF g = f THEN Free ELSE fdt[g]
  BY DEF Relay, Closing, TypeOK
<1>4. \A v \in Workers : backend'[v] = IF v = w THEN NoFd ELSE backend[v]
  BY DEF Relay, TypeOK
<1> HIDE DEF f
<1>5. \A g \in Fds : fdt[g] = w => g = f
  BY DEF OneFdEach, f
<1>6. OneFdEach'
  BY <1>1, <1>3, <1>4, <1>5 DEF OneFdEach
<1>7. WaitingHaveNone' /\ AwayAreNotWaiting' /\ OneJobEach'
  <2>1. \A c \in Conns : Open(c)' => Open(c)
    BY <1>3 DEF Open, TypeOK
  <2>2. WaitingHaveNone'
    BY <1>1, <2>1 DEF WaitingHaveNone
  <2> QED
    BY <1>1, <2>2 DEF AwayAreNotWaiting, OneJobEach
<1>8. JobsOwnTheirFds'
  <2>1. \A v \in Workers : Active(v)' => OwnsItsFd(job[v])
    BY <1>2 DEF JobsOwnTheirFds
  <2> QED
    BY <1>1, <1>3, <1>4, <2>1 DEF JobsOwnTheirFds, OwnsItsFd, TypeOK
<1> QED
  BY <1>1, <1>2, <1>6, <1>7, <1>8 DEF IdleHoldsNothing

LEMMA OwnEndStep ==
    ASSUME TypeOK, Own, ~harmed', NEW w \in Workers, Close(w) \/ Destroy(w) PROVE Own'
<1>1. UNCHANGED <<client, backlog, tasks, backend>> /\ wpc[w] \in {"close", "destroy"}
  BY DEF Close, Destroy
<1>2. \A v \in Workers \ {w} : job'[v] = job[v] /\ wpc'[v] = wpc[v]
  BY DEF Close, Destroy, Goto, TypeOK
<1>3. /\ wpc'[w] \in {"idle", "destroy"} /\ job'[w].conn \in {job[w].conn, None}
      /\ wpc'[w] = "idle" => job'[w] = NoJob
  <2>1. CASE Close(w)
    BY <2>1 DEF Close, Goto, TypeOK
  <2>2. CASE Destroy(w)
    BY <2>2 DEF Destroy, Goto, NoJob, TypeOK
  <2> QED
    BY <2>1, <2>2
<1>4. \A g \in Fds : fdt'[g] = IF g = job[w].fd THEN Free ELSE fdt[g]
  BY DEF Close, Destroy, Closing, TypeOK
<1>5. job[w].fd # NoFd => ~Stranger(w)
  <2>1. CASE Close(w)
    BY <2>1, ActiveOwns DEF Close, Active
  <2>2. CASE Destroy(w)
    BY <2>2 DEF Destroy
  <2> QED
    BY <2>1, <2>2
<1> QED
  BY <1>1, <1>2, <1>3, <1>4, <1>5, OwnCloseStep

LEMMA OwnClientStep ==
    ASSUME TypeOK, Own, NEW c \in Conns, Connect(c) \/ ClientStep(c) \/ Vanish(c) PROVE Own'
<1> USE DEF Own
<1>1. UNCHANGED <<tasks, wpc, job, backend, fdt>>
  BY DEF Connect, ClientStep, Ask, HangUp, SeeEnd, Vanish
<1>2. WaitingHaveNone'
  BY <1>1 DEF WaitingHaveNone, Open, TypeOK, Connect, ClientStep, Ask, HangUp, SeeEnd, Vanish
<1>3. AwayAreNotWaiting'
  BY DEF AwayAreNotWaiting, TypeOK, Connect, ClientStep, Ask, HangUp, SeeEnd, Vanish
<1> QED
  BY <1>1, <1>2, <1>3 DEF OneFdEach, JobsOwnTheirFds, OneJobEach, IdleHoldsNothing,
     OwnsItsFd, Active

\* What has been harmed stays so.
LEMMA HarmStays == ASSUME harmed, [Next]_vars PROVE harmed'
<1>1. CASE UNCHANGED vars
  BY <1>1 DEF vars
<1>2. ASSUME NEW c \in Conns, Connect(c) \/ ClientStep(c) \/ Vanish(c) PROVE harmed'
  BY <1>2 DEF Connect, ClientStep, Ask, HangUp, SeeEnd, Vanish
<1>3. CASE Sigterm \/ MainStep
  BY <1>3 DEF MainStep, Sigterm, EnterWait, WaitReturns, EventsHandled, TestRunning, Return, Accept
<1>4. ASSUME NEW w \in Workers, WorkerStep(w) \/ Sigpipe(w) PROVE harmed'
  BY <1>4 DEF WorkerStep, Progress, AnswerStep, Begin, Handshake, Read, Serve, Relay, Close,
         Destroy, Sigpipe
<1> QED
  BY <1>1, <1>2, <1>3, <1>4 DEF Next

LEMMA OwnStep ==
    ASSUME TypeOK, OwnInv, [Next]_vars PROVE OwnInv'
<1> SUFFICES ASSUME ~harmed' PROVE Own'
  BY DEF OwnInv
<1>0. Own
  BY HarmStays DEF OwnInv
<1>1. ASSUME UNCHANGED <<client, backlog, tasks, wpc, job, backend, fdt>> PROVE Own'
  BY <1>0, <1>1 DEF Own, OneFdEach, WaitingHaveNone, AwayAreNotWaiting, JobsOwnTheirFds,
     OneJobEach, IdleHoldsNothing, OwnsItsFd, Active, Open
<1>2. ASSUME NEW c \in Conns, Connect(c) \/ ClientStep(c) \/ Vanish(c) PROVE Own'
  BY <1>0, <1>2, OwnClientStep
<1>3. CASE Sigterm \/ EnterWait \/ WaitReturns \/ EventsHandled \/ TestRunning \/ Return
  BY <1>1, <1>3 DEF Sigterm, EnterWait, WaitReturns, EventsHandled, TestRunning, Return
<1>4. ASSUME NEW w \in Workers, Sigpipe(w) PROVE Own'
  BY <1>1, <1>4 DEF Sigpipe
<1>5. CASE UNCHANGED vars
  BY <1>1, <1>5 DEF vars
<1>6. ASSUME NEW w \in Workers, WorkerStep(w) PROVE Own'
  BY <1>0, <1>6, OwnBeginStep, OwnReadStep, OwnServeStep, OwnRelayStep, OwnEndStep
     DEF WorkerStep, Progress, AnswerStep
<1>7. ASSUME NEW k \in Kinds, Accept(k) PROVE Own'
  BY <1>0, <1>7, OwnAcceptStep
<1> QED
  BY <1>2, <1>3, <1>4, <1>5, <1>6, <1>7 DEF Next, MainStep

LEMMA OwnInvariant == Spec => []OwnInv
<1>1. Init => OwnInv
  <2> SUFFICES ASSUME Init PROVE Own
    BY DEF OwnInv
  <2> USE DEF Init
  <2>1. OneFdEach /\ AwayAreNotWaiting
    BY DEF OneFdEach, AwayAreNotWaiting
  <2>2. WaitingHaveNone
    BY DEF WaitingHaveNone, Open, NoJob
  <2>3. JobsOwnTheirFds /\ OneJobEach /\ IdleHoldsNothing
    BY DEF JobsOwnTheirFds, OneJobEach, IdleHoldsNothing, Active, NoJob
  <2> QED
    BY <2>1, <2>2, <2>3 DEF Own
<1>2. TypeOK /\ OwnInv /\ [Next]_vars => OwnInv'
  BY OwnStep
<1> QED
  BY <1>1, <1>2, TypeCorrect, PTL DEF Spec

\* Whatever clients do and however many descriptors there are: until a failed
\* accept() is handed on, or ~Connection closes again a number that was given out
\* meanwhile, no worker reads, answers or closes a descriptor that is not its
\* client's, or its own.  The two are the only ways in which descriptors go astray.
THEOREM OwnUntilHarmed == Spec => []OwnsWhatItUses
<1>1. OwnInv => OwnsWhatItUses
  BY DEF OwnInv, Own, JobsOwnTheirFds, OwnsItsFd, OwnsWhatItUses, Active, Peer
<1> QED
  BY <1>1, OwnInvariant, PTL
=============================================================================
