---------------------------- MODULE LoggerProofs ----------------------------
(***************************************************************************)
(* The logger is a user of LinkedBlockingQueue that never calls put(): each *)
(* of its steps is a step of the queue or leaves it alone, so what is      *)
(* proved of the queue holds of it.  On top of that: what is in the file   *)
(* is what was logged, in order, whatever a stop and the exit interrupt.   *)
(***************************************************************************)
EXTENDS Logger, QueueProofs

LogStates == {"none", "head", "got", "drain", "drained", "done", "undefined"}

\* Before the first log() nobody has touched the queue.
LTyped ==
    /\ lpc \in LogStates /\ stop \in BOOLEAN
    /\ phase \in {"running", "cleanup", "destroyed", "joining", "exited"}
    /\ written \in Seq(Nodes)
    /\ lpc = "none" => added = <<>> /\ \A t \in Threads : pc[t] = "idle"

\* Everything that was taken has been written ...
AllWritten == written = got

\* ... but this one.
AllButOne(item) == item \in Nodes /\ got = Append(written, item)

\* Outside the queue the log thread has written all it took; inside, all but the
\* item it has unlinked, until it has been given it and has written it.
InOrder ==
    /\ lpc \in {"none", "head", "drain", "done"} => pc[LogThread] = "idle" /\ AllWritten
    /\ lpc \in {"got", "drained"} =>
           \/ pc[LogThread] \in {"lock", "block", "wait"} /\ AllWritten
           \/ pc[LogThread] \in {"check", "retail", "free"} /\ AllButOne(node[LogThread])
           \/ pc[LogThread] \in {"notify", "idle"} /\ AllButOne(ret[LogThread])
           \/ pc[LogThread] = "idle" /\ ret[LogThread] = Null /\ AllWritten
    /\ lpc # "undefined"

LogInv == LTyped /\ (QueueAlive => InOrder)
----------------------------------------------------------------------------
LEMMA Roles ==
    /\ NobodyPuts
    /\ Main \in Threads /\ LogThread \in Threads /\ Main # LogThread
    /\ Offerers \subseteq Threads /\ LogThread \notin Offerers
BY LoggerAssumption DEF NobodyPuts, Threads

\* Every step of the logger is one of the queue's or leaves the queue alone.
LEMMA LoggerStepsAreQueueSteps ==
    ASSUME [LNext]_allVars
    PROVE  [Next]_vars
<1>1. CASE UNCHANGED allVars
  BY <1>1 DEF allVars
<1>2. CASE LNext
  <2>1. ASSUME NEW t \in Offerers, Log(t) PROVE Next
    BY <2>1, Roles DEF Log, Next, Ops
  <2>2. ASSUME NEW t \in Threads, QueueStep(t) \/ QueueSpuriousWake(t) PROVE Next
    BY <2>2 DEF QueueStep, QueueSpuriousWake, Next
  <2>3. CASE AskQueue
    BY <2>3, Roles DEF AskQueue, Next, Ops
  <2>4. CASE ExitBegins
    BY <2>4, Roles DEF ExitBegins, Next, Ops, QueueUnchanged
  <2>5. CASE RequestStop \/ Write \/ End \/ UseDestroyed \/ Exiting
    BY <2>5 DEF RequestStop, Write, End, UseDestroyed, Exiting, DestroyQueue, StopThread,
                JoinThread, QueueUnchanged
  <2> QED
    BY <1>2, <2>1, <2>2, <2>3, <2>4, <2>5 DEF LNext, LogLoop
<1> QED
  BY <1>1, <1>2

\* The logger implements the queue's specification.
THEOREM LoggerIsAQueueUser == LSpec => Spec
<1>1. LInit => Init
  BY DEF LInit
<1>2. [LNext]_allVars => [Next]_vars
  BY LoggerStepsAreQueueSteps
<1> QED
  BY <1>1, <1>2, PTL DEF LSpec, Spec

\* The log thread is the only one that takes, so no other thread's step changes what it
\* has in hand; it may only be woken.
LEMMA OthersStep ==
    ASSUME Busy, Typed, NEW t \in Threads, t # LogThread,
           Step(t) \/ SpuriousWake(t) \/ \E o \in Ops : Call(t, o)
    PROVE  /\ got' = got /\ ret'[LogThread] = ret[LogThread]
           /\ node'[LogThread] = node[LogThread]
           /\ \/ pc'[LogThread] = pc[LogThread]
              \/ pc[LogThread] = "wait" /\ pc'[LogThread] = "lock"
<1>0. /\ pc \in [Threads -> Labels] /\ LogThread \in Threads
      /\ ret \in [Threads -> Nodes \cup {Null}] /\ node \in [Threads -> Nodes \cup {Null}]
  BY Roles DEF Busy, Typed
<1>1. CASE \E o \in Ops : Call(t, o)
  BY <1>0, <1>1 DEF Call, Goto
<1>2. CASE SpuriousWake(t)
  BY <1>0, <1>2 DEF SpuriousWake, Goto, list, local
<1>3. CASE Unlink(t)
  <2>1. op[t] \in Takers /\ pc[t] # "idle"
    BY <1>3 DEF Unlink, CanLock, Takers
  <2>2. op[t] \in Ops /\ MayCall(t, op[t])
    BY <2>1 DEF Busy
  <2>3. t \in Getters \cup Pollers
    BY <2>1, <2>2, Caller DEF Takers
  <2> QED
    BY <2>3, LoggerAssumption
<1>4. CASE Free(t) \/ GiveUp(t)
  BY <1>0, <1>4 DEF Free, GiveUp, Goto, list
<1>5. CASE Admit(t) \/ Link(t) \/ SetTail(t) \/ Count(t) \/ Decide(t) \/ Block(t) \/ Check(t)
           \/ Retail(t) \/ SetShutdown(t)
  BY <1>0, <1>5 DEF Admit, Link, SetTail, Count, Decide, Block, Check, Retail, SetShutdown,
                    Goto, list, local
<1>6. CASE Notify(t)
  BY <1>0, <1>6, NotifyEffect DEF Notify, list, local
<1> QED
  BY <1>1, <1>2, <1>3, <1>4, <1>5, <1>6 DEF Step

\* A step of the log thread inside the queue.
LEMMA ReaderStep ==
    ASSUME Busy, ListInv, LTyped, InOrder, UNCHANGED logger,
           Step(LogThread) \/ SpuriousWake(LogThread)
    PROVE  InOrder'
<1>0. /\ pc \in [Threads -> Labels] /\ LogThread \in Threads /\ Typed
      /\ ret \in [Threads -> Nodes \cup {Null}] /\ node \in [Threads -> Nodes \cup {Null}]
  BY Roles DEF Busy, ListInv, Typed
<1>1. pc[LogThread] # "idle"
  BY <1>0 DEF Step, SpuriousWake, Admit, Link, SetTail, Count, Decide, Block, GiveUp, Unlink,
              Check, Retail, Free, SetShutdown, Notify, CanLock
<1>2. /\ op[LogThread] \in Takers
      /\ pc[LogThread] \notin Adding
  <2>1. op[LogThread] \in Ops /\ MayCall(LogThread, op[LogThread])
    BY <1>0, <1>1 DEF Busy
  <2>2. op[LogThread] \in Takers
    BY <2>1, Caller, Roles, LoggerAssumption DEF Takers, Ops
  <2> QED
    BY <1>0, <2>2 DEF Busy, Takers, Adders
<1>3. lpc \in {"got", "drained"} /\ lpc' = lpc /\ written' = written
  BY <1>1 DEF LTyped, InOrder, logger, LogStates
<1>4. SUFFICES \/ pc'[LogThread] \in {"lock", "block", "wait"} /\ AllWritten'
               \/ pc'[LogThread] \in {"check", "retail", "free"} /\ AllButOne(node[LogThread])'
               \/ pc'[LogThread] \in {"notify", "idle"} /\ AllButOne(ret[LogThread])'
               \/ pc'[LogThread] = "idle" /\ ret'[LogThread] = Null /\ AllWritten'
  BY <1>3 DEF InOrder
<1>5. /\ pc[LogThread] \in {"lock", "block", "wait"} => AllWritten
      /\ pc[LogThread] \in {"check", "retail", "free"} => AllButOne(node[LogThread])
      /\ pc[LogThread] = "notify" => AllButOne(ret[LogThread])
  BY <1>1, <1>3 DEF InOrder
<1>6. CASE SpuriousWake(LogThread) \/ Decide(LogThread) \/ Block(LogThread) \/ GiveUp(LogThread)
  <2>1. /\ pc[LogThread] \in {"lock", "block", "wait"} /\ got' = got
        /\ \/ pc'[LogThread] \in {"lock", "block", "wait"}
           \/ pc'[LogThread] = "idle" /\ ret'[LogThread] = Null
    BY <1>0, <1>6 DEF SpuriousWake, Decide, Block, GiveUp, CanLock, Goto, list
  <2> QED
    BY <1>3, <1>5, <2>1 DEF AllWritten
<1>7. CASE Unlink(LogThread)
  <2>1. /\ pc[LogThread] = "lock" /\ pc'[LogThread] = "check" /\ next[HeadNode] # Null
        /\ got' = Append(got, next[HeadNode]) /\ node'[LogThread] = next[HeadNode]
    BY <1>0, <1>7 DEF Unlink, CanLock, Goto
  <2>2. next[HeadNode] \in Nodes
    <3>1. HeadNode \in Nodes
      BY QueueAssumption DEF Nodes, HeadNode
    <3>2. next \in [Nodes -> Nodes \cup {Null}]
      BY <1>0 DEF Typed
    <3> QED
      BY <2>1, <3>1, <3>2
  <2> QED
    BY <1>3, <1>5, <2>1, <2>2 DEF AllWritten, AllButOne
<1>8. CASE Check(LogThread) \/ Retail(LogThread)
  <2>1. /\ pc[LogThread] \in {"check", "retail"} /\ pc'[LogThread] \in {"retail", "free"}
        /\ got' = got /\ node' = node
    BY <1>0, <1>8 DEF Check, Retail, Goto, list, local
  <2> QED
    BY <1>3, <1>5, <2>1 DEF AllButOne
<1>9. CASE Free(LogThread)
  <2>1. /\ pc[LogThread] = "free" /\ pc'[LogThread] \in {"notify", "idle"}
        /\ got' = got /\ ret'[LogThread] = node[LogThread]
    BY <1>0, <1>9 DEF Free, Goto
  <2> QED
    BY <1>3, <1>5, <2>1 DEF AllButOne
<1>10. CASE Notify(LogThread)
  <2>1. pc[LogThread] = "notify" /\ pc'[LogThread] = "idle" /\ got' = got /\ ret' = ret
    BY <1>0, <1>10, NotifyEffect DEF Notify, list, local
  <2> QED
    BY <1>3, <1>5, <2>1 DEF AllButOne
<1>11. CASE \/ Admit(LogThread) \/ Link(LogThread) \/ SetTail(LogThread) \/ Count(LogThread)
            \/ SetShutdown(LogThread)
  BY <1>0, <1>2, <1>11 DEF Busy, Admit, Link, SetTail, Count, SetShutdown, Takers, Adding
<1> QED
  BY <1>6, <1>7, <1>8, <1>9, <1>10, <1>11 DEF Step

\* The same when another thread steps: Main, a worker that logs.
LEMMA OthersKeepOrder ==
    ASSUME Busy, ListInv, LTyped, InOrder, UNCHANGED written,
           lpc' = lpc \/ (lpc = "none" /\ lpc' = "head"),
           NEW t \in Threads, t # LogThread,
           Step(t) \/ SpuriousWake(t) \/ \E o \in Ops : Call(t, o)
    PROVE  InOrder'
<1>1. /\ got' = got /\ ret'[LogThread] = ret[LogThread] /\ node'[LogThread] = node[LogThread]
      /\ \/ pc'[LogThread] = pc[LogThread]
         \/ pc[LogThread] = "wait" /\ pc'[LogThread] = "lock"
  BY OthersStep DEF ListInv
<1>2. CASE lpc \in {"none", "head", "drain", "done"}
  BY <1>1, <1>2 DEF InOrder, AllWritten
<1>3. CASE lpc \in {"got", "drained"}
  <2>1. lpc' = lpc
    BY <1>3
  <2>2. AllWritten' = AllWritten
    BY <1>1 DEF AllWritten
  <2>3. /\ AllButOne(node[LogThread])' = AllButOne(node[LogThread])
        /\ AllButOne(ret[LogThread])' = AllButOne(ret[LogThread])
    BY <1>1 DEF AllButOne
  <2> HIDE DEF AllWritten, AllButOne
  <2> QED
    BY <1>1, <1>3, <2>1, <2>2, <2>3 DEF InOrder
<1> QED
  BY <1>2, <1>3 DEF LTyped, InOrder, LogStates

LEMMA LogInit == LInit => LogInv
<1> SUFFICES ASSUME LInit PROVE LogInv
  OBVIOUS
<1>1. /\ lpc = "none" /\ stop = FALSE /\ phase = "running" /\ written = <<>>
      /\ added = <<>> /\ got = <<>> /\ pc = [t \in Threads |-> "idle"]
  BY DEF LInit, Init
<1> QED
  BY <1>1, Roles, EmptySeq DEF LogInv, LTyped, LogStates, InOrder, AllWritten

LEMMA LogStep ==
    ASSUME Busy, ListInv, LogInv, [LNext]_allVars
    PROVE  LogInv'
<1>0. /\ LTyped /\ (QueueAlive => InOrder) /\ pc \in [Threads -> Labels] /\ LogThread \in Threads
      /\ ret \in [Threads -> Nodes \cup {Null}]
  BY Roles DEF LogInv, Busy, ListInv, Typed
<1>1. CASE UNCHANGED allVars
  BY <1>0, <1>1 DEF allVars, vars, list, local, logger, LogInv, LTyped, QueueAlive, InOrder,
                    AllWritten, AllButOne
<1>2. ASSUME NEW t \in Offerers, Log(t) PROVE LogInv'
  <2>1. /\ t \in Threads /\ t # LogThread /\ phase' = phase /\ stop' = stop /\ written' = written
        /\ phase = "running" /\ Call(t, "offer") /\ added' = added
        /\ lpc' = IF lpc = "none" THEN "head" ELSE lpc
    BY <1>2, Roles DEF Log, Call
  <2>2. LTyped'
    BY <1>0, <2>1 DEF LTyped, LogStates
  <2>3. InOrder'
    BY <1>0, <2>1, OthersKeepOrder DEF QueueAlive, Ops
  <2> QED
    BY <2>2, <2>3 DEF LogInv
<1>3. ASSUME NEW t \in Threads, QueueStep(t) \/ QueueSpuriousWake(t) PROVE LogInv'
  <2>1. /\ QueueAlive /\ QueueAlive' /\ UNCHANGED logger /\ (Step(t) \/ SpuriousWake(t))
    BY <1>3 DEF QueueStep, QueueSpuriousWake, QueueAlive, logger
  <2>2. pc[t] # "idle"
    BY <2>1 DEF Step, SpuriousWake, Admit, Link, SetTail, Count, Decide, Block, GiveUp, Unlink,
                Check, Retail, Free, SetShutdown, Notify, CanLock
  <2>3. LTyped'
    BY <1>0, <2>1, <2>2 DEF LTyped, logger
  <2>4. InOrder'
    <3>1. CASE t = LogThread
      BY <1>0, <2>1, <3>1, ReaderStep
    <3>2. CASE t # LogThread
      BY <1>0, <2>1, <3>2, OthersKeepOrder DEF logger
    <3> QED
      BY <3>1, <3>2
  <2> QED
    BY <2>3, <2>4 DEF LogInv
<1>4. CASE AskQueue
  <2>1. /\ QueueAlive /\ lpc \in {"head", "drain"} /\ UNCHANGED <<stop, phase, written>>
        /\ lpc' \in {"got", "drained"} /\ got' = got /\ pc'[LogThread] = "lock"
    BY <1>0, <1>4 DEF AskQueue, Call, Goto
  <2>2. LTyped'
    BY <1>0, <2>1 DEF LTyped, LogStates
  <2>3. InOrder'
    BY <1>0, <2>1 DEF InOrder, AllWritten
  <2> QED
    BY <2>2, <2>3 DEF LogInv
<1>5. CASE Write
  <2>1. /\ lpc \in {"got", "drained"} /\ pc[LogThread] = "idle" /\ ret[LogThread] # Null
        /\ written' = Append(written, ret[LogThread]) /\ lpc' \in {"head", "drain"}
        /\ got' = got /\ pc' = pc /\ UNCHANGED <<stop, phase>>
    BY <1>5 DEF Write, Answered, QueueUnchanged, vars, list
  <2>2. LTyped'
    <3>1. ret[LogThread] \in Nodes
      BY <1>0, <2>1
    <3>2. written' \in Seq(Nodes)
      BY <1>0, <2>1, <3>1, AppendProperties DEF LTyped
    <3> QED
      BY <1>0, <2>1, <3>2 DEF LTyped, LogStates
  <2>3. QueueAlive' => InOrder'
    BY <1>0, <2>1 DEF QueueAlive, InOrder, AllWritten, AllButOne
  <2> QED
    BY <2>2, <2>3 DEF LogInv
<1>6. CASE End
  <2>1. /\ lpc \in {"got", "drained"} /\ pc[LogThread] = "idle" /\ ret[LogThread] = Null
        /\ written' = written /\ lpc' = "done"
        /\ got' = got /\ pc' = pc /\ UNCHANGED <<stop, phase>>
    BY <1>6 DEF End, Answered, QueueUnchanged, vars, list
  <2>2. LTyped'
    BY <1>0, <2>1 DEF LTyped, LogStates
  <2>3. QueueAlive' => InOrder'
    <3>1. Null \notin Nodes
      BY QueueAssumption
    <3> QED
      BY <1>0, <2>1, <3>1 DEF QueueAlive, InOrder, AllWritten, AllButOne
  <2> QED
    BY <2>2, <2>3 DEF LogInv
<1>7. CASE UseDestroyed
  <2>1. /\ ~QueueAlive /\ lpc' \in {"done", "undefined"} /\ UNCHANGED <<stop, phase, written>>
    BY <1>7 DEF UseDestroyed
  <2> QED
    BY <1>0, <2>1 DEF LogInv, LTyped, LogStates, QueueAlive
<1>8. CASE ExitBegins
  <2>1. CASE lpc = "none"
    BY <1>0, <1>8, <2>1 DEF ExitBegins, QueueUnchanged, vars, list, LogInv, LTyped, LogStates,
                            QueueAlive
  <2>2. CASE lpc # "none"
    <3>1. /\ phase = "running" /\ phase' = "cleanup" /\ Call(Main, "cleanup")
          /\ UNCHANGED <<lpc, stop, written>>
      BY <1>8, <2>2 DEF ExitBegins
    <3>2. LTyped'
      BY <1>0, <2>2, <3>1 DEF LTyped
    <3>3. InOrder'
      BY <1>0, <3>1, Roles, OthersKeepOrder DEF QueueAlive, Ops
    <3> QED
      BY <3>2, <3>3 DEF LogInv
  <2> QED
    BY <2>1, <2>2
<1>9. CASE RequestStop \/ Exiting
  <2>1. /\ UNCHANGED vars /\ UNCHANGED <<lpc, written>> /\ stop' \in BOOLEAN
        /\ phase' \in {"running", "cleanup", "destroyed", "joining", "exited"}
        /\ QueueAlive' => QueueAlive
    BY <1>0, <1>9 DEF RequestStop, Exiting, DestroyQueue, StopThread, JoinThread, QueueUnchanged,
                      QueueAlive, LTyped
  <2>2. LTyped'
    BY <1>0, <2>1 DEF LTyped, vars, list
  <2>3. QueueAlive' => InOrder'
    BY <1>0, <2>1 DEF InOrder, AllWritten, AllButOne, vars, list, local
  <2> QED
    BY <2>2, <2>3 DEF LogInv
<1> QED
  BY <1>1, <1>2, <1>3, <1>4, <1>5, <1>6, <1>7, <1>8, <1>9 DEF LNext, LogLoop

LEMMA LogAlways == LSpec => [](LogInv /\ ListInv /\ Busy)
<1>1. LSpec => [](ListInv /\ Busy /\ Exclusive)
  BY LoggerIsAQueueUser, ListAlways, Roles, PTL
<1>2. ListInv /\ Busy /\ LogInv /\ [LNext]_allVars => LogInv'
  BY LogStep
<1> QED
  BY <1>1, <1>2, LogInit, PTL DEF LSpec
----------------------------------------------------------------------------
\* The types of the logger, and that before the first log() the queue is empty.
THEOREM LoggerTypeCorrect == LSpec => []LTypeOK
<1>1. LogInv /\ ListInv /\ Busy => LTypeOK
  BY TypesRight DEF LogInv, LTyped, LogStates, LTypeOK
<1> QED
  BY <1>1, LogAlways, PTL

\* What is in the file, then the line in the log thread's hand, then what still is in the
\* list: each accepted message once and in order, for any number of threads that log.
THEOREM LogInOrder == LSpec => []WrittenOnceInOrder
<1>1. LogInv /\ ListInv => WrittenOnceInOrder
  <2> SUFFICES ASSUME LogInv, ListInv, QueueAlive PROVE written \o InHand \o Chain = added
    BY DEF WrittenOnceInOrder
  <2>1. LTyped /\ InOrder /\ got \o Chain = added /\ written \in Seq(Nodes)
    BY NothingLost DEF LogInv, FifoNoLoss, LTyped
  <2>2. SUFFICES written \o InHand = got
    BY <2>1
  <2>3. CASE AllWritten
    <3>1. InHand = <<>>
      BY <2>1, <2>3, LenProperties DEF InHand, AllWritten
    <3> QED
      BY <2>1, <2>3, <3>1, ConcatEmptySeq DEF AllWritten
  <2>4. ASSUME NEW item, AllButOne(item), lpc \in {"got", "drained"}
        PROVE  written \o InHand = got
    <3>1. /\ item \in Nodes /\ got = Append(written, item)
      BY <2>4 DEF AllButOne
    <3>2. Len(got) = Len(written) + 1 /\ Len(written) \in Nat /\ got[Len(written) + 1] = item
      BY <2>1, <3>1, AppendProperties, LenProperties
    <3>3. InHand = <<item>>
      BY <2>4, <3>2 DEF InHand
    <3> QED
      BY <2>1, <3>1, <3>3, AppendIsConcat
  <2> QED
    BY <2>1, <2>3, <2>4 DEF InOrder, LTyped, LogStates
<1> QED
  BY <1>1, LogAlways, PTL

\* The guarantees of the queue hold of the logger's, with nothing left to assume: it is
\* an ItemQueue, no message is lost or overtakes another, the size that offer() tests is
\* right, and the log thread is never left asleep on an open queue while a message waits.
THEOREM LoggerQueueSafe ==
    /\ LSpec => ImplementsItemQueue
    /\ LSpec => [](FifoNoLoss /\ ListSound)
    /\ IsFiniteSet(Offerers) => (LSpec => []ReaderNotStranded)
<1>1. LSpec => [](FifoNoLoss /\ ListSound)
  BY LoggerIsAQueueUser, Roles, QueueIsFifo, SizeAndTailRight, PTL
<1>2. LSpec => ImplementsItemQueue
  BY LoggerIsAQueueUser, Roles, QueueImplementsItemQueue
<1>3. ASSUME IsFiniteSet(Offerers) PROVE LSpec => []ReaderNotStranded
  <2>1. Threads = (Offerers \cup {LogThread}) \cup {Main}
    BY LoggerAssumption DEF Threads
  <2>2. FiniteThreads
    BY <1>3, <2>1, FS_AddElement DEF FiniteThreads
  <2> QED
    BY <2>2, LoggerIsAQueueUser, Roles, NoLostWakeup, PTL
<1> QED
  BY <1>1, <1>2, <1>3
=============================================================================
