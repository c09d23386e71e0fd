------------------------------- MODULE Logger -------------------------------
(***************************************************************************)
(* src/src/utils/Logger.{h,cpp}: log() puts a message into one static      *)
(* queue; one jthread, started by the first log(), takes messages out and  *)
(* writes them to a file.  The queue is LinkedBlockingQueue, step by step: *)
(* log() calls offer(), the log thread getListItem() and tryGetListItem(), *)
(* and exit() calls cleanup().                                             *)
(*                                                                         *)
(* exit() undoes the statics in the reverse order of their construction:   *)
(* first the atexit handler of the Logger constructor (cleanup), then      *)
(* `queue` (Logger.cpp:11) and last `logThread` (Logger.cpp:10), whose     *)
(* destructor requests a stop and joins.                                   *)
(***************************************************************************)
EXTENDS LinkedBlockingQueue

CONSTANTS Main,             \* the thread that runs main(), and logs
          LogThread,
          MayRequestStop    \* whether requestStop() is ever called

ASSUME LoggerAssumption ==
    /\ Main \in Offerers /\ Cleaners = {Main} /\ Putters = {}
    /\ Getters = {LogThread} /\ Pollers = {LogThread} /\ LogThread \notin Offerers
    /\ MayRequestStop \in BOOLEAN

VARIABLES
    lpc,        \* where the log thread is
    stop,       \* its stop_token
    phase,      \* how far the process is on its way out
    written     \* the lines of the file

logger == <<lpc, stop, phase, written>>
allVars == <<vars, logger>>

LInit ==
    /\ Init
    /\ lpc = "none" /\ stop = FALSE /\ phase = "running" /\ written = <<>>

QueueUnchanged == UNCHANGED vars
QueueAlive == phase \in {"running", "cleanup"}
----------------------------------------------------------------------------
\* log(): the first one constructs the Logger, which starts the thread; then
\* the message is offered, and a refusal is ignored.
Log(t) ==
    /\ phase = "running"
    /\ Call(t, "offer")
    /\ lpc' = IF lpc = "none" THEN "head" ELSE lpc
    /\ UNCHANGED <<stop, phase, written>>

\* What a thread does inside a call into the queue, while there is a queue.
QueueStep(t) ==
    /\ QueueAlive
    /\ Step(t)
    /\ UNCHANGED logger

QueueSpuriousWake(t) ==
    /\ QueueAlive
    /\ SpuriousWake(t)
    /\ UNCHANGED logger

\* requestStop(): a flag, and nobody is notified.
RequestStop ==
    /\ MayRequestStop /\ phase = "running" /\ lpc # "none" /\ ~stop
    /\ stop' = TRUE
    /\ QueueUnchanged /\ UNCHANGED <<lpc, phase, written>>
----------------------------------------------------------------------------
\* while (!st.stop_requested()): the loop calls getListItem(), the drain after
\* it tryGetListItem().
AskQueue ==
    /\ QueueAlive /\ lpc \in {"head", "drain"}
    /\ IF lpc = "head" /\ ~stop
       THEN Call(LogThread, "get") /\ lpc' = "got"
       ELSE Call(LogThread, "tryGet") /\ lpc' = "drained"
    /\ UNCHANGED <<stop, phase, written>>

Answered == lpc \in {"got", "drained"} /\ pc[LogThread] = "idle"

\* Mutant of Write: the line is skipped once a stop has been requested.
WriteUnlessStopped ==
    /\ Answered /\ ret[LogThread] # Null
    /\ written' = IF stop THEN written ELSE Append(written, ret[LogThread])
    /\ lpc' = IF lpc = "got" THEN "head" ELSE "drain"
    /\ QueueUnchanged /\ UNCHANGED <<stop, phase>>

\* outFile << item.value().
Write ==
    /\ Answered /\ ret[LogThread] # Null
    /\ written' = Append(written, ret[LogThread])
    /\ lpc' = IF lpc = "got" THEN "head" ELSE "drain"
    /\ QueueUnchanged /\ UNCHANGED <<stop, phase>>

\* No item: the queue is shut down, or the drain has emptied it.
End ==
    /\ Answered /\ ret[LogThread] = Null
    /\ lpc' = "done"
    /\ QueueUnchanged /\ UNCHANGED <<stop, phase, written>>

\* The log thread touches the destroyed queue: undefined behaviour.  It may see
\* the flag of cleanup() still set and end, or anything else.  A thread that
\* sleeps in the queue and that nobody has woken touches nothing.
UseDestroyed ==
    /\ ~QueueAlive /\ lpc \in {"head", "got", "drain", "drained"}
    /\ ~Answered /\ pc[LogThread] # "wait"
    /\ lpc' \in {"done", "undefined"}
    /\ QueueUnchanged /\ UNCHANGED <<stop, phase, written>>
----------------------------------------------------------------------------
\* main() returns, when the pool's threads have been joined.  The handler that
\* cleans up was registered by the Logger's constructor, if that ever ran.
ExitBegins ==
    /\ phase = "running" /\ \A t \in Offerers : pc[t] = "idle"
    /\ IF lpc = "none"
       THEN phase' = "destroyed" /\ QueueUnchanged
       ELSE phase' = "cleanup" /\ Call(Main, "cleanup")
    /\ UNCHANGED <<lpc, stop, written>>

DestroyQueue ==
    /\ phase = "cleanup" /\ pc[Main] = "idle"
    /\ phase' = "destroyed"
    /\ QueueUnchanged /\ UNCHANGED <<lpc, stop, written>>

\* ~jthread: request_stop, then join, if there is a thread to join.
StopThread ==
    /\ phase = "destroyed"
    /\ stop' = TRUE /\ phase' = "joining"
    /\ QueueUnchanged /\ UNCHANGED <<lpc, written>>

JoinThread ==
    /\ phase = "joining" /\ lpc \in {"none", "done"}
    /\ phase' = "exited"
    /\ QueueUnchanged /\ UNCHANGED <<lpc, stop, written>>
----------------------------------------------------------------------------
LogLoop == AskQueue \/ Write \/ End \/ UseDestroyed
Exiting == DestroyQueue \/ StopThread \/ JoinThread

LNext ==
    \/ \E t \in Offerers : Log(t)
    \/ \E t \in Threads : QueueStep(t) \/ QueueSpuriousWake(t)
    \/ RequestStop \/ LogLoop \/ ExitBegins \/ Exiting

LSpec == LInit /\ [][LNext]_allVars

\* Threads that can run do, and nobody is kept from a free mutex for ever.
\* Nobody has to log, to exit or to request a stop.
LFairSpec ==
    /\ LSpec
    /\ \A t \in Threads : SF_allVars(QueueStep(t))
    /\ WF_allVars(LogLoop) /\ WF_allVars(Exiting)
----------------------------------------------------------------------------
LTypeOK ==
    /\ TypeOK
    /\ lpc \in {"none", "head", "got", "drain", "drained", "done", "undefined"}
    /\ stop \in BOOLEAN
    /\ phase \in {"running", "cleanup", "destroyed", "joining", "exited"}
    /\ written \in Seq(Nodes)
    /\ lpc = "none" => added = <<>>

\* The item the log thread has taken and not yet written.
InHand ==
    IF lpc \in {"got", "drained"} /\ QueueAlive /\ Len(got) > Len(written)
    THEN <<got[Len(got)]>> ELSE <<>>

\* Each message that was taken is written once, in the order in which the log()
\* calls got it into the queue, whatever stop and exit interrupt.
WrittenOnceInOrder == QueueAlive => written \o InHand \o Chain = added

\* While the process runs and nobody has asked for a stop, every message that
\* was accepted reaches the file.
EveryMessageWritten ==
    \A n \in Nodes : n \in Elements(added) ~>
        (n \in Elements(written) \/ phase # "running" \/ stop)

\* exit() ends: the thread it joins is neither asleep on the queue nor waiting
\* for a stop that comes only later, unless it has run into the destroyed queue.
ExitEnds == (phase = "cleanup") ~> (phase = "exited" \/ lpc = "undefined")

\* LinkedBlockingQueue.h:88, head "will never be deleted": the queue outlives
\* the thread that reads it.
QueueOutlivesReader == ~QueueAlive => lpc \in {"none", "done"}
=============================================================================
