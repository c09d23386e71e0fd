----------------------------- MODULE QueueProofs -----------------------------
(***************************************************************************)
(* The safety properties of LinkedBlockingQueue, for any number of threads *)
(* and nodes and any capacity.  What depends on all appends being made     *)
(* under mutexOne is proved for a queue nobody calls put() on, which is    *)
(* how the server uses it; what does not, for every mix of operations.     *)
(***************************************************************************)
EXTENDS LinkedBlockingQueue, ProofLemmas

Labels   == {"idle", "lock", "block", "wait", "link", "tail", "count",
             "check", "retail", "free", "notify"}
Adding   == {"tail", "count"}
Taking   == {"check", "retail", "free"}
Critical == Adding \cup Taking \cup {"block", "link"}

Adders == {"offer", "put"}
Takers == {"get", "tryGet"}

\* What a thread is doing: the types, and which operation has which steps.
Busy ==
    /\ holder \in [{1, 2} -> Threads \cup {NoThread}] /\ shutdown \in BOOLEAN
    /\ op \in [Threads -> Ops] /\ pc \in [Threads -> Labels]
    /\ \A t \in Threads :
           /\ pc[t] \in Adding => op[t] \in Adders
           /\ pc[t] \in Taking => op[t] \in Takers
           /\ pc[t] \in {"block", "wait"} => op[t] \in {"put", "get"}
           /\ pc[t] = "link" => op[t] = "put"
           /\ pc[t] = "notify" => op[t] # "tryGet"
           /\ pc[t] # "idle" => MayCall(t, op[t])

\* Who is between taking and letting go of a mutex holds it.
Exclusive == \A t \in Threads : pc[t] \in Critical => holder[MutexOf(op[t])] = t

\* No reader goes to sleep once the flag is set, and a cleanup() that has set it wakes
\* those that sleep.
WokenUp ==
    /\ shutdown => \A t \in Threads : ~At(t, {"get"}, "block")
    /\ (shutdown /\ \A t \in Cleaners : ~At(t, {"cleanup"}, "notify")) =>
           \A t \in Threads : ~At(t, {"get"}, "wait")
----------------------------------------------------------------------------
LEMMA Caller ==
    ASSUME NEW t \in Threads, NEW o \in Ops, MayCall(t, o)
    PROVE  /\ o = "offer" => t \in Offerers
           /\ o = "put" => t \in Putters
           /\ o = "get" => t \in Getters
           /\ o = "tryGet" => t \in Pollers
           /\ o = "cleanup" => t \in Cleaners
BY DEF MayCall, Ops

\* A notification moves its thread on and may move sleepers to the mutex.
LEMMA NotifyEffect ==
    ASSUME Busy, NEW t \in Threads, Notify(t)
    PROVE  /\ pc' \in [Threads -> Labels] /\ pc[t] = "notify" /\ pc'[t] = "idle"
           /\ \A u \in Threads \ {t} :
                  \/ pc'[u] = pc[u]
                  \/ pc[u] = "wait" /\ pc'[u] = "lock"
           /\ op[t] = "cleanup" => \A u \in Threads : pc'[u] # "wait"
<1>1. /\ pc[t] = "notify" /\ op[t] \in {"offer", "put", "get", "cleanup"}
      /\ pc \in [Threads -> Labels]
  BY DEF Busy, Notify, Ops
<1>2. CASE op[t] = "cleanup"
  <2>1. pc' = [b \in Threads |-> IF b = t THEN "idle"
                                 ELSE IF pc[b] = "wait" THEN "lock" ELSE pc[b]]
    BY <1>2 DEF Notify, WakeAll
  <2> QED
    BY <1>1, <1>2, <2>1 DEF Labels
<1>3. CASE op[t] # "cleanup"
  <2>1. PICK o \in {"get", "put"} : WakeOne(t, o)
    BY <1>1, <1>3 DEF Notify
  <2>2. CASE pc' = [pc EXCEPT ![t] = "idle"]
    BY <1>1, <1>3, <2>2 DEF Labels
  <2>3. CASE \E b \in Blocked(o) : pc' = [pc EXCEPT ![t] = "idle", ![b] = "lock"]
    <3>1. PICK b \in Threads : pc[b] = "wait" /\ pc' = [pc EXCEPT ![t] = "idle", ![b] = "lock"]
      BY <2>3 DEF Blocked, At
    <3> QED
      BY <1>1, <1>3, <3>1 DEF Labels
  <2> QED
    BY <2>1, <2>2, <2>3 DEF WakeOne, Goto
<1> QED
  BY <1>2, <1>3

LEMMA BusyInit == Init => Busy /\ Exclusive /\ WokenUp
<1> SUFFICES ASSUME Init PROVE Busy /\ Exclusive /\ WokenUp
  OBVIOUS
<1>1. /\ op = [t \in Threads |-> "offer"] /\ pc = [t \in Threads |-> "idle"]
      /\ shutdown = FALSE /\ holder = [m \in {1, 2} |-> NoThread]
  BY DEF Init
<1> QED
  BY <1>1 DEF Busy, Exclusive, WokenUp, Labels, Critical, Adding, Taking, Ops

\* Every step keeps the three; in each case t is the thread that steps.
LEMMA BusyStep ==
    ASSUME Busy, Exclusive, WokenUp, [Next]_vars
    PROVE  Busy' /\ Exclusive' /\ WokenUp'
<1> USE QueueAssumption DEF Labels, Critical, Adding, Taking, Adders, Takers
<1>0. ASSUME UNCHANGED vars PROVE Busy' /\ Exclusive' /\ WokenUp'
  BY <1>0 DEF vars, local, list, Busy, Exclusive, WokenUp, At, MutexOf, MayCall
<1> SUFFICES ASSUME NEW t \in Threads, Step(t) \/ SpuriousWake(t) \/ \E o \in Ops : Call(t, o)
             PROVE  Busy' /\ Exclusive' /\ WokenUp'
  BY <1>0 DEF Next
<1> USE DEF Busy
<1>1. CASE \E o \in Ops : Call(t, o)
  <2>1. PICK o \in Ops : Call(t, o)
    BY <1>1
  <2>2. /\ pc[t] = "idle" /\ MayCall(t, o) /\ op' = [op EXCEPT ![t] = o]
        /\ pc' = [pc EXCEPT ![t] = "lock"] /\ UNCHANGED <<shutdown, holder>>
    BY <2>1 DEF Call, Goto
  <2>3. Busy'
    <3>1. /\ op' \in [Threads -> Ops] /\ pc' \in [Threads -> Labels]
          /\ pc'[t] = "lock" /\ op'[t] = o
          /\ \A u \in Threads \ {t} : pc'[u] = pc[u] /\ op'[u] = op[u]
      BY <2>2
    <3> QED
      BY <2>2, <3>1 DEF MayCall
  <2>4. Exclusive'
    BY <2>2 DEF Exclusive, MutexOf
  <2>5. WokenUp'
    BY <2>2 DEF WokenUp, At, Threads
  <2> QED
    BY <2>3, <2>4, <2>5
<1>2. CASE SpuriousWake(t)
  <2>1. /\ pc[t] = "wait" /\ pc' = [pc EXCEPT ![t] = "lock"]
        /\ UNCHANGED <<shutdown, holder, op>>
    BY <1>2 DEF SpuriousWake, Goto, local
  <2>2. Busy'
    BY <2>1 DEF MayCall
  <2>3. Exclusive'
    BY <2>1 DEF Exclusive, MutexOf
  <2>4. WokenUp'
    BY <2>1 DEF WokenUp, At, Threads
  <2> QED
    BY <2>2, <2>3, <2>4
<1>3. CASE (Link(t) /\ op[t] = "offer") \/ Unlink(t)
  <2>1. PICK l \in {"tail", "check"} :
            /\ pc[t] = "lock" /\ holder[MutexOf(op[t])] = NoThread
            /\ pc' = [pc EXCEPT ![t] = l] /\ holder' = [holder EXCEPT ![MutexOf(op[t])] = t]
            /\ op[t] \in IF l = "tail" THEN Adders ELSE Takers
            /\ UNCHANGED <<shutdown, op>>
    BY <1>3 DEF Link, Unlink, CanLock, Lock, Goto, local
  <2>2. Busy'
    BY <2>1 DEF MayCall, MutexOf
  <2>3. Exclusive'
    BY <2>1 DEF Exclusive, MutexOf
  <2>4. WokenUp'
    BY <2>1 DEF WokenUp, At, Threads
  <2> QED
    BY <2>2, <2>3, <2>4
<1>4. CASE Decide(t) \/ Admit(t)
  <2>1. PICK l \in {"block", "link"} :
            /\ pc[t] = "lock" /\ holder[MutexOf(op[t])] = NoThread
            /\ op[t] \in {"put", "get"} /\ (l = "link" => op[t] = "put")
            /\ pc' = [pc EXCEPT ![t] = l] /\ holder' = [holder EXCEPT ![MutexOf(op[t])] = t]
            /\ ~shutdown /\ UNCHANGED <<shutdown, op>>
    BY <1>4 DEF Decide, Admit, WaitOver, CanLock, Lock, Goto, local
  <2>2. Busy'
    BY <2>1 DEF MayCall, MutexOf
  <2>3. Exclusive'
    BY <2>1 DEF Exclusive, MutexOf
  <2>4. WokenUp'
    BY <2>1 DEF WokenUp, At, Threads
  <2> QED
    BY <2>2, <2>3, <2>4
<1>5. CASE (Link(t) /\ op[t] = "put") \/ SetTail(t) \/ Check(t) \/ Retail(t)
  <2>1. PICK l \in {"tail", "count", "retail", "free"} :
            /\ pc[t] \in Critical /\ pc[t] # "block"
            /\ op[t] \in IF l \in Adding THEN Adders ELSE Takers
            /\ pc' = [pc EXCEPT ![t] = l] /\ UNCHANGED <<shutdown, op, holder>>
    BY <1>5 DEF Link, SetTail, Check, Retail, Goto, local
  <2>2. Busy'
    BY <2>1 DEF MayCall
  <2>3. Exclusive'
    BY <2>1 DEF Exclusive, MutexOf
  <2>4. WokenUp'
    BY <2>1 DEF WokenUp, At, Threads
  <2> QED
    BY <2>2, <2>3, <2>4
<1>6. CASE Count(t) \/ Block(t) \/ Free(t)
  <2>1. PICK l \in {"notify", "wait", "idle"} :
            /\ pc[t] \in Critical /\ (l = "notify" => op[t] # "tryGet")
            /\ l = "wait" <=> pc[t] = "block"
            /\ pc' = [pc EXCEPT ![t] = l] /\ holder' = [holder EXCEPT ![MutexOf(op[t])] = NoThread]
            /\ UNCHANGED <<shutdown, op>>
    BY <1>6 DEF Count, Block, Free, Unlock, Goto, local
  <2>2. Busy'
    BY <2>1 DEF MayCall, MutexOf
  <2>3. Exclusive'
    BY <2>1 DEF Exclusive, MutexOf
  <2>4. WokenUp'
    BY <2>1 DEF WokenUp, At, Threads
  <2> QED
    BY <2>2, <2>3, <2>4
<1>7. CASE GiveUp(t)
  <2>1. pc[t] = "lock" /\ pc' = [pc EXCEPT ![t] = "idle"] /\ UNCHANGED <<shutdown, op, holder>>
    BY <1>7 DEF GiveUp, CanLock, Goto
  <2>2. Busy'
    BY <2>1 DEF MayCall
  <2>3. Exclusive'
    BY <2>1 DEF Exclusive, MutexOf
  <2>4. WokenUp'
    BY <2>1 DEF WokenUp, At, Threads
  <2> QED
    BY <2>2, <2>3, <2>4
<1>8. CASE SetShutdown(t)
  <2>1. /\ pc[t] = "lock" /\ holder[1] = NoThread /\ op[t] = "cleanup" /\ shutdown' = TRUE
        /\ pc' = [pc EXCEPT ![t] = "notify"] /\ UNCHANGED <<op, holder>>
    BY <1>8 DEF SetShutdown, CanLock, Goto, local, MutexOf
  <2>2. Busy'
    BY <2>1 DEF MayCall
  <2>3. Exclusive'
    BY <2>1 DEF Exclusive, MutexOf
  <2>4. \A u \in Threads : ~At(u, {"get"}, "block")
    BY <2>1 DEF Exclusive, MutexOf, At
  <2>5. t \in Cleaners
    BY <2>1, Caller
  <2>6. WokenUp'
    BY <2>1, <2>4, <2>5 DEF WokenUp, At, Threads
  <2> QED
    BY <2>2, <2>3, <2>6
<1>9. CASE Notify(t)
  <2>1. /\ pc' \in [Threads -> Labels] /\ pc[t] = "notify" /\ pc'[t] = "idle"
        /\ \A u \in Threads \ {t} : pc'[u] = pc[u] \/ (pc[u] = "wait" /\ pc'[u] = "lock")
        /\ op[t] = "cleanup" => \A u \in Threads : pc'[u] # "wait"
    BY <1>9, NotifyEffect
  <2>2. UNCHANGED <<shutdown, op, holder>>
    BY <1>9 DEF Notify, local
  <2>3. Busy'
    BY <2>1, <2>2 DEF MayCall
  <2>4. Exclusive'
    BY <2>1, <2>2 DEF Exclusive, MutexOf
  <2>5. WokenUp'
    <3>1. CASE op[t] = "cleanup"
      BY <2>1, <2>2, <3>1 DEF WokenUp, At, Threads
    <3>2. CASE op[t] # "cleanup"
      BY <2>1, <2>2, <3>2 DEF WokenUp, At, Threads
    <3> QED
      BY <3>1, <3>2
  <2> QED
    BY <2>3, <2>4, <2>5
<1>10. Link(t) => op[t] \in Adders
  BY DEF Link
<1> QED
  BY <1>1, <1>2, <1>3, <1>4, <1>5, <1>6, <1>7, <1>8, <1>9, <1>10 DEF Step

LEMMA BusyAlways == Spec => [](Busy /\ Exclusive /\ WokenUp)
BY BusyInit, BusyStep, PTL DEF Spec

\* After a cleanup() that has notified no reader sleeps or is about to, whoever else
\* adds, takes or cleans up, and however many they are.
THEOREM NoReaderLeftAsleep == Spec => []CleanupFreesReaders
<1>1. WokenUp => CleanupFreesReaders
  BY DEF WokenUp, CleanupFreesReaders, Threads
<1> QED
  BY <1>1, BusyAlways, PTL
----------------------------------------------------------------------------
\* Under mutexTwo put() may link a node that a reader is taking out, so with put() the
\* list is not a queue; but whatever the mix of operations, it leads to no deleted node.
Added == Elems(added)
Taken == Elems(got)

\* Who has a node that it has yet to link, who has linked one and not yet moved the
\* tail, and which nodes no reader will look at again.
Pending(t) == op[t] \in Adders /\ pc[t] \in {"lock", "block", "wait", "link"}
Moving(t)  == pc[t] = "tail"
Passed(x)  == x \in freed \/ \E t \in Threads : pc[t] = "free" /\ node[t] = x

\* Links lead to nodes that were added, and a node leads nowhere before that.
NodesKnown ==
    /\ next \in [Nodes -> Nodes \cup {Null}] /\ used \in Nodes
    /\ node \in [Threads -> Nodes \cup {Null}]
    /\ added \in Seq(1..MaxNodes) /\ got \in Seq(1..MaxNodes)
    /\ Added \subseteq 1..used /\ Taken \subseteq Added /\ freed \subseteq Taken
    /\ tail \in Added \cup {HeadNode}
    /\ \A x \in Nodes : next[x] \in Added \cup {Null}
    /\ \A x \in 1..MaxNodes : x \notin Added => next[x] = Null

\* A node that is yet to be linked is new, and nobody else's.
NodesNew ==
    \A t \in Threads : Pending(t) =>
        /\ node[t] \in 1..used /\ node[t] \notin Added
        /\ \A u \in Threads \ {t} : Pending(u) => node[u] # node[t]

\* Only nodes that were taken lead to one that was taken, so from the head no node is
\* reached that was: two nodes in the list never lead to the same one.
LinksForward ==
    /\ next[HeadNode] \notin Taken
    /\ \A x \in 1..MaxNodes :
           /\ next[x] \in Taken => x \in Taken
           /\ next[x] # Null /\ next[x] = next[HeadNode] => x \in Taken
           /\ \A y \in 1..MaxNodes : next[x] # Null /\ next[x] = next[y] => x = y

\* While nobody moves the tail it is a last node; those that move it have each a last
\* node of their own; and none of these is one that the readers are done with.
TailAlive ==
    /\ (\A t \in Threads : ~Moving(t)) /\ tail # HeadNode => next[tail] = Null
    /\ \A t \in Threads : Moving(t) =>
           /\ node[t] \in Added /\ next[node[t]] = Null /\ node[t] # tail
           /\ \A u \in Threads \ {t} : Moving(u) => node[u] # node[t]
    /\ \A t \in Threads : pc[t] \in Taking => node[t] \in Taken
    /\ \A x \in 1..MaxNodes : Passed(x) /\ next[x] = Null =>
           /\ tail # x
           /\ \A t \in Threads : Moving(t) => node[t] # x

AliveInv == NodesKnown /\ NodesNew /\ LinksForward /\ TailAlive

LEMMA AliveInit == Init => AliveInv
<1> SUFFICES ASSUME Init PROVE AliveInv
  OBVIOUS
<1>1. /\ next = [n \in Nodes |-> Null] /\ tail = HeadNode /\ used = 0 /\ freed = {}
      /\ pc = [t \in Threads |-> "idle"] /\ added = <<>> /\ got = <<>>
      /\ node = [t \in Threads |-> Null]
  BY DEF Init
<1>2. Added = {} /\ Taken = {} /\ added \in Seq(1..MaxNodes) /\ got \in Seq(1..MaxNodes)
  <2>1. Len(added) = 0 /\ Len(got) = 0 /\ added \in Seq(1..MaxNodes) /\ got \in Seq(1..MaxNodes)
    BY <1>1, EmptySeq
  <2> QED
    BY <2>1 DEF Added, Taken, Elems
<1>3. NodesKnown
  BY <1>1, <1>2, QueueAssumption DEF NodesKnown, Nodes, HeadNode
<1>4. NodesNew
  BY <1>1 DEF NodesNew, Pending
<1>5. LinksForward
  BY <1>1, <1>2, QueueAssumption DEF LinksForward, Nodes, HeadNode
<1>6. TailAlive
  BY <1>1 DEF TailAlive, Moving, Passed, Taking
<1> QED
  BY <1>3, <1>4, <1>5, <1>6 DEF AliveInv

\* Steps that leave the list alone, and after which nobody is inside who was not.
LEMMA AliveQuiet ==
    ASSUME AliveInv, UNCHANGED <<next, tail, freed, added, got>>,
           used' \in Nodes, used <= used', node' \in [Threads -> Nodes \cup {Null}],
           \A u \in Threads :
               \/ pc'[u] = pc[u] /\ node'[u] = node[u]
               \/ pc[u] \notin Taking \cup {"tail"} /\ pc'[u] \notin Taking \cup {"tail"},
           NodesNew'
    PROVE  AliveInv'
<1> USE DEF AliveInv
<1>1. Added' = Added /\ Taken' = Taken
  BY DEF Added, Taken, Elems
<1>2. NodesKnown'
  <2>1. 1..used \subseteq 1..used'
    BY DEF NodesKnown, Nodes
  <2> QED
    BY <1>1, <2>1 DEF NodesKnown
<1>3. LinksForward'
  BY <1>1 DEF LinksForward
<1>4. /\ \A u \in Threads : (Moving(u)' <=> Moving(u)) /\ (Moving(u) => node'[u] = node[u])
      /\ \A u \in Threads : pc'[u] \in Taking => pc'[u] = pc[u] /\ node'[u] = node[u]
  BY DEF Moving, Taking
<1>5. \A x : Passed(x)' => Passed(x)
  BY <1>4 DEF Passed, Taking
<1>6. TailAlive'
  <2>1. (\A t \in Threads : ~Moving(t)') /\ tail' # HeadNode => next'[tail'] = Null
    BY <1>4 DEF TailAlive
  <2>2. \A t \in Threads : Moving(t)' =>
           /\ node'[t] \in Added' /\ next'[node'[t]] = Null /\ node'[t] # tail'
           /\ \A u \in Threads \ {t} : Moving(u)' => node'[u] # node'[t]
    BY <1>1, <1>4 DEF TailAlive
  <2>3. \A t \in Threads : pc'[t] \in Taking => node'[t] \in Taken'
    BY <1>1, <1>4 DEF TailAlive
  <2>4. \A x \in 1..MaxNodes : Passed(x)' /\ next'[x] = Null =>
           /\ tail' # x
           /\ \A t \in Threads : Moving(t)' => node'[t] # x
    BY <1>4, <1>5 DEF TailAlive
  <2> QED
    BY <2>1, <2>2, <2>3, <2>4 DEF TailAlive
<1> QED
  BY <1>2, <1>3, <1>6

LEMMA CallAlive ==
    ASSUME AliveInv, Busy, NEW t \in Threads, NEW o \in Ops, Call(t, o)
    PROVE  AliveInv'
<1> USE DEF AliveInv
<1>1. /\ pc[t] = "idle" /\ op' = [op EXCEPT ![t] = o] /\ pc' = [pc EXCEPT ![t] = "lock"]
      /\ UNCHANGED <<next, tail, freed, added, got>>
      /\ pc \in [Threads -> Labels] /\ op \in [Threads -> Ops]
      /\ node \in [Threads -> Nodes \cup {Null}] /\ used \in Nodes
  BY DEF Call, Goto, Busy, NodesKnown
<1>2. Added' = Added
  BY <1>1 DEF Added, Elems
<1>3. \A u \in Threads \ {t} : Pending(u)' <=> Pending(u)
  BY <1>1 DEF Pending
<1>4. CASE o \in {"offer", "put"}
  <2>1. /\ used < MaxNodes /\ used' = used + 1 /\ node' = [node EXCEPT ![t] = used + 1]
    BY <1>4 DEF Call
  <2>2. used' \in Nodes /\ used' \in Nat /\ used \in Nat
    BY <1>1, <2>1, QueueAssumption DEF Nodes
  <2>3. node'[t] = used + 1 /\ \A u \in Threads \ {t} : node'[u] = node[u]
    BY <1>1, <2>1
  <2>4. used + 1 \in 1..used' /\ used + 1 \notin 1..used /\ 1..used \subseteq 1..used'
    BY <2>1, <2>2
  <2>5. used + 1 \notin Added
    BY <2>4 DEF NodesKnown
  <2>6. \A u \in Threads \ {t} : Pending(u)' =>
            node'[u] \in 1..used /\ node'[u] \notin Added /\ Pending(u)
    BY <1>3, <2>3 DEF NodesNew
  <2>7. NodesNew'
    <3>1. ASSUME NEW u \in Threads, Pending(u)'
          PROVE  node'[u] \in 1..used' /\ node'[u] \notin Added'
      BY <1>2, <2>3, <2>4, <2>5, <2>6, <3>1
    <3>2. ASSUME NEW u \in Threads, NEW v \in Threads \ {u}, Pending(u)', Pending(v)'
          PROVE  node'[v] # node'[u]
      <4>1. CASE u = t
        BY <2>3, <2>4, <2>6, <3>2, <4>1
      <4>2. CASE v = t
        BY <2>3, <2>4, <2>6, <3>2, <4>2
      <4>3. CASE u # t /\ v # t
        BY <2>3, <2>6, <3>2, <4>3 DEF NodesNew
      <4> QED
        BY <4>1, <4>2, <4>3
    <3> QED
      BY <3>1, <3>2 DEF NodesNew
  <2>8. node' \in [Threads -> Nodes \cup {Null}]
    BY <1>1, <2>1, <2>2
  <2>9. \A u \in Threads :
               \/ pc'[u] = pc[u] /\ node'[u] = node[u]
               \/ pc[u] \notin Taking \cup {"tail"} /\ pc'[u] \notin Taking \cup {"tail"}
    BY <1>1, <2>3 DEF Taking
  <2> QED
    BY <1>1, <2>1, <2>2, <2>7, <2>8, <2>9, AliveQuiet
<1>5. CASE o \notin {"offer", "put"}
  <2>1. UNCHANGED <<used, node>>
    BY <1>5 DEF Call
  <2>2. ~Pending(t)'
    BY <1>1, <1>5 DEF Pending, Adders
  <2>3. NodesNew'
    BY <1>2, <1>3, <2>1, <2>2 DEF NodesNew
  <2>4. \A u \in Threads :
               \/ pc'[u] = pc[u] /\ node'[u] = node[u]
               \/ pc[u] \notin Taking \cup {"tail"} /\ pc'[u] \notin Taking \cup {"tail"}
    BY <1>1, <2>1 DEF Taking
  <2>5. used' \in Nodes /\ used <= used' /\ node' \in [Threads -> Nodes \cup {Null}]
    BY <1>1, <2>1, QueueAssumption DEF Nodes
  <2> QED
    BY <1>1, <2>3, <2>4, <2>5, AliveQuiet
<1> QED
  BY <1>4, <1>5

\* Steps outside the parts where the list changes, and the counting.
LEMMA WaitingAlive ==
    ASSUME AliveInv, Busy, NEW t \in Threads,
           \/ SpuriousWake(t) \/ Admit(t) \/ Decide(t) \/ Block(t) \/ GiveUp(t)
           \/ SetShutdown(t) \/ Notify(t) \/ Count(t)
    PROVE  AliveInv'
<1> USE DEF AliveInv
<1>1. /\ UNCHANGED <<next, tail, used, freed, added, got, node, op>>
      /\ pc \in [Threads -> Labels] /\ op \in [Threads -> Ops]
  BY DEF SpuriousWake, Admit, Decide, Block, GiveUp, SetShutdown, Notify, Count, local, list, Busy
<1>2. /\ \A u \in Threads :
               \/ pc'[u] = pc[u]
               \/ pc[u] \notin Taking \cup {"tail"} /\ pc'[u] \notin Taking \cup {"tail"}
      /\ \A u \in Threads : Pending(u)' => Pending(u)
  <2>1. CASE Notify(t)
    <3>1. \A u \in Threads : \/ pc'[u] = pc[u]
                             \/ pc[u] = "notify" /\ pc'[u] = "idle"
                             \/ pc[u] = "wait" /\ pc'[u] = "lock"
      BY <2>1, NotifyEffect
    <3> QED
      BY <1>1, <3>1 DEF Pending, Taking
  <2>2. CASE SpuriousWake(t)
    BY <1>1, <2>2 DEF SpuriousWake, Goto, Pending, Taking
  <2>3. CASE Admit(t) \/ Decide(t) \/ Block(t) \/ GiveUp(t) \/ SetShutdown(t)
    <3>1. PICK l \in {"link", "block", "wait", "idle", "notify"} :
              pc[t] \in {"lock", "block"} /\ pc' = [pc EXCEPT ![t] = l]
      BY <2>3 DEF Admit, Decide, Block, GiveUp, SetShutdown, Goto, CanLock
    <3> QED
      BY <1>1, <3>1 DEF Pending, Taking
  <2>4. CASE Count(t)
    BY <1>1, <2>4 DEF Count, Goto, Pending, Taking
  <2> QED
    BY <2>1, <2>2, <2>3, <2>4
<1>3. NodesNew'
  BY <1>1, <1>2 DEF NodesNew, Added, Elems
<1>4. used' \in Nodes /\ used <= used' /\ node' \in [Threads -> Nodes \cup {Null}]
  BY <1>1, QueueAssumption DEF Nodes, NodesKnown
<1> QED
  BY <1>1, <1>2, <1>3, <1>4, AliveQuiet

\* The new node is put behind the last one: nothing led to it.
LEMMA LinkAlive ==
    ASSUME AliveInv, Busy, NEW t \in Threads, Link(t)
    PROVE  AliveInv'
<1> DEFINE n == node[t]
<1> USE DEF AliveInv
<1>1. /\ pc[t] \in {"lock", "link"} /\ op[t] \in Adders
      /\ next' = [next EXCEPT ![tail] = n] /\ added' = Append(added, n)
      /\ pc' = [pc EXCEPT ![t] = "tail"] /\ pc \in [Threads -> Labels]
      /\ UNCHANGED <<tail, used, freed, got, op, node>>
  BY DEF Link, CanLock, Goto, local, Adders, Busy
<1>2. n \in 1..used /\ n \notin Added /\ n \in 1..MaxNodes /\ n \in Nodes /\ n # HeadNode /\ n # Null
  <2>1. Pending(t) /\ used \in Nodes
    BY <1>1 DEF Pending, NodesKnown
  <2> QED
    BY <2>1, QueueAssumption DEF NodesNew, Nodes, HeadNode
<1>3. /\ Added' = Added \cup {n} /\ Taken' = Taken /\ added' \in Seq(1..MaxNodes)
  <2>1. added \in Seq(1..MaxNodes)
    BY DEF NodesKnown
  <2> DEFINE M == 1..MaxNodes
  <2>2. added \in Seq(M) /\ n \in M
    BY <1>2, <2>1
  <2> HIDE DEF n, M
  <2>3. Append(added, n) \in Seq(M)
    BY <2>2, AppendProperties
  <2>4. Elems(Append(added, n)) = Elems(added) \cup {n}
    BY <2>2, ElemsAppend
  <2> QED
    BY <1>1, <2>3, <2>4 DEF Added, Taken, M
<1>4. /\ tail \in Nodes /\ tail # n /\ (tail # HeadNode => tail \in 1..MaxNodes /\ tail \in Added)
      /\ HeadNode \in Nodes /\ 1..MaxNodes \subseteq Nodes /\ HeadNode \notin 1..MaxNodes
      /\ Added \subseteq 1..MaxNodes /\ Taken \subseteq Added /\ Null \notin Nodes
  <2>1. used \in 0..MaxNodes /\ Added \subseteq 1..used
    BY DEF NodesKnown, Nodes
  <2>2. Added \subseteq 1..MaxNodes
    BY <2>1, QueueAssumption
  <2> QED
    BY <1>2, <2>2, QueueAssumption DEF NodesKnown, Nodes, HeadNode
<1> HIDE DEF n
<1>5. \A m \in Nodes : next'[m] = IF m = tail THEN n ELSE next[m]
  BY <1>1 DEF NodesKnown
<1>6. \A m \in Nodes : next[m] # n
  BY <1>2 DEF NodesKnown
<1>7. NodesKnown'
  <2>1. next' \in [Nodes -> Nodes \cup {Null}]
    BY <1>1, <1>2 DEF NodesKnown
  <2>2. Added' \subseteq 1..used' /\ Taken' \subseteq Added' /\ tail' \in Added' \cup {HeadNode}
    BY <1>1, <1>2, <1>3 DEF NodesKnown
  <2>3. \A x \in Nodes : next'[x] \in Added' \cup {Null}
    BY <1>3, <1>5 DEF NodesKnown
  <2>4. ASSUME NEW x \in 1..MaxNodes, x \notin Added' PROVE next'[x] = Null
    <3>1. x \notin Added /\ x # tail /\ x \in Nodes
      BY <1>3, <1>4, <2>4
    <3> QED
      BY <1>5, <3>1 DEF NodesKnown
  <2> QED
    BY <1>1, <1>3, <2>1, <2>2, <2>3, <2>4 DEF NodesKnown
<1>8. NodesNew'
  <2>1. \A u \in Threads : Pending(u)' => Pending(u) /\ u # t
    BY <1>1 DEF Pending
  <2>2. Pending(t)
    BY <1>1 DEF Pending
  <2> QED
    BY <1>1, <1>3, <2>1, <2>2 DEF NodesNew, n
<1>9. LinksForward'
  <2>1. n \notin Taken
    BY <1>2, <1>4
  <2>2. next'[HeadNode] \notin Taken'
    BY <1>3, <1>4, <1>5, <2>1 DEF LinksForward
  <2>3. ASSUME NEW x \in 1..MaxNodes, next'[x] \in Taken' PROVE x \in Taken'
    BY <1>3, <1>4, <1>5, <2>1, <2>3 DEF LinksForward
  <2>4. ASSUME NEW x \in 1..MaxNodes, next'[x] # Null, next'[x] = next'[HeadNode] PROVE x \in Taken'
    <3>1. x # tail /\ tail # HeadNode
      BY <1>4, <1>5, <1>6, <2>4
    <3> QED
      BY <1>3, <1>4, <1>5, <2>4, <3>1 DEF LinksForward
  <2>5. ASSUME NEW x \in 1..MaxNodes, NEW y \in 1..MaxNodes, next'[x] # Null, next'[x] = next'[y]
        PROVE  x = y
    BY <1>4, <1>5, <1>6, <2>5 DEF LinksForward
  <2> QED
    BY <2>2, <2>3, <2>4, <2>5 DEF LinksForward
<1>10. TailAlive'
  <2>1. /\ pc'[t] = "tail" /\ \A u \in Threads \ {t} : pc'[u] = pc[u]
        /\ \A u \in Threads : Moving(u)' <=> u = t \/ Moving(u)
        /\ \A x : Passed(x)' <=> Passed(x)
    BY <1>1 DEF Moving, Passed
  <2>2. (\A u \in Threads : ~Moving(u)') /\ tail' # HeadNode => next'[tail'] = Null
    BY <2>1
  <2>3. ASSUME NEW u \in Threads, Moving(u)'
        PROVE  /\ node'[u] \in Added' /\ next'[node'[u]] = Null /\ node'[u] # tail'
               /\ u # t => node[u] \in Added
    <3>1. CASE u = t
      <4>1. next'[n] = Null
        BY <1>2, <1>4, <1>5 DEF NodesKnown
      <4> QED
        BY <1>1, <1>3, <1>4, <3>1, <4>1 DEF n
    <3>2. CASE u # t
      <4>1. Moving(u) /\ node[u] \in Added /\ next[node[u]] = Null /\ node[u] # tail
        BY <2>1, <2>3, <3>2 DEF TailAlive
      <4>2. node[u] \in Nodes
        BY <1>4, <4>1
      <4> QED
        BY <1>1, <1>3, <1>5, <4>1, <4>2
    <3> QED
      BY <3>1, <3>2
  <2>4. ASSUME NEW u \in Threads, NEW v \in Threads \ {u}, Moving(u)', Moving(v)'
        PROVE  node'[v] # node'[u]
    <3>1. CASE u = t \/ v = t
      BY <1>1, <1>2, <2>3, <2>4, <3>1 DEF n
    <3>2. CASE u # t /\ v # t
      BY <1>1, <2>1, <2>4, <3>2 DEF TailAlive
    <3> QED
      BY <3>1, <3>2
  <2>5. \A u \in Threads : pc'[u] \in Taking => node'[u] \in Taken'
    BY <1>1, <1>3, <2>1 DEF TailAlive, Taking
  <2>6. ASSUME NEW x \in 1..MaxNodes, Passed(x)', next'[x] = Null
        PROVE  tail' # x /\ \A u \in Threads : Moving(u)' => node'[u] # x
    <3>1. Passed(x) /\ next[x] = Null /\ x \in Taken
      <4>1. x \in Taken
        BY <2>1, <2>6 DEF Passed, NodesKnown, TailAlive, Taking
      <4>2. x # tail
        BY <1>2, <1>4, <1>5, <2>6
      <4> QED
        BY <1>4, <1>5, <2>1, <2>6, <4>1, <4>2
    <3>2. tail # x /\ \A u \in Threads : Moving(u) => node[u] # x
      BY <3>1 DEF TailAlive
    <3>3. n # x
      BY <1>2, <1>4, <3>1
    <3> QED
      BY <1>1, <2>1, <3>2, <3>3 DEF n
  <2> QED
    BY <2>2, <2>3, <2>4, <2>5, <2>6 DEF TailAlive
<1> QED
  BY <1>7, <1>8, <1>9, <1>10

\* The tail moves to the last node of the thread that linked it.
LEMMA SetTailAlive ==
    ASSUME AliveInv, Busy, NEW t \in Threads, SetTail(t)
    PROVE  AliveInv'
<1> USE DEF AliveInv
<1>1. /\ pc[t] = "tail" /\ tail' = node[t] /\ pc' = [pc EXCEPT ![t] = "count"]
      /\ pc \in [Threads -> Labels]
      /\ UNCHANGED <<next, used, freed, added, got, op, node>>
  BY DEF SetTail, Goto, local, Busy
<1>2. /\ Added' = Added /\ Taken' = Taken /\ pc'[t] = "count"
      /\ \A u \in Threads \ {t} : pc'[u] = pc[u]
      /\ \A u \in Threads : Moving(u)' <=> u # t /\ Moving(u)
      /\ \A x : Passed(x)' <=> Passed(x)
      /\ Moving(t)
  BY <1>1 DEF Added, Taken, Elems, Moving, Passed
<1>3. node[t] \in Added /\ next[node[t]] = Null
  BY <1>2 DEF TailAlive
<1>4. NodesKnown'
  BY <1>1, <1>2, <1>3 DEF NodesKnown
<1>5. NodesNew'
  <2>1. \A u \in Threads : Pending(u)' => Pending(u)
    BY <1>1, <1>2 DEF Pending
  <2> QED
    BY <1>1, <1>2, <2>1 DEF NodesNew
<1>6. LinksForward'
  BY <1>1, <1>2 DEF LinksForward
<1>7. TailAlive'
  <2>1. \A u \in Threads : Moving(u)' =>
           /\ node'[u] \in Added' /\ next'[node'[u]] = Null /\ node'[u] # tail'
           /\ \A v \in Threads \ {u} : Moving(v)' => node'[v] # node'[u]
    BY <1>1, <1>2 DEF TailAlive
  <2>2. \A u \in Threads : pc'[u] \in Taking => node'[u] \in Taken'
    BY <1>1, <1>2 DEF TailAlive, Taking
  <2>3. \A x \in 1..MaxNodes : Passed(x)' /\ next'[x] = Null =>
           /\ tail' # x
           /\ \A u \in Threads : Moving(u)' => node'[u] # x
    BY <1>1, <1>2 DEF TailAlive
  <2> QED
    BY <1>1, <1>3, <2>1, <2>2, <2>3 DEF TailAlive
<1> QED
  BY <1>4, <1>5, <1>6, <1>7

\* The first node is taken out; what it leads to was not.
LEMMA UnlinkAlive ==
    ASSUME AliveInv, Busy, NEW t \in Threads, Unlink(t)
    PROVE  AliveInv'
<1> DEFINE n == next[HeadNode]
<1> USE DEF AliveInv
<1>1. /\ pc[t] = "lock" /\ op[t] \in Takers /\ n # Null
      /\ node' = [node EXCEPT ![t] = n] /\ next' = [next EXCEPT ![HeadNode] = next[n]]
      /\ got' = Append(got, n) /\ pc' = [pc EXCEPT ![t] = "check"] /\ pc \in [Threads -> Labels]
      /\ UNCHANGED <<tail, used, freed, added, op>>
  BY DEF Unlink, CanLock, Goto, Takers, Busy
<1>2. /\ HeadNode \in Nodes /\ 1..MaxNodes \subseteq Nodes /\ HeadNode \notin 1..MaxNodes
      /\ Added \subseteq 1..MaxNodes /\ Null \notin Nodes
  <2>1. used \in 0..MaxNodes /\ Added \subseteq 1..used
    BY DEF NodesKnown, Nodes
  <2>2. Added \subseteq 1..MaxNodes
    BY <2>1, QueueAssumption
  <2> QED
    BY <2>2, QueueAssumption DEF NodesKnown, Nodes, HeadNode
<1>3. n \in Added /\ n \in 1..MaxNodes /\ n \in Nodes /\ n # HeadNode /\ n \notin Taken
  BY <1>1, <1>2 DEF NodesKnown, LinksForward
<1> HIDE DEF n
<1>4. Taken' = Taken \cup {n} /\ Added' = Added /\ got' \in Seq(1..MaxNodes)
  <2>1. got \in Seq(1..MaxNodes)
    BY DEF NodesKnown
  <2> DEFINE M == 1..MaxNodes
  <2>2. got \in Seq(M) /\ n \in M
    BY <1>3, <2>1
  <2> HIDE DEF M
  <2>3. Append(got, n) \in Seq(M)
    BY <2>2, AppendProperties
  <2>4. Elems(Append(got, n)) = Elems(got) \cup {n}
    BY <2>2, ElemsAppend
  <2> QED
    BY <1>1, <2>3, <2>4 DEF Added, Taken, M
<1>5. /\ \A m \in Nodes : next'[m] = IF m = HeadNode THEN next[n] ELSE next[m]
      /\ \A m \in 1..MaxNodes : next'[m] = next[m]
      /\ next'[HeadNode] = next[n]
  BY <1>1, <1>2 DEF NodesKnown
<1>6. /\ node' \in [Threads -> Nodes \cup {Null}]
      /\ node'[t] = n /\ \A u \in Threads \ {t} : node'[u] = node[u]
  BY <1>1, <1>3 DEF NodesKnown
<1>7. NodesKnown'
  <2>1. next' \in [Nodes -> Nodes \cup {Null}]
    BY <1>1, <1>3 DEF NodesKnown
  <2>2. \A x \in Nodes : next'[x] \in Added' \cup {Null}
    BY <1>3, <1>4, <1>5 DEF NodesKnown
  <2> QED
    BY <1>1, <1>3, <1>4, <1>5, <1>6, <2>1, <2>2 DEF NodesKnown
<1>8. NodesNew'
  <2>1. \A u \in Threads : Pending(u)' => Pending(u) /\ u # t
    BY <1>1 DEF Pending, Adders, Takers
  <2> QED
    BY <1>1, <1>4, <1>6, <2>1 DEF NodesNew
<1>9. LinksForward'
  <2>1. next[n] \notin Taken
    BY <1>3 DEF LinksForward
  <2>2. next[n] # n
    BY <1>1, <1>3 DEF LinksForward, n
  <2>3. next'[HeadNode] \notin Taken'
    BY <1>4, <1>5, <2>1, <2>2
  <2>4. ASSUME NEW x \in 1..MaxNodes, next'[x] \in Taken' PROVE x \in Taken'
    <3>1. next[x] \in Taken \/ next[x] = n
      BY <1>4, <1>5, <2>4
    <3>2. next[x] = n => x \in Taken
      BY <1>1 DEF LinksForward, n
    <3> QED
      BY <1>4, <3>1, <3>2 DEF LinksForward
  <2>5. ASSUME NEW x \in 1..MaxNodes, next'[x] # Null, next'[x] = next'[HeadNode] PROVE x \in Taken'
    <3>1. next[x] # Null /\ next[x] = next[n]
      BY <1>5, <2>5
    <3>2. x = n
      BY <1>3, <3>1 DEF LinksForward
    <3> QED
      BY <1>4, <3>2
  <2>6. \A x, y \in 1..MaxNodes : next'[x] # Null /\ next'[x] = next'[y] => x = y
    BY <1>5 DEF LinksForward
  <2> QED
    BY <2>3, <2>4, <2>5, <2>6 DEF LinksForward
<1>10. TailAlive'
  <2>1. /\ pc'[t] = "check" /\ \A u \in Threads \ {t} : pc'[u] = pc[u]
        /\ \A u \in Threads : (Moving(u)' <=> Moving(u)) /\ (Moving(u) => u # t)
    BY <1>1 DEF Moving
  <2>2. \A x : Passed(x)' => Passed(x)
    BY <1>1, <1>6, <2>1 DEF Passed
  <2>3. tail # HeadNode => tail \in 1..MaxNodes
    BY <1>2 DEF NodesKnown
  <2>4. (\A u \in Threads : ~Moving(u)') /\ tail' # HeadNode => next'[tail'] = Null
    BY <1>1, <1>5, <2>1, <2>3 DEF TailAlive
  <2>5. ASSUME NEW u \in Threads, Moving(u)'
        PROVE  /\ node'[u] \in Added' /\ next'[node'[u]] = Null /\ node'[u] # tail'
               /\ \A v \in Threads \ {u} : Moving(v)' => node'[v] # node'[u]
    <3>1. /\ node[u] \in Added /\ next[node[u]] = Null /\ node[u] # tail
          /\ \A v \in Threads \ {u} : Moving(v) => node[v] # node[u]
      BY <2>1, <2>5 DEF TailAlive
    <3>2. next'[node[u]] = Null
      BY <1>2, <1>5, <3>1
    <3> QED
      BY <1>1, <1>4, <1>6, <2>1, <2>5, <3>1, <3>2
  <2>6. \A u \in Threads : pc'[u] \in Taking => node'[u] \in Taken'
    BY <1>4, <1>6, <2>1 DEF TailAlive
  <2>7. \A x \in 1..MaxNodes : Passed(x)' /\ next'[x] = Null =>
           /\ tail' # x
           /\ \A u \in Threads : Moving(u)' => node'[u] # x
    BY <1>1, <1>5, <1>6, <2>1, <2>2 DEF TailAlive
  <2> QED
    BY <2>4, <2>5, <2>6, <2>7 DEF TailAlive
<1> QED
  BY <1>7, <1>8, <1>9, <1>10

\* The reader looks at what its node leads to now: if that is a node, it is done.
LEMMA CheckAlive ==
    ASSUME AliveInv, Busy, NEW t \in Threads, Check(t)
    PROVE  AliveInv'
<1> USE DEF AliveInv
<1>1. /\ pc[t] = "check" /\ pc \in [Threads -> Labels]
      /\ pc' = [pc EXCEPT ![t] = IF next[node[t]] = Null THEN "retail" ELSE "free"]
      /\ UNCHANGED <<next, tail, used, freed, added, got, op, node>>
  BY DEF Check, Goto, local, list, Busy
<1>2. /\ Added' = Added /\ Taken' = Taken
      /\ pc'[t] \in {"retail", "free"} /\ (next[node[t]] = Null => pc'[t] = "retail")
      /\ \A u \in Threads \ {t} : pc'[u] = pc[u]
      /\ \A u \in Threads : Moving(u)' <=> Moving(u)
  BY <1>1 DEF Added, Taken, Elems, Moving
<1>3. \A x : Passed(x)' => Passed(x) \/ next[x] # Null
  BY <1>1, <1>2 DEF Passed
<1>4. NodesKnown'
  BY <1>1, <1>2 DEF NodesKnown
<1>5. NodesNew'
  <2>1. \A u \in Threads : Pending(u)' => Pending(u)
    BY <1>1, <1>2 DEF Pending
  <2> QED
    BY <1>1, <1>2, <2>1 DEF NodesNew
<1>6. LinksForward'
  BY <1>1, <1>2 DEF LinksForward
<1>7. TailAlive'
  <2>1. \A u \in Threads : pc'[u] \in Taking => node'[u] \in Taken'
    BY <1>1, <1>2 DEF TailAlive, Taking
  <2>2. \A x \in 1..MaxNodes : Passed(x)' /\ next'[x] = Null =>
           /\ tail' # x
           /\ \A u \in Threads : Moving(u)' => node'[u] # x
    BY <1>1, <1>2, <1>3 DEF TailAlive
  <2> QED
    BY <1>1, <1>2, <2>1, <2>2 DEF TailAlive
<1> QED
  BY <1>4, <1>5, <1>6, <1>7

\* Under both mutexes nobody moves the tail: if it is the node taken, it goes back.
LEMMA RetailAlive ==
    ASSUME AliveInv, Busy, Exclusive, NEW t \in Threads, Retail(t)
    PROVE  AliveInv'
<1> USE DEF AliveInv
<1>1. /\ pc[t] = "retail" /\ pc \in [Threads -> Labels] /\ holder[2] = NoThread
      /\ pc' = [pc EXCEPT ![t] = "free"] /\ tail' = IF tail = node[t] THEN HeadNode ELSE tail
      /\ UNCHANGED <<next, used, freed, added, got, op, node>>
  BY DEF Retail, Goto, local, Busy
<1>2. \A u \in Threads : ~Moving(u)
  <2> SUFFICES ASSUME NEW u \in Threads, pc[u] = "tail" PROVE FALSE
    BY DEF Moving
  <2>1. op[t] \in Takers /\ op[u] \in Adders /\ u # t
    BY <1>1 DEF Busy, Adding, Taking
  <2>2. holder[1] = t
    BY <1>1, <2>1 DEF Exclusive, Critical, Taking, MutexOf, Takers
  <2>3. holder[MutexOf(op[u])] = u
    BY DEF Exclusive, Critical, Adding
  <2>4. MutexOf(op[u]) \in {1, 2}
    BY DEF MutexOf
  <2> QED
    BY <1>1, <2>1, <2>2, <2>3, <2>4, QueueAssumption
<1>3. /\ Added' = Added /\ Taken' = Taken /\ pc'[t] = "free"
      /\ \A u \in Threads \ {t} : pc'[u] = pc[u]
      /\ \A u \in Threads : ~Moving(u)'
      /\ \A x : Passed(x)' <=> Passed(x) \/ x = node[t]
  BY <1>1, <1>2 DEF Added, Taken, Elems, Moving, Passed
<1>4. NodesKnown'
  BY <1>1, <1>3 DEF NodesKnown
<1>5. NodesNew'
  <2>1. \A u \in Threads : Pending(u)' => Pending(u)
    BY <1>1, <1>3 DEF Pending
  <2> QED
    BY <1>1, <1>3, <2>1 DEF NodesNew
<1>6. LinksForward'
  BY <1>1, <1>3 DEF LinksForward
<1>7. TailAlive'
  <2>1. tail' # HeadNode => next'[tail'] = Null
    BY <1>1, <1>2 DEF TailAlive
  <2>2. \A u \in Threads : pc'[u] \in Taking => node'[u] \in Taken'
    BY <1>1, <1>3 DEF TailAlive, Taking
  <2>3. ASSUME NEW x \in 1..MaxNodes, Passed(x)', next'[x] = Null PROVE tail' # x
    <3>1. x # HeadNode
      BY DEF HeadNode
    <3> QED
      BY <1>1, <1>3, <2>3, <3>1 DEF TailAlive
  <2> QED
    BY <1>3, <2>1, <2>2, <2>3 DEF TailAlive
<1> QED
  BY <1>4, <1>5, <1>6, <1>7

\* Only nodes that readers are done with are deleted.
LEMMA FreeAlive ==
    ASSUME AliveInv, Busy, NEW t \in Threads, Free(t)
    PROVE  AliveInv'
<1> USE DEF AliveInv
<1>1. /\ pc[t] = "free" /\ pc \in [Threads -> Labels] /\ freed' = freed \cup {node[t]}
      /\ pc' = [pc EXCEPT ![t] = IF op[t] = "get" THEN "notify" ELSE "idle"]
      /\ UNCHANGED <<next, tail, used, added, got, op, node>>
  BY DEF Free, Goto, Busy
<1>2. /\ Added' = Added /\ Taken' = Taken /\ pc'[t] \in {"notify", "idle"}
      /\ \A u \in Threads \ {t} : pc'[u] = pc[u]
      /\ \A u \in Threads : Moving(u)' <=> Moving(u)
  BY <1>1 DEF Added, Taken, Elems, Moving
<1>3. \A x : Passed(x)' => Passed(x)
  BY <1>1, <1>2 DEF Passed
<1>4. node[t] \in Taken
  BY <1>1 DEF TailAlive, Taking
<1>5. NodesKnown'
  BY <1>1, <1>2, <1>4 DEF NodesKnown
<1>6. NodesNew'
  <2>1. \A u \in Threads : Pending(u)' => Pending(u)
    BY <1>1, <1>2 DEF Pending
  <2> QED
    BY <1>1, <1>2, <2>1 DEF NodesNew
<1>7. LinksForward'
  BY <1>1, <1>2 DEF LinksForward
<1>8. TailAlive'
  <2>1. \A u \in Threads : pc'[u] \in Taking => node'[u] \in Taken'
    BY <1>1, <1>2 DEF TailAlive, Taking
  <2>2. \A x \in 1..MaxNodes : Passed(x)' /\ next'[x] = Null =>
           /\ tail' # x
           /\ \A u \in Threads : Moving(u)' => node'[u] # x
    BY <1>1, <1>2, <1>3 DEF TailAlive
  <2> QED
    BY <1>1, <1>2, <2>1, <2>2 DEF TailAlive
<1> QED
  BY <1>5, <1>6, <1>7, <1>8

LEMMA AliveStep ==
    ASSUME AliveInv, Busy, Exclusive, [Next]_vars
    PROVE  AliveInv'
<1>1. CASE UNCHANGED vars
  <2>1. UNCHANGED <<next, tail, used, freed, added, got, op, pc, node>>
    BY <1>1 DEF vars, list, local
  <2>2. NodesNew'
    BY <2>1 DEF AliveInv, NodesNew, Pending, Added, Elems
  <2>3. used' \in Nodes /\ used <= used' /\ node' \in [Threads -> Nodes \cup {Null}]
    BY <2>1, QueueAssumption DEF AliveInv, NodesKnown, Nodes
  <2> QED
    BY <2>1, <2>2, <2>3, AliveQuiet
<1>2. CASE Next
  <2>1. PICK t \in Threads : Step(t) \/ SpuriousWake(t) \/ \E o \in Ops : Call(t, o)
    BY <1>2 DEF Next
  <2> QED
    BY <2>1, CallAlive, WaitingAlive, LinkAlive, SetTailAlive, UnlinkAlive, CheckAlive,
       RetailAlive, FreeAlive DEF Step
<1> QED
  BY <1>1, <1>2

LEMMA AliveAlways == Spec => []AliveInv
<1>1. AliveInv /\ Busy /\ Exclusive /\ WokenUp /\ [Next]_vars
          => (AliveInv /\ Busy /\ Exclusive /\ WokenUp)'
  BY AliveStep, BusyStep
<1> QED
  BY <1>1, AliveInit, BusyInit, PTL DEF Spec

\* The recursive function of Chain, and one step of it.
Extended(seen) ==
    LET last == IF seen = <<>> THEN HeadNode ELSE seen[Len(seen)]
    IN  IF next[last] = Null THEN seen ELSE Append(seen, next[last])

Walks(w) == w = [k \in Nodes |-> IF k = 0 THEN <<>> ELSE Extended(w[k - 1])]

\* Chain is the end of a walk, wherever the links lead: a walk of so many steps can
\* always be made one longer.
LEMMA ChainIsWalked == \E w : Walks(w) /\ Chain = w[MaxNodes]
<1> DEFINE Goes(w, n) == w = [k \in 0..n |-> IF k = 0 THEN <<>> ELSE Extended(w[k - 1])]
<1> DEFINE Walkable == {n \in Nat : \E w : Goes(w, n)}
<1>1. 0 \in Walkable
  <2> DEFINE w == [k \in 0..0 |-> <<>>]
  <2>1. Goes(w, 0)
    OBVIOUS
  <2> QED
    BY <2>1
<1>2. ASSUME NEW n \in Walkable PROVE n + 1 \in Walkable
  <2>1. PICK w : Goes(w, n)
    BY <1>2
  <2>2. \A k \in 0..n : w[k] = IF k = 0 THEN <<>> ELSE Extended(w[k - 1])
    BY <2>1
  <2> DEFINE v == [k \in 0..(n + 1) |-> IF k = n + 1 THEN Extended(w[n]) ELSE w[k]]
  <2>3. ASSUME NEW k \in 0..(n + 1) PROVE v[k] = IF k = 0 THEN <<>> ELSE Extended(v[k - 1])
    <3>1. CASE k = n + 1
      <4>1. v[k] = Extended(w[n]) /\ v[k - 1] = w[n] /\ k # 0
        BY <1>2, <3>1
      <4> QED
        BY <4>1
    <3>2. CASE k # n + 1
      <4>1. k \in 0..n /\ v[k] = w[k] /\ (k # 0 => v[k - 1] = w[k - 1])
        BY <1>2, <3>2
      <4> QED
        BY <2>2, <4>1
    <3> QED
      BY <3>1, <3>2
  <2>4. Goes(v, n + 1)
    <3>1. v = [k \in 0..(n + 1) |-> v[k]]
      OBVIOUS
    <3> HIDE DEF v
    <3> QED
      BY <2>3, <3>1
  <2> HIDE DEF v, Goes
  <2> QED
    BY <1>2, <2>4
<1>3. MaxNodes \in Walkable
  <2> HIDE DEF Walkable
  <2>1. Walkable \in SUBSET Nat
    BY DEF Walkable
  <2> QED
    BY <1>1, <1>2, <2>1, InductiveSet, QueueAssumption
<1>4. \E w : Walks(w)
  BY <1>3 DEF Walks, Nodes
<1>5. Chain = (CHOOSE w : Walks(w))[MaxNodes]
  BY Zenon DEF Chain, Walks, Extended
<1>6. Walks(CHOOSE w : Walks(w))
  BY <1>4
<1> QED
  BY <1>5, <1>6

\* A walk from the head meets no node that was taken.
LEMMA ChainNotTaken ==
    ASSUME AliveInv
    PROVE  \A i \in 1..Len(Chain) : Chain[i] \notin Taken
<1> DEFINE Clean(s) == /\ s \in Seq(1..MaxNodes)
                       /\ \A i \in 1..Len(s) : s[i] \notin Taken
<1>1. PICK w : Walks(w) /\ Chain = w[MaxNodes]
  BY ChainIsWalked
<1>2. /\ \A x \in Nodes : next[x] # Null => next[x] \in 1..MaxNodes
      /\ HeadNode \in Nodes /\ 1..MaxNodes \subseteq Nodes /\ MaxNodes \in Nat
  <2>1. used \in 0..MaxNodes /\ Added \subseteq 1..used
    BY DEF AliveInv, NodesKnown, Nodes
  <2>2. Added \subseteq 1..MaxNodes
    BY <2>1, QueueAssumption
  <2> QED
    BY <2>2, QueueAssumption DEF AliveInv, NodesKnown, Nodes, HeadNode
<1>3. ASSUME NEW s, Clean(s) PROVE Clean(Extended(s))
  <2> DEFINE last == IF s = <<>> THEN HeadNode ELSE s[Len(s)]
  <2>1. Extended(s) = IF next[last] = Null THEN s ELSE Append(s, next[last])
    BY DEF Extended
  <2>2. last \in Nodes /\ next[last] \notin Taken
    <3>1. CASE s = <<>>
      BY <1>2, <3>1 DEF AliveInv, LinksForward
    <3>2. CASE s # <<>>
      <4>1. Len(s) \in 1..Len(s) /\ s[Len(s)] \in 1..MaxNodes
        <5>1. s \in Seq(1..MaxNodes)
          BY <1>3
        <5>2. Len(s) \in Nat /\ Len(s) # 0
          BY <3>2, <5>1, EmptySeq, LenProperties
        <5>3. Len(s) \in 1..Len(s)
          BY <5>2
        <5> QED
          BY <5>1, <5>3, ElementOfSeq
      <4> QED
        BY <1>2, <1>3, <3>2, <4>1 DEF AliveInv, LinksForward
    <3> QED
      BY <3>1, <3>2
  <2> HIDE DEF last
  <2>3. CASE next[last] # Null
    <3> DEFINE e == next[last]
    <3>1. e \in 1..MaxNodes /\ e \notin Taken
      BY <1>2, <2>2, <2>3
    <3> HIDE DEF e
    <3>2. /\ Append(s, e) \in Seq(1..MaxNodes) /\ Len(Append(s, e)) = Len(s) + 1
          /\ Append(s, e)[Len(s) + 1] = e
          /\ \A i \in 1..Len(s) : Append(s, e)[i] = s[i]
      BY <1>3, <3>1, AppendProperties
    <3>3. Len(s) \in Nat
      BY <1>3, LenProperties
    <3>4. ASSUME NEW i \in 1..(Len(s) + 1) PROVE Append(s, e)[i] \notin Taken
      <4>1. CASE i = Len(s) + 1
        BY <3>1, <3>2, <4>1
      <4>2. CASE i # Len(s) + 1
        <5>1. i \in 1..Len(s)
          BY <3>3, <4>2
        <5> QED
          BY <1>3, <3>2, <5>1
      <4> QED
        BY <4>1, <4>2
    <3>5. Clean(Append(s, e))
      BY <3>2, <3>4
    <3> HIDE DEF Clean
    <3> QED
      BY <2>1, <2>3, <3>5 DEF e
  <2> HIDE DEF Clean
  <2> QED
    BY <1>3, <2>1, <2>3
<1>4. Clean(<<>>)
  BY EmptySeq
<1> DEFINE Good == {k \in Nat : k \in Nodes => Clean(w[k])}
<1> HIDE DEF Clean
<1>5. 0 \in Good
  BY <1>1, <1>4 DEF Walks
<1>6. ASSUME NEW k \in Good PROVE k + 1 \in Good
  <2>1. SUFFICES ASSUME k + 1 \in Nodes PROVE Clean(w[k + 1])
    BY <1>6
  <2>2. k \in Nodes /\ k + 1 # 0 /\ (k + 1) - 1 = k
    BY <1>2, <1>6, <2>1 DEF Nodes
  <2>3. w[k + 1] = Extended(w[(k + 1) - 1])
    BY <1>1, <2>1, <2>2 DEF Walks
  <2> QED
    BY <1>3, <1>6, <2>2, <2>3
<1>7. MaxNodes \in Good
  <2> HIDE DEF Good
  <2>1. Good \in SUBSET Nat
    BY DEF Good
  <2> QED
    BY <1>2, <1>5, <1>6, <2>1, InductiveSet
<1>8. Clean(Chain)
  BY <1>1, <1>2, <1>7 DEF Nodes
<1> QED
  BY <1>8 DEF Clean

LEMMA NobodyReachesDeleted ==
    ASSUME AliveInv
    PROVE  NodesAlive
<1>1. Elements(Chain) \cap freed = {}
  BY ChainNotTaken DEF Elements, AliveInv, NodesKnown
<1>2. ASSUME \A t \in Threads : pc[t] # "tail", tail \in freed PROVE FALSE
  <2>1. tail \in 1..MaxNodes /\ tail # HeadNode
    <3>1. used \in 0..MaxNodes /\ tail \in 1..used
      BY <1>2 DEF AliveInv, NodesKnown, Nodes
    <3> QED
      BY <3>1, QueueAssumption DEF HeadNode
  <2>2. next[tail] = Null /\ Passed(tail)
    BY <1>2, <2>1 DEF AliveInv, TailAlive, Moving, Passed
  <2> QED
    BY <2>1, <2>2 DEF AliveInv, TailAlive
<1> QED
  BY <1>1, <1>2 DEF NodesAlive

\* Whatever the mix of operations, put() under its other mutex included: a deleted node
\* can be reached neither from the head nor, once nobody is moving it, through the tail.
THEOREM NoUseAfterFree == Spec => []NodesAlive
BY AliveAlways, NobodyReachesDeleted, PTL
----------------------------------------------------------------------------
\* From here on nobody calls put(), and mutexOne is the only one that orders steps.
NobodyPuts == Putters = {}

\* How many nodes have been added and taken.
In  == Len(added)
Out == Len(got)

Typed ==
    /\ next \in [Nodes -> Nodes \cup {Null}] /\ tail \in Nodes /\ size \in Int /\ used \in Nodes
    /\ node \in [Threads -> Nodes \cup {Null}] /\ ret \in [Threads -> Nodes \cup {Null}]
    /\ added \in Seq(1..MaxNodes) /\ got \in Seq(1..MaxNodes)

\* The list: each node is added once, what was taken is what was added first, and
\* the rest hangs on the dummy head in that order.
Linked ==
    /\ OnceEach(added) /\ Elems(added) \subseteq 1..used
    /\ Out <= In /\ \A i \in 1..Out : got[i] = added[i]
    /\ next[HeadNode] = IF Out = In THEN Null ELSE added[Out + 1]
    /\ \A i \in (Out + 1)..(In - 1) : next[added[i]] = added[i + 1]
    /\ Out < In => next[added[In]] = Null
    /\ \A n \in 1..MaxNodes : n \notin Elems(added) => next[n] = Null

\* The nodes of offers that have yet to link them are new, and each has its own.
Fresh ==
    \A t \in Threads : At(t, {"offer"}, "lock") =>
        /\ node[t] \in 1..used /\ node[t] \notin Elems(added)
        /\ \A u \in Threads \ {t} : At(u, {"offer"}, "lock") => node[u] # node[t]

\* The tail is right but between the steps that change the list and the tail.
TailRight ==
    /\ (\A t \in Threads : pc[t] \notin {"tail", "check", "retail"}) =>
           tail = IF Out = In THEN HeadNode ELSE added[In]
    /\ \A t \in Threads :
           /\ pc[t] = "tail" => node[t] = added[In]
           /\ pc[t] \in Adding => Out < In
           /\ pc[t] \in Taking => Out > 0 /\ node[t] = added[Out]
           /\ pc[t] \in {"check", "retail"} => tail = added[In]
           /\ pc[t] = "check" => (next[node[t]] = Null <=> Out = In)
           /\ pc[t] = "retail" => Out = In

\* What was deleted was taken, and is in nobody's hand.
Deleted ==
    /\ freed \subseteq Elems(got)
    /\ \A t \in Threads : pc[t] \in Taking => node[t] \notin freed

\* The size is the length of the list, one less before an adder has counted its
\* node, and one more while a reader has one in hand.
Sized ==
    /\ (\A t \in Threads : pc[t] \notin Adding \cup Taking) => size = In - Out
    /\ \A t \in Threads : /\ pc[t] \in Adding => size = In - Out - 1
                          /\ pc[t] \in Taking => size = In - Out + 1

ListInv == Typed /\ Linked /\ Fresh /\ TailRight /\ Deleted /\ Sized
----------------------------------------------------------------------------
\* With no put() the mutex of everybody is mutexOne ...
LEMMA MutexOne ==
    ASSUME NobodyPuts, Busy, NEW t \in Threads, pc[t] # "idle"
    PROVE  MutexOf(op[t]) = 1 /\ op[t] # "put"
<1>1. op[t] \in Ops /\ MayCall(t, op[t])
  BY DEF Busy
<1>2. op[t] # "put"
  BY <1>1, Caller DEF NobodyPuts
<1> QED
  BY <1>2 DEF MutexOf

\* ... so there is one thread inside, and none when it is free.
LEMMA OneInside ==
    ASSUME NobodyPuts, Busy, Exclusive
    PROVE  /\ holder[1] = NoThread => \A u \in Threads : pc[u] \notin Critical
           /\ \A t \in Threads : pc[t] \in Critical =>
                  \A u \in Threads \ {t} : pc[u] \notin Critical
<1>1. \A u \in Threads : pc[u] \in Critical => holder[1] = u
  BY MutexOne DEF Exclusive, Critical, Adding, Taking
<1> QED
  BY <1>1, QueueAssumption

\* ... and a node is linked in the step that takes the mutex.
LEMMA OffersLink ==
    ASSUME NobodyPuts, Busy, NEW t \in Threads
    PROVE  /\ ~Admit(t)
           /\ Link(t) => /\ op[t] = "offer" /\ pc[t] = "lock"
                         /\ holder[1] = NoThread /\ MutexOf(op[t]) = 1
<1>1. pc[t] # "idle" => MutexOf(op[t]) = 1 /\ op[t] # "put"
  BY MutexOne
<1> QED
  BY <1>1 DEF Admit, Link, CanLock

LEMMA Lengths ==
    ASSUME Typed
    PROVE  /\ In \in Nat /\ Out \in Nat
           /\ \A i \in 1..In : added[i] \in 1..MaxNodes
           /\ \A i \in 1..Out : got[i] \in 1..MaxNodes
BY LenProperties, ElementOfSeq DEF Typed, In, Out

LEMMA ListInit == Init => ListInv
<1> SUFFICES ASSUME Init PROVE ListInv
  OBVIOUS
<1>1. /\ next = [n \in Nodes |-> Null] /\ tail = HeadNode /\ size = 0 /\ used = 0 /\ freed = {}
      /\ pc = [t \in Threads |-> "idle"] /\ added = <<>> /\ got = <<>>
      /\ node = [t \in Threads |-> Null] /\ ret = [t \in Threads |-> Null]
  BY DEF Init
<1>2. In = 0 /\ Out = 0 /\ added \in Seq(1..MaxNodes) /\ got \in Seq(1..MaxNodes)
  BY <1>1, EmptySeq DEF In, Out
<1>3. Typed
  BY <1>1, <1>2, QueueAssumption DEF Typed, Nodes, HeadNode
<1>4. OnceEach(added) /\ Elems(added) = {}
  BY <1>2 DEF OnceEach, Elems, In
<1>5. Linked
  BY <1>1, <1>2, <1>4, QueueAssumption DEF Linked, Nodes, HeadNode
<1>6. Fresh /\ TailRight /\ Deleted /\ Sized
  BY <1>1, <1>2 DEF Fresh, TailRight, Deleted, Sized, At, Adding, Taking
<1> QED
  BY <1>3, <1>5, <1>6 DEF ListInv

\* Steps that leave the list alone and nobody enters or leaves a part where it is
\* changed: all of ListInv stays, if the new nodes stay new.
LEMMA Quiet ==
    ASSUME ListInv, UNCHANGED <<next, tail, size, freed, added, got>>,
           used' \in Nodes, used <= used', node' \in [Threads -> Nodes \cup {Null}],
           ret' \in [Threads -> Nodes \cup {Null}],
           \A u \in Threads : \/ pc'[u] = pc[u] /\ node'[u] = node[u]
                              \/ pc[u] \notin Adding \cup Taking /\ pc'[u] \notin Adding \cup Taking,
           Fresh'
    PROVE  ListInv'
<1> USE DEF ListInv
<1>1. In' = In /\ Out' = Out
  BY DEF In, Out
<1>2. Typed'
  BY DEF Typed
<1>3. Linked'
  <2>1. Elems(added)' = Elems(added) /\ (OnceEach(added)' <=> OnceEach(added))
    BY DEF Elems, OnceEach
  <2>2. 1..used \subseteq 1..used'
    BY DEF Typed, Nodes
  <2> QED
    BY <1>1, <2>1, <2>2 DEF Linked
<1>4. TailRight'
  BY <1>1 DEF TailRight, Adding, Taking
<1>5. Deleted'
  BY DEF Deleted, Elems
<1>6. Sized'
  BY <1>1 DEF Sized
<1> QED
  BY <1>2, <1>3, <1>4, <1>5, <1>6

LEMMA CallKeeps ==
    ASSUME ListInv, Busy, NEW t \in Threads, NEW o \in Ops, Call(t, o)
    PROVE  ListInv'
<1> USE DEF ListInv
<1>1. /\ pc[t] = "idle" /\ op' = [op EXCEPT ![t] = o] /\ pc' = [pc EXCEPT ![t] = "lock"]
      /\ UNCHANGED <<next, tail, size, freed, added, got, ret>>
      /\ pc \in [Threads -> Labels] /\ op \in [Threads -> Ops]
  BY DEF Call, Goto, Busy
<1>2. CASE o \in {"offer", "put"}
  <2>1. /\ used < MaxNodes /\ used' = used + 1 /\ node' = [node EXCEPT ![t] = used + 1]
    BY <1>2 DEF Call
  <2>2. used' \in Nodes /\ used' \in Nat /\ used \in Nat
    BY <2>1, QueueAssumption DEF Typed, Nodes
  <2>3. node' \in [Threads -> Nodes \cup {Null}]
    BY <2>1, <2>2 DEF Typed
  <2>4. \A n \in 1..used : n # used + 1 /\ n \in 1..used'
    BY <2>1, <2>2
  <2>5. used + 1 \in 1..used' /\ used + 1 \notin Elems(added)
    BY <2>1, <2>2, <2>4 DEF Linked
  <2>6. ASSUME NEW u \in Threads, At(u, {"offer"}, "lock")'
        PROVE  /\ node'[u] \in 1..used' /\ node'[u] \notin Elems(added)
               /\ u # t => /\ At(u, {"offer"}, "lock") /\ node'[u] = node[u] /\ node[u] # used + 1
               /\ u = t => node'[u] = used + 1
    <3>1. CASE u = t
      BY <1>1, <2>1, <2>5, <3>1 DEF Typed
    <3>2. CASE u # t
      <4>1. At(u, {"offer"}, "lock") /\ node'[u] = node[u]
        BY <1>1, <2>1, <2>6, <3>2 DEF At, Typed
      <4> QED
        BY <2>4, <3>2, <4>1 DEF Fresh
    <3> QED
      BY <3>1, <3>2
  <2>7. Elems(added)' = Elems(added)
    BY <1>1 DEF Elems
  <2>8. Fresh'
    <3>1. ASSUME NEW u \in Threads, NEW v \in Threads \ {u},
                 At(u, {"offer"}, "lock")', At(v, {"offer"}, "lock")'
          PROVE  node'[v] # node'[u]
      BY <2>6, <3>1 DEF Fresh
    <3> QED
      BY <2>6, <2>7, <3>1 DEF Fresh
  <2> QED
    BY <1>1, <2>1, <2>2, <2>3, <2>8, Quiet DEF Typed, Adding, Taking
<1>3. CASE o \notin {"offer", "put"}
  <2>1. UNCHANGED <<used, node>>
    BY <1>3 DEF Call
  <2>2. Fresh'
    BY <1>1, <1>3, <2>1 DEF Fresh, At, Elems
  <2> QED
    BY <1>1, <2>1, <2>2, Quiet DEF Typed, Adding, Taking, Nodes
<1> QED
  BY <1>2, <1>3

\* The steps of a thread outside the parts where the list changes.
LEMMA WaitingKeeps ==
    ASSUME ListInv, Busy, NEW t \in Threads,
           SpuriousWake(t) \/ Decide(t) \/ Block(t) \/ GiveUp(t) \/ SetShutdown(t) \/ Notify(t)
    PROVE  ListInv'
<1> USE DEF ListInv
<1>0. UNCHANGED <<list, node, op>> /\ pc \in [Threads -> Labels] /\ op \in [Threads -> Ops]
  BY DEF SpuriousWake, Decide, Block, GiveUp, SetShutdown, Notify, local, Busy
<1>1. ret' \in [Threads -> Nodes \cup {Null}]
  BY DEF SpuriousWake, Decide, Block, GiveUp, SetShutdown, Notify, local, Typed
<1>2. /\ \A u \in Threads : \/ pc'[u] = pc[u]
                            \/ pc[u] \notin Adding \cup Taking /\ pc'[u] \notin Adding \cup Taking
      /\ \A u \in Threads : At(u, {"offer"}, "lock")' => At(u, {"offer"}, "lock")
  <2>1. CASE Notify(t)
    <3>1. \A u \in Threads : \/ pc'[u] = pc[u]
                             \/ pc[u] = "notify" /\ pc'[u] = "idle"
                             \/ pc[u] = "wait" /\ pc'[u] = "lock"
      BY <2>1, NotifyEffect
    <3> QED
      BY <1>0, <3>1 DEF At, Adding, Taking, Busy
  <2>2. CASE SpuriousWake(t)
    BY <1>0, <2>2 DEF SpuriousWake, Goto, At, Adding, Taking, Busy
  <2>3. CASE Decide(t) \/ Block(t) \/ GiveUp(t) \/ SetShutdown(t)
    <3>1. PICK l \in {"block", "wait", "idle", "notify"} :
              pc[t] \in {"lock", "block"} /\ pc' = [pc EXCEPT ![t] = l]
      BY <2>3 DEF Decide, Block, GiveUp, SetShutdown, Goto, CanLock
    <3> QED
      BY <1>0, <3>1 DEF At, Adding, Taking
  <2> QED
    BY <2>1, <2>2, <2>3
<1>3. Fresh'
  BY <1>0, <1>2 DEF Fresh, Elems, list
<1> QED
  BY <1>0, <1>1, <1>2, <1>3, Quiet DEF list, Typed, Nodes

LEMMA LinkKeeps ==
    ASSUME NobodyPuts, ListInv, Busy, Exclusive, NEW t \in Threads, Link(t)
    PROVE  ListInv'
<1> DEFINE n == node[t]
<1> USE DEF ListInv
<1>1. /\ pc[t] = "lock" /\ op[t] = "offer" /\ holder[1] = NoThread
      /\ next' = [next EXCEPT ![tail] = n] /\ added' = Append(added, n)
      /\ pc' = [pc EXCEPT ![t] = "tail"]
      /\ UNCHANGED <<tail, size, used, freed, got, shutdown, op, node, ret>>
  BY OffersLink DEF Link, Goto, local
<1>2. \A u \in Threads : pc[u] \notin Critical
  BY <1>1, OneInside
<1>3. /\ n \in 1..used /\ n \notin Elems(added) /\ n \in 1..MaxNodes /\ n \in Nodes
      /\ HeadNode \in Nodes /\ HeadNode # n
      /\ pc \in [Threads -> Labels] /\ op \in [Threads -> Ops]
  <2>1. n \in 1..used /\ n \notin Elems(added)
    BY <1>1 DEF Fresh, At
  <2> QED
    BY <2>1, QueueAssumption DEF Typed, Nodes, Busy, HeadNode
<1>4. In \in Nat /\ Out \in Nat /\ Out <= In /\ \A i \in 1..In : added[i] \in 1..MaxNodes
  BY Lengths DEF Linked
<1>5. /\ added' \in Seq(1..MaxNodes) /\ In' = In + 1 /\ Out' = Out /\ added'[In + 1] = n
      /\ \A i \in 1..In : added'[i] = added[i]
      /\ Elems(added') = Elems(added) \cup {n} /\ OnceEach(added')
  <2>1. added \in Seq(1..MaxNodes) /\ OnceEach(added)
    BY DEF Typed, Linked
  <2>2. /\ Append(added, n) \in Seq(1..MaxNodes) /\ Len(Append(added, n)) = Len(added) + 1
        /\ Append(added, n)[Len(added) + 1] = n
        /\ \A i \in 1..Len(added) : Append(added, n)[i] = added[i]
    BY <1>3, <2>1, AppendProperties
  <2> HIDE DEF n
  <2>3. /\ Elems(Append(added, n)) = Elems(added) \cup {n}
        /\ OnceEach(added) /\ n \notin Elems(added) => OnceEach(Append(added, n))
    BY <1>3, <2>1, AppendOnce
  <2> QED
    BY <1>1, <1>3, <2>1, <2>2, <2>3 DEF In, Out
<1>6. tail = IF Out = In THEN HeadNode ELSE added[In]
  BY <1>2 DEF TailRight, Critical, Adding, Taking
<1>7. \A i \in 1..In : added[i] # HeadNode /\ added[i] \in Nodes /\ added[i] \in Elems(added)
                       /\ (i # In => added[i] # added[In])
  <2>1. ASSUME NEW i \in 1..In PROVE added[i] # HeadNode /\ added[i] \in Nodes
    BY <1>4 DEF HeadNode, Nodes
  <2>2. ASSUME NEW i \in 1..In PROVE added[i] \in Elems(added)
    BY DEF Elems, In
  <2>3. ASSUME NEW i \in 1..In, i # In PROVE added[i] # added[In]
    BY <1>4, <2>3 DEF Linked, OnceEach, In
  <2> QED
    BY <2>1, <2>2, <2>3
<1> HIDE DEF n
<1>8. Typed'
  BY <1>1, <1>3, <1>5 DEF Typed
<1>9. \A m \in Nodes : next'[m] = IF m = tail THEN n ELSE next[m]
  BY <1>1 DEF Typed
<1>10. Linked'
  <2>1. OnceEach(added') /\ Elems(added') \subseteq 1..used'
    BY <1>1, <1>3, <1>5 DEF Linked
  <2>2. Out' <= In' /\ \A i \in 1..Out' : got'[i] = added'[i]
    <3>1. \A i \in 1..Out : i \in 1..In /\ got[i] = added[i]
      BY <1>4 DEF Linked
    <3>2. Out' <= In'
      BY <1>4, <1>5
    <3>3. ASSUME NEW i \in 1..Out' PROVE got'[i] = added'[i]
      BY <1>1, <1>5, <3>1
    <3> QED
      BY <3>2, <3>3
  <2>3. next'[HeadNode] = IF Out' = In' THEN Null ELSE added'[Out' + 1]
    <3>1. CASE Out = In
      BY <1>3, <1>4, <1>5, <1>6, <1>9, <3>1
    <3>2. CASE Out # In
      <4>1. tail # HeadNode /\ next'[HeadNode] = next[HeadNode] /\ Out + 1 \in 1..In
        BY <1>3, <1>4, <1>6, <1>7, <1>9, <3>2
      <4> QED
        BY <1>4, <1>5, <3>2, <4>1 DEF Linked
    <3> QED
      BY <3>1, <3>2
  <2>4. ASSUME NEW i \in (Out' + 1)..(In' - 1) PROVE next'[added'[i]] = added'[i + 1]
    <3>1. i \in 1..In /\ Out # In /\ tail = added[In] /\ added'[i] = added[i] /\ In \in 1..In
      BY <1>4, <1>5, <1>6
    <3>2. CASE i = In
      <4>1. next'[added[i]] = n
        BY <1>6, <1>7, <1>9, <3>1, <3>2
      <4> QED
        BY <1>5, <3>1, <3>2, <4>1
    <3>3. CASE i # In
      <4>1. next'[added[i]] = next[added[i]] /\ i \in (Out + 1)..(In - 1) /\ i + 1 \in 1..In
        BY <1>4, <1>5, <1>7, <1>9, <3>1, <3>3
      <4> QED
        BY <1>5, <3>1, <4>1 DEF Linked
    <3> QED
      BY <3>2, <3>3
  <2>5. tail # n
    <3>1. CASE Out = In
      BY <1>3, <1>6, <3>1
    <3>2. CASE Out # In
      BY <1>3, <1>4, <1>6, <1>7, <3>2
    <3> QED
      BY <3>1, <3>2
  <2>6. next'[added'[In']] = Null
    BY <1>3, <1>5, <1>9, <2>5 DEF Linked
  <2>7. ASSUME NEW m \in 1..MaxNodes, m \notin Elems(added') PROVE next'[m] = Null
    <3>1. m \notin Elems(added) /\ m # HeadNode /\ m \in Nodes
      BY <1>5, <2>7 DEF HeadNode, Nodes
    <3>2. m # tail
      <4>1. CASE Out = In
        BY <1>6, <3>1, <4>1
      <4>2. CASE Out # In
        BY <1>4, <1>6, <1>7, <3>1, <4>2
      <4> QED
        BY <4>1, <4>2
    <3> QED
      BY <1>9, <3>1, <3>2 DEF Linked
  <2> QED
    BY <2>1, <2>2, <2>3, <2>4, <2>6, <2>7 DEF Linked
<1>11. Fresh'
  <2>1. ASSUME NEW u \in Threads, At(u, {"offer"}, "lock")'
        PROVE  At(u, {"offer"}, "lock") /\ u # t /\ node[u] # n
    <3>1. At(u, {"offer"}, "lock") /\ u # t /\ At(t, {"offer"}, "lock")
      BY <1>1, <1>3, <2>1 DEF At
    <3> QED
      BY <3>1 DEF Fresh, n
  <2> QED
    BY <1>1, <1>5, <2>1 DEF Fresh
<1>12. TailRight'
  <2>1. pc'[t] = "tail" /\ node'[t] = n /\ \A u \in Threads \ {t} : pc'[u] \notin Critical
    BY <1>1, <1>2, <1>3 DEF n
  <2> QED
    BY <1>4, <1>5, <2>1 DEF TailRight, Critical, Adding, Taking
<1>13. Deleted'
  BY <1>1, <1>2, <1>3 DEF Deleted, Critical, Adding, Taking
<1>14. Sized'
  <2>1. pc'[t] = "tail" /\ \A u \in Threads \ {t} : pc'[u] \notin Critical
    BY <1>1, <1>2, <1>3
  <2>2. size = In - Out
    BY <1>2 DEF Sized, Critical, Adding, Taking
  <2>3. size' = In' - Out' - 1
    BY <1>1, <1>4, <1>5, <2>2
  <2> QED
    BY <2>1, <2>3 DEF Sized, Critical, Adding, Taking
<1> QED
  BY <1>8, <1>10, <1>11, <1>12, <1>13, <1>14

LEMMA UnlinkKeeps ==
    ASSUME NobodyPuts, ListInv, Busy, Exclusive, NEW t \in Threads, Unlink(t)
    PROVE  ListInv'
<1> DEFINE n == next[HeadNode]
<1> USE DEF ListInv
<1>1. /\ pc[t] = "lock" /\ op[t] \in Takers /\ holder[1] = NoThread /\ n # Null
      /\ node' = [node EXCEPT ![t] = n] /\ next' = [next EXCEPT ![HeadNode] = next[n]]
      /\ got' = Append(got, n) /\ pc' = [pc EXCEPT ![t] = "check"]
      /\ UNCHANGED <<tail, size, used, freed, added, shutdown, op, ret>>
  <2>1. pc[t] = "lock" /\ op[t] \in Takers /\ holder[MutexOf(op[t])] = NoThread
    BY DEF Unlink, CanLock, Takers
  <2>2. MutexOf(op[t]) = 1
    BY <2>1, MutexOne
  <2> QED
    BY <2>1, <2>2 DEF Unlink, Goto
<1>2. \A u \in Threads : pc[u] \notin Critical
  BY <1>1, OneInside
<1>3. /\ In \in Nat /\ Out \in Nat /\ Out < In /\ n = added[Out + 1]
      /\ \A i \in 1..In : added[i] \in 1..MaxNodes
      /\ Out + 1 \in 1..In
  <2>1. In \in Nat /\ Out \in Nat /\ Out <= In /\ \A i \in 1..In : added[i] \in 1..MaxNodes
    BY Lengths DEF Linked
  <2>2. Out # In /\ n = added[Out + 1]
    BY <1>1 DEF Linked
  <2> QED
    BY <2>1, <2>2
<1>4. /\ HeadNode \in Nodes /\ Null \notin Nodes /\ n \in Nodes /\ n \in 1..MaxNodes
      /\ \A i \in 1..In : added[i] # HeadNode /\ added[i] \in Nodes
      /\ pc \in [Threads -> Labels] /\ op \in [Threads -> Ops]
  BY <1>3, QueueAssumption DEF Nodes, HeadNode, Busy
<1> HIDE DEF n
<1>5. /\ got' \in Seq(1..MaxNodes) /\ Out' = Out + 1 /\ In' = In /\ got'[Out + 1] = n
      /\ \A i \in 1..Out : got'[i] = got[i]
  <2>1. /\ Append(got, n) \in Seq(1..MaxNodes) /\ Len(Append(got, n)) = Len(got) + 1
        /\ Append(got, n)[Len(got) + 1] = n
        /\ \A i \in 1..Len(got) : Append(got, n)[i] = got[i]
    BY <1>4, AppendProperties DEF Typed
  <2> QED
    BY <1>1, <2>1 DEF In, Out
<1>6. next[n] = IF Out + 1 = In THEN Null ELSE added[Out + 2]
  <2>1. CASE Out + 1 = In
    BY <1>3, <2>1 DEF Linked
  <2>2. CASE Out + 1 # In
    <3>1. Out + 1 \in (Out + 1)..(In - 1) /\ (Out + 1) + 1 = Out + 2
      BY <1>3, <2>2
    <3> QED
      BY <1>3, <2>2, <3>1 DEF Linked
  <2> QED
    BY <2>1, <2>2
<1>7. \A m \in Nodes : next'[m] = IF m = HeadNode THEN next[n] ELSE next[m]
  BY <1>1 DEF Typed
<1>8. Typed'
  BY <1>1, <1>4, <1>5 DEF Typed
<1>9. Linked'
  <2>1. OnceEach(added') /\ Elems(added') \subseteq 1..used'
    BY <1>1 DEF Linked
  <2>2. ASSUME NEW i \in 1..Out' PROVE got'[i] = added'[i]
    <3>1. CASE i = Out + 1
      BY <1>1, <1>3, <1>5, <3>1
    <3>2. CASE i # Out + 1
      <4>1. i \in 1..Out /\ got'[i] = got[i]
        BY <1>3, <1>5, <3>2
      <4> QED
        BY <1>1, <4>1 DEF Linked
    <3> QED
      BY <3>1, <3>2
  <2>3. Out' <= In'
    BY <1>3, <1>5
  <2>4. next'[HeadNode] = IF Out' = In' THEN Null ELSE added'[Out' + 1]
    <3>1. Out' + 1 = Out + 2
      BY <1>3, <1>5
    <3> QED
      BY <1>1, <1>4, <1>5, <1>6, <1>7, <3>1
  <2>5. ASSUME NEW i \in (Out' + 1)..(In' - 1) PROVE next'[added'[i]] = added'[i + 1]
    <3>1. i \in (Out + 1)..(In - 1) /\ i \in 1..In
      BY <1>3, <1>5
    <3>2. next'[added[i]] = next[added[i]]
      BY <1>4, <1>7, <3>1
    <3> QED
      BY <1>1, <3>1, <3>2 DEF Linked
  <2>6. ASSUME Out' < In' PROVE next'[added'[In']] = Null
    <3>1. In \in 1..In
      BY <1>3
    <3>2. next'[added[In]] = next[added[In]]
      BY <1>4, <1>7, <3>1
    <3>3. next[added[In]] = Null
      BY <1>3 DEF Linked
    <3>4. In' = In /\ added' = added
      BY <1>1, <1>5
    <3> QED
      BY <3>2, <3>3, <3>4
  <2>7. ASSUME NEW m \in 1..MaxNodes, m \notin Elems(added') PROVE next'[m] = Null
    <3>1. m \in Nodes /\ m # HeadNode
      BY DEF Nodes, HeadNode
    <3> QED
      BY <1>1, <1>7, <2>7, <3>1 DEF Linked
  <2> QED
    BY <2>1, <2>2, <2>3, <2>4, <2>5, <2>6, <2>7 DEF Linked
<1>10. Fresh'
  <2>1. ASSUME NEW u \in Threads, At(u, {"offer"}, "lock")'
        PROVE  At(u, {"offer"}, "lock") /\ u # t /\ node'[u] = node[u]
    BY <1>1, <1>4, <2>1 DEF At, Takers, Typed
  <2> QED
    BY <1>1, <2>1 DEF Fresh, Elems
<1>11. pc'[t] = "check" /\ node'[t] = n /\ \A u \in Threads \ {t} : pc'[u] \notin Critical
  BY <1>1, <1>2, <1>4 DEF Typed
<1>12. TailRight'
  <2>1. tail = added[In]
    BY <1>2, <1>3 DEF TailRight, Critical, Adding, Taking
  <2>2. next'[n] = next[n] /\ (next[n] = Null <=> Out + 1 = In)
    <3>1. n # HeadNode
      BY <1>4 DEF HeadNode
    <3>2. Out + 1 # In => added[Out + 2] # Null
      <4>1. Out + 1 # In => Out + 2 \in 1..In
        BY <1>3
      <4> QED
        BY <1>4, <4>1
    <3> QED
      BY <1>4, <1>6, <1>7, <3>1, <3>2
  <2> QED
    BY <1>1, <1>3, <1>5, <1>11, <2>1, <2>2 DEF TailRight, Critical, Adding, Taking
<1>13. Deleted'
  <2>1. Elems(got) \subseteq Elems(got')
    <3>1. ASSUME NEW i \in 1..Out PROVE got[i] \in Elems(got')
      <4>1. got[i] = got'[i] /\ i \in 1..Out'
        BY <1>3, <1>5
      <4> QED
        BY <4>1 DEF Elems, Out
    <3> QED
      BY <3>1 DEF Elems, Out
  <2>2. n \notin Elems(got)
    <3>1. ASSUME NEW i \in 1..Out, got[i] = n PROVE FALSE
      <4>1. added[i] = added[Out + 1] /\ i \in 1..In /\ i # Out + 1
        BY <1>3, <3>1 DEF Linked
      <4> QED
        BY <1>3, <4>1 DEF Linked, OnceEach, In
    <3> QED
      BY <3>1 DEF Elems, Out
  <2> QED
    BY <1>1, <1>11, <2>1, <2>2 DEF Deleted, Critical, Adding, Taking
<1>14. Sized'
  <2>1. size = In - Out
    BY <1>2 DEF Sized, Critical, Adding, Taking
  <2>2. size' = In' - Out' + 1
    BY <1>1, <1>3, <1>5, <2>1
  <2> QED
    BY <1>11, <2>2 DEF Sized, Critical, Adding, Taking
<1> QED
  BY <1>8, <1>9, <1>10, <1>12, <1>13, <1>14

\* The steps of the thread that is inside: only tail, size and freed change.
LEMMA InsideKeeps ==
    ASSUME NobodyPuts, ListInv, Busy, Exclusive, NEW t \in Threads,
           SetTail(t) \/ Count(t) \/ Check(t) \/ Retail(t) \/ Free(t)
    PROVE  ListInv'
<1> USE DEF ListInv
<1>1. pc[t] \in {"tail", "count", "check", "retail", "free"}
  BY DEF SetTail, Count, Check, Retail, Free
<1>2. /\ \A u \in Threads \ {t} : pc[u] \notin Critical
      /\ pc \in [Threads -> Labels] /\ op \in [Threads -> Ops]
  BY <1>1, OneInside DEF Critical, Adding, Taking, Busy
<1>3. UNCHANGED <<next, used, added, got, op, node>>
  BY DEF SetTail, Count, Check, Retail, Free, local, list
<1>4. PICK l \in {"count", "notify", "retail", "free", "idle"} : pc' = [pc EXCEPT ![t] = l]
  BY DEF SetTail, Count, Check, Retail, Free, Goto
<1>5. pc'[t] = l /\ \A u \in Threads \ {t} : pc'[u] = pc[u] /\ pc'[u] \notin Critical
  BY <1>2, <1>4
<1>6. /\ In' = In /\ Out' = Out /\ Elems(added)' = Elems(added) /\ Elems(got)' = Elems(got)
      /\ OnceEach(added)' <=> OnceEach(added)
  BY <1>3 DEF In, Out, Elems, OnceEach
<1>7. In \in Nat /\ Out \in Nat /\ Out <= In /\ \A i \in 1..In : added[i] \in 1..MaxNodes
  BY Lengths DEF Linked
<1>8. Linked'
  BY <1>3, <1>6 DEF Linked
<1>9. Fresh'
  BY <1>3, <1>5, <1>4, <1>6 DEF Fresh, At
<1>10. CASE SetTail(t)
  <2>1. pc[t] = "tail" /\ tail' = node[t] /\ l = "count" /\ UNCHANGED <<size, freed, ret>>
    BY <1>2, <1>4, <1>10 DEF SetTail, Goto, local
  <2>2. node[t] = added[In] /\ Out < In
    BY <2>1 DEF TailRight, Adding
  <2>3. Typed'
    <3>1. tail' \in Nodes
      BY <1>7, <2>1, <2>2 DEF Nodes
    <3> QED
      BY <1>3, <2>1, <3>1 DEF Typed
  <2>4. TailRight'
    BY <1>3, <1>5, <1>6, <1>7, <2>1, <2>2 DEF TailRight, Critical, Adding, Taking
  <2>5. Deleted'
    BY <1>3, <1>5, <1>6, <2>1 DEF Deleted, Critical, Adding, Taking
  <2>6. Sized'
    BY <1>5, <1>6, <2>1 DEF Sized, Critical, Adding, Taking
  <2> QED
    BY <1>8, <1>9, <2>3, <2>4, <2>5, <2>6
<1>11. CASE Count(t)
  <2>1. pc[t] = "count" /\ size' = size + 1 /\ l = "notify" /\ UNCHANGED <<tail, freed, ret>>
    BY <1>2, <1>4, <1>11 DEF Count, Goto, local
  <2>2. Typed'
    BY <1>3, <2>1 DEF Typed
  <2>3. TailRight'
    <3>1. Out < In /\ tail = added[In]
      <4>1. Out < In
        BY <2>1 DEF TailRight, Adding
      <4>2. \A u \in Threads : pc[u] \notin {"tail", "check", "retail"}
        BY <1>2, <2>1 DEF Critical, Adding, Taking
      <4> QED
        BY <1>7, <4>1, <4>2 DEF TailRight
    <3> QED
      BY <1>3, <1>5, <1>6, <1>7, <2>1, <3>1 DEF TailRight, Critical, Adding, Taking
  <2>4. Deleted'
    BY <1>3, <1>5, <1>6, <2>1 DEF Deleted, Critical, Adding, Taking
  <2>5. Sized'
    <3>1. size = In - Out - 1
      BY <2>1 DEF Sized, Adding
    <3>2. size' = In' - Out'
      BY <1>6, <1>7, <2>1, <3>1
    <3> QED
      BY <1>5, <2>1, <3>2 DEF Sized, Critical, Adding, Taking
  <2> QED
    BY <1>8, <1>9, <2>2, <2>3, <2>4, <2>5
<1>12. CASE Check(t)
  <2>1. /\ pc[t] = "check" /\ l = IF next[node[t]] = Null THEN "retail" ELSE "free"
        /\ UNCHANGED <<tail, size, freed, ret>>
    BY <1>2, <1>4, <1>12 DEF Check, Goto, local, list
  <2>2. /\ Out > 0 /\ node[t] = added[Out] /\ tail = added[In] /\ (next[node[t]] = Null <=> Out = In)
    BY <2>1 DEF TailRight, Taking
  <2>3. Typed'
    BY <1>3, <2>1 DEF Typed
  <2>4. TailRight'
    BY <1>3, <1>5, <1>6, <2>1, <2>2 DEF TailRight, Critical, Adding, Taking
  <2>5. Deleted'
    BY <1>3, <1>5, <1>6, <2>1 DEF Deleted, Critical, Adding, Taking
  <2>6. Sized'
    BY <1>5, <1>6, <2>1 DEF Sized, Critical, Adding, Taking
  <2> QED
    BY <1>8, <1>9, <2>3, <2>4, <2>5, <2>6
<1>13. CASE Retail(t)
  <2>1. /\ pc[t] = "retail" /\ tail' = (IF tail = node[t] THEN HeadNode ELSE tail) /\ l = "free"
        /\ UNCHANGED <<size, freed, ret>>
    BY <1>2, <1>4, <1>13 DEF Retail, Goto, local
  <2>2. Out > 0 /\ node[t] = added[Out] /\ tail = added[In] /\ Out = In
    BY <2>1 DEF TailRight, Taking
  <2>3. tail' = HeadNode
    BY <2>1, <2>2
  <2>4. Typed'
    BY <1>3, <2>1, <2>3, QueueAssumption DEF Typed, Nodes, HeadNode
  <2>5. TailRight'
    BY <1>3, <1>5, <1>6, <2>1, <2>2, <2>3 DEF TailRight, Critical, Adding, Taking
  <2>6. Deleted'
    BY <1>3, <1>5, <1>6, <2>1 DEF Deleted, Critical, Adding, Taking
  <2>7. Sized'
    BY <1>5, <1>6, <2>1 DEF Sized, Critical, Adding, Taking
  <2> QED
    BY <1>8, <1>9, <2>4, <2>5, <2>6, <2>7
<1>14. CASE Free(t)
  <2>1. /\ pc[t] = "free" /\ l \in {"notify", "idle"} /\ size' = size - 1 /\ UNCHANGED tail
        /\ freed' = freed \cup {node[t]} /\ ret' = [ret EXCEPT ![t] = node[t]]
    BY <1>2, <1>4, <1>14 DEF Free, Goto
  <2>2. Out > 0 /\ node[t] = added[Out]
    BY <2>1 DEF TailRight, Taking
  <2>3. tail = IF Out = In THEN HeadNode ELSE added[In]
    BY <1>2, <2>1 DEF TailRight, Critical, Adding, Taking
  <2>4. Typed'
    BY <1>3, <2>1 DEF Typed
  <2>5. TailRight'
    BY <1>3, <1>5, <1>6, <2>1, <2>2, <2>3 DEF TailRight, Critical, Adding, Taking
  <2>6. Deleted'
    <3>1. node[t] \in Elems(got)
      <4>1. Out \in 1..Out /\ got[Out] = added[Out]
        BY <1>7, <2>2 DEF Linked
      <4> QED
        BY <2>2, <4>1 DEF Elems, Out
    <3> QED
      BY <1>3, <1>5, <1>6, <2>1, <3>1 DEF Deleted, Critical, Adding, Taking
  <2>7. Sized'
    <3>1. size = In - Out + 1
      BY <2>1 DEF Sized, Taking
    <3>2. size' = In' - Out'
      BY <1>6, <1>7, <2>1, <3>1
    <3> QED
      BY <1>5, <2>1, <3>2 DEF Sized, Critical, Adding, Taking
  <2> QED
    BY <1>8, <1>9, <2>4, <2>5, <2>6, <2>7
<1> QED
  BY <1>10, <1>11, <1>12, <1>13, <1>14

LEMMA ListStep ==
    ASSUME NobodyPuts, ListInv, Busy, Exclusive, [Next]_vars
    PROVE  ListInv'
<1>1. CASE UNCHANGED vars
  <2>1. UNCHANGED <<next, tail, size, used, freed, added, got, op, pc, node, ret>>
    BY <1>1 DEF vars, list, local
  <2>2. Fresh'
    BY <2>1 DEF ListInv, Fresh, At, Elems
  <2> QED
    BY <2>1, <2>2, Quiet DEF ListInv, Typed, Nodes
<1>2. CASE Next
  <2>1. PICK t \in Threads : Step(t) \/ SpuriousWake(t) \/ \E o \in Ops : Call(t, o)
    BY <1>2 DEF Next
  <2> QED
    BY <2>1, OffersLink, CallKeeps, WaitingKeeps, LinkKeeps, UnlinkKeeps, InsideKeeps DEF Step
<1> QED
  BY <1>1, <1>2

LEMMA ListAlways ==
    ASSUME NobodyPuts
    PROVE  Spec => [](ListInv /\ Busy /\ Exclusive)
<1>1. ListInv /\ Busy /\ Exclusive /\ WokenUp /\ [Next]_vars
          => (ListInv /\ Busy /\ Exclusive /\ WokenUp)'
  BY ListStep, BusyStep
<1> QED
  BY <1>1, ListInit, BusyInit, PTL DEF Spec
----------------------------------------------------------------------------
\* A function that walks exists, and has in MaxNodes steps seen all of a list r, if r
\* is what hangs on the head: so that is what Chain is.
LEMMA ChainIs ==
    ASSUME NEW r \in Seq(1..MaxNodes), Len(r) <= MaxNodes,
           next[HeadNode] = IF r = <<>> THEN Null ELSE r[1],
           \A i \in 1..(Len(r) - 1) : next[r[i]] = r[i + 1],
           r # <<>> => next[r[Len(r)]] = Null
    PROVE  Chain = r
<1> DEFINE Cut(k) == IF k <= Len(r) THEN SubSeq(r, 1, k) ELSE r
           f == [k \in Nodes |-> Cut(k)]
<1>0. /\ Len(r) \in Nat /\ MaxNodes \in Nat /\ Null \notin 1..MaxNodes
      /\ \A i \in 1..Len(r) : r[i] \in 1..MaxNodes
      /\ r = <<>> <=> Len(r) = 0
  BY LenProperties, ElementOfSeq, EmptySeq, QueueAssumption DEF Nodes
<1>1. ASSUME NEW k \in 0..Len(r)
      PROVE  /\ Cut(k) \in Seq(1..MaxNodes) /\ Len(Cut(k)) = k /\ (Cut(k) = <<>> <=> k = 0)
             /\ \A i \in 1..k : Cut(k)[i] = r[i]
  <2>1. /\ SubSeq(r, 1, k) \in Seq(1..MaxNodes) /\ Len(SubSeq(r, 1, k)) = k
        /\ \A i \in 1..k : SubSeq(r, 1, k)[i] = r[i]
    BY <1>0, SubSeqProperties
  <2>2. Cut(k) = SubSeq(r, 1, k)
    BY <1>0
  <2>3. Cut(k) = <<>> <=> Len(Cut(k)) = 0
    BY <2>1, <2>2, EmptySeq
  <2> HIDE DEF Cut
  <2> QED
    BY <2>1, <2>2, <2>3
<1>2. Cut(0) = <<>>
  BY <1>0, <1>1, EmptySeq
<1>3. ASSUME NEW k \in Nat \ {0} PROVE Extended(Cut(k - 1)) = Cut(k)
  <2>1. CASE k <= Len(r)
    <3>1. k - 1 \in 0..Len(r) /\ k \in 0..Len(r) /\ k \in 1..Len(r)
      BY <1>0, <2>1
    <3>2. next[IF Cut(k - 1) = <<>> THEN HeadNode ELSE Cut(k - 1)[Len(Cut(k - 1))]] = r[k]
      <4>1. CASE k = 1
        BY <1>0, <1>1, <2>1, <3>1, <4>1
      <4>2. CASE k # 1
        <5> HIDE DEF Cut
        <5>2. k - 1 \in 1..(Len(r) - 1) /\ (k - 1) + 1 = k /\ k - 1 # 0 /\ k - 1 \in 1..(k - 1)
          BY <1>0, <2>1, <4>2
        <5>1. Cut(k - 1) # <<>> /\ Cut(k - 1)[Len(Cut(k - 1))] = r[k - 1]
          BY <1>1, <3>1, <5>2
        <5> QED
          BY <5>1, <5>2
      <4> QED
        BY <4>1, <4>2
    <3> HIDE DEF Cut
    <3>3. r[k] # Null /\ r[k] \in 1..MaxNodes
      BY <1>0, <3>1
    <3>4. Extended(Cut(k - 1)) = Append(Cut(k - 1), r[k])
      BY <3>2, <3>3 DEF Extended
    <3>5. /\ Append(Cut(k - 1), r[k]) \in Seq(1..MaxNodes) /\ Len(Append(Cut(k - 1), r[k])) = k
          /\ \A i \in 1..k : Append(Cut(k - 1), r[k])[i] = r[i]
      <4>1. Cut(k - 1) \in Seq(1..MaxNodes) /\ Len(Cut(k - 1)) = k - 1
            /\ \A i \in 1..(k - 1) : Cut(k - 1)[i] = r[i]
        BY <1>1, <3>1
      <4>2. /\ Append(Cut(k - 1), r[k]) \in Seq(1..MaxNodes)
            /\ Len(Append(Cut(k - 1), r[k])) = (k - 1) + 1
            /\ \A i \in 1..(k - 1) : Append(Cut(k - 1), r[k])[i] = Cut(k - 1)[i]
            /\ Append(Cut(k - 1), r[k])[(k - 1) + 1] = r[k]
        BY <3>3, <4>1, AppendProperties
      <4>3. (k - 1) + 1 = k /\ \A i \in 1..k : i = k \/ i \in 1..(k - 1)
        BY <3>1
      <4> QED
        BY <4>1, <4>2, <4>3
    <3>6. /\ Cut(k) \in Seq(1..MaxNodes) /\ Len(Cut(k)) = k
          /\ \A i \in 1..k : Cut(k)[i] = r[i]
      BY <1>1, <3>1
    <3>7. /\ Len(Append(Cut(k - 1), r[k])) = Len(Cut(k))
          /\ \A i \in 1..Len(Append(Cut(k - 1), r[k])) : Append(Cut(k - 1), r[k])[i] = Cut(k)[i]
      BY <3>5, <3>6
    <3>8. Append(Cut(k - 1), r[k]) = Cut(k)
      BY <3>5, <3>6, <3>7, SeqEqual
    <3> QED
      BY <3>4, <3>8
  <2>2. CASE ~(k <= Len(r))
    <3>1. Cut(k) = r /\ Cut(k - 1) = r
      <4>1. CASE k - 1 <= Len(r)
        <5>1. k - 1 = Len(r) /\ Len(r) \in 0..Len(r)
          BY <1>0, <2>2, <4>1
        <5>2. SubSeq(r, 1, Len(r)) = r
          BY SubSeqFull
        <5> QED
          BY <2>2, <5>1, <5>2
      <4>2. CASE ~(k - 1 <= Len(r))
        BY <2>2, <4>2
      <4> QED
        BY <4>1, <4>2
    <3> HIDE DEF Cut
    <3>2. next[IF r = <<>> THEN HeadNode ELSE r[Len(r)]] = Null
      OBVIOUS
    <3> QED
      BY <3>1, <3>2 DEF Extended
  <2> QED
    BY <2>1, <2>2
<1> HIDE DEF Cut
<1>4. Walks(f)
  <2>1. ASSUME NEW k \in Nodes PROVE f[k] = IF k = 0 THEN <<>> ELSE Extended(f[k - 1])
    <3>1. CASE k = 0
      BY <1>2, <3>1
    <3>2. CASE k # 0
      <4>1. k \in Nat \ {0} /\ k - 1 \in Nodes
        BY <1>0, <3>2 DEF Nodes
      <4> QED
        BY <1>3, <3>2, <4>1
    <3> QED
      BY <3>1, <3>2
  <2> QED
    BY <2>1 DEF Walks
<1>5. ASSUME NEW w, Walks(w) PROVE \A k \in Nodes : w[k] = Cut(k)
  <2> DEFINE Same == {k \in Nat : k \in Nodes => w[k] = Cut(k)}
  <2>1. 0 \in Same
    BY <1>2, <1>5 DEF Walks
  <2>2. ASSUME NEW k \in Same PROVE k + 1 \in Same
    <3>1. SUFFICES ASSUME k + 1 \in Nodes PROVE w[k + 1] = Cut(k + 1)
      OBVIOUS
    <3>2. k \in Nodes /\ w[k] = Cut(k) /\ k + 1 \in Nat \ {0} /\ (k + 1) - 1 = k
      BY <1>0, <3>1 DEF Nodes
    <3>3. w[k + 1] = Extended(w[(k + 1) - 1])
      BY <1>5, <3>1, <3>2 DEF Walks
    <3> QED
      BY <1>3, <3>2, <3>3
  <2>3. Same = Nat
    <3> HIDE DEF Same
    <3>1. Same \in SUBSET Nat
      BY DEF Same
    <3> QED
      BY <2>1, <2>2, <3>1, InductiveSet
  <2> QED
    BY <2>3 DEF Nodes
<1>6. Chain = (CHOOSE w : Walks(w))[MaxNodes]
  BY Zenon DEF Chain, Walks, Extended
<1>7. Walks(CHOOSE w : Walks(w))
  BY <1>4
<1>8. Chain = Cut(MaxNodes)
  BY <1>0, <1>5, <1>6, <1>7 DEF Nodes
<1>9. CASE MaxNodes = Len(r)
  BY <1>8, <1>9, SubSeqFull DEF Cut
<1>10. CASE MaxNodes # Len(r)
  BY <1>0, <1>8, <1>10 DEF Cut
<1> QED
  BY <1>9, <1>10

\* What can be reached from the head is what was added and not taken.
LEMMA ChainIsRest ==
    ASSUME ListInv
    PROVE  /\ Chain = SubSeq(added, Out + 1, In) /\ Chain \in Seq(1..MaxNodes)
           /\ Len(Chain) = In - Out
           /\ \A i \in 1..(In - Out) : Chain[i] = added[Out + i]
<1> DEFINE r == SubSeq(added, Out + 1, In)
<1>1. /\ In \in Nat /\ Out \in Nat /\ Out <= In /\ MaxNodes \in Nat
      /\ \A i \in 1..In : added[i] \in 1..MaxNodes
  BY Lengths, QueueAssumption DEF ListInv, Linked
<1>2. /\ r \in Seq(1..MaxNodes) /\ Len(r) = In - Out
      /\ \A i \in 1..(In - Out) : r[i] = added[Out + i]
  <2>1. \A i \in (Out + 1)..In : added[i] \in 1..MaxNodes
    BY <1>1
  <2>2. /\ r \in Seq(1..MaxNodes)
        /\ Len(r) = IF Out + 1 <= In THEN In - (Out + 1) + 1 ELSE 0
        /\ \A i \in 1..(In - (Out + 1) + 1) : r[i] = added[(Out + 1) + i - 1]
    BY <1>1, <2>1, SubSeqProperties
  <2> HIDE DEF r
  <2>3. Len(r) = In - Out
    BY <1>1, <2>2
  <2>4. ASSUME NEW i \in 1..(In - Out) PROVE r[i] = added[Out + i]
    <3>1. i \in 1..(In - (Out + 1) + 1) /\ (Out + 1) + i - 1 = Out + i
      BY <1>1
    <3> QED
      BY <2>2, <3>1
  <2> QED
    BY <2>2, <2>3, <2>4
<1> HIDE DEF r
<1>3. In <= MaxNodes
  BY <1>1, OnceEachFits DEF ListInv, Typed, Linked, In
<1>4. r = <<>> <=> In = Out
  BY <1>1, <1>2, EmptySeq
<1>5. next[HeadNode] = IF r = <<>> THEN Null ELSE r[1]
  <2>1. In # Out => 1 \in 1..(In - Out)
    BY <1>1
  <2> QED
    BY <1>2, <1>4, <2>1 DEF ListInv, Linked
<1>6. ASSUME NEW i \in 1..(Len(r) - 1) PROVE next[r[i]] = r[i + 1]
  <2>1. /\ i \in 1..(In - Out) /\ i + 1 \in 1..(In - Out) /\ Out + i \in (Out + 1)..(In - 1)
        /\ (Out + i) + 1 = Out + (i + 1)
    BY <1>1, <1>2
  <2>2. next[added[Out + i]] = added[(Out + i) + 1]
    BY <2>1 DEF ListInv, Linked
  <2> QED
    BY <1>2, <2>1, <2>2
<1>7. ASSUME r # <<>> PROVE next[r[Len(r)]] = Null
  <2>1. Out < In /\ Len(r) \in 1..(In - Out) /\ Out + Len(r) = In
    BY <1>1, <1>2, <1>4, <1>7
  <2> QED
    BY <1>2, <2>1 DEF ListInv, Linked
<1>8. Chain = r
  <2>1. Len(r) <= MaxNodes
    BY <1>1, <1>2, <1>3
  <2> QED
    BY <1>2, <1>5, <1>6, <1>7, <2>1, ChainIs
<1> QED
  BY <1>2, <1>8 DEF r
----------------------------------------------------------------------------
\* What the inductive invariant says of the properties.
LEMMA NothingLost ==
    ASSUME ListInv
    PROVE  FifoNoLoss
<1>1. /\ Chain \in Seq(1..MaxNodes) /\ Len(Chain) = In - Out
      /\ \A i \in 1..(In - Out) : Chain[i] = added[Out + i]
  BY ChainIsRest
<1>2. /\ In \in Nat /\ Out \in Nat /\ Out <= In /\ \A i \in 1..Out : got[i] = added[i]
      /\ added \in Seq(1..MaxNodes) /\ got \in Seq(1..MaxNodes)
  BY Lengths DEF ListInv, Typed, Linked
<1> DEFINE s == got \o Chain
<1>3. /\ s \in Seq(1..MaxNodes) /\ Len(s) = Out + Len(Chain)
      /\ \A i \in 1..(Out + Len(Chain)) : s[i] = IF i <= Out THEN got[i] ELSE Chain[i - Out]
  BY <1>1, <1>2, ConcatProperties DEF Out
<1> HIDE DEF s
<1>4. Len(s) = In
  BY <1>1, <1>2, <1>3
<1>5. ASSUME NEW i \in 1..In PROVE s[i] = added[i]
  <2>1. CASE i <= Out
    <3>1. i \in 1..Out /\ i \in 1..(Out + Len(Chain))
      BY <1>1, <1>2, <2>1
    <3> QED
      BY <1>2, <1>3, <2>1, <3>1
  <2>2. CASE ~(i <= Out)
    <3>1. i - Out \in 1..(In - Out) /\ Out + (i - Out) = i /\ i \in 1..(Out + Len(Chain))
      BY <1>1, <1>2, <2>2
    <3> QED
      BY <1>1, <1>3, <2>2, <3>1
  <2> QED
    BY <2>1, <2>2
<1>6. s = added
  <2>1. Len(s) = Len(added)
    BY <1>4 DEF In
  <2>2. \A i \in 1..Len(s) : s[i] = added[i]
    BY <1>4, <1>5
  <2> QED
    BY <1>2, <1>3, <2>1, <2>2, SeqEqual
<1> QED
  BY <1>6 DEF FifoNoLoss, s

LEMMA InsideCount ==
    ASSUME NobodyPuts, Busy, Exclusive, NEW labels \in SUBSET Critical
    PROVE  /\ (\A t \in Threads : pc[t] \notin labels) => Inside(labels) = 0
           /\ (\E t \in Threads : pc[t] \in labels) => Inside(labels) = 1
<1>1. ASSUME \A t \in Threads : pc[t] \notin labels PROVE Inside(labels) = 0
  <2>1. {t \in Threads : pc[t] \in labels} = {}
    BY <1>1
  <2> QED
    BY <2>1, FS_EmptySet DEF Inside
<1>2. ASSUME NEW t \in Threads, pc[t] \in labels PROVE Inside(labels) = 1
  <2>1. {u \in Threads : pc[u] \in labels} = {t}
    BY <1>2, OneInside
  <2> QED
    BY <2>1, FS_Singleton DEF Inside
<1> QED
  BY <1>1, <1>2

LEMMA SizeRight ==
    ASSUME NobodyPuts, Busy, Exclusive, ListInv
    PROVE  ListSound
<1>1. /\ Len(Chain) = In - Out /\ Chain \in Seq(1..MaxNodes)
      /\ \A i \in 1..(In - Out) : Chain[i] = added[Out + i]
      /\ In \in Nat /\ Out \in Nat /\ Out <= In /\ size \in Int
  BY ChainIsRest, Lengths DEF ListInv, Typed, Linked
<1>2. size + Inside(Adding) = Len(Chain) + Inside(Taking)
  <2>1. /\ (\A t \in Threads : pc[t] \notin Adding) => Inside(Adding) = 0
        /\ (\E t \in Threads : pc[t] \in Adding) => Inside(Adding) = 1
        /\ (\A t \in Threads : pc[t] \notin Taking) => Inside(Taking) = 0
        /\ (\E t \in Threads : pc[t] \in Taking) => Inside(Taking) = 1
    <3>1. Adding \in SUBSET Critical /\ Taking \in SUBSET Critical
      BY DEF Critical
    <3> QED
      BY <3>1, InsideCount
  <2>2. CASE \A t \in Threads : pc[t] \notin Adding \cup Taking
    <3>1. size = In - Out
      BY <2>2 DEF ListInv, Sized
    <3> QED
      BY <1>1, <2>1, <2>2, <3>1
  <2>3. ASSUME NEW t \in Threads, pc[t] \in Adding
        PROVE  size + Inside(Adding) = Len(Chain) + Inside(Taking)
    <3>1. size = In - Out - 1 /\ pc[t] \notin Taking
      BY <2>3 DEF ListInv, Sized, Adding, Taking
    <3>2. \A u \in Threads : pc[u] \notin Taking
      BY <2>3, <3>1, OneInside DEF Critical
    <3> QED
      BY <1>1, <2>1, <2>3, <3>1, <3>2
  <2>4. ASSUME NEW t \in Threads, pc[t] \in Taking
        PROVE  size + Inside(Adding) = Len(Chain) + Inside(Taking)
    <3>1. size = In - Out + 1 /\ pc[t] \notin Adding
      BY <2>4 DEF ListInv, Sized, Adding, Taking
    <3>2. \A u \in Threads : pc[u] \notin Adding
      BY <2>4, <3>1, OneInside DEF Critical
    <3> QED
      BY <1>1, <2>1, <2>4, <3>1, <3>2
  <2> QED
    BY <2>2, <2>3, <2>4
<1>3. ASSUME \A m \in {1, 2} : holder[m] = NoThread
      PROVE  tail = IF Chain = <<>> THEN HeadNode ELSE Chain[Len(Chain)]
  <2>1. \A t \in Threads : pc[t] \notin {"tail", "check", "retail"}
    BY <1>3, OneInside DEF Critical, Adding, Taking
  <2>2. tail = IF Out = In THEN HeadNode ELSE added[In]
    BY <2>1 DEF ListInv, TailRight
  <2>3. Chain = <<>> <=> Out = In
    BY <1>1, EmptySeq
  <2>4. Out # In => Len(Chain) \in 1..(In - Out) /\ Out + Len(Chain) = In
    BY <1>1
  <2> QED
    BY <1>1, <2>2, <2>3, <2>4
<1> QED
  BY <1>2, <1>3 DEF ListSound, Adding, Taking

LEMMA TypesRight ==
    ASSUME Busy, ListInv
    PROVE  TypeOK
<1>1. In \in Nat /\ Out \in Nat /\ Out <= In
  BY Lengths DEF ListInv, Linked
<1>2. size \in Nat
  <2>1. CASE \A t \in Threads : pc[t] \notin Adding \cup Taking
    BY <1>1, <2>1 DEF ListInv, Sized
  <2>2. ASSUME NEW t \in Threads, pc[t] \in Adding PROVE size \in Nat
    <3>1. size = In - Out - 1 /\ Out < In
      BY <2>2 DEF ListInv, Sized, TailRight
    <3> QED
      BY <1>1, <3>1
  <2>3. ASSUME NEW t \in Threads, pc[t] \in Taking PROVE size \in Nat
    <3>1. size = In - Out + 1
      BY <2>3 DEF ListInv, Sized
    <3> QED
      BY <1>1, <3>1
  <2> QED
    BY <2>1, <2>2, <2>3
<1>3. freed \subseteq 1..used
  <2>1. Elems(got) \subseteq Elems(added)
    BY <1>1 DEF ListInv, Linked, Elems, In, Out
  <2> QED
    BY <2>1 DEF ListInv, Linked, Deleted
<1>4. added \in Seq(Nodes) /\ got \in Seq(Nodes)
  <2>1. 1..MaxNodes \subseteq Nodes
    BY QueueAssumption DEF Nodes
  <2> QED
    BY <2>1, SeqOfMore DEF ListInv, Typed
<1> QED
  BY <1>2, <1>3, <1>4 DEF TypeOK, ListInv, Typed, Busy, Labels

\* The types, with a size that is never negative and only nodes deleted that exist.
THEOREM TypeCorrect ==
    ASSUME NobodyPuts
    PROVE  Spec => []TypeOK
BY ListAlways, TypesRight, PTL

\* First in, first out, and no item is lost: however many threads offer and read, what
\* readers took and what can be reached from the head is what was added, in order.
THEOREM QueueIsFifo ==
    ASSUME NobodyPuts
    PROVE  Spec => []FifoNoLoss
BY ListAlways, NothingLost, PTL

\* The size that offer() tests is the length of the list but for the one item of the
\* thread inside, and with nobody inside the tail is the last node.
THEOREM SizeAndTailRight ==
    ASSUME NobodyPuts
    PROVE  Spec => []ListSound
BY ListAlways, SizeRight, PTL
----------------------------------------------------------------------------
\* Who will see to it that a reader looks at the list: the adders that have yet to
\* notify and the readers on their way to the mutex.
Wakers == {t \in Threads :
               \/ op[t] \in {"offer", "put"} /\ pc[t] \in {"tail", "count", "notify"}
               \/ At(t, {"get"}, "lock")}

\* While a reader sleeps there are enough of them, and one that is about to sleep
\* has found the list empty.
Covered ==
    ~shutdown =>
        /\ Blocked("get") # {} => In - Out <= Cardinality(Wakers)
        /\ \A t \in Threads : At(t, {"get"}, "block") => In = Out

FiniteThreads == IsFiniteSet(Threads)

\* A step that changes neither the list nor adds a sleeper, and takes no waker away.
LEMMA CoveredStays ==
    ASSUME FiniteThreads, Covered, Typed, UNCHANGED <<added, got>>, shutdown => shutdown',
           Wakers \subseteq Wakers', Blocked("get")' \subseteq Blocked("get"),
           \A u \in Threads : At(u, {"get"}, "block")' => At(u, {"get"}, "block")
    PROVE  Covered'
<1>1. In \in Nat /\ Out \in Nat /\ In' = In /\ Out' = Out
  BY Lengths DEF In, Out
<1> DEFINE A == Wakers
           B == Wakers'
<1>2. A \in SUBSET Threads /\ B \in SUBSET Threads /\ A \subseteq B
  BY DEF Wakers
<1> HIDE DEF A, B
<1>3. Cardinality(A) \in Nat /\ Cardinality(B) \in Nat /\ Cardinality(A) <= Cardinality(B)
  BY <1>2, OneMoreOrLess DEF FiniteThreads
<1>4. Cardinality(Wakers) \in Nat /\ Cardinality(Wakers') \in Nat
      /\ Cardinality(Wakers) <= Cardinality(Wakers')
  BY <1>3 DEF A, B
<1>5. ASSUME ~shutdown', Blocked("get")' # {} PROVE In' - Out' <= Cardinality(Wakers')
  <2>1. In - Out <= Cardinality(Wakers)
    BY <1>5 DEF Covered
  <2> QED
    BY <1>1, <1>4, <2>1
<1>6. ASSUME ~shutdown', NEW u \in Threads, At(u, {"get"}, "block")' PROVE In' = Out'
  BY <1>1, <1>6 DEF Covered
<1> QED
  BY <1>5, <1>6 DEF Covered

LEMMA CoveredStep ==
    ASSUME NobodyPuts, FiniteThreads, Busy, Exclusive, ListInv, Covered, [Next]_vars
    PROVE  Covered'
<1>0. /\ pc \in [Threads -> Labels] /\ op \in [Threads -> Ops] /\ Typed
      /\ In \in Nat /\ Out \in Nat /\ Out <= In
      /\ Wakers \in SUBSET Threads /\ Wakers' \in SUBSET Threads
  BY Lengths DEF Busy, ListInv, Linked, Wakers
<1>a. /\ Cardinality(Wakers) \in Nat /\ Cardinality(Wakers') \in Nat
      /\ \A t : t \notin Wakers /\ Wakers \cup {t} \subseteq Wakers'
               => Cardinality(Wakers) + 1 <= Cardinality(Wakers')
      /\ \A t : Wakers \subseteq Wakers' \cup {t} => Cardinality(Wakers) <= Cardinality(Wakers') + 1
      /\ \A t, u : t \in Wakers /\ u \notin Wakers /\ (Wakers \ {t}) \cup {u} \subseteq Wakers'
                  => Cardinality(Wakers) <= Cardinality(Wakers')
  <2> DEFINE A == Wakers
             B == Wakers'
  <2>1. A \in SUBSET Threads /\ B \in SUBSET Threads
    BY <1>0
  <2> HIDE DEF A, B
  <2>2. /\ Cardinality(A) \in Nat /\ Cardinality(B) \in Nat
        /\ \A t : t \notin A /\ A \cup {t} \subseteq B => Cardinality(A) + 1 <= Cardinality(B)
        /\ \A t : A \subseteq B \cup {t} => Cardinality(A) <= Cardinality(B) + 1
        /\ \A t, u : t \in A /\ u \notin A /\ (A \ {t}) \cup {u} \subseteq B
                    => Cardinality(A) <= Cardinality(B)
    BY <2>1, OneMoreOrLess DEF FiniteThreads
  <2> QED
    BY <2>2 DEF A, B
<1>1. ASSUME UNCHANGED vars PROVE Covered'
  BY <1>1 DEF vars, list, local, Covered, Blocked, At, Wakers, In, Out
<1> SUFFICES ASSUME NEW t \in Threads, Step(t) \/ SpuriousWake(t) \/ \E o \in Ops : Call(t, o)
             PROVE  Covered'
  BY <1>1 DEF Next
<1>2. CASE \E o \in Ops : Call(t, o)
  <2>1. PICK o \in Ops : Call(t, o)
    BY <1>2
  <2>2. /\ pc[t] = "idle" /\ op' = [op EXCEPT ![t] = o] /\ pc' = [pc EXCEPT ![t] = "lock"]
        /\ UNCHANGED <<added, got, shutdown>>
    BY <2>1 DEF Call, Goto
  <2>3. /\ Wakers \subseteq Wakers' /\ Blocked("get")' \subseteq Blocked("get")
        /\ \A u \in Threads : At(u, {"get"}, "block")' => At(u, {"get"}, "block")
    BY <1>0, <2>2 DEF Wakers, Blocked, At
  <2> QED
    BY <1>0, <2>2, <2>3, CoveredStays
<1>3. CASE \/ SpuriousWake(t) \/ SetTail(t) \/ Count(t) \/ Check(t) \/ Retail(t) \/ Free(t)
           \/ SetShutdown(t)
  <2>1. PICK l \in {"lock", "count", "notify", "retail", "free", "idle"} :
            /\ pc' = [pc EXCEPT ![t] = l]
            /\ UNCHANGED <<added, got, op>> /\ (shutdown => shutdown')
            /\ \/ pc[t] = "wait" /\ l = "lock"
               \/ pc[t] \in Adding /\ l \in {"count", "notify"}
               \/ pc[t] \in Taking
               \/ pc[t] = "lock" /\ op[t] = "cleanup"
    BY <1>3 DEF SpuriousWake, SetTail, Count, Check, Retail, Free, SetShutdown, CanLock, Goto,
                list, local, Adding, Taking
  <2>2. pc[t] \in Taking => op[t] \notin {"offer", "put"}
    BY DEF Busy, Takers
  <2>3. /\ Wakers \subseteq Wakers' /\ Blocked("get")' \subseteq Blocked("get")
        /\ \A u \in Threads : At(u, {"get"}, "block")' => At(u, {"get"}, "block")
    BY <1>0, <2>1, <2>2 DEF Wakers, Blocked, At, Adding, Taking
  <2> QED
    BY <1>0, <2>1, <2>3, CoveredStays
<1>4. CASE GiveUp(t)
  <2>1. /\ pc[t] = "lock" /\ pc' = [pc EXCEPT ![t] = "idle"]
        /\ UNCHANGED <<added, got, op, shutdown>> /\ (shutdown \/ op[t] = "tryGet")
    BY <1>4 DEF GiveUp, CanLock, Goto, list
  <2>2. CASE shutdown
    BY <2>1, <2>2 DEF Covered
  <2>3. CASE op[t] = "tryGet"
    <3>1. /\ Wakers \subseteq Wakers' /\ Blocked("get")' \subseteq Blocked("get")
          /\ \A u \in Threads : At(u, {"get"}, "block")' => At(u, {"get"}, "block")
      BY <1>0, <2>1, <2>3 DEF Wakers, Blocked, At
    <3> QED
      BY <1>0, <2>1, <3>1, CoveredStays
  <2> QED
    BY <2>1, <2>2, <2>3
<1>5. CASE Link(t)
  <2>1. /\ pc' = [pc EXCEPT ![t] = "tail"] /\ UNCHANGED <<op, got, shutdown>>
        /\ added' = Append(added, node[t])
    BY <1>5 DEF Link, Goto, local
  <2>2. /\ pc[t] = "lock" /\ op[t] = "offer" /\ holder[1] = NoThread
    BY <1>5, OffersLink
  <2>3. \A u \in Threads : pc[u] # "block"
    BY <2>2, OneInside DEF Critical
  <2>4. In' = In + 1 /\ Out' = Out
    <3>1. node[t] \in 1..used /\ used \in 0..MaxNodes
      BY <2>1, <2>2 DEF ListInv, Fresh, At, Typed, Nodes
    <3>2. node[t] \in 1..MaxNodes
      BY <3>1, QueueAssumption
    <3> QED
      BY <1>0, <2>1, <3>2, AppendProperties DEF Typed, In, Out
  <2>5. t \notin Wakers /\ Wakers \cup {t} \subseteq Wakers' /\ Blocked("get")' = Blocked("get")
    BY <1>0, <2>1, <2>2 DEF Wakers, Blocked, At
  <2>6. \A u \in Threads : ~At(u, {"get"}, "block")'
    BY <1>0, <2>1, <2>3 DEF At
  <2>7. Cardinality(Wakers) + 1 <= Cardinality(Wakers')
    BY <1>a, <2>5
  <2>8. ~shutdown' /\ Blocked("get")' # {} => In' - Out' <= Cardinality(Wakers')
    <3>1. SUFFICES ASSUME In - Out <= Cardinality(Wakers)
                   PROVE  In' - Out' <= Cardinality(Wakers')
      BY <2>1, <2>5 DEF Covered
    <3> QED
      BY <1>0, <1>a, <2>4, <2>7, <3>1
  <2> QED
    BY <2>6, <2>8 DEF Covered
<1>6. CASE Decide(t)
  <2>1. /\ pc[t] = "lock" /\ op[t] \in {"put", "get"} /\ ~WaitOver(op[t])
        /\ pc' = [pc EXCEPT ![t] = "block"] /\ UNCHANGED <<op, added, got, shutdown>>
    BY <1>6 DEF Decide, CanLock, Goto, local, list
  <2>2. In = Out
    <3>1. op[t] = "get"
      BY <2>1, MutexOne
    <3>2. next[HeadNode] = Null
      BY <2>1, <3>1 DEF WaitOver
    <3>3. Out # In => Out + 1 \in 1..In
      BY <1>0
    <3>4. Out # In => next[HeadNode] \in 1..MaxNodes
      BY <1>0, <3>3, Lengths DEF ListInv, Linked
    <3> QED
      BY <3>2, <3>4, QueueAssumption DEF Nodes
  <2>3. In' = In /\ Out' = Out
    BY <2>1 DEF In, Out
  <2>4. In' - Out' <= Cardinality(Wakers')
    BY <1>0, <1>a, <2>2, <2>3
  <2> QED
    BY <2>2, <2>3, <2>4 DEF Covered
<1>7. CASE Block(t)
  <2>1. /\ pc[t] = "block" /\ pc' = [pc EXCEPT ![t] = "wait"]
        /\ UNCHANGED <<op, added, got, shutdown>>
    BY <1>7 DEF Block, Goto, local, list
  <2>2. op[t] = "get"
    BY <2>1, MutexOne DEF Busy
  <2>3. In' = In /\ Out' = Out
    BY <2>1 DEF In, Out
  <2>4. ASSUME ~shutdown' PROVE In = Out
    BY <2>1, <2>2, <2>4 DEF Covered, At
  <2>5. ASSUME ~shutdown' PROVE In' - Out' <= Cardinality(Wakers')
    BY <1>0, <1>a, <2>3, <2>4, <2>5
  <2> QED
    BY <2>3, <2>4, <2>5 DEF Covered
<1>8. CASE Unlink(t)
  <2>1. /\ pc[t] = "lock" /\ op[t] \in Takers /\ holder[MutexOf(op[t])] = NoThread
        /\ pc' = [pc EXCEPT ![t] = "check"] /\ UNCHANGED <<op, added, shutdown>>
        /\ next[HeadNode] # Null /\ got' = Append(got, next[HeadNode])
    BY <1>8 DEF Unlink, CanLock, Goto, Takers
  <2>2. holder[1] = NoThread
    BY <2>1, MutexOne DEF Takers
  <2>3. \A u \in Threads : pc[u] # "block"
    BY <2>2, OneInside DEF Critical
  <2>4. In' = In /\ Out' = Out + 1
    <3>1. Out # In /\ next[HeadNode] = added[Out + 1]
      BY <2>1 DEF ListInv, Linked
    <3>2. Out + 1 \in 1..In
      BY <1>0, <3>1
    <3>3. next[HeadNode] \in 1..MaxNodes
      BY <1>0, <3>1, <3>2, Lengths
    <3> QED
      BY <1>0, <2>1, <3>3, AppendProperties DEF Typed, In, Out
  <2>5. Wakers \subseteq Wakers' \cup {t} /\ Blocked("get")' = Blocked("get")
    BY <1>0, <2>1 DEF Wakers, Blocked, At
  <2>6. \A u \in Threads : ~At(u, {"get"}, "block")'
    BY <1>0, <2>1, <2>3 DEF At
  <2>7. Cardinality(Wakers) <= Cardinality(Wakers') + 1
    BY <1>a, <2>5
  <2>8. ~shutdown' /\ Blocked("get")' # {} => In' - Out' <= Cardinality(Wakers')
    <3>1. SUFFICES ASSUME In - Out <= Cardinality(Wakers)
                   PROVE  In' - Out' <= Cardinality(Wakers')
      BY <2>1, <2>5 DEF Covered
    <3> QED
      BY <1>0, <1>a, <2>4, <2>7, <3>1
  <2> QED
    BY <2>6, <2>8 DEF Covered
<1>9. CASE Notify(t)
  <2>1. /\ pc' \in [Threads -> Labels] /\ pc[t] = "notify" /\ pc'[t] = "idle"
        /\ \A u \in Threads \ {t} : pc'[u] = pc[u] \/ (pc[u] = "wait" /\ pc'[u] = "lock")
        /\ op[t] = "cleanup" => \A u \in Threads : pc'[u] # "wait"
    BY <1>9, NotifyEffect
  <2>2. UNCHANGED <<op, added, got, shutdown>>
    BY <1>9 DEF Notify, local, list
  <2>3. In' = In /\ Out' = Out
    BY <2>2 DEF In, Out
  <2>4. \A u \in Threads : At(u, {"get"}, "block")' => At(u, {"get"}, "block")
    BY <2>1, <2>2 DEF At
  <2>5. op[t] \in {"offer", "get", "cleanup"}
    BY <1>0, <2>1, MutexOne DEF Busy, Ops
  <2>6. CASE Blocked("get")' = {}
    BY <2>2, <2>3, <2>4, <2>6 DEF Covered
  <2>7. CASE op[t] = "get"
    <3>1. Wakers \subseteq Wakers' /\ Blocked("get")' \subseteq Blocked("get")
      BY <1>0, <2>1, <2>2, <2>7 DEF Wakers, Blocked, At
    <3> QED
      BY <1>0, <2>2, <2>4, <3>1, CoveredStays
  <2>8. CASE op[t] = "offer" /\ Blocked("get")' # {}
    <3>1. WakeOne(t, "get")
      BY <1>9, <2>8 DEF Notify
    <3>2. Blocked("get")' \subseteq Blocked("get") /\ Blocked("get") # {}
      BY <2>1, <2>2, <2>8 DEF Blocked, At
    <3>3. PICK b \in Blocked("get") : pc' = [pc EXCEPT ![t] = "idle", ![b] = "lock"]
      BY <3>1, <3>2 DEF WakeOne
    <3>4. t \in Wakers /\ b \notin Wakers /\ (Wakers \ {t}) \cup {b} \subseteq Wakers'
      BY <1>0, <2>1, <2>2, <2>8, <3>3 DEF Wakers, Blocked, At
    <3>5. Cardinality(Wakers) <= Cardinality(Wakers')
      BY <1>a, <3>4
    <3>6. ~shutdown' => In' - Out' <= Cardinality(Wakers')
      <4>1. SUFFICES ASSUME In - Out <= Cardinality(Wakers)
                     PROVE  In' - Out' <= Cardinality(Wakers')
        BY <2>2, <3>2 DEF Covered
      <4> QED
        BY <1>0, <1>a, <2>3, <3>5, <4>1
    <3> QED
      BY <2>2, <2>3, <2>4, <3>6 DEF Covered
  <2>9. CASE op[t] = "cleanup"
    <3>1. Blocked("get")' = {}
      BY <2>1, <2>9 DEF Blocked, At
    <3> QED
      BY <2>6, <3>1
  <2> QED
    BY <2>5, <2>6, <2>7, <2>8, <2>9
<1> QED
  BY OffersLink, <1>2, <1>3, <1>4, <1>5, <1>6, <1>7, <1>8, <1>9 DEF Step

LEMMA CoveredAlways ==
    ASSUME NobodyPuts, FiniteThreads
    PROVE  Spec => []Covered
<1>1. Init => Covered
  BY DEF Init, Covered, Blocked, At
<1>2. ListInv /\ Busy /\ Exclusive /\ Covered /\ [Next]_vars => Covered'
  BY CoveredStep
<1> QED
  BY <1>1, <1>2, ListAlways, PTL DEF Spec

\* No wakeup of a reader is lost: while one sleeps on an open queue, every item in the
\* list has an adder that will notify or a reader that is on its way to the mutex.
THEOREM NoLostWakeup ==
    ASSUME NobodyPuts, FiniteThreads
    PROVE  Spec => []ReaderNotStranded
<1>1. ListInv /\ Covered => ReaderNotStranded
  BY ChainIsRest DEF Covered, ReaderNotStranded, Wakers
<1> QED
  BY <1>1, CoveredAlways, ListAlways, PTL
----------------------------------------------------------------------------
\* The list as the refinement sees it.
Rest ==
    /\ Chain \in Seq(1..MaxNodes) /\ Len(Chain) = In - Out
    /\ \A i \in 1..(In - Out) : Chain[i] = added[Out + i]

LEMMA RestAlways == ASSUME NobodyPuts PROVE Spec => []Rest
<1>1. ListInv => Rest
  BY ChainIsRest DEF Rest
<1> QED
  BY <1>1, ListAlways, PTL

\* Where nothing is added or taken, the list stays.
LEMMA RestStays ==
    ASSUME ListInv, Rest, Rest', UNCHANGED <<added, got>>
    PROVE  Chain' = Chain
<1>1. In' = In /\ Out' = Out /\ In \in Nat /\ Out \in Nat
  BY Lengths DEF ListInv, In, Out
<1>2. Len(Chain') = Len(Chain) /\ \A i \in 1..Len(Chain) : Chain'[i] = Chain[i]
  BY <1>1 DEF Rest
<1> QED
  BY <1>2, SeqEqual DEF Rest

\* An offer links its node at the end ...
LEMMA RestGrows ==
    ASSUME ListInv, Rest, Rest', NEW n \in 1..MaxNodes, added' = Append(added, n), got' = got
    PROVE  Chain' = Append(Chain, n)
<1>1. In \in Nat /\ Out \in Nat /\ Out <= In /\ added \in Seq(1..MaxNodes)
  BY Lengths DEF ListInv, Linked, Typed
<1>2. /\ In' = In + 1 /\ Out' = Out
      /\ \A i \in 1..In : added'[i] = added[i]
      /\ added'[In + 1] = n
  BY <1>1, AppendProperties DEF In, Out
<1> DEFINE c == Append(Chain, n)
<1>3. /\ c \in Seq(1..MaxNodes) /\ Len(c) = (In - Out) + 1
      /\ \A i \in 1..(In - Out) : c[i] = Chain[i]
      /\ c[(In - Out) + 1] = n
  BY AppendProperties DEF Rest
<1> HIDE DEF c
<1>4. Len(Chain') = Len(c) /\ Chain' \in Seq(1..MaxNodes)
  BY <1>1, <1>2, <1>3 DEF Rest
<1>5. ASSUME NEW i \in 1..Len(c) PROVE Chain'[i] = c[i]
  <2>1. i \in 1..((In + 1) - Out) /\ Chain'[i] = added'[Out + i]
    <3>1. \A j \in 1..(In' - Out') : Chain'[j] = added'[Out' + j]
      BY DEF Rest
    <3>2. i \in 1..((In + 1) - Out)
      BY <1>1, <1>3
    <3> QED
      BY <1>2, <3>1, <3>2
  <2>2. CASE i = (In - Out) + 1
    <3>1. Out + i = In + 1
      BY <1>1, <2>2
    <3> QED
      BY <1>2, <1>3, <2>1, <2>2, <3>1
  <2>3. CASE i # (In - Out) + 1
    <3>1. i \in 1..(In - Out) /\ Out + i \in 1..In
      BY <1>1, <2>1, <2>3
    <3> QED
      BY <1>2, <1>3, <2>1, <3>1 DEF Rest
  <2> QED
    BY <2>2, <2>3
<1>6. Chain' = c
  BY <1>3, <1>4, <1>5, SeqEqual
<1> QED
  BY <1>6 DEF c

\* ... and a reader unlinks the first one.
LEMMA RestShrinks ==
    ASSUME ListInv, Rest, Rest', next[HeadNode] # Null,
           added' = added, got' = Append(got, next[HeadNode])
    PROVE  Chain # <<>> /\ Head(Chain) = next[HeadNode] /\ Chain' = Tail(Chain)
<1>1. In \in Nat /\ Out \in Nat /\ Out < In /\ next[HeadNode] = added[Out + 1]
      /\ got \in Seq(1..MaxNodes) /\ added[Out + 1] \in 1..MaxNodes
  <2>1. In \in Nat /\ Out \in Nat /\ Out <= In /\ \A i \in 1..In : added[i] \in 1..MaxNodes
    BY Lengths DEF ListInv, Linked
  <2>2. Out # In /\ next[HeadNode] = added[Out + 1]
    BY DEF ListInv, Linked
  <2>3. Out < In /\ Out + 1 \in 1..In
    BY <2>1, <2>2
  <2> QED
    BY <2>1, <2>2, <2>3 DEF ListInv, Typed
<1>2. In' = In /\ Out' = Out + 1
  BY <1>1, AppendProperties DEF In, Out
<1>3. 1 \in 1..(In - Out) /\ Chain # <<>> /\ Chain[1] = added[Out + 1]
  BY <1>1, EmptySeq DEF Rest
<1> DEFINE c == Tail(Chain)
<1>4. /\ Head(Chain) = Chain[1] /\ c \in Seq(1..MaxNodes) /\ Len(c) = (In - Out) - 1
      /\ \A i \in 1..((In - Out) - 1) : c[i] = Chain[i + 1]
  BY <1>3, HeadTailProperties DEF Rest
<1> HIDE DEF c
<1>5. Len(Chain') = Len(c) /\ Chain' \in Seq(1..MaxNodes)
  BY <1>1, <1>2, <1>4 DEF Rest
<1>6. ASSUME NEW i \in 1..Len(c) PROVE Chain'[i] = c[i]
  <2>1. /\ i \in 1..(In - (Out + 1)) /\ i + 1 \in 1..(In - Out)
        /\ (Out + 1) + i = Out + (i + 1)
    BY <1>1, <1>4
  <2> QED
    BY <1>2, <1>4, <2>1 DEF Rest
<1>7. Chain' = c
  BY <1>4, <1>5, <1>6, SeqEqual
<1> QED
  BY <1>1, <1>3, <1>4, <1>7 DEF c

\* What callers see of the threads' state, per thread ...
Waits(u) == pc[u] \in {"lock", "block", "wait"} /\ op[u] \in Takers
View(u)  == <<IF Waits(u) THEN op[u] ELSE "none", LastAnswer(u)>>

LEMMA ViewIsAll ==
    /\ (\A u \in Threads : View(u)' = View(u)) =>
           Asked' = Asked /\ [u \in Threads |-> LastAnswer(u)]' = [u \in Threads |-> LastAnswer(u)]
    /\ \A t \in Threads : \A call, item :
           (View(t)' = <<call, item>> /\ \A u \in Threads \ {t} : View(u)' = View(u)) =>
               /\ Asked' = [Asked EXCEPT ![t] = call]
               /\ [u \in Threads |-> LastAnswer(u)]'
                      = [[u \in Threads |-> LastAnswer(u)] EXCEPT ![t] = item]
BY DEF View, Waits, Takers, Asked

\* ... so that what a step neither adds, takes nor closes it hides.
LEMMA Hidden ==
    ASSUME ListInv, Rest, Rest', UNCHANGED <<added, got, shutdown>>,
           \A u \in Threads : View(u)' = View(u)
    PROVE  UNCHANGED ItemService!vars
<1>1. Chain' = Chain /\ Elements(added)' = Elements(added)
  BY RestStays DEF Elements
<1>2. Asked' = Asked /\ [u \in Threads |-> LastAnswer(u)]' = [u \in Threads |-> LastAnswer(u)]
  BY ViewIsAll
<1> QED
  BY <1>1, <1>2 DEF ItemService!vars

\* A call that changes no thread's view but t's.
LEMMA AskRefined ==
    ASSUME ListInv, Busy, Rest, Rest', NEW t \in Threads, NEW o \in Ops, Call(t, o)
    PROVE  (ItemService!Ask(t, o) /\ o \in Takers) \/ UNCHANGED ItemService!vars
<1>1. /\ pc \in [Threads -> Labels] /\ op \in [Threads -> Ops]
      /\ node \in [Threads -> Nodes \cup {Null}]
  BY DEF Busy, ListInv, Typed
<1>2. /\ pc[t] = "idle" /\ pc' = [pc EXCEPT ![t] = "lock"] /\ op' = [op EXCEPT ![t] = o]
      /\ \A u \in Threads \ {t} : node'[u] = node[u]
      /\ UNCHANGED <<added, got, shutdown, ret>>
  BY <1>1 DEF Call, Goto
<1>3. \A u \in Threads \ {t} : View(u)' = View(u)
  BY <1>1, <1>2 DEF View, Waits, LastAnswer
<1>4. View(t) = <<"none", ret[t]>> /\ View(t)' = <<IF o \in Takers THEN o ELSE "none", ret[t]>>
  BY <1>1, <1>2 DEF View, Waits, LastAnswer
<1>5. CASE o \in Takers
  <2>1. Chain' = Chain /\ Elements(added)' = Elements(added)
    BY <1>2, RestStays DEF Elements
  <2>2. Asked' = [Asked EXCEPT ![t] = o]
    BY <1>3, <1>4, <1>5, ViewIsAll
  <2>3. [u \in Threads |-> LastAnswer(u)]' = [u \in Threads |-> LastAnswer(u)]
    BY <1>3, <1>4 DEF View
  <2>4. Asked[t] = "none"
    BY <1>2 DEF Asked
  <2> QED
    BY <1>2, <1>5, <2>1, <2>2, <2>3, <2>4 DEF ItemService!Ask
<1>6. CASE o \notin Takers
  BY <1>2, <1>3, <1>4, <1>6, Hidden
<1> QED
  BY <1>5, <1>6

\* The steps that a caller cannot see.
LEMMA HiddenSteps ==
    ASSUME NobodyPuts, ListInv, Busy, Rest, Rest', NEW t \in Threads,
           \/ SpuriousWake(t) \/ Decide(t) \/ Block(t) \/ SetTail(t) \/ Count(t)
           \/ Check(t) \/ Retail(t) \/ Free(t) \/ Notify(t)
    PROVE  UNCHANGED ItemService!vars
<1>1. /\ pc \in [Threads -> Labels] /\ op \in [Threads -> Ops]
      /\ ret \in [Threads -> Nodes \cup {Null}]
  BY DEF Busy, ListInv, Typed
<1>2. CASE SpuriousWake(t) \/ Decide(t) \/ Block(t)
  <2>1. PICK l \in {"lock", "block", "wait"} :
            pc' = [pc EXCEPT ![t] = l] /\ pc[t] \in {"lock", "block", "wait"}
    BY <1>2 DEF SpuriousWake, Decide, Block, CanLock, Goto
  <2>2. UNCHANGED <<added, got, shutdown, op, node, ret>>
    BY <1>2 DEF SpuriousWake, Decide, Block, list, local
  <2>3. \A u \in Threads : View(u)' = View(u)
    BY <1>1, <2>1, <2>2 DEF View, Waits, LastAnswer
  <2> QED
    BY <2>2, <2>3, Hidden
<1>3. CASE SetTail(t) \/ Count(t) \/ Check(t) \/ Retail(t)
  <2>1. PICK l \in {"count", "notify", "retail", "free"} :
            /\ pc' = [pc EXCEPT ![t] = l]
            /\ pc[t] \in {"check", "retail"} <=> l \in {"retail", "free"}
            /\ pc[t] \in {"tail", "count", "check", "retail"}
    BY <1>3 DEF SetTail, Count, Check, Retail, Goto
  <2>2. UNCHANGED <<added, got, shutdown, op, node, ret>>
    BY <1>3 DEF SetTail, Count, Check, Retail, list, local
  <2>3. \A u \in Threads : View(u)' = View(u)
    BY <1>1, <2>1, <2>2 DEF View, Waits, LastAnswer
  <2> QED
    BY <2>2, <2>3, Hidden
<1>4. CASE Free(t)
  <2>1. PICK l \in {"notify", "idle"} : pc' = [pc EXCEPT ![t] = l] /\ pc[t] = "free"
    BY <1>4 DEF Free, Goto
  <2>2. ret' = [ret EXCEPT ![t] = node[t]] /\ UNCHANGED <<added, got, shutdown, op, node>>
    BY <1>4 DEF Free
  <2>3. \A u \in Threads : View(u)' = View(u)
    BY <1>1, <2>1, <2>2 DEF View, Waits, LastAnswer
  <2> QED
    BY <2>2, <2>3, Hidden
<1>5. CASE Notify(t)
  <2>1. /\ pc[t] = "notify" /\ pc'[t] = "idle"
        /\ \A u \in Threads \ {t} : pc'[u] = pc[u] \/ (pc[u] = "wait" /\ pc'[u] = "lock")
    BY <1>5, NotifyEffect
  <2>2. UNCHANGED <<added, got, shutdown, op, node, ret>>
    BY <1>5 DEF Notify, list, local
  <2>3. \A u \in Threads : View(u)' = View(u)
    BY <1>1, <2>1, <2>2 DEF View, Waits, LastAnswer
  <2> QED
    BY <2>2, <2>3, Hidden
<1> QED
  BY <1>2, <1>3, <1>4, <1>5

LEMMA EnterRefined ==
    ASSUME NobodyPuts, ListInv, Busy, Rest, Rest', NEW t \in Threads, Link(t)
    PROVE  node[t] \in 1..MaxNodes /\ ItemService!Enter(node[t])
<1>1. /\ pc \in [Threads -> Labels] /\ op \in [Threads -> Ops] /\ added \in Seq(1..MaxNodes)
  BY DEF Busy, ListInv, Typed
<1>2. /\ pc[t] = "lock" /\ pc' = [pc EXCEPT ![t] = "tail"]
      /\ added' = Append(added, node[t]) /\ UNCHANGED <<got, shutdown, op, node, ret>>
  BY OffersLink DEF Link, Goto, local
<1>3. op[t] = "offer"
  BY OffersLink
<1>4. node[t] \in 1..used /\ node[t] \notin Elems(added)
  BY <1>2, <1>3 DEF ListInv, Fresh, At
<1>5. node[t] \in 1..MaxNodes
  BY <1>4, QueueAssumption DEF ListInv, Typed, Nodes
<1>6. Chain' = Append(Chain, node[t])
  BY <1>2, <1>5, RestGrows
<1>7. Elements(added)' = Elements(added) \cup {node[t]} /\ node[t] \notin Elements(added)
  <2>1. /\ Len(added) \in Nat /\ Len(added') = Len(added) + 1
        /\ \A i \in 1..Len(added) : added'[i] = added[i]
        /\ added'[Len(added) + 1] = node[t]
    BY <1>1, <1>2, <1>5, AppendProperties, LenProperties
  <2>2. \A e : e \in Elements(added)' <=> e \in Elements(added) \/ e = node[t]
    BY <2>1 DEF Elements
  <2> QED
    BY <1>4, <2>2 DEF Elements, Elems
<1>8. \A u \in Threads : View(u)' = View(u)
  BY <1>1, <1>2, <1>3 DEF View, Waits, LastAnswer, Takers
<1>9. Asked' = Asked /\ [u \in Threads |-> LastAnswer(u)]' = [u \in Threads |-> LastAnswer(u)]
  BY <1>8, ViewIsAll
<1> QED
  BY <1>2, <1>5, <1>6, <1>7, <1>9 DEF ItemService!Enter

LEMMA GiveRefined ==
    ASSUME NobodyPuts, ListInv, Busy, Rest, Rest', NEW t \in Threads, Unlink(t)
    PROVE  ItemService!Give(t)
<1>1. /\ pc \in [Threads -> Labels] /\ op \in [Threads -> Ops]
      /\ node \in [Threads -> Nodes \cup {Null}]
  BY DEF Busy, ListInv, Typed
<1>2. /\ pc[t] = "lock" /\ pc' = [pc EXCEPT ![t] = "check"] /\ next[HeadNode] # Null
      /\ op[t] = "tryGet" \/ (op[t] = "get" /\ ~shutdown)
      /\ node' = [node EXCEPT ![t] = next[HeadNode]]
      /\ got' = Append(got, next[HeadNode]) /\ UNCHANGED <<added, shutdown, op, ret>>
  BY DEF Unlink, CanLock, Goto
<1>3. Chain # <<>> /\ Head(Chain) = next[HeadNode] /\ Chain' = Tail(Chain)
  BY <1>2, RestShrinks
<1>4. \A u \in Threads \ {t} : View(u)' = View(u)
  BY <1>1, <1>2 DEF View, Waits, LastAnswer
<1>5. View(t)' = <<"none", next[HeadNode]>>
  BY <1>1, <1>2 DEF View, Waits, LastAnswer
<1>6. /\ Asked' = [Asked EXCEPT ![t] = "none"]
      /\ [u \in Threads |-> LastAnswer(u)]'
             = [[u \in Threads |-> LastAnswer(u)] EXCEPT ![t] = Head(Chain)]
  BY <1>3, <1>4, <1>5, ViewIsAll
<1>7. Asked[t] = "tryGet" \/ (Asked[t] = "get" /\ ~shutdown)
  BY <1>2 DEF Asked
<1>8. Elements(added)' = Elements(added)
  BY <1>2 DEF Elements
<1> QED
  BY <1>2, <1>3, <1>6, <1>7, <1>8 DEF ItemService!Give, ItemService!Answer

LEMMA DeclineRefined ==
    ASSUME NobodyPuts, ListInv, Busy, Rest, Rest', NEW t \in Threads, GiveUp(t)
    PROVE  ItemService!Decline(t)
<1>1. /\ pc \in [Threads -> Labels] /\ op \in [Threads -> Ops]
      /\ ret \in [Threads -> Nodes \cup {Null}]
  BY DEF Busy, ListInv, Typed
<1>2. /\ pc[t] = "lock" /\ pc' = [pc EXCEPT ![t] = "idle"]
      /\ (op[t] \in {"put", "get"} /\ shutdown) \/ (op[t] = "tryGet" /\ next[HeadNode] = Null)
      /\ ret' = [ret EXCEPT ![t] = Null] /\ UNCHANGED <<added, got, shutdown, op, node>>
  BY DEF GiveUp, CanLock, Goto, list
<1>3. op[t] # "put"
  BY <1>2, MutexOne
<1>4. next[HeadNode] = Null => Chain = <<>>
  <2>1. Out < In => added[Out + 1] # Null
    BY Lengths, QueueAssumption DEF ListInv, Linked, Nodes
  <2>2. next[HeadNode] = Null => In = Out
    BY <2>1, Lengths DEF ListInv, Linked
  <2> QED
    BY <2>2, Lengths, EmptySeq DEF ListInv, Rest
<1>5. Chain' = Chain /\ Elements(added)' = Elements(added)
  BY <1>2, RestStays DEF Elements
<1>6. \A u \in Threads \ {t} : View(u)' = View(u)
  BY <1>1, <1>2 DEF View, Waits, LastAnswer
<1>7. View(t)' = <<"none", Null>>
  BY <1>1, <1>2 DEF View, Waits, LastAnswer
<1>8. /\ Asked' = [Asked EXCEPT ![t] = "none"]
      /\ [u \in Threads |-> LastAnswer(u)]'
             = [[u \in Threads |-> LastAnswer(u)] EXCEPT ![t] = Null]
  BY <1>6, <1>7, ViewIsAll
<1>9. (Asked[t] = "get" /\ shutdown) \/ (Asked[t] = "tryGet" /\ Chain = <<>>)
  BY <1>2, <1>3, <1>4 DEF Asked
<1> QED
  BY <1>2, <1>5, <1>8, <1>9 DEF ItemService!Decline, ItemService!Answer

LEMMA CloseRefined ==
    ASSUME ListInv, Busy, Rest, Rest', NEW t \in Threads, SetShutdown(t)
    PROVE  ItemService!Close
<1>1. /\ pc \in [Threads -> Labels] /\ op[t] = "cleanup" /\ pc[t] = "lock"
      /\ pc' = [pc EXCEPT ![t] = "notify"] /\ shutdown' = TRUE
      /\ UNCHANGED <<added, got, op, node, ret>>
  BY DEF SetShutdown, CanLock, Goto, list, local, Busy
<1>2. \A u \in Threads : View(u)' = View(u)
  BY <1>1 DEF View, Waits, LastAnswer, Takers
<1>3. Chain' = Chain /\ Elements(added)' = Elements(added)
  BY <1>1, RestStays DEF Elements
<1>4. Asked' = Asked /\ [u \in Threads |-> LastAnswer(u)]' = [u \in Threads |-> LastAnswer(u)]
  BY <1>2, ViewIsAll
<1> QED
  BY <1>1, <1>3, <1>4 DEF ItemService!Close

LEMMA QueueStepRefined ==
    ASSUME NobodyPuts, ListInv, Busy, Rest, Rest', [Next]_vars
    PROVE  [ItemService!Next]_(ItemService!vars)
<1>1. CASE UNCHANGED vars
  <2>1. UNCHANGED <<added, got, shutdown, pc, op, node, ret>>
    BY <1>1 DEF vars, list, local
  <2>2. \A u \in Threads : View(u)' = View(u)
    BY <2>1 DEF View, Waits, LastAnswer
  <2> QED
    BY <2>1, <2>2, Hidden
<1>2. ASSUME NEW t \in Threads, NEW o \in Ops, Call(t, o)
      PROVE  [ItemService!Next]_(ItemService!vars)
  BY <1>2, AskRefined DEF ItemService!Next, Takers
<1>3. ASSUME NEW t \in Threads, Step(t) \/ SpuriousWake(t)
      PROVE  [ItemService!Next]_(ItemService!vars)
  <2>1. CASE Link(t)
    BY <2>1, EnterRefined DEF ItemService!Next
  <2>2. CASE Unlink(t)
    BY <2>2, GiveRefined DEF ItemService!Next
  <2>3. CASE GiveUp(t)
    BY <2>3, DeclineRefined DEF ItemService!Next
  <2>4. CASE SetShutdown(t)
    BY <2>4, CloseRefined DEF ItemService!Next
  <2>5. CASE ~(Link(t) \/ Unlink(t) \/ GiveUp(t) \/ SetShutdown(t))
    BY <1>3, <2>5, OffersLink, HiddenSteps DEF Step
  <2> QED
    BY <2>1, <2>2, <2>3, <2>4, <2>5
<1> QED
  BY <1>1, <1>2, <1>3 DEF Next

LEMMA QueueInitRefined == Init /\ Rest => ItemService!Init
<1>1. ASSUME Init, Rest PROVE ItemService!Init
  <2>1. Len(added) = 0 /\ Len(got) = 0 /\ Elements(added) = {}
    BY <1>1 DEF Init, Elements
  <2>2. Chain = <<>>
    BY <1>1, <2>1, EmptySeq DEF Rest, In, Out
  <2>3. /\ Asked = [t \in Threads |-> "none"]
        /\ [t \in Threads |-> LastAnswer(t)] = [t \in Threads |-> Null]
    BY <1>1 DEF Init, Asked, LastAnswer
  <2> QED
    BY <1>1, <2>1, <2>2, <2>3 DEF Init, ItemService!Init
<1> QED
  BY <1>1

\* To those who call it, however many they are, the queue without put() is one on which
\* each call takes effect at one moment: every item enters once and is given once, first
\* come first served, a get returns with nothing only when the queue is closed, a poll
\* only when it is empty.
THEOREM QueueImplementsItemQueue ==
    ASSUME NobodyPuts
    PROVE  Spec => ImplementsItemQueue
<1>1. ListInv /\ Busy /\ Rest /\ Rest' /\ [Next]_vars => [ItemService!Next]_(ItemService!vars)
  BY QueueStepRefined
<1>2. Spec => ItemService!Spec
  BY <1>1, QueueInitRefined, ListAlways, RestAlways, PTL DEF Spec, ItemService!Spec
<1> QED
  BY <1>2 DEF ImplementsItemQueue
----------------------------------------------------------------------------
\* Room for the item of an offer that has tested the size and not yet counted.
RoomLeft ==
    /\ size <= MaxQueueSize
    /\ \A t \in Threads : op[t] = "offer" /\ pc[t] \in {"lock", "tail", "count"} =>
           size < MaxQueueSize

OneOfferer == \A t, u \in Offerers : t = u

\* The capacity holds where one thread at most calls offer(): nobody adds between its
\* test and its append.  With two it does not.
THEOREM CapacityOfOneOfferer ==
    ASSUME NobodyPuts, OneOfferer
    PROVE  Spec => []WithinCapacity
<1>1. Init => RoomLeft
  BY QueueAssumption DEF Init, RoomLeft
<1>2. ASSUME Busy, ListInv, RoomLeft, [Next]_vars PROVE RoomLeft'
  <2>0. /\ pc \in [Threads -> Labels] /\ op \in [Threads -> Ops]
        /\ size \in Int /\ MaxQueueSize \in Nat /\ size <= MaxQueueSize
    BY <1>2, QueueAssumption DEF Busy, ListInv, Typed, RoomLeft
  <2>1. \A t \in Threads : pc[t] # "idle" /\ op[t] = "offer" => t \in Offerers
    BY <1>2, Caller DEF Busy
  <2>2. CASE UNCHANGED vars
    BY <1>2, <2>2 DEF vars, list, local, RoomLeft
  <2>3. ASSUME NEW t \in Threads, NEW o \in Ops, Call(t, o) PROVE RoomLeft'
    <3>1. /\ o = "offer" => size # MaxQueueSize
          /\ size' = size /\ op' = [op EXCEPT ![t] = o] /\ pc' = [pc EXCEPT ![t] = "lock"]
      BY <2>3 DEF Call, Full, Goto
    <3> QED
      BY <1>2, <2>0, <3>1 DEF RoomLeft
  <2>4. ASSUME NEW t \in Threads, SpuriousWake(t) \/ Step(t) PROVE RoomLeft'
    <3>1. CASE Count(t)
      <4>1. /\ pc[t] = "count" /\ pc' = [pc EXCEPT ![t] = "notify"]
            /\ size' = size + 1 /\ op' = op
        BY <3>1 DEF Count, Goto, local
      <4>2. op[t] = "offer" /\ size < MaxQueueSize
        BY <1>2, <4>1, MutexOne DEF Busy, Adders, Adding, RoomLeft
      <4>3. \A u \in Threads \ {t} : ~(op[u] = "offer" /\ pc[u] # "idle")
        BY <2>1, <4>1, <4>2 DEF OneOfferer
      <4> QED
        BY <2>0, <4>1, <4>2, <4>3 DEF RoomLeft
    <3>2. CASE Free(t)
      <4>1. /\ pc[t] = "free" /\ size' = size - 1 /\ op' = op
            /\ pc' = [pc EXCEPT ![t] = IF op[t] = "get" THEN "notify" ELSE "idle"]
        BY <3>2 DEF Free, Goto
      <4> QED
        BY <1>2, <2>0, <4>1 DEF RoomLeft
    <3>3. CASE SpuriousWake(t) \/ Notify(t)
      <4>1. size' = size /\ op' = op
        BY <3>3 DEF SpuriousWake, Notify, list, local
      <4>2. \A u \in Threads : \/ pc'[u] \in {"idle", pc[u]}
                               \/ pc[u] = "wait" /\ pc'[u] = "lock"
        <5>1. CASE SpuriousWake(t)
          BY <2>0, <5>1 DEF SpuriousWake, Goto
        <5>2. CASE Notify(t)
          <6>1. /\ pc'[t] = "idle"
                /\ \A u \in Threads \ {t} : pc'[u] = pc[u] \/ (pc[u] = "wait" /\ pc'[u] = "lock")
            BY <1>2, <5>2, NotifyEffect
          <6> QED
            BY <6>1
        <5> QED
          BY <3>3, <5>1, <5>2
      <4>3. \A u \in Threads : pc[u] = "wait" => op[u] # "offer"
        BY <1>2 DEF Busy
      <4> QED
        BY <1>2, <4>1, <4>2, <4>3 DEF RoomLeft
    <3>4. CASE ~(Count(t) \/ Free(t) \/ SpuriousWake(t) \/ Notify(t))
      <4>1. size' = size /\ op' = op
        BY <2>4, <3>4 DEF Step, Admit, Link, SetTail, Decide, Block, GiveUp, Unlink, Check,
            Retail, SetShutdown, list, local
      <4>2. PICK l \in Labels :
                /\ pc' = [pc EXCEPT ![t] = l]
                /\ (op[t] = "offer" /\ l \in {"lock", "tail", "count"}) =>
                       pc[t] \in {"lock", "tail", "count"}
        BY <1>2, <2>4, <3>4, OffersLink DEF Step, Link, SetTail, Decide, Block, GiveUp, Unlink,
            Check, Retail, SetShutdown, CanLock, Goto, Labels
      <4>3. ASSUME NEW u \in Threads, op'[u] = "offer", pc'[u] \in {"lock", "tail", "count"}
            PROVE  op[u] = "offer" /\ pc[u] \in {"lock", "tail", "count"}
        BY <2>0, <4>1, <4>2, <4>3
      <4>4. \A u \in Threads : op'[u] = "offer" /\ pc'[u] \in {"lock", "tail", "count"} =>
                                   size' < MaxQueueSize
        BY <1>2, <4>1, <4>3 DEF RoomLeft
      <4> QED
        BY <2>0, <4>1, <4>4 DEF RoomLeft
    <3> QED
      BY <2>4, <3>1, <3>2, <3>3, <3>4
  <2> QED
    BY <1>2, <2>2, <2>3, <2>4 DEF Next
<1>3. RoomLeft => WithinCapacity
  BY DEF RoomLeft, WithinCapacity
<1> QED
  BY <1>1, <1>2, <1>3, ListAlways, PTL DEF Spec
=============================================================================
