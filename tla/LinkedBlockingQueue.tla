------------------------ MODULE LinkedBlockingQueue ------------------------
(***************************************************************************)
(* src/src/utils/LinkedBlockingQueue.h: a singly linked list behind a      *)
(* dummy head, an atomic size, and two mutexes.  offer(), getListItem()    *)
(* and tryGetListItem() work under mutexOne, put() under mutexTwo, so the  *)
(* writes to the list by put() interleave with those of the others: each   *)
(* access to shared memory that another thread can see in between is a     *)
(* step.  Taking a free mutex is merged with the first access under it,    *)
(* letting it go with the last one.                                        *)
(*                                                                         *)
(* A node is a number, given out in order and never again after its        *)
(* delete; it stands for the item stored in it too.                        *)
(***************************************************************************)
EXTENDS Naturals, Sequences, FiniteSets

CONSTANTS
    Offerers, Putters, Getters, Pollers, Cleaners,
                    \* the threads that call offer, put, getListItem,
                    \* tryGetListItem and cleanup
    MaxQueueSize,   \* maxQueueSize, 100 in the constructor
    MaxNodes,       \* bound: how many nodes are ever allocated
    NoThread, Null

Threads == Offerers \cup Putters \cup Getters \cup Pollers \cup Cleaners
HeadNode == 0                       \* the dummy node of the constructor
Nodes   == 0..MaxNodes
Ops     == {"offer", "put", "get", "tryGet", "cleanup"}

ASSUME QueueAssumption ==
    /\ MaxQueueSize \in Nat \ {0} /\ MaxNodes \in Nat
    /\ NoThread \notin Threads /\ Null \notin Nodes

VARIABLES
    next,       \* Node::next
    tail,       \* the last node, or HeadNode
    size,       \* queueSize
    shutdown,
    holder,     \* who holds mutexOne (1) and mutexTwo (2)
    used,       \* how many nodes have been allocated
    freed,      \* the deleted nodes
    op, pc,     \* per thread: the operation it is in, and where
    node,       \* per thread: newNode or current
    ret,        \* per thread: the item getListItem/tryGetListItem returned
    added, got  \* history: nodes linked into and taken out of the list, in order

list  == <<next, tail, size, used, freed, added, got>>
local == <<op, node, ret>>
vars  == <<list, shutdown, holder, pc, local>>

Init ==
    /\ next = [n \in Nodes |-> Null]
    /\ tail = HeadNode /\ size = 0 /\ shutdown = FALSE
    /\ holder = [m \in {1, 2} |-> NoThread]
    /\ used = 0 /\ freed = {}
    /\ op = [t \in Threads |-> "offer"] /\ pc = [t \in Threads |-> "idle"]
    /\ node = [t \in Threads |-> Null] /\ ret = [t \in Threads |-> Null]
    /\ added = <<>> /\ got = <<>>

At(t, o, label) == op[t] \in o /\ pc[t] = label
Goto(t, label)  == pc' = [pc EXCEPT ![t] = label]

\* Who is blocked in notEmpty.wait and in notFull.wait.
Blocked(o) == {t \in Threads : At(t, {o}, "wait")}

MayCall(t, o) ==
    t \in CASE o = "offer" -> Offerers [] o = "put" -> Putters
            [] o = "get" -> Getters [] o = "tryGet" -> Pollers
            [] o = "cleanup" -> Cleaners
----------------------------------------------------------------------------
\* The capacity test of offer(), made before any mutex is taken.
Full == size = MaxQueueSize

\* A call begins.  offer() gives up when the queue is full; offer() and put()
\* allocate their node before they take a mutex.
Call(t, o) ==
    /\ pc[t] = "idle" /\ MayCall(t, o)
    /\ o = "offer" => ~Full
    /\ IF o \in {"offer", "put"}
       THEN /\ used < MaxNodes
            /\ used' = used + 1
            /\ node' = [node EXCEPT ![t] = used + 1]
       ELSE UNCHANGED <<used, node>>
    /\ op' = [op EXCEPT ![t] = o]
    /\ Goto(t, "lock")
    /\ UNCHANGED <<next, tail, size, freed, added, got, shutdown, holder, ret>>

\* Mutant of MutexOf: one mutex per end of the list.
MutexPerEnd(o) == IF o \in {"offer", "put"} THEN 2 ELSE 1

\* The mutex an operation takes.
MutexOf(o) == IF o = "put" THEN 2 ELSE 1

CanLock(t) == pc[t] = "lock" /\ holder[MutexOf(op[t])] = NoThread
Lock(t)    == holder' = [holder EXCEPT ![MutexOf(op[t])] = t]
Unlock(t)  == holder' = [holder EXCEPT ![MutexOf(op[t])] = NoThread]

\* put(): there is room and the queue is open.  Neither is looked at again, while
\* offer() and cleanup() go on under the other mutex.
Admit(t) ==
    /\ CanLock(t) /\ op[t] = "put"
    /\ size <= MaxQueueSize /\ ~shutdown
    /\ Lock(t) /\ Goto(t, "link")
    /\ UNCHANGED <<list, shutdown, local>>

\* tail->setNext(newNode): the first thing offer() does under its mutex.
Link(t) ==
    /\ \/ op[t] = "offer" /\ CanLock(t) /\ Lock(t)
       \/ op[t] = "put" /\ pc[t] = "link" /\ UNCHANGED holder
    /\ next' = [next EXCEPT ![tail] = node[t]]
    /\ added' = Append(added, node[t])
    /\ Goto(t, "tail")
    /\ UNCHANGED <<tail, size, used, freed, got, shutdown, local>>

\* tail = newNode.
SetTail(t) ==
    /\ pc[t] = "tail"
    /\ tail' = node[t]
    /\ Goto(t, "count")
    /\ UNCHANGED <<next, size, used, freed, added, got, shutdown, holder, local>>

\* Mutant of Count: the size is not counted up.
CountNever(t) ==
    /\ pc[t] = "count"
    /\ Unlock(t) /\ Goto(t, "notify")
    /\ UNCHANGED <<list, shutdown, local>>

\* ++queueSize, and the mutex is let go.
Count(t) ==
    /\ pc[t] = "count"
    /\ size' = size + 1
    /\ Unlock(t) /\ Goto(t, "notify")
    /\ UNCHANGED <<next, tail, used, freed, added, got, shutdown, local>>
----------------------------------------------------------------------------
\* Whether the predicate given to wait() holds, per operation.
WaitOver(o) == \/ shutdown
               \/ IF o = "put" THEN size <= MaxQueueSize ELSE next[HeadNode] # Null

\* The predicate of wait() was false: the mutex is still held ...
Decide(t) ==
    /\ CanLock(t) /\ op[t] \in {"put", "get"} /\ ~WaitOver(op[t])
    /\ Lock(t) /\ Goto(t, "block")
    /\ UNCHANGED <<list, shutdown, local>>

\* ... until wait() lets it go and sleeps, in one step.
Block(t) ==
    /\ pc[t] = "block"
    /\ Unlock(t) /\ Goto(t, "wait")
    /\ UNCHANGED <<list, shutdown, local>>

SpuriousWake(t) ==
    /\ pc[t] = "wait"
    /\ Goto(t, "lock")
    /\ UNCHANGED <<list, shutdown, holder, local>>

\* Mutant of GiveUp: a reader that was woken in vain returns.
GiveUpWhenEmpty(t) ==
    /\ CanLock(t)
    /\ \/ op[t] \in {"put", "get"} /\ shutdown
       \/ op[t] \in {"get", "tryGet"} /\ next[HeadNode] = Null
    /\ ret' = [ret EXCEPT ![t] = Null]
    /\ Goto(t, "idle")
    /\ UNCHANGED <<list, shutdown, holder, op, node>>

\* A call that ends with nothing: a queue shut down (put() leaks its node), or
\* tryGetListItem() on an empty list.
GiveUp(t) ==
    /\ CanLock(t)
    /\ \/ op[t] \in {"put", "get"} /\ shutdown
       \/ op[t] = "tryGet" /\ next[HeadNode] = Null
    /\ ret' = [ret EXCEPT ![t] = Null]
    /\ Goto(t, "idle")
    /\ UNCHANGED <<list, shutdown, holder, op, node>>
----------------------------------------------------------------------------
\* current = head->getNext(); head->setNext(current->getNext()).
Unlink(t) ==
    /\ CanLock(t) /\ next[HeadNode] # Null
    /\ op[t] = "tryGet" \/ (op[t] = "get" /\ ~shutdown)
    /\ node' = [node EXCEPT ![t] = next[HeadNode]]
    /\ next' = [next EXCEPT ![HeadNode] = next[next[HeadNode]]]
    /\ got' = Append(got, next[HeadNode])
    /\ Lock(t) /\ Goto(t, "check")
    /\ UNCHANGED <<tail, size, used, freed, added, shutdown, op, ret>>

\* Mutant of Check: the tail is never put back.
CheckNever(t) ==
    /\ pc[t] = "check"
    /\ Goto(t, "free")
    /\ UNCHANGED <<list, shutdown, holder, local>>

\* if (current->getNext() == nullptr): a second read of the same field.
Check(t) ==
    /\ pc[t] = "check"
    /\ Goto(t, IF next[node[t]] = Null THEN "retail" ELSE "free")
    /\ UNCHANGED <<list, shutdown, holder, local>>

\* Under mutexTwo too: if (tail == current) tail = head.
Retail(t) ==
    /\ pc[t] = "retail" /\ holder[2] = NoThread
    /\ tail' = IF tail = node[t] THEN HeadNode ELSE tail
    /\ Goto(t, "free")
    /\ UNCHANGED <<next, size, used, freed, added, got, shutdown, holder, local>>

\* The item is copied, the node deleted, the size reduced, mutexOne let go.
\* Only getListItem() goes on to notify.
Free(t) ==
    /\ pc[t] = "free"
    /\ ret' = [ret EXCEPT ![t] = node[t]]
    /\ freed' = freed \cup {node[t]}
    /\ size' = size - 1
    /\ Unlock(t)
    /\ Goto(t, IF op[t] = "get" THEN "notify" ELSE "idle")
    /\ UNCHANGED <<next, tail, used, added, got, shutdown, op, node>>
----------------------------------------------------------------------------
\* cleanup(): the flag, under mutexOne.
SetShutdown(t) ==
    /\ CanLock(t) /\ op[t] = "cleanup"
    /\ shutdown' = TRUE
    /\ Goto(t, "notify")
    /\ UNCHANGED <<list, holder, local>>

WakeNobody(t, o) == Goto(t, "idle")    \* mutant of WakeOne

\* notify_one() on the variable the operation o waits on; the call returns.
WakeOne(t, o) ==
    IF Blocked(o) = {} THEN Goto(t, "idle")
    ELSE \E b \in Blocked(o) : pc' = [pc EXCEPT ![t] = "idle", ![b] = "lock"]

\* Mutant of WakeAll: notEmpty is forgotten.
WakePutters(t) ==
    pc' = [b \in Threads |-> IF b = t THEN "idle"
                             ELSE IF b \in Blocked("put") THEN "lock" ELSE pc[b]]

\* notify_all() on both variables; they have no waiter in common.
WakeAll(t) ==
    pc' = [b \in Threads |-> IF b = t THEN "idle"
                             ELSE IF pc[b] = "wait" THEN "lock" ELSE pc[b]]

\* The notifications come after the mutex has been let go.
Notify(t) ==
    /\ pc[t] = "notify"
    /\ CASE op[t] \in {"offer", "put"} -> WakeOne(t, "get")
         [] op[t] = "get" -> WakeOne(t, "put")
         [] op[t] = "cleanup" -> WakeAll(t)
    /\ UNCHANGED <<list, shutdown, holder, local>>
----------------------------------------------------------------------------
\* What a thread does once it is in a call.
Step(t) ==
    \/ Admit(t) \/ Link(t) \/ SetTail(t) \/ Count(t)
    \/ Decide(t) \/ Block(t) \/ GiveUp(t)
    \/ Unlink(t) \/ Check(t) \/ Retail(t) \/ Free(t)
    \/ SetShutdown(t) \/ Notify(t)

Next ==
    \E t \in Threads : Step(t) \/ SpuriousWake(t) \/ \E o \in Ops : Call(t, o)

Spec == Init /\ [][Next]_vars
----------------------------------------------------------------------------
\* The nodes reachable from the dummy head, in list order.
Chain ==
    LET walk[k \in Nodes] ==
            IF k = 0 THEN <<>>
            ELSE LET seen == walk[k - 1]
                     last == IF seen = <<>> THEN HeadNode ELSE seen[Len(seen)]
                 IN  IF next[last] = Null THEN seen ELSE Append(seen, next[last])
    IN  walk[MaxNodes]

Elements(s) == {s[i] : i \in 1..Len(s)}

TypeOK ==
    /\ next \in [Nodes -> Nodes \cup {Null}]
    /\ tail \in Nodes /\ size \in Nat /\ shutdown \in BOOLEAN
    /\ holder \in [{1, 2} -> Threads \cup {NoThread}]
    /\ used \in Nodes /\ freed \subseteq 1..used
    /\ op \in [Threads -> Ops]
    /\ pc \in [Threads -> {"idle", "lock", "block", "wait", "link", "tail", "count",
                           "check", "retail", "free", "notify"}]
    /\ node \in [Threads -> Nodes \cup {Null}] /\ ret \in [Threads -> Nodes \cup {Null}]
    /\ added \in Seq(Nodes) /\ got \in Seq(Nodes)

\* First in, first out, and nothing falls off the list: what was taken and what
\* can still be reached from the head is what was added, in that order.
FifoNoLoss == got \o Chain = added

Inside(labels) == Cardinality({t \in Threads : pc[t] \in labels})

\* queueSize is at any time the length of the list, but for the nodes whose adder
\* has yet to count them and those a reader has unlinked and not yet deleted: so
\* offer() refuses an item only when that many are waiting or in a reader's hand.
\* With no thread inside, tail points to the last node: no append is lost.
ListSound ==
    /\ size + Inside({"tail", "count"}) = Len(Chain) + Inside({"check", "retail", "free"})
    /\ (\A m \in {1, 2} : holder[m] = NoThread) =>
           tail = IF Chain = <<>> THEN HeadNode ELSE Chain[Len(Chain)]

\* No thread can reach a deleted node: neither from the head nor, once a put()
\* that has linked its node has also moved it, through the tail.
NodesAlive ==
    /\ Elements(Chain) \cap freed = {}
    /\ (\A t \in Threads : pc[t] # "tail") => tail \notin freed

\* No lost wakeup of readers: while one sleeps and the queue is open, every item
\* in the list has an adder that has yet to notify or a reader on its way.
ReaderNotStranded ==
    (Blocked("get") # {} /\ ~shutdown) =>
        Len(Chain) <= Cardinality({t \in Threads :
                          \/ op[t] \in {"offer", "put"} /\ pc[t] \in {"tail", "count", "notify"}
                          \/ At(t, {"get"}, "lock")})

\* After a cleanup() that has notified, no reader sleeps or is about to.
CleanupFreesReaders ==
    (shutdown /\ \A t \in Cleaners : ~At(t, {"cleanup"}, "notify")) =>
        \A t \in Getters : ~At(t, {"get"}, "wait") /\ ~At(t, {"get"}, "block")

\* What a reader waits for, until it has unlinked a node or given up, and the last
\* answer: the item of the node it is about to delete, or what it was returned.
Asked == [t \in Threads |-> IF pc[t] \in {"lock", "block", "wait"} /\ op[t] \in {"get", "tryGet"}
                            THEN op[t] ELSE "none"]
LastAnswer(t) == IF pc[t] \in {"check", "retail", "free"} THEN node[t] ELSE ret[t]

ItemService == INSTANCE ItemQueue
    WITH Items <- 1..MaxNodes, Callers <- Threads, Nothing <- Null,
         items <- Chain, accepted <- Elements(added), closed <- shutdown,
         asking <- Asked, answer <- [t \in Threads |-> LastAnswer(t)]

\* To its callers the queue is one on which each call takes effect at one moment: an
\* offer when its node is linked, a read when its node is unlinked or when it has
\* looked in vain.  So no item is given twice, overtaken or invented, and no reader
\* is sent away from an open queue, nor a poll from one that holds an item.
ImplementsItemQueue == ItemService!Spec

\* LinkedBlockingQueue.h:108, "Maximum size of the queue".
WithinCapacity == size <= MaxQueueSize
=============================================================================
