----------------------------- MODULE ItemQueue ------------------------------
(***************************************************************************)
(* What those who offer and those who read may rely on, with no node, tail *)
(* or mutex: each call takes effect at one moment.  An item enters at the  *)
(* end, once; a reader's call is answered with the first item, or with     *)
(* nothing: a poll because the queue is empty at that moment, a get only   *)
(* because it is closed.  LinkedBlockingQueue implements this              *)
(* specification where nobody calls put().                                 *)
(***************************************************************************)
EXTENDS Sequences

CONSTANTS Items, Callers, Nothing

VARIABLES
    items,      \* in the order in which they will be given out
    accepted,   \* the items that ever entered
    closed,
    asking,     \* per caller: "none", or the call it waits to be answered
    answer      \* per caller: the last answer it was given

vars == <<items, accepted, closed, asking, answer>>

Init ==
    /\ items = <<>> /\ accepted = {} /\ closed = FALSE
    /\ asking = [c \in Callers |-> "none"] /\ answer = [c \in Callers |-> Nothing]

\* A closed queue accepts items too.
Enter(i) ==
    /\ i \notin accepted
    /\ items' = Append(items, i) /\ accepted' = accepted \cup {i}
    /\ UNCHANGED <<closed, asking, answer>>

Ask(c, call) ==
    /\ asking[c] = "none"
    /\ asking' = [asking EXCEPT ![c] = call]
    /\ UNCHANGED <<items, accepted, closed, answer>>

Answer(c, item) ==
    /\ asking' = [asking EXCEPT ![c] = "none"]
    /\ answer' = [answer EXCEPT ![c] = item]
    /\ UNCHANGED <<accepted, closed>>

Give(c) ==
    /\ asking[c] = "tryGet" \/ (asking[c] = "get" /\ ~closed)
    /\ items # <<>> /\ items' = Tail(items)
    /\ Answer(c, Head(items))

Decline(c) ==
    /\ (asking[c] = "get" /\ closed) \/ (asking[c] = "tryGet" /\ items = <<>>)
    /\ Answer(c, Nothing) /\ UNCHANGED items

Close ==
    /\ closed' = TRUE
    /\ UNCHANGED <<items, accepted, asking, answer>>

Next ==
    \/ \E i \in Items : Enter(i)
    \/ \E c \in Callers : Give(c) \/ Decline(c) \/ \E call \in {"get", "tryGet"} : Ask(c, call)
    \/ Close

Spec == Init /\ [][Next]_vars
=============================================================================
