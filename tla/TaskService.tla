---------------------------- MODULE TaskService -----------------------------
(***************************************************************************)
(* What a pool promises, with no mutex, condition variable or thread: it   *)
(* takes tasks while it is open, starts them first come first served, at   *)
(* most Capacity at a time, and every task it took comes to an outcome,    *)
(* closing or not.  ThreadPool implements this specification.              *)
(***************************************************************************)
EXTENDS Naturals, Sequences, FiniteSets

CONSTANTS Capacity, Tasks

VARIABLES open, queue, executing, outcome

vars == <<open, queue, executing, outcome>>

Init ==
    /\ open = TRUE
    /\ queue = <<>>
    /\ executing = {}
    /\ outcome = [t \in Tasks |-> "none"]

Accept(t) ==
    /\ open /\ outcome[t] = "none"
    /\ queue' = Append(queue, t)
    /\ outcome' = [outcome EXCEPT ![t] = "pending"]
    /\ UNCHANGED <<open, executing>>

Refuse(t) ==
    /\ ~open /\ outcome[t] = "none"
    /\ outcome' = [outcome EXCEPT ![t] = "rejected"]
    /\ UNCHANGED <<open, queue, executing>>

Start ==
    /\ queue # <<>>
    /\ Cardinality(executing) < Capacity
    /\ executing' = executing \cup {Head(queue)}
    /\ queue' = Tail(queue)
    /\ UNCHANGED <<open, outcome>>

Complete(t) ==
    /\ t \in executing
    /\ executing' = executing \ {t}
    /\ \E r \in {"value", "exception"} : outcome' = [outcome EXCEPT ![t] = r]
    /\ UNCHANGED <<open, queue>>

Close ==
    /\ open
    /\ open' = FALSE
    /\ UNCHANGED <<queue, executing, outcome>>

Next ==
    \/ \E t \in Tasks : Accept(t) \/ Refuse(t) \/ Complete(t)
    \/ Start
    \/ Close

Fairness == WF_vars(Start) /\ \A t \in Tasks : WF_vars(Complete(t))

Spec == Init /\ [][Next]_vars

FairSpec == Spec /\ Fairness
=============================================================================
