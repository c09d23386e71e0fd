------------------------------ MODULE MCServer ------------------------------
(***************************************************************************)
(* Instances of Server for TLC: workers, and the clients of one kind of    *)
(* port, are interchangeable.                                              *)
(***************************************************************************)
EXTENDS Server, TLC

Symmetry ==
    Permutations(Workers) \cup Permutations(HttpConns) \cup Permutations(HttpsConns)
=============================================================================
