---------------------------- MODULE MCThreadPool ----------------------------
(***************************************************************************)
(* Instances of ThreadPool for TLC.  Workers are numbers (they are joined  *)
(* in vector order), so only the tasks and the stoppers are symmetric.     *)
(***************************************************************************)
EXTENDS ThreadPool, TLC

Symmetry == Permutations(Tasks) \cup Permutations(Stoppers)
=============================================================================
