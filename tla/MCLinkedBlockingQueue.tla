----------------------- MODULE MCLinkedBlockingQueue -----------------------
(***************************************************************************)
(* Instances of LinkedBlockingQueue for TLC.  Threads are model values;    *)
(* those that play the same part are interchangeable.                      *)
(***************************************************************************)
EXTENDS LinkedBlockingQueue, TLC

Symmetry == Permutations(Offerers) \cup Permutations(Putters) \cup Permutations(Getters)
=============================================================================
