--------------------------- MODULE MCServerConfig ---------------------------
(***************************************************************************)
(* Instances of ServerConfig for TLC.  What a file names is a model value. *)
(***************************************************************************)
EXTENDS ServerConfig

Symmetry == Permutations(Values) \cup Permutations(Ports) \cup Permutations(Paths)
=============================================================================
