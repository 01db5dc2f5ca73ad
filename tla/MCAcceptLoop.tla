---------------------------- MODULE MCAcceptLoop ----------------------------
(* Instances of AcceptLoop for TLC. *)
EXTENDS AcceptLoop, TLC

\* Descriptors and thread ids are interchangeable.
Symmetry == Permutations(Fd) \cup Permutations(Tid)
=============================================================================
