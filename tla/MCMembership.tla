---------------------------- MODULE MCMembership ----------------------------
(* Clusters of two and three nodes for Membership. *)
EXTENDS Membership, TLC

\* The nodes other than the seed play the same part when none of them crashes.
Joiners == Permutations(Node \ {Seed})
=============================================================================
