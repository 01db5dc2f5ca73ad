---------------------------- MODULE MCForwarding ----------------------------
(* Two-node clusters for Forwarding. *)
EXTENDS Forwarding, TLC

\* Page 0 belongs to node 1, page 1 to node 2.
TwoOwned    == 1 :> {0} @@ 2 :> {1}
TwoMembers  == 1 :> <<1, 2>> @@ 2 :> <<2, 1>>
Fits        == 1 :> 1 @@ 2 :> 2

\* One client per node, or both on node 1.
OneEach     == "a" :> 1 @@ "b" :> 2
BothOnOne   == "a" :> 1 @@ "b" :> 1

\* Both nodes in a cluster, or two servers that know of no other.
Cluster     == {{1, 2}}
AllOrNone   == {{1, 2}, {}}

\* Connections that can break: none, or node 1's to node 2.
NoConns     == {}
PeerLink    == {[src |-> 1, dst |-> 2, k |-> 1]}
=============================================================================
