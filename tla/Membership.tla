----------------------------- MODULE Membership -----------------------------
(***************************************************************************)
(* Cluster membership and failure detection: the node table of             *)
(* src/dsm_cluster.c, its gossip thread, its heartbeat thread, and the     *)
(* PING, PONG and JOIN datagrams of src/dsm_gossip.c.                      *)
(*                                                                         *)
(* Addresses, ports and page ranges belong to a node for good, so an entry *)
(* is an id, an incarnation, a state and its last_seen, kept as an age in  *)
(* ticks: dsm_now_ms() - last_seen, exact up to MaxAge and saturated       *)
(* there.  The gossip thread and the heartbeat thread share the table      *)
(* under a lock and interleave wherever they do not hold it.               *)
(***************************************************************************)
EXTENDS Integers, Sequences, FiniteSets, Functions

CONSTANTS
    Node,
    Seed,           \* the node without seed_addr
    Timeout,        \* cfg.timeout_ms in ticks
    Gossip,         \* cfg.gossip_ms in ticks
    MaxLag,         \* ticks a heartbeat round may take, waits for the lock included
    MaxNodes,       \* CLUSTER_MAX_NODES (64 in the code)
    MsgMaxNodes,    \* GOSSIP_MSG_MAX_NODES (16 in the code)
    Fanout,         \* GOSSIP_FANOUT (3 in the code)
    NoNode,         \* not a node
    InboxMax,       \* datagrams the receive buffer of a socket holds
    Aging,          \* FALSE: the timeout is never reached
    Unreliable,     \* whether datagrams can be lost or duplicated
    MayCrash        \* nodes that can crash, and restart

ASSUME MembershipAssumption ==
    /\ Seed \in Node /\ NoNode \notin Node
    /\ Timeout \in Nat \ {0} /\ Gossip \in Nat \ {0} /\ MaxLag \in Nat
    /\ MaxNodes \in Nat \ {0} /\ MsgMaxNodes \in Nat \ {0}
    /\ Fanout \in Nat /\ InboxMax \in Nat
    /\ Aging \in BOOLEAN /\ Unreliable \in BOOLEAN
    /\ MayCrash \subseteq Node

MaxAge == Timeout + MaxLag + 1

VARIABLES
    up,         \* nodes whose server process is running
    joined,     \* nodes that have sent their JOIN
    table,      \* state.nodes[0 .. node_count - 1] of each node
    beat,       \* heartbeat thread: where it is, how old its "now" and last_gossip are
    owes,       \* gossip thread: the peer it is about to answer, or NoNode
    inbox       \* datagrams that reached the socket of each node, in order

vars == <<up, joined, table, beat, owes, inbox>>

State == {"ALIVE", "SUSPECT", "DEAD"}
Entry == [id : Node, incarnation : {1}, state : State, age : 0 .. MaxAge]

\* cluster_create and fill_header: every process starts at incarnation 1 and
\* none ever changes it.
Self(n) == [id |-> n, incarnation |-> 1, state |-> "ALIVE", age |-> 0]

Asleep(since) == [pc |-> "sleep", lag |-> 0, since |-> since]

\* last_gossip = 0: the first round gossips.
Started == Asleep(Gossip)

Init ==
    /\ up = Node
    /\ joined = {Seed}
    /\ table = [n \in Node |-> <<Self(n)>>]
    /\ beat = [n \in Node |-> Started]
    /\ owes = [n \in Node |-> NoNode]
    /\ inbox = [n \in Node |-> <<>>]

-----------------------------------------------------------------------------
(* The node table *)

\* Mutant: a peer believed DEAD is not found.
FindLiveNodeById(s, id) == {i \in 1 .. Len(s) : s[i].id = id /\ s[i].state # "DEAD"}

FindNodeById(s, id) == {i \in 1 .. Len(s) : s[i].id = id}

\* Mutant: hearsay of SUSPECT or DEAD is adopted.
RefreshAdoptsState(entry, node) == [entry EXCEPT !.age = 0, !.state = node.state]

\* merge_node, the same incarnation: only ALIVE is adopted.
Refresh(entry, node) ==
    [entry EXCEPT !.age = 0, !.state = IF node.state = "ALIVE" THEN "ALIVE" ELSE @]

\* Mutant: one entry too many.
AddNodeOffByOne(s, node) ==
    IF Len(s) <= MaxNodes THEN Append(s, [node EXCEPT !.age = 0]) ELSE s

\* Mutant: a full table makes room.
AddNodeReplacing(s, node) ==
    IF Len(s) < MaxNodes THEN Append(s, node) ELSE [s EXCEPT ![Len(s)] = node]

\* merge_node, an unknown id.
AddNode(s, node) ==
    IF Len(s) < MaxNodes THEN Append(s, [node EXCEPT !.age = 0]) ELSE s

\* merge_node, with last_seen = dsm_now_ms().
MergeNode(s, node) ==
    LET found == FindNodeById(s, node.id)
        i     == CHOOSE i \in found : TRUE IN
    IF found = {} THEN AddNode(s, node)
    ELSE IF node.incarnation > s[i].incarnation
         THEN [s EXCEPT ![i] = [node EXCEPT !.age = 0]]
    ELSE IF node.incarnation = s[i].incarnation
         THEN [s EXCEPT ![i] = Refresh(@, node)]
    ELSE s

\* The nodes of a datagram are merged one after the other, in their order.
MergeNodes(s, nodes) ==
    LET merged[k \in 0 .. Len(nodes)] ==
            IF k = 0 THEN s ELSE MergeNode(merged[k - 1], nodes[k])
    IN  merged[Len(nodes)]

\* Mutant: DEAD after half the timeout too.
AgedHalf(state, elapsed) ==
    IF elapsed < 0 \/ elapsed > Timeout \div 2
    THEN IF state = "ALIVE" THEN "SUSPECT" ELSE "DEAD"
    ELSE state

\* Mutant: a suspect stays a suspect.
AgedNeverDead(state, elapsed) ==
    IF state = "ALIVE" /\ (elapsed < 0 \/ elapsed > Timeout \div 2)
    THEN "SUSPECT" ELSE state

\* The state an entry gets when it is elapsed ticks old.  The code's elapsed
\* is unsigned: a negative difference is larger than any timeout.
Aged(state, elapsed) ==
    LET past(limit) == elapsed < 0 \/ elapsed > limit IN
    IF state = "ALIVE" /\ past(Timeout \div 2) THEN "SUSPECT"
    ELSE IF state = "SUSPECT" /\ past(Timeout) THEN "DEAD"
    ELSE state

-----------------------------------------------------------------------------
(* Datagrams *)

\* cluster_node_to_gossip here, gossip_node_to_cluster there: last_seen does
\* not travel.
OnWire(entry) == [entry EXCEPT !.age = 0]

\* fill_header.
Message(type, n, m, nodes) == [type |-> type, src |-> n, dst |-> m, nodes |-> nodes]

\* gossip_send_ping, gossip_send_join and gossip_send_pong.
Ping(n, m) == Message("PING", n, m, <<>>)
Join(n, m) == Message("JOIN", n, m, <<OnWire(Self(n))>>)

\* Mutant: the last node of the table is left out.
PongShort(n, m) ==
    Message("PONG", n, m, [i \in 1 .. Len(table[n]) - 1 |-> OnWire(table[n][i])])

Pong(n, m) ==
    LET count == IF Len(table[n]) > MsgMaxNodes THEN MsgMaxNodes ELSE Len(table[n])
    IN  Message("PONG", n, m, [i \in 1 .. count |-> OnWire(table[n][i])])

\* UDP to sockets with a receive buffer.  A datagram is dropped when the
\* receiver is down or its buffer is full; when the network is unreliable it
\* may also be lost or overtake those already sent.  A datagram that waits
\* already is not queued twice.
Send(msgs) ==
    \E lost \in IF Unreliable THEN SUBSET msgs ELSE {{}} :
    \E early \in IF Unreliable THEN SUBSET (msgs \ lost) ELSE {{}} :
        inbox' = [m \in Node |->
            LET new == {msg \in msgs \ lost : msg.dst = m /\ msg \notin Range(inbox[m])} IN
            IF new = {} \/ m \notin up \/ Len(inbox[m]) >= InboxMax THEN inbox[m]
            ELSE LET msg == CHOOSE msg \in new : TRUE IN
                 IF msg \in early THEN <<msg>> \o inbox[m] ELSE Append(inbox[m], msg)]

-----------------------------------------------------------------------------
(* Gossip thread *)

\* cluster_join: one JOIN to the seed, never repeated.  The server goes on
\* whether or not it is answered.
SendJoin(n) ==
    /\ n \in up \ joined
    /\ joined' = joined \cup {n}
    /\ Send({Join(n, Seed)})
    /\ UNCHANGED <<up, table, beat, owes>>

\* gossip_loop: the next datagram is read, or a duplicate of it.
Receive(n) ==
    /\ n \in up
    /\ owes[n] = NoNode
    /\ inbox[n] # <<>>
    /\ \/ inbox' = [inbox EXCEPT ![n] = Tail(@)]
       \/ Unreliable /\ UNCHANGED inbox

\* handle_gossip_msg under the write lock: the sender first, as ALIVE, then
\* the nodes it lists.  PING and JOIN will be answered.
Handle(n) ==
    /\ Receive(n)
    /\ LET msg == Head(inbox[n]) IN
       /\ table' = [table EXCEPT ![n] =
              MergeNodes(MergeNode(@, Self(msg.src)), msg.nodes)]
       /\ owes' = [owes EXCEPT ![n] = IF msg.type \in {"PING", "JOIN"}
                                      THEN msg.src ELSE NoNode]
    /\ UNCHANGED <<up, joined, beat>>

\* The thread is done with the datagram once it has answered.
Finish(n) ==
    /\ n \in up
    /\ owes[n] # NoNode
    /\ owes' = [owes EXCEPT ![n] = NoNode]

\* The PONG, under the read lock taken afterwards.
Answer(n) ==
    /\ Finish(n)
    /\ Send({Pong(n, owes[n])})
    /\ UNCHANGED <<up, joined, table, beat>>

-----------------------------------------------------------------------------
(* Heartbeat thread *)

GossipDue(n) == beat[n].since - beat[n].lag >= Gossip

\* heartbeat_loop moves on: usleep returns, "now" is read, the table is aged,
\* the peers are pinged when that is due, and it sleeps again.
Proceed(n) ==
    /\ n \in up
    /\ beat[n].pc # "sleep"
    /\ beat' = [beat EXCEPT ![n] =
           CASE @.pc = "awake"  -> [@ EXCEPT !.pc = "age"]
             [] @.pc = "age"    -> [@ EXCEPT !.pc = "gossip"]
             [] @.pc = "gossip" -> Asleep(IF GossipDue(n) THEN @.lag ELSE @.since)]

\* "now" is read before the lock is taken.
ReadNow(n) ==
    /\ beat[n].pc = "awake"
    /\ Proceed(n)
    /\ UNCHANGED <<up, joined, table, owes, inbox>>

\* One turn of the aging loop, lag ticks after "now" was read.
AgedEntry(entry, lag) == [entry EXCEPT !.state = Aged(@, entry.age - lag)]

\* The aging loop, under the write lock; it skips its own entry.
Age(n) ==
    /\ beat[n].pc = "age"
    /\ Proceed(n)
    /\ table' = [table EXCEPT ![n] =
           [i \in 1 .. Len(@) |-> IF i = 1 THEN @[i] ELSE AgedEntry(@[i], beat[n].lag)]]
    /\ UNCHANGED <<up, joined, owes, inbox>>

\* The first Fanout peers in table order that are not DEAD.
PingTargets(n) ==
    LET live == {i \in 1 .. Len(table[n]) :
                    table[n][i].id # n /\ table[n][i].state # "DEAD"}
    IN  {table[n][i].id : i \in {i \in live : Cardinality({j \in live : j < i}) < Fanout}}

\* The gossip interval has passed: PINGs go out under the read lock.
SendPings(n) ==
    /\ beat[n].pc = "gossip" /\ GossipDue(n)
    /\ Proceed(n)
    /\ Send({Ping(n, m) : m \in PingTargets(n)})
    /\ UNCHANGED <<up, joined, table, owes>>

\* The gossip interval has not passed yet.
SkipPings(n) ==
    /\ beat[n].pc = "gossip" /\ ~GossipDue(n)
    /\ Proceed(n)
    /\ UNCHANGED <<up, joined, table, owes, inbox>>

-----------------------------------------------------------------------------
(* Environment *)

Older(age, max) == IF age < max THEN age + 1 ELSE max

\* A tick: the entries get older, sleeping heartbeat threads wake up, and the
\* "now" of one in the middle of its round falls behind.  An interval that
\* has passed stays passed, so last_gossip need not get older than that.
Tick ==
    /\ \A n \in up : beat[n].pc \in {"age", "gossip"} => beat[n].lag < MaxLag
    /\ table' = [n \in Node |->
           [i \in 1 .. Len(table[n]) |->
               IF i = 1 \/ ~Aging THEN table[n][i]
               ELSE [table[n][i] EXCEPT !.age = Older(@, MaxAge)]]]
    /\ beat' = [n \in Node |->
           LET lag == IF beat[n].pc \in {"age", "gossip"} THEN beat[n].lag + 1 ELSE 0 IN
           [pc    |-> IF beat[n].pc = "sleep" THEN "awake" ELSE beat[n].pc,
            lag   |-> lag,
            since |-> Older(beat[n].since, Gossip + lag)]]
    /\ UNCHANGED <<up, joined, owes, inbox>>

Crash(n) ==
    /\ n \in MayCrash \cap up
    /\ up' = up \ {n}
    /\ table' = [table EXCEPT ![n] = <<Self(n)>>]
    /\ beat' = [beat EXCEPT ![n] = Started]
    /\ owes' = [owes EXCEPT ![n] = NoNode]
    /\ inbox' = [inbox EXCEPT ![n] = <<>>]
    /\ UNCHANGED joined

\* A new process under the same configured node id.
Restart(n) ==
    /\ n \in Node \ up
    /\ up' = up \cup {n}
    /\ joined' = (joined \ {n}) \cup {Seed}
    /\ UNCHANGED <<table, beat, owes, inbox>>

GossipThread(n) == Handle(n) \/ Answer(n)
HeartbeatThread(n) == ReadNow(n) \/ Age(n) \/ SendPings(n) \/ SkipPings(n)

Next ==
    \/ \E n \in Node :
        \/ SendJoin(n) \/ GossipThread(n) \/ HeartbeatThread(n)
        \/ Crash(n) \/ Restart(n)
    \/ Tick

Spec == Init /\ [][Next]_vars

\* The threads of a running process are scheduled, and time passes.  Crashes
\* and restarts are not forced.
LiveSpec ==
    /\ Spec
    /\ \A n \in Node : WF_vars(SendJoin(n)) /\ WF_inbox(Receive(n))
                        /\ WF_owes(Finish(n)) /\ WF_beat(Proceed(n))
    /\ WF_vars(Tick)

-----------------------------------------------------------------------------
(* Properties *)

TypeOK ==
    /\ up \subseteq Node /\ joined \subseteq Node
    /\ \A n \in Node : table[n] \in Seq(Entry) /\ Len(table[n]) <= MaxNodes
    /\ beat \in [Node -> [pc : {"sleep", "awake", "age", "gossip"}, lag : 0 .. MaxLag,
                         since : 0 .. Gossip + MaxLag]]
    /\ owes \in [Node -> Node \cup {NoNode}]

Knows(n, m) == \E i \in 1 .. Len(table[n]) : table[n][i].id = m
Believes(n, m, state) ==
    \E i \in 1 .. Len(table[n]) : table[n][i].id = m /\ table[n][i].state = state

\* A node's own entry is the first of its table and stays ALIVE, whatever
\* its peers believe and gossip about it: cluster_get_owner finds the node's
\* own range at once.
SelfAlive ==
    \A n \in Node : table[n][1].id = n /\ table[n][1].state = "ALIVE"

\* An id has one entry, so a page has one owner per node that serves it.
OneEntryPerNode ==
    \A n \in Node : \A i, j \in 1 .. Len(table[n]) :
        table[n][i].id = table[n][j].id => i = j

\* A running process never moves or drops an entry: get_peer_connection
\* caches connections by table index.
IndexStable ==
    [][\A n \in up \cap up' : \A i \in 1 .. Len(table[n]) :
           i <= Len(table'[n]) /\ table'[n][i].id = table[n][i].id]_vars

\* "A peer silent for half the timeout moves from ALIVE to SUSPECT.  A peer
\* silent past the full timeout moves to DEAD." (README.md), with what a late
\* round does: "now" was read before the lock was taken, so an entry refreshed
\* since then looks older than any timeout.  No other entry is degraded
\* early, and none at all when rounds are prompt.
DegradedWhenSilentOrLate ==
    [][\A n \in up \cap up' : \A i \in 1 .. Len(table[n]) :
           LET old  == table[n][i]
               new  == table'[n][i]
               late == old.age < beat[n].lag IN
           /\ old.state # "SUSPECT" /\ new.state = "SUSPECT" =>
                  late \/ old.age > Timeout \div 2
           /\ old.state # "DEAD" /\ new.state = "DEAD" =>
                  late \/ old.age > Timeout]_vars

\* "A peer silent past the full timeout moves to DEAD." (README.md): a peer
\* that stays crashed is not believed ALIVE or SUSPECT for ever.
CrashedBecomesDead ==
    \A n \in Node, m \in MayCrash : n # m =>
        (<>[](n \in up /\ m \notin up /\ Knows(n, m)) => <>Believes(n, m, "DEAD"))

\* Every node learns of every other: the joiner from the seed's PONG, the
\* others from the PONGs that answer their PINGs.
EveryoneKnown == <>(\A n, m \in Node : Knows(n, m))
=============================================================================
