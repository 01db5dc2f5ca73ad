-------------------------- MODULE MembershipProofs --------------------------
(***************************************************************************)
(* Proofs about the node tables of Membership, for every number of nodes   *)
(* and every network: what merging a message keeps, by induction over its  *)
(* entries; the inductive invariant; and what a step may do to an entry.   *)
(***************************************************************************)
EXTENDS Membership, WellFoundedInduction, NaturalsInduction, TLAPS

-----------------------------------------------------------------------------
(* Induction over the naturals *)

\* A nonempty set of naturals has a least element.
LEMMA Least ==
    ASSUME NEW T \in SUBSET Nat, T # {}
    PROVE  \E m \in T : \A k \in T : m <= k
<1>1. IsWellFoundedOn(OpToRel(<, Nat), Nat)
  BY NatLessThanWellFounded
<1>2. \E x \in T : \A y \in T : ~(<<y, x>> \in OpToRel(<, Nat))
  BY <1>1, WFMin
<1>3. \E x \in T : \A y \in T : ~(<<y, x>> \in {ss \in Nat \X Nat : ss[1] < ss[2]})
  BY Zenon, <1>2 DEF OpToRel
<1>4. PICK x \in T : \A y \in T : ~(<<y, x>> \in {ss \in Nat \X Nat : ss[1] < ss[2]})
  BY <1>3
<1>5. ASSUME NEW y \in T PROVE x <= y
  <2>1. ~(<<y, x>> \in {ss \in Nat \X Nat : ss[1] < ss[2]})
    BY <1>4
  <2>2. <<y, x>> \in Nat \X Nat /\ <<y, x>>[1] = y /\ <<y, x>>[2] = x
    OBVIOUS
  <2>3. ~(y < x)
    BY <2>1, <2>2
  <2> QED
    BY <2>3
<1> QED
  BY <1>5

\* A set with 0 and the successors of its naturals has all of them.  The
\* predicate of an induction is given as the set of numbers it holds for.
LEMMA Induction ==
    ASSUME NEW S, 0 \in S, \A n \in Nat : n \in S => n + 1 \in S
    PROVE  Nat \subseteq S
<1> SUFFICES ASSUME Nat \ S # {} PROVE FALSE
  OBVIOUS
<1>1. PICK m \in Nat \ S : \A k \in Nat \ S : m <= k
  BY Least
<1>2. m # 0 /\ m - 1 \in Nat /\ ~(m <= m - 1)
  BY <1>1
<1>3. m - 1 \in S
  BY <1>1, <1>2
<1> QED
  BY <1>1, <1>2, <1>3

-----------------------------------------------------------------------------
(* merge_node *)

\* A table as merge_node keeps it: typed, within its capacity, the node
\* itself first and ALIVE, no id twice.
Table(n) ==
    {s \in Seq(Entry) :
        /\ Len(s) \in 1 .. MaxNodes
        /\ s[1].id = n /\ s[1].state = "ALIVE"
        /\ \A i, j \in 1 .. Len(s) : s[i].id = s[j].id => i = j}

\* What merging does to the entries of a table: they keep their places and
\* ids, and a state changes to ALIVE only.
Extends(s, t) ==
    /\ Len(s) <= Len(t)
    /\ \A i \in 1 .. Len(s) :
        t[i].id = s[i].id /\ t[i].state \in {s[i].state, "ALIVE"}

\* merge_node keeps a table a table, whatever is heard.
LEMMA MergeNodeKeeps ==
    ASSUME NEW n \in Node, NEW s \in Table(n), NEW node \in Entry
    PROVE  MergeNode(s, node) \in Table(n) /\ Extends(s, MergeNode(s, node))
<1> DEFINE found == FindNodeById(s, node.id)
           i     == CHOOSE i \in found : TRUE
<1>0. s \in Seq(Entry) /\ Len(s) \in 1 .. MaxNodes /\ Len(s) \in Nat
  BY DEF Table
<1>1. CASE found = {}
  <2>1. MergeNode(s, node) = AddNode(s, node)
    BY <1>1 DEF MergeNode
  <2>2. CASE Len(s) < MaxNodes
    <3> DEFINE new == [node EXCEPT !.age = 0]
               t   == Append(s, new)
    <3>1. new \in Entry /\ new.id = node.id
      BY MembershipAssumption DEF Entry, MaxAge
    <3>2. MergeNode(s, node) = t
      BY <2>1, <2>2 DEF AddNode
    <3> HIDE DEF new
    <3>3. /\ t \in Seq(Entry) /\ Len(t) = Len(s) + 1 /\ t[Len(t)] = new
          /\ \A j \in 1 .. Len(s) : t[j] = s[j]
      BY <1>0, <3>1
    <3>4. \A j \in 1 .. Len(s) : s[j].id # new.id
      BY <1>1, <3>1 DEF FindNodeById
    <3> HIDE DEF t
    <3>5. Len(t) \in 1 .. MaxNodes /\ 1 \in 1 .. Len(s)
      BY <1>0, <2>2, <3>3, MembershipAssumption
    <3>6. \A j, k \in 1 .. Len(t) : t[j].id = t[k].id => j = k
      BY <1>0, <3>3, <3>4 DEF Table
    <3> QED
      BY <1>0, <3>2, <3>3, <3>5, <3>6 DEF Table, Extends
  <2>3. CASE ~(Len(s) < MaxNodes)
    BY <2>1, <2>3, <1>0 DEF AddNode, Extends
  <2> QED
    BY <2>2, <2>3
<1>2. CASE found # {}
  <2>0. i \in found
    BY <1>2, Zenon
  <2>1. i \in 1 .. Len(s) /\ s[i].id = node.id
    <3> HIDE DEF i
    <3> QED
      BY <2>0 DEF FindNodeById
  <2>2. s[i] \in Entry /\ s[i].incarnation = 1 /\ node.incarnation = 1
    <3> HIDE DEF i
    <3>1. s[i] \in Entry
      BY <2>1, <1>0
    <3> QED
      BY <3>1 DEF Entry
  <2>3. MergeNode(s, node) = [s EXCEPT ![i] = Refresh(@, node)]
    BY <1>2, <2>2 DEF MergeNode
  <2> HIDE DEF i, found
  <2> DEFINE new == Refresh(s[i], node)
             t   == [s EXCEPT ![i] = new]
  <2>4. /\ new \in Entry /\ new.id = s[i].id
        /\ new.state \in {s[i].state, "ALIVE"}
    <3>1. s[i].age \in 0 .. MaxAge /\ 0 \in 0 .. MaxAge
      BY <2>2, MembershipAssumption DEF Entry, MaxAge
    <3>2. CASE node.state = "ALIVE"
      <4>1. new = [s[i] EXCEPT !.age = 0, !.state = "ALIVE"]
        BY <3>2 DEF Refresh
      <4> QED
        BY <2>2, <3>1, <4>1 DEF Entry, State
    <3>3. CASE node.state # "ALIVE"
      <4>1. new = [s[i] EXCEPT !.age = 0, !.state = @]
        BY <3>3 DEF Refresh
      <4> QED
        BY <2>2, <3>1, <4>1 DEF Entry, State
    <3> QED
      BY <3>2, <3>3
  <2>5. MergeNode(s, node) = t
    BY <2>3
  <2> HIDE DEF new
  <2>6. /\ t \in Seq(Entry) /\ Len(t) = Len(s) /\ t[i] = new
        /\ \A j \in 1 .. Len(s) : j # i => t[j] = s[j]
    BY <1>0, <2>1, <2>4
  <2> HIDE DEF t
  <2>7. \A j \in 1 .. Len(s) : t[j].id = s[j].id /\ t[j].state \in {s[j].state, "ALIVE"}
    BY <2>4, <2>6
  <2>8. 1 \in 1 .. Len(s) /\ s[1].id = n /\ s[1].state = "ALIVE"
    BY <1>0 DEF Table
  <2>9. \A j, k \in 1 .. Len(t) : t[j].id = t[k].id => j = k
    BY <2>6, <2>7 DEF Table
  <2> QED
    BY <1>0, <2>5, <2>6, <2>7, <2>8, <2>9 DEF Table, Extends
<1> QED
  BY <1>1, <1>2

\* f holds the tables the loop of handle_gossip_msg goes through.
Merges(f, s, nodes, n) ==
    f = [k \in 0 .. n |-> IF k = 0 THEN s ELSE MergeNode(f[k - 1], nodes[k])]

\* There is such a function, so the recursive definition defines one.
LEMMA MergedDefined ==
    ASSUME NEW s, NEW nodes, NEW n \in Nat
    PROVE  \E f : Merges(f, s, nodes, n)
<1> DEFINE S == {m \in Nat : \E f : Merges(f, s, nodes, m)}
<1> USE DEF Merges
<1>1. 0 \in S
  <2> DEFINE f == [k \in 0 .. 0 |-> s]
  <2>1. f = [k \in 0 .. 0 |-> IF k = 0 THEN s ELSE MergeNode(f[k - 1], nodes[k])]
    OBVIOUS
  <2> QED
    BY <2>1
<1>2. ASSUME NEW m \in Nat, m \in S PROVE m + 1 \in S
  <2>1. PICK f : f = [k \in 0 .. m |->
                         IF k = 0 THEN s ELSE MergeNode(f[k - 1], nodes[k])]
    BY <1>2
  <2> DEFINE g == [k \in 0 .. m + 1 |->
                      IF k = m + 1 THEN MergeNode(f[m], nodes[k]) ELSE f[k]]
  <2>2. ASSUME NEW k \in 0 .. m + 1
        PROVE  g[k] = IF k = 0 THEN s ELSE MergeNode(g[k - 1], nodes[k])
    <3>1. CASE k = m + 1
      BY <3>1
    <3>2. CASE k \in 0 .. m
      <4>1. g[k] = f[k]
        BY <3>2
      <4>2. f[k] = IF k = 0 THEN s ELSE MergeNode(f[k - 1], nodes[k])
        BY <2>1, <3>2, Zenon
      <4>3. k # 0 => g[k - 1] = f[k - 1]
        BY <3>2
      <4> QED
        BY <4>1, <4>2, <4>3
    <3> QED
      BY <3>1, <3>2
  <2>3. g = [k \in 0 .. m + 1 |-> g[k]]
    OBVIOUS
  <2>4. g = [k \in 0 .. m + 1 |-> IF k = 0 THEN s ELSE MergeNode(g[k - 1], nodes[k])]
    <3> HIDE DEF g
    <3> QED
      BY <2>2, <2>3, Zenon
  <2> HIDE DEF g
  <2> QED
    BY <2>4
<1> HIDE DEF S
<1>3. n \in S
  BY <1>1, <1>2, Induction
<1> QED
  BY <1>3 DEF S

\* Merging composes.
LEMMA ExtendsTransitive ==
    ASSUME NEW s \in Seq(Entry), NEW t \in Seq(Entry), NEW u \in Seq(Entry),
           Extends(s, t), Extends(t, u)
    PROVE  Extends(s, u)
<1>1. Len(s) \in Nat /\ Len(t) \in Nat /\ Len(u) \in Nat
  OBVIOUS
<1>2. Len(s) <= Len(t) /\ Len(t) <= Len(u)
  BY DEF Extends
<1>3. Len(s) <= Len(u)
  BY <1>1, <1>2
<1>4. ASSUME NEW i \in 1 .. Len(s)
      PROVE  u[i].id = s[i].id /\ u[i].state \in {s[i].state, "ALIVE"}
  <2>1. i \in 1 .. Len(t)
    BY <1>1, <1>2
  <2>2. u[i].id = t[i].id /\ u[i].state \in {t[i].state, "ALIVE"}
    BY <2>1 DEF Extends
  <2>3. t[i].id = s[i].id /\ t[i].state \in {s[i].state, "ALIVE"}
    BY DEF Extends
  <2> QED
    BY <2>2, <2>3
<1> QED
  BY <1>3, <1>4 DEF Extends

\* So do the nodes of a whole datagram.
LEMMA MergeNodesKeeps ==
    ASSUME NEW n \in Node, NEW s \in Table(n), NEW nodes \in Seq(Entry)
    PROVE  MergeNodes(s, nodes) \in Table(n) /\ Extends(s, MergeNodes(s, nodes))
<1> DEFINE merged == CHOOSE f : f = [k \in 0 .. Len(nodes) |->
                         IF k = 0 THEN s ELSE MergeNode(f[k - 1], nodes[k])]
           S == {k \in Nat : k <= Len(nodes) =>
                    merged[k] \in Table(n) /\ Extends(s, merged[k])}
<1>1. MergeNodes(s, nodes) = merged[Len(nodes)]
  BY DEF MergeNodes
<1>2. Len(nodes) \in Nat
  OBVIOUS
<1>3. merged = [k \in 0 .. Len(nodes) |->
                  IF k = 0 THEN s ELSE MergeNode(merged[k - 1], nodes[k])]
  <2>1. \E f : Merges(f, s, nodes, Len(nodes))
    BY <1>2, MergedDefined
  <2> QED
    BY <2>1, Zenon DEF Merges
<1> HIDE DEF merged
<1>4. 0 \in S
  <2>1. merged[0] = s
    BY <1>2, <1>3
  <2>2. Extends(s, s)
    BY DEF Extends, Table
  <2> QED
    BY <2>1, <2>2
<1>5. ASSUME NEW k \in Nat, k \in S PROVE k + 1 \in S
  <2> SUFFICES ASSUME k + 1 <= Len(nodes)
               PROVE  merged[k + 1] \in Table(n) /\ Extends(s, merged[k + 1])
    OBVIOUS
  <2>1. k <= Len(nodes) /\ k + 1 \in 1 .. Len(nodes) /\ k + 1 \in 0 .. Len(nodes)
        /\ k + 1 # 0 /\ (k + 1) - 1 = k
    BY <1>2
  <2>2. merged[k] \in Table(n) /\ Extends(s, merged[k])
    BY <1>5, <2>1
  <2>3. merged[k + 1] = MergeNode(merged[k], nodes[k + 1])
    BY <1>3, <2>1, Zenon
  <2>4. nodes[k + 1] \in Entry
    BY <2>1
  <2>5. merged[k + 1] \in Table(n) /\ Extends(merged[k], merged[k + 1])
    BY <2>2, <2>3, <2>4, MergeNodeKeeps
  <2>6. s \in Seq(Entry) /\ merged[k] \in Seq(Entry) /\ merged[k + 1] \in Seq(Entry)
    BY <2>2, <2>5 DEF Table
  <2> QED
    BY <2>2, <2>5, <2>6, ExtendsTransitive
<1> HIDE DEF S
<1>6. Len(nodes) \in S
  BY <1>2, <1>4, <1>5, Induction
<1> QED
  BY <1>1, <1>2, <1>6 DEF S

-----------------------------------------------------------------------------
(* The inductive invariant *)

Datagram == [type : {"PING", "JOIN", "PONG"}, src : Node, dst : Node, nodes : Seq(Entry)]
Beat     == [pc : {"sleep", "awake", "age", "gossip"}, lag : 0 .. MaxLag,
             since : 0 .. Gossip + MaxLag]

\* The tables are tables, what is in flight are datagrams, and the threads of
\* a process that is down are not in the middle of a round.
IInv ==
    /\ up \subseteq Node /\ joined \subseteq Node
    /\ table \in [Node -> Seq(Entry)] /\ \A n \in Node : table[n] \in Table(n)
    /\ beat \in [Node -> Beat]
    /\ \A n \in Node \ up : beat[n].pc \in {"sleep", "awake"}
    /\ owes \in [Node -> Node \cup {NoNode}]
    /\ inbox \in [Node -> Seq(Datagram)]

\* What a step may do to entry i of node n's table.
Follows(n, i) ==
    /\ i <= Len(table'[n]) /\ table'[n][i].id = table[n][i].id
    /\ \/ table'[n][i].state \in {table[n][i].state, "ALIVE"}
       \/ /\ table[n][i].age < beat[n].lag \/ table[n][i].age > Timeout \div 2
          /\ table'[n][i].state = "SUSPECT"
       \/ /\ table[n][i].age < beat[n].lag \/ table[n][i].age > Timeout
          /\ table'[n][i].state = "DEAD"

Steady == \A n \in up \cap up' : \A i \in 1 .. Len(table[n]) : Follows(n, i)

\* A node's own entry, as cluster_create fills it in.
LEMMA SelfTable ==
    ASSUME NEW n \in Node
    PROVE  Self(n) \in Entry /\ <<Self(n)>> \in Table(n)
<1>1. Self(n) \in Entry /\ Self(n).id = n /\ Self(n).state = "ALIVE"
  BY MembershipAssumption DEF Self, Entry, State, MaxAge
<1> DEFINE s == <<Self(n)>>
<1> HIDE DEF Self
<1>2. s \in Seq(Entry) /\ Len(s) = 1 /\ s[1] = Self(n)
  BY <1>1
<1>3. Len(s) \in 1 .. MaxNodes
  BY <1>2, MembershipAssumption
<1>4. \A i, j \in 1 .. Len(s) : s[i].id = s[j].id => i = j
  BY <1>2
<1> QED
  BY <1>1, <1>2, <1>3, <1>4 DEF Table

\* The heartbeat thread starts within its bounds.
LEMMA StartedTyped == Started \in Beat /\ Started.pc = "sleep"
  BY MembershipAssumption DEF Started, Asleep, Beat

\* The servers start with tables of one entry.
LEMMA InitInductive == Init => IInv
<1> SUFFICES ASSUME Init PROVE IInv
  OBVIOUS
<1>1. up \subseteq Node /\ joined \subseteq Node /\ Node \ up = {}
  BY MembershipAssumption DEF Init
<1>2. table \in [Node -> Seq(Entry)] /\ \A n \in Node : table[n] \in Table(n)
  <2>1. \A n \in Node : <<Self(n)>> \in Seq(Entry) /\ <<Self(n)>> \in Table(n)
    BY SelfTable DEF Table
  <2> QED
    BY <2>1 DEF Init
<1>3. beat \in [Node -> Beat]
  BY StartedTyped DEF Init
<1>4. owes \in [Node -> Node \cup {NoNode}]
  BY DEF Init
<1>5. inbox \in [Node -> Seq(Datagram)]
  BY DEF Init
<1> QED
  BY <1>1, <1>2, <1>3, <1>4, <1>5 DEF IInv

-----------------------------------------------------------------------------
(* Datagrams *)

\* Every entry of a message is one of a table.
LEMMA PingTyped ==
    ASSUME NEW n \in Node, NEW m \in Node
    PROVE  Ping(n, m) \in Datagram
<1>1. <<>> \in Seq(Entry)
  OBVIOUS
<1> QED
  BY <1>1 DEF Ping, Message, Datagram

\* last_seen does not travel.
LEMMA OnWireTyped ==
    ASSUME NEW e \in Entry
    PROVE  OnWire(e) \in Entry
  BY MembershipAssumption DEF OnWire, Entry, MaxAge

\* A JOIN carries the sender.
LEMMA JoinTyped ==
    ASSUME NEW n \in Node, NEW m \in Node
    PROVE  Join(n, m) \in Datagram
<1>1. OnWire(Self(n)) \in Entry
  BY SelfTable, OnWireTyped
<1> DEFINE e == OnWire(Self(n))
<1> HIDE DEF e
<1>2. <<e>> \in Seq(Entry)
  BY <1>1 DEF e
<1> QED
  BY <1>2 DEF Join, Message, Datagram, e

\* A PONG carries the first entries of the table, as many as fit.
LEMMA PongTyped ==
    ASSUME IInv, NEW n \in Node, NEW m \in Node
    PROVE  Pong(n, m) \in Datagram
<1> DEFINE count == IF Len(table[n]) > MsgMaxNodes THEN MsgMaxNodes ELSE Len(table[n])
           nodes == [i \in 1 .. count |-> OnWire(table[n][i])]
<1>1. table[n] \in Seq(Entry) /\ Len(table[n]) \in Nat
  BY DEF IInv
<1>2. count \in Nat /\ count <= Len(table[n])
  BY <1>1, MembershipAssumption
<1>3. Pong(n, m) = Message("PONG", n, m, nodes)
  BY DEF Pong
<1> HIDE DEF count
<1>4. \A i \in 1 .. count : OnWire(table[n][i]) \in Entry
  BY <1>1, <1>2, OnWireTyped
<1>5. nodes \in Seq(Entry)
  BY <1>2, <1>4
<1> HIDE DEF nodes
<1> QED
  BY <1>3, <1>5 DEF Message, Datagram

\* Whatever the network does to them, only datagrams are in flight.
LEMMA SendTyped ==
    ASSUME IInv, NEW msgs \in SUBSET Datagram, Send(msgs)
    PROVE  inbox' \in [Node -> Seq(Datagram)]
<1>1. PICK lost \in (IF Unreliable THEN SUBSET msgs ELSE {{}}) :
        \E early \in IF Unreliable THEN SUBSET (msgs \ lost) ELSE {{}} :
        inbox' = [m \in Node |->
            LET new == {msg \in msgs \ lost : msg.dst = m /\ msg \notin Range(inbox[m])} IN
            IF new = {} \/ m \notin up \/ Len(inbox[m]) >= InboxMax THEN inbox[m]
            ELSE LET msg == CHOOSE msg \in new : TRUE IN
                 IF msg \in early THEN <<msg>> \o inbox[m] ELSE Append(inbox[m], msg)]
  BY Zenon DEF Send
<1>2. PICK early \in (IF Unreliable THEN SUBSET (msgs \ lost) ELSE {{}}) :
        inbox' = [m \in Node |->
            LET new == {msg \in msgs \ lost : msg.dst = m /\ msg \notin Range(inbox[m])} IN
            IF new = {} \/ m \notin up \/ Len(inbox[m]) >= InboxMax THEN inbox[m]
            ELSE LET msg == CHOOSE msg \in new : TRUE IN
                 IF msg \in early THEN <<msg>> \o inbox[m] ELSE Append(inbox[m], msg)]
  BY <1>1, Zenon
<1>3. ASSUME NEW m \in Node PROVE inbox'[m] \in Seq(Datagram)
  <2> DEFINE new == {msg \in msgs \ lost : msg.dst = m /\ msg \notin Range(inbox[m])}
             msg == CHOOSE msg \in new : TRUE
  <2>1. inbox[m] \in Seq(Datagram)
    BY DEF IInv
  <2>2. CASE new = {} \/ m \notin up \/ Len(inbox[m]) >= InboxMax
    <3>1. inbox'[m] = inbox[m]
      BY <1>2, <2>2, Zenon
    <3> QED
      BY <2>1, <3>1
  <2>3. CASE ~(new = {} \/ m \notin up \/ Len(inbox[m]) >= InboxMax)
    <3>1. inbox'[m] = IF msg \in early THEN <<msg>> \o inbox[m] ELSE Append(inbox[m], msg)
      BY <1>2, <2>3, Zenon
    <3>2. msg \in new
      BY <2>3, Zenon
    <3> HIDE DEF msg
    <3>3. msg \in Datagram
      BY <3>2
    <3> HIDE DEF new
    <3>4. <<msg>> \o inbox[m] \in Seq(Datagram) /\ Append(inbox[m], msg) \in Seq(Datagram)
      BY <2>1, <3>3
    <3> QED
      BY <3>1, <3>4
  <2> QED
    BY <2>2, <2>3
<1> QED
  BY <1>2, <1>3, Zenon

-----------------------------------------------------------------------------
(* The steps *)

\* A step that leaves the tables alone.
LEMMA TablesUnchanged ==
    ASSUME IInv, table' = table
    PROVE  Steady
<1>1. ASSUME NEW n \in Node, NEW i \in 1 .. Len(table[n])
      PROVE  Follows(n, i)
  <2>1. table[n] \in Seq(Entry)
    BY DEF IInv
  <2>2. i <= Len(table[n])
    BY <2>1
  <2> QED
    BY <2>2 DEF Follows
<1> QED
  BY <1>1 DEF Steady, IInv

\* A step that replaces one table by an extension of it.
LEMMA TableExtended ==
    ASSUME IInv, NEW n \in Node, NEW t \in Table(n), Extends(table[n], t),
           table' = [table EXCEPT ![n] = t]
    PROVE  /\ table' \in [Node -> Seq(Entry)] /\ \A m \in Node : table'[m] \in Table(m)
           /\ Steady
<1>1. /\ table \in [Node -> Seq(Entry)] /\ t \in Seq(Entry)
      /\ table'[n] = t /\ \A m \in Node : m # n => table'[m] = table[m]
  BY DEF IInv, Table
<1>2. table' \in [Node -> Seq(Entry)] /\ \A m \in Node : table'[m] \in Table(m)
  BY <1>1 DEF IInv
<1>3. ASSUME NEW m \in Node, NEW i \in 1 .. Len(table[m])
      PROVE  Follows(m, i)
  <2>1. table[m] \in Seq(Entry) /\ Len(table[m]) \in Nat /\ Len(t) \in Nat
    BY <1>1
  <2>2. CASE m = n
    BY <1>1, <2>1, <2>2 DEF Follows, Extends
  <2>3. CASE m # n
    BY <1>1, <2>1, <2>3 DEF Follows
  <2> QED
    BY <2>2, <2>3
<1> QED
  BY <1>2, <1>3 DEF Steady, IInv

\* cluster_join.
LEMMA SendJoinKeeps ==
    ASSUME IInv, NEW n \in Node, SendJoin(n)
    PROVE  IInv' /\ Steady
<1>1. Join(n, Seed) \in Datagram
  BY JoinTyped, MembershipAssumption
<1>2. inbox' \in [Node -> Seq(Datagram)]
  <2>1. {Join(n, Seed)} \in SUBSET Datagram /\ Send({Join(n, Seed)})
    BY <1>1 DEF SendJoin
  <2> QED
    BY <2>1, SendTyped
<1>3. /\ joined' \subseteq Node
      /\ up' = up /\ table' = table /\ beat' = beat /\ owes' = owes
  BY DEF SendJoin, IInv
<1> QED
  BY <1>2, <1>3, TablesUnchanged DEF IInv

\* handle_gossip_msg: the sender, then the nodes it lists.
LEMMA HandleKeeps ==
    ASSUME IInv, NEW n \in Node, Handle(n)
    PROVE  IInv' /\ Steady
<1> DEFINE msg == Head(inbox[n])
           s1  == MergeNode(table[n], Self(msg.src))
           s2  == MergeNodes(s1, msg.nodes)
<1>1. inbox \in [Node -> Seq(Datagram)] /\ inbox[n] \in Seq(Datagram) /\ inbox[n] # <<>>
  BY DEF IInv, Handle, Receive
<1>2. msg \in Datagram /\ Tail(inbox[n]) \in Seq(Datagram)
  <2> HIDE DEF msg
  <2>1. Head(inbox[n]) \in Datagram /\ Tail(inbox[n]) \in Seq(Datagram)
    <3> DEFINE D == Datagram
    <3> HIDE DEF D
    <3>1. inbox[n] \in Seq(D) /\ inbox[n] # <<>>
      BY <1>1 DEF D
    <3>2. Head(inbox[n]) \in D /\ Tail(inbox[n]) \in Seq(D)
      BY <3>1
    <3> QED
      BY <3>2 DEF D
  <2> QED
    BY <2>1 DEF msg
<1>3. /\ table' = [table EXCEPT ![n] = s2]
      /\ owes' = [owes EXCEPT ![n] = IF msg.type \in {"PING", "JOIN"}
                                     THEN msg.src ELSE NoNode]
      /\ inbox' = [inbox EXCEPT ![n] = Tail(inbox[n])] \/ inbox' = inbox
      /\ up' = up /\ joined' = joined /\ beat' = beat
  BY DEF Handle, Receive
<1> HIDE DEF msg
<1>4. msg.src \in Node /\ msg.nodes \in Seq(Entry)
  BY <1>2 DEF Datagram
<1>5. table[n] \in Table(n) /\ Self(msg.src) \in Entry
  BY <1>4, SelfTable DEF IInv
<1>6. s1 \in Table(n) /\ Extends(table[n], s1)
  BY <1>5, MergeNodeKeeps
<1> HIDE DEF s1
<1>7. s2 \in Table(n) /\ Extends(s1, s2)
  BY <1>4, <1>6, MergeNodesKeeps
<1> HIDE DEF s2
<1>8. table[n] \in Seq(Entry) /\ s1 \in Seq(Entry) /\ s2 \in Seq(Entry)
  BY <1>5, <1>6, <1>7 DEF Table
<1>9. Extends(table[n], s2)
  BY <1>6, <1>7, <1>8, ExtendsTransitive
<1>10. /\ table' \in [Node -> Seq(Entry)] /\ \A m \in Node : table'[m] \in Table(m)
       /\ Steady
  BY <1>3, <1>7, <1>9, TableExtended
<1>11. inbox' \in [Node -> Seq(Datagram)]
  BY <1>1, <1>2, <1>3
<1>12. owes' \in [Node -> Node \cup {NoNode}]
  BY <1>3, <1>4 DEF IInv
<1> QED
  BY <1>3, <1>10, <1>11, <1>12 DEF IInv

\* The PONG.
LEMMA AnswerKeeps ==
    ASSUME IInv, NEW n \in Node, Answer(n)
    PROVE  IInv' /\ Steady
<1>1. owes[n] \in Node
  BY DEF IInv, Answer, Finish
<1>2. Pong(n, owes[n]) \in Datagram
  BY <1>1, PongTyped
<1>3. inbox' \in [Node -> Seq(Datagram)]
  <2>1. {Pong(n, owes[n])} \in SUBSET Datagram /\ Send({Pong(n, owes[n])})
    BY <1>2 DEF Answer
  <2> QED
    BY <2>1, SendTyped
<1>4. /\ owes' = [owes EXCEPT ![n] = NoNode]
      /\ up' = up /\ table' = table /\ beat' = beat /\ joined' = joined
  BY DEF Answer, Finish
<1>5. owes' \in [Node -> Node \cup {NoNode}]
  BY <1>4 DEF IInv
<1> QED
  BY <1>3, <1>4, <1>5, TablesUnchanged DEF IInv

\* The heartbeat thread keeps within its bounds.
LEMMA ProceedKeeps ==
    ASSUME IInv, NEW n \in Node, Proceed(n)
    PROVE  /\ beat' \in [Node -> Beat]
           /\ \A m \in Node \ up : beat'[m].pc \in {"sleep", "awake"}
<1> DEFINE b == CASE beat[n].pc = "awake"  -> [beat[n] EXCEPT !.pc = "age"]
                  [] beat[n].pc = "age"    -> [beat[n] EXCEPT !.pc = "gossip"]
                  [] beat[n].pc = "gossip" ->
                        Asleep(IF GossipDue(n) THEN beat[n].lag ELSE beat[n].since)
<1>1. /\ n \in up /\ beat[n].pc # "sleep"
      /\ beat' = [beat EXCEPT ![n] = b]
  BY DEF Proceed
<1>2. beat[n] \in Beat /\ beat \in [Node -> Beat]
  BY DEF IInv
<1>3. b \in Beat
  <2>1. CASE beat[n].pc = "awake"
    BY <1>2, <2>1 DEF Beat
  <2>2. CASE beat[n].pc = "age"
    BY <1>2, <2>2 DEF Beat
  <2>3. CASE beat[n].pc = "gossip"
    <3>1. beat[n].lag \in 0 .. Gossip + MaxLag /\ beat[n].since \in 0 .. Gossip + MaxLag
          /\ 0 \in 0 .. MaxLag
      BY <1>2, MembershipAssumption DEF Beat
    <3>2. \A since \in 0 .. Gossip + MaxLag : Asleep(since) \in Beat
      BY <3>1 DEF Asleep, Beat
    <3>3. b = Asleep(IF GossipDue(n) THEN beat[n].lag ELSE beat[n].since)
      BY <2>3
    <3> QED
      BY <3>1, <3>2, <3>3, Zenon
  <2> QED
    BY <1>1, <1>2, <2>1, <2>2, <2>3 DEF Beat
<1> HIDE DEF b
<1> QED
  BY <1>1, <1>2, <1>3 DEF IInv

\* "now" is read, or the gossip interval has not passed.
LEMMA ReadNowKeeps ==
    ASSUME IInv, NEW n \in Node, ReadNow(n) \/ SkipPings(n)
    PROVE  IInv' /\ Steady
<1>1. /\ Proceed(n)
      /\ up' = up /\ joined' = joined /\ table' = table /\ owes' = owes /\ inbox' = inbox
  BY DEF ReadNow, SkipPings
<1> QED
  BY <1>1, ProceedKeeps, TablesUnchanged DEF IInv

\* Only peers in the table are pinged.
LEMMA SendPingsKeeps ==
    ASSUME IInv, NEW n \in Node, SendPings(n)
    PROVE  IInv' /\ Steady
<1>1. PingTargets(n) \subseteq Node
  <2>1. table[n] \in Seq(Entry)
    BY DEF IInv
  <2>2. \A i \in 1 .. Len(table[n]) : table[n][i].id \in Node
    <3>1. \A i \in 1 .. Len(table[n]) : table[n][i] \in Entry
      BY <2>1
    <3> QED
      BY <3>1 DEF Entry
  <2> QED
    BY <2>2, Zenon DEF PingTargets
<1>2. {Ping(n, m) : m \in PingTargets(n)} \in SUBSET Datagram
  BY <1>1, PingTyped
<1>3. /\ Proceed(n) /\ Send({Ping(n, m) : m \in PingTargets(n)})
      /\ up' = up /\ joined' = joined /\ table' = table /\ owes' = owes
  BY DEF SendPings
<1>4. inbox' \in [Node -> Seq(Datagram)]
  BY <1>2, <1>3, SendTyped
<1> QED
  BY <1>3, <1>4, ProceedKeeps, TablesUnchanged DEF IInv

\* The thresholds of heartbeat_loop: a late "now" makes elapsed negative, so
\* huge.
LEMMA AgedBounds ==
    ASSUME NEW state \in State, NEW age \in Nat, NEW lag \in Nat
    PROVE  \/ Aged(state, age - lag) = state
           \/ Aged(state, age - lag) = "SUSPECT" /\ (age < lag \/ age > Timeout \div 2)
           \/ Aged(state, age - lag) = "DEAD" /\ (age < lag \/ age > Timeout)
<1>1. Timeout \div 2 \in Nat /\ Timeout \in Nat
  BY MembershipAssumption
<1> DEFINE half == Timeout \div 2
           e    == age - lag
<1>2. half \in Nat
  BY <1>1
<1> HIDE DEF half
<1>3. e \in Int /\ (e < 0 => age < lag) /\ (e > half => age > half)
      /\ (e > Timeout => age > Timeout)
  BY <1>1, <1>2
<1> HIDE DEF e
<1>4. Aged(state, e) =
        IF state = "ALIVE" /\ (e < 0 \/ e > half) THEN "SUSPECT"
        ELSE IF state = "SUSPECT" /\ (e < 0 \/ e > Timeout) THEN "DEAD" ELSE state
  BY DEF Aged, half
<1>5. \/ Aged(state, e) = state
      \/ Aged(state, e) = "SUSPECT" /\ (age < lag \/ age > half)
      \/ Aged(state, e) = "DEAD" /\ (age < lag \/ age > Timeout)
  BY <1>3, <1>4
<1> QED
  BY <1>5 DEF e, half

\* A table that keeps its length, its ids and the own entry is a table.
LEMMA SameIdsTable ==
    ASSUME NEW n \in Node, NEW s \in Table(n), NEW t \in Seq(Entry), Len(t) = Len(s),
           t[1] = s[1], \A i \in 1 .. Len(s) : t[i].id = s[i].id
    PROVE  t \in Table(n)
<1>1. \A i, j \in 1 .. Len(t) : t[i].id = t[j].id => i = j
  BY DEF Table
<1> QED
  BY <1>1 DEF Table

\* The aging loop of heartbeat_loop.
LEMMA AgeKeeps ==
    ASSUME IInv, NEW n \in Node, Age(n)
    PROVE  IInv' /\ Steady
<1> DEFINE s == table[n]
           new(i) == IF i = 1 THEN s[i]
                     ELSE AgedEntry(s[i], beat[n].lag)
           t == [i \in 1 .. Len(s) |-> new(i)]
<1>1. /\ Proceed(n) /\ table' = [table EXCEPT ![n] = t]
      /\ up' = up /\ joined' = joined /\ owes' = owes /\ inbox' = inbox
  BY DEF Age
<1>2. /\ s \in Seq(Entry) /\ s \in Table(n) /\ Len(s) \in Nat /\ Len(s) >= 1
      /\ beat[n] \in Beat /\ table \in [Node -> Seq(Entry)]
  BY DEF IInv, Table
<1> HIDE DEF s
<1>3. ASSUME NEW i \in 1 .. Len(s)
      PROVE  /\ new(i) \in Entry /\ new(i).id = s[i].id
             /\ \/ new(i).state = s[i].state
                \/ new(i).state = "SUSPECT"
                   /\ (s[i].age < beat[n].lag \/ s[i].age > Timeout \div 2)
                \/ new(i).state = "DEAD"
                   /\ (s[i].age < beat[n].lag \/ s[i].age > Timeout)
  <2>1. s[i] \in Entry
    BY <1>2
  <2>2. s[i].state \in State /\ s[i].age \in Nat /\ beat[n].lag \in Nat
    <3>1. s[i].state \in State /\ s[i].age \in 0 .. MaxAge /\ beat[n].lag \in 0 .. MaxLag
      BY <1>2, <2>1 DEF Entry, Beat
    <3> QED
      BY <3>1
  <2>3. CASE i = 1
    BY <2>1, <2>3
  <2>4. CASE i # 1
    <3> DEFINE a == Aged(s[i].state, s[i].age - beat[n].lag)
    <3>1. \/ a = s[i].state
          \/ a = "SUSPECT" /\ (s[i].age < beat[n].lag \/ s[i].age > Timeout \div 2)
          \/ a = "DEAD" /\ (s[i].age < beat[n].lag \/ s[i].age > Timeout)
      BY <2>2, AgedBounds
    <3>2. new(i) = [s[i] EXCEPT !.state = a]
      BY <2>4 DEF AgedEntry
    <3> HIDE DEF a, new
    <3>3. a \in State
      BY <2>2, <3>1 DEF State
    <3>4. new(i) \in Entry /\ new(i).id = s[i].id /\ new(i).state = a
      BY <2>1, <3>2, <3>3 DEF Entry
    <3> QED
      BY <3>1, <3>4
  <2> QED
    BY <2>3, <2>4
<1>4. new(1) = s[1]
  OBVIOUS
<1> HIDE DEF new
<1>5. t \in Seq(Entry) /\ Len(t) = Len(s) /\ \A i \in 1 .. Len(s) : t[i] = new(i)
  BY <1>2, <1>3
<1> HIDE DEF t
<1>6. t \in Table(n)
  <2>1. t[1] = s[1]
    BY <1>2, <1>4, <1>5
  <2> QED
    BY <1>2, <1>3, <1>5, <2>1, SameIdsTable
<1>7. /\ table'[n] = t /\ \A m \in Node : m # n => table'[m] = table[m]
  BY <1>1, <1>2
<1>8. table' \in [Node -> Seq(Entry)] /\ \A m \in Node : table'[m] \in Table(m)
  BY <1>1, <1>2, <1>5, <1>6, <1>7 DEF IInv
<1>9. ASSUME NEW m \in Node, NEW i \in 1 .. Len(table[m])
      PROVE  Follows(m, i)
  <2>1. table[m] \in Seq(Entry) /\ i <= Len(table[m])
    BY <1>2
  <2>2. CASE m = n
    <3>1. i \in 1 .. Len(s) /\ table'[n][i] = new(i) /\ i <= Len(t)
      BY <1>5, <1>7, <2>1, <2>2 DEF s
    <3> QED
      BY <1>3, <1>7, <2>2, <3>1 DEF Follows, s
  <2>3. CASE m # n
    BY <1>7, <2>1, <2>3 DEF Follows
  <2> QED
    BY <2>2, <2>3
<1>10. Steady
  BY <1>9 DEF Steady, IInv
<1> QED
  BY <1>1, <1>8, <1>10, ProceedKeeps DEF IInv

\* Time passes: ages and lags grow, up to their bounds.
LEMMA TickKeeps ==
    ASSUME IInv, Tick
    PROVE  IInv' /\ Steady
<1> DEFINE lag(n) == IF beat[n].pc \in {"age", "gossip"} THEN beat[n].lag + 1 ELSE 0
           b(n)   == [pc    |-> IF beat[n].pc = "sleep" THEN "awake" ELSE beat[n].pc,
                      lag   |-> lag(n),
                      since |-> Older(beat[n].since, Gossip + lag(n))]
           new(n, i) == IF i = 1 \/ ~Aging THEN table[n][i]
                        ELSE [table[n][i] EXCEPT !.age = Older(@, MaxAge)]
           t(n)      == [i \in 1 .. Len(table[n]) |-> new(n, i)]
<1>1. /\ \A n \in up : beat[n].pc \in {"age", "gossip"} => beat[n].lag < MaxLag
      /\ table' = [n \in Node |-> t(n)] /\ beat' = [n \in Node |-> b(n)]
      /\ up' = up /\ joined' = joined /\ owes' = owes /\ inbox' = inbox
  BY DEF Tick
<1>2. ASSUME NEW n \in Node
      PROVE  b(n) \in Beat /\ (n \notin up => b(n).pc = "awake")
  <2>1. /\ beat[n].pc \in {"sleep", "awake", "age", "gossip"} /\ beat[n].lag \in 0 .. MaxLag
        /\ beat[n].since \in 0 .. Gossip + MaxLag
    BY DEF IInv, Beat
  <2>2. n \notin up => beat[n].pc \in {"sleep", "awake"}
    BY DEF IInv
  <2>3. lag(n) \in 0 .. MaxLag
    BY SMTT(30), <1>1, <2>1, <2>2, MembershipAssumption
  <2> HIDE DEF lag
  <2>4. Older(beat[n].since, Gossip + lag(n)) \in 0 .. Gossip + MaxLag
    BY <2>1, <2>3, MembershipAssumption DEF Older
  <2> QED
    BY <2>1, <2>2, <2>3, <2>4 DEF Beat
<1> HIDE DEF b, lag
<1>3. ASSUME NEW n \in Node, NEW i \in 1 .. Len(table[n])
      PROVE  /\ new(n, i) \in Entry /\ new(n, i).id = table[n][i].id
             /\ new(n, i).state = table[n][i].state
  <2>1. table[n][i] \in Entry
    BY DEF IInv
  <2>2. CASE i = 1 \/ ~Aging
    BY <2>1, <2>2
  <2>3. CASE ~(i = 1 \/ ~Aging)
    <3> DEFINE a == Older(table[n][i].age, MaxAge)
    <3>1. new(n, i) = [table[n][i] EXCEPT !.age = a]
      BY <2>3, Zenon
    <3>2. table[n][i].age \in 0 .. MaxAge /\ MaxAge \in Nat
      BY <2>1, MembershipAssumption DEF Entry, MaxAge
    <3>3. a \in 0 .. MaxAge
      BY <3>2 DEF Older
    <3> HIDE DEF a, new
    <3> QED
      BY <2>1, <3>1, <3>3 DEF Entry
  <2> QED
    BY <2>2, <2>3
<1>4. \A n \in Node : new(n, 1) = table[n][1]
  OBVIOUS
<1> HIDE DEF new
<1>5. ASSUME NEW n \in Node
      PROVE  /\ t(n) \in Seq(Entry) /\ Len(t(n)) = Len(table[n])
             /\ \A i \in 1 .. Len(table[n]) : t(n)[i] = new(n, i)
  <2>1. table[n] \in Seq(Entry) /\ Len(table[n]) \in Nat
    BY DEF IInv
  <2> QED
    BY <1>3, <2>1
<1> HIDE DEF t
<1>6. ASSUME NEW n \in Node PROVE t(n) \in Table(n)
  <2>1. table[n] \in Table(n) /\ 1 \in 1 .. Len(table[n])
    BY DEF IInv, Table
  <2>2. t(n)[1] = table[n][1]
    BY <1>4, <1>5, <2>1
  <2> QED
    BY <1>3, <1>5, <2>1, <2>2, SameIdsTable
<1>7. table' \in [Node -> Seq(Entry)] /\ \A n \in Node : table'[n] \in Table(n)
  BY <1>1, <1>5, <1>6
<1>8. Steady
  <2>1. ASSUME NEW n \in Node, NEW i \in 1 .. Len(table[n]) PROVE Follows(n, i)
    <3>1. table[n] \in Seq(Entry) /\ i <= Len(table[n])
      BY DEF IInv
    <3>2. i <= Len(table'[n]) /\ table'[n][i] = new(n, i)
      BY <1>1, <1>5, <3>1
    <3> QED
      BY <1>3, <3>2 DEF Follows
  <2> QED
    BY <2>1 DEF Steady, IInv
<1>9. beat' \in [Node -> Beat] /\ \A n \in Node \ up : beat'[n].pc \in {"sleep", "awake"}
  BY <1>1, <1>2
<1> QED
  BY <1>1, <1>7, <1>8, <1>9 DEF IInv

\* A crash takes the table along; no step of it is one of a running process.
LEMMA CrashKeeps ==
    ASSUME IInv, NEW n \in Node, Crash(n)
    PROVE  IInv' /\ Steady
<1>1. /\ up' = up \ {n} /\ joined' = joined
      /\ table' = [table EXCEPT ![n] = <<Self(n)>>]
      /\ beat' = [beat EXCEPT ![n] = Started]
      /\ owes' = [owes EXCEPT ![n] = NoNode]
      /\ inbox' = [inbox EXCEPT ![n] = <<>>]
  BY DEF Crash
<1>2. <<Self(n)>> \in Table(n) /\ <<Self(n)>> \in Seq(Entry)
  BY SelfTable DEF Table
<1> DEFINE s == <<Self(n)>>
<1> HIDE DEF s
<1>3. /\ table' = [table EXCEPT ![n] = s] /\ s \in Seq(Entry) /\ s \in Table(n)
      /\ table \in [Node -> Seq(Entry)] /\ \A m \in Node : table[m] \in Table(m)
  BY <1>1, <1>2 DEF s, IInv
<1>4. /\ table' \in [Node -> Seq(Entry)] /\ \A m \in Node : table'[m] \in Table(m)
      /\ \A m \in Node : m # n => table'[m] = table[m]
  BY <1>3
<1>5. Steady
  <2>1. ASSUME NEW m \in Node, m # n, NEW i \in 1 .. Len(table[m]) PROVE Follows(m, i)
    <3>1. table[m] \in Seq(Entry) /\ i <= Len(table[m])
      BY DEF IInv
    <3> QED
      BY <1>4, <2>1, <3>1 DEF Follows
  <2> QED
    BY <1>1, <2>1 DEF Steady, IInv
<1>6. beat' \in [Node -> Beat] /\ \A m \in Node \ up' : beat'[m].pc \in {"sleep", "awake"}
  BY <1>1, StartedTyped DEF IInv
<1>7. owes' \in [Node -> Node \cup {NoNode}]
  BY <1>1 DEF IInv
<1>8. inbox' \in [Node -> Seq(Datagram)]
  <2>1. <<>> \in Seq(Datagram) /\ inbox \in [Node -> Seq(Datagram)]
    BY DEF IInv
  <2> QED
    BY <1>1, <2>1
<1>9. up' \subseteq Node /\ joined' \subseteq Node
  BY <1>1 DEF IInv
<1> QED
  BY <1>4, <1>5, <1>6, <1>7, <1>8, <1>9 DEF IInv

\* A new process under the old id.
LEMMA RestartKeeps ==
    ASSUME IInv, NEW n \in Node, Restart(n)
    PROVE  IInv' /\ Steady
<1>1. /\ up' = up \cup {n} /\ joined' \subseteq Node
      /\ table' = table /\ beat' = beat /\ owes' = owes /\ inbox' = inbox
  BY MembershipAssumption DEF Restart, IInv
<1> QED
  BY <1>1, TablesUnchanged DEF IInv

\* Every step of the threads, the clock and the environment keeps it.
LEMMA StepInductive ==
    ASSUME IInv, Next
    PROVE  IInv' /\ Steady
  BY SendJoinKeeps, HandleKeeps, AnswerKeeps, ReadNowKeeps, AgeKeeps, SendPingsKeeps,
     TickKeeps, CrashKeeps, RestartKeeps
  DEF Next, GossipThread, HeartbeatThread

\* The inductive invariant holds for every number of nodes, every capacity of
\* tables, messages and buffers, every timing, and whatever is lost,
\* duplicated or reordered.
THEOREM Inductive == Spec => []IInv
<1>1. IInv /\ UNCHANGED vars => IInv'
  BY DEF IInv, vars
<1>2. IInv /\ [Next]_vars => IInv'
  BY <1>1, StepInductive
<1> QED
  BY InitInductive, <1>2, PTL DEF Spec

\* Type correctness: no table of dsm_cluster.c grows past CLUSTER_MAX_NODES,
\* and the heartbeat thread's clocks stay within the bounds of the model.
THEOREM TypeCorrect == Spec => []TypeOK
<1>1. IInv => TypeOK
  BY DEF IInv, TypeOK, Table, Beat
<1> QED
  BY Inductive, <1>1, PTL

\* Whatever its peers believe and gossip about it, a node stays the first of
\* its own table and ALIVE there.
THEOREM OwnEntryAlive == Spec => []SelfAlive
<1>1. IInv => SelfAlive
  BY DEF IInv, SelfAlive, Table
<1> QED
  BY Inductive, <1>1, PTL

\* merge_node never enters an id twice.
THEOREM EntriesUnique == Spec => []OneEntryPerNode
<1>1. IInv => OneEntryPerNode
  BY DEF IInv, OneEntryPerNode, Table
<1> QED
  BY Inductive, <1>1, PTL

\* The indices by which get_peer_connection caches connections stay valid
\* while the process runs.
THEOREM IndicesStable == Spec => IndexStable
<1>1. IInv /\ [Next]_vars =>
        [\A n \in up \cap up' : \A i \in 1 .. Len(table[n]) :
            i <= Len(table'[n]) /\ table'[n][i].id = table[n][i].id]_vars
  BY StepInductive DEF Steady, Follows
<1> QED
  BY Inductive, <1>1, PTL DEF Spec, IndexStable

\* heartbeat_loop degrades a peer only when it was silent for the timeout or
\* the round was late, and no rumour degrades one.
THEOREM DegradedForAReason == Spec => DegradedWhenSilentOrLate
<1> DEFINE Body ==
        \A n \in up \cap up' : \A i \in 1 .. Len(table[n]) :
           LET old  == table[n][i]
               new  == table'[n][i]
               late == old.age < beat[n].lag IN
           /\ old.state # "SUSPECT" /\ new.state = "SUSPECT" =>
                  late \/ old.age > Timeout \div 2
           /\ old.state # "DEAD" /\ new.state = "DEAD" =>
                  late \/ old.age > Timeout
<1>1. Steady => Body
  BY DEF Steady, Follows
<1>2. IInv /\ [Next]_vars => [Body]_vars
  BY <1>1, StepInductive
<1> QED
  BY Inductive, <1>2, PTL DEF Spec, DegradedWhenSilentOrLate
=============================================================================
