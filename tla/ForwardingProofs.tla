-------------------------- MODULE ForwardingProofs --------------------------
(***************************************************************************)
(* Proofs about Forwarding, for any number of nodes and clients, any node  *)
(* tables, connections shared by threads or broken, peers in doubt and     *)
(* servers that die: the types, that a forwarded request is not forwarded  *)
(* again and, with one client per node, that every reply is the client's   *)
(* own and every ACK earned.                                               *)
(***************************************************************************)
EXTENDS Forwarding, TLAPS

-----------------------------------------------------------------------------
(* Sequences *)

\* Facts about the sequences that stand for a connection's bytes and for the
\* part of a reply that has arrived. An empty stream has no elements.
LEMMA NoElements ==
    ASSUME NEW S
    PROVE  /\ <<>> \in Seq(S) /\ Len(<<>>) = 0
           /\ \A s \in Seq(S) : s # <<>> => Len(s) \in Nat \ {0}
  OBVIOUS

\* The elements of a stream, by position.
LEMMA Elements ==
    ASSUME NEW S, NEW s \in Seq(S)
    PROVE  /\ Len(s) \in Nat /\ s \in [1 .. Len(s) -> S]
           /\ \A k \in 1 .. Len(s) : s[k] \in S
  OBVIOUS

\* A page of storage is a sequence of its units.
LEMMA Tuples ==
    ASSUME NEW n \in Nat, NEW S, NEW f \in [1 .. n -> S]
    PROVE  f \in Seq(S) /\ Len(f) = n
  OBVIOUS

\* What send() of one more message leaves on a stream.
LEMMA Appended ==
    ASSUME NEW S, NEW s \in Seq(S), NEW e \in S
    PROVE  /\ Append(s, e) \in Seq(S) /\ Append(s, e) # <<>>
           /\ Len(Append(s, e)) = Len(s) + 1
           /\ \A k \in 1 .. Len(s) : Append(s, e)[k] = s[k]
           /\ Append(s, e)[Len(s) + 1] = e
  OBVIOUS

\* What send() of a whole reply leaves on a stream.
LEMMA Joined ==
    ASSUME NEW S, NEW s \in Seq(S), NEW t \in Seq(S)
    PROVE  s \o t \in Seq(S) /\ Len(s \o t) = Len(s) + Len(t)
  OBVIOUS

\* A reply on an empty stream is all there is.
LEMMA JoinedToNothing ==
    ASSUME NEW S, NEW s \in Seq(S)
    PROVE  <<>> \o s = s
  OBVIOUS

\* What recv() of the first message takes and leaves.
LEMMA HeadAndTail ==
    ASSUME NEW S, NEW s \in Seq(S), s # <<>>
    PROVE  /\ Head(s) \in S /\ Tail(s) \in Seq(S) /\ Len(Tail(s)) = Len(s) - 1
           /\ \A k \in 1 .. Len(Tail(s)) : Tail(s)[k] = s[k + 1]
  OBVIOUS

\* The arithmetic of lengths: empty, as long as allowed, shorter than that.
LEMMA Bounds ==
    /\ Len(<<>>) = 0 /\ 0 \in Nat /\ 0 + 0 <= 1 /\ 0 + 1 <= 1
    /\ \A n \in Nat : 0 <= n /\ n <= n /\ n + 0 = n /\ 0 + n = n
    /\ \A m, n \in Nat : m < n => m + 0 <= n
  OBVIOUS

\* What recv() of n units leaves.
LEMMA Rest ==
    ASSUME NEW S, NEW s \in Seq(S), NEW n \in 0 .. Len(s)
    PROVE  SubSeq(s, n + 1, Len(s)) \in Seq(S)
  OBVIOUS

-----------------------------------------------------------------------------
(* The route of a request *)

Phase == {"recv", "copy", "forward", "connect", "send", "await", "relay", "exit"}
Busy  == {"copy", "forward", "connect", "send", "await", "relay"}

\* A connection being made has no number yet.
Target == [src : Node, dst : Node]

Thread == [pc : Phase, msg : {<<>>} \cup Request, fd : {NoFd} \cup Target \cup PeerConn,
           got : Seq(Unit)]

\* Storage and replies are made of units.
Stored    == storage \in [Node -> [Page -> [1 .. PageUnits -> Unit]]]
DownTyped == down \in [Conn -> Seq(Unit)]

\* The cached connection to a peer leads to that peer.
CacheRoutes ==
    /\ peer_fds \in [Node -> [Node -> {NoFd} \cup PeerConn]]
    /\ \A n, m \in Node :
        peer_fds[n][m] # NoFd => peer_fds[n][m].src = n /\ peer_fds[n][m].dst = m

\* What arrives over a peer connection is for a page of the receiver.
UpRoutes ==
    /\ up \in [Conn -> Seq(Request)]
    /\ \A c \in PeerConn : \A i \in 1 .. Len(up[c]) : up[c][i].page \in Owned[c.dst]

\* A thread of node n that has a request in hand remembers it, and from the
\* moment an owner is found on it is bound for that owner.
ThreadRoutes(n, t) ==
    /\ t.pc \in Busy => t.msg \in Request
    /\ t.pc = "copy" => t.msg.op = "PUT"
    /\ t.pc = "connect" => t.fd \in Target
    /\ t.pc \in {"send", "await"} => t.fd \in PeerConn
    /\ t.pc \in {"connect", "send", "await"} =>
            t.fd.src = n /\ t.msg.page \in Owned[t.fd.dst]

ThreadsRoute ==
    /\ thread \in [Conn -> Thread]
    /\ \A c \in Conn : ThreadRoutes(Server(c), thread[c])

\* The inductive invariant.
Routed == Stored /\ DownTyped /\ CacheRoutes /\ UpRoutes /\ ThreadsRoute

-----------------------------------------------------------------------------

\* A client's connection is none between servers.
LEMMA ConnectionsDiffer ==
    ASSUME NEW c \in Client
    PROVE  [client |-> c] \in Conn /\ [client |-> c] \notin PeerConn
BY DEF Conn, ClientConn, PeerConn

\* The node that accepted a connection is a node.
LEMMA ServerIsNode ==
    ASSUME NEW c \in Conn
    PROVE  Server(c) \in Node
BY ForwardingAssumption DEF Server, Conn, ClientConn, PeerConn

\* The replies the server makes up.
LEMMA RepliesTyped ==
    /\ ZeroPage \in Seq(Unit) /\ <<Ack>> \in Seq(Unit)
    /\ ZeroPage \in [1 .. PageUnits -> Unit]
BY ForwardingAssumption, Tuples DEF ZeroPage, Unit

\* The start of the loop of handle_client_thread.
LEMMA IdleThreads ==
    /\ IdleThread \in Thread
    /\ EndedThread \in Thread
    /\ \A n \in Node : ThreadRoutes(n, IdleThread) /\ ThreadRoutes(n, EndedThread)
BY NoElements DEF IdleThread, EndedThread, Thread, Phase, Busy, ThreadRoutes

\* All of Routed holds when the servers start.
LEMMA RoutedInitially == Init => Routed
  <1> SUFFICES ASSUME Init PROVE Routed
    OBVIOUS
  <1>1. Stored /\ DownTyped
    BY ForwardingAssumption, RepliesTyped, NoElements DEF Init, Stored, DownTyped
  <1>2. CacheRoutes
    BY DEF Init, CacheRoutes
  <1>3. UpRoutes
    BY NoElements DEF Init, UpRoutes, Conn
  <1>4. ThreadsRoute
    BY IdleThreads, ServerIsNode DEF Init, ThreadsRoute
  <1> QED
    BY <1>1, <1>2, <1>3, <1>4 DEF Routed

-----------------------------------------------------------------------------
(* What the parts of a step do *)

\* A thread moves on: the others stay as they are.
LEMMA ThreadMoves ==
    ASSUME ThreadsRoute, NEW c \in Conn, NEW t \in Thread, ThreadRoutes(Server(c), t),
           thread' = [thread EXCEPT ![c] = t]
    PROVE  ThreadsRoute'
  <1>1. thread' \in [Conn -> Thread]
    BY DEF ThreadsRoute
  <1>2. \A x \in Conn : thread'[x] = IF x = c THEN t ELSE thread[x]
    BY DEF ThreadsRoute
  <1>3. \A x \in Conn : ThreadRoutes(Server(x), thread'[x])
    BY <1>2 DEF ThreadsRoute
  <1> QED
    BY <1>1, <1>3 DEF ThreadsRoute

\* The thread leaves its loop.
LEMMA ExitRoutes ==
    ASSUME Routed, NEW c \in Conn, Exit(c)
    PROVE  ThreadsRoute' /\ DownTyped'
  <1>1. ThreadsRoute'
    BY Zenon, IdleThreads, ThreadMoves, ServerIsNode DEF Routed, Exit
  <1> QED
    BY <1>1 DEF Routed, Exit, DownTyped

\* dsm_send_full of a reply.
LEMMA ReplyRoutes ==
    ASSUME Routed, NEW c \in Conn, NEW units \in Seq(Unit), Reply(c, units)
    PROVE  ThreadsRoute' /\ DownTyped'
  <1>1. CASE link[c] = "up"
    <2>1. ThreadsRoute'
      BY <1>1, IdleThreads, ThreadMoves, ServerIsNode DEF Routed, Reply
    <2>2. down[c] \o units \in Seq(Unit)
      BY Joined DEF Routed, DownTyped
    <2>3. DownTyped'
      BY Zenon, <1>1, <2>2 DEF Routed, Reply, DownTyped
    <2> QED
      BY <2>1, <2>3
  <1>2. CASE link[c] # "up"
    <2>1. ThreadsRoute'
      BY <1>2, IdleThreads, ThreadMoves, ServerIsNode DEF Routed, Reply
    <2> QED
      BY <1>2, <2>1 DEF Routed, Reply, DownTyped
  <1> QED
    BY <1>1, <1>2

\* A request that could not be forwarded.
LEMMA ForwardFailRoutes ==
    ASSUME Routed, NEW c \in Conn, ForwardFail(c)
    PROVE  ThreadsRoute' /\ DownTyped'
BY ExitRoutes, ReplyRoutes, RepliesTyped DEF ForwardFail

\* A request is added to a stream: over a peer connection only one for a page
\* of the receiver.
LEMMA UpAppends ==
    ASSUME UpRoutes, NEW c \in Conn, NEW msg \in Request,
           c \in PeerConn => msg.page \in Owned[c.dst],
           up' = [up EXCEPT ![c] = Append(@, msg)]
    PROVE  UpRoutes'
  <1>1. up[c] \in Seq(Request)
    BY DEF UpRoutes
  <1>2. /\ Append(up[c], msg) \in Seq(Request)
        /\ Len(Append(up[c], msg)) = Len(up[c]) + 1
        /\ \A i \in 1 .. Len(up[c]) : Append(up[c], msg)[i] = up[c][i]
        /\ Append(up[c], msg)[Len(up[c]) + 1] = msg
    BY <1>1, Appended
  <1>3. Len(up[c]) \in Nat
    BY <1>1, Elements
  <1>4. \A x \in Conn : up'[x] = IF x = c THEN Append(up[c], msg) ELSE up[x]
    BY DEF UpRoutes
  <1>5. up' \in [Conn -> Seq(Request)]
    BY <1>2 DEF UpRoutes
  <1>6. ASSUME NEW x \in PeerConn, NEW i \in 1 .. Len(up'[x])
        PROVE  up'[x][i].page \in Owned[x.dst]
    <2>1. x \in Conn
      BY DEF Conn
    <2>2. CASE x = c
      BY <1>2, <1>3, <1>4, <2>1, <2>2 DEF UpRoutes
    <2>3. CASE x # c
      BY <1>4, <2>1, <2>3 DEF UpRoutes
    <2> QED
      BY <2>2, <2>3
  <1> QED
    BY <1>5, <1>6 DEF UpRoutes

\* The first request of a stream is taken.
LEMMA UpTails ==
    ASSUME UpRoutes, NEW c \in Conn, up[c] # <<>>, up' = [up EXCEPT ![c] = Tail(@)]
    PROVE  /\ UpRoutes'
           /\ Head(up[c]) \in Request
           /\ c \in PeerConn => Head(up[c]).page \in Owned[c.dst]
  <1>1. up[c] \in Seq(Request)
    BY DEF UpRoutes
  <1>2. /\ Head(up[c]) \in Request /\ Head(up[c]) = up[c][1]
        /\ Tail(up[c]) \in Seq(Request)
        /\ Len(Tail(up[c])) = Len(up[c]) - 1
        /\ \A i \in 1 .. Len(Tail(up[c])) : Tail(up[c])[i] = up[c][i + 1]
        /\ Len(up[c]) \in Nat \ {0}
    BY <1>1, HeadAndTail, NoElements, Elements
  <1>3. \A x \in Conn : up'[x] = IF x = c THEN Tail(up[c]) ELSE up[x]
    BY DEF UpRoutes
  <1>4. up' \in [Conn -> Seq(Request)]
    BY <1>2 DEF UpRoutes
  <1>5. ASSUME NEW x \in PeerConn, NEW i \in 1 .. Len(up'[x])
        PROVE  up'[x][i].page \in Owned[x.dst]
    <2>1. x \in Conn
      BY DEF Conn
    <2>2. CASE x = c
      <3>0. up'[x] = Tail(up[c])
        BY <1>3, <2>1, <2>2
      <3>1. i \in 1 .. Len(Tail(up[c])) /\ i + 1 \in 1 .. Len(up[c])
        <4>1. i \in 1 .. Len(Tail(up[c]))
          BY Zenon, <3>0
        <4> QED
          BY <4>1, <1>2
      <3>2. up'[x][i] = up[x][i + 1]
        BY Zenon, <1>2, <1>3, <2>1, <2>2, <3>1
      <3> QED
        BY <2>2, <3>1, <3>2 DEF UpRoutes
    <2>3. CASE x # c
      BY Zenon, <1>3, <2>1, <2>3 DEF UpRoutes
    <2> QED
      BY <2>2, <2>3
  <1>6. c \in PeerConn => Head(up[c]).page \in Owned[c.dst]
    BY <1>2 DEF UpRoutes
  <1> QED
    BY Zenon, <1>2, <1>4, <1>5, <1>6 DEF UpRoutes

-----------------------------------------------------------------------------
(* The steps *)

\* A request enters a client's own connection.
LEMMA ClientCallRoutes ==
    ASSUME Routed, NEW c \in Client, NEW msg \in Request, ClientCall(c, msg)
    PROVE  Routed'
  <1>1. [client |-> c] \in Conn /\ [client |-> c] \notin PeerConn
    BY ConnectionsDiffer
  <1>2. UpRoutes'
    <2>1. CASE UNCHANGED up
      BY <2>1 DEF Routed, UpRoutes
    <2>2. CASE up' = [up EXCEPT ![[client |-> c]] = Append(@, msg)]
      <3> DEFINE conn == [client |-> c]
      <3>1. conn \in Conn /\ conn \notin PeerConn /\ up' = [up EXCEPT ![conn] = Append(@, msg)]
        BY <1>1, <2>2
      <3> HIDE DEF conn
      <3> QED
        BY Zenon, <3>1, UpAppends DEF Routed
    <2> QED
      BY <2>1, <2>2 DEF ClientCall
  <1> QED
    BY <1>2 DEF Routed, ClientCall, Stored, DownTyped, CacheRoutes, ThreadsRoute

\* A client takes its reply, or gives up.
LEMMA ClientStepRoutes ==
    ASSUME Routed, NEW c \in Client, ClientStep(c)
    PROVE  Routed'
  <1> DEFINE conn == [client |-> c]
             n    == Wanted(client[c].pc)
  <1>1. CASE ClientReturn(c)
    <2>1. conn \in Conn
      BY ConnectionsDiffer
    <2>2. down[conn] \in Seq(Unit) /\ n \in Nat
      BY <2>1, ForwardingAssumption DEF Routed, DownTyped, Wanted
    <2>3. down' = [down EXCEPT ![conn] = SubSeq(@, n + 1, Len(@))]
      BY <1>1 DEF ClientReturn
    <2> HIDE DEF conn, n
    <2>4. SubSeq(down[conn], n + 1, Len(down[conn])) \in Seq(Unit)
      BY <2>2, Rest, Elements
    <2>5. DownTyped'
      BY <2>1, <2>3, <2>4 DEF Routed, DownTyped
    <2> QED
      BY <1>1, <2>5 DEF Routed, ClientReturn, Stored, CacheRoutes, UpRoutes, ThreadsRoute
  <1>2. CASE ClientFail(c)
    BY <1>2 DEF Routed, ClientFail, Stored, DownTyped, CacheRoutes, UpRoutes, ThreadsRoute
  <1> QED
    BY <1>1, <1>2 DEF ClientStep

\* A thread takes a request.
LEMMA ReceiveRoutes ==
    ASSUME Routed, NEW c \in Conn, Receive(c)
    PROVE  Routed'
  <1> DEFINE n   == Server(c)
             msg == Head(up[c])
  <1>1. n \in Node
    BY ServerIsNode
  <1>2. UpRoutes' /\ msg \in Request /\ (c \in PeerConn => msg.page \in Owned[c.dst])
    BY Zenon, UpTails DEF Routed, Receive
  <1>4. storage[n][msg.page] \in Seq(Unit)
    <2>1. msg.page \in Page
      BY <1>2 DEF Request
    <2>2. storage[n][msg.page] \in [1 .. PageUnits -> Unit]
      BY <1>1, <2>1 DEF Routed, Stored
    <2> QED
      BY <2>2, ForwardingAssumption, Tuples
  <1>5. ASSUME NEW pc \in {"copy", "forward"}, pc = "copy" => msg.op = "PUT",
               thread' = [thread EXCEPT ![c].pc = pc, ![c].msg = msg]
        PROVE  ThreadsRoute'
    <2> DEFINE t == [thread[c] EXCEPT !.pc = pc, !.msg = msg]
    <2>1. thread[c] \in Thread
      BY DEF Routed, ThreadsRoute
    <2>2. thread' = [thread EXCEPT ![c] = t]
      BY Zenon, <1>5, <2>1 DEF Thread, Routed, ThreadsRoute
    <2>3. t \in Thread /\ t.pc = pc /\ t.msg = msg
      BY Zenon, <1>2, <2>1 DEF Thread, Phase
    <2> HIDE DEF t
    <2>4. ThreadRoutes(Server(c), t)
      BY <1>2, <1>5, <2>3 DEF ThreadRoutes
    <2> QED
      BY Zenon, <1>5, <2>2, <2>3, <2>4, ThreadMoves DEF Routed
  <1> HIDE DEF n, msg
  <1>6. ThreadsRoute' /\ DownTyped'
    <2>1. CASE Reply(c, storage[n][msg.page])
      BY <1>4, <2>1, ReplyRoutes
    <2>2. CASE /\ msg.op = "PUT"
               /\ thread' = [thread EXCEPT ![c].pc = "copy", ![c].msg = msg]
               /\ UNCHANGED down
      BY <1>5, <2>2 DEF Routed, DownTyped
    <2>3. CASE /\ thread' = [thread EXCEPT ![c].pc = "forward", ![c].msg = msg]
               /\ UNCHANGED down
      BY <1>5, <2>3 DEF Routed, DownTyped
    <2>4. CASE Reply(c, ZeroPage)
      BY <2>4, ReplyRoutes, RepliesTyped
    <2>5. CASE Exit(c)
      BY <2>5, ExitRoutes
    <2> QED
      BY <2>1, <2>2, <2>3, <2>4, <2>5 DEF Receive, n, msg
  <1>7. UNCHANGED <<storage, peer_fds>>
    BY DEF Receive
  <1> QED
    BY <1>2, <1>6, <1>7 DEF Routed, Stored, CacheRoutes

\* A unit of a page is copied into storage.
LEMMA CopyRoutes ==
    ASSUME Routed, NEW c \in Conn, Copy(c)
    PROVE  Routed'
  <1> DEFINE n   == Server(c)
             msg == thread[c].msg
             d   == Data(msg.page, msg.val)
             i   == Len(thread[c].got) + 1
  <1>1. /\ thread[c] \in Thread /\ msg \in Request /\ thread[c].pc = "copy"
        /\ msg.op = "PUT"
    BY DEF Routed, ThreadsRoute, ThreadRoutes, Busy, Copy
  <1>2. d \in Unit /\ msg.page \in Page /\ n \in Node
    BY <1>1, ServerIsNode DEF Request, Data, Unit
  <1>3. Stored'
    <2>1. storage' = [storage EXCEPT ![n][msg.page][i] = d]
      BY DEF Copy
    <2> HIDE DEF n, msg, d, i
    <2> QED
      BY Zenon, <1>2, <2>1 DEF Routed, Stored
  <1>4. ThreadsRoute' /\ DownTyped'
    <2>1. CASE thread' = [thread EXCEPT ![c].got = Append(@, d)] /\ UNCHANGED down
      <3> DEFINE t == [thread[c] EXCEPT !.got = Append(@, d)]
      <3>1. thread' = [thread EXCEPT ![c] = t]
        BY <1>1, <2>1 DEF Thread, Routed, ThreadsRoute
      <3>2. Append(thread[c].got, d) \in Seq(Unit)
        <4>1. thread[c].got \in Seq(Unit)
          BY <1>1 DEF Thread
        <4> HIDE DEF d
        <4> QED
          BY <1>2, <4>1, Appended
      <3>3. t \in Thread /\ t.pc = "copy" /\ t.msg = msg
        <4> DEFINE new == Append(thread[c].got, d)
        <4>1. t = [thread[c] EXCEPT !.got = new] /\ new \in Seq(Unit)
          BY <3>2
        <4> HIDE DEF new, t
        <4> QED
          BY <1>1, <4>1 DEF Thread
      <3> HIDE DEF t
      <3>4. ThreadRoutes(Server(c), t)
        BY <1>1, <3>3 DEF ThreadRoutes
      <3>5. ThreadsRoute'
        BY Zenon, <3>1, <3>3, <3>4, ThreadMoves DEF Routed
      <3> QED
        BY <2>1, <3>5 DEF Routed, DownTyped
    <2>2. CASE Reply(c, <<Ack>>)
      BY Zenon, <2>2, ReplyRoutes, RepliesTyped
    <2> QED
      BY <2>1, <2>2 DEF Copy
  <1>5. UNCHANGED <<up, peer_fds>>
    BY DEF Copy
  <1> QED
    BY <1>3, <1>4, <1>5 DEF Routed, UpRoutes, CacheRoutes

\* The steps that give up and change nothing else.
LEMMA FailRoutes ==
    ASSUME Routed, NEW c \in Conn, ReceiveFail(c) \/ ConnectFail(c) \/ AwaitFail(c)
    PROVE  Routed'
  <1>1. ThreadsRoute' /\ DownTyped'
    BY ExitRoutes, ForwardFailRoutes DEF ReceiveFail, ConnectFail, AwaitFail
  <1>2. UNCHANGED <<storage, up, peer_fds>>
    BY DEF ReceiveFail, ConnectFail, AwaitFail
  <1> QED
    BY <1>1, <1>2 DEF Routed, Stored, UpRoutes, CacheRoutes

\* A thread that forwards remembers the request.
LEMMA ForwarderBusy ==
    ASSUME Routed, NEW c \in Conn,
           thread[c].pc \in {"forward", "connect", "send", "await", "relay"}
    PROVE  thread[c] \in Thread /\ thread[c].msg \in Request
BY DEF Routed, ThreadsRoute, ThreadRoutes, Busy

\* The owner of the page is found, and the request bound for it.
LEMMA FindOwnerRoutes ==
    ASSUME Routed, NEW c \in Conn, FindOwner(c)
    PROVE  Routed'
  <1> DEFINE n == Server(c)
             p == thread[c].msg.page
  <1>1. thread[c] \in Thread /\ thread[c].msg \in Request
    BY ForwarderBusy DEF FindOwner
  <1>2. n \in Node
    BY ServerIsNode
  <1>3. ASSUME NEW m \in Node, IsOwner(m, n, p),
               thread' = [thread EXCEPT
                   ![c].pc = IF peer_fds[n][m] = NoFd THEN "connect" ELSE "send",
                   ![c].fd = IF peer_fds[n][m] = NoFd
                             THEN [src |-> n, dst |-> m] ELSE peer_fds[n][m]]
        PROVE  ThreadsRoute'
    <2> DEFINE pc == IF peer_fds[n][m] = NoFd THEN "connect" ELSE "send"
               fd == IF peer_fds[n][m] = NoFd THEN [src |-> n, dst |-> m] ELSE peer_fds[n][m]
               t  == [thread[c] EXCEPT !.pc = pc, !.fd = fd]
    <2>1. p \in Owned[m]
      BY <1>3 DEF IsOwner, Candidates
    <2>2. /\ pc \in {"connect", "send"} /\ fd.src = n /\ fd.dst = m
          /\ pc = "connect" => fd \in Target
          /\ pc = "send" => fd \in PeerConn
      BY <1>2 DEF Routed, CacheRoutes, Target
    <2>3. thread' = [thread EXCEPT ![c] = t]
      BY Zenon, <1>1, <1>3 DEF Thread, Routed, ThreadsRoute
    <2> HIDE DEF pc, fd
    <2>4. t \in Thread /\ t.pc = pc /\ t.fd = fd /\ t.msg = thread[c].msg
      BY Zenon, <1>1, <2>2 DEF Thread, Phase
    <2> HIDE DEF t
    <2>5. ThreadRoutes(Server(c), t)
      BY <1>1, <2>1, <2>2, <2>4 DEF ThreadRoutes
    <2> QED
      BY Zenon, <1>1, <2>3, <2>4, <2>5, ThreadMoves DEF Routed
  <1>4. ThreadsRoute' /\ DownTyped'
    <2>1. CASE ForwardFail(c)
      BY <2>1, ForwardFailRoutes
    <2>2. CASE ~ForwardFail(c)
      BY Zenon, <1>3, <2>2 DEF FindOwner, Routed, DownTyped
    <2> QED
      BY <2>1, <2>2
  <1>5. UNCHANGED <<storage, up, peer_fds>>
    BY DEF FindOwner
  <1> QED
    BY <1>4, <1>5 DEF Routed, Stored, UpRoutes, CacheRoutes

\* The new connection leads where the request is bound.
LEMMA ConnectRoutes ==
    ASSUME Routed, NEW c \in Conn, Connect(c)
    PROVE  Routed'
  <1> DEFINE n == thread[c].fd.src
             m == thread[c].fd.dst
  <1>1. thread[c] \in Thread /\ thread[c].msg \in Request
    BY ForwarderBusy DEF Connect
  <1>2. n \in Node /\ n = Server(c) /\ m \in Node /\ thread[c].msg.page \in Owned[m]
    BY DEF Connect, Routed, ThreadsRoute, ThreadRoutes, Target
  <1>3. PICK k \in 1 .. MaxConn :
            /\ peer_fds' = [peer_fds EXCEPT ![n][m] = [src |-> n, dst |-> m, k |-> k]]
            /\ thread' = [thread EXCEPT ![c].pc = "send",
                                        ![c].fd = [src |-> n, dst |-> m, k |-> k]]
    BY Zenon DEF Connect
  <1> DEFINE fd == [src |-> n, dst |-> m, k |-> k]
             t  == [thread[c] EXCEPT !.pc = "send", !.fd = fd]
  <1>4. fd \in PeerConn /\ fd.src = n /\ fd.dst = m /\ fd # NoFd
    BY <1>2 DEF PeerConn, NoFd
  <1>5. thread' = [thread EXCEPT ![c] = t]
    BY Zenon, <1>1, <1>3 DEF Thread, Routed, ThreadsRoute
  <1>6. peer_fds' = [peer_fds EXCEPT ![n][m] = fd]
    BY <1>3
  <1> HIDE DEF fd
  <1>7. t \in Thread /\ t.pc = "send" /\ t.fd = fd /\ t.msg = thread[c].msg
    BY Zenon, <1>1, <1>4 DEF Thread, Phase
  <1> HIDE DEF t, n, m
  <1>8. ThreadRoutes(Server(c), t)
    BY <1>1, <1>2, <1>4, <1>7 DEF ThreadRoutes
  <1>9. ThreadsRoute'
    BY Zenon, <1>1, <1>5, <1>7, <1>8, ThreadMoves DEF Routed
  <1>10. CacheRoutes'
    BY <1>2, <1>4, <1>6 DEF Routed, CacheRoutes
  <1>11. UNCHANGED <<storage, up, down>>
    BY DEF Connect
  <1> QED
    BY <1>9, <1>10, <1>11 DEF Routed, Stored, DownTyped, UpRoutes

\* The request goes to the node it is bound for.
LEMMA SendRequestRoutes ==
    ASSUME Routed, NEW c \in Conn, SendRequest(c)
    PROVE  Routed'
  <1> DEFINE fd == thread[c].fd
             msg == thread[c].msg
  <1>1. thread[c] \in Thread /\ msg \in Request
    BY ForwarderBusy DEF SendRequest
  <1>2. fd \in PeerConn /\ fd \in Conn /\ fd.src = Server(c) /\ msg.page \in Owned[fd.dst]
    BY DEF SendRequest, Routed, ThreadsRoute, ThreadRoutes, Conn
  <1>3. ThreadsRoute' /\ DownTyped' /\ UpRoutes'
    <2>1. CASE /\ up' = [up EXCEPT ![fd] = Append(@, msg)]
               /\ thread' = Goto(c, "await")
               /\ UNCHANGED down
      <3> DEFINE t == [thread[c] EXCEPT !.pc = "await"]
      <3>1. thread' = [thread EXCEPT ![c] = t]
        BY <1>1, <2>1 DEF Goto, Thread, Routed, ThreadsRoute
      <3>2. t \in Thread /\ t.pc = "await" /\ t.fd = fd /\ t.msg = msg
        BY <1>1 DEF Thread, Phase
      <3> HIDE DEF t
      <3>3. ThreadRoutes(Server(c), t)
        BY <1>1, <1>2, <3>2 DEF ThreadRoutes
      <3>4. ThreadsRoute'
        BY Zenon, <1>1, <3>1, <3>2, <3>3, ThreadMoves DEF Routed
      <3> HIDE DEF fd, msg
      <3>5. UpRoutes'
        BY Zenon, <1>1, <1>2, <2>1, UpAppends DEF Routed
      <3> QED
        BY <2>1, <3>4, <3>5 DEF Routed, DownTyped
    <2>2. CASE ForwardFail(c) /\ UNCHANGED up
      BY <2>2, ForwardFailRoutes DEF Routed, UpRoutes
    <2> QED
      BY <2>1, <2>2 DEF SendRequest
  <1>4. UNCHANGED <<storage, peer_fds>>
    BY DEF SendRequest
  <1> QED
    BY <1>3, <1>4 DEF Routed, Stored, CacheRoutes

\* A server dies with all its threads.
LEMMA SendKilledRoutes ==
    ASSUME Routed, NEW c \in Conn, SendKilled(c)
    PROVE  Routed'
  <1>1. \A x \in Conn : thread'[x] \in {EndedThread, thread[x]}
    BY DEF SendKilled
  <1>2. thread' \in [Conn -> Thread]
    BY IdleThreads DEF SendKilled, Routed, ThreadsRoute
  <1>3. \A x \in Conn : ThreadRoutes(Server(x), thread'[x])
    BY <1>1, IdleThreads, ServerIsNode DEF Routed, ThreadsRoute
  <1>5. UNCHANGED <<storage, peer_fds, up, down>>
    BY DEF SendKilled
  <1> QED
    BY <1>2, <1>3, <1>5 DEF Routed, Stored, DownTyped, CacheRoutes, UpRoutes, ThreadsRoute

\* A unit of a reply arrives, the right one or another thread's.
LEMMA AwaitReplyRoutes ==
    ASSUME Routed, NEW c \in Conn, AwaitReply(c)
    PROVE  Routed'
  <1> DEFINE fd  == thread[c].fd
             new == Append(thread[c].got, Head(down[fd]))
  <1>1. thread[c] \in Thread /\ thread[c].msg \in Request
    BY ForwarderBusy DEF AwaitReply
  <1>2. /\ thread[c].pc = "await" /\ fd \in PeerConn /\ fd \in Conn /\ fd.src = Server(c)
        /\ thread[c].msg.page \in Owned[fd.dst]
    BY DEF AwaitReply, Routed, ThreadsRoute, ThreadRoutes, Conn
  <1>3. thread[c].got \in Seq(Unit)
    BY <1>1 DEF Thread
  <1>4. down[fd] \in Seq(Unit) /\ down[fd] # <<>> /\ down' = [down EXCEPT ![fd] = Tail(@)]
    BY <1>2 DEF Routed, DownTyped, AwaitReply
  <1>5. Head(down[fd]) \in Unit /\ Tail(down[fd]) \in Seq(Unit)
    <2> HIDE DEF fd
    <2> QED
      BY <1>4, HeadAndTail
  <1>6. new \in Seq(Unit)
    <2> HIDE DEF fd
    <2> QED
      BY <1>3, <1>5, Appended
  <1>7. DownTyped'
    <2> HIDE DEF fd
    <2> QED
      BY <1>2, <1>4, <1>5 DEF Routed, DownTyped
  <1>8. ThreadsRoute'
    <2>1. PICK pc \in {"await", "relay"} : thread' = [thread EXCEPT ![c] =
              [thread[c] EXCEPT !.got = new, !.pc = pc]]
      <3>1. CASE thread' = [thread EXCEPT ![c].got = new]
        BY Zenon, <1>1, <1>2, <3>1 DEF Thread, Routed, ThreadsRoute
      <3>2. CASE thread' = [thread EXCEPT ![c].got = new, ![c].pc = "relay"]
        BY Zenon, <1>1, <3>2 DEF Thread, Routed, ThreadsRoute
      <3> QED
        BY <3>1, <3>2 DEF AwaitReply
    <2> DEFINE t == [thread[c] EXCEPT !.got = new, !.pc = pc]
    <2>2. t \in Thread /\ t.pc = pc /\ t.fd = fd /\ t.msg = thread[c].msg
      <3> HIDE DEF new
      <3> QED
        BY Zenon, <1>1, <1>6 DEF Thread, Phase
    <2> HIDE DEF t
    <2>3. ThreadRoutes(Server(c), t)
      BY <1>1, <1>2, <2>2 DEF ThreadRoutes
    <2> QED
      BY Zenon, <1>1, <2>1, <2>2, <2>3, ThreadMoves DEF Routed, t
  <1>9. UNCHANGED <<storage, up, peer_fds>>
    BY DEF AwaitReply
  <1> QED
    BY <1>7, <1>8, <1>9 DEF Routed, Stored, UpRoutes, CacheRoutes

\* The answer goes back.
LEMMA RelayRoutes ==
    ASSUME Routed, NEW c \in Conn, Relay(c)
    PROVE  Routed'
  <1>1. thread[c].got \in Seq(Unit)
    BY DEF Routed, ThreadsRoute, Thread
  <1>2. ThreadsRoute' /\ DownTyped'
    BY <1>1, RepliesTyped, ReplyRoutes, ForwardFailRoutes DEF Relay
  <1>3. UNCHANGED <<storage, up, peer_fds>>
    BY DEF Relay
  <1> QED
    BY <1>2, <1>3 DEF Routed, Stored, UpRoutes, CacheRoutes

\* A connection breaks, and what was under way may be lost.
LEMMA ResetRoutes ==
    ASSUME Routed, NEW c \in Conn, Reset(c)
    PROVE  Routed'
  <1>1. DownTyped'
    BY Zenon, NoElements DEF Routed, Reset, DownTyped
  <1>2. UpRoutes'
    <2>1. CASE UNCHANGED up
      BY <2>1 DEF Routed, UpRoutes
    <2>2. CASE up' = [up EXCEPT ![c] = <<>>]
      BY <2>2, NoElements DEF Routed, UpRoutes, Conn
    <2> QED
      BY <2>1, <2>2 DEF Reset
  <1>3. UNCHANGED <<storage, peer_fds, thread>>
    BY DEF Reset
  <1> QED
    BY <1>1, <1>2, <1>3 DEF Routed, Stored, CacheRoutes, ThreadsRoute

\* Every step keeps requests on their way to the owner.
LEMMA RoutedKept == Routed /\ [Next]_vars => Routed'
  <1> SUFFICES ASSUME Routed, [Next]_vars PROVE Routed'
    OBVIOUS
  <1>1. ASSUME NEW c \in Client, NEW p \in Page, ClientGet(c, p) PROVE Routed'
    <2>1. [op |-> "GET", page |-> p, val |-> 0, from |-> c] \in Request
      BY DEF Request
    <2> QED
      BY <1>1, <2>1, ClientCallRoutes DEF ClientGet
  <1>2. ASSUME NEW c \in Client, NEW p \in Page, NEW v \in Val, ClientPut(c, p, v)
        PROVE  Routed'
    <2>1. [op |-> "PUT", page |-> p, val |-> v, from |-> c] \in Request
      BY DEF Request
    <2> QED
      BY <1>2, <2>1, ClientCallRoutes DEF ClientPut
  <1>3. ASSUME NEW c \in Conn, ThreadStep(c) PROVE Routed'
    BY <1>3, ReceiveRoutes, FailRoutes, CopyRoutes, FindOwnerRoutes, ConnectRoutes,
       SendRequestRoutes, SendKilledRoutes, AwaitReplyRoutes, RelayRoutes DEF ThreadStep
  <1>4. ASSUME NEW n \in Node, NEW m \in Node, Doubt(n, m) PROVE Routed'
    BY <1>4 DEF Doubt, Routed, Stored, DownTyped, CacheRoutes, UpRoutes, ThreadsRoute
  <1>5. CASE UNCHANGED vars
    BY <1>5 DEF vars, Routed, Stored, DownTyped, CacheRoutes, UpRoutes, ThreadsRoute
  <1> QED
    BY <1>1, <1>2, <1>3, <1>4, <1>5, ClientStepRoutes, ResetRoutes DEF Next

-----------------------------------------------------------------------------
(* Type correctness *)

ClientState ==
    [pc : {"idle", "GET", "PUT", "failed"}, page : Page \cup {0}, val : Val \cup {0}]

\* The rest of the state.
Typed ==
    /\ running \subseteq Node
    /\ dead \in [Node -> SUBSET Node]
    /\ link \in [Conn -> {"closed", "up", "reset"}]
    /\ client \in [Client -> ClientState]
    /\ stored \subseteq Client

\* A client's record through a call.
LEMMA ClientsTyped ==
    ASSUME Typed, NEW c \in Client, NEW t \in ClientState, client' = [client EXCEPT ![c] = t]
    PROVE  client' \in [Client -> ClientState]
BY DEF Typed

\* A client's steps touch no more than its record and the history of PUTs.
LEMMA ClientsKeepTyped ==
    ASSUME Typed, NEW c \in Client,
           (\E msg \in Request : ClientCall(c, msg)) \/ ClientStep(c)
    PROVE  Typed'
  <1>1. client[c] \in ClientState
    BY DEF Typed
  <1>2. running' = running /\ dead' = dead /\ link' = link /\ stored' \subseteq Client
    BY DEF ClientCall, ClientStep, ClientReturn, ClientFail, Typed
  <1>3. ASSUME client' = [client EXCEPT ![c].pc = "failed"]
        PROVE  client' \in [Client -> ClientState]
    <2> DEFINE t == [client[c] EXCEPT !.pc = "failed"]
    <2>1. t \in ClientState
      BY <1>1 DEF ClientState
    <2>2. client' = [client EXCEPT ![c] = t]
      BY <1>1, <1>3 DEF ClientState, Typed
    <2> QED
      BY Zenon, <2>1, <2>2, ClientsTyped
  <1>4. IdleClient \in ClientState
    BY DEF IdleClient, ClientState
  <1>5. ASSUME NEW msg \in Request, ClientCall(c, msg)
        PROVE  client' \in [Client -> ClientState]
    <2> DEFINE t == [pc |-> msg.op, page |-> msg.page, val |-> msg.val]
    <2>1. t \in ClientState
      BY DEF Request, ClientState
    <2>2. client' = [client EXCEPT ![c] = t] \/ client' = [client EXCEPT ![c].pc = "failed"]
      BY <1>5 DEF ClientCall
    <2> HIDE DEF t
    <2> QED
      BY <1>3, <2>1, <2>2, ClientsTyped
  <1>6. CASE ClientReturn(c)
    <2> DEFINE t == [client[c] EXCEPT !.pc = "failed"]
    <2>1. client' = [client EXCEPT ![c] = t] \/ client' = [client EXCEPT ![c] = IdleClient]
      BY Zenon, <1>6 DEF ClientReturn
    <2>2. t \in ClientState
      BY <1>1 DEF ClientState
    <2> HIDE DEF t
    <2>3. client' \in [Client -> ClientState]
      BY <1>4, <2>1, <2>2, ClientsTyped
    <2> QED
      BY <1>2, <2>3 DEF Typed
  <1>7. CASE ClientFail(c)
    BY <1>2, <1>3, <1>7 DEF ClientFail, Typed
  <1> QED
    BY <1>2, <1>5, <1>6, <1>7 DEF ClientStep, Typed

\* The servers' steps.
LEMMA ThreadsKeepTyped ==
    ASSUME Routed, Typed, NEW c \in Conn, ThreadStep(c)
    PROVE  Typed'
  <1>1. dead' = dead /\ client' = client
    BY Zenon DEF ThreadStep, Receive, ReceiveFail, Copy, FindOwner, Connect, ConnectFail,
           SendRequest, SendKilled, AwaitReply, AwaitFail, Relay
  <1>2. running' \subseteq Node
    BY Zenon DEF ThreadStep, Receive, ReceiveFail, Copy, FindOwner, Connect, ConnectFail,
           SendRequest, SendKilled, AwaitReply, AwaitFail, Relay, Typed
  <1>3. stored' \subseteq Client
    <2>1. CASE Copy(c)
      <3>1. thread[c].msg.from \in Client
        BY <2>1 DEF Copy, Routed, ThreadsRoute, ThreadRoutes, Busy, Request
      <3> QED
        BY <2>1, <3>1 DEF Copy, Typed
    <2>2. CASE ~Copy(c)
      BY Zenon, <2>2 DEF ThreadStep, Receive, ReceiveFail, FindOwner, Connect, ConnectFail,
                  SendRequest, SendKilled, AwaitReply, AwaitFail, Relay, Typed
    <2> QED
      BY <2>1, <2>2
  <1>4. link' \in [Conn -> {"closed", "up", "reset"}]
    <2>1. CASE Connect(c)
      <3>1. PICK fd : link' = [link EXCEPT ![fd] = "up"]
        BY Zenon, <2>1 DEF Connect
      <3> QED
        BY Zenon, <3>1 DEF Typed
    <2>2. CASE SendKilled(c)
      BY <2>2 DEF SendKilled, Typed
    <2>3. CASE ~Connect(c) /\ ~SendKilled(c)
      BY Zenon, <2>3 DEF ThreadStep, Receive, ReceiveFail, Copy, FindOwner, ConnectFail,
                  SendRequest, AwaitReply, AwaitFail, Relay, Typed
    <2> QED
      BY <2>1, <2>2, <2>3
  <1> QED
    BY <1>1, <1>2, <1>3, <1>4 DEF Typed

\* Every step keeps the types.
LEMMA TypedKept == Routed /\ Typed /\ [Next]_vars => Typed'
  <1> SUFFICES ASSUME Routed, Typed, [Next]_vars PROVE Typed'
    OBVIOUS
  <1>1. ASSUME NEW c \in Client, NEW p \in Page, ClientGet(c, p) PROVE Typed'
    <2>1. [op |-> "GET", page |-> p, val |-> 0, from |-> c] \in Request
      BY DEF Request
    <2> QED
      BY <1>1, <2>1, ClientsKeepTyped DEF ClientGet
  <1>2. ASSUME NEW c \in Client, NEW p \in Page, NEW v \in Val, ClientPut(c, p, v)
        PROVE  Typed'
    <2>1. [op |-> "PUT", page |-> p, val |-> v, from |-> c] \in Request
      BY DEF Request
    <2> QED
      BY <1>2, <2>1, ClientsKeepTyped DEF ClientPut
  <1>3. ASSUME NEW c \in Client, ClientStep(c) PROVE Typed'
    BY <1>3, ClientsKeepTyped
  <1>4. ASSUME NEW c \in Conn, Reset(c) PROVE Typed'
    BY <1>4 DEF Reset, Typed
  <1>5. ASSUME NEW n \in Node, NEW m \in Node, Doubt(n, m) PROVE Typed'
    BY <1>5 DEF Doubt, Typed
  <1>6. CASE UNCHANGED vars
    BY <1>6 DEF vars, Typed
  <1> QED
    BY <1>1, <1>2, <1>3, <1>4, <1>5, <1>6, ThreadsKeepTyped DEF Next

\* Both hold in every state.
LEMMA AlwaysTyped == Spec => [](Routed /\ Typed)
  <1>1. Init => Typed
    BY DEF Init, Typed, IdleClient, ClientState
  <1> QED
    BY RoutedInitially, RoutedKept, TypedKept, <1>1, PTL DEF Spec

\* Type correctness: the cached connections lead where get_peer_connection
\* thinks they lead, pages keep their length while memcpy runs on them
\* without a lock, and nothing but requests and whole units is in flight,
\* also when a node forwards to itself or threads share a connection.
THEOREM TypeCorrect == Spec => []TypeOK
  <1>1. Routed /\ Typed => TypeOK
    <2> SUFFICES ASSUME Routed, Typed PROVE TypeOK
      OBVIOUS
    <2>1. storage \in [Node -> [Page -> [1 .. PageUnits -> Unit]]]
      BY DEF Routed, Stored
    <2>2. /\ up \in [Conn -> Seq(Request)] /\ down \in [Conn -> Seq(Unit)]
          /\ \A c \in Conn : thread[c].pc \in Phase
      BY DEF Routed, UpRoutes, DownTyped, ThreadsRoute, Thread
    <2>3. \A n, m \in Node : peer_fds[n][m] \in
              {NoFd} \cup {f \in PeerConn : f.src = n /\ f.dst = m}
      BY DEF Routed, CacheRoutes
    <2>4. \A c \in Client : client[c].pc \in {"idle", "GET", "PUT", "failed"}
      BY DEF Typed, ClientState
    <2> QED
      BY <2>1, <2>2, <2>3, <2>4 DEF TypeOK, Typed, Phase
  <1> QED
    BY AlwaysTyped, <1>1, PTL

-----------------------------------------------------------------------------
(* A request crosses one connection between servers *)

\* What another thread than x's does leaves thread x as it is or ends it.
LEMMA OthersStay ==
    ASSUME Routed, NEW c \in Conn, ThreadStep(c), NEW x \in Conn, x # c
    PROVE  thread'[x] \in {thread[x], EndedThread}
  <1>1. thread \in [Conn -> Thread]
    BY DEF Routed, ThreadsRoute
  <1>2. CASE SendKilled(c)
    BY Zenon, <1>2 DEF SendKilled
  <1>3. CASE Receive(c) \/ ReceiveFail(c) \/ Copy(c)
    BY Zenon, <1>1, <1>3 DEF Receive, ReceiveFail, Copy, Reply, Exit
  <1>4. CASE FindOwner(c) \/ Connect(c) \/ ConnectFail(c)
    BY Zenon, <1>1, <1>4 DEF FindOwner, Connect, ConnectFail, ForwardFail, Reply, Exit
  <1>5. CASE SendRequest(c) \/ AwaitReply(c) \/ AwaitFail(c) \/ Relay(c)
    BY Zenon, <1>1, <1>5 DEF SendRequest, AwaitReply, AwaitFail, Relay, ForwardFail, Reply, Exit, Goto
  <1> QED
    BY <1>2, <1>3, <1>4, <1>5 DEF ThreadStep

\* Over a peer connection a request comes for a page the node owns, has room
\* for and therefore serves: it is not forwarded.
LEMMA PeerServes ==
    ASSUME Routed, RangesFit, NEW c \in PeerConn, ForwardOnce, ThreadStep(c)
    PROVE  thread'[c].pc \in {"recv", "copy", "exit"}
  <1>1. c \in Conn /\ thread \in [Conn -> Thread] /\ thread[c] \in Thread
    BY DEF Routed, ThreadsRoute, Conn
  <1>2. thread[c].pc \in {"recv", "copy", "exit"}
    BY <1>1 DEF ForwardOnce, Thread, Phase
  <1>3. Receive(c) \/ ReceiveFail(c) \/ Copy(c)
    BY Zenon, <1>2 DEF ThreadStep, FindOwner, Connect, ConnectFail, SendRequest, SendKilled,
                AwaitReply, AwaitFail, Relay
  <1>4. \A units : Reply(c, units) => thread'[c].pc \in {"recv", "exit"}
    BY <1>1 DEF Reply, IdleThread, EndedThread
  <1>5. Exit(c) => thread'[c].pc = "exit"
    BY <1>1 DEF Exit, EndedThread
  <1>6. CASE Receive(c)
    <2>1. Head(up[c]).page \in Owned[c.dst] /\ Server(c) = c.dst /\ c.dst \in Node
      BY Zenon, <1>1, <1>6, UpTails, ServerIsNode DEF Routed, Receive, Server
    <2>2. Serves(Server(c), Head(up[c]).page)
      BY <2>1 DEF RangesFit, Serves
    <2>3. CASE Reply(c, storage[Server(c)][Head(up[c]).page])
      BY <1>4, <2>3
    <2>4. CASE thread' = [thread EXCEPT ![c].pc = "copy", ![c].msg = Head(up[c])]
      BY <1>1, <2>4 DEF Thread
    <2> QED
      BY <1>6, <2>2, <2>3, <2>4 DEF Receive
  <1>7. CASE ReceiveFail(c)
    BY <1>5, <1>7 DEF ReceiveFail
  <1>8. CASE Copy(c)
    <2>1. CASE Reply(c, <<Ack>>)
      BY <1>4, <2>1
    <2>2. CASE ~Reply(c, <<Ack>>)
      <3>1. thread' = [thread EXCEPT ![c].got =
                          Append(@, Data(thread[c].msg.page, thread[c].msg.val))]
        BY <1>8, <2>2 DEF Copy
      <3>2. thread'[c].pc = thread[c].pc
        BY <1>1, <3>1 DEF Thread
      <3> QED
        BY <1>2, <3>2
    <2> QED
      BY <2>1, <2>2
  <1> QED
    BY <1>3, <1>6, <1>7, <1>8

\* No step makes the thread of a peer connection forward.
LEMMA ForwardOnceKept == Routed /\ RangesFit /\ ForwardOnce /\ [Next]_vars => ForwardOnce'
  <1> SUFFICES ASSUME Routed, RangesFit, ForwardOnce, [Next]_vars, NEW x \in PeerConn
               PROVE  thread'[x].pc \notin {"forward", "connect", "send", "await", "relay"}
    BY DEF ForwardOnce
  <1>1. x \in Conn
    BY DEF Conn
  <1>2. ASSUME NEW c \in Conn, ThreadStep(c)
        PROVE  thread'[x].pc \notin {"forward", "connect", "send", "await", "relay"}
    <2>1. CASE c = x
      BY <1>2, <2>1, PeerServes
    <2>2. CASE c # x
      BY <1>1, <1>2, <2>2, OthersStay DEF ForwardOnce, EndedThread
    <2> QED
      BY <2>1, <2>2
  <1>3. CASE thread' = thread
    BY <1>3 DEF ForwardOnce
  <1> QED
    BY Zenon, <1>2, <1>3 DEF Next, ClientGet, ClientPut, ClientCall, ClientStep, ClientReturn,
                      ClientFail, Reset, Doubt, vars

\* When every node has room for its page range (its -r within its -n), the
\* thread of a peer connection never forwards: a request crosses at most one
\* connection between servers, whichever node tables, doubts, broken
\* connections and interleavings led it there.
THEOREM ForwardedOnce ==
    ASSUME RangesFit
    PROVE  Spec => []ForwardOnce
  <1>1. Init => Routed
    BY RoutedInitially
  <1>2. Routed /\ [Next]_vars => Routed'
    BY RoutedKept
  <1>3. Init => ForwardOnce
    BY DEF Init, ForwardOnce, IdleThread, Conn
  <1>4. Routed /\ ForwardOnce /\ [Next]_vars => ForwardOnce'
    BY ForwardOnceKept
  <1> QED
    BY <1>1, <1>2, <1>3, <1>4, PTL DEF Spec

-----------------------------------------------------------------------------
(* One client per node: every reply is that client's *)

\* No two clients are connected to the same node.
OneClientPerNode == \A c, d \in Client : Home[c] = Home[d] => c = d

\* The units that may answer a request.
Fitting(op, p) ==
    IF op = "GET" THEN {u \in Unit : u = Zero \/ (u.kind = "data" /\ u.page = p)}
                  ELSE {Ack}

\* A page of storage holds its own data.
PagesPure ==
    \A n \in Node, p \in Page : storage[n][p] \in [1 .. PageUnits -> Fitting("GET", p)]

\* A thread starts to receive with an empty buffer.
Fresh == \A c \in Conn :
    thread[c].pc \in {"recv", "forward", "connect", "send", "exit"} => thread[c].got = <<>>

OwnConn(c) == [client |-> c]
Resting    == {"recv", "exit"}

\* The request client c is waiting for.
Msg(c) == [op |-> client[c].pc, page |-> client[c].page, val |-> client[c].val, from |-> c]

\* A client that waits has one request: on its way, in the hands of its
\* thread, or answered, dropped or lost.
ClientSide(c) ==
    /\ client[c].pc = "idle" =>
        /\ up[OwnConn(c)] = <<>> /\ down[OwnConn(c)] = <<>>
        /\ thread[OwnConn(c)].pc \in Resting
    /\ client[c].pc \in {"GET", "PUT"} =>
        /\ down[OwnConn(c)] \in Seq(Fitting(client[c].pc, client[c].page))
        /\ Len(down[OwnConn(c)]) <= Wanted(client[c].pc)
        /\ client[c].pc = "PUT" /\ down[OwnConn(c)] # <<>> => c \in stored
        /\ \/ /\ up[OwnConn(c)] = <<Msg(c)>> /\ down[OwnConn(c)] = <<>>
              /\ thread[OwnConn(c)].pc \in Resting
           \/ /\ up[OwnConn(c)] = <<>> /\ down[OwnConn(c)] = <<>>
              /\ thread[OwnConn(c)].pc \in Busy /\ thread[OwnConn(c)].msg = Msg(c)
           \/ /\ up[OwnConn(c)] = <<>>
              /\ thread[OwnConn(c)].pc \in Resting

\* What the thread of client c has received from a peer is for its request.
Received(c) ==
    /\ thread[OwnConn(c)].pc \in {"await", "relay"} =>
            thread[OwnConn(c)].got \in Seq(Fitting(client[c].pc, client[c].page))
    /\ thread[OwnConn(c)].pc = "await" => Len(thread[OwnConn(c)].got) < Wanted(client[c].pc)
    /\ thread[OwnConn(c)].pc = "relay" =>
        /\ Len(thread[OwnConn(c)].got) = Wanted(client[c].pc)
        /\ client[c].pc = "PUT" => c \in stored

\* The peer connection fd the thread of client c is waiting on carries that
\* request or its answer.
Awaited(c, fd) ==
    /\ down[fd] \in Seq(Fitting(client[c].pc, client[c].page))
    /\ Len(thread[OwnConn(c)].got) + Len(down[fd]) <= Wanted(client[c].pc)
    /\ client[c].pc = "PUT" /\ down[fd] # <<>> => c \in stored
    /\ \/ /\ up[fd] = <<Msg(c)>> /\ thread[OwnConn(c)].got = <<>> /\ down[fd] = <<>>
          /\ thread[fd].pc \in Resting
       \/ /\ up[fd] = <<>> /\ thread[OwnConn(c)].got = <<>> /\ down[fd] = <<>>
          /\ thread[fd].pc = "copy" /\ thread[fd].msg = Msg(c)
       \/ up[fd] = <<>> /\ thread[fd].pc \in Resting

\* Any other carries nothing, unless it is broken and its server is still
\* busy with what came before.
Quiet(fd) ==
    /\ down[fd] = <<>>
    /\ link[fd] # "reset" => up[fd] = <<>> /\ thread[fd].pc \in Resting

WaitsOn(c, fd) == thread[OwnConn(c)].pc = "await" /\ thread[OwnConn(c)].fd = fd

PeerSide(c) ==
    \A fd \in PeerConn : fd.src = Home[c] =>
        IF WaitsOn(c, fd) THEN Awaited(c, fd) ELSE Quiet(fd)

\* All of it, for a client that has not failed: one that has makes no further
\* call, and no other client uses its thread or the connections of its node.
Served(c) == client[c].pc # "failed" => ClientSide(c) /\ Received(c) /\ PeerSide(c)

AllServed == PagesPure /\ Fresh /\ \A c \in Client : Served(c)

\* A client has a connection of its own, accepted by its home node.
LEMMA OwnConns ==
    ASSUME NEW c \in Client
    PROVE  /\ OwnConn(c) \in Conn /\ OwnConn(c) \notin PeerConn
           /\ Server(OwnConn(c)) = Home[c] /\ Home[c] \in Node
           /\ \A d \in Client : OwnConn(c) = OwnConn(d) => c = d
           /\ \A fd \in PeerConn : fd \in Conn /\ fd # OwnConn(c)
  <1>1. OwnConn(c) \in Conn /\ OwnConn(c) \notin PeerConn
    BY ConnectionsDiffer DEF OwnConn
  <1>2. OwnConn(c).client = c /\ \A d \in Client : OwnConn(d).client = d
    BY DEF OwnConn
  <1>3. Server(OwnConn(c)) = Home[c]
    BY <1>1, <1>2 DEF Server
  <1>4. \A fd \in PeerConn : fd \in Conn
    BY DEF Conn
  <1> QED
    BY <1>1, <1>2, <1>3, <1>4, ForwardingAssumption

\* The connections are these.
LEMMA ConnIsOwnOrPeer ==
    ASSUME NEW x \in Conn
    PROVE  x \in PeerConn \/ \E c \in Client : x = OwnConn(c)
BY DEF Conn, ClientConn, OwnConn

\* The request a server reads is the one its client sent.
LEMMA MsgFields ==
    \A c : Msg(c).op = client[c].pc /\ Msg(c).page = client[c].page /\ Msg(c).from = c
  BY DEF Msg

\* Every request waits for a reply of some length.
LEMMA SomeWanted ==
    ASSUME NEW op
    PROVE  /\ Wanted(op) \in Nat /\ Wanted(op) \in Nat \ {0}
           /\ 0 <= Wanted(op) /\ 0 < Wanted(op)
  BY ForwardingAssumption DEF Wanted

\* The replies a server makes up or finds fit.
LEMMA RepliesFit ==
    ASSUME NEW p \in Page
    PROVE  /\ ZeroPage \in Seq(Fitting("GET", p)) /\ Len(ZeroPage) = PageUnits
           /\ <<Ack>> \in Seq(Fitting("PUT", p)) /\ Len(<<Ack>>) = 1
           /\ \A s \in [1 .. PageUnits -> Fitting("GET", p)] :
                s \in Seq(Fitting("GET", p)) /\ Len(s) = PageUnits
  <1>1. Zero \in Fitting("GET", p) /\ Ack \in Fitting("PUT", p)
    BY DEF Fitting, Unit
  <1> DEFINE F == Fitting("GET", p)
             G == Fitting("PUT", p)
  <1> HIDE DEF F, G
  <1>2. ZeroPage \in [1 .. PageUnits -> F]
    BY <1>1 DEF ZeroPage, F
  <1>3. \A s \in [1 .. PageUnits -> F] : s \in Seq(F) /\ Len(s) = PageUnits
    BY ForwardingAssumption, Tuples, Elements
  <1>4. <<Ack>> \in Seq(G) /\ Len(<<Ack>>) = 1
    BY <1>1 DEF G
  <1> QED
    BY <1>2, <1>3, <1>4 DEF F, G

\* memcpy puts a page's data into that page.
LEMMA PagesPureKept == Routed /\ PagesPure /\ [Next]_vars => PagesPure'
  <1> SUFFICES ASSUME Routed, PagesPure, [Next]_vars PROVE PagesPure'
    OBVIOUS
  <1>1. ASSUME NEW c \in Conn, Copy(c) PROVE PagesPure'
    <2> DEFINE n   == Server(c)
               msg == thread[c].msg
               i   == Len(thread[c].got) + 1
               d   == Data(msg.page, msg.val)
    <2>1. msg \in Request /\ msg.op = "PUT"
      BY <1>1 DEF Copy, Routed, ThreadsRoute, ThreadRoutes, Busy
    <2>2. msg.page \in Page /\ d \in Fitting("GET", msg.page)
      BY <2>1 DEF Request, Data, Fitting, Unit
    <2>3. storage' = [storage EXCEPT ![n][msg.page][i] = d]
      BY <1>1 DEF Copy
    <2>4. n \in Node /\ storage \in [Node -> [Page -> [1 .. PageUnits -> Unit]]]
      BY ServerIsNode DEF Routed, Stored
    <2> HIDE DEF n, msg, i, d
    <2>5. ASSUME NEW m \in Node, NEW p \in Page
          PROVE  storage'[m][p] \in [1 .. PageUnits -> Fitting("GET", p)]
      <3>1. storage[m][p] \in [1 .. PageUnits -> Fitting("GET", p)]
        BY DEF PagesPure
      <3>2. CASE m = n /\ p = msg.page
        <4>1. storage'[m][p] = [storage[m][p] EXCEPT ![i] = d]
          BY <2>2, <2>3, <2>4, <3>2
        <4> QED
          BY Zenon, <2>2, <3>1, <3>2, <4>1
      <3>3. CASE ~(m = n /\ p = msg.page)
        <4>1. storage'[m][p] = storage[m][p]
          BY <2>2, <2>3, <2>4, <3>3
        <4> QED
          BY <3>1, <4>1
      <3> QED
        BY <3>2, <3>3
    <2> QED
      BY <2>5 DEF PagesPure
  <1>2. CASE storage' = storage
    BY <1>2 DEF PagesPure
  <1> QED
    BY ZenonT(60), <1>1, <1>2 DEF Next, ClientGet, ClientPut, ClientCall, ClientStep, ClientReturn,
           ClientFail, Reset, Doubt, vars, ThreadStep, Receive, ReceiveFail, FindOwner, Connect,
           ConnectFail, SendRequest, SendKilled, AwaitReply, AwaitFail, Relay

\* Only a thread that copies or waits has anything in its buffer.
LEMMA FreshKept == Routed /\ Fresh /\ [Next]_vars => Fresh'
  <1> SUFFICES ASSUME Routed, Fresh, [Next]_vars, NEW x \in Conn,
                      thread'[x].pc \in {"recv", "forward", "connect", "send", "exit"}
               PROVE  thread'[x].got = <<>>
    BY DEF Fresh
  <1>0. thread \in [Conn -> Thread] /\ thread[x] \in Thread
    BY DEF Routed, ThreadsRoute
  <1>1. IdleThread.got = <<>> /\ EndedThread.got = <<>>
    BY DEF IdleThread, EndedThread
  <1>2. ASSUME thread'[x] = thread[x] \/ thread'[x] = EndedThread \/ thread'[x] = IdleThread
        PROVE  thread'[x].got = <<>>
    BY <1>1, <1>2 DEF Fresh
  <1>3. ASSUME NEW c \in Conn, ThreadStep(c), x # c PROVE thread'[x].got = <<>>
    BY <1>2, <1>3, OthersStay
  <1>4. ASSUME ThreadStep(x) PROVE thread'[x].got = <<>>
    <2>1. ASSUME NEW units, Reply(x, units) \/ Exit(x) PROVE thread'[x].got = <<>>
      BY <1>0, <1>1, <2>1 DEF Reply, Exit
    <2>2. CASE Receive(x)
      <3>1. CASE \E units : Reply(x, units) \/ Exit(x)
        BY <2>1, <3>1
      <3>2. CASE ~\E units : Reply(x, units) \/ Exit(x)
        <4>1. thread[x].pc = "recv" /\ thread[x].got = <<>>
          BY <2>2 DEF Receive, Fresh
        <4>2. \E pc : thread' = [thread EXCEPT ![x].pc = pc, ![x].msg = Head(up[x])]
          BY Zenon, <2>2, <3>2 DEF Receive
        <4> QED
          BY <1>0, <4>1, <4>2 DEF Thread
      <3> QED
        BY <3>1, <3>2
    <2>3. CASE ReceiveFail(x) \/ ConnectFail(x) \/ AwaitFail(x) \/ Relay(x)
      BY <2>1, <2>3 DEF ReceiveFail, ConnectFail, AwaitFail, Relay, ForwardFail
    <2>4. CASE Copy(x)
      <3>1. CASE Reply(x, <<Ack>>)
        BY <2>1, <3>1
      <3>2. CASE ~Reply(x, <<Ack>>)
        <4>1. thread[x].pc = "copy" /\ \E g : thread' = [thread EXCEPT ![x].got = g]
          BY <2>4, <3>2 DEF Copy
        <4>2. thread'[x].pc = "copy"
          BY <1>0, <4>1 DEF Thread
        <4> QED
          BY <4>2
      <3> QED
        BY <3>1, <3>2
    <2>5. CASE FindOwner(x)
      <3>1. CASE ForwardFail(x)
        BY <2>1, <3>1 DEF ForwardFail
      <3>2. CASE ~ForwardFail(x)
        <4>1. thread[x].got = <<>>
          BY <2>5 DEF FindOwner, Fresh
        <4>2. \E pc, fd : thread' = [thread EXCEPT ![x].pc = pc, ![x].fd = fd]
          BY Zenon, <2>5, <3>2 DEF FindOwner
        <4> QED
          BY <1>0, <4>1, <4>2 DEF Thread
      <3> QED
        BY <3>1, <3>2
    <2>6. CASE Connect(x)
      <3>1. thread[x].got = <<>>
        BY <2>6 DEF Connect, Fresh
      <3>2. \E fd : thread' = [thread EXCEPT ![x].pc = "send", ![x].fd = fd]
        BY Zenon, <2>6 DEF Connect
      <3> QED
        BY <1>0, <3>1, <3>2 DEF Thread
    <2>7. CASE SendRequest(x)
      <3>1. CASE ForwardFail(x)
        BY <2>1, <3>1 DEF ForwardFail
      <3>2. CASE ~ForwardFail(x)
        <4>1. thread' = [thread EXCEPT ![x].pc = "await"]
          BY <2>7, <3>2 DEF SendRequest, Goto
        <4>2. thread'[x].pc = "await"
          BY <1>0, <4>1 DEF Thread
        <4> QED
          BY <4>2
      <3> QED
        BY <3>1, <3>2
    <2>8. CASE SendKilled(x)
      BY Zenon, <1>2, <2>8 DEF SendKilled
    <2>9. CASE AwaitReply(x)
      <3>1. thread[x].pc = "await"
        BY <2>9 DEF AwaitReply
      <3>2. \E g : \/ thread' = [thread EXCEPT ![x].got = g]
                  \/ thread' = [thread EXCEPT ![x].got = g, ![x].pc = "relay"]
        BY Zenon, <2>9 DEF AwaitReply
      <3>3. thread'[x].pc \in {"await", "relay"}
        BY <1>0, <3>1, <3>2 DEF Thread
      <3> QED
        BY <3>3
    <2> QED
      BY Zenon, <1>4, <2>2, <2>3, <2>4, <2>5, <2>6, <2>7, <2>8, <2>9 DEF ThreadStep
  <1>5. CASE thread' = thread
    BY <1>2, <1>5
  <1> QED
    BY Zenon, <1>3, <1>4, <1>5 DEF Next, ClientGet, ClientPut, ClientCall, ClientStep, ClientReturn,
                            ClientFail, Reset, Doubt, vars

\* The thread of x is done with its request and has sent units or nothing;
\* the other threads and what they sent are as before.
Ends(x, units) ==
    /\ \A y \in Conn : y # x => thread'[y] = thread[y] /\ down'[y] = down[y]
    /\ thread'[x].pc \in Resting
    /\ down'[x] = down[x] \/ down'[x] = down[x] \o units

LEMMA RepliesEnd ==
    ASSUME Routed, NEW x \in Conn, NEW units, Reply(x, units) \/ Exit(x)
    PROVE  Ends(x, units)
  <1>1. thread \in [Conn -> Thread] /\ down \in [Conn -> Seq(Unit)]
    BY DEF Routed, ThreadsRoute, DownTyped
  <1>2. IdleThread.pc \in Resting /\ EndedThread.pc \in Resting
    BY DEF IdleThread, EndedThread, Resting
  <1> QED
    BY <1>1, <1>2 DEF Reply, Exit, Ends

\* An answer client c can be given.
GoodReply(c, units) ==
    /\ units \in Seq(Fitting(client[c].pc, client[c].page))
    /\ Len(units) <= Wanted(client[c].pc)
    /\ client[c].pc = "PUT" => units = <<>> \/ c \in stored'

\* Zeroes answer a GET; nothing at all is never wrong.
LEMMA ZeroesAreGood ==
    ASSUME NEW c \in Client, client[c].pc = "GET", client[c].page \in Page
    PROVE  GoodReply(c, ZeroPage)
  <1>1. ZeroPage \in Seq(Fitting("GET", client[c].page)) /\ Len(ZeroPage) = PageUnits
    BY RepliesFit
  <1>2. Len(ZeroPage) <= Wanted(client[c].pc)
    BY <1>1, ForwardingAssumption DEF Wanted
  <1> QED
    BY <1>1, <1>2 DEF GoodReply

LEMMA NoReplyIsGood ==
    ASSUME NEW c \in Client
    PROVE  GoodReply(c, <<>>)
  <1> DEFINE F == Fitting(client[c].pc, client[c].page)
  <1>1. <<>> \in Seq(F) /\ Len(<<>>) = 0
    <2> HIDE DEF F
    <2> QED
      OBVIOUS
  <1>2. Len(<<>>) <= Wanted(client[c].pc)
    BY <1>1, ForwardingAssumption DEF Wanted
  <1> QED
    BY <1>1, <1>2 DEF GoodReply

\* The connections client c's node has opened carry nothing.
Calm(c) == \A fd \in PeerConn : fd.src = Home[c] => Quiet(fd)

\* What a connection may lose: a break drops what is under way, and the death
\* of a server ends its threads.
Loses(y) ==
    /\ thread'[y] \in {thread[y], EndedThread} /\ link'[y] \in {link[y], "reset"}
    /\ up'[y] \in {up[y], <<>>} /\ down'[y] \in {down[y], <<>>}

\* Steps that leave client c and its thread alone and add nothing to its own
\* connection and those of its node.
LEMMA Untouched ==
    ASSUME NEW c \in Client, Served(c), client'[c] = client[c],
           c \in stored => c \in stored',
           thread'[OwnConn(c)] = thread[OwnConn(c)], Loses(OwnConn(c)),
           \A fd \in PeerConn : fd.src = Home[c] => Loses(fd)
    PROVE  Served(c)'
  <1> SUFFICES ASSUME client[c].pc # "failed"
               PROVE  ClientSide(c)' /\ Received(c)' /\ PeerSide(c)'
    BY DEF Served
  <1> DEFINE F == Fitting(client[c].pc, client[c].page)
             w == Wanted(client[c].pc)
  <1>1. ClientSide(c) /\ Received(c) /\ PeerSide(c)
    BY DEF Served
  <1>2. <<>> \in Seq(F) /\ Len(<<>>) = 0 /\ w \in Nat
    <2>1. w \in Nat
      BY Zenon, SomeWanted
    <2> HIDE DEF F, w
    <2> QED
      BY <2>1
  <1>3. ClientSide(c)'
    <2>1. /\ up'[OwnConn(c)] \in {up[OwnConn(c)], <<>>}
          /\ down'[OwnConn(c)] \in {down[OwnConn(c)], <<>>}
      BY DEF Loses
    <2>2. Msg(c)' = Msg(c)
      BY DEF Msg
    <2>3. Len(<<>>) <= w
      <3> HIDE DEF w
      <3> QED
        BY <1>2
    <2>4. CASE client[c].pc = "idle"
      BY Zenon, <1>1, <2>1, <2>4 DEF ClientSide
    <2>5. CASE client[c].pc \in {"GET", "PUT"}
      <3>1. /\ down'[OwnConn(c)] \in Seq(F) /\ Len(down'[OwnConn(c)]) <= w
            /\ client[c].pc = "PUT" /\ down'[OwnConn(c)] # <<>> => c \in stored'
        <4>1. /\ down[OwnConn(c)] \in Seq(F) /\ Len(down[OwnConn(c)]) <= w
              /\ client[c].pc = "PUT" /\ down[OwnConn(c)] # <<>> => c \in stored
          BY Zenon, <1>1, <2>5 DEF ClientSide
        <4> HIDE DEF F, w
        <4> QED
          BY Zenon, <1>2, <2>1, <2>3, <4>1
      <3> QED
        BY Zenon, <1>1, <2>1, <2>2, <2>5, <3>1 DEF ClientSide
    <2> QED
      BY Zenon, <2>4, <2>5 DEF ClientSide
  <1>4. Received(c)'
    BY <1>1 DEF Received
  <1>5. ASSUME NEW fd \in PeerConn, fd.src = Home[c]
        PROVE  (IF WaitsOn(c, fd) THEN Awaited(c, fd) ELSE Quiet(fd))'
    <2>1. IF WaitsOn(c, fd) THEN Awaited(c, fd) ELSE Quiet(fd)
      BY Zenon, <1>1, <1>5 DEF PeerSide
    <2>2. WaitsOn(c, fd)' <=> WaitsOn(c, fd)
      BY DEF WaitsOn
    <2>3. EndedThread.pc \in Resting
      BY DEF EndedThread, Resting
    <2>4. ASSUME WaitsOn(c, fd), Awaited(c, fd) PROVE Awaited(c, fd)'
      <3>1. Len(thread[OwnConn(c)].got) + Len(<<>>) <= w
        <4>1. thread[OwnConn(c)].got \in Seq(F) /\ Len(thread[OwnConn(c)].got) < w
          BY Zenon, <1>1, <2>4 DEF Received, WaitsOn
        <4>2. Len(thread[OwnConn(c)].got) \in Nat
          <5> HIDE DEF F
          <5> QED
            BY <4>1
        <4> HIDE DEF w
        <4> QED
          BY Zenon, <1>2, <4>1, <4>2, Bounds
      <3>2. Loses(fd)
        BY <1>5
      <3> QED
        BY Zenon, <1>2, <2>3, <2>4, <3>1, <3>2 DEF Awaited, Msg, Loses
    <2>5. Quiet(fd) => Quiet(fd)'
      BY <1>5, <2>3 DEF Quiet, Loses
    <2> QED
      BY Zenon, <2>1, <2>2, <2>4, <2>5
  <1>6. PeerSide(c)'
    BY <1>5 DEF PeerSide
  <1> QED
    BY <1>3, <1>4, <1>6

\* A waiting client's thread is done.
LEMMA OwnEnds ==
    ASSUME NEW c \in Client, client[c].pc \in {"GET", "PUT"}, client'[c] = client[c],
           NEW units, GoodReply(c, units), Ends(OwnConn(c), units),
           down[OwnConn(c)] = <<>>, up'[OwnConn(c)] = <<>>, Calm(c),
           \A fd \in PeerConn : fd.src = Home[c] => up'[fd] = up[fd] /\ link'[fd] = link[fd]
    PROVE  Served(c)'
  <1> DEFINE F == Fitting(client[c].pc, client[c].page)
  <1>0. OwnConn(c) \in Conn /\ \A fd \in PeerConn : fd \in Conn /\ fd # OwnConn(c)
    BY Zenon, OwnConns
  <1>1. units \in Seq(F) /\ Len(units) <= Wanted(client[c].pc)
    BY DEF GoodReply
  <1>2. 0 <= Wanted(client[c].pc) /\ Wanted(client[c].pc) \in Nat
    BY Zenon, SomeWanted
  <1>3. down'[OwnConn(c)] = <<>> \/ down'[OwnConn(c)] = units
    <2>1. <<>> \o units = units
      <3> HIDE DEF F
      <3> QED
        BY Zenon, <1>1, JoinedToNothing
    <2> QED
      BY Zenon, <2>1 DEF Ends
  <1>4. down'[OwnConn(c)] \in Seq(F) /\ Len(down'[OwnConn(c)]) <= Wanted(client[c].pc)
    <2> HIDE DEF F
    <2>1. <<>> \in Seq(F) /\ Len(<<>>) = 0
      BY Zenon, NoElements
    <2>2. CASE down'[OwnConn(c)] = <<>>
      BY Zenon, <1>2, <2>1, <2>2
    <2>3. CASE down'[OwnConn(c)] = units
      BY Zenon, <1>1, <2>3
    <2> QED
      BY Zenon, <1>3, <2>2, <2>3
  <1>5. client[c].pc = "PUT" /\ down'[OwnConn(c)] # <<>> => c \in stored'
    BY Zenon, <1>3 DEF GoodReply
  <1>6. thread'[OwnConn(c)].pc \in Resting
    BY Zenon DEF Ends
  <1>7. ClientSide(c)'
    BY Zenon, <1>4, <1>5, <1>6 DEF ClientSide
  <1>8. Received(c)'
    BY <1>6 DEF Received, Resting
  <1>9. ASSUME NEW fd \in PeerConn, fd.src = Home[c]
        PROVE  (~WaitsOn(c, fd) /\ Quiet(fd))'
    <2>1. Quiet(fd)
      BY <1>9 DEF Calm
    <2>2. thread'[fd] = thread[fd] /\ down'[fd] = down[fd]
      BY <1>0 DEF Ends
    <2> QED
      BY <1>6, <1>9, <2>1, <2>2 DEF Quiet, WaitsOn, Resting
  <1> QED
    BY Zenon, <1>7, <1>8, <1>9 DEF Served, PeerSide

\* A waiting client's thread goes on with the request, not yet receiving.
LEMMA OwnMoves ==
    ASSUME NEW c \in Client, client[c].pc \in {"GET", "PUT"}, client'[c] = client[c],
           thread'[OwnConn(c)].pc \in Busy \ {"await", "relay"},
           thread'[OwnConn(c)].msg = Msg(c), down' = down,
           down[OwnConn(c)] = <<>>, up'[OwnConn(c)] = <<>>, Calm(c)'
    PROVE  Served(c)'
  <1> DEFINE F == Fitting(client[c].pc, client[c].page)
  <1>1. <<>> \in Seq(F) /\ Len(<<>>) <= Wanted(client[c].pc)
    <2> HIDE DEF F
    <2> QED
      BY ForwardingAssumption DEF Wanted
  <1>2. ClientSide(c)'
    BY Zenon, <1>1 DEF ClientSide, Msg
  <1>3. Received(c)'
    BY DEF Received, Busy
  <1>4. PeerSide(c)'
    BY DEF PeerSide, Calm, WaitsOn, Busy
  <1> QED
    BY <1>2, <1>3, <1>4 DEF Served

\* A client whose thread waits for no peer has nothing coming from one.
LEMMA NotWaiting ==
    ASSUME NEW c \in Client, PeerSide(c), thread[OwnConn(c)].pc # "await"
    PROVE  Calm(c)
BY DEF PeerSide, Calm, WaitsOn

\* What is known of client c when its thread has a request in hand.
LEMMA OwnRequest ==
    ASSUME Routed, Typed, NEW c \in Client, Served(c), client[c].pc # "failed",
           thread[OwnConn(c)].pc \in Busy
    PROVE  /\ client[c].pc \in {"GET", "PUT"} /\ client[c].page \in Page
           /\ thread[OwnConn(c)].msg = Msg(c)
           /\ thread[OwnConn(c)].msg.op = client[c].pc
           /\ up[OwnConn(c)] = <<>> /\ down[OwnConn(c)] = <<>>
           /\ thread[OwnConn(c)].pc # "await" => Calm(c)
  <1>1. OwnConn(c) \in Conn
    BY OwnConns
  <1>2. ClientSide(c) /\ PeerSide(c)
    BY Zenon DEF Served
  <1>3. client[c].pc \in {"idle", "GET", "PUT"}
    BY DEF Typed, ClientState
  <1>4. thread[OwnConn(c)].pc \notin Resting
    BY DEF Busy, Resting
  <1>5. client[c].pc \in {"GET", "PUT"}
    BY Zenon, <1>2, <1>3, <1>4 DEF ClientSide
  <1>6. /\ thread[OwnConn(c)].msg = Msg(c)
        /\ up[OwnConn(c)] = <<>> /\ down[OwnConn(c)] = <<>>
    BY Zenon, <1>2, <1>4, <1>5 DEF ClientSide
  <1>7. thread[OwnConn(c)].msg \in Request
    BY <1>1 DEF Routed, ThreadsRoute, ThreadRoutes
  <1>8. Msg(c).op = client[c].pc /\ Msg(c).page = client[c].page
    BY Zenon DEF Msg
  <1>9. client[c].page \in Page
    BY Zenon, <1>6, <1>7, <1>8 DEF Request
  <1> QED
    BY Zenon, <1>2, <1>5, <1>6, <1>8, <1>9, NotWaiting

\* A failed forward is zeroes to a GET and the end of the thread to a PUT.
LEMMA OwnFails ==
    ASSUME Routed, Typed, NEW c \in Client, Served(c), client[c].pc # "failed",
           thread[OwnConn(c)].pc \in Busy, Calm(c), ForwardFail(OwnConn(c)),
           UNCHANGED <<up, link, client, stored>>
    PROVE  Served(c)'
  <1>1. OwnConn(c) \in Conn
    BY OwnConns
  <1>2. /\ client[c].pc \in {"GET", "PUT"} /\ client[c].page \in Page
        /\ thread[OwnConn(c)].msg.op = client[c].pc
        /\ up[OwnConn(c)] = <<>> /\ down[OwnConn(c)] = <<>>
    BY Zenon, OwnRequest
  <1>3. CASE client[c].pc = "GET"
    <2>1. Ends(OwnConn(c), ZeroPage)
      BY Zenon, <1>1, <1>2, <1>3, RepliesEnd DEF ForwardFail
    <2>2. GoodReply(c, ZeroPage)
      BY Zenon, <1>2, <1>3, ZeroesAreGood
    <2> QED
      BY Zenon, <1>2, <2>1, <2>2, OwnEnds
  <1>4. CASE client[c].pc = "PUT"
    <2>1. Ends(OwnConn(c), <<>>)
      BY Zenon, <1>1, <1>2, <1>4, RepliesEnd DEF ForwardFail
    <2>2. GoodReply(c, <<>>)
      BY Zenon, <1>4, NoReplyIsGood
    <2> QED
      BY Zenon, <1>2, <2>1, <2>2, OwnEnds
  <1> QED
    BY <1>2, <1>3, <1>4

\* A request of client c arrives.
LEMMA OwnReceives ==
    ASSUME Routed, Typed, PagesPure, NEW c \in Client, Served(c), client[c].pc # "failed",
           Receive(OwnConn(c))
    PROVE  Served(c)'
  <1> DEFINE x == OwnConn(c)
             n == Server(x)
             m == Head(up[x])
  <1>1. x \in Conn /\ n = Home[c] /\ n \in Node
    BY OwnConns
  <1>2. ClientSide(c) /\ PeerSide(c) /\ thread[x].pc = "recv" /\ up[x] # <<>>
    BY DEF Served, Receive
  <1>3. client[c].pc \in {"idle", "GET", "PUT"}
    BY DEF Typed, ClientState
  <1>4. client[c].pc \in {"GET", "PUT"}
    BY Zenon, <1>2, <1>3 DEF ClientSide
  <1>5. up[x] = <<Msg(c)>> /\ down[x] = <<>>
    BY Zenon, <1>2, <1>4 DEF ClientSide, Busy
  <1>6. up \in [Conn -> Seq(Request)] /\ thread \in [Conn -> Thread]
    BY DEF Routed, UpRoutes, ThreadsRoute
  <1>7. m = Msg(c) /\ Tail(up[x]) = <<>>
    BY <1>5
  <1>8. m \in Request
    <2> HIDE DEF x
    <2> QED
      BY <1>1, <1>2, <1>6
  <1>9. m.op = client[c].pc /\ m.page = client[c].page /\ client[c].page \in Page
    BY SMTT(30), <1>7, <1>8 DEF Msg, Request
  <1>10. up'[x] = <<>> /\ \A fd \in PeerConn : up'[fd] = up[fd]
    BY <1>1, <1>6, <1>7, OwnConns DEF Receive
  <1>11. UNCHANGED <<link, client, stored>>
    BY DEF Receive
  <1>12. Calm(c)
    BY Zenon, <1>2, NotWaiting
  <1> HIDE DEF x, n, m
  <1>13. ASSUME NEW units, GoodReply(c, units), Reply(x, units) \/ Exit(x) PROVE Served(c)'
    <2>1. Ends(x, units)
      BY <1>1, <1>13, RepliesEnd
    <2> QED
      BY Zenon, <1>4, <1>5, <1>10, <1>11, <1>12, <1>13, <2>1, OwnEnds DEF x
  <1>14. ASSUME NEW pc \in {"copy", "forward"}, UNCHANGED down,
                thread' = [thread EXCEPT ![x].pc = pc, ![x].msg = m]
         PROVE  Served(c)'
    <2>1. thread'[x].pc = pc /\ thread'[x].msg = m
      BY <1>1, <1>6, <1>14 DEF Thread
    <2>2. ASSUME NEW fd \in PeerConn PROVE thread'[fd] = thread[fd]
      BY <1>1, <1>6, <1>14, OwnConns DEF x
    <2>3. Calm(c)'
      BY Zenon, <1>10, <1>11, <1>12, <1>14, <2>2 DEF Calm, Quiet
    <2> QED
      BY Zenon, <1>4, <1>5, <1>7, <1>10, <1>11, <1>14, <2>1, <2>3, OwnMoves DEF x, Busy
  <1>15. CASE m.op = "GET" /\ Serves(n, m.page) /\ Reply(x, storage[n][m.page])
    <2>1. storage[n][m.page] \in [1 .. PageUnits -> Fitting("GET", m.page)]
      BY Zenon, <1>1, <1>9 DEF PagesPure
    <2>2. client[c].pc = "GET" /\ client[c].pc # "PUT" /\ client[c].page = m.page
      BY Zenon, <1>9, <1>15
    <2>3. Wanted(client[c].pc) = PageUnits /\ PageUnits \in Nat
      BY <2>2, ForwardingAssumption DEF Wanted
    <2>4. /\ storage[n][m.page] \in Seq(Fitting("GET", m.page))
          /\ Len(storage[n][m.page]) = PageUnits
      BY Zenon, <1>9, <2>1, RepliesFit
    <2>5. GoodReply(c, storage[n][m.page])
      BY Zenon, <2>2, <2>3, <2>4, Bounds DEF GoodReply
    <2> QED
      BY Zenon, <1>13, <1>15, <2>5
  <1>16. CASE m.op = "GET" /\ Reply(x, ZeroPage)
    <2>1. GoodReply(c, ZeroPage)
      BY Zenon, <1>9, <1>16, ZeroesAreGood
    <2> QED
      BY Zenon, <1>13, <1>16, <2>1
  <1>17. CASE m.op # "GET" /\ Exit(x)
    <2>1. m.op = "PUT"
      BY <1>4, <1>9, <1>17
    <2>2. GoodReply(c, <<>>)
      BY <1>9, <2>1, NoReplyIsGood
    <2> QED
      BY Zenon, <1>13, <1>17, <2>2
  <1>18. CASE UNCHANGED down /\ \E pc \in {"copy", "forward"} :
                 thread' = [thread EXCEPT ![x].pc = pc, ![x].msg = m]
    BY Zenon, <1>14, <1>18
  <1> QED
    BY <1>15, <1>16, <1>17, <1>18 DEF Receive, x, n, m

\* memcpy by client c's own thread, and the ACK after it.
LEMMA OwnCopies ==
    ASSUME Routed, Typed, NEW c \in Client, Served(c), client[c].pc # "failed",
           Copy(OwnConn(c))
    PROVE  Served(c)'
  <1> DEFINE x == OwnConn(c)
  <1>1. x \in Conn /\ thread \in [Conn -> Thread] /\ thread[x] \in Thread
    BY OwnConns DEF Routed, ThreadsRoute
  <1>2. thread[x].pc = "copy" /\ thread[x].pc \in Busy
    BY Zenon DEF Copy, Busy
  <1>3. /\ client[c].pc \in {"GET", "PUT"} /\ client[c].page \in Page
        /\ thread[x].msg = Msg(c) /\ thread[x].msg.op = client[c].pc
        /\ up[x] = <<>> /\ down[x] = <<>> /\ Calm(c)
    BY Zenon, <1>2, OwnRequest
  <1>4. client[c].pc = "PUT"
    BY Zenon, <1>1, <1>2, <1>3 DEF Routed, ThreadsRoute, ThreadRoutes
  <1>5. UNCHANGED <<up, link, client>>
    BY Zenon DEF Copy
  <1>6. CASE Len(thread[x].got) + 1 < PageUnits
    <2>1. /\ thread' = [thread EXCEPT ![x].got =
                            Append(@, Data(thread[x].msg.page, thread[x].msg.val))]
          /\ down' = down
      BY Zenon, <1>6 DEF Copy
    <2> HIDE DEF x
    <2>2. thread'[x].pc = "copy" /\ thread'[x].msg = Msg(c)
      BY <1>1, <1>2, <1>3, <2>1 DEF Thread
    <2>3. \A fd \in PeerConn : thread'[fd] = thread[fd]
      BY <1>1, <2>1, OwnConns DEF x
    <2>4. Calm(c)'
      BY <1>3, <1>5, <2>1, <2>3 DEF Calm, Quiet
    <2> QED
      BY <1>3, <1>5, <2>1, <2>2, <2>4, OwnMoves DEF x, Busy
  <1>7. CASE ~(Len(thread[x].got) + 1 < PageUnits)
    <2>1. Reply(x, <<Ack>>) /\ stored' = stored \cup {thread[x].msg.from}
      BY Zenon, <1>7 DEF Copy
    <2>2. c \in stored'
      BY <1>3, <2>1, MsgFields, Zenon
    <2>3. <<Ack>> \in Seq(Fitting("PUT", client[c].page)) /\ Len(<<Ack>>) = 1
      BY Zenon, <1>3, RepliesFit
    <2>4. GoodReply(c, <<Ack>>)
      BY SMTT(30), <1>4, <2>2, <2>3 DEF GoodReply, Wanted
    <2>5. Ends(x, <<Ack>>)
      BY Zenon, <1>1, <2>1, RepliesEnd
    <2> QED
      BY Zenon, <1>3, <1>5, <2>4, <2>5, OwnEnds
  <1> QED
    BY <1>6, <1>7

\* cluster_get_owner and get_peer_connection for client c.
LEMMA OwnFinds ==
    ASSUME Routed, Typed, NEW c \in Client, Served(c), client[c].pc # "failed",
           FindOwner(OwnConn(c))
    PROVE  Served(c)'
  <1> DEFINE x == OwnConn(c)
  <1>1. x \in Conn /\ thread \in [Conn -> Thread] /\ thread[x] \in Thread
    BY OwnConns DEF Routed, ThreadsRoute
  <1>2. thread[x].pc = "forward" /\ thread[x].pc \in Busy
    BY DEF FindOwner, Busy
  <1>3. /\ client[c].pc \in {"GET", "PUT"}
        /\ thread[x].msg = Msg(c) /\ up[x] = <<>> /\ down[x] = <<>> /\ Calm(c)
    BY Zenon, <1>2, OwnRequest
  <1>4. UNCHANGED <<up, link, client, stored>>
    BY DEF FindOwner
  <1>5. CASE ForwardFail(x)
    BY Zenon, <1>2, <1>3, <1>4, <1>5, OwnFails
  <1>6. CASE ~ForwardFail(x)
    <2>1. PICK pc, fd : /\ pc \in {"connect", "send"} /\ down' = down
                        /\ thread' = [thread EXCEPT ![x].pc = pc, ![x].fd = fd]
      BY Zenon, <1>6 DEF FindOwner
    <2> HIDE DEF x
    <2>2. thread'[x].pc = pc /\ thread'[x].msg = Msg(c)
      BY <1>1, <1>3, <2>1 DEF Thread
    <2>3. \A f \in PeerConn : thread'[f] = thread[f]
      BY <1>1, <2>1, OwnConns DEF x
    <2>4. Calm(c)'
      BY Zenon, <1>3, <1>4, <2>1, <2>3 DEF Calm, Quiet
    <2> QED
      BY Zenon, <1>3, <1>4, <2>1, <2>2, <2>4, OwnMoves DEF x, Busy
  <1> QED
    BY <1>5, <1>6

\* connect for client c.
LEMMA OwnConnects ==
    ASSUME Routed, Typed, NEW c \in Client, Served(c), client[c].pc # "failed",
           Connect(OwnConn(c))
    PROVE  Served(c)'
  <1> DEFINE x == OwnConn(c)
  <1>1. x \in Conn /\ thread \in [Conn -> Thread] /\ thread[x] \in Thread
    BY OwnConns DEF Routed, ThreadsRoute
  <1>2. thread[x].pc = "connect" /\ thread[x].pc \in Busy
    BY DEF Connect, Busy
  <1>3. /\ client[c].pc \in {"GET", "PUT"}
        /\ thread[x].msg = Msg(c) /\ up[x] = <<>> /\ down[x] = <<>> /\ Calm(c)
    BY Zenon, <1>2, OwnRequest
  <1>4. UNCHANGED <<up, down, client, stored>>
    BY DEF Connect
  <1>5. PICK fd : /\ link[fd] = "closed" /\ link' = [link EXCEPT ![fd] = "up"]
                  /\ thread' = [thread EXCEPT ![x].pc = "send", ![x].fd = fd]
    BY Zenon DEF Connect
  <1> HIDE DEF x
  <1>6. thread'[x].pc = "send" /\ thread'[x].msg = Msg(c)
    BY <1>1, <1>3, <1>5 DEF Thread
  <1>7. \A f \in PeerConn : thread'[f] = thread[f]
    BY <1>1, <1>5, OwnConns DEF x
  <1>8. \A f \in PeerConn : link'[f] = link[f] \/ link[f] = "closed"
    <2>1. link \in [Conn -> {"closed", "up", "reset"}] /\ PeerConn \subseteq Conn
      BY DEF Typed, Conn
    <2> QED
      BY <1>5, <2>1
  <1>9. Calm(c)'
    BY <1>3, <1>4, <1>7, <1>8 DEF Calm, Quiet
  <1> QED
    BY Zenon, <1>3, <1>4, <1>6, <1>9, OwnMoves DEF x, Busy

\* The request goes to the peer.
LEMMA OwnSends ==
    ASSUME Routed, Typed, Fresh, NEW c \in Client, Served(c), client[c].pc # "failed",
           SendRequest(OwnConn(c))
    PROVE  Served(c)'
  <1> DEFINE x == OwnConn(c)
             F == Fitting(client[c].pc, client[c].page)
  <1>1. x \in Conn /\ thread \in [Conn -> Thread] /\ thread[x] \in Thread
    BY Zenon, OwnConns DEF Routed, ThreadsRoute
  <1>2. thread[x].pc = "send" /\ thread[x].pc \in Busy /\ thread[x].got = <<>>
    BY Zenon, <1>1 DEF SendRequest, Busy, Fresh
  <1>3. /\ client[c].pc \in {"GET", "PUT"}
        /\ thread[x].msg = Msg(c) /\ up[x] = <<>> /\ down[x] = <<>> /\ Calm(c)
    BY Zenon, <1>2, OwnRequest
  <1>4. UNCHANGED <<link, client, stored>>
    BY Zenon DEF SendRequest
  <1> PICK fd : fd = thread[x].fd
    OBVIOUS
  <1>5. CASE link[fd] # "up"
    <2>1. ForwardFail(x) /\ up' = up
      BY Zenon, <1>5 DEF SendRequest
    <2> QED
      BY Zenon, <1>2, <1>3, <1>4, <2>1, OwnFails
  <1>6. CASE link[fd] = "up"
    <2>1. /\ up' = [up EXCEPT ![fd] = Append(@, Msg(c))]
          /\ thread' = [thread EXCEPT ![x].pc = "await"] /\ down' = down
      BY <1>3, <1>6 DEF SendRequest, Goto
    <2>2. fd \in PeerConn /\ fd.src = Home[c]
      BY Zenon, <1>1, <1>2, OwnConns DEF Routed, ThreadsRoute, ThreadRoutes
    <2>3. up \in [Conn -> Seq(Request)] /\ fd \in Conn /\ fd # x
      BY Zenon, <2>2, OwnConns DEF Routed, UpRoutes
    <2>4. down[fd] = <<>> /\ up[fd] = <<>> /\ thread[fd].pc \in Resting
      BY Zenon, <1>3, <1>6, <2>2 DEF Calm, Quiet
    <2>5. <<>> \in Seq(F) /\ Len(<<>>) = 0
      <3> HIDE DEF F
      <3> QED
        OBVIOUS
    <2>6. 0 < Wanted(client[c].pc) /\ Wanted(client[c].pc) \in Nat
      BY Zenon, SomeWanted
    <2> HIDE DEF x, F
    <2>7. /\ thread'[x].pc = "await" /\ thread'[x].msg = Msg(c)
          /\ thread'[x].got = <<>> /\ thread'[x].fd = fd
      BY <1>1, <1>2, <1>3, <2>1 DEF Thread
    <2>8. \A f \in PeerConn : thread'[f] = thread[f]
      BY <1>1, <2>1, OwnConns DEF x
    <2>9. up'[fd] = <<Msg(c)>> /\ \A f \in Conn : f # fd => up'[f] = up[f]
      <3>1. Append(<<>>, Msg(c)) = <<Msg(c)>>
        OBVIOUS
      <3> QED
        BY <2>1, <2>3, <2>4, <3>1
    <2>10. Msg(c)' = Msg(c)
      BY Zenon, <1>4 DEF Msg
    <2>11. ClientSide(c)'
      <3>1. up'[x] = <<>> /\ down'[x] = <<>>
        BY <1>1, <1>3, <2>1, <2>3, <2>9
      <3>2. client'[c] = client[c] /\ client[c].pc # "idle"
        BY <1>3, <1>4
      <3>3. down'[x] \in Seq(F) /\ Len(down'[x]) <= Wanted(client[c].pc)
        BY <2>5, <2>6, <3>1
      <3>4. thread'[x].pc \in Busy
        BY <2>7 DEF Busy
      <3> QED
        BY Zenon, <2>7, <2>10, <3>1, <3>2, <3>3, <3>4 DEF ClientSide, x, F
    <2>12. Received(c)'
      BY Zenon, <1>4, <2>5, <2>6, <2>7 DEF Received, x, F
    <2>13. Awaited(c, fd)'
      <3>1. thread'[fd] = thread[fd] /\ down'[fd] = <<>>
        BY <2>1, <2>2, <2>4, <2>8
      <3>2. Len(thread'[x].got) + Len(down'[fd]) <= Wanted(client[c].pc)
        BY <2>5, <2>6, <2>7, <3>1
      <3> QED
        BY Zenon, <1>4, <2>4, <2>5, <2>7, <2>9, <2>10, <3>1, <3>2 DEF Awaited, x, F
    <2>14. ASSUME NEW f \in PeerConn, f.src = Home[c], f # fd
           PROVE  (~WaitsOn(c, f) /\ Quiet(f))'
      <3>1. Quiet(f) /\ f \in Conn
        BY <1>3, <2>14 DEF Calm, Conn
      <3>2. Quiet(f)'
        BY Zenon, <1>4, <2>1, <2>8, <2>9, <2>14, <3>1 DEF Quiet
      <3> QED
        BY Zenon, <2>7, <2>14, <3>2 DEF WaitsOn, x
    <2>15. WaitsOn(c, fd)'
      BY <2>7 DEF WaitsOn, x
    <2>16. PeerSide(c)'
      BY Zenon, <2>13, <2>14, <2>15 DEF PeerSide
    <2> QED
      BY Zenon, <2>11, <2>12, <2>16 DEF Served
  <1> QED
    BY <1>5, <1>6

\* A unit of the reply of the peer comes in.
LEMMA OwnAwaits ==
    ASSUME Routed, Typed, NEW c \in Client, Served(c), client[c].pc # "failed",
           AwaitReply(OwnConn(c))
    PROVE  Served(c)'
  <1> DEFINE x == OwnConn(c)
             F == Fitting(client[c].pc, client[c].page)
             w == Wanted(client[c].pc)
  <1>1. x \in Conn /\ thread \in [Conn -> Thread] /\ thread[x] \in Thread
    BY OwnConns DEF Routed, ThreadsRoute
  <1> PICK fd : fd = thread[x].fd
    OBVIOUS
  <1>got. PICK got : got = Append(thread[x].got, Head(down[fd]))
    BY Zenon
  <1>2. thread[x].pc = "await" /\ thread[x].pc \in Busy /\ down[fd] # <<>>
    BY DEF AwaitReply, Busy
  <1>3. /\ client[c].pc \in {"GET", "PUT"}
        /\ thread[x].msg = Msg(c) /\ thread[x].msg.op = client[c].pc
        /\ up[x] = <<>> /\ down[x] = <<>>
    BY Zenon, <1>2, OwnRequest
  <1>4. UNCHANGED <<up, link, client, stored>>
    BY DEF AwaitReply
  <1>5. fd \in PeerConn /\ fd.src = Home[c]
    BY Zenon, <1>1, <1>2, OwnConns DEF Routed, ThreadsRoute, ThreadRoutes
  <1>6. down \in [Conn -> Seq(Unit)] /\ fd \in Conn /\ fd # x
    BY Zenon, <1>5, OwnConns DEF Routed, DownTyped
  <1>7. Received(c) /\ PeerSide(c) /\ ClientSide(c)
    BY Zenon DEF Served
  <1>8. Awaited(c, fd)
    BY Zenon, <1>2, <1>5, <1>7 DEF PeerSide, WaitsOn
  <1>9. /\ thread[x].got \in Seq(F) /\ down[fd] \in Seq(F)
        /\ Len(thread[x].got) + Len(down[fd]) <= w
    BY Zenon, <1>2, <1>7, <1>8 DEF Received, Awaited
  <1>10. client[c].pc = "PUT" => c \in stored
    BY Zenon, <1>2, <1>8 DEF Awaited
  <1>11. up[fd] = <<>> /\ thread[fd].pc \in Resting
    BY Zenon, <1>2, <1>8 DEF Awaited
  <1>12. w \in Nat
    BY Zenon, SomeWanted
  <1>13. PICK pc \in {"await", "relay"} :
              /\ thread' = [thread EXCEPT ![x].got = got, ![x].pc = pc]
              /\ pc = "await" <=> Len(got) < w
    <2>1. CASE Len(got) < w
      <3>1. thread' = [thread EXCEPT ![x].got = got]
        BY Zenon, <1>3, <1>got, <2>1 DEF AwaitReply
      <3> HIDE DEF x
      <3>2. thread' = [thread EXCEPT ![x].got = got, ![x].pc = "await"]
        BY Zenon, <1>1, <1>2, <3>1 DEF Thread
      <3> QED
        BY <2>1, <3>2
    <2>2. CASE ~(Len(got) < w)
      <3>1. thread' = [thread EXCEPT ![x].got = got, ![x].pc = "relay"]
        BY Zenon, <1>3, <1>got, <2>2 DEF AwaitReply
      <3> QED
        BY <2>2, <3>1
    <2> QED
      BY <2>1, <2>2
  <1>14. down' = [down EXCEPT ![fd] = Tail(@)]
    BY DEF AwaitReply
  <1> HIDE DEF F, x, w
  <1>15. got \in Seq(F) /\ Tail(down[fd]) \in Seq(F)
    BY <1>2, <1>9, <1>got
  <1>len. /\ Len(got) = Len(thread[x].got) + 1
          /\ Len(Tail(down[fd])) = Len(down[fd]) - 1
          /\ Len(thread[x].got) \in Nat /\ Len(down[fd]) \in Nat \ {0}
    BY <1>2, <1>9, <1>got
  <1>sum. Len(thread[x].got) + Len(down[fd]) <= w
    BY Zenon, <1>9
  <1>16. /\ thread'[x].pc = pc /\ thread'[x].msg = Msg(c)
         /\ thread'[x].got = got /\ thread'[x].fd = fd
    BY <1>1, <1>3, <1>13 DEF Thread
  <1>17. \A f \in PeerConn : thread'[f] = thread[f]
    BY <1>1, <1>13, OwnConns DEF x
  <1>18. down'[fd] = Tail(down[fd]) /\ \A f \in Conn : f # fd => down'[f] = down[f]
    BY <1>6, <1>14
  <1>19. /\ Len(got) + Len(down'[fd]) <= w
         /\ ~(Len(got) < w) => Len(got) = w /\ Len(down'[fd]) = 0
    <2>1. \A g, v \in Nat, d \in Nat \ {0} : g + d <= v =>
             /\ (g + 1) + (d - 1) <= v
             /\ ~(g + 1 < v) => g + 1 = v /\ d - 1 = 0
      OBVIOUS
    <2>2. /\ (Len(thread[x].got) + 1) + (Len(down[fd]) - 1) <= w
          /\ ~(Len(thread[x].got) + 1 < w) =>
                Len(thread[x].got) + 1 = w /\ Len(down[fd]) - 1 = 0
      BY <1>12, <1>len, <1>sum, <2>1, Zenon
    <2> QED
      BY <1>len, <1>18, <2>2, Zenon
  <1>20. Msg(c)' = Msg(c)
    BY Zenon, <1>4 DEF Msg
  <1>21. ClientSide(c)'
    <2>1. up'[x] = <<>> /\ down'[x] = <<>>
      BY <1>1, <1>3, <1>4, <1>6, <1>18
    <2>2. <<>> \in Seq(F) /\ Len(<<>>) <= w
      BY Zenon, <1>12, NoElements, Bounds
    <2> QED
      BY Zenon, <1>3, <1>4, <1>16, <1>20, <2>1, <2>2 DEF ClientSide, x, F, w, Busy
  <1>22. Received(c)'
    <2>1. pc = "relay" => Len(got) = w
      BY <1>13, <1>19, Zenon
    <2> QED
      BY <1>4, <1>10, <1>13, <1>15, <1>16, <2>1 DEF Received, x, F, w
  <1>23. ASSUME NEW f \in PeerConn, f.src = Home[c], f # fd
         PROVE  (~WaitsOn(c, f) /\ Quiet(f))'
    <2>1. ~WaitsOn(c, f)
      BY Zenon, <1>23 DEF WaitsOn, x
    <2>2. Quiet(f) /\ f \in Conn
      BY Zenon, <1>7, <1>23, <2>1 DEF PeerSide, Conn
    <2>3. Quiet(f)'
      BY Zenon, <1>4, <1>17, <1>18, <1>23, <2>2 DEF Quiet
    <2> QED
      BY Zenon, <1>16, <1>23, <2>3 DEF WaitsOn, x
  <1>24. CASE pc = "await"
    <2>1. WaitsOn(c, fd)'
      BY <1>16, <1>24 DEF WaitsOn, x
    <2>2. Awaited(c, fd)'
      <3>1. down'[fd] \in Seq(F) /\ thread'[fd] = thread[fd]
        BY Zenon, <1>5, <1>15, <1>17, <1>18
      <3> QED
        BY Zenon, <1>4, <1>10, <1>11, <1>16, <1>19, <3>1 DEF Awaited, x, F, w
    <2>3. PeerSide(c)'
      BY Zenon, <1>23, <2>1, <2>2 DEF PeerSide
    <2> QED
      BY Zenon, <1>21, <1>22, <2>3 DEF Served
  <1>25. CASE pc = "relay"
    <2>1. ~WaitsOn(c, fd)'
      BY Zenon, <1>16, <1>25 DEF WaitsOn, x
    <2>2. Quiet(fd)'
      <3>1. Len(down'[fd]) = 0 /\ down'[fd] \in Seq(F)
        <4>1. Len(down'[fd]) = 0
          BY <1>13, <1>19, <1>25, Zenon
        <4> QED
          BY Zenon, <1>15, <1>18, <4>1
      <3>2. down'[fd] = <<>>
        BY SMTT(30), <3>1
      <3> QED
        BY Zenon, <1>4, <1>5, <1>11, <1>17, <3>2 DEF Quiet
    <2>3. PeerSide(c)'
      BY <1>23, <2>1, <2>2 DEF PeerSide
    <2> QED
      BY Zenon, <1>21, <1>22, <2>3 DEF Served
  <1> QED
    BY <1>13, <1>24, <1>25

\* The peer's answer goes to client c.
LEMMA OwnRelays ==
    ASSUME Routed, Typed, NEW c \in Client, Served(c), client[c].pc # "failed",
           Relay(OwnConn(c))
    PROVE  Served(c)'
  <1> DEFINE x == OwnConn(c)
  <1>1. x \in Conn
    BY OwnConns
  <1>2. thread[x].pc = "relay" /\ thread[x].pc \in Busy
    BY Zenon DEF Relay, Busy
  <1>3. /\ client[c].pc \in {"GET", "PUT"} /\ client[c].page \in Page
        /\ thread[x].msg.op = client[c].pc
        /\ up[x] = <<>> /\ down[x] = <<>> /\ Calm(c)
    BY Zenon, <1>2, OwnRequest
  <1>4. UNCHANGED <<up, link, client, stored>>
    BY Zenon DEF Relay
  <1>5. CASE ForwardFail(x)
    BY Zenon, <1>2, <1>3, <1>4, <1>5, OwnFails
  <1>6. CASE ~ForwardFail(x)
    <2>1. Reply(x, thread[x].got)
      BY Zenon, <1>6 DEF Relay
    <2>2. Received(c)
      BY Zenon DEF Served
    <2>3. GoodReply(c, thread[x].got)
      <3>1. thread[x].got \in Seq(Fitting(client[c].pc, client[c].page))
        BY <1>2, <2>2 DEF Received
      <3>2. Len(thread[x].got) <= Wanted(client[c].pc)
        <4>1. Len(thread[x].got) = Wanted(client[c].pc)
          BY <1>2, <2>2 DEF Received
        <4>2. Wanted(client[c].pc) \in Nat
          BY Zenon, SomeWanted
        <4> QED
          BY Zenon, <4>1, <4>2, Bounds
      <3>3. client[c].pc = "PUT" => c \in stored'
        BY <1>2, <1>4, <2>2 DEF Received
      <3> QED
        BY <3>1, <3>2, <3>3 DEF GoodReply
    <2>4. Ends(x, thread[x].got)
      BY <1>1, <2>1, RepliesEnd
    <2> QED
      BY Zenon, <1>3, <1>4, <2>3, <2>4, OwnEnds
  <1> QED
    BY <1>5, <1>6

\* The client's connection is gone.
LEMMA OwnLeaves ==
    ASSUME Routed, Typed, NEW c \in Client, Served(c), client[c].pc # "failed",
           ReceiveFail(OwnConn(c))
    PROVE  Served(c)'
  <1> DEFINE x == OwnConn(c)
  <1>1. x \in Conn /\ thread \in [Conn -> Thread]
    BY Zenon, OwnConns DEF Routed, ThreadsRoute
  <1>2. /\ thread[x].pc = "recv" /\ up[x] = <<>> /\ UNCHANGED <<up, down, link, client, stored>>
        /\ thread' = [thread EXCEPT ![x] = EndedThread]
    BY Zenon DEF ReceiveFail, Exit
  <1>3. thread'[x] = EndedThread /\ \A fd \in PeerConn : thread'[fd] = thread[fd]
    BY Zenon, <1>1, <1>2, OwnConns
  <1>4. EndedThread.pc = "exit"
    BY Zenon DEF EndedThread
  <1>5. ClientSide(c) /\ PeerSide(c)
    BY Zenon DEF Served
  <1>6. client[c].pc \in {"idle", "GET", "PUT"}
    BY DEF Typed, ClientState
  <1>7. ClientSide(c)'
    BY Zenon, <1>2, <1>3, <1>4, <1>5, <1>6 DEF ClientSide, Resting, Busy
  <1>8. Received(c)'
    BY Zenon, <1>3, <1>4 DEF Received
  <1>9. Calm(c)'
    <2>1. Calm(c)
      BY Zenon, <1>2, <1>5, NotWaiting
    <2> QED
      BY Zenon, <1>2, <1>3, <2>1 DEF Calm, Quiet
  <1>10. PeerSide(c)'
    BY Zenon, <1>3, <1>4, <1>9 DEF PeerSide, Calm, WaitsOn
  <1> QED
    BY <1>7, <1>8, <1>10 DEF Served

\* A step of client c's own thread that does not kill the process.
LEMMA OwnSteps ==
    ASSUME Routed, Typed, PagesPure, Fresh, NEW c \in Client, Served(c),
           ThreadStep(OwnConn(c)), ~SendKilled(OwnConn(c))
    PROVE  Served(c)'
  <1> DEFINE x == OwnConn(c)
  <1>1. CASE client[c].pc = "failed"
    <2>1. client' = client
      BY Zenon DEF ThreadStep, Receive, ReceiveFail, Copy, FindOwner, Connect, ConnectFail,
             SendRequest, SendKilled, AwaitReply, AwaitFail, Relay
    <2> QED
      BY <1>1, <2>1 DEF Served
  <1>2. CASE client[c].pc # "failed"
    <2>1. CASE ConnectFail(x)
      <3>1. thread[x].pc = "connect" /\ thread[x].pc \in Busy
        BY Zenon, <2>1 DEF ConnectFail, Busy
      <3>2. ForwardFail(x) /\ UNCHANGED <<up, link, client, stored>>
        BY Zenon, <2>1 DEF ConnectFail
      <3>3. Calm(c)
        BY Zenon, <1>2, <3>1, OwnRequest
      <3> QED
        BY Zenon, <1>2, <3>1, <3>2, <3>3, OwnFails
    <2>2. CASE AwaitFail(x)
      <3>1. thread[x].pc = "await" /\ thread[x].pc \in Busy
        BY Zenon, <2>2 DEF AwaitFail, Busy
      <3>2. ForwardFail(x) /\ UNCHANGED <<up, link, client, stored>>
        BY <2>2 DEF AwaitFail
      <3>3. ASSUME NEW fd \in PeerConn, fd.src = Home[c] PROVE Quiet(fd)
        <4>1. IF WaitsOn(c, fd) THEN Awaited(c, fd) ELSE Quiet(fd)
          BY Zenon, <1>2, <3>3 DEF Served, PeerSide
        <4>2. CASE WaitsOn(c, fd)
          BY Zenon, <2>2, <4>2 DEF AwaitFail, WaitsOn, Quiet
        <4> QED
          BY <4>1, <4>2
      <3>4. Calm(c)
        BY Zenon, <3>3 DEF Calm
      <3> QED
        BY Zenon, <1>2, <3>1, <3>2, <3>4, OwnFails
    <2> QED
      BY Zenon, <1>2, <2>1, <2>2, OwnReceives, OwnLeaves, OwnCopies, OwnFinds, OwnConnects, OwnSends,
         OwnAwaits, OwnRelays DEF ThreadStep
  <1> QED
    BY <1>1, <1>2

\* What such a step leaves alone: the clients, and every connection but its
\* own and the ones its node has opened.
LEMMA OwnTouches ==
    ASSUME Routed, Typed, NEW d \in Client,
           ThreadStep(OwnConn(d)), ~SendKilled(OwnConn(d)),
           NEW y \in Conn, y # OwnConn(d), y \in PeerConn => y.src # Home[d]
    PROVE  /\ client' = client /\ stored \subseteq stored'
           /\ thread'[y] = thread[y] /\ link'[y] = link[y]
           /\ up'[y] = up[y] /\ down'[y] = down[y]
  <1> PICK x : x = OwnConn(d)
    BY Zenon
  <1>1. /\ x \in Conn /\ thread \in [Conn -> Thread] /\ thread[x] \in Thread /\ y # x
        /\ up \in [Conn -> Seq(Request)] /\ down \in [Conn -> Seq(Unit)]
        /\ link \in [Conn -> {"closed", "up", "reset"}]
    BY Zenon, OwnConns DEF Routed, ThreadsRoute, UpRoutes, DownTyped, Typed
  <1>2. client' = client /\ stored \subseteq stored'
    BY Zenon DEF ThreadStep, Receive, ReceiveFail, Copy, FindOwner, Connect, ConnectFail,
           SendRequest, SendKilled, AwaitReply, AwaitFail, Relay
  <1>3. ASSUME NEW units, Reply(x, units) \/ Exit(x)
        PROVE  thread'[y] = thread[y] /\ down'[y] = down[y]
    BY Zenon, <1>1, <1>3 DEF Reply, Exit
  <1>4. CASE Receive(x) \/ ReceiveFail(x) \/ Copy(x)
    <2>1. link' = link /\ up'[y] = up[y]
      BY Zenon, <1>1, <1>4 DEF Receive, ReceiveFail, Copy
    <2>2. thread'[y] = thread[y] /\ down'[y] = down[y]
      BY Zenon, <1>1, <1>3, <1>4 DEF Receive, ReceiveFail, Copy
    <2> QED
      BY Zenon, <1>2, <2>1, <2>2
  <1>5. CASE FindOwner(x) \/ ConnectFail(x) \/ AwaitFail(x) \/ Relay(x)
    <2>1. link' = link /\ up' = up
      BY <1>5 DEF FindOwner, ConnectFail, AwaitFail, Relay
    <2>2. thread'[y] = thread[y] /\ down'[y] = down[y]
      BY Zenon, <1>1, <1>3, <1>5 DEF FindOwner, ConnectFail, AwaitFail, Relay, ForwardFail
    <2> QED
      BY Zenon, <1>2, <2>1, <2>2
  <1>6. thread[x].pc \in {"connect", "send", "await"} => thread[x].fd.src = Home[d]
    BY Zenon, <1>1, OwnConns DEF Routed, ThreadsRoute, ThreadRoutes
  <1>7. thread[x].pc \in {"send", "await"} => thread[x].fd \in PeerConn /\ thread[x].fd # y
    BY Zenon, <1>1, <1>6 DEF Routed, ThreadsRoute, ThreadRoutes
  <1>8. CASE Connect(x)
    <2>1. PICK k, fd :
              /\ k \in 1 .. MaxConn
              /\ fd = [src |-> thread[x].fd.src, dst |-> thread[x].fd.dst, k |-> k]
              /\ link' = [link EXCEPT ![fd] = "up"]
              /\ thread' = [thread EXCEPT ![x].pc = "send", ![x].fd = fd]
              /\ UNCHANGED <<up, down>>
      BY Zenon, <1>8 DEF Connect
    <2>2. fd.src = Home[d] /\ fd \in PeerConn
      <3>1. thread[x].fd \in Target
        BY <1>1, <1>8 DEF Connect, Routed, ThreadsRoute, ThreadRoutes
      <3> QED
        BY Zenon, <1>6, <1>8, <2>1, <3>1 DEF Connect, Target, PeerConn
    <2>3. fd # y
      BY Zenon, <2>2
    <2> QED
      BY <1>1, <1>2, <2>1, <2>3
  <1>9. CASE SendRequest(x)
    <2>1. link' = link /\ thread[x].pc = "send"
      BY Zenon, <1>9 DEF SendRequest
    <2>2. up'[y] = up[y]
      BY Zenon, <1>1, <1>7, <1>9, <2>1 DEF SendRequest
    <2>3. thread'[y] = thread[y] /\ down'[y] = down[y]
      BY Zenon, <1>1, <1>3, <1>9 DEF SendRequest, ForwardFail, Goto
    <2> QED
      BY Zenon, <1>2, <2>1, <2>2, <2>3
  <1>10. CASE AwaitReply(x)
    <2>1. link' = link /\ up' = up /\ thread[x].pc = "await"
      BY <1>10 DEF AwaitReply
    <2>2. thread'[y] = thread[y]
      BY <1>1, <1>10 DEF AwaitReply
    <2>3. down'[y] = down[y]
      BY <1>1, <1>7, <1>10, <2>1 DEF AwaitReply
    <2> QED
      BY <1>2, <2>1, <2>2, <2>3
  <1> QED
    BY Zenon, <1>4, <1>5, <1>8, <1>9, <1>10 DEF ThreadStep

\* SIGPIPE kills the server of client d.
LEMMA KilledServed ==
    ASSUME Routed, Typed, OneClientPerNode, NEW c \in Client, Served(c),
           NEW d \in Client, SendKilled(OwnConn(d))
    PROVE  Served(c)'
  <1>1. UNCHANGED <<up, down, client, stored>>
    BY DEF SendKilled
  <1>2. ASSUME NEW y \in Conn PROVE Loses(y)
    BY Zenon DEF SendKilled, Loses
  <1>3. /\ OwnConn(c) \in Conn /\ Server(OwnConn(c)) = Home[c] /\ Server(OwnConn(d)) = Home[d]
        /\ PeerConn \subseteq Conn
    BY OwnConns DEF Conn
  <1>4. CASE c # d
    <2>1. Home[c] # Home[d]
      BY <1>4 DEF OneClientPerNode
    <2>2. thread'[OwnConn(c)] = thread[OwnConn(c)]
      BY Zenon, <1>3, <2>1 DEF SendKilled
    <2> QED
      BY Zenon, <1>1, <1>2, <1>3, <2>2, Untouched
  <1>5. CASE c = d /\ client[c].pc # "failed"
    <2>1. thread'[OwnConn(c)] = EndedThread
      BY Zenon, <1>3, <1>5 DEF SendKilled
    <2>2. thread[OwnConn(c)].pc = "send" /\ thread[OwnConn(c)].pc \in Busy
      BY Zenon, <1>5 DEF SendKilled, Busy
    <2>3. ClientSide(c) /\ client[c].pc \in {"GET", "PUT"} /\ Calm(c) /\ up[OwnConn(c)] = <<>>
      BY Zenon, <1>5, <2>2, OwnRequest DEF Served
    <2>4. EndedThread.pc = "exit"
      BY DEF EndedThread
    <2>5. ClientSide(c)'
      BY Zenon, <1>1, <2>1, <2>3, <2>4 DEF ClientSide, Resting
    <2>6. Received(c)'
      BY Zenon, <2>1, <2>4 DEF Received
    <2>7. ASSUME NEW fd \in PeerConn, fd.src = Home[c] PROVE (~WaitsOn(c, fd) /\ Quiet(fd))'
      <3>1. Quiet(fd) /\ Loses(fd)
        BY Zenon, <1>2, <1>3, <2>3, <2>7 DEF Calm
      <3>2. Quiet(fd)'
        BY Zenon, <2>4, <3>1 DEF Quiet, Loses, Resting
      <3> QED
        BY <2>1, <2>4, <3>2 DEF WaitsOn
    <2> QED
      BY Zenon, <2>5, <2>6, <2>7 DEF Served, PeerSide
  <1>6. CASE client[c].pc = "failed"
    BY Zenon, <1>1, <1>6 DEF Served
  <1> QED
    BY <1>4, <1>5, <1>6

\* The thread of a peer connection x of client c's node takes a step.
PeerMoves(x) ==
    /\ UNCHANGED <<client, link>> /\ stored \subseteq stored'
    /\ \A y \in Conn : y # x =>
            thread'[y] = thread[y] /\ up'[y] = up[y] /\ down'[y] = down[y]

LEMMA PeerOnly ==
    ASSUME Routed, NEW x \in Conn, Receive(x) \/ ReceiveFail(x) \/ Copy(x)
    PROVE  PeerMoves(x)
  <1>1. /\ thread \in [Conn -> Thread]
        /\ up \in [Conn -> Seq(Request)] /\ down \in [Conn -> Seq(Unit)]
    BY Zenon DEF Routed, ThreadsRoute, UpRoutes, DownTyped
  <1>2. UNCHANGED <<client, link>> /\ stored \subseteq stored'
    BY Zenon DEF Receive, ReceiveFail, Copy
  <1>3. \A y \in Conn : y # x => up'[y] = up[y]
    BY <1>1 DEF Receive, ReceiveFail, Copy
  <1>4. \A y \in Conn : y # x => thread'[y] = thread[y] /\ down'[y] = down[y]
    BY Zenon, <1>1 DEF Receive, ReceiveFail, Copy, Reply, Exit
  <1> QED
    BY Zenon, <1>2, <1>3, <1>4 DEF PeerMoves

LEMMA PeerServed ==
    ASSUME NEW c \in Client, Served(c), NEW x \in PeerConn, PeerMoves(x),
           client[c].pc # "failed" /\ x.src = Home[c] =>
                (WaitsOn(c, x) /\ Awaited(c, x)') \/ (~WaitsOn(c, x) /\ Quiet(x)')
    PROVE  Served(c)'
  <1>1. /\ OwnConn(c) \in Conn /\ OwnConn(c) # x /\ PeerConn \subseteq Conn
    BY Zenon, OwnConns DEF Conn
  <1>2. \A y \in Conn : y # x => Loses(y)
    BY Zenon DEF PeerMoves, Loses
  <1>3. /\ client' = client /\ thread'[OwnConn(c)] = thread[OwnConn(c)]
        /\ c \in stored => c \in stored'
        /\ up'[OwnConn(c)] = up[OwnConn(c)] /\ down'[OwnConn(c)] = down[OwnConn(c)]
    BY Zenon, <1>1 DEF PeerMoves
  <1>4. CASE x.src # Home[c]
    <2>1. \A fd \in PeerConn : fd.src = Home[c] => Loses(fd)
      BY Zenon, <1>1, <1>2, <1>4
    <2> QED
      BY Zenon, <1>1, <1>2, <1>3, <2>1, Untouched
  <1>5. CASE client[c].pc = "failed"
    BY Zenon, <1>3, <1>5 DEF Served
  <1>6. CASE x.src = Home[c] /\ client[c].pc # "failed"
    <2>1. ClientSide(c) /\ Received(c) /\ PeerSide(c)
      BY Zenon, <1>6 DEF Served
    <2>2. ClientSide(c)'
      BY Zenon, <1>3, <2>1 DEF ClientSide, Msg
    <2>3. Received(c)'
      BY Zenon, <1>3, <2>1 DEF Received
    <2>4. ASSUME NEW fd \in PeerConn, fd.src = Home[c]
          PROVE  (IF WaitsOn(c, fd) THEN Awaited(c, fd) ELSE Quiet(fd))'
      <3>1. IF WaitsOn(c, fd) THEN Awaited(c, fd) ELSE Quiet(fd)
        BY Zenon, <2>1, <2>4 DEF PeerSide
      <3>2. WaitsOn(c, fd)' <=> WaitsOn(c, fd)
        BY Zenon, <1>3 DEF WaitsOn
      <3>3. CASE fd = x
        BY Zenon, <1>6, <3>2, <3>3
      <3>4. CASE fd # x
        <4>1. /\ thread'[fd] = thread[fd] /\ link' = link
              /\ up'[fd] = up[fd] /\ down'[fd] = down[fd]
          BY Zenon, <1>1, <3>4 DEF PeerMoves
        <4>2. Awaited(c, fd) => Awaited(c, fd)'
          BY Zenon, <1>3, <4>1 DEF Awaited, Msg
        <4>3. Quiet(fd) => Quiet(fd)'
          BY Zenon, <4>1 DEF Quiet
        <4> QED
          BY Zenon, <3>1, <3>2, <4>2, <4>3
      <3> QED
        BY Zenon, <3>3, <3>4
    <2>5. PeerSide(c)'
      BY Zenon, <2>4 DEF PeerSide
    <2> QED
      BY Zenon, <2>2, <2>3, <2>5 DEF Served
  <1> QED
    BY Zenon, <1>4, <1>5, <1>6

\* The owner receives a request: the one client c waits for, or one left on a
\* broken connection.
LEMMA PeerReceives ==
    ASSUME Routed, RangesFit, PagesPure, NEW c \in Client, Served(c),
           NEW x \in PeerConn, x.src = Home[c], client[c].pc # "failed", Receive(x)
    PROVE  (WaitsOn(c, x) /\ Awaited(c, x)') \/ (~WaitsOn(c, x) /\ Quiet(x)')
  <1> DEFINE n == Server(x)
             m == Head(up[x])
             F == Fitting(client[c].pc, client[c].page)
  <1>1. /\ x \in Conn /\ thread \in [Conn -> Thread] /\ thread[x] \in Thread
        /\ up \in [Conn -> Seq(Request)] /\ down \in [Conn -> Seq(Unit)]
    BY Zenon DEF Routed, ThreadsRoute, UpRoutes, DownTyped, Conn
  <1>2. PeerMoves(x) /\ UNCHANGED <<link, client, stored>>
    BY Zenon, <1>1, PeerOnly DEF Receive
  <1>3. thread'[OwnConn(c)] = thread[OwnConn(c)]
    BY Zenon, OwnConns, <1>2 DEF PeerMoves
  <1>4. m.page \in Owned[x.dst] /\ n = x.dst /\ n \in Node
    BY Zenon, <1>1, UpTails, ServerIsNode DEF Routed, Receive, Server
  <1>5. m.page \in Page /\ Serves(n, m.page)
    BY Zenon, <1>4, ForwardingAssumption DEF RangesFit, Serves
  <1>6. IF WaitsOn(c, x) THEN Awaited(c, x) ELSE Quiet(x)
    BY Zenon DEF Served, PeerSide
  <1>7. /\ up[x] # <<>> /\ thread[x].pc = "recv" /\ up'[x] = Tail(up[x])
    BY <1>1 DEF Receive
  <1>8. \/ m.op = "GET" /\ Reply(x, storage[n][m.page])
        \/ /\ m.op = "PUT" /\ UNCHANGED down
           /\ thread' = [thread EXCEPT ![x].pc = "copy", ![x].msg = m]
    BY <1>5 DEF Receive
  <1>9. CASE ~WaitsOn(c, x)
    <2>1. Quiet(x) /\ link[x] = "reset"
      BY Zenon, <1>6, <1>7, <1>9 DEF Quiet
    <2>2. down' = down
      BY <1>8, <2>1 DEF Reply
    <2> QED
      BY Zenon, <1>2, <1>9, <2>1, <2>2 DEF Quiet
  <1>10. CASE WaitsOn(c, x)
    <2>1. Awaited(c, x)
      BY Zenon, <1>6, <1>10
    <2>2. up[x] = <<Msg(c)>> /\ thread[OwnConn(c)].got = <<>> /\ down[x] = <<>>
      BY <1>7, <2>1 DEF Awaited
    <2>3. m = Msg(c) /\ up'[x] = <<>>
      BY <1>7, <2>2
    <2>4. m.op = client[c].pc /\ m.page = client[c].page
      BY <2>3 DEF Msg
    <2>5. Msg(c)' = Msg(c)
      BY <1>2 DEF Msg
    <2>6. Len(<<>>) = 0 /\ <<>> \in Seq(F)
      <3> HIDE DEF F
      <3> QED
        OBVIOUS
    <2>7. CASE m.op = "GET" /\ Reply(x, storage[n][m.page])
      <3>1. PICK s : s = storage[n][m.page]
        OBVIOUS
      <3>2. s \in [1 .. PageUnits -> Fitting("GET", m.page)]
        BY Zenon, <1>4, <1>5, <3>1 DEF PagesPure
      <3>3. s \in Seq(F) /\ Len(s) = PageUnits
        BY Zenon, <1>5, <2>4, <2>7, <3>2, RepliesFit
      <3>4. thread'[x].pc \in Resting /\ (down'[x] = <<>> \/ down'[x] = s)
        <4>1. Ends(x, s)
          BY Zenon, <1>1, <2>7, <3>1, RepliesEnd
        <4>2. <<>> \o s = s
          <5> HIDE DEF F
          <5> QED
            BY Zenon, <3>3, JoinedToNothing
        <4> QED
          BY Zenon, <2>2, <4>1, <4>2 DEF Ends
      <3>5. Len(down'[x]) <= PageUnits /\ Len(down'[x]) \in Nat /\ down'[x] \in Seq(F)
        <4> HIDE DEF F
        <4>1. PageUnits \in Nat /\ 0 <= PageUnits /\ 0 \in Nat
          BY Zenon, ForwardingAssumption, Bounds
        <4>2. CASE down'[x] = <<>>
          BY Zenon, <2>6, <4>1, <4>2
        <4>3. CASE down'[x] = s
          BY Zenon, <3>3, <4>1, <4>3, Bounds
        <4> QED
          BY Zenon, <3>4, <4>2, <4>3
      <3>6. Len(thread[OwnConn(c)].got) + Len(down'[x]) <= Wanted(client[c].pc)
        <4>1. Wanted(client[c].pc) = PageUnits
          BY Zenon, <2>4, <2>7 DEF Wanted
        <4>2. Len(thread[OwnConn(c)].got) = 0
          BY Zenon, <2>2, <2>6
        <4>3. Len(thread[OwnConn(c)].got) + Len(down'[x]) = Len(down'[x])
          BY Zenon, <3>5, <4>2, Bounds
        <4> QED
          BY Zenon, <3>5, <4>1, <4>3
      <3>7. Awaited(c, x)'
        BY Zenon, <1>2, <1>3, <2>3, <2>4, <2>7, <3>4, <3>5, <3>6 DEF Awaited
      <3> QED
        BY <1>10, <3>7
    <2>8. CASE /\ UNCHANGED down
               /\ thread' = [thread EXCEPT ![x].pc = "copy", ![x].msg = m]
      <3> HIDE DEF m
      <3>1. thread'[x].pc = "copy" /\ thread'[x].msg = m
        BY <1>1, <2>8 DEF Thread
      <3>2. Awaited(c, x)'
        BY Zenon, <1>2, <1>3, <2>1, <2>2, <2>3, <2>5, <2>8, <3>1 DEF Awaited
      <3> QED
        BY <1>10, <3>2
    <2> QED
      BY <1>8, <2>7, <2>8
  <1> QED
    BY Zenon, <1>9, <1>10

\* The owner copies a page of a PUT and acknowledges it.
LEMMA PeerCopies ==
    ASSUME Routed, NEW c \in Client, Served(c),
           NEW x \in PeerConn, x.src = Home[c], client[c].pc # "failed", Copy(x)
    PROVE  (WaitsOn(c, x) /\ Awaited(c, x)') \/ (~WaitsOn(c, x) /\ Quiet(x)')
  <1> DEFINE F == Fitting(client[c].pc, client[c].page)
  <1>1. /\ x \in Conn /\ thread \in [Conn -> Thread] /\ thread[x] \in Thread
        /\ down \in [Conn -> Seq(Unit)]
    BY Zenon DEF Routed, ThreadsRoute, DownTyped, Conn
  <1>2. PeerMoves(x) /\ UNCHANGED <<link, client, up>> /\ thread[x].pc = "copy"
    BY Zenon, <1>1, PeerOnly DEF Copy
  <1>3. thread'[OwnConn(c)] = thread[OwnConn(c)] /\ stored \subseteq stored'
    BY Zenon, OwnConns, <1>2 DEF PeerMoves
  <1>4. IF WaitsOn(c, x) THEN Awaited(c, x) ELSE Quiet(x)
    BY Zenon DEF Served, PeerSide
  <1>5. CASE ~WaitsOn(c, x)
    <2>1. Quiet(x) /\ link[x] = "reset"
      BY Zenon, <1>2, <1>4, <1>5 DEF Quiet, Resting
    <2>2. down' = down
      BY <2>1 DEF Copy, Reply
    <2> QED
      BY Zenon, <1>2, <1>5, <2>1, <2>2 DEF Quiet
  <1>6. CASE WaitsOn(c, x)
    <2>1. Awaited(c, x)
      BY <1>4, <1>6
    <2>2. /\ up[x] = <<>> /\ thread[OwnConn(c)].got = <<>> /\ down[x] = <<>>
          /\ thread[x].msg = Msg(c)
      BY Zenon, <1>2, <2>1 DEF Awaited, Resting
    <2>3. thread[x].msg.op = "PUT" /\ thread[x].msg \in Request
      BY Zenon, <1>1, <1>2 DEF Routed, ThreadsRoute, ThreadRoutes, Busy
    <2>4. client[c].pc = "PUT" /\ client[c].page \in Page /\ Msg(c)' = Msg(c)
      <3>1. Msg(c).op = "PUT" /\ Msg(c).page \in Page
        BY Zenon, <2>2, <2>3 DEF Request
      <3>2. Msg(c)' = Msg(c)
        BY Zenon, <1>2 DEF Msg
      <3> QED
        BY Zenon, <3>1, <3>2, MsgFields
    <2>5. CASE Len(thread[x].got) + 1 < PageUnits
      <3>1. /\ thread' = [thread EXCEPT ![x].got =
                              Append(@, Data(thread[x].msg.page, thread[x].msg.val))]
            /\ down' = down
        BY <2>5 DEF Copy
      <3>2. thread'[x].pc = "copy" /\ thread'[x].msg = Msg(c)
        BY <1>1, <1>2, <2>2, <3>1 DEF Thread
      <3>3. Awaited(c, x)'
        BY Zenon, <1>2, <1>3, <2>1, <2>2, <2>4, <3>1, <3>2 DEF Awaited
      <3> QED
        BY Zenon, <1>6, <3>3
    <2>6. CASE ~(Len(thread[x].got) + 1 < PageUnits)
      <3>1. Reply(x, <<Ack>>) /\ stored' = stored \cup {thread[x].msg.from}
        BY <2>6 DEF Copy
      <3>2. c \in stored'
        BY <2>2, <3>1, MsgFields, Zenon
      <3>3. <<Ack>> \in Seq(F) /\ Len(<<Ack>>) = 1 /\ Wanted(client[c].pc) = 1
        BY Zenon, <2>4, RepliesFit DEF Wanted
      <3>4. Ends(x, <<Ack>>)
        BY Zenon, <1>1, <3>1, RepliesEnd
      <3>5. <<>> \o <<Ack>> = <<Ack>> /\ Len(<<>>) = 0 /\ <<>> \in Seq(F)
        <4> HIDE DEF F
        <4> QED
          OBVIOUS
      <3>6. down'[x] = <<>> \/ down'[x] = <<Ack>>
        BY Zenon, <2>2, <3>4, <3>5 DEF Ends
      <3>7. /\ down'[x] \in Seq(F)
            /\ Len(thread[OwnConn(c)].got) + Len(down'[x]) <= Wanted(client[c].pc)
        <4> HIDE DEF F
        <4>1. CASE down'[x] = <<>>
          BY Zenon, <2>2, <3>3, <3>5, <4>1, Bounds
        <4>2. CASE down'[x] = <<Ack>>
          BY Zenon, <2>2, <3>3, <3>5, <4>2, Bounds
        <4> QED
          BY Zenon, <3>6, <4>1, <4>2
      <3>8. Awaited(c, x)'
        BY Zenon, <1>2, <1>3, <2>2, <3>2, <3>4, <3>7 DEF Awaited, Ends
      <3> QED
        BY Zenon, <1>6, <3>8
    <2> QED
      BY Zenon, <2>5, <2>6
  <1> QED
    BY Zenon, <1>5, <1>6

\* A step of the thread of a peer connection.
LEMMA PeerSteps ==
    ASSUME Routed, RangesFit, ForwardOnce, PagesPure, NEW c \in Client, Served(c),
           NEW x \in PeerConn, ThreadStep(x)
    PROVE  Served(c)'
  <1>1. x \in Conn /\ thread \in [Conn -> Thread] /\ thread[x] \in Thread
    BY DEF Routed, ThreadsRoute, Conn
  <1>2. Receive(x) \/ ReceiveFail(x) \/ Copy(x)
    BY Zenon, <1>1 DEF ForwardOnce, Thread, Phase, ThreadStep, FindOwner, Connect, ConnectFail,
                SendRequest, SendKilled, AwaitReply, AwaitFail, Relay
  <1>3. PeerMoves(x)
    BY <1>1, <1>2, PeerOnly
  <1>4. CASE Receive(x)
    BY Zenon, <1>3, <1>4, PeerReceives, PeerServed
  <1>5. CASE Copy(x)
    BY Zenon, <1>3, <1>5, PeerCopies, PeerServed
  <1>6. CASE ReceiveFail(x)
    <2>1. \A y \in Conn : Loses(y)
      BY Zenon, <1>1, <1>6 DEF ReceiveFail, Exit, Loses
    <2>2. OwnConn(c) \in Conn /\ OwnConn(c) # x /\ PeerConn \subseteq Conn
      BY OwnConns DEF Conn
    <2>3. thread'[OwnConn(c)] = thread[OwnConn(c)] /\ client' = client /\ stored' = stored
      BY <1>3, <1>6, <2>2 DEF PeerMoves, ReceiveFail
    <2> QED
      BY Zenon, <2>1, <2>2, <2>3, Untouched
  <1> QED
    BY <1>2, <1>4, <1>5, <1>6

\* A call of client d.
LEMMA CallServed ==
    ASSUME Routed, Typed, NEW c \in Client, Served(c), NEW d \in Client,
           NEW msg, msg \in Request, msg.from = d, client[d].pc = "idle", ClientCall(d, msg)
    PROVE  Served(c)'
  <1>1. /\ OwnConn(c) \in Conn /\ PeerConn \subseteq Conn
        /\ \A fd \in PeerConn : fd # OwnConn(d) /\ (c # d => OwnConn(c) # OwnConn(d))
    BY Zenon, OwnConns DEF Conn
  <1>2. client \in [Client -> ClientState] /\ up \in [Conn -> Seq(Request)]
    BY DEF Typed, Routed, UpRoutes
  <1>3. UNCHANGED <<link, down, thread>> /\ stored' = stored \ {d} /\ client[d].pc = "idle"
    BY DEF ClientCall
  <1>4. \A y \in Conn : y # OwnConn(d) => up'[y] = up[y]
    BY <1>2 DEF ClientCall, OwnConn
  <1>5. CASE c # d
    <2>1. client'[c] = client[c]
      BY <1>2, <1>5 DEF ClientCall
    <2>2. OwnConn(c) # OwnConn(d)
      BY Zenon, <1>5, OwnConns
    <2>3. \A y \in Conn : y # OwnConn(d) => Loses(y)
      BY Zenon, <1>3, <1>4 DEF Loses
    <2> QED
      BY Zenon, <1>1, <1>3, <1>5, <2>1, <2>2, <2>3, Untouched
  <1>6. CASE c = d /\ link[OwnConn(c)] = "up"
    <2> DEFINE t == [pc |-> msg.op, page |-> msg.page, val |-> msg.val]
               F == Fitting(client'[c].pc, client'[c].page)
               w == Wanted(client'[c].pc)
    <2>1. /\ up' = [up EXCEPT ![OwnConn(c)] = Append(@, msg)]
          /\ client' = [client EXCEPT ![c] = t]
      BY <1>6 DEF ClientCall, OwnConn
    <2>2. client'[c] = t
      <3> HIDE DEF t
      <3> QED
        BY <1>2, <2>1
    <2>3. client'[c].pc = msg.op /\ client'[c].page = msg.page /\ client'[c].val = msg.val
      BY SMTT(30), <2>2
    <2>4. msg.op \in {"GET", "PUT"}
      BY DEF Request
    <2>5. Msg(c)' = msg
      BY Zenon, <1>6, <2>3 DEF Msg, Request
    <2>6. ClientSide(c) /\ PeerSide(c)
      BY Zenon, <1>3, <1>6 DEF Served
    <2>7. up[OwnConn(c)] = <<>> /\ down[OwnConn(c)] = <<>> /\ thread[OwnConn(c)].pc \in Resting
      BY Zenon, <1>3, <1>6, <2>6 DEF ClientSide
    <2>8. up'[OwnConn(c)] = <<msg>>
      <3>1. Append(<<>>, msg) = <<msg>>
        OBVIOUS
      <3> QED
        BY Zenon, <1>1, <1>2, <2>1, <2>7, <3>1
    <2>9. <<>> \in Seq(F) /\ Len(<<>>) <= w
      <3>1. w \in Nat
        BY Zenon, SomeWanted
      <3> HIDE DEF F, w
      <3> QED
        BY <3>1
    <2>10. ClientSide(c)'
      BY Zenon, <1>3, <2>3, <2>4, <2>5, <2>7, <2>8, <2>9 DEF ClientSide
    <2>11. Received(c)'
      BY Zenon, <1>3, <2>7 DEF Received, Resting
    <2>12. Calm(c)
      BY Zenon, <2>6, <2>7, NotWaiting DEF Resting
    <2>13. PeerSide(c)'
      BY Zenon, <1>1, <1>3, <1>4, <1>6, <2>7, <2>12 DEF PeerSide, Calm, Quiet, WaitsOn, Resting
    <2> QED
      BY Zenon, <2>10, <2>11, <2>13 DEF Served
  <1>7. CASE c = d /\ link[OwnConn(c)] # "up"
    <2>1. client' = [client EXCEPT ![c].pc = "failed"]
      BY <1>7 DEF ClientCall, OwnConn
    <2>2. client'[c].pc = "failed"
      BY <1>2, <2>1 DEF ClientState
    <2> QED
      BY Zenon, <2>2 DEF Served
  <1> QED
    BY <1>5, <1>6, <1>7

\* A call of client d returns.
LEMMA ReturnServed ==
    ASSUME Routed, Typed, NEW c \in Client, Served(c), NEW d \in Client, ClientStep(d)
    PROVE  Served(c)'
  <1>1. /\ OwnConn(c) \in Conn /\ PeerConn \subseteq Conn
        /\ \A fd \in PeerConn : fd # OwnConn(d)
    BY OwnConns DEF Conn
  <1>2. client \in [Client -> ClientState] /\ down \in [Conn -> Seq(Unit)]
    BY DEF Typed, Routed, DownTyped
  <1>3. UNCHANGED <<link, up, thread, stored>> /\ client[d].pc \in {"GET", "PUT"}
    BY DEF ClientStep, ClientReturn, ClientFail
  <1>4. \A y \in Conn : y # OwnConn(d) => down'[y] = down[y]
    BY <1>2 DEF ClientStep, ClientReturn, ClientFail, OwnConn
  <1>5. CASE c # d
    <2>1. client'[c] = client[c]
      BY <1>2, <1>5 DEF ClientStep, ClientReturn, ClientFail
    <2>2. OwnConn(c) # OwnConn(d)
      BY <1>5, OwnConns
    <2>3. \A y \in Conn : y # OwnConn(d) => Loses(y)
      BY <1>3, <1>4 DEF Loses
    <2> QED
      BY Zenon, <1>1, <1>3, <2>1, <2>2, <2>3, Untouched
  <1>6. CASE client'[c].pc = "failed"
    BY <1>6 DEF Served
  <1>7. CASE c = d /\ client'[c].pc # "failed"
    <2> DEFINE q == down[OwnConn(c)]
               w == Wanted(client[c].pc)
               F == Fitting(client[c].pc, client[c].page)
    <2>1. client'[c] = IdleClient /\ Len(q) >= w /\ down'[OwnConn(c)] = SubSeq(q, w + 1, Len(q))
      <3>1. ~ClientFail(c)
        BY <1>2, <1>7 DEF ClientFail, ClientState
      <3>2. ClientReturn(c)
        BY <1>7, <3>1 DEF ClientStep
      <3>3. client'[c] = IdleClient
        <4>1. client[c] \in ClientState
          BY <1>2
        <4>2. CASE client[c].pc = "PUT" /\ Head(q) # Ack
          <5>1. client' = [client EXCEPT ![c] = [@ EXCEPT !.pc = "failed"]]
            BY <3>2, <4>2 DEF ClientReturn, OwnConn
          <5>2. client'[c].pc = "failed"
            BY <1>2, <4>1, <5>1 DEF ClientState
          <5> QED
            BY <1>7, <5>2
        <4>3. CASE ~(client[c].pc = "PUT" /\ Head(q) # Ack)
          <5>1. client' = [client EXCEPT ![c] = IdleClient]
            BY Zenon, <3>2, <4>3 DEF ClientReturn, OwnConn
          <5> QED
            BY <1>2, <5>1
        <4> QED
          BY <4>2, <4>3
      <3> QED
        BY Zenon, <1>1, <1>2, <3>2, <3>3 DEF ClientReturn, OwnConn
    <2>2. ClientSide(c) /\ PeerSide(c)
      BY <1>3, <1>7 DEF Served
    <2>3. w \in Nat \ {0}
      BY Zenon, SomeWanted
    <2>4. q \in Seq(F) /\ Len(q) <= w
      BY Zenon, <1>3, <1>7, <2>2 DEF ClientSide
    <2>5. Len(q) = w /\ q # <<>>
      <3> HIDE DEF q, w, F
      <3> QED
        BY <2>1, <2>3, <2>4
    <2>6. down'[OwnConn(c)] = <<>>
      <3> HIDE DEF q, w, F
      <3>1. SubSeq(q, w + 1, w) = <<>>
        BY <2>3, <2>4
      <3> QED
        BY <2>1, <2>5, <3>1
    <2>7. up[OwnConn(c)] = <<>> /\ thread[OwnConn(c)].pc \in Resting
      BY Zenon, <1>3, <1>7, <2>2, <2>5 DEF ClientSide
    <2>8. ClientSide(c)'
      <3>1. client'[c].pc = "idle"
        BY SMTT(30), <2>1 DEF IdleClient
      <3> QED
        BY Zenon, <1>3, <2>6, <2>7, <3>1 DEF ClientSide
    <2>9. Received(c)'
      BY Zenon, <1>3, <2>7 DEF Received, Resting
    <2>10. Calm(c)
      BY <2>2, <2>7, NotWaiting DEF Resting
    <2>11. PeerSide(c)'
      BY Zenon, <1>1, <1>3, <1>4, <2>7, <2>10 DEF PeerSide, Calm, Quiet, WaitsOn, Resting
    <2> QED
      BY <2>8, <2>9, <2>11 DEF Served
  <1> QED
    BY <1>5, <1>6, <1>7

\* Every step keeps every client served.
LEMMA ServedKept ==
    ASSUME RangesFit, OneClientPerNode
    PROVE  Routed /\ Typed /\ ForwardOnce /\ AllServed /\ [Next]_vars => AllServed'
  <1> SUFFICES ASSUME Routed, Typed, ForwardOnce, AllServed, [Next]_vars PROVE AllServed'
    OBVIOUS
  <1>1. PagesPure /\ Fresh /\ PagesPure' /\ Fresh'
    BY PagesPureKept, FreshKept DEF AllServed
  <1> SUFFICES ASSUME NEW c \in Client PROVE Served(c)'
    BY <1>1 DEF AllServed
  <1>2. Served(c)
    BY DEF AllServed
  <1>3. OwnConn(c) \in Conn /\ PeerConn \subseteq Conn
    BY OwnConns DEF Conn
  <1>4. ASSUME \A y \in Conn : Loses(y), UNCHANGED <<thread, client, stored>> PROVE Served(c)'
    BY Zenon, <1>2, <1>3, <1>4, Untouched
  <1>5. ASSUME NEW d \in Client, NEW p \in Page, ClientGet(d, p) PROVE Served(c)'
    <2> DEFINE msg == [op |-> "GET", page |-> p, val |-> 0, from |-> d]
    <2>1. msg \in Request /\ msg.from = d
      BY DEF Request
    <2> QED
      BY <1>2, <1>5, <2>1, CallServed DEF ClientGet
  <1>6. ASSUME NEW d \in Client, NEW p \in Page, NEW v \in Val, ClientPut(d, p, v)
        PROVE  Served(c)'
    <2> DEFINE msg == [op |-> "PUT", page |-> p, val |-> v, from |-> d]
    <2>1. msg \in Request /\ msg.from = d
      BY DEF Request
    <2> QED
      BY <1>2, <1>6, <2>1, CallServed DEF ClientPut
  <1>7. ASSUME NEW x \in Conn, ThreadStep(x) PROVE Served(c)'
    <2>1. CASE x \in PeerConn
      BY <1>1, <1>2, <1>7, <2>1, PeerSteps
    <2>2. ASSUME NEW d \in Client, x = OwnConn(d) PROVE Served(c)'
      <3>1. CASE SendKilled(x)
        BY <1>2, <2>2, <3>1, KilledServed
      <3>2. CASE ~SendKilled(x) /\ c = d
        BY <1>1, <1>2, <1>7, <2>2, <3>2, OwnSteps
      <3>3. CASE ~SendKilled(x) /\ c # d
        <4>1. Home[c] # Home[d] /\ OwnConn(c) # OwnConn(d)
          BY <3>3, OwnConns DEF OneClientPerNode
        <4>2. ASSUME NEW y \in Conn, y # OwnConn(d), y \in PeerConn => y.src # Home[d]
              PROVE  /\ client' = client /\ stored \subseteq stored'
                     /\ thread'[y] = thread[y] /\ Loses(y)
          BY Zenon, <1>7, <2>2, <3>3, <4>2, OwnTouches DEF Loses
        <4>3. /\ client' = client /\ stored \subseteq stored'
              /\ thread'[OwnConn(c)] = thread[OwnConn(c)] /\ Loses(OwnConn(c))
          BY Zenon, <1>3, <4>1, <4>2, OwnConns
        <4>4. \A fd \in PeerConn : fd.src = Home[c] => Loses(fd)
          BY <1>3, <4>1, <4>2, OwnConns
        <4> QED
          BY Zenon, <1>2, <4>3, <4>4, Untouched
      <3> QED
        BY <3>1, <3>2, <3>3
    <2> QED
      BY <2>1, <2>2, ConnIsOwnOrPeer
  <1>8. ASSUME NEW x \in Conn, Reset(x) PROVE Served(c)'
    <2>1. /\ link \in [Conn -> {"closed", "up", "reset"}]
          /\ up \in [Conn -> Seq(Request)] /\ down \in [Conn -> Seq(Unit)]
      BY DEF Routed, Typed, UpRoutes, DownTyped
    <2>2. \A y \in Conn : Loses(y)
      BY <1>8, <2>1 DEF Reset, Loses
    <2> QED
      BY <1>4, <1>8, <2>2 DEF Reset
  <1>9. CASE UNCHANGED <<link, up, down, thread, client, stored>>
    BY Zenon, <1>4, <1>9 DEF Loses
  <1> QED
    BY <1>2, <1>5, <1>6, <1>7, <1>8, <1>9, ReturnServed DEF Next, Doubt, vars

LEMMA ServedInitially == Init => AllServed
  <1> SUFFICES ASSUME Init PROVE AllServed
    OBVIOUS
  <1>1. PagesPure
    <2>1. \A p \in Page : Zero \in Fitting("GET", p)
      BY DEF Fitting, Unit
    <2>2. \A p \in Page : ZeroPage \in [1 .. PageUnits -> Fitting("GET", p)]
      BY <2>1 DEF ZeroPage
    <2> QED
      BY <2>2 DEF Init, PagesPure
  <1>2. \A y \in Conn : thread[y] = IdleThread /\ up[y] = <<>> /\ down[y] = <<>>
    BY DEF Init
  <1>3. IdleThread.pc = "recv" /\ IdleThread.got = <<>>
    BY DEF IdleThread
  <1>4. Fresh
    BY <1>2, <1>3 DEF Fresh
  <1>5. ASSUME NEW c \in Client PROVE Served(c)
    <2>1. client[c].pc = "idle"
      BY DEF Init, IdleClient
    <2>2. OwnConn(c) \in Conn /\ PeerConn \subseteq Conn
      BY OwnConns DEF Conn
    <2>3. ClientSide(c)
      BY Zenon, <1>2, <1>3, <2>1, <2>2 DEF ClientSide, Resting
    <2>4. Received(c)
      BY <1>2, <1>3, <2>2 DEF Received
    <2>5. PeerSide(c)
      BY <1>2, <1>3, <2>2 DEF PeerSide, WaitsOn, Quiet, Resting
    <2> QED
      BY <2>3, <2>4, <2>5 DEF Served
  <1> QED
    BY <1>1, <1>4, <1>5 DEF AllServed

LEMMA AlwaysServed ==
    ASSUME RangesFit, OneClientPerNode
    PROVE  Spec => [](Typed /\ AllServed)
  <1>1. Init => AllServed
    BY ServedInitially
  <1>2. Routed /\ Typed /\ ForwardOnce /\ AllServed /\ [Next]_vars => AllServed'
    BY ServedKept
  <1>3. Spec => []ForwardOnce
    BY ForwardedOnce
  <1> QED
    BY AlwaysTyped, <1>1, <1>2, <1>3, PTL DEF Spec

\* "The server forwards the request to the owner and relays the reply": with
\* one client on a node and room for every node's range, whatever a client
\* receives for a GET is data of the page it asked for or zeroes, for a PUT an
\* ACK, and an idle client has nothing coming.  Broken connections, doubted
\* peers, servers killed by SIGPIPE and copies under way change nothing in
\* that.  (Two clients of one node share its connection to a peer: the run
\* that gives a node two clients shows them taking each other's replies.)
THEOREM RepliesRelayed ==
    ASSUME RangesFit, OneClientPerNode
    PROVE  Spec => []RelayIntegrity
  <1>1. Typed /\ AllServed => RelayIntegrity
    <2> SUFFICES ASSUME Typed, AllServed, NEW c \in Client
                 PROVE  LET reply == Range(down[[client |-> c]]) IN
                        CASE client[c].pc = "GET" ->
                            \A u \in reply :
                                u = Zero \/ (u.kind = "data" /\ u.page = client[c].page)
                          [] client[c].pc = "PUT" -> reply \subseteq {Ack}
                          [] client[c].pc = "idle" -> reply = {}
                          [] OTHER -> TRUE
      BY DEF RelayIntegrity
    <2> DEFINE q == down[[client |-> c]]
               F == Fitting(client[c].pc, client[c].page)
    <2>1. client[c].pc \in {"idle", "GET", "PUT", "failed"}
      BY DEF Typed, ClientState
    <2>2. client[c].pc # "failed" => ClientSide(c)
      BY DEF AllServed, Served
    <2>3. q \in Seq(F) => Range(q) \subseteq F
      <3> HIDE DEF q, F
      <3> QED
        BY DEF Range
    <2>4. CASE client[c].pc = "GET"
      <3>1. Range(q) \subseteq F
        BY Zenon, <2>2, <2>3, <2>4 DEF ClientSide, OwnConn
      <3>2. \A u \in F : u = Zero \/ (u.kind = "data" /\ u.page = client[c].page)
        BY <2>4 DEF Fitting
      <3> QED
        BY <2>4, <3>1, <3>2
    <2>5. CASE client[c].pc = "PUT"
      <3>1. Range(q) \subseteq F
        BY Zenon, <2>2, <2>3, <2>5 DEF ClientSide, OwnConn
      <3>2. F = {Ack}
        BY <2>5 DEF Fitting
      <3> QED
        BY <2>5, <3>1, <3>2
    <2>6. CASE client[c].pc = "idle"
      <3>1. q = <<>>
        BY Zenon, <2>2, <2>6 DEF ClientSide, OwnConn
      <3>2. Range(<<>>) = {}
        BY DEF Range
      <3> QED
        BY <2>6, <3>1, <3>2
    <2>7. CASE client[c].pc = "failed"
      BY <2>7
    <2> QED
      BY <2>1, <2>4, <2>5, <2>6, <2>7
  <1> QED
    BY AlwaysServed, <1>1, PTL

\* "ACK only a successful forward": under the same conditions an ACK on its
\* way to a client that waits for one says that the whole page the client
\* wrote has been copied into some node's storage.
THEOREM AcksAreEarned ==
    ASSUME RangesFit, OneClientPerNode
    PROVE  Spec => []AckedPutStored
  <1>1. AllServed => AckedPutStored
    <2> SUFFICES ASSUME AllServed, NEW c \in Client, client[c].pc = "PUT",
                        Ack \in Range(down[[client |-> c]])
                 PROVE  c \in stored
      BY DEF AckedPutStored
    <2>1. ClientSide(c)
      BY DEF AllServed, Served
    <2>2. down[OwnConn(c)] # <<>>
      BY DEF Range, OwnConn
    <2> QED
      BY Zenon, <2>1, <2>2 DEF ClientSide
  <1> QED
    BY AlwaysServed, <1>1, PTL

=============================================================================
