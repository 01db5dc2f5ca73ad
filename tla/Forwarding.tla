----------------------------- MODULE Forwarding -----------------------------
(***************************************************************************)
(* The page servers of a cluster and their clients: the thread that        *)
(* src/dsm_server.c runs for every accepted connection, the forwarding of  *)
(* requests for pages another node owns (src/dsm_cluster.c), and the RPC   *)
(* calls of src/dsm_common.c over TCP.                                     *)
(*                                                                         *)
(* A connection is two FIFO streams.  A reply is a run of units the size   *)
(* of an RPC header: an ACK is one unit, a page PageUnits of them, and     *)
(* dsm_recv_full takes them off the stream one by one, so that two threads *)
(* reading the same connection can each get part of a reply.  A request is *)
(* sent by one send or sendmsg call and read by one thread: it is one      *)
(* element of its stream.                                                  *)
(***************************************************************************)
EXTENDS Integers, Sequences, FiniteSets, Functions

CONSTANTS
    Node,
    Client,
    Home,           \* Home[c]: the node client c connects to
    Page,           \* page ids, naturals
    Owned,          \* Owned[n]: the pages in n's range_start .. range_end - 1
    StoragePages,   \* StoragePages[n]: n's g_storage_pages
    Deployments,    \* the sets of nodes started with a page range of their own
    Members,        \* Members[n]: n's node table, n itself first
    Val,            \* page contents clients write
    PageUnits,      \* header-sized units in a page (512 in the code)
    MaxConn,        \* connections a node can open to one peer
    MayReset,       \* connections that can break
    MayDoubt        \* nodes that can be marked DEAD by their peers

PeerConn == [src : Node, dst : Node, k : 1 .. MaxConn]
ClientConn == [client : Client]
Conn == PeerConn \cup ClientConn

ASSUME ForwardingAssumption ==
    /\ Home \in [Client -> Node]
    /\ Page \subseteq Nat
    /\ Owned \in [Node -> SUBSET Page]
    /\ StoragePages \in [Node -> Nat]
    /\ Deployments \subseteq SUBSET Node
    /\ Members \in [Node -> Seq(Node)]
    /\ PageUnits \in Nat \ {0}
    /\ MaxConn \in Nat \ {0}
    /\ MayReset \subseteq Conn
    /\ MayDoubt \subseteq Node

VARIABLES
    clustered,  \* nodes that run with a cluster context (g_cluster # NULL)
    running,    \* nodes whose server process has not died
    storage,    \* g_storage of each node, page by page, unit by unit
    dead,       \* dead[n]: the nodes whose entry in n's table is DEAD or missing
    peer_fds,   \* peer_fds[n][m]: the connection cached for peer m, or NoFd
    link,       \* link[c]: "closed" (not yet opened), "up" or "reset"
    up,         \* requests on their way to the server of the connection
    down,       \* reply units on their way back
    thread,     \* handle_client_thread of each connection: request in hand,
                \* peer connection, units received or copied so far
    client,     \* the RPC each client is in
    stored      \* history: clients whose current PUT has reached storage

vars == <<clustered, running, storage, dead, peer_fds, link, up, down, thread, client, stored>>

NoFd == [none |-> 0]

Data(p, v) == [kind |-> "data", page |-> p, val |-> v]
Zero == [kind |-> "zero"]
Ack  == [kind |-> "ack"]

ZeroPage == [i \in 1 .. PageUnits |-> Zero]
Content(p, v) == [i \in 1 .. PageUnits |-> Data(p, v)]

\* The node that accepted a connection.
Server(c) == IF c \in PeerConn THEN c.dst ELSE Home[c.client]

IdleThread == [pc |-> "recv", msg |-> <<>>, fd |-> NoFd, got |-> <<>>]
EndedThread == [pc |-> "exit", msg |-> <<>>, fd |-> NoFd, got |-> <<>>]
IdleClient == [pc |-> "idle", page |-> 0, val |-> 0]

Init ==
    /\ clustered \in Deployments
    /\ running = Node
    /\ storage = [n \in Node |-> [p \in Page |-> ZeroPage]]
    /\ dead = [n \in Node |-> {}]
    /\ peer_fds = [n \in Node |-> [m \in Node |-> NoFd]]
    /\ link = [c \in Conn |-> IF c \in ClientConn THEN "up" ELSE "closed"]
    /\ up = [c \in Conn |-> <<>>]
    /\ down = [c \in Conn |-> <<>>]
    /\ thread = [c \in Conn |-> IdleThread]
    /\ client = [c \in Client |-> IdleClient]
    /\ stored = {}

-----------------------------------------------------------------------------
(* dsm_rpc_get and dsm_rpc_put as a client calls them *)

\* A call on a broken connection fails at once; a PUT may also end the client
\* by SIGPIPE, which is the same to the servers.
ClientCall(c, msg) ==
    LET conn == [client |-> c] IN
    /\ stored' = stored \ {c}
    /\ IF link[conn] = "up"
       THEN /\ up' = [up EXCEPT ![conn] = Append(@, msg)]
            /\ client' = [client EXCEPT ![c] =
                   [pc |-> msg.op, page |-> msg.page, val |-> msg.val]]
       ELSE /\ client' = [client EXCEPT ![c].pc = "failed"]
            /\ UNCHANGED up
    /\ UNCHANGED <<clustered, running, storage, dead, peer_fds, link, down, thread>>

ClientGet(c, p) ==
    /\ client[c].pc = "idle"
    /\ ClientCall(c, [op |-> "GET", page |-> p, val |-> 0, from |-> c])

ClientPut(c, p, v) ==
    /\ client[c].pc = "idle"
    /\ ClientCall(c, [op |-> "PUT", page |-> p, val |-> v, from |-> c])

\* Mutant: a PUT waits for a page instead of an ACK.
WantedWholePage(op) == PageUnits

Wanted(op) == IF op = "GET" THEN PageUnits ELSE 1

\* The whole reply has arrived; anything but an ACK fails a PUT.
ClientReturn(c) ==
    LET conn == [client |-> c]
        n    == Wanted(client[c].pc) IN
    /\ client[c].pc \in {"GET", "PUT"}
    /\ Len(down[conn]) >= n
    /\ client' = [client EXCEPT ![c] =
           IF client[c].pc = "PUT" /\ Head(down[conn]) # Ack
           THEN [@ EXCEPT !.pc = "failed"] ELSE IdleClient]
    /\ down' = [down EXCEPT ![conn] = SubSeq(@, n + 1, Len(@))]
    /\ UNCHANGED <<clustered, running, storage, dead, peer_fds, link, up, thread, stored>>

\* The connection ends before the reply is complete.
ClientFail(c) ==
    LET conn == [client |-> c] IN
    /\ client[c].pc \in {"GET", "PUT"}
    /\ link[conn] = "reset"
    /\ Len(down[conn]) < Wanted(client[c].pc)
    /\ client' = [client EXCEPT ![c].pc = "failed"]
    /\ UNCHANGED <<clustered, running, storage, dead, peer_fds, link, up, down, thread, stored>>

-----------------------------------------------------------------------------
(* handle_client_thread *)

Goto(c, pc) == [thread EXCEPT ![c].pc = pc]

\* dsm_send_full of a reply: back to the top of the loop, or out of it.  The
\* thread does not close its connection when it exits.
Reply(c, units) ==
    IF link[c] = "up"
    THEN /\ down' = [down EXCEPT ![c] = @ \o units]
         /\ thread' = [thread EXCEPT ![c] = IdleThread]
    ELSE /\ thread' = [thread EXCEPT ![c] = EndedThread]
         /\ UNCHANGED down

Exit(c) ==
    /\ thread' = [thread EXCEPT ![c] = EndedThread]
    /\ UNCHANGED down

\* Mutant: the bound on g_storage is off by one.
ServesOffByOne(n, p) ==
    /\ n \in clustered => p \in Owned[n]
    /\ p + 1 < StoragePages[n]

\* is_local and the bound on g_storage.
Serves(n, p) ==
    /\ n \in clustered => p \in Owned[n]
    /\ p < StoragePages[n]

\* A request has arrived.
Receive(c) ==
    LET n   == Server(c)
        msg == Head(up[c]) IN
    /\ thread[c].pc = "recv"
    /\ up[c] # <<>>
    /\ up' = [up EXCEPT ![c] = Tail(@)]
    /\ \/ /\ msg.op = "GET"
          /\ Serves(n, msg.page)
          /\ Reply(c, storage[n][msg.page])
       \/ /\ msg.op = "PUT"
          /\ Serves(n, msg.page)
          /\ thread' = [thread EXCEPT ![c].pc = "copy", ![c].msg = msg]
          /\ UNCHANGED down
       \/ /\ ~Serves(n, msg.page)
          /\ n \in clustered
          /\ thread' = [thread EXCEPT ![c].pc = "forward", ![c].msg = msg]
          /\ UNCHANGED down
       \/ /\ ~Serves(n, msg.page)
          /\ n \notin clustered
          /\ IF msg.op = "GET" THEN Reply(c, ZeroPage) ELSE Exit(c)
    /\ UNCHANGED <<clustered, running, storage, dead, peer_fds, link, client, stored>>

\* The peer of the connection is gone.
ReceiveFail(c) ==
    /\ thread[c].pc = "recv"
    /\ link[c] = "reset"
    /\ up[c] = <<>>
    /\ Exit(c)
    /\ UNCHANGED <<clustered, running, storage, dead, peer_fds, link, up, client, stored>>

\* memcpy into g_storage takes no lock: another thread's GET or PUT of the
\* page can come between two units.  The ACK follows the last one.
Copy(c) ==
    LET n   == Server(c)
        msg == thread[c].msg
        i   == Len(thread[c].got) + 1 IN
    /\ thread[c].pc = "copy"
    /\ storage' = [storage EXCEPT ![n][msg.page][i] = Data(msg.page, msg.val)]
    /\ IF i < PageUnits
       THEN /\ thread' = [thread EXCEPT ![c].got = Append(@, Data(msg.page, msg.val))]
            /\ UNCHANGED <<down, stored>>
       ELSE /\ Reply(c, <<Ack>>)
            /\ stored' = stored \cup {msg.from}
    /\ UNCHANGED <<clustered, running, dead, peer_fds, link, up, client>>

-----------------------------------------------------------------------------
(* cluster_forward_get and cluster_forward_put *)

\* Mutant: a failed PUT is answered with zeroes as well.
ForwardFailZeroes(c) == Reply(c, ZeroPage)

\* Mutant: a failed PUT is acknowledged.
ForwardFailAcks(c) ==
    Reply(c, IF thread[c].msg.op = "GET" THEN ZeroPage ELSE <<Ack>>)

\* Failure: a GET is answered with zeroes, a PUT ends the thread.
ForwardFail(c) ==
    IF thread[c].msg.op = "GET" THEN Reply(c, ZeroPage) ELSE Exit(c)

\* cluster_get_owner: the places in the table that match.
Candidates(n, p) ==
    {i \in DOMAIN Members[n] :
        Members[n][i] \notin dead[n] /\ p \in Owned[Members[n][i]]}

\* The first one.
IsOwner(m, n, p) ==
    \E i \in Candidates(n, p) :
        m = Members[n][i] /\ \A j \in Candidates(n, p) : i <= j

\* cluster_get_owner and the look at the connection cache of
\* get_peer_connection.  Nothing but the node table is read under a lock.
FindOwner(c) ==
    LET n == Server(c)
        p == thread[c].msg.page IN
    /\ thread[c].pc = "forward"
    /\ \/ /\ Candidates(n, p) = {}
          /\ ForwardFail(c)
       \/ /\ \E m \in Node :
                /\ IsOwner(m, n, p)
                /\ thread' = [thread EXCEPT
                       ![c].pc = IF peer_fds[n][m] = NoFd THEN "connect" ELSE "send",
                       ![c].fd = IF peer_fds[n][m] = NoFd
                                 THEN [src |-> n, dst |-> m] ELSE peer_fds[n][m]]
          /\ UNCHANGED down
    /\ UNCHANGED <<clustered, running, storage, dead, peer_fds, link, up, client, stored>>

\* Mutant: the connection is cached in the slot of the node itself.
ConnectWrongSlot(c) ==
    /\ thread[c].pc = "connect"
    /\ \E k \in 1 .. MaxConn :
        LET n  == thread[c].fd.src
            fd == [src |-> n, dst |-> thread[c].fd.dst, k |-> k] IN
        /\ link[fd] = "closed"
        /\ link' = [link EXCEPT ![fd] = "up"]
        /\ peer_fds' = [peer_fds EXCEPT ![n][n] = fd]
        /\ thread' = [thread EXCEPT ![c].pc = "send", ![c].fd = fd]
    /\ UNCHANGED <<clustered, running, storage, dead, up, down, client, stored>>

\* connect succeeds and the new connection replaces the cached one; the peer
\* accepts it and starts a thread.
Connect(c) ==
    /\ thread[c].pc = "connect"
    /\ \E k \in 1 .. MaxConn :
        LET n  == thread[c].fd.src
            m  == thread[c].fd.dst
            fd == [src |-> n, dst |-> m, k |-> k] IN
        /\ m \in running
        /\ link[fd] = "closed"
        /\ \A j \in 1 .. k - 1 : link[[src |-> n, dst |-> m, k |-> j]] # "closed"
        /\ link' = [link EXCEPT ![fd] = "up"]
        /\ peer_fds' = [peer_fds EXCEPT ![n][m] = fd]
        /\ thread' = [thread EXCEPT ![c].pc = "send", ![c].fd = fd]
    /\ UNCHANGED <<clustered, running, storage, dead, up, down, client, stored>>

ConnectFail(c) ==
    /\ thread[c].pc = "connect"
    /\ thread[c].fd.dst \in MayDoubt \cup (Node \ running)
    /\ ForwardFail(c)
    /\ UNCHANGED <<clustered, running, storage, dead, peer_fds, link, up, client, stored>>

\* dsm_rpc_get or dsm_rpc_put on the peer connection: the request.  A broken
\* connection stays in the cache.
SendRequest(c) ==
    LET fd == thread[c].fd IN
    /\ thread[c].pc = "send"
    /\ IF link[fd] = "up"
       THEN /\ up' = [up EXCEPT ![fd] = Append(@, thread[c].msg)]
            /\ thread' = Goto(c, "await")
            /\ UNCHANGED down
       ELSE /\ ForwardFail(c)
            /\ UNCHANGED up
    /\ UNCHANGED <<clustered, running, storage, dead, peer_fds, link, client, stored>>

\* The PUT is sent with writev: on a broken connection it raises SIGPIPE,
\* which the server does not handle.  The process dies, its threads with it,
\* and every connection it had breaks.
SendKilled(c) ==
    LET n == Server(c) IN
    /\ thread[c].pc = "send"
    /\ thread[c].msg.op = "PUT"
    /\ link[thread[c].fd] = "reset"
    /\ running' = running \ {n}
    /\ thread' = [x \in Conn |-> IF Server(x) = n THEN EndedThread
                                                  ELSE thread[x]]
    /\ link' = [x \in Conn |->
           IF link[x] = "up" /\ (Server(x) = n \/ (x \in PeerConn /\ x.src = n))
           THEN "reset" ELSE link[x]]
    /\ UNCHANGED <<clustered, storage, dead, peer_fds, up, down, client, stored>>

\* dsm_recv_full: the next unit of the reply, whoever it was meant for.
AwaitReply(c) ==
    LET fd  == thread[c].fd
        op  == thread[c].msg.op
        got == Append(thread[c].got, Head(down[fd])) IN
    /\ thread[c].pc = "await"
    /\ down[fd] # <<>>
    /\ IF Len(got) < Wanted(op)
       THEN thread' = [thread EXCEPT ![c].got = got]
       ELSE thread' = [thread EXCEPT ![c].got = got, ![c].pc = "relay"]
    /\ down' = [down EXCEPT ![fd] = Tail(@)]
    /\ UNCHANGED <<clustered, running, storage, dead, peer_fds, link, up, client, stored>>

AwaitFail(c) ==
    LET fd == thread[c].fd IN
    /\ thread[c].pc = "await"
    /\ link[fd] = "reset"
    /\ down[fd] = <<>>
    /\ ForwardFail(c)
    /\ UNCHANGED <<clustered, running, storage, dead, peer_fds, link, up, client, stored>>

\* The answer goes back to the client; only an ACK acknowledges a PUT.
Relay(c) ==
    /\ thread[c].pc = "relay"
    /\ IF thread[c].msg.op = "GET"
       THEN Reply(c, thread[c].got)
       ELSE IF thread[c].got = <<Ack>> THEN Reply(c, <<Ack>>) ELSE ForwardFail(c)
    /\ UNCHANGED <<clustered, running, storage, dead, peer_fds, link, up, client, stored>>

-----------------------------------------------------------------------------
(* Environment *)

\* A TCP connection breaks; what was under way is delivered or lost.
Reset(c) ==
    /\ c \in MayReset
    /\ link[c] = "up"
    /\ link' = [link EXCEPT ![c] = "reset"]
    /\ up' \in {up, [up EXCEPT ![c] = <<>>]}
    /\ down' \in {down, [down EXCEPT ![c] = <<>>]}
    /\ UNCHANGED <<clustered, running, storage, dead, peer_fds, thread, client, stored>>

\* The failure detector marks a peer DEAD, or ALIVE again.
Doubt(n, m) ==
    /\ n \in clustered
    /\ m \in MayDoubt \ {n}
    /\ dead' = [dead EXCEPT ![n] = IF m \in @ THEN @ \ {m} ELSE @ \cup {m}]
    /\ UNCHANGED <<clustered, running, storage, peer_fds, link, up, down, thread, client, stored>>

\* A connection that is not open has no requests, so its thread does nothing.
ThreadStep(c) ==
    \/ Receive(c) \/ ReceiveFail(c) \/ Copy(c)
    \/ FindOwner(c) \/ Connect(c) \/ ConnectFail(c)
    \/ SendRequest(c) \/ SendKilled(c) \/ AwaitReply(c) \/ AwaitFail(c) \/ Relay(c)

ClientStep(c) == ClientReturn(c) \/ ClientFail(c)

Next ==
    \/ \E c \in Client, p \in Page : ClientGet(c, p)
    \/ \E c \in Client, p \in Page, v \in Val : ClientPut(c, p, v)
    \/ \E c \in Client : ClientStep(c)
    \/ \E c \in Conn : ThreadStep(c)
    \/ \E c \in Conn : Reset(c)
    \/ \E n, m \in Node : Doubt(n, m)

Spec == Init /\ [][Next]_vars

\* Threads and clients are scheduled; nothing forces a client to make a
\* call, a connection to break or a peer to be doubted.
LiveSpec ==
    /\ Spec
    /\ \A c \in Conn : WF_vars(ThreadStep(c))
    /\ \A c \in Client : WF_vars(ClientStep(c))

-----------------------------------------------------------------------------
(* Properties *)

Unit == {Zero, Ack} \cup [kind : {"data"}, page : Page, val : Val]
Request == {r \in [op : {"GET", "PUT"}, page : Page, val : Val \cup {0}, from : Client] :
               r.op = "PUT" => r.val \in Val}

TypeOK ==
    /\ running \subseteq Node
    /\ storage \in [Node -> [Page -> [1 .. PageUnits -> Unit]]]
    /\ dead \in [Node -> SUBSET Node]
    /\ \A n, m \in Node : peer_fds[n][m] \in
            {NoFd} \cup {f \in PeerConn : f.src = n /\ f.dst = m}
    /\ link \in [Conn -> {"closed", "up", "reset"}]
    /\ up \in [Conn -> Seq(Request)] /\ down \in [Conn -> Seq(Unit)]
    /\ \A c \in Conn : thread[c].pc \in {"recv", "copy", "forward", "connect", "send",
                                          "await", "relay", "exit"}
    /\ \A c \in Client : client[c].pc \in {"idle", "GET", "PUT", "failed"}
    /\ stored \subseteq Client

\* "The server forwards the request to the owner and relays the reply"
\* (README.md): what comes back to a client that asked for a page is that
\* page's data or zeroes, and to one that wrote a page nothing but an ACK;
\* an idle client has nothing coming.
RelayIntegrity ==
    \A c \in Client :
        LET reply == Range(down[[client |-> c]]) IN
        CASE client[c].pc = "GET" ->
                 \A u \in reply : u = Zero \/ (u.kind = "data" /\ u.page = client[c].page)
          [] client[c].pc = "PUT" -> reply \subseteq {Ack}
          [] client[c].pc = "idle" -> reply = {}
          [] OTHER -> TRUE

\* "ACK only a successful forward" (dsm_server.c): a PUT is acknowledged to
\* the client only after the whole page is in the storage of a node.
AckedPutStored ==
    \A c \in Client :
        client[c].pc = "PUT" /\ Ack \in Range(down[[client |-> c]]) => c \in stored

\* Every node has room for its page range.
RangesFit == \A n \in Node : \A p \in Owned[n] : p < StoragePages[n]

\* When every node has room for its range, a forwarded request ends at the
\* owner: the thread of a peer connection never forwards, so a chain of
\* waiting threads is at most two long and cannot close into a cycle.
ForwardOnce ==
    \A c \in PeerConn :
        thread[c].pc \notin {"forward", "connect", "send", "await", "relay"}

\* Every call of a client returns, with an answer or with an error, unless
\* the thread of its connection has ended (a PUT that could not be
\* forwarded).  Two nodes that forward to each other, peers that are doubted
\* and connections that break leave no thread waiting for ever.
CallsEnd ==
    \A c \in Client :
        client[c].pc \in {"GET", "PUT"}
            ~> client[c].pc \in {"idle", "failed"} \/ thread[[client |-> c]].pc = "exit"
=============================================================================
