----------------------------- MODULE AcceptLoop -----------------------------
(***************************************************************************)
(* The server process of src/dsm_server.c around its connections: startup  *)
(* with its error paths, the accept loop, the slots that remember one      *)
(* thread and one descriptor per client, their reaping, and the shutdown   *)
(* that a signal asks for; with it cluster_start, cluster_stop and         *)
(* cluster_destroy of src/dsm_cluster.c.                                   *)
(*                                                                         *)
(* What a connection thread does with a request is in Forwarding.  Here a  *)
(* thread is in its loop test, in a read of its client, using g_storage,   *)
(* or waiting for a peer, and it ends for any of the reasons it can have.  *)
(* Descriptors and thread ids are reused as the kernel reuses them.        *)
(***************************************************************************)
EXTENDS Integers

CONSTANTS
    Fd,             \* descriptors left for client connections (RLIMIT_NOFILE)
    NoFd,           \* -1
    Tid,            \* thread ids, enough for MaxSlots threads
    InitialSlots,   \* MAX_CLIENTS
    MaxSlots,       \* slots for which there is memory
    MaxFaults,      \* failing calls in the accept loop
    Clustered       \* ccfg.page_range_end > 0

ASSUME AcceptLoopAssumption ==
    /\ NoFd \notin Fd
    /\ InitialSlots \in Nat \ {0}
    /\ MaxSlots \in Nat
    /\ InitialSlots <= MaxSlots
    /\ MaxFaults \in Nat
    /\ Clustered \in BOOLEAN

VARIABLES
    pc,             \* where main is
    running,        \* the flag handle_signal clears
    g_storage,      \* "none" or "mapped"
    cluster,        \* g_cluster: "none", "created", "freed"
    ctx_running,    \* g_cluster->running
    helpers,        \* threads of the cluster that run
    listen_fd,      \* "closed" or "open"
    pending,        \* connections that wait to be accepted, at most one
    open,           \* client descriptors that are open
    eof,            \* those whose stream has ended or was shut down
    client_fd,      \* the descriptor main has just accepted
    slots, slot_count, slot_cap,
    i, kept,        \* locals of the loops over slots
    thread,         \* connection threads: where they are, their client_fd
    faults          \* failures left

resources == <<g_storage, cluster, ctx_running, helpers, listen_fd>>
table == <<slots, slot_count, slot_cap>>
vars == <<pc, running, resources, pending, open, eof, client_fd, table, i, kept,
          thread, faults>>

Helper == {"gossip", "heartbeat"}
NoThread == [pc |-> "none", fd |-> NoFd]
Alive(t) == thread[t].pc # "none"

Init ==
    /\ pc = "map"
    /\ running = 1
    /\ g_storage = "none"
    /\ cluster = "none"
    /\ ctx_running = 0
    /\ helpers = {}
    /\ listen_fd = "closed"
    /\ pending = 0
    /\ open = {}
    /\ eof = {}
    /\ client_fd = NoFd
    /\ slots = <<>>
    /\ slot_count = 0
    /\ slot_cap = 0
    /\ i = 0
    /\ kept = 0
    /\ thread = [t \in Tid |-> NoThread]
    /\ faults = MaxFaults

-----------------------------------------------------------------------------
(* Startup *)

\* What a step of main before the accept loop leaves alone.
Quiet == UNCHANGED <<running, pending, open, eof, client_fd, i, kept, thread, faults>>

\* An error before the accept loop: munmap and return 1.
Abort == pc' = "exit" /\ g_storage' = "none"

Map ==
    /\ pc = "map"
    /\ \/ /\ g_storage' = "mapped"
          /\ pc' = IF Clustered THEN "create" ELSE "listen"
       \/ Abort
    /\ Quiet /\ UNCHANGED <<cluster, ctx_running, helpers, listen_fd, table>>

ClusterCreate ==
    /\ pc = "create"
    /\ \/ cluster' = "created" /\ pc' = "start" /\ UNCHANGED g_storage
       \/ Abort /\ UNCHANGED cluster
    /\ Quiet /\ UNCHANGED <<ctx_running, helpers, listen_fd, table>>

\* cluster_start up to its first pthread_create.  The context stays allocated
\* when it fails.
StartGossip ==
    /\ pc = "start"
    /\ \/ /\ ctx_running' = 1
          /\ helpers' = {"gossip"}
          /\ pc' = "beat"
          /\ UNCHANGED g_storage
       \/ Abort /\ UNCHANGED <<ctx_running, helpers>>
    /\ Quiet /\ UNCHANGED <<cluster, listen_fd, table>>

\* The second one.  Once both threads run the node joins its seed, which has
\* no outcome main depends on.
StartHeartbeat ==
    /\ pc = "beat"
    /\ \/ helpers' = helpers \cup {"heartbeat"} /\ pc' = "listen" /\ UNCHANGED ctx_running
       \/ ctx_running' = 0 /\ pc' = "unwind" /\ UNCHANGED helpers
    /\ Quiet /\ UNCHANGED <<g_storage, cluster, listen_fd, table>>

\* pthread_join of the gossip thread after a failed start.
Unwind ==
    /\ pc = "unwind"
    /\ helpers = {}
    /\ Abort
    /\ Quiet /\ UNCHANGED <<cluster, ctx_running, helpers, listen_fd, table>>

\* start_server.  On an error the cluster's threads are left running.
Listen ==
    /\ pc = "listen"
    /\ \/ listen_fd' = "open" /\ pc' = "slots" /\ UNCHANGED g_storage
       \/ Abort /\ UNCHANGED listen_fd
    /\ Quiet /\ UNCHANGED <<cluster, ctx_running, helpers, table>>

AllocSlots ==
    /\ pc = "slots"
    /\ \/ slot_cap' = InitialSlots /\ pc' = "check" /\ UNCHANGED <<g_storage, listen_fd>>
       \/ Abort /\ listen_fd' = "closed" /\ UNCHANGED slot_cap
    /\ Quiet /\ UNCHANGED <<cluster, ctx_running, helpers, slots, slot_count>>

-----------------------------------------------------------------------------
(* The accept loop *)

\* The loop test.  accept is a step of its own: a signal that comes in
\* between finds nothing to interrupt.
CheckRunning ==
    /\ pc = "check"
    /\ pc' = IF running = 1 THEN "call" ELSE "close"
    /\ Quiet /\ UNCHANGED <<resources, table>>

CallAccept ==
    /\ pc = "call"
    /\ pc' = "accept"
    /\ Quiet /\ UNCHANGED <<resources, table>>

\* The kernel takes any free descriptor.
Accept ==
    /\ pc = "accept"
    /\ pending = 1
    /\ \E fd \in Fd \ open :
        /\ client_fd' = fd
        /\ open' = open \cup {fd}
    /\ pending' = 0
    /\ pc' = "alloc"
    /\ UNCHANGED <<running, resources, eof, table, i, kept, thread, faults>>

\* A call fails although it need not.
Fault == faults > 0 /\ faults' = faults - 1

\* Without a descriptor left, or for a connection already given up, accept
\* fails and the loop ends.
AcceptFail ==
    /\ pc = "accept"
    /\ pending = 1
    /\ (open = Fd /\ UNCHANGED faults) \/ Fault
    /\ pc' = "close"
    /\ UNCHANGED <<running, resources, pending, open, eof, client_fd, table, i, kept, thread>>

\* Mutant: an error path forgets the descriptor.
DropClientLeaks ==
    /\ client_fd' = NoFd
    /\ pc' = "check"
    /\ UNCHANGED <<running, resources, pending, open, eof, table, i, kept, thread>>

\* malloc, realloc or pthread_create failed: close the connection, go on.
DropClient ==
    /\ open' = open \ {client_fd}
    /\ eof' = eof \ {client_fd}
    /\ client_fd' = NoFd
    /\ pc' = "check"
    /\ UNCHANGED <<running, resources, pending, table, i, kept, thread>>

\* Mutant: the table counts as full one slot too late.
AllocArgOffByOne ==
    /\ pc = "alloc"
    /\ pc' = IF slot_count > slot_cap THEN "reap" ELSE "spawn"
    /\ i' = 0
    /\ kept' = 0
    /\ UNCHANGED <<running, resources, pending, open, eof, client_fd, table, thread, faults>>

\* Mutant: reaping starts behind the first slot.
AllocArgSkipsFirst ==
    /\ pc = "alloc"
    /\ pc' = IF slot_count = slot_cap THEN "reap" ELSE "spawn"
    /\ i' = 1
    /\ kept' = 1
    /\ UNCHANGED <<running, resources, pending, open, eof, client_fd, table, thread, faults>>

AllocArg ==
    /\ pc = "alloc"
    /\ pc' = IF slot_count = slot_cap THEN "reap" ELSE "spawn"
    /\ i' = 0
    /\ kept' = 0
    /\ UNCHANGED <<running, resources, pending, open, eof, client_fd, table, thread, faults>>

AllocArgFail ==
    /\ pc = "alloc"
    /\ Fault
    /\ DropClient

Finished(k) == thread[slots[k].tid].pc = "done"

\* The thread is joined and its descriptor closed: both can be used again.
Release(k) ==
    /\ thread' = [thread EXCEPT ![slots[k].tid] = NoThread]
    /\ open' = open \ {slots[k].fd}
    /\ eof' = eof \ {slots[k].fd}

\* Mutant: the slot moves but the count of kept ones does not.
ReapKeepLosesSlot ==
    /\ pc = "reap"
    /\ i < slot_count
    /\ ~Finished(i)
    /\ slots' = [slots EXCEPT ![kept] = slots[i]]
    /\ i' = i + 1
    /\ UNCHANGED <<pc, running, resources, pending, open, eof, client_fd, slot_count,
                   slot_cap, kept, thread, faults>>

\* pthread_tryjoin_np finds the thread running: its slot moves down.
ReapKeep ==
    /\ pc = "reap"
    /\ i < slot_count
    /\ ~Finished(i)
    /\ slots' = [slots EXCEPT ![kept] = slots[i]]
    /\ kept' = kept + 1
    /\ i' = i + 1
    /\ UNCHANGED <<pc, running, resources, pending, open, eof, client_fd, slot_count,
                   slot_cap, thread, faults>>

ReapDone ==
    /\ pc = "reap"
    /\ i < slot_count
    /\ Finished(i)
    /\ Release(i)
    /\ i' = i + 1
    /\ UNCHANGED <<pc, running, resources, pending, client_fd, table, kept, faults>>

\* The first n slots.
Truncated(n) == [k \in 0 .. n - 1 |-> slots[k]]

\* Mutant: the table grows whatever realloc returned.
ReapEndUnchecked ==
    /\ pc = "reap"
    /\ i = slot_count
    /\ slots' = Truncated(kept)
    /\ slot_count' = kept
    /\ slot_cap' = IF kept = slot_cap THEN 2 * slot_cap ELSE slot_cap
    /\ pc' = "spawn"
    /\ UNCHANGED <<running, resources, pending, open, eof, client_fd, i, kept, thread, faults>>

\* slot_count = kept; when nothing was reaped the table doubles.
ReapEnd ==
    /\ pc = "reap"
    /\ i = slot_count
    /\ slots' = Truncated(kept)
    /\ slot_count' = kept
    /\ \/ kept # slot_cap /\ UNCHANGED slot_cap
       \/ kept = slot_cap /\ 2 * slot_cap <= MaxSlots /\ slot_cap' = 2 * slot_cap
    /\ pc' = "spawn"
    /\ UNCHANGED <<running, resources, pending, open, eof, client_fd, i, kept, thread, faults>>

\* realloc fails.
GrowFail ==
    /\ pc = "reap"
    /\ i = slot_count
    /\ kept = slot_cap
    /\ (2 * slot_cap > MaxSlots /\ UNCHANGED faults) \/ Fault
    /\ DropClient

Spawn ==
    /\ pc = "spawn"
    /\ \E t \in Tid :
        /\ ~Alive(t)
        /\ thread' = [thread EXCEPT ![t] = [pc |-> "check", fd |-> client_fd]]
        /\ slots' = [k \in 0 .. slot_count |->
               IF k < slot_count THEN slots[k] ELSE [tid |-> t, fd |-> client_fd]]
    /\ slot_count' = slot_count + 1
    /\ client_fd' = NoFd
    /\ pc' = "check"
    /\ UNCHANGED <<running, resources, pending, open, eof, slot_cap, i, kept, faults>>

SpawnFail ==
    /\ pc = "spawn"
    /\ Fault
    /\ DropClient

-----------------------------------------------------------------------------
(* Shutdown *)

CloseListen ==
    /\ pc = "close"
    /\ listen_fd' = "closed"
    /\ pending' = 0
    /\ pc' = "shut"
    /\ i' = 0
    /\ UNCHANGED <<running, g_storage, cluster, ctx_running, helpers, open, eof, client_fd,
                   table, kept, thread, faults>>

\* Mutant: the connections are not shut down before the joins.
ShutSlotNone ==
    /\ pc = "shut"
    /\ i' = 0
    /\ pc' = "join"
    /\ UNCHANGED <<running, resources, pending, open, eof, client_fd, table, kept, thread, faults>>

\* shutdown(fd, SHUT_RDWR) for every slot.
ShutSlot ==
    /\ pc = "shut"
    /\ IF i < slot_count
       THEN eof' = eof \cup {slots[i].fd} /\ i' = i + 1 /\ UNCHANGED pc
       ELSE i' = 0 /\ pc' = "join" /\ UNCHANGED eof
    /\ UNCHANGED <<running, resources, pending, open, client_fd, table, kept, thread, faults>>

JoinSlot ==
    /\ pc = "join"
    /\ i < slot_count
    /\ Finished(i)
    /\ Release(i)
    /\ i' = i + 1
    /\ UNCHANGED <<pc, running, resources, pending, client_fd, table, kept, faults>>

\* The last thread is joined; cluster_destroy stops the cluster's threads.
JoinEnd ==
    /\ pc = "join"
    /\ i = slot_count
    /\ slots' = <<>>
    /\ slot_count' = 0
    /\ slot_cap' = 0
    /\ i' = 0
    /\ pc' = IF cluster = "created" THEN "destroy" ELSE "unmap"
    /\ ctx_running' = 0
    /\ UNCHANGED <<running, g_storage, cluster, helpers, listen_fd, pending, open, eof,
                   client_fd, kept, thread, faults>>

\* Mutant: the cluster is freed while its threads run.
ClusterDestroyEarly ==
    /\ pc = "destroy"
    /\ cluster' = "freed"
    /\ pc' = "unmap"
    /\ Quiet /\ UNCHANGED <<g_storage, ctx_running, helpers, listen_fd, table>>

\* Both joins of cluster_stop have returned.
ClusterDestroy ==
    /\ pc = "destroy"
    /\ helpers = {}
    /\ cluster' = "freed"
    /\ pc' = "unmap"
    /\ Quiet /\ UNCHANGED <<g_storage, ctx_running, helpers, listen_fd, table>>

Unmap ==
    /\ pc = "unmap"
    /\ g_storage' = "none"
    /\ pc' = "exit"
    /\ Quiet /\ UNCHANGED <<cluster, ctx_running, helpers, listen_fd, table>>

Main ==
    \/ Map \/ ClusterCreate \/ StartGossip \/ StartHeartbeat \/ Unwind \/ Listen \/ AllocSlots
    \/ CheckRunning \/ CallAccept \/ Accept \/ AcceptFail \/ AllocArg \/ AllocArgFail
    \/ ReapKeep \/ ReapDone \/ ReapEnd \/ GrowFail \/ Spawn \/ SpawnFail
    \/ CloseListen \/ ShutSlot \/ JoinSlot \/ JoinEnd \/ ClusterDestroy \/ Unmap

-----------------------------------------------------------------------------
(* Connection threads, the cluster's threads, clients and signals *)

At(t, a) == thread[t].pc = a /\ pc # "exit"

Goto(t, a) ==
    /\ thread' = [thread EXCEPT ![t].pc = a]
    /\ UNCHANGED <<pc, running, resources, pending, open, eof, client_fd, table, i, kept, faults>>

TestLoop(t) == At(t, "check") /\ Goto(t, IF running = 1 THEN "recv" ELSE "done")

\* A request for a local page, or one to forward.
Request(t) ==
    /\ At(t, "recv")
    /\ thread[t].fd \notin eof
    /\ \/ Goto(t, "serve")
       \/ Clustered /\ Goto(t, "forward")

\* dsm_recv_full fails.
StreamEnds(t) == At(t, "recv") /\ thread[t].fd \in eof /\ Goto(t, "done")

\* The reply is sent, or could not be; a client that reads nothing keeps the
\* thread in dsm_send_full until its stream is shut down.
Serve(t) == At(t, "serve") /\ (Goto(t, "check") \/ Goto(t, "done"))

\* cluster_forward_get or cluster_forward_put returns.
ForwardEnds(t) == At(t, "forward") /\ (Goto(t, "check") \/ Goto(t, "done"))

\* A helper leaves its loop.
HelperEnds(h) ==
    /\ h \in helpers
    /\ ctx_running = 0
    /\ pc # "exit"
    /\ helpers' = helpers \ {h}
    /\ Quiet /\ UNCHANGED <<pc, g_storage, cluster, ctx_running, listen_fd, table>>

Arrive ==
    /\ listen_fd = "open"
    /\ pending = 0
    /\ pending' = 1
    /\ UNCHANGED <<pc, running, resources, open, eof, client_fd, table, i, kept, thread, faults>>

Disconnect(fd) ==
    /\ fd \in open
    /\ eof' = eof \cup {fd}
    /\ UNCHANGED <<pc, running, resources, pending, open, client_fd, table, i, kept, thread,
                   faults>>

\* SIGINT or SIGTERM: accept returns EINTR when main is in it.
Signal ==
    /\ pc # "exit"
    /\ running' = 0
    /\ pc' = IF pc = "accept" THEN "check" ELSE pc
    /\ UNCHANGED <<resources, pending, open, eof, client_fd, table, i, kept, thread, faults>>

ThreadStep(t) ==
    TestLoop(t) \/ Request(t) \/ StreamEnds(t) \/ Serve(t) \/ ForwardEnds(t)

Next ==
    \/ Main
    \/ \E t \in Tid : ThreadStep(t)
    \/ \E h \in Helper : HelperEnds(h)
    \/ Arrive
    \/ \E fd \in Fd : Disconnect(fd)
    \/ Signal

Spec == Init /\ [][Next]_vars

\* Main, the loop tests and the helpers are scheduled.  A thread leaves a read
\* or a send once its stream has ended, and a forwarded request comes back:
\* the peer answers or its connection breaks (CallsEnd of Forwarding).
\* Nothing forces a client to send, to read or to go.
Scheduled ==
    /\ WF_vars(Main)
    /\ \A t \in Tid :
        /\ WF_vars(TestLoop(t))
        /\ WF_vars(StreamEnds(t))
        /\ WF_vars(thread[t].fd \in eof /\ Serve(t))
        /\ WF_vars(ForwardEnds(t))
    /\ \A h \in Helper : WF_vars(HelperEnds(h))

QuietSpec == Spec /\ Scheduled

\* As before, and new clients keep coming.
BusySpec == QuietSpec /\ WF_vars(Arrive)

-----------------------------------------------------------------------------
(* Properties *)

\* The slots that stand for a thread: while the table is compacted those
\* already kept and those not yet looked at, during the final joins the rest.
LiveSlots ==
    CASE pc = "reap" -> (0 .. kept - 1) \cup (i .. slot_count - 1)
      [] pc = "join" -> i .. slot_count - 1
      [] OTHER -> 0 .. slot_count - 1

TypeOK ==
    /\ pc \in {"map", "create", "start", "beat", "unwind", "listen", "slots", "check",
               "call", "accept", "alloc", "reap", "spawn", "close", "shut", "join",
               "destroy", "unmap", "exit"}
    /\ running \in {0, 1}
    /\ g_storage \in {"none", "mapped"}
    /\ cluster \in {"none", "created", "freed"}
    /\ ctx_running \in {0, 1}
    /\ helpers \subseteq Helper
    /\ listen_fd \in {"closed", "open"}
    /\ pending \in {0, 1}
    /\ open \subseteq Fd
    /\ eof \subseteq open
    /\ client_fd \in open \cup {NoFd}
    /\ slot_count \in 0 .. slot_cap
    /\ slot_cap \in 0 .. MaxSlots
    /\ slots \in [0 .. slot_count - 1 -> [tid : Tid, fd : Fd]]
    /\ i \in 0 .. MaxSlots
    /\ kept \in 0 .. MaxSlots
    /\ thread \in [Tid -> [pc : {"none", "check", "recv", "serve", "forward", "done"},
                           fd : Fd \cup {NoFd}]]
    /\ faults \in 0 .. MaxFaults

\* "Reap finished client threads to free slots" (dsm_server.c): every thread
\* that has not been joined has exactly one slot, the slot holds the
\* descriptor the thread uses, and no two threads share one, while the table
\* is compacted in place and descriptors are reused.  So no thread's
\* descriptor is closed under it and none is joined twice.
SlotPerThread ==
    /\ \A t \in Tid : Alive(t) => \E k \in LiveSlots : slots[k].tid = t
    /\ \A k \in LiveSlots : Alive(slots[k].tid) /\ thread[slots[k].tid].fd = slots[k].fd
    /\ \A j, k \in LiveSlots :
            j # k => slots[j].tid # slots[k].tid /\ slots[j].fd # slots[k].fd

\* No error path of the accept loop leaks a descriptor or closes a foreign
\* one: the open descriptors are those of the slots and the one in hand,
\* which is in no slot.
NoFdLeak ==
    /\ open = {slots[k].fd : k \in LiveSlots} \cup ({client_fd} \ {NoFd})
    /\ client_fd \notin {slots[k].fd : k \in LiveSlots}

\* g_storage and g_cluster outlive every thread that uses them: a connection
\* thread reads both at any point of its loop, the gossip and heartbeat
\* threads read the cluster context.
ResourcesOutliveThreads ==
    /\ (\E t \in Tid : Alive(t)) /\ pc # "exit" =>
            g_storage = "mapped" /\ (Clustered <=> cluster = "created")
    /\ cluster = "freed" => helpers = {}

\* What main knows where it is; with the invariants above it is inductive.
Startup == {"map", "create", "start", "beat", "unwind", "listen", "slots"}
InHand == {"alloc", "reap", "spawn"}

MainKnows ==
    /\ client_fd # NoFd <=> pc \in InHand
    /\ pc \in Startup \cup {"destroy", "unmap", "exit"} => slot_count = 0
    /\ pc \notin Startup \cup {"destroy", "unmap", "exit"} => slot_cap > 0
    /\ pc = "reap" => kept <= i /\ i <= slot_count /\ slot_count = slot_cap
    /\ pc = "spawn" => slot_count < slot_cap
    /\ pc \in {"shut", "join"} => i <= slot_count
    /\ g_storage = "mapped" <=> pc \notin {"map", "exit"}
    /\ pc \in {"map", "create"} => cluster = "none"
    /\ pc \in {"create", "start", "beat", "unwind"} => Clustered
    /\ pc \notin {"map", "create", "unmap", "exit"} => (Clustered <=> cluster = "created")
    /\ cluster = "freed" => pc \in {"unmap", "exit"}
    /\ cluster = "none" => helpers = {}

\* The inductive invariant.  SlotPerThread and NoFdLeak need each other and
\* the loop bounds of MainKnows: compaction is safe only because kept never
\* overtakes i.
IInv == TypeOK /\ SlotPerThread /\ NoFdLeak /\ ResourcesOutliveThreads /\ MainKnows

\* A signal ends the server ("kill $$SERVER_PID; wait $$SERVER_PID" in the
\* test targets of the Makefile).
ServerStops == running = 0 ~> pc = "exit"

\* A connection whose thread has ended is closed, so that its client learns
\* of it ("failure is fatal for this client connection", dsm_server.c).
EndedIsClosed ==
    \A t \in Tid : thread[t].pc = "done" ~> (~Alive(t) \/ pc = "exit")
=============================================================================
