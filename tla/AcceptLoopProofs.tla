-------------------------- MODULE AcceptLoopProofs --------------------------
(***************************************************************************)
(* Proofs about AcceptLoop for any number of descriptors, thread ids,      *)
(* slots and faults: the inductive invariant IInv is kept by every step of *)
(* main, of the connection threads, of the cluster's threads, of the       *)
(* clients and by signals.                                                 *)
(***************************************************************************)
EXTENDS AcceptLoop, TLAPS

LEMMA InitInductive == Init => IInv
  BY AcceptLoopAssumption, SMTT(30)
     DEF Init, IInv, TypeOK, SlotPerThread, NoFdLeak, ResourcesOutliveThreads, MainKnows,
         LiveSlots, Startup, InHand, Helper, Alive, NoThread

LEMMA LiveSlotsInTable == IInv => LiveSlots \subseteq 0 .. slot_count - 1
  BY SMTT(30) DEF IInv, TypeOK, MainKnows, LiveSlots

\* A step that leaves the slots and the owners of threads alone keeps the
\* correspondence between them.
LEMMA FrameSlots ==
  ASSUME IInv, slots' = slots, LiveSlots' = LiveSlots,
         \A t \in Tid : (Alive(t)' <=> Alive(t)) /\ thread'[t].fd = thread[t].fd
  PROVE  SlotPerThread'
  BY LiveSlotsInTable, SMTT(30) DEF IInv, TypeOK, SlotPerThread

\* If it leaves the descriptors alone as well, none is leaked.
LEMMA Frame ==
  ASSUME IInv, slots' = slots, LiveSlots' = LiveSlots, open' = open, client_fd' = client_fd,
         \A t \in Tid : (Alive(t)' <=> Alive(t)) /\ thread'[t].fd = thread[t].fd
  PROVE  SlotPerThread' /\ NoFdLeak'
<1>1. SlotPerThread'
  BY FrameSlots
<1>2. NoFdLeak'
  BY SMTT(30) DEF IInv, NoFdLeak
<1> QED
  BY <1>1, <1>2

\* The error paths that close the descriptor in hand close no other.
LEMMA DropClientKeeps ==
  ASSUME IInv, DropClient, LiveSlots' = LiveSlots
  PROVE  SlotPerThread' /\ NoFdLeak'
<1>1. SlotPerThread'
  BY FrameSlots DEF DropClient, table, Alive
<1>2. NoFdLeak'
  BY LiveSlotsInTable, AcceptLoopAssumption, SMTT(30) DEF IInv, TypeOK, NoFdLeak, DropClient, table
<1> QED
  BY <1>1, <1>2

\* Before the accept loop there are no connections.
LEMMA StartupKeeps ==
  ASSUME IInv, Map \/ ClusterCreate \/ StartGossip \/ StartHeartbeat \/ Unwind \/ Listen \/ AllocSlots
  PROVE  IInv'
<1> USE DEF Quiet, Abort, Fault, resources, table, Startup, InHand, Helper
<1>1. CASE Map
  <2>1. TypeOK'
    BY <1>1, AcceptLoopAssumption, SMTT(30) DEF Map, IInv, TypeOK, MainKnows, LiveSlots
  <2>2. MainKnows'
    BY <1>1, AcceptLoopAssumption, SMTT(30) DEF Map, IInv, TypeOK, MainKnows, LiveSlots
  <2>3. ResourcesOutliveThreads'
    BY <1>1, SMTT(30) DEF Map, IInv, MainKnows, ResourcesOutliveThreads, Alive
  <2>4. LiveSlots' = LiveSlots
    BY <1>1, SMTT(30) DEF Map, IInv, TypeOK, MainKnows, LiveSlots
  <2>5. SlotPerThread' /\ NoFdLeak'
    BY <1>1, <2>4, Frame DEF Map, Alive
  <2> QED
    BY <2>1, <2>2, <2>3, <2>5 DEF IInv
<1>2. CASE ClusterCreate
  <2>1. TypeOK'
    BY <1>2, AcceptLoopAssumption, SMTT(30) DEF ClusterCreate, IInv, TypeOK, MainKnows, LiveSlots
  <2>2. MainKnows'
    BY <1>2, AcceptLoopAssumption, SMTT(30) DEF ClusterCreate, IInv, TypeOK, MainKnows, LiveSlots
  <2>3. ResourcesOutliveThreads'
    BY <1>2, SMTT(30) DEF ClusterCreate, IInv, MainKnows, ResourcesOutliveThreads, Alive
  <2>4. LiveSlots' = LiveSlots
    BY <1>2, SMTT(30) DEF ClusterCreate, IInv, TypeOK, MainKnows, LiveSlots
  <2>5. SlotPerThread' /\ NoFdLeak'
    BY <1>2, <2>4, Frame DEF ClusterCreate, Alive
  <2> QED
    BY <2>1, <2>2, <2>3, <2>5 DEF IInv
<1>3. CASE StartGossip
  <2>1. TypeOK'
    <3>1. helpers' \subseteq Helper
      BY <1>3, ZenonT(30) DEF StartGossip, IInv, TypeOK
    <3>2. ctx_running' \in {0, 1}
      BY <1>3, ZenonT(30) DEF StartGossip, IInv, TypeOK
    <3>3. pc' \in {"listen", "beat", "unwind", "exit"} /\ g_storage' \in {"none", "mapped"}
      BY <1>3, SMTT(30) DEF StartGossip, IInv, TypeOK
    <3> QED
      BY <1>3, <3>1, <3>2, <3>3, SMTT(30) DEF StartGossip, IInv, TypeOK
  <2>2. MainKnows'
    BY <1>3, AcceptLoopAssumption, SMTT(30) DEF StartGossip, IInv, TypeOK, MainKnows, LiveSlots
  <2>3. ResourcesOutliveThreads'
    BY <1>3, SMTT(30) DEF StartGossip, IInv, MainKnows, ResourcesOutliveThreads, Alive
  <2>4. LiveSlots' = LiveSlots
    BY <1>3, SMTT(30) DEF StartGossip, IInv, TypeOK, MainKnows, LiveSlots
  <2>5. SlotPerThread' /\ NoFdLeak'
    BY <1>3, <2>4, Frame DEF StartGossip, Alive
  <2> QED
    BY <2>1, <2>2, <2>3, <2>5 DEF IInv
<1>4. CASE StartHeartbeat
  <2>1. TypeOK'
    <3>1. helpers' \subseteq Helper
      BY <1>4, ZenonT(30) DEF StartHeartbeat, IInv, TypeOK
    <3>2. ctx_running' \in {0, 1}
      BY <1>4, ZenonT(30) DEF StartHeartbeat, IInv, TypeOK
    <3>3. pc' \in {"listen", "beat", "unwind", "exit"} /\ g_storage' \in {"none", "mapped"}
      BY <1>4, SMTT(30) DEF StartHeartbeat, IInv, TypeOK
    <3> QED
      BY <1>4, <3>1, <3>2, <3>3, SMTT(30) DEF StartHeartbeat, IInv, TypeOK
  <2>2. MainKnows'
    BY <1>4, AcceptLoopAssumption, SMTT(30) DEF StartHeartbeat, IInv, TypeOK, MainKnows, LiveSlots
  <2>3. ResourcesOutliveThreads'
    BY <1>4, SMTT(30) DEF StartHeartbeat, IInv, MainKnows, ResourcesOutliveThreads, Alive
  <2>4. LiveSlots' = LiveSlots
    BY <1>4, SMTT(30) DEF StartHeartbeat, IInv, TypeOK, MainKnows, LiveSlots
  <2>5. SlotPerThread' /\ NoFdLeak'
    BY <1>4, <2>4, Frame DEF StartHeartbeat, Alive
  <2> QED
    BY <2>1, <2>2, <2>3, <2>5 DEF IInv
<1>5. CASE Unwind
  <2>1. TypeOK'
    BY <1>5, AcceptLoopAssumption, SMTT(30) DEF Unwind, IInv, TypeOK, MainKnows, LiveSlots
  <2>2. MainKnows'
    BY <1>5, AcceptLoopAssumption, SMTT(30) DEF Unwind, IInv, TypeOK, MainKnows, LiveSlots
  <2>3. ResourcesOutliveThreads'
    BY <1>5, SMTT(30) DEF Unwind, IInv, MainKnows, ResourcesOutliveThreads, Alive
  <2>4. LiveSlots' = LiveSlots
    BY <1>5, SMTT(30) DEF Unwind, IInv, TypeOK, MainKnows, LiveSlots
  <2>5. SlotPerThread' /\ NoFdLeak'
    BY <1>5, <2>4, Frame DEF Unwind, Alive
  <2> QED
    BY <2>1, <2>2, <2>3, <2>5 DEF IInv
<1>6. CASE Listen
  <2>1. TypeOK'
    BY <1>6, AcceptLoopAssumption, SMTT(30) DEF Listen, IInv, TypeOK, MainKnows, LiveSlots
  <2>2. MainKnows'
    BY <1>6, AcceptLoopAssumption, SMTT(30) DEF Listen, IInv, TypeOK, MainKnows, LiveSlots
  <2>3. ResourcesOutliveThreads'
    BY <1>6, SMTT(30) DEF Listen, IInv, MainKnows, ResourcesOutliveThreads, Alive
  <2>4. LiveSlots' = LiveSlots
    BY <1>6, SMTT(30) DEF Listen, IInv, TypeOK, MainKnows, LiveSlots
  <2>5. SlotPerThread' /\ NoFdLeak'
    BY <1>6, <2>4, Frame DEF Listen, Alive
  <2> QED
    BY <2>1, <2>2, <2>3, <2>5 DEF IInv
<1>7. CASE AllocSlots
  <2>1. TypeOK'
    BY <1>7, AcceptLoopAssumption, SMTT(30) DEF AllocSlots, IInv, TypeOK, MainKnows
  <2>2. MainKnows'
    BY <1>7, AcceptLoopAssumption, SMTT(30) DEF AllocSlots, IInv, TypeOK, MainKnows, LiveSlots
  <2>3. ResourcesOutliveThreads'
    BY <1>7, SMTT(30) DEF AllocSlots, IInv, MainKnows, ResourcesOutliveThreads, Alive
  <2>4. LiveSlots' = LiveSlots
    BY <1>7, SMTT(30) DEF AllocSlots, IInv, TypeOK, MainKnows, LiveSlots
  <2>5. SlotPerThread' /\ NoFdLeak'
    BY <1>7, <2>4, Frame DEF AllocSlots, Alive
  <2> QED
    BY <2>1, <2>2, <2>3, <2>5 DEF IInv
<1> QED
  BY <1>1, <1>2, <1>3, <1>4, <1>5, <1>6, <1>7

\* The steps of the accept loop that change no slot.
LEMMA LoopKeeps ==
  ASSUME IInv, CheckRunning \/ CallAccept \/ Accept \/ AcceptFail \/ AllocArg \/ AllocArgFail \/ GrowFail \/ SpawnFail
  PROVE  IInv'
<1> USE DEF Quiet, Abort, Fault, resources, table, Startup, InHand, Helper
<1>1. CASE CheckRunning
  <2>1. TypeOK'
    BY <1>1, AcceptLoopAssumption, SMTT(30) DEF CheckRunning, IInv, TypeOK, MainKnows, LiveSlots
  <2>2. MainKnows'
    BY <1>1, AcceptLoopAssumption, SMTT(30) DEF CheckRunning, IInv, TypeOK, MainKnows, LiveSlots
  <2>3. ResourcesOutliveThreads'
    BY <1>1, SMTT(30) DEF CheckRunning, IInv, MainKnows, ResourcesOutliveThreads, Alive
  <2>4. LiveSlots' = LiveSlots
    BY <1>1, SMTT(30) DEF CheckRunning, IInv, TypeOK, MainKnows, LiveSlots
  <2>5. SlotPerThread' /\ NoFdLeak'
    BY <1>1, <2>4, Frame DEF CheckRunning, Alive
  <2> QED
    BY <2>1, <2>2, <2>3, <2>5 DEF IInv
<1>2. CASE CallAccept
  <2>1. TypeOK'
    BY <1>2, AcceptLoopAssumption, SMTT(30) DEF CallAccept, IInv, TypeOK, MainKnows, LiveSlots
  <2>2. MainKnows'
    BY <1>2, AcceptLoopAssumption, SMTT(30) DEF CallAccept, IInv, TypeOK, MainKnows, LiveSlots
  <2>3. ResourcesOutliveThreads'
    BY <1>2, SMTT(30) DEF CallAccept, IInv, MainKnows, ResourcesOutliveThreads, Alive
  <2>4. LiveSlots' = LiveSlots
    BY <1>2, SMTT(30) DEF CallAccept, IInv, TypeOK, MainKnows, LiveSlots
  <2>5. SlotPerThread' /\ NoFdLeak'
    BY <1>2, <2>4, Frame DEF CallAccept, Alive
  <2> QED
    BY <2>1, <2>2, <2>3, <2>5 DEF IInv
<1>3. CASE Accept
  <2>1. TypeOK'
    BY <1>3, AcceptLoopAssumption, SMTT(30) DEF Accept, IInv, TypeOK, MainKnows, LiveSlots
  <2>2. MainKnows'
    BY <1>3, AcceptLoopAssumption, SMTT(30) DEF Accept, IInv, TypeOK, MainKnows, LiveSlots
  <2>3. ResourcesOutliveThreads'
    BY <1>3, SMTT(30) DEF Accept, IInv, MainKnows, ResourcesOutliveThreads, Alive
  <2>4. LiveSlots' = LiveSlots
    BY <1>3, SMTT(30) DEF Accept, IInv, TypeOK, MainKnows, LiveSlots
  <2>5. SlotPerThread' /\ NoFdLeak'
    <3>1. SlotPerThread'
      BY <1>3, <2>4, FrameSlots DEF Accept, Alive
    <3>2. NoFdLeak'
      BY <1>3, <2>4, LiveSlotsInTable, AcceptLoopAssumption, SMTT(30)
         DEF Accept, IInv, TypeOK, MainKnows, NoFdLeak
    <3> QED
      BY <3>1, <3>2
  <2> QED
    BY <2>1, <2>2, <2>3, <2>5 DEF IInv
<1>4. CASE AcceptFail
  <2>1. TypeOK'
    BY <1>4, AcceptLoopAssumption, SMTT(30) DEF AcceptFail, IInv, TypeOK, MainKnows, LiveSlots
  <2>2. MainKnows'
    BY <1>4, AcceptLoopAssumption, SMTT(30) DEF AcceptFail, IInv, TypeOK, MainKnows, LiveSlots
  <2>3. ResourcesOutliveThreads'
    BY <1>4, SMTT(30) DEF AcceptFail, IInv, MainKnows, ResourcesOutliveThreads, Alive
  <2>4. LiveSlots' = LiveSlots
    BY <1>4, SMTT(30) DEF AcceptFail, IInv, TypeOK, MainKnows, LiveSlots
  <2>5. SlotPerThread' /\ NoFdLeak'
    BY <1>4, <2>4, Frame DEF AcceptFail, Alive
  <2> QED
    BY <2>1, <2>2, <2>3, <2>5 DEF IInv
<1>5. CASE AllocArg
  <2>1. TypeOK'
    BY <1>5, AcceptLoopAssumption, SMTT(30) DEF AllocArg, IInv, TypeOK, MainKnows, LiveSlots
  <2>2. MainKnows'
    BY <1>5, AcceptLoopAssumption, SMTT(30) DEF AllocArg, IInv, TypeOK, MainKnows, LiveSlots
  <2>3. ResourcesOutliveThreads'
    BY <1>5, SMTT(30) DEF AllocArg, IInv, MainKnows, ResourcesOutliveThreads, Alive
  <2>4. LiveSlots' = LiveSlots
    BY <1>5, SMTT(30) DEF AllocArg, IInv, TypeOK, MainKnows, LiveSlots
  <2>5. SlotPerThread' /\ NoFdLeak'
    BY <1>5, <2>4, Frame DEF AllocArg, Alive
  <2> QED
    BY <2>1, <2>2, <2>3, <2>5 DEF IInv
<1>6. CASE AllocArgFail
  <2>1. TypeOK'
    BY <1>6, AcceptLoopAssumption, SMTT(30) DEF AllocArgFail, IInv, TypeOK, MainKnows, LiveSlots, DropClient
  <2>2. MainKnows'
    BY <1>6, AcceptLoopAssumption, SMTT(30) DEF AllocArgFail, IInv, TypeOK, MainKnows, LiveSlots, DropClient
  <2>3. ResourcesOutliveThreads'
    BY <1>6, SMTT(30) DEF AllocArgFail, IInv, MainKnows, ResourcesOutliveThreads, Alive, DropClient
  <2>4. LiveSlots' = LiveSlots
    BY <1>6, SMTT(30) DEF AllocArgFail, DropClient, IInv, TypeOK, MainKnows, LiveSlots
  <2>5. SlotPerThread' /\ NoFdLeak'
    BY <1>6, <2>4, DropClientKeeps DEF AllocArgFail
  <2> QED
    BY <2>1, <2>2, <2>3, <2>5 DEF IInv
<1>7. CASE GrowFail
  <2>1. TypeOK'
    BY <1>7, AcceptLoopAssumption, SMTT(30) DEF GrowFail, IInv, TypeOK, MainKnows, LiveSlots, DropClient
  <2>2. MainKnows'
    BY <1>7, AcceptLoopAssumption, SMTT(30) DEF GrowFail, IInv, TypeOK, MainKnows, LiveSlots, DropClient
  <2>3. ResourcesOutliveThreads'
    BY <1>7, SMTT(30) DEF GrowFail, IInv, MainKnows, ResourcesOutliveThreads, Alive, DropClient
  <2>4. LiveSlots' = LiveSlots
    BY <1>7, SMTT(30) DEF GrowFail, DropClient, IInv, TypeOK, MainKnows, LiveSlots
  <2>5. SlotPerThread' /\ NoFdLeak'
    BY <1>7, <2>4, DropClientKeeps DEF GrowFail
  <2> QED
    BY <2>1, <2>2, <2>3, <2>5 DEF IInv
<1>8. CASE SpawnFail
  <2>1. TypeOK'
    BY <1>8, AcceptLoopAssumption, SMTT(30) DEF SpawnFail, IInv, TypeOK, MainKnows, LiveSlots, DropClient
  <2>2. MainKnows'
    BY <1>8, AcceptLoopAssumption, SMTT(30) DEF SpawnFail, IInv, TypeOK, MainKnows, LiveSlots, DropClient
  <2>3. ResourcesOutliveThreads'
    BY <1>8, SMTT(30) DEF SpawnFail, IInv, MainKnows, ResourcesOutliveThreads, Alive, DropClient
  <2>4. LiveSlots' = LiveSlots
    BY <1>8, SMTT(30) DEF SpawnFail, DropClient, IInv, TypeOK, MainKnows, LiveSlots
  <2>5. SlotPerThread' /\ NoFdLeak'
    BY <1>8, <2>4, DropClientKeeps DEF SpawnFail
  <2> QED
    BY <2>1, <2>2, <2>3, <2>5 DEF IInv
<1> QED
  BY <1>1, <1>2, <1>3, <1>4, <1>5, <1>6, <1>7, <1>8

\* Shutdown.  When the cluster is freed and g_storage unmapped no slot is left,
\* and so no thread.
LEMMA ShutdownKeeps ==
  ASSUME IInv, CloseListen \/ ShutSlot \/ JoinEnd \/ ClusterDestroy \/ Unmap
  PROVE  IInv'
<1> USE DEF Quiet, Abort, Fault, resources, table, Startup, InHand, Helper
<1>1. CASE CloseListen
  <2>1. TypeOK'
    BY <1>1, AcceptLoopAssumption, SMTT(30) DEF CloseListen, IInv, TypeOK, MainKnows, LiveSlots
  <2>2. MainKnows'
    BY <1>1, AcceptLoopAssumption, SMTT(30) DEF CloseListen, IInv, TypeOK, MainKnows, LiveSlots
  <2>3. ResourcesOutliveThreads'
    BY <1>1, SMTT(30) DEF CloseListen, IInv, MainKnows, ResourcesOutliveThreads, Alive
  <2>4. LiveSlots' = LiveSlots
    BY <1>1, SMTT(30) DEF CloseListen, IInv, TypeOK, MainKnows, LiveSlots
  <2>5. SlotPerThread' /\ NoFdLeak'
    BY <1>1, <2>4, Frame DEF CloseListen, Alive
  <2> QED
    BY <2>1, <2>2, <2>3, <2>5 DEF IInv
<1>2. CASE ShutSlot
  <2>1. TypeOK'
    BY <1>2, AcceptLoopAssumption, SMTT(30) DEF ShutSlot, IInv, TypeOK, MainKnows, LiveSlots, NoFdLeak
  <2>2. MainKnows'
    BY <1>2, AcceptLoopAssumption, SMTT(30) DEF ShutSlot, IInv, TypeOK, MainKnows, LiveSlots
  <2>3. ResourcesOutliveThreads'
    BY <1>2, SMTT(30) DEF ShutSlot, IInv, MainKnows, ResourcesOutliveThreads, Alive
  <2>4. LiveSlots' = LiveSlots
    BY <1>2, SMTT(30) DEF ShutSlot, IInv, TypeOK, MainKnows, LiveSlots
  <2>5. SlotPerThread' /\ NoFdLeak'
    BY <1>2, <2>4, Frame DEF ShutSlot, Alive
  <2> QED
    BY <2>1, <2>2, <2>3, <2>5 DEF IInv
<1>3. CASE JoinEnd
  <2>1. TypeOK'
    BY <1>3, AcceptLoopAssumption, SMTT(30) DEF JoinEnd, IInv, TypeOK, MainKnows, LiveSlots
  <2>2. MainKnows'
    BY <1>3, AcceptLoopAssumption, SMTT(30) DEF JoinEnd, IInv, TypeOK, MainKnows, LiveSlots
  <2>3. ResourcesOutliveThreads'
    BY <1>3, SMTT(30) DEF JoinEnd, IInv, MainKnows, ResourcesOutliveThreads, Alive
  <2>4. LiveSlots = {} /\ LiveSlots' = {}
    BY <1>3, SMTT(30) DEF JoinEnd, IInv, TypeOK, MainKnows, LiveSlots
  <2>5. SlotPerThread' /\ NoFdLeak'
    BY <1>3, <2>4, SMTT(30) DEF JoinEnd, IInv, SlotPerThread, NoFdLeak, Alive
  <2> QED
    BY <2>1, <2>2, <2>3, <2>5 DEF IInv
<1>4. CASE ClusterDestroy
  <2>1. TypeOK'
    BY <1>4, AcceptLoopAssumption, SMTT(30) DEF ClusterDestroy, IInv, TypeOK, MainKnows, LiveSlots
  <2>2. MainKnows'
    BY <1>4, AcceptLoopAssumption, SMTT(30) DEF ClusterDestroy, IInv, TypeOK, MainKnows, LiveSlots
  <2>3. ResourcesOutliveThreads'
    BY <1>4, SMTT(30) DEF ClusterDestroy, IInv, TypeOK, MainKnows, LiveSlots, SlotPerThread, ResourcesOutliveThreads, Alive
  <2>4. LiveSlots' = LiveSlots
    BY <1>4, SMTT(30) DEF ClusterDestroy, IInv, TypeOK, MainKnows, LiveSlots
  <2>5. SlotPerThread' /\ NoFdLeak'
    BY <1>4, <2>4, Frame DEF ClusterDestroy, Alive
  <2> QED
    BY <2>1, <2>2, <2>3, <2>5 DEF IInv
<1>5. CASE Unmap
  <2>1. TypeOK'
    BY <1>5, AcceptLoopAssumption, SMTT(30) DEF Unmap, IInv, TypeOK, MainKnows, LiveSlots
  <2>2. MainKnows'
    BY <1>5, AcceptLoopAssumption, SMTT(30) DEF Unmap, IInv, TypeOK, MainKnows, LiveSlots
  <2>3. ResourcesOutliveThreads'
    BY <1>5, SMTT(30) DEF Unmap, IInv, MainKnows, ResourcesOutliveThreads, Alive
  <2>4. LiveSlots' = LiveSlots
    BY <1>5, SMTT(30) DEF Unmap, IInv, TypeOK, MainKnows, LiveSlots
  <2>5. SlotPerThread' /\ NoFdLeak'
    BY <1>5, <2>4, Frame DEF Unmap, Alive
  <2> QED
    BY <2>1, <2>2, <2>3, <2>5 DEF IInv
<1> QED
  BY <1>1, <1>2, <1>3, <1>4, <1>5

\* pthread_join or pthread_tryjoin_np returns and the descriptor is closed:
\* the slot drops out, the others are as before.
LEMMA ReleaseKeeps ==
  ASSUME IInv, NEW j \in LiveSlots, Release(j), slots' = slots, client_fd' = client_fd,
         LiveSlots' = LiveSlots \ {j}
  PROVE  SlotPerThread' /\ NoFdLeak'
<1>1. \A k \in LiveSlots' : /\ k \in LiveSlots /\ slots'[k] = slots[k]
                            /\ slots[k].tid \in Tid
                            /\ slots[k].tid # slots[j].tid
                            /\ slots[k].fd # slots[j].fd
  BY LiveSlotsInTable, SMTT(30) DEF IInv, TypeOK, SlotPerThread
<1>2. \A t \in Tid : thread'[t] = IF t = slots[j].tid THEN NoThread ELSE thread[t]
  BY LiveSlotsInTable, SMTT(30) DEF IInv, TypeOK, Release
<1>3. \A t \in Tid : Alive(t)' => t # slots[j].tid /\ Alive(t)
  <2>1. NoThread.pc = "none"
    BY DEF NoThread
  <2>2. ASSUME NEW t \in Tid, Alive(t)'
        PROVE  t # slots[j].tid /\ Alive(t)
    BY <1>2, <2>1, <2>2, ZenonT(30) DEF Alive
  <2> QED
    BY <2>2
<1>4. SlotPerThread'
  <2>1. \A t \in Tid : Alive(t)' => \E k \in LiveSlots' : slots'[k].tid = t
    BY <1>1, <1>3, SMTT(30) DEF IInv, SlotPerThread
  <2>2. \A k \in LiveSlots' : /\ thread'[slots'[k].tid].pc # "none"
                              /\ thread'[slots'[k].tid].fd = slots'[k].fd
    BY <1>1, <1>2, SMTT(30) DEF IInv, SlotPerThread, Alive
  <2>3. \A m, k \in LiveSlots' :
            m # k => slots'[m].tid # slots'[k].tid /\ slots'[m].fd # slots'[k].fd
    BY <1>1, SMTT(30) DEF IInv, SlotPerThread
  <2> QED
    BY <2>1, <2>2, <2>3 DEF SlotPerThread, Alive
<1>5. NoFdLeak'
  BY <1>1, SMTT(30) DEF IInv, NoFdLeak, Release
<1> QED
  BY <1>4, <1>5

LEMMA ReapDoneKeeps == ASSUME IInv, ReapDone PROVE IInv'
<1> USE DEF resources, table
<1>1. i \in LiveSlots /\ LiveSlots' = LiveSlots \ {i}
  BY SMTT(30) DEF ReapDone, IInv, TypeOK, MainKnows, LiveSlots
<1>2. SlotPerThread' /\ NoFdLeak'
  BY <1>1, ReleaseKeeps DEF ReapDone
<1>3. TypeOK'
  <2>1. client_fd' \in open' \cup {NoFd} /\ open' \subseteq Fd /\ eof' \subseteq open'
    BY <1>1, SMTT(30) DEF ReapDone, Release, IInv, TypeOK, NoFdLeak
  <2>2. thread' \in [Tid -> [pc : {"none", "check", "recv", "serve", "forward", "done"},
                             fd : Fd \cup {NoFd}]]
    BY SMTT(30) DEF ReapDone, Release, NoThread, IInv, TypeOK
  <2> QED
    BY <2>1, <2>2, AcceptLoopAssumption, SMTT(30) DEF ReapDone, IInv, TypeOK
<1>4. MainKnows' /\ ResourcesOutliveThreads'
  BY SMTT(30) DEF ReapDone, Release, NoThread, IInv, TypeOK, MainKnows, ResourcesOutliveThreads,
                  Startup, InHand, Alive
<1> QED
  BY <1>2, <1>3, <1>4 DEF IInv

LEMMA JoinSlotKeeps == ASSUME IInv, JoinSlot PROVE IInv'
<1> USE DEF resources, table
<1>1. i \in LiveSlots /\ LiveSlots' = LiveSlots \ {i}
  BY SMTT(30) DEF JoinSlot, IInv, TypeOK, MainKnows, LiveSlots
<1>2. SlotPerThread' /\ NoFdLeak'
  BY <1>1, ReleaseKeeps DEF JoinSlot
<1>3. TypeOK'
  <2>1. client_fd' \in open' \cup {NoFd} /\ open' \subseteq Fd /\ eof' \subseteq open'
    BY <1>1, SMTT(30) DEF JoinSlot, Release, IInv, TypeOK, NoFdLeak
  <2>2. thread' \in [Tid -> [pc : {"none", "check", "recv", "serve", "forward", "done"},
                             fd : Fd \cup {NoFd}]]
    BY SMTT(30) DEF JoinSlot, Release, NoThread, IInv, TypeOK
  <2> QED
    BY <2>1, <2>2, AcceptLoopAssumption, SMTT(30) DEF JoinSlot, IInv, TypeOK
<1>4. MainKnows' /\ ResourcesOutliveThreads'
  BY SMTT(30) DEF JoinSlot, Release, NoThread, IInv, TypeOK, MainKnows, ResourcesOutliveThreads,
                  Startup, InHand, Alive
<1> QED
  BY <1>2, <1>3, <1>4 DEF IInv

\* A slot moves down over one that was reaped or over itself: Old names the
\* slot a new position was copied from, and is a bijection of the live slots.
LEMMA ReapKeepKeeps == ASSUME IInv, ReapKeep PROVE IInv'
<1> USE DEF resources, table
<1> DEFINE Old(k) == IF k = kept THEN i ELSE k
<1>0. /\ i \in 0 .. slot_count - 1 /\ kept \in 0 .. i /\ slot_count \in Nat
      /\ LiveSlots = (0 .. kept - 1) \cup (i .. slot_count - 1)
      /\ LiveSlots' = (0 .. kept) \cup (i + 1 .. slot_count - 1)
      /\ DOMAIN slots = 0 .. slot_count - 1
  BY SMTT(30) DEF ReapKeep, IInv, TypeOK, MainKnows, LiveSlots
<1>1. \A k \in LiveSlots' : Old(k) \in LiveSlots /\ slots'[k] = slots[Old(k)]
  BY <1>0, SMTT(30) DEF ReapKeep
<1>2. \A j, k \in LiveSlots' : j # k => Old(j) # Old(k)
  BY <1>0, SMTT(30)
<1>3. \A j \in LiveSlots : \E k \in LiveSlots' : Old(k) = j
  <2> TAKE j \in LiveSlots
  <2>1. CASE j = i
    BY <2>1, <1>0, SMTT(30)
  <2>2. CASE j # i
    <3>1. j \in LiveSlots' /\ j # kept
      BY <2>2, <1>0, SMTT(30)
    <3> QED
      BY <3>1
  <2> QED
    BY <2>1, <2>2
<1> HIDE DEF Old
<1>4. thread' = thread /\ open' = open /\ client_fd' = client_fd
  BY DEF ReapKeep
<1>5. SlotPerThread'
  <2>1. \A t \in Tid : Alive(t)' => \E k \in LiveSlots' : slots'[k].tid = t
    BY <1>1, <1>3, <1>4, SMTT(30) DEF IInv, SlotPerThread, Alive
  <2>2. \A k \in LiveSlots' : /\ thread'[slots'[k].tid].pc # "none"
                              /\ thread'[slots'[k].tid].fd = slots'[k].fd
    BY <1>1, <1>4, SMTT(30) DEF IInv, SlotPerThread, Alive
  <2>3. \A m, k \in LiveSlots' :
            m # k => slots'[m].tid # slots'[k].tid /\ slots'[m].fd # slots'[k].fd
    BY <1>1, <1>2, SMTT(30) DEF IInv, SlotPerThread
  <2> QED
    BY <2>1, <2>2, <2>3 DEF SlotPerThread, Alive
<1>6. NoFdLeak'
  <2>1. {slots'[k].fd : k \in LiveSlots'} = {slots[k].fd : k \in LiveSlots}
    BY <1>1, <1>3, SMTT(30)
  <2> QED
    BY <2>1, <1>4 DEF IInv, NoFdLeak
<1>7. TypeOK'
  <2>1. slots' \in [0 .. slot_count' - 1 -> [tid : Tid, fd : Fd]]
    BY <1>0, SMTT(30) DEF ReapKeep, IInv, TypeOK
  <2> QED
    BY <2>1, <1>0, AcceptLoopAssumption, SMTT(30) DEF ReapKeep, IInv, TypeOK
<1>8. MainKnows' /\ ResourcesOutliveThreads'
  BY SMTT(30) DEF ReapKeep, IInv, TypeOK, MainKnows, ResourcesOutliveThreads, Startup, InHand,
                  Alive
<1> QED
  BY <1>5, <1>6, <1>7, <1>8 DEF IInv

LEMMA ReapEndKeeps == ASSUME IInv, ReapEnd PROVE IInv'
<1> USE DEF resources, table
<1>1. /\ LiveSlots' = LiveSlots
      /\ \A k \in LiveSlots : slots'[k] = slots[k]
  BY SMTT(30) DEF ReapEnd, Truncated, IInv, TypeOK, MainKnows, LiveSlots
<1>2. thread' = thread /\ open' = open /\ client_fd' = client_fd
  BY DEF ReapEnd
<1>3. SlotPerThread'
  BY <1>1, <1>2, SMTT(30) DEF IInv, SlotPerThread, Alive
<1>4. NoFdLeak'
  BY <1>1, <1>2, SMTT(30) DEF IInv, NoFdLeak
<1>5. TypeOK'
  BY SMTT(30) DEF ReapEnd, Truncated, IInv, TypeOK, MainKnows
<1>6. MainKnows' /\ ResourcesOutliveThreads'
  BY SMTT(30) DEF ReapEnd, IInv, TypeOK, MainKnows, ResourcesOutliveThreads, Startup, InHand,
                  Alive
<1> QED
  BY <1>3, <1>4, <1>5, <1>6 DEF IInv

LEMMA SpawnKeeps == ASSUME IInv, Spawn PROVE IInv'
<1> USE DEF resources, table
<1>1. PICK t \in Tid :
        /\ ~Alive(t)
        /\ thread' = [thread EXCEPT ![t] = [pc |-> "check", fd |-> client_fd]]
        /\ slots' = [k \in 0 .. slot_count |->
               IF k < slot_count THEN slots[k] ELSE [tid |-> t, fd |-> client_fd]]
  BY DEF Spawn
<1>2. /\ slot_count \in Nat
      /\ LiveSlots = 0 .. slot_count - 1
      /\ LiveSlots' = LiveSlots \cup {slot_count}
      /\ client_fd \in Fd
      /\ slot_count \notin LiveSlots
  BY SMTT(30) DEF Spawn, IInv, TypeOK, MainKnows, LiveSlots, InHand
<1>3. /\ \A k \in LiveSlots : slots'[k] = slots[k]
      /\ slots'[slot_count] = [tid |-> t, fd |-> client_fd]
  BY <1>1, <1>2, SMTT(30)
<1>4. \A u \in Tid : thread'[u] = IF u = t THEN [pc |-> "check", fd |-> client_fd] ELSE thread[u]
  BY <1>1, SMTT(30) DEF IInv, TypeOK
<1>5. \A k \in LiveSlots : /\ slots[k].tid \in Tid /\ slots[k].tid # t
                           /\ slots[k].fd # client_fd
  BY <1>1, <1>2, SMTT(30) DEF IInv, TypeOK, SlotPerThread, NoFdLeak
<1>6. SlotPerThread'
  <2>1. \A u \in Tid : Alive(u)' => \E k \in LiveSlots' : slots'[k].tid = u
    BY <1>2, <1>3, <1>4, SMTT(30) DEF IInv, SlotPerThread, Alive
  <2>2. \A k \in LiveSlots' : /\ thread'[slots'[k].tid].pc # "none"
                              /\ thread'[slots'[k].tid].fd = slots'[k].fd
    <3> TAKE k \in LiveSlots'
    <3>1. CASE k = slot_count
      BY <3>1, <1>3, <1>4, SMTT(30) DEF Alive
    <3>2. CASE k \in LiveSlots
      BY <3>2, <1>3, <1>4, <1>5, SMTT(30) DEF IInv, SlotPerThread, Alive
    <3> QED
      BY <3>1, <3>2, <1>2
  <2>3. \A m, k \in LiveSlots' :
            m # k => slots'[m].tid # slots'[k].tid /\ slots'[m].fd # slots'[k].fd
    BY <1>2, <1>3, <1>5, SMTT(30) DEF IInv, SlotPerThread
  <2> QED
    BY <2>1, <2>2, <2>3 DEF SlotPerThread, Alive
<1>7. NoFdLeak'
  <2>1. {slots'[k].fd : k \in LiveSlots'} = {slots[k].fd : k \in LiveSlots} \cup {client_fd}
    BY <1>2, <1>3, SMTT(30)
  <2>2. open' = open /\ client_fd' = NoFd /\ NoFd \notin Fd
    BY AcceptLoopAssumption DEF Spawn
  <2>3. open = {slots[k].fd : k \in LiveSlots} \cup {client_fd} /\ open \subseteq Fd
    BY <1>2, <2>2, SMTT(30) DEF IInv, TypeOK, NoFdLeak
  <2> QED
    BY <2>1, <2>2, <2>3, SMTT(30) DEF NoFdLeak
<1>8. TypeOK'
  <2>1. slots' \in [0 .. slot_count' - 1 -> [tid : Tid, fd : Fd]]
    BY <1>1, <1>2, SMTT(30) DEF Spawn, IInv, TypeOK
  <2>2. thread' \in [Tid -> [pc : {"none", "check", "recv", "serve", "forward", "done"},
                             fd : Fd \cup {NoFd}]]
    BY <1>1, <1>2, SMTT(30) DEF IInv, TypeOK
  <2> QED
    <3>1. slot_count' \in Nat /\ slot_count' <= slot_cap'
      BY <1>2 DEF Spawn, IInv, TypeOK, MainKnows
    <3> QED
      BY <2>1, <2>2, <3>1, SMTT(30) DEF Spawn, IInv, TypeOK
<1>9. MainKnows' /\ ResourcesOutliveThreads'
  BY SMTT(30) DEF Spawn, IInv, TypeOK, MainKnows, ResourcesOutliveThreads, Startup, InHand,
                  Alive
<1> QED
  BY <1>6, <1>7, <1>8, <1>9 DEF IInv

\* A step of a connection thread: it stays the owner of its descriptor.
LEMMA GotoKeeps ==
  ASSUME IInv, NEW t \in Tid, Alive(t), NEW a \in {"check", "recv", "serve", "forward", "done"},
         Goto(t, a)
  PROVE  IInv'
<1> USE DEF resources, table
<1>1. \A u \in Tid : /\ thread'[u].fd = thread[u].fd
                     /\ thread'[u].pc = IF u = t THEN a ELSE thread[u].pc
  BY SMTT(30) DEF Goto, IInv, TypeOK
<1>2. \A u \in Tid : Alive(u)' <=> Alive(u)
  BY <1>1, SMTT(30) DEF Alive
<1>3. LiveSlots' = LiveSlots
  BY DEF Goto, LiveSlots
<1>4. SlotPerThread' /\ NoFdLeak'
  BY <1>1, <1>2, <1>3, Frame DEF Goto
<1>5. TypeOK'
  BY SMTT(30) DEF Goto, IInv, TypeOK
<1>6. MainKnows'
  BY DEF Goto, IInv, MainKnows
<1>7. ResourcesOutliveThreads'
  BY <1>2, SMTT(30) DEF Goto, IInv, ResourcesOutliveThreads
<1> QED
  BY <1>4, <1>5, <1>6, <1>7 DEF IInv

LEMMA ThreadStepKeeps == ASSUME IInv, NEW t \in Tid, ThreadStep(t) PROVE IInv'
  BY GotoKeeps, SMTT(30) DEF ThreadStep, TestLoop, Request, StreamEnds, Serve, ForwardEnds, At, Alive

\* Clients, signals and the cluster's threads.
LEMMA EnvironmentKeeps ==
  ASSUME IInv,
         Arrive \/ Signal \/ (\E h \in Helper : HelperEnds(h)) \/ \E fd \in Fd : Disconnect(fd)
  PROVE  IInv'
<1> USE DEF resources, table, Quiet
<1>1. LiveSlots' = LiveSlots
  <2>1. CASE Signal
    <3>1. (pc = "reap" <=> pc' = "reap") /\ (pc = "join" <=> pc' = "join")
      BY <2>1 DEF Signal
    <3> QED
      BY <2>1, <3>1 DEF Signal, LiveSlots
  <2>2. CASE Arrive \/ (\E h \in Helper : HelperEnds(h)) \/ \E fd \in Fd : Disconnect(fd)
    BY <2>2 DEF Arrive, HelperEnds, Disconnect, LiveSlots
  <2> QED
    BY <2>1, <2>2
<1>2. SlotPerThread' /\ NoFdLeak'
  BY <1>1, Frame DEF Arrive, Signal, HelperEnds, Disconnect, Alive
<1>3. TypeOK'
  BY SMTT(30) DEF Arrive, Signal, HelperEnds, Disconnect, IInv, TypeOK
<1>4. MainKnows'
  BY SMTT(30) DEF Arrive, Signal, HelperEnds, Disconnect, IInv, MainKnows, Startup, InHand
<1>5. ResourcesOutliveThreads'
  <2>1. g_storage' = g_storage /\ cluster' = cluster /\ (pc' = "exit" <=> pc = "exit")
    BY DEF Arrive, Signal, HelperEnds, Disconnect
  <2>2. helpers' \subseteq helpers
    BY DEF Arrive, Signal, HelperEnds, Disconnect
  <2>3. thread' = thread
    BY DEF Arrive, Signal, HelperEnds, Disconnect
  <2> QED
    BY <2>1, <2>2, <2>3 DEF IInv, ResourcesOutliveThreads, Alive
<1> QED
  BY <1>2, <1>3, <1>4, <1>5 DEF IInv

LEMMA StepInductive == IInv /\ [Next]_vars => IInv'
<1> SUFFICES ASSUME IInv, [Next]_vars PROVE IInv'
  OBVIOUS
<1>1. CASE Main
  BY <1>1, StartupKeeps, LoopKeeps, ReapKeepKeeps, ReapDoneKeeps, ReapEndKeeps, SpawnKeeps,
     ShutdownKeeps, JoinSlotKeeps DEF Main
<1>2. CASE \E t \in Tid : ThreadStep(t)
  BY <1>2, ThreadStepKeeps
<1>3. CASE Arrive \/ Signal \/ (\E h \in Helper : HelperEnds(h)) \/ \E fd \in Fd : Disconnect(fd)
  BY <1>3, EnvironmentKeeps
<1>4. CASE UNCHANGED vars
  BY <1>4 DEF vars, resources, table, IInv, TypeOK, SlotPerThread, NoFdLeak,
              ResourcesOutliveThreads, MainKnows, LiveSlots, Alive
<1> QED
  BY <1>1, <1>2, <1>3, <1>4 DEF Next

\* The inductive invariant holds for every number of descriptors, threads,
\* slots and faults.
THEOREM Inductive == Spec => []IInv
  BY InitInductive, StepInductive, PTL DEF Spec

\* Type correctness: client_count stays within the table of slots and every
\* descriptor and thread id the server uses is one it has been given.
THEOREM TypeCorrect == Spec => []TypeOK
<1>1. IInv => TypeOK
  BY DEF IInv
<1> QED
  BY Inductive, <1>1, PTL

\* Every thread of dsm_server.c that has not been joined has one slot with
\* its own descriptor, while slots are compacted and descriptors reused.
THEOREM ThreadsHaveSlots == Spec => []SlotPerThread
<1>1. IInv => SlotPerThread
  BY DEF IInv
<1> QED
  BY Inductive, <1>1, PTL

\* No path of the accept loop leaks a client descriptor.
THEOREM FdsAccounted == Spec => []NoFdLeak
<1>1. IInv => NoFdLeak
  BY DEF IInv
<1> QED
  BY Inductive, <1>1, PTL

\* g_storage is unmapped and the cluster freed after the last thread that
\* uses them has been joined.
THEOREM ResourcesSafe == Spec => []ResourcesOutliveThreads
<1>1. IInv => ResourcesOutliveThreads
  BY DEF IInv
<1> QED
  BY Inductive, <1>1, PTL
=============================================================================
