----------------------------- MODULE PagerProofs ----------------------------
(***************************************************************************)
(* Machine-checked proofs about Pager, for every number of frames and      *)
(* pages, every page content and every prefetch limit: the steps of the    *)
(* caller and of other clients, the theorems on the invariants, that a     *)
(* connected pager implements SharedMemory whatever fails, and that its    *)
(* statistics balance.                                                     *)
(***************************************************************************)
EXTENDS PagerPrefetchProofs, FiniteSetTheorems

-----------------------------------------------------------------------------
(* Callers and environment *)

\* The caller's store goes to a frame whose page is dirty.
LEMMA UserWriteKeeps ==
    ASSUME IInv, NEW v \in Value, UserWrite(v)
    PROVE  IInv'
  <1> USE DEF tables, stats, locals
  <1>1. TypeOK'
    BY DEF IInv, TypeOK, UserWrite
  <1>0. FramePartition'
    <2>1. /\ FramePartition /\ free_list' = free_list /\ occupied' = occupied
          /\ batch' = batch /\ pc' = pc /\ frame' = frame
      BY DEF IInv, UserWrite
    <2>2. QED
      BY <2>1, PartitionUntouched
  <1>2. TablesAgree' /\ PointerStable'
    BY DEF IInv, TablesAgree, PointerStable, UserWrite
  <1>3. CleanMatchesStore'
    <2>1. ASSUME NEW p \in valid, p \notin dirty
          PROVE  /\ frame_number[p] \in Frame
                 /\ frame_number[p] # handle.frame
      BY <2>1 DEF IInv, TypeOK, TablesAgree, PointerStable, UserWrite
    <2>2. QED
      BY <2>1 DEF IInv, TypeOK, CleanMatchesStore, UserWrite
  <1>4. CallState' /\ BatchState'
    BY DEF IInv, CallState, BatchState, UserWrite
  <1>5. QED
    BY <1>0, <1>1, <1>2, <1>3, <1>4 DEF IInv

\* dsm_context_set_socket changes the socket only.
LEMMA SetSocketKeeps ==
    ASSUME IInv, SetSocket
    PROVE  IInv'
  <1> USE DEF tables, memory, stats, locals
  <1>1. TypeOK'
    BY DEF IInv, TypeOK, SetSocket
  <1>0. FramePartition'
    <2>1. /\ FramePartition /\ free_list' = free_list /\ occupied' = occupied
          /\ batch' = batch /\ pc' = pc /\ frame' = frame
      BY DEF IInv, SetSocket
    <2>2. QED
      BY <2>1, PartitionUntouched
  <1>2. TablesAgree' /\ CleanMatchesStore' /\ PointerStable'
    BY DEF IInv, TablesAgree, CleanMatchesStore, PointerStable, SetSocket
  <1>3. CallState' /\ BatchState'
    BY DEF IInv, CallState, BatchState, SetSocket
  <1>4. QED
    BY <1>0, <1>1, <1>2, <1>3 DEF IInv

\* run_benchmark marks pages remote while nothing is cached.
LEMMA BenchmarkLocationsKeeps ==
    ASSUME IInv, BenchmarkLocations
    PROVE  IInv'
  <1> USE DEF memory, stats, locals
  <1>1. TypeOK'
    BY DEF IInv, TypeOK, BenchmarkLocations
  <1>0. FramePartition'
    <2>1. /\ FramePartition /\ free_list' = free_list /\ occupied' = occupied
          /\ batch' = batch /\ pc' = pc /\ frame' = frame
      BY DEF IInv, BenchmarkLocations
    <2>2. QED
      BY <2>1, PartitionUntouched
  <1>2. TablesAgree' /\ PointerStable'
    BY DEF IInv, TablesAgree, PointerStable, BenchmarkLocations
  <1>3. CleanMatchesStore'
    BY DEF CleanMatchesStore, BenchmarkLocations
  <1>4. CallState' /\ BatchState'
    BY DEF IInv, CallState, BatchState, BenchmarkLocations
  <1>5. QED
    BY <1>0, <1>1, <1>2, <1>3, <1>4 DEF IInv

\* Other clients write shared pages, of which the invariant says nothing.
LEMMA OtherPutKeeps ==
    ASSUME IInv, NEW p \in Shared, NEW v \in Value, OtherPut(p, v)
    PROVE  IInv'
  <1> USE DEF tables, stats, locals
  <1>1. TypeOK'
    BY Constants DEF IInv, TypeOK, OtherPut
  <1>0. FramePartition'
    <2>1. /\ FramePartition /\ free_list' = free_list /\ occupied' = occupied
          /\ batch' = batch /\ pc' = pc /\ frame' = frame
      BY DEF IInv, OtherPut
    <2>2. QED
      BY <2>1, PartitionUntouched
  <1>2. TablesAgree' /\ PointerStable' /\ CallState'
    BY DEF IInv, TablesAgree, PointerStable, CallState, OtherPut
  <1>3. \A q \in Page \ Shared : store'[q] = store[q]
    BY Constants DEF IInv, TypeOK, OtherPut
  <1>4. CleanMatchesStore'
    BY <1>3 DEF IInv, TypeOK, CleanMatchesStore, OtherPut
  <1>5. BatchState'
    BY <1>3, BatchEntries DEF IInv, BatchState, OtherPut
  <1>6. QED
    BY <1>0, <1>1, <1>2, <1>4, <1>5 DEF IInv

\* dsm_destroy_context ends the call sequence.
LEMMA DestroyKeeps ==
    ASSUME IInv, Destroy
    PROVE  IInv'
  <1> USE DEF tables, memory, stats, locals
  <1>1. TypeOK'
    BY Constants DEF IInv, TypeOK, Destroy, NoHandle
  <1>0. FramePartition'
    <2>1. /\ FramePartition /\ free_list' = free_list /\ occupied' = occupied
          /\ batch' = batch /\ pc # "fetch" /\ pc' # "fetch"
      BY DEF IInv, Destroy
    <2>2. QED
      BY <2>1, PartitionUntouched
  <1>2. TablesAgree' /\ CleanMatchesStore' /\ PointerStable'
    BY DEF IInv, TablesAgree, CleanMatchesStore, PointerStable, Destroy, NoHandle
  <1>3. CallState' /\ BatchState'
    BY DEF IInv, CallState, BatchState, Destroy
  <1>4. QED
    BY <1>0, <1>1, <1>2, <1>3 DEF IInv

\* A step that changes no variable.
LEMMA StutterKeeps ==
    ASSUME IInv, UNCHANGED vars
    PROVE  IInv'
  <1> USE DEF vars, tables, memory, stats, locals
  <1>0. FramePartition'
    <2>1. /\ FramePartition /\ free_list' = free_list /\ occupied' = occupied
          /\ batch' = batch /\ pc' = pc /\ frame' = frame
      BY DEF IInv
    <2>2. QED
      BY <2>1, PartitionUntouched
  <1>1. TypeOK' /\ TablesAgree' /\ CleanMatchesStore'
    BY DEF IInv, TypeOK, TablesAgree, CleanMatchesStore
  <1>2. PointerStable' /\ CallState' /\ BatchState'
    BY DEF IInv, PointerStable, CallState, BatchState
  <1>3. QED
    BY <1>0, <1>1, <1>2 DEF IInv

-----------------------------------------------------------------------------
(* Theorems *)

\* Every step of the pager, of its caller and of the other clients keeps the
\* inductive invariant.
LEMMA NextKeeps ==
    ASSUME IInv, [Next]_vars
    PROVE  IInv'
  <1>1. CASE Step
    BY <1>1, ClockPassKeeps, EvictCleanKeeps, EvictWritebackKeeps,
       WritebackFailKeeps, WritebackKilledKeeps, FetchRemoteKeeps,
       FetchInMemoryKeeps, FetchFailKeeps,
       ScanSkipKeeps, ScanTakeKeeps, ScanEndKeeps, BatchFetchKeeps,
       BatchFailKeeps, BatchInstallKeeps, BatchPutBackKeeps, BatchEndKeeps
    DEF Step
  <1>2. CASE \E p \in Page, mode \in {"read", "write"} :
                 AccessHit(p, mode) \/ AccessMiss(p, mode)
    BY <1>2, AccessHitKeeps, AccessMissKeeps
  <1>3. CASE \E start \in Id, count \in HintCounts : PrefetchCall(start, count)
    BY <1>3, PrefetchCallKeeps
  <1>4. CASE \E v \in Value : UserWrite(v)
    BY <1>4, UserWriteKeeps
  <1>5. CASE \E p \in Shared, v \in Value : OtherPut(p, v)
    BY <1>5, OtherPutKeeps
  <1>6. CASE SetSocket \/ BenchmarkLocations \/ Destroy
    BY <1>6, SetSocketKeeps, BenchmarkLocationsKeeps, DestroyKeeps
  <1>7. CASE Closed \/ UNCHANGED vars
    BY <1>7, StutterKeeps DEF Closed
  <1>8. QED
    BY <1>1, <1>2, <1>3, <1>4, <1>5, <1>6, <1>7 DEF Next

\* The inductive invariant holds in every reachable state of a context that
\* starts without a socket (dsm_create_context before set_socket).
THEOREM Inductive == Spec => []IInv
  <1>1. Init => IInv
    BY CreateContextEstablishes DEF Init
  <1>2. IInv /\ [Next]_vars => IInv'
    BY NextKeeps
  <1>3. QED
    BY <1>1, <1>2, PTL DEF Spec

\* The same for a context that has its socket from the start, as the client
\* binary and the Python Context create it.
THEOREM ConnectedInductive == ConnectedSpec => []IInv
  <1>1. ConnectedInit => IInv
    BY CreateContextEstablishes DEF ConnectedInit
  <1>2. IInv /\ [Next]_vars => IInv'
    BY NextKeeps
  <1>3. QED
    BY <1>1, <1>2, PTL DEF ConnectedSpec

\* Every field of dsm_context_t keeps its type; in particular every frame
\* and page index used to subscript an array is in range.
THEOREM TypeCorrect == Spec => []TypeOK
  <1>1. IInv => TypeOK
    BY DEF IInv
  <1>2. QED
    BY <1>1, Inductive, PTL

\* No frame is ever lost, listed twice or in use in two places, through
\* evictions, prefetching and every failed RPC.
THEOREM FramesPartitioned == Spec => []FramePartition
  <1>1. IInv => FramePartition
    BY DEF IInv
  <1>2. QED
    BY <1>1, Inductive, PTL

\* page_table and frame_table stay inverse to each other.
THEOREM TablesStayInverse == Spec => []TablesAgree
  <1>1. IInv => TablesAgree
    BY DEF IInv
  <1>2. QED
    BY <1>1, Inductive, PTL

\* Dropping a clean page loses nothing: its private content is the server's.
THEOREM CleanPagesAreStored == Spec => []CleanMatchesStore
  <1>1. IInv => CleanMatchesStore
    BY DEF IInv
  <1>2. QED
    BY <1>1, Inductive, PTL

\* A pointer returned by dsm_access_page is good until the next access.
THEOREM PointersStable == Spec => []PointerStable
  <1>1. IInv => PointerStable
    BY DEF IInv
  <1>2. QED
    BY <1>1, Inductive, PTL

\* evict_page runs only with every frame occupied, so each turn of its clock
\* meets num_pages candidates.
THEOREM EvictionHasVictims == Spec => []EvictHasVictims
  <1>1. IInv => EvictHasVictims
    <2> SUFFICES ASSUME IInv, pc = "evict"
                 PROVE  occupied = Frame
      BY DEF EvictHasVictims
    <2>1. Len(free_list) = 0 /\ Len(batch) = 0
      BY EmptySeq DEF IInv, CallState
    <2>2. \A f \in Frame : f \in occupied
      BY <2>1 DEF IInv, FramePartition
    <2>3. QED
      BY ZenonT(30), <2>2 DEF IInv, TypeOK
  <1>2. QED
    BY <1>1, Inductive, PTL

-----------------------------------------------------------------------------
(* Page contents *)

\* A step that leaves the cached copies, the mapping and the store alone
\* changes no content.
LEMMA ContentUntouched ==
    ASSUME UNCHANGED <<valid, frame_number, local_memory, store>>
    PROVE  ContentStep
  BY DEF ContentStep, Content

\* Evicting the victim: a private remote page is clean, so the store already
\* has it, or was just written back.
LEMMA ContentEvict ==
    ASSUME IInv, EvictClean \/ EvictWriteback
    PROVE  ContentStep
  <1>1. /\ clock_hand \in occupied /\ HandPage \in valid /\ HandPage \in Page
        /\ frame_number[HandPage] = clock_hand
    BY DEF IInv, TypeOK, TablesAgree, EvictClean, EvictWriteback, AtVictim,
           HandPage
  <1>2. /\ valid' = valid \ {HandPage} /\ frame_number' = frame_number
        /\ local_memory' = local_memory /\ remote' = remote
    BY DEF EvictClean, EvictWriteback, Evict
  <1>3. \A p \in Page : p # HandPage => store'[p] = store[p]
    BY <1>1 DEF IInv, TypeOK, EvictClean, EvictWriteback
  <1>4. HandPage \in remote /\ HandPage \notin Shared =>
            store'[HandPage] = local_memory[clock_hand]
    <2>1. CASE EvictClean
      BY <1>1, <2>1 DEF IInv, CleanMatchesStore, EvictClean, NeedsWriteback
    <2>2. CASE EvictWriteback
      BY <1>1, <2>2 DEF IInv, TypeOK, EvictWriteback
    <2>3. QED
      BY <2>1, <2>2
  <1>5. QED
    BY <1>1, <1>2, <1>3, <1>4 DEF ContentStep, Content

\* A failed writeback may have reached the store, but the page is still
\* cached.
LEMMA ContentWritebackFail ==
    ASSUME IInv, WritebackFail
    PROVE  ContentStep
  <1>1. HandPage \in valid /\ HandPage \in Page
    BY DEF IInv, TypeOK, TablesAgree, WritebackFail, AtVictim, HandPage
  <1>2. /\ valid' = valid /\ frame_number' = frame_number
        /\ local_memory' = local_memory
        /\ \A p \in Page : p # HandPage => store'[p] = store[p]
    BY <1>1 DEF IInv, TypeOK, WritebackFail, tables
  <1>3. QED
    BY <1>1, <1>2 DEF ContentStep, Content

\* A fetched page is the server's; the frame it fills cached nothing.
LEMMA ContentFetch ==
    ASSUME IInv, FetchRemote \/ FetchInMemory
    PROVE  ContentStep
  <1>1. /\ pc = "fetch" /\ req.page \notin valid /\ req.page \in Page
        /\ frame \in Frame /\ frame \notin occupied
    BY DEF IInv, TypeOK, CallState, FramePartition, FetchRemote, FetchInMemory
  <1>2. /\ valid' = valid \cup {req.page} /\ store' = store
        /\ frame_number' = [frame_number EXCEPT ![req.page] = frame]
        /\ \A f \in Frame : f # frame => local_memory'[f] = local_memory[f]
    BY SMTT(30), <1>1 DEF IInv, TypeOK, FetchRemote, FetchInMemory, Install
  <1>3. \/ req.page \notin remote'
        \/ local_memory'[frame] = store[req.page]
    BY <1>1 DEF IInv, TypeOK, FetchRemote, FetchInMemory, Install
  <1>4. ASSUME NEW p \in Page, p # req.page
        PROVE  Content(p)' = Content(p)
    <2>1. frame_number'[p] = frame_number[p] /\ frame_number[p] \in Frame
      BY <1>1, <1>2, <1>4 DEF IInv, TypeOK
    <2>2. p \in valid => frame_number[p] # frame
      BY SMTT(30), <1>1 DEF IInv, TablesAgree
    <2>3. QED
      BY <1>2, <1>4, <2>1, <2>2 DEF Content
  <1>5. ASSUME NEW p \in Page, p = req.page, p \in remote'
        PROVE  Content(p)' = Content(p)
    <2>1. frame_number'[p] = frame
      BY SMTT(30), <1>1, <1>2, <1>5 DEF IInv, TypeOK
    <2>2. QED
      BY <1>1, <1>2, <1>3, <1>5, <2>1 DEF Content
  <1>6. QED
    BY SMTT(30), <1>4, <1>5 DEF ContentStep

\* A fetch that fails half way has only scribbled over a frame in hand.
LEMMA ContentFetchFail ==
    ASSUME IInv, FetchFail
    PROVE  ContentStep
  <1>1. pc = "fetch" /\ frame \in Frame /\ frame \notin occupied
    BY DEF IInv, TypeOK, FramePartition, FetchFail
  <1>2. /\ valid' = valid /\ frame_number' = frame_number /\ store' = store
        /\ \A f \in Frame : f # frame => local_memory'[f] = local_memory[f]
    BY SMTT(30), <1>1 DEF IInv, TypeOK, FetchFail, tables
  <1>3. \A p \in valid : frame_number[p] \in Frame /\ frame_number[p] # frame
    BY SMTT(30), <1>1 DEF IInv, TypeOK, TablesAgree
  <1>4. QED
    BY SMTT(30), <1>2, <1>3 DEF ContentStep, Content

\* A prefetched private page is still what the server holds when it is
\* copied in.
LEMMA ContentBatchInstall ==
    ASSUME IInv, BatchInstall
    PROVE  ContentStep
  <1> DEFINE e == batch[1]
  <1>1. /\ Len(batch) \in Nat \ {0} /\ Head(batch) = e
        /\ e.page \in Page /\ e.frame \in Frame
    BY BatchHead DEF BatchInstall
  <1>2. /\ e.page \notin valid /\ e.frame \notin occupied
        /\ e.page \notin Shared => e.data = store[e.page]
    BY InstallHead
  <1>3. /\ local_memory' = [local_memory EXCEPT ![e.frame] = e.data]
        /\ frame_number' = [frame_number EXCEPT ![e.page] = e.frame]
        /\ valid' = valid \cup {e.page}
        /\ store' = store
    BY ZenonT(30), <1>1 DEF BatchInstall
  <1> HIDE DEF e
  <1>4. ASSUME NEW p \in Page, p # e.page
        PROVE  Content(p)' = Content(p)
    <2>1. frame_number'[p] = frame_number[p] /\ frame_number[p] \in Frame
      BY SMTT(30), <1>1, <1>3, <1>4 DEF IInv, TypeOK
    <2>2. p \in valid => frame_number[p] # e.frame
      BY <1>2 DEF IInv, TablesAgree
    <2>3. p \in valid => local_memory'[frame_number[p]] = local_memory[frame_number[p]]
      BY SMTT(30), <1>1, <1>3, <2>1, <2>2 DEF IInv, TypeOK
    <2>4. QED
      BY <1>3, <1>4, <2>1, <2>3 DEF Content
  <1>5. ASSUME NEW p \in Page, p = e.page, p \notin Shared
        PROVE  Content(p)' = Content(p)
    <2>1. frame_number'[p] = e.frame /\ local_memory'[e.frame] = e.data
      BY SMTT(30), <1>1, <1>3, <1>5 DEF IInv, TypeOK
    <2>2. QED
      BY <1>2, <1>3, <1>5, <2>1 DEF Content
  <1>6. QED
    BY <1>4, <1>5 DEF ContentStep

\* The client's store changes the page it has a pointer to, and no other.
LEMMA ContentUserWrite ==
    ASSUME IInv, NEW v \in Value, UserWrite(v)
    PROVE  ContentStep
  <1>1. /\ pc = "idle" /\ handle.mode = "write" /\ handle.frame \in Frame
        /\ valid' = valid /\ frame_number' = frame_number /\ store' = store
        /\ local_memory' = [local_memory EXCEPT ![handle.frame] = v]
    BY DEF IInv, TypeOK, UserWrite, tables
  <1>2. \A p \in valid : p # handle.page =>
            frame_number[p] # handle.frame /\ frame_number[p] \in Frame
    BY SMTT(30), <1>1 DEF IInv, TypeOK, TablesAgree, PointerStable
  <1>3. QED
    BY SMTT(30), <1>1, <1>2 DEF IInv, TypeOK, ContentStep, Content

\* Other clients write shared pages only.
LEMMA ContentOtherPut ==
    ASSUME IInv, NEW p \in Shared, NEW v \in Value, OtherPut(p, v)
    PROVE  ContentStep
  BY Constants DEF IInv, TypeOK, ContentStep, Content, OtherPut, tables

\* What a client has written to a private page stays what it reads there,
\* through evictions, writebacks, refetches and every failed call.
THEOREM ContentsPreserved == Spec => ContentPreserved
  <1>1. ASSUME IInv, Next
        PROVE  ContentStep
    <2> USE DEF tables, memory
    <2>1. CASE Step
      <3>1. CASE ClockPass \/ ScanSkip \/ ScanTake \/ ScanEnd \/ BatchFetch
                 \/ BatchFail \/ BatchPutBack \/ BatchEnd \/ WritebackKilled
        BY <3>1, ContentUntouched
        DEF ClockPass, ScanSkip, ScanTake, ScanEnd, BatchFetch, BatchFail,
            BatchPutBack, BatchEnd, WritebackKilled
      <3>2. QED
        BY SMTT(30), <1>1, <2>1, <3>1, ContentEvict, ContentWritebackFail, ContentFetch,
           ContentFetchFail, ContentBatchInstall
        DEF Step
    <2>2. CASE \E p \in Page, mode \in {"read", "write"} :
                   AccessHit(p, mode) \/ AccessMiss(p, mode)
      BY <2>2, ContentUntouched DEF AccessHit, AccessMiss
    <2>3. CASE \E start \in Id, count \in HintCounts : PrefetchCall(start, count)
      BY <2>3, ContentUntouched DEF PrefetchCall
    <2>4. CASE \E v \in Value : UserWrite(v)
      BY <1>1, <2>4, ContentUserWrite
    <2>5. CASE \E p \in Shared, v \in Value : OtherPut(p, v)
      BY <1>1, <2>5, ContentOtherPut
    <2>6. CASE SetSocket \/ BenchmarkLocations \/ Destroy \/ Closed
      BY <2>6, ContentUntouched
      DEF SetSocket, BenchmarkLocations, Destroy, Closed, vars
    <2>7. QED
      BY <1>1, <2>1, <2>2, <2>3, <2>4, <2>5, <2>6 DEF Next
  <1>2. IInv /\ [Next]_vars => [ContentStep]_vars
    BY <1>1
  <1>3. QED
    BY <1>2, Inductive, PTL DEF Spec, ContentPreserved

-----------------------------------------------------------------------------
(* A connected pager implements SharedMemory.  What makes a step one of the
   abstract memory is said once; then each action is mapped to one of these. *)

\* With a socket from the start every page the client caches, or is about to
\* install, came from the server.
Connected ==
    /\ sock # "none"
    /\ valid \subseteq remote
    /\ \A i \in 1 .. Len(batch) : batch[i].page \in remote

Known == IInv /\ Connected

SameContent == \A p \in Page : Content(p)' = Content(p)

-----------------------------------------------------------------------------
(* Connected is an invariant *)

\* A fresh connected context caches nothing.
LEMMA ConnectedInitially == ConnectedInit => Connected
  BY EmptySeq DEF ConnectedInit, CreateContext, Connected

\* Steps that cache no page, take none into the batch and forget no location.
LEMMA ConnectedUntouched ==
    ASSUME Connected, sock' = sock \/ sock' \in {"up", "dead"},
           valid' \subseteq valid, remote \subseteq remote',
           batch' = batch \/ batch' = <<>>
    PROVE  Connected'
  BY EmptySeq DEF Connected

\* Every step keeps Connected: pages enter the cache from the server only.
LEMMA ConnectedKeeps ==
    ASSUME Known, [Next]_vars
    PROVE  Connected'
  <1> USE DEF Known, tables, memory, stats, locals
  <1>1. CASE Step
    <2>1. CASE ClockPass
      BY <2>1, ConnectedUntouched DEF ClockPass
    <2>2. CASE EvictClean \/ EvictWriteback
      BY <2>2, ConnectedUntouched DEF EvictClean, EvictWriteback, Evict
    <2>3. CASE WritebackFail
      <3>1. sock' = sock \/ sock' \in {"up", "dead"}
        BY <2>3 DEF WritebackFail
      <3>2. QED
        BY <2>3, <3>1, ConnectedUntouched DEF WritebackFail, Return
    <2>4. CASE WritebackKilled
      BY <2>4, ConnectedUntouched DEF WritebackKilled
    <2>5. CASE FetchRemote
      <3>1. /\ batch = <<>> /\ batch' = <<>>
            /\ valid' = valid \cup {req.page} /\ remote' = remote \cup {req.page}
            /\ sock' = sock
        BY <2>5 DEF FetchRemote, Install, Return, IInv, CallState
      <3>2. QED
        BY <3>1, EmptySeq DEF Connected
    <2>6. CASE FetchInMemory
      BY <2>6 DEF FetchInMemory, Connected
    <2>7. CASE FetchFail
      BY <2>7, ConnectedUntouched DEF FetchFail, Return
    <2>8. CASE ScanSkip
      BY <2>8, ConnectedUntouched DEF ScanSkip
    <2>9. CASE ScanTake
      <3> DEFINE Batch == [page : Page, frame : Frame, data : Value]
                 e == [page |-> scan.next, frame |-> free_list[Len(free_list)],
                       data |-> Zero]
      <3>1. batch \in Seq(Batch) /\ free_list \in Seq(Frame) /\ free_list # <<>>
        BY <2>9 DEF IInv, TypeOK, ScanTake
      <3>2. free_list[Len(free_list)] \in Frame
        BY <3>1, PopProperties
      <3>3. scan.next \in Page /\ scan.next \in remote
        BY <2>9, PagerAssumption DEF ScanTake, Scanning, Wanted, IInv, TypeOK, Page, Id
      <3>4. e \in Batch
        BY <3>2, <3>3, Constants
      <3>5. batch' = Append(batch, e) /\ sock' = sock /\ valid' = valid /\ remote' = remote
        BY <2>9 DEF ScanTake
      <3>6. e.page = scan.next
        OBVIOUS
      <3> HIDE DEF Batch, e
      <3>7. /\ Len(batch) \in Nat /\ Len(batch') = Len(batch) + 1
            /\ \A i \in 1 .. Len(batch) : batch'[i] = batch[i]
            /\ batch'[Len(batch) + 1] = e
        BY <3>1, <3>4, <3>5, PushProperties
      <3>8. QED
        BY <3>3, <3>5, <3>6, <3>7 DEF Connected
    <2>10. CASE ScanEnd
      <3>1. sock' = sock /\ valid' = valid /\ remote' = remote
            /\ (batch' = batch \/ batch' = <<>>)
        BY <2>10 DEF ScanEnd, PrefetchDone, Return
      <3>2. QED
        BY <3>1, ConnectedUntouched
    <2>11. CASE BatchFetch
      <3>0. sock' = sock /\ valid' = valid /\ remote' = remote
        BY <2>11 DEF BatchFetch
      <3>1. /\ Len(batch) \in Nat
            /\ batch' = [i \in 1 .. Len(batch) |->
                          [batch[i] EXCEPT !.data = store[batch[i].page]]]
            /\ \A i \in 1 .. Len(batch) :
                  batch[i] \in [page : Page, frame : Frame, data : Value]
        <4> DEFINE Batch == [page : Page, frame : Frame, data : Value]
        <4>1. batch \in Seq(Batch)
          BY DEF IInv, TypeOK
        <4>2. Len(batch) \in Nat /\ \A i \in 1 .. Len(batch) : batch[i] \in Batch
          <5> HIDE DEF Batch
          <5> QED BY <4>1
        <4>3. QED
          BY <2>11, <4>2 DEF BatchFetch
      <3>2. Len(batch') = Len(batch)
        BY <3>1
      <3>3. \A i \in 1 .. Len(batch) : batch'[i].page = batch[i].page
        BY <3>1
      <3>4. QED
        BY <3>0, <3>2, <3>3 DEF Connected
    <2>12. CASE BatchFail
      <3>1. sock' = sock \/ sock' \in {"up", "dead"}
        BY <2>12 DEF BatchFail
      <3>2. QED
        BY <2>12, <3>1, ConnectedUntouched DEF BatchFail
    <2>13. CASE BatchInstall \/ BatchPutBack
      <3>1. batch # <<>> /\ batch' = Tail(batch) /\ sock' = sock /\ remote' = remote
            /\ (valid' = valid \/ valid' = valid \cup {Head(batch).page})
        BY <2>13 DEF BatchInstall, BatchPutBack
      <3>2. /\ Len(batch) \in Nat \ {0} /\ Head(batch) = batch[1]
            /\ Len(batch') = Len(batch) - 1
            /\ \A i \in 1 .. Len(batch) - 1 : batch'[i] = batch[i + 1]
        <4> DEFINE Batch == [page : Page, frame : Frame, data : Value]
        <4>1. batch \in Seq(Batch)
          BY DEF IInv, TypeOK
        <4> HIDE DEF Batch
        <4>2. QED
          BY <3>1, <4>1, TailProperties
      <3>3. QED
        BY <3>1, <3>2 DEF Connected
    <2>14. CASE BatchEnd
      <3>1. sock' = sock /\ valid' = valid /\ remote' = remote /\ batch' = <<>>
        BY <2>14 DEF BatchEnd, PrefetchDone, Return
      <3>2. QED
        BY <3>1, ConnectedUntouched
    <2>15. QED
      BY <1>1, <2>1, <2>2, <2>3, <2>4, <2>5, <2>6, <2>7, <2>8, <2>9, <2>10,
         <2>11, <2>12, <2>13, <2>14 DEF Step
  <1>2. CASE \E p \in Page, mode \in {"read", "write"} :
                  AccessHit(p, mode) \/ AccessMiss(p, mode)
    BY <1>2, ConnectedUntouched DEF AccessHit, AccessMiss
  <1>3. CASE \E start \in Id, count \in HintCounts : PrefetchCall(start, count)
    BY <1>3, ConnectedUntouched DEF PrefetchCall
  <1>4. CASE \E v \in Value : UserWrite(v)
    BY <1>4, ConnectedUntouched DEF UserWrite
  <1>5. CASE SetSocket
    BY <1>5, ConnectedUntouched DEF SetSocket
  <1>6. CASE BenchmarkLocations
    BY <1>6, EmptySeq DEF BenchmarkLocations, Connected, IInv, CallState
  <1>7. CASE \E p \in Shared, v \in Value : OtherPut(p, v)
    BY <1>7, ConnectedUntouched DEF OtherPut
  <1>8. CASE Destroy
    BY <1>8, ConnectedUntouched DEF Destroy
  <1>9. CASE UNCHANGED vars
    BY <1>9, ConnectedUntouched DEF vars
  <1>10. QED
    BY <1>1, <1>2, <1>3, <1>4, <1>5, <1>6, <1>7, <1>8, <1>9 DEF Next, Closed
-----------------------------------------------------------------------------
(* What makes a step one of the abstract memory *)

\* A call goes on, or returns without having handed out a pointer.
LEMMA AbstractStutter ==
    ASSUME SameContent, View' = View
    PROVE  [Abstract!Next]_(Abstract!vars)
  BY DEF SameContent, Abstract!vars

\* An access takes the client's pointer away.
LEMMA AbstractRelease ==
    ASSUME SameContent, handle' = NoHandle
    PROVE  [Abstract!Next]_(Abstract!vars)
  BY DEF SameContent, NoHandle, View, Abstract!Next, Abstract!Release, Abstract!NoView

\* An access returns a pointer to what the page holds.
LEMMA AbstractReturn ==
    ASSUME SameContent, NEW p \in Page, NEW mode \in {"read", "write"}, NEW f,
           handle' = [page |-> p, frame |-> f, mode |-> mode],
           local_memory'[f] = Content(p)
    PROVE  [Abstract!Next]_(Abstract!vars)
  <1>1. View' = [page |-> p, mode |-> mode, data |-> [q \in Page |-> Content(q)][p]]
    BY DEF View
  <1>2. [q \in Page |-> Content(q)]' = [q \in Page |-> Content(q)]
    BY DEF SameContent
  <1>3. Abstract!Return(p, mode)
    BY <1>1, <1>2 DEF Abstract!Return
  <1>4. QED
    BY <1>3 DEF Abstract!Next

\* The content of a shared page the client holds no pointer to changes.
LEMMA AbstractOthersWrite ==
    ASSUME NEW p \in Shared, NEW v \in Value,
           handle.mode = "none" \/ handle.page # p, View' = View,
           \A q \in Page : Content(q)' = IF q = p THEN v ELSE Content(q)
    PROVE  [Abstract!Next]_(Abstract!vars)
  <1>1. [q \in Page |-> Content(q)]' = [[q \in Page |-> Content(q)] EXCEPT ![p] = v]
    BY Constants
  <1>2. View.mode = "none" \/ View.page # p
    BY DEF View
  <1>3. Abstract!OthersWrite(p, v)
    BY <1>1, <1>2 DEF Abstract!OthersWrite
  <1>4. QED
    BY <1>3 DEF Abstract!Next

\* The client stores through its pointer.
LEMMA AbstractWrite ==
    ASSUME NEW v \in Value, handle.mode = "write", handle.page \in Page,
           handle' = handle, local_memory'[handle.frame] = v,
           \A q \in Page : Content(q)' = IF q = handle.page THEN v ELSE Content(q)
    PROVE  [Abstract!Next]_(Abstract!vars)
  <1>1. [q \in Page |-> Content(q)]'
            = [[q \in Page |-> Content(q)] EXCEPT ![View.page] = v]
    BY DEF View
  <1>2. View.mode = "write" /\ View' = [View EXCEPT !.data = v]
    BY DEF View
  <1>3. Abstract!Write(v)
    BY <1>1, <1>2 DEF Abstract!Write
  <1>4. QED
    BY <1>3 DEF Abstract!Next

\* A step that moves no cached page and keeps the frames of cached pages
\* and the store changes nothing the client could read.
LEMMA NothingMoves ==
    ASSUME IInv, valid' = valid, frame_number' = frame_number, store' = store,
           \A f \in occupied : local_memory'[f] = local_memory[f]
    PROVE  /\ SameContent
           /\ handle' = handle => View' = View
  <1>1. SameContent
    BY DEF IInv, TablesAgree, SameContent, Content
  <1>2. handle.mode # "none" => handle.frame \in occupied
    BY DEF IInv, TablesAgree, PointerStable
  <1>3. QED
    BY <1>1, <1>2 DEF View
-----------------------------------------------------------------------------
(* Every action is a step of the abstract memory *)

\* A step of a call is a step of the abstract memory.
LEMMA StepRefines ==
    ASSUME Known, Step
    PROVE  [Abstract!Next]_(Abstract!vars)
  <1> USE DEF Known, tables, memory, stats, locals
  <1>1. CASE ClockPass
    BY <1>1, NothingMoves, AbstractStutter DEF ClockPass
  <1>2. CASE EvictClean \/ EvictWriteback
    <2> DEFINE q == HandPage
    <2>1. /\ q \in valid /\ q \in Page /\ frame_number[q] = clock_hand
          /\ handle' = handle /\ local_memory' = local_memory
          /\ frame_number' = frame_number /\ valid' = valid \ {q}
      BY <1>2 DEF IInv, TypeOK, TablesAgree, EvictClean, EvictWriteback, AtVictim,
                  HandPage, Evict
    <2>2. handle.mode = "none" /\ View' = View
      BY <1>2, <2>1 DEF IInv, CallState, EvictClean, EvictWriteback, AtVictim, View
    <2>3. \A p \in Page : p # q => store'[p] = store[p]
      BY <1>2, <2>1 DEF EvictClean, EvictWriteback, IInv, TypeOK
    <2>4. \A p \in Page : Content(p)' = IF p = q THEN store'[q] ELSE Content(p)
      BY <2>1, <2>3 DEF Content
    <2>5. store'[q] \in Value
      BY <1>2, <2>1 DEF EvictClean, EvictWriteback, IInv, TypeOK
    <2>6. CASE q \in Shared
      BY <2>2, <2>4, <2>5, <2>6, AbstractOthersWrite
    <2>7. CASE q \notin Shared
      <3>1. store'[q] = local_memory[clock_hand]
        <4>1. CASE EvictWriteback
          BY <4>1, <2>1 DEF EvictWriteback, IInv, TypeOK
        <4>2. CASE EvictClean
          <5>1. q \in remote /\ q \notin dirty /\ store' = store
            BY <4>2, <2>1 DEF EvictClean, NeedsWriteback, Connected
          <5>2. QED
            BY <5>1, <2>1, <2>7 DEF IInv, CleanMatchesStore
        <4>3. QED
          BY <1>2, <4>1, <4>2
      <3>2. SameContent
        BY <2>1, <2>4, <3>1 DEF SameContent, Content
      <3>3. QED
        BY <2>2, <3>2, AbstractStutter
    <2>8. QED
      BY <2>6, <2>7
  <1>3. CASE WritebackFail
    <2>1. /\ HandPage \in valid
          /\ \A p \in Page : p # HandPage => store'[p] = store[p]
          /\ valid' = valid /\ frame_number' = frame_number
          /\ local_memory' = local_memory /\ handle' = handle
      BY <1>3 DEF IInv, TypeOK, TablesAgree, WritebackFail, AtVictim, HandPage
    <2>2. SameContent /\ View' = View
      BY <2>1 DEF SameContent, Content, View
    <2>3. QED
      BY <2>2, AbstractStutter
  <1>4. CASE WritebackKilled
    BY <1>4, NothingMoves, AbstractStutter DEF WritebackKilled
  <1>5. CASE FetchRemote
    <2>1. /\ frame \notin occupied /\ req.page \notin valid
          /\ req.page \in Page /\ frame \in Frame
          /\ req.mode \in {"read", "write"} /\ handle.mode = "none"
      BY <1>5 DEF IInv, TypeOK, FramePartition, CallState, FetchRemote
    <2>2. /\ local_memory' = [local_memory EXCEPT ![frame] = store[req.page]]
          /\ frame_number' = [frame_number EXCEPT ![req.page] = frame]
          /\ valid' = valid \cup {req.page} /\ store' = store
      BY <1>5 DEF FetchRemote, Install
    <2>3. local_memory'[frame] = Content(req.page)
      BY <2>1, <2>2 DEF Content, IInv, TypeOK
    <2>4. SameContent
      BY <2>1, <2>2 DEF SameContent, Content, IInv, TypeOK, TablesAgree
    <2>5. CASE handle' = handle
      BY <2>1, <2>4, <2>5, AbstractStutter DEF View
    <2>6. CASE handle' = [page |-> req.page, frame |-> frame, mode |-> req.mode]
      BY <2>1, <2>3, <2>4, <2>6, AbstractReturn
    <2>7. QED
      BY <1>5, <2>5, <2>6 DEF FetchRemote, Install
  <1>6. CASE FetchInMemory
    BY <1>6 DEF FetchInMemory, Connected
  <1>7. CASE FetchFail
    <2>1. /\ frame \notin occupied
          /\ \A f \in Frame : f # frame => local_memory'[f] = local_memory[f]
          /\ valid' = valid /\ frame_number' = frame_number /\ store' = store
          /\ handle' = handle
      <3>1. pc = "fetch" /\ frame \notin occupied
        BY <1>7 DEF IInv, FramePartition, FetchFail
      <3>2. \A f \in Frame : f # frame => local_memory'[f] = local_memory[f]
        BY <1>7 DEF IInv, TypeOK, FetchFail
      <3>3. valid' = valid /\ frame_number' = frame_number /\ store' = store /\ handle' = handle
        BY <1>7 DEF FetchFail, tables
      <3>4. QED
        BY <3>1, <3>2, <3>3
    <2>2. \A f \in occupied : local_memory'[f] = local_memory[f]
      BY <2>1 DEF IInv, TypeOK
    <2>3. QED
      BY <2>1, <2>2, NothingMoves, AbstractStutter
  <1>8. CASE ScanSkip
    BY <1>8, NothingMoves, AbstractStutter DEF ScanSkip
  <1>9. CASE ScanTake
    BY <1>9, NothingMoves, AbstractStutter DEF ScanTake
  <1>10. CASE ScanEnd \/ BatchEnd
    <2>1. SameContent /\ local_memory' = local_memory
      BY <1>10, NothingMoves DEF ScanEnd, BatchEnd
    <2>2. CASE handle' = handle
      BY <1>10, <2>2, NothingMoves, AbstractStutter DEF ScanEnd, BatchEnd
    <2>3. CASE /\ req.mode # "none"
               /\ handle' = [page |-> req.page, frame |-> frame, mode |-> req.mode]
      <3>1. /\ req.page \in Page /\ req.mode \in {"read", "write"}
            /\ req.page \in valid /\ frame_number[req.page] = frame
        BY <1>10, <2>3 DEF IInv, TypeOK, CallState, ScanEnd, BatchEnd
      <3>2. local_memory'[frame] = Content(req.page)
        BY <2>1, <3>1 DEF Content
      <3>3. QED
        BY <2>1, <2>3, <3>1, <3>2, AbstractReturn
    <2>4. QED
      BY <1>10, <2>2, <2>3 DEF ScanEnd, BatchEnd, PrefetchDone
  <1>11. CASE BatchFetch
    BY <1>11, NothingMoves, AbstractStutter DEF BatchFetch
  <1>12. CASE BatchFail
    BY <1>12, NothingMoves, AbstractStutter DEF BatchFail
  <1>13. CASE BatchInstall
    <2> DEFINE e == batch[1]
    <2>1. /\ Head(batch) = e /\ e.page \in Page /\ e.frame \in Frame
          /\ e.data \in Value /\ e.page \notin valid /\ e.frame \notin occupied
          /\ e.page \notin Shared => e.data = store[e.page]
      BY <1>13, BatchHead, InstallHead DEF BatchInstall
    <2>2. /\ local_memory' = [local_memory EXCEPT ![e.frame] = e.data]
          /\ frame_number' = [frame_number EXCEPT ![e.page] = e.frame]
          /\ valid' = valid \cup {e.page} /\ store' = store /\ handle' = handle
      BY <1>13, <2>1 DEF BatchInstall
    <2> HIDE DEF e
    <2>3. \A p \in Page : Content(p)' = IF p = e.page THEN e.data ELSE Content(p)
      BY <2>1, <2>2 DEF Content, IInv, TypeOK, TablesAgree
    <2>4. /\ handle.mode # "none" => handle.page # e.page /\ handle.frame \in occupied
      BY <2>1 DEF IInv, TablesAgree, PointerStable
    <2>5. View' = View
      BY <2>1, <2>2, <2>4 DEF View, IInv, TypeOK
    <2>6. CASE e.page \in Shared
      BY <2>1, <2>3, <2>4, <2>5, <2>6, AbstractOthersWrite
    <2>7. CASE e.page \notin Shared
      <3>1. SameContent
        BY <2>1, <2>3, <2>7 DEF SameContent, Content
      <3>2. QED
        BY <2>5, <3>1, AbstractStutter
    <2>8. QED
      BY <2>6, <2>7
  <1>14. CASE BatchPutBack
    BY <1>14, NothingMoves, AbstractStutter DEF BatchPutBack
  <1>15. QED
    BY <1>1, <1>2, <1>3, <1>4, <1>5, <1>6, <1>7, <1>8, <1>9, <1>10, <1>11,
       <1>12, <1>13, <1>14 DEF Step

\* Steps are steps of a call in progress.
LEMMA StepOfCall ==
    ASSUME Step
    PROVE  pc \notin {"idle", "closed"}
  BY DEF Step, ClockPass, EvictClean, EvictWriteback, WritebackFail, WritebackKilled,
         AtVictim, FetchRemote, FetchInMemory, FetchFail, ScanSkip, ScanTake, Scanning,
         ScanEnd, BatchFetch, BatchFail, BatchInstall, BatchPutBack, BatchEnd

\* So is every call, store, hint and step of the environment, which need not
\* wait for the socket.
LEMMA NextRefines ==
    ASSUME IInv, Connected \/ pc \in {"idle", "closed"}, [Next]_vars
    PROVE  [Abstract!Next]_(Abstract!vars)
  <1> USE DEF tables, memory, stats, locals
  <1>1. CASE Step
    <2>1. pc \notin {"idle", "closed"}
      BY <1>1, StepOfCall
    <2>2. QED
      BY <1>1, <2>1, StepRefines DEF Known
  <1>2. ASSUME NEW p \in Page, NEW mode \in {"read", "write"}, AccessHit(p, mode)
        PROVE  [Abstract!Next]_(Abstract!vars)
    <2>1. /\ handle' = [page |-> p, frame |-> frame_number[p], mode |-> mode]
          /\ local_memory'[frame_number[p]] = Content(p)
          /\ SameContent
      BY <1>2, NothingMoves DEF AccessHit, Content
    <2>2. QED
      BY <2>1, AbstractReturn
  <1>3. ASSUME NEW p \in Page, NEW mode \in {"read", "write"}, AccessMiss(p, mode)
        PROVE  [Abstract!Next]_(Abstract!vars)
    BY <1>3, NothingMoves, AbstractRelease DEF AccessMiss
  <1>4. CASE \E start \in Id, count \in HintCounts : PrefetchCall(start, count)
    BY <1>4, NothingMoves, AbstractStutter DEF PrefetchCall
  <1>5. ASSUME NEW v \in Value, UserWrite(v)
        PROVE  [Abstract!Next]_(Abstract!vars)
    <2>1. /\ handle.mode = "write" /\ handle.page \in Page /\ handle' = handle
          /\ handle.page \in valid /\ frame_number[handle.page] = handle.frame
          /\ handle.frame \in Frame
      BY <1>5 DEF UserWrite, IInv, TypeOK, PointerStable
    <2>2. /\ local_memory' = [local_memory EXCEPT ![handle.frame] = v]
          /\ valid' = valid /\ frame_number' = frame_number /\ store' = store
      BY <1>5 DEF UserWrite
    <2>3. local_memory'[handle.frame] = v
      BY <2>1, <2>2 DEF IInv, TypeOK
    <2>4. \A q \in Page : Content(q)' = IF q = handle.page THEN v ELSE Content(q)
      BY <2>1, <2>2, <2>3 DEF Content, IInv, TypeOK, TablesAgree
    <2>5. QED
      BY <2>1, <2>3, <2>4, AbstractWrite
  <1>6. CASE SetSocket
    BY <1>6, NothingMoves, AbstractStutter DEF SetSocket
  <1>7. CASE BenchmarkLocations
    BY <1>7, NothingMoves, AbstractStutter DEF BenchmarkLocations
  <1>8. ASSUME NEW p \in Shared, NEW v \in Value, OtherPut(p, v)
        PROVE  [Abstract!Next]_(Abstract!vars)
    <2>1. /\ store' = [store EXCEPT ![p] = v] /\ p \in Page
          /\ valid' = valid /\ frame_number' = frame_number
          /\ local_memory' = local_memory /\ handle' = handle /\ View' = View
      BY <1>8, Constants DEF OtherPut, View
    <2>2. CASE p \in valid
      <3>1. SameContent
        BY <2>1, <2>2 DEF SameContent, Content, IInv, TypeOK
      <3>2. QED
        BY <2>1, <3>1, AbstractStutter
    <2>3. CASE p \notin valid
      <3>1. handle.mode = "none" \/ handle.page # p
        BY <2>3 DEF IInv, PointerStable
      <3>2. \A q \in Page : Content(q)' = IF q = p THEN v ELSE Content(q)
        BY <2>1, <2>3 DEF Content, IInv, TypeOK
      <3>3. QED
        BY <2>1, <3>1, <3>2, AbstractOthersWrite
    <2>4. QED
      BY <2>2, <2>3
  <1>9. CASE Destroy
    BY <1>9, NothingMoves, AbstractRelease DEF Destroy
  <1>10. CASE UNCHANGED vars
    BY <1>10, NothingMoves, AbstractStutter DEF vars
  <1>11. QED
    BY <1>1, <1>2, <1>3, <1>4, <1>5, <1>6, <1>7, <1>8, <1>9, <1>10 DEF Next, Closed

-----------------------------------------------------------------------------
(* The theorem *)

\* Right after dsm_create_context the memory is what the server holds.
LEMMA InitRefines == CreateContext => Abstract!Init
  <1> SUFFICES ASSUME CreateContext PROVE Abstract!Init
    OBVIOUS
  <1>1. \A p \in Page : Content(p) \in Value
    BY DEF CreateContext, Content
  <1>2. View = Abstract!NoView
    BY DEF CreateContext, NoHandle, View, Abstract!NoView
  <1>3. QED
    BY <1>1, <1>2 DEF Abstract!Init

\* A client that connects first (the client binary, the Python Context) has
\* the memory README.md describes, whatever dsm_paging.c evicts, writes back,
\* prefetches or fails to fetch: its own pages change only by its own stores,
\* every pointer it gets shows the page's content, and only a page written by
\* others may change under it, and then only while it holds no pointer to it.
THEOREM PagerImplementsMemory == ConnectedSpec => Refines
  <1>1. ConnectedInit => Known
    BY CreateContextEstablishes, ConnectedInitially DEF ConnectedInit, Known
  <1>2. Known /\ [Next]_vars => Known'
    BY NextKeeps, ConnectedKeeps DEF Known
  <1>3. Known /\ [Next]_vars => [Abstract!Next]_(Abstract!vars)
    BY NextRefines DEF Known
  <1>4. ConnectedInit => Abstract!Init
    BY InitRefines DEF ConnectedInit
  <1>5. QED
    BY <1>1, <1>2, <1>3, <1>4, PTL DEF ConnectedSpec, Refines, Abstract!Spec

-----------------------------------------------------------------------------
(* The statistics balance *)

\* A counter that wraps stays where it was, counted modulo its space.
LEMMA ModNext ==
    ASSUME NEW n \in Nat \ {0}, NEW a \in 0 .. n - 1
    PROVE  (a + 1) % n = IF a + 1 = n THEN 0 ELSE a + 1
  BY SMT

LEMMA ModUnique ==
    ASSUME NEW n \in Nat \ {0}, NEW r \in 0 .. n - 1, NEW s \in 0 .. n - 1, NEW m \in Int,
           r = s + m * n
    PROVE  r = s
  <1>1. CASE m >= 1
    BY <1>1, SMT
  <1>2. CASE m <= -1
    BY <1>2, SMT
  <1>3. CASE m = 0
    BY <1>3
  <1>4. QED
    BY <1>1, <1>2, <1>3

LEMMA ModDivision ==
    ASSUME NEW n \in Nat \ {0}, NEW a \in Int
    PROVE  a % n \in 0 .. n - 1 /\ \E q \in Int : a = q * n + (a % n)
  <1>1. a % n \in 0 .. n - 1
    BY SMT
  <1>2. a \div n \in Int /\ a = (a \div n) * n + (a % n)
    BY SMT
  <1>3. QED
    BY <1>1, <1>2

LEMMA ModShift ==
    ASSUME NEW n \in Nat \ {0}, NEW a \in Int, NEW b \in Int, NEW k \in Int, a = b + k * n
    PROVE  a % n = b % n
  <1>1. PICK q \in Int, r \in 0 .. n - 1 : r = a % n /\ a = q * n + r
    BY ModDivision
  <1>2. PICK p \in Int, s \in 0 .. n - 1 : s = b % n /\ b = p * n + s
    BY ModDivision
  <1>3. r = s + (p + k - q) * n
    <2>1. a = q * n + r /\ b = p * n + s
      BY <1>1, <1>2
    <2>2. QED
      BY <2>1
  <1>4. p + k - q \in Int
    OBVIOUS
  <1>5. r = s
    BY <1>3, <1>4, ModUnique
  <1>6. QED
    BY <1>1, <1>2, <1>5

\* What the counters say, up to the times they wrapped.
Balanced ==
    \E k \in Int : remote_fetches - evictions = Cardinality(occupied) + k * CounterSpace

LEMMA FramesFinite ==
    ASSUME TypeOK
    PROVE  IsFiniteSet(occupied)
  <1>1. 0 \in Int /\ NumPages - 1 \in Int
    BY PagerAssumption
  <1>2. IsFiniteSet(0 .. NumPages - 1)
    BY <1>1, FS_Interval, Zenon
  <1>3. occupied \in SUBSET (0 .. NumPages - 1)
    BY DEF TypeOK, Frame
  <1>4. QED
    BY <1>2, <1>3, FS_Subset, Zenon

\* A counted fetch fills a frame.
LEMMA Paid ==
    ASSUME TypeOK, Balanced, NEW f \in Frame \ occupied, occupied' = occupied \cup {f},
           remote_fetches' = Bump(remote_fetches, 1), evictions' = evictions
    PROVE  Balanced'
  <1>1. IsFiniteSet(occupied)
    BY FramesFinite
  <1>2. Cardinality(occupied) \in Nat /\ Cardinality(occupied') = Cardinality(occupied) + 1
    BY <1>1, FS_CardinalityType, FS_AddElement
  <1>3. PICK k \in Int : remote_fetches - evictions = Cardinality(occupied) + k * CounterSpace
    BY DEF Balanced
  <1>4. /\ remote_fetches \in 0 .. CounterSpace - 1 /\ evictions \in 0 .. CounterSpace - 1
        /\ CounterSpace \in Nat \ {0}
    BY PagerAssumption DEF TypeOK
  <1>5. PICK n \in Nat : n = Cardinality(occupied)
    BY <1>2
  <1>6. CASE remote_fetches + 1 = CounterSpace
    <2>1. remote_fetches' = remote_fetches + 1 - CounterSpace
      BY <1>4, <1>6, ModNext DEF Bump
    <2>2. remote_fetches' - evictions = (n + 1) + (k - 1) * CounterSpace /\ k - 1 \in Int
      BY <1>3, <1>4, <1>5, <2>1
    <2>3. QED
      BY <1>2, <1>5, <2>2 DEF Balanced
  <1>7. CASE remote_fetches + 1 # CounterSpace
    <2>1. remote_fetches' = remote_fetches + 1
      BY <1>4, <1>7, ModNext DEF Bump
    <2>2. remote_fetches' - evictions = (n + 1) + k * CounterSpace
      BY <1>3, <1>4, <1>5, <2>1
    <2>3. QED
      BY <1>2, <1>5, <2>2 DEF Balanced
  <1>8. QED
    BY <1>6, <1>7

\* A counted eviction frees one.
LEMMA GivenBack ==
    ASSUME TypeOK, Balanced, NEW f \in occupied, occupied' = occupied \ {f},
           evictions' = Bump(evictions, 1), remote_fetches' = remote_fetches
    PROVE  Balanced'
  <1>1. IsFiniteSet(occupied)
    BY FramesFinite
  <1>2. Cardinality(occupied) \in Nat /\ Cardinality(occupied') = Cardinality(occupied) - 1
    BY <1>1, FS_CardinalityType, FS_RemoveElement
  <1>3. PICK k \in Int : remote_fetches - evictions = Cardinality(occupied) + k * CounterSpace
    BY DEF Balanced
  <1>4. /\ remote_fetches \in 0 .. CounterSpace - 1 /\ evictions \in 0 .. CounterSpace - 1
        /\ CounterSpace \in Nat \ {0}
    BY PagerAssumption DEF TypeOK
  <1>5. PICK n \in Nat : n = Cardinality(occupied)
    BY <1>2
  <1>6. CASE evictions + 1 = CounterSpace
    <2>1. evictions' = evictions + 1 - CounterSpace
      BY <1>4, <1>6, ModNext DEF Bump
    <2>2. remote_fetches - evictions' = (n - 1) + (k + 1) * CounterSpace /\ k + 1 \in Int
      BY <1>3, <1>4, <1>5, <2>1
    <2>3. QED
      BY <1>2, <1>5, <2>2 DEF Balanced
  <1>7. CASE evictions + 1 # CounterSpace
    <2>1. evictions' = evictions + 1
      BY <1>4, <1>7, ModNext DEF Bump
    <2>2. remote_fetches - evictions' = (n - 1) + k * CounterSpace
      BY <1>3, <1>4, <1>5, <2>1
    <2>3. QED
      BY <1>2, <1>5, <2>2 DEF Balanced
  <1>8. QED
    BY <1>6, <1>7

\* Fetches and evictions are counted where a frame is filled or freed, and
\* nowhere else: no error path counts one without the other.
LEMMA BalanceKept ==
    ASSUME Known, Balanced, [Next]_vars
    PROVE  Balanced'
  <1>1. TypeOK /\ FramePartition /\ sock # "none"
    BY DEF Known, IInv, Connected
  <1>2. CASE UNCHANGED <<occupied, remote_fetches, evictions>>
    BY <1>2 DEF Balanced
  <1>3. CASE EvictClean \/ EvictWriteback
    <2>1. /\ clock_hand \in occupied /\ occupied' = occupied \ {clock_hand}
          /\ evictions' = Bump(evictions, 1) /\ remote_fetches' = remote_fetches
      BY <1>3 DEF EvictClean, EvictWriteback, AtVictim, Evict
    <2>2. QED
      BY <1>1, <2>1, GivenBack
  <1>4. CASE FetchRemote
    <2>1. /\ frame \in Frame \ occupied /\ occupied' = occupied \cup {frame}
          /\ remote_fetches' = Bump(remote_fetches, 1) /\ evictions' = evictions
      BY <1>1, <1>4 DEF FetchRemote, Install, FramePartition, TypeOK
    <2>2. QED
      BY <1>1, <2>1, Paid
  <1>5. CASE BatchInstall
    <2> DEFINE f == Head(batch).frame
    <2>1. f \in Frame \ occupied
      <3>1. /\ Head(batch) = batch[1] /\ 1 \in 1 .. Len(batch)
            /\ batch[1] \in [page : Page, frame : Frame, data : Value]
        <4> DEFINE E == [page : Page, frame : Frame, data : Value]
        <4>1. batch \in Seq(E) /\ batch # <<>>
          BY <1>1, <1>5 DEF BatchInstall, TypeOK
        <4> HIDE DEF E
        <4>2. Len(batch) \in Nat \ {0} /\ Head(batch) = batch[1] /\ batch[1] \in E
          BY <4>1, TailProperties
        <4>3. 1 \in 1 .. Len(batch)
          BY <4>2
        <4>4. QED
          BY <4>2, <4>3, Zenon DEF E
      <3>2. QED
        BY <1>1, <3>1 DEF FramePartition
    <2>2. /\ occupied' = occupied \cup {f}
          /\ remote_fetches' = Bump(remote_fetches, 1) /\ evictions' = evictions
      BY <1>5 DEF BatchInstall
    <2>3. QED
      BY <1>1, <2>1, <2>2, Paid
  <1>6. CASE FetchInMemory
    BY <1>1, <1>6 DEF FetchInMemory
  <1>7. CASE Step
    BY <1>2, <1>3, <1>4, <1>5, <1>6, <1>7 DEF Step, ClockPass, WritebackFail, WritebackKilled,
       FetchFail, ScanSkip, ScanTake, ScanEnd, BatchFetch, BatchFail, BatchPutBack, BatchEnd,
       tables, stats
  <1>8. QED
    BY <1>2, <1>7 DEF Next, AccessHit, AccessMiss, PrefetchCall, UserWrite, SetSocket,
       BenchmarkLocations, OtherPut, Destroy, Closed, vars, tables, stats

\* dsm_context_get_stats of a client that had its socket from the start adds
\* up: fetches minus evictions, in uint64_t arithmetic, is the number of
\* frames in use, after any number of failed fetches, failed writebacks and
\* failed batches and although both counters wrap.
THEOREM StatsBalanced == ConnectedSpec => []StatsBalance
  <1>1. ConnectedInit => Known /\ Balanced
    <2>1. ConnectedInit => Known
      BY CreateContextEstablishes, ConnectedInitially DEF ConnectedInit, Known
    <2>2. ConnectedInit => Balanced
      <3> SUFFICES ASSUME ConnectedInit PROVE Balanced
        OBVIOUS
      <3>1. Cardinality(occupied) = 0 /\ remote_fetches = 0 /\ evictions = 0
        BY FS_EmptySet DEF ConnectedInit, CreateContext
      <3>2. 0 - 0 = 0 + 0 * CounterSpace
        BY PagerAssumption
      <3>3. QED
        BY <3>1, <3>2 DEF Balanced
    <2>3. QED
      BY <2>1, <2>2
  <1>2. Known /\ Balanced /\ [Next]_vars => (Known /\ Balanced)'
    BY NextKeeps, ConnectedKeeps, BalanceKept DEF Known
  <1>3. Known /\ Balanced => StatsBalance
    <2> SUFFICES ASSUME Known, Balanced PROVE StatsBalance
      OBVIOUS
    <2>1. PICK k \in Int :
              remote_fetches - evictions = Cardinality(occupied) + k * CounterSpace
      BY DEF Balanced
    <2>2. remote_fetches - evictions \in Int /\ CounterSpace \in Nat \ {0}
      BY PagerAssumption DEF Known, IInv, TypeOK
    <2>3. Cardinality(occupied) \in Int
      <3>1. IsFiniteSet(occupied)
        BY FramesFinite DEF Known, IInv
      <3>2. Cardinality(occupied) \in Nat
        BY <3>1, FS_CardinalityType
      <3>3. QED
        BY <3>2
    <2>4. QED
      BY <2>1, <2>2, <2>3, ModShift DEF StatsBalance
  <1>4. QED
    BY <1>1, <1>2, <1>3, PTL DEF ConnectedSpec
=============================================================================
