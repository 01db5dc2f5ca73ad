-------------------------- MODULE PagerAccessProofs -------------------------
(***************************************************************************)
(* Proofs about Pager, first part: arithmetic and sequences, the initial   *)
(* states, and the steps of an access keep the inductive invariant.        *)
(***************************************************************************)
EXTENDS Pager, TLAPS, SequenceTheorems

\* Ids and counters wrap into their range.
LEMMA ModRange ==
    ASSUME NEW a \in Nat, NEW b \in Nat \ {0}
    PROVE  a % b \in 0 .. b - 1
  BY SMT

\* An id below the size of its space does not wrap.
LEMMA ModSmall ==
    ASSUME NEW a \in Nat, NEW b \in Nat, a < b
    PROVE  a % b = a
  BY SMT

\* get_free_frame on a non-empty list: the top entry leaves, the rest stays.
LEMMA PopProperties ==
    ASSUME NEW S, NEW s \in Seq(S), s # <<>>
    PROVE  /\ Len(s) \in Nat \ {0}
           /\ s[Len(s)] \in S
           /\ SubSeq(s, 1, Len(s) - 1) \in Seq(S)
           /\ Len(SubSeq(s, 1, Len(s) - 1)) = Len(s) - 1
           /\ \A i \in 1 .. Len(s) - 1 : SubSeq(s, 1, Len(s) - 1)[i] = s[i]
  <1>1. Len(s) \in Nat \ {0}
    BY EmptySeq, LenProperties
  <1>2. s[Len(s)] \in S
    BY <1>1, ElementOfSeq
  <1>3. QED
    BY SMTT(30), <1>1, <1>2, SubSeqProperties

\* push_free_frame: one more entry on top.
LEMMA PushProperties ==
    ASSUME NEW S, NEW s \in Seq(S), NEW x \in S
    PROVE  /\ Append(s, x) \in Seq(S)
           /\ Len(s) \in Nat
           /\ Len(Append(s, x)) = Len(s) + 1
           /\ \A i \in 1 .. Len(s) : Append(s, x)[i] = s[i]
           /\ Append(s, x)[Len(s) + 1] = x
  BY AppendProperties, LenProperties

\* Consuming the head of a batch.
LEMMA TailProperties ==
    ASSUME NEW S, NEW s \in Seq(S), s # <<>>
    PROVE  /\ Len(s) \in Nat \ {0}
           /\ Head(s) = s[1]
           /\ s[1] \in S
           /\ Tail(s) \in Seq(S)
           /\ Len(Tail(s)) = Len(s) - 1
           /\ \A i \in 1 .. Len(s) - 1 : Tail(s)[i] = s[i + 1]
  <1>1. Len(s) \in Nat \ {0}
    BY EmptySeq, LenProperties
  <1>2. s[1] \in S
    BY <1>1, ElementOfSeq
  <1>3. QED
    BY <1>1, <1>2, HeadTailProperties

\* The facts about the constants that the steps below need.
LEMMA Constants ==
    /\ 0 \in Page /\ 0 \in Frame
    /\ NoPage \in Id /\ Page \subseteq Id
    /\ Shared \subseteq Page /\ Zero \in Value
    /\ PrefetchCount \in Nat /\ HintCounts \subseteq Nat
  BY PagerAssumption DEF Page, Frame, NoPage, Id

\* Counters, the clock hand and page ids stay in range when they wrap.
LEMMA Wrapping ==
    /\ \A c \in 0 .. CounterSpace - 1 : Bump(c, 1) \in 0 .. CounterSpace - 1
    /\ \A f \in Frame : Advance(f) \in Frame
    /\ \A x \in Id : (x + 1) % IdSpace \in Id
    /\ \A x \in Nat : x < NumVirtualPages => (x + 1) % IdSpace = x + 1
  <1>1. \A c \in 0 .. CounterSpace - 1 : Bump(c, 1) \in 0 .. CounterSpace - 1
    <2> TAKE c \in 0 .. CounterSpace - 1
    <2>1. c + 1 \in Nat /\ CounterSpace \in Nat \ {0}
      BY PagerAssumption
    <2>2. QED
      BY <2>1, ModRange DEF Bump
  <1>2. \A f \in Frame : Advance(f) \in Frame
    <2> TAKE f \in Frame
    <2>1. f + 1 \in Nat /\ NumPages \in Nat \ {0}
      BY PagerAssumption DEF Frame
    <2>2. QED
      BY <2>1, ModRange DEF Advance, Frame
  <1>3. \A x \in Id : (x + 1) % IdSpace \in Id
    <2> TAKE x \in Id
    <2>1. x + 1 \in Nat /\ IdSpace \in Nat \ {0}
      BY PagerAssumption DEF Id
    <2>2. QED
      BY <2>1, ModRange DEF Id
  <1>4. \A x \in Nat : x < NumVirtualPages => (x + 1) % IdSpace = x + 1
    <2> SUFFICES ASSUME NEW x \in Nat, x < NumVirtualPages
                 PROVE  (x + 1) % IdSpace = x + 1
      OBVIOUS
    <2>1. x + 1 \in Nat /\ IdSpace \in Nat /\ x + 1 < IdSpace
      BY PagerAssumption
    <2>2. QED
      BY <2>1, ModSmall
  <1>5. QED
    BY <1>1, <1>2, <1>3, <1>4

-----------------------------------------------------------------------------
(* The initial states *)

\* dsm_create_context establishes the inductive invariant, with a socket
\* or without.
LEMMA CreateContextEstablishes ==
    ASSUME CreateContext, sock \in {"none", "up", "dead"}
    PROVE  IInv
  <1>1. /\ free_list \in Seq(Frame)
        /\ Len(free_list) = NumPages
        /\ \A i \in 1 .. NumPages : free_list[i] = NumPages - i
    <2>1. \A i \in 1 .. NumPages : NumPages - i \in Frame
      BY PagerAssumption DEF Frame
    <2>2. free_list \in [1 .. NumPages -> Frame]
      BY <2>1 DEF CreateContext
    <2>3. free_list \in Seq(Frame) /\ Len(free_list) = NumPages
      BY <2>2, PagerAssumption
    <2>4. QED
      BY ZenonT(30), <2>3 DEF CreateContext
  <1>2. batch = <<>> /\ Len(batch) = 0
    BY EmptySeq DEF CreateContext
  <1>3. TypeOK
    BY <1>1, <1>2, EmptySeq, Constants, PagerAssumption
    DEF CreateContext, TypeOK, NoReq, NoScan, NoHandle, Id
  <1>4. FramePartition
    <2>1. \A f \in Frame : \E j \in 1 .. Len(free_list) : free_list[j] = f
      <3> TAKE f \in Frame
      <3>1. NumPages - f \in 1 .. NumPages /\ NumPages - (NumPages - f) = f
        BY PagerAssumption DEF Frame
      <3>2. QED
        BY <3>1, <1>1
    <2>2. QED
      BY <1>1, <1>2, <2>1, PagerAssumption DEF CreateContext, FramePartition
  <1>5. TablesAgree /\ CleanMatchesStore /\ PointerStable
    BY DEF CreateContext, TablesAgree, CleanMatchesStore, PointerStable, NoHandle
  <1>6. CallState
    BY DEF CreateContext, CallState, NoReq
  <1>7. BatchState
    BY <1>2 DEF BatchState
  <1>8. QED
    BY <1>3, <1>4, <1>5, <1>6, <1>7 DEF IInv

-----------------------------------------------------------------------------
(* Steps of dsm_access_page and evict_page *)

\* The partition depends on the free list, the occupied frames, the batch and
\* the frame a fetch holds; a step that leaves these alone keeps it.
LEMMA PartitionUntouched ==
    ASSUME FramePartition, free_list' = free_list, occupied' = occupied,
           batch' = batch,
           pc = "fetch" <=> pc' = "fetch",
           pc = "fetch" => frame' = frame
    PROVE  FramePartition'
  <1>1. CASE pc = "fetch"
    BY <1>1 DEF FramePartition
  <1>2. CASE pc # "fetch"
    BY <1>2 DEF FramePartition
  <1>3. QED
    BY <1>1, <1>2

\* Nothing is claimed of an empty batch.
LEMMA EmptyBatch ==
    ASSUME batch' = <<>>
    PROVE  BatchState'
  <1>1. \A i \in 1 .. Len(batch') : FALSE
    OBVIOUS
  <1>2. QED
    BY ZenonT(30), <1>1 DEF BatchState

\* A hit of dsm_access_page changes flags of a cached page only.
LEMMA AccessHitKeeps ==
    ASSUME IInv, NEW p \in Page, NEW mode \in {"read", "write"},
           AccessHit(p, mode)
    PROVE  IInv'
  <1> USE DEF memory, locals
  <1>1. TypeOK'
    BY SMTT(30), Wrapping DEF IInv, TypeOK, AccessHit
  <1>2. FramePartition'
    BY DEF IInv, FramePartition, AccessHit
  <1>3. TablesAgree'
    BY DEF IInv, TablesAgree, AccessHit
  <1>4. CleanMatchesStore'
    BY DEF IInv, CleanMatchesStore, AccessHit
  <1>5. PointerStable'
    BY DEF IInv, TypeOK, PointerStable, AccessHit
  <1>6. CallState'
    BY DEF IInv, CallState, AccessHit
  <1>7. BatchState'
    BY DEF IInv, BatchState, AccessHit
  <1>8. QED
    BY <1>1, <1>2, <1>3, <1>4, <1>5, <1>6, <1>7 DEF IInv

\* A miss takes the top of the free list, or finds it empty and every
\* frame occupied.
LEMMA AccessMissKeeps ==
    ASSUME IInv, NEW p \in Page, NEW mode \in {"read", "write"},
           AccessMiss(p, mode)
    PROVE  IInv'
  <1> USE DEF tables, memory, stats
  <1>1. batch = <<>> /\ Len(batch) = 0 /\ batch' = batch
    BY EmptySeq DEF IInv, CallState, AccessMiss
  <1>2. free_list \in Seq(Frame)
    BY DEF IInv, TypeOK
  <1>3. TablesAgree' /\ CleanMatchesStore' /\ PointerStable'
    BY DEF IInv, TablesAgree, CleanMatchesStore, PointerStable, AccessMiss,
           NoHandle
  <1>4. CallState'
    BY <1>1 DEF IInv, CallState, AccessMiss, NoHandle
  <1>5. BatchState'
    BY <1>1, EmptyBatch
  <1>6. TypeOK' /\ FramePartition'
    <2>1. CASE free_list # <<>>
      <3>1. /\ Len(free_list) \in Nat \ {0}
            /\ frame' = free_list[Len(free_list)]
            /\ frame' \in Frame
            /\ free_list' \in Seq(Frame)
            /\ Len(free_list') = Len(free_list) - 1
            /\ \A i \in 1 .. Len(free_list) - 1 : free_list'[i] = free_list[i]
            /\ pc' = "fetch"
        BY <1>2, <2>1, PopProperties DEF AccessMiss, PopFrame
      <3>2. TypeOK'
        BY <3>1, Constants DEF IInv, TypeOK, AccessMiss, NoHandle
      <3>3. FramePartition'
        <4>1. ASSUME NEW f \in Frame, f \notin occupied, f # frame'
              PROVE  \E j \in 1 .. Len(free_list') : free_list'[j] = f
          <5>1. PICK j \in 1 .. Len(free_list) : free_list[j] = f
            BY <4>1, <1>1 DEF IInv, FramePartition, AccessMiss
          <5>2. j \in 1 .. Len(free_list')
            BY <5>1, <4>1, <3>1
          <5>3. QED
            BY <5>1, <5>2, <3>1
        <4>2. occupied' = occupied
          BY DEF AccessMiss
        <4>3. /\ \A i, j \in 1 .. Len(free_list') :
                     free_list'[i] = free_list'[j] => i = j
              /\ \A i \in 1 .. Len(free_list') : free_list'[i] \notin occupied'
          BY <3>1, <4>2 DEF IInv, FramePartition
        <4>4. /\ frame' \notin occupied'
              /\ \A j \in 1 .. Len(free_list') : frame' # free_list'[j]
          BY <3>1, <4>2 DEF IInv, FramePartition
        <4>5. QED
          BY <1>1, <3>1, <4>1, <4>2, <4>3, <4>4 DEF FramePartition
      <3>4. QED
        BY <3>2, <3>3
    <2>2. CASE free_list = <<>>
      <3>1. TypeOK'
        BY SMTT(30), <2>2, Constants DEF IInv, TypeOK, AccessMiss, NoHandle
      <3>2. FramePartition'
        <4>1. pc = "idle" /\ pc' = "evict" /\ UNCHANGED <<free_list, occupied, batch>>
          BY <2>2 DEF AccessMiss
        <4> QED
          BY <4>1, PartitionUntouched DEF IInv
      <3>3. QED
        BY <3>1, <3>2
    <2>3. QED
      BY <2>1, <2>2
  <1>7. QED
    BY <1>3, <1>4, <1>5, <1>6 DEF IInv

\* The clock hand passing a frame only clears a reference bit.
LEMMA ClockPassKeeps ==
    ASSUME IInv, ClockPass
    PROVE  IInv'
  <1> USE DEF memory, stats, locals
  <1>1. TypeOK'
    BY SMTT(30), Wrapping DEF IInv, TypeOK, ClockPass
  <1>2. FramePartition' /\ TablesAgree' /\ CleanMatchesStore'
    BY DEF IInv, FramePartition, TablesAgree, CleanMatchesStore, ClockPass
  <1>3. PointerStable' /\ CallState' /\ BatchState'
    BY DEF IInv, PointerStable, CallState, BatchState, ClockPass
  <1>4. QED
    BY <1>1, <1>2, <1>3 DEF IInv

\* What evict_page's removal of the victim does to everything but the store:
\* shared by the eviction of a clean page and the one after a writeback.
LEMMA EvictKeeps ==
    ASSUME IInv, AtVictim, Evict, sock' = sock,
           store' \in [Page -> Value],
           \A p \in Page : p # HandPage => store'[p] = store[p]
    PROVE  IInv'
  <1>1. /\ batch = <<>> /\ batch' = <<>> /\ Len(batch) = 0 /\ Len(batch') = 0
        /\ free_list = <<>> /\ free_list' = <<>>
        /\ Len(free_list) = 0 /\ Len(free_list') = 0
        /\ handle.mode = "none" /\ handle' = handle
    BY EmptySeq DEF IInv, CallState, AtVictim, Evict
  <1>2. /\ clock_hand \in occupied /\ HandPage \in valid
        /\ frame_number[HandPage] = clock_hand
    BY DEF IInv, TablesAgree, AtVictim, HandPage
  <1>3. TypeOK'
    BY ZenonT(30), Wrapping DEF IInv, TypeOK, Evict
  <1>4. FramePartition'
    BY <1>1, <1>2 DEF IInv, TypeOK, FramePartition, AtVictim, Evict
  <1>5. TablesAgree'
    BY <1>2 DEF IInv, TypeOK, TablesAgree, Evict
  <1>6. CleanMatchesStore'
    BY <1>2 DEF IInv, TypeOK, TablesAgree, CleanMatchesStore, Evict
  <1>7. PointerStable'
    BY <1>1 DEF PointerStable
  <1>8. CallState'
    BY <1>1 DEF IInv, CallState, AtVictim, Evict
  <1>9. BatchState'
    BY <1>1, EmptyBatch
  <1>10. QED
    BY <1>3, <1>4, <1>5, <1>6, <1>7, <1>8, <1>9 DEF IInv

\* Dropping a victim that needs no writeback.
LEMMA EvictCleanKeeps ==
    ASSUME IInv, EvictClean
    PROVE  IInv'
  <1>1. /\ AtVictim /\ Evict /\ sock' = sock
        /\ store' \in [Page -> Value]
        /\ \A p \in Page : p # HandPage => store'[p] = store[p]
    BY DEF IInv, TypeOK, EvictClean
  <1>2. QED
    BY <1>1, EvictKeeps

\* Dropping a victim after dsm_rpc_put stored it.
LEMMA EvictWritebackKeeps ==
    ASSUME IInv, EvictWriteback
    PROVE  IInv'
  <1>1. HandPage \in Page /\ local_memory[clock_hand] \in Value
    BY DEF IInv, TypeOK, HandPage
  <1>2. /\ AtVictim /\ Evict /\ sock' = sock
        /\ store' \in [Page -> Value]
        /\ \A p \in Page : p # HandPage => store'[p] = store[p]
    BY <1>1 DEF IInv, TypeOK, EvictWriteback
  <1>3. QED
    BY <1>2, EvictKeeps

\* A failed dsm_rpc_put leaves the victim cached and dirty.
LEMMA WritebackFailKeeps ==
    ASSUME IInv, WritebackFail
    PROVE  IInv'
  <1> USE DEF tables, stats
  <1>1. /\ batch' = <<>> /\ batch = <<>> /\ Len(batch) = 0 /\ Len(batch') = 0
        /\ pc = "evict" /\ pc' = "idle"
    BY EmptySeq DEF IInv, CallState, WritebackFail, AtVictim, Return
  <1>2. /\ HandPage \in dirty
        /\ HandPage \in Page
        /\ local_memory[clock_hand] \in Value
        /\ store' \in [Page -> Value]
        /\ \A p \in Page : p # HandPage => store'[p] = store[p]
    BY DEF IInv, TypeOK, WritebackFail, NeedsWriteback, HandPage
  <1>3. TypeOK'
    BY SMTT(30), <1>1, <1>2, EmptySeq, Constants
    DEF IInv, TypeOK, WritebackFail, Return, NoReq, NoScan
  <1>4. FramePartition' /\ TablesAgree' /\ PointerStable'
    <2>1. UNCHANGED <<frame_number, valid, dirty, page_number, occupied, free_list, handle>>
      BY DEF WritebackFail
    <2>2. FramePartition'
      BY <1>1, <2>1, PartitionUntouched DEF IInv
    <2>3. TablesAgree' /\ PointerStable'
      BY <2>1 DEF IInv, TablesAgree, PointerStable
    <2> QED
      BY <2>2, <2>3
  <1>5. CleanMatchesStore'
    BY <1>2 DEF IInv, TypeOK, CleanMatchesStore, WritebackFail
  <1>6. CallState'
    BY <1>1 DEF CallState, WritebackFail, Return, NoReq
  <1>7. BatchState'
    BY <1>1, EmptyBatch
  <1>8. QED
    BY <1>3, <1>4, <1>5, <1>6, <1>7 DEF IInv

\* A process that ends inside a writeback leaves the tables as they were.
LEMMA WritebackKilledKeeps ==
    ASSUME IInv, WritebackKilled
    PROVE  IInv'
  <1> USE DEF tables, memory, stats
  <1>1. /\ batch = <<>> /\ batch' = <<>> /\ Len(batch) = 0 /\ Len(batch') = 0
        /\ pc = "evict" /\ pc' = "closed"
    BY EmptySeq DEF IInv, CallState, WritebackKilled, AtVictim
  <1>2. TypeOK'
    BY SMTT(30), <1>1, EmptySeq, Constants
    DEF IInv, TypeOK, WritebackKilled, NoReq, NoScan
  <1>3. FramePartition' /\ TablesAgree' /\ PointerStable' /\ CleanMatchesStore'
    <2>1. UNCHANGED <<frame_number, valid, dirty, remote, page_number, occupied, free_list,
                      handle, local_memory, store>>
      BY DEF WritebackKilled
    <2>2. FramePartition'
      BY <1>1, <2>1, PartitionUntouched DEF IInv
    <2>3. TablesAgree' /\ PointerStable' /\ CleanMatchesStore'
      BY <2>1 DEF IInv, TablesAgree, PointerStable, CleanMatchesStore
    <2> QED
      BY <2>2, <2>3
  <1>4. CallState'
    BY <1>1 DEF CallState, WritebackKilled, NoReq
  <1>5. BatchState'
    BY <1>1, EmptyBatch
  <1>6. QED
    BY <1>2, <1>3, <1>4, <1>5 DEF IInv

-----------------------------------------------------------------------------
(* Steps of dsm_access_page_slow after it has a frame *)

\* The tables after a fetch, whatever the frame was filled with.
LEMMA InstallKeeps ==
    ASSUME IInv, pc = "fetch", NEW loc, Install(loc),
           local_memory' \in [Frame -> Value],
           \A f \in Frame : f # frame => local_memory'[f] = local_memory[f],
           loc = "remote" => local_memory'[frame] = store[req.page],
           remote_fetches' \in 0 .. CounterSpace - 1
    PROVE  IInv'
  <1>1. /\ batch = <<>> /\ batch' = <<>> /\ Len(batch) = 0 /\ Len(batch') = 0
        /\ pc' \in {"scan", "idle"}
        /\ req.mode # "none" /\ req.page \notin valid
        /\ handle.mode = "none"
    BY EmptySeq DEF IInv, CallState, Install, Return
  <1>2. /\ frame \in Frame /\ req.page \in Page /\ frame \notin occupied
        /\ req.mode \in {"read", "write"}
    BY SMTT(30), <1>1 DEF IInv, TypeOK, FramePartition
  <1>3. /\ frame_number' = [frame_number EXCEPT ![req.page] = frame]
        /\ valid' = valid \cup {req.page}
        /\ page_number' = [page_number EXCEPT ![frame] = req.page]
        /\ occupied' = occupied \cup {frame}
        /\ free_list' = free_list /\ store' = store
    BY DEF Install
  <1>4. TypeOK'
    <2>1. /\ frame_number' \in [Page -> Frame] /\ valid' \subseteq Page
          /\ page_number' \in [Frame -> Page] /\ occupied' \subseteq Frame
          /\ free_list' \in Seq(Frame) /\ store' \in [Page -> Value]
      BY <1>2, <1>3 DEF IInv, TypeOK
    <2>2. /\ reference_bit' \subseteq Page /\ dirty' \subseteq Page
          /\ remote' \subseteq Page /\ clock_hand' \in Frame
          /\ local_hits' \in 0 .. CounterSpace - 1
          /\ evictions' \in 0 .. CounterSpace - 1
          /\ sock' \in {"none", "up", "dead"}
      <3>1. /\ reference_bit' \subseteq reference_bit \cup {req.page}
            /\ dirty' \subseteq dirty \cup {req.page}
            /\ remote' \subseteq remote \cup {req.page}
            /\ UNCHANGED <<clock_hand, local_hits, evictions, sock>>
        BY DEF Install
      <3>2. QED
        BY <1>2, <3>1 DEF IInv, TypeOK
    <2>3. /\ req' \in [page : Page, mode : {"none", "read", "write"}]
          /\ frame' \in Frame
          /\ last_page_id' \in Id
      <3>1. \/ UNCHANGED <<req, frame, last_page_id>>
            \/ req' = NoReq /\ frame' = 0 /\ last_page_id' = req.page
        BY ZenonT(30) DEF Install, Return
      <3>2. QED
        BY <1>2, <3>1, Constants DEF IInv, TypeOK, NoReq
    <2>4. scan' \in [next : Id, left : Nat]
      <3>1. (req.page + 1) % IdSpace \in Id /\ PrefetchCount \in Nat /\ 0 \in Id
        BY <1>2, Wrapping, Constants
      <3>2. \/ scan' = [next |-> (req.page + 1) % IdSpace, left |-> PrefetchCount]
            \/ scan' = [next |-> 0, left |-> 0]
        BY ZenonT(30) DEF Install, Return, NoScan
      <3>3. QED
        BY <3>1, <3>2
    <2>5. handle' \in [page : Page, frame : Frame, mode : {"none", "read", "write"}]
      <3>1. \/ handle' = handle
            \/ handle' = [page |-> req.page, frame |-> frame, mode |-> req.mode]
        BY ZenonT(30) DEF Install
      <3>2. QED
        BY <1>2, <3>1 DEF IInv, TypeOK
    <2>6. QED
      BY <1>1, <2>1, <2>2, <2>3, <2>4, <2>5, EmptySeq DEF TypeOK
  <1>5. FramePartition'
    <2>1. /\ \A i, j \in 1 .. Len(free_list) : free_list[i] = free_list[j] => i = j
          /\ \A i \in 1 .. Len(free_list) : free_list[i] \notin occupied \cup {frame}
      BY DEF IInv, FramePartition
    <2>2. \A f \in Frame : \/ f \in occupied \cup {frame}
                            \/ \E j \in 1 .. Len(free_list) : free_list[j] = f
      BY <1>1 DEF IInv, FramePartition
    <2>3. (\A i \in 1 .. Len(batch') : FALSE) /\ pc' # "fetch"
      BY <1>1
    <2>4. occupied' = occupied \cup {frame} /\ free_list' = free_list
      BY <1>3
    <2>5. QED
      BY ZenonT(60), <2>1, <2>2, <2>3, <2>4 DEF FramePartition
  <1>6. TablesAgree'
    BY <1>1, <1>2, <1>3 DEF IInv, TypeOK, TablesAgree
  <1>7. CleanMatchesStore'
    <2> SUFFICES ASSUME NEW p \in valid', p \in remote', p \notin dirty',
                        p \notin Shared
                 PROVE  local_memory'[frame_number'[p]] = store'[p]
      BY DEF CleanMatchesStore
    <2>1. CASE p = req.page
      <3>1. loc = "remote"
        BY ZenonT(30), <2>1 DEF Install
      <3>2. frame_number'[p] = frame
        BY <1>2, <1>3, <2>1 DEF IInv, TypeOK
      <3>3. QED
        BY <1>3, <2>1, <3>1, <3>2
    <2>2. CASE p # req.page
      <3>1. p \in valid /\ p \in remote /\ p \notin dirty
        BY ZenonT(30), <1>3, <2>2 DEF Install
      <3>2. frame_number[p] \in occupied /\ frame_number[p] \in Frame
        BY <3>1 DEF IInv, TypeOK, TablesAgree
      <3>3. frame_number'[p] = frame_number[p] /\ frame_number[p] # frame
        BY SMTT(30), <1>2, <1>3, <2>2, <3>1, <3>2 DEF IInv, TypeOK
      <3>4. local_memory[frame_number[p]] = store[p]
        BY <3>1 DEF IInv, CleanMatchesStore
      <3>5. local_memory'[frame_number[p]] = local_memory[frame_number[p]]
        BY <3>2, <3>3
      <3>6. QED
        BY <1>3, <3>3, <3>4, <3>5
    <2>3. QED
      BY <2>1, <2>2
  <1>8. frame_number'[req.page] = frame /\ req.page \in valid'
    BY <1>2, <1>3 DEF IInv, TypeOK
  <1>9. req.mode = "write" => req.page \in dirty'
    BY ZenonT(30) DEF Install
  <1>10. PointerStable' /\ CallState'
    <2>1. CASE pc' = "scan" /\ UNCHANGED <<req, frame, handle>>
      BY <1>1, <1>8, <1>9, <2>1 DEF PointerStable, CallState
    <2>2. CASE /\ pc' = "idle" /\ req' = NoReq
               /\ handle' = [page |-> req.page, frame |-> frame, mode |-> req.mode]
      <3>1. /\ handle'.page = req.page /\ handle'.frame = frame
            /\ handle'.mode = req.mode /\ req'.mode = "none"
        BY <2>2 DEF NoReq
      <3>2. QED
        BY <1>1, <1>8, <1>9, <2>2, <3>1 DEF PointerStable, CallState
    <2>3. QED
      BY ZenonT(30), <2>1, <2>2 DEF Install, Return
  <1>11. BatchState'
    BY <1>1, EmptyBatch
  <1>12. QED
    BY <1>4, <1>5, <1>6, <1>7, <1>10, <1>11 DEF IInv

\* A successful dsm_rpc_get fills the frame in hand and installs the page.
LEMMA FetchRemoteKeeps ==
    ASSUME IInv, FetchRemote
    PROVE  IInv'
  <1>1. /\ local_memory' \in [Frame -> Value]
        /\ \A f \in Frame : f # frame => local_memory'[f] = local_memory[f]
        /\ local_memory'[frame] = store[req.page]
    BY DEF IInv, TypeOK, FetchRemote
  <1>2. remote_fetches' \in 0 .. CounterSpace - 1
    BY Wrapping DEF IInv, TypeOK, FetchRemote
  <1>3. pc = "fetch" /\ Install("remote")
    BY DEF FetchRemote
  <1>4. QED
    BY <1>1, <1>2, <1>3, InstallKeeps

\* Without a socket the frame in hand is installed as it is.
LEMMA FetchInMemoryKeeps ==
    ASSUME IInv, FetchInMemory
    PROVE  IInv'
  <1>1. /\ local_memory' = local_memory
        /\ local_memory' \in [Frame -> Value]
        /\ remote_fetches' \in 0 .. CounterSpace - 1
    BY DEF IInv, TypeOK, FetchInMemory
  <1>2. pc = "fetch" /\ Install("local")
    BY DEF FetchInMemory
  <1>3. QED
    BY <1>1, <1>2, InstallKeeps

\* A failed dsm_rpc_get returns the frame in hand to the free list.
LEMMA FetchFailKeeps ==
    ASSUME IInv, FetchFail
    PROVE  IInv'
  <1> USE DEF tables, stats
  <1>1. /\ batch = <<>> /\ batch' = <<>> /\ Len(batch) = 0 /\ Len(batch') = 0
        /\ pc = "fetch" /\ pc' = "idle"
    BY EmptySeq DEF IInv, CallState, FetchFail, Return
  <1>2. /\ frame \in Frame /\ frame \notin occupied
        /\ \A j \in 1 .. Len(free_list) : frame # free_list[j]
        /\ free_list \in Seq(Frame)
    BY <1>1 DEF IInv, TypeOK, FramePartition
  <1>3. /\ free_list' \in Seq(Frame)
        /\ Len(free_list) \in Nat
        /\ Len(free_list') = Len(free_list) + 1
        /\ \A i \in 1 .. Len(free_list) : free_list'[i] = free_list[i]
        /\ free_list'[Len(free_list) + 1] = frame
    <2>1. free_list' = Append(free_list, frame)
      BY DEF FetchFail
    <2>2. QED
      BY <1>2, <2>1, PushProperties
  <1>4. /\ local_memory' \in [Frame -> Value]
        /\ \A f \in occupied : local_memory'[f] = local_memory[f]
    BY ZenonT(30), <1>2 DEF IInv, TypeOK, FetchFail
  <1>5. TypeOK'
    <2>1. /\ UNCHANGED <<frame_number, valid, reference_bit, dirty, remote, page_number,
                         occupied, clock_hand, last_page_id, store, local_hits,
                         remote_fetches, evictions, handle>>
          /\ sock' = "dead" /\ req' = NoReq /\ frame' = 0 /\ scan' = NoScan
      BY DEF FetchFail, Return
    <2>2. /\ req' \in [page : Page, mode : {"none", "read", "write"}]
          /\ frame' \in Frame /\ scan' \in [next : Id, left : Nat]
      BY <2>1, Constants DEF NoReq, NoScan
    <2>3. batch' \in Seq([page : Page, frame : Frame, data : Value])
      BY <1>1, EmptySeq
    <2>4. QED
      BY <1>1, <1>3, <1>4, <2>1, <2>2, <2>3 DEF IInv, TypeOK
  <1>6. FramePartition'
    <2>1. /\ FramePartition
          /\ occupied' = occupied
          /\ \A i \in 1 .. Len(batch) : FALSE
          /\ \A i \in 1 .. Len(batch') : FALSE
      <3>1. FramePartition /\ occupied' = occupied
        BY DEF IInv, FetchFail
      <3>2. 1 .. Len(batch) = {} /\ 1 .. Len(batch') = {}
        BY <1>1
      <3> QED
        BY <3>1, <3>2
    <2>2. /\ \A i, j \in 1 .. Len(free_list) :
                 free_list[i] = free_list[j] => i = j
          /\ \A i \in 1 .. Len(free_list) : free_list[i] \notin occupied
          /\ \A f \in Frame : \/ f \in occupied \/ f = frame
                             \/ \E j \in 1 .. Len(free_list) : free_list[j] = f
      BY ZenonT(30), <2>1 DEF FramePartition
    <2>3. \A i \in 1 .. Len(free_list') :
               i \in 1 .. Len(free_list) \/ i = Len(free_list) + 1
      BY <1>3
    <2>4. /\ \A i \in 1 .. Len(free_list) : i \in 1 .. Len(free_list')
          /\ Len(free_list) + 1 \in 1 .. Len(free_list')
      BY <1>3
    <2>5. \A i, j \in 1 .. Len(free_list') :
               free_list'[i] = free_list'[j] => i = j
      BY ZenonT(30), <1>2, <1>3, <2>2, <2>3
    <2>6. \A i \in 1 .. Len(free_list') : free_list'[i] \notin occupied'
      BY ZenonT(30), <1>2, <1>3, <2>1, <2>2, <2>3
    <2>7. \A f \in Frame :
               f \in occupied' \/ \E j \in 1 .. Len(free_list') : free_list'[j] = f
      BY ZenonT(30), <1>3, <2>1, <2>2, <2>4
    <2>8. pc' # "fetch"
      BY <1>1
    <2>9. QED
      BY ZenonT(60), <2>1, <2>5, <2>6, <2>7, <2>8 DEF FramePartition
  <1>7. TablesAgree' /\ PointerStable'
    BY DEF IInv, TablesAgree, PointerStable, FetchFail
  <1>8. CleanMatchesStore'
    BY <1>4 DEF IInv, TypeOK, TablesAgree, CleanMatchesStore, FetchFail
  <1>9. CallState'
    BY <1>1 DEF CallState, FetchFail, Return, NoReq
  <1>10. BatchState'
    BY <1>1, EmptyBatch
  <1>11. QED
    BY SMTT(30), <1>5, <1>6, <1>7, <1>8, <1>9, <1>10 DEF IInv
=============================================================================
