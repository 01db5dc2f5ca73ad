------------------------ MODULE PagerPrefetchProofs -------------------------
(***************************************************************************)
(* Proofs about Pager, second part: the steps of dsm_prefetch_pages, its   *)
(* scan, the RPC of the batch and the loops after it, keep the inductive   *)
(* invariant.                                                              *)
(***************************************************************************)
EXTENDS PagerAccessProofs

(* The scan that collects the batch *)

\* The arrays page_ids, frames and bufs hold what their types say.
LEMMA BatchEntries ==
    ASSUME TypeOK
    PROVE  /\ Len(batch) \in Nat
           /\ \A i \in 1 .. Len(batch) :
                  /\ batch[i] \in [page : Page, frame : Frame, data : Value]
                  /\ batch[i].page \in Page
                  /\ batch[i].frame \in Frame
                  /\ batch[i].data \in Value
  <1> DEFINE Batch == [page : Page, frame : Frame, data : Value]
  <1>1. batch \in Seq(Batch)
    BY DEF TypeOK
  <1>2. Len(batch) \in Nat /\ \A i \in 1 .. Len(batch) : batch[i] \in Batch
    <2> HIDE DEF Batch
    <2>1. QED
      BY <1>1, LenProperties, ElementOfSeq
  <1>3. \A e \in Batch : e.page \in Page /\ e.frame \in Frame /\ e.data \in Value
    OBVIOUS
  <1>4. QED
    BY <1>2, <1>3

\* A call of dsm_prefetch_pages starts with an empty batch.
LEMMA PrefetchCallKeeps ==
    ASSUME IInv, NEW start \in Id, NEW count \in HintCounts,
           PrefetchCall(start, count)
    PROVE  IInv'
  <1> USE DEF tables, memory, stats
  <1>1. batch = <<>> /\ batch' = <<>> /\ Len(batch) = 0 /\ Len(batch') = 0
    BY EmptySeq DEF IInv, CallState, PrefetchCall
  <1>2. TypeOK'
    BY Constants DEF IInv, TypeOK, PrefetchCall
  <1>3. FramePartition'
    BY DEF IInv, FramePartition, PrefetchCall
  <1>4. TablesAgree' /\ CleanMatchesStore' /\ PointerStable'
    BY DEF IInv, TablesAgree, CleanMatchesStore, PointerStable, PrefetchCall
  <1>5. CallState'
    BY DEF IInv, CallState, PrefetchCall
  <1>6. BatchState'
    BY <1>1 DEF BatchState
  <1>7. QED
    BY <1>2, <1>3, <1>4, <1>5, <1>6 DEF IInv

\* The scan moves to the next page id without wrapping.
LEMMA ScanOnProperties ==
    ASSUME IInv, Scanning, ScanOn
    PROVE  /\ scan' \in [next : Id, left : Nat]
           /\ scan'.next = scan.next + 1
           /\ scan.next \in Page
  <1>1. scan.next \in Id /\ scan.left \in Nat \ {0} /\ scan.next < NumVirtualPages
    BY DEF IInv, TypeOK, Scanning
  <1>2. scan.next \in Nat /\ scan.next \in Page /\ scan.left - 1 \in Nat
    BY <1>1, PagerAssumption DEF Id, Page
  <1>3. (scan.next + 1) % IdSpace = scan.next + 1 /\ (scan.next + 1) % IdSpace \in Id
    BY <1>1, <1>2, Wrapping
  <1>4. QED
    BY <1>2, <1>3 DEF ScanOn

\* The scan passes a page that is cached or not remote.
LEMMA ScanSkipKeeps ==
    ASSUME IInv, ScanSkip
    PROVE  IInv'
  <1> USE DEF tables, memory, stats
  <1>1. /\ scan' \in [next : Id, left : Nat]
        /\ scan'.next = scan.next + 1
        /\ scan.next \in Page
    BY ScanOnProperties DEF ScanSkip
  <1>2. TypeOK'
    BY <1>1 DEF IInv, TypeOK, ScanSkip
  <1>3. FramePartition'
    BY DEF IInv, FramePartition, ScanSkip
  <1>4. TablesAgree' /\ CleanMatchesStore' /\ PointerStable'
    BY DEF IInv, TablesAgree, CleanMatchesStore, PointerStable, ScanSkip
  <1>5. CallState'
    BY DEF IInv, CallState, ScanSkip
  <1>6. BatchState'
    <2>1. pc = "scan" /\ pc' = "scan" /\ batch' = batch /\ valid' = valid
      BY DEF ScanSkip, Scanning
    <2>2. \A i \in 1 .. Len(batch) : batch[i].page \in Page
      BY BatchEntries DEF IInv
    <2>3. \A i \in 1 .. Len(batch) : batch[i].page < scan'.next
      BY <1>1, <2>1, <2>2 DEF IInv, BatchState, Page
    <2>4. QED
      BY <2>1, <2>3 DEF IInv, BatchState
  <1>7. QED
    BY <1>2, <1>3, <1>4, <1>5, <1>6 DEF IInv

\* The scan moves a free frame into the batch for a page not yet in it.
LEMMA ScanTakeKeeps ==
    ASSUME IInv, ScanTake
    PROVE  IInv'
  <1> USE DEF tables, memory, stats
  <1> DEFINE Top   == free_list[Len(free_list)]
             Entry == [page |-> scan.next, frame |-> Top, data |-> Zero]
             Batch == [page : Page, frame : Frame, data : Value]
  <1>1. /\ scan' \in [next : Id, left : Nat]
        /\ scan'.next = scan.next + 1
        /\ scan.next \in Page
    BY ScanOnProperties DEF ScanTake
  <1>2. pc = "scan" /\ pc' = "scan" /\ valid' = valid /\ scan.next \notin valid
    BY DEF ScanTake, Scanning, Wanted
  <1>3. free_list \in Seq(Frame) /\ free_list # <<>> /\ batch \in Seq(Batch)
    BY DEF IInv, TypeOK, ScanTake
  <1>4. /\ Len(free_list) \in Nat \ {0}
        /\ Top \in Frame
        /\ free_list' \in Seq(Frame)
        /\ Len(free_list') = Len(free_list) - 1
        /\ \A i \in 1 .. Len(free_list) - 1 : free_list'[i] = free_list[i]
    BY <1>3, PopProperties DEF ScanTake
  <1>5. Entry \in Batch
    BY <1>1, <1>4, Constants
  <1>6. /\ batch' \in Seq(Batch)
        /\ Len(batch) \in Nat
        /\ Len(batch') = Len(batch) + 1
        /\ \A i \in 1 .. Len(batch) : batch'[i] = batch[i]
        /\ batch'[Len(batch) + 1] = Entry
    <2>1. batch' = Append(batch, Entry)
      BY DEF ScanTake
    <2> HIDE DEF Entry, Batch
    <2>2. QED
      BY <1>3, <1>5, <2>1, PushProperties
  <1>7. TypeOK'
    BY <1>1, <1>4, <1>6 DEF IInv, TypeOK, ScanTake
  <1>8. FramePartition'
    <2>1. occupied' = occupied
      BY DEF ScanTake
    <2>2. /\ Top \notin occupied
          /\ \A j \in 1 .. Len(free_list') : free_list'[j] # Top
          /\ \A i \in 1 .. Len(batch) : batch[i].frame # Top
      BY <1>4 DEF IInv, FramePartition
    <2>3. /\ \A i, j \in 1 .. Len(free_list') :
                 free_list'[i] = free_list'[j] => i = j
          /\ \A i \in 1 .. Len(free_list') : free_list'[i] \notin occupied'
      BY <1>4, <2>1 DEF IInv, FramePartition
    <2>4. \A i, j \in 1 .. Len(batch') : batch'[i].frame = batch'[j].frame => i = j
      <3> SUFFICES ASSUME NEW i \in 1 .. Len(batch'), NEW j \in 1 .. Len(batch'),
                          batch'[i].frame = batch'[j].frame
                   PROVE  i = j
        OBVIOUS
      <3>1. CASE i = Len(batch) + 1 \/ j = Len(batch) + 1
        BY <1>6, <2>2, <3>1
      <3>2. CASE i \in 1 .. Len(batch) /\ j \in 1 .. Len(batch)
        BY <1>6, <3>2 DEF IInv, FramePartition
      <3>3. QED
        BY <1>6, <3>1, <3>2
    <2>5. \A i \in 1 .. Len(batch') :
              /\ batch'[i].frame \notin occupied'
              /\ \A j \in 1 .. Len(free_list') : batch'[i].frame # free_list'[j]
      <3> TAKE i \in 1 .. Len(batch')
      <3>1. CASE i = Len(batch) + 1
        BY <1>6, <2>1, <2>2, <3>1
      <3>2. CASE i \in 1 .. Len(batch)
        BY SMTT(30), <1>4, <1>6, <2>1, <3>2 DEF IInv, FramePartition
      <3>3. QED
        BY <1>6, <3>1, <3>2
    <2>6. ASSUME NEW f \in Frame, f \notin occupied
          PROVE  \/ \E j \in 1 .. Len(free_list') : free_list'[j] = f
                 \/ \E i \in 1 .. Len(batch') : batch'[i].frame = f
      <3>1. CASE f = Top
        BY <1>6, <3>1
      <3>2. CASE \E j \in 1 .. Len(free_list) : free_list[j] = f /\ f # Top
        <4>1. PICK j \in 1 .. Len(free_list) : free_list[j] = f /\ f # Top
          BY <3>2
        <4>2. j \in 1 .. Len(free_list')
          BY <4>1, <1>4
        <4>3. QED
          BY <4>1, <4>2, <1>4
      <3>3. CASE \E i \in 1 .. Len(batch) : batch[i].frame = f
        BY <1>6, <3>3
      <3>4. QED
        BY <1>2, <2>6, <3>1, <3>2, <3>3 DEF IInv, FramePartition
    <2>7. QED
      BY <1>2, <2>1, <2>3, <2>4, <2>5, <2>6 DEF FramePartition
  <1>9. TablesAgree' /\ CleanMatchesStore' /\ PointerStable'
    BY DEF IInv, TablesAgree, CleanMatchesStore, PointerStable, ScanTake
  <1>10. CallState'
    BY <1>2 DEF IInv, CallState, ScanTake
  <1>11. BatchState'
    <2>1. \A i \in 1 .. Len(batch) :
              /\ batch[i].page \in Nat
              /\ batch[i].page < scan.next
              /\ batch[i].page \notin valid
      <3>1. \A i \in 1 .. Len(batch) : batch[i].page \in Page
        BY BatchEntries DEF IInv
      <3>2. QED
        BY <1>2, <3>1 DEF IInv, BatchState, Page
    <2>2. \A i \in 1 .. Len(batch') : batch'[i].page \notin valid'
      BY <1>2, <1>6, <2>1
    <2>3. \A i \in 1 .. Len(batch') : batch'[i].page < scan'.next
      <3> TAKE i \in 1 .. Len(batch')
      <3>1. scan.next \in Nat
        BY <1>1 DEF Page
      <3>2. CASE i = Len(batch) + 1
        BY <1>1, <1>6, <3>1, <3>2
      <3>3. CASE i \in 1 .. Len(batch)
        BY <1>1, <1>6, <2>1, <3>1, <3>3
      <3>4. QED
        BY <1>6, <3>2, <3>3
    <2>4. \A i, j \in 1 .. Len(batch') : batch'[i].page = batch'[j].page => i = j
      <3> SUFFICES ASSUME NEW i \in 1 .. Len(batch'), NEW j \in 1 .. Len(batch'),
                          batch'[i].page = batch'[j].page
                   PROVE  i = j
        OBVIOUS
      <3>1. scan.next \in Nat
        BY <1>1 DEF Page
      <3>2. CASE i = Len(batch) + 1 \/ j = Len(batch) + 1
        BY <1>6, <2>1, <3>1, <3>2
      <3>3. CASE i \in 1 .. Len(batch) /\ j \in 1 .. Len(batch)
        BY <1>6, <3>3 DEF IInv, BatchState
      <3>4. QED
        BY <1>6, <3>2, <3>3
    <2>5. QED
      BY <1>2, <2>2, <2>3, <2>4 DEF BatchState
  <1>12. QED
    BY <1>7, <1>8, <1>9, <1>10, <1>11 DEF IInv

\* dsm_prefetch_pages returns with an empty batch, to its caller or into the
\* access that called it.
LEMMA PrefetchDoneKeeps ==
    ASSUME IInv, PrefetchDone, batch = <<>>,
           pc \in {"scan", "install", "putback"},
           UNCHANGED <<tables, free_list, clock_hand, memory, stats, sock>>
    PROVE  IInv'
  <1> USE DEF tables, memory, stats
  <1>1. /\ batch' = <<>> /\ Len(batch) = 0 /\ Len(batch') = 0 /\ pc' = "idle"
    BY EmptySeq DEF PrefetchDone, Return
  <1>2. /\ req.page \in Page /\ req.page \in Id /\ frame \in Frame
        /\ req.mode \in {"none", "read", "write"}
    BY SMTT(30), Constants DEF IInv, TypeOK
  <1>3. TypeOK'
    BY <1>1, <1>2, EmptySeq, Constants
    DEF IInv, TypeOK, PrefetchDone, Return, NoReq, NoScan
  <1>4. FramePartition'
    <2>1. /\ FramePartition /\ batch' = batch /\ free_list' = free_list
          /\ occupied' = occupied /\ pc # "fetch" /\ pc' # "fetch"
      BY <1>1 DEF IInv
    <2>2. QED
      BY <2>1, PartitionUntouched
  <1>5. TablesAgree' /\ CleanMatchesStore'
    BY DEF IInv, TablesAgree, CleanMatchesStore
  <1>6. PointerStable'
    BY DEF IInv, PointerStable, CallState, PrefetchDone
  <1>7. CallState'
    BY <1>1 DEF CallState, PrefetchDone, Return, NoReq
  <1>8. BatchState'
    BY <1>1 DEF BatchState
  <1>9. QED
    BY <1>3, <1>4, <1>5, <1>6, <1>7, <1>8 DEF IInv

-----------------------------------------------------------------------------
(* The RPC of the batch and what follows it *)

\* The scan ends, with a batch to fetch or nothing to do.
LEMMA ScanEndKeeps ==
    ASSUME IInv, ScanEnd
    PROVE  IInv'
  <1>1. CASE batch = <<>>
    BY <1>1, PrefetchDoneKeeps DEF ScanEnd
  <1>2. CASE batch # <<>>
    <2> USE <1>2 DEF ScanEnd, tables, memory, stats, locals
    <2>1. TypeOK'
      BY DEF IInv, TypeOK
    <2>2. FramePartition'
      BY DEF IInv, FramePartition
    <2>3. TablesAgree' /\ CleanMatchesStore' /\ PointerStable'
      BY DEF IInv, TablesAgree, CleanMatchesStore, PointerStable
    <2>4. CallState' /\ BatchState'
      BY DEF IInv, CallState, BatchState
    <2>5. QED
      BY <2>1, <2>2, <2>3, <2>4 DEF IInv
  <1>3. QED
    BY <1>1, <1>2

\* The loops over the batch end and the call returns.
LEMMA BatchEndKeeps ==
    ASSUME IInv, BatchEnd
    PROVE  IInv'
  BY PrefetchDoneKeeps DEF BatchEnd

\* dsm_rpc_get_batch fills bufs with what the server holds.
LEMMA BatchFetchKeeps ==
    ASSUME IInv, BatchFetch
    PROVE  IInv'
  <1> USE DEF tables, memory, stats
  <1> DEFINE Batch == [page : Page, frame : Frame, data : Value]
  <1>1. /\ batch \in Seq(Batch) /\ Len(batch) \in Nat
        /\ pc = "batch" /\ pc' = "install"
    BY DEF IInv, TypeOK, BatchFetch
  <1>2. \A i \in 1 .. Len(batch) :
            /\ batch[i] \in Batch
            /\ batch'[i] = [batch[i] EXCEPT !.data = store[batch[i].page]]
    BY ZenonT(30), <1>1, ElementOfSeq DEF BatchFetch
  <1>3. \A i \in 1 .. Len(batch) :
            /\ batch'[i] \in Batch
            /\ batch'[i].page = batch[i].page
            /\ batch'[i].frame = batch[i].frame
            /\ batch'[i].data = store[batch[i].page]
    <2> TAKE i \in 1 .. Len(batch)
    <2>1. store[batch[i].page] \in Value
      BY BatchEntries DEF IInv, TypeOK
    <2>2. \A e \in Batch, v \in Value :
              /\ [e EXCEPT !.data = v] \in Batch
              /\ [e EXCEPT !.data = v].page = e.page
              /\ [e EXCEPT !.data = v].frame = e.frame
              /\ [e EXCEPT !.data = v].data = v
      OBVIOUS
    <2>3. batch[i] \in Batch
      BY ZenonT(30), <1>2
    <2>4. batch'[i] = [batch[i] EXCEPT !.data = store[batch[i].page]]
      BY <1>2
    <2> HIDE DEF Batch
    <2>5. QED
      BY <2>1, <2>2, <2>3, <2>4
  <1>4. batch' \in Seq(Batch) /\ Len(batch') = Len(batch)
    <2>1. batch' \in [1 .. Len(batch) -> Batch]
      BY <1>1, <1>3 DEF BatchFetch
    <2>2. QED
      BY <1>1, <2>1
  <1>5. TypeOK'
    BY <1>4 DEF IInv, TypeOK, BatchFetch
  <1>6. FramePartition'
    <2>1. free_list' = free_list /\ occupied' = occupied
      BY DEF BatchFetch
    <2> HIDE DEF Batch
    <2>2. QED
      BY <1>1, <1>3, <1>4, <2>1 DEF IInv, FramePartition
  <1>7. TablesAgree' /\ CleanMatchesStore' /\ PointerStable'
    BY DEF IInv, TablesAgree, CleanMatchesStore, PointerStable, BatchFetch
  <1>8. CallState'
    BY <1>1 DEF IInv, CallState, BatchFetch
  <1>9. BatchState'
    <2>1. valid' = valid /\ store' = store
      BY DEF BatchFetch
    <2> HIDE DEF Batch
    <2>2. QED
      BY <1>1, <1>3, <1>4, <2>1 DEF IInv, BatchState
  <1>10. QED
    BY <1>5, <1>6, <1>7, <1>8, <1>9 DEF IInv

\* A failed dsm_rpc_get_batch leaves the tables alone.
LEMMA BatchFailKeeps ==
    ASSUME IInv, BatchFail
    PROVE  IInv'
  <1> USE DEF tables, memory, stats, locals
  <1>1. TypeOK'
    BY DEF IInv, TypeOK, BatchFail
  <1>2. FramePartition'
    BY DEF IInv, FramePartition, BatchFail
  <1>3. TablesAgree' /\ CleanMatchesStore' /\ PointerStable'
    BY DEF IInv, TablesAgree, CleanMatchesStore, PointerStable, BatchFail
  <1>4. CallState' /\ BatchState'
    BY DEF IInv, CallState, BatchState, BatchFail
  <1>5. QED
    BY <1>1, <1>2, <1>3, <1>4 DEF IInv

\* The head of the batch, shared by the two loops that consume it.
LEMMA BatchHead ==
    ASSUME IInv, batch # <<>>, batch' = Tail(batch)
    PROVE  /\ Len(batch) \in Nat \ {0}
           /\ Head(batch) = batch[1]
           /\ batch[1].page \in Page /\ batch[1].frame \in Frame
           /\ batch[1].data \in Value
           /\ batch' \in Seq([page : Page, frame : Frame, data : Value])
           /\ Len(batch') = Len(batch) - 1
           /\ \A i \in 1 .. Len(batch') : /\ i + 1 \in 1 .. Len(batch)
                                          /\ batch'[i] = batch[i + 1]
  <1> DEFINE Batch == [page : Page, frame : Frame, data : Value]
  <1>1. batch \in Seq(Batch)
    BY DEF IInv, TypeOK
  <1>2. batch[1].page \in Page /\ batch[1].frame \in Frame /\ batch[1].data \in Value
    <2>1. Len(batch) \in Nat \ {0}
      <3> HIDE DEF Batch
      <3>1. QED
        BY <1>1, TailProperties
    <2>2. QED
      BY <2>1, BatchEntries DEF IInv
  <1> HIDE DEF Batch
  <1>3. /\ Len(batch) \in Nat \ {0}
        /\ Head(batch) = batch[1]
        /\ batch' \in Seq(Batch)
        /\ Len(batch') = Len(batch) - 1
        /\ \A i \in 1 .. Len(batch) - 1 : batch'[i] = batch[i + 1]
    BY <1>1, TailProperties
  <1>4. QED
    BY <1>2, <1>3 DEF Batch

\* What is left of the batch keeps its properties, and shares neither a page
\* nor a frame with the entry just consumed.
LEMMA BatchRest ==
    ASSUME IInv, batch # <<>>, batch' = Tail(batch)
    PROVE  /\ \A i \in 1 .. Len(batch') :
                  /\ batch'[i].frame # batch[1].frame
                  /\ batch'[i].page # batch[1].page
                  /\ batch'[i].frame \notin occupied
                  /\ \A j \in 1 .. Len(free_list) : batch'[i].frame # free_list[j]
                  /\ batch'[i].page \notin valid
                  /\ pc = "install" /\ batch'[i].page \notin Shared =>
                         batch'[i].data = store[batch'[i].page]
           /\ \A i, j \in 1 .. Len(batch') :
                  \/ batch'[i].frame = batch'[j].frame
                  \/ batch'[i].page = batch'[j].page
                  => i = j
           /\ \A i \in 1 .. Len(batch) :
                  \/ i = 1
                  \/ \E j \in 1 .. Len(batch') : batch'[j] = batch[i]
  <1>1. /\ Len(batch) \in Nat \ {0}
        /\ Len(batch') = Len(batch) - 1
        /\ \A i \in 1 .. Len(batch') : /\ i + 1 \in 1 .. Len(batch)
                                       /\ batch'[i] = batch[i + 1]
    BY BatchHead
  <1>2. \A i, j \in 1 .. Len(batch) :
            \/ batch[i].frame = batch[j].frame
            \/ batch[i].page = batch[j].page
            => i = j
    BY DEF IInv, FramePartition, BatchState
  <1>3. \A i \in 1 .. Len(batch) :
            /\ batch[i].frame \notin occupied
            /\ \A j \in 1 .. Len(free_list) : batch[i].frame # free_list[j]
            /\ batch[i].page \notin valid
            /\ pc = "install" /\ batch[i].page \notin Shared =>
                   batch[i].data = store[batch[i].page]
    BY DEF IInv, FramePartition, BatchState
  <1>4. ASSUME NEW i \in 1 .. Len(batch')
        PROVE  /\ batch'[i].frame # batch[1].frame
               /\ batch'[i].page # batch[1].page
    <2>1. /\ i + 1 \in 1 .. Len(batch) /\ 1 \in 1 .. Len(batch) /\ i + 1 # 1
          /\ batch'[i] = batch[i + 1]
      BY <1>1
    <2>2. QED
      BY <2>1, <1>2
  <1>5. ASSUME NEW i \in 1 .. Len(batch')
        PROVE  /\ batch'[i].frame \notin occupied
               /\ \A j \in 1 .. Len(free_list) : batch'[i].frame # free_list[j]
               /\ batch'[i].page \notin valid
               /\ pc = "install" /\ batch'[i].page \notin Shared =>
                      batch'[i].data = store[batch'[i].page]
    <2>1. i + 1 \in 1 .. Len(batch) /\ batch'[i] = batch[i + 1]
      BY <1>1
    <2>2. QED
      BY <2>1, <1>3
  <1>6. ASSUME NEW i \in 1 .. Len(batch'), NEW j \in 1 .. Len(batch'),
               \/ batch'[i].frame = batch'[j].frame
               \/ batch'[i].page = batch'[j].page
        PROVE  i = j
    <2>1. /\ i + 1 \in 1 .. Len(batch) /\ batch'[i] = batch[i + 1]
          /\ j + 1 \in 1 .. Len(batch) /\ batch'[j] = batch[j + 1]
      BY <1>1
    <2>2. i + 1 = j + 1
      BY <1>2, <1>6, <2>1
    <2>3. QED
      BY <1>1, <2>2
  <1>7. ASSUME NEW i \in 1 .. Len(batch), i # 1
        PROVE  \E j \in 1 .. Len(batch') : batch'[j] = batch[i]
    <2>1. i - 1 \in 1 .. Len(batch') /\ (i - 1) + 1 = i
      BY <1>1, <1>7
    <2>2. QED
      BY <1>1, <2>1
  <1>8. QED
    BY <1>4, <1>5, <1>6, <1>7

\* The head of a batch that is being installed.
LEMMA InstallHead ==
    ASSUME IInv, BatchInstall
    PROVE  /\ batch[1].page \notin valid
           /\ batch[1].page \notin Shared => batch[1].data = store[batch[1].page]
           /\ batch[1].frame \notin occupied
           /\ \A j \in 1 .. Len(free_list) : batch[1].frame # free_list[j]
  <1>1. 1 \in 1 .. Len(batch)
    BY BatchHead DEF BatchInstall
  <1>2. FramePartition /\ BatchState /\ pc = "install"
    BY DEF IInv, BatchInstall
  <1>3. /\ batch[1].frame \notin occupied
        /\ \A j \in 1 .. Len(free_list) : batch[1].frame # free_list[j]
    BY <1>1, <1>2 DEF FramePartition
  <1>4. /\ batch[1].page \notin valid
        /\ batch[1].page \notin Shared => batch[1].data = store[batch[1].page]
    BY <1>1, <1>2 DEF BatchState
  <1>5. QED
    BY <1>3, <1>4

\* Installing the head of the batch moves its frame to the occupied ones.
LEMMA BatchInstallKeeps ==
    ASSUME IInv, BatchInstall
    PROVE  IInv'
  <1> DEFINE e == batch[1]
  <1>1. /\ Len(batch) \in Nat \ {0}
        /\ Head(batch) = e
        /\ e.page \in Page /\ e.frame \in Frame /\ e.data \in Value
        /\ batch' \in Seq([page : Page, frame : Frame, data : Value])
        /\ Len(batch') = Len(batch) - 1
        /\ \A i \in 1 .. Len(batch') : /\ i + 1 \in 1 .. Len(batch)
                                       /\ batch'[i] = batch[i + 1]
    BY BatchHead DEF BatchInstall
  <1>2. /\ pc = "install" /\ pc' = "install"
        /\ e.page \notin valid
        /\ e.page \notin Shared => e.data = store[e.page]
        /\ e.frame \notin occupied
        /\ \A j \in 1 .. Len(free_list) : e.frame # free_list[j]
        /\ batch # <<>> /\ batch' = Tail(batch)
    BY InstallHead DEF BatchInstall
  <1>3. /\ local_memory' = [local_memory EXCEPT ![e.frame] = e.data]
        /\ frame_number' = [frame_number EXCEPT ![e.page] = e.frame]
        /\ valid' = valid \cup {e.page}
        /\ reference_bit' = reference_bit \ {e.page}
        /\ dirty' = dirty \ {e.page}
        /\ page_number' = [page_number EXCEPT ![e.frame] = e.page]
        /\ occupied' = occupied \cup {e.frame}
        /\ remote' = remote /\ free_list' = free_list /\ store' = store
        /\ req' = req /\ frame' = frame /\ handle' = handle
    BY ZenonT(30), <1>1 DEF BatchInstall
  <1> HIDE DEF e
  <1>4. TypeOK'
    <2>1. /\ local_memory' \in [Frame -> Value]
          /\ frame_number' \in [Page -> Frame]
          /\ page_number' \in [Frame -> Page]
      BY <1>1, <1>3 DEF IInv, TypeOK
    <2>2. /\ valid' \subseteq Page /\ reference_bit' \subseteq Page
          /\ dirty' \subseteq Page /\ occupied' \subseteq Frame
      BY <1>1, <1>3 DEF IInv, TypeOK
    <2>3. remote_fetches' \in 0 .. CounterSpace - 1
      BY Wrapping DEF IInv, TypeOK, BatchInstall
    <2>4. /\ clock_hand' \in Frame /\ last_page_id' \in Id
          /\ remote' \subseteq Page /\ free_list' \in Seq(Frame)
          /\ store' \in [Page -> Value]
          /\ local_hits' \in 0 .. CounterSpace - 1
          /\ evictions' \in 0 .. CounterSpace - 1
          /\ sock' \in {"none", "up", "dead"}
          /\ req' \in [page : Page, mode : {"none", "read", "write"}]
          /\ frame' \in Frame
          /\ scan' \in [next : Id, left : Nat]
          /\ handle' \in [page : Page, frame : Frame,
                          mode : {"none", "read", "write"}]
      BY DEF IInv, TypeOK, BatchInstall
    <2>5. QED
      BY SMTT(30), <1>1, <1>2, <2>1, <2>2, <2>3, <2>4 DEF TypeOK
  <1>5. FramePartition'
    <2>1. /\ \A i, j \in 1 .. Len(batch') :
                 batch'[i].frame = batch'[j].frame => i = j
          /\ \A i \in 1 .. Len(batch') :
                 /\ batch'[i].frame \notin occupied'
                 /\ \A j \in 1 .. Len(free_list') : batch'[i].frame # free_list'[j]
      <3>1. /\ \A i, j \in 1 .. Len(batch') :
                   batch'[i].frame = batch'[j].frame => i = j
            /\ \A i \in 1 .. Len(batch') :
                   /\ batch'[i].frame \notin occupied
                   /\ batch'[i].frame # e.frame
                   /\ \A j \in 1 .. Len(free_list) : batch'[i].frame # free_list[j]
        BY <1>2, BatchRest DEF e
      <3>2. QED
        BY <1>3, <3>1
    <2>2. ASSUME NEW f \in Frame, f \notin occupied'
          PROVE  \/ \E j \in 1 .. Len(free_list') : free_list'[j] = f
                 \/ \E i \in 1 .. Len(batch') : batch'[i].frame = f
      <3>1. f # batch[1].frame /\ f \notin occupied
        BY <1>3, <2>2 DEF e
      <3>2. \/ \E j \in 1 .. Len(free_list) : free_list[j] = f
            \/ \E i \in 1 .. Len(batch) : batch[i].frame = f
        BY <1>2, <3>1 DEF IInv, FramePartition
      <3>3. CASE \E i \in 1 .. Len(batch) : batch[i].frame = f
        <4>1. PICK i \in 1 .. Len(batch) : batch[i].frame = f
          BY <3>3
        <4>2. i # 1
          BY <3>1, <4>1
        <4>3. \E j \in 1 .. Len(batch') : batch'[j] = batch[i]
          BY <1>2, <4>1, <4>2, BatchRest
        <4>4. QED
          BY <4>1, <4>3
      <3>4. QED
        BY <1>3, <3>2, <3>3
    <2>3. /\ \A i, j \in 1 .. Len(free_list') :
                 free_list'[i] = free_list'[j] => i = j
          /\ \A i \in 1 .. Len(free_list') : free_list'[i] \notin occupied'
      BY <1>2, <1>3 DEF IInv, FramePartition
    <2>4. QED
      BY ZenonT(30), <1>2, <2>1, <2>2, <2>3 DEF FramePartition
  <1>6. TablesAgree'
    <2>1. /\ frame_number \in [Page -> Frame] /\ page_number \in [Frame -> Page]
          /\ valid \subseteq Page /\ occupied \subseteq Frame /\ TablesAgree
      BY DEF IInv, TypeOK
    <2>2. ASSUME NEW p \in valid'
          PROVE  frame_number'[p] \in occupied' /\ page_number'[frame_number'[p]] = p
      <3>1. CASE p = e.page
        BY <1>1, <1>3, <2>1, <3>1
      <3>2. CASE p # e.page
        <4>1. /\ p \in valid /\ frame_number'[p] = frame_number[p]
              /\ frame_number[p] \in occupied /\ page_number[frame_number[p]] = p
          BY <1>3, <2>1, <2>2, <3>2 DEF TablesAgree
        <4>2. QED
          BY <1>2, <1>3, <2>1, <4>1
      <3>3. QED
        BY <3>1, <3>2
    <2>3. ASSUME NEW f \in occupied'
          PROVE  page_number'[f] \in valid' /\ frame_number'[page_number'[f]] = f
      <3>1. CASE f = e.frame
        BY <1>1, <1>3, <2>1, <3>1
      <3>2. CASE f # e.frame
        <4>1. /\ f \in occupied /\ page_number'[f] = page_number[f]
              /\ page_number[f] \in valid /\ frame_number[page_number[f]] = f
          BY <1>3, <2>1, <2>3, <3>2 DEF TablesAgree
        <4>2. QED
          BY <1>2, <1>3, <2>1, <4>1
      <3>3. QED
        BY <3>1, <3>2
    <2>4. QED
      BY <2>2, <2>3 DEF TablesAgree
  <1>7. CleanMatchesStore'
    <2> SUFFICES ASSUME NEW p \in valid', p \in remote', p \notin dirty',
                        p \notin Shared
                 PROVE  local_memory'[frame_number'[p]] = store'[p]
      BY DEF CleanMatchesStore
    <2>0. /\ local_memory \in [Frame -> Value] /\ frame_number \in [Page -> Frame]
          /\ valid \subseteq Page /\ TablesAgree /\ CleanMatchesStore
      BY DEF IInv, TypeOK
    <2>1. CASE p = e.page
      <3>1. frame_number'[p] = e.frame /\ local_memory'[e.frame] = e.data
        BY <1>1, <1>3, <2>0, <2>1
      <3>2. e.data = store'[p]
        BY <1>2, <1>3, <2>1
      <3>3. QED
        BY <3>1, <3>2
    <2>2. CASE p # e.page
      <3>1. p \in valid /\ p \in remote /\ p \notin dirty
        BY <1>3, <2>2
      <3>2. frame_number[p] \in occupied /\ frame_number[p] \in Frame
        BY <2>0, <3>1 DEF TablesAgree
      <3>3. frame_number'[p] = frame_number[p] /\ frame_number[p] # e.frame
        BY <1>2, <1>3, <2>0, <2>2, <3>1, <3>2
      <3>4. local_memory'[frame_number[p]] = local_memory[frame_number[p]]
        BY <1>3, <2>0, <3>2, <3>3
      <3>5. local_memory[frame_number[p]] = store[p]
        BY <2>0, <3>1 DEF CleanMatchesStore
      <3>6. QED
        BY <1>3, <3>3, <3>4, <3>5
    <2>3. QED
      BY <2>1, <2>2
  <1>8. PointerStable'
    BY SMTT(30), <1>1, <1>2, <1>3 DEF IInv, TypeOK, PointerStable
  <1>9. CallState'
    BY SMTT(30), <1>1, <1>2, <1>3 DEF IInv, TypeOK, CallState
  <1>10. BatchState'
    <2>1. /\ \A i \in 1 .. Len(batch') :
                 /\ batch'[i].page \notin valid'
                 /\ batch'[i].page \notin Shared =>
                        batch'[i].data = store'[batch'[i].page]
          /\ \A i, j \in 1 .. Len(batch') :
                 batch'[i].page = batch'[j].page => i = j
      BY <1>2, <1>3, BatchRest DEF e
    <2>2. pc' # "scan"
      BY <1>2
    <2>3. QED
      BY Zenon, <2>1, <2>2 DEF BatchState
  <1>11. QED
    BY <1>4, <1>5, <1>6, <1>7, <1>8, <1>9, <1>10 DEF IInv

\* Putting back the head of a failed batch moves its frame to the free list.
LEMMA BatchPutBackKeeps ==
    ASSUME IInv, BatchPutBack
    PROVE  IInv'
  <1> USE DEF tables, memory, stats
  <1> DEFINE e == batch[1]
  <1>1. /\ Len(batch) \in Nat \ {0}
        /\ Head(batch) = e
        /\ e.page \in Page /\ e.frame \in Frame /\ e.data \in Value
        /\ batch' \in Seq([page : Page, frame : Frame, data : Value])
        /\ Len(batch') = Len(batch) - 1
        /\ \A i \in 1 .. Len(batch') : /\ i + 1 \in 1 .. Len(batch)
                                       /\ batch'[i] = batch[i + 1]
    BY BatchHead DEF BatchPutBack
  <1>2. pc = "putback" /\ pc' = "putback" /\ occupied' = occupied /\ valid' = valid
    BY DEF BatchPutBack
  <1>3. /\ free_list' \in Seq(Frame)
        /\ Len(free_list) \in Nat
        /\ Len(free_list') = Len(free_list) + 1
        /\ \A i \in 1 .. Len(free_list) : free_list'[i] = free_list[i]
        /\ free_list'[Len(free_list) + 1] = e.frame
    <2>1. free_list \in Seq(Frame) /\ free_list' = Append(free_list, e.frame)
      BY <1>1 DEF IInv, TypeOK, BatchPutBack
    <2>2. QED
      BY <1>1, <2>1, PushProperties
  <1> HIDE DEF e
  <1>4. TypeOK'
    BY <1>1, <1>3 DEF IInv, TypeOK, BatchPutBack
  <1>5. FramePartition'
    <2>1. /\ e.frame \notin occupied
          /\ \A j \in 1 .. Len(free_list) : e.frame # free_list[j]
      BY <1>1 DEF IInv, FramePartition, e
    <2>2. /\ \A i, j \in 1 .. Len(free_list) : free_list[i] = free_list[j] => i = j
          /\ \A i \in 1 .. Len(free_list) : free_list[i] \notin occupied
      BY DEF IInv, FramePartition
    <2>3. /\ \A i, j \in 1 .. Len(free_list') :
                 free_list'[i] = free_list'[j] => i = j
          /\ \A i \in 1 .. Len(free_list') : free_list'[i] \notin occupied'
      BY <1>2, <1>3, <2>1, <2>2
    <2>4. /\ \A i, j \in 1 .. Len(batch') :
                 batch'[i].frame = batch'[j].frame => i = j
          /\ \A i \in 1 .. Len(batch') :
                 /\ batch'[i].frame \notin occupied'
                 /\ \A j \in 1 .. Len(free_list') : batch'[i].frame # free_list'[j]
      <3>1. /\ \A i, j \in 1 .. Len(batch') :
                   batch'[i].frame = batch'[j].frame => i = j
            /\ \A i \in 1 .. Len(batch') :
                   /\ batch'[i].frame \notin occupied
                   /\ batch'[i].frame # e.frame
                   /\ \A j \in 1 .. Len(free_list) : batch'[i].frame # free_list[j]
        BY ZenonT(30), BatchRest DEF BatchPutBack, e
      <3>2. QED
        BY <1>2, <1>3, <3>1
    <2>5. ASSUME NEW f \in Frame, f \notin occupied
          PROVE  \/ \E j \in 1 .. Len(free_list') : free_list'[j] = f
                 \/ \E i \in 1 .. Len(batch') : batch'[i].frame = f
      <3>1. \/ \E j \in 1 .. Len(free_list) : free_list[j] = f
            \/ \E i \in 1 .. Len(batch) : batch[i].frame = f
        BY <1>2, <2>5 DEF IInv, FramePartition
      <3>2. CASE f = e.frame
        BY <1>3, <3>2
      <3>3. CASE \E j \in 1 .. Len(free_list) : free_list[j] = f
        BY <1>3, <3>3
      <3>4. CASE f # e.frame /\ \E i \in 1 .. Len(batch) : batch[i].frame = f
        <4>1. PICK i \in 1 .. Len(batch) : batch[i].frame = f
          BY <3>4
        <4>2. i # 1
          BY <3>4, <4>1 DEF e
        <4>3. \E j \in 1 .. Len(batch') : batch'[j] = batch[i]
          BY <4>1, <4>2, BatchRest DEF BatchPutBack
        <4>4. QED
          BY <4>1, <4>3
      <3>5. QED
        BY <3>1, <3>2, <3>3, <3>4
    <2>6. QED
      BY <1>2, <2>3, <2>4, <2>5 DEF FramePartition
  <1>6. TablesAgree' /\ CleanMatchesStore' /\ PointerStable'
    BY DEF IInv, TablesAgree, CleanMatchesStore, PointerStable, BatchPutBack
  <1>7. CallState'
    BY <1>2 DEF IInv, CallState, BatchPutBack
  <1>8. BatchState'
    <2>1. /\ \A i \in 1 .. Len(batch') : batch'[i].page \notin valid'
          /\ \A i, j \in 1 .. Len(batch') :
                 batch'[i].page = batch'[j].page => i = j
      BY <1>2, BatchRest DEF BatchPutBack
    <2>2. QED
      BY <1>2, <2>1 DEF BatchState
  <1>9. QED
    BY <1>4, <1>5, <1>6, <1>7, <1>8 DEF IInv
=============================================================================
