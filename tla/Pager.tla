------------------------------- MODULE Pager --------------------------------
(***************************************************************************)
(* The client page cache of src/dsm_paging.c, one dsm_context_t used by    *)
(* one thread, against the page store of its server.                       *)
(*                                                                         *)
(* A call of the Page API runs as a sequence of steps: one per iteration   *)
(* of the clock loop of evict_page, one per RPC, one per iteration of the  *)
(* loops of dsm_prefetch_pages.  Other clients may write the store between *)
(* any two of them and the connection may break at any RPC.                *)
(*                                                                         *)
(* The arrays of structures are modelled field by field: a uint8_t flag of *)
(* page_table or frame_table is the set of the pages or frames that have   *)
(* it set.  A page's 4096 bytes are one Value.                             *)
(***************************************************************************)
EXTENDS Integers, Sequences, FiniteSets

CONSTANTS
    NumPages,         \* ctx->num_pages, local frames
    NumVirtualPages,  \* ctx->num_virtual_pages
    IdSpace,          \* number of uint32_t values (2^32 in the code)
    CounterSpace,     \* number of uint64_t values (2^64 in the code)
    PrefetchCount,    \* ctx->prefetch_count (4 in the code)
    PrefetchMax,      \* DSM_PREFETCH_MAX (8 in the code)
    HintCounts,       \* counts callers pass to dsm_prefetch_pages
    Value,            \* page contents
    Zero,             \* content of a fresh mmap'd frame
    Shared            \* pages that other clients write too

Page  == 0 .. NumVirtualPages - 1
Frame == 0 .. NumPages - 1

ASSUME PagerAssumption ==
    /\ NumPages \in Nat \ {0}
    /\ NumVirtualPages \in Nat \ {0}
    /\ IdSpace \in Nat
    /\ NumVirtualPages < IdSpace
    /\ CounterSpace \in Nat \ {0}
    /\ PrefetchCount \in Nat
    /\ PrefetchMax \in Nat
    /\ HintCounts \subseteq Nat
    /\ Zero \in Value
    /\ Shared \subseteq Page

\* DSM_NO_PAGE, UINT32_MAX.
NoPage == IdSpace - 1

Id == 0 .. IdSpace - 1

VARIABLES
    \* page_table[p]
    frame_number,     \* .frame_number
    valid,            \* pages with .valid = 1
    reference_bit,    \* pages with .reference_bit = 1
    dirty,            \* pages with .dirty = 1
    remote,           \* pages with .location = LOC_REMOTE
    \* frame_table[f]
    page_number,      \* .page_number
    occupied,         \* frames with .occupied = 1
    \* the rest of dsm_context_t
    free_list,        \* free_list[0 .. free_list_top - 1], top last
    clock_hand,
    last_page_id,
    local_memory,     \* content of each frame
    local_hits, remote_fetches, evictions,
    sock,             \* sock_fd: "none" (-1), "up", or "dead" (peer gone)
    \* the call in progress and its locals
    pc,
    req,              \* dsm_access_page's page_id and write
    frame,            \* dsm_access_page_slow's frame
    scan,             \* dsm_prefetch_pages' start_page + i and count - i
    batch,            \* page_ids[i], frames[i] and bufs[i]
    \* the environment
    handle,           \* the pointer last returned to the caller
    store             \* the server's pages

tables == <<frame_number, valid, reference_bit, dirty, remote,
            page_number, occupied>>
memory == <<local_memory, store>>
stats  == <<local_hits, remote_fetches, evictions>>
locals == <<req, frame, scan, batch>>
vars   == <<tables, free_list, clock_hand, last_page_id, memory, stats, sock,
            pc, locals, handle>>

NoHandle == [page |-> 0, frame |-> 0, mode |-> "none"]
NoReq    == [page |-> 0, mode |-> "none"]
NoScan   == [next |-> 0, left |-> 0]

\* dsm_create_context: everything zeroed, frames stacked so that frame 0 is
\* on top.  The server may hold anything when the client starts.
CreateContext ==
    /\ frame_number = [p \in Page |-> 0]
    /\ valid = {} /\ reference_bit = {} /\ dirty = {} /\ remote = {}
    /\ page_number = [f \in Frame |-> 0]
    /\ occupied = {}
    /\ free_list = [i \in 1 .. NumPages |-> NumPages - i]
    /\ clock_hand = 0
    /\ last_page_id = NoPage
    /\ local_memory = [f \in Frame |-> Zero]
    /\ local_hits = 0 /\ remote_fetches = 0 /\ evictions = 0
    /\ pc = "idle"
    /\ req = NoReq /\ frame = 0 /\ scan = NoScan /\ batch = <<>>
    /\ handle = NoHandle
    /\ store \in [Page -> Value]

\* The context of the unit tests and of README's example before its
\* dsm_context_set_socket.
Init == CreateContext /\ sock = "none"

\* The client binary and the Python Context connect first and set the socket
\* right after creating the context.
ConnectedInit == CreateContext /\ sock = "up"

-----------------------------------------------------------------------------
(* Helpers of dsm_paging.c *)

\* Mutant: counters stick at their largest value.
BumpSaturating(counter, n) ==
    IF counter + n < CounterSpace THEN counter + n ELSE CounterSpace - 1

Bump(counter, n) == (counter + n) % CounterSpace

\* Mutant: the hand runs off the end of frame_table.
AdvanceNoWrap(hand) == hand + 1

Advance(hand) == (hand + 1) % NumPages

\* Mutant: free_list_top is not decremented.
PopFrameKeepsTop ==
    /\ frame' = free_list[Len(free_list)]
    /\ UNCHANGED free_list

\* get_free_frame, when the list is not empty.
PopFrame ==
    /\ frame' = free_list[Len(free_list)]
    /\ free_list' = SubSeq(free_list, 1, Len(free_list) - 1)

\* The locals of a call are gone once it has returned.
Return ==
    /\ pc' = "idle"
    /\ req' = NoReq /\ frame' = 0 /\ scan' = NoScan /\ batch' = <<>>

\* The page and frame under the clock hand.
HandPage == page_number[clock_hand]

-----------------------------------------------------------------------------
(* dsm_access_page and its slow path *)

\* Mutant: a write hit does not mark the page dirty.
AccessHitStaysClean(p, mode) ==
    /\ pc = "idle"
    /\ p \in valid
    /\ reference_bit' = reference_bit \cup {p}
    /\ handle' = [page |-> p, frame |-> frame_number[p], mode |-> mode]
    /\ local_hits' = Bump(local_hits, 1)
    /\ UNCHANGED <<frame_number, valid, dirty, remote, page_number, occupied,
                   free_list, clock_hand, last_page_id, memory, remote_fetches,
                   evictions, sock, pc, locals>>

\* The page is cached: mark it and return its frame.
AccessHit(p, mode) ==
    /\ pc = "idle"
    /\ p \in valid
    /\ reference_bit' = reference_bit \cup {p}
    /\ dirty' = IF mode = "write" THEN dirty \cup {p} ELSE dirty
    /\ handle' = [page |-> p, frame |-> frame_number[p], mode |-> mode]
    /\ local_hits' = Bump(local_hits, 1)
    /\ UNCHANGED <<frame_number, valid, remote, page_number, occupied, free_list,
                   clock_hand, last_page_id, memory, remote_fetches, evictions,
                   sock, pc, locals>>

\* Mutant: the clock runs although frames are free.
AccessMissAlwaysEvicts(p, mode) ==
    /\ pc = "idle"
    /\ p \notin valid
    /\ req' = [page |-> p, mode |-> mode]
    /\ handle' = NoHandle
    /\ pc' = "evict"
    /\ UNCHANGED <<tables, free_list, clock_hand, last_page_id, memory, stats,
                   sock, frame, scan, batch>>

\* The page is not cached: take a free frame, or start the clock.
AccessMiss(p, mode) ==
    /\ pc = "idle"
    /\ p \notin valid
    /\ req' = [page |-> p, mode |-> mode]
    /\ handle' = NoHandle
    /\ IF free_list # <<>>
       THEN pc' = "fetch" /\ PopFrame
       ELSE pc' = "evict" /\ UNCHANGED <<frame, free_list>>
    /\ UNCHANGED <<tables, clock_hand, last_page_id, memory, stats, sock,
                   scan, batch>>

\* Mutant: the reference bit of a passed page stays set.
ClockPassKeepsBit ==
    /\ pc = "evict"
    /\ clock_hand \in occupied => HandPage \in reference_bit
    /\ clock_hand' = Advance(clock_hand)
    /\ UNCHANGED <<tables, free_list, last_page_id, memory, stats, sock, pc,
                   locals, handle>>

\* evict_page: the hand passes a frame that is free or was referenced.
ClockPass ==
    /\ pc = "evict"
    /\ clock_hand \in occupied => HandPage \in reference_bit
    /\ reference_bit' = IF clock_hand \in occupied
                        THEN reference_bit \ {HandPage} ELSE reference_bit
    /\ clock_hand' = Advance(clock_hand)
    /\ UNCHANGED <<frame_number, valid, dirty, remote, page_number, occupied,
                   free_list, last_page_id, memory, stats, sock, pc, locals, handle>>

\* The hand points at an occupied frame with a clear reference bit.
AtVictim ==
    /\ pc = "evict"
    /\ clock_hand \in occupied
    /\ HandPage \notin reference_bit

\* Mutant: the location test is inverted.
NeedsWritebackOfLocal == HandPage \in dirty /\ HandPage \notin remote

NeedsWriteback == HandPage \in dirty /\ HandPage \in remote

\* Mutant: the victim's page table entry stays valid.
EvictKeepsValid ==
    /\ dirty' = dirty \ {HandPage}
    /\ occupied' = occupied \ {clock_hand}
    /\ clock_hand' = Advance(clock_hand)
    /\ evictions' = Bump(evictions, 1)
    /\ frame' = clock_hand
    /\ pc' = "fetch"
    /\ UNCHANGED <<frame_number, valid, reference_bit, remote, page_number,
                   free_list, last_page_id, local_memory, local_hits,
                   remote_fetches, req, scan, batch, handle>>

\* The victim leaves the cache; its frame is pushed and popped again.
Evict ==
    /\ valid' = valid \ {HandPage}
    /\ dirty' = dirty \ {HandPage}
    /\ occupied' = occupied \ {clock_hand}
    /\ clock_hand' = Advance(clock_hand)
    /\ evictions' = Bump(evictions, 1)
    /\ frame' = clock_hand
    /\ pc' = "fetch"
    /\ UNCHANGED <<frame_number, reference_bit, remote, page_number, free_list,
                   last_page_id, local_memory, local_hits, remote_fetches, req,
                   scan, batch, handle>>

EvictClean ==
    /\ AtVictim
    /\ ~NeedsWriteback
    /\ Evict
    /\ UNCHANGED <<sock, store>>

\* dsm_rpc_put succeeds: the server stored the page and acknowledged it.
EvictWriteback ==
    /\ AtVictim
    /\ NeedsWriteback
    /\ sock = "up"
    /\ store' = [store EXCEPT ![HandPage] = local_memory[clock_hand]]
    /\ Evict
    /\ UNCHANGED sock

\* dsm_rpc_put fails: the connection is or goes dead, before or after the
\* server stored the page.  The call returns NULL, the victim stays cached.
WritebackFail ==
    /\ AtVictim
    /\ NeedsWriteback
    /\ sock' = IF sock = "up" THEN "dead" ELSE sock
    /\ \/ UNCHANGED store
       \/ /\ sock = "up"
          /\ store' = [store EXCEPT ![HandPage] = local_memory[clock_hand]]
    /\ Return
    /\ UNCHANGED <<tables, free_list, clock_hand, last_page_id, local_memory,
                   stats, handle>>

\* dsm_sendv's writev on a connection already known to be broken raises
\* SIGPIPE, which neither the client binary nor the library handles: the
\* process ends in the middle of the call.
WritebackKilled ==
    /\ AtVictim
    /\ NeedsWriteback
    /\ sock = "dead"
    /\ pc' = "closed"
    /\ req' = NoReq /\ frame' = 0 /\ scan' = NoScan /\ batch' = <<>>
    /\ UNCHANGED <<tables, free_list, clock_hand, last_page_id, memory, stats,
                   sock, handle>>

\* The frame now holds the page.  The access returns, or first prefetches
\* when it continues the sequence of the last miss (last_page_id + 1 wraps).
Install(loc) ==
    /\ frame_number' = [frame_number EXCEPT ![req.page] = frame]
    /\ valid' = valid \cup {req.page}
    /\ reference_bit' = reference_bit \cup {req.page}
    /\ dirty' = IF req.mode = "write" THEN dirty \cup {req.page}
                                      ELSE dirty \ {req.page}
    /\ remote' = IF loc = "remote" THEN remote \cup {req.page}
                                   ELSE remote \ {req.page}
    /\ page_number' = [page_number EXCEPT ![frame] = req.page]
    /\ occupied' = occupied \cup {frame}
    /\ IF req.page = (last_page_id + 1) % IdSpace
       THEN /\ pc' = "scan"
            /\ scan' = [next |-> (req.page + 1) % IdSpace, left |-> PrefetchCount]
            /\ UNCHANGED <<req, frame, batch, last_page_id, handle>>
       ELSE /\ last_page_id' = req.page
            /\ handle' = [page |-> req.page, frame |-> frame, mode |-> req.mode]
            /\ Return
    /\ UNCHANGED <<free_list, clock_hand, local_hits, evictions, sock, store>>

\* dsm_rpc_get succeeds.
FetchRemote ==
    /\ pc = "fetch"
    /\ sock = "up"
    /\ local_memory' = [local_memory EXCEPT ![frame] = store[req.page]]
    /\ remote_fetches' = Bump(remote_fetches, 1)
    /\ Install("remote")

\* In-memory mode (sock_fd < 0): nothing is fetched, the frame keeps what
\* it held.
FetchInMemory ==
    /\ pc = "fetch"
    /\ sock = "none"
    /\ Install("local")
    /\ UNCHANGED <<local_memory, remote_fetches>>

\* dsm_rpc_get fails, possibly after part of the page has arrived: the frame
\* goes back to the free list and the call returns NULL.
FetchFail ==
    /\ pc = "fetch"
    /\ sock \in {"up", "dead"}
    /\ sock' = "dead"
    /\ \/ UNCHANGED local_memory
       \/ /\ sock = "up"
          /\ local_memory' = [local_memory EXCEPT ![frame] = store[req.page]]
    /\ free_list' = Append(free_list, frame)
    /\ Return
    /\ UNCHANGED <<tables, clock_hand, last_page_id, store, stats, handle>>

-----------------------------------------------------------------------------
(* dsm_prefetch_pages *)

\* The caller's hint.  The pointer it holds stays usable: nothing is evicted.
PrefetchCall(start, count) ==
    /\ pc = "idle"
    /\ pc' = "scan"
    /\ scan' = [next |-> start, left |-> count]
    /\ UNCHANGED <<tables, free_list, clock_hand, last_page_id, memory, stats,
                   sock, req, frame, batch, handle>>

\* The loop goes on to look at page scan.next.
Scanning ==
    /\ pc = "scan"
    /\ scan.left > 0
    /\ Len(batch) < PrefetchMax
    /\ scan.next < NumVirtualPages

Wanted == scan.next \notin valid /\ scan.next \in remote

\* Mutant: the loop counts but looks at the same page again.
ScanOnStuck == scan' = [next |-> scan.next, left |-> scan.left - 1]

ScanOn == scan' = [next |-> (scan.next + 1) % IdSpace, left |-> scan.left - 1]

ScanSkip ==
    /\ Scanning
    /\ ~Wanted
    /\ ScanOn
    /\ UNCHANGED <<tables, free_list, clock_hand, last_page_id, memory, stats,
                   sock, pc, req, frame, batch, handle>>

ScanTake ==
    /\ Scanning
    /\ Wanted
    /\ free_list # <<>>
    /\ batch' = Append(batch, [page |-> scan.next,
                               frame |-> free_list[Len(free_list)],
                               data |-> Zero])
    /\ free_list' = SubSeq(free_list, 1, Len(free_list) - 1)
    /\ ScanOn
    /\ UNCHANGED <<tables, clock_hand, last_page_id, memory, stats, sock, pc,
                   req, frame, handle>>

\* Back from dsm_prefetch_pages: to the caller, or to the access that
\* triggered it, which records the page and returns its frame.
PrefetchDone ==
    /\ Return
    /\ IF req.mode = "none"
       THEN UNCHANGED <<last_page_id, handle>>
       ELSE /\ last_page_id' = req.page
            /\ handle' = [page |-> req.page, frame |-> frame, mode |-> req.mode]

\* The loop ends: limits reached, end of the address space, or no free frame.
ScanEnd ==
    /\ pc = "scan"
    /\ Scanning => Wanted /\ free_list = <<>>
    /\ IF batch = <<>>
       THEN PrefetchDone
       ELSE pc' = "batch" /\ UNCHANGED <<locals, last_page_id, handle>>
    /\ UNCHANGED <<tables, free_list, clock_hand, memory, stats, sock>>

\* Mutant: the pages received are not stored in bufs.
BatchFetchDropsReply ==
    /\ pc = "batch"
    /\ sock = "up"
    /\ pc' = "install"
    /\ UNCHANGED <<tables, free_list, clock_hand, last_page_id, memory, stats,
                   sock, locals, handle>>

\* dsm_rpc_get_batch succeeds: every page is in bufs.
BatchFetch ==
    /\ pc = "batch"
    /\ sock = "up"
    /\ batch' = [i \in 1 .. Len(batch) |->
                    [batch[i] EXCEPT !.data = store[batch[i].page]]]
    /\ pc' = "install"
    /\ UNCHANGED <<tables, free_list, clock_hand, last_page_id, memory, stats,
                   sock, req, frame, scan, handle>>

\* dsm_rpc_get_batch fails.
BatchFail ==
    /\ pc = "batch"
    /\ sock' = IF sock = "up" THEN "dead" ELSE sock
    /\ pc' = "putback"
    /\ UNCHANGED <<tables, free_list, clock_hand, last_page_id, memory, stats,
                   locals, handle>>

\* One iteration of the loop that copies the batch into its frames.
BatchInstall ==
    /\ pc = "install"
    /\ batch # <<>>
    /\ LET e == Head(batch) IN
       /\ local_memory' = [local_memory EXCEPT ![e.frame] = e.data]
       /\ frame_number' = [frame_number EXCEPT ![e.page] = e.frame]
       /\ valid' = valid \cup {e.page}
       /\ reference_bit' = reference_bit \ {e.page}
       /\ dirty' = dirty \ {e.page}
       /\ page_number' = [page_number EXCEPT ![e.frame] = e.page]
       /\ occupied' = occupied \cup {e.frame}
    /\ remote_fetches' = Bump(remote_fetches, 1)
    /\ batch' = Tail(batch)
    /\ UNCHANGED <<remote, free_list, clock_hand, last_page_id, store, local_hits,
                   evictions, sock, pc, req, frame, scan, handle>>

\* One iteration of the loop that returns the frames of a failed batch.
BatchPutBack ==
    /\ pc = "putback"
    /\ batch # <<>>
    /\ free_list' = Append(free_list, Head(batch).frame)
    /\ batch' = Tail(batch)
    /\ UNCHANGED <<tables, clock_hand, last_page_id, memory, stats, sock, pc,
                   req, frame, scan, handle>>

BatchEnd ==
    /\ pc \in {"install", "putback"}
    /\ batch = <<>>
    /\ PrefetchDone
    /\ UNCHANGED <<tables, free_list, clock_hand, memory, stats, sock>>

-----------------------------------------------------------------------------
(* Callers and environment *)

\* The caller stores through the pointer of a write access.
UserWrite(v) ==
    /\ pc = "idle"
    /\ handle.mode = "write"
    /\ local_memory' = [local_memory EXCEPT ![handle.frame] = v]
    /\ UNCHANGED <<tables, free_list, clock_hand, last_page_id, store, stats,
                   sock, pc, locals, handle>>

\* dsm_context_set_socket with a connected socket, the first or a new one.
SetSocket ==
    /\ pc = "idle"
    /\ sock # "up"
    /\ sock' = "up"
    /\ UNCHANGED <<tables, free_list, clock_hand, last_page_id, memory, stats,
                   pc, locals, handle>>

\* run_benchmark declares the pages above its cache size remote before it
\* makes its first access.
BenchmarkLocations ==
    /\ pc = "idle"
    /\ sock = "up"
    /\ last_page_id = NoPage /\ handle = NoHandle
    /\ valid = {} /\ remote = {}
    /\ remote' = {p \in Page : p >= NumPages}
    /\ UNCHANGED <<frame_number, valid, reference_bit, dirty, page_number,
                   occupied, free_list, clock_hand, last_page_id, memory, stats,
                   sock, pc, locals, handle>>

\* Another client's dsm_rpc_put reaches the server.
OtherPut(p, v) ==
    /\ store' = [store EXCEPT ![p] = v]
    /\ UNCHANGED <<tables, free_list, clock_hand, last_page_id, local_memory,
                   stats, sock, pc, locals, handle>>

\* dsm_destroy_context: nothing is written back.
Destroy ==
    /\ pc = "idle"
    /\ pc' = "closed"
    /\ handle' = NoHandle
    /\ UNCHANGED <<tables, free_list, clock_hand, last_page_id, memory, stats,
                   sock, locals>>

Closed == pc = "closed" /\ UNCHANGED vars

\* The steps of the thread that executes a call.
Step ==
    \/ ClockPass \/ EvictClean \/ EvictWriteback \/ WritebackFail \/ WritebackKilled
    \/ FetchRemote \/ FetchInMemory \/ FetchFail
    \/ ScanSkip \/ ScanTake \/ ScanEnd
    \/ BatchFetch \/ BatchFail \/ BatchInstall \/ BatchPutBack \/ BatchEnd

Next ==
    \/ Step
    \/ \E p \in Page, mode \in {"read", "write"} :
            AccessHit(p, mode) \/ AccessMiss(p, mode)
    \/ \E start \in Id, count \in HintCounts : PrefetchCall(start, count)
    \/ \E v \in Value : UserWrite(v)
    \/ SetSocket
    \/ BenchmarkLocations
    \/ \E p \in Shared, v \in Value : OtherPut(p, v)
    \/ Destroy
    \/ Closed

Spec == Init /\ [][Next]_vars

ConnectedSpec == ConnectedInit /\ [][Next]_vars

\* The thread that runs a call is scheduled, and every RPC ends: with an
\* answer or with an error of the connection.
LiveSpec == ConnectedSpec /\ WF_vars(Step)

-----------------------------------------------------------------------------
(* Properties *)

TypeOK ==
    /\ frame_number \in [Page -> Frame]
    /\ valid \subseteq Page /\ reference_bit \subseteq Page
    /\ dirty \subseteq Page /\ remote \subseteq Page
    /\ page_number \in [Frame -> Page]
    /\ occupied \subseteq Frame
    /\ free_list \in Seq(Frame)
    /\ clock_hand \in Frame
    /\ last_page_id \in Id
    /\ local_memory \in [Frame -> Value]
    /\ store \in [Page -> Value]
    /\ local_hits \in 0 .. CounterSpace - 1
    /\ remote_fetches \in 0 .. CounterSpace - 1
    /\ evictions \in 0 .. CounterSpace - 1
    /\ sock \in {"none", "up", "dead"}
    /\ pc \in {"idle", "evict", "fetch", "scan", "batch", "install", "putback",
               "closed"}
    /\ req \in [page : Page, mode : {"none", "read", "write"}]
    /\ frame \in Frame
    /\ scan \in [next : Id, left : Nat]
    /\ batch \in Seq([page : Page, frame : Frame, data : Value])
    /\ handle \in [page : Page, frame : Frame, mode : {"none", "read", "write"}]

\* A frame is on the free list, occupied, or in the hands of the call in
\* progress; never in two of these places, never twice on the free list and
\* never lost.  get_free_frame, push_free_frame, evict_page and every error
\* path that returns a frame (failed fetch, failed batch) rely on it:
\* free_list has room for exactly num_pages entries.
FramePartition ==
    /\ \A i, j \in 1 .. Len(free_list) :
            free_list[i] = free_list[j] => i = j
    /\ \A i \in 1 .. Len(free_list) : free_list[i] \notin occupied
    /\ \A i, j \in 1 .. Len(batch) :
            batch[i].frame = batch[j].frame => i = j
    /\ \A i \in 1 .. Len(batch) :
            /\ batch[i].frame \notin occupied
            /\ \A j \in 1 .. Len(free_list) : batch[i].frame # free_list[j]
    /\ pc = "fetch" =>
            /\ frame \notin occupied
            /\ \A j \in 1 .. Len(free_list) : frame # free_list[j]
    /\ \A f \in Frame :
            \/ f \in occupied
            \/ \E j \in 1 .. Len(free_list) : free_list[j] = f
            \/ \E i \in 1 .. Len(batch) : batch[i].frame = f
            \/ pc = "fetch" /\ frame = f

\* The page table and the frame table are inverse to each other on cached
\* pages: evict_page finds its victim's entry through frame_table, accesses
\* find the frame through page_table.
TablesAgree ==
    /\ \A p \in valid : /\ frame_number[p] \in occupied
                        /\ page_number[frame_number[p]] = p
    /\ \A f \in occupied : /\ page_number[f] \in valid
                           /\ frame_number[page_number[f]] = f

\* A cached page that is not dirty is what the server holds, so evict_page
\* may drop it without a writeback.
CleanMatchesStore ==
    \A p \in (valid \cap remote) \ (dirty \cup Shared) :
        local_memory[frame_number[p]] = store[p]

\* evict_page's endless loop has victims to find: it runs only when every
\* frame is occupied.
EvictHasVictims == pc = "evict" => occupied = Frame

\* The pointer an access returned stays the page's memory until the next
\* access: no prefetch, and no failed call, moves or drops the page, and a
\* page handed out for writing is marked dirty.
PointerStable ==
    handle.mode # "none" =>
        /\ handle.page \in valid
        /\ frame_number[handle.page] = handle.frame
        /\ handle.mode = "write" => handle.page \in dirty

\* What the client would read from page p.
Content(p) == IF p \in valid THEN local_memory[frame_number[p]] ELSE store[p]

\* No step changes a private page of a connected client except the client's
\* own store through a write pointer to it: not eviction with or without
\* writeback, not a failed writeback, a failed fetch or a failed batch, not
\* the installation of prefetched pages over frames just freed.
ContentStep ==
    \A p \in Page \ Shared :
        \/ Content(p)' = Content(p)
        \/ p \notin remote'
        \/ pc = "idle" /\ handle.page = p /\ handle.mode = "write"

ContentPreserved == [][ContentStep]_vars

\* With a socket from the start, every frame in use was paid for by exactly
\* one counted fetch and every eviction gave one back
\* (dsm_context_get_stats), however often calls failed in between.
StatsBalance ==
    (remote_fetches - evictions) % CounterSpace
        = Cardinality(occupied) % CounterSpace

\* Every call ends: the clock finds a victim, the prefetch loops end.
CallsReturn == (pc \notin {"idle", "closed"}) ~> (pc \in {"idle", "closed"})

\* The detailed pager implements the memory SharedMemory promises.
View == [page |-> handle.page, mode |-> handle.mode,
         data |-> IF handle.mode = "none" THEN Zero ELSE local_memory[handle.frame]]

Abstract == INSTANCE SharedMemory
              WITH mem <- [p \in Page |-> Content(p)], view <- View

Refines == Abstract!Spec

-----------------------------------------------------------------------------
(* The inductive invariant behind the invariants above *)

\* What the locals of the call in progress say about the tables.
CallState ==
    /\ pc \in {"idle", "closed"} => req.mode = "none"
    /\ pc \in {"idle", "closed", "evict", "fetch"} => batch = <<>>
    /\ pc = "evict" => free_list = <<>>
    /\ pc \in {"evict", "fetch"} =>
            req.mode # "none" /\ req.page \notin valid
    /\ req.mode # "none" => handle.mode = "none"
    /\ pc \notin {"evict", "fetch"} /\ req.mode # "none" =>
            /\ req.page \in valid
            /\ frame_number[req.page] = frame
            /\ req.mode = "write" => req.page \in dirty

\* The pages of a batch are distinct, uncached and remote, and what
\* dsm_rpc_get_batch received is what the server holds.
BatchState ==
    /\ \A i \in 1 .. Len(batch) :
            /\ batch[i].page \notin valid
            /\ pc = "scan" => batch[i].page < scan.next
            /\ pc = "install" /\ batch[i].page \notin Shared =>
                    batch[i].data = store[batch[i].page]
    /\ \A i, j \in 1 .. Len(batch) :
            batch[i].page = batch[j].page => i = j

\* Conjunction of everything a step needs to know about the state before it.
IInv ==
    /\ TypeOK
    /\ FramePartition
    /\ TablesAgree
    /\ CleanMatchesStore
    /\ PointerStable
    /\ CallState
    /\ BatchState
=============================================================================
