------------------------- MODULE ClientProgramProofs -------------------------
(***************************************************************************)
(* What the client binary reports is true, for every cache size, every     *)
(* number of pages, every interleaving with other clients and every        *)
(* failure.                                                                *)
(*                                                                         *)
(* The program takes steps of Pager only, so that Pager's inductive        *)
(* invariant holds in it; the first sections show this.  The rest follows  *)
(* run_verify's two passes: a page that pass 1 has filled stays sealed,    *)
(* wherever evictions, prefetches and failures move it.                    *)
(***************************************************************************)
EXTENDS ClientProgram, PagerProofs

\* Where main is in run_verify, in run_benchmark, in either of them or just
\* back, and where it waits for dsm_access_page.
Verifying == {"fill", "filled", "check", "checked", "mismatch"}
Drawing   == {"draw", "drawn"}
Running   == Verifying \cup Drawing \cup {"return"}
Calling   == {"filled", "checked", "drawn"}

\* Nothing has been asked of the context yet.
Unused ==
    /\ pc = "idle" /\ sock = "none"
    /\ valid = {} /\ remote = {} /\ batch = <<>> /\ handle = NoHandle

\* What main knows of its configuration and its context.
Stage ==
    /\ at \in {"main", "connect", "unfollowed"} => Unused
    /\ at \in Running => Connected
    /\ at = "exit" => Unused \/ (Connected /\ pc \in {"idle", "closed"})
    /\ at \in Running \ Calling => pc = "idle"
    /\ at \in Running \cup {"connect"} => Accepted(cfg) /\ Fits(cfg)
    /\ at \in Verifying => cfg.verify_mode
    /\ at \in Drawing => ~cfg.verify_mode

\* The page and mode of the access the loop bodies of run_verify wait for.
Awaits(mode) ==
    /\ i < cfg.num_virtual_pages
    /\ req.mode # "none" => req.page = i /\ req.mode = mode
    /\ handle.mode # "none" => handle.page = i /\ handle.mode = mode

Progress ==
    /\ at \in Calling /\ pc \notin {"idle", "closed"} => req.mode # "none"
    /\ at \in {"main", "connect"} => i = 0 /\ attempt < MaxRetries
    /\ at = "filled" => Awaits("write")
    /\ at = "checked" => Awaits("read")

\* Page p holds its pattern wherever a copy of it counts.
Sealed(p) ==
    /\ p \in valid => local_memory[frame_number[p]] = Pattern(p)
    /\ p \in valid \cap dirty \/ store[p] = Pattern(p)
    /\ pc = "install" =>
            \A k \in 1 .. Len(batch) : batch[k].page = p => batch[k].data = Pattern(p)

\* The pages that pass 1 has filled.
Done ==
    {p \in Own : \/ at \in {"fill", "filled"} /\ p < i
                 \/ at \in {"check", "checked"}
                 \/ Verified}

ProgIInv ==
    /\ IInv
    /\ ProgTypeOK
    /\ Stage
    /\ Progress
    /\ \A p \in Done : Sealed(p)
    /\ NoFalseAlarm

-----------------------------------------------------------------------------
(* The program takes steps of the pager *)

\* A pattern is a page content.
LEMMA PatternValue == \A p \in Nat : p % PatternSpace \in Value
  <1> TAKE p \in Nat
  <1>1. PatternSpace \in Nat \ {0} /\ 0 .. PatternSpace - 1 \subseteq Value
    BY ClientAssumption
  <1>2. p % PatternSpace \in 0 .. PatternSpace - 1
    BY <1>1, ModRange
  <1>3. QED
    BY <1>1, <1>2

\* The pages of a configuration the instance stands for are Pager's.
LEMMA RangeIsPages ==
    ASSUME ProgTypeOK, Fits(cfg)
    PROVE  /\ cfg.num_virtual_pages \in Nat
           /\ \A p \in Nat : p < cfg.num_virtual_pages => p \in Page
  <1>1. cfg.num_virtual_pages \in Nat
    BY PagerAssumption DEF ProgTypeOK, Id
  <1>2. cfg.num_virtual_pages <= NumVirtualPages
    BY <1>1, ClientAssumption, PagerAssumption DEF Fits
  <1>3. QED
    BY <1>1, <1>2, PagerAssumption DEF Page

\* An access of a page of the context is a step of the pager.
LEMMA AccessIsNext ==
    ASSUME NEW p \in Page, NEW mode \in {"read", "write"}, Access(p, mode)
    PROVE  Next
  BY DEF Access, Next

\* Everything the program does, and what other clients do, is a step of the
\* pager or leaves it alone, except that run_benchmark sets the socket and
\* the locations in one step here.
LEMMA StepsOfPager ==
    ASSUME ProgIInv, [ProgNext]_progvars
    PROVE  [Next]_vars \/ ConnectBenchmark
  <1> USE DEF ProgIInv
  <1>1. CASE Configure \/ ConnectFail \/ SetupFail \/ FillEnd \/ Matches \/ Mismatch
             \/ NoAccess \/ VerifyOk \/ DrawKilled \/ BenchmarkRead \/ BenchmarkNull
             \/ BenchmarkEnd \/ Killed \/ UNCHANGED progvars
    <2>1. UNCHANGED vars
      BY <1>1 DEF Configure, ConnectFail, SetupFail, FillEnd, Matches, Mismatch, NoAccess,
                  VerifyOk, DrawKilled, BenchmarkRead, BenchmarkNull, BenchmarkEnd, Killed,
                  progvars
    <2>2. QED
      BY <2>1
  <1>2. CASE Fill \/ Check
    <2>1. i \in Nat /\ i < cfg.num_virtual_pages /\ Fits(cfg)
      BY <1>2 DEF Fill, Check, Stage, Running, Verifying, ProgTypeOK
    <2>2. i \in Page
      BY <2>1, RangeIsPages
    <2>3. Access(i, "write") \/ Access(i, "read")
      BY <1>2 DEF Fill, Check
    <2>4. QED
      BY <2>2, <2>3, AccessIsNext
  <1>3. CASE Draw
    <2>1. Fits(cfg)
      BY <1>3 DEF Draw, Stage, Running, Verifying, Drawing
    <2>2. cfg.num_virtual_pages \in Nat
      BY <2>1, RangeIsPages
    <2>3. PICK p \in 0 .. cfg.num_virtual_pages - 1, mode \in {"read", "write"} :
              Access(p, mode)
      BY <1>3 DEF Draw
    <2>4. p \in Nat /\ p < cfg.num_virtual_pages
      BY <2>2
    <2>5. p \in Page
      BY <2>1, <2>4, RangeIsPages
    <2>6. QED
      BY <2>3, <2>5, AccessIsNext
  <1>4. CASE Filled \/ BenchmarkWrite
    <2>1. i \in Nat
      BY DEF ProgTypeOK
    <2>2. UserWrite(i % PatternSpace)
      BY <1>4 DEF Filled, BenchmarkWrite, Pattern
    <2>3. QED
      BY <2>1, <2>2, PatternValue DEF Next
  <1>5. CASE OtherClient
    BY <1>5 DEF OtherClient, Next
  <1>6. CASE ConnectVerify \/ Finish \/ Step
    BY <1>6 DEF ConnectVerify, Finish, Next
  <1>7. CASE ConnectBenchmark
    BY <1>7
  <1>8. QED
    BY <1>1, <1>2, <1>3, <1>4, <1>5, <1>6, <1>7 DEF ProgNext, Program

\* Setting the socket and the locations of an unused context.
LEMMA BenchmarkConnects ==
    ASSUME ProgIInv, ConnectBenchmark
    PROVE  /\ IInv' /\ Connected'
           /\ UNCHANGED <<valid, frame_number, memory, handle, pc, batch, req>>
  <1> USE DEF memory, stats, locals
  <1>1. /\ Unused /\ IInv /\ Fits(cfg) /\ ProgTypeOK
        /\ cfg.num_virtual_pages \in Nat
        /\ \A p \in Nat : p < cfg.num_virtual_pages => p \in Page
    <2>1. Unused /\ IInv /\ Fits(cfg) /\ ProgTypeOK
      BY DEF ConnectBenchmark, ProgIInv, Stage
    <2>2. QED
      BY <2>1, RangeIsPages
  <1>2. /\ UNCHANGED <<frame_number, valid, reference_bit, dirty, page_number,
                       occupied, free_list, clock_hand, last_page_id, memory, stats,
                       pc, locals, handle>>
        /\ sock' = "up"
    BY DEF ConnectBenchmark
  <1>3. remote' \subseteq Page
    <2>1. \A p \in NumPages .. cfg.num_virtual_pages - 1 :
              p \in Nat /\ p < cfg.num_virtual_pages
      BY <1>1, PagerAssumption
    <2>2. QED
      BY <1>1, <2>1 DEF ConnectBenchmark
  <1>4. TypeOK'
    BY <1>1, <1>2, <1>3 DEF IInv, TypeOK
  <1>5. FramePartition'
    <2>1. FramePartition /\ UNCHANGED <<free_list, occupied, batch, pc, frame>>
      BY <1>1, <1>2 DEF IInv
    <2>2. QED
      BY <2>1 DEF FramePartition
  <1>6. TablesAgree' /\ CleanMatchesStore' /\ PointerStable'
    BY <1>1, <1>2 DEF IInv, Unused, TablesAgree, CleanMatchesStore, PointerStable
  <1>7. CallState'
    BY <1>1, <1>2 DEF IInv, CallState
  <1>8. BatchState' /\ Connected'
    BY <1>1, <1>2, EmptySeq DEF Unused, BatchState, Connected
  <1>9. QED
    BY <1>2, <1>4, <1>5, <1>6, <1>7, <1>8 DEF IInv

\* The pager's invariant holds in the program.
LEMMA PagerKept ==
    ASSUME ProgIInv, [ProgNext]_progvars
    PROVE  IInv'
  BY StepsOfPager, NextKeeps, BenchmarkConnects DEF ProgIInv

-----------------------------------------------------------------------------
(* The program's own variables *)

\* Every variable of main keeps its type: the virtual size wraps within
\* uint32_t, the retries are bounded, run_benchmark draws pages of the range.
LEMMA TypesKept ==
    ASSUME ProgIInv, [ProgNext]_progvars
    PROVE  ProgTypeOK'
  <1> USE DEF ProgIInv
  <1>0. TypeOK' /\ ProgTypeOK
    BY PagerKept DEF IInv
  <1>1. CASE Configure
    <2>1. cfg' \in [num_pages : Id, num_virtual_pages : Id, all_local : BOOLEAN,
                    verify_mode : BOOLEAN]
      <3>1. 4 * cfg.num_pages \in Nat /\ IdSpace \in Nat \ {0}
        BY <1>0, PagerAssumption DEF ProgTypeOK, Id
      <3>2. (4 * cfg.num_pages) % IdSpace \in Id
        BY <3>1, ModRange DEF Id
      <3>3. QED
        BY <1>0, <1>1, <3>2 DEF Configure, Forced, ProgTypeOK
    <2>2. /\ at' \in {"connect", "unfollowed", "exit"} /\ exit_code' \in {1, exit_code}
          /\ UNCHANGED <<attempt, i, page_id>>
      BY <1>1 DEF Configure
    <2>3. QED
      BY <1>0, <2>1, <2>2 DEF ProgTypeOK
  <1>2. CASE ConnectFail
    <2>1. attempt < MaxRetries
      BY <1>2 DEF ConnectFail, Progress
    <2>2. attempt' \in 0 .. MaxRetries
      BY <1>0, <1>2, <2>1, ClientAssumption DEF ConnectFail, ProgTypeOK
    <2>3. /\ at' \in {"connect", "exit"} /\ exit_code' \in {1, exit_code}
          /\ UNCHANGED <<cfg, i, page_id>>
      BY <1>2 DEF ConnectFail
    <2>4. QED
      BY <1>0, <2>2, <2>3 DEF ProgTypeOK
  <1>3. CASE Draw
    <2>1. Fits(cfg)
      BY <1>3 DEF Draw, Stage, Running, Verifying, Drawing
    <2>2. cfg.num_virtual_pages \in Nat
      BY <2>1, RangeIsPages
    <2>3. page_id' \in 0 .. cfg.num_virtual_pages - 1
      BY <1>3 DEF Draw
    <2>4. page_id' \in Nat /\ page_id' < cfg.num_virtual_pages
      BY <2>2, <2>3
    <2>5. page_id' \in Page
      BY <2>1, <2>4, RangeIsPages
    <2>6. at' = "drawn" /\ UNCHANGED <<cfg, attempt, i, exit_code>>
      BY <1>3 DEF Draw
    <2>7. QED
      BY <1>0, <2>5, <2>6 DEF ProgTypeOK
  <1>4. CASE \/ SetupFail \/ ConnectVerify \/ ConnectBenchmark \/ Fill \/ Filled
             \/ FillEnd \/ Check \/ Matches \/ Mismatch \/ NoAccess \/ VerifyOk
             \/ DrawKilled \/ BenchmarkWrite \/ BenchmarkRead \/ BenchmarkNull
             \/ BenchmarkEnd \/ Finish \/ Killed \/ UNCHANGED prog
    <2>1. /\ UNCHANGED <<cfg, attempt, page_id>>
          /\ i' \in {i, i + 1, 0} /\ exit_code' \in {exit_code, 0, 1, 3}
          /\ at' \in {at, "exit", "fill", "filled", "check", "checked", "mismatch",
                      "draw", "return"}
      BY <1>4 DEF SetupFail, ConnectVerify, ConnectBenchmark, Fill, Filled, FillEnd, Check,
                  Matches, Mismatch, NoAccess, VerifyOk, DrawKilled, BenchmarkWrite,
                  BenchmarkRead, BenchmarkNull, BenchmarkEnd, Finish, Killed,
                  NextIteration, ReturnCode, prog
    <2>2. QED
      BY <1>0, <2>1 DEF ProgTypeOK
  <1>5. QED
    BY <1>1, <1>2, <1>3, <1>4 DEF ProgNext, Program, OtherClient, progvars

\* A call that has not returned keeps its request; when it returns a pointer,
\* the pointer is the one asked for.
LEMMA CallSteps ==
    ASSUME IInv, Step, req.mode # "none"
    PROVE  /\ pc' \in {"idle", "closed"} \/ req' = req
           /\ \/ handle' = handle
              \/ handle' = [page |-> req.page, frame |-> frame, mode |-> req.mode]
  <1> USE DEF Return, locals
  <1>1. CASE ClockPass \/ WritebackKilled \/ ScanSkip \/ ScanTake \/ BatchFetch \/ BatchFail
             \/ BatchInstall \/ BatchPutBack
    BY <1>1 DEF ClockPass, WritebackKilled, ScanSkip, ScanTake, BatchFetch, BatchFail,
                BatchInstall, BatchPutBack
  <1>2. CASE EvictClean \/ EvictWriteback \/ WritebackFail \/ FetchFail
    BY <1>2 DEF EvictClean, EvictWriteback, Evict, WritebackFail, FetchFail
  <1>3. CASE FetchRemote \/ FetchInMemory
    BY <1>3 DEF FetchRemote, FetchInMemory, Install
  <1>4. CASE ScanEnd \/ BatchEnd
    BY <1>4 DEF ScanEnd, BatchEnd, PrefetchDone
  <1>5. QED
    BY <1>1, <1>2, <1>3, <1>4 DEF Step

\* The configuration and the context stay as main left them: connected from
\* the moment the mode starts, and at rest between two accesses.
LEMMA StageKept ==
    ASSUME ProgIInv, [ProgNext]_progvars
    PROVE  Stage'
  <1> USE DEF Running, Verifying, Drawing, Calling
  <1>0. IInv /\ Stage
    BY DEF ProgIInv
  <1>1. CASE Configure
    <2>1. Unused /\ UNCHANGED vars
      BY <1>0, <1>1 DEF Configure, Stage
    <2>2. Unused'
      BY <2>1 DEF Unused, vars, tables, locals
    <2>3. at' \in {"unfollowed", "exit"} \/ (at' = "connect" /\ Accepted(cfg') /\ Fits(cfg'))
      BY <1>1 DEF Configure
    <2>4. QED
      BY <2>2, <2>3 DEF Stage, Accepted, Fits
  <1>2. CASE ConnectFail \/ SetupFail
    <2>1. /\ Unused /\ Accepted(cfg) /\ Fits(cfg)
          /\ UNCHANGED <<vars, cfg>> /\ at' \in {"connect", "exit"}
      BY <1>0, <1>2 DEF ConnectFail, SetupFail, Stage
    <2>2. Unused'
      BY <2>1 DEF Unused, vars, tables, locals
    <2>3. QED
      BY <2>1, <2>2 DEF Stage, Accepted, Fits
  <1>3. CASE ConnectVerify
    <2>1. /\ Unused /\ Accepted(cfg) /\ Fits(cfg) /\ cfg.verify_mode
          /\ UNCHANGED <<cfg, valid, batch, pc>> /\ sock' = "up" /\ at' = "fill"
      BY <1>0, <1>3 DEF ConnectVerify, SetSocket, Stage, tables, locals
    <2>2. Connected' /\ pc' = "idle"
      BY <2>1, EmptySeq DEF Unused, Connected
    <2>3. QED
      BY <2>1, <2>2 DEF Stage, Accepted, Fits
  <1>4. CASE ConnectBenchmark
    <2>1. /\ Unused /\ Accepted(cfg) /\ Fits(cfg) /\ ~cfg.verify_mode
          /\ cfg' = cfg /\ at' = "draw"
      BY <1>0, <1>4 DEF ConnectBenchmark, Stage
    <2>2. Connected' /\ pc' = "idle"
      BY <1>4, <2>1, BenchmarkConnects DEF Unused
    <2>3. QED
      BY <2>1, <2>2 DEF Stage, Accepted, Fits
  <1>5. ASSUME at \in Running, [Next]_vars, cfg' = cfg,
               \/ at' = "exit" /\ pc' \in {"idle", "closed"}
               \/ at' = "return" /\ pc' = "idle"
               \/ at \in Verifying /\ at' \in Verifying
               \/ at \in Drawing /\ at' \in Drawing,
               at' \in Running \ Calling => pc' = "idle"
        PROVE  Stage'
    <2>1. Connected /\ Accepted(cfg) /\ Fits(cfg)
      BY <1>0, <1>5 DEF Stage
    <2>2. Connected' /\ Accepted(cfg') /\ Fits(cfg')
      BY <1>0, <1>5, <2>1, ConnectedKeeps DEF Known
    <2>3. CASE at' \in {"exit", "return"}
      BY <1>5, <2>2, <2>3 DEF Stage, Accepted, Fits
    <2>4. CASE at \in Verifying /\ at' \in Verifying
      <3>1. cfg'.verify_mode
        BY <1>0, <1>5, <2>4 DEF Stage
      <3>2. QED
        BY <1>5, <2>2, <2>4, <3>1 DEF Stage, Accepted, Fits
    <2>5. CASE at \in Drawing /\ at' \in Drawing
      <3>1. ~cfg'.verify_mode
        BY <1>0, <1>5, <2>5 DEF Stage
      <3>2. QED
        BY <1>5, <2>2, <2>5, <3>1 DEF Stage, Accepted, Fits
    <2>6. QED
      BY <1>5, <2>3, <2>4, <2>5
  <1>6. CASE Fill \/ Check \/ Draw
    BY <1>5, <1>6, StepsOfPager DEF Fill, Check, Draw, ConnectBenchmark
  <1>7. CASE Filled \/ BenchmarkWrite
    BY <1>5, <1>7, StepsOfPager DEF Filled, BenchmarkWrite, NextIteration, UserWrite,
       ConnectBenchmark
  <1>8. CASE FillEnd \/ Matches \/ Mismatch \/ NoAccess \/ VerifyOk \/ DrawKilled
             \/ BenchmarkRead \/ BenchmarkNull \/ BenchmarkEnd
    <2>1. pc = "idle" /\ UNCHANGED <<vars, cfg>>
      BY <1>0, <1>8 DEF FillEnd, Matches, Mismatch, NoAccess, VerifyOk, DrawKilled,
                  BenchmarkRead, BenchmarkNull, BenchmarkEnd, Returned, Null, ReturnCode,
                  NextIteration, Stage
    <2>2. pc' = "idle"
      BY <2>1 DEF vars
    <2>3. QED
      BY <1>5, <1>8, <2>1, <2>2 DEF FillEnd, Matches, Mismatch, NoAccess, VerifyOk,
         DrawKilled, BenchmarkRead, BenchmarkNull, BenchmarkEnd, ReturnCode, NextIteration
  <1>9. CASE Finish
    BY <1>5, <1>9, StepsOfPager DEF Finish, Destroy, ConnectBenchmark
  <1>10. CASE Killed
    <2>1. at \in Running /\ UNCHANGED <<vars, cfg>> /\ pc = "closed" /\ at' = "exit"
      BY <1>0, <1>10 DEF Killed, Stage, Unused, ProgIInv, ProgTypeOK
    <2>2. pc' = "closed"
      BY <2>1 DEF vars
    <2>3. QED
      BY <1>5, <2>1, <2>2
  <1>11. CASE Step /\ UNCHANGED prog
    <2>1. pc \notin {"idle", "closed"}
      BY <1>11, StepOfCall
    <2>2. at \in Calling
      BY <1>0, <2>1 DEF Stage, Unused, ProgIInv, ProgTypeOK
    <2>3. cfg' = cfg /\ at' = at /\ [Next]_vars
      BY <1>11 DEF prog, Next
    <2>4. QED
      BY <1>5, <2>2, <2>3
  <1>12. CASE OtherClient \/ UNCHANGED progvars
    <2>1. /\ UNCHANGED <<cfg, at, pc, sock, valid, remote, batch, handle>>
      BY <1>12 DEF OtherClient, OtherPut, prog, progvars, vars, tables, locals
    <2>2. QED
      BY <1>0, <2>1 DEF Stage, Unused, Connected, Accepted, Fits
  <1>13. QED
    BY <1>1, <1>2, <1>3, <1>4, <1>6, <1>7, <1>8, <1>9, <1>10, <1>11, <1>12
    DEF ProgNext, Program

\* Where the loops stand, and that the access they wait for is the one of
\* their page.
LEMMA ProgressKept ==
    ASSUME ProgIInv, [ProgNext]_progvars
    PROVE  Progress'
  <1> USE DEF Calling
  <1>0. IInv /\ IInv' /\ Stage /\ Progress
    BY PagerKept DEF ProgIInv
  <1>1. CASE Configure \/ ConnectFail \/ SetupFail
    BY <1>0, <1>1 DEF Configure, ConnectFail, SetupFail, Progress
  <1>2. CASE Fill \/ Check
    <2>1. PICK mode \in {"read", "write"} :
              /\ Access(i, mode) /\ i < cfg.num_virtual_pages /\ UNCHANGED <<i, cfg>>
              /\ at' = IF mode = "write" THEN "filled" ELSE "checked"
      BY <1>2 DEF Fill, Check
    <2>2. CASE AccessHit(i, mode)
      <3>1. /\ handle' = [page |-> i, frame |-> frame_number[i], mode |-> mode]
            /\ pc' = "idle"
        BY <2>2 DEF AccessHit
      <3>2. req'.mode = "none"
        BY <1>0, <3>1 DEF IInv, CallState
      <3>3. Awaits(mode)'
        BY <2>1, <3>1, <3>2 DEF Awaits
      <3>4. QED
        BY <2>1, <3>1, <3>3 DEF Progress
    <2>3. CASE AccessMiss(i, mode)
      <3>1. req' = [page |-> i, mode |-> mode] /\ handle' = NoHandle
        BY <2>3 DEF AccessMiss
      <3>2. Awaits(mode)' /\ req'.mode # "none"
        BY <2>1, <3>1 DEF Awaits, NoHandle
      <3>3. QED
        BY <2>1, <3>2 DEF Progress
    <2>4. QED
      BY <2>1, <2>2, <2>3 DEF Access
  <1>3. CASE Draw
    <2>1. PICK p \in 0 .. cfg.num_virtual_pages - 1, mode \in {"read", "write"} :
              Access(p, mode)
      BY <1>3 DEF Draw
    <2>2. pc' = "idle" \/ req' = [page |-> p, mode |-> mode]
      BY <2>1 DEF Access, AccessHit, AccessMiss
    <2>3. pc' = "idle" \/ req'.mode # "none"
      BY <2>2
    <2>4. at' = "drawn"
      BY <1>3 DEF Draw
    <2>5. QED
      BY <2>3, <2>4 DEF Progress
  <1>4. CASE \/ ConnectVerify \/ ConnectBenchmark \/ Filled \/ FillEnd \/ Matches
             \/ Mismatch \/ NoAccess \/ VerifyOk \/ DrawKilled \/ BenchmarkWrite
             \/ BenchmarkRead \/ BenchmarkNull \/ BenchmarkEnd \/ Finish \/ Killed
    <2>1. at' \in {"fill", "check", "mismatch", "draw", "return", "exit"}
      BY <1>4 DEF ConnectVerify, ConnectBenchmark, Filled, FillEnd, Matches, Mismatch,
         NoAccess, VerifyOk, DrawKilled, BenchmarkWrite, BenchmarkRead, BenchmarkNull,
         BenchmarkEnd, Finish, Killed, NextIteration, ReturnCode
    <2>2. QED
      BY <2>1 DEF Progress
  <1>5. CASE Step /\ UNCHANGED prog
    <2>1. pc \notin {"idle", "closed"} /\ UNCHANGED <<at, i, cfg>>
      BY <1>5, StepOfCall DEF prog
    <2>2. at \in Calling /\ req.mode # "none"
      BY <1>0, <2>1 DEF Stage, Running, Verifying, Drawing, Unused, Progress,
         ProgIInv, ProgTypeOK
    <2>3. /\ pc' \in {"idle", "closed"} \/ req' = req
          /\ \/ handle' = handle
             \/ handle' = [page |-> req.page, frame |-> frame, mode |-> req.mode]
      BY <1>0, <1>5, <2>2, CallSteps
    <2>4. req' = req \/ req'.mode = "none"
      BY <1>0, <2>3 DEF IInv, CallState
    <2>5. \A mode \in {"read", "write"} : Awaits(mode) => Awaits(mode)'
      BY <2>1, <2>2, <2>3, <2>4 DEF Awaits
    <2>6. QED
      BY <1>0, <2>1, <2>2, <2>3, <2>5 DEF Progress
  <1>6. CASE OtherClient \/ UNCHANGED progvars
    <2>1. UNCHANGED <<cfg, at, attempt, i, pc, req, handle>>
      BY <1>6 DEF OtherClient, OtherPut, prog, progvars, vars, locals
    <2>2. QED
      BY <1>0, <2>1 DEF Progress, Awaits
  <1>7. QED
    BY <1>1, <1>2, <1>3, <1>4, <1>5, <1>6 DEF ProgNext, Program

-----------------------------------------------------------------------------
(* Sealed pages *)

\* A step that moves no page, writes none and receives no batch.
LEMMA SealedUntouched ==
    ASSUME NEW p, Sealed(p),
           UNCHANGED <<valid, dirty, frame_number, local_memory, store>>,
           pc' # "install" \/ (pc = "install" /\ batch' = batch)
    PROVE  Sealed(p)'
  BY DEF Sealed

\* The victim leaves its frame: clean, or after the server has stored it; a
\* failed writeback may have stored it too.
LEMMA SealedEvict ==
    ASSUME Known, NEW p \in Page, Sealed(p), EvictClean \/ EvictWriteback \/ WritebackFail
    PROVE  Sealed(p)'
  <1> USE DEF Known, tables
  <1>1. /\ clock_hand \in occupied /\ HandPage \in valid /\ HandPage \in Page
        /\ frame_number[HandPage] = clock_hand /\ HandPage \in remote
    BY DEF IInv, TypeOK, TablesAgree, Connected, EvictClean, EvictWriteback, WritebackFail,
           AtVictim, HandPage
  <1>2. /\ UNCHANGED <<frame_number, local_memory>> /\ pc' # "install"
        /\ \/ valid' = valid \ {HandPage} /\ dirty' = dirty \ {HandPage}
           \/ UNCHANGED <<valid, dirty>>
    BY DEF EvictClean, EvictWriteback, WritebackFail, Evict, Return
  <1>3. CASE store' = [store EXCEPT ![HandPage] = local_memory[clock_hand]]
    <2>1. store'[p] = IF p = HandPage THEN local_memory[clock_hand] ELSE store[p]
      BY <1>1, <1>3 DEF IInv, TypeOK
    <2>2. QED
      BY <1>1, <1>2, <2>1 DEF Sealed
  <1>4. CASE store' = store /\ (EvictClean \/ WritebackFail)
    <2>1. EvictClean => HandPage \notin dirty
      BY <1>1 DEF EvictClean, NeedsWriteback
    <2>2. WritebackFail => UNCHANGED <<valid, dirty>>
      BY DEF WritebackFail
    <2>3. QED
      BY <1>1, <1>2, <1>4, <2>1, <2>2 DEF Sealed
  <1>5. QED
    BY <1>3, <1>4 DEF EvictClean, EvictWriteback, WritebackFail

\* A fetch overwrites only the frame it holds, and brings a sealed page in
\* as the server has it.
LEMMA SealedFetch ==
    ASSUME Known, NEW p \in Page, Sealed(p), FetchRemote \/ FetchFail
    PROVE  Sealed(p)'
  <1> USE DEF Known, tables
  <1>1. /\ pc = "fetch" /\ req.page \notin valid /\ req.page \in Page
        /\ frame \in Frame /\ frame \notin occupied
    BY DEF IInv, TypeOK, CallState, FramePartition, FetchRemote, FetchFail
  <1>2. p \in valid => frame_number[p] \in Frame /\ frame_number[p] # frame
    <2>1. frame_number \in [Page -> Frame] /\ TablesAgree
      BY DEF IInv, TypeOK
    <2>2. QED
      BY <1>1, <2>1 DEF TablesAgree
  <1>3. CASE FetchRemote
    <2>1. /\ local_memory' = [local_memory EXCEPT ![frame] = store[req.page]]
          /\ frame_number' = [frame_number EXCEPT ![req.page] = frame]
          /\ valid' = valid \cup {req.page} /\ store' = store
          /\ p # req.page => (p \in dirty' <=> p \in dirty)
          /\ pc' # "install"
      BY <1>3 DEF FetchRemote, Install, Return
    <2>2. CASE p = req.page
      <3>1. store[p] = Pattern(p)
        BY <1>1, <2>2 DEF Sealed
      <3>2. local_memory'[frame] = store[p] /\ frame_number'[p] = frame
        BY <1>1, <2>1, <2>2 DEF IInv, TypeOK
      <3>3. QED
        BY <2>1, <3>1, <3>2 DEF Sealed
    <2>3. CASE p # req.page
      <3>1. /\ frame_number'[p] = frame_number[p]
            /\ p \in valid => local_memory'[frame_number[p]] = local_memory[frame_number[p]]
        BY <1>1, <1>2, <2>1, <2>3 DEF IInv, TypeOK
      <3>2. QED
        BY <2>1, <2>3, <3>1 DEF Sealed
    <2>4. QED
      BY <2>2, <2>3
  <1>4. CASE FetchFail
    <2>1. /\ UNCHANGED <<valid, dirty, frame_number, store>> /\ pc' # "install"
          /\ \/ local_memory' = local_memory
             \/ local_memory' = [local_memory EXCEPT ![frame] = store[req.page]]
      BY <1>4 DEF FetchFail, Return
    <2>2. p \in valid => local_memory'[frame_number[p]] = local_memory[frame_number[p]]
      BY <1>1, <1>2, <2>1 DEF IInv, TypeOK
    <2>3. QED
      BY <2>1, <2>2 DEF Sealed
  <1>5. QED
    BY <1>3, <1>4

\* dsm_rpc_get_batch receives a sealed page as the server has it.
LEMMA SealedBatchFetch ==
    ASSUME Known, NEW p \in Page, Sealed(p), BatchFetch
    PROVE  Sealed(p)'
  <1> USE DEF Known, tables, memory
  <1>1. /\ UNCHANGED <<valid, dirty, frame_number, local_memory, store>>
        /\ batch' = [k \in 1 .. Len(batch) |->
                        [batch[k] EXCEPT !.data = store[batch[k].page]]]
    BY DEF BatchFetch
  <1>2. /\ Len(batch) \in Nat
        /\ \A k \in 1 .. Len(batch) :
               batch[k] \in [page : Page, frame : Frame, data : Value]
    BY BatchEntries DEF IInv
  <1>3. Len(batch') = Len(batch)
    BY <1>1, <1>2
  <1>4. \A k \in 1 .. Len(batch) : /\ batch[k].page \notin valid
                                   /\ batch'[k].page = batch[k].page
                                   /\ batch'[k].data = store[batch[k].page]
    BY <1>1, <1>2 DEF IInv, BatchState
  <1>5. QED
    BY <1>1, <1>3, <1>4 DEF Sealed

\* The head of the batch goes to a frame no cached page uses; a page it brings
\* in is clean, and what the server has.
LEMMA SealedBatchInstall ==
    ASSUME Known, NEW p \in Page, Sealed(p), BatchInstall
    PROVE  Sealed(p)'
  <1> USE DEF Known
  <1>1. PICK e : e = batch[1]
    OBVIOUS
  <1>2. /\ 1 \in 1 .. Len(batch) /\ Head(batch) = e
        /\ e.page \in Page /\ e.frame \in Frame
        /\ \A k \in 1 .. Len(batch') : k + 1 \in 1 .. Len(batch) /\ batch'[k] = batch[k + 1]
    <2>1. batch # <<>> /\ batch' = Tail(batch)
      BY DEF BatchInstall
    <2>2. Len(batch) \in Nat \ {0} /\ Head(batch) = batch[1]
      BY <2>1, BatchHead
    <2>3. /\ batch[1].page \in Page /\ batch[1].frame \in Frame
          /\ \A k \in 1 .. Len(batch') : k + 1 \in 1 .. Len(batch) /\ batch'[k] = batch[k + 1]
      BY <2>1, BatchHead
    <2>4. QED
      BY <1>1, <2>2, <2>3
  <1>3. e.page \notin valid /\ e.frame \notin occupied
    BY <1>1, <1>2 DEF IInv, BatchState, FramePartition
  <1>4. /\ local_memory' = [local_memory EXCEPT ![e.frame] = e.data]
        /\ frame_number' = [frame_number EXCEPT ![e.page] = e.frame]
        /\ valid' = valid \cup {e.page} /\ dirty' = dirty \ {e.page}
        /\ store' = store /\ pc = "install" /\ pc' = pc
    BY <1>2 DEF BatchInstall
  <1>5. \A k \in 1 .. Len(batch') : batch'[k].page = p => batch'[k].data = Pattern(p)
    BY <1>2, <1>4 DEF Sealed
  <1>6. CASE p = e.page
    <2>1. store[p] = Pattern(p) /\ e.data = Pattern(p)
      BY <1>1, <1>2, <1>3, <1>4, <1>6 DEF Sealed
    <2>2. local_memory'[e.frame] = e.data /\ frame_number'[p] = e.frame
      BY <1>2, <1>4, <1>6 DEF IInv, TypeOK
    <2>3. QED
      BY <1>4, <1>5, <2>1, <2>2 DEF Sealed
  <1>7. CASE p # e.page
    <2>1. p \in valid => frame_number[p] \in Frame /\ frame_number[p] # e.frame
      <3>1. frame_number \in [Page -> Frame] /\ TablesAgree
        BY DEF IInv, TypeOK
      <3>2. QED
        BY <1>3, <3>1 DEF TablesAgree
    <2>2. /\ frame_number'[p] = frame_number[p]
          /\ p \in valid => local_memory'[frame_number[p]] = local_memory[frame_number[p]]
      BY <1>2, <1>4, <1>7, <2>1 DEF IInv, TypeOK
    <2>3. QED
      BY <1>4, <1>5, <1>7, <2>2 DEF Sealed
  <1>8. QED
    BY <1>6, <1>7

\* A sealed page stays sealed in every step of an access.
LEMMA SealedStep ==
    ASSUME Known, NEW p \in Page, Sealed(p), Step
    PROVE  Sealed(p)'
  <1>1. CASE ClockPass \/ WritebackKilled \/ ScanSkip \/ ScanTake \/ ScanEnd \/ BatchFail
             \/ BatchPutBack \/ BatchEnd
    <2>1. /\ UNCHANGED <<valid, dirty, frame_number, local_memory, store>>
          /\ pc' # "install"
      BY <1>1 DEF ClockPass, WritebackKilled, ScanSkip, ScanTake, Scanning, ScanEnd,
         BatchFail, BatchPutBack, BatchEnd, PrefetchDone, Return, tables, memory
    <2>2. QED
      BY <2>1, SealedUntouched
  <1>2. CASE FetchInMemory
    BY <1>2 DEF FetchInMemory, Known, Connected
  <1>3. QED
    BY <1>1, <1>2, SealedEvict, SealedFetch, SealedBatchFetch, SealedBatchInstall DEF Step

\* Starting an access moves no page.
LEMMA SealedAccess ==
    ASSUME NEW p, Sealed(p), NEW q, NEW mode, Access(q, mode)
    PROVE  Sealed(p)'
  <1> USE DEF tables, memory, locals
  <1>1. CASE AccessHit(q, mode)
    BY <1>1 DEF AccessHit, Sealed
  <1>2. CASE AccessMiss(q, mode)
    BY <1>2, SealedUntouched DEF AccessMiss
  <1>3. QED
    BY <1>1, <1>2 DEF Access

\* A store through the pointer to page q leaves the others alone, and seals q
\* when it writes q's pattern.
LEMMA SealedWrite ==
    ASSUME IInv, NEW q \in Page, handle.mode = "write", handle.page = q,
           UserWrite(Pattern(q)), NEW p \in Page, Sealed(p) \/ p = q
    PROVE  Sealed(p)'
  <1> USE DEF tables
  <1>1. /\ q \in valid /\ frame_number[q] = handle.frame /\ q \in dirty
        /\ handle.frame \in Frame
    BY DEF IInv, TypeOK, PointerStable
  <1>2. /\ UNCHANGED <<valid, dirty, frame_number, store>> /\ pc = "idle" /\ pc' = "idle"
        /\ local_memory' = [local_memory EXCEPT ![handle.frame] = Pattern(q)]
    BY DEF UserWrite
  <1>3. CASE p = q
    <2>1. local_memory'[frame_number[p]] = Pattern(p)
      BY <1>1, <1>2, <1>3 DEF IInv, TypeOK
    <2>2. QED
      BY <1>1, <1>2, <1>3, <2>1 DEF Sealed
  <1>4. CASE p # q
    <2>1. p \in valid => frame_number[p] \in Frame /\ frame_number[p] # handle.frame
      <3>1. frame_number \in [Page -> Frame] /\ TablesAgree
        BY DEF IInv, TypeOK
      <3>2. QED
        BY <1>1, <1>4, <3>1 DEF TablesAgree
    <2>2. p \in valid => local_memory'[frame_number[p]] = local_memory[frame_number[p]]
      BY <1>1, <1>2, <2>1 DEF IInv, TypeOK
    <2>3. QED
      BY <1>2, <1>4, <2>2 DEF Sealed
  <1>5. QED
    BY <1>3, <1>4

\* Another client writes a page back: the sealed page's own pattern, or
\* another page.
LEMMA SealedOtherPut ==
    ASSUME IInv, NEW p \in Page, Sealed(p), NEW q, NEW v, OtherPut(q, v),
           q = p => v = Pattern(p)
    PROVE  Sealed(p)'
  <1>1. /\ UNCHANGED <<valid, dirty, frame_number, local_memory, pc, batch>>
        /\ store' = [store EXCEPT ![q] = v]
    BY DEF OtherPut, tables, locals
  <1>2. store'[p] = IF p = q THEN v ELSE store[p]
    BY <1>1 DEF IInv, TypeOK
  <1>3. QED
    BY <1>1, <1>2 DEF Sealed

-----------------------------------------------------------------------------
(* The two passes of run_verify *)

\* The pages run_verify relies on are pages of the context.
LEMMA OwnPages ==
    ASSUME ProgIInv, at \in Running
    PROVE  /\ cfg.num_virtual_pages \in Nat
           /\ \A p \in Own : p \in Page /\ p \in Nat /\ p < cfg.num_virtual_pages
  <1>1. Fits(cfg) /\ ProgTypeOK
    BY DEF ProgIInv, Stage
  <1>2. cfg.num_virtual_pages \in Nat
    BY <1>1, RangeIsPages
  <1>3. \A p \in Own : p \in Nat /\ p < cfg.num_virtual_pages
    BY <1>2 DEF Own
  <1>4. QED
    BY <1>1, <1>2, <1>3, RangeIsPages

\* Passes 1 and 2 in progress.
Passing == {"fill", "filled", "check", "checked"}

\* Pass 1 seals its pages one after the other, and nothing unseals one while
\* the passes last.
LEMMA SealsKept ==
    ASSUME ProgIInv, [ProgNext]_progvars
    PROVE  \A p \in Done' : Sealed(p)'
  <1> USE DEF Running, Verifying, Drawing, Calling, Passing
  <1>0. IInv /\ Stage /\ Progress /\ ProgTypeOK /\ \A p \in Done : Sealed(p)
    BY DEF ProgIInv
  <1>1. ASSUME at' \notin Passing, ~Verified'
        PROVE  Done' = {}
    BY <1>1 DEF Done
  <1>2. CASE \/ Configure \/ ConnectFail \/ SetupFail \/ ConnectBenchmark \/ Mismatch
             \/ NoAccess \/ Draw \/ DrawKilled \/ BenchmarkWrite \/ BenchmarkRead
             \/ BenchmarkNull \/ BenchmarkEnd \/ Finish \/ Killed
    <2>1. /\ at' \notin Passing
          /\ at' = "return" => exit_code' = 1 \/ (at \in Drawing /\ cfg' = cfg)
      BY <1>2 DEF Configure, ConnectFail, SetupFail, ConnectBenchmark, Mismatch, NoAccess,
         Draw, DrawKilled, BenchmarkWrite, BenchmarkRead, BenchmarkNull, BenchmarkEnd,
         Finish, Killed, NextIteration, ReturnCode
    <2>2. ~Verified'
      BY <1>0, <2>1 DEF Verified, Stage
    <2>3. QED
      BY <1>1, <2>1, <2>2
  <1>3. CASE ConnectVerify
    <2>1. at' = "fill" /\ i' = 0 /\ cfg' = cfg
      BY <1>0, <1>3 DEF ConnectVerify, Progress
    <2>2. cfg.num_virtual_pages \in Nat
      BY <1>0, PagerAssumption DEF ProgTypeOK, Id
    <2>3. \A p \in Own' : ~(p < i')
      BY <2>1, <2>2 DEF Own
    <2>4. Done' = {}
      BY <2>1, <2>3 DEF Done, Verified
    <2>5. QED
      BY <2>4
  <1>4. ASSUME at \in Passing, \A p \in Page : Sealed(p) => Sealed(p)', Done' \subseteq Done
        PROVE  \A p \in Done' : Sealed(p)'
    <2>1. \A p \in Done : p \in Page
      BY <1>4, OwnPages DEF Done
    <2>2. QED
      BY <1>0, <1>4, <2>1
  <1>5. CASE Fill \/ Check
    <2>1. PICK mode : Access(i, mode)
      BY <1>5 DEF Fill, Check
    <2>2. \A p \in Page : Sealed(p) => Sealed(p)'
      BY <2>1, SealedAccess
    <2>3. /\ at \in {"fill", "check"} /\ UNCHANGED <<cfg, i>>
          /\ at' = IF at = "fill" THEN "filled" ELSE "checked"
      BY <1>5 DEF Fill, Check
    <2>4. Done' \subseteq Done
      BY <2>3 DEF Done, Own, Verified
    <2>5. QED
      BY <1>4, <2>2, <2>3, <2>4
  <1>6. CASE Filled
    <2>1. /\ at = "filled" /\ at' = "fill" /\ i' = i + 1 /\ cfg' = cfg
          /\ handle.mode # "none" /\ UserWrite(Pattern(i))
      BY <1>6 DEF Filled, Returned
    <2>2. i < cfg.num_virtual_pages /\ handle.page = i /\ handle.mode = "write"
      BY <1>0, <2>1 DEF Progress, Awaits
    <2>3. i \in Nat /\ i \in Page
      BY <1>0, <2>1, <2>2, RangeIsPages DEF ProgTypeOK, Stage
    <2>4. \A p \in Done' : p \in Page /\ (p \in Done \/ p = i)
      <3> SUFFICES ASSUME NEW p \in Done'
                   PROVE  p \in Page /\ (p \in Done \/ p = i)
        OBVIOUS
      <3>1. p \in Own /\ p < i + 1
        BY <2>1 DEF Done, Own, Verified
      <3>2. p \in Page /\ p \in Nat
        BY <2>1, <3>1, OwnPages
      <3>3. p < i \/ p = i
        BY <2>3, <3>1, <3>2
      <3>4. QED
        BY <2>1, <3>1, <3>2, <3>3 DEF Done
    <2>5. PICK q : q = i
      OBVIOUS
    <2>6. UserWrite(Pattern(q)) /\ q \in Page /\ handle.page = q
      BY <2>1, <2>2, <2>3, <2>5
    <2>7. \A p \in Page : Sealed(p) \/ p = q => Sealed(p)'
      BY <1>0, <2>2, <2>6, SealedWrite
    <2>8. QED
      BY <1>0, <2>4, <2>5, <2>7
  <1>7. CASE FillEnd \/ Matches \/ VerifyOk
    <2>1. UNCHANGED <<vars, cfg>>
      BY <1>7 DEF FillEnd, Matches, VerifyOk, ReturnCode
    <2>2. \A p \in Page : Sealed(p) => Sealed(p)'
      <3>1. UNCHANGED <<valid, dirty, frame_number, local_memory, store, pc, batch>>
        BY <2>1 DEF vars, tables, memory, locals
      <3>2. QED
        BY <3>1, SealedUntouched
    <2>3. \/ at \in {"check", "checked"} /\ at' \in {"check", "return"}
          \/ at = "fill" /\ i = cfg.num_virtual_pages /\ at' = "check"
      BY <1>7 DEF FillEnd, Matches, VerifyOk, ReturnCode
    <2>4. at = "fill" => \A p \in Own : p < i
      BY <2>3, OwnPages
    <2>5. Own \subseteq Done /\ Own' = Own
      BY <2>1, <2>3, <2>4 DEF Done, Own
    <2>6. Done' \subseteq Done
      BY <2>5 DEF Done
    <2>7. QED
      BY <1>4, <2>2, <2>3, <2>6
  <1>8. CASE (Step \/ OtherClient \/ UNCHANGED vars) /\ UNCHANGED prog
    <2>1. UNCHANGED <<at, i, cfg, exit_code>>
      BY <1>8 DEF prog
    <2>2. Done' = Done
      BY <2>1 DEF Done, Own, Verified
    <2>3. SUFFICES ASSUME NEW p \in Done
                   PROVE  Sealed(p)'
      BY <2>2
    <2>4. at \in Running /\ p \in Own
      BY DEF Done, Verified
    <2>5. p \in Page /\ Sealed(p) /\ Known
      BY <1>0, <2>4, OwnPages DEF Stage, Known
    <2>6. CASE Step
      BY <2>5, <2>6, SealedStep
    <2>7. CASE OtherClient
      <3>1. PICK q, v : OtherPut(q, v) /\ (v = Pattern(q) \/ q \in Foreign)
        BY <2>7 DEF OtherClient
      <3>2. q = p => v = Pattern(p)
        BY <2>4, <3>1 DEF Own
      <3>3. QED
        BY <1>0, <2>5, <3>1, <3>2, SealedOtherPut
    <2>8. CASE UNCHANGED vars
      BY <2>5, <2>8, SealedUntouched DEF vars, tables, memory, locals
    <2>9. QED
      BY <1>8, <2>6, <2>7, <2>8
  <1>9. QED
    BY <1>2, <1>3, <1>5, <1>6, <1>7, <1>8 DEF ProgNext, Program, OtherClient, progvars

\* The comparison of pass 2 fails on a page some client with other data
\* writes.
LEMMA AlarmKept ==
    ASSUME ProgIInv, [ProgNext]_progvars
    PROVE  NoFalseAlarm'
  <1> USE DEF Running, Verifying
  <1>0. IInv /\ Stage /\ Progress /\ ProgTypeOK /\ NoFalseAlarm /\ \A p \in Done : Sealed(p)
    BY DEF ProgIInv
  <1>1. CASE Mismatch
    <2>1. /\ at = "checked" /\ i' = i /\ handle.mode # "none"
          /\ local_memory[handle.frame] # Pattern(i)
      BY <1>1 DEF Mismatch, Returned
    <2>2. handle.page = i /\ i < cfg.num_virtual_pages /\ i \in Nat
      BY <1>0, <2>1 DEF Progress, Awaits, ProgTypeOK
    <2>3. i \in valid /\ frame_number[i] = handle.frame
      BY <1>0, <2>1, <2>2 DEF IInv, PointerStable
    <2>4. ~Sealed(i)
      BY <2>1, <2>3 DEF Sealed
    <2>5. i \in 0 .. cfg.num_virtual_pages - 1
      BY <2>1, <2>2, OwnPages
    <2>6. i \in Foreign
      BY <1>0, <2>1, <2>4, <2>5 DEF Done, Own
    <2>7. QED
      BY <2>1, <2>6 DEF NoFalseAlarm
  <1>2. CASE UNCHANGED prog
    BY <1>0, <1>2 DEF NoFalseAlarm, prog
  <1>3. CASE \/ Configure \/ ConnectFail \/ SetupFail \/ ConnectVerify \/ ConnectBenchmark
             \/ Fill \/ Filled \/ FillEnd \/ Check \/ Matches \/ NoAccess \/ VerifyOk
             \/ Draw \/ DrawKilled \/ BenchmarkWrite \/ BenchmarkRead \/ BenchmarkNull
             \/ BenchmarkEnd \/ Finish \/ Killed
    <2>1. at' # "mismatch"
      BY <1>3 DEF Configure, ConnectFail, SetupFail, ConnectVerify, ConnectBenchmark, Fill,
         Filled, FillEnd, Check, Matches, NoAccess, VerifyOk, Draw, DrawKilled,
         BenchmarkWrite, BenchmarkRead, BenchmarkNull, BenchmarkEnd, Finish, Killed,
         NextIteration, ReturnCode
    <2>2. QED
      BY <2>1 DEF NoFalseAlarm
  <1>4. QED
    BY <1>1, <1>2, <1>3 DEF ProgNext, Program, OtherClient, progvars

-----------------------------------------------------------------------------
(* The theorems *)

\* main starts with an unused context.
LEMMA InitEstablishes == ProgInit => ProgIInv
  <1> SUFFICES ASSUME ProgInit PROVE ProgIInv
    OBVIOUS
  <1>1. CreateContext /\ sock = "none" /\ at = "main"
    BY DEF ProgInit, Init
  <1>2. IInv
    BY <1>1, CreateContextEstablishes
  <1>3. cfg \in [num_pages : Id, num_virtual_pages : Id, all_local : BOOLEAN,
                 verify_mode : BOOLEAN]
    <2>1. Size \subseteq Id
      BY PagerAssumption DEF Size, Id
    <2>2. QED
      BY <2>1 DEF ProgInit, Config
  <1>4. ProgTypeOK
    BY <1>2, <1>3, Constants, ClientAssumption DEF ProgInit, ProgTypeOK, IInv
  <1>5. Stage
    BY <1>1 DEF CreateContext, Stage, Unused, Running, Verifying, Drawing, Calling
  <1>6. Progress
    BY ClientAssumption DEF ProgInit, Progress, Calling
  <1>7. Done = {} /\ NoFalseAlarm
    BY <1>1 DEF Done, Verified, NoFalseAlarm
  <1>8. QED
    BY <1>2, <1>4, <1>5, <1>6, <1>7 DEF ProgIInv

\* The inductive invariant holds whatever the program, the other clients and
\* the connection do.
THEOREM ProgInductive == ProgSpec => []ProgIInv
  <1>1. ProgIInv /\ [ProgNext]_progvars => ProgIInv'
    BY PagerKept, TypesKept, StageKept, ProgressKept, SealsKept, AlarmKept DEF ProgIInv
  <1>2. QED
    BY InitEstablishes, <1>1, PTL DEF ProgSpec

\* Every variable of the client binary keeps its type; connect_to_server
\* makes at most MAX_RETRY_ATTEMPTS attempts.
THEOREM ProgTypeCorrect == ProgSpec => []ProgTypeOK
  <1>1. ProgIInv => ProgTypeOK
    BY DEF ProgIInv
  <1>2. QED
    BY ProgInductive, <1>1, PTL

\* When run_verify reports "VERIFY OK", every page of the range holds its
\* pattern, in the cache or on the server.
THEOREM VerifyOkIsTrue == ProgSpec => []VerifiedContent
  <1>1. ProgIInv => VerifiedContent
    <2> SUFFICES ASSUME ProgIInv, Verified, NEW p \in Own
                 PROVE  Content(p) = Pattern(p)
      BY DEF VerifiedContent
    <2>1. Sealed(p)
      BY DEF ProgIInv, Done
    <2>2. QED
      BY <2>1 DEF Sealed, Content
  <1>2. QED
    BY ProgInductive, <1>1, PTL

\* run_verify reports a mismatch only on a page that a client with other data
\* writes.
THEOREM NoAlarmOfItsOwn == ProgSpec => []NoFalseAlarm
  <1>1. ProgIInv => NoFalseAlarm
    BY DEF ProgIInv
  <1>2. QED
    BY ProgInductive, <1>1, PTL

\* A context nobody has used maps to the memory it will show, and connecting
\* it changes nothing there.
LEMMA ProgStepRefines ==
    ASSUME ProgIInv, [ProgNext]_progvars
    PROVE  [Abstract!Next]_(Abstract!vars)
  <1>1. IInv /\ (Connected \/ pc \in {"idle", "closed"})
    BY DEF ProgIInv, Stage, Unused, ProgTypeOK, Running, Verifying, Drawing
  <1>2. CASE [Next]_vars
    BY <1>1, <1>2, NextRefines
  <1>3. CASE ConnectBenchmark
    <2>1. UNCHANGED <<valid, frame_number, local_memory, store, handle>>
      BY <1>3, BenchmarkConnects DEF memory
    <2>2. QED
      BY <1>1, <2>1, NothingMoves, AbstractStutter
  <1>4. QED
    BY <1>2, <1>3, StepsOfPager

\* The client binary has the memory README.md describes from its start to its
\* end, in both modes.
THEOREM ProgramImplementsMemory == ProgSpec => Refines
  <1>1. ProgInit => Abstract!Init
    BY InitRefines DEF ProgInit, Init
  <1>2. ProgIInv /\ [ProgNext]_progvars => [Abstract!Next]_(Abstract!vars)
    BY ProgStepRefines
  <1>3. QED
    BY ProgInductive, <1>1, <1>2, PTL DEF ProgSpec, Refines, Abstract!Spec

-----------------------------------------------------------------------------
(* The size verify mode computes *)

\* Four times a size, modulo a space that 3 does not divide, is never the
\* size itself: 3n would be one or two times the space.
LEMMA FourTimesWraps ==
    ASSUME NEW space \in Nat, space % 3 # 0, NEW n \in 1 .. space - 1
    PROVE  (4 * n) % space # n
  <1> SUFFICES ASSUME (4 * n) % space = n
               PROVE  FALSE
    OBVIOUS
  <1>1. space \in Nat \ {0} /\ 4 * n \in Int
    OBVIOUS
  <1>2. PICK q \in Int : 4 * n = q * space + n
    BY <1>1, ModDivision
  <1>3. q = 1 \/ q = 2
    <2>1. q <= 0 => q * space <= 0
      BY <1>1
    <2>2. q >= 3 => q * space >= 3 * space
      BY <1>1
    <2>3. QED
      BY <1>1, <1>2, <2>1, <2>2
  <1>4. space = 0 + n * 3 \/ space = 0 + (space - n) * 3
    BY <1>1, <1>2, <1>3
  <1>5. space % 3 = 0 % 3
    BY <1>1, <1>4, ModShift
  <1>6. QED
    BY <1>5

\* What main has computed once it has accepted the configuration.
ForcedRange ==
    cfg.verify_mode /\ at \notin {"main", "exit"} =>
        Accepted(cfg) /\ cfg.num_virtual_pages = (4 * cfg.num_pages) % IdSpace

\* Verify mode always works on more pages than the cache holds: 2^32, the
\* number of uint32_t values, is no multiple of 3.
THEOREM VerifyExceedsCache ==
    ASSUME IdSpace % 3 # 0
    PROVE  ProgSpec => []RangeExceedsCache
  <1>1. ProgInit => ForcedRange
    BY DEF ProgInit, ForcedRange
  <1>2. ProgIInv /\ ForcedRange /\ [ProgNext]_progvars => ForcedRange'
    <2> SUFFICES ASSUME ProgIInv, ForcedRange, [ProgNext]_progvars
                 PROVE  ForcedRange'
      OBVIOUS
    <2>1. CASE Configure
      <3>1. cfg \in [num_pages : Id, num_virtual_pages : Id, all_local : BOOLEAN,
                     verify_mode : BOOLEAN]
        BY DEF ProgIInv, ProgTypeOK
      <3>2. cfg'.verify_mode => cfg'.num_virtual_pages = (4 * cfg'.num_pages) % IdSpace
        BY <2>1, <3>1 DEF Configure, Forced
      <3>3. at' # "exit" => Accepted(cfg')
        BY <2>1 DEF Configure
      <3>4. QED
        BY <3>2, <3>3 DEF ForcedRange, Accepted
    <2>2. CASE UNCHANGED prog
      BY <2>2 DEF ForcedRange, Accepted, prog
    <2>3. CASE \/ ConnectFail \/ SetupFail \/ ConnectVerify \/ ConnectBenchmark \/ Fill
               \/ Filled \/ FillEnd \/ Check \/ Matches \/ Mismatch \/ NoAccess \/ VerifyOk
               \/ Draw \/ DrawKilled \/ BenchmarkWrite \/ BenchmarkRead \/ BenchmarkNull
               \/ BenchmarkEnd \/ Finish \/ Killed
      <3>1. cfg' = cfg /\ (at' = "exit" \/ at \notin {"main", "exit"})
        BY <2>3 DEF ConnectFail, SetupFail, ConnectVerify, ConnectBenchmark, Fill, Filled,
           FillEnd, Check, Matches, Mismatch, NoAccess, VerifyOk, Draw, DrawKilled,
           BenchmarkWrite, BenchmarkRead, BenchmarkNull, BenchmarkEnd, Finish, Killed,
           NextIteration, ReturnCode
      <3>2. QED
        BY <3>1 DEF ForcedRange, Accepted
    <2>4. QED
      BY <2>1, <2>2, <2>3 DEF ProgNext, Program, OtherClient, progvars
  <1>3. ProgIInv /\ ForcedRange => RangeExceedsCache
    <2> SUFFICES ASSUME ProgIInv, ForcedRange, cfg.verify_mode, at \notin {"main", "exit"}
                 PROVE  cfg.num_virtual_pages > cfg.num_pages
      BY DEF RangeExceedsCache
    <2>1. cfg.num_pages \in Id /\ cfg.num_virtual_pages \in Id
      BY DEF ProgIInv, ProgTypeOK
    <2>2. /\ cfg.num_pages # 0 /\ cfg.num_pages <= cfg.num_virtual_pages
          /\ cfg.num_virtual_pages = (4 * cfg.num_pages) % IdSpace
      BY DEF ForcedRange, Accepted
    <2>3. IdSpace \in Nat /\ cfg.num_pages \in 1 .. IdSpace - 1
      BY <2>1, <2>2, PagerAssumption DEF Id
    <2>4. cfg.num_virtual_pages # cfg.num_pages
      BY <2>2, <2>3, FourTimesWraps
    <2>5. QED
      BY <2>1, <2>2, <2>4, PagerAssumption DEF Id
  <1>4. QED
    BY ProgInductive, <1>1, <1>2, <1>3, PTL DEF ProgSpec
=============================================================================
