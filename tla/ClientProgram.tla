---------------------------- MODULE ClientProgram ----------------------------
(***************************************************************************)
(* The client binary (src/dsm_client.c): main's checks of its              *)
(* configuration, connect_to_server with its retries, then run_verify or   *)
(* run_benchmark on top of the pager of module Pager, one access at a time.*)
(* Between any two steps of an access the connection may break and another *)
(* client may write its pages to the server.                               *)
(*                                                                         *)
(* Pager's constants bound the sizes: only a configuration with NumPages   *)
(* frames and at most NumVirtualPages pages (BenchmarkPages for the        *)
(* benchmark, whose accesses are arbitrary) is followed beyond main's      *)
(* checks.  Pages beyond those of the configuration are never accessed and *)
(* never become remote, so the prefetch loop skips them where the code     *)
(* stops.                                                                  *)
(***************************************************************************)
EXTENDS Pager

CONSTANTS
    PatternSpace,     \* distinct page patterns (256 in the code)
    MaxRetries,       \* MAX_RETRY_ATTEMPTS (10 in the code)
    Iterations,       \* cfg.num_iterations
    Foreign,          \* shared pages written by clients that do not verify
    BenchmarkPages    \* bound: largest virtual size run_benchmark is run with

ASSUME ClientAssumption ==
    /\ PatternSpace \in Nat \ {0}
    /\ 0 .. PatternSpace - 1 \subseteq Value
    /\ MaxRetries \in Nat \ {0}
    /\ Iterations \in Nat
    /\ Foreign \subseteq Shared
    /\ BenchmarkPages \in NumPages .. NumVirtualPages

VARIABLES
    cfg,              \* num_pages, num_virtual_pages, locality and verify_mode
    at,               \* where main is
    attempt,          \* connect_to_server's loop
    i,                \* run_verify's p, run_benchmark's i
    page_id,          \* run_benchmark's page_id
    exit_code         \* 2 while the program runs

prog     == <<cfg, at, attempt, i, page_id, exit_code>>
progvars == <<vars, prog>>

-----------------------------------------------------------------------------
(* The configuration *)

\* What dsm_parse_long and dsm_env_long let through: sizes from 1 to the
\* largest uint32_t.
Size == 1 .. IdSpace - 1

\* The percentage of local accesses matters at its end only: at 100
\* run_benchmark never draws a remote page.
Config == [num_pages : Size, num_virtual_pages : Size, all_local : BOOLEAN,
           verify_mode : BOOLEAN]

\* Mutant: verify mode keeps the virtual size it was given.
ForcedNot(c) == c

\* Verify mode replaces the virtual size by 4u * num_pages, which wraps.
Forced(c) ==
    IF c.verify_mode
    THEN [c EXCEPT !.num_virtual_pages = (4 * c.num_pages) % IdSpace]
    ELSE c

Accepted(c) ==
    /\ c.num_pages # 0 /\ c.num_virtual_pages # 0
    /\ c.num_pages <= c.num_virtual_pages

\* The server starts with zeroed pages, or holds what another run left.
ProgInit ==
    /\ \E v \in Value : store = [p \in Page |-> v]
    /\ Init
    /\ cfg \in Config
    /\ at = "main" /\ attempt = 0 /\ i = 0 /\ page_id = 0 /\ exit_code = 2

-----------------------------------------------------------------------------
(* main and connect_to_server *)

\* run_verify or run_benchmark returns to main.
ReturnCode(code) ==
    /\ at' = "return" /\ exit_code' = code
    /\ UNCHANGED <<cfg, attempt, i, page_id>>

\* The sizes the instance of Pager stands for.
Fits(c) ==
    /\ c.num_pages = NumPages
    /\ c.num_virtual_pages <= IF c.verify_mode THEN NumVirtualPages ELSE BenchmarkPages

Configure ==
    /\ at = "main"
    /\ cfg' = Forced(cfg)
    /\ IF Accepted(cfg')
       THEN /\ at' = IF Fits(cfg') THEN "connect" ELSE "unfollowed"
            /\ UNCHANGED exit_code
       ELSE at' = "exit" /\ exit_code' = 1
    /\ UNCHANGED <<vars, attempt, i, page_id>>

\* Mutant: one attempt too many.
ConnectFailOnceMore ==
    /\ at = "connect"
    /\ attempt' = attempt + 1
    /\ IF attempt' <= MaxRetries
       THEN UNCHANGED <<at, exit_code>>
       ELSE at' = "exit" /\ exit_code' = 1
    /\ UNCHANGED <<vars, cfg, i, page_id>>

\* Every address of the server refuses; after the last attempt main gives up.
ConnectFail ==
    /\ at = "connect"
    /\ attempt' = attempt + 1
    /\ IF attempt' < MaxRetries
       THEN UNCHANGED <<at, exit_code>>
       ELSE at' = "exit" /\ exit_code' = 1
    /\ UNCHANGED <<vars, cfg, i, page_id>>

\* getaddrinfo or dsm_create_context fails.
SetupFail ==
    /\ at = "connect"
    /\ at' = "exit" /\ exit_code' = 1
    /\ UNCHANGED <<vars, cfg, attempt, i, page_id>>

\* Connected: the context gets the socket and the chosen mode starts.
ConnectVerify ==
    /\ at = "connect"
    /\ cfg.verify_mode
    /\ SetSocket
    /\ at' = "fill"
    /\ UNCHANGED <<cfg, attempt, i, page_id, exit_code>>

\* run_benchmark first declares the pages above the cache size remote; those
\* below are LOC_LOCAL, as dsm_create_context left them.
ConnectBenchmark ==
    /\ at = "connect"
    /\ ~cfg.verify_mode
    /\ sock' = "up"
    /\ remote' = NumPages .. cfg.num_virtual_pages - 1
    /\ at' = "draw"
    /\ UNCHANGED <<frame_number, valid, reference_bit, dirty, page_number,
                   occupied, free_list, clock_hand, last_page_id, memory, stats,
                   pc, locals, handle, cfg, attempt, i, page_id, exit_code>>

-----------------------------------------------------------------------------
(* run_verify *)

\* The pattern of page p: (p * 2654435761u + i) & 0xFF has an odd factor, so
\* it tells pages apart modulo 256.
Pattern(p) == p % PatternSpace

Access(p, mode) == AccessHit(p, mode) \/ AccessMiss(p, mode)

\* What the access returned, once it has: a pointer, or NULL.
Returned == pc = "idle" /\ handle.mode # "none"
Null     == pc = "idle" /\ handle.mode = "none"

\* Pass 1: access the page for writing ...
Fill ==
    /\ at = "fill" /\ i < cfg.num_virtual_pages
    /\ Access(i, "write")
    /\ at' = "filled"
    /\ UNCHANGED <<cfg, attempt, i, page_id, exit_code>>

\* Mutant: the two passes disagree on the pattern.
FilledOffByOne ==
    /\ at = "filled"
    /\ Returned
    /\ UserWrite(Pattern(i + 1))
    /\ at' = "fill" /\ i' = i + 1
    /\ UNCHANGED <<cfg, attempt, page_id, exit_code>>

\* ... and write its pattern.
Filled ==
    /\ at = "filled"
    /\ Returned
    /\ UserWrite(Pattern(i))
    /\ at' = "fill" /\ i' = i + 1
    /\ UNCHANGED <<cfg, attempt, page_id, exit_code>>

FillEnd ==
    /\ at = "fill" /\ i = cfg.num_virtual_pages
    /\ at' = "check" /\ i' = 0
    /\ UNCHANGED <<vars, cfg, attempt, page_id, exit_code>>

\* Pass 2: access the page for reading ...
Check ==
    /\ at = "check" /\ i < cfg.num_virtual_pages
    /\ Access(i, "read")
    /\ at' = "checked"
    /\ UNCHANGED <<cfg, attempt, i, page_id, exit_code>>

\* Mutant: the second pass ends with the first page that matches.
MatchesAndLeaves ==
    /\ at = "checked"
    /\ Returned
    /\ local_memory[handle.frame] = Pattern(i)
    /\ at' = "check" /\ i' = cfg.num_virtual_pages
    /\ UNCHANGED <<vars, cfg, attempt, page_id, exit_code>>

\* ... and compare it with its pattern.
Matches ==
    /\ at = "checked"
    /\ Returned
    /\ local_memory[handle.frame] = Pattern(i)
    /\ at' = "check" /\ i' = i + 1
    /\ UNCHANGED <<vars, cfg, attempt, page_id, exit_code>>

\* "VERIFY FAILED: page %u contents mismatch"
Mismatch ==
    /\ at = "checked"
    /\ Returned
    /\ local_memory[handle.frame] # Pattern(i)
    /\ at' = "mismatch" /\ exit_code' = 1
    /\ UNCHANGED <<vars, cfg, attempt, i, page_id>>

\* Mutant: a failed access ends the passes but is not reported.
NoAccessUnreported ==
    /\ at \in {"filled", "checked"}
    /\ Null
    /\ ReturnCode(0)
    /\ UNCHANGED vars

\* "VERIFY FAILED: cannot access page %u"
NoAccess ==
    /\ at \in {"filled", "checked"}
    /\ Null
    /\ ReturnCode(1)
    /\ UNCHANGED vars

\* "VERIFY OK %u pages"
VerifyOk ==
    /\ at = "check" /\ i = cfg.num_virtual_pages
    /\ ReturnCode(0)
    /\ UNCHANGED vars

-----------------------------------------------------------------------------
(* run_benchmark *)

\* The generator draws a page of the local or of the remote part and the
\* kind of access.
Draw ==
    /\ at = "draw" /\ i < Iterations
    /\ \E p \in 0 .. cfg.num_virtual_pages - 1, mode \in {"read", "write"} :
            /\ p < NumPages \/ ~cfg.all_local
            /\ Access(p, mode)
            /\ page_id' = p
    /\ at' = "drawn"
    /\ UNCHANGED <<cfg, attempt, i, exit_code>>

\* No page lies outside the cache: the remainder by zero ends the process.
DrawKilled ==
    /\ at = "draw" /\ i < Iterations
    /\ ~cfg.all_local /\ cfg.num_virtual_pages = NumPages
    /\ at' = "exit" /\ exit_code' = 3
    /\ UNCHANGED <<vars, cfg, attempt, i, page_id>>

NextIteration ==
    /\ at' = "draw" /\ i' = i + 1
    /\ UNCHANGED <<cfg, attempt, page_id, exit_code>>

\* The first byte of the page is set to i; it stands for the page here.
BenchmarkWrite ==
    /\ at = "drawn"
    /\ Returned /\ handle.mode = "write"
    /\ UserWrite(i % PatternSpace)
    /\ NextIteration

BenchmarkRead ==
    /\ at = "drawn"
    /\ Returned /\ handle.mode = "read"
    /\ NextIteration
    /\ UNCHANGED vars

\* A NULL for a page still marked LOC_LOCAL is passed over.
BenchmarkNull ==
    /\ at = "drawn"
    /\ Null
    /\ IF page_id \in remote THEN ReturnCode(1) ELSE NextIteration
    /\ UNCHANGED vars

BenchmarkEnd ==
    /\ at = "draw" /\ i = Iterations
    /\ ReturnCode(0)
    /\ UNCHANGED vars

-----------------------------------------------------------------------------
(* The end of main, and the specification *)

\* close and dsm_destroy_context, without a writeback.
Finish ==
    /\ at \in {"return", "mismatch"}
    /\ Destroy
    /\ at' = "exit"
    /\ UNCHANGED <<cfg, attempt, i, page_id, exit_code>>

\* SIGPIPE during a writeback.
Killed ==
    /\ at # "exit" /\ pc = "closed"
    /\ at' = "exit" /\ exit_code' = 3
    /\ UNCHANGED <<vars, cfg, attempt, i, page_id>>

Program ==
    \/ Configure \/ ConnectFail \/ SetupFail \/ ConnectVerify \/ ConnectBenchmark
    \/ Fill \/ Filled \/ FillEnd \/ Check \/ Matches \/ Mismatch \/ NoAccess \/ VerifyOk
    \/ Draw \/ DrawKilled \/ BenchmarkWrite \/ BenchmarkRead \/ BenchmarkNull
    \/ BenchmarkEnd \/ Finish \/ Killed
    \/ Step /\ UNCHANGED prog

\* Another client writes a page of the range back: a verifying one, with the
\* same pattern, or one that uses the pages for something else.
OtherClient ==
    /\ \E p \in Shared, v \in Value :
            /\ p < cfg.num_virtual_pages
            /\ v = Pattern(p) \/ p \in Foreign
            /\ OtherPut(p, v)
    /\ UNCHANGED prog

ProgNext == Program \/ OtherClient

\* The process is scheduled; connect and every RPC end with a result or an
\* error.
ProgSpec == ProgInit /\ [][ProgNext]_progvars /\ WF_progvars(Program)

-----------------------------------------------------------------------------
(* Properties *)

ProgTypeOK ==
    /\ TypeOK
    /\ cfg \in [num_pages : Id, num_virtual_pages : Id, all_local : BOOLEAN,
                verify_mode : BOOLEAN]
    /\ at \in {"main", "connect", "fill", "filled", "check", "checked", "mismatch",
               "draw", "drawn", "return", "exit", "unfollowed"}
    /\ attempt \in 0 .. MaxRetries
    /\ i \in Nat
    /\ page_id \in Page
    /\ exit_code \in 0 .. 3

Verified == at = "return" /\ cfg.verify_mode /\ exit_code = 0

\* The pages run_verify may rely on.
Own == (0 .. cfg.num_virtual_pages - 1) \ Foreign

\* "VERIFY OK" (dsm_client.c:201) tells the truth: when run_verify returns 0,
\* every page of the virtual range still holds its pattern, those that were
\* evicted after they were checked included.
VerifiedContent == Verified => \A p \in Own : Content(p) = Pattern(p)

\* run_verify reports no mismatch of its own making: whatever fails, and
\* although other clients verify the same pages of the same server, a page
\* that differs in pass 2 (dsm_client.c:195) is one that a client with other
\* data writes.
NoFalseAlarm == at = "mismatch" => i \in Foreign

\* The virtual range of every accepted configuration of verify mode exceeds
\* the cache (the comment at dsm_client.c:268), although 4u * num_pages wraps.
RangeExceedsCache ==
    cfg.verify_mode /\ at \notin {"main", "exit"} =>
        cfg.num_virtual_pages > cfg.num_pages

\* Verification exercises "eviction, writeback, and refetch" (the comment at
\* dsm_client.c:268): a successful run evicted and fetched again, and nothing
\* it wrote exists in the cache alone, so that the unwritten pages
\* dsm_destroy_context drops are none.
VerifyExercises ==
    Verified =>
        /\ evictions >= cfg.num_virtual_pages
        /\ remote_fetches > cfg.num_virtual_pages
        /\ \A p \in Own : store[p] = Pattern(p)

\* The program ends, whatever it meets: retries are bounded, no access hangs.
ClientEnds == <>(at \in {"exit", "unfollowed"})
=============================================================================
