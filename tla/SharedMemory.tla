---------------------------- MODULE SharedMemory ----------------------------
(***************************************************************************)
(* What one client of the DSM is promised (README.md, "Architecture" and   *)
(* "Consistency Model"): an array of pages that behaves like plain memory  *)
(* on the pages nobody else writes, and that may change at any time under  *)
(* the client's feet on the pages it shares with other clients ("there is  *)
(* no coherence protocol").  Frames, eviction, writeback, prefetching and  *)
(* the connection to the server are invisible here.                        *)
(***************************************************************************)
CONSTANTS
    Page,       \* virtual pages
    Value,      \* page contents
    Zero,       \* content shown when the client holds no pointer
    Shared      \* pages other clients write too

VARIABLES
    mem,        \* content of every page as this client can observe it
    view        \* the pointer the client holds: page, access mode, data seen

vars == <<mem, view>>

NoView == [page |-> 0, mode |-> "none", data |-> Zero]

Init ==
    /\ mem \in [Page -> Value]
    /\ view = NoView

\* A call is in progress, or has failed: the client has no pointer.
Release ==
    /\ view' = NoView
    /\ UNCHANGED mem

\* A call returns a pointer to page p.
Return(p, mode) ==
    /\ view' = [page |-> p, mode |-> mode, data |-> mem[p]]
    /\ UNCHANGED mem

\* The client stores through the pointer of a write access.
Write(v) ==
    /\ view.mode = "write"
    /\ mem' = [mem EXCEPT ![view.page] = v]
    /\ view' = [view EXCEPT !.data = v]

\* A page written by other clients changes, unless the client is looking at
\* its own cached copy.
OthersWrite(p, v) ==
    /\ view.mode = "none" \/ view.page # p
    /\ mem' = [mem EXCEPT ![p] = v]
    /\ UNCHANGED view

Next ==
    \/ Release
    \/ \E p \in Page, mode \in {"read", "write"} : Return(p, mode)
    \/ \E v \in Value : Write(v)
    \/ \E p \in Shared, v \in Value : OthersWrite(p, v)

Spec == Init /\ [][Next]_vars
=============================================================================
