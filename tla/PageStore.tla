----------------------------- MODULE PageStore ------------------------------
(***************************************************************************)
(* What the RPCs of dsm_common.c promise their callers on one connection:  *)
(* a GET or a batch returns the pages as the server holds them, in the     *)
(* order asked; an acknowledged PUT is stored; a call that fails leaves    *)
(* the connection unusable, and a failed PUT may have been stored, may     *)
(* still be, or may never be.  Streams, buffers and partial transfers are  *)
(* invisible here.                                                         *)
(***************************************************************************)
EXTENDS Naturals, Sequences

CONSTANTS
    Page,
    Ids,          \* the sequences of pages a GET asks for
    Content       \* what a PUT can carry

VARIABLES
    mem,          \* the server's pages
    call,         \* the call in progress
    owed,         \* the PUT that has not reached mem yet, at most one
    dead,         \* a call has failed
    result        \* what the last call returned

vars == <<mem, call, owed, dead, result>>

NoCall == [op |-> "none", ids |-> <<>>]
Returned(status, pages) == [status |-> status, pages |-> pages]

Init ==
    /\ mem \in [Page -> Content]
    /\ call = NoCall /\ owed = {} /\ dead = FALSE
    /\ result = Returned("none", <<>>)

Get(ids) ==
    /\ call = NoCall
    /\ call' = [op |-> "get", ids |-> ids]
    /\ UNCHANGED <<mem, owed, dead, result>>

Put(p, c) ==
    /\ call = NoCall
    /\ call' = [op |-> "put", ids |-> <<p>>]
    /\ owed' = IF dead THEN owed ELSE {[page |-> p, data |-> c]}
    /\ UNCHANGED <<mem, dead, result>>

\* A PUT takes effect, at most once.
Store ==
    \E put \in owed :
        /\ mem' = [mem EXCEPT ![put.page] = put.data]
        /\ owed' = {}
        /\ UNCHANGED <<call, dead, result>>

Answer ==
    /\ call.op = "get" /\ ~dead
    /\ result' = Returned("ok", [i \in 1 .. Len(call.ids) |-> mem[call.ids[i]]])
    /\ call' = NoCall
    /\ UNCHANGED <<mem, owed, dead>>

Acked ==
    /\ call.op = "put" /\ ~dead /\ owed = {}
    /\ result' = Returned("ok", <<>>)
    /\ call' = NoCall
    /\ UNCHANGED <<mem, owed, dead>>

Fail ==
    /\ call # NoCall
    /\ call' = NoCall /\ dead' = TRUE /\ result' = Returned("failed", <<>>)
    /\ UNCHANGED <<mem, owed>>

Next ==
    \/ \E ids \in Ids : Get(ids)
    \/ \E p \in Page, c \in Content : Put(p, c)
    \/ Store \/ Answer \/ Acked \/ Fail

Spec == Init /\ [][Next]_vars
=============================================================================
