-------------------------------- MODULE Rpc ---------------------------------
(***************************************************************************)
(* The RPC calls of src/dsm_common.c over one connection, byte by byte:    *)
(* dsm_rpc_get, dsm_rpc_get_batch and dsm_rpc_put against the request loop *)
(* of handle_client_thread (src/dsm_server.c) of a server without a        *)
(* cluster.                                                                *)
(*                                                                         *)
(* A header is HeaderUnits units and a page PageUnits.  Every send, writev *)
(* and recv transfers any number of units from one to what was asked and   *)
(* what the buffers of the connection hold; the loops of dsm_send_full,    *)
(* dsm_sendv and dsm_recv_full put the pieces together.  A call that is    *)
(* interrupted (EINTR) is repeated unchanged and is no step here.          *)
(***************************************************************************)
EXTENDS Integers, Sequences

CONSTANTS
    Page,
    StoragePages,   \* the pages below g_storage_pages
    Value, Zero,    \* page contents, that of the zero page among them
    HeaderUnits,    \* units of a dsm_rpc_header_t (8 bytes in the code)
    PageUnits,      \* units of a page (PAGE_SIZE bytes in the code)
    UpRoom,         \* units the socket buffers hold towards the server
    DownRoom,       \* units they hold towards the client
    BatchMax        \* DSM_PREFETCH_MAX, the longest batch

\* The buffers of 1 MiB take the headers of a whole batch; nothing is assumed
\* about room for pages.
ASSUME RpcAssumption ==
    /\ StoragePages \subseteq Page
    /\ Zero \in Value
    /\ HeaderUnits \in Nat \ {0} /\ PageUnits \in Nat \ {0}
    /\ BatchMax \in Nat \ {0}
    /\ DownRoom \in Nat \ {0}
    /\ UpRoom \in Nat \ {0} /\ UpRoom >= (BatchMax - 1) * HeaderUnits

VARIABLES
    link,           \* "up", "fin" (peer closed) or "reset"
    up, down,       \* units in flight in either direction
    \* the client's call
    cpc,            \* "idle", "send", "sendv", "recv", "return" or "killed"
    call,           \* operation and page ids
    iov,            \* buffers still to be sent
    buf,            \* what dsm_recv_full has received so far
    bufs,           \* replies received completely
    result,         \* what the last call returned
    dead,           \* a call has failed
    \* the server's thread
    spc,            \* "header", "page", "reply" or "exit"
    req,            \* request in hand
    sbuf,           \* what its dsm_recv_full has received so far
    sent,           \* units of the reply already sent
    storage,        \* g_storage
    owed            \* history: the last PUT, while it is not stored

streams == <<link, up, down>>
client  == <<cpc, call, iov, buf, bufs, result, dead>>
server  == <<spc, req, sbuf, sent, storage>>
vars    == <<streams, client, server, owed>>

\* The units of a header and of a page.
Header(op, p) == [k \in 1 .. HeaderUnits |-> <<op, p, k>>]
Data(p, v)    == [k \in 1 .. PageUnits |-> <<v, p, k>>]

NoCall == [op |-> "none", ids |-> <<>>]
NoReq  == [op |-> "none", page |-> CHOOSE p \in Page : TRUE]

Init ==
    /\ link = "up" /\ up = <<>> /\ down = <<>>
    /\ cpc = "idle" /\ call = NoCall /\ iov = <<>> /\ buf = <<>> /\ bufs = <<>>
    /\ result = [status |-> "none", pages |-> <<>>] /\ dead = FALSE
    /\ spc = "header" /\ req = NoReq /\ sbuf = <<>> /\ sent = 0
    /\ storage = [p \in Page |-> Data(p, Zero)]
    /\ owed = {}

Drop(s, n) == SubSeq(s, n + 1, Len(s))
Take(s, n) == SubSeq(s, 1, n)

\* What one call may transfer: at least one unit, at most n.
Some(n) == 1 .. n

-----------------------------------------------------------------------------
(* The client: the calls *)

Start(op, ids, how, out) ==
    /\ cpc = "idle"
    /\ cpc' = how
    /\ call' = [op |-> op, ids |-> ids]
    /\ iov' = out
    /\ bufs' = <<>> /\ buf' = <<>>
    /\ UNCHANGED <<streams, result, dead, server>>

\* Mutant: batches longer than DSM_PREFETCH_MAX.
BatchesUnbounded == UNION {[1 .. n -> Page] : n \in 1 .. BatchMax + 1}

\* What dsm_prefetch_pages asks for; one page is dsm_rpc_get.
Batches == UNION {[1 .. n -> Page] : n \in 1 .. BatchMax}

\* dsm_rpc_get and dsm_rpc_get_batch: one header per page.
RpcGet(ids) ==
    /\ Start("get", ids, "send", [i \in 1 .. Len(ids) |-> Header("get", ids[i])])
    /\ UNCHANGED owed

\* dsm_rpc_put: header and page in one iovec.
RpcPut(p, v) ==
    /\ Start("put", <<p>>, "sendv", <<Header("put", p), Data(p, v)>>)
    /\ owed' = IF dead THEN owed ELSE {[page |-> p, data |-> Data(p, v)]}

-----------------------------------------------------------------------------
(* The client: dsm_send_full, dsm_sendv and dsm_recv_full *)

\* Units leave for the server; after its end has closed they go nowhere.
Transmit(units) ==
    /\ link \in {"up", "fin"}
    /\ up' = IF link = "up" THEN up \o units ELSE up
    /\ UNCHANGED <<link, down>>

Room == IF link = "up" THEN UpRoom - Len(up) ELSE PageUnits + HeaderUnits

\* After a transfer: the loop goes on, or the replies are read.
Sent(rest) ==
    /\ iov' = rest
    /\ cpc' = IF rest = <<>> THEN "recv" ELSE cpc
    /\ UNCHANGED <<call, buf, bufs, result, dead, server, owed>>

\* dsm_send_full: part of the current buffer, never of the next one.
Send ==
    /\ cpc = "send"
    /\ \E n \in Some(Len(Head(iov))) :
        /\ n <= Room
        /\ Transmit(Take(Head(iov), n))
        /\ Sent(IF n = Len(Head(iov)) THEN Tail(iov)
                                      ELSE <<Drop(Head(iov), n)>> \o Tail(iov))

\* Mutant: iov_base is not moved on after a short write.
AdvanceKeepsBase(v, n) ==
    LET left == n - Len(v[1]) IN
    IF left < 0 THEN v
    ELSE IF left = 0 \/ left < Len(v[2]) THEN Tail(v)
    ELSE <<>>

\* The inner loop of dsm_sendv, for the two buffers of its only caller: skip
\* the ones written completely, move iov_base of the one written in part.
AdvanceIov(v, n) ==
    LET left == n - Len(v[1]) IN
    IF left < 0 THEN <<Drop(v[1], n)>> \o Tail(v)
    ELSE IF left = 0 THEN Tail(v)
    ELSE IF left < Len(v[2]) THEN <<Drop(v[2], left)>>
    ELSE <<>>

\* What writev can take.
Gathered(v) == IF Len(v) = 1 THEN v[1] ELSE v[1] \o v[2]

\* dsm_sendv: writev takes units of one or both buffers.
Sendv ==
    /\ cpc = "sendv"
    /\ \E n \in Some(Len(Gathered(iov))) :
        /\ n <= Room
        /\ Transmit(Take(Gathered(iov), n))
        /\ Sent(AdvanceIov(iov, n))

\* Size of a reply: an ACK or a page.
Wanted == IF call.op = "put" THEN HeaderUnits ELSE PageUnits

\* Mutant: every recv asks for the whole length.
RemainingWhole == Wanted

\* What dsm_recv_full still asks for.
Remaining == Wanted - Len(buf)

\* dsm_recv_full: some of the remaining units; a complete reply is followed
\* by the next one of a batch.
Recv ==
    /\ cpc = "recv"
    /\ \E n \in Some(Len(down)) :
        /\ n <= Remaining
        /\ down' = Drop(down, n)
        /\ LET got == buf \o Take(down, n) IN
           IF Len(got) < Wanted
           THEN buf' = got /\ UNCHANGED <<bufs, cpc>>
           ELSE /\ buf' = <<>>
                /\ bufs' = Append(bufs, got)
                /\ cpc' = IF Len(bufs') < Len(call.ids) THEN cpc ELSE "return"
    /\ UNCHANGED <<link, up, call, iov, result, dead, server, owed>>

EndCall(status, pages) ==
    /\ cpc' = "idle" /\ call' = NoCall
    /\ iov' = <<>> /\ buf' = <<>> /\ bufs' = <<>>
    /\ result' = [status |-> status, pages |-> pages]
    /\ dead' = (dead \/ status = "failed")
    /\ UNCHANGED <<server, owed>>

\* The call returns: with the pages, or with what the ACK says.
ReturnOk ==
    /\ cpc = "return"
    /\ IF call.op = "get" THEN EndCall("ok", bufs)
       ELSE IF bufs[1][1][1] = "ack" THEN EndCall("ok", <<>>)
       ELSE EndCall("failed", <<>>)
    /\ UNCHANGED streams

\* A send on a reset connection, or a recv at the end of the stream.
ReturnFail ==
    /\ \/ cpc \in {"send", "sendv"} /\ link = "reset"
       \/ cpc = "recv" /\ down = <<>> /\ link # "up"
    /\ EndCall("failed", <<>>)
    /\ UNCHANGED streams

\* writev, unlike send with MSG_NOSIGNAL, raises SIGPIPE.
Killed ==
    /\ cpc = "sendv" /\ link = "reset"
    /\ cpc' = "killed"
    /\ UNCHANGED <<streams, call, iov, buf, bufs, result, dead, server, owed>>

-----------------------------------------------------------------------------
(* The server's thread *)

\* The request a complete header stands for: op is its first byte, page_id
\* its last ones.
Parsed(h) == [op |-> h[1][1], page |-> h[Len(h)][2]]

\* dsm_recv_full of a header, and the dispatch; an unknown op is ignored.
ServeHeader ==
    /\ spc = "header"
    /\ \E n \in Some(Len(up)) :
        /\ n <= HeaderUnits - Len(sbuf)
        /\ up' = Drop(up, n)
        /\ LET got == sbuf \o Take(up, n) IN
           IF Len(got) < HeaderUnits
           THEN sbuf' = got /\ UNCHANGED <<spc, req>>
           ELSE /\ sbuf' = <<>>
                /\ req' = Parsed(got)
                /\ spc' = CASE req'.op = "get" -> "reply"
                             [] req'.op = "put" -> "page"
                             [] OTHER -> "header"
    /\ UNCHANGED <<link, down, client, sent, storage, owed>>

\* Mutant: the page is acknowledged but not copied.
StorePageForgets(data) ==
    /\ spc' = "reply"
    /\ UNCHANGED <<storage, owed>>

\* The copy into g_storage; a page beyond it ends the thread.
StorePage(data) ==
    IF req.page \in StoragePages
    THEN /\ storage' = [storage EXCEPT ![req.page] = data]
         /\ owed' = {}
         /\ spc' = "reply"
    ELSE /\ spc' = "exit"
         /\ UNCHANGED <<storage, owed>>

\* dsm_recv_full of the page of a PUT.
ServePage ==
    /\ spc = "page"
    /\ \E n \in Some(Len(up)) :
        /\ n <= PageUnits - Len(sbuf)
        /\ up' = Drop(up, n)
        /\ LET got == sbuf \o Take(up, n) IN
           IF Len(got) < PageUnits
           THEN sbuf' = got /\ UNCHANGED <<spc, storage, owed>>
           ELSE sbuf' = <<>> /\ StorePage(got)
    /\ UNCHANGED <<link, down, client, req, sent>>

\* A page of g_storage, the zero page beyond it, or the ACK.
Reply ==
    CASE req.op = "put" -> Header("ack", req.page)
      [] req.op = "get" -> storage[req.page]

\* dsm_send_full of the reply, straight out of g_storage.
ServeReply ==
    /\ spc = "reply" /\ link = "up"
    /\ \E n \in Some(Len(Reply) - sent) :
        /\ n <= DownRoom - Len(down)
        /\ down' = down \o Take(Drop(Reply, sent), n)
        /\ IF sent + n = Len(Reply)
           THEN spc' = "header" /\ sent' = 0
           ELSE sent' = sent + n /\ UNCHANGED spc
    /\ UNCHANGED <<link, up, client, req, sbuf, storage, owed>>

ThreadExit == spc' = "exit" /\ req' = NoReq /\ sbuf' = <<>> /\ sent' = 0

\* A recv at the end of the stream, or a send that fails.
ServeEnds ==
    /\ link # "up"
    /\ \/ spc = "reply"
       \/ spc \in {"header", "page"} /\ up = <<>>
    /\ ThreadExit
    /\ UNCHANGED <<streams, client, storage, owed>>

\* The accept loop closes the connection of a thread that has ended.
Reap ==
    /\ spc = "exit" /\ link = "up"
    /\ link' = "fin" /\ up' = <<>>
    /\ UNCHANGED <<down, client, server, owed>>

-----------------------------------------------------------------------------
(* Environment and specification *)

\* The server's process ends; what it has sent may still arrive.
ServerDies ==
    /\ link = "up"
    /\ link' = "fin" /\ up' = <<>>
    /\ \E n \in 0 .. Len(down) : down' = Take(down, n)
    /\ ThreadExit
    /\ UNCHANGED <<client, storage, owed>>

\* The connection breaks; each end keeps what had arrived there.
Break ==
    /\ link # "reset"
    /\ link' = "reset"
    /\ \E n \in 0 .. Len(up) : up' = Take(up, n)
    /\ \E n \in 0 .. Len(down) : down' = Take(down, n)
    /\ UNCHANGED <<client, server, owed>>

Call ==
    \/ \E ids \in Batches : RpcGet(ids)
    \/ \E p \in Page, v \in Value : RpcPut(p, v)

Client == Send \/ Sendv \/ Recv \/ ReturnOk \/ ReturnFail \/ Killed
Server == ServeHeader \/ ServePage \/ ServeReply \/ ServeEnds

Next == Call \/ Client \/ Server \/ Reap \/ ServerDies \/ Break

\* Client and server threads run, and the accept loop reaps (EndedIsClosed of
\* AcceptLoop).  Nobody has to call, and nothing has to break.
Spec ==
    /\ Init /\ [][Next]_vars
    /\ WF_vars(Client) /\ WF_vars(Server) /\ WF_vars(Reap)

-----------------------------------------------------------------------------
(* Properties *)

Contents == {Data(p, v) : p \in Page, v \in Value}
Unit     == ({"get", "put", "ack"} \cup Value) \X Page \X (1 .. PageUnits + HeaderUnits)

\* Nothing is received beyond the length asked for and no buffer overflows.
TypeOK ==
    /\ link \in {"up", "fin", "reset"}
    /\ up \in Seq(Unit) /\ Len(up) <= UpRoom
    /\ down \in Seq(Unit) /\ Len(down) <= DownRoom
    /\ cpc \in {"idle", "send", "sendv", "recv", "return", "killed"}
    /\ spc \in {"header", "page", "reply", "exit"}
    /\ call.op \in {"none", "get", "put"} /\ call.ids \in Seq(Page)
    /\ Len(buf) < Wanted
    /\ \A i \in 1 .. Len(bufs) : Len(bufs[i]) = Wanted
    /\ Len(bufs) <= Len(call.ids)
    /\ Len(sbuf) < IF spc = "page" THEN PageUnits ELSE HeaderUnits
    /\ storage \in [Page -> [1 .. PageUnits -> Unit]]

\* Client and server never lose their place in the stream: whatever the
\* sizes of the pieces, what the server takes for a header is one, from its
\* first byte on, and what follows a PUT header is that page.
Framed ==
    /\ spc = "header" =>
            \A k \in 1 .. Len(sbuf) : sbuf[k][1] \in {"get", "put"} /\ sbuf[k][3] = k
    /\ spc = "page" =>
            \A k \in 1 .. Len(sbuf) :
                sbuf[k][1] \in Value /\ sbuf[k][2] = req.page /\ sbuf[k][3] = k

\* The calls keep the promise of PageStore although every transfer may be
\* cut, batches are pipelined, and calls are made after a failed one on the
\* same socket, as dsm_paging.c does: no reply is given to another call, no
\* page is mixed from two, an acknowledged PUT is stored, and after a
\* failure no call succeeds.
Abstract == INSTANCE PageStore WITH mem <- storage, Ids <- Batches, Content <- Contents

Implements == Abstract!Spec

\* Every call returns, although client and server both block on full buffers
\* and dsm_rpc_get_batch sends all its headers before it reads a page.
CallsEnd == cpc # "idle" ~> cpc \in {"idle", "killed"}
=============================================================================
