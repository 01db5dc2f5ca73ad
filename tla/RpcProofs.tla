----------------------------- MODULE RpcProofs ------------------------------
(***************************************************************************)
(* Proofs about Rpc, for any sizes of headers, pages, batches and socket   *)
(* buffers and for transfers of any length: the types, that the server     *)
(* never loses its place in the stream, and that the calls implement       *)
(* PageStore.                                                              *)
(*                                                                         *)
(* A call is seen as two tapes, its request and its replies.  The          *)
(* invariant says where on them the client's iovec, the bytes in flight,   *)
(* the buffers of both dsm_recv_full and the server stand.                 *)
(***************************************************************************)
EXTENDS Rpc, TLAPS

-----------------------------------------------------------------------------
(* The tapes of a call, and the inductive invariant *)

\* The units of s are those of the tape t behind position c.
Follows(s, t, c) == \A j \in 1 .. Len(s) : s[j] = t[c + j]

\* The calls a client can be in.
Calls ==
    {NoCall} \cup [op : {"get"}, ids : Batches]
             \cup [op : {"put"}, ids : {<<p>> : p \in Page}]

\* The header or page, of h units each, that position j of a tape belongs to,
\* and the unit of it.
Slot(j, h)   == ((j - 1) \div h) + 1
Offset(j, h) == ((j - 1) % h) + 1

\* Position j is unit k of header or page r + 1.
Placed(j, h, r, k) == j \in Nat /\ Slot(j, h) = r + 1 /\ Offset(j, h) = k

\* The request of a call, as one tape: a PUT's header and page of value v, or
\* the headers of a batch.
Asked(cl, v) ==
    [j \in Nat |->
        IF cl.op = "put"
        THEN IF j <= HeaderUnits THEN <<"put", cl.ids[1], j>>
                                 ELSE <<v, cl.ids[1], j - HeaderUnits>>
        ELSE <<"get", cl.ids[Slot(j, HeaderUnits)], Offset(j, HeaderUnits)>>]

\* Units of the request.
Length(cl) ==
    IF cl.op = "put" THEN HeaderUnits + PageUnits ELSE Len(cl.ids) * HeaderUnits

\* The replies of a call as one tape: the ACK, or the pages as they are
\* stored.
Answer(cl) ==
    [j \in Nat |->
        IF cl.op = "put" THEN <<"ack", cl.ids[1], j>>
        ELSE storage[cl.ids[Slot(j, PageUnits)]][Offset(j, PageUnits)]]

\* Units of one reply, and of all replies of a call.
Size(cl) == IF cl.op = "put" THEN HeaderUnits ELSE PageUnits
Due(cl)  == Len(cl.ids) * Size(cl)

\* The PUT a call carries.
Carried(cl, v) == [page |-> cl.ids[1], data |-> Data(cl.ids[1], v)]

\* The server in a PUT, having read rd units of the request and sent said
\* units of the reply: in the header, in the page, in the ACK, or done.  The
\* page is owed until it is complete.
PutServed(cl, v, rd, said) ==
    \/ /\ spc = "header" /\ rd = Len(sbuf) /\ said = 0
       /\ Len(sbuf) < HeaderUnits /\ owed = {Carried(cl, v)}
    \/ /\ spc = "page" /\ rd = HeaderUnits + Len(sbuf) /\ said = 0
       /\ Len(sbuf) < PageUnits /\ owed = {Carried(cl, v)}
       /\ req = [op |-> "put", page |-> cl.ids[1]]
    \/ /\ spc = "reply" /\ rd = Length(cl) /\ said = sent
       /\ sbuf = <<>> /\ sent < HeaderUnits /\ owed = {}
       /\ req = [op |-> "put", page |-> cl.ids[1]]
    \/ /\ spc = "header" /\ rd = Length(cl) /\ said = HeaderUnits
       /\ sbuf = <<>> /\ owed = {}

\* The server in a batch: r pages answered, and in the next header or in the
\* reply to it.
GetServed(cl, rd, said) ==
    \E r \in 0 .. Len(cl.ids) :
        \/ /\ spc = "header" /\ rd = r * HeaderUnits + Len(sbuf)
           /\ said = r * PageUnits /\ Len(sbuf) < HeaderUnits
        \/ /\ spc = "reply" /\ rd = (r + 1) * HeaderUnits
           /\ said = r * PageUnits + sent
           /\ sbuf = <<>> /\ sent < PageUnits
           /\ r < Len(cl.ids) /\ req = [op |-> "get", page |-> cl.ids[r + 1]]

\* The server is at its place in a call, and so is what is in flight to it.
Serving(cl, v, rd, said) ==
    /\ rd + Len(up) <= Length(cl)
    /\ spc # "reply" => sent = 0
    /\ cl.op = "put" => PutServed(cl, v, rd, said)
    /\ cl.op # "put" => GetServed(cl, rd, said)
    /\ Follows(up, Asked(cl, v), rd)
    /\ Follows(sbuf, Asked(cl, v), rd - Len(sbuf))

\* The buffers w are what is left of the request behind position out.
Lined(w, cl, v, out) ==
    \E off \in [1 .. Len(w) + 1 -> 0 .. Length(cl)] :
        /\ off[1] = out /\ off[Len(w) + 1] = Length(cl)
        /\ \A i \in 1 .. Len(w) :
            /\ off[i + 1] = off[i] + Len(w[i])
            /\ Follows(w[i], Asked(cl, v), off[i])

\* Units of the replies the client has received.
Received(cl) == Len(bufs) * Size(cl) + Len(buf)

\* The client is at its place in the replies, and so is what is in flight to
\* it; the replies received are those of the pages asked.
Incoming(cl) ==
    /\ Received(cl) + Len(down) <= Due(cl)
    /\ Follows(down, Answer(cl), Received(cl))
    /\ Follows(buf, Answer(cl), Len(bufs) * Size(cl))
    /\ \A i \in 1 .. Len(bufs) :
        /\ cl.op = "put" => bufs[i] = Header("ack", cl.ids[1])
        /\ cl.op # "put" => bufs[i] = storage[cl.ids[i]]

\* While a PUT is not stored no unit of its ACK exists.
Owing(cl) ==
    owed # {} => cl.op = "put" /\ bufs = <<>> /\ buf = <<>> /\ down = <<>>

\* Both ends are at the same place; a connection that is no longer up may
\* have lost units in between.
Coupled(cl, rd, said, out) ==
    /\ rd + Len(up) <= out
    /\ Received(cl) + Len(down) <= said
    /\ link = "up" => rd + Len(up) = out /\ Received(cl) + Len(down) = said

\* Client, streams and server in one call.
Talking(cl, v, rd, said, out) ==
    /\ Lined(iov, cl, v, out)
    /\ spc # "exit" => Serving(cl, v, rd, said) /\ Coupled(cl, rd, said, out)

\* A connection on which no call has failed: everything in it belongs to the
\* current call.
Live(cl) ==
    /\ Incoming(cl) /\ Owing(cl)
    /\ \E v \in Value, rd \in 0 .. Length(cl), said \in 0 .. Due(cl), out \in 0 .. Length(cl) :
            Talking(cl, v, rd, said, out)

\* What the server's thread still works on, perhaps for a call that failed.
Left ==
    \E cl \in Calls, v \in Value :
        \E rd \in 0 .. Length(cl), said \in 0 .. Due(cl) : Serving(cl, v, rd, said)

\* A connection on which a call has failed is closed or reset, and nothing
\* the client could take for a reply will arrive.
Dead ==
    /\ link # "up" /\ buf = <<>> /\ bufs = <<>>
    /\ down = <<>> \/ (link = "reset" /\ cpc \notin {"recv", "return"})
    /\ spc # "exit" => Left

\* The phases of the client's call.
Calling(cl) ==
    /\ (cpc = "idle") <=> (cl = NoCall)
    /\ cpc = "send" => cl.op = "get" /\ iov # <<>>
    /\ cpc = "sendv" => cl.op = "put" /\ Len(iov) \in 1 .. 2
    /\ cpc \notin {"send", "sendv", "killed"} => iov = <<>>
    /\ cpc = "recv" => Len(bufs) < Len(cl.ids)
    /\ cpc = "return" => Len(bufs) = Len(cl.ids)
    /\ cpc \notin {"recv", "return"} => bufs = <<>> /\ buf = <<>>
    /\ buf \in Seq(Unit) /\ Len(buf) < Size(cl)
    /\ bufs \in Seq(Seq(Unit)) /\ \A i \in 1 .. Len(bufs) : Len(bufs[i]) = Size(cl)
    /\ iov \in Seq(Seq(Unit))

\* Types of the connection and of the server.
Wire ==
    /\ link \in {"up", "fin", "reset"} /\ (link = "fin" => spc = "exit")
    /\ up \in Seq(Unit) /\ Len(up) <= UpRoom
    /\ down \in Seq(Unit) /\ Len(down) <= DownRoom
    /\ cpc \in {"idle", "send", "sendv", "recv", "return", "killed"}
    /\ spc \in {"header", "page", "reply", "exit"} /\ (spc = "exit" => sbuf = <<>>)
    /\ sbuf \in Seq(Unit) /\ sent \in Nat
    /\ storage \in [Page -> Contents]
    /\ dead \in BOOLEAN

\* The inductive invariant.  TypeOK and Framed alone are not inductive: that
\* a header is read at its first byte depends on where the client and both
\* streams are.
IInv ==
    /\ Wire /\ (dead => Dead)
    /\ \E cl \in Calls : cl = call /\ Calling(cl) /\ (~dead => Live(cl))

-----------------------------------------------------------------------------
(* Positions on a tape of headers or of pages *)

\* Headers and pages of a batch do not overlap: the one after a ends before
\* b begins.
LEMMA Less ==
    ASSUME NEW a \in Int, NEW b \in Int, NEW h \in Nat \ {0}, a < b
    PROVE  a * h + h <= b * h
<1>1. PICK d \in Nat : b = a + 1 + d
  <2>1. b - a - 1 \in Nat /\ b = a + 1 + (b - a - 1)
    OBVIOUS
  <2> QED  BY <2>1
<1>2. b * h = a * h + h + d * h
  BY <1>1
<1>3. d * h \in Nat
  BY <1>1
<1> QED  BY <1>2, <1>3

\* Quotient and remainder of a position.
LEMMA Division ==
    ASSUME NEW x \in Nat, NEW h \in Nat \ {0}
    PROVE  /\ x \div h \in Int /\ x % h \in 0 .. h - 1
           /\ x = h * (x \div h) + (x % h)
  BY SMT

\* Unit k of header or page r + 1 stands at position r * h + k of a tape.
LEMMA Place ==
    ASSUME NEW r \in Nat, NEW h \in Nat \ {0}, NEW k \in 1 .. h,
           NEW j, j = r * h + k
    PROVE  Placed(j, h, r, k)
<1>0. r * h \in Nat
  OBVIOUS
<1>1. j \in Nat /\ j - 1 \in Nat
  BY <1>0
<1> DEFINE q == (j - 1) \div h
           m == (j - 1) % h
<1>2. q \in Int /\ m \in 0 .. h - 1 /\ j - 1 = h * q + m
  BY Zenon, <1>1, Division
<1> HIDE DEF q, m
<1>3. h * q = q * h /\ q * h \in Int /\ r * h \in Int
  BY <1>2
<1>4. ~ (q < r)
  <2>1. ASSUME q < r PROVE FALSE
    <3>1. q * h + h <= r * h
      BY <1>2, <2>1, Less
    <3> QED  BY <3>1, <1>1, <1>2, <1>3
  <2> QED  BY <2>1
<1>5. ~ (r < q)
  <2>1. ASSUME r < q PROVE FALSE
    <3>1. r * h + h <= q * h
      BY <1>2, <2>1, Less
    <3> QED  BY <3>1, <1>1, <1>2, <1>3
  <2> QED  BY <2>1
<1>6. q = r
  BY <1>2, <1>4, <1>5
<1>7. m = k - 1
  <2>1. q * h = r * h
    BY <1>6
  <2> QED  BY <2>1, <1>1, <1>2, <1>3
<1>8. Slot(j, h) = q + 1 /\ Offset(j, h) = m + 1
  BY Zenon DEF Slot, Offset, q, m
<1> QED  BY <1>1, <1>6, <1>7, <1>8 DEF Placed

-----------------------------------------------------------------------------
(* Streams and the tapes they follow *)

\* What a transfer of n units leaves of a buffer.
LEMMA Dropped ==
    ASSUME NEW S, NEW s \in Seq(S), NEW n \in 0 .. Len(s)
    PROVE  /\ Drop(s, n) \in Seq(S) /\ Len(Drop(s, n)) = Len(s) - n
           /\ \A j \in 1 .. Len(s) - n : Drop(s, n)[j] = s[n + j]
  BY DEF Drop

\* What a transfer of n units carries.
LEMMA Taken ==
    ASSUME NEW S, NEW s \in Seq(S), NEW n \in 0 .. Len(s)
    PROVE  /\ Take(s, n) \in Seq(S) /\ Len(Take(s, n)) = n
           /\ \A j \in 1 .. n : Take(s, n)[j] = s[j]
  BY DEF Take

\* The same for the bytes of a message.
LEMMA TakenUnits ==
    ASSUME NEW s \in Seq(Unit), NEW n \in 0 .. Len(s)
    PROVE  Take(s, n) \in Seq(Unit) /\ Len(Take(s, n)) = n
  BY Taken

\* A count of the headers or pages of a batch is a number.
LEMMA Counted ==
    ASSUME NEW L \in Nat, NEW r \in 0 .. L
    PROVE  r \in Nat /\ r <= L
  OBVIOUS

\* What arrives is placed behind what has arrived (buf + total of
\* dsm_recv_full).
LEMMA Joined ==
    ASSUME NEW S, NEW s \in Seq(S), NEW u \in Seq(S)
    PROVE  /\ s \o u \in Seq(S) /\ Len(s \o u) = Len(s) + Len(u)
           /\ \A j \in 1 .. Len(s) : (s \o u)[j] = s[j]
           /\ \A j \in 1 .. Len(u) : (s \o u)[Len(s) + j] = u[j]
  OBVIOUS

\* An empty stream follows any tape.
LEMMA Nothing ==
    ASSUME NEW S, NEW t, NEW c
    PROVE  <<>> \in Seq(S) /\ Len(<<>>) = 0 /\ Follows(<<>>, t, c)
  BY DEF Follows

\* A stream is empty when its length is zero.
LEMMA Short ==
    ASSUME NEW S, NEW s \in Seq(S)
    PROVE  Len(s) \in Nat /\ (Len(s) = 0 <=> s = <<>>)
  OBVIOUS

\* The rest of a stream follows the same tape, further on.
LEMMA FollowsDrop ==
    ASSUME NEW S, NEW s \in Seq(S), NEW n \in 0 .. Len(s), NEW t, NEW c \in Nat,
           Follows(s, t, c)
    PROVE  Follows(Drop(s, n), t, c + n)
<1> DEFINE d == Drop(s, n)
<1>1. Len(d) = Len(s) - n /\ \A j \in 1 .. Len(s) - n : d[j] = s[n + j]
  BY Dropped
<1> HIDE DEF d
<1>2. Len(s) \in Nat
  OBVIOUS
<1>3. ASSUME NEW j \in 1 .. Len(d) PROVE d[j] = t[c + n + j]
  <2>1. n + j \in 1 .. Len(s) /\ c + (n + j) = c + n + j /\ j \in 1 .. Len(s) - n
    BY <1>1, <1>2
  <2>2. s[n + j] = t[c + (n + j)]
    BY <2>1 DEF Follows
  <2> QED  BY <1>1, <2>1, <2>2
<1> QED  BY <1>3 DEF Follows, d

\* So does its beginning, from the same position.
LEMMA FollowsTake ==
    ASSUME NEW S, NEW s \in Seq(S), NEW n \in 0 .. Len(s), NEW t, NEW c \in Nat,
           Follows(s, t, c)
    PROVE  Follows(Take(s, n), t, c)
<1> DEFINE d == Take(s, n)
<1>1. Len(d) = n /\ \A j \in 1 .. n : d[j] = s[j]
  BY Taken
<1> HIDE DEF d
<1>2. Len(s) \in Nat
  OBVIOUS
<1>3. ASSUME NEW j \in 1 .. Len(d) PROVE d[j] = t[c + j]
  <2>1. j \in 1 .. Len(s) /\ j \in 1 .. n
    BY <1>1, <1>2
  <2> QED  BY <1>1, <2>1 DEF Follows
<1> QED  BY <1>3 DEF Follows, d

\* A stream whose continuation follows the tape follows it as a whole.
LEMMA FollowsJoin ==
    ASSUME NEW S, NEW s \in Seq(S), NEW u \in Seq(S), NEW t, NEW c \in Nat,
           Follows(s, t, c), Follows(u, t, c + Len(s))
    PROVE  Follows(s \o u, t, c)
<1> DEFINE d == s \o u
<1>1. /\ Len(d) = Len(s) + Len(u)
      /\ \A j \in 1 .. Len(s) : d[j] = s[j]
      /\ \A j \in 1 .. Len(u) : d[Len(s) + j] = u[j]
  BY Joined
<1> HIDE DEF d
<1>2. Len(s) \in Nat /\ Len(u) \in Nat
  OBVIOUS
<1>3. ASSUME NEW j \in 1 .. Len(d) PROVE d[j] = t[c + j]
  <2>1. CASE j \in 1 .. Len(s)
    BY <1>1, <2>1 DEF Follows
  <2>2. CASE j \notin 1 .. Len(s)
    <3>1. PICK k \in 1 .. Len(u) : j = Len(s) + k
      <4>1. j - Len(s) \in 1 .. Len(u) /\ j = Len(s) + (j - Len(s))
        BY <1>1, <1>2, <2>2
      <4> QED  BY Zenon, <4>1
    <3>2. d[j] = u[k] /\ u[k] = t[c + Len(s) + k]
      BY <1>1, <3>1 DEF Follows
    <3>3. c + Len(s) + k = c + j
      BY <3>1, <1>2
    <3> QED  BY <3>2, <3>3
  <2> QED  BY <2>1, <2>2
<1> QED  BY <1>3 DEF Follows, d

\* Two streams of one length at one position of a tape are equal.
LEMMA Same ==
    ASSUME NEW S, NEW s \in Seq(S), NEW w \in Seq(S), NEW t, NEW c,
           Len(s) = Len(w), Follows(s, t, c), Follows(w, t, c)
    PROVE  s = w
<1>1. \A j \in 1 .. Len(s) : s[j] = w[j]
  BY DEF Follows
<1> QED  BY <1>1

-----------------------------------------------------------------------------
(* Headers, pages and calls *)

\* A header is HeaderUnits units and a page PageUnits, each in its place.
LEMMA Spelled ==
    ASSUME NEW p \in Page, NEW op \in {"get", "put", "ack"}, NEW v \in Value
    PROVE  /\ Header(op, p) \in Seq(Unit) /\ Len(Header(op, p)) = HeaderUnits
           /\ \A k \in 1 .. HeaderUnits : Header(op, p)[k] = <<op, p, k>>
           /\ Data(p, v) \in Seq(Unit) /\ Len(Data(p, v)) = PageUnits
           /\ \A k \in 1 .. PageUnits : Data(p, v)[k] = <<v, p, k>>
           /\ Data(p, v) \in [1 .. PageUnits -> Unit]
<1>0. HeaderUnits \in Nat /\ PageUnits \in Nat
  BY RpcAssumption
<1>1. ASSUME NEW x \in {"get", "put", "ack"} \cup Value,
             NEW k \in 1 .. HeaderUnits + PageUnits
      PROVE  <<x, p, k>> \in Unit
  <2>1. k \in 1 .. PageUnits + HeaderUnits
    BY <1>0
  <2> QED  BY <2>1 DEF Unit
<1>2. \A k \in 1 .. HeaderUnits : <<op, p, k>> \in Unit
  BY <1>0, <1>1
<1>3. ASSUME NEW k \in 1 .. PageUnits PROVE <<v, p, k>> \in Unit
  <2>1. k \in 1 .. HeaderUnits + PageUnits
    BY <1>0
  <2> QED  BY Zenon, <2>1, <1>1
<1>4. Header(op, p) \in [1 .. HeaderUnits -> Unit]
  BY <1>2 DEF Header
<1>5. Data(p, v) \in [1 .. PageUnits -> Unit]
  BY <1>3 DEF Data
<1>6. Header(op, p) \in Seq(Unit) /\ Len(Header(op, p)) = HeaderUnits
  BY <1>0, <1>4
<1>7. Data(p, v) \in Seq(Unit) /\ Len(Data(p, v)) = PageUnits
  BY <1>0, <1>5
<1>8. \A k \in 1 .. HeaderUnits : Header(op, p)[k] = <<op, p, k>>
  BY DEF Header
<1>9. \A k \in 1 .. PageUnits : Data(p, v)[k] = <<v, p, k>>
  BY DEF Data
<1> QED  BY <1>5, <1>6, <1>7, <1>8, <1>9

\* The first unit of an ACK says so: rsp.op of dsm_rpc_put.
LEMMA AckSpelled ==
    ASSUME NEW p \in Page
    PROVE  Header("ack", p)[1] = <<"ack", p, 1>>
<1>1. Zero \in Value /\ 1 \in 1 .. HeaderUnits
  BY RpcAssumption
<1> QED  BY <1>1, Spelled

\* A call names pages: one for a PUT, a batch for a GET, none when idle.
LEMMA CallTypes ==
    ASSUME NEW cl \in Calls
    PROVE  /\ cl.op \in {"none", "get", "put"}
           /\ cl.ids \in Seq(Page) /\ Len(cl.ids) \in Nat
           /\ \A i \in 1 .. Len(cl.ids) : cl.ids[i] \in Page
           /\ cl.op = "none" => cl = NoCall /\ cl.ids = <<>>
           /\ cl.op = "put" => cl.ids[1] \in Page /\ cl.ids = <<cl.ids[1]>> /\ Len(cl.ids) = 1
           /\ cl.op = "get" => cl.ids \in Batches /\ cl.ids # <<>> /\ cl # NoCall
           /\ cl.op = "put" => cl # NoCall /\ cl.ids # <<>>
<1>1. CASE cl = NoCall
  BY <1>1 DEF NoCall
<1>2. CASE cl \in [op : {"get"}, ids : Batches]
  <2>1. PICK n \in 1 .. BatchMax : cl.ids \in [1 .. n -> Page]
    BY <1>2 DEF Batches
  <2>2. n \in Nat \ {0}
    BY <2>1, RpcAssumption
  <2>3. cl.ids \in Seq(Page) /\ Len(cl.ids) = n
    BY <2>1, <2>2
  <2>4. \A i \in 1 .. Len(cl.ids) : cl.ids[i] \in Page
    BY <2>3
  <2>5. cl.op = "get" /\ cl.ids \in Batches
    BY <1>2
  <2>6. cl.ids # <<>>
    BY <2>2, <2>3
  <2>7. cl # NoCall
    BY <2>5 DEF NoCall
  <2> QED  BY <2>2, <2>3, <2>4, <2>5, <2>6, <2>7
<1>3. CASE cl \in [op : {"put"}, ids : {<<p>> : p \in Page}]
  <2>1. PICK p \in Page : cl.ids = <<p>>
    BY <1>3
  <2>2. cl.op = "put" /\ cl # NoCall
    BY <1>3 DEF NoCall
  <2> QED  BY <2>1, <2>2
<1> QED  BY <1>1, <1>2, <1>3 DEF Calls

\* A batch that is not all answered has a next page.
LEMMA NextPage ==
    ASSUME NEW cl \in Calls, NEW L \in Nat, L = Len(cl.ids), NEW r \in Nat, r < L
    PROVE  cl.ids[r + 1] \in Page
<1>1. r + 1 \in 1 .. L
  OBVIOUS
<1> QED  BY <1>1, CallTypes, Zenon

\* The lengths of request and reply of a call.
LEMMA CallSizes ==
    ASSUME NEW cl \in Calls
    PROVE  /\ Length(cl) \in Nat /\ Due(cl) \in Nat /\ Size(cl) \in Nat \ {0}
           /\ cl.op = "put" => /\ Length(cl) = HeaderUnits + PageUnits
                               /\ Due(cl) = HeaderUnits /\ Size(cl) = HeaderUnits
           /\ cl.op # "put" => /\ Length(cl) = Len(cl.ids) * HeaderUnits
                               /\ Due(cl) = Len(cl.ids) * PageUnits
                               /\ Size(cl) = PageUnits
           /\ cl.op = "none" => Length(cl) = 0 /\ Due(cl) = 0
<1>1. HeaderUnits \in Nat \ {0} /\ PageUnits \in Nat \ {0}
  BY RpcAssumption
<1>2. Len(cl.ids) \in Nat /\ (cl.op = "put" => Len(cl.ids) = 1)
      /\ (cl.op = "none" => Len(cl.ids) = 0)
  <2>1. cl.op = "none" => Len(cl.ids) = 0
    BY CallTypes
  <2> QED  BY <2>1, CallTypes
<1>3. Len(cl.ids) * HeaderUnits \in Nat /\ Len(cl.ids) * PageUnits \in Nat
  BY <1>1, <1>2
<1>4. 1 * HeaderUnits = HeaderUnits /\ 0 * HeaderUnits = 0 /\ 0 * PageUnits = 0
  BY <1>1
<1>5. CASE cl.op = "put"
  <2>1. Length(cl) = HeaderUnits + PageUnits /\ Size(cl) = HeaderUnits
        /\ Due(cl) = Len(cl.ids) * HeaderUnits
    BY <1>5 DEF Length, Due, Size
  <2>2. Due(cl) = HeaderUnits
    BY Zenon, <2>1, <1>2, <1>4, <1>5
  <2> QED  BY <2>1, <2>2, <1>1, <1>5
<1>6. CASE cl.op # "put"
  <2>1. Length(cl) = Len(cl.ids) * HeaderUnits /\ Size(cl) = PageUnits
        /\ Due(cl) = Len(cl.ids) * PageUnits
    BY <1>6 DEF Length, Due, Size
  <2>2. cl.op = "none" => Length(cl) = 0 /\ Due(cl) = 0
    BY <2>1, <1>2, <1>4
  <2> QED  BY <2>1, <2>2, <1>1, <1>3, <1>6
<1> QED  BY <1>5, <1>6

\* A call whose request is out waits for its replies or returns.
LEMMA StillCalling ==
    ASSUME NEW cl \in Calls, cl # NoCall, iov' = <<>>, cpc' \in {"recv", "return"},
           cpc' = "recv" => Len(bufs') < Len(cl.ids),
           cpc' = "return" => Len(bufs') = Len(cl.ids),
           buf' \in Seq(Unit), Len(buf') < Size(cl), bufs' \in Seq(Seq(Unit)),
           \A i \in 1 .. Len(bufs') : Len(bufs'[i]) = Size(cl)
    PROVE  Calling(cl)'
  BY DEF Calling, Size

\* A call begins with its request unsent and nothing received.
LEMMA NewCalling ==
    ASSUME NEW cl \in Calls, cl # NoCall, bufs' = <<>>, buf' = <<>>,
           NEW w \in Seq(Seq(Unit)), iov' = w,
           NEW how, cpc' = how,
           \/ how = "send" /\ cl.op = "get" /\ w # <<>>
           \/ how = "sendv" /\ cl.op = "put" /\ Len(w) = 2
    PROVE  Calling(cl)'
<1>1. Size(cl) \in Nat \ {0}
  BY CallSizes, Zenon
<1>2. /\ buf' \in Seq(Unit) /\ Len(buf') < Size(cl) /\ bufs' \in Seq(Seq(Unit))
      /\ \A i \in 1 .. Len(bufs') : Len(bufs'[i]) = Size(cl)
  BY <1>1
<1> QED  BY <1>2 DEF Calling, Size

\* A position in the request or in the reply of a call is a number.
LEMMA Positions ==
    ASSUME NEW cl \in Calls
    PROVE  (\A p \in 0 .. Length(cl) : p \in Nat) /\ \A p \in 0 .. Due(cl) : p \in Nat
<1>1. Length(cl) \in Nat /\ Due(cl) \in Nat
  BY CallSizes, Zenon
<1> QED  BY <1>1

\* A call that still awaits buffers holds fewer than it asked for.
LEMMA Below ==
    ASSUME NEW a \in Nat, NEW b, a # 0, b = 0
    PROVE  b < a
OBVIOUS

\* The request of dsm_rpc_put is its header, then its page.
LEMMA AskedPut ==
    ASSUME NEW cl \in Calls, cl.op = "put", NEW v \in Value
    PROVE  /\ Follows(Header("put", cl.ids[1]), Asked(cl, v), 0)
           /\ Follows(Data(cl.ids[1], v), Asked(cl, v), HeaderUnits)
<1>1. HeaderUnits \in Nat \ {0} /\ PageUnits \in Nat \ {0} /\ cl.ids[1] \in Page
  BY RpcAssumption, CallTypes
<1> DEFINE t == Asked(cl, v)
<1>2. ASSUME NEW j \in Nat, j <= HeaderUnits PROVE t[j] = <<"put", cl.ids[1], j>>
  BY <1>2, Zenon DEF Asked
<1>3. ASSUME NEW j \in Nat, ~ (j <= HeaderUnits)
      PROVE  t[j] = <<v, cl.ids[1], j - HeaderUnits>>
  BY <1>3, Zenon DEF Asked
<1> HIDE DEF t
<1>4. ASSUME NEW k \in 1 .. HeaderUnits PROVE t[0 + k] = <<"put", cl.ids[1], k>>
  <2>1. 0 + k = k /\ k \in Nat /\ k <= HeaderUnits
    BY <1>1
  <2> QED  BY <2>1, <1>2
<1>5. ASSUME NEW k \in 1 .. PageUnits PROVE t[HeaderUnits + k] = <<v, cl.ids[1], k>>
  <2> DEFINE j == HeaderUnits + k
  <2>1. j \in Nat /\ ~ (j <= HeaderUnits) /\ j - HeaderUnits = k
    BY <1>1
  <2>2. t[j] = <<v, cl.ids[1], j - HeaderUnits>>
    <3> HIDE DEF j
    <3> QED  BY <2>1, <1>3, Zenon
  <2> QED  BY <2>1, <2>2, Zenon
<1>6. Follows(Header("put", cl.ids[1]), t, 0)
  <2>1. "put" \in {"get", "put", "ack"}
    OBVIOUS
  <2>2. /\ Len(Header("put", cl.ids[1])) = HeaderUnits
        /\ \A k \in 1 .. HeaderUnits : Header("put", cl.ids[1])[k] = <<"put", cl.ids[1], k>>
    BY Zenon, <1>1, <2>1, Spelled
  <2> QED  BY Zenon, <1>4, <2>2 DEF Follows
<1>7. Follows(Data(cl.ids[1], v), t, HeaderUnits)
  <2>1. /\ Len(Data(cl.ids[1], v)) = PageUnits
        /\ \A k \in 1 .. PageUnits : Data(cl.ids[1], v)[k] = <<v, cl.ids[1], k>>
    BY <1>1, Spelled
  <2> QED  BY <1>5, <2>1 DEF Follows
<1> QED  BY <1>6, <1>7 DEF t

\* The request of dsm_rpc_get_batch is one header for each page, in order.
LEMMA AskedGet ==
    ASSUME NEW cl \in Calls, cl.op # "put", NEW v \in Value,
           NEW r \in Nat, r < Len(cl.ids)
    PROVE  Follows(Header("get", cl.ids[r + 1]), Asked(cl, v), r * HeaderUnits)
<1>1. HeaderUnits \in Nat \ {0}
  BY RpcAssumption
<1>2. cl.ids[r + 1] \in Page
  BY CallTypes
<1>3. ASSUME NEW k \in 1 .. HeaderUnits
      PROVE  Asked(cl, v)[r * HeaderUnits + k] = <<"get", cl.ids[r + 1], k>>
  <2>1. PICK j : j = r * HeaderUnits + k
    BY Zenon
  <2>2. Placed(j, HeaderUnits, r, k)
    BY <1>1, <2>1, Place, Zenon
  <2>3. j \in Nat /\ Slot(j, HeaderUnits) = r + 1 /\ Offset(j, HeaderUnits) = k
    BY <2>2, Zenon DEF Placed
  <2>4. Asked(cl, v)[j] = <<"get", cl.ids[Slot(j, HeaderUnits)], Offset(j, HeaderUnits)>>
    BY <2>3, Zenon DEF Asked
  <2> QED  BY <2>1, <2>3, <2>4, Zenon
<1>4. /\ Len(Header("get", cl.ids[r + 1])) = HeaderUnits
      /\ \A k \in 1 .. HeaderUnits :
            Header("get", cl.ids[r + 1])[k] = <<"get", cl.ids[r + 1], k>>
  <2>1. Value # {}
    BY RpcAssumption
  <2> QED  BY <1>2, <2>1, Spelled
<1> QED  BY Zenon, <1>3, <1>4 DEF Follows

\* The reply to a PUT is the ACK of its page.
LEMMA AnswerPut ==
    ASSUME NEW cl \in Calls, cl.op = "put"
    PROVE  Follows(Header("ack", cl.ids[1]), Answer(cl), 0)
<1>1. HeaderUnits \in Nat \ {0} /\ cl.ids[1] \in Page /\ Zero \in Value
  BY RpcAssumption, CallTypes
<1>2. ASSUME NEW k \in 1 .. HeaderUnits PROVE Answer(cl)[0 + k] = <<"ack", cl.ids[1], k>>
  BY <1>1 DEF Answer
<1>3. "ack" \in {"get", "put", "ack"}
  OBVIOUS
<1>4. /\ Len(Header("ack", cl.ids[1])) = HeaderUnits
      /\ \A k \in 1 .. HeaderUnits : Header("ack", cl.ids[1])[k] = <<"ack", cl.ids[1], k>>
  BY Zenon, <1>1, <1>3, Spelled
<1> QED  BY Zenon, <1>2, <1>4 DEF Follows

\* A page of g_storage is PageUnits units.
LEMMA Held ==
    ASSUME storage \in [Page -> Contents], NEW p \in Page
    PROVE  /\ storage[p] \in Seq(Unit) /\ Len(storage[p]) = PageUnits
           /\ storage[p] \in [1 .. PageUnits -> Unit]
<1>1. PICK q \in Page, v \in Value : storage[p] = Data(q, v)
  BY DEF Contents
<1> QED  BY <1>1, Spelled

\* The reply to a batch is the pages, in the order of the headers.
LEMMA AnswerGet ==
    ASSUME storage \in [Page -> Contents], NEW cl \in Calls, cl.op # "put",
           NEW r \in Nat, r < Len(cl.ids)
    PROVE  Follows(storage[cl.ids[r + 1]], Answer(cl), r * PageUnits)
<1>1. PageUnits \in Nat \ {0}
  BY RpcAssumption
<1>2. cl.ids[r + 1] \in Page
  BY CallTypes
<1>3. ASSUME NEW k \in 1 .. PageUnits
      PROVE  Answer(cl)[r * PageUnits + k] = storage[cl.ids[r + 1]][k]
  <2>1. PICK j : j = r * PageUnits + k
    BY Zenon
  <2>2. Placed(j, PageUnits, r, k)
    BY <1>1, <2>1, Place, Zenon
  <2>3. j \in Nat /\ Slot(j, PageUnits) = r + 1 /\ Offset(j, PageUnits) = k
    BY <2>2, Zenon DEF Placed
  <2>4. Answer(cl)[j] = storage[cl.ids[Slot(j, PageUnits)]][Offset(j, PageUnits)]
    BY <2>3, Zenon DEF Answer
  <2> QED  BY <2>1, <2>3, <2>4, Zenon
<1>4. Len(storage[cl.ids[r + 1]]) = PageUnits
  BY <1>2, Held
<1> QED  BY <1>3, <1>4 DEF Follows

-----------------------------------------------------------------------------
(* The buffers of an iovec *)

\* Head and rest of the buffers still to be sent.
LEMMA Queue ==
    ASSUME NEW S, NEW w \in Seq(S), w # <<>>
    PROVE  /\ w[1] \in S /\ Head(w) = w[1] /\ Len(w) \in Nat \ {0}
           /\ Tail(w) \in Seq(S) /\ Len(Tail(w)) = Len(w) - 1
           /\ \A i \in 1 .. Len(w) - 1 : Tail(w)[i] = w[i + 1]
  OBVIOUS

\* A buffer sent in part takes the place of the whole one.
LEMMA NewHead ==
    ASSUME NEW S, NEW w \in Seq(S), w # <<>>, NEW x \in S
    PROVE  /\ <<x>> \o Tail(w) \in Seq(S) /\ Len(<<x>> \o Tail(w)) = Len(w)
           /\ (<<x>> \o Tail(w))[1] = x
           /\ \A i \in 2 .. Len(w) : (<<x>> \o Tail(w))[i] = w[i]
  OBVIOUS

\* With no buffer left the whole request has been sent.
LEMMA LinedEmpty ==
    ASSUME NEW cl \in Calls, NEW v, NEW out
    PROVE  Lined(<<>>, cl, v, out) <=> out = Length(cl)
<1>1. Length(cl) \in Nat
  BY CallSizes
<1>2. ASSUME Lined(<<>>, cl, v, out) PROVE out = Length(cl)
  BY <1>2 DEF Lined
<1>3. ASSUME out = Length(cl) PROVE Lined(<<>>, cl, v, out)
  <2> DEFINE off == [i \in 1 .. 1 |-> Length(cl)]
  <2>1. off \in [1 .. Len(<<>>) + 1 -> 0 .. Length(cl)] /\ off[1] = Length(cl)
        /\ off[Len(<<>>) + 1] = Length(cl)
    BY <1>1
  <2>2. \A i \in 1 .. Len(<<>>) : FALSE
    OBVIOUS
  <2> QED  BY Zenon, <1>3, <2>1, <2>2 DEF Lined
<1> QED  BY <1>2, <1>3

\* A buffer is sent: the others continue the request behind it.
LEMMA LinedTail ==
    ASSUME NEW cl \in Calls, NEW v, NEW out, NEW w \in Seq(Seq(Unit)), w # <<>>,
           Lined(w, cl, v, out)
    PROVE  /\ out \in Nat /\ out + Len(w[1]) \in Nat /\ out + Len(w[1]) <= Length(cl)
           /\ Follows(w[1], Asked(cl, v), out)
           /\ Lined(Tail(w), cl, v, out + Len(w[1]))
<1>1. PICK off \in [1 .. Len(w) + 1 -> 0 .. Length(cl)] :
        /\ off[1] = out /\ off[Len(w) + 1] = Length(cl)
        /\ \A i \in 1 .. Len(w) :
            /\ off[i + 1] = off[i] + Len(w[i])
            /\ Follows(w[i], Asked(cl, v), off[i])
  BY Zenon DEF Lined
<1>2. /\ Len(w) \in Nat \ {0} /\ w[1] \in Seq(Unit)
      /\ Len(Tail(w)) = Len(w) - 1
      /\ \A i \in 1 .. Len(w) - 1 : Tail(w)[i] = w[i + 1]
  BY Queue
<1>3. Length(cl) \in Nat /\ Len(w[1]) \in Nat
  BY <1>2, CallSizes
<1>4. 1 \in 1 .. Len(w) /\ 1 \in 1 .. Len(w) + 1 /\ 1 + 1 \in 1 .. Len(w) + 1
  BY <1>2
<1>5. /\ off[1] \in 0 .. Length(cl) /\ off[1 + 1] \in 0 .. Length(cl)
      /\ off[1 + 1] = off[1] + Len(w[1]) /\ Follows(w[1], Asked(cl, v), off[1])
  BY Zenon, <1>1, <1>4
<1>6. out \in Nat /\ out + Len(w[1]) \in Nat /\ out + Len(w[1]) <= Length(cl)
  BY <1>1, <1>3, <1>5
<1> DEFINE l == Len(w) - 1
           o == [i \in 1 .. l + 1 |-> off[i + 1]]
           tl == Tail(w)
<1>7. l \in Nat /\ l + 1 = Len(w) /\ \A i \in 1 .. l + 1 : i + 1 \in 1 .. Len(w) + 1
  BY <1>2
<1>8. o \in [1 .. l + 1 -> 0 .. Length(cl)]
  BY <1>1, <1>7
<1>9. o[1] = out + Len(w[1]) /\ o[l + 1] = Length(cl)
  <2>1. 1 \in 1 .. l + 1 /\ l + 1 \in 1 .. l + 1
    BY <1>7
  <2>2. o[1] = off[1 + 1] /\ o[l + 1] = off[l + 1 + 1]
    BY <2>1
  <2> QED  BY <2>2, <1>1, <1>5, <1>7
<1>10. ASSUME NEW i \in 1 .. l
       PROVE  o[i + 1] = o[i] + Len(tl[i]) /\ Follows(tl[i], Asked(cl, v), o[i])
  <2>1. i + 1 \in 1 .. Len(w) /\ i \in 1 .. l + 1 /\ i + 1 \in 1 .. l + 1
        /\ i \in 1 .. Len(w) - 1
    BY <1>7
  <2>2. o[i] = off[i + 1] /\ o[i + 1] = off[i + 1 + 1] /\ tl[i] = w[i + 1]
    BY <2>1, <1>2
  <2>3. off[i + 1 + 1] = off[i + 1] + Len(w[i + 1])
        /\ Follows(w[i + 1], Asked(cl, v), off[i + 1])
    BY <2>1, <1>1
  <2> HIDE DEF o, tl, l
  <2> QED  BY <2>2, <2>3, Zenon
<1>11. Lined(tl, cl, v, out + Len(w[1]))
  <2>1. Len(tl) = l
    BY <1>2
  <2> HIDE DEF o, tl, l
  <2> QED  BY <1>8, <1>9, <1>10, <2>1, Zenon DEF Lined
<1>12. Follows(w[1], Asked(cl, v), out)
  BY <1>1, <1>5, Zenon
<1> QED  BY <1>6, <1>11, <1>12

\* A buffer is sent in part: its rest continues the request.
LEMMA LinedPart ==
    ASSUME NEW cl \in Calls, NEW v, NEW out, NEW w \in Seq(Seq(Unit)), w # <<>>,
           Lined(w, cl, v, out), NEW n \in 0 .. Len(w[1])
    PROVE  Lined(<<Drop(w[1], n)>> \o Tail(w), cl, v, out + n)
<1>1. PICK off \in [1 .. Len(w) + 1 -> 0 .. Length(cl)] :
        /\ off[1] = out /\ off[Len(w) + 1] = Length(cl)
        /\ \A i \in 1 .. Len(w) :
            /\ off[i + 1] = off[i] + Len(w[i])
            /\ Follows(w[i], Asked(cl, v), off[i])
  BY Zenon DEF Lined
<1> DEFINE x == Drop(w[1], n)
           w2 == <<x>> \o Tail(w)
<1>2. w[1] \in Seq(Unit) /\ Len(w) \in Nat \ {0}
  OBVIOUS
<1>3. x \in Seq(Unit) /\ Len(x) = Len(w[1]) - n
  BY Zenon, <1>2, Dropped
<1>4. Len(w2) = Len(w) /\ w2[1] = x /\ \A i \in 2 .. Len(w) : w2[i] = w[i]
  BY <1>3, NewHead
<1>5. Length(cl) \in Nat /\ Len(w[1]) \in Nat
  BY <1>2, CallSizes
<1>6. 1 \in 1 .. Len(w) /\ 1 \in 1 .. Len(w) + 1 /\ 1 + 1 \in 1 .. Len(w) + 1
  BY <1>2
<1>7. /\ off[1] \in 0 .. Length(cl) /\ off[1 + 1] \in 0 .. Length(cl)
      /\ off[1 + 1] = off[1] + Len(w[1]) /\ Follows(w[1], Asked(cl, v), off[1])
  BY Zenon, <1>1, <1>6
<1>8. out + n \in 0 .. Length(cl) /\ out \in Nat
  BY <1>1, <1>5, <1>7
<1>9. Follows(x, Asked(cl, v), out + n)
  BY <1>1, <1>2, <1>7, <1>8, FollowsDrop
<1> DEFINE o == [off EXCEPT ![1] = out + n]
<1> HIDE DEF x, w2
<1>10. o \in [1 .. Len(w) + 1 -> 0 .. Length(cl)] /\ o[1] = out + n
       /\ \A i \in 2 .. Len(w) + 1 : o[i] = off[i]
  BY <1>2, <1>6, <1>8
<1>11. o[Len(w) + 1] = Length(cl)
  <2>1. Len(w) + 1 \in 2 .. Len(w) + 1
    BY <1>2
  <2> QED  BY <2>1, <1>1, <1>10
<1> HIDE DEF o
<1>12. ASSUME NEW i \in 1 .. Len(w)
       PROVE  o[i + 1] = o[i] + Len(w2[i]) /\ Follows(w2[i], Asked(cl, v), o[i])
  <2>1. CASE i = 1
    <3>1. 1 + 1 \in 2 .. Len(w) + 1
      BY <1>2
    <3>2. out + n + Len(x) = out + Len(w[1])
      <4>1. PICK a, l : a \in Nat /\ a = Len(w[1]) /\ l = Len(x) /\ l = a - n
        BY <1>3, <1>5, Zenon
      <4>2. a \in Nat /\ l = a - n /\ n \in 0 .. a /\ out \in Nat
        BY <1>8, <4>1, Zenon
      <4>3. out + n + l = out + a
        BY <4>2
      <4> QED  BY <4>1, <4>3, Zenon
    <3>3. o[1 + 1] = off[1 + 1]
      BY <3>1, <1>10, Zenon
    <3>4. o[1 + 1] = o[1] + Len(w2[1])
      BY <3>2, <3>3, <1>1, <1>4, <1>7, <1>10, Zenon
    <3>5. Follows(w2[1], Asked(cl, v), o[1])
      BY <1>4, <1>9, <1>10, Zenon
    <3> QED  BY <2>1, <3>4, <3>5, Zenon
  <2>2. CASE i # 1
    <3>1. i \in 2 .. Len(w) /\ i \in 2 .. Len(w) + 1 /\ i + 1 \in 2 .. Len(w) + 1
      BY <1>2, <2>2
    <3> QED  BY <3>1, <1>1, <1>4, <1>10, Zenon
  <2> QED  BY <2>1, <2>2, Zenon
<1>13. Lined(w2, cl, v, out + n)
  BY <1>4, <1>10, <1>11, <1>12, Zenon DEF Lined
<1> QED  BY <1>13 DEF w2, x

\* A single buffer.
LEMMA Single ==
    ASSUME NEW S, NEW x \in S
    PROVE  <<x>> \in Seq(S) /\ Len(<<x>>) = 1 /\ Tail(<<x>>) = <<>> /\ <<x>> \o <<>> = <<x>>
  OBVIOUS

\* An iovec of one buffer is that buffer.
LEMMA OneBuffer ==
    ASSUME NEW S, NEW w \in Seq(S), Len(w) = 1
    PROVE  w[1] \in S /\ w # <<>> /\ Tail(w) = <<>> /\ w = <<w[1]>>
<1>1. w[1] \in S /\ w # <<>>
  OBVIOUS
<1>2. w = <<w[1]>>
  OBVIOUS
<1>3. Tail(<<w[1]>>) = <<>>
  BY <1>1, Single
<1> QED  BY <1>1, <1>2, <1>3, Zenon

\* An iovec of two buffers, and what is left behind the first.
LEMMA TwoBuffers ==
    ASSUME NEW S, NEW w \in Seq(S), Len(w) = 2
    PROVE  /\ w[1] \in S /\ w[2] \in S /\ w # <<>>
           /\ Tail(w) \in Seq(S) /\ Tail(w) # <<>> /\ Len(Tail(w)) = 1
           /\ Tail(w)[1] = w[2] /\ Tail(Tail(w)) = <<>>
           /\ \A x \in S : <<x>> \o Tail(Tail(w)) = <<x>>
<1>1. w[1] \in S /\ w[2] \in S
  OBVIOUS
<1>2. w # <<>>
  OBVIOUS
<1>3. Tail(w) \in Seq(S) /\ Len(Tail(w)) = 1 /\ Tail(w)[1] = w[2]
  BY <1>1, <1>2, Queue
<1>4. Tail(w) # <<>> /\ Tail(Tail(w)) = <<>>
  BY Zenon, <1>3, OneBuffer
<1>5. \A x \in S : <<x>> \o Tail(Tail(w)) = <<x>>
  BY <1>4, Single, Zenon
<1> QED  BY <1>1, <1>3, <1>4, <1>5, <1>2

\* What dsm_sendv hands to writev, and its iovec after a write, are buffers.
LEMMA Buffers ==
    ASSUME NEW w \in Seq(Seq(Unit)), Len(w) \in 1 .. 2
    PROVE  /\ Gathered(w) \in Seq(Unit) /\ w # <<>>
           /\ \A n \in 1 .. Len(Gathered(w)) :
                AdvanceIov(w, n) \in Seq(Seq(Unit)) /\ Len(AdvanceIov(w, n)) \in 0 .. 2
<1>1. CASE Len(w) = 1
  <2>1. w[1] \in Seq(Unit) /\ w # <<>> /\ Tail(w) = <<>>
    BY <1>1, OneBuffer
  <2>2. Gathered(w) = w[1]
    BY <1>1 DEF Gathered
  <2>3. ASSUME NEW n \in 1 .. Len(w[1])
        PROVE  AdvanceIov(w, n) \in Seq(Seq(Unit)) /\ Len(AdvanceIov(w, n)) \in 0 .. 2
    <3>1. CASE n - Len(w[1]) < 0
      <4>1. Drop(w[1], n) \in Seq(Unit)
        BY <2>1, Dropped
      <4>2. AdvanceIov(w, n) = <<Drop(w[1], n)>> \o Tail(w)
        BY <3>1 DEF AdvanceIov
      <4>3. <<Drop(w[1], n)>> \o Tail(w) \in Seq(Seq(Unit))
            /\ Len(<<Drop(w[1], n)>> \o Tail(w)) = Len(w)
        <5>1. w # <<>>
          BY <2>1
        <5> QED  BY <4>1, <5>1, NewHead
      <4> QED  BY <1>1, <4>2, <4>3
    <3>2. CASE ~ (n - Len(w[1]) < 0)
      <4>1. n - Len(w[1]) = 0
        BY <2>1, <3>2
      <4>2. AdvanceIov(w, n) = <<>>
        BY <2>1, <3>2, <4>1 DEF AdvanceIov
      <4> QED  BY <4>2
    <3> QED  BY <3>1, <3>2
  <2> QED  BY <2>1, <2>2, <2>3
<1>2. CASE Len(w) = 2
  <2>1. /\ w[1] \in Seq(Unit) /\ w[2] \in Seq(Unit) /\ w # <<>>
        /\ Tail(w) \in Seq(Seq(Unit)) /\ Len(Tail(w)) = 1
    BY <1>2, TwoBuffers
  <2>2. Gathered(w) = w[1] \o w[2]
    BY <1>2 DEF Gathered
  <2>3. Gathered(w) \in Seq(Unit) /\ Len(Gathered(w)) = Len(w[1]) + Len(w[2])
    BY <2>1, <2>2, Joined
  <2>4. Len(w[1]) \in Nat /\ Len(w[2]) \in Nat
    BY <2>1
  <2>5. ASSUME NEW n \in 1 .. Len(w[1]) + Len(w[2])
        PROVE  AdvanceIov(w, n) \in Seq(Seq(Unit)) /\ Len(AdvanceIov(w, n)) \in 0 .. 2
    <3>1. CASE n - Len(w[1]) < 0
      <4>1. Drop(w[1], n) \in Seq(Unit)
        <5>1. n \in 0 .. Len(w[1])
          BY <2>4, <3>1
        <5> QED  BY <2>1, <5>1, Dropped
      <4>2. AdvanceIov(w, n) = <<Drop(w[1], n)>> \o Tail(w)
        BY <3>1 DEF AdvanceIov
      <4>3. <<Drop(w[1], n)>> \o Tail(w) \in Seq(Seq(Unit))
            /\ Len(<<Drop(w[1], n)>> \o Tail(w)) = Len(w)
        <5>1. w # <<>>
          BY <2>1
        <5> QED  BY <4>1, <5>1, NewHead
      <4> QED  BY <1>2, <4>2, <4>3
    <3>2. CASE n - Len(w[1]) = 0
      <4>1. AdvanceIov(w, n) = Tail(w)
        BY <3>2 DEF AdvanceIov
      <4> QED  BY <2>1, <4>1
    <3>3. CASE ~ (n - Len(w[1]) < 0) /\ n - Len(w[1]) # 0 /\ n - Len(w[1]) < Len(w[2])
      <4>1. n - Len(w[1]) \in 0 .. Len(w[2])
        BY <2>4, <3>3
      <4>2. Drop(w[2], n - Len(w[1])) \in Seq(Unit)
        BY <2>1, <4>1, Dropped
      <4>3. AdvanceIov(w, n) = <<Drop(w[2], n - Len(w[1]))>>
        BY <3>3 DEF AdvanceIov
      <4> QED  BY <4>2, <4>3
    <3>4. CASE /\ ~ (n - Len(w[1]) < 0) /\ n - Len(w[1]) # 0
               /\ ~ (n - Len(w[1]) < Len(w[2]))
      <4>1. AdvanceIov(w, n) = <<>>
        BY <3>4 DEF AdvanceIov
      <4> QED  BY <4>1
    <3> QED  BY <3>1, <3>2, <3>3, <3>4
  <2> QED  BY <2>1, <2>3, <2>5
<1> QED  BY <1>1, <1>2

\* The inner loop of dsm_sendv: after writev has taken n units, wherever that
\* falls in the two buffers, the iovec continues the request n units further.
LEMMA Advanced ==
    ASSUME NEW cl \in Calls, NEW v, NEW out, NEW w \in Seq(Seq(Unit)), Len(w) \in 1 .. 2,
           Lined(w, cl, v, out), NEW n \in 1 .. Len(Gathered(w))
    PROVE  /\ Follows(Gathered(w), Asked(cl, v), out)
           /\ out + n \in 0 .. Length(cl)
           /\ Lined(AdvanceIov(w, n), cl, v, out + n)
<1>1. CASE Len(w) = 1
  <2>1. w[1] \in Seq(Unit) /\ w # <<>> /\ Tail(w) = <<>>
    BY <1>1, OneBuffer
  <2>2. Gathered(w) = w[1] /\ Len(w[1]) \in Nat /\ n \in 1 .. Len(w[1])
    BY <1>1, <2>1 DEF Gathered
  <2>3. /\ out \in Nat /\ out + Len(w[1]) \in Nat /\ out + Len(w[1]) <= Length(cl)
        /\ Follows(w[1], Asked(cl, v), out)
        /\ Lined(Tail(w), cl, v, out + Len(w[1]))
    BY <2>1, LinedTail
  <2>4. out + n \in 0 .. Length(cl)
    BY <2>2, <2>3, CallSizes
  <2>5. Lined(AdvanceIov(w, n), cl, v, out + n)
    <3>1. CASE n - Len(w[1]) < 0
      <4>1. AdvanceIov(w, n) = <<Drop(w[1], n)>> \o Tail(w)
        BY <3>1 DEF AdvanceIov
      <4>2. n \in 0 .. Len(w[1])
        BY <2>2
      <4> QED  BY <2>1, <4>1, <4>2, LinedPart
    <3>2. CASE ~ (n - Len(w[1]) < 0)
      <4>1. n = Len(w[1]) /\ n - Len(w[1]) = 0
        BY <2>2, <3>2
      <4>2. AdvanceIov(w, n) = Tail(w)
        BY <3>2, <4>1 DEF AdvanceIov
      <4> QED  BY <2>3, <4>1, <4>2, Zenon
    <3> QED  BY <3>1, <3>2
  <2> QED  BY <2>2, <2>3, <2>4, <2>5
<1>2. CASE Len(w) = 2
  <2>1. /\ w[1] \in Seq(Unit) /\ w[2] \in Seq(Unit) /\ w # <<>>
        /\ Tail(w) \in Seq(Seq(Unit)) /\ Tail(w) # <<>>
        /\ Tail(w)[1] = w[2] /\ Tail(Tail(w)) = <<>>
        /\ \A x \in Seq(Unit) : <<x>> \o Tail(Tail(w)) = <<x>>
    BY Zenon, <1>2, TwoBuffers
  <2>2. Gathered(w) = w[1] \o w[2]
    BY <1>2 DEF Gathered
  <2>3. Len(Gathered(w)) = Len(w[1]) + Len(w[2]) /\ Len(w[1]) \in Nat /\ Len(w[2]) \in Nat
    BY <2>1, <2>2, Joined, SMTT(30)
  <2>4. PICK a \in Nat, b \in Nat : a = Len(w[1]) /\ b = Len(w[2]) /\ n \in 1 .. a + b
    BY Zenon, <2>3
  <2>5. n \in 1 .. a + b
    BY Zenon, <2>4
  <2>6. /\ out \in Nat /\ out + Len(w[1]) \in Nat
        /\ Follows(w[1], Asked(cl, v), out)
        /\ Lined(Tail(w), cl, v, out + Len(w[1]))
    BY <2>1, LinedTail
  <2>7. out \in Nat
    BY <2>6
  <2>8. PICK mid : mid = out + Len(w[1])
    BY Zenon
  <2>9. /\ mid \in Nat /\ mid + Len(Tail(w)[1]) \in Nat
        /\ mid + Len(Tail(w)[1]) <= Length(cl)
        /\ Follows(Tail(w)[1], Asked(cl, v), mid)
        /\ Lined(Tail(Tail(w)), cl, v, mid + Len(Tail(w)[1]))
    BY Zenon, <2>1, <2>6, <2>8, LinedTail
  <2>10. /\ mid + Len(w[2]) <= Length(cl)
        /\ Follows(w[2], Asked(cl, v), mid)
        /\ Lined(<<>>, cl, v, mid + Len(w[2]))
    BY <2>1, <2>9, Zenon
  <2>11. Follows(w[1] \o w[2], Asked(cl, v), out)
    BY <2>1, <2>6, <2>8, <2>10, FollowsJoin
  <2>12. out + n \in 0 .. Length(cl)
    <3>1. Length(cl) \in Nat
      BY CallSizes
    <3>2. mid = out + a /\ mid + b <= Length(cl)
      BY <2>8, <2>10, <2>4, Zenon
    <3> QED  BY <2>5, <2>7, <3>1, <3>2
  <2>13. Lined(AdvanceIov(w, n), cl, v, out + n)
    <3>1. CASE n - Len(w[1]) < 0
      <4>1. AdvanceIov(w, n) = <<Drop(w[1], n)>> \o Tail(w)
        BY <3>1 DEF AdvanceIov
      <4>2. n \in 0 .. Len(w[1])
        BY <2>3, <3>1
      <4> QED  BY <2>1, <4>1, <4>2, LinedPart
    <3>2. CASE n - Len(w[1]) = 0
      <4>1. n = Len(w[1])
        BY <2>3, <3>2
      <4>2. AdvanceIov(w, n) = Tail(w)
        BY <3>2 DEF AdvanceIov
      <4> QED  BY <2>6, <4>1, <4>2, Zenon
    <3>3. CASE ~ (n - Len(w[1]) < 0) /\ n - Len(w[1]) # 0 /\ n - Len(w[1]) < Len(w[2])
      <4>1. PICK k : k = n - Len(w[1])
        BY Zenon
      <4>2. k \in 0 .. Len(w[2]) /\ mid + k = out + n
        <5>1. mid = out + a /\ k = n - a /\ ~ (k < 0) /\ k < b
          BY <2>8, <2>4, <3>3, <4>1, Zenon
        <5>2. k \in 0 .. b /\ mid + k = out + n
          BY <2>5, <2>7, <5>1
        <5> QED  BY <2>4, <5>2, Zenon
      <4>3. AdvanceIov(w, n) = <<Drop(w[2], k)>>
        BY <3>3, <4>1 DEF AdvanceIov
      <4>4. Lined(<<Drop(Tail(w)[1], k)>> \o Tail(Tail(w)), cl, v, mid + k)
        BY <2>1, <2>6, <2>8, <4>2, LinedPart, Zenon
      <4>5. Drop(w[2], k) \in Seq(Unit)
        BY <2>1, <4>2, Dropped
      <4> QED  BY <2>1, <4>2, <4>3, <4>4, <4>5, Zenon
    <3>4. CASE /\ ~ (n - Len(w[1]) < 0) /\ n - Len(w[1]) # 0
               /\ ~ (n - Len(w[1]) < Len(w[2]))
      <4>1. AdvanceIov(w, n) = <<>>
        BY <3>4 DEF AdvanceIov
      <4>2. mid + Len(w[2]) = out + n
        <5>1. mid = out + a /\ ~ (n - a < 0) /\ ~ (n - a < b)
          BY <2>8, <2>4, <3>4, Zenon
        <5>2. mid + b = out + n
          BY <2>5, <2>7, <5>1
        <5> QED  BY <2>4, <5>2, Zenon
      <4> QED  BY <2>10, <4>1, <4>2, Zenon
    <3> QED  BY <3>1, <3>2, <3>3, <3>4
  <2> QED  BY <2>2, <2>11, <2>12, <2>13
<1> QED  BY <1>1, <1>2

-----------------------------------------------------------------------------
(* The server's thread: what it reads and writes *)

\* dsm_recv_full on either side: what is received continues what has been
\* received, and what stays in flight continues that.
LEMMA Pulled ==
    ASSUME NEW s \in Seq(Unit), NEW u \in Seq(Unit), NEW n \in 1 .. Len(u),
           NEW t, NEW c \in Nat, Follows(s, t, c), Follows(u, t, c + Len(s))
    PROVE  /\ s \o Take(u, n) \in Seq(Unit)
           /\ Len(s \o Take(u, n)) = Len(s) + n
           /\ Follows(s \o Take(u, n), t, c)
           /\ Drop(u, n) \in Seq(Unit) /\ Len(Drop(u, n)) = Len(u) - n
           /\ Follows(Drop(u, n), t, c + Len(s) + n)
<1>1. n \in 0 .. Len(u) /\ c + Len(s) \in Nat
  OBVIOUS
<1>2. Take(u, n) \in Seq(Unit) /\ Len(Take(u, n)) = n
  BY <1>1, Taken
<1>3. Follows(Take(u, n), t, c + Len(s))
  BY <1>1, FollowsTake
<1>4. s \o Take(u, n) \in Seq(Unit) /\ Len(s \o Take(u, n)) = Len(s) + n
  BY Zenon, <1>2, Joined
<1>5. Follows(s \o Take(u, n), t, c)
  BY <1>2, <1>3, FollowsJoin
<1>6. Drop(u, n) \in Seq(Unit) /\ Len(Drop(u, n)) = Len(u) - n
  BY <1>1, Dropped
<1>7. Follows(Drop(u, n), t, c + Len(s) + n)
  BY <1>1, FollowsDrop
<1> QED  BY <1>4, <1>5, <1>6, <1>7

\* A complete header is dispatched as the request that was sent.
LEMMA ParsedHeader ==
    ASSUME NEW op \in {"get", "put"}, NEW p \in Page
    PROVE  Parsed(Header(op, p)) = [op |-> op, page |-> p]
<1>1. /\ Len(Header(op, p)) = HeaderUnits
      /\ \A k \in 1 .. HeaderUnits : Header(op, p)[k] = <<op, p, k>>
  <2>1. Zero \in Value /\ op \in {"get", "put", "ack"}
    BY RpcAssumption
  <2> QED  BY <2>1, Spelled
<1>2. 1 \in 1 .. HeaderUnits /\ HeaderUnits \in 1 .. HeaderUnits
  BY RpcAssumption
<1>3. Header(op, p)[1] = <<op, p, 1>>
      /\ Header(op, p)[HeaderUnits] = <<op, p, HeaderUnits>>
  BY <1>1, <1>2
<1>4. <<op, p, 1>>[1] = op /\ <<op, p, HeaderUnits>>[2] = p
  OBVIOUS
<1> QED  BY <1>1, <1>3, <1>4, Zenon DEF Parsed

\* The server receives a part of a header: it stays at its place in the
\* request, and a complete header makes it serve the page that was asked.
LEMMA HeaderServed ==
    ASSUME up \in Seq(Unit), sbuf \in Seq(Unit),
           NEW cl \in Calls, NEW v \in Value, NEW rd \in Nat, NEW said,
           Serving(cl, v, rd, said), ServeHeader
    PROVE  /\ up' \in Seq(Unit) /\ Len(up') <= Len(up) /\ sbuf' \in Seq(Unit)
           /\ spc' \in {"header", "page", "reply"}
           /\ \E r2 \in 0 .. Length(cl) :
                Serving(cl, v, r2, said)' /\ r2 + Len(up)' = rd + Len(up)
<1> DEFINE t == Asked(cl, v)
<1>0. HeaderUnits \in Nat \ {0} /\ PageUnits \in Nat \ {0} /\ Length(cl) \in Nat
  BY RpcAssumption, CallSizes
<1>1. PICK n \in 1 .. Len(up) :
        /\ n <= HeaderUnits - Len(sbuf)
        /\ up' = Drop(up, n)
        /\ IF Len(sbuf \o Take(up, n)) < HeaderUnits
           THEN sbuf' = sbuf \o Take(up, n) /\ UNCHANGED <<spc, req>>
           ELSE /\ sbuf' = <<>>
                /\ req' = Parsed(sbuf \o Take(up, n))
                /\ spc' = CASE req'.op = "get" -> "reply"
                             [] req'.op = "put" -> "page"
                             [] OTHER -> "header"
  BY Zenon DEF ServeHeader, Some
<1>2. spc = "header" /\ sent' = sent /\ owed' = owed
  BY DEF ServeHeader
<1>3. /\ rd + Len(up) <= Length(cl) /\ sent = 0
      /\ Follows(up, t, rd) /\ Follows(sbuf, t, rd - Len(sbuf))
      /\ cl.op = "put" => PutServed(cl, v, rd, said)
      /\ cl.op # "put" => GetServed(cl, rd, said)
  BY <1>2 DEF Serving
<1>4. PICK lu \in Nat, ls \in Nat : lu = Len(up) /\ ls = Len(sbuf)
  OBVIOUS
<1>5. n \in 1 .. lu /\ n <= HeaderUnits - ls /\ rd + lu <= Length(cl)
  BY <1>1, <1>3, <1>4, Zenon
<1>6. ls <= rd
  <2>1. CASE cl.op = "put"
    <3>1. rd = Len(sbuf) \/ (rd = Length(cl) /\ sbuf = <<>>)
      BY Zenon, <1>2, <1>3, <2>1 DEF PutServed
    <3>2. rd = ls \/ ls = 0
      BY <1>4, <3>1
    <3> QED  BY <3>2
  <2>2. CASE cl.op # "put"
    <3>1. PICK r \in 0 .. Len(cl.ids) : rd = r * HeaderUnits + Len(sbuf)
      BY Zenon, <1>2, <1>3, <2>2 DEF GetServed
    <3>2. PICK x \in Nat : x = r * HeaderUnits
      BY <1>0, CallTypes, SMTT(30)
    <3>3. rd = x + ls
      BY <1>4, <3>1, <3>2, Zenon
    <3> QED  BY <3>3
  <2> QED  BY <2>1, <2>2
<1>7. PICK c \in Nat : c = rd - ls /\ rd = c + ls
  BY <1>6
<1>8. Follows(sbuf, t, c) /\ Follows(up, t, c + Len(sbuf))
  BY <1>3, <1>4, <1>7, Zenon
<1> DEFINE got == sbuf \o Take(up, n)
<1>9. /\ got \in Seq(Unit) /\ Len(got) = Len(sbuf) + n /\ Follows(got, t, c)
      /\ Drop(up, n) \in Seq(Unit) /\ Len(Drop(up, n)) = Len(up) - n
      /\ Follows(Drop(up, n), t, c + Len(sbuf) + n)
  BY <1>8, Pulled
<1>10. PICK r2 \in Nat : r2 = rd + n
  BY <1>5
<1>11. PICK lg \in Nat : lg = ls + n /\ lg = Len(got)
  BY <1>4, <1>5, <1>9
<1>12. /\ up' \in Seq(Unit) /\ Len(up') = lu - n /\ Follows(up', t, r2)
  <2>1. r2 = c + Len(sbuf) + n
    BY <1>4, <1>7, <1>10, Zenon
  <2> QED  BY <1>1, <1>4, <1>9, <2>1, Zenon
<1>13. lg <= HeaderUnits /\ r2 = c + lg /\ r2 <= Length(cl)
       /\ r2 + (lu - n) <= Length(cl) /\ r2 + (lu - n) = rd + lu /\ lu - n <= lu
  BY <1>0, <1>5, <1>7, <1>10, <1>11
<1>14. r2 \in 0 .. Length(cl) /\ r2 + Len(up') = rd + Len(up) /\ Len(up') <= Len(up)
       /\ r2 + Len(up') <= Length(cl)
  BY <1>0, <1>4, <1>12, <1>13
<1>15. IF Len(got) < HeaderUnits
       THEN sbuf' = got /\ UNCHANGED <<spc, req>>
       ELSE /\ sbuf' = <<>>
            /\ req' = Parsed(got)
            /\ spc' = CASE req'.op = "get" -> "reply"
                         [] req'.op = "put" -> "page"
                         [] OTHER -> "header"
  BY <1>1, Zenon
<1> HIDE DEF got
<1>16. CASE lg < HeaderUnits
  <2>1. sbuf' = got /\ spc' = "header" /\ Len(sbuf') = lg
    BY <1>2, <1>11, <1>15, <1>16
  <2>2. Follows(sbuf', t, r2 - Len(sbuf'))
    <3>1. r2 - lg = c
      BY <1>13
    <3> QED  BY <1>9, <2>1, <3>1, Zenon
  <2>3. ASSUME cl.op = "put" PROVE PutServed(cl, v, r2, said)'
    <3>1. /\ (rd = Len(sbuf) /\ said = 0 /\ owed = {Carried(cl, v)}) \/ rd = Length(cl)
      BY Zenon, <1>2, <1>3, <2>3 DEF PutServed
    <3>2. rd # Length(cl)
      BY <1>0, <1>5
    <3>3. rd = ls /\ said = 0 /\ owed = {Carried(cl, v)}
      BY <1>4, <3>1, <3>2, Zenon
    <3>4. r2 = lg
      BY <1>10, <1>11, <3>3
    <3> QED  BY Zenon, <1>2, <1>16, <2>1, <3>3, <3>4 DEF PutServed, Carried, Data
  <2>4. ASSUME cl.op # "put" PROVE GetServed(cl, r2, said)'
    <3>1. PICK r \in 0 .. Len(cl.ids) :
            rd = r * HeaderUnits + Len(sbuf) /\ said = r * PageUnits
      BY Zenon, <1>2, <1>3, <2>4 DEF GetServed
    <3>2. r2 = r * HeaderUnits + lg
      <4>1. PICK x \in Nat : x = r * HeaderUnits
        BY <1>0, CallTypes, SMTT(30)
      <4>2. rd = x + ls
        BY <1>4, <3>1, <4>1, Zenon
      <4>3. r2 = x + lg
        BY <4>2, <1>10, <1>11
      <4> QED  BY <4>1, <4>3, Zenon
    <3> QED  BY <1>16, <2>1, <3>1, <3>2 DEF GetServed
  <2>5. Serving(cl, v, r2, said)'
    BY Zenon, <1>2, <1>3, <1>12, <1>14, <2>1, <2>2, <2>3, <2>4 DEF Serving, t
  <2>6. sbuf' \in Seq(Unit)
    BY <1>9, <2>1
  <2> QED  BY <1>12, <1>14, <2>1, <2>5, <2>6
<1>17. CASE ~ (lg < HeaderUnits)
  <2>1. sbuf' = <<>> /\ req' = Parsed(got)
        /\ spc' = CASE req'.op = "get" -> "reply"
                    [] req'.op = "put" -> "page"
                    [] OTHER -> "header"
    BY <1>11, <1>15, <1>17, Zenon
  <2>2. Len(got) = HeaderUnits /\ r2 = c + HeaderUnits
    BY <1>0, <1>11, <1>13, <1>17
  <2>3. sbuf' \in Seq(Unit) /\ Len(sbuf') = 0 /\ Follows(sbuf', t, r2 - Len(sbuf'))
    BY <2>1, Nothing
  <2>4. CASE cl.op = "put"
    <3>1. /\ (rd = Len(sbuf) /\ said = 0 /\ owed = {Carried(cl, v)}) \/ rd = Length(cl)
      BY Zenon, <1>2, <1>3, <2>4 DEF PutServed
    <3>2. rd # Length(cl)
      BY <1>0, <1>5
    <3>3. rd = ls /\ said = 0 /\ owed = {Carried(cl, v)}
      BY <1>4, <3>1, <3>2, Zenon
    <3>4. c = 0 /\ r2 = HeaderUnits
      BY <1>0, <1>7, <2>2, <3>3
    <3>5. cl.ids[1] \in Page /\ Zero \in Value
      BY Zenon, <2>4, CallTypes, RpcAssumption
    <3>6. /\ Header("put", cl.ids[1]) \in Seq(Unit)
          /\ Len(Header("put", cl.ids[1])) = HeaderUnits
      BY <3>5, Spelled
    <3>7. Follows(Header("put", cl.ids[1]), t, c)
      BY Zenon, <2>4, <3>4, AskedPut DEF t
    <3>8. got = Header("put", cl.ids[1])
      BY Zenon, <1>9, <2>2, <3>6, <3>7, Same
    <3>9. req' = [op |-> "put", page |-> cl.ids[1]]
      BY <2>1, <3>5, <3>8, ParsedHeader
    <3>10. spc' = "page"
      BY <2>1, <3>9
    <3>11. PutServed(cl, v, r2, said)'
      <4>1. 0 < PageUnits /\ HeaderUnits = HeaderUnits + 0
        BY <1>0
      <4>2. Len(sbuf') < PageUnits /\ r2 = HeaderUnits + Len(sbuf')
        BY <2>3, <3>4, <4>1, Zenon
      <4>3. owed' = {Carried(cl, v)}
        BY <1>2, <3>3, Zenon
      <4> QED  BY <3>3, <3>9, <3>10, <4>2, <4>3, Zenon DEF PutServed, Carried, Data
    <3>12. Serving(cl, v, r2, said)'
      BY Zenon, <1>2, <1>3, <1>12, <1>14, <2>3, <2>4, <3>10, <3>11 DEF Serving, t
    <3> QED  BY <1>12, <1>14, <2>3, <3>10, <3>12
  <2>5. CASE cl.op # "put"
    <3>1. PICK r \in 0 .. Len(cl.ids) :
            rd = r * HeaderUnits + Len(sbuf) /\ said = r * PageUnits
      BY Zenon, <1>2, <1>3, <2>5 DEF GetServed
    <3>2. PICK L \in Nat : L = Len(cl.ids)
      BY Zenon, CallTypes
    <3>3. r \in Nat /\ r <= L
      BY <3>1, <3>2
    <3>4. PICK x \in Nat : x = r * HeaderUnits
      BY <1>0, <3>3
    <3>5. rd = x + ls
      BY <1>4, <3>1, <3>4, Zenon
    <3>6. c = x /\ x + HeaderUnits <= Length(cl)
      BY <1>0, <1>7, <1>13, <2>2, <3>5
    <3>7. Length(cl) = L * HeaderUnits
      BY <2>5, <3>2, CallSizes
    <3>8. r < L
      <4>1. ASSUME r = L PROVE FALSE
        <5>1. x = Length(cl)
          BY <3>4, <3>7, <4>1, Zenon
        <5> QED  BY <1>0, <3>6, <5>1
      <4> QED  BY <3>3, <4>1
    <3>9. cl.ids[r + 1] \in Page /\ Zero \in Value
      BY <3>2, <3>3, <3>8, NextPage, RpcAssumption, Zenon
    <3>10. /\ Header("get", cl.ids[r + 1]) \in Seq(Unit)
           /\ Len(Header("get", cl.ids[r + 1])) = HeaderUnits
      BY Zenon, <3>9, Spelled
    <3>11. Follows(Header("get", cl.ids[r + 1]), t, c)
      <4>1. r < Len(cl.ids)
        BY <3>2, <3>8, Zenon
      <4>2. Follows(Header("get", cl.ids[r + 1]), t, r * HeaderUnits)
        BY Zenon, <2>5, <3>3, <4>1, AskedGet DEF t
      <4> QED  BY <3>4, <3>6, <4>2, Zenon
    <3>12. got = Header("get", cl.ids[r + 1])
      BY Zenon, <1>9, <2>2, <3>10, <3>11, Same
    <3>13. req' = [op |-> "get", page |-> cl.ids[r + 1]]
      BY Zenon, <2>1, <3>9, <3>12, ParsedHeader
    <3>14. spc' = "reply"
      BY <2>1, <3>13
    <3>15. r2 = (r + 1) * HeaderUnits
      BY <1>0, <2>2, <3>3, <3>4, <3>6
    <3>16. said = r * PageUnits + 0
      BY <1>0, <3>1, <3>3
    <3>17. GetServed(cl, r2, said)'
      <4>1. sent' = 0 /\ sent' < PageUnits /\ r < Len(cl.ids)
        BY <1>0, <1>2, <1>3, <3>2, <3>8
      <4>2. said = r * PageUnits + sent'
        BY <3>16, <4>1, Zenon
      <4> QED  BY <2>1, <3>1, <3>13, <3>14, <3>15, <4>1, <4>2, Zenon DEF GetServed
    <3>18. Serving(cl, v, r2, said)'
      BY Zenon, <1>2, <1>3, <1>12, <1>14, <2>3, <2>5, <3>14, <3>17 DEF Serving, t
    <3> QED  BY <1>12, <1>14, <2>3, <3>14, <3>18
  <2> QED  BY <2>4, <2>5
<1> QED  BY <1>16, <1>17

\* What a recv of a page by the server does: the page is still incomplete, or it
\* is stored and the obligation of the PUT discharged, and the tape moves on by
\* what was taken.
PageTaken(cl, v, rd, said) ==
    /\ up' \in Seq(Unit) /\ Len(up') <= Len(up) /\ sbuf' \in Seq(Unit)
    /\ spc' \in {"page", "reply", "exit"} /\ (spc' = "exit" => sbuf' = <<>>)
    /\ cl.op = "put" /\ owed = {Carried(cl, v)}
    /\ \/ storage' = storage /\ owed' = owed
       \/ /\ storage' = [storage EXCEPT ![cl.ids[1]] = Data(cl.ids[1], v)]
          /\ owed' = {}
    /\ spc' # "exit" =>
         \E r2 \in 0 .. Length(cl) :
             Serving(cl, v, r2, said)' /\ r2 + Len(up)' = rd + Len(up)

\* The server receives a part of the page of a PUT: it stays at its place, and
\* the complete page is the one the client owes, stored or, beyond g_storage,
\* the end of the thread.
LEMMA PageServed ==
    ASSUME up \in Seq(Unit), sbuf \in Seq(Unit),
           NEW cl \in Calls, NEW v \in Value, NEW rd \in Nat, NEW said,
           Serving(cl, v, rd, said), ServePage
    PROVE  PageTaken(cl, v, rd, said)
<1> USE DEF PageTaken
<1> DEFINE t == Asked(cl, v)
           got(n) == sbuf \o Take(up, n)
<1>0. HeaderUnits \in Nat \ {0} /\ PageUnits \in Nat \ {0} /\ Length(cl) \in Nat
  BY RpcAssumption, CallSizes
<1>1. PICK n \in 1 .. Len(up) :
        /\ n <= PageUnits - Len(sbuf)
        /\ up' = Drop(up, n)
        /\ IF Len(got(n)) < PageUnits
           THEN sbuf' = got(n) /\ UNCHANGED <<spc, storage, owed>>
           ELSE sbuf' = <<>> /\ StorePage(got(n))
  BY Zenon DEF ServePage, Some
<1>2. spc = "page" /\ sent' = sent /\ req' = req
  BY DEF ServePage
<1>3. /\ rd + Len(up) <= Length(cl) /\ sent = 0
      /\ Follows(up, t, rd) /\ Follows(sbuf, t, rd - Len(sbuf))
      /\ cl.op = "put" => PutServed(cl, v, rd, said)
      /\ cl.op # "put" => GetServed(cl, rd, said)
  BY <1>2 DEF Serving
<1>4. cl.op = "put"
  BY Zenon, <1>2, <1>3 DEF GetServed
<1>5. /\ rd = HeaderUnits + Len(sbuf) /\ said = 0 /\ owed = {Carried(cl, v)}
      /\ req = [op |-> "put", page |-> cl.ids[1]]
  BY Zenon, <1>2, <1>3, <1>4 DEF PutServed
<1>6. PICK lu \in Nat, ls \in Nat : lu = Len(up) /\ ls = Len(sbuf)
  OBVIOUS
<1>7. /\ n \in 1 .. lu /\ n <= PageUnits - ls /\ rd + lu <= Length(cl)
      /\ rd = HeaderUnits + ls
  BY <1>1, <1>3, <1>5, <1>6, Zenon
<1>8. rd - ls = HeaderUnits /\ Length(cl) = HeaderUnits + PageUnits
  BY <1>0, <1>4, <1>7, CallSizes
<1>9. Follows(sbuf, t, HeaderUnits) /\ Follows(up, t, HeaderUnits + Len(sbuf))
  BY <1>3, <1>5, <1>6, <1>8, Zenon
<1>10. /\ got(n) \in Seq(Unit) /\ Len(got(n)) = Len(sbuf) + n
       /\ Follows(got(n), t, HeaderUnits)
       /\ Drop(up, n) \in Seq(Unit) /\ Len(Drop(up, n)) = Len(up) - n
       /\ Follows(Drop(up, n), t, HeaderUnits + Len(sbuf) + n)
  BY <1>0, <1>9, Pulled, SMTT(30)
<1>11. PICK r2 \in Nat : r2 = rd + n
  BY <1>7
<1>12. PICK lg \in Nat : lg = ls + n /\ lg = Len(got(n))
  BY <1>6, <1>7, <1>10
<1>13. /\ up' \in Seq(Unit) /\ Len(up') = lu - n /\ Follows(up', t, r2)
  <2>1. r2 = HeaderUnits + Len(sbuf) + n
    BY <1>5, <1>11, Zenon
  <2> QED  BY <1>1, <1>6, <1>10, <2>1, Zenon
<1>14. lg <= PageUnits /\ r2 = HeaderUnits + lg /\ r2 <= Length(cl)
       /\ r2 + (lu - n) <= Length(cl) /\ r2 + (lu - n) = rd + lu /\ lu - n <= lu
  BY <1>0, <1>7, <1>11, <1>12
<1>15. r2 \in 0 .. Length(cl) /\ r2 + Len(up') = rd + Len(up) /\ Len(up') <= Len(up)
       /\ r2 + Len(up') <= Length(cl)
  BY <1>0, <1>6, <1>13, <1>14
<1> HIDE DEF got, t
<1>16. CASE lg < PageUnits
  <2>1. sbuf' = got(n) /\ spc' = "page" /\ Len(sbuf') = lg
        /\ storage' = storage /\ owed' = owed
    BY <1>1, <1>2, <1>12, <1>16
  <2>2. Follows(sbuf', t, r2 - Len(sbuf'))
    <3>1. r2 - lg = HeaderUnits
      BY <1>0, <1>14
    <3> QED  BY <1>10, <2>1, <3>1, Zenon
  <2>3. PutServed(cl, v, r2, said)'
    BY Zenon, <1>2, <1>5, <1>14, <1>16, <2>1 DEF PutServed, Carried, Data
  <2>4. Serving(cl, v, r2, said)'
    BY Zenon, <1>2, <1>3, <1>4, <1>13, <1>15, <2>1, <2>2, <2>3 DEF Serving, t
  <2>5. sbuf' \in Seq(Unit)
    BY <1>10, <2>1
  <2> QED  BY Zenon, <1>4, <1>5, <1>13, <1>15, <2>1, <2>4, <2>5
<1>17. CASE ~ (lg < PageUnits)
  <2>1. sbuf' = <<>> /\ StorePage(got(n))
    BY <1>1, <1>12, <1>17, Zenon
  <2>2. Len(got(n)) = PageUnits /\ r2 = Length(cl)
    BY <1>0, <1>8, <1>12, <1>14, <1>17
  <2>3. sbuf' \in Seq(Unit) /\ Len(sbuf') = 0 /\ Follows(sbuf', t, r2 - Len(sbuf'))
    BY <2>1, Nothing
  <2>4. cl.ids[1] \in Page
    BY Zenon, <1>4, CallTypes
  <2>5. /\ Data(cl.ids[1], v) \in Seq(Unit) /\ Len(Data(cl.ids[1], v)) = PageUnits
    BY Zenon, <2>4, Spelled
  <2>6. Follows(Data(cl.ids[1], v), t, HeaderUnits)
    BY Zenon, <1>4, AskedPut DEF t
  <2>7. got(n) = Data(cl.ids[1], v)
    BY Zenon, <1>10, <2>2, <2>5, <2>6, Same
  <2>8. CASE req.page \in StoragePages
    <3>1. /\ storage' = [storage EXCEPT ![cl.ids[1]] = Data(cl.ids[1], v)]
          /\ owed' = {} /\ spc' = "reply"
      <4>1. req.page = cl.ids[1]
        BY Zenon, <1>5
      <4> QED  BY <2>1, <2>7, <2>8, <4>1, Zenon DEF StorePage
    <3>2. PutServed(cl, v, r2, said)'
      <4>1. sent' = 0 /\ 0 < HeaderUnits
        BY <1>0, <1>2, <1>3
      <4>2. r2 = Length(cl)'
        BY <2>2, Zenon DEF Length
      <4> QED  BY <1>2, <1>5, <2>1, <3>1, <4>1, <4>2, Zenon DEF PutServed
    <3>3. Serving(cl, v, r2, said)'
      BY Zenon, <1>4, <1>13, <1>15, <2>3, <3>1, <3>2 DEF Serving, t
    <3> QED  BY Zenon, <1>4, <1>5, <1>13, <1>15, <2>3, <3>1, <3>3
  <2>9. CASE req.page \notin StoragePages
    <3>1. spc' = "exit" /\ storage' = storage /\ owed' = owed
      BY <2>1, <2>9 DEF StorePage
    <3> QED  BY Zenon, <1>4, <1>5, <1>13, <1>15, <2>1, <2>3, <3>1
  <2> QED  BY Zenon, <2>8, <2>9
<1> QED  BY Zenon, <1>16, <1>17

\* A part of a reply follows the tape of replies where the sent part ended.
LEMMA Piece ==
    ASSUME NEW R \in Seq(Unit), NEW t, NEW b \in Nat, Follows(R, t, b),
           NEW f \in Nat, NEW n \in 1 .. Len(R) - f
    PROVE  /\ Take(Drop(R, f), n) \in Seq(Unit) /\ Len(Take(Drop(R, f), n)) = n
           /\ Follows(Take(Drop(R, f), n), t, b + f)
<1>1. PICK l \in Nat : l = Len(R)
  OBVIOUS
<1>2. f \in 0 .. l /\ n \in 0 .. l - f /\ b + f \in Nat
  BY <1>1
<1>3. f \in 0 .. Len(R)
  BY <1>1, <1>2, Zenon
<1>4. Drop(R, f) \in Seq(Unit) /\ Len(Drop(R, f)) = l - f
  BY Zenon, <1>1, <1>3, Dropped
<1>5. Follows(Drop(R, f), t, b + f)
  BY <1>3, FollowsDrop
<1>6. n \in 0 .. Len(Drop(R, f))
  BY <1>2, <1>4, Zenon
<1> QED  BY <1>2, <1>4, <1>5, <1>6, Taken, FollowsTake

\* The server sends a part of its reply: it is what is due next, and the ACK
\* of a PUT is sent when nothing is owed any more.
LEMMA ReplyServed ==
    ASSUME storage \in [Page -> Contents], sbuf \in Seq(Unit), sent \in Nat,
           NEW cl \in Calls, NEW v \in Value, NEW rd \in Nat, NEW said \in Nat,
           Serving(cl, v, rd, said), ServeReply
    PROVE  /\ spc' \in {"header", "reply"} /\ sent' \in Nat
           /\ cl.op = "put" => owed = {}
           /\ \E n \in Nat, u \in Seq(Unit) :
                /\ n <= DownRoom - Len(down) /\ Len(u) = n /\ down' = down \o u
                /\ Follows(u, Answer(cl), said)
                /\ said + n \in 0 .. Due(cl)
                /\ Serving(cl, v, rd, said + n)'
<1>0. HeaderUnits \in Nat \ {0} /\ PageUnits \in Nat \ {0} /\ Due(cl) \in Nat
      /\ Zero \in Value
  BY Zenon, RpcAssumption, CallSizes
<1>1. PICK n \in 1 .. Len(Reply) - sent :
        /\ n <= DownRoom - Len(down)
        /\ down' = down \o Take(Drop(Reply, sent), n)
        /\ IF sent + n = Len(Reply)
           THEN spc' = "header" /\ sent' = 0
           ELSE sent' = sent + n /\ UNCHANGED spc
  BY Zenon DEF ServeReply, Some
<1>2. spc = "reply" /\ up' = up /\ req' = req /\ sbuf' = sbuf /\ owed' = owed
  BY Zenon DEF ServeReply
<1>3. /\ rd + Len(up) <= Length(cl)
      /\ Follows(up, Asked(cl, v), rd) /\ Follows(sbuf, Asked(cl, v), rd - Len(sbuf))
      /\ cl.op = "put" => PutServed(cl, v, rd, said)
      /\ cl.op # "put" => GetServed(cl, rd, said)
  BY Zenon, <1>2 DEF Serving
<1>4. ASSUME NEW R \in Seq(Unit), R = Reply, NEW l \in Nat, Len(R) = l,
             NEW b \in Nat, Follows(R, Answer(cl), b), said = b + sent,
             b + l <= Due(cl), sent < l,
             cl.op = "put" => owed = {},
             \A m \in Nat :
                (IF sent + m = l THEN spc' = "header" /\ sent' = 0
                                 ELSE sent' = sent + m /\ spc' = "reply" /\ sent' < l)
                => /\ cl.op = "put" => PutServed(cl, v, rd, said + m)'
                   /\ cl.op # "put" => GetServed(cl, rd, said + m)'
      PROVE  /\ spc' \in {"header", "reply"} /\ sent' \in Nat
             /\ cl.op = "put" => owed = {}
             /\ \E k \in Nat, u \in Seq(Unit) :
                    /\ k <= DownRoom - Len(down) /\ Len(u) = k /\ down' = down \o u
                    /\ Follows(u, Answer(cl), said)
                    /\ said + k \in 0 .. Due(cl)
                    /\ Serving(cl, v, rd, said + k)'
  <2>1. n \in 1 .. Len(R) - sent /\ n \in 1 .. l - sent
    BY <1>1, <1>4, Zenon
  <2>2. n \in Nat
    BY <2>1
  <2>3. PICK u : u = Take(Drop(R, sent), n)
    BY Zenon
  <2>4. u \in Seq(Unit) /\ Len(u) = n /\ Follows(u, Answer(cl), said)
    BY <1>4, <2>1, <2>3, Piece, SMTT(30)
  <2>5. n <= DownRoom - Len(down) /\ down' = down \o u
    BY <1>1, <1>4, <2>3, Zenon
  <2>6. IF sent + n = l THEN spc' = "header" /\ sent' = 0
                        ELSE sent' = sent + n /\ spc' = "reply"
    BY <1>1, <1>2, <1>4, Zenon
  <2>7. sent + n # l => sent + n < l
    BY <2>1, <2>2
  <2>8. IF sent + n = l THEN spc' = "header" /\ sent' = 0
                        ELSE sent' = sent + n /\ spc' = "reply" /\ sent' < l
    BY <2>6, <2>7
  <2>9. spc' \in {"header", "reply"} /\ sent' \in Nat /\ (spc' # "reply" => sent' = 0)
    BY <2>2, <2>8
  <2>10. /\ cl.op = "put" => PutServed(cl, v, rd, said + n)'
         /\ cl.op # "put" => GetServed(cl, rd, said + n)'
    BY <1>4, <2>2, <2>8, Zenon
  <2>11. Serving(cl, v, rd, said + n)'
    BY <1>2, <1>3, <2>9, <2>10, Zenon DEF Serving
  <2>12. said + n \in 0 .. Due(cl)
    BY <1>0, <1>4, <2>1, SMTT(30)
  <2> QED  BY <1>4, <2>2, <2>4, <2>5, <2>9, <2>11, <2>12, Zenon
<1>5. CASE cl.op = "put"
  <2>1. /\ rd = Length(cl) /\ said = sent /\ sbuf = <<>> /\ sent < HeaderUnits
        /\ owed = {} /\ req = [op |-> "put", page |-> cl.ids[1]]
    BY Zenon, <1>2, <1>3, <1>5 DEF PutServed
  <2>2. cl.ids[1] \in Page
    BY Zenon, <1>5, CallTypes
  <2>3. PICK R : R = Header("ack", cl.ids[1])
    BY Zenon
  <2>4. R = Reply
    BY <2>1, <2>3 DEF Reply
  <2>5. R \in Seq(Unit) /\ Len(R) = HeaderUnits
    BY Zenon, <1>0, <2>2, <2>3, Spelled
  <2>6. Follows(R, Answer(cl), 0)
    BY Zenon, <1>5, <2>3, AnswerPut
  <2>7. said = 0 + sent /\ 0 + HeaderUnits <= Due(cl) /\ 0 \in Nat /\ HeaderUnits \in Nat
    <3>1. Due(cl) = HeaderUnits
      BY <1>5, CallSizes, Zenon
    <3>2. 0 + sent = sent /\ 0 + HeaderUnits <= HeaderUnits
      BY <1>0
    <3> QED  BY <1>0, <2>1, <3>1, <3>2, Zenon
  <2>8. ASSUME NEW m \in Nat,
               IF sent + m = HeaderUnits
               THEN spc' = "header" /\ sent' = 0
               ELSE sent' = sent + m /\ spc' = "reply" /\ sent' < HeaderUnits
        PROVE  PutServed(cl, v, rd, said + m)'
    BY Zenon, <1>0, <1>2, <2>1, <2>8 DEF PutServed
  <2> QED  BY <1>4, <1>5, <2>1, <2>4, <2>5, <2>6, <2>7, <2>8, Zenon
<1>6. CASE cl.op # "put"
  <2>1. PICK r \in 0 .. Len(cl.ids) :
            /\ rd = (r + 1) * HeaderUnits /\ said = r * PageUnits + sent
            /\ sbuf = <<>> /\ sent < PageUnits
            /\ r < Len(cl.ids) /\ req = [op |-> "get", page |-> cl.ids[r + 1]]
    BY Zenon, <1>2, <1>3, <1>6 DEF GetServed
  <2>2. PICK L \in Nat : L = Len(cl.ids)
    BY Zenon, CallTypes
  <2>3. r \in Nat /\ r < L
    BY <2>1, <2>2, Counted, Zenon
  <2>4. cl.ids[r + 1] \in Page
    BY <2>2, <2>3, NextPage, Zenon
  <2>5. PICK b \in Nat : b = r * PageUnits
    BY <1>0, <2>3
  <2>6. PICK R : R = storage[cl.ids[r + 1]]
    BY Zenon
  <2>7. R = Reply
    BY <2>1, <2>6 DEF Reply
  <2>8. R \in Seq(Unit) /\ Len(R) = PageUnits
    BY Zenon, <2>4, <2>6, Held
  <2>9. Follows(R, Answer(cl), b)
    <3>1. r < Len(cl.ids)
      BY Zenon, <2>1
    <3>2. Follows(storage[cl.ids[r + 1]], Answer(cl), r * PageUnits)
      BY Zenon, <1>6, <2>3, <3>1, AnswerGet
    <3> QED  BY <2>5, <2>6, <3>2, Zenon
  <2>10. said = b + sent /\ PageUnits \in Nat
    BY Zenon, <1>0, <2>1, <2>5
  <2>11. b + PageUnits <= Due(cl)
    <3>1. Due(cl) = L * PageUnits
      BY <1>6, <2>2, CallSizes
    <3>2. r * PageUnits + PageUnits <= L * PageUnits
      BY <1>0, <2>3, Less
    <3> QED  BY <2>5, <3>1, <3>2, Zenon
  <2>12. ASSUME NEW m \in Nat,
                IF sent + m = PageUnits
                THEN spc' = "header" /\ sent' = 0
                ELSE sent' = sent + m /\ spc' = "reply" /\ sent' < PageUnits
         PROVE  GetServed(cl, rd, said + m)'
    <3>1. CASE sent + m = PageUnits
      <4>1. spc' = "header"
        BY <2>12, <3>1
      <4>2. r + 1 \in 0 .. Len(cl.ids)
        BY <2>2, <2>3
      <4>3. said + m = (r + 1) * PageUnits
        <5>1. said + m = b + PageUnits
          BY <1>0, <2>10, <3>1
        <5>2. (r + 1) * PageUnits = r * PageUnits + PageUnits
          BY <1>0, <2>3
        <5> QED  BY <2>5, <5>1, <5>2, Zenon
      <4>4. Len(sbuf') = 0 /\ Len(sbuf') < HeaderUnits
        <5>1. Len(<<>>) = 0 /\ 0 < HeaderUnits
          BY <1>0
        <5> QED  BY <1>2, <2>1, <5>1, Zenon
      <4>5. (r + 1) * HeaderUnits = (r + 1) * HeaderUnits + 0
        BY <1>0, <2>3
      <4>6. rd = (r + 1) * HeaderUnits + Len(sbuf')
        BY <2>1, <4>4, <4>5, Zenon
      <4> QED  BY <4>1, <4>2, <4>3, <4>4, <4>6, Zenon DEF GetServed
    <3>2. CASE sent + m # PageUnits
      <4>1. spc' = "reply" /\ sent' = sent + m /\ sent' < PageUnits
        BY <2>12, <3>2
      <4>2. said + m = r * PageUnits + sent'
        <5>1. said + m = b + sent'
          BY <2>10, <4>1
        <5> QED  BY <2>5, <5>1, Zenon
      <4> QED  BY <1>2, <2>1, <4>1, <4>2, Zenon DEF GetServed
    <3> QED  BY <3>1, <3>2
  <2> QED  BY <1>4, <1>6, <2>7, <2>8, <2>9, <2>10, <2>11, <2>12, <2>1, Zenon
<1> QED  BY Zenon, <1>5, <1>6

-----------------------------------------------------------------------------
\* The server's place depends on the stream towards it only through what is
\* in flight.
LEMMA ServingKept ==
    ASSUME up \in Seq(Unit), UNCHANGED <<spc, req, sbuf, sent, owed>>,
           NEW cl \in Calls, NEW v, NEW rd \in Nat, NEW said, Serving(cl, v, rd, said),
           up' \in Seq(Unit), Follows(up', Asked(cl, v), rd),
           rd + Len(up') <= Length(cl)
    PROVE  Serving(cl, v, rd, said)'
<1>1. cl.op = "put" => PutServed(cl, v, rd, said)'
  <2>1. ASSUME cl.op = "put" PROVE PutServed(cl, v, rd, said)
    BY <2>1, Zenon DEF Serving
  <2> QED  BY Zenon, <2>1 DEF PutServed, Carried, Data
<1>2. cl.op # "put" => GetServed(cl, rd, said)'
  <2>1. ASSUME cl.op # "put" PROVE GetServed(cl, rd, said)
    BY <2>1, Zenon DEF Serving
  <2> QED  BY <2>1, Zenon DEF GetServed
<1>3. spc' # "reply" => sent' = 0
  BY Zenon DEF Serving
<1>4. Follows(sbuf', Asked(cl, v), rd - Len(sbuf'))
  BY Zenon DEF Serving
<1> QED  BY <1>1, <1>2, <1>3, <1>4, Zenon DEF Serving

\* It stays when nothing of the server changes.
LEMMA ServingSame ==
    ASSUME up \in Seq(Unit), UNCHANGED <<up, spc, req, sbuf, sent, owed>>,
           NEW cl \in Calls, NEW v, NEW rd \in Nat, NEW said, Serving(cl, v, rd, said)
    PROVE  Serving(cl, v, rd, said)'
<1>1. up' \in Seq(Unit) /\ Follows(up', Asked(cl, v), rd) /\ rd + Len(up') <= Length(cl)
  BY Zenon DEF Serving
<1> QED  BY <1>1, ServingKept

\* It stays when the connection loses the end of what is in flight.
LEMMA ServingCut ==
    ASSUME up \in Seq(Unit), UNCHANGED <<spc, req, sbuf, sent, owed>>,
           NEW cl \in Calls, NEW v, NEW rd \in Nat, NEW said, Serving(cl, v, rd, said),
           NEW k \in 0 .. Len(up), up' = Take(up, k)
    PROVE  Serving(cl, v, rd, said)'
<1>1. rd + Len(up) <= Length(cl) /\ Follows(up, Asked(cl, v), rd)
  BY Zenon DEF Serving
<1>2. up' \in Seq(Unit) /\ Len(up') = k /\ Follows(up', Asked(cl, v), rd)
  BY <1>1, Taken, FollowsTake
<1>3. rd + Len(up') <= Length(cl)
  <2>1. PICK l \in Nat : l = Len(up)
    OBVIOUS
  <2>2. k \in 0 .. l /\ rd + l <= Length(cl) /\ Length(cl) \in Nat
    BY <1>1, <2>1, CallSizes, Zenon
  <2>3. rd + k <= Length(cl)
    BY <2>2
  <2> QED  BY <1>2, <2>3, Zenon
<1> QED  BY <1>2, <1>3, ServingKept

\* It stays when the client sends what comes next in its request.
LEMMA ServingMore ==
    ASSUME up \in Seq(Unit), UNCHANGED <<spc, req, sbuf, sent, owed>>,
           NEW cl \in Calls, NEW v, NEW rd \in Nat, NEW said, Serving(cl, v, rd, said),
           NEW u \in Seq(Unit), up' = up \o u,
           Follows(u, Asked(cl, v), rd + Len(up)), rd + Len(up) + Len(u) <= Length(cl)
    PROVE  Serving(cl, v, rd, said)'
<1>1. Follows(up, Asked(cl, v), rd)
  BY Zenon DEF Serving
<1>2. up' \in Seq(Unit) /\ Len(up') = Len(up) + Len(u)
  BY Zenon, Joined
<1>3. Follows(up', Asked(cl, v), rd)
  BY <1>1, FollowsJoin
<1>4. rd + Len(up') <= Length(cl)
  <2>1. rd + (Len(up) + Len(u)) = rd + Len(up) + Len(u)
    OBVIOUS
  <2> QED  BY <1>2, <2>1, Zenon
<1> QED  BY <1>2, <1>3, <1>4, ServingKept

-----------------------------------------------------------------------------
\* The reply of a call is fixed while storage is.
LEMMA AnswerSame ==
    ASSUME NEW cl \in Calls, cl.op = "put" \/ storage' = storage
    PROVE  Answer(cl)' = Answer(cl)
<1>1. CASE cl.op = "put"
  BY <1>1 DEF Answer
<1>2. CASE storage' = storage
  BY <1>2, Zenon DEF Answer
<1> QED  BY <1>1, <1>2

\* What has been received is a number of units.
LEMMA ReceivedNat ==
    ASSUME NEW cl \in Calls, buf \in Seq(Unit), bufs \in Seq(Seq(Unit))
    PROVE  Received(cl) \in Nat /\ Len(bufs) * Size(cl) \in Nat
<1>1. Len(buf) \in Nat /\ Len(bufs) \in Nat /\ Size(cl) \in Nat
  BY CallSizes
<1>2. Len(bufs) * Size(cl) \in Nat
  BY <1>1
<1> QED  BY <1>1, <1>2 DEF Received

\* The client's place in its reply depends on the stream towards it only
\* through what is in flight.
LEMMA IncomingKept ==
    ASSUME NEW cl \in Calls, cl.op = "put" \/ storage' = storage,
           buf' = buf, bufs' = bufs, Incoming(cl),
           Received(cl) + Len(down') <= Due(cl),
           Follows(down', Answer(cl), Received(cl))
    PROVE  Incoming(cl)' /\ Received(cl)' = Received(cl)
<1>1. Answer(cl)' = Answer(cl)
  BY AnswerSame
<1>2. Received(cl)' = Received(cl) /\ Due(cl)' = Due(cl) /\ Size(cl)' = Size(cl)
  BY Zenon DEF Received, Due, Size
<1>3. \A i \in 1 .. Len(bufs') :
        /\ cl.op = "put" => bufs'[i] = Header("ack", cl.ids[1])
        /\ cl.op # "put" => bufs'[i] = storage'[cl.ids[i]]
  BY Zenon DEF Incoming
<1>4. Follows(buf', Answer(cl), Len(bufs') * Size(cl))
  BY Zenon DEF Incoming
<1>5. Incoming(cl)'
  BY <1>1, <1>2, <1>3, <1>4, Zenon DEF Incoming
<1> QED  BY <1>2, <1>5

\* It stays when the connection loses the end of what is in flight.
LEMMA IncomingCut ==
    ASSUME NEW cl \in Calls, cl.op = "put" \/ storage' = storage, down \in Seq(Unit),
           buf \in Seq(Unit), bufs \in Seq(Seq(Unit)),
           buf' = buf, bufs' = bufs, Incoming(cl),
           NEW k \in 0 .. Len(down), down' = Take(down, k)
    PROVE  Incoming(cl)' /\ Received(cl)' = Received(cl)
<1>1. Received(cl) \in Nat /\ Due(cl) \in Nat
  BY Zenon, ReceivedNat, CallSizes
<1>2. Received(cl) + Len(down) <= Due(cl) /\ Follows(down, Answer(cl), Received(cl))
  BY Zenon DEF Incoming
<1>3. Len(down') = k /\ Follows(down', Answer(cl), Received(cl))
  BY <1>1, <1>2, Taken, FollowsTake
<1>4. Received(cl) + Len(down') <= Due(cl)
  <2>1. PICK l \in Nat, x \in Nat : l = Len(down) /\ x = Received(cl)
    BY <1>1
  <2>2. k \in 0 .. l /\ x + l <= Due(cl)
    BY <1>2, <2>1, Zenon
  <2>3. x + k <= Due(cl)
    BY <1>1, <2>2
  <2> QED  BY <1>3, <2>1, <2>3, Zenon
<1> QED  BY <1>3, <1>4, IncomingKept, Zenon

\* It stays when nothing arrives.
LEMMA IncomingSame ==
    ASSUME NEW cl \in Calls, cl.op = "put" \/ storage' = storage,
           buf' = buf, bufs' = bufs, down' = down, Incoming(cl)
    PROVE  Incoming(cl)' /\ Received(cl)' = Received(cl)
<1>1. Received(cl) + Len(down') <= Due(cl) /\ Follows(down', Answer(cl), Received(cl))
  BY Zenon DEF Incoming
<1> QED  BY <1>1, IncomingKept, Zenon

\* It stays when the server sends what is due next.
LEMMA IncomingMore ==
    ASSUME NEW cl \in Calls, storage' = storage, down \in Seq(Unit),
           buf \in Seq(Unit), bufs \in Seq(Seq(Unit)),
           buf' = buf, bufs' = bufs, Incoming(cl),
           NEW u \in Seq(Unit), down' = down \o u,
           Follows(u, Answer(cl), Received(cl) + Len(down)),
           Received(cl) + Len(down) + Len(u) <= Due(cl)
    PROVE  /\ Incoming(cl)' /\ Received(cl)' = Received(cl)
           /\ down' \in Seq(Unit) /\ Len(down') = Len(down) + Len(u)
<1>1. Received(cl) \in Nat
  BY ReceivedNat
<1>2. Follows(down, Answer(cl), Received(cl))
  BY Zenon DEF Incoming
<1>3. down' \in Seq(Unit) /\ Len(down') = Len(down) + Len(u)
  BY Zenon, Joined
<1>4. Follows(down', Answer(cl), Received(cl))
  BY <1>1, <1>2, FollowsJoin
<1>5. Received(cl) + Len(down') <= Due(cl)
  <2>1. Received(cl) + (Len(down) + Len(u)) = Received(cl) + Len(down) + Len(u)
    BY <1>1
  <2> QED  BY <1>3, <2>1, Zenon
<1> QED  BY <1>3, <1>4, <1>5, IncomingKept, Zenon

-----------------------------------------------------------------------------
(* The client's steps keep the invariant *)

\* Any send or writev that takes the next units of the request keeps the
\* invariant, on a connection that is open or whose other end has closed.
LEMMA TransmitKeeps ==
    ASSUME Wire, dead => Dead, NEW cl \in Calls, cl = call, Calling(cl), ~dead => Live(cl),
           cpc \in {"send", "sendv"},
           NEW u \in Seq(Unit), NEW n \in Nat, Len(u) = n, n <= Room,
           NEW rest \in Seq(Seq(Unit)), cpc = "sendv" /\ rest # <<>> => Len(rest) \in 1 .. 2,
           \A v \in Value, out \in Nat :
                Lined(iov, cl, v, out) => /\ Follows(u, Asked(cl, v), out)
                                          /\ out + n \in 0 .. Length(cl)
                                          /\ Lined(rest, cl, v, out + n),
           Transmit(u), Sent(rest)
    PROVE  IInv'
<1>1. /\ link \in {"up", "fin", "reset"} /\ (link = "fin" => spc = "exit")
      /\ up \in Seq(Unit) /\ Len(up) <= UpRoom
  BY Zenon DEF Wire
<1>2. /\ link \in {"up", "fin"} /\ link' = link /\ down' = down
      /\ up' = IF link = "up" THEN up \o u ELSE up
  BY Zenon DEF Transmit
<1>3. /\ iov' = rest /\ cpc' = IF rest = <<>> THEN "recv" ELSE cpc
      /\ call' = call /\ buf' = buf /\ bufs' = bufs /\ dead' = dead
      /\ spc' = spc /\ req' = req /\ sbuf' = sbuf /\ sent' = sent /\ storage' = storage
      /\ owed' = owed
  BY Zenon DEF Sent, server
<1>4. up' \in Seq(Unit) /\ Len(up') <= UpRoom
  <2>1. CASE link = "up"
    <3>1. up' \in Seq(Unit) /\ Len(up') = Len(up) + n
      BY Zenon, <1>1, <1>2, <2>1, Joined
    <3>2. n <= UpRoom - Len(up)
      BY <2>1 DEF Room
    <3>3. PICK l \in Nat : l = Len(up)
      BY <1>1
    <3>4. l + n <= UpRoom
      BY <3>2, <3>3, RpcAssumption, SMTT(30)
    <3> QED  BY <3>1, <3>3, <3>4, Zenon
  <2>2. CASE link # "up"
    BY Zenon, <1>1, <1>2, <2>2
  <2> QED  BY <2>1, <2>2
<1>5. Wire'
  <2>1. cpc' \in {"idle", "send", "sendv", "recv", "return", "killed"}
    BY <1>3
  <2> QED  BY <1>2, <1>3, <1>4, <2>1, Zenon DEF Wire
<1>6. Calling(cl)'
  <2>1. /\ cpc = "send" => cl.op = "get"
        /\ cpc = "sendv" => cl.op = "put"
        /\ cl # NoCall /\ bufs = <<>> /\ buf = <<>>
        /\ buf \in Seq(Unit) /\ Len(buf) < Size(cl)
        /\ bufs \in Seq(Seq(Unit)) /\ \A i \in 1 .. Len(bufs) : Len(bufs[i]) = Size(cl)
    BY Zenon DEF Calling
  <2>2. Len(bufs) < Len(cl.ids)
    <3>1. Len(cl.ids) \in Nat /\ cl.ids # <<>> /\ cl.ids \in Seq(Page)
      <4>1. cl.op = "get" \/ cl.op = "put"
        BY Zenon, <2>1
      <4>2. CASE cl.op = "get"
        BY Zenon, <4>2, CallTypes
      <4>3. CASE cl.op = "put"
        BY Zenon, <4>3, CallTypes
      <4> QED  BY Zenon, <4>1, <4>2, <4>3
    <3>2. Len(bufs) = 0
      BY Zenon, <2>1
    <3>3. Len(cl.ids) # 0
      BY <3>1, Short, Zenon
    <3> QED  BY <3>1, <3>2, <3>3, Below, Zenon
  <2>3. CASE rest = <<>>
    <3>1. cpc' = "recv" /\ iov' = <<>>
      BY <1>3, <2>3
    <3>2. iov' \in Seq(Seq(Unit))
      BY Zenon, <1>3
    <3> QED  BY Zenon, <1>3, <2>1, <2>2, <3>1, <3>2 DEF Calling
  <2>4. CASE rest # <<>>
    <3>1. cpc' = cpc /\ iov' = rest
      BY <1>3, <2>4
    <3> QED  BY Zenon, <1>3, <2>1, <2>4, <3>1 DEF Calling
  <2> QED  BY <2>3, <2>4
<1>7. (dead => Dead)'
  <2>1. ASSUME Dead PROVE Dead'
    <3>1. link = "fin" /\ buf = <<>> /\ bufs = <<>> /\ down = <<>>
      BY <1>2, <2>1 DEF Dead
    <3>2. spc' = "exit" /\ link' # "up"
      BY Zenon, <1>1, <1>2, <1>3, <3>1
    <3> QED  BY <1>2, <1>3, <3>1, <3>2, Zenon DEF Dead
  <2> QED  BY <1>3, <2>1, Zenon
<1>8. ASSUME Live(cl) PROVE Live(cl)'
  <2>1. Incoming(cl) /\ Owing(cl)
    BY <1>8, Zenon DEF Live
  <2>2. PICK v \in Value, rd \in 0 .. Length(cl), said \in 0 .. Due(cl), out \in 0 .. Length(cl) :
            Talking(cl, v, rd, said, out)
    BY <1>8, Zenon DEF Live
  <2>3. Incoming(cl)' /\ Received(cl)' = Received(cl)
    BY <1>2, <1>3, <2>1, IncomingSame, Zenon
  <2>4. Owing(cl)'
    BY <1>2, <1>3, <2>1, Zenon DEF Owing
  <2>5. Length(cl) \in Nat /\ out \in Nat /\ rd \in Nat
    BY CallSizes, Positions, Zenon
  <2>6. Lined(iov, cl, v, out)
    BY <2>2, Zenon DEF Talking
  <2>7. /\ Follows(u, Asked(cl, v), out) /\ out + n \in 0 .. Length(cl)
        /\ Lined(rest, cl, v, out + n)
    BY <2>5, <2>6, Zenon
  <2>8. PICK o2 \in 0 .. Length(cl) : o2 = out + n
    BY <2>7, Zenon
  <2>9. Lined(iov, cl, v, o2)'
    <3>1. Lined(iov', cl, v, o2)
      BY <1>3, <2>7, <2>8, Zenon
    <3> QED  BY <3>1, Zenon DEF Lined, Length, Follows, Asked
  <2>10. ASSUME spc' # "exit"
         PROVE  Serving(cl, v, rd, said)' /\ Coupled(cl, rd, said, o2)'
    <3>1. link = "up" /\ up' = up \o u
      BY Zenon, <1>1, <1>2, <1>3, <2>10
    <3>2. Serving(cl, v, rd, said) /\ Coupled(cl, rd, said, out)
      BY <1>3, <2>2, <2>10, Zenon DEF Talking
    <3>3. rd + Len(up) = out /\ Received(cl) + Len(down) = said
      BY <3>1, <3>2, Zenon DEF Coupled
    <3>4. rd + Len(up) + Len(u) = o2 /\ o2 <= Length(cl)
      <4>1. o2 <= Length(cl)
        BY <2>5, <2>8, SMTT(30)
      <4> QED  BY <2>8, <3>3, <4>1, Zenon
    <3>5. Follows(u, Asked(cl, v), rd + Len(up)) /\ rd + Len(up) + Len(u) <= Length(cl)
      BY <2>7, <3>3, <3>4, Zenon
    <3>6. Serving(cl, v, rd, said)'
      BY <1>1, <1>3, <2>5, <3>1, <3>2, <3>5, ServingMore, Zenon
    <3>7. Len(up') = Len(up) + Len(u)
      BY Zenon, <1>1, <3>1, Joined
    <3>8. rd + (Len(up) + Len(u)) = rd + Len(up) + Len(u)
      BY <1>1, <2>5, SMTT(30)
    <3>9. rd + Len(up') = o2
      BY <3>4, <3>7, <3>8, Zenon
    <3>10. Received(cl)' + Len(down') = said
      BY <1>2, <2>3, <3>3, Zenon
    <3>11. o2 \in Nat /\ said \in Nat
      BY <2>5, CallSizes, SMTT(30)
    <3>12. rd + Len(up') <= o2 /\ Received(cl)' + Len(down') <= said
      BY <3>9, <3>10, <3>11, SMTT(30)
    <3> QED  BY <3>6, <3>9, <3>10, <3>12, Zenon DEF Coupled
  <2>11. Talking(cl, v, rd, said, o2)'
    BY <2>9, <2>10, Zenon DEF Talking
  <2> QED  BY <2>2, <2>3, <2>4, <2>8, <2>11, Zenon DEF Live, Length, Due
<1>9. (~dead => Live(cl))'
  BY <1>3, <1>8, Zenon
<1>10. cl = call'
  BY <1>3, Zenon
<1> QED  BY <1>5, <1>6, <1>7, <1>9, <1>10, Zenon DEF IInv

\* A step of dsm_send_full keeps the invariant.
LEMMA SendKeeps ==
    ASSUME IInv, Send
    PROVE  IInv'
<1>1. Wire /\ (dead => Dead)
  BY Zenon DEF IInv
<1>2. PICK cl \in Calls : cl = call /\ Calling(cl) /\ (~dead => Live(cl))
  BY Zenon DEF IInv
<1>3. cpc = "send"
  BY DEF Send
<1>4. iov \in Seq(Seq(Unit)) /\ iov # <<>>
  BY <1>2, <1>3 DEF Calling
<1>5. Head(iov) = iov[1] /\ iov[1] \in Seq(Unit) /\ Tail(iov) \in Seq(Seq(Unit))
  BY <1>4, Queue
<1>6. PICK n \in 1 .. Len(iov[1]) :
        /\ n <= Room /\ Transmit(Take(iov[1], n))
        /\ Sent(IF n = Len(iov[1]) THEN Tail(iov) ELSE <<Drop(iov[1], n)>> \o Tail(iov))
  BY <1>5, Zenon DEF Send, Some
<1>7. PICK u, rest : /\ u = Take(iov[1], n)
                     /\ rest = IF n = Len(iov[1]) THEN Tail(iov)
                               ELSE <<Drop(iov[1], n)>> \o Tail(iov)
  BY Zenon
<1>8. n \in 0 .. Len(iov[1]) /\ n \in Nat
  BY <1>5
<1>9. u \in Seq(Unit) /\ Len(u) = n
  BY <1>5, <1>7, <1>8, TakenUnits, Zenon
<1>10. rest \in Seq(Seq(Unit))
  <2>1. CASE n = Len(iov[1])
    BY <1>5, <1>7, <2>1, Zenon
  <2>2. CASE n # Len(iov[1])
    <3>1. Drop(iov[1], n) \in Seq(Unit)
      BY <1>5, <1>8, Dropped
    <3>2. rest = <<Drop(iov[1], n)>> \o Tail(iov)
      BY <1>7, <2>2, Zenon
    <3> QED  BY <1>4, <3>1, <3>2, NewHead
  <2> QED  BY <2>1, <2>2
<1>11. ASSUME NEW v \in Value, NEW out \in Nat, Lined(iov, cl, v, out)
       PROVE  /\ Follows(u, Asked(cl, v), out)
              /\ out + n \in 0 .. Length(cl)
              /\ Lined(rest, cl, v, out + n)
  <2>1. /\ out + Len(iov[1]) <= Length(cl)
        /\ Follows(iov[1], Asked(cl, v), out)
        /\ Lined(Tail(iov), cl, v, out + Len(iov[1]))
    BY <1>4, <1>11, LinedTail
  <2>2. Follows(u, Asked(cl, v), out)
    BY <1>5, <1>7, <1>8, <2>1, FollowsTake
  <2>3. out + n \in 0 .. Length(cl)
    <3>1. PICK l \in Nat : l = Len(iov[1])
      BY <1>5
    <3>2. n \in 0 .. l /\ out + l <= Length(cl) /\ Length(cl) \in Nat
      BY <1>8, <2>1, <3>1, CallSizes, Zenon
    <3> QED  BY <3>2
  <2>4. Lined(rest, cl, v, out + n)
    <3>1. CASE n = Len(iov[1])
      BY <1>7, <2>1, <3>1, Zenon
    <3>2. CASE n # Len(iov[1])
      <4>1. rest = <<Drop(iov[1], n)>> \o Tail(iov)
        BY <1>7, <3>2, Zenon
      <4> QED  BY Zenon, <1>4, <1>8, <1>11, <4>1, LinedPart
    <3> QED  BY <3>1, <3>2
  <2> QED  BY <2>2, <2>3, <2>4
<1>12. n <= Room /\ Transmit(u) /\ Sent(rest)
  BY <1>6, <1>7, Zenon
<1>13. cpc \in {"send", "sendv"} /\ (cpc = "sendv" /\ rest # <<>> => Len(rest) \in 1 .. 2)
  BY <1>3
<1> QED  BY <1>1, <1>2, <1>8, <1>9, <1>10, <1>11, <1>12, <1>13, TransmitKeeps, Zenon

\* A step of dsm_sendv keeps the invariant.
LEMMA SendvKeeps ==
    ASSUME IInv, Sendv
    PROVE  IInv'
<1>1. Wire /\ (dead => Dead)
  BY Zenon DEF IInv
<1>2. PICK cl \in Calls : cl = call /\ Calling(cl) /\ (~dead => Live(cl))
  BY Zenon DEF IInv
<1>3. cpc = "sendv"
  BY DEF Sendv
<1>4. iov \in Seq(Seq(Unit)) /\ Len(iov) \in 1 .. 2
  BY <1>2, <1>3 DEF Calling
<1>5. PICK n \in 1 .. Len(Gathered(iov)) :
        /\ n <= Room /\ Transmit(Take(Gathered(iov), n)) /\ Sent(AdvanceIov(iov, n))
  BY Zenon DEF Sendv, Some
<1>6. PICK g, u, rest : g = Gathered(iov) /\ u = Take(g, n) /\ rest = AdvanceIov(iov, n)
  BY Zenon
<1>7. /\ g \in Seq(Unit) /\ rest \in Seq(Seq(Unit)) /\ Len(rest) \in 0 .. 2
      /\ n \in 1 .. Len(g)
  BY <1>4, <1>6, Buffers
<1>8. n \in 0 .. Len(g) /\ n \in Nat
  BY <1>7
<1>9. u \in Seq(Unit) /\ Len(u) = n
  BY Zenon, <1>6, <1>7, <1>8, Taken
<1>10. ASSUME NEW v \in Value, NEW out \in Nat, Lined(iov, cl, v, out)
       PROVE  /\ Follows(u, Asked(cl, v), out)
              /\ out + n \in 0 .. Length(cl)
              /\ Lined(rest, cl, v, out + n)
  <2>1. /\ Follows(Gathered(iov), Asked(cl, v), out)
        /\ out + n \in 0 .. Length(cl)
        /\ Lined(AdvanceIov(iov, n), cl, v, out + n)
    BY Zenon, <1>4, <1>10, Advanced
  <2>2. Follows(g, Asked(cl, v), out)
    BY <1>6, <2>1, Zenon
  <2>3. Follows(u, Asked(cl, v), out)
    BY <1>6, <1>7, <1>8, <2>2, FollowsTake
  <2> QED  BY <1>6, <2>1, <2>3, Zenon
<1>11. n <= Room /\ Transmit(u) /\ Sent(rest)
  BY <1>5, <1>6, Zenon
<1>12. rest # <<>> => Len(rest) \in 1 .. 2
  BY <1>7
<1>13. cpc \in {"send", "sendv"}
  BY <1>3
<1> QED  BY <1>1, <1>2, <1>8, <1>9, <1>7, <1>10, <1>11, <1>12, <1>13, TransmitKeeps, Zenon

-----------------------------------------------------------------------------
\* What an old call left behind stays when nothing of the server changes.
LEMMA LeftSame ==
    ASSUME up \in Seq(Unit), UNCHANGED <<up, spc, req, sbuf, sent, owed>>, Left
    PROVE  Left'
<1>1. PICK cl \in Calls, v \in Value :
        \E rd \in 0 .. Length(cl), said \in 0 .. Due(cl) : Serving(cl, v, rd, said)
  BY Zenon DEF Left
<1>2. PICK rd \in 0 .. Length(cl), said \in 0 .. Due(cl) : Serving(cl, v, rd, said)
  BY <1>1, Zenon
<1>3. rd \in Nat
  BY Positions, Zenon
<1>4. Serving(cl, v, rd, said)'
  BY Zenon, <1>2, <1>3, ServingSame
<1> QED  BY <1>4, Zenon DEF Left, Length, Due

\* Between two calls the connection is empty and the server waits at the
\* beginning of a header: no byte of one call reaches the next.
LEMMA IdleLive ==
    ASSUME Live(NoCall), up \in Seq(Unit), down \in Seq(Unit), sbuf \in Seq(Unit),
           buf \in Seq(Unit), bufs \in Seq(Seq(Unit))
    PROVE  /\ down = <<>> /\ owed = {}
           /\ spc # "exit" => spc = "header" /\ up = <<>> /\ sbuf = <<>> /\ sent = 0
<1>1. NoCall \in Calls /\ NoCall.op = "none" /\ NoCall.ids = <<>>
  BY DEF Calls, NoCall
<1>2. Length(NoCall) = 0 /\ Due(NoCall) = 0
  BY Zenon, <1>1, CallSizes
<1>3. Received(NoCall) \in Nat
  BY Zenon, <1>1, ReceivedNat
<1>4. down = <<>>
  <2>1. Received(NoCall) + Len(down) <= 0
    BY <1>2, Zenon DEF Live, Incoming
  <2>2. Len(down) = 0
    BY <1>3, <2>1
  <2> QED  BY <2>2
<1>5. owed = {}
  BY Zenon, <1>1 DEF Live, Owing
<1>6. ASSUME spc # "exit" PROVE spc = "header" /\ up = <<>> /\ sbuf = <<>> /\ sent = 0
  <2>0. PICK v \in Value, rd \in 0 .. Length(NoCall), said \in 0 .. Due(NoCall),
              out \in 0 .. Length(NoCall) : Talking(NoCall, v, rd, said, out)
    BY Zenon DEF Live
  <2>1. Serving(NoCall, v, rd, said)
    BY <1>6, <2>0, Zenon DEF Talking
  <2>2. rd = 0
    BY <1>2
  <2>3. rd + Len(up) <= 0 /\ GetServed(NoCall, rd, said) /\ (spc # "reply" => sent = 0)
    BY Zenon, <1>1, <1>2, <2>1 DEF Serving
  <2>4. up = <<>>
    <3>1. Len(up) = 0
      BY <2>2, <2>3
    <3> QED  BY <3>1
  <2>5. PICK r \in 0 .. Len(NoCall.ids) :
            \/ spc = "header" /\ rd = r * HeaderUnits + Len(sbuf)
            \/ r < Len(NoCall.ids)
    BY <2>3, Zenon DEF GetServed
  <2>6. r = 0 /\ Len(NoCall.ids) = 0
    BY <1>1
  <2>7. spc = "header" /\ 0 = 0 * HeaderUnits + Len(sbuf)
    BY <2>2, <2>5, <2>6
  <2>8. Len(sbuf) = 0
    BY <2>7, RpcAssumption
  <2>9. sbuf = <<>>
    BY <2>8
  <2> QED  BY <2>3, <2>4, <2>7, <2>9
<1> QED  BY <1>4, <1>5, <1>6

\* A call that begins on an empty connection is at the start of its request.
LEMMA Began ==
    ASSUME NEW cl \in Calls, NEW v \in Value, Lined(iov, cl, v, 0)',
           down' = <<>>, buf' = <<>>, bufs' = <<>>,
           spc' # "exit" => /\ spc' = "header" /\ up' = <<>> /\ sbuf' = <<>> /\ sent' = 0
                            /\ cl.op = "put" => owed' = {Carried(cl, v)},
           cl.op # "put" => owed' = {}
    PROVE  Live(cl)'
<1>0. HeaderUnits \in Nat \ {0} /\ PageUnits \in Nat \ {0} /\ Length(cl) \in Nat
      /\ Due(cl) \in Nat /\ Size(cl) \in Nat
  BY Zenon, RpcAssumption, CallSizes
<1>1. Received(cl)' = 0 /\ Received(cl)' + Len(down') = 0
  <2>1. Len(bufs') = 0 /\ Len(buf') = 0 /\ Len(down') = 0
    OBVIOUS
  <2>2. 0 * Size(cl) + 0 = 0
    BY <1>0
  <2>3. Received(cl)' = Len(bufs') * Size(cl) + Len(buf')
    BY Zenon DEF Received, Size
  <2>4. Received(cl)' = 0
    BY <2>1, <2>2, <2>3, Zenon
  <2> QED  BY <2>1, <2>4
<1>2. Incoming(cl)'
  <2>1. \A i \in 1 .. Len(bufs') : FALSE
    OBVIOUS
  <2>2. Received(cl)' + Len(down') <= Due(cl)
    BY <1>0, <1>1
  <2>3. Follows(down', Answer(cl)', Received(cl)')
    BY Nothing, Zenon
  <2>4. Follows(buf', Answer(cl)', Len(bufs') * Size(cl))
    BY Nothing, Zenon
  <2> QED  BY <2>1, <2>2, <2>3, <2>4, Zenon DEF Incoming, Due, Size, Follows
<1>3. Owing(cl)'
  BY DEF Owing
<1>4. ASSUME spc' # "exit" PROVE Serving(cl, v, 0, 0)' /\ Coupled(cl, 0, 0, 0)'
  <2>1. spc' = "header" /\ up' = <<>> /\ sbuf' = <<>> /\ sent' = 0
        /\ (cl.op = "put" => owed' = {Carried(cl, v)})
    BY <1>4
  <2>2. Len(up') = 0 /\ Len(sbuf') = 0
    BY <2>1
  <2>3. ASSUME cl.op = "put" PROVE PutServed(cl, v, 0, 0)'
    <3>1. owed' = {Carried(cl, v)}' /\ Len(sbuf') < HeaderUnits
      <4>1. Len(sbuf') < HeaderUnits
        BY <1>0, <2>2
      <4> QED  BY <2>1, <2>3, <4>1, Zenon DEF Carried, Data
    <3> QED  BY Zenon, <2>1, <2>2, <3>1 DEF PutServed
  <2>4. GetServed(cl, 0, 0)'
    <3>1. 0 \in 0 .. Len(cl.ids) /\ 0 = 0 * HeaderUnits + 0 /\ 0 = 0 * PageUnits
          /\ 0 < HeaderUnits
      <4>1. PICK l \in Nat : l = Len(cl.ids)
        BY CallTypes, Zenon
      <4>2. 0 \in 0 .. l /\ 0 = 0 * HeaderUnits + 0 /\ 0 = 0 * PageUnits /\ 0 < HeaderUnits
        BY <1>0
      <4> QED  BY <4>1, <4>2, Zenon
    <3> QED  BY <2>1, <2>2, <3>1, Zenon DEF GetServed
  <2>5. 0 + Len(up') <= Length(cl) /\ 0 + Len(up') = 0
    BY <1>0, <2>2
  <2>6. Follows(up', Asked(cl, v), 0) /\ Follows(sbuf', Asked(cl, v), 0 - Len(sbuf'))
    BY <2>1, Nothing, Zenon
  <2>7. Serving(cl, v, 0, 0)'
    BY <2>1, <2>3, <2>4, <2>5, <2>6, Zenon DEF Serving, Length, Follows, Asked
  <2>8. 0 + Len(up') <= 0 /\ Received(cl)' + Len(down') <= 0
    BY <1>1, <2>5
  <2> QED  BY <1>1, <2>5, <2>7, <2>8, Zenon DEF Coupled
<1>5. Talking(cl, v, 0, 0, 0)'
  BY <1>4, Zenon DEF Talking
<1>6. 0 \in 0 .. Length(cl) /\ 0 \in 0 .. Due(cl)
  BY <1>0
<1> QED  BY <1>2, <1>3, <1>5, <1>6, Zenon DEF Live, Length, Due

\* The beginning of any call keeps the invariant.
LEMMA StartKeeps ==
    ASSUME IInv, NEW new \in Calls, NEW v \in Value, NEW w \in Seq(Seq(Unit)),
           Lined(w, new, v, 0),
           NEW how, Start(new.op, new.ids, how, w), new = [op |-> new.op, ids |-> new.ids],
           \/ how = "send" /\ new.op = "get" /\ w # <<>>
           \/ how = "sendv" /\ new.op = "put" /\ Len(w) = 2,
           dead => owed' = owed,
           ~dead => owed' = IF new.op = "put" THEN {Carried(new, v)} ELSE owed
    PROVE  IInv'
<1>1. Wire /\ (dead => Dead)
  BY Zenon DEF IInv
<1>2. PICK cl \in Calls : cl = call /\ Calling(cl) /\ (~dead => Live(cl))
  BY Zenon DEF IInv
<1>3. /\ cpc = "idle" /\ cpc' = how /\ call' = new /\ iov' = w /\ bufs' = <<>> /\ buf' = <<>>
      /\ link' = link /\ up' = up /\ down' = down /\ dead' = dead
      /\ spc' = spc /\ req' = req /\ sbuf' = sbuf /\ sent' = sent /\ storage' = storage
  BY Zenon DEF Start, streams, server
<1>4. cl = NoCall /\ buf \in Seq(Unit) /\ bufs \in Seq(Seq(Unit))
  BY Zenon, <1>2, <1>3 DEF Calling
<1>5. up \in Seq(Unit) /\ down \in Seq(Unit) /\ sbuf \in Seq(Unit)
  BY Zenon, <1>1 DEF Wire
<1>6. Wire'
  <2>1. cpc' \in {"idle", "send", "sendv", "recv", "return", "killed"}
    BY Zenon, <1>3
  <2> QED  BY <1>1, <1>3, <2>1, Zenon DEF Wire
<1>7. Calling(new)'
  <2>1. new # NoCall
    BY Zenon, CallTypes
  <2> QED  BY <1>3, <2>1, NewCalling, Zenon
<1>8. (dead => Dead)'
  <2>1. ASSUME dead PROVE Dead'
    <3>1. Dead /\ owed' = owed
      BY <1>1, <2>1, Zenon
    <3>2. spc' # "exit" => Left'
      <4>1. ASSUME spc' # "exit" PROVE Left'
        <5>1. Left
          BY <1>3, <3>1, <4>1, Zenon DEF Dead
        <5> QED  BY <1>3, <1>5, <3>1, <5>1, LeftSame, Zenon
      <4> QED  BY <4>1
    <3>3. link' # "up" /\ (down' = <<>> \/ (link' = "reset" /\ cpc' \notin {"recv", "return"}))
      BY Zenon, <1>3, <3>1 DEF Dead
    <3> QED  BY <1>3, <3>2, <3>3, Zenon DEF Dead
  <2> QED  BY <1>3, <2>1, Zenon
<1>9. (~dead => Live(new))'
  <2>1. ASSUME ~dead PROVE Live(new)'
    <3>1. Live(NoCall) /\ owed' = IF new.op = "put" THEN {Carried(new, v)} ELSE owed
      BY <1>2, <1>4, <2>1, Zenon
    <3>2. /\ down = <<>> /\ owed = {}
          /\ spc # "exit" => spc = "header" /\ up = <<>> /\ sbuf = <<>> /\ sent = 0
      BY Zenon, <1>4, <1>5, <3>1, IdleLive
    <3>3. Lined(iov, new, v, 0)'
      <4>1. Lined(iov', new, v, 0)
        BY <1>3, Zenon
      <4> QED  BY <4>1, Zenon DEF Lined, Length, Follows, Asked
    <3>4. /\ new.op # "put" => owed' = {}
          /\ new.op = "put" => owed' = {Carried(new, v)}
      BY <3>1, <3>2, Zenon
    <3>5. /\ down' = <<>>
          /\ spc' # "exit" => spc' = "header" /\ up' = <<>> /\ sbuf' = <<>> /\ sent' = 0
      BY <1>3, <3>2, Zenon
    <3> QED  BY <1>3, <3>3, <3>4, <3>5, Began, Zenon
  <2> QED  BY <1>3, <2>1, Zenon
<1>10. new = call'
  BY Zenon, <1>3
<1> QED  BY <1>6, <1>7, <1>8, <1>9, <1>10, Zenon DEF IInv

\* The headers dsm_rpc_get_batch sends are its request.
LEMMA GetLined ==
    ASSUME NEW cl \in Calls, cl.op = "get", NEW v \in Value
    PROVE  /\ [i \in 1 .. Len(cl.ids) |-> Header("get", cl.ids[i])] \in Seq(Seq(Unit))
           /\ [i \in 1 .. Len(cl.ids) |-> Header("get", cl.ids[i])] # <<>>
           /\ Lined([i \in 1 .. Len(cl.ids) |-> Header("get", cl.ids[i])], cl, v, 0)
<1>0. HeaderUnits \in Nat \ {0} /\ Zero \in Value
  BY RpcAssumption
<1>1. PICK L \in Nat \ {0} : L = Len(cl.ids)
  <2>1. cl.ids \in Seq(Page) /\ cl.ids # <<>>
    BY Zenon, CallTypes
  <2> QED  BY <2>1, Short
<1>2. ASSUME NEW i \in 1 .. L
      PROVE  /\ cl.ids[i] \in Page /\ Header("get", cl.ids[i]) \in Seq(Unit)
             /\ Len(Header("get", cl.ids[i])) = HeaderUnits
  <2>1. cl.ids[i] \in Page
    BY Zenon, <1>1, CallTypes
  <2> QED  BY Zenon, <1>0, <2>1, Spelled
<1> DEFINE w == [i \in 1 .. L |-> Header("get", cl.ids[i])]
           off == [i \in 1 .. L + 1 |-> (i - 1) * HeaderUnits]
<1>3. w \in [1 .. L -> Seq(Unit)]
  BY Zenon, <1>2
<1>4. w \in Seq(Seq(Unit)) /\ Len(w) = L
  BY <1>3, SMTT(30)
<1>5. w # <<>>
  BY Zenon, <1>4
<1>6. Length(cl) = L * HeaderUnits
  BY Zenon, <1>1, CallSizes
<1>7. ASSUME NEW i \in 1 .. L + 1
      PROVE  (i - 1) * HeaderUnits \in 0 .. Length(cl)
  <2>1. i - 1 \in Nat /\ i - 1 <= L
    OBVIOUS
  <2>2. (i - 1) * HeaderUnits \in Nat /\ L * HeaderUnits \in Nat
    BY <1>0, <2>1
  <2>3. CASE i - 1 = L
    BY <1>6, <2>2, <2>3
  <2>4. CASE i - 1 < L
    <3>1. (i - 1) * HeaderUnits + HeaderUnits <= L * HeaderUnits
      BY <1>0, <2>1, <2>4, Less
    <3> QED  BY <1>0, <1>6, <2>2, <3>1
  <2> QED  BY <2>1, <2>3, <2>4
<1>8. off \in [1 .. L + 1 -> 0 .. Length(cl)]
  BY <1>7
<1>9. off[1] = 0 /\ off[L + 1] = Length(cl)
  <2>1. off[1] = (1 - 1) * HeaderUnits /\ off[L + 1] = (L + 1 - 1) * HeaderUnits
    OBVIOUS
  <2>2. (1 - 1) * HeaderUnits = 0 /\ L + 1 - 1 = L
    BY <1>0
  <2> HIDE DEF off
  <2> QED  BY <1>6, <2>1, <2>2, Zenon
<1>10. ASSUME NEW i \in 1 .. L
       PROVE  off[i + 1] = off[i] + Len(w[i]) /\ Follows(w[i], Asked(cl, v), off[i])
  <2>1. PICK r \in Nat : r = i - 1 /\ r < L /\ r + 1 = i
    BY <1>1
  <2>2. off[i] = r * HeaderUnits
    BY <2>1
  <2>3. off[i + 1] = (r + 1) * HeaderUnits
    <3>1. i + 1 \in 1 .. L + 1 /\ i + 1 - 1 = r + 1
      BY <2>1
    <3>2. off[i + 1] = (i + 1 - 1) * HeaderUnits
      BY <3>1
    <3> HIDE DEF off
    <3> QED  BY <3>1, <3>2, Zenon
  <2>4. (r + 1) * HeaderUnits = r * HeaderUnits + HeaderUnits
    BY <1>0
  <2>5. w[i] = Header("get", cl.ids[r + 1]) /\ Len(w[i]) = HeaderUnits
    BY Zenon, <1>2, <2>1
  <2>6. Follows(Header("get", cl.ids[r + 1]), Asked(cl, v), r * HeaderUnits)
    <3>1. r < Len(cl.ids) /\ cl.op # "put"
      BY <1>1, <2>1
    <3> QED  BY Zenon, <3>1, AskedGet
  <2> HIDE DEF off, w
  <2> QED  BY <2>2, <2>3, <2>4, <2>5, <2>6, Zenon
<1>11. Lined(w, cl, v, 0)
  <2> HIDE DEF w, off
  <2> QED  BY <1>4, <1>8, <1>9, <1>10, Zenon DEF Lined
<1>12. w = [i \in 1 .. Len(cl.ids) |-> Header("get", cl.ids[i])]
  BY Zenon, <1>1
<1> HIDE DEF w
<1> QED  BY <1>4, <1>5, <1>11, <1>12, Zenon

\* dsm_rpc_get and dsm_rpc_get_batch keep the invariant when they begin.
LEMMA RpcGetKeeps ==
    ASSUME IInv, NEW ids \in Batches, RpcGet(ids)
    PROVE  IInv'
<1>1. PICK new : new = [op |-> "get", ids |-> ids]
  BY Zenon
<1>2. new \in Calls /\ new.op = "get" /\ new.ids = ids
      /\ new = [op |-> new.op, ids |-> new.ids]
  BY Zenon, <1>1 DEF Calls
<1>3. PICK w : w = [i \in 1 .. Len(new.ids) |-> Header("get", new.ids[i])]
  BY Zenon
<1>4. Zero \in Value
  BY RpcAssumption
<1>5. w \in Seq(Seq(Unit)) /\ w # <<>> /\ Lined(w, new, Zero, 0)
  BY Zenon, <1>2, <1>3, <1>4, GetLined
<1>6. Start("get", ids, "send", w) /\ owed' = owed
  BY <1>2, <1>3, Zenon DEF RpcGet
<1>7. PICK how : how = "send"
  BY Zenon
<1>8. Start(new.op, new.ids, how, w)
  BY <1>2, <1>6, <1>7, Zenon
<1>9. /\ \/ how = "send" /\ new.op = "get" /\ w # <<>>
         \/ how = "sendv" /\ new.op = "put" /\ Len(w) = 2
      /\ dead => owed' = owed
      /\ ~dead => owed' = IF new.op = "put" THEN {Carried(new, Zero)} ELSE owed
  BY Zenon, <1>2, <1>5, <1>6, <1>7
<1> QED  BY <1>2, <1>4, <1>5, <1>8, <1>9, StartKeeps, Zenon

\* The two buffers dsm_rpc_put hands to dsm_sendv are its request.
LEMMA PutLined ==
    ASSUME NEW cl \in Calls, cl.op = "put", NEW v \in Value
    PROVE  /\ <<Header("put", cl.ids[1]), Data(cl.ids[1], v)>> \in Seq(Seq(Unit))
           /\ Len(<<Header("put", cl.ids[1]), Data(cl.ids[1], v)>>) = 2
           /\ Lined(<<Header("put", cl.ids[1]), Data(cl.ids[1], v)>>, cl, v, 0)
<1>0. HeaderUnits \in Nat \ {0} /\ PageUnits \in Nat \ {0} /\ cl.ids[1] \in Page
      /\ Length(cl) = HeaderUnits + PageUnits
  BY Zenon, RpcAssumption, CallTypes, CallSizes
<1>1. PICK h, d : h = Header("put", cl.ids[1]) /\ d = Data(cl.ids[1], v)
  BY Zenon
<1>2. h \in Seq(Unit) /\ d \in Seq(Unit) /\ Len(h) = HeaderUnits /\ Len(d) = PageUnits
  BY Zenon, <1>0, <1>1, Spelled
<1>3. Follows(h, Asked(cl, v), 0) /\ Follows(d, Asked(cl, v), HeaderUnits)
  BY Zenon, <1>1, AskedPut
<1>4. PICK w : w = <<h, d>>
  BY Zenon
<1>5. w \in Seq(Seq(Unit)) /\ Len(w) = 2 /\ w[1] = h /\ w[2] = d
  BY <1>2, <1>4
<1>6. PICK off : off = [i \in 1 .. 3 |-> IF i = 1 THEN 0 ELSE
                                          IF i = 2 THEN HeaderUnits ELSE Length(cl)]
  BY Zenon
<1>7. /\ off \in [1 .. 3 -> 0 .. Length(cl)]
      /\ off[1] = 0 /\ off[2] = HeaderUnits /\ off[3] = Length(cl)
  BY <1>0, <1>6, SMTT(30)
<1>8. ASSUME NEW i \in 1 .. 2
      PROVE  off[i + 1] = off[i] + Len(w[i]) /\ Follows(w[i], Asked(cl, v), off[i])
  <2>1. i = 1 \/ i = 2
    OBVIOUS
  <2>2. 0 + HeaderUnits = HeaderUnits /\ 1 + 1 = 2 /\ 2 + 1 = 3
    BY <1>0
  <2>3. CASE i = 1
    BY <1>2, <1>3, <1>5, <1>7, <2>2, <2>3, Zenon
  <2>4. CASE i = 2
    BY <1>0, <1>2, <1>3, <1>5, <1>7, <2>2, <2>4, Zenon
  <2> QED  BY <2>1, <2>3, <2>4
<1>9. Lined(w, cl, v, 0)
  <2>1. 2 + 1 = 3
    OBVIOUS
  <2> QED  BY <1>5, <1>7, <1>8, <2>1, Zenon DEF Lined
<1> QED  BY <1>1, <1>4, <1>5, <1>9, Zenon

\* dsm_rpc_put keeps the invariant when it begins.
LEMMA RpcPutKeeps ==
    ASSUME IInv, NEW p \in Page, NEW v \in Value, RpcPut(p, v)
    PROVE  IInv'
<1>1. PICK new : new = [op |-> "put", ids |-> <<p>>]
  BY Zenon
<1>2. new \in Calls /\ new.op = "put" /\ new.ids = <<p>> /\ new.ids[1] = p
      /\ new = [op |-> new.op, ids |-> new.ids]
  BY Zenon, <1>1 DEF Calls
<1>3. PICK w : w = <<Header("put", new.ids[1]), Data(new.ids[1], v)>>
  BY Zenon
<1>4. w \in Seq(Seq(Unit)) /\ Len(w) = 2 /\ Lined(w, new, v, 0)
  BY Zenon, <1>2, <1>3, PutLined
<1>5. /\ Start("put", <<p>>, "sendv", w)
      /\ owed' = IF dead THEN owed ELSE {Carried(new, v)}
  BY <1>2, <1>3, Zenon DEF RpcPut, Carried
<1>6. PICK how : how = "sendv"
  BY Zenon
<1>7. Start(new.op, new.ids, how, w)
  BY <1>2, <1>5, <1>6, Zenon
<1>8. /\ \/ how = "send" /\ new.op = "get" /\ w # <<>>
         \/ how = "sendv" /\ new.op = "put" /\ Len(w) = 2
      /\ dead => owed' = owed
      /\ ~dead => owed' = IF new.op = "put" THEN {Carried(new, v)} ELSE owed
  BY <1>2, <1>4, <1>5, <1>6, Zenon
<1> QED  BY <1>2, <1>4, <1>7, <1>8, StartKeeps, Zenon

-----------------------------------------------------------------------------
\* The buffers stay where they are when they are not touched.
LEMMA LinedSame ==
    ASSUME iov' = iov, NEW cl, NEW v, NEW out, Lined(iov, cl, v, out)
    PROVE  Lined(iov, cl, v, out)'
<1>1. Lined(iov', cl, v, out)
  BY Zenon
<1> QED  BY <1>1, Zenon DEF Lined, Length, Follows, Asked

\* Steps that only move bytes from the stream to the client leave the server
\* at its place.
LEMMA LiveServedOn ==
    ASSUME up \in Seq(Unit), UNCHANGED <<link, up, spc, req, sbuf, sent, owed, iov>>,
           NEW cl \in Calls, Live(cl), Incoming(cl)', Owing(cl)',
           Received(cl)' + Len(down') = Received(cl) + Len(down)
    PROVE  Live(cl)'
<1>1. PICK v \in Value, rd \in 0 .. Length(cl), said \in 0 .. Due(cl), out \in 0 .. Length(cl) :
            Talking(cl, v, rd, said, out)
  BY Zenon DEF Live
<1>2. rd \in Nat
  BY Positions, Zenon
<1>3. Lined(iov, cl, v, out)'
  BY <1>1, LinedSame, Zenon DEF Talking
<1>4. ASSUME spc' # "exit" PROVE Serving(cl, v, rd, said)' /\ Coupled(cl, rd, said, out)'
  <2>1. Serving(cl, v, rd, said) /\ Coupled(cl, rd, said, out)
    BY <1>1, <1>4, Zenon DEF Talking
  <2>2. Serving(cl, v, rd, said)'
    BY Zenon, <1>2, <2>1, ServingSame
  <2>3. Coupled(cl, rd, said, out)'
    BY <2>1, Zenon DEF Coupled
  <2> QED  BY Zenon, <2>2, <2>3
<1>5. Talking(cl, v, rd, said, out)'
  BY <1>3, <1>4, Zenon DEF Talking
<1> QED  BY <1>5, Zenon DEF Live, Length, Due

\* A complete reply is added behind the ones received and changes none of them.
LEMMA AppendedReply ==
    ASSUME NEW S, NEW s \in Seq(S), NEW e \in S
    PROVE  /\ Append(s, e) \in Seq(S) /\ Len(Append(s, e)) = Len(s) + 1
           /\ \A i \in 1 .. Len(s) : Append(s, e)[i] = s[i]
           /\ Append(s, e)[Len(s) + 1] = e
  OBVIOUS

\* A step of the client's dsm_recv_full keeps the invariant: no reply is
\* completed by bytes of the next one.
LEMMA RecvKeeps ==
    ASSUME IInv, Recv
    PROVE  IInv'
<1>1. Wire /\ (dead => Dead)
  BY Zenon DEF IInv
<1>2. PICK cl \in Calls : cl = call /\ Calling(cl) /\ (~dead => Live(cl))
  BY Zenon DEF IInv
<1>3. /\ cpc = "recv" /\ link' = link /\ up' = up /\ call' = call /\ iov' = iov
      /\ dead' = dead /\ spc' = spc /\ req' = req /\ sbuf' = sbuf /\ sent' = sent
      /\ storage' = storage /\ owed' = owed
  BY Zenon DEF Recv, server
<1>4. Wanted = Size(cl)
  BY <1>2 DEF Wanted, Size
<1>5. PICK n \in 1 .. Len(down) :
        /\ n <= Size(cl) - Len(buf)
        /\ down' = Drop(down, n)
        /\ IF Len(buf \o Take(down, n)) < Size(cl)
           THEN buf' = buf \o Take(down, n) /\ UNCHANGED <<bufs, cpc>>
           ELSE /\ buf' = <<>>
                /\ bufs' = Append(bufs, buf \o Take(down, n))
                /\ cpc' = IF Len(bufs') < Len(call.ids) THEN cpc ELSE "return"
  BY <1>4, Zenon DEF Recv, Remaining, Some
<1>6. /\ down \in Seq(Unit) /\ Len(down) <= DownRoom /\ up \in Seq(Unit)
      /\ storage \in [Page -> Contents]
  BY <1>1 DEF Wire
<1>7. /\ buf \in Seq(Unit) /\ bufs \in Seq(Seq(Unit)) /\ Len(buf) < Size(cl)
      /\ Len(bufs) < Len(cl.ids) /\ \A i \in 1 .. Len(bufs) : Len(bufs[i]) = Size(cl)
      /\ iov = <<>> /\ cl # NoCall
  BY Zenon, <1>2, <1>3 DEF Calling
<1>8. down # <<>>
  BY <1>5, <1>6
<1>9. ~dead /\ Live(cl)
  <2>1. ~Dead
    BY <1>3, <1>8 DEF Dead
  <2> QED  BY <1>1, <1>2, <2>1, Zenon
<1>10. Incoming(cl) /\ Owing(cl)
  BY <1>9, Zenon DEF Live
<1>11. owed = {}
  BY <1>8, <1>10 DEF Owing
<1>12. PICK ld \in Nat, lb \in Nat, lbs \in Nat, z \in Nat \ {0}, L \in Nat :
          ld = Len(down) /\ lb = Len(buf) /\ lbs = Len(bufs) /\ z = Size(cl) /\ L = Len(cl.ids)
  <2>1. Size(cl) \in Nat \ {0} /\ Len(cl.ids) \in Nat
    BY Zenon, CallSizes, CallTypes
  <2>2. Len(down) \in Nat /\ Len(buf) \in Nat /\ Len(bufs) \in Nat
    BY <1>6, <1>7
  <2> QED  BY <2>1, <2>2, Zenon
<1>13. PICK c \in Nat : c = lbs * z
  BY <1>12
<1>14. Received(cl) = c + lb /\ Len(bufs) * Size(cl) = c
  BY <1>12, <1>13, Zenon DEF Received
<1>15. n \in 1 .. ld /\ n <= z - lb /\ lb < z /\ lbs < L
  BY <1>5, <1>7, <1>12, Zenon
<1> DEFINE t == Answer(cl)
           got == buf \o Take(down, n)
<1>16. Follows(buf, t, c) /\ Follows(down, t, c + Len(buf)) /\ c + lb + ld <= Due(cl)
  <2>1. Follows(buf, t, Len(bufs) * Size(cl)) /\ Follows(down, t, Received(cl))
        /\ Received(cl) + Len(down) <= Due(cl)
    BY <1>10, Zenon DEF Incoming
  <2> QED  BY <1>12, <1>14, <2>1, Zenon
<1>17. /\ got \in Seq(Unit) /\ Len(got) = Len(buf) + n /\ Follows(got, t, c)
       /\ Drop(down, n) \in Seq(Unit) /\ Len(Drop(down, n)) = Len(down) - n
       /\ Follows(Drop(down, n), t, c + Len(buf) + n)
  BY <1>6, <1>7, <1>16, Pulled, SMTT(30)
<1>18. PICK lg \in Nat : lg = lb + n /\ lg = Len(got)
  <2>1. lb + n \in Nat
    BY <1>15
  <2> QED  BY <1>12, <1>17, <2>1, Zenon
<1>19. /\ down' \in Seq(Unit) /\ Len(down') = ld - n /\ Follows(down', t, c + lg)
  <2>1. c + lb + n = c + lg
    BY <1>15, <1>18
  <2> QED  BY <1>5, <1>12, <1>17, <2>1, Zenon
<1>20. lg <= z /\ c + lg + (ld - n) = c + lb + ld /\ c + lg + (ld - n) <= Due(cl)
  <2>1. Due(cl) \in Nat
    BY Zenon, CallSizes
  <2> QED  BY <1>15, <1>16, <1>18, <2>1, SMTT(30)
<1>21. Wire'
  <2>1. Len(down') <= DownRoom
    <3>1. ld <= DownRoom
      BY <1>6, <1>12
    <3>2. ld - n <= DownRoom
      BY <1>15, <3>1, RpcAssumption
    <3> QED  BY <1>19, <3>2, Zenon
  <2>2. cpc' \in {"idle", "send", "sendv", "recv", "return", "killed"}
    BY Zenon, <1>3, <1>5
  <2> QED  BY <1>1, <1>3, <1>19, <2>1, <2>2, Zenon DEF Wire
<1>22. t' = t
  BY <1>3, AnswerSame
<1>23. IF Len(got) < Size(cl)
       THEN buf' = got /\ UNCHANGED <<bufs, cpc>>
       ELSE /\ buf' = <<>> /\ bufs' = Append(bufs, got)
            /\ cpc' = IF Len(bufs') < Len(call.ids) THEN cpc ELSE "return"
  BY <1>5, Zenon
<1> HIDE DEF got
<1>24. ASSUME Calling(cl)', Received(cl)' = c + lg,
              Follows(buf', t, Len(bufs') * Size(cl)),
              \A i \in 1 .. Len(bufs') :
                 /\ cl.op = "put" => bufs'[i] = Header("ack", cl.ids[1])
                 /\ cl.op # "put" => bufs'[i] = storage[cl.ids[i]]
       PROVE  IInv'
  <2>1. Received(cl)' + Len(down') = Received(cl) + Len(down)
    BY <1>12, <1>14, <1>19, <1>20, <1>24, Zenon
  <2>2. Received(cl)' + Len(down') <= Due(cl) /\ Follows(down', t, Received(cl)')
    BY <1>19, <1>20, <1>24, Zenon
  <2>3. Incoming(cl)'
    BY <1>3, <1>22, <1>24, <2>2, Zenon DEF Incoming, Due, Size, Follows, t, Header
  <2>4. Owing(cl)'
    BY <1>3, <1>11, Zenon DEF Owing
  <2>5. Live(cl)'
    BY <1>3, <1>6, <1>9, <2>1, <2>3, <2>4, LiveServedOn, Zenon
  <2>6. (dead => Dead)' /\ cl = call'
    BY <1>2, <1>3, <1>9, Zenon
  <2> QED  BY <1>21, <1>24, <2>5, <2>6, Zenon DEF IInv
<1>25. CASE lg < z
  <2>1. buf' = got /\ bufs' = bufs /\ cpc' = "recv"
    BY Zenon, <1>3, <1>12, <1>18, <1>23, <1>25
  <2>2. Calling(cl)'
    <3>1. buf' \in Seq(Unit) /\ Len(buf') < Size(cl)
      BY <1>12, <1>17, <1>18, <1>25, <2>1, Zenon
    <3>2. "recv" # "return"
      OBVIOUS
    <3> QED  BY <1>3, <1>7, <2>1, <3>1, <3>2, StillCalling, Zenon
  <2>3. Received(cl)' = c + lg
    <3>1. Received(cl)' = Len(bufs') * Size(cl) + Len(buf')
      BY Zenon DEF Received, Size
    <3> QED  BY <1>14, <1>18, <2>1, <3>1, Zenon
  <2>4. Follows(buf', t, Len(bufs') * Size(cl))
    BY <1>14, <1>17, <2>1, Zenon
  <2>5. \A i \in 1 .. Len(bufs') :
                 /\ cl.op = "put" => bufs'[i] = Header("ack", cl.ids[1])
                 /\ cl.op # "put" => bufs'[i] = storage[cl.ids[i]]
    BY <1>10, <2>1, Zenon DEF Incoming
  <2> QED  BY <1>24, <2>2, <2>3, <2>4, <2>5, Zenon
<1>26. CASE ~ (lg < z)
  <2>1. /\ buf' = <<>> /\ bufs' = Append(bufs, got)
        /\ cpc' = IF Len(bufs') < Len(cl.ids) THEN "recv" ELSE "return"
    BY <1>2, <1>3, <1>12, <1>18, <1>23, <1>26, Zenon
  <2>2. lg = z
    BY <1>20, <1>26
  <2>3. /\ bufs' \in Seq(Seq(Unit)) /\ Len(bufs') = Len(bufs) + 1
        /\ \A i \in 1 .. Len(bufs) : bufs'[i] = bufs[i]
        /\ bufs'[Len(bufs) + 1] = got
    <3>1. bufs \in Seq(Seq(Unit)) /\ got \in Seq(Unit)
      BY <1>7, <1>17, Zenon
    <3>2. PICK e \in Seq(Unit) : e = got
      BY <3>1, Zenon
    <3>3. /\ Append(bufs, e) \in Seq(Seq(Unit)) /\ Len(Append(bufs, e)) = Len(bufs) + 1
          /\ \A i \in 1 .. Len(bufs) : Append(bufs, e)[i] = bufs[i]
          /\ Append(bufs, e)[Len(bufs) + 1] = e
      BY <3>1, AppendedReply, SMTT(30)
    <3> QED  BY <2>1, <3>2, <3>3, Zenon
  <2>4. Len(bufs') = lbs + 1 /\ bufs'[lbs + 1] = got /\ \A i \in 1 .. lbs : bufs'[i] = bufs[i]
    BY <1>12, <2>3, Zenon
  <2>5. \A i \in 1 .. Len(bufs') : i \in 1 .. lbs \/ i = lbs + 1
    BY <2>4, SMTT(30)
  <2>6. Calling(cl)'
    <3>1. \A i \in 1 .. Len(bufs') : Len(bufs'[i]) = Size(cl)
      BY <1>7, <1>12, <1>18, <2>2, <2>4, <2>5, Zenon
    <3>2. buf' \in Seq(Unit) /\ Len(buf') < Size(cl)
      <4>1. Size(cl) \in Nat \ {0} /\ Len(<<>>) = 0 /\ <<>> \in Seq(Unit)
        BY CallSizes, SMTT(30)
      <4> QED  BY <2>1, <4>1
    <3>3. cpc' = "return" => Len(bufs') = Len(cl.ids)
      <4>1. ~ (lbs + 1 < L) => lbs + 1 = L
        BY <1>15
      <4>2. "recv" # "return"
        OBVIOUS
      <4> QED  BY <1>12, <2>1, <2>4, <4>1, <4>2, Zenon
    <3>4. cpc' \in {"recv", "return"} /\ (cpc' = "recv" => Len(bufs') < Len(cl.ids))
      BY <2>1
    <3> QED  BY <1>3, <1>7, <2>3, <3>1, <3>2, <3>3, <3>4, StillCalling, Zenon
  <2>7. Received(cl)' = c + lg
    <3>1. Received(cl)' = Len(bufs') * Size(cl) + Len(buf')
      BY Zenon DEF Received, Size
    <3>2. Len(buf') = 0
      BY <2>1
    <3>3. (lbs + 1) * z + 0 = c + z
      BY <1>13
    <3> QED  BY <1>12, <2>2, <2>4, <3>1, <3>2, <3>3, Zenon
  <2>8. Follows(buf', t, Len(bufs') * Size(cl))
    BY <2>1, Nothing, Zenon
  <2>9. /\ cl.op = "put" => got = Header("ack", cl.ids[1])
        /\ cl.op # "put" => got = storage[cl.ids[lbs + 1]]
    <3>1. ASSUME cl.op = "put" PROVE got = Header("ack", cl.ids[1])
      <4>1. cl.ids[1] \in Page /\ Zero \in Value /\ Len(cl.ids) = 1 /\ z = HeaderUnits
        BY Zenon, <1>12, <3>1, CallTypes, CallSizes, RpcAssumption
      <4>2. lbs = 0
        BY <1>12, <1>15, <4>1, SMTT(30)
      <4>3. c = 0
        BY <1>12, <1>13, <4>2
      <4>4. /\ Header("ack", cl.ids[1]) \in Seq(Unit)
            /\ Len(Header("ack", cl.ids[1])) = HeaderUnits
        BY Zenon, <4>1, Spelled
      <4>5. Follows(Header("ack", cl.ids[1]), t, c) /\ Len(got) = HeaderUnits
        BY Zenon, <1>18, <2>2, <3>1, <4>1, <4>3, AnswerPut
      <4> QED  BY Zenon, <1>17, <4>4, <4>5, Same
    <3>2. ASSUME cl.op # "put" PROVE got = storage[cl.ids[lbs + 1]]
      <4>1. lbs < Len(cl.ids) /\ z = PageUnits
        BY Zenon, <1>12, <1>15, <3>2, CallSizes
      <4>2. cl.ids[lbs + 1] \in Page
        BY <1>12, <1>15, CallTypes, SMTT(30)
      <4>3. storage[cl.ids[lbs + 1]] \in Seq(Unit)
            /\ Len(storage[cl.ids[lbs + 1]]) = PageUnits
        BY Zenon, <1>6, <4>2, Held
      <4>4. Follows(storage[cl.ids[lbs + 1]], t, lbs * PageUnits)
        BY Zenon, <1>6, <3>2, <4>1, AnswerGet
      <4>5. Follows(storage[cl.ids[lbs + 1]], t, c) /\ Len(got) = PageUnits
        BY <1>13, <1>18, <2>2, <4>1, <4>4, Zenon
      <4> QED  BY Zenon, <1>17, <4>3, <4>5, Same
    <3> QED  BY Zenon, <3>1, <3>2
  <2>10. \A i \in 1 .. lbs :
            /\ cl.op = "put" => bufs[i] = Header("ack", cl.ids[1])
            /\ cl.op # "put" => bufs[i] = storage[cl.ids[i]]
    BY <1>10, <1>12, Zenon DEF Incoming
  <2>11. \A i \in 1 .. Len(bufs') :
                 /\ cl.op = "put" => bufs'[i] = Header("ack", cl.ids[1])
                 /\ cl.op # "put" => bufs'[i] = storage[cl.ids[i]]
    BY <2>4, <2>5, <2>9, <2>10, Zenon
  <2> QED  BY <1>24, <2>6, <2>7, <2>8, <2>11, Zenon
<1> QED  BY <1>25, <1>26

-----------------------------------------------------------------------------
(* The call returns *)

\* A call in progress names at least one page.
LEMMA InCall ==
    ASSUME NEW cl \in Calls, cl # NoCall
    PROVE  /\ cl.op \in {"get", "put"} /\ cl.ids # <<>> /\ Len(cl.ids) \in Nat \ {0}
           /\ cl.op # "get" => cl.op = "put"
<1>1. cl.op \in {"get", "put"}
  BY Zenon, CallTypes
<1>2. cl.ids # <<>> /\ cl.ids \in Seq(Page)
  BY Zenon, <1>1, CallTypes
<1>3. Len(cl.ids) \in Nat \ {0}
  BY Zenon, <1>2, Short
<1> QED  BY <1>1, <1>2, <1>3

\* When every reply is in, nothing is left: the streams are empty, the PUT is
\* stored, and the server waits at the beginning of a header.
LEMMA Complete ==
    ASSUME NEW cl \in Calls, cl # NoCall, Live(cl), Len(bufs) = Len(cl.ids),
           up \in Seq(Unit), down \in Seq(Unit), sbuf \in Seq(Unit), sent \in Nat,
           buf \in Seq(Unit), bufs \in Seq(Seq(Unit))
    PROVE  /\ down = <<>> /\ owed = {} /\ bufs # <<>>
           /\ spc # "exit" => spc = "header" /\ up = <<>> /\ sbuf = <<>> /\ sent = 0
<1>0. HeaderUnits \in Nat \ {0} /\ PageUnits \in Nat \ {0}
  BY RpcAssumption
<1>1. PICK L \in Nat \ {0}, z \in Nat \ {0}, lu \in Nat, ld \in Nat, lb \in Nat, ls \in Nat :
        /\ L = Len(cl.ids) /\ z = Size(cl)
        /\ lu = Len(up) /\ ld = Len(down) /\ lb = Len(buf) /\ ls = Len(sbuf)
  <2>1. Len(cl.ids) \in Nat \ {0} /\ Size(cl) \in Nat \ {0}
    BY Zenon, InCall, CallSizes
  <2>2. Len(up) \in Nat /\ Len(down) \in Nat /\ Len(buf) \in Nat /\ Len(sbuf) \in Nat
    OBVIOUS
  <2> QED  BY <2>1, <2>2, Zenon
<1>2. PICK d \in Nat : d = L * z
  BY <1>1, SMTT(30)
<1>3. Due(cl) = d /\ Received(cl) = d + lb
  BY <1>1, <1>2, Zenon DEF Due, Received
<1>4. d + lb + ld <= d
  BY <1>1, <1>3, Zenon DEF Live, Incoming
<1>5. lb = 0 /\ ld = 0
  BY <1>4
<1>6. down = <<>>
  BY Zenon, <1>1, <1>5, Short
<1>7. bufs # <<>>
  BY Zenon, <1>1
<1>8. owed = {}
  BY Zenon, <1>7 DEF Live, Owing
<1>9. ASSUME spc # "exit" PROVE spc = "header" /\ up = <<>> /\ sbuf = <<>> /\ sent = 0
  <2>1. PICK v \in Value, rd \in 0 .. Length(cl), said \in 0 .. Due(cl), out \in 0 .. Length(cl) :
            Talking(cl, v, rd, said, out)
    BY Zenon DEF Live
  <2>2. Serving(cl, v, rd, said) /\ Received(cl) + Len(down) <= said
    BY <1>9, <2>1, Zenon DEF Talking, Coupled
  <2>3. d + lb + ld <= said /\ said \in 0 .. d
    BY <1>1, <1>3, <2>2, Zenon
  <2>4. said = d
    BY <1>5, <2>3, SMTT(30)
  <2>5. /\ rd + lu <= Length(cl) /\ (spc # "reply" => sent = 0) /\ Length(cl) \in Nat
        /\ cl.op = "put" => PutServed(cl, v, rd, said)
        /\ cl.op # "put" => GetServed(cl, rd, said)
    BY <1>1, <2>2, CallSizes, Zenon DEF Serving
  <2>6. rd \in Nat
    BY <2>5, SMTT(30)
  <2>7. CASE cl.op = "put"
    <3>1. L = 1 /\ z = HeaderUnits
      BY Zenon, <1>1, <2>7, CallTypes, CallSizes
    <3>2. said = HeaderUnits
      BY <1>0, <1>2, <2>4, <3>1, SMTT(30)
    <3>3. spc = "header" /\ rd = Length(cl) /\ sbuf = <<>>
      <4>1. said # 0 /\ ~ (said < HeaderUnits)
        BY <1>0, <3>2, SMTT(30)
      <4> QED  BY <2>5, <2>7, <4>1, Zenon DEF PutServed
    <3>4. lu = 0
      <4>1. rd + lu <= rd
        BY <2>5, <3>3, Zenon
      <4> QED  BY <2>6, <4>1, SMTT(30)
    <3>5. up = <<>>
      BY Zenon, <1>1, <3>4, Short
    <3> QED  BY Zenon, <2>5, <3>3, <3>5
  <2>8. CASE cl.op # "put"
    <3>1. z = PageUnits /\ Length(cl) = L * HeaderUnits
      BY Zenon, <1>1, <2>8, CallSizes
    <3>2. PICK r \in 0 .. Len(cl.ids) :
            \/ spc = "header" /\ rd = r * HeaderUnits + Len(sbuf) /\ said = r * PageUnits
            \/ said = r * PageUnits + sent /\ sent < PageUnits /\ r < Len(cl.ids)
      BY <2>5, <2>8, Zenon DEF GetServed
    <3>3. r \in Nat /\ r <= L
      BY <1>1, <3>2, SMTT(30)
    <3>4. PICK x \in Nat : x = r * PageUnits
      BY <1>0, <3>3, SMTT(30)
    <3>5. r = L
      <4>1. ASSUME r < L PROVE FALSE
        <5>1. r * PageUnits + PageUnits <= L * PageUnits
          BY <1>0, <3>3, <4>1, Less, SMTT(30)
        <5>2. x + PageUnits <= said
          BY <1>2, <2>4, <3>1, <3>4, <5>1, Zenon
        <5>3. said = x \/ (said = x + sent /\ sent < PageUnits)
          BY <3>2, <3>4, Zenon
        <5> QED  BY <1>0, <5>2, <5>3, SMTT(30)
      <4> QED  BY <3>3, <4>1, SMTT(30)
    <3>6. spc = "header" /\ rd = L * HeaderUnits + Len(sbuf)
      BY <1>1, <3>2, <3>5, SMTT(30)
    <3>7. rd = Length(cl) + ls
      BY <1>1, <3>1, <3>6, Zenon
    <3>8. lu = 0 /\ ls = 0
      <4>1. PICK m \in Nat : m = Length(cl)
        BY <2>5, Zenon
      <4>2. rd + lu <= m /\ rd = m + ls
        BY <2>5, <3>7, <4>1, Zenon
      <4>3. (m + ls) + lu <= m
        BY <4>2, Zenon
      <4> QED  BY <4>3, SMTT(30)
    <3>9. up = <<>> /\ sbuf = <<>>
      BY Zenon, <1>1, <3>8, Short
    <3> QED  BY Zenon, <2>5, <3>6, <3>9
  <2> QED  BY Zenon, <2>7, <2>8
<1> QED  BY <1>6, <1>7, <1>8, <1>9

\* EndCall leaves no call.
LEMMA IdleCalling ==
    ASSUME cpc' = "idle", iov' = <<>>, buf' = <<>>, bufs' = <<>>
    PROVE  NoCall \in Calls /\ Calling(NoCall)'
<1>1. NoCall \in Calls
  BY Zenon DEF Calls
<1>2. Size(NoCall) \in Nat \ {0} /\ Len(<<>>) = 0 /\ <<>> \in Seq(Unit)
      /\ <<>> \in Seq(Seq(Unit))
  BY <1>1, CallSizes, SMTT(30)
<1>3. Len(buf') < Size(NoCall) /\ \A i \in 1 .. Len(bufs') : FALSE
  BY <1>2
<1>4. Size(NoCall)' = Size(NoCall) /\ NoCall' = NoCall
  BY Zenon DEF Size, NoCall
<1> QED  BY Zenon, <1>1, <1>2, <1>3, <1>4 DEF Calling

\* A call about to return is on a connection that never failed.
LEMMA Returning ==
    ASSUME IInv, cpc = "return"
    PROVE  \E cl \in Calls :
              /\ cl = call /\ cl # NoCall /\ ~dead /\ Live(cl) /\ Calling(cl)
              /\ Len(bufs) = Len(cl.ids)
              /\ down = <<>> /\ owed = {} /\ bufs # <<>>
              /\ spc # "exit" => spc = "header" /\ up = <<>> /\ sbuf = <<>> /\ sent = 0
<1>1. Wire /\ (dead => Dead)
  BY Zenon DEF IInv
<1>2. PICK cl \in Calls : cl = call /\ Calling(cl) /\ (~dead => Live(cl))
  BY Zenon DEF IInv
<1>3. up \in Seq(Unit) /\ down \in Seq(Unit) /\ sbuf \in Seq(Unit) /\ sent \in Nat
  BY Zenon, <1>1 DEF Wire
<1>4. /\ buf \in Seq(Unit) /\ bufs \in Seq(Seq(Unit)) /\ Len(bufs) = Len(cl.ids)
      /\ cl # NoCall
  BY <1>2 DEF Calling
<1>5. Len(bufs) \in Nat \ {0}
  BY Zenon, <1>4, InCall
<1>6. bufs # <<>>
  BY <1>5
<1>7. ~dead /\ Live(cl)
  <2>1. ~Dead
    BY <1>6 DEF Dead
  <2> QED  BY <1>1, <1>2, <2>1, Zenon
<1>8. /\ down = <<>> /\ owed = {}
      /\ spc # "exit" => spc = "header" /\ up = <<>> /\ sbuf = <<>> /\ sent = 0
  BY <1>3, <1>4, <1>7, Complete
<1> QED  BY <1>2, <1>4, <1>6, <1>7, <1>8, Zenon

\* A call that has all its replies returns 0: what a PUT receives is an ACK,
\* so the comparison of rsp.op in dsm_rpc_put never fails.
LEMMA ReturnOkEnds ==
    ASSUME IInv, ReturnOk
    PROVE  /\ call.op = "get" => EndCall("ok", bufs)
           /\ call.op # "get" => call.op = "put" /\ EndCall("ok", <<>>)
<1>1. cpc = "return"
  BY DEF ReturnOk
<1>2. PICK cl \in Calls : /\ cl = call /\ cl # NoCall /\ Live(cl) /\ bufs # <<>>
                          /\ Len(bufs) = Len(cl.ids)
  BY <1>1, Returning, Zenon
<1>3. CASE call.op = "get"
  BY <1>3, Zenon DEF ReturnOk
<1>4. CASE call.op # "get"
  <2>1. cl.op = "put" /\ call.op = "put"
    BY Zenon, <1>2, <1>4, InCall
  <2>2. cl.ids[1] \in Page /\ Len(bufs) = 1
    BY <1>2, <2>1, CallTypes, Zenon
  <2>3. bufs[1] = Header("ack", cl.ids[1])
    <3>1. 1 \in 1 .. 1
      OBVIOUS
    <3>2. 1 \in 1 .. Len(bufs)
      BY <2>2, <3>1, Zenon
    <3> QED  BY <1>2, <2>1, <3>2, Zenon DEF Live, Incoming
  <2>4. Header("ack", cl.ids[1])[1] = <<"ack", cl.ids[1], 1>>
    BY <2>2, AckSpelled, Zenon
  <2>5. <<"ack", cl.ids[1], 1>>[1] = "ack"
    BY Zenon
  <2>6. bufs[1][1][1] = "ack"
    BY <2>3, <2>4, <2>5, Zenon
  <2> QED  BY <1>4, <2>1, <2>6, Zenon DEF ReturnOk
<1> QED  BY <1>3, <1>4

\* A successful return keeps the invariant.
LEMMA ReturnOkKeeps ==
    ASSUME IInv, ReturnOk
    PROVE  IInv'
<1>1. cpc = "return" /\ link' = link /\ up' = up /\ down' = down
  BY Zenon DEF ReturnOk, streams
<1>2. PICK cl \in Calls :
         /\ ~dead /\ down = <<>> /\ owed = {}
         /\ spc # "exit" => spc = "header" /\ up = <<>> /\ sbuf = <<>> /\ sent = 0
  BY <1>1, Returning, Zenon
<1>3. /\ cpc' = "idle" /\ call' = NoCall /\ iov' = <<>> /\ buf' = <<>> /\ bufs' = <<>>
      /\ dead' = (dead \/ "ok" = "failed")
      /\ spc' = spc /\ req' = req /\ sbuf' = sbuf /\ sent' = sent /\ storage' = storage
      /\ owed' = owed
  BY ReturnOkEnds, Zenon DEF EndCall, server
<1>4. ~dead' /\ dead' \in BOOLEAN
  <2>1. "ok" # "failed"
    OBVIOUS
  <2> QED  BY <1>2, <1>3, <2>1, Zenon
<1>5. Wire'
  <2>1. Wire
    BY Zenon DEF IInv
  <2>2. cpc' \in {"idle", "send", "sendv", "recv", "return", "killed"}
    BY <1>3
  <2> QED  BY <1>1, <1>3, <1>4, <2>1, <2>2, Zenon DEF Wire
<1>6. NoCall \in Calls /\ Calling(NoCall)'
  BY <1>3, IdleCalling
<1>7. Live(NoCall)'
  <2>1. PICK cn \in Calls : cn = NoCall
    BY <1>6, Zenon
  <2>2. Zero \in Value /\ cn.op # "put" /\ Length(cn) = 0
    <3>1. cn.op = "none" /\ cn = NoCall
      BY Zenon, <2>1 DEF NoCall
    <3> QED  BY Zenon, <3>1, RpcAssumption, CallSizes
  <2>3. Lined(<<>>, cn, Zero, 0)
    BY <2>2, LinedEmpty
  <2>4. Lined(iov', cn, Zero, 0)
    BY <1>3, <2>3, Zenon
  <2>5. Lined(iov, cn, Zero, 0)'
    BY <2>4, Zenon DEF Lined, Length, Follows, Asked
  <2>6. /\ down' = <<>> /\ owed' = {}
        /\ spc' # "exit" => spc' = "header" /\ up' = <<>> /\ sbuf' = <<>> /\ sent' = 0
    BY <1>1, <1>2, <1>3, Zenon
  <2>7. Live(cn)'
    BY <1>3, <2>2, <2>5, <2>6, Began, Zenon
  <2> QED  BY <2>1, <2>7, Zenon
<1> QED  BY <1>3, <1>4, <1>5, <1>6, <1>7, Zenon DEF IInv

\* The server's place in the current call.
LEMMA LiveLeft ==
    ASSUME NEW cl \in Calls, Live(cl), spc # "exit"
    PROVE  Left
<1>1. PICK v \in Value, rd \in 0 .. Length(cl), said \in 0 .. Due(cl), out \in 0 .. Length(cl) :
            Talking(cl, v, rd, said, out)
  BY Zenon DEF Live
<1>2. Serving(cl, v, rd, said)
  BY <1>1, Zenon DEF Talking
<1> QED  BY <1>2, Zenon DEF Left

\* A failed return keeps the invariant; from here on the connection is dead
\* and the server may still work on what the call left behind.
LEMMA ReturnFailKeeps ==
    ASSUME IInv, ReturnFail
    PROVE  IInv'
<1>1. Wire /\ (dead => Dead)
  BY Zenon DEF IInv
<1>2. PICK cl \in Calls : cl = call /\ Calling(cl) /\ (~dead => Live(cl))
  BY Zenon DEF IInv
<1>3. /\ cpc' = "idle" /\ call' = NoCall /\ iov' = <<>> /\ buf' = <<>> /\ bufs' = <<>>
      /\ dead' = (dead \/ "failed" = "failed")
      /\ spc' = spc /\ req' = req /\ sbuf' = sbuf /\ sent' = sent /\ storage' = storage
      /\ owed' = owed /\ link' = link /\ up' = up /\ down' = down
  BY Zenon DEF ReturnFail, EndCall, server, streams
<1>4. dead' /\ dead' \in BOOLEAN
  BY <1>3, Zenon
<1>5. Wire'
  <2>1. cpc' \in {"idle", "send", "sendv", "recv", "return", "killed"}
    BY <1>3
  <2> QED  BY <1>1, <1>3, <1>4, <2>1, Zenon DEF Wire
<1>6. NoCall \in Calls /\ Calling(NoCall)'
  BY Zenon, <1>3, IdleCalling
<1>7. Dead'
  <2>1. link' # "up" /\ (down' = <<>> \/ (link' = "reset" /\ cpc' \notin {"recv", "return"}))
    BY Zenon, <1>3 DEF ReturnFail
  <2>2. ASSUME spc' # "exit" PROVE Left'
    <3>1. CASE ~dead
      <4>1. Left
        BY <1>2, <1>3, <2>2, <3>1, LiveLeft, Zenon
      <4>2. up \in Seq(Unit)
        BY <1>1, Zenon DEF Wire
      <4> QED  BY <1>3, <4>1, <4>2, LeftSame, Zenon
    <3>2. CASE dead
      <4>1. Left
        BY <1>1, <1>3, <2>2, <3>2, Zenon DEF Dead
      <4>2. up \in Seq(Unit)
        BY <1>1, Zenon DEF Wire
      <4> QED  BY <1>3, <4>1, <4>2, LeftSame, Zenon
    <3> QED  BY <3>1, <3>2, Zenon
  <2> QED  BY <1>3, <2>1, <2>2, Zenon DEF Dead
<1> QED  BY <1>3, <1>4, <1>5, <1>6, <1>7, Zenon DEF IInv

\* SIGPIPE in writev keeps the invariant.
LEMMA KilledKeeps ==
    ASSUME IInv, Killed
    PROVE  IInv'
<1>1. Wire /\ (dead => Dead)
  BY Zenon DEF IInv
<1>2. PICK cl \in Calls : cl = call /\ Calling(cl) /\ (~dead => Live(cl))
  BY Zenon DEF IInv
<1>3. /\ cpc = "sendv" /\ link = "reset" /\ cpc' = "killed" /\ call' = call /\ iov' = iov
      /\ buf' = buf /\ bufs' = bufs /\ dead' = dead
      /\ spc' = spc /\ req' = req /\ sbuf' = sbuf /\ sent' = sent /\ storage' = storage
      /\ owed' = owed /\ link' = link /\ up' = up /\ down' = down
  BY Zenon DEF Killed, server, streams
<1>4. up \in Seq(Unit)
  BY <1>1, Zenon DEF Wire
<1>5. Wire'
  <2>1. cpc' \in {"idle", "send", "sendv", "recv", "return", "killed"}
    BY <1>3
  <2> QED  BY <1>1, <1>3, <2>1, Zenon DEF Wire
<1>6. Calling(cl)'
  <2>1. cl # NoCall /\ bufs = <<>> /\ buf = <<>>
    BY Zenon, <1>2, <1>3 DEF Calling
  <2> QED  BY Zenon, <1>2, <1>3, <2>1 DEF Calling, Size
<1>7. (dead => Dead)'
  <2>1. ASSUME dead PROVE Dead'
    <3>1. spc' # "exit" => Left'
      BY <1>1, <1>3, <1>4, <2>1, LeftSame, Zenon DEF Dead
    <3>2. link' # "up" /\ cpc' \notin {"recv", "return"}
      BY <1>3
    <3> QED  BY <1>1, <1>3, <2>1, <3>1, <3>2, Zenon DEF Dead
  <2> QED  BY <1>3, <2>1, Zenon
<1>8. (~dead => Live(cl))'
  <2>1. ASSUME ~dead PROVE Live(cl)'
    <3>1. Live(cl)
      BY <1>2, <2>1, Zenon
    <3>2. Incoming(cl)' /\ Received(cl)' = Received(cl)
      BY <1>3, <3>1, IncomingSame, Zenon DEF Live
    <3>3. Owing(cl)'
      BY <1>3, <3>1, Zenon DEF Live, Owing
    <3>4. Received(cl)' + Len(down') = Received(cl) + Len(down)
      BY <1>3, <3>2, Zenon
    <3> QED  BY <1>3, <1>4, <3>1, <3>2, <3>3, <3>4, LiveServedOn, Zenon
  <2> QED  BY <1>3, <2>1, Zenon
<1> QED  BY <1>2, <1>3, <1>5, <1>6, <1>7, <1>8, Zenon DEF IInv

-----------------------------------------------------------------------------
(* The steps of the server and of the network keep the invariant *)

\* The phase of the call is the client's alone.
LEMMA CallingSame ==
    ASSUME UNCHANGED <<cpc, iov, buf, bufs>>, NEW cl, Calling(cl)
    PROVE  Calling(cl)'
  BY Zenon DEF Calling, Size, NoCall

\* A step of the server that takes what is in flight keeps the current call.
LEMMA LiveServed ==
    ASSUME UNCHANGED <<link, down, iov, buf, bufs>>, owed' = owed \/ owed' = {},
           NEW cl \in Calls, cl.op = "put" \/ storage' = storage, Live(cl),
           NEW v \in Value, NEW rd, NEW said \in 0 .. Due(cl), NEW out \in 0 .. Length(cl),
           NEW r2 \in 0 .. Length(cl),
           Lined(iov, cl, v, out), Coupled(cl, rd, said, out),
           Serving(cl, v, r2, said)', r2 + Len(up') = rd + Len(up)
    PROVE  Live(cl)'
<1>1. Incoming(cl)' /\ Received(cl)' = Received(cl)
  BY IncomingSame, Zenon DEF Live
<1>2. Owing(cl)'
  BY Zenon DEF Live, Owing
<1>3. Lined(iov, cl, v, out)'
  BY LinedSame, Zenon
<1>4. Coupled(cl, r2, said, out)'
  BY <1>1, Zenon DEF Coupled
<1>5. Talking(cl, v, r2, said, out)'
  BY <1>3, <1>4, Zenon DEF Talking
<1> QED  BY <1>1, <1>2, <1>5, Zenon DEF Live, Length, Due, Size

\* The end of the thread or of the server keeps the current call.
LEMMA LiveEnded ==
    ASSUME iov' = iov, NEW cl \in Calls, Live(cl), Incoming(cl)', Owing(cl)', spc' = "exit"
    PROVE  Live(cl)'
<1>1. PICK v \in Value, rd \in 0 .. Length(cl), said \in 0 .. Due(cl), out \in 0 .. Length(cl) :
            Talking(cl, v, rd, said, out)
  BY Zenon DEF Live
<1>2. Lined(iov, cl, v, out)'
  BY <1>1, LinedSame, Zenon DEF Talking
<1>3. Talking(cl, v, rd, said, out)'
  BY <1>2, Zenon DEF Talking
<1> QED  BY <1>3, Zenon DEF Live, Length, Due, Size

\* The server goes on with what a call left behind.
LEMMA LeftServed ==
    ASSUME NEW cl \in Calls, NEW v \in Value, NEW r2 \in 0 .. Length(cl),
           NEW said \in 0 .. Due(cl), Serving(cl, v, r2, said)'
    PROVE  Left'
  BY Zenon DEF Left, Length, Due, Size

\* The room left towards the server is a number of units.
LEMMA UpNat == UpRoom \in Nat
  BY RpcAssumption

\* A recv of a header by the server keeps the invariant.
LEMMA ServeHeaderKeeps ==
    ASSUME IInv, ServeHeader
    PROVE  IInv'
<1>1. Wire /\ (dead => Dead)
  BY Zenon DEF IInv
<1>2. PICK cl \in Calls : cl = call /\ Calling(cl) /\ (~dead => Live(cl))
  BY Zenon DEF IInv
<1>3. /\ spc = "header" /\ cpc' = cpc /\ call' = call /\ iov' = iov
      /\ buf' = buf /\ bufs' = bufs /\ dead' = dead
      /\ sent' = sent /\ storage' = storage
      /\ owed' = owed /\ link' = link /\ down' = down
  BY Zenon DEF ServeHeader, client
<1>4. up \in Seq(Unit) /\ sbuf \in Seq(Unit)
  BY <1>1, Zenon DEF Wire
<1>5. spc # "exit" /\ link' # "fin"
  BY Zenon, <1>1, <1>3 DEF Wire
<1>6. PICK c \in Calls, v \in Value :
        \E rd \in 0 .. Length(c), said \in 0 .. Due(c) :
            /\ Serving(c, v, rd, said)
            /\ ~dead => /\ c = cl
                        /\ \E out \in 0 .. Length(cl) :
                                Lined(iov, cl, v, out) /\ Coupled(cl, rd, said, out)
  <2>1. CASE dead
    BY <1>1, <1>5, <2>1, Zenon DEF Dead, Left
  <2>2. CASE ~dead
    BY <1>2, <1>5, <2>2, Zenon DEF Live, Talking
  <2> QED  BY <2>1, <2>2, Zenon
<1>7. PICK rd \in 0 .. Length(c), said \in 0 .. Due(c) :
            /\ Serving(c, v, rd, said)
            /\ ~dead => /\ c = cl
                        /\ \E out \in 0 .. Length(cl) :
                                Lined(iov, cl, v, out) /\ Coupled(cl, rd, said, out)
  BY <1>6, Zenon
<1>8. rd \in Nat
  BY Positions, Zenon
<1>9. /\ up' \in Seq(Unit) /\ Len(up') <= Len(up) /\ sbuf' \in Seq(Unit)
      /\ spc' \in {"header", "page", "reply"}
      /\ \E r2 \in 0 .. Length(c) :
            Serving(c, v, r2, said)' /\ r2 + Len(up)' = rd + Len(up)
  BY Zenon, <1>4, <1>7, <1>8, HeaderServed
<1>10. PICK r2 \in 0 .. Length(c) :
            Serving(c, v, r2, said)' /\ r2 + Len(up)' = rd + Len(up)
  BY <1>9, Zenon
<1>11. Wire'
  <2>1. Len(up') <= UpRoom
    <3>1. UpRoom \in Nat /\ Len(up) <= UpRoom /\ Len(up) \in Nat /\ Len(up') \in Nat
      BY <1>1, <1>4, <1>9, UpNat, Short, Zenon DEF Wire
    <3>2. Len(up') <= Len(up)
      BY <1>9, Zenon
    <3> QED  BY <3>1, <3>2
  <2>2. spc' \in {"header", "page", "reply", "exit"} /\ spc' # "exit"
    BY <1>9
  <2> QED  BY <1>1, <1>3, <1>5, <1>9, <2>1, <2>2, Zenon DEF Wire
<1>12. Calling(cl)'
  BY <1>2, <1>3, CallingSame, Zenon
<1>13. (dead => Dead)'
  <2>1. Left'
    BY <1>10, LeftServed, Zenon
  <2> QED  BY <1>1, <1>3, <2>1, Zenon DEF Dead
<1>14. (~dead => Live(cl))'
  <2>1. ASSUME ~dead PROVE Live(cl)'
    <3>1. c = cl /\ Live(cl)
      BY <1>2, <1>7, <2>1, Zenon
    <3>2. PICK out \in 0 .. Length(cl) : Lined(iov, cl, v, out) /\ Coupled(cl, rd, said, out)
      BY <1>7, <2>1, Zenon
    <3>3. Live(c)'
      BY <1>3, <1>10, <3>1, <3>2, LiveServed, Zenon
    <3> QED  BY <3>1, <3>3, Zenon
  <2> QED  BY <1>3, <2>1, Zenon
<1> QED  BY <1>2, <1>3, <1>11, <1>12, <1>13, <1>14, Zenon DEF IInv

\* A recv of a page by the server, and the copy to g_storage, keep it.
LEMMA ServePageKeeps ==
    ASSUME IInv, ServePage
    PROVE  IInv'
<1>1. Wire /\ (dead => Dead)
  BY Zenon DEF IInv
<1>2. PICK cl \in Calls : cl = call /\ Calling(cl) /\ (~dead => Live(cl))
  BY Zenon DEF IInv
<1>3. /\ spc = "page" /\ cpc' = cpc /\ call' = call /\ iov' = iov
      /\ buf' = buf /\ bufs' = bufs /\ dead' = dead
      /\ sent' = sent /\ req' = req /\ link' = link /\ down' = down
  BY Zenon DEF ServePage, client
<1>4. up \in Seq(Unit) /\ sbuf \in Seq(Unit)
  BY <1>1, Zenon DEF Wire
<1>5. spc # "exit" /\ link' # "fin"
  BY Zenon, <1>1, <1>3 DEF Wire
<1>6. PICK c \in Calls, v \in Value :
        \E rd \in 0 .. Length(c), said \in 0 .. Due(c) :
            /\ Serving(c, v, rd, said)
            /\ ~dead => /\ c = cl
                        /\ \E out \in 0 .. Length(cl) :
                                Lined(iov, cl, v, out) /\ Coupled(cl, rd, said, out)
  <2>1. CASE dead
    BY <1>1, <1>5, <2>1, Zenon DEF Dead, Left
  <2>2. CASE ~dead
    BY <1>2, <1>5, <2>2, Zenon DEF Live, Talking
  <2> QED  BY <2>1, <2>2, Zenon
<1>7. PICK rd \in 0 .. Length(c), said \in 0 .. Due(c) :
            /\ Serving(c, v, rd, said)
            /\ ~dead => /\ c = cl
                        /\ \E out \in 0 .. Length(cl) :
                                Lined(iov, cl, v, out) /\ Coupled(cl, rd, said, out)
  BY <1>6, Zenon
<1>8. rd \in Nat
  BY Positions, Zenon
<1>9. /\ up' \in Seq(Unit) /\ Len(up') <= Len(up) /\ sbuf' \in Seq(Unit)
      /\ spc' \in {"page", "reply", "exit"} /\ (spc' = "exit" => sbuf' = <<>>)
      /\ c.op = "put" /\ owed = {Carried(c, v)}
      /\ \/ storage' = storage /\ owed' = owed
         \/ /\ storage' = [storage EXCEPT ![c.ids[1]] = Data(c.ids[1], v)]
            /\ owed' = {}
      /\ spc' # "exit" =>
            \E r2 \in 0 .. Length(c) :
                Serving(c, v, r2, said)' /\ r2 + Len(up)' = rd + Len(up)
  <2>1. ServePage
    OBVIOUS
  <2>2. PageTaken(c, v, rd, said)
    BY <1>4, <1>7, <1>8, <2>1, PageServed, Zenon
  <2> QED  BY <2>2, Zenon DEF PageTaken
<1>10. Wire'
  <2>1. Len(up') <= UpRoom
    <3>1. UpRoom \in Nat /\ Len(up) <= UpRoom /\ Len(up) \in Nat /\ Len(up') \in Nat
      BY <1>1, <1>4, <1>9, UpNat, Short, Zenon DEF Wire
    <3>2. Len(up') <= Len(up)
      BY <1>9, Zenon
    <3> QED  BY <3>1, <3>2
  <2>2. spc' \in {"header", "page", "reply", "exit"}
    BY Zenon, <1>9
  <2>3. storage' \in [Page -> Contents]
    <3>1. c.ids[1] \in Page
      BY Zenon, <1>9, CallTypes
    <3>2. Data(c.ids[1], v) \in Contents
      BY <3>1 DEF Contents
    <3>3. storage \in [Page -> Contents]
      BY <1>1, Zenon DEF Wire
    <3> QED  BY Zenon, <1>9, <3>1, <3>2, <3>3
  <2> QED  BY <1>1, <1>3, <1>5, <1>9, <2>1, <2>2, <2>3, Zenon DEF Wire
<1>11. Calling(cl)'
  BY <1>2, <1>3, CallingSame, Zenon
<1>12. (dead => Dead)'
  <2>1. ASSUME spc' # "exit" PROVE Left'
    <3>1. PICK r2 \in 0 .. Length(c) : Serving(c, v, r2, said)'
      BY <1>9, <2>1, Zenon
    <3> QED  BY <3>1, LeftServed, Zenon
  <2> QED  BY <1>1, <1>3, <2>1, Zenon DEF Dead
<1>13. (~dead => Live(cl))'
  <2>1. ASSUME ~dead PROVE Live(cl)'
    <3>1. c = cl /\ Live(c)
      BY <1>2, <1>7, <2>1, Zenon
    <3>2. PICK out \in 0 .. Length(cl) : Lined(iov, cl, v, out) /\ Coupled(cl, rd, said, out)
      BY <1>7, <2>1, Zenon
    <3>3. CASE spc' = "exit"
      <4>1. Incoming(c)'
        BY <1>3, <1>9, <3>1, IncomingSame, Zenon DEF Live
      <4>2. Owing(c)'
        BY <1>3, <1>9, <3>1, Zenon DEF Live, Owing
      <4>3. Live(c)'
        BY <1>3, <3>1, <3>3, <4>1, <4>2, LiveEnded, Zenon
      <4> QED  BY <3>1, <4>3, Zenon
    <3>4. CASE spc' # "exit"
      <4>1. PICK r2 \in 0 .. Length(c) :
                Serving(c, v, r2, said)' /\ r2 + Len(up)' = rd + Len(up)
        BY <1>9, <3>4, Zenon
      <4>2. owed' = owed \/ owed' = {}
        BY <1>9, Zenon
      <4>3. Live(c)'
        BY <1>3, <1>9, <3>1, <3>2, <4>1, <4>2, LiveServed, Zenon
      <4> QED  BY <3>1, <4>3, Zenon
    <3> QED  BY <3>3, <3>4, Zenon
  <2> QED  BY <1>3, <2>1, Zenon
<1> QED  BY <1>2, <1>3, <1>10, <1>11, <1>12, <1>13, Zenon DEF IInv

\* A send of the reply keeps it; it only happens on a connection on which no
\* call has failed.
LEMMA ServeReplyKeeps ==
    ASSUME IInv, ServeReply
    PROVE  IInv'
<1>1. Wire /\ (dead => Dead)
  BY Zenon DEF IInv
<1>2. PICK cl \in Calls : cl = call /\ Calling(cl) /\ (~dead => Live(cl))
  BY Zenon DEF IInv
<1>3. /\ spc = "reply" /\ link = "up" /\ cpc' = cpc /\ call' = call /\ iov' = iov
      /\ buf' = buf /\ bufs' = bufs /\ dead' = dead
      /\ up' = up /\ req' = req /\ sbuf' = sbuf /\ storage' = storage
      /\ owed' = owed /\ link' = link
  BY Zenon DEF ServeReply, client
<1>4. /\ down \in Seq(Unit) /\ sbuf \in Seq(Unit) /\ sent \in Nat
      /\ storage \in [Page -> Contents] /\ Len(down) <= DownRoom
  BY <1>1, Zenon DEF Wire
<1>5. spc # "exit" /\ link' # "fin"
  BY <1>3
<1>6. ~dead /\ ~dead' /\ Live(cl)
  <2>1. ~Dead
    BY <1>3 DEF Dead
  <2> QED  BY <1>1, <1>2, <1>3, <2>1, Zenon
<1>7. PICK v \in Value, rd \in 0 .. Length(cl), said \in 0 .. Due(cl), out \in 0 .. Length(cl) :
            /\ Serving(cl, v, rd, said) /\ Coupled(cl, rd, said, out)
            /\ Lined(iov, cl, v, out)
  BY <1>5, <1>6, Zenon DEF Live, Talking
<1>8. rd \in Nat /\ said \in Nat
  BY Positions, Zenon
<1>9. /\ spc' \in {"header", "reply"} /\ sent' \in Nat
      /\ cl.op = "put" => owed = {}
      /\ \E n \in Nat, u \in Seq(Unit) :
            /\ n <= DownRoom - Len(down) /\ Len(u) = n /\ down' = down \o u
            /\ Follows(u, Answer(cl), said)
            /\ said + n \in 0 .. Due(cl)
            /\ Serving(cl, v, rd, said + n)'
  BY Zenon, <1>4, <1>7, <1>8, ReplyServed
<1>10. PICK n \in Nat, u \in Seq(Unit) :
            /\ n <= DownRoom - Len(down) /\ Len(u) = n /\ down' = down \o u
            /\ Follows(u, Answer(cl), said)
            /\ said + n \in 0 .. Due(cl)
            /\ Serving(cl, v, rd, said + n)'
  BY <1>9, Zenon
<1>11. down' \in Seq(Unit) /\ Len(down') = Len(down) + n /\ Len(down) \in Nat
  <2>1. down \o u \in Seq(Unit) /\ Len(down \o u) = Len(down) + Len(u)
    BY Zenon, <1>4, Joined
  <2>2. Len(down) \in Nat
    BY <1>4, Short
  <2> QED  BY <1>10, <2>1, <2>2, Zenon
<1>12. Wire'
  <2>1. Len(down') <= DownRoom
    <3>1. DownRoom \in Nat
      BY RpcAssumption
    <3> QED  BY <1>10, <1>11, <3>1, SMTT(30)
  <2>2. spc' \in {"header", "page", "reply", "exit"} /\ spc' # "exit"
    BY Zenon, <1>9
  <2> QED  BY <1>1, <1>3, <1>5, <1>9, <1>11, <2>1, <2>2, Zenon DEF Wire
<1>13. Calling(cl)'
  BY <1>2, <1>3, CallingSame, Zenon
<1>14. Live(cl)'
  <2>1. buf \in Seq(Unit) /\ bufs \in Seq(Seq(Unit))
    BY <1>2, Zenon DEF Calling
  <2>2. Received(cl) \in Nat /\ Due(cl) \in Nat
    BY Zenon, <2>1, ReceivedNat, CallSizes
  <2>3. Received(cl) + Len(down) = said
    BY <1>3, <1>7, Zenon DEF Coupled
  <2>4. Follows(u, Answer(cl), Received(cl) + Len(down))
    BY <1>10, <2>3, Zenon
  <2>5. Received(cl) + Len(down) + Len(u) = said + n
    BY <1>10, <2>3, Zenon
  <2>6. said + n <= Due(cl)
    BY <1>8, <1>10, <2>2, SMTT(30)
  <2>7. Received(cl) + Len(down) + Len(u) <= Due(cl)
    BY <2>5, <2>6, Zenon
  <2>8. Incoming(cl)' /\ Received(cl)' = Received(cl)
    BY <1>3, <1>4, <1>6, <1>10, <2>1, <2>4, <2>7, IncomingMore, Zenon DEF Live
  <2>9. Owing(cl)'
    BY <1>3, <1>6, <1>9, Zenon DEF Live, Owing
  <2>10. Received(cl)' + Len(down') = said + n
    <3>1. Received(cl) + (Len(down) + n) = said + n
      BY <1>8, <1>11, <2>2, <2>3, SMTT(30)
    <3> QED  BY <1>11, <2>8, <3>1, Zenon
  <2>11. PICK s2 \in 0 .. Due(cl) : s2 = said + n
    BY <1>10, Zenon
  <2>12. Serving(cl, v, rd, s2)'
    BY <1>10, <2>11, Zenon
  <2>13. Coupled(cl, rd, s2, out)'
    <3>1. Received(cl)' + Len(down') <= s2
      BY <1>8, <2>10, <2>11
    <3> QED  BY <1>3, <1>7, <2>10, <2>11, <3>1, Zenon DEF Coupled
  <2>14. Lined(iov, cl, v, out)'
    BY <1>3, <1>7, LinedSame, Zenon
  <2>15. Talking(cl, v, rd, s2, out)'
    BY <2>12, <2>13, <2>14, Zenon DEF Talking
  <2> QED  BY <2>8, <2>9, <2>15, Zenon DEF Live, Length, Due, Size
<1> QED  BY <1>2, <1>3, <1>6, <1>12, <1>13, <1>14, Zenon DEF IInv

\* The end of the server's thread keeps it.
LEMMA ServeEndsKeeps ==
    ASSUME IInv, ServeEnds
    PROVE  IInv'
<1>1. Wire /\ (dead => Dead)
  BY Zenon DEF IInv
<1>2. PICK cl \in Calls : cl = call /\ Calling(cl) /\ (~dead => Live(cl))
  BY Zenon DEF IInv
<1>3. /\ cpc' = cpc /\ call' = call /\ iov' = iov
      /\ buf' = buf /\ bufs' = bufs /\ dead' = dead
      /\ link' = link /\ up' = up /\ down' = down /\ storage' = storage /\ owed' = owed
      /\ spc' = "exit" /\ sbuf' = <<>> /\ sent' = 0
  BY Zenon DEF ServeEnds, ThreadExit, client, streams
<1>4. Wire'
  <2>1. sbuf' \in Seq(Unit) /\ sent' \in Nat /\ spc' \in {"header", "page", "reply", "exit"}
    BY <1>3
  <2> QED  BY <1>1, <1>3, <2>1, Zenon DEF Wire
<1>5. Calling(cl)'
  BY <1>2, <1>3, CallingSame, Zenon
<1>6. (dead => Dead)'
  BY <1>1, <1>3, Zenon DEF Dead
<1>7. (~dead => Live(cl))'
  <2>1. ASSUME ~dead PROVE Live(cl)'
    <3>1. Live(cl)
      BY <1>2, <2>1, Zenon
    <3>2. Incoming(cl)' /\ Owing(cl)'
      BY <1>3, <3>1, IncomingSame, Zenon DEF Live, Owing
    <3> QED  BY <1>3, <3>1, <3>2, LiveEnded, Zenon
  <2> QED  BY <1>3, <2>1, Zenon
<1> QED  BY <1>2, <1>3, <1>4, <1>5, <1>6, <1>7, Zenon DEF IInv

\* The close by the accept loop keeps it.
LEMMA ReapKeeps ==
    ASSUME IInv, Reap
    PROVE  IInv'
<1>1. Wire /\ (dead => Dead)
  BY Zenon DEF IInv
<1>2. PICK cl \in Calls : cl = call /\ Calling(cl) /\ (~dead => Live(cl))
  BY Zenon DEF IInv
<1>3. /\ cpc' = cpc /\ call' = call /\ iov' = iov
      /\ buf' = buf /\ bufs' = bufs /\ dead' = dead
      /\ link = "up" /\ link' = "fin" /\ up' = <<>> /\ down' = down
      /\ storage' = storage /\ owed' = owed
      /\ spc = "exit" /\ spc' = spc /\ sbuf' = sbuf /\ sent' = sent
  BY Zenon DEF Reap, client, server
<1>4. Wire'
  <2>1. up' \in Seq(Unit) /\ Len(up') = 0 /\ 0 <= UpRoom /\ link' \in {"up", "fin", "reset"}
    BY <1>3, RpcAssumption, SMTT(30)
  <2> QED  BY <1>1, <1>3, <2>1, Zenon DEF Wire
<1>5. Calling(cl)'
  BY <1>2, <1>3, CallingSame, Zenon
<1>6. ~dead /\ Live(cl) /\ ~dead'
  BY <1>1, <1>2, <1>3, Zenon DEF Dead
<1>7. Live(cl)'
  <2>1. Incoming(cl)' /\ Owing(cl)'
    BY <1>3, <1>6, IncomingSame, Zenon DEF Live, Owing
  <2> QED  BY <1>3, <1>6, <2>1, LiveEnded, Zenon
<1> QED  BY <1>2, <1>3, <1>4, <1>5, <1>6, <1>7, Zenon DEF IInv

\* A stream that loses its end.
LEMMA CutStream ==
    ASSUME NEW s \in Seq(Unit), NEW n \in 0 .. Len(s)
    PROVE  /\ Take(s, n) \in Seq(Unit) /\ Len(Take(s, n)) = n /\ n <= Len(s)
           /\ s = <<>> => Take(s, n) = <<>>
<1>1. Take(s, n) \in Seq(Unit) /\ Len(Take(s, n)) = n
  BY Zenon, Taken
<1>2. n \in Nat /\ n <= Len(s) /\ Len(s) \in Nat
  BY Short
<1>3. s = <<>> => n = 0
  BY <1>2
<1> QED  BY <1>1, <1>2, <1>3, Short

\* The end of the server's process keeps it.
LEMMA ServerDiesKeeps ==
    ASSUME IInv, ServerDies
    PROVE  IInv'
<1>1. Wire /\ (dead => Dead)
  BY Zenon DEF IInv
<1>2. PICK cl \in Calls : cl = call /\ Calling(cl) /\ (~dead => Live(cl))
  BY Zenon DEF IInv
<1>3. /\ cpc' = cpc /\ call' = call /\ iov' = iov
      /\ buf' = buf /\ bufs' = bufs /\ dead' = dead
      /\ link = "up" /\ link' = "fin" /\ up' = <<>>
      /\ storage' = storage /\ owed' = owed
      /\ spc' = "exit" /\ sbuf' = <<>> /\ sent' = 0
  BY Zenon DEF ServerDies, ThreadExit, client
<1>4. PICK n \in 0 .. Len(down) : down' = Take(down, n)
  BY Zenon DEF ServerDies
<1>5. down \in Seq(Unit) /\ Len(down) <= DownRoom /\ Len(down) \in Nat /\ DownRoom \in Nat
  <2>1. down \in Seq(Unit) /\ Len(down) <= DownRoom
    BY <1>1, Zenon DEF Wire
  <2>2. Len(down) \in Nat
    BY <2>1, Short, Zenon
  <2>3. DownRoom \in Nat
    BY RpcAssumption
  <2> QED  BY <2>1, <2>2, <2>3, Zenon
<1>6. /\ down' \in Seq(Unit) /\ Len(down') = n /\ n <= Len(down)
      /\ down = <<>> => down' = <<>>
  BY <1>4, <1>5, CutStream
<1>7. Wire'
  <2>1. up' \in Seq(Unit) /\ Len(up') = 0 /\ 0 <= UpRoom /\ link' \in {"up", "fin", "reset"}
    BY <1>3, RpcAssumption
  <2>2. sbuf' \in Seq(Unit) /\ sent' \in Nat /\ spc' \in {"header", "page", "reply", "exit"}
    BY <1>3
  <2>3. Len(down') <= DownRoom
    BY <1>5, <1>6
  <2> QED  BY <1>1, <1>3, <1>6, <2>1, <2>2, <2>3, Zenon DEF Wire
<1>8. Calling(cl)'
  BY <1>2, <1>3, CallingSame, Zenon
<1>9. ~dead /\ Live(cl) /\ ~dead'
  BY <1>1, <1>2, <1>3, Zenon DEF Dead
<1>10. Live(cl)'
  <2>1. buf \in Seq(Unit) /\ bufs \in Seq(Seq(Unit))
    BY <1>2, Zenon DEF Calling
  <2>2. Incoming(cl)'
    BY <1>3, <1>4, <1>5, <1>9, <2>1, IncomingCut, Zenon DEF Live
  <2>3. Owing(cl)'
    BY <1>3, <1>6, <1>9, Zenon DEF Live, Owing
  <2> QED  BY <1>3, <1>9, <2>2, <2>3, LiveEnded, Zenon
<1> QED  BY <1>2, <1>3, <1>7, <1>8, <1>9, <1>10, Zenon DEF IInv

\* A broken connection keeps it, wherever both streams are cut.
LEMMA BreakKeeps ==
    ASSUME IInv, Break
    PROVE  IInv'
<1>1. Wire /\ (dead => Dead)
  BY Zenon DEF IInv
<1>2. PICK cl \in Calls : cl = call /\ Calling(cl) /\ (~dead => Live(cl))
  BY Zenon DEF IInv
<1>3. /\ cpc' = cpc /\ call' = call /\ iov' = iov
      /\ buf' = buf /\ bufs' = bufs /\ dead' = dead
      /\ link # "reset" /\ link' = "reset"
      /\ storage' = storage /\ owed' = owed
      /\ spc' = spc /\ req' = req /\ sbuf' = sbuf /\ sent' = sent
  BY Zenon DEF Break, client, server
<1>4. PICK n \in 0 .. Len(down) : down' = Take(down, n)
  BY Zenon DEF Break
<1>5. PICK m \in 0 .. Len(up) : up' = Take(up, m)
  BY Zenon DEF Break
<1>6. /\ down \in Seq(Unit) /\ Len(down) <= DownRoom /\ Len(down) \in Nat /\ DownRoom \in Nat
      /\ up \in Seq(Unit) /\ Len(up) <= UpRoom /\ Len(up) \in Nat /\ UpRoom \in Nat
  <2>1. DownRoom \in Nat /\ UpRoom \in Nat
    BY RpcAssumption
  <2> QED  BY <1>1, <2>1, Short, Zenon DEF Wire
<1>7. /\ down' \in Seq(Unit) /\ Len(down') = n /\ n <= Len(down)
      /\ down = <<>> => down' = <<>>
  BY <1>4, <1>6, CutStream
<1>8. up' \in Seq(Unit) /\ Len(up') = m /\ m <= Len(up)
  BY <1>5, <1>6, CutStream
<1>9. Wire'
  <2>1. Len(up') <= UpRoom /\ Len(down') <= DownRoom /\ link' \in {"up", "fin", "reset"}
        /\ link' # "fin"
    BY <1>3, <1>6, <1>7, <1>8, SMTT(30)
  <2> QED  BY <1>1, <1>3, <1>7, <1>8, <2>1, Zenon DEF Wire
<1>10. Calling(cl)'
  BY <1>2, <1>3, CallingSame, Zenon
<1>11. (dead => Dead)'
  <2>1. ASSUME dead PROVE Dead'
    <3>1. Dead
      BY <1>1, <2>1, Zenon
    <3>2. ASSUME spc' # "exit" PROVE Left'
      <4>1. PICK c \in Calls, v \in Value :
                \E rd \in 0 .. Length(c), said \in 0 .. Due(c) : Serving(c, v, rd, said)
        BY <1>3, <3>1, <3>2, Zenon DEF Dead, Left
      <4>2. PICK rd \in 0 .. Length(c), said \in 0 .. Due(c) : Serving(c, v, rd, said)
        BY <4>1, Zenon
      <4>3. rd \in Nat
        BY CallSizes
      <4>4. Serving(c, v, rd, said)'
        BY Zenon, <1>3, <1>5, <1>6, <4>2, <4>3, ServingCut
      <4> QED  BY <4>4, LeftServed, Zenon
    <3>3. link' # "up" /\ down' = <<>>
      BY <1>3, <1>7, <3>1 DEF Dead
    <3> QED  BY <1>3, <3>1, <3>2, <3>3, Zenon DEF Dead
  <2> QED  BY <1>3, <2>1, Zenon
<1>12. (~dead => Live(cl))'
  <2>1. ASSUME ~dead PROVE Live(cl)'
    <3>1. Live(cl) /\ buf \in Seq(Unit) /\ bufs \in Seq(Seq(Unit))
      BY <1>2, <2>1, Zenon DEF Calling
    <3>2. Incoming(cl)' /\ Received(cl)' = Received(cl)
      BY <1>3, <1>4, <1>6, <3>1, IncomingCut, Zenon DEF Live
    <3>3. Owing(cl)'
      BY <1>3, <1>7, <3>1, Zenon DEF Live, Owing
    <3>4. PICK v \in Value, rd \in 0 .. Length(cl), said \in 0 .. Due(cl),
               out \in 0 .. Length(cl) : Talking(cl, v, rd, said, out)
      BY <3>1, Zenon DEF Live
    <3>5. rd \in Nat /\ said \in Nat /\ out \in Nat
      BY Positions, Zenon
    <3>6. Lined(iov, cl, v, out)'
      BY <1>3, <3>4, LinedSame, Zenon DEF Talking
    <3>7. ASSUME spc' # "exit" PROVE Serving(cl, v, rd, said)' /\ Coupled(cl, rd, said, out)'
      <4>1. /\ Serving(cl, v, rd, said)
            /\ rd + Len(up) <= out /\ Received(cl) + Len(down) <= said
        BY <1>3, <3>4, <3>7, Zenon DEF Talking, Coupled
      <4>2. Serving(cl, v, rd, said)'
        BY Zenon, <1>3, <1>5, <1>6, <3>5, <4>1, ServingCut
      <4>3. rd + Len(up') <= out
        BY <1>6, <1>8, <3>5, <4>1
      <4>4. Received(cl) \in Nat
        BY <3>1, ReceivedNat
      <4>5. Received(cl) + Len(down') <= said
        BY <1>6, <1>7, <3>5, <4>1, <4>4, SMTT(30)
      <4>6. link' # "up"
        BY Zenon, <1>3
      <4>7. Coupled(cl, rd, said, out)'
        BY <3>2, <4>3, <4>5, <4>6, Zenon DEF Coupled
      <4> QED  BY <4>2, <4>7
    <3>8. Talking(cl, v, rd, said, out)'
      BY <3>6, <3>7, Zenon DEF Talking
    <3> QED  BY <3>2, <3>3, <3>8, Zenon DEF Live, Length, Due, Size
  <2> QED  BY <1>3, <2>1, Zenon
<1> QED  BY <1>2, <1>3, <1>9, <1>10, <1>11, <1>12, Zenon DEF IInv

\* A step that changes nothing keeps it.
LEMMA StutterKeeps ==
    ASSUME IInv, UNCHANGED vars
    PROVE  IInv'
<1>1. Wire /\ (dead => Dead)
  BY Zenon DEF IInv
<1>2. PICK cl \in Calls : cl = call /\ Calling(cl) /\ (~dead => Live(cl))
  BY Zenon DEF IInv
<1>3. /\ cpc' = cpc /\ call' = call /\ iov' = iov /\ buf' = buf /\ bufs' = bufs
      /\ dead' = dead /\ link' = link /\ up' = up /\ down' = down
      /\ storage' = storage /\ owed' = owed
      /\ spc' = spc /\ req' = req /\ sbuf' = sbuf /\ sent' = sent
  BY Zenon DEF vars, streams, client, server
<1>4. Wire' /\ up \in Seq(Unit)
  BY <1>1, <1>3, Zenon DEF Wire
<1>5. Calling(cl)'
  BY <1>2, <1>3, CallingSame, Zenon
<1>6. (dead => Dead)'
  <2>1. ASSUME dead PROVE Dead'
    BY <1>1, <1>3, <1>4, <2>1, LeftSame, Zenon DEF Dead
  <2> QED  BY <1>3, <2>1, Zenon
<1>7. (~dead => Live(cl))'
  <2>1. ASSUME ~dead PROVE Live(cl)'
    <3>1. Live(cl)
      BY <1>2, <2>1, Zenon
    <3>2. Incoming(cl)' /\ Owing(cl)' /\ Received(cl)' = Received(cl)
      BY <1>3, <3>1, IncomingSame, Zenon DEF Live, Owing
    <3>3. Received(cl)' + Len(down') = Received(cl) + Len(down)
      BY <1>3, <3>2, Zenon
    <3> QED  BY <1>3, <1>4, <3>1, <3>2, <3>3, LiveServedOn, Zenon
  <2> QED  BY <1>3, <2>1, Zenon
<1> QED  BY <1>2, <1>3, <1>4, <1>5, <1>6, <1>7, Zenon DEF IInv

\* The invariant is inductive.
LEMMA NextKeeps ==
    ASSUME IInv, [Next]_vars
    PROVE  IInv'
<1>1. CASE \E ids \in Batches : RpcGet(ids)
  BY <1>1, RpcGetKeeps, Zenon
<1>2. CASE \E p \in Page, v \in Value : RpcPut(p, v)
  BY <1>2, RpcPutKeeps, Zenon
<1> QED
  BY <1>1, <1>2, SendKeeps, SendvKeeps, RecvKeeps, ReturnOkKeeps, ReturnFailKeeps,
     KilledKeeps, ServeHeaderKeeps, ServePageKeeps, ServeReplyKeeps, ServeEndsKeeps,
     ReapKeeps, ServerDiesKeeps, BreakKeeps, StutterKeeps, Zenon
  DEF Next, Call, Client, Server

\* It holds on a fresh connection.
LEMMA InitEstablishes ==
    ASSUME Init
    PROVE  IInv
<1>0. Zero \in Value /\ HeaderUnits \in Nat \ {0} /\ PageUnits \in Nat \ {0}
      /\ UpRoom \in Nat /\ DownRoom \in Nat
  BY RpcAssumption
<1>1. <<>> \in Seq(Unit) /\ <<>> \in Seq(Seq(Unit)) /\ Len(<<>>) = 0
  OBVIOUS
<1>2. storage \in [Page -> Contents]
  <2>1. \A p \in Page : Data(p, Zero) \in Contents
    BY <1>0 DEF Contents
  <2>2. storage = [p \in Page |-> Data(p, Zero)]
    BY Zenon DEF Init
  <2> QED  BY <2>1, <2>2
<1>3. ~dead /\ dead \in BOOLEAN
  BY Zenon DEF Init
<1>4. Wire
  <2>1. /\ link \in {"up", "fin", "reset"} /\ link # "fin" /\ spc # "exit"
        /\ cpc \in {"idle", "send", "sendv", "recv", "return", "killed"}
        /\ spc \in {"header", "page", "reply", "exit"} /\ sent \in Nat
    BY Zenon DEF Init
  <2>2. up = <<>> /\ down = <<>> /\ sbuf = <<>>
    BY Zenon DEF Init
  <2>3. 0 <= UpRoom /\ 0 <= DownRoom
    BY <1>0
  <2> QED  BY <1>1, <1>2, <1>3, <2>1, <2>2, <2>3, Zenon DEF Wire
<1>5. PICK cl \in Calls : cl = NoCall /\ cl = call
  <2>1. NoCall \in Calls /\ call = NoCall
    BY Zenon DEF Init, Calls
  <2> QED  BY <2>1, Zenon
<1>6. cl.op = "none" /\ cl.op # "put" /\ cl.ids = <<>> /\ Length(cl) = 0 /\ Due(cl) = 0
      /\ Size(cl) \in Nat \ {0} /\ Len(cl.ids) = 0
  <2>1. cl.op = "none" /\ cl.ids = <<>>
    BY <1>5 DEF NoCall
  <2> QED  BY Zenon, <1>1, <2>1, CallSizes
<1>7. Calling(cl)
  <2>1. cpc = "idle" /\ iov = <<>> /\ buf = <<>> /\ bufs = <<>>
    BY Zenon DEF Init
  <2>2. Len(buf) < Size(cl) /\ \A i \in 1 .. Len(bufs) : FALSE
    BY <1>1, <1>6, <2>1, SMTT(30)
  <2> QED  BY <1>1, <1>5, <2>1, <2>2 DEF Calling
<1>8. Live(cl)
  <2>1. /\ iov = <<>> /\ buf = <<>> /\ bufs = <<>> /\ up = <<>> /\ down = <<>> /\ owed = {}
        /\ sbuf = <<>> /\ sent = 0 /\ spc = "header"
    BY Zenon DEF Init
  <2>2. Received(cl) = 0 /\ Len(bufs) * Size(cl) = 0
    BY <1>1, <1>6, <2>1, SMTT(30) DEF Received
  <2>3. Received(cl) + Len(down) = 0 /\ 0 + Len(up) = 0 /\ 0 <= 0
    BY <1>1, <2>1, <2>2
  <2>4. Incoming(cl)
    <3>1. Follows(<<>>, Answer(cl), 0)
      BY Nothing
    <3>2. \A i \in 1 .. Len(bufs) : FALSE
      BY <1>1, <2>1
    <3> QED  BY <1>6, <2>1, <2>2, <2>3, <3>1, <3>2, Zenon DEF Incoming
  <2>5. Owing(cl)
    BY <2>1, Zenon DEF Owing
  <2>6. Serving(cl, Zero, 0, 0)
    <3>1. GetServed(cl, 0, 0)
      <4>1. 0 \in 0 .. Len(cl.ids) /\ 0 = 0 * HeaderUnits + Len(sbuf) /\ 0 = 0 * PageUnits
            /\ Len(sbuf) < HeaderUnits
        BY <1>0, <1>1, <1>6, <2>1, SMTT(30)
      <4> QED  BY <2>1, <4>1, Zenon DEF GetServed
    <3>2. Follows(<<>>, Asked(cl, Zero), 0) /\ Follows(<<>>, Asked(cl, Zero), 0 - Len(sbuf))
      BY Nothing
    <3> QED  BY <1>6, <2>1, <2>3, <3>1, <3>2, Zenon DEF Serving
  <2>7. Coupled(cl, 0, 0, 0)
    BY <2>3, Zenon DEF Coupled
  <2>8. Lined(iov, cl, Zero, 0)
    BY <1>6, <2>1, LinedEmpty, Zenon
  <2>9. 0 \in 0 .. Length(cl) /\ 0 \in 0 .. Due(cl)
    BY <1>6
  <2>10. Talking(cl, Zero, 0, 0, 0)
    BY <2>6, <2>7, <2>8, Zenon DEF Talking
  <2> QED  BY <1>0, <2>4, <2>5, <2>9, <2>10, Zenon DEF Live
<1> QED  BY <1>3, <1>4, <1>5, <1>7, <1>8, Zenon DEF IInv

-----------------------------------------------------------------------------
(* What the invariant says: types and framing *)

\* A server at its place holds, of a header or a page, exactly the first
\* units.
LEMMA ServerFramed ==
    ASSUME sbuf \in Seq(Unit), NEW cl \in Calls, NEW v \in Value,
           NEW rd \in 0 .. Length(cl), NEW said, Serving(cl, v, rd, said)
    PROVE  /\ Len(sbuf) < IF spc = "page" THEN PageUnits ELSE HeaderUnits
           /\ Framed
<1>0. HeaderUnits \in Nat \ {0} /\ PageUnits \in Nat \ {0} /\ Length(cl) \in Nat
      /\ Len(<<>>) = 0
  BY Zenon, RpcAssumption, CallSizes
<1>1. PICK ls \in Nat : ls = Len(sbuf)
  BY Short
<1>2. /\ cl.op = "put" => PutServed(cl, v, rd, said)
      /\ cl.op # "put" => GetServed(cl, rd, said)
      /\ Follows(sbuf, Asked(cl, v), rd - ls)
  BY <1>1, Zenon DEF Serving
<1>3. rd \in Nat /\ rd <= Length(cl)
  BY <1>0
<1>4. Len(sbuf) < IF spc = "page" THEN PageUnits ELSE HeaderUnits
  <2>1. CASE cl.op = "put"
    <3>1. Len(<<>>) < HeaderUnits /\ "header" # "page" /\ "reply" # "page"
      BY <1>0
    <3> QED  BY <1>2, <2>1, <3>1, Zenon DEF PutServed
  <2>2. CASE cl.op # "put"
    <3>1. Len(<<>>) < HeaderUnits /\ "header" # "page" /\ "reply" # "page"
      BY <1>0
    <3> QED  BY <1>2, <2>2, <3>1, Zenon DEF GetServed
  <2> QED  BY <2>1, <2>2
<1>5. ASSUME spc = "header", NEW k \in 1 .. Len(sbuf)
      PROVE  sbuf[k][1] \in {"get", "put"} /\ sbuf[k][3] = k
  <2>1. k \in Nat /\ k >= 1 /\ k <= ls /\ ls < HeaderUnits /\ k \in 1 .. HeaderUnits /\ ls # 0
    BY <1>0, <1>1, <1>4, <1>5
  <2>2. sbuf # <<>>
    BY <1>0, <1>1, <2>1, Zenon
  <2>3. sbuf[k] = Asked(cl, v)[(rd - ls) + k]
    BY <1>2, <1>5, Zenon DEF Follows
  <2>4. CASE cl.op = "put"
    <3>1. rd = ls
      BY Zenon, <1>1, <1>2, <1>5, <2>2, <2>4 DEF PutServed
    <3>2. (rd - ls) + k = 0 + k
      BY <1>3, <2>1, <3>1
    <3>3. cl.ids[1] \in Page
      BY Zenon, <2>4, CallTypes
    <3>4. Asked(cl, v)[0 + k] = Header("put", cl.ids[1])[k]
      <4>1. k \in 1 .. Len(Header("put", cl.ids[1]))
        BY Zenon, <2>1, <3>3, Spelled
      <4> QED  BY <2>4, <4>1, AskedPut, Zenon DEF Follows
    <3>5. Header("put", cl.ids[1])[k] = <<"put", cl.ids[1], k>>
      BY Zenon, <2>1, <3>3, Spelled
    <3>6. sbuf[k] = <<"put", cl.ids[1], k>>
      BY <2>3, <3>2, <3>4, <3>5, Zenon
    <3> QED  BY <3>6, SMTT(30)
  <2>5. CASE cl.op # "put"
    <3>1. PICK r \in 0 .. Len(cl.ids) : rd = r * HeaderUnits + Len(sbuf)
      BY <1>2, <1>5, <2>5, Zenon DEF GetServed
    <3>2. PICK L \in Nat : L = Len(cl.ids)
      BY Zenon, CallTypes
    <3>3. r \in Nat /\ r <= L
      BY <3>1, <3>2
    <3>4. PICK x \in Nat : x = r * HeaderUnits
      BY <1>0, <3>3
    <3>5. rd = x + ls
      BY <1>1, <3>1, <3>4, Zenon
    <3>6. (rd - ls) + k = x + k
      BY <2>1, <3>5
    <3>7. r < L
      <4>1. ASSUME r = L PROVE FALSE
        <5>1. Length(cl) = x
          BY <2>5, <3>2, <3>4, <4>1, CallSizes, Zenon
        <5> QED  BY <1>3, <2>1, <3>5, <5>1
      <4> QED  BY <3>3, <4>1
    <3>8. r < Len(cl.ids) /\ r + 1 \in 1 .. Len(cl.ids)
      BY <3>2, <3>3, <3>7
    <3>9. cl.ids[r + 1] \in Page
      BY <3>8, CallTypes, Zenon
    <3>10. Asked(cl, v)[x + k] = Header("get", cl.ids[r + 1])[k]
      <4>1. k \in 1 .. Len(Header("get", cl.ids[r + 1]))
        BY Zenon, <2>1, <3>9, Spelled
      <4>2. Follows(Header("get", cl.ids[r + 1]), Asked(cl, v), r * HeaderUnits)
        BY Zenon, <2>5, <3>3, <3>8, AskedGet
      <4> QED  BY <3>4, <4>1, <4>2, Zenon DEF Follows
    <3>11. Header("get", cl.ids[r + 1])[k] = <<"get", cl.ids[r + 1], k>>
      BY Zenon, <2>1, <3>9, Spelled
    <3>12. sbuf[k] = <<"get", cl.ids[r + 1], k>>
      BY <2>3, <3>6, <3>10, <3>11, Zenon
    <3> QED  BY <3>12, SMTT(30)
  <2> QED  BY Zenon, <2>4, <2>5
<1>6. ASSUME spc = "page", NEW k \in 1 .. Len(sbuf)
      PROVE  sbuf[k][1] \in Value /\ sbuf[k][2] = req.page /\ sbuf[k][3] = k
  <2>1. k \in Nat /\ k >= 1 /\ k <= ls /\ ls < PageUnits /\ k \in 1 .. PageUnits
    BY <1>0, <1>1, <1>4, <1>6
  <2>2. cl.op = "put"
    BY Zenon, <1>2, <1>6 DEF GetServed
  <2>3. rd = HeaderUnits + ls /\ req = [op |-> "put", page |-> cl.ids[1]] /\ cl.ids[1] \in Page
    BY Zenon, <1>1, <1>2, <1>6, <2>2, CallTypes DEF PutServed
  <2>4. (rd - ls) + k = HeaderUnits + k
    <3>1. rd = HeaderUnits + ls /\ k \in Nat /\ HeaderUnits \in Nat
      BY <1>0, <2>1, <2>3, Zenon
    <3> QED  BY <3>1
  <2>5. sbuf[k] = Asked(cl, v)[(rd - ls) + k]
    BY <1>2, <1>6, Zenon DEF Follows
  <2>6. Asked(cl, v)[HeaderUnits + k] = Data(cl.ids[1], v)[k]
    <3>1. k \in 1 .. Len(Data(cl.ids[1], v))
      BY Zenon, <2>1, <2>3, Spelled
    <3> QED  BY <2>2, <3>1, AskedPut, Zenon DEF Follows
  <2>7. Data(cl.ids[1], v)[k] = <<v, cl.ids[1], k>>
    BY Zenon, <2>1, <2>3, Spelled
  <2>8. sbuf[k] = <<v, cl.ids[1], k>>
    BY <2>4, <2>5, <2>6, <2>7, Zenon
  <2>9. /\ <<v, cl.ids[1], k>>[1] = v /\ <<v, cl.ids[1], k>>[2] = cl.ids[1]
        /\ <<v, cl.ids[1], k>>[3] = k /\ [op |-> "put", page |-> cl.ids[1]].page = cl.ids[1]
    BY Zenon
  <2> QED  BY <2>3, <2>8, <2>9, Zenon
<1> QED  BY <1>4, <1>5, <1>6, Zenon DEF Framed

\* The server's thread, while it runs, is at its place in some call.
LEMMA StillLeft ==
    ASSUME IInv, spc # "exit"
    PROVE  Left
  BY LiveLeft, Zenon DEF IInv, Dead

\* Framed follows from the invariant.
LEMMA FramedHolds ==
    ASSUME IInv
    PROVE  /\ Len(sbuf) < IF spc = "page" THEN PageUnits ELSE HeaderUnits
           /\ Framed
<1>1. sbuf \in Seq(Unit) /\ (spc = "exit" => sbuf = <<>>)
  BY Zenon DEF IInv, Wire
<1>2. CASE spc = "exit"
  <2>1. sbuf = <<>> /\ Len(<<>>) = 0 /\ HeaderUnits \in Nat \ {0}
    BY <1>1, <1>2, RpcAssumption
  <2> QED  BY <1>2, <2>1 DEF Framed
<1>3. CASE spc # "exit"
  <2>1. PICK cl \in Calls, v \in Value :
            \E rd \in 0 .. Length(cl), said \in 0 .. Due(cl) : Serving(cl, v, rd, said)
    BY <1>3, StillLeft, Zenon DEF Left
  <2>2. PICK rd \in 0 .. Length(cl), said \in 0 .. Due(cl) : Serving(cl, v, rd, said)
    BY <2>1, Zenon
  <2> QED  BY <1>1, <2>2, ServerFramed
<1> QED  BY <1>2, <1>3

\* TypeOK follows from the invariant.
LEMMA TypeOKHolds ==
    ASSUME IInv
    PROVE  TypeOK
<1>1. Wire
  BY Zenon DEF IInv
<1>2. PICK cl \in Calls : cl = call /\ Calling(cl)
  BY Zenon DEF IInv
<1>3. cl.op \in {"none", "get", "put"} /\ cl.ids \in Seq(Page) /\ Len(cl.ids) \in Nat
  BY Zenon, CallTypes
<1>4. Wanted = Size(cl)
  BY <1>2 DEF Wanted, Size
<1>5. Len(buf) < Wanted /\ \A i \in 1 .. Len(bufs) : Len(bufs[i]) = Wanted
  BY <1>2, <1>4, Zenon DEF Calling
<1>6. Len(bufs) <= Len(cl.ids)
  <2>1. bufs \in Seq(Seq(Unit)) /\ Len(bufs) \in Nat /\ Len(<<>>) = 0
    BY <1>2 DEF Calling
  <2> QED  BY <1>2, <1>3, <2>1 DEF Calling
<1>7. storage \in [Page -> [1 .. PageUnits -> Unit]]
  <2>1. storage \in [Page -> Contents]
    BY <1>1, Zenon DEF Wire
  <2>2. \A p \in Page : storage[p] \in [1 .. PageUnits -> Unit]
    BY Zenon, <2>1, Held
  <2> QED  BY <2>1, <2>2
<1>8. Len(sbuf) < IF spc = "page" THEN PageUnits ELSE HeaderUnits
  BY FramedHolds, Zenon
<1> QED  BY <1>1, <1>2, <1>3, <1>5, <1>6, <1>7, <1>8, Zenon DEF TypeOK, Wire

\* The inductive invariant holds in every reachable state.
LEMMA Invariant == Spec => []IInv
<1>1. Init => IInv
  BY InitEstablishes
<1>2. IInv /\ [Next]_vars => IInv'
  BY NextKeeps
<1> QED  BY <1>1, <1>2, PTL DEF Spec

\* No recv of dsm_recv_full, on either side, receives past the length asked
\* for, and no stream holds more than its socket buffers: for any sizes of
\* header, page, batch and buffers.
THEOREM StreamsTyped == Spec => []TypeOK
<1>1. IInv => TypeOK
  BY TypeOKHolds
<1> QED  BY <1>1, Invariant, PTL

\* However send, writev and recv cut the streams, what handle_client_thread
\* takes for a header is one from its first byte on, and what follows a PUT
\* header is the page of that PUT; after a failed call too.
THEOREM RequestsFramed == Spec => []Framed
<1>1. IInv => Framed
  BY FramedHolds
<1> QED  BY <1>1, Invariant, PTL

-----------------------------------------------------------------------------
(* The calls implement PageStore *)

\* A fresh connection is an initial state of PageStore.
LEMMA InitRefines ==
    ASSUME Init
    PROVE  Abstract!Init
<1>1. storage \in [Page -> Contents]
  BY InitEstablishes, Zenon DEF IInv, Wire
<1>2. call = NoCall /\ owed = {} /\ dead = FALSE /\ result = [status |-> "none", pages |-> <<>>]
  BY Zenon DEF Init
<1> QED  BY <1>1, <1>2, Zenon DEF Abstract!Init, Abstract!NoCall, Abstract!Returned, NoCall

\* No call is in progress exactly when the client is idle.
LEMMA IdleNoCall ==
    ASSUME IInv
    PROVE  cpc = "idle" <=> call = NoCall
  BY Zenon DEF IInv, Calling

\* A call begins in PageStore when it begins here.
LEMMA CallRefines ==
    ASSUME IInv, Call
    PROVE  Abstract!Next
<1>1. CASE \E ids \in Batches : RpcGet(ids)
  <2>1. PICK ids \in Batches : RpcGet(ids)
    BY <1>1, Zenon
  <2>2. call = NoCall /\ call' = [op |-> "get", ids |-> ids]
        /\ storage' = storage /\ owed' = owed /\ dead' = dead /\ result' = result
    BY <2>1, IdleNoCall, Zenon DEF RpcGet, Start, server
  <2>3. Abstract!Get(ids)
    BY <2>2, Zenon DEF Abstract!Get, Abstract!NoCall, NoCall
  <2> QED  BY <2>3, Zenon DEF Abstract!Next
<1>2. CASE \E p \in Page, v \in Value : RpcPut(p, v)
  <2>1. PICK p \in Page, v \in Value : RpcPut(p, v)
    BY <1>2, Zenon
  <2>2. /\ call = NoCall /\ call' = [op |-> "put", ids |-> <<p>>]
        /\ owed' = IF dead THEN owed ELSE {[page |-> p, data |-> Data(p, v)]}
        /\ storage' = storage /\ dead' = dead /\ result' = result
    BY <2>1, IdleNoCall, Zenon DEF RpcPut, Start, server
  <2>3. Data(p, v) \in Contents
    BY DEF Contents
  <2>4. Abstract!Put(p, Data(p, v))
    BY <2>2, Zenon DEF Abstract!Put, Abstract!NoCall, NoCall
  <2> QED  BY <2>3, <2>4, Zenon DEF Abstract!Next
<1> QED  BY <1>1, <1>2, Zenon DEF Call

\* The copy to g_storage is the one step in which an owed PUT takes effect,
\* also after the call has failed.
LEMMA ServePageRefines ==
    ASSUME IInv, ServePage
    PROVE  Abstract!Store \/ UNCHANGED Abstract!vars
<1>1. spc = "page" /\ up \in Seq(Unit) /\ sbuf \in Seq(Unit)
  BY Zenon DEF IInv, Wire, ServePage
<1>2. spc # "exit"
  BY <1>1
<1>3. call' = call /\ dead' = dead /\ result' = result
  BY Zenon DEF ServePage, client
<1>4. PICK cl \in Calls, v \in Value :
            \E rd \in 0 .. Length(cl), said \in 0 .. Due(cl) : Serving(cl, v, rd, said)
  BY <1>2, StillLeft, Zenon DEF Left
<1>5. PICK rd \in 0 .. Length(cl), said \in 0 .. Due(cl) : Serving(cl, v, rd, said)
  BY <1>4, Zenon
<1>6. rd \in Nat
  BY Positions, Zenon
<1>7. /\ owed = {Carried(cl, v)}
      /\ \/ storage' = storage /\ owed' = owed
         \/ /\ storage' = [storage EXCEPT ![cl.ids[1]] = Data(cl.ids[1], v)]
            /\ owed' = {}
  BY Zenon, <1>1, <1>5, <1>6, PageServed DEF PageTaken
<1>8. CASE storage' = storage /\ owed' = owed
  BY <1>3, <1>8, Zenon DEF Abstract!vars
<1>9. CASE /\ storage' = [storage EXCEPT ![cl.ids[1]] = Data(cl.ids[1], v)]
           /\ owed' = {}
  <2>1. PICK put : put = Carried(cl, v)
    BY Zenon
  <2>2. put.page = cl.ids[1] /\ put.data = Data(cl.ids[1], v)
    BY Zenon, <2>1 DEF Carried
  <2>3. put \in owed
    BY <1>7, <2>1, Zenon
  <2>4. storage' = [storage EXCEPT ![put.page] = put.data]
    BY <1>9, <2>2, Zenon
  <2> QED  BY <1>3, <1>9, <2>3, <2>4, Zenon DEF Abstract!Store
<1> QED  BY <1>7, <1>8, <1>9, Zenon

\* A GET returns the pages as they are stored when it returns, in the order
\* asked; a PUT returns 0 when it has been stored.
LEMMA ReturnOkRefines ==
    ASSUME IInv, ReturnOk
    PROVE  Abstract!Answer \/ Abstract!Acked
<1>1. cpc = "return"
  BY Zenon DEF ReturnOk
<1>2. PICK cl \in Calls :
         /\ cl = call /\ cl # NoCall /\ ~dead /\ Live(cl) /\ Calling(cl)
         /\ Len(bufs) = Len(cl.ids) /\ owed = {}
  BY <1>1, Returning, Zenon
<1>3. dead' = dead /\ call' = NoCall /\ storage' = storage /\ owed' = owed
  <2>1. /\ dead' = (dead \/ "ok" = "failed") /\ call' = NoCall
        /\ storage' = storage /\ owed' = owed
    BY ReturnOkEnds, Zenon DEF EndCall, server
  <2>2. "ok" # "failed"
    OBVIOUS
  <2>3. dead \in BOOLEAN
    BY Zenon DEF IInv, Wire
  <2>4. dead' = FALSE /\ dead = FALSE
    BY <1>2, <2>1, <2>2, <2>3, Zenon
  <2> QED  BY <2>1, <2>4, Zenon
<1>4. CASE call.op = "get"
  <2>1. result' = [status |-> "ok", pages |-> bufs]
    BY <1>4, ReturnOkEnds, Zenon DEF EndCall
  <2>2. bufs = [i \in 1 .. Len(call.ids) |-> storage[call.ids[i]]]
    <3>1. bufs \in Seq(Seq(Unit)) /\ cl.op # "put"
      BY Zenon, <1>2, <1>4 DEF Calling
    <3>2. \A i \in 1 .. Len(bufs) : bufs[i] = storage[cl.ids[i]]
      BY <1>2, <3>1, Zenon DEF Live, Incoming
    <3>3. bufs = [i \in 1 .. Len(bufs) |-> bufs[i]]
      BY <3>1
    <3>4. bufs = [i \in 1 .. Len(bufs) |-> storage[cl.ids[i]]]
      BY <3>2, <3>3
    <3> QED  BY <1>2, <3>4, Zenon
  <2>3. Abstract!Answer
    BY <1>2, <1>3, <1>4, <2>1, <2>2, Zenon
    DEF Abstract!Answer, Abstract!Returned, Abstract!NoCall, NoCall
  <2> QED  BY <2>3
<1>5. CASE call.op # "get"
  <2>1. result' = [status |-> "ok", pages |-> <<>>] /\ call.op = "put"
    BY <1>5, ReturnOkEnds, Zenon DEF EndCall
  <2>2. Abstract!Acked
    BY <1>2, <1>3, <2>1, Zenon
    DEF Abstract!Acked, Abstract!Returned, Abstract!NoCall, NoCall
  <2> QED  BY <2>2
<1> QED  BY <1>4, <1>5

\* A failed return is a failure of PageStore.
LEMMA ReturnFailRefines ==
    ASSUME IInv, ReturnFail
    PROVE  Abstract!Fail
<1>1. cpc # "idle"
  BY DEF ReturnFail
<1>2. call # NoCall
  BY <1>1, IdleNoCall, Zenon
<1>3. /\ call' = NoCall /\ result' = [status |-> "failed", pages |-> <<>>]
      /\ dead' = (dead \/ "failed" = "failed") /\ storage' = storage /\ owed' = owed
  BY Zenon DEF ReturnFail, EndCall, server
<1>4. dead' = TRUE
  BY <1>3, Zenon
<1> QED  BY <1>2, <1>3, <1>4, Zenon
         DEF Abstract!Fail, Abstract!Returned, Abstract!NoCall, NoCall

\* Every step is a step of PageStore or changes nothing there.
LEMMA NextRefines ==
    ASSUME IInv, [Next]_vars
    PROVE  [Abstract!Next]_(Abstract!vars)
<1>1. CASE Call
  BY <1>1, CallRefines, Zenon
<1>2. CASE ServePage
  BY <1>2, ServePageRefines, Zenon DEF Abstract!Next
<1>3. CASE ReturnOk
  BY <1>3, ReturnOkRefines, Zenon DEF Abstract!Next
<1>4. CASE ReturnFail
  BY <1>4, ReturnFailRefines, Zenon DEF Abstract!Next
<1>5. CASE Send
  BY <1>5, Zenon DEF Send, Sent, server, Abstract!vars
<1>6. CASE Sendv
  BY <1>6, Zenon DEF Sendv, Sent, server, Abstract!vars
<1>7. CASE Recv \/ Killed
  BY <1>7, Zenon DEF Recv, Killed, server, Abstract!vars
<1>8. CASE ServeHeader \/ ServeReply \/ ServeEnds
  BY <1>8, Zenon DEF ServeHeader, ServeReply, ServeEnds, client, Abstract!vars
<1>9. CASE Reap \/ ServerDies \/ Break
  BY <1>9, Zenon DEF Reap, ServerDies, Break, client, server, Abstract!vars
<1>10. CASE UNCHANGED vars
  BY <1>10, Zenon DEF vars, client, server, Abstract!vars
<1> QED
  BY <1>1, <1>2, <1>3, <1>4, <1>5, <1>6, <1>7, <1>8, <1>9, <1>10, Zenon
  DEF Next, Client, Server

\* dsm_rpc_get, dsm_rpc_get_batch and dsm_rpc_put over streams that are cut
\* anywhere, in any pieces, with calls repeated on a dead socket, implement
\* PageStore: no reply goes to another call, no page is mixed from two, an
\* acknowledged PUT is stored, and after a failure no call succeeds.
THEOREM RpcImplementsPageStore == Spec => Implements
<1>1. Init => Abstract!Init
  BY InitRefines
<1>2. IInv /\ [Next]_vars => [Abstract!Next]_(Abstract!vars)
  BY NextRefines
<1> QED  BY <1>1, <1>2, Invariant, PTL DEF Spec, Implements, Abstract!Spec
=============================================================================
