------------------------------- MODULE Framing -------------------------------
(***************************************************************************)
(* DNS over TCP and TLS: how server-node.js cuts the stream of a client's  *)
(* connection into queries (handleTCPData() and its ScratchBuffer) and     *)
(* answers them (handleTCPQuery(), measuredWrite()).                       *)
(*                                                                         *)
(* handleTCPData() is async and 'data' events do not wait for it: while it *)
(* awaits the answer to the query it has cut out, holding the rest of its  *)
(* chunk, the next chunk may come in and goes through the same scratch     *)
(* buffer.                                                                 *)
(*                                                                         *)
(* A byte is known by its place: <<q, i>> is the i-th one the client sent  *)
(* for its query q, the first two of which encode the query's length.      *)
(***************************************************************************)
EXTENDS Naturals, Sequences, FiniteSets

CONSTANTS
  QLens,       \* the lengths of the client's queries, in order, invalid ones too
  MinSize, MaxSize, \* minDNSPacketSize and maxDNSPacketSize
  MaxChunk,    \* bound: bytes in a TCP segment
  Overlap      \* may a chunk come in while the rest of another is held?

HeaderSize == 2

Queries == 1 .. Len(QLens)
Bytes(q) == [i \in 1 .. HeaderSize + QLens[q] |-> <<q, i>>]
Body(q) == SubSeq(Bytes(q), HeaderSize + 1, HeaderSize + QLens[q])

\* The client's stream: its queries one after the other.
StreamUpTo[n \in 0 .. Len(QLens)] ==
  IF n = 0 THEN <<>> ELSE StreamUpTo[n - 1] \o Bytes(n)
Stream == StreamUpTo[Len(QLens)]

\* Slip: there is no upper bound.
ValidateMinSize(n) == n >= MinSize

ValidateSize(n) == n \in MinSize .. MaxSize

ASSUME FramingAssumption ==
  /\ QLens \in Seq(0 .. MaxSize + 1)
  /\ MinSize \in Nat \ {0} /\ MaxSize \in Nat
  /\ MaxChunk \in Nat \ {0}
  /\ Overlap \in BOOLEAN

VARIABLES
  received,  \* how many bytes of the stream have come in
  qlenBuf,   \* the scratch buffer: the header's bytes read so far,
  qlen,      \* the number they encode,
  qBuf,      \* and the query's bytes read so far
  tasks,     \* suspended calls: the query each awaits, the bytes it holds (oob)
  answered,  \* the queries answered
  sock       \* "open", or "closed" by close()

nodeVars == <<received, qlenBuf, qlen, qBuf, tasks, answered, sock>>

NodeInit ==
  /\ received = 0
  /\ qlenBuf = <<>> /\ qlen = 0 /\ qBuf = <<>>
  /\ tasks = {}
  /\ answered = {}
  /\ sock = "open"
-----------------------------------------------------------------------------
Lesser(a, b) == IF a < b THEN a ELSE b
Take(s, n) == SubSeq(s, 1, Lesser(n, Len(s)))
Drop(s, n) == SubSeq(s, n + 1, Len(s))

\* readUInt16BE(): two bytes that are no header may encode any number.
Decode(h) ==
  IF h[1][2] = 1 /\ h[2] = <<h[1][1], 2>> THEN {QLens[h[1][1]]} ELSE 0 .. MaxSize + 1

\* Slip: reset() leaves the header's bytes behind.
EmptyQuery == qBuf' = <<>> /\ UNCHANGED <<qlenBuf, qlen>>

\* reset()
EmptyScratch == qlenBuf' = <<>> /\ qlen' = 0 /\ qBuf' = <<>>

\* handleTCPData(), up to where it suspends or returns, when the calls in
\* others are suspended and the socket is in state s.
HandleTCPData(chunk, others, s) ==
  LET rem == HeaderSize - Len(qlenBuf)
      header == qlenBuf \o Take(chunk, rem)
      data == Drop(chunk, rem)
  IN
  \/ \* the header has not been read fully
     /\ Len(header) < HeaderSize
     /\ qlenBuf' = header
     /\ tasks' = others /\ sock' = s
     /\ UNCHANGED <<qlen, qBuf>>
  \/ /\ Len(header) = HeaderSize
     /\ \E n \in IF rem = 0 THEN {qlen} ELSE Decode(header) :
          LET missing == n - Len(qBuf)
              query == qBuf \o Take(data, missing)
          IN
          \/ \* query size err
             /\ ~ValidateSize(n)
             /\ qlenBuf' = header /\ qlen' = n
             /\ tasks' = others /\ sock' = "closed"
             /\ UNCHANGED qBuf
          \/ \* continue reading from the socket
             /\ ValidateSize(n) /\ Len(query) < n
             /\ qlenBuf' = header /\ qlen' = n /\ qBuf' = query
             /\ tasks' = others /\ sock' = s
          \/ \* the query is complete: await handleTCPQuery()
             /\ ValidateSize(n) /\ Len(query) = n
             /\ EmptyScratch
             /\ tasks' = others \cup {[query |-> query, oob |-> Drop(data, missing)]}
             /\ sock' = s

\* Slip: what came after the query is dropped.
ContinueDropping(t, s) ==
  /\ tasks' = tasks \ {t} /\ sock' = s
  /\ UNCHANGED <<qlenBuf, qlen, qBuf>>

\* The rest of handleTCPData(), after the await.
Continue(t, s) ==
  IF t.oob = <<>>
  THEN /\ tasks' = tasks \ {t} /\ sock' = s
       /\ UNCHANGED <<qlenBuf, qlen, qBuf>>
  ELSE HandleTCPData(t.oob, tasks \ {t}, s)

\* socket.on("data"): bytes may come in until the closed socket is destroyed.
Holding == \E t \in tasks : t.oob # <<>>

Data(n) ==
  /\ received + n <= Len(Stream)
  /\ Holding => Overlap
  /\ received' = received + n
  /\ HandleTCPData(SubSeq(Stream, received + 1, received + n), tasks, sock)
  /\ UNCHANGED answered

\* The resolver has an answer (a SERVFAIL, when it has none): it is written.
Answer(t) ==
  /\ t \in tasks /\ sock = "open"
  /\ answered' = answered \cup {t.query}
  /\ Continue(t, sock)
  /\ UNCHANGED received

\* Slip: the socket is left open without an answer.
FailOpen(t) ==
  /\ t \in tasks /\ sock = "open"
  /\ Continue(t, sock)
  /\ UNCHANGED <<received, answered>>

\* "close socket when !ok": resolveQuery() throws, or gives an empty answer.
Fail(t) ==
  /\ t \in tasks /\ sock = "open"
  /\ Continue(t, "closed")
  /\ UNCHANGED <<received, answered>>

\* The socket is not writable anymore: nothing is resolved, or written.
Skip(t) ==
  /\ t \in tasks /\ sock = "closed"
  /\ Continue(t, sock)
  /\ UNCHANGED <<received, answered>>

Settle(t) == Answer(t) \/ Fail(t) \/ Skip(t)

NodeNext ==
  \/ \E n \in 1 .. MaxChunk : Data(n)
  \/ \E t \in tasks : Settle(t)

\* Every query is resolved in the end, one way or another.  The client need not
\* go on sending.
NodeFairness == WF_nodeVars(\E t \in tasks : Settle(t))

NodeSpec == NodeInit /\ [][NodeNext]_nodeVars /\ NodeFairness
-----------------------------------------------------------------------------
AnyByte == {Stream[i] : i \in 1 .. Len(Stream)}

\* What has its type when queries have at most max bytes.
TypeOKUpTo(max) ==
  /\ received \in 0 .. Len(Stream)
  /\ qlenBuf \in Seq(AnyByte) /\ Len(qlenBuf) <= HeaderSize
  /\ qlen \in 0 .. MaxSize + 1
  /\ qBuf \in Seq(AnyByte) /\ Len(qBuf) <= max
  /\ \A t \in tasks : /\ t.query \in Seq(AnyByte) /\ Len(t.query) <= max
                       /\ t.oob \in Seq(AnyByte)
  /\ sock \in {"open", "closed"}

\* Segments may be cut anywhere: what is resolved is what the client asked,
\* never bytes of two queries or a part of one.
QueriesIntact ==
  \A t \in tasks : \E q \in Queries : t.query = Body(q)
=============================================================================
