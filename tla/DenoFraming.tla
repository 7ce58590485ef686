----------------------------- MODULE DenoFraming -----------------------------
(***************************************************************************)
(* DNS over TCP and TLS on Deno (serveTcp() and handleTCPQuery() in        *)
(* server-deno.ts), next to Node's (Framing): the same stream, read by a   *)
(* loop that awaits each read and each query in turn, without a scratch    *)
(* buffer to put a short read in.                                          *)
(*                                                                         *)
(* conn.read(buf) gives some of the bytes that came in, at least one and   *)
(* no more than buf has room for, or null at the end of the stream.  Bytes *)
(* are received here as they are read.                                     *)
(***************************************************************************)
EXTENDS Framing

VARIABLES
  runtime,     \* "node" or "deno"; "exited" when Deno did
  unanswered   \* the queries Deno let go of without a whole answer

tcpVars == <<nodeVars, runtime, unanswered>>

TcpInit == NodeInit /\ runtime \in {"node", "deno"} /\ unanswered = {}
-----------------------------------------------------------------------------
\* The loop is at one of its reads.
Reading == runtime = "deno" /\ sock = "open" /\ tasks = {}
AtHeader == Reading /\ qlenBuf = <<>>
AtQuery == Reading /\ qlenBuf # <<>>
Waiting == AtHeader \/ (AtQuery /\ qlen > 0)

Read(n) ==
  /\ received + n <= Len(Stream)
  /\ received' = received + n
Chunk(n) == SubSeq(Stream, received + 1, received + n)

\* "query too small": half a header, too, ends the connection.
ReadHeader(n) ==
  /\ AtHeader /\ n \in 1 .. HeaderSize /\ Read(n)
  /\ qlenBuf' = Chunk(n)
  /\ IF n < HeaderSize
     THEN sock' = "closed" /\ UNCHANGED qlen
     ELSE qlen' \in Decode(Chunk(n)) /\ UNCHANGED sock
  /\ UNCHANGED <<qBuf, tasks, answered, runtime, unanswered>>

\* "query len mismatch": one read must give all of the query, of whatever
\* length.  A query without bytes is read at once.
ReadQuery(n) ==
  /\ AtQuery /\ n \in 0 .. qlen /\ Read(n)
  /\ n = 0 => qlen = 0
  /\ IF n = qlen
     THEN /\ EmptyScratch
          /\ tasks' = {[query |-> Chunk(n), oob |-> <<>>]}
          /\ UNCHANGED sock
     ELSE /\ qBuf' = Chunk(n) /\ sock' = "closed"
          /\ UNCHANGED <<qlenBuf, qlen, tasks>>
  /\ UNCHANGED <<answered, runtime, unanswered>>

\* The client ends the stream: a read gives null.
ReadNothing ==
  /\ Waiting
  /\ sock' = "closed"
  /\ UNCHANGED <<received, qlenBuf, qlen, qBuf, tasks, answered, runtime, unanswered>>

\* The connection breaks: the read of a header is caught, and that of a query
\* is not.  No one awaits serveTcp(), so Deno exits on its rejection.
ReadThrows ==
  /\ Waiting
  /\ sock' = "closed"
  /\ runtime' = IF AtQuery THEN "exited" ELSE runtime
  /\ UNCHANGED <<received, qlenBuf, qlen, qBuf, tasks, answered, unanswered>>

\* handleTCPQuery(): the answer is written whole, and the loop goes on.
DenoAnswer(t) ==
  /\ runtime = "deno" /\ t \in tasks
  /\ answered' = answered \cup {t.query}
  /\ tasks' = tasks \ {t}
  /\ UNCHANGED <<received, qlenBuf, qlen, qBuf, sock, runtime, unanswered>>

\* resolveQuery() throws or has a message without bytes, or the write fails or
\* is short: at most, this is logged.  The connection is left as it is, and the
\* loop goes on (if it is broken, the next read throws).
DenoGivesUp(t) ==
  /\ runtime = "deno" /\ t \in tasks
  /\ unanswered' = unanswered \cup {t.query}
  /\ tasks' = tasks \ {t}
  /\ UNCHANGED <<received, qlenBuf, qlen, qBuf, answered, sock, runtime>>

DenoSettle(t) == DenoAnswer(t) \/ DenoGivesUp(t)

Node == runtime = "node" /\ NodeNext /\ UNCHANGED <<runtime, unanswered>>

TcpNext ==
  \/ Node
  \/ \E n \in 1 .. HeaderSize : ReadHeader(n)
  \/ \E n \in 0 .. MaxSize + 1 : ReadQuery(n)
  \/ ReadNothing \/ ReadThrows
  \/ \E t \in tasks : DenoSettle(t)

\* Queries are resolved in the end, on either, and a read into no room returns.
\* No client is taken to go on.
TcpFairness ==
  /\ WF_tcpVars(ReadQuery(0))
  /\ WF_tcpVars(runtime = "node" /\ (\E t \in tasks : Settle(t))
                 /\ UNCHANGED <<runtime, unanswered>>)
  /\ WF_tcpVars(\E t \in tasks : DenoSettle(t))

TcpSpec == TcpInit /\ [][TcpNext]_tcpVars /\ TcpFairness
-----------------------------------------------------------------------------
\* Both runtimes keep to the types; Node resolves no query above MaxSize, Deno
\* whatever a header may say.
TcpTypeOK ==
  /\ runtime \in {"node", "deno", "exited"}
  /\ TypeOKUpTo(IF runtime = "node" THEN MaxSize ELSE MaxSize + 1)

\* Every byte received is in one place, in the order it was sent: in a query
\* that was resolved or is being resolved, in the scratch buffer, or held by a
\* suspended call.  So no query gets lost between two chunks.
Handled == answered \cup unanswered
Resolved == Handled \cup {t.query : t \in tasks}

NothingLost ==
  sock = "open" =>
    \E n \in 0 .. Len(QLens) :
      /\ Resolved = {Body(q) : q \in 1 .. n}
      /\ \E held \in {<<>>} \cup {t.oob : t \in tasks} :
           /\ StreamUpTo[n] \o qlenBuf \o qBuf \o held = SubSeq(Stream, 1, received)
           /\ \A t \in tasks : t.oob \in {<<>>, held}

\* Pipelined or not, a query that has been received is answered in the end, or
\* the connection closed ("close socket when !ok"), even if the client waits for
\* that before it goes on.  Not so on Deno if it fails to resolve or write one:
\* it closes nothing then.  That one is let go of, and never holds up the next.
AllAnswered ==
  \A q \in Queries :
    received >= Len(StreamUpTo[q]) ~>
      \/ sock = "closed" \/ Body(q) \in answered
      \/ runtime = "deno" /\ Body(q) \in unanswered
=============================================================================
