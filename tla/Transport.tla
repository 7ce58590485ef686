----------------------------- MODULE Transport -----------------------------
(***************************************************************************)
(* Plain DNS to the upstream: Transport (src/core/node/dns-transport.js),  *)
(* its connection pool (src/core/dns/conns.js) and its one-shot exchanges  *)
(* UdpTx and TcpTx (src/core/dns/transact.js).                             *)
(*                                                                         *)
(* udpquery() and tcpquery() have the same shape and share no state, so a  *)
(* behaviour is about one of the two protocols.  What runs between two     *)
(* events of the event loop (a promise's continuations included) is one    *)
(* step.  A pool is a Map in the order of the sockets' last use; sockets   *)
(* parked within the same millisecond are in any order.                    *)
(*                                                                         *)
(* Node's sockets are modelled from how they are used: an 'error' event no *)
(* one listens to, and an exception from a listener, end the process.      *)
(***************************************************************************)
EXTENDS Naturals, FiniteSets

CONSTANTS
  Queries,     \* calls of udpquery() or tcpquery(), numbered as they are made
  Sockets,     \* sockets that get made
  PoolSize,    \* poolSize
  MaxSweep,    \* maxsweep, Math.max(poolSize / 4, 20)
  Ttl,         \* poolTtl, in ticks of the clock
  SweepGap,    \* sweepGapMs, in ticks
  MaxCopies,   \* bound: how many copies of a datagram the network delivers
  NoSocket, NoReply, Failure

ASSUME TransportAssumption ==
  /\ Queries \subseteq Nat
  /\ IsFiniteSet(Sockets)
  /\ PoolSize \in Nat \ {0} /\ MaxSweep \in Nat \ {0}
  /\ Ttl \in Nat /\ SweepGap \in Nat /\ MaxCopies \in Nat \ {0}
  /\ NoSocket \notin Sockets
  /\ {NoReply, Failure} \cap Queries = {} /\ NoReply # Failure

VARIABLES
  proto,       \* "udp" or "tcp"
  conn,        \* the state of every socket
  pool,        \* the sockets parked in the pool
  idle,        \* how long each of them has been, up to Ttl + 1
  sinceSweep,  \* time since lastSweep, up to SweepGap
  pc,          \* where each query is
  sock,        \* the socket each query is written to
  reply,       \* what each query resolved with: null is Failure
  net,         \* answers on their way: <<socket, query, copy>>
  copies,      \* how many copies of each query's answer were sent
  crashed      \* an exception reached the event loop: the process is gone

vars == <<proto, conn, pool, idle, sinceSweep, pc, sock, reply, net, copies, crashed>>

Init ==
  /\ proto \in {"udp", "tcp"}
  /\ conn = [s \in Sockets |-> "unused"]
  /\ pool = {}
  /\ idle = [s \in Sockets |-> 0]
  /\ sinceSweep = SweepGap
  /\ pc = [q \in Queries |-> "new"]
  /\ sock = [q \in Queries |-> NoSocket]
  /\ reply = [q \in Queries |-> NoReply]
  /\ net = {}
  /\ copies = [q \in Queries |-> 0]
  /\ crashed = FALSE
-----------------------------------------------------------------------------
Fresh(s) == idle[s] <= Ttl

\* Slip: neither pool looks at the socket.
FreshOnly(s) == Fresh(s)

\* healthy(): UdpConnPool goes by age only, TcpConnPool asks the socket, too.
Healthy(s) == Fresh(s) /\ (proto = "tcp" => conn[s] = "open")

\* The sets a loop over the pool has seen after n rounds: the oldest n.
Oldest(n) ==
  {E \in SUBSET pool :
     /\ Cardinality(E) = n \/ (E = pool /\ Cardinality(pool) < n)
     /\ \A s \in E, t \in pool \ E : idle[s] >= idle[t]}

\* maxsweep / 2, rounded up: the loop in take() stops once it has made as many.
TakeRounds == (MaxSweep + 1) \div 2

\* take(): evicts what is unhealthy until it meets a healthy socket, giving
\* up after TakeRounds.
TakeSkips(E) == \A s \in E : ~Healthy(s)

Close(S) == conn' = [s \in Sockets |-> IF s \in S THEN "closed" ELSE conn[s]]

Begins(q) == pc[q] = "new" /\ \A r \in Queries : r < q => pc[r] # "new"

\* Slip: a socket is taken without being removed from the pool.
TakeShared(q) ==
  /\ Begins(q)
  /\ \E s \in pool :
       Healthy(s) /\ sock' = [sock EXCEPT ![q] = s]
  /\ pc' = [pc EXCEPT ![q] = "exchange"]
  /\ UNCHANGED <<proto, conn, pool, idle, sinceSweep, reply, net, copies, crashed>>

\* An exchange begins in the same turn as its socket is had: listeners are
\* attached and the query is written.
TakePooled(q) ==
  /\ Begins(q)
  /\ \E n \in 0 .. TakeRounds - 1 : \E E \in Oldest(n), s \in pool :
       /\ Cardinality(E) = n /\ TakeSkips(E)
       /\ s \notin E /\ E \cup {s} \in Oldest(n + 1) /\ Healthy(s)
       /\ pool' = pool \ (E \cup {s})
       /\ Close(E)
       /\ sock' = [sock EXCEPT ![q] = s]
  /\ pc' = [pc EXCEPT ![q] = "exchange"]
  /\ UNCHANGED <<proto, idle, sinceSweep, reply, net, copies, crashed>>

\* take() came up empty: makeConn().  Which of the unused sockets is made does
\* not matter.
Unused == {s \in Sockets : conn[s] = "unused"}
NewSocket == CHOOSE s \in Unused : TRUE

Connect(q) ==
  /\ Begins(q) /\ Unused # {}
  /\ \E E \in Oldest(TakeRounds), s \in {NewSocket} :
       /\ TakeSkips(E)
       /\ pool' = pool \ E
       /\ conn' = [t \in Sockets |-> IF t \in E THEN "closed"
                                     ELSE IF t = s THEN "connecting" ELSE conn[t]]
       /\ sock' = [sock EXCEPT ![q] = s]
  /\ pc' = [pc EXCEPT ![q] = "connecting"]
  /\ UNCHANGED <<proto, idle, sinceSweep, reply, net, copies, crashed>>

\* Slip: a connection that comes too late is not cleaned up.
ConnectedLate(s) ==
  /\ conn[s] = "connecting"
  /\ conn' = [conn EXCEPT ![s] = "open"]
  /\ pc' = [q \in Queries |-> IF pc[q] = "connecting" /\ sock[q] = s
                              THEN "exchange" ELSE pc[q]]
  /\ UNCHANGED <<proto, pool, idle, sinceSweep, sock, reply, net, copies, crashed>>

\* timedOp(): connected in time, or cleaned up when it is too late.
Connected(s) ==
  /\ conn[s] = "connecting"
  /\ IF \E q \in Queries : pc[q] = "connecting" /\ sock[q] = s
     THEN /\ conn' = [conn EXCEPT ![s] = "open"]
          /\ pc' = [q \in Queries |-> IF pc[q] = "connecting" /\ sock[q] = s
                                      THEN "exchange" ELSE pc[q]]
     ELSE conn' = [conn EXCEPT ![s] = "closed"] /\ UNCHANGED pc
  /\ UNCHANGED <<proto, pool, idle, sinceSweep, sock, reply, net, copies, crashed>>

\* Slip: the query fails but goes on once it is connected.
ConnectElapsedTwice(q) ==
  /\ pc[q] = "connecting" /\ reply[q] = NoReply
  /\ reply' = [reply EXCEPT ![q] = Failure]
  /\ UNCHANGED <<proto, conn, pool, idle, sinceSweep, pc, sock, net, copies, crashed>>

\* The query gives up on its connection, which goes on connecting.
ConnectElapsed(q) ==
  /\ pc[q] = "connecting"
  /\ pc' = [pc EXCEPT ![q] = "done"]
  /\ sock' = [sock EXCEPT ![q] = NoSocket]
  /\ reply' = [reply EXCEPT ![q] = Failure]
  /\ UNCHANGED <<proto, conn, pool, idle, sinceSweep, net, copies, crashed>>

\* tcp: the 'error' event of a connection that fails, which no one listens to.
TcpConnectFails(s) ==
  /\ proto = "tcp" /\ conn[s] = "connecting"
  /\ crashed' = TRUE
  /\ UNCHANGED <<proto, conn, pool, idle, sinceSweep, pc, sock, reply, net, copies>>

\* udp: the error is given to the connection's callback, in time or not.  It
\* cleans up with closeUdp(), whose disconnect() throws, as the socket is not
\* connected.
UdpConnectFails(s) ==
  /\ proto = "udp" /\ conn[s] = "connecting"
  /\ crashed' = TRUE
  /\ UNCHANGED <<proto, conn, pool, idle, sinceSweep, pc, sock, reply, net, copies>>

\* The upstream answers what was written to it, over udp possibly late.
Upstream(q) ==
  /\ sock[q] # NoSocket /\ conn[sock[q]] = "open"
  /\ copies[q] < IF proto = "udp" THEN MaxCopies ELSE 1
  /\ copies' = [copies EXCEPT ![q] = @ + 1]
  /\ net' = net \cup {<<sock[q], q, copies[q]>>}
  /\ UNCHANGED <<proto, conn, pool, idle, sinceSweep, pc, sock, reply, crashed>>

\* give(): a full pool is swept first, if enough time has passed; a socket
\* there is no room for is closed.
Full == Cardinality(pool) >= PoolSize

Park(s) ==
  \/ /\ ~Full
     /\ pool' = pool \cup {s}
     /\ idle' = [idle EXCEPT ![s] = 0]
     /\ UNCHANGED <<conn, sinceSweep>>
  \/ /\ Full /\ sinceSweep < SweepGap
     /\ Close({s})
     /\ UNCHANGED <<pool, idle, sinceSweep>>
  \/ /\ Full /\ sinceSweep >= SweepGap
     /\ sinceSweep' = 0
     /\ \E E \in Oldest(MaxSweep) :
          LET dead == {t \in E : ~Healthy(t)} IN
          IF dead # {}
          THEN /\ pool' = (pool \ dead) \cup {s}
               /\ idle' = [idle EXCEPT ![s] = 0]
               /\ Close(dead)
          ELSE /\ Close({s})
               /\ UNCHANGED <<pool, idle>>

\* The answer comes in: whichever it is, it is the answer to the exchange that
\* listens on its socket, which is parked next.  Without one it is dropped.
Receive(m) ==
  LET s == m[1]
      q == m[2]
      listening == {x \in Queries : pc[x] = "exchange" /\ sock[x] = s}
  IN
  /\ m \in net /\ conn[s] = "open"
  /\ net' = net \ {m}
  /\ IF listening = {}
     THEN UNCHANGED <<conn, pool, idle, sinceSweep, pc, reply>>
     ELSE /\ pc' = [x \in Queries |-> IF x \in listening THEN "done" ELSE pc[x]]
          /\ reply' = [x \in Queries |-> IF x \in listening THEN q ELSE reply[x]]
          /\ Park(s)
  /\ UNCHANGED <<proto, sock, copies, crashed>>

\* Slip: the socket of an exchange that timed out is parked.
ExchangeFailsParked(q) ==
  /\ pc[q] = "exchange"
  /\ pc' = [pc EXCEPT ![q] = "done"]
  /\ reply' = [reply EXCEPT ![q] = Failure]
  /\ Park(sock[q])
  /\ UNCHANGED <<proto, sock, net, copies, crashed>>

\* Slip: no io timer is armed, and an exchange fails with its socket only.
ExchangeFailsUntimed(q) ==
  /\ pc[q] = "exchange" /\ conn[sock[q]] = "closed"
  /\ pc' = [pc EXCEPT ![q] = "done"]
  /\ reply' = [reply EXCEPT ![q] = Failure]
  /\ UNCHANGED <<proto, conn, pool, idle, sinceSweep, sock, net, copies, crashed>>

\* Timeout, 'error', 'close' or a malformed answer while the exchange lasts: it
\* rejects, and the query closes the socket and returns null.
ExchangeFails(q) ==
  /\ pc[q] = "exchange"
  /\ pc' = [pc EXCEPT ![q] = "done"]
  /\ reply' = [reply EXCEPT ![q] = Failure]
  /\ Close({sock[q]})
  /\ UNCHANGED <<proto, pool, idle, sinceSweep, sock, net, copies, crashed>>

\* Upstream closes a parked connection.  checkin() had evict() listen for it,
\* but evict() is called with the event's argument, not the socket: it stays.
ParkedCloses(s) ==
  /\ proto = "tcp" /\ s \in pool /\ conn[s] = "open"
  /\ Close({s})
  /\ UNCHANGED <<proto, pool, idle, sinceSweep, pc, sock, reply, net, copies, crashed>>

\* An 'error' of a parked udp socket: evict(err) throws, as errors have no
\* disconnect(); TcpConnPool catches the like of it.
ParkedFails(s) ==
  /\ proto = "udp" /\ s \in pool
  /\ crashed' = TRUE
  /\ UNCHANGED <<proto, conn, pool, idle, sinceSweep, pc, sock, reply, net, copies>>

\* Slip: lastSweep is set to when the next sweep is due.
TeardownAhead ==
  /\ pool # {}
  /\ pool' = {}
  /\ Close(pool)
  /\ sinceSweep' = sinceSweep + SweepGap
  /\ UNCHANGED <<proto, idle, pc, sock, reply, net, copies, crashed>>

\* teardown(): sweep(clear) on either pool; exchanges are left alone.
Teardown ==
  /\ pool # {}
  /\ pool' = {}
  /\ Close(pool)
  /\ sinceSweep' = 0
  /\ UNCHANGED <<proto, idle, pc, sock, reply, net, copies, crashed>>

Tick ==
  /\ idle' = [s \in Sockets |-> IF s \in pool /\ Fresh(s) THEN idle[s] + 1 ELSE idle[s]]
  /\ sinceSweep' = IF sinceSweep < SweepGap THEN sinceSweep + 1 ELSE sinceSweep
  /\ UNCHANGED <<proto, conn, pool, pc, sock, reply, net, copies, crashed>>

Step ==
  \/ \E q \in Queries :
       \/ TakePooled(q) \/ Connect(q) \/ ConnectElapsed(q)
       \/ Upstream(q) \/ ExchangeFails(q)
  \/ \E s \in Sockets :
       \/ Connected(s) \/ TcpConnectFails(s) \/ UdpConnectFails(s)
       \/ ParkedCloses(s) \/ ParkedFails(s)
  \/ \E m \in net : Receive(m)
  \/ Teardown
  \/ Tick

Next == ~crashed /\ Step

Spec == Init /\ [][Next]_vars

\* connectTimeout and ioTimeout: the timers of a query that waits do fire.
\* Nothing else is promised: neither a connection nor an answer ever comes.
Fairness ==
  \A q \in Queries :
    /\ WF_vars(~crashed /\ ConnectElapsed(q))
    /\ WF_vars(~crashed /\ ExchangeFails(q))

LiveSpec == Spec /\ Fairness
-----------------------------------------------------------------------------
TypeOK ==
  /\ proto \in {"udp", "tcp"}
  /\ conn \in [Sockets -> {"unused", "connecting", "open", "closed"}]
  /\ pool \subseteq Sockets
  /\ idle \in [Sockets -> 0 .. Ttl + 1]
  /\ sinceSweep \in 0 .. SweepGap
  /\ pc \in [Queries -> {"new", "connecting", "exchange", "done"}]
  /\ sock \in [Queries -> Sockets \cup {NoSocket}]
  /\ reply \in [Queries -> Queries \cup {NoReply, Failure}]
  /\ net \subseteq Sockets \X Queries \X (0 .. MaxCopies - 1)
  /\ copies \in [Queries -> 0 .. MaxCopies]
  /\ crashed \in BOOLEAN

\* The transactions' contract: they require "exclusive use" of their socket.
\* No two queries hold one socket, and no one's socket is up for grabs in the
\* pool meanwhile.
Holds(q, s) == pc[q] \in {"connecting", "exchange"} /\ sock[q] = s
ExclusiveUse ==
  \A s \in Sockets, q \in Queries : Holds(q, s) =>
    /\ s \notin pool
    /\ \A r \in Queries : Holds(r, s) => r = q

\* Queries run on open sockets: none is written to one that was closed under
\* the pool, though UdpConnPool looks at nothing but its age.
NoneWrittenToClosed == \A q \in Queries : pc[q] = "exchange" => conn[sock[q]] = "open"

\* No socket leaks: an open one is parked or held by a query.
NoSocketLeaks ==
  \A s \in Sockets : conn[s] = "open" => s \in pool \/ \E q \in Queries : Holds(q, s)

\* Whatever sweeps and takes interleave, a pool holds no more than its size.
PoolBounded == Cardinality(pool) <= PoolSize

\* A query is answered with the answer to it.  No id is compared: this rests
\* on late answers finding their socket closed, and on single copies.
AnswersOwnQuery ==
  \A q \in Queries : reply[q] \in Queries => reply[q] = q

\* Every query is settled, whether the upstream ever connects or answers: the
\* connection is not watched for errors "instead relying on timeouts", and who
\* awaits the query, such as the leader of coalesced requests, has no timer.
EverySettled ==
  \A q \in Queries : pc[q] # "new" ~> reply[q] # NoReply \/ crashed

\* tcp connections are "not monitored" for errors, "instead relying on
\* timeouts": one that is refused leaves its query to connectTimeout, and the
\* process running.  (Of udp connections the code says nothing of the kind.)
RefusedTcpTimesOut == proto = "tcp" => ~crashed

\* The promise: a query is replied to once, by a failure or its own answer.
Same(q, r) == q = r
Promise == INSTANCE Resolution WITH
             Requests <- Queries,
             Identical <- Same,
             asked <- {q \in Queries : pc[q] # "new"}
ImplementsResolution == Promise!Spec
=============================================================================
