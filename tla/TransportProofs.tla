--------------------------- MODULE TransportProofs --------------------------
(***************************************************************************)
(* The transport's sockets are used by one query at a time, never leak and *)
(* fill the pool no further than its size, for any number of queries and   *)
(* sockets and any pool; and where the network delivers a datagram at most *)
(* once, every query is answered by the answer to it.                      *)
(***************************************************************************)
EXTENDS Transport, FiniteSetTheorems, TLAPS

\* The strengthening: where a query is tells what became of its socket,
Attached ==
  \A q \in Queries :
    /\ pc[q] = "new" => sock[q] = NoSocket
    /\ pc[q] = "connecting" => sock[q] \in Sockets /\ conn[sock[q]] = "connecting"
    /\ pc[q] = "exchange" => sock[q] \in Sockets /\ conn[sock[q]] = "open"
    /\ pc[q] = "done" /\ sock[q] \in Sockets => conn[sock[q]] \in {"open", "closed"}

\* and a parked socket was open once: over udp, where no one looks, it still is.
ParkedOpen ==
  \A s \in pool : conn[s] = "open" \/ (proto = "tcp" /\ conn[s] = "closed")

IInv ==
  /\ TypeOK
  /\ Attached
  /\ ParkedOpen
  /\ ExclusiveUse
  /\ NoSocketLeaks
  /\ PoolBounded
-----------------------------------------------------------------------------
\* What parking a socket amounts to: it, and some of those parked, are parked
\* or closed, no other socket is touched, and the pool keeps within its size.
LEMMA Parks ==
  ASSUME NEW s \in Sockets, s \notin pool, TypeOK, PoolBounded, Park(s)
  PROVE  /\ pool' \subseteq pool \cup {s}
         /\ conn' = [t \in Sockets |-> IF t \in (pool \cup {s}) \ pool' THEN "closed"
                                       ELSE conn[t]]
         /\ idle' \in [Sockets -> 0 .. Ttl + 1]
         /\ sinceSweep' \in 0 .. SweepGap
         /\ PoolBounded'
<1>0. /\ PoolSize \in Nat \ {0} /\ Ttl \in Nat /\ SweepGap \in Nat
      /\ IsFiniteSet(pool) /\ Cardinality(pool) \in Nat
      /\ pool \subseteq Sockets
  BY TransportAssumption, FS_Subset, FS_CardinalityType DEF TypeOK
<1>1. CASE ~Full /\ pool' = pool \cup {s} /\ idle' = [idle EXCEPT ![s] = 0]
           /\ UNCHANGED <<conn, sinceSweep>>
  <2>1. Cardinality(pool') <= PoolSize
    BY <1>0, <1>1, FS_AddElement DEF Full
  <2>2. conn' = [t \in Sockets |-> IF t \in (pool \cup {s}) \ pool' THEN "closed" ELSE conn[t]]
    BY <1>1 DEF TypeOK
  <2>3. QED BY <1>0, <1>1, <2>1, <2>2 DEF TypeOK, PoolBounded
<1>2. CASE /\ Close({s}) /\ UNCHANGED <<pool, idle>>
           /\ sinceSweep' \in 0 .. SweepGap
  <2>1. (pool \cup {s}) \ pool' = {s}
    BY <1>2
  <2>2. QED BY <1>0, <1>2, <2>1 DEF TypeOK, PoolBounded, Close
<1>3. ASSUME NEW dead, dead \subseteq pool, dead # {},
             pool' = (pool \ dead) \cup {s}, idle' = [idle EXCEPT ![s] = 0],
             Close(dead), sinceSweep' = 0
      PROVE  /\ pool' \subseteq pool \cup {s}
             /\ conn' = [t \in Sockets |-> IF t \in (pool \cup {s}) \ pool' THEN "closed"
                                           ELSE conn[t]]
             /\ idle' \in [Sockets -> 0 .. Ttl + 1]
             /\ sinceSweep' \in 0 .. SweepGap
             /\ PoolBounded'
  <2>1. PICK d \in dead : TRUE
    BY <1>3
  <2>2. /\ IsFiniteSet(pool \ {d}) /\ Cardinality(pool \ {d}) = Cardinality(pool) - 1
    BY <1>0, <1>3, <2>1, FS_RemoveElement
  <2>3. /\ IsFiniteSet(pool \ dead) /\ Cardinality(pool \ dead) <= Cardinality(pool) - 1
        /\ Cardinality(pool \ dead) \in Nat
    <3>1. pool \ dead \in SUBSET (pool \ {d})
      BY <2>1
    <3>2. QED BY <2>2, <3>1, FS_Subset, FS_CardinalityType
  <2>4. Cardinality((pool \ dead) \cup {s}) = Cardinality(pool \ dead) + 1
    BY <2>3, FS_AddElement
  <2>5. Cardinality(pool') \in Nat /\ Cardinality(pool') <= Cardinality(pool)
    BY <1>0, <1>3, <2>3, <2>4
  <2>6. PoolBounded'
    BY <1>0, <2>5 DEF PoolBounded
  <2>7. (pool \cup {s}) \ pool' = dead
    BY <1>3
  <2>8. QED BY <1>0, <1>3, <2>6, <2>7 DEF TypeOK, Close
<1>4. CASE /\ Full /\ sinceSweep >= SweepGap
           /\ sinceSweep' = 0
           /\ \E E \in Oldest(MaxSweep) :
                LET dead == {t \in E : ~Healthy(t)} IN
                IF dead # {}
                THEN /\ pool' = (pool \ dead) \cup {s}
                     /\ idle' = [idle EXCEPT ![s] = 0]
                     /\ Close(dead)
                ELSE /\ Close({s})
                     /\ UNCHANGED <<pool, idle>>
  <2>1. PICK E \in Oldest(MaxSweep) :
          LET dead == {t \in E : ~Healthy(t)} IN
          IF dead # {}
          THEN /\ pool' = (pool \ dead) \cup {s}
               /\ idle' = [idle EXCEPT ![s] = 0]
               /\ Close(dead)
          ELSE /\ Close({s})
               /\ UNCHANGED <<pool, idle>>
    BY <1>4
  <2> DEFINE dead == {t \in E : ~Healthy(t)}
  <2>2. dead \subseteq pool
    BY DEF Oldest
  <2>3. sinceSweep' = 0 /\ sinceSweep' \in 0 .. SweepGap
    BY <1>0, <1>4
  <2>4. CASE dead # {}
    BY <1>3, <2>1, <2>2, <2>3, <2>4
  <2>5. CASE dead = {}
    BY <1>2, <2>1, <2>3, <2>5
  <2>6. QED BY <2>4, <2>5
<1>5. QED
  <2>1. CASE Full /\ sinceSweep < SweepGap /\ Close({s}) /\ UNCHANGED <<pool, idle, sinceSweep>>
    BY <1>2, <2>1 DEF TypeOK
  <2>2. QED BY <1>1, <1>4, <2>1 DEF Park
-----------------------------------------------------------------------------
LEMMA InitIInv == Init => IInv
<1> SUFFICES ASSUME Init PROVE IInv
  OBVIOUS
<1>1. TypeOK
  <2>1. 0 \in 0 .. Ttl + 1 /\ SweepGap \in 0 .. SweepGap /\ 0 \in 0 .. MaxCopies
    BY TransportAssumption
  <2>2. /\ idle \in [Sockets -> 0 .. Ttl + 1] /\ sinceSweep \in 0 .. SweepGap
        /\ copies \in [Queries -> 0 .. MaxCopies]
    BY <2>1 DEF Init
  <2>3. QED BY <2>2 DEF Init, TypeOK
<1>2. PoolBounded
  BY TransportAssumption, FS_EmptySet DEF Init, PoolBounded
<1>3. Attached /\ ParkedOpen
  BY TransportAssumption DEF Init, Attached, ParkedOpen
<1>4. ExclusiveUse /\ NoSocketLeaks
  BY TransportAssumption DEF Init, ExclusiveUse, NoSocketLeaks, Holds
<1>5. QED BY <1>1, <1>2, <1>3, <1>4 DEF IInv

\* Fewer sockets in the pool are no more than its size.
LEMMA FewerParked ==
  ASSUME TypeOK, PoolBounded, pool' \subseteq pool
  PROVE  PoolBounded'
<1>1. IsFiniteSet(pool) /\ Cardinality(pool) \in Nat
  BY TransportAssumption, FS_Subset, FS_CardinalityType DEF TypeOK
<1>2. IsFiniteSet(pool') /\ Cardinality(pool') <= Cardinality(pool) /\ Cardinality(pool') \in Nat
  BY <1>1, FS_Subset, FS_CardinalityType
<1>3. QED BY <1>1, <1>2, TransportAssumption DEF PoolBounded

LEMMA NextIInv == IInv /\ [Next]_vars => IInv'
<1> SUFFICES ASSUME IInv, [Next]_vars PROVE IInv'
  OBVIOUS
<1> USE TransportAssumption DEF IInv
<1>1. ASSUME NEW q \in Queries, TakePooled(q) PROVE IInv'
  <2>0. PICK n \in 0 .. TakeRounds - 1 : \E E \in Oldest(n), s \in pool :
          /\ TakeSkips(E)
          /\ s \notin E /\ Healthy(s)
          /\ pool' = pool \ (E \cup {s})
          /\ Close(E)
          /\ sock' = [sock EXCEPT ![q] = s]
    BY <1>1 DEF TakePooled
  <2>1. PICK E \in Oldest(n), s \in pool :
          /\ TakeSkips(E)
          /\ s \notin E /\ Healthy(s)
          /\ pool' = pool \ (E \cup {s})
          /\ Close(E)
          /\ sock' = [sock EXCEPT ![q] = s]
    BY <2>0
  <2>2. /\ pc[q] = "new" /\ pc' = [pc EXCEPT ![q] = "exchange"]
        /\ UNCHANGED <<proto, idle, sinceSweep, reply, net, copies, crashed>>
    BY <1>1 DEF TakePooled, Begins
  <2>3. E \subseteq pool /\ conn[s] = "open"
    BY <2>1 DEF Oldest, Healthy, ParkedOpen, TypeOK
  <2>4. TypeOK'
    BY <2>1, <2>2 DEF TypeOK, Close
  <2>5. Attached'
    BY <2>1, <2>2, <2>3 DEF Attached, TypeOK, Close, ExclusiveUse, Holds
  <2>6. ParkedOpen'
    BY <2>1, <2>2 DEF ParkedOpen, TypeOK, Close
  <2>7. ExclusiveUse'
    BY <2>1, <2>2 DEF ExclusiveUse, Holds, TypeOK
  <2>8. NoSocketLeaks'
    BY <2>1, <2>2 DEF NoSocketLeaks, Holds, TypeOK, Close
  <2>9. PoolBounded'
    BY <2>1, FewerParked
  <2>10. QED BY <2>4, <2>5, <2>6, <2>7, <2>8, <2>9
<1>2. ASSUME NEW q \in Queries, Connect(q) PROVE IInv'
  <2>0. NewSocket \in Unused
    BY <1>2 DEF Connect, NewSocket
  <2>1. PICK E \in Oldest(TakeRounds), s \in {NewSocket} :
          /\ pool' = pool \ E
          /\ conn' = [t \in Sockets |-> IF t \in E THEN "closed"
                                        ELSE IF t = s THEN "connecting" ELSE conn[t]]
          /\ sock' = [sock EXCEPT ![q] = s]
    BY <1>2 DEF Connect
  <2>2. /\ pc[q] = "new" /\ pc' = [pc EXCEPT ![q] = "connecting"]
        /\ UNCHANGED <<proto, idle, sinceSweep, reply, net, copies, crashed>>
    BY <1>2 DEF Connect, Begins
  <2>3. E \subseteq pool /\ s \in Sockets /\ conn[s] = "unused" /\ s \notin pool
    BY <2>0, <2>1 DEF Oldest, ParkedOpen, Unused
  <2>4. TypeOK'
    BY <2>1, <2>2, <2>3 DEF TypeOK
  <2>5. Attached'
    BY <2>1, <2>2, <2>3 DEF Attached, TypeOK, ExclusiveUse, Holds
  <2>6. ParkedOpen'
    BY <2>1, <2>2, <2>3 DEF ParkedOpen, TypeOK
  <2>7. ExclusiveUse'
    BY <2>1, <2>2, <2>3 DEF ExclusiveUse, Holds, TypeOK, Attached
  <2>8. NoSocketLeaks'
    BY <2>1, <2>2, <2>3 DEF NoSocketLeaks, Holds, TypeOK
  <2>9. PoolBounded'
    BY <2>1, FewerParked
  <2>10. QED BY <2>4, <2>5, <2>6, <2>7, <2>8, <2>9
<1>3. ASSUME NEW s \in Sockets, Connected(s) PROVE IInv'
  <2>1. /\ conn[s] = "connecting"
        /\ UNCHANGED <<proto, pool, idle, sinceSweep, sock, reply, net, copies, crashed>>
        /\ s \notin pool
    BY <1>3 DEF Connected, ParkedOpen
  <2>2. PoolBounded'
    BY <2>1 DEF PoolBounded
  <2>3. CASE /\ \E q \in Queries : pc[q] = "connecting" /\ sock[q] = s
             /\ conn' = [conn EXCEPT ![s] = "open"]
             /\ pc' = [q \in Queries |-> IF pc[q] = "connecting" /\ sock[q] = s
                                         THEN "exchange" ELSE pc[q]]
    <3>1. TypeOK'
      BY <2>1, <2>3 DEF TypeOK
    <3>2. Attached' /\ ParkedOpen' /\ ExclusiveUse' /\ NoSocketLeaks'
      BY <2>1, <2>3 DEF Attached, ParkedOpen, ExclusiveUse, NoSocketLeaks, Holds, TypeOK
    <3>3. QED BY <2>2, <3>1, <3>2
  <2>4. CASE /\ ~\E q \in Queries : pc[q] = "connecting" /\ sock[q] = s
             /\ conn' = [conn EXCEPT ![s] = "closed"] /\ UNCHANGED pc
    <3>1. TypeOK'
      BY <2>1, <2>4 DEF TypeOK
    <3>2. Attached' /\ ParkedOpen' /\ ExclusiveUse' /\ NoSocketLeaks'
      BY <2>1, <2>4 DEF Attached, ParkedOpen, ExclusiveUse, NoSocketLeaks, Holds, TypeOK
    <3>3. QED BY <2>2, <3>1, <3>2
  <2>5. QED BY <1>3, <2>3, <2>4 DEF Connected
<1>4. ASSUME NEW q \in Queries, ConnectElapsed(q) PROVE IInv'
  <2>1. TypeOK'
    BY <1>4 DEF ConnectElapsed, TypeOK
  <2>2. Attached' /\ ParkedOpen' /\ ExclusiveUse' /\ NoSocketLeaks'
    BY <1>4 DEF ConnectElapsed, Attached, ParkedOpen, ExclusiveUse, NoSocketLeaks, Holds, TypeOK
  <2>3. PoolBounded'
    BY <1>4 DEF ConnectElapsed, PoolBounded
  <2>4. QED BY <2>1, <2>2, <2>3
<1>5. ASSUME NEW q \in Queries, ExchangeFails(q) PROVE IInv'
  <2>1. TypeOK'
    BY <1>5 DEF ExchangeFails, TypeOK, Close
  <2>2. Attached' /\ ParkedOpen' /\ ExclusiveUse' /\ NoSocketLeaks'
    BY <1>5 DEF ExchangeFails, Attached, ParkedOpen, ExclusiveUse, NoSocketLeaks, Holds, TypeOK, Close
  <2>3. PoolBounded'
    BY <1>5 DEF ExchangeFails, PoolBounded
  <2>4. QED BY <2>1, <2>2, <2>3
<1>6. ASSUME NEW q \in Queries, Upstream(q) PROVE IInv'
  <2>1. copies[q] \in 0 .. MaxCopies - 1 /\ sock[q] \in Sockets
    BY <1>6 DEF Upstream, TypeOK
  <2>2. TypeOK'
    BY <1>6, <2>1 DEF Upstream, TypeOK
  <2>3. Attached' /\ ParkedOpen' /\ ExclusiveUse' /\ NoSocketLeaks' /\ PoolBounded'
    BY <1>6 DEF Upstream, Attached, ParkedOpen, ExclusiveUse, NoSocketLeaks, Holds, PoolBounded
  <2>4. QED BY <2>2, <2>3
<1>7. ASSUME NEW m \in net, Receive(m) PROVE IInv'
  <2> DEFINE s == m[1]
             listening == {x \in Queries : pc[x] = "exchange" /\ sock[x] = s}
  <2>1. /\ s \in Sockets /\ m[2] \in Queries /\ conn[s] = "open"
        /\ net' = net \ {m} /\ UNCHANGED <<proto, sock, copies, crashed>>
    BY <1>7 DEF Receive, TypeOK
  <2>2. CASE listening = {} /\ UNCHANGED <<conn, pool, idle, sinceSweep, pc, reply>>
    <3>1. TypeOK'
      BY <2>1, <2>2 DEF TypeOK
    <3>2. QED
      BY <2>1, <2>2, <3>1
      DEF Attached, ParkedOpen, ExclusiveUse, NoSocketLeaks, Holds, PoolBounded
  <2>3. CASE /\ listening # {}
             /\ pc' = [x \in Queries |-> IF x \in listening THEN "done" ELSE pc[x]]
             /\ reply' = [x \in Queries |-> IF x \in listening THEN m[2] ELSE reply[x]]
             /\ Park(s)
    <3>1. PICK q \in Queries : pc[q] = "exchange" /\ sock[q] = s
      BY <2>3
    <3>2. s \notin pool /\ \A r \in Queries : Holds(r, s) => r = q
      BY <3>1, <2>1 DEF ExclusiveUse, Holds
    <3>3. /\ pool' \subseteq pool \cup {s}
          /\ conn' = [t \in Sockets |-> IF t \in (pool \cup {s}) \ pool' THEN "closed"
                                        ELSE conn[t]]
          /\ idle' \in [Sockets -> 0 .. Ttl + 1]
          /\ sinceSweep' \in 0 .. SweepGap
          /\ PoolBounded'
      BY <2>1, <2>3, <3>2, Parks
    <3>4. TypeOK'
      BY <2>1, <2>3, <3>3 DEF TypeOK
    <3>5. Attached'
      BY <2>1, <2>3, <3>2, <3>3 DEF Attached, TypeOK, ExclusiveUse, Holds, ParkedOpen
    <3>6. ParkedOpen'
      BY <2>1, <3>3 DEF ParkedOpen, TypeOK
    <3>7. ExclusiveUse'
      <4>1. \A t \in Sockets, x \in Queries : Holds(x, t)' => Holds(x, t) /\ t # s
        BY <2>1, <2>3, <3>2 DEF Holds, TypeOK
      <4>2. QED BY <3>3, <4>1 DEF ExclusiveUse
    <3>8. NoSocketLeaks'
      BY <2>1, <2>3, <3>3 DEF NoSocketLeaks, Holds, TypeOK
    <3>9. QED BY <3>3, <3>4, <3>5, <3>6, <3>7, <3>8
  <2>4. QED BY <1>7, <2>2, <2>3 DEF Receive
<1>8. ASSUME NEW s \in Sockets, TcpConnectFails(s) \/ UdpConnectFails(s) \/ ParkedFails(s)
      PROVE  IInv'
  <2>1. crashed' = TRUE /\ UNCHANGED <<proto, conn, pool, idle, sinceSweep, pc, sock, reply, net, copies>>
    BY <1>8 DEF TcpConnectFails, UdpConnectFails, ParkedFails
  <2>2. TypeOK'
    BY <2>1 DEF TypeOK
  <2>3. QED
    BY <2>1, <2>2 DEF Attached, ParkedOpen, ExclusiveUse, NoSocketLeaks, Holds, PoolBounded
<1>9. ASSUME NEW s \in Sockets, ParkedCloses(s) PROVE IInv'
  <2>1. TypeOK'
    BY <1>9 DEF ParkedCloses, TypeOK, Close
  <2>2. Attached' /\ ParkedOpen' /\ ExclusiveUse' /\ NoSocketLeaks'
    BY <1>9 DEF ParkedCloses, Attached, ParkedOpen, ExclusiveUse, NoSocketLeaks, Holds, TypeOK, Close
  <2>3. PoolBounded'
    BY <1>9 DEF ParkedCloses, PoolBounded
  <2>4. QED BY <2>1, <2>2, <2>3
<1>10. ASSUME Teardown PROVE IInv'
  <2>1. TypeOK'
    BY <1>10 DEF Teardown, TypeOK, Close
  <2>2. Attached' /\ ParkedOpen' /\ ExclusiveUse' /\ NoSocketLeaks'
    BY <1>10 DEF Teardown, Attached, ParkedOpen, ExclusiveUse, NoSocketLeaks, Holds, TypeOK, Close
  <2>3. PoolBounded'
    BY <1>10, FewerParked DEF Teardown
  <2>4. QED BY <2>1, <2>2, <2>3
<1>11. ASSUME Tick PROVE IInv'
  <2>1. TypeOK'
    <3>1. \A t \in Sockets : Fresh(t) => idle[t] + 1 \in 0 .. Ttl + 1
      BY DEF TypeOK, Fresh
    <3>2. idle' \in [Sockets -> 0 .. Ttl + 1]
      BY <1>11, <3>1 DEF Tick, TypeOK
    <3>3. sinceSweep' \in 0 .. SweepGap
      BY <1>11 DEF Tick, TypeOK
    <3>4. QED BY <1>11, <3>2, <3>3 DEF Tick, TypeOK
  <2>2. QED
    BY <1>11, <2>1 DEF Tick, Attached, ParkedOpen, ExclusiveUse, NoSocketLeaks, Holds, PoolBounded
<1>12. CASE UNCHANGED vars
  BY <1>12 DEF vars, TypeOK, Attached, ParkedOpen, ExclusiveUse, NoSocketLeaks, Holds, PoolBounded
<1>13. QED
  BY <1>1, <1>2, <1>3, <1>4, <1>5, <1>6, <1>7, <1>8, <1>9, <1>10, <1>11, <1>12 DEF Next, Step

\* Sockets are used by one query at a time and only while they are open, none
\* leaks and the pool keeps within its size.
THEOREM SocketSafety ==
  Spec => [](TypeOK /\ ExclusiveUse /\ NoneWrittenToClosed /\ NoSocketLeaks /\ PoolBounded)
<1>1. IInv => NoneWrittenToClosed
  BY DEF IInv, Attached, NoneWrittenToClosed
<1>2. IInv => TypeOK /\ ExclusiveUse /\ NoSocketLeaks /\ PoolBounded
  BY DEF IInv
<1>3. QED BY InitIInv, NextIInv, <1>1, <1>2, PTL DEF Spec
-----------------------------------------------------------------------------
\* Over tcp, and over udp if the network delivers a datagram at most once, there
\* is one answer to a query.
SingleCopies == proto = "tcp" \/ MaxCopies = 1

LEMMA ProtoStays == [Next]_vars => proto' = proto
BY DEF Next, Step, vars, TakePooled, Connect, ConnectElapsed, Upstream, ExchangeFails, Connected,
       TcpConnectFails, UdpConnectFails, ParkedCloses, ParkedFails, Receive, Teardown, Tick

\* Then an answer on its way to an open socket is one its query waits for there,
AnswersAwaited ==
  \A m \in net :
    /\ m[3] = 0 /\ copies[m[2]] = 1
    /\ conn[m[1]] \in {"open", "closed"}
    /\ conn[m[1]] = "open" => pc[m[2]] = "exchange" /\ sock[m[2]] = m[1]

\* and none that has not been sent yet can find the socket open later.
UnansweredAwait ==
  \A q \in Queries :
    sock[q] \in Sockets /\ conn[sock[q]] = "open" /\ copies[q] = 0 => pc[q] = "exchange"

DoneIsReplied == \A q \in Queries : pc[q] = "done" <=> reply[q] # NoReply

AInv == AnswersAwaited /\ UnansweredAwait /\ DoneIsReplied /\ AnswersOwnQuery

LEMMA InitAInv == Init => AInv
BY TransportAssumption
DEF Init, AInv, AnswersAwaited, UnansweredAwait, DoneIsReplied, AnswersOwnQuery

\* The step in which an answer comes in; the query it is delivered to asked for it.
LEMMA ReceivesOwn ==
  ASSUME SingleCopies, IInv, AInv, NEW m \in net, Receive(m),
         UNCHANGED <<conn, pool, idle, sinceSweep, pc, reply>> => FALSE
  PROVE  /\ m[2] \in Queries /\ m[1] \in Sockets
         /\ pc[m[2]] = "exchange" /\ sock[m[2]] = m[1]
         /\ pc' = [pc EXCEPT ![m[2]] = "done"]
         /\ reply' = [reply EXCEPT ![m[2]] = m[2]]
         /\ copies[m[2]] = 1
<1> DEFINE listening == {x \in Queries : pc[x] = "exchange" /\ sock[x] = m[1]}
<1>1. /\ m[1] \in Sockets /\ m[2] \in Queries /\ conn[m[1]] = "open"
  BY DEF Receive, IInv, TypeOK
<1>2. pc[m[2]] = "exchange" /\ sock[m[2]] = m[1] /\ copies[m[2]] = 1
  BY <1>1 DEF AInv, AnswersAwaited
<1>3. listening = {m[2]}
  BY <1>1, <1>2 DEF IInv, ExclusiveUse, Holds
<1>4. /\ pc' = [x \in Queries |-> IF x \in listening THEN "done" ELSE pc[x]]
      /\ reply' = [x \in Queries |-> IF x \in listening THEN m[2] ELSE reply[x]]
  BY <1>3 DEF Receive
<1>5. QED BY <1>1, <1>2, <1>3, <1>4 DEF IInv, TypeOK

LEMMA NextAInv ==
  ASSUME SingleCopies, IInv, IInv', AInv, [Next]_vars
  PROVE  AInv'
<1> USE TransportAssumption DEF AInv
<1>0. TypeOK /\ TypeOK' /\ Attached /\ Attached' /\ ParkedOpen /\ ExclusiveUse
  BY DEF IInv
<1>00. \A m \in net : /\ m[1] \in Sockets /\ m[2] \in Queries
                     /\ m = <<m[1], m[2], 0>>
  BY <1>0 DEF AnswersAwaited, TypeOK
<1>1. ASSUME NEW q \in Queries, TakePooled(q) PROVE AInv'
  <2>1. /\ pc[q] = "new" /\ pc' = [pc EXCEPT ![q] = "exchange"]
        /\ UNCHANGED <<reply, net, copies>>
    BY <1>1 DEF TakePooled, Begins
  <2>2. PICK n \in 0 .. TakeRounds - 1 : \E E \in Oldest(n), s \in pool :
          Close(E) /\ sock' = [sock EXCEPT ![q] = s]
    BY <1>1 DEF TakePooled
  <2>3. PICK E \in Oldest(n), s \in pool : Close(E) /\ sock' = [sock EXCEPT ![q] = s]
    BY <2>2
  <2>4. E \subseteq pool /\ s \in Sockets
    BY <1>0 DEF Oldest, TypeOK
  <2>5. AnswersAwaited'
    BY <1>0, <2>1, <2>3, <2>4 DEF AnswersAwaited, TypeOK, Close
  <2>6. UnansweredAwait'
    BY <1>0, <2>1, <2>3, <2>4 DEF UnansweredAwait, TypeOK, Close
  <2>7. DoneIsReplied' /\ AnswersOwnQuery'
    BY <1>0, <2>1 DEF DoneIsReplied, AnswersOwnQuery, TypeOK
  <2>8. QED BY <2>5, <2>6, <2>7
<1>2. ASSUME NEW q \in Queries, Connect(q) PROVE AInv'
  <2>0. NewSocket \in Unused
    BY <1>2 DEF Connect, NewSocket
  <2>1. /\ pc[q] = "new" /\ pc' = [pc EXCEPT ![q] = "connecting"]
        /\ UNCHANGED <<reply, net, copies>>
    BY <1>2 DEF Connect, Begins
  <2>2. PICK E \in Oldest(TakeRounds), s \in {NewSocket} :
          /\ conn' = [t \in Sockets |-> IF t \in E THEN "closed"
                                        ELSE IF t = s THEN "connecting" ELSE conn[t]]
          /\ sock' = [sock EXCEPT ![q] = s]
    BY <1>2 DEF Connect
  <2>3. E \subseteq pool /\ s \in Sockets /\ conn[s] = "unused"
    BY <2>0, <2>2 DEF Oldest, Unused
  <2>4. AnswersAwaited'
    BY <1>0, <2>1, <2>2, <2>3 DEF AnswersAwaited, TypeOK
  <2>5. UnansweredAwait'
    BY <1>0, <2>1, <2>2, <2>3 DEF UnansweredAwait, TypeOK
  <2>6. DoneIsReplied' /\ AnswersOwnQuery'
    BY <1>0, <2>1 DEF DoneIsReplied, AnswersOwnQuery, TypeOK
  <2>7. QED BY <2>4, <2>5, <2>6
<1>3. ASSUME NEW s \in Sockets, Connected(s) PROVE AInv'
  <2>1. /\ conn[s] = "connecting" /\ UNCHANGED <<sock, reply, net, copies>>
        /\ \/ /\ conn' = [conn EXCEPT ![s] = "open"]
              /\ pc' = [q \in Queries |-> IF pc[q] = "connecting" /\ sock[q] = s
                                          THEN "exchange" ELSE pc[q]]
           \/ conn' = [conn EXCEPT ![s] = "closed"] /\ UNCHANGED pc
    BY <1>3 DEF Connected
  <2>2. AnswersAwaited'
    <3>1. \A m \in net : m[1] # s
      BY <2>1 DEF AnswersAwaited
    <3>2. \A t \in Sockets : t # s => conn'[t] = conn[t]
      BY <1>0, <2>1 DEF TypeOK
    <3>3. \A q \in Queries : pc[q] = "exchange" => pc'[q] = "exchange"
      BY <2>1
    <3>4. QED BY <1>00, <2>1, <3>1, <3>2, <3>3 DEF AnswersAwaited
  <2>3. UnansweredAwait'
    BY <1>0, <2>1 DEF UnansweredAwait, TypeOK, Attached
  <2>4. DoneIsReplied' /\ AnswersOwnQuery'
    BY <1>0, <2>1 DEF DoneIsReplied, AnswersOwnQuery, TypeOK
  <2>5. QED BY <2>2, <2>3, <2>4
<1>4. ASSUME NEW q \in Queries, ConnectElapsed(q) \/ ExchangeFails(q) PROVE AInv'
  <2>1. /\ pc[q] \in {"connecting", "exchange"} /\ pc' = [pc EXCEPT ![q] = "done"]
        /\ reply' = [reply EXCEPT ![q] = Failure]
        /\ UNCHANGED <<net, copies>>
        /\ \/ pc[q] = "connecting" /\ sock' = [sock EXCEPT ![q] = NoSocket] /\ UNCHANGED conn
           \/ Close({sock[q]}) /\ UNCHANGED sock
    BY <1>4 DEF ConnectElapsed, ExchangeFails
  <2>2. AnswersAwaited'
    <3>1. CASE pc[q] = "connecting" /\ sock' = [sock EXCEPT ![q] = NoSocket] /\ UNCHANGED conn
      <4>1. \A m \in net : conn[m[1]] = "open" => m[2] # q
        BY <3>1 DEF AnswersAwaited
      <4>2. QED BY <1>0, <1>00, <2>1, <3>1, <4>1 DEF AnswersAwaited, TypeOK
    <3>2. CASE Close({sock[q]}) /\ UNCHANGED sock
      <4>1. \A m \in net : /\ conn'[m[1]] \in {conn[m[1]], "closed"}
                           /\ conn'[m[1]] = "open" => conn[m[1]] = "open" /\ m[2] # q
        BY <1>0, <1>00, <3>2 DEF AnswersAwaited, TypeOK, Close
      <4>2. QED BY <1>0, <1>00, <2>1, <3>2, <4>1 DEF AnswersAwaited, TypeOK
    <3>3. QED BY <2>1, <3>1, <3>2
  <2>3. UnansweredAwait'
    BY <1>0, <2>1 DEF UnansweredAwait, TypeOK, Close
  <2>4. DoneIsReplied' /\ AnswersOwnQuery'
    BY <1>0, <2>1 DEF DoneIsReplied, AnswersOwnQuery, TypeOK
  <2>5. QED BY <2>2, <2>3, <2>4
<1>5. ASSUME NEW q \in Queries, Upstream(q) PROVE AInv'
  <2>1. /\ sock[q] \in Sockets /\ conn[sock[q]] = "open" /\ copies[q] = 0
        /\ copies' = [copies EXCEPT ![q] = 1]
        /\ net' = net \cup {<<sock[q], q, 0>>}
        /\ UNCHANGED <<conn, pc, sock, reply>>
    <3>0. copies[q] \in Nat
      BY <1>0 DEF TypeOK
    <3>1. copies[q] < 1
      <4>1. CASE proto = "tcp"
        BY <1>5, <4>1 DEF Upstream
      <4>2. CASE MaxCopies = 1
        BY <1>5, <4>2 DEF Upstream
      <4>3. QED BY <4>1, <4>2 DEF SingleCopies
    <3>2. copies[q] = 0
      BY <3>0, <3>1
    <3>3. QED BY <1>0, <1>5, <3>2 DEF Upstream, TypeOK
  <2>2. pc[q] = "exchange"
    BY <2>1 DEF UnansweredAwait
  <2>3. AnswersAwaited'
    BY <1>0, <2>1, <2>2 DEF AnswersAwaited, TypeOK
  <2>4. UnansweredAwait' /\ DoneIsReplied' /\ AnswersOwnQuery'
    BY <1>0, <2>1 DEF UnansweredAwait, DoneIsReplied, AnswersOwnQuery, TypeOK
  <2>5. QED BY <2>3, <2>4
<1>6. ASSUME NEW m \in net, Receive(m) PROVE AInv'
  <2>1. net' = net \ {m} /\ UNCHANGED <<sock, copies>>
    BY <1>6 DEF Receive
  <2>2. CASE UNCHANGED <<conn, pool, idle, sinceSweep, pc, reply>>
    BY <2>1, <2>2 DEF AnswersAwaited, UnansweredAwait, DoneIsReplied, AnswersOwnQuery
  <2>3. CASE ~UNCHANGED <<conn, pool, idle, sinceSweep, pc, reply>>
    <3> DEFINE q == m[2]
    <3>1. /\ q \in Queries /\ m[1] \in Sockets
          /\ pc[q] = "exchange" /\ sock[q] = m[1]
          /\ pc' = [pc EXCEPT ![q] = "done"]
          /\ reply' = [reply EXCEPT ![q] = q]
          /\ copies[q] = 1
      BY <1>6, <2>3, ReceivesOwn
    <3>2. m[1] \notin pool /\ Park(m[1])
      BY <1>0, <1>6, <2>3, <3>1 DEF Receive, ExclusiveUse, Holds
    <3>3. \A t \in Sockets : conn'[t] = conn[t] \/ conn'[t] = "closed"
      BY <3>1, <3>2, Parks DEF IInv
    <3>4. \A a \in net' : a[2] = q => conn[a[1]] # "open"
      <4>1. \A a \in net : a[2] = q /\ conn[a[1]] = "open" => a[1] = m[1]
        BY <3>1 DEF AnswersAwaited
      <4>2. QED BY <1>00, <2>1, <4>1
    <3>5. AnswersAwaited'
      BY <1>0, <2>1, <3>1, <3>3, <3>4 DEF AnswersAwaited, TypeOK
    <3>6. UnansweredAwait'
      BY <1>0, <2>1, <3>1, <3>3 DEF UnansweredAwait, TypeOK
    <3>7. DoneIsReplied' /\ AnswersOwnQuery'
      BY <1>0, <3>1 DEF DoneIsReplied, AnswersOwnQuery, TypeOK
    <3>8. QED BY <3>5, <3>6, <3>7
  <2>4. QED BY <2>2, <2>3
<1>7. ASSUME UNCHANGED <<pc, sock, reply, net, copies>>,
             \A t \in Sockets : conn'[t] = conn[t] \/ conn'[t] = "closed"
      PROVE  AInv'
  BY <1>0, <1>7 DEF AnswersAwaited, UnansweredAwait, DoneIsReplied, AnswersOwnQuery, TypeOK
<1>8. ASSUME NEW s \in Sockets,
            TcpConnectFails(s) \/ UdpConnectFails(s) \/ ParkedFails(s) \/ ParkedCloses(s)
      PROVE  AInv'
  BY <1>7, <1>8 DEF TcpConnectFails, UdpConnectFails, ParkedFails, ParkedCloses, Close
<1>9. ASSUME Teardown \/ Tick \/ UNCHANGED vars PROVE AInv'
  BY <1>7, <1>9 DEF Teardown, Tick, vars, Close
<1>10. QED
  BY <1>1, <1>2, <1>3, <1>4, <1>5, <1>6, <1>8, <1>9 DEF Next, Step

\* What does not change: the invariants, and that there is one answer to a query.
CInv == IInv /\ AInv /\ SingleCopies

LEMMA InitCInv == Init /\ SingleCopies => CInv
BY InitIInv, InitAInv DEF CInv

LEMMA NextCInv == CInv /\ [Next]_vars => CInv'
BY NextIInv, NextAInv, ProtoStays DEF CInv, SingleCopies

\* No id is compared anywhere, and yet every query is answered by its own answer:
\* over tcp, and over udp as long as the network delivers no datagram twice.
THEOREM OwnAnswers == Spec /\ SingleCopies => []AnswersOwnQuery
<1>1. Init /\ SingleCopies => CInv
  BY InitCInv
<1>2. CInv /\ [Next]_vars => CInv'
  BY NextCInv
<1>3. CInv => AnswersOwnQuery
  BY DEF CInv, AInv
<1>4. QED BY <1>1, <1>2, <1>3, PTL DEF Spec
-----------------------------------------------------------------------------
Asked == {q \in Queries : pc[q] # "new"}

LEMMA StepRefines ==
  ASSUME SingleCopies, IInv, AInv, [Next]_vars
  PROVE  [Promise!Next]_Promise!vars
<1> USE DEF Promise!Next, Promise!Ask, Promise!Reply, Promise!vars
<1>0. TypeOK
  BY DEF IInv
<1>1. ASSUME NEW q \in Queries, TakePooled(q) \/ Connect(q)
      PROVE  Promise!Next
  <2>1. /\ pc[q] = "new" /\ UNCHANGED reply
        /\ \E p \in {"exchange", "connecting"} : pc' = [pc EXCEPT ![q] = p]
    BY <1>1 DEF TakePooled, Connect, Begins
  <2>2. q \notin Asked /\ Asked' = Asked \cup {q}
    BY <1>0, <2>1 DEF Asked, TypeOK
  <2>3. QED BY <2>1, <2>2 DEF Asked
<1>2. ASSUME NEW q \in Queries, NEW v \in {q, Failure}, pc[q] \in {"connecting", "exchange"},
             pc' = [pc EXCEPT ![q] = "done"], reply' = [reply EXCEPT ![q] = v]
      PROVE  Promise!Next
  <2>1. Asked' = Asked /\ q \in Asked
    BY <1>0, <1>2 DEF Asked, TypeOK
  <2>2. reply[q] = NoReply
    BY <1>2 DEF AInv, DoneIsReplied
  <2>3. QED BY <1>2, <2>1, <2>2 DEF Asked, Same
<1>3. ASSUME NEW q \in Queries, ConnectElapsed(q) \/ ExchangeFails(q)
      PROVE  Promise!Next
  BY <1>2, <1>3 DEF ConnectElapsed, ExchangeFails
<1>4. ASSUME NEW m \in net, Receive(m)
      PROVE  [Promise!Next]_Promise!vars
  <2>1. CASE UNCHANGED <<conn, pool, idle, sinceSweep, pc, reply>>
    BY <2>1
  <2>2. CASE ~UNCHANGED <<conn, pool, idle, sinceSweep, pc, reply>>
    BY <1>2, <1>4, <2>2, ReceivesOwn
  <2>3. QED BY <2>1, <2>2
<1>5. ASSUME NEW s \in Sockets, Connected(s)
      PROVE  UNCHANGED Promise!vars
  <2>1. /\ UNCHANGED reply
        /\ \/ pc' = [q \in Queries |-> IF pc[q] = "connecting" /\ sock[q] = s
                                       THEN "exchange" ELSE pc[q]]
           \/ UNCHANGED pc
    BY <1>5 DEF Connected
  <2>2. Asked' = Asked
    BY <1>0, <2>1 DEF Asked, TypeOK
  <2>3. QED BY <2>1, <2>2 DEF Asked
<1>6. ASSUME UNCHANGED <<pc, reply>> PROVE UNCHANGED Promise!vars
  BY <1>6
<1>7. ASSUME NEW q \in Queries, Upstream(q) PROVE UNCHANGED Promise!vars
  BY <1>6, <1>7 DEF Upstream
<1>8. ASSUME NEW s \in Sockets,
            TcpConnectFails(s) \/ UdpConnectFails(s) \/ ParkedFails(s) \/ ParkedCloses(s)
      PROVE  UNCHANGED Promise!vars
  BY <1>6, <1>8 DEF TcpConnectFails, UdpConnectFails, ParkedFails, ParkedCloses
<1>9. ASSUME Teardown \/ Tick \/ UNCHANGED vars PROVE UNCHANGED Promise!vars
  BY <1>6, <1>9 DEF Teardown, Tick, vars
<1>10. QED
  BY <1>1, <1>3, <1>4, <1>5, <1>7, <1>8, <1>9 DEF Next, Step

\* The pool and its exchanges implement the resolution every caller of the
\* transport counts on: at most one reply to a query, a failure or its answer.
THEOREM TransportResolves == Spec /\ SingleCopies => ImplementsResolution
<1>1. Init => Promise!Init
  BY DEF Init, Promise!Init
<1>2. Init /\ SingleCopies => CInv
  BY InitCInv
<1>3. CInv /\ [Next]_vars => CInv'
  BY NextCInv
<1>4. CInv /\ [Next]_vars => [Promise!Next]_Promise!vars
  BY StepRefines DEF CInv
<1>5. QED
  BY <1>1, <1>2, <1>3, <1>4, PTL DEF Spec, ImplementsResolution, Promise!Spec
-----------------------------------------------------------------------------
\* However many copies of answers come in, and however late: a query is replied
\* to as it is done, which it is once, and goes on to nothing from there.  As
\* each step of a query's own brings it closer to that, and a timer runs while
\* it is connecting or exchanging, the reply is due in finitely many of them.
Left(p) == CASE p = "new" -> 3 [] p = "connecting" -> 2 [] p = "exchange" -> 1 [] p = "done" -> 0

SettlesOnce ==
  \A q \in Queries :
    /\ reply[q] # NoReply => reply'[q] = reply[q]
    /\ pc'[q] # pc[q] => Left(pc'[q]) < Left(pc[q])
    /\ pc[q] # "done" /\ pc'[q] = "done" => reply'[q] # NoReply

LEMMA StepSettlesOnce ==
  IInv /\ DoneIsReplied /\ [Next]_vars => SettlesOnce /\ DoneIsReplied'
<1> SUFFICES ASSUME IInv, DoneIsReplied, [Next]_vars PROVE SettlesOnce /\ DoneIsReplied'
  OBVIOUS
<1> USE TransportAssumption DEF SettlesOnce, DoneIsReplied, Left
<1>0. TypeOK
  BY DEF IInv
<1>1. ASSUME NEW q \in Queries, TakePooled(q) \/ Connect(q)
      PROVE  SettlesOnce /\ DoneIsReplied'
  BY <1>0, <1>1 DEF TakePooled, Connect, Begins, TypeOK
<1>2. ASSUME NEW q \in Queries, ConnectElapsed(q) \/ ExchangeFails(q)
      PROVE  SettlesOnce /\ DoneIsReplied'
  BY <1>0, <1>2 DEF ConnectElapsed, ExchangeFails, TypeOK
<1>3. ASSUME NEW m \in net, Receive(m)
      PROVE  SettlesOnce /\ DoneIsReplied'
  <2>1. m[2] \in Queries /\ m[2] # NoReply
    BY <1>0 DEF TypeOK
  <2> DEFINE listening == {x \in Queries : pc[x] = "exchange" /\ sock[x] = m[1]}
  <2>2. CASE listening = {}
    BY <1>3, <2>2 DEF Receive
  <2>3. CASE listening # {}
    <3>1. /\ pc' = [x \in Queries |-> IF x \in listening THEN "done" ELSE pc[x]]
          /\ reply' = [x \in Queries |-> IF x \in listening THEN m[2] ELSE reply[x]]
      BY <1>3, <2>3 DEF Receive
    <3>2. QED BY <2>1, <3>1
  <2>4. QED BY <2>2, <2>3
<1>4. ASSUME NEW s \in Sockets, Connected(s)
      PROVE  SettlesOnce /\ DoneIsReplied'
  BY <1>0, <1>4 DEF Connected, TypeOK
<1>5. CASE UNCHANGED <<pc, reply>>
  BY <1>5
<1>6. QED
  BY <1>1, <1>2, <1>3, <1>4, <1>5
  DEF Next, Step, vars, Upstream, TcpConnectFails, UdpConnectFails, ParkedFails, ParkedCloses, Teardown, Tick

\* On any network: each query is settled at most once, in at most three steps of
\* its own.
THEOREM SettledOnce == Spec => [][SettlesOnce]_vars
<1>1. Init => IInv /\ DoneIsReplied
  BY InitIInv, InitAInv DEF AInv
<1>2. IInv /\ DoneIsReplied /\ [Next]_vars => IInv' /\ DoneIsReplied' /\ SettlesOnce
  BY NextIInv, StepSettlesOnce
<1>3. QED BY <1>1, <1>2, PTL DEF Spec
=============================================================================
