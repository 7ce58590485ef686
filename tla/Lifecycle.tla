------------------------------ MODULE Lifecycle ------------------------------
(***************************************************************************)
(* A process on Node, from boot to exit: the chain of sticky events that   *)
(* brings it up (src/core/node/config.js, src/core/svc.js), its servers,   *)
(* the connections they track, the limit on those, and how the process     *)
(* stops (src/server-node.js); with the certificates of Certs.             *)
(*                                                                         *)
(* A listener runs in the turn in which its event is published: nothing    *)
(* comes between "ready" and "steady", nor between "go" and systemUp().    *)
(***************************************************************************)
EXTENDS Certs, FiniteSets

CONSTANTS
  ClearServers,   \* dotct and dohct: the servers when TLS is offloaded
  PlainServers,   \* hcheck, and dot2 if any: those that never terminate TLS
  Sockets, Addrs, \* connections, and remote addresses with ports
  PortReuse,      \* may a port come back before its last 'close' is emitted?
  MinConns, MaxConns, Breakpoint, Stresspoint,
  Averages,       \* load averages, in percent
  IsCloud         \* ~notCloud

Servers == TlsServers \cup ClearServers \cup PlainServers
NoAddr == "gone"   \* of a socket that was destroyed before it was looked at
Idle == [st |-> "none", srv |-> "none", addr |-> NoAddr]

ASSUME LifecycleAssumption ==
  /\ NoAddr \notin Addrs /\ "none" \notin Servers
  /\ IsFiniteSet(Sockets)
  /\ PortReuse \in BOOLEAN /\ IsCloud \in BOOLEAN
  /\ MinConns \in Nat /\ MaxConns \in Nat
  /\ Breakpoint \in Nat /\ Stresspoint \in Nat /\ Averages \subseteq Nat

VARIABLES
  boot,        \* the event whose listeners run next, or "up", or "exited"
  tlsoffload,  \* TLS_OFFLOAD
  ready,       \* services.ready
  listening,   \* the servers that listen
  srvs,        \* tracker.srvs
  connmap,     \* tracker.connmap: server -> (address -> socket)
  conn,        \* every socket accepted and not gone
  limit,       \* maxConnections of the servers
  adj,         \* stats.bp[3]
  adjTimer,    \* adjustMaxConns() runs periodically
  endtimer,    \* stopProc() runs soon
  stopped      \* systemDown() has run; its bye() is next

bootVars == <<boot, tlsoffload, ready>>
connVars == <<listening, srvs, connmap, conn>>
loadVars == <<limit, adj, adjTimer>>
lifeVars == <<bootVars, connVars, loadVars, endtimer, stopped>>
vars == <<lifeVars, certVars>>

NoneTracked == [s \in {} |-> [a \in {} |-> {}]]
Unlimited == Cardinality(Sockets) + 1

Init ==
  /\ CertsInit
  /\ boot = "prepare" /\ tlsoffload \in BOOLEAN
  /\ ready = FALSE
  /\ listening = {} /\ srvs = {} /\ connmap = NoneTracked
  /\ conn = [c \in Sockets |-> Idle]
  /\ limit = Unlimited /\ adj = 0 /\ adjTimer = FALSE
  /\ endtimer = FALSE /\ stopped = FALSE

Running == boot # "exited"

Exit ==
  /\ boot' = "exited"
  /\ UNCHANGED <<tlsoffload, ready, connVars, loadVars,
                 endtimer, stopped, certVars>>
-----------------------------------------------------------------------------
\* prep(): reads the environment, and publishes "ready".  Whether TLS is
\* offloaded is known from here on.
Prep ==
  /\ boot = "prepare"
  /\ boot' = "ready"
  /\ UNCHANGED <<tlsoffload, ready, connVars, loadVars,
                 endtimer, stopped, certVars>>

\* systemReady(): makes the services, and publishes "steady".
SystemReady ==
  /\ boot = "ready"
  /\ ready' = TRUE
  /\ boot' = "steady"
  /\ UNCHANGED <<tlsoffload, connVars, loadVars,
                 endtimer, stopped, certVars>>

\* up(): once the blocklists are set up, found disabled or have failed to load,
\* and so has the geo-ip database, SIGINT is listened to and "go" published.
Up ==
  /\ boot = "steady" /\ ready
  /\ boot' = "go"
  /\ UNCHANGED <<tlsoffload, ready, connVars, loadVars,
                 endtimer, stopped, certVars>>

\* prep() or up() throws, or a server cannot listen: nobody handles that.
BootFails ==
  /\ boot \in {"prepare", "steady", "go"}
  /\ Exit

\* systemUp() in download mode: nothing is left to do.
DownloadOnly ==
  /\ boot = "go"
  /\ Exit

\* systemUp(), and the 'listening' callbacks: servers are tracked, and those
\* with TLS have their certificates updated.  A profiler stops after a minute.
SystemUp(profiler) ==
  LET on == PlainServers \cup (IF tlsoffload THEN ClearServers ELSE TlsServers)
  IN  /\ boot = "go"
      /\ boot' = "up"
      /\ listening' = on /\ srvs' = on
      /\ connmap' = [s \in on |-> [a \in {} |-> {}]]
      /\ endtimer' = profiler /\ adjTimer' = ~profiler
      /\ updater' = IF tlsoffload THEN updater ELSE Started
      /\ UNCHANGED <<tlsoffload, ready, conn, limit, adj, stopped,
                     now, issued, cert, context>>
-----------------------------------------------------------------------------
ConnsOf(s) == {c \in Sockets : conn[c].st # "none" /\ conn[c].srv = s}

\* An address is free again once its last connection is over: for the tracker
\* as that emits 'close', for the kernel as it is destroyed.
Free(a) ==
  \A c \in Sockets :
    conn[c].addr = a => PortReuse /\ conn[c].st = "closing"

\* trackConn(): not once end() was called, nor if the peer is gone already.
Tracks(s, a) ==
  srvs # {} /\ s \in listening /\ a # NoAddr /\ s \in DOMAIN connmap

\* Slip: who is not tracked is served all the same.
Untrapped(c, s, a) ==
  /\ conn' = [conn EXCEPT ![c] = [st |-> "open", srv |-> s, addr |-> a]]
  /\ connmap' = IF Tracks(s, a)
                THEN [connmap EXCEPT ![s] =
                        [x \in DOMAIN @ \cup {a} |-> IF x = a THEN c ELSE @[x]]]
                ELSE connmap

\* The listener to 'connection' or 'secureConnection': who is not tracked is
\* closed there and then.
Trapped(c, s, a) ==
  IF Tracks(s, a)
  THEN /\ conn' = [conn EXCEPT ![c] = [st |-> "open", srv |-> s, addr |-> a]]
       /\ connmap' = [connmap EXCEPT ![s] =
            [x \in DOMAIN @ \cup {a} |-> IF x = a THEN c ELSE @[x]]]
  ELSE /\ conn' = [conn EXCEPT ![c] =
            [st |-> "closing", srv |-> s, addr |-> NoAddr]]
       /\ UNCHANGED connmap

\* A connection comes in, unless the server has its fill.  One with TLS is not
\* tracked before the handshake is done.
Accept(c, s, a) ==
  /\ Running
  /\ s \in listening /\ Cardinality(ConnsOf(s)) < limit
  /\ conn[c].st = "none" /\ Free(a)
  /\ IF s \in TlsServers
     THEN /\ conn' = [conn EXCEPT ![c] =
                [st |-> "handshake", srv |-> s, addr |-> a]]
          /\ UNCHANGED connmap
     ELSE \E addr \in {a, NoAddr} : Trapped(c, s, addr)
  /\ UNCHANGED <<bootVars, listening, srvs, loadVars, endtimer, stopped, certVars>>

Secured(c) ==
  /\ Running /\ conn[c].st = "handshake"
  /\ \E a \in {conn[c].addr, NoAddr} : Trapped(c, conn[c].srv, a)
  /\ UNCHANGED <<bootVars, listening, srvs, loadVars, endtimer, stopped, certVars>>

\* 'tlsClientError'.
HandshakeFails(c) ==
  /\ Running /\ conn[c].st = "handshake"
  /\ conn' = [conn EXCEPT ![c] =
       [st |-> "closing", srv |-> conn[c].srv, addr |-> NoAddr]]
  /\ UNCHANGED <<bootVars, listening, srvs, connmap, loadVars,
                 endtimer, stopped, certVars>>

\* A timeout, an error, its end, or a query that fails: the socket is destroyed.
Destroyed(c) ==
  /\ Running /\ conn[c].st = "open"
  /\ conn' = [conn EXCEPT ![c].st = "closing"]
  /\ UNCHANGED <<bootVars, listening, srvs, connmap, loadVars,
                 endtimer, stopped, certVars>>

\* 'close': a tracked address is so no more, whoever has it by now.
Closed(c) ==
  /\ Running /\ conn[c].st = "closing"
  /\ conn' = [conn EXCEPT ![c] = Idle]
  /\ connmap' = IF conn[c].srv \in DOMAIN connmap
                THEN [connmap EXCEPT ![conn[c].srv] =
                        [a \in DOMAIN @ \ {conn[c].addr} |-> @[a]]]
                ELSE connmap
  /\ UNCHANGED <<bootVars, listening, srvs, loadVars, endtimer, stopped, certVars>>
-----------------------------------------------------------------------------
Calm(avg1, avg5, lowram) == avg1 <= 70 /\ avg5 <= 75 /\ ~lowram

\* Slip: calm takes one adjustment back, whether there is one or not.
AdjustmentsBelow(avg1, avg5, lowram) ==
  IF Calm(avg1, avg5, lowram) THEN adj - 1 ELSE adj + 1

\* adjustMaxConns(): the count of adjustments rises with the load (averages
\* over one and five minutes), and decays by a quarter when that is low.
Adjustments(avg1, avg5, lowram) ==
  LET risen == adj + (IF avg5 > 90 THEN 3 ELSE IF avg1 > 100 THEN 2
                      ELSE IF avg1 > avg5 THEN 1 ELSE 0)
  IN  IF Calm(avg1, avg5, lowram) THEN (risen * 3) \div 4 ELSE risen

ConnsFor(avg1, avg5, lowram) ==
  IF avg1 > 100 THEN MinConns
  ELSE IF avg1 > 90 \/ avg5 > 80 \/ lowram
       THEN Greatest((MaxConns * 2) \div 10, MinConns)
  ELSE IF avg1 > 80 \/ avg5 > 75
       THEN Greatest((MaxConns * 4) \div 10, MinConns)
  ELSE IF avg1 > 70 THEN Greatest((MaxConns * 6) \div 10, MinConns)
  ELSE MaxConns

\* The process stops when the load stays high, or when memory is all but gone.
AdjustMaxConns(avg1, avg5, lowram, verylowram) ==
  LET n == Adjustments(avg1, avg5, lowram)
      stop == n > Breakpoint \/ (verylowram /\ IsCloud)
  IN  /\ Running /\ adjTimer
      /\ verylowram => lowram
      /\ endtimer' = (endtimer \/ stop)
      /\ adj' = IF stop THEN adj ELSE n
      /\ limit' = IF stop THEN limit
                  ELSE IF n > Stresspoint THEN MinConns \div 2
                  ELSE ConnsFor(avg1, avg5, lowram)
      /\ UNCHANGED <<bootVars, connVars, adjTimer, stopped, certVars>>

\* stopAfter(): for SIGINT, and for a server's 'error'.
StopAfter ==
  /\ boot = "up" /\ ~endtimer
  /\ endtimer' = TRUE
  /\ UNCHANGED <<bootVars, connVars, loadVars, stopped, certVars>>

\* SIGINT, before up() listens to it.
Killed ==
  /\ boot \in {"prepare", "steady"}
  /\ Exit

\* The open connections that the tracker knows.
Drained ==
  {c \in Sockets : conn[c].st = "open" /\
     \E s \in DOMAIN connmap : \E a \in DOMAIN connmap[s] : connmap[s][a] = c}

\* systemDown(): the tracker is emptied first, so that adjustMaxConns(1) meets
\* no server any more and only resets the count of adjustments, or stops the
\* process anew.  Then connections are destroyed, and servers closed.  (What
\* systemStop() does to the transport is Teardown in Transport.)
SystemDown(verylowram) ==
  /\ stopped' = TRUE /\ adjTimer' = FALSE
  /\ srvs' = {} /\ connmap' = NoneTracked
  /\ endtimer' = (verylowram /\ IsCloud)
  /\ adj' = IF verylowram /\ IsCloud THEN adj ELSE 0
  /\ conn' = [c \in Sockets |->
       IF c \in Drained THEN [conn[c] EXCEPT !.st = "closing"] ELSE conn[c]]
  /\ listening' = listening \ srvs
  /\ UNCHANGED <<bootVars, limit, certVars>>

\* stopProc() publishes "stop".
StopProc(verylowram) ==
  /\ Running /\ endtimer
  /\ SystemDown(verylowram)

\* bye() runs as soon as the turn of systemDown() is over, not after the time
\* set for shutting down.
Bye == stopped /\ Running /\ Exit

CertStep == boot = "up" /\ Renewal /\ UNCHANGED lifeVars

Next ==
  \/ Prep \/ SystemReady \/ Up \/ BootFails \/ DownloadOnly
  \/ \E profiler \in BOOLEAN : SystemUp(profiler)
  \/ \E c \in Sockets, s \in Servers, a \in Addrs : Accept(c, s, a)
  \/ \E c \in Sockets :
       Secured(c) \/ HandshakeFails(c) \/ Destroyed(c) \/ Closed(c)
  \/ \E avg1 \in Averages, avg5 \in Averages, low \in BOOLEAN, very \in BOOLEAN :
       AdjustMaxConns(avg1, avg5, low, very)
  \/ StopAfter \/ Killed
  \/ \E very \in BOOLEAN : StopProc(very)
  \/ Bye
  \/ CertStep

Spec == Init /\ [][Next]_vars
-----------------------------------------------------------------------------
TypeOK ==
  /\ CertsTypeOK
  /\ boot \in {"prepare", "ready", "steady", "go", "up", "exited"}
  /\ tlsoffload \in BOOLEAN /\ ready \in BOOLEAN /\ adjTimer \in BOOLEAN
  /\ endtimer \in BOOLEAN /\ stopped \in BOOLEAN
  /\ listening \subseteq Servers /\ srvs \subseteq Servers
  /\ DOMAIN connmap \subseteq Servers
  /\ \A s \in DOMAIN connmap :
       DOMAIN connmap[s] \subseteq Addrs /\ connmap[s] \in [DOMAIN connmap[s] -> Sockets]
  /\ conn \in [Sockets -> [st : {"none", "handshake", "open", "closing"},
                            srv : Servers \cup {"none"},
                            addr : Addrs \cup {NoAddr}]]
  /\ limit \in Nat /\ adj \in 0..Breakpoint

\* From systemDown() on no connection is served: those that were are destroyed,
\* the ones a handshake brings in later are turned away ("servers will start
\* rejecting conns when tracker is empty", server-node.js:264).  Each has to be
\* in the tracker for as long as it is open, and not as long as it is not.
DrainLeavesNone == stopped => \A c \in Sockets : conn[c].st # "open"
=============================================================================
