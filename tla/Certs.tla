-------------------------------- MODULE Certs --------------------------------
(***************************************************************************)
(* The renewal of TLS certificates: certUpdateForever() of                 *)
(* src/server-node.js and replaceKeyCert() of src/core/node/util.js.  Each *)
(* TLS server has an updater of its own, and all of them read and replace  *)
(* the certificate of the one secOpts they were started with.              *)
(*                                                                         *)
(* A certificate is the time it is valid until (no two end together); keys *)
(* come and go with their certificates.                                    *)
(***************************************************************************)
EXTENDS Integers

CONSTANTS
  TlsServers,             \* dot1 and doh: the servers that terminate TLS
  OneMin, SixMin, OneDay, \* oneMinMs, sixMinMs, oneDayMs
  MaxAttempts,            \* maxCertUpdateAttempts
  MaxTimer,               \* the longest timer util.timeout() sets
  MaxLatency,             \* bound: how long a fetch takes at most
  FirstCerts,             \* the certificates the process may start with
  Lifetime,               \* of a certificate issued anew
  MaxNow                  \* bound: of the clock

NoCert == 0

ASSUME CertsAssumption ==
  /\ OneMin \in Nat \ {0} /\ SixMin \in Nat \ {0} /\ OneDay \in Nat \ {0}
  /\ MaxAttempts \in Nat /\ MaxTimer \in Nat \ {0}
  /\ MaxLatency \in Nat /\ Lifetime \in Nat \ {0} /\ MaxNow \in Nat
  /\ FirstCerts \subseteq Nat \ {NoCert}

VARIABLES
  now,       \* the clock
  issued,    \* the latest certificate there is to fetch
  cert,      \* secopts.cert, and TLS_CRT in the environment
  context,   \* the certificate each server serves: its secure context
  updater    \* where each server's certUpdateForever() is

certVars == <<now, issued, cert, context, updater>>

\* An updater is off, due (a timer runs it at "at"), fetching, or has given
\* up.  It looked at certificate "crt" at time "since", in attempt n.
Updaters ==
  [st : {"off", "due", "fetching", "over"}, n : Nat, at : Nat,
   crt : Nat, since : Nat]

Off == [st |-> "off", n |-> 0, at |-> 0, crt |-> NoCert, since |-> 0]

CertsInit ==
  /\ now = 0
  /\ cert \in FirstCerts
  /\ issued = cert
  /\ context = [s \in TlsServers |-> cert]
  /\ updater = [s \in TlsServers |-> Off]

Least(a, b) == IF a <= b THEN a ELSE b
Greatest(a, b) == IF a >= b THEN a ELSE b

\* Run certUpdateForever() at time t, as attempt n, having last looked at crt.
Due(t, n, crt) ==
  [st |-> "due", n |-> n, at |-> t, crt |-> crt, since |-> now]

\* The servers' updaters, as their servers begin to listen.
Started == [s \in TlsServers |-> Due(now, 0, cert)]
-----------------------------------------------------------------------------
ValidFor(crt) == crt - now

RunsAttempt(u) == u.st = "due" /\ u.at <= now

GiveUp(s) ==
  /\ RunsAttempt(updater[s]) /\ updater[s].n > MaxAttempts
  /\ updater' = [updater EXCEPT ![s].st = "over"]
  /\ UNCHANGED <<now, issued, cert, context>>

\* More than a day is left: look again when there is a day left, or as late as
\* a timer can be set for.
NotNeeded(s) ==
  /\ RunsAttempt(updater[s]) /\ updater[s].n <= MaxAttempts
  /\ ValidFor(cert) > OneDay
  /\ updater' = [updater EXCEPT ![s] =
       Due(now + Least(ValidFor(cert) - OneDay, MaxTimer), 0, cert)]
  /\ UNCHANGED <<now, issued, cert, context>>

\* Up to the await of replaceKeyCert(): what it is to replace is read here.
Fetch(s) ==
  /\ RunsAttempt(updater[s]) /\ updater[s].n <= MaxAttempts
  /\ ValidFor(cert) <= OneDay
  /\ updater' = [updater EXCEPT
       ![s] = [@ EXCEPT !.st = "fetching", !.crt = cert, !.since = now]]
  /\ UNCHANGED <<now, issued, cert, context>>

\* replaceKeyCert(): the same certificate, or one that is still valid and ends
\* later, is taken for an update.  A fetch may also fail.
Replaces(latest, crt) == latest = crt \/ (latest >= now /\ latest > crt)

\* How long to wait before attempt n, when the certificate was valid for v as
\* attempt n - 1 began.  Slip: with the remaining time left out of account.
BackoffUnclamped(n, v) ==
  IF v <= OneMin THEN OneMin ELSE SixMin * Greatest(1, MaxAttempts - n)

Backoff(n, v) ==
  LET when == SixMin * Greatest(1, MaxAttempts - n)
  IN  IF v <= OneMin THEN OneMin
      ELSE IF when > v THEN Greatest(OneMin, v - OneMin) ELSE when

\* What a fetch comes to is known some turns later: whatever was due by then
\* has run.
Settles(s) ==
  /\ updater[s].st = "fetching"
  /\ \A t \in TlsServers : ~RunsAttempt(updater[t])

FetchFails(s) ==
  /\ Settles(s)
  /\ LET u == updater[s]
         n == u.n + 1
     IN  updater' = [updater EXCEPT ![s] =
           [Due(now + Backoff(n, u.crt - u.since), n, u.crt)
              EXCEPT !.since = u.since]]
  /\ UNCHANGED <<now, issued, cert, context>>

\* setTlsVars() and setSecureContext(), then the updater looks at once at what
\* it got.
Renewed(s) ==
  /\ Settles(s) /\ Replaces(issued, updater[s].crt)
  /\ cert' = issued
  /\ context' = [context EXCEPT ![s] = issued]
  /\ updater' = [updater EXCEPT ![s] = Due(now, 0, issued)]
  /\ UNCHANGED <<now, issued>>

\* The certificate authority, at any time in the last day of a certificate.
Issue ==
  /\ issued <= now + OneDay /\ issued < now + Lifetime
  /\ issued' = now + Lifetime
  /\ UNCHANGED <<now, cert, context, updater>>

\* Timers are served when they are due, fetches within MaxLatency.  The clock
\* starts with the servers.
Tick ==
  /\ now < MaxNow
  /\ \A s \in TlsServers :
       /\ updater[s].st # "off"
       /\ ~RunsAttempt(updater[s])
       /\ updater[s].st = "fetching" => now < updater[s].since + MaxLatency
  /\ now' = now + 1
  /\ UNCHANGED <<issued, cert, context, updater>>

CertUpdateForever(s) ==
  GiveUp(s) \/ NotNeeded(s) \/ Fetch(s) \/ FetchFails(s) \/ Renewed(s)

Renewal ==
  \/ Issue \/ Tick
  \/ \E s \in TlsServers : CertUpdateForever(s)

-----------------------------------------------------------------------------
CertsTypeOK ==
  /\ now \in 0..MaxNow
  /\ issued \in Nat /\ cert \in Nat
  /\ context \in [TlsServers -> Nat]
  /\ updater \in [TlsServers -> Updaters]

\* However attempts fail and however late: an updater that saw more than a
\* minute left on the certificate looks at it again before it ends, or as the
\* answer of a slow fetch comes in.  certUpdateForever() scales its back-off by
\* the attempts left, and must cut it down to the time left.
RetriesInTime ==
  \A s \in TlsServers :
    LET u == updater[s] IN
    u.st = "due" /\ u.crt - u.since > OneMin => u.at <= u.crt + MaxLatency
=============================================================================
