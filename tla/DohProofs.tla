------------------------------ MODULE DohProofs ------------------------------
(***************************************************************************)
(* Whatever plugins do, and whenever the timer fires, the pipeline has a   *)
(* response to give and logs what the client got.                          *)
(***************************************************************************)
EXTENDS Platforms, TLAPS

Denials == {"blocked", "nxdomain"}

\* The plugins between the beginning and the log, all of which only run (and
\* suspend) while nothing has been decided.
Deciding == {"userOp", "prefilter", "cache", "command", "resolver"}

\* The IOState: a response is there once processing is to stop, and says what
\* the plugins' context says unless an exception took over.
StateOK ==
  /\ stopProcessing <=> http # "null"
  /\ isException => stopProcessing
  /\ answer => stopProcessing
  /\ answer /\ ~isException => http \in {"answer", "gateway"}
  /\ stopProcessing /\ ~answer /\ ~isException /\ isDnsMsg =>
       http \in Denials \cup {"405"}

\* Where the chain may be, and what the timer has made of the request.
TurnOK ==
  /\ at = "new" => timer = "off" /\ ~stopProcessing /\ sent = "nothing"
  /\ at \in Deciding \cup {"log"} => timer # "off" /\ http # "405"
  /\ at \in Deciding /\ timer = "on" => ~stopProcessing
  /\ at \in {"log", "end"} /\ timer = "on" => stopProcessing
  /\ at \in {"prefilter", "log"} => timer = "on"
  /\ at = "log" => ~isException
  /\ timer = "on" => sent = "nothing"
  /\ timer = "fired" => isException /\ sent \in {"servfail", "408"}
  /\ at # "new" /\ timer = "off" => sent # "nothing"

\* What has been logged is what is going out, or has.
LogOK ==
  /\ logged # "nothing" => at = "end" /\ timer # "fired"
  /\ logged = "answer" => http \in {"answer", "gateway"}
  /\ logged = "denial" => http \in Denials

\* The inductive invariant.
Inv == TypeOK /\ StateOK /\ TurnOK /\ LogOK /\ AlwaysAResponse /\ LoggedIsSent

\* Where execute()'s loop goes next: not to a plugin that is to be skipped, and
\* past others only for a reason.
LEMMA AdvanceTo ==
  ASSUME Advance, recursive \in BOOLEAN, at \in Deciding
  PROVE  /\ at' \in (Deciding \ {"userOp"}) \cup {"log", "end"}
         /\ at' \in Deciding => ~stopProcessing'
         /\ at' = "log" => ~isException'
         /\ at' = "end" => isException'
         /\ at' \in {"log", "end"} /\ at # "resolver" => stopProcessing'
<1>1. PICK i, j \in 1 .. Len(Chain) :
        /\ i < j /\ Chain[i] = at /\ at' = Chain[j]
        /\ \A k \in i + 1 .. j - 1 : Skips(Chain[k])
        /\ ~Skips(Chain[j])
  BY DEF Advance
<1>2. CASE recursive
  <2>1. Chain = <<"userOp", "prefilter", "cache", "command", "resolver", "log", "end">>
    BY <1>2 DEF Chain
  <2>2. i \in 1 .. 7 /\ j \in 1 .. 7
    BY <2>1
  <2> QED
    BY <1>1, <2>1, <2>2 DEF Skips, Deciding
<1>3. CASE ~recursive
  <2>1. Chain = <<"userOp", "cache", "command", "resolver", "log", "end">>
    BY <1>3 DEF Chain
  <2>2. i \in 1 .. 6 /\ j \in 1 .. 6
    BY <2>1
  <2> QED
    BY <1>1, <2>1, <2>2 DEF Skips, Deciding
<1> QED
  BY <1>2, <1>3

LEMMA InitInv == Init => Inv
BY DEF Init, Inv, TypeOK, StateOK, TurnOK, LogOK, AlwaysAResponse, LoggedIsSent,
       RequestKinds, Deciding, Responses, Denials

\* What callbacks make of the IOState and of the context: an exception, a
\* denial, an answer, what a command is replied to with, or nothing.
Decides ==
  \/ \E from \in {"UserOp", "dnsPrefilter", "DnsCacheHandler", "dnsResolver"} :
       DnsExceptionResponse(from) /\ UNCHANGED answer
  \/ question /\ (\E r \in Denials : DnsDenial(r)) /\ UNCHANGED answer
  \/ DnsResponse /\ answer' = TRUE
  \/ HResponse("command") /\ ~isDnsMsg /\ UNCHANGED answer
  \/ at # "resolver" /\ UNCHANGED <<ioState, answer>>

\* Whatever a plugin makes of the request, timed out or not, the chain goes on
\* with the invariant.
LEMMA DecidesInv ==
  ASSUME Inv, at \in Deciding, Decides, Advance,
         UNCHANGED <<req, recursive, timer, isDnsMsg, sent, logged>>
  PROVE  Inv'
<1>1. /\ recursive \in BOOLEAN
      /\ stopProcessing' \in BOOLEAN /\ isException' \in BOOLEAN
      /\ answer' \in BOOLEAN /\ question' \in BOOLEAN
      /\ http' \in Responses \cup {"null"}
      /\ exceptionFrom' \in
           {"", "doh", "UserOp", "dnsPrefilter", "DnsCacheHandler", "dnsResolver"}
  BY DEF Inv, TypeOK, Decides, DnsExceptionResponse, Servfail, DnsDenial, DnsResponse,
         HResponse, ioState, Responses, Denials
<1>2. /\ at' \in (Deciding \ {"userOp"}) \cup {"log", "end"}
      /\ at' \in Deciding => ~stopProcessing'
      /\ at' = "log" => ~isException'
      /\ at' = "end" => isException'
      /\ at' \in {"log", "end"} /\ at # "resolver" => stopProcessing'
  BY <1>1, AdvanceTo
<1>3. TypeOK'
  BY <1>1, <1>2 DEF Inv, TypeOK, Deciding
<1>4. StateOK' /\ (http' = "405" => http = "405")
  <2>1. /\ stopProcessing => isException
        /\ stopProcessing <=> http # "null"
        /\ answer => stopProcessing
        /\ isException => stopProcessing
    BY DEF Inv, TypeOK, StateOK, TurnOK
  <2>2. CASE \E from \in {"UserOp", "dnsPrefilter", "DnsCacheHandler", "dnsResolver"} :
               DnsExceptionResponse(from) /\ UNCHANGED answer
    BY <2>2 DEF StateOK, DnsExceptionResponse, Servfail
  <2>3. CASE (\E r \in Denials : DnsDenial(r)) /\ UNCHANGED answer
    BY <2>1, <2>3 DEF StateOK, DnsDenial, Denials
  <2>4. CASE DnsResponse /\ answer' = TRUE
    BY <2>1, <2>4 DEF StateOK, DnsResponse
  <2>5. CASE HResponse("command") /\ ~isDnsMsg /\ UNCHANGED answer
    BY <2>1, <2>5 DEF StateOK, HResponse
  <2>6. CASE UNCHANGED <<ioState, answer>>
    BY <2>6 DEF Inv, StateOK, ioState
  <2> QED
    BY <2>2, <2>3, <2>4, <2>5, <2>6 DEF Decides
<1>5. /\ at = "resolver" => stopProcessing'
      /\ isException => isException'
      /\ stopProcessing => stopProcessing'
  BY DEF Decides, DnsExceptionResponse, DnsDenial, DnsResponse, HResponse, ioState
<1>6. TurnOK'
  BY <1>1, <1>2, <1>4, <1>5 DEF Inv, TypeOK, StateOK, TurnOK, Deciding
<1>7. logged' = "nothing"
  BY DEF Inv, TypeOK, LogOK, Deciding
<1>8. AlwaysAResponse' /\ LoggedIsSent' /\ LogOK'
  BY <1>7 DEF Inv, AlwaysAResponse, LoggedIsSent, LogOK
<1> QED
  BY <1>3, <1>4, <1>6, <1>8 DEF Inv

\* Each step keeps the invariant.
LEMMA NextInv == Inv /\ [Next]_vars => Inv'
<1> SUFFICES ASSUME Inv, [Next]_vars PROVE Inv'
  OBVIOUS
<1> USE DEF Inv, ioState
<1>1. CASE Options
  BY <1>1
  DEF Options, TypeOK, StateOK, TurnOK, LogOK, AlwaysAResponse, LoggedIsSent, Deciding, Responses
<1>2. CASE NotAllowed
  BY <1>2
  DEF NotAllowed, HResponse, TypeOK, StateOK, TurnOK, LogOK, AlwaysAResponse, LoggedIsSent,
      Deciding, Responses
<1>3. CASE InitFails
  BY <1>3
  DEF InitFails, DnsExceptionResponse, Servfail, TypeOK, StateOK, TurnOK, LogOK,
      AlwaysAResponse, LoggedIsSent, Deciding, Responses
<1>4. CASE Start
  BY <1>4
  DEF Start, Decoded, TypeOK, StateOK, TurnOK, LogOK, AlwaysAResponse, LoggedIsSent,
      Deciding, Responses
<1>5. CASE UserOp
  BY <1>5, DecidesInv DEF UserOp, Decides, Deciding
<1>6. CASE Prefilter
  BY <1>6, DecidesInv DEF Prefilter, Decides, Deciding, Denials
<1>7. CASE CacheOnlyResolver
  BY <1>7, DecidesInv DEF CacheOnlyResolver, Decides, Deciding, Denials
<1>8. CASE CommandControl
  BY <1>8, DecidesInv DEF CommandControl, Decides, Deciding
<1>9. CASE DnsResolver
  BY <1>9, DecidesInv DEF DnsResolver, Decides, Deciding, Denials
<1>10. CASE DnsResolverThrows
  <2>1. logged = "nothing" /\ at' = "end"
    BY <1>10 DEF DnsResolverThrows, TypeOK, LogOK, Deciding
  <2>2. /\ stopProcessing' /\ isException' /\ http' # "null"
        /\ answer' = TRUE /\ timer' # "on" /\ sent' \in {"servfail", "408"}
        /\ UNCHANGED <<req, recursive, isDnsMsg, logged>>
    BY <1>10
    DEF DnsResolverThrows, DnsExceptionResponse, Servfail, StateOK, TurnOK, Deciding
  <2>3. TypeOK'
    BY <1>10, <2>1, <2>2
    DEF DnsResolverThrows, DnsExceptionResponse, Servfail, TypeOK, Responses
  <2>4. StateOK' /\ TurnOK'
    BY <2>1, <2>2 DEF TypeOK, StateOK, TurnOK, Deciding
  <2>5. LogOK' /\ AlwaysAResponse' /\ LoggedIsSent'
    BY <2>1, <2>2 DEF LogOK, AlwaysAResponse, LoggedIsSent
  <2> QED
    BY <2>3, <2>4, <2>5
<1>11. CASE LogPush
  BY <1>11
  DEF LogPush, TypeOK, StateOK, TurnOK, LogOK, AlwaysAResponse, LoggedIsSent, Deciding,
      Responses, Denials
<1>12. CASE Reply
  <2>1. sent' = http /\ timer' = "off"
        /\ UNCHANGED <<req, recursive, at, http, stopProcessing, isException, exceptionFrom,
                       question, isDnsMsg, answer, logged>>
    BY <1>12 DEF Reply
  <2>2. at = "end" /\ http # "null"
    BY <1>12 DEF Reply, StateOK, TurnOK
  <2>3. TypeOK' /\ StateOK'
    BY <2>1, <2>2 DEF TypeOK, StateOK
  <2>4. TurnOK'
    BY <2>1, <2>2 DEF TypeOK, TurnOK, Deciding, Responses
  <2>5. LogOK' /\ AlwaysAResponse' /\ LoggedIsSent'
    BY <2>1, <2>2 DEF LogOK, AlwaysAResponse, LoggedIsSent, Denials
  <2> QED
    BY <2>3, <2>4, <2>5
<1>13. CASE Timeout
  BY <1>13
  DEF Timeout, Awaits, DnsExceptionResponse, Servfail, TypeOK, StateOK, TurnOK, LogOK,
      AlwaysAResponse, LoggedIsSent, Deciding, Responses, Denials
<1>14. CASE UNCHANGED vars
  <2>1. UNCHANGED <<req, recursive, at, timer, http, stopProcessing, isException,
                    exceptionFrom, question, isDnsMsg, answer, sent, logged>>
    BY <1>14 DEF vars
  <2>2. TypeOK'
    <3>1. TypeOK
      OBVIOUS
    <3>2. (req \in RequestKinds /\ recursive \in BOOLEAN)'
      BY <2>1, <3>1 DEF TypeOK
    <3>3. (isException \in BOOLEAN /\ stopProcessing \in BOOLEAN /\ question \in BOOLEAN)'
      BY <2>1, <3>1 DEF TypeOK
    <3>4. (isDnsMsg \in BOOLEAN /\ answer \in BOOLEAN)'
      BY <2>1, <3>1 DEF TypeOK
    <3> QED
      BY <2>1, <3>1, <3>2, <3>3, <3>4 DEF TypeOK
  <2>5. StateOK'
    BY <2>1 DEF StateOK
  <2>3. TurnOK' /\ LogOK'
    BY <2>1 DEF TurnOK, LogOK
  <2>4. AlwaysAResponse' /\ LoggedIsSent'
    BY <2>1 DEF AlwaysAResponse, LoggedIsSent
  <2> QED
    BY <2>2, <2>3, <2>4, <2>5
<1> QED
  BY <1>1, <1>2, <1>3, <1>4, <1>5, <1>6, <1>7, <1>8, <1>9, <1>10, <1>11, <1>12, <1>13, <1>14
  DEF Next, Plugin

\* For every request, whatever its plugins do and whenever its timer fires:
\* it is never replied to with nothing, and what is logged of it is what the
\* client got.
THEOREM DohSafety == Spec => [](TypeOK /\ AlwaysAResponse /\ LoggedIsSent)
<1>1. Inv => TypeOK /\ AlwaysAResponse /\ LoggedIsSent
  BY DEF Inv
<1> QED
  BY InitInv, NextInv, <1>1, PTL DEF Spec
-----------------------------------------------------------------------------
\* What is needed of the boot: its events are published in their order, with
\* the services made between "ready" and "steady".
BootOK ==
  /\ fired \in 0 .. 4
  /\ fired > 2 => services
  /\ arrival = "handed" => fired = 4
  /\ arrival # "handed" => at = "new"
  /\ server = "up" => fired = 4

LEMMA BootOKWhenReady == BootOK => ServedWhenReady
BY DEF BootOK, ServedWhenReady

LEMMA ServerInitOK == ServerInit => Init /\ BootOK
<1> SUFFICES ASSUME ServerInit PROVE Init /\ BootOK
  OBVIOUS
<1>1. Init
  BY DEF ServerInit
<1>2. at = "new"
  BY <1>1 DEF Init
<1>3. fired = 0 \/ fired = 1
  BY DEF ServerInit
<1>4. arrival = "none" /\ server = "off"
  BY DEF ServerInit
<1> QED
  BY <1>1, <1>2, <1>3, <1>4 DEF BootOK

LEMMA PubOK ==
  ASSUME NEW e \in {"prepare", "ready", "steady", "go"}, BootOK, Pub(e)
  PROVE  /\ fired' \in 0 .. 4
         /\ fired' = fired \/ (fired' = fired + 1 /\ BootEvents[fired'] = e)
<1>1. CASE Published(e)
  BY <1>1 DEF Pub, BootOK
<1>2. CASE ~Published(e)
  <2>1. fired' = fired + 1 /\ BootEvents[fired'] = e
    BY <1>2 DEF Pub
  <2>2. fired # 4
    <3> SUFFICES ASSUME fired = 4 PROVE FALSE
      OBVIOUS
    <3>1. ~\E i \in 1 .. 4 : BootEvents[i] = e
      BY <1>2 DEF Published
    <3>2. /\ BootEvents[1] = "prepare" /\ BootEvents[2] = "ready"
          /\ BootEvents[3] = "steady" /\ BootEvents[4] = "go"
      BY DEF BootEvents
    <3> QED
      BY <3>1, <3>2
  <2> QED
    BY <2>1, <2>2 DEF BootOK
<1> QED
  BY <1>1, <1>2

\* Whatever the platform does, the request's own state changes by a step of
\* Doh, or not at all.
LEMMA ServerNextOK ==
  BootOK /\ [ServerNext]_allVars => [Next]_vars /\ BootOK'
<1> SUFFICES ASSUME BootOK, [ServerNext]_allVars PROVE [Next]_vars /\ BootOK'
  OBVIOUS
<1> USE DEF BootOK
<1>0. /\ BootEvents[1] = "prepare" /\ BootEvents[2] = "ready"
      /\ BootEvents[3] = "steady" /\ BootEvents[4] = "go"
  BY DEF BootEvents
<1>1. CASE BootThrows
  BY <1>1 DEF BootThrows, vars
<1>2. CASE Prep
  <2>1. Pub("ready") /\ UNCHANGED <<vars, platform, services, arrival, server>>
    BY <1>2 DEF Prep
  <2>2. fired' \in 0 .. 4 /\ (fired' > 2 => services)
    BY <2>1, <1>0, PubOK
  <2> QED
    BY <2>1, <2>2, PubOK DEF vars
<1>3. CASE SystemReady
  <2>1. /\ Pub("steady") /\ services' = TRUE
        /\ UNCHANGED <<vars, platform, arrival, server>>
    BY <1>3 DEF SystemReady
  <2> QED
    BY <2>1, PubOK DEF vars
<1>4. CASE Up
  <2>1. /\ Pub("go") /\ services
        /\ UNCHANGED <<vars, platform, services, arrival, server>>
    BY <1>4 DEF Up
  <2> QED
    BY <2>1, PubOK DEF vars
<1>5. CASE SystemUp
  <2>1. fired = 4
    BY <1>5, <1>0 DEF SystemUp, Runs
  <2> QED
    BY <1>5, <2>1 DEF SystemUp, vars
<1>6. CASE SystemDown \/ GameOver
  BY <1>6 DEF SystemDown, GameOver, vars
<1>7. CASE ServeDoh \/ OtherServed
  <2>1. /\ Pub("prepare")
        /\ arrival' = arrival \/ (arrival = "none" /\ arrival' = "waiting")
        /\ UNCHANGED <<vars, platform, services, server>>
    BY <1>7 DEF ServeDoh, OtherServed
  <2>4. fired' \in 0 .. 4 /\ (fired' = fired \/ (fired' = fired + 1 /\ BootEvents[fired'] = "prepare"))
    BY <2>1, PubOK
  <2>2. fired' > 2 => services
    BY <2>4, <1>0
  <2>3. fired = 4 => fired' = 4
    BY <2>4
  <2> QED
    BY <2>1, <2>2, <2>3, <2>4 DEF vars
<1>8. CASE Go
  <2>1. fired = 4
    BY <1>8, <1>0 DEF Go, Published
  <2> QED
    BY <1>8, <2>1 DEF Go, bootVars, vars
<1>9. CASE DenoServed
  BY <1>9 DEF DenoServed, bootVars, vars
<1>10. CASE Handle
  BY <1>10 DEF Handle, bootVars
<1>11. CASE UNCHANGED allVars
  BY <1>11 DEF allVars, bootVars, vars
<1> QED
  BY <1>1, <1>2, <1>3, <1>4, <1>5, <1>6, <1>7, <1>8, <1>9, <1>10, <1>11 DEF ServerNext

\* The same of a request on Workers, Fastly or Deno, whenever it arrives: and
\* it is not looked at before the plugins that are to serve it are made.
THEOREM ServerSafety ==
  ServerSpec => [](AlwaysAResponse /\ LoggedIsSent /\ ServedWhenReady)
<1>1. Inv /\ BootOK => AlwaysAResponse /\ LoggedIsSent /\ ServedWhenReady
  BY BootOKWhenReady DEF Inv
<1>2. ServerInit => Inv /\ BootOK
  BY ServerInitOK, InitInv
<1>3. Inv /\ BootOK /\ [ServerNext]_allVars => Inv' /\ BootOK'
  BY ServerNextOK, NextInv
<1> QED
  BY <1>1, <1>2, <1>3, PTL DEF ServerSpec
-----------------------------------------------------------------------------
\* On every platform a request runs as Doh says it does: nothing in the boot,
\* and no other request, interferes.
THEOREM ServerImplementsDoh == ServerSpec => Init /\ [][Next]_vars
<1>1. ServerInit => Init /\ BootOK
  BY ServerInitOK
<1>2. BootOK /\ [ServerNext]_allVars => [Next]_vars /\ BootOK'
  BY ServerNextOK
<1> QED
  BY <1>1, <1>2, PTL DEF ServerSpec

\* What goes out, and what is logged, is never taken back.
RepliesOnce ==
  /\ sent # "nothing" => sent' = sent
  /\ logged # "nothing" => logged' = logged

LEMMA StepRepliesOnce == Inv /\ [Next]_vars => RepliesOnce
<1> SUFFICES ASSUME Inv, [Next]_vars PROVE RepliesOnce
  OBVIOUS
<1>1. /\ sent # "nothing" => timer # "on" /\ at # "new"
      /\ logged # "nothing" => at = "end"
  BY DEF Inv, TurnOK, LogOK
<1> QED
  BY <1>1
  DEF RepliesOnce, vars, Next, Plugin, Options, NotAllowed, InitFails, Start, UserOp, Prefilter,
      CacheOnlyResolver, CommandControl, DnsResolver, DnsResolverThrows, LogPush, Reply, Timeout

\* proxyRequest() replies at most once, and logs at most once, though its timer
\* does not stop the plugins, and these go on to write to the IOState of which
\* the timer has made a response already.
THEOREM RepliedOnce == ServerSpec => [][RepliesOnce]_allVars
<1>1. ServerInit => Inv /\ BootOK
  BY ServerInitOK, InitInv
<1>2. Inv /\ BootOK /\ [ServerNext]_allVars => Inv' /\ BootOK' /\ [RepliesOnce]_allVars
  BY ServerNextOK, NextInv, StepRepliesOnce
<1> QED
  BY <1>1, <1>2, PTL DEF ServerSpec
-----------------------------------------------------------------------------
\* A request that has been looked at has its response or the timer still to come.
NeverAbandoned == sent = "nothing" => at = "new" \/ timer = "on"

\* How far it is to the end of the chain.
Stages ==
  [new |-> 7, userOp |-> 6, prefilter |-> 5, cache |-> 4, command |-> 3, resolver |-> 2,
   log |-> 1, end |-> 0]

\* A step takes the chain further, by as many plugins as are skipped, or it ends
\* the race with the timer; no step takes the chain back or starts the timer again.
Advances ==
  /\ at' # at => Stages[at'] < Stages[at]
  /\ at' = at => timer = "on" /\ timer' # "on"
  /\ timer' = "on" => timer = "on" \/ at = "new"

\* execute()'s loop goes forward.
LEMMA AdvanceForward ==
  ASSUME Advance, recursive \in BOOLEAN
  PROVE  at' # at /\ Stages[at'] < Stages[at]
<1>1. PICK i, j \in 1 .. Len(Chain) : i < j /\ Chain[i] = at /\ at' = Chain[j]
  BY DEF Advance
<1>2. CASE recursive
  <2>1. Chain = <<"userOp", "prefilter", "cache", "command", "resolver", "log", "end">>
    BY <1>2 DEF Chain
  <2>2. i \in 1 .. 7 /\ j \in 1 .. 7
    BY <2>1
  <2> QED
    BY <1>1, <2>1, <2>2 DEF Stages
<1>3. CASE ~recursive
  <2>1. Chain = <<"userOp", "cache", "command", "resolver", "log", "end">>
    BY <1>3 DEF Chain
  <2>2. i \in 1 .. 6 /\ j \in 1 .. 6
    BY <2>1
  <2> QED
    BY <1>1, <2>1, <2>2 DEF Stages
<1> QED
  BY <1>2, <1>3

LEMMA StepAdvances == Inv /\ [Next]_vars => [Advances]_vars
<1> SUFFICES ASSUME Inv, Next PROVE Advances
  OBVIOUS
<1> USE DEF Advances
<1>1. CASE UserOp \/ Prefilter \/ CacheOnlyResolver \/ CommandControl \/ DnsResolver
  <2>1. Advance /\ timer' = timer
    BY <1>1 DEF UserOp, Prefilter, CacheOnlyResolver, CommandControl, DnsResolver
  <2> QED
    BY <2>1, AdvanceForward DEF Inv, TypeOK
<1>2. CASE Options \/ NotAllowed \/ InitFails \/ Start \/ DnsResolverThrows \/ LogPush
  BY <1>2 DEF Options, NotAllowed, InitFails, Start, DnsResolverThrows, LogPush, Stages
<1>3. CASE Reply \/ Timeout
  BY <1>3 DEF Reply, Timeout
<1> QED
  BY <1>1, <1>2, <1>3 DEF Next, Plugin

\* What "every request is replied to" rests on besides fairness, for a request on
\* every platform: it is never left without a response and without a timer, and
\* each of its steps takes it further along the chain or ends its race with the
\* timer; there is no way for it to go round in circles.
THEOREM ReplyComesDue == ServerSpec => []NeverAbandoned /\ [][Advances]_vars
<1>1. ServerInit => Inv /\ BootOK
  BY ServerInitOK, InitInv
<1>2. Inv /\ BootOK /\ [ServerNext]_allVars => Inv' /\ BootOK' /\ [Advances]_vars
  BY ServerNextOK, NextInv, StepAdvances
<1>3. Inv => NeverAbandoned
  BY DEF Inv, TypeOK, TurnOK, NeverAbandoned
<1> QED
  BY <1>1, <1>2, <1>3, PTL DEF ServerSpec
=============================================================================
