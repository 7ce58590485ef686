--------------------------------- MODULE Doh ---------------------------------
(***************************************************************************)
(* One DNS-over-HTTPS request: proxyRequest() (src/core/doh.js) runs the   *)
(* chain of plugins (src/core/plugin.js) against a timer, both of which    *)
(* write the reply to one IOState (src/core/io-state.js).                  *)
(*                                                                         *)
(* The timer does not stop the chain: a plugin that is suspended when time *)
(* is up goes on, and its callback still writes to the IOState.            *)
(***************************************************************************)
EXTENDS Naturals, Sequences

\* What a request may be.  Its body: none, one that cannot be read or cannot
\* be decoded, a packet without a question, or with one.
Methods == {"GET", "POST", "PUT", "OPTIONS"}
Bodies == {"none", "unread", "garbage", "noquestion", "question"}
RequestKinds ==
  [method : Methods, header : BOOLEAN, body : Bodies, gateway : BOOLEAN, lid : BOOLEAN]

VARIABLES
  req,        \* the request
  recursive,  \* prefilter is one of the plugins
  at,         \* the plugin that is running, or about to: "new", "end"
  timer,      \* "off", "on" (requestTimeout), "fired"
  http, stopProcessing, isException, exceptionFrom, question, \* the IOState
  isDnsMsg, answer, \* the plugins' context (responseDecodedDnsPacket)
  sent,       \* the response returned to the client
  logged      \* what was logged of the request

ioState == <<http, stopProcessing, isException, exceptionFrom, question>>
vars == <<req, recursive, at, timer, ioState, isDnsMsg, answer, sent, logged>>

Init ==
  /\ req \in RequestKinds /\ recursive \in BOOLEAN
  /\ at = "new" /\ timer = "off"
  /\ http = "null" /\ stopProcessing = FALSE
  /\ isException = FALSE /\ exceptionFrom = "" /\ question = FALSE
  /\ isDnsMsg = FALSE /\ answer = FALSE
  /\ sent = "nothing" /\ logged = "nothing"
-----------------------------------------------------------------------------
\* A SERVFAIL needs a question to refer to.
Servfail(q) == IF q THEN "servfail" ELSE "408"

DnsExceptionResponse(from) ==
  /\ http' = Servfail(question)
  /\ stopProcessing' = TRUE /\ isException' = TRUE /\ exceptionFrom' = from
  /\ UNCHANGED question

HResponse(r) ==
  /\ http' = r /\ stopProcessing' = TRUE
  /\ UNCHANGED <<isException, exceptionFrom, question>>

\* dnsResponse(): a gateway's address takes the place of the answer, if the
\* question is for addresses; it throws if there is no question to look at.
CallbackThrows == req.gateway /\ ~question

DnsResponse ==
  /\ ~CallbackThrows
  /\ \E r \in {"answer"} \cup (IF req.gateway THEN {"gateway"} ELSE {}) :
       http' = r
  /\ stopProcessing' = TRUE
  /\ UNCHANGED <<isException, exceptionFrom, question>>

\* dnsBlockResponse() and dnsNxDomainResponse(): they do not fail, as only
\* packets with one question are blocked.
DnsDenial(r) ==
  /\ http' = r /\ stopProcessing' = TRUE
  /\ UNCHANGED <<isException, exceptionFrom, question>>
-----------------------------------------------------------------------------
\* HEAD is as OPTIONS.
Options ==
  /\ at = "new" /\ req.method = "OPTIONS"
  /\ at' = "end" /\ sent' = "204"
  /\ UNCHANGED <<req, recursive, timer, ioState, isDnsMsg, answer, logged>>

\* initIoState() sees that nothing is to be done.
NotAllowed ==
  /\ at = "new" /\ req.method \in {"POST", "PUT"} /\ ~req.header
  /\ HResponse("405") /\ sent' = "405"
  /\ at' = "end"
  /\ UNCHANGED <<req, recursive, timer, isDnsMsg, answer, logged>>

\* The services are not ready yet, or the body cannot be had.
InitFails ==
  /\ at = "new" /\ req.method # "OPTIONS"
  /\ DnsExceptionResponse("doh") /\ sent' = "408"
  /\ at' = "end"
  /\ UNCHANGED <<req, recursive, timer, isDnsMsg, answer, logged>>

Decoded == req.body \in {"noquestion", "question"}

\* initIoState() reads and decodes the question, for which there is no time
\* limit; the timer starts with execute().
Start ==
  /\ at = "new" /\ req.method # "OPTIONS"
  /\ req.method = "GET" \/ req.header
  /\ req.body # "unread"
  /\ isDnsMsg' = (req.header \/ Decoded)
  /\ question' = (req.body = "question")
  /\ at' = "userOp" /\ timer' = "on"
  /\ UNCHANGED <<req, recursive, http, stopProcessing, isException, exceptionFrom,
                 answer, sent, logged>>
-----------------------------------------------------------------------------
\* The chain, the plugin named "log" being the only one that is always run,
\* exceptions excepted.
Chain ==
  IF recursive
  THEN <<"userOp", "prefilter", "cache", "command", "resolver", "log", "end">>
  ELSE <<"userOp", "cache", "command", "resolver", "log", "end">>

\* Slip: exceptions are logged, too.
SkipsStopped(p) == p # "end" /\ stopProcessing' /\ p # "log"

\* execute()'s loop goes over plugin p, as of what the callback before it did.
Skips(p) ==
  \/ p \notin {"log", "end"} /\ stopProcessing'
  \/ p = "log" /\ isException'

\* The plugin that is executed next.
Advance ==
  \E i, j \in 1 .. Len(Chain) :
    /\ i < j /\ Chain[i] = at /\ at' = Chain[j]
    /\ \A k \in i + 1 .. j - 1 : Skips(Chain[k])
    /\ ~Skips(Chain[j])

UserOp ==
  /\ at = "userOp"
  /\ DnsExceptionResponse("UserOp") \/ UNCHANGED ioState
  /\ Advance
  /\ UNCHANGED <<req, recursive, timer, isDnsMsg, answer, sent, logged>>

Prefilter ==
  /\ at = "prefilter"
  /\ \/ DnsExceptionResponse("dnsPrefilter")
     \/ question /\ DnsDenial("nxdomain")
     \/ UNCHANGED ioState
  /\ Advance
  /\ UNCHANGED <<req, recursive, timer, isDnsMsg, answer, sent, logged>>

\* Without a question there is no key to look for.
CacheOnlyResolver ==
  /\ at = "cache"
  /\ \/ question /\ DnsExceptionResponse("DnsCacheHandler") /\ UNCHANGED answer
     \/ question /\ DnsDenial("blocked") /\ UNCHANGED answer
     \/ question /\ DnsResponse /\ answer' = TRUE
     \/ UNCHANGED <<ioState, answer>>
  /\ Advance
  /\ UNCHANGED <<req, recursive, timer, isDnsMsg, sent, logged>>

\* Its answer to an error has no stopProcessing, so the callback ignores it.
CommandControl ==
  /\ at = "command"
  /\ IF req.method = "GET" /\ ~isDnsMsg
     THEN HResponse("command") \/ UNCHANGED ioState
     ELSE UNCHANGED ioState
  /\ Advance
  /\ UNCHANGED <<req, recursive, timer, isDnsMsg, answer, sent, logged>>

\* Slip: a reply that is no answer is not taken for a failure.
DnsResolverUnchecked ==
  /\ at = "resolver"
  /\ \/ DnsExceptionResponse("dnsResolver") /\ UNCHANGED answer
     \/ UNCHANGED <<ioState, answer>>
     \/ question /\ DnsDenial("blocked") /\ UNCHANGED answer
     \/ Decoded /\ DnsResponse /\ answer' = TRUE
  /\ Advance
  /\ UNCHANGED <<req, recursive, timer, isDnsMsg, sent, logged>>

\* It throws when there is no query to be sent.
DnsResolver ==
  /\ at = "resolver"
  /\ \/ DnsExceptionResponse("dnsResolver") /\ UNCHANGED answer
     \/ question /\ DnsDenial("blocked") /\ UNCHANGED answer
     \/ Decoded /\ DnsResponse /\ answer' = TRUE
  /\ Advance
  /\ UNCHANGED <<req, recursive, timer, isDnsMsg, sent, logged>>

\* dnsResolverCallback() throws, which ends execute(): proxyRequest() makes an
\* error of it, unless time is up.
DnsResolverThrows ==
  /\ at = "resolver" /\ Decoded /\ CallbackThrows
  /\ answer' = TRUE /\ at' = "end"
  /\ \/ timer = "on" /\ timer' = "off"
        /\ DnsExceptionResponse("doh") /\ sent' = Servfail(question)
     \/ timer = "fired" /\ UNCHANGED <<timer, ioState, sent>>
  /\ UNCHANGED <<req, recursive, isDnsMsg, logged>>

\* Only DNS messages are logged, of those who have a log id.
LogPush ==
  /\ at = "log"
  /\ logged' = IF isDnsMsg /\ req.lid
               THEN IF answer THEN "answer" ELSE "denial"
               ELSE "nothing"
  /\ at' = "end"
  /\ UNCHANGED <<req, recursive, timer, ioState, isDnsMsg, answer, sent>>

\* execute() is through and time is not up.
Reply ==
  /\ at = "end" /\ timer = "on"
  /\ timer' = "off" /\ sent' = http
  /\ UNCHANGED <<req, recursive, at, ioState, isDnsMsg, answer, logged>>

\* Only these plugins await what takes time; what follows their callbacks is
\* in the same turn of the event loop.
Awaits == at \in {"userOp", "cache", "command", "resolver"}

\* Slip: the timer stops the plugins without a reply.
TimeoutSilent ==
  /\ timer = "on" /\ Awaits
  /\ timer' = "fired"
  /\ stopProcessing' = TRUE
  /\ UNCHANGED <<req, recursive, at, http, isException, exceptionFrom, question,
                 isDnsMsg, answer, sent, logged>>

\* errorResponse(), and what is in the IOState goes out at once.
Timeout ==
  /\ timer = "on" /\ Awaits
  /\ timer' = "fired"
  /\ DnsExceptionResponse("doh")
  /\ sent' = Servfail(question)
  /\ UNCHANGED <<req, recursive, at, isDnsMsg, answer, logged>>

Plugin ==
  \/ UserOp \/ Prefilter \/ CacheOnlyResolver \/ CommandControl
  \/ DnsResolver \/ DnsResolverThrows \/ LogPush

Next == Options \/ NotAllowed \/ InitFails \/ Start \/ Plugin \/ Reply \/ Timeout

\* The timer fires, and what awaits nothing is run.  Plugins that wait for
\* others (the filter, upstream, a cache) may do so forever.
Turn == Options \/ NotAllowed \/ InitFails \/ Start \/ Prefilter \/ LogPush \/ Reply

Fairness == WF_vars(Turn) /\ WF_vars(Timeout)

Spec == Init /\ [][Next]_vars /\ Fairness
-----------------------------------------------------------------------------
Responses == {"204", "405", "408", "servfail", "answer", "gateway", "blocked",
              "nxdomain", "command"}

TypeOK ==
  /\ req \in RequestKinds /\ recursive \in BOOLEAN
  /\ at \in {"new", "userOp", "prefilter", "cache", "command", "resolver", "log", "end"}
  /\ timer \in {"off", "on", "fired"}
  /\ http \in Responses \cup {"null"}
  /\ stopProcessing \in BOOLEAN /\ isException \in BOOLEAN
  /\ exceptionFrom \in {"", "doh", "UserOp", "dnsPrefilter", "DnsCacheHandler", "dnsResolver"}
  /\ question \in BOOLEAN /\ isDnsMsg \in BOOLEAN /\ answer \in BOOLEAN
  /\ sent \in Responses \cup {"null", "nothing"}
  /\ logged \in {"nothing", "answer", "denial"}

\* However the plugins stop, fail or hand over to each other, there is a
\* response to return when they are through: io.httpResponse is not null.
AlwaysAResponse == sent # "null"

\* The logs tell what the client got: an answer that came after its request
\* had timed out, though it is in the plugins' context, is never logged.
LoggedIsSent ==
  /\ logged = "answer" => sent \in {"nothing", "answer", "gateway"}
  /\ logged = "denial" => sent \in {"nothing", "blocked", "nxdomain"}
=============================================================================
