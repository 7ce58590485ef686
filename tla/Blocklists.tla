----------------------------- MODULE Blocklists -----------------------------
(***************************************************************************)
(* The blocklist filter that is downloaded while requests come in:         *)
(* BlocklistWrapper (src/plugins/rethinkdns/main.js), and resolveDns()     *)
(* (src/plugins/dns-op/resolver.js), which needs the filter and an answer  *)
(* from upstream and waits for both at once.                               *)
(*                                                                         *)
(* There is one BlocklistFilter object, which load() fills: whoever holds  *)
(* a reference to it sees it set up from then on.  It is of one version,   *)
(* that of the configuration the program came with or a renewed one, and   *)
(* so are the stamps it gives: the cache keeps both the stamps and, in the *)
(* key, the version.                                                       *)
(***************************************************************************)
EXTENDS Naturals, FiniteSets

CONSTANTS
  Requests,   \* calls of resolveDns()
  Commands,   \* calls of init() with forceget: from cc.js and the boot code
  Timeout     \* downloadTimeout(), in ticks: one sleep of waitUntilDone()

ASSUME BlocklistsAssumption ==
  /\ Timeout \in Nat \ {0}
  /\ Requests \cap Commands = {}

Calls == Requests \cup Commands

\* A filter's timestamp; that of a filter not set up stands for the month,
\* which takes its place in cache keys.
Versions == {"bundled", "renewed"}
NoFilter == "none"

VARIABLES
  noop,      \* blocklists are disabled
  nowait,    \* the filter is initialised in the background (also bgBwInit)
  old,       \* the configuration the program came with is to be renewed
  filter,    \* the filter that is set up, or NoFilter
  building,  \* isBlocklistUnderConstruction
  age,       \* time since startTime, up to 2 * Timeout + 1
  init,      \* where each call of init() is, or its outcome
  config,    \* bconfig, and ft: what each call is to construct
  waited,    \* totalWaitms of each waitUntilDone()
  asleep,    \* the calls whose sleep() is not over
  listed,    \* per request: what of it the user's blocklists hold
  ts,        \* the filter's timestamp when the request came in
  max,       \* fromMax
  upstream,  \* what upstream said
  result,    \* what resolveDns() made of it
  primed,    \* what it put in the cache: with stamps, whose, or without
  late       \* history: a construction took longer than 2 * Timeout

settings == <<noop, nowait, old>>
request == <<listed, ts, max, upstream, result, primed>>
vars == <<settings, filter, building, age, init, config, waited, asleep,
          request, late>>

loaded == filter # NoFilter

Init ==
  /\ noop \in BOOLEAN /\ nowait \in BOOLEAN /\ old \in BOOLEAN
  /\ filter = NoFilter
  /\ building = FALSE /\ age = 0
  /\ init = [c \in Calls |-> "none"]
  /\ config = [c \in Calls |-> "bundled"]
  /\ waited = [c \in Calls |-> 0]
  /\ asleep = {}
  /\ listed = [r \in Requests |-> "none"]
  /\ ts = [r \in Requests |-> NoFilter]
  /\ max = [r \in Requests |-> FALSE]
  /\ upstream = [r \in Requests |-> "none"]
  /\ result = [r \in Requests |-> "none"]
  /\ primed = [r \in Requests |-> "no"]
  /\ late = FALSE

Constructing == {c \in Calls : init[c] \in {"renewing", "downloading"}}
Overdue == age > 2 * Timeout
-----------------------------------------------------------------------------
InitIs(c, st) == init' = [init EXCEPT ![c] = st]

\* setupLocally() and buildBlocklistFilter(), in one turn: at boot, before
\* anything is served, the filter is loaded from files on disk if there are
\* any of the program's own version (on Deno, however old; Node does not look
\* at its files if that is to be renewed).
SetupLocally ==
  /\ \A c \in Calls : init[c] = "none"
  /\ ~loaded /\ ~noop
  /\ filter' = "bundled" /\ building' = FALSE /\ age' = 0
  /\ UNCHANGED <<settings, request, init, config, waited, asleep, late>>

\* Slip: the flag is not raised.
ConstructUnflagged(c) ==
  /\ age' = 0
  /\ InitIs(c, "downloading")
  /\ UNCHANGED <<building, waited, asleep>>

\* initBlocklistConstruction() up to its first await: a configuration that is
\* too old is renewed first.
Construct(c) ==
  /\ building' = TRUE /\ age' = 0
  /\ InitIs(c, IF old THEN "renewing" ELSE "downloading")
  /\ UNCHANGED <<waited, asleep>>

\* Slip: who is forced to get the filter has it constructed, if it is old.
ReadyForced(forceget) == (loaded /\ ~(forceget /\ old)) \/ noop

\* Is there no filter to construct?
Ready(forceget) == loaded \/ noop

\* init()
InitCall(c, forceget) ==
  /\ init[c] = "none"
  /\ \/ /\ Ready(forceget)
        /\ InitIs(c, "filter")
        /\ UNCHANGED <<building, age, waited, asleep>>
     \/ /\ ~Ready(forceget)
        /\ ~building \/ Overdue
        /\ Construct(c)
     \/ /\ ~Ready(forceget) /\ building /\ ~Overdue
        /\ nowait /\ ~forceget
        /\ InitIs(c, "empty")
        /\ UNCHANGED <<building, age, waited, asleep>>
     \/ /\ ~Ready(forceget) /\ building /\ ~Overdue
        /\ ~nowait \/ forceget
        /\ InitIs(c, "polling")
        /\ asleep' = asleep \cup {c}
        /\ UNCHANGED <<building, age, waited>>

Command(c) ==
  /\ InitCall(c, TRUE)
  /\ UNCHANGED <<settings, request, filter, config, late>>

\* renew() is through, with a newer configuration or not: it never throws.
Renewed(c) ==
  /\ init[c] = "renewing"
  /\ InitIs(c, "downloading")
  /\ \E v \in Versions : config' = [config EXCEPT ![c] = v]
  /\ UNCHANGED <<settings, request, filter, building, age, waited, asleep, late>>

\* Whoever is through lowers the flag, whether or not others go on.
Built(c) ==
  /\ init[c] = "downloading"
  /\ filter' = config[c] /\ building' = FALSE
  /\ InitIs(c, "filter")
  /\ config' = [config EXCEPT ![c] = "bundled"]
  /\ UNCHANGED <<settings, request, age, waited, asleep, late>>

\* Slip: it stays up when a download fails.
BuildFailsFlagged(c) ==
  /\ init[c] = "downloading"
  /\ InitIs(c, "exception")
  /\ UNCHANGED <<settings, request, filter, building, age, config, waited, asleep, late>>

BuildFails(c) ==
  /\ init[c] = "downloading"
  /\ building' = FALSE
  /\ InitIs(c, "exception")
  /\ config' = [config EXCEPT ![c] = "bundled"]
  /\ UNCHANGED <<settings, request, filter, age, waited, asleep, late>>

\* Slips: a sleep is not counted, or one too many is slept.
TotalUncounted(c) == waited[c]
WakeLate(c) ==
  /\ init[c] = "polling" /\ c \notin asleep
  /\ waited' = [waited EXCEPT ![c] = @ + 1]
  /\ \/ waited[c] >= Timeout /\ InitIs(c, "exception") /\ UNCHANGED asleep
     \/ waited[c] < Timeout /\ asleep' = asleep \cup {c} /\ UNCHANGED init
  /\ UNCHANGED <<settings, request, filter, building, age, config, late>>

Total(c) == waited[c] + 1

\* waitUntilDone(): once time is up there is no further look at the filter.
Wake(c) ==
  /\ init[c] = "polling" /\ c \notin asleep
  /\ waited' = [waited EXCEPT ![c] = Total(c)]
  /\ \/ Total(c) >= Timeout /\ InitIs(c, "exception") /\ UNCHANGED asleep
     \/ Total(c) < Timeout /\ loaded /\ InitIs(c, "filter") /\ UNCHANGED asleep
     \/ Total(c) < Timeout /\ ~loaded /\ asleep' = asleep \cup {c} /\ UNCHANGED init
  /\ UNCHANGED <<settings, request, filter, building, age, config, late>>
-----------------------------------------------------------------------------
\* What of a request the user's blocklists hold: its question's name, a name
\* that only blockAnswer() goes by (one that the answer leads to, or that of a
\* question isQueryBlockable() passes over, such as TXT or MX), or nothing.
Listings == {"none", "question", "answer"}

\* blockQuestion(): without a filter there are no stamps to look at.
QuestionBlocked(l) == loaded /\ l = "question"

\* resolveDns() when the question itself is blocked: it is cached so.
Block(r) ==
  /\ upstream[r] = "none" /\ result[r] = "none"
  /\ QuestionBlocked("question")
  /\ listed' = [listed EXCEPT ![r] = "question"]
  /\ ts' = [ts EXCEPT ![r] = filter]
  /\ result' = [result EXCEPT ![r] = "blocked"]
  /\ primed' = [primed EXCEPT ![r] = filter]
  /\ UNCHANGED <<settings, filter, building, age, init, config, waited, asleep,
                 max, upstream, late>>

\* resolveDns() up to its await: upstream is asked (Max, the resolver that
\* blocks by itself, if the filter is to be set up in the background).
Resolve(r) ==
  /\ upstream[r] = "none" /\ result[r] = "none"
  /\ \E l \in Listings :
       /\ ~QuestionBlocked(l)
       /\ listed' = [listed EXCEPT ![r] = l]
  /\ ts' = [ts EXCEPT ![r] = filter]
  /\ max' = [max EXCEPT ![r] = ~loaded /\ nowait]
  /\ InitCall(r, FALSE)
  /\ upstream' = [upstream EXCEPT ![r] = "asked"]
  /\ UNCHANGED <<settings, filter, config, result, primed, late>>

\* What upstream may say.  An answer that leads elsewhere, to the target, has a
\* CNAME, HTTPS or SVCB record: it is "cloaked" if that comes first, and
\* "buried" if another record does or if the answer is 0.0.0.0 or :: already
\* (isAnswerBlockable(), isAnswerQuad0()).  Others have no such record, have no
\* records, or cannot be decoded; or there is none.
Outcomes == {"plain", "cloaked", "buried", "empty", "malformed", "failed"}

Upstream(r, o) ==
  /\ upstream[r] = "asked"
  /\ upstream' = [upstream EXCEPT ![r] = o]
  /\ UNCHANGED <<settings, filter, building, age, init, config, waited, asleep,
                 listed, ts, max, result, primed, late>>

\* blockAnswer(): in answers it looks at, any name counts, the question's too,
\* whatever the question's type.
AnswerBlocked(r) ==
  loaded /\ upstream[r] = "cloaked" /\ listed[r] # "none"

\* Slip: the filter is taken to be set up.
UnfilteredNever(r) == FALSE

\* "no blocklist-filter", though one is needed.
Unfiltered(r) == ~max[r] /\ ts[r] = NoFilter /\ ~noop /\ ~loaded

Primes(r) == ~max[r]

\* Both tasks are settled (the one in the background is not waited for).
Settled(r) ==
  /\ upstream[r] \in Outcomes
  /\ max[r] \/ init[r] \in {"filter", "empty", "exception"}

ResolveFails(r) ==
  /\ Settled(r) /\ result[r] = "none"
  /\ upstream[r] = "failed" \/ Unfiltered(r)
  /\ result' = [result EXCEPT ![r] = "error"]
  /\ UNCHANGED <<settings, filter, building, age, init, config, waited, asleep,
                 listed, ts, max, upstream, primed, late>>

\* The answer is blocked or goes out (as a SERVFAIL, if malformed).  One that
\* came from the cache is not put there again.
Resolved(r, fromCache) ==
  /\ Settled(r) /\ result[r] = "none"
  /\ upstream[r] # "failed" /\ ~Unfiltered(r)
  /\ result' = [result EXCEPT ![r] = IF AnswerBlocked(r) THEN "blocked" ELSE "answer"]
  /\ primed' = [primed EXCEPT ![r] =
       IF fromCache \/ ~Primes(r) THEN "no"
       ELSE IF loaded /\ upstream[r] # "malformed" THEN filter ELSE "bare"]
  /\ UNCHANGED <<settings, filter, building, age, init, config, waited, asleep,
                 listed, ts, max, upstream, late>>

Tick ==
  /\ age' = IF Overdue THEN age ELSE age + 1
  /\ asleep' = {}
  /\ late' = (late \/ (Constructing # {} /\ age >= 2 * Timeout))
  /\ UNCHANGED <<settings, request, filter, building, init, config, waited>>

Next ==
  \/ SetupLocally
  \/ \E c \in Commands : Command(c)
  \/ \E c \in Calls : Renewed(c) \/ Built(c) \/ BuildFails(c) \/ Wake(c)
  \/ \E r \in Requests : \/ Block(r) \/ Resolve(r) \/ ResolveFails(r)
                         \/ \E o \in Outcomes : Upstream(r, o)
                         \/ \E fromCache \in BOOLEAN : Resolved(r, fromCache)
  \/ Tick

\* Time goes by, and timers are served.  Downloads have no timeout: nothing is
\* assumed of them.
Fairness == WF_vars(Tick) /\ \A c \in Calls : WF_vars(Wake(c))

Spec == Init /\ [][Next]_vars /\ Fairness
-----------------------------------------------------------------------------
TypeOK ==
  /\ noop \in BOOLEAN /\ nowait \in BOOLEAN /\ old \in BOOLEAN
  /\ filter \in Versions \cup {NoFilter} /\ building \in BOOLEAN /\ late \in BOOLEAN
  /\ age \in 0 .. 2 * Timeout + 1
  /\ init \in [Calls -> {"none", "renewing", "downloading", "polling",
                         "filter", "empty", "exception"}]
  /\ config \in [Calls -> Versions]
  /\ waited \in [Calls -> 0 .. Timeout]
  /\ asleep \subseteq Calls
  /\ listed \in [Requests -> Listings]
  /\ ts \in [Requests -> Versions \cup {NoFilter}] /\ max \in [Requests -> BOOLEAN]
  /\ upstream \in [Requests -> {"none", "asked"} \cup Outcomes]
  /\ result \in [Requests -> {"none", "blocked", "answer", "error"}]
  /\ primed \in [Requests -> {"no", "bare"} \cup Versions]

\* The flag is up only while someone is constructing, however many overlapped
\* and failed: no failure leaves the filter waited for by all and built by none.
NeverWedged == building => Constructing # {}

\* "someone's constructing... wait till finished": the filter (hundreds of
\* megabytes) is downloaded once at a time, unless a download is long overdue.
OneConstruction == ~late => \A c, d \in Constructing : c = d

\* An answer that begins with a CNAME, HTTPS or SVCB record and leads to a name
\* on the user's blocklists, or comes from one, is not let through, whenever the
\* filter gets set up: not while it is missing, not after a failed or timed-out
\* initialisation.  (One in which another record comes first is not looked at:
\* see "buried".)
CloakedAreBlocked ==
  \A r \in Requests :
    result[r] = "answer" /\ upstream[r] = "cloaked" /\ ~noop /\ ~max[r] =>
      listed[r] = "none"

\* What is cached under a filter's timestamp has that filter's stamps, though
\* the one is taken before upstream is asked and the other after (unless an
\* overdue construction replaced the filter meanwhile); and answers that were
\* looked up in no filter are not cached at all: from there they would be served
\* to others as if they were on no list.
CachedUnderOwnFilter ==
  \A r \in Requests :
    /\ primed[r] = "bare" => noop \/ upstream[r] = "malformed"
    /\ primed[r] \in Versions /\ ts[r] # NoFilter /\ ~late => primed[r] = ts[r]

\* Whoever waits for someone else's download returns, even if that never ends.
WaitersReturn ==
  \A c \in Calls : init[c] = "polling" ~> init[c] # "polling"

\* What a comment in resolveDns() expects: a question that could not be
\* blocked, as the filter was not set up, is blocked by its answer "regardless".
BlockedRegardless ==
  \A r \in Requests :
    result[r] = "answer" /\ upstream[r] \in {"plain", "cloaked", "buried"} /\ ~noop /\ ~max[r] =>
      listed[r] # "question"
=============================================================================
