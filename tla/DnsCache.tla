------------------------------ MODULE DnsCache ------------------------------
(***************************************************************************)
(* The caches of answers to a question: the one of this process            *)
(* (localcache) and the one its region shares (httpcache), in DnsCache     *)
(* (src/plugins/dns-op/cache.js) and cache-util.js, with those who use     *)
(* them over DoH: DNSCacheResponder.resolveFromCache() and                 *)
(* DNSResolver.resolveDns().                                               *)
(*                                                                         *)
(* Entries are shared by all users; what is on a user's blocklists is not. *)
(* A question that was blocked is cached too, as a packet without answer.  *)
(* Different questions do not meet in the caches: there is one here.       *)
(*                                                                         *)
(* httpcache belongs to the platform.  Processes that run this same code   *)
(* put entries there, and some have been on the way for long: reading it   *)
(* returns any entry made so far, or none.                                 *)
(***************************************************************************)
EXTENDS Naturals

CONSTANTS
  Requests,   \* the requests this process serves
  Ttl,        \* of the answers, in ticks
  CacheTtl,   \* cacheTtl(): how long an answer is kept beyond that
  MaxTime,    \* bound: the clock stops there
  None, Blocked, Failed

ASSUME CacheAssumption ==
  /\ Ttl \in Nat \ {0} /\ CacheTtl \in Nat /\ MaxTime \in Nat
  /\ Blocked # Failed /\ None \notin {Blocked, Failed}

\* Packets: one that is no answer (the question, of a blocked one), an answer
\* with addresses, one that leads to another name first, one without records.
Answers == {"plain", "cloaked", "empty"}
Packets == {"question"} \cup Answers

Entries == [packet : Packets, born : Nat, expiry : Nat]
Held == [packet : Packets, age : Nat, cached : BOOLEAN]
Replies == [packet : Packets, age : Nat]

ASSUME RepliesAssumption == \A v \in {None, Blocked, Failed} : v \notin Replies

VARIABLES
  now,
  bgBwInit, \* the filter is set up in the background: Max resolves meanwhile
  blf,      \* the blocklist filter is set up
  local,    \* the entry of localcache, or None
  lists,    \* per request: what of it the user's blocklists hold
  pc,       \* where each request is
  getting,  \* the requests whose call of httpcache.get() has not returned
  held,     \* the answer each has got, while the filter is not set up
  result    \* what it was replied to with

vars == <<now, bgBwInit, blf, local, lists, pc, getting, held, result>>

given == <<bgBwInit, lists>>

Listed == {"none", "question", "target"}

Init ==
  /\ now = 0 /\ blf \in BOOLEAN /\ bgBwInit \in BOOLEAN
  /\ local = None
  /\ lists \in [Requests -> Listed]
  /\ pc = [r \in Requests |-> "new"]
  /\ getting = {}
  /\ held = [r \in Requests |-> None]
  /\ result = [r \in Requests |-> None]
-----------------------------------------------------------------------------
IsAnswer(p) == p \in Answers

\* determineCacheExpiry(): zero, expired for ever, for what is no answer.
DetermineCacheExpiry(p, at) == IF IsAnswer(p) THEN at + Ttl + CacheTtl ELSE 0

\* What is cached at a time, of an answer upstream gave ("born") then or earlier.
Entry(p, born, at) ==
  [packet |-> p, born |-> born, expiry |-> DetermineCacheExpiry(p, at)]

HttpEntries == {Entry(p, t, t) : p \in Packets, t \in 0 .. now}

\* isAnswerFresh(): a die decides whether the answer's own time to live is to
\* be heeded (it always is, if strict).
FreshFor(e, margin) == e.expiry > 0 /\ now + margin <= e.expiry

IsAnswerFresh(e, strict) ==
  FreshFor(e, CacheTtl) \/ (~strict /\ FreshFor(e, 0))
MayBeStale(e) == ~FreshFor(e, CacheTtl)

\* put(): an answer is not overridden by a question.  It goes to httpcache, too.
Put(e) ==
  local' = IF local # None /\ IsAnswer(local.packet) /\ ~IsAnswer(e.packet)
           THEN local ELSE e

\* The least-frequently-used entries make room for new ones.
Evict ==
  /\ local # None /\ local' = None
  /\ UNCHANGED <<given, now, blf, pc, getting, held, result>>

FilterSetup ==
  /\ ~blf /\ blf' = TRUE
  /\ UNCHANGED <<given, now, local, pc, getting, held, result>>

Tick ==
  /\ now < MaxTime /\ now' = now + 1
  /\ UNCHANGED <<given, blf, local, pc, getting, held, result>>
-----------------------------------------------------------------------------
Goes(r, to) == pc' = [pc EXCEPT ![r] = to]
Returns(r, outcome) == result' = [result EXCEPT ![r] = outcome]
Reply(p, age) == [packet |-> p, age |-> age]
Age(e) == now - e.born

\* Slip: who has no list with the name on it is blocked as others were.
OnAnyList(r, p) == p = "question" \/ lists[r] = "question"

\* block(): the packet's names are looked up in the user's lists.
OnList(r, p) == lists[r] = "question" \/ (lists[r] = "target" /\ p = "cloaked")

\* resolveFromCache(), with what the cache gave.
Consult(r, e) ==
  \/ /\ e # None /\ OnList(r, e.packet)
     /\ Returns(r, Blocked) /\ Goes(r, "done")
  \/ /\ e # None /\ ~OnList(r, e.packet) /\ IsAnswerFresh(e, FALSE)
     /\ Returns(r, Reply(e.packet, Age(e))) /\ Goes(r, "done")
  \/ /\ e # None => ~OnList(r, e.packet) /\ MayBeStale(e)
     /\ Goes(r, "resolve") /\ UNCHANGED result

\* get(): the local entry goes first; with the filter at hand there is no need
\* of another.
LookUp(r) ==
  /\ pc[r] = "new"
  /\ \/ (local # None \/ blf) /\ Consult(r, local) /\ UNCHANGED getting
     \/ /\ local = None /\ ~blf
        /\ Goes(r, "lookup") /\ getting' = getting \cup {r}
        /\ UNCHANGED result
  /\ UNCHANGED <<given, now, blf, local, held>>

\* httpcache.get() returns to get(), which goes on: "write-through local cache".
WriteThrough(r, e) ==
  /\ r \in getting /\ getting' = getting \ {r}
  /\ local' = IF e = None THEN local ELSE e
  /\ UNCHANGED <<given, now, blf>>

LookedUp(r, e) ==
  /\ pc[r] = "lookup"
  /\ WriteThrough(r, e)
  /\ Consult(r, e)
  /\ UNCHANGED held
-----------------------------------------------------------------------------
\* resolveDns() blocks the question if it can, and caches that.
BlockQuestion(r) ==
  /\ pc[r] = "resolve"
  /\ blf /\ lists[r] = "question"
  /\ Put(Entry("question", now, now))
  /\ Returns(r, Blocked) /\ Goes(r, "done")
  /\ UNCHANGED <<given, now, blf, getting, held>>

\* resolveDnsFromCache() accepts an answer that is fresh, by its own time to
\* live if it has no records.
Usable(e) == e # None /\ IsAnswer(e.packet) /\ IsAnswerFresh(e, e.packet = "empty")
Unusable(e) == e # None => ~IsAnswer(e.packet) \/ MayBeStale(e)

\* resolveDnsUpstream() is through: the first answer counts.
Holds(r, p, age, cached) ==
  held' = [held EXCEPT ![r] = [packet |-> p, age |-> age, cached |-> cached]]

\* Otherwise it asks upstream (Max, if the filter is set up in the background)
\* and get() at once.
Resolve(r) ==
  /\ pc[r] = "resolve"
  /\ ~(blf /\ lists[r] = "question")
  /\ Goes(r, IF ~blf /\ bgBwInit THEN "max" ELSE "asked")
  /\ \/ /\ local # None /\ Usable(local)
        /\ Holds(r, local.packet, Age(local), TRUE) /\ UNCHANGED getting
     \/ local # None /\ Unusable(local) /\ UNCHANGED <<getting, held>>
     \/ local = None /\ getting' = getting \cup {r} /\ UNCHANGED held
  /\ UNCHANGED <<given, now, blf, local, result>>

Asking(r) == pc[r] \in {"asked", "max"} /\ held[r] = None

\* httpcache has an answer first...
CacheAnswers(r, e) ==
  /\ Asking(r)
  /\ WriteThrough(r, e)
  /\ Usable(e) /\ Holds(r, e.packet, Age(e), TRUE)
  /\ UNCHANGED <<pc, result>>

\* ...or none, or too late: it is written through in any case.
CacheMisses(r, e) ==
  /\ pc[r] \in {"asked", "max", "done"}
  /\ WriteThrough(r, e)
  /\ ~Asking(r) \/ Unusable(e)
  /\ UNCHANGED <<pc, held, result>>

UpstreamAnswers(r, p) ==
  /\ Asking(r)
  /\ Holds(r, p, 0, FALSE)
  /\ UNCHANGED <<given, now, blf, local, pc, getting, result>>

\* Slip: what the caches answered is cached anew.
PrimesCached(r) == pc[r] # "max"

\* "if res was got from caches or if res was got from max doh [...] skip
\* hydrating the cache"
Primes(r) == pc[r] # "max" /\ ~held[r].cached

\* The rest of resolveDns(), once the filter is set up (Max does without): an
\* answer that leads to a listed name, or comes from one, is blocked.  What is
\* no answer is cached, but dnsResolverCallback() makes an exception of it.
Verdict(r, p, age) ==
  IF blf /\ p = "cloaked" /\ lists[r] # "none" THEN Blocked
  ELSE IF IsAnswer(p) THEN Reply(p, age) ELSE Failed

Resolved(r) ==
  /\ pc[r] \in {"asked", "max"} /\ held[r] # None
  /\ blf \/ pc[r] = "max"
  /\ Returns(r, Verdict(r, held[r].packet, held[r].age))
  /\ IF Primes(r) THEN Put(Entry(held[r].packet, now - held[r].age, now))
                  ELSE UNCHANGED local
  /\ Goes(r, "done") /\ held' = [held EXCEPT ![r] = None]
  /\ UNCHANGED <<given, now, blf, getting>>

\* Upstream fails, or the filter cannot be set up.
ResolveFails(r) ==
  /\ pc[r] \in {"asked", "max"}
  /\ held[r] = None \/ (~blf /\ pc[r] = "asked")
  /\ Returns(r, Failed) /\ Goes(r, "done") /\ held' = [held EXCEPT ![r] = None]
  /\ UNCHANGED <<given, now, blf, local, getting>>

Next ==
  \/ Evict \/ FilterSetup \/ Tick
  \/ \E r \in Requests :
       \/ LookUp(r) \/ BlockQuestion(r) \/ Resolve(r) \/ Resolved(r) \/ ResolveFails(r)
       \/ \E e \in HttpEntries \cup {None} :
            LookedUp(r, e) \/ CacheAnswers(r, e) \/ CacheMisses(r, e)
       \/ \E p \in Packets : UpstreamAnswers(r, p)

Spec == Init /\ [][Next]_vars
-----------------------------------------------------------------------------
TypeOK ==
  /\ now \in 0 .. MaxTime
  /\ blf \in BOOLEAN /\ bgBwInit \in BOOLEAN
  /\ local \in Entries \cup {None}
  /\ lists \in [Requests -> Listed]
  /\ pc \in [Requests -> {"new", "lookup", "resolve", "asked", "max", "done"}]
  /\ getting \subseteq Requests
  /\ held \in [Requests -> Held \cup {None}]
  /\ result \in [Requests -> Replies \cup {None, Blocked, Failed}]

\* An answer is not kept alive by being asked for: what the caches answer with
\* is no older than the longest they may keep it, counted from when upstream's
\* answer was cached, through however many caches and processes it went.
NoImmortalAnswers ==
  \A r \in Requests : result[r] \in Replies => result[r].age <= Ttl + CacheTtl

\* Users share the caches and not their verdicts: one is blocked for a name on
\* a list of its own only, never because another one was; and none is served
\* what was cached for a blocked question as if it were an answer, nor an
\* answer that leads to a name it lists (but by Max, who blocks by itself).
VerdictsAreOwn ==
  \A r \in Requests :
    /\ result[r] = Blocked => lists[r] # "none"
    /\ result[r] \in Replies =>
         /\ IsAnswer(result[r].packet)
         /\ result[r].packet = "cloaked" => lists[r] = "none" \/ bgBwInit
=============================================================================
