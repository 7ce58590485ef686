# TLA+ models of serverless-dns

This directory is the verification development of RethinkDNS' serverless-dns
(`src/`): TLA+ modules translated from its JavaScript, TLC runs that check them
on small instances, and TLAPS proofs of their main properties for all
instances. `PROJECT.json` holds, for each definition, the source lines it
stands for, and for each property a plausible slip of the code that breaks it.

## 1. The system

serverless-dns is a stub resolver: clients ask it over DoH, or over DoT and
DNS over TCP where it runs on a server of its own (Node, Deno); it filters
questions and answers by the user's blocklists, answers from caches, and asks
upstream over DoH or plain DNS. A process is single-threaded. All that
interleaves does so at an `await`, at a callback or at a timer, and the models
have one action for each stretch of code between two of those.

| Component | Source | State | Operations | Module |
|---|---|---|---|---|
| Event bus | `src/system.js` | sticky and ephemeral names, wait groups, listeners, parcels | `pub`, `sub`, `when` | `EventBus`, `BusClients` |
| Upstream resolver, plain DNS | `src/plugins/dns-op/resolver.js` | events named after questions, on the bus | `resolveDnsUpstream` | `Coalesce`, `Resolution` |
| Upstream resolver, filtering | same, `blocker.js` | none but its requests' locals | `resolveDns`, `blockQuestion`, `blockAnswer`, `primeCache` | `Blocklists`, `DnsCache` |
| Plain DNS transport | `src/core/node/dns-transport.js`, `src/core/dns/conns.js`, `transact.js` | two pools of sockets, transactions | `udpquery`, `tcpquery`, `give`, `take`, sweep, `teardown` | `Transport` |
| DoT/TCP server: framing | `src/server-node.js`, `src/server-deno.ts` | a scratch buffer per connection (Node) | `handleTCPData`, `handleTCPQuery`; Deno's `serveTcp` | `Framing`, `DenoFraming` |
| DoH request pipeline | `src/core/doh.js`, `plugin.js`, `io-state.js` | the request's IOState and context | `proxyRequest`, `execute`, callbacks | `Doh` |
| Blocklist construction | `src/plugins/rethinkdns/main.js`, `src/core/node/blocklists.js` | the filter and its version, the under-construction flag and its start | `init`, `renew`, `waitUntilDone`, `initBlocklistConstruction`, set-up at boot | `Blocklists` |
| DNS cache | `src/plugins/dns-op/cache.js`, `cache-resolver.js`, `cache-util.js` | the local and the region's cache | `get`, `put`, `resolveFromCache` | `DnsCache` |
| Stamps and block decisions | `src/plugins/rdns-util.js`, `blocker.js` | none | `intersect`, the descent over wildcards, `blockstampFromUrl` and its fields | `Stamps`, `Users` |
| Users, authorisation, commands | `src/plugins/users/`, `command-control/` | memoized tokens, decoded stamps | `auth`, `gen`, `loadUser`, access to logs and analytics | `Users`; a command's outcome in `Doh` |
| Observability | `src/plugins/observability/`, `src/core/log.js` | metrics client, logs | `exec` | a step of `Doh` |
| Server lifecycle | `src/server-node.js`, `src/core/svc.js`, `src/core/node/config.js` | connection tracker, services, load adjustments, certificates | boot, `trackConn`, `adjustMaxConns`, `systemDown`, `certUpdateForever` | `Lifecycle`, `Certs` |
| Entry points, configuration | `src/server-*.js`, `src/core/*/config.*`, `src/core/env.js`, `src/commons/envutil.js` | the events of the boot, listeners, the environment | boot, `serveDoh`, `systemUp`, `systemDown` | `Platforms`, `Lifecycle` |
| Encodings | `src/commons/` | none | pure conversions | not modelled |

How they interact. A DoT or TCP query, once framed, is wrapped into a DoH
request and goes through the pipeline like any other. The pipeline runs its
plugins in order: user, prefilter (if recursive), cache, commands, resolver,
logs. It is reached once the platform has booted, which on Workers and Fastly is
brought about by the requests themselves. Whose blocklists apply is in the url, or in
the TLS server name a url is made of. The cache plugin and the resolver share one cache object; both, and one
command, use the blocklist filter, which the first of them to need it has
constructed while the others poll. The resolver asks the caches and DoH
upstreams at once, or goes through the transport, in which case questions of one
name, type and DNSSEC-OK flag wait for each other on the event bus. The bus also carries the boot
(`prepare`, `ready`, `go`) and the shutdown (`stop`).

What is hard about it: waits that begin as their event fires; timers that
reply on behalf of code which then goes on; sockets that are parked, swept,
reused and torn down while answers are on the way; a construction that fails
or outlasts those who wait for it; state read before an await and used after;
an entry cached for one user and read by another, be it an answer, a token or a
decoded stamp; two bit arrays walked at once; a boot that fails; a stream cut anywhere. Each
place where it bites is listed under "hazards" in `PROJECT.json`, with the
properties that cover it, or with the reason why none does.

## 2. Modules

**`EventBus`** has the state and the operations of `system.js`: `pub()` on
sticky, ordinary and ephemeral names, `sub()`, `when()`, the microtasks that
run callbacks. It has no behaviour of its own. **`BusClients`** adds the code
around it: any number of waiters and listeners, with timeouts, that use it in
any order. **`Coalesce`** composes the same bus with requests in
`resolveDnsUpstream()`: who finds its question's event waits
for it, others ask upstream (udp, and tcp if truncated) and publish.

**`Resolution`** is abstract: each request is replied to at most once, with a
failure or with an answer to a question that asks for the same. `Coalesce` implements it
with "the same" read as name (however spelled), type and DNSSEC-OK, `Transport` with "the same"
read as the query itself (`ImplementsResolution` in both). A packet in `Coalesce` has more in
it than that: the class of a question, the checking-disabled flag and EDNS options go upstream with the
leader's query, and `makeId()` leaves them out. Requests that differ in them share an answer, in the
code and in the model, and no property says that they do not.

**`Transport`** has one protocol's pool and its exchanges: `TakePooled`,
`Connect`, `Connected`, `ConnectElapsed`, `ExchangeFails`, `Upstream` and
`Receive` (the network sends an answer and delivers it), `ParkedCloses`, `ParkedFails`,
`TcpConnectFails`, `UdpConnectFails`, `Teardown`, `Tick`. (A tcp connection that fails raises an event no one
listens to; that of a udp socket is given to the callback, whose clean-up throws. Either ends the process.) An answer is known by the query it answers.
The code takes the first datagram on its socket for the answer and compares no
id, and so does the model: that answers are right is a theorem, not an
assumption.

**`Framing`** has one connection's scratch buffer. Bytes are known by their
place in the stream, so that no property depends on values. `Data(n)` is a
'data' event with n bytes, `Settle(t)` what follows when a suspended
`handleTCPQuery()` returns. The constant `Overlap` says whether data may come in
while the rest of a chunk is held. **`DenoFraming`** extends it with Deno's
`serveTcp()`, a loop of reads without a buffer for what a read gives short (`ReadHeader`, `ReadQuery`,
`ReadNothing`, `ReadThrows`), so that one run asks the same of both: the variable
`runtime` says who serves the connection. `DenoGivesUp` is a query that cannot be resolved, or whose answer
is written in part or not at all: the code logs it at most, closes nothing and reads on, and the model keeps
it in `unanswered`.

**`Blocklists`** has the filter and its construction, along with the requests
that use it in `resolveDns()` and the commands that insist on it. The filter is of one of two
versions, the configuration's or that of a renewal (`Renewed`); a request
takes the version it will file its answer under (`ts`) before it asks upstream, and the
stamps after. `SetupLocally` is the boot, which loads the lists
from disk. Where a name is listed is a parameter of each request: that of a question of a type which
may be blocked, or one that only the answer block goes by. That looks at an answer only if its
first record is a CNAME, HTTPS or SVCB ("cloaked"), and not if another record comes first or it has
been blocked upstream ("buried").

**`DnsCache`** has the entries for one question: the local cache, the shared
one (external: reading it gives any entry any process has made so far, or
none, as processes share no order), the cache plugin (`LookUp`, `LookedUp`) and
`resolveDns()` over DoH with the race of caches and upstreams (`Resolve`,
`CacheAnswers`, `CacheMisses`, `UpstreamAnswers`, `Resolved`). Packets are of four kinds: a
question, and answers with addresses, with a CNAME, without records.

**`Doh`** has one request, its IOState and its timer. A plugin is an action,
from the turn in which its `exec()` returns through its callback to where
`execute()` suspends next; `Timeout` may come before it, while the plugin is
suspended, and does not stop it. **`Platforms`** composes it with where the
request comes from: the sticky events `prepare`, `ready`, `steady` and `go` and what
runs on each (`Prep`, `SystemReady`, `Up`, `BootThrows`), requests of Workers
and Fastly that publish the first and wait for the last (`ServeDoh`, `Go`, `OtherServed`),
and Deno's servers (`SystemUp`, `SystemDown`, `GameOver`). `Handle` is a step of `Doh`.

**`Stamps`** has no state: where a url carries a stamp (`BlockstampFromUrl`), what its
fields are, how two flags are intersected and how a name's domains are
tried (`ApplyBlocklists` and what it uses). A flag is a sequence of sets of bits, as in the code
a header word and a word for each bit of it; which texts decode to which flag is a
constant, one for each of the two alphabets. **`Users`** adds the requests: a DoT
connection's server name is made into a url (`GetMetadata`), the url is authorised
against the access keys, by tokens that are computed across an await and memoized, its
stamp is decoded or found in the users' cache, and the question and answers, or the command, are
decided on. The blocker's guards are as in the code: a question is looked at by its type
(`IsQueryBlockable`), an answer by that of its first record, unless it is blocked already
(`IsAnswerBlockable`, `IsAnswerQuad0`). Names and hosts are sequences of labels; a token is what it is the
hash of, so that no two are equal that ought not to be.

**`Certs`** has the clock, the certificate in the `secOpts` that all TLS servers
share, and for each server its `certUpdateForever()`: due at a time, fetching, or given up
(`Fetch` runs up to the await of `replaceKeyCert()`, `FetchFails` and `Renewed`
go on from there). A certificate is the time it is valid until. **`Lifecycle`** extends
it with the process: the events of the boot (`Prep`, `SystemReady`, `Up`,
`SystemUp`), the connections (`Accept`, `Secured`, `HandshakeFails`, `Destroyed`,
`Closed`) and the tracker's map of them, `AdjustMaxConns`, and how it stops
(`StopAfter`, `StopProc`, `Bye`). A connection with TLS is tracked when its
handshake is done; one the tracker does not take is destroyed.

In all modules, operators that a comment begins with "Slip:" are slips
of the code, used by no specification: `PROJECT.json` says which definition each
would replace and which property it breaks.

## 3. Runs

| Run | Bounds | States | What it shows |
|---|---|---|---|
| `bus` | 2 waiters, 2 listeners (one timed), one sticky, one ordinary, one made-up name, 2 parcels, 3 `pub`s | 201,028 | waits are never stranded, sticky waits agree, one-shot listeners run once |
| `coalesce` | 5 requests: three of one id (two spellings, two classes, flags and options), one differing in DNSSEC-OK, one with two questions | 54,648 | replies are to one's own name, type and DNSSEC-OK flag, a leader is under way while anyone waits, every request is replied to; implements `Resolution` |
| `transport` | 4 queries, 4 sockets, pool of 2, both protocols | 265,452 | exclusive use, no leak, no write to a closed socket, own answers; implements `Resolution`; every query is settled |
| `framing` | 6 queries of 2, 3, 2, 3, (too long) 4 and 0 bytes, chunks of up to 12 bytes, Node and Deno | 1,856 | queries are cut out whole, no byte is lost, all are answered or the connection is closed, but for those that Deno lets go of |
| `blocklists` | a request, 2 commands, timeout 2 | 900,592 | construction can always be retried and runs once at a time, answers that begin with an alias from or to a listed name are blocked, what is cached under a version has its stamps, waiters return |
| `doh` | every kind of request, three platforms | 27,520 | there is always a response, logs say what the client got, every request is answered unless the boot failed |
| `cache` | 2 requests, ttl 1, cache ttl 1, clock to 3 | 1,155,061 | cached answers age out, verdicts are the user's own |
| `lifecycle` | 2 sockets, 2 addresses, one server of each sort, loads of 70 and 110 %, clock to 3 | 821,573 | stopping leaves no connection open, renewals are retried in time |
| `users` | 2 requests of 16, 4 filters, 3 sets of access keys, caches of one entry, words of 3 bits | 227,256 | who is let in holds a key, a query the blocker looks at is blocked exactly for a list its user chose, and the flag returned names exactly those lists |

Why the bounds are enough. `bus`: two of each are what it takes to meet at one
event, and three publications retire a name, re-create and retire it again.
`coalesce`: three of one id are a leader, a waiter that times out, and the
leader of a second generation. `transport`: with a pool of 2, three exchanges
under way make it overflow, and a fourth takes from it meanwhile. `framing`: the lengths reach both limits
and beyond, and a chunk of 12 holds two queries and part of a third. `blocklists`: one constructs, one polls and one
comes late; every one of them may be overdue. `doh`: there is no bound; other requests matter only as
they bring the boot about. `users`: words of three bits make headers with gaps, and bodies of up to
three words in which a list is dropped first, in the middle and last; two flags are malformed. Both alphabets
decode one text, to different flags; caches of one entry evict at every
second request, and two requests are what a shared entry takes. The urls have a flag in the host, in the
path, in both and in neither. Among the queries are a TXT question for a listed name, which is let through, an MX one
that is blocked by its answer, and three answers with one listed name, of which one begins with a CNAME, one with an
RRSIG, and one has been blocked upstream. `cache`: an entry can be cached,
be fresh, be stale and expire, and be read by another request at each of these.
`lifecycle`: one socket is in its
handshake while the other is open or closing as the process stops; the loads
let adjustments rise over `Breakpoint` and decay; `SixMin` exceeds what the first
certificate has left, so that the back-off has to be cut down. It sets `PortReuse` to
FALSE: the tracker knows a connection by its address and port, and its
'close' deletes that entry, whoever has it by then. With `PortReuse` TRUE, a peer that comes
back from the same port before the 'close' of its last connection is emitted loses its entry, and TLC
finds it open after the process was stopped.
All proofs are free of these bounds.

Deadlock is not checked, as all of these systems may come to rest: requests
are finite in number, and end.

Three more runs are each about one thing the code's own comments say, and fail:

- `transport_crash`: "not monitoring connection-error events, instead relying
  on timeouts" (`dns-transport.js:136`). A tcp connection that is refused raises an
  'error' event for which there is no listener yet, and so an uncaught exception. The property
  is about tcp only: the comment says nothing of udp, whose connections fail in another way.
- `framing_overlap`: "expect pipelined queries on the same socket"
  (`server-node.js:1165`). `handleTCPData()` awaits an answer while it holds the rest of
  its chunk, and the next chunk overtakes it in the scratch buffer. The run `framing` therefore
  sets `Overlap` to FALSE: clients that pipeline send no
  more while a chunk with several queries is being handled.
- `blocklists_question`: "we expect answer-block to catch the block regardless"
  (`resolver.js:170`). It looks only at answers that begin with a CNAME, HTTPS or SVCB record.

## 4. Fairness

Safety runs assume none. Where liveness is checked:

- `Coalesce`: some request that can go on does. The transport settles
  each query (`EverySettled`, below), and the engine runs each continuation. The timeouts of waiters are
  not fair: that everyone is replied to does not rest on them.
- `Transport`: the timers of a query that waits, `connectTimeout` and `ioTimeout`, fire. Neither
  connections nor answers need ever come, so that `EverySettled` rests on the timers alone; it
  ends with the process (`crashed`).
- `DenoFraming`: queries are resolved in the end, or given up, on either runtime (the pipeline's timer sees
  to it), and a read that needs no bytes returns. The client may stop sending anywhere.
- `Blocklists`: time goes by and timers are served. Downloads have no timeout in the code, and no
  fairness here.
- `Platforms`: the request's timer fires, code that awaits nothing runs on, and a
  request's body arrives or fails. Plugins
  that wait for others may do so forever. The boot of Workers and Fastly awaits
  nothing, and so runs to its end or throws; nothing is assumed of Deno's, which
  downloads files, as it serves no request before its end.

## 5. Proofs

Each `...Proofs` module extends the module it is about and has, for its safety
properties, an inductive invariant, the lemmas that the initial states satisfy
it and each action preserves it, and the theorem. All constants are arbitrary but for the
assumptions their modules name.

- **`BusClientsProofs`**: `BusSafety` (types, consistency of the bus, no
  stranded waiter, agreement on sticky events) and `ParcelsStick` (an action
  property). The invariant adds that a fulfiller is in the wait group of the
  event its waiter asked for and in no other (`WaitsWhereItAsked`): otherwise
  a publication of one event could resolve a wait for another. `RunOnce`: an untimed listener
  runs at most once, from `OnceInv`: until it has run, a callback is held in one
  place, the set of the event it asked for or one microtask.
- **`CoalesceProofs`**: `Safety` and `Refinement`. The invariant adds that the
  bus is not used otherwise (`BusQuiet`), that groups hold requests of their
  own id only, that the parcels already handed over are for the same name, type and DNSSEC-OK flag, and that an id is
  live while it is queried without a timed-out waiter, on which
  `OneQueryPerQuestion` rests. What equal ids mean is a lemma about `MakeId`
  (`IdsTellQuestionsApart`), for packets that may have anything besides what it reads.
  The refinement maps a request's reply to the abstract one. `RepliesComeDue`: who waits does so for
  a query of the same id that is under way, never for another waiter, and each step takes a
  request further and none back, five steps at the most.
- **`TransportProofs`**: `SocketSafety` for any pool size, time-to-live and
  sweep gap, from: queries have the sockets they use (`Attached`) and parked
  sockets are open (`ParkedOpen`). `OwnAnswers` and `TransportResolves` assume
  `SingleCopies`: the protocol is tcp, or the network does not duplicate datagrams (`MaxCopies = 1`).
  Over udp this is needed: with a duplicate, TLC finds a query that gets another one's answer,
  as no id is compared. The invariant is that an answer that may still be delivered is awaited on
  its socket, by its own query (`AnswersAwaited`). `SettledOnce`, of any network: a query is replied to once, when it
  is done, and each step of its own brings it closer to that.
- **`BlocklistsProofs`**: `FilterSafety`. The invariant adds that who constructs has
  raised the flag (`Flagged`), that polls stop in time, and what a request has seen of
  the filter (`SeenIsLoaded`, `Unanswered`): the filter, once loaded, is never unloaded,
  and, unless a construction was overdue, not replaced either, as nobody constructs
  what is there (`Final`). The last is what a request's answer and its stamps agree by; `FilterIsFinal`
  states it of steps. `PollsEnd`: who waits for another's download has slept for less than the timeout, and
  goes on waiting only by sleeping once more.
- **`DnsCacheProofs`**: `CacheSafety`, for any number of requests and any times to live.
  The invariant says that an entry expires when its packet says, counted from when
  upstream gave it (`EntryOK`), and that an answer a request holds is within
  its time or new (`HeldOK`): only new ones are cached again.
- **`DohProofs`**: `DohSafety`. The invariant relates the IOState's flags to
  its response and to the context (`StateOK`), the place in the chain to the
  timer and the flags (`TurnOK`: once time is up there is an exception, which
  nothing takes back, and which keeps the log plugin from running), and the logs to both (`LogOK`).
  `AdvanceTo` is about `execute()`'s loop over either chain. `ServerSafety` carries
  this over to the platforms, whose steps are steps of `Doh` or leave the request alone; with
  `BootOK`, what the events published so far say of the services, it adds that no plugin runs
  before all of them are made. `ServerImplementsDoh` says of behaviours what this rests on: with the platform's
  variables hidden, each is one of `Doh`. `RepliedOnce`: what is sent and what is logged is never taken back, though
  the timer does not stop the plugins. `ReplyComesDue`: a request that was looked at has its response or a running timer,
  and no step takes the chain back.
- **`UsersProofs`**: `TypeCorrect`, `AuthorisedIfKeyed`, `BlockedIfChosen`, `TellsExactlyWhichLists`
  and `IntersectSound`, for any stamps, filters, keys, urls, word width and
  cache sizes. Two things carry the argument. A flag stands for a set of blocklists
  (`Lists`), and `intersect()`, which counts words down as it goes over the header's bits,
  finds for a bit the word of its rank among them; so what it returns stands for the intersection. And
  what is memoized or cached is what would be computed (`MemOK`, `CacheOK`), so that
  whom an entry was made for, and what was evicted, does not matter.
  `DecisionRight` puts the two blocks together: that the question's name is gone through by the first, and again with
  those of the answer by the second, makes no difference to the verdict.
- **`ServerProofs`** is about `Framing`, `DenoFraming`, `Certs` and `Lifecycle`.
  - `FramingSafety` (`TcpTypeOK`, `QueriesIntact`, `NothingLost`) holds for any queries and any segments, if
    `Overlap` is FALSE, which is needed (`framing_overlap`). Bytes are places in the stream, so what a
    buffer holds is a segment, `Seg(b, e)`, and the operations on buffers become lemmas about segments (`SegTake`,
    `SegDrop`, `SegConcat`). The inductive invariant `FramingInv` says for Node: for some n and p, the first
    n queries were cut out, the scratch buffer holds the stream from where query n + 1 begins up to p (`Scratch`,
    `Partial`), and either p is all that came in or one suspended call holds the rest, from p on
    (`OneHolds`); or a query was too long and the connection is closed (`Stuck`). For Deno, that reads are
    in one of two places of query n + 1 (`DenoOK`). `DenoFramingSafety` is the same of Deno
    for any `Overlap`, as its loop reads nothing before it has answered.
  - `ReceivedAreHandled` (also with `Overlap` FALSE): while a connection is good and no call of `handleTCPData()`
    holds bytes, every query that came in whole is being resolved, or has been.
  - `ScratchNeverOverflows` is for any `Overlap`: wherever overlapping chunks get mixed up, copies stay
    within the scratch buffer, and Node makes none for a query longer than `MaxSize`. Its invariant is about lengths
    only.
  - `LifecycleSafety` assumes `PortReuse = FALSE` for the
    reason given above. Its invariant says that each open connection is in the tracker under its
    address, that no two connections have one address (`TrackerOK`), and that before the
    servers are up there is nothing to stop (`StopOK`). `LifecycleTypes` and `RetriesSafety` need no such
    assumption; the latter adds that a fetch is under way for `MaxLatency` at most, and rests on `BackoffInTime`.

Every safety property and action property that a run checks is stated by a theorem. That the stream is the
concatenation of all queries, whatever their number, takes induction over data. The library's induction
theorems cannot be instantiated, as they take an operator; those about sets can: `SetInduction` in `ServerProofs` gets
induction from the well-foundedness of the naturals, with the set of numbers for which a statement holds in the operator's place.

Left to TLC: liveness (`EveryRequestReplied`, `EverySettled`, `AllAnswered`, `WaitersReturn`,
`EveryRequestAnswered`), as fairness and ENABLED are beyond the prover. What these rest on besides fairness is
proved: `RepliesComeDue`, `SettledOnce`, `ReceivedAreHandled`, `PollsEnd` and `ReplyComesDue` say that what is
waited for is under way, and that no step takes the waiting further from its end. The three runs that fail are
left to TLC, too, being about single behaviours.

## 6. What is not modelled

- Wording and sizes of packets, headers, ids and times to live as numbers: a
  packet is a kind, or a record of what decides on it. That
  coalesced requests get an answer with the leader's id is noted as a hazard, not modelled.
- Different questions in the caches: they do not meet, but for eviction, which may take
  any entry. The month in the shared cache's keys, and disabled caches.
- What commands compute, how logs are formatted and fetched (`log-pusher.js`,
  `lf-transformer.js`), geo-ip lookups, the encodings in `commons/`: sequential, and of no influence on
  what is checked here beyond succeeding or failing. How texts decode to flags is the constant
  `Decoded`; that an access key need only begin with the hash is equality in `Users`.
- Saving downloaded blocklists to disk: they are read by the next process only. (One
  that ends between writing the two configuration files may leave a new
  one beside an old one.)
- Session tickets, TLS-PSK, heartbeats and the proxy protocol.
- Settings (`env.js`, `envutil.js`), which are constants or choices of the modules they steer;
  profiling; a runtime that cancels serverless requests that wait for a boot that failed.
- Code generated, vendored or outside of `src/src/`: UI, build and deploy scripts.

Met while reading, and not made a run of, as each is about a single line or no document says otherwise:

- `BLOCK_SUBDOMAINS=false` has no effect (`get(...) || true`, `envutil.js:405`).
- `LfTransformer.flush()` emits the last, partial line without filtering it (`lf-transformer.js:54`).
- Deno's `handleTCPQuery()` leaves the connection open when it could not answer, or wrote only part of
  an answer (`server-deno.ts:213`); Node's closes it.
- `isAnswerBlockable()` looks at the first record only (`dnsutil.js:284`): a CNAME after an RRSIG or a DNAME is
  not followed.
- `makeId()` leaves out class, checking-disabled flag and EDNS options (`cache-util.js:120`).
- `domainNameToUint()` takes two parameters and is called with three arguments (`cc.js:150`, `cc.js:390`).
- "setup is called for every new request" (`core/workers/config.js:18`): `prep()` runs once
  in a process, and one that threw is never run again.
- `systemUp()` of Deno throws into `safeBox()`, which logs it at most (`system.js:262`): the
  process goes on and serves nothing.

## 7. Plan

Done, in this order: event bus, coalescing, transport, framing, blocklists,
pipeline, cache, lifecycle with certificates; then stamps and users, the platforms' boot, versions of the
filter, Deno's framing, and the proof that listeners run once; then proofs about framing, the
types of every module, and what liveness rests on. What is left, by what it would add:

1. Blocklists on disk: what a process that ends between two writes leaves to the next one.
2. Logs: line splitting over chunks (`lf-transformer.js`), and what log entries are kept for whom.
3. Certificates of two servers that share `secOpts`: a server whose fetch failed
   takes the other's renewed certificate for its own (see the hazards), and what
   ought to hold of it. Names of a renewed certificate, in `Users`.
4. Abstract specifications of the two caches (an entry is served while it is fresh) and of a connection (the
   client's queries in their order), implemented by `DnsCache` and `DenoFraming`.
