-------------------------------- MODULE Users --------------------------------
(***************************************************************************)
(* Requests and the users who make them: how a DoT connection becomes a    *)
(* url (src/server-node.js), how a url is authorised                       *)
(* (src/plugins/users/auth-token.js) and yields the user's blocklists      *)
(* (src/plugins/users/user-op.js, by way of Stamps), what those blocklists *)
(* do to a query (src/plugins/dns-op/blocker.js), and how a command that   *)
(* only keys give access to is answered (src/plugins/command-control).     *)
(*                                                                         *)
(* Requests run side by side and share two caches: tokens ("mem"), which   *)
(* are computed across an await, and decoded stamps.  An access key is the *)
(* text domain|hash that env.js asks for; a hash is what it is the hash of,*)
(* and no two hashes have the same beginning.                              *)
(*                                                                         *)
(* Of a query and its answer, the names that extractDomains() has of both  *)
(* are kept, the question's first (none, if there is not one question),    *)
(* with qtype, the type of the question, first, the type of the first      *)
(* record of the answer, and grounded, whether any record of it is the     *)
(* address 0.0.0.0 or ::.                                                  *)
(***************************************************************************)
EXTENDS Stamps

CONSTANTS
  Requests,
  Asks,          \* what may be asked, and what upstream answers: below
  AccessKeys,    \* the sets of access keys there may be, of [dom, of] each
  Filters,       \* the blocklist filters there may be
  Names, Wildcards, AnySni, \* of the certificate; is any name served?
  NotAlnum,      \* message keys that gen() rejects
  Commands, Delegated, \* isAnyCmd(); domains with an upstream of their own
  MemSize, CacheSize

ASSUME UsersAssumption ==
  /\ {"nosni", "tld"} \in SUBSET Text
  /\ Asks # {}
  /\ \A a \in Asks :
       /\ a.door \in {"doh", "dot", "command"}
       /\ a.host \in Seq(Text) /\ a.path \in Seq(Text)
       /\ a.names \in Seq(Seq(Text))
       /\ a.lid \in BOOLEAN /\ a.grounded \in BOOLEAN
       /\ IF a.door = "dot" THEN a.path = <<>> ELSE a.host # <<>>
  /\ \A f \in Filters : \A n \in DOMAIN f : WellFormed(f[n])
  /\ MemSize \in Nat \ {0} /\ CacheSize \in Nat \ {0}
  /\ AnySni \in BOOLEAN

VARIABLES
  keys,       \* ACCESS_KEYS
  filter,     \* name -> flag of the lists it is on
  mem,        \* memoized tokens: what they are computed from -> token
  cache,      \* userConfigCache: stamp -> flag
  req         \* the requests

vars == <<keys, filter, mem, cache, req>>

Fresh ==
  [st |-> "new", ask |-> CHOOSE a \in Asks : TRUE, host |-> <<>>, path |-> <<>>,
   todo |-> 0, auth |-> "none", stamp |-> NoStamp, flag |-> <<>>,
   doh |-> FALSE, verdict |-> Unblocked, reply |-> ""]

Init ==
  /\ keys \in AccessKeys /\ filter \in Filters
  /\ mem = [k \in {} |-> ""] /\ cache = [s \in {} |-> <<>>]
  /\ req = [r \in Requests |-> Fresh]

Set(r, e) == req' = [req EXCEPT ![r] = e]

\* LfuCache's put: one that is full loses an entry; which, is its affair.
Put(c, k, v, size) ==
  IF k \in DOMAIN c \/ Cardinality(DOMAIN c) < size
  THEN {[x \in DOMAIN c \cup {k} |-> IF x = k THEN v ELSE c[x]]}
  ELSE {[x \in (DOMAIN c \ {old}) \cup {k} |-> IF x = k THEN v ELSE c[x]] :
          old \in DOMAIN c}
-----------------------------------------------------------------------------
\* serveTLS(): the name is one of the certificate's, or one label under one of
\* its wildcards.
Served(sni) ==
  AnySni \/ sni \in Names \/ (sni # <<>> /\ Tail(sni) \in Wildcards)

\* getMetadata(): the first label is the flag if two more follow it.
GetMetadata(sni) ==
  IF sni = <<>> THEN [flag |-> <<>>, host |-> <<"nosni", "tld">>]
  ELSE IF Len(sni) > 2 THEN [flag |-> <<Head(sni)>>, host |-> Tail(sni)]
  ELSE [flag |-> <<>>, host |-> sni]

\* A request comes in, the next one as one is over; over DoT, its url is made
\* of the server name.  auth() begins: without access keys there is nothing to
\* check, without a message key nothing to check with.
Start(r, ask) ==
  LET dot == ask.door = "dot"
      meta == GetMetadata(ask.host)
      host == IF dot THEN meta.host ELSE ask.host
      path == IF dot THEN meta.flag ELSE ask.path
      e == [Fresh EXCEPT !.ask = ask, !.host = host, !.path = path]
  IN  /\ req[r].st \in {"new", "closed", "failed", "done"}
      /\ Set(r,
           IF dot /\ ~Served(ask.host) THEN [e EXCEPT !.st = "closed"]
           ELSE IF keys = {} THEN [e EXCEPT !.st = "load"]
           ELSE IF MsgkeyFromUrl(host, path) = ""
           THEN [e EXCEPT !.st = "failed", !.auth = "miss"]
           ELSE [e EXCEPT !.st = "auth", !.todo = 1])
      /\ UNCHANGED <<keys, filter, mem, cache>>

\* Slip: tokens are memoized by message key only.
KcatKeyOnly(m, d) == <<m, <<>>>>

\* What a token is computed from and memoized by: k1|k2.
Kcat(m, d) == <<m, d>>

\* genInternal()'s hexcat: the domain, and the hash.
Token(m, d) == [dom |-> d, of |-> <<m, d>>]

Msgkey(r) == MsgkeyFromUrl(req[r].host, req[r].path)
Domain(r) == Suffix(req[r].host, req[r].todo)

\* Slip: one domain more is tried than the host has.
MatchesPast(r, tok) ==
  IF tok \in keys THEN [req[r] EXCEPT !.st = "load", !.auth = "pass"]
  ELSE IF req[r].todo <= Len(req[r].host)
  THEN [req[r] EXCEPT !.st = "auth", !.todo = @ + 1]
  ELSE [req[r] EXCEPT !.st = "failed", !.auth = "fail"]

\* auth() with the token it has awaited: pass if that is an access key, else
\* try the domain one label up, until there is none.
Matched(r, tok) ==
  IF tok \in keys THEN [req[r] EXCEPT !.st = "load", !.auth = "pass"]
  ELSE IF req[r].todo < Len(req[r].host)
  THEN [req[r] EXCEPT !.st = "auth", !.todo = @ + 1]
  ELSE [req[r] EXCEPT !.st = "failed", !.auth = "fail"]

\* gen() throws, which UserOp's exec() makes an error of.
GenThrows(r) ==
  /\ req[r].st = "auth" /\ Msgkey(r) \in NotAlnum
  /\ Set(r, [req[r] EXCEPT !.st = "failed", !.auth = "err"])
  /\ UNCHANGED <<keys, filter, mem, cache>>

\* A token that is memoized, or one that has to be computed.
Gen(r) ==
  LET k == Kcat(Msgkey(r), Domain(r))
  IN  /\ req[r].st = "auth" /\ Msgkey(r) \notin NotAlnum
      /\ IF k \in DOMAIN mem THEN Set(r, Matched(r, mem[k]))
         ELSE Set(r, [req[r] EXCEPT !.st = "proof"])
      /\ UNCHANGED <<keys, filter, mem, cache>>

\* The hash is there: it is memoized, whoever did so meanwhile.
Proof(r) ==
  LET k == Kcat(Msgkey(r), Domain(r))
      tok == Token(Msgkey(r), Domain(r))
  IN  /\ req[r].st = "proof"
      /\ mem' \in Put(mem, k, tok, MemSize)
      /\ Set(r, Matched(r, tok))
      /\ UNCHANGED <<keys, filter, cache>>
-----------------------------------------------------------------------------
\* Slip: decoded stamps are cached by their text, whatever it is written in.
CacheKeyText(stamp) == <<"", "", stamp[3]>>

\* userConfigCache is by the stamp as it was sent: the same flag in base32 and
\* in base64 has an entry each.
CacheKey(stamp) == stamp

\* loadUser(), for a DNS message: the user's flag, from the cache or decoded.
LoadUser(r) ==
  LET stamp == BlockstampFromUrl(req[r].host, req[r].path)
      k == CacheKey(stamp)
      hit == k \in DOMAIN cache
      flag == IF hit THEN cache[k]
              ELSE IF stamp = NoStamp THEN <<>> ELSE Unstamp(stamp)
  IN  /\ req[r].st = "load" /\ req[r].ask.door # "command"
      /\ cache' \in IF ~hit /\ flag # <<>> THEN Put(cache, k, flag, CacheSize)
                    ELSE {cache}
      /\ Set(r, [req[r] EXCEPT !.st = "block", !.flag = flag,
                   !.stamp = IF flag = <<>> THEN NoStamp ELSE stamp,
                   !.doh = /\ req[r].ask.names # <<>>
                           /\ req[r].ask.names[1] \in Delegated])
      /\ UNCHANGED <<keys, filter, mem>>

IpTypes == {"A", "AAAA", "CNAME", "HTTPS", "SVCB"}
AliasTypes == {"CNAME", "HTTPS", "SVCB"}

IsQueryBlockable(ask) == ask.names # <<>> /\ ask.qtype \in IpTypes
IsAnswerBlockable(ask) == ask.first \in AliasTypes
IsAnswerQuad0(ask) == IsQueryBlockable(ask) /\ ask.grounded

\* blockQuestion(): by the name that is asked for, for a user with a flag.
BlockQuestion(f, ask, flag) ==
  IF flag = <<>> \/ ~IsQueryBlockable(ask) THEN Unblocked
  ELSE LET name == <<ask.names[1]>> IN Block(name, flag, StampsOf(f, name))

\* blockAnswer(): by all the names, those met in the answer included.
BlockAnswer(f, ask, flag) ==
  IF flag = <<>> \/ ~IsAnswerBlockable(ask) \/ IsAnswerQuad0(ask) THEN Unblocked
  ELSE Block(ask.names, flag, StampsOf(f, ask.names))

\* resolveDns(): a question that is blocked, or fails, is not asked upstream.  The
\* stamps are the filter's here; those of cached answers are a matter of DnsCache.
Decision(f, ask, flag) ==
  LET q == BlockQuestion(f, ask, flag)
  IN  IF q.thrown \/ q.isBlocked THEN q ELSE BlockAnswer(f, ask, flag)

Decide(r) ==
  LET v == Decision(filter, req[r].ask, req[r].flag)
  IN  /\ req[r].st = "block"
      /\ Set(r, [req[r] EXCEPT !.verdict = v,
                               !.st = IF v.thrown THEN "failed" ELSE "done"])
      /\ UNCHANGED <<keys, filter, mem, cache>>

\* commandOperation()'s command: the first in the path that is known, or else
\* whatever comes first.
CommandOf(path) ==
  LET known == {i \in DOMAIN path : path[i] \in Commands}
  IN  IF known # {} THEN path[Least(known)]
      ELSE IF path = <<>> THEN "" ELSE path[1]

\* Outcome.no: logs are for those who passed, not where there are no keys.
Authorised(auth) == auth = "pass"

\* logs() and analytics() refuse who has no log id or did not pass; all else is
\* answered to anyone.  The filter may be unavailable, or the command fail.
Command(r) ==
  LET c == CommandOf(req[r].path)
      ok == IF c \in {"logs", "analytics"}
            THEN IF ~req[r].ask.lid \/ ~Authorised(req[r].auth) THEN "401" ELSE c
            ELSE "other"
  IN  /\ req[r].st = "load" /\ req[r].ask.door = "command"
      /\ \E reply \in {ok, "error"} :
           Set(r, [req[r] EXCEPT !.st = "done", !.reply = reply])
      /\ UNCHANGED <<keys, filter, mem, cache>>

Next ==
  \E r \in Requests :
    \/ \E ask \in Asks : Start(r, ask)
    \/ GenThrows(r) \/ Gen(r) \/ Proof(r)
    \/ LoadUser(r) \/ Decide(r) \/ Command(r)

Spec == Init /\ [][Next]_vars
-----------------------------------------------------------------------------
RequestRecords ==
  [st : {"new", "closed", "auth", "proof", "load", "block", "failed", "done"},
   ask : Asks, host : Seq(Text), path : Seq(Text), todo : Nat,
   auth : {"none", "miss", "err", "fail", "pass"},
   stamp : Text \X Text \X Text, flag : Flags \cup {<<>>}, doh : BOOLEAN,
   verdict : [isBlocked : BOOLEAN, thrown : BOOLEAN, flag : Flags \cup {<<>>}],
   reply : {"", "401", "logs", "analytics", "other", "error"}]

TypeOK ==
  /\ keys \in AccessKeys /\ filter \in Filters
  /\ IsFiniteSet(DOMAIN mem) /\ Cardinality(DOMAIN mem) <= MemSize
  /\ IsFiniteSet(DOMAIN cache) /\ Cardinality(DOMAIN cache) <= CacheSize
  /\ req \in [Requests -> RequestRecords]
  /\ \A r \in Requests : req[r].todo <= Len(req[r].host)

\* A token of the message key and a domain of the host is one of the keys.
HoldsKey(r) ==
  /\ Msgkey(r) # ""
  /\ \E i \in DOMAIN req[r].host : Token(Msgkey(r), Suffix(req[r].host, i)) \in keys

\* Whatever the memo holds, loses, or has computed for two requests at once: who
\* is let past authorisation holds a key, if keys are needed; who is refused
\* ("miss", "fail") holds none; and logs are for those who hold a key and have a
\* log id, never for all because no keys are set.
AuthorisedByKey ==
  \A r \in Requests :
    /\ req[r].st \in {"load", "block", "done"} => keys = {} \/ HoldsKey(r)
    /\ req[r].auth \in {"miss", "fail"} => ~HoldsKey(r)
    /\ req[r].reply \in {"logs", "analytics"} => HoldsKey(r) /\ req[r].ask.lid

\* What the client chose, as it sent it (over DoT, in the server name): the
\* first stamp in the path, or else in the host; or else what the url recommends.
Chosen(r) ==
  LET sent == req[r].ask.path \o req[r].ask.host
      stamp == Stamp[FirstStamp(sent)]
  IN  IF StampsAt(sent) = {}
      THEN Unstamp(BlockstampFromUrl(req[r].host, req[r].path))
      ELSE IF Len(stamp.fields) > 1 /\ stamp.fields[1] = "1"
              /\ stamp.fields[2] \in DOMAIN Decoded[stamp.delim]
      THEN Decoded[stamp.delim][stamp.fields[2]] ELSE <<>>

\* The lists of the user that have domain k of the i-th name.
ListsOn(r, i, k) ==
  LET d == Suffix(req[r].ask.names[i], k)
  IN  IF d \in DOMAIN filter THEN Lists(Chosen(r)) \cap Lists(filter[d]) ELSE {}

Decided(r) ==
  /\ req[r].ask.door # "command"
  /\ req[r].st = "done" \/ req[r].verdict.thrown
  /\ Chosen(r) = <<>> \/ WellFormed(Chosen(r))

\* The names that a query may be blocked for: its own, if what it asks for may
\* be an IP address ("we only block these. For now."), and those of an answer
\* too, if that begins with an alias and has not been blocked upstream.
Answerable(r) ==
  LET ask == req[r].ask
  IN  {i \in DOMAIN ask.names :
         \/ i = 1 /\ ask.qtype \in IpTypes
         \/ ask.first \in AliasTypes /\ ~(ask.grounded /\ ask.qtype \in IpTypes)}

\* A query is blocked exactly if a list that its own user chose has one of these
\* names in it or a domain of one, whoever's flag is cached under whatever stamp,
\* in base32 or base64, and no well-formed flag makes a query fail.
BlockedByChoice ==
  \A r \in Requests : Decided(r) =>
    /\ ~req[r].verdict.thrown
    /\ req[r].verdict.isBlocked <=>
         \E i \in Answerable(r) :
           \E k \in DOMAIN req[r].ask.names[i] : ListsOn(r, i, k) # {}

\* The flag that comes with a blocked query is well-formed and names exactly the
\* user's lists that have one domain of one of these names: no list is left out,
\* added or taken for another as words and header bits are put together.
TellsWhichLists ==
  \A r \in Requests : Decided(r) /\ req[r].verdict.isBlocked =>
    /\ WellFormed(req[r].verdict.flag)
    /\ \E i \in Answerable(r) :
         \E k \in DOMAIN req[r].ask.names[i] :
           Lists(req[r].verdict.flag) = ListsOn(r, i, k)
=============================================================================
