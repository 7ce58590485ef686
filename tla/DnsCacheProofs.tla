--------------------------- MODULE DnsCacheProofs ---------------------------
(***************************************************************************)
(* For any requests and any times to live: what the caches answer with is  *)
(* never older than they may keep it, and users' verdicts are their own.   *)
(***************************************************************************)
EXTENDS DnsCache, TLAPS

\* An entry expires when its packet says, counted from when it was born.
EntryOK(e) ==
  /\ e \in Entries
  /\ e.born <= now
  /\ e.expiry = IF IsAnswer(e.packet) THEN e.born + Ttl + CacheTtl ELSE 0

\* An answer a request has got is no older than the caches allow, and new if
\* it is upstream's.
HeldOK(h) ==
  /\ h \in Held
  /\ h.age <= Ttl + CacheTtl
  /\ h.cached => IsAnswer(h.packet)
  /\ ~h.cached => h.age = 0

\* The inductive invariant.
Inv ==
  /\ TypeOK
  /\ local # None => EntryOK(local)
  /\ \A r \in Requests : held[r] # None => HeldOK(held[r])
  /\ \A r \in Requests : pc[r] = "max" => bgBwInit
  /\ NoImmortalAnswers
  /\ VerdictsAreOwn

\* Entries that come from httpcache are in order, too.
LEMMA HttpEntriesOK ==
  ASSUME now \in Nat, NEW e \in HttpEntries
  PROVE  EntryOK(e)
<1>1. PICK p \in Packets, t \in 0 .. now : e = Entry(p, t, t)
  BY DEF HttpEntries
<1> QED
  BY <1>1, CacheAssumption
  DEF Entry, EntryOK, Entries, DetermineCacheExpiry, IsAnswer, Packets, Answers

\* What is fresh enough to be served is an answer, and not too old.
LEMMA FreshIsYoung ==
  ASSUME now \in Nat, NEW e, EntryOK(e), NEW strict \in BOOLEAN, IsAnswerFresh(e, strict)
  PROVE  IsAnswer(e.packet) /\ Age(e) \in Nat /\ Age(e) <= Ttl + CacheTtl
BY CacheAssumption DEF EntryOK, Entries, IsAnswerFresh, FreshFor, Age

\* An entry resolveDns() makes of the answer it holds.
LEMMA PutOK ==
  ASSUME now \in Nat, NEW p \in Packets, NEW born \in Nat, born <= now,
         IsAnswer(p) => born = now,
         local \in Entries \cup {None}, local # None => EntryOK(local),
         Put(Entry(p, born, now))
  PROVE  /\ local' \in Entries \cup {None}
         /\ local' # None => local' = local \/ local' = Entry(p, born, now)
         /\ EntryOK(Entry(p, born, now))
<1>1. EntryOK(Entry(p, born, now))
  BY CacheAssumption
  DEF Entry, EntryOK, Entries, DetermineCacheExpiry, IsAnswer, Packets, Answers
<1> QED
  BY <1>1 DEF Put, EntryOK

\* Time passes, and entries stay in order.
LEMMA Later ==
  ASSUME now \in Nat, now' \in Nat, now <= now', NEW e, EntryOK(e)
  PROVE  EntryOK(e)'
BY DEF EntryOK, Entries, IsAnswer

\* The initial states satisfy the invariant.
LEMMA InitInv == Init => Inv
BY CacheAssumption, RepliesAssumption
DEF Init, Inv, TypeOK, NoImmortalAnswers, VerdictsAreOwn, Listed

\* A request that is replied to keeps the invariant if its reply is in order.
LEMMA ReturnOK ==
  ASSUME Inv, NEW r \in Requests, NEW v, Returns(r, v), UNCHANGED given,
         v \in Replies \cup {Blocked, Failed},
         v \in Replies => /\ v.age <= Ttl + CacheTtl
                          /\ IsAnswer(v.packet)
                          /\ v.packet = "cloaked" => lists[r] = "none" \/ bgBwInit,
         v = Blocked => lists[r] # "none"
  PROVE  /\ result' \in [Requests -> Replies \cup {None, Blocked, Failed}]
         /\ NoImmortalAnswers' /\ VerdictsAreOwn'
<1>1. /\ result' \in [Requests -> Replies \cup {None, Blocked, Failed}]
      /\ \A s \in Requests : result'[s] = IF s = r THEN v ELSE result[s]
  BY DEF Inv, TypeOK, Returns
<1>2. NoImmortalAnswers'
  BY <1>1 DEF Inv, NoImmortalAnswers
<1>3. VerdictsAreOwn'
  BY <1>1 DEF Inv, VerdictsAreOwn, given, IsAnswer
<1> QED
  BY <1>1, <1>2, <1>3

\* What resolveFromCache() does with an entry that is in order.
LEMMA ConsultOK ==
  ASSUME Inv, NEW r \in Requests, NEW e, e # None => EntryOK(e), Consult(r, e),
         UNCHANGED <<given, now>>
  PROVE  /\ pc' = [pc EXCEPT ![r] = "done"] \/ pc' = [pc EXCEPT ![r] = "resolve"]
         /\ result' \in [Requests -> Replies \cup {None, Blocked, Failed}]
         /\ NoImmortalAnswers' /\ VerdictsAreOwn'
<1>1. CASE e # None /\ OnList(r, e.packet) /\ Returns(r, Blocked) /\ Goes(r, "done")
  <2>1. lists[r] # "none"
    BY <1>1 DEF OnList
  <2> QED
    BY <1>1, <2>1, ReturnOK, RepliesAssumption DEF Goes, given
<1>2. CASE /\ e # None /\ ~OnList(r, e.packet) /\ IsAnswerFresh(e, FALSE)
           /\ Returns(r, Reply(e.packet, Age(e))) /\ Goes(r, "done")
  <2>a. now \in Nat
    BY CacheAssumption DEF Inv, TypeOK
  <2>b. EntryOK(e) /\ IsAnswerFresh(e, FALSE)
    BY <1>2
  <2>1. IsAnswer(e.packet) /\ Age(e) \in Nat /\ Age(e) <= Ttl + CacheTtl
    BY <2>a, <2>b, FreshIsYoung
  <2> DEFINE v == Reply(e.packet, Age(e))
  <2>2. v \in Replies /\ v.age = Age(e) /\ v.packet = e.packet
    BY <1>2, <2>1 DEF Reply, Replies, EntryOK, Entries
  <2>3. e.packet = "cloaked" => lists[r] = "none"
    BY <1>2 DEF OnList, Inv, TypeOK, Listed
  <2>4. v # Blocked
    BY <2>2, RepliesAssumption
  <2> HIDE DEF v
  <2>5. Returns(r, v)
    BY <1>2 DEF v
  <2>6. v.age <= Ttl + CacheTtl
    BY <2>1, <2>2
  <2>7. IsAnswer(v.packet) /\ (v.packet = "cloaked" => lists[r] = "none" \/ bgBwInit)
    BY <2>1, <2>2, <2>3
  <2>8. UNCHANGED given
    OBVIOUS
  <2> QED
    BY <1>2, <2>2, <2>4, <2>5, <2>6, <2>7, <2>8, ReturnOK DEF Goes
<1>3. CASE /\ e # None => ~OnList(r, e.packet) /\ MayBeStale(e)
           /\ Goes(r, "resolve") /\ UNCHANGED result
  BY <1>3 DEF Goes, Inv, TypeOK, NoImmortalAnswers, VerdictsAreOwn, given, IsAnswer
<1> QED
  BY <1>1, <1>2, <1>3 DEF Consult

\* httpcache.get()'s continuation writes an entry that is in order, or nothing.
LEMMA WriteThroughOK ==
  ASSUME Inv, NEW r \in Requests, NEW e \in HttpEntries \cup {None}, WriteThrough(r, e)
  PROVE  /\ e # None => EntryOK(e)
         /\ local' \in Entries \cup {None}
         /\ (local # None => EntryOK(local))'
         /\ getting' \subseteq Requests
<1>1. e # None => EntryOK(e)
  BY HttpEntriesOK DEF Inv, TypeOK
<1>2. \A x : EntryOK(x) => EntryOK(x)'
  BY DEF EntryOK, WriteThrough, IsAnswer
<1> QED
  BY <1>1, <1>2 DEF WriteThrough, Inv, TypeOK, EntryOK

\* Every step preserves the invariant.
LEMMA NextInv == Inv /\ [Next]_vars => Inv'
<1> SUFFICES ASSUME Inv, [Next]_vars PROVE Inv'
  OBVIOUS
<1> USE DEF Goes
<1>0. now \in Nat
  BY DEF Inv, TypeOK
<1>1. CASE Evict
  BY <1>1 DEF Evict, given, Inv, TypeOK, HeldOK, IsAnswer, NoImmortalAnswers, VerdictsAreOwn
<1>2. CASE FilterSetup
  BY <1>2 DEF FilterSetup, given, Inv, TypeOK, EntryOK, HeldOK, IsAnswer,
              NoImmortalAnswers, VerdictsAreOwn
<1>3. CASE Tick
  <2>1. now' \in 0 .. MaxTime /\ now <= now' /\ now' \in Nat
    BY <1>3, CacheAssumption DEF Tick, Inv, TypeOK
  <2>2. (local # None => EntryOK(local))'
    BY <1>0, <1>3, <2>1 DEF Tick, Inv, EntryOK, Entries, IsAnswer
  <2> QED
    BY <1>3, <2>1, <2>2
    DEF Tick, given, Inv, TypeOK, HeldOK, IsAnswer, NoImmortalAnswers, VerdictsAreOwn
<1>4. ASSUME NEW r \in Requests, LookUp(r) PROVE Inv'
  <2>1. UNCHANGED <<given, now, blf, local, held>>
    BY <1>4 DEF LookUp
  <2>2. CASE (local # None \/ blf) /\ Consult(r, local) /\ UNCHANGED getting
    BY <2>1, <2>2, ConsultOK
    DEF given, Inv, TypeOK, EntryOK, HeldOK, IsAnswer
  <2>3. CASE /\ Goes(r, "lookup") /\ getting' = getting \cup {r}
             /\ UNCHANGED result
    BY <2>1, <2>3
    DEF given, Inv, TypeOK, EntryOK, HeldOK, IsAnswer, NoImmortalAnswers, VerdictsAreOwn
  <2> QED
    BY <1>4, <2>2, <2>3 DEF LookUp
<1>5. ASSUME NEW r \in Requests, BlockQuestion(r) PROVE Inv'
  <2>1. /\ local' \in Entries \cup {None}
        /\ local' # None => local' = local \/ local' = Entry("question", now, now)
        /\ EntryOK(Entry("question", now, now))
    BY <1>0, <1>5, PutOK DEF BlockQuestion, Inv, TypeOK, Packets, IsAnswer, Answers
  <2>2. /\ result' \in [Requests -> Replies \cup {None, Blocked, Failed}]
        /\ NoImmortalAnswers' /\ VerdictsAreOwn'
    BY <1>5, ReturnOK, RepliesAssumption DEF BlockQuestion
  <2>3. (local # None => EntryOK(local))'
    BY <1>5, <2>1 DEF BlockQuestion, Inv, EntryOK, IsAnswer
  <2> QED
    BY <1>5, <2>1, <2>2, <2>3 DEF BlockQuestion, given, Inv, TypeOK, HeldOK, IsAnswer
<1>6. ASSUME NEW r \in Requests, Resolve(r) PROVE Inv'
  <2>1. UNCHANGED <<given, now, blf, local, result>>
    BY <1>6 DEF Resolve
  <2>2. /\ pc' \in [Requests -> {"new", "lookup", "resolve", "asked", "max", "done"}]
        /\ \A s \in Requests : pc'[s] = "max" => bgBwInit'
    BY <1>6 DEF Resolve, given, Inv, TypeOK
  <2>3. /\ held' \in [Requests -> Held \cup {None}]
        /\ \A s \in Requests : held'[s] # None => HeldOK(held'[s])
    <3>1. CASE UNCHANGED held
      BY <3>1 DEF Inv, TypeOK
    <3>2. CASE local # None /\ Usable(local) /\ Holds(r, local.packet, Age(local), TRUE)
      <4>1. IsAnswer(local.packet) /\ Age(local) \in Nat /\ Age(local) <= Ttl + CacheTtl
        BY <1>0, <3>2, FreshIsYoung DEF Usable, Inv
      <4>2. HeldOK([packet |-> local.packet, age |-> Age(local), cached |-> TRUE])
        BY <3>2, <4>1 DEF HeldOK, Held, Inv, EntryOK, Entries
      <4> QED
        BY <3>2, <4>2 DEF Holds, Inv, TypeOK, HeldOK
    <3> QED
      BY <1>6, <3>1, <3>2 DEF Resolve
  <2>4. getting' \subseteq Requests
    BY <1>6 DEF Resolve, Inv, TypeOK
  <2> QED
    BY <2>1, <2>2, <2>3, <2>4
    DEF given, Inv, TypeOK, EntryOK, HeldOK, IsAnswer, NoImmortalAnswers, VerdictsAreOwn
<1>7. ASSUME NEW r \in Requests, Resolved(r) PROVE Inv'
  <2> DEFINE h == held[r]
             v == Verdict(r, h.packet, h.age)
  <2>1. h # None /\ HeldOK(h) /\ (blf \/ bgBwInit)
    BY <1>7 DEF Resolved, Inv
  <2>2. h \in Held /\ h.packet \in Packets /\ h.age \in Nat
    BY <2>1 DEF HeldOK, Held
  <2>3. /\ v \in Replies \cup {Blocked, Failed}
        /\ v \in Replies => /\ v.age <= Ttl + CacheTtl
                            /\ IsAnswer(v.packet)
                            /\ v.packet = "cloaked" => lists[r] = "none" \/ bgBwInit
        /\ v = Blocked => lists[r] # "none"
    BY <2>1, <2>2, RepliesAssumption, CacheAssumption
    DEF Verdict, Reply, Replies, HeldOK
  <2>4. /\ result' \in [Requests -> Replies \cup {None, Blocked, Failed}]
        /\ NoImmortalAnswers' /\ VerdictsAreOwn'
    <3> HIDE DEF v
    <3>1. Returns(r, v) /\ UNCHANGED given
      BY <1>7 DEF Resolved, v
    <3> QED
      BY <2>3, <3>1, ReturnOK
  <2>5. /\ local' \in Entries \cup {None}
        /\ (local # None => EntryOK(local))'
    <3>0. now' = now
      BY <1>7 DEF Resolved
    <3>1. CASE UNCHANGED local
      BY <3>0, <3>1 DEF Inv, TypeOK, EntryOK, IsAnswer
    <3>2. CASE Primes(r) /\ Put(Entry(h.packet, now - h.age, now))
      <4>1. h.age = 0 /\ now - h.age = now
        BY <1>0, <2>1, <3>2 DEF Primes, HeldOK
      <4>2. Put(Entry(h.packet, now, now))
        BY <3>2, <4>1
      <4>3. /\ local' \in Entries \cup {None}
            /\ local' # None => local' = local \/ local' = Entry(h.packet, now, now)
            /\ EntryOK(Entry(h.packet, now, now))
        BY <1>0, <2>2, <4>2, PutOK DEF Inv, TypeOK
      <4> QED
        BY <3>0, <4>3 DEF Inv, EntryOK, IsAnswer
    <3> QED
      BY <1>7, <3>1, <3>2 DEF Resolved
  <2>6. /\ pc' = [pc EXCEPT ![r] = "done"] /\ held' = [held EXCEPT ![r] = None]
        /\ UNCHANGED <<given, now, blf, getting>>
    BY <1>7 DEF Resolved
  <2> QED
    BY <2>4, <2>5, <2>6 DEF given, Inv, TypeOK, HeldOK, IsAnswer
<1>8. ASSUME NEW r \in Requests, ResolveFails(r) PROVE Inv'
  <2>1. /\ result' \in [Requests -> Replies \cup {None, Blocked, Failed}]
        /\ NoImmortalAnswers' /\ VerdictsAreOwn'
    BY <1>8, ReturnOK, RepliesAssumption, CacheAssumption DEF ResolveFails
  <2> QED
    BY <1>8, <2>1 DEF ResolveFails, given, Inv, TypeOK, EntryOK, HeldOK, IsAnswer
<1>9. ASSUME NEW r \in Requests, NEW e \in HttpEntries \cup {None}, LookedUp(r, e)
      PROVE Inv'
  <2>1. WriteThrough(r, e) /\ Consult(r, e) /\ UNCHANGED <<given, now, blf, held>>
    BY <1>9 DEF LookedUp, WriteThrough
  <2>2. /\ e # None => EntryOK(e)
        /\ local' \in Entries \cup {None}
        /\ (local # None => EntryOK(local))'
        /\ getting' \subseteq Requests
    BY <2>1, WriteThroughOK
  <2>3. /\ pc' = [pc EXCEPT ![r] = "done"] \/ pc' = [pc EXCEPT ![r] = "resolve"]
        /\ result' \in [Requests -> Replies \cup {None, Blocked, Failed}]
        /\ NoImmortalAnswers' /\ VerdictsAreOwn'
    BY <2>1, <2>2, ConsultOK
  <2> QED
    BY <2>1, <2>2, <2>3 DEF given, Inv, TypeOK, HeldOK, IsAnswer
<1>10. ASSUME NEW r \in Requests, NEW e \in HttpEntries \cup {None}, CacheAnswers(r, e)
       PROVE Inv'
  <2>1. WriteThrough(r, e) /\ UNCHANGED <<given, now, blf, pc, result>>
    BY <1>10 DEF CacheAnswers, WriteThrough
  <2>2. /\ e # None => EntryOK(e)
        /\ local' \in Entries \cup {None}
        /\ (local # None => EntryOK(local))'
        /\ getting' \subseteq Requests
    BY <2>1, WriteThroughOK
  <2>3. IsAnswer(e.packet) /\ Age(e) \in Nat /\ Age(e) <= Ttl + CacheTtl
    BY <1>0, <1>10, <2>2, FreshIsYoung DEF CacheAnswers, Usable
  <2>4. HeldOK([packet |-> e.packet, age |-> Age(e), cached |-> TRUE])
    BY <1>10, <2>2, <2>3 DEF CacheAnswers, Usable, HeldOK, Held, EntryOK, Entries
  <2>5. held' = [held EXCEPT ![r] = [packet |-> e.packet, age |-> Age(e), cached |-> TRUE]]
    BY <1>10 DEF CacheAnswers, Holds
  <2> QED
    BY <2>1, <2>2, <2>4, <2>5
    DEF given, Inv, TypeOK, HeldOK, IsAnswer, NoImmortalAnswers, VerdictsAreOwn
<1>11. ASSUME NEW r \in Requests, NEW e \in HttpEntries \cup {None}, CacheMisses(r, e)
       PROVE Inv'
  <2>1. WriteThrough(r, e) /\ UNCHANGED <<given, now, blf, pc, held, result>>
    BY <1>11 DEF CacheMisses, WriteThrough
  <2> QED
    BY <2>1, WriteThroughOK
    DEF given, Inv, TypeOK, HeldOK, IsAnswer, NoImmortalAnswers, VerdictsAreOwn
<1>12. ASSUME NEW r \in Requests, NEW p \in Packets, UpstreamAnswers(r, p) PROVE Inv'
  <2>1. HeldOK([packet |-> p, age |-> 0, cached |-> FALSE])
    BY CacheAssumption DEF HeldOK, Held
  <2> QED
    BY <1>12, <2>1
    DEF UpstreamAnswers, Holds, given, Inv, TypeOK, EntryOK, HeldOK, IsAnswer,
        NoImmortalAnswers, VerdictsAreOwn
<1>13. CASE UNCHANGED vars
  BY <1>13 DEF vars, Inv, TypeOK, EntryOK, HeldOK, IsAnswer, NoImmortalAnswers, VerdictsAreOwn
<1> QED
  BY <1>1, <1>2, <1>3, <1>4, <1>5, <1>6, <1>7, <1>8, <1>9, <1>10, <1>11, <1>12, <1>13
  DEF Next

\* For any requests, times to live and bound of the clock: no answer outlives
\* its time in the caches, and users' verdicts are their own.
THEOREM CacheSafety == Spec => [](TypeOK /\ NoImmortalAnswers /\ VerdictsAreOwn)
<1>1. Inv => TypeOK /\ NoImmortalAnswers /\ VerdictsAreOwn
  BY DEF Inv
<1> QED
  BY InitInv, NextInv, <1>1, PTL DEF Spec
=============================================================================
