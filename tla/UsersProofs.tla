----------------------------- MODULE UsersProofs -----------------------------
(***************************************************************************)
(* For any stamps, filters, access keys and requests: flags are            *)
(* intersected as the sets of blocklists they stand for, what is blocked   *)
(* is what the user chose, and who gets past authorisation holds a key.    *)
(***************************************************************************)
EXTENDS Users, FiniteSetTheorems, SequenceTheorems, TLAPS

Below(S, p) == {q \in S : q < p}
Rank(S, p) == Cardinality(Below(S, p))

\* As many elements are below one of a set as it has others, at most.
LEMMA RankType ==
  ASSUME NEW S \in SUBSET Nat, IsFiniteSet(S), NEW p \in S
  PROVE  /\ IsFiniteSet(Below(S, p))
         /\ Rank(S, p) \in Nat /\ Rank(S, p) < Cardinality(S)
<1>1. Below(S, p) \in SUBSET (S \ {p})
  BY DEF Below
<1>2. /\ IsFiniteSet(S \ {p}) /\ Cardinality(S \ {p}) = Cardinality(S) - 1
      /\ Cardinality(S) \in Nat
  BY FS_RemoveElement, FS_CardinalityType
<1>3. /\ IsFiniteSet(Below(S, p))
      /\ Cardinality(Below(S, p)) <= Cardinality(S \ {p})
  BY <1>1, <1>2, FS_Subset
<1>4. Cardinality(Below(S, p)) \in Nat
  BY <1>3, FS_CardinalityType
<1> QED
  BY <1>2, <1>3, <1>4 DEF Rank

\* A greater element has more below it.
LEMMA RankIncreases ==
  ASSUME NEW S \in SUBSET Nat, IsFiniteSet(S), NEW p \in S, NEW q \in S, p < q
  PROVE  Rank(S, p) < Rank(S, q)
<1>1. Below(S, p) \in SUBSET Below(S, q) /\ p \in Below(S, q) /\ p \notin Below(S, p)
  <2>1. \A x \in S : x \in Nat
    OBVIOUS
  <2>2. \A x \in S : x < p => x < q
    <3> SUFFICES ASSUME NEW x \in S, x < p PROVE x < q
      OBVIOUS
    <3>1. x \in Nat /\ p \in Nat /\ q \in Nat
      BY <2>1
    <3> QED
      BY <3>1
  <2>3. ~(p < p)
    BY <2>1
  <2> QED
    BY <2>2, <2>3, Zenon DEF Below
<1>2. IsFiniteSet(Below(S, q)) /\ Rank(S, p) \in Nat /\ Rank(S, q) \in Nat
  BY RankType
<1>3. /\ Cardinality(Below(S, p)) <= Cardinality(Below(S, q))
      /\ Cardinality(Below(S, q)) = Cardinality(Below(S, p))
           => Below(S, q) = Below(S, p)
  BY <1>1, <1>2, FS_Subset
<1> QED
  BY <1>1, <1>2, <1>3 DEF Rank

\* No two elements have as many below them.
LEMMA RankInjective ==
  ASSUME NEW S \in SUBSET Nat, IsFiniteSet(S), NEW p \in S, NEW q \in S,
         Rank(S, p) = Rank(S, q)
  PROVE  p = q
<1>1. Rank(S, p) \in Nat
  BY RankType
<1>2. CASE p < q
  BY <1>1, <1>2, RankIncreases
<1>3. CASE q < p
  BY <1>1, <1>3, RankIncreases
<1> QED
  BY <1>2, <1>3

\* The numbers below n are n.
LEMMA SizeOfRange ==
  ASSUME NEW n \in Nat
  PROVE  IsFiniteSet(0 .. n - 1) /\ Cardinality(0 .. n - 1) = n
<1>1. n - 1 \in Int /\ 0 \in Int
  OBVIOUS
<1>2. /\ IsFiniteSet(0 .. n - 1)
      /\ Cardinality(0 .. n - 1) = IF 0 > n - 1 THEN 0 ELSE (n - 1) - 0 + 1
  BY <1>1, FS_Interval
<1> QED
  BY <1>2

\* Every number of elements below one, up to all others, is that of some.
LEMMA RankOnto ==
  ASSUME NEW S \in SUBSET Nat, IsFiniteSet(S), NEW n \in Nat, n < Cardinality(S)
  PROVE  \E p \in S : Rank(S, p) = n
<1> SUFFICES ASSUME \A p \in S : Rank(S, p) # n PROVE FALSE
  OBVIOUS
<1> DEFINE T == (0 .. Cardinality(S) - 1) \ {n}
           f == [p \in S |-> Rank(S, p)]
<1>1. Cardinality(S) \in Nat
  BY FS_CardinalityType
<1>2. /\ IsFiniteSet(0 .. Cardinality(S) - 1)
      /\ Cardinality(0 .. Cardinality(S) - 1) = Cardinality(S)
  BY <1>1, SizeOfRange
<1>3. IsFiniteSet(T) /\ Cardinality(T) = Cardinality(S) - 1
  <2>1. n \in 0 .. Cardinality(S) - 1
    BY <1>1
  <2> QED
    BY <1>2, <2>1, FS_RemoveElement
<1>4. f \in [S -> T]
  <2>1. \A p \in S : Rank(S, p) \in T
    BY <1>1, RankType
  <2> HIDE DEF T
  <2> QED
    BY <2>1
<1>5. \E p, q \in S : p # q /\ f[p] = f[q]
  <2>1. Cardinality(T) < Cardinality(S)
    BY <1>1, <1>3
  <2> HIDE DEF T, f
  <2> QED
    BY <2>1, <1>3, <1>4, FS_PigeonHole
<1> QED
  BY <1>5, RankInjective

\* A set of numbers has a least one.
LEMMA LeastIs ==
  ASSUME NEW S \in SUBSET Nat, IsFiniteSet(S), S # {}
  PROVE  Least(S) \in S /\ \A m \in S : Least(S) <= m
<1>1. 0 < Cardinality(S)
  BY FS_EmptySet, FS_CardinalityType
<1>2. PICK p \in S : Rank(S, p) = 0
  BY <1>1, RankOnto
<1>3. Below(S, p) = {}
  BY <1>2, RankType, FS_EmptySet DEF Rank
<1>4. \A m \in S : p <= m
  BY <1>3 DEF Below
<1> QED
  BY <1>4 DEF Least
-----------------------------------------------------------------------------
\* The bits of a word are finitely many numbers.
LEMMA BitsFinite ==
  ASSUME NEW S \in SUBSET Bits
  PROVE  S \in SUBSET Nat /\ IsFiniteSet(S) /\ Cardinality(S) \in Nat
<1>1. IsFiniteSet(Bits) /\ Bits \in SUBSET Nat
  <2>1. Width \in Nat
    BY StampsAssumption
  <2>2. IsFiniteSet(0 .. Width - 1)
    BY <2>1, SizeOfRange
  <2> QED
    BY <2>1, <2>2 DEF Bits
<1>2. IsFiniteSet(S)
  BY <1>1, FS_Subset
<1> QED
  BY <1>1, <1>2, FS_CardinalityType

\* Where the word of a header bit is: never past the flag's end, and past its
\* header if the flag has as many words as the header says.
LEMMA WordType ==
  ASSUME NEW f \in Flags, NEW p \in f[1]
  PROVE  /\ Word(f, p) = Len(f) - Rank(f[1], p)
         /\ Word(f, p) \in Int /\ Word(f, p) <= Len(f)
         /\ WellFormed(f) => Word(f, p) >= 2
<1>1. f[1] \in SUBSET Bits /\ Len(f) \in Nat /\ f # <<>>
  BY DEF Flags
<1>2. f[1] \in SUBSET Nat /\ IsFiniteSet(f[1]) /\ Cardinality(f[1]) \in Nat
  BY <1>1, BitsFinite
<1>3. Rank(f[1], p) \in Nat /\ Rank(f[1], p) < Cardinality(f[1])
  BY <1>2, RankType
<1>4. Word(f, p) = Len(f) - Rank(f[1], p)
  BY DEF Word, Rank, Below
<1> QED
  BY <1>1, <1>2, <1>3, <1>4 DEF WellFormed

\* A word that is there is a set of bits.
LEMMA WordIsBits ==
  ASSUME NEW f \in Flags, NEW p \in f[1], Word(f, p) >= 1
  PROVE  f[Word(f, p)] \in SUBSET Bits
BY WordType DEF Flags

\* The words that flags have in common, if neither is short of one.
LEMMA CommonFlagsType ==
  ASSUME NEW f \in Flags, NEW g \in Flags, ~Mismatch(f, g), NEW p \in Common(f, g)
  PROVE  CommonFlags(f, g, p) \in SUBSET Bits
<1>1. p \in f[1] /\ p \in g[1]
  BY DEF Common, Flags
<1>2. Word(f, p) \in Int /\ Word(g, p) \in Int /\ Word(f, p) >= 1 /\ Word(g, p) >= 1
  BY <1>1, WordType DEF Mismatch
<1> QED
  BY <1>1, <1>2, WordIsBits DEF CommonFlags

\* The body has a word for each bit of the common header, where Word() looks.
LEMMA CommonBodyIs ==
  ASSUME NEW f \in Flags, NEW g \in Flags, ~Mismatch(f, g),
         NEW h, h = CommonHeader(f, g)
  PROVE  /\ h \in SUBSET Bits
         /\ CommonBody(f, g) \in Seq(SUBSET Bits)
         /\ Len(CommonBody(f, g)) = Cardinality(h)
         /\ \A p \in h : CommonBody(f, g)[Cardinality(h) - Rank(h, p)]
                          = CommonFlags(f, g, p)
<1> DEFINE N == Cardinality(h)
           at(k) == CHOOSE p \in h : Cardinality({q \in h : q < p}) = N - k
<1>1. h \in SUBSET Common(f, g) /\ h \in SUBSET Bits
  BY DEF CommonHeader, Common, Flags
<1>2. h \in SUBSET Nat /\ IsFiniteSet(h) /\ N \in Nat
  BY <1>1, BitsFinite
<1>3. CommonBody(f, g) = [k \in 1 .. N |-> CommonFlags(f, g, at(k))]
  BY DEF CommonBody
<1>4. \A p \in h : Rank(h, p) = Cardinality({q \in h : q < p})
  BY DEF Rank, Below
<1>5. ASSUME NEW k \in 1 .. N PROVE at(k) \in h /\ Rank(h, at(k)) = N - k
  <2>1. N - k \in Nat /\ N - k < Cardinality(h)
    BY <1>2
  <2>2. PICK p \in h : Rank(h, p) = N - k
    BY <1>2, <2>1, RankOnto
  <2>3. \E x \in h : Cardinality({q \in h : q < x}) = N - k
    BY <1>4, <2>2
  <2>4. at(k) \in h /\ Cardinality({q \in h : q < at(k)}) = N - k
    BY <2>3
  <2> QED
    BY <1>4, <2>4
<1>6. \A k \in 1 .. N : CommonFlags(f, g, at(k)) \in SUBSET Bits
  BY <1>1, <1>5, CommonFlagsType
<1> HIDE DEF at
<1>7. CommonBody(f, g) \in Seq(SUBSET Bits) /\ Len(CommonBody(f, g)) = N
  BY <1>2, <1>3, <1>6
<1>8. ASSUME NEW p \in h
      PROVE  CommonBody(f, g)[N - Rank(h, p)] = CommonFlags(f, g, p)
  <2>1. Rank(h, p) \in Nat /\ Rank(h, p) < N
    BY <1>2, RankType
  <2>2. N - Rank(h, p) \in 1 .. N
    BY <1>2, <2>1
  <2>3. at(N - Rank(h, p)) \in h /\ Rank(h, at(N - Rank(h, p))) = N - (N - Rank(h, p))
    BY <1>5, <2>2
  <2>4. N - (N - Rank(h, p)) = Rank(h, p)
    BY <1>2, <2>1
  <2>5. at(N - Rank(h, p)) = p
    BY <1>2, <2>3, <2>4, RankInjective
  <2> QED
    BY <1>3, <2>2, <2>5
<1> QED
  BY <1>1, <1>7, <1>8

\* What is intersected is a flag, or nothing.
LEMMA IntersectType ==
  ASSUME NEW f \in Flags, NEW g \in Flags, ~Mismatch(f, g)
  PROVE  Intersect(f, g) \in Flags \cup {<<>>}
<1> DEFINE h == CommonHeader(f, g)
           b == CommonBody(f, g)
<1>1. h \in SUBSET Bits /\ b \in Seq(SUBSET Bits)
  BY CommonBodyIs
<1>2. Intersect(f, g) = IF h = {} THEN <<>> ELSE <<h>> \o b
  BY DEF Intersect
<1> HIDE DEF h, b
<1>3. <<h>> \o b \in Seq(SUBSET Bits) /\ <<h>> \o b # <<>>
  BY <1>1
<1> QED
  BY <1>2, <1>3 DEF Flags

\* intersect() does what its name says.  Of two flags that have as many words
\* as their headers say, none is ever taken to mismatch; the result is null
\* exactly if they have no blocklist in common; and it is a flag with as many
\* words as its header says, that stands for the blocklists of both.
THEOREM IntersectSound ==
  ASSUME NEW f, WellFormed(f), NEW g, WellFormed(g)
  PROVE  /\ ~Mismatch(f, g)
         /\ Lists(Intersect(f, g)) = Lists(f) \cap Lists(g)
         /\ Intersect(f, g) = <<>> <=> Lists(f) \cap Lists(g) = {}
         /\ Intersect(f, g) # <<>> => WellFormed(Intersect(f, g))
<1> DEFINE h == CommonHeader(f, g)
           b == CommonBody(f, g)
           n == Intersect(f, g)
<1>1. f \in Flags /\ g \in Flags /\ f # <<>> /\ g # <<>>
  BY DEF WellFormed, Flags
<1>2. Common(f, g) = f[1] \cap g[1]
  BY <1>1 DEF Common
<1>3. \A p \in Common(f, g) : Word(f, p) >= 2 /\ Word(g, p) >= 2
                            /\ Word(f, p) \in Int /\ Word(g, p) \in Int
  BY <1>1, <1>2, WordType
<1>4. ~Mismatch(f, g)
  BY <1>3 DEF Mismatch
<1>5. /\ h \in SUBSET Bits /\ b \in Seq(SUBSET Bits) /\ Len(b) = Cardinality(h)
      /\ \A p \in h : b[Cardinality(h) - Rank(h, p)] = CommonFlags(f, g, p)
  BY <1>1, <1>4, CommonBodyIs
<1>6. h = {p \in f[1] \cap g[1] : f[Word(f, p)] \cap g[Word(g, p)] # {}}
  BY <1>2 DEF CommonHeader, CommonFlags
<1>7. Lists(f) \cap Lists(g) =
        {l \in h \X Bits : l[2] \in f[Word(f, l[1])] \cap g[Word(g, l[1])]}
  BY <1>1, <1>6 DEF Lists
<1>8. n = IF h = {} THEN <<>> ELSE <<h>> \o b
  BY DEF Intersect
<1>9. h \in SUBSET Nat /\ IsFiniteSet(h) /\ Cardinality(h) \in Nat
  BY <1>5, BitsFinite
<1>10. CASE h = {}
  BY <1>4, <1>7, <1>8, <1>10 DEF Lists
<1>11. CASE h # {}
  <2> HIDE DEF h, b, n
  <2>1. /\ n # <<>> /\ n \in Flags /\ n[1] = h /\ Len(n) = 1 + Cardinality(h)
        /\ \A k \in 1 .. Cardinality(h) : n[k + 1] = b[k]
    <3>1. n = <<h>> \o b
      BY <1>8, <1>11
    <3>2. <<h>> \in Seq(SUBSET Bits) /\ b \in Seq(SUBSET Bits)
      BY <1>5
    <3>3. n \in Seq(SUBSET Bits) /\ Len(n) = 1 + Cardinality(h) /\ n[1] = h
      BY <1>5, <3>1, <3>2
    <3>4. n # <<>>
      BY <1>9, <3>3
    <3>5. ASSUME NEW k \in 1 .. Cardinality(h) PROVE n[k + 1] = b[k]
      BY <1>5, <1>9, <3>1, <3>2
    <3> QED
      BY <3>3, <3>4, <3>5 DEF Flags
  <2>2. WellFormed(n)
    BY <2>1 DEF WellFormed
  <2>3. ASSUME NEW p \in h
        PROVE  n[Word(n, p)] = f[Word(f, p)] \cap g[Word(g, p)]
    <3>1. Rank(h, p) \in Nat /\ Rank(h, p) < Cardinality(h)
      BY <1>9, RankType
    <3>2. Word(n, p) = (Cardinality(h) - Rank(h, p)) + 1
      <4>1. p \in n[1]
        BY <2>1
      <4>2. Word(n, p) = Len(n) - Rank(h, p)
        BY <2>1, <4>1, WordType
      <4> QED
        BY <1>9, <2>1, <3>1, <4>2
    <3>3. Cardinality(h) - Rank(h, p) \in 1 .. Cardinality(h)
      BY <1>9, <3>1
    <3> QED
      BY <1>5, <2>1, <3>2, <3>3 DEF CommonFlags
  <2>4. Lists(n) = {l \in h \X Bits : l[2] \in f[Word(f, l[1])] \cap g[Word(g, l[1])]}
    BY <2>1, <2>3 DEF Lists
  <2>5. Lists(n) # {}
    <3>1. PICK p \in h : TRUE
      BY <1>11
    <3>2. PICK x : x \in f[Word(f, p)] \cap g[Word(g, p)]
      BY <1>6, <3>1 DEF h
    <3>3. p \in f[1] /\ p \in Common(f, g)
      BY <1>2, <1>6, <3>1 DEF h
    <3>4. f[Word(f, p)] \in SUBSET Bits
      BY <1>1, <1>3, <3>3, WordIsBits
    <3>5. <<p, x>> \in h \X Bits
      BY <3>1, <3>2, <3>4
    <3> QED
      BY <2>4, <3>2, <3>5
  <2> QED
    BY <1>4, <1>7, <2>1, <2>2, <2>4, <2>5 DEF n, h
<1> QED
  BY <1>10, <1>11
-----------------------------------------------------------------------------
Verdicts == [isBlocked : BOOLEAN, thrown : BOOLEAN, flag : Flags \cup {<<>>}]

\* The verdicts are three things.
LEMMA VerdictsAre ==
  /\ Unblocked \in Verdicts /\ Thrown \in Verdicts
  /\ ~Unblocked.isBlocked /\ ~Unblocked.thrown /\ Thrown.thrown
  /\ \A f \in Flags \cup {<<>>} :
       /\ Blocked(f) \in Verdicts /\ Blocked(f).isBlocked /\ ~Blocked(f).thrown
       /\ Blocked(f).flag = f /\ Blocked(f) # Unblocked
BY DEF Unblocked, Thrown, Blocked, Verdicts

\* applyBlocklists() decides one way or another, whatever the flags,
LEMMA ApplyType ==
  ASSUME NEW user \in Flags, NEW listed \in Flags
  PROVE  ApplyBlocklists(user, listed) \in Verdicts
<1>1. ~Mismatch(user, listed) => Intersect(user, listed) \in Flags \cup {<<>>}
  BY IntersectType
<1> QED
  BY <1>1, VerdictsAre DEF ApplyBlocklists

\* and rightly so, if both are well-formed.
LEMMA ApplySound ==
  ASSUME NEW user, WellFormed(user), NEW listed, WellFormed(listed),
         NEW v, v = ApplyBlocklists(user, listed)
  PROVE  /\ ~v.thrown
         /\ v # Unblocked <=> Lists(user) \cap Lists(listed) # {}
         /\ v # Unblocked => /\ v.isBlocked /\ WellFormed(v.flag)
                             /\ Lists(v.flag) = Lists(user) \cap Lists(listed)
<1>1. /\ ~Mismatch(user, listed)
      /\ Lists(Intersect(user, listed)) = Lists(user) \cap Lists(listed)
      /\ Intersect(user, listed) = <<>> <=> Lists(user) \cap Lists(listed) = {}
      /\ Intersect(user, listed) # <<>> => WellFormed(Intersect(user, listed))
  BY IntersectSound
<1>2. CASE Intersect(user, listed) = <<>>
  BY <1>1, <1>2, VerdictsAre DEF ApplyBlocklists
<1>3. CASE Intersect(user, listed) # <<>>
  <2>1. Intersect(user, listed) \in Flags
    BY <1>1, <1>3 DEF WellFormed
  <2>2. v = Blocked(Intersect(user, listed))
    BY <1>1, <1>3 DEF ApplyBlocklists
  <2> QED
    BY <1>1, <1>3, <2>1, <2>2, VerdictsAre
<1> QED
  BY <1>2, <1>3

\* The rounds that find something are numbered.
LEMMA RoundsFinite ==
  ASSUME NEW dn \in Seq(Text), NEW S \in SUBSET (1 .. Len(dn))
  PROVE  S \in SUBSET Nat /\ IsFiniteSet(S) /\ (S # {} => Least(S) \in S)
<1>1. S \in SUBSET Nat
  OBVIOUS
<1>2. IsFiniteSet(1 .. Len(dn))
  BY FS_Interval
<1>3. IsFiniteSet(S)
  BY <1>2, FS_Subset
<1> QED
  BY <1>1, <1>3, LeastIs

Round(dn, user, stamps, k) == ApplyBlocklists(user, stamps[Suffix(dn, k)])
Hits(dn, user, stamps) ==
  {k \in SuffixesListed(dn, stamps) : Round(dn, user, stamps, k) # Unblocked}

\* The lists of the user that are on the domain of a round.
On(dn, user, stamps, k) ==
  IF Suffix(dn, k) \in DOMAIN stamps
  THEN Lists(user) \cap Lists(stamps[Suffix(dn, k)]) ELSE {}

\* The first round that finds something decides.
LEMMA WildcardIs ==
  ASSUME NEW dn \in Seq(Text), NEW user, NEW stamps
  PROVE  /\ Hits(dn, user, stamps) = {} => DoBlock(dn, user, stamps) = Unblocked
         /\ Hits(dn, user, stamps) # {} =>
              \E k \in Hits(dn, user, stamps) :
                DoBlock(dn, user, stamps) = Round(dn, user, stamps, k)
<1> DEFINE hits == Hits(dn, user, stamps)
<1>1. DoBlock(dn, user, stamps) = ApplyWildcardBlocklists(dn, user, stamps)
  BY DEF DoBlock, BlockSubdomains
<1>2. hits \in SUBSET (1 .. Len(dn))
  BY DEF Hits, SuffixesListed
<1>3. hits # {} => Least(hits) \in hits
  BY <1>2, RoundsFinite
<1> QED
  BY <1>1, <1>3 DEF ApplyWildcardBlocklists, Hits, Round

\* doBlock() decides one way or another, whatever the flags,
LEMMA DoBlockType ==
  ASSUME NEW dn \in Seq(Text), NEW user \in Flags, NEW stamps,
         \A n \in DOMAIN stamps : stamps[n] \in Flags
  PROVE  DoBlock(dn, user, stamps) \in Verdicts
<1>1. \A k \in Hits(dn, user, stamps) : Round(dn, user, stamps, k) \in Verdicts
  BY ApplyType DEF Hits, Round, SuffixesListed
<1> QED
  BY <1>1, WildcardIs, VerdictsAre

\* and rightly so, if all are well-formed: a name is blocked exactly if a list
\* the user has is on it or on a domain it is in.
LEMMA DoBlockSound ==
  ASSUME NEW dn \in Seq(Text), NEW user, WellFormed(user), NEW stamps,
         \A n \in DOMAIN stamps : WellFormed(stamps[n]),
         NEW v, v = DoBlock(dn, user, stamps)
  PROVE  /\ ~v.thrown
         /\ v # Unblocked <=> v.isBlocked
         /\ v.isBlocked <=> \E k \in 1 .. Len(dn) : On(dn, user, stamps, k) # {}
         /\ v.isBlocked => /\ WellFormed(v.flag)
                           /\ \E k \in 1 .. Len(dn) : Lists(v.flag) = On(dn, user, stamps, k)
<1> DEFINE hits == Hits(dn, user, stamps)
           a(k) == Round(dn, user, stamps, k)
           on(k) == On(dn, user, stamps, k)
<1>1. /\ hits = {} => v = Unblocked
      /\ hits # {} => \E k \in hits : v = a(k)
  BY WildcardIs
<1>2. ASSUME NEW k \in SuffixesListed(dn, stamps)
      PROVE  /\ k \in 1 .. Len(dn) /\ ~a(k).thrown
             /\ k \in hits <=> on(k) # {}
             /\ k \in hits => /\ a(k).isBlocked /\ WellFormed(a(k).flag)
                             /\ Lists(a(k).flag) = on(k)
  <2>1. /\ k \in 1 .. Len(dn) /\ Suffix(dn, k) \in DOMAIN stamps
        /\ on(k) = Lists(user) \cap Lists(stamps[Suffix(dn, k)])
    BY DEF SuffixesListed, On
  <2>2. WellFormed(stamps[Suffix(dn, k)])
    BY <2>1
  <2>3. /\ ~a(k).thrown
        /\ a(k) # Unblocked <=> on(k) # {}
        /\ a(k) # Unblocked => /\ a(k).isBlocked /\ WellFormed(a(k).flag)
                               /\ Lists(a(k).flag) = on(k)
    BY <2>1, <2>2, ApplySound DEF Round
  <2> QED
    BY <2>1, <2>3 DEF Hits
<1>3. \A k \in 1 .. Len(dn) : on(k) # {} => k \in SuffixesListed(dn, stamps)
  BY DEF SuffixesListed, On
<1>4. \A k \in hits : k \in SuffixesListed(dn, stamps)
  BY DEF Hits
<1>5. CASE hits = {}
  BY <1>1, <1>2, <1>3, <1>5, VerdictsAre
<1>6. CASE hits # {}
  <2>1. PICK k \in hits : v = a(k)
    BY <1>1, <1>6
  <2> HIDE DEF hits, a, on
  <2>2. /\ k \in 1 .. Len(dn) /\ ~v.thrown /\ on(k) # {} /\ v.isBlocked
        /\ WellFormed(v.flag) /\ Lists(v.flag) = on(k)
    BY <1>2, <1>4, <2>1
  <2> QED
    BY <2>2, VerdictsAre DEF on
<1> QED
  BY <1>5, <1>6

NameHits(names, user, stamps) ==
  {i \in DOMAIN names : DoBlock(names[i], user, stamps) # Unblocked}

\* The first of the names that is blocked decides.
LEMMA BlockIs ==
  ASSUME NEW names \in Seq(Seq(Text)), NEW user, NEW stamps
  PROVE  /\ NameHits(names, user, stamps) = {} => Block(names, user, stamps) = Unblocked
         /\ NameHits(names, user, stamps) # {} =>
              \E i \in NameHits(names, user, stamps) :
                Block(names, user, stamps) = DoBlock(names[i], user, stamps)
<1> DEFINE hits == NameHits(names, user, stamps)
<1>1. hits \in SUBSET (1 .. Len(names)) /\ Len(names) \in Nat
  BY DEF NameHits
<1>2. IsFiniteSet(1 .. Len(names)) /\ hits \in SUBSET Nat
  BY <1>1, FS_Interval
<1>3. IsFiniteSet(hits)
  BY <1>1, <1>2, FS_Subset
<1>4. hits # {} => Least(hits) \in hits
  BY <1>2, <1>3, LeastIs
<1> QED
  BY <1>4 DEF Block, NameHits

\* block() decides one way or another, whatever the flags,
LEMMA BlockType ==
  ASSUME NEW names \in Seq(Seq(Text)), NEW user \in Flags, NEW stamps,
         \A n \in DOMAIN stamps : stamps[n] \in Flags
  PROVE  Block(names, user, stamps) \in Verdicts
<1>1. \A i \in DOMAIN names : DoBlock(names[i], user, stamps) \in Verdicts
  BY DoBlockType
<1> QED
  BY <1>1, BlockIs, VerdictsAre DEF NameHits

\* and rightly so, if all are well-formed.
LEMMA BlockSound ==
  ASSUME NEW names \in Seq(Seq(Text)), NEW user, WellFormed(user), NEW stamps,
         \A n \in DOMAIN stamps : WellFormed(stamps[n]),
         NEW v, v = Block(names, user, stamps)
  PROVE  /\ ~v.thrown
         /\ v.isBlocked <=> \E i \in DOMAIN names : \E k \in DOMAIN names[i] :
                              On(names[i], user, stamps, k) # {}
         /\ v.isBlocked => /\ WellFormed(v.flag)
                           /\ \E i \in DOMAIN names : \E k \in DOMAIN names[i] :
                                Lists(v.flag) = On(names[i], user, stamps, k)
<1> DEFINE hits == NameHits(names, user, stamps)
           d(i) == DoBlock(names[i], user, stamps)
           on(i, k) == On(names[i], user, stamps, k)
<1>1. /\ hits = {} => v = Unblocked
      /\ hits # {} => \E i \in hits : v = d(i)
  BY BlockIs
<1>2. ASSUME NEW i \in DOMAIN names
      PROVE  /\ ~d(i).thrown
             /\ i \in hits <=> d(i).isBlocked
             /\ d(i).isBlocked <=> \E k \in DOMAIN names[i] : on(i, k) # {}
             /\ d(i).isBlocked => /\ WellFormed(d(i).flag)
                                  /\ \E k \in DOMAIN names[i] : Lists(d(i).flag) = on(i, k)
  <2>1. names[i] \in Seq(Text) /\ DOMAIN names[i] = 1 .. Len(names[i])
    OBVIOUS
  <2>2. /\ ~d(i).thrown
        /\ d(i) # Unblocked <=> d(i).isBlocked
        /\ d(i).isBlocked <=> \E k \in 1 .. Len(names[i]) : on(i, k) # {}
        /\ d(i).isBlocked => /\ WellFormed(d(i).flag)
                             /\ \E k \in 1 .. Len(names[i]) : Lists(d(i).flag) = on(i, k)
    BY <2>1, DoBlockSound
  <2> QED
    BY <2>1, <2>2 DEF NameHits
<1>3. \A i \in hits : i \in DOMAIN names
  BY DEF NameHits
<1> HIDE DEF hits, d, on
<1>4. CASE hits = {}
  <2>1. ~v.isBlocked /\ ~v.thrown
    BY <1>1, <1>4, VerdictsAre
  <2>2. \A i \in DOMAIN names : \A k \in DOMAIN names[i] : on(i, k) = {}
    BY <1>2, <1>4
  <2> QED
    BY <2>1, <2>2 DEF on
<1>5. CASE hits # {}
  <2>1. PICK i \in hits : v = d(i)
    BY <1>1, <1>5
  <2>2. i \in DOMAIN names
    BY <1>3
  <2> QED
    BY <1>2, <2>1, <2>2 DEF on
<1> QED
  BY <1>4, <1>5

\* What the blocker is given to decide with is what the filter has.
LEMMA StampsOfIs ==
  ASSUME NEW filt \in Filters, NEW names \in Seq(Seq(Text))
  PROVE  /\ \A n \in DOMAIN StampsOf(filt, names) :
              /\ WellFormed(StampsOf(filt, names)[n])
              /\ StampsOf(filt, names)[n] \in Flags
         /\ \A i \in DOMAIN names : \A k \in DOMAIN names[i] : \A user :
              On(names[i], user, StampsOf(filt, names), k) =
                IF Suffix(names[i], k) \in DOMAIN filt
                THEN Lists(user) \cap Lists(filt[Suffix(names[i], k)]) ELSE {}
<1>1. \A n \in DOMAIN StampsOf(filt, names) :
        n \in DOMAIN filt /\ StampsOf(filt, names)[n] = filt[n]
  BY DEF StampsOf
<1>2. \A i \in DOMAIN names : \A k \in DOMAIN names[i] :
        Suffix(names[i], k) \in DOMAIN filt
          => Suffix(names[i], k) \in DOMAIN StampsOf(filt, names)
  BY DEF StampsOf
<1> QED
  BY <1>1, <1>2, UsersAssumption DEF On, WellFormed
-----------------------------------------------------------------------------
\* The url that a request is made to.
UrlHost(ask) == IF ask.door = "dot" THEN GetMetadata(ask.host).host ELSE ask.host
UrlPath(ask) == IF ask.door = "dot" THEN GetMetadata(ask.host).flag ELSE ask.path

\* Over DoT, too, the labels of path and host are those that were sent.
LEMMA UrlIs ==
  ASSUME NEW ask \in Asks
  PROVE  /\ UrlHost(ask) \in Seq(Text) /\ UrlPath(ask) \in Seq(Text)
         /\ UrlHost(ask) # <<>>
         /\ ask.path \o ask.host # <<>> =>
              UrlPath(ask) \o UrlHost(ask) = ask.path \o ask.host
<1>1. /\ ask.host \in Seq(Text) /\ ask.path \in Seq(Text)
      /\ IF ask.door = "dot" THEN ask.path = <<>> ELSE ask.host # <<>>
  BY UsersAssumption
<1>2. CASE ask.door # "dot"
  BY <1>1, <1>2 DEF UrlHost, UrlPath
<1>3. CASE ask.door = "dot"
  <2> DEFINE h == ask.host
  <2>1. ask.path \o h = h
    BY <1>1, <1>3, ConcatEmptySeq
  <2>2. CASE h = <<>>
    <3>1. UrlHost(ask) = <<"nosni", "tld">> /\ UrlPath(ask) = <<>>
      BY <1>3, <2>2 DEF UrlHost, UrlPath, GetMetadata
    <3>2. <<"nosni", "tld">> \in Seq(Text) /\ <<>> \in Seq(Text)
      <4>1. "nosni" \in Text /\ "tld" \in Text
        BY UsersAssumption
      <4> QED
        BY <4>1, EmptySeq
    <3>3. <<"nosni", "tld">> # <<>>
      <4>1. Len(<<"nosni", "tld">>) = 2 /\ Len(<<>>) = 0
        OBVIOUS
      <4> QED
        BY <4>1
    <3> QED
      BY <2>1, <2>2, <3>1, <3>2, <3>3
  <2>3. CASE h # <<>> /\ ~(Len(h) > 2)
    BY <1>1, <1>3, <2>1, <2>3 DEF UrlHost, UrlPath, GetMetadata
  <2>4. CASE h # <<>> /\ Len(h) > 2
    <3>1. UrlHost(ask) = Tail(h) /\ UrlPath(ask) = <<Head(h)>>
      BY <1>3, <2>4 DEF UrlHost, UrlPath, GetMetadata
    <3>2. h \in Seq(Text) /\ Len(h) > 2
      BY <1>1, <2>4
    <3> HIDE DEF h
    <3>3. Tail(h) \in Seq(Text) /\ Tail(h) # <<>> /\ <<Head(h)>> \in Seq(Text)
      <4>1. h # <<>>
        BY <3>2, EmptySeq
      <4>2. /\ Head(h) \in Text /\ Tail(h) \in Seq(Text)
            /\ Len(Tail(h)) = Len(h) - 1
        BY <3>2, <4>1, HeadTailProperties
      <4>3. Tail(h) # <<>>
        <5>1. Len(h) \in Nat /\ Len(<<>>) = 0
          BY <3>2, EmptySeq
        <5>2. Len(Tail(h)) # 0
          BY <3>2, <4>2, <5>1
        <5> QED
          BY <5>1, <5>2
      <4> QED
        BY <4>2, <4>3
    <3>4. Len(<<Head(h)>> \o Tail(h)) = Len(h)
      BY <3>2
    <3>5. \A i \in 1 .. Len(h) : (<<Head(h)>> \o Tail(h))[i] = h[i]
      BY <3>2
    <3>6. <<Head(h)>> \o Tail(h) = h
      BY <3>2, <3>3, <3>4, <3>5, SeqEqual, ConcatProperties
    <3> QED
      BY <2>1, <3>1, <3>3, <3>6 DEF h
  <2> QED
    BY <2>2, <2>3, <2>4
<1> QED
  BY <1>2, <1>3

\* The first stamp is one, and none comes before it.
LEMMA FirstStampIs ==
  ASSUME NEW ls \in Seq(Text), StampsAt(ls) # {}
  PROVE  /\ FirstStamp(ls) \in DOMAIN Stamp
         /\ \E i \in StampsAt(ls) : /\ FirstStamp(ls) = ls[i]
                                  /\ \A j \in StampsAt(ls) : i <= j
<1>1. StampsAt(ls) \in SUBSET (1 .. Len(ls))
  BY DEF StampsAt
<1>2. IsFiniteSet(1 .. Len(ls)) /\ StampsAt(ls) \in SUBSET Nat
  BY <1>1, FS_Interval
<1>3. IsFiniteSet(StampsAt(ls))
  BY <1>1, <1>2, FS_Subset
<1>4. /\ Least(StampsAt(ls)) \in StampsAt(ls)
      /\ \A j \in StampsAt(ls) : Least(StampsAt(ls)) <= j
  BY <1>2, <1>3, LeastIs
<1> QED
  BY <1>4 DEF FirstStamp, StampsAt

\* extractStamps() takes the first stamp there is, in the path and then the host.
LEMMA ExtractIs ==
  ASSUME NEW host \in Seq(Text), NEW path \in Seq(Text)
  PROVE  Extract(host, path) = IF StampsAt(path \o host) = {}
                               THEN RecBlockstampFrom(host, path)
                               ELSE FirstStamp(path \o host)
<1> DEFINE sent == path \o host
<1>1. /\ sent \in Seq(Text) /\ Len(sent) = Len(path) + Len(host)
      /\ Len(path) \in Nat /\ Len(host) \in Nat
      /\ \A i \in 1 .. Len(path) : sent[i] = path[i]
      /\ \A i \in 1 .. Len(host) : sent[Len(path) + i] = host[i]
  OBVIOUS
<1>2. /\ StampsAt(path) = {i \in 1 .. Len(path) : path[i] \in DOMAIN Stamp}
      /\ StampsAt(host) = {i \in 1 .. Len(host) : host[i] \in DOMAIN Stamp}
      /\ StampsAt(sent) = {i \in 1 .. Len(sent) : sent[i] \in DOMAIN Stamp}
  BY <1>1 DEF StampsAt
<1> HIDE DEF sent
<1>3. \A i \in StampsAt(path) : i \in StampsAt(sent)
  BY <1>1, <1>2
<1>4. \A i \in StampsAt(host) : Len(path) + i \in StampsAt(sent)
  BY <1>1, <1>2
<1>5. ASSUME NEW j \in StampsAt(sent), j \notin StampsAt(path)
      PROVE  j > Len(path) /\ j - Len(path) \in StampsAt(host)
  <2>1. j > Len(path)
    BY <1>1, <1>2, <1>5
  <2>2. j - Len(path) \in 1 .. Len(host) /\ j = Len(path) + (j - Len(path))
    BY <1>1, <1>2, <2>1
  <2>3. sent[j] = host[j - Len(path)]
    BY <1>1, <2>2
  <2> QED
    BY <1>2, <2>1, <2>2, <2>3
<1>6. CASE StampsAt(path) # {}
  <2>1. PICK i \in StampsAt(path) :
          FirstStamp(path) = path[i] /\ \A j \in StampsAt(path) : i <= j
    BY <1>6, FirstStampIs
  <2>2. PICK k \in StampsAt(sent) :
          FirstStamp(sent) = sent[k] /\ \A j \in StampsAt(sent) : k <= j
    BY <1>1, <1>3, <2>1, FirstStampIs
  <2>3. k <= i /\ k \in Nat /\ i \in Nat /\ i <= Len(path)
    BY <1>1, <1>2, <1>3, <2>1, <2>2
  <2>4. k \in StampsAt(path)
    BY <1>1, <1>2, <1>5, <2>2, <2>3
  <2>5. k = i
    BY <2>1, <2>3, <2>4
  <2>6. FirstStamp(sent) = FirstStamp(path)
    BY <1>1, <1>2, <2>1, <2>2, <2>5
  <2> QED
    BY <1>6, <2>2, <2>6 DEF Extract, sent
<1>7. CASE StampsAt(path) = {} /\ StampsAt(host) # {}
  <2>1. PICK i \in StampsAt(host) :
          FirstStamp(host) = host[i] /\ \A j \in StampsAt(host) : i <= j
    BY <1>7, FirstStampIs
  <2>2. PICK k \in StampsAt(sent) :
          FirstStamp(sent) = sent[k] /\ \A j \in StampsAt(sent) : k <= j
    BY <1>1, <1>4, <2>1, FirstStampIs
  <2>3. k - Len(path) \in StampsAt(host)
    BY <1>5, <1>7, <2>2
  <2>4. i <= k - Len(path) /\ k <= Len(path) + i /\ i \in 1 .. Len(host) /\ k \in Nat
    BY <1>1, <1>2, <1>4, <2>1, <2>2, <2>3
  <2>5. k = Len(path) + i
    <3>1. i \in Nat /\ Len(path) \in Nat
      BY <1>1, <2>4
    <3> QED
      BY <2>4, <3>1
  <2>6. FirstStamp(sent) = FirstStamp(host)
    BY <1>1, <2>1, <2>2, <2>4, <2>5
  <2> QED
    BY <1>7, <2>2, <2>6 DEF Extract, sent
<1>8. CASE StampsAt(path) = {} /\ StampsAt(host) = {}
  <2>1. StampsAt(sent) = {}
    BY <1>5, <1>8
  <2> QED
    BY <1>8, <2>1 DEF Extract, sent
<1> QED
  BY <1>6, <1>7, <1>8

\* The fields of a stamp, and what there is for those that are missing.
LEMMA FieldType ==
  ASSUME NEW l, NEW i
  PROVE  Field(l, i) \in Text
<1>1. Split(l).fields \in Seq(Text)
  BY StampsAssumption, EmptySeq DEF Split
<1>2. \A s \in Seq(Text) : \A j \in DOMAIN s : s[j] \in Text
  BY LenProperties
<1>3. "" \in Text
  BY StampsAssumption
<1> QED
  BY <1>1, <1>2, <1>3 DEF Field

\* A stamp that is sent is a triple, in one of the two alphabets; and a flag is
\* decoded from it, or nothing.
LEMMA StampType ==
  ASSUME NEW host, NEW path, NEW s, s = BlockstampFromUrl(host, path)
  PROVE  /\ s \in Text \X Text \X Text
         /\ Unstamp(s) \in Flags \cup {<<>>}
         /\ Unstamp(NoStamp) = <<>> /\ NoStamp \in Text \X Text \X Text
<1> DEFINE l == Extract(host, path)
<1>1. Unstamp(NoStamp) = <<>> /\ NoStamp \in Text \X Text \X Text
  BY StampsAssumption DEF Unstamp, NoStamp
<1>2. CASE s = NoStamp
  BY <1>1, <1>2
<1>3. CASE s # NoStamp
  <2>1. s = <<Split(l).delim, Field(l, 1), Field(l, 2)>> /\ Field(l, 1) # ""
    BY <1>3 DEF BlockstampFromUrl
  <2>2. l \in DOMAIN Stamp
    <3> SUFFICES ASSUME l \notin DOMAIN Stamp PROVE FALSE
      OBVIOUS
    <3>1. Split(l).fields = <<>>
      BY DEF Split
    <3>2. DOMAIN <<>> = {}
      OBVIOUS
    <3>3. Field(l, 1) = ""
      BY <3>1, <3>2 DEF Field
    <3> QED
      BY <2>1, <3>3
  <2>3. Split(l).delim \in DOMAIN Decoded
    BY <2>2, StampsAssumption DEF Split
  <2>4. Field(l, 1) \in Text /\ Field(l, 2) \in Text /\ DOMAIN Decoded \in SUBSET Text
    BY FieldType, StampsAssumption
  <2> HIDE DEF l
  <2>a. Split(l).delim \in Text
    BY <2>3, <2>4
  <2>5. s[1] \in DOMAIN Decoded /\ s \in Text \X Text \X Text
    <3> DEFINE a == Split(l).delim
               b == Field(l, 1)
               c == Field(l, 2)
    <3>1. a \in Text /\ b \in Text /\ c \in Text /\ s = <<a, b, c>> /\ a \in DOMAIN Decoded
      BY <2>a, <2>1, <2>3, <2>4
    <3> HIDE DEF a, b, c
    <3> QED
      BY <3>1
  <2>6. s[3] \in DOMAIN Decoded[s[1]] => Decoded[s[1]][s[3]] \in Flags
    BY <2>5, StampsAssumption
  <2> QED
    BY <1>1, <2>5, <2>6 DEF Unstamp
<1> QED
  BY <1>2, <1>3

\* What the client chose is what its url is decoded to.
LEMMA ChosenIs ==
  ASSUME NEW r, req[r].ask \in Asks,
         req[r].host = UrlHost(req[r].ask), req[r].path = UrlPath(req[r].ask)
  PROVE  Chosen(r) = Unstamp(BlockstampFromUrl(req[r].host, req[r].path))
<1> DEFINE host == req[r].host
           path == req[r].path
           sent == req[r].ask.path \o req[r].ask.host
           l == FirstStamp(sent)
           s == BlockstampFromUrl(host, path)
<1>1. CASE StampsAt(sent) = {}
  BY <1>1 DEF Chosen
<1>2. CASE StampsAt(sent) # {}
  <2>1. sent \in Seq(Text)
    BY UsersAssumption, ConcatProperties
  <2>2. l \in DOMAIN Stamp
    BY <1>2, <2>1, FirstStampIs
  <2>3. sent # <<>>
    <3>1. PICK i \in StampsAt(sent) : TRUE
      BY <1>2
    <3> HIDE DEF sent
    <3>2. i \in 1 .. Len(sent) /\ Len(sent) \in Nat
      BY <2>1, <3>1, LenProperties DEF StampsAt
    <3>3. Len(sent) # 0 /\ Len(<<>>) = 0
      BY <3>2, EmptySeq
    <3> QED
      BY <3>3
  <2>4. path \o host = sent /\ host \in Seq(Text) /\ path \in Seq(Text)
    BY <2>3, UrlIs
  <2>5. Extract(host, path) = l
    BY <1>2, <2>4, ExtractIs
  <2>6. /\ Split(l) = Stamp[l] /\ Stamp[l].fields \in Seq(Text)
        /\ Stamp[l].delim \in DOMAIN Decoded
        /\ "" \notin DOMAIN Decoded[Stamp[l].delim]
    BY <2>2, StampsAssumption DEF Split
  <2> DEFINE fs == Stamp[l].fields
             d == Stamp[l].delim
  <2>7. Chosen(r) = IF Len(fs) > 1 /\ fs[1] = "1" /\ fs[2] \in DOMAIN Decoded[d]
                    THEN Decoded[d][fs[2]] ELSE <<>>
    BY <1>2 DEF Chosen
  <2>8. s = IF Field(l, 1) = "" \/ Field(l, 2) = "" THEN NoStamp
            ELSE <<d, Field(l, 1), Field(l, 2)>>
    BY <2>5, <2>6 DEF BlockstampFromUrl
  <2>9. /\ Field(l, 1) = IF 1 \in DOMAIN fs THEN fs[1] ELSE ""
        /\ Field(l, 2) = IF 2 \in DOMAIN fs THEN fs[2] ELSE ""
    BY <2>6 DEF Field
  <2>10. DOMAIN fs = 1 .. Len(fs) /\ Len(fs) \in Nat
    BY <2>6, LenProperties
  <2>11. "" \notin DOMAIN Decoded[d]
    BY <2>6
  <2> HIDE DEF s, l, fs, d, sent, host, path
  <2>12. CASE Len(fs) > 1
    <3>a. 1 \in 1 .. Len(fs) /\ 2 \in 1 .. Len(fs)
      BY <2>10, <2>12
    <3>1. Field(l, 1) = fs[1] /\ Field(l, 2) = fs[2]
      BY <2>9, <2>10, <3>a
    <3>2. CASE s = NoStamp
      <4>1. fs[1] = "" \/ fs[2] = "" \/ <<d, fs[1], fs[2]>> = <<"", "", "">>
        BY <2>8, <3>1, <3>2 DEF NoStamp
      <4>2. fs[1] = "" \/ fs[2] = ""
        BY <4>1
      <4>3. Chosen(r) = <<>>
        BY <2>7, <2>11, <4>2
      <4> QED
        BY <3>2, <4>3, StampType DEF s, host, path
    <3>3. CASE s # NoStamp
      <4>1. s = <<d, fs[1], fs[2]>>
        BY <2>8, <3>1, <3>3
      <4>2. Unstamp(s) = IF fs[1] = "1" /\ fs[2] \in DOMAIN Decoded[d]
                         THEN Decoded[d][fs[2]] ELSE <<>>
        BY <4>1 DEF Unstamp
      <4> QED
        BY <2>7, <2>12, <4>2 DEF s, host, path
    <3> QED
      BY <3>2, <3>3
  <2>13. CASE ~(Len(fs) > 1)
    <3>a. 2 \notin 1 .. Len(fs)
      BY <2>10, <2>13
    <3>1. Field(l, 2) = ""
      BY <2>9, <2>10, <3>a
    <3>2. s = NoStamp /\ Chosen(r) = <<>>
      BY <2>7, <2>8, <2>13, <3>1
    <3> QED
      BY <3>2, StampType DEF s, host, path
  <2> QED
    BY <2>12, <2>13
<1> QED
  BY <1>1, <1>2
-----------------------------------------------------------------------------
KeyOf(e) == MsgkeyFromUrl(e.host, e.path)
KeysAt(e, ks) == {i \in DOMAIN e.host : Token(KeyOf(e), Suffix(e.host, i)) \in ks}
Holds(e, ks) == KeyOf(e) # "" /\ KeysAt(e, ks) # {}
Sent(e) == Unstamp(BlockstampFromUrl(e.host, e.path))
Due(e, filt) == Decision(filt, e.ask, e.flag)

\* A request's url is the one it asked for; while it is being authorised, no
\* domain tried so far has given a key; and its flag is the one it sent.
Within(e) == e.todo <= Len(e.host)
Tried(e, ks) == e.todo >= 1 /\ \A i \in KeysAt(e, ks) : i >= e.todo
UrlOK(e) == e.st # "new" => e.host = UrlHost(e.ask) /\ e.path = UrlPath(e.ask)
AuthOK(e, ks) ==
  /\ e.st \in {"auth", "proof"} =>
       ks # {} /\ KeyOf(e) # "" /\ Tried(e, ks)
  /\ e.st \in {"load", "block", "done"} => ks = {} \/ Holds(e, ks)
  /\ e.auth = "pass" => Holds(e, ks)
  /\ e.auth \in {"miss", "fail"} => ~Holds(e, ks)
ReplyOK(e, ks) ==
  /\ e.st # "done" => e.reply = ""
  /\ e.reply \in {"logs", "analytics"} => Holds(e, ks) /\ e.ask.lid
VerdictOK(e, filt) ==
  /\ e.st \notin {"done", "failed"} => e.verdict = Unblocked
  /\ e.st = "block" => e.flag = Sent(e)
  /\ e.ask.door # "command" /\ (e.st = "done" \/ e.verdict.thrown)
       => e.flag = Sent(e) /\ e.verdict = Due(e, filt)
ReqOK(e, ks, filt) ==
  /\ e \in RequestRecords /\ Within(e)
  /\ UrlOK(e) /\ AuthOK(e, ks) /\ ReplyOK(e, ks) /\ VerdictOK(e, filt)

\* What is memoized or cached is what would be computed.
MemOK ==
  /\ IsFiniteSet(DOMAIN mem) /\ Cardinality(DOMAIN mem) <= MemSize
  /\ \A k \in DOMAIN mem : mem[k] = Token(k[1], k[2])
CacheOK ==
  /\ IsFiniteSet(DOMAIN cache) /\ Cardinality(DOMAIN cache) <= CacheSize
  /\ \A s \in DOMAIN cache : cache[s] = Unstamp(s) /\ cache[s] # <<>>

\* The inductive invariant.
Inv ==
  /\ keys \in AccessKeys /\ filter \in Filters
  /\ req \in [Requests -> RequestRecords]
  /\ MemOK /\ CacheOK
  /\ \A r \in Requests : ReqOK(req[r], keys, filter)

\* The initial states satisfy the invariant.
LEMMA FreshOK == Fresh \in RequestRecords /\ Fresh.todo <= Len(Fresh.host)
<1>1. (CHOOSE a \in Asks : TRUE) \in Asks
  BY UsersAssumption
<1>2. <<>> \in Seq(Text) /\ Len(<<>>) = 0
  BY EmptySeq
<1>3. NoStamp \in Text \X Text \X Text
  BY StampsAssumption DEF NoStamp
<1> QED
  BY <1>1, <1>2, <1>3, VerdictsAre DEF Fresh, RequestRecords, Verdicts

LEMMA InitInv == Init => Inv
<1> SUFFICES ASSUME Init PROVE Inv
  OBVIOUS
<1>1. MemOK /\ CacheOK
  <2>1. DOMAIN mem = {} /\ DOMAIN cache = {}
    BY DEF Init
  <2> QED
    BY <2>1, FS_EmptySet, UsersAssumption DEF MemOK, CacheOK
<1>2. ReqOK(Fresh, keys, filter)
  <2>1. Fresh.st = "new" /\ Fresh.auth = "none" /\ Fresh.reply = "" /\ Fresh.verdict = Unblocked
    BY DEF Fresh
  <2> QED
    BY <2>1, FreshOK, VerdictsAre DEF ReqOK, Within, UrlOK, AuthOK, ReplyOK, VerdictOK
<1> QED
  BY <1>1, <1>2, FreshOK DEF Init, Inv

\* An entry is put, and another may be lost.
LEMMA PutIs ==
  ASSUME NEW c, IsFiniteSet(DOMAIN c), NEW size \in Nat \ {0},
         Cardinality(DOMAIN c) <= size, NEW k, NEW v, NEW d \in Put(c, k, v, size)
  PROVE  /\ IsFiniteSet(DOMAIN d) /\ Cardinality(DOMAIN d) <= size
         /\ \A x \in DOMAIN d : (x = k /\ d[x] = v) \/ (x \in DOMAIN c /\ d[x] = c[x])
<1>1. Cardinality(DOMAIN c) \in Nat
  BY FS_CardinalityType
<1>2. CASE k \in DOMAIN c \/ Cardinality(DOMAIN c) < size
  <2>1. d = [x \in DOMAIN c \cup {k} |-> IF x = k THEN v ELSE c[x]]
    BY <1>2 DEF Put
  <2>2. /\ IsFiniteSet(DOMAIN c \cup {k})
        /\ Cardinality(DOMAIN c \cup {k}) =
             IF k \in DOMAIN c THEN Cardinality(DOMAIN c) ELSE Cardinality(DOMAIN c) + 1
    BY FS_AddElement
  <2>3. Cardinality(DOMAIN c \cup {k}) <= size
    BY <1>1, <1>2, <2>2
  <2> QED
    BY <2>1, <2>2, <2>3
<1>3. CASE ~(k \in DOMAIN c \/ Cardinality(DOMAIN c) < size)
  <2>1. PICK old \in DOMAIN c :
          d = [x \in (DOMAIN c \ {old}) \cup {k} |-> IF x = k THEN v ELSE c[x]]
    BY <1>3 DEF Put
  <2>2. /\ IsFiniteSet(DOMAIN c \ {old})
        /\ Cardinality(DOMAIN c \ {old}) = Cardinality(DOMAIN c) - 1
    BY FS_RemoveElement
  <2>3. /\ IsFiniteSet((DOMAIN c \ {old}) \cup {k})
        /\ Cardinality((DOMAIN c \ {old}) \cup {k}) = Cardinality(DOMAIN c \ {old}) + 1
    BY <1>3, <2>2, FS_AddElement
  <2>4. Cardinality((DOMAIN c \ {old}) \cup {k}) <= size
    BY <1>1, <2>2, <2>3
  <2> QED
    BY <2>1, <2>3, <2>4
<1> QED
  BY <1>2, <1>3

\* A request that goes on leaves the others as they are.
LEMMA StepOK ==
  ASSUME Inv, NEW r \in Requests, NEW e, ReqOK(e, keys, filter), req' = [req EXCEPT ![r] = e],
         keys' = keys, filter' = filter, MemOK', CacheOK'
  PROVE  Inv'
<1>1. req' \in [Requests -> RequestRecords] /\ \A q \in Requests : ReqOK(req'[q], keys, filter)
  BY DEF Inv, ReqOK
<1> QED
  BY <1>1 DEF Inv

\* A request begins before the first domain of its host, or with it.
LEMMA BeginsWithin ==
  ASSUME NEW e, NEW h, e.host = h, Len(h) \in Nat, 1 <= Len(h), e.todo \in {0, 1}
  PROVE  Within(e)
BY DEF Within

LEMMA StartInv ==
  ASSUME Inv, NEW r \in Requests, NEW ask \in Asks, Start(r, ask)
  PROVE  Inv'
<1>1. PICK h \in Seq(Text), p \in Seq(Text) :
        h = UrlHost(ask) /\ p = UrlPath(ask) /\ h # <<>>
  BY UrlIs
<1>2. Len(h) \in Nat /\ 1 <= Len(h)
  BY <1>1, EmptySeq
<1>3. PICK b : b = [Fresh EXCEPT !.ask = ask, !.host = h, !.path = p]
  OBVIOUS
<1>4. Fresh \in RequestRecords
  BY FreshOK
<1>5. /\ b \in RequestRecords /\ b.todo = 0
      /\ b.ask = ask /\ b.host = h /\ b.path = p
      /\ b.auth = "none" /\ b.reply = "" /\ b.verdict = Unblocked
  BY <1>3, <1>4 DEF RequestRecords, Fresh
<1>6. PICK e : /\ req' = [req EXCEPT ![r] = e]
               /\ \/ e = [b EXCEPT !.st = "closed"]
                  \/ e = [b EXCEPT !.st = "load"] /\ keys = {}
                  \/ e = [b EXCEPT !.st = "failed", !.auth = "miss"] /\ KeyOf(b) = ""
                  \/ /\ e = [b EXCEPT !.st = "auth", !.todo = 1]
                     /\ keys # {} /\ KeyOf(b) # ""
  <2>1. KeyOf(b) = MsgkeyFromUrl(h, p)
    BY <1>5 DEF KeyOf
  <2>2. /\ h = IF ask.door = "dot" THEN GetMetadata(ask.host).host ELSE ask.host
        /\ p = IF ask.door = "dot" THEN GetMetadata(ask.host).flag ELSE ask.path
    BY <1>1 DEF UrlHost, UrlPath
  <2> QED
    BY <1>3, <2>1, <2>2 DEF Start, Set
<1>7. SUFFICES ReqOK(e, keys, filter)
  BY <1>6, StepOK DEF Start, Inv, MemOK, CacheOK
<1>8. /\ e \in RequestRecords /\ e.ask = ask /\ e.host = h /\ e.path = p
      /\ e.reply = "" /\ e.verdict = Unblocked
  <2>1. CASE e = [b EXCEPT !.st = "closed"]
    BY <1>5, <2>1 DEF RequestRecords
  <2>2. CASE e = [b EXCEPT !.st = "load"]
    BY <1>5, <2>2 DEF RequestRecords
  <2>3. CASE e = [b EXCEPT !.st = "failed", !.auth = "miss"]
    BY <1>5, <2>3 DEF RequestRecords
  <2>4. CASE e = [b EXCEPT !.st = "auth", !.todo = 1]
    BY <1>5, <2>4 DEF RequestRecords
  <2> QED
    BY <1>6, <2>1, <2>2, <2>3, <2>4
<1>9. KeyOf(e) = KeyOf(b)
  BY <1>5, <1>8 DEF KeyOf
<1>10. UrlOK(e)
  BY <1>1, <1>8 DEF UrlOK
<1>11. VerdictOK(e, filter) \/ e.st \in {"block", "done"}
  BY <1>8, VerdictsAre DEF VerdictOK
<1>12. CASE e = [b EXCEPT !.st = "closed"]
  <2>1. e.st = "closed" /\ e.auth = "none" /\ e.todo = 0
    BY <1>5, <1>12 DEF RequestRecords
  <2>2. Within(e)
    BY <1>2, <1>8, <2>1, BeginsWithin
  <2> QED
    BY <1>8, <1>10, <1>11, <2>1, <2>2 DEF ReqOK, AuthOK, ReplyOK
<1>13. CASE e = [b EXCEPT !.st = "load"] /\ keys = {}
  <2>1. e.st = "load" /\ e.auth = "none" /\ e.todo = 0
    BY <1>5, <1>13 DEF RequestRecords
  <2>2. Within(e)
    BY <1>2, <1>8, <2>1, BeginsWithin
  <2>3. VerdictOK(e, filter)
    BY <1>11, <2>1
  <2> QED
    BY <1>8, <1>10, <1>13, <2>1, <2>2, <2>3 DEF ReqOK, AuthOK, ReplyOK
<1>14. CASE e = [b EXCEPT !.st = "failed", !.auth = "miss"] /\ KeyOf(b) = ""
  <2>1. e.st = "failed" /\ e.auth = "miss" /\ e.todo = 0
    BY <1>5, <1>14 DEF RequestRecords
  <2>2. ~Holds(e, keys)
    BY <1>9, <1>14 DEF Holds
  <2>3. Within(e)
    BY <1>2, <1>8, <2>1, BeginsWithin
  <2> QED
    BY <1>8, <1>10, <1>11, <2>1, <2>2, <2>3 DEF ReqOK, AuthOK, ReplyOK
<1>15. CASE e = [b EXCEPT !.st = "auth", !.todo = 1] /\ keys # {} /\ KeyOf(b) # ""
  <2>1. e.st = "auth" /\ e.auth = "none" /\ e.todo = 1
    BY <1>5, <1>15 DEF RequestRecords
  <2>2. \A i \in KeysAt(e, keys) : i >= 1
    <3>1. DOMAIN h = 1 .. Len(h)
      BY LenProperties
    <3>2. KeysAt(e, keys) \in SUBSET (1 .. Len(h))
      BY <1>8, <3>1 DEF KeysAt
    <3> QED
      BY <1>2, <3>2
  <2>3. Tried(e, keys) /\ Within(e)
    <3>1. Tried(e, keys)
      BY <2>1, <2>2 DEF Tried
    <3> QED
      BY <1>2, <1>8, <2>1, <3>1, BeginsWithin
  <2>4. AuthOK(e, keys)
    BY <1>9, <1>15, <2>1, <2>3 DEF AuthOK
  <2> QED
    BY <1>8, <1>10, <1>11, <2>1, <2>3, <2>4 DEF ReqOK, ReplyOK
<1> QED
  BY <1>6, <1>12, <1>13, <1>14, <1>15

\* Whether a token is a key decides rightly: to try the next domain, or not.
LEMMA MatchedOK ==
  ASSUME Inv, NEW r \in Requests, req[r].st \in {"auth", "proof"},
         NEW e, e = Matched(r, Token(Msgkey(r), Domain(r)))
  PROVE  ReqOK(e, keys, filter)
<1>0. PICK b : b = req[r]
  OBVIOUS
<1>1. b \in RequestRecords /\ ReqOK(b, keys, filter)
  BY <1>0 DEF Inv
<1>2. /\ Len(b.host) \in Nat /\ b.todo \in Nat /\ b.todo >= 1 /\ b.todo <= Len(b.host)
      /\ DOMAIN b.host = 1 .. Len(b.host)
  <2>1. b.host \in Seq(Text) /\ b.todo \in Nat
    BY <1>1 DEF RequestRecords
  <2> QED
    BY <1>0, <1>1, <2>1, LenProperties DEF ReqOK, AuthOK, Within, Tried
<1>3. Token(Msgkey(r), Domain(r)) \in keys <=> b.todo \in KeysAt(b, keys)
  BY <1>0, <1>2 DEF KeysAt, KeyOf, Msgkey, Domain
<1>4. /\ keys # {} /\ KeyOf(b) # "" /\ b.reply = "" /\ b.verdict = Unblocked
      /\ \A i \in KeysAt(b, keys) : i >= b.todo
      /\ b.host = UrlHost(b.ask) /\ b.path = UrlPath(b.ask)
  <2>1. Tried(b, keys)
    BY <1>0, <1>1 DEF ReqOK, AuthOK
  <2>2. \A i \in KeysAt(b, keys) : i >= b.todo
    BY <2>1 DEF Tried
  <2> QED
    BY <1>0, <1>1, <2>2 DEF ReqOK, AuthOK, ReplyOK, VerdictOK, UrlOK
<1>5. KeysAt(b, keys) \in SUBSET (1 .. Len(b.host))
  BY <1>2 DEF KeysAt
<1>6. SUFFICES ASSUME /\ e \in RequestRecords /\ e.ask = b.ask
                      /\ e.host = b.host /\ e.path = b.path /\ e.reply = b.reply
                      /\ e.verdict = b.verdict /\ Within(e),
                      e.st \in {"load", "auth", "failed"},
                      AuthOK(e, keys)
               PROVE  ReqOK(e, keys, filter)
  <2> SUFFICES /\ e \in RequestRecords /\ e.ask = b.ask
               /\ e.host = b.host /\ e.path = b.path /\ e.reply = b.reply
               /\ e.verdict = b.verdict /\ Within(e)
               /\ e.st \in {"load", "auth", "failed"}
               /\ AuthOK(e, keys)
    OBVIOUS
  <2>1. CASE b.todo \in KeysAt(b, keys)
    <3>1. e = [b EXCEPT !.st = "load", !.auth = "pass"]
      BY <1>0, <1>3, <2>1 DEF Matched
    <3>2. /\ e \in RequestRecords /\ e.ask = b.ask /\ e.host = b.host
          /\ e.path = b.path /\ e.reply = b.reply /\ e.verdict = b.verdict
          /\ e.st = "load" /\ e.auth = "pass" /\ e.todo = b.todo
      BY <1>1, <3>1 DEF RequestRecords
    <3>3. KeyOf(e) = KeyOf(b) /\ KeysAt(e, keys) = KeysAt(b, keys)
      BY <3>2 DEF KeyOf, KeysAt
    <3>4. AuthOK(e, keys)
      BY <1>4, <2>1, <3>2, <3>3 DEF AuthOK, Holds
    <3>5. Within(e)
      BY <1>2, <3>2 DEF Within
    <3> QED
      BY <3>2, <3>4, <3>5
  <2>2. CASE b.todo \notin KeysAt(b, keys) /\ b.todo < Len(b.host)
    <3>a. PICK n \in Nat : n = b.todo + 1
      BY <1>2
    <3>1. e = [b EXCEPT !.st = "auth", !.todo = n]
      BY <1>0, <1>3, <2>2, <3>a DEF Matched
    <3>2. /\ e \in RequestRecords /\ e.ask = b.ask /\ e.host = b.host
          /\ e.path = b.path /\ e.reply = b.reply /\ e.verdict = b.verdict
          /\ e.st = "auth" /\ e.auth = b.auth /\ e.todo = n
      BY <1>1, <3>1 DEF RequestRecords
    <3>3. KeyOf(e) = KeyOf(b) /\ KeysAt(e, keys) = KeysAt(b, keys)
      BY <3>2 DEF KeyOf, KeysAt
    <3>4. \A i \in KeysAt(b, keys) : i >= n
      <4> SUFFICES ASSUME NEW i \in KeysAt(b, keys) PROVE i >= n
        OBVIOUS
      <4>1. i >= b.todo /\ i # b.todo /\ i \in 1 .. Len(b.host)
        BY <1>4, <1>5, <2>2
      <4> QED
        BY <1>2, <3>a, <4>1
    <3>5. /\ e.auth = "pass" => Holds(e, keys)
          /\ e.auth \in {"miss", "fail"} => ~Holds(e, keys)
      BY <1>1, <3>2, <3>3 DEF ReqOK, AuthOK, Holds
    <3>6. AuthOK(e, keys)
      <4>1. Tried(e, keys)
        BY <1>2, <3>a, <3>2, <3>3, <3>4 DEF Tried
      <4> QED
        BY <1>4, <3>2, <3>3, <3>5, <4>1 DEF AuthOK
    <3>7. Within(e)
      BY <1>2, <2>2, <3>2, <3>a DEF Within
    <3> QED
      BY <3>2, <3>6, <3>7
  <2>3. CASE b.todo \notin KeysAt(b, keys) /\ ~(b.todo < Len(b.host))
    <3>1. e = [b EXCEPT !.st = "failed", !.auth = "fail"]
      BY <1>0, <1>3, <2>3 DEF Matched
    <3>2. /\ e \in RequestRecords /\ e.ask = b.ask /\ e.host = b.host
          /\ e.path = b.path /\ e.reply = b.reply /\ e.verdict = b.verdict
          /\ e.st = "failed" /\ e.auth = "fail" /\ e.todo = b.todo
      BY <1>1, <3>1 DEF RequestRecords
    <3>3. KeyOf(e) = KeyOf(b) /\ KeysAt(e, keys) = KeysAt(b, keys)
      BY <3>2 DEF KeyOf, KeysAt
    <3>4. KeysAt(b, keys) = {}
      <4> SUFFICES ASSUME NEW i \in KeysAt(b, keys) PROVE FALSE
        OBVIOUS
      <4>1. i >= b.todo /\ i # b.todo /\ i \in 1 .. Len(b.host)
        BY <1>4, <1>5, <2>3
      <4> QED
        BY <1>2, <2>3, <4>1
    <3>5. AuthOK(e, keys)
      BY <3>2, <3>3, <3>4 DEF AuthOK, Holds
    <3>6. Within(e)
      BY <1>2, <3>2 DEF Within
    <3> QED
      BY <3>2, <3>5, <3>6
  <2> QED
    BY <2>1, <2>2, <2>3
<1>7. UrlOK(e)
  BY <1>4, <1>6 DEF UrlOK
<1>8. ReplyOK(e, keys)
  BY <1>4, <1>6 DEF ReplyOK
<1>9. VerdictOK(e, filter)
  BY <1>4, <1>6, VerdictsAre DEF VerdictOK
<1> QED
  BY <1>6, <1>7, <1>8, <1>9 DEF ReqOK

\* What is left alone as a request is updated.
LEMMA ErrRecord ==
  ASSUME NEW b \in RequestRecords,
         NEW e, e = [b EXCEPT !.st = "failed", !.auth = "err"]
  PROVE  /\ e \in RequestRecords /\ e.ask = b.ask /\ e.host = b.host /\ e.path = b.path
         /\ e.todo = b.todo /\ e.reply = b.reply /\ e.verdict = b.verdict
         /\ e.st = "failed" /\ e.auth = "err"
BY DEF RequestRecords

Loaded(b, f, t, d) == [b EXCEPT !.st = "block", !.flag = f, !.stamp = t, !.doh = d]
DecidedAs(b, v, st) == [b EXCEPT !.verdict = v, !.st = st]
Replied(b, reply) == [b EXCEPT !.st = "done", !.reply = reply]

LEMMA LoadRecord ==
  ASSUME NEW b \in RequestRecords, NEW f \in Flags \cup {<<>>},
         NEW t \in Text \X Text \X Text, NEW d \in BOOLEAN,
         NEW e, e = Loaded(b, f, t, d)
  PROVE  /\ e \in RequestRecords /\ e.ask = b.ask /\ e.host = b.host /\ e.path = b.path
         /\ e.todo = b.todo /\ e.reply = b.reply /\ e.verdict = b.verdict
         /\ e.st = "block" /\ e.auth = b.auth /\ e.flag = f
BY DEF RequestRecords, Loaded

LEMMA DecideRecord ==
  ASSUME NEW b \in RequestRecords, NEW v \in Verdicts, NEW st \in {"failed", "done"},
         NEW e, e = DecidedAs(b, v, st)
  PROVE  /\ e \in RequestRecords /\ e.ask = b.ask /\ e.host = b.host /\ e.path = b.path
         /\ e.todo = b.todo /\ e.reply = b.reply /\ e.verdict = v
         /\ e.st = st /\ e.auth = b.auth /\ e.flag = b.flag
BY DEF RequestRecords, Verdicts, DecidedAs

LEMMA CommandRecord ==
  ASSUME NEW b \in RequestRecords,
         NEW reply \in {"401", "logs", "analytics", "other", "error"},
         NEW e, e = Replied(b, reply)
  PROVE  /\ e \in RequestRecords /\ e.ask = b.ask /\ e.host = b.host /\ e.path = b.path
         /\ e.todo = b.todo /\ e.reply = reply /\ e.verdict = b.verdict
         /\ e.st = "done" /\ e.auth = b.auth
BY DEF RequestRecords, Replied

\* A step that changes nothing but how far a request is, and its outcome, where
\* that says nothing about keys.
LEMMA GenThrowsInv ==
  ASSUME Inv, NEW r \in Requests, GenThrows(r)
  PROVE  Inv'
<1>1. PICK b : b = req[r] /\ b \in RequestRecords /\ ReqOK(b, keys, filter)
  BY DEF Inv
<1>2. PICK e : /\ e = [b EXCEPT !.st = "failed", !.auth = "err"]
               /\ req' = [req EXCEPT ![r] = e]
  BY <1>1 DEF GenThrows, Set
<1>3. /\ e \in RequestRecords /\ e.ask = b.ask /\ e.host = b.host /\ e.path = b.path
      /\ e.todo = b.todo /\ e.reply = b.reply /\ e.verdict = b.verdict
      /\ e.st = "failed" /\ e.auth = "err"
  <2>1. b \in RequestRecords
    BY <1>1
  <2>2. e = [b EXCEPT !.st = "failed", !.auth = "err"]
    BY <1>2
  <2> QED
    BY <2>1, <2>2, ErrRecord
<1>4. b.st = "auth"
  BY <1>1 DEF GenThrows
<1>5. b.verdict = Unblocked /\ b.reply = "" /\ Within(b) /\ UrlOK(b)
  BY <1>1, <1>4 DEF ReqOK, VerdictOK, ReplyOK
<1>6. Within(e) /\ UrlOK(e)
  BY <1>3, <1>4, <1>5 DEF Within, UrlOK
<1>7. ReqOK(e, keys, filter)
  BY <1>3, <1>5, <1>6, VerdictsAre DEF ReqOK, AuthOK, ReplyOK, VerdictOK
<1> QED
  BY <1>2, <1>7, StepOK DEF GenThrows, Inv, MemOK, CacheOK

LEMMA GenInv ==
  ASSUME Inv, NEW r \in Requests, Gen(r)
  PROVE  Inv'
<1> DEFINE k == Kcat(Msgkey(r), Domain(r))
<1>1. req[r].st = "auth" /\ UNCHANGED <<keys, filter, mem, cache>>
  BY DEF Gen
<1>2. MemOK' /\ CacheOK'
  BY <1>1 DEF Inv, MemOK, CacheOK
<1>3. CASE k \in DOMAIN mem
  <2>1. mem[k] = Token(Msgkey(r), Domain(r))
    BY <1>3 DEF Inv, MemOK, Kcat
  <2>2. PICK e : /\ e = Matched(r, Token(Msgkey(r), Domain(r)))
                 /\ req' = [req EXCEPT ![r] = e]
    BY <1>3, <2>1 DEF Gen, Set
  <2>3. ReqOK(e, keys, filter)
    BY <1>1, <2>2, MatchedOK
  <2> QED
    BY <1>1, <1>2, <2>2, <2>3, StepOK
<1>4. CASE k \notin DOMAIN mem
  <2>1. PICK b : b = req[r] /\ b \in RequestRecords /\ ReqOK(b, keys, filter)
    BY DEF Inv
  <2>2. PICK e : e = [b EXCEPT !.st = "proof"] /\ req' = [req EXCEPT ![r] = e]
    BY <1>4, <2>1 DEF Gen, Set
  <2>3. /\ e \in RequestRecords /\ e.ask = b.ask /\ e.host = b.host /\ e.path = b.path
        /\ e.todo = b.todo /\ e.reply = b.reply /\ e.verdict = b.verdict
        /\ e.st = "proof" /\ e.auth = b.auth
    BY <2>1, <2>2 DEF RequestRecords
  <2>4. KeyOf(e) = KeyOf(b) /\ KeysAt(e, keys) = KeysAt(b, keys)
    BY <2>3 DEF KeyOf, KeysAt
  <2>5. Within(e) /\ (Tried(e, keys) <=> Tried(b, keys))
    BY <2>1, <2>3, <2>4 DEF Within, Tried, ReqOK
  <2>6. b.st = "auth" /\ AuthOK(b, keys) /\ UrlOK(b) /\ b.verdict = Unblocked /\ b.reply = ""
    BY <1>1, <2>1 DEF ReqOK, VerdictOK, ReplyOK
  <2>7. AuthOK(e, keys)
    BY <2>3, <2>4, <2>5, <2>6 DEF AuthOK, Holds
  <2>8. ReqOK(e, keys, filter)
    BY <2>3, <2>5, <2>6, <2>7, VerdictsAre DEF ReqOK, UrlOK, ReplyOK, VerdictOK
  <2> QED
    BY <1>1, <1>2, <2>2, <2>8, StepOK
<1> QED
  BY <1>3, <1>4

LEMMA ProofInv ==
  ASSUME Inv, NEW r \in Requests, Proof(r)
  PROVE  Inv'
<1> DEFINE k == Kcat(Msgkey(r), Domain(r))
           tok == Token(Msgkey(r), Domain(r))
<1>1. req[r].st = "proof" /\ UNCHANGED <<keys, filter, cache>> /\ mem' \in Put(mem, k, tok, MemSize)
  BY DEF Proof
<1>2. PICK e : e = Matched(r, tok) /\ req' = [req EXCEPT ![r] = e]
  BY DEF Proof, Set
<1>3. ReqOK(e, keys, filter)
  BY <1>1, <1>2, MatchedOK
<1>4. tok = Token(k[1], k[2])
  BY DEF Kcat
<1>5. MemOK'
  <2> HIDE DEF k, tok
  <2>1. MemSize \in Nat \ {0}
    BY UsersAssumption
  <2>2. /\ IsFiniteSet(DOMAIN mem) /\ Cardinality(DOMAIN mem) <= MemSize
        /\ \A x \in DOMAIN mem : mem[x] = Token(x[1], x[2])
    BY DEF Inv, MemOK
  <2>3. PICK m : m = mem'
    OBVIOUS
  <2>4. m \in Put(mem, k, tok, MemSize)
    BY <1>1, <2>3
  <2>5. /\ IsFiniteSet(DOMAIN m) /\ Cardinality(DOMAIN m) <= MemSize
        /\ \A x \in DOMAIN m : (x = k /\ m[x] = tok) \/ (x \in DOMAIN mem /\ m[x] = mem[x])
    BY <2>1, <2>2, <2>4, PutIs
  <2>6. \A x \in DOMAIN m : m[x] = Token(x[1], x[2])
    BY <1>4, <2>2, <2>5
  <2> QED
    BY <2>3, <2>5, <2>6 DEF MemOK
<1>6. CacheOK'
  BY <1>1 DEF Inv, CacheOK
<1> QED
  BY <1>1, <1>2, <1>3, <1>5, <1>6, StepOK

LEMMA LoadUserInv ==
  ASSUME Inv, NEW r \in Requests, LoadUser(r)
  PROVE  Inv'
<1>1. PICK b : b = req[r] /\ b \in RequestRecords /\ ReqOK(b, keys, filter)
  BY DEF Inv
<1>2. PICK s : s = BlockstampFromUrl(b.host, b.path)
  OBVIOUS
<1>3. /\ s \in Text \X Text \X Text /\ NoStamp \in Text \X Text \X Text
      /\ Unstamp(s) \in Flags \cup {<<>>} /\ Unstamp(NoStamp) = <<>>
  BY <1>2, StampType
<1>4. PICK f : f = Unstamp(s)
  OBVIOUS
<1>5. f = IF s \in DOMAIN cache THEN cache[s]
          ELSE IF s = NoStamp THEN <<>> ELSE Unstamp(s)
  BY <1>3, <1>4 DEF Inv, CacheOK
<1>6. PICK d \in BOOLEAN : d = (/\ b.ask.names # <<>>
                               /\ b.ask.names[1] \in Delegated)
  OBVIOUS
<1>7. PICK t : t = IF f = <<>> THEN NoStamp ELSE s
  OBVIOUS
<1>8. PICK e : /\ e = [b EXCEPT !.st = "block", !.flag = f, !.stamp = t, !.doh = d]
               /\ req' = [req EXCEPT ![r] = e]
  BY <1>1, <1>2, <1>5, <1>6, <1>7 DEF LoadUser, CacheKey, Set
<1>9. /\ b.st = "load"
      /\ cache' \in IF s \notin DOMAIN cache /\ f # <<>> THEN Put(cache, s, f, CacheSize)
                    ELSE {cache}
      /\ UNCHANGED <<keys, filter, mem>>
  BY <1>1, <1>2, <1>5 DEF LoadUser, CacheKey
<1>10. t \in Text \X Text \X Text /\ f \in Flags \cup {<<>>}
  BY <1>3, <1>4, <1>7
<1>11. /\ e \in RequestRecords /\ e.ask = b.ask /\ e.host = b.host /\ e.path = b.path
       /\ e.todo = b.todo /\ e.reply = b.reply /\ e.verdict = b.verdict
       /\ e.st = "block" /\ e.auth = b.auth /\ e.flag = f
  <2>1. b \in RequestRecords /\ d \in BOOLEAN
    BY <1>1, <1>6
  <2>2. e = Loaded(b, f, t, d)
    BY <1>8 DEF Loaded
  <2> QED
    BY <1>10, <2>1, <2>2, LoadRecord
<1>12. ReqOK(e, keys, filter)
  <2>1. KeyOf(e) = KeyOf(b) /\ KeysAt(e, keys) = KeysAt(b, keys) /\ Sent(e) = f
    BY <1>2, <1>4, <1>11 DEF KeyOf, KeysAt, Sent
  <2>2. Within(e)
    BY <1>1, <1>11 DEF Within, ReqOK
  <2>3. AuthOK(b, keys) /\ UrlOK(b) /\ b.verdict = Unblocked /\ b.reply = ""
    BY <1>1, <1>9 DEF ReqOK, VerdictOK, ReplyOK
  <2>4. AuthOK(e, keys)
    BY <1>9, <1>11, <2>1, <2>3 DEF AuthOK, Holds
  <2> QED
    BY <1>9, <1>11, <2>1, <2>2, <2>3, <2>4, VerdictsAre
    DEF ReqOK, UrlOK, ReplyOK, VerdictOK
<1>13. CacheOK'
  <2>1. CASE s \notin DOMAIN cache /\ f # <<>>
    <3>1. CacheSize \in Nat \ {0}
      BY UsersAssumption
    <3>2. /\ IsFiniteSet(DOMAIN cache) /\ Cardinality(DOMAIN cache) <= CacheSize
          /\ \A x \in DOMAIN cache : cache[x] = Unstamp(x) /\ cache[x] # <<>>
      BY DEF Inv, CacheOK
    <3>3. PICK c : c = cache'
      OBVIOUS
    <3>4. c \in Put(cache, s, f, CacheSize)
      BY <1>9, <2>1, <3>3
    <3>5. /\ IsFiniteSet(DOMAIN c) /\ Cardinality(DOMAIN c) <= CacheSize
          /\ \A x \in DOMAIN c : (x = s /\ c[x] = f) \/ (x \in DOMAIN cache /\ c[x] = cache[x])
      BY <3>1, <3>2, <3>4, PutIs
    <3>6. \A x \in DOMAIN c : c[x] = Unstamp(x) /\ c[x] # <<>>
      BY <1>4, <2>1, <3>2, <3>5
    <3> QED
      BY <3>3, <3>5, <3>6 DEF CacheOK
  <2>2. CASE ~(s \notin DOMAIN cache /\ f # <<>>)
    <3>1. cache' = cache
      BY <1>9, <2>2
    <3> QED
      BY <3>1 DEF Inv, CacheOK
  <2> QED
    BY <2>1, <2>2
<1> QED
  BY <1>8, <1>9, <1>12, <1>13, StepOK DEF Inv, MemOK
\* What a block() of either kind goes by: some names, the first of them or all.
LEMMA NamesOf ==
  ASSUME NEW ask \in Asks
  PROVE  /\ ask.names \in Seq(Seq(Text))
         /\ ask.names # <<>> => /\ 1 \in DOMAIN ask.names
                                /\ <<ask.names[1]>> \in Seq(Seq(Text))
<1>1. ask.names \in Seq(Seq(Text))
  BY UsersAssumption
<1>2. ASSUME ask.names # <<>>
      PROVE  1 \in DOMAIN ask.names /\ ask.names[1] \in Seq(Text)
  BY <1>1, <1>2
<1> QED
  BY <1>1, <1>2

\* The blocker decides with the flag that the request sent.
LEMMA DueType ==
  ASSUME NEW b \in RequestRecords, NEW filt \in Filters
  PROVE  Due(b, filt) \in Verdicts
<1>1. b.ask \in Asks /\ b.flag \in Flags \cup {<<>>}
  BY DEF RequestRecords
<1>2. ASSUME NEW names \in Seq(Seq(Text)), b.flag # <<>>
      PROVE  Block(names, b.flag, StampsOf(filt, names)) \in Verdicts
  <2>1. \A n \in DOMAIN StampsOf(filt, names) : StampsOf(filt, names)[n] \in Flags
    BY StampsOfIs
  <2>2. b.flag \in Flags
    BY <1>1, <1>2
  <2> QED
    BY <2>1, <2>2, BlockType
<1>3. BlockQuestion(filt, b.ask, b.flag) \in Verdicts
  BY <1>1, <1>2, NamesOf, VerdictsAre DEF BlockQuestion, IsQueryBlockable
<1>4. BlockAnswer(filt, b.ask, b.flag) \in Verdicts
  BY <1>1, <1>2, NamesOf, VerdictsAre DEF BlockAnswer
<1> QED
  BY <1>3, <1>4 DEF Due, Decision

LEMMA DecideInv ==
  ASSUME Inv, NEW r \in Requests, Decide(r)
  PROVE  Inv'
<1>1. PICK b : b = req[r] /\ b \in RequestRecords /\ ReqOK(b, keys, filter)
  BY DEF Inv
<1>2. PICK v : v = Due(b, filter)
  OBVIOUS
<1>3. v \in Verdicts
  BY <1>1, <1>2, DueType DEF Inv
<1>4. PICK st : st = IF v.thrown THEN "failed" ELSE "done"
  OBVIOUS
<1>5. PICK e : /\ e = [b EXCEPT !.verdict = v, !.st = st]
               /\ req' = [req EXCEPT ![r] = e]
  BY <1>1, <1>2, <1>4 DEF Decide, Due, Set
<1>6. st \in {"failed", "done"}
  BY <1>4
<1>7. /\ e \in RequestRecords /\ e.ask = b.ask /\ e.host = b.host /\ e.path = b.path
      /\ e.todo = b.todo /\ e.reply = b.reply /\ e.verdict = v
      /\ e.st = st /\ e.auth = b.auth /\ e.flag = b.flag
  <2>1. b \in RequestRecords
    BY <1>1
  <2>2. e = DecidedAs(b, v, st)
    BY <1>5 DEF DecidedAs
  <2> QED
    BY <1>3, <1>6, <2>1, <2>2, DecideRecord
<1>8. b.st = "block"
  BY <1>1 DEF Decide
<1>9. KeyOf(e) = KeyOf(b) /\ KeysAt(e, keys) = KeysAt(b, keys) /\ Sent(e) = Sent(b)
      /\ Due(e, filter) = Due(b, filter)
  BY <1>7 DEF KeyOf, KeysAt, Sent, Due
<1>10. Within(e)
  BY <1>1, <1>7 DEF Within, ReqOK
<1>11. UrlOK(e)
  BY <1>1, <1>7, <1>8 DEF UrlOK, ReqOK
<1>12. b.reply = "" /\ b.flag = Sent(b) /\ AuthOK(b, keys)
  BY <1>1, <1>8 DEF ReqOK, ReplyOK, VerdictOK
<1>13. ReplyOK(e, keys)
  BY <1>7, <1>12 DEF ReplyOK
<1>14. AuthOK(e, keys)
  BY <1>6, <1>7, <1>8, <1>9, <1>12 DEF AuthOK, Holds
<1>15. VerdictOK(e, filter)
  BY <1>2, <1>6, <1>7, <1>9, <1>12 DEF VerdictOK
<1>16. ReqOK(e, keys, filter)
  BY <1>7, <1>10, <1>11, <1>13, <1>14, <1>15 DEF ReqOK
<1> QED
  BY <1>5, <1>16, StepOK DEF Decide, Inv, MemOK, CacheOK

LEMMA CommandInv ==
  ASSUME Inv, NEW r \in Requests, Command(r)
  PROVE  Inv'
<1>1. PICK b : b = req[r] /\ b \in RequestRecords /\ ReqOK(b, keys, filter)
  BY DEF Inv
<1>2. b.st = "load" /\ b.ask.door = "command"
  BY <1>1 DEF Command
<1>3. PICK reply \in {"401", "logs", "analytics", "other", "error"} :
        /\ req' = [req EXCEPT ![r] = [b EXCEPT !.st = "done", !.reply = reply]]
        /\ reply \in {"logs", "analytics"} => b.auth = "pass" /\ b.ask.lid
  BY <1>1 DEF Command, Set, Authorised
<1>4. PICK e : e = [b EXCEPT !.st = "done", !.reply = reply]
  OBVIOUS
<1>5. /\ e \in RequestRecords /\ e.ask = b.ask /\ e.host = b.host /\ e.path = b.path
      /\ e.todo = b.todo /\ e.reply = reply /\ e.verdict = b.verdict
      /\ e.st = "done" /\ e.auth = b.auth
  <2>1. b \in RequestRecords
    BY <1>1
  <2>2. e = Replied(b, reply)
    BY <1>4 DEF Replied
  <2> QED
    BY <2>1, <2>2, CommandRecord
<1>6. KeyOf(e) = KeyOf(b) /\ KeysAt(e, keys) = KeysAt(b, keys)
  BY <1>5 DEF KeyOf, KeysAt
<1>7. b.verdict = Unblocked /\ AuthOK(b, keys) /\ UrlOK(b) /\ Within(b)
  BY <1>1, <1>2 DEF ReqOK, VerdictOK
<1>8. AuthOK(e, keys)
  BY <1>2, <1>5, <1>6, <1>7 DEF AuthOK, Holds
<1>9. Within(e) /\ UrlOK(e)
  BY <1>2, <1>5, <1>7 DEF Within, UrlOK
<1>10. ReplyOK(e, keys)
  BY <1>3, <1>5, <1>6, <1>7 DEF ReplyOK, AuthOK, Holds
<1>11. VerdictOK(e, filter)
  BY <1>2, <1>5, <1>7 DEF VerdictOK
<1>12. ReqOK(e, keys, filter)
  BY <1>5, <1>8, <1>9, <1>10, <1>11 DEF ReqOK
<1>13. req' = [req EXCEPT ![r] = e]
  BY <1>3, <1>4
<1> QED
  BY <1>12, <1>13, StepOK DEF Command, Inv, MemOK, CacheOK

\* Every step keeps the invariant.
LEMMA StepInv == Inv /\ [Next]_vars => Inv'
<1> SUFFICES ASSUME Inv, [Next]_vars PROVE Inv'
  OBVIOUS
<1>1. CASE UNCHANGED vars
  BY <1>1 DEF vars, Inv, MemOK, CacheOK
<1>2. CASE Next
  <2>1. PICK r \in Requests :
          \/ \E ask \in Asks : Start(r, ask)
          \/ GenThrows(r) \/ Gen(r) \/ Proof(r)
          \/ LoadUser(r) \/ Decide(r) \/ Command(r)
    BY <1>2 DEF Next
  <2>2. CASE \E ask \in Asks : Start(r, ask)
    BY <2>2, StartInv
  <2> QED
    BY <2>1, <2>2, GenThrowsInv, GenInv, ProofInv, LoadUserInv, DecideInv, CommandInv
<1> QED
  BY <1>1, <1>2

LEMMA SpecInv == Spec => []Inv
BY InitInv, StepInv, PTL DEF Spec
-----------------------------------------------------------------------------
\* Type correctness: what a request and the caches may be at any time, the
\* caches never past their size and the domains tried never past the host's.
THEOREM TypeCorrect == Spec => []TypeOK
<1>1. Inv => TypeOK
  BY DEF Inv, TypeOK, MemOK, CacheOK, ReqOK, Within
<1> QED
  BY <1>1, SpecInv, PTL

\* auth(): for any access keys, urls, cache sizes and interleavings, who is let
\* past holds a key and who is refused for the lack of one does not.
THEOREM AuthorisedIfKeyed == Spec => []AuthorisedByKey
<1>1. ASSUME Inv, NEW r \in Requests
      PROVE  /\ req[r].st \in {"load", "block", "done"} => keys = {} \/ HoldsKey(r)
             /\ req[r].auth \in {"miss", "fail"} => ~HoldsKey(r)
             /\ req[r].reply \in {"logs", "analytics"} => HoldsKey(r) /\ req[r].ask.lid
  <2>1. HoldsKey(r) <=> Holds(req[r], keys)
    BY DEF HoldsKey, Holds, KeysAt, KeyOf, Msgkey
  <2> QED
    BY <1>1, <2>1 DEF Inv, ReqOK, AuthOK, ReplyOK
<1>2. Inv => AuthorisedByKey
  BY <1>1 DEF AuthorisedByKey
<1> QED
  BY <1>2, SpecInv, PTL

\* What a decided query was decided on: the flag its user chose.
LEMMA DecidedOnChoice ==
  ASSUME Inv, NEW r \in Requests, Decided(r)
  PROVE  /\ req[r].ask \in Asks /\ req[r].flag = Chosen(r)
         /\ req[r].verdict = Due(req[r], filter)
<1>1. req[r] \in RequestRecords /\ UrlOK(req[r]) /\ VerdictOK(req[r], filter)
  BY DEF Inv, ReqOK
<1>2. req[r].ask \in Asks
  BY <1>1 DEF RequestRecords
<1>3. req[r].st # "new"
  BY <1>1, VerdictsAre DEF Decided, VerdictOK
<1>4. Chosen(r) = Sent(req[r])
  BY <1>1, <1>2, <1>3, ChosenIs DEF UrlOK, Sent
<1> QED
  BY <1>1, <1>2, <1>4 DEF Decided, VerdictOK

\* What a user's block() of some names comes to, by the lists they are on.
ListsOf(filt, user, dn, k) ==
  IF Suffix(dn, k) \in DOMAIN filt THEN Lists(user) \cap Lists(filt[Suffix(dn, k)]) ELSE {}

\* The verdict v is right about the names at the places I.
Right(v, filt, user, names, I) ==
  /\ ~v.thrown
  /\ v.isBlocked <=> \E i \in I : \E k \in DOMAIN names[i] : ListsOf(filt, user, names[i], k) # {}
  /\ v.isBlocked => /\ WellFormed(v.flag)
                    /\ \E i \in I : \E k \in DOMAIN names[i] :
                         Lists(v.flag) = ListsOf(filt, user, names[i], k)

LEMMA BlockRight ==
  ASSUME NEW filt \in Filters, NEW user, WellFormed(user), NEW names \in Seq(Seq(Text)),
         NEW v, v = Block(names, user, StampsOf(filt, names))
  PROVE  Right(v, filt, user, names, DOMAIN names)
<1> DEFINE stamps == StampsOf(filt, names)
<1>1. \A n \in DOMAIN stamps : WellFormed(stamps[n])
  BY StampsOfIs
<1>2. \A i \in DOMAIN names : \A k \in DOMAIN names[i] :
        On(names[i], user, stamps, k) = ListsOf(filt, user, names[i], k)
  BY StampsOfIs DEF ListsOf
<1> HIDE DEF stamps
<1>3. /\ ~v.thrown
      /\ v.isBlocked <=> \E i \in DOMAIN names : \E k \in DOMAIN names[i] :
                           On(names[i], user, stamps, k) # {}
      /\ v.isBlocked => /\ WellFormed(v.flag)
                        /\ \E i \in DOMAIN names : \E k \in DOMAIN names[i] :
                             Lists(v.flag) = On(names[i], user, stamps, k)
  BY <1>1, BlockSound DEF stamps
<1> QED
  BY <1>2, <1>3 DEF Right

\* A request without a flag has nothing blocked.
LEMMA UnblockedRight ==
  ASSUME NEW filt, NEW user, NEW names, NEW I,
         user = <<>> \/ I = {}
  PROVE  Right(Unblocked, filt, user, names, I)
<1>1. \A i \in I : \A k \in DOMAIN names[i] : ListsOf(filt, user, names[i], k) = {}
  BY DEF ListsOf, Lists
<1> QED
  BY <1>1, VerdictsAre DEF Right

AskedAt(ask) == {i \in {1} : IsQueryBlockable(ask)}
MetAt(ask) ==
  {i \in DOMAIN ask.names : IsAnswerBlockable(ask) /\ ~IsAnswerQuad0(ask)}

LEMMA QuestionRight ==
  ASSUME NEW filt \in Filters, NEW ask \in Asks, NEW user, user = <<>> \/ WellFormed(user)
  PROVE  Right(BlockQuestion(filt, ask, user), filt, user, ask.names, AskedAt(ask))
<1> DEFINE name == <<ask.names[1]>>
<1>1. CASE user = <<>> \/ ~IsQueryBlockable(ask)
  <2>1. BlockQuestion(filt, ask, user) = Unblocked
    BY <1>1 DEF BlockQuestion
  <2>2. user = <<>> \/ AskedAt(ask) = {}
    BY <1>1 DEF AskedAt
  <2> QED
    BY <2>1, <2>2, UnblockedRight
<1>2. CASE user # <<>> /\ IsQueryBlockable(ask)
  <2>1. name \in Seq(Seq(Text))
    BY <1>2, NamesOf DEF IsQueryBlockable
  <2>2. BlockQuestion(filt, ask, user) = Block(name, user, StampsOf(filt, name))
    BY <1>2 DEF BlockQuestion
  <2>3. DOMAIN name = {1} /\ name[1] = ask.names[1] /\ AskedAt(ask) = {1}
    BY <1>2 DEF AskedAt
  <2> HIDE DEF name
  <2>4. WellFormed(user)
    BY <1>2
  <2>5. PICK v : v = Block(name, user, StampsOf(filt, name))
    OBVIOUS
  <2>6. Right(v, filt, user, name, DOMAIN name)
    BY <2>1, <2>4, <2>5, BlockRight
  <2>7. Right(v, filt, user, ask.names, {1})
    BY <2>3, <2>6 DEF Right
  <2> QED
    BY <2>2, <2>3, <2>5, <2>7
<1> QED
  BY <1>1, <1>2

LEMMA AnswerRight ==
  ASSUME NEW filt \in Filters, NEW ask \in Asks, NEW user, user = <<>> \/ WellFormed(user)
  PROVE  Right(BlockAnswer(filt, ask, user), filt, user, ask.names, MetAt(ask))
<1>1. CASE user = <<>> \/ ~IsAnswerBlockable(ask) \/ IsAnswerQuad0(ask)
  <2>1. BlockAnswer(filt, ask, user) = Unblocked
    BY <1>1 DEF BlockAnswer
  <2>2. user = <<>> \/ MetAt(ask) = {}
    BY <1>1 DEF MetAt
  <2> QED
    BY <2>1, <2>2, UnblockedRight
<1>2. CASE user # <<>> /\ IsAnswerBlockable(ask) /\ ~IsAnswerQuad0(ask)
  <2>1. BlockAnswer(filt, ask, user) = Block(ask.names, user, StampsOf(filt, ask.names))
    BY <1>2 DEF BlockAnswer
  <2>2. MetAt(ask) = DOMAIN ask.names /\ WellFormed(user)
    BY <1>2 DEF MetAt
  <2>3. ask.names \in Seq(Seq(Text))
    BY NamesOf
  <2> QED
    BY <2>1, <2>2, <2>3, BlockRight
<1> QED
  BY <1>1, <1>2

\* Both together: it does not matter that the question's name is gone through
\* first and, if it is not blocked for that, once more with the answer's.
LEMMA DecisionRight ==
  ASSUME NEW filt \in Filters, NEW ask \in Asks, NEW user, user = <<>> \/ WellFormed(user)
  PROVE  Right(Decision(filt, ask, user), filt, user, ask.names, AskedAt(ask) \cup MetAt(ask))
<1>1. PICK q : q = BlockQuestion(filt, ask, user)
  OBVIOUS
<1>2. PICK a : a = BlockAnswer(filt, ask, user)
  OBVIOUS
<1>3. PICK v : v = Decision(filt, ask, user)
  OBVIOUS
<1>4. v = IF q.thrown \/ q.isBlocked THEN q ELSE a
  BY <1>1, <1>2, <1>3 DEF Decision
<1>5. Right(q, filt, user, ask.names, AskedAt(ask))
  BY <1>1, QuestionRight
<1>6. Right(a, filt, user, ask.names, MetAt(ask))
  BY <1>2, AnswerRight
<1>7. CASE q.isBlocked
  <2>1. v = q
    BY <1>4, <1>7
  <2> QED
    BY <1>3, <1>5, <1>7, <2>1 DEF Right
<1>8. CASE ~q.isBlocked
  <2>1. v = a
    BY <1>4, <1>5, <1>8 DEF Right
  <2> QED
    BY <1>3, <1>5, <1>6, <1>8, <2>1 DEF Right
<1> QED
  BY <1>7, <1>8

\* Both properties of decided queries.
LEMMA DecidedSound ==
  ASSUME Inv, NEW r \in Requests, Decided(r)
  PROVE  /\ ~req[r].verdict.thrown
         /\ req[r].verdict.isBlocked <=>
              \E i \in Answerable(r) :
                \E k \in DOMAIN req[r].ask.names[i] : ListsOn(r, i, k) # {}
         /\ req[r].verdict.isBlocked =>
              /\ WellFormed(req[r].verdict.flag)
              /\ \E i \in Answerable(r) :
                   \E k \in DOMAIN req[r].ask.names[i] :
                     Lists(req[r].verdict.flag) = ListsOn(r, i, k)
<1>1. PICK ask : ask = req[r].ask
  OBVIOUS
<1>2. PICK user : user = req[r].flag
  OBVIOUS
<1>3. PICK v : v = req[r].verdict
  OBVIOUS
<1>4. ask \in Asks /\ user = Chosen(r) /\ v = Decision(filter, ask, user)
  BY <1>1, <1>2, <1>3, DecidedOnChoice DEF Due
<1>5. filter \in Filters /\ (user = <<>> \/ WellFormed(user))
  BY <1>4 DEF Inv, Decided
<1>6. Right(v, filter, user, ask.names, AskedAt(ask) \cup MetAt(ask))
  BY <1>4, <1>5, DecisionRight
<1>7. AskedAt(ask) \cup MetAt(ask) = Answerable(r)
  <2>1. ask.names # <<>> <=> 1 \in DOMAIN ask.names
    BY <1>4, NamesOf
  <2> QED
    BY <1>1, <2>1 DEF Answerable, AskedAt, MetAt, IsQueryBlockable, IsAnswerBlockable,
         IsAnswerQuad0, IpTypes, AliasTypes
<1>8. \A i, k : ListsOf(filter, user, ask.names[i], k) = ListsOn(r, i, k)
  BY <1>1, <1>4 DEF ListsOf, ListsOn
<1> QED
  BY <1>1, <1>3, <1>6, <1>7, <1>8 DEF Right

\* The blocker: for any stamps, blocklist filters, names and cache sizes, a query
\* is blocked exactly if a list that its own user chose has a name in it, of those
\* that a query of its type and an answer that begins as its does may be blocked for.
THEOREM BlockedIfChosen == Spec => []BlockedByChoice
<1>1. Inv => BlockedByChoice
  BY DecidedSound DEF BlockedByChoice
<1> QED
  BY <1>1, SpecInv, PTL

\* intersect(), as the blocker uses it: the flag of a blocked query names exactly
\* the lists it is blocked for.
THEOREM TellsExactlyWhichLists == Spec => []TellsWhichLists
<1>1. Inv => TellsWhichLists
  BY DecidedSound DEF TellsWhichLists
<1> QED
  BY <1>1, SpecInv, PTL
=============================================================================
