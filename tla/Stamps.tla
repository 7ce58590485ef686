------------------------------- MODULE Stamps -------------------------------
(***************************************************************************)
(* Blocklist stamps (src/plugins/rdns-util.js): where a url carries one,   *)
(* what it decodes to, and how it decides on a name.  All of it is free of *)
(* state.                                                                  *)
(*                                                                         *)
(* A flag is an array of words, a word the set of its bits.  Its first     *)
(* word, the header, has a bit for each word that follows, the highest     *)
(* first; bit b of the word for header bit p stands for one blocklist.     *)
(* Names, hosts and paths are sequences of labels.  A label that is a      *)
(* stamp is a name here, too, of which Stamp tells the fields.             *)
(***************************************************************************)
EXTENDS Naturals, Sequences, FiniteSets

CONSTANTS
  Text,          \* what labels, and the fields of stamps, may be
  Width,         \* bits of a word: 16
  Stamp,         \* label -> [delim, fields], of those isStampQuery() accepts
  Recommended,   \* recBlockstamps in their order, <<name, stamp>> each
  LegacyHosts,   \* hosts with free.bravedns in them
  Decoded,       \* delimiter -> (text -> flag), of the texts that decode
  EnvBlockSubdomains   \* BLOCK_SUBDOMAINS

Bits == 0 .. Width - 1
Flags == {f \in Seq(SUBSET Bits) : f # <<>>}

ASSUME StampsAssumption ==
  /\ {"", "rec"} \in SUBSET Text
  /\ Width \in Nat \ {0}
  /\ \A l \in DOMAIN Stamp :
       /\ Stamp[l].delim \in DOMAIN Decoded
       /\ Stamp[l].fields \in Seq(Text)
  /\ "" \notin DOMAIN Stamp
  /\ DOMAIN Decoded \in SUBSET Text
  /\ \A d \in DOMAIN Decoded :
       /\ "" \notin DOMAIN Decoded[d]
       /\ \A t \in DOMAIN Decoded[d] : Decoded[d][t] \in Flags
  /\ Recommended \in Seq(Text \X Text)
  /\ EnvBlockSubdomains \in BOOLEAN

Least(S) == CHOOSE n \in S : \A m \in S : n <= m

\* intersect()'s i and j, from 1 on, as the loop comes to header bit p: it has
\* counted down from the last word, one for each bit of the header before p.
Word(f, p) == Len(f) - Cardinality({q \in f[1] : q < p})

\* The bits both headers have.
Common(f, g) == IF f = <<>> \/ g = <<>> THEN {} ELSE f[1] \cap g[1]

\* "blockstamp header/body mismatch": counted down past the header.  A flag
\* that is short by one word has its header taken for the word instead.
Mismatch(f, g) == \E p \in Common(f, g) : Word(f, p) < 1 \/ Word(g, p) < 1

CommonFlags(f, g, p) == f[Word(f, p)] \cap g[Word(g, p)]

CommonHeader(f, g) == {p \in Common(f, g) : CommonFlags(f, g, p) # {}}

\* Slip: the body is left as the loop made it, lowest header bit first.
CommonBodyUnreversed(f, g) ==
  LET h == CommonHeader(f, g)
  IN  [k \in 1 .. Cardinality(h) |->
        CommonFlags(f, g, CHOOSE p \in h : Cardinality({q \in h : q < p}) = k - 1)]

\* The words for the bits of the common header, that of the highest bit first.
CommonBody(f, g) ==
  LET h == CommonHeader(f, g)
  IN  [k \in 1 .. Cardinality(h) |->
        CommonFlags(f, g, CHOOSE p \in h :
                            Cardinality({q \in h : q < p}) = Cardinality(h) - k)]

\* intersect(), where it does not throw; <<>> stands for null.
Intersect(f, g) ==
  IF CommonHeader(f, g) = {} THEN <<>>
  ELSE <<CommonHeader(f, g)>> \o CommonBody(f, g)
-----------------------------------------------------------------------------
Unblocked == [isBlocked |-> FALSE, thrown |-> FALSE, flag |-> <<>>]
Thrown == [isBlocked |-> FALSE, thrown |-> TRUE, flag |-> <<>>]
Blocked(flag) == [isBlocked |-> TRUE, thrown |-> FALSE, flag |-> flag]

\* applyBlocklists().
ApplyBlocklists(user, listed) ==
  IF Mismatch(user, listed) THEN Thrown
  ELSE IF Intersect(user, listed) = <<>> THEN Unblocked
  ELSE Blocked(Intersect(user, listed))

\* The name without its first k - 1 labels.
Suffix(dn, k) == SubSeq(dn, k, Len(dn))

\* The rounds of the loop that find the name, or a domain it is in, on a list.
SuffixesListed(dn, stamps) ==
  {k \in 1 .. Len(dn) : Suffix(dn, k) \in DOMAIN stamps}

\* applyWildcardBlocklists(): the first round that blocks (or fails) decides.
ApplyWildcardBlocklists(dn, user, stamps) ==
  LET hits == {k \in SuffixesListed(dn, stamps) :
                 ApplyBlocklists(user, stamps[Suffix(dn, k)]) # Unblocked}
  IN  IF hits = {} THEN Unblocked
      ELSE ApplyBlocklists(user, stamps[Suffix(dn, Least(hits))])

\* envutil's blockSubdomains(): what it reads, "or" true.
BlockSubdomains == EnvBlockSubdomains \/ TRUE

DoBlock(dn, user, stamps) ==
  IF BlockSubdomains THEN ApplyWildcardBlocklists(dn, user, stamps)
  ELSE IF dn \in DOMAIN stamps THEN ApplyBlocklists(user, stamps[dn])
  ELSE Unblocked

\* DnsBlocker's block(): the first of the names that is blocked (or fails).
Block(names, user, stamps) ==
  LET hits == {i \in DOMAIN names : DoBlock(names[i], user, stamps) # Unblocked}
  IN  IF hits = {} THEN Unblocked ELSE DoBlock(names[Least(hits)], user, stamps)

\* blockstampFromBlocklistFilter(): what the filter has on the names and on
\* the domains they are in.
StampsOf(filter, names) ==
  [n \in {n \in DOMAIN filter : \E i \in DOMAIN names :
            \E k \in 1 .. Len(names[i]) : n = Suffix(names[i], k)} |-> filter[n]]
-----------------------------------------------------------------------------
StampsAt(labels) == {i \in DOMAIN labels : labels[i] \in DOMAIN Stamp}

\* "The first occurence".
FirstStamp(labels) == labels[Least(StampsAt(labels))]

\* recBlockstampFrom(): a name anywhere in the path or first in the host.  For
\* legacy endpoints it returns the name, not the stamp.
RecBlockstampFrom(host, path) ==
  LET named == {i \in DOMAIN Recommended :
                  \/ \E j \in DOMAIN path : path[j] = Recommended[i][1]
                  \/ Len(host) > 1 /\ host[1] = Recommended[i][1]}
  IN  IF host \in LegacyHosts THEN "rec"
      ELSE IF named = {} THEN "" ELSE Recommended[Least(named)][2]

\* extractStamps(): the stamp in the path, or that in the host, or else the
\* recommended one that is named.
Extract(host, path) ==
  IF StampsAt(path) # {} THEN FirstStamp(path)
  ELSE IF StampsAt(host) # {} THEN FirstStamp(host)
  ELSE RecBlockstampFrom(host, path)

\* splitBlockstamp(): [delim, fields], the fields being the version, the text
\* and the message key, of which the last ones may be missing.
Split(label) ==
  IF label \in DOMAIN Stamp THEN Stamp[label] ELSE [delim |-> "", fields |-> <<>>]

Field(label, i) ==
  IF i \in DOMAIN Split(label).fields THEN Split(label).fields[i] ELSE ""

NoStamp == <<"", "", "">>

BlockstampFromUrl(host, path) ==
  LET l == Extract(host, path)
  IN  IF Field(l, 1) = "" \/ Field(l, 2) = "" THEN NoStamp
      ELSE <<Split(l).delim, Field(l, 1), Field(l, 2)>>

MsgkeyFromUrl(host, path) == Field(Extract(host, path), 3)

\* unstamp(): version 1 only, as that for version 0 decodes the "0".  What does
\* not decode throws or is null, which makes no difference to loadUser().
Unstamp(stamp) ==
  IF stamp[2] = "1" /\ stamp[3] \in DOMAIN Decoded[stamp[1]]
  THEN Decoded[stamp[1]][stamp[3]] ELSE <<>>
-----------------------------------------------------------------------------
\* What a flag means: the blocklists it has, by header bit and bit.
Lists(f) ==
  IF f = <<>> THEN {}
  ELSE {l \in f[1] \X Bits : l[2] \in f[Word(f, l[1])]}

\* As many words as the header says.
WellFormed(f) == f \in Flags /\ Len(f) = 1 + Cardinality(f[1])
=============================================================================
