----------------------------- MODULE MCCoalesce -----------------------------
\* An instance of Coalesce for TLC: three requests with one id (enough for a
\* leader, a waiter that times out and the leader of a second generation), of
\* which one spells the name differently and one has all that an id leaves out
\* different; one for the same name and type with the DNSSEC-OK flag; and one
\* whose packet has two questions.
EXTENDS Coalesce

CONSTANTS r1, r2, r3, r4, r5

MCRequests == {r1, r2, r3, r4, r5}

MCNormalName == [n \in {"a.test", "A.TEST"} |-> "a.test"]

Ask(name, class) == [name |-> name, type |-> "A", class |-> class]

Opt(do, options) == [flag_do |-> do, options |-> options]

Packet(questions, additionals, cd) ==
  [questions |-> questions, additionals |-> additionals, flag_cd |-> cd]

MCPacketOf ==
  [r \in MCRequests |->
     CASE r = r1 -> Packet(<<Ask("a.test", "IN")>>, {}, FALSE)
       [] r = r2 -> Packet(<<Ask("A.TEST", "IN")>>, {}, FALSE)
       [] r = r3 -> Packet(<<Ask("a.test", "CH")>>, {Opt(FALSE, {"cookie"})}, TRUE)
       [] r = r4 -> Packet(<<Ask("a.test", "IN")>>, {Opt(TRUE, {})}, FALSE)
       [] r = r5 -> Packet(<<Ask("a.test", "IN"), Ask("a.test", "IN")>>, {}, FALSE)]

MCPackets == {MCPacketOf[r] : r \in MCRequests}
=============================================================================
