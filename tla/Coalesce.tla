------------------------------ MODULE Coalesce ------------------------------
(***************************************************************************)
(* The plain-DNS half of DNSResolver (src/plugins/dns-op/resolver.js):     *)
(* resolveDnsUpstream() when no DoH upstream is configured, and what       *)
(* resolveDns() makes of its result.  Requests for the same question meet  *)
(* on an ephemeral event of the bus.  The first one creates the event and  *)
(* queries upstream; those that come while it does wait for its parcel,    *)
(* and query upstream themselves if it does not come in time.              *)
(*                                                                         *)
(* An answer is represented by the request upstream answered with it: its  *)
(* question and its DNS query id are that request's.  A packet here has    *)
(* more in it than makeId() looks at: the class of a question, the         *)
(* checking-disabled flag and the EDNS options upstream sees, the id does  *)
(* not.                                                                    *)
(***************************************************************************)
EXTENDS EventBus

CONSTANTS
  Requests,      \* requests, each with a query id of its own
  Packets,       \* possible DNS query packets
  PacketOf,      \* Requests -> Packets
  NormalName,    \* names as spelled -> names trimmed and in lower case
  NoReply, Failure, Nothing

ASSUME RequestsAssumption ==
  /\ PacketOf \in [Requests -> Packets]
  /\ \A p \in Packets :
       /\ DOMAIN p = {"questions", "additionals", "flag_cd"}
       /\ \A i \in 1..Len(p.questions) :
            /\ DOMAIN p.questions[i] = {"name", "type", "class"}
            /\ p.questions[i].name \in DOMAIN NormalName
       /\ \A a \in p.additionals : DOMAIN a = {"flag_do", "options"}
  /\ {NoReply, Failure, Nothing} \cap Requests = {}
  /\ NoReply # Failure /\ NoReply # Nothing /\ Failure # Nothing

HasSingleQuestion(p) == Len(p.questions) = 1

\* Any record of the additional section may carry the flag.
HasDnssecOk(p) == \E a \in p.additionals : a.flag_do

\* Slip: the id leaves the DNSSEC-OK flag out.
MakeIdPlain(p) ==
  IF ~HasSingleQuestion(p) THEN NoEvent
  ELSE <<NormalName[p.questions[1].name], p.questions[1].type, "">>

\* makeId(): the event's name, "name:type" or "name:type:dnssec"; none if the
\* packet does not hold exactly one question.
MakeId(p) ==
  IF ~HasSingleQuestion(p) THEN NoEvent
  ELSE <<NormalName[p.questions[1].name], p.questions[1].type,
         IF HasDnssecOk(p) THEN "dnssec" ELSE "">>

Eid(r) == MakeId(PacketOf[r])

\* Names of fixed events hold no ":", ids of questions do.
ASSUME IdsAssumption ==
  \A p \in Packets : HasSingleQuestion(p) => MakeId(p) \notin StickyEvents \cup Events \cup {NoEvent}

VARIABLES
  pc,       \* where each request's call of resolveDnsUpstream() is
  parcel,   \* what the event's parcel brought it, once it is awake
  reply,    \* what resolveDns() returned: an answer, a failure
  elapsed   \* history: the requests whose wait timed out

vars == <<busVars, pc, parcel, reply, elapsed>>

Init ==
  /\ BusInit
  /\ pc = [r \in Requests |-> "new"]
  /\ parcel = [r \in Requests |-> Nothing]
  /\ reply = [r \in Requests |-> NoReply]
  /\ elapsed = {}

\* The requests that hold a query upstream, and so will publish its outcome.
Querying(r) == pc[r] \in {"rejected", "udp", "tcp"}
-----------------------------------------------------------------------------
\* system.when(eid, timeout) joins the wait group of a live event.
ArriveWait(r) ==
  /\ pc[r] = "new"
  /\ Join(Eid(r), r)
  /\ pc' = [pc EXCEPT ![r] = "waiting"]
  /\ UNCHANGED <<parcel, reply, elapsed>>

\* It rejects when there is no such event, having created it...
ArriveFirst(r) ==
  /\ pc[r] = "new"
  /\ Eid(r) # NoEvent /\ ~Live(Eid(r))
  /\ MakeEphemeral(Eid(r))
  /\ pc' = [pc EXCEPT ![r] = "rejected"]
  /\ UNCHANGED <<parcel, reply, elapsed>>

\* Slip: a request need not wait for another one's answer.
ArriveImpatient(r) ==
  /\ pc[r] = "new"
  /\ pc' = [pc EXCEPT ![r] = "rejected"]
  /\ UNCHANGED <<busVars, parcel, reply, elapsed>>

\* ...or when the packet has no id.
ArriveAlone(r) ==
  /\ pc[r] = "new"
  /\ Eid(r) = NoEvent
  /\ pc' = [pc EXCEPT ![r] = "rejected"]
  /\ UNCHANGED <<busVars, parcel, reply, elapsed>>

\* Slip: who times out is given a failure before it asks upstream itself.
ElapseFails(r) ==
  /\ pc[r] = "waiting"
  /\ pc' = [pc EXCEPT ![r] = "rejected"]
  /\ elapsed' = elapsed \cup {r}
  /\ reply' = [reply EXCEPT ![r] = Failure]
  /\ UNCHANGED <<busVars, parcel>>

\* It also rejects on timeout; the fulfiller is left in the wait group.
Elapse(r) ==
  /\ pc[r] = "waiting"
  /\ pc' = [pc EXCEPT ![r] = "rejected"]
  /\ elapsed' = elapsed \cup {r}
  /\ UNCHANGED <<busVars, parcel, reply>>

\* catch (reason): "not coalesced", go to upstream.
QueryUdp(r) ==
  /\ pc[r] = "rejected"
  /\ pc' = [pc EXCEPT ![r] = "udp"]
  /\ UNCHANGED <<busVars, parcel, reply, elapsed>>

\* The datagram that came back was truncated.
RetryTcp(r) ==
  /\ pc[r] = "udp"
  /\ pc' = [pc EXCEPT ![r] = "tcp"]
  /\ UNCHANGED <<busVars, parcel, reply, elapsed>>

\* The query is over: with an answer, with none (the transport gives null on
\* timeouts and errors) or with an exception.  Whichever, pub() is next; it
\* fulfills the waiters, whose continuations run once this one is through.
\* resolveDns() throws on a 503 as it does on a rejection.
Finish(r, ans) ==
  /\ pc[r] \in {"udp", "tcp"}
  /\ Pub(Eid(r), ans)
  /\ LET woken == {w \in Awaiters(Eid(r)) : pc[w] = "waiting"} IN
     /\ pc' = [w \in Requests |-> IF w = r THEN "done"
                                  ELSE IF w \in woken THEN "woken" ELSE pc[w]]
     /\ parcel' = [w \in Requests |-> IF w \in woken THEN ans ELSE parcel[w]]
  /\ reply' = [reply EXCEPT ![r] = IF ans = Nothing THEN Failure ELSE ans]
  /\ UNCHANGED elapsed

Answered(r) == Finish(r, r)

\* Slip: a query that fails is not published.
UnansweredUntold(r) ==
  /\ pc[r] \in {"udp", "tcp"}
  /\ pc' = [pc EXCEPT ![r] = "done"]
  /\ reply' = [reply EXCEPT ![r] = Failure]
  /\ UNCHANGED <<busVars, parcel, elapsed>>

Unanswered(r) == Finish(r, Nothing)

\* Slips: an empty parcel is taken for an answer, or not for the end of the wait.
ResumeUnchecked(r) ==
  /\ pc[r] = "woken"
  /\ pc' = [pc EXCEPT ![r] = "done"]
  /\ reply' = [reply EXCEPT ![r] = parcel[r]]
  /\ UNCHANGED <<busVars, parcel, elapsed>>

ResumeAnswered(r) == parcel[r] # Nothing /\ ResumeUnchecked(r)

\* "coalesced" or "empty coalesced".
Resume(r) ==
  /\ pc[r] = "woken"
  /\ pc' = [pc EXCEPT ![r] = "done"]
  /\ reply' = [reply EXCEPT ![r] = IF parcel[r] = Nothing THEN Failure ELSE parcel[r]]
  /\ UNCHANGED <<busVars, parcel, elapsed>>

Arrive(r) == ArriveWait(r) \/ ArriveFirst(r) \/ ArriveAlone(r)

Proceed(r) ==
  \/ QueryUdp(r) \/ RetryTcp(r)
  \/ Answered(r) \/ Unanswered(r)
  \/ Resume(r)

Next == \E r \in Requests : Arrive(r) \/ Elapse(r) \/ Proceed(r)

\* The transport settles every query (its timers see to it) and the engine
\* runs every continuation: something of what is pending goes on.  Timeouts of
\* waiters need no fairness: a leader always publishes.  Requests need not come.
Fairness == WF_vars(\E r \in Requests : Proceed(r))

Spec == Init /\ [][Next]_vars /\ Fairness
-----------------------------------------------------------------------------
Ids == {Eid(r) : r \in Requests} \ {NoEvent}

TypeOK ==
  /\ ephemeralEvents \subseteq Ids
  /\ DOMAIN waitGroup \subseteq StickyEvents \cup Events \cup Ids
  /\ waitGroup \in [DOMAIN waitGroup -> SUBSET Requests]
  /\ pc \in [Requests -> {"new", "waiting", "rejected", "udp", "tcp", "woken", "done"}]
  /\ parcel \in [Requests -> Requests \cup {Nothing}]
  /\ reply \in [Requests -> Requests \cup {NoReply, Failure}]
  /\ elapsed \subseteq Requests

\* The callbacks of system.js are of no use here: no one listens, and nothing
\* sticky fires.
BusQuiet ==
  /\ listeners = [e \in DOMAIN waitGroup |-> {}]
  /\ stickyParcels = [e \in {} |-> {}]
  /\ microtasks = <<>>
  /\ DOMAIN waitGroup = StickyEvents \cup Events \cup ephemeralEvents

\* Whoever waits, waits in the group that the next pub of its id will wake.
NoStrandedWaiter ==
  \A r \in Requests :
    pc[r] = "waiting" => Live(Eid(r)) /\ r \in waitGroup[Eid(r)]

\* An event exists only while someone is on the way to publish it: waiters do
\* not depend on their timeouts, and no event outlives its requests.  Many
\* generations of an event may come and go while late queries of timed-out
\* waiters retire generations they have not created.
LeaderInFlight ==
  \A e \in ephemeralEvents : \E r \in Requests : Querying(r) /\ Eid(r) = e

\* Two requests ask for the same records: those of one name, however spelled,
\* of one type, and with or without their signatures.
Identical(r, s) ==
  \/ r = s
  \/ LET p == PacketOf[r]  q == PacketOf[s] IN
     /\ HasSingleQuestion(p) /\ HasSingleQuestion(q)
     /\ NormalName[p.questions[1].name] = NormalName[q.questions[1].name]
     /\ p.questions[1].type = q.questions[1].type
     /\ HasDnssecOk(p) <=> HasDnssecOk(q)

\* No one is given the answer to another name or type than it asked for, nor,
\* with the DNSSEC-OK flag differing, an answer without the signatures it asked
\* for or with some it did not; and a packet with no question or several gets
\* the answer to itself.  It is no promise about the rest of a packet: requests
\* of different classes, checking-disabled flags or EDNS options do share answers.
RepliesToSameQuestion ==
  \A r \in Requests : reply[r] \in Requests => Identical(r, reply[r])

\* Coalescing works: an id has one query upstream at a time, as long as no
\* wait for it timed out.
OneQueryPerQuestion ==
  \A r, s \in Requests :
    /\ Querying(r) /\ Querying(s)
    /\ Eid(r) = Eid(s) /\ Eid(r) # NoEvent
    /\ \A w \in elapsed : Eid(w) # Eid(r)
    => r = s

\* Every request gets a reply.
EveryRequestReplied ==
  \A r \in Requests : pc[r] # "new" ~> reply[r] # NoReply

\* The refinement mapping: this module implements the promise of Resolution.
Promise == INSTANCE Resolution WITH asked <- {r \in Requests : pc[r] # "new"}
ImplementsResolution == Promise!Spec
=============================================================================
