--------------------------- MODULE CoalesceProofs ---------------------------
(***************************************************************************)
(* Coalescing is safe for any set of requests and packets: what is         *)
(* checked on five requests in Coalesce.cfg is proved here for all.         *)
(***************************************************************************)
EXTENDS Coalesce, TLAPS

\* The strengthening that makes the invariants inductive: a wait group holds
\* requests of its own id only; a parcel under way answers the same question;
\* a reply has been given exactly by those that are done.
GroupsHoldTheirOwn ==
  \A e \in DOMAIN waitGroup : \A r \in waitGroup[e] : Eid(r) = e /\ e \in Ids

ParcelsToSameQuestion ==
  \A r \in Requests :
    parcel[r] \in Requests => Identical(r, parcel[r]) /\ pc[parcel[r]] # "new"

DoneIsReplied ==
  \A r \in Requests :
    /\ pc[r] = "done" <=> reply[r] # NoReply
    /\ reply[r] \in Requests => pc[reply[r]] # "new"

\* As long as no wait for an id timed out, its event lives while it is queried.
QueriedIsLive ==
  \A r \in Requests :
    Querying(r) /\ Eid(r) # NoEvent /\ (\A w \in elapsed : Eid(w) # Eid(r))
      => Eid(r) \in ephemeralEvents

IInv ==
  /\ TypeOK
  /\ BusQuiet
  /\ GroupsHoldTheirOwn
  /\ NoStrandedWaiter
  /\ LeaderInFlight
  /\ ParcelsToSameQuestion
  /\ RepliesToSameQuestion
  /\ DoneIsReplied
  /\ OneQueryPerQuestion
  /\ QueriedIsLive
-----------------------------------------------------------------------------
\* The ids of two requests agree only if they ask for the same records: makeId()
\* merges names that differ in spelling only, and neither types nor the two
\* values of the DNSSEC-OK flag.
LEMMA IdsTellQuestionsApart ==
  ASSUME NEW r \in Requests, NEW s \in Requests,
         Eid(r) = Eid(s), Eid(r) # NoEvent
  PROVE  Identical(r, s)
<1> DEFINE p == PacketOf[r]  q == PacketOf[s]
<1>1. HasSingleQuestion(p) /\ HasSingleQuestion(q)
  BY DEF Eid, MakeId
<1>2. /\ NormalName[p.questions[1].name] = NormalName[q.questions[1].name]
      /\ p.questions[1].type = q.questions[1].type
      /\ (IF HasDnssecOk(p) THEN "dnssec" ELSE "") = (IF HasDnssecOk(q) THEN "dnssec" ELSE "")
  BY <1>1 DEF Eid, MakeId
<1>3. HasDnssecOk(p) <=> HasDnssecOk(q)
  <2>1. CASE HasDnssecOk(p) /\ ~HasDnssecOk(q)
    BY <1>2, <2>1
  <2>2. CASE ~HasDnssecOk(p) /\ HasDnssecOk(q)
    BY <1>2, <2>2
  <2>3. QED BY <2>1, <2>2
<1>4. QED BY <1>1, <1>2, <1>3 DEF Identical

\* The id of a request is none of the bus's own events.
LEMMA IdsAreEphemeral ==
  ASSUME NEW r \in Requests, Eid(r) # NoEvent
  PROVE  /\ Eid(r) \in Ids
         /\ Eid(r) \notin StickyEvents
         /\ Eid(r) \notin Events
<1>1. PacketOf[r] \in Packets /\ HasSingleQuestion(PacketOf[r])
  BY RequestsAssumption DEF Eid, MakeId
<1>2. QED BY <1>1, IdsAssumption DEF Ids, Eid

\* What one pub() of a request's id does to a quiet bus: the event, if there
\* was one, is gone from it, everything else is as it was.
LEMMA PubRetires ==
  ASSUME NEW r \in Requests, NEW p, TypeOK, BusQuiet, GroupsHoldTheirOwn, Pub(Eid(r), p)
  PROVE  /\ ephemeralEvents' = ephemeralEvents \ {Eid(r)}
         /\ waitGroup' = [e \in DOMAIN waitGroup \ ({Eid(r)} \cap ephemeralEvents) |-> waitGroup[e]]
         /\ BusQuiet'
<1> DEFINE e0 == Eid(r)
<1>1. e0 \notin StickyEvents
  BY IdsAreEphemeral, EventsAssumption
<1>2. e0 \in ephemeralEvents <=> OneShot(e0)
  BY <1>1 DEF OneShot
<1>3. MapGet(listeners, e0) = {}
  BY DEF BusQuiet, MapGet
<1>4. ephemeralEvents' = ephemeralEvents \ {e0}
  BY DEF Pub
<1>5. waitGroup' = [e \in DOMAIN waitGroup \ ({e0} \cap ephemeralEvents) |-> waitGroup[e]]
  <2>1. CASE OneShot(e0)
    BY <2>1, <1>2 DEF Pub, MapDelete
  <2>2. CASE ~OneShot(e0)
    BY <2>2, <1>2 DEF Pub, TypeOK
  <2>3. QED BY <2>1, <2>2
<1>6. listeners' = [e \in DOMAIN waitGroup' |-> {}]
  <2>1. CASE OneShot(e0)
    BY <2>1, <1>2, <1>5 DEF Pub, MapDelete, BusQuiet
  <2>2. CASE ~OneShot(e0)
    BY <2>2, <1>2, <1>5 DEF Pub, BusQuiet
  <2>3. QED BY <2>1, <2>2
<1>7. stickyParcels' = stickyParcels /\ microtasks' = microtasks
  BY <1>1, <1>3 DEF Pub
<1>8. DOMAIN waitGroup' = StickyEvents \cup Events \cup ephemeralEvents'
  <2>1. e0 \in ephemeralEvents => e0 \notin StickyEvents \cup Events
    BY IdsAreEphemeral DEF TypeOK, Ids
  <2>2. e0 \in DOMAIN waitGroup /\ e0 \notin ephemeralEvents => e0 \in StickyEvents \cup Events
    BY DEF BusQuiet
  <2>3. QED BY <1>4, <1>5, <2>1, <2>2 DEF BusQuiet
<1>9. QED BY <1>4, <1>5, <1>6, <1>7, <1>8 DEF BusQuiet

LEMMA InitIInv == Init => IInv
<1> SUFFICES ASSUME Init PROVE IInv
  OBVIOUS
<1>1. /\ waitGroup = [e \in StickyEvents \cup Events |-> {}]
      /\ listeners = [e \in StickyEvents \cup Events |-> {}]
      /\ ephemeralEvents = {} /\ microtasks = <<>> /\ stickyParcels = [e \in {} |-> {}]
  BY DEF Init, BusInit
<1>2. TypeOK
  BY <1>1, RequestsAssumption DEF Init, TypeOK
<1>3. BusQuiet
  BY <1>1 DEF BusQuiet
<1>4. GroupsHoldTheirOwn /\ NoStrandedWaiter /\ LeaderInFlight
  BY <1>1 DEF Init, GroupsHoldTheirOwn, NoStrandedWaiter, LeaderInFlight
<1>5. ParcelsToSameQuestion /\ RepliesToSameQuestion /\ DoneIsReplied
  BY RequestsAssumption DEF Init, ParcelsToSameQuestion, RepliesToSameQuestion, DoneIsReplied
<1>6. OneQueryPerQuestion /\ QueriedIsLive
  BY DEF Init, OneQueryPerQuestion, QueriedIsLive, Querying
<1>7. QED BY <1>2, <1>3, <1>4, <1>5, <1>6 DEF IInv

LEMMA ArriveWaitIInv ==
  ASSUME IInv, NEW r \in Requests, ArriveWait(r)
  PROVE  IInv'
<1> USE DEF IInv
<1>1. /\ Live(Eid(r)) /\ pc[r] = "new"
      /\ waitGroup' = [waitGroup EXCEPT ![Eid(r)] = @ \cup {r}]
      /\ DOMAIN waitGroup' = DOMAIN waitGroup
      /\ pc' = [pc EXCEPT ![r] = "waiting"]
      /\ UNCHANGED <<ephemeralEvents, listeners, stickyParcels, microtasks, parcel, reply, elapsed>>
  BY DEF ArriveWait, Join
<1>2. Eid(r) # NoEvent
  BY <1>1, EventsAssumption DEF Live, BusQuiet, TypeOK, Ids
<1>3. TypeOK'
  BY <1>1 DEF TypeOK, Live
<1>4. BusQuiet'
  BY <1>1 DEF BusQuiet
<1>5. GroupsHoldTheirOwn'
  BY <1>1, <1>2 DEF GroupsHoldTheirOwn, Ids, Live
<1>6. NoStrandedWaiter'
  BY <1>1 DEF NoStrandedWaiter, Live, TypeOK
<1>7. LeaderInFlight'
  BY <1>1 DEF LeaderInFlight, Querying, TypeOK
<1>8. ParcelsToSameQuestion' /\ RepliesToSameQuestion'
  BY <1>1 DEF ParcelsToSameQuestion, RepliesToSameQuestion, TypeOK
<1>9. DoneIsReplied'
  BY <1>1 DEF DoneIsReplied, TypeOK
<1>10. OneQueryPerQuestion' /\ QueriedIsLive'
  BY <1>1 DEF OneQueryPerQuestion, QueriedIsLive, Querying, TypeOK
<1>11. QED BY <1>3, <1>4, <1>5, <1>6, <1>7, <1>8, <1>9, <1>10

LEMMA ArriveFirstIInv ==
  ASSUME IInv, NEW r \in Requests, ArriveFirst(r)
  PROVE  IInv'
<1> USE DEF IInv
<1>1. /\ Eid(r) # NoEvent /\ Eid(r) \notin DOMAIN waitGroup /\ pc[r] = "new"
      /\ ephemeralEvents' = ephemeralEvents \cup {Eid(r)}
      /\ waitGroup' = [e \in DOMAIN waitGroup \cup {Eid(r)} |->
                         IF e = Eid(r) THEN {} ELSE waitGroup[e]]
      /\ listeners' = [e \in DOMAIN listeners \cup {Eid(r)} |->
                         IF e = Eid(r) THEN {} ELSE listeners[e]]
      /\ pc' = [pc EXCEPT ![r] = "rejected"]
      /\ UNCHANGED <<stickyParcels, microtasks, parcel, reply, elapsed>>
  BY DEF ArriveFirst, MakeEphemeral, MapSet, Live
<1>2. Eid(r) \in Ids
  BY <1>1, IdsAreEphemeral
<1>3. TypeOK'
  BY <1>1, <1>2 DEF TypeOK
<1>4. BusQuiet'
  BY <1>1 DEF BusQuiet
<1>5. GroupsHoldTheirOwn'
  BY <1>1 DEF GroupsHoldTheirOwn
<1>6. NoStrandedWaiter'
  BY <1>1 DEF NoStrandedWaiter, Live, TypeOK
<1>7. LeaderInFlight'
  BY <1>1 DEF LeaderInFlight, Querying, TypeOK
<1>8. ParcelsToSameQuestion' /\ RepliesToSameQuestion'
  BY <1>1 DEF ParcelsToSameQuestion, RepliesToSameQuestion, TypeOK
<1>9. DoneIsReplied'
  BY <1>1 DEF DoneIsReplied, TypeOK
<1>10. Eid(r) \notin ephemeralEvents
  BY <1>1 DEF BusQuiet
<1>11. OneQueryPerQuestion'
  BY <1>1, <1>10 DEF OneQueryPerQuestion, QueriedIsLive, Querying, TypeOK
<1>12. QueriedIsLive'
  BY <1>1 DEF QueriedIsLive, Querying, TypeOK
<1>13. QED BY <1>3, <1>4, <1>5, <1>6, <1>7, <1>8, <1>9, <1>11, <1>12

\* The steps that touch neither the bus nor a reply.
LEMMA LocalStepIInv ==
  ASSUME IInv, NEW r \in Requests,
         ArriveAlone(r) \/ Elapse(r) \/ QueryUdp(r) \/ RetryTcp(r)
  PROVE  IInv'
<1> USE DEF IInv
<1>1. /\ UNCHANGED <<ephemeralEvents, waitGroup, listeners, stickyParcels, microtasks, parcel, reply>>
      /\ \E c \in {"rejected", "udp", "tcp"} : pc' = [pc EXCEPT ![r] = c]
      /\ pc[r] # "done" /\ pc[r] # "woken"
      /\ elapsed' \subseteq Requests /\ elapsed \subseteq elapsed'
      /\ Querying(r) \/ Eid(r) = NoEvent \/ r \in elapsed'
  BY DEF ArriveAlone, Elapse, QueryUdp, RetryTcp, busVars, TypeOK, Querying
<1>2. PICK c \in {"rejected", "udp", "tcp"} : pc' = [pc EXCEPT ![r] = c]
  BY <1>1
<1>3. TypeOK' /\ BusQuiet' /\ GroupsHoldTheirOwn'
  BY <1>1, <1>2 DEF TypeOK, BusQuiet, GroupsHoldTheirOwn
<1>4. NoStrandedWaiter'
  BY <1>1, <1>2 DEF NoStrandedWaiter, Live, TypeOK
<1>5. LeaderInFlight'
  BY <1>1, <1>2 DEF LeaderInFlight, Querying, TypeOK
<1>6. ParcelsToSameQuestion' /\ RepliesToSameQuestion'
  BY <1>1, <1>2 DEF ParcelsToSameQuestion, RepliesToSameQuestion, TypeOK
<1>7. DoneIsReplied'
  BY <1>1, <1>2 DEF DoneIsReplied, TypeOK
<1>8. OneQueryPerQuestion' /\ QueriedIsLive'
  BY <1>1, <1>2 DEF OneQueryPerQuestion, QueriedIsLive, Querying, TypeOK
<1>9. QED BY <1>3, <1>4, <1>5, <1>6, <1>7, <1>8

\* A finished query: its answer goes to its own request and to waiters of the
\* same id, which ask the same question.
LEMMA FinishIInv ==
  ASSUME IInv, NEW r \in Requests, NEW ans \in {r, Nothing}, Finish(r, ans)
  PROVE  IInv'
<1> USE DEF IInv
<1> DEFINE woken == {w \in Awaiters(Eid(r)) : pc[w] = "waiting"}
<1>1. /\ pc[r] \in {"udp", "tcp"}
      /\ pc' = [w \in Requests |-> IF w = r THEN "done"
                                   ELSE IF w \in woken THEN "woken" ELSE pc[w]]
      /\ parcel' = [w \in Requests |-> IF w \in woken THEN ans ELSE parcel[w]]
      /\ reply' = [reply EXCEPT ![r] = IF ans = Nothing THEN Failure ELSE ans]
      /\ elapsed' = elapsed
  BY DEF Finish
<1>2. /\ ephemeralEvents' = ephemeralEvents \ {Eid(r)}
      /\ waitGroup' = [e \in DOMAIN waitGroup \ ({Eid(r)} \cap ephemeralEvents) |-> waitGroup[e]]
      /\ BusQuiet'
  BY PubRetires DEF Finish
<1>3. \A w \in woken : w \in Requests /\ Eid(w) = Eid(r) /\ Eid(r) # NoEvent /\ w # r
  BY <1>1 DEF Awaiters, MapGet, GroupsHoldTheirOwn, Ids, TypeOK
<1>4. TypeOK'
  BY <1>1, <1>2, RequestsAssumption DEF TypeOK
<1>5. GroupsHoldTheirOwn'
  BY <1>2 DEF GroupsHoldTheirOwn
<1>6. NoStrandedWaiter'
  BY <1>1, <1>2 DEF NoStrandedWaiter, Live, Awaiters, MapGet
<1>7. LeaderInFlight'
  BY <1>1, <1>2, <1>3 DEF LeaderInFlight, Querying
<1>8. \A w \in woken : Identical(w, r)
  BY <1>3, IdsTellQuestionsApart
<1>9. ParcelsToSameQuestion'
  BY <1>1, <1>8, RequestsAssumption DEF ParcelsToSameQuestion, TypeOK
<1>10. RepliesToSameQuestion'
  BY <1>1, RequestsAssumption DEF RepliesToSameQuestion, Identical, TypeOK
<1>11. DoneIsReplied'
  BY <1>1, RequestsAssumption DEF DoneIsReplied, TypeOK
<1>12. OneQueryPerQuestion'
  BY <1>1 DEF OneQueryPerQuestion, Querying
<1>13. QueriedIsLive'
  BY <1>1, <1>2 DEF OneQueryPerQuestion, QueriedIsLive, Querying
<1>14. QED BY <1>2, <1>4, <1>5, <1>6, <1>7, <1>9, <1>10, <1>11, <1>12, <1>13

LEMMA ResumeIInv ==
  ASSUME IInv, NEW r \in Requests, Resume(r)
  PROVE  IInv'
<1> USE DEF IInv
<1>1. /\ UNCHANGED <<ephemeralEvents, waitGroup, listeners, stickyParcels, microtasks, parcel, elapsed>>
      /\ pc[r] = "woken"
      /\ pc' = [pc EXCEPT ![r] = "done"]
      /\ reply' = [reply EXCEPT ![r] = IF parcel[r] = Nothing THEN Failure ELSE parcel[r]]
  BY DEF Resume, busVars
<1>2. TypeOK' /\ BusQuiet' /\ GroupsHoldTheirOwn'
  BY <1>1 DEF TypeOK, BusQuiet, GroupsHoldTheirOwn
<1>3. NoStrandedWaiter' /\ LeaderInFlight'
  BY <1>1 DEF NoStrandedWaiter, LeaderInFlight, Live, Querying, TypeOK
<1>4. ParcelsToSameQuestion' /\ RepliesToSameQuestion'
  BY <1>1, RequestsAssumption DEF ParcelsToSameQuestion, RepliesToSameQuestion, TypeOK
<1>5. DoneIsReplied'
  BY <1>1, RequestsAssumption DEF DoneIsReplied, ParcelsToSameQuestion, TypeOK
<1>6. OneQueryPerQuestion' /\ QueriedIsLive'
  BY <1>1 DEF OneQueryPerQuestion, QueriedIsLive, Querying, TypeOK
<1>7. QED BY <1>2, <1>3, <1>4, <1>5, <1>6

LEMMA NextIInv == IInv /\ [Next]_vars => IInv'
<1> SUFFICES ASSUME IInv, [Next]_vars PROVE IInv'
  OBVIOUS
<1>1. CASE UNCHANGED vars
  BY <1>1 DEF vars, busVars, IInv, TypeOK, BusQuiet, GroupsHoldTheirOwn, NoStrandedWaiter,
       Live, LeaderInFlight, Querying, ParcelsToSameQuestion, RepliesToSameQuestion,
       DoneIsReplied, OneQueryPerQuestion, QueriedIsLive
<1>2. ASSUME NEW r \in Requests, Arrive(r) \/ Elapse(r) \/ Proceed(r)
      PROVE  IInv'
  <2>1. CASE ArriveWait(r)
    BY <2>1, ArriveWaitIInv
  <2>2. CASE ArriveFirst(r)
    BY <2>2, ArriveFirstIInv
  <2>3. CASE ArriveAlone(r) \/ Elapse(r) \/ QueryUdp(r) \/ RetryTcp(r)
    BY <2>3, LocalStepIInv
  <2>4. CASE Answered(r)
    BY <2>4, FinishIInv DEF Answered
  <2>5. CASE Unanswered(r)
    BY <2>5, FinishIInv DEF Unanswered
  <2>6. CASE Resume(r)
    BY <2>6, ResumeIInv
  <2>7. QED BY <1>2, <2>1, <2>2, <2>3, <2>4, <2>5, <2>6 DEF Arrive, Proceed
<1>3. QED BY <1>1, <1>2 DEF Next

\* The invariants of Coalesce.cfg, for every set of requests and packets: an
\* event lives only while someone will publish it, its waiters are in the group
\* that will be woken, no reply is to another name, type or DNSSEC-OK flag
\* (whatever classes, other flags and options are), and an id is queried once at
\* a time unless a wait for it timed out.
THEOREM Safety ==
  Spec => [](TypeOK /\ NoStrandedWaiter /\ LeaderInFlight
             /\ RepliesToSameQuestion /\ OneQueryPerQuestion)
<1>1. IInv => TypeOK /\ NoStrandedWaiter /\ LeaderInFlight
              /\ RepliesToSameQuestion /\ OneQueryPerQuestion
  BY DEF IInv
<1>2. QED BY <1>1, InitIInv, NextIInv, PTL DEF Spec
-----------------------------------------------------------------------------
\* Every step is a step of Resolution, or none.
LEMMA StepRefines == IInv /\ [Next]_vars => [Promise!Next]_Promise!vars
<1> SUFFICES ASSUME IInv, [Next]_vars PROVE [Promise!Next]_Promise!vars
  OBVIOUS
<1> DEFINE asked == {r \in Requests : pc[r] # "new"}
<1> USE DEF Promise!Next, Promise!vars, Promise!Ask, Promise!Reply
<1>1. CASE UNCHANGED vars
  BY <1>1 DEF vars
<1>2. ASSUME NEW r \in Requests, Arrive(r)
      PROVE  Promise!Ask(r)
  <2>1. /\ pc[r] = "new" /\ reply' = reply
        /\ \E c \in {"waiting", "rejected"} : pc' = [pc EXCEPT ![r] = c]
    BY <1>2 DEF Arrive, ArriveWait, ArriveFirst, ArriveAlone
  <2>2. asked' = asked \cup {r} /\ r \notin asked
    BY <2>1 DEF IInv, TypeOK
  <2>3. QED BY <2>1, <2>2
<1>3. ASSUME NEW r \in Requests, Elapse(r) \/ QueryUdp(r) \/ RetryTcp(r)
      PROVE  UNCHANGED Promise!vars
  BY <1>3 DEF Elapse, QueryUdp, RetryTcp, IInv, TypeOK
<1>4. ASSUME NEW r \in Requests, NEW ans \in {r, Nothing}, Finish(r, ans)
      PROVE  Promise!Reply(r)
  <2>1. asked' = asked
    BY <1>4 DEF Finish, Awaiters, MapGet, IInv, TypeOK
  <2>2. r \in asked /\ reply[r] = NoReply
    BY <1>4 DEF Finish, IInv, DoneIsReplied
  <2>3. Identical(r, r)
    BY DEF Identical
  <2>4. QED BY <1>4, <2>1, <2>2, <2>3 DEF Finish
<1>5. ASSUME NEW r \in Requests, Resume(r)
      PROVE  Promise!Reply(r)
  <2>1. asked' = asked /\ r \in asked /\ reply[r] = NoReply
    BY <1>5 DEF Resume, IInv, DoneIsReplied, TypeOK
  <2>2. parcel[r] # Nothing => parcel[r] \in asked /\ Identical(r, parcel[r])
    BY DEF IInv, TypeOK, ParcelsToSameQuestion
  <2>3. QED BY <1>5, <2>1, <2>2 DEF Resume
<1>6. QED BY <1>1, <1>2, <1>3, <1>4, <1>5 DEF Next, Proceed, Answered, Unanswered

\* Coalescing keeps the resolver's promise: each request is replied to once,
\* by a failure or by the answer to a query that was asked for the same records.
THEOREM Refinement == Spec => ImplementsResolution
<1>1. Init => Promise!Init
  BY DEF Init, Promise!Init
<1>2. IInv /\ [Next]_vars => [Promise!Next]_Promise!vars
  BY StepRefines
<1>3. QED BY <1>1, <1>2, InitIInv, NextIInv, PTL DEF Spec, ImplementsResolution, Promise!Spec
-----------------------------------------------------------------------------
\* The two halves of "every request gets a reply" that need no fairness.  Whoever
\* waits does so for another request's query of the same id, which is under way:
\* no waiter depends on its timeout, and none waits for one that waits itself.
WaitersHaveLeader ==
  \A r \in Requests : pc[r] = "waiting" =>
    \E s \in Requests : s # r /\ Querying(s) /\ Eid(s) = Eid(r)

\* How many steps a request still may take: one that is woken does not go back to
\* waiting, and one whose wait timed out does not wait again.
StepsLeft ==
  [new |-> 5, waiting |-> 4, rejected |-> 3, udp |-> 2, tcp |-> 1, woken |-> 1, done |-> 0]

\* Every step takes some request further, and none of the others back.
Advances ==
  /\ pc' # pc
  /\ \A r \in Requests : pc'[r] = pc[r] \/ StepsLeft[pc'[r]] < StepsLeft[pc[r]]

LEMMA LeadersOfWaiters == IInv => WaitersHaveLeader
<1> SUFFICES ASSUME IInv, NEW r \in Requests, pc[r] = "waiting"
             PROVE  \E s \in Requests : s # r /\ Querying(s) /\ Eid(s) = Eid(r)
  BY DEF WaitersHaveLeader
<1>1. Eid(r) \in DOMAIN waitGroup /\ r \in waitGroup[Eid(r)]
  BY DEF IInv, NoStrandedWaiter, Live
<1>2. Eid(r) \in Ids
  BY <1>1 DEF IInv, GroupsHoldTheirOwn
<1>3. Eid(r) \notin StickyEvents \cup Events
  BY <1>2, IdsAreEphemeral DEF Ids
<1>4. Eid(r) \in ephemeralEvents
  BY <1>1, <1>3 DEF IInv, BusQuiet
<1>5. PICK s \in Requests : Querying(s) /\ Eid(s) = Eid(r)
  BY <1>4 DEF IInv, LeaderInFlight
<1>6. QED BY <1>5 DEF Querying

LEMMA StepAdvances == IInv /\ [Next]_vars => [Advances]_vars
<1> SUFFICES ASSUME IInv, Next PROVE Advances
  OBVIOUS
<1> USE DEF Advances, StepsLeft
<1>0. pc \in [Requests -> {"new", "waiting", "rejected", "udp", "tcp", "woken", "done"}]
  BY DEF IInv, TypeOK
<1>1. ASSUME NEW r \in Requests, Arrive(r) \/ Elapse(r) \/ QueryUdp(r) \/ RetryTcp(r) \/ Resume(r)
      PROVE  Advances
  <2>1. \E c \in DOMAIN StepsLeft :
          /\ pc' = [pc EXCEPT ![r] = c]
          /\ StepsLeft[c] < StepsLeft[pc[r]] /\ c # pc[r]
    BY <1>1 DEF Arrive, ArriveWait, ArriveFirst, ArriveAlone, Elapse, QueryUdp, RetryTcp, Resume
  <2>2. QED BY <1>0, <2>1
<1>2. ASSUME NEW r \in Requests, NEW ans, Finish(r, ans)
      PROVE  Advances
  <2>1. /\ pc[r] \in {"udp", "tcp"} /\ pc'[r] = "done"
        /\ \A w \in Requests \ {r} :
             pc'[w] = pc[w] \/ (pc[w] = "waiting" /\ pc'[w] = "woken")
    BY <1>2 DEF Finish
  <2>2. QED BY <2>1
<1>3. QED BY <1>1, <1>2 DEF Next, Proceed, Answered, Unanswered

\* A request that waits does so for a query under way, never for another waiter;
\* and every step brings replies nearer: there are at most five of a request.
\* Only that they are taken is left to fairness, with which Coalesce.cfg checks
\* that every request is replied to.
THEOREM RepliesComeDue == Spec => []WaitersHaveLeader /\ [][Advances]_vars
BY InitIInv, NextIInv, LeadersOfWaiters, StepAdvances, PTL DEF Spec
=============================================================================
