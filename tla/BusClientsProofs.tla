-------------------------- MODULE BusClientsProofs --------------------------
(***************************************************************************)
(* The bus is safe for any events, waiters, listeners and parcels: no      *)
(* wake-up is lost, and everyone who waited on a sticky event has the      *)
(* parcel it fired with.                                                   *)
(***************************************************************************)
EXTENDS BusClients, TLAPS

\* A wait group holds the fulfillers of waits on its own event.
WaitsWhereItAsked ==
  \A e \in DOMAIN waitGroup : \A w \in waitGroup[e] :
    waiter[w].on = e /\ waiter[w].st # "idle"

IInv ==
  /\ TypeOK
  /\ BusConsistent
  /\ WaitsWhereItAsked
  /\ NoStrandedWaiter
  /\ StickyAgreement

BusTypeOK ==
  /\ ephemeralEvents \subseteq Names
  /\ waitGroup \in [DOMAIN waitGroup -> SUBSET Waiters]
  /\ listeners \in [DOMAIN listeners -> SUBSET Listeners]
  /\ DOMAIN waitGroup \cup DOMAIN listeners \subseteq AnyName \ {NoEvent}
  /\ DOMAIN stickyParcels \subseteq StickyEvents
  /\ \A e \in DOMAIN stickyParcels : stickyParcels[e] \in Parcels
  /\ microtasks \in Seq(Microtask)

LEMMA InitIInv == Init => IInv
<1> SUFFICES ASSUME Init PROVE IInv
  OBVIOUS
<1> USE DEF Init, BusInit, WaiterState, ListenerState
<1>1. TypeOK
  BY EventsAssumption, ClientsAssumption DEF TypeOK, AnyName
<1>2. BusConsistent
  BY DEF BusConsistent, Fired, Live
<1>3. NoStrandedWaiter /\ StickyAgreement /\ WaitsWhereItAsked
  BY DEF NoStrandedWaiter, StickyAgreement, WaitsWhereItAsked
<1>4. QED BY <1>1, <1>2, <1>3 DEF IInv
-----------------------------------------------------------------------------
\* The two ways a call adds to the bus without firing anything.
LEMMA MakeEphemeralKeeps ==
  ASSUME BusTypeOK, BusConsistent, NEW e \in AnyName, e # NoEvent,
         e \notin StickyEvents, ~Live(e), MakeEphemeral(e)
  PROVE  /\ BusTypeOK' /\ BusConsistent'
         /\ \A n \in DOMAIN waitGroup : MapGet(waitGroup, n)' = MapGet(waitGroup, n)
         /\ waitGroup' = [x \in DOMAIN waitGroup \cup {e} |-> IF x = e THEN {} ELSE waitGroup[x]]
         /\ UNCHANGED stickyParcels
<1>1. e \in Names /\ e \notin DOMAIN waitGroup
  BY DEF AnyName, Live, BusConsistent
<1>2. /\ ephemeralEvents' = ephemeralEvents \cup {e}
      /\ waitGroup' = [x \in DOMAIN waitGroup \cup {e} |-> IF x = e THEN {} ELSE waitGroup[x]]
      /\ listeners' = [x \in DOMAIN listeners \cup {e} |-> IF x = e THEN {} ELSE listeners[x]]
      /\ UNCHANGED <<stickyParcels, microtasks>>
  BY DEF MakeEphemeral, MapSet
<1>3. BusTypeOK'
  BY <1>1, <1>2 DEF BusTypeOK
<1>4. BusConsistent'
  BY <1>1, <1>2, ClientsAssumption DEF BusConsistent, Fired, Live
<1>5. QED BY <1>1, <1>2, <1>3, <1>4 DEF MapGet

\* A pub() keeps the bus consistent; it writes a sticky event's parcel once.
LEMMA PubKeeps ==
  ASSUME BusTypeOK, BusConsistent, NEW e \in AnyName, NEW p \in Parcels, Pub(e, p)
  PROVE  /\ BusTypeOK' /\ BusConsistent'
         /\ \A n \in DOMAIN stickyParcels : n \in DOMAIN stickyParcels' /\ stickyParcels'[n] = stickyParcels[n]
         /\ waitGroup' = IF OneShot(e) THEN [x \in DOMAIN waitGroup \ {e} |-> waitGroup[x]] ELSE waitGroup
         /\ e \in StickyEvents /\ Live(e) => e \in DOMAIN stickyParcels' /\ stickyParcels'[e] = p
<1>1. /\ ephemeralEvents' = ephemeralEvents \ {e}
      /\ waitGroup' = IF OneShot(e) THEN [x \in DOMAIN waitGroup \ {e} |-> waitGroup[x]] ELSE waitGroup
      /\ listeners' = IF OneShot(e) THEN [x \in DOMAIN listeners \ {e} |-> listeners[x]] ELSE listeners
      /\ stickyParcels' =
           IF e \in StickyEvents /\ Live(e)
           THEN [x \in DOMAIN stickyParcels \cup {e} |-> IF x = e THEN p ELSE stickyParcels[x]]
           ELSE stickyParcels
  BY DEF Pub, MapDelete, MapSet, BusConsistent, Live, Known
<1>2. microtasks' \in Seq(Microtask)
  <2>1. MapGet(listeners, e) \in SUBSET Listeners
    BY DEF MapGet, BusTypeOK
  <2>2. ~OneShot(e) /\ MapGet(listeners, e) # {} => e \in Events
    <3>1. MapGet(listeners, e) # {} => e \in DOMAIN listeners
      BY DEF MapGet
    <3>2. QED BY <3>1 DEF BusConsistent, OneShot
  <2>3. MapGet(listeners, e) # {} =>
          [fns |-> MapGet(listeners, e), of |-> IF OneShot(e) THEN NoEvent ELSE e, arg |-> p] \in Microtask
    BY <2>1, <2>2 DEF Microtask
  <2>4. QED BY <2>3 DEF Pub, MicrotaskBox, BusTypeOK
<1>3. BusTypeOK'
  <2>1. CASE OneShot(e)
    BY <1>1, <1>2, <2>1 DEF BusTypeOK
  <2>2. CASE ~OneShot(e)
    BY <1>1, <1>2, <2>2 DEF BusTypeOK
  <2>3. QED BY <2>1, <2>2
<1>4. BusConsistent'
  <2>1. e \in ephemeralEvents => e \notin StickyEvents \cup Events
    BY ClientsAssumption DEF BusTypeOK
  <2>2. CASE OneShot(e)
    BY <1>1, <2>1, <2>2, EventsAssumption DEF BusConsistent, Fired, Live, OneShot
  <2>3. CASE ~OneShot(e)
    BY <1>1, <2>3 DEF BusConsistent, Fired, Live, OneShot
  <2>4. QED BY <2>2, <2>3
<1>5. QED BY <1>1, <1>3, <1>4 DEF BusConsistent, Fired, Live

LEMMA WhenIInv ==
  ASSUME IInv, NEW w \in Waiters, NEW e \in AnyName, WhenSettled(w, e) \/ WhenPending(w, e)
  PROVE  IInv'
<1> USE DEF IInv, WaiterState, ListenerState
<1>1. CASE WhenPending(w, e)
  <2>1. /\ waitGroup' = [waitGroup EXCEPT ![e] = @ \cup {w}] /\ e \in DOMAIN waitGroup
        /\ waiter' = [waiter EXCEPT ![w] = [st |-> "pending", on |-> e, got |-> NoParcel]]
        /\ UNCHANGED <<ephemeralEvents, listeners, stickyParcels, microtasks, listener, timer, pubs>>
    BY <1>1 DEF WhenPending, Join, Settle, Live
  <2>2. TypeOK' /\ BusConsistent'
    BY <2>1 DEF TypeOK, BusConsistent, Fired, Live
  <2>3. NoStrandedWaiter'
    BY <2>1 DEF NoStrandedWaiter, MapGet, TypeOK
  <2>4. StickyAgreement'
    BY <2>1 DEF StickyAgreement, TypeOK
  <2>5. WaitsWhereItAsked'
    BY <2>1, <1>1 DEF WaitsWhereItAsked, WhenPending, TypeOK
  <2>6. QED BY <2>2, <2>3, <2>4, <2>5
<1>2. CASE /\ WhenSettled(w, e)
           /\ UNCHANGED busVars
  <2>1. \/ e = NoEvent /\ waiter' = [waiter EXCEPT ![w] = [st |-> "rejected", on |-> e, got |-> NoParcel]]
        \/ /\ Fired(e)
           /\ waiter' = [waiter EXCEPT ![w] = [st |-> "resolved", on |-> e, got |-> stickyParcels[e]]]
        \/ waiter' = [waiter EXCEPT ![w] = [st |-> "rejected", on |-> e, got |-> NoParcel]]
    BY <1>2 DEF WhenSettled, Settle
  <2>2. UNCHANGED <<ephemeralEvents, waitGroup, listeners, stickyParcels, microtasks, listener, timer, pubs>>
    BY <1>2 DEF WhenSettled, busVars
  <2>3. Fired(e) => e \in DOMAIN stickyParcels /\ stickyParcels[e] \in Parcels
    BY DEF BusConsistent, TypeOK, Fired
  <2>4. TypeOK' /\ BusConsistent'
    BY <2>1, <2>2, <2>3 DEF TypeOK, BusConsistent, Fired, Live
  <2>5. NoStrandedWaiter'
    BY <2>1, <2>2 DEF NoStrandedWaiter, MapGet, TypeOK
  <2>6. StickyAgreement'
    BY <2>1, <2>2, <2>3 DEF StickyAgreement, TypeOK
  <2>7. WaitsWhereItAsked'
    BY <2>1, <2>2, <1>2 DEF WaitsWhereItAsked, WhenSettled, TypeOK
  <2>8. QED BY <2>4, <2>5, <2>6, <2>7
<1>3. CASE /\ WhenSettled(w, e) /\ MakeEphemeral(e)
           /\ e # NoEvent /\ e \notin StickyEvents /\ ~Live(e)
  <2>1. waiter' = [waiter EXCEPT ![w] = [st |-> "rejected", on |-> e, got |-> NoParcel]]
    BY <1>3 DEF WhenSettled, Settle, Fired
  <2>2. UNCHANGED <<listener, timer, pubs>>
    BY <1>3 DEF WhenSettled
  <2>3. BusTypeOK
    BY DEF BusTypeOK, TypeOK
  <2>4. /\ BusTypeOK' /\ BusConsistent' /\ UNCHANGED stickyParcels
        /\ waitGroup' = [x \in DOMAIN waitGroup \cup {e} |-> IF x = e THEN {} ELSE waitGroup[x]]
        /\ \A n \in DOMAIN waitGroup : MapGet(waitGroup, n)' = MapGet(waitGroup, n)
    BY <1>3, <2>3, MakeEphemeralKeeps
  <2>5. TypeOK'
    BY <2>1, <2>2, <2>4 DEF TypeOK, BusTypeOK
  <2>6. NoStrandedWaiter'
    BY <2>1, <2>4 DEF NoStrandedWaiter, MapGet, TypeOK
  <2>7. StickyAgreement'
    BY <2>1, <2>4 DEF StickyAgreement, TypeOK
  <2>8. WaitsWhereItAsked'
    BY <2>1, <2>4, <1>3 DEF WaitsWhereItAsked, WhenSettled, TypeOK
  <2>9. QED BY <2>4, <2>5, <2>6, <2>7, <2>8
<1>4. QED BY <1>1, <1>2, <1>3 DEF WhenSettled

LEMMA SubIInv ==
  ASSUME IInv, NEW l \in Listeners, NEW e \in AnyName, Sub(l, e)
  PROVE  IInv'
<1> USE DEF IInv, WaiterState, ListenerState
<1>1. /\ listener' \in [Listeners -> ListenerState]
      /\ timer' \subseteq TimedListeners
      /\ UNCHANGED <<waiter, pubs>>
  <2>1. PICK st \in {"subscribed", "dropped"} :
          listener' = [listener EXCEPT ![l] = [st |-> st, on |-> e, runs |-> 0]]
    BY DEF Sub, Subscribed
  <2>2. [st |-> st, on |-> e, runs |-> 0] \in ListenerState
    OBVIOUS
  <2>3. listener' \in [Listeners -> ListenerState]
    BY <2>1, <2>2 DEF TypeOK
  <2>4. timer' \subseteq TimedListeners
    BY DEF Sub, TypeOK
  <2>5. QED BY <2>3, <2>4 DEF Sub
<1>2. CASE Listen(e, l)
  <2>1. /\ e \in DOMAIN listeners
        /\ listeners' = [listeners EXCEPT ![e] = @ \cup {l}]
        /\ UNCHANGED <<ephemeralEvents, waitGroup, stickyParcels, microtasks>>
    BY <1>2 DEF Listen
  <2>2. TypeOK'
    BY <1>1, <2>1 DEF TypeOK
  <2>3. BusConsistent'
    BY <2>1 DEF BusConsistent, Fired, Live
  <2>4. NoStrandedWaiter' /\ StickyAgreement' /\ WaitsWhereItAsked'
    BY <1>1, <2>1 DEF NoStrandedWaiter, StickyAgreement, WaitsWhereItAsked, MapGet
  <2>5. QED BY <2>2, <2>3, <2>4
<1>3. CASE ListenLate(e, l)
  <2>1. stickyParcels[e] \in Parcels
    BY <1>3 DEF ListenLate, BusConsistent, Fired, Live, TypeOK
  <2>2. microtasks' \in Seq(Microtask)
    <3>1. [fns |-> {l}, of |-> NoEvent, arg |-> stickyParcels[e]] \in Microtask
      BY <2>1 DEF Microtask
    <3>2. QED BY <1>3, <3>1 DEF ListenLate, MicrotaskBox, TypeOK
  <2>3. UNCHANGED <<ephemeralEvents, waitGroup, listeners, stickyParcels>>
    BY <1>3 DEF ListenLate
  <2>4. QED
    BY <1>1, <2>2, <2>3 DEF TypeOK, BusConsistent, Fired, Live, NoStrandedWaiter,
         StickyAgreement, WaitsWhereItAsked, MapGet
<1>4. CASE MakeEphemeral(e) /\ e # NoEvent /\ e \notin StickyEvents /\ ~Live(e)
  <2>1. BusTypeOK
    BY DEF BusTypeOK, TypeOK
  <2>2. /\ BusTypeOK' /\ BusConsistent' /\ UNCHANGED stickyParcels
        /\ waitGroup' = [x \in DOMAIN waitGroup \cup {e} |-> IF x = e THEN {} ELSE waitGroup[x]]
        /\ \A n \in DOMAIN waitGroup : MapGet(waitGroup, n)' = MapGet(waitGroup, n)
    BY <1>4, <2>1, MakeEphemeralKeeps
  <2>3. TypeOK'
    BY <1>1, <2>2 DEF TypeOK, BusTypeOK
  <2>4. NoStrandedWaiter' /\ StickyAgreement' /\ WaitsWhereItAsked'
    BY <1>1, <2>2 DEF NoStrandedWaiter, StickyAgreement, WaitsWhereItAsked, MapGet
  <2>5. QED BY <2>2, <2>3, <2>4
<1>5. QED BY <1>2, <1>3, <1>4 DEF Sub

LEMMA PublishIInv ==
  ASSUME IInv, NEW e \in AnyName, NEW p \in Parcels, Publish(e, p)
  PROVE  IInv'
<1> USE DEF IInv, WaiterState, ListenerState
<1>1. BusTypeOK
  BY DEF BusTypeOK, TypeOK
<1>2. /\ BusTypeOK' /\ BusConsistent'
      /\ \A n \in DOMAIN stickyParcels : n \in DOMAIN stickyParcels' /\ stickyParcels'[n] = stickyParcels[n]
      /\ waitGroup' = IF OneShot(e) THEN [x \in DOMAIN waitGroup \ {e} |-> waitGroup[x]] ELSE waitGroup
      /\ e \in StickyEvents /\ Live(e) => e \in DOMAIN stickyParcels' /\ stickyParcels'[e] = p
  BY <1>1, PubKeeps DEF Publish
<1>3. /\ waiter' = [w \in Waiters |->
                      IF w \in Awaiters(e) /\ waiter[w].st = "pending"
                      THEN [st |-> "resolved", on |-> e, got |-> p]
                      ELSE waiter[w]]
      /\ UNCHANGED <<listener, timer>> /\ pubs' = pubs + 1 /\ pubs < MaxPubs
  BY DEF Publish
<1>4. TypeOK'
  BY <1>2, <1>3, ClientsAssumption DEF TypeOK, BusTypeOK
<1>5. \A w \in Waiters : waiter[w].st = "pending" =>
        (w \in Awaiters(e) <=> waiter[w].on = e)
  BY DEF NoStrandedWaiter, WaitsWhereItAsked, Awaiters, MapGet
<1>6. NoStrandedWaiter'
  BY <1>2, <1>3, <1>5 DEF NoStrandedWaiter, MapGet, TypeOK
<1>7. StickyAgreement'
  <2>1. \A w \in Awaiters(e) : Live(e)
    BY DEF Awaiters, MapGet, Live
  <2>2. QED BY <1>2, <1>3, <1>5, <2>1 DEF StickyAgreement, TypeOK
<1>8. WaitsWhereItAsked'
  BY <1>2, <1>3 DEF WaitsWhereItAsked, Awaiters, MapGet, TypeOK
<1>9. QED BY <1>2, <1>4, <1>6, <1>7, <1>8

LEMMA RunKeepsType ==
  ASSUME listener \in [Listeners -> ListenerState], NEW ls, Run(ls)
  PROVE  listener' \in [Listeners -> ListenerState]
BY DEF Run, ListenerState

\* Timers and microtasks change promises and counts, never an entry of the bus.
LEMMA LoopIInv ==
  ASSUME IInv,
         \/ \E w \in Waiters : WhenElapsed(w)
         \/ \E l \in Listeners : SubElapsed(l)
         \/ RunMicrotask
  PROVE  IInv'
<1> USE DEF IInv, WaiterState, ListenerState
<1>1. ASSUME NEW w \in Waiters, WhenElapsed(w)
      PROVE  IInv'
  <2>1. /\ UNCHANGED <<ephemeralEvents, waitGroup, listeners, stickyParcels, microtasks, listener, timer, pubs>>
        /\ waiter[w].st = "pending"
        /\ waiter' = [waiter EXCEPT ![w] = [st |-> "rejected", on |-> waiter[w].on, got |-> NoParcel]]
    BY <1>1 DEF WhenElapsed, Settle, busVars
  <2>2. TypeOK' /\ BusConsistent'
    BY <2>1 DEF TypeOK, BusConsistent, Fired, Live
  <2>3. NoStrandedWaiter' /\ StickyAgreement' /\ WaitsWhereItAsked'
    BY <2>1 DEF NoStrandedWaiter, StickyAgreement, WaitsWhereItAsked, MapGet, TypeOK
  <2>4. QED BY <2>2, <2>3
<1>2. ASSUME NEW l \in Listeners, SubElapsed(l)
      PROVE  IInv'
  <2>1. UNCHANGED <<ephemeralEvents, waitGroup, listeners, stickyParcels, microtasks, waiter, pubs>>
    BY <1>2 DEF SubElapsed, busVars
  <2>2. listener' \in [Listeners -> ListenerState] /\ timer' \subseteq TimedListeners
    BY <1>2, RunKeepsType DEF SubElapsed, TypeOK
  <2>3. QED
    BY <2>1, <2>2 DEF TypeOK, BusConsistent, Fired, Live, NoStrandedWaiter,
         StickyAgreement, WaitsWhereItAsked, MapGet
<1>3. CASE RunMicrotask
  <2>1. UNCHANGED <<ephemeralEvents, waitGroup, listeners, stickyParcels, waiter, pubs>>
    BY <1>3 DEF RunMicrotask
  <2>2. microtasks' \in Seq(Microtask)
    BY <1>3 DEF RunMicrotask, TypeOK
  <2>3. listener' \in [Listeners -> ListenerState]
    BY <1>3, RunKeepsType DEF RunMicrotask, TypeOK
  <2>4. timer' \subseteq TimedListeners
    BY <1>3 DEF RunMicrotask, TypeOK
  <2>5. QED
    BY <2>1, <2>2, <2>3, <2>4 DEF TypeOK, BusConsistent, Fired, Live, NoStrandedWaiter,
         StickyAgreement, WaitsWhereItAsked, MapGet
<1>4. QED BY <1>1, <1>2, <1>3

LEMMA NextIInv == IInv /\ [Next]_vars => IInv'
<1> SUFFICES ASSUME IInv, [Next]_vars PROVE IInv'
  OBVIOUS
<1>1. CASE UNCHANGED vars
  BY <1>1 DEF vars, busVars, IInv, TypeOK, BusConsistent, Fired, Live, NoStrandedWaiter,
       StickyAgreement, WaitsWhereItAsked, MapGet
<1>2. CASE Next
  BY <1>2, WhenIInv, SubIInv, PublishIInv, LoopIInv DEF Next
<1>3. QED BY <1>1, <1>2

\* For any clients: the bus stays consistent, a pending wait is in the group
\* its event's next pub wakes, and resolved waits on a sticky event agree.
THEOREM BusSafety ==
  Spec => [](TypeOK /\ BusConsistent /\ NoStrandedWaiter /\ StickyAgreement)
<1>1. IInv => TypeOK /\ BusConsistent /\ NoStrandedWaiter /\ StickyAgreement
  BY DEF IInv
<1>2. QED BY <1>1, InitIInv, NextIInv, PTL DEF Spec

\* The parcel a sticky event fired with is never replaced nor lost, however
\* often the event is published again.
THEOREM ParcelsStick ==
  Spec => [][\A e \in DOMAIN stickyParcels :
               e \in DOMAIN stickyParcels' /\ stickyParcels'[e] = stickyParcels[e]]_vars
<1> DEFINE Stick == \A e \in DOMAIN stickyParcels :
                      e \in DOMAIN stickyParcels' /\ stickyParcels'[e] = stickyParcels[e]
<1>1. IInv /\ Next => Stick
  <2> SUFFICES ASSUME IInv, Next PROVE Stick
    OBVIOUS
  <2>1. CASE \E e \in AnyName, p \in Parcels : Publish(e, p)
    <3>1. BusTypeOK /\ BusConsistent
      BY DEF IInv, TypeOK, BusTypeOK
    <3>2. QED BY <2>1, <3>1, PubKeeps DEF Publish
  <2>2. CASE ~ \E e \in AnyName, p \in Parcels : Publish(e, p)
    <3>1. UNCHANGED stickyParcels
      BY <2>2 DEF Next, WhenSettled, WhenPending, WhenElapsed, Sub, SubElapsed, RunMicrotask,
           Join, Listen, ListenLate, MakeEphemeral, busVars
    <3>2. QED BY <3>1
  <2>3. QED BY <2>1, <2>2
<1>2. QED BY <1>1, InitIInv, NextIInv, PTL DEF Spec
-----------------------------------------------------------------------------
\* Where a listener may be held: in the set of the event it subscribed to, or,
\* once that has fired, in the one microtask that will run it.
Queued(l) ==
  \E i \in DOMAIN microtasks : microtasks[i].of = NoEvent /\ l \in microtasks[i].fns
Listed(l) == \E e \in DOMAIN listeners : l \in listeners[e]

OnceOK(l) ==
  /\ \A e \in DOMAIN listeners : l \in listeners[e] => listener[l].on = e
  /\ Listed(l) \/ Queued(l) => listener[l].st = "subscribed"
  /\ ~(Listed(l) /\ Queued(l))
  /\ \A i, j \in DOMAIN microtasks :
       /\ microtasks[i].of = NoEvent /\ l \in microtasks[i].fns
       /\ microtasks[j].of = NoEvent /\ l \in microtasks[j].fns
       => i = j
  /\ l \notin TimedListeners /\ listener[l].on \notin Events =>
       /\ Listed(l) \/ Queued(l) => listener[l].runs = 0
       /\ listener[l].runs <= 1

OnceInv == \A l \in Listeners : OnceOK(l)

LEMMA InitOnce == Init => OnceInv
BY ClientsAssumption DEF Init, BusInit, OnceInv, OnceOK, Listed, Queued

LEMMA OnceUnmoved ==
  ASSUME NEW l \in Listeners, OnceOK(l), UNCHANGED <<listeners, microtasks, listener>>
  PROVE  OnceOK(l)'
BY DEF OnceOK, Listed, Queued

\* Appending a set that no longer is in listeners (which NoEvent says).
LEMMA QueuedByAppend ==
  ASSUME IInv, NEW m \in Microtask, microtasks' = Append(microtasks, m), NEW l \in Listeners
  PROVE  /\ Queued(l)' <=> Queued(l) \/ (m.of = NoEvent /\ l \in m.fns)
         /\ \A i \in DOMAIN microtasks' :
              \/ i \in DOMAIN microtasks /\ microtasks'[i] = microtasks[i]
              \/ i = Len(microtasks) + 1 /\ microtasks'[i] = m
<1>1. microtasks \in Seq(Microtask)
  BY DEF IInv, TypeOK
<1>2. /\ DOMAIN microtasks = 1 .. Len(microtasks) /\ Len(microtasks) \in Nat
      /\ DOMAIN microtasks' = 1 .. Len(microtasks) + 1
      /\ \A i \in 1 .. Len(microtasks) : microtasks'[i] = microtasks[i]
      /\ microtasks'[Len(microtasks) + 1] = m
  BY <1>1
<1> QED
  BY <1>2 DEF Queued

\* sub(): its callback was nowhere before, and is in one place after it.
LEMMA SubOnce ==
  ASSUME IInv, OnceInv, NEW l \in Listeners, NEW e \in AnyName, Sub(l, e)
  PROVE  OnceInv'
<1> SUFFICES ASSUME NEW k \in Listeners PROVE OnceOK(k)'
  BY DEF OnceInv
<1>1. OnceOK(k) /\ OnceOK(l)
  BY DEF OnceInv
<1>2. listener[l].st = "idle" /\ ~Listed(l) /\ ~Queued(l)
  BY <1>1 DEF Sub, OnceOK
<1>3. listener \in [Listeners -> ListenerState]
  BY DEF IInv, TypeOK
<1>4. PICK st \in {"subscribed", "dropped"} :
        /\ listener' = [listener EXCEPT ![l] = [st |-> st, on |-> e, runs |-> 0]]
        /\ st = "dropped" => MakeEphemeral(e) /\ e \notin StickyEvents /\ ~Live(e)
        /\ st = "subscribed" => Listen(e, l) \/ ListenLate(e, l)
  BY DEF Sub, Subscribed
<1>5. CASE Listen(e, l) /\ st = "subscribed"
  <2>1. /\ listeners' = [listeners EXCEPT ![e] = @ \cup {l}] /\ e \in DOMAIN listeners
        /\ microtasks' = microtasks
    BY <1>5 DEF Listen
  <2>2. Queued(k)' <=> Queued(k)
    BY <2>1 DEF Queued
  <2>3. CASE k # l
    <3>1. Listed(k)' <=> Listed(k)
      BY <2>1, <2>3 DEF Listed
    <3>2. listener'[k] = listener[k]
      BY <1>4, <2>3
    <3> QED
      BY <1>1, <2>1, <2>2, <2>3, <3>1, <3>2 DEF OnceOK
  <2>4. CASE k = l
    <3>1. listener'[l] = [st |-> "subscribed", on |-> e, runs |-> 0]
      BY <1>3, <1>4, <1>5
    <3>2. \A n \in DOMAIN listeners' : l \in listeners'[n] => n = e
      BY <1>2, <2>1 DEF Listed
    <3> QED
      BY <1>1, <1>2, <2>1, <2>2, <2>4, <3>1, <3>2 DEF OnceOK
  <2> QED
    BY <2>3, <2>4
<1>6. CASE ListenLate(e, l) /\ st = "subscribed"
  <2> DEFINE m == [fns |-> {l}, of |-> NoEvent, arg |-> stickyParcels[e]]
  <2>1. listeners' = listeners /\ microtasks' = Append(microtasks, m)
    BY <1>6 DEF ListenLate, MicrotaskBox
  <2>2. m \in Microtask
    BY <1>6 DEF IInv, ListenLate, BusConsistent, Fired, Live, TypeOK, Microtask
  <2>3. /\ Queued(k)' <=> Queued(k) \/ k = l
        /\ \A i \in DOMAIN microtasks' :
             \/ i \in DOMAIN microtasks /\ microtasks'[i] = microtasks[i]
             \/ i = Len(microtasks) + 1 /\ microtasks'[i] = m
    BY <2>1, <2>2, QueuedByAppend
  <2>4. Listed(k)' <=> Listed(k)
    BY <2>1 DEF Listed
  <2>5. CASE k # l
    BY <1>1, <1>4, <2>1, <2>3, <2>4, <2>5 DEF OnceOK
  <2>6. CASE k = l
    <3>1. listener'[l] = [st |-> "subscribed", on |-> e, runs |-> 0]
      BY <1>3, <1>4, <1>6
    <3>2. \A i \in DOMAIN microtasks' :
            microtasks'[i].of = NoEvent /\ l \in microtasks'[i].fns => i = Len(microtasks) + 1
      BY <1>2, <2>3 DEF Queued
    <3>3. \A n \in DOMAIN listeners' : l \notin listeners'[n]
      BY <1>2, <2>1 DEF Listed
    <3> QED
      BY <1>2, <2>3, <2>4, <2>6, <3>1, <3>2, <3>3 DEF OnceOK
  <2> QED
    BY <2>5, <2>6
<1>7. CASE MakeEphemeral(e) /\ ~Live(e) /\ st = "dropped"
  <2>1. /\ listeners' = [x \in DOMAIN listeners \cup {e} |-> IF x = e THEN {} ELSE listeners[x]]
        /\ microtasks' = microtasks /\ e \notin DOMAIN listeners
    BY <1>7 DEF MakeEphemeral, MapSet, IInv, BusConsistent, Live
  <2>2. (Listed(k)' <=> Listed(k)) /\ (Queued(k)' <=> Queued(k))
    BY <2>1 DEF Listed, Queued
  <2>3. CASE k # l
    BY <1>1, <1>4, <2>1, <2>2, <2>3 DEF OnceOK
  <2>4. CASE k = l
    <3>1. listener'[l].runs = 0
      BY <1>3, <1>4
    <3>2. \A n \in DOMAIN listeners' : l \notin listeners'[n]
      BY <1>2, <2>1 DEF Listed
    <3>3. ~Listed(l)' /\ ~Queued(l)'
      BY <1>2, <2>2, <2>4
    <3>4. \A i, j \in DOMAIN microtasks' :
            /\ microtasks'[i].of = NoEvent /\ l \in microtasks'[i].fns
            /\ microtasks'[j].of = NoEvent /\ l \in microtasks'[j].fns
            => i = j
      BY <1>1, <2>1 DEF OnceOK
    <3> QED
      BY <2>4, <3>1, <3>2, <3>3, <3>4 DEF OnceOK
  <2> QED
    BY <2>3, <2>4
<1> QED
  BY <1>4, <1>5, <1>6, <1>7

\* pub(): the callbacks of a one-shot event go from its set to one microtask.
LEMMA PublishOnce ==
  ASSUME IInv, OnceInv, NEW e \in AnyName, NEW p \in Parcels, Publish(e, p)
  PROVE  OnceInv'
<1> SUFFICES ASSUME NEW k \in Listeners PROVE OnceOK(k)'
  BY DEF OnceInv
<1> DEFINE m == [fns |-> MapGet(listeners, e),
                 of |-> IF OneShot(e) THEN NoEvent ELSE e, arg |-> p]
<1>1. OnceOK(k) /\ listener' = listener
  BY DEF OnceInv, Publish
<1>2. /\ listeners' = IF OneShot(e) THEN [x \in DOMAIN listeners \ {e} |-> listeners[x]] ELSE listeners
      /\ microtasks' = IF MapGet(listeners, e) = {} THEN microtasks ELSE Append(microtasks, m)
  BY DEF Publish, Pub, MapDelete, MicrotaskBox
<1>3. k \in MapGet(listeners, e) => e \in DOMAIN listeners /\ k \in listeners[e]
  BY DEF MapGet
<1>4. ~OneShot(e) /\ MapGet(listeners, e) # {} => e \in Events /\ e # NoEvent
  BY EventsAssumption DEF MapGet, IInv, BusConsistent, OneShot
<1>5. MapGet(listeners, e) \in SUBSET Listeners
  BY DEF MapGet, IInv, TypeOK
<1>6. CASE MapGet(listeners, e) = {}
  <2>1. Listed(k)' <=> Listed(k)
    BY <1>2, <1>6 DEF Listed, MapGet
  <2>2. Queued(k)' <=> Queued(k)
    BY <1>2, <1>6 DEF Queued
  <2> QED
    BY <1>1, <1>2, <1>6, <2>1, <2>2 DEF OnceOK
<1>7. CASE MapGet(listeners, e) # {}
  <2>1. m \in Microtask
    BY <1>4, <1>5, <1>7 DEF Microtask
  <2>2. microtasks' = Append(microtasks, m)
    BY <1>2, <1>7
  <2> HIDE DEF m
  <2>3. /\ Queued(k)' <=> Queued(k) \/ (m.of = NoEvent /\ k \in m.fns)
        /\ \A i \in DOMAIN microtasks' :
             \/ i \in DOMAIN microtasks /\ microtasks'[i] = microtasks[i]
             \/ i = Len(microtasks) + 1 /\ microtasks'[i] = m
    BY <2>1, <2>2, QueuedByAppend
  <2>4. CASE ~OneShot(e)
    <3>1. m.of # NoEvent
      BY <1>4, <1>7, <2>4 DEF m
    <3>2. listeners' = listeners /\ (Listed(k)' <=> Listed(k))
      BY <1>2, <2>4 DEF Listed
    <3> QED
      BY <1>1, <2>3, <3>1, <3>2 DEF OnceOK
  <2>5. CASE OneShot(e)
    <3>1. m.of = NoEvent /\ m.fns = MapGet(listeners, e)
      BY <2>5 DEF m
    <3>2. listeners' = [x \in DOMAIN listeners \ {e} |-> listeners[x]]
      BY <1>2, <2>5
    <3>3. CASE k \in MapGet(listeners, e)
      <4>1. Listed(k) /\ ~Queued(k) /\ listener[k].on = e
        BY <1>1, <1>3, <3>3 DEF OnceOK, Listed
      <4>2. ~Listed(k)' /\ \A n \in DOMAIN listeners' : k \notin listeners'[n]
        BY <1>1, <4>1, <3>2 DEF OnceOK, Listed
      <4>3. \A i \in DOMAIN microtasks' :
              microtasks'[i].of = NoEvent /\ k \in microtasks'[i].fns => i = Len(microtasks) + 1
        BY <2>3, <4>1 DEF Queued
      <4> QED
        BY <1>1, <4>1, <4>2, <4>3 DEF OnceOK
    <3>4. CASE k \notin MapGet(listeners, e)
      <4>1. Listed(k)' <=> Listed(k)
        BY <3>2, <3>4 DEF Listed, MapGet
      <4> QED
        BY <1>1, <2>3, <3>1, <3>2, <3>4, <4>1 DEF OnceOK
    <3> QED
      BY <3>3, <3>4
  <2> QED
    BY <2>4, <2>5
<1> QED
  BY <1>6, <1>7

\* A timed listener may run twice, and is not spoken of.
LEMMA SubElapsedOnce ==
  ASSUME IInv, OnceInv, NEW l \in Listeners, SubElapsed(l)
  PROVE  OnceInv'
<1> SUFFICES ASSUME NEW k \in Listeners PROVE OnceOK(k)'
  BY DEF OnceInv
<1>1. OnceOK(k) /\ l \in TimedListeners
  BY DEF OnceInv, IInv, TypeOK, SubElapsed
<1>2. listeners' = listeners /\ microtasks' = microtasks
  BY DEF SubElapsed, busVars
<1>3. (Listed(k)' <=> Listed(k)) /\ (Queued(k)' <=> Queued(k))
  BY <1>2 DEF Listed, Queued
<1>4. /\ listener'[k].on = listener[k].on /\ listener'[k].st = listener[k].st
      /\ k # l => listener'[k] = listener[k]
  BY DEF SubElapsed, Run
<1> QED
  BY <1>1, <1>2, <1>3, <1>4 DEF OnceOK

\* A microtask runs callbacks it alone held, or those of an event of Events.
LEMMA MicrotaskOnce ==
  ASSUME IInv, OnceInv, RunMicrotask
  PROVE  OnceInv'
<1> SUFFICES ASSUME NEW k \in Listeners PROVE OnceOK(k)'
  BY DEF OnceInv
<1> DEFINE m == microtasks[1]
<1>1. OnceOK(k)
  BY DEF OnceInv
<1>2. /\ microtasks \in Seq(Microtask) /\ microtasks # <<>>
      /\ microtasks' = Tail(microtasks) /\ Head(microtasks) = m
      /\ listeners' = listeners /\ Run(SafeBox(m))
  BY DEF RunMicrotask, IInv, TypeOK
<1>3. /\ 1 \in DOMAIN microtasks /\ m \in Microtask
      /\ \A i \in DOMAIN microtasks' :
           i + 1 \in DOMAIN microtasks /\ i + 1 # 1 /\ microtasks'[i] = microtasks[i + 1]
      /\ DOMAIN microtasks' \subseteq Nat
  BY <1>2
<1>4. /\ listener'[k].on = listener[k].on /\ listener'[k].st = listener[k].st
      /\ listener'[k].runs = IF k \in SafeBox(m) THEN listener[k].runs + 1 ELSE listener[k].runs
  BY <1>2 DEF Run
<1>5. (Listed(k)' <=> Listed(k)) /\ (Queued(k)' => Queued(k))
  BY <1>2, <1>3 DEF Listed, Queued
<1>6. \A i, j \in DOMAIN microtasks' :
        /\ microtasks'[i].of = NoEvent /\ k \in microtasks'[i].fns
        /\ microtasks'[j].of = NoEvent /\ k \in microtasks'[j].fns
        => i = j
  <2>1. \A i, j \in DOMAIN microtasks' : i + 1 = j + 1 => i = j
    BY <1>3
  <2> QED
    BY <1>1, <1>3, <2>1 DEF OnceOK
<1>7. k \in SafeBox(m) /\ listener[k].on \notin Events =>
        m.of = NoEvent /\ Queued(k) /\ ~Listed(k)' /\ ~Queued(k)'
  <2> SUFFICES ASSUME k \in SafeBox(m), listener[k].on \notin Events
               PROVE  m.of = NoEvent /\ Queued(k) /\ ~Listed(k)' /\ ~Queued(k)'
    OBVIOUS
  <2>1. m.of = NoEvent
    <3>1. m.of # NoEvent => m.of \in Events /\ m.of \in DOMAIN listeners /\ k \in listeners[m.of]
      BY <1>3 DEF Microtask, SafeBox, IInv, BusConsistent
    <3> QED
      BY <1>1, <3>1 DEF OnceOK
  <2>2. k \in m.fns
    BY <2>1 DEF SafeBox
  <2>3. Queued(k)
    BY <1>3, <2>1, <2>2 DEF Queued
  <2>4. ~Queued(k)'
    BY <1>1, <1>3, <2>1, <2>2 DEF Queued, OnceOK
  <2> QED
    BY <1>1, <1>5, <2>1, <2>3, <2>4 DEF OnceOK
<1>8. k \notin TimedListeners /\ listener'[k].on \notin Events =>
        /\ Listed(k)' \/ Queued(k)' => listener'[k].runs = 0
        /\ listener'[k].runs <= 1
  <2>1. CASE k \in SafeBox(m)
    BY <1>1, <1>4, <1>7, <2>1 DEF OnceOK
  <2>2. CASE k \notin SafeBox(m)
    BY <1>1, <1>4, <1>5, <2>2 DEF OnceOK
  <2> QED
    BY <2>1, <2>2
<1> QED
  BY <1>1, <1>2, <1>4, <1>5, <1>6, <1>8 DEF OnceOK

LEMMA NextOnce == IInv /\ OnceInv /\ [Next]_vars => OnceInv'
<1> SUFFICES ASSUME IInv, OnceInv, [Next]_vars PROVE OnceInv'
  OBVIOUS
<1>1. CASE UNCHANGED <<listeners, microtasks, listener>>
  BY <1>1, OnceUnmoved DEF OnceInv
<1>2. CASE \E w \in Waiters, e \in AnyName : WhenSettled(w, e) /\ MakeEphemeral(e)
                                             /\ e \notin StickyEvents /\ ~Live(e)
  <2> PICK w \in Waiters, e \in AnyName :
        WhenSettled(w, e) /\ MakeEphemeral(e) /\ ~Live(e)
    BY <1>2
  <2>1. /\ listeners' = [x \in DOMAIN listeners \cup {e} |-> IF x = e THEN {} ELSE listeners[x]]
        /\ microtasks' = microtasks /\ listener' = listener /\ e \notin DOMAIN listeners
    BY DEF WhenSettled, MakeEphemeral, MapSet, IInv, BusConsistent, Live
  <2>2. ASSUME NEW k \in Listeners PROVE OnceOK(k)'
    <3>1. OnceOK(k)
      BY DEF OnceInv
    <3>2. (Listed(k)' <=> Listed(k)) /\ (Queued(k)' <=> Queued(k))
      BY <2>1 DEF Listed, Queued
    <3> QED
      BY <2>1, <3>1, <3>2 DEF OnceOK
  <2> QED
    BY <2>2 DEF OnceInv
<1>3. CASE \/ \E l \in Listeners, e \in AnyName : Sub(l, e)
           \/ \E l \in Listeners : SubElapsed(l)
           \/ \E e \in AnyName, p \in Parcels : Publish(e, p)
           \/ RunMicrotask
  BY <1>3, SubOnce, SubElapsedOnce, PublishOnce, MicrotaskOnce
<1>4. ASSUME NEW w \in Waiters, NEW e \in AnyName, WhenSettled(w, e) \/ WhenPending(w, e)
      PROVE  \/ UNCHANGED <<listeners, microtasks, listener>>
             \/ WhenSettled(w, e) /\ MakeEphemeral(e) /\ e \notin StickyEvents /\ ~Live(e)
  BY <1>4 DEF WhenSettled, WhenPending, Join, busVars
<1>5. ASSUME NEW w \in Waiters, WhenElapsed(w)
      PROVE  UNCHANGED <<listeners, microtasks, listener>>
  BY <1>5 DEF WhenElapsed, busVars
<1>6. UNCHANGED vars => UNCHANGED <<listeners, microtasks, listener>>
  BY DEF vars, busVars
<1> QED
  BY <1>1, <1>2, <1>3, <1>4, <1>5, <1>6 DEF Next

\* For any clients: a listener of a sticky or made-up event that has no timer
\* runs at most once, however often its event is published (callbacks() takes
\* its set out of the Map before it queues it).
THEOREM RunOnce == Spec => []ListenersRunOnce
<1>1. OnceInv => ListenersRunOnce
  BY DEF OnceInv, OnceOK, ListenersRunOnce
<1> QED
  BY <1>1, InitIInv, NextIInv, InitOnce, NextOnce, PTL DEF Spec
=============================================================================
