----------------------------- MODULE BusClients -----------------------------
(***************************************************************************)
(* The bus of src/system.js under arbitrary clients: any code of the       *)
(* process may call pub(), sub() and when() on any name, in any order.     *)
(* Each waiter stands for the closure of one call of when(), each listener *)
(* for the callback of one call of sub().                                  *)
(***************************************************************************)
EXTENDS EventBus, FiniteSets

CONSTANTS
  Names,       \* names, beside the fixed ones, that clients make up
  Waiters,     \* calls of when()
  Listeners,   \* calls of sub()
  TimedListeners, \* those of them with timeout > 0
  Parcels,     \* what pub() carries
  NoParcel,    \* a promise's value before it has one
  MaxPubs      \* bound: how many times pub() is called

ASSUME ClientsAssumption ==
  /\ Names \cap (StickyEvents \cup Events) = {}
  /\ NoEvent \notin Names
  /\ Waiters \cap Listeners = {}
  /\ TimedListeners \subseteq Listeners
  /\ NoParcel \notin Parcels
  /\ MaxPubs \in Nat

VARIABLES
  waiter,    \* [st, on, got]: the promise of each when() and its event
  listener,  \* [st, on, runs]: each sub(), and how often its callback ran
  timer,     \* the listeners whose timeout is still armed
  pubs       \* how many pub() calls were made

vars == <<busVars, waiter, listener, timer, pubs>>

AnyName == StickyEvents \cup Events \cup Names \cup {NoEvent}

Init ==
  /\ BusInit
  /\ waiter = [w \in Waiters |-> [st |-> "idle", on |-> NoEvent, got |-> NoParcel]]
  /\ listener = [l \in Listeners |-> [st |-> "idle", on |-> NoEvent, runs |-> 0]]
  /\ timer = {}
  /\ pubs = 0
-----------------------------------------------------------------------------
Settle(w, e, st, p) ==
  waiter' = [waiter EXCEPT ![w] = [st |-> st, on |-> e, got |-> p]]

\* when(): an empty name rejects; a fired sticky event resolves at once; an
\* unknown name is created, and the caller is told it was missing.
WhenSettled(w, e) ==
  /\ waiter[w].st = "idle"
  /\ \/ /\ e = NoEvent
        /\ Settle(w, e, "rejected", NoParcel)
        /\ UNCHANGED busVars
     \/ /\ Fired(e)
        /\ Settle(w, e, "resolved", stickyParcels[e])
        /\ UNCHANGED busVars
     \/ /\ e # NoEvent /\ e \notin StickyEvents /\ ~Live(e)
        /\ MakeEphemeral(e)
        /\ Settle(w, e, "rejected", NoParcel)
  /\ UNCHANGED <<listener, timer, pubs>>

WhenPending(w, e) ==
  /\ waiter[w].st = "idle"
  /\ Join(e, w)
  /\ Settle(w, e, "pending", NoParcel)
  /\ UNCHANGED <<listener, timer, pubs>>

\* when()'s timer: the promise is rejected, the fulfiller stays in its group.
WhenElapsed(w) ==
  /\ waiter[w].st = "pending"
  /\ Settle(w, waiter[w].on, "rejected", NoParcel)
  /\ UNCHANGED <<busVars, listener, timer, pubs>>

Subscribed(l, e, st) ==
  listener' = [listener EXCEPT ![l] = [st |-> st, on |-> e, runs |-> 0]]

\* sub() on a live name, a fired sticky one, or one that must be created.
Sub(l, e) ==
  /\ listener[l].st = "idle"
  /\ e # NoEvent
  /\ \/ /\ Listen(e, l)
        /\ Subscribed(l, e, "subscribed")
        /\ timer' = IF l \in TimedListeners THEN timer \cup {l} ELSE timer
     \/ /\ ListenLate(e, l)
        /\ Subscribed(l, e, "subscribed")
        /\ UNCHANGED timer
     \/ /\ e \notin StickyEvents /\ ~Live(e)
        /\ MakeEphemeral(e)
        /\ Subscribed(l, e, "dropped")
        /\ UNCHANGED timer
  /\ UNCHANGED <<waiter, pubs>>

\* The callbacks in ls run, once each.
Run(ls) ==
  listener' = [l \in Listeners |->
                 IF l \in ls
                 THEN [st |-> listener[l].st, on |-> listener[l].on, runs |-> listener[l].runs + 1]
                 ELSE listener[l]]

\* sub()'s timer calls the callback and leaves it among the listeners.
SubElapsed(l) ==
  /\ l \in timer
  /\ timer' = timer \ {l}
  /\ Run({l})
  /\ UNCHANGED <<busVars, waiter, pubs>>

\* pub(): the fulfillers run inside the call; accept() on a promise that has
\* already settled does nothing.
Publish(e, p) ==
  /\ pubs < MaxPubs
  /\ pubs' = pubs + 1
  /\ Pub(e, p)
  /\ waiter' = [w \in Waiters |->
                  IF w \in Awaiters(e) /\ waiter[w].st = "pending"
                  THEN [st |-> "resolved", on |-> e, got |-> p]
                  ELSE waiter[w]]
  /\ UNCHANGED <<listener, timer>>

\* The event loop runs the oldest microtask; a timed listener's fulfiller
\* clears its timer.
RunMicrotask ==
  /\ microtasks # <<>>
  /\ Run(SafeBox(Head(microtasks)))
  /\ timer' = timer \ SafeBox(Head(microtasks))
  /\ microtasks' = Tail(microtasks)
  /\ UNCHANGED <<ephemeralEvents, waitGroup, listeners, stickyParcels, waiter, pubs>>

Next ==
  \/ \E w \in Waiters, e \in AnyName : WhenSettled(w, e) \/ WhenPending(w, e)
  \/ \E w \in Waiters : WhenElapsed(w)
  \/ \E l \in Listeners, e \in AnyName : Sub(l, e)
  \/ \E l \in Listeners : SubElapsed(l)
  \/ \E e \in AnyName, p \in Parcels : Publish(e, p)
  \/ RunMicrotask

Spec == Init /\ [][Next]_vars
-----------------------------------------------------------------------------
WaiterState ==
  [st : {"idle", "pending", "resolved", "rejected"}, on : AnyName, got : Parcels \cup {NoParcel}]
ListenerState == [st : {"idle", "subscribed", "dropped"}, on : AnyName, runs : Nat]
Microtask == [fns : SUBSET Listeners, of : Events \cup {NoEvent}, arg : Parcels]

TypeOK ==
  /\ ephemeralEvents \subseteq Names
  /\ waitGroup \in [DOMAIN waitGroup -> SUBSET Waiters]
  /\ listeners \in [DOMAIN listeners -> SUBSET Listeners]
  /\ DOMAIN waitGroup \cup DOMAIN listeners \subseteq AnyName \ {NoEvent}
  /\ DOMAIN stickyParcels \subseteq StickyEvents
  /\ \A e \in DOMAIN stickyParcels : stickyParcels[e] \in Parcels
  /\ microtasks \in Seq(Microtask)
  /\ waiter \in [Waiters -> WaiterState]
  /\ listener \in [Listeners -> ListenerState]
  /\ timer \subseteq TimedListeners
  /\ pubs \in 0 .. MaxPubs

\* No lost wake-up: a promise of when() that is still pending has its
\* fulfiller in the wait group the next pub of its event will run.  An event
\* retired or re-created under a waiter would strand it until its timeout.
NoStrandedWaiter ==
  \A w \in Waiters :
    waiter[w].st = "pending" => w \in MapGet(waitGroup, waiter[w].on)

\* A resolved wait on a sticky event got the parcel of the event's first pub,
\* whether it waited before the event fired, or asked after it was fired again.
StickyAgreement ==
  \A w \in Waiters :
    waiter[w].st = "resolved" /\ waiter[w].on \in StickyEvents =>
      /\ waiter[w].on \in DOMAIN stickyParcels
      /\ waiter[w].got = stickyParcels[waiter[w].on]

\* Listeners are "valid just the once for stickyEvents & ephemeralEvents":
\* an untimed listener of a one-shot event runs at most once however often
\* the event is published and whether it subscribed before or after it fired.
ListenersRunOnce ==
  \A l \in Listeners \ TimedListeners :
    listener[l].on \notin Events => listener[l].runs <= 1
=============================================================================
