------------------------------ MODULE EventBus ------------------------------
(***************************************************************************)
(* The process-wide event bus of src/system.js: its Maps and Sets, and     *)
(* what pub(), sub() and when() do to them.  The functions of system.js    *)
(* run to completion on the one JavaScript thread, so each is one step.    *)
(*                                                                         *)
(* An event is sticky (fires once, its parcel is kept for late comers),    *)
(* ordinary ("stop": fires any number of times) or ephemeral (it exists    *)
(* from the first mention of its name until its first pub).  Callbacks are *)
(* opaque tokens; the module that uses the bus says what each one does.    *)
(***************************************************************************)
EXTENDS Naturals, Sequences

CONSTANTS
  StickyEvents,   \* the names of system.js' stickyEvents
  Events,         \* the names of system.js' events, i.e. {"stop"}
  NoEvent         \* the empty (or null) name

ASSUME EventsAssumption ==
  /\ StickyEvents \cap Events = {}
  /\ NoEvent \notin StickyEvents \cup Events

VARIABLES
  ephemeralEvents,   \* names alive only until their first pub
  waitGroup,         \* Map: event name -> the fulfillers when() left there
  listeners,         \* Map: event name -> the callbacks sub() left there
  stickyParcels,     \* Map: sticky event name -> parcel it was published with
  microtasks         \* queueMicrotask's queue of [fns, of, arg], oldest first

busVars == <<ephemeralEvents, waitGroup, listeners, stickyParcels, microtasks>>

\* Map.set and Map.delete.
MapSet(m, k, v) ==
  [x \in DOMAIN m \cup {k} |-> IF x = k THEN v ELSE m[x]]
MapDelete(m, k) == [x \in DOMAIN m \ {k} |-> m[x]]
MapGet(m, k) == IF k \in DOMAIN m THEN m[k] ELSE {}

BusInit ==
  /\ ephemeralEvents = {}
  /\ waitGroup = [e \in StickyEvents \cup Events |-> {}]
  /\ listeners = [e \in StickyEvents \cup Events |-> {}]
  /\ stickyParcels = [e \in {} |-> {}]
  /\ microtasks = <<>>

\* A name the bus holds entries for, now.
Live(e) == e \in DOMAIN waitGroup

\* A sticky event whose entries pub() has removed: it has fired.
Fired(e) == e \in StickyEvents /\ ~Live(e)

\* What a forgetful sub() or when() would do: only one of the two Maps is set.
MakeEphemeralHalf(e) ==
  /\ ephemeralEvents' = ephemeralEvents \cup {e}
  /\ waitGroup' = MapSet(waitGroup, e, {})
  /\ UNCHANGED <<listeners, stickyParcels, microtasks>>

\* Both branches of sub() and when() that meet a name they do not know: the
\* name is made ephemeral, and the caller's own callback is NOT kept.
MakeEphemeral(e) ==
  /\ ephemeralEvents' = ephemeralEvents \cup {e}
  /\ listeners' = MapSet(listeners, e, {})
  /\ waitGroup' = MapSet(waitGroup, e, {})
  /\ UNCHANGED <<stickyParcels, microtasks>>

\* when() on a live name: the fulfiller joins the wait group.
Join(e, f) ==
  /\ Live(e)
  /\ waitGroup' = [waitGroup EXCEPT ![e] = @ \cup {f}]
  /\ UNCHANGED <<ephemeralEvents, listeners, stickyParcels, microtasks>>

\* sub() on a live name.
Listen(e, f) ==
  /\ e \in DOMAIN listeners
  /\ listeners' = [listeners EXCEPT ![e] = @ \cup {f}]
  /\ UNCHANGED <<ephemeralEvents, waitGroup, stickyParcels, microtasks>>

\* Slip: a Set of callbacks is boxed once more.
MicrotaskBoxNested(queue, fns, of, arg) ==
  Append(queue, [fns |-> {fns}, of |-> of, arg |-> arg])

\* microtaskBox: the callbacks are queued, not run.  What is queued is the Set
\* itself: the one that is still in listeners under the name "of" may grow
\* until the microtask runs; NoEvent says that nothing else holds the Set.
MicrotaskBox(queue, fns, of, arg) ==
  Append(queue, [fns |-> fns, of |-> of, arg |-> arg])

\* safeBox: the callbacks a queued microtask m runs.
SafeBox(m) == IF m.of = NoEvent THEN m.fns ELSE listeners[m.of]

\* sub() on a sticky event that has fired: the callback is queued at once.
ListenLate(e, f) ==
  /\ e \in StickyEvents \ DOMAIN listeners
  /\ microtasks' = MicrotaskBox(microtasks, {f}, NoEvent, stickyParcels[e])
  /\ UNCHANGED <<ephemeralEvents, waitGroup, listeners, stickyParcels>>

\* Slips: pub() keeps the entries of ephemeral events, or stores the parcel of
\* a sticky event each time.
OneShotSticky(e) == e \in StickyEvents
KnownAlways(e) == TRUE

\* An event someone waits for, or listens to, or once will.
Known(e) == Live(e) \/ e \in DOMAIN listeners

\* pub(): awaiters() then callbacks().  One-shot events lose their entries
\* before their callbacks are run, so those cannot be reached twice.
OneShot(e) == e \in StickyEvents \cup ephemeralEvents

Pub(e, parcel) ==
  /\ ephemeralEvents' = ephemeralEvents \ {e}
  /\ waitGroup' = IF OneShot(e) THEN MapDelete(waitGroup, e) ELSE waitGroup
  /\ listeners' = IF OneShot(e) THEN MapDelete(listeners, e) ELSE listeners
  /\ stickyParcels' =
       IF e \in StickyEvents /\ Known(e)
       THEN MapSet(stickyParcels, e, parcel)
       ELSE stickyParcels
  /\ microtasks' =
       IF MapGet(listeners, e) = {}
       THEN microtasks
       ELSE MicrotaskBox(microtasks, MapGet(listeners, e),
                         IF OneShot(e) THEN NoEvent ELSE e, parcel)

\* Slip: the wait group is read after it was deleted.
AwaitersLate(e) == IF OneShot(e) THEN {} ELSE MapGet(waitGroup, e)

\* The fulfillers pub(e) runs before it returns.
Awaiters(e) == MapGet(waitGroup, e)

\* What holds between any two calls into the bus: the two Maps have the same
\* keys, a name outside the two fixed sets has entries exactly while it is
\* ephemeral, and a sticky event keeps a parcel exactly when it has fired.
BusConsistent ==
  /\ DOMAIN waitGroup = DOMAIN listeners
  /\ DOMAIN waitGroup \ (StickyEvents \cup Events) = ephemeralEvents
  /\ Events \subseteq DOMAIN waitGroup
  /\ DOMAIN stickyParcels = {e \in StickyEvents : Fired(e)}
=============================================================================
