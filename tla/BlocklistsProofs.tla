-------------------------- MODULE BlocklistsProofs --------------------------
(***************************************************************************)
(* Proofs about Blocklists: its safety for any number of requests and      *)
(* commands and any download timeout.                                      *)
(***************************************************************************)
EXTENDS Blocklists, TLAPS

\* As long as no construction was late, the flag is up while there is one, and
\* it is not overdue.
Flagged == ~late => (Constructing # {} => building /\ ~Overdue)

\* load() is for good: who saw the filter set up will find it so.
SeenIsLoaded == \A r \in Requests : ts[r] # NoFilter => loaded

\* Nobody constructs what is there, and so what was seen stays.
Final == ~late => /\ loaded => Constructing = {}
                  /\ \A r \in Requests : ts[r] # NoFilter => filter = ts[r]

\* A request has no outcome before upstream has, other than a blocked question.
Unanswered ==
  \A r \in Requests :
    /\ upstream[r] \in {"none", "asked"} =>
         result[r] \in {"none", "blocked"} /\ primed[r] # "bare"
    /\ result[r] = "none" => primed[r] = "no"

\* Whoever polls has time left, and whoever did not has all of it.
PollsInTime ==
  \A c \in Calls : /\ init[c] = "none" => waited[c] = 0
                   /\ init[c] = "polling" => waited[c] < Timeout

Inv ==
  /\ TypeOK /\ PollsInTime
  /\ NeverWedged /\ Flagged /\ OneConstruction
  /\ Final
  /\ SeenIsLoaded /\ Unanswered /\ CloakedAreBlocked /\ CachedUnderOwnFilter

\* The part of the invariant about constructions depends on these variables.
building_vars == <<building, age, init, late>>

Building == NeverWedged /\ Flagged /\ OneConstruction

\* The parts of the invariant about requests.
Serving == SeenIsLoaded /\ Unanswered /\ CloakedAreBlocked /\ CachedUnderOwnFilter
-----------------------------------------------------------------------------
\* What init() does keeps the types, whoever calls it.
LEMMA InitCallType ==
  ASSUME TypeOK, NEW c \in Calls, NEW f \in BOOLEAN, InitCall(c, f)
  PROVE  /\ building' \in BOOLEAN
         /\ age' \in 0 .. 2 * Timeout + 1
         /\ init' \in [Calls -> {"none", "renewing", "downloading", "polling",
                                 "filter", "empty", "exception"}]
         /\ waited' = waited
         /\ asleep' \subseteq Calls
<1>1. CASE Construct(c)
  BY <1>1, BlocklistsAssumption DEF Construct, InitIs, TypeOK
<1>2. CASE UNCHANGED <<building, age, waited>> /\ \E st \in {"filter", "empty", "polling"} : InitIs(c, st)
            /\ asleep' \in {asleep, asleep \cup {c}}
  BY <1>2 DEF InitIs, TypeOK
<1> QED
  BY <1>1, <1>2 DEF InitCall

LEMMA InitCallPolls ==
  ASSUME TypeOK, PollsInTime, NEW c \in Calls, NEW f \in BOOLEAN, InitCall(c, f)
  PROVE  PollsInTime'
<1>1. waited' = waited /\ init[c] = "none" /\ \E st : InitIs(c, st) /\ st # "none"
  BY DEF InitCall, Construct, InitIs
<1> QED
  BY <1>1, BlocklistsAssumption DEF PollsInTime, InitIs, TypeOK

\* init() starts a construction only if none is going on, unless one was late.
LEMMA InitCallBuilding ==
  ASSUME TypeOK, Building, NEW c \in Calls, NEW f \in BOOLEAN, InitCall(c, f),
         UNCHANGED late
  PROVE  Building'
<1> USE DEF Building, NeverWedged, Flagged, OneConstruction, Constructing, Overdue, TypeOK
<1>1. CASE /\ building' = TRUE /\ age' = 0
           /\ InitIs(c, "renewing") \/ InitIs(c, "downloading")
           /\ ~building \/ Overdue
  <2>1. ~late => Constructing = {}
    BY <1>1
  <2>2. Constructing' = Constructing \cup {c}
    BY <1>1 DEF InitIs
  <2> QED
    BY <1>1, <2>1, <2>2, BlocklistsAssumption
<1>2. CASE UNCHANGED <<building, age>> /\ \E st \in {"filter", "empty", "polling"} : InitIs(c, st)
  <2>1. Constructing' = Constructing
    BY <1>2 DEF InitIs, InitCall
  <2> QED
    BY <1>2, <2>1
<1> QED
  BY <1>1, <1>2 DEF InitCall, Construct

\* A construction that ends lowers the flag; if others go on, one was late.
LEMMA EndBuilding ==
  ASSUME TypeOK, Building, NEW c \in Calls, init[c] = "downloading",
         building' = FALSE, UNCHANGED <<age, late>>,
         InitIs(c, "filter") \/ InitIs(c, "exception")
  PROVE  Building'
<1> USE DEF Building, NeverWedged, Flagged, OneConstruction, Constructing, Overdue, TypeOK
<1>1. Constructing' = Constructing \ {c}
  BY DEF InitIs
<1>2. c \in Constructing
  OBVIOUS
<1>3. ~late => Constructing' = {}
  BY <1>1, <1>2
<1> QED
  BY <1>1, <1>3

\* The filter that is there stays, and requests that come in see it.
LEMMA FinalKept ==
  ASSUME TypeOK, Final, Constructing' \subseteq Constructing \/ ~loaded,
         filter' = filter, late => late',
         ts' = ts \/ \E r \in Requests : ts' = [ts EXCEPT ![r] = filter]
  PROVE  Final'
<1> SUFFICES ASSUME ~late' PROVE (loaded => Constructing = {})'
                                 /\ \A r \in Requests : ts'[r] # NoFilter => filter = ts'[r]
  BY DEF Final
<1>1. (loaded => Constructing = {})'
  BY DEF Final, loaded
<1>2. \A r \in Requests : ts'[r] # NoFilter => filter = ts'[r]
  BY DEF Final, TypeOK
<1> QED
  BY <1>1, <1>2

\* Constructions begin only where there is no filter.
LEMMA InitCallConstructing ==
  ASSUME TypeOK, NEW c \in Calls, NEW f \in BOOLEAN, InitCall(c, f)
  PROVE  Constructing' \subseteq Constructing \/ ~loaded
<1>1. CASE ~Ready(f)
  BY <1>1 DEF Ready
<1>2. CASE Ready(f)
  BY <1>2 DEF InitCall, InitIs, Constructing, TypeOK
<1> QED
  BY <1>1, <1>2
-----------------------------------------------------------------------------
LEMMA InitInv == Init => Inv
<1> SUFFICES ASSUME Init PROVE Inv
  OBVIOUS
<1> USE DEF Init, Versions, NoFilter, loaded
<1>1. TypeOK
  <2>1. age \in 0 .. 2 * Timeout + 1 /\ 0 \in 0 .. Timeout
    BY BlocklistsAssumption
  <2>2. waited \in [Calls -> 0 .. Timeout]
    BY <2>1
  <2> QED
    BY <2>1, <2>2 DEF TypeOK, Listings
<1>2. NeverWedged /\ Flagged /\ OneConstruction
  BY DEF NeverWedged, Flagged, OneConstruction, Constructing
<1>3. SeenIsLoaded /\ Unanswered /\ CloakedAreBlocked /\ CachedUnderOwnFilter
  BY DEF SeenIsLoaded, Unanswered, CloakedAreBlocked, CachedUnderOwnFilter
<1>4. PollsInTime
  BY DEF PollsInTime
<1>5. Final
  BY DEF Final, loaded
<1> QED
  BY <1>1, <1>2, <1>3, <1>4, <1>5 DEF Inv

LEMMA NextInv == Inv /\ [Next]_vars => Inv'
<1> SUFFICES ASSUME Inv, [Next]_vars PROVE Inv'
  OBVIOUS
<1> USE DEF Inv, settings, request, Versions, NoFilter
<1>a. Inv' <=> TypeOK' /\ PollsInTime' /\ Building' /\ Serving' /\ Final'
  BY DEF Building, Serving
<1>b. Building /\ Serving
  BY DEF Building, Serving
<1>c. UNCHANGED building_vars => Building'
  BY DEF building_vars, Building, NeverWedged, Flagged, OneConstruction, Constructing, Overdue
<1>e. UNCHANGED <<init, waited>> => PollsInTime'
  BY DEF PollsInTime
<1>d. UNCHANGED <<request, filter, noop, late>> => Serving'
  BY DEF Serving, SeenIsLoaded, Unanswered, CloakedAreBlocked, CachedUnderOwnFilter, loaded
<1>f. ASSUME Constructing' \subseteq Constructing \/ ~loaded,
             filter' = filter, late => late',
             ts' = ts \/ \E r \in Requests : ts' = [ts EXCEPT ![r] = filter]
      PROVE  Final'
  BY <1>f, FinalKept
<1>g. UNCHANGED <<init, filter, late, ts>> => Final'
  <2>1. init' = init => Constructing' = Constructing
    BY DEF Constructing
  <2> QED
    BY <2>1, <1>f
<1>1. ASSUME NEW c \in Commands, Command(c) PROVE Inv'
  <2>1. c \in Calls /\ InitCall(c, TRUE) /\ UNCHANGED late
    BY <1>1 DEF Command, Calls
  <2>2. TypeOK'
    BY <1>1, <2>1, InitCallType DEF Command, TypeOK
  <2>3. Building' /\ PollsInTime'
    BY <2>1, <1>b, InitCallBuilding, InitCallPolls
  <2>c. Constructing' \subseteq Constructing \/ ~loaded
    BY <2>1, InitCallConstructing
  <2>f. Final'
    BY <1>1, <2>c, <1>f DEF Command
  <2> QED
    BY <2>f, <1>1, <2>2, <2>3, <1>a, <1>d DEF Command
<1>2. ASSUME NEW c \in Calls, Renewed(c) PROVE Inv'
  <2>1. TypeOK'
    BY <1>2 DEF Renewed, InitIs, TypeOK
  <2>2. Constructing' = Constructing
    BY <1>2 DEF Renewed, InitIs, TypeOK, Constructing
  <2>3. Building'
    BY <1>2, <2>2 DEF Renewed, Building, NeverWedged, Flagged, OneConstruction, Overdue
  <2>p. PollsInTime'
    BY <1>2 DEF Renewed, InitIs, PollsInTime, TypeOK
  <2>f. Final'
    BY <1>2, <2>2, <1>f DEF Renewed
  <2> QED
    BY <2>f, <1>2, <2>1, <2>3, <2>p, <1>a, <1>d DEF Renewed
<1>3. ASSUME NEW c \in Calls, Built(c) PROVE Inv'
  <2>1. TypeOK'
    BY <1>3 DEF Built, InitIs, TypeOK
  <2>2. Building'
    BY <1>3, <1>b, EndBuilding DEF Built
  <2>3. Serving'
    BY <1>3 DEF Built, TypeOK, Serving, SeenIsLoaded, Unanswered, CloakedAreBlocked, CachedUnderOwnFilter, loaded
  <2>p. PollsInTime'
    BY <1>3 DEF Built, InitIs, PollsInTime, TypeOK
  <2>f. Final'
    <3> SUFFICES ASSUME ~late' PROVE Final'
      BY DEF Final
    <3>1. c \in Constructing /\ ~late
      BY <1>3 DEF Built, Constructing
    <3>2. ~loaded /\ Constructing = {c}
      BY <3>1 DEF Final, OneConstruction
    <3>3. Constructing' = {}
      BY <1>3, <3>2 DEF Built, InitIs, Constructing, TypeOK
    <3>4. \A r \in Requests : ts[r] = NoFilter
      BY <3>2 DEF SeenIsLoaded
    <3> QED
      BY <1>3, <3>3, <3>4 DEF Built, Final
  <2> QED
    BY <2>f, <2>1, <2>2, <2>3, <2>p, <1>a
<1>4. ASSUME NEW c \in Calls, BuildFails(c) PROVE Inv'
  <2>1. TypeOK'
    BY <1>4 DEF BuildFails, InitIs, TypeOK
  <2>2. Building'
    BY <1>4, <1>b, EndBuilding DEF BuildFails
  <2>p. PollsInTime'
    BY <1>4 DEF BuildFails, InitIs, PollsInTime, TypeOK
  <2>c. Constructing' \subseteq Constructing
    BY <1>4 DEF BuildFails, InitIs, Constructing, TypeOK
  <2>f. Final'
    BY <1>4, <2>c, <1>f DEF BuildFails
  <2> QED
    BY <2>f, <1>4, <2>1, <2>2, <2>p, <1>a, <1>d DEF BuildFails
<1>5. ASSUME NEW c \in Calls, Wake(c) PROVE Inv'
  <2>1. waited[c] \in Nat /\ waited[c] + 1 \in 0 .. Timeout
    BY <1>5, BlocklistsAssumption DEF Wake, PollsInTime, TypeOK
  <2>2. TypeOK'
    BY <1>5, <2>1 DEF Wake, Total, InitIs, TypeOK
  <2>3. PollsInTime'
    BY <1>5, <2>1, BlocklistsAssumption DEF Wake, Total, InitIs, PollsInTime, TypeOK
  <2>4. Constructing' = Constructing
    BY <1>5 DEF Wake, InitIs, TypeOK, Constructing
  <2>5. Building'
    BY <1>5, <2>4 DEF Wake, Building, NeverWedged, Flagged, OneConstruction, Overdue
  <2>f. Final'
    BY <1>5, <2>4, <1>f DEF Wake
  <2> QED
    BY <2>f, <1>5, <2>2, <2>3, <2>5, <1>a, <1>d DEF Wake
<1>6. ASSUME NEW r \in Requests, Block(r) PROVE Inv'
  <2>1. TypeOK'
    BY <1>6 DEF Block, QuestionBlocked, loaded, TypeOK, Listings
  <2>2. Serving'
    BY <1>6 DEF Block, QuestionBlocked, TypeOK, Serving, SeenIsLoaded, Unanswered,
                CloakedAreBlocked, CachedUnderOwnFilter, loaded
  <2>c. Constructing' = Constructing
    BY <1>6 DEF Block, Constructing
  <2>f. Final'
    BY <1>6, <2>c, <1>f DEF Block
  <2> QED
    BY <2>f, <1>6, <2>1, <2>2, <1>a, <1>e, <1>c DEF Block, building_vars
<1>7. ASSUME NEW r \in Requests, Resolve(r) PROVE Inv'
  <2>1. r \in Calls /\ InitCall(r, FALSE) /\ UNCHANGED late
    BY <1>7 DEF Resolve, Calls
  <2>2. TypeOK'
    BY <1>7, <2>1, InitCallType DEF Resolve, TypeOK
  <2>3. Building' /\ PollsInTime'
    BY <2>1, <1>b, InitCallBuilding, InitCallPolls
  <2>4. Serving'
    BY <1>7 DEF Resolve, TypeOK, Serving, SeenIsLoaded, Unanswered,
                CloakedAreBlocked, CachedUnderOwnFilter, loaded
  <2>c. Constructing' \subseteq Constructing \/ ~loaded
    BY <2>1, InitCallConstructing
  <2>f. Final'
    BY <1>7, <2>c, <1>f DEF Resolve
  <2> QED
    BY <2>f, <2>2, <2>3, <2>4, <1>a
<1>8. ASSUME NEW r \in Requests, ResolveFails(r) PROVE Inv'
  <2>1. TypeOK'
    BY <1>8 DEF ResolveFails, TypeOK
  <2>2. Serving'
    BY <1>8 DEF ResolveFails, Settled, Outcomes, TypeOK, Serving, SeenIsLoaded, Unanswered,
                CloakedAreBlocked, CachedUnderOwnFilter, loaded
  <2>f. Final'
    BY <1>8, <1>g DEF ResolveFails
  <2> QED
    BY <2>f, <1>8, <2>1, <2>2, <1>a, <1>e, <1>c DEF ResolveFails, building_vars
<1>9. ASSUME NEW r \in Requests, NEW o \in Outcomes, Upstream(r, o) PROVE Inv'
  <2>1. TypeOK'
    BY <1>9 DEF Upstream, TypeOK
  <2>2. Serving'
    BY <1>9 DEF Upstream, Outcomes, TypeOK, Serving, SeenIsLoaded, Unanswered,
                CloakedAreBlocked, CachedUnderOwnFilter, loaded
  <2>f. Final'
    BY <1>9, <1>g DEF Upstream
  <2> QED
    BY <2>f, <1>9, <2>1, <2>2, <1>a, <1>e, <1>c DEF Upstream, building_vars
<1>10. ASSUME NEW r \in Requests, NEW fromCache \in BOOLEAN, Resolved(r, fromCache) PROVE Inv'
  <2>1. TypeOK'
    BY <1>10 DEF Resolved, loaded, TypeOK
  <2>2. SeenIsLoaded' /\ Unanswered'
    BY <1>10 DEF Resolved, Settled, Outcomes, TypeOK, SeenIsLoaded, Unanswered, loaded
  <2>3. ~max[r] /\ ~noop => loaded
    BY <1>10 DEF Resolved, Unfiltered, SeenIsLoaded
  <2>4. CloakedAreBlocked'
    BY <1>10, <2>3 DEF Resolved, AnswerBlocked, TypeOK, CloakedAreBlocked
  <2>5. CachedUnderOwnFilter'
    BY <1>10, <2>3 DEF Resolved, Primes, TypeOK, Final, CachedUnderOwnFilter, loaded
  <2>f. Final'
    BY <1>10, <1>g DEF Resolved
  <2> QED
    BY <2>f, <1>10, <2>1, <2>2, <2>4, <2>5, <1>a, <1>e, <1>c DEF Serving, Resolved, building_vars
<1>11. CASE Tick
  <2>1. TypeOK'
    BY <1>11, BlocklistsAssumption DEF Tick, Overdue, TypeOK
  <2>2. Constructing' = Constructing
    BY <1>11 DEF Tick, Constructing
  <2>3. Building'
    BY <1>11, <2>2, BlocklistsAssumption
      DEF Tick, Building, NeverWedged, Flagged, OneConstruction, Overdue, TypeOK
  <2>f. Final'
    BY <1>11, <2>2, <1>f DEF Tick
  <2>s. Serving'
    BY <1>11, <1>b DEF Tick, Serving, SeenIsLoaded, Unanswered, CloakedAreBlocked, CachedUnderOwnFilter, loaded
  <2> QED
    BY <2>f, <2>s, <1>11, <2>1, <2>3, <1>a, <1>e, <1>d DEF Tick
<1>12. CASE SetupLocally
  <2>0. 0 \in 0 .. 2 * Timeout + 1
    BY BlocklistsAssumption
  <2>1. TypeOK'
    BY <1>12, <2>0 DEF SetupLocally, TypeOK
  <2>2. Constructing' = {}
    BY <1>12 DEF SetupLocally, Constructing
  <2>3. Building'
    BY <1>12, <2>2 DEF SetupLocally, Building, NeverWedged, Flagged, OneConstruction
  <2>4. Serving'
    BY <1>12, <1>b DEF SetupLocally, Serving, SeenIsLoaded, Unanswered, CloakedAreBlocked, CachedUnderOwnFilter, loaded
  <2>f. Final'
    <3>1. \A r \in Requests : ts[r] = NoFilter
      BY <1>12 DEF SetupLocally, SeenIsLoaded
    <3> QED
      BY <1>12, <2>2, <3>1 DEF SetupLocally, Final
  <2> QED
    BY <2>f, <1>12, <2>1, <2>3, <2>4, <1>a, <1>e DEF SetupLocally
<1>13. CASE UNCHANGED vars
  <2>1. TypeOK'
    BY <1>13 DEF vars, TypeOK
  <2>f. Final'
    BY <1>13, <1>g DEF vars
  <2> QED
    BY <2>f, <1>13, <2>1, <1>a, <1>e, <1>c, <1>d DEF vars, building_vars
<1> QED
  BY <1>1, <1>2, <1>3, <1>4, <1>5, <1>6, <1>7, <1>8, <1>9, <1>10, <1>11, <1>12, <1>13 DEF Next
-----------------------------------------------------------------------------
\* Whatever downloads hang, fail or overlap: the construction flag is never
\* stuck, there is one construction at a time as long as none was late, no
\* answer that begins by leading to or from a listed name slips through, and
\* none gets into the cache unfiltered.
THEOREM FilterSafety ==
  Spec => [](TypeOK /\ NeverWedged /\ OneConstruction /\ CloakedAreBlocked /\ CachedUnderOwnFilter)
<1>1. Inv => TypeOK /\ NeverWedged /\ OneConstruction /\ CloakedAreBlocked /\ CachedUnderOwnFilter
  BY DEF Inv
<1> QED
  BY <1>1, InitInv, NextInv, PTL DEF Spec

\* load() is for good: a filter, once set up, is never taken away, and as long
\* as no construction is late it is not replaced by another one either, however
\* many callers initialise it meanwhile.  Requests that looked at it before an
\* await may go on with it after.
FilterStays == loaded => loaded' /\ (late \/ filter' = filter)

\* No step takes the filter away, and none replaces it while nothing is late.
THEOREM FilterIsFinal == Spec => [][FilterStays]_vars
<1>1. ASSUME Inv, [Next]_vars PROVE FilterStays
  <2> SUFFICES ASSUME loaded, filter' # filter
               PROVE  loaded' /\ late
    BY DEF FilterStays, loaded
  <2>1. ~SetupLocally
    BY DEF SetupLocally
  <2>2. PICK c \in Calls : Built(c)
    BY <1>1, <2>1 DEF Next, vars, Command, Renewed, BuildFails, Wake, Block, Resolve,
                      ResolveFails, Upstream, Resolved, Tick
  <2>3. c \in Constructing
    BY <2>2 DEF Built, Constructing
  <2>4. late
    BY <1>1, <2>3 DEF Inv, Final
  <2>5. filter' \in Versions
    BY <1>1, <2>2 DEF Built, Inv, TypeOK
  <2> QED
    BY <2>4, <2>5 DEF loaded, Versions, NoFilter
<1> QED
  BY <1>1, InitInv, NextInv, PTL DEF Spec
-----------------------------------------------------------------------------
\* A call that polls goes on to sleep again, which brings its end nearer by one of
\* Timeout sleeps, or it is woken (or passed over), or it returns.
PollsOn ==
  \A c \in Calls : init[c] = "polling" =>
    \/ init'[c] \in {"filter", "exception"}
    \/ /\ init'[c] = "polling" /\ c \in asleep'
       /\ c \notin asleep /\ waited'[c] = waited[c] + 1
    \/ /\ init'[c] = "polling" /\ waited'[c] = waited[c]
       /\ c \in asleep' => c \in asleep

LEMMA StepPollsOn == Inv /\ [Next]_vars => PollsOn
<1> SUFFICES ASSUME Inv, [Next]_vars, NEW c \in Calls, init[c] = "polling"
             PROVE  \/ init'[c] \in {"filter", "exception"}
                    \/ /\ init'[c] = "polling" /\ c \in asleep'
                       /\ c \notin asleep /\ waited'[c] = waited[c] + 1
                    \/ /\ init'[c] = "polling" /\ waited'[c] = waited[c]
                       /\ c \in asleep' => c \in asleep
  BY DEF PollsOn
<1>0. TypeOK
  BY DEF Inv
<1>1. ASSUME NEW d \in Calls, NEW f \in BOOLEAN, InitCall(d, f)
      PROVE  /\ init'[c] = "polling" /\ waited'[c] = waited[c]
             /\ c \in asleep' => c \in asleep
  BY <1>0, <1>1 DEF InitCall, InitIs, Construct, TypeOK
<1>2. ASSUME NEW d \in Calls, Renewed(d) \/ Built(d) \/ BuildFails(d)
      PROVE  init' = [init EXCEPT ![d] = init'[d]] /\ init[d] # "polling"
             /\ waited' = waited /\ asleep' = asleep
  BY <1>0, <1>2 DEF Renewed, Built, BuildFails, InitIs, TypeOK
<1>3. ASSUME NEW d \in Calls, Wake(d), d # c
      PROVE  /\ init'[c] = "polling" /\ waited'[c] = waited[c]
             /\ c \in asleep' => c \in asleep
  BY <1>0, <1>3 DEF Wake, InitIs, TypeOK
<1>4. ASSUME Wake(c)
      PROVE  \/ init'[c] \in {"filter", "exception"}
             \/ /\ init'[c] = "polling" /\ c \in asleep'
                /\ c \notin asleep /\ waited'[c] = waited[c] + 1
  BY <1>0, <1>4 DEF Wake, InitIs, Total, TypeOK
<1>5. CASE SetupLocally \/ Tick \/ UNCHANGED vars
  BY <1>5 DEF SetupLocally, Tick, vars
<1>6. CASE \E d \in Commands : Command(d)
  BY <1>1, <1>6 DEF Command, Calls
<1>7. CASE \E d \in Calls : Renewed(d) \/ Built(d) \/ BuildFails(d) \/ Wake(d)
  BY <1>0, <1>2, <1>3, <1>4, <1>7 DEF TypeOK
<1>8. ASSUME NEW r \in Requests,
             \/ Block(r) \/ Resolve(r) \/ ResolveFails(r)
             \/ \E o \in Outcomes : Upstream(r, o)
             \/ \E fromCache \in BOOLEAN : Resolved(r, fromCache)
      PROVE  /\ init'[c] = "polling" /\ waited'[c] = waited[c]
             /\ c \in asleep' => c \in asleep
  <2>1. CASE Resolve(r)
    BY <1>1, <2>1 DEF Resolve, Calls
  <2> QED
    BY <1>8, <2>1 DEF Block, ResolveFails, Upstream, Resolved
<1> QED
  BY <1>5, <1>6, <1>7, <1>8 DEF Next

\* However long a download hangs, whoever waits for it sleeps Timeout times at the
\* most.  Only that time goes by is left to fairness, with which Blocklists.cfg
\* checks that the wait ends.
THEOREM PollsEnd == Spec => []PollsInTime /\ [][PollsOn]_vars
<1>1. Inv => PollsInTime
  BY DEF Inv
<1> QED
  BY <1>1, InitInv, NextInv, StepPollsOn, PTL DEF Spec
=============================================================================
