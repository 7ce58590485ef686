------------------------------ MODULE Platforms ------------------------------
(***************************************************************************)
(* How a DNS-over-HTTPS request gets to Doh where there is no Node: on     *)
(* Cloudflare Workers and on Fastly Compute (src/server-workers.js,        *)
(* src/server-fastly.js) and on Deno (src/server-deno.ts), each with its   *)
(* own configuration (src/core/<platform>/config) of the one system that   *)
(* the sticky events of src/system.js bring up.                            *)
(*                                                                         *)
(* A serverless platform is brought up by the requests themselves: every   *)
(* one publishes "prepare" and waits for "go", without a time limit.  Deno *)
(* comes up by itself, as Node does, and serves once it has.               *)
(***************************************************************************)
EXTENDS Doh

Serverless == {"workers", "fastly"}
AllPlatforms == Serverless \cup {"deno"}
BootEvents == <<"prepare", "ready", "steady", "go">>

VARIABLES
  platform,
  fired,    \* how many of the events of the boot were published: sticky
  pending,  \* is the listener of the last one yet to run, or still running?
  services, \* services.ready
  arrival,  \* the request: "none", "waiting" for "go", "handed" over to Doh
  server    \* of Deno: "off", "up", "stopping", "exited"

bootVars == <<platform, fired, pending, services, server>>
allVars == <<vars, bootVars, arrival>>

Published(e) == \E i \in 1 .. fired : BootEvents[i] = e

\* pub(): an event whose turn has passed is not fired again, and neither are
\* its listeners called again.
Pub(e) ==
  IF Published(e)
  THEN UNCHANGED <<fired, pending>>
  ELSE fired' = fired + 1 /\ BootEvents[fired'] = e /\ pending' = TRUE

\* Deno publishes "prepare" as it loads.
ServerInit ==
  /\ Init
  /\ platform \in AllPlatforms
  /\ fired = (IF platform = "deno" THEN 1 ELSE 0)
  /\ pending = (platform = "deno")
  /\ services = FALSE /\ arrival = "none" /\ server = "off"
-----------------------------------------------------------------------------
Runs(e) == pending /\ fired > 0 /\ BootEvents[fired] = e /\ server # "exited"

\* prep() or up() throws, and so does its promise: the boot is over, and no
\* event fires again.  Deno exits on such a rejection.
BootThrows ==
  /\ Runs("prepare") \/ Runs("steady")
  /\ Runs("steady") => platform = "deno"
  /\ pending' = FALSE
  /\ server' = IF platform = "deno" THEN "exited" ELSE server
  /\ UNCHANGED <<vars, platform, fired, services, arrival>>

\* prep() sets up the environment and the logger.
Prep ==
  /\ Runs("prepare") /\ Pub("ready")
  /\ UNCHANGED <<vars, platform, services, arrival, server>>

\* systemReady(): the plugins are made.
SystemReady ==
  /\ Runs("ready") /\ Pub("steady")
  /\ services' = TRUE
  /\ UNCHANGED <<vars, platform, arrival, server>>

\* up(): on Deno, after the blocklists and the geo-ip database are set up.
Up ==
  /\ Runs("steady") /\ services /\ Pub("go")
  /\ UNCHANGED <<vars, platform, services, arrival, server>>

\* systemUp() of Deno: listens; does not, in download mode or as it throws, of
\* which nobody hears; or the promise of the DoT server rejects.
SystemUp ==
  /\ Runs("go") /\ platform = "deno"
  /\ pending' = FALSE
  /\ server' \in {"off", "up", "exited"}
  /\ UNCHANGED <<vars, platform, fired, services, arrival>>

\* "stop", on SIGINT or as a profiler's minute is over: systemDown() closes
\* the listeners, and exits in two seconds.  What is under way may yet finish.
SystemDown ==
  /\ platform = "deno" /\ Published("go") /\ ~pending
  /\ server \in {"off", "up"}
  /\ server' = "stopping"
  /\ UNCHANGED <<vars, platform, fired, pending, services, arrival>>

GameOver ==
  /\ server = "stopping"
  /\ server' = "exited"
  /\ UNCHANGED <<vars, platform, fired, pending, services, arrival>>
-----------------------------------------------------------------------------
\* Slip: "prepare" is left to main, which serverless platforms do not have.
ServeDohUnprepared ==
  /\ platform \in Serverless /\ arrival = "none"
  /\ arrival' = "waiting"
  /\ UNCHANGED <<vars, bootVars>>

\* serveDoh() of a serverless platform.
ServeDoh ==
  /\ platform \in Serverless /\ arrival = "none"
  /\ Pub("prepare")
  /\ arrival' = "waiting"
  /\ UNCHANGED <<vars, platform, services, server>>

\* Another request, before or after this one.
OtherServed ==
  /\ platform \in Serverless /\ Pub("prepare")
  /\ UNCHANGED <<vars, platform, services, arrival, server>>

\* when("go") is fulfilled, at once if "go" was published before.
Go ==
  /\ arrival = "waiting" /\ Published("go")
  /\ arrival' = "handed"
  /\ UNCHANGED <<vars, bootVars>>

\* serveDoh() of Deno, whose servers do not listen before "go".  Its tcp server
\* makes a POST of each query.
DenoServed ==
  /\ platform = "deno" /\ server = "up" /\ arrival = "none"
  /\ arrival' = "handed"
  /\ UNCHANGED <<vars, bootVars>>

\* handleRequest().
Handle ==
  /\ arrival = "handed" /\ server # "exited"
  /\ Next
  /\ UNCHANGED <<bootVars, arrival>>

ServerNext ==
  \/ BootThrows \/ Prep \/ SystemReady \/ Up \/ SystemUp \/ SystemDown \/ GameOver
  \/ ServeDoh \/ OtherServed \/ Go \/ DenoServed \/ Handle

\* What awaits nothing is run: on a serverless platform that is all of the boot.
ServerFairness ==
  /\ WF_allVars(platform \in Serverless /\ (Prep \/ SystemReady \/ Up))
  /\ WF_allVars(Go)
  /\ WF_allVars(Handle /\ Turn)
  /\ WF_allVars(Handle /\ Timeout)

ServerSpec == ServerInit /\ [][ServerNext]_allVars /\ ServerFairness
-----------------------------------------------------------------------------
\* The boot was given up: prep() or up() threw.
BootFailed == fired > 0 /\ ~Published("go") /\ ~pending

\* No plugin runs, and nothing is replied, before the plugins are made.
ServedWhenReady == at # "new" => services

\* Each request is replied to, even if a plugin never returns and whether it
\* arrives before, during or after the boot, unless the boot has failed or the
\* process has exited.
EveryRequestAnswered ==
  arrival # "none" ~> sent # "nothing" \/ BootFailed \/ server = "exited"
=============================================================================
