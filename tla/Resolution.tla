----------------------------- MODULE Resolution -----------------------------
(***************************************************************************)
(* What the plain-DNS side of the resolver promises its callers, whatever  *)
(* it does inside: every request is replied to at most once, with a failure *)
(* or with what upstream said to a query that has been asked and asks for  *)
(* the same as the request's own, in the sense whoever implements it gives *)
(* to "the same".                                                          *)
(***************************************************************************)
CONSTANTS
  Requests,
  Identical(_, _),  \* the two requests ask the same thing
  NoReply, Failure  \* distinct, and no requests

VARIABLES
  asked,   \* the requests made so far
  reply    \* per request: NoReply, Failure or the request whose answer it got

vars == <<asked, reply>>

Init ==
  /\ asked = {}
  /\ reply = [r \in Requests |-> NoReply]

Ask(r) ==
  /\ r \notin asked
  /\ asked' = asked \cup {r}
  /\ UNCHANGED reply

Reply(r) ==
  /\ r \in asked
  /\ reply[r] = NoReply
  /\ \E v \in {Failure} \cup {s \in asked : Identical(r, s)} :
       reply' = [reply EXCEPT ![r] = v]
  /\ UNCHANGED asked

Next ==
  \E r \in Requests : Ask(r) \/ Reply(r)

Spec == Init /\ [][Next]_vars
=============================================================================
