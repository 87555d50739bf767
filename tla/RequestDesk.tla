----------------------------- MODULE RequestDesk -----------------------------
(***************************************************************************)
(* What jtrequest.h promises to those who call its request functions: a    *)
(* request is taken or refused at once; while it is under way it is in     *)
(* flight or waits; at most Limit are in flight; it is posted a limited    *)
(* number of times, and it ends once: with an answer only from flight, and *)
(* once it has ended it is neither posted again nor ended again.           *)
(*                                                                         *)
(* One handler may end a request and post others in its place, so a step   *)
(* moves any number of them.                                               *)
(***************************************************************************)
EXTENDS Integers, FiniteSets

CONSTANTS
  Req,     \* the requests
  Limit,   \* the most in flight
  Tries    \* the most often a request is posted

VARIABLES
  phase,   \* per request: new, waiting, sent, or how it ended
  posts    \* per request, how often it was posted

vars == <<phase, posts>>

Init ==
  /\ phase = [r \in Req |-> "new"]
  /\ posts = [r \in Req |-> 0]

InFlight == {r \in Req : phase[r] = "sent"}

Move(r, from, to) == phase[r] \in from /\ phase'[r] \in to

Post(r) ==
  /\ Move(r, {"new", "waiting", "sent"}, {"sent"})
  /\ posts[r] < Tries
  /\ posts'[r] = posts[r] + 1

\* It has to wait, or is refused.
Wait(r) == Move(r, {"new", "sent"}, {"waiting"}) /\ posts'[r] = posts[r]
Refuse(r) == Move(r, {"new"}, {"dropped"}) /\ posts'[r] = posts[r]

\* An answer or an error ends a request in flight; one that waits is given up.
End(r) ==
  /\ Move(r, {"sent"}, {"slotResult", "silent", "requestFailed"})
  /\ posts'[r] = posts[r]
GiveUp(r) ==
  /\ Move(r, {"waiting"}, {"requestFailed", "dropped"})
  /\ posts'[r] = posts[r]

Stay(r) == phase'[r] = phase[r] /\ posts'[r] = posts[r]

Step(r) == Post(r) \/ Wait(r) \/ Refuse(r) \/ End(r) \/ GiveUp(r) \/ Stay(r)

Next ==
  /\ DOMAIN phase' = Req /\ DOMAIN posts' = Req
  /\ \A r \in Req : Step(r)
  /\ Cardinality(InFlight') <= Limit

Spec == Init /\ [][Next]_vars
=============================================================================
