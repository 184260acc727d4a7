---------------------------- MODULE TokenBucket ----------------------------
(***************************************************************************)
(* What a rate limiter promises, with no mutex, WaitGroup or ticker        *)
(* goroutine: a level that never exceeds Capacity and that a tick raises   *)
(* by at most Rate, and callers that are served only against tokens taken  *)
(* out of the level at that very moment.  RateLimiter implements it.       *)
(***************************************************************************)
EXTENDS Naturals

CONSTANTS Callers, Rate, Capacity, Requests

VARIABLES
  level,   \* tokens in the bucket
  req      \* req[c]: what c asked for, and what became of it

vars == <<level, req>>

Idle == [st |-> "idle", n |-> 0]

Init ==
  /\ level = 0
  /\ req = [c \in Callers |-> Idle]

Drip ==
  /\ level' \in 0 .. Capacity
  /\ level' <= level + Rate
  /\ UNCHANGED req

Ask(c, n) ==
  /\ req[c].st = "idle"
  /\ req' = [req EXCEPT ![c] = [st |-> "asked", n |-> n]]
  /\ UNCHANGED level

Serve(c) ==
  /\ req[c].st = "asked"
  /\ req[c].n <= level
  /\ level' = level - req[c].n
  /\ req' = [req EXCEPT ![c] = [st |-> "served", n |-> req[c].n]]

Refuse(c) ==
  /\ req[c].st = "asked"
  /\ req[c].n > Capacity
  /\ req' = [req EXCEPT ![c] = [st |-> "refused", n |-> req[c].n]]
  /\ UNCHANGED level

Leave(c) ==
  /\ req[c].st \in {"served", "refused"}
  /\ req' = [req EXCEPT ![c] = Idle]
  /\ UNCHANGED level

Next ==
  \/ Drip
  \/ \E c \in Callers : Serve(c) \/ Refuse(c) \/ Leave(c)
  \/ \E c \in Callers, n \in Requests : Ask(c, n)

Spec == Init /\ [][Next]_vars
=============================================================================
