---------------------------- MODULE RateLimiter ----------------------------
(***************************************************************************)
(* The token bucket of pkg/core/ratelimiter.go, which paces what a tunnel  *)
(* server sends to one user.                                               *)
(*                                                                         *)
(* One goroutine (Run) wakes up on every tick of a time.Ticker and adds    *)
(* tokens; any number of goroutines call Wait(n).  mutexWait admits one    *)
(* caller at a time; that caller posts its amount in `waiting' and sleeps  *)
(* on the WaitGroup `done', until Run takes the amount out of the bucket   *)
(* and calls Done.                                                         *)
(*                                                                         *)
(* Atomicity.  `waiting' and the counter of `done' are only touched under  *)
(* mutexWriteWait, so each of those critical sections is one step.         *)
(* `tokens' is written in two places of add, before and inside the         *)
(* section, and Available reads it with no lock: Refill and Grant are two  *)
(* steps.  `mutex' is only ever taken by Run and never contended.          *)
(***************************************************************************)
EXTENDS Naturals

CONSTANTS
  Callers,     \* goroutines that call Wait
  Bandwidth,   \* argument of NewRateLimiter, tokens added per tick
  UintMod,     \* 2^w for Go's w-bit uint (2^64 on the supported targets)
  Requests,    \* the amounts callers pass to Wait
  NoOne        \* "mutexWait is free"

ASSUME LimiterAssumption ==
  /\ UintMod \in Nat \ {0}
  /\ Bandwidth \in Nat
  /\ Bandwidth < UintMod
  /\ Requests \subseteq Nat
  /\ NoOne \notin Callers

VARIABLES
  tokens,      \* rateLimiter.tokens
  waiting,     \* rateLimiter.waiting
  done,        \* the counter of the WaitGroup rateLimiter.done
  mutexWait,   \* the caller that holds rateLimiter.mutexWait
  runPc,       \* where Run is: at the ticker, or between the two halves of add
  pc,          \* where each caller is in Wait
  amount       \* the argument of each caller's current Wait

vars == <<tokens, waiting, done, mutexWait, runPc, pc, amount>>

(* uint(...) arithmetic wraps around.                                      *)
Wrap(x) == x % UintMod

(* capacity: uint64(bandwidth << 4)                                        *)
Capacity == Wrap(16 * Bandwidth)

Init ==
  /\ tokens = 0
  /\ waiting = 0
  /\ done = 0
  /\ mutexWait = NoOne
  /\ runPc = "tick"
  /\ pc = [c \in Callers |-> "idle"]
  /\ amount = [c \in Callers |-> 0]
-----------------------------------------------------------------------------
(* Run and add.                                                            *)

(* Fault: the cap is forgotten.                                            *)
RefilledUncapped == tokens + Bandwidth

(* The level of the bucket after a tick: at most Capacity.                 *)
Refilled == IF Wrap(tokens + Bandwidth) < Capacity
            THEN Wrap(tokens + Bandwidth)
            ELSE Capacity

Refill ==
  /\ runPc = "tick"
  /\ tokens' = Refilled
  /\ runPc' = "grant"
  /\ UNCHANGED <<waiting, done, mutexWait, pc, amount>>

(* Somebody waits and there is enough for it.                              *)
CanServe == waiting # 0 /\ tokens >= waiting

(* Fault: the posted amount is not reset.                                  *)
ServeKeepsWaiting ==
  /\ runPc = "grant"
  /\ CanServe
  /\ tokens' = tokens - waiting
  /\ done' = IF done = 0 THEN 0 ELSE done - 1
  /\ runPc' = "tick"
  /\ UNCHANGED <<waiting, mutexWait, pc, amount>>

(* Under mutexWriteWait: take the posted amount and wake the caller up.    *)
Serve ==
  /\ runPc = "grant"
  /\ CanServe
  /\ tokens' = tokens - waiting
  /\ waiting' = 0
  /\ done' = done - 1
  /\ runPc' = "tick"
  /\ UNCHANGED <<mutexWait, pc, amount>>

(* Under mutexWriteWait: nobody waits, or not enough yet.                  *)
Skip ==
  /\ runPc = "grant"
  /\ ~CanServe
  /\ runPc' = "tick"
  /\ UNCHANGED <<tokens, waiting, done, mutexWait, pc, amount>>
-----------------------------------------------------------------------------
(* Wait.                                                                   *)

Call(c, n) ==
  /\ pc[c] = "idle"
  /\ pc' = [pc EXCEPT ![c] = "lock"]
  /\ amount' = [amount EXCEPT ![c] = n]
  /\ UNCHANGED <<tokens, waiting, done, mutexWait, runPc>>

Lock(c) ==
  /\ pc[c] = "lock"
  /\ mutexWait = NoOne
  /\ mutexWait' = c
  /\ pc' = [pc EXCEPT ![c] = "check"]
  /\ UNCHANGED <<tokens, waiting, done, runPc, amount>>

(* Faults: off by one, and the check forgotten.                            *)
OutOfCapacityAtLimit(n) == n >= Capacity
NeverOutOfCapacity(n) == n # n

OutOfCapacity(n) == n > Capacity

(* errors.New("out of capacity"), and the deferred unlock.                 *)
Refuse(c) ==
  /\ pc[c] = "check"
  /\ OutOfCapacity(amount[c])
  /\ pc' = [pc EXCEPT ![c] = "error"]
  /\ mutexWait' = NoOne
  /\ UNCHANGED <<tokens, waiting, done, runPc, amount>>

(* Under mutexWriteWait: post the amount and raise the WaitGroup.          *)
Post(c) ==
  /\ pc[c] = "check"
  /\ ~OutOfCapacity(amount[c])
  /\ waiting' = amount[c]
  /\ done' = done + 1
  /\ pc' = [pc EXCEPT ![c] = "blocked"]
  /\ UNCHANGED <<tokens, mutexWait, runPc, amount>>

(* done.Wait() returns, and the deferred unlock.                           *)
Return(c) ==
  /\ pc[c] = "blocked"
  /\ done = 0
  /\ pc' = [pc EXCEPT ![c] = "ok"]
  /\ mutexWait' = NoOne
  /\ UNCHANGED <<tokens, waiting, done, runPc, amount>>

(* How much the server reads before it calls Wait (server.go): what        *)
(* Available shows at that moment, or Bandwidth if that is nothing.        *)
ReadLen == IF tokens = 0 THEN Bandwidth ELSE tokens

(* The caller goes on with the result of Wait.                             *)
Leave(c) ==
  /\ pc[c] \in {"ok", "error"}
  /\ pc' = [pc EXCEPT ![c] = "idle"]
  /\ amount' = [amount EXCEPT ![c] = 0]
  /\ UNCHANGED <<tokens, waiting, done, mutexWait, runPc>>

Caller(c) == Lock(c) \/ Refuse(c) \/ Post(c) \/ Return(c) \/ Leave(c)

Next ==
  \/ Refill
  \/ Serve
  \/ Skip
  \/ \E c \in Callers : Caller(c)
  \/ \E c \in Callers, n \in Requests : Call(c, n)

Spec == Init /\ [][Next]_vars

(* The ticker keeps ticking and Run loops forever; a caller inside Wait    *)
(* keeps running.  sync.Mutex hands itself to the longest waiter once it   *)
(* starves (more than 1ms), hence strong fairness of Lock.                 *)
Fairness ==
  /\ WF_vars(Refill \/ Serve \/ Skip)
  /\ \A c \in Callers : SF_vars(Lock(c))
  /\ \A c \in Callers : WF_vars(Refuse(c) \/ Post(c) \/ Return(c))

FairSpec == Spec /\ Fairness
-----------------------------------------------------------------------------
(* Properties.                                                             *)

(* Type correctness; in particular the bucket never overflows.             *)
TypeOK ==
  /\ tokens \in 0 .. Capacity
  /\ waiting \in Nat
  /\ done \in Nat
  /\ mutexWait \in Callers \cup {NoOne}
  /\ runPc \in {"tick", "grant"}
  /\ pc \in [Callers -> {"idle", "lock", "check", "blocked", "ok", "error"}]
  /\ amount \in [Callers -> Nat]

(* mutexWait is held by exactly the caller between Lock and its return.    *)
MutexHeld == \A c \in Callers : pc[c] \in {"check", "blocked"} <=> mutexWait = c

(* The hand-off between Wait and add: the WaitGroup is raised exactly      *)
(* while one caller sleeps unserved, `waiting' is that caller's amount     *)
(* and nobody else's, and no amount is left over once it has been taken    *)
(* (so add can never call Done twice and drive the WaitGroup negative).    *)
HandOff ==
  /\ done <= 1
  /\ done = 1 => /\ mutexWait # NoOne
                 /\ pc[mutexWait] = "blocked"
                 /\ waiting = amount[mutexWait]
  /\ done = 0 => waiting = 0

(* The server reads before it waits, so a refusal would lose data it has   *)
(* taken from the destination: Wait never refuses what was read at any     *)
(* moment, unless the capacity has wrapped around.                         *)
NeverReadsTooMuch == 16 * Bandwidth < UintMod => ~OutOfCapacity(ReadLen)

(* What a caller can observe of its request: asked, served once its        *)
(* tokens have been taken (it may still be asleep), or refused.            *)
Observed(c) ==
  [st |-> CASE pc[c] = "idle" -> "idle"
            [] pc[c] \in {"lock", "check"} -> "asked"
            [] pc[c] = "blocked" -> IF done = 1 THEN "asked" ELSE "served"
            [] pc[c] = "ok" -> "served"
            [] pc[c] = "error" -> "refused",
   n  |-> amount[c]]

Bucket == INSTANCE TokenBucket
            WITH level <- tokens,
                 req <- [c \in Callers |-> Observed(c)],
                 Rate <- Bandwidth

(* The limiter is a token bucket: a caller is served only when its amount  *)
(* was in the bucket and has been taken out, exactly once.                 *)
ImplementsTokenBucket == Bucket!Spec

(* A caller of Wait(0) sleeps: add takes waiting = 0 for "nobody waits".   *)
WaitsForNothing == \E c \in Callers : pc[c] = "blocked" /\ amount[c] = 0

(* With Bandwidth > 0, every Wait returns, with the tokens or with the     *)
(* "out of capacity" error, however many callers contend, unless a Wait(0) *)
(* keeps mutexWait for ever.                                               *)
WaitReturns ==
  \A c \in Callers : pc[c] = "lock" ~> (pc[c] \in {"ok", "error"} \/ WaitsForNothing)
=============================================================================
