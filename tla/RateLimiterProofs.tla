------------------------- MODULE RateLimiterProofs -------------------------
(***************************************************************************)
(* Proofs about RateLimiter and RateMeter, for every number of callers,    *)
(* every bandwidth and every width of uint.                                *)
(***************************************************************************)
EXTENDS RateMeter, TLAPS

(* Unsigned arithmetic stays in range and never exceeds the exact result.  *)
LEMMA WrapRange ==
  ASSUME NEW x \in Nat
  PROVE  Wrap(x) \in Nat /\ Wrap(x) <= x
<1>1. UintMod \in Nat /\ UintMod > 0
  BY LimiterAssumption
<1> DEFINE q == x \div UintMod
           r == x % UintMod
<1>2. q \in Nat /\ r \in 0 .. (UintMod - 1) /\ x = UintMod * q + r
  BY <1>1
<1>3. UintMod * q \in Nat
  BY <1>1, <1>2
<1> QED
  BY <1>1, <1>2, <1>3 DEF Wrap

(* The capacity computed by NewRateLimiter is a natural number.            *)
LEMMA CapacityNat == Capacity \in Nat
<1>1. 16 * Bandwidth \in Nat
  BY LimiterAssumption
<1> QED
  BY <1>1, WrapRange DEF Capacity

(* A tick leaves at most Capacity tokens and adds at most Bandwidth.       *)
LEMMA RefilledRange ==
  ASSUME tokens \in 0 .. Capacity
  PROVE  /\ Refilled \in 0 .. Capacity
         /\ Refilled <= tokens + Bandwidth
<1>1. tokens \in Nat /\ Bandwidth \in Nat
  BY CapacityNat, LimiterAssumption
<1>2. /\ Wrap(tokens + Bandwidth) \in Nat
      /\ Wrap(tokens + Bandwidth) <= tokens + Bandwidth
  BY <1>1, WrapRange
<1> QED
  BY <1>1, <1>2, CapacityNat DEF Refilled
-----------------------------------------------------------------------------
(* The inductive invariant: neither HandOff nor MutexHeld is preserved     *)
(* without the other.                                                      *)
LimiterInv == TypeOK /\ MutexHeld /\ HandOff

(* A new limiter satisfies the invariant.                                  *)
LEMMA InitLimiterInv == Init => LimiterInv
  BY LimiterAssumption, CapacityNat DEF Init, LimiterInv, TypeOK, MutexHeld, HandOff

(* Each of Run's steps preserves the invariant.                            *)
LEMMA RunStep ==
  ASSUME LimiterInv, Refill \/ Serve \/ Skip
  PROVE  LimiterInv'
<1> USE LimiterAssumption, CapacityNat DEF LimiterInv, TypeOK, MutexHeld, HandOff
<1>1. CASE Refill
  BY <1>1, RefilledRange DEF Refill
<1>2. CASE Serve
  BY <1>2 DEF Serve, CanServe
<1>3. CASE Skip
  BY <1>3 DEF Skip
<1> QED
  BY <1>1, <1>2, <1>3

(* Each step of a caller in Wait preserves the invariant.                  *)
LEMMA CallerStep ==
  ASSUME LimiterInv, NEW c \in Callers, Caller(c)
  PROVE  LimiterInv'
<1> USE LimiterAssumption, CapacityNat DEF LimiterInv, TypeOK, MutexHeld, HandOff
<1>1. CASE Lock(c)
  BY <1>1 DEF Lock
<1>2. CASE Refuse(c)
  BY <1>2 DEF Refuse
<1>3. CASE Post(c)
  BY <1>3 DEF Post
<1>4. CASE Return(c)
  BY <1>4 DEF Return
<1>5. CASE Leave(c)
  BY <1>5 DEF Leave
<1> QED
  BY <1>1, <1>2, <1>3, <1>4, <1>5 DEF Caller

(* So does the start of a Wait.                                            *)
LEMMA CallStep ==
  ASSUME LimiterInv, NEW c \in Callers, NEW n \in Requests, Call(c, n)
  PROVE  LimiterInv'
  BY LimiterAssumption, CapacityNat DEF LimiterInv, TypeOK, MutexHeld, HandOff, Call

(* Every step preserves the invariant.                                     *)
LEMMA NextLimiterInv == LimiterInv /\ [Next]_vars => LimiterInv'
<1> SUFFICES ASSUME LimiterInv, [Next]_vars PROVE LimiterInv'
  OBVIOUS
<1>1. CASE Refill \/ Serve \/ Skip
  BY <1>1, RunStep
<1>2. CASE \E c \in Callers : Caller(c)
  BY <1>2, CallerStep
<1>3. CASE \E c \in Callers, n \in Requests : Call(c, n)
  BY <1>3, CallStep
<1>4. CASE UNCHANGED vars
  BY <1>4 DEF vars, LimiterInv, TypeOK, MutexHeld, HandOff
<1> QED
  BY <1>1, <1>2, <1>3, <1>4 DEF Next

(* The inductive invariant holds in every reachable state.                 *)
THEOREM LimiterInvariant == Spec => []LimiterInv
  BY InitLimiterInv, NextLimiterInv, PTL DEF Spec

(* The state of ratelimiter.go keeps its types; in particular the bucket   *)
(* never holds more than capacity, wrap-around of uint included.           *)
THEOREM LimiterTypes == Spec => []TypeOK
<1>1. LimiterInv => TypeOK
  BY DEF LimiterInv
<1> QED
  BY <1>1, LimiterInvariant, PTL

(* mutexWait is held by exactly the caller inside Wait's critical section. *)
THEOREM LimiterMutex == Spec => []MutexHeld
<1>1. LimiterInv => MutexHeld
  BY DEF LimiterInv
<1> QED
  BY <1>1, LimiterInvariant, PTL

(* The hand-off of an amount from Wait to add is exact: Done is never      *)
(* called twice for one Wait, and `waiting' is the sleeper's amount.       *)
THEOREM LimiterHandOff == Spec => []HandOff
<1>1. LimiterInv => HandOff
  BY DEF LimiterInv
<1> QED
  BY <1>1, LimiterInvariant, PTL
(* The server never loses data to the "out of capacity" error: a read of   *)
(* what Available shows, or of Bandwidth, never exceeds the capacity.      *)
THEOREM LimiterNeverReadsTooMuch == Spec => []NeverReadsTooMuch
<1>1. LimiterInv => NeverReadsTooMuch
  <2> SUFFICES ASSUME TypeOK, 16 * Bandwidth < UintMod
               PROVE  ReadLen <= Capacity
    BY LimiterAssumption, CapacityNat
       DEF LimiterInv, NeverReadsTooMuch, OutOfCapacity, ReadLen, TypeOK
  <2>1. 16 * Bandwidth \in Nat /\ Bandwidth <= 16 * Bandwidth
    BY LimiterAssumption
  <2>2. Capacity = 16 * Bandwidth
    BY <2>1, LimiterAssumption DEF Capacity, Wrap
  <2> QED
    BY <2>1, <2>2 DEF ReadLen, TypeOK
<1> QED
  BY <1>1, LimiterInvariant, PTL
-----------------------------------------------------------------------------
(* Refinement.  Every step of the limiter is a step of TokenBucket, seen   *)
(* through Observed, or leaves what callers observe unchanged.             *)

(* A new limiter is an empty bucket that nobody has asked.                 *)
LEMMA RefineInit == Init => Bucket!Init
  BY DEF Init, Bucket!Init, Bucket!Idle, Observed

(* What the callers observe, as one function.                              *)
Req == [c \in Callers |-> Observed(c)]

(* A step that changes what one caller observes updates Req there.         *)
LEMMA ReqUpdate ==
  ASSUME NEW c \in Callers, NEW v,
         Observed(c)' = v,
         \A d \in Callers : d # c => Observed(d)' = Observed(d)
  PROVE  Req' = [Req EXCEPT ![c] = v]
  BY DEF Req

(* A tick drips or, once the amount is taken, serves its caller.           *)
LEMMA RefineRun ==
  ASSUME LimiterInv, Refill \/ Serve \/ Skip
  PROVE  [Bucket!Next]_Bucket!vars
<1> USE LimiterAssumption, CapacityNat DEF LimiterInv, TypeOK, MutexHeld, HandOff
<1>1. CASE Refill
  BY <1>1, RefilledRange DEF Refill, Bucket!Next, Bucket!Drip, Observed
<1>2. CASE Serve
  <2> PICK c \in Callers : c = mutexWait
    BY <1>2 DEF Serve, CanServe
  <2>1. /\ done = 1 /\ done' = 0
        /\ pc[c] = "blocked" /\ waiting = amount[c]
        /\ tokens >= amount[c] /\ tokens' = tokens - amount[c]
        /\ pc' = pc /\ amount' = amount
    BY <1>2 DEF Serve, CanServe
  <2>2. \A d \in Callers : d # c => pc[d] # "blocked"
    OBVIOUS
  <2>3. Observed(c) = [st |-> "asked", n |-> amount[c]]
    BY <2>1 DEF Observed
  <2>4. Observed(c)' = [st |-> "served", n |-> amount[c]]
    BY <2>1 DEF Observed
  <2>5. \A d \in Callers : d # c => Observed(d)' = Observed(d)
    BY <2>1, <2>2 DEF Observed
  <2>6. Bucket!Serve(c)
    <3>1. Req' = [Req EXCEPT ![c] = [st |-> "served", n |-> Req[c].n]]
      BY <2>3, <2>4, <2>5, ReqUpdate DEF Req
    <3>2. /\ Req[c].st = "asked"
          /\ Req[c].n <= tokens
          /\ tokens' = tokens - Req[c].n
      BY <2>1, <2>3 DEF Req
    <3> QED
      BY <3>1, <3>2 DEF Bucket!Serve, Req
  <2> QED
    BY <2>1, <2>6 DEF Bucket!Next
<1>3. CASE Skip
  BY <1>3 DEF Skip, Bucket!vars, Observed
<1> QED
  BY <1>1, <1>2, <1>3

(* In Wait only a refusal and the return to the caller can be observed.    *)
LEMMA RefineCaller ==
  ASSUME LimiterInv, NEW c \in Callers, Caller(c)
  PROVE  [Bucket!Next]_Bucket!vars
<1> USE LimiterAssumption, CapacityNat DEF LimiterInv, TypeOK, MutexHeld, HandOff
<1>1. CASE Lock(c)
  <2>1. \A d \in Callers : Observed(d)' = Observed(d)
    BY <1>1 DEF Lock, Observed
  <2> QED
    BY <1>1, <2>1 DEF Lock, Bucket!vars
<1>2. CASE Refuse(c)
  <2>1. Observed(c) = [st |-> "asked", n |-> amount[c]]
    BY <1>2 DEF Refuse, Observed
  <2>2. Observed(c)' = [st |-> "refused", n |-> amount[c]]
    BY <1>2 DEF Refuse, Observed
  <2>3. \A d \in Callers : d # c => Observed(d)' = Observed(d)
    BY <1>2 DEF Refuse, Observed
  <2>4. Req' = [Req EXCEPT ![c] = [st |-> "refused", n |-> Req[c].n]]
    BY <2>1, <2>2, <2>3, ReqUpdate DEF Req
  <2>5. Req[c].st = "asked" /\ Req[c].n > Capacity /\ tokens' = tokens
    BY <1>2, <2>1 DEF Refuse, OutOfCapacity, Req
  <2>6. Bucket!Refuse(c)
    BY <2>4, <2>5 DEF Bucket!Refuse, Req
  <2> QED
    BY <2>6 DEF Bucket!Next
<1>3. CASE Post(c)
  <2>1. done = 0 /\ done' = 1 /\ tokens' = tokens
    BY <1>3 DEF Post
  <2>2. \A d \in Callers : d # c => pc[d] # "blocked"
    BY <1>3 DEF Post
  <2>3. \A d \in Callers : Observed(d)' = Observed(d)
    BY <1>3, <2>1, <2>2 DEF Post, Observed
  <2> QED
    BY <2>1, <2>3 DEF Bucket!vars
<1>4. CASE Return(c)
  <2>1. \A d \in Callers : Observed(d)' = Observed(d)
    BY <1>4 DEF Return, Observed
  <2> QED
    BY <1>4, <2>1 DEF Return, Bucket!vars
<1>5. CASE Leave(c)
  <2>1. Observed(c)' = Bucket!Idle
    BY <1>5 DEF Leave, Observed, Bucket!Idle
  <2>2. Observed(c).st \in {"served", "refused"}
    BY <1>5 DEF Leave, Observed
  <2>3. \A d \in Callers : d # c => Observed(d)' = Observed(d)
    BY <1>5 DEF Leave, Observed
  <2>4. Req' = [Req EXCEPT ![c] = Bucket!Idle]
    BY <2>1, <2>3, ReqUpdate
  <2>5. Req[c].st \in {"served", "refused"} /\ tokens' = tokens
    BY <1>5, <2>2 DEF Leave, Req
  <2>6. Bucket!Leave(c)
    BY <2>4, <2>5 DEF Bucket!Leave, Req
  <2> QED
    BY <2>6 DEF Bucket!Next
<1> QED
  BY <1>1, <1>2, <1>3, <1>4, <1>5 DEF Caller

(* The start of a Wait is a request to the bucket.                         *)
LEMMA RefineCall ==
  ASSUME LimiterInv, NEW c \in Callers, NEW n \in Requests, Call(c, n)
  PROVE  [Bucket!Next]_Bucket!vars
<1> USE LimiterAssumption DEF LimiterInv, TypeOK
<1>1. Observed(c)' = [st |-> "asked", n |-> n]
  BY DEF Call, Observed
<1>2. Observed(c).st = "idle"
  BY DEF Call, Observed
<1>3. \A d \in Callers : d # c => Observed(d)' = Observed(d)
  BY DEF Call, Observed
<1>4. Req' = [Req EXCEPT ![c] = [st |-> "asked", n |-> n]]
  BY <1>1, <1>3, ReqUpdate
<1>5. Req[c].st = "idle" /\ tokens' = tokens
  BY <1>2 DEF Call, Req
<1>6. Bucket!Ask(c, n)
  BY <1>4, <1>5 DEF Bucket!Ask, Req
<1> QED
  BY <1>6 DEF Bucket!Next

(* Every step is one of the bucket or is not observed.                     *)
LEMMA RefineNext == LimiterInv /\ [Next]_vars => [Bucket!Next]_Bucket!vars
<1> SUFFICES ASSUME LimiterInv, [Next]_vars PROVE [Bucket!Next]_Bucket!vars
  OBVIOUS
<1>1. CASE Refill \/ Serve \/ Skip
  BY <1>1, RefineRun
<1>2. CASE \E c \in Callers : Caller(c)
  BY <1>2, RefineCaller
<1>3. CASE \E c \in Callers, n \in Requests : Call(c, n)
  BY <1>3, RefineCall
<1>4. CASE UNCHANGED vars
  <2>1. \A d \in Callers : Observed(d)' = Observed(d)
    BY <1>4 DEF vars, Observed
  <2> QED
    BY <1>4, <2>1 DEF vars, Bucket!vars
<1> QED
  BY <1>1, <1>2, <1>3, <1>4 DEF Next

(* RateLimiter implements the abstract TokenBucket.                        *)
THEOREM LimiterRefines == Spec => ImplementsTokenBucket
  BY RefineInit, RefineNext, LimiterInvariant, PTL
     DEF Spec, ImplementsTokenBucket, Bucket!Spec
-----------------------------------------------------------------------------
(* The rate bound.                                                         *)

(* A metered step is a step of the limiter.                                *)
LEMMA MeterStepIsStep == [MeterNext]_meterVars => [Next]_vars
  BY DEF MeterNext, OpenWindow, CloseWindow, MeterRefill, MeterServe, MeterOther,
         Next, meterVars, vars

(* A meter that has counted nothing satisfies its invariant.               *)
LEMMA InitMeterInv == MeterInit => LimiterInv /\ MeterInv
  BY InitLimiterInv, CapacityNat DEF MeterInit, Init, MeterInv

(* What is counted as granted has left the bucket.                         *)
LEMMA NextMeterInv ==
  LimiterInv /\ MeterInv /\ [MeterNext]_meterVars => MeterInv'
<1> SUFFICES ASSUME LimiterInv, MeterInv, [MeterNext]_meterVars PROVE MeterInv'
  OBVIOUS
<1>1. tokens \in 0 .. Capacity /\ waiting \in Nat
  BY DEF LimiterInv, TypeOK
<1> USE LimiterAssumption, CapacityNat, <1>1 DEF MeterInv
<1>2. CASE OpenWindow
  BY <1>2 DEF OpenWindow, vars
<1>3. CASE CloseWindow
  BY <1>3 DEF CloseWindow, vars
<1>4. CASE MeterRefill
  <2>1. tokens' \in 0 .. Capacity /\ tokens' <= tokens + Bandwidth
    BY <1>4, RefilledRange DEF MeterRefill, Refill
  <2>2. CASE Fits
    BY <1>4, <2>1, <2>2 DEF MeterRefill, Fits
  <2>3. CASE ~Fits
    BY <1>4, <2>1, <2>3 DEF MeterRefill
  <2> QED
    BY <2>2, <2>3
<1>5. CASE MeterServe
  BY <1>5 DEF MeterServe, Serve, CanServe
<1>6. CASE MeterOther
  BY <1>6 DEF MeterOther, Skip, Caller, Lock, Refuse, Post, Return, Leave, Call
<1>7. CASE UNCHANGED meterVars
  BY <1>7 DEF meterVars
<1> QED
  BY <1>2, <1>3, <1>4, <1>5, <1>6, <1>7 DEF MeterNext

(* In any window the callers of one bucket get at most a full bucket more  *)
(* than its ticks supplied: the user's bandwidth limit holds however many  *)
(* connections share the bucket and however Run and Wait interleave.       *)
THEOREM LimiterRateBound == MeterSpec => []RateBound
<1>1. LimiterInv /\ [MeterNext]_meterVars => LimiterInv'
  BY NextLimiterInv, MeterStepIsStep
<1>2. LimiterInv /\ MeterInv => RateBound
  BY CapacityNat DEF LimiterInv, TypeOK, MeterInv, RateBound
<1> QED
  BY InitMeterInv, NextMeterInv, <1>1, <1>2, PTL DEF MeterSpec
=============================================================================
