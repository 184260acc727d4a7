----------------------------- MODULE RateMeter -----------------------------
(***************************************************************************)
(* RateLimiter observed by a meter: history variables that add up what the *)
(* ticker supplied and what callers were granted in a window that opens at *)
(* an arbitrary moment.                                                    *)
(***************************************************************************)
EXTENDS RateLimiter

CONSTANT MaxSupplied   \* bound on `supplied': a longer window ends

ASSUME MeterAssumption == MaxSupplied \in Nat

VARIABLES
  window,     \* whether a window is open
  supplied,   \* tokens the ticks of the window were worth
  granted     \* tokens taken for callers in the window

meterVars == <<tokens, waiting, done, mutexWait, runPc, pc, amount,
               window, supplied, granted>>

MeterInit ==
  /\ Init
  /\ window = "closed"
  /\ supplied = 0
  /\ granted = 0

OpenWindow ==
  /\ window = "closed"
  /\ window' = "open"
  /\ UNCHANGED <<supplied, granted>>
  /\ UNCHANGED vars

CloseWindow ==
  /\ window = "open"
  /\ window' = "closed"
  /\ supplied' = 0
  /\ granted' = 0
  /\ UNCHANGED vars

(* The window has room for another tick; one that has not is closed.       *)
Fits == window = "open" /\ supplied + Bandwidth <= MaxSupplied

MeterRefill ==
  /\ Refill
  /\ \/ /\ Fits
        /\ supplied' = supplied + Bandwidth
        /\ UNCHANGED <<window, granted>>
     \/ /\ ~Fits
        /\ window' = "closed"
        /\ supplied' = 0
        /\ granted' = 0

MeterServe ==
  /\ Serve
  /\ granted' = IF window = "open" THEN granted + waiting ELSE 0
  /\ UNCHANGED <<window, supplied>>

MeterOther ==
  /\ \/ Skip
     \/ \E c \in Callers : Caller(c)
     \/ \E c \in Callers, n \in Requests : Call(c, n)
  /\ UNCHANGED <<window, supplied, granted>>

MeterNext ==
  OpenWindow \/ CloseWindow \/ MeterRefill \/ MeterServe \/ MeterOther

MeterSpec == MeterInit /\ [][MeterNext]_meterVars

(* The meter only watches: fairness is that of the limiter.                *)
MeterFairSpec == MeterSpec /\ Fairness

(* The promise of the limiter (add and Wait of ratelimiter.go): in any     *)
(* window, all callers together are granted at most one full bucket more   *)
(* than the ticks of the window supplied.                                  *)
RateBound == granted <= Capacity + supplied

(* The inductive form: what was granted and what is still in the bucket    *)
(* are covered together, and a closed window has counted nothing.          *)
MeterInv ==
  /\ window \in {"open", "closed"}
  /\ supplied \in Nat
  /\ granted \in Nat
  /\ window = "closed" => supplied = 0 /\ granted = 0
  /\ tokens + granted <= Capacity + supplied
=============================================================================
