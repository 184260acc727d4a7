--------------------------- MODULE SessionProofs ---------------------------
(***************************************************************************)
(* Proofs about Session, for every number of sessions and plans and every  *)
(* amount of traffic.                                                      *)
(***************************************************************************)
EXTENDS Session, TLAPS

(* Chunks read and not yet added to `bandwidth', per direction.            *)
UpPending(s) == IF upc[s] = "store" THEN 1 ELSE 0
DownPending(s) ==
  IF dpc[s] = "store" \/ (dpc[s] = "wait" /\ rate[mine[s]] > 0) THEN 1 ELSE 0

(* Whatever of the counter and of its two loaded copies is stored last, it *)
(* leaves room for what is still to be added.                              *)
Counted(s) ==
  /\ bandwidth[s] + UpPending(s) + DownPending(s) <= moved[s]
  /\ dpc[s] = "store" => dtmp[s] + 1 + UpPending(s) <= moved[s]
  /\ upc[s] = "store" => utmp[s] + 1 + DownPending(s) <= moved[s]

(* The buckets: nothing was created before the first Put, a session about  *)
(* to create one has none, and a bucket in use has its rate for good.      *)
Buckets ==
  /\ bucket = NoBucket => \A s \in Sessions : rate[s] = -1
  /\ bucket # NoBucket => rate[bucket] >= 0
  /\ \A s \in Sessions : dpc[s] = "create" => rate[s] = -1
  /\ \A s \in Sessions : dpc[s] \in {"read", "wait"}
                           => mine[s] \in Sessions /\ rate[mine[s]] >= 0

(* The goroutines run only while the handler waits for them.               *)
Structure == \A s \in Sessions : hpc[s] # "relay" => dpc[s] = "end" /\ upc[s] = "end"

(* A row, current or loaded, holds no more than has been set and billed.   *)
RowsCovered ==
  /\ user.used <= setMax + owed
  /\ \A s \in Sessions : hpc[s] = "bill" => snap[s].used <= setMax + owed

SessionInv ==
  /\ TypeOK
  /\ Buckets
  /\ Structure
  /\ \A s \in Sessions : Counted(s)
  /\ RowsCovered

(* Before the first request the invariant holds.                           *)
LEMMA InitSessionInv == Init => SessionInv
<1> SUFFICES ASSUME Init PROVE SessionInv
  OBVIOUS
<1> USE SessionAssumption DEF Init
<1>1. user \in Rows /\ user.used = 0
  <2> PICK p \in Plans : user = [state |-> "live", used |-> 0, plan |-> p]
    OBVIOUS
  <2> QED
    BY DEF Rows
<1>2. plans \in [Plans -> [limit : Nat, bandwidth : Nat]]
  OBVIOUS
<1>3. TypeOK
  BY <1>1, <1>2 DEF TypeOK
<1>4. Buckets /\ Structure
  BY DEF Buckets, Structure
<1>5. \A s \in Sessions : Counted(s)
  <2> TAKE s \in Sessions
  <2>1. bandwidth[s] = 0 /\ moved[s] = 0 /\ dpc[s] = "end" /\ upc[s] = "end"
    OBVIOUS
  <2> HIDE DEF Init
  <2> QED
    BY <2>1 DEF Counted, UpPending, DownPending
<1>6. RowsCovered
  BY <1>1 DEF RowsCovered
<1> QED
  BY <1>3, <1>4, <1>5, <1>6 DEF SessionInv
-----------------------------------------------------------------------------
(* The steps of a session.                                                 *)

Step(s) ==
  \/ Request(s) \/ Upgrade(s) \/ Handler(s)
  \/ Downlink(s) \/ DownRead(s) \/ Uplink(s) \/ UpRead(s)
  \/ CloseDest(s) \/ ClosePeer(s)

(* The row that SaveUser writes.                                           *)
LEMMA ChargedRow ==
  ASSUME NEW s \in Sessions, snap[s] \in Rows, bandwidth[s] \in Nat
  PROVE  /\ Charged(s) \in Rows
         /\ Charged(s).used = snap[s].used + bandwidth[s]
<1>1. snap[s].used + bandwidth[s] \in Nat
  BY DEF Rows
<1> QED
  BY <1>1 DEF Charged, WithUsed, Rows

(* Every step of a session keeps the types.                                *)
LEMMA StepTypes ==
  ASSUME SessionInv, NEW s \in Sessions, Step(s)
  PROVE  TypeOK'
<1> USE SessionAssumption DEF SessionInv, TypeOK, rowVars, bucketVars, countVars, endVars
<1>1. CASE Request(s)
  BY <1>1 DEF Request
<1>2. CASE Upgrade(s)
  BY <1>2 DEF Upgrade
<1>3. CASE LoadUser(s)
  BY <1>3 DEF LoadUser
<1>4. CASE SaveUser(s)
  <2>1. Charged(s) \in Rows
    BY ChargedRow
  <2>2. owed + moved[s] \in Nat
    OBVIOUS
  <2> QED
    BY <1>4, <2>1, <2>2 DEF SaveUser
<1>5. CASE GetBucket(s)
  BY <1>5 DEF GetBucket, Unregistered
<1>6. CASE CreateBucket(s)
  <2>1. plans[user.plan].bandwidth \in Nat
    BY DEF Rows
  <2>2. plans[user.plan].bandwidth \div 2 \in Int
    BY <2>1
  <2> QED
    BY <1>6, <2>2 DEF CreateBucket
<1>7. CASE DownRead(s)
  BY <1>7 DEF DownRead
<1>8. CASE DownEOF(s)
  BY <1>8 DEF DownEOF
<1>9. CASE DownWait(s)
  BY <1>9 DEF DownWait
<1>10. CASE DownSend(s)
  BY <1>10 DEF DownSend, DownCount
<1>11. CASE UpRead(s)
  BY <1>11 DEF UpRead
<1>12. CASE UpClosed(s)
  BY <1>12 DEF UpClosed
<1>13. CASE UpSend(s)
  BY <1>13 DEF UpSend
<1>14. CASE CloseDest(s)
  BY <1>14 DEF CloseDest
<1>15. CASE ClosePeer(s)
  BY <1>15 DEF ClosePeer
<1> QED
  BY <1>1, <1>2, <1>3, <1>4, <1>5, <1>6, <1>7, <1>8, <1>9, <1>10, <1>11, <1>12, <1>13, <1>14, <1>15
     DEF Step, Handler, Downlink, Uplink

(* GetBucket is check-then-act, and nobody undoes a Put.                   *)
LEMMA StepBuckets ==
  ASSUME SessionInv, NEW s \in Sessions, Step(s)
  PROVE  Buckets'
<1> USE SessionAssumption DEF SessionInv, TypeOK, Buckets, bucketVars
<1>1. CASE Request(s) \/ Upgrade(s) \/ LoadUser(s) \/ SaveUser(s)
  BY <1>1 DEF Request, Upgrade, LoadUser, BothEnded, SaveUser
<1>2. CASE GetBucket(s)
  BY <1>2 DEF GetBucket, Unregistered
<1>3. CASE CreateBucket(s)
  <2>1. CASE user.state # "live"
    BY <1>3, <2>1 DEF CreateBucket
  <2>2. CASE user.state = "live"
    <3>1. plans[user.plan].bandwidth \in Nat
      BY DEF Rows
    <3> PICK r \in Nat : r = plans[user.plan].bandwidth \div 2
      BY <3>1
    <3>2. /\ bucket' = s /\ rate' = [rate EXCEPT ![s] = r]
          /\ mine' = [mine EXCEPT ![s] = s] /\ dpc' = [dpc EXCEPT ![s] = "read"]
      BY <1>3, <2>2 DEF CreateBucket
    <3>3. s # NoBucket /\ rate[s] = -1
      BY <1>3 DEF CreateBucket
    <3> QED
      BY <3>2, <3>3
  <2> QED
    BY <2>1, <2>2
<1>4. CASE DownRead(s) \/ DownEOF(s) \/ DownWait(s) \/ DownSend(s)
  BY <1>4 DEF DownRead, DownEOF, DownWait, DownSend, DownCount
<1>5. CASE UpRead(s) \/ UpClosed(s) \/ UpSend(s) \/ CloseDest(s) \/ ClosePeer(s)
  BY <1>5 DEF UpRead, UpClosed, UpSend, CloseDest, ClosePeer
<1> QED
  BY <1>1, <1>2, <1>3, <1>4, <1>5
     DEF Step, Handler, Downlink, Uplink

(* wg.Wait keeps the handler until both goroutines have ended.             *)
LEMMA StepStructure ==
  ASSUME SessionInv, NEW s \in Sessions, Step(s)
  PROVE  Structure'
<1> USE SessionAssumption DEF SessionInv, TypeOK, Structure
<1>1. CASE Request(s) \/ Upgrade(s) \/ LoadUser(s) \/ SaveUser(s)
  BY <1>1 DEF Request, Upgrade, LoadUser, BothEnded, SaveUser
<1>2. CASE GetBucket(s) \/ CreateBucket(s)
  BY <1>2 DEF GetBucket, Unregistered, CreateBucket
<1>3. CASE DownRead(s) \/ DownEOF(s) \/ DownWait(s) \/ DownSend(s)
  BY <1>3 DEF DownRead, DownEOF, DownWait, DownSend, DownCount
<1>4. CASE UpRead(s) \/ UpClosed(s) \/ UpSend(s) \/ CloseDest(s) \/ ClosePeer(s)
  BY <1>4 DEF UpRead, UpClosed, UpSend, CloseDest, ClosePeer
<1> QED
  BY <1>1, <1>2, <1>3, <1>4
     DEF Step, Handler, Downlink, Uplink

(* The rate of a bucket that a downlink waits on does not change.          *)
LEMMA RateKept ==
  ASSUME SessionInv, NEW s \in Sessions, Step(s), NEW t \in Sessions, dpc[t] = "wait"
  PROVE  mine'[t] = mine[t] /\ rate'[mine[t]] = rate[mine[t]]
<1> USE SessionAssumption DEF SessionInv, TypeOK, Buckets, bucketVars
<1>1. CASE CreateBucket(s)
  BY <1>1 DEF CreateBucket
<1>2. CASE GetBucket(s)
  BY <1>2 DEF GetBucket
<1>3. CASE ~CreateBucket(s) /\ ~GetBucket(s)
  BY <1>3 DEF Step, Handler, Downlink, Uplink, Request, Upgrade, LoadUser, SaveUser,
     DownRead, DownEOF, DownWait, DownSend, UpRead, UpClosed, UpSend, CloseDest, ClosePeer
<1> QED
  BY <1>1, <1>2, <1>3

(* A step of one session leaves the goroutines of another alone.           *)
LEMMA OthersKept ==
  ASSUME SessionInv, NEW s \in Sessions, Step(s), NEW t \in Sessions, t # s
  PROVE  /\ dpc'[t] = dpc[t] /\ upc'[t] = upc[t]
         /\ bandwidth'[t] = bandwidth[t] /\ moved'[t] = moved[t]
         /\ dtmp'[t] = dtmp[t] /\ utmp'[t] = utmp[t]
<1> USE DEF SessionInv, TypeOK, countVars
<1>1. CASE Request(s) \/ Upgrade(s) \/ Handler(s) \/ CloseDest(s) \/ ClosePeer(s)
  BY <1>1 DEF Handler, Request, Upgrade, LoadUser, SaveUser, CloseDest, ClosePeer
<1>2. CASE Downlink(s) \/ DownRead(s)
  BY <1>2 DEF Downlink, GetBucket, CreateBucket, DownRead, DownEOF, DownWait, DownSend
<1>3. CASE Uplink(s) \/ UpRead(s)
  BY <1>3 DEF Uplink, UpRead, UpClosed, UpSend
<1> QED
  BY <1>1, <1>2, <1>3 DEF Step

(* Neither the pending chunks nor the counters run ahead of the traffic.   *)
LEMMA StepCounted ==
  ASSUME SessionInv, NEW s \in Sessions, Step(s), NEW t \in Sessions
  PROVE  Counted(t)'
<1> USE DEF SessionInv, TypeOK, countVars, bucketVars
<1>0. Counted(t)
  OBVIOUS
<1>1. CASE t # s
  BY <1>0, <1>1, OthersKept, RateKept DEF Counted, UpPending, DownPending
<1> SUFFICES ASSUME t = s PROVE Counted(s)'
  BY <1>1
<1>2. CASE Request(s) \/ Handler(s) \/ CloseDest(s) \/ ClosePeer(s)
  <2>1. /\ UNCHANGED <<bandwidth, moved, dtmp, utmp>>
        /\ dpc' = dpc /\ upc' = upc /\ rate' = rate /\ mine' = mine
    BY <1>2 DEF Handler, Request, LoadUser, SaveUser, CloseDest, ClosePeer
  <2> QED
    BY <1>0, <2>1 DEF Counted, UpPending, DownPending
<1>3. CASE Upgrade(s)
  BY <1>0, <1>3 DEF Upgrade, Structure, Counted, UpPending, DownPending
<1>4. CASE GetBucket(s) \/ CreateBucket(s)
  <2>1. /\ UNCHANGED <<bandwidth, moved, dtmp, utmp, upc>>
        /\ dpc[s] \notin {"wait", "store"} /\ dpc'[s] \notin {"wait", "store"}
    BY <1>4 DEF GetBucket, CreateBucket
  <2> QED
    BY <1>0, <2>1 DEF Counted, UpPending, DownPending
<1>5. CASE DownRead(s)
  BY <1>0, <1>5 DEF DownRead, Counted, UpPending, DownPending
<1>6. CASE DownEOF(s)
  BY <1>0, <1>6 DEF DownEOF, Counted, UpPending, DownPending
<1>7. CASE DownWait(s)
  BY <1>0, <1>7 DEF DownWait, Counted, UpPending, DownPending
<1>8. CASE DownSend(s)
  BY <1>0, <1>8 DEF DownSend, DownCount, Counted, UpPending, DownPending
<1>9. CASE UpRead(s)
  BY <1>0, <1>9 DEF UpRead, Counted, UpPending, DownPending
<1>10. CASE UpClosed(s)
  BY <1>0, <1>10 DEF UpClosed, Counted, UpPending, DownPending
<1>11. CASE UpSend(s)
  BY <1>0, <1>11 DEF UpSend, Counted, UpPending, DownPending
<1> QED
  BY <1>2, <1>3, <1>4, <1>5, <1>6, <1>7, <1>8, <1>9, <1>10, <1>11
     DEF Step, Downlink, Uplink

(* Billing: what is written back was covered when it was loaded, and what  *)
(* is added is no more than the session has moved.                         *)
LEMMA StepRows ==
  ASSUME SessionInv, NEW s \in Sessions, Step(s)
  PROVE  RowsCovered'
<1> USE DEF SessionInv, TypeOK, rowVars
<1>1. CASE LoadUser(s)
  BY <1>1 DEF LoadUser, RowsCovered
<1>2. CASE SaveUser(s)
  <2>1. /\ snap[s].used \in Nat /\ user.used \in Nat
        /\ \A t \in Sessions : snap[t].used \in Nat
    BY DEF Rows
  <2>2. snap[s].used <= setMax + owed
    BY <1>2 DEF SaveUser, RowsCovered
  <2>3. bandwidth[s] <= moved[s]
    BY DEF Counted, UpPending, DownPending
  <2>4. /\ owed' = owed + moved[s] /\ setMax' = setMax /\ snap' = snap
        /\ \A t \in Sessions : hpc'[t] = "bill" => hpc[t] = "bill"
    BY <1>2 DEF SaveUser
  <2>5. user'.used <= setMax + owed + moved[s]
    <3>1. CASE user' = Charged(s)
      BY <3>1, <2>1, <2>2, <2>3, ChargedRow
    <3>2. CASE user' = user
      BY <3>2, <2>1 DEF RowsCovered
    <3> QED
      BY <1>2, <3>1, <3>2 DEF SaveUser
  <2> QED
    BY <2>1, <2>4, <2>5 DEF RowsCovered
<1>3. CASE Request(s) \/ Upgrade(s) \/ CloseDest(s) \/ ClosePeer(s)
  BY <1>3 DEF Request, Upgrade, CloseDest, ClosePeer, RowsCovered
<1>4. CASE Downlink(s) \/ DownRead(s)
  BY <1>4 DEF Downlink, GetBucket, CreateBucket, DownRead, DownEOF, DownWait, DownSend,
     RowsCovered
<1>5. CASE Uplink(s) \/ UpRead(s)
  BY <1>5 DEF Uplink, UpRead, UpClosed, UpSend, RowsCovered
<1> QED
  BY <1>1, <1>2, <1>3, <1>4, <1>5 DEF Step, Handler
-----------------------------------------------------------------------------
(* The administrator.                                                      *)

(* Sums keep the order of their terms.                                     *)
LEMMA SumMonotone ==
  \A a, b, c \in Nat : b >= a => a + c <= b + c /\ a <= b + c
  OBVIOUS

(* What an administrator writes preserves the invariant.                   *)
LEMMA AdminStep ==
  ASSUME SessionInv, Admin
  PROVE  SessionInv' /\ UNCHANGED sessionVars
<1> USE SessionAssumption
<1>1. UNCHANGED sessionVars
  BY DEF Admin, PutUser, DeleteUser, PutPlan, DeletePlan
<1>2. Buckets' /\ Structure' /\ \A s \in Sessions : Counted(s)'
  BY <1>1 DEF SessionInv, sessionVars, bucketVars, countVars, Buckets, Structure, Counted,
     UpPending, DownPending
<1>3. TypeOK' /\ RowsCovered'
  <2> USE <1>1 DEF SessionInv, TypeOK, sessionVars, bucketVars, countVars, endVars
  <2>0. user.used \in Nat /\ \A s \in Sessions : snap[s].used \in Nat
    BY DEF Rows
  <2>1. CASE \E n \in Charges, p \in Plans : PutUser(n, p)
    <3> PICK n \in Charges, p \in Plans : PutUser(n, p)
      BY <2>1
    <3>1. n \in Nat /\ plans' = plans /\ setMax' \in Nat /\ setMax' >= n /\ setMax' >= setMax
      BY DEF PutUser
    <3>2. user' \in Rows /\ user'.used = n
      BY <3>1 DEF PutUser, Rows
    <3>3. setMax + owed <= setMax' + owed /\ n <= setMax' + owed
      <4>1. setMax \in Nat /\ owed \in Nat /\ setMax' \in Nat
        BY <3>1
      <4>2. setMax + owed <= setMax' + owed
        BY <3>1, <4>1, SumMonotone
      <4>3. n <= setMax' + owed
        BY <3>1, <4>1, SumMonotone
      <4> QED
        BY <4>2, <4>3
    <3>4. \A s \in Sessions : hpc[s] = "bill" => snap[s].used <= setMax' + owed
      BY <2>0, <3>1, <3>3 DEF RowsCovered
    <3>5. RowsCovered'
      BY <3>2, <3>3, <3>4 DEF RowsCovered
    <3>6. TypeOK'
      BY <3>1, <3>2
    <3> QED
      BY <3>5, <3>6
  <2>2. CASE DeleteUser
    <3>1. user' \in Rows /\ user'.used = user.used
      BY <2>2 DEF DeleteUser, Rows
    <3> QED
      BY <2>2, <3>1 DEF DeleteUser, RowsCovered
  <2>3. CASE \E p \in Plans, l \in Limits, b \in Bandwidths : PutPlan(p, l, b)
    <3> PICK p \in Plans, l \in Limits, b \in Bandwidths : PutPlan(p, l, b)
      BY <2>3
    <3>1. plans' \in [Plans -> [limit : Nat, bandwidth : Nat]]
      <4>1. plans[p].limit \in Nat /\ plans[p].bandwidth \in Nat
        OBVIOUS
      <4>2. NonZero(l, plans[p].limit) \in Nat /\ NonZero(b, plans[p].bandwidth) \in Nat
        BY <4>1 DEF NonZero
      <4> QED
        BY <4>2 DEF PutPlan
    <3> QED
      BY <3>1 DEF PutPlan, RowsCovered
  <2>4. CASE \E p \in Plans : DeletePlan(p)
    <3> PICK p \in Plans : DeletePlan(p)
      BY <2>4
    <3>1. plans' \in [Plans -> [limit : Nat, bandwidth : Nat]]
      BY DEF DeletePlan, NoPlan
    <3> QED
      BY <3>1 DEF DeletePlan, RowsCovered
  <2> QED
    BY <2>1, <2>2, <2>3, <2>4 DEF Admin
<1> QED
  BY <1>1, <1>2, <1>3 DEF SessionInv

(* Every step preserves the invariant.                                     *)
LEMMA NextSessionInv == SessionInv /\ [Next]_vars => SessionInv'
<1> SUFFICES ASSUME SessionInv, [Next]_vars PROVE SessionInv'
  OBVIOUS
<1>1. CASE \E s \in Sessions : Step(s)
  BY <1>1, StepTypes, StepBuckets, StepStructure, StepCounted, StepRows DEF SessionInv
<1>2. CASE Admin
  BY <1>2, AdminStep
<1>3. CASE UNCHANGED vars
  BY <1>3 DEF vars, SessionInv, TypeOK, Buckets, Structure, Counted, UpPending,
     DownPending, RowsCovered
<1> QED
  BY <1>1, <1>2, <1>3 DEF Next, Step

(* The inductive invariant holds in every reachable state.                 *)
THEOREM SessionInvariant == Spec => []SessionInv
  BY InitSessionInv, NextSessionInv, PTL DEF Spec

(* `bandwidth += n' of two unsynchronised goroutines (server.go:247, 264)  *)
(* never counts more than the session has moved.                           *)
THEOREM SessionCounter == Spec => []CounterWithinTraffic
<1>1. SessionInv => CounterWithinTraffic
  <2> SUFFICES ASSUME SessionInv, NEW s \in Sessions PROVE bandwidth[s] <= moved[s]
    BY DEF CounterWithinTraffic
  <2> QED
    BY DEF SessionInv, TypeOK, Counted, UpPending, DownPending
<1> QED
  BY <1>1, SessionInvariant, PTL

(* However sessions and the administrator overwrite the row, no user is    *)
(* charged more than was set and moved.                                    *)
THEOREM SessionCharge == Spec => []ChargedWithinTraffic
<1>1. SessionInv => ChargedWithinTraffic
  BY DEF SessionInv, RowsCovered, ChargedWithinTraffic
<1> QED
  BY <1>1, SessionInvariant, PTL

(* The count that is billed is final.                                      *)
THEOREM SessionCountFinal == Spec => CountFinal
<1> DEFINE A == \A s \in Sessions : hpc[s] \in {"bill", "done"}
                   => bandwidth'[s] = bandwidth[s] /\ moved'[s] = moved[s]
<1>1. SessionInv /\ [Next]_vars => [A]_vars
  <2> SUFFICES ASSUME SessionInv, Next, NEW t \in Sessions, hpc[t] \in {"bill", "done"}
               PROVE  bandwidth'[t] = bandwidth[t] /\ moved'[t] = moved[t]
    OBVIOUS
  <2>1. CASE Admin
    BY <2>1, AdminStep DEF sessionVars, countVars
  <2>2. CASE \E s \in Sessions : s # t /\ Step(s)
    BY <2>2, OthersKept
  <2>3. CASE Step(t)
    BY <2>3 DEF SessionInv, Structure, Step, Handler, Downlink, Uplink, Request, Upgrade,
       LoadUser, SaveUser, GetBucket, CreateBucket, DownRead, DownEOF, DownWait, DownSend,
       UpRead, UpClosed, UpSend, CloseDest, ClosePeer, countVars
  <2> QED
    BY <2>1, <2>2, <2>3 DEF Next, Step
<1> QED
  BY <1>1, SessionInvariant, PTL DEF Spec, CountFinal

(* Once a bucket is registered and no creation is pending, the user's      *)
(* sessions share that bucket for good.                                    *)
THEOREM SessionBucketSettles == Spec => BucketSettles
<1> DEFINE A == bucket # NoBucket /\ NoCreator => bucket' = bucket /\ NoCreator'
<1>1. SessionInv /\ [Next]_vars => [A]_vars
  <2> SUFFICES ASSUME SessionInv, Next, bucket # NoBucket, NoCreator
               PROVE  bucket' = bucket /\ NoCreator'
    OBVIOUS
  <2> USE DEF SessionInv, TypeOK, NoCreator, bucketVars
  <2>1. CASE Admin
    BY <2>1, AdminStep DEF sessionVars
  <2>2. ASSUME NEW s \in Sessions, Step(s) PROVE bucket' = bucket /\ NoCreator'
    <3>1. CASE GetBucket(s)
      BY <3>1 DEF GetBucket, Unregistered
    <3>2. CASE ~GetBucket(s)
      BY <2>2, <3>2 DEF Step, Handler, Downlink, Uplink, Request, Upgrade, LoadUser,
         SaveUser, CreateBucket, DownRead, DownEOF, DownWait, DownSend, UpRead, UpClosed,
         UpSend, CloseDest, ClosePeer
    <3> QED
      BY <3>1, <3>2
  <2> QED
    BY <2>1, <2>2 DEF Next, Step
<1> QED
  BY <1>1, SessionInvariant, PTL DEF Spec, BucketSettles
-----------------------------------------------------------------------------
(* Nobody waits for ever: what is safety in SessionEnds.                   *)

(* The guards of Downlink and of Uplink.                                   *)
DownGoesOn(s) ==
  \/ dpc[s] \in {"bucket", "create", "store"}
  \/ dpc[s] = "read" /\ dest[s] = "closed" /\ rate[mine[s]] > 0
  \/ dpc[s] = "wait" /\ rate[mine[s]] > 0

UpGoesOn(s) == upc[s] = "store" \/ (upc[s] = "read" /\ peer[s] = "closed")

(* In a session whose two ends are closed each of the goroutines that the  *)
(* handler waits for has ended or can go on by itself, a downlink with a   *)
(* bucket of rate 0 apart: whatever bucket the race of GetBucket has left  *)
(* to it, it is one that runs.                                             *)
NeverStuck ==
  \A s \in Sessions :
    hpc[s] = "relay" /\ dest[s] = "closed" /\ peer[s] = "closed" =>
      /\ dpc[s] = "end" \/ DownGoesOn(s) \/ Starved(s)
      /\ upc[s] = "end" \/ UpGoesOn(s)

(* No session whose ends have gone is stuck: NeverStuck.                   *)
THEOREM SessionNeverStuck == Spec => []NeverStuck
<1>1. SessionInv => NeverStuck
  <2> SUFFICES ASSUME SessionInv, NEW s \in Sessions, dest[s] = "closed", peer[s] = "closed"
               PROVE  /\ dpc[s] = "end" \/ DownGoesOn(s) \/ Starved(s)
                      /\ upc[s] = "end" \/ UpGoesOn(s)
    BY DEF NeverStuck
  <2>1. upc[s] = "end" \/ UpGoesOn(s)
    BY DEF SessionInv, TypeOK, UpGoesOn
  <2>2. dpc[s] \in {"bucket", "create", "read", "wait", "store", "end"}
    BY DEF SessionInv, TypeOK
  <2>3. dpc[s] \in {"read", "wait"} => rate[mine[s]] \in Int /\ rate[mine[s]] >= 0
    BY DEF SessionInv, TypeOK, Buckets
  <2>4. dpc[s] = "end" \/ DownGoesOn(s) \/ Starved(s)
    BY <2>2, <2>3 DEF DownGoesOn, Starved
  <2> QED
    BY <2>1, <2>4
<1> QED
  BY <1>1, SessionInvariant, PTL
=============================================================================
