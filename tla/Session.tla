------------------------------ MODULE Session ------------------------------
(***************************************************************************)
(* The tunnel server (pkg/core/server.go): the sessions of one user, from  *)
(* the HTTP request to the billing of the traffic, and the rows of the     *)
(* database they share with each other and with the administrator          *)
(* (pkg/core/server_web.go).  Rows and buckets are keyed by the username,  *)
(* so that sessions of different users do not meet.                        *)
(*                                                                         *)
(* A session is three goroutines: the handler, which waits for the other   *)
(* two on a WaitGroup and then bills; the downlink, destination to client, *)
(* paced by the user's bucket; and the uplink.  Both add to `bandwidth'    *)
(* with no lock: `bandwidth += n' is a load and a store.                   *)
(*                                                                         *)
(* A chunk of data counts 1.  The bucket is what RateLimiter is proved to  *)
(* be: a Wait for tokens that do arrive returns.  A bucket of rate 0       *)
(* yields buffers of length 0, empty reads, and a Wait(0) nobody serves.   *)
(***************************************************************************)
EXTENDS Integers

CONSTANTS
  Sessions,      \* tunnel connections of the user
  Plans,         \* plan IDs
  Limits,        \* traffic limits the administrator sets
  Bandwidths,    \* bandwidth limits the administrator sets
  Charges,       \* values of traffic_used the administrator sets
  MaxMoved,      \* bound: chunks read in one session
  NoBucket       \* "no bucket is registered"

ASSUME SessionAssumption ==
  /\ Limits \subseteq Nat /\ Bandwidths \subseteq Nat
  /\ Charges \subseteq Nat /\ 0 \in Charges
  /\ MaxMoved \in Nat
  /\ NoBucket \notin Sessions

VARIABLES
  user,       \* the user's row: [state, used, plan]
  plans,      \* the plans table: [limit, bandwidth] of each plan
  bucket,     \* server.Map: the session whose bucket is registered
  rate,       \* the rate of the bucket a session created, -1 before
  hpc,        \* where the handler of each session is
  dpc,        \* its downlink goroutine
  upc,        \* its uplink goroutine
  mine,       \* the bucket its downlink got from GetBucket
  bandwidth,  \* its shared counter
  dtmp,       \* the value of it the downlink has loaded
  utmp,       \* and the uplink
  snap,       \* the row the deferred function has loaded
  dest,       \* the destination's end of c: "none", "open", "closed"
  peer,       \* the client's end of the websocket
  moved,      \* history: chunks read from either end
  owed,       \* history: chunks moved by the sessions that have saved
  setMax      \* history: the largest traffic_used an administrator has set

rowVars == <<user, plans, setMax>>
bucketVars == <<bucket, rate, mine>>
countVars == <<bandwidth, dtmp, utmp, moved>>
endVars == <<dest, peer>>
vars == <<user, plans, bucket, rate, hpc, dpc, upc, mine, bandwidth, dtmp, utmp,
          snap, dest, peer, moved, owed, setMax>>

(* What a user's plan is loaded as when its row has been deleted.          *)
NoPlan == [limit |-> 0, bandwidth |-> 0]

Init ==
  /\ user \in {[state |-> "live", used |-> 0, plan |-> p] : p \in Plans}
  /\ plans \in [Plans -> [limit : Limits \ {0}, bandwidth : Bandwidths]]
  /\ bucket = NoBucket
  /\ rate = [s \in Sessions |-> -1]
  /\ hpc = [s \in Sessions |-> "idle"]
  /\ dpc = [s \in Sessions |-> "end"]
  /\ upc = [s \in Sessions |-> "end"]
  /\ mine = [s \in Sessions |-> NoBucket]
  /\ bandwidth = [s \in Sessions |-> 0]
  /\ dtmp = [s \in Sessions |-> 0]
  /\ utmp = [s \in Sessions |-> 0]
  /\ snap = [s \in Sessions |-> user]
  /\ dest = [s \in Sessions |-> "none"]
  /\ peer = [s \in Sessions |-> "none"]
  /\ moved = [s \in Sessions |-> 0]
  /\ owed = 0
  /\ setMax = 0
-----------------------------------------------------------------------------
(* The handler.                                                            *)

(* Authenticate, for a request with the right password.                    *)
Authenticated == user.state = "live" /\ user.used < plans[user.plan].limit

(* requestHandler up to net.Dial: a refused request goes to the web site,  *)
(* a bad, reserved or unreachable address ends it.                         *)
Request(s) ==
  /\ hpc[s] = "idle"
  /\ peer' = [peer EXCEPT ![s] = "open"]
  /\ \/ /\ Authenticated
        /\ hpc' = [hpc EXCEPT ![s] = "dialled"]
        /\ dest' = [dest EXCEPT ![s] = "open"]
     \/ hpc' = [hpc EXCEPT ![s] = "refused"] /\ UNCHANGED dest
  /\ UNCHANGED <<rowVars, bucketVars, countVars, dpc, upc, snap, owed>>

(* Upgrade succeeds and its callback starts the two goroutines; or fails,  *)
(* and the request goes to the web site; or the callback cannot set the    *)
(* compression level and closes the websocket.  c stays open in both.      *)
Upgrade(s) ==
  /\ hpc[s] = "dialled"
  /\ \/ /\ hpc' = [hpc EXCEPT ![s] = "relay"]
        /\ dpc' = [dpc EXCEPT ![s] = "bucket"]
        /\ upc' = [upc EXCEPT ![s] = "read"]
        /\ UNCHANGED peer
     \/ /\ hpc' = [hpc EXCEPT ![s] = "refused"]
        /\ peer' \in {peer, [peer EXCEPT ![s] = "closed"]}
        /\ UNCHANGED <<dpc, upc>>
  /\ UNCHANGED <<rowVars, bucketVars, countVars, dest, snap, owed>>

(* Fault: wg.Add(1), the handler waits for one of the two.                 *)
OneEnded(s) == dpc[s] = "end" \/ upc[s] = "end"

(* wg.Wait() returns.                                                      *)
BothEnded(s) == dpc[s] = "end" /\ upc[s] = "end"

(* conn.Close(), and the deferred function loads the row.                  *)
LoadUser(s) ==
  /\ hpc[s] = "relay"
  /\ BothEnded(s)
  /\ peer' = [peer EXCEPT ![s] = "closed"]
  /\ IF user.state = "live"
     THEN hpc' = [hpc EXCEPT ![s] = "bill"] /\ snap' = [snap EXCEPT ![s] = user]
     ELSE hpc' = [hpc EXCEPT ![s] = "done"] /\ UNCHANGED snap
  /\ UNCHANGED <<rowVars, bucketVars, countVars, dest, dpc, upc, owed>>

WithUsed(row, n) == [state |-> row.state, used |-> n, plan |-> row.plan]

(* Fault: the traffic is charged twice.                                    *)
ChargedTwice(s) == WithUsed(snap[s], snap[s].used + 2 * bandwidth[s])

(* user.TrafficUsed += uint(bandwidth)                                     *)
Charged(s) == WithUsed(snap[s], snap[s].used + bandwidth[s])

(* db.Save writes every column of the loaded row back.  A row deleted in   *)
(* between is either left alone or written, as gorm's UPDATE has it.       *)
SaveUser(s) ==
  /\ hpc[s] = "bill"
  /\ hpc' = [hpc EXCEPT ![s] = "done"]
  /\ \/ user' = Charged(s)
     \/ user.state = "deleted" /\ UNCHANGED user
  /\ owed' = owed + moved[s]
  /\ UNCHANGED <<plans, setMax, bucketVars, countVars, endVars, dpc, upc, snap>>
-----------------------------------------------------------------------------
(* The downlink: GetBucket, Read, Wait, count, WriteMessage.               *)

(* Fault: GetBucket never finds the user's bucket.                         *)
NotRegistered(s) == bucket = NoBucket \/ bucket # s

(* server.Map has no bucket for the user.                                  *)
Unregistered(s) == bucket = NoBucket

(* The locked part of GetBucket: a registered bucket is used.              *)
GetBucket(s) ==
  /\ dpc[s] = "bucket"
  /\ IF Unregistered(s)
     THEN dpc' = [dpc EXCEPT ![s] = "create"] /\ UNCHANGED mine
     ELSE dpc' = [dpc EXCEPT ![s] = "read"] /\ mine' = [mine EXCEPT ![s] = bucket]
  /\ UNCHANGED <<rowVars, bucket, rate, countVars, endVars, hpc, upc, snap, owed>>

(* The rest of it: a new bucket replaces whatever is registered by now.    *)
CreateBucket(s) ==
  /\ dpc[s] = "create"
  /\ IF user.state = "live"
     THEN /\ rate' = [rate EXCEPT ![s] = plans[user.plan].bandwidth \div 2]
          /\ bucket' = s
          /\ mine' = [mine EXCEPT ![s] = s]
          /\ dpc' = [dpc EXCEPT ![s] = "read"]
     ELSE dpc' = [dpc EXCEPT ![s] = "end"] /\ UNCHANGED bucketVars
  /\ UNCHANGED <<rowVars, countVars, endVars, hpc, upc, snap, owed>>

(* c.Read into a buffer as long as the bucket allows: data, or nothing if  *)
(* that length is 0.                                                       *)
DownRead(s) ==
  /\ dpc[s] = "read"
  /\ rate[mine[s]] > 0 => dest[s] = "open" /\ moved[s] < MaxMoved
  /\ moved' = [moved EXCEPT ![s] = IF rate[mine[s]] > 0 THEN @ + 1 ELSE @]
  /\ dpc' = [dpc EXCEPT ![s] = "wait"]
  /\ UNCHANGED <<rowVars, bucketVars, bandwidth, dtmp, utmp, endVars, hpc, upc, snap, owed>>

(* Fault: an error of c.Read is retried.                                   *)
DownRetries(s) ==
  /\ dpc[s] = "read"
  /\ dest[s] = "closed" /\ rate[mine[s]] > 0
  /\ dpc' = [dpc EXCEPT ![s] = "bucket"]
  /\ UNCHANGED <<rowVars, bucketVars, countVars, endVars, hpc, upc, snap, owed>>

(* c.Read returns an error.                                                *)
DownEOF(s) ==
  /\ dpc[s] = "read"
  /\ dest[s] = "closed" /\ rate[mine[s]] > 0
  /\ dpc' = [dpc EXCEPT ![s] = "end"]
  /\ UNCHANGED <<rowVars, bucketVars, countVars, endVars, hpc, upc, snap, owed>>

(* bucket.Wait(n) returns, which it does for n > 0; `bandwidth' is loaded. *)
DownWait(s) ==
  /\ dpc[s] = "wait"
  /\ rate[mine[s]] > 0
  /\ dtmp' = [dtmp EXCEPT ![s] = bandwidth[s]]
  /\ dpc' = [dpc EXCEPT ![s] = "store"]
  /\ UNCHANGED <<rowVars, bucketVars, bandwidth, utmp, moved, endVars, hpc, upc, snap, owed>>

DownCount(s) == dtmp[s] + 1

(* `bandwidth' is stored, and conn.WriteMessage sends the chunk.           *)
DownSend(s) ==
  /\ dpc[s] = "store"
  /\ bandwidth' = [bandwidth EXCEPT ![s] = DownCount(s)]
  /\ dpc' = [dpc EXCEPT ![s] = IF peer[s] = "open" THEN "bucket" ELSE "end"]
  /\ UNCHANGED <<rowVars, bucketVars, dtmp, utmp, moved, endVars, hpc, upc, snap, owed>>
-----------------------------------------------------------------------------
(* The uplink: ReadMessage, count, Write.                                  *)

UpRead(s) ==
  /\ upc[s] = "read"
  /\ peer[s] = "open"
  /\ moved[s] < MaxMoved
  /\ moved' = [moved EXCEPT ![s] = @ + 1]
  /\ utmp' = [utmp EXCEPT ![s] = bandwidth[s]]
  /\ upc' = [upc EXCEPT ![s] = "store"]
  /\ UNCHANGED <<rowVars, bucketVars, bandwidth, dtmp, endVars, hpc, dpc, snap, owed>>

UpClosed(s) ==
  /\ upc[s] = "read"
  /\ peer[s] = "closed"
  /\ upc' = [upc EXCEPT ![s] = "end"]
  /\ UNCHANGED <<rowVars, bucketVars, countVars, endVars, hpc, dpc, snap, owed>>

UpSend(s) ==
  /\ upc[s] = "store"
  /\ bandwidth' = [bandwidth EXCEPT ![s] = utmp[s] + 1]
  /\ upc' = [upc EXCEPT ![s] = IF dest[s] = "open" THEN "read" ELSE "end"]
  /\ UNCHANGED <<rowVars, bucketVars, dtmp, utmp, moved, endVars, hpc, dpc, snap, owed>>
-----------------------------------------------------------------------------
(* The ends close, and the administrator writes rows, at any moment.       *)

CloseDest(s) ==
  /\ dest[s] = "open"
  /\ dest' = [dest EXCEPT ![s] = "closed"]
  /\ UNCHANGED <<rowVars, bucketVars, countVars, peer, hpc, dpc, upc, snap, owed>>

ClosePeer(s) ==
  /\ peer[s] = "open"
  /\ peer' = [peer EXCEPT ![s] = "closed"]
  /\ UNCHANGED <<rowVars, bucketVars, countVars, dest, hpc, dpc, upc, snap, owed>>

sessionVars == <<bucketVars, countVars, endVars, hpc, dpc, upc, snap, owed>>

PutUser(n, p) ==
  /\ user.state = "live"
  /\ user' = [user EXCEPT !.used = n, !.plan = p]
  /\ setMax' = IF n > setMax THEN n ELSE setMax
  /\ UNCHANGED <<plans, sessionVars>>

DeleteUser ==
  /\ user.state = "live"
  /\ user' = [user EXCEPT !.state = "deleted"]
  /\ UNCHANGED <<plans, setMax, sessionVars>>

(* gorm's Updates with a struct skips the fields that are zero.            *)
NonZero(new, old) == IF new = 0 THEN old ELSE new

PutPlan(p, l, b) ==
  /\ plans[p] # NoPlan
  /\ plans' = [plans EXCEPT ![p] = [limit |-> NonZero(l, plans[p].limit),
                                    bandwidth |-> NonZero(b, plans[p].bandwidth)]]
  /\ UNCHANGED <<user, setMax, sessionVars>>

DeletePlan(p) ==
  /\ plans' = [plans EXCEPT ![p] = NoPlan]
  /\ UNCHANGED <<user, setMax, sessionVars>>

Admin ==
  \/ \E n \in Charges, p \in Plans : PutUser(n, p)
  \/ DeleteUser
  \/ \E p \in Plans, l \in Limits, b \in Bandwidths : PutPlan(p, l, b)
  \/ \E p \in Plans : DeletePlan(p)

(* What the goroutines of a session do by themselves.                      *)
Handler(s) == LoadUser(s) \/ SaveUser(s)
Downlink(s) ==
  GetBucket(s) \/ CreateBucket(s) \/ DownEOF(s) \/ DownWait(s) \/ DownSend(s)
Uplink(s) == UpClosed(s) \/ UpSend(s)

Next ==
  \/ \E s \in Sessions :
       \/ Request(s) \/ Upgrade(s) \/ Handler(s)
       \/ Downlink(s) \/ DownRead(s) \/ Uplink(s) \/ UpRead(s)
       \/ CloseDest(s) \/ ClosePeer(s)
  \/ Admin

Spec == Init /\ [][Next]_vars

(* Goroutines that can run do; whether data or requests come is up to the  *)
(* peers.                                                                  *)
Fairness ==
  \A s \in Sessions :
    WF_vars(Handler(s)) /\ WF_vars(Downlink(s)) /\ WF_vars(Uplink(s))

FairSpec == Spec /\ Fairness
-----------------------------------------------------------------------------
(* Properties.                                                             *)

Rows == [state : {"live", "deleted"}, used : Nat, plan : Plans]

(* Type correctness; in particular no charge is ever negative.             *)
TypeOK ==
  /\ user \in Rows
  /\ plans \in [Plans -> [limit : Nat, bandwidth : Nat]]
  /\ bucket \in Sessions \cup {NoBucket}
  /\ rate \in [Sessions -> Int]
  /\ hpc \in [Sessions -> {"idle", "dialled", "relay", "bill", "done", "refused"}]
  /\ dpc \in [Sessions -> {"bucket", "create", "read", "wait", "store", "end"}]
  /\ upc \in [Sessions -> {"read", "store", "end"}]
  /\ mine \in [Sessions -> Sessions \cup {NoBucket}]
  /\ bandwidth \in [Sessions -> Nat]
  /\ dtmp \in [Sessions -> Nat]
  /\ utmp \in [Sessions -> Nat]
  /\ snap \in [Sessions -> Rows]
  /\ dest \in [Sessions -> {"none", "open", "closed"}]
  /\ peer \in [Sessions -> {"none", "open", "closed"}]
  /\ moved \in [Sessions -> Nat]
  /\ owed \in Nat
  /\ setMax \in Nat

(* The unlocked counter may lose traffic, but it never invents any.        *)
CounterWithinTraffic == \A s \in Sessions : bandwidth[s] <= moved[s]

(* Sessions and the administrator overwrite each other's rows, but a user  *)
(* is never charged more than an administrator has set plus what the       *)
(* sessions that saved have moved.                                         *)
ChargedWithinTraffic ==
  user.used <= setMax + owed

(* What is billed is final: from the moment the row is loaded, no          *)
(* goroutine of the session counts any more.                               *)
CountFinal ==
  [][\A s \in Sessions : hpc[s] \in {"bill", "done"}
                           => bandwidth'[s] = bandwidth[s] /\ moved'[s] = moved[s]]_vars

(* Nobody is between the miss and the Put of GetBucket.                    *)
NoCreator == \A s \in Sessions : dpc[s] # "create"

(* The race in GetBucket is transient: once a bucket is registered and no  *)
(* creation is pending, it is the user's bucket for good.                  *)
BucketSettles ==
  [][bucket # NoBucket /\ NoCreator => bucket' = bucket /\ NoCreator']_vars

(* A bucket of rate 0 (a bandwidth limit of 0 or 1) serves nobody.         *)
Starved(s) == dpc[s] \in {"read", "wait"} /\ rate[mine[s]] = 0

(* A session whose two ends are closed ends and is billed, unless its      *)
(* bucket has rate 0.                                                      *)
SessionEnds ==
  \A s \in Sessions :
    (hpc[s] = "relay" /\ dest[s] = "closed" /\ peer[s] = "closed")
      ~> (hpc[s] = "done" \/ Starved(s))
=============================================================================
