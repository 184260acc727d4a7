------------------------------- MODULE Router -------------------------------
(***************************************************************************)
(* The client's router (pkg/core/router.go): decides for every destination *)
(* address whether it is tunnelled ("proxy") or dialled from here          *)
(* ("direct"), from a GeoIP database that a background goroutine replaces  *)
(* while the decisions go on.                                              *)
(*                                                                         *)
(* Actors: the goroutines that call Select (event loops of the client), of *)
(* which Self serves the router's own downloads, since Update fetches      *)
(* through the client's SOCKS port; the goroutine that runs Update once    *)
(* per start; and the environment, which crashes and restarts the process  *)
(* and publishes new archives.                                             *)
(*                                                                         *)
(* Atomicity.  router.mutex is held for reading during getGeoIP and for    *)
(* writing in SwitchOn and SwitchOff, mutexMap inside getCache, setCache   *)
(* and RemoveCache; GeoIPDB and the files are written under no lock.  So   *)
(* getGeoIP is two steps (the test of `on', the use of GeoIPDB) with the   *)
(* read lock held in between, a switch is one step that needs no reader    *)
(* inside, and every file operation is a step of its own.                  *)
(***************************************************************************)
EXTENDS Naturals

CONSTANTS
  IPs,        \* destination addresses: [fam, private, country] records
  Callers,    \* goroutines that call Select
  Self,       \* the one that serves the router's own HTTP requests
  UpdateHost, \* the address of download.maxmind.com
  Settings    \* the values client.proxy_all may have at a start

ASSUME RouterAssumption ==
  /\ Self \in Callers
  /\ UpdateHost \in IPs
  /\ Settings \subseteq {"yes", "no"}

VARIABLES
  proxyAll,    \* client.proxy_all, as read at the last start
  proc,        \* the client process: "up", or "down" (crashed, or NewRouter failed)
  on,          \* router.on, as "on" or "off"
  db,          \* router.GeoIPDB: "nil", "open", "closed"
  cache,       \* router.hashMap: "proxy", "direct" or "none"
  compressed,  \* geoip.mmdb.tar.gz: "absent", "partial", "stale", "current"
  mmdb,        \* geoip.mmdb: "absent", "partial", "complete"
  upd,         \* where the goroutine of Update is
  pc,          \* where each caller is in Select
  ip,          \* the argument of its Select
  res          \* and the result so far

routerVars == <<proxyAll, proc, on, db, cache, compressed, mmdb, upd, pc, ip, res>>

(* isReservedIP over the table of init(): the private and special IPv4     *)
(* blocks, and, through its entry "::/0", every IPv6 address.              *)
isReservedIP(i) == i.fam = 6 \/ i.private

(* The server's own check (server.go): an address with no 4-byte form      *)
(* becomes nil, which is in no block.                                      *)
ServerRefuses(i) == i.fam = 4 /\ isReservedIP(i)

(* NewRouter.  A missing database switches the router off; a database that *)
(* cannot be opened is an error, and the client does not start.            *)
NewRouterFails(setting) == setting = "no" /\ mmdb = "partial"

Boot ==
  /\ on' = IF proxyAll' = "no" /\ mmdb = "complete" THEN "on" ELSE "off"
  /\ db' = IF proxyAll' = "no" /\ mmdb = "complete" THEN "open" ELSE "nil"
  /\ cache' = [i \in IPs |-> "none"]
  /\ upd' = IF proxyAll' = "yes" THEN "done" ELSE "check"
  /\ pc' = [c \in Callers |-> "idle"]
  /\ res' = [c \in Callers |-> "none"]
  /\ UNCHANGED <<compressed, mmdb, ip>>

(* Each start reads the configuration file, which may have been edited.    *)
Start ==
  /\ proc = "down"
  /\ proxyAll' \in Settings
  /\ ~NewRouterFails(proxyAll')
  /\ proc' = "up"
  /\ Boot

StartFails ==
  /\ proc = "down"
  /\ \E setting \in Settings : NewRouterFails(setting)
  /\ UNCHANGED routerVars

(* The process dies (or is stopped) between any two steps.                 *)
Crash ==
  /\ proc = "up"
  /\ proc' = "down"
  /\ on' = "off"
  /\ db' = "nil"
  /\ cache' = [i \in IPs |-> "none"]
  /\ upd' = "done"
  /\ pc' = [c \in Callers |-> "idle"]
  /\ res' = [c \in Callers |-> "none"]
  /\ UNCHANGED <<proxyAll, compressed, mmdb, ip>>

(* MaxMind publishes a new archive.                                        *)
Publish ==
  /\ compressed = "current"
  /\ compressed' = "stale"
  /\ UNCHANGED <<proxyAll, proc, on, db, cache, mmdb, upd, pc, ip, res>>

(* A first start with no files, or with those an earlier run completed.    *)
Init ==
  /\ proxyAll = "no"
  /\ proc = "down"
  /\ on = "off"
  /\ db = "nil"
  /\ cache = [i \in IPs |-> "none"]
  /\ \/ compressed = "absent" /\ mmdb = "absent"
     \/ compressed = "stale" /\ mmdb = "complete"
  /\ upd = "done"
  /\ pc = [c \in Callers |-> "idle"]
  /\ ip = [c \in Callers |-> UpdateHost]
  /\ res = [c \in Callers |-> "none"]
-----------------------------------------------------------------------------
(* Select.                                                                 *)

fileVars == <<compressed, mmdb>>

(* getCache: a hit is the result, a miss goes on to getGeoIP.              *)
Select(c, i) ==
  /\ proc = "up"
  /\ pc[c] = "idle"
  /\ ip' = [ip EXCEPT ![c] = i]
  /\ res' = [res EXCEPT ![c] = cache[i]]
  /\ pc' = [pc EXCEPT ![c] = IF cache[i] = "none" THEN "geo" ELSE "ret"]
  /\ UNCHANGED <<proxyAll, proc, on, db, cache, fileVars, upd>>

(* Fault: a router that is off goes direct.                                *)
GeoDecisionOffDirect(i) ==
  IF isReservedIP(i) THEN "direct" ELSE IF on = "off" THEN "direct" ELSE "lookup"

(* The tests at the head of getGeoIP.                                      *)
GeoDecision(i) ==
  IF isReservedIP(i) THEN "direct" ELSE IF on = "off" THEN "proxy" ELSE "lookup"

(* Fault: Download keeps the write lock from SwitchOff to SwitchOn.        *)
GeoEnterLockedOut(c) ==
  /\ upd \in {"check", "sum", "switchOff", "done"}
  /\ pc[c] = "geo"
  /\ pc' = [pc EXCEPT ![c] = "set"]
  /\ res' = [res EXCEPT ![c] = IF isReservedIP(ip[c]) THEN "direct" ELSE "proxy"]
  /\ UNCHANGED <<proxyAll, proc, on, db, cache, fileVars, upd, ip>>

(* A sync.RWMutex with a writer pending lets no new reader in.             *)
NoWriter == upd \notin {"switchOff", "switchOn"}

(* getGeoIP takes the read lock; it keeps it only to use the database.     *)
GeoEnter(c) ==
  /\ pc[c] = "geo"
  /\ NoWriter
  /\ IF GeoDecision(ip[c]) = "lookup"
     THEN pc' = [pc EXCEPT ![c] = "lookup"] /\ UNCHANGED res
     ELSE /\ pc' = [pc EXCEPT ![c] = "set"]
          /\ res' = [res EXCEPT ![c] = GeoDecision(ip[c])]
  /\ UNCHANGED <<proxyAll, proc, on, db, cache, fileVars, upd, ip>>

(* GeoIPDB.Country: any country but CN is "proxy", and so is an address    *)
(* whose record cannot be read (country "error").                          *)
GeoLookup(c) ==
  /\ pc[c] = "lookup"
  /\ res' = [res EXCEPT ![c] = IF ip[c].country = "CN" THEN "direct" ELSE "proxy"]
  /\ pc' = [pc EXCEPT ![c] = "set"]
  /\ UNCHANGED <<proxyAll, proc, on, db, cache, fileVars, upd, ip>>

SetCache(c) ==
  /\ pc[c] = "set"
  /\ cache' = [cache EXCEPT ![ip[c]] = res[c]]
  /\ pc' = [pc EXCEPT ![c] = "ret"]
  /\ UNCHANGED <<proxyAll, proc, on, db, fileVars, upd, ip, res>>

(* Select has returned and its caller goes on (Self: see Fetched).         *)
SelectReturn(c) ==
  /\ pc[c] = "ret"
  /\ pc' = [pc EXCEPT ![c] = "idle"]
  /\ UNCHANGED <<proxyAll, proc, on, db, cache, fileVars, upd, ip, res>>

(* A connection to i is closed, at any moment (Client.OnClosed).           *)
RemoveCache(i) ==
  /\ proc = "up"
  /\ cache[i] # "none"
  /\ cache' = [cache EXCEPT ![i] = "none"]
  /\ UNCHANGED <<proxyAll, proc, on, db, fileVars, upd, pc, ip, res>>

SelectStep(c) == GeoEnter(c) \/ GeoLookup(c) \/ SetCache(c)
-----------------------------------------------------------------------------
(* Update and Download.                                                    *)

(* The goroutine of Update moves from p to q and touches nothing else.     *)
Goto(p, q) ==
  /\ upd = p
  /\ upd' = q
  /\ UNCHANGED <<proxyAll, proc, on, db, cache, fileVars, pc, ip, res>>

(* os.Open of the archive: missing, unreadable, or hashed.                 *)
OpenArchive ==
  \/ compressed = "absent" /\ Goto("check", "switchOff")
  \/ compressed # "absent" /\ (Goto("check", "sum") \/ Goto("check", "done"))

(* An HTTP GET through localhost:port: the client routes it like any other *)
(* connection, and only then can the answer arrive.                        *)
Fetching == upd \in {"sum", "get"}
Fetch == Fetching /\ Select(Self, UpdateHost)

(* The GET ends: `next' after a 200, otherwise Update returns the error.   *)
Fetched(p, next) ==
  /\ upd = p
  /\ pc[Self] = "ret"
  /\ pc' = [pc EXCEPT ![Self] = "idle"]
  /\ upd' \in {next, "done"}
  /\ UNCHANGED <<proxyAll, proc, on, db, cache, fileVars, ip, res>>

(* The published checksum equals that of the file, or Download runs.       *)
SumFetched == Fetched("sum", IF compressed = "current" THEN "done" ELSE "switchOff")

(* Nobody is inside getGeoIP.                                              *)
NoReader == \A c \in Callers : pc[c] # "lookup"

(* Fault: the switch does not take the write lock.                         *)
SwitchOffUnlocked ==
  /\ upd = "switchOff"
  /\ on' = "off"
  /\ upd' = "get"
  /\ UNCHANGED <<proxyAll, proc, db, cache, fileVars, pc, ip, res>>

SwitchOff ==
  /\ upd = "switchOff"
  /\ NoReader
  /\ on' = "off"
  /\ upd' = "get"
  /\ UNCHANGED <<proxyAll, proc, db, cache, fileVars, pc, ip, res>>

ArchiveFetched == Fetched("get", "save")

(* os.Create truncates the archive, io.Copy completes it; either may fail. *)
SaveArchive ==
  \/ Goto("save", "done")
  \/ /\ upd = "save"
     /\ compressed' = "partial"
     /\ upd' = "copy"
     /\ UNCHANGED <<proxyAll, proc, on, db, cache, mmdb, pc, ip, res>>

CopyArchive ==
  \/ Goto("copy", "done")
  \/ /\ upd = "copy"
     /\ compressed' = "current"
     /\ upd' = "walk"
     /\ UNCHANGED <<proxyAll, proc, on, db, cache, mmdb, pc, ip, res>>

(* gz.Walk: unreadable, no .mmdb inside, or the callback closes GeoIPDB.   *)
WalkArchive ==
  \/ Goto("walk", "done")
  \/ Goto("walk", "reopen")
  \/ /\ upd = "walk"
     /\ db' = IF db = "nil" THEN "nil" ELSE "closed"
     /\ upd' = "create"
     /\ UNCHANGED <<proxyAll, proc, on, cache, fileVars, pc, ip, res>>

(* The callback truncates the database in place, then copies it.           *)
CreateMmdb ==
  \/ Goto("create", "done")
  \/ /\ upd = "create"
     /\ mmdb' = "partial"
     /\ upd' = "extract"
     /\ UNCHANGED <<proxyAll, proc, on, db, cache, compressed, pc, ip, res>>

ExtractMmdb ==
  \/ Goto("extract", "done")
  \/ /\ upd = "extract"
     /\ mmdb' = "complete"
     /\ upd' = "reopen"
     /\ UNCHANGED <<proxyAll, proc, on, db, cache, compressed, pc, ip, res>>

(* geoip2.Open: on an error GeoIPDB is nil and the router stays off.       *)
Reopen ==
  /\ upd = "reopen"
  /\ \/ mmdb = "complete" /\ db' = "open" /\ upd' = "switchOn"
     \/ db' = "nil" /\ upd' = "done"
  /\ UNCHANGED <<proxyAll, proc, on, cache, fileVars, pc, ip, res>>

SwitchOn ==
  /\ upd = "switchOn"
  /\ NoReader
  /\ on' = "on"
  /\ upd' = "done"
  /\ UNCHANGED <<proxyAll, proc, db, cache, fileVars, pc, ip, res>>

(* What the goroutine of Update does by itself, disk and locks only.       *)
Work ==
  \/ OpenArchive \/ SwitchOff \/ SaveArchive \/ CopyArchive \/ WalkArchive
  \/ CreateMmdb \/ ExtractMmdb \/ Reopen \/ SwitchOn

(* And what it waits for: an answer from MaxMind, for which the HTTP       *)
(* client sets no timeout.                                                 *)
Answer == SumFetched \/ ArchiveFetched

Update == Work \/ Fetch \/ Answer

Next ==
  \/ Start \/ StartFails \/ Crash \/ Publish
  \/ Update
  \/ \E c \in Callers : SelectStep(c)
  \/ \E c \in Callers \ {Self} : SelectReturn(c)
  \/ \E c \in Callers \ {Self}, i \in IPs : Select(c, i)
  \/ \E i \in IPs : RemoveCache(i)

Spec == Init /\ [][Next]_routerVars

(* A goroutine that can go on does.  Neither the event loop that takes up  *)
(* the router's own request nor MaxMind's answer is fair: React may hold   *)
(* the loop in a call without deadline, and the answer may never come.     *)
Fairness ==
  /\ WF_routerVars(Work)
  /\ \A c \in Callers : WF_routerVars(SelectStep(c))

FairSpec == Spec /\ Fairness
-----------------------------------------------------------------------------
(* Properties.                                                             *)

Routes == {"none", "proxy", "direct"}

(* Type correctness: every decision is a route.                            *)
TypeOK ==
  /\ proxyAll \in {"yes", "no"}
  /\ proc \in {"up", "down"}
  /\ on \in {"on", "off"}
  /\ db \in {"nil", "open", "closed"}
  /\ cache \in [IPs -> Routes]
  /\ compressed \in {"absent", "partial", "stale", "current"}
  /\ mmdb \in {"absent", "partial", "complete"}
  /\ upd \in {"check", "sum", "switchOff", "get", "save", "copy", "walk", "create",
              "extract", "reopen", "switchOn", "done"}
  /\ pc \in [Callers -> {"idle", "geo", "lookup", "set", "ret"}]
  /\ ip \in [Callers -> IPs]
  /\ res \in [Callers -> Routes]

(* A lookup never touches a database that is nil, closed or torn: whoever  *)
(* is inside getGeoIP past the test of `on' finds an open reader over a    *)
(* complete file, although Download closes and rewrites both unlocked.     *)
LookupSafe ==
  \A c \in Callers : pc[c] = "lookup" => db = "open" /\ mmdb = "complete"

(* Why: the router is on only over a good database, a reader inside keeps  *)
(* it on, and from SwitchOff to SwitchOn it is off.                        *)
Serving ==
  /\ on = "on" => db = "open" /\ mmdb = "complete"
  /\ \A c \in Callers : pc[c] = "lookup" => on = "on"
  /\ upd \in {"get", "save", "copy", "walk", "create", "extract", "reopen", "switchOn"}
       => on = "off"
  /\ upd = "switchOn" => db = "open" /\ mmdb = "complete"

(* A decision r about i is justified.                                      *)
Justified(i, r) ==
  /\ r = "direct" => isReservedIP(i) \/ i.country = "CN"
  /\ r = "proxy" => ~isReservedIP(i)

(* Whatever the state of the update, cached or returned: only reserved and *)
(* domestic addresses are dialled directly, and no reserved address is     *)
(* tunnelled.                                                              *)
RoutesJustified ==
  /\ \A i \in IPs : Justified(i, cache[i])
  /\ \A c \in Callers : Justified(ip[c], res[c])

(* The server accepts every address the client decides to tunnel.          *)
TunnelAccepted == \A i \in IPs : cache[i] = "proxy" => ~ServerRefuses(i)

(* The update is outside the router: its request has not been taken up by  *)
(* an event loop yet, or is on its way and the answer has not come.        *)
AwaitsAnswer == Fetching /\ pc[Self] \in {"idle", "ret"}

(* Update never stands in its own way: although it fetches through the     *)
(* very router it switches off, and takes the lock its own request reads   *)
(* under, it gets to its end or to waiting for the network, unless the     *)
(* process dies first.  (upd is "done" in a process that is down.)         *)
UpdateEnds == (upd # "done") ~> (upd = "done" \/ AwaitsAnswer)

(* README.md on client.proxy_all: "if proxy all traffic".  With it set, no *)
(* public address is dialled directly.                                     *)
ProxyAllProxies ==
  proxyAll = "yes" => \A i \in IPs : ~i.private => cache[i] # "direct"
=============================================================================
