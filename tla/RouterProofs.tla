---------------------------- MODULE RouterProofs ----------------------------
(***************************************************************************)
(* Proofs about Router and Dispatch, for every set of addresses and every  *)
(* number of concurrent callers and connections.                           *)
(***************************************************************************)
EXTENDS Dispatch, TLAPS

(* Past the tests of getGeoIP the address is not a reserved one.           *)
LookupUnreserved ==
  \A c \in Callers : pc[c] = "lookup" => ~isReservedIP(ip[c])

RouterInv == TypeOK /\ Serving /\ RoutesJustified /\ LookupUnreserved

(* The files and the idle router of a first start satisfy the invariant.   *)
LEMMA InitRouterInv == Init => RouterInv
  BY RouterAssumption
     DEF Init, RouterInv, TypeOK, Routes, Serving, RoutesJustified, Justified,
         LookupUnreserved

(* Start and Crash begin with an empty cache and nobody inside Select.     *)
LEMMA ProcessStep ==
  ASSUME RouterInv, Start \/ StartFails \/ Crash \/ Publish
  PROVE  RouterInv'
<1> USE RouterAssumption
    DEF RouterInv, TypeOK, Routes, Serving, RoutesJustified, Justified, LookupUnreserved
<1>1. CASE Start
  BY <1>1 DEF Start, Boot
<1>2. CASE StartFails
  BY <1>2 DEF StartFails, routerVars, isReservedIP
<1>3. CASE Crash
  BY <1>3 DEF Crash
<1>4. CASE Publish
  BY <1>4 DEF Publish
<1> QED
  BY <1>1, <1>2, <1>3, <1>4

(* The cache lookup at the head of Select.                                 *)
LEMMA SelectCallStep ==
  ASSUME RouterInv, NEW c \in Callers, NEW i \in IPs, Select(c, i)
  PROVE  RouterInv'
<1> USE RouterAssumption DEF Select, fileVars
<1>1. TypeOK'
  BY DEF RouterInv, TypeOK, Routes
<1>2. Serving'
  BY DEF RouterInv, TypeOK, Serving
<1>3. RoutesJustified'
  BY DEF RouterInv, TypeOK, RoutesJustified, Justified
<1>4. LookupUnreserved'
  BY DEF RouterInv, TypeOK, LookupUnreserved
<1> QED
  BY <1>1, <1>2, <1>3, <1>4 DEF RouterInv

(* getGeoIP and setCache.                                                  *)
LEMMA SelectStepInv ==
  ASSUME RouterInv, NEW c \in Callers, SelectStep(c) \/ SelectReturn(c)
  PROVE  RouterInv'
<1> USE RouterAssumption DEF fileVars
<1>1. CASE GeoEnter(c)
  <2> USE <1>1 DEF GeoEnter, GeoDecision
  <2>1. TypeOK'
    BY DEF RouterInv, TypeOK, Routes
  <2>2. Serving'
    BY DEF RouterInv, TypeOK, Serving
  <2>3. RoutesJustified'
    BY DEF RouterInv, TypeOK, RoutesJustified, Justified
  <2>4. LookupUnreserved'
    BY DEF RouterInv, TypeOK, LookupUnreserved
  <2> QED
    BY <2>1, <2>2, <2>3, <2>4 DEF RouterInv
<1>2. CASE GeoLookup(c)
  <2> USE <1>2 DEF GeoLookup
  <2>1. TypeOK'
    BY DEF RouterInv, TypeOK, Routes
  <2>2. Serving'
    BY DEF RouterInv, TypeOK, Serving
  <2>3. RoutesJustified'
    BY DEF RouterInv, TypeOK, RoutesJustified, Justified, LookupUnreserved
  <2>4. LookupUnreserved'
    BY DEF RouterInv, TypeOK, LookupUnreserved
  <2> QED
    BY <2>1, <2>2, <2>3, <2>4 DEF RouterInv
<1>3. CASE SetCache(c)
  <2> USE <1>3 DEF SetCache
  <2>1. TypeOK'
    BY DEF RouterInv, TypeOK, Routes
  <2>2. Serving'
    BY DEF RouterInv, TypeOK, Serving
  <2>3. RoutesJustified'
    BY DEF RouterInv, TypeOK, RoutesJustified, Justified
  <2>4. LookupUnreserved'
    BY DEF RouterInv, TypeOK, LookupUnreserved
  <2> QED
    BY <2>1, <2>2, <2>3, <2>4 DEF RouterInv
<1>4. CASE SelectReturn(c)
  BY <1>4 DEF SelectReturn, RouterInv, TypeOK, Routes, Serving, RoutesJustified,
     Justified, LookupUnreserved
<1> QED
  BY <1>1, <1>2, <1>3, <1>4 DEF SelectStep

(* Entries of the cache disappear.                                         *)
LEMMA RemoveCacheInv ==
  ASSUME RouterInv, NEW i \in IPs,
         cache' = [cache EXCEPT ![i] = "none"],
         UNCHANGED <<proxyAll, proc, on, db, fileVars, upd, pc, ip, res>>
  PROVE  RouterInv'
  BY DEF fileVars, RouterInv, TypeOK, Routes, Serving, RoutesJustified, Justified,
     LookupUnreserved

(* Update and Download.  Serving is what each of these steps could break.  *)
LEMMA UpdateStep ==
  ASSUME RouterInv, Update
  PROVE  RouterInv'
<1> USE RouterAssumption DEF fileVars
<1>1. CASE Fetch
  BY <1>1, SelectCallStep DEF Fetch
<1>2. CASE SumFetched \/ ArchiveFetched
  BY <1>2 DEF SumFetched, ArchiveFetched, Fetched, RouterInv, TypeOK, Serving,
     RoutesJustified, LookupUnreserved
<1>3. CASE SwitchOff
  BY <1>3 DEF SwitchOff, NoReader, RouterInv, TypeOK, Serving, RoutesJustified,
     LookupUnreserved
<1>4. CASE SwitchOn
  BY <1>4 DEF SwitchOn, NoReader, RouterInv, TypeOK, Serving, RoutesJustified,
     LookupUnreserved
<1>5. CASE Reopen
  BY <1>5 DEF Reopen, RouterInv, TypeOK, Serving, RoutesJustified, LookupUnreserved
<1>6. CASE OpenArchive
  BY <1>6 DEF OpenArchive, Goto, RouterInv, TypeOK, Serving, RoutesJustified,
     LookupUnreserved
<1>7. CASE SaveArchive \/ CopyArchive
  BY <1>7 DEF SaveArchive, CopyArchive, Goto, RouterInv, TypeOK, Serving,
     RoutesJustified, LookupUnreserved
<1>8. CASE WalkArchive \/ CreateMmdb \/ ExtractMmdb
  BY <1>8 DEF WalkArchive, CreateMmdb, ExtractMmdb, Goto, RouterInv, TypeOK, Serving,
     RoutesJustified, LookupUnreserved
<1> QED
  BY <1>1, <1>2, <1>3, <1>4, <1>5, <1>6, <1>7, <1>8 DEF Update, Work, Answer

(* Every step of the router preserves the invariant.                       *)
LEMMA NextRouterInv == RouterInv /\ [Next]_routerVars => RouterInv'
<1> SUFFICES ASSUME RouterInv, [Next]_routerVars PROVE RouterInv'
  OBVIOUS
<1>1. CASE Start \/ StartFails \/ Crash \/ Publish
  BY <1>1, ProcessStep
<1>2. CASE Update
  BY <1>2, UpdateStep
<1>3. CASE \E c \in Callers : SelectStep(c) \/ SelectReturn(c)
  BY <1>3, SelectStepInv
<1>4. CASE \E c \in Callers, i \in IPs : Select(c, i)
  BY <1>4, SelectCallStep
<1>5. CASE \E i \in IPs : RemoveCache(i)
  BY <1>5, RemoveCacheInv DEF RemoveCache
<1>6. CASE UNCHANGED routerVars
  BY <1>6 DEF routerVars, RouterInv, TypeOK, Serving, RoutesJustified, LookupUnreserved
<1> QED
  BY <1>1, <1>2, <1>3, <1>4, <1>5, <1>6 DEF Next

(* The inductive invariant holds in every reachable state.                 *)
THEOREM RouterInvariant == Spec => []RouterInv
  BY InitRouterInv, NextRouterInv, PTL DEF Spec

(* No lookup ever runs on a nil, closed or half-written database, although *)
(* Download replaces it while decisions go on and may die at any point.    *)
THEOREM RouterLookupSafe == Spec => []LookupSafe
<1>1. RouterInv => LookupSafe
  BY DEF RouterInv, Serving, LookupSafe
<1> QED
  BY <1>1, RouterInvariant, PTL

(* Every decision of Select, cached or returned, is justified.             *)
THEOREM RouterJustified == Spec => []RoutesJustified
<1>1. RouterInv => RoutesJustified
  BY DEF RouterInv
<1> QED
  BY <1>1, RouterInvariant, PTL

(* The server refuses no address that the client decides to tunnel.        *)
THEOREM RouterTunnelAccepted == Spec => []TunnelAccepted
<1>1. RouterInv => TunnelAccepted
  BY DEF RouterInv, RoutesJustified, Justified, TunnelAccepted, ServerRefuses
<1> QED
  BY <1>1, RouterInvariant, PTL
-----------------------------------------------------------------------------
(* Dispatch under proxy_all.                                               *)

(* No update runs under proxy_all, and nothing while the process is down.  *)
ConnTypes ==
  /\ status \in [Conns -> {"closed", "methodAccepted", "accepted", "closing"}]
  /\ link \in [Conns -> {"none", "remoteConn", "tcpConn"}]
  /\ proxyAll = "yes" => upd = "done"
  /\ proc = "down" => \A c \in Callers : pc[c] = "idle"
  /\ proc = "down" => \A c \in Conns : status[c] = "closed"

DispatchInv == RouterInv /\ ConnTypes /\ RoutesFixed

(* With no connection yet every route is the fixed one.                    *)
LEMMA InitDispatchInv == DispatchInit => DispatchInv
  BY InitRouterInv, RouterAssumption
     DEF DispatchInit, Init, DispatchInv, ConnTypes, RoutesFixed

(* The steps of the process and of the router with no Update running.      *)
LEMMA DispatchProcess ==
  ASSUME DispatchInv,
         \/ (Start \/ StartFails \/ Publish \/ Update) /\ UNCHANGED <<status, link>>
         \/ Crash /\ Reset
         \/ OwnClosed
  PROVE  ConnTypes' /\ RoutesFixed'
<1> USE RouterAssumption DEF DispatchInv, ConnTypes, RoutesFixed, connVars, fileVars, Conns
<1>1. CASE Start /\ UNCHANGED <<status, link>>
  BY <1>1 DEF Start, Boot, RouterInv, TypeOK
<1>2. CASE StartFails /\ UNCHANGED <<status, link>>
  BY <1>2 DEF StartFails, routerVars
<1>3. CASE Publish /\ UNCHANGED <<status, link>>
  BY <1>3 DEF Publish
<1>4. CASE Update /\ UNCHANGED <<status, link>>
  <2>1. upd # "done" /\ proc' = proc /\ proxyAll' = proxyAll
    BY <1>4 DEF Update, Work, Answer, OpenArchive, Fetch, Fetching, Select, SumFetched, ArchiveFetched,
       Fetched, SwitchOff, SaveArchive, CopyArchive, WalkArchive, CreateMmdb, ExtractMmdb,
       Reopen, SwitchOn, Goto
  <2>2. proc = "down" => \A c \in Callers : pc'[c] = "idle"
    <3>1. CASE Fetch
      BY <3>1 DEF Fetch, Select
    <3>2. CASE SumFetched \/ ArchiveFetched
      BY <3>2 DEF SumFetched, ArchiveFetched, Fetched
    <3>3. CASE pc' = pc
      BY <3>3
    <3> QED
      BY <1>4, <3>1, <3>2, <3>3 DEF Update, Work, Answer, OpenArchive, SwitchOff,
         SaveArchive, CopyArchive, WalkArchive, CreateMmdb, ExtractMmdb, Reopen, SwitchOn, Goto
  <2> QED
    BY <1>4, <2>1, <2>2
<1>5. CASE Crash /\ Reset
  BY <1>5 DEF Crash, Reset
<1>6. CASE OwnClosed
  BY <1>6 DEF OwnClosed, RouterInv, TypeOK
<1> QED
  BY <1>1, <1>2, <1>3, <1>4, <1>5, <1>6

(* A Select that runs decides FixedRoute.                                  *)
LEMMA DispatchSelect ==
  ASSUME DispatchInv, NEW c \in Callers, SelectStep(c), UNCHANGED <<status, link>>
  PROVE  ConnTypes' /\ RoutesFixed'
<1> USE RouterAssumption DEF DispatchInv, ConnTypes, RoutesFixed, connVars, fileVars, Conns
<1>1. CASE GeoEnter(c)
  BY <1>1 DEF GeoEnter, GeoDecision, FixedRoute, RouterInv, TypeOK
<1>2. CASE GeoLookup(c)
  BY <1>2 DEF GeoLookup
<1>3. CASE SetCache(c)
  BY <1>3 DEF SetCache, RouterInv, TypeOK
<1> QED
  BY <1>1, <1>2, <1>3 DEF SelectStep

(* The handlers of one connection.                                         *)
LEMMA DispatchConn ==
  ASSUME DispatchInv, NEW c \in Conns,
         \/ Opened(c) \/ Frame(c) \/ Dial(c) \/ Forward(c) \/ OnClosed(c)
         \/ \E i \in IPs : Request(c, i)
  PROVE  ConnTypes' /\ RoutesFixed'
<1> USE RouterAssumption DEF DispatchInv, ConnTypes, RoutesFixed, connVars, fileVars, Conns
<1>1. CASE Opened(c)
  BY <1>1 DEF Opened, routerVars
<1>2. CASE Frame(c)
  <2>1. ip[c] \in IPs
    BY DEF RouterInv, TypeOK
  <2> QED
    BY <1>2, <2>1 DEF Frame, Select, RouterInv, TypeOK
<1>3. CASE Dial(c)
  BY <1>3 DEF Dial, SelectReturn, SocketOf, RouterInv, TypeOK
<1>4. CASE Forward(c)
  BY <1>4 DEF Forward, SelectReturn, SocketOf, Crash, Reset, RouterInv, TypeOK
<1>5. CASE OnClosed(c)
  BY <1>5 DEF OnClosed, RouterInv, TypeOK
<1>6. CASE \E i \in IPs : Request(c, i)
  BY <1>6 DEF Request, Select, RouterInv, TypeOK
<1> QED
  BY <1>1, <1>2, <1>3, <1>4, <1>5, <1>6

(* Every step of the composition preserves the router's own invariant.     *)
LEMMA DispatchRouterInv == RouterInv /\ [DispatchNext]_dispatchVars => RouterInv'
<1> SUFFICES ASSUME RouterInv, [DispatchNext]_dispatchVars PROVE RouterInv'
  OBVIOUS
<1>1. CASE Start \/ StartFails \/ Publish \/ Crash
  BY <1>1, ProcessStep
<1>2. CASE Work \/ Answer \/ OwnRequest
  BY <1>2, UpdateStep DEF Update, OwnRequest
<1>3. CASE \E c \in Callers : SelectStep(c) \/ SelectReturn(c)
  BY <1>3, SelectStepInv
<1>4. CASE \E c \in Conns : Frame(c)
  BY <1>4, SelectCallStep DEF Frame, Conns, RouterInv, TypeOK
<1>5. CASE \E c \in Conns, i \in IPs : Request(c, i)
  BY <1>5, SelectCallStep DEF Request, Conns
<1>6. CASE UNCHANGED routerVars
  BY <1>6 DEF routerVars, RouterInv, TypeOK, Serving, RoutesJustified, LookupUnreserved
<1>7. CASE \E c \in Conns : OnClosed(c)
  <2> PICK c \in Conns : OnClosed(c)
    BY <1>7
  <2>1. CASE cache' = cache
    <3>1. UNCHANGED routerVars
      BY <2>1 DEF OnClosed, fileVars, routerVars
    <3> QED
      BY <1>6, <3>1, Zenon
  <2>2. CASE cache' = [cache EXCEPT ![ip[c]] = "none"]
    BY <2>2, RemoveCacheInv DEF OnClosed, Conns, RouterInv, TypeOK
  <2> QED
    BY <2>1, <2>2 DEF OnClosed
<1>8. CASE \E c \in Conns : Opened(c) \/ Dial(c) \/ Forward(c)
  BY <1>8, <1>1, <1>3, <1>6 DEF Opened, Dial, Forward, Conns
<1>9. CASE UNCHANGED dispatchVars
  BY <1>9, <1>6 DEF dispatchVars, routerVars
<1>10. CASE OwnClosed
  BY <1>10, RemoveCacheInv, RouterAssumption DEF OwnClosed
<1> QED
  BY <1>1, <1>2, <1>3, <1>4, <1>5, <1>7, <1>8, <1>9, <1>10 DEF DispatchNext

(* With proxy_all set, every frame is written to the socket that its       *)
(* connection dialled, however connections to one address interleave.      *)
THEOREM DispatchRouteKept == DispatchSpec => []RouteKeptAll
<1>1. DispatchInv /\ [DispatchNext]_dispatchVars => DispatchInv'
  <2> SUFFICES ASSUME DispatchInv, [DispatchNext]_dispatchVars PROVE DispatchInv'
    OBVIOUS
  <2>1. RouterInv'
    BY DispatchRouterInv DEF DispatchInv
  <2>2. CASE UNCHANGED dispatchVars
    BY <2>1, <2>2 DEF dispatchVars, DispatchInv, ConnTypes, RoutesFixed
  <2>3. ConnTypes' /\ RoutesFixed'
    BY <2>2, DispatchProcess, DispatchSelect, DispatchConn
       DEF DispatchNext, DispatchInv, Update, OwnRequest, connVars
  <2> QED
    BY <2>1, <2>3 DEF DispatchInv
<1>2. DispatchInv => RouteKeptAll
  BY DEF DispatchInv, RoutesFixed, RouteKeptAll, RouteKept, Conns
<1> QED
  BY InitDispatchInv, <1>1, <1>2, PTL DEF DispatchSpec
-----------------------------------------------------------------------------
(* Dispatch in either mode.                                                *)

(* A Select that has returned has decided.                                 *)
Decided == \A c \in Callers : pc[c] \in {"set", "ret"} => res[c] # "none"

(* A connection has no socket before it dials.                             *)
Unlinked ==
  \A c \in Conns : status[c] \in {"closed", "methodAccepted"} => link[c] = "none"

SocketTypes ==
  /\ status \in [Conns -> {"closed", "methodAccepted", "accepted", "closing"}]
  /\ link \in [Conns -> {"none", "remoteConn", "tcpConn"}]

SocketInv == RouterInv /\ SocketTypes /\ Decided /\ Unlinked /\ SocketsJustified

(* There are no connections and no decisions yet.                          *)
LEMMA InitSocketInv == DispatchInit => SocketInv
  BY InitRouterInv, RouterAssumption
     DEF DispatchInit, Init, SocketInv, SocketTypes, Decided, Unlinked, SocketsJustified

(* A step that leaves connections and their addresses alone.               *)
LEMMA SocketsKept ==
  ASSUME SocketInv, UNCHANGED <<status, link>>, \A c \in Conns : ip'[c] = ip[c]
  PROVE  SocketTypes' /\ Unlinked' /\ SocketsJustified'
  BY DEF SocketInv, SocketTypes, Unlinked, SocketsJustified, connVars

(* The process and the update.                                             *)
LEMMA SocketProcess ==
  ASSUME SocketInv,
         \/ (Start \/ StartFails \/ Publish \/ Update) /\ UNCHANGED <<status, link>>
         \/ Crash /\ Reset
         \/ OwnClosed
  PROVE  SocketTypes' /\ Decided' /\ Unlinked' /\ SocketsJustified'
<1> USE RouterAssumption DEF fileVars
<1>1. CASE Start /\ UNCHANGED <<status, link>>
  BY <1>1, SocketsKept DEF Start, Boot, Decided
<1>2. CASE StartFails /\ UNCHANGED <<status, link>>
  BY <1>2, SocketsKept DEF StartFails, routerVars, Decided, SocketInv
<1>3. CASE Publish /\ UNCHANGED <<status, link>>
  BY <1>3, SocketsKept DEF Publish, Decided, SocketInv
<1>4. CASE Fetch /\ UNCHANGED <<status, link>>
  BY <1>4, SocketsKept DEF Fetch, Select, Conns, Decided, SocketInv, RouterInv, TypeOK
<1>5. CASE (SumFetched \/ ArchiveFetched) /\ UNCHANGED <<status, link>>
  BY <1>5, SocketsKept DEF SumFetched, ArchiveFetched, Fetched, Decided, SocketInv,
     RouterInv, TypeOK
<1>6. CASE Update /\ ~Fetch /\ ~SumFetched /\ ~ArchiveFetched /\ UNCHANGED <<status, link>>
  <2>1. UNCHANGED <<pc, ip, res>>
    BY <1>6 DEF Update, Work, Answer, OpenArchive, SwitchOff, SaveArchive, CopyArchive,
       WalkArchive, CreateMmdb, ExtractMmdb, Reopen, SwitchOn, Goto
  <2> QED
    BY <1>6, <2>1, SocketsKept DEF Decided, SocketInv
<1>7. CASE Crash /\ Reset
  BY <1>7 DEF Crash, Reset, SocketTypes, Decided, Unlinked, SocketsJustified
<1>8. CASE OwnClosed
  BY <1>8, SocketsKept DEF OwnClosed, Decided, SocketInv
<1> QED
  BY <1>1, <1>2, <1>3, <1>4, <1>5, <1>6, <1>7, <1>8

(* getGeoIP and setCache decide.                                           *)
LEMMA SocketSelect ==
  ASSUME SocketInv, NEW c \in Callers, SelectStep(c), UNCHANGED <<status, link>>
  PROVE  SocketTypes' /\ Decided' /\ Unlinked' /\ SocketsJustified'
<1> USE DEF fileVars
<1>1. CASE GeoEnter(c)
  BY <1>1, SocketsKept DEF GeoEnter, GeoDecision, Decided, SocketInv, RouterInv, TypeOK
<1>2. CASE GeoLookup(c)
  BY <1>2, SocketsKept DEF GeoLookup, Decided, SocketInv, RouterInv, TypeOK
<1>3. CASE SetCache(c)
  BY <1>3, SocketsKept DEF SetCache, Decided, SocketInv, RouterInv, TypeOK
<1> QED
  BY <1>1, <1>2, <1>3 DEF SelectStep

(* The handlers of one connection: it dials what was decided, and the      *)
(* decision is justified; its address changes only while it has no socket. *)
LEMMA SocketConn ==
  ASSUME SocketInv, NEW c \in Conns,
         \/ Opened(c) \/ Frame(c) \/ Dial(c) \/ Forward(c) \/ OnClosed(c)
         \/ \E i \in IPs : Request(c, i)
  PROVE  SocketTypes' /\ Decided' /\ Unlinked' /\ SocketsJustified'
<1> USE RouterAssumption
    DEF SocketInv, SocketTypes, Decided, Unlinked, SocketsJustified, connVars, fileVars, Conns
<1>1. CASE Opened(c)
  BY <1>1 DEF Opened, routerVars
<1>2. CASE Frame(c)
  BY <1>2 DEF Frame, Select, RouterInv, TypeOK
<1>3. CASE Dial(c)
  <2>1. Justified(ip[c], res[c]) /\ res[c] \in {"proxy", "direct"}
    BY <1>3 DEF Dial, SelectReturn, RouterInv, TypeOK, Routes, RoutesJustified
  <2> QED
    BY <1>3, <2>1 DEF Dial, SelectReturn, SocketOf, Justified, RouterInv, TypeOK
<1>4. CASE Forward(c)
  BY <1>4 DEF Forward, SelectReturn, Crash, Reset, RouterInv, TypeOK
<1>5. CASE OnClosed(c)
  BY <1>5 DEF OnClosed
<1>6. CASE \E i \in IPs : Request(c, i)
  BY <1>6 DEF Request, Select, RouterInv, TypeOK
<1> QED
  BY <1>1, <1>2, <1>3, <1>4, <1>5, <1>6

(* With or without proxy_all: only reserved and domestic addresses are     *)
(* dialled directly and no reserved address through the tunnel, although   *)
(* the cache, the switch and the database change while a Select runs.      *)
THEOREM DispatchSockets == DispatchSpec => []SocketsJustified
<1>1. SocketInv /\ [DispatchNext]_dispatchVars => SocketInv'
  <2> SUFFICES ASSUME SocketInv, [DispatchNext]_dispatchVars PROVE SocketInv'
    OBVIOUS
  <2>1. RouterInv'
    BY DispatchRouterInv DEF SocketInv
  <2>2. CASE UNCHANGED dispatchVars
    BY <2>2, SocketsKept, <2>1 DEF dispatchVars, connVars, SocketInv, Decided
  <2>3. CASE DispatchNext
    BY <2>1, <2>3, SocketProcess, SocketSelect, SocketConn
       DEF DispatchNext, SocketInv, Update, OwnRequest, connVars
  <2> QED
    BY <2>2, <2>3
<1>2. SocketInv => SocketsJustified
  BY DEF SocketInv
<1> QED
  BY InitSocketInv, <1>1, <1>2, PTL DEF DispatchSpec
=============================================================================
