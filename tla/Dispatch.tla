------------------------------ MODULE Dispatch ------------------------------
(***************************************************************************)
(* How the client's React uses the router (pkg/core/client.go): Select     *)
(* decides once how a connection is dialled, and is asked again for every  *)
(* later frame to decide which of the two sockets the frame is written to. *)
(* Composes Router with the connections of its callers: every caller but   *)
(* Self is the event loop of one connection, which handles one frame at a  *)
(* time.  The handshakes and the byte streams are in Client.               *)
(***************************************************************************)
EXTENDS Router

VARIABLES
  status,   \* conn.status of each connection, "closed" when there is none
  link,     \* the socket that was dialled: remoteConn, tcpConn or "none"
  own       \* how many connections of the router's own requests are open

Conns == Callers \ {Self}
connVars == <<status, link, own>>
dispatchVars == <<proxyAll, proc, on, db, cache, compressed, mmdb, upd, pc, ip, res,
                  status, link, own>>

DispatchInit ==
  /\ Init
  /\ status = [c \in Conns |-> "closed"]
  /\ link = [c \in Conns |-> "none"]
  /\ own = 0

(* A connection that has passed the method handshake.                      *)
Opened(c) ==
  /\ proc = "up"
  /\ status[c] = "closed"
  /\ status' = [status EXCEPT ![c] = "methodAccepted"]
  /\ UNCHANGED <<routerVars, link, own>>

(* The SOCKS5 request, then every later frame, starts with a Select.       *)
Request(c, i) == status[c] = "methodAccepted" /\ Select(c, i) /\ UNCHANGED connVars

Frame(c) == status[c] = "accepted" /\ Select(c, ip[c]) /\ UNCHANGED connVars

(* The socket a decision stands for.                                       *)
SocketOf(r) == IF r = "proxy" THEN "remoteConn" ELSE "tcpConn"

(* Fault: the socket dialled is always the tunnel.                         *)
DialTunnelOnly(c) ==
  /\ status[c] = "methodAccepted"
  /\ SelectReturn(c)
  /\ link' = [link EXCEPT ![c] = "remoteConn"]
  /\ status' = [status EXCEPT ![c] = "accepted"]
  /\ UNCHANGED own

(* StatusMethodAccepted: DialWs or net.Dial, and Submit; an error closes.  *)
Dial(c) ==
  /\ status[c] = "methodAccepted"
  /\ SelectReturn(c)
  /\ \/ /\ link' = [link EXCEPT ![c] = SocketOf(res[c])]
        /\ status' \in {[status EXCEPT ![c] = s] : s \in {"accepted", "closing"}}
     \/ /\ UNCHANGED link
        /\ status' = [status EXCEPT ![c] = "closing"]
  /\ UNCHANGED own

Reset ==
  /\ status' = [c \in Conns |-> "closed"]
  /\ link' = [c \in Conns |-> "none"]
  /\ own' = 0

(* StatusAccepted: the frame goes to the socket of the decision.  If that  *)
(* socket was never dialled it is nil, and the panic ends the process.     *)
Forward(c) ==
  /\ status[c] = "accepted"
  /\ pc[c] = "ret"
  /\ IF link[c] = SocketOf(res[c])
     THEN SelectReturn(c) /\ UNCHANGED connVars
     ELSE Crash /\ Reset

(* OnClosed: forgets the decision for its destination, if it had one, for  *)
(* every connection to the same address.                                   *)
OnClosed(c) ==
  /\ status[c] # "closed"
  /\ pc[c] = "idle"
  /\ status' = [status EXCEPT ![c] = "closed"]
  /\ link' = [link EXCEPT ![c] = "none"]
  /\ cache' = IF status[c] = "methodAccepted" THEN cache
              ELSE [cache EXCEPT ![ip[c]] = "none"]
  /\ UNCHANGED <<proxyAll, proc, on, db, fileVars, upd, pc, ip, res, own>>

(* A request of Update comes in over a connection of its own, which the    *)
(* HTTP client keeps open after the answer.                                *)
OwnRequest ==
  /\ Fetch
  /\ own' = own + 1
  /\ UNCHANGED <<status, link>>

(* OnClosed of one of them: answered or not, but not inside its own React, *)
(* it forgets the decision for MaxMind's address.                          *)
OwnClosed ==
  /\ own > 0
  /\ own = 1 => pc[Self] \in {"idle", "ret"}
  /\ own' = own - 1
  /\ cache' = [cache EXCEPT ![UpdateHost] = "none"]
  /\ UNCHANGED <<proxyAll, proc, on, db, fileVars, upd, pc, ip, res, status, link>>

DispatchNext ==
  \/ (Start \/ StartFails \/ Publish \/ Work \/ Answer) /\ UNCHANGED connVars
  \/ OwnRequest \/ OwnClosed
  \/ Crash /\ Reset
  \/ \E c \in Callers : SelectStep(c) /\ UNCHANGED connVars
  \/ \E c \in Conns : Opened(c) \/ Frame(c) \/ Dial(c) \/ Forward(c) \/ OnClosed(c)
  \/ \E c \in Conns, i \in IPs : Request(c, i)

DispatchSpec == DispatchInit /\ [][DispatchNext]_dispatchVars

(* The connections only use the router: fairness is that of Router.        *)
DispatchFairSpec == DispatchSpec /\ Fairness
-----------------------------------------------------------------------------
(* Properties.                                                             *)

(* Every frame is written to the socket its connection dialled.  React has *)
(* the same two branches for the dial and for the frames, and marks both   *)
(* else branches "//direct" (client.go:157 and :179): one decision per     *)
(* connection, which the later frames find again.                          *)
RouteKept ==
  \A c \in Conns :
    status[c] = "accepted" /\ pc[c] = "ret" => link[c] = SocketOf(res[c])

(* So it is at least under proxy_all, however connections to one address   *)
(* interleave, and whatever earlier runs in GeoIP mode have left.          *)
RouteKeptAll == proxyAll = "yes" => RouteKept

(* In either mode, races, updates and crashes included: the socket that a  *)
(* connection has dialled suits its destination.                           *)
SocketsJustified ==
  \A c \in Conns :
    /\ link[c] = "tcpConn" => isReservedIP(ip[c]) \/ ip[c].country = "CN"
    /\ link[c] = "remoteConn" => ~isReservedIP(ip[c])

(* The only decision there is when every address is proxied.               *)
FixedRoute(i) == IF isReservedIP(i) THEN "direct" ELSE "proxy"

(* Why RouteKept holds under proxy_all: the router is never on, so that    *)
(* whatever is cached, returned or dialled is FixedRoute.                  *)
RoutesFixed ==
  proxyAll = "yes" =>
    /\ on = "off"
    /\ \A i \in IPs : cache[i] \in {"none", FixedRoute(i)}
    /\ \A c \in Callers : /\ pc[c] # "lookup"
                          /\ pc[c] \in {"set", "ret"} => res[c] = FixedRoute(ip[c])
    /\ \A c \in Conns : status[c] = "accepted" => link[c] = SocketOf(FixedRoute(ip[c]))
=============================================================================
