----------------------------- MODULE Memsocket ------------------------------
(***************************************************************************)
(* How the server's front end hands web requests to gin: serveWeb          *)
(* (pkg/core/server_web.go) dials an in-memory socket (internal/memsocket) *)
(* whose listener net/http accepts from.  One call of serveWeb makes one   *)
(* connection, so both are named by the call.                              *)
(*                                                                         *)
(* The two ends of a connection are a net.Pipe, which has no buffer: a     *)
(* write waits for the other end to read.  net/http reads a request to its *)
(* end, discarding what the handler left, before it replies, but gives up  *)
(* on a body that is too long; the calls in Heavy have such a body.        *)
(*                                                                         *)
(* The specification is named BridgeSpec, as WebAdminProofs extends this   *)
(* module together with that of the handlers behind the bridge.            *)
(***************************************************************************)
EXTENDS Naturals, Sequences

CONSTANTS
  Calls,     \* bound: the requests that are passed to serveWeb
  Heavy,     \* those whose handler leaves a body net/http does not discard
  Capacity   \* of the channel: 1024 in NewMemSocket

ASSUME MemsocketAssumption == Heavy \subseteq Calls /\ Capacity \in Nat \ {0}

VARIABLES
  call,      \* serveWeb: "idle", "dial", "write", "read", "done", "failed"
  pipe,      \* Listener.pipe
  served,    \* net/http's end: "none", "reading", "replying", "waiting", "ended"
  closed,    \* whether Listener.Close was called: "no", "yes"
  accepted   \* history: the connections that Accept has returned

bridgeVars == <<call, pipe, served, closed, accepted>>

BridgeInit ==
  /\ call = [c \in Calls |-> "idle"]
  /\ pipe = <<>>
  /\ served = [c \in Calls |-> "none"]
  /\ closed = "no"
  /\ accepted = {}
-----------------------------------------------------------------------------
(* serveWeb enters MemSocket.Dial.                                         *)
ServeWeb(c) ==
  /\ call[c] = "idle"
  /\ call' = [call EXCEPT ![c] = "dial"]
  /\ UNCHANGED <<pipe, served, closed, accepted>>

(* A send blocks while the channel is full.                                *)
Room == Len(pipe) < Capacity

(* Fault: the send gives up on a full channel, and Dial returns.           *)
DialDrops(c) ==
  /\ call[c] = "dial"
  /\ pipe' = IF Room THEN Append(pipe, c) ELSE pipe
  /\ call' = [call EXCEPT ![c] = "write"]
  /\ UNCHANGED <<served, closed, accepted>>

Dial(c) ==
  /\ call[c] = "dial"
  /\ Room
  /\ pipe' = Append(pipe, c)
  /\ call' = [call EXCEPT ![c] = "write"]
  /\ UNCHANGED <<served, closed, accepted>>

(* A receive from the channel.                                             *)
Receive(c) == Head(pipe) = c /\ pipe' = Tail(pipe)

(* Fault: the accepting loop serves its connections itself.                *)
AcceptInTurn(c) ==
  /\ pipe # <<>>
  /\ \A d \in Calls : served[d] \notin {"reading", "replying"}
  /\ Receive(c)
  /\ accepted' = accepted \cup {c}
  /\ served' = [served EXCEPT ![c] = "reading"]
  /\ UNCHANGED <<call, closed>>

(* Accept returns to net/http, which serves c in a goroutine of its own    *)
(* and accepts again.                                                      *)
Accept(c) ==
  /\ pipe # <<>>
  /\ Receive(c)
  /\ accepted' = accepted \cup {c}
  /\ served' = [served EXCEPT ![c] = "reading"]
  /\ UNCHANGED <<call, closed>>

(* Listener.Close returns nil and does nothing else.                       *)
Close ==
  /\ closed = "no"
  /\ closed' = "yes"
  /\ UNCHANGED <<call, pipe, served, accepted>>
-----------------------------------------------------------------------------
(* The two ends of a connection.                                           *)

(* Request.WriteTo returns when net/http has read the whole request.       *)
WriteTo(c) ==
  /\ call[c] = "write"
  /\ served[c] = "reading"
  /\ c \notin Heavy
  /\ call' = [call EXCEPT ![c] = "read"]
  /\ served' = [served EXCEPT ![c] = "replying"]
  /\ UNCHANGED <<pipe, closed, accepted>>

(* net/http gives up on the body and replies while WriteTo still writes.   *)
GiveUp(c) ==
  /\ c \in Heavy
  /\ served[c] = "reading"
  /\ served' = [served EXCEPT ![c] = "replying"]
  /\ UNCHANGED <<call, pipe, closed, accepted>>

(* Response.Read takes the reply and serveWeb returns, memconn left open:  *)
(* net/http waits for another request unless this one said close.          *)
ReadResponse(c) ==
  /\ call[c] = "read"
  /\ served[c] = "replying"
  /\ call' = [call EXCEPT ![c] = "done"]
  /\ served' \in {[served EXCEPT ![c] = s] : s \in {"waiting", "ended"}}
  /\ UNCHANGED <<pipe, closed, accepted>>

(* net/http closes its end before it has replied: serveWeb gets an error.  *)
Broken(c) ==
  /\ call[c] \in {"write", "read"}
  /\ served[c] \in {"reading", "replying"}
  /\ call' = [call EXCEPT ![c] = "failed"]
  /\ served' = [served EXCEPT ![c] = "ended"]
  /\ UNCHANGED <<pipe, closed, accepted>>
-----------------------------------------------------------------------------
BridgeNext ==
  \/ Close
  \/ \E c \in Calls :
       \/ ServeWeb(c) \/ Dial(c) \/ Accept(c)
       \/ WriteTo(c) \/ GiveUp(c) \/ ReadResponse(c) \/ Broken(c)

BridgeSpec == BridgeInit /\ [][BridgeNext]_bridgeVars

(* Goroutines run.  A blocked send is served in turn by the channel, so    *)
(* that a slot that frees again and again is not refused for ever.         *)
BridgeFairness ==
  \A c \in Calls :
    /\ SF_bridgeVars(Dial(c))
    /\ WF_bridgeVars(Accept(c))
    /\ WF_bridgeVars(WriteTo(c))
    /\ WF_bridgeVars(ReadResponse(c))

BridgeFairSpec == BridgeSpec /\ BridgeFairness
-----------------------------------------------------------------------------
(* Properties.                                                             *)

(* Type correctness, the channel's capacity included.                      *)
BridgeTypeOK ==
  /\ call \in [Calls -> {"idle", "dial", "write", "read", "done", "failed"}]
  /\ pipe \in Seq(Calls) /\ Len(pipe) <= Capacity
  /\ served \in [Calls -> {"none", "reading", "replying", "waiting", "ended"}]
  /\ closed \in {"no", "yes"}
  /\ accepted \subseteq Calls

(* c waits in the channel.                                                 *)
Queued(c) == \E i \in 1 .. Len(pipe) : pipe[i] = c

(* A call of serveWeb that is blocked in WriteTo or in Response.Read has a *)
(* counterpart: its connection still waits to be accepted or is being      *)
(* read, and the reply it waits for is being written.  There is no         *)
(* deadline on either end that would free it otherwise.                    *)
NoCallLost ==
  \A c \in Calls :
    /\ call[c] = "write" => \/ Queued(c)
                            \/ served[c] = "reading"
                            \/ served[c] = "replying" /\ c \in Heavy
    /\ call[c] = "read" => served[c] = "replying"

(* A request gets its answer even when others are stuck writing a body     *)
(* nobody reads: they hold neither the channel nor the accepting loop.     *)
ServeWebReturns ==
  \A c \in Calls \ Heavy : (call[c] = "dial") ~> (call[c] \in {"done", "failed"})

(* What the comment on Listener.Close says of it: a blocked Accept returns *)
(* an error, so none goes on to return a connection after Close.           *)
CloseUnblocks == [][closed = "yes" => UNCHANGED accepted]_bridgeVars
=============================================================================
