------------------------------- MODULE Client -------------------------------
(***************************************************************************)
(* The SOCKS5 front end of the client (pkg/core/client.go, conn.go and     *)
(* map.go), as the event handler of a gnet server.                         *)
(*                                                                         *)
(* All state is per remote address: gnet assigns a connection to an event  *)
(* loop by the hash of its address (SourceAddrHash), and Client.conns is   *)
(* keyed by it.  The module follows the connections that one address opens *)
(* one after the other, numbered by generation; other addresses share the  *)
(* goroutine pool and the shutdown channel with it, and may share its loop.*)
(*                                                                         *)
(* Actors: the event loop of the address, which runs React, OnOpened,      *)
(* OnClosed and, in FIFO order, the tasks others queue for it; gnet's main *)
(* reactor, which accepts connections and queues their registration; the   *)
(* goroutine of each accepted connection (Conn.Run or Conn.DirectConnect), *)
(* which may outlive its connection; the application at the local end and  *)
(* the server or destination at the other.  React dials, looks names up    *)
(* and writes to the link on the loop, mostly without a deadline: such a   *)
(* call may hold the loop for ever.                                        *)
(*                                                                         *)
(* Which socket a frame goes to is Dispatch's question; here a connection  *)
(* has one link, remoteConn or tcpConn.                                    *)
(***************************************************************************)
EXTENDS Naturals, Sequences, FiniteSets

CONSTANTS
  MaxGen,    \* bound: connections the address opens
  MaxReads   \* bound: chunks a goroutine reads from its link

ASSUME ClientAssumption == MaxGen \in Nat \ {0} /\ MaxReads \in Nat

Gens == 1 .. MaxGen

VARIABLES
  gconn,     \* gnet's connection: "none", "queued", "open", "closed"
  conns,     \* Client.conns at the address: a generation, 0 if missing
  status,    \* conn.status
  link,      \* remoteConn or tcpConn: "nil", "open", "eof", "closed"
  run,       \* the goroutine: "none", "read", "end"
  queue,     \* the tasks of the event loop
  loop,      \* where the event loop is, and with which generation
  stream,    \* what has been written to the local end of each connection
  reads,     \* history: chunks the goroutine has read
  closedBy,  \* history: who closed the local end
  shutdown   \* Client.shutdown: "empty", "token", and "taken" by React

vars == <<gconn, conns, status, link, run, queue, loop, stream, reads, closedBy, shutdown>>
connVars == <<status, link, run>>

Idle == [at |-> "idle", g |-> 0]
Stopped == [at |-> "stopped", g |-> 0]

(* React is inside a call that blocks, for the connection g of the address,*)
(* or, with 0, for a connection of another address on the same loop.       *)
Call(g) == [at |-> "call", g |-> g]

(* What is written to a local end, and the connection it was meant for.    *)
Method(g) == [what |-> "method", g |-> g]
Reply(g) == [what |-> "reply", g |-> g]
Data(g) == [what |-> "data", g |-> g]

Init ==
  /\ gconn = [g \in Gens |-> "none"]
  /\ conns = 0
  /\ status = [g \in Gens |-> "opened"]
  /\ link = [g \in Gens |-> "nil"]
  /\ run = [g \in Gens |-> "none"]
  /\ queue = <<>>
  /\ loop = Idle
  /\ stream = [g \in Gens |-> <<>>]
  /\ reads = [g \in Gens |-> 0]
  /\ closedBy = [g \in Gens |-> "nobody"]
  /\ shutdown = "empty"

(* The connection map, at the address.                                     *)
Put(g) == conns' = g
Delete == conns' = 0
-----------------------------------------------------------------------------
(* gnet: acceptance, tasks and closing.                                    *)

(* The address can be reused as soon as the descriptor of its previous     *)
(* connection is closed, OnClosed or not.                                  *)
Reusable(g) == gconn[g] = "none" /\ \A h \in 1 .. g - 1 : gconn[h] = "closed"

(* Fault: the registration runs on another event loop (round robin).       *)
AcceptOnAnotherLoop(g) ==
  /\ Reusable(g)
  /\ gconn' = [gconn EXCEPT ![g] = "open"]
  /\ Put(g)
  /\ UNCHANGED <<connVars, queue, loop, stream, reads, closedBy, shutdown>>

(* The main reactor queues the registration on the loop of the address.    *)
Accept(g) ==
  /\ Reusable(g)
  /\ gconn' = [gconn EXCEPT ![g] = "queued"]
  /\ queue' = Append(queue, [op |-> "open", g |-> g])
  /\ UNCHANGED <<conns, connVars, loop, stream, reads, closedBy, shutdown>>

(* The loop is free and its first task is op on g.                         *)
NextTask(op, g) ==
  /\ loop = Idle
  /\ queue # <<>>
  /\ Head(queue) = [op |-> op, g |-> g]
  /\ queue' = Tail(queue)

(* OnOpened: NewConn and Map.Put.                                          *)
OnOpened(g) ==
  /\ NextTask("open", g)
  /\ gconn' = [gconn EXCEPT ![g] = "open"]
  /\ Put(g)
  /\ UNCHANGED <<connVars, loop, stream, reads, closedBy, shutdown>>

(* The task of AsyncWrite, which has no effect on a closed connection.     *)
WriteTask(g) ==
  /\ NextTask("write", g)
  /\ stream' = [stream EXCEPT ![g] = IF gconn[g] = "open" THEN Append(@, Data(g)) ELSE @]
  /\ UNCHANGED <<gconn, conns, connVars, loop, reads, closedBy, shutdown>>

(* loopCloseConn closes the descriptor; OnClosed follows.                  *)
CloseFd(g, who) ==
  /\ gconn' = [gconn EXCEPT ![g] = "closed"]
  /\ closedBy' = [closedBy EXCEPT ![g] = who]
  /\ loop' = [at |-> "onClosed", g |-> g]

(* The task of gnet's Close, which has no effect the second time.          *)
CloseTask(g) ==
  /\ NextTask("close", g)
  /\ IF gconn[g] = "open" THEN CloseFd(g, "goroutine") ELSE UNCHANGED <<gconn, closedBy, loop>>
  /\ UNCHANGED <<conns, connVars, stream, reads, shutdown>>

(* The link of conn is closed if it was dialled.                           *)
Hangup(g) == [link EXCEPT ![g] = IF @ = "nil" THEN "nil" ELSE "closed"]

(* Fault: the link is left open.                                           *)
KeepLink(g) == link

(* What OnClosed does to the link of conn g.                               *)
ClosedLink(g) == Hangup(g)

(* OnClosed: finds its Conn by the address, hangs up and deletes it.       *)
OnClosed ==
  /\ loop.at = "onClosed"
  /\ link' = ClosedLink(conns)
  /\ Delete
  /\ loop' = IF closedBy[loop.g] = "shutdown" THEN Stopped ELSE Idle
  /\ UNCHANGED <<gconn, status, run, queue, stream, reads, closedBy, shutdown>>

(* A frame of another address took the token: gnet stops every loop by a   *)
(* task, and the loop closes the connection it has, if any.                *)
StopSignal ==
  /\ shutdown = "token"
  /\ shutdown' = "taken"
  /\ queue' = Append(queue, [op |-> "stop", g |-> 0])
  /\ UNCHANGED <<gconn, conns, connVars, loop, stream, reads, closedBy>>

StopTask ==
  /\ NextTask("stop", 0)
  /\ \/ \E g \in Gens : gconn[g] = "open" /\ CloseFd(g, "shutdown")
     \/ /\ \A g \in Gens : gconn[g] # "open"
        /\ loop' = Stopped
        /\ UNCHANGED <<gconn, closedBy>>
  /\ UNCHANGED <<conns, connVars, stream, reads, shutdown>>
-----------------------------------------------------------------------------
(* React, for a frame of the open connection g.                            *)

Ready(g) == loop = Idle /\ gconn[g] = "open"

(* The shutdown channel is polled first.                                   *)
Reacts(g) == Ready(g) /\ shutdown # "token"

(* gnet.Shutdown: the loop ends and closes its connections.                *)
ReactShutdown(g) ==
  /\ Ready(g)
  /\ shutdown = "token"
  /\ shutdown' = "taken"
  /\ CloseFd(g, "shutdown")
  /\ UNCHANGED <<conns, connVars, queue, stream, reads>>

(* React goes into LookupIPAddr, DialWs, net.Dial, WriteMessage or Write.  *)
ReactCalls(g) ==
  /\ Reacts(g)
  /\ status[conns] # "opened"
  /\ loop' = Call(g)
  /\ UNCHANGED <<gconn, conns, connVars, queue, stream, reads, closedBy, shutdown>>

(* So does the React of another address, and it comes back, or not.        *)
Elsewhere ==
  /\ loop = Idle /\ loop' = Call(0)
  /\ UNCHANGED <<gconn, conns, connVars, queue, stream, reads, closedBy, shutdown>>

ElsewhereReturns ==
  /\ loop = Call(0) /\ loop' = Idle
  /\ UNCHANGED <<gconn, conns, connVars, queue, stream, reads, closedBy, shutdown>>

(* Any error that React answers with gnet.Close: a malformed handshake, a  *)
(* name that does not resolve, a dial that fails.                          *)
ReactError(g) ==
  /\ Reacts(g) \/ loop = Call(g)
  /\ status[conns] # "accepted"
  /\ CloseFd(g, "react")
  /\ UNCHANGED <<conns, connVars, queue, stream, reads, shutdown>>

(* DialWs or net.Dial has returned: the mapped Conn has its link.          *)
Dialled == [link EXCEPT ![conns] = "open"]

ReactMethod(g) ==
  /\ Reacts(g)
  /\ status[conns] = "opened"
  /\ status' = [status EXCEPT ![conns] = "methodAccepted"]
  /\ stream' = [stream EXCEPT ![g] = Append(@, Method(g))]
  /\ UNCHANGED <<gconn, conns, link, run, queue, loop, reads, closedBy, shutdown>>

(* The request is dialled, and the goroutine submitted to the pool before  *)
(* React returns the reply for gnet to write.                              *)
ReactRequest(g) ==
  /\ loop = Call(g)
  /\ status[conns] = "methodAccepted"
  /\ link' = Dialled
  /\ run' = [run EXCEPT ![conns] = "read"]
  /\ status' = [status EXCEPT ![conns] = "accepted"]
  /\ loop' = [at |-> "reply", g |-> g]
  /\ UNCHANGED <<gconn, conns, queue, stream, reads, closedBy, shutdown>>

(* Dialled, but the server's reply header is not a number.                 *)
ReactBadReply(g) ==
  /\ loop = Call(g)
  /\ status[conns] = "methodAccepted"
  /\ link' = Dialled
  /\ CloseFd(g, "react")
  /\ UNCHANGED <<conns, status, run, queue, stream, reads, shutdown>>

(* Dialled, but the pool refuses the goroutine: gnet writes the reply all  *)
(* the same, then closes.                                                  *)
ReactPoolFull(g) ==
  /\ loop = Call(g)
  /\ status[conns] = "methodAccepted"
  /\ link' = Dialled
  /\ stream' = [stream EXCEPT ![g] = Append(@, Reply(g))]
  /\ CloseFd(g, "react")
  /\ UNCHANGED <<conns, status, run, queue, reads, shutdown>>

(* gnet writes what React returned.                                        *)
WriteReply ==
  /\ loop.at = "reply"
  /\ stream' = [stream EXCEPT ![loop.g] = Append(@, Reply(loop.g))]
  /\ loop' = Idle
  /\ UNCHANGED <<gconn, conns, connVars, queue, reads, closedBy, shutdown>>

(* A later frame is forwarded, or lost if the link fails: the error sets   *)
(* action to gnet.Close, but React returns gnet.None.                      *)
ReactData(g) ==
  /\ loop = Call(g)
  /\ status[conns] = "accepted"
  /\ loop' = Idle
  /\ UNCHANGED <<gconn, conns, connVars, queue, stream, reads, closedBy, shutdown>>

(* The application closes its end.                                         *)
AppClose(g) ==
  /\ Ready(g)
  /\ CloseFd(g, "app")
  /\ UNCHANGED <<conns, connVars, queue, stream, reads, shutdown>>
-----------------------------------------------------------------------------
(* Conn.Run and Conn.DirectConnect.                                        *)

(* Fault: the chunk is written at once and not queued.                     *)
DeliverNow(g) ==
  /\ stream' = [stream EXCEPT ![g] = Append(@, Data(g))]
  /\ UNCHANGED queue

(* AsyncWrite queues the chunk for the loop.                               *)
Deliver(g) ==
  /\ queue' = Append(queue, [op |-> "write", g |-> g])
  /\ UNCHANGED stream

RunRead(g) ==
  /\ run[g] = "read"
  /\ link[g] = "open"
  /\ reads[g] < MaxReads
  /\ reads' = [reads EXCEPT ![g] = @ + 1]
  /\ Deliver(g)
  /\ UNCHANGED <<gconn, conns, connVars, loop, closedBy, shutdown>>

(* Faults: Close goes before the chunks already queued; it is forgotten.   *)
CloseFirst(g) == <<[op |-> "close", g |-> g]>> \o queue
CloseNever(g) == queue

(* gnet's Close queues a task.                                             *)
CloseQueued(g) == Append(queue, [op |-> "close", g |-> g])

(* conn.Close, and the goroutine returns.                                  *)
RunCloses(g) ==
  /\ run[g] = "read"
  /\ queue' = CloseQueued(g)
  /\ link' = Hangup(g)
  /\ run' = [run EXCEPT ![g] = "end"]
  /\ UNCHANGED <<gconn, conns, status, loop, stream, reads, closedBy, shutdown>>

(* A read fails, the link being at its end or closed here.                 *)
RunEnd(g) == link[g] \in {"eof", "closed"} /\ RunCloses(g)

(* AsyncWrite fails: what was read is dropped.                             *)
RunRefused(g) == link[g] = "open" /\ RunCloses(g)

(* The other end of the link closes.                                       *)
LinkEOF(g) ==
  /\ link[g] = "open"
  /\ link' = [link EXCEPT ![g] = "eof"]
  /\ UNCHANGED <<gconn, conns, status, run, queue, loop, stream, reads, closedBy, shutdown>>

(* The OnStop hook sends its token; only the next React will see it.       *)
OnStop ==
  /\ shutdown = "empty"
  /\ shutdown' = "token"
  /\ UNCHANGED <<gconn, conns, connVars, queue, loop, stream, reads, closedBy>>
-----------------------------------------------------------------------------
Task(g) == OnOpened(g) \/ WriteTask(g) \/ CloseTask(g)

React(g) ==
  \/ ReactShutdown(g) \/ ReactError(g) \/ ReactMethod(g) \/ ReactCalls(g)
  \/ ReactRequest(g) \/ ReactBadReply(g) \/ ReactPoolFull(g) \/ ReactData(g)

Loop == OnClosed \/ WriteReply \/ StopTask \/ \E g \in Gens : Task(g)

Next ==
  \/ Loop
  \/ OnStop \/ StopSignal \/ Elsewhere \/ ElsewhereReturns
  \/ \E g \in Gens : \/ Accept(g) \/ React(g) \/ AppClose(g)
                     \/ RunRead(g) \/ RunEnd(g) \/ RunRefused(g) \/ LinkEOF(g)

Spec == Init /\ [][Next]_vars

(* The loop runs its tasks if it returns to them again and again, as gnet  *)
(* does after the events of every poll.  A goroutine whose read has failed *)
(* goes on, and so does a write to a link that was closed here.  No other  *)
(* call has to return; frames, data and closures come when the peers like. *)
Fairness ==
  /\ SF_vars(Loop)
  /\ \A g \in Gens : /\ WF_vars(RunEnd(g))
                     /\ WF_vars(ReactData(g) /\ link[g] = "closed")

FairSpec == Spec /\ Fairness
-----------------------------------------------------------------------------
(* Properties.                                                             *)

Tasks == [op : {"open", "write", "close"}, g : Gens] \cup [op : {"stop"}, g : {0}]

Written == [what : {"method", "reply", "data"}, g : Gens]

ConnsOK ==
  /\ gconn \in [Gens -> {"none", "queued", "open", "closed"}]
  /\ conns \in Gens \cup {0}
  /\ status \in [Gens -> {"opened", "methodAccepted", "accepted"}]
  /\ link \in [Gens -> {"nil", "open", "eof", "closed"}]
  /\ run \in [Gens -> {"none", "read", "end"}]

LoopOK ==
  /\ loop \in [at : {"idle", "reply", "call", "onClosed", "stopped"}, g : Gens \cup {0}]
  /\ stream \in [Gens -> Seq(Written)]
  /\ reads \in [Gens -> 0 .. MaxReads]
  /\ closedBy \in [Gens -> {"nobody", "app", "react", "goroutine", "shutdown"}]
  /\ shutdown \in {"empty", "token", "taken"}

(* Types; in particular tasks name a connection, the map holds one or none.*)
TypeOK == ConnsOK /\ LoopOK /\ queue \in Seq(Tasks)

(* Whenever React or OnClosed looks a connection up by its address, it     *)
(* finds the Conn of that very connection: Map.Get never misses (its type  *)
(* assertion would panic) and never returns the Conn of an earlier or a    *)
(* later connection from the same address.                                 *)
OwnConn ==
  /\ \A g \in Gens : gconn[g] = "open" => conns = g
  /\ loop.at = "onClosed" => conns = loop.g

(* The application reads the SOCKS5 reply before any data, although the    *)
(* goroutine that forwards data starts before the reply is written.        *)
ReplyFirst ==
  \A g \in Gens : \A i \in DOMAIN stream[g] :
    stream[g][i].what = "data" => \E j \in 1 .. i - 1 : stream[g][j].what = "reply"

(* How often x is in the sequence q.                                       *)
Count(q, x) == Cardinality({i \in 1 .. Len(q) : q[i] = x})

Delivered(g) == Count(stream[g], Data(g))

(* A connection that its goroutine closes, at the end of the link or when  *)
(* gnet refuses a chunk, has been handed every chunk before that.          *)
NothingCutOff == \A g \in Gens : closedBy[g] = "goroutine" => Delivered(g) = reads[g]

(* A connection that is closed and deleted leaves no link open.            *)
NoLinkLeak ==
  \A g \in Gens : gconn[g] = "closed" /\ loop # [at |-> "onClosed", g |-> g]
                    => link[g] \in {"nil", "closed"}

(* The end of the link reaches the application: its connection is closed,  *)
(* unless the client has been shut down, or a call for another address     *)
(* holds the loop for ever.  A call for the connection itself does not:    *)
(* its goroutine closes the link under it.                                 *)
EOFPropagates ==
  []<>(loop # Call(0)) =>
    \A g \in Gens : (run[g] = "read" /\ link[g] = "eof")
                      ~> (gconn[g] = "closed" \/ loop.at = "stopped")

(* A closed connection ends its goroutine, so that the pool gets it back.  *)
GoroutineEnds ==
  \A g \in Gens : (gconn[g] = "closed" /\ run[g] = "read") ~> (run[g] = "end")
=============================================================================
