---------------------------- MODULE ClientProofs ---------------------------
(***************************************************************************)
(* For any number of connections that an address opens, and any number of  *)
(* chunks: React and OnClosed find the Conn of their own connection, no    *)
(* chunk is written before the reply, a closed connection leaves no link   *)
(* open, and a connection that its goroutine closes has been handed every  *)
(* chunk.                                                                  *)
(***************************************************************************)
EXTENDS Client, FiniteSetTheorems, TLAPS

(* The connections of the address follow each other ...                    *)
OneLive ==
  \A g, h \in Gens : g < h /\ gconn[h] # "none" => gconn[g] = "closed"

(* ... and at most one registration is queued, of the one that waits.      *)
OneOpenTask ==
  /\ \A i \in 1 .. Len(queue) : queue[i].op = "open" => gconn[queue[i].g] = "queued"
  /\ \A i, j \in 1 .. Len(queue) : queue[i].op = "open" /\ queue[j].op = "open" => i = j

(* React is in a call for a connection that is open: nothing but the loop  *)
(* closes a descriptor.                                                    *)
CallOpen == \A g \in Gens : loop = Call(g) => gconn[g] = "open"

(* The loop is busy with a connection of the address, and if it runs       *)
(* OnClosed, with one whose descriptor is closed.                          *)
LoopBusy ==
  /\ loop.at \in {"reply", "onClosed"} => loop.g \in Gens
  /\ loop.at = "onClosed" => gconn[loop.g] = "closed"

(* A link that is not hung up belongs to an open connection, or to the one *)
(* OnClosed runs for.                                                      *)
LinksHeld ==
  \A g \in Gens : link[g] \in {"open", "eof"}
    => gconn[g] = "open" \/ loop = [at |-> "onClosed", g |-> g]

(* A goroutine's reply is written, or is what the loop will write next;    *)
(* and only goroutines queue writes.                                       *)
HasReply(g) == \E j \in 1 .. Len(stream[g]) : stream[g][j].what = "reply"

Replied ==
  \A g \in Gens : run[g] # "none" => HasReply(g) \/ loop = [at |-> "reply", g |-> g]

WritesRun ==
  \A i \in 1 .. Len(queue) : queue[i].op = "write" => run[queue[i].g] # "none"

(* A goroutine is that of an accepted request, on a connection which is    *)
(* open or has been closed by somebody ...                                 *)
Started ==
  \A g \in Gens : /\ closedBy[g] = "nobody" <=> gconn[g] # "closed"
                  /\ run[g] # "none" => gconn[g] \in {"open", "closed"} /\ status[g] = "accepted"

(* ... and its last task is the one that closes the connection.            *)
WriteOf(g) == [op |-> "write", g |-> g]

CloseLast ==
  /\ \A g \in Gens : closedBy[g] = "goroutine" => run[g] = "end"
  /\ \A i \in 1 .. Len(queue) : queue[i].op = "close" =>
       /\ run[queue[i].g] = "end"
       /\ \A j \in i .. Len(queue) : queue[j] # WriteOf(queue[i].g)

(* Until then, what was read is what was delivered and what is queued.     *)
Counted ==
  \A g \in Gens : gconn[g] # "closed"
    => Delivered(g) + Count(queue, WriteOf(g)) = reads[g]
-----------------------------------------------------------------------------
(* What Append and Tail do to the tasks.                                   *)
LEMMA AppendTask ==
  ASSUME NEW S, NEW q \in Seq(S), NEW t \in S
  PROVE  /\ Append(q, t) \in Seq(S)
         /\ Len(q) \in Nat /\ Len(Append(q, t)) = Len(q) + 1
         /\ \A i \in 1 .. Len(q) : Append(q, t)[i] = q[i]
         /\ Append(q, t)[Len(q) + 1] = t
OBVIOUS

LEMMA TailTask ==
  ASSUME NEW S, NEW q \in Seq(S), q # <<>>
  PROVE  /\ Tail(q) \in Seq(S) /\ Len(q) \in Nat \ {0}
         /\ Len(Tail(q)) = Len(q) - 1
         /\ \A i \in 1 .. Len(q) - 1 : Tail(q)[i] = q[i + 1]
         /\ Head(q) = q[1] /\ Head(q) \in S
OBVIOUS

(* loopCloseConn keeps the types.                                          *)
LEMMA CloseFdTypes ==
  ASSUME TypeOK, NEW g \in Gens,
         NEW who \in {"app", "react", "goroutine", "shutdown"}, CloseFd(g, who)
  PROVE  /\ gconn' \in [Gens -> {"none", "queued", "open", "closed"}]
         /\ closedBy' \in [Gens -> {"nobody", "app", "react", "goroutine", "shutdown"}]
         /\ loop' \in [at : {"idle", "reply", "call", "onClosed", "stopped"}, g : Gens \cup {0}]
BY DEF TypeOK, ConnsOK, LoopOK, CloseFd

(* Every step keeps the types.                                             *)
LEMMA TypesStep == TypeOK /\ [Next]_vars => TypeOK'
<1> SUFFICES ASSUME TypeOK, [Next]_vars PROVE TypeOK'
  OBVIOUS
<1> USE DEF connVars
<1>0. \A op, g : NextTask(op, g) => queue' \in Seq(Tasks)
  BY TailTask DEF NextTask, TypeOK
<1>1. CASE OnClosed
  BY <1>1 DEF OnClosed, ClosedLink, Hangup, Delete, Idle, Stopped, TypeOK, ConnsOK, LoopOK
<1>2. CASE WriteReply
  <2>1. stream' \in [Gens -> Seq(Written)]
    <3>1. stream' = [stream EXCEPT ![loop.g] = Append(@, Reply(loop.g))]
      BY <1>2 DEF WriteReply
    <3>2. stream \in [Gens -> Seq(Written)]
      BY DEF TypeOK, LoopOK
    <3>3. CASE loop.g \in Gens
      <4>1. Append(stream[loop.g], Reply(loop.g)) \in Seq(Written)
        BY <3>2, <3>3, AppendTask DEF Reply, Written
      <4> QED
        BY <3>1, <3>2, <3>3, <4>1
    <3>4. CASE loop.g \notin Gens
      BY <3>1, <3>2, <3>4
    <3> QED
      BY <3>3, <3>4
  <2> QED
    BY <1>2, <2>1 DEF WriteReply, Idle, TypeOK, ConnsOK, LoopOK
<1>3. CASE StopTask
  <2>1. CASE \E g \in Gens : CloseFd(g, "shutdown")
    BY <1>0, <1>3, <2>1, CloseFdTypes DEF StopTask, TypeOK, ConnsOK, LoopOK
  <2>2. CASE loop' = Stopped /\ UNCHANGED <<gconn, closedBy>>
    BY <1>0, <1>3, <2>2 DEF StopTask, Stopped, TypeOK, ConnsOK, LoopOK
  <2> QED
    BY <1>3, <2>1, <2>2 DEF StopTask
<1>4. ASSUME NEW g \in Gens, OnOpened(g) PROVE TypeOK'
  BY <1>0, <1>4 DEF OnOpened, Put, TypeOK, ConnsOK, LoopOK
<1>5. ASSUME NEW g \in Gens, WriteTask(g) PROVE TypeOK'
  <2>1. /\ stream \in [Gens -> Seq(Written)]
        /\ Append(stream[g], Data(g)) \in Seq(Written) /\ stream[g] \in Seq(Written)
    BY AppendTask DEF Data, Written, TypeOK, LoopOK
  <2>2. stream' \in [Gens -> Seq(Written)]
    BY <1>5, <2>1 DEF WriteTask
  <2> QED
    BY <1>0, <1>5, <2>2 DEF WriteTask, TypeOK, ConnsOK, LoopOK
<1>6. ASSUME NEW g \in Gens, CloseTask(g) PROVE TypeOK'
  <2>1. CASE CloseFd(g, "goroutine")
    BY <1>0, <1>6, <2>1, CloseFdTypes DEF CloseTask, TypeOK, ConnsOK, LoopOK
  <2>2. CASE UNCHANGED <<gconn, closedBy, loop>>
    BY <1>0, <1>6, <2>2 DEF CloseTask, TypeOK, ConnsOK, LoopOK
  <2> QED
    BY <1>6, <2>1, <2>2 DEF CloseTask
<1>7. CASE OnStop
  BY <1>7 DEF OnStop, TypeOK, ConnsOK, LoopOK
<1>8. CASE StopSignal
  <2>1. queue' \in Seq(Tasks)
    BY <1>8, AppendTask DEF StopSignal, Tasks, TypeOK
  <2> QED
    BY <1>8, <2>1 DEF StopSignal, TypeOK, ConnsOK, LoopOK
<1>9. ASSUME NEW g \in Gens, Accept(g) PROVE TypeOK'
  <2>1. queue' \in Seq(Tasks)
    BY <1>9, AppendTask DEF Accept, Tasks, TypeOK
  <2> QED
    BY <1>9, <2>1 DEF Accept, TypeOK, ConnsOK, LoopOK
<1>10. ASSUME NEW g \in Gens, ReactShutdown(g) \/ ReactError(g) \/ AppClose(g) PROVE TypeOK'
  <2>1. PICK who \in {"app", "react", "shutdown"} : CloseFd(g, who)
    BY <1>10 DEF ReactShutdown, ReactError, AppClose
  <2> QED
    BY <1>10, <2>1, CloseFdTypes
    DEF ReactShutdown, ReactError, AppClose, TypeOK, ConnsOK, LoopOK
<1>11. ASSUME NEW g \in Gens, ReactMethod(g) PROVE TypeOK'
  <2>1. stream' \in [Gens -> Seq(Written)]
    BY <1>11 DEF ReactMethod, Method, Written, TypeOK, LoopOK
  <2> QED
    BY <1>11, <2>1 DEF ReactMethod, TypeOK, ConnsOK, LoopOK
<1>12. ASSUME NEW g \in Gens, ReactRequest(g) PROVE TypeOK'
  BY <1>12 DEF ReactRequest, Dialled, TypeOK, ConnsOK, LoopOK
<1>13. ASSUME NEW g \in Gens, ReactBadReply(g) PROVE TypeOK'
  <2>1. link' \in [Gens -> {"nil", "open", "eof", "closed"}]
    BY <1>13 DEF ReactBadReply, Dialled, TypeOK, ConnsOK
  <2> QED
    BY <1>13, <2>1, CloseFdTypes DEF ReactBadReply, TypeOK, ConnsOK, LoopOK
<1>14. ASSUME NEW g \in Gens, ReactPoolFull(g) PROVE TypeOK'
  <2>1. link' \in [Gens -> {"nil", "open", "eof", "closed"}]
    BY <1>14 DEF ReactPoolFull, Dialled, TypeOK, ConnsOK
  <2>2. stream' \in [Gens -> Seq(Written)]
    BY <1>14 DEF ReactPoolFull, Reply, Written, TypeOK, LoopOK
  <2> QED
    BY <1>14, <2>1, <2>2, CloseFdTypes DEF ReactPoolFull, TypeOK, ConnsOK, LoopOK
<1>15. ASSUME NEW g \in Gens, RunRead(g) PROVE TypeOK'
  <2>1. queue' \in Seq(Tasks)
    BY <1>15, AppendTask DEF RunRead, Deliver, Tasks, TypeOK
  <2>2. reads' \in [Gens -> 0 .. MaxReads]
    BY <1>15, ClientAssumption DEF RunRead, ClientAssumption, TypeOK, LoopOK
  <2> QED
    BY <1>15, <2>1, <2>2 DEF RunRead, Deliver, TypeOK, ConnsOK, LoopOK
<1>16. ASSUME NEW g \in Gens, RunCloses(g) PROVE TypeOK'
  <2>1. queue' \in Seq(Tasks)
    BY <1>16, AppendTask DEF RunCloses, CloseQueued, Tasks, TypeOK
  <2> QED
    BY <1>16, <2>1 DEF RunCloses, Hangup, TypeOK, ConnsOK, LoopOK
<1>17. ASSUME NEW g \in Gens, LinkEOF(g) PROVE TypeOK'
  BY <1>17 DEF LinkEOF, TypeOK, ConnsOK, LoopOK
<1>18. CASE UNCHANGED vars
  BY <1>18 DEF vars, TypeOK, ConnsOK, LoopOK
<1>19. ASSUME NEW g \in Gens, ReactCalls(g) \/ ReactData(g) PROVE TypeOK'
  BY <1>19 DEF ReactCalls, ReactData, Call, Idle, TypeOK, ConnsOK, LoopOK
<1>20. CASE Elsewhere \/ ElsewhereReturns
  BY <1>20 DEF Elsewhere, ElsewhereReturns, Call, Idle, TypeOK, ConnsOK, LoopOK
<1> QED
  BY <1>1, <1>2, <1>3, <1>4, <1>5, <1>6, <1>7, <1>8, <1>9, <1>10, <1>11, <1>12, <1>13,
     <1>14, <1>15, <1>16, <1>17, <1>18, <1>19, <1>20
  DEF Next, RunEnd, RunRefused, Loop, Task, React

(* The types of the client's state.                                        *)
THEOREM ClientTypes == Spec => []TypeOK
<1>1. Init => TypeOK
  BY ClientAssumption DEF ClientAssumption, Init, Idle, TypeOK, ConnsOK, LoopOK
<1> QED
  BY <1>1, TypesStep, PTL DEF Spec
-----------------------------------------------------------------------------
(* Who closes a descriptor or leaves a call.                               *)
LEMMA CallStep == TypeOK /\ CallOpen /\ [Next]_vars => CallOpen'
<1> SUFFICES ASSUME TypeOK, CallOpen, [Next]_vars PROVE CallOpen'
  OBVIOUS
<1> USE DEF connVars
<1>1. ASSUME NEW g, NEW who, CloseFd(g, who) PROVE CallOpen'
  BY <1>1 DEF CloseFd, CallOpen, Call
<1>2. ASSUME loop' = Idle \/ loop' = Stopped \/ loop' = Call(0) \/ loop'.at = "reply" PROVE CallOpen'
  BY <1>2 DEF CallOpen, Call, Idle, Stopped, Gens
<1>3. ASSUME UNCHANGED loop, \A g \in Gens : gconn[g] = "open" => gconn'[g] = "open"
      PROVE  CallOpen'
  BY <1>3 DEF CallOpen
<1>4. ASSUME NEW g \in Gens, ReactCalls(g) PROVE CallOpen'
  BY <1>4 DEF ReactCalls, Reacts, Ready, CallOpen, Call
<1>5. ASSUME NEW g \in Gens, Accept(g) \/ OnOpened(g) PROVE CallOpen'
  <2>1. \A h \in Gens : gconn[h] = "open" => gconn'[h] = "open"
    BY <1>5 DEF Accept, Reusable, OnOpened, TypeOK, ConnsOK
  <2> QED
    BY <1>3, <1>5, <2>1 DEF Accept, OnOpened
<1>6. CASE OnClosed \/ WriteReply \/ Elsewhere \/ ElsewhereReturns
  BY <1>2, <1>6 DEF OnClosed, WriteReply, Elsewhere, ElsewhereReturns
<1>7. CASE StopTask
  BY <1>1, <1>2, <1>7 DEF StopTask
<1>8. ASSUME NEW g \in Gens, CloseTask(g) PROVE CallOpen'
  BY <1>1, <1>3, <1>8 DEF CloseTask
<1>9. ASSUME NEW g \in Gens,
             \/ ReactShutdown(g) \/ ReactError(g) \/ ReactBadReply(g) \/ ReactPoolFull(g)
             \/ AppClose(g)
      PROVE  CallOpen'
  BY <1>1, <1>9 DEF ReactShutdown, ReactError, ReactBadReply, ReactPoolFull, AppClose
<1>10. ASSUME NEW g \in Gens, ReactRequest(g) \/ ReactData(g) PROVE CallOpen'
  BY <1>2, <1>10 DEF ReactRequest, ReactData
<1> QED
  BY <1>3, <1>4, <1>5, <1>6, <1>7, <1>8, <1>9, <1>10
  DEF Next, RunEnd, RunRefused, RunCloses, Loop, Task, React, WriteTask, OnStop, StopSignal,
      ReactMethod, RunRead, LinkEOF, vars

(* React runs for an open connection.                                      *)
LEMMA ReactsOpen ==
  ASSUME CallOpen, NEW g \in Gens,
         \/ ReactShutdown(g) \/ ReactError(g) \/ ReactMethod(g) \/ ReactCalls(g)
         \/ ReactRequest(g) \/ ReactBadReply(g) \/ ReactPoolFull(g) \/ ReactData(g)
         \/ AppClose(g)
  PROVE  gconn[g] = "open" /\ loop \in {Idle, Call(g)}
<1>1. Ready(g) \/ loop = Call(g)
  BY DEF ReactShutdown, ReactError, ReactMethod, ReactCalls, ReactRequest, ReactBadReply,
         ReactPoolFull, ReactData, AppClose, Reacts
<1> QED
  BY <1>1 DEF CallOpen, Ready
-----------------------------------------------------------------------------
(* What each step may do to the queue: take the first task, add a last one *)
(* that registers nothing, or leave it.                                    *)
QueueMoves ==
  \/ UNCHANGED queue
  \/ queue # <<>> /\ queue' = Tail(queue)
  \/ \E t \in Tasks : t.op # "open" /\ queue' = Append(queue, t)

(* Such a step keeps OneOpenTask while what is queued stays queued.        *)
LEMMA MovesKeep ==
  ASSUME TypeOK, OneOpenTask, QueueMoves,
         \A g \in Gens : gconn[g] = "queued" => gconn'[g] = "queued"
  PROVE  OneOpenTask'
<1>0. \A i \in 1 .. Len(queue) : queue[i].op = "open" => queue[i].g \in Gens
  <2>1. \A i \in 1 .. Len(queue) : queue[i] \in Tasks
    BY DEF TypeOK
  <2> QED
    BY <2>1 DEF Tasks
<1>1. CASE UNCHANGED queue
  BY <1>0, <1>1 DEF OneOpenTask
<1>2. CASE queue # <<>> /\ queue' = Tail(queue)
  <2>1. /\ Len(queue) \in Nat /\ Len(queue') = Len(queue) - 1
        /\ \A i \in 1 .. Len(queue) - 1 : queue'[i] = queue[i + 1]
    BY <1>2, TailTask DEF TypeOK
  <2>2. \A i \in 1 .. Len(queue') : i + 1 \in 1 .. Len(queue) /\ queue'[i] = queue[i + 1]
    BY <2>1
  <2>3. \A i \in 1 .. Len(queue') : queue'[i].op = "open" => gconn'[queue'[i].g] = "queued"
    BY <1>0, <2>2 DEF OneOpenTask
  <2>4. ASSUME NEW i \in 1 .. Len(queue'), NEW j \in 1 .. Len(queue'),
               queue'[i].op = "open", queue'[j].op = "open"
        PROVE  i = j
    <3>1. i + 1 = j + 1
      BY <2>2, <2>4 DEF OneOpenTask
    <3> QED
      BY <2>1, <3>1
  <2> QED
    BY <2>3, <2>4 DEF OneOpenTask
<1>3. ASSUME NEW t \in Tasks, t.op # "open", queue' = Append(queue, t) PROVE OneOpenTask'
  <2>1. /\ Len(queue) \in Nat /\ Len(queue') = Len(queue) + 1
        /\ \A i \in 1 .. Len(queue) : queue'[i] = queue[i]
        /\ queue'[Len(queue) + 1] = t
    BY <1>3, AppendTask DEF TypeOK
  <2>2. \A i \in 1 .. Len(queue') :
          queue'[i].op = "open" => i \in 1 .. Len(queue) /\ queue'[i] = queue[i]
    BY <1>3, <2>1
  <2> QED
    BY <1>0, <2>2 DEF OneOpenTask
<1> QED
  BY <1>1, <1>2, <1>3 DEF QueueMoves

(* A step other than Accept and OnOpened moves the queue so, and does to a *)
(* connection at most what closes it.                                      *)
Closes ==
  \A g \in Gens : gconn'[g] = gconn[g] \/ (gconn[g] = "open" /\ gconn'[g] = "closed")

LEMMA OtherSteps ==
  TypeOK /\ CallOpen /\ [Next]_vars /\ (\A g \in Gens : ~Accept(g) /\ ~OnOpened(g))
    => QueueMoves /\ Closes
<1> SUFFICES ASSUME TypeOK, CallOpen, [Next]_vars, \A g \in Gens : ~Accept(g) /\ ~OnOpened(g)
             PROVE  QueueMoves /\ Closes
  OBVIOUS
<1> USE DEF connVars
<1>0. ASSUME NEW g \in Gens, NEW who, gconn[g] = "open", CloseFd(g, who) PROVE Closes
  BY <1>0 DEF CloseFd, Closes, TypeOK, ConnsOK
<1>1. CASE UNCHANGED <<gconn, queue>>
  BY <1>1 DEF QueueMoves, Closes
<1>2. ASSUME NEW g \in Gens,
             \/ ReactShutdown(g) \/ ReactError(g) \/ ReactBadReply(g) \/ ReactPoolFull(g)
             \/ AppClose(g)
      PROVE  QueueMoves /\ Closes
  <2>1. gconn[g] = "open"
    BY <1>2, ReactsOpen
  <2> QED
    BY <1>0, <1>2, <2>1 DEF ReactShutdown, ReactError, ReactBadReply, ReactPoolFull, AppClose,
                            QueueMoves
<1>3. CASE StopTask
  <2>1. Closes
    <3>1. CASE \E g \in Gens : gconn[g] = "open" /\ CloseFd(g, "shutdown")
      BY <1>0, <3>1
    <3>2. CASE UNCHANGED gconn
      BY <3>2 DEF Closes
    <3> QED
      BY <1>3, <3>1, <3>2 DEF StopTask
  <2> QED
    BY <1>3, <2>1 DEF StopTask, NextTask, QueueMoves
<1>4. ASSUME NEW g \in Gens, CloseTask(g) \/ WriteTask(g) PROVE QueueMoves /\ Closes
  <2>1. Closes
    <3>1. CASE gconn[g] = "open" /\ CloseFd(g, "goroutine")
      BY <1>0, <3>1
    <3>2. CASE UNCHANGED gconn
      BY <3>2 DEF Closes
    <3> QED
      BY <1>4, <3>1, <3>2 DEF CloseTask, WriteTask
  <2> QED
    BY <1>4, <2>1 DEF CloseTask, WriteTask, NextTask, QueueMoves
<1>5. CASE StopSignal
  <2>1. [op |-> "stop", g |-> 0] \in Tasks
    BY DEF Tasks
  <2> QED
    BY <1>5, <2>1 DEF StopSignal, QueueMoves, Closes
<1>6. ASSUME NEW g \in Gens, RunRead(g) \/ RunCloses(g) PROVE QueueMoves /\ Closes
  <2>1. [op |-> "write", g |-> g] \in Tasks /\ [op |-> "close", g |-> g] \in Tasks
    BY DEF Tasks
  <2>2. UNCHANGED gconn
    BY <1>6 DEF RunRead, RunCloses
  <2>3. \E t \in Tasks : t.op # "open" /\ queue' = Append(queue, t)
    BY <1>6, <2>1 DEF RunRead, RunCloses, Deliver, CloseQueued
  <2> QED
    BY <2>2, <2>3 DEF QueueMoves, Closes
<1> QED
  BY <1>1, <1>2, <1>3, <1>4, <1>5, <1>6
  DEF Next, RunEnd, RunRefused, ReactCalls, Elsewhere, ElsewhereReturns,
      Loop, Task, React, OnClosed, WriteReply, OnStop, ReactMethod, ReactRequest,
      ReactData, LinkEOF, vars

(* The connections of the address keep their order, and registrations are  *)
(* done once.                                                              *)
LEMMA OrderStep ==
  TypeOK /\ CallOpen /\ OneLive /\ OneOpenTask /\ [Next]_vars => OneLive' /\ OneOpenTask'
<1> SUFFICES ASSUME TypeOK, CallOpen, OneLive, OneOpenTask, [Next]_vars
             PROVE  OneLive' /\ OneOpenTask'
  OBVIOUS
<1>0. \A i \in 1 .. Len(queue) : queue[i].op = "open" => queue[i].g \in Gens
  <2>1. \A i \in 1 .. Len(queue) : queue[i] \in Tasks
    BY DEF TypeOK
  <2> QED
    BY <2>1 DEF Tasks
<1>1. ASSUME NEW g \in Gens, Accept(g) PROVE OneLive' /\ OneOpenTask'
  <2>1. \A h \in Gens : gconn'[h] = IF h = g THEN "queued" ELSE gconn[h]
    BY <1>1 DEF Accept, TypeOK, ConnsOK
  <2>2. gconn[g] = "none" /\ \A h \in Gens : h < g => gconn[h] = "closed"
    BY <1>1 DEF Accept, Reusable, Gens
  <2>3. \A h \in Gens : gconn[h] # "queued"
    BY <2>2 DEF OneLive, Gens
  <2>4. OneLive'
    BY <2>1, <2>2 DEF OneLive, Gens
  <2>5. /\ Len(queue) \in Nat /\ Len(queue') = Len(queue) + 1
        /\ \A i \in 1 .. Len(queue) : queue'[i] = queue[i]
        /\ queue'[Len(queue) + 1] = [op |-> "open", g |-> g]
    <3>1. [op |-> "open", g |-> g] \in Tasks
      BY DEF Tasks
    <3> QED
      BY <1>1, <3>1, AppendTask DEF Accept, TypeOK
  <2>6. \A i \in 1 .. Len(queue') : queue'[i].op = "open" => i = Len(queue) + 1
    BY <1>0, <2>3, <2>5 DEF OneOpenTask
  <2>7. OneOpenTask'
    BY <2>1, <2>5, <2>6 DEF OneOpenTask
  <2> QED
    BY <2>4, <2>7
<1>2. ASSUME NEW g \in Gens, OnOpened(g) PROVE OneLive' /\ OneOpenTask'
  <2>1. /\ queue # <<>> /\ queue' = Tail(queue)
        /\ Head(queue) = [op |-> "open", g |-> g]
    BY <1>2 DEF OnOpened, NextTask
  <2>2. /\ Len(queue) \in Nat \ {0} /\ Len(queue') = Len(queue) - 1
        /\ \A i \in 1 .. Len(queue) - 1 : queue'[i] = queue[i + 1]
        /\ queue[1] = [op |-> "open", g |-> g]
    BY <2>1, TailTask DEF TypeOK
  <2>3. gconn[g] = "queued"
    BY <2>2 DEF OneOpenTask
  <2>4. \A h \in Gens : gconn'[h] = IF h = g THEN "open" ELSE gconn[h]
    BY <1>2 DEF OnOpened, TypeOK, ConnsOK
  <2>5. OneLive'
    BY <2>3, <2>4 DEF OneLive, Gens
  <2>6. \A i \in 1 .. Len(queue') : queue'[i].op # "open"
    <3>1. SUFFICES ASSUME NEW i \in 1 .. Len(queue') PROVE queue'[i].op # "open"
      OBVIOUS
    <3>2. i + 1 \in 1 .. Len(queue) /\ 1 \in 1 .. Len(queue) /\ i + 1 # 1
          /\ queue'[i] = queue[i + 1]
      BY <2>2
    <3> QED
      BY <2>2, <3>2 DEF OneOpenTask
  <2> QED
    BY <2>5, <2>6 DEF OneOpenTask
<1>3. CASE \A g \in Gens : ~Accept(g) /\ ~OnOpened(g)
  <2>1. QueueMoves /\ Closes
    BY <1>3, OtherSteps
  <2>2. OneLive'
    BY <2>1 DEF Closes, OneLive
  <2>3. OneOpenTask'
    BY <2>1, MovesKeep DEF Closes
  <2> QED
    BY <2>2, <2>3
<1> QED
  BY <1>1, <1>2, <1>3
-----------------------------------------------------------------------------
(* Closing the descriptor of the open connection g.                        *)
LEMMA CloseFdOwn ==
  ASSUME TypeOK, OneLive, OwnConn, LinksHeld, loop.at # "onClosed",
         NEW g \in Gens, gconn[g] = "open", NEW who, CloseFd(g, who), UNCHANGED conns,
         \A h \in Gens : link'[h] = link[h] \/ h = g
  PROVE  OwnConn' /\ LoopBusy' /\ LinksHeld'
<1>1. conns = g
  BY DEF OwnConn
<1>2. \A h \in Gens : gconn'[h] = IF h = g THEN "closed" ELSE gconn[h]
  BY DEF CloseFd, TypeOK, ConnsOK
<1>3. loop' = [at |-> "onClosed", g |-> g]
  BY DEF CloseFd
<1> QED
  BY <1>1, <1>2, <1>3 DEF OwnConn, LoopBusy, LinksHeld

(* Every step keeps the map, the loop and the links together.              *)
LEMMA OwnStep ==
  TypeOK /\ CallOpen /\ OneLive /\ OneOpenTask /\ OwnConn /\ LoopBusy /\ LinksHeld /\ [Next]_vars
    => OwnConn' /\ LoopBusy' /\ LinksHeld'
<1> SUFFICES ASSUME TypeOK, CallOpen, OneLive, OneOpenTask, OwnConn, LoopBusy, LinksHeld,
                    [Next]_vars
             PROVE  OwnConn' /\ LoopBusy' /\ LinksHeld'
  OBVIOUS
<1> USE DEF connVars
<1>1. ASSUME UNCHANGED <<gconn, conns, link, loop>> PROVE OwnConn' /\ LoopBusy' /\ LinksHeld'
  BY <1>1 DEF OwnConn, LoopBusy, LinksHeld
<1>2. ASSUME NEW g \in Gens, Accept(g) PROVE OwnConn' /\ LoopBusy' /\ LinksHeld'
  <2>1. \A h \in Gens : gconn'[h] = IF h = g THEN "queued" ELSE gconn[h]
    BY <1>2 DEF Accept, TypeOK, ConnsOK
  <2>2. gconn[g] = "none" /\ UNCHANGED <<conns, link, loop>>
    BY <1>2 DEF Accept, Reusable
  <2> QED
    BY <2>1, <2>2 DEF OwnConn, LoopBusy, LinksHeld
<1>3. ASSUME NEW g \in Gens, OnOpened(g) PROVE OwnConn' /\ LoopBusy' /\ LinksHeld'
  <2>1. /\ queue # <<>> /\ Head(queue) = [op |-> "open", g |-> g]
        /\ loop = Idle /\ conns' = g /\ UNCHANGED <<link, loop>>
    BY <1>3 DEF OnOpened, NextTask, Put
  <2>2. Len(queue) \in Nat \ {0} /\ queue[1] = [op |-> "open", g |-> g]
    BY <2>1, TailTask DEF TypeOK
  <2>3. gconn[g] = "queued"
    BY <2>2 DEF OneOpenTask
  <2>4. \A h \in Gens : gconn'[h] = IF h = g THEN "open" ELSE gconn[h]
    BY <1>3 DEF OnOpened, TypeOK, ConnsOK
  <2>5. \A h \in Gens : h # g => gconn[h] # "open"
    BY <2>3 DEF OneLive, Gens
  <2> QED
    BY <2>1, <2>3, <2>4, <2>5 DEF OwnConn, LoopBusy, LinksHeld, Idle
<1>4. CASE OnClosed
  <2>1. /\ loop.at = "onClosed" /\ conns = loop.g /\ loop.g \in Gens
        /\ gconn[loop.g] = "closed" /\ UNCHANGED gconn
    BY <1>4 DEF OnClosed, OwnConn, LoopBusy
  <2>2. \A h \in Gens : gconn[h] # "open"
    BY <2>1 DEF OwnConn
  <2>3. link'[loop.g] \in {"nil", "closed"} /\ \A h \in Gens : h # loop.g => link'[h] = link[h]
    BY <1>4, <2>1 DEF OnClosed, ClosedLink, Hangup, TypeOK, ConnsOK
  <2>4. loop'.at \in {"idle", "stopped"}
    BY <1>4 DEF OnClosed, Idle, Stopped
  <2>5. \A h \in Gens : loop = [at |-> "onClosed", g |-> h] => h = loop.g
    OBVIOUS
  <2>6. \A h \in Gens : link'[h] \notin {"open", "eof"}
    BY <2>2, <2>3, <2>5 DEF LinksHeld
  <2> QED
    BY <2>1, <2>2, <2>4, <2>6 DEF OwnConn, LoopBusy, LinksHeld
<1>5. CASE WriteReply
  BY <1>5 DEF WriteReply, Idle, OwnConn, LoopBusy, LinksHeld
<1>6. CASE StopTask
  <2>1. loop = Idle /\ loop.at # "onClosed" /\ UNCHANGED <<conns, link>>
    BY <1>6 DEF StopTask, NextTask, Idle
  <2>2. CASE \E g \in Gens : gconn[g] = "open" /\ CloseFd(g, "shutdown")
    BY <2>1, <2>2, CloseFdOwn
  <2>3. CASE loop' = Stopped /\ UNCHANGED gconn
    BY <2>1, <2>3 DEF Stopped, Idle, OwnConn, LoopBusy, LinksHeld
  <2> QED
    BY <1>6, <2>2, <2>3 DEF StopTask
<1>7. ASSUME NEW g \in Gens, CloseTask(g) PROVE OwnConn' /\ LoopBusy' /\ LinksHeld'
  <2>1. loop = Idle /\ loop.at # "onClosed" /\ UNCHANGED <<conns, link>>
    BY <1>7 DEF CloseTask, NextTask, Idle
  <2>2. CASE gconn[g] = "open" /\ CloseFd(g, "goroutine")
    BY <2>1, <2>2, CloseFdOwn
  <2>3. CASE UNCHANGED <<gconn, loop>>
    BY <1>1, <2>1, <2>3
  <2> QED
    BY <1>7, <2>2, <2>3 DEF CloseTask
<1>8. ASSUME NEW g \in Gens,
             \/ ReactShutdown(g) \/ ReactError(g) \/ ReactBadReply(g) \/ ReactPoolFull(g)
             \/ AppClose(g)
      PROVE  OwnConn' /\ LoopBusy' /\ LinksHeld'
  <2>0. gconn[g] = "open" /\ loop.at # "onClosed"
    BY <1>8, ReactsOpen DEF Idle, Call
  <2>1. gconn[g] = "open" /\ loop.at # "onClosed" /\ UNCHANGED conns
    BY <1>8, <2>0 DEF ReactShutdown, ReactError, ReactBadReply, ReactPoolFull, AppClose
  <2>2. PICK who : CloseFd(g, who)
    BY <1>8 DEF ReactShutdown, ReactError, ReactBadReply, ReactPoolFull, AppClose
  <2>3. conns = g
    BY <2>1 DEF OwnConn
  <2>4. \A h \in Gens : link'[h] = link[h] \/ h = g
    BY <1>8, <2>3 DEF ReactShutdown, ReactError, ReactBadReply, ReactPoolFull, AppClose, Dialled,
                      TypeOK, ConnsOK
  <2> QED
    BY <2>1, <2>2, <2>4, CloseFdOwn
<1>9. ASSUME NEW g \in Gens, ReactRequest(g) PROVE OwnConn' /\ LoopBusy' /\ LinksHeld'
  <2>0. gconn[g] = "open" /\ loop.at # "onClosed"
    BY <1>9, ReactsOpen DEF Idle, Call
  <2>1. /\ conns = g
        /\ UNCHANGED <<gconn, conns>> /\ loop' = [at |-> "reply", g |-> g]
    BY <1>9, <2>0 DEF ReactRequest, OwnConn
  <2>2. \A h \in Gens : h # g => link'[h] = link[h]
    BY <1>9, <2>1 DEF ReactRequest, Dialled, TypeOK, ConnsOK
  <2> QED
    BY <2>0, <2>1, <2>2 DEF OwnConn, LoopBusy, LinksHeld
<1>10. ASSUME NEW g \in Gens, RunCloses(g) \/ LinkEOF(g) PROVE OwnConn' /\ LoopBusy' /\ LinksHeld'
  <2>1. \A h \in Gens : link'[h] \in {"open", "eof"} => link[h] \in {"open", "eof"}
    BY <1>10 DEF RunCloses, LinkEOF, Hangup, TypeOK, ConnsOK
  <2>2. UNCHANGED <<gconn, conns, loop>>
    BY <1>10 DEF RunCloses, LinkEOF
  <2> QED
    BY <2>1, <2>2 DEF OwnConn, LoopBusy, LinksHeld
<1>11. ASSUME loop.at \in {"idle", "call"}, loop'.at \in {"idle", "call"},
              UNCHANGED <<gconn, conns, link>>
       PROVE  OwnConn' /\ LoopBusy' /\ LinksHeld'
  BY <1>11 DEF OwnConn, LoopBusy, LinksHeld
<1>12. CASE Elsewhere \/ ElsewhereReturns
  BY <1>11, <1>12 DEF Elsewhere, ElsewhereReturns, Idle, Call
<1>13. ASSUME NEW g \in Gens, ReactCalls(g) \/ ReactData(g)
       PROVE  OwnConn' /\ LoopBusy' /\ LinksHeld'
  BY <1>11, <1>13 DEF ReactCalls, ReactData, Reacts, Ready, Idle, Call
<1> QED
  BY <1>1, <1>2, <1>3, <1>4, <1>5, <1>6, <1>7, <1>8, <1>9, <1>10, <1>12, <1>13
  DEF Next, RunEnd, RunRefused, Loop, Task, React, OnStop, StopSignal, WriteTask, ReactMethod,
      RunRead, vars

(* The inductive invariant of the map and of what it stands for.           *)
ClientInv == CallOpen /\ OneLive /\ OneOpenTask /\ OwnConn /\ LoopBusy /\ LinksHeld

(* The invariant of the connections of one address.                        *)
THEOREM ClientInvariant == Spec => []ClientInv
<1>1. Init => ClientInv
  BY DEF Init, Idle, Call, ClientInv, CallOpen, OneLive, OneOpenTask, OwnConn, LoopBusy, LinksHeld
<1>2. TypeOK /\ ClientInv /\ [Next]_vars => ClientInv'
  BY CallStep, OrderStep, OwnStep DEF ClientInv
<1> QED
  BY <1>1, <1>2, ClientTypes, PTL DEF Spec

(* React and OnClosed always find the Conn of their own connection in the  *)
(* map: OwnConn, however often the address is reused.                      *)
THEOREM ClientOwnConn == Spec => []OwnConn
<1>1. ClientInv => OwnConn
  BY DEF ClientInv
<1> QED
  BY <1>1, ClientInvariant, PTL

(* A connection that is closed and deleted leaves no link open: NoLinkLeak.*)
THEOREM ClientNoLinkLeak == Spec => []NoLinkLeak
<1>1. TypeOK /\ ClientInv => NoLinkLeak
  BY DEF ClientInv, LinksHeld, NoLinkLeak, TypeOK, ConnsOK
<1> QED
  BY <1>1, ClientInvariant, ClientTypes, PTL
-----------------------------------------------------------------------------
(* What a step may write: one item, and data only after the reply.         *)
StreamMoves ==
  \/ UNCHANGED stream
  \/ \E g \in Gens, x \in Written :
       /\ x.what = "data" => HasReply(g)
       /\ stream' = [stream EXCEPT ![g] = Append(@, x)]

(* Every step writes so.                                                   *)
LEMMA StreamSteps ==
  TypeOK /\ LoopBusy /\ Replied /\ WritesRun /\ [Next]_vars => StreamMoves
<1> SUFFICES ASSUME TypeOK, LoopBusy, Replied, WritesRun, [Next]_vars PROVE StreamMoves
  OBVIOUS
<1> USE DEF connVars
<1>1. CASE UNCHANGED stream
  BY <1>1 DEF StreamMoves
<1>2. CASE WriteReply
  <2>1. loop.g \in Gens /\ stream' = [stream EXCEPT ![loop.g] = Append(@, Reply(loop.g))]
    BY <1>2 DEF WriteReply, LoopBusy
  <2>2. Reply(loop.g) \in Written /\ Reply(loop.g).what = "reply"
    BY <2>1 DEF Reply, Written
  <2> QED
    BY <2>1, <2>2 DEF StreamMoves
<1>3. ASSUME NEW g \in Gens, ReactMethod(g) \/ ReactPoolFull(g) PROVE StreamMoves
  <2>1. PICK x \in {Method(g), Reply(g)} : stream' = [stream EXCEPT ![g] = Append(@, x)]
    BY <1>3 DEF ReactMethod, ReactPoolFull
  <2>2. x \in Written /\ x.what # "data"
    BY <2>1 DEF Method, Reply, Written
  <2> QED
    BY <2>1, <2>2 DEF StreamMoves
<1>4. ASSUME NEW g \in Gens, WriteTask(g) PROVE StreamMoves
  <2>1. loop = Idle /\ queue # <<>> /\ Head(queue) = [op |-> "write", g |-> g]
    BY <1>4 DEF WriteTask, NextTask
  <2>2. Len(queue) \in Nat \ {0} /\ queue[1] = [op |-> "write", g |-> g]
    BY <2>1, TailTask DEF TypeOK
  <2>3. HasReply(g)
    <3>1. run[g] # "none"
      BY <2>2 DEF WritesRun
    <3>2. loop # [at |-> "reply", g |-> g]
      BY <2>1 DEF Idle
    <3> QED
      BY <3>1, <3>2 DEF Replied
  <2>4. Data(g) \in Written
    BY DEF Data, Written
  <2>5. stream \in [Gens -> Seq(Written)]
    BY DEF TypeOK, LoopOK
  <2>6. CASE gconn[g] = "open"
    <3>1. stream' = [stream EXCEPT ![g] = Append(@, Data(g))]
      BY <1>4, <2>6 DEF WriteTask
    <3> QED
      BY <2>3, <2>4, <3>1 DEF StreamMoves
  <2>7. CASE gconn[g] # "open"
    <3>1. stream' = stream
      BY <1>4, <2>5, <2>7 DEF WriteTask
    <3> QED
      BY <2>5, <3>1 DEF StreamMoves
  <2> QED
    BY <2>6, <2>7
<1> QED
  BY <1>1, <1>2, <1>3, <1>4
  DEF Next, RunEnd, RunRefused, ReactCalls, Elsewhere, ElsewhereReturns,
      Loop, Task, React, OnClosed, StopTask, OnOpened, CloseTask, OnStop, StopSignal,
      Accept, ReactShutdown, ReactError, ReactRequest, ReactBadReply, ReactData, AppClose,
      RunRead, Deliver, RunCloses, LinkEOF, vars

(* Writing so keeps the streams in order, and a reply that was written.    *)
LEMMA StreamKept ==
  ASSUME TypeOK, ReplyFirst, StreamMoves
  PROVE  ReplyFirst' /\ \A g \in Gens : HasReply(g) => HasReply(g)'
<1>1. CASE UNCHANGED stream
  BY <1>1 DEF ReplyFirst, HasReply
<1>2. ASSUME NEW g \in Gens, NEW x \in Written, x.what = "data" => HasReply(g),
             stream' = [stream EXCEPT ![g] = Append(@, x)]
      PROVE  ReplyFirst' /\ \A h \in Gens : HasReply(h) => HasReply(h)'
  <2>1. stream[g] \in Seq(Written) /\ stream'[g] = Append(stream[g], x)
        /\ \A h \in Gens : h # g => stream'[h] = stream[h]
    BY <1>2 DEF TypeOK, LoopOK
  <2> DEFINE n == Len(stream[g])
  <2>2. /\ n \in Nat /\ Len(stream'[g]) = n + 1
        /\ \A i \in 1 .. n : stream'[g][i] = stream[g][i]
        /\ stream'[g][n + 1] = x
    BY <2>1, AppendTask
  <2>3. DOMAIN stream[g] = 1 .. n /\ DOMAIN stream'[g] = 1 .. n + 1
    BY <2>1, <2>2
  <2> HIDE DEF n
  <2>4. \A h \in Gens : HasReply(h) => HasReply(h)'
    <3>1. HasReply(g) => HasReply(g)'
      BY <2>2 DEF HasReply, n
    <3> QED
      BY <2>1, <3>1 DEF HasReply
  <2>6. ASSUME NEW i \in 1 .. n + 1, stream'[g][i].what = "data"
        PROVE  \E j \in 1 .. i - 1 : stream'[g][j].what = "reply"
    <3>1. CASE i \in 1 .. n
      <4>1. \E j \in 1 .. i - 1 : stream[g][j].what = "reply"
        BY <2>2, <2>3, <2>6, <3>1 DEF ReplyFirst
      <4> QED
        BY <2>2, <3>1, <4>1
    <3>2. CASE i = n + 1
      <4>1. \E j \in 1 .. n : stream[g][j].what = "reply"
        BY <1>2, <2>2, <2>6, <3>2 DEF HasReply, n
      <4> QED
        BY <2>2, <3>2, <4>1
    <3> QED
      BY <2>2, <3>1, <3>2
  <2>8. ReplyFirst'
    <3>1. \A i \in DOMAIN stream'[g] :
            stream'[g][i].what = "data" => \E j \in 1 .. i - 1 : stream'[g][j].what = "reply"
      BY <2>3, <2>6
    <3>2. \A h \in Gens : h # g => \A i \in DOMAIN stream'[h] :
            stream'[h][i].what = "data" => \E j \in 1 .. i - 1 : stream'[h][j].what = "reply"
      BY <2>1 DEF ReplyFirst
    <3> QED
      BY <3>1, <3>2 DEF ReplyFirst
  <2> QED
    BY <2>4, <2>8
<1> QED
  BY <1>1, <1>2 DEF StreamMoves

(* Goroutines start with a reply to be written; none of them is forgotten. *)
LEMMA RunSteps ==
  TypeOK /\ CallOpen /\ OwnConn /\ [Next]_vars =>
    \A g \in Gens : /\ run[g] # "none" => run'[g] # "none"
                    /\ run'[g] # "none" => run[g] # "none" \/ loop' = [at |-> "reply", g |-> g]
<1> SUFFICES ASSUME TypeOK, CallOpen, OwnConn, [Next]_vars, NEW g \in Gens
             PROVE  /\ run[g] # "none" => run'[g] # "none"
                    /\ run'[g] # "none" => run[g] # "none" \/ loop' = [at |-> "reply", g |-> g]
  OBVIOUS
<1> USE DEF connVars
<1>1. CASE UNCHANGED run
  BY <1>1
<1>2. ASSUME NEW h \in Gens, ReactRequest(h)
      PROVE  /\ run[g] # "none" => run'[g] # "none"
             /\ run'[g] # "none" => run[g] # "none" \/ loop' = [at |-> "reply", g |-> g]
  <2>1. conns = h /\ loop' = [at |-> "reply", g |-> h]
    BY <1>2, ReactsOpen DEF ReactRequest, OwnConn
  <2>2. run'[g] = IF g = h THEN "read" ELSE run[g]
    BY <1>2, <2>1 DEF ReactRequest, TypeOK, ConnsOK
  <2> QED
    BY <2>1, <2>2
<1>3. ASSUME NEW h \in Gens, RunCloses(h)
      PROVE  /\ run[g] # "none" => run'[g] # "none"
             /\ run'[g] # "none" => run[g] # "none"
  BY <1>3 DEF RunCloses, TypeOK, ConnsOK
<1> QED
  BY <1>1, <1>2, <1>3
  DEF Next, RunEnd, RunRefused, ReactCalls, Elsewhere, ElsewhereReturns,
      Loop, Task, React, OnClosed, WriteReply, StopTask, OnOpened, WriteTask, CloseTask,
      OnStop, StopSignal, Accept, ReactShutdown, ReactError, ReactMethod, ReactBadReply,
      ReactPoolFull, ReactData, AppClose, RunRead, LinkEOF, vars

(* The loop leaves a reply only by writing it.                             *)
LEMMA ReplyWritten ==
  TypeOK /\ LoopBusy /\ [Next]_vars =>
    \A g \in Gens : loop = [at |-> "reply", g |-> g] => UNCHANGED loop \/ HasReply(g)'
<1> SUFFICES ASSUME TypeOK, LoopBusy, [Next]_vars, NEW g \in Gens,
                    loop = [at |-> "reply", g |-> g]
             PROVE  UNCHANGED loop \/ HasReply(g)'
  OBVIOUS
<1> USE DEF connVars
<1>0. loop # Idle /\ \A h : loop # Call(h)
  BY DEF Idle, Call
<1>1. CASE WriteReply
  <2>1. stream[g] \in Seq(Written) /\ stream'[g] = Append(stream[g], Reply(g))
    BY <1>1 DEF WriteReply, TypeOK, LoopOK
  <2>2. Reply(g) \in Written
    BY DEF Reply, Written
  <2>3. /\ Len(stream[g]) \in Nat /\ Len(stream'[g]) = Len(stream[g]) + 1
        /\ stream'[g][Len(stream[g]) + 1] = Reply(g)
    BY <2>1, <2>2, AppendTask
  <2> QED
    BY <2>3 DEF HasReply, Reply
<1> QED
  BY <1>0, <1>1
  DEF Next, RunEnd, RunRefused, ReactCalls, Elsewhere, ElsewhereReturns,
      Loop, Task, React, OnClosed, StopTask, OnOpened, WriteTask, CloseTask, NextTask,
      OnStop, StopSignal, Accept, ReactShutdown, ReactError, ReactMethod, ReactRequest,
      ReactBadReply, ReactPoolFull, ReactData, Reacts, Ready, AppClose, RunRead, RunCloses,
      LinkEOF, vars

(* Queued writes are those of goroutines.                                  *)
LEMMA WritesStep ==
  TypeOK /\ CallOpen /\ OwnConn /\ WritesRun /\ [Next]_vars => WritesRun'
<1> SUFFICES ASSUME TypeOK, CallOpen, OwnConn, WritesRun, [Next]_vars PROVE WritesRun'
  OBVIOUS
<1>0. \A i \in 1 .. Len(queue) : queue[i].op = "write" => queue[i].g \in Gens
  <2>1. \A i \in 1 .. Len(queue) : queue[i] \in Tasks
    BY DEF TypeOK
  <2> QED
    BY <2>1 DEF Tasks
<1>1. \A g \in Gens : run[g] # "none" => run'[g] # "none"
  BY RunSteps
<1>2. CASE UNCHANGED queue
  BY <1>0, <1>1, <1>2 DEF WritesRun
<1>3. CASE queue # <<>> /\ queue' = Tail(queue)
  <2>1. /\ Len(queue) \in Nat /\ Len(queue') = Len(queue) - 1
        /\ \A i \in 1 .. Len(queue) - 1 : queue'[i] = queue[i + 1]
    BY <1>3, TailTask DEF TypeOK
  <2>2. \A i \in 1 .. Len(queue') : i + 1 \in 1 .. Len(queue) /\ queue'[i] = queue[i + 1]
    BY <2>1
  <2> QED
    BY <1>0, <1>1, <2>2 DEF WritesRun
<1>4. ASSUME NEW t \in Tasks, queue' = Append(queue, t),
             t.op = "write" => t.g \in Gens /\ run'[t.g] # "none"
      PROVE  WritesRun'
  <2>1. /\ Len(queue) \in Nat /\ Len(queue') = Len(queue) + 1
        /\ \A i \in 1 .. Len(queue) : queue'[i] = queue[i]
        /\ queue'[Len(queue) + 1] = t
    BY <1>4, AppendTask DEF TypeOK
  <2> QED
    BY <1>0, <1>1, <1>4, <2>1 DEF WritesRun
<1>5. ASSUME NEW g \in Gens, Accept(g) PROVE WritesRun'
  BY <1>4, <1>5 DEF Accept, Tasks
<1>6. ASSUME NEW g \in Gens, OnOpened(g) PROVE WritesRun'
  BY <1>3, <1>6 DEF OnOpened, NextTask
<1>7. ASSUME NEW g \in Gens, RunRead(g) PROVE WritesRun'
  <2>1. run[g] # "none" /\ queue' = Append(queue, [op |-> "write", g |-> g])
    BY <1>7 DEF RunRead, Deliver
  <2>2. [op |-> "write", g |-> g] \in Tasks
    BY DEF Tasks
  <2> QED
    BY <1>1, <1>4, <2>1, <2>2
<1>8. ASSUME NEW g \in Gens, RunCloses(g) PROVE WritesRun'
  BY <1>4, <1>8 DEF RunCloses, CloseQueued, Tasks
<1>9. CASE StopSignal
  BY <1>4, <1>9 DEF StopSignal, Tasks
<1>10. CASE StopTask
  BY <1>3, <1>10 DEF StopTask, NextTask
<1>11. ASSUME NEW g \in Gens, WriteTask(g) \/ CloseTask(g) PROVE WritesRun'
  BY <1>3, <1>11 DEF WriteTask, CloseTask, NextTask
<1> QED
  BY <1>2, <1>5, <1>6, <1>7, <1>8, <1>9, <1>10, <1>11
  DEF Next, RunEnd, RunRefused, ReactCalls, Elsewhere, ElsewhereReturns,
      Loop, Task, React, OnClosed, WriteReply, OnStop, ReactShutdown, ReactError,
      ReactMethod, ReactRequest, ReactBadReply, ReactPoolFull, ReactData, AppClose, LinkEOF,
      vars

(* What is written to the application, and why it comes in this order.     *)
StreamInv == Replied /\ WritesRun /\ ReplyFirst

(* The invariant of the streams to the applications.                       *)
THEOREM ClientStreams == Spec => []StreamInv
<1>1. Init => StreamInv
  BY DEF Init, StreamInv, Replied, WritesRun, ReplyFirst
<1>2. TypeOK /\ ClientInv /\ StreamInv /\ [Next]_vars => StreamInv'
  <2> SUFFICES ASSUME TypeOK, ClientInv, StreamInv, [Next]_vars PROVE StreamInv'
    OBVIOUS
  <2>1. CallOpen /\ LoopBusy /\ OwnConn /\ Replied /\ WritesRun /\ ReplyFirst
    BY DEF ClientInv, StreamInv
  <2>2. StreamMoves
    BY <2>1, StreamSteps
  <2>3. ReplyFirst' /\ \A g \in Gens : HasReply(g) => HasReply(g)'
    BY <2>1, <2>2, StreamKept
  <2>4. Replied'
    <3>1. SUFFICES ASSUME NEW g \in Gens, run'[g] # "none"
                   PROVE  HasReply(g)' \/ loop' = [at |-> "reply", g |-> g]
      BY DEF Replied
    <3>2. run[g] # "none" \/ loop' = [at |-> "reply", g |-> g]
      BY <2>1, <3>1, RunSteps
    <3>3. run[g] # "none" => HasReply(g) \/ loop = [at |-> "reply", g |-> g]
      BY <2>1 DEF Replied
    <3>4. loop = [at |-> "reply", g |-> g] => UNCHANGED loop \/ HasReply(g)'
      BY <2>1, ReplyWritten
    <3> QED
      BY <2>3, <3>2, <3>3, <3>4
  <2>5. WritesRun'
    BY <2>1, WritesStep
  <2> QED
    BY <2>3, <2>4, <2>5 DEF StreamInv
<1> QED
  BY <1>1, <1>2, ClientInvariant, ClientTypes, PTL DEF Spec

(* The application reads the SOCKS5 reply before any data, although the    *)
(* goroutine that forwards data is submitted first: ReplyFirst.            *)
THEOREM ClientReplyFirst == Spec => []ReplyFirst
<1>1. StreamInv => ReplyFirst
  BY DEF StreamInv
<1> QED
  BY <1>1, ClientStreams, PTL
-----------------------------------------------------------------------------
(* Counting in sequences.                                                  *)

(* A count is a number, none if the item is nowhere.                       *)
LEMMA CountNat ==
  ASSUME NEW S, NEW q \in Seq(S), NEW x
  PROVE  /\ IsFiniteSet({i \in 1 .. Len(q) : q[i] = x})
         /\ Count(q, x) \in Nat
         /\ (\A i \in 1 .. Len(q) : q[i] # x) => Count(q, x) = 0
<1>1. IsFiniteSet(1 .. Len(q))
  BY FS_Interval
<1>2. IsFiniteSet({i \in 1 .. Len(q) : q[i] = x})
  BY <1>1, FS_Subset
<1>3. (\A i \in 1 .. Len(q) : q[i] # x) => {i \in 1 .. Len(q) : q[i] = x} = {}
  OBVIOUS
<1> QED
  BY <1>2, <1>3, FS_CardinalityType, FS_EmptySet DEF Count

(* One more item at the end.                                               *)
LEMMA CountAppend ==
  ASSUME NEW S, NEW q \in Seq(S), NEW t \in S, NEW x
  PROVE  Count(Append(q, t), x) = IF t = x THEN Count(q, x) + 1 ELSE Count(q, x)
<1> DEFINE P == {i \in 1 .. Len(q) : q[i] = x}
           Q == {i \in 1 .. Len(Append(q, t)) : Append(q, t)[i] = x}
<1>1. /\ Len(q) \in Nat /\ Len(Append(q, t)) = Len(q) + 1
      /\ \A i \in 1 .. Len(q) : Append(q, t)[i] = q[i]
      /\ Append(q, t)[Len(q) + 1] = t
  BY AppendTask
<1>2. IsFiniteSet(P)
  BY CountNat
<1>3. Len(q) + 1 \notin P
  BY <1>1
<1>4. CASE t = x
  <2>1. Q = P \cup {Len(q) + 1}
    BY <1>1, <1>4
  <2> HIDE DEF P, Q
  <2>2. Cardinality(Q) = Cardinality(P) + 1
    BY <1>2, <1>3, <2>1, FS_AddElement
  <2> QED
    BY <1>4, <2>2 DEF Count, P, Q
<1>5. CASE t # x
  <2>1. Q = P
    BY <1>1, <1>5
  <2> QED
    BY <1>5, <2>1 DEF Count
<1> QED
  BY <1>4, <1>5

(* One item less at the front.                                             *)
LEMMA CountTail ==
  ASSUME NEW S, NEW q \in Seq(S), q # <<>>, NEW x
  PROVE  Count(q, x) = IF Head(q) = x THEN Count(Tail(q), x) + 1 ELSE Count(Tail(q), x)
<1> DEFINE P == {i \in 1 .. Len(q) : q[i] = x}
           R == {i \in 1 .. Len(Tail(q)) : Tail(q)[i] = x}
           f == [i \in R |-> i + 1]
<1>1. /\ Tail(q) \in Seq(S) /\ Len(q) \in Nat \ {0}
      /\ Len(Tail(q)) = Len(q) - 1
      /\ \A i \in 1 .. Len(q) - 1 : Tail(q)[i] = q[i + 1]
      /\ Head(q) = q[1]
  BY TailTask
<1>2. IsFiniteSet(P) /\ IsFiniteSet(R)
  BY <1>1, CountNat
<1>3. \A i \in R : i + 1 \in P \ {1}
  BY <1>1
<1>4. \A j \in P \ {1} : j - 1 \in R /\ (j - 1) + 1 = j
  BY <1>1
<1>5. \A i \in R : i \in Nat
  BY <1>1
<1> HIDE DEF P, R
<1>6. f \in Bijection(R, P \ {1})
  <2>1. f \in [R -> P \ {1}]
    BY <1>3
  <2>2. \A i, j \in R : f[i] = f[j] => i = j
    BY <1>5
  <2>3. \A j \in P \ {1} : \E i \in R : f[i] = j
    BY <1>4
  <2> HIDE DEF f
  <2>4. f \in Injection(R, P \ {1})
    BY <2>1, <2>2 DEF Injection, IsInjective
  <2>5. f \in Surjection(R, P \ {1})
    BY <2>1, <2>3 DEF Surjection
  <2> QED
    BY <2>4, <2>5 DEF Bijection
<1>7. Cardinality(P \ {1}) = Cardinality(R)
  BY <1>2, <1>6, FS_Bijection DEF ExistsBijection
<1>8. /\ Cardinality(P) \in Nat
      /\ Cardinality(P \ {1}) = IF 1 \in P THEN Cardinality(P) - 1 ELSE Cardinality(P)
  BY <1>2, FS_RemoveElement, FS_CardinalityType
<1>9. 1 \in P <=> Head(q) = x
  BY <1>1 DEF P
<1>10. Cardinality(P) = IF Head(q) = x THEN Cardinality(R) + 1 ELSE Cardinality(R)
  BY <1>7, <1>8, <1>9
<1>11. Count(q, x) = Cardinality(P) /\ Count(Tail(q), x) = Cardinality(R)
  BY DEF Count, P, R
<1> QED
  BY <1>10, <1>11, Zenon

(* What a step does to the chunks of h on their way: nothing; one is read  *)
(* and queued; or one is taken from the queue, and delivered if h is open. *)
Flow(h) ==
  \/ /\ Delivered(h)' = Delivered(h)
     /\ Count(queue', WriteOf(h)) = Count(queue, WriteOf(h))
     /\ reads'[h] = reads[h]
  \/ /\ run[h] = "read"
     /\ Delivered(h)' = Delivered(h)
     /\ Count(queue', WriteOf(h)) = Count(queue, WriteOf(h)) + 1
     /\ reads'[h] = reads[h] + 1
  \/ /\ queue # <<>> /\ Head(queue) = WriteOf(h)
     /\ Delivered(h)' = IF gconn[h] = "open" THEN Delivered(h) + 1 ELSE Delivered(h)
     /\ Count(queue, WriteOf(h)) = Count(queue', WriteOf(h)) + 1
     /\ reads'[h] = reads[h]

(* Adding a task that writes nothing, or taking one, counts as nothing.    *)
LEMMA QueueQuiet ==
  ASSUME TypeOK, NEW h \in Gens,
         \/ UNCHANGED queue
         \/ \E t \in Tasks : t # WriteOf(h) /\ queue' = Append(queue, t)
         \/ queue # <<>> /\ Head(queue) # WriteOf(h) /\ queue' = Tail(queue)
  PROVE  Count(queue', WriteOf(h)) = Count(queue, WriteOf(h))
<1>0. queue \in Seq(Tasks)
  BY DEF TypeOK
<1>1. ASSUME NEW t \in Tasks, t # WriteOf(h), queue' = Append(queue, t)
      PROVE  Count(queue', WriteOf(h)) = Count(queue, WriteOf(h))
  BY <1>0, <1>1, CountAppend
<1>2. CASE queue # <<>> /\ Head(queue) # WriteOf(h) /\ queue' = Tail(queue)
  BY <1>0, <1>2, CountTail
<1> QED
  BY <1>1, <1>2

(* Writing anything but a chunk delivers none.                             *)
LEMMA StreamQuiet ==
  ASSUME TypeOK, NEW h \in Gens,
         \/ UNCHANGED stream
         \/ \E g \in Gens, x \in Written : /\ x.what # "data"
                                           /\ stream' = [stream EXCEPT ![g] = Append(@, x)]
  PROVE  Delivered(h)' = Delivered(h)
<1>0. stream \in [Gens -> Seq(Written)]
  BY DEF TypeOK, LoopOK
<1>1. ASSUME NEW g \in Gens, NEW x \in Written, x.what # "data",
             stream' = [stream EXCEPT ![g] = Append(@, x)]
      PROVE  Count(stream'[h], Data(h)) = Count(stream[h], Data(h))
  <2>1. CASE h = g
    <3>1. stream[h] \in Seq(Written) /\ stream'[h] = Append(stream[h], x)
      BY <1>0, <1>1, <2>1
    <3>2. x # Data(h)
      BY <1>1 DEF Data
    <3> QED
      BY <3>1, <3>2, CountAppend
  <2>2. CASE h # g
    <3>1. stream'[h] = stream[h]
      BY <1>0, <1>1, <2>2
    <3> QED
      BY <3>1
  <2> QED
    BY <2>1, <2>2
<1>2. Count(stream'[h], Data(h)) = Count(stream[h], Data(h))
  BY <1>1
<1> QED
  BY <1>2 DEF Delivered, Data

(* Every step lets the chunks flow so.                                     *)
LEMMA FlowStep ==
  ASSUME TypeOK, LoopBusy, [Next]_vars, NEW h \in Gens
  PROVE  Flow(h)
<1> USE DEF connVars
<1>0. queue \in Seq(Tasks) /\ stream \in [Gens -> Seq(Written)] /\ reads \in [Gens -> 0 .. MaxReads]
  BY DEF TypeOK, LoopOK
<1>1. ASSUME \/ UNCHANGED queue
             \/ \E t \in Tasks : t # WriteOf(h) /\ queue' = Append(queue, t)
             \/ queue # <<>> /\ Head(queue) # WriteOf(h) /\ queue' = Tail(queue),
             UNCHANGED <<stream, reads>>
      PROVE  Flow(h)
  BY <1>1, QueueQuiet, StreamQuiet DEF Flow
<1>2. ASSUME NEW g \in Gens, NEW x \in Written, x.what # "data",
             stream' = [stream EXCEPT ![g] = Append(@, x)], UNCHANGED <<queue, reads>>
      PROVE  Flow(h)
  BY <1>2, QueueQuiet, StreamQuiet DEF Flow
<1>3. CASE WriteReply
  <2>1. loop.g \in Gens /\ UNCHANGED <<queue, reads>>
        /\ stream' = [stream EXCEPT ![loop.g] = Append(@, Reply(loop.g))]
    BY <1>3 DEF WriteReply, LoopBusy
  <2>2. Reply(loop.g) \in Written /\ Reply(loop.g).what # "data"
    BY <2>1 DEF Reply, Written
  <2> QED
    BY <1>2, <2>1, <2>2
<1>4. ASSUME NEW g \in Gens, ReactMethod(g) \/ ReactPoolFull(g) PROVE Flow(h)
  <2>1. PICK x \in {Method(g), Reply(g)} :
          stream' = [stream EXCEPT ![g] = Append(@, x)] /\ UNCHANGED <<queue, reads>>
    BY <1>4 DEF ReactMethod, ReactPoolFull
  <2>2. x \in Written /\ x.what # "data"
    BY <2>1 DEF Method, Reply, Written
  <2> QED
    BY <1>2, <2>1, <2>2
<1>5. ASSUME NEW g \in Gens, Accept(g) \/ RunCloses(g) PROVE Flow(h)
  <2>1. PICK t \in {[op |-> "open", g |-> g], [op |-> "close", g |-> g]} :
          queue' = Append(queue, t) /\ UNCHANGED <<stream, reads>>
    BY <1>5 DEF Accept, RunCloses, CloseQueued
  <2>2. t \in Tasks /\ t # WriteOf(h)
    BY <2>1 DEF Tasks, WriteOf
  <2> QED
    BY <1>1, <2>1, <2>2
<1>6. CASE StopSignal
  <2>1. queue' = Append(queue, [op |-> "stop", g |-> 0]) /\ UNCHANGED <<stream, reads>>
    BY <1>6 DEF StopSignal
  <2>2. [op |-> "stop", g |-> 0] \in Tasks /\ [op |-> "stop", g |-> 0] # WriteOf(h)
    BY DEF Tasks, WriteOf
  <2> QED
    BY <1>1, <2>1, <2>2
<1>7. ASSUME NEW op \in {"open", "close", "stop"}, NEW g, NextTask(op, g),
             UNCHANGED <<stream, reads>>
      PROVE  Flow(h)
  <2>1. [op |-> op, g |-> g] # WriteOf(h)
    BY DEF WriteOf
  <2> QED
    BY <1>1, <1>7, <2>1 DEF NextTask
<1>8. CASE StopTask
  BY <1>7, <1>8 DEF StopTask
<1>9. ASSUME NEW g \in Gens, OnOpened(g) \/ CloseTask(g) PROVE Flow(h)
  BY <1>7, <1>9 DEF OnOpened, CloseTask
<1>10. ASSUME NEW g \in Gens, RunRead(g) PROVE Flow(h)
  <2>1. /\ run[g] = "read" /\ queue' = Append(queue, WriteOf(g)) /\ UNCHANGED stream
        /\ reads' = [reads EXCEPT ![g] = @ + 1]
    BY <1>10 DEF RunRead, Deliver, WriteOf
  <2>2. WriteOf(g) \in Tasks
    BY DEF Tasks, WriteOf
  <2>3. Delivered(h)' = Delivered(h)
    BY <2>1, StreamQuiet
  <2>4. CASE h = g
    <3>1. Count(queue', WriteOf(h)) = Count(queue, WriteOf(h)) + 1
      BY <1>0, <2>1, <2>2, <2>4, CountAppend
    <3>2. reads'[h] = reads[h] + 1
      BY <1>0, <2>1, <2>4
    <3> QED
      BY <2>1, <2>3, <2>4, <3>1, <3>2 DEF Flow
  <2>5. CASE h # g
    <3>1. WriteOf(g) # WriteOf(h)
      BY <2>5 DEF WriteOf
    <3>2. Count(queue', WriteOf(h)) = Count(queue, WriteOf(h))
      BY <2>1, <2>2, <3>1, QueueQuiet
    <3>3. reads'[h] = reads[h]
      BY <1>0, <2>1, <2>5
    <3> QED
      BY <2>3, <3>2, <3>3 DEF Flow
  <2> QED
    BY <2>4, <2>5
<1>11. ASSUME NEW g \in Gens, WriteTask(g) PROVE Flow(h)
  <2>1. /\ queue # <<>> /\ Head(queue) = WriteOf(g) /\ queue' = Tail(queue) /\ UNCHANGED reads
        /\ stream' = [stream EXCEPT ![g] = IF gconn[g] = "open" THEN Append(@, Data(g)) ELSE @]
    BY <1>11 DEF WriteTask, NextTask, WriteOf
  <2>2. CASE h = g
    <3>1. Count(queue, WriteOf(h)) = Count(queue', WriteOf(h)) + 1
      BY <1>0, <2>1, <2>2, CountTail
    <3>2. Count(stream'[h], Data(h)) =
            IF gconn[h] = "open" THEN Count(stream[h], Data(h)) + 1 ELSE Count(stream[h], Data(h))
      <4>1. CASE gconn[h] = "open"
        <5>1. stream'[h] = Append(stream[h], Data(h))
          BY <1>0, <2>1, <2>2, <4>1
        <5>2. stream[h] \in Seq(Written) /\ Data(h) \in Written
          BY <1>0 DEF Data, Written
        <5> QED
          BY <4>1, <5>1, <5>2, CountAppend
      <4>2. CASE gconn[h] # "open"
        <5>1. stream'[h] = stream[h]
          BY <1>0, <2>1, <2>2, <4>2
        <5> QED
          BY <4>2, <5>1
      <4> QED
        BY <4>1, <4>2
    <3>3. Delivered(h)' = IF gconn[h] = "open" THEN Delivered(h) + 1 ELSE Delivered(h)
      BY <3>2 DEF Delivered, Data
    <3> QED
      BY <2>1, <2>2, <3>1, <3>3 DEF Flow
  <2>3. CASE h # g
    <3>1. WriteOf(g) # WriteOf(h)
      BY <2>3 DEF WriteOf
    <3>2. Count(queue', WriteOf(h)) = Count(queue, WriteOf(h))
      BY <2>1, <3>1, QueueQuiet
    <3>3. stream'[h] = stream[h]
      BY <1>0, <2>1, <2>3
    <3>4. Delivered(h)' = Delivered(h)
      BY <3>3 DEF Delivered, Data
    <3> QED
      BY <2>1, <3>2, <3>4 DEF Flow
  <2> QED
    BY <2>2, <2>3
<1>12. CASE UNCHANGED <<queue, stream, reads>>
  BY <1>1, <1>12
<1> QED
  BY <1>3, <1>4, <1>5, <1>6, <1>8, <1>9, <1>10, <1>11, <1>12
  DEF Next, RunEnd, RunRefused, ReactCalls, Elsewhere, ElsewhereReturns,
      Loop, Task, React, OnClosed, OnStop, ReactShutdown, ReactError, ReactRequest,
      ReactBadReply, ReactData, AppClose, LinkEOF, vars
-----------------------------------------------------------------------------
(* Goroutines of accepted requests.                                        *)

(* What is closed stays closed, what has ended stays so, and who closed a  *)
(* connection does not change.                                             *)
Settled ==
  \A g \in Gens : /\ gconn[g] = "closed" => gconn'[g] = "closed"
                  /\ run[g] = "end" => run'[g] = "end"
                  /\ gconn[g] # "open" => closedBy'[g] = closedBy[g]

(* Closing the descriptor of an open connection.                           *)
LEMMA CloseFdStarted ==
  ASSUME TypeOK, Started, NEW g \in Gens, gconn[g] = "open",
         NEW who \in {"app", "react", "goroutine", "shutdown"}, CloseFd(g, who),
         UNCHANGED <<run, status>>
  PROVE  Started' /\ Settled
<1>1. \A h \in Gens : /\ gconn'[h] = IF h = g THEN "closed" ELSE gconn[h]
                      /\ closedBy'[h] = IF h = g THEN who ELSE closedBy[h]
  BY DEF CloseFd, TypeOK, ConnsOK, LoopOK
<1> QED
  BY <1>1 DEF Started, Settled

(* Every step keeps Started, and settles what it settles.                  *)
LEMMA StartedStep ==
  ASSUME TypeOK, ClientInv, Started, [Next]_vars
  PROVE  Started' /\ Settled
<1> USE DEF connVars
<1>0. CallOpen /\ OwnConn /\ OneOpenTask
  BY DEF ClientInv
<1>1. ASSUME UNCHANGED <<gconn, closedBy, run, status>> PROVE Started' /\ Settled
  BY <1>1 DEF Started, Settled
<1>2. ASSUME NEW g \in Gens,
             \/ ReactShutdown(g) \/ ReactError(g) \/ ReactBadReply(g) \/ ReactPoolFull(g)
             \/ AppClose(g)
      PROVE  Started' /\ Settled
  <2>1. gconn[g] = "open" /\ UNCHANGED <<run, status>>
    BY <1>0, <1>2, ReactsOpen
    DEF ReactShutdown, ReactError, ReactBadReply, ReactPoolFull, AppClose
  <2>2. PICK w \in {"app", "react", "shutdown"} : CloseFd(g, w)
    BY <1>2 DEF ReactShutdown, ReactError, ReactBadReply, ReactPoolFull, AppClose
  <2> QED
    BY <2>1, <2>2, CloseFdStarted
<1>3. CASE StopTask
  <2>1. CASE \E g \in Gens : gconn[g] = "open" /\ CloseFd(g, "shutdown")
    BY <1>3, <2>1, CloseFdStarted DEF StopTask
  <2>2. CASE UNCHANGED <<gconn, closedBy>>
    BY <1>1, <1>3, <2>2 DEF StopTask
  <2> QED
    BY <1>3, <2>1, <2>2 DEF StopTask
<1>4. ASSUME NEW g \in Gens, CloseTask(g) PROVE Started' /\ Settled
  <2>1. CASE gconn[g] = "open" /\ CloseFd(g, "goroutine")
    BY <1>4, <2>1, CloseFdStarted DEF CloseTask
  <2>2. CASE UNCHANGED <<gconn, closedBy>>
    BY <1>1, <1>4, <2>2 DEF CloseTask
  <2> QED
    BY <1>4, <2>1, <2>2 DEF CloseTask
<1>5. ASSUME NEW g \in Gens, Accept(g) PROVE Started' /\ Settled
  <2>1. \A h \in Gens : gconn'[h] = IF h = g THEN "queued" ELSE gconn[h]
    BY <1>5 DEF Accept, TypeOK, ConnsOK
  <2>2. gconn[g] = "none" /\ UNCHANGED <<closedBy, run, status>>
    BY <1>5 DEF Accept, Reusable
  <2> QED
    BY <2>1, <2>2 DEF Started, Settled
<1>6. ASSUME NEW g \in Gens, OnOpened(g) PROVE Started' /\ Settled
  <2>1. queue # <<>> /\ Head(queue) = [op |-> "open", g |-> g]
    BY <1>6 DEF OnOpened, NextTask
  <2>2. Len(queue) \in Nat \ {0} /\ queue[1] = [op |-> "open", g |-> g]
    BY <2>1, TailTask DEF TypeOK
  <2>3. gconn[g] = "queued"
    BY <1>0, <2>2 DEF OneOpenTask
  <2>4. \A h \in Gens : gconn'[h] = IF h = g THEN "open" ELSE gconn[h]
    BY <1>6 DEF OnOpened, TypeOK, ConnsOK
  <2>5. UNCHANGED <<closedBy, run, status>>
    BY <1>6 DEF OnOpened
  <2> QED
    BY <2>3, <2>4, <2>5 DEF Started, Settled
<1>7. ASSUME NEW g \in Gens, ReactMethod(g) \/ ReactRequest(g) PROVE Started' /\ Settled
  <2>1. gconn[g] = "open" /\ conns = g /\ status[g] # "accepted" /\ UNCHANGED <<gconn, closedBy>>
    BY <1>0, <1>7, ReactsOpen DEF ReactMethod, ReactRequest, OwnConn
  <2>2. run[g] = "none"
    BY <2>1 DEF Started
  <2>3. \A h \in Gens : h # g => run'[h] = run[h] /\ status'[h] = status[h]
    BY <1>7, <2>1 DEF ReactMethod, ReactRequest, TypeOK, ConnsOK
  <2>4. run'[g] # "none" => status'[g] = "accepted"
    BY <1>7, <2>1, <2>2 DEF ReactMethod, ReactRequest, TypeOK, ConnsOK
  <2> QED
    BY <2>1, <2>2, <2>3, <2>4 DEF Started, Settled
<1>8. ASSUME NEW g \in Gens, RunCloses(g) PROVE Started' /\ Settled
  <2>1. \A h \in Gens : run'[h] = IF h = g THEN "end" ELSE run[h]
    BY <1>8 DEF RunCloses, TypeOK, ConnsOK
  <2>2. run[g] = "read" /\ UNCHANGED <<gconn, closedBy, status>>
    BY <1>8 DEF RunCloses
  <2> QED
    BY <2>1, <2>2 DEF Started, Settled
<1> QED
  BY <1>1, <1>2, <1>3, <1>4, <1>5, <1>6, <1>7, <1>8
  DEF Next, RunEnd, RunRefused, ReactCalls, Elsewhere, ElsewhereReturns,
      Loop, Task, React, OnClosed, WriteReply, OnStop, StopSignal, WriteTask, ReactData,
      RunRead, LinkEOF, vars

(* A step closes a connection for its goroutine only by the task that the  *)
(* goroutine queued.                                                       *)
LEMMA ClosedByTask ==
  ASSUME TypeOK, [Next]_vars, NEW g \in Gens,
         closedBy[g] # "goroutine", closedBy'[g] = "goroutine"
  PROVE  gconn[g] = "open" /\ queue # <<>> /\ Head(queue) = [op |-> "close", g |-> g]
         /\ UNCHANGED <<stream, reads>>
<1> USE DEF connVars
<1>1. ASSUME NEW h \in Gens, NEW w \in {"app", "react", "shutdown"}, CloseFd(h, w) PROVE FALSE
  BY <1>1 DEF CloseFd, TypeOK, LoopOK
<1>2. ASSUME UNCHANGED closedBy PROVE FALSE
  BY <1>2
<1>3. ASSUME NEW h \in Gens, CloseTask(h)
      PROVE  gconn[g] = "open" /\ queue # <<>> /\ Head(queue) = [op |-> "close", g |-> g]
             /\ UNCHANGED <<stream, reads>>
  <2>1. gconn[h] = "open" /\ CloseFd(h, "goroutine")
    BY <1>2, <1>3 DEF CloseTask
  <2>2. h = g
    BY <2>1 DEF CloseFd, TypeOK, LoopOK
  <2> QED
    BY <1>3, <2>1, <2>2 DEF CloseTask, NextTask
<1>4. ASSUME NEW h \in Gens,
             \/ ReactShutdown(h) \/ ReactError(h) \/ ReactBadReply(h) \/ ReactPoolFull(h)
             \/ AppClose(h)
      PROVE  FALSE
  BY <1>1, <1>4 DEF ReactShutdown, ReactError, ReactBadReply, ReactPoolFull, AppClose
<1>5. ASSUME StopTask PROVE FALSE
  BY <1>1, <1>2, <1>5 DEF StopTask
<1> QED
  BY <1>2, <1>3, <1>4, <1>5
  DEF Next, RunEnd, RunRefused, ReactCalls, Elsewhere, ElsewhereReturns,
      Loop, Task, React, OnClosed, WriteReply, OnStop, StopSignal, WriteTask, OnOpened,
      Accept, ReactMethod, ReactRequest, ReactData, RunRead, RunCloses, LinkEOF, vars

(* Nothing is queued behind the task with which a goroutine ends.          *)
LEMMA CloseLastStep ==
  ASSUME TypeOK, CloseLast, Settled, [Next]_vars
  PROVE  CloseLast'
<1> USE DEF connVars
<1>0. \A i \in 1 .. Len(queue) : queue[i].op = "close" => queue[i].g \in Gens
  <2>1. \A i \in 1 .. Len(queue) : queue[i] \in Tasks
    BY DEF TypeOK
  <2> QED
    BY <2>1 DEF Tasks
<1>1. \A g \in Gens : run[g] = "end" => run'[g] = "end"
  BY DEF Settled
<1>2. \A g \in Gens : closedBy'[g] = "goroutine" => run'[g] = "end"
  <2> SUFFICES ASSUME NEW g \in Gens, closedBy'[g] = "goroutine" PROVE run[g] = "end"
    BY <1>1
  <2>1. CASE closedBy[g] = "goroutine"
    BY <2>1 DEF CloseLast
  <2>2. CASE closedBy[g] # "goroutine"
    <3>1. queue # <<>> /\ Head(queue) = [op |-> "close", g |-> g]
      BY <2>2, ClosedByTask
    <3>2. Len(queue) \in Nat \ {0} /\ queue[1] = [op |-> "close", g |-> g]
      BY <3>1, TailTask DEF TypeOK
    <3> QED
      BY <3>2 DEF CloseLast
  <2> QED
    BY <2>1, <2>2
<1>3. CASE UNCHANGED queue
  BY <1>0, <1>1, <1>2, <1>3 DEF CloseLast, WriteOf
<1>4. CASE queue # <<>> /\ queue' = Tail(queue)
  <2>1. /\ Len(queue) \in Nat /\ Len(queue') = Len(queue) - 1
        /\ \A i \in 1 .. Len(queue) - 1 : queue'[i] = queue[i + 1]
    BY <1>4, TailTask DEF TypeOK
  <2>2. ASSUME NEW i \in 1 .. Len(queue'), queue'[i].op = "close"
        PROVE  /\ run'[queue'[i].g] = "end"
               /\ \A j \in i .. Len(queue') : queue'[j] # WriteOf(queue'[i].g)
    <3>1. i + 1 \in 1 .. Len(queue) /\ queue'[i] = queue[i + 1]
      BY <2>1
    <3>2. \A j \in i .. Len(queue') : j + 1 \in i + 1 .. Len(queue) /\ queue'[j] = queue[j + 1]
      BY <2>1
    <3>3. /\ run[queue[i + 1].g] = "end" /\ queue[i + 1].g \in Gens
          /\ \A j \in i + 1 .. Len(queue) : queue[j] # WriteOf(queue[i + 1].g)
      BY <1>0, <2>2, <3>1 DEF CloseLast
    <3> QED
      BY <1>1, <3>1, <3>2, <3>3
  <2> QED
    BY <1>2, <2>2 DEF CloseLast, WriteOf
<1>5. ASSUME NEW t \in Tasks, queue' = Append(queue, t),
             t.op = "close" => run'[t.g] = "end",
             \A g \in Gens : t = WriteOf(g) => run[g] # "end"
      PROVE  CloseLast'
  <2>1. /\ Len(queue) \in Nat /\ Len(queue') = Len(queue) + 1
        /\ \A i \in 1 .. Len(queue) : queue'[i] = queue[i]
        /\ queue'[Len(queue) + 1] = t
    BY <1>5, AppendTask DEF TypeOK
  <2>2. ASSUME NEW i \in 1 .. Len(queue'), queue'[i].op = "close"
        PROVE  /\ run'[queue'[i].g] = "end"
               /\ \A j \in i .. Len(queue') : queue'[j] # WriteOf(queue'[i].g)
    <3>1. CASE i \in 1 .. Len(queue)
      <4>1. /\ run[queue[i].g] = "end" /\ queue[i].g \in Gens /\ queue'[i] = queue[i]
            /\ \A j \in i .. Len(queue) : queue[j] # WriteOf(queue[i].g)
        BY <1>0, <2>1, <2>2, <3>1 DEF CloseLast
      <4>2. t # WriteOf(queue[i].g)
        BY <1>5, <4>1
      <4>3. \A j \in i .. Len(queue') :
              (j \in i .. Len(queue) /\ queue'[j] = queue[j]) \/ queue'[j] = t
        BY <2>1, <3>1
      <4> QED
        BY <1>1, <4>1, <4>2, <4>3
    <3>2. CASE i = Len(queue) + 1
      <4>1. t.op = "close" /\ run'[t.g] = "end" /\ t # WriteOf(t.g)
        BY <1>5, <2>1, <2>2, <3>2 DEF WriteOf
      <4> QED
        BY <2>1, <3>2, <4>1
    <3> QED
      BY <2>1, <3>1, <3>2
  <2> QED
    BY <1>2, <2>2 DEF CloseLast, WriteOf
<1>6. ASSUME NEW g \in Gens, Accept(g) PROVE CloseLast'
  <2>1. queue' = Append(queue, [op |-> "open", g |-> g])
    BY <1>6 DEF Accept
  <2> QED
    BY <1>5, <2>1 DEF Tasks, WriteOf
<1>7. CASE StopSignal
  <2>1. queue' = Append(queue, [op |-> "stop", g |-> 0])
    BY <1>7 DEF StopSignal
  <2> QED
    BY <1>5, <2>1 DEF Tasks, WriteOf
<1>8. ASSUME NEW g \in Gens, RunRead(g) PROVE CloseLast'
  <2>1. run[g] = "read" /\ queue' = Append(queue, WriteOf(g))
    BY <1>8 DEF RunRead, Deliver, WriteOf
  <2> QED
    BY <1>5, <2>1 DEF Tasks, WriteOf
<1>9. ASSUME NEW g \in Gens, RunCloses(g) PROVE CloseLast'
  <2>1. run'[g] = "end" /\ queue' = Append(queue, [op |-> "close", g |-> g])
    BY <1>9 DEF RunCloses, CloseQueued, TypeOK, ConnsOK
  <2> QED
    BY <1>5, <2>1 DEF Tasks, WriteOf
<1>10. CASE StopTask \/ \E g \in Gens : Task(g)
  BY <1>4, <1>10 DEF StopTask, Task, OnOpened, WriteTask, CloseTask, NextTask
<1> QED
  BY <1>3, <1>6, <1>7, <1>8, <1>9, <1>10
  DEF Next, RunEnd, RunRefused, ReactCalls, Elsewhere, ElsewhereReturns,
      Loop, React, OnClosed, WriteReply, OnStop, ReactShutdown, ReactError, ReactMethod,
      ReactRequest, ReactBadReply, ReactPoolFull, ReactData, AppClose, LinkEOF, vars
-----------------------------------------------------------------------------
(* What a goroutine has read is delivered before its connection is closed. *)

(* Counts are numbers.                                                     *)
LEMMA Numbers ==
  ASSUME TypeOK, NEW g \in Gens
  PROVE  Delivered(g) \in Nat /\ Count(queue, WriteOf(g)) \in Nat /\ reads[g] \in Nat
<1>1. queue \in Seq(Tasks) /\ stream[g] \in Seq(Written) /\ reads[g] \in 0 .. MaxReads
  BY DEF TypeOK, LoopOK
<1>2. Count(queue, WriteOf(g)) \in Nat /\ Count(stream[g], Data(g)) \in Nat
  BY <1>1, CountNat
<1>3. reads[g] \in Nat
  BY <1>1
<1> QED
  BY <1>2, <1>3 DEF Delivered

(* What is read is delivered or queued.                                    *)
LEMMA CountedStep ==
  ASSUME TypeOK, TypeOK', ClientInv, WritesRun, Started, Settled, Counted, [Next]_vars
  PROVE  Counted'
<1> SUFFICES ASSUME NEW g \in Gens, gconn'[g] # "closed"
             PROVE  Delivered(g)' + Count(queue', WriteOf(g)) = reads'[g]
  BY DEF Counted, WriteOf
<1>1. gconn[g] # "closed" /\ Delivered(g) + Count(queue, WriteOf(g)) = reads[g]
  BY DEF Settled, Counted
<1>2. Flow(g)
  BY FlowStep DEF ClientInv
<1>3. queue # <<>> /\ Head(queue) = WriteOf(g) => gconn[g] = "open"
  <2> SUFFICES ASSUME queue # <<>>, Head(queue) = WriteOf(g) PROVE gconn[g] = "open"
    OBVIOUS
  <2>1. Len(queue) \in Nat \ {0} /\ queue[1] = WriteOf(g)
    BY TailTask DEF TypeOK
  <2>2. run[g] # "none"
    BY <2>1 DEF WritesRun, WriteOf
  <2> QED
    BY <1>1, <2>2 DEF Started
<1>4. Delivered(g) \in Nat /\ Count(queue, WriteOf(g)) \in Nat /\ reads[g] \in Nat
  BY Numbers
<1>5. Count(queue', WriteOf(g)) \in Nat
  <2>1. queue' \in Seq(Tasks)
    BY DEF TypeOK
  <2> QED
    BY <2>1, CountNat
<1> HIDE DEF Delivered
<1> QED
  BY <1>1, <1>2, <1>3, <1>4, <1>5 DEF Flow

(* Nothing is cut off.                                                     *)
LEMMA CutStep ==
  ASSUME TypeOK, ClientInv, Started, CloseLast, Counted, NothingCutOff, Settled, [Next]_vars
  PROVE  NothingCutOff'
<1> SUFFICES ASSUME NEW g \in Gens, closedBy'[g] = "goroutine"
             PROVE  Delivered(g)' = reads'[g]
  BY DEF NothingCutOff
<1>1. Flow(g)
  BY FlowStep DEF ClientInv
<1>2. CASE closedBy[g] = "goroutine"
  <2>1. gconn[g] = "closed" /\ run[g] = "end" /\ Delivered(g) = reads[g]
    BY <1>2 DEF Started, CloseLast, NothingCutOff
  <2> QED
    BY <1>1, <2>1 DEF Flow
<1>3. CASE closedBy[g] # "goroutine"
  <2>1. /\ gconn[g] = "open" /\ queue # <<>> /\ Head(queue) = [op |-> "close", g |-> g]
        /\ UNCHANGED <<stream, reads>>
    BY <1>3, ClosedByTask
  <2>2. Len(queue) \in Nat \ {0} /\ queue[1] = [op |-> "close", g |-> g] /\ queue \in Seq(Tasks)
    BY <2>1, TailTask DEF TypeOK
  <2>3. \A j \in 1 .. Len(queue) : queue[j] # WriteOf(g)
    BY <2>2 DEF CloseLast
  <2>4. Count(queue, WriteOf(g)) = 0
    BY <2>2, <2>3, CountNat
  <2>5. Delivered(g) + Count(queue, WriteOf(g)) = reads[g]
    BY <2>1 DEF Counted
  <2>6. Delivered(g) = reads[g]
    BY <2>4, <2>5, Numbers
  <2>7. Delivered(g)' = Delivered(g)
    BY <2>1, StreamQuiet
  <2> QED
    BY <2>1, <2>6, <2>7
<1> QED
  BY <1>2, <1>3

(* The inductive invariant of what is read and delivered.                  *)
CutInv == Started /\ CloseLast /\ Counted /\ NothingCutOff

(* The invariant of the chunks between a goroutine and its application.    *)
THEOREM ClientDeliveries == Spec => []CutInv
<1>1. Init => CutInv
  <2> SUFFICES ASSUME Init PROVE CutInv
    OBVIOUS
  <2>1. Started /\ CloseLast /\ NothingCutOff
    BY DEF Init, Started, CloseLast, NothingCutOff
  <2>2. Counted
    <3> SUFFICES ASSUME NEW g \in Gens PROVE Delivered(g) + Count(queue, WriteOf(g)) = reads[g]
      BY DEF Counted
    <3>1. queue = <<>> /\ stream[g] = <<>> /\ reads[g] = 0
      BY DEF Init
    <3>2. \A x : Count(<<>>, x) = 0
      <4> SUFFICES ASSUME NEW x PROVE Count(<<>>, x) = 0
        OBVIOUS
      <4>1. <<>> \in Seq({}) /\ \A i \in 1 .. Len(<<>>) : <<>>[i] # x
        OBVIOUS
      <4> QED
        BY <4>1, CountNat
    <3> QED
      BY <3>1, <3>2 DEF Delivered
  <2> QED
    BY <2>1, <2>2 DEF CutInv
<1>2. TypeOK /\ TypeOK' /\ ClientInv /\ StreamInv /\ CutInv /\ [Next]_vars => CutInv'
  <2> SUFFICES ASSUME TypeOK, TypeOK', ClientInv, StreamInv, CutInv, [Next]_vars PROVE CutInv'
    OBVIOUS
  <2>1. Started /\ CloseLast /\ Counted /\ NothingCutOff /\ WritesRun
    BY DEF CutInv, StreamInv
  <2>2. Started' /\ Settled
    BY <2>1, StartedStep
  <2>3. CloseLast'
    BY <2>1, <2>2, CloseLastStep
  <2>4. Counted'
    BY <2>1, <2>2, CountedStep
  <2>5. NothingCutOff'
    BY <2>1, <2>2, CutStep
  <2> QED
    BY <2>2, <2>3, <2>4, <2>5 DEF CutInv
<1> QED
  BY <1>1, <1>2, ClientStreams, ClientInvariant, ClientTypes, PTL DEF Spec

(* A connection that its goroutine closes has been handed every chunk that *)
(* gnet took from the goroutine: NothingCutOff.                            *)
THEOREM ClientNothingCutOff == Spec => []NothingCutOff
<1>1. CutInv => NothingCutOff
  BY DEF CutInv
<1> QED
  BY <1>1, ClientDeliveries, PTL

(* No step loses a chunk of an open connection, repeats one or takes one   *)
(* from another connection (Flow), reopens a connection, restarts a        *)
(* goroutine or changes who closed a connection (Settled).                 *)
THEOREM ClientSteps == Spec => [][Settled /\ \A g \in Gens : Flow(g)]_vars
<1>1. TypeOK /\ ClientInv /\ CutInv /\ [Next]_vars => Settled /\ \A g \in Gens : Flow(g)
  <2> SUFFICES ASSUME TypeOK, ClientInv, CutInv, [Next]_vars
               PROVE  Settled /\ \A g \in Gens : Flow(g)
    OBVIOUS
  <2>1. Started /\ LoopBusy
    BY DEF CutInv, ClientInv
  <2>2. Settled
    BY <2>1, StartedStep
  <2>3. \A g \in Gens : Flow(g)
    BY <2>1, FlowStep
  <2> QED
    BY <2>2, <2>3
<1> QED
  BY <1>1, ClientDeliveries, ClientInvariant, ClientTypes, PTL DEF Spec
-----------------------------------------------------------------------------
(* Every end arrives: what is safety in EOFPropagates and GoroutineEnds.   *)

(* A goroutine has been given a link.                                      *)
Linked == \A g \in Gens : run[g] # "none" => link[g] # "nil"

CloseOf(g) == [op |-> "close", g |-> g]

(* A goroutine that has ended while its connection is open has the task    *)
(* that closes it in the queue.                                            *)
CloseComes ==
  \A g \in Gens : run[g] = "end" /\ gconn[g] = "open"
    => \E i \in 1 .. Len(queue) : queue[i] = CloseOf(g)

(* The end of a link is on its way to the application as soon as the       *)
(* goroutine has seen it; and the goroutine of a connection that is closed *)
(* and deleted has nothing left to wait for: its next read fails.          *)
EndsArrive ==
  /\ CloseComes
  /\ \A g \in Gens : gconn[g] = "closed" /\ run[g] = "read" /\ loop # [at |-> "onClosed", g |-> g]
       => link[g] = "closed"

(* A link is never taken away from a goroutine.                            *)
LEMMA LinkedStep == TypeOK /\ CallOpen /\ OwnConn /\ Linked /\ [Next]_vars => Linked'
<1> SUFFICES ASSUME TypeOK, CallOpen, OwnConn, Linked, [Next]_vars PROVE Linked'
  OBVIOUS
<1> USE DEF connVars
<1>1. ASSUME UNCHANGED run, \A g \in Gens : link[g] # "nil" => link'[g] # "nil" PROVE Linked'
  BY <1>1 DEF Linked
<1>2. CASE OnClosed
  <2>1. \A g \in Gens : link[g] # "nil" => link'[g] # "nil"
    BY <1>2 DEF OnClosed, ClosedLink, Hangup, TypeOK, ConnsOK
  <2> QED
    BY <1>1, <1>2, <2>1 DEF OnClosed
<1>3. ASSUME NEW g \in Gens, ReactBadReply(g) \/ ReactPoolFull(g) \/ LinkEOF(g) PROVE Linked'
  <2>1. \A h \in Gens : link[h] # "nil" => link'[h] # "nil"
    BY <1>3 DEF ReactBadReply, ReactPoolFull, LinkEOF, Dialled, TypeOK, ConnsOK
  <2> QED
    BY <1>1, <1>3, <2>1 DEF ReactBadReply, ReactPoolFull, LinkEOF
<1>4. ASSUME NEW g \in Gens, ReactRequest(g) PROVE Linked'
  <2>1. conns = g
    BY <1>4, ReactsOpen DEF ReactRequest, OwnConn
  <2>2. \A h \in Gens : link'[h] = IF h = g THEN "open" ELSE link[h]
    BY <1>4, <2>1 DEF ReactRequest, Dialled, TypeOK, ConnsOK
  <2>3. \A h \in Gens : run'[h] = IF h = g THEN "read" ELSE run[h]
    BY <1>4, <2>1 DEF ReactRequest, TypeOK, ConnsOK
  <2> QED
    BY <2>2, <2>3 DEF Linked
<1>5. ASSUME NEW g \in Gens, RunCloses(g) PROVE Linked'
  <2>1. \A h \in Gens : link[h] # "nil" => link'[h] # "nil"
    BY <1>5 DEF RunCloses, Hangup, TypeOK, ConnsOK
  <2>2. run[g] = "read" /\ \A h \in Gens : run'[h] = IF h = g THEN "end" ELSE run[h]
    BY <1>5 DEF RunCloses, TypeOK, ConnsOK
  <2> QED
    BY <2>1, <2>2 DEF Linked
<1>6. CASE UNCHANGED <<run, link>>
  BY <1>6 DEF Linked
<1> QED
  BY <1>2, <1>3, <1>4, <1>5, <1>6
  DEF Next, RunEnd, RunRefused, ReactCalls, Elsewhere, ElsewhereReturns,
      Loop, Task, React, WriteReply, StopTask, OnOpened, WriteTask, CloseTask, OnStop,
      StopSignal, Accept, ReactShutdown, ReactError, ReactMethod, ReactData, AppClose, RunRead,
      vars

(* The task that closes an open connection stays queued until it runs.     *)
LEMMA CloseComesStep ==
  ASSUME TypeOK, ClientInv, Started, Settled, CloseComes, [Next]_vars
  PROVE  CloseComes'
<1> USE DEF connVars
<1> SUFFICES ASSUME NEW g \in Gens, run'[g] = "end", gconn'[g] = "open"
             PROVE  \E i \in 1 .. Len(queue') : queue'[i] = CloseOf(g)
  BY DEF CloseComes, CloseOf
<1>0. queue \in Seq(Tasks)
  BY DEF TypeOK
<1>1. ASSUME NEW t \in Tasks, queue' = Append(queue, t),
             t = CloseOf(g) \/ \E i \in 1 .. Len(queue) : queue[i] = CloseOf(g)
      PROVE  \E i \in 1 .. Len(queue') : queue'[i] = CloseOf(g)
  <2>1. /\ Len(queue) \in Nat /\ Len(queue') = Len(queue) + 1
        /\ \A i \in 1 .. Len(queue) : queue'[i] = queue[i]
        /\ queue'[Len(queue) + 1] = t
    BY <1>0, <1>1, AppendTask
  <2>2. CASE t = CloseOf(g)
    BY <2>1, <2>2
  <2>3. ASSUME NEW i \in 1 .. Len(queue), queue[i] = CloseOf(g)
        PROVE  i \in 1 .. Len(queue') /\ queue'[i] = CloseOf(g)
    BY <2>1, <2>3
  <2> QED
    BY <1>1, <2>2, <2>3
<1>2. CASE run[g] # "end"
  <2>1. RunCloses(g)
    <3>1. \A h \in Gens : RunCloses(h) => h = g
      BY <1>2 DEF RunCloses, TypeOK, ConnsOK
    <3>2. \A h \in Gens : ~ ReactRequest(h)
      BY <1>2 DEF ReactRequest, TypeOK, ConnsOK
    <3>3. ~ UNCHANGED run
      BY <1>2
    <3> QED
      BY <3>1, <3>2, <3>3
      DEF Next, RunEnd, RunRefused, ReactCalls, Elsewhere, ElsewhereReturns,
          Loop, Task, React, OnClosed, WriteReply, StopTask, OnOpened, WriteTask, CloseTask,
          OnStop, StopSignal, Accept, ReactShutdown, ReactError, ReactMethod, ReactBadReply,
          ReactPoolFull, ReactData, AppClose, RunRead, LinkEOF, vars
  <2>2. queue' = Append(queue, CloseOf(g)) /\ CloseOf(g) \in Tasks
    BY <2>1 DEF RunCloses, CloseQueued, CloseOf, Tasks
  <2> QED
    BY <1>1, <2>2
<1>3. CASE run[g] = "end"
  <2>1. gconn[g] = "open"
    BY <1>3 DEF Started, Settled
  <2>2. PICK k \in 1 .. Len(queue) : queue[k] = CloseOf(g)
    BY <1>3, <2>1 DEF CloseComes
  <2>3. CASE UNCHANGED queue
    BY <2>2, <2>3
  <2>4. CASE \E t \in Tasks : queue' = Append(queue, t)
    BY <1>1, <2>2, <2>4
  <2>5. ASSUME queue # <<>>, Head(queue) # CloseOf(g), queue' = Tail(queue)
        PROVE  \E i \in 1 .. Len(queue') : queue'[i] = CloseOf(g)
    <3>1. /\ Len(queue) \in Nat /\ Len(queue') = Len(queue) - 1
          /\ \A i \in 1 .. Len(queue) - 1 : queue'[i] = queue[i + 1]
          /\ Head(queue) = queue[1]
      BY <1>0, <2>5, TailTask
    <3>2. k # 1
      BY <2>2, <2>5, <3>1
    <3>3. k - 1 \in 1 .. Len(queue) - 1 /\ (k - 1) + 1 = k
      BY <2>2, <3>1, <3>2
    <3> QED
      BY <2>2, <3>1, <3>3
  <2>6. ASSUME NEW h \in Gens, CloseTask(h)
        PROVE  queue # <<>> /\ Head(queue) # CloseOf(g) /\ queue' = Tail(queue)
    <3>1. NextTask("close", h) /\ (gconn[h] = "open" => CloseFd(h, "goroutine"))
      BY <2>6 DEF CloseTask
    <3>2. h # g
      BY <2>1, <3>1 DEF CloseFd, TypeOK, ConnsOK
    <3> QED
      BY <3>1, <3>2 DEF NextTask, CloseOf
  <2>7. ASSUME StopTask \/ \E h \in Gens : OnOpened(h) \/ WriteTask(h)
        PROVE  queue # <<>> /\ Head(queue) # CloseOf(g) /\ queue' = Tail(queue)
    BY <2>7 DEF StopTask, OnOpened, WriteTask, NextTask, CloseOf
  <2>8. ASSUME StopSignal \/ \E h \in Gens : Accept(h) \/ RunRead(h) \/ RunCloses(h)
        PROVE  \E t \in Tasks : queue' = Append(queue, t)
    BY <2>8 DEF StopSignal, Accept, RunRead, Deliver, RunCloses, CloseQueued, Tasks
  <2> QED
    BY <2>3, <2>4, <2>5, <2>6, <2>7, <2>8
    DEF Next, RunEnd, RunRefused, ReactCalls, Elsewhere, ElsewhereReturns,
        Loop, Task, React, OnClosed, WriteReply, OnStop, ReactShutdown, ReactError,
        ReactMethod, ReactRequest, ReactBadReply, ReactPoolFull, ReactData, AppClose, LinkEOF,
        vars
<1> QED
  BY <1>2, <1>3

(* Neither an application nor a goroutine is left behind: EndsArrive.      *)
THEOREM ClientEndsArrive == Spec => []EndsArrive
<1>1. Init => Linked /\ CloseComes
  BY DEF Init, Linked, CloseComes
<1>2. TypeOK /\ ClientInv /\ CutInv /\ Linked /\ CloseComes /\ [Next]_vars => Linked' /\ CloseComes'
  BY LinkedStep, StartedStep, CloseComesStep DEF ClientInv, CutInv
<1>3. TypeOK /\ NoLinkLeak /\ Linked /\ CloseComes => EndsArrive
  BY DEF TypeOK, ConnsOK, NoLinkLeak, Linked, EndsArrive
<1> QED
  BY <1>1, <1>2, <1>3, ClientDeliveries, ClientInvariant, ClientTypes, ClientNoLinkLeak, PTL
  DEF Spec
=============================================================================
