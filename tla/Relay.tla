------------------------------- MODULE Relay --------------------------------
(***************************************************************************)
(* The two other front ends of the client: the transparent proxy           *)
(* (RedirServer.Run, pkg/core/redir_linux.go) and the CONNECT method of    *)
(* the HTTP proxy (hijackHandler.Handle, pkg/core/http_server.go).  Both   *)
(* take a connection of an application (left), dial its destination        *)
(* through the client's own SOCKS5 port (s5) and copy in both directions.  *)
(*                                                                         *)
(* The client at the far end of s5 holds one goroutine of the pool for it; *)
(* a redirected connection holds two more, applications that speak SOCKS5  *)
(* themselves hold others, and the pool may refuse any of them.  The       *)
(* goroutines of CONNECT are not the pool's.  When the client closes its   *)
(* end is what Client is about; here it may at any time.                   *)
(*                                                                         *)
(* A write may block as long as its reader takes nothing.  Calling Fd on a *)
(* copy of left (realServerAddress) makes left a blocking descriptor:      *)
(* Close waits for the goroutines that read or write it, and need not wake *)
(* them.  Until then the application is not told.                          *)
(***************************************************************************)
EXTENDS Naturals, FiniteSets

CONSTANTS
  Conns,      \* connections of applications
  Redir,      \* those that were redirected; the others are CONNECT tunnels
  PoolSize,   \* goroutines in the client's pool
  NoConn,     \* "the accepting loop waits in Accept"
  Stopped     \* "the accepting loop has returned"

ASSUME RelayAssumption ==
  Redir \subseteq Conns /\ PoolSize \in Nat /\ NoConn # Stopped /\ {NoConn, Stopped} \cap Conns = {}

VARIABLES
  stage,      \* of each connection: "new", "dial", "up", "down", "relay", "over"
  loop,       \* the connection that RedirServer.Run is busy with
  up, down,   \* the copying goroutines: "none", "read", "write", "closeS5",
              \* "closeLeft", "wait" (inside the Close of left), "end"
  cli,        \* the client's goroutine for s5: "none", "copy", "end"
  left, s5,   \* our ends: "none", "open", "closing" (Close waits), "closed"
  app,        \* the application's end of left
  far,        \* the client's end of s5
  others      \* goroutines that the pool runs for connections to the SOCKS5 port

conns == <<stage, loop, up, down, cli, left, s5, app, far>>
vars == <<stage, loop, up, down, cli, left, s5, app, far, others>>

None == [c \in Conns |-> "none"]

Init ==
  /\ stage = [c \in Conns |-> "new"]
  /\ loop = NoConn
  /\ up = None /\ down = None /\ cli = None
  /\ left = None /\ s5 = None /\ app = None /\ far = None
  /\ others = 0

(* ants refuses a task when all its goroutines are busy.                   *)
Busy(g, S) == Cardinality({c \in S : g[c] \notin {"none", "end"}})
Taken == others + Busy(cli, Conns) + Busy(up, Redir) + Busy(down, Redir)

PoolFull == Taken >= PoolSize
-----------------------------------------------------------------------------
(* From a connection to its relay.                                         *)

(* Accept fails, or Listen did: Run returns, and is not started again.     *)
RunReturns ==
  /\ loop = NoConn
  /\ loop' = Stopped
  /\ UNCHANGED <<stage, up, down, cli, left, s5, app, far, others>>

Arrive(c) ==
  /\ stage[c] = "new"
  /\ IF c \in Redir THEN loop = NoConn /\ loop' = c ELSE UNCHANGED loop
  /\ stage' = [stage EXCEPT ![c] = "dial"]
  /\ left' = [left EXCEPT ![c] = "open"]
  /\ app' = [app EXCEPT ![c] = "open"]
  /\ UNCHANGED <<up, down, cli, s5, far, others>>

(* RedirServer.Run goes on to the next connection.                         *)
Continue(c) == loop' = IF loop = c THEN NoConn ELSE loop

(* No original address, or the dial fails: a redirected connection is      *)
(* dropped as it is, a hijacked one closed by fasthttp.                    *)
DialFails(c) ==
  /\ stage[c] = "dial"
  /\ stage' = [stage EXCEPT ![c] = "over"]
  /\ left' = [left EXCEPT ![c] = IF c \in Redir THEN "open" ELSE "closed"]
  /\ Continue(c)
  /\ UNCHANGED <<up, down, cli, s5, app, far, others>>

(* dialer.Dial returns the reply of success, which the client also sends   *)
(* when the pool refuses its goroutine and it closes.                      *)
Dial(c) ==
  /\ stage[c] = "dial"
  /\ s5' = [s5 EXCEPT ![c] = "open"]
  /\ cli' = [cli EXCEPT ![c] = IF PoolFull THEN "none" ELSE "copy"]
  /\ far' = [far EXCEPT ![c] = IF PoolFull THEN "closed" ELSE "open"]
  /\ IF c \in Redir
     THEN stage' = [stage EXCEPT ![c] = "up"] /\ UNCHANGED <<up, down>>
     ELSE /\ stage' = [stage EXCEPT ![c] = "relay"]
          /\ up' = [up EXCEPT ![c] = "read"]
          /\ down' = [down EXCEPT ![c] = "read"]
  /\ UNCHANGED <<loop, left, app, others>>

(* Fault: Submit waits for a free goroutine.                               *)
SubmitUpWaits(c) ==
  /\ stage[c] = "up"
  /\ ~PoolFull
  /\ up' = [up EXCEPT ![c] = "read"]
  /\ stage' = [stage EXCEPT ![c] = "down"]
  /\ UNCHANGED <<loop, down, cli, left, s5, app, far, others>>

(* The first Submit; if it is refused both connections are dropped.        *)
SubmitUp(c) ==
  /\ stage[c] = "up"
  /\ IF PoolFull
     THEN stage' = [stage EXCEPT ![c] = "over"] /\ Continue(c) /\ UNCHANGED up
     ELSE /\ stage' = [stage EXCEPT ![c] = "down"]
          /\ up' = [up EXCEPT ![c] = "read"]
          /\ UNCHANGED loop
  /\ UNCHANGED <<down, cli, left, s5, app, far, others>>

(* The second; if it is refused half of a relay remains.                   *)
SubmitDown(c) ==
  /\ stage[c] = "down"
  /\ down' = [down EXCEPT ![c] = IF PoolFull THEN "none" ELSE "read"]
  /\ stage' = [stage EXCEPT ![c] = "relay"]
  /\ Continue(c)
  /\ UNCHANGED <<up, cli, left, s5, app, far, others>>
-----------------------------------------------------------------------------
(* The two io.Copy, each at its read or at its write, and what follows.    *)

copyRest == <<stage, loop, cli, left, s5, app, far, others>>

UpTo(c, to) == up' = [up EXCEPT ![c] = to] /\ UNCHANGED down
DownTo(c, to) == down' = [down EXCEPT ![c] = to] /\ UNCHANGED up

(* Fault: the goroutines of a redirected connection return without closing.*)
AfterCopyReturn(c) == "end"

(* After its io.Copy a goroutine of a redirected connection closes both.   *)
AfterCopy(c) == IF c \in Redir THEN "closeS5" ELSE "end"

(* Fault: the direction from the application also ends when it is idle.    *)
LeftEndedOrIdle(c) == left[c] # "none"

(* Reading left finds its end, writing it an error.                        *)
LeftEnded(c) == app[c] = "closed"

(* Fault: the end of s5 is missed.                                         *)
S5EndedMissed(c) == s5[c] = "closed"

(* Reading s5 fails or finds its end, writing it an error.                 *)
S5Ended(c) == far[c] = "closed" \/ s5[c] = "closed"

(* io.Copy(s5conn, leftConn): data to read, perhaps still after the        *)
(* application has closed; or its end; or left was closed before the read. *)
UpRead(c) == up[c] = "read" /\ UpTo(c, "write") /\ UNCHANGED copyRest

UpEnds(c) ==
  up[c] = "read" /\ LeftEnded(c) /\ UpTo(c, AfterCopy(c)) /\ UNCHANGED copyRest

UpReadFails(c) ==
  /\ up[c] = "read" /\ ~LeftEnded(c) /\ left[c] # "open"
  /\ UpTo(c, AfterCopy(c)) /\ UNCHANGED copyRest

(* Its write returns, perhaps well though the client has gone.             *)
UpWrites(c) ==
  up[c] = "write" /\ s5[c] = "open" /\ UpTo(c, "read") /\ UNCHANGED copyRest

UpWriteFails(c) ==
  up[c] = "write" /\ S5Ended(c) /\ UpTo(c, AfterCopy(c)) /\ UNCHANGED copyRest

(* io.Copy(leftConn, s5conn)                                               *)
DownRead(c) ==
  down[c] = "read" /\ s5[c] = "open" /\ DownTo(c, "write") /\ UNCHANGED copyRest

DownEnds(c) ==
  down[c] = "read" /\ S5Ended(c) /\ DownTo(c, AfterCopy(c)) /\ UNCHANGED copyRest

DownWrites(c) == down[c] = "write" /\ DownTo(c, "read") /\ UNCHANGED copyRest

DownWriteFails(c) ==
  /\ down[c] = "write" /\ (LeftEnded(c) \/ left[c] # "open")
  /\ DownTo(c, AfterCopy(c)) /\ UNCHANGED copyRest

(* One of the two goes from one statement to another.                      *)
Goes(c, from, to) ==
  \/ up[c] = from /\ UpTo(c, to)
  \/ down[c] = from /\ DownTo(c, to)

(* s5conn.Close()                                                          *)
CloseS5(c) ==
  /\ Goes(c, "closeS5", "closeLeft")
  /\ s5' = [s5 EXCEPT ![c] = "closed"]
  /\ UNCHANGED <<stage, loop, cli, left, app, far, others>>

(* leftConn.Close(), which only returns an error the second time ...       *)
CloseLeft(c) ==
  /\ IF left[c] = "open"
     THEN Goes(c, "closeLeft", "wait") /\ left' = [left EXCEPT ![c] = "closing"]
     ELSE Goes(c, "closeLeft", "end") /\ UNCHANGED left
  /\ UNCHANGED <<stage, loop, cli, s5, app, far, others>>

(* ... and the first time waits for those who use the descriptor.          *)
CloseReturns(c) ==
  /\ up[c] # "read" /\ down[c] # "write"
  /\ Goes(c, "wait", "end")
  /\ left' = [left EXCEPT ![c] = "closed"]
  /\ UNCHANGED <<stage, loop, cli, s5, app, far, others>>

(* wg.Wait() returns, Handle too, and fasthttp closes the connection.      *)
HandleReturns(c) ==
  /\ c \notin Redir
  /\ stage[c] = "relay" /\ up[c] = "end" /\ down[c] = "end"
  /\ stage' = [stage EXCEPT ![c] = "over"]
  /\ left' = [left EXCEPT ![c] = "closed"]
  /\ UNCHANGED <<loop, up, down, cli, s5, app, far, others>>
-----------------------------------------------------------------------------
(* What is outside: the client, the application, and the Go runtime.       *)

ClientEnds(c) ==
  /\ cli[c] = "copy"
  /\ cli' = [cli EXCEPT ![c] = "end"]
  /\ far' = [far EXCEPT ![c] = "closed"]
  /\ UNCHANGED <<stage, loop, up, down, left, s5, app, others>>

AppCloses(c) ==
  /\ app[c] = "open"
  /\ app' = [app EXCEPT ![c] = "closed"]
  /\ UNCHANGED <<stage, loop, up, down, cli, left, s5, far, others>>

(* The pool takes up, and has done with, a connection to the SOCKS5 port.  *)
OthersBegin == ~PoolFull /\ others' = others + 1 /\ UNCHANGED conns
OthersEnd == others > 0 /\ others' = others - 1 /\ UNCHANGED conns

(* The finalizer of a connection that nothing refers to any more.          *)
Collect(c) ==
  /\ stage[c] = "over"
  /\ {up[c], down[c]} \subseteq {"none", "end"}
  /\ "open" \in {left[c], s5[c]}
  /\ left' = [left EXCEPT ![c] = "closed"]
  /\ s5' = [s5 EXCEPT ![c] = IF @ = "none" THEN "none" ELSE "closed"]
  /\ UNCHANGED <<stage, loop, up, down, cli, app, far, others>>
-----------------------------------------------------------------------------
UpCopies(c) == UpRead(c) \/ UpEnds(c) \/ UpReadFails(c) \/ UpWrites(c) \/ UpWriteFails(c)
DownCopies(c) == DownRead(c) \/ DownEnds(c) \/ DownWrites(c) \/ DownWriteFails(c)
Closes(c) == CloseS5(c) \/ CloseLeft(c) \/ CloseReturns(c)

StepOf(c) ==
  \/ Arrive(c) \/ Dial(c) \/ DialFails(c) \/ SubmitUp(c) \/ SubmitDown(c)
  \/ UpCopies(c) \/ DownCopies(c) \/ Closes(c) \/ HandleReturns(c)
  \/ ClientEnds(c) \/ AppCloses(c) \/ Collect(c)

Next == RunReturns \/ OthersBegin \/ OthersEnd \/ \E c \in Conns : StepOf(c)

Spec == Init /\ [][Next]_vars

(* Goroutines run, and the collector runs now and then.  Reads that meet   *)
(* the end of what was sent find it after finitely much data (SF); writes  *)
(* to an end that is closed return.  Dials need not return, nor writes to  *)
(* an end that is open, and nobody has to send data or to close.           *)
Fairness ==
  \A c \in Conns :
    /\ WF_vars(SubmitUp(c) \/ SubmitDown(c))
    /\ SF_vars(UpEnds(c)) /\ SF_vars(DownEnds(c))
    /\ WF_vars(S5Ended(c) /\ (UpWrites(c) \/ UpWriteFails(c)))
    /\ WF_vars(LeftEnded(c) /\ (DownWrites(c) \/ DownWriteFails(c)))
    /\ WF_vars(Closes(c)) /\ WF_vars(HandleReturns(c)) /\ WF_vars(Collect(c))

FairSpec == Spec /\ Fairness
-----------------------------------------------------------------------------
(* Properties.                                                             *)

Ends == {"none", "open", "closing", "closed"}
Copies == {"none", "read", "write", "closeS5", "closeLeft", "wait", "end"}

TypeOK ==
  /\ stage \in [Conns -> {"new", "dial", "up", "down", "relay", "over"}]
  /\ loop \in Redir \cup {NoConn, Stopped}
  /\ up \in [Conns -> Copies] /\ down \in [Conns -> Copies]
  /\ cli \in [Conns -> {"none", "copy", "end"}]
  /\ left \in [Conns -> Ends] /\ s5 \in [Conns -> Ends]
  /\ app \in [Conns -> Ends] /\ far \in [Conns -> Ends]
  /\ others \in Nat

HungUp == {"closing", "closed"}

(* A relay hangs up on an application that is still there only because the *)
(* far end has gone: no copy ends the other for any other reason.          *)
HangsUpForCause ==
  \A c \in Conns :
    up[c] # "none" /\ left[c] \in HungUp /\ app[c] = "open" => far[c] = "closed"

NothingHeld(c) == {up[c], down[c]} \subseteq {"none", "end"}

(* A redirected connection, with both directions, one, or none, gives its  *)
(* goroutines back and is closed once the application closes, unless the   *)
(* copy to the destination hangs in a Write: then the end of the           *)
(* application is not seen, for there is no deadline.                      *)
RedirReleases ==
  \A c \in Redir :
    []<>(up[c] # "write") =>
      ((app[c] = "closed" /\ stage[c] \in {"relay", "over"})
         ~> (NothingHeld(c) /\ left[c] = "closed"))

(* A CONNECT tunnel ends when the application and the client have closed,  *)
(* although no direction closes anything for the other.                    *)
ConnectEnds ==
  \A c \in Conns \ Redir :
    (stage[c] = "relay" /\ app[c] = "closed" /\ far[c] = "closed")
      ~> (stage[c] = "over" /\ NothingHeld(c))

(* The accepting loop is not held up by a full pool: once a dial has       *)
(* returned it drops what it cannot serve and accepts again.               *)
AcceptsAgain == \A c \in Redir : (loop = c /\ stage[c] # "dial") ~> (loop # c)
=============================================================================
