---------------------------- MODULE RelayProofs ----------------------------
(***************************************************************************)
(* For any connections and any size of the pool: a relay hangs up only for *)
(* cause, and one whose ends have gone can go on or has given everything   *)
(* back, unless it writes to a destination that is still there.            *)
(***************************************************************************)
EXTENDS Relay, TLAPS

(* What is known of a connection at each stage.  A redirected one that is  *)
(* over was never relayed; a CONNECT tunnel holds both its connections     *)
(* until it is over, and its goroutines close nothing.                     *)
Staged(c) ==
  /\ stage[c] \in {"new", "dial", "up"} => up[c] = "none" /\ down[c] = "none"
  /\ stage[c] \in {"dial", "up"} => left[c] = "open"
  /\ stage[c] = "up" => c \in Redir /\ s5[c] = "open"
  /\ stage[c] = "down" => c \in Redir /\ down[c] = "none"
  /\ stage[c] \in {"down", "relay"} => up[c] # "none"
  /\ down[c] # "none" => up[c] # "none"
  /\ up[c] # "none" => left[c] # "none"
  /\ stage[c] = "over" => left[c] \in {"open", "closed"}
  /\ stage[c] = "over" /\ c \in Redir => up[c] = "none" /\ down[c] = "none"

Tunnel(c) ==
  c \notin Redir =>
    /\ up[c] \in {"none", "read", "write", "end"}
    /\ down[c] \in {"none", "read", "write", "end"}
    /\ stage[c] = "relay" => left[c] = "open" /\ s5[c] = "open" /\ down[c] # "none"
    /\ stage[c] = "over" => left[c] = "closed" /\ NothingHeld(c)

(* A copy is over, or a connection of a relay closed, only when one end of *)
(* the relay has gone.                                                     *)
Finished == {"closeS5", "closeLeft", "wait", "end"}

Cause(c) == app[c] = "closed" \/ far[c] = "closed"

Caused(c) ==
  /\ up[c] \in Finished \/ down[c] \in Finished => Cause(c)
  /\ up[c] # "none" /\ (s5[c] = "closed" \/ left[c] \in HungUp) => Cause(c)

ConnInv(c) == Staged(c) /\ Tunnel(c) /\ Caused(c)

RelayInv == \A c \in Conns : ConnInv(c)

(* What a goroutine of a redirected connection has closed before its next  *)
(* statement, and who waits inside the Close of left: one at most, as long *)
(* as left is being closed.                                                *)
Past(c, g) ==
  /\ g \in {"closeLeft", "wait", "end"} => s5[c] = "closed"
  /\ g = "wait" => left[c] = "closing"
  /\ g = "end" => left[c] # "open"

Waiting(c) ==
  /\ c \in Redir => Past(c, up[c]) /\ Past(c, down[c])
  /\ left[c] = "closing" => "wait" \in {up[c], down[c]}
  /\ ~(up[c] = "wait" /\ down[c] = "wait")

(* Something of c can go on although its ends are silent: the guards of    *)
(* UpEnds, UpWriteFails, DownEnds, DownWriteFails, CloseS5, CloseLeft,     *)
(* CloseReturns, HandleReturns and Collect.                                *)
CanGoOn(c) ==
  \/ up[c] = "read" /\ LeftEnded(c)
  \/ up[c] = "write" /\ S5Ended(c)
  \/ down[c] = "read" /\ S5Ended(c)
  \/ down[c] = "write" /\ LeftEnded(c)
  \/ up[c] \in {"closeS5", "closeLeft"} \/ down[c] \in {"closeS5", "closeLeft"}
  \/ "wait" \in {up[c], down[c]} /\ up[c] # "read" /\ down[c] # "write"
  \/ c \notin Redir /\ stage[c] = "relay" /\ up[c] = "end" /\ down[c] = "end"
  \/ stage[c] = "over" /\ NothingHeld(c) /\ "open" \in {left[c], s5[c]}

(* io.Copy is in a Write to a destination that is there: it may take its   *)
(* time, and meanwhile the end of the application is not seen.             *)
AtDestination(c) == c \in Redir /\ up[c] = "write" /\ ~S5Ended(c)

(* A relay whose application has gone (and, for a CONNECT tunnel, whose    *)
(* far end too) has given everything back, or can go on, or is held by the *)
(* destination: its goroutines and a Close that waits never wait for each  *)
(* other only, whichever of them the pool has refused.                     *)
NeverStuck ==
  \A c \in Conns :
    app[c] = "closed" /\ stage[c] \in {"relay", "over"} /\ (c \in Redir \/ far[c] = "closed")
      => \/ CanGoOn(c) \/ AtDestination(c)
         \/ NothingHeld(c) /\ left[c] = "closed" /\ s5[c] # "open"
-----------------------------------------------------------------------------
(* Every step keeps the types.                                             *)
LEMMA TypesStep == TypeOK /\ [Next]_vars => TypeOK'
<1> SUFFICES ASSUME TypeOK, [Next]_vars PROVE TypeOK'
  OBVIOUS
<1> USE RelayAssumption DEF RelayAssumption, TypeOK, Ends, Copies
<1>1. CASE RunReturns
  BY <1>1 DEF RunReturns
<1>2. CASE UNCHANGED vars
  BY <1>2 DEF vars
<1>3. CASE OthersBegin \/ OthersEnd
  BY <1>3 DEF OthersBegin, OthersEnd, conns
<1>4. ASSUME NEW c \in Conns, Arrive(c) PROVE TypeOK'
  BY <1>4 DEF Arrive
<1>5. ASSUME NEW c \in Conns, DialFails(c) PROVE TypeOK'
  BY <1>5 DEF DialFails, Continue
<1>6. ASSUME NEW c \in Conns, Dial(c) PROVE TypeOK'
  BY <1>6 DEF Dial
<1>7. ASSUME NEW c \in Conns, SubmitUp(c) PROVE TypeOK'
  BY <1>7 DEF SubmitUp, Continue
<1>8. ASSUME NEW c \in Conns, SubmitDown(c) PROVE TypeOK'
  BY <1>8 DEF SubmitDown, Continue
<1>9. ASSUME NEW c \in Conns, UpCopies(c) PROVE TypeOK'
  BY <1>9 DEF UpCopies, UpRead, UpEnds, UpReadFails, UpWrites, UpWriteFails, UpTo, AfterCopy,
              copyRest
<1>10. ASSUME NEW c \in Conns, DownCopies(c) PROVE TypeOK'
  BY <1>10 DEF DownCopies, DownRead, DownEnds, DownWrites, DownWriteFails, DownTo, AfterCopy,
               copyRest
<1>11. ASSUME NEW c \in Conns, Closes(c) PROVE TypeOK'
  BY <1>11 DEF Closes, CloseS5, CloseLeft, CloseReturns, Goes, UpTo, DownTo
<1>12. ASSUME NEW c \in Conns, HandleReturns(c) PROVE TypeOK'
  BY <1>12 DEF HandleReturns
<1>13. ASSUME NEW c \in Conns, ClientEnds(c) \/ AppCloses(c) PROVE TypeOK'
  BY <1>13 DEF ClientEnds, AppCloses
<1>14. ASSUME NEW c \in Conns, Collect(c) PROVE TypeOK'
  BY <1>14 DEF Collect
<1> QED
  BY <1>1, <1>2, <1>3, <1>4, <1>5, <1>6, <1>7, <1>8, <1>9, <1>10, <1>11, <1>12, <1>13, <1>14
  DEF Next, StepOf

(* The types of the relays' state.                                         *)
THEOREM RelayTypes == Spec => []TypeOK
<1>1. Init => TypeOK
  BY RelayAssumption DEF Init, None, TypeOK, Ends, Copies, RelayAssumption
<1> QED
  BY <1>1, TypesStep, PTL DEF Spec
-----------------------------------------------------------------------------
(* A step of one connection leaves the others alone.                       *)
LEMMA OthersAlone ==
  ASSUME TypeOK, NEW c \in Conns, NEW d \in Conns, d # c, StepOf(c)
  PROVE  /\ stage'[d] = stage[d] /\ up'[d] = up[d] /\ down'[d] = down[d]
         /\ left'[d] = left[d] /\ s5'[d] = s5[d] /\ app'[d] = app[d] /\ far'[d] = far[d]
<1> USE DEF TypeOK
<1>1. CASE Arrive(c) \/ Dial(c) \/ DialFails(c) \/ SubmitUp(c) \/ SubmitDown(c)
  BY <1>1 DEF Arrive, Dial, DialFails, SubmitUp, SubmitDown
<1>2. CASE UpCopies(c)
  BY <1>2 DEF UpCopies, UpRead, UpEnds, UpReadFails, UpWrites, UpWriteFails, UpTo, copyRest
<1>3. CASE DownCopies(c)
  BY <1>3 DEF DownCopies, DownRead, DownEnds, DownWrites, DownWriteFails, DownTo, copyRest
<1>4. CASE Closes(c)
  BY <1>4 DEF Closes, CloseS5, CloseLeft, CloseReturns, Goes, UpTo, DownTo
<1>5. CASE HandleReturns(c) \/ ClientEnds(c) \/ AppCloses(c) \/ Collect(c)
  BY <1>5 DEF HandleReturns, ClientEnds, AppCloses, Collect
<1> QED
  BY <1>1, <1>2, <1>3, <1>4, <1>5 DEF StepOf

(* What the copies do to their own connection, whichever of their steps it *)
(* is: they go on, or they end for cause.                                  *)
LEMMA UpStep ==
  ASSUME TypeOK, NEW c \in Conns, UpCopies(c), ConnInv(c)
  PROVE  /\ UNCHANGED <<stage, down, left, s5, app, far>>
         /\ up[c] \in {"read", "write"}
         /\ \/ up'[c] \in {"read", "write"}
            \/ up'[c] = AfterCopy(c) /\ Cause(c)
<1>1. CASE UpRead(c) \/ UpWrites(c)
  BY <1>1 DEF UpRead, UpWrites, UpTo, copyRest, TypeOK
<1>2. CASE UpEnds(c) \/ UpWriteFails(c)
  BY <1>2 DEF UpEnds, UpWriteFails, UpTo, copyRest, TypeOK, LeftEnded, S5Ended, Cause, ConnInv,
              Caused
<1>3. CASE UpReadFails(c)
  BY <1>3 DEF UpReadFails, UpTo, copyRest, TypeOK, Cause, ConnInv, Caused, Staged, Ends, HungUp
<1> QED
  BY <1>1, <1>2, <1>3 DEF UpCopies

(* The same for the direction to the application.                          *)
LEMMA DownStep ==
  ASSUME TypeOK, NEW c \in Conns, DownCopies(c), ConnInv(c)
  PROVE  /\ UNCHANGED <<stage, up, left, s5, app, far>>
         /\ down[c] \in {"read", "write"}
         /\ \/ down'[c] \in {"read", "write"}
            \/ down'[c] = AfterCopy(c) /\ Cause(c)
<1>1. CASE DownRead(c) \/ DownWrites(c)
  BY <1>1 DEF DownRead, DownWrites, DownTo, copyRest, TypeOK
<1>2. CASE DownEnds(c)
  BY <1>2 DEF DownEnds, DownTo, copyRest, TypeOK, S5Ended, Cause, ConnInv, Caused, Staged
<1>3. CASE DownWriteFails(c)
  BY <1>3 DEF DownWriteFails, DownTo, copyRest, TypeOK, LeftEnded, Cause, ConnInv, Caused,
              Staged, Ends, HungUp
<1> QED
  BY <1>1, <1>2, <1>3 DEF DownCopies

(* One of the two goroutines makes a step, the other does not.             *)
LEMMA GoesStep ==
  ASSUME TypeOK, NEW c \in Conns, NEW from, NEW to, Goes(c, from, to)
  PROVE  \/ up[c] = from /\ up'[c] = to /\ UNCHANGED down
         \/ down[c] = from /\ down'[c] = to /\ UNCHANGED up
  BY DEF Goes, UpTo, DownTo, TypeOK

(* A step of a connection keeps what is known of it.                       *)
LEMMA OwnKept ==
  ASSUME TypeOK, NEW c \in Conns, StepOf(c), ConnInv(c)
  PROVE  ConnInv(c)'
<1> USE DEF TypeOK, ConnInv, Staged, Tunnel, Caused, Cause, Finished, HungUp, Ends, Copies,
            NothingHeld
<1>1. CASE Arrive(c)
  BY <1>1 DEF Arrive
<1>2. CASE DialFails(c)
  BY <1>2 DEF DialFails
<1>3. CASE Dial(c)
  <2>1. left'[c] = "open" /\ s5'[c] = "open"
    BY <1>3 DEF Dial
  <2>2. CASE c \in Redir
    BY <1>3, <2>1, <2>2 DEF Dial
  <2>3. CASE c \notin Redir
    BY <1>3, <2>1, <2>3 DEF Dial
  <2> QED
    BY <2>2, <2>3
<1>4. CASE SubmitUp(c)
  BY <1>4 DEF SubmitUp
<1>5. CASE SubmitDown(c)
  BY <1>5 DEF SubmitDown
<1>6. CASE UpCopies(c)
  BY <1>6, UpStep DEF AfterCopy
<1>7. CASE DownCopies(c)
  BY <1>7, DownStep DEF AfterCopy
<1>8. CASE CloseS5(c)
  <2>1. Goes(c, "closeS5", "closeLeft") /\ s5'[c] = "closed" /\ UNCHANGED <<stage, left, app, far>>
    BY <1>8 DEF CloseS5
  <2> QED
    BY <2>1, GoesStep
<1>9. CASE CloseLeft(c)
  <2>1. /\ UNCHANGED <<stage, s5, app, far>>
        /\ \/ Goes(c, "closeLeft", "wait") /\ left'[c] = "closing"
           \/ Goes(c, "closeLeft", "end") /\ UNCHANGED left
    BY <1>9 DEF CloseLeft
  <2>2. CASE Goes(c, "closeLeft", "wait") /\ left'[c] = "closing"
    BY <2>1, <2>2, GoesStep
  <2>3. CASE Goes(c, "closeLeft", "end") /\ UNCHANGED left
    BY <2>1, <2>3, GoesStep
  <2> QED
    BY <2>1, <2>2, <2>3
<1>10. CASE CloseReturns(c)
  <2>1. Goes(c, "wait", "end") /\ left'[c] = "closed" /\ UNCHANGED <<stage, s5, app, far>>
    BY <1>10 DEF CloseReturns
  <2> QED
    BY <2>1, GoesStep
<1>11. CASE HandleReturns(c)
  BY <1>11 DEF HandleReturns
<1>12. CASE ClientEnds(c) \/ AppCloses(c)
  BY <1>12 DEF ClientEnds, AppCloses
<1>13. CASE Collect(c)
  BY <1>13 DEF Collect
<1> QED
  BY <1>1, <1>2, <1>3, <1>4, <1>5, <1>6, <1>7, <1>8, <1>9, <1>10, <1>11, <1>12, <1>13
  DEF StepOf, Closes

(* The inductive invariant of the relays.                                  *)
THEOREM RelayInvariant == Spec => []RelayInv
<1> USE DEF ConnInv, Staged, Tunnel, Caused, Cause, Finished, NothingHeld
<1>1. Init => RelayInv
  BY DEF Init, None, RelayInv, HungUp
<1>2. TypeOK /\ RelayInv /\ [Next]_vars => RelayInv'
  <2> SUFFICES ASSUME TypeOK, RelayInv, [Next]_vars PROVE RelayInv'
    OBVIOUS
  <2>1. CASE UNCHANGED <<stage, up, down, left, s5, app, far>>
    BY <2>1 DEF RelayInv
  <2>2. ASSUME NEW c \in Conns, StepOf(c) PROVE RelayInv'
    <3>1. ConnInv(c)'
      BY <2>2, OwnKept DEF RelayInv
    <3>2. ASSUME NEW d \in Conns, d # c PROVE ConnInv(d)'
      BY <2>2, <3>2, OthersAlone DEF RelayInv
    <3> QED
      BY <3>1, <3>2 DEF RelayInv
  <2> QED
    BY <2>1, <2>2 DEF Next, RunReturns, OthersBegin, OthersEnd, conns, vars
<1> QED
  BY <1>1, <1>2, RelayTypes, PTL DEF Spec

(* A relay hangs up on an application only because the far end has gone:   *)
(* HangsUpForCause, for redirected connections and CONNECT tunnels alike.  *)
THEOREM RelayHangsUpForCause == Spec => []HangsUpForCause
<1>1. RelayInv => HangsUpForCause
  BY DEF RelayInv, ConnInv, Caused, Cause, HangsUpForCause
<1> QED
  BY <1>1, RelayInvariant, PTL
-----------------------------------------------------------------------------
(* Nobody waits for ever: what is safety in RedirReleases and ConnectEnds. *)

(* A step of a connection keeps what it waits for.                         *)
LEMMA OwnWaiting ==
  ASSUME TypeOK, NEW c \in Conns, StepOf(c), ConnInv(c), Waiting(c)
  PROVE  Waiting(c)'
<1> USE DEF TypeOK, Waiting, Past, Ends, Copies
<1>1. CASE Arrive(c) \/ DialFails(c)
  BY <1>1 DEF Arrive, DialFails, ConnInv, Staged
<1>2. CASE Dial(c)
  BY <1>2 DEF Dial, ConnInv, Staged
<1>3. CASE SubmitUp(c) \/ SubmitDown(c)
  BY <1>3 DEF SubmitUp, SubmitDown, ConnInv, Staged
<1>4. CASE UpCopies(c)
  BY <1>4, UpStep DEF AfterCopy, ConnInv, Tunnel
<1>5. CASE DownCopies(c)
  BY <1>5, DownStep DEF AfterCopy, ConnInv, Tunnel
<1>6. CASE CloseS5(c)
  <2>1. Goes(c, "closeS5", "closeLeft") /\ s5'[c] = "closed" /\ UNCHANGED left
    BY <1>6 DEF CloseS5
  <2> QED
    BY <2>1, GoesStep
<1>7. CASE CloseLeft(c)
  <2>1. /\ UNCHANGED s5
        /\ \/ Goes(c, "closeLeft", "wait") /\ left[c] = "open" /\ left'[c] = "closing"
           \/ Goes(c, "closeLeft", "end") /\ left[c] # "open" /\ UNCHANGED left
    BY <1>7 DEF CloseLeft
  <2>2. CASE Goes(c, "closeLeft", "wait") /\ left[c] = "open" /\ left'[c] = "closing"
    BY <2>1, <2>2, GoesStep DEF ConnInv, Tunnel
  <2>3. CASE Goes(c, "closeLeft", "end") /\ left[c] # "open" /\ UNCHANGED left
    BY <2>1, <2>3, GoesStep
  <2> QED
    BY <2>1, <2>2, <2>3
<1>8. CASE CloseReturns(c)
  <2>1. Goes(c, "wait", "end") /\ left'[c] = "closed" /\ UNCHANGED s5
    BY <1>8 DEF CloseReturns
  <2> QED
    BY <2>1, GoesStep
<1>9. CASE HandleReturns(c)
  BY <1>9 DEF HandleReturns
<1>10. CASE ClientEnds(c) \/ AppCloses(c)
  BY <1>10 DEF ClientEnds, AppCloses
<1>11. CASE Collect(c)
  BY <1>11 DEF Collect, ConnInv, Staged
<1> QED
  BY <1>1, <1>2, <1>3, <1>4, <1>5, <1>6, <1>7, <1>8, <1>9, <1>10, <1>11 DEF StepOf, Closes

(* What each connection waits for, at every moment.                        *)
THEOREM RelayWaiting == Spec => [](\A c \in Conns : Waiting(c))
<1>1. Init => \A c \in Conns : Waiting(c)
  BY DEF Init, None, Waiting, Past
<1>2. TypeOK /\ RelayInv /\ (\A c \in Conns : Waiting(c)) /\ [Next]_vars
        => (\A c \in Conns : Waiting(c))'
  <2> SUFFICES ASSUME TypeOK, RelayInv, \A c \in Conns : Waiting(c), [Next]_vars
               PROVE  (\A c \in Conns : Waiting(c))'
    OBVIOUS
  <2>1. CASE UNCHANGED <<up, down, left, s5>>
    BY <2>1 DEF Waiting, Past
  <2>2. ASSUME NEW c \in Conns, StepOf(c) PROVE \A d \in Conns : Waiting(d)'
    <3>1. Waiting(c)'
      BY <2>2, OwnWaiting DEF RelayInv
    <3>2. ASSUME NEW d \in Conns, d # c PROVE Waiting(d)'
      BY <2>2, <3>2, OthersAlone DEF Waiting, Past
    <3> QED
      BY <3>1, <3>2
  <2> QED
    BY <2>1, <2>2 DEF Next, RunReturns, OthersBegin, OthersEnd, conns, vars
<1> QED
  BY <1>1, <1>2, RelayInvariant, RelayTypes, PTL DEF Spec

(* No relay whose ends have gone is stuck, unless its destination holds    *)
(* it: NeverStuck.                                                         *)
THEOREM RelayNeverStuck == Spec => []NeverStuck
<1>1. TypeOK /\ RelayInv /\ (\A c \in Conns : Waiting(c)) => NeverStuck
  <2> SUFFICES ASSUME TypeOK, NEW c \in Conns, ConnInv(c), Waiting(c), app[c] = "closed",
                      stage[c] \in {"relay", "over"}, c \in Redir \/ far[c] = "closed"
               PROVE  \/ CanGoOn(c) \/ AtDestination(c)
                      \/ NothingHeld(c) /\ left[c] = "closed" /\ s5[c] # "open"
    BY DEF RelayInv, NeverStuck
  <2>0. up[c] \in Copies /\ down[c] \in Copies /\ left[c] \in Ends
    BY DEF TypeOK
  <2> USE <2>0 DEF Ends, Copies, ConnInv, Staged, Tunnel, Waiting, Past, CanGoOn, NothingHeld,
                   LeftEnded, S5Ended, AtDestination
  <2>1. CASE up[c] \in {"read", "write"}
    BY <2>1
  <2>2. CASE up[c] \in {"closeS5", "closeLeft", "wait"}
    BY <2>2
  <2>3. CASE c \in Redir /\ up[c] = "end"
    <3>1. s5[c] = "closed" /\ left[c] # "open" /\ left[c] # "none"
      BY <2>3
    <3> QED
      BY <2>3, <3>1
  <2>4. CASE c \in Redir /\ up[c] = "none"
    <3>1. stage[c] = "over" /\ down[c] = "none" /\ left[c] \in {"open", "closed"}
      BY <2>4
    <3> QED
      BY <2>4, <3>1
  <2>5. CASE c \notin Redir /\ up[c] \in {"none", "end"} /\ stage[c] = "relay"
    BY <2>5
  <2>6. CASE c \notin Redir /\ up[c] \in {"none", "end"} /\ stage[c] = "over"
    BY <2>6
  <2> QED
    BY <2>1, <2>2, <2>3, <2>4, <2>5, <2>6
<1> QED
  BY <1>1, RelayWaiting, RelayInvariant, RelayTypes, PTL
=============================================================================
