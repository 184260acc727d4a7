----------------------------- MODULE AppProofs -----------------------------
(***************************************************************************)
(* For any configurations and any number of runs, stops and killed         *)
(* processes: the ports are those of the configuration, a file that was    *)
(* cut off does not open, a lookup is answered by a run that was the       *)
(* latest, and a client is stopped for a cause.                            *)
(***************************************************************************)
EXTENDS App, TLAPS

(* A configuration that was provided is valid.                             *)
Validated ==
  \A i \in Runs : platform # "mobile" /\ pc[i] \in {"start", "serve", "serving"}
    => ClientValid(conf[i]) /\ conf[i] \in Configs

(* The runs of a process follow each other; the variables of the libraries *)
(* belong to the last one, or to an earlier one while it is being built.   *)
Order ==
  /\ ctxOf = last
  /\ appOf <= last
  /\ caller = "stop" => appOf # 0
  /\ platform = "cli" => file \in Configs
  /\ \A i \in Runs : pc[i] = "none" <=> i > last
  /\ \A i \in Runs : i <= last => conf[i] \in Configs
  /\ \A i \in Runs : pc[i] \in {"new", "dns", "start"} => i = last
  /\ \A i \in Runs : pc[i] \notin {"none", "new", "dns"} => i <= appOf

(* A run that began before an earlier one had ended is marked.             *)
OverlapMarked ==
  \A i, j \in Runs : i < j /\ j <= last /\ ~Over(i) => j \in overlapped

(* A goroutine that stops an application was started for a cause.          *)
StoppingForCause == \A i \in Runs : stopping[i] > 0 => causes[i] # {}

(* A run has replaced the handler and not yet the resolver.                *)
Joining(i) == i \in Runs /\ pc[i] = "dns"

(* The resolver is that of the latest run that set one up, and so is the   *)
(* handler if that is a run with DoH, unless another is at it.             *)
Resolving ==
  /\ resolver = latest
  /\ latest <= last
  /\ \A i \in Runs : Joining(i) => handler = i
  /\ resolver # 0 /\ conf[resolver].dns = "doh" => handler = resolver \/ Joining(handler)

(* A lookup uses the resolver of a run that was the latest, and will meet  *)
(* the handler of one that was, or was at it.                              *)
LookingUp ==
  at # "idle" => /\ via <= last
                 /\ via \in seen
                 /\ via # 0 /\ conf[via].dns = "doh" => handler \in seen
-----------------------------------------------------------------------------
(* A step from one place to another keeps the order.                       *)
LEMMA OrderMove ==
  ASSUME TypeOK, Order, NEW i \in Runs, pc[i] \notin {"none", "new", "dns"},
         NEW to \in {"serve", "serving", "returned", "cancelled", "ended", "failed"},
         pc' = [pc EXCEPT ![i] = to],
         UNCHANGED <<last, ctxOf, appOf, caller, platform, file, conf, overlapped>>
  PROVE  Order' /\ RunsOK'
BY DEF TypeOK, RunsOK, Order

(* app.Stop keeps the types.                                               *)
LEMMA AppStopTypes ==
  ASSUME TypeOK, NEW i \in Runs, NEW who \in {"user", "self", "old"}, AppStop(i, who),
         cancelled' \subseteq Runs
  PROVE  StopsOK'
<1>1. causes' \in [Runs -> SUBSET {"user", "self", "old"}]
  <2>1. causes \in [Runs -> SUBSET {"user", "self", "old"}]
    BY DEF TypeOK, StopsOK
  <2>2. causes' = [causes EXCEPT ![i] = @ \cup {who}]
    BY DEF AppStop
  <2> QED
    BY <2>1, <2>2, Zenon
<1>2. stopping' \in [Runs -> Nat]
  BY DEF AppStop, TypeOK, StopsOK
<1> QED
  BY <1>1, <1>2 DEF AppStop, TypeOK, StopsOK

(* The level of the log is written last, and a file without it is not      *)
(* valid.                                                                  *)
LEMMA CutNeverOpens ==
  ASSUME NEW c, NEW k \in CutPoints
  PROVE  ~Opens(Cut(c, k))
<1>1. ~(9 <= k)
  BY ConfigAssumption DEF ConfigAssumption
<1>2. Cut(c, k).level = ""
  BY <1>1 DEF Cut
<1> QED
  BY <1>2 DEF Opens, OpenConfFile, ConfigInit, StructValid, LogValid

(* Every step keeps types and order.                                       *)
LEMMA OrderStep == TypeOK /\ Order /\ [Next]_vars => TypeOK' /\ Order'
<1> SUFFICES ASSUME TypeOK, Order, [Next]_vars PROVE TypeOK' /\ Order'
  OBVIOUS
<1> USE AppAssumption DEF AppAssumption, fileVars, globals, stopVars, callVars, dnsVars,
                          runVars, lookupVars, lookupRest
<1>1. CASE Kill
  BY <1>1 DEF Kill, TypeOK, RunsOK, StopsOK, OthersOK, LookupOK, Order, Runs
<1>2. CASE SaveEnds
  BY <1>2 DEF SaveEnds, TypeOK, RunsOK, StopsOK, OthersOK, LookupOK, Order
<1>3. ASSUME NEW c \in Configs, SaveClient(c), platform # "cli" PROVE TypeOK' /\ Order'
  <2>1. PICK k \in CutPoints : file' = Cut(c, k)
    BY <1>3 DEF SaveClient
  <2>2. OthersOK'
    BY <1>3, <2>1 DEF SaveClient, TypeOK, OthersOK
  <2> QED
    BY <1>3, <2>2 DEF SaveClient, TypeOK, RunsOK, StopsOK, LookupOK, Order
<1>4. ASSUME NEW c, NewAndroid(c) PROVE TypeOK' /\ Order'
  <2>1. Opens(c) /\ c \in IF file = NoConf THEN Configs ELSE {file}
    BY <1>4 DEF NewAndroid
  <2>2. torn = "yes" /\ c \notin Configs => FALSE
    BY <2>1, CutNeverOpens DEF TypeOK, OthersOK
  <2>3. c \in Configs
    BY <2>1, <2>2 DEF TypeOK, OthersOK
  <2> QED
    BY <1>4, <2>3 DEF NewAndroid, TypeOK, RunsOK, StopsOK, OthersOK, LookupOK, Order
<1>5. ASSUME NEW c \in Configs, Begin(c) PROVE TypeOK' /\ Order'
  <2>1. last' = last + 1 /\ last' \in Runs /\ last \in Nat
    BY <1>5 DEF Begin, TypeOK, RunsOK, Runs
  <2>2. RunsOK'
    BY <1>5, <2>1 DEF Begin, TypeOK, RunsOK
  <2>3. StopsOK' /\ OthersOK' /\ LookupOK'
    BY <1>5 DEF Begin, TypeOK, StopsOK, OthersOK, LookupOK
  <2>4. \A i \in Runs : pc'[i] = IF i = last' THEN "new" ELSE pc[i]
    BY <1>5, <2>1 DEF Begin, TypeOK, RunsOK
  <2>5. \A i \in Runs : pc[i] \notin {"new", "dns", "start"}
    BY <1>5 DEF Begin, Starting
  <2>6. Order'
    BY <1>5, <2>1, <2>4, <2>5 DEF Begin, Order, TypeOK, RunsOK, Runs
  <2> QED
    BY <2>2, <2>3, <2>6 DEF TypeOK
<1>6. ASSUME NEW i \in Runs, FxNew(i) PROVE TypeOK' /\ Order'
  <2>1. PICK to \in {"start", "failed"} : pc' = [pc EXCEPT ![i] = to]
    BY <1>6 DEF FxNew
  <2>2. i = last /\ pc[i] \in {"new", "dns"} /\ appOf' = i
    BY <1>6 DEF FxNew, Order
  <2>3. RunsOK'
    BY <1>6, <2>1, <2>2 DEF FxNew, TypeOK, RunsOK
  <2>4. OthersOK' /\ LookupOK'
    BY <1>6 DEF FxNew, InitDNS, SetResolver, JoinLookup, TypeOK, OthersOK, LookupOK
  <2>5. StopsOK'
    BY <1>6 DEF FxNew, TypeOK, StopsOK
  <2>6. \A j \in Runs : pc'[j] = IF j = i THEN to ELSE pc[j]
    BY <2>1 DEF TypeOK, RunsOK
  <2>7. Order'
    BY <1>6, <2>2, <2>6 DEF FxNew, Order, TypeOK, RunsOK, Runs
  <2> QED
    BY <2>3, <2>4, <2>5, <2>7 DEF TypeOK
<1>7. ASSUME NEW i \in Runs, Start(i) PROVE TypeOK' /\ Order'
  <2>1. Order' /\ RunsOK'
    BY <1>7, OrderMove DEF Start
  <2>2. StopsOK' /\ OthersOK' /\ LookupOK'
    BY <1>7 DEF Start, TypeOK, StopsOK, OthersOK, LookupOK
  <2> QED
    BY <2>1, <2>2 DEF TypeOK
<1>8. ASSUME NEW i \in Runs, Serve(i) PROVE TypeOK' /\ Order'
  <2>1. Order' /\ RunsOK'
    BY <1>8, OrderMove DEF Serve
  <2>2. StopsOK' /\ OthersOK' /\ LookupOK'
    BY <1>8 DEF Serve, TypeOK, StopsOK, OthersOK, LookupOK
  <2> QED
    BY <2>1, <2>2 DEF TypeOK
<1>9. ASSUME NEW i \in Runs, React(i) PROVE TypeOK' /\ Order'
  <2>1. Order' /\ RunsOK'
    BY <1>9, OrderMove DEF React
  <2>2. StopsOK' /\ OthersOK' /\ LookupOK'
    BY <1>9 DEF React, TypeOK, StopsOK, OthersOK, LookupOK
  <2> QED
    BY <2>1, <2>2 DEF TypeOK
<1>10. ASSUME NEW i \in Runs, Cancel(i) PROVE TypeOK' /\ Order'
  <2>1. Order' /\ RunsOK'
    BY <1>10, OrderMove DEF Cancel
  <2>2. ctxOf \in Runs
    BY <1>10 DEF Cancel, TypeOK, RunsOK, Order, Runs
  <2>3. StopsOK' /\ OthersOK' /\ LookupOK'
    BY <1>10, <2>2 DEF Cancel, TypeOK, StopsOK, OthersOK, LookupOK
  <2> QED
    BY <2>1, <2>3 DEF TypeOK
<1>11. ASSUME NEW i \in Runs, StopLatest(i) PROVE TypeOK' /\ Order'
  <2>1. Order' /\ RunsOK'
    BY <1>11, OrderMove DEF StopLatest
  <2>2. appOf \in Runs
    BY <1>11 DEF StopLatest, TypeOK, RunsOK, Order, Runs
  <2>3. StopsOK'
    BY <1>11, <2>2, AppStopTypes DEF StopLatest, TypeOK, StopsOK
  <2>4. OthersOK' /\ LookupOK'
    BY <1>11 DEF StopLatest, TypeOK, OthersOK, LookupOK
  <2> QED
    BY <2>1, <2>3, <2>4 DEF TypeOK
<1>12. ASSUME NEW i \in Runs, Return(i) PROVE TypeOK' /\ Order'
  <2>1. Order' /\ RunsOK'
    BY <1>12, OrderMove DEF Return
  <2>2. cancelled' \subseteq Runs
    BY <1>12 DEF Return, TypeOK, StopsOK
  <2>3. StopsOK'
    BY <1>12, <2>2, AppStopTypes DEF Return, TypeOK, StopsOK
  <2>4. OthersOK' /\ LookupOK'
    BY <1>12 DEF Return, TypeOK, OthersOK, LookupOK
  <2> QED
    BY <2>1, <2>3, <2>4 DEF TypeOK
<1>13. CASE StartSocks
  BY <1>13 DEF StartSocks, TypeOK, RunsOK, StopsOK, OthersOK, LookupOK, Order
<1>14. CASE Stop \/ Shutdown
  <2>1. appOf # 0 /\ stops' = stops + 1 /\ stops < MaxStops
        /\ cancelled' = cancelled \cup {ctxOf} /\ caller' \in {"idle", "stop"}
        /\ UNCHANGED <<started, stopping, tokens, asked, causes>>
    BY <1>14 DEF Stop, Shutdown
  <2>2. ctxOf \in Runs
    BY <2>1 DEF TypeOK, RunsOK, Order, Runs
  <2>3. stops' \in 0 .. MaxStops
    BY <2>1 DEF TypeOK, OthersOK
  <2>4. StopsOK'
    BY <2>1, <2>2 DEF TypeOK, StopsOK
  <2>5. OthersOK' /\ LookupOK'
    BY <1>14, <2>1, <2>3 DEF Stop, Shutdown, TypeOK, OthersOK, LookupOK
  <2>6. RunsOK' /\ Order'
    BY <1>14, <2>1 DEF Stop, Shutdown, TypeOK, RunsOK, Order
  <2> QED
    BY <2>4, <2>5, <2>6 DEF TypeOK
<1>15. CASE StopApp
  <2>1. appOf \in Runs
    BY <1>15 DEF StopApp, TypeOK, RunsOK, Order
  <2>2. StopsOK'
    BY <1>15, <2>1, AppStopTypes DEF StopApp, TypeOK, StopsOK
  <2>3. RunsOK' /\ OthersOK' /\ LookupOK' /\ Order'
    BY <1>15 DEF StopApp, TypeOK, RunsOK, OthersOK, LookupOK, Order
  <2> QED
    BY <2>2, <2>3 DEF TypeOK
<1>16. ASSUME NEW i \in Runs, StopHooks(i) PROVE TypeOK' /\ Order'
  <2>1. stopping' \in [Runs -> Nat]
    BY <1>16 DEF StopHooks, TypeOK, StopsOK
  <2>2. tokens' \in [Runs -> Nat] /\ started' \subseteq Runs
    BY <1>16 DEF StopHooks, OnStop, TypeOK, StopsOK
  <2>3. StopsOK'
    BY <1>16, <2>1, <2>2 DEF StopHooks, TypeOK, StopsOK
  <2>4. RunsOK' /\ OthersOK' /\ LookupOK' /\ Order'
    BY <1>16 DEF StopHooks, TypeOK, RunsOK, OthersOK, LookupOK, Order
  <2> QED
    BY <2>3, <2>4 DEF TypeOK
<1>17. CASE UNCHANGED vars
  BY <1>17 DEF vars, TypeOK, RunsOK, StopsOK, OthersOK, LookupOK, Order
<1>18. AndroidRun \/ ClientExec => \E c \in Configs : Begin(c)
  BY DEF AndroidRun, ClientExec, TypeOK, OthersOK, Order
<1>19. CASE ReceiveTo \/ DialFunction \/ AskAgain \/ Answered
  <2>1. LookupOK'
    BY <1>19 DEF ReceiveTo, DialFunction, ServerOf, AskAgain, Answered, TypeOK, OthersOK, LookupOK
  <2>2. RunsOK' /\ StopsOK' /\ OthersOK' /\ Order'
    BY <1>19 DEF ReceiveTo, DialFunction, AskAgain, Answered, TypeOK, RunsOK, StopsOK,
                 OthersOK, Order
  <2> QED
    BY <2>1, <2>2 DEF TypeOK
<1>20. ASSUME NEW i \in Runs, NewDoHResolverFactory(i) PROVE TypeOK' /\ Order'
  <2>1. \A j \in Runs : pc'[j] = IF j = i THEN "dns" ELSE pc[j]
    BY <1>20 DEF NewDoHResolverFactory, TypeOK, RunsOK
  <2>2. RunsOK'
    BY <1>20 DEF NewDoHResolverFactory, TypeOK, RunsOK
  <2>3. StopsOK'
    BY <1>20 DEF NewDoHResolverFactory, TypeOK, StopsOK
  <2>4. handler' \in Runs /\ UNCHANGED <<resolver, latest>>
    BY <1>20 DEF NewDoHResolverFactory, HandleFunc
  <2>5. OthersOK'
    BY <1>20, <2>4 DEF NewDoHResolverFactory, TypeOK, OthersOK
  <2>6. LookupOK'
    BY <1>20 DEF NewDoHResolverFactory, HandleFunc, JoinLookup, TypeOK, LookupOK
  <2>7. Order'
    BY <1>20, <2>1 DEF NewDoHResolverFactory, Order, TypeOK, RunsOK, Runs
  <2> QED
    BY <2>2, <2>3, <2>5, <2>6, <2>7 DEF TypeOK
<1> QED
  BY <1>1, <1>2, <1>3, <1>4, <1>5, <1>6, <1>7, <1>8, <1>9, <1>10, <1>11, <1>12, <1>13,
     <1>14, <1>15, <1>16, <1>17, <1>18, <1>19, <1>20
  DEF Next, RunStep, SaveConfFile, Save, DesktopRun

(* The types of the programs' state are kept.                              *)
THEOREM AppTypes == Spec => [](TypeOK /\ Order)
<1>1. Init => TypeOK /\ Order
  <2> SUFFICES ASSUME Init PROVE TypeOK /\ Order
    OBVIOUS
  <2>1. RunsOK /\ StopsOK
    BY DEF Init, RunsOK, StopsOK
  <2>2. OthersOK /\ LookupOK
    BY AppAssumption DEF Init, OthersOK, LookupOK, AppAssumption
  <2>3. Order
    BY AppAssumption DEF Init, Order, Runs, AppAssumption
  <2> QED
    BY <2>1, <2>2, <2>3 DEF TypeOK
<1> QED
  BY <1>1, OrderStep, PTL DEF Spec
-----------------------------------------------------------------------------
(* What the validator accepts survives the conversion to uint16.           *)
LEMMA Uint16Exact ==
  ASSUME NEW n \in Nat, PortValid(n)
  PROVE  Uint16(n) = n
<1>1. n <= 65535
  BY DEF PortValid, PortNumbers
<1>2. n % 65536 = n
  BY <1>1
<1> QED
  BY <1>2 DEF Uint16

(* Runs that leave their configuration alone keep it validated.            *)
LEMMA ValidatedStep == TypeOK /\ Order /\ Validated /\ [Next]_vars => Validated'
<1> SUFFICES ASSUME TypeOK, Order, Validated, [Next]_vars PROVE Validated'
  OBVIOUS
<1> USE AppAssumption DEF AppAssumption, fileVars, globals, stopVars, callVars, dnsVars, runVars, lookupVars,
                         lookupRest
<1>1. CASE Kill
  BY <1>1 DEF Kill, Validated
<1>2. ASSUME UNCHANGED <<platform, pc, conf>> PROVE Validated'
  BY <1>2 DEF Validated
<1>3. ASSUME NEW c \in Configs, Begin(c) PROVE Validated'
  <2>1. last' \in Runs
    BY <1>3 DEF Begin, TypeOK, RunsOK, Runs
  <2>2. \A i \in Runs : /\ pc'[i] = IF i = last' THEN "new" ELSE pc[i]
                        /\ i # last' => conf'[i] = conf[i]
    BY <1>3, <2>1 DEF Begin, TypeOK, RunsOK
  <2> QED
    BY <1>3, <2>2 DEF Begin, Validated
<1>4. ASSUME NEW i \in Runs, FxNew(i) PROVE Validated'
  <2>1. PICK to \in {"start", "failed"} : pc' = [pc EXCEPT ![i] = to]
    BY <1>4 DEF FxNew
  <2>2. \A j \in Runs : pc'[j] = IF j = i THEN to ELSE pc[j]
    BY <2>1 DEF TypeOK, RunsOK
  <2>3. UNCHANGED <<platform, conf>> /\ pc[i] \in {"new", "dns"}
    BY <1>4 DEF FxNew
  <2>4. platform # "mobile" /\ to = "start" => ClientValid(conf[i]) /\ conf[i] \in Configs
    <3>1. to = "start" => Provides(conf[i])
      BY <1>4, <2>1, <2>2 DEF FxNew, TypeOK, RunsOK
    <3>2. platform # "mobile" => conf[i] \in Configs
      BY <2>3 DEF Order, TypeOK, RunsOK, Runs
    <3> QED
      BY <3>1, <3>2 DEF Provides
  <2> QED
    BY <2>2, <2>3, <2>4 DEF Validated
<1>5. ASSUME NEW i \in Runs,
             Start(i) \/ Serve(i) \/ React(i) \/ Cancel(i) \/ StopLatest(i) \/ Return(i)
      PROVE  Validated'
  <2>1. PICK to \in {"serve", "serving", "returned", "cancelled", "ended", "failed"} :
          /\ pc' = [pc EXCEPT ![i] = to]
          /\ to = "serve" => pc[i] = "start"
          /\ to = "serving" => pc[i] = "serve"
    BY <1>5 DEF Start, Serve, React, Cancel, StopLatest, Return
  <2>2. \A j \in Runs : pc'[j] = IF j = i THEN to ELSE pc[j]
    BY <2>1 DEF TypeOK, RunsOK
  <2>3. UNCHANGED <<platform, conf>>
    BY <1>5 DEF Start, Serve, React, Cancel, StopLatest, Return
  <2> QED
    BY <2>1, <2>2, <2>3 DEF Validated
<1>6. AndroidRun \/ ClientExec => \E c \in Configs : Begin(c)
  BY DEF AndroidRun, ClientExec, TypeOK, OthersOK, Order
<1>7. ASSUME NEW i \in Runs, NewDoHResolverFactory(i) PROVE Validated'
  BY <1>7 DEF NewDoHResolverFactory, Validated, TypeOK, RunsOK
<1> QED
  BY <1>1, <1>2, <1>3, <1>4, <1>5, <1>6, <1>7
  DEF Next, RunStep, SaveEnds, SaveConfFile, Save, SaveClient, NewAndroid, DesktopRun,
      StartSocks, Stop, Shutdown, StopApp, StopHooks, ReceiveTo, DialFunction,
      AskAgain, Answered, vars

(* A client of the desktop library or the command listens on the three     *)
(* different ports of its configuration: PortsExact, for every run.        *)
THEOREM AppPortsExact == Spec => []PortsExact
<1>1. Init => Validated
  BY DEF Init, Validated
<1>2. TypeOK /\ Validated => PortsExact
  <2> SUFFICES ASSUME TypeOK, Validated, NEW i \in Runs, platform # "mobile", pc[i] = "serving"
               PROVE  /\ ClientInit(conf[i]) = [port |-> conf[i].port, http |-> conf[i].http,
                                                redir |-> conf[i].redir]
                      /\ conf[i].port # conf[i].http /\ conf[i].http # conf[i].redir
                      /\ conf[i].redir # conf[i].port
    BY DEF PortsExact
  <2>1. ClientValid(conf[i]) /\ conf[i] \in Configs
    BY DEF Validated
  <2>2. conf[i].port \in Nat /\ conf[i].http \in Nat /\ conf[i].redir \in Nat
    BY <2>1, AppAssumption DEF AppAssumption
  <2>3. /\ Uint16(conf[i].port) = conf[i].port
        /\ Uint16(conf[i].http) = conf[i].http
        /\ Uint16(conf[i].redir) = conf[i].redir
    BY <2>1, <2>2, Uint16Exact DEF ClientValid
  <2> QED
    BY <2>1, <2>3 DEF ClientValid, ClientInit
<1> QED
  BY <1>1, <1>2, ValidatedStep, AppTypes, PTL DEF Spec
-----------------------------------------------------------------------------
(* A file that was cut off is not taken for a configuration, wherever it   *)
(* ends: TornNeverOpens, for every configuration, over any sequence of     *)
(* saves, failures and killed processes.                                   *)
THEOREM AppTornNeverOpens == Spec => []TornNeverOpens
<1>1. TypeOK => TornNeverOpens
  BY CutNeverOpens DEF TypeOK, OthersOK, TornNeverOpens
<1> QED
  BY <1>1, AppTypes, PTL
-----------------------------------------------------------------------------
(* The resolver in place stays that of the latest run that set one up, and *)
(* a lookup stays with such runs.                                          *)
LEMMA ResolvingStep ==
  TypeOK /\ Order /\ Resolving /\ LookingUp /\ [Next]_vars => Resolving' /\ LookingUp'
<1> SUFFICES ASSUME TypeOK, Order, Resolving, LookingUp, [Next]_vars
             PROVE  Resolving' /\ LookingUp'
  OBVIOUS
<1> USE AppAssumption DEF AppAssumption, dnsVars, lookupVars, runVars, lookupRest
<1>1. CASE Kill
  BY <1>1 DEF Kill, Resolving, LookingUp, Joining
<1>2. ASSUME UNCHANGED <<dnsVars, last, conf>>, \A i \in Runs : Joining(i)' <=> Joining(i)
      PROVE  Resolving' /\ LookingUp'
  BY <1>2 DEF Resolving, LookingUp, Joining
<1>3. ASSUME NEW c \in Configs, Begin(c) PROVE Resolving' /\ LookingUp'
  <2>1. last' = last + 1 /\ last' \in Runs /\ last \in Nat
    BY <1>3 DEF Begin, TypeOK, RunsOK, Runs
  <2>2. \A i \in Runs : i # last' => conf'[i] = conf[i]
    BY <1>3, <2>1 DEF Begin, TypeOK, RunsOK
  <2>3. UNCHANGED dnsVars
    BY <1>3 DEF Begin
  <2>4. /\ resolver # 0 => resolver \in Runs /\ resolver # last'
        /\ at # "idle" /\ via # 0 => via \in Runs /\ via # last'
    BY <2>1 DEF Resolving, LookingUp, TypeOK, OthersOK, LookupOK, Runs
  <2>5. \A i \in Runs : ~Joining(i) /\ ~Joining(i)'
    BY <1>3, <2>1 DEF Begin, Starting, Joining, TypeOK, RunsOK
  <2>6. handler \in Runs \/ ~Joining(handler)
    BY DEF Joining
  <2>7. Resolving'
    BY <2>1, <2>2, <2>3, <2>4, <2>5, <2>6 DEF Resolving, TypeOK, OthersOK, Runs
  <2>8. LookingUp'
    BY <2>1, <2>2, <2>3, <2>4 DEF LookingUp, TypeOK, LookupOK, Runs
  <2> QED
    BY <2>7, <2>8
<1>4. ASSUME NEW i \in Runs, FxNew(i) PROVE Resolving' /\ LookingUp'
  <2>1. i = last /\ UNCHANGED <<last, conf>>
    BY <1>4 DEF FxNew, Order
  <2>2. PICK to \in {"start", "failed"} : pc' = [pc EXCEPT ![i] = to]
    BY <1>4 DEF FxNew
  <2>3. \A j \in Runs : pc'[j] = IF j = i THEN to ELSE pc[j]
    BY <2>2 DEF TypeOK, RunsOK
  <2>4. \A j \in Runs : ~Joining(j)'
    BY <2>1, <2>3 DEF Joining, Order
  <2>5. CASE pc[i] = "new" /\ UNCHANGED dnsVars
    <3>1. \A j \in Runs : ~Joining(j)
      BY <2>1, <2>5 DEF Joining, Order
    <3> QED
      BY <1>2, <2>1, <2>4, <2>5, <3>1
  <2>6. CASE SetResolver(i) /\ (pc[i] = "dns" \/ conf[i].dns = "dot")
    <3>1. pc[i] = "dns" => handler = i
      BY DEF Resolving, Joining
    <3>2. Resolving'
      BY <2>1, <2>4, <2>6, <3>1 DEF SetResolver, Resolving, Runs
    <3>3. LookingUp'
      BY <2>1, <2>6 DEF SetResolver, JoinLookup, LookingUp, TypeOK, LookupOK
    <3> QED
      BY <3>2, <3>3
  <2> QED
    BY <1>4, <2>5, <2>6 DEF FxNew, InitDNS
<1>5. CASE ReceiveTo
  <2>1. UNCHANGED <<pc, resolver, handler, latest, last, conf>>
    BY <1>5 DEF ReceiveTo
  <2>2. via' = resolver /\ seen' = {latest} \cup {i \in Runs : pc[i] = "dns"}
    BY <1>5 DEF ReceiveTo
  <2>3. Resolving'
    BY <2>1 DEF Resolving, Joining
  <2>4. LookingUp'
    BY <2>1, <2>2 DEF LookingUp, Resolving, Joining
  <2> QED
    BY <2>3, <2>4
<1>6. CASE DialFunction \/ AskAgain \/ Answered
  BY <1>6 DEF DialFunction, ServerOf, AskAgain, Answered, Resolving, LookingUp, Joining
<1>7. AndroidRun \/ ClientExec => \E c \in Configs : Begin(c)
  BY DEF AndroidRun, ClientExec, TypeOK, OthersOK, Order
<1>8. ASSUME NEW i \in Runs, NewDoHResolverFactory(i) PROVE Resolving' /\ LookingUp'
  <2>1. i = last /\ pc[i] = "new"
    BY <1>8 DEF NewDoHResolverFactory, Order
  <2>2. \A j \in Runs : pc'[j] = IF j = i THEN "dns" ELSE pc[j]
    BY <1>8 DEF NewDoHResolverFactory, TypeOK, RunsOK
  <2>3. Joining(i)' /\ \A j \in Runs : Joining(j)' => j = i
    BY <2>1, <2>2 DEF Joining, Order
  <2>4. handler' = i /\ UNCHANGED <<resolver, latest, last, conf>>
    BY <1>8 DEF NewDoHResolverFactory, HandleFunc
  <2>5. Resolving'
    BY <2>3, <2>4 DEF Resolving, Joining
  <2>6. LookingUp'
    BY <1>8, <2>4 DEF NewDoHResolverFactory, JoinLookup, LookingUp
  <2> QED
    BY <2>5, <2>6
<1>9. ASSUME NEW i \in Runs,
             Start(i) \/ Serve(i) \/ React(i) \/ Cancel(i) \/ StopLatest(i) \/ Return(i)
      PROVE  Resolving' /\ LookingUp'
  <2>1. PICK to \in {"serve", "serving", "returned", "cancelled", "ended", "failed"} :
          pc' = [pc EXCEPT ![i] = to]
    BY <1>9 DEF Start, Serve, React, Cancel, StopLatest, Return
  <2>2. pc[i] # "dns" /\ UNCHANGED <<dnsVars, last, conf>>
    BY <1>9 DEF Start, Serve, React, Cancel, StopLatest, Return
  <2>3. \A j \in Runs : pc'[j] = IF j = i THEN to ELSE pc[j]
    BY <2>1 DEF TypeOK, RunsOK
  <2>4. \A j \in Runs : Joining(j)' <=> Joining(j)
    BY <2>2, <2>3 DEF Joining
  <2> QED
    BY <1>2, <2>2, <2>4
<1>10. ASSUME UNCHANGED <<dnsVars, last, conf, pc>> PROVE Resolving' /\ LookingUp'
  BY <1>2, <1>10 DEF Joining
<1> QED
  BY <1>1, <1>3, <1>4, <1>5, <1>6, <1>7, <1>8, <1>9, <1>10
  DEF Next, RunStep, SaveEnds, SaveConfFile, Save, SaveClient, NewAndroid, DesktopRun,
      StartSocks, Stop, Shutdown, StopApp, StopHooks, vars

(* The server that was asked is that of a run that was the latest.         *)
LEMMA AnsweredStep ==
  LookingUp /\ AnsweredByLatest /\ [Next]_vars => AnsweredByLatest'
<1> SUFFICES ASSUME LookingUp, AnsweredByLatest, [Next]_vars PROVE AnsweredByLatest'
  OBVIOUS
<1> USE DEF dnsVars, lookupVars
<1>1. CASE DialFunction
  BY <1>1 DEF DialFunction, ServerOf, LookingUp, AnsweredByLatest
<1>2. ASSUME at' = "asked" => at = "asked" /\ by' = by /\ seen \subseteq seen'
      PROVE  AnsweredByLatest'
  BY <1>2 DEF AnsweredByLatest
<1>3. ASSUME NEW i \in Runs, FxNew(i) PROVE AnsweredByLatest'
  BY <1>2, <1>3 DEF FxNew, InitDNS, SetResolver, JoinLookup
<1>4. CASE UNCHANGED <<at, by, seen>>
  BY <1>2, <1>4
<1>5. CASE Kill \/ ReceiveTo \/ AskAgain \/ Answered
  BY <1>2, <1>5 DEF Kill, ReceiveTo, AskAgain, Answered
<1>6. ASSUME NEW i \in Runs, NewDoHResolverFactory(i) PROVE AnsweredByLatest'
  BY <1>2, <1>6 DEF NewDoHResolverFactory, JoinLookup
<1> QED
  BY <1>1, <1>3, <1>4, <1>5, <1>6
  DEF Next, RunStep, SaveEnds, SaveConfFile, Save, SaveClient, NewAndroid, DesktopRun,
      AndroidRun, ClientExec, Begin, Start, Serve, React, Cancel, StopLatest, Return,
      StartSocks, Stop, Shutdown, StopApp, StopHooks, vars

(* A DNS packet is answered as a run wants it that was the latest to set   *)
(* up a resolver during the lookup, or was at it: AnsweredByLatest, over   *)
(* any number of runs.                                                     *)
THEOREM AppAnsweredByLatest == Spec => []AnsweredByLatest
<1>1. Init => Resolving /\ LookingUp /\ AnsweredByLatest
  BY DEF Init, Resolving, LookingUp, AnsweredByLatest, Joining
<1> QED
  BY <1>1, ResolvingStep, AnsweredStep, AppTypes, PTL DEF Spec
-----------------------------------------------------------------------------
(* A run that began before an earlier one had ended stays marked.          *)
LEMMA OverlapStep == TypeOK /\ Order /\ OverlapMarked /\ [Next]_vars => OverlapMarked'
<1> SUFFICES ASSUME TypeOK, Order, OverlapMarked, [Next]_vars PROVE OverlapMarked'
  OBVIOUS
<1> USE AppAssumption DEF AppAssumption, runVars, lookupRest
<1>1. CASE Kill
  BY <1>1 DEF Kill, OverlapMarked, Runs
<1>2. ASSUME UNCHANGED <<pc, last, overlapped>> PROVE OverlapMarked'
  BY <1>2 DEF OverlapMarked, Over
<1>3. ASSUME NEW c \in Configs, Begin(c) PROVE OverlapMarked'
  <2>1. last' = last + 1 /\ last' \in Runs /\ last \in Nat
    BY <1>3 DEF Begin, TypeOK, RunsOK, Runs
  <2>2. \A i \in Runs : i # last' => pc'[i] = pc[i]
    BY <1>3, <2>1 DEF Begin, TypeOK, RunsOK
  <2>3. /\ overlapped \subseteq overlapped'
        /\ (\E j \in 1 .. last : ~Over(j)) => last' \in overlapped'
    BY <1>3 DEF Begin
  <2>4. ASSUME NEW i \in Runs, NEW j \in Runs, i < j, j <= last', ~Over(i)'
        PROVE  j \in overlapped'
    <3>1. i # last' /\ i \in 1 .. last
      BY <2>1, <2>4 DEF Runs
    <3>2. ~Over(i)
      BY <2>2, <2>4, <3>1 DEF Over
    <3>3. CASE j = last'
      BY <2>3, <3>1, <3>2, <3>3
    <3>4. CASE j # last'
      <4>1. j <= last
        BY <2>1, <2>4, <3>4 DEF Runs
      <4> QED
        BY <2>3, <2>4, <3>2, <4>1 DEF OverlapMarked
    <3> QED
      BY <3>3, <3>4
  <2> QED
    BY <2>4 DEF OverlapMarked
<1>4. ASSUME NEW i \in Runs, RunStep(i) \/ React(i) PROVE OverlapMarked'
  <2>1. PICK to : pc' = [pc EXCEPT ![i] = to]
    BY <1>4 DEF RunStep, NewDoHResolverFactory, FxNew, Start, Serve, React, Cancel, StopLatest, Return
  <2>2. ~Over(i) /\ UNCHANGED <<last, overlapped>>
    BY <1>4 DEF RunStep, NewDoHResolverFactory, FxNew, Start, Serve, React, Cancel, StopLatest, Return, Over
  <2>3. \A j \in Runs : j # i => pc'[j] = pc[j]
    BY <2>1 DEF TypeOK, RunsOK
  <2>4. \A j \in Runs : ~Over(j)' => ~Over(j)
    BY <2>2, <2>3 DEF Over
  <2> QED
    BY <2>2, <2>4 DEF OverlapMarked
<1>5. AndroidRun \/ ClientExec => \E c \in Configs : Begin(c)
  BY DEF AndroidRun, ClientExec, TypeOK, OthersOK, Order
<1> QED
  BY <1>1, <1>2, <1>3, <1>4, <1>5
  DEF Next, SaveEnds, SaveConfFile, Save, SaveClient, NewAndroid, DesktopRun,
      StartSocks, Stop, Shutdown, StopApp, StopHooks, ReceiveTo, DialFunction,
      AskAgain, Answered, vars

(* app.Stop has a cause, and "old" only for an application so marked.      *)
LEMMA AppStopCause ==
  ASSUME TypeOK, StoppingForCause, StoppedForCause, NEW i \in Runs,
         NEW who \in {"user", "self", "old"}, AppStop(i, who),
         who = "old" => i \in overlapped, UNCHANGED overlapped
  PROVE  StoppingForCause' /\ StoppedForCause'
<1>1. \A j \in Runs : stopping'[j] = IF j = i THEN stopping[i] + 1 ELSE stopping[j]
  BY DEF AppStop, TypeOK, StopsOK
<1>2. \A j \in Runs : causes'[j] = IF j = i THEN causes[i] \cup {who} ELSE causes[j]
  <2>1. causes \in [Runs -> SUBSET {"user", "self", "old"}]
    BY DEF TypeOK, StopsOK
  <2>2. causes' = [causes EXCEPT ![i] = @ \cup {who}]
    BY DEF AppStop
  <2> QED
    BY <2>1, <2>2, Zenon
<1>3. \A j \in Runs : /\ causes'[j] # {} \/ causes'[j] = causes[j]
                      /\ j = i => causes'[j] # {}
                      /\ "old" \in causes'[j] => "old" \in causes[j] \/ (j = i /\ who = "old")
  BY <1>2
<1>4. UNCHANGED tokens
  BY DEF AppStop
<1> QED
  BY <1>1, <1>3, <1>4 DEF StoppingForCause, StoppedForCause

(* Every step keeps the causes.                                            *)
LEMMA CauseStep ==
  TypeOK /\ Order /\ OverlapMarked /\ StoppingForCause /\ StoppedForCause /\ [Next]_vars
    => StoppingForCause' /\ StoppedForCause'
<1> SUFFICES ASSUME TypeOK, Order, OverlapMarked, StoppingForCause, StoppedForCause, [Next]_vars
             PROVE  StoppingForCause' /\ StoppedForCause'
  OBVIOUS
<1> USE AppAssumption DEF AppAssumption, stopVars, runVars, lookupRest
<1>1. CASE Kill
  BY <1>1 DEF Kill, StoppingForCause, StoppedForCause
<1>2. ASSUME UNCHANGED <<stopping, causes, tokens>>, overlapped \subseteq overlapped'
      PROVE  StoppingForCause' /\ StoppedForCause'
  BY <1>2 DEF StoppingForCause, StoppedForCause
<1>3. ASSUME NEW i \in Runs, React(i) PROVE StoppingForCause' /\ StoppedForCause'
  <2>1. \A j \in Runs : tokens'[j] > 0 => tokens[j] > 0
    BY <1>3 DEF React, TypeOK, StopsOK
  <2> QED
    BY <1>3, <2>1 DEF React, StoppingForCause, StoppedForCause
<1>4. ASSUME NEW i \in Runs, StopLatest(i) PROVE StoppingForCause' /\ StoppedForCause'
  <2>1. i <= appOf /\ appOf <= last /\ appOf \in Runs
    BY <1>4 DEF StopLatest, TypeOK, RunsOK, Order, Runs
  <2>2. appOf # i => appOf \in overlapped
    BY <1>4, <2>1 DEF StopLatest, OverlapMarked, Over, Runs
  <2> QED
    BY <1>4, <2>1, <2>2, AppStopCause DEF StopLatest
<1>5. ASSUME NEW i \in Runs, Return(i) PROVE StoppingForCause' /\ StoppedForCause'
  <2>1. CASE platform = "cli"
    BY <1>5, <2>1, AppStopCause DEF Return
  <2>2. CASE platform # "cli"
    BY <1>2, <1>5, <2>2 DEF Return
  <2> QED
    BY <2>1, <2>2
<1>6. CASE StopApp
  <2>1. appOf \in Runs
    BY <1>6 DEF StopApp, TypeOK, RunsOK, Order
  <2> QED
    BY <1>6, <2>1, AppStopCause DEF StopApp
<1>7. ASSUME NEW i \in Runs, StopHooks(i) PROVE StoppingForCause' /\ StoppedForCause'
  <2>1. causes[i] # {} /\ UNCHANGED <<causes, overlapped>>
    BY <1>7 DEF StopHooks, StoppingForCause
  <2>2. \A j \in Runs : j # i => stopping'[j] = stopping[j] /\ tokens'[j] = tokens[j]
    BY <1>7 DEF StopHooks, OnStop, TypeOK, StopsOK
  <2> QED
    BY <2>1, <2>2 DEF StoppingForCause, StoppedForCause
<1>8. ASSUME NEW c, Begin(c) PROVE StoppingForCause' /\ StoppedForCause'
  BY <1>2, <1>8 DEF Begin
<1>9. ASSUME NEW i \in Runs, NewDoHResolverFactory(i) \/ FxNew(i) \/ Start(i) \/ Serve(i) \/ Cancel(i)
      PROVE  StoppingForCause' /\ StoppedForCause'
  BY <1>2, <1>9 DEF NewDoHResolverFactory, FxNew, Start, Serve, Cancel
<1>10. CASE SaveEnds \/ StartSocks \/ Stop \/ Shutdown
            \/ (\E c \in Configs : SaveConfFile(c) \/ Save(c))
            \/ (\E c \in Configs \cup {file} : NewAndroid(c))
  BY <1>2, <1>10 DEF SaveEnds, SaveConfFile, Save, SaveClient, NewAndroid, StartSocks, Stop,
                     Shutdown
<1>11. CASE ReceiveTo \/ DialFunction \/ AskAgain \/ Answered
  BY <1>2, <1>11 DEF ReceiveTo, DialFunction, AskAgain, Answered
<1>12. CASE UNCHANGED vars
  BY <1>2, <1>12 DEF vars
<1> QED
  BY <1>1, <1>3, <1>4, <1>5, <1>6, <1>7, <1>8, <1>9, <1>10, <1>11, <1>12
  DEF Next, RunStep, DesktopRun, AndroidRun, ClientExec

(* A client is told to shut down only for a cause, and by the end of an    *)
(* earlier run only if the two overlapped: StoppedForCause, for every run. *)
THEOREM AppStoppedForCause == Spec => []StoppedForCause
<1>1. Init => OverlapMarked /\ StoppingForCause /\ StoppedForCause
  BY DEF Init, OverlapMarked, StoppingForCause, StoppedForCause, Runs
<1> QED
  BY <1>1, OverlapStep, CauseStep, AppTypes, PTL DEF Spec
=============================================================================
