-------------------------------- MODULE App --------------------------------
(***************************************************************************)
(* The programs that run a client: the desktop library (cmd/desktop), the  *)
(* mobile library (cmd/relaybaton_mobile) and the command line.  Each run  *)
(* builds an fx application, starts it and serves until a stop is asked    *)
(* for: app.Stop runs the client's OnStop in a goroutine of its own,       *)
(* OnStop puts a token in the client's channel, and the client looks there *)
(* with every frame it receives.                                           *)
(*                                                                         *)
(* The libraries keep app, ctx and cancel of the latest run in variables   *)
(* that Stop and the ends of earlier runs share; net.DefaultResolver and   *)
(* the DNS server on port 1083 belong to the process and outlive a run.    *)
(* A killed process leaves the configuration file as it is.                *)
(*                                                                         *)
(* The callers are a user interface outside the repository: it makes one   *)
(* call of the desktop library at a time and starts one run at a time.     *)
(***************************************************************************)
EXTENDS Config

CONSTANTS
  Configs,     \* configurations a form, a file or a caller may hold
  NoConf,      \* no configuration, no file
  MaxRuns,     \* bound: runs of a process
  MaxStops,    \* bound: calls of Stop or Shutdown
  Platforms    \* of "desktop", "mobile", "cli"

ASSUME AppAssumption ==
  /\ MaxRuns \in Nat /\ MaxStops \in Nat
  /\ NoConf \notin Configs
  /\ \A c \in Configs : c.port \in Nat /\ c.http \in Nat /\ c.redir \in Nat
  /\ Platforms \subseteq {"desktop", "mobile", "cli"}

Runs == 1 .. MaxRuns

VARIABLES
  platform,
  file,        \* the configuration file
  torn,        \* history: it was truncated and not written to its end: "yes", "no"
  saving,      \* what a Save is writing to it, NoConf when none is under way
  mem,         \* android.conf
  last,        \* runs so far
  conf,        \* the configuration of each run
  pc,          \* where each run is
  ctxOf,       \* the run that ctx and cancel belong to, 0 for none
  appOf,       \* the run that app belongs to
  cancelled,   \* the runs whose context is cancelled
  started,     \* the runs whose hooks fx has yet to stop
  stopping,    \* goroutines of app.Stop of each run's application
  tokens,      \* client.shutdown
  caller,      \* the call of Stop or Shutdown: "idle", "stop"
  stops,
  stack,       \* lwipStack: "none", "up", "closed"
  resolver,    \* the run whose resolver is net.DefaultResolver, 0 for Go's own
  handler,     \* the run whose factory handles the DNS server's requests
  at,          \* the lookup for a DNS packet: "idle", "dial", "asked"
  via,         \* the run whose resolver it uses
  by,          \* the run whose server it asks; for both, 0 is Go's own resolver
  seen,        \* history: the runs that were the latest, or about to be, since it began
  latest,      \* history: the latest run that has set up a resolver
  asked,       \* history: the runs a stop was asked for after their start
  causes,      \* history: who stopped each run: "user", "self", "old"
  overlapped   \* history: the runs begun before all earlier ones had ended

fileVars == <<file, torn, saving, mem>>
globals == <<ctxOf, appOf>>
stopVars == <<cancelled, started, stopping, tokens, asked, causes>>
callVars == <<caller, stops, stack>>
lookupVars == <<at, via, by, seen>>
dnsVars == <<resolver, handler, latest, lookupVars>>
runVars == <<last, conf, pc, overlapped>>
vars == <<platform, fileVars, globals, stopVars, callVars, dnsVars, runVars>>

Init ==
  /\ platform \in Platforms
  /\ file \in IF platform = "cli" THEN Configs ELSE {NoConf}
  /\ mem = NoConf /\ saving = NoConf /\ torn = "no"
  /\ last = 0
  /\ conf = [i \in Runs |-> NoConf]
  /\ pc = [i \in Runs |-> "none"]
  /\ ctxOf = 0 /\ appOf = 0
  /\ cancelled = {} /\ started = {} /\ asked = {} /\ overlapped = {}
  /\ stopping = [i \in Runs |-> 0]
  /\ tokens = [i \in Runs |-> 0]
  /\ causes = [i \in Runs |-> {}]
  /\ caller = "idle" /\ stops = 0 /\ stack = "none"
  /\ resolver = 0 /\ handler = 0 /\ latest = 0
  /\ at = "idle" /\ via = 0 /\ by = 0 /\ seen = {}

(* The process is killed and begins again; the file is what is left.       *)
Kill ==
  /\ mem' = NoConf /\ saving' = NoConf
  /\ last' = 0
  /\ conf' = [i \in Runs |-> NoConf]
  /\ pc' = [i \in Runs |-> "none"]
  /\ ctxOf' = 0 /\ appOf' = 0
  /\ cancelled' = {} /\ started' = {} /\ asked' = {} /\ overlapped' = {}
  /\ stopping' = [i \in Runs |-> 0]
  /\ tokens' = [i \in Runs |-> 0]
  /\ causes' = [i \in Runs |-> {}]
  /\ caller' = "idle" /\ stops' = 0 /\ stack' = "none"
  /\ resolver' = 0 /\ handler' = 0 /\ latest' = 0
  /\ at' = "idle" /\ via' = 0 /\ by' = 0 /\ seen' = {}
  /\ UNCHANGED <<platform, file, torn>>
-----------------------------------------------------------------------------
(* The configuration file.                                                 *)

(* Validate, and OpenConfFile of a file that holds c, in the desktop       *)
(* library.                                                                *)
Validate(c) == StructValid(c) /\ ClientValid(c)
OpenConfFile(c) == StructValid(c) /\ ClientValid(c)

(* What SaveConfFile checks before it saves.                               *)
SaveChecks(c) == Validate(c) /\ ConfigInit(c)

(* SaveClient, from viper's truncation of the file on: whatever ends it    *)
(* leaves the file cut at some point ...                                   *)
SaveClient(c) ==
  /\ saving = NoConf
  /\ saving' = c
  /\ file' \in {Cut(c, k) : k \in CutPoints}
  /\ torn' = "yes"
  /\ UNCHANGED <<platform, mem, globals, stopVars, callVars, dnsVars, runVars>>

SaveConfFile(c) ==
  platform = "desktop" /\ caller = "idle" /\ SaveChecks(c) /\ SaveClient(c)

(* Save, of an Android object; its ports are fixed.                        *)
Save(c) ==
  /\ platform = "mobile" /\ mem # NoConf
  /\ <<c.port, c.http, c.redir>> = <<1080, 1088, 1090>>
  /\ ConfigInit(c)
  /\ SaveClient(c)

(* ... unless it is written to its end; otherwise an error is returned.    *)
SaveEnds ==
  /\ saving # NoConf
  /\ saving' = NoConf
  /\ \/ /\ file' = saving /\ torn' = "no"
        /\ mem' = IF platform = "mobile" THEN saving ELSE mem
     \/ UNCHANGED <<file, torn, mem>>
  /\ UNCHANGED <<platform, globals, stopVars, callVars, dnsVars, runVars>>

(* What the library accepts of a file: NewAndroid initializes and          *)
(* validates it, OpenConfFile only validates.                              *)
Opens(c) ==
  IF platform = "mobile" THEN ConfigInit(c) /\ ClientValid(c) ELSE OpenConfFile(c)

(* NewAndroid of the file's text, or of a first configuration.             *)
NewAndroid(c) ==
  /\ platform = "mobile" /\ mem = NoConf /\ saving = NoConf
  /\ c \in IF file = NoConf THEN Configs ELSE {file}
  /\ Opens(c)
  /\ mem' = c
  /\ UNCHANGED <<platform, file, torn, saving, globals, stopVars, callVars, dnsVars, runVars>>
-----------------------------------------------------------------------------
(* The start of a run.                                                     *)

Over(i) == pc[i] \in {"failed", "ended"}

(* A Run is between its first line and the start of the client.            *)
Starting == \E i \in Runs : pc[i] \in {"new", "dns", "start"}

(* ctx, cancel = context.WithCancel(...)                                   *)
Begin(c) ==
  /\ ~Starting /\ last < MaxRuns
  /\ last' = last + 1
  /\ conf' = [conf EXCEPT ![last'] = c]
  /\ pc' = [pc EXCEPT ![last'] = "new"]
  /\ ctxOf' = last'
  /\ overlapped' = IF \A j \in 1 .. last : Over(j) THEN overlapped
                                                   ELSE overlapped \cup {last'}
  /\ UNCHANGED <<platform, fileVars, appOf, stopVars, callVars, dnsVars>>

(* Run of the desktop library, of the mobile library, and of the command.  *)
DesktopRun(c) == platform = "desktop" /\ caller = "idle" /\ saving = NoConf /\ Begin(c)
AndroidRun == platform = "mobile" /\ mem # NoConf /\ Begin(mem)
ClientExec == platform = "cli" /\ last = 0 /\ Begin(file)

(* The provider of the configuration: ConfigTOML.Init and InitClient, which*)
(* the mobile library leaves to NewAndroid and Save.                       *)
Provides(c) == platform = "mobile" \/ (ConfigInit(c) /\ ClientValid(c))

(* Fault: a factory does not replace the handler of an earlier one.        *)
HandleFuncOnce(i) == handler' = IF handler = 0 THEN i ELSE handler

(* dns.HandleFunc(".", factory.handleRequest): one handler for every DNS   *)
(* server of the process.  The first one keeps port 1083, the ones that    *)
(* later factories start cannot listen.                                    *)
HandleFunc(i) == handler' = i

(* Run i begins to answer lookups that are under way.                      *)
JoinLookup(i) == seen' = IF at = "idle" THEN seen ELSE seen \cup {i}

(* NewDoHResolverFactory, which InitDNS calls: from now on the factory of  *)
(* run i answers what any DoH resolver of the process asks, that of an     *)
(* earlier run among them.                                                 *)
NewDoHResolverFactory(i) ==
  /\ pc[i] = "new"
  /\ Provides(conf[i])
  /\ conf[i].dns = "doh"
  /\ HandleFunc(i)
  /\ JoinLookup(i)
  /\ pc' = [pc EXCEPT ![i] = "dns"]
  /\ UNCHANGED <<platform, fileVars, globals, stopVars, callVars, resolver, latest, at, via,
                 by, last, conf, overlapped>>

(* The resolver of run i becomes net.DefaultResolver.                      *)
SetResolver(i) ==
  /\ resolver' = i /\ latest' = i
  /\ JoinLookup(i)
  /\ UNCHANGED <<handler, at, via, by>>

(* The end of InitDNS; a DoH factory may have been refused for the name of *)
(* its server.                                                             *)
InitDNS(i) ==
  \/ pc[i] = "new" /\ conf[i].dns \in {"default", "doh"} /\ UNCHANGED dnsVars
  \/ pc[i] = "new" /\ conf[i].dns = "dot" /\ SetResolver(i)
  \/ pc[i] = "dns" /\ SetResolver(i)

(* app = fx.New(...): the configuration, InitLog, InitDNS, and then the    *)
(* client with its router, whose databases may fail to open.  After a      *)
(* failure app.Start only returns the error: desktop and mobile Run return *)
(* it (the mobile one cancels its own context, which nobody uses again);   *)
(* the command logs it and ends at its nil client.                         *)
FxNew(i) ==
  /\ pc[i] \in {"new", "dns"}
  /\ \/ /\ Provides(conf[i])
        /\ InitDNS(i)
        /\ \E to \in {"start", "failed"} : pc' = [pc EXCEPT ![i] = to]
     \/ /\ pc[i] = "new" /\ ~Provides(conf[i])
        /\ pc' = [pc EXCEPT ![i] = "failed"]
        /\ UNCHANGED dnsVars
  /\ appOf' = i
  /\ UNCHANGED <<platform, fileVars, ctxOf, stopVars, callVars, last, conf, overlapped>>

(* app.Start(ctx): the hooks are started even if the context is cancelled  *)
(* and Start returns its error, which the command only logs.               *)
Start(i) ==
  /\ pc[i] = "start"
  /\ started' = started \cup {i}
  /\ \/ pc' = [pc EXCEPT ![i] = "serve"]
     \/ i \in cancelled /\ pc' = [pc EXCEPT ![i] = "failed"]
  /\ UNCHANGED <<platform, fileVars, globals, cancelled, stopping, tokens, asked, causes,
                 callVars, dnsVars, last, conf, overlapped>>
-----------------------------------------------------------------------------
(* The client, from gnet.Serve to its return.                              *)

PortOf(i) == ClientInit(conf[i]).port

Serve(i) ==
  /\ pc[i] = "serve"
  /\ \/ /\ \A j \in Runs : pc[j] = "serving" => PortOf(j) # PortOf(i)
        /\ pc' = [pc EXCEPT ![i] = "serving"]
     \/ pc' = [pc EXCEPT ![i] = "returned"]
  /\ UNCHANGED <<platform, fileVars, globals, stopVars, callVars, dnsVars, last, conf,
                 overlapped>>

(* React with a frame, when there is a token: gnet.Shutdown.               *)
React(i) ==
  /\ pc[i] = "serving" /\ tokens[i] > 0
  /\ tokens' = [tokens EXCEPT ![i] = @ - 1]
  /\ pc' = [pc EXCEPT ![i] = "returned"]
  /\ UNCHANGED <<platform, fileVars, globals, cancelled, started, stopping, asked, causes,
                 callVars, dnsVars, last, conf, overlapped>>

(* app.Stop(ctx), by someone: a goroutine will stop application i.         *)
AppStop(i, who) ==
  /\ stopping' = [stopping EXCEPT ![i] = @ + 1]
  /\ causes' = [causes EXCEPT ![i] = @ \cup {who}]
  /\ asked' = IF i \in started THEN asked \cup {i} ELSE asked
  /\ UNCHANGED <<started, tokens>>

(* The end of a run.  The desktop library's deferred function cancels and  *)
(* stops whatever ctx and app are by then, in two steps.                   *)
Cancel(i) ==
  /\ platform = "desktop" /\ pc[i] = "returned"
  /\ cancelled' = cancelled \cup {ctxOf}
  /\ pc' = [pc EXCEPT ![i] = "cancelled"]
  /\ UNCHANGED <<platform, fileVars, globals, started, stopping, tokens, asked, causes,
                 callVars, dnsVars, last, conf, overlapped>>

StopLatest(i) ==
  /\ pc[i] = "cancelled"
  /\ AppStop(appOf, IF appOf = i THEN "self" ELSE "old")
  /\ pc' = [pc EXCEPT ![i] = "ended"]
  /\ UNCHANGED <<platform, fileVars, globals, cancelled, callVars, dnsVars, last, conf,
                 overlapped>>

(* The mobile library only cancels its own context; the command stops its  *)
(* own application first.                                                  *)
Return(i) ==
  /\ platform # "desktop" /\ pc[i] = "returned"
  /\ cancelled' = cancelled \cup {i}
  /\ pc' = [pc EXCEPT ![i] = "ended"]
  /\ IF platform = "cli" THEN AppStop(i, "self")
                         ELSE UNCHANGED <<started, stopping, tokens, asked, causes>>
  /\ UNCHANGED <<platform, fileVars, globals, callVars, dnsVars, last, conf, overlapped>>
-----------------------------------------------------------------------------
(* Stop.                                                                   *)

(* StartSocks                                                              *)
StartSocks ==
  /\ platform = "mobile" /\ stack # "up"
  /\ stack' = "up"
  /\ UNCHANGED <<platform, fileVars, globals, stopVars, caller, stops, dnsVars, runVars>>

(* Stop of the desktop library, up to cancel().                            *)
Stop ==
  /\ platform = "desktop" /\ caller = "idle" /\ saving = NoConf /\ stops < MaxStops
  /\ appOf # 0 /\ ~Starting
  /\ caller' = "stop" /\ stops' = stops + 1
  /\ cancelled' = cancelled \cup {ctxOf}
  /\ UNCHANGED <<platform, fileVars, globals, started, stopping, tokens, asked, causes, stack,
                 dnsVars, runVars>>

(* Shutdown of the mobile library, up to lwipStack.Close(); if that fails  *)
(* it returns.                                                             *)
Shutdown ==
  /\ platform = "mobile" /\ caller = "idle" /\ stops < MaxStops
  /\ appOf # 0 /\ stack # "none"
  /\ stops' = stops + 1
  /\ cancelled' = cancelled \cup {ctxOf}
  /\ \/ caller' = "stop" /\ stack' = "closed"
     \/ UNCHANGED <<caller, stack>>
  /\ UNCHANGED <<platform, fileVars, globals, started, stopping, tokens, asked, causes,
                 dnsVars, runVars>>

(* Both end with app.Stop(ctx).                                            *)
StopApp ==
  /\ caller = "stop"
  /\ caller' = "idle"
  /\ AppStop(appOf, "user")
  /\ UNCHANGED <<platform, fileVars, globals, cancelled, stops, stack, dnsVars, runVars>>

(* Fault: the token goes to the client of the latest run.                  *)
OnStopLatest(i) == tokens' = [tokens EXCEPT ![appOf] = @ + 1]

(* Fault: OnStop gives up when its context is cancelled.                   *)
OnStopUnlessCancelled(i) ==
  tokens' = IF i \in cancelled THEN tokens ELSE [tokens EXCEPT ![i] = @ + 1]

(* client.shutdown <- 0x00, into a channel for ten: no client is stopped   *)
(* as often as that here (MaxStops).                                       *)
OnStop(i) == tokens' = [tokens EXCEPT ![i] = @ + 1]

(* A goroutine of app.Stop: the hooks are stopped if they were started and *)
(* not stopped yet.  Two of them may run the hooks both.                   *)
StopHooks(i) ==
  /\ stopping[i] > 0
  /\ stopping' = [stopping EXCEPT ![i] = @ - 1]
  /\ \/ /\ i \in started
        /\ OnStop(i)
        /\ \/ started' = started \ {i}
           \/ stopping[i] > 1 /\ UNCHANGED started
     \/ /\ i \notin started
        /\ UNCHANGED <<started, tokens>>
  /\ UNCHANGED <<platform, fileVars, globals, cancelled, asked, causes, callVars, dnsVars,
                 runVars>>
-----------------------------------------------------------------------------
(* DNS packets of the mobile library's TUN device, one at a time.          *)

lookupRest == <<platform, fileVars, globals, stopVars, callVars, runVars, resolver,
                handler, latest>>

(* ReceiveTo, at a question of a packet for port 53: net.DefaultResolver   *)
(* looks its name up.                                                      *)
ReceiveTo ==
  /\ platform = "mobile" /\ stack = "up" /\ at = "idle"
  /\ at' = "dial" /\ via' = resolver
  /\ seen' = {latest} \cup {i \in Runs : pc[i] = "dns"}
  /\ UNCHANGED <<by, lookupRest>>

(* Who serves what the resolver of run i asks: with DoT its own server,    *)
(* with DoH the handler the server on port 1083 has at that time.          *)
ServerOf(i) == IF i # 0 /\ conf[i].dns = "doh" THEN handler ELSE i

(* The resolver dials and asks.                                            *)
DialFunction ==
  /\ at = "dial"
  /\ at' = "asked"
  /\ by' = ServerOf(via)
  /\ UNCHANGED <<via, seen, lookupRest>>

(* No answer, or handleRequest has returned without one: once more.        *)
AskAgain ==
  /\ at = "asked"
  /\ at' = "dial" /\ by' = 0
  /\ UNCHANGED <<via, seen, lookupRest>>

(* The answer is written to the packet's sender, or dropped (the records   *)
(* made for AAAA and MX never parse), or there is none after all.  Then    *)
(* comes the next question, if any.                                        *)
Answered ==
  /\ at = "asked"
  /\ at' = "idle" /\ via' = 0 /\ by' = 0 /\ seen' = {}
  /\ UNCHANGED lookupRest
-----------------------------------------------------------------------------
RunStep(i) ==
  \/ NewDoHResolverFactory(i) \/ FxNew(i) \/ Start(i)
  \/ Serve(i) \/ Cancel(i) \/ StopLatest(i) \/ Return(i)

Next ==
  \/ Kill \/ SaveEnds \/ AndroidRun \/ ClientExec \/ StartSocks \/ Stop \/ Shutdown \/ StopApp
  \/ \E c \in Configs : SaveConfFile(c) \/ Save(c) \/ DesktopRun(c)
  \/ \E c \in Configs \cup {file} : NewAndroid(c)
  \/ \E i \in Runs : RunStep(i) \/ React(i) \/ StopHooks(i)
  \/ ReceiveTo \/ DialFunction \/ AskAgain \/ Answered

Spec == Init /\ [][Next]_vars

(* Goroutines and calls under way go on.  Nobody has to send frames.       *)
Fairness ==
  /\ \A i \in Runs : WF_vars(RunStep(i)) /\ WF_vars(StopHooks(i))
  /\ WF_vars(StopApp)

FairSpec == Spec /\ Fairness
-----------------------------------------------------------------------------
RunsOK ==
  /\ last \in {0} \cup Runs
  /\ conf \in [Runs -> Configs \cup {NoConf}]
  /\ pc \in [Runs -> {"none", "new", "dns", "start", "serve", "serving", "returned",
                      "cancelled", "ended", "failed"}]
  /\ overlapped \subseteq Runs
  /\ ctxOf \in {0} \cup Runs /\ appOf \in {0} \cup Runs

StopsOK ==
  /\ cancelled \subseteq Runs /\ started \subseteq Runs /\ asked \subseteq Runs
  /\ stopping \in [Runs -> Nat]
  /\ tokens \in [Runs -> Nat]
  /\ causes \in [Runs -> SUBSET {"user", "self", "old"}]

OthersOK ==
  /\ platform \in Platforms
  /\ torn \in {"yes", "no"}
  /\ torn = "no" => file \in Configs \cup {NoConf}
  /\ torn = "yes" => \E c \in Configs, k \in CutPoints : file = Cut(c, k)
  /\ saving \in Configs \cup {NoConf}
  /\ mem \in Configs \cup {NoConf}
  /\ caller \in {"idle", "stop"}
  /\ stops \in 0 .. MaxStops
  /\ stack \in {"none", "up", "closed"}
  /\ resolver \in {0} \cup Runs /\ handler \in {0} \cup Runs /\ latest \in {0} \cup Runs

LookupOK ==
  /\ at \in {"idle", "dial", "asked"}
  /\ via \in {0} \cup Runs /\ by \in {0} \cup Runs
  /\ seen \subseteq {0} \cup Runs

TypeOK == RunsOK /\ StopsOK /\ OthersOK /\ LookupOK

(* A client of the desktop library or the command listens on the ports of  *)
(* its configuration, which are three different ports: nothing is lost in  *)
(* the conversion to uint16, whatever numbers the form or the file holds   *)
(* (DesktopRun calls neither Validate nor SaveConfFile).                   *)
PortsExact ==
  \A i \in Runs : platform # "mobile" /\ pc[i] = "serving"
    => /\ ClientInit(conf[i]) = [port |-> conf[i].port, http |-> conf[i].http,
                                 redir |-> conf[i].redir]
       /\ conf[i].port # conf[i].http /\ conf[i].http # conf[i].redir
       /\ conf[i].redir # conf[i].port

(* A file that an error or the end of the process has cut off is not taken *)
(* for a configuration, neither by OpenConfFile nor by NewAndroid: Save    *)
(* truncates the only copy and rewrites it in place, and what is missing   *)
(* is read as zero, so this rests on the tags and on the order in which    *)
(* the values are written.                                                 *)
TornNeverOpens == torn = "yes" => ~Opens(file)

(* A DNS packet is answered as a run wants it that was the latest to set   *)
(* up a resolver, or was at it, at some time of the lookup: although the   *)
(* server on port 1083 is that of the first run with DoH, its handler and  *)
(* net.DefaultResolver are replaced one after the other, the lookup goes   *)
(* on while other runs begin, a server is asked again, and runs fail after *)
(* InitDNS.                                                                *)
AnsweredByLatest == at = "asked" => by \in seen

(* A client is told to shut down only if its application was stopped: by   *)
(* Stop, by its own end, or by the end of an earlier run, and by that only *)
(* if the earlier run had not ended when this one began.                   *)
StoppedForCause ==
  \A i \in Runs :
    /\ tokens[i] > 0 => causes[i] # {}
    /\ "old" \in causes[i] => i \in overlapped

(* A run that is stopped after its start ends, or its client has a token   *)
(* and will end with the next frame it receives; whatever the state of its *)
(* client, of its context and of other stops under way.                    *)
StopReaches ==
  \A i \in Runs :
    i \in asked ~> \/ i \notin asked \/ Over(i)
                   \/ pc[i] = "serving" /\ tokens[i] > 0
=============================================================================
