# A TLA+ model of relaybaton

relaybaton is a circumvention proxy in Go. A *client* on the user's machine
accepts SOCKS5, HTTP CONNECT and redirected connections, decides for each
destination whether it goes through the tunnel or is dialled from here, and
forwards the bytes. A *server* accepts the tunnels as websockets, relays them to
their destinations, limits each user's rate, counts and bills the traffic, and
serves an administration web site on the same port.

This directory models that code: TLA+ modules for the components, TLC runs on
small instances, and TLAPS proofs for every instance. Paths below are relative to
`src/`.

## 1. The system

| component | state | operations | talks to |
|---|---|---|---|
| rate limiter (`pkg/core/ratelimiter.go`) | `tokens`, `waiting`, the WaitGroup `done`, three mutexes | `Run`/`add` on a ticker, `Wait`, `Available` | called by the sessions of one user |
| router (`pkg/core/router.go`) | `on`, `GeoIPDB`, the decision cache, two files | `NewRouter`, `Select`, `RemoveCache`, `Update`/`Download`, `SwitchOn`/`SwitchOff` | called by the client; its own downloads go through the client's SOCKS port, hence through `Select` |
| client (`client.go`, `conn.go`, `map.go`) | `conns` by remote address, each `Conn`'s `status` and link, gnet's task queues | gnet's callbacks `OnOpened`, `React`, `OnClosed`; the goroutines `Conn.Run`, `DirectConnect` | router, pool, SOCKS5 codec, server |
| SOCKS5 codec (`pkg/socks5`) | none | decode and encode the four messages | client |
| relay front ends (`http_server.go`, `redir_linux.go`) | two connections and two goroutines per relay | `hijackHandler.Handle`, `RedirServer.Run` | dial the client's own SOCKS port; share its pool |
| tunnel server (`server.go`) | the bucket of each user, one counter per session, the rows of the database | `requestHandler`, `GetBucket`, `Authenticate` | rate limiter, database, web bridge |
| web bridge (`internal/memsocket`, `serveWeb`) | a channel of connections | `Dial`, `Accept`, `Close`, `serveWeb` | fasthttp on one side, gin on the other |
| web administration (`server_web.go`, `pkg/webapi`, `pkg/model`) | users, plans, notices, meta, sessions in cookies, captchas | the REST handlers, each in a goroutine of its own | shares the rows with the sessions |
| configuration (`pkg/config`) | the file | validation tags, the `Init` functions, `SaveClient`, `InitDNS` | called by the programs below |
| programs (`cmd/desktop`, `cmd/relaybaton_mobile`, `internal/cmd`) | `app`, `ctx` and `cancel` of the latest run; `android.conf`; `lwipStack` | `Run`, `Stop`, `Shutdown`, `SaveConfFile`, `Save`, `NewAndroid`, `StartSocks`, `clientExec` | fx starts and stops the client; the client's `shutdown` channel |
| DNS resolvers (`pkg/dns`, `udp_handler.go`) | `net.DefaultResolver`, the DNS server on port 1083 and its handler, all of the process | the resolver factories, `handleRequest`, `ReceiveTo` | set up by each run, used by all |
| TCP segmentation, logging | see section 6 | | |

What is hard to test in it, and what each part has to get right:

* *rate limiter*: a caller and the ticker hand an amount over through two
  variables and a WaitGroup; it must be taken exactly once, no caller may be left
  asleep, and the rate must hold over every window. Unsigned arithmetic may wrap.
* *router*: the database is closed, rewritten and reopened under no lock while
  lookups go on; every step of a download can fail, the process can stop between
  any two, and the download depends on the router. No lookup may meet a bad
  database, and no decision may be unjustified in the meantime.
* *client*: goroutines and queued tasks outlive the connection they belong to,
  while its address is reused; the reply, the data and the end of a connection
  pass through a queue, whose loop dials, resolves and writes without a deadline.
  The route is asked for again on every frame.
* *SOCKS5*: TCP cuts messages anywhere; the decoders get one frame at a time.
* *relays*: the pool may refuse either goroutine, and reads, writes and `Close`
  block; closing one side has to release everything.
* *sessions*: an unlocked counter with two writers, rows that are loaded and
  saved whole by sessions and administrators, a check-then-put of the bucket.
* *web bridge*: a bounded channel and an unbuffered pipe.
* *web administration*: requests of one browser carry copies of one session and
  write them back in any order; rows change between the look at the role and the
  work; two handlers create the missing row of meta, each on its own.
* *programs*: the end of one run and the start of the next share variables; a
  stop has to reach the client it is meant for, through fx and a channel; a file
  that a killed process has cut off must not be taken for a configuration.
* *DNS*: resolver and handler outlive the run that set them up, and lookups go on
  while they are replaced.

`PROJECT.json` lists these hazards at their lines, with the properties that would
catch each.

## 2. The modules

| module | models | state and actions |
|---|---|---|
| `RateLimiter` | `ratelimiter.go` | a caller's `pc` through `Call`, `Lock`, `Refuse` or `Post`, `Return`; the ticker's `Refill`, then `Serve` or `Skip`. Available, read with no lock, is `ReadLen` |
| `TokenBucket` | the abstract specification of it | a level, ticks, and callers served against tokens taken at that moment |
| `RateMeter` | history variables over `RateLimiter` | what a window supplied and granted |
| `Router` | `router.go` | `Select` in four steps (cache, test of `on`, lookup, cache again), `Update` and `Download` one step per file operation with its failure (`Work`), the GETs and their answers (`Fetch`, `Answer`), `Start`, `Crash`, `Publish` |
| `Dispatch` | `Router` composed with the use `React` makes of it | connections that are dialled by one decision and forward frames by later ones; the update's own connections (`OwnRequest`, `OwnClosed`) |
| `Client` | `client.go`, `conn.go`, `map.go` under gnet | the generations of connections from one address, the event loop, its task queue and the calls that hold it (`ReactCalls`, `Elsewhere`), the goroutines, `OnStop` |
| `Socks5` | `pkg/socks5` on bytes | pure operators: decoders and encoders |
| `Handshake` | an application, a TCP stream that cuts and joins, `React` | the bytes in flight both ways, what was dialled, whether a write to the link has failed |
| `Relay` | `http_server.go` (CONNECT), `redir_linux.go` | both ends of both connections, the two copying goroutines (in a read, in a write, at either of their two `Close` calls or waiting in one), the client's goroutine, the pool and its other users, the accepting loop |
| `Session` | `server.go`, and `PutUser`, `DeleteUser`, `PutPlan`, `DeletePlan` of `server_web.go` | the handler and the two goroutines of each session of a user, the rows, the buckets |
| `Memsocket` | `internal/memsocket`, `serveWeb` | the channel, net.Pipe's rendezvous, net/http's side |
| `WebAdmin` | `server_web.go` | the cookie of each browser, each request's copy of it and place in its handler, the tables, the captcha store; a step per call to the database, the store or the session |
| `Config` | `pkg/config` | pure operators: what the tags and the `Init` functions accept, the ports as `uint16`, a file that ends after its first k values (`Cut`) |
| `App` | `cmd/desktop`, `cmd/relaybaton_mobile`, the client command, `SaveClient`, `InitDNS`, `pkg/dns` | the runs of a process from `Begin` through `FxNew`, `Start`, `Serve` to their end, the variables they share, the goroutines of `app.Stop`, tokens, the file, `Kill`, the DNS handler and the resolver, replaced in two steps, and one lookup at a time |
| `MC...` | instances for TLC | constants only |
| `...Proofs` | the theorems | section 4 |

Definitions whose comment begins with "Fault:" are plausible mistakes. No
specification uses them; each property is checked to fail when the mistake
replaces the definition it imitates (`PROJECT.json`, `mutants`).

Choices a reader should know:

* *Atomicity* follows the locks: what a mutex covers is one step, what is read
  and used outside is two. `bandwidth += n` is a load and a store.
* *gnet* is modelled from how the client uses it, as an event loop per address
  (`SourceAddrHash`) with a FIFO queue of tasks; `AsyncWrite` and `Close` called
  from a goroutine queue a task, and an `AsyncWrite` to a closed connection does
  nothing. A call that React makes on the loop, for this address or for another
  that shares the loop, may take any time or never return. A `Map.Get` that
  misses would panic on its type assertion; `OwnConn` shows it never misses.
* *Session* takes the bucket as `RateLimiter` is shown to behave: positive waits
  return, `Wait(0)` does not. It models the sessions of one user, since rows and
  buckets are keyed by the username.
* *Relay*: a write blocks as long as its reader takes nothing. Closing `s5conn`
  frees whoever uses it. `realServerAddress` calls `Fd()` on a copy of the other
  descriptor, which switches the description `leftConn` shares to blocking mode:
  `leftConn.Close()` then waits for the goroutines that read or write it, which
  return in their own time, surely only when the application sends, reads or
  closes. The client's end of `s5conn` may close at any time; when it does is
  `Client`'s question.
* *Handshake*: a name resolves to one of the addresses `Resolves` has for it, and
  to none if it is not there. A failed write to the link has put some of the
  frame on its way, and every later one fails too, as on a socket or a websocket
  of gorilla's.
* *proxy_all* is read at every start and may differ between starts.
* *WebAdmin* starts on any table of users that an earlier server may have left. A
  request whose answer carries a session has a step of its own for the arrival of
  the answer, so that answers overtake each other; an answer may be lost. Names
  and texts of rows are left out; with them goes the reason of a failing `INSERT`
  or `UPDATE`, not the failure. `GetMeta` is its two queries, `First` and
  `Count`, and `Save`, and each of them may fail. `PostUser` names the field
  `PlanID` twice in one literal (server_web.go:101 and 103), which the compiler
  refuses; the model takes it as written once. `PutUser` does not ask for the
  role, and neither does the model.
* *App* is one module for three programs, since they differ in who calls what.
  The callers are a user interface outside the repository: it starts one run at a
  time, and makes one call of the desktop library at a time. `app.Stop` starts a
  goroutine that runs the hooks; two of them may run a hook twice, as fx's life
  cycle has no lock for it. A save that a kill or an error cuts off leaves the
  values before the cut, in the order in which `SaveClient` writes them, and the
  missing ones are read as zero; whether such a file opens is left to the tags.
* A password that is right and TLS are outside: a dial or an authentication
  succeeds or fails. Names are resolved in `Handshake` only.

## 3. The runs

All are listed in `PROJECT.json`; `tlc -config MCx.cfg MCx` repeats one.

| run | instance | what it shows |
|---|---|---|
| `limiter` | 2 callers, amounts 0, 5, 16, 17, capacity 16, windows of up to 6 ticks | the hand-off (`HandOff`), no refusal of what the server reads (`NeverReadsTooMuch`), `RateBound` over every window, refinement of `TokenBucket`, every `Wait` returns unless a `Wait(0)` blocks the limiter |
| `dispatch` | 2 connections, the update's own, three kinds of address, both settings | `LookupSafe`, `SocketsJustified`, `RouteKeptAll`; the update never stands in its own way: it ends or waits for the network (`UpdateEnds`) |
| `router_proxy_all` | setting "yes", five kinds of address | *violated*: the README's "if proxy all traffic" against `::/0` in the reserved list |
| `dispatch_route` | GeoIP mode | *violated*: a connection is told "direct", the update switches the router off, another connection's decision of that moment puts "proxy" in the cache, and the next frame of the first goes to a `remoteConn` that was never dialled |
| `session` | 2 sessions, 2 chunks each, rate 0 and 1, an administrator | `ChargedWithinTraffic`, `CountFinal`, `BucketSettles`, `SessionEnds` |
| `client` | 3 generations of an address, a chunk each; calls that hold the loop, for it or for other addresses | `OwnConn`, `ReplyFirst`, `NothingCutOff`, `NoLinkLeak`, `EOFPropagates` (unless a call for another address never returns), `GoroutineEnds` |
| `handshake` | every cut of every message, IPv4, IPv6, a name with two addresses and one with none, boundary ports, 3 chunks, a write that fails after any byte | `DialsWhatWasAsked`, `RefusesOnlyFragments`, `StreamKept`, `HandshakeEnds` |
| `relay` | a redirected connection, a CONNECT tunnel and other users of a pool of 3 goroutines | `HangsUpForCause`, `RedirReleases` (unless the destination takes no data), `ConnectEnds`, `AcceptsAgain` |
| `memsocket` | 4 requests, one stuck, 2 places | `NoCallLost`, `ServeWebReturns` |
| `memsocket_close` | 2 requests | *violated*: the comment on `Listener.Close` |
| `web` | 2 requests in flight of 4 in all, 2 browsers, 2 users, 2 challenges, 2 rows of meta | `SessionJustified`, `RightsAreCurrent`, `AccountsPaid`, `DefaultNeverReturns` |
| `app` | 2 runs, a stop, kills at any time, each of the three programs; configurations with each kind of resolver and with a port above 65535 | `PortsExact`, `TornNeverOpens`, `AnsweredByLatest`, `StoppedForCause`, `StopReaches` |

The three violations are the findings of `PROJECT.json`.

*Bounds.* Two callers or sessions contend for a mutex, a counter, a row or a
bucket in every order; a third adds no new pair. Three generations of an address
put a dead connection between two others. Capacity 16 is the smallest the code
can have (bandwidth 1), and 17 exceeds it. The pool of the relay run has room for
one whole relay, and its other users may take any part of it, so that each kind
of task is refused at some time; the channel of `memsocket` is too small for the
requests. Counters are bounded by `MaxMoved`, `MaxReads`, `MaxChunks`, `MaxGen`,
`MaxSupplied`, `MaxRequests`, `MaxUser`, `MaxRow`, `MaxIssued`, `MaxMeta`,
`MaxRuns` and `MaxStops` in the guards; the theorems hold for every value of
them. Two requests in flight meet in every order, and the third and fourth find
the cookies and rows they leave. Two runs are the one that ends and the one that
begins. `CutPoints` is the cut before the last value, which leaves the most to
open; the theorem has every cut. Symmetry is used only in `web`, which checks
invariants and a property of single steps. Deadlock is not checked where
everything may rightly be over: `client`, `memsocket`, `relay`, `handshake`,
`web`, `app`.

*Fairness.* Goroutines that can run do (weak fairness of each goroutine's own
steps, as Go's preemptive scheduler gives). Data, requests and closes of a peer
are never fair, and neither is the return of a call that waits for a peer without
a deadline: MaxMind's answer, a dial, a lookup, a write to an open link, a call
that holds an event loop. A write to a link that is closed here returns. In `App`
that leaves the goroutines of runs and of `app.Stop` and the call of Stop under
way: no frame has to arrive, no lookup to be answered. `Handshake`, which follows
one connection by itself, takes the calls of its React to return, so that
`HandshakeEnds` is about the exchange of messages alone; calls that hold a loop
are `Client`'s subject. Strong fairness is used for `Lock` in `RateLimiter`
(sync.Mutex hands itself to a waiter that starves), for `Dial` in `Memsocket`
(blocked senders of a channel are queued), for the client's `Loop` (if the loop
returns from its calls again and again, it runs its tasks, as gnet does after
each poll) and for `UpEnds` and `DownEnds` in `Relay` (a copy that returns to its
read again and again meets the end of the stream after finitely much data).
`Relay` also assumes that a finalizer runs some time after a connection has
become unreachable; nothing else closes `s5conn` of a CONNECT tunnel.

## 4. The proofs

TLAPS checks all of them (`tlapm X.tla`). The assumptions are those named in the
modules: types of constants, `Bandwidth < UintMod`, sentinels that are no members
of the sets they complete, and, of the application in `Handshake`, that it sends
messages as the protocol has them (1 to 255 methods, addresses as long as their
type says, ports below 65536) and that names resolve to bytes.

Liveness itself is beyond the prover. What is safety in it is proved: that nobody
who must go on waits for something that cannot come. Those theorems
(`...NeverStuck`, `HandshakeNoStandoff`, `ClientEndsArrive`,
`MemsocketNoCallLost`) name the guards of the steps that fairness then takes.

* `RateLimiterProofs`. `LimiterInv` is `TypeOK`, `MutexHeld` and `HandOff`
  together: none is inductive alone, since a `Serve` is right only because the
  amount it finds belongs to the one caller that holds `mutexWait`. From it: the
  three invariants, `NeverReadsTooMuch`, the refinement of `TokenBucket` (a step
  per action, `Observed` being the mapping) and, with `MeterInv`, `RateBound`.
  The word size is a parameter, wrap-around included.
* `RouterProofs`. `RouterInv` adds to `Serving` and `RoutesJustified` that a
  lookup is never for a reserved address. `Serving` carries `LookupSafe`: the
  router is on only over a good database, and a reader inside keeps it on.
  `DispatchInv` (under proxy_all, whatever is cached, returned or dialled, the
  update's own connections included, is one fixed route) gives `RouteKeptAll`;
  `SocketInv` gives `SocketsJustified` in either mode.
* `SessionProofs`. `SessionInv` has for each session that the counter, and each
  loaded copy of it, leaves room for every chunk that is read and not yet counted
  (`Counted`); without the copies the lost update cannot be bounded.
  `RowsCovered` says the same of the rows in memory and in the database.
  `Buckets` also gives `NeverStuck`: whichever bucket the race of `GetBucket`
  leaves to a downlink, it is one that was created.
* `HandshakeProofs`. First the decoders, for every message and every cut:
  `MethodDecoded` and `RequestDecoded` say that the first n bytes of a message
  decode without an error if and only if they are all of it, and then to what it
  was made of. No induction is needed, as the decoders read at offsets that the
  bytes before give. `HandshakeInv` then says for each status what the wire can
  hold: nothing, or one whole message. `Relaying` says that what was dialled is
  what the request asks for or its name resolves to (`ServesRequest`), and that
  the data forwarded and the data in flight are the data sent, or, after a failed
  write, that the data forwarded are the beginning of them (`PrefixJoined`,
  `PrefixLonger`). Hence `DialsWhatWasAsked`, `RefusesOnlyFragments` and
  `StreamKept`. `Answered` adds the replies, hence `NoStandoff`.
* `ClientProofs`. `ClientInv` adds to `OwnConn` that the connections of an
  address follow each other (`OneLive`), that one registration at most is queued
  (`OneOpenTask`; without it a late `OnOpened` could put a dead connection in the
  map), that the loop is in a call only for a connection that is open
  (`CallOpen`), what else it is busy with, and who holds a link that is not hung
  up (`LinksHeld`, from which `NoLinkLeak`). `StreamInv` adds that a goroutine's
  reply is written or is what the loop writes next (`Replied`) and that queued
  writes are those of goroutines: hence `ReplyFirst`. `CutInv` counts: until a
  connection is closed, the chunks read are those delivered and those queued
  (`Counted`, kept step by step by `Flow`), and no chunk is queued behind the
  task that closes (`CloseLast`), so that none is left when it runs:
  `NothingCutOff`. `Count` is a cardinality, which `CountAppend` and `CountTail`
  follow through the queue without induction. `EndsArrive` needs that a goroutine
  has a link (`Linked`) and that the closing task of an ended one stays queued
  while the connection is open (`CloseComes`).
* `RelayProofs`. `RelayInv` says of each connection by itself what its stage
  implies of its ends and goroutines (`Staged`, `Tunnel`), and that a copy ends
  or a connection is closed only after one of the ends has gone (`Caused`, from
  which `HangsUpForCause`); every step touches one connection, so that the number
  of them does not matter. `Waiting` says what each goroutine has closed before
  its next statement (`Past`) and who waits inside the `Close` of `leftConn`.
  Hence `NeverStuck`: a relay whose application has gone has given everything
  back or can go on (`CanGoOn`), with the one exception that its copy is in a
  write to a destination which is there and takes nothing (`AtDestination`).
* `WebAdminProofs`. `SessionJustified` is inductive with the types.
  `RightsAreCurrent` needs `EverMarks`, that the history variable misses no
  administrator; `AccountsPaid` needs `Challenges`: a challenge is in one place,
  a captcha, a registration or an account. `DefaultNeverReturns` is a property of
  each step, from the types: a `Save` of the default replaces the first row only
  for a GetMeta whose `Count` failed (`CountFailed`). The last section is about
  the bridge that carries the requests, whose specification `BridgeSpec` it
  extends too: `Paired`, that a connection waits in the channel once and
  unserved, gives `NoCallLost` for every capacity.
* `AppProofs`. `Order`: `ctx` belongs to the last run, `app` to it or to one
  before. `Validated` carries what was checked to where it is used
  (`PortsExact`). `CutNeverOpens` is about the tags: no proper beginning of a
  configuration passes them, hence `TornNeverOpens`. `Resolving` and `LookingUp`
  say that the handler of port 1083 is that of the resolver, or of the run that
  is between replacing the one and the other (`Joining`), also for a lookup that
  began earlier: `AnsweredByLatest`. `OverlapMarked` and `StoppingForCause` give
  `StoppedForCause`.

Every invariant and every property of steps that a passing run checks is proved.
Only model-checked are the eleven properties of liveness (`WaitReturns`,
`UpdateEnds`, `SessionEnds`, `EOFPropagates`, `GoroutineEnds`, `RedirReleases`,
`ConnectEnds`, `AcceptsAgain`, `ServeWebReturns`, `HandshakeEnds`,
`StopReaches`), as fairness and `ENABLED` are out of the prover's reach, and the
three violations, which are behaviours.

## 5. What it says about the code

Besides the findings, the model shows some weaknesses as they are, and the
properties are stated around them: `Wait(0)` and a bandwidth limit below 2 block
a user; the quota is checked only when a session starts; the counter may lose
traffic; the destination's connection is not closed when a session ends or its
upgrade fails; a crash while the database is extracted leaves a client that does
not start in GeoIP mode; a client without traffic does not notice `OnStop`; an
error of `Accept` ends the transparent proxy; net/http's goroutine for a web
request waits for another one that never comes, as `serveWeb` does not close its
pipe; the end of a desktop run that overlaps with the next one stops that one; a
`Run` that fails has replaced `app`, so that an earlier client cannot be stopped
any more; `Shutdown` returns before `app.Stop` if the stack cannot be closed; the
mobile `Save` does not validate the client's section, so that `NewAndroid` may
refuse what was saved; a second row of meta is never shown.

Calls without a deadline show in the same way: a dial, a lookup or a write in
React holds the loop for every address that shares it; a destination that reads
nothing holds both goroutines of a redirected relay after its application has
gone; an update whose fetch is never answered leaves the router switched off. So
do errors that are not acted on: a write to the link that fails is logged, but
React returns `gnet.None` after it has set the action to `gnet.Close`
(client.go:182-186), so that frames are lost in silence until the link's end is
noticed; a `Count` that fails after `First` has found the row makes `GetMeta`
save the default over the administrator's title. And of DNS: a run's DoH handler
answers the lookups of an earlier run before its own resolver is set, and a run
with the default resolver leaves that of an earlier run in place. `LookupIPAddr`
with neither an address nor an error would make `GetDstAddrFromRequest` panic
(conn.go:243-246); Go's resolver never returns that.

## 6. What is not modelled

* `tcp_segment_conn.go`: one goroutine writes a TLS record in two parts and gives
  the connection up on any error. There is no order of steps to explore.
* `pkg/log`: formatting and output.
* `pkg/config/db.go`, `server.go`, `NewConfServer` and the server command: read
  once at the start of a process, which they can only fail.
* The handlers of `server_web.go` with an empty body, and the public lists of
  plans and notices: they change nothing. `http_server.go`'s requests other than
  CONNECT are one call of fasthttp's client.
* TLS, ESNI, password hashing, the TUN stack, the text of DNS answers and of web
  pages: data that no property here tells apart.

What would come next: client and server end to end, with an abstract byte pipe
they should implement; the rows that `WebAdmin` and `Session` share in one
composed module.
