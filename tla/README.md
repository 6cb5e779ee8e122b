# Verification of the Forge daemon

TLA+ specifications, model-checking runs and proofs for the Forge backend
framework: a daemon that starts plugins (own processes or remote servers that
speak gRPC), keeps a registry of the capabilities they offer, routes invocations
to them over an in-process bus, watches their health, restarts them and drains
them on shutdown.

The specifications are written from the Rust source. Paths and line numbers below
are those of the repository; `PROJECT.json` maps every definition to its lines.

## 1. Inventory

| Component | Source | State | Operations | Talks to |
|---|---|---|---|---|
| plugin state machine | `forge/src/lifecycle.rs` | one `PluginState` | `transition` | used by the manager |
| lifecycle manager | `forge/src/lifecycle/manager.rs` | map of `ManagedPlugin` under one tokio mutex; restart channel | `start_all`, `start_one`, `restart_plugin`, `restart_and_spawn`, `start_plugin_if_new`, `retry_plugin_watch`, `shutdown_all`, health-check loop, `crash_and_schedule_restart`, coordinator | processes, registry, bus, plugins (RPC) |
| capability registry | `forge/src/registry.rs` | map name -> entries in order of registration; round-robin counters | `register`, `deregister`, `lookup`, `list_capabilities` | written by the manager, read by bus and gateway |
| message bus | `forge/src/bus.rs` | connection table, local handlers | `register_connection`, `remove_connection`, `register_handler`, `dispatch` | registry, plugins (RPC) |
| HTTP gateway | `forge/src/gateway/http.rs` | compiled routes, rate-limit windows, permits of the TLS listener | `POST /v1/invoke`, declarative routes with auth, status and restart endpoints, the listeners | bus, registry, manager |
| gRPC gateway | `forge/src/gateway/grpc.rs` | none | the listener, `invoke` | bus |
| gateway supervision | `forge/src/gateway/mod.rs` | the shutdown channel | `start`, `shutdown` | the two gateways |
| embedded kernel | `forge/src/kernel.rs` | registry and bus | constructor, accessors | -- |
| configuration | `forge/src/config.rs` | none | `load`, `discover_plugin_manifests` | files, environment |
| plugin SDK | `forge/src/sdk.rs` | handlers of one plugin | `serve`, the plugin side of the RPCs | manager, bus |
| daemon run loop and file watcher | `cli/src/main.rs` | modification times | `cmd_run` | manager, gateway |
| command line | `cli/src/main.rs` | none | `init`, `new`, `install`, `status`, ... | files, HTTP |
| official plugins | `plugins-official/` | a database; else none | `auth-jwt`, `data-sqlite`, `http-router` (which calls the other two through the gRPC gateway) | SDK, gRPC gateway |
| examples, redirect crates | `examples/`, `redirect/` | none | capability handlers, re-exports | SDK |

What is hard in this system is, first, the manager. Its map is behind one mutex, but no
operation is one critical section: a start takes the mutex at eight places, with
a spawn, a dial, an RPC, the bus and the registry in between; a crash is noticed
by a loop that read the entry before its RPC and acts on it afterwards; a restart
releases the mutex between `Draining` and the drain. Boot tasks, the coordinator,
any number of HTTP handlers, the file watcher, one health-check loop per instance
and the shutdown do this to one entry at a time of their own choosing, processes
die by themselves, RPCs fail or time out, and an HTTP client that hangs up takes
its handler with it. The flags `starting` and `restart_scheduled` and the state
machine are what keeps this in order.

Second, the way of a request. A dispatch awaits two locks and an RPC and reads the
clock between them; what it looked up may be restarted, deregistered or dead when
it uses it; a fair lock makes readers wait behind a writer; an answer may come when
its caller has gone; a declarative route makes two dispatches and the http-router
up to two of its own, each with a deadline of its own.

Third, the ends: two listeners that fail, stop and are joined, a daemon that
leaves by three ways, and a watcher that scans a directory others write to.

`PROJECT.json` lists the hazards, each at
its line, with the properties aimed at it.

What makes each component correct:

* *manager*: one start per plugin at a time; a running plugin is watched by a loop;
  every process is known to somebody who will kill it; a request marked as queued
  is queued, once; draining ends; a plugin that serves is registered, one that
  stopped is not; the shutdown stops what it knows; failures end in a plugin that
  serves again (or in what the code does instead, see section 5).
* *registry and bus*: what a lookup answers is of the current instance and has a
  connection; connections go with their instance; lookups respect the constraint,
  the order or the rotation.
* *dispatch*: every call is answered once, by its deadline, by a process that offers
  what was asked for in a version that was asked for.
* *request*: at most one effect, none behind a refusal, none without a verdict where
  one is needed, success only if it happened (with one exception that the code makes,
  see `CallPromise` below), an answer in the end.
* *gateway*: in no minute more than twice the limit, nobody turned away who is below
  it; permits are given back; the daemon ends as it is told.
* *watcher*: a manifest that is there is started in the end, and what is recorded as
  seen has been seen.

## 2. Plan

The order is that of importance.

1. (done) `PluginState`, `Manager`, with `MCManager`: the state machine and the
   life-cycle manager with everything that acts on its map.
2. (done) `ManagerProofs`, `ManagerSafetyProofs`, `ManagerStartProofs`: types,
   registered capabilities are connected, draining is owned, one start at a time.
3. (done) `Registry`, `Bus`, `PluginHost`, `RateLimiter`, composed by `Serving`,
   with `MCServing`: the way of a request. `CallPromise` is the abstract
   specification that `Serving` implements.
4. (done) `Gateway`, `Watcher`, composed by `Daemon`, with `MCDaemon`: the listeners,
   their supervision, the limiter under its clients, the directory of manifests, the
   configuration and the run loop.
5. (done) `DaemonProofs`, `ServingProofs`: the safety properties of both.
6. (done) `ManagerOwnershipProofs`, `ManagerAloneProofs`, `ServingPromiseProofs`: every
   other safety property of the manager, and that `Serving` implements `CallPromise`.
7. (done) `Supervisor`: what the rest of the kernel may rely on of the plugins' coming
   and going, implemented by `Manager` and by `Serving`.
8. (done) A theorem that says when `RoundRobinEven` holds: for lists whose length
   divides the counter's range.
9. (left out) `exponential_backoff` with its bounds: a pure function of ten lines that
   a unit test reaches, and whose loop needs an induction over data to prove about.

## 3. The model

`PluginState` is the state machine of `lifecycle.rs`: the set of moves that
`PluginState::transition` accepts, and a `Transition` that leaves the state alone
on any other, since every caller drops the error. `Absent` stands for a name the
map has no entry for.

`Manager` has these variables:

| Variable | Code |
|---|---|
| `plugins` | the map of `ManagedPlugin`, one entry per name; `channel` and `child` hold the instance they belong to |
| `registry` | the registered capabilities with their handles (as a set) |
| `conns` | the keys of `Bus::connections` |
| `queue` | the unbounded channel of restart requests |
| `task` | one record per caller: where it is in its operation, and its locals |
| `loops` | the health-check loop of each instance, likewise |
| `alive` | the running processes |
| `next` | the instance id the next start takes (a UUID in the code) |
| `faults` | how many failures there have been: bound of the model |
| `phase`, `closing` | how far `shutdown_all` is, and its snapshot of the names |

A *caller* is a task that works on one plugin at a time: a boot task (named like
its plugin), the coordinator, an HTTP handler of the restart endpoint
(`Operators`), the file watcher (`Watchers`). Each action is one critical section
of the mutex or one step between two awaits outside it, named for what it does
there:

* `SkipStart`, `BeginStart`, `FinishStart`: the guard of `start_one`. It does not
  guard names without an entry. `start_all` calls `start_one_impl` without it.
* `Enter`, `Insert`, `Reap`, `Spawn`, `StoreChild`, `Dial`, `Handshake`,
  `StashChannel`, `RegisterRpc`, `Connect`, `Advertise`, `Announce`, `Monitor`:
  `start_one_impl` from its first lock to the spawn of the loop; `SpawnFails`,
  `DialFails`, `RegisterFails` are its error returns. `Insert` is
  `insert_or_update_plugin`, whose state moves only where that is legal and whose
  other fields are reset in any case. `Advertise` registers one capability.
* `TakeRequest`: the coordinator. Its back-off sleep is the time the model may let
  pass before its guard.
* `RestartRequested`, `NewManifest`, `ManifestChanged`, `SeenStuck` begin the
  operations of operators and watcher; `RestartRefused`, `RestartAccepted`,
  `Drain` are the two critical sections of `restart_plugin` and
  `restart_and_spawn`; `RetryWatch` is `retry_plugin_watch`.
* `Disconnect`, `DisconnectInDrain`: the client of a restart hangs up and the HTTP
  server drops the handler at the await it is at. What it held stays as it is.
* `Tick`, `Reply`, `NoReply`, `Healthy`, `Unhealthy`, `Crash`, `CrashDeregister`,
  `CrashSend`: the health-check loop. `Tick` reads state and channel, the RPC is
  made without the mutex, and the last three are the critical section of
  `crash_and_schedule_restart`, its two calls of registry and bus, and the send.
* `Die`: a managed process exits. A server started by hand does not die; its
  outages are failed dials and RPCs.
* `NameAll`, `MarkAll`, `DrainAll`, `KillAll`, `Exit`: `shutdown_all` and the end of the
  process. `DrainAll` is one action because it holds the mutex from the first
  plugin to the last. A start that advertises or connects in the middle of it (it
  needs no mutex for that) is represented by one that does so just before or after.

What is abstracted: times (back-off, grace period, the interval of the checks, so
any order of events that some timing allows is a behaviour), the contents of the
manifest (one per plugin), versions and the order of the registry, payloads,
transports other than managed or not, logging. Counters stop at the largest value
any test distinguishes.

### The way of a request

`Registry` keeps, per capability, the sequence of entries in order of registration
and the round-robin counter. `Registers` and `Deregisters` are `register` and
`deregister`; `Matching`, `Found`, `TurnOf` and `CountsTurn` are what `lookup`
filters, picks and counts. `Filtered` is the filtering itself: position `n` of the
result has the entry at the chosen position of rank `n`, which is the order of
`iter().filter()` and of `retain`, said without recursion so that it can be proved
about. A version requirement is the set of versions it matches.
DashMap's shard lock makes each of them one action.

`Bus` is `Bus::dispatch`, cut at its awaits. A call's `pc` says where it is:

| `pc` | `dispatch` | left by |
|---|---|---|
| `arrived` | the deadline has been checked (`Dispatched`), the lock of the local handlers is awaited | `RunLocal`, `NothingOffered`, `Resolve` |
| `local` | a local handler runs; the read guard is held (`guards`) | `LocalReturns`, with what the handler returned, an error too |
| `resolved` | looked up, the deadline checked again and the timeout computed; the lock of the connections is awaited | `Send`, `NotConnected` |
| `rpc` | the RPC is on its way under that timeout | `Respond`, `Break`, `Expire` |
| `ended` | the result is there for the caller | the caller |

`left` is what is left of the deadline, `timer` of the timeout, `lag` how long the
connections' lock was awaited, all in ticks of `Elapse`. `RegisterHandler` and
`InstallHandler` are `register_handler` before and behind its wait for the write
lock: while a writer waits no reader is let in (`Reads`), as tokio's lock has it.
The `exchange` of a call is the plugin's side of its RPC: `sent`, `running` in a
process, `replied` or `broken`.

`PluginHost` is that far side: the processes (`StartPlugin`, `Advertise`, `Crash`,
`Retire`: the part of `Manager` the bus can see, in the order of `start_one_impl` and
`crash_and_schedule_restart`; a missed health check may retire a process that lives
and works on), the SDK's service wrapper (`Take`, `Cancel`,
`Replied`), and the three official plugins: `Verify`; `Execute`, `Refuse` and `Swallow`;
`RouterDeclines`, `RouterAsks`, `RouterDenies`, `RouterQueries`, `RouterReports`,
whose nested calls are calls of the same bus (`Nested`) with a deadline of their own.
A call's handler that outlives its caller goes on until it is cancelled or done:
both are possible. `verdict` and `performed` are history.

Of a body the model keeps what the handlers tell apart (`Bodies`). One that holds no
statement data-sqlite can prepare is `malformed` or `unsound`, and refused on the way in. A
`failing` one holds a statement that fails as it runs. What comes of it depends on the
capability: `forge.data.write` answers with an error (`Refuse`), `forge.data.query`
drops the rows that come as errors (`main.rs:125`) and answers with success and what rows
there were, though nothing happened (`Swallow`). For `http.route` the body stands for the
statement that the router makes of it. The model's local handlers
(`HandlerReturns`) have done what they are for behind a success, and may have behind
an error, but for `NotFound` and `PluginError`; they may return any error,
`PluginUnhealthy` among them, which nothing else in the code builds.

`RateLimiter` is `RateLimiter::check` and its sweeper over windows with an age.

`Serving` has the handlers: `HttpInvoke`, `GrpcInvoke`, `DeclarativeRoute` with
`AuthAnswered` and `TargetAnswered`, `RejectTooLarge` (the layer that limits bodies),
`ClientLeaves` (the server drops the handler's future). `MatchPath` and `RouteOf` are
the matching of route patterns, first match first. Payloads, tokens and bodies are
members of small sets: what the branches of the handlers tell apart.

`Supervisor` says what the kernel may rely on of the plugins' coming and going. Its
state is, per plugin, the newest instance (in `Manager` the last one connected to the bus,
in `Serving` that of its process) and the set of what is advertised (`registry`; the
entries of all lists of `inner`, without order and version). An instance that comes up
is newer than those before it (`Connect`; `StartPlugin`), only the newest is advertised,
with a capability the plugin has (`Advertise` in both), and a plugin is withdrawn as a whole
(`Drain`, `CrashDeregister`, the shutdown; `Retire`). It leaves open when: a crash
report that comes late withdraws a newer instance (finding `restart_registry`), and an
instance may be advertised behind that. `Manager!SuppliesInOrder` is about the plugins
known at boot, as `OneStart` is.

`CallPromise` says what a client may rely on; `Serving!Promise` maps a request's
stage and answer to it: 200 with the work done is `done`; 502, 504, a lost client
and the http-router's 500 are `unknown`; every other answer is `refused`. `done` means
that it happened, but for the requests in `unreported`: in `Serving` those with a failing
statement whose way leads to `forge.data.query`, directly or behind the http-router
(`Unreported`). For these the promise is what the code makes of it, and no more: they may
be answered with success without an effect.

### The daemon

`Gateway` has the two listeners (`Bind`, `BindFails`, `AcceptFails`, `SeeSignal`,
`Stop`), what `start` makes of their ends (`Join`, `ResultOf`), `Gateway::shutdown`
(`Signal`), the connections of the HTTP listener with the semaphore of the TLS one
(`Accept`, `TryAcquire`, `Handshake`, `HandshakeFails`, `Disconnect`) and the calls
that go through the limiter (`Invoke`, `InvokeLimited`, `Respond`, `Minute`,
`Sweeper`). `recent` is history.

`Watcher` has the directory (`disk`), what the watcher has recorded (`last_mtimes`),
and per plugin its state, cached manifest and attempts. `Discover`, `StartAll`,
`FirstScan` are the boot's; `Poll`, `Look`, `StartIfNew`, `RestartChanged`,
`BeginRetries`, `Retry`, `Sleep` the loop's, in the order of the code: contents first,
then the modification time, then the call of the manager, then the record. `Edit` is
whoever writes the files. A modification time also stands for the contents.

`Daemon` is `cmd_run` around both: `LoadConfig` with the layers of `load_config`,
`Boot`, `StartGateway`, the `select!` (`Returns`, `ExitJoined`, `CtrlC`), `Drained`.

## 4. Runs

In the runs of `MCManager`, `p1` is a managed process that offers a capability
of its own and one it shares with `p2`, a server started by hand.

| Run | Instance | What it shows |
|---|---|---|
| `manager_auto` | both plugins, 3 failures of any kind (death, spawn, dial, register, health check), 5 starts, nobody interferes; fair | types; a scheduled restart is queued, and once; a stopped plugin is not registered, one that serves is, with the instance whose health is checked; in the end every plugin serves or is stranded after a failed restart |
| `manager_ops` | `p1`, two operators, one failure (death, health check, a client that hangs up), 3 starts; fair | one start at a time; a serving plugin is watched; no process is lost and no plugin has two; what is registered is connected; a drain ends; `Supervisor` is implemented |
| `manager_stop` | `p2` as a managed process, the watcher with new and changed manifests, ctrl-c at any time after boot, one death, 3 starts | draining has an owner; the shutdown stops, deregisters and kills what it has a name for |
| `watch_retry` | `p1` as a server started by hand, the watcher with its retries, two failures (dial, register, health check), 5 starts; fair | a plugin stuck in `Connecting` or `Discovered` serves in the end or is given up, or has failed in `Register`, after which nobody comes back for it |
| `restart_flag`, `restart_registry`, `restart_gone`, `connections`, `restart_policy` | the smallest instance that shows the finding | section 5 |
| `serving` | `MCServing`: up to three requests, four plugins (`auth-jwt`, `data-sqlite`, a spare of it, `http-router`), a scenario per question: over the limit; round robin with and without a plugin that joins; routes with and without auth under crashes and a restart with another offer; the http-router with crashes and a client that leaves; what fails without a crash, with a failing statement on every way to data-sqlite; a local handler with a `register_handler` in its way; fair | no effect without the verdict, every call served by what it asked for, deadlines kept up to the lock's wait, turns shared evenly, `CallPromise` kept, `Supervisor` implemented, and every request answered in the end |
| `daemon` | `MCDaemon`: all configurations of interest; or one manifest of two files edited at any time; or two clients of a plain or TLS listener with one permit, with and without a limit of two calls | bounds of the limiter both ways, permits add up, manifests are lost only in the boot, what is recorded was taken, the watcher catches up, the daemon ends undrained only when its cause says so, a signal before the start stops it |
| `gateway_error` | the listeners of `daemon` | section 5 |

*Bounds.* `MaxInstances` bounds the number of starts, `MaxFaults` that of failures.
Three starts are the boot, a restart of it and one that overlaps or follows that;
the races the properties are about are between two instances and one more caller,
or a loop of the first. `Threshold = 2` gives
a failed check that does not degrade a plugin and one that does; `MaxAttempts = 3`
in `watch_retry` a watcher that retries twice and then gives up. Two operators exercise
the guard against each other, and with the coordinator there are three callers for one
entry. With fewer starts or failures the mutants named in `PROJECT.json` would survive; with them each property is
violated by a plausible slip in the code it is about.

In `serving`, `DefaultTimeout = 2` and `AuthTimeout = 1` give deadlines that pass in
each place a call can be and that differ between the two dispatches of a route;
`MaxLag = 1` bounds the wait for the connections' lock, which is enough to see a call
outlive its deadline by it. `CounterSize = 2` stands for the counter's 2^64: the
number of plugins in a list (one or two) divides both; a list of three would see one
uneven turn when the counter wraps, after 2^64 calls. Two instances of a plugin are
one before and one behind a restart. The host registers a handler only for a
capability somebody asks for, and never for `auth.verify` or `http.route`
(`ServingAssumption`): a host that does replaces the plugins the properties are about.
That a protected route names the auth capability is the same assumption about the
configuration. What a request is asked, what may crash and who may leave are fixed by
its scenario, so each question has a small instance of its own.

In `daemon` a world has editing or clients, not both: watcher and gateway share
nothing but the configuration; a world with editing stops before the gateway, where
the watcher already runs. `MaxTime = 3` lets a file be written at least twice after
the boot, enough for a write on either side of each step of a round.
`MaxRetries = 2` is one retry and then giving up; attempts count no further. `Window = 2`
ticks and a limit of two calls: a burst at the end of one window and the start of the
next is four calls, and the clients may make one more after that
(`Total(ip) <= 2 * MaxPerMinute` guards the next one), so that a fifth would be seen.
`MaxTls = 1` with two connections has the semaphore at its limit.

*Fairness.* In the runs of `MCManager`: Tokio runs every task that is ready, every RPC of a start or a check
has a timeout and the mutex is fair (first come first served), so every caller in
the middle of an operation, the coordinator and every loop have weak fairness.
The watcher goes through all plugins every three seconds; between two of its
passes it may have been busy, so its look at a stuck plugin has strong fairness.
No request, changed manifest, failure, hang-up or ctrl-c has to happen.

In `serving` the tasks of the gateways and the bus (`Kernel`) go on when they can,
time passes (`Tick`), and the host's local handlers return. Nothing is asked of
plugins, clients or the host beyond that: a request is answered although its plugin
may hang, since every RPC has a timeout. Without the fairness of `HandlerReturns` the
promise would break: a local handler runs under the bus's read lock and without a
deadline. In `daemon` the run loop, the watcher's task and the listeners go on, and a
request that is busy is answered (which is what `serving` shows); nobody has to edit,
connect, signal or interrupt, and time need not pass.

*Deadlock* is not checked: requests are served once, the daemon exits, a plugin may be stranded with nobody
left to do anything, and the model runs out of instance ids; all are ends of a
behaviour. That nothing waits for ever without reason is what the liveness
properties say.

*Exceptions in the properties.* `Monitored`, `DrainingIsOwned`, `DrainCompletes`,
`NoOrphan` and `ShutdownDrains` except what a client that hung up left behind
(`Abandoned`, program counter `gone`): for those nobody is responsible any more,
which is finding `restart_gone`. The properties below the line "left to itself"
in `Manager` are about a manager without operators and watchers; two of them
fail with an operator, which are findings too. `OneStart` is about plugins with a
manifest at boot: a name that appears later has no entry for `start_one` to set
its flag in, so two starts of it can overlap (the comment at `manager.rs:764`
relies on the watcher being alone).

## 5. Findings

Each is a run whose one property is what a comment or a document of the
repository says.

* `restart_flag`: a request that the coordinator drops at the `starting` guard
  leaves `restart_scheduled` set with nothing queued; no later crash sends another
  request. It takes a crash report of the old instance that comes late, after the
  new start has stashed its channel, and a start still in progress after the
  back-off -- a `Register` reply slower than half a second, with a grace period
  shorter than the five seconds of a health check.
* `restart_registry`: a late crash report deregisters by name, and so removes the
  capabilities of the instance that replaced the crashed one; the plugin is `Ready`
  and not registered. The window is narrow (the registrations and the move to
  `Ready` follow each other without an RPC), the outcome lasts until the next
  restart.
* `restart_gone`: a client of the restart endpoint that hangs up while the new
  instance is being started leaves `starting` set for good; every later start of
  that plugin is skipped. Hanging up at other places leaves `Draining`, a process
  nobody knows or a `Ready` plugin without a health-check loop.
* `connections`: the key that `remove_connection` is called with never is the key
  of a connection; channels of dead instances stay in the table.
* `restart_policy`: a restart that fails is logged and not repeated, so the
  documented exponential back-off up to `restart_max_attempts` does not take place
  for a plugin that does not come up again. (With the watcher on, a plugin stuck in
  `Connecting` is retried; one that fails in `Register` stays in `Handshaking`.)
* `gateway_error`: when one listener fails (a port in use is enough) the other serves
  on and `start` does not return, though its comment says the other is shut down.

Differences between documents and code that were met while modelling and that no
property is about; the model has what the code does:

* `README.md:149` and `config.rs:110` call the watching "hot-reload"; a changed
  manifest makes the watcher restart the plugin, from the manifest cached in its
  entry (`main.rs:258`, `manager.rs:821`). `RecordedIsTaken` excepts it (`unread`).
* `manager.rs:850` says to "remove and re-add the manifest so the watcher treats it as
  new"; the watcher never forgets a path.
* `config.rs:78` and `docs/03-architecture-spec.md:136` speak of a limit of requests;
  only `POST /v1/invoke` asks the limiter. `http.rs:501` says "counts across all IPs";
  it counts per IP.
* `README.md:146` and `docs/03-architecture-spec.md:69` say calls go round-robin; the
  daemon builds the registry with `FirstReadyWins`.
* `docs/10-USAGE-GUIDE.md:295` says path parameters are in the metadata; they are in
  the payload, the query's are in the metadata (`http.rs:910-941`).
* `mod.rs:120` says that `shutdown` "Gracefully drains in-flight requests before
  returning": it sends a value and returns; the TLS loop leaves its connections to
  their tasks; and `start` consumes the gateway, so nobody can call it afterwards.
* `docs/03-architecture-spec.md:250-255` lists "Gateways are shut down" for ctrl-c;
  nobody signals them, and they accept until the process exits.
* `docs/04-plugin-protocol-spec.md:181` and `docs/03-architecture-spec.md:233` have a
  plugin that misses the threshold of health checks go to `STOPPED`; the code moves it to
  `DEGRADED` on answers of "unhealthy", where it stays registered and goes on serving, and
  stops it at the first check without an answer (`manager.rs:528`). `IsServing` counts
  `DEGRADED` as serving.
* `config.rs:78` speaks of the "Maximum number of HTTP requests per minute per IP"; a
  window that starts with its first call allows twice that within a minute, the limit at the
  end of one window and again at the start of the next (`BurstBound` allows just that).
* data-sqlite answers a `forge.data.query` that fails as it is stepped through with
  success and the rows there were (`main.rs:125`); no document says what a client is to
  expect. `KeepsPromise` excepts these requests (`Unreported`) and no others.
* The comment of `exponential_backoff` (`manager.rs:1000`) says "never go over
  max_ms"; the first delay is not clamped.

## 6. Proofs

TLAPS checks these for every value of the constants that meets the named assumptions
of the modules. For `Manager` that is any number of plugins, operators and watchers,
any policies, bounds and failures.

* `ManagerProofs!TypeCorrect` (from `TypeInvariance`): `Spec => []TypeOK`. `TypeOK`
  is not inductive: `Insert` puts the caller's plugin and instance into the map, so
  `TypeInv` adds that a caller at work knows its plugin, one inside a start its
  instance, and a loop that runs its plugin. Lemmas give the type of each operation
  on an entry and of each way to assign a caller's record; then one step per action.
* `ManagerSafetyProofs!RegisteredConnected`: `Spec => []RegisteredIsConnected`. The
  inductive `Connected` adds that a caller about to advertise has connected its
  instance. It holds because connections are never removed (`ConnectionsGrow`):
  the proof rests on the very behaviour that finding `connections` is about. Were
  the key repaired, a lookup could be answered with a handle that has no connection
  any more; the mutant of this property does just that.
* `ManagerSafetyProofs!DrainingOwned`: `Spec => []DrainingIsOwned`, which is
  inductive with `TypeInv`. `CallerLands` and `CheckLands` say which steps bring a
  plugin to `Draining`, `CallerMoves` where a step leaves its caller.
* `ManagerStartProofs!OneStartAtATime`: `Spec => []OneStart`. The invariant
  `StartInv` has three parts: `BootsAlone` (while the boot task of a plugin is at
  work no caller, request or loop has that plugin, and it is not done before the
  entry exists), `Marked` (any other start holds the flag `starting`) and `OneStart`
  itself. The flag alone does not do it: boot tasks never take it, and it cannot be
  set for an entry that does not exist; `BootsAlone` covers both.

`ManagerOwnershipProofs` says who looks after what the manager has started.

* `NoProcessLost`: `Spec => []NoOrphan`. A process is in the entry of its plugin or in
  the hand of a start that will store it; what an entry forgets is killed first. The
  parts are `Reaped` (when a start comes to spawn, its plugin's entry has no child, so
  `StoreChild` overwrites none) and `SpawnsManaged` (only managed plugins have a
  process). The hypothesis
  `Managed \subseteq BootPlugins` is there because the property needs `OneStart`, and
  that holds for names the manager has an entry for: of a name that appears later two
  starts can overlap, and one overwrites the child of the other (the hazard at
  `manager.rs:769`).
* `ShutdownLeavesNothing`: `Spec => []ShutdownDrains`, with the same hypothesis.
  `Named` says that the names `shutdown_all` works on have entries and that what the
  daemon booted with is among them.
* `NeverTwice`: `Spec => []OneProcess`. `NoOrphan` says that somebody knows of each
  process; this says that a plugin has but one. `Reaped` keeps the entry free of a child
  when a start spawns. `Unborn` adds that until then nobody else knows the start's
  instance, since ids are given out in order. And `GoneHolds`: where a client hung up in the
  middle of a start, the flag `starting` stays set for good, which is finding
  `restart_gone` and the very thing that keeps a second start from a second process. A
  repair of that finding that merely cleared the flag would break this theorem.
* `ManagerSupplies`: `Spec => SuppliesInOrder`, the refinement of `Supervisor`. `InOrder`
  says that an instance on its way to the bus is newer than any of its plugin there, and
  the newest of all when it advertises; it needs `OneStart`, for of two starts that
  overlap the older may connect last, and `Unborn` for the fresh id. Every step then is
  `ConnectSeen`, `AdvertiseSeen` or `DeregisterSeen`, or leaves bus and registry alone
  (`Supplies`).
* `ServingIsMonitored`: `Spec => []Monitored`. `Numbered` says that an instance id
  names one start or one loop: a start that is under way has an id no loop runs
  under, so the loop `Monitor` starts is not one that ended. `BecomesServing` and
  `CheckingStays` say which steps make a plugin serve and which end a loop.

`ManagerAloneProofs` is about the manager left to itself (`LeftAlone`: no operators,
no watchers). With them the properties fail, which the runs `restart_flag` and
`restart_registry` show. Its argument is that a plugin is in one hand at a time: a
start (`Busy`), a health-check loop (`Live`) or the queue. `OneHand` is the invariant;
`StepKinds` and `CheckKinds` say of each step that it keeps what is in hand, passes
it on or drops it, so it is shown once for all steps rather than once for each.

* `NoSecondRequest` (`RequestedOnce`) is read off `OneHand`; `NoLostRestart`
  (`ScheduledIsQueued`) follows the request from the crash to the coordinator
  (`OnItsWay`): nobody is in between who could find `starting` set (`FlagIsHeld`).
* `HandlesCurrent` (`HandleIsCurrent`) and `ServingRegistered` (`ServingIsRegistered`)
  follow the instance through its start: the channel stashed is that of the start in
  hand (`ChannelFits`), nothing is registered before that (`RegisteredLate`) and what
  has been advertised stays until the loop that notices the crash deregisters it
  (`AdvertisedSoFar`).
* `StoppedUnregistered` (`StoppedIsUnregistered`) needs `CanShutdown = FALSE` too: the
  shutdown drains a plugin whatever hand it is in, and a start behind it registers
  what it has just stopped.

For `Daemon` it is any worlds, manifests, finite set of connections, permits, limits
and bounds (`RateLimiterAssumption`, `GatewayAssumption`, `WatcherAssumption`,
`DaemonAssumption`). One inductive invariant, `DaemonInv`, carries the first five theorems
of `DaemonProofs`, each of its parts for a reason:

* `DaemonTypeCorrect`: `TypeOK` needs to know that permits never exceed `MaxTls`,
  which is `PermitInv`: the permits left and the connections that hold one add up.
  `HoldersMove` says how many more or fewer hold one when a connection moves;
  `PermitsConservation` is then read off.
* `ManifestsLostOnlyInBoot`, `RecordedTimesAreTaken`: `WatchInv` orders the boot
  (`BootOrder`: nothing is recorded before the first scan, everything discovered is
  started before it) and says what the job at hand may be (`JobFits`: new or changed as
  its path's record still has it; what is retried has an entry).
* `UndrainedExits`: `PhaseInv` gives every exit its cause and says that nothing
  listens before the daemon serves, `JoinInv` that a join found both listeners ended.
* `BurstsAreBounded`, `RefusalsAreJust`: the history `recent` has, for each `i`, what was
  admitted in the last `i` ticks. `Fits` says that at the age of the client's window
  this is what the window has admitted and that the calls before it are at most the
  limit; a client whose window is over or gone has at most the limit in its history. So a
  burst is one full window and what is left of another, and a client that is refused has a full window. Both are about a limit that is not
  0: the gateway builds a limiter for a positive one only (`http.rs:99`).

For `Serving` it is any requests, plugins, offers, scenarios, routes and deadlines
(`CallsAssumption`, `OfficialAssumption`, `OffersAssumption`, `BusAssumption`,
`ServingAssumption`: instance ids are numbers from 1, a plugin has one version of each
capability it offers, routes name capabilities, and the plugins a scenario starts with
have different names). The
invariant `ServingInv` of `ServingProofs` has, for each call and its exchange, that it
is `Timely` (its timer is not longer than the deadline's rest and the wait for the
lock) and `Backed`: an outcome of "valid" is only ever that of a call whose request
auth-jwt cleared, and a call that a verdict stands in front of asks, until then, for
nothing but auth-jwt or the http-router. `DeadlinesHonoured` follows from the one,
`VerdictBeforeEffect` from the other with `HistoryOK`: a verdict once given never
changes, because it is a function of the token. What a call's handle is does not
matter to either theorem.

It matters to `ServingTypeCorrect` and `CallsServedAsAsked`, which are about whom a call
reaches. `ServedInv` says of every handle that the registry lists or a call holds that
it is of an earlier instance of its plugin, or of the instance of now, which then offers
what the handle was found for (`Serves`): an entry stays true because a start changes
the instance whenever it changes the offer (`ServesOn`), although nothing removes the
handle from a call that has it already. `Held` says that the process that works on an
exchange is its plugin's process of now, since `Loses` breaks the exchanges of the one
before. So a call whose exchange is with the instance of its handle is with a process
that offers what it asks for. That a lookup picks from the list, and that what
`deregister` leaves was in it, is `FilteredIs`; it rests on `RankExists`: up to their
number, every rank is that of one of the chosen positions, namely the least one up to
which there are that many. There is such a least one since < is well-founded on the
naturals (`Least`), which is how the proof does without an induction.

`TurnsAreEven` (`RoundRobinEven`) says when round robin is fair: if the length n of the
list divides the counter's range, which a run shows for one n and the theorem for all.
`Even` is the invariant: every plugin has had the same number of turns but for those at
the last positions before the cursor, which have had one more. `CursorMoves` is why the
cursor goes on by one also where the counter wraps: there the count is 0 again, and
so is its remainder by n, exactly if n divides the range (`Quotient`, `Remainder` have the
arithmetic). The counter of 2^64 meets it for lists of one, two, four plugins; for a list
of three the property does not apply, and one turn in 2^64 calls is uneven.

`ServingPromiseProofs!ServingImplementsPromise` is the refinement: `Spec =>
KeepsPromise`, every step of `Serving` is a step of `CallPromise` for one request or
none. The right to take effect for a request is a token. The handler has it
first; it goes to the request's call, from there to the exchange with the plugin, from the
http-router's exchange to its nested call and that one's exchange, and is spent by
`Execute`, or by a local handler that does its work. `Swallow` destroys it, as a refusal
does, though it answers with success. `RequestOK` says of one request, with the five records
that are about it, who has the token and that nobody else has (`OneToken`), that a
call and its exchange are about the same (`Matched`, `NoRouter`), that the outcomes on
their way back are true (`Targeted`, `Reported`: success only behind an effect or, where
none is due, if the token is gone for good; a refusal only if it is gone for good) and that
the answer is what `CallPromise` makes of them (`AnswerOK`). That the requests for which none is
due are those of `Unreported` needs to know where a call can lead: `AskedInv` says that a
call and its exchange are about auth, about the request's target or, behind the http-router,
about the router's, so an exchange about `forge.data.query` is one of a request that asks
for it (`SwallowsUnreported`; `OfficialAssumption` has query and write apart).

A lemma for each kind of step is about those records alone; `Moves` and `Alone` take it to
the whole state, since every step is about one request. That the effect of a protected request has its verdict is
`VerdictBeforeEffect`. A plugin that answers too late, a caller that left and a
process that died need no argument of their own: they lose the token.

`ServingPromiseProofs!ServingSupplies` is that of `Supervisor`: `Spec => SuppliedInOrder`.
That `deregister` takes away all that is the plugin's is `FilteredIs`; that it takes away
nothing else is `FilteredKeeps`: each chosen position is the one of its rank, since ranks
grow with positions (`RanksGrow`).

Only model-checked: the liveness properties (`RecoversOrStranded`, `DrainCompletes`,
`StuckIsResolved`, `AnswersInTheEnd`, `CatchesUp`, `SignalStops`): their proof needs
ENABLED of the fair actions, which the prover does not support. Every invariant and every
refinement that a passing run checks is also proved, under the hypotheses named above.

## 7. Not modelled

* The commands of `forge` other than `run` (templates of files, text, one HTTP request
  each), the examples and the redirect crates: no state that outlives a call.
* `healthz`, status, metrics, the redirect to HTTPS and the CORS headers: they read.
* The syntax of TOML, JSON, HTTP and SQL, TLS itself, gRPC framing: third-party code; a
  parse is modelled by whether it succeeds.
* Settings that no module reads, and the defaults of those whose value does not change
  a branch.
* The constructor of the embedded kernel (`kernel.rs`); what a program does with it --
  local handlers, removal of connections -- is in `Serving`.
* Statements that `forge.data.write` runs and that return rows: rusqlite reports those as
  errors though they may have had their effect.
* What a local handler does behind `NotFound` or `PluginError`: the model has it do
  nothing, since the gateways report these as refusals.
* A local handler that itself dispatches: behind a waiting `register_handler` it would
  wait for ever for the read lock its own call holds. It is the host's program; the
  model's handlers return.
* The arithmetic of `exponential_backoff`, and that `restart_attempts` is reset by a
  successful dial: see the notes of the hazards at `manager.rs:1001` and
  `manager.rs:430` in `PROJECT.json`.
* Registry and bus are twice in this project: as sets in `Manager`, where the question
  is who changes them when, and in order, with versions and rotation, in `Serving`,
  where it is what a call sees. There the manager is reduced to the four moves the bus
  can observe. Both models are proved to implement `Supervisor`, so they agree on that
  much; that every order of those four moves in `Serving` is one that `Manager` has, and
  the other way round, is not shown. The watcher's calls of the manager are one
  action each in `Watcher` and interleave with everything in `Manager`; no refinement
  between those two is stated.

## 8. How to run

    tlc -workers 2 -config manager_auto.cfg MCManager
    tlc -workers 2 -config serving.cfg MCServing
    tlc -workers 2 -config daemon.cfg MCDaemon
    tlapm ServingProofs.tla

`serving` takes about three minutes, `daemon` one to two.
