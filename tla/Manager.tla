------------------------------ MODULE Manager ------------------------------
(***************************************************************************)
(* The lifecycle manager of the Forge daemon                               *)
(* (src/forge/src/lifecycle/manager.rs): one map of plugin entries behind  *)
(* one tokio mutex, the capability registry, the bus's connection table,   *)
(* the channel of restart requests, and the tasks that work on them:       *)
(*                                                                         *)
(*   boot tasks     one per discovered plugin, spawned by start_all        *)
(*   Coordinator    the task of Manager::new that serves restart requests  *)
(*   Operators      HTTP handlers, each one call of restart_and_spawn      *)
(*   Watchers       the file watcher: start_plugin_if_new, restart_plugin, *)
(*                  retry_plugin_watch                                     *)
(*   loops          one health-check loop per successful start             *)
(*   shutdown_all   on ctrl-c                                              *)
(*                                                                         *)
(* An action is one critical section of the mutex, or one step outside it  *)
(* between two awaits (an RPC, a spawn, a registry or a bus call).  A call *)
(* made while the mutex is held belongs to the action that holds it.       *)
(***************************************************************************)
EXTENDS PluginState, Naturals, Sequences

CONSTANTS
    Plugins,        \* plugin names
    BootPlugins,    \* those with a manifest when the daemon starts
    Managed,        \* those whose transport is ManagedSubprocess
    NoPlugin,
    Caps,           \* capability names
    CapsOf,         \* the capabilities a plugin's Register reply lists
    Policy,         \* restart_policy of each plugin
    Threshold,      \* health_check_failure_threshold
    MaxAttempts,    \* restart_max_attempts
    Operators, Watchers, Coordinator,
    WatchJobs,      \* what the watcher finds to do
    CanShutdown,    \* whether ctrl-c may arrive
    Faults,         \* the kinds of failure that may happen ...
    MaxFaults,      \* ... and how many of them (bound of the model)
    MaxInstances    \* how many starts there may be (bound of the model)

FaultKinds == { "die", "spawn", "dial", "register", "health", "disconnect" }
Jobs == { "none", "start", "respawn", "new", "changed", "retry" }
Policies == { "always", "on-failure", "never" }
Callers == Plugins \cup Operators \cup Watchers \cup { Coordinator }
Instances == 1 .. MaxInstances
NoInst == 0

ASSUME PluginsAssumption ==
    /\ BootPlugins \subseteq Plugins
    /\ Managed \subseteq Plugins
    /\ NoPlugin \notin Plugins
    /\ CapsOf \in [Plugins -> SUBSET Caps]
    /\ Policy \in [Plugins -> Policies]

ASSUME CallersAssumption ==
    /\ Plugins \cap (Operators \cup Watchers \cup { Coordinator }) = {}
    /\ Operators \cap (Watchers \cup { Coordinator }) = {}
    /\ Coordinator \notin Watchers

ASSUME BoundsAssumption ==
    /\ Threshold \in Nat \ { 0 }
    /\ MaxAttempts \in Nat
    /\ MaxFaults \in Nat
    /\ MaxInstances \in Nat
    /\ Faults \subseteq FaultKinds
    /\ WatchJobs \subseteq Jobs
    /\ CanShutdown \in BOOLEAN

VARIABLES
    plugins,    \* the map of ManagedPlugin entries
    registry,   \* the registered capabilities, with the handle that serves them
    conns,      \* the keys of the bus's connection table
    queue,      \* restart requests sent and not yet received
    task,       \* what each caller is doing
    loops,      \* the health-check loop of each instance
    alive,      \* the spawned processes that run
    next,       \* the instance id the next start gets
    faults,     \* failures so far
    phase,      \* how far shutdown_all is
    closing     \* the names shutdown_all works on

vars == << plugins, registry, conns, queue, task, loops, alive, next, faults,
           phase, closing >>
shutdown == << phase, closing >>

-----------------------------------------------------------------------------
(* Types *)

\* The manifest and the drain grace period of an entry are not tracked: each
\* plugin has one manifest.  Counters stop where a larger value makes no
\* difference to any test of them.
Entry == [ state : PluginStates \cup { Absent },
           failures : 0 .. Threshold,
           channel : Instances \cup { NoInst },
           attempts : 0 .. MaxAttempts + 1,
           scheduled : BOOLEAN,
           starting : BOOLEAN,
           watch : 0 .. MaxAttempts,
           child : Instances \cup { NoInst } ]

Handle == [ cap : Caps, plugin : Plugins, inst : Instances ]

StartPcs == { "guard", "enter", "insert", "reap", "spawn", "store", "dial",
              "handshake", "stash", "register", "connect", "advertise",
              "ready", "reset", "finish" }
TaskPcs == StartPcs \cup { "idle", "restart", "drain", "retry", "done", "gone" }

Task == [ pc : TaskPcs, job : Jobs, plugin : Plugins \cup { NoPlugin },
          inst : Instances \cup { NoInst }, todo : SUBSET Caps ]

LoopPcs == { "off", "tick", "rpc", "healthy", "unhealthy", "crash", "dereg",
             "send", "ended" }
Loop == [ pc : LoopPcs, plugin : Plugins \cup { NoPlugin },
          chan : Instances \cup { NoInst }, resend : BOOLEAN ]

TypeOK ==
    /\ plugins \in [Plugins -> Entry]
    /\ registry \subseteq Handle
    /\ conns \subseteq Plugins \X Instances
    /\ queue \in Seq(Plugins)
    /\ task \in [Callers -> Task]
    /\ loops \in [Instances -> Loop]
    /\ alive \subseteq Instances
    /\ next \in 1 .. MaxInstances + 1
    /\ faults \in 0 .. MaxFaults
    /\ phase \in { "running", "named", "marked", "drained", "killed", "exited" }
    /\ closing \subseteq Plugins

-----------------------------------------------------------------------------
(* Auxiliaries *)

State(p) == plugins[p].state
IsServing(p) == State(p) \in Serving

\* An entry after a move of its state; a refused move leaves it as it is.
MoveTo(e, s) == [e EXCEPT !.state = Transition(e.state, s)]
Move(p, s) == plugins' = [plugins EXCEPT ![p] = MoveTo(@, s)]

Bump(n, max) == IF n < max THEN n + 1 ELSE n

\* Nothing happens once the process has exited.
At(c, pc) == phase # "exited" /\ task[c].pc = pc
LoopAt(i, pc) == phase # "exited" /\ loops[i].pc = pc

Goto(c, pc) == task' = [task EXCEPT ![c].pc = pc]
GotoLoop(i, pc) == loops' = [loops EXCEPT ![i].pc = pc, ![i].chan = NoInst]

Rest(pc) == [ pc |-> pc, job |-> "none", plugin |-> NoPlugin,
              inst |-> NoInst, todo |-> {} ]

\* The caller is through with its plugin: boot tasks and HTTP handlers end,
\* the coordinator and the watcher go on to the next one.
Return(c) ==
    task' = [task EXCEPT ![c] =
                Rest(IF c \in Plugins \cup Operators THEN "done" ELSE "idle")]

Fault(kind) == /\ kind \in Faults
               /\ faults < MaxFaults
               /\ faults' = faults + 1

\* A process behind instance i of p can answer: a managed one while it runs, a
\* server started by hand always (its outages are faults).
Answers(p, i) == p \in Managed => i \in alive

\* cmd_run builds the gateway and the watcher after start_all has returned.
Booted == \A p \in Plugins : task[p].pc = "done"

-----------------------------------------------------------------------------
Init ==
    /\ plugins = [p \in Plugins |->
                    [ state |-> Absent, failures |-> 0, channel |-> NoInst,
                      attempts |-> 0, scheduled |-> FALSE, starting |-> FALSE,
                      watch |-> 0, child |-> NoInst ]]
    /\ registry = {}
    /\ conns = {}
    /\ queue = << >>
    /\ task = [c \in Callers |->
                 IF c \in BootPlugins
                 THEN [Rest("enter") EXCEPT !.job = "start", !.plugin = c]
                 ELSE Rest(IF c \in Plugins THEN "done" ELSE "idle")]
    /\ loops = [i \in Instances |->
                  [ pc |-> "off", plugin |-> NoPlugin, chan |-> NoInst,
                    resend |-> FALSE ]]
    /\ alive = {}
    /\ next = 1
    /\ faults = 0
    /\ phase = "running"
    /\ closing = {}

-----------------------------------------------------------------------------
(* start_one: the guard around a start, taken by every caller but the boot *)
(* tasks.  An entry that does not exist cannot be guarded.                 *)

SkipStart(c) ==
    /\ At(c, "guard")
    /\ plugins[task[c].plugin].starting
    /\ Return(c)
    /\ UNCHANGED << plugins, registry, conns, queue, loops, alive, next,
                    faults, shutdown >>

\* Mutant: the flag is tested and never set.
BeginStartUnmarked(c) ==
    /\ At(c, "guard")
    /\ ~plugins[task[c].plugin].starting
    /\ Goto(c, "enter")
    /\ UNCHANGED << plugins, registry, conns, queue, loops, alive, next,
                    faults, shutdown >>

BeginStart(c) ==
    /\ At(c, "guard")
    /\ LET p == task[c].plugin IN
        /\ ~plugins[p].starting
        /\ plugins' = [plugins EXCEPT ![p].starting = State(p) # Absent]
    /\ Goto(c, "enter")
    /\ UNCHANGED << registry, conns, queue, loops, alive, next, faults,
                    shutdown >>

FinishStart(c) ==
    /\ At(c, "finish")
    /\ plugins' = [plugins EXCEPT ![task[c].plugin].starting = FALSE]
    /\ Return(c)
    /\ UNCHANGED << registry, conns, queue, loops, alive, next, faults,
                    shutdown >>

-----------------------------------------------------------------------------
(* start_one_impl, in the order of its awaits.                             *)

\* An error return of start_one_impl.  A boot task answers it with one restart
\* request; start_one clears its guard.
FailStart(c) ==
    IF c \in Plugins
    THEN Return(c) /\ queue' = Append(queue, task[c].plugin)
    ELSE Goto(c, "finish") /\ UNCHANGED queue

Enter(c) ==
    /\ At(c, "enter")
    /\ next <= MaxInstances
    /\ next' = next + 1
    /\ Move(task[c].plugin, "Discovered")
    /\ task' = [task EXCEPT ![c].pc = "insert", ![c].inst = next]
    /\ UNCHANGED << registry, conns, queue, loops, alive, faults, shutdown >>

\* Mutant: the flag of a queued restart survives the start it asked for.
RefreshedKeepsScheduled(e) ==
    [e EXCEPT !.state = IF @ = Absent THEN "Connecting"
                        ELSE Transition(@, "Connecting"),
              !.channel = NoInst,
              !.failures = 0]

\* insert_or_update_plugin on an entry.  The state moves only if that is legal;
\* the rest is reset whether or not it moved.
Refreshed(e) ==
    [e EXCEPT !.state = IF @ = Absent THEN "Connecting"
                        ELSE Transition(@, "Connecting"),
              !.channel = NoInst,
              !.failures = 0,
              !.scheduled = FALSE]

Insert(c) ==
    /\ At(c, "insert")
    /\ LET p == task[c].plugin IN
        /\ plugins' = [plugins EXCEPT ![p] = Refreshed(@)]
        /\ Goto(c, IF p \in Managed THEN "reap" ELSE "dial")
    /\ UNCHANGED << registry, conns, queue, loops, alive, next, faults,
                    shutdown >>

\* Kill the child an earlier start left behind.
Reap(c) ==
    /\ At(c, "reap")
    /\ LET p == task[c].plugin IN
        /\ alive' = alive \ { plugins[p].child }
        /\ plugins' = [plugins EXCEPT ![p].child = NoInst]
    /\ Goto(c, "spawn")
    /\ UNCHANGED << registry, conns, queue, loops, next, faults, shutdown >>

Spawn(c) ==
    /\ At(c, "spawn")
    /\ alive' = alive \cup { task[c].inst }
    /\ Goto(c, "store")
    /\ UNCHANGED << plugins, registry, conns, queue, loops, next, faults,
                    shutdown >>

SpawnFails(c) ==
    /\ At(c, "spawn")
    /\ Fault("spawn")
    /\ FailStart(c)
    /\ UNCHANGED << plugins, registry, conns, loops, alive, next, shutdown >>

StoreChild(c) ==
    /\ At(c, "store")
    /\ plugins' = [plugins EXCEPT ![task[c].plugin].child = task[c].inst]
    /\ Goto(c, "dial")
    /\ UNCHANGED << registry, conns, queue, loops, alive, next, faults,
                    shutdown >>

Dial(c) ==
    /\ At(c, "dial")
    /\ Answers(task[c].plugin, task[c].inst)
    /\ Goto(c, "handshake")
    /\ UNCHANGED << plugins, registry, conns, queue, loops, alive, next,
                    faults, shutdown >>

\* Nobody listens at the address, or not in time.
DialFails(c) ==
    /\ At(c, "dial")
    /\ \/ ~Answers(task[c].plugin, task[c].inst) /\ UNCHANGED faults
       \/ Fault("dial")
    /\ FailStart(c)
    /\ UNCHANGED << plugins, registry, conns, loops, alive, next, shutdown >>

Handshake(c) ==
    /\ At(c, "handshake")
    /\ Move(task[c].plugin, "Handshaking")
    /\ Goto(c, "stash")
    /\ UNCHANGED << registry, conns, queue, loops, alive, next, faults,
                    shutdown >>

StashChannel(c) ==
    /\ At(c, "stash")
    /\ plugins' = [plugins EXCEPT ![task[c].plugin] =
                     [@ EXCEPT !.channel = task[c].inst,
                               !.attempts = 0,
                               !.scheduled = FALSE]]
    /\ Goto(c, "register")
    /\ UNCHANGED << registry, conns, queue, loops, alive, next, faults,
                    shutdown >>

\* The Register RPC; its reply lists the capabilities.
RegisterRpc(c) ==
    /\ At(c, "register")
    /\ Answers(task[c].plugin, task[c].inst)
    /\ task' = [task EXCEPT ![c].pc = "connect",
                            ![c].todo = CapsOf[task[c].plugin]]
    /\ UNCHANGED << plugins, registry, conns, queue, loops, alive, next,
                    faults, shutdown >>

RegisterFails(c) ==
    /\ At(c, "register")
    /\ \/ ~Answers(task[c].plugin, task[c].inst) /\ UNCHANGED faults
       \/ Fault("register")
    /\ FailStart(c)
    /\ UNCHANGED << plugins, registry, conns, loops, alive, next, shutdown >>

\* Mutant: the connection is registered under an empty instance id.
ConnectUnnamed(c) ==
    /\ At(c, "connect")
    /\ conns' = conns \cup { << task[c].plugin, NoInst >> }
    /\ Goto(c, IF task[c].todo = {} THEN "ready" ELSE "advertise")
    /\ UNCHANGED << plugins, registry, queue, loops, alive, next, faults,
                    shutdown >>

Connect(c) ==
    /\ At(c, "connect")
    /\ conns' = conns \cup { << task[c].plugin, task[c].inst >> }
    /\ Goto(c, IF task[c].todo = {} THEN "ready" ELSE "advertise")
    /\ UNCHANGED << plugins, registry, queue, loops, alive, next, faults,
                    shutdown >>

Advertise(c) ==
    /\ At(c, "advertise")
    /\ \E cap \in task[c].todo :
        /\ registry' = registry \cup { [ cap |-> cap, plugin |-> task[c].plugin,
                                         inst |-> task[c].inst ] }
        /\ task' = [task EXCEPT
                      ![c].todo = @ \ { cap },
                      ![c].pc = IF task[c].todo = { cap } THEN "ready" ELSE @]
    /\ UNCHANGED << plugins, conns, queue, loops, alive, next, faults,
                    shutdown >>

Announce(c) ==
    /\ At(c, "ready")
    /\ Move(task[c].plugin, "Ready")
    /\ Goto(c, "reset")
    /\ UNCHANGED << registry, conns, queue, loops, alive, next, faults,
                    shutdown >>

\* Reset the watch counter and spawn the health-check loop.
Monitor(c) ==
    /\ At(c, "reset")
    /\ plugins' = [plugins EXCEPT ![task[c].plugin].watch = 0]
    /\ loops' = [loops EXCEPT ![task[c].inst] =
                   [@ EXCEPT !.pc = "tick", !.plugin = task[c].plugin]]
    /\ IF c \in Plugins THEN Return(c) ELSE Goto(c, "finish")
    /\ UNCHANGED << registry, conns, queue, alive, next, faults, shutdown >>

Start(c) ==
    \/ SkipStart(c) \/ BeginStart(c) \/ FinishStart(c)
    \/ Enter(c) \/ Insert(c)
    \/ Reap(c) \/ Spawn(c) \/ SpawnFails(c) \/ StoreChild(c)
    \/ Dial(c) \/ DialFails(c)
    \/ Handshake(c) \/ StashChannel(c)
    \/ RegisterRpc(c) \/ RegisterFails(c)
    \/ Connect(c) \/ Advertise(c) \/ Announce(c) \/ Monitor(c)

-----------------------------------------------------------------------------
(* The coordinator: one request at a time, in the order they were sent.    *)
(* Its back-off sleep is the time it may spend before the guard.           *)

TakeRequest(c) ==
    /\ c = Coordinator
    /\ At(c, "idle")
    /\ queue # << >>
    /\ queue' = Tail(queue)
    /\ task' = [task EXCEPT ![c] = [Rest("guard") EXCEPT
                                      !.job = "start", !.plugin = Head(queue)]]
    /\ UNCHANGED << plugins, registry, conns, loops, alive, next, faults,
                    shutdown >>

-----------------------------------------------------------------------------
(* Draining and restarting.                                                *)

\* drain_plugin_inner on a set of plugins, the mutex held throughout: the Drain
\* RPC and the grace period change nothing here, the child is killed, the
\* capabilities are removed by plugin name and the connection by the key of a
\* handle without an instance.  The entry keeps its channel.
\* Mutants: an entry without a channel is passed over; entries are removed only
\* when the handle without an instance matches; the registry is cleared;
\* the connections are removed by plugin name; the child is dropped and not killed.
DrainedIfConnected(e) == IF e.channel = NoInst THEN e
                         ELSE [MoveTo(e, "Stopped") EXCEPT !.child = NoInst]
DeregisterByHandle(ps) ==
    registry' = { h \in registry : h.plugin \notin ps \/ h.inst # NoInst }
DeregisterAll(ps) == registry' = {}
RemoveConnectionByName(ps) == conns' = { k \in conns : k[1] \notin ps }
KillNoChildren(ps) == UNCHANGED alive

Drained(e) == [MoveTo(e, "Stopped") EXCEPT !.child = NoInst]
Deregister(ps) == registry' = { h \in registry : h.plugin \notin ps }
RemoveConnection(ps) == conns' = conns \ (ps \X { NoInst })
KillChildren(ps) == alive' = alive \ { plugins[p].child : p \in ps }

\* A handler of restart_and_spawn gets its request; the watcher sees a manifest
\* it does not know, one that changed, or a plugin that looks stuck.
Request(c, p, job, pc) ==
    /\ Booted
    /\ At(c, "idle")
    /\ c \in Watchers => job \in WatchJobs
    /\ task' = [task EXCEPT ![c] = [Rest(pc) EXCEPT !.job = job, !.plugin = p]]
    /\ UNCHANGED << plugins, registry, conns, queue, loops, alive, next,
                    faults, shutdown >>

RestartRequested(c, p) ==
    /\ c \in Operators
    /\ Request(c, p, "respawn", "restart")

\* start_plugin_if_new: whether the plugin runs decides what to do about it.
NewManifest(c, p) ==
    /\ c \in Watchers
    /\ Request(c, p, "new", IF IsServing(p) THEN "restart" ELSE "guard")

ManifestChanged(c, p) ==
    /\ c \in Watchers
    /\ Request(c, p, "changed", "restart")

SeenStuck(c, p) ==
    /\ c \in Watchers
    /\ State(p) \in { "Connecting", "Discovered" }
    /\ Request(c, p, "retry", "retry")

\* restart_plugin and restart_and_spawn refuse a known plugin that is not
\* serving; start_plugin_if_new goes on to start_one all the same.
RestartRefused(c) ==
    /\ At(c, "restart")
    /\ State(task[c].plugin) \notin Serving \cup { Absent }
    /\ IF task[c].job = "new" THEN Goto(c, "guard") ELSE Return(c)
    /\ UNCHANGED << plugins, registry, conns, queue, loops, alive, next,
                    faults, shutdown >>

RestartAccepted(c) ==
    /\ At(c, "restart")
    /\ State(task[c].plugin) \in Serving \cup { Absent }
    /\ Move(task[c].plugin, "Draining")
    /\ Goto(c, "drain")
    /\ UNCHANGED << registry, conns, queue, loops, alive, next, faults,
                    shutdown >>

\* The second critical section: drain, back to Discovered, and what the caller
\* does next.
Drain(c) ==
    /\ At(c, "drain")
    /\ LET p == task[c].plugin IN
        /\ plugins' = [plugins EXCEPT ![p] =
              [MoveTo(Drained(@), "Discovered") EXCEPT !.attempts = 0]]
        /\ KillChildren({ p })
        /\ Deregister({ p })
        /\ RemoveConnection({ p })
        /\ IF \/ task[c].job = "new"
              \/ task[c].job = "respawn" /\ State(p) # Absent
           THEN Goto(c, "guard")
           ELSE Return(c)
    /\ UNCHANGED << queue, loops, next, faults, shutdown >>

\* retry_plugin_watch: nothing to do for a plugin that serves by now, the end
\* for one that used up its attempts, a start otherwise.
RetryWatch(c) ==
    /\ At(c, "retry")
    /\ LET p == task[c].plugin
           w == Bump(plugins[p].watch, MaxAttempts)
       IN \/ /\ IsServing(p) \/ State(p) = Absent
             /\ Return(c)
             /\ UNCHANGED plugins
          \/ /\ ~IsServing(p) /\ State(p) # Absent
             /\ w >= MaxAttempts
             /\ plugins' = [plugins EXCEPT ![p] =
                              [MoveTo(@, "Stopped") EXCEPT !.watch = w]]
             /\ Return(c)
          \/ /\ ~IsServing(p) /\ State(p) # Absent
             /\ w < MaxAttempts
             /\ plugins' = [plugins EXCEPT ![p].watch = w]
             /\ Goto(c, "guard")
    /\ UNCHANGED << registry, conns, queue, loops, alive, next, faults,
                    shutdown >>

\* The client of a restart hangs up: the HTTP server drops the handler where it
\* waits, and nothing it had still to do is done.  It waits before every action
\* but the registration of a capability.  The record of the caller remembers what
\* it gave up.
Disconnect(c) ==
    /\ c \in Operators
    /\ phase # "exited"
    /\ task[c].pc \notin { "idle", "advertise", "done", "gone" }
    /\ Fault("disconnect")
    /\ Goto(c, "gone")
    /\ UNCHANGED << plugins, registry, conns, queue, loops, alive, next,
                    shutdown >>

\* The drain waits halfway, too: for the killed child to exit and for the
\* connection table.
DisconnectInDrain(c) ==
    /\ c \in Operators
    /\ At(c, "drain")
    /\ Fault("disconnect")
    /\ Goto(c, "gone")
    /\ LET p == task[c].plugin IN
        /\ KillChildren({ p })
        /\ \/ /\ plugins' = [plugins EXCEPT ![p].child = NoInst]
              /\ UNCHANGED registry
           \/ /\ plugins' = [plugins EXCEPT ![p] = Drained(@)]
              /\ Deregister({ p })
    /\ UNCHANGED << conns, queue, loops, next, shutdown >>

Restart(c) ==
    \/ \E p \in Plugins : \/ RestartRequested(c, p) \/ NewManifest(c, p)
                          \/ ManifestChanged(c, p) \/ SeenStuck(c, p)
    \/ RestartRefused(c) \/ RestartAccepted(c) \/ Drain(c) \/ RetryWatch(c)
    \/ Disconnect(c) \/ DisconnectInDrain(c)

-----------------------------------------------------------------------------
(* The health-check loop of instance i.                                    *)

\* The state and the channel are read under the mutex, the RPC is made after.
\* In any other state the loop just waits for the next tick.
Tick(i) ==
    /\ LoopAt(i, "tick")
    /\ LET p == loops[i].plugin IN
        \/ /\ IsServing(p)
           /\ IF plugins[p].channel = NoInst
              THEN GotoLoop(i, "crash")
              ELSE loops' = [loops EXCEPT ![i].pc = "rpc",
                                          ![i].chan = plugins[p].channel]
        \/ /\ State(p) \in { "Stopped", Absent }
           /\ GotoLoop(i, "ended")
    /\ UNCHANGED << plugins, registry, conns, queue, task, alive, next, faults,
                    shutdown >>

\* The plugin answers; an error status other than Unavailable counts as
\* unhealthy.
Reply(i) ==
    /\ LoopAt(i, "rpc")
    /\ Answers(loops[i].plugin, loops[i].chan)
    /\ \E verdict \in { "healthy", "unhealthy" } : GotoLoop(i, verdict)
    /\ UNCHANGED << plugins, registry, conns, queue, task, alive, next, faults,
                    shutdown >>

\* Unavailable, or no answer within five seconds.
NoReply(i) ==
    /\ LoopAt(i, "rpc")
    /\ \/ ~Answers(loops[i].plugin, loops[i].chan) /\ UNCHANGED faults
       \/ Fault("health")
    /\ GotoLoop(i, "crash")
    /\ UNCHANGED << plugins, registry, conns, queue, task, alive, next,
                    shutdown >>

AfterHealthy(e) ==
    [e EXCEPT !.failures = 0,
              !.state = IF @ = "Degraded" THEN Transition(@, "Ready") ELSE @]

AfterUnhealthy(e) ==
    LET n == Bump(e.failures, Threshold)
    IN [e EXCEPT !.failures = n,
                 !.state = IF n >= Threshold /\ @ = "Ready"
                           THEN Transition(@, "Degraded") ELSE @]

Healthy(i) ==
    /\ LoopAt(i, "healthy")
    /\ plugins' = [plugins EXCEPT ![loops[i].plugin] = AfterHealthy(@)]
    /\ GotoLoop(i, "tick")
    /\ UNCHANGED << registry, conns, queue, task, alive, next, faults,
                    shutdown >>

Unhealthy(i) ==
    /\ LoopAt(i, "unhealthy")
    /\ plugins' = [plugins EXCEPT ![loops[i].plugin] = AfterUnhealthy(@)]
    /\ GotoLoop(i, "tick")
    /\ UNCHANGED << registry, conns, queue, task, alive, next, faults,
                    shutdown >>

\* crash_and_schedule_restart, its critical section: the entry as it is now is
\* stopped and, unless one is queued already, a restart is decided on.
ShouldRestart(e, p, attempts) ==
    /\ ~e.scheduled
    /\ \/ Policy[p] = "always"
       \/ Policy[p] = "on-failure" /\ attempts <= MaxAttempts

\* Mutant: a degraded plugin is not stopped.
StateAfterCrashOfReady(s) == IF s = "Ready" THEN Transition(s, "Stopped") ELSE s

StateAfterCrash(s) == IF s \in Serving THEN Transition(s, "Stopped") ELSE s

Crash(i) ==
    /\ LoopAt(i, "crash")
    /\ LET p == loops[i].plugin
           e == plugins[p]
           n == Bump(e.attempts, MaxAttempts + 1)
           should == ShouldRestart(e, p, n)
       IN /\ plugins' = [plugins EXCEPT ![p] =
                [e EXCEPT !.state = StateAfterCrash(@),
                          !.attempts = n,
                          !.scheduled = @ \/ should]]
          /\ loops' = [loops EXCEPT ![i].pc = "dereg", ![i].resend = should]
    /\ UNCHANGED << registry, conns, queue, task, alive, next, faults,
                    shutdown >>

\* ... then, the mutex released, the capabilities and the connection ...
CrashDeregister(i) ==
    /\ LoopAt(i, "dereg")
    /\ Deregister({ loops[i].plugin })
    /\ RemoveConnection({ loops[i].plugin })
    /\ GotoLoop(i, "send")
    /\ UNCHANGED << plugins, queue, task, alive, next, faults, shutdown >>

\* Mutants: the loop goes on after a crash; the channel holds one request only.
CrashSendAndGoOn(i) ==
    /\ LoopAt(i, "send")
    /\ queue' = IF loops[i].resend THEN Append(queue, loops[i].plugin)
                ELSE queue
    /\ loops' = [loops EXCEPT ![i].pc = "tick", ![i].resend = FALSE]
    /\ UNCHANGED << plugins, registry, conns, task, alive, next, faults,
                    shutdown >>
CrashTrySend(i) ==
    /\ LoopAt(i, "send")
    /\ queue' = IF loops[i].resend /\ queue = << >>
                THEN << loops[i].plugin >> ELSE queue
    /\ loops' = [loops EXCEPT ![i].pc = "ended", ![i].resend = FALSE]
    /\ UNCHANGED << plugins, registry, conns, task, alive, next, faults,
                    shutdown >>

\* ... and last the request itself.
CrashSend(i) ==
    /\ LoopAt(i, "send")
    /\ queue' = IF loops[i].resend THEN Append(queue, loops[i].plugin)
                ELSE queue
    /\ loops' = [loops EXCEPT ![i].pc = "ended", ![i].resend = FALSE]
    /\ UNCHANGED << plugins, registry, conns, task, alive, next, faults,
                    shutdown >>

Check(i) ==
    \/ Tick(i) \/ Reply(i) \/ NoReply(i) \/ Healthy(i) \/ Unhealthy(i)
    \/ Crash(i) \/ CrashDeregister(i) \/ CrashSend(i)

-----------------------------------------------------------------------------
(* A managed process dies on its own.                                      *)

Die(i) ==
    /\ phase # "exited"
    /\ i \in alive
    /\ Fault("die")
    /\ alive' = alive \ { i }
    /\ UNCHANGED << plugins, registry, conns, queue, task, loops, next,
                    shutdown >>

-----------------------------------------------------------------------------
(* shutdown_all, and the exit of the daemon after it.                      *)

\* The names are collected in a critical section of their own.
NameAll ==
    /\ CanShutdown /\ Booted
    /\ phase = "running"
    /\ phase' = "named"
    /\ closing' = { p \in Plugins : State(p) # Absent }
    /\ UNCHANGED << plugins, registry, conns, queue, task, loops, alive, next,
                    faults >>

MarkAll ==
    /\ phase = "named"
    /\ phase' = "marked"
    /\ plugins' = [p \in Plugins |->
          IF p \in closing /\ IsServing(p) THEN MoveTo(plugins[p], "Draining")
          ELSE plugins[p]]
    /\ UNCHANGED << registry, conns, queue, task, loops, alive, next, faults,
                    closing >>

DrainAll ==
    /\ phase = "marked"
    /\ phase' = "drained"
    /\ plugins' = [p \in Plugins |->
          IF p \in closing THEN Drained(plugins[p]) ELSE plugins[p]]
    /\ KillChildren(closing)
    /\ Deregister(closing)
    /\ RemoveConnection(closing)
    /\ UNCHANGED << queue, task, loops, next, faults, closing >>

KillAll ==
    /\ phase = "drained"
    /\ phase' = "killed"
    /\ KillChildren(closing)
    /\ plugins' = [p \in Plugins |->
          IF p \in closing THEN [plugins[p] EXCEPT !.child = NoInst]
          ELSE plugins[p]]
    /\ UNCHANGED << registry, conns, queue, task, loops, next, faults,
                    closing >>

Exit ==
    /\ phase = "killed"
    /\ phase' = "exited"
    /\ UNCHANGED << plugins, registry, conns, queue, task, loops, alive, next,
                    faults, closing >>

Shutdown == NameAll \/ MarkAll \/ DrainAll \/ KillAll \/ Exit

-----------------------------------------------------------------------------
Step(c) == Start(c) \/ TakeRequest(c) \/ Restart(c)

Next ==
    \/ \E c \in Callers : Step(c)
    \/ \E i \in Instances : Check(i) \/ Die(i)
    \/ Shutdown

Spec == Init /\ [][Next]_vars

(***************************************************************************)
(* Tokio runs every task that can run, every RPC of a start or a check has *)
(* a timeout, and the mutex is fair: a caller in the middle of an          *)
(* operation, the coordinator and every loop take their next step.  The    *)
(* watcher goes through all plugins every three seconds, so it does not    *)
(* overlook a stuck one for ever.  No request, manifest change, fault or   *)
(* ctrl-c ever has to come.                                                *)
(***************************************************************************)
Fairness ==
    /\ \A c \in Callers :
          /\ WF_vars(Start(c) \/ TakeRequest(c))
          /\ WF_vars(RestartRefused(c) \/ RestartAccepted(c) \/ Drain(c)
                     \/ RetryWatch(c))
    /\ \A w \in Watchers, p \in Plugins : SF_vars(SeenStuck(w, p))
    /\ \A i \in Instances : WF_vars(Check(i))
    /\ WF_vars(MarkAll \/ DrainAll \/ KillAll \/ Exit)

FairSpec == Spec /\ Fairness

-----------------------------------------------------------------------------
(* Properties that hold however the manager is used.                       *)

\* A client hung up on a restart of p.
Abandoned(p) ==
    \E o \in Operators : task[o].plugin = p /\ task[o].pc = "gone"

CheckingPcs == { "tick", "rpc", "healthy", "unhealthy", "crash" }
StartingPcs == StartPcs \ { "guard" }

\* A plugin that counts as running is being watched: a health-check loop of it
\* is at work, or the start that made it Ready is about to spawn one.  Otherwise
\* a dead plugin would be advertised for ever.  (It would be after a hang-up.)
Monitored ==
    \A p \in Plugins : IsServing(p) =>
        \/ \E i \in Instances : /\ loops[i].plugin = p
                                 /\ loops[i].pc \in CheckingPcs
        \/ \E c \in Callers : task[c].plugin = p /\ task[c].pc = "reset"
        \/ Abandoned(p)

\* Nobody leaves a plugin in Draining, which has no way out but Stopped: either
\* the caller that put it there still has to drain it, or shutdown_all has; a
\* client that hangs up is the one exception.
DrainingIsOwned ==
    \A p \in Plugins : State(p) = "Draining" =>
        \/ \E c \in Callers : task[c].plugin = p /\ task[c].pc = "drain"
        \/ phase = "marked" /\ p \in closing
        \/ Abandoned(p)

\* Two starts of one plugin never overlap, the purpose of the starting flag.
\* (Of plugins the manager has had an entry for since it booted; see the README
\* for one whose manifest appears later.)
OneStart ==
    \A c, d \in Callers :
        /\ task[c].plugin = task[d].plugin
        /\ task[c].plugin \in BootPlugins
        /\ task[c].pc \in StartingPcs
        /\ task[d].pc \in StartingPcs
        => c = d

\* Whatever the registry can answer a lookup with, the bus has a connection for:
\* dispatch never fails with "plugin not connected".
RegisteredIsConnected ==
    \A h \in registry : << h.plugin, h.inst >> \in conns

\* Every spawned process is in its plugin's entry, where a later start, a drain
\* or the shutdown finds and kills it, except while the start that spawned it is
\* between the spawn and the insertion, or was abandoned there.
NoOrphan ==
    \A i \in alive :
        \/ \E p \in Plugins : plugins[p].child = i
        \/ \E c \in Callers : /\ task[c].pc \in { "store", "gone" }
                              /\ task[c].inst = i

\* The live processes of p that somebody knows of.
Processes(p) ==
    { i \in alive : \/ plugins[p].child = i
                    \/ \E c \in Callers : task[c].plugin = p /\ task[c].inst = i }

\* No plugin ever runs twice: whatever restarts, fails or is given up, a start
\* spawns its process only when that of the last one has been killed or is known
\* to be dead (start_one_impl kills the old child before the spawn).
OneProcess ==
    \A p \in BootPlugins : \A i, j \in Processes(p) : i = j

\* A drain that began ends, unless its client hung up.
DrainCompletes ==
    \A p \in Plugins :
        State(p) = "Draining" ~> State(p) # "Draining" \/ Abandoned(p)

\* When shutdown_all has drained the plugins, those it knows are Stopped and not
\* registered, and no process runs but one that a start spawned and has not
\* entered into the map yet.
ShutdownDrains ==
    [][DrainAll =>
        /\ \A p \in closing : State(p)' = "Stopped"
        /\ \A h \in registry' : h.plugin \notin closing
        /\ \A i \in alive' : \E c \in Callers : /\ task[c].pc \in { "store", "gone" }
                                             /\ task[c].inst = i]_vars

\* "True while a start operation is in progress": the starting flag of a plugin is
\* held by a start of it.
StartingIsHeld ==
    \A p \in Plugins : plugins[p].starting =>
        \E c \in Callers : task[c].plugin = p /\ task[c].pc \in StartingPcs

-----------------------------------------------------------------------------
(* What the rest of the kernel sees: the instances on the bus, and what a  *)
(* lookup may find, of the plugins known at boot (two starts of one whose  *)
(* manifest appears later may overlap, see OneStart).                      *)
ConnectedOf(p) == { i \in Instances : << p, i >> \in conns }
NewestOf(p) ==
    IF ConnectedOf(p) = {} THEN NoInst
    ELSE CHOOSE i \in ConnectedOf(p) : \A j \in ConnectedOf(p) : j <= i

Outside == INSTANCE Supervisor
             WITH Plugins <- BootPlugins, MayOffer <- CapsOf,
                  newest <- [ p \in BootPlugins |-> NewestOf(p) ],
                  offered <- { h \in registry : h.plugin \in BootPlugins }

\* The manager keeps the order that the gateways and the bus rely on: instances
\* come up one after the other, only the newest is advertised, and a plugin is
\* withdrawn as a whole, also by a crash report that comes late, a shutdown in the
\* middle of a start or a client that hangs up (Supervisor).
SuppliesInOrder == Outside!Spec

-----------------------------------------------------------------------------
(* Properties of a manager left to itself: no operator, no watcher.        *)

InCrash(p) == \E i \in Instances : /\ loops[i].plugin = p
                                  /\ loops[i].pc \in { "dereg", "send" }

\* The places where a restart of p waits for its turn.
Requests(p) ==
    { << "loop", i >> : i \in { j \in Instances :
          loops[j].plugin = p /\ loops[j].resend } }
    \cup { << "queue", n >> : n \in { m \in DOMAIN queue : queue[m] = p } }
    \cup { << "task", c >> : c \in { d \in { Coordinator } :
          /\ task[d].plugin = p
          /\ task[d].pc \in { "guard", "enter", "insert" } } }

\* "True when a restart is already queued": a plugin marked as scheduled that is
\* not being started has a request on its way, or no later crash could ever
\* restart it.
ScheduledIsQueued ==
    \A p \in Plugins :
        plugins[p].scheduled /\ ~plugins[p].starting => Requests(p) # {}

\* ... and the flag stops double-spawning: there is never a second request.
RequestedOnce ==
    \A p \in Plugins : \A r, s \in Requests(p) : r = s

\* The capabilities of a plugin are gone once it is Stopped and the crash that
\* stopped it is through with the registry.
StoppedIsUnregistered ==
    \A p \in Plugins : State(p) = "Stopped" /\ ~InCrash(p) =>
        \A h \in registry : h.plugin # p

\* A plugin becomes Ready only with all of its capabilities registered, and they
\* stay so as long as it serves.
ServingIsRegistered ==
    \A p \in Plugins : IsServing(p) =>
        \A cap \in CapsOf[p] :
            [ cap |-> cap, plugin |-> p, inst |-> plugins[p].channel ] \in registry

\* Invocations go to the instance whose health is checked: a lookup never
\* answers with a handle of an earlier instance.
HandleIsCurrent ==
    \A h \in registry : h.inst = plugins[h.plugin].channel

\* A start of p failed and nobody will try again: the entry stays as that start
\* left it.
Stranded(p) ==
    /\ State(p) \in { "Connecting", "Handshaking" }
    /\ Requests(p) = {}
    /\ \A c \in Callers : task[c].plugin # p

\* Once the failures are over every plugin serves, and goes on to, but for those
\* whose restart failed: a restart is tried once.
RecoversOrStranded ==
    <>[](\A p \in BootPlugins : IsServing(p) \/ Stranded(p))

\* Once the failures are over every plugin serves, and goes on to: what the
\* documented restart policy promises.
EventuallyServing ==
    <>[](\A p \in BootPlugins : IsServing(p))

\* The connection of a plugin that hit Stopped is removed from the bus.
StoppedIsDisconnected ==
    \A p \in Plugins : State(p) = "Stopped" /\ ~InCrash(p) =>
        \A k \in conns : k[1] # p

-----------------------------------------------------------------------------
(* Properties of the file watcher.                                         *)

\* A plugin that the boot could not start is started in the end or given up, unless
\* the model runs out of instance ids.  Nobody comes back only for one that did not
\* accept its registration: it stays in Handshaking, which the watcher passes over
\* (register_service, and the retries of the daemon's watcher).
StuckIsResolved ==
    \A p \in Plugins :
        State(p) \in { "Connecting", "Discovered" }
            ~> \/ State(p) \in Serving \cup { "Stopped" }
               \/ State(p) = "Handshaking" /\ Stranded(p)
               \/ next > MaxInstances
=============================================================================
