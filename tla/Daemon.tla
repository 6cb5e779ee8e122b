------------------------------- MODULE Daemon -------------------------------
(***************************************************************************)
(* `forge run` (cmd_run of src/cli/src/main.rs): configuration             *)
(* (src/forge/src/config.rs), discovery and boot, the watcher's task, the  *)
(* gateway's future against ctrl-c, and the end of the process.            *)
(*                                                                         *)
(* Watcher and gateway share no state but the configuration, so a world    *)
(* of the model has editing or clients, not both.                          *)
(***************************************************************************)
EXTENDS Gateway, Watcher

CONSTANTS
    Worlds,         \* what the daemon finds and meets
    NoConfig

\* What the model needs of a value in a file or in the environment.
Unset == "unset"
Flags == { Unset, "true", "1", "yes", "false" }
Limits == { Unset, "none", "some", "garbage" }
Sources == [ version : { Unset, "1.x", "2.x" }, tls : Flags, watch : Flags, limit : Limits ]
Reads == { "fine", "unreadable", "malformed" }
Phases == { "loading", "booting", "serving", "draining", "exited" }
Exits == { "none", "config", "killed", "joined", "drained" }

Configs == [ tls : BOOLEAN, watch : BOOLEAN, limited : BOOLEAN ]

ASSUME DaemonAssumption ==
    /\ NoConfig \notin Configs
    /\ \A w \in Worlds :
         /\ w.read \in Reads
         /\ w.file \in Sources
         /\ w.env \in Sources
         /\ w.disk \in [ Paths -> Files ]
         /\ w.edits \in BOOLEAN
         /\ w.clients \subseteq Connections
         /\ w.signals \in BOOLEAN
         /\ w.interrupts \in BOOLEAN

VARIABLES
    world,      \* it never changes
    config,     \* the configuration the daemon runs with
    phase,      \* where cmd_run is
    exit        \* how the process ended

vars == << gatewayVars, watchVars, world, config, phase, exit >>
daemonVars == << world, config, phase, exit >>

TypeOK ==
    /\ GatewayTypeOK
    /\ WatcherTypeOK
    /\ config \in Configs \cup { NoConfig }
    /\ phase \in Phases
    /\ exit \in Exits

Init ==
    \E w \in Worlds :
      /\ world = w
      /\ NewWatcher(w.disk)
      /\ NewGateway
      /\ config = NoConfig
      /\ phase = "loading"
      /\ exit = "none"

-----------------------------------------------------------------------------
\* load_config.  The file stands over the defaults field by field, the
\* environment over the file; the version is looked at last.
Over(value, floor) == IF value = Unset THEN floor ELSE value
FromFile == [ version |-> Over(world.file.version, "1.x"),
              tls |-> world.file.tls = "true",
              watch |-> world.file.watch = "true",
              limit |-> Over(world.file.limit, "none") ]

\* apply_env_overrides: any value but true and 1 turns a flag off; a limit that
\* is no number is ignored.
Flag(value, floor) == IF value = Unset THEN floor ELSE value \in { "true", "1" }
Version == Over(world.env.version, FromFile.version)
Limit == IF world.env.limit \in { Unset, "garbage" } THEN FromFile.limit ELSE world.env.limit

Loadable == world.read = "fine" /\ Version = "1.x"
Loaded == [ tls |-> Flag(world.env.tls, FromFile.tls),
            watch |-> Flag(world.env.watch, FromFile.watch),
            limited |-> Limit = "some" ]

Leaves(how) == phase' = "exited" /\ exit' = how

LoadConfig ==
    /\ phase = "loading"
    /\ IF Loadable
       THEN config' = Loaded /\ phase' = "booting" /\ UNCHANGED exit
       ELSE Leaves("config") /\ UNCHANGED config
    /\ UNCHANGED << gatewayVars, watchVars, world >>

\* Discovery, start_all and, if the directory is watched, the first scan.
Boot ==
    /\ phase = "booting"
    /\ Discover \/ StartAll \/ (config.watch /\ FirstScan)
    /\ UNCHANGED << gatewayVars, daemonVars >>

\* The gateway is built; an embedding program that holds it may tell it to stop
\* before it starts it.
UpAndRunning == IF config.watch THEN watcher \notin { "off", "boot", "started" } ELSE watcher = "started"

SignalBeforeStart ==
    /\ phase = "booting"
    /\ UpAndRunning
    /\ world.signals
    /\ Signal
    /\ UNCHANGED << watchVars, daemonVars >>

\* (Bound: a world with editing stays here, where the watcher already runs.)
StartGateway ==
    /\ phase = "booting"
    /\ UpAndRunning
    /\ ~world.edits
    /\ SpawnListeners
    /\ phase' = "serving"
    /\ UNCHANGED << signal, joined, conn, permits, entries, recent, watchVars, world, config, exit >>

Alive == phase \in { "serving", "draining" }

\* The watcher is a task of its own and lives until the process exits.
Watching ==
    /\ phase \in { "booting", "serving", "draining" }
    /\ Watch
    /\ UNCHANGED << gatewayVars, daemonVars >>

Editing ==
    /\ world.edits
    /\ phase # "exited"
    /\ \E p \in Paths : Edit(p)
    /\ UNCHANGED << gatewayVars, daemonVars >>

\* So are the listeners, also behind ctrl-c, which only drops the future that
\* waits for them.  (The sender of the shutdown channel is dropped with it: its
\* value stays, and a listener that waits for a change spins.)
Listening ==
    /\ Alive
    /\ ListenerStep(config.tls)
    /\ UNCHANGED << watchVars, daemonVars >>

Failing ==
    /\ Alive
    /\ AcceptFails(config.tls)
    /\ UNCHANGED << watchVars, daemonVars >>

Serve ==
    /\ Alive
    /\ ConnectionStep
    /\ UNCHANGED << watchVars, daemonVars >>

\* Clients, by connections the listener still has.
Clienting ==
    /\ Alive
    /\ \E c \in world.clients : ClientStep(c, config.tls, config.limited)
    /\ UNCHANGED << watchVars, daemonVars >>

Passing ==
    /\ Alive
    /\ config.limited
    /\ Minute \/ Sweeper
    /\ UNCHANGED << watchVars, daemonVars >>

\* select!: the gateway's future returns, and so does cmd_run, or ctrl-c comes
\* first.
Returns ==
    /\ phase = "serving"
    /\ Join
    /\ UNCHANGED << watchVars, daemonVars >>

ExitJoined ==
    /\ phase = "serving"
    /\ joined # "no"
    /\ Leaves("joined")
    /\ UNCHANGED << gatewayVars, watchVars, world, config >>

\* The signal's handler is installed by the select; before that ctrl-c kills.
CtrlC ==
    /\ world.interrupts
    /\ \/ phase \in { "loading", "booting" } /\ Leaves("killed")
       \/ phase = "serving" /\ phase' = "draining" /\ UNCHANGED exit
    /\ UNCHANGED << gatewayVars, watchVars, world, config >>

\* shutdown_all has drained the plugins (module Manager).
Drained ==
    /\ phase = "draining"
    /\ Leaves("drained")
    /\ UNCHANGED << gatewayVars, watchVars, world, config >>

Next ==
    \/ LoadConfig \/ Boot \/ SignalBeforeStart \/ StartGateway
    \/ Watching \/ Editing
    \/ Listening \/ Failing \/ Serve \/ Clienting \/ Passing
    \/ Returns \/ ExitJoined \/ CtrlC \/ Drained

Spec == Init /\ [][Next]_vars

\* cmd_run, the watcher and the listeners' tasks go on when they can, and the
\* bus answers every request (module Serving).
Fairness ==
    /\ WF_vars(LoadConfig \/ Boot \/ StartGateway \/ Returns \/ ExitJoined \/ Drained)
    /\ WF_vars(Watching)
    /\ WF_vars(Listening)
    /\ WF_vars(Serve)

FairSpec == Spec /\ Fairness

-----------------------------------------------------------------------------
\* A process that has started plugins ends without draining them only if ctrl-c
\* met the boot, or both listeners are at their end: never because one of them
\* is (cmd_run's select; Gateway::start joins both).
ExitUndrained ==
    phase = "exited" /\ exit # "drained" /\ (\E p \in Paths : plugin[p].st # "Absent")
      => exit = "killed" \/ \A l \in Listeners : Ended(l)

\* See PermitsConserved of Gateway, under the configuration the daemon runs with.
PermitsAddUp == config # NoConfig => PermitsConserved(config.tls)

Watched == config # NoConfig /\ config.watch

\* When editing ends, the watcher catches up with the directory (the loop of
\* cmd_run, start_plugin_if_new, restart_plugin and retry_plugin_watch).
CatchesUp ==
    <>[](phase = "exited" \/ (Watched => \A p \in Paths : CaughtUp(p)))

\* A gateway told to stop before it started serves what it has accepted, and
\* start returns (Gateway::shutdown, serve of both gateways).
SignalStops == signal ~> phase = "exited"

\* What the comment of Gateway::start says: if one gateway fails the other is
\* still shut down (src/forge/src/gateway/mod.rs).
FailureStopsBoth ==
    \A l \in Listeners : listener[l] = "failed" ~> phase = "exited" \/ \A m \in Listeners : Ended(m)
=============================================================================
