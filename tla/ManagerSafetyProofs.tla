------------------------ MODULE ManagerSafetyProofs ------------------------
(***************************************************************************)
(* Safety of the manager: what its steps may change, and from that that    *)
(* every registered capability has a connection and that no plugin is left *)
(* in Draining.                                                            *)
(***************************************************************************)
EXTENDS ManagerProofs

-----------------------------------------------------------------------------
(* What a step leaves alone.                                               *)

\* A step of a caller touches no other caller, no loop but the one it spawns,
\* and takes an instance id only where a start begins.
LEMMA StepFrame ==
    ASSUME TypeInv, NEW c \in Callers, Step(c)
    PROVE  /\ \A d \in Callers \ { c } : task'[d] = task[d]
           /\ phase' = phase /\ closing' = closing
           /\ Monitor(c) \/ loops' = loops
           /\ Enter(c) \/ next' = next
<1> USE DEF TypeInv, TasksOK, Goto, Return, FailStart, shutdown
<1>1. CASE Start(c)
  BY <1>1
     DEF Start, SkipStart, BeginStart, FinishStart, Enter, Insert, Reap, Spawn,
         SpawnFails, StoreChild, Dial, DialFails, Handshake, StashChannel,
         RegisterRpc, RegisterFails, Connect, Advertise, Announce, Monitor
<1>2. CASE TakeRequest(c)
  BY <1>2 DEF TakeRequest
<1>3. CASE Restart(c)
  BY <1>3
     DEF Restart, RestartRequested, NewManifest, ManifestChanged, SeenStuck,
         Request, RestartRefused, RestartAccepted, Drain, RetryWatch, Disconnect,
         DisconnectInDrain
<1> QED
  BY <1>1, <1>2, <1>3 DEF Step

\* The steps of the loops and of the environment leave the callers alone.
LEMMA CheckFrame ==
    ASSUME TypeInv, NEW i \in Instances, Check(i) \/ Die(i)
    PROVE  /\ task' = task /\ next' = next /\ phase' = phase /\ closing' = closing
           /\ \A j \in Instances \ { i } : loops'[j] = loops[j]
           /\ loops'[i].plugin = loops[i].plugin
           /\ loops'[i].pc # loops[i].pc => loops[i].pc # "off"
BY DEF TypeInv, LoopsOK, Check, Tick, Reply, NoReply, Healthy, Unhealthy, Crash,
       CrashDeregister, CrashSend, Die, GotoLoop, LoopAt, Loop, shutdown

\* The steps of shutdown_all leave the callers and the loops alone.
LEMMA ShutdownFrame ==
    ASSUME Shutdown
    PROVE  task' = task /\ loops' = loops /\ next' = next
BY DEF Shutdown, NameAll, MarkAll, DrainAll, KillAll, Exit

\* The moves of a caller's program counter that keep its plugin and instance.
Successors ==
    { << "guard", "enter" >>, << "insert", "reap" >>, << "insert", "dial" >>,
      << "reap", "spawn" >>, << "spawn", "store" >>, << "store", "dial" >>,
      << "dial", "handshake" >>, << "handshake", "stash" >>,
      << "stash", "register" >>, << "register", "connect" >>,
      << "connect", "advertise" >>, << "connect", "ready" >>,
      << "advertise", "advertise" >>, << "advertise", "ready" >>,
      << "ready", "reset" >>, << "reset", "finish" >>,
      << "spawn", "finish" >>, << "dial", "finish" >>, << "register", "finish" >>,
      << "restart", "guard" >>, << "restart", "drain" >>, << "drain", "guard" >>,
      << "retry", "guard" >> }

Continues(c) == /\ << task[c].pc, task'[c].pc >> \in Successors
                /\ task'[c].plugin = task[c].plugin
                /\ task'[c].inst = task[c].inst
Takes(c) == /\ task[c].pc = "idle"
            /\ task'[c].pc \in { "guard", "restart", "retry" }
Enters(c) == /\ Enter(c)
             /\ task'[c].pc = "insert"
             /\ task'[c].plugin = task[c].plugin
             /\ task'[c].inst = next
Leaves(c) == /\ c \in Operators
             /\ task'[c].pc = "gone"
             /\ task'[c].plugin = task[c].plugin
             /\ task'[c].inst = task[c].inst
HangsUp(c) == Disconnect(c) \/ DisconnectInDrain(c)
Returns(c) == task'[c] = Rest("idle") \/ task'[c] = Rest("done")

\* What the two ways to assign a caller's record make of it.
LEMMA Moved ==
    ASSUME TasksOK, NEW c \in Callers
    PROVE  /\ \A pc : Goto(c, pc) => /\ task'[c].pc = pc
                                    /\ task'[c].plugin = task[c].plugin
                                    /\ task'[c].inst = task[c].inst
           /\ Return(c) => Returns(c)
<1>1. task[c] \in Task
  BY DEF TasksOK
<1>2. ASSUME NEW pc, Goto(c, pc)
      PROVE  task'[c] = [task[c] EXCEPT !.pc = pc]
  BY <1>2 DEF Goto, TasksOK
<1>3. ASSUME NEW pc, Goto(c, pc)
      PROVE  /\ task'[c].pc = pc
             /\ task'[c].plugin = task[c].plugin
             /\ task'[c].inst = task[c].inst
  BY <1>1, <1>2, <1>3 DEF Task
<1>4. Return(c) => Returns(c)
  BY DEF Return, Returns, TasksOK
<1> QED
  BY <1>3, <1>4

\* A client that hangs up leaves its caller's record as it was.
LEMMA HangUp ==
    ASSUME TypeInv, NEW c \in Callers, HangsUp(c)
    PROVE  Leaves(c)
BY Moved DEF HangsUp, Disconnect, DisconnectInDrain, Leaves, TypeInv

\* What a step does to the caller that takes it.
LEMMA CallerMoves ==
    ASSUME TypeInv, NEW c \in Callers, Step(c)
    PROVE  Continues(c) \/ Takes(c) \/ Enters(c) \/ Returns(c) \/ Leaves(c)
<1>1. TasksOK /\ task[c] \in Task
  BY DEF TypeInv, TasksOK
<1>2. CASE Enter(c)
  <2>1. task'[c] = [task[c] EXCEPT !.pc = "insert", !.inst = next]
    BY <1>1, <1>2 DEF Enter, TasksOK
  <2> QED
    BY <1>1, <1>2, <2>1 DEF Enters, Task
<1>3. CASE RegisterRpc(c)
  <2>1. task'[c] = [task[c] EXCEPT !.pc = "connect", !.todo = CapsOf[task[c].plugin]]
    BY <1>1, <1>3 DEF RegisterRpc, TasksOK
  <2> QED
    BY <1>1, <1>3, <2>1 DEF RegisterRpc, At, Continues, Successors, Task
<1>4. CASE Advertise(c)
  <2>1. PICK cap : task' = [task EXCEPT
                      ![c].todo = @ \ { cap },
                      ![c].pc = IF task[c].todo = { cap } THEN "ready" ELSE @]
    BY <1>4 DEF Advertise
  <2>2. task'[c] = [task[c] EXCEPT !.todo = @ \ { cap },
                      !.pc = IF task[c].todo = { cap } THEN "ready" ELSE @]
    BY <1>1, <2>1 DEF TasksOK
  <2> QED
    BY <1>1, <1>4, <2>2 DEF Advertise, At, Continues, Successors, Task
<1>5. CASE \/ BeginStart(c) \/ Insert(c) \/ Reap(c) \/ Spawn(c) \/ StoreChild(c)
           \/ Dial(c) \/ Handshake(c) \/ StashChannel(c) \/ Connect(c) \/ Announce(c)
           \/ RestartAccepted(c)
  BY <1>1, <1>5, Moved
     DEF BeginStart, Insert, Reap, Spawn, StoreChild, Dial, Handshake, StashChannel,
         Connect, Announce, RestartAccepted, At, Continues, Successors
<1>6. CASE SpawnFails(c) \/ DialFails(c) \/ RegisterFails(c) \/ Monitor(c)
  BY <1>1, <1>6, Moved
     DEF SpawnFails, DialFails, RegisterFails, Monitor, FailStart, At, Continues,
         Successors
<1>7. CASE SkipStart(c) \/ FinishStart(c)
  BY <1>1, <1>7, Moved DEF SkipStart, FinishStart
<1>8. CASE RestartRefused(c) \/ Drain(c) \/ RetryWatch(c)
  BY <1>1, <1>8, Moved
     DEF RestartRefused, Drain, RetryWatch, At, Continues, Successors
<1>9. CASE TakeRequest(c)
  <2>1. task'[c] = [Rest("guard") EXCEPT !.job = "start", !.plugin = Head(queue)]
    BY <1>1, <1>9 DEF TakeRequest, TasksOK
  <2> QED
    BY <1>9, <2>1 DEF TakeRequest, At, Takes, Rest
<1>10. ASSUME NEW p, NEW job, NEW pc \in { "guard", "restart", "retry" },
              Request(c, p, job, pc)
       PROVE  Takes(c)
  <2>1. task'[c] = [Rest(pc) EXCEPT !.job = job, !.plugin = p]
    BY <1>1, <1>10 DEF Request, TasksOK
  <2> QED
    BY <1>10, <2>1 DEF Request, At, Takes, Rest
<1>11. ASSUME NEW p \in Plugins, \/ RestartRequested(c, p) \/ NewManifest(c, p)
                                \/ ManifestChanged(c, p) \/ SeenStuck(c, p)
       PROVE  Takes(c)
  BY <1>10, <1>11 DEF RestartRequested, NewManifest, ManifestChanged, SeenStuck
<1> QED
  BY <1>2, <1>3, <1>4, <1>5, <1>6, <1>7, <1>8, <1>9, <1>11, HangUp
     DEF Step, Start, Restart, HangsUp

\* At these labels there is one thing a caller can do, and nothing after the end.
LEMMA PcActs ==
    ASSUME NEW c \in Callers, Step(c), ~HangsUp(c)
    PROVE  /\ task[c].pc \notin { "done", "gone" }
           /\ task[c].pc = "connect" => Connect(c)
           /\ task[c].pc = "reset" => Monitor(c)
           /\ task[c].pc = "drain" => Drain(c)
           /\ task[c].pc = "finish" => FinishStart(c)
           /\ task[c].pc = "ready" => Announce(c)
BY DEF Step, Start, SkipStart, BeginStart, FinishStart, Enter, Insert, Reap, Spawn,
       SpawnFails, StoreChild, Dial, DialFails, Handshake, StashChannel, RegisterRpc,
       RegisterFails, Advertise, TakeRequest, Restart, RestartRequested, NewManifest,
       ManifestChanged, SeenStuck, Request, RestartRefused, RestartAccepted,
       RetryWatch, Connect, Announce, Monitor, Drain, At, HangsUp

-----------------------------------------------------------------------------
(* Every registered capability has a connection.                           *)

\* Why it is inductive: a start connects before it advertises, and the key that
\* RemoveConnection removes is never the key of a connection.
Connected ==
    /\ RegisteredIsConnected
    /\ \A c \in Callers : task[c].pc = "advertise" =>
          << task[c].plugin, task[c].inst >> \in conns

\* No step takes a connection out of the table.
LEMMA ConnectionsGrow ==
    ASSUME TypeInv, [Next]_vars
    PROVE  conns \subseteq conns'
<1>1. \A ps : RemoveConnection(ps) => conns' = conns
  BY DEF RemoveConnection, TypeInv, BusOK, NoInst, Instances
<1>2. ASSUME NEW c \in Callers, Step(c) PROVE conns \subseteq conns'
  BY <1>1, <1>2
     DEF Step, Start, SkipStart, BeginStart, FinishStart, Enter, Insert, Reap,
         Spawn, SpawnFails, StoreChild, Dial, DialFails, Handshake, StashChannel,
         RegisterRpc, RegisterFails, Connect, Advertise, Announce, Monitor,
         TakeRequest, Restart, RestartRequested, NewManifest, ManifestChanged,
         SeenStuck, Request, RestartRefused, RestartAccepted, Drain, RetryWatch,
         Disconnect, DisconnectInDrain
<1>3. ASSUME NEW i \in Instances, Check(i) \/ Die(i) PROVE conns \subseteq conns'
  BY <1>1, <1>3
     DEF Check, Tick, Reply, NoReply, Healthy, Unhealthy, Crash, CrashDeregister,
         CrashSend, Die
<1>4. ASSUME Shutdown PROVE conns \subseteq conns'
  BY <1>1, <1>4 DEF Shutdown, NameAll, MarkAll, DrainAll, KillAll, Exit
<1> QED
  BY <1>2, <1>3, <1>4 DEF Next, vars

\* Only Advertise adds to the registry.
LEMMA RegistryGrows ==
    ASSUME TypeInv, [Next]_vars
    PROVE  \/ registry' \subseteq registry
           \/ \E c \in Callers : Advertise(c)
<1>1. \A ps : Deregister(ps) => registry' \subseteq registry
  BY DEF Deregister
<1>2. ASSUME NEW c \in Callers, Step(c)
      PROVE  registry' \subseteq registry \/ Advertise(c)
  BY <1>1, <1>2
     DEF Step, Start, SkipStart, BeginStart, FinishStart, Enter, Insert, Reap,
         Spawn, SpawnFails, StoreChild, Dial, DialFails, Handshake, StashChannel,
         RegisterRpc, RegisterFails, Connect, Announce, Monitor,
         TakeRequest, Restart, RestartRequested, NewManifest, ManifestChanged,
         SeenStuck, Request, RestartRefused, RestartAccepted, Drain, RetryWatch,
         Disconnect, DisconnectInDrain
<1>3. ASSUME NEW i \in Instances, Check(i) \/ Die(i)
      PROVE  registry' \subseteq registry
  BY <1>1, <1>3
     DEF Check, Tick, Reply, NoReply, Healthy, Unhealthy, Crash, CrashDeregister,
         CrashSend, Die
<1>4. ASSUME Shutdown PROVE registry' \subseteq registry
  BY <1>1, <1>4 DEF Shutdown, NameAll, MarkAll, DrainAll, KillAll, Exit
<1> QED
  BY <1>2, <1>3, <1>4 DEF Next, vars

\* A caller that is to advertise after a step was to before, or has connected.
LEMMA ToAdvertise ==
    ASSUME TypeInv, NEW c \in Callers, Step(c), task'[c].pc = "advertise"
    PROVE  /\ task'[c].plugin = task[c].plugin /\ task'[c].inst = task[c].inst
           /\ Connect(c) \/ task[c].pc = "advertise"
<1>1. /\ Continues(c)
      /\ task[c].pc \in { "connect", "advertise" }
  BY CallerMoves DEF Continues, Takes, Enters, Returns, Leaves, Rest, Successors
<1>2. task[c].pc = "connect" => Connect(c)
  BY <1>1, PcActs, HangUp DEF Leaves
<1> QED
  BY <1>1, <1>2 DEF Continues

\* A start connects before it advertises, and connections stay.
LEMMA ConnectedStep == TypeInv /\ Connected /\ [Next]_vars => Connected'
<1> SUFFICES ASSUME TypeInv, Connected, [Next]_vars PROVE Connected'
  OBVIOUS
<1>1. conns \subseteq conns'
  BY ConnectionsGrow
<1>2. RegisteredIsConnected'
  <2>1. CASE registry' \subseteq registry
    BY <1>1, <2>1 DEF Connected, RegisteredIsConnected
  <2>2. ASSUME NEW c \in Callers, Advertise(c) PROVE RegisteredIsConnected'
    <3>1. PICK cap : registry' = registry \cup { [ cap |-> cap,
                        plugin |-> task[c].plugin, inst |-> task[c].inst ] }
      BY <2>2 DEF Advertise
    <3>2. << task[c].plugin, task[c].inst >> \in conns
      BY <2>2 DEF Advertise, At, Connected
    <3>3. ASSUME NEW h \in registry' \ registry
          PROVE  h.plugin = task[c].plugin /\ h.inst = task[c].inst
      BY <3>1
    <3> QED
      BY <1>1, <3>2, <3>3 DEF Connected, RegisteredIsConnected
  <2> QED
    BY <2>1, <2>2, RegistryGrows
<1>3. ASSUME NEW d \in Callers, task'[d].pc = "advertise"
      PROVE  << task'[d].plugin, task'[d].inst >> \in conns'
  <2>1. CASE task'[d] = task[d]
    BY <1>1, <1>3, <2>1 DEF Connected
  <2>2. ASSUME NEW c \in Callers, Step(c), c # d PROVE task'[d] = task[d]
    BY <2>2, StepFrame
  <2>3. CASE Step(d)
    BY <1>1, <1>3, <2>3, ToAdvertise DEF Connected, Connect
  <2>4. ASSUME NEW i \in Instances, Check(i) \/ Die(i) PROVE task' = task
    BY <2>4, CheckFrame
  <2> QED
    BY <2>1, <2>2, <2>3, <2>4, ShutdownFrame DEF Next, vars
<1> QED
  BY <1>2, <1>3 DEF Connected

\* The bus has a connection for every handle the registry can return.
THEOREM RegisteredConnected == Spec => []RegisteredIsConnected
<1>1. Init => Connected
  <2>1. ASSUME Init, NEW c \in Callers PROVE task[c].pc # "advertise"
    <3>1. CASE c \in BootPlugins
      <4>1. task[c] = [ Rest("enter") EXCEPT !.job = "start", !.plugin = c ]
        BY <2>1, <3>1 DEF Init
      <4> QED
        BY <4>1 DEF Rest
    <3>2. CASE c \notin BootPlugins
      BY <2>1, <3>2 DEF Init, Rest
    <3> QED
      BY <3>1, <3>2
  <2> QED
    BY <2>1 DEF Init, Connected, RegisteredIsConnected
<1>2. Connected => RegisteredIsConnected
  BY DEF Connected
<1> QED
  BY <1>1, <1>2, ConnectedStep, TypeInvariance, PTL DEF Spec

-----------------------------------------------------------------------------
(* Nobody leaves a plugin in Draining.                                     *)

\* An entry gets to a state by a move to that state only.
LEMMA MoveInto ==
    ASSUME NEW s, NEW t, NEW u, t # u, Transition(s, t) = u
    PROVE  s = u
BY DEF Transition

\* A drained entry is in no state that needs to be drained.
LEMMA DrainedIsOut ==
    ASSUME NEW e \in Entry
    PROVE  /\ Drained(e).state # "Draining"
           /\ MoveTo(Drained(e), "Discovered").state # "Draining"
           /\ e.state # Absent => /\ Drained(e).state # Absent
                                 /\ MoveTo(Drained(e), "Discovered").state # Absent
<1>1. /\ MoveTo(e, "Stopped").state = Transition(e.state, "Stopped")
      /\ MoveTo(e, "Stopped") \in Entry
  BY MoveType DEF MoveTo, Entry, PluginStates
<1>2. /\ Drained(e).state = Transition(e.state, "Stopped")
      /\ Drained(e) \in Entry
  BY <1>1, DrainedType DEF Drained, Entry
<1>3. MoveTo(Drained(e), "Discovered").state
        = Transition(Drained(e).state, "Discovered")
  BY <1>2 DEF MoveTo, Entry
<1>4. Transition(e.state, "Stopped") # "Draining"
  <2>1. << "Draining", "Stopped" >> \in LegalMoves
    BY DEF LegalMoves, PluginStates
  <2> QED
    BY <2>1 DEF Transition
<1> QED
  BY <1>2, <1>3, <1>4, MoveInto DEF Absent

\* A step of a caller removes no entry, and it brings at most its own plugin to
\* Draining, and then only to drain it.
LEMMA CallerLands ==
    ASSUME TypeInv, NEW c \in Callers, Step(c), NEW p \in Plugins,
           State(p)' \in { "Draining", Absent }
    PROVE  \/ /\ State(p) = State(p)'
              /\ State(p) = "Draining" /\ Drain(c) => p # task[c].plugin
           \/ RestartAccepted(c) /\ p = task[c].plugin /\ State(p)' = "Draining"
<1>1. MapOK /\ plugins[p] \in Entry
  BY DEF TypeInv, MapOK
<1>2. ASSUME NEW s \in PluginStates \ { "Draining" }, NEW q, Move(q, s)
      PROVE  State(p) = State(p)'
  <2>1. plugins'[p] = IF p = q THEN MoveTo(plugins[p], s) ELSE plugins[p]
    BY <1>1, <1>2 DEF Move, MapOK
  <2>2. MoveTo(plugins[p], s).state = Transition(plugins[p].state, s)
    BY <1>1 DEF MoveTo, Entry
  <2> QED
    BY <1>2, <2>1, <2>2, MoveInto DEF State, Absent, PluginStates
<1>3. CASE Enter(c) \/ Handshake(c) \/ Announce(c)
  BY <1>2, <1>3 DEF Enter, Handshake, Announce, PluginStates, Drain, At
<1>4. CASE Insert(c)
  <2>1. plugins'[p] = IF p = task[c].plugin THEN Refreshed(plugins[p])
                      ELSE plugins[p]
    BY <1>1, <1>4 DEF Insert, MapOK
  <2>2. Refreshed(plugins[p]).state = IF plugins[p].state = Absent THEN "Connecting"
                             ELSE Transition(plugins[p].state, "Connecting")
    BY <1>1 DEF Refreshed, Entry
  <2> QED
    BY <1>4, <2>1, <2>2, MoveInto DEF State, Absent, PluginStates, Insert, Drain, At
<1>5. CASE Drain(c)
  <2>1. plugins'[p] = IF p = task[c].plugin
              THEN [MoveTo(Drained(plugins[p]), "Discovered") EXCEPT !.attempts = 0]
              ELSE plugins[p]
    BY <1>1, <1>5 DEF Drain, MapOK
  <2>2. MoveTo(Drained(plugins[p]), "Discovered") \in Entry
    BY <1>1, DrainedType, MoveType DEF PluginStates
  <2>3. p = task[c].plugin =>
           plugins'[p].state = MoveTo(Drained(plugins[p]), "Discovered").state
    BY <1>1, <2>1, <2>2 DEF Entry
  <2> QED
    BY <1>1, <2>1, <2>3, DrainedIsOut DEF State
<1>6. CASE RestartAccepted(c)
  <2>1. plugins'[p] = IF p = task[c].plugin THEN MoveTo(plugins[p], "Draining")
                      ELSE plugins[p]
    BY <1>1, <1>6 DEF RestartAccepted, Move, MapOK
  <2>2. MoveTo(plugins[p], "Draining").state = Transition(plugins[p].state, "Draining")
    BY <1>1 DEF MoveTo, Entry
  <2> QED
    BY <1>6, <2>1, <2>2, MoveInto DEF State, Absent, RestartAccepted, Drain, At
<1>7. CASE RetryWatch(c)
  <2>1. PICK w : plugins'[p] \in { plugins[p], [plugins[p] EXCEPT !.watch = w],
                      [MoveTo(plugins[p], "Stopped") EXCEPT !.watch = w] }
    BY <1>1, <1>7 DEF RetryWatch, MapOK
  <2>2. /\ MoveTo(plugins[p], "Stopped").state
             = Transition(plugins[p].state, "Stopped")
        /\ MoveTo(plugins[p], "Stopped") \in Entry
    BY <1>1, MoveType DEF MoveTo, Entry, PluginStates
  <2>3. plugins'[p].state
           \in { plugins[p].state, Transition(plugins[p].state, "Stopped") }
    BY <1>1, <2>1, <2>2 DEF Entry
  <2> QED
    BY <1>7, <2>3, MoveInto DEF State, Absent, PluginStates, RetryWatch, Drain, At
<1>8. CASE \/ BeginStart(c) \/ FinishStart(c) \/ Reap(c) \/ StoreChild(c)
           \/ StashChannel(c) \/ Monitor(c)
  <2>1. plugins[p] \in Entry /\ plugins \in [Plugins -> Entry]
    BY <1>1 DEF MapOK
  <2>2. BeginStart(c) \/ FinishStart(c) => plugins'[p].state = plugins[p].state
    BY <2>1 DEF BeginStart, FinishStart, Entry
  <2>3. Reap(c) => plugins'[p].state = plugins[p].state
    BY <2>1 DEF Reap, Entry
  <2>4. StoreChild(c) \/ Monitor(c) => plugins'[p].state = plugins[p].state
    BY <2>1 DEF StoreChild, Monitor, Entry
  <2>5. StashChannel(c) => plugins'[p].state = plugins[p].state
    BY <2>1 DEF StashChannel, Entry
  <2> QED
    BY <1>8, <2>2, <2>3, <2>4, <2>5 DEF State, Drain, BeginStart, FinishStart, Reap, StoreChild,
                      StashChannel, Monitor, At
<1>9. CASE plugins' = plugins
  BY <1>5, <1>9 DEF State
<1>10. CASE DisconnectInDrain(c)
  <2>1. plugins'[p] \in { plugins[p], [plugins[p] EXCEPT !.child = NoInst],
                          Drained(plugins[p]) }
    BY <1>1, <1>10 DEF DisconnectInDrain, MapOK
  <2>2. [plugins[p] EXCEPT !.child = NoInst].state = plugins[p].state
    BY <1>1 DEF Entry
  <2> QED
    BY <1>1, <1>5, <2>1, <2>2, DrainedIsOut DEF State
<1> QED
  BY <1>3, <1>4, <1>5, <1>6, <1>7, <1>8, <1>9, <1>10
     DEF Step, Start, SkipStart, Spawn, SpawnFails, Dial, DialFails, RegisterRpc,
         RegisterFails, Connect, Advertise, TakeRequest, Restart, RestartRequested,
         NewManifest, ManifestChanged, SeenStuck, Request, RestartRefused, Disconnect

\* The loops stop plugins, degrade them and recover them, no more.
LEMMA CheckLands ==
    ASSUME TypeInv, NEW i \in Instances, Check(i) \/ Die(i), NEW p \in Plugins,
           State(p)' \in { "Draining", Absent }
    PROVE  State(p) = State(p)'
<1>1. plugins[p] \in Entry /\ plugins \in [Plugins -> Entry]
  BY DEF TypeInv, MapOK
<1> DEFINE e == plugins[p]
<1>2. CASE Healthy(i)
  <2>1. plugins'[p] = IF p = loops[i].plugin THEN AfterHealthy(e) ELSE e
    BY <1>1, <1>2 DEF Healthy
  <2>2. AfterHealthy(e).state
           = IF e.state = "Degraded" THEN Transition(e.state, "Ready") ELSE e.state
    BY <1>1 DEF AfterHealthy, Entry
  <2> QED
    BY <2>1, <2>2, MoveInto DEF State, Absent, PluginStates
<1>3. CASE Unhealthy(i)
  <2>1. plugins'[p] = IF p = loops[i].plugin THEN AfterUnhealthy(e) ELSE e
    BY <1>1, <1>3 DEF Unhealthy
  <2>2. AfterUnhealthy(e).state \in { e.state, Transition(e.state, "Degraded") }
    BY <1>1 DEF AfterUnhealthy, Entry
  <2> QED
    BY <2>1, <2>2, MoveInto DEF State, Absent, PluginStates
<1>4. CASE Crash(i)
  <2>1. PICK n, b : plugins'[p] = IF p = loops[i].plugin
           THEN [e EXCEPT !.state = StateAfterCrash(@), !.attempts = n, !.scheduled = b]
           ELSE e
    BY <1>1, <1>4 DEF Crash
  <2>2. plugins'[p].state \in { e.state, StateAfterCrash(e.state) }
    BY <1>1, <2>1 DEF Entry
  <2> QED
    BY <2>2, MoveInto DEF State, Absent, PluginStates, StateAfterCrash
<1>5. CASE plugins' = plugins
  BY <1>5 DEF State
<1> QED
  BY <1>2, <1>3, <1>4, <1>5
     DEF Check, Tick, Reply, NoReply, CrashDeregister, CrashSend, Die

\* The invariant is inductive as it stands: RestartAccepted and MarkAll alone move
\* a plugin to Draining, and the step that ends their ownership stops it.
LEMMA DrainingStep == TypeInv /\ DrainingIsOwned /\ [Next]_vars => DrainingIsOwned'
<1> DEFINE Owned(p) == \/ \E d \in Callers : task[d].plugin = p /\ task[d].pc = "drain"
                       \/ phase = "marked" /\ p \in closing
                       \/ Abandoned(p)
<1> SUFFICES ASSUME TypeInv, DrainingIsOwned, [Next]_vars,
                    NEW p \in Plugins, State(p)' = "Draining"
             PROVE  Owned(p)'
  BY DEF DrainingIsOwned
<1> USE DEF Abandoned
<1>1. CASE UNCHANGED vars
  BY <1>1 DEF vars, DrainingIsOwned, State
<1>2. ASSUME NEW c \in Callers, Step(c), RestartAccepted(c), p = task[c].plugin
      PROVE  task'[c].plugin = p /\ task'[c].pc = "drain"
  BY <1>2, Moved DEF RestartAccepted, TypeInv
<1>3. ASSUME NEW c \in Callers, Step(c), State(p) = "Draining",
             Drain(c) => p # task[c].plugin
      PROVE  Owned(p)'
  <2>1. ASSUME NEW d \in Callers, task[d].plugin = p, task[d].pc \in { "drain", "gone" }
        PROVE  \/ task'[d].plugin = p /\ task'[d].pc = task[d].pc
               \/ Leaves(d) /\ task[d].plugin = p
    <3>1. CASE d = c
      BY <1>3, <2>1, <3>1, PcActs, HangUp
    <3>2. CASE d # c
      BY <1>3, <2>1, <3>2, StepFrame
    <3> QED
      BY <3>1, <3>2
  <2>2. phase' = phase /\ closing' = closing
    BY <1>3, StepFrame
  <2>3. \A o \in Operators : o \in Callers
    BY DEF Callers
  <2> QED
    BY <1>3, <2>1, <2>2, <2>3 DEF DrainingIsOwned, Leaves
<1>4. ASSUME NEW i \in Instances, Check(i) \/ Die(i)
      PROVE  State(p) = "Draining" /\ task' = task /\ phase' = phase
             /\ closing' = closing
  BY <1>4, CheckFrame, CheckLands
<1>5. plugins[p] \in Entry /\ plugins \in [Plugins -> Entry]
  BY DEF TypeInv, MapOK
<1>6. CASE MarkAll
  <2>1. CASE p \in closing /\ IsServing(p)
    BY <1>6, <2>1 DEF MarkAll
  <2>2. CASE ~(p \in closing /\ IsServing(p))
    BY <1>6, <2>2 DEF MarkAll, State, DrainingIsOwned
  <2> QED
    BY <2>1, <2>2
<1>7. CASE DrainAll
  <2>1. p \notin closing /\ State(p) = "Draining"
    BY <1>5, <1>7, DrainedIsOut DEF DrainAll, State
  <2> QED
    BY <1>7, <2>1 DEF DrainAll, DrainingIsOwned
<1>8. CASE KillAll
  <2>1. plugins'[p] = IF p \in closing THEN [plugins[p] EXCEPT !.child = NoInst]
                      ELSE plugins[p]
    BY <1>8 DEF KillAll
  <2>2. State(p) = "Draining"
    BY <1>5, <2>1 DEF State, Entry
  <2> QED
    BY <1>8, <2>2 DEF KillAll, DrainingIsOwned
<1>9. CASE NameAll \/ Exit
  BY <1>9 DEF NameAll, Exit, DrainingIsOwned, State
<1> QED
  BY <1>1, <1>2, <1>3, <1>4, <1>6, <1>7, <1>8, <1>9, CallerLands
     DEF Next, Shutdown, DrainingIsOwned

\* No interleaving of restarts, crashes and the shutdown strands a plugin in
\* Draining, from where no start brings it back.
THEOREM DrainingOwned == Spec => []DrainingIsOwned
<1>1. Init => DrainingIsOwned
  <2>1. ASSUME Init, NEW p \in Plugins PROVE plugins[p].state = Absent
    BY <2>1 DEF Init
  <2> QED
    BY <2>1 DEF DrainingIsOwned, State, Absent
<1> QED
  BY <1>1, DrainingStep, TypeInvariance, PTL DEF Spec
=============================================================================
