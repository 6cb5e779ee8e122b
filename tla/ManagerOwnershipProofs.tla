------------------------ MODULE ManagerOwnershipProofs ------------------------
(***************************************************************************)
(* Who looks after what the manager has started: every process is where    *)
(* somebody finds and kills it, no plugin has two, every plugin that       *)
(* serves is watched by a health-check loop, and shutdown_all leaves       *)
(* nothing behind but what a start has in hand.  Last, that the rest of    *)
(* the kernel sees plugins come and go in the order of module Supervisor.  *)
(***************************************************************************)
EXTENDS ManagerStartProofs

-----------------------------------------------------------------------------
(* What a step does to the fields of an entry.                             *)

\* A caller works on the entry of its own plugin.
LEMMA OwnEntry ==
    ASSUME TypeInv, NEW c \in Callers, Step(c), NEW p \in Plugins, p # task[c].plugin
    PROVE  plugins'[p] = plugins[p]
<1>1. plugins \in [Plugins -> Entry]
  BY DEF TypeInv, MapOK
<1> QED
  BY <1>1
     DEF Step, Start, SkipStart, BeginStart, FinishStart, Enter, Insert, Reap, Spawn,
         SpawnFails, StoreChild, Dial, DialFails, Handshake, StashChannel,
         RegisterRpc, RegisterFails, Connect, Advertise, Announce, Monitor,
         TakeRequest, Restart, RestartRequested, NewManifest, ManifestChanged,
         SeenStuck, Request, RestartRefused, RestartAccepted, Drain, RetryWatch,
         Disconnect, DisconnectInDrain, Move

\* The moves a caller can make with the state of its plugin.
LEMMA CallerSteers ==
    ASSUME TypeInv, NEW c \in Callers, Step(c), NEW p \in Plugins, State(p)' # State(p)
    PROVE  /\ p = task[c].plugin
           /\ \/ Enter(c) /\ State(p)' = "Discovered"
              \/ Insert(c) /\ State(p)' = "Connecting"
              \/ Handshake(c) /\ State(p)' = "Handshaking"
              \/ /\ Announce(c) /\ State(p)' = "Ready"
                 /\ State(p) \in { "Handshaking", "Degraded" }
              \/ RestartAccepted(c) /\ State(p)' = "Draining"
              \/ Drain(c) /\ State(p)' \in { "Stopped", "Discovered" }
              \/ RetryWatch(c) /\ State(p)' = "Stopped"
              \/ DisconnectInDrain(c) /\ State(p)' = "Stopped"
<1> DEFINE e == plugins[p]
<1>1. plugins \in [Plugins -> Entry] /\ e \in Entry
  BY DEF TypeInv, MapOK
<1>2. p = task[c].plugin
  BY OwnEntry DEF State
<1>3. ASSUME NEW s
      PROVE  /\ MoveTo(e, s).state = Transition(e.state, s)
             /\ MoveTo(e, s).state \in { e.state, s }
  BY <1>1 DEF MoveTo, Entry, Transition
<1>4. ASSUME NEW s, Move(p, s) PROVE State(p)' = s /\ State(p)' = Transition(e.state, s)
  BY <1>1, <1>3, <1>4 DEF Move, State
<1>5. /\ Drained(e) \in Entry /\ Drained(e).state \in { e.state, "Stopped" }
  <2>1. MoveTo(e, "Stopped") \in Entry
    BY <1>1, MoveType DEF PluginStates
  <2> QED
    BY <1>1, <1>3, <2>1, DrainedType DEF Drained, Entry
<1>6. CASE Announce(c)
  <2>1. State(p)' = "Ready" /\ Transition(e.state, "Ready") = "Ready" /\ e.state # "Ready"
    BY <1>2, <1>4, <1>6 DEF Announce, State
  <2>2. e.state \in { "Handshaking", "Degraded" }
    BY <2>1 DEF Transition, LegalMoves, PluginStates, Serving
  <2> QED
    BY <1>2, <1>6, <2>1, <2>2 DEF State
<1>7. CASE Enter(c) \/ Handshake(c) \/ RestartAccepted(c)
  BY <1>2, <1>4, <1>7 DEF Enter, Handshake, RestartAccepted
<1>8. CASE Insert(c)
  <2>1. Refreshed(e).state \in { e.state, "Connecting" }
    BY <1>1 DEF Refreshed, Entry, Transition
  <2> QED
    BY <1>1, <1>2, <1>8, <2>1 DEF Insert, State
<1>9. CASE Drain(c)
  <2>1. MoveTo(Drained(e), "Discovered") \in Entry
    BY <1>5, MoveType DEF PluginStates
  <2>2. MoveTo(Drained(e), "Discovered").state \in { e.state, "Stopped", "Discovered" }
    BY <1>5 DEF MoveTo, Entry, Transition
  <2>3. plugins'[p].state = MoveTo(Drained(e), "Discovered").state
    BY <1>1, <1>2, <1>9, <2>1 DEF Drain, Entry
  <2> QED
    BY <1>2, <1>9, <2>2, <2>3 DEF State
<1>10. CASE RetryWatch(c)
  <2>1. PICK w : plugins'[p] \in { e, [e EXCEPT !.watch = w],
                                   [MoveTo(e, "Stopped") EXCEPT !.watch = w] }
    BY <1>1, <1>2, <1>10 DEF RetryWatch
  <2>2. MoveTo(e, "Stopped") \in Entry
    BY <1>1, MoveType DEF PluginStates
  <2>3. plugins'[p].state \in { e.state, "Stopped" }
    BY <1>1, <1>3, <2>1, <2>2 DEF Entry
  <2> QED
    BY <1>2, <1>10, <2>3 DEF State
<1>11. CASE DisconnectInDrain(c)
  <2>1. [e EXCEPT !.child = NoInst].state = e.state
    BY <1>1 DEF Entry
  <2> QED
    BY <1>1, <1>2, <1>5, <1>11, <2>1 DEF DisconnectInDrain, State
<1>12. CASE \/ BeginStart(c) \/ FinishStart(c) \/ Reap(c) \/ StoreChild(c)
            \/ StashChannel(c) \/ Monitor(c)
  <2>1. BeginStart(c) \/ FinishStart(c) => plugins'[p].state = e.state
    BY <1>1 DEF BeginStart, FinishStart, Entry
  <2>2. Reap(c) => plugins'[p].state = e.state
    BY <1>1 DEF Reap, Entry
  <2>3. StoreChild(c) \/ Monitor(c) => plugins'[p].state = e.state
    BY <1>1 DEF StoreChild, Monitor, Entry
  <2>4. StashChannel(c) => plugins'[p].state = e.state
    BY <1>1 DEF StashChannel, Entry
  <2> QED
    BY <1>12, <2>1, <2>2, <2>3, <2>4 DEF State
<1>13. plugins' # plugins
  BY DEF State
<1> QED
  BY <1>6, <1>7, <1>8, <1>9, <1>10, <1>11, <1>12, <1>13
     DEF Step, Start, SkipStart, Spawn, SpawnFails, Dial, DialFails, RegisterRpc,
         RegisterFails, Connect, Advertise, TakeRequest, Restart, RestartRequested,
         NewManifest, ManifestChanged, SeenStuck, Request, RestartRefused, Disconnect

\* The moves a health-check loop can make with the state of its plugin.
LEMMA CheckSteers ==
    ASSUME TypeInv, NEW i \in Instances, Check(i) \/ Die(i), NEW p \in Plugins,
           plugins'[p] # plugins[p]
    PROVE  /\ p = loops[i].plugin
           /\ plugins'[p].channel = plugins[p].channel
           /\ plugins'[p].child = plugins[p].child
           /\ plugins'[p].starting = plugins[p].starting
           /\ \/ /\ Healthy(i) /\ plugins'[p].scheduled = plugins[p].scheduled
                 /\ State(p)' = IF State(p) = "Degraded" THEN "Ready" ELSE State(p)
              \/ /\ Unhealthy(i) /\ plugins'[p].scheduled = plugins[p].scheduled
                 /\ \/ State(p)' = State(p)
                    \/ State(p) = "Ready" /\ State(p)' = "Degraded"
              \/ /\ Crash(i)
                 /\ State(p)' = IF IsServing(p) THEN "Stopped" ELSE State(p)
<1> DEFINE e == plugins[p]
<1>1. plugins \in [Plugins -> Entry] /\ e \in Entry
  BY DEF TypeInv, MapOK
<1>2. CASE Healthy(i)
  <2>1. p = loops[i].plugin /\ plugins'[p] = AfterHealthy(e)
    BY <1>1, <1>2 DEF Healthy
  <2>2. /\ AfterHealthy(e).state = IF e.state = "Degraded" THEN Transition(e.state, "Ready")
                                   ELSE e.state
        /\ AfterHealthy(e).channel = e.channel
        /\ AfterHealthy(e).child = e.child
        /\ AfterHealthy(e).scheduled = e.scheduled
        /\ AfterHealthy(e).starting = e.starting
    BY <1>1 DEF AfterHealthy, Entry
  <2>3. Transition("Degraded", "Ready") = "Ready"
    BY DEF Transition, LegalMoves
  <2> QED
    BY <1>2, <2>1, <2>2, <2>3 DEF State
<1>3. CASE Unhealthy(i)
  <2>1. p = loops[i].plugin /\ plugins'[p] = AfterUnhealthy(e)
    BY <1>1, <1>3 DEF Unhealthy
  <2>2. /\ \/ AfterUnhealthy(e).state = e.state
           \/ e.state = "Ready" /\ AfterUnhealthy(e).state = Transition("Ready", "Degraded")
        /\ AfterUnhealthy(e).channel = e.channel
        /\ AfterUnhealthy(e).child = e.child
        /\ AfterUnhealthy(e).scheduled = e.scheduled
        /\ AfterUnhealthy(e).starting = e.starting
    BY <1>1 DEF AfterUnhealthy, Entry
  <2>3. Transition("Ready", "Degraded") = "Degraded"
    BY DEF Transition, LegalMoves
  <2> QED
    BY <1>3, <2>1, <2>2, <2>3 DEF State
<1>4. CASE Crash(i)
  <2>1. p = loops[i].plugin
    BY <1>1, <1>4 DEF Crash
  <2>2. PICK n, b : plugins'[p] = [e EXCEPT !.state = StateAfterCrash(@), !.attempts = n,
                                            !.scheduled = b]
    BY <1>1, <1>4, <2>1 DEF Crash
  <2>3. /\ plugins'[p].state = StateAfterCrash(e.state)
        /\ plugins'[p].channel = e.channel
        /\ plugins'[p].child = e.child
        /\ plugins'[p].starting = e.starting
    BY <1>1, <2>2 DEF Entry
  <2>4. \A s \in Serving : Transition(s, "Stopped") = "Stopped"
    BY DEF Transition, LegalMoves, PluginStates, Serving
  <2> QED
    BY <1>4, <2>1, <2>3, <2>4 DEF State, IsServing, StateAfterCrash
<1> QED
  BY <1>2, <1>3, <1>4
     DEF Check, Tick, Reply, NoReply, CrashDeregister, CrashSend, Die

\* The steps that kill a child and clear its place in the entry.
Frees(c) == Reap(c) \/ Drain(c) \/ DisconnectInDrain(c)

\* What a step of a caller does to the children and to the processes.
LEMMA CallerRaises ==
    ASSUME TypeInv, NEW c \in Callers, Step(c)
    PROVE  /\ \A q \in Plugins : plugins'[q].child # plugins[q].child =>
                 q = task[c].plugin /\ (Frees(c) \/ StoreChild(c))
           /\ Frees(c) => /\ plugins'[task[c].plugin].child = NoInst
                          /\ alive' = alive \ { plugins[task[c].plugin].child }
           /\ StoreChild(c) => plugins'[task[c].plugin].child = task[c].inst
           /\ \/ alive' \subseteq alive
              \/ Spawn(c) /\ alive' = alive \cup { task[c].inst }
<1> DEFINE p == task[c].plugin
           e == plugins[p]
<1>1. plugins \in [Plugins -> Entry]
  BY DEF TypeInv, MapOK
<1>2. \/ task[c].pc \in { "idle", "done" }
      \/ p \in Plugins /\ e \in Entry
  BY <1>1, BusyTask DEF TypeInv
<1>3. ASSUME NEW s PROVE e \in Entry => MoveTo(e, s).child = e.child
  BY DEF MoveTo, Entry
<1>4. ASSUME e \in Entry
      PROVE  /\ Drained(e) \in Entry /\ Drained(e).child = NoInst
             /\ [MoveTo(Drained(e), "Discovered") EXCEPT !.attempts = 0].child = NoInst
  <2>1. MoveTo(e, "Stopped") \in Entry
    BY <1>4, MoveType DEF PluginStates
  <2>2. Drained(e) \in Entry /\ Drained(e).child = NoInst
    BY <1>4, <2>1, DrainedType DEF Drained, Entry
  <2>3. MoveTo(Drained(e), "Discovered") \in Entry
        /\ MoveTo(Drained(e), "Discovered").child = NoInst
    BY <2>2, MoveType DEF PluginStates, MoveTo, Entry
  <2> QED
    BY <2>2, <2>3 DEF Entry
<1>5. KillChildren({ p }) => alive' = alive \ { plugins[p].child }
  BY DEF KillChildren
<1>6. Frees(c) => p \in Plugins /\ plugins'[p].child = NoInst /\ alive' = alive \ { e.child }
  <2>1. CASE Reap(c)
    BY <1>1, <1>2, <2>1 DEF Reap, At, Entry
  <2>2. CASE Drain(c)
    BY <1>1, <1>2, <1>4, <1>5, <2>2 DEF Drain, At
  <2>3. CASE DisconnectInDrain(c)
    <3>1. p \in Plugins /\ e \in Entry
      BY <1>2, <2>3 DEF DisconnectInDrain, At
    <3>2. [e EXCEPT !.child = NoInst].child = NoInst
      BY <3>1 DEF Entry
    <3> QED
      BY <1>1, <1>4, <1>5, <2>3, <3>1, <3>2 DEF DisconnectInDrain
  <2> QED
    BY <2>1, <2>2, <2>3 DEF Frees
<1>7. StoreChild(c) => plugins'[p].child = task[c].inst
  BY <1>1, <1>2 DEF StoreChild, At, Entry
<1>8. ASSUME NEW q \in Plugins, plugins'[q].child # plugins[q].child
      PROVE  q = p /\ (Frees(c) \/ StoreChild(c))
  <2>1. q = p /\ e \in Entry
    BY <1>1, <1>8, OwnEntry
  <2>2. CASE Enter(c) \/ Handshake(c) \/ Announce(c) \/ RestartAccepted(c)
    BY <1>1, <1>3, <1>8, <2>1, <2>2 DEF Enter, Handshake, Announce, RestartAccepted, Move
  <2>3. CASE Insert(c)
    <3>1. Refreshed(e).child = e.child
      BY <2>1 DEF Refreshed, Entry
    <3> QED
      BY <1>1, <1>8, <2>1, <2>3, <3>1 DEF Insert
  <2>4. CASE RetryWatch(c)
    <3>1. PICK w : plugins'[p] \in { e, [e EXCEPT !.watch = w],
                                     [MoveTo(e, "Stopped") EXCEPT !.watch = w] }
      BY <1>1, <2>1, <2>4 DEF RetryWatch
    <3>2. MoveTo(e, "Stopped") \in Entry
      BY <2>1, MoveType DEF PluginStates
    <3> QED
      BY <1>3, <1>8, <2>1, <3>1, <3>2 DEF Entry
  <2>5. CASE BeginStart(c) \/ FinishStart(c)
    BY <1>1, <1>8, <2>1, <2>5 DEF BeginStart, FinishStart, Entry
  <2>6. CASE Monitor(c)
    BY <1>1, <1>8, <2>1, <2>6 DEF Monitor, Entry
  <2>7. CASE StashChannel(c)
    BY <1>1, <1>8, <2>1, <2>7 DEF StashChannel, Entry
  <2>8. plugins' # plugins
    BY <1>8
  <2> QED
    BY <2>1, <2>2, <2>3, <2>4, <2>5, <2>6, <2>7, <2>8
       DEF Frees, Step, Start, SkipStart, Spawn, SpawnFails, Dial, DialFails, RegisterRpc,
           RegisterFails, Connect, Advertise, TakeRequest, Restart, RestartRequested,
           NewManifest, ManifestChanged, SeenStuck, Request, RestartRefused, Disconnect
<1>9. \/ alive' \subseteq alive
      \/ Spawn(c) /\ alive' = alive \cup { task[c].inst }
  BY <1>6
     DEF Frees, Step, Start, SkipStart, BeginStart, FinishStart, Enter, Insert, Spawn,
         SpawnFails, StoreChild, Dial, DialFails, Handshake, StashChannel,
         RegisterRpc, RegisterFails, Connect, Advertise, Announce, Monitor,
         TakeRequest, Restart, RestartRequested, NewManifest, ManifestChanged,
         SeenStuck, Request, RestartRefused, RestartAccepted, RetryWatch, Disconnect
<1> QED
  BY <1>6, <1>7, <1>8, <1>9

\* The shutdown clears the places it kills from.
LEMMA ShutdownFrees ==
    ASSUME TypeInv, Shutdown
    PROVE  /\ \A p \in Plugins : plugins'[p].child \in { plugins[p].child, NoInst }
           /\ \A p \in Plugins : plugins'[p].child # plugins[p].child =>
                 alive' \subseteq alive \ { plugins[p].child }
           /\ alive' \subseteq alive
<1>1. plugins \in [Plugins -> Entry]
  BY DEF TypeInv, MapOK
<1>2. ASSUME NEW p \in Plugins
      PROVE  /\ MoveTo(plugins[p], "Draining").child = plugins[p].child
             /\ [plugins[p] EXCEPT !.child = NoInst].child = NoInst
             /\ Drained(plugins[p]).child = NoInst
  <2>1. MoveTo(plugins[p], "Stopped") \in Entry
    BY <1>1, MoveType DEF PluginStates
  <2> QED
    BY <1>1, <2>1 DEF MoveTo, Entry, Drained
<1>3. CASE MarkAll
  BY <1>2, <1>3 DEF MarkAll
<1>4. CASE DrainAll
  BY <1>2, <1>4 DEF DrainAll, KillChildren
<1>5. CASE KillAll
  BY <1>2, <1>5 DEF KillAll, KillChildren
<1>6. CASE NameAll \/ Exit
  BY <1>6 DEF NameAll, Exit
<1> QED
  BY <1>3, <1>4, <1>5, <1>6 DEF Shutdown

-----------------------------------------------------------------------------
(* No process is lost.                                                     *)

\* A start that is about to store its child has killed and cleared what an
\* earlier start left: it overwrites nothing.  The boot and the flag keep
\* another start of the plugin from storing a child in between.
Reaped ==
    \A c \in Callers :
        task[c].pc \in { "spawn", "store" } /\ task[c].plugin \in BootPlugins
            => plugins[task[c].plugin].child = NoInst

\* At these labels, too, there is one thing a caller can do.
LEMMA SpawnActs ==
    ASSUME NEW c \in Callers, Step(c), ~HangsUp(c)
    PROVE  /\ task[c].pc = "reap" => Reap(c)
           /\ task[c].pc = "store" => StoreChild(c)
           /\ task[c].pc = "spawn" => Spawn(c) \/ SpawnFails(c)
BY DEF Step, Start, SkipStart, BeginStart, FinishStart, Enter, Insert, Reap, Spawn,
       SpawnFails, StoreChild, Dial, DialFails, Handshake, StashChannel, RegisterRpc,
       RegisterFails, Advertise, TakeRequest, Restart, RestartRequested, NewManifest,
       ManifestChanged, SeenStuck, Request, RestartRefused, RestartAccepted,
       RetryWatch, Connect, Announce, Monitor, Drain, At, HangsUp

\* The place stays clear from the kill to the store.
LEMMA ReapedStep == TypeInv /\ StartInv /\ Reaped /\ [Next]_vars => Reaped'
<1> SUFFICES ASSUME TypeInv, StartInv, Reaped, [Next]_vars,
                    NEW d \in Callers, task'[d].pc \in { "spawn", "store" },
                    task'[d].plugin \in BootPlugins
             PROVE  plugins'[task'[d].plugin].child = NoInst
  BY DEF Reaped
<1> DEFINE p == task'[d].plugin
<1>1. p \in Plugins
  BY PluginsAssumption
<1>2. CASE Step(d)
  <2>1. ~HangsUp(d)
    BY HangUp DEF Leaves
  <2>2. Continues(d) /\ task[d].pc \in { "reap", "spawn" }
    BY <1>2, CallerMoves DEF Continues, Takes, Enters, Returns, Leaves, Rest, Successors
  <2>3. Reap(d) \/ Spawn(d) \/ SpawnFails(d)
    BY <1>2, <2>1, <2>2, SpawnActs
  <2>4. p = task[d].plugin
    BY <2>2 DEF Continues
  <2>5. CASE Reap(d)
    BY <1>2, <2>4, <2>5, CallerRaises DEF Frees
  <2>6. CASE Spawn(d) \/ SpawnFails(d)
    BY <2>4, <2>6 DEF Spawn, SpawnFails, At, Reaped
  <2> QED
    BY <2>3, <2>5, <2>6
<1>3. CASE task'[d] = task[d]
  <2>1. plugins[p].child = NoInst
    BY <1>3 DEF Reaped
  <2>2. ASSUME NEW c \in Callers, c # d, Step(c), plugins'[p].child # plugins[p].child
        PROVE  plugins'[p].child = NoInst
    <3>1. p = task[c].plugin /\ (Frees(c) \/ StoreChild(c))
      BY <1>1, <2>2, CallerRaises
    <3>2. ~StoreChild(c)
      BY <1>3, <2>2, <3>1 DEF StoreChild, At, StartInv, OneStart, StartingPcs, StartPcs
    <3> QED
      BY <2>2, <3>1, <3>2, CallerRaises
  <2>3. ASSUME NEW i \in Instances, Check(i) \/ Die(i)
        PROVE  plugins'[p].child = plugins[p].child
    BY <1>1, <2>3, CheckSteers
  <2>4. CASE Shutdown
    BY <1>1, <2>1, <2>4, ShutdownFrees
  <2> QED
    BY <1>2, <2>1, <2>2, <2>3, <2>4 DEF Next, vars
<1>4. ASSUME NEW c \in Callers, Step(c), c # d PROVE task'[d] = task[d]
  BY <1>4, StepFrame
<1> QED
  BY <1>2, <1>3, <1>4, CheckFrame, ShutdownFrame DEF Next, vars

\* Only plugins the manager runs itself have a process.
SpawnsManaged ==
    /\ \A c \in Callers : task[c].pc \in { "reap", "spawn", "store" }
                             => task[c].plugin \in Managed
    /\ \A p \in Plugins : plugins[p].child # NoInst => p \in Managed

\* The branch of the start that spawns is taken for managed plugins alone.
LEMMA SpawnsManagedStep == TypeInv /\ SpawnsManaged /\ [Next]_vars => SpawnsManaged'
<1> SUFFICES ASSUME TypeInv, SpawnsManaged, [Next]_vars PROVE SpawnsManaged'
  OBVIOUS
<1>1. ASSUME NEW d \in Callers, task'[d].pc \in { "reap", "spawn", "store" }
      PROVE  task'[d].plugin \in Managed
  <2>1. CASE task'[d] = task[d]
    BY <1>1, <2>1 DEF SpawnsManaged
  <2>2. CASE Step(d)
    <3>1. ~HangsUp(d)
      BY <1>1, HangUp DEF Leaves
    <3>2. Continues(d) /\ task[d].pc \in { "insert", "reap", "spawn" }
      BY <1>1, <2>2, CallerMoves
         DEF Continues, Takes, Enters, Returns, Leaves, Rest, Successors
    <3>3. CASE task[d].pc = "insert"
      <4>1. Insert(d)
        BY <2>2, <3>1, <3>3, MoreActs
      <4>2. task'[d].pc = IF task[d].plugin \in Managed THEN "reap" ELSE "dial"
        BY <4>1, Moved DEF Insert, TypeInv
      <4> QED
        BY <1>1, <3>2, <4>2 DEF Continues
    <3> QED
      BY <3>2, <3>3 DEF Continues, SpawnsManaged
  <2>3. ASSUME NEW c \in Callers, Step(c), c # d PROVE task'[d] = task[d]
    BY <2>3, StepFrame
  <2> QED
    BY <2>1, <2>2, <2>3, CheckFrame, ShutdownFrame DEF Next, vars
<1>2. ASSUME NEW p \in Plugins, plugins'[p].child # NoInst PROVE p \in Managed
  <2>1. CASE plugins'[p].child = plugins[p].child
    BY <1>2, <2>1 DEF SpawnsManaged
  <2>2. ASSUME NEW c \in Callers, Step(c), plugins'[p].child # plugins[p].child
        PROVE  p \in Managed
    <3>1. p = task[c].plugin /\ StoreChild(c)
      BY <1>2, <2>2, CallerRaises
    <3> QED
      BY <3>1 DEF StoreChild, At, SpawnsManaged
  <2>3. ASSUME NEW i \in Instances, Check(i) \/ Die(i)
        PROVE  plugins'[p].child = plugins[p].child
    BY <2>3, CheckSteers
  <2>4. Shutdown => plugins'[p].child = plugins[p].child
    BY <1>2, ShutdownFrees
  <2> QED
    BY <2>1, <2>2, <2>3, <2>4 DEF Next, vars
<1> QED
  BY <1>1, <1>2 DEF SpawnsManaged

\* Where every managed plugin is known from the boot on, each step that takes a
\* process out of its place kills it.
LEMMA NoOrphanStep ==
    ASSUME Managed \subseteq BootPlugins
    PROVE  TypeInv /\ Reaped /\ SpawnsManaged /\ NoOrphan /\ [Next]_vars => NoOrphan'
<1> SUFFICES ASSUME TypeInv, Reaped, SpawnsManaged, NoOrphan, [Next]_vars, NEW i \in alive'
             PROVE  \/ \E p \in Plugins : plugins'[p].child = i
                    \/ \E c \in Callers : /\ task'[c].pc \in { "store", "gone" }
                                          /\ task'[c].inst = i
  BY DEF NoOrphan
<1> DEFINE Placed == \E p \in Plugins : plugins'[p].child = i
           InHand == \E c \in Callers : /\ task'[c].pc \in { "store", "gone" }
                                        /\ task'[c].inst = i
<1>1. ASSUME NEW c \in Callers, Step(c), i \notin alive PROVE InHand
  <2>1. Spawn(c) /\ i = task[c].inst
    BY <1>1, CallerRaises
  <2>2. task'[c].pc = "store" /\ task'[c].inst = i
    BY <2>1, Moved DEF Spawn, TypeInv
  <2> QED
    BY <2>2
<1>2. ASSUME NEW c \in Callers, Step(c), NEW p \in Plugins, plugins[p].child = i
      PROVE  Placed
  <2>1. CASE plugins'[p].child = i
    BY <2>1
  <2>2. CASE plugins'[p].child # i
    <3>1. p = task[c].plugin /\ (Frees(c) \/ StoreChild(c))
      BY <1>2, <2>2, CallerRaises
    <3>2. ~Frees(c)
      BY <1>2, <3>1, CallerRaises
    <3>3. plugins[p].child = NoInst
      BY <3>1, <3>2 DEF Reaped, SpawnsManaged, StoreChild, At
    <3>4. alive' \subseteq Instances
      BY NextType DEF TypeInv, CountersOK
    <3> QED
      BY <1>2, <3>3, <3>4 DEF NoInst, Instances
  <2> QED
    BY <2>1, <2>2
<1>3. ASSUME NEW c \in Callers, Step(c), NEW d \in Callers,
             task[d].pc \in { "store", "gone" }, task[d].inst = i
      PROVE  Placed \/ InHand
  <2>1. CASE c # d
    BY <1>3, <2>1, StepFrame
  <2>2. CASE HangsUp(d)
    BY <1>3, <2>2, HangUp DEF Leaves
  <2>3. CASE c = d /\ ~HangsUp(d)
    <3>1. StoreChild(d)
      BY <1>3, <2>3, PcActs, SpawnActs
    <3>2. plugins'[task[d].plugin].child = i /\ task[d].plugin \in Plugins
      BY <1>3, <2>3, <3>1, CallerRaises, BusyTask DEF TypeInv, StoreChild, At
    <3> QED
      BY <3>2
  <2> QED
    BY <2>1, <2>2, <2>3
<1>4. ASSUME NEW j \in Instances, Check(j) \/ Die(j)
      PROVE  /\ i \in alive /\ task' = task
             /\ \A p \in Plugins : plugins'[p].child = plugins[p].child
  <2>1. alive' \subseteq alive
    BY <1>4 DEF Check, Tick, Reply, NoReply, Healthy, Unhealthy, Crash, CrashDeregister,
                CrashSend, Die
  <2> QED
    BY <1>4, <2>1, CheckSteers, CheckFrame
<1>5. CASE Shutdown
  BY <1>5, ShutdownFrees, ShutdownFrame DEF NoOrphan
<1>6. ASSUME NEW c \in Callers, Step(c) PROVE Placed \/ InHand
  BY <1>1, <1>2, <1>3, <1>6 DEF NoOrphan
<1>7. CASE UNCHANGED vars
  BY <1>7 DEF vars, NoOrphan
<1>8. ASSUME NEW j \in Instances, Check(j) \/ Die(j) PROVE Placed \/ InHand
  BY <1>4, <1>8 DEF NoOrphan
<1> QED
  BY <1>5, <1>6, <1>7, <1>8 DEF Next

\* The invariant the theorems below share.
Owned == StartInv /\ Reaped /\ SpawnsManaged

\* Nothing is spawned at first.
LEMMA OwnedInit == Init => Owned
<1> SUFFICES ASSUME Init PROVE Owned
  OBVIOUS
<1>1. \A p \in Plugins : plugins[p].child = NoInst
  BY DEF Init
<1>2. ASSUME NEW c \in Callers PROVE task[c].pc \in { "enter", "idle", "done" }
  BY DEF Init, Rest
<1> QED
  BY <1>1, <1>2, StartInvInit DEF Owned, Reaped, SpawnsManaged

\* The parts are inductive together.
LEMMA OwnedStep == TypeInv /\ Owned /\ [Next]_vars => Owned'
BY BootsAloneStep, MarkedStep, OneStartStep, ReapedStep, SpawnsManagedStep
   DEF Owned, StartInv

\* No restart, crash, hang-up or shutdown loses a process, as long as the managed
\* plugins are those the daemon booted with.  The first start of one whose manifest
\* appears later finds no entry to hold its flag: a second start may overlap with it,
\* and overwrite its child.
THEOREM NoProcessLost ==
    ASSUME Managed \subseteq BootPlugins
    PROVE  Spec => []NoOrphan
<1>1. Init => NoOrphan
  BY DEF Init, NoOrphan
<1>2. TypeInv /\ Owned /\ NoOrphan /\ [Next]_vars => NoOrphan'
  BY NoOrphanStep DEF Owned
<1> QED
  BY <1>1, <1>2, OwnedInit, OwnedStep, TypeInvariance, PTL DEF Spec

-----------------------------------------------------------------------------
(* What shutdown_all leaves behind.                                        *)

\* The names it works on are names of entries, and the plugins the daemon booted
\* with are among them.
Named ==
    /\ \A p \in closing : State(p) # Absent
    /\ phase # "running" => BootPlugins \subseteq closing

\* The names are collected behind the boot, when every boot task has inserted its
\* entry, and entries are never removed.
LEMMA NamedStep == TypeInv /\ StartInv /\ Named /\ [Next]_vars => Named'
<1> SUFFICES ASSUME TypeInv, StartInv, Named, [Next]_vars PROVE Named'
  OBVIOUS
<1>1. CASE NameAll
  <2>1. \A p \in BootPlugins : task[p].pc = "done"
    BY <1>1, PluginsAssumption DEF NameAll, Booted
  <2>2. BootPlugins \subseteq closing'
    BY <1>1, <2>1, PluginsAssumption DEF NameAll, StartInv, BootsAlone
  <2> QED
    BY <1>1, <2>2 DEF NameAll, Named, State
<1>2. CASE ~NameAll
  <2>1. closing' = closing /\ closing \subseteq Plugins
    BY <1>2, StepFrame, CheckFrame
       DEF Next, vars, Shutdown, MarkAll, DrainAll, KillAll, Exit, TypeInv, PhaseOK
  <2>2. phase' # "running" => phase # "running"
    BY <1>2, StepFrame, CheckFrame
       DEF Next, vars, Shutdown, MarkAll, DrainAll, KillAll, Exit
  <2> QED
    BY <2>1, <2>2, EntriesStay DEF Named
<1> QED
  BY <1>1, <1>2

\* Whatever was going on when ctrl-c came, a drained plugin is Stopped and not
\* registered, and of the processes only those are left that a start holds.
THEOREM ShutdownLeavesNothing ==
    ASSUME Managed \subseteq BootPlugins
    PROVE  Spec => ShutdownDrains
<1> DEFINE Clean == /\ \A p \in closing : State(p)' = "Stopped"
                    /\ \A h \in registry' : h.plugin \notin closing
                    /\ \A i \in alive' : \E c \in Callers :
                          /\ task[c].pc \in { "store", "gone" }
                          /\ task[c].inst = i
<1>1. Init => Named
  BY DEF Init, Named
<1>2. ASSUME TypeInv, Owned, Named, NoOrphan, DrainAll PROVE Clean
  <2>1. ASSUME NEW p \in closing PROVE State(p)' = "Stopped"
    <3>1. p \in Plugins /\ plugins[p] \in Entry /\ plugins[p].state # Absent
      BY <1>2 DEF TypeInv, MapOK, PhaseOK, Named, State
    <3>2. /\ MoveTo(plugins[p], "Stopped") \in Entry
          /\ MoveTo(plugins[p], "Stopped").state = "Stopped"
      <4>1. plugins[p].state \in PluginStates
        BY <3>1 DEF Entry
      <4>2. Transition(plugins[p].state, "Stopped") = "Stopped"
        BY <4>1 DEF Transition, LegalMoves
      <4> QED
        BY <3>1, <4>2, MoveType DEF MoveTo, Entry, PluginStates
    <3>3. Drained(plugins[p]).state = "Stopped"
      BY <3>2 DEF Drained, Entry
    <3> QED
      BY <1>2, <3>1, <3>3 DEF DrainAll, State
  <2>2. \A h \in registry' : h.plugin \notin closing
    BY <1>2 DEF DrainAll, Deregister
  <2>3. ASSUME NEW i \in alive'
        PROVE  \E c \in Callers : task[c].pc \in { "store", "gone" } /\ task[c].inst = i
    <3>1. i \in alive /\ \A p \in closing : plugins[p].child # i
      BY <1>2 DEF DrainAll, KillChildren
    <3>2. ASSUME NEW p \in Plugins, plugins[p].child = i PROVE FALSE
      <4>1. p \in Managed
        BY <1>2, <3>1, <3>2 DEF Owned, SpawnsManaged, TypeInv, CountersOK, Instances, NoInst
      <4>2. BootPlugins \subseteq closing
        BY <1>2 DEF Named, DrainAll
      <4> QED
        BY <3>1, <3>2, <4>1, <4>2
    <3> QED
      BY <1>2, <3>1, <3>2 DEF NoOrphan
  <2> QED
    BY <2>1, <2>2, <2>3
<1>3. TypeInv /\ Owned /\ Named /\ NoOrphan /\ [Next]_vars => [DrainAll => Clean]_vars
  BY <1>2
<1>4. Spec => []NoOrphan
  BY NoProcessLost
<1>5. TypeInv /\ Owned /\ Named /\ [Next]_vars => Named'
  BY NamedStep DEF Owned
<1>6. [DrainAll => Clean]_vars <=>
      [DrainAll =>
        /\ \A p \in closing : State(p)' = "Stopped"
        /\ \A h \in registry' : h.plugin \notin closing
        /\ \A i \in alive' : \E c \in Callers : /\ task[c].pc \in { "store", "gone" }
                                             /\ task[c].inst = i]_vars
  OBVIOUS
<1> QED
  BY <1>1, <1>3, <1>4, <1>5, <1>6, OwnedInit, OwnedStep, TypeInvariance, PTL
     DEF Spec, ShutdownDrains

-----------------------------------------------------------------------------
(* A plugin that serves is watched.                                        *)

\* An instance id is given out once: it names a start or the health-check loop
\* that start ended with, never two starts, and never a start and a loop.
Numbered ==
    /\ \A c \in Callers : task[c].pc \in InstPcs =>
          task[c].inst < next /\ loops[task[c].inst].pc = "off"
    /\ \A c, d \in Callers :
          /\ task[c].pc \in InstPcs /\ task[d].pc \in InstPcs
          /\ task[c].inst = task[d].inst
          => c = d
    /\ \A i \in Instances : loops[i].pc # "off" => i < next

\* A start keeps its instance id from Enter on, and gives it to the loop it spawns.
LEMMA InstanceKept ==
    ASSUME TypeInv, NEW c \in Callers, Step(c), task'[c].pc \in InstPcs
    PROVE  /\ loops' = loops
           /\ \/ /\ task[c].pc \in InstPcs /\ task'[c].inst = task[c].inst
                 /\ next' = next
              \/ task'[c].inst = next /\ next \in Instances /\ next' = next + 1
<1>1. ~Takes(c) /\ ~Returns(c) /\ ~Leaves(c)
  BY DEF Takes, Returns, Leaves, Rest, InstPcs, StartPcs
<1>2. CASE Enters(c)
  BY <1>2 DEF Enters, Enter, TypeInv, CountersOK, Instances
<1>3. CASE Continues(c)
  <2>1. task[c].pc \in InstPcs /\ task[c].pc # "reset" /\ task'[c].inst = task[c].inst
    BY <1>3 DEF Continues, Successors, InstPcs, StartPcs
  <2> QED
    BY <2>1, StepFrame DEF Monitor, Enter, At, InstPcs
<1> QED
  BY <1>1, <1>2, <1>3, CallerMoves

\* What Monitor does to the loops.
LEMMA MonitorSpawns ==
    ASSUME TypeInv, NEW c \in Callers, Monitor(c)
    PROVE  /\ task[c].inst \in Instances /\ task[c].pc = "reset"
           /\ loops'[task[c].inst].pc = "tick"
           /\ loops'[task[c].inst].plugin = task[c].plugin
           /\ \A i \in Instances \ { task[c].inst } : loops'[i] = loops[i]
<1>1. task[c].pc = "reset" /\ task[c].inst \in Instances
  BY BusyTask DEF Monitor, At, TypeInv, InstPcs, StartPcs
<1>2. loops[task[c].inst] \in Loop /\ loops \in [Instances -> Loop]
  BY <1>1 DEF TypeInv, LoopsOK
<1>3. loops'[task[c].inst] = [loops[task[c].inst] EXCEPT !.pc = "tick",
                                                        !.plugin = task[c].plugin]
  BY <1>1, <1>2 DEF Monitor
<1> QED
  BY <1>1, <1>2, <1>3 DEF Monitor, Loop

\* Ids only grow, and only Enter gives one out.
LEMMA NumberedStep == TypeInv /\ Numbered /\ [Next]_vars => Numbered'
<1> SUFFICES ASSUME TypeInv, Numbered, [Next]_vars PROVE Numbered'
  OBVIOUS
<1> DEFINE Own(d) == task'[d].inst < next' /\ loops'[task'[d].inst].pc = "off"
           Fresh(d, e) == /\ task'[d].pc \in InstPcs /\ task'[e].pc \in InstPcs
                          /\ task'[d].inst = task'[e].inst
                          => d = e
           Given(i) == loops'[i].pc # "off" => i < next'
<1>0. next \in Nat
  BY DEF TypeInv, CountersOK
<1>1. ASSUME task' = task, loops' = loops, next' = next PROVE Numbered'
  BY <1>1 DEF Numbered
<1>2. ASSUME NEW i \in Instances, Check(i) \/ Die(i) PROVE Numbered'
  <2>1. task' = task /\ next' = next
    BY <1>2, CheckFrame
  <2>2. ASSUME NEW j \in Instances PROVE loops'[j].pc # "off" <=> loops[j].pc # "off"
    BY <1>2, CheckFrame
       DEF Check, Tick, Reply, NoReply, Healthy, Unhealthy, Crash, CrashDeregister,
           CrashSend, Die, GotoLoop, LoopAt, TypeInv, LoopsOK, Loop
  <2>3. ASSUME NEW d \in Callers, task[d].pc \in InstPcs PROVE task[d].inst \in Instances
    BY <2>3, BusyTask DEF TypeInv, InstPcs, StartPcs
  <2> QED
    BY <2>1, <2>2, <2>3 DEF Numbered
<1>3. ASSUME NEW c \in Callers, Step(c) PROVE Numbered'
  <2>1. \A d \in Callers \ { c } : task'[d] = task[d]
    BY <1>3, StepFrame
  <2>2. ASSUME NEW d \in Callers, task'[d].pc \in InstPcs
        PROVE  Own(d)
    <3>1. CASE d = c
      BY <1>0, <1>3, <2>2, <3>1, InstanceKept DEF Numbered, Instances
    <3>2. CASE d # c
      <4>1. task[d].inst < next /\ loops[task[d].inst].pc = "off"
            /\ task'[d] = task[d] /\ task[d].inst \in Instances
        BY <2>1, <2>2, <3>2, BusyTask DEF Numbered, TypeInv, InstPcs, StartPcs
      <4>2. next' = next \/ next' = next + 1
        BY <1>3, StepFrame DEF Enter
      <4>3. Monitor(c) => task[c].inst # task[d].inst
        BY <2>1, <2>2, <3>2, MonitorSpawns DEF Numbered, InstPcs, StartPcs
      <4>4. loops'[task[d].inst] = loops[task[d].inst]
        BY <1>3, <4>1, <4>3, StepFrame, MonitorSpawns
      <4> QED
        BY <1>0, <4>1, <4>2, <4>4 DEF Instances
    <3> QED
      BY <3>1, <3>2
  <2>3. ASSUME NEW d \in Callers, d # c, task'[c].pc \in InstPcs, task'[d].pc \in InstPcs
        PROVE  task'[c].inst # task'[d].inst
    <3>1. task[d].pc \in InstPcs /\ task'[d].inst = task[d].inst
          /\ task[d].inst < next /\ task[d].inst \in Nat
      BY <2>1, <2>3, BusyTask DEF Numbered, TypeInv, InstPcs, StartPcs, Instances
    <3> QED
      BY <1>0, <1>3, <2>3, <3>1, InstanceKept DEF Numbered
  <2>4. ASSUME NEW d \in Callers, NEW e \in Callers PROVE Fresh(d, e)
    BY <2>1, <2>3 DEF Numbered
  <2>5. ASSUME NEW i \in Instances PROVE Given(i)
    <3>1. next' = next \/ next' = next + 1
      BY <1>3, StepFrame DEF Enter
    <3>2. CASE Monitor(c)
      <4>1. task[c].inst < next
        BY <3>2, MonitorSpawns DEF Numbered, InstPcs, StartPcs
      <4> QED
        BY <1>0, <3>1, <3>2, <4>1, MonitorSpawns DEF Numbered, Instances
    <3>3. CASE ~Monitor(c)
      BY <1>0, <1>3, <3>1, <3>3, StepFrame DEF Numbered, Instances
    <3> QED
      BY <3>2, <3>3
  <2> QED
    BY <2>2, <2>4, <2>5 DEF Numbered
<1> QED
  BY <1>1, <1>2, <1>3, ShutdownFrame DEF Next, vars

\* A loop stops checking when it has stopped the plugin, or has seen it stopped.
LEMMA CheckingStays ==
    ASSUME TypeInv, NEW i \in Instances, Check(i), loops[i].pc \in CheckingPcs,
           NEW p \in Plugins, loops[i].plugin = p, IsServing(p), IsServing(p)'
    PROVE  loops'[i].pc \in CheckingPcs /\ loops'[i].plugin = p
<1>1. /\ loops[i] \in Loop /\ loops \in [Instances -> Loop]
      /\ plugins \in [Plugins -> Entry] /\ plugins[p] \in Entry
  BY DEF TypeInv, MapOK, LoopsOK, GoodLoop, CheckingPcs
<1>2. ~Crash(i)
  <2>1. ASSUME Crash(i) PROVE FALSE
    <3>1. PICK n, b : plugins' = [plugins EXCEPT ![p] =
                [plugins[p] EXCEPT !.state = StateAfterCrash(@), !.attempts = n,
                                   !.scheduled = b]]
      BY <2>1 DEF Crash
    <3>2. plugins'[p] = [plugins[p] EXCEPT !.state = StateAfterCrash(@), !.attempts = n,
                                           !.scheduled = b]
      BY <1>1, <3>1
    <3>3. plugins'[p].state = Transition(plugins[p].state, "Stopped")
      BY <1>1, <3>2 DEF Entry, StateAfterCrash, IsServing, State
    <3>4. Transition(plugins[p].state, "Stopped") = "Stopped"
      BY DEF IsServing, State, Transition, LegalMoves, PluginStates, Serving
    <3> QED
      BY <1>1, <2>1, <3>3, <3>4 DEF Crash, IsServing, State, Serving
  <2> QED
    BY <2>1
<1>3. ~(\E s \in { "Stopped", Absent } : State(p) = s)
  BY DEF IsServing, Serving, Absent
<1>4. ASSUME NEW pc, GotoLoop(i, pc) PROVE loops'[i].pc = pc /\ loops'[i].plugin = p
  <2>1. loops'[i] = [loops[i] EXCEPT !.pc = pc, !.chan = NoInst]
    BY <1>1, <1>4 DEF GotoLoop
  <2> QED
    BY <1>1, <2>1 DEF Loop
<1>5. CASE Tick(i)
  <2>1. CASE plugins[p].channel = NoInst
    BY <1>3, <1>4, <1>5, <2>1 DEF Tick, CheckingPcs
  <2>2. CASE plugins[p].channel # NoInst
    BY <1>1, <1>3, <1>5, <2>2 DEF Tick, CheckingPcs, Loop
  <2> QED
    BY <2>1, <2>2
<1>6. CASE Reply(i) \/ NoReply(i) \/ Healthy(i) \/ Unhealthy(i)
  BY <1>4, <1>6 DEF Reply, NoReply, Healthy, Unhealthy, CheckingPcs
<1> QED
  BY <1>2, <1>5, <1>6 DEF Check, CrashDeregister, CrashSend, LoopAt, CheckingPcs

\* What shutdown_all does to an entry.
LEMMA ShutdownMarks ==
    ASSUME TypeInv, Shutdown, NEW p \in Plugins
    PROVE  /\ plugins'[p].scheduled = plugins[p].scheduled
           /\ plugins'[p].channel = plugins[p].channel
           /\ State(p)' # State(p) => State(p)' \in { "Draining", "Stopped" }
           /\ DrainAll /\ p \in closing => State(p)' \in { "Stopped", Absent }
<1> DEFINE e == plugins[p]
<1>1. e \in Entry
  BY DEF TypeInv, MapOK
<1>2. ASSUME NEW s \in PluginStates
      PROVE  /\ MoveTo(e, s) \in Entry
             /\ MoveTo(e, s).scheduled = e.scheduled /\ MoveTo(e, s).channel = e.channel
             /\ MoveTo(e, s).state \in { e.state, s }
  BY <1>1, MoveType DEF MoveTo, Entry, Transition
<1>3. MoveTo(e, "Stopped").state \in { "Stopped", Absent }
  BY <1>1 DEF MoveTo, Entry, Transition, LegalMoves
<1>4. [e EXCEPT !.child = NoInst].scheduled = e.scheduled
      /\ [e EXCEPT !.child = NoInst].channel = e.channel
      /\ [e EXCEPT !.child = NoInst].state = e.state
  BY <1>1 DEF Entry
<1>5. /\ Drained(e).scheduled = e.scheduled /\ Drained(e).channel = e.channel
      /\ Drained(e).state \in { e.state, "Stopped" }
      /\ Drained(e).state \in { "Stopped", Absent }
  <2>1. MoveTo(e, "Stopped") \in Entry
    BY <1>2 DEF PluginStates
  <2>2. /\ Drained(e).scheduled = MoveTo(e, "Stopped").scheduled
        /\ Drained(e).channel = MoveTo(e, "Stopped").channel
        /\ Drained(e).state = MoveTo(e, "Stopped").state
    BY <2>1 DEF Drained, Entry
  <2> QED
    BY <1>2, <1>3, <2>2 DEF PluginStates
<1>6. CASE MarkAll
  <2>1. plugins'[p] \in { e, MoveTo(e, "Draining") } /\ ~DrainAll
    BY <1>6 DEF MarkAll, DrainAll
  <2> QED
    BY <1>2, <2>1 DEF State, PluginStates
<1>7. CASE DrainAll
  <2>1. plugins'[p] = IF p \in closing THEN Drained(e) ELSE e
    BY <1>7 DEF DrainAll
  <2> QED
    BY <1>5, <2>1 DEF State
<1>8. CASE KillAll
  <2>1. plugins'[p] \in { e, [e EXCEPT !.child = NoInst] } /\ ~DrainAll
    BY <1>8 DEF KillAll, DrainAll
  <2> QED
    BY <1>4, <2>1 DEF State
<1>9. CASE NameAll \/ Exit
  BY <1>9 DEF NameAll, Exit, DrainAll, State
<1> QED
  BY <1>6, <1>7, <1>8, <1>9 DEF Shutdown

\* Only the last step of a start makes a plugin serve.
LEMMA BecomesServing ==
    ASSUME TypeInv, [Next]_vars, NEW p \in Plugins, ~IsServing(p), IsServing(p)'
    PROVE  \E c \in Callers : Announce(c) /\ Step(c) /\ p = task[c].plugin
                              /\ State(p) = "Handshaking"
<1>1. State(p)' # State(p)
  BY DEF IsServing
<1>2. ASSUME NEW c \in Callers, Step(c)
      PROVE  Announce(c) /\ p = task[c].plugin /\ State(p) = "Handshaking"
  BY <1>1, <1>2, CallerSteers DEF IsServing, Serving
<1>3. ASSUME NEW i \in Instances, Check(i) \/ Die(i) PROVE FALSE
  BY <1>1, <1>3, CheckSteers DEF IsServing, Serving, State
<1>4. ASSUME Shutdown PROVE FALSE
  BY <1>1, <1>4, ShutdownMarks DEF IsServing, Serving
<1> QED
  BY <1>1, <1>2, <1>3, <1>4 DEF Next, vars, State

\* Only a start makes a plugin serve, and it comes to its end with the loop.
LEMMA MonitoredStep == TypeInv /\ Numbered /\ Monitored /\ [Next]_vars => Monitored'
<1> DEFINE Watched(p) == \/ \E i \in Instances : /\ loops[i].plugin = p
                                               /\ loops[i].pc \in CheckingPcs
                         \/ \E c \in Callers : task[c].plugin = p /\ task[c].pc = "reset"
                         \/ Abandoned(p)
<1> SUFFICES ASSUME TypeInv, Numbered, Monitored, [Next]_vars,
                    NEW p \in Plugins, IsServing(p)'
             PROVE  Watched(p)'
  BY DEF Monitored
<1>1. CASE ~IsServing(p)
  <2>1. PICK c \in Callers : Announce(c) /\ p = task[c].plugin
    BY <1>1, BecomesServing
  <2>2. task'[c].pc = "reset" /\ task'[c].plugin = p
    BY <2>1, Moved DEF Announce, TypeInv
  <2> QED
    BY <2>2
<1>2. ASSUME NEW i \in Instances, loops[i].plugin = p, loops[i].pc \in CheckingPcs,
             IsServing(p)
      PROVE  Watched(p)'
  <2>1. CASE loops'[i] = loops[i]
    BY <1>2, <2>1
  <2>2. ASSUME NEW c \in Callers, Step(c) PROVE loops'[i] = loops[i]
    <3>1. Monitor(c) => task[c].inst # i
      BY <1>2, MonitorSpawns DEF Numbered, InstPcs, StartPcs, CheckingPcs
    <3> QED
      BY <2>2, <3>1, StepFrame, MonitorSpawns
  <2>3. CASE Check(i)
    BY <1>2, <2>3, CheckingStays
  <2>4. ASSUME NEW j \in Instances, Check(j) \/ Die(j), ~Check(i)
        PROVE  loops'[i] = loops[i]
    BY <2>4, CheckFrame DEF Die
  <2> QED
    BY <2>1, <2>2, <2>3, <2>4, ShutdownFrame DEF Next, vars
<1>3. ASSUME NEW d \in Callers, task[d].plugin = p,
             task[d].pc = "reset" \/ (task[d].pc = "gone" /\ d \in Operators)
      PROVE  Watched(p)'
  <2>1. CASE task'[d] = task[d]
    BY <1>3, <2>1 DEF Abandoned
  <2>2. CASE HangsUp(d)
    BY <1>3, <2>2, HangUp DEF Leaves, Abandoned
  <2>3. CASE Step(d) /\ ~HangsUp(d)
    <3>1. Monitor(d)
      BY <1>3, <2>3, PcActs
    <3>2. loops'[task[d].inst].plugin = p /\ loops'[task[d].inst].pc \in CheckingPcs
          /\ task[d].inst \in Instances
      BY <1>3, <3>1, MonitorSpawns DEF CheckingPcs
    <3> QED
      BY <3>2
  <2>4. ASSUME NEW c \in Callers, Step(c), c # d PROVE task'[d] = task[d]
    BY <2>4, StepFrame
  <2> QED
    BY <2>1, <2>2, <2>3, <2>4, CheckFrame, ShutdownFrame DEF Next, vars
<1>4. CASE IsServing(p)
  <2>1. \A o \in Operators : o \in Callers
    BY DEF Callers
  <2> QED
    BY <1>2, <1>3, <1>4, <2>1 DEF Monitored, Abandoned
<1> QED
  BY <1>1, <1>4

\* No interleaving of starts, crashes and restarts leaves a plugin advertised with
\* nobody to notice that it died, short of a client that hung up on its restart.
THEOREM ServingIsMonitored == Spec => []Monitored
<1>1. Init => Numbered /\ Monitored
  <2>1. ASSUME Init PROVE Monitored
    BY <2>1 DEF Init, Monitored, IsServing, State, Serving, Absent
  <2>2. ASSUME Init, NEW c \in Callers PROVE task[c].pc \in { "enter", "idle", "done" }
    BY <2>2 DEF Init, Rest
  <2>3. ASSUME Init PROVE Numbered
    BY <2>2, <2>3 DEF Init, Numbered, InstPcs, StartPcs
  <2> QED
    BY <2>1, <2>3
<1> QED
  BY <1>1, NumberedStep, MonitoredStep, TypeInvariance, PTL DEF Spec

-----------------------------------------------------------------------------
(* No plugin runs twice.                                                   *)

\* The steps before an instance has an id, and those before it has a process.
IdlePcs == { "idle", "done", "guard", "restart", "drain", "retry", "enter" }
UnbornPcs == { "insert", "reap", "spawn" }

\* Instance i, where nobody but caller c knows of it.
Unknown(i, c) ==
    /\ i \notin alive
    /\ \A p \in Plugins : plugins[p].child # i
    /\ \A d \in Callers \ { c } : task[d].inst # i

\* Ids are given out in order, and a start alone knows the one it has not spawned
\* a process for.
Unborn ==
    /\ \A i \in alive : i < next
    /\ \A p \in Plugins : plugins[p].child < next
    /\ \A c \in Callers : task[c].inst < next
    /\ \A c \in Callers : task[c].pc \in IdlePcs => task[c].inst = NoInst
    /\ \A c \in Callers : task[c].pc \in UnbornPcs => Unknown(task[c].inst, c)

\* A client that hung up on a start leaves its flag set for good: what that start
\* may have spawned keeps every later one out.
GoneHolds ==
    \A d \in Callers :
        task[d].pc = "gone" /\ task[d].inst # NoInst /\ task[d].plugin \in BootPlugins =>
            /\ plugins[task[d].plugin].starting
            /\ \A c \in Callers :
                  task[c].plugin = task[d].plugin => task[c].pc \notin StartingPcs

\* What a step makes of a caller's instance.
LEMMA InstanceMoves ==
    ASSUME TypeInv, NEW c \in Callers, Step(c)
    PROVE  \/ task'[c].inst = task[c].inst
           \/ task'[c].inst = NoInst
           \/ Enters(c)
<1>1. TasksOK
  BY DEF TypeInv
<1>2. CASE Takes(c)
  <2>1. ASSUME NEW p, NEW job, NEW pc, Request(c, p, job, pc) PROVE task'[c].inst = NoInst
    <3>1. task'[c] = [Rest(pc) EXCEPT !.job = job, !.plugin = p]
      BY <1>1, <2>1 DEF Request, TasksOK
    <3> QED
      BY <3>1 DEF Rest
  <2>2. TakeRequest(c) => task'[c].inst = NoInst
    BY <1>1 DEF TakeRequest, Rest, TasksOK
  <2>3. ASSUME NEW p \in Plugins, \/ RestartRequested(c, p) \/ NewManifest(c, p)
                                 \/ ManifestChanged(c, p) \/ SeenStuck(c, p)
        PROVE  task'[c].inst = NoInst
    BY <2>1, <2>3 DEF RestartRequested, NewManifest, ManifestChanged, SeenStuck
  <2> QED
    BY <1>2, <2>2, <2>3, HangUp
       DEF Takes, Step, Start, SkipStart, BeginStart, FinishStart, Enter, Insert, Reap,
         Spawn, SpawnFails, StoreChild, Dial, DialFails, Handshake, StashChannel,
         RegisterRpc, RegisterFails, Advertise, Restart, RestartRefused,
         RestartAccepted, RetryWatch, Connect, Announce, Monitor, Drain, HangsUp,
         Leaves, At
<1>3. CASE Continues(c) \/ Returns(c) \/ Leaves(c)
  BY <1>3 DEF Continues, Returns, Leaves, Rest
<1> QED
  BY <1>2, <1>3, CallerMoves

\* Only Spawn brings a process to life.
LEMMA ProcessesEnd ==
    ASSUME TypeInv, [Next]_vars
    PROVE  \/ alive' \subseteq alive
           \/ \E c \in Callers : Step(c) /\ Spawn(c) /\ alive' = alive \cup { task[c].inst }
<1>1. ASSUME NEW i \in Instances, Check(i) \/ Die(i) PROVE alive' \subseteq alive
  BY <1>1 DEF Check, Tick, Reply, NoReply, Healthy, Unhealthy, Crash, CrashDeregister,
              CrashSend, Die
<1> QED
  BY <1>1, CallerRaises, ShutdownFrees DEF Next, vars

\* Only StoreChild enters a process.
LEMMA ChildrenMove ==
    ASSUME TypeInv, [Next]_vars, NEW p \in Plugins
    PROVE  \/ plugins'[p].child \in { plugins[p].child, NoInst }
           \/ \E c \in Callers : /\ Step(c) /\ StoreChild(c) /\ task[c].plugin = p
                                 /\ plugins'[p].child = task[c].inst
<1>1. ASSUME NEW i \in Instances, Check(i) \/ Die(i)
      PROVE  plugins'[p].child = plugins[p].child
  BY <1>1, CheckSteers
<1>2. ASSUME NEW c \in Callers, Step(c), plugins'[p].child # plugins[p].child,
             plugins'[p].child # NoInst
      PROVE  StoreChild(c) /\ task[c].plugin = p /\ plugins'[p].child = task[c].inst
  BY <1>2, CallerRaises
<1> QED
  BY <1>1, <1>2, ShutdownFrees DEF Next, vars

\* The records of the callers that take no step stay.
LEMMA OneCaller ==
    ASSUME TypeInv, [Next]_vars
    PROVE  \/ task' = task /\ next' = next
           \/ \E c \in Callers : /\ Step(c)
                                 /\ \A d \in Callers \ { c } : task'[d] = task[d]
                                 /\ Enter(c) \/ next' = next
BY StepFrame, CheckFrame, ShutdownFrame DEF Next, vars

\* Ids are fresh when they are taken, and known to others from the store on only.
LEMMA UnbornStep == TypeInv /\ Unborn /\ [Next]_vars => Unborn'
<1> SUFFICES ASSUME TypeInv, Unborn, [Next]_vars PROVE Unborn'
  OBVIOUS
<1> DEFINE Hand(d) == /\ task'[d].inst < next'
                      /\ task'[d].pc \in IdlePcs => task'[d].inst = NoInst
           Hidden(i, d) == /\ i \notin alive'
                           /\ \A p \in Plugins : plugins'[p].child # i
                           /\ \A c \in Callers \ { d } : task'[c].inst # i
<1>1. next \in Nat \ { 0 } /\ NoInst = 0 /\ Instances \subseteq Nat /\ alive \subseteq Nat
  BY DEF TypeInv, CountersOK, NoInst, Instances
<1>2. /\ \A p \in Plugins : plugins[p].child \in Nat /\ plugins[p].child < next
      /\ \A c \in Callers : task[c].inst \in Nat /\ task[c].inst < next
  <2>1. \A e \in Entry : e.child \in Instances \cup { NoInst }
    BY DEF Entry
  <2>2. \A t \in Task : t.inst \in Instances \cup { NoInst }
    BY DEF Task
  <2>3. \A p \in Plugins : plugins[p].child \in Instances \cup { NoInst }
    BY <2>1 DEF TypeInv, MapOK
  <2>4. \A c \in Callers : task[c].inst \in Instances \cup { NoInst }
    BY <2>2 DEF TypeInv, TasksOK
  <2>5. /\ \A p \in Plugins : plugins[p].child < next
        /\ \A c \in Callers : task[c].inst < next
    BY Zenon DEF Unborn
  <2>6. \A i \in Instances \cup { NoInst } : i \in Nat
    BY <1>1
  <2> QED
    BY <2>3, <2>4, <2>5, <2>6, Zenon
<1>3. next' = next \/ next' = next + 1
  BY OneCaller DEF Enter
<1>4. ASSUME NEW i \in alive' PROVE i < next'
  <2>1. i \in alive \/ \E c \in Callers : i = task[c].inst
    BY ProcessesEnd
  <2>2. i \in Nat /\ i < next
    <3>1. \A j \in alive : j \in Nat /\ j < next
      BY <1>1 DEF Unborn
    <3> QED
      BY <1>2, <2>1, <3>1, Zenon
  <2> QED
    BY <1>1, <1>3, <2>2
<1>5. \A p \in Plugins : plugins'[p].child < next'
  BY <1>1, <1>2, <1>3, ChildrenMove
<1>6. ASSUME NEW c \in Callers, Step(c) PROVE Hand(c)
  <2>1. CASE Enters(c)
    BY <1>1, <2>1 DEF Enters, Enter, IdlePcs
  <2>2. CASE ~Enters(c)
    <3>1. task'[c].inst < next'
      BY <1>1, <1>2, <1>3, <1>6, <2>2, InstanceMoves
    <3>2. ASSUME task'[c].pc \in IdlePcs, task'[c].inst # NoInst PROVE FALSE
      <4>1. task'[c].inst = task[c].inst /\ task[c].pc \notin IdlePcs
        BY <1>6, <2>2, <3>2, InstanceMoves DEF Unborn
      <4> QED
        BY <1>6, <3>2, <4>1, CallerMoves
           DEF Continues, Takes, Enters, Returns, Leaves, Rest, Successors, IdlePcs
    <3> QED
      BY <3>1, <3>2
  <2> QED
    BY <2>1, <2>2
<1>7. ASSUME NEW d \in Callers PROVE Hand(d)
  <2>1. CASE task'[d] = task[d]
    BY <1>1, <1>2, <1>3, <2>1 DEF Unborn
  <2> QED
    BY <1>6, <2>1, OneCaller
<1>8. ASSUME NEW d \in Callers, task'[d].pc \in UnbornPcs
      PROVE  Hidden(task'[d].inst, d)
  <2> DEFINE i == task'[d].inst
  <2>1. CASE Enters(d)
    <3>1. i = next /\ Enter(d)
      BY <2>1 DEF Enters
    <3>2. alive' = alive /\ \A p \in Plugins : plugins'[p].child = plugins[p].child
      <4>1. plugins \in [Plugins -> Entry]
        BY DEF TypeInv, MapOK
      <4>2. \A p \in Plugins : MoveTo(plugins[p], "Discovered").child = plugins[p].child
        BY <4>1 DEF MoveTo, Entry
      <4> QED
        BY <3>1, <4>1, <4>2 DEF Enter, Move
    <3>3. \A c \in Callers \ { d } : task'[c] = task[c]
      BY <3>1 DEF Enter, TypeInv, TasksOK
    <3>4. next \notin alive
      BY <1>1 DEF Unborn
    <3> QED
      BY <1>1, <1>2, <3>1, <3>2, <3>3, <3>4
  <2>2. ASSUME task[d].pc \in UnbornPcs, task[d].inst = i, ~Spawn(d) PROVE Hidden(i, d)
    <3>1. Unknown(i, d) /\ i \in Instances
      BY <2>2, BusyTask DEF Unborn, UnbornPcs, InstPcs, StartPcs, TypeInv
    <3>2. i \notin alive'
      <4>1. ASSUME NEW c \in Callers, Spawn(c), task[c].inst = i PROVE FALSE
        BY <2>2, <3>1, <4>1 DEF Unknown
      <4> QED
        BY <3>1, <4>1, ProcessesEnd DEF Unknown
    <3>3. ASSUME NEW p \in Plugins, plugins'[p].child = i PROVE FALSE
      <4>1. PICK c \in Callers : StoreChild(c) /\ task[c].inst = i
        BY <1>1, <3>1, <3>3, ChildrenMove DEF Unknown, Instances
      <4> QED
        BY <2>2, <3>1, <4>1 DEF Unknown, StoreChild, At, UnbornPcs
    <3>4. ASSUME NEW c \in Callers \ { d }, task'[c].inst = i PROVE FALSE
      <4>1. task[c].inst # i /\ i < next
        BY <1>2, <2>2, <3>1 DEF Unknown
      <4>2. Step(c)
        BY <3>4, <4>1, OneCaller
      <4> QED
        BY <1>1, <3>1, <3>4, <4>1, <4>2, InstanceMoves DEF Enters, Instances
    <3> QED
      BY <3>2, <3>3, <3>4
  <2>3. CASE task'[d] = task[d]
    <3>1. ~Spawn(d)
      BY <1>8, <2>3, Moved DEF Spawn, At, TypeInv
    <3> QED
      BY <1>8, <2>2, <2>3, <3>1
  <2>4. CASE Step(d) /\ ~Enters(d)
    <3>1. Continues(d) /\ task[d].pc \in UnbornPcs
      BY <1>8, <2>4, CallerMoves
         DEF Continues, Takes, Returns, Leaves, Rest, Successors, UnbornPcs
    <3>2. ~Spawn(d)
      BY <1>8, Moved DEF Spawn, TypeInv, UnbornPcs
    <3> QED
      BY <2>2, <3>1, <3>2 DEF Continues
  <2> QED
    BY <2>1, <2>3, <2>4, OneCaller
<1> QED
  BY <1>4, <1>5, <1>7, <1>8 DEF Unborn, Unknown

\* A caller in the middle of a start.
Starts(c) == task[c].pc \in StartingPcs

\* A start of a plugin known at boot begins behind its flag.
LEMMA BeginsMarked ==
    ASSUME TypeInv, StartInv, NEW c \in Callers, Step(c), ~Starts(c), task'[c].pc \in StartingPcs
    PROVE  /\ c \notin Plugins
           /\ task'[c].plugin = task[c].plugin
           /\ ~plugins[task[c].plugin].starting
<1>1. ~Takes(c) /\ ~Returns(c) /\ ~Enters(c) /\ ~Leaves(c)
  BY DEF Takes, Returns, Leaves, Rest, Enters, Enter, At, Starts, StartingPcs, StartPcs
<1>2. Continues(c) /\ task[c].pc = "guard" /\ task'[c].pc = "enter"
  BY <1>1, CallerMoves DEF Continues, Successors, Starts, StartingPcs, StartPcs
<1>3. SkipStart(c) => task'[c].pc # "enter"
  BY DEF SkipStart, Return, Rest, TypeInv, TasksOK
<1>4. BeginStart(c)
  BY <1>1, <1>2, <1>3, HangUp, MoreActs
<1>5. c \notin Plugins
  BY <1>2 DEF StartInv, BootsAlone, BootRunning, BootPcs, StartPcs
<1> QED
  BY <1>2, <1>4, <1>5 DEF BeginStart, Continues

\* Nobody clears the flag of a start that was given up, and nobody passes it.
LEMMA GoneHoldsStep ==
    TypeInv /\ StartInv /\ Unborn /\ GoneHolds /\ [Next]_vars => GoneHolds'
<1> SUFFICES ASSUME TypeInv, StartInv, Unborn, GoneHolds, [Next]_vars,
                    NEW d \in Callers, task'[d].pc = "gone", task'[d].inst # NoInst,
                    task'[d].plugin \in BootPlugins
             PROVE  /\ plugins'[task'[d].plugin].starting
                    /\ \A c \in Callers : task'[c].plugin = task'[d].plugin
                          => task'[c].pc \notin StartingPcs
  BY DEF GoneHolds
<1> DEFINE p == task'[d].plugin
<1>1. p \in Plugins
  BY PluginsAssumption
<1>2. CASE task'[d] = task[d]
  <2>1. /\ plugins[p].starting
        /\ \A c \in Callers : task[c].plugin = p => ~Starts(c)
    BY <1>2 DEF GoneHolds, Starts
  <2>2. plugins'[p].starting
    <3>1. ASSUME NEW c \in Callers, task[c].plugin = p, BeginStart(c) \/ FinishStart(c)
          PROVE  FALSE
      BY <2>1, <3>1 DEF BeginStart, FinishStart, At, Starts, StartingPcs, StartPcs
    <3> QED
      BY <1>1, <2>1, <3>1, FlagFrame
  <2>3. ASSUME NEW c \in Callers, task'[c].plugin = p, task'[c].pc \in StartingPcs
        PROVE  FALSE
    <3>1. CASE task'[c] = task[c]
      BY <2>1, <2>3, <3>1 DEF Starts
    <3>2. CASE Step(c) /\ ~Starts(c)
      BY <2>1, <2>3, <3>2, BeginsMarked
    <3>3. CASE Step(c) /\ Starts(c)
      <4>1. ~Takes(c) /\ ~Returns(c)
        BY <2>3 DEF Takes, Returns, Rest, StartingPcs, StartPcs
      <4>2. task'[c].plugin = task[c].plugin
        BY <3>3, <4>1, CallerMoves DEF Continues, Enters, Leaves
      <4> QED
        BY <2>1, <2>3, <3>3, <4>2
    <3> QED
      BY <3>1, <3>2, <3>3, OneCaller
  <2> QED
    BY <2>2, <2>3
<1>3. CASE Step(d) /\ task[d].pc # "gone"
  <2>1. Leaves(d)
    BY <1>3, CallerMoves DEF Continues, Takes, Enters, Returns, Rest, Successors
  <2>2. /\ task[d].plugin = p /\ task[d].inst = task'[d].inst /\ d \in Operators
        /\ task[d].pc \notin IdlePcs
    BY <2>1 DEF Leaves, Unborn
  <2>3. Starts(d)
    <3>1. task[d].pc \in TaskPcs
      BY DEF TypeInv, TasksOK, Task
    <3> QED
      BY <1>3, <2>2, <3>1 DEF Starts, StartingPcs, StartPcs, IdlePcs, TaskPcs
  <2>4. plugins[p].starting
    BY <2>2, <2>3, CallersAssumption DEF StartInv, Marked, Starts
  <2>5. plugins'[p].starting
    <3>1. ASSUME NEW c \in Callers, task[c].plugin = p, FinishStart(c) PROVE FALSE
      <4>1. task[c].pc \in StartingPcs
        BY <3>1 DEF FinishStart, At, StartingPcs, StartPcs
      <4>2. c = d
        BY <2>2, <2>3, <3>1, <4>1 DEF StartInv, OneStart, Starts
      <4> QED
        BY <3>1, <4>2 DEF FinishStart, Return, Rest, TypeInv, TasksOK
    <3>2. ASSUME NEW c \in Callers, task[c].plugin = p, BeginStart(c) PROVE FALSE
      BY <2>4, <3>2 DEF BeginStart
    <3> QED
      BY <1>1, <2>4, <3>1, <3>2, FlagFrame
  <2>6. \A c \in Callers \ { d } : task'[c] = task[c]
    BY <1>3, StepFrame
  <2>7. ASSUME NEW c \in Callers, task'[c].plugin = p, task'[c].pc \in StartingPcs
        PROVE  FALSE
    <3>1. c # d /\ task'[c] = task[c]
      BY <2>6, <2>7 DEF StartingPcs, StartPcs
    <3> QED
      BY <2>2, <2>3, <2>7, <3>1 DEF StartInv, OneStart, Starts
  <2> QED
    BY <2>5, <2>7
<1>4. task[d].pc = "gone" => ~Step(d)
  BY PcActs DEF HangsUp, Disconnect, DisconnectInDrain, At
<1> QED
  BY <1>2, <1>3, <1>4, OneCaller

\* The process of a start is the only one of its plugin.
LEMMA SoleStep ==
    /\ TypeInv /\ StartInv /\ Reaped /\ Unborn /\ GoneHolds /\ OneProcess /\ [Next]_vars
    => OneProcess'
<1> SUFFICES ASSUME TypeInv, StartInv, Reaped, Unborn, GoneHolds, OneProcess, [Next]_vars,
                    NEW p \in BootPlugins
             PROVE  \A i, j \in Processes(p)' : i = j
  BY DEF OneProcess
<1> DEFINE Known(i) == \/ plugins[p].child = i
                       \/ \E c \in Callers : task[c].plugin = p /\ task[c].inst = i
           KnownNext(i) == \/ plugins'[p].child = i
                           \/ \E c \in Callers : task'[c].plugin = p /\ task'[c].inst = i
<1>1. p \in Plugins /\ NoInst \notin alive' /\ NoInst \notin alive
  BY PluginsAssumption, NextType DEF TypeInv, CountersOK, Instances, NoInst
<1>2. ASSUME NEW i \in alive', KnownNext(i) PROVE Known(i)
  <2>1. i \in alive \/ \E c \in Callers : Spawn(c) /\ i = task[c].inst
    BY ProcessesEnd
  <2>2. i # NoInst /\ i < next /\ i \in Nat
    <3>1. next \in Nat /\ alive' \subseteq Nat
      BY NextType DEF TypeInv, CountersOK, Instances
    <3> QED
      BY <1>1, <2>1, <3>1 DEF Unborn
  <2>3. CASE plugins'[p].child = i
    BY <1>1, <2>2, <2>3, ChildrenMove
  <2>4. ASSUME NEW c \in Callers, task'[c].plugin = p, task'[c].inst = i PROVE Known(i)
    <3>1. CASE task'[c] = task[c]
      BY <2>4, <3>1
    <3>2. CASE Step(c)
      <4>1. ~Enters(c)
        BY <2>2, <2>4 DEF Enters
      <4>2. task[c].inst = i
        BY <2>2, <2>4, <3>2, <4>1, InstanceMoves
      <4>3. task[c].pc \notin IdlePcs
        BY <2>2, <4>2 DEF Unborn
      <4>4. task[c].plugin = p
        <5>1. ~Takes(c)
          BY <4>3 DEF Takes, IdlePcs
        <5>2. ~Returns(c)
          BY <1>1, <2>4, PluginsAssumption DEF Returns, Rest
        <5> QED
          BY <2>4, <3>2, <4>1, <5>1, <5>2, CallerMoves DEF Continues, Leaves
      <4> QED
        BY <4>2, <4>4
    <3> QED
      BY <3>1, <3>2, OneCaller
  <2> QED
    BY <1>2, <2>3, <2>4
<1>3. CASE alive' \subseteq alive
  BY <1>2, <1>3 DEF OneProcess, Processes
<1>4. ASSUME NEW c \in Callers, Spawn(c), Step(c), alive' = alive \cup { task[c].inst },
             NEW i \in alive', KnownNext(i), NEW j \in alive', KnownNext(j)
      PROVE  i = j
  <2> DEFINE new == task[c].inst
  <2>1. Known(i) /\ Known(j)
    BY <1>2, <1>4
  <2>2. task[c].pc = "spawn" /\ Unknown(new, c)
    BY <1>4 DEF Spawn, At, Unborn, UnbornPcs
  <2>3. CASE task[c].plugin # p
    <3>1. ~Known(new)
      BY <1>1, <2>2, <2>3 DEF Unknown
    <3>2. i \in alive /\ j \in alive
      BY <1>4, <2>1, <3>1
    <3> QED
      BY <2>1, <3>2 DEF OneProcess, Processes
  <2>4. CASE task[c].plugin = p
    <3>1. ASSUME NEW k \in alive, Known(k) PROVE FALSE
      <4>1. plugins[p].child = NoInst
        BY <2>2, <2>4 DEF Reaped
      <4>2. PICK d \in Callers : task[d].plugin = p /\ task[d].inst = k
        BY <1>1, <3>1, <4>1
      <4>3. k # NoInst /\ task[d].pc \notin IdlePcs /\ task[d].pc \in TaskPcs
        <5>1. task[d] \in Task
          BY DEF TypeInv, TasksOK
        <5>2. \A t \in Task : t.pc \in TaskPcs
          BY DEF Task
        <5> QED
          BY <1>1, <3>1, <4>2, <5>1, <5>2 DEF Unborn
      <4>4. c # d
        BY <2>2, <3>1, <4>2 DEF Unknown
      <4>5. ~Starts(d)
        BY <2>2, <2>4, <4>2, <4>4 DEF StartInv, OneStart, Starts, StartingPcs, StartPcs
      <4>6. task[d].pc = "gone"
        BY <4>3, <4>5 DEF Starts, StartingPcs, StartPcs, IdlePcs, TaskPcs
      <4> QED
        BY <2>2, <2>4, <4>2, <4>3, <4>6 DEF GoneHolds, StartingPcs, StartPcs
    <3> QED
      BY <1>4, <2>1, <3>1
  <2> QED
    BY <2>3, <2>4
<1> QED
  BY <1>3, <1>4, ProcessesEnd DEF Processes

\* No restart, failure or hang-up ever leaves two processes of a plugin known at boot
\* running that the manager, or a start it is in the middle of, knows of.
THEOREM NeverTwice == Spec => []OneProcess
<1>1. Init => Unborn /\ GoneHolds /\ OneProcess
  <2> SUFFICES ASSUME Init PROVE Unborn /\ GoneHolds /\ OneProcess
    OBVIOUS
  <2>1. ASSUME NEW c \in Callers
        PROVE  task[c].inst = NoInst /\ task[c].pc \in { "enter", "idle", "done" }
    BY DEF Init, Rest
  <2>2. /\ alive = {} /\ next = 1 /\ NoInst = 0
        /\ \A p \in Plugins : plugins[p].child = NoInst
    BY DEF Init, NoInst
  <2>3. Unborn
    BY <2>1, <2>2 DEF Unborn, UnbornPcs
  <2>4. GoneHolds
    BY <2>1 DEF GoneHolds
  <2>5. OneProcess
    BY <2>2 DEF OneProcess, Processes
  <2> QED
    BY <2>3, <2>4, <2>5
<1> QED
  BY <1>1, OwnedInit, OwnedStep, UnbornStep, GoneHoldsStep, SoleStep, TypeInvariance, PTL
     DEF Spec, Owned

-----------------------------------------------------------------------------
(* The manager implements Supervisor.                                      *)

\* The greatest of a set of instances, and whether it has one.
Greatest(S) == IF S = {} THEN NoInst ELSE CHOOSE i \in S : \A j \in S : j <= i
IsGreatest(i, S) == i \in S /\ \A j \in S : j <= i

\* The labels of a start that has its instance, and is not on the bus yet.
UnconnectedPcs == { "insert", "reap", "spawn", "store", "dial", "handshake", "stash",
                    "register", "connect" }

\* An instance comes up after those before it, and is the newest when it advertises.
InOrder ==
    /\ \A p \in BootPlugins : \A j \in ConnectedOf(p) : j < next
    /\ \A p \in BootPlugins :
          ConnectedOf(p) = {} \/ \E i \in Instances : IsGreatest(i, ConnectedOf(p))
    /\ \A c \in Callers :
          task[c].plugin \in BootPlugins /\ task[c].pc \in UnconnectedPcs
             => \A j \in ConnectedOf(task[c].plugin) : j < task[c].inst
    /\ \A c \in Callers :
          task[c].plugin \in BootPlugins /\ task[c].pc = "advertise"
             => IsGreatest(task[c].inst, ConnectedOf(task[c].plugin))
    /\ \A c \in Callers :
          task[c].pc \in { "connect", "advertise" } => task[c].todo \subseteq CapsOf[task[c].plugin]

\* There is but one.
LEMMA GreatestIs ==
    ASSUME NEW S \in SUBSET Instances, NEW i \in Instances, IsGreatest(i, S)
    PROVE  Greatest(S) = i
<1>1. Instances \subseteq Nat
  BY DEF Instances
<1>2. \A k \in S : (\A j \in S : j <= k) => k = i
  BY <1>1 DEF IsGreatest
<1> QED
  BY <1>2 DEF Greatest, IsGreatest

\* What a step does to the bus and to the registry.
LEMMA Supplies ==
    ASSUME TypeInv, [Next]_vars
    PROVE  \/ conns' = conns /\ registry' = registry
           \/ \E c \in Callers : Step(c) /\ (Connect(c) \/ Advertise(c))
           \/ conns' = conns /\ \E ps \in SUBSET Plugins : Deregister(ps)
<1>1. \A ps : RemoveConnection(ps) => conns' = conns
  BY DEF RemoveConnection, TypeInv, BusOK, NoInst, Instances
<1>2. ASSUME NEW c \in Callers, Step(c), ~Connect(c), ~Advertise(c)
      PROVE  \/ conns' = conns /\ registry' = registry
             \/ conns' = conns /\ \E ps \in SUBSET Plugins : Deregister(ps)
  <2>1. CASE Drain(c) \/ DisconnectInDrain(c)
    <3>1. task[c].plugin \in Plugins
      BY <2>1, BusyTask DEF Drain, DisconnectInDrain, At, TypeInv
    <3>2. conns' = conns
      BY <1>1, <2>1 DEF Drain, DisconnectInDrain
    <3> QED
      BY <2>1, <3>1, <3>2 DEF Drain, DisconnectInDrain
  <2> QED
    BY <1>2, <2>1
       DEF Step, Start, SkipStart, BeginStart, FinishStart, Enter, Insert, Reap, Spawn,
         SpawnFails, StoreChild, Dial, DialFails, Handshake, StashChannel, RegisterRpc,
         RegisterFails, Announce, Monitor, TakeRequest, Restart, RestartRequested,
         NewManifest, ManifestChanged, SeenStuck, Request, RestartRefused,
         RestartAccepted, RetryWatch, Disconnect
<1>3. ASSUME NEW i \in Instances, Check(i) \/ Die(i)
      PROVE  \/ conns' = conns /\ registry' = registry
             \/ conns' = conns /\ \E ps \in SUBSET Plugins : Deregister(ps)
  <2>1. CASE CrashDeregister(i)
    <3>1. loops[i].plugin \in Plugins
      BY <2>1 DEF CrashDeregister, LoopAt, TypeInv, LoopsOK, GoodLoop
    <3> QED
      BY <1>1, <2>1, <3>1 DEF CrashDeregister
  <2> QED
    BY <1>3, <2>1 DEF Check, Tick, Reply, NoReply, Healthy, Unhealthy, Crash, CrashSend, Die
<1>4. ASSUME Shutdown
      PROVE  \/ conns' = conns /\ registry' = registry
             \/ conns' = conns /\ \E ps \in SUBSET Plugins : Deregister(ps)
  BY <1>1, <1>4 DEF Shutdown, NameAll, MarkAll, DrainAll, KillAll, Exit, TypeInv, PhaseOK
<1> QED
  BY <1>2, <1>3, <1>4 DEF Next, vars

\* At these labels, too, there is one thing a caller can do.
LEMMA RegisterActs ==
    ASSUME NEW c \in Callers, Step(c), ~HangsUp(c)
    PROVE  /\ task[c].pc = "register" => RegisterRpc(c) \/ RegisterFails(c)
           /\ task[c].pc = "advertise" => Advertise(c)
BY DEF Step, Start, SkipStart, BeginStart, FinishStart, Enter, Insert, Reap, Spawn,
       SpawnFails, StoreChild, Dial, DialFails, Handshake, StashChannel, RegisterRpc,
       RegisterFails, Advertise, TakeRequest, Restart, RestartRequested, NewManifest,
       ManifestChanged, SeenStuck, Request, RestartRefused, RestartAccepted,
       RetryWatch, Connect, Announce, Monitor, Drain, At, HangsUp

\* A start advertises what the plugin's reply listed, and less and less of it.
LEMMA TodoShrinks ==
    ASSUME TypeInv, NEW c \in Callers, Step(c), task'[c].pc \in { "connect", "advertise" }
    PROVE  /\ task'[c].plugin = task[c].plugin
           /\ \/ task'[c].todo = CapsOf[task[c].plugin]
              \/ /\ task[c].pc \in { "connect", "advertise" }
                 /\ task'[c].todo \subseteq task[c].todo
<1>1. TasksOK /\ task[c] \in Task
  BY DEF TypeInv, TasksOK
<1>2. ~Leaves(c) /\ ~Takes(c) /\ ~Enters(c) /\ ~Returns(c)
  BY DEF Leaves, Takes, Enters, Returns, Rest
<1>3. Continues(c) /\ task[c].pc \in { "register", "connect", "advertise" }
  BY <1>2, CallerMoves DEF Continues, Successors
<1>4. ~HangsUp(c)
  BY <1>2, HangUp
<1>5. CASE task[c].pc = "register"
  <2>1. ~RegisterFails(c)
    BY <1>1, Moved DEF RegisterFails, FailStart, Returns, Rest
  <2>2. RegisterRpc(c)
    BY <1>4, <1>5, <2>1, RegisterActs
  <2>3. task'[c] = [task[c] EXCEPT !.pc = "connect", !.todo = CapsOf[task[c].plugin]]
    BY <1>1, <2>2 DEF RegisterRpc, TasksOK
  <2> QED
    BY <1>1, <1>3, <2>3 DEF Continues, Task
<1>6. CASE task[c].pc = "connect"
  <2>1. PICK pc : task'[c] = [task[c] EXCEPT !.pc = pc]
    BY <1>1, <1>4, <1>6, PcActs DEF Connect, Goto, TasksOK
  <2> QED
    BY <1>1, <1>3, <1>6, <2>1 DEF Continues, Task
<1>7. CASE task[c].pc = "advertise"
  <2>1. Advertise(c)
    BY <1>4, <1>7, RegisterActs
  <2>2. PICK cap : task' = [task EXCEPT
                      ![c].todo = @ \ { cap },
                      ![c].pc = IF task[c].todo = { cap } THEN "ready" ELSE @]
    BY <2>1 DEF Advertise
  <2>3. task'[c] = [task[c] EXCEPT !.todo = @ \ { cap },
                      !.pc = IF task[c].todo = { cap } THEN "ready" ELSE @]
    BY <1>1, <2>2 DEF TasksOK
  <2> QED
    BY <1>1, <1>3, <1>7, <2>3 DEF Continues, Task
<1> QED
  BY <1>3, <1>5, <1>6, <1>7

\* Ids grow, and a plugin has one start at a time that could connect.
LEMMA InOrderStep ==
    TypeInv /\ StartInv /\ Unborn /\ InOrder /\ [Next]_vars => InOrder'
<1> SUFFICES ASSUME TypeInv, StartInv, Unborn, InOrder, [Next]_vars PROVE InOrder'
  OBVIOUS
<1> DEFINE OnNext(p) == { i \in Instances : << p, i >> \in conns' }
<1>1. next \in Nat /\ Instances \subseteq Nat /\ (next' = next \/ next' = next + 1)
  <2>1. next \in Nat /\ Instances \subseteq Nat
    BY DEF TypeInv, CountersOK, Instances
  <2>2. next' = next \/ next' = next + 1
    BY OneCaller DEF Enter
  <2> QED
    BY <2>1, <2>2
<1>2. ASSUME NEW p
      PROVE  ConnectedOf(p) \subseteq Instances
  BY DEF ConnectedOf
<1>3. ASSUME NEW p \in BootPlugins, NEW c \in Callers, Step(c), Connect(c), task[c].plugin = p
      PROVE  /\ OnNext(p) = ConnectedOf(p) \cup { task[c].inst }
             /\ task[c].inst \in Instances /\ task[c].inst < next
             /\ IsGreatest(task[c].inst, OnNext(p))
  <2>1. task[c].pc = "connect" /\ task[c].inst \in Instances /\ task[c].inst < next
    BY <1>3, BusyTask DEF Connect, At, TypeInv, InstPcs, StartPcs, Unborn
  <2>2. OnNext(p) = ConnectedOf(p) \cup { task[c].inst }
    BY <1>3, <2>1 DEF Connect, ConnectedOf
  <2>3. \A j \in ConnectedOf(p) : j < task[c].inst
    BY <1>3, <2>1 DEF InOrder, UnconnectedPcs
  <2>4. ASSUME NEW j \in OnNext(p) PROVE j <= task[c].inst
    <3>1. j \in Nat /\ task[c].inst \in Nat
      BY <1>1, <2>1
    <3>2. j \in ConnectedOf(p) \/ j = task[c].inst
      BY <2>2
    <3> QED
      BY <2>3, <3>1, <3>2
  <2> QED
    BY <2>1, <2>2, <2>4 DEF IsGreatest
<1>4. ASSUME NEW p \in BootPlugins, ~\E c \in Callers : Step(c) /\ Connect(c) /\ task[c].plugin = p
      PROVE  OnNext(p) = ConnectedOf(p)
  <2>1. CASE conns' = conns
    BY <2>1 DEF ConnectedOf
  <2>2. ASSUME NEW c \in Callers, Step(c), Connect(c) PROVE OnNext(p) = ConnectedOf(p)
    BY <1>4, <2>2 DEF Connect, ConnectedOf
  <2> QED
    BY <2>1, <2>2, Supplies DEF Advertise
<1>5. ASSUME NEW p \in BootPlugins
      PROVE  /\ \A j \in OnNext(p) : j < next'
             /\ \/ OnNext(p) = {}
                \/ \E i \in Instances : IsGreatest(i, OnNext(p))
  <2>1. ASSUME NEW c \in Callers, Step(c), Connect(c), task[c].plugin = p
        PROVE  \A j \in OnNext(p) : j < next
    BY <1>3, <2>1 DEF InOrder
  <2>2. \A j \in OnNext(p) : j < next
    BY <1>4, <2>1 DEF InOrder
  <2>3. \A j \in OnNext(p) : j \in Nat
    BY <1>1 DEF ConnectedOf
  <2>4. \/ OnNext(p) = {}
        \/ \E i \in Instances : IsGreatest(i, OnNext(p))
    <3>1. CASE \E c \in Callers : Step(c) /\ Connect(c) /\ task[c].plugin = p
      BY <1>3, <3>1
    <3>2. CASE ~\E c \in Callers : Step(c) /\ Connect(c) /\ task[c].plugin = p
      <4>1. OnNext(p) = ConnectedOf(p)
        BY <1>4, <3>2
      <4> HIDE DEF OnNext
      <4> QED
        BY <4>1 DEF InOrder
    <3> QED
      BY <3>1, <3>2
  <2> QED
    BY <1>1, <2>2, <2>3, <2>4
<1>6. ASSUME NEW d \in Callers, task'[d].plugin \in BootPlugins, task'[d].pc \in UnconnectedPcs
      PROVE  \A j \in OnNext(task'[d].plugin) : j < task'[d].inst
  <2> DEFINE p == task'[d].plugin
  <2>1. CASE Step(d) /\ Enters(d)
    <3>1. OnNext(p) = ConnectedOf(p)
      BY <2>1 DEF Enters, Enter, ConnectedOf
    <3> QED
      BY <1>6, <2>1, <3>1 DEF Enters, InOrder
  <2>2. ASSUME task[d].pc \in UnconnectedPcs, task[d].plugin = p, task[d].inst = task'[d].inst
        PROVE  \A j \in OnNext(p) : j < task'[d].inst
    <3>1. ASSUME NEW c \in Callers, Step(c), Connect(c), task[c].plugin = p PROVE FALSE
      <4>1. c = d
        BY <1>6, <2>2, <3>1
           DEF StartInv, OneStart, Connect, At, StartingPcs, StartPcs, UnconnectedPcs
      <4> QED
        BY <1>6, <3>1, <4>1, Moved DEF Connect, UnconnectedPcs, TypeInv
    <3>2. OnNext(p) = ConnectedOf(p)
      BY <1>4, <1>6, <3>1
    <3> QED
      BY <1>6, <2>2, <3>2 DEF InOrder
  <2>3. CASE Step(d) /\ ~Enters(d)
    <3>1. ~Takes(d) /\ ~Returns(d) /\ ~Leaves(d)
      BY <1>6 DEF Takes, Returns, Rest, Leaves, UnconnectedPcs
    <3>2. Continues(d)
      BY <2>3, <3>1, CallerMoves
    <3>3. task[d].pc \in UnconnectedPcs
      BY <1>6, <3>2 DEF Continues, Successors, UnconnectedPcs
    <3> QED
      BY <2>2, <3>2, <3>3 DEF Continues
  <2> QED
    BY <1>6, <2>1, <2>2, <2>3, OneCaller
<1>7. ASSUME NEW d \in Callers, task'[d].plugin \in BootPlugins, task'[d].pc = "advertise"
      PROVE  IsGreatest(task'[d].inst, OnNext(task'[d].plugin))
  <2> DEFINE p == task'[d].plugin
  <2>1. ASSUME task[d].pc = "advertise", task[d].plugin = p, task[d].inst = task'[d].inst
        PROVE  IsGreatest(task'[d].inst, OnNext(p))
    <3>1. ASSUME NEW c \in Callers, Step(c), Connect(c), task[c].plugin = p PROVE FALSE
      <4>1. c = d
        BY <1>7, <2>1, <3>1 DEF StartInv, OneStart, Connect, At, StartingPcs, StartPcs
      <4> QED
        BY <2>1, <3>1, <4>1 DEF Connect, At
    <3>2. OnNext(p) = ConnectedOf(p)
      BY <1>4, <1>7, <3>1
    <3> QED
      BY <1>7, <2>1, <3>2 DEF InOrder
  <2>2. CASE Step(d)
    <3>1. /\ task'[d].plugin = task[d].plugin /\ task'[d].inst = task[d].inst
          /\ Connect(d) \/ task[d].pc = "advertise"
      BY <1>7, <2>2, ToAdvertise
    <3> QED
      BY <1>3, <1>7, <2>1, <2>2, <3>1
  <2> QED
    BY <1>7, <2>1, <2>2, OneCaller
<1>8. ASSUME NEW d \in Callers, task'[d].pc \in { "connect", "advertise" }
      PROVE  task'[d].todo \subseteq CapsOf[task'[d].plugin]
  <2>1. CASE task'[d] = task[d]
    BY <1>8, <2>1 DEF InOrder
  <2>2. CASE Step(d)
    BY <1>8, <2>2, TodoShrinks DEF InOrder
  <2> QED
    BY <2>1, <2>2, OneCaller
<1> QED
  BY <1>5, <1>6, <1>7, <1>8 DEF InOrder, ConnectedOf

\* The invariant that places the manager's steps in Supervisor.
OrderInv == TypeInv /\ StartInv /\ Unborn /\ InOrder

\* What Supervisor sees of the manager.
NewestSeen == [ p \in BootPlugins |-> NewestOf(p) ]
OfferedSeen == { h \in registry : h.plugin \in BootPlugins }

\* The instance of a start that advertises is the newest.
LEMMA NewestIs ==
    ASSUME OrderInv, NEW p \in BootPlugins, NEW i \in Instances, IsGreatest(i, ConnectedOf(p))
    PROVE  NewestOf(p) = i
BY GreatestIs DEF NewestOf, ConnectedOf, Greatest

\* A connection that comes is a newer instance of its plugin, the only thing to change.
LEMMA ConnectSeen ==
    ASSUME OrderInv, OrderInv', NEW c \in Callers, Step(c), Connect(c)
    PROVE  [Outside!Next]_(Outside!vars)
<1> DEFINE p == task[c].plugin
           i == task[c].inst
           OnNext(q) == { j \in Instances : << q, j >> \in conns' }
<1>1. task[c].pc = "connect" /\ i \in Instances /\ p \in Plugins
  BY BusyTask DEF Connect, At, OrderInv, TypeInv, InstPcs, StartPcs
<1>2. \A q \in BootPlugins \ { p } : OnNext(q) = ConnectedOf(q)
  BY DEF Connect, ConnectedOf
<1>3. /\ NewestSeen = [ q \in BootPlugins |-> Greatest(ConnectedOf(q)) ]
      /\ NewestSeen' = [ q \in BootPlugins |-> Greatest(OnNext(q)) ]
  BY DEF NewestSeen, NewestOf, ConnectedOf, Greatest
<1>4. OfferedSeen' = OfferedSeen
  BY DEF Connect, OfferedSeen
<1>5. CASE p \notin BootPlugins
  <2>1. NewestSeen' = NewestSeen
    BY <1>2, <1>3, <1>5
  <2> QED
    BY <1>4, <2>1 DEF Outside!vars, NewestSeen, OfferedSeen
<1>6. CASE p \in BootPlugins
  <2>1. /\ OnNext(p) = ConnectedOf(p) \cup { i }
        /\ \A j \in ConnectedOf(p) : j < i
    BY <1>1, <1>6 DEF Connect, ConnectedOf, OrderInv, InOrder, UnconnectedPcs
  <2>2. Instances \subseteq Nat \ { 0 } /\ NoInst = 0
    BY DEF Instances, NoInst
  <2>3. Greatest(OnNext(p)) = i
    <3>1. IsGreatest(i, OnNext(p))
      <4>1. ASSUME NEW j \in OnNext(p) PROVE j <= i
        <5>1. j \in Nat /\ i \in Nat /\ (j \in ConnectedOf(p) \/ j = i)
          BY <1>1, <2>1, <2>2
        <5> QED
          BY <2>1, <5>1
      <4> QED
        BY <1>1, <2>1, <4>1 DEF IsGreatest
    <3>2. OnNext(p) \in SUBSET Instances
      OBVIOUS
    <3> HIDE DEF OnNext
    <3> QED
      BY <1>1, <3>1, <3>2, GreatestIs
  <2>4. Greatest(ConnectedOf(p)) < i
    <3>1. CASE ConnectedOf(p) = {}
      BY <1>1, <2>2, <3>1 DEF Greatest
    <3>2. ASSUME NEW k \in Instances, IsGreatest(k, ConnectedOf(p))
          PROVE  Greatest(ConnectedOf(p)) < i
      <4>1. ConnectedOf(p) \in SUBSET Instances
        BY DEF ConnectedOf
      <4> QED
        BY <2>1, <3>2, <4>1, GreatestIs DEF IsGreatest
    <3>3. ConnectedOf(p) = {} \/ \E k \in Instances : IsGreatest(k, ConnectedOf(p))
      BY <1>6 DEF OrderInv, InOrder
    <3> QED
      BY <3>1, <3>2, <3>3
  <2>5. NewestSeen'[p] = i /\ NewestSeen[p] < i
    BY <1>3, <1>6, <2>3, <2>4
  <2>6. NewestSeen' = [NewestSeen EXCEPT ![p] = i]
    <3> HIDE DEF OnNext
    <3> QED
      BY <1>2, <1>3, <1>6, <2>3
  <2>7. Outside!ComesUp(p)
    <3>1. /\ NewestSeen'[p] > NewestSeen[p]
          /\ NewestSeen' = [NewestSeen EXCEPT ![p] = NewestSeen'[p]]
      BY <1>1, <1>3, <1>6, <2>2, <2>5, <2>6
    <3> QED
      BY <1>4, <3>1 DEF Outside!ComesUp, NewestSeen, OfferedSeen
  <2> QED
    BY <1>6, <2>7 DEF Outside!Next
<1> QED
  BY <1>5, <1>6

\* A capability that is advertised is one of the plugin's, under its newest instance.
LEMMA AdvertiseSeen ==
    ASSUME OrderInv, NEW c \in Callers, Step(c), Advertise(c)
    PROVE  [Outside!Next]_(Outside!vars)
<1> DEFINE p == task[c].plugin
           i == task[c].inst
<1>1. task[c].pc = "advertise" /\ i \in Instances /\ p \in Plugins
  BY BusyTask DEF Advertise, At, OrderInv, TypeInv, InstPcs, StartPcs
<1>2. NewestSeen' = NewestSeen
  BY DEF Advertise, NewestSeen, NewestOf, ConnectedOf
<1>3. PICK cap \in task[c].todo :
         registry' = registry \cup { [ cap |-> cap, plugin |-> p, inst |-> i ] }
  BY DEF Advertise
<1>4. CASE p \notin BootPlugins
  <2>1. OfferedSeen' = OfferedSeen
    BY <1>3, <1>4 DEF OfferedSeen
  <2> QED
    BY <1>2, <2>1 DEF Outside!vars, NewestSeen, OfferedSeen
<1>5. CASE p \in BootPlugins
  <2>1. NewestSeen[p] = i /\ i > 0
    <3>1. NewestOf(p) = i
      BY <1>1, <1>5, NewestIs DEF OrderInv, InOrder
    <3> QED
      BY <1>1, <1>5, <3>1 DEF NewestSeen, Instances
  <2>2. cap \in CapsOf[p]
    BY <1>1, <1>3 DEF OrderInv, InOrder
  <2>3. OfferedSeen' = OfferedSeen \cup { [ cap |-> cap, plugin |-> p, inst |-> i ] }
    BY <1>3, <1>5 DEF OfferedSeen
  <2>4. \E k \in CapsOf[p] :
           OfferedSeen' = OfferedSeen \cup { [ cap |-> k, plugin |-> p, inst |-> NewestSeen[p] ] }
    BY <2>1, <2>2, <2>3
  <2>5. PICK q \in BootPlugins : q = p
    BY <1>5
  <2>6. Outside!Advertises(q)
    BY <1>2, <2>1, <2>4, <2>5 DEF Outside!Advertises, NewestSeen, OfferedSeen
  <2> QED
    BY <2>6 DEF Outside!Next
<1> QED
  BY <1>4, <1>5

\* Deregister withdraws the plugins it is given.
LEMMA DeregisterSeen ==
    ASSUME conns' = conns, NEW ps \in SUBSET Plugins, Deregister(ps)
    PROVE  Outside!Next
<1> DEFINE gone == ps \cap BootPlugins
<1>1. NewestSeen' = NewestSeen
  BY DEF NewestSeen, NewestOf, ConnectedOf
<1>2. OfferedSeen' = { h \in OfferedSeen : h.plugin \notin gone }
  BY DEF Deregister, OfferedSeen
<1>3. Outside!Withdraws(gone)
  BY <1>1, <1>2 DEF Outside!Withdraws, NewestSeen, OfferedSeen
<1> QED
  BY <1>3 DEF Outside!Next

\* The manager implements Supervisor: whatever starts, crashes, hangs up or shuts down
\* when, instances come up one after the other, only the newest is advertised, with
\* capabilities of its plugin, and a plugin is withdrawn as a whole.
THEOREM ManagerSupplies == Spec => SuppliesInOrder
<1>1. Init => InOrder /\ Unborn /\ Outside!Init
  <2> SUFFICES ASSUME Init PROVE InOrder /\ Unborn /\ Outside!Init
    OBVIOUS
  <2>1. ASSUME NEW c \in Callers
        PROVE  task[c].inst = NoInst /\ task[c].pc \in { "enter", "idle", "done" }
    BY DEF Init, Rest
  <2>2. \A p : ConnectedOf(p) = {}
    BY DEF Init, ConnectedOf
  <2>3. InOrder
    BY <2>1, <2>2 DEF InOrder, UnconnectedPcs
  <2>4. NewestSeen \in [ BootPlugins -> Nat ] /\ OfferedSeen = {}
    BY <2>2 DEF Init, NewestSeen, NewestOf, OfferedSeen, NoInst
  <2>5. Outside!Init
    BY <2>4 DEF Outside!Init, NewestSeen, OfferedSeen
  <2>6. Unborn
    <3>1. alive = {} /\ next = 1 /\ NoInst = 0 /\ \A p \in Plugins : plugins[p].child = NoInst
      BY DEF Init, NoInst
    <3> QED
      BY <2>1, <3>1 DEF Unborn, UnbornPcs
  <2> QED
    BY <2>3, <2>5, <2>6
<1>2. OrderInv /\ OrderInv' /\ [Next]_vars => [Outside!Next]_(Outside!vars)
  <2> SUFFICES ASSUME OrderInv, OrderInv', [Next]_vars PROVE [Outside!Next]_(Outside!vars)
    OBVIOUS
  <2>1. CASE conns' = conns /\ registry' = registry
    <3>1. NewestSeen' = NewestSeen /\ OfferedSeen' = OfferedSeen
      BY <2>1 DEF NewestSeen, NewestOf, ConnectedOf, OfferedSeen
    <3> QED
      BY <3>1 DEF Outside!vars, NewestSeen, OfferedSeen
  <2> QED
    BY <2>1, Supplies, ConnectSeen, AdvertiseSeen, DeregisterSeen DEF OrderInv
<1>3. OrderInv /\ [Next]_vars => OrderInv'
  BY NextType, BootsAloneStep, MarkedStep, OneStartStep, UnbornStep, InOrderStep
     DEF OrderInv, StartInv
<1>4. Init => OrderInv
  BY <1>1, InitType, StartInvInit DEF OrderInv
<1> QED
  BY <1>1, <1>2, <1>3, <1>4, PTL DEF Spec, SuppliesInOrder, Outside!Spec
=============================================================================
