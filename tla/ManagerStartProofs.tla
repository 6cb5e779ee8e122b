------------------------- MODULE ManagerStartProofs -------------------------
(***************************************************************************)
(* Mutual exclusion of the starts of a plugin.  The starting flag guards   *)
(* the starts that start_one makes, and nothing but the order of the       *)
(* daemon's boot guards the one that start_all makes: nobody else has the  *)
(* plugin in hand before its boot task is done.                            *)
(***************************************************************************)
EXTENDS ManagerSafetyProofs

BootPcs == StartPcs \ { "guard", "finish" }
BootRunning(p) == task[p].pc # "done"

\* While the boot task of a plugin is at work, no caller, request or loop is about
\* that plugin; and the task does not end before the entry exists.
BootsAlone ==
    /\ \A p \in Plugins : BootRunning(p) =>
          p \in BootPlugins /\ task[p].plugin = p /\ task[p].pc \in BootPcs
    /\ \A p \in BootPlugins : BootRunning(p) =>
          /\ \A c \in Callers \ { p } : task[c].plugin # p
          /\ \A n \in DOMAIN queue : queue[n] # p
          /\ \A i \in Instances : loops[i].plugin # p
    /\ \A p \in BootPlugins :
          task[p].pc \in { "enter", "insert" } \/ State(p) # Absent

\* Every other start holds the flag.
Marked ==
    \A c \in Callers \ Plugins :
        task[c].pc \in StartingPcs /\ task[c].plugin \in BootPlugins
            => plugins[task[c].plugin].starting

StartInv == BootsAlone /\ Marked /\ OneStart

-----------------------------------------------------------------------------
(* What the steps do to the variables the invariant is about.              *)

\* At these labels there is one thing a caller can do.
LEMMA MoreActs ==
    ASSUME NEW c \in Callers, Step(c), ~HangsUp(c)
    PROVE  /\ task[c].pc = "insert" => Insert(c)
           /\ task[c].pc = "guard" => SkipStart(c) \/ BeginStart(c)
BY DEF Step, Start, SkipStart, BeginStart, FinishStart, Enter, Insert, Reap, Spawn,
       SpawnFails, StoreChild, Dial, DialFails, Handshake, StashChannel, RegisterRpc,
       RegisterFails, Advertise, TakeRequest, Restart, RestartRequested, NewManifest,
       ManifestChanged, SeenStuck, Request, RestartRefused, RestartAccepted,
       RetryWatch, Connect, Announce, Monitor, Drain, At, HangsUp

\* Boot tasks have no client that could hang up.
LEMMA BootStays ==
    ASSUME NEW c \in Plugins
    PROVE  ~HangsUp(c)
BY CallersAssumption DEF HangsUp, Disconnect, DisconnectInDrain

\* A boot task ends without the guard's bookkeeping.
LEMMA BootEnds ==
    ASSUME TypeInv, NEW c \in Plugins, Step(c)
    PROVE  task'[c].pc \notin { "finish", "idle", "gone" }
<1>1. TasksOK /\ c \in Callers /\ task[c] \in Task
  BY DEF TypeInv, TasksOK, Callers
<1>2. Return(c) => task'[c].pc = "done"
  BY <1>1 DEF Return, Rest, TasksOK
<1>3. FailStart(c) => task'[c].pc = "done"
  BY <1>2 DEF FailStart
<1>4. CASE SpawnFails(c) \/ DialFails(c) \/ RegisterFails(c)
  BY <1>3, <1>4 DEF SpawnFails, DialFails, RegisterFails
<1>5. CASE SkipStart(c) \/ FinishStart(c) \/ Monitor(c)
  BY <1>2, <1>5 DEF SkipStart, FinishStart, Monitor
<1>6. CASE \/ BeginStart(c) \/ Insert(c) \/ Reap(c) \/ Spawn(c) \/ StoreChild(c)
           \/ Dial(c) \/ Handshake(c) \/ StashChannel(c) \/ Connect(c) \/ Announce(c)
           \/ RestartAccepted(c)
  BY <1>1, <1>6, Moved
     DEF BeginStart, Insert, Reap, Spawn, StoreChild, Dial, Handshake, StashChannel,
         Connect, Announce, RestartAccepted
<1>7. CASE RestartRefused(c) \/ Drain(c) \/ RetryWatch(c)
  BY <1>1, <1>2, <1>7, Moved DEF RestartRefused, Drain, RetryWatch
<1>8. CASE RegisterRpc(c) \/ Enter(c)
  <2>1. CASE RegisterRpc(c)
    <3>1. task'[c] = [task[c] EXCEPT !.pc = "connect", !.todo = CapsOf[task[c].plugin]]
      BY <1>1, <2>1 DEF RegisterRpc, TasksOK
    <3> QED
      BY <1>1, <3>1 DEF Task
  <2>2. CASE Enter(c)
    <3>1. task'[c] = [task[c] EXCEPT !.pc = "insert", !.inst = next]
      BY <1>1, <2>2 DEF Enter, TasksOK
    <3> QED
      BY <1>1, <3>1 DEF Task
  <2> QED
    BY <1>8, <2>1, <2>2
<1>9. CASE Advertise(c)
  BY <1>1, <1>9 DEF Advertise, At, TasksOK
<1>10. ~TakeRequest(c)
  BY <1>1, CallersAssumption DEF TakeRequest
<1>11. ASSUME NEW p \in Plugins
       PROVE  ~(\/ RestartRequested(c, p) \/ NewManifest(c, p)
                \/ ManifestChanged(c, p) \/ SeenStuck(c, p))
  BY <1>1, CallersAssumption
     DEF RestartRequested, NewManifest, ManifestChanged, SeenStuck
<1> QED
  BY <1>4, <1>5, <1>6, <1>7, <1>8, <1>9, <1>10, <1>11, BootStays
     DEF Step, Start, Restart, HangsUp

\* A step keeps every flag but the one of the start that begins or ends with it.
LEMMA FlagFrame ==
    ASSUME TypeInv, [Next]_vars, NEW p \in Plugins
    PROVE  \/ plugins'[p].starting = plugins[p].starting
           \/ \E c \in Callers : /\ task[c].plugin = p
                                  /\ (BeginStart(c) \/ FinishStart(c))
<1>1. plugins[p] \in Entry /\ plugins \in [Plugins -> Entry]
  BY DEF TypeInv, MapOK
<1> DEFINE e == plugins[p]
           Same == plugins'[p].starting = e.starting
<1>2. \A s : MoveTo(e, s).starting = e.starting
  BY <1>1 DEF MoveTo, Entry
<1>3. /\ Drained(e).starting = e.starting
      /\ [MoveTo(Drained(e), "Discovered") EXCEPT !.attempts = 0].starting = e.starting
  BY <1>1 DEF Drained, MoveTo, Entry
<1>4. ASSUME NEW q, NEW s, Move(q, s) PROVE Same
  BY <1>1, <1>2, <1>4 DEF Move
<1>5. ASSUME NEW c \in Callers, Step(c), ~BeginStart(c), ~FinishStart(c) PROVE Same
  <2>1. CASE Enter(c) \/ Handshake(c) \/ Announce(c) \/ RestartAccepted(c)
    BY <1>4, <2>1 DEF Enter, Handshake, Announce, RestartAccepted
  <2>2. CASE Insert(c)
    <3>1. Refreshed(e).starting = e.starting
      BY <1>1 DEF Refreshed, Entry
    <3> QED
      BY <1>1, <2>2, <3>1 DEF Insert
  <2>3. CASE Drain(c)
    BY <1>1, <1>3, <2>3 DEF Drain
  <2>4. CASE RetryWatch(c)
    <3>1. PICK w : plugins'[p] \in { e, [e EXCEPT !.watch = w],
                                     [MoveTo(e, "Stopped") EXCEPT !.watch = w] }
      BY <1>1, <2>4 DEF RetryWatch
    <3>2. MoveTo(e, "Stopped") \in Entry
      BY <1>1, MoveType DEF PluginStates
    <3> QED
      BY <1>1, <1>2, <3>1, <3>2 DEF Entry
  <2>5. CASE Reap(c)
    BY <1>1, <2>5 DEF Reap, Entry
  <2>6. CASE StoreChild(c) \/ Monitor(c)
    BY <1>1, <2>6 DEF StoreChild, Monitor, Entry
  <2>7. CASE StashChannel(c)
    BY <1>1, <2>7 DEF StashChannel, Entry
  <2>8. CASE DisconnectInDrain(c)
    <3>1. [e EXCEPT !.child = NoInst].starting = e.starting
      BY <1>1 DEF Entry
    <3> QED
      BY <1>1, <1>3, <2>8, <3>1 DEF DisconnectInDrain
  <2>9. CASE plugins' = plugins
    BY <2>9
  <2> QED
    BY <1>5, <2>1, <2>2, <2>3, <2>4, <2>5, <2>6, <2>7, <2>8, <2>9
       DEF Step, Start, SkipStart, Spawn, SpawnFails, Dial, DialFails, RegisterRpc,
           RegisterFails, Connect, Advertise, TakeRequest, Restart, RestartRequested,
           NewManifest, ManifestChanged, SeenStuck, Request, RestartRefused,
           Disconnect
<1>6. ASSUME NEW i \in Instances, Check(i) \/ Die(i) PROVE Same
  <2>1. CASE Healthy(i)
    BY <1>1, <2>1 DEF Healthy, AfterHealthy, Entry
  <2>2. CASE Unhealthy(i)
    BY <1>1, <2>2 DEF Unhealthy, AfterUnhealthy, Entry
  <2>3. CASE Crash(i)
    BY <1>1, <2>3 DEF Crash, Entry
  <2>4. CASE plugins' = plugins
    BY <2>4
  <2> QED
    BY <1>6, <2>1, <2>2, <2>3, <2>4
       DEF Check, Tick, Reply, NoReply, CrashDeregister, CrashSend, Die
<1>7. CASE Shutdown
  <2>1. CASE KillAll
    BY <1>1, <2>1 DEF KillAll, Entry
  <2> QED
    BY <1>2, <1>3, <1>7, <2>1 DEF Shutdown, NameAll, MarkAll, DrainAll, Exit
<1> QED
  <2>1. CASE UNCHANGED vars
    BY <2>1 DEF vars
  <2>2. ASSUME NEW c \in Callers, Step(c), task[c].plugin # p,
               BeginStart(c) \/ FinishStart(c)
        PROVE  Same
    BY <1>1, <2>2 DEF BeginStart, FinishStart
  <2> QED
    BY <1>5, <1>6, <1>7, <2>1, <2>2 DEF Next

\* Entries are never removed.
LEMMA EntriesStay ==
    ASSUME TypeInv, [Next]_vars, NEW p \in Plugins, State(p) # Absent
    PROVE  State(p)' # Absent
<1>1. plugins[p] \in Entry /\ plugins \in [Plugins -> Entry]
  BY DEF TypeInv, MapOK
<1>2. ASSUME Shutdown PROVE State(p)' # Absent
  <2>1. MoveTo(plugins[p], "Draining").state # Absent
    BY <1>1, MoveInto DEF MoveTo, Entry, State, Absent
  <2>2. Drained(plugins[p]).state # Absent
    BY <1>1, DrainedIsOut DEF State
  <2>3. [plugins[p] EXCEPT !.child = NoInst].state # Absent
    BY <1>1 DEF Entry, State
  <2> QED
    BY <1>2, <2>1, <2>2, <2>3 DEF Shutdown, NameAll, MarkAll, DrainAll, KillAll, Exit, State
<1> QED
  BY <1>2, CallerLands, CheckLands DEF Next, vars, State, Absent

-----------------------------------------------------------------------------
(* The three parts of the invariant, one by one.                           *)

\* A boot task goes through its start and is done.
LEMMA BootStep ==
    ASSUME TypeInv, BootsAlone, [Next]_vars, NEW p \in Plugins, task'[p].pc # "done"
    PROVE  /\ BootRunning(p)
           /\ task'[p].plugin = p /\ task'[p].pc \in BootPcs
           /\ task[p].pc \in { "enter", "insert" }
                 => Insert(p) \/ task'[p].pc \in { "enter", "insert" }
<1>1. p \in Callers /\ TasksOK
  BY DEF Callers, TypeInv
<1>2. CASE task'[p] = task[p]
  BY <1>2 DEF BootsAlone, BootRunning
<1>3. CASE Step(p)
  <2>1. /\ BootRunning(p)
        /\ p \in BootPlugins /\ task[p].plugin = p /\ task[p].pc \in BootPcs
    BY <1>1, <1>3, BootStays, PcActs DEF BootsAlone, BootRunning
  <2>2. task'[p].pc \notin { "finish", "idle", "gone" }
    BY <1>3, BootEnds
  <2>3. CASE Continues(p)
    BY <1>1, <1>3, <2>1, <2>2, <2>3, BootStays, MoreActs
       DEF Continues, Successors, BootPcs, StartPcs
  <2>4. CASE Enters(p)
    BY <2>1, <2>4 DEF Enters, BootPcs, StartPcs
  <2>5. ~Takes(p) /\ ~Returns(p) /\ ~Leaves(p)
    BY <2>1, <2>2 DEF Takes, Returns, Leaves, Rest, BootPcs, StartPcs
  <2> QED
    BY <1>1, <1>3, <2>1, <2>3, <2>4, <2>5, CallerMoves
<1>4. ASSUME NEW c \in Callers, Step(c), c # p PROVE task'[p] = task[p]
  BY <1>1, <1>4, StepFrame
<1> QED
  BY <1>1, <1>2, <1>3, <1>4, CheckFrame, ShutdownFrame DEF Next, vars

\* While it is at work nobody else gets hold of its plugin.
LEMMA BootAlone ==
    ASSUME TypeInv, BootsAlone, [Next]_vars, NEW p \in BootPlugins,
           task'[p].pc # "done"
    PROVE  /\ \A c \in Callers \ { p } : task'[c].plugin # p
           /\ \A n \in DOMAIN queue' : queue'[n] # p
           /\ \A i \in Instances : loops'[i].plugin # p
<1>1. p \in Plugins /\ p \in Callers /\ p # NoPlugin
  BY PluginsAssumption DEF Callers
<1>2. /\ BootRunning(p)
      /\ \A c \in Callers \ { p } : task[c].plugin # p
      /\ \A n \in DOMAIN queue : queue[n] # p
      /\ \A i \in Instances : loops[i].plugin # p
  BY <1>1, BootStep DEF BootsAlone
<1>3. ~Booted /\ queue \in Seq(Plugins)
  BY <1>1, <1>2 DEF Booted, BootRunning, TypeInv, QueueOK
<1>4. ASSUME NEW c \in Callers, c # p, Step(c) PROVE task'[c].plugin # p
  <2>1. CASE TakeRequest(c)
    <3>1. task'[c].plugin = queue[1]
      BY <1>3, <1>4, <2>1 DEF TakeRequest, Rest, TypeInv, TasksOK
    <3> QED
      BY <1>2, <1>3, <2>1, <3>1 DEF TakeRequest
  <2>2. CASE Takes(c) /\ ~TakeRequest(c)
    BY <1>3, <1>4, <2>2
       DEF Takes, Step, Start, SkipStart, BeginStart, FinishStart, Enter, Insert, Reap,
         Spawn, SpawnFails, StoreChild, Dial, DialFails, Handshake, StashChannel,
         RegisterRpc, RegisterFails, Advertise, Restart, RestartRequested, NewManifest,
         ManifestChanged, SeenStuck, Request, RestartRefused, RestartAccepted,
         RetryWatch, Connect, Announce, Monitor, Drain, Disconnect, DisconnectInDrain,
         At
  <2>3. CASE Continues(c) \/ Enters(c) \/ Returns(c) \/ Leaves(c)
    BY <1>1, <1>2, <1>4, <2>3 DEF Continues, Enters, Returns, Leaves, Rest
  <2> QED
    BY <1>4, <2>1, <2>2, <2>3, CallerMoves
<1>5. ASSUME NEW c \in Callers, Step(c), NEW n \in DOMAIN queue'
      PROVE  queue'[n] # p
  <2>1. CASE queue' = queue
    BY <1>2, <2>1
  <2>2. CASE TakeRequest(c)
    BY <1>2, <1>3, <2>2 DEF TakeRequest
  <2>3. CASE FailStart(c) /\ queue' # queue
    <3>1. c \in Plugins /\ queue' = Append(queue, task[c].plugin) /\ Return(c)
      BY <2>3 DEF FailStart
    <3>2. c # p
      BY <1>1, <3>1 DEF Return, Rest, TypeInv, TasksOK
    <3>3. task[c].plugin # p /\ task[c].plugin \in Plugins
      BY <1>2, <1>5, <3>1, <3>2, BootStays, PcActs DEF BootsAlone, BootRunning
    <3> QED
      BY <1>2, <1>3, <3>1, <3>3
  <2> QED
    BY <1>5, <2>1, <2>2, <2>3
       DEF Step, Start, SkipStart, BeginStart, FinishStart, Enter, Insert, Reap, Spawn,
         SpawnFails, StoreChild, Dial, DialFails, Handshake, StashChannel,
         RegisterRpc, RegisterFails, Advertise, Restart, RestartRequested, NewManifest,
         ManifestChanged, SeenStuck, Request, RestartRefused, RestartAccepted,
         RetryWatch, Connect, Announce, Monitor, Drain, Disconnect, DisconnectInDrain
<1>6. ASSUME NEW i \in Instances, Check(i) \/ Die(i), NEW n \in DOMAIN queue'
      PROVE  queue'[n] # p
  <2>1. CASE queue' = queue
    BY <1>2, <2>1
  <2>2. CASE queue' = Append(queue, loops[i].plugin)
    <3>1. loops[i].plugin # p
      BY <1>2
    <3>2. queue' = Append(queue, loops[i].plugin) /\ Len(queue) \in Nat
          /\ n \in 1 .. Len(queue) + 1
          /\ queue'[n] = IF n = Len(queue) + 1 THEN loops[i].plugin ELSE queue[n]
      BY <1>3, <1>6, <2>2
    <3> QED
      BY <1>2, <1>3, <3>1, <3>2
  <2> QED
    BY <1>6, <2>1, <2>2
       DEF Check, Tick, Reply, NoReply, Healthy, Unhealthy, Crash, CrashDeregister,
           CrashSend, Die
<1>7. ASSUME NEW c \in Callers, Step(c), NEW i \in Instances
      PROVE  loops'[i].plugin # p
  <2>1. CASE Monitor(c)
    <3>1. c # p
      BY <1>1, <2>1 DEF Monitor, Return, Rest, TypeInv, TasksOK
    <3>2. loops'[i].plugin \in { loops[i].plugin, task[c].plugin }
      BY <2>1 DEF Monitor, TypeInv, LoopsOK, Loop
    <3> QED
      BY <1>2, <1>7, <3>1, <3>2
  <2> QED
    BY <1>2, <1>7, <2>1, StepFrame
<1>8. ASSUME NEW i \in Instances, Check(i) \/ Die(i), NEW j \in Instances
      PROVE  loops'[j].plugin # p
  BY <1>2, <1>8, CheckFrame
<1>9. ASSUME NEW c \in Callers, NEW d \in Callers, c # p, Step(d)
      PROVE  task'[c].plugin # p
  BY <1>2, <1>4, <1>9, StepFrame
<1>10. CASE UNCHANGED vars
  BY <1>2, <1>10 DEF vars
<1>11. CASE Shutdown
  BY <1>2, <1>11, ShutdownFrame DEF Shutdown, NameAll, MarkAll, DrainAll, KillAll, Exit
<1>12. ASSUME NEW i \in Instances, Check(i) \/ Die(i) PROVE task' = task
  BY <1>12, CheckFrame
<1> QED
  BY <1>2, <1>5, <1>6, <1>7, <1>8, <1>9, <1>10, <1>11, <1>12 DEF Next

\* The boot keeps to itself.
LEMMA BootsAloneStep == TypeInv /\ BootsAlone /\ [Next]_vars => BootsAlone'
<1> SUFFICES ASSUME TypeInv, BootsAlone, [Next]_vars PROVE BootsAlone'
  OBVIOUS
<1>1. ASSUME NEW p \in Plugins, task'[p].pc # "done"
      PROVE  p \in BootPlugins /\ task'[p].plugin = p /\ task'[p].pc \in BootPcs
  BY <1>1, BootStep DEF BootsAlone
<1>2. ASSUME NEW p \in BootPlugins, task'[p].pc \notin { "enter", "insert" }
      PROVE  State(p)' # Absent
  <2>1. p \in Plugins /\ plugins[p] \in Entry /\ plugins \in [Plugins -> Entry]
    BY PluginsAssumption DEF TypeInv, MapOK
  <2>2. CASE State(p) # Absent
    BY <2>1, <2>2, EntriesStay
  <2>3. CASE State(p) = Absent
    <3>1. task[p].pc \in { "enter", "insert" } /\ task[p].plugin = p
      BY <2>1, <2>3 DEF BootsAlone, BootRunning
    <3>2. Step(p)
      <4>1. p \in Callers
        BY <2>1 DEF Callers
      <4> QED
        BY <1>2, <3>1, <4>1, StepFrame, CheckFrame, ShutdownFrame DEF Next, vars
    <3>3. task[p].pc = "insert"
      <4>1. ~(task[p].pc = "enter" /\ Step(p) /\ ~Enter(p))
        BY <2>1, BootStays
           DEF Step, Start, SkipStart, BeginStart, FinishStart, Insert, Reap, HangsUp,
               Spawn, SpawnFails, StoreChild, Dial, DialFails, Handshake, StashChannel,
               RegisterRpc, RegisterFails, Connect, Advertise, Announce, Monitor,
               TakeRequest, Restart, RestartRequested, NewManifest, ManifestChanged,
               SeenStuck, Request, RestartRefused, RestartAccepted, Drain, RetryWatch, At
      <4>2. Enter(p) => task'[p].pc = "insert"
        <5>1. ASSUME Enter(p)
              PROVE  task'[p] = [task[p] EXCEPT !.pc = "insert", !.inst = next]
          BY <2>1, <5>1 DEF Enter, TypeInv, TasksOK, Callers
        <5>2. task[p] \in Task
          BY <2>1 DEF TypeInv, TasksOK, Callers
        <5> QED
          BY <5>1, <5>2 DEF Task
      <4> QED
        BY <1>2, <3>1, <3>2, <4>1, <4>2
    <3>4. Insert(p)
      BY <2>1, <3>2, <3>3, BootStays, MoreActs DEF Callers
    <3>5. plugins'[p] = Refreshed(plugins[p])
      BY <2>1, <3>1, <3>4 DEF Insert
    <3>6. Refreshed(plugins[p]).state = "Connecting"
      BY <2>1, <2>3 DEF Refreshed, Entry, State
    <3> QED
      BY <3>5, <3>6 DEF State, Absent
  <2> QED
    BY <2>2, <2>3
<1> QED
  BY <1>1, <1>2, BootAlone DEF BootsAlone, BootRunning

\* A start keeps the flag until it ends, and takes it when it begins: the entry it
\* is to be set in exists, since the boot task of the plugin is done.
LEMMA MarkedStep == TypeInv /\ StartInv /\ [Next]_vars => Marked'
<1> SUFFICES ASSUME TypeInv, StartInv, [Next]_vars,
                    NEW d \in Callers \ Plugins, task'[d].pc \in StartingPcs,
                    task'[d].plugin \in BootPlugins
             PROVE  plugins'[task'[d].plugin].starting
  BY DEF Marked
<1> DEFINE p == task'[d].plugin
<1>1. /\ p \in Plugins /\ p \in BootPlugins /\ d # p
      /\ plugins[p] \in Entry /\ plugins \in [Plugins -> Entry]
  BY PluginsAssumption DEF TypeInv, MapOK
<1>2. CASE task[d].plugin = p /\ task[d].pc \in StartingPcs
  <2>1. plugins[p].starting
    BY <1>1, <1>2 DEF StartInv, Marked
  <2>2. ASSUME NEW c \in Callers, BeginStart(c), task[c].plugin = p PROVE FALSE
    BY <2>1, <2>2 DEF BeginStart
  <2>3. ASSUME NEW c \in Callers, FinishStart(c), task[c].plugin = p PROVE FALSE
    <3>1. c = d
      BY <1>1, <1>2, <2>3 DEF FinishStart, At, StartInv, OneStart, StartingPcs, StartPcs
    <3>2. task'[d].pc \in { "done", "idle" }
      BY <2>3, <3>1 DEF FinishStart, Return, Rest, TypeInv, TasksOK
    <3> QED
      BY <3>2 DEF StartingPcs, StartPcs
  <2> QED
    BY <1>1, <2>1, <2>2, <2>3, FlagFrame
<1>3. CASE ~(task[d].plugin = p /\ task[d].pc \in StartingPcs)
  <2>1. Step(d)
    BY <1>3, StepFrame, CheckFrame, ShutdownFrame DEF Next, vars
  <2>2. ~Takes(d) /\ ~Returns(d) /\ ~Leaves(d)
    BY DEF Takes, Returns, Leaves, Rest, StartingPcs, StartPcs
  <2>3. ~Enters(d)
    BY <1>3 DEF Enters, Enter, At, StartingPcs, StartPcs
  <2>4. Continues(d)
    BY <2>1, <2>2, <2>3, CallerMoves
  <2>5. task[d].pc = "guard" /\ task[d].plugin = p /\ task'[d].pc = "enter"
    BY <1>3, <2>4 DEF Continues, Successors, StartingPcs, StartPcs
  <2>6. BeginStart(d)
    <3>1. SkipStart(d) => task'[d].pc # "enter"
      BY DEF SkipStart, Return, Rest, TypeInv, TasksOK
    <3> QED
      BY <2>1, <2>2, <2>5, <3>1, HangUp, MoreActs
  <2>7. State(p) # Absent
    BY <1>1, <2>5 DEF StartInv, BootsAlone, BootRunning
  <2>8. plugins' = [plugins EXCEPT ![p].starting = TRUE]
    BY <2>5, <2>6, <2>7 DEF BeginStart
  <2> QED
    BY <1>1, <2>8 DEF Entry
<1> QED
  BY <1>2, <1>3

\* The flag, and for the boot tasks the order of the boot, keep a second start out.
LEMMA OneStartStep == TypeInv /\ StartInv /\ [Next]_vars => OneStart'
<1> SUFFICES ASSUME TypeInv, StartInv, [Next]_vars PROVE OneStart'
  OBVIOUS
<1>1. ASSUME NEW c \in Callers, NEW d \in Callers, c # d, Step(c),
             task'[c].plugin = task'[d].plugin, task'[c].plugin \in BootPlugins,
             task'[c].pc \in StartingPcs, task'[d].pc \in StartingPcs
      PROVE  FALSE
  <2> DEFINE p == task'[c].plugin
  <2>1. p \in Plugins /\ p \in BootPlugins
    BY <1>1, PluginsAssumption
  <2>2. task'[d] = task[d]
    BY <1>1, StepFrame
  <2>3. ~(task[c].pc \in StartingPcs /\ task[c].plugin = p)
    BY <1>1, <2>1, <2>2 DEF StartInv, OneStart
  <2>4. ~Takes(c) /\ ~Returns(c) /\ ~Enters(c) /\ ~Leaves(c)
    BY <1>1, <2>3 DEF Takes, Returns, Leaves, Rest, Enters, Enter, At, StartingPcs, StartPcs
  <2>5. Continues(c)
    BY <1>1, <2>4, CallerMoves
  <2>6. task[c].pc = "guard" /\ task[c].plugin = p /\ task'[c].pc = "enter"
    BY <1>1, <2>3, <2>5 DEF Continues, Successors, StartingPcs, StartPcs
  <2>7. BeginStart(c)
    <3>1. SkipStart(c) => task'[c].pc # "enter"
      BY DEF SkipStart, Return, Rest, TypeInv, TasksOK
    <3> QED
      BY <1>1, <2>4, <2>6, <3>1, HangUp, MoreActs
  <2>8. CASE d \in Plugins
    <3>1. BootRunning(d) /\ task[d].plugin = d /\ d = p
      BY <1>1, <2>2, <2>8 DEF StartInv, BootsAlone, BootRunning, StartingPcs, StartPcs
    <3> QED
      BY <1>1, <2>1, <2>6, <3>1 DEF StartInv, BootsAlone
  <2>9. CASE d \notin Plugins
    BY <1>1, <2>1, <2>2, <2>6, <2>7, <2>9 DEF StartInv, Marked, BeginStart
  <2> QED
    BY <2>8, <2>9
<1>2. ASSUME NEW e \in Callers, Step(e)
      PROVE  \A f \in Callers \ { e } : task'[f] = task[f]
  BY <1>2, StepFrame
<1>3. CASE task' = task
  BY <1>3 DEF StartInv, OneStart
<1>4. ASSUME NEW e \in Callers, Step(e) PROVE OneStart'
  BY <1>1, <1>2, <1>4 DEF StartInv, OneStart
<1> QED
  BY <1>3, <1>4, CheckFrame, ShutdownFrame DEF Next, vars

\* Nothing but the boot tasks runs at first.
LEMMA StartInvInit == Init => StartInv
<1> SUFFICES ASSUME Init PROVE StartInv
  OBVIOUS
<1>1. ASSUME NEW c \in BootPlugins
      PROVE  task[c].pc = "enter" /\ task[c].plugin = c
  <2>1. task[c] = [ Rest("enter") EXCEPT !.job = "start", !.plugin = c ]
    BY <1>1, PluginsAssumption DEF Init, Callers
  <2> QED
    BY <2>1 DEF Rest
<1>2. ASSUME NEW c \in Callers \ BootPlugins
      PROVE  /\ task[c].plugin = NoPlugin
             /\ task[c].pc = IF c \in Plugins THEN "done" ELSE "idle"
  BY <1>2 DEF Init, Rest
<1>3. BootsAlone
  <2>1. queue = << >> /\ \A i \in Instances : loops[i].plugin = NoPlugin
    BY DEF Init
  <2> QED
    BY <1>1, <1>2, <2>1, PluginsAssumption
       DEF BootsAlone, BootRunning, BootPcs, StartPcs, Callers
<1>4. Marked
  BY <1>2, PluginsAssumption DEF Marked
<1>5. OneStart
  BY <1>1, <1>2, PluginsAssumption DEF OneStart
<1> QED
  BY <1>3, <1>4, <1>5 DEF StartInv

\* No request, operator or watcher starts a plugin that is being started, whatever
\* their number and their interleaving.
THEOREM OneStartAtATime == Spec => []OneStart
<1>1. TypeInv /\ StartInv /\ [Next]_vars => StartInv'
  BY BootsAloneStep, MarkedStep, OneStartStep DEF StartInv
<1>2. StartInv => OneStart
  BY DEF StartInv
<1> QED
  BY <1>1, <1>2, StartInvInit, TypeInvariance, PTL DEF Spec
=============================================================================
