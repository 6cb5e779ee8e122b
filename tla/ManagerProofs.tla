--------------------------- MODULE ManagerProofs ---------------------------
(***************************************************************************)
(* Theorems about the manager, for every set of plugins, callers, policies *)
(* and bounds that meet the assumptions of module Manager.                 *)
(***************************************************************************)
EXTENDS Manager, TLAPS

\* A move of the state machine ends in a state of the machine.
LEMMA TransitionType ==
    ASSUME NEW from \in PluginStates \cup { Absent }, NEW to \in PluginStates
    PROVE  Transition(from, to) \in PluginStates \cup { Absent }
BY DEF Transition

\* Counters stay within their bound.
LEMMA BumpType ==
    ASSUME NEW max \in Nat, NEW n \in 0 .. max
    PROVE  Bump(n, max) \in 0 .. max
BY DEF Bump

\* What the operations on an entry make of it is an entry.
LEMMA MoveType ==
    ASSUME NEW e \in Entry, NEW s \in PluginStates
    PROVE  MoveTo(e, s) \in Entry
BY TransitionType DEF MoveTo, Entry

\* insert_or_update_plugin makes an entry of an entry ...
LEMMA RefreshedType ==
    ASSUME NEW e \in Entry
    PROVE  Refreshed(e) \in Entry
<1> DEFINE s == IF e.state = Absent THEN "Connecting"
                ELSE Transition(e.state, "Connecting")
<1>1. s \in PluginStates \cup { Absent }
  <2>1. e.state \in PluginStates \cup { Absent } /\ "Connecting" \in PluginStates
    BY DEF Entry, PluginStates
  <2> QED
    BY <2>1, TransitionType
<1>2. Refreshed(e) = [e EXCEPT !.state = s, !.channel = NoInst, !.failures = 0,
                               !.scheduled = FALSE]
  BY DEF Refreshed
<1>3. 0 \in 0 .. Threshold
  BY BoundsAssumption
<1> HIDE DEF s
<1> QED
  BY <1>1, <1>2, <1>3, Zenon DEF Entry

\* ... so does a drain ...
LEMMA DrainedType ==
    ASSUME NEW e \in Entry
    PROVE  Drained(e) \in Entry
<1>1. MoveTo(e, "Stopped") \in Entry
  BY MoveType DEF PluginStates
<1> QED
  BY <1>1 DEF Drained, Entry, NoInst

\* ... a healthy reply ...
LEMMA AfterHealthyType ==
    ASSUME NEW e \in Entry
    PROVE  AfterHealthy(e) \in Entry
<1> DEFINE s == IF e.state = "Degraded" THEN Transition(e.state, "Ready") ELSE e.state
<1>1. s \in PluginStates \cup { Absent }
  BY TransitionType DEF Entry, PluginStates
<1>2. AfterHealthy(e) = [e EXCEPT !.failures = 0, !.state = s]
  BY DEF AfterHealthy
<1>3. 0 \in 0 .. Threshold
  BY BoundsAssumption
<1> HIDE DEF s
<1> QED
  BY <1>1, <1>2, <1>3, Zenon DEF Entry

\* ... and an unhealthy one.
LEMMA AfterUnhealthyType ==
    ASSUME NEW e \in Entry
    PROVE  AfterUnhealthy(e) \in Entry
<1> DEFINE n == Bump(e.failures, Threshold)
           s == IF n >= Threshold /\ e.state = "Ready"
                THEN Transition(e.state, "Degraded") ELSE e.state
<1>1. s \in PluginStates \cup { Absent }
  BY TransitionType DEF Entry, PluginStates
<1>2. n \in 0 .. Threshold
  BY BumpType, BoundsAssumption DEF Entry
<1>3. AfterUnhealthy(e) = [e EXCEPT !.failures = n, !.state = s]
  BY DEF AfterUnhealthy
<1> HIDE DEF n, s
<1> QED
  BY <1>1, <1>2, <1>3, Zenon DEF Entry

-----------------------------------------------------------------------------
(* Type correctness.  TypeOK alone is not inductive: that a caller or a    *)
(* loop at work knows its plugin, and a start in progress its instance, is *)
(* what its steps need.                                                    *)

InstPcs == StartPcs \ { "guard", "enter", "finish" }

GoodTask(t) ==
    /\ t \in Task
    /\ t.pc \notin { "idle", "done" } => t.plugin \in Plugins
    /\ t.pc \in InstPcs => t.inst \in Instances

GoodLoop(l) == l \in Loop /\ (l.pc # "off" => l.plugin \in Plugins)

MapOK == plugins \in [Plugins -> Entry]
TasksOK == task \in [Callers -> Task] /\ \A c \in Callers : GoodTask(task[c])
LoopsOK == loops \in [Instances -> Loop] /\ \A i \in Instances : GoodLoop(loops[i])
BusOK == registry \subseteq Handle /\ conns \subseteq Plugins \X Instances
QueueOK == queue \in Seq(Plugins)
CountersOK == /\ alive \subseteq Instances
              /\ next \in 1 .. MaxInstances + 1
              /\ faults \in 0 .. MaxFaults
PhaseOK == /\ phase \in { "running", "named", "marked", "drained", "killed", "exited" }
           /\ closing \subseteq Plugins

TypeInv == /\ MapOK /\ TasksOK /\ LoopsOK /\ BusOK /\ QueueOK /\ CountersOK
           /\ PhaseOK

\* What an assignment to one entry of the map, of task or of loops preserves.
LEMMA MapAssign ==
    ASSUME MapOK, NEW p \in Plugins, NEW e \in Entry,
           plugins' = [plugins EXCEPT ![p] = e]
    PROVE  MapOK'
BY DEF MapOK

\* A good task in a caller's place leaves all tasks good.
LEMMA TaskAssign ==
    ASSUME TasksOK, NEW c \in Callers, NEW t, GoodTask(t),
           task' = [task EXCEPT ![c] = t]
    PROVE  TasksOK'
<1>1. t \in Task
  BY DEF GoodTask
<1>2. task' \in [Callers -> Task]
  BY <1>1 DEF TasksOK
<1>3. ASSUME NEW d \in Callers PROVE GoodTask(task'[d])
  BY <1>2 DEF TasksOK
<1> QED
  BY <1>2, <1>3 DEF TasksOK, GoodTask

\* A good loop in an instance's place leaves all loops good.
LEMMA LoopAssign ==
    ASSUME LoopsOK, NEW i \in Instances, NEW l, GoodLoop(l),
           loops' = [loops EXCEPT ![i] = l]
    PROVE  LoopsOK'
<1>1. l \in Loop
  BY DEF GoodLoop
<1>2. loops' \in [Instances -> Loop]
  BY <1>1 DEF LoopsOK
<1>3. ASSUME NEW j \in Instances PROVE GoodLoop(loops'[j])
  BY <1>2 DEF LoopsOK
<1> QED
  BY <1>2, <1>3 DEF LoopsOK, GoodLoop

\* The ways a caller's program counter moves.
LEMMA GotoType ==
    ASSUME TasksOK, NEW c \in Callers, NEW pc \in TaskPcs, Goto(c, pc),
           task[c].plugin \in Plugins,
           pc \in InstPcs => task[c].inst \in Instances
    PROVE  TasksOK'
<1> DEFINE t == [task[c] EXCEPT !.pc = pc]
<1>1. task[c] \in Task
  BY DEF TasksOK
<1>2. t \in Task /\ t.pc = pc /\ t.plugin = task[c].plugin /\ t.inst = task[c].inst
  BY <1>1 DEF Task
<1>3. GoodTask(t)
  BY <1>2 DEF GoodTask
<1>4. task' = [task EXCEPT ![c] = t]
  BY DEF Goto, TasksOK
<1> QED
  BY <1>3, <1>4, TaskAssign

\* A caller at rest is well typed.
LEMMA RestType ==
    ASSUME NEW pc \in { "idle", "done" }
    PROVE  GoodTask(Rest(pc))
<1>1. pc \in TaskPcs /\ pc \notin InstPcs
  BY DEF TaskPcs, InstPcs, StartPcs
<1> QED
  BY <1>1 DEF Rest, GoodTask, Task, Jobs, NoInst

\* A caller that returns is at rest.
LEMMA ReturnType ==
    ASSUME TasksOK, NEW c \in Callers, Return(c)
    PROVE  TasksOK'
<1> DEFINE pc == IF c \in Plugins \cup Operators THEN "done" ELSE "idle"
<1>1. GoodTask(Rest(pc))
  BY RestType
<1> QED
  BY <1>1, TaskAssign DEF Return

\* A failed start ends a boot task with a request, and another one in finish.
LEMMA FailStartType ==
    ASSUME TasksOK, QueueOK, NEW c \in Callers, task[c].plugin \in Plugins,
           FailStart(c)
    PROVE  TasksOK' /\ QueueOK'
<1>1. CASE c \in Plugins
  BY <1>1, ReturnType DEF FailStart, QueueOK
<1>2. CASE c \notin Plugins
  <2>1. "finish" \in TaskPcs /\ "finish" \notin InstPcs
    BY DEF TaskPcs, StartPcs, InstPcs
  <2> QED
    BY <1>2, <2>1, GotoType DEF FailStart, QueueOK
<1> QED
  BY <1>1, <1>2

\* A loop that moves on forgets its channel and stays good.
LEMMA GotoLoopType ==
    ASSUME LoopsOK, NEW i \in Instances, NEW pc \in LoopPcs, GotoLoop(i, pc),
           loops[i].plugin \in Plugins
    PROVE  LoopsOK'
<1> DEFINE l == [loops[i] EXCEPT !.pc = pc, !.chan = NoInst]
<1>1. loops[i] \in Loop
  BY DEF LoopsOK
<1>2. l \in Loop /\ l.pc = pc /\ l.plugin = loops[i].plugin
  BY <1>1 DEF Loop
<1>3. GoodLoop(l)
  BY <1>2 DEF GoodLoop
<1>4. loops' = [loops EXCEPT ![i] = l]
  BY DEF GotoLoop, LoopsOK
<1> QED
  BY <1>3, <1>4, LoopAssign

\* A caller at work knows its plugin, and where it needs one its instance.
LEMMA BusyTask ==
    ASSUME TasksOK, NEW c \in Callers, task[c].pc \notin { "idle", "done" }
    PROVE  /\ task[c].plugin \in Plugins
           /\ task[c].pc \in InstPcs => task[c].inst \in Instances
           /\ task[c] \in Task
BY DEF TasksOK, GoodTask

\* No step of a start breaks a type.
LEMMA StartType ==
    ASSUME TypeInv, NEW c \in Callers, Start(c)
    PROVE  TypeInv'
<1> DEFINE p == task[c].plugin
<1> USE DEF TypeInv, StartPcs, InstPcs, TaskPcs
<1>1. CASE SkipStart(c)
  BY <1>1, ReturnType
     DEF SkipStart, MapOK, LoopsOK, BusOK, QueueOK, CountersOK, PhaseOK, shutdown
<1>2. task[c].pc \notin { "idle", "done" }
  BY DEF Start, At, SkipStart, BeginStart, FinishStart, Enter, Insert, Reap, Spawn,
         SpawnFails, StoreChild, Dial, DialFails, Handshake, StashChannel,
         RegisterRpc, RegisterFails, Connect, Advertise, Announce, Monitor
<1>3. p \in Plugins /\ plugins[p] \in Entry
  BY <1>2, BusyTask DEF MapOK
<1>4. task[c].pc \in InstPcs => task[c].inst \in Instances
  BY <1>2, BusyTask
<1>5. CASE BeginStart(c)
  <2>1. [plugins[p] EXCEPT !.starting = (State(p) # Absent)] \in Entry
    BY <1>3 DEF Entry
  <2>2. plugins' = [plugins EXCEPT ![p] = [plugins[p] EXCEPT !.starting = (State(p) # Absent)]]
    BY <1>5 DEF BeginStart, Move, MapOK
  <2>3. MapOK'
    BY <1>3, <2>1, <2>2, MapAssign
  <2>4. TasksOK'
    BY <1>5, <1>3, <1>4, GotoType DEF BeginStart, At
  <2> QED
    BY <1>5, <2>3, <2>4
       DEF BeginStart, LoopsOK, BusOK, QueueOK, CountersOK, PhaseOK, shutdown
<1>6. CASE FinishStart(c)
  <2>1. [plugins[p] EXCEPT !.starting = FALSE] \in Entry
    BY <1>3 DEF Entry
  <2>2. plugins' = [plugins EXCEPT ![p] = [plugins[p] EXCEPT !.starting = FALSE]]
    BY <1>6 DEF FinishStart, Move, MapOK
  <2>3. MapOK'
    BY <1>3, <2>1, <2>2, MapAssign
  <2>4. TasksOK'
    BY <1>6, ReturnType DEF FinishStart
  <2> QED
    BY <1>6, <2>3, <2>4
       DEF FinishStart, LoopsOK, BusOK, QueueOK, CountersOK, PhaseOK, shutdown
<1>7. CASE Enter(c)
  <2>1. MoveTo(plugins[p], "Discovered") \in Entry
    BY <1>3, MoveType DEF PluginStates
  <2>2. plugins' = [plugins EXCEPT ![p] = MoveTo(plugins[p], "Discovered")]
    BY <1>7 DEF Enter, Move
  <2>3. MapOK'
    BY <1>3, <2>1, <2>2, MapAssign
  <2>4. next \in Instances /\ next' \in 1 .. MaxInstances + 1
    BY <1>7, BoundsAssumption DEF Enter, CountersOK, Instances
  <2> DEFINE t == [task[c] EXCEPT !.pc = "insert", !.inst = next]
  <2>5. GoodTask(t)
    BY <1>2, <1>3, <2>4, BusyTask DEF GoodTask, Task
  <2>6. task' = [task EXCEPT ![c] = t]
    BY <1>7 DEF Enter, TasksOK
  <2>7. TasksOK'
    BY <2>5, <2>6, TaskAssign
  <2> QED
    BY <1>7, <2>3, <2>4, <2>7
       DEF Enter, LoopsOK, BusOK, QueueOK, CountersOK, PhaseOK, shutdown
<1>8. CASE Insert(c)
  <2>1. Refreshed(plugins[p]) \in Entry
    BY <1>3, RefreshedType
  <2>2. plugins' = [plugins EXCEPT ![p] = Refreshed(plugins[p])]
    BY <1>8 DEF Insert, Move, MapOK
  <2>3. MapOK'
    BY <1>3, <2>1, <2>2, MapAssign
  <2>4. TasksOK'
    BY <1>8, <1>3, <1>4, GotoType DEF Insert, At
  <2> QED
    BY <1>8, <2>3, <2>4
       DEF Insert, LoopsOK, BusOK, QueueOK, CountersOK, PhaseOK, shutdown
<1>9. CASE Reap(c)
  <2>1. [plugins[p] EXCEPT !.child = NoInst] \in Entry
    BY <1>3 DEF Entry, NoInst
  <2>2. plugins' = [plugins EXCEPT ![p] = [plugins[p] EXCEPT !.child = NoInst]]
    BY <1>9 DEF Reap, Move, MapOK
  <2>3. MapOK'
    BY <1>3, <2>1, <2>2, MapAssign
  <2>4. TasksOK'
    BY <1>9, <1>3, <1>4, GotoType DEF Reap, At
  <2> QED
    BY <1>9, <2>3, <2>4
       DEF Reap, LoopsOK, BusOK, QueueOK, CountersOK, PhaseOK, shutdown
<1>10. CASE Spawn(c)
  <2>1. TasksOK'
    BY <1>10, <1>3, <1>4, GotoType DEF Spawn, At
  <2> QED
    BY <1>10, <2>1, <1>3, <1>4
       DEF Spawn, At, MapOK, LoopsOK, BusOK, QueueOK, CountersOK, PhaseOK, shutdown
<1>11. CASE SpawnFails(c)
  <2>1. TasksOK' /\ QueueOK'
    BY <1>11, <1>3, FailStartType DEF SpawnFails
  <2>2. faults' \in 0 .. MaxFaults
    BY <1>11, BoundsAssumption DEF SpawnFails, Fault, CountersOK
  <2> QED
    BY <1>11, <2>1, <2>2
       DEF SpawnFails, MapOK, LoopsOK, BusOK, CountersOK, PhaseOK, shutdown
<1>12. CASE StoreChild(c)
  <2>1. [plugins[p] EXCEPT !.child = task[c].inst] \in Entry
    BY <1>3, <1>4, <1>12 DEF Entry, StoreChild, At
  <2>2. plugins' = [plugins EXCEPT ![p] = [plugins[p] EXCEPT !.child = task[c].inst]]
    BY <1>12 DEF StoreChild, Move, MapOK
  <2>3. MapOK'
    BY <1>3, <2>1, <2>2, MapAssign
  <2>4. TasksOK'
    BY <1>12, <1>3, <1>4, GotoType DEF StoreChild, At
  <2> QED
    BY <1>12, <2>3, <2>4
       DEF StoreChild, LoopsOK, BusOK, QueueOK, CountersOK, PhaseOK, shutdown
<1>13. CASE Dial(c)
  <2>1. TasksOK'
    BY <1>13, <1>3, <1>4, GotoType DEF Dial, At
  <2> QED
    BY <1>13, <2>1, <1>3, <1>4
       DEF Dial, At, MapOK, LoopsOK, BusOK, QueueOK, CountersOK, PhaseOK, shutdown
<1>14. CASE DialFails(c)
  <2>1. TasksOK' /\ QueueOK'
    BY <1>14, <1>3, FailStartType DEF DialFails
  <2>2. faults' \in 0 .. MaxFaults
    BY <1>14, BoundsAssumption DEF DialFails, Fault, CountersOK
  <2> QED
    BY <1>14, <2>1, <2>2
       DEF DialFails, MapOK, LoopsOK, BusOK, CountersOK, PhaseOK, shutdown
<1>15. CASE Handshake(c)
  <2>1. MoveTo(plugins[p], "Handshaking") \in Entry
    BY <1>3, MoveType DEF PluginStates
  <2>2. plugins' = [plugins EXCEPT ![p] = MoveTo(plugins[p], "Handshaking")]
    BY <1>15 DEF Handshake, Move, MapOK
  <2>3. MapOK'
    BY <1>3, <2>1, <2>2, MapAssign
  <2>4. TasksOK'
    BY <1>15, <1>3, <1>4, GotoType DEF Handshake, At
  <2> QED
    BY <1>15, <2>3, <2>4
       DEF Handshake, LoopsOK, BusOK, QueueOK, CountersOK, PhaseOK, shutdown
<1>16. CASE StashChannel(c)
  <2> DEFINE e == [plugins[p] EXCEPT !.channel = task[c].inst, !.attempts = 0,
                                     !.scheduled = FALSE]
  <2>1. task[c].inst \in Instances /\ 0 \in 0 .. MaxAttempts + 1
    BY <1>4, <1>16, BoundsAssumption DEF StashChannel, At
  <2>2. e \in Entry
    BY <1>3, <2>1, Zenon DEF Entry
  <2>3. plugins' = [plugins EXCEPT ![p] = e]
    BY <1>16 DEF StashChannel, MapOK
  <2>4. MapOK'
    BY <1>3, <2>2, <2>3, MapAssign
  <2>5. TasksOK'
    BY <1>16, <1>3, <1>4, GotoType DEF StashChannel, At
  <2> QED
    BY <1>16, <2>4, <2>5
       DEF StashChannel, LoopsOK, BusOK, QueueOK, CountersOK, PhaseOK, shutdown
<1>17. CASE RegisterRpc(c)
  <2> DEFINE t == [task[c] EXCEPT !.pc = "connect", !.todo = CapsOf[p]]
  <2>1. GoodTask(t)
    BY <1>17, <1>2, <1>3, <1>4, BusyTask, PluginsAssumption
       DEF RegisterRpc, At, GoodTask, Task
  <2>2. task' = [task EXCEPT ![c] = t]
    BY <1>17 DEF RegisterRpc, TasksOK
  <2>3. TasksOK'
    BY <2>1, <2>2, TaskAssign
  <2> QED
    BY <1>17, <2>3
       DEF RegisterRpc, MapOK, LoopsOK, BusOK, QueueOK, CountersOK, PhaseOK, shutdown
<1>18. CASE RegisterFails(c)
  <2>1. TasksOK' /\ QueueOK'
    BY <1>18, <1>3, FailStartType DEF RegisterFails
  <2>2. faults' \in 0 .. MaxFaults
    BY <1>18, BoundsAssumption DEF RegisterFails, Fault, CountersOK
  <2> QED
    BY <1>18, <2>1, <2>2
       DEF RegisterFails, MapOK, LoopsOK, BusOK, CountersOK, PhaseOK, shutdown
<1>19. CASE Connect(c)
  <2>1. TasksOK'
    BY <1>19, <1>3, <1>4, GotoType DEF Connect, At
  <2> QED
    BY <1>19, <2>1, <1>3, <1>4
       DEF Connect, At, MapOK, LoopsOK, BusOK, QueueOK, CountersOK, PhaseOK, shutdown
<1>20. CASE Advertise(c)
  <2>1. PICK cap \in task[c].todo :
          /\ registry' = registry \cup { [ cap |-> cap, plugin |-> p,
                                           inst |-> task[c].inst ] }
          /\ task' = [task EXCEPT
                        ![c].todo = @ \ { cap },
                        ![c].pc = IF task[c].todo = { cap } THEN "ready" ELSE @]
    BY <1>20 DEF Advertise
  <2>2. task[c].todo \in SUBSET Caps /\ task[c].pc = "advertise"
    BY <1>20, <1>2, BusyTask DEF Advertise, At, Task
  <2>3. BusOK'
    BY <1>20, <1>3, <1>4, <2>1, <2>2 DEF Advertise, BusOK, Handle
  <2> DEFINE t == [task[c] EXCEPT !.todo = @ \ { cap },
                     !.pc = IF task[c].todo = { cap } THEN "ready" ELSE @]
  <2>4. GoodTask(t)
    BY <1>2, <1>3, <1>4, <2>2, BusyTask DEF GoodTask, Task
  <2>5. task' = [task EXCEPT ![c] = t]
    BY <2>1 DEF TasksOK
  <2>6. TasksOK'
    BY <2>4, <2>5, TaskAssign
  <2> QED
    BY <1>20, <2>3, <2>6
       DEF Advertise, MapOK, LoopsOK, QueueOK, CountersOK, PhaseOK, shutdown
<1>21. CASE Announce(c)
  <2>1. MoveTo(plugins[p], "Ready") \in Entry
    BY <1>3, MoveType DEF PluginStates
  <2>2. plugins' = [plugins EXCEPT ![p] = MoveTo(plugins[p], "Ready")]
    BY <1>21 DEF Announce, Move, MapOK
  <2>3. MapOK'
    BY <1>3, <2>1, <2>2, MapAssign
  <2>4. TasksOK'
    BY <1>21, <1>3, <1>4, GotoType DEF Announce, At
  <2> QED
    BY <1>21, <2>3, <2>4
       DEF Announce, LoopsOK, BusOK, QueueOK, CountersOK, PhaseOK, shutdown
<1>22. CASE Monitor(c)
  <2>1. [plugins[p] EXCEPT !.watch = 0] \in Entry
    BY <1>3, BoundsAssumption DEF Entry
  <2>2. MapOK'
    BY <1>22, <1>3, <2>1, MapAssign DEF Monitor, MapOK
  <2>3. task[c].inst \in Instances
    BY <1>22, <1>4 DEF Monitor, At
  <2> DEFINE l == [loops[task[c].inst] EXCEPT !.pc = "tick", !.plugin = p]
  <2>4. GoodLoop(l)
    BY <1>3, <2>3 DEF GoodLoop, LoopsOK, Loop, LoopPcs
  <2>5. loops' = [loops EXCEPT ![task[c].inst] = l]
    BY <1>22 DEF Monitor
  <2>6. LoopsOK'
    BY <2>3, <2>4, <2>5, LoopAssign
  <2>7. TasksOK'
    BY <1>22, <1>3, ReturnType, GotoType DEF Monitor
  <2> QED
    BY <1>22, <2>2, <2>6, <2>7
       DEF Monitor, BusOK, QueueOK, CountersOK, PhaseOK, shutdown
<1> QED
  BY <1>1, <1>5, <1>6, <1>7, <1>8, <1>9, <1>10, <1>11, <1>12, <1>13, <1>14, <1>15, <1>16, <1>17, <1>18, <1>19, <1>20, <1>21, <1>22 DEF Start

\* The request the coordinator takes names a plugin.
LEMMA TakeRequestType ==
    ASSUME TypeInv, NEW c \in Callers, TakeRequest(c)
    PROVE  TypeInv'
<1> DEFINE t == [Rest("guard") EXCEPT !.job = "start", !.plugin = Head(queue)]
<1>1. queue \in Seq(Plugins) /\ queue # << >>
  BY DEF TakeRequest, TypeInv, QueueOK
<1>2. Head(queue) \in Plugins /\ Tail(queue) \in Seq(Plugins)
  BY <1>1
<1>3. GoodTask(t)
  BY <1>2 DEF GoodTask, Task, Rest, TaskPcs, StartPcs, InstPcs, Jobs, NoInst
<1>4. TasksOK'
  BY <1>3, TaskAssign DEF TakeRequest, TypeInv
<1> QED
  BY <1>2, <1>4
     DEF TakeRequest, TypeInv, MapOK, LoopsOK, BusOK, QueueOK, CountersOK,
         PhaseOK, shutdown

\* What a drain does to the registry, the connections and the processes.
LEMMA DrainType ==
    ASSUME NEW ps \in SUBSET Plugins
    PROVE  /\ BusOK /\ Deregister(ps) /\ RemoveConnection(ps) => BusOK'
           /\ alive \subseteq Instances /\ KillChildren(ps)
                => alive' \subseteq Instances
BY DEF BusOK, Deregister, RemoveConnection, KillChildren

\* An operation begins with a plugin in the caller's record.
LEMMA RequestType ==
    ASSUME TypeInv, NEW c \in Callers, NEW p \in Plugins, NEW job \in Jobs,
           NEW pc \in { "restart", "guard", "retry" }, Request(c, p, job, pc)
    PROVE  TypeInv'
<1> DEFINE t == [Rest(pc) EXCEPT !.job = job, !.plugin = p]
<1>1. GoodTask(t)
  BY DEF GoodTask, Task, Rest, TaskPcs, StartPcs, InstPcs, NoInst
<1>2. TasksOK'
  BY <1>1, TaskAssign DEF Request, TypeInv
<1> QED
  BY <1>2
     DEF Request, TypeInv, MapOK, LoopsOK, BusOK, QueueOK, CountersOK, PhaseOK,
         shutdown

\* No step of a restart breaks a type.
LEMMA RestartType ==
    ASSUME TypeInv, NEW c \in Callers, Restart(c)
    PROVE  TypeInv'
<1> DEFINE p == task[c].plugin
<1> USE DEF TypeInv
<1>1. ASSUME NEW q \in Plugins,
             \/ RestartRequested(c, q) \/ NewManifest(c, q)
             \/ ManifestChanged(c, q) \/ SeenStuck(c, q)
      PROVE  TypeInv'
  BY <1>1, RequestType
     DEF RestartRequested, NewManifest, ManifestChanged, SeenStuck, Jobs
<1> SUFFICES ASSUME \/ RestartRefused(c) \/ RestartAccepted(c)
                    \/ Drain(c) \/ RetryWatch(c)
                    \/ Disconnect(c) \/ DisconnectInDrain(c)
             PROVE  TypeInv'
  BY <1>1 DEF Restart
<1>2. task[c].pc \notin { "idle", "done" }
  BY DEF RestartRefused, RestartAccepted, Drain, RetryWatch, Disconnect,
         DisconnectInDrain, At
<1>3. p \in Plugins /\ plugins[p] \in Entry
  BY <1>2, BusyTask DEF MapOK
<1>4. /\ Goto(c, "guard") => TasksOK'
      /\ Goto(c, "drain") => TasksOK'
      /\ Goto(c, "gone") => TasksOK'
      /\ Return(c) => TasksOK'
  BY <1>3, GotoType, ReturnType DEF TaskPcs, StartPcs, InstPcs
<1>5. CASE RestartRefused(c)
  BY <1>4, <1>5
     DEF RestartRefused, MapOK, LoopsOK, BusOK, QueueOK, CountersOK, PhaseOK,
         shutdown
<1>6. CASE RestartAccepted(c)
  <2>1. MoveTo(plugins[p], "Draining") \in Entry
    BY <1>3, MoveType DEF PluginStates
  <2>2. MapOK'
    BY <1>3, <1>6, <2>1, MapAssign DEF RestartAccepted, Move, MapOK
  <2> QED
    BY <1>4, <1>6, <2>2
       DEF RestartAccepted, LoopsOK, BusOK, QueueOK, CountersOK, PhaseOK, shutdown
<1>7. CASE Drain(c)
  <2> DEFINE d == MoveTo(Drained(plugins[p]), "Discovered")
             e == [d EXCEPT !.attempts = 0]
  <2>1. d \in Entry
    BY <1>3, DrainedType, MoveType DEF PluginStates
  <2>2. 0 \in 0 .. MaxAttempts + 1
    BY BoundsAssumption
  <2>3. e \in Entry
    BY <2>1, <2>2, Zenon DEF Entry
  <2>4. plugins' = [plugins EXCEPT ![p] = e]
    BY <1>7 DEF Drain, MapOK
  <2>5. MapOK'
    BY <1>3, <2>3, <2>4, MapAssign
  <2>6. BusOK' /\ alive' \subseteq Instances
    BY <1>3, <1>7, DrainType DEF Drain, CountersOK
  <2> QED
    BY <1>4, <1>7, <2>5, <2>6
       DEF Drain, LoopsOK, QueueOK, CountersOK, PhaseOK, shutdown
<1>8. CASE RetryWatch(c)
  <2> DEFINE w == Bump(plugins[p].watch, MaxAttempts)
             e == [MoveTo(plugins[p], "Stopped") EXCEPT !.watch = w]
             f == [plugins[p] EXCEPT !.watch = w]
  <2>1. w \in 0 .. MaxAttempts
    BY <1>3, BumpType, BoundsAssumption DEF Entry
  <2>2. MoveTo(plugins[p], "Stopped") \in Entry
    BY <1>3, MoveType DEF PluginStates
  <2> HIDE DEF w
  <2>3. e \in Entry /\ f \in Entry
    BY <1>3, <2>1, <2>2, Zenon DEF Entry
  <2>4. \/ plugins' = plugins
        \/ plugins' = [plugins EXCEPT ![p] = e]
        \/ plugins' = [plugins EXCEPT ![p] = f]
    BY <1>8 DEF RetryWatch, MapOK, w
  <2>5. MapOK'
    BY <1>3, <2>3, <2>4, MapAssign DEF MapOK
  <2>6. TasksOK'
    BY <1>4, <1>8 DEF RetryWatch
  <2> QED
    BY <1>8, <2>5, <2>6
       DEF RetryWatch, LoopsOK, BusOK, QueueOK, CountersOK, PhaseOK, shutdown
<1>9. Fault("disconnect") => faults' \in 0 .. MaxFaults
  BY BoundsAssumption DEF Fault, CountersOK
<1>10. CASE Disconnect(c)
  BY <1>4, <1>9, <1>10
     DEF Disconnect, MapOK, LoopsOK, BusOK, QueueOK, CountersOK, PhaseOK, shutdown
<1>11. CASE DisconnectInDrain(c)
  <2> DEFINE d == Drained(plugins[p])
             e == [plugins[p] EXCEPT !.child = NoInst]
  <2>1. d \in Entry /\ e \in Entry
    BY <1>3, DrainedType DEF Entry, NoInst
  <2>2. plugins' = [plugins EXCEPT ![p] = d] \/ plugins' = [plugins EXCEPT ![p] = e]
    BY <1>11 DEF DisconnectInDrain, MapOK
  <2>3. MapOK'
    BY <1>3, <2>1, <2>2, MapAssign
  <2>4. registry' \subseteq Handle /\ alive' \subseteq Instances
    BY <1>3, <1>11 DEF DisconnectInDrain, Deregister, KillChildren, BusOK, CountersOK
  <2>5. TasksOK' /\ faults' \in 0 .. MaxFaults
    BY <1>4, <1>9, <1>11 DEF DisconnectInDrain
  <2> QED
    BY <1>11, <2>3, <2>4, <2>5
       DEF DisconnectInDrain, LoopsOK, BusOK, QueueOK, CountersOK, PhaseOK, shutdown
<1> QED
  BY <1>5, <1>6, <1>7, <1>8, <1>10, <1>11

\* No step of a health-check loop breaks a type.
LEMMA CheckType ==
    ASSUME TypeInv, NEW i \in Instances, Check(i)
    PROVE  TypeInv'
<1> DEFINE p == loops[i].plugin
<1> USE DEF TypeInv
<1>1. loops[i].pc # "off"
  BY DEF Check, LoopAt, Tick, Reply, NoReply, Healthy, Unhealthy, Crash,
         CrashDeregister, CrashSend
<1>2. p \in Plugins /\ loops[i] \in Loop /\ plugins[p] \in Entry
  BY <1>1 DEF LoopsOK, GoodLoop, MapOK
<1>3. ASSUME NEW pc \in LoopPcs, GotoLoop(i, pc) PROVE LoopsOK'
  BY <1>2, <1>3, GotoLoopType
<1>4. CASE Tick(i)
  <2> DEFINE l == [loops[i] EXCEPT !.pc = "rpc", !.chan = plugins[p].channel]
  <2>1. GoodLoop(l)
    BY <1>2 DEF GoodLoop, Loop, LoopPcs, Entry
  <2>2. \/ GotoLoop(i, "crash") \/ GotoLoop(i, "ended")
        \/ loops' = [loops EXCEPT ![i] = l]
    BY <1>4 DEF Tick, LoopsOK
  <2>3. LoopsOK'
    BY <1>3, <2>1, <2>2, LoopAssign DEF LoopPcs
  <2> QED
    BY <1>4, <2>3
       DEF Tick, MapOK, TasksOK, BusOK, QueueOK, CountersOK, PhaseOK, shutdown
<1>5. CASE Reply(i)
  <2>1. LoopsOK'
    BY <1>3, <1>5 DEF Reply, LoopPcs
  <2> QED
    BY <1>5, <2>1
       DEF Reply, MapOK, TasksOK, BusOK, QueueOK, CountersOK, PhaseOK, shutdown
<1>6. CASE NoReply(i)
  <2>1. LoopsOK'
    BY <1>3, <1>6 DEF NoReply, LoopPcs
  <2>2. faults' \in 0 .. MaxFaults
    BY <1>6, BoundsAssumption DEF NoReply, Fault, CountersOK
  <2> QED
    BY <1>6, <2>1, <2>2
       DEF NoReply, MapOK, TasksOK, BusOK, QueueOK, CountersOK, PhaseOK, shutdown
<1>7. CASE Healthy(i)
  <2>1. MapOK' /\ LoopsOK'
    BY <1>2, <1>3, <1>7, AfterHealthyType, MapAssign DEF Healthy, LoopPcs, MapOK
  <2> QED
    BY <1>7, <2>1
       DEF Healthy, TasksOK, BusOK, QueueOK, CountersOK, PhaseOK, shutdown
<1>8. CASE Unhealthy(i)
  <2>1. MapOK' /\ LoopsOK'
    BY <1>2, <1>3, <1>8, AfterUnhealthyType, MapAssign
       DEF Unhealthy, LoopPcs, MapOK
  <2> QED
    BY <1>8, <2>1
       DEF Unhealthy, TasksOK, BusOK, QueueOK, CountersOK, PhaseOK, shutdown
<1>9. CASE Crash(i)
  <2> DEFINE n == Bump(plugins[p].attempts, MaxAttempts + 1)
             should == ShouldRestart(plugins[p], p, n)
             u == StateAfterCrash(plugins[p].state)
             e == [plugins[p] EXCEPT !.state = u, !.attempts = n,
                                     !.scheduled = @ \/ should]
             l == [loops[i] EXCEPT !.pc = "dereg", !.resend = should]
  <2>1. u \in PluginStates \cup { Absent }
    BY <1>2, TransitionType DEF Entry, PluginStates, StateAfterCrash
  <2>2. n \in 0 .. MaxAttempts + 1
    BY <1>2, BumpType, BoundsAssumption DEF Entry
  <2>3. should \in BOOLEAN /\ (plugins[p].scheduled \/ should) \in BOOLEAN
    BY DEF ShouldRestart
  <2>4. plugins' = [plugins EXCEPT ![p] = e] /\ loops' = [loops EXCEPT ![i] = l]
    BY <1>9 DEF Crash, MapOK, LoopsOK
  <2> HIDE DEF n, should, u
  <2>5. e \in Entry
    BY <1>2, <2>1, <2>2, <2>3, Zenon DEF Entry
  <2>6. GoodLoop(l)
    BY <1>2, <2>3 DEF GoodLoop, Loop, LoopPcs
  <2>7. MapOK' /\ LoopsOK'
    BY <1>2, <2>4, <2>5, <2>6, MapAssign, LoopAssign
  <2> QED
    BY <1>9, <2>7
       DEF Crash, TasksOK, BusOK, QueueOK, CountersOK, PhaseOK, shutdown
<1>10. CASE CrashDeregister(i)
  <2>1. LoopsOK' /\ BusOK'
    BY <1>2, <1>3, <1>10, DrainType DEF CrashDeregister, LoopPcs
  <2> QED
    BY <1>10, <2>1
       DEF CrashDeregister, MapOK, TasksOK, QueueOK, CountersOK, PhaseOK, shutdown
<1>11. CASE CrashSend(i)
  <2> DEFINE l == [loops[i] EXCEPT !.pc = "ended", !.resend = FALSE]
  <2>1. GoodLoop(l)
    BY <1>2 DEF GoodLoop, Loop, LoopPcs
  <2>2. LoopsOK'
    BY <1>11, <2>1, LoopAssign DEF CrashSend, LoopsOK
  <2>3. QueueOK'
    BY <1>2, <1>11 DEF CrashSend, QueueOK
  <2> QED
    BY <1>11, <2>2, <2>3
       DEF CrashSend, MapOK, TasksOK, BusOK, CountersOK, PhaseOK, shutdown
<1> QED
  BY <1>4, <1>5, <1>6, <1>7, <1>8, <1>9, <1>10, <1>11 DEF Check

\* The death of a process only shrinks the set of running ones.
LEMMA DieType ==
    ASSUME TypeInv, NEW i \in Instances, Die(i)
    PROVE  TypeInv'
<1>1. faults' \in 0 .. MaxFaults
  BY BoundsAssumption DEF Die, Fault, TypeInv, CountersOK
<1> QED
  BY <1>1
     DEF Die, TypeInv, MapOK, TasksOK, LoopsOK, BusOK, QueueOK, CountersOK,
         PhaseOK, shutdown

\* No step of the shutdown breaks a type.
LEMMA ShutdownType ==
    ASSUME TypeInv, Shutdown
    PROVE  TypeInv'
<1> USE DEF TypeInv
<1>1. \A p \in Plugins : plugins[p] \in Entry
  BY DEF MapOK
<1>2. CASE MarkAll
  <2>1. \A p \in Plugins : MoveTo(plugins[p], "Draining") \in Entry
    BY <1>1, MoveType DEF PluginStates
  <2>2. MapOK'
    BY <1>1, <1>2, <2>1 DEF MarkAll, MapOK
  <2> QED
    BY <1>2, <2>2
       DEF MarkAll, TasksOK, LoopsOK, BusOK, QueueOK, CountersOK, PhaseOK
<1>3. CASE DrainAll
  <2>1. \A p \in Plugins : Drained(plugins[p]) \in Entry
    BY <1>1, DrainedType
  <2>2. MapOK'
    BY <1>1, <1>3, <2>1 DEF DrainAll, MapOK
  <2>3. BusOK' /\ alive' \subseteq Instances
    BY <1>3, DrainType DEF DrainAll, PhaseOK, CountersOK
  <2> QED
    BY <1>3, <2>2, <2>3
       DEF DrainAll, TasksOK, LoopsOK, QueueOK, CountersOK, PhaseOK
<1>4. CASE KillAll
  <2>1. \A p \in Plugins : [plugins[p] EXCEPT !.child = NoInst] \in Entry
    BY <1>1 DEF Entry, NoInst
  <2>2. MapOK'
    BY <1>1, <1>4, <2>1 DEF KillAll, MapOK
  <2>3. alive' \subseteq Instances
    BY <1>4 DEF KillAll, KillChildren, CountersOK
  <2> QED
    BY <1>4, <2>2, <2>3
       DEF KillAll, TasksOK, LoopsOK, BusOK, QueueOK, CountersOK, PhaseOK
<1>5. CASE NameAll \/ Exit
  BY <1>5
     DEF NameAll, Exit, MapOK, TasksOK, LoopsOK, BusOK, QueueOK, CountersOK, PhaseOK
<1> QED
  BY <1>2, <1>3, <1>4, <1>5 DEF Shutdown

\* The types hold when the daemon starts.
LEMMA InitType == Init => TypeInv
<1> SUFFICES ASSUME Init PROVE TypeInv
  OBVIOUS
<1>1. MapOK
  <2>1. /\ 0 \in 0 .. Threshold
        /\ 0 \in 0 .. MaxAttempts
        /\ 0 \in 0 .. MaxAttempts + 1
    BY BoundsAssumption
  <2> QED
    BY <2>1, Zenon DEF Init, MapOK, Entry, NoInst
<1>2. TasksOK
  <2>1. ASSUME NEW c \in BootPlugins
        PROVE  GoodTask([Rest("enter") EXCEPT !.job = "start", !.plugin = c])
    BY PluginsAssumption
       DEF GoodTask, Task, Rest, TaskPcs, StartPcs, InstPcs, Jobs, NoInst
  <2>2. \A c \in Callers :
          /\ task[c] = IF c \in BootPlugins
                       THEN [Rest("enter") EXCEPT !.job = "start", !.plugin = c]
                       ELSE Rest(IF c \in Plugins THEN "done" ELSE "idle")
          /\ GoodTask(task[c])
    BY <2>1, RestType DEF Init
  <2> QED
    BY <2>2 DEF TasksOK, Init, GoodTask
<1>3. LoopsOK
  BY DEF Init, LoopsOK, GoodLoop, Loop, LoopPcs, NoInst
<1>4. QueueOK
  <2>1. queue = << >>
    BY DEF Init
  <2> QED
    BY <2>1 DEF QueueOK
<1>5. CountersOK
  <2>1. alive = {} /\ next = 1 /\ faults = 0
    BY DEF Init
  <2> QED
    BY <2>1, BoundsAssumption DEF CountersOK
<1>6. BusOK /\ PhaseOK
  BY DEF Init, BusOK, PhaseOK
<1> QED
  BY <1>1, <1>2, <1>3, <1>4, <1>5, <1>6 DEF TypeInv

\* A stuttering step keeps them.
LEMMA StutterType == TypeInv /\ UNCHANGED vars => TypeInv'
BY DEF vars, TypeInv, MapOK, TasksOK, LoopsOK, BusOK, QueueOK, CountersOK, PhaseOK,
       shutdown

\* What every step of the manager is, caller by caller and loop by loop.
LEMMA NextType == TypeInv /\ [Next]_vars => TypeInv'
BY StartType, TakeRequestType, RestartType, CheckType, DieType, ShutdownType,
   StutterType
   DEF Next, Step

\* The strengthened types hold always: a caller inside a start knows its plugin and
\* its instance, a loop that runs knows its plugin.
THEOREM TypeInvariance == Spec => []TypeInv
<1> QED
  BY InitType, NextType, PTL DEF Spec

\* Every variable has its type in every state of the manager.
THEOREM TypeCorrect == Spec => []TypeOK
<1>1. TypeInv => TypeOK
  BY DEF TypeInv, MapOK, TasksOK, LoopsOK, BusOK, QueueOK, CountersOK, PhaseOK, TypeOK
<1> QED
  BY <1>1, TypeInvariance, PTL
=============================================================================
