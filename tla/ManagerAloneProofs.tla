-------------------------- MODULE ManagerAloneProofs --------------------------
(***************************************************************************)
(* The manager left to itself: no operator asks for a restart and no file  *)
(* watcher runs.  Then every plugin is in at most one hand, which goes     *)
(* round from its start to its health-check loop, from the loop that       *)
(* crashed to the queue, and from the queue to the coordinator; no restart *)
(* is lost or asked for twice, and the registry knows the instance whose   *)
(* health is checked.  With an operator or a watcher this is not so: they  *)
(* take a plugin out of the hand that has it.                              *)
(***************************************************************************)
EXTENDS ManagerOwnershipProofs

LeftAlone == Operators = {} /\ Watchers = {}

\* A caller that has a plugin in hand, and a loop that has.
Busy(c) == task[c].pc \notin { "idle", "done", "finish" }
Live(i) == loops[i].pc \notin { "off", "ended" }

\* All that callers do is to start plugins.
OnlyStarts ==
    \A c \in Callers :
        /\ task[c].pc \notin { "restart", "drain", "retry", "gone" }
        /\ task[c].pc \in { "idle", "done" } => task[c].plugin = NoPlugin

\* The flag is the coordinator's.
FlagIsHeld ==
    \A p \in Plugins : plugins[p].starting =>
        task[Coordinator].plugin = p /\ task[Coordinator].pc \in StartingPcs

\* No two of the starts, the loops and the queued requests are about one plugin.
OneHand ==
    /\ \A i, j \in Instances :
          Live(i) /\ Live(j) /\ loops[i].plugin = loops[j].plugin => i = j
    /\ \A m, n \in DOMAIN queue : queue[m] = queue[n] => m = n
    /\ \A c \in Callers : Busy(c) =>
          /\ \A i \in Instances : Live(i) => loops[i].plugin # task[c].plugin
          /\ \A n \in DOMAIN queue : queue[n] # task[c].plugin
    /\ \A i \in Instances : Live(i) =>
          \A n \in DOMAIN queue : queue[n] # loops[i].plugin
    /\ \A i \in Instances : loops[i].resend => loops[i].pc \in { "dereg", "send" }

\* What the proofs below start from.
Ground == TypeInv /\ StartInv /\ Numbered /\ OnlyStarts /\ FlagIsHeld

-----------------------------------------------------------------------------
(* What callers do that nobody interferes with.                            *)

\* No restart begins, and none is abandoned.
LEMMA AloneActs ==
    ASSUME LeftAlone, OnlyStarts, NEW c \in Callers, Step(c)
    PROVE  /\ Start(c) \/ TakeRequest(c)
           /\ ~HangsUp(c)
<1>1. task[c].pc \notin { "restart", "drain", "retry" } /\ c \notin Operators \cup Watchers
  BY DEF OnlyStarts, LeftAlone
<1> QED
  BY <1>1
     DEF Step, Restart, RestartRequested, NewManifest, ManifestChanged, SeenStuck,
         RestartRefused, RestartAccepted, Drain, RetryWatch, Disconnect,
         DisconnectInDrain, HangsUp, At

\* The callers are the boot tasks and the coordinator.
LEMMA AloneCallers ==
    ASSUME LeftAlone
    PROVE  Callers = Plugins \cup { Coordinator } /\ Coordinator \notin Plugins
BY CallersAssumption DEF LeftAlone, Callers

\* Two callers that are busy are busy with different plugins.
LEMMA OneBusy ==
    ASSUME LeftAlone, BootsAlone, NEW c \in Callers, NEW d \in Callers, c # d,
           Busy(c), Busy(d)
    PROVE  task[c].plugin # task[d].plugin
BY AloneCallers DEF BootsAlone, BootRunning, Busy

\* The way of a plugin through a step of a caller.
Keeps(c) == /\ Busy(c) /\ Busy(c)'
            /\ task'[c].plugin = task[c].plugin
            /\ queue' = queue /\ loops' = loops
Requeues(c) == /\ Busy(c) /\ ~Busy(c)' /\ c \in Plugins
               /\ task[c].pc \in { "spawn", "dial", "register" }
               /\ queue' = Append(queue, task[c].plugin) /\ loops' = loops
Finishes(c) == task'[c].pc = "finish" /\ task'[c].plugin = task[c].plugin
Drops(c) == /\ ~Busy(c)' /\ c = Coordinator
            /\ task[c].pc \notin { "guard", "enter", "insert" }
            /\ FinishStart(c) \/ Finishes(c)
            /\ queue' = queue /\ loops' = loops
HandsOver(c) == /\ Busy(c) /\ ~Busy(c)' /\ Monitor(c) /\ queue' = queue
                /\ c \notin Plugins => Finishes(c)
Receives(c) == /\ ~Busy(c) /\ Busy(c)' /\ c = Coordinator
             /\ queue # << >> /\ queue' = Tail(queue) /\ loops' = loops
             /\ task'[c].plugin = queue[1] /\ task'[c].pc = "guard"

\* There are five of them.
LEMMA StepKinds ==
    ASSUME LeftAlone, Ground, NEW c \in Callers, Step(c)
    PROVE  Keeps(c) \/ Requeues(c) \/ Drops(c) \/ HandsOver(c) \/ Receives(c)
<1>1. TasksOK /\ task[c] \in Task /\ queue \in Seq(Plugins)
  BY DEF Ground, TypeInv, TasksOK, QueueOK
<1>2. c \notin Plugins => c = Coordinator
  BY AloneCallers
<1>3. Return(c) => ~Busy(c)'
  BY <1>1 DEF Return, Rest, TasksOK, Busy
<1>4. CASE \/ BeginStart(c) \/ Insert(c) \/ Reap(c) \/ Spawn(c) \/ StoreChild(c)
           \/ Dial(c) \/ Handshake(c) \/ StashChannel(c) \/ Connect(c) \/ Announce(c)
  BY <1>1, <1>4, Moved
     DEF BeginStart, Insert, Reap, Spawn, StoreChild, Dial, Handshake, StashChannel,
         Connect, Announce, At, Keeps, Busy
<1>5. CASE Enter(c)
  <2>1. task'[c] = [task[c] EXCEPT !.pc = "insert", !.inst = next]
    BY <1>1, <1>5 DEF Enter, TasksOK
  <2>2. task'[c].pc = "insert" /\ task'[c].plugin = task[c].plugin
    BY <1>1, <2>1 DEF Task
  <2>3. task[c].pc = "enter" /\ queue' = queue /\ loops' = loops
    BY <1>5 DEF Enter, At
  <2> QED
    BY <2>2, <2>3 DEF Keeps, Busy
<1>6. CASE RegisterRpc(c)
  <2>1. task'[c] = [task[c] EXCEPT !.pc = "connect", !.todo = CapsOf[task[c].plugin]]
    BY <1>1, <1>6 DEF RegisterRpc, TasksOK
  <2>2. task'[c].pc = "connect" /\ task'[c].plugin = task[c].plugin
    BY <1>1, <2>1 DEF Task
  <2>3. task[c].pc = "register" /\ queue' = queue /\ loops' = loops
    BY <1>6 DEF RegisterRpc, At
  <2> QED
    BY <2>2, <2>3 DEF Keeps, Busy
<1>7. CASE Advertise(c)
  <2>1. PICK cap : task' = [task EXCEPT
                      ![c].todo = @ \ { cap },
                      ![c].pc = IF task[c].todo = { cap } THEN "ready" ELSE @]
    BY <1>7 DEF Advertise
  <2>2. task'[c] = [task[c] EXCEPT !.todo = @ \ { cap },
                      !.pc = IF task[c].todo = { cap } THEN "ready" ELSE @]
    BY <1>1, <2>1 DEF TasksOK
  <2>3. task'[c].plugin = task[c].plugin /\ task'[c].pc \in { "ready", task[c].pc }
    BY <1>1, <2>2 DEF Task
  <2> QED
    BY <1>7, <2>3 DEF Advertise, At, Keeps, Busy
<1>8. CASE SpawnFails(c) \/ DialFails(c) \/ RegisterFails(c)
  <2>1. FailStart(c) /\ loops' = loops /\ task[c].pc \in { "spawn", "dial", "register" }
    BY <1>8 DEF SpawnFails, DialFails, RegisterFails, At
  <2>2. CASE c \in Plugins
    BY <1>3, <2>1, <2>2 DEF FailStart, Requeues, Busy
  <2>3. CASE c \notin Plugins
    BY <1>1, <1>2, <2>1, <2>3, Moved DEF FailStart, Drops, Finishes, Busy
  <2> QED
    BY <2>2, <2>3
<1>9. CASE Monitor(c)
  BY <1>1, <1>3, <1>9, Moved DEF Monitor, At, HandsOver, Finishes, Busy
<1>10. CASE FinishStart(c)
  <2>1. c \notin Plugins
    BY <1>10 DEF Ground, StartInv, BootsAlone, BootRunning, BootPcs, FinishStart, At
  <2> QED
    BY <1>2, <1>3, <1>10, <2>1 DEF FinishStart, At, Drops
<1>11. ~SkipStart(c)
  <2>1. ASSUME SkipStart(c) PROVE FALSE
    <3>1. c = Coordinator /\ task[c].pc = "guard" /\ task[c].plugin \in Plugins
      BY <1>1, <1>2, <2>1, BusyTask
         DEF Ground, StartInv, BootsAlone, BootRunning, BootPcs, SkipStart, At
    <3> QED
      BY <2>1, <3>1 DEF Ground, FlagIsHeld, SkipStart, StartingPcs
  <2> QED
    BY <2>1
<1>12. CASE TakeRequest(c)
  <2>1. task'[c] = [Rest("guard") EXCEPT !.job = "start", !.plugin = Head(queue)]
    BY <1>1, <1>12 DEF TakeRequest, TasksOK
  <2>2. task'[c].plugin = queue[1] /\ task'[c].pc = "guard"
    <3>1. task'[c].plugin = Head(queue) /\ task'[c].pc = "guard"
      BY <2>1 DEF Rest
    <3>2. Head(queue) = queue[1]
      BY <1>1, <1>12 DEF TakeRequest
    <3> QED
      BY <3>1, <3>2
  <2>3. /\ task[c].pc = "idle" /\ c = Coordinator /\ queue # << >>
        /\ queue' = Tail(queue) /\ loops' = loops
    BY <1>12 DEF TakeRequest, At
  <2>4. ~Busy(c) /\ Busy(c)'
    BY <2>2, <2>3 DEF Busy
  <2> QED
    BY <2>2, <2>3, <2>4 DEF Receives
<1>13. Start(c) \/ TakeRequest(c)
  BY AloneActs DEF Ground
<1> QED
  BY <1>4, <1>5, <1>6, <1>7, <1>8, <1>9, <1>10, <1>11, <1>12, <1>13 DEF Start

\* The way of a plugin through a step of its loop.
LEMMA CheckKinds ==
    ASSUME TypeInv, NEW i \in Instances, Check(i) \/ Die(i)
    PROVE  /\ Live(i)' => Live(i)
           /\ \A j \in Instances \ { i } : loops'[j] = loops[j]
           /\ loops'[i].plugin = loops[i].plugin
           /\ \/ queue' = queue
              \/ /\ queue' = Append(queue, loops[i].plugin)
                 /\ CrashSend(i) /\ Live(i) /\ ~Live(i)'
           /\ \/ loops'[i].resend = loops[i].resend
                 /\ \/ loops[i].pc = "dereg" /\ loops'[i].pc = "send"
                    \/ loops[i].pc \notin { "dereg", "send" }
              \/ Crash(i) /\ loops'[i].pc = "dereg"
              \/ CrashSend(i) /\ ~loops'[i].resend
              \/ loops' = loops
<1>1. loops[i] \in Loop /\ loops \in [Instances -> Loop]
  BY DEF TypeInv, LoopsOK
<1>2. ASSUME NEW pc, GotoLoop(i, pc)
      PROVE  loops'[i].pc = pc /\ loops'[i].resend = loops[i].resend
  <2>1. loops'[i] = [loops[i] EXCEPT !.pc = pc, !.chan = NoInst]
    BY <1>1, <1>2 DEF GotoLoop
  <2> QED
    BY <1>1, <2>1 DEF Loop
<1>3. CASE Tick(i)
  <2>1. ASSUME NEW ch, loops' = [loops EXCEPT ![i].pc = "rpc", ![i].chan = ch]
        PROVE  loops'[i].resend = loops[i].resend
    <3>1. loops'[i] = [loops[i] EXCEPT !.pc = "rpc", !.chan = ch]
      BY <1>1, <2>1
    <3> QED
      BY <1>1, <3>1 DEF Loop
  <2> QED
    BY <1>2, <1>3, <2>1, CheckFrame DEF Check, Tick, LoopAt, Live
<1>4. CASE Reply(i) \/ NoReply(i) \/ Healthy(i) \/ Unhealthy(i) \/ CrashDeregister(i)
  BY <1>2, <1>4, CheckFrame
     DEF Check, Reply, NoReply, Healthy, Unhealthy, CrashDeregister, LoopAt, Live
<1>5. CASE Crash(i)
  <2>1. PICK b : loops' = [loops EXCEPT ![i].pc = "dereg", ![i].resend = b]
    BY <1>5 DEF Crash
  <2>2. loops'[i] = [loops[i] EXCEPT !.pc = "dereg", !.resend = b]
    BY <1>1, <2>1
  <2>3. loops'[i].pc = "dereg"
    BY <1>1, <2>2 DEF Loop
  <2> QED
    BY <1>5, <2>3, CheckFrame DEF Check, Crash, LoopAt, Live
<1>6. CASE CrashSend(i)
  <2>1. loops'[i] = [loops[i] EXCEPT !.pc = "ended", !.resend = FALSE]
    BY <1>1, <1>6 DEF CrashSend
  <2>2. loops'[i].pc = "ended" /\ ~loops'[i].resend
    BY <1>1, <2>1 DEF Loop
  <2> QED
    BY <1>6, <2>2, CheckFrame DEF Check, CrashSend, LoopAt, Live
<1>7. CASE Die(i)
  BY <1>7 DEF Die, Live
<1> QED
  BY <1>3, <1>4, <1>5, <1>6, <1>7 DEF Check

-----------------------------------------------------------------------------
(* One hand per plugin.                                                    *)

\* No caller comes to a label of the restarts.
LEMMA OnlyStartsStep ==
    ASSUME LeftAlone, TypeInv, OnlyStarts, [Next]_vars
    PROVE  OnlyStarts'
<1> SUFFICES ASSUME NEW d \in Callers
             PROVE  /\ task'[d].pc \notin { "restart", "drain", "retry", "gone" }
                    /\ task'[d].pc \in { "idle", "done" } => task'[d].plugin = NoPlugin
  BY DEF OnlyStarts
<1>1. CASE task'[d] = task[d]
  BY <1>1 DEF OnlyStarts
<1>2. CASE Step(d)
  <2>1. CASE TakeRequest(d)
    <3>1. task'[d] = [Rest("guard") EXCEPT !.job = "start", !.plugin = Head(queue)]
      BY <2>1 DEF TakeRequest, TypeInv, TasksOK
    <3> QED
      BY <3>1 DEF Rest
  <2>2. CASE Start(d)
    <3>1. ~Takes(d) /\ ~Leaves(d)
      BY <2>2, LeftAlone
         DEF LeftAlone, Takes, Leaves, Start, SkipStart, BeginStart, FinishStart, Enter,
             Insert, Reap, Spawn, SpawnFails, StoreChild, Dial, DialFails, Handshake,
             StashChannel, RegisterRpc, RegisterFails, Connect, Advertise, Announce,
             Monitor, At
    <3>2. CASE Continues(d)
      BY <3>2 DEF OnlyStarts, Continues, Successors
    <3>3. CASE Enters(d)
      BY <3>3 DEF Enters
    <3>4. CASE Returns(d)
      BY <3>4 DEF Returns, Rest
    <3> QED
      BY <1>2, <3>1, <3>2, <3>3, <3>4, CallerMoves
  <2> QED
    BY <1>2, <2>1, <2>2, AloneActs
<1>3. ASSUME NEW c \in Callers, Step(c), c # d PROVE task'[d] = task[d]
  BY <1>3, StepFrame
<1> QED
  BY <1>1, <1>2, <1>3, CheckFrame, ShutdownFrame DEF Next, vars

\* The coordinator sets the flag of the plugin it is about to start, and keeps to
\* that plugin until it has cleared it.
LEMMA FlagIsHeldStep ==
    ASSUME LeftAlone, Ground, [Next]_vars
    PROVE  FlagIsHeld'
<1> SUFFICES ASSUME NEW p \in Plugins, plugins'[p].starting
             PROVE  /\ task'[Coordinator].plugin = p
                    /\ task'[Coordinator].pc \in StartingPcs
  BY DEF FlagIsHeld
<1> DEFINE d == Coordinator
<1>1. /\ d \in Callers /\ TasksOK /\ plugins \in [Plugins -> Entry] /\ plugins[p] \in Entry
      /\ TypeInv
  BY DEF Callers, Ground, TypeInv, MapOK
<1>2. ASSUME NEW c \in Callers, BeginStart(c), task[c].plugin = p
      PROVE  task'[d].plugin = p /\ task'[d].pc \in StartingPcs
  <2>1. c = d
    BY <1>2, AloneCallers
       DEF Ground, StartInv, BootsAlone, BootRunning, BootPcs, BeginStart, At
  <2> QED
    BY <1>1, <1>2, <2>1, Moved DEF BeginStart, StartingPcs, StartPcs
<1>3. ASSUME NEW c \in Callers, FinishStart(c), task[c].plugin = p PROVE FALSE
  BY <1>1, <1>3 DEF FinishStart, Entry
<1>4. ASSUME plugins[p].starting, ~FinishStart(d)
      PROVE  task'[d].plugin = p /\ task'[d].pc \in StartingPcs
  <2>1. task[d].plugin = p /\ task[d].pc \in StartingPcs
    BY <1>4 DEF Ground, FlagIsHeld
  <2>2. CASE task'[d] = task[d]
    BY <2>1, <2>2
  <2>3. CASE Step(d)
    <3>1. ~HangsUp(d)
      BY <1>1, <2>3, AloneActs DEF Ground
    <3>2. task[d].pc # "finish"
      BY <1>1, <1>4, <2>3, <3>1, PcActs
    <3>3. Keeps(d) \/ Drops(d) \/ HandsOver(d)
      BY <1>1, <2>1, <2>3, <3>2, StepKinds, AloneCallers
         DEF Requeues, Receives, Busy, StartingPcs, StartPcs
    <3>4. CASE Keeps(d)
      <4>1. ~Returns(d) /\ ~Takes(d) /\ ~Leaves(d)
        BY <2>1, <3>4
           DEF LeftAlone, Keeps, Busy, Returns, Rest, Takes, Leaves, StartingPcs, StartPcs
      <4>2. Continues(d) \/ Enters(d)
        BY <1>1, <2>3, <4>1, CallerMoves
      <4> QED
        BY <2>1, <4>2 DEF Continues, Successors, Enters, StartingPcs, StartPcs
    <3>5. CASE Drops(d) \/ HandsOver(d)
      BY <1>4, <2>1, <3>5, AloneCallers
         DEF Drops, HandsOver, Finishes, StartingPcs, StartPcs
    <3> QED
      BY <3>3, <3>4, <3>5
  <2>4. ASSUME NEW c \in Callers, Step(c), c # d PROVE task'[d] = task[d]
    BY <1>1, <2>4, StepFrame
  <2> QED
    BY <1>1, <2>2, <2>3, <2>4, CheckFrame, ShutdownFrame DEF Next, vars
<1>5. ~(plugins[p].starting /\ FinishStart(d))
  BY <1>1, <1>3 DEF Ground, FlagIsHeld
<1> QED
  BY <1>1, <1>2, <1>3, <1>4, <1>5, FlagFrame

\* A start that hands its plugin over to a loop.
LEMMA HandOver ==
    ASSUME Ground, OneHand, NEW c \in Callers, Monitor(c)
    PROVE  /\ task[c].inst \in Instances
           /\ loops'[task[c].inst].plugin = task[c].plugin
           /\ loops'[task[c].inst].pc = "tick"
           /\ ~loops'[task[c].inst].resend
           /\ loops[task[c].inst].pc = "off"
           /\ \A i \in Instances \ { task[c].inst } : loops'[i] = loops[i]
<1> DEFINE i == task[c].inst
<1>1. i \in Instances /\ task[c].pc = "reset"
  BY MonitorSpawns DEF Ground
<1>2. loops[i] \in Loop /\ loops \in [Instances -> Loop] /\ loops[i].pc = "off"
  BY <1>1 DEF Ground, TypeInv, LoopsOK, Numbered, InstPcs, StartPcs
<1>3. loops'[i] = [loops[i] EXCEPT !.pc = "tick", !.plugin = task[c].plugin]
  BY <1>1, <1>2 DEF Monitor
<1>4. loops'[i].resend = loops[i].resend /\ loops[i].resend \in BOOLEAN
  BY <1>2, <1>3 DEF Loop
<1> QED
  BY <1>1, <1>2, <1>4, MonitorSpawns DEF Ground, OneHand

\* A step of a caller passes a plugin on, and takes none that is in another hand.
LEMMA CallerPasses ==
    ASSUME LeftAlone, Ground, OneHand, NEW c \in Callers, Step(c)
    PROVE  OneHand'
<1>1. \A d \in Callers \ { c } : task'[d] = task[d]
  BY StepFrame DEF Ground
<1>2. queue \in Seq(Plugins)
  BY DEF Ground, TypeInv, QueueOK
<1>3. CASE Keeps(c)
  <2>1. \A d \in Callers : Busy(d)' => Busy(d) /\ task'[d].plugin = task[d].plugin
    BY <1>1, <1>3 DEF Keeps, Busy
  <2> QED
    BY <1>3, <2>1 DEF Keeps, OneHand, Live
<1>4. CASE Drops(c)
  <2>1. \A d \in Callers : Busy(d)' => Busy(d) /\ task'[d].plugin = task[d].plugin
    BY <1>1, <1>4 DEF Drops, Busy
  <2> QED
    BY <1>4, <2>1 DEF Drops, OneHand, Live
<1>5. CASE Requeues(c)
  <2> DEFINE p == task[c].plugin
  <2>1. \A d \in Callers : Busy(d)' => /\ Busy(d) /\ task'[d].plugin = task[d].plugin
                                       /\ task[d].plugin # p
    BY <1>1, <1>5, OneBusy DEF Requeues, Busy, Ground, StartInv
  <2>2. ASSUME NEW n \in DOMAIN queue'
        PROVE  \/ n \in DOMAIN queue /\ queue'[n] = queue[n] /\ queue[n] # p
               \/ n = Len(queue) + 1 /\ queue'[n] = p
    BY <1>2, <1>5, <2>2 DEF Requeues, OneHand
  <2>3. \A i \in Instances : Live(i) => loops[i].plugin # p
    BY <1>5 DEF Requeues, OneHand
  <2> QED
    BY <1>5, <2>1, <2>2, <2>3 DEF Requeues, OneHand, Live
<1>6. CASE HandsOver(c)
  <2> DEFINE k == task[c].inst
             p == task[c].plugin
  <2>1. \A d \in Callers : Busy(d)' => /\ Busy(d) /\ task'[d].plugin = task[d].plugin
                                       /\ task[d].plugin # p
    BY <1>1, <1>6, OneBusy DEF HandsOver, Busy, Ground, StartInv
  <2>2. ASSUME NEW i \in Instances, Live(i)'
        PROVE  \/ i = k /\ loops'[i].plugin = p /\ ~loops'[i].resend
               \/ i # k /\ Live(i) /\ loops'[i] = loops[i] /\ loops[i].plugin # p
    BY <1>6, <2>2, HandOver DEF HandsOver, Live, OneHand
  <2>3. \A n \in DOMAIN queue : queue[n] # p
    BY <1>6 DEF HandsOver, OneHand
  <2>4. ASSUME NEW i \in Instances, loops'[i].resend
        PROVE  loops'[i].pc \in { "dereg", "send" }
    BY <1>6, <2>4, HandOver DEF HandsOver, OneHand
  <2> QED
    BY <1>6, <2>1, <2>2, <2>3, <2>4 DEF HandsOver, OneHand
<1>7. CASE Receives(c)
  <2> DEFINE p == queue[1]
  <2>1. ASSUME NEW d \in Callers, Busy(d)'
        PROVE  \/ d = c /\ task'[d].plugin = p
               \/ d # c /\ Busy(d) /\ task'[d].plugin = task[d].plugin
    BY <1>1, <1>7, <2>1 DEF Receives, Busy
  <2>2. ASSUME NEW n \in DOMAIN queue'
        PROVE  n + 1 \in DOMAIN queue /\ queue'[n] = queue[n + 1] /\ n \in Nat
               /\ 1 \in DOMAIN queue /\ n + 1 # 1
    BY <1>2, <1>7, <2>2 DEF Receives
  <2>3. \A n \in DOMAIN queue' : queue'[n] # p
    BY <2>2 DEF OneHand
  <2>4. \A i \in Instances : Live(i)' => Live(i) /\ loops'[i] = loops[i]
                                        /\ loops[i].plugin # p
    BY <1>2, <1>7 DEF Receives, Live, OneHand
  <2>5. ASSUME NEW d \in Callers, Busy(d)', NEW n \in DOMAIN queue'
        PROVE  queue'[n] # task'[d].plugin
    BY <2>1, <2>2, <2>3, <2>5 DEF OneHand
  <2>6. ASSUME NEW d \in Callers, Busy(d)', NEW i \in Instances, Live(i)'
        PROVE  loops'[i].plugin # task'[d].plugin
    BY <2>1, <2>4, <2>6 DEF OneHand
  <2>7. ASSUME NEW m \in DOMAIN queue', NEW n \in DOMAIN queue', queue'[m] = queue'[n]
        PROVE  m = n
    BY <2>2, <2>7 DEF OneHand
  <2>8. ASSUME NEW i \in Instances, Live(i)', NEW n \in DOMAIN queue'
        PROVE  queue'[n] # loops'[i].plugin
    BY <2>2, <2>4, <2>8 DEF OneHand
  <2> QED
    BY <1>7, <2>4, <2>5, <2>6, <2>7, <2>8 DEF Receives, OneHand
<1> QED
  BY <1>3, <1>4, <1>5, <1>6, <1>7, StepKinds

\* So does a step of a loop.
LEMMA LoopPasses ==
    ASSUME Ground, OneHand, NEW i \in Instances, Check(i) \/ Die(i)
    PROVE  OneHand'
<1>1. task' = task /\ queue \in Seq(Plugins) /\ TypeInv
  BY CheckFrame DEF Ground, TypeInv, QueueOK
<1>2. \A j \in Instances : Live(j)' => Live(j)
  BY <1>1, CheckKinds DEF Live
<1>3. \A j \in Instances : loops'[j].plugin = loops[j].plugin
  BY <1>1, CheckKinds
<1>4. ASSUME NEW j \in Instances, loops'[j].resend
      PROVE  loops'[j].pc \in { "dereg", "send" }
  BY <1>1, <1>4, CheckKinds DEF OneHand
<1>5. \A c \in Callers : Busy(c)' <=> Busy(c)
  BY <1>1 DEF Busy
<1>6. CASE queue' = queue
  BY <1>1, <1>2, <1>3, <1>4, <1>5, <1>6 DEF OneHand
<1>7. CASE queue' # queue
  <2> DEFINE p == loops[i].plugin
  <2>1. queue' = Append(queue, p) /\ Live(i) /\ ~Live(i)'
    BY <1>1, <1>7, CheckKinds
  <2>2. ASSUME NEW n \in DOMAIN queue'
        PROVE  \/ n \in DOMAIN queue /\ queue'[n] = queue[n] /\ queue[n] # p
               \/ n = Len(queue) + 1 /\ queue'[n] = p
    BY <1>1, <2>1, <2>2 DEF OneHand
  <2>3. \A j \in Instances : Live(j)' => loops[j].plugin # p
    BY <1>2, <2>1 DEF OneHand
  <2>4. \A c \in Callers : Busy(c) => task[c].plugin # p
    BY <2>1 DEF OneHand
  <2> QED
    BY <1>1, <1>2, <1>3, <1>4, <1>5, <2>2, <2>3, <2>4 DEF OneHand
<1> QED
  BY <1>6, <1>7

\* The plugin is in one hand wherever it goes.
LEMMA OneHandStep ==
    ASSUME LeftAlone, Ground, OneHand, [Next]_vars
    PROVE  OneHand'
<1>1. CASE Shutdown \/ UNCHANGED vars
  <2>1. task' = task /\ loops' = loops /\ queue' = queue
    BY <1>1, ShutdownFrame DEF Shutdown, NameAll, MarkAll, DrainAll, KillAll, Exit, vars
  <2> QED
    BY <2>1 DEF OneHand, Live, Busy
<1> QED
  BY <1>1, CallerPasses, LoopPasses DEF Next

-----------------------------------------------------------------------------
(* Restart requests are neither lost nor made twice.                       *)

\* What a start does to the restart flag and to the channel of an entry.
LEMMA StartMarks ==
    ASSUME TypeInv, NEW c \in Callers, Start(c) \/ TakeRequest(c), NEW p \in Plugins
    PROVE  /\ plugins'[p].scheduled => plugins[p].scheduled
           /\ Insert(c) /\ p = task[c].plugin => ~plugins'[p].scheduled
           /\ plugins'[p].channel # plugins[p].channel =>
                 p = task[c].plugin /\ (Insert(c) \/ StashChannel(c))
           /\ StashChannel(c) /\ p = task[c].plugin =>
                 plugins'[p].channel = task[c].inst
<1> DEFINE e == plugins[p]
           Same == plugins'[p].scheduled = e.scheduled /\ plugins'[p].channel = e.channel
<1>1. plugins \in [Plugins -> Entry] /\ e \in Entry
  BY DEF TypeInv, MapOK
<1>2. ASSUME NEW q, NEW s, Move(q, s) PROVE Same
  <2>1. MoveTo(e, s).scheduled = e.scheduled /\ MoveTo(e, s).channel = e.channel
    BY <1>1 DEF MoveTo, Entry
  <2> QED
    BY <1>1, <1>2, <2>1 DEF Move
<1>3. CASE Insert(c)
  <2>1. Refreshed(e).scheduled = FALSE
    BY <1>1 DEF Refreshed, Entry
  <2>2. plugins'[p] = IF p = task[c].plugin THEN Refreshed(e) ELSE e
    BY <1>1, <1>3 DEF Insert
  <2> QED
    BY <1>3, <2>1, <2>2 DEF Insert, StashChannel, At
<1>4. CASE StashChannel(c)
  <2>1. plugins'[p] = IF p = task[c].plugin
                      THEN [e EXCEPT !.channel = task[c].inst, !.attempts = 0,
                                     !.scheduled = FALSE]
                      ELSE e
    BY <1>1, <1>4 DEF StashChannel
  <2> QED
    BY <1>1, <1>4, <2>1 DEF Insert, StashChannel, At, Entry
<1>5. CASE Enter(c) \/ Handshake(c) \/ Announce(c)
  BY <1>2, <1>5 DEF Enter, Handshake, Announce, Insert, StashChannel, At
<1>6. CASE BeginStart(c) \/ FinishStart(c)
  <2>1. Same
    BY <1>1, <1>6 DEF BeginStart, FinishStart, Entry
  <2> QED
    BY <1>6, <2>1 DEF BeginStart, FinishStart, Insert, StashChannel, At
<1>7. CASE Reap(c) \/ StoreChild(c)
  <2>1. Same
    BY <1>1, <1>7 DEF Reap, StoreChild, Entry
  <2> QED
    BY <1>7, <2>1 DEF Reap, StoreChild, Insert, StashChannel, At
<1>8. CASE Monitor(c)
  <2>1. Same
    BY <1>1, <1>8 DEF Monitor, Entry
  <2> QED
    BY <1>8, <2>1 DEF Monitor, Insert, StashChannel, At
<1>9. CASE plugins' = plugins /\ ~Insert(c) /\ ~StashChannel(c)
  BY <1>9
<1> QED
  BY <1>3, <1>4, <1>5, <1>6, <1>7, <1>8, <1>9
     DEF Start, SkipStart, Spawn, SpawnFails, Dial, DialFails, RegisterRpc,
         RegisterFails, Connect, Advertise, TakeRequest

\* A plugin marked as scheduled has its request on the way.
OnItsWay(p) ==
    \/ \E i \in Instances : loops[i].plugin = p /\ loops[i].resend
    \/ \E n \in DOMAIN queue : queue[n] = p
    \/ /\ task[Coordinator].plugin = p
       /\ task[Coordinator].pc \in { "guard", "enter", "insert" }

ScheduledOnItsWay == \A p \in Plugins : plugins[p].scheduled => OnItsWay(p)

\* At these labels the coordinator has one thing to do.
LEMMA GuardActs ==
    ASSUME LeftAlone, Ground, Step(Coordinator),
           task[Coordinator].pc \in { "guard", "enter", "insert" }
    PROVE  /\ task'[Coordinator].plugin = task[Coordinator].plugin
           /\ \/ task'[Coordinator].pc \in { "enter", "insert" }
              \/ Insert(Coordinator)
<1> DEFINE d == Coordinator
<1>1. d \in Callers /\ TypeInv
  BY DEF Callers, Ground
<1>2. Keeps(d)
  BY <1>1, StepKinds, AloneCallers
     DEF Requeues, Drops, HandsOver, Monitor, At, Receives, Busy
<1>3. Continues(d) \/ Enters(d)
  BY <1>1, <1>2, CallerMoves
     DEF LeftAlone, Keeps, Busy, Takes, Returns, Rest, Leaves
<1>4. task[d].pc = "insert" => Insert(d)
  BY <1>1, MoreActs, AloneActs DEF Ground
<1> QED
  BY <1>2, <1>3, <1>4 DEF Keeps, Continues, Enters, Successors

\* A request goes from the loop to the queue, from the queue to the coordinator,
\* and is over with the step that clears the flag.
LEMMA ScheduledStep ==
    ASSUME LeftAlone, Ground, OneHand, ScheduledOnItsWay, [Next]_vars
    PROVE  ScheduledOnItsWay'
<1> SUFFICES ASSUME NEW p \in Plugins, plugins'[p].scheduled
             PROVE  OnItsWay(p)'
  BY DEF ScheduledOnItsWay
<1> DEFINE d == Coordinator
<1>1. TypeInv /\ queue \in Seq(Plugins) /\ d \in Callers
  BY DEF Ground, TypeInv, QueueOK, Callers
<1>2. ASSUME NEW c \in Callers, Step(c) PROVE OnItsWay(p)'
  <2>1. plugins[p].scheduled /\ OnItsWay(p)
    BY <1>1, <1>2, AloneActs, StartMarks DEF Ground, ScheduledOnItsWay
  <2>2. ASSUME NEW i \in Instances, loops[i].plugin = p, loops[i].resend
        PROVE  loops'[i].plugin = p /\ loops'[i].resend
    <3>1. Monitor(c) => i # task[c].inst
      BY <2>2, HandOver DEF OneHand
    <3> QED
      BY <1>1, <1>2, <2>2, <3>1, StepFrame, HandOver
  <2>3. ASSUME NEW n \in DOMAIN queue, queue[n] = p PROVE OnItsWay(p)'
    <3>1. CASE queue' = queue
      BY <2>3, <3>1 DEF OnItsWay
    <3>2. CASE Requeues(c)
      <4>1. n \in DOMAIN queue' /\ queue'[n] = p
        BY <1>1, <2>3, <3>2 DEF Requeues
      <4> QED
        BY <4>1 DEF OnItsWay
    <3>3. CASE Receives(c)
      <4>1. CASE n = 1
        BY <2>3, <3>3, <4>1 DEF Receives, OnItsWay
      <4>2. CASE n # 1
        <5>1. n - 1 \in DOMAIN queue' /\ queue'[n - 1] = p
          BY <1>1, <2>3, <3>3, <4>2 DEF Receives
        <5> QED
          BY <5>1 DEF OnItsWay
      <4> QED
        BY <4>1, <4>2
    <3> QED
      BY <1>2, <3>1, <3>2, <3>3, StepKinds DEF Keeps, Drops, HandsOver
  <2>4. ASSUME task[d].plugin = p, task[d].pc \in { "guard", "enter", "insert" }
        PROVE  OnItsWay(p)'
    <3>1. CASE c = d
      <4>1. ~Insert(d)
        BY <1>1, <2>4, StartMarks DEF Start
      <4> QED
        BY <1>2, <2>4, <3>1, <4>1, GuardActs DEF OnItsWay
    <3>2. CASE c # d
      BY <1>1, <1>2, <2>4, <3>2, StepFrame DEF OnItsWay
    <3> QED
      BY <3>1, <3>2
  <2> QED
    BY <2>1, <2>2, <2>3, <2>4 DEF OnItsWay
<1>3. ASSUME NEW i \in Instances, Check(i) \/ Die(i) PROVE OnItsWay(p)'
  <2>1. task' = task
    BY <1>1, <1>3, CheckFrame
  <2>2. CASE plugins[p].scheduled
    <3>1. ASSUME NEW j \in Instances, loops[j].plugin = p, loops[j].resend
          PROVE  OnItsWay(p)'
      <4>1. CASE CrashSend(j)
        <5>1. queue' = Append(queue, p)
          BY <3>1, <4>1 DEF CrashSend
        <5>2. Len(queue) + 1 \in DOMAIN queue' /\ queue'[Len(queue) + 1] = p
          BY <1>1, <5>1
        <5> QED
          BY <5>2 DEF OnItsWay
      <4>2. CASE ~CrashSend(j)
        <5>1. loops[j].pc \in { "dereg", "send" }
          BY <3>1 DEF OneHand
        <5>2. loops'[j].plugin = p /\ loops'[j].resend
          BY <1>1, <1>3, <3>1, <4>2, <5>1, CheckKinds DEF Crash, LoopAt
        <5> QED
          BY <5>2 DEF OnItsWay
      <4> QED
        BY <4>1, <4>2
    <3>2. ASSUME NEW n \in DOMAIN queue, queue[n] = p PROVE OnItsWay(p)'
      <4>1. n \in DOMAIN queue' /\ queue'[n] = p
        BY <1>1, <1>3, <3>2, CheckKinds
      <4> QED
        BY <4>1 DEF OnItsWay
    <3> QED
      BY <2>1, <2>2, <3>1, <3>2 DEF ScheduledOnItsWay, OnItsWay
  <2>3. CASE ~plugins[p].scheduled
    <3>1. p = loops[i].plugin /\ Crash(i)
      BY <1>1, <1>3, <2>3, CheckSteers
    <3>2. loops'[i].plugin = p /\ loops'[i].resend
      <4> DEFINE n == Bump(plugins[p].attempts, MaxAttempts + 1)
                 should == ShouldRestart(plugins[p], p, n)
      <4>1. /\ plugins \in [Plugins -> Entry] /\ plugins[p] \in Entry
            /\ loops \in [Instances -> Loop] /\ loops[i] \in Loop
        BY <1>1 DEF TypeInv, MapOK, LoopsOK
      <4>2. /\ plugins' = [plugins EXCEPT ![p] =
                 [plugins[p] EXCEPT !.state = StateAfterCrash(@), !.attempts = n,
                                    !.scheduled = @ \/ should]]
            /\ loops' = [loops EXCEPT ![i].pc = "dereg", ![i].resend = should]
        BY <3>1 DEF Crash
      <4> HIDE DEF n, should
      <4>3. plugins'[p].scheduled = (plugins[p].scheduled \/ should)
        <5>1. plugins'[p] = [plugins[p] EXCEPT !.state = StateAfterCrash(@),
                               !.attempts = n, !.scheduled = @ \/ should]
          BY <4>1, <4>2
        <5> QED
          BY <4>1, <5>1 DEF Entry
      <4>4. should
        BY <2>3, <4>3
      <4>5. loops'[i] = [loops[i] EXCEPT !.pc = "dereg", !.resend = should]
        BY <4>1, <4>2
      <4>6. loops'[i].plugin = loops[i].plugin /\ loops'[i].resend = should
        BY <4>1, <4>5 DEF Loop
      <4> QED
        BY <3>1, <4>4, <4>6
    <3> QED
      BY <3>2 DEF OnItsWay
  <2> QED
    BY <2>2, <2>3
<1>4. CASE Shutdown \/ UNCHANGED vars
  <2>1. task' = task /\ loops' = loops /\ queue' = queue
    BY <1>4, ShutdownFrame DEF Shutdown, NameAll, MarkAll, DrainAll, KillAll, Exit, vars
  <2>2. plugins[p].scheduled
    BY <1>1, <1>4, ShutdownMarks DEF vars
  <2> QED
    BY <2>1, <2>2 DEF ScheduledOnItsWay, OnItsWay
<1> QED
  BY <1>2, <1>3, <1>4 DEF Next

\* What a request of p is.
LEMMA RequestPlaces ==
    ASSUME NEW p \in Plugins, NEW r
    PROVE  r \in Requests(p) <=>
              \/ \E i \in Instances : /\ loops[i].plugin = p /\ loops[i].resend
                                      /\ r = << "loop", i >>
              \/ \E n \in DOMAIN queue : queue[n] = p /\ r = << "queue", n >>
              \/ /\ task[Coordinator].plugin = p
                 /\ task[Coordinator].pc \in { "guard", "enter", "insert" }
                 /\ r = << "task", Coordinator >>
BY DEF Requests

\* One hand, one request.
LEMMA OnceRequested == OneHand => RequestedOnce
<1> SUFFICES ASSUME OneHand, NEW p \in Plugins, NEW r \in Requests(p), NEW s \in Requests(p)
             PROVE  r = s
  BY DEF RequestedOnce
<1> DEFINE InTask == /\ task[Coordinator].plugin = p
                     /\ task[Coordinator].pc \in { "guard", "enter", "insert" }
<1>1. ASSUME NEW i \in Instances, loops[i].plugin = p, loops[i].resend
      PROVE  /\ Live(i)
             /\ \A j \in Instances : loops[j].plugin = p /\ loops[j].resend => j = i
             /\ \A n \in DOMAIN queue : queue[n] # p
             /\ ~InTask
  <2>1. \A j \in Instances : loops[j].resend => Live(j)
    BY DEF OneHand, Live
  <2>2. InTask => Busy(Coordinator) /\ Coordinator \in Callers
    BY DEF Busy, Callers
  <2> QED
    BY <1>1, <2>1, <2>2 DEF OneHand
<1>2. InTask => \A n \in DOMAIN queue : queue[n] # p
  BY DEF OneHand, Busy, Callers
<1>3. \A m, n \in DOMAIN queue : queue[m] = p /\ queue[n] = p => m = n
  BY DEF OneHand
<1>4. CASE \E i \in Instances : /\ loops[i].plugin = p /\ loops[i].resend
                                /\ r = << "loop", i >>
  BY <1>1, <1>4, RequestPlaces
<1>5. CASE \E n \in DOMAIN queue : queue[n] = p /\ r = << "queue", n >>
  BY <1>1, <1>2, <1>3, <1>5, RequestPlaces
<1>6. CASE InTask /\ r = << "task", Coordinator >>
  BY <1>1, <1>2, <1>6, RequestPlaces
<1> QED
  BY <1>4, <1>5, <1>6, RequestPlaces

\* At first the boot tasks have their plugins in hand.
LEMMA AloneInit ==
    ASSUME LeftAlone, Init
    PROVE  Ground /\ OneHand /\ ScheduledOnItsWay
<1>1. TypeInv /\ StartInv
  BY InitType, StartInvInit
<1>2. /\ \A i \in Instances : loops[i].pc = "off" /\ loops[i].resend = FALSE
      /\ queue = << >>
      /\ \A p \in Plugins : ~plugins[p].starting /\ ~plugins[p].scheduled
  BY DEF Init
<1>3. ASSUME NEW c \in Callers
      PROVE  /\ task[c].pc \in { "enter", "idle", "done" }
             /\ task[c].pc # "enter" => task[c].plugin = NoPlugin
  BY DEF Init, Rest
<1>4. Numbered /\ OnlyStarts /\ FlagIsHeld
  BY <1>2, <1>3 DEF Numbered, OnlyStarts, FlagIsHeld, InstPcs, StartPcs
<1>5. OneHand /\ ScheduledOnItsWay
  BY <1>2, <1>3 DEF OneHand, ScheduledOnItsWay, Live
<1> QED
  BY <1>1, <1>4, <1>5 DEF Ground

\* The ground the proofs stand on is kept.
LEMMA GroundStep ==
    ASSUME LeftAlone, Ground, [Next]_vars
    PROVE  Ground'
BY NextType, BootsAloneStep, MarkedStep, OneStartStep, NumberedStep, OnlyStartsStep,
   FlagIsHeldStep
   DEF Ground, StartInv

\* Left to itself the manager never has two restarts of a plugin under way, so it
\* never spawns it twice.
THEOREM NoSecondRequest ==
    ASSUME LeftAlone
    PROVE  Spec => []RequestedOnce
<1>1. Init => Ground /\ OneHand
  BY AloneInit
<1>2. Ground /\ OneHand /\ [Next]_vars => (Ground /\ OneHand)'
  BY GroundStep, OneHandStep
<1> QED
  BY <1>1, <1>2, OnceRequested, PTL DEF Spec

\* Left to itself the manager loses no restart: a plugin marked as scheduled, which
\* no later crash would schedule again, is about to be started.
THEOREM NoLostRestart ==
    ASSUME LeftAlone
    PROVE  Spec => []ScheduledIsQueued
<1>1. Init => Ground /\ OneHand /\ ScheduledOnItsWay
  BY AloneInit
<1>2. Ground /\ OneHand /\ ScheduledOnItsWay /\ [Next]_vars
        => (Ground /\ OneHand /\ ScheduledOnItsWay)'
  BY GroundStep, OneHandStep, ScheduledStep
<1>3. ScheduledOnItsWay => ScheduledIsQueued
  <2> SUFFICES ASSUME NEW p \in Plugins, OnItsWay(p)
               PROVE  Requests(p) # {}
    BY DEF ScheduledOnItsWay, ScheduledIsQueued
  <2> QED
    BY RequestPlaces DEF OnItsWay
<1> QED
  BY <1>1, <1>2, <1>3, PTL DEF Spec

-----------------------------------------------------------------------------
(* The registry knows the instance whose health is checked.                *)

\* A start works with the channel it has stored.
ChannelPcs == { "register", "connect", "advertise", "ready", "reset" }
ChannelFits ==
    \A c \in Callers : task[c].pc \in ChannelPcs =>
        plugins[task[c].plugin].channel = task[c].inst

\* While a plugin has capabilities registered it is neither about to be started nor
\* waiting for it.
LatePcs == { "advertise", "ready", "reset" }
Late(p) ==
    /\ \A c \in Callers : Busy(c) /\ task[c].plugin = p => task[c].pc \in LatePcs
    /\ \A n \in DOMAIN queue : queue[n] # p
    /\ \A i \in Instances : loops[i].plugin = p => loops[i].pc # "send"

RegisteredLate == \A h \in registry : Late(h.plugin)

\* The channel of an entry is the business of the start of its plugin.
LEMMA ChannelFrame ==
    ASSUME LeftAlone, Ground, [Next]_vars, NEW p \in Plugins,
           plugins'[p].channel # plugins[p].channel
    PROVE  \E c \in Callers : /\ Step(c) /\ task[c].plugin = p
                              /\ Insert(c) \/ StashChannel(c)
<1>1. TypeInv /\ OnlyStarts
  BY DEF Ground
<1>2. ASSUME NEW i \in Instances, Check(i) \/ Die(i) PROVE FALSE
  BY <1>1, <1>2, CheckSteers
<1>3. ~Shutdown /\ ~UNCHANGED vars
  BY <1>1, ShutdownMarks DEF vars
<1>4. PICK c \in Callers : Step(c)
  BY <1>2, <1>3 DEF Next
<1> QED
  BY <1>1, <1>4, AloneActs, StartMarks

\* StashChannel is the step between.
LEMMA ChannelFitsStep ==
    ASSUME LeftAlone, Ground, ChannelFits, [Next]_vars
    PROVE  ChannelFits'
<1> SUFFICES ASSUME NEW d \in Callers, task'[d].pc \in ChannelPcs
             PROVE  plugins'[task'[d].plugin].channel = task'[d].inst
  BY DEF ChannelFits
<1> DEFINE p == task'[d].plugin
<1>1. TypeInv /\ TypeInv' /\ OnlyStarts
  BY NextType DEF Ground
<1>2. p \in Plugins
  BY <1>1, BusyTask DEF TypeInv, ChannelPcs, TasksOK, GoodTask
<1>3. CASE Step(d)
  <2>1. Continues(d)
    BY <1>1, <1>3, CallerMoves
       DEF Enters, Takes, Returns, Rest, Leaves, ChannelPcs
  <2>2. task[d].pc \in ChannelPcs \/ task[d].pc = "stash"
    BY <2>1 DEF Continues, Successors, ChannelPcs
  <2>3. CASE task[d].pc = "stash"
    <3>1. StashChannel(d)
      BY <1>1, <1>3, <2>3, AloneActs
         DEF Start, SkipStart, BeginStart, FinishStart, Enter, Insert, Reap, Spawn,
             SpawnFails, StoreChild, Dial, DialFails, Handshake, RegisterRpc,
             RegisterFails, Connect, Advertise, Announce, Monitor, TakeRequest, At
    <3> QED
      BY <1>1, <1>2, <2>1, <3>1, StartMarks DEF Continues, Start
  <2>4. CASE task[d].pc \in ChannelPcs
    <3>1. ~Insert(d) /\ ~StashChannel(d)
      BY <2>4 DEF Insert, StashChannel, At, ChannelPcs
    <3>2. plugins'[p].channel = plugins[p].channel
      BY <1>1, <1>2, <1>3, <3>1, AloneActs, StartMarks
    <3> QED
      BY <2>1, <2>4, <3>2 DEF ChannelFits, Continues
  <2> QED
    BY <2>2, <2>3, <2>4
<1>4. CASE task'[d] = task[d] /\ ~Step(d)
  <2>1. Busy(d) /\ plugins[p].channel = task[d].inst
    BY <1>4 DEF ChannelFits, ChannelPcs, Busy
  <2>2. ASSUME NEW c \in Callers, Step(c), task[c].plugin = p, Insert(c) \/ StashChannel(c)
        PROVE  FALSE
    <3>1. Busy(c) /\ c # d
      BY <1>4, <2>2 DEF Insert, StashChannel, At, Busy
    <3> QED
      BY <1>4, <2>1, <2>2, <3>1, OneBusy DEF Ground, StartInv
  <2> QED
    BY <1>2, <1>4, <2>1, <2>2, ChannelFrame
<1>5. ASSUME NEW c \in Callers, Step(c), c # d PROVE task'[d] = task[d]
  BY <1>1, <1>5, StepFrame
<1> QED
  BY <1>1, <1>3, <1>4, <1>5, CheckFrame, ShutdownFrame DEF Next, vars

\* A loop comes to its last step by deregistering.
LEMMA MovesToSend ==
    ASSUME TypeInv, NEW i \in Instances, Check(i) \/ Die(i), loops[i].pc # "send",
           ~CrashDeregister(i)
    PROVE  loops'[i].pc # "send"
BY DEF TypeInv, LoopsOK, Check, Tick, Reply, NoReply, Healthy, Unhealthy, Crash, CrashSend,
       Die, GotoLoop, LoopAt, Loop

\* A plugin stays late until its loop has deregistered it.
LEMMA LateStays ==
    ASSUME LeftAlone, Ground, OneHand, [Next]_vars, NEW p \in Plugins, Late(p),
           \A i \in Instances : loops[i].plugin = p => ~CrashDeregister(i)
    PROVE  Late(p)'
<1>1. TypeInv /\ queue \in Seq(Plugins)
  BY DEF Ground, TypeInv, QueueOK
<1>2. ASSUME NEW c \in Callers, Step(c) PROVE Late(p)'
  <2>1. ASSUME NEW d \in Callers, Busy(d)', task'[d].plugin = p
        PROVE  task'[d].pc \in LatePcs
    <3>1. CASE d # c
      BY <1>1, <1>2, <2>1, <3>1, StepFrame DEF Late, Busy
    <3>2. CASE d = c
      <4>1. Keeps(c)
        <5>1. ~Receives(c)
          BY <1>1, <2>1, <3>2 DEF Receives, Late
        <5>2. Busy(c)'
          BY <2>1, <3>2
        <5> QED
          BY <1>2, <5>1, <5>2, StepKinds DEF Requeues, Drops, HandsOver
      <4>2. task[c].pc \in LatePcs
        BY <2>1, <3>2, <4>1 DEF Keeps, Late
      <4>3. Continues(c)
        <5>1. ~Returns(c)
          BY <4>1 DEF Keeps, Returns, Rest, Busy
        <5>2. ~Enters(c) /\ ~Takes(c) /\ ~Leaves(c)
          BY <4>2 DEF LeftAlone, Enters, Enter, At, Takes, Leaves, LatePcs
        <5> QED
          BY <1>1, <1>2, <5>1, <5>2, CallerMoves
      <4> QED
        BY <2>1, <3>2, <4>2, <4>3 DEF Continues, Successors, LatePcs, Busy
    <3> QED
      BY <3>1, <3>2
  <2>2. ASSUME NEW n \in DOMAIN queue' PROVE queue'[n] # p
    <3>1. CASE queue' = queue
      BY <2>2, <3>1 DEF Late
    <3>2. CASE Requeues(c)
      <4>1. task[c].plugin # p
        BY <3>2 DEF Requeues, Late, LatePcs
      <4>2. \/ n \in DOMAIN queue /\ queue'[n] = queue[n]
            \/ queue'[n] = task[c].plugin
        BY <1>1, <2>2, <3>2 DEF Requeues
      <4> QED
        BY <4>1, <4>2 DEF Late
    <3>3. CASE Receives(c)
      <4>1. n + 1 \in DOMAIN queue /\ queue'[n] = queue[n + 1]
        BY <1>1, <2>2, <3>3 DEF Receives
      <4> QED
        BY <4>1 DEF Late
    <3> QED
      BY <1>2, <3>1, <3>2, <3>3, StepKinds DEF Keeps, Drops, HandsOver
  <2>3. ASSUME NEW i \in Instances, loops'[i].plugin = p PROVE loops'[i].pc # "send"
    <3>1. CASE loops'[i] = loops[i]
      BY <2>3, <3>1 DEF Late
    <3>2. CASE Monitor(c) /\ i = task[c].inst
      BY <3>2, HandOver
    <3> QED
      BY <1>1, <1>2, <3>1, <3>2, StepFrame, HandOver
  <2> QED
    BY <2>1, <2>2, <2>3 DEF Late
<1>3. ASSUME NEW i \in Instances, Check(i) \/ Die(i) PROVE Late(p)'
  <2>1. \A d \in Callers : Busy(d)' /\ task'[d].plugin = p => task'[d].pc \in LatePcs
    BY <1>1, <1>3, CheckFrame DEF Late, Busy
  <2>2. ASSUME NEW n \in DOMAIN queue' PROVE queue'[n] # p
    <3>1. CASE queue' = queue
      BY <2>2, <3>1 DEF Late
    <3>2. CASE queue' # queue
      <4>1. queue' = Append(queue, loops[i].plugin) /\ loops[i].pc = "send"
        BY <1>1, <1>3, <3>2, CheckKinds DEF CrashSend, LoopAt
      <4>2. \/ n \in DOMAIN queue /\ queue'[n] = queue[n]
            \/ queue'[n] = loops[i].plugin
        BY <1>1, <2>2, <4>1
      <4> QED
        BY <4>1, <4>2 DEF Late
    <3> QED
      BY <3>1, <3>2
  <2>3. ASSUME NEW j \in Instances, loops'[j].plugin = p PROVE loops'[j].pc # "send"
    <3>1. loops[j].plugin = p /\ loops[j].pc # "send" /\ ~CrashDeregister(j)
      BY <1>1, <1>3, <2>3, CheckKinds DEF Late
    <3>2. CASE loops'[j] = loops[j]
      BY <3>1, <3>2
    <3>3. CASE loops'[j] # loops[j]
      <4>1. i = j
        BY <1>1, <1>3, <3>3, CheckKinds
      <4> QED
        BY <1>3, <3>1, <3>3, <4>1, MovesToSend DEF Ground
    <3> QED
      BY <3>2, <3>3
  <2> QED
    BY <2>1, <2>2, <2>3 DEF Late
<1>4. CASE Shutdown \/ UNCHANGED vars
  <2>1. task' = task /\ loops' = loops /\ queue' = queue
    BY <1>4, ShutdownFrame DEF Shutdown, NameAll, MarkAll, DrainAll, KillAll, Exit, vars
  <2> QED
    BY <2>1 DEF Late, Busy
<1> QED
  BY <1>2, <1>3, <1>4 DEF Next

\* A start that has got as far as to advertise its plugin is late.
LEMMA LateHand ==
    ASSUME LeftAlone, Ground, OneHand, NEW c \in Callers, task[c].pc \in LatePcs
    PROVE  Late(task[c].plugin)
<1>1. Busy(c)
  BY DEF Busy, LatePcs
<1>2. \A d \in Callers : Busy(d) /\ task[d].plugin = task[c].plugin => d = c
  BY <1>1, OneBusy DEF Ground, StartInv
<1>3. \A i \in Instances : loops[i].pc = "send" => Live(i)
  BY DEF Live
<1> QED
  BY <1>1, <1>2, <1>3 DEF Late, OneHand

\* The loop deregisters the plugin before the next start of it can be asked for.
LEMMA RegisteredLateStep ==
    ASSUME LeftAlone, Ground, OneHand, RegisteredLate, [Next]_vars
    PROVE  RegisteredLate'
<1> SUFFICES ASSUME NEW h \in registry'
             PROVE  Late(h.plugin)'
  BY DEF RegisteredLate
<1>1. TypeInv /\ TypeInv'
  BY NextType DEF Ground
<1>2. h.plugin \in Plugins
  BY <1>1 DEF TypeInv, BusOK, Handle
<1>3. CASE h \in registry
  <2>1. \A i \in Instances : loops[i].plugin = h.plugin => ~CrashDeregister(i)
    BY DEF CrashDeregister, Deregister
  <2> QED
    BY <1>2, <1>3, <2>1, LateStays DEF RegisteredLate
<1>4. ASSUME NEW c \in Callers, Advertise(c), h \notin registry PROVE Late(h.plugin)'
  <2>1. h.plugin = task[c].plugin /\ task[c].pc = "advertise"
    BY <1>4 DEF Advertise, At
  <2>2. Busy(c)
    BY <2>1 DEF Busy
  <2>3. \A i \in Instances : loops[i].plugin = h.plugin => ~CrashDeregister(i)
    BY <2>1, <2>2 DEF OneHand, Live, CrashDeregister, LoopAt
  <2> QED
    BY <1>2, <2>1, <2>3, LateHand, LateStays DEF LatePcs
<1> QED
  BY <1>1, <1>3, <1>4, RegistryGrows

\* A start that changes the channel finds nothing registered.
LEMMA HandleCurrentStep ==
    ASSUME LeftAlone, Ground, ChannelFits, RegisteredLate, HandleIsCurrent, [Next]_vars
    PROVE  HandleIsCurrent'
<1> SUFFICES ASSUME NEW h \in registry'
             PROVE  h.inst = plugins'[h.plugin].channel
  BY DEF HandleIsCurrent
<1>1. TypeInv /\ TypeInv'
  BY NextType DEF Ground
<1>2. h.plugin \in Plugins
  BY <1>1 DEF TypeInv, BusOK, Handle
<1>3. CASE h \in registry
  <2>1. h.inst = plugins[h.plugin].channel /\ Late(h.plugin)
    BY <1>3 DEF HandleIsCurrent, RegisteredLate
  <2>2. ASSUME NEW c \in Callers, task[c].plugin = h.plugin, Insert(c) \/ StashChannel(c)
        PROVE  FALSE
    BY <2>1, <2>2 DEF Late, LatePcs, Busy, Insert, StashChannel, At
  <2> QED
    BY <1>2, <2>1, <2>2, ChannelFrame
<1>4. ASSUME NEW c \in Callers, Advertise(c), h \notin registry
      PROVE  h.inst = plugins'[h.plugin].channel
  <2>1. /\ h.plugin = task[c].plugin /\ h.inst = task[c].inst
        /\ task[c].pc = "advertise" /\ plugins' = plugins
    BY <1>4 DEF Advertise, At
  <2> QED
    BY <2>1 DEF ChannelFits, ChannelPcs
<1> QED
  BY <1>1, <1>3, <1>4, RegistryGrows

\* What the registry's part of the proofs adds to the ground.
Fitting == Ground /\ OneHand /\ ChannelFits /\ RegisteredLate /\ HandleIsCurrent

\* Nothing is registered at first.
LEMMA FittingInit ==
    ASSUME LeftAlone, Init
    PROVE  Fitting
<1>1. \A c \in Callers : task[c].pc \in { "enter", "idle", "done" }
  BY DEF Init, Rest
<1> QED
  BY <1>1, AloneInit
     DEF Init, Fitting, ChannelFits, ChannelPcs, RegisteredLate, HandleIsCurrent

\* The parts are inductive together.
LEMMA FittingStep ==
    ASSUME LeftAlone, Fitting, [Next]_vars
    PROVE  Fitting'
BY GroundStep, OneHandStep, ChannelFitsStep, RegisteredLateStep, HandleCurrentStep
   DEF Fitting

\* Left to itself, and whatever crashes, the daemon never sends an invocation to an
\* instance other than the one whose health it checks.
THEOREM HandlesCurrent ==
    ASSUME LeftAlone
    PROVE  Spec => []HandleIsCurrent
<1>1. Init => Fitting
  BY FittingInit
<1>2. Fitting /\ [Next]_vars => Fitting'
  BY FittingStep
<1>3. Fitting => HandleIsCurrent
  BY DEF Fitting
<1> QED
  BY <1>1, <1>2, <1>3, PTL DEF Spec

-----------------------------------------------------------------------------
(* A plugin that serves has all of its capabilities registered.            *)

\* What a start has advertised so far is registered, unless shutdown_all has taken
\* the plugin out of the start's hand: then it is no longer Handshaking.
AdvertisePcs == { "connect", "advertise", "ready" }
AdvertisedSoFar ==
    \A c \in Callers :
        /\ task[c].pc = "ready" => task[c].todo = {}
        /\ task[c].pc \in AdvertisePcs /\ State(task[c].plugin) = "Handshaking" =>
              \A cap \in CapsOf[task[c].plugin] \ task[c].todo :
                  [ cap |-> cap, plugin |-> task[c].plugin, inst |-> task[c].inst ]
                      \in registry

\* A plugin that serves is in the hand of a loop that checks it, or of a start that
\* is through but for the loop.
LEMMA ServingHand ==
    ASSUME LeftAlone, Ground, OneHand, Monitored, NEW p \in Plugins, IsServing(p)
    PROVE  /\ \A c \in Callers : Busy(c) /\ task[c].plugin = p => task[c].pc = "reset"
           /\ \A i \in Instances : Live(i) /\ loops[i].plugin = p
                                      => loops[i].pc \in CheckingPcs
<1>1. CASE \E i \in Instances : loops[i].plugin = p /\ loops[i].pc \in CheckingPcs
  BY <1>1 DEF OneHand, Live, CheckingPcs
<1>2. CASE \E c \in Callers : task[c].plugin = p /\ task[c].pc = "reset"
  <2>1. PICK c \in Callers : task[c].plugin = p /\ task[c].pc = "reset"
    BY <1>2
  <2>2. Busy(c)
    BY <2>1 DEF Busy
  <2> QED
    BY <2>1, <2>2, OneBusy DEF OneHand, Ground, StartInv
<1> QED
  BY <1>1, <1>2 DEF Monitored, Abandoned, LeftAlone

\* A handle goes when a crashed loop or shutdown_all is through with its plugin.
LEMMA HandleGoes ==
    ASSUME LeftAlone, Ground, [Next]_vars, NEW h \in registry, h \notin registry'
    PROVE  \/ \E i \in Instances : CrashDeregister(i) /\ loops[i].plugin = h.plugin
           \/ DrainAll /\ h.plugin \in closing
<1>1. \A ps : Deregister(ps) => h.plugin \in ps
  BY DEF Deregister
<1>2. ASSUME NEW c \in Callers, Step(c) PROVE FALSE
  BY <1>2, AloneActs
     DEF Ground, Start, SkipStart, BeginStart, FinishStart, Enter, Insert, Reap, Spawn,
         SpawnFails, StoreChild, Dial, DialFails, Handshake, StashChannel, RegisterRpc,
         RegisterFails, Connect, Advertise, Announce, Monitor, TakeRequest
<1>3. ASSUME NEW i \in Instances, Check(i) \/ Die(i)
      PROVE  CrashDeregister(i) /\ loops[i].plugin = h.plugin
  BY <1>1, <1>3
     DEF Check, Tick, Reply, NoReply, Healthy, Unhealthy, Crash, CrashDeregister,
         CrashSend, Die
<1>4. ASSUME Shutdown PROVE DrainAll /\ h.plugin \in closing
  BY <1>1, <1>4 DEF Shutdown, NameAll, MarkAll, DrainAll, KillAll, Exit
<1> QED
  BY <1>2, <1>3, <1>4 DEF Next, vars

\* A plugin gets to Handshaking in its own start.
LEMMA BecomesHandshaking ==
    ASSUME TypeInv, [Next]_vars, NEW p \in Plugins, State(p)' = "Handshaking",
           State(p) # "Handshaking"
    PROVE  \E c \in Callers : Handshake(c) /\ p = task[c].plugin
<1>1. ASSUME NEW c \in Callers, Step(c) PROVE Handshake(c) /\ p = task[c].plugin
  BY <1>1, CallerSteers
<1>2. ASSUME NEW i \in Instances, Check(i) \/ Die(i) PROVE FALSE
  BY <1>2, CheckSteers DEF State
<1>3. ~Shutdown
  BY ShutdownMarks
<1> QED
  BY <1>1, <1>2, <1>3 DEF Next, vars, State

\* What the steps between Connect and Announce make of a start.
LEMMA AdvertiseSteps ==
    ASSUME TypeInv, NEW c \in Callers, Start(c), task'[c].pc \in AdvertisePcs
    PROVE  /\ plugins' = plugins
           /\ task'[c].plugin = task[c].plugin /\ task'[c].inst = task[c].inst
           /\ \/ task'[c].pc = "connect" /\ task'[c].todo = CapsOf[task[c].plugin]
              \/ /\ task[c].pc = "connect" /\ task'[c].todo = task[c].todo
                 /\ task'[c].pc = "ready" => task[c].todo = {}
                 /\ registry' = registry
              \/ /\ task[c].pc = "advertise"
                 /\ \E cap : /\ registry' = registry \cup
                                   { [ cap |-> cap, plugin |-> task[c].plugin,
                                       inst |-> task[c].inst ] }
                             /\ task'[c].todo = task[c].todo \ { cap }
                             /\ task'[c].pc = "ready" => task[c].todo = { cap }
<1>1. TasksOK /\ task[c] \in Task
  BY DEF TypeInv, TasksOK
<1>2. CASE RegisterRpc(c)
  <2>1. task'[c] = [task[c] EXCEPT !.pc = "connect", !.todo = CapsOf[task[c].plugin]]
    BY <1>1, <1>2 DEF RegisterRpc, TasksOK
  <2>2. /\ task'[c].pc = "connect" /\ task'[c].todo = CapsOf[task[c].plugin]
        /\ task'[c].plugin = task[c].plugin /\ task'[c].inst = task[c].inst
    BY <1>1, <2>1 DEF Task
  <2> QED
    BY <1>2, <2>2 DEF RegisterRpc
<1>3. CASE Connect(c)
  <2> DEFINE pc == IF task[c].todo = {} THEN "ready" ELSE "advertise"
  <2>1. task'[c] = [task[c] EXCEPT !.pc = pc]
    BY <1>1, <1>3 DEF Connect, Goto, TasksOK
  <2>2. /\ task'[c].pc = pc /\ task'[c].todo = task[c].todo
        /\ task'[c].plugin = task[c].plugin /\ task'[c].inst = task[c].inst
    BY <1>1, <2>1 DEF Task
  <2> QED
    BY <1>3, <2>2 DEF Connect, At
<1>4. CASE Advertise(c)
  <2>1. PICK cap \in task[c].todo :
          /\ registry' = registry \cup { [ cap |-> cap, plugin |-> task[c].plugin,
                                           inst |-> task[c].inst ] }
          /\ task' = [task EXCEPT
                        ![c].todo = @ \ { cap },
                        ![c].pc = IF task[c].todo = { cap } THEN "ready" ELSE @]
    BY <1>4 DEF Advertise
  <2> DEFINE pc == IF task[c].todo = { cap } THEN "ready" ELSE task[c].pc
             todo == task[c].todo \ { cap }
  <2>2. task'[c] = [task[c] EXCEPT !.todo = todo, !.pc = pc]
    BY <1>1, <2>1 DEF TasksOK
  <2>3. /\ task'[c].pc = pc /\ task'[c].todo = todo
        /\ task'[c].plugin = task[c].plugin /\ task'[c].inst = task[c].inst
    <3> HIDE DEF pc, todo
    <3> QED
      BY <1>1, <2>2 DEF Task
  <2>4. task[c].pc = "advertise" /\ plugins' = plugins
    BY <1>4 DEF Advertise, At
  <2> QED
    BY <2>1, <2>3, <2>4
<1>5. CASE \/ BeginStart(c) \/ Insert(c) \/ Reap(c) \/ Spawn(c) \/ StoreChild(c)
           \/ Dial(c) \/ Handshake(c) \/ StashChannel(c) \/ Announce(c)
  BY <1>1, <1>5, Moved
     DEF BeginStart, Insert, Reap, Spawn, StoreChild, Dial, Handshake, StashChannel,
         Announce, AdvertisePcs
<1>6. CASE Enter(c)
  <2>1. task'[c] = [task[c] EXCEPT !.pc = "insert", !.inst = next]
    BY <1>1, <1>6 DEF Enter, TasksOK
  <2>2. task'[c].pc = "insert"
    BY <1>1, <2>1 DEF Task
  <2> QED
    BY <2>2 DEF AdvertisePcs
<1>7. CASE \/ SkipStart(c) \/ FinishStart(c) \/ SpawnFails(c) \/ DialFails(c)
           \/ RegisterFails(c) \/ Monitor(c)
  BY <1>1, <1>7, Moved
     DEF SkipStart, FinishStart, SpawnFails, DialFails, RegisterFails, Monitor, FailStart,
         Returns, Rest, AdvertisePcs
<1> QED
  BY <1>2, <1>3, <1>4, <1>5, <1>6, <1>7 DEF Start

\* Nobody takes a capability away from a start that goes on to announce its plugin.
LEMMA AdvertisedStep ==
    ASSUME LeftAlone, Ground, OneHand, AdvertisedSoFar, [Next]_vars
    PROVE  AdvertisedSoFar'
<1> SUFFICES ASSUME NEW d \in Callers, task'[d].pc \in AdvertisePcs
             PROVE  /\ task'[d].pc = "ready" => task'[d].todo = {}
                    /\ plugins'[task'[d].plugin].state = "Handshaking" =>
                          \A cap \in CapsOf[task'[d].plugin] \ task'[d].todo :
                              [ cap |-> cap, plugin |-> task'[d].plugin,
                                inst |-> task'[d].inst ] \in registry'
  BY DEF AdvertisedSoFar, AdvertisePcs, State
<1> DEFINE p == task'[d].plugin
<1>1. TypeInv /\ TypeInv' /\ OnlyStarts
  BY NextType DEF Ground
<1>2. p \in Plugins
  BY <1>1, BusyTask DEF TypeInv, AdvertisePcs, TasksOK, GoodTask
<1>3. CASE Step(d)
  <2>1. Start(d)
    <3>1. TakeRequest(d) => task'[d].pc = "guard"
      <4>1. ASSUME TakeRequest(d)
            PROVE  task'[d] = [Rest("guard") EXCEPT !.job = "start",
                                                    !.plugin = Head(queue)]
        BY <1>1, <4>1 DEF TakeRequest, TypeInv, TasksOK
      <4> QED
        BY <4>1 DEF Rest
    <3> QED
      BY <1>1, <1>3, <3>1, AloneActs DEF AdvertisePcs
  <2>2. plugins' = plugins /\ p = task[d].plugin /\ task'[d].inst = task[d].inst
    BY <1>1, <2>1, AdvertiseSteps
  <2>3. plugins'[p].state = State(p)
    BY <2>2 DEF State
  <2>4. CASE task'[d].pc = "connect" /\ task'[d].todo = CapsOf[task[d].plugin]
    BY <2>2, <2>4
  <2>5. CASE /\ task[d].pc = "connect" /\ task'[d].todo = task[d].todo
             /\ task'[d].pc = "ready" => task[d].todo = {}
             /\ registry' = registry
    BY <2>2, <2>3, <2>5 DEF AdvertisedSoFar, AdvertisePcs
  <2>6. ASSUME task[d].pc = "advertise",
               NEW cap, registry' = registry \cup
                          { [ cap |-> cap, plugin |-> task[d].plugin,
                              inst |-> task[d].inst ] },
               task'[d].todo = task[d].todo \ { cap },
               task'[d].pc = "ready" => task[d].todo = { cap }
        PROVE  /\ task'[d].pc = "ready" => task'[d].todo = {}
               /\ plugins'[p].state = "Handshaking" =>
                     \A x \in CapsOf[p] \ task'[d].todo :
                         [ cap |-> x, plugin |-> p, inst |-> task'[d].inst ] \in registry'
    BY <2>2, <2>3, <2>6 DEF AdvertisedSoFar, AdvertisePcs
  <2> QED
    BY <1>1, <2>1, <2>4, <2>5, <2>6, AdvertiseSteps
<1>4. CASE task'[d] = task[d] /\ ~Step(d)
  <2>1. Busy(d) /\ task[d].pc # "handshake"
    BY <1>4 DEF AdvertisePcs, Busy
  <2>2. ASSUME NEW q \in Plugins, q = p, State(q)' = "Handshaking"
        PROVE  State(q) = "Handshaking"
    <3>1. ASSUME NEW c \in Callers, Handshake(c), q = task[c].plugin PROVE FALSE
      <4>1. Busy(c) /\ c # d
        BY <2>1, <3>1 DEF Handshake, At, Busy
      <4> QED
        BY <1>4, <2>1, <2>2, <3>1, <4>1, OneBusy DEF Ground, StartInv
    <3> QED
      BY <1>1, <2>2, <3>1, BecomesHandshaking
  <2>3. ASSUME NEW q \in Plugins, q = p, State(q)' = "Handshaking",
               NEW h \in registry, h.plugin = p
        PROVE  h \in registry'
    <3>1. ASSUME NEW i \in Instances, CrashDeregister(i), loops[i].plugin = p PROVE FALSE
      BY <1>4, <2>1, <3>1 DEF OneHand, Live, CrashDeregister, LoopAt
    <3>2. ~(DrainAll /\ p \in closing)
      BY <1>1, <2>3, ShutdownMarks DEF Shutdown, Absent
    <3> QED
      BY <2>3, <3>1, <3>2, HandleGoes
  <2> QED
    BY <1>2, <1>4, <2>2, <2>3 DEF AdvertisedSoFar, State
<1>5. ASSUME NEW c \in Callers, Step(c), c # d PROVE task'[d] = task[d]
  BY <1>1, <1>5, StepFrame
<1> QED
  BY <1>1, <1>3, <1>4, <1>5, CheckFrame, ShutdownFrame DEF Next, vars

\* The invariant behind the next theorem.
ServingFits == Fitting /\ Monitored /\ AdvertisedSoFar /\ ServingIsRegistered

\* Announce finds everything registered, and nothing is taken away from a plugin
\* that serves.
LEMMA ServingRegisteredStep ==
    ASSUME LeftAlone, ServingFits, [Next]_vars
    PROVE  ServingIsRegistered'
<1> SUFFICES ASSUME NEW p \in Plugins, IsServing(p)', NEW cap \in CapsOf[p]
             PROVE  [ cap |-> cap, plugin |-> p, inst |-> plugins'[p].channel ]
                        \in registry'
  BY DEF ServingIsRegistered
<1>1. TypeInv /\ Ground /\ OneHand /\ Monitored
  BY DEF ServingFits, Fitting, Ground
<1>2. CASE ~IsServing(p)
  <2>1. PICK c \in Callers : /\ Announce(c) /\ Step(c) /\ p = task[c].plugin
                             /\ State(p) = "Handshaking"
    BY <1>1, <1>2, BecomesServing
  <2>2. task[c].pc = "ready" /\ registry' = registry /\ Start(c)
    BY <2>1 DEF Announce, At, Start
  <2>3. [ cap |-> cap, plugin |-> p, inst |-> task[c].inst ] \in registry
    BY <2>1, <2>2 DEF ServingFits, AdvertisedSoFar, AdvertisePcs
  <2>4. plugins[p].channel = task[c].inst
    BY <2>1, <2>2 DEF ServingFits, Fitting, ChannelFits, ChannelPcs
  <2>5. plugins'[p].channel = plugins[p].channel
    <3>1. ~Insert(c) /\ ~StashChannel(c)
      BY <2>2 DEF Insert, StashChannel, At
    <3> QED
      BY <1>1, <2>2, <3>1, StartMarks
  <2> QED
    BY <2>2, <2>3, <2>4, <2>5
<1>3. CASE IsServing(p)
  <2> DEFINE h == [ cap |-> cap, plugin |-> p, inst |-> plugins[p].channel ]
  <2>1. h \in registry /\ h.plugin = p
    BY <1>3 DEF ServingFits, ServingIsRegistered
  <2>2. plugins'[p].channel = plugins[p].channel
    <3>1. ASSUME NEW c \in Callers, task[c].plugin = p, Insert(c) \/ StashChannel(c)
          PROVE  FALSE
      BY <1>1, <1>3, <3>1, ServingHand DEF Insert, StashChannel, At, Busy
    <3> QED
      BY <1>1, <3>1, ChannelFrame
  <2>3. ASSUME NEW i \in Instances, CrashDeregister(i), loops[i].plugin = p PROVE FALSE
    BY <1>1, <1>3, <2>3, ServingHand DEF Live, CrashDeregister, LoopAt, CheckingPcs
  <2>4. ~(DrainAll /\ p \in closing)
    BY <1>1, ShutdownMarks DEF Shutdown, IsServing, Serving, Absent
  <2>5. h \in registry'
    BY <1>1, <2>1, <2>3, <2>4, HandleGoes
  <2> QED
    BY <2>2, <2>5
<1> QED
  BY <1>2, <1>3

\* Left to itself the daemon never has a plugin count as running that lacks one of
\* its capabilities, not even while it is being shut down.
THEOREM ServingRegistered ==
    ASSUME LeftAlone
    PROVE  Spec => []ServingIsRegistered
<1>1. Init => ServingFits
  <2> SUFFICES ASSUME Init PROVE ServingFits
    OBVIOUS
  <2>1. \A c \in Callers : task[c].pc \in { "enter", "idle", "done" }
    BY DEF Init, Rest
  <2>2. \A p \in Plugins : ~IsServing(p)
    BY DEF Init, IsServing, State, Serving, Absent
  <2> QED
    BY <2>1, <2>2, FittingInit
       DEF ServingFits, Monitored, AdvertisedSoFar, AdvertisePcs, ServingIsRegistered
<1>2. ServingFits /\ [Next]_vars => ServingFits'
  <2> SUFFICES ASSUME ServingFits, [Next]_vars PROVE ServingFits'
    OBVIOUS
  <2>1. TypeInv /\ Numbered
    BY DEF ServingFits, Fitting, Ground
  <2> QED
    BY <2>1, FittingStep, MonitoredStep, AdvertisedStep, ServingRegisteredStep
       DEF ServingFits, Fitting
<1>3. ServingFits => ServingIsRegistered
  BY DEF ServingFits
<1> QED
  BY <1>1, <1>2, <1>3, PTL DEF Spec

-----------------------------------------------------------------------------
(* A plugin that is stopped has none.                                      *)

\* Nothing stops a plugin that is being started, and a plugin with something
\* registered that is stopped is about to be deregistered.
Running == phase = "running"
StartedIsNotStopped ==
    \A c \in Callers : Busy(c) /\ task[c].pc \notin { "guard", "enter" } =>
        State(task[c].plugin) # "Stopped"
StoppedInCrash ==
    \A p \in Plugins : State(p) = "Stopped" =>
        \A h \in registry : h.plugin = p =>
            \E i \in Instances : loops[i].plugin = p /\ loops[i].pc = "dereg"

\* Without a shutdown, what stops a plugin is its loop.
LEMMA BecomesStopped ==
    ASSUME LeftAlone, CanShutdown = FALSE, Ground, Running, [Next]_vars, NEW p \in Plugins,
           State(p)' = "Stopped", State(p) # "Stopped"
    PROVE  \E i \in Instances : Crash(i) /\ p = loops[i].plugin /\ task' = task
<1>1. TypeInv /\ OnlyStarts
  BY DEF Ground
<1>2. ASSUME NEW c \in Callers, Step(c) PROVE FALSE
  <2>1. Drain(c) \/ RetryWatch(c) \/ DisconnectInDrain(c)
    BY <1>1, <1>2, CallerSteers
  <2> QED
    BY <1>1, <2>1 DEF OnlyStarts, Drain, RetryWatch, DisconnectInDrain, At
<1>3. ASSUME NEW i \in Instances, Check(i) \/ Die(i)
      PROVE  Crash(i) /\ p = loops[i].plugin /\ task' = task
  BY <1>1, <1>3, CheckSteers, CheckFrame DEF State
<1>4. ~Shutdown
  BY DEF Running, Shutdown, NameAll, MarkAll, DrainAll, KillAll, Exit
<1> QED
  BY <1>2, <1>3, <1>4 DEF Next, vars, State

\* The invariant behind the next theorem.
StoppedFits == Fitting /\ Running /\ StartedIsNotStopped /\ StoppedInCrash

\* Enter takes the plugin out of Stopped, and nothing else touches one that a
\* start has in hand.
LEMMA StartedIsNotStoppedStep ==
    ASSUME LeftAlone, CanShutdown = FALSE, StoppedFits, [Next]_vars
    PROVE  StartedIsNotStopped'
<1> SUFFICES ASSUME NEW d \in Callers, NEW p \in Plugins, p = task'[d].plugin,
                    Busy(d)', task'[d].pc \notin { "guard", "enter" },
                    State(p)' = "Stopped"
             PROVE  FALSE
  <2>1. TypeInv'
    BY NextType DEF StoppedFits, Fitting, Ground
  <2>2. ASSUME NEW d \in Callers, Busy(d)' PROVE task'[d].plugin \in Plugins
    BY <2>1, <2>2, BusyTask DEF TypeInv, TasksOK, GoodTask, Busy
  <2> QED
    BY <2>2 DEF StartedIsNotStopped, State, Busy
<1>1. TypeInv /\ Ground /\ OneHand /\ OnlyStarts /\ Running
  BY DEF StoppedFits, Fitting, Ground
<1>2. CASE State(p) # "Stopped"
  <2>1. PICK i \in Instances : Crash(i) /\ p = loops[i].plugin /\ task' = task
    BY <1>1, <1>2, BecomesStopped
  <2>2. Live(i) /\ Busy(d) /\ task[d].plugin = p
    BY <2>1 DEF Crash, LoopAt, Live, Busy
  <2> QED
    BY <1>1, <2>1, <2>2 DEF OneHand
<1>3. CASE State(p) = "Stopped"
  <2>1. CASE task'[d] = task[d]
    BY <1>3, <2>1 DEF StoppedFits, StartedIsNotStopped, Busy
  <2>2. CASE Step(d)
    <3>1. Keeps(d)
      BY <1>1, <2>2, StepKinds DEF Requeues, Drops, HandsOver, Receives
    <3>2. task[d].pc \in { "guard", "enter" }
      BY <1>3, <3>1 DEF StoppedFits, StartedIsNotStopped, Keeps
    <3>3. CASE BeginStart(d)
      BY <1>1, <3>3, Moved DEF BeginStart, TypeInv
    <3>4. CASE Enter(d)
      <4>1. State(task[d].plugin) = "Stopped" /\ p = task[d].plugin /\ plugins[p] \in Entry
        BY <1>1, <1>3, <3>1 DEF Keeps, TypeInv, MapOK
      <4>2. plugins'[p] = [plugins[p] EXCEPT !.state = "Discovered"]
        <5>1. Transition("Stopped", "Discovered") = "Discovered"
          BY DEF Transition, LegalMoves
        <5>2. plugins'[p] = [plugins[p] EXCEPT !.state = Transition(State(p), "Discovered")]
          BY <1>1, <3>4, <4>1 DEF Enter, Move, MoveTo, State, TypeInv, MapOK
        <5> QED
          BY <1>3, <5>1, <5>2
      <4> QED
        BY <4>1, <4>2 DEF State, Entry
    <3>5. SkipStart(d) \/ BeginStart(d) \/ Enter(d)
      BY <1>1, <2>2, <3>2, AloneActs
         DEF Start, SkipStart, BeginStart, FinishStart, Enter, Insert, Reap, Spawn,
             SpawnFails, StoreChild, Dial, DialFails, Handshake, StashChannel,
             RegisterRpc, RegisterFails, Connect, Advertise, Announce, Monitor,
             TakeRequest, At
    <3>6. ~SkipStart(d)
      BY <1>1, <3>1 DEF SkipStart, Return, Rest, Keeps, Busy, TypeInv, TasksOK
    <3> QED
      BY <3>3, <3>4, <3>5, <3>6
  <2>3. ASSUME NEW c \in Callers, Step(c), c # d PROVE task'[d] = task[d]
    BY <1>1, <2>3, StepFrame
  <2> QED
    BY <1>1, <2>1, <2>2, <2>3, CheckFrame, ShutdownFrame DEF Next, vars
<1> QED
  BY <1>2, <1>3

\* A crash leads to the deregistration, which the loop cannot miss; nobody else
\* registers anything for a plugin that is stopped.
LEMMA StoppedInCrashStep ==
    ASSUME LeftAlone, CanShutdown = FALSE, StoppedFits, [Next]_vars
    PROVE  StoppedInCrash'
<1> SUFFICES ASSUME NEW p \in Plugins, State(p)' = "Stopped",
                    NEW h \in registry', h.plugin = p
             PROVE  \E i \in Instances : loops'[i].plugin = p /\ loops'[i].pc = "dereg"
  BY DEF StoppedInCrash
<1>1. TypeInv /\ Ground /\ OneHand /\ OnlyStarts /\ Running
  BY DEF StoppedFits, Fitting, Ground
<1>2. CASE State(p) # "Stopped"
  <2>1. PICK i \in Instances : Crash(i) /\ p = loops[i].plugin
    BY <1>1, <1>2, BecomesStopped
  <2>2. PICK b : loops' = [loops EXCEPT ![i].pc = "dereg", ![i].resend = b]
    BY <2>1 DEF Crash
  <2>3. loops'[i] = [loops[i] EXCEPT !.pc = "dereg", !.resend = b] /\ loops[i] \in Loop
    BY <1>1, <2>2 DEF TypeInv, LoopsOK
  <2> QED
    BY <2>1, <2>3 DEF Loop
<1>3. CASE State(p) = "Stopped" /\ h \notin registry
  <2>1. PICK c \in Callers : Advertise(c)
    BY <1>1, <1>3, RegistryGrows
  <2>2. h.plugin = task[c].plugin /\ task[c].pc = "advertise" /\ plugins' = plugins
    BY <1>3, <2>1 DEF Advertise, At
  <2> QED
    BY <1>3, <2>2 DEF StoppedFits, StartedIsNotStopped, Busy
<1>4. CASE State(p) = "Stopped" /\ h \in registry
  <2>1. PICK i \in Instances : loops[i].plugin = p /\ loops[i].pc = "dereg"
    BY <1>4 DEF StoppedFits, StoppedInCrash
  <2>2. CASE loops'[i] = loops[i]
    BY <2>1, <2>2
  <2>3. ASSUME Check(i) \/ Die(i), loops'[i] # loops[i] PROVE FALSE
    <3>1. CrashDeregister(i)
      BY <2>1, <2>3
         DEF Check, Tick, Reply, NoReply, Healthy, Unhealthy, Crash, CrashDeregister,
             CrashSend, Die, LoopAt
    <3> QED
      BY <2>1, <3>1 DEF CrashDeregister, Deregister
  <2>4. ASSUME NEW c \in Callers, Step(c) PROVE loops'[i] = loops[i]
    <3>1. CASE Monitor(c)
      BY <1>1, <2>1, <3>1, HandOver
    <3> QED
      BY <1>1, <2>4, <3>1, StepFrame
  <2> QED
    BY <1>1, <2>1, <2>2, <2>3, <2>4, CheckFrame, ShutdownFrame DEF Next, vars
<1> QED
  BY <1>2, <1>3, <1>4

\* Left to itself, and until it is shut down, the daemon has nothing registered
\* for a plugin that is stopped, but for one whose loop is about to deregister it.
THEOREM StoppedUnregistered ==
    ASSUME LeftAlone, CanShutdown = FALSE
    PROVE  Spec => []StoppedIsUnregistered
<1>1. Init => StoppedFits
  <2> SUFFICES ASSUME Init PROVE StoppedFits
    OBVIOUS
  <2>1. \A c \in Callers : task[c].pc \in { "enter", "idle", "done" }
    BY DEF Init, Rest
  <2>2. \A p \in Plugins : State(p) # "Stopped"
    BY DEF Init, State, Absent
  <2>3. phase = "running"
    BY DEF Init
  <2> QED
    BY <2>1, <2>2, <2>3, FittingInit
       DEF StoppedFits, StartedIsNotStopped, StoppedInCrash, Running, Busy
<1>2. StoppedFits /\ [Next]_vars => StoppedFits'
  <2> SUFFICES ASSUME StoppedFits, [Next]_vars PROVE StoppedFits'
    OBVIOUS
  <2>1. TypeInv /\ Fitting /\ Running
    BY DEF StoppedFits, Fitting, Ground
  <2>2. Running'
    <3>1. ASSUME NEW c \in Callers, Step(c) PROVE phase' = phase
      BY <2>1, <3>1, StepFrame
    <3>2. ~Shutdown
      BY <2>1 DEF Running, Shutdown, NameAll, MarkAll, DrainAll, KillAll, Exit
    <3> QED
      BY <2>1, <3>1, <3>2, CheckFrame DEF Next, vars, Running
  <2>3. Fitting'
    BY <2>1, FittingStep
  <2> QED
    BY <2>2, <2>3, StartedIsNotStoppedStep, StoppedInCrashStep DEF StoppedFits
<1>3. StoppedFits => StoppedIsUnregistered
  BY DEF StoppedFits, StoppedInCrash, StoppedIsUnregistered, InCrash
<1> QED
  BY <1>1, <1>2, <1>3, PTL DEF Spec
=============================================================================
