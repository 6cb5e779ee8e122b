---------------------------- MODULE DaemonProofs ----------------------------
(***************************************************************************)
(* Theorems about the daemon's run loop, its watcher and its listeners,    *)
(* for every directory, configuration, set of connections and bound that   *)
(* meets the assumptions of the modules.                                   *)
(***************************************************************************)
EXTENDS Daemon, FiniteSetTheorems, TLAPS

(***************************************************************************)
(* The watcher.                                                            *)
(***************************************************************************)

Plugin == [ st : PluginStates, cached : Times \cup { Unseen }, attempts : 0 .. MaxRetries ]
Stamps == Times \cup { Unseen }

\* What a file or the boot has to do with the watcher's records: until the
\* first scan nothing is recorded, until start_all nothing is started, and in
\* between each discovered manifest has been started from its contents.
BootOrder ==
    /\ watcher \in { "off", "boot", "started" } =>
         \A p \in Paths : last_mtimes[p] = Unseen
    /\ watcher \in { "off", "boot" } => \A p \in Paths : plugin[p].st = "Absent"
    /\ watcher = "started" =>
         \A p \in Paths : batch[p] # Unseen => /\ plugin[p].st # "Absent"
                                               /\ plugin[p].cached = batch[p]

\* The job at hand is of a file, and as new or as known as when it was looked
\* at; what is retried has an entry.
JobFits ==
    /\ watcher = "act" =>
         /\ job.path \in Paths
         /\ job.kind = "new" => last_mtimes[job.path] = Unseen
         /\ job.kind = "changed" => last_mtimes[job.path] # Unseen
    /\ watcher = "retry" =>
         \A p \in Paths : batch[p] # Unseen => plugin[p].st # "Absent"

WatchInv ==
    /\ WatcherTypeOK
    /\ BootOrder
    /\ JobFits
    /\ LostOnlyInBoot
    /\ RecordedIsTaken

\* A discovery returns a stamp for every file.
LEMMA DiscoveredType ==
    ASSUME WatcherTypeOK
    PROVE  /\ Discovered \in [ Paths -> Stamps ]
           /\ \A p \in Paths : MtimeOf(p) \in Stamps
BY DEF WatcherTypeOK, Discovered, Files, Stamps, MtimeOf

\* A start makes an entry of an entry: present, with the contents it was given.
LEMMA StartedType ==
    ASSUME NEW r \in Plugin, NEW contents \in Stamps, NEW e \in Started(r, contents)
    PROVE  e \in Plugin /\ e.st # "Absent" /\ e.cached = contents
BY WatcherAssumption DEF Started, Plugin, Stamps, PluginStates

\* So does the boot, for the manifests that were discovered.
LEMMA BootedType ==
    ASSUME NEW p \in Paths, batch[p] \in Stamps, NEW e \in Booted(p)
    PROVE  /\ e \in Plugin
           /\ batch[p] # Unseen => e.st # "Absent" /\ e.cached = batch[p]
<1>1. Fresh \in Plugin
  BY WatcherAssumption DEF Fresh, Plugin, PluginStates
<1>2. CASE batch[p] = Unseen
  BY <1>1, <1>2 DEF Booted
<1>3. CASE batch[p] # Unseen
  BY <1>1, <1>3, StartedType DEF Booted
<1> QED
  BY <1>2, <1>3

\* The watcher begins in order.
LEMMA WatchInit ==
    ASSUME NEW files \in [ Paths -> Files ], NewWatcher(files)
    PROVE  WatchInv
<1>1. Fresh \in Plugin /\ Fresh.st = "Absent"
  BY WatcherAssumption DEF Fresh, Plugin, PluginStates
<1>2. WatcherTypeOK
  BY <1>1 DEF NewWatcher, WatcherTypeOK, Plugin, WatcherPcs, NoJob, Jobs, Stamps
<1>3. BootOrder /\ JobFits /\ LostOnlyInBoot /\ RecordedIsTaken
  BY <1>1 DEF NewWatcher, BootOrder, JobFits, LostOnlyInBoot, RecordedIsTaken
<1> QED
  BY <1>2, <1>3 DEF WatchInv

\* Editing touches the files only.
LEMMA EditStep ==
    ASSUME WatchInv, NEW p \in Paths, Edit(p)
    PROVE  WatchInv'
<1>1. disk' \in [ Paths -> Files ]
  <2>1. disk \in [ Paths -> Files ] /\ disk[p] \in Files
    BY DEF WatchInv, WatcherTypeOK
  <2>2. CASE Write(p)
    <3>1. PICK st \in { "valid", "invalid" } :
            /\ disk[p].mtime < MaxTime
            /\ disk' = [ disk EXCEPT ![p] = [ mtime |-> disk[p].mtime + 1, st |-> st ] ]
      BY <2>2 DEF Write
    <3>2. disk[p].mtime + 1 \in Times
      BY <2>1, <3>1, WatcherAssumption DEF Files, Times, Unseen
    <3> QED
      BY <2>1, <3>1, <3>2 DEF Files
  <2>3. CASE Remove(p)
    BY <2>1, <2>3 DEF Remove, Files
  <2> QED
    BY <2>2, <2>3 DEF Edit
<1> QED
  BY <1>1 DEF WatchInv, WatcherTypeOK, BootOrder, JobFits, LostOnlyInBoot, RecordedIsTaken, Edit

\* cmd_run up to the loop.
LEMMA BootStep ==
    ASSUME WatchInv, Discover \/ StartAll \/ FirstScan
    PROVE  WatchInv'
<1> USE DEF WatchInv
<1>1. CASE Discover
  <2>1. WatcherTypeOK'
    BY <1>1, DiscoveredType DEF Discover, WatcherTypeOK, WatcherPcs, Stamps
  <2> QED
    BY <1>1, <2>1 DEF Discover, BootOrder, JobFits, LostOnlyInBoot, RecordedIsTaken
<1>2. CASE StartAll
  <2>1. ASSUME NEW p \in Paths
        PROVE  /\ plugin'[p] \in Plugin
               /\ batch[p] # Unseen => plugin'[p].st # "Absent" /\ plugin'[p].cached = batch[p]
    <3>1. batch[p] \in Stamps
      BY DEF WatcherTypeOK, Stamps
    <3>2. plugin'[p] \in Booted(p)
      BY <1>2 DEF StartAll
    <3> QED
      BY <3>1, <3>2, BootedType
  <2>2. plugin' \in [ Paths -> Plugin ]
    BY <1>2, <2>1 DEF StartAll
  <2>3. WatcherTypeOK'
    BY <1>2, <2>2 DEF StartAll, WatcherTypeOK, WatcherPcs, Plugin
  <2>4. BootOrder' /\ JobFits'
    BY <1>2, <2>1 DEF StartAll, BootOrder, JobFits
  <2>5. LostOnlyInBoot' /\ RecordedIsTaken'
    BY <1>2 DEF StartAll, BootOrder, LostOnlyInBoot, RecordedIsTaken
  <2> QED
    BY <2>3, <2>4, <2>5
<1>3. CASE FirstScan
  <2>1. WatcherTypeOK'
    BY <1>3, DiscoveredType DEF FirstScan, WatcherTypeOK, WatcherPcs, Stamps
  <2>2. BootOrder' /\ JobFits'
    BY <1>3 DEF FirstScan, BootOrder, JobFits
  <2>3. LostOnlyInBoot'
    BY <1>3 DEF FirstScan, BootOrder, LostOnlyInBoot, Discovered
  <2>4. RecordedIsTaken'
    BY <1>3 DEF FirstScan, BootOrder, RecordedIsTaken, Discovered
  <2> QED
    BY <2>1, <2>2, <2>3, <2>4
<1> QED
  BY <1>1, <1>2, <1>3

\* A look hands the loop a job that fits, and records nothing.
LEMMA LookStep ==
    ASSUME WatchInv, NEW p \in Paths, Look(p)
    PROVE  WatchInv'
<1> USE DEF WatchInv
<1> DEFINE kind == Decision(p, MtimeOf(p))
<1>1. /\ kind \in Jobs
      /\ kind = "new" => last_mtimes[p] = Unseen
      /\ kind = "changed" => last_mtimes[p] # Unseen
  BY DEF Decision, Jobs
<1>2. MtimeOf(p) \in Stamps /\ batch[p] \in Stamps
  BY DiscoveredType DEF WatcherTypeOK, Stamps
<1>3. CASE kind = "none"
  BY <1>3 DEF Look, WatcherTypeOK, BootOrder, JobFits, LostOnlyInBoot, RecordedIsTaken
<1>4. CASE kind # "none"
  <2>1. job' = [ kind |-> kind, path |-> p, contents |-> batch[p], mtime |-> MtimeOf(p) ]
    BY <1>4 DEF Look
  <2>2. WatcherTypeOK'
    BY <1>1, <1>2, <1>4, <2>1 DEF Look, WatcherTypeOK, WatcherPcs, Stamps
  <2>3. JobFits'
    BY <1>1, <1>4, <2>1 DEF Look, JobFits
  <2> QED
    BY <1>4, <2>2, <2>3 DEF Look, BootOrder, LostOnlyInBoot, RecordedIsTaken
<1> QED
  BY <1>3, <1>4

\* A new manifest is started from the contents at hand before its time is
\* recorded, and its path is unread if the two differ.
LEMMA StartIfNewStep ==
    ASSUME WatchInv, StartIfNew
    PROVE  WatchInv'
<1> USE DEF WatchInv
<1> DEFINE q == job.path
<1>1. q \in Paths /\ last_mtimes[q] = Unseen
  BY DEF JobFits, StartIfNew
<1>2. /\ plugin \in [ Paths -> Plugin ]
      /\ job.contents \in Stamps /\ job.mtime \in Stamps
  BY DEF WatcherTypeOK, Plugin, Stamps
<1>3. PICK e \in Started(plugin[q], job.contents) : plugin' = [ plugin EXCEPT ![q] = e ]
  BY DEF StartIfNew
<1>4. e \in Plugin /\ e.st # "Absent" /\ e.cached = job.contents
  BY <1>1, <1>2, <1>3, StartedType
<1>5. WatcherTypeOK'
  BY <1>1, <1>2, <1>3, <1>4
     DEF StartIfNew, ActDone, Recorded, WatcherTypeOK, WatcherPcs, NoJob, Jobs, Plugin, Stamps
<1>6. BootOrder' /\ JobFits'
  BY DEF StartIfNew, ActDone, BootOrder, JobFits
<1>7. LostOnlyInBoot'
  BY <1>1, <1>2, <1>3, <1>4 DEF StartIfNew, ActDone, Recorded, LostOnlyInBoot, WatcherTypeOK
<1>8. RecordedIsTaken'
  BY <1>1, <1>2, <1>3, <1>4 DEF StartIfNew, ActDone, Recorded, RecordedIsTaken, WatcherTypeOK
<1> QED
  BY <1>5, <1>6, <1>7, <1>8

\* A changed manifest has a plugin already; what it was started from stays.
LEMMA RestartChangedStep ==
    ASSUME WatchInv, RestartChanged
    PROVE  WatchInv'
<1> USE DEF WatchInv
<1> DEFINE q == job.path
           st == IF plugin[q].st = "Ready" THEN "Discovered" ELSE plugin[q].st
<1>1. q \in Paths /\ last_mtimes[q] # Unseen
  BY DEF JobFits, RestartChanged
<1>2. /\ plugin \in [ Paths -> Plugin ]
      /\ plugin[q] \in Plugin
      /\ job.mtime \in Stamps
  BY <1>1 DEF WatcherTypeOK, Plugin, Stamps
<1>3. plugin' = [ plugin EXCEPT ![q] = [ plugin[q] EXCEPT !.st = st ] ]
  BY <1>2 DEF RestartChanged
<1>4. st \in PluginStates /\ (st = "Absent" <=> plugin[q].st = "Absent")
  BY <1>2 DEF Plugin, PluginStates
<1> HIDE DEF st
<1>5. /\ [ plugin[q] EXCEPT !.st = st ] \in Plugin
      /\ [ plugin[q] EXCEPT !.st = st ].st = st
      /\ [ plugin[q] EXCEPT !.st = st ].cached = plugin[q].cached
  BY <1>2, <1>4 DEF Plugin
<1>6. WatcherTypeOK'
  BY <1>1, <1>2, <1>3, <1>5
     DEF RestartChanged, ActDone, Recorded, WatcherTypeOK, WatcherPcs, NoJob, Jobs, Plugin, Stamps
<1>7. BootOrder' /\ JobFits'
  BY DEF RestartChanged, ActDone, BootOrder, JobFits
<1>8. LostOnlyInBoot'
  BY <1>1, <1>2, <1>3, <1>4, <1>5
     DEF RestartChanged, ActDone, Recorded, LostOnlyInBoot, WatcherTypeOK
<1>9. RecordedIsTaken'
  BY <1>1, <1>2, <1>3, <1>4, <1>5
     DEF RestartChanged, ActDone, Recorded, RecordedIsTaken, WatcherTypeOK
<1> QED
  BY <1>6, <1>7, <1>8, <1>9

\* A retry starts from what the entry has cached, or gives up.
LEMMA RetryStep ==
    ASSUME WatchInv, NEW p \in Paths, Retry(p)
    PROVE  WatchInv'
<1> USE DEF WatchInv
<1> DEFINE n == IF plugin[p].attempts < MaxRetries THEN plugin[p].attempts + 1
                ELSE plugin[p].attempts
           counted == [ plugin[p] EXCEPT !.attempts = n ]
<1>1. plugin \in [ Paths -> Plugin ] /\ plugin[p] \in Plugin
  BY DEF WatcherTypeOK, Plugin
<1>2. n \in 0 .. MaxRetries
  BY <1>1, WatcherAssumption DEF Plugin
<1>3. PICK e \in IF counted.attempts >= MaxRetries
                 THEN { [ counted EXCEPT !.st = "Stopped" ] }
                 ELSE Started(counted, counted.cached) :
        plugin' = [ plugin EXCEPT ![p] = e ]
  BY DEF Retry
<1> HIDE DEF n
<1>4. counted \in Plugin /\ counted.cached = plugin[p].cached /\ counted.cached \in Stamps
  BY <1>1, <1>2 DEF Plugin, Stamps
<1> HIDE DEF counted
<1>5. e \in Plugin /\ e.st # "Absent" /\ e.cached = plugin[p].cached
  <2>1. CASE e = [ counted EXCEPT !.st = "Stopped" ]
    BY <1>4, <2>1 DEF Plugin, PluginStates
  <2>2. CASE e \in Started(counted, counted.cached)
    BY <1>4, <2>2, StartedType
  <2> QED
    BY <1>3, <2>1, <2>2
<1>6. batch[p] # Unseen /\ batch' = [ batch EXCEPT ![p] = Unseen ] /\ watcher = "retry"
      /\ UNCHANGED << disk, last_mtimes, watcher, job, slipped, unread >>
  BY DEF Retry
<1>7. ASSUME NEW q \in Paths
      PROVE  /\ plugin'[q].cached = plugin[q].cached
             /\ plugin'[q].st = "Absent" <=> plugin[q].st = "Absent"
  <2>1. plugin[p].st # "Absent"
    BY <1>6 DEF JobFits
  <2> QED
    BY <1>1, <1>3, <1>5, <2>1
<1>8. WatcherTypeOK'
  BY <1>1, <1>3, <1>5, <1>6 DEF WatcherTypeOK, Plugin
<1>9. LostOnlyInBoot' /\ RecordedIsTaken'
  BY <1>6, <1>7 DEF LostOnlyInBoot, RecordedIsTaken
<1>10. BootOrder' /\ JobFits'
  <2>1. batch \in [ Paths -> Stamps ]
    BY DEF WatcherTypeOK, Stamps
  <2> QED
    BY <1>6, <1>7, <2>1 DEF BootOrder, JobFits
<1> QED
  BY <1>8, <1>9, <1>10

\* The rest of the loop hands out manifests and plugins to look at.
LEMMA RoundStep ==
    ASSUME WatchInv, Poll \/ BeginRetries \/ Sleep
    PROVE  WatchInv'
<1> USE DEF WatchInv
<1>1. CASE Poll
  BY <1>1, DiscoveredType DEF Poll, WatcherTypeOK, WatcherPcs, Stamps,
     BootOrder, JobFits, LostOnlyInBoot, RecordedIsTaken
<1>2. CASE BeginRetries
  <2>1. batch' \in [ Paths -> Stamps ]
    BY <1>2 DEF BeginRetries, WatcherTypeOK, Stamps
  <2>2. JobFits'
    BY <1>2 DEF BeginRetries, JobFits, Stuck
  <2> QED
    BY <1>2, <2>1, <2>2 DEF BeginRetries, WatcherTypeOK, WatcherPcs, Stamps,
       BootOrder, LostOnlyInBoot, RecordedIsTaken
<1>3. CASE Sleep
  BY <1>3 DEF Sleep, WatcherTypeOK, WatcherPcs, BootOrder, JobFits, LostOnlyInBoot,
     RecordedIsTaken
<1> QED
  BY <1>1, <1>2, <1>3

-----------------------------------------------------------------------------
(***************************************************************************)
(* The listeners.  Under TLS the permits left and the connections that     *)
(* hold one add up, and the HTTP listener never waits for what is in       *)
(* flight; without TLS no permit is ever taken.                            *)
(***************************************************************************)

PermitInv(tls) ==
    /\ tls => /\ permits + Cardinality(Holders) = MaxTls
              /\ listener["http"] # "stopping"
    /\ ~tls => /\ permits = MaxTls
               /\ \A c \in Connections : conn[c] \notin { "accepted", "handshake" }

\* What start has returned it has returned of two listeners at their end.
JoinInv == joined # "no" => \A l \in Listeners : Ended(l)

Holding == { "handshake", "open", "busy" }

\* A connection that begins to hold a permit is one holder more, one that ends
\* is one less; any other step of a connection leaves the holders alone.
LEMMA HoldersMove ==
    ASSUME conn \in [ Connections -> ConnectionStates ], NEW c \in Connections,
           NEW to \in ConnectionStates, Becomes(c, to)
    PROVE  /\ Cardinality(Holders) \in Nat /\ Cardinality(Holders') \in Nat
           /\ conn[c] \notin Holding /\ to \in Holding
                => Cardinality(Holders') = Cardinality(Holders) + 1
           /\ conn[c] \in Holding /\ to \notin Holding
                => Cardinality(Holders') = Cardinality(Holders) - 1
           /\ (conn[c] \in Holding <=> to \in Holding) => Holders' = Holders
<1>1. IsFiniteSet(Holders) /\ IsFiniteSet(Holders')
  BY GatewayAssumption, FS_Subset DEF Holders
<1>2. \A d \in Connections : conn'[d] = IF d = c THEN to ELSE conn[d]
  BY DEF Becomes
<1>3. ASSUME conn[c] \notin Holding, to \in Holding
      PROVE  Cardinality(Holders') = Cardinality(Holders) + 1
  <2>1. Holders' = Holders \cup { c } /\ c \notin Holders
    BY <1>2, <1>3 DEF Holders, Holding
  <2> QED
    BY <1>1, <2>1, FS_AddElement
<1>4. ASSUME conn[c] \in Holding, to \notin Holding
      PROVE  Cardinality(Holders') = Cardinality(Holders) - 1
  <2>1. Holders' = Holders \ { c } /\ c \in Holders
    BY <1>2, <1>4 DEF Holders, Holding
  <2> QED
    BY <1>1, <2>1, FS_RemoveElement
<1>5. (conn[c] \in Holding <=> to \in Holding) => Holders' = Holders
  BY <1>2 DEF Holders, Holding
<1> QED
  BY <1>1, <1>3, <1>4, <1>5, FS_CardinalityType

\* The limiter keeps entries.
LEMMA LimiterType ==
    ASSUME RateLimiterTypeOK, Sweep \/ Ages \/ (\E ip \in Clients : Check(ip))
    PROVE  RateLimiterTypeOK'
<1> USE RateLimiterAssumption
<1>1. ASSUME NEW ip \in Clients PROVE Checked(ip) \in RateLimitEntries
  BY DEF RateLimiterTypeOK, RateLimitEntries, Checked, Raised
<1>2. ASSUME NEW ip \in Clients
      PROVE  /\ Older(entries[ip]) \in RateLimitEntries \cup { NoEntry }
             /\ Swept(entries[ip]) \in RateLimitEntries \cup { NoEntry }
  <2>1. entries[ip] \in RateLimitEntries \cup { NoEntry }
    BY DEF RateLimiterTypeOK
  <2> QED
    BY <2>1 DEF Older, Swept, IsOver, RateLimitEntries
<1> QED
  BY <1>1, <1>2 DEF RateLimiterTypeOK, Sweep, Ages, Check

\* The listeners' own steps.
LEMMA ListenerSteps ==
    ASSUME GatewayTypeOK, NEW tls \in BOOLEAN, PermitInv(tls), JoinInv,
           ListenerStep(tls) \/ AcceptFails(tls) \/ Join
    PROVE  GatewayTypeOK' /\ PermitInv(tls)' /\ JoinInv'
<1>1. CASE ListenerStep(tls)
  <2>1. PICK l \in Listeners : Bind(l) \/ BindFails(l) \/ SeeSignal(l, tls) \/ Stop(l)
    BY <1>1 DEF ListenerStep
  <2>2. CASE Bind(l) \/ BindFails(l) \/ Stop(l)
    <3>1. PICK to \in { "serving", "failed", "ok" } : listener' = [ listener EXCEPT ![l] = to ]
      BY <2>2 DEF Bind, BindFails, Stop, Moves
    <3>2. /\ ~Ended(l)
          /\ UNCHANGED << signal, joined, conn, permits, entries, recent >>
      BY <2>2 DEF Bind, BindFails, Stop, Ended
    <3>3. joined = "no"
      BY <3>2 DEF JoinInv
    <3> QED
      BY <3>1, <3>2, <3>3 DEF GatewayTypeOK, RateLimiterTypeOK, ListenerStates, PermitInv, JoinInv,
         Holders
  <2>3. CASE SeeSignal(l, tls)
    <3>1. GatewayTypeOK'
      BY <2>3 DEF SeeSignal, Moves, GatewayTypeOK, RateLimiterTypeOK, ListenerStates,
         ConnectionStates
    <3>2. JoinInv'
      BY <2>3 DEF SeeSignal, Moves, GatewayTypeOK, JoinInv, Ended
    <3>3. CASE tls
      <4>1. \A c \in Connections : conn'[c] = conn[c]
        BY <2>3, <3>3 DEF SeeSignal
      <4>2. Holders' = Holders
        BY <4>1 DEF Holders
      <4>3. listener'["http"] # "stopping"
        BY <2>3, <3>3 DEF SeeSignal, Moves, GatewayTypeOK, PermitInv, Listeners
      <4> QED
        BY <2>3, <3>1, <3>2, <3>3, <4>2, <4>3 DEF SeeSignal, PermitInv
    <3>4. CASE ~tls
      BY <2>3, <3>1, <3>2, <3>4 DEF SeeSignal, GatewayTypeOK, PermitInv
    <3> QED
      BY <3>1, <3>2, <3>3, <3>4
  <2> QED
    BY <2>1, <2>2, <2>3
<1>2. CASE AcceptFails(tls)
  BY <1>2 DEF AcceptFails, Moves, GatewayTypeOK, RateLimiterTypeOK, ListenerStates, Listeners,
     PermitInv, JoinInv, Ended, Holders
<1>3. CASE Join
  <2>1. joined' \in { "ok", "error" }
    BY <1>3 DEF Join, ResultOf
  <2> QED
    BY <1>3, <2>1 DEF Join, GatewayTypeOK, RateLimiterTypeOK, PermitInv, JoinInv, Ended, Holders
<1> QED
  BY <1>1, <1>2, <1>3

\* Connections: accepted, with or without a permit, and closed by either side.
LEMMA ConnectionSteps ==
    ASSUME GatewayTypeOK, NEW tls \in BOOLEAN, PermitInv(tls), JoinInv, NEW c \in Connections,
           \/ TryAcquire(c) \/ Handshake(c) \/ Respond(c)
           \/ Accept(c, tls) \/ HandshakeFails(c) \/ Disconnect(c, tls)
    PROVE  GatewayTypeOK' /\ PermitInv(tls)' /\ JoinInv'
<1> DEFINE before == conn[c]
           after == conn'[c]
<1>1. conn \in [ Connections -> ConnectionStates ] /\ permits \in 0 .. MaxTls
  BY DEF GatewayTypeOK
<1>2. UNCHANGED << listener, signal, joined, entries, recent >>
  BY DEF TryAcquire, Handshake, Respond, Accept, HandshakeFails, Disconnect
<1>3. /\ after \in ConnectionStates
      /\ Becomes(c, after)
  BY <1>1 DEF TryAcquire, Handshake, Respond, Accept, HandshakeFails, Disconnect, Becomes,
     ConnectionStates
<1>4. /\ conn' \in [ Connections -> ConnectionStates ]
      /\ \A d \in Connections : d # c => conn'[d] = conn[d]
  BY <1>1, <1>3 DEF Becomes
<1>5. /\ Cardinality(Holders) \in Nat /\ Cardinality(Holders') \in Nat
      /\ before \notin Holding /\ after \in Holding
           => Cardinality(Holders') = Cardinality(Holders) + 1
      /\ before \in Holding /\ after \notin Holding
           => Cardinality(Holders') = Cardinality(Holders) - 1
      /\ (before \in Holding <=> after \in Holding) => Holders' = Holders
  BY <1>1, <1>3, HoldersMove
<1>6. ASSUME tls PROVE PermitInv(tls)' /\ permits' \in 0 .. MaxTls
  <2>1. \/ before \notin Holding /\ after \in Holding /\ permits > 0 /\ permits' = permits - 1
        \/ before \in Holding /\ after \notin Holding /\ permits' = permits + 1
        \/ (before \in Holding <=> after \in Holding) /\ permits' = permits
    <3>1. CASE TryAcquire(c)
      BY <1>1, <3>1 DEF TryAcquire, Becomes, Holding
    <3>2. CASE Handshake(c)
      BY <1>1, <3>2 DEF Handshake, Becomes, Holding
    <3>3. CASE Respond(c)
      BY <1>1, <1>6, <3>3 DEF Respond, Becomes, Holding, PermitInv
    <3>4. CASE Accept(c, tls)
      BY <1>1, <1>6, <3>4 DEF Accept, Becomes, Holding
    <3>5. CASE HandshakeFails(c)
      BY <1>1, <3>5 DEF HandshakeFails, Becomes, Holding, Released
    <3>6. CASE Disconnect(c, tls)
      BY <1>1, <1>6, <3>6 DEF Disconnect, Becomes, Holding, Released
    <3> QED
      BY <3>1, <3>2, <3>3, <3>4, <3>5, <3>6
  <2>2. permits + Cardinality(Holders) = MaxTls
    BY <1>6 DEF PermitInv
  <2>3. permits' + Cardinality(Holders') = MaxTls /\ permits' \in 0 .. MaxTls
    <3>1. permits' + Cardinality(Holders') = MaxTls
      BY <1>1, <1>5, <2>1, <2>2
    <3>2. permits' \in Int /\ permits' >= 0
      BY <1>1, <2>1
    <3> QED
      BY <1>5, <3>1, <3>2, GatewayAssumption
  <2> QED
    BY <1>2, <1>6, <2>3 DEF PermitInv
<1>7. ASSUME ~tls PROVE PermitInv(tls)' /\ permits' \in 0 .. MaxTls
  <2>1. permits = MaxTls /\ before \notin { "accepted", "handshake" }
    BY <1>7 DEF PermitInv
  <2>2. permits' = permits /\ after \notin { "accepted", "handshake" }
    <3>1. CASE Accept(c, tls) \/ Respond(c) \/ Disconnect(c, tls)
      BY <1>1, <1>7, <2>1, <3>1 DEF Accept, Respond, Disconnect, Becomes, Released
    <3>2. CASE TryAcquire(c) \/ Handshake(c) \/ HandshakeFails(c)
      BY <2>1, <3>2 DEF TryAcquire, Handshake, HandshakeFails
    <3> QED
      BY <3>1, <3>2
  <2> QED
    BY <1>1, <1>4, <1>7, <2>1, <2>2, GatewayAssumption DEF PermitInv
<1> QED
  BY <1>2, <1>4, <1>6, <1>7 DEF GatewayTypeOK, RateLimiterTypeOK, JoinInv, Ended

\* Counts that are all raised are counts.
LEMMA RaisedCounts ==
    ASSUME NEW S, NEW f \in [ S -> Nat ]
    PROVE  [ i \in S |-> f[i] + 1 ] \in [ S -> Nat ]
<1>1. \A n \in Nat : n + 1 \in Nat
  OBVIOUS
<1> QED
  BY <1>1, Zenon

\* Calls, time and the sweeper leave listeners and permits alone.
LEMMA LimiterSteps ==
    ASSUME GatewayTypeOK, NEW tls \in BOOLEAN, PermitInv(tls), JoinInv,
           \/ Minute \/ Sweeper
           \/ \E c \in Connections, limited \in BOOLEAN :
                Invoke(c, limited) \/ InvokeLimited(c, limited)
    PROVE  GatewayTypeOK' /\ PermitInv(tls)' /\ JoinInv'
<1>1. CASE Minute
  <2>1. RateLimiterTypeOK'
    BY <1>1, LimiterType DEF Minute, GatewayTypeOK
  <2>2. recent' \in [ Clients -> [ 1 .. Window -> Nat ] ]
    <3>1. ASSUME NEW ip \in Clients, NEW i \in 1 .. Window, i # 1
          PROVE  recent[ip][i - 1] \in Nat
      BY <3>1, RateLimiterAssumption DEF GatewayTypeOK
    <3> QED
      BY <1>1, <3>1 DEF Minute
  <2> QED
    BY <1>1, <2>1, <2>2 DEF Minute, GatewayTypeOK, PermitInv, JoinInv, Ended, Holders
<1>2. CASE Sweeper
  <2>1. RateLimiterTypeOK'
    BY <1>2, LimiterType DEF Sweeper, GatewayTypeOK
  <2> QED
    BY <1>2, <2>1 DEF Sweeper, GatewayTypeOK, PermitInv, JoinInv, Ended, Holders
<1>3. ASSUME NEW c \in Connections, NEW limited \in BOOLEAN, Invoke(c, limited)
      PROVE  GatewayTypeOK' /\ PermitInv(tls)' /\ JoinInv'
  <2>1. ClientOf[c] \in Clients
    BY GatewayAssumption
  <2>2. RateLimiterTypeOK' /\ recent' \in [ Clients -> [ 1 .. Window -> Nat ] ]
    <3>1. CASE limited
      <4>1. RateLimiterTypeOK'
        BY <1>3, <2>1, <3>1, LimiterType DEF Invoke, GatewayTypeOK
      <4>2. [ i \in 1 .. Window |-> recent[ClientOf[c]][i] + 1 ] \in [ 1 .. Window -> Nat ]
        <5>1. recent[ClientOf[c]] \in [ 1 .. Window -> Nat ]
          BY <2>1 DEF GatewayTypeOK
        <5> QED
          BY <5>1, RaisedCounts
      <4>3. recent' = [ recent EXCEPT ![ClientOf[c]] =
                          [ i \in 1 .. Window |-> recent[ClientOf[c]][i] + 1 ] ]
        BY <1>3, <3>1 DEF Invoke
      <4>4. recent \in [ Clients -> [ 1 .. Window -> Nat ] ]
        BY DEF GatewayTypeOK
      <4>5. recent' \in [ Clients -> [ 1 .. Window -> Nat ] ]
        BY <4>2, <4>3, <4>4, Zenon
      <4> QED
        BY <4>1, <4>5
    <3>2. CASE ~limited
      BY <1>3, <3>2 DEF Invoke, GatewayTypeOK, RateLimiterTypeOK
    <3> QED
      BY <3>1, <3>2
  <2>3. /\ conn[c] = "open"
        /\ Becomes(c, "busy")
        /\ UNCHANGED << listener, signal, joined, permits >>
    BY <1>3 DEF Invoke
  <2>4. conn \in [ Connections -> ConnectionStates ]
    BY DEF GatewayTypeOK
  <2>5. Holders' = Holders
    BY <2>3, <2>4, HoldersMove DEF Holding, ConnectionStates
  <2>6. GatewayTypeOK'
    BY <2>2, <2>3, <2>4 DEF GatewayTypeOK, Becomes, ConnectionStates
  <2> QED
    BY <2>3, <2>4, <2>5, <2>6 DEF PermitInv, JoinInv, Ended, Becomes
<1>4. ASSUME NEW c \in Connections, NEW limited \in BOOLEAN, InvokeLimited(c, limited)
      PROVE  GatewayTypeOK' /\ PermitInv(tls)' /\ JoinInv'
  <2>1. RateLimiterTypeOK'
    BY <1>4, GatewayAssumption, LimiterType DEF InvokeLimited, GatewayTypeOK
  <2> QED
    BY <1>4, <2>1 DEF InvokeLimited, GatewayTypeOK, PermitInv, JoinInv, Ended, Holders
<1> QED
  BY <1>1, <1>2, <1>3, <1>4

-----------------------------------------------------------------------------
(***************************************************************************)
(* The rate limiter.  What a client was admitted within a stretch of       *)
(* Window ticks belongs to the open window and, for the rest, to the one   *)
(* before it, which has no more than the limit.                            *)
(***************************************************************************)

\* What a window that counted n calls has admitted.
Limited(n) == IF n <= MaxPerMinute THEN n ELSE MaxPerMinute

\* How an entry and the history of a client fit.
Fits(e, r) ==
    /\ \A i, j \in 1 .. Window : i <= j => r[i] <= r[j]
    /\ e = NoEntry \/ IsOver(e) => r[1] = 0 /\ r[Window] <= MaxPerMinute
    /\ e # NoEntry /\ ~IsOver(e) =>
         /\ r[e.age + 1] = Limited(e.count)
         /\ r[Window] <= MaxPerMinute + r[e.age + 1]

LimiterInv == \A ip \in Clients : Fits(entries[ip], recent[ip])

Histories == [ 1 .. Window -> Nat ]
Later(r) == [ i \in 1 .. Window |-> IF i = 1 THEN 0 ELSE r[i - 1] ]
OneMore(r) == [ i \in 1 .. Window |-> r[i] + 1 ]

\* A tick takes the oldest tick's calls out of the history, which a window that
\* is over by then no longer accounts for.
LEMMA TickFits ==
    ASSUME NEW e \in RateLimitEntries \cup { NoEntry }, NEW r \in Histories, Fits(e, r)
    PROVE  Fits(Older(e), Later(r))
<1> DEFINE q == Later(r)
<1> USE RateLimiterAssumption
<1>1. \A i \in 1 .. Window : q[i] = IF i = 1 THEN 0 ELSE r[i - 1]
  BY DEF Later
<1>2. \A i \in 1 .. Window : r[i] \in Nat
  BY DEF Histories
<1>3. 1 \in 1 .. Window /\ Window \in 1 .. Window /\ Window - 1 \in Nat
  OBVIOUS
<1>4. q[1] = 0 /\ q[Window] <= r[Window]
  BY <1>1, <1>2, <1>3 DEF Fits
<1>5. \A i, j \in 1 .. Window : i <= j => q[i] <= q[j]
  <2> SUFFICES ASSUME NEW i \in 1 .. Window, NEW j \in 1 .. Window, i <= j
               PROVE  q[i] <= q[j]
    OBVIOUS
  <2>1. CASE i = 1
    BY <1>1, <1>2, <2>1
  <2>2. CASE i # 1
    <3>1. i - 1 \in 1 .. Window /\ j - 1 \in 1 .. Window /\ j # 1
      BY <2>2
    <3> QED
      BY <1>1, <2>2, <3>1 DEF Fits
  <2> QED
    BY <2>1, <2>2
<1> HIDE DEF q
<1>6. CASE e = NoEntry \/ IsOver(e)
  <2>1. Older(e) = e
    BY <1>6 DEF Older
  <2>2. r[Window] <= MaxPerMinute /\ q[Window] \in Nat
    BY <1>1, <1>2, <1>3, <1>6 DEF Fits
  <2>3. q[Window] <= MaxPerMinute
    BY <1>2, <1>3, <1>4, <2>2
  <2>4. Fits(e, q)
    BY <1>4, <1>5, <1>6, <2>3 DEF Fits
  <2> QED
    BY <2>1, <2>4 DEF q
<1>7. CASE e # NoEntry /\ ~IsOver(e)
  <2> DEFINE d == Older(e)
  <2>1. d = [ e EXCEPT !.age = @ + 1 ] /\ e \in RateLimitEntries
    BY <1>7 DEF Older
  <2>2. /\ d.count = e.count /\ d.age = e.age + 1 /\ d # NoEntry
        /\ e.age \in Nat /\ e.age < Window /\ e.count \in Nat
    BY <1>7, <2>1 DEF IsOver, RateLimitEntries
  <2> HIDE DEF d
  <2>3. /\ r[e.age + 1] = Limited(e.count)
        /\ r[Window] <= MaxPerMinute + r[e.age + 1]
        /\ r[e.age + 1] \in Nat /\ r[e.age + 1] <= MaxPerMinute
    BY <1>2, <1>7, <2>2 DEF Fits, Limited
  <2>4. CASE IsOver(d)
    <3>1. e.age + 1 = Window
      BY <2>2, <2>4 DEF IsOver
    <3>2. q[Window] <= MaxPerMinute
      BY <1>1, <1>2, <1>3, <1>4, <2>3, <3>1
    <3>3. Fits(d, q)
      BY <1>4, <1>5, <2>4, <3>2 DEF Fits
    <3> QED
      BY <3>3 DEF d, q
  <2>5. CASE ~IsOver(d)
    <3>1. d.age + 1 \in 1 .. Window /\ d.age + 1 # 1 /\ d.age + 1 - 1 = e.age + 1
      BY <2>2, <2>5 DEF IsOver
    <3>2. q[d.age + 1] = r[e.age + 1]
      <4>1. q[d.age + 1] = r[(d.age + 1) - 1]
        BY <1>1, <3>1
      <4> QED
        BY <2>2, <4>1
    <3>3. q[d.age + 1] = Limited(d.count) /\ q[Window] <= MaxPerMinute + q[d.age + 1]
      BY <1>1, <1>2, <1>3, <1>4, <2>2, <2>3, <3>2
    <3>4. Fits(d, q)
      BY <1>5, <2>2, <2>5, <3>3 DEF Fits
    <3> QED
      BY <3>4 DEF d, q
  <2> QED
    BY <2>4, <2>5
<1> QED
  BY <1>6, <1>7

\* The sweeper forgets windows that are over.
LEMMA SweepFits ==
    ASSUME NEW e \in RateLimitEntries \cup { NoEntry }, NEW r, Fits(e, r)
    PROVE  Fits(Swept(e), r)
BY DEF Fits, Swept

\* An admitted call is counted by both, a refused one by neither.
LEMMA CheckFits ==
    ASSUME RateLimiterTypeOK, MaxPerMinute # 0, NEW ip \in Clients, NEW r \in Histories,
           Fits(entries[ip], r)
    PROVE  /\ Admits(ip) => Fits(Checked(ip), OneMore(r))
           /\ ~Admits(ip) => Fits(Checked(ip), r) /\ r[Window] >= MaxPerMinute
<1> DEFINE e == entries[ip]
           n == Checked(ip)
           q == OneMore(r)
<1> USE RateLimiterAssumption
<1>1. \A i \in 1 .. Window : q[i] = r[i] + 1 /\ r[i] \in Nat
  BY DEF OneMore, Histories
<1>2. 1 \in 1 .. Window /\ Window \in 1 .. Window
  OBVIOUS
<1>3. e \in RateLimitEntries \cup { NoEntry } /\ Fits(e, r)
  BY DEF RateLimiterTypeOK
<1>4. \A i, j \in 1 .. Window : i <= j => r[i] <= r[j] /\ q[i] <= q[j]
  BY <1>1 DEF Fits
<1> HIDE DEF q
<1>5. CASE e = NoEntry \/ IsOver(e)
  <2>1. n = [ count |-> 1, age |-> 0 ]
    BY <1>5 DEF Checked
  <2>2. n \in RateLimitEntries /\ n # NoEntry /\ n.count = 1 /\ n.age = 0 /\ ~IsOver(n)
    BY <2>1 DEF RateLimitEntries, IsOver
  <2>3. Admits(ip)
    BY <2>2 DEF Admits
  <2>4. r[1] = 0 /\ r[Window] <= MaxPerMinute
    BY <1>3, <1>5 DEF Fits
  <2>5. q[n.age + 1] = Limited(n.count) /\ q[Window] <= MaxPerMinute + q[n.age + 1]
    BY <1>1, <1>2, <2>2, <2>4 DEF Limited
  <2> QED
    BY <1>4, <2>2, <2>3, <2>5 DEF Fits, q
<1>6. CASE e # NoEntry /\ ~IsOver(e)
  <2>1. n = Raised(e) /\ e \in RateLimitEntries
    BY <1>3, <1>6 DEF Checked
  <2>2. /\ e.age \in Nat /\ e.age < Window /\ e.count \in 1 .. MaxPerMinute + 1
        /\ n.age = e.age
        /\ n.count = IF e.count <= MaxPerMinute THEN e.count + 1 ELSE e.count
        /\ n \in RateLimitEntries
    BY <1>6, <2>1 DEF IsOver, Raised, RateLimitEntries
  <2>3. n # NoEntry /\ ~IsOver(n) /\ e.age + 1 \in 1 .. Window
    BY <2>2 DEF IsOver
  <2>4. r[e.age + 1] = Limited(e.count) /\ r[Window] <= MaxPerMinute + r[e.age + 1]
    BY <1>3, <1>6 DEF Fits
  <2>5. CASE Admits(ip)
    <3>1. n.count = e.count + 1 /\ n.count <= MaxPerMinute
      BY <2>2, <2>5 DEF Admits
    <3>2. q[n.age + 1] = Limited(n.count) /\ q[Window] <= MaxPerMinute + q[n.age + 1]
      BY <1>1, <1>2, <2>2, <2>3, <2>4, <3>1 DEF Limited
    <3> QED
      BY <1>4, <2>3, <2>5, <3>2 DEF Fits, q
  <2>6. CASE ~Admits(ip)
    <3>1. n.count > MaxPerMinute
      BY <2>2, <2>6 DEF Admits
    <3>2. Limited(e.count) = MaxPerMinute /\ Limited(n.count) = MaxPerMinute
      BY <2>2, <3>1 DEF Limited
    <3>3. r[Window] >= MaxPerMinute
      BY <1>1, <1>2, <1>4, <2>2, <2>3, <2>4, <3>2
    <3> QED
      BY <1>4, <2>2, <2>3, <2>4, <2>6, <3>2, <3>3 DEF Fits
  <2> QED
    BY <2>5, <2>6
<1> QED
  BY <1>5, <1>6

-----------------------------------------------------------------------------
(***************************************************************************)
(* The run loop.  Its phases order what the parts may have done: nothing   *)
(* is started before the configuration is loaded, nothing listens before   *)
(* everything is started, and every exit has its cause.                    *)
(***************************************************************************)

PhaseInv ==
    /\ world \in Worlds
    /\ config \in Configs \cup { NoConfig }
    /\ phase \in Phases
    /\ exit \in Exits
    /\ phase \in { "booting", "serving", "draining" } => config # NoConfig
    /\ phase \in { "loading", "booting" } =>
         /\ permits = MaxTls
         /\ joined = "no"
         /\ listener = [ l \in Listeners |-> "off" ]
         /\ conn = [ c \in Connections |-> "none" ]
    /\ phase = "exited" <=> exit # "none"
    /\ phase = "loading" \/ exit = "config" => \A p \in Paths : plugin[p].st = "Absent"
    /\ exit = "joined" => joined # "no"

DaemonInv ==
    /\ GatewayTypeOK
    /\ JoinInv
    /\ config # NoConfig => PermitInv(config.tls)
    /\ PhaseInv
    /\ WatchInv

\* Before a listener has started, all permits are left, whichever it will be.
LEMMA NoneHeld ==
    ASSUME permits = MaxTls, conn = [ c \in Connections |-> "none" ], NEW tls \in BOOLEAN,
           listener["http"] # "stopping"
    PROVE  PermitInv(tls)
<1>1. Holders = {}
  BY DEF Holders
<1>2. Cardinality(Holders) = 0
  BY <1>1, FS_EmptySet
<1> QED
  BY <1>2, GatewayAssumption DEF PermitInv

\* The daemon begins in order.
LEMMA DaemonInit == Init => DaemonInv
<1> SUFFICES ASSUME Init PROVE DaemonInv
  OBVIOUS
<1>1. PICK w \in Worlds : /\ world = w /\ NewWatcher(w.disk) /\ NewGateway
                          /\ config = NoConfig /\ phase = "loading" /\ exit = "none"
  BY DEF Init
<1>2. WatchInv
  BY <1>1, WatchInit, DaemonAssumption
<1>3. GatewayTypeOK /\ JoinInv
  <2>1. recent \in [ Clients -> [ 1 .. Window -> Nat ] ]
    BY <1>1 DEF NewGateway
  <2>2. RateLimiterTypeOK
    BY <1>1 DEF NewGateway, NewRateLimiter, RateLimiterTypeOK
  <2>3. permits \in 0 .. MaxTls
    BY <1>1, GatewayAssumption DEF NewGateway
  <2>4. listener \in [ Listeners -> ListenerStates ] /\ conn \in [ Connections -> ConnectionStates ]
    BY <1>1 DEF NewGateway, ListenerStates, ConnectionStates
  <2>5. signal \in BOOLEAN /\ joined = "no"
    BY <1>1 DEF NewGateway
  <2> QED
    BY <2>1, <2>2, <2>3, <2>4, <2>5 DEF GatewayTypeOK, JoinInv
<1>4. PhaseInv
  BY <1>1 DEF NewGateway, NewWatcher, PhaseInv, Phases, Exits, Fresh
<1> QED
  BY <1>1, <1>2, <1>3, <1>4 DEF DaemonInv

\* A flag is on or off, whatever the environment says.
LEMMA FlagType ==
    ASSUME NEW value, NEW floor \in BOOLEAN
    PROVE  Flag(value, floor) \in BOOLEAN
<1>1. CASE value = Unset
  BY <1>1, Zenon DEF Flag
<1>2. CASE value # Unset
  <2>1. Flag(value, floor) = (value \in { "true", "1" })
    BY <1>2 DEF Flag
  <2>2. (value \in { "true", "1" }) \in BOOLEAN
    OBVIOUS
  <2> QED
    BY <2>1, <2>2, Zenon
<1> QED
  BY <1>1, <1>2

\* The loaded configuration is one.
LEMMA LoadedType == Loaded \in Configs
<1>1. /\ FromFile.tls = (world.file.tls = "true")
      /\ FromFile.watch = (world.file.watch = "true")
  BY DEF FromFile
<1>2. /\ Flag(world.env.tls, world.file.tls = "true") \in BOOLEAN
      /\ Flag(world.env.watch, world.file.watch = "true") \in BOOLEAN
  BY FlagType
<1>3. /\ Flag(world.env.tls, FromFile.tls) \in BOOLEAN
      /\ Flag(world.env.watch, FromFile.watch) \in BOOLEAN
  BY <1>1, <1>2, Zenon
<1>4. (Limit = "some") \in BOOLEAN
  OBVIOUS
<1>5. \A tls, watch, limited \in BOOLEAN :
        [ tls |-> tls, watch |-> watch, limited |-> limited ] \in Configs
  BY DEF Configs
<1> QED
  BY <1>3, <1>4, <1>5 DEF Loaded

\* Steps of the watcher and of editing, from the phases that have them.
LEMMA WatchSteps ==
    ASSUME DaemonInv, Boot \/ Watching \/ Editing
    PROVE  DaemonInv'
<1>1. WatchInv'
  <2>1. CASE Boot
    BY <2>1, BootStep DEF Boot, DaemonInv
  <2>2. CASE Watching
    BY <2>2, LookStep, StartIfNewStep, RestartChangedStep, RetryStep, RoundStep
       DEF Watching, Watch, DaemonInv
  <2>3. CASE Editing
    BY <2>3, EditStep DEF Editing, DaemonInv
  <2> QED
    BY <2>1, <2>2, <2>3
<1>2. UNCHANGED << gatewayVars, daemonVars >>
  BY DEF Boot, Watching, Editing
<1>3. phase = "loading" \/ exit = "config" => UNCHANGED plugin
  <2>1. phase = "loading" \/ exit = "config" => Editing
    BY DEF Boot, Watching, DaemonInv, PhaseInv
  <2> QED
    BY <2>1 DEF Editing, Edit
<1>4. GatewayTypeOK' /\ JoinInv' /\ (config # NoConfig => PermitInv(config.tls))'
  BY <1>2 DEF gatewayVars, daemonVars, DaemonInv, GatewayTypeOK, RateLimiterTypeOK, JoinInv, Ended,
     PermitInv, Holders
<1>5. PhaseInv'
  BY <1>2, <1>3 DEF gatewayVars, daemonVars, DaemonInv, PhaseInv
<1> QED
  BY <1>1, <1>4, <1>5 DEF DaemonInv

\* What stays when the watcher's variables do.
LEMMA WatchFrame ==
    ASSUME WatchInv, UNCHANGED watchVars
    PROVE  WatchInv'
BY DEF watchVars, WatchInv, WatcherTypeOK, BootOrder, JobFits, LostOnlyInBoot, RecordedIsTaken,
   Files, Times

\* Steps of the listeners, of their connections and of time.
LEMMA GatewaySteps ==
    ASSUME DaemonInv, Listening \/ Failing \/ Serve \/ Clienting \/ Passing \/ Returns
    PROVE  DaemonInv'
<1>1. phase \in { "serving", "draining" } /\ UNCHANGED << watchVars, daemonVars >>
  BY DEF Listening, Failing, Serve, Clienting, Passing, Returns, Alive
<1>2. /\ config # NoConfig /\ config \in Configs
      /\ config.tls \in BOOLEAN /\ config.limited \in BOOLEAN
      /\ PermitInv(config.tls)
      /\ world.clients \subseteq Connections
  BY <1>1, DaemonAssumption DEF DaemonInv, PhaseInv, Configs
<1>3. GatewayTypeOK' /\ PermitInv(config.tls)' /\ JoinInv'
  <2>1. CASE Listening \/ Failing \/ Returns
    BY <1>2, <2>1, ListenerSteps DEF Listening, Failing, Returns, DaemonInv, daemonVars
  <2>2. CASE Serve
    BY <1>2, <2>2, ConnectionSteps DEF Serve, ConnectionStep, DaemonInv, daemonVars
  <2>3. CASE Clienting
    BY <1>2, <2>3, ConnectionSteps, LimiterSteps DEF Clienting, ClientStep, DaemonInv, daemonVars
  <2>4. CASE Passing
    BY <1>2, <2>4, LimiterSteps DEF Passing, DaemonInv, daemonVars
  <2> QED
    BY <2>1, <2>2, <2>3, <2>4
<1>4. WatchInv'
  BY <1>1, WatchFrame DEF DaemonInv
<1>5. joined = "no" \/ joined' = joined
  BY DEF Listening, Failing, Serve, Clienting, Passing, Returns, ListenerStep, Bind, BindFails,
     SeeSignal, Stop, AcceptFails, ConnectionStep, TryAcquire, Handshake, Respond, ClientStep,
     Accept, HandshakeFails, Disconnect, Invoke, InvokeLimited, Minute, Sweeper, Join
<1>6. PhaseInv'
  BY <1>1, <1>5 DEF DaemonInv, PhaseInv, daemonVars, watchVars
<1> QED
  BY <1>1, <1>3, <1>4, <1>6 DEF DaemonInv, daemonVars

\* Steps of cmd_run itself.
LEMMA RunSteps ==
    ASSUME DaemonInv,
           LoadConfig \/ SignalBeforeStart \/ StartGateway \/ ExitJoined \/ CtrlC \/ Drained
    PROVE  DaemonInv'
<1>1. UNCHANGED watchVars /\ WatchInv'
  BY WatchFrame
     DEF DaemonInv, LoadConfig, SignalBeforeStart, StartGateway, ExitJoined, CtrlC, Drained
<1>2. CASE LoadConfig
  <2>1. UNCHANGED gatewayVars /\ world' = world /\ phase = "loading" /\ exit = "none"
    BY <1>2 DEF LoadConfig, DaemonInv, PhaseInv
  <2>2. \/ config' = Loaded /\ phase' = "booting" /\ exit' = "none"
        \/ config' = config /\ phase' = "exited" /\ exit' = "config"
    BY <1>2, <2>1 DEF LoadConfig, Leaves
  <2>3. PhaseInv'
    BY <1>1, <2>1, <2>2, LoadedType, DaemonAssumption
       DEF DaemonInv, PhaseInv, gatewayVars, watchVars, Phases, Exits
  <2>4. \A tls \in BOOLEAN : PermitInv(tls)'
    <3>1. permits = MaxTls /\ conn = [ c \in Connections |-> "none" ]
          /\ listener["http"] # "stopping"
      BY <2>1 DEF DaemonInv, PhaseInv, Listeners
    <3> QED
      BY <2>1, <3>1, NoneHeld DEF gatewayVars, PermitInv, Holders
  <2>5. config' \in Configs => config'.tls \in BOOLEAN
    BY DEF Configs
  <2> QED
    BY <1>1, <2>1, <2>3, <2>4, <2>5 DEF DaemonInv, PhaseInv, gatewayVars, GatewayTypeOK,
       RateLimiterTypeOK, JoinInv, Ended
<1>3. CASE SignalBeforeStart
  BY <1>1, <1>3 DEF SignalBeforeStart, Signal, daemonVars, watchVars, DaemonInv, PhaseInv,
     GatewayTypeOK, RateLimiterTypeOK, JoinInv, Ended, PermitInv, Holders
<1>4. CASE StartGateway
  <2>1. PhaseInv'
    BY <1>1, <1>4 DEF StartGateway, SpawnListeners, DaemonInv, PhaseInv, Phases, watchVars
  <2>2. GatewayTypeOK' /\ JoinInv'
    BY <1>4 DEF StartGateway, SpawnListeners, DaemonInv, PhaseInv, GatewayTypeOK,
       RateLimiterTypeOK, ListenerStates, JoinInv
  <2>3. (config # NoConfig => PermitInv(config.tls))'
    BY <1>4 DEF StartGateway, SpawnListeners, DaemonInv, PermitInv, Holders, Listeners
  <2> QED
    BY <1>1, <2>1, <2>2, <2>3 DEF DaemonInv
<1>5. CASE ExitJoined \/ CtrlC \/ Drained
  <2>1. UNCHANGED << gatewayVars, world, config >>
    BY <1>5 DEF ExitJoined, CtrlC, Drained
  <2>2. PhaseInv'
    BY <1>1, <1>5, <2>1 DEF ExitJoined, CtrlC, Drained, Leaves, DaemonInv, PhaseInv, Phases, Exits,
       gatewayVars, watchVars
  <2> QED
    BY <1>1, <2>1, <2>2 DEF gatewayVars, DaemonInv, GatewayTypeOK, RateLimiterTypeOK, JoinInv, Ended,
       PermitInv, Holders
<1> QED
  BY <1>2, <1>3, <1>4, <1>5

\* DaemonInv is inductive.
LEMMA DaemonStep == DaemonInv /\ [Next]_vars => DaemonInv'
<1> SUFFICES ASSUME DaemonInv, [Next]_vars PROVE DaemonInv'
  OBVIOUS
<1>1. CASE Next
  BY <1>1, WatchSteps, GatewaySteps, RunSteps DEF Next
<1>2. CASE UNCHANGED vars
  <2>1. WatchInv'
    BY <1>2, WatchFrame DEF vars, DaemonInv
  <2> QED
    BY <1>2, <2>1 DEF vars, gatewayVars, watchVars, DaemonInv, PhaseInv, GatewayTypeOK,
       RateLimiterTypeOK, JoinInv, Ended, PermitInv, Holders
<1> QED
  BY <1>1, <1>2

\* It holds of every reachable state.
LEMMA DaemonInvariance == Spec => []DaemonInv
BY DaemonInit, DaemonStep, PTL DEF Spec

\* The variables of the run loop, of its watcher and of its listeners keep
\* their types; the semaphore never has more permits than it began with, nor
\* fewer than none.
THEOREM DaemonTypeCorrect == Spec => []TypeOK
<1>1. DaemonInv => TypeOK
  BY DEF DaemonInv, WatchInv, PhaseInv, TypeOK
<1> QED
  BY <1>1, DaemonInvariance, PTL

\* However connections end -- refused, failed in the handshake, hung up, closed
\* behind an answer -- the permits left and those held are all there are
\* (serve_tls).
THEOREM PermitsConservation == Spec => []PermitsAddUp
<1>1. DaemonInv => PermitsAddUp
  BY DEF DaemonInv, PermitInv, PermitsAddUp, PermitsConserved
<1> QED
  BY <1>1, DaemonInvariance, PTL

\* A manifest the watcher takes for seen but that has no plugin was recorded by
\* the first scan without having been discovered: whatever is edited when, no
\* round of the loop loses one (cmd_run).
THEOREM ManifestsLostOnlyInBoot == Spec => []LostOnlyInBoot
<1>1. DaemonInv => LostOnlyInBoot
  BY DEF DaemonInv, WatchInv
<1> QED
  BY <1>1, DaemonInvariance, PTL

\* A plugin was last started from the contents of the recorded time, unless the
\* watcher recorded a time whose contents nobody took (cmd_run).
THEOREM RecordedTimesAreTaken == Spec => []RecordedIsTaken
<1>1. DaemonInv => RecordedIsTaken
  BY DEF DaemonInv, WatchInv
<1> QED
  BY <1>1, DaemonInvariance, PTL

\* A daemon that has started plugins leaves without draining them only when it
\* is killed in the boot or both its listeners have ended (cmd_run,
\* Gateway::start).
THEOREM UndrainedExits == Spec => []ExitUndrained
<1>1. DaemonInv => ExitUndrained
  BY DEF DaemonInv, PhaseInv, JoinInv, Exits, ExitUndrained
<1> QED
  BY <1>1, DaemonInvariance, PTL

-----------------------------------------------------------------------------
(***************************************************************************)
(* The rate limiter in the running daemon.                                 *)
(***************************************************************************)

\* The steps that touch the limiter or the history: a call, served or turned
\* away, a tick, a round of the sweeper.
LEMMA LimiterFrame ==
    ASSUME [Next]_vars
    PROVE  \/ UNCHANGED << entries, recent >>
           \/ \E c \in world.clients : \/ Invoke(c, config.limited)
                                       \/ InvokeLimited(c, config.limited)
           \/ Minute \/ Sweeper
BY DEF Next, LoadConfig, Boot, SignalBeforeStart, StartGateway, Watching, Editing, Listening,
   Failing, Serve, Clienting, Passing, Returns, ExitJoined, CtrlC, Drained, ListenerStep, Bind,
   BindFails, SeeSignal, Stop, AcceptFails, Join, Signal, ConnectionStep, TryAcquire, Handshake,
   Respond, ClientStep, Accept, HandshakeFails, Disconnect, vars, gatewayVars

\* A call changes the entry and the history of its client only.
LEMMA InvokeFits ==
    ASSUME MaxPerMinute # 0, GatewayTypeOK, LimiterInv, NEW c \in Connections, NEW limited \in BOOLEAN,
           Invoke(c, limited) \/ InvokeLimited(c, limited)
    PROVE  LimiterInv'
<1> DEFINE ip == ClientOf[c]
<1>1. /\ ip \in Clients /\ RateLimiterTypeOK /\ entries \in [ Clients -> RateLimitEntries \cup { NoEntry } ]
      /\ recent \in [ Clients -> Histories ] /\ recent[ip] \in Histories
  BY GatewayAssumption DEF GatewayTypeOK, RateLimiterTypeOK, Histories
<1>2. /\ Admits(ip) => Fits(Checked(ip), OneMore(recent[ip]))
      /\ ~Admits(ip) => Fits(Checked(ip), recent[ip])
  BY <1>1, CheckFits DEF LimiterInv
<1>3. CASE ~limited
  BY <1>3 DEF LimiterInv, Invoke, InvokeLimited
<1>4. CASE limited
  <2>1. Check(ip)
    BY <1>4 DEF Invoke, InvokeLimited
  <2>2. entries' = [ entries EXCEPT ![ip] = Checked(ip) ]
    BY <2>1 DEF Check
  <2>3. CASE Admits(ip)
    <3>1. recent' = [ recent EXCEPT ![ip] = OneMore(recent[ip]) ]
      BY <1>1, <1>4, <2>3 DEF Invoke, InvokeLimited, OneMore
    <3> QED
      BY <1>1, <1>2, <2>2, <2>3, <3>1, Zenon DEF LimiterInv
  <2>4. CASE ~Admits(ip)
    <3>1. recent' = recent
      BY <1>4, <2>4 DEF Invoke, InvokeLimited
    <3> QED
      BY <1>1, <1>2, <2>2, <2>4, <3>1, Zenon DEF LimiterInv
  <2> QED
    BY <2>3, <2>4
<1> QED
  BY <1>3, <1>4

\* Whoever calls when, the entries and the history fit.
LEMMA LimiterInvariance ==
    ASSUME MaxPerMinute # 0
    PROVE  Spec => [](DaemonInv /\ LimiterInv)
<1>1. Init => LimiterInv
  <2> SUFFICES ASSUME Init PROVE LimiterInv
    OBVIOUS
  <2>1. /\ entries = [ ip \in Clients |-> NoEntry ]
        /\ recent = [ ip \in Clients |-> [ i \in 1 .. Window |-> 0 ] ]
    BY DEF Init, NewGateway, NewRateLimiter
  <2>2. ASSUME NEW ip \in Clients, NEW r, r = recent[ip] PROVE Fits(NoEntry, r)
    <3>1. \A i \in 1 .. Window : r[i] = 0
      BY <2>1, <2>2
    <3>2. 1 \in 1 .. Window /\ Window \in 1 .. Window
      BY RateLimiterAssumption
    <3> QED
      BY <3>1, <3>2, RateLimiterAssumption DEF Fits
  <2> QED
    BY <2>1, <2>2 DEF LimiterInv
<1>2. DaemonInv /\ LimiterInv /\ [Next]_vars => LimiterInv'
  <2> SUFFICES ASSUME DaemonInv, LimiterInv, [Next]_vars PROVE LimiterInv'
    OBVIOUS
  <2>1. GatewayTypeOK /\ RateLimiterTypeOK /\ recent \in [ Clients -> Histories ]
    BY DEF DaemonInv, GatewayTypeOK, Histories
  <2>2. CASE UNCHANGED << entries, recent >>
    BY <2>2 DEF LimiterInv
  <2>3. ASSUME NEW c \in world.clients,
               Invoke(c, config.limited) \/ InvokeLimited(c, config.limited)
        PROVE  LimiterInv'
    <3>1. c \in Connections
      BY <2>3, DaemonAssumption DEF DaemonInv, PhaseInv
    <3>2. CASE UNCHANGED << entries, recent >>
      BY <3>2 DEF LimiterInv
    <3>3. CASE config.limited
      BY <2>1, <2>3, <3>1, <3>3, InvokeFits
    <3> QED
      BY <2>3, <3>2, <3>3 DEF Invoke, InvokeLimited
  <2>4. CASE Minute
    <3>1. ASSUME NEW ip \in Clients PROVE Fits(entries'[ip], recent'[ip])
      <4>1. entries[ip] \in RateLimitEntries \cup { NoEntry } /\ recent[ip] \in Histories
        BY <2>1 DEF RateLimiterTypeOK
      <4>2. entries'[ip] = Older(entries[ip]) /\ recent'[ip] = Later(recent[ip])
        BY <2>4 DEF Minute, Ages, Later
      <4> QED
        BY <4>1, <4>2, TickFits DEF LimiterInv
    <3> QED
      BY <3>1 DEF LimiterInv
  <2>5. CASE Sweeper
    <3>1. ASSUME NEW ip \in Clients PROVE Fits(entries'[ip], recent'[ip])
      <4>1. entries[ip] \in RateLimitEntries \cup { NoEntry }
        BY <2>1 DEF RateLimiterTypeOK
      <4>2. entries'[ip] = Swept(entries[ip]) /\ recent'[ip] = recent[ip]
        BY <2>5 DEF Sweeper, Sweep
      <4> QED
        BY <4>1, <4>2, SweepFits DEF LimiterInv
    <3> QED
      BY <3>1 DEF LimiterInv
  <2> QED
    BY <2>2, <2>3, <2>4, <2>5, LimiterFrame
<1> QED
  BY <1>1, <1>2, DaemonInit, DaemonStep, PTL DEF Spec

\* Whenever a client calls and whenever the sweeper comes round, a limiter admits
\* no more than twice its limit within the length of a window
\* (RateLimiter::check).
THEOREM BurstsAreBounded ==
    ASSUME MaxPerMinute # 0
    PROVE  Spec => []BurstBound
<1>1. DaemonInv /\ LimiterInv => BurstBound
  <2> SUFFICES ASSUME DaemonInv, LimiterInv, NEW ip \in Clients
               PROVE  recent[ip][Window] <= 2 * MaxPerMinute
    BY DEF BurstBound, Total
  <2> DEFINE e == entries[ip]
             r == recent[ip]
  <2>1. /\ e \in RateLimitEntries \cup { NoEntry } /\ r \in Histories
        /\ r[Window] \in Nat
    BY RateLimiterAssumption DEF DaemonInv, GatewayTypeOK, RateLimiterTypeOK, Histories
  <2>2. Fits(e, r)
    BY DEF LimiterInv
  <2>3. CASE e = NoEntry \/ IsOver(e)
    BY <2>1, <2>2, <2>3, RateLimiterAssumption DEF Fits
  <2>4. CASE e # NoEntry /\ ~IsOver(e)
    <3>1. e.count \in Nat
      BY <2>1, <2>4, RateLimiterAssumption DEF RateLimitEntries
    <3>2. Limited(e.count) \in 0 .. MaxPerMinute
      BY <3>1, RateLimiterAssumption DEF Limited
    <3>3. r[Window] <= MaxPerMinute + Limited(e.count)
      BY <2>2, <2>4 DEF Fits
    <3> QED
      BY <2>1, <3>2, <3>3, RateLimiterAssumption
  <2> QED
    BY <2>3, <2>4
<1> QED
  BY <1>1, LimiterInvariance, PTL

\* And it turns a call away only if it admitted as many as the limit within that
\* time: that refused calls are counted harms nobody (RateLimiter::check).
THEOREM RefusalsAreJust ==
    ASSUME MaxPerMinute # 0
    PROVE  Spec => []RefusedJustly
<1>1. DaemonInv /\ LimiterInv => RefusedJustly
  <2> SUFFICES ASSUME DaemonInv, LimiterInv, NEW ip \in Clients, ~Admits(ip)
               PROVE  recent[ip][Window] >= MaxPerMinute
    BY DEF RefusedJustly, Total
  <2>1. RateLimiterTypeOK /\ recent[ip] \in Histories
    BY DEF DaemonInv, GatewayTypeOK, Histories
  <2> QED
    BY <2>1, CheckFits DEF LimiterInv
<1> QED
  BY <1>1, LimiterInvariance, PTL
=============================================================================
