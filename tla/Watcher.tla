------------------------------ MODULE Watcher ------------------------------
(***************************************************************************)
(* The manifest directory and the file watcher: discovery                  *)
(* (src/forge/src/config.rs), the boot's first scan and the poll loop of   *)
(* cmd_run (src/cli/src/main.rs), and what its calls do to the plugins     *)
(* (start_plugin_if_new, restart_plugin and retry_plugin_watch of the      *)
(* manager, whose steps module Manager has).                               *)
(*                                                                         *)
(* A manifest file is its modification time, which also stands for its     *)
(* contents, and whether it is there and parses; each file is a plugin's.  *)
(***************************************************************************)
EXTENDS Naturals

CONSTANTS
    Paths,          \* manifest files, one plugin each
    NoPath,
    MaxTime,        \* bound: modification times, so that editing ends
    MaxRetries      \* restart_max_attempts of the manifests

ASSUME WatcherAssumption == MaxTime \in Nat \ { 0 } /\ MaxRetries \in Nat \ { 0 }

Times == 1 .. MaxTime
Unseen == 0
Files == [ mtime : Times \cup { Unseen }, st : { "absent", "valid", "invalid" } ]

PluginStates == { "Absent", "Discovered", "Connecting", "Handshaking", "Ready", "Stopped" }
Stuck == { "Connecting", "Discovered" }
WatcherPcs == { "off", "boot", "started", "sleep", "poll", "act", "retry" }
Jobs == { "none", "new", "changed" }

VARIABLES
    disk,         \* path -> the file
    last_mtimes,  \* path -> the modification time the watcher has recorded
    plugin,       \* path -> state, cached manifest and attempts of its plugin
    watcher,      \* where cmd_run's watching is
    batch,        \* manifests of the last discovery not yet looked at: path -> contents
    job,          \* the manifest at hand: what to do, with which contents and time
    slipped,      \* history: recorded by the first scan, unknown to the boot
    unread        \* history: recorded with a time whose contents nobody took

watchVars == << disk, last_mtimes, plugin, watcher, batch, job, slipped, unread >>

NoJob == [ kind |-> "none", path |-> NoPath, contents |-> Unseen, mtime |-> Unseen ]
Fresh == [ st |-> "Absent", cached |-> Unseen, attempts |-> 0 ]

WatcherTypeOK ==
    /\ disk \in [ Paths -> Files ]
    /\ last_mtimes \in [ Paths -> Times \cup { Unseen } ]
    /\ plugin \in [ Paths -> [ st : PluginStates, cached : Times \cup { Unseen },
                               attempts : 0 .. MaxRetries ] ]
    /\ watcher \in WatcherPcs
    /\ batch \in [ Paths -> Times \cup { Unseen } ]
    /\ job \in [ kind : Jobs, path : Paths \cup { NoPath },
                 contents : Times \cup { Unseen }, mtime : Times \cup { Unseen } ]
    /\ slipped \subseteq Paths
    /\ unread \subseteq Paths

NewWatcher(files) ==
    /\ disk = files
    /\ last_mtimes = [ p \in Paths |-> Unseen ]
    /\ plugin = [ p \in Paths |-> Fresh ]
    /\ watcher = "off"
    /\ batch = [ p \in Paths |-> Unseen ]
    /\ job = NoJob
    /\ slipped = {}
    /\ unread = {}

\* discover_plugin_manifests: the manifests that exist and parse.
Parses(p) == disk[p].st = "valid"
Discovered == [ p \in Paths |-> IF Parses(p) THEN disk[p].mtime ELSE Unseen ]
MtimeOf(p) == IF disk[p].st = "absent" THEN Unseen ELSE disk[p].mtime

\* The user writes, spoils or mends, and removes files.  A write has a time the
\* file never had before.
Write(p) ==
    \E st \in { "valid", "invalid" } :
      /\ disk[p].mtime < MaxTime
      /\ disk' = [ disk EXCEPT ![p] = [ mtime |-> @.mtime + 1, st |-> st ] ]
Remove(p) == disk[p].st # "absent" /\ disk' = [ disk EXCEPT ![p].st = "absent" ]
Edit(p) ==
    /\ Write(p) \/ Remove(p)
    /\ UNCHANGED << last_mtimes, plugin, watcher, batch, job, slipped, unread >>

\* A start takes the manifest it is given into the entry.  It comes up, and
\* forgets the attempts before it, or fails at the dial or in Register.
Started(r, contents) ==
    { [ st |-> "Ready", cached |-> contents, attempts |-> 0 ] }
      \cup { [ st |-> st, cached |-> contents, attempts |-> r.attempts ] :
               st \in { "Connecting", "Handshaking" } }

-----------------------------------------------------------------------------
\* cmd_run: discovery ...
Discover ==
    /\ watcher = "off"
    /\ watcher' = "boot"
    /\ batch' = Discovered
    /\ UNCHANGED << disk, last_mtimes, plugin, job, slipped, unread >>

\* ... start_all over what was discovered, the coordinator's retry of a failed
\* start included ...
Booted(p) == IF batch[p] = Unseen THEN { Fresh } ELSE Started(Fresh, batch[p])

StartAll ==
    /\ watcher = "boot"
    /\ plugin' \in [ Paths -> UNION { Booted(p) : p \in Paths } ]
    /\ \A p \in Paths : plugin'[p] \in Booted(p)
    /\ watcher' = "started"
    /\ UNCHANGED << disk, last_mtimes, batch, job, slipped, unread >>

\* ... and, with plugins.watch, a scan of its own for the modification times.
FirstScan ==
    /\ watcher = "started"
    /\ last_mtimes' = Discovered
    /\ slipped' = { p \in Paths : Parses(p) /\ batch[p] = Unseen }
    /\ unread' = { p \in Paths : Parses(p) /\ batch[p] # disk[p].mtime }
    /\ watcher' = "sleep"
    /\ batch' = [ p \in Paths |-> Unseen ]
    /\ UNCHANGED << disk, plugin, job >>

\* A round of the loop: discover, then one manifest after the other.
Poll ==
    /\ watcher = "sleep"
    /\ watcher' = "poll"
    /\ batch' = Discovered
    /\ UNCHANGED << disk, last_mtimes, plugin, job, slipped, unread >>

\* Its modification time is read behind the discovery that read its contents.
Decision(p, mtime) ==
    CASE last_mtimes[p] = Unseen -> "new"
      [] last_mtimes[p] # Unseen /\ mtime # Unseen /\ mtime # last_mtimes[p] -> "changed"
      [] OTHER -> "none"

\* Mutant: the time is recorded before the call.
LookRecording(p) ==
    /\ watcher = "poll"
    /\ batch[p] # Unseen
    /\ batch' = [ batch EXCEPT ![p] = Unseen ]
    /\ last_mtimes' = [ last_mtimes EXCEPT ![p] = MtimeOf(p) ]
    /\ LET kind == Decision(p, MtimeOf(p))
       IN IF kind = "none"
          THEN UNCHANGED << watcher, job >>
          ELSE /\ watcher' = "act"
               /\ job' = [ kind |-> kind, path |-> p, contents |-> batch[p], mtime |-> MtimeOf(p) ]
    /\ UNCHANGED << disk, plugin, slipped, unread >>

Look(p) ==
    /\ watcher = "poll"
    /\ batch[p] # Unseen
    /\ batch' = [ batch EXCEPT ![p] = Unseen ]
    /\ LET kind == Decision(p, MtimeOf(p))
       IN IF kind = "none"
          THEN UNCHANGED << watcher, job >>
          ELSE /\ watcher' = "act"
               /\ job' = [ kind |-> kind, path |-> p, contents |-> batch[p], mtime |-> MtimeOf(p) ]
    /\ UNCHANGED << disk, last_mtimes, plugin, slipped, unread >>

\* Mutants: the time is read again behind the call; a known path keeps its time.
RecordedLate(p, mtime) ==
    last_mtimes' = IF mtime = Unseen THEN last_mtimes ELSE [ last_mtimes EXCEPT ![p] = MtimeOf(p) ]
RecordedOnce(p, mtime) ==
    last_mtimes' = IF mtime = Unseen \/ last_mtimes[p] # Unseen THEN last_mtimes
                   ELSE [ last_mtimes EXCEPT ![p] = mtime ]

\* The time read before the call is recorded behind it, if there was one.
Recorded(p, mtime) ==
    last_mtimes' = IF mtime = Unseen THEN last_mtimes ELSE [ last_mtimes EXCEPT ![p] = mtime ]

ActDone(taken) ==
    /\ Recorded(job.path, job.mtime)
    /\ unread' = unread \cup (IF job.mtime \in { taken, Unseen } THEN {} ELSE { job.path })
    /\ job' = NoJob
    /\ watcher' = "poll"
    /\ UNCHANGED << disk, batch, slipped >>

\* start_plugin_if_new: a start with the contents at hand, behind a drain if
\* the plugin runs.
StartIfNew ==
    /\ watcher = "act"
    /\ job.kind = "new"
    /\ \E e \in Started(plugin[job.path], job.contents) :
         plugin' = [ plugin EXCEPT ![job.path] = e ]
    /\ ActDone(job.contents)

\* restart_plugin: a running plugin is drained and left Discovered, any other
\* is left alone.  The contents at hand are not used.
RestartChanged ==
    /\ watcher = "act"
    /\ job.kind = "changed"
    /\ plugin' = [ plugin EXCEPT ![job.path].st = IF @ = "Ready" THEN "Discovered" ELSE @ ]
    /\ ActDone(Unseen)

\* Behind the manifests: every plugin that is stuck is retried once.
BeginRetries ==
    /\ watcher = "poll"
    /\ \A p \in Paths : batch[p] = Unseen
    /\ watcher' = "retry"
    /\ batch' = [ p \in Paths |-> IF plugin[p].st \in Stuck
                                  THEN plugin[p].cached ELSE Unseen ]
    /\ UNCHANGED << disk, last_mtimes, plugin, job, slipped, unread >>

\* retry_plugin_watch: gives up at the limit, else starts from the entry's
\* cached manifest.  A start of a plugin that was given up does not reset the
\* count unless it comes up; past the limit it acts like the limit.
Retry(p) ==
    /\ watcher = "retry"
    /\ batch[p] # Unseen
    /\ batch' = [ batch EXCEPT ![p] = Unseen ]
    /\ LET counted == [ plugin[p] EXCEPT !.attempts = IF @ < MaxRetries THEN @ + 1 ELSE @ ]
       IN \E e \in IF counted.attempts >= MaxRetries
                   THEN { [ counted EXCEPT !.st = "Stopped" ] }
                   ELSE Started(counted, counted.cached) :
            plugin' = [ plugin EXCEPT ![p] = e ]
    /\ UNCHANGED << disk, last_mtimes, watcher, job, slipped, unread >>

Sleep ==
    /\ watcher = "retry"
    /\ \A p \in Paths : batch[p] = Unseen
    /\ watcher' = "sleep"
    /\ UNCHANGED << disk, last_mtimes, plugin, batch, job, slipped, unread >>

Watch ==
    \/ Poll \/ StartIfNew \/ RestartChanged \/ BeginRetries \/ Sleep
    \/ \E p \in Paths : Look(p) \/ Retry(p)

-----------------------------------------------------------------------------
\* A manifest the watcher takes for seen has a plugin, unless the first scan
\* recorded it and the boot's discovery had not: the only way a manifest is
\* lost (cmd_run scans twice; is_new is asked of the recorded times).
LostOnlyInBoot ==
    \A p \in Paths : last_mtimes[p] # Unseen /\ p \notin slipped => plugin[p].st # "Absent"

\* The contents a plugin was last started from are those of the recorded time,
\* unless the manifest changed after the plugin was known, or between the
\* discovery that read it and the look at its time: a start never leaves a time
\* recorded that its contents are older than (the loop of cmd_run).
RecordedIsTaken ==
    \A p \in Paths \ unread :
      last_mtimes[p] # Unseen /\ plugin[p].st # "Absent" => plugin[p].cached = last_mtimes[p]

\* The directory is caught up with: the time of every manifest that parses is
\* recorded, and every plugin but those lost in the boot serves, has been given
\* up, or failed in Register, which nobody repeats.
CaughtUp(p) ==
    Parses(p) => /\ last_mtimes[p] = disk[p].mtime
                 /\ p \in slipped \/ plugin[p].st \in { "Ready", "Stopped", "Handshaking" }
=============================================================================
