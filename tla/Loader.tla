------------------------------- MODULE Loader -------------------------------
(***************************************************************************)
(* Hot reload: how the workflows in memory follow the files on disk        *)
(* (internal/workflow/loader.go, manifest.go and LoadWorkflow).            *)
(*                                                                         *)
(* The directory holds one script per workflow and the manifest of their   *)
(* hashes.  fsnotify reports the changes in order; watchLoop collects them *)
(* per file and restarts a debounce timer; every time the timer fires, a   *)
(* goroutine of its own takes what was collected and processes it, file by *)
(* file, while the files go on changing.  The daemon's main goroutine      *)
(* loads the directory before it starts the watcher, and the HTTP API may  *)
(* ask for a full reload at any time.                                      *)
(*                                                                         *)
(* Only versions matter here: every change of a file makes a new one.      *)
(***************************************************************************)
EXTENDS Naturals, Sequences

CONSTANTS
  Names,      \* workflow names
  Manifest,   \* the file workflows.sha256
  Main,       \* the daemon's main goroutine
  Flushers,   \* goroutines of the debounce timer that may exist at a time
  Api,        \* goroutines of the HTTP API that call ReloadAll
  Overlap,    \* whether batches and reloads may overlap, as nothing in the code forbids
  None,       \* no operation
  MaxEdits    \* bound: changes of the directory and of the setting in a behaviour

Files == Names \cup {Manifest}
Goroutines == {Main} \cup Flushers \cup Api

ASSUME FilesAssumption == Manifest \notin Names
ASSUME GoroutinesAssumption == Main \notin Flushers \cup Api /\ Flushers \cap Api = {}
ASSUME OverlapAssumption == Overlap \in BOOLEAN
ASSUME NoneAssumption == None \notin {"write", "remove"}
ASSUME MaxEditsAssumption == MaxEdits \in Nat

VARIABLES
  disk,       \* the version of each script, 0: no such file
  broken,     \* the versions whose script does not run
  manifest,   \* the version of each script whose hash the manifest holds, 0: none
  edits,      \* number of changes so far, and the newest version
  events,     \* fsnotify: the changes reported and not yet received
  pending,    \* watchLoop: the last operation on each file since the last flush
  timer,      \* watchLoop: the debounce timer is armed
  watching,   \* the watcher was added to the directory
  verify,     \* Engine.verifyIntegrity
  loaded,     \* the version each workflow runs, 0: not loaded
  pc,         \* per goroutine: the next step
  mode,       \* per goroutine: "file" (processBatch) or "dir" (LoadDir)
  batch,      \* per goroutine: operations of its batch still to be processed
  todo,       \* per goroutine: scripts LoadDir found and has yet to load
  cur,        \* per goroutine: the workflow it loads or unloads
  seen,       \* per goroutine: the manifest's version LoadWorkflow read
  ver,        \* per goroutine: the version LoadWorkflow ran
  unseen,     \* history: the workflows nothing was told of since their last change
  dropped     \* history: the scripts removed, or found not to match their hash, so
              \* far, Manifest if all were reloaded

diskVars == <<disk, broken, manifest, edits>>
watchVars == <<events, pending, timer, watching>>
loadVars == <<cur, seen, ver>>
history == <<unseen, dropped>>
loaderVars == <<disk, broken, manifest, edits, events, pending, timer, watching, verify,
          loaded, pc, mode, batch, todo, cur, seen, ver, unseen, dropped>>

Versions == 0..MaxEdits
Ops == {"write", "remove"}
NoOps == [f \in Files |-> None]

Step == {"idle", "fired", "readdir", "next", "manifest", "hash", "script", "swap",
         "unload", "watch"}

LoaderTypeOK ==
  /\ disk \in [Names -> Versions]
  /\ broken \subseteq Versions
  /\ manifest \in [Names -> Versions]
  /\ edits \in Versions
  /\ events \in Seq(Files \X Ops)
  /\ pending \in [Files -> Ops \cup {None}]
  /\ timer \in BOOLEAN /\ watching \in BOOLEAN /\ verify \in BOOLEAN
  /\ loaded \in [Names -> Versions]
  /\ pc \in [Goroutines -> Step]
  /\ mode \in [Goroutines -> {"file", "dir"}]
  /\ batch \in [Goroutines -> [Files -> Ops \cup {None}]]
  /\ todo \in [Goroutines -> SUBSET Names]
  /\ cur \in [Goroutines -> Names \cup {None}]
  /\ seen \in [Goroutines -> Versions]
  /\ ver \in [Goroutines -> Versions]
  /\ unseen \subseteq Names
  /\ dropped \subseteq Files

\* The daemon starts: the main goroutine is about to read the directory.
LoaderInit ==
  /\ disk = [n \in Names |-> 0] /\ broken = {} /\ edits = 0
  /\ manifest = [n \in Names |-> 0]
  /\ events = <<>> /\ pending = NoOps
  /\ timer = FALSE /\ watching = FALSE /\ verify \in BOOLEAN
  /\ loaded = [n \in Names |-> 0]
  /\ pc = [g \in Goroutines |-> IF g = Main THEN "readdir" ELSE "idle"]
  /\ mode = [g \in Goroutines |-> "dir"]
  /\ batch = [g \in Goroutines |-> NoOps]
  /\ todo = [g \in Goroutines |-> {}]
  /\ cur = [g \in Goroutines |-> None]
  /\ seen = [g \in Goroutines |-> 0]
  /\ ver = [g \in Goroutines |-> 0]
  /\ unseen = {} /\ dropped = {}

-----------------------------------------------------------------------------
(***************************************************************************)
(* The directory, and what fsnotify reports of it.                         *)
(***************************************************************************)

\* What a change of file f may affect.
Affected(f) == IF f = Manifest THEN Names ELSE {f}

\* A change is reported if the watcher is there.  A change before LoadDir reads
\* the directory needs no report; one between that and the watcher gets none.
Report(f, op) ==
  /\ edits < MaxEdits
  /\ edits' = edits + 1
  /\ events' = IF watching THEN Append(events, <<f, op>>) ELSE events
  /\ unseen' = IF watching \/ pc[Main] = "readdir" THEN unseen \ Affected(f)
                                                   ELSE unseen \cup Affected(f)
  /\ UNCHANGED <<pending, timer, watching, verify, loaded, pc, mode, batch, todo, loadVars>>

\* A script is created, written or replaced; the new version may not run.
Write(n, runs) ==
  /\ Report(n, "write")
  /\ disk' = [disk EXCEPT ![n] = edits + 1]
  /\ broken' = IF runs THEN broken ELSE broken \cup {edits + 1}
  /\ UNCHANGED <<manifest, dropped>>

Remove(n) ==
  /\ disk[n] # 0
  /\ Report(n, "remove")
  /\ disk' = [disk EXCEPT ![n] = 0]
  /\ dropped' = dropped \cup {n}
  /\ UNCHANGED <<broken, manifest>>

\* sekiactl workflows sign: the manifest now holds the hashes of all scripts.
Sign ==
  /\ Report(Manifest, "write")
  /\ manifest' = disk
  /\ UNCHANGED <<disk, broken, dropped>>

\* SetVerifyIntegrity, when the daemon's configuration is reloaded: the workflows
\* that are loaded stay as they are.
SetVerify ==
  /\ edits < MaxEdits
  /\ edits' = edits + 1
  /\ verify' = ~verify
  /\ unseen' = Names
  /\ UNCHANGED <<disk, broken, manifest, watchVars, loaded, pc, mode, batch, todo, loadVars,
                 dropped>>

-----------------------------------------------------------------------------
(***************************************************************************)
(* watchLoop and its timer.                                                *)
(***************************************************************************)

\* Mutated: the first operation on a file within the window is kept, not the last.
NoticeFirst ==
  /\ events # <<>>
  /\ LET f == Head(events)[1]
     IN  pending' = IF pending[f] = None THEN [pending EXCEPT ![f] = Head(events)[2]] ELSE pending
  /\ events' = Tail(events)
  /\ timer' = TRUE
  /\ UNCHANGED <<diskVars, watching, verify, loaded, pc, mode, batch, todo, loadVars, history>>

\* Receive a report: the last operation on a file wins, the timer starts anew.
Notice ==
  /\ events # <<>>
  /\ pending' = [pending EXCEPT ![Head(events)[1]] = Head(events)[2]]
  /\ events' = Tail(events)
  /\ timer' = TRUE
  /\ UNCHANGED <<diskVars, watching, verify, loaded, pc, mode, batch, todo, loadVars, history>>

\* The goroutine runs processBatch, ReloadAll or LoadDir.
Loading(g) == pc[g] \notin {"idle", "fired"}

\* Without Overlap a goroutine begins only when no other one is loading.
MayBegin == Overlap \/ \A g \in Goroutines : ~Loading(g)

\* The timer fires: flush starts on a goroutine of its own.
Fire(g) ==
  /\ timer /\ pc[g] = "idle"
  /\ timer' = FALSE
  /\ pc' = [pc EXCEPT ![g] = "fired"]
  /\ UNCHANGED <<diskVars, events, pending, watching, verify, loaded, mode, batch, todo,
                 loadVars, history>>

\* Mutated: the collected operations are processed and not cleared.
TakeBatchPeeks(g) ==
  /\ pc[g] = "fired" /\ MayBegin
  /\ batch' = [batch EXCEPT ![g] = pending]
  /\ mode' = [mode EXCEPT ![g] = "file"]
  /\ pc' = [pc EXCEPT ![g] = "next"]
  /\ UNCHANGED <<diskVars, watchVars, verify, loaded, todo, loadVars, history>>

\* flush takes what was collected, under the lock.
TakeBatch(g) ==
  /\ pc[g] = "fired" /\ MayBegin
  /\ batch' = [batch EXCEPT ![g] = pending]
  /\ pending' = NoOps
  /\ mode' = [mode EXCEPT ![g] = "file"]
  /\ pc' = [pc EXCEPT ![g] = "next"]
  /\ UNCHANGED <<diskVars, events, timer, watching, verify, loaded, todo, loadVars, history>>

-----------------------------------------------------------------------------
(***************************************************************************)
(* processBatch, ReloadAll and LoadDir.                                    *)
(***************************************************************************)

\* ReloadAll clears the map, then stops what it held and reads the directory.
Clear(g) ==
  /\ loaded' = [n \in Names |-> 0]
  /\ batch' = [batch EXCEPT ![g] = NoOps]
  /\ mode' = [mode EXCEPT ![g] = "dir"]
  /\ pc' = [pc EXCEPT ![g] = "readdir"]
  /\ dropped' = dropped \cup {Manifest}
  /\ UNCHANGED <<diskVars, watchVars, verify, todo, loadVars, unseen>>

\* A batch with the manifest in it reloads everything and ends there.
ReloadBatch(g) == pc[g] = "next" /\ batch[g][Manifest] # None /\ Clear(g)

\* POST /api/v1/workflows/reload.
ReloadRequest(g) == pc[g] = "idle" /\ watching /\ MayBegin /\ Clear(g)

\* Mutated: the entries of the directory are not filtered by their suffix.
ReadDirAll(g) ==
  /\ pc[g] = "readdir"
  /\ todo' = [todo EXCEPT ![g] = {f \in Files : f = Manifest \/ disk[f] # 0}]
  /\ pc' = [pc EXCEPT ![g] = "next"]
  /\ unseen' = {}
  /\ UNCHANGED <<diskVars, watchVars, verify, loaded, mode, batch, loadVars, dropped>>

\* LoadDir lists the scripts.
ReadDir(g) ==
  /\ pc[g] = "readdir"
  /\ todo' = [todo EXCEPT ![g] = {n \in Names : disk[n] # 0}]
  /\ pc' = [pc EXCEPT ![g] = "next"]
  /\ unseen' = {}
  /\ UNCHANGED <<diskVars, watchVars, verify, loaded, mode, batch, loadVars, dropped>>

\* LoadWorkflow begins: with the manifest if hashes are verified.
BeginLoad == IF verify THEN "manifest" ELSE "script"

\* LoadDir goes on with any of the scripts it listed.
NextInDir(g, n) ==
  /\ pc[g] = "next" /\ mode[g] = "dir" /\ n \in todo[g]
  /\ todo' = [todo EXCEPT ![g] = @ \ {n}]
  /\ cur' = [cur EXCEPT ![g] = n]
  /\ pc' = [pc EXCEPT ![g] = BeginLoad]
  /\ UNCHANGED <<diskVars, watchVars, verify, loaded, mode, batch, seen, ver, history>>

\* processBatch goes on with any file of the batch (map order).
NextInBatch(g, n) ==
  /\ pc[g] = "next" /\ mode[g] = "file"
  /\ batch[g][Manifest] = None /\ batch[g][n] # None
  /\ batch' = [batch EXCEPT ![g][n] = None]
  /\ cur' = [cur EXCEPT ![g] = n]
  /\ pc' = [pc EXCEPT ![g] = IF batch[g][n] = "remove" THEN "unload" ELSE BeginLoad]
  /\ UNCHANGED <<diskVars, watchVars, verify, loaded, mode, todo, seen, ver, history>>

\* The batch or the directory is done; at startup the watcher comes next.
Finish(g) ==
  /\ pc[g] = "next"
  /\ IF mode[g] = "dir" THEN todo[g] = {} ELSE batch[g] = NoOps
  /\ pc' = [pc EXCEPT ![g] = IF g = Main THEN "watch" ELSE "idle"]
  /\ UNCHANGED <<diskVars, watchVars, verify, loaded, mode, batch, todo, loadVars, history>>

\* StartWatcher: from here on changes are reported.
StartWatcher ==
  /\ pc[Main] = "watch"
  /\ watching' = TRUE
  /\ pc' = [pc EXCEPT ![Main] = "idle"]
  /\ UNCHANGED <<diskVars, events, pending, timer, verify, loaded, mode, batch, todo,
                 loadVars, history>>

-----------------------------------------------------------------------------
(***************************************************************************)
(* LoadWorkflow.                                                           *)
(***************************************************************************)

\* LoadWorkflow goes on if all is well.  On an integrity violation processFileEvent
\* unloads the workflow, LoadDir goes on with the next.
Checked(g, ok, next) ==
  /\ pc' = [pc EXCEPT ![g] = IF ok THEN next ELSE IF mode[g] = "file" THEN "unload" ELSE "next"]
  /\ dropped' = IF ok THEN dropped ELSE dropped \cup {cur[g]}

\* LoadManifest, and the entry of this script in it.
ReadManifest(g) ==
  /\ pc[g] = "manifest"
  /\ seen' = [seen EXCEPT ![g] = manifest[cur[g]]]
  /\ Checked(g, manifest[cur[g]] # 0, "hash")
  /\ UNCHANGED <<diskVars, watchVars, verify, loaded, mode, batch, todo, cur, ver, unseen>>

\* Verify hashes the file as it is now.
CheckHash(g) ==
  /\ pc[g] = "hash"
  /\ Checked(g, disk[cur[g]] = seen[g], "script")
  /\ UNCHANGED <<diskVars, watchVars, verify, loaded, mode, batch, todo, loadVars, unseen>>

Runs(v) == v # 0 /\ v \notin broken

\* Mutated: any error of LoadWorkflow unloads the workflow.
RunScriptUnloads(g) ==
  /\ pc[g] = "script"
  /\ IF Runs(disk[cur[g]])
     THEN /\ ver' = [ver EXCEPT ![g] = disk[cur[g]]]
          /\ pc' = [pc EXCEPT ![g] = "swap"]
     ELSE /\ pc' = [pc EXCEPT ![g] = "unload"]
          /\ UNCHANGED ver
  /\ UNCHANGED <<diskVars, watchVars, verify, loaded, mode, batch, todo, cur, seen, history>>

\* DoFile reads the file once more and runs it; an error keeps what is loaded.
RunScript(g) ==
  /\ pc[g] = "script"
  /\ IF Runs(disk[cur[g]])
     THEN /\ ver' = [ver EXCEPT ![g] = disk[cur[g]]]
          /\ pc' = [pc EXCEPT ![g] = "swap"]
     ELSE /\ pc' = [pc EXCEPT ![g] = "next"]
          /\ UNCHANGED ver
  /\ UNCHANGED <<diskVars, watchVars, verify, loaded, mode, batch, todo, cur, seen, history>>

\* The new instance replaces the old one in the map.
Swap(g) ==
  /\ pc[g] = "swap"
  /\ loaded' = [loaded EXCEPT ![cur[g]] = ver[g]]
  /\ pc' = [pc EXCEPT ![g] = "next"]
  /\ UNCHANGED <<diskVars, watchVars, verify, mode, batch, todo, loadVars, history>>

\* UnloadWorkflow, after a removal or an integrity violation.
Unload(g) ==
  /\ pc[g] = "unload"
  /\ loaded' = [loaded EXCEPT ![cur[g]] = 0]
  /\ pc' = [pc EXCEPT ![g] = "next"]
  /\ UNCHANGED <<diskVars, watchVars, verify, mode, batch, todo, loadVars, history>>

-----------------------------------------------------------------------------
Edit ==
  \/ \E n \in Names : Remove(n) \/ \E runs \in BOOLEAN : Write(n, runs)
  \/ Sign

\* The steps a goroutine takes once it has work.
Work(g) ==
  \/ TakeBatch(g) \/ ReloadBatch(g) \/ ReadDir(g) \/ Finish(g)
  \/ \E n \in Names : NextInDir(g, n) \/ NextInBatch(g, n)
  \/ ReadManifest(g) \/ CheckHash(g) \/ RunScript(g) \/ Swap(g) \/ Unload(g)

LoaderNext ==
  \/ Edit \/ SetVerify \/ Notice \/ StartWatcher
  \/ \E g \in Flushers : Fire(g)
  \/ \E g \in Api : ReloadRequest(g)
  \/ \E g \in Goroutines : Work(g)

LoaderSpec == LoaderInit /\ [][LoaderNext]_loaderVars

(***************************************************************************)
(* Goroutines that have work run, and the timer fires once the directory   *)
(* is quiet.                                                               *)
(***************************************************************************)
LoaderFairSpec ==
  /\ LoaderSpec
  /\ WF_loaderVars(Notice) /\ WF_loaderVars(StartWatcher)
  /\ WF_loaderVars(\E g \in Flushers : Fire(g))
  /\ \A g \in Goroutines : WF_loaderVars(Work(g))

-----------------------------------------------------------------------------
(***************************************************************************)
(* Properties.                                                             *)
(***************************************************************************)

\* What is collected is going to be flushed: no report waits without a timer.
NoLostWakeup ==
  pending # NoOps => timer \/ \E g \in Flushers : pc[g] = "fired"

\* The workflow in memory is the one the directory asks for.  A version that
\* does not run leaves what was loaded before, unless everything was reloaded.
InSync(n) ==
  IF disk[n] = 0 \/ (verify /\ manifest[n] # disk[n]) THEN loaded[n] = 0
  ELSE disk[n] \in broken \/ loaded[n] = disk[n]

\* Something is still on its way that will bring workflow n up to date.
Underway(n) ==
  \/ \E k \in DOMAIN events : n \in Affected(events[k][1])
  \/ \E f \in Files : n \in Affected(f) /\ pending[f] # None
  \/ \E g \in Goroutines :
       \/ \E f \in Files : n \in Affected(f) /\ batch[g][f] # None
       \/ pc[g] = "readdir" \/ n \in todo[g]
       \/ cur[g] = n /\ pc[g] \in {"manifest", "hash", "script", "swap", "unload"}

\* A workflow that does not match the directory, and whose last change was
\* reported, or came before a full reload, is never forgotten: holds as long as
\* loads do not overlap.
Tracked == \A n \in Names \ unseen : InSync(n) \/ Underway(n)

\* A script that no longer runs never takes its running version away: a workflow
\* leaves the map only if its file was removed, or did not match its hash, or if
\* everything is reloaded (TestProcessBatch_SyntaxErrorKeepsOldWorkflow).
KeepsOld ==
  [][\A n \in Names :
       /\ loaded[n] # 0
       /\ {n, Manifest} \cap dropped' = {}
       => loaded'[n] # 0]_loaderVars

\* README: "editing or adding .lua files automatically reloads the affected
\* workflows".  Once the directory is quiet, memory catches up with it again and
\* again, whatever full reloads are asked for, in every workflow that changed
\* after the watcher was there, and after the last change of the setting, or was
\* fully reloaded since.
Converges == []<>(\A n \in Names \ unseen : InSync(n))
=============================================================================
