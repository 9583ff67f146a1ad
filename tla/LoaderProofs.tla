---------------------------- MODULE LoaderProofs ----------------------------
(***************************************************************************)
(* Proofs about Loader, for any set of workflows and any number of         *)
(* goroutines and changes.                                                 *)
(***************************************************************************)
EXTENDS Loader, SequenceTheorems, TLAPS

-----------------------------------------------------------------------------
(***************************************************************************)
(* Type correctness.                                                       *)
(***************************************************************************)

\* The steps of LoadWorkflow and UnloadWorkflow.
LoadSteps == {"manifest", "hash", "script", "swap", "unload"}

\* A goroutine inside LoadWorkflow or UnloadWorkflow works on a workflow.
TypeInv ==
  /\ LoaderTypeOK
  /\ \A g \in Goroutines : pc[g] \in LoadSteps => cur[g] \in Names

\* The inductive form of type correctness.
LEMMA LoaderTypeStep == TypeInv /\ [LoaderNext]_loaderVars => TypeInv'
<1> SUFFICES ASSUME TypeInv, [LoaderNext]_loaderVars PROVE TypeInv'
  OBVIOUS
<1> USE FilesAssumption DEF LoaderTypeOK, TypeInv, Step, LoadSteps, Ops, Files,
      diskVars, watchVars, loadVars, history
<1>0. 0 \in Versions
  BY MaxEditsAssumption DEF Versions
<1>1. ASSUME Edit PROVE TypeInv'
  <2>1. ASSUME NEW f \in Files, NEW op \in Ops, Report(f, op)
        PROVE /\ edits' \in Versions /\ edits + 1 \in Versions
              /\ events' \in Seq(Files \X Ops) /\ unseen' \subseteq Names
    <3>1. <<f, op>> \in Files \X Ops
      OBVIOUS
    <3>2. Append(events, <<f, op>>) \in Seq(Files \X Ops)
      BY <3>1
    <3>3. edits' = edits + 1 /\ edits + 1 \in Versions
      BY <2>1, MaxEditsAssumption DEF Report, Versions
    <3>4. events' \in Seq(Files \X Ops)
      BY <2>1, <3>2 DEF Report
    <3>5. unseen' \subseteq Names
      BY <2>1 DEF Report, Affected
    <3> QED
      BY <3>3, <3>4, <3>5
  <2>2. ASSUME NEW n \in Names, NEW runs \in BOOLEAN, Write(n, runs) PROVE TypeInv'
    <3>1. Report(n, "write")
      BY <2>2 DEF Write
    <3> QED
      BY <2>1, <2>2, <3>1 DEF Write, Report
  <2>3. ASSUME NEW n \in Names, Remove(n) PROVE TypeInv'
    <3>1. Report(n, "remove")
      BY <2>3 DEF Remove
    <3> QED
      BY <1>0, <2>1, <2>3, <3>1 DEF Remove, Report
  <2>4. ASSUME Sign PROVE TypeInv'
    <3>1. Report(Manifest, "write")
      BY <2>4 DEF Sign
    <3> QED
      BY <2>1, <2>4, <3>1 DEF Sign, Report
  <2> QED
    BY <1>1, <2>2, <2>3, <2>4 DEF Edit
<1>9. ASSUME SetVerify PROVE TypeInv'
  <2>1. edits' \in Versions
    BY <1>9, MaxEditsAssumption DEF SetVerify, Versions
  <2> QED
    BY <1>9, <2>1 DEF SetVerify
<1>2. ASSUME Notice PROVE TypeInv'
  <2>1. Head(events) \in Files \X Ops /\ Tail(events) \in Seq(Files \X Ops)
    BY <1>2 DEF Notice
  <2> QED
    BY <1>2, <2>1 DEF Notice
<1>3. ASSUME StartWatcher PROVE TypeInv'
  BY <1>3 DEF StartWatcher, Goroutines
<1>4. ASSUME NEW g \in Goroutines, Clear(g) PROVE TypeInv'
  BY <1>0, <1>4 DEF Clear, NoOps
<1>5. ASSUME NEW g \in Flushers, Fire(g) PROVE TypeInv'
  BY <1>5 DEF Fire
<1>6. ASSUME NEW g \in Api, ReloadRequest(g) PROVE TypeInv'
  BY <1>4, <1>6 DEF ReloadRequest, Goroutines
<1>7. ASSUME NEW g \in Goroutines, Work(g) PROVE TypeInv'
  <2>1. CASE TakeBatch(g)
    BY <2>1 DEF TakeBatch, NoOps
  <2>2. CASE ReloadBatch(g)
    BY <1>4, <2>2 DEF ReloadBatch
  <2>3. CASE ReadDir(g)
    BY <2>3 DEF ReadDir
  <2>4. CASE Finish(g)
    BY <2>4 DEF Finish
  <2>5. ASSUME NEW n \in Names, NextInDir(g, n) PROVE TypeInv'
    BY <2>5 DEF NextInDir, BeginLoad
  <2>6. ASSUME NEW n \in Names, NextInBatch(g, n) PROVE TypeInv'
    BY <2>6 DEF NextInBatch, BeginLoad
  <2>7. CASE ReadManifest(g)
    BY <2>7 DEF ReadManifest, Checked
  <2>8. CASE CheckHash(g)
    BY <2>8 DEF CheckHash, Checked
  <2>9. CASE RunScript(g)
    <3>1. cur[g] \in Names /\ disk[cur[g]] \in Versions
      BY <2>9 DEF RunScript
    <3> QED
      BY <2>9, <3>1 DEF RunScript
  <2>10. CASE Swap(g)
    BY <2>10 DEF Swap
  <2>11. CASE Unload(g)
    BY <1>0, <2>11 DEF Unload
  <2> QED
    BY <1>7, <2>1, <2>2, <2>3, <2>4, <2>5, <2>6, <2>7, <2>8, <2>9, <2>10, <2>11 DEF Work
<1>8. CASE UNCHANGED loaderVars
  BY <1>8 DEF loaderVars
<1> QED
  BY <1>1, <1>2, <1>3, <1>5, <1>6, <1>7, <1>8, <1>9 DEF LoaderNext

\* The variables keep their types, and a goroutine inside a load works on a workflow.
LEMMA Types == LoaderSpec => []TypeInv
<1>1. LoaderInit => TypeInv
  <2> SUFFICES ASSUME LoaderInit PROVE TypeInv
    OBVIOUS
  <2>1. 0 \in Versions /\ events \in Seq(Files \X Ops) /\ NoOps \in [Files -> Ops \cup {None}]
    BY MaxEditsAssumption DEF LoaderInit, Versions, NoOps
  <2> QED
    BY <2>1 DEF LoaderInit, TypeInv, LoaderTypeOK, Step, LoadSteps
<1> QED
  BY <1>1, LoaderTypeStep, PTL DEF LoaderSpec

\* The variables keep their types: in particular only scripts are loaded.
THEOREM LoaderTypeOKHolds == LoaderSpec => []LoaderTypeOK
<1>1. TypeInv => LoaderTypeOK
  BY DEF TypeInv
<1> QED
  BY <1>1, Types, PTL

-----------------------------------------------------------------------------
(***************************************************************************)
(* No report waits without a timer.                                        *)
(***************************************************************************)

\* For any number of flushes at a time, overlapping or not.
THEOREM NoLostWakeupHolds == LoaderSpec => []NoLostWakeup
<1>1. LoaderInit => NoLostWakeup
  BY DEF LoaderInit, NoLostWakeup
<1>2. TypeInv /\ NoLostWakeup /\ [LoaderNext]_loaderVars => NoLostWakeup'
  <2> SUFFICES ASSUME TypeInv, NoLostWakeup, [LoaderNext]_loaderVars PROVE NoLostWakeup'
    OBVIOUS
  <2> USE DEF NoLostWakeup, TypeInv, LoaderTypeOK, diskVars, watchVars, loadVars, history
  <2>1. ASSUME Edit PROVE NoLostWakeup'
    BY <2>1 DEF Edit, Write, Remove, Sign, Report
  <2>8. ASSUME SetVerify PROVE NoLostWakeup'
    BY <2>8 DEF SetVerify
  <2>2. ASSUME Notice PROVE NoLostWakeup'
    BY <2>2 DEF Notice
  <2>3. ASSUME StartWatcher PROVE NoLostWakeup'
    BY <2>3, GoroutinesAssumption DEF StartWatcher, Goroutines
  <2>4. ASSUME NEW g \in Flushers, Fire(g) PROVE NoLostWakeup'
    BY <2>4 DEF Fire, Goroutines
  <2>5. ASSUME NEW g \in Api, ReloadRequest(g) PROVE NoLostWakeup'
    BY <2>5, GoroutinesAssumption DEF ReloadRequest, Clear, Goroutines
  <2>6. ASSUME NEW g \in Goroutines, Work(g) PROVE NoLostWakeup'
    <3>1. CASE TakeBatch(g)
      BY <3>1 DEF TakeBatch
    <3>2. CASE pc[g] # "fired" /\ pending' = pending /\ timer' = timer
               /\ \E s \in Step : pc' = [pc EXCEPT ![g] = s]
      BY <3>2 DEF Goroutines
    <3>3. CASE ReloadBatch(g)
      BY <3>3, <3>2 DEF ReloadBatch, Clear, Step
    <3>4. CASE ReadDir(g)
      BY <3>4, <3>2 DEF ReadDir, Step
    <3>5. CASE Finish(g)
      BY <3>5, <3>2 DEF Finish, Step
    <3>6. ASSUME NEW n \in Names, NextInDir(g, n) \/ NextInBatch(g, n) PROVE NoLostWakeup'
      BY <3>6, <3>2 DEF NextInDir, NextInBatch, BeginLoad, Step
    <3>7. CASE ReadManifest(g) \/ CheckHash(g)
      BY <3>7, <3>2 DEF ReadManifest, CheckHash, Checked, Step
    <3>8. CASE RunScript(g)
      BY <3>8, <3>2 DEF RunScript, Step
    <3>9. CASE Swap(g) \/ Unload(g)
      BY <3>9, <3>2 DEF Swap, Unload, Step
    <3> QED
      BY <2>6, <3>1, <3>3, <3>4, <3>5, <3>6, <3>7, <3>8, <3>9 DEF Work
  <2>7. CASE UNCHANGED loaderVars
    BY <2>7 DEF loaderVars
  <2> QED
    BY <2>1, <2>2, <2>3, <2>4, <2>5, <2>6, <2>7, <2>8 DEF LoaderNext
<1> QED
  BY <1>1, <1>2, Types, PTL DEF LoaderSpec

-----------------------------------------------------------------------------
(***************************************************************************)
(* A running version is not taken away.                                    *)
(***************************************************************************)

\* What is on its way to UnloadWorkflow is a removal, or an integrity violation.
DropInv ==
  /\ \A k \in DOMAIN events : events[k][2] = "remove" => events[k][1] \in dropped
  /\ \A f \in Files : pending[f] = "remove" => f \in dropped
  /\ \A g \in Goroutines, f \in Files : batch[g][f] = "remove" => f \in dropped
  /\ \A g \in Goroutines : pc[g] = "unload" => cur[g] \in dropped
  /\ \A g \in Goroutines : pc[g] = "swap" => ver[g] # 0

\* What a report adds to the queue, and what receiving one takes from it.
LEMMA ReportEffect ==
  ASSUME TypeInv, NEW f \in Files, NEW op \in Ops, Report(f, op)
  PROVE  \/ ~watching /\ events' = events
         \/ /\ watching
            /\ events' \in Seq(Files \X Ops)
            /\ DOMAIN events = 1..Len(events) /\ DOMAIN events' = 1..(Len(events) + 1)
            /\ Len(events) \in Nat
            /\ \A k \in DOMAIN events : events'[k] = events[k]
            /\ events'[Len(events) + 1] = <<f, op>>
<1>1. <<f, op>> \in Files \X Ops
  OBVIOUS
<1>2. CASE watching
  <2>1. events' = Append(events, <<f, op>>)
    BY <1>2 DEF Report
  <2>2. events \in Seq(Files \X Ops)
    BY DEF TypeInv, LoaderTypeOK
  <2> QED
    BY <1>1, <1>2, <2>1, <2>2, AppendProperties
<1> QED
  BY <1>2 DEF Report, TypeInv, LoaderTypeOK

\* The event that is received was the first of the queue; the others move up.
LEMMA NoticeEffect ==
  ASSUME TypeInv, Notice
  PROVE  /\ Len(events) \in Nat \ {0}
         /\ DOMAIN events = 1..Len(events) /\ DOMAIN events' = 1..(Len(events) - 1)
         /\ \A k \in DOMAIN events' : events'[k] = events[k + 1]
         /\ Head(events) = events[1] /\ events[1] \in Files \X Ops
<1>1. events \in Seq(Files \X Ops) /\ events # <<>> /\ events' = Tail(events)
  BY DEF TypeInv, LoaderTypeOK, Notice
<1> QED
  BY <1>1, HeadTailProperties

\* Every step keeps only removals and violations on their way to UnloadWorkflow.
LEMMA DropStep == TypeInv /\ DropInv /\ [LoaderNext]_loaderVars => DropInv'
<1> SUFFICES ASSUME TypeInv, DropInv, [LoaderNext]_loaderVars PROVE DropInv'
  OBVIOUS
<1> USE DEF DropInv, diskVars, watchVars, loadVars, history
<1>0. LoaderTypeOK
  BY DEF TypeInv
<1>1. ASSUME NEW f \in Files, NEW op \in Ops, Report(f, op),
             dropped' = IF op = "remove" THEN dropped \cup {f} ELSE dropped
      PROVE  DropInv'
  <2>1. \A k \in DOMAIN events' : events'[k][2] = "remove" => events'[k][1] \in dropped'
    BY <1>1, ReportEffect
  <2> QED
    BY <1>1, <2>1 DEF Report
<1>2. CASE Edit
  <2>1. ASSUME NEW n \in Names, NEW runs \in BOOLEAN, Write(n, runs) PROVE DropInv'
    BY <1>1, <2>1 DEF Write, Files, Ops
  <2>2. ASSUME NEW n \in Names, Remove(n) PROVE DropInv'
    BY <1>1, <2>2 DEF Remove, Files, Ops
  <2>3. CASE Sign
    BY <1>1, <2>3 DEF Sign, Files, Ops
  <2> QED
    BY <1>2, <2>1, <2>2, <2>3 DEF Edit
<1>9. CASE SetVerify
  BY <1>9 DEF SetVerify
<1>3. CASE Notice
  <2>1. \A k \in DOMAIN events' : k + 1 \in DOMAIN events
    BY <1>3, NoticeEffect
  <2>2. \A k \in DOMAIN events' : events'[k][2] = "remove" => events'[k][1] \in dropped'
    BY <1>3, <2>1, NoticeEffect DEF Notice
  <2>3. Head(events)[2] = "remove" => Head(events)[1] \in dropped
    BY <1>3, NoticeEffect
  <2>4. \A f \in Files : pending'[f] = "remove" => f \in dropped'
    BY <1>0, <1>3, <2>3, NoticeEffect DEF Notice, LoaderTypeOK
  <2> QED
    BY <1>3, <2>2, <2>4 DEF Notice
<1>4. CASE StartWatcher
  BY <1>0, <1>4 DEF StartWatcher, LoaderTypeOK
<1>5. ASSUME NEW g \in Goroutines, Clear(g) PROVE DropInv'
  BY <1>0, <1>5, NoneAssumption DEF Clear, LoaderTypeOK, NoOps
<1>6. ASSUME NEW g \in Flushers, Fire(g) PROVE DropInv'
  BY <1>0, <1>6 DEF Fire, LoaderTypeOK, Goroutines
<1>7. ASSUME NEW g \in Goroutines, Work(g) PROVE DropInv'
  <2>1. CASE TakeBatch(g)
    BY <1>0, <2>1, NoneAssumption DEF TakeBatch, LoaderTypeOK, NoOps
  <2>2. CASE ReloadBatch(g)
    BY <1>5, <2>2 DEF ReloadBatch
  <2>3. CASE ReadDir(g) \/ Finish(g)
    BY <1>0, <2>3 DEF ReadDir, Finish, LoaderTypeOK
  <2>4. ASSUME NEW n \in Names, NextInDir(g, n) PROVE DropInv'
    BY <1>0, <2>4 DEF NextInDir, BeginLoad, LoaderTypeOK
  <2>5. ASSUME NEW n \in Names, NextInBatch(g, n) PROVE DropInv'
    BY <1>0, <2>5, NoneAssumption DEF NextInBatch, BeginLoad, LoaderTypeOK, Files
  <2>6. CASE ReadManifest(g) \/ CheckHash(g)
    BY <1>0, <2>6 DEF ReadManifest, CheckHash, Checked, LoaderTypeOK
  <2>7. CASE RunScript(g)
    BY <1>0, <2>7 DEF RunScript, Runs, LoaderTypeOK
  <2>8. CASE Swap(g) \/ Unload(g)
    BY <1>0, <2>8 DEF Swap, Unload, LoaderTypeOK
  <2> QED
    BY <1>7, <2>1, <2>2, <2>3, <2>4, <2>5, <2>6, <2>7, <2>8 DEF Work
<1>8. CASE UNCHANGED loaderVars
  BY <1>8 DEF loaderVars
<1> QED
  BY <1>2, <1>3, <1>4, <1>5, <1>6, <1>7, <1>8, <1>9 DEF LoaderNext, ReloadRequest, Goroutines

\* An edit, however broken, never ends a running workflow by itself.
THEOREM KeepsOldHolds == LoaderSpec => KeepsOld
<1>1. LoaderInit => DropInv
  BY NoneAssumption DEF LoaderInit, DropInv, NoOps
<1>2. TypeInv /\ DropInv /\ [LoaderNext]_loaderVars =>
        [\A n \in Names :
           /\ loaded[n] # 0
           /\ {n, Manifest} \cap dropped' = {}
           => loaded'[n] # 0]_loaderVars
  <2> SUFFICES ASSUME TypeInv, DropInv, [LoaderNext]_loaderVars, NEW n \in Names,
                      loaded[n] # 0, {n, Manifest} \cap dropped' = {}
               PROVE  loaded'[n] # 0
    OBVIOUS
  <2> USE DEF TypeInv, LoaderTypeOK, diskVars, watchVars, loadVars, history
  <2>1. CASE loaded' = loaded
    BY <2>1
  <2>2. ASSUME NEW g \in Goroutines, Clear(g) PROVE FALSE
    BY <2>2 DEF Clear
  <2>3. ASSUME NEW g \in Goroutines, Swap(g) PROVE loaded'[n] # 0
    BY <2>3 DEF Swap, DropInv
  <2>4. ASSUME NEW g \in Goroutines, Unload(g) PROVE loaded'[n] # 0
    BY <2>4 DEF Unload, DropInv
  <2>5. ASSUME NEW g \in Goroutines, Work(g) PROVE loaded'[n] # 0
    BY <2>1, <2>2, <2>3, <2>4, <2>5
       DEF Work, TakeBatch, ReloadBatch, ReadDir, Finish, NextInDir, NextInBatch,
           ReadManifest, CheckHash, RunScript
  <2> QED
    BY <2>1, <2>2, <2>5 DEF LoaderNext, Edit, Write, Remove, Sign, Report, SetVerify, Notice, StartWatcher,
         Fire, ReloadRequest, Goroutines, loaderVars
<1> QED
  BY <1>1, <1>2, DropStep, Types, PTL DEF LoaderSpec, KeepsOld

-----------------------------------------------------------------------------
(***************************************************************************)
(* Nothing is forgotten, if loads do not overlap.                          *)
(***************************************************************************)

\* One goroutine loads at a time; at startup it is the main one.
AloneInv ==
  /\ \A g, h \in Goroutines : Loading(g) /\ Loading(h) => g = h
  /\ pc[Main] # "fired" /\ mode[Main] = "dir"
  /\ watching <=> pc[Main] = "idle"
  /\ ~watching => events = <<>> /\ pending = NoOps /\ ~timer
  /\ ~watching => \A g \in Goroutines \ {Main} : pc[g] = "idle"

\* What a goroutine has left to do belongs to its mode, and LoadDir loads each
\* script once, into a map that was cleared.
WorkInv ==
  \A g \in Goroutines :
    /\ ~Loading(g) => batch[g] = NoOps /\ todo[g] = {}
    /\ mode[g] = "dir" => batch[g] = NoOps /\ pc[g] # "unload"
    /\ mode[g] = "file" => todo[g] = {}
    /\ pc[g] = "watch" => todo[g] = {}
    /\ pc[g] = "readdir" => /\ mode[g] = "dir" /\ todo[g] = {}
                            /\ \A n \in Names : loaded[n] = 0
    /\ \A n \in todo[g] : loaded[n] = 0
    /\ pc[g] \in LoadSteps => cur[g] \notin todo[g]
    /\ pc[g] \in LoadSteps /\ mode[g] = "dir" => loaded[cur[g]] = 0

\* While reloads do not overlap, one goroutine at most is inside a load.
LEMMA AloneStep ==
  ASSUME Overlap = FALSE
  PROVE  TypeInv /\ AloneInv /\ [LoaderNext]_loaderVars => AloneInv'
<1> SUFFICES ASSUME TypeInv, AloneInv, [LoaderNext]_loaderVars PROVE AloneInv'
  OBVIOUS
<1> USE GoroutinesAssumption
      DEF AloneInv, Loading, diskVars, watchVars, loadVars, history
<1>0. LoaderTypeOK /\ Main \in Goroutines /\ Main \notin Flushers /\ Main \notin Api
  BY DEF TypeInv, Goroutines
<1>1. CASE Edit \/ SetVerify
  BY <1>1 DEF Edit, Write, Remove, Sign, Report, SetVerify
<1>2. CASE Notice
  BY <1>2 DEF Notice
<1>3. CASE StartWatcher
  BY <1>0, <1>3 DEF StartWatcher, LoaderTypeOK
<1>4. ASSUME NEW g \in Flushers, Fire(g) PROVE AloneInv'
  BY <1>0, <1>4 DEF Fire, LoaderTypeOK, Goroutines
<1>5. ASSUME NEW g \in Api, ReloadRequest(g) PROVE AloneInv'
  BY <1>0, <1>5 DEF ReloadRequest, Clear, MayBegin, LoaderTypeOK, Goroutines
<1>6. ASSUME NEW g \in Goroutines, Work(g) PROVE AloneInv'
  <2>1. CASE TakeBatch(g)
    BY <1>0, <2>1 DEF TakeBatch, MayBegin, LoaderTypeOK
  <2>2. CASE /\ pc[g] \notin {"idle", "fired", "watch"} /\ mode' = mode
             /\ \E s \in Step \ {"idle", "fired", "watch"} : pc' = [pc EXCEPT ![g] = s]
             /\ UNCHANGED watchVars
    <3>1. PICK s \in Step \ {"idle", "fired", "watch"} : pc' = [pc EXCEPT ![g] = s]
      BY <2>2
    <3>2. \A h \in Goroutines : h # g => pc'[h] = pc[h]
      BY <1>0, <3>1 DEF LoaderTypeOK
    <3>3. pc'[g] = s
      BY <1>0, <3>1 DEF LoaderTypeOK
    <3> QED
      BY <1>0, <2>2, <3>2, <3>3 DEF Step
  <2>3. CASE ReloadBatch(g)
    BY <1>0, <2>3 DEF ReloadBatch, Clear, LoaderTypeOK
  <2>4. CASE Finish(g)
    BY <1>0, <2>4 DEF Finish, LoaderTypeOK
  <2>5. CASE ReadDir(g)
    BY <2>2, <2>5 DEF ReadDir, Step
  <2>6. ASSUME NEW n \in Names, NextInDir(g, n) \/ NextInBatch(g, n) PROVE AloneInv'
    BY <2>2, <2>6 DEF NextInDir, NextInBatch, BeginLoad, Step
  <2>7. CASE ReadManifest(g) \/ CheckHash(g)
    BY <2>2, <2>7 DEF ReadManifest, CheckHash, Checked, Step
  <2>8. CASE RunScript(g)
    BY <2>2, <2>8 DEF RunScript, Step
  <2>9. CASE Swap(g) \/ Unload(g)
    BY <2>2, <2>9 DEF Swap, Unload, Step
  <2> QED
    BY <1>6, <2>1, <2>3, <2>4, <2>5, <2>6, <2>7, <2>8, <2>9 DEF Work
<1>7. CASE UNCHANGED loaderVars
  BY <1>7 DEF loaderVars
<1> QED
  BY <1>1, <1>2, <1>3, <1>4, <1>5, <1>6, <1>7 DEF LoaderNext

\* While reloads do not overlap, what a goroutine has left to do belongs to its mode.
LEMMA WorkStep ==
  ASSUME Overlap = FALSE
  PROVE  TypeInv /\ AloneInv /\ WorkInv /\ [LoaderNext]_loaderVars => WorkInv'
<1> SUFFICES ASSUME TypeInv, AloneInv, WorkInv, [LoaderNext]_loaderVars PROVE WorkInv'
  OBVIOUS
<1> USE GoroutinesAssumption
      DEF WorkInv, Loading, LoadSteps, diskVars, watchVars, loadVars, history
<1>0. /\ LoaderTypeOK /\ Main \in Goroutines /\ Main \notin Flushers /\ Main \notin Api
      /\ \A g \in Goroutines : pc[g] \in LoadSteps => cur[g] \in Names
      /\ Manifest \in Files /\ NoOps[Manifest] = None
  BY DEF TypeInv, Goroutines, Files, NoOps
<1>1. CASE Edit \/ SetVerify
  BY <1>1 DEF Edit, Write, Remove, Sign, Report, SetVerify
<1>2. CASE Notice
  BY <1>2 DEF Notice
<1>3. CASE StartWatcher
  BY <1>0, <1>3 DEF StartWatcher, LoaderTypeOK, AloneInv
<1>4. ASSUME NEW g \in Flushers, Fire(g) PROVE WorkInv'
  BY <1>0, <1>4 DEF Fire, LoaderTypeOK, Goroutines
<1>5. ASSUME NEW g \in Goroutines, Clear(g), todo[g] = {}, pc[g] \notin {"watch"},
             \A h \in Goroutines \ {g} : ~Loading(h)
      PROVE  WorkInv'
  BY <1>0, <1>5 DEF Clear, LoaderTypeOK
<1>6. ASSUME NEW g \in Api, ReloadRequest(g) PROVE WorkInv'
  BY <1>0, <1>5, <1>6 DEF ReloadRequest, MayBegin, Goroutines
<1>7. ASSUME NEW g \in Goroutines, Work(g) PROVE WorkInv'
  <2>0. Loading(g) => \A h \in Goroutines \ {g} : ~Loading(h)
    BY DEF AloneInv
  <2>1. CASE TakeBatch(g)
    BY <1>0, <2>1 DEF TakeBatch, LoaderTypeOK
  <2>2. CASE ReloadBatch(g)
    BY <1>0, <1>5, <2>0, <2>2 DEF ReloadBatch, LoaderTypeOK
  <2>3. CASE ReadDir(g)
    BY <1>0, <2>3 DEF ReadDir, LoaderTypeOK
  <2>4. CASE Finish(g)
    BY <1>0, <2>4 DEF Finish, LoaderTypeOK
  <2>5. ASSUME NEW n \in Names, NextInDir(g, n) PROVE WorkInv'
    BY <1>0, <2>5 DEF NextInDir, BeginLoad, LoaderTypeOK
  <2>6. ASSUME NEW n \in Names, NextInBatch(g, n) PROVE WorkInv'
    BY <1>0, <2>6 DEF NextInBatch, BeginLoad, LoaderTypeOK, NoOps
  <2>7. CASE ReadManifest(g) \/ CheckHash(g)
    BY <1>0, <2>7 DEF ReadManifest, CheckHash, Checked, LoaderTypeOK
  <2>8. CASE RunScript(g)
    BY <1>0, <2>8 DEF RunScript, LoaderTypeOK
  <2>9. CASE Swap(g) \/ Unload(g)
    <3>1. /\ pc[g] \in LoadSteps /\ pc' = [pc EXCEPT ![g] = "next"]
          /\ UNCHANGED <<mode, batch, todo, cur>>
          /\ \A n \in Names \ {cur[g]} : loaded'[n] = loaded[n]
      BY <1>0, <2>9 DEF Swap, Unload, LoaderTypeOK
    <3>2. pc'[g] = "next" /\ \A h \in Goroutines \ {g} : pc'[h] = pc[h] /\ ~Loading(h)
      BY <1>0, <2>0, <3>1 DEF LoaderTypeOK
    <3>3. \A h \in Goroutines : \A n \in todo[h] : loaded'[n] = 0
      BY <1>0, <3>1, <3>2 DEF LoaderTypeOK
    <3> QED
      BY <3>1, <3>2, <3>3
  <2> QED
    BY <1>7, <2>1, <2>2, <2>3, <2>4, <2>5, <2>6, <2>7, <2>8, <2>9 DEF Work
<1>8. CASE UNCHANGED loaderVars
  BY <1>8 DEF loaderVars
<1> QED
  BY <1>1, <1>2, <1>3, <1>4, <1>6, <1>7, <1>8 DEF LoaderNext

\* The last report on a script says whether it is there now.
OpFor(n) == IF disk[n] = 0 THEN "remove" ELSE "write"

Silent(n) == \A k \in DOMAIN events : events[k][1] # n

LastOpInv ==
  \A n \in Names :
    /\ \A k \in DOMAIN events :
         /\ events[k][1] = n
         /\ \A j \in DOMAIN events : j > k => events[j][1] # n
         => events[k][2] = OpFor(n)
    /\ Silent(n) /\ pending[n] # None => pending[n] = OpFor(n)
    /\ \A g \in Goroutines :
         Silent(n) /\ pending[n] = None /\ batch[g][n] # None => batch[g][n] = OpFor(n)

\* Before the watcher starts nothing was reported, and nothing is left of it.
LEMMA BeforeWatching ==
  ASSUME TypeInv, AloneInv, WorkInv, ~watching
  PROVE  /\ DOMAIN events = {} /\ pending = NoOps
         /\ \A g \in Goroutines : batch[g] = NoOps
  BY DEF TypeInv, LoaderTypeOK, AloneInv, WorkInv, Loading, Goroutines

\* What the debouncer has noted of a file is its last report.
LEMMA LastOpStep ==
  ASSUME Overlap = FALSE
  PROVE  TypeInv /\ AloneInv /\ WorkInv /\ LastOpInv /\ [LoaderNext]_loaderVars => LastOpInv'
<1> SUFFICES ASSUME TypeInv, AloneInv, WorkInv, LastOpInv, [LoaderNext]_loaderVars PROVE LastOpInv'
  OBVIOUS
<1> USE DEF diskVars, watchVars, loadVars, history
<1>0. /\ LoaderTypeOK
      /\ \A f \in Files : NoOps[f] = None
      /\ Names \subseteq Files /\ Manifest \in Files
      /\ \A op \in Ops : op # None
  BY NoneAssumption DEF TypeInv, NoOps, Files, Ops
<1>1. ASSUME NEW f \in Files, NEW op \in Ops, Report(f, op),
             \A n \in Names : n # f => disk'[n] = disk[n],
             f \in Names => op = OpFor(f)'
      PROVE  LastOpInv'
  <2>1. CASE ~watching
    <3>1. /\ DOMAIN events' = {} /\ pending' = NoOps
          /\ \A g \in Goroutines : batch'[g] = NoOps
      BY <1>1, <2>1, BeforeWatching, ReportEffect DEF Report
    <3> QED
      BY <1>0, <3>1 DEF LastOpInv
  <2>2. CASE watching
    <3> SUFFICES ASSUME NEW n \in Names
                 PROVE
      /\ \A k \in DOMAIN events' :
           /\ events'[k][1] = n
           /\ \A j \in DOMAIN events' : j > k => events'[j][1] # n
           => events'[k][2] = OpFor(n)'
      /\ Silent(n)' /\ pending'[n] # None => pending'[n] = OpFor(n)'
      /\ \A g \in Goroutines :
           Silent(n)' /\ pending'[n] = None /\ batch'[g][n] # None
           => batch'[g][n] = OpFor(n)'
      BY DEF LastOpInv
    <3>0. /\ DOMAIN events = 1..Len(events) /\ DOMAIN events' = 1..(Len(events) + 1)
          /\ Len(events) \in Nat
          /\ \A k \in DOMAIN events : events'[k] = events[k]
          /\ events'[Len(events) + 1] = <<f, op>>
          /\ pending' = pending /\ batch' = batch
      BY <1>1, <2>2, ReportEffect DEF Report
    <3>1. CASE n = f
      <4>1. ~Silent(n)'
        BY <3>0, <3>1 DEF Silent
      <4>2. ASSUME NEW k \in DOMAIN events',
                   \A j \in DOMAIN events' : j > k => events'[j][1] # n
            PROVE  k = Len(events) + 1
        BY <3>0, <3>1, <4>2
      <4> QED
        BY <1>1, <3>0, <3>1, <4>1, <4>2
    <3>2. CASE n # f
      <4>1. OpFor(n)' = OpFor(n)
        BY <1>1, <3>2 DEF OpFor
      <4>2. Silent(n)' => Silent(n)
        BY <3>0 DEF Silent
      <4>3. ASSUME NEW k \in DOMAIN events', events'[k][1] = n,
                   \A j \in DOMAIN events' : j > k => events'[j][1] # n
            PROVE  /\ k \in DOMAIN events /\ events[k] = events'[k]
                   /\ \A j \in DOMAIN events : j > k => events[j][1] # n
        BY <3>0, <3>2, <4>3
      <4> QED
        BY <3>0, <4>1, <4>2, <4>3 DEF LastOpInv
    <3> QED
      BY <3>1, <3>2
  <2> QED
    BY <2>1, <2>2
<1>2. CASE Edit
  <2>1. ASSUME NEW n \in Names, NEW runs \in BOOLEAN, Write(n, runs) PROVE LastOpInv'
    BY <1>0, <1>1, <2>1, MaxEditsAssumption
       DEF Write, OpFor, Ops, LoaderTypeOK, Versions
  <2>2. ASSUME NEW n \in Names, Remove(n) PROVE LastOpInv'
    BY <1>0, <1>1, <2>2 DEF Remove, OpFor, Ops, LoaderTypeOK
  <2>3. CASE Sign
    BY <1>0, <1>1, <2>3, FilesAssumption DEF Sign, Ops
  <2> QED
    BY <1>2, <2>1, <2>2, <2>3 DEF Edit
<1>3. CASE Notice
  <2> SUFFICES ASSUME NEW n \in Names
               PROVE
      /\ \A k \in DOMAIN events' :
           /\ events'[k][1] = n
           /\ \A j \in DOMAIN events' : j > k => events'[j][1] # n
           => events'[k][2] = OpFor(n)'
      /\ Silent(n)' /\ pending'[n] # None => pending'[n] = OpFor(n)'
      /\ \A g \in Goroutines :
           Silent(n)' /\ pending'[n] = None /\ batch'[g][n] # None
           => batch'[g][n] = OpFor(n)'
    BY DEF LastOpInv
  <2>0. /\ Len(events) \in Nat \ {0}
        /\ DOMAIN events = 1..Len(events) /\ DOMAIN events' = 1..(Len(events) - 1)
        /\ \A k \in DOMAIN events' : events'[k] = events[k + 1]
        /\ events[1] \in Files \X Ops
        /\ batch' = batch /\ OpFor(n)' = OpFor(n)
    BY <1>3, NoticeEffect DEF Notice, OpFor
  <2>1. pending'[n] = IF events[1][1] = n THEN events[1][2] ELSE pending[n]
    BY <1>0, <1>3, <2>0, NoticeEffect DEF Notice, LoaderTypeOK
  <2>2. ASSUME NEW k \in DOMAIN events', events'[k][1] = n,
               \A j \in DOMAIN events' : j > k => events'[j][1] # n
        PROVE  events'[k][2] = OpFor(n)'
    <3>1. k + 1 \in DOMAIN events /\ events[k + 1][1] = n
      BY <2>0, <2>2
    <3>2. ASSUME NEW j \in DOMAIN events, j > k + 1 PROVE events[j][1] # n
      <4>1. j - 1 \in DOMAIN events' /\ j - 1 > k /\ events'[j - 1] = events[j]
        BY <2>0, <3>2
      <4> QED
        BY <2>2, <4>1
    <3> QED
      BY <2>0, <2>2, <3>1, <3>2 DEF LastOpInv
  <2>3. ASSUME Silent(n)', events[1][1] = n PROVE events[1][2] = OpFor(n)
    <3>1. ASSUME NEW j \in DOMAIN events, j > 1 PROVE events[j][1] # n
      <4>1. j - 1 \in DOMAIN events' /\ events'[j - 1] = events[j]
        BY <2>0, <3>1
      <4> QED
        BY <2>3, <4>1 DEF Silent
    <3>2. 1 \in DOMAIN events
      BY <2>0
    <3> QED
      BY <2>3, <3>1, <3>2 DEF LastOpInv
  <2>4. ASSUME Silent(n)', events[1][1] # n PROVE Silent(n)
    <3> SUFFICES ASSUME NEW j \in DOMAIN events PROVE events[j][1] # n
      BY DEF Silent
    <3>1. CASE j = 1
      BY <2>4, <3>1
    <3>2. CASE j # 1
      <4>1. j - 1 \in DOMAIN events' /\ events'[j - 1] = events[j]
        BY <2>0, <3>2
      <4> QED
        BY <2>4, <4>1 DEF Silent
    <3> QED
      BY <3>1, <3>2
  <2>5. events[1][2] # None
    BY <1>0, <2>0
  <2> QED
    BY <2>0, <2>1, <2>2, <2>3, <2>4, <2>5 DEF LastOpInv
<1>4. CASE /\ events' = events /\ pending' = pending /\ disk' = disk
           /\ \A g \in Goroutines, n \in Names :
                batch'[g][n] = batch[g][n] \/ batch'[g][n] = None
  BY <1>4 DEF LastOpInv, Silent, OpFor
<1>5. ASSUME NEW g \in Goroutines, Clear(g) PROVE LastOpInv'
  BY <1>0, <1>4, <1>5 DEF Clear, LoaderTypeOK
<1>6. ASSUME NEW g \in Goroutines, Work(g) PROVE LastOpInv'
  <2>1. CASE TakeBatch(g)
    <3>1. \A n \in Names : pending'[n] = None
      BY <1>0, <2>1 DEF TakeBatch
    <3>2. batch'[g] = pending /\ \A h \in Goroutines \ {g} : batch'[h] = batch[h]
      BY <1>0, <2>1 DEF TakeBatch, LoaderTypeOK
    <3>3. events' = events /\ disk' = disk
      BY <2>1 DEF TakeBatch
    <3>4. \A h \in Goroutines : batch[h] = NoOps
      BY <2>1 DEF TakeBatch, MayBegin, WorkInv
    <3>5. ASSUME NEW n \in Names, NEW h \in Goroutines, Silent(n), batch'[h][n] # None
          PROVE  batch'[h][n] = OpFor(n)
      <4>1. CASE h = g
        BY <3>2, <3>5, <4>1 DEF LastOpInv
      <4>2. CASE h # g
        BY <1>0, <3>2, <3>4, <3>5, <4>2
      <4> QED
        BY <4>1, <4>2
    <3> QED
      BY <3>1, <3>3, <3>5 DEF LastOpInv, Silent, OpFor
  <2>2. CASE ReloadBatch(g)
    BY <1>5, <2>2 DEF ReloadBatch
  <2>3. ASSUME NEW n \in Names, NextInBatch(g, n) PROVE LastOpInv'
    BY <1>0, <1>4, <2>3 DEF NextInBatch, LoaderTypeOK
  <2> QED
    BY <1>4, <1>6, <2>1, <2>2, <2>3
       DEF Work, ReadDir, Finish, NextInDir, ReadManifest, CheckHash, RunScript, Swap, Unload
<1>7. CASE UNCHANGED loaderVars
  BY <1>4, <1>7 DEF loaderVars
<1> QED
  BY <1>2, <1>3, <1>4, <1>5, <1>6, <1>7
     DEF LoaderNext, SetVerify, StartWatcher, Fire, ReloadRequest, Goroutines

\* A report on workflow n, or on the manifest, that no goroutine has taken yet.
Reported(n) ==
  \/ ~Silent(n) \/ ~Silent(Manifest)
  \/ pending[n] # None \/ pending[Manifest] # None

\* Goroutine g has yet to load or unload workflow n.
Due(g, n) ==
  \/ batch[g][n] # None \/ batch[g][Manifest] # None
  \/ pc[g] = "readdir" \/ n \in todo[g]
  \/ cur[g] = n /\ pc[g] \in LoadSteps

\* What LoadWorkflow has found out so far is still so.
Right(g, n) ==
  /\ pc[g] \in {"manifest", "hash"} => verify
  /\ pc[g] \in {"manifest", "hash", "script", "swap"} => disk[n] # 0
  /\ pc[g] = "hash" => seen[g] = manifest[n]
  /\ pc[g] \in {"script", "swap"} => ~verify \/ manifest[n] = disk[n]
  /\ pc[g] = "swap" => ver[g] = disk[n]
  /\ pc[g] = "unload" => disk[n] = 0 \/ (verify /\ manifest[n] # disk[n])

\* The workflow is in sync or someone is at work on it, and whoever is works with
\* what the directory holds now.
SyncOf(n) ==
  /\ InSync(n) \/ \E g \in Goroutines : Due(g, n)
  /\ \A g \in Goroutines :
       /\ n \in todo[g] => disk[n] # 0
       /\ pc[g] \in LoadSteps /\ cur[g] = n => Right(g, n)

\* So it is with every workflow no report is left about.
SyncInv == \A n \in Names \ unseen : Reported(n) \/ SyncOf(n)

\* Without a change of the directory, a step of goroutine g matters to workflow n
\* only through what g itself does to it.
LEMMA OneGoroutine ==
  ASSUME SyncInv, NEW n \in Names, n \notin unseen, ~Reported(n), NEW g \in Goroutines,
         UNCHANGED <<disk, broken, manifest, verify>>,
         \A h \in Goroutines \ {g} :
           /\ batch'[h] = batch[h] /\ todo'[h] = todo[h] /\ pc'[h] = pc[h]
           /\ cur'[h] = cur[h] /\ seen'[h] = seen[h] /\ ver'[h] = ver[h],
         InSync(n) \/ Due(g, n) => InSync(n)' \/ Due(g, n)',
         n \in todo'[g] => disk[n] # 0,
         pc'[g] \in LoadSteps /\ cur'[g] = n => Right(g, n)'
  PROVE  SyncOf(n)'
<1>1. SyncOf(n)
  BY DEF SyncInv
<1>2. ASSUME NEW h \in Goroutines, h # g
      PROVE  /\ Due(h, n) => Due(h, n)'
             /\ n \in todo'[h] => disk'[n] # 0
             /\ pc'[h] \in LoadSteps /\ cur'[h] = n => Right(h, n)'
  BY <1>1, <1>2 DEF SyncOf, Due, Right
<1> QED
  BY <1>1, <1>2 DEF SyncOf

\* An edit of the directory keeps every workflow in step with its file, or reported.
LEMMA EditSync ==
  ASSUME TypeInv, AloneInv, WorkInv, SyncInv, Edit
  PROVE  SyncInv'
<1>0. LoaderTypeOK
  BY DEF TypeInv
<1>1. ASSUME NEW f \in Files, NEW op \in Ops, Report(f, op), broken \subseteq broken',
             \A m \in Names \ Affected(f) : disk'[m] = disk[m] /\ manifest'[m] = manifest[m]
      PROVE  SyncInv'
  <2> SUFFICES ASSUME NEW n \in Names, n \notin unseen', ~Reported(n)' PROVE SyncOf(n)'
    BY DEF SyncInv
  <2>0. UNCHANGED <<verify, loaded, pc, mode, batch, todo, cur, seen, ver, pending>>
    BY <1>1 DEF Report, loadVars
  <2>1. CASE n \in Affected(f) /\ watching
    <3>1. Len(events) + 1 \in DOMAIN events' /\ events'[Len(events) + 1][1] = f
      BY <1>1, <2>1, ReportEffect
    <3>2. f = n \/ f = Manifest
      BY <2>1 DEF Affected
    <3> QED
      BY <3>1, <3>2 DEF Reported, Silent
  <2>2. CASE n \in Affected(f) /\ ~watching
    <3>1. pc[Main] = "readdir"
      BY <1>1, <2>2 DEF Report
    <3>2. \A g \in Goroutines : todo[g] = {} /\ pc[g] \notin LoadSteps
      BY <2>2, <3>1 DEF AloneInv, WorkInv, Loading, LoadSteps
    <3> QED
      BY <2>0, <3>1, <3>2 DEF SyncOf, Due, Goroutines
  <2>3. CASE n \notin Affected(f)
    <3>1. n \notin unseen
      BY <1>1, <2>3 DEF Report
    <3>2. Reported(n) => Reported(n)'
      BY <1>1, <2>0, ReportEffect DEF Reported, Silent
    <3>3. SyncOf(n)
      BY <3>1, <3>2 DEF SyncInv
    <3>4. (InSync(n) => InSync(n)') /\ \A g \in Goroutines : Due(g, n) => Due(g, n)'
      BY <1>1, <2>0, <2>3 DEF InSync, Due
    <3>5. \A g \in Goroutines : Right(g, n) => Right(g, n)'
      BY <1>1, <2>0, <2>3 DEF Right
    <3> QED
      BY <1>1, <2>0, <2>3, <3>3, <3>4, <3>5 DEF SyncOf
  <2> QED
    BY <2>1, <2>2, <2>3
<1>2. ASSUME NEW n \in Names, NEW runs \in BOOLEAN, Write(n, runs) PROVE SyncInv'
  BY <1>0, <1>1, <1>2, FilesAssumption DEF Write, Files, Ops, Affected, LoaderTypeOK
<1>3. ASSUME NEW n \in Names, Remove(n) PROVE SyncInv'
  BY <1>0, <1>1, <1>3, FilesAssumption DEF Remove, Files, Ops, Affected, LoaderTypeOK
<1>4. CASE Sign
  BY <1>1, <1>4 DEF Sign, Files, Ops, Affected
<1> QED
  BY <1>2, <1>3, <1>4 DEF Edit

\* Every step keeps every workflow in step with its file, or reported.
LEMMA SyncStep ==
  ASSUME Overlap = FALSE
  PROVE  TypeInv /\ AloneInv /\ WorkInv /\ LastOpInv /\ SyncInv /\ [LoaderNext]_loaderVars => SyncInv'
<1> SUFFICES ASSUME TypeInv, AloneInv, WorkInv, LastOpInv, SyncInv, [LoaderNext]_loaderVars
             PROVE  SyncInv'
  OBVIOUS
<1> USE DEF diskVars, watchVars, loadVars, history, LoadSteps
<1>0. /\ LoaderTypeOK /\ Names \subseteq Files /\ Manifest \in Files
      /\ \A f \in Files : NoOps[f] = None
      /\ \A op \in Ops : op # None
      /\ \A g \in Goroutines : pc[g] \in LoadSteps => cur[g] \in Names
  BY NoneAssumption DEF TypeInv, NoOps, Files, Ops
<1>1. CASE Edit
  BY <1>1, EditSync
<1>10. CASE SetVerify
  BY <1>10 DEF SetVerify, SyncInv
<1>2. CASE Notice
  <2> SUFFICES ASSUME NEW n \in Names, n \notin unseen, ~Reported(n)' PROVE SyncOf(n)'
    BY <1>2 DEF SyncInv, Notice
  <2>1. ASSUME NEW f \in {n, Manifest}, ~Silent(f) PROVE FALSE
    <3>0. f \in Files
      BY <1>0
    <3>1. PICK k \in DOMAIN events : events[k][1] = f
      BY <2>1 DEF Silent
    <3>2. CASE k = 1
      <4>1. Head(events)[1] = f /\ Head(events)[2] # None
        BY <1>0, <1>2, <3>1, <3>2, NoticeEffect
      <4>2. pending'[f] # None
        BY <1>0, <1>2, <3>0, <4>1 DEF Notice, LoaderTypeOK
      <4> QED
        BY <2>1, <4>2 DEF Reported
    <3>3. CASE k # 1
      <4>1. k - 1 \in DOMAIN events' /\ events'[k - 1] = events[k]
        BY <1>2, <3>1, <3>3, NoticeEffect
      <4>2. ~Silent(f)'
        BY <3>1, <4>1 DEF Silent
      <4> QED
        BY <2>1, <4>2 DEF Reported
    <3> QED
      BY <3>2, <3>3
  <2>2. ASSUME NEW f \in {n, Manifest}, pending[f] # None PROVE FALSE
    <3>1. pending'[f] # None
      BY <1>0, <1>2, <2>2, NoticeEffect DEF Notice, LoaderTypeOK
    <3> QED
      BY <2>2, <3>1 DEF Reported
  <2>3. SyncOf(n)
    BY <2>1, <2>2 DEF Reported, SyncInv
  <2> QED
    BY <1>2, <2>3 DEF Notice, SyncOf, InSync, Due, Right
<1>3. ASSUME UNCHANGED <<disk, broken, manifest, verify, loaded, events, pending, unseen>>,
             UNCHANGED <<batch, todo, cur, seen, ver>>,
             NEW g \in Goroutines, NEW s \in {"idle", "fired"}, pc' = [pc EXCEPT ![g] = s],
             pc[g] \in {"idle", "next", "watch"}
      PROVE  SyncInv'
  <2> SUFFICES ASSUME NEW n \in Names, n \notin unseen, ~Reported(n) PROVE SyncOf(n)'
    BY <1>3 DEF SyncInv, Reported, Silent
  <2>1. pc'[g] = s /\ \A h \in Goroutines \ {g} : pc'[h] = pc[h]
    BY <1>0, <1>3 DEF LoaderTypeOK
  <2>2. SyncOf(n)
    BY DEF SyncInv
  <2>3. \A h \in Goroutines : Due(h, n) => Due(h, n)'
    BY <1>3, <2>1 DEF Due
  <2>4. \A h \in Goroutines \ {g} : Right(h, n) => Right(h, n)'
    BY <1>3, <2>1 DEF Right
  <2> QED
    BY <1>3, <2>1, <2>2, <2>3, <2>4 DEF SyncOf, InSync
<1>4. CASE StartWatcher
  BY <1>3, <1>4 DEF StartWatcher, Goroutines
<1>5. ASSUME NEW g \in Flushers, Fire(g) PROVE SyncInv'
  BY <1>3, <1>5 DEF Fire, Goroutines
<1>6. ASSUME NEW g \in Goroutines, Clear(g), todo[g] = {},
             \A h \in Goroutines \ {g} : ~Loading(h)
      PROVE  SyncInv'
  <2>1. pc'[g] = "readdir"
    BY <1>0, <1>6 DEF Clear, LoaderTypeOK
  <2>2. \A h \in Goroutines : todo'[h] = {} /\ pc'[h] \notin LoadSteps
    BY <1>0, <1>6 DEF Clear, LoaderTypeOK, WorkInv, Loading
  <2> QED
    BY <2>1, <2>2 DEF SyncInv, SyncOf, Due
<1>7. ASSUME NEW g \in Api, ReloadRequest(g) PROVE SyncInv'
  BY <1>6, <1>7 DEF ReloadRequest, MayBegin, WorkInv, Loading, Goroutines
<1>8. ASSUME NEW g \in Goroutines, Work(g) PROVE SyncInv'
  <2>1. CASE TakeBatch(g)
    <3> SUFFICES ASSUME NEW n \in Names, n \notin unseen, ~Reported(n)' PROVE SyncOf(n)'
      BY <2>1 DEF SyncInv, TakeBatch
    <3>1. /\ UNCHANGED <<disk, broken, manifest, verify, loaded, todo, events>>
          /\ pc'[g] = "next" /\ batch'[g] = pending
          /\ \A h \in Goroutines \ {g} : pc'[h] = pc[h] /\ batch'[h] = batch[h]
      BY <1>0, <2>1 DEF TakeBatch, LoaderTypeOK
    <3>2. \A h \in Goroutines : ~Loading(h) /\ batch[h] = NoOps /\ todo[h] = {}
      BY <2>1 DEF TakeBatch, MayBegin, WorkInv
    <3>3. \A h \in Goroutines : todo'[h] = {} /\ pc'[h] \notin LoadSteps
      BY <3>1, <3>2 DEF Loading
    <3>4. CASE pending[n] # None \/ pending[Manifest] # None
      BY <3>1, <3>3, <3>4 DEF SyncOf, Due
    <3>5. CASE pending[n] = None /\ pending[Manifest] = None
      <4>1. ~Reported(n)
        BY <3>1, <3>5 DEF Reported, Silent
      <4>2. \A h \in Goroutines : ~Due(h, n)
        BY <1>0, <3>2 DEF Due, Loading
      <4>3. InSync(n)
        BY <4>1, <4>2 DEF SyncInv, SyncOf
      <4> QED
        BY <3>1, <3>3, <4>3 DEF SyncOf, InSync
    <3> QED
      BY <3>4, <3>5
  <2>2. CASE ReloadBatch(g)
    <3>1. todo[g] = {} /\ \A h \in Goroutines \ {g} : ~Loading(h)
      BY <1>0, <2>2 DEF ReloadBatch, WorkInv, AloneInv, Loading, LoaderTypeOK
    <3> QED
      BY <1>6, <2>2, <3>1 DEF ReloadBatch
  <2>3. CASE Finish(g)
    <3>1. batch[g] = NoOps /\ todo[g] = {}
      BY <1>0, <2>3 DEF Finish, WorkInv, LoaderTypeOK
    <3> SUFFICES ASSUME NEW n \in Names, n \notin unseen, ~Reported(n) PROVE SyncOf(n)'
      BY <2>3 DEF SyncInv, Finish, Reported, Silent
    <3>2. ~Due(g, n)
      BY <1>0, <2>3, <3>1 DEF Due, Finish
    <3>3. pc'[g] \in {"watch", "idle"}
      BY <1>0, <2>3 DEF Finish, LoaderTypeOK
    <3> QED
      BY <1>0, <2>3, <3>1, <3>2, <3>3, OneGoroutine DEF Finish, LoaderTypeOK, InSync
  <2>4. CASE ReadDir(g)
    <3>1. /\ pc'[g] = "next" /\ todo'[g] = {m \in Names : disk[m] # 0}
          /\ \A h \in Goroutines \ {g} : pc'[h] = pc[h] /\ todo'[h] = todo[h]
          /\ UNCHANGED <<disk, broken, manifest, verify, loaded>>
      BY <1>0, <2>4 DEF ReadDir, LoaderTypeOK
    <3>2. \A h \in Goroutines \ {g} : todo'[h] = {} /\ pc'[h] \notin LoadSteps
      BY <2>4, <3>1 DEF ReadDir, AloneInv, WorkInv, Loading
    <3> SUFFICES ASSUME NEW n \in Names PROVE SyncOf(n)'
      BY DEF SyncInv
    <3>3. disk[n] = 0 => InSync(n)'
      BY <2>4, <3>1 DEF ReadDir, WorkInv, InSync
    <3>4. disk[n] # 0 => Due(g, n)'
      BY <3>1 DEF Due
    <3> QED
      BY <3>1, <3>2, <3>3, <3>4 DEF SyncOf
  <2> SUFFICES ASSUME NEW n \in Names, n \notin unseen, ~Reported(n),
                      ~TakeBatch(g), ~ReloadBatch(g), ~Finish(g), ~ReadDir(g)
               PROVE  SyncOf(n)'
    <3>1. CASE UNCHANGED <<events, pending, unseen>>
      BY <2>1, <2>2, <2>3, <2>4, <3>1 DEF SyncInv, Reported, Silent
    <3> QED
      BY <1>8, <2>1, <2>2, <2>3, <2>4, <3>1
         DEF Work, NextInDir, NextInBatch, ReadManifest, CheckHash, RunScript,
             Swap, Unload
  <2>5. /\ n \in todo[g] => disk[n] # 0
        /\ pc[g] \in LoadSteps /\ cur[g] = n => Right(g, n)
    BY DEF SyncInv, SyncOf
  <2>7. ASSUME NEW m \in Names, NextInDir(g, m) PROVE SyncOf(n)'
    <3>1. /\ pc[g] = "next" /\ pc'[g] = BeginLoad
          /\ todo'[g] = todo[g] \ {m} /\ cur'[g] = m
          /\ \A h \in Goroutines \ {g} :
               pc'[h] = pc[h] /\ todo'[h] = todo[h] /\ cur'[h] = cur[h]
      BY <1>0, <2>7 DEF NextInDir, LoaderTypeOK
    <3>2. pc'[g] \in LoadSteps
      BY <3>1 DEF BeginLoad
    <3>3. Due(g, n) => Due(g, n)'
      BY <2>7, <3>1, <3>2 DEF Due, NextInDir
    <3>4. cur'[g] = n => Right(g, n)'
      BY <2>5, <2>7, <3>1 DEF Right, BeginLoad, NextInDir
    <3>5. n \in todo'[g] => disk[n] # 0
      BY <2>5, <3>1
    <3>6. InSync(n) => InSync(n)'
      BY <2>7 DEF InSync, NextInDir
    <3> QED
      BY <2>7, <3>1, <3>3, <3>4, <3>5, <3>6, OneGoroutine DEF NextInDir
  <2>8. ASSUME NEW m \in Names, NextInBatch(g, m) PROVE SyncOf(n)'
    <3>1. /\ pc[g] = "next" /\ cur'[g] = m /\ batch'[g] = [batch[g] EXCEPT ![m] = None]
          /\ pc'[g] = IF batch[g][m] = "remove" THEN "unload" ELSE BeginLoad
          /\ \A h \in Goroutines \ {g} :
               pc'[h] = pc[h] /\ batch'[h] = batch[h] /\ cur'[h] = cur[h]
      BY <1>0, <2>8 DEF NextInBatch, LoaderTypeOK
    <3>2. pc'[g] \in LoadSteps
      BY <3>1 DEF BeginLoad
    <3>3. batch'[g][m] = None /\ \A f \in Files \ {m} : batch'[g][f] = batch[g][f]
      BY <1>0, <3>1 DEF LoaderTypeOK
    <3>4. Due(g, n) => Due(g, n)'
      BY <1>0, <2>8, <3>1, <3>2, <3>3 DEF Due, NextInBatch
    <3>5. cur'[g] = n => batch[g][n] = OpFor(n) /\ m = n
      BY <2>8, <3>1 DEF LastOpInv, Reported, NextInBatch
    <3>6. cur'[g] = n => Right(g, n)'
      BY <2>8, <3>1, <3>5 DEF Right, BeginLoad, NextInBatch, OpFor
    <3>7. InSync(n) => InSync(n)'
      BY <2>8 DEF InSync, NextInBatch
    <3> QED
      BY <2>5, <2>8, <3>1, <3>4, <3>6, <3>7, OneGoroutine DEF NextInBatch
  <2>9. ASSUME pc[g] \in LoadSteps, UNCHANGED <<diskVars, verify, batch, todo, cur>>,
               \E s \in Step : pc' = [pc EXCEPT ![g] = s],
               \A h \in Goroutines \ {g} : seen'[h] = seen[h] /\ ver'[h] = ver[h],
               \A m \in Names \ {cur[g]} : loaded'[m] = loaded[m],
               cur[g] = n => \/ pc'[g] \in LoadSteps /\ Right(g, n)'
                             \/ pc'[g] \notin LoadSteps /\ InSync(n)'
        PROVE  SyncOf(n)'
    <3>1. \A h \in Goroutines \ {g} : pc'[h] = pc[h]
      BY <1>0, <2>9 DEF LoaderTypeOK
    <3>2. CASE cur[g] = n
      <4>1. InSync(n)' \/ Due(g, n)'
        BY <2>9, <3>2 DEF Due
      <4> QED
        BY <2>5, <2>9, <3>1, <3>2, <4>1, OneGoroutine
    <3>3. CASE cur[g] # n
      <4>1. (InSync(n) => InSync(n)') /\ (Due(g, n) => Due(g, n)')
        BY <2>9, <3>3 DEF InSync, Due
      <4> QED
        BY <2>5, <2>9, <3>1, <3>3, <4>1, OneGoroutine
    <3> QED
      BY <3>2, <3>3
  <2>10. CASE ReadManifest(g)
    <3>1. /\ pc[g] = "manifest" /\ seen'[g] = manifest[cur[g]]
          /\ pc'[g] = IF manifest[cur[g]] = 0 THEN IF mode[g] = "file" THEN "unload" ELSE "next"
                                               ELSE "hash"
          /\ \A h \in Goroutines \ {g} : seen'[h] = seen[h]
      BY <1>0, <2>10 DEF ReadManifest, Checked, LoaderTypeOK
    <3>2. cur[g] = n => \/ pc'[g] \in LoadSteps /\ Right(g, n)'
                        \/ pc'[g] \notin LoadSteps /\ InSync(n)'
      BY <1>0, <2>5, <2>10, <3>1 DEF ReadManifest, Right, InSync, Checked, WorkInv, LoaderTypeOK
    <3> QED
      BY <2>9, <2>10, <3>1, <3>2 DEF ReadManifest, Checked, Step
  <2>11. CASE CheckHash(g)
    <3>1. pc'[g] = IF disk[cur[g]] = seen[g] THEN "script"
                     ELSE IF mode[g] = "file" THEN "unload" ELSE "next"
      BY <1>0, <2>11 DEF CheckHash, Checked, LoaderTypeOK
    <3>2. cur[g] = n => \/ pc'[g] \in LoadSteps /\ Right(g, n)'
                        \/ pc'[g] \notin LoadSteps /\ InSync(n)'
      BY <1>0, <2>5, <2>11, <3>1 DEF CheckHash, Right, InSync, Checked, WorkInv, LoaderTypeOK
    <3> QED
      BY <2>9, <2>11, <3>1, <3>2 DEF CheckHash, Checked, Step
  <2>12. CASE RunScript(g)
    <3>1. /\ pc'[g] = IF Runs(disk[cur[g]]) THEN "swap" ELSE "next"
          /\ Runs(disk[cur[g]]) => ver'[g] = disk[cur[g]]
          /\ \A h \in Goroutines \ {g} : ver'[h] = ver[h]
      BY <1>0, <2>12 DEF RunScript, LoaderTypeOK
    <3>2. cur[g] = n => \/ pc'[g] \in LoadSteps /\ Right(g, n)'
                        \/ pc'[g] \notin LoadSteps /\ InSync(n)'
      BY <1>0, <2>5, <2>12, <3>1 DEF RunScript, Right, InSync, Runs
    <3> QED
      BY <2>9, <2>12, <3>1, <3>2 DEF RunScript, Step
  <2>13. CASE Swap(g) \/ Unload(g)
    <3>1. pc'[g] = "next" /\ \A m \in Names \ {cur[g]} : loaded'[m] = loaded[m]
      BY <1>0, <2>13 DEF Swap, Unload, LoaderTypeOK
    <3>2. loaded'[cur[g]] = IF pc[g] = "swap" THEN ver[g] ELSE 0
      BY <1>0, <2>13 DEF Swap, Unload, LoaderTypeOK
    <3>3. cur[g] = n => InSync(n)'
      BY <2>5, <2>13, <3>2 DEF Swap, Unload, Right, InSync
    <3> QED
      BY <2>9, <2>13, <3>1, <3>3 DEF Swap, Unload, Step
  <2> QED
    BY <1>8, <2>7, <2>8, <2>10, <2>11, <2>12, <2>13 DEF Work
<1>9. CASE UNCHANGED loaderVars
  BY <1>9 DEF loaderVars, SyncInv, SyncOf, Reported, Silent, InSync, Due, Right
<1> QED
  BY <1>1, <1>2, <1>4, <1>5, <1>7, <1>8, <1>9, <1>10 DEF LoaderNext

\* A workflow whose last change was reported is in sync or on its way to be, for
\* any number of workflows, changes, flushes and reloads that do not overlap.
THEOREM TrackedHolds == ASSUME Overlap = FALSE PROVE LoaderSpec => []Tracked
<1> DEFINE Inv == AloneInv /\ WorkInv /\ LastOpInv /\ SyncInv
<1>1. LoaderInit => Inv
  <2> SUFFICES ASSUME LoaderInit PROVE Inv
    OBVIOUS
  <2>1. AloneInv
    BY GoroutinesAssumption DEF LoaderInit, AloneInv, Loading, Goroutines
  <2>2. WorkInv
    BY DEF LoaderInit, WorkInv, Loading, LoadSteps
  <2>3. LastOpInv
    <3>1. DOMAIN events = {}
      BY DEF LoaderInit
    <3>2. \A n \in Names : NoOps[n] = None
      BY DEF NoOps, Files
    <3> QED
      BY <3>1, <3>2 DEF LoaderInit, LastOpInv
  <2>4. SyncInv
    BY DEF LoaderInit, SyncInv, SyncOf, InSync, LoadSteps
  <2> QED
    BY <2>1, <2>2, <2>3, <2>4
<1>2. TypeInv /\ Inv /\ [LoaderNext]_loaderVars => Inv'
  BY AloneStep, WorkStep, LastOpStep, SyncStep
<1>3. TypeInv /\ Inv => Tracked
  <2> SUFFICES ASSUME TypeInv, Inv, NEW n \in Names, n \notin unseen, ~InSync(n)
               PROVE  Underway(n)
    BY DEF Tracked
  <2>1. CASE Reported(n)
    BY <2>1 DEF Reported, Silent, Underway, Affected, Files
  <2>2. CASE ~Reported(n)
    BY <2>2 DEF SyncInv, SyncOf, Due, Underway, Affected, Files, LoadSteps
  <2> QED
    BY <2>1, <2>2
<1> HIDE DEF Inv
<1> QED
  BY <1>1, <1>2, <1>3, Types, PTL DEF LoaderSpec

=============================================================================
