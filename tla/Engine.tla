------------------------------- MODULE Engine -------------------------------
(***************************************************************************)
(* The workflow engine of internal/workflow: a map from workflow names to  *)
(* running instances (workflowState), one goroutine per instance that      *)
(* drains a bounded event channel into a Lua VM, a NATS callback that      *)
(* routes events to the instances of the map, and any number of goroutines *)
(* that load, replace and stop instances while events keep coming: the     *)
(* timers of the file watcher, the handlers of the HTTP API, the daemon's  *)
(* main goroutine.                                                         *)
(*                                                                         *)
(* A step is what happens under one hold of Engine.mu, or between two      *)
(* channel operations.  A call of the engine is therefore several steps of *)
(* its goroutine: the map is swapped under the lock, and every instance    *)
(* that left the map is stopped outside of it, one after the other.        *)
(***************************************************************************)
EXTENDS Naturals, Sequences

CONSTANTS
  Names,      \* workflow names: the base names of the .lua files
  Insts,      \* identities of workflowState values, one per successful load
  Threads,    \* goroutines that call LoadWorkflow, UnloadWorkflow, ReloadAll, Stop
  None,       \* nil: no instance
  Scheduled,  \* the names whose script calls sekia.schedule
  Capacity,   \* cap(eventCh), 4096 in the code
  MaxEvents   \* bound: events the NATS callback delivers in a behaviour

ASSUME NoneAssumption == None \notin Insts
ASSUME ScheduledAssumption == Scheduled \subseteq Names
ASSUME CapacityAssumption == Capacity \in Nat \ {0}
ASSUME MaxEventsAssumption == MaxEvents \in Nat

VARIABLES
  phase,      \* "new", "running" (subscribed to sekia.events.>) or "stopped"
  workflows,  \* Engine.workflows: the instance of each name, or None
  nameOf,     \* workflowState.name
  eventCh,    \* workflowState.eventCh: the events accepted and not yet received
  closed,     \* whether close(eventCh) was called
  run,        \* where the goroutine of the instance is
  vm,         \* the Lua state of the instance
  scan,       \* per goroutine: LoadDir has yet to read the directory
  toLoad,     \* per goroutine: names LoadDir read and has yet to load
  built,      \* per goroutine: LoadWorkflow's new instance, before the swap
  toStop,     \* per goroutine: instances it took from the map and has yet to stop
  stopping,   \* per goroutine: the instance whose done channel it waits for
  received,   \* history: number of events the NATS callback delivered
  accepted,   \* history: the events sent on each instance's channel
  handled     \* history: the events each goroutine passed to its VM

engineVars == <<phase, workflows>>
instVars == <<nameOf, eventCh, closed, run, vm>>
threadVars == <<scan, toLoad, built, toStop, stopping>>
history == <<received, accepted, handled>>
vars == <<phase, workflows, nameOf, eventCh, closed, run, vm,
          scan, toLoad, built, toStop, stopping, received, accepted, handled>>

-----------------------------------------------------------------------------
RunState == {"none", "select", "event", "tick", "done"}

TypeOK ==
  /\ phase \in {"new", "running", "stopped"}
  /\ workflows \in [Names -> Insts \cup {None}]
  /\ nameOf \in [Insts -> Names \cup {None}]
  /\ eventCh \in [Insts -> Seq(1..MaxEvents)]
  /\ closed \in [Insts -> BOOLEAN]
  /\ run \in [Insts -> RunState]
  /\ vm \in [Insts -> {"absent", "open", "closed"}]
  /\ scan \in [Threads -> BOOLEAN]
  /\ toLoad \in [Threads -> SUBSET Names]
  /\ built \in [Threads -> Insts \cup {None}]
  /\ toStop \in [Threads -> SUBSET Insts]
  /\ stopping \in [Threads -> Insts \cup {None}]
  /\ received \in 0..MaxEvents
  /\ accepted \in [Insts -> Seq(1..MaxEvents)]
  /\ handled \in [Insts -> Seq(1..MaxEvents)]

Init ==
  /\ phase = "new"
  /\ workflows = [n \in Names |-> None]
  /\ nameOf = [i \in Insts |-> None]
  /\ eventCh = [i \in Insts |-> <<>>]
  /\ closed = [i \in Insts |-> FALSE]
  /\ run = [i \in Insts |-> "none"]
  /\ vm = [i \in Insts |-> "absent"]
  /\ scan = [t \in Threads |-> FALSE]
  /\ toLoad = [t \in Threads |-> {}]
  /\ built = [t \in Threads |-> None]
  /\ toStop = [t \in Threads |-> {}]
  /\ stopping = [t \in Threads |-> None]
  /\ received = 0
  /\ accepted = [i \in Insts |-> <<>>]
  /\ handled = [i \in Insts |-> <<>>]

\* The instances the map holds.
Loaded == {workflows[n] : n \in Names} \ {None}

\* A goroutine is free to go on to its next load: nothing is left to swap or stop.
Free(t) == built[t] = None /\ toStop[t] = {} /\ stopping[t] = None

\* A goroutine is between two calls of the engine.
Idle(t) == Free(t) /\ ~scan[t] /\ toLoad[t] = {}

Running(i) == run[i] \notin {"none", "done"}

-----------------------------------------------------------------------------
(***************************************************************************)
(* The calls of the engine.                                                *)
(***************************************************************************)

\* Start: subscribe to sekia.events.>.
Start(t) ==
  /\ phase = "new" /\ Idle(t)
  /\ phase' = "running"
  /\ UNCHANGED <<workflows, instVars, threadVars, history>>

\* LoadDir reads the directory: at startup by itself, in ReloadAll once the
\* old instances are stopped.
BeginLoadDir(t) ==
  /\ phase # "new" /\ Idle(t)
  /\ scan' = [scan EXCEPT ![t] = TRUE]
  /\ UNCHANGED <<engineVars, instVars, toLoad, built, toStop, stopping, history>>

\* The files the directory holds at that moment are any of the names.
ReadDir(t) ==
  /\ scan[t] /\ Free(t)
  /\ \E files \in SUBSET Names : toLoad' = [toLoad EXCEPT ![t] = files]
  /\ scan' = [scan EXCEPT ![t] = FALSE]
  /\ UNCHANGED <<engineVars, instVars, built, toStop, stopping, history>>

\* LoadWorkflow up to "go ws.run()": the script ran in a new VM, the goroutine
\* is started, and the map still holds the old instance.
Build(t, n) ==
  /\ phase # "new" /\ Free(t) /\ ~scan[t]
  /\ toLoad[t] = {} \/ n \in toLoad[t]
  /\ \E i \in Insts :
       /\ run[i] = "none"
       /\ run' = [run EXCEPT ![i] = "select"]
       /\ vm' = [vm EXCEPT ![i] = "open"]
       /\ nameOf' = [nameOf EXCEPT ![i] = n]
       /\ built' = [built EXCEPT ![t] = i]
  /\ toLoad' = [toLoad EXCEPT ![t] = @ \ {n}]
  /\ UNCHANGED <<engineVars, eventCh, closed, scan, toStop, stopping, history>>

\* LoadWorkflow returns an error before it touched the engine (integrity
\* violation, syntax error, file gone); LoadDir goes on with the next file.
LoadFails(t, n) ==
  /\ Free(t) /\ n \in toLoad[t]
  /\ toLoad' = [toLoad EXCEPT ![t] = @ \ {n}]
  /\ UNCHANGED <<engineVars, instVars, scan, built, toStop, stopping, history>>

\* Mutated: the old instance is overwritten and forgotten.
SwapForgets(t) ==
  /\ built[t] # None
  /\ workflows' = [workflows EXCEPT ![nameOf[built[t]]] = built[t]]
  /\ built' = [built EXCEPT ![t] = None]
  /\ UNCHANGED <<phase, instVars, scan, toLoad, toStop, stopping, history>>

\* LoadWorkflow swaps the map entry under the lock; the old instance, if any,
\* is this goroutine's to stop.
Swap(t) ==
  /\ built[t] # None
  /\ LET n == nameOf[built[t]]
     IN  /\ toStop' = [toStop EXCEPT ![t] = {workflows[n]} \ {None}]
         /\ workflows' = [workflows EXCEPT ![n] = built[t]]
  /\ built' = [built EXCEPT ![t] = None]
  /\ UNCHANGED <<phase, instVars, scan, toLoad, stopping, history>>

\* Mutated: the instance is stopped while the map still holds it.
UnloadKeepsEntry(t, n) ==
  /\ Idle(t) /\ workflows[n] # None
  /\ toStop' = [toStop EXCEPT ![t] = {workflows[n]}]
  /\ UNCHANGED <<engineVars, instVars, scan, toLoad, built, stopping, history>>

\* Mutated: a name that is not loaded is unloaded all the same.
UnloadUnchecked(t, n) ==
  /\ Idle(t)
  /\ toStop' = [toStop EXCEPT ![t] = {workflows[n]}]
  /\ workflows' = [workflows EXCEPT ![n] = None]
  /\ UNCHANGED <<phase, instVars, scan, toLoad, built, stopping, history>>

\* UnloadWorkflow: delete the entry under the lock.
Unload(t, n) ==
  /\ Idle(t) /\ workflows[n] # None
  /\ toStop' = [toStop EXCEPT ![t] = {workflows[n]}]
  /\ workflows' = [workflows EXCEPT ![n] = None]
  /\ UNCHANGED <<phase, instVars, scan, toLoad, built, stopping, history>>

\* Mutated: the instances are collected, and the map is not cleared with it.
ReloadAllCopies(t) ==
  /\ phase # "new" /\ Idle(t)
  /\ toStop' = [toStop EXCEPT ![t] = Loaded]
  /\ scan' = [scan EXCEPT ![t] = TRUE]
  /\ UNCHANGED <<engineVars, instVars, toLoad, built, stopping, history>>

\* ReloadAll: take the whole map under the lock, then stop every instance of
\* it, then LoadDir.
ReloadAll(t) ==
  /\ phase # "new" /\ Idle(t)
  /\ toStop' = [toStop EXCEPT ![t] = Loaded]
  /\ workflows' = [n \in Names |-> None]
  /\ scan' = [scan EXCEPT ![t] = TRUE]
  /\ UNCHANGED <<phase, instVars, toLoad, built, stopping, history>>

\* Stop: unsubscribe, then take the whole map.  Nothing forbids another
\* goroutine to be inside LoadWorkflow, or to enter it later.
Stop(t) ==
  /\ phase = "running" /\ Idle(t)
  /\ phase' = "stopped"
  /\ toStop' = [toStop EXCEPT ![t] = Loaded]
  /\ workflows' = [n \in Names |-> None]
  /\ UNCHANGED <<instVars, scan, toLoad, built, stopping, history>>

\* Mutated: the instance is waited for and its channel is left open.
CloseEventsForgets(t) ==
  /\ stopping[t] = None
  /\ \E i \in toStop[t] :
       /\ toStop' = [toStop EXCEPT ![t] = @ \ {i}]
       /\ stopping' = [stopping EXCEPT ![t] = i]
  /\ UNCHANGED <<engineVars, instVars, scan, toLoad, built, history>>

\* stopWorkflow: close the channel of the next instance (in map order: any) ...
CloseEvents(t) ==
  /\ stopping[t] = None
  /\ \E i \in toStop[t] :
       /\ closed' = [closed EXCEPT ![i] = TRUE]
       /\ toStop' = [toStop EXCEPT ![t] = @ \ {i}]
       /\ stopping' = [stopping EXCEPT ![t] = i]
  /\ UNCHANGED <<engineVars, nameOf, eventCh, run, vm, scan, toLoad, built, history>>

\* Mutated: the Lua state is closed without waiting for the goroutine.
CloseVMEarly(t) ==
  /\ stopping[t] # None
  /\ vm' = [vm EXCEPT ![stopping[t]] = "closed"]
  /\ stopping' = [stopping EXCEPT ![t] = None]
  /\ UNCHANGED <<engineVars, nameOf, eventCh, closed, run, scan, toLoad, built,
                 toStop, history>>

\* ... wait for done, then close the Lua state.
CloseVM(t) ==
  /\ stopping[t] # None
  /\ run[stopping[t]] = "done"
  /\ vm' = [vm EXCEPT ![stopping[t]] = "closed"]
  /\ stopping' = [stopping EXCEPT ![t] = None]
  /\ UNCHANGED <<engineVars, nameOf, eventCh, closed, run, scan, toLoad, built,
                 toStop, history>>

-----------------------------------------------------------------------------
(***************************************************************************)
(* Events.                                                                 *)
(***************************************************************************)

\* Mutated: every open instance is served, not only those of the map.
SelectsOpen(i, src, matched) ==
  /\ Running(i) /\ ~closed[i]
  /\ nameOf[i] # src
  /\ nameOf[i] \in matched

\* Whether handleEvent selects instance i: it is in the map, the event's source
\* is not this very workflow, and one of its patterns matches.  What matches is
\* the environment's choice: `matched' is a set of names.
Selects(i, src, matched) ==
  /\ i \in Loaded
  /\ nameOf[i] # src
  /\ nameOf[i] \in matched

\* The selected instances whose channel has room; the others drop the event.
Takers(src, matched) ==
  {i \in Insts : Selects(i, src, matched) /\ Len(eventCh[i]) < Capacity}

\* handleEvent, under the read lock: a non-blocking send to every selected instance.
HandleEvent(src, matched) ==
  /\ phase = "running" /\ received < MaxEvents
  /\ received' = received + 1
  /\ LET send(i, q) == IF i \in Takers(src, matched) THEN Append(q, received + 1) ELSE q
     IN  /\ eventCh' = [i \in Insts |-> send(i, eventCh[i])]
         /\ accepted' = [i \in Insts |-> send(i, accepted[i])]
  /\ UNCHANGED <<engineVars, nameOf, closed, run, vm, threadVars, handled>>

\* run: receive an event and call its handlers; a closed channel still yields
\* the events it holds.
TakeEvent(i) ==
  /\ run[i] = "select" /\ eventCh[i] # <<>>
  /\ run' = [run EXCEPT ![i] = "event"]
  /\ eventCh' = [eventCh EXCEPT ![i] = Tail(@)]
  /\ handled' = [handled EXCEPT ![i] = Append(@, Head(eventCh[i]))]
  /\ UNCHANGED <<engineVars, nameOf, closed, vm, threadVars, received, accepted>>

\* run: receive a tick of one of the script's schedules and call its handler.
TakeTick(i) ==
  /\ run[i] = "select" /\ nameOf[i] \in Scheduled
  /\ run' = [run EXCEPT ![i] = "tick"]
  /\ UNCHANGED <<engineVars, nameOf, eventCh, closed, vm, threadVars, history>>

\* The handlers returned, failed or were cut off by the handler timeout.
HandlerReturns(i) ==
  /\ run[i] \in {"event", "tick"}
  /\ run' = [run EXCEPT ![i] = "select"]
  /\ UNCHANGED <<engineVars, nameOf, eventCh, closed, vm, threadVars, history>>

\* Mutated: the goroutine ends as soon as it is told to, events left or not.
ExitAtOnce(i) ==
  /\ run[i] = "select" /\ closed[i]
  /\ run' = [run EXCEPT ![i] = "done"]
  /\ UNCHANGED <<engineVars, nameOf, eventCh, closed, vm, threadVars, history>>

\* run: the channel is closed and empty; close(done).
Exit(i) ==
  /\ run[i] = "select" /\ closed[i] /\ eventCh[i] = <<>>
  /\ run' = [run EXCEPT ![i] = "done"]
  /\ UNCHANGED <<engineVars, nameOf, eventCh, closed, vm, threadVars, history>>

-----------------------------------------------------------------------------
Call(t) ==
  \/ Start(t) \/ BeginLoadDir(t) \/ ReloadAll(t) \/ Stop(t)
  \/ \E n \in Names : Unload(t, n)

\* The steps a goroutine takes once it is inside a call.
Continue(t) ==
  \/ ReadDir(t) \/ Swap(t) \/ CloseEvents(t) \/ CloseVM(t)
  \/ \E n \in Names : LoadFails(t, n)

Runner(i) == TakeEvent(i) \/ TakeTick(i) \/ HandlerReturns(i) \/ Exit(i)

Deliver == \E src \in Names \cup {None}, matched \in SUBSET Names : HandleEvent(src, matched)

Next ==
  \/ \E t \in Threads : Call(t) \/ Continue(t)
  \/ \E t \in Threads, n \in Names : Build(t, n)
  \/ \E i \in Insts : Runner(i)
  \/ Deliver

Spec == Init /\ [][Next]_vars

(***************************************************************************)
(* A goroutine inside a call keeps running, and so does a handler, which   *)
(* the handler timeout cuts off.  The receives need strong fairness: select *)
(* chooses uniformly among its ready cases, so a channel that is ready     *)
(* again and again is served although ticks keep coming.                   *)
(***************************************************************************)
Fairness ==
  /\ \A t \in Threads : WF_vars(Continue(t))
  /\ \A i \in Insts : /\ WF_vars(HandlerReturns(i))
                       /\ SF_vars(TakeEvent(i))
                       /\ SF_vars(Exit(i))

FairSpec == Spec /\ Fairness

-----------------------------------------------------------------------------
(***************************************************************************)
(* Safety.                                                                 *)
(***************************************************************************)

\* handleEvent never sends on a closed channel, which would panic in the NATS
\* callback: an instance is taken from the map before its channel is closed.
NoSendOnClosed == \A i \in Loaded : ~closed[i] /\ Running(i)

\* stopWorkflow never closes a channel twice (a panic), however many reloads,
\* unloads and stops overlap: an instance is one goroutine's to stop.
NoDoubleClose ==
  \A t \in Threads : \A i \in toStop[t] :
    /\ ~closed[i]
    /\ \A u \in Threads \ {t} : i \notin toStop[u]

\* The two panics that overlapping calls of the engine could cause, in the callback of
\* NATS and in stopWorkflow: either would end the daemon.
NoPanic == NoSendOnClosed /\ NoDoubleClose

\* No Lua code runs in a closed VM: L.Close comes after the goroutine's end.
NoHandlerInClosedVM == \A i \in Insts : vm[i] = "closed" => run[i] = "done"

\* What a channel accepted is handled exactly once and in order, and a
\* goroutine that ends, because its workflow was replaced, unloaded or stopped,
\* leaves nothing behind in its channel.
NothingLost ==
  \A i \in Insts :
    /\ accepted[i] = handled[i] \o eventCh[i]
    /\ run[i] = "done" => eventCh[i] = <<>>

\* Across a reload the instances of one workflow share no event, and one of any
\* two has accepted only events older than those of the other: no event goes to
\* the old version after the new one took over, none goes to both.
Before(i, j) ==
  \A a \in DOMAIN accepted[i], b \in DOMAIN accepted[j] : accepted[i][a] < accepted[j][b]

HandOver ==
  \A i, j \in Insts : i # j /\ nameOf[i] = nameOf[j] => Before(i, j) \/ Before(j, i)

\* No instance leaks: one that still runs with its channel open can be reached,
\* through the map or as the unfinished business of a goroutine.
Reachable(i) ==
  \/ i \in Loaded
  \/ \E t \in Threads : built[t] = i \/ i \in toStop[t]

NoLeak == \A i \in Insts : Running(i) /\ ~closed[i] => Reachable(i)

-----------------------------------------------------------------------------
(***************************************************************************)
(* Liveness, under FairSpec.                                               *)
(***************************************************************************)

\* An accepted event is handled, even if its instance is being stopped.
EventsHandled ==
  \A i \in Insts : \A k \in 1..MaxEvents :
    Len(accepted[i]) >= k ~> Len(handled[i]) >= k

\* LoadWorkflow, UnloadWorkflow, ReloadAll and Stop return: nobody waits for
\* ever for a goroutine's done, and the taken instances end with a closed VM.
CallsReturn ==
  /\ \A t \in Threads : []<>Idle(t)
  /\ \A i \in Insts : closed[i] ~> vm[i] = "closed"

\* The comment of Stop: it "stops all workflow goroutines, and closes all
\* LStates".  Violated: a LoadWorkflow that is under way when Stop takes the map,
\* or that the watcher, which Stop leaves running, starts later, installs an
\* instance that nothing stops.
StopStopsAll == phase = "stopped" ~> \A i \in Insts : ~Running(i)

-----------------------------------------------------------------------------
(***************************************************************************)
(* What the engine promises, one instance at a time: see Mailbox.          *)
(***************************************************************************)
Life(i) ==
  IF run[i] = "none" THEN "absent"
  ELSE IF vm[i] = "closed" THEN "gone"
  ELSE IF i \in Loaded THEN "serving"
  ELSE IF \E t \in Threads : built[t] = i THEN "standby"
  ELSE "draining"

Promise == INSTANCE Mailbox WITH
  life <- [i \in Insts |-> Life(i)], owner <- nameOf, queue <- eventCh, log <- handled

\* Every behaviour of the engine is one of the mailboxes.
ImplementsMailbox == Promise!Spec
=============================================================================
