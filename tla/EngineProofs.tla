---------------------------- MODULE EngineProofs ----------------------------
(***************************************************************************)
(* Proofs about Engine, for any number of workflows, instances and         *)
(* goroutines, any channel capacity and any number of events.              *)
(***************************************************************************)
EXTENDS Engine, SequenceTheorems, TLAPS

-----------------------------------------------------------------------------
(***************************************************************************)
(* Type correctness.                                                       *)
(***************************************************************************)

\* LoadWorkflow knows the name of what it built: Swap writes the entry of a
\* workflow, so that the map keeps its type.
TypeInv ==
  /\ TypeOK
  /\ \A t \in Threads : built[t] # None => nameOf[built[t]] \in Names

\* The inductive form of type correctness.
THEOREM TypeCorrect == Spec => []TypeInv
<1> USE NoneAssumption, CapacityAssumption, MaxEventsAssumption DEF TypeOK, TypeInv, RunState
<1>1. Init => TypeInv
  BY DEF Init
<1>2. TypeInv /\ [Next]_vars => TypeInv'
  <2> SUFFICES ASSUME TypeInv, [Next]_vars PROVE TypeInv'
    OBVIOUS
  <2> USE DEF engineVars, instVars, threadVars, history
  <2>1. ASSUME NEW t \in Threads, Call(t) PROVE TypeInv'
    <3>1. CASE Start(t)
      BY <3>1 DEF Start
    <3>2. CASE BeginLoadDir(t)
      BY <3>2 DEF BeginLoadDir
    <3>3. CASE ReloadAll(t)
      BY <3>3 DEF ReloadAll, Loaded
    <3>4. CASE Stop(t)
      BY <3>4 DEF Stop, Loaded
    <3>5. ASSUME NEW n \in Names, Unload(t, n) PROVE TypeInv'
      BY <3>5 DEF Unload
    <3> QED
      BY <2>1, <3>1, <3>2, <3>3, <3>4, <3>5 DEF Call
  <2>2. ASSUME NEW t \in Threads, Continue(t) PROVE TypeInv'
    <3>1. CASE ReadDir(t)
      BY <3>1 DEF ReadDir
    <3>2. CASE Swap(t)
      BY <3>2 DEF Swap
    <3>3. CASE CloseEvents(t)
      BY <3>3 DEF CloseEvents
    <3>4. CASE CloseVM(t)
      BY <3>4 DEF CloseVM
    <3>5. ASSUME NEW n \in Names, LoadFails(t, n) PROVE TypeInv'
      BY <3>5 DEF LoadFails
    <3> QED
      BY <2>2, <3>1, <3>2, <3>3, <3>4, <3>5 DEF Continue
  <2>3. ASSUME NEW t \in Threads, NEW n \in Names, Build(t, n) PROVE TypeInv'
    BY <2>3 DEF Build
  <2>4. ASSUME NEW i \in Insts, Runner(i) PROVE TypeInv'
    <3>1. CASE TakeEvent(i)
      <4>1. Head(eventCh[i]) \in 1..MaxEvents /\ Tail(eventCh[i]) \in Seq(1..MaxEvents)
        BY <3>1 DEF TakeEvent
      <4> QED
        BY <3>1, <4>1 DEF TakeEvent
    <3>2. CASE TakeTick(i)
      BY <3>2 DEF TakeTick
    <3>3. CASE HandlerReturns(i)
      BY <3>3 DEF HandlerReturns
    <3>4. CASE Exit(i)
      BY <3>4 DEF Exit
    <3> QED
      BY <2>4, <3>1, <3>2, <3>3, <3>4 DEF Runner
  <2>5. ASSUME NEW src, NEW matched, HandleEvent(src, matched) PROVE TypeInv'
    <3>1. received + 1 \in 1..MaxEvents
      BY <2>5 DEF HandleEvent
    <3>2. ASSUME NEW q \in Seq(1..MaxEvents) PROVE Append(q, received + 1) \in Seq(1..MaxEvents)
      BY <3>1
    <3>3. eventCh' \in [Insts -> Seq(1..MaxEvents)]
      <4>1. eventCh' = [i \in Insts |-> IF i \in Takers(src, matched)
                                       THEN Append(eventCh[i], received + 1) ELSE eventCh[i]]
        BY <2>5 DEF HandleEvent
      <4> QED
        BY <4>1, <3>2
    <3>4. accepted' \in [Insts -> Seq(1..MaxEvents)]
      <4>1. accepted' = [i \in Insts |-> IF i \in Takers(src, matched)
                                        THEN Append(accepted[i], received + 1) ELSE accepted[i]]
        BY <2>5 DEF HandleEvent
      <4> QED
        BY <4>1, <3>2
    <3> QED
      BY <2>5, <3>1, <3>3, <3>4 DEF HandleEvent
  <2>6. CASE UNCHANGED vars
    BY <2>6 DEF vars
  <2> QED
    BY <2>1, <2>2, <2>3, <2>4, <2>5, <2>6 DEF Next, Deliver
<1> QED
  BY <1>1, <1>2, PTL DEF Spec

\* The variables keep their types: in particular toStop and stopping hold
\* instances, so stopWorkflow is never called with nil.
THEOREM TypeOKHolds == Spec => []TypeOK
<1>1. TypeInv => TypeOK
  BY DEF TypeInv
<1> QED
  BY <1>1, TypeCorrect, PTL

-----------------------------------------------------------------------------
(***************************************************************************)
(* The life of an instance.  It is built by one goroutine, put in the map, *)
(* taken from the map by one goroutine, closed and waited for by that      *)
(* goroutine: at each moment it has one owner, and who owns it tells how   *)
(* far its channel and its VM are.                                         *)
(***************************************************************************)
Live(i) == Running(i) /\ ~closed[i] /\ vm[i] = "open"

\* What the state of the goroutine says about the VM and the channel.
StageInv ==
  \A i \in Insts :
    /\ run[i] = "none" => vm[i] = "absent" /\ ~closed[i] /\ nameOf[i] = None
    /\ run[i] # "none" => nameOf[i] \in Names
    /\ vm[i] = "closed" => run[i] = "done"
    /\ run[i] = "done" => closed[i]

\* The map holds live instances, each under its own name.
MapInv ==
  \A n \in Names : workflows[n] # None => Live(workflows[n]) /\ nameOf[workflows[n]] = n

\* A goroutine has nothing to stop while it holds an instance it built; what it
\* built and what it has to stop is live and out of the map.
BuiltInv ==
  \A t \in Threads : built[t] # None =>
    Live(built[t]) /\ built[t] \notin Loaded /\ toStop[t] = {} /\ stopping[t] = None

ToStopInv ==
  \A t \in Threads : \A i \in toStop[t] : Live(i) /\ i \notin Loaded

StoppingInv ==
  \A t \in Threads : stopping[t] # None =>
    closed[stopping[t]] /\ vm[stopping[t]] = "open" /\ run[stopping[t]] # "none"

\* No two goroutines own the same instance.
Disjoint ==
  \A t, u \in Threads : t # u =>
    /\ built[t] # None => built[t] # built[u] /\ built[t] \notin toStop[u]
    /\ toStop[t] \cap toStop[u] = {}
    /\ stopping[t] # None => stopping[t] # stopping[u]

OwnerInv == StageInv /\ MapInv /\ BuiltInv /\ ToStopInv /\ StoppingInv /\ Disjoint

\* One step keeps the owners apart.
LEMMA OwnerStep == TypeInv /\ OwnerInv /\ [Next]_vars => OwnerInv'
<1> SUFFICES ASSUME TypeInv, OwnerInv, [Next]_vars PROVE OwnerInv'
  OBVIOUS
<1> USE NoneAssumption DEF TypeInv, TypeOK, RunState, Live, Running, Loaded
<1> USE DEF engineVars, instVars, threadVars, history
<1> USE DEF OwnerInv, StageInv, MapInv, BuiltInv, ToStopInv, StoppingInv, Disjoint
<1>1. ASSUME NEW t \in Threads, NEW n \in Names, Build(t, n) PROVE OwnerInv'
  <2>1. PICK i \in Insts : /\ run[i] = "none"
                           /\ run' = [run EXCEPT ![i] = "select"]
                           /\ vm' = [vm EXCEPT ![i] = "open"]
                           /\ nameOf' = [nameOf EXCEPT ![i] = n]
                           /\ built' = [built EXCEPT ![t] = i]
    BY <1>1 DEF Build
  <2>2. \* Nobody owns an instance that was not built yet.
        /\ i \notin Loaded
        /\ \A u \in Threads : built[u] # i /\ stopping[u] # i /\ i \notin toStop[u]
    BY <2>1
  <2>3. StageInv'
    BY <1>1, <2>1 DEF Build
  <2>4. MapInv' /\ ToStopInv' /\ StoppingInv'
    BY <1>1, <2>1, <2>2 DEF Build
  <2>5. BuiltInv'
    BY <1>1, <2>1, <2>2 DEF Build, Free
  <2>6. Disjoint'
    BY <1>1, <2>1, <2>2 DEF Build
  <2> QED
    BY <2>3, <2>4, <2>5, <2>6
<1>2. ASSUME NEW t \in Threads, Swap(t) PROVE OwnerInv'
  BY <1>2 DEF Swap
<1>3. ASSUME NEW t \in Threads, NEW n \in Names, Unload(t, n) PROVE OwnerInv'
  BY <1>3 DEF Unload, Idle, Free
<1>4. ASSUME NEW t \in Threads, ReloadAll(t) \/ Stop(t) PROVE OwnerInv'
  <2>1. /\ toStop' = [toStop EXCEPT ![t] = Loaded] /\ workflows' = [n \in Names |-> None]
        /\ UNCHANGED <<instVars, built, stopping>>
    BY <1>4 DEF ReloadAll, Stop
  <2>2. built[t] = None /\ stopping[t] = None
    BY <1>4 DEF ReloadAll, Stop, Idle, Free
  <2>3. Loaded' = {} /\ \A i \in Loaded : i \in Insts /\ Live(i)
    BY <2>1
  <2>4. StageInv' /\ MapInv' /\ StoppingInv'
    BY <2>1
  <2>5. BuiltInv'
    BY <2>1, <2>2, <2>3
  <2>6. ToStopInv'
    BY <2>1, <2>3
  <2>7. Disjoint'
    BY <2>1, <2>2
  <2> QED
    BY <2>4, <2>5, <2>6, <2>7
<1>5. ASSUME NEW t \in Threads, CloseEvents(t) PROVE OwnerInv'
  BY <1>5 DEF CloseEvents
<1>6. ASSUME NEW t \in Threads, CloseVM(t) PROVE OwnerInv'
  BY <1>6 DEF CloseVM
<1>7. ASSUME NEW i \in Insts, Runner(i) PROVE OwnerInv'
  BY <1>7 DEF Runner, TakeEvent, TakeTick, HandlerReturns, Exit
<1>8. CASE \E t \in Threads : \/ Start(t) \/ BeginLoadDir(t) \/ ReadDir(t)
                              \/ \E n \in Names : LoadFails(t, n)
  BY <1>8 DEF Start, BeginLoadDir, ReadDir, LoadFails
<1>9. CASE Deliver
  BY <1>9 DEF Deliver, HandleEvent
<1>10. CASE UNCHANGED vars
  BY <1>10 DEF vars
<1> QED
  BY <1>1, <1>2, <1>3, <1>4, <1>5, <1>6, <1>7, <1>8, <1>9, <1>10 DEF Next, Call, Continue

\* What is built or to be stopped has one owner and is out of the map, which holds live
\* instances only.
THEOREM OwnerInvariant == Spec => []OwnerInv
<1>1. Init => OwnerInv
  BY NoneAssumption DEF Init, OwnerInv, StageInv, MapInv, BuiltInv, ToStopInv, StoppingInv, Disjoint
<1> QED
  BY <1>1, TypeCorrect, OwnerStep, PTL DEF Spec

\* No send on a closed channel, and no double close: the engine's goroutines
\* never panic on an event channel, however its calls overlap with one another
\* and with the events.
THEOREM NoSendOnClosedHolds == Spec => []NoSendOnClosed
<1>1. OwnerInv => NoSendOnClosed
  BY DEF OwnerInv, MapInv, Live, Loaded, NoSendOnClosed
<1> QED
  BY <1>1, OwnerInvariant, PTL

\* No instance is closed twice, by whatever mixture of reloads, unloads and Stop
\* (UnloadWorkflow, reloadWorkflow, Stop).
THEOREM NoDoubleCloseHolds == Spec => []NoDoubleClose
<1>1. TypeInv /\ OwnerInv => NoDoubleClose
  BY DEF TypeInv, TypeOK, OwnerInv, ToStopInv, Disjoint, Live, NoDoubleClose
<1> QED
  BY <1>1, TypeCorrect, OwnerInvariant, PTL

\* Both: no overlap of calls, and no event in between, ends the daemon.
THEOREM NoPanicHolds == Spec => []NoPanic
<1>1. NoSendOnClosed /\ NoDoubleClose => NoPanic
  BY DEF NoPanic
<1> QED
  BY <1>1, NoSendOnClosedHolds, NoDoubleCloseHolds, PTL

\* A VM is closed only after the goroutine that runs its handlers has ended.
THEOREM NoHandlerInClosedVMHolds == Spec => []NoHandlerInClosedVM
<1>1. OwnerInv => NoHandlerInClosedVM
  BY DEF OwnerInv, StageInv, NoHandlerInClosedVM
<1> QED
  BY <1>1, OwnerInvariant, PTL

\* Every running instance with an open channel can still be reached by the map
\* or by the goroutine that has to install or to stop it.
THEOREM NoLeakHolds == Spec => []NoLeak
<1>1. Init => NoLeak
  BY DEF Init, NoLeak, Running
<1>2. TypeInv /\ OwnerInv /\ NoLeak /\ [Next]_vars => NoLeak'
  <2> SUFFICES ASSUME TypeInv, OwnerInv, NoLeak, [Next]_vars,
                      NEW j \in Insts, Running(j)', ~closed'[j]
               PROVE  Reachable(j)'
    BY DEF NoLeak
  <2> USE NoneAssumption DEF TypeInv, TypeOK, RunState, Running, Loaded
  <2> USE DEF engineVars, instVars, threadVars, history
  <2>1. ASSUME NEW t \in Threads, NEW n \in Names, Build(t, n) PROVE Reachable(j)'
    <3>1. PICK i \in Insts : /\ run' = [run EXCEPT ![i] = "select"]
                             /\ built' = [built EXCEPT ![t] = i]
      BY <2>1 DEF Build
    <3>2. CASE j = i
      BY <3>1, <3>2 DEF Reachable
    <3>3. CASE j # i
      <4>1. Reachable(j)
        BY <2>1, <3>1, <3>3 DEF Build, NoLeak
      <4> QED
        BY <2>1, <3>1, <4>1 DEF Build, Free, Reachable
    <3> QED
      BY <3>2, <3>3
  <2>2. ASSUME ~(\E t \in Threads, n \in Names : Build(t, n)) PROVE Running(j) /\ ~closed[j]
    BY <2>2 DEF Next, Call, Continue, Deliver, Runner, vars, Start, BeginLoadDir, ReadDir, LoadFails,
      Swap, Unload, ReloadAll, Stop, CloseEvents, CloseVM, HandleEvent, TakeEvent, TakeTick,
      HandlerReturns, Exit
  <2>3. ASSUME Reachable(j), NEW t \in Threads, Swap(t) PROVE Reachable(j)'
    <3> DEFINE n == nameOf[built[t]]
    <3>1. n \in Names
      BY <2>3 DEF Swap
    <3>2. /\ toStop' = [toStop EXCEPT ![t] = {workflows[n]} \ {None}]
          /\ workflows' = [workflows EXCEPT ![n] = built[t]]
          /\ built' = [built EXCEPT ![t] = None]
      BY <2>3 DEF Swap
    <3>3. toStop[t] = {}
      BY <2>3 DEF Swap, OwnerInv, BuiltInv
    <3>4. CASE j = built[t]
      BY <3>1, <3>2, <3>4 DEF Reachable
    <3>5. CASE j = workflows[n]
      BY <3>2, <3>5 DEF Reachable
    <3>6. CASE j # built[t] /\ j # workflows[n]
      BY <2>3, <3>2, <3>3, <3>6 DEF Reachable
    <3> QED
      BY <3>4, <3>5, <3>6
  <2>4. ASSUME Reachable(j), NEW t \in Threads, NEW n \in Names, Unload(t, n) PROVE Reachable(j)'
    BY <2>4 DEF Unload, Idle, Free, Reachable
  <2>5. ASSUME Reachable(j), NEW t \in Threads, ReloadAll(t) \/ Stop(t) PROVE Reachable(j)'
    <3>1. toStop' = [toStop EXCEPT ![t] = Loaded] /\ built' = built /\ toStop[t] = {}
      BY <2>5 DEF ReloadAll, Stop, Idle, Free
    <3> QED
      BY <2>5, <3>1 DEF Reachable
  <2>6. ASSUME Reachable(j), ~closed[j], NEW t \in Threads, CloseEvents(t) PROVE Reachable(j)'
    <3>1. PICK i \in toStop[t] : /\ closed' = [closed EXCEPT ![i] = TRUE]
                                 /\ toStop' = [toStop EXCEPT ![t] = @ \ {i}]
                                 /\ UNCHANGED <<workflows, built>>
      BY <2>6 DEF CloseEvents
    <3>2. j # i
      BY <3>1
    <3> QED
      BY <2>6, <3>1, <3>2 DEF Reachable
  <2>7. ASSUME Reachable(j), UNCHANGED <<workflows, built, toStop>> PROVE Reachable(j)'
    BY <2>7 DEF Reachable
  <2> QED
    <3>1. CASE \E t \in Threads, n \in Names : Build(t, n)
      BY <2>1, <3>1
    <3>2. CASE ~(\E t \in Threads, n \in Names : Build(t, n))
      <4>1. Reachable(j) /\ ~closed[j]
        BY <2>2, <3>2 DEF NoLeak
      <4>2. \/ UNCHANGED <<workflows, built, toStop>>
            \/ \E t \in Threads : \/ Swap(t) \/ ReloadAll(t) \/ Stop(t) \/ CloseEvents(t)
                                  \/ \E n \in Names : Unload(t, n)
        BY <3>2 DEF Next, Call, Continue, Deliver, Runner, vars, Start, BeginLoadDir, ReadDir,
          LoadFails, CloseVM, HandleEvent, TakeEvent, TakeTick, HandlerReturns, Exit
      <4> QED
        BY <2>3, <2>4, <2>5, <2>6, <2>7, <4>1, <4>2
    <3> QED
      BY <3>1, <3>2
<1> QED
  BY <1>1, <1>2, TypeCorrect, OwnerInvariant, PTL DEF Spec

-----------------------------------------------------------------------------
(***************************************************************************)
(* What Stop leaves behind.                                                *)
(***************************************************************************)

\* No LoadWorkflow is between the start of its goroutine and the swap of the map when
\* Stop takes the map, and none gets there later.
QuietStop == [][phase' = "stopped" => \A t \in Threads : built'[t] = None]_vars

\* Once Stop and every other call has returned, no goroutine of a workflow runs.
AllStopped == phase = "stopped" /\ (\A t \in Threads : Idle(t)) => \A i \in Insts : ~Running(i)

\* A closed channel is waited for until its Lua state is closed.
WaitInv ==
  /\ \A i \in Insts : closed[i] /\ vm[i] = "open" => \E t \in Threads : stopping[t] = i
  /\ \A i \in Insts : run[i] # "none" => vm[i] # "absent"

\* The map is empty from Stop on.
EmptyInv == phase = "stopped" => Loaded = {} /\ \A t \in Threads : built[t] = None

\* Every step keeps the waiting goroutines behind the channels they closed.
LEMMA WaitStep == TypeInv /\ OwnerInv /\ WaitInv /\ [Next]_vars => WaitInv'
<1> SUFFICES ASSUME TypeInv, OwnerInv, WaitInv, [Next]_vars PROVE WaitInv'
  OBVIOUS
<1> USE NoneAssumption DEF TypeInv, TypeOK, RunState, WaitInv
<1> USE DEF engineVars, instVars, threadVars, history
<1>1. ASSUME NEW t \in Threads, NEW n \in Names, Build(t, n) PROVE WaitInv'
  <2>1. PICK i \in Insts : /\ run[i] = "none"
                           /\ run' = [run EXCEPT ![i] = "select"]
                           /\ vm' = [vm EXCEPT ![i] = "open"]
    BY <1>1 DEF Build
  <2>2. UNCHANGED <<closed, stopping>> /\ ~closed[i]
    BY <1>1, <2>1 DEF Build, OwnerInv, StageInv
  <2> QED
    BY <2>1, <2>2
<1>2. ASSUME NEW t \in Threads, CloseEvents(t) PROVE WaitInv'
  <2>1. PICK i \in Insts : /\ closed' = [closed EXCEPT ![i] = TRUE]
                           /\ stopping' = [stopping EXCEPT ![t] = i]
    BY <1>2 DEF CloseEvents
  <2>2. stopping[t] = None /\ UNCHANGED <<run, vm>>
    BY <1>2 DEF CloseEvents
  <2> QED
    BY <2>1, <2>2
<1>3. ASSUME NEW t \in Threads, CloseVM(t) PROVE WaitInv'
  BY <1>3 DEF CloseVM
<1>4. ASSUME NEW i \in Insts, Runner(i) PROVE WaitInv'
  BY <1>4 DEF Runner, TakeEvent, TakeTick, HandlerReturns, Exit
<1>5. CASE UNCHANGED <<closed, run, vm, stopping>>
  BY <1>5
<1> QED
  BY <1>1, <1>2, <1>3, <1>4, <1>5
  DEF Next, Call, Continue, Deliver, vars, Start, BeginLoadDir, ReadDir, LoadFails, Swap, Unload,
      ReloadAll, Stop, HandleEvent

\* The run engine_stop refutes the comment of Stop, "stops all workflow goroutines, and
\* closes all LStates".  The load under way is the only reason: if none is there when
\* Stop takes the map and none installs anything later, then nothing runs any more as
\* soon as the calls of the engine have returned, Stop among them.
THEOREM QuietStopStopsAll == Spec /\ QuietStop => []AllStopped
<1>1. Init => WaitInv /\ EmptyInv
  BY DEF Init, WaitInv, EmptyInv
<1>2. /\ TypeInv /\ EmptyInv /\ [Next]_vars
      /\ [phase' = "stopped" => \A t \in Threads : built'[t] = None]_vars
      => EmptyInv'
  <2> SUFFICES ASSUME TypeInv, EmptyInv, [Next]_vars, phase' = "stopped",
                      [phase' = "stopped" => \A t \in Threads : built'[t] = None]_vars
               PROVE  Loaded' = {} /\ \A t \in Threads : built'[t] = None
    BY DEF EmptyInv
  <2>1. \A t \in Threads : built'[t] = None
    BY DEF vars, EmptyInv
  <2>2. ASSUME NEW t \in Threads, ReloadAll(t) \/ Stop(t) PROVE Loaded' = {}
    BY <2>2 DEF ReloadAll, Stop, Loaded
  <2>3. ASSUME NEW t \in Threads, NEW n \in Names, Unload(t, n) PROVE Loaded' = {}
    BY <2>3 DEF Unload, Loaded, EmptyInv, TypeInv, TypeOK
  <2>4. ASSUME UNCHANGED <<phase, workflows>> PROVE Loaded' = {}
    BY <2>4 DEF EmptyInv, Loaded
  <2>5. \/ UNCHANGED <<phase, workflows>>
        \/ \E t \in Threads : ReloadAll(t) \/ Stop(t) \/ Start(t) \/ Swap(t)
                              \/ \E n \in Names : Unload(t, n)
    BY DEF Next, Call, Continue, Deliver, Runner, vars, engineVars, BeginLoadDir, ReadDir, LoadFails,
           Build, CloseEvents, CloseVM, HandleEvent, TakeEvent, TakeTick, HandlerReturns, Exit
  <2>6. ASSUME NEW t \in Threads PROVE ~Start(t) /\ ~Swap(t)
    BY DEF Start, Swap, EmptyInv
  <2>7. Loaded' = {}
    BY <2>2, <2>3, <2>4, <2>5, <2>6, Zenon
  <2> QED
    BY <2>1, <2>7
<1>3. TypeInv /\ OwnerInv /\ NoLeak /\ WaitInv /\ EmptyInv => AllStopped
  <2> SUFFICES ASSUME TypeInv, OwnerInv, NoLeak, WaitInv, EmptyInv, phase = "stopped",
                      \A t \in Threads : Idle(t), NEW i \in Insts, Running(i)
               PROVE  FALSE
    BY DEF AllStopped
  <2>1. \A t \in Threads : built[t] = None /\ toStop[t] = {} /\ stopping[t] = None
    BY DEF Idle, Free
  <2>2. i # None
    BY NoneAssumption
  <2>3. CASE ~closed[i]
    BY <2>1, <2>2, <2>3 DEF NoLeak, Reachable, EmptyInv
  <2>4. CASE closed[i]
    BY <2>1, <2>2, <2>4 DEF TypeInv, TypeOK, WaitInv, OwnerInv, StageInv, Running
  <2> QED
    BY <2>3, <2>4 DEF TypeInv, TypeOK
<1> QED
  BY <1>1, <1>2, <1>3, WaitStep, TypeCorrect, OwnerInvariant, NoLeakHolds, PTL DEF Spec, QuietStop

-----------------------------------------------------------------------------
(***************************************************************************)
(* What happens to events.                                                 *)
(***************************************************************************)

\* Receiving moves the oldest event of a queue to the end of the log.
LEMMA MoveHead ==
  ASSUME NEW S, NEW h \in Seq(S), NEW q \in Seq(S), q # <<>>
  PROVE  Append(h, Head(q)) \o Tail(q) = h \o q
<1>1. Head(q) \in S /\ Tail(q) \in Seq(S) /\ q = <<Head(q)>> \o Tail(q)
  BY HeadTailProperties
<1>2. Append(h, Head(q)) = h \o <<Head(q)>>
  BY <1>1, AppendIsConcat
<1>3. (h \o <<Head(q)>>) \o Tail(q) = h \o (<<Head(q)>> \o Tail(q))
  BY <1>1, ConcatAssociative
<1> QED
  BY <1>1, <1>2, <1>3

\* Sending adds the event at the end of the queue and of what was accepted.
LEMMA SendAtEnd ==
  ASSUME NEW S, NEW h \in Seq(S), NEW q \in Seq(S), NEW e \in S
  PROVE  Append(h \o q, e) = h \o Append(q, e)
<1>1. Append(q, e) = q \o <<e>> /\ Append(h \o q, e) = (h \o q) \o <<e>>
  BY AppendIsConcat, ConcatProperties
<1>2. (h \o q) \o <<e>> = h \o (q \o <<e>>)
  BY ConcatAssociative
<1> QED
  BY <1>1, <1>2

\* An element of a longer sequence is one it had before or the new one.
LEMMA AppendElements ==
  ASSUME NEW S, NEW q \in Seq(S), NEW e \in S, NEW k \in DOMAIN Append(q, e)
  PROVE  (k \in DOMAIN q /\ Append(q, e)[k] = q[k]) \/ Append(q, e)[k] = e
BY AppendProperties, LenProperties

\* What the event callback does to the channel and the history of an instance.
LEMMA SendEffect ==
  ASSUME TypeInv, NEW src, NEW matched, HandleEvent(src, matched), NEW i \in Insts
  PROVE  /\ received + 1 \in 1..MaxEvents /\ received' = received + 1
         /\ \/ /\ i \in Loaded
               /\ eventCh'[i] = Append(eventCh[i], received + 1)
               /\ accepted'[i] = Append(accepted[i], received + 1)
            \/ eventCh'[i] = eventCh[i] /\ accepted'[i] = accepted[i]
<1>1. received + 1 \in 1..MaxEvents /\ received' = received + 1
  BY MaxEventsAssumption DEF TypeInv, TypeOK, HandleEvent
<1>2. i \in Takers(src, matched) => i \in Loaded
  BY DEF Takers, Selects
<1>3. /\ eventCh'[i] = IF i \in Takers(src, matched) THEN Append(eventCh[i], received + 1) ELSE eventCh[i]
      /\ accepted'[i] = IF i \in Takers(src, matched) THEN Append(accepted[i], received + 1) ELSE accepted[i]
  BY DEF HandleEvent
<1> QED
  BY <1>1, <1>2, <1>3

\* Every accepted event is handled exactly once, in order, and a goroutine that
\* ends has emptied its channel.
THEOREM NothingLostHolds == Spec => []NothingLost
<1>1. Init => NothingLost
  BY DEF Init, NothingLost
<1>2. TypeInv /\ OwnerInv /\ NothingLost /\ [Next]_vars => NothingLost'
  <2> SUFFICES ASSUME TypeInv, OwnerInv, NothingLost, [Next]_vars, NEW j \in Insts
               PROVE  /\ accepted'[j] = handled'[j] \o eventCh'[j]
                      /\ run'[j] = "done" => eventCh'[j] = <<>>
    BY DEF NothingLost
  <2>1. /\ accepted[j] = handled[j] \o eventCh[j]
        /\ run[j] = "done" => eventCh[j] = <<>> /\ closed[j]
        /\ handled[j] \in Seq(1..MaxEvents) /\ eventCh[j] \in Seq(1..MaxEvents)
    BY DEF NothingLost, OwnerInv, StageInv, TypeInv, TypeOK
  <2>2. ASSUME NEW i \in Insts, TakeEvent(i)
        PROVE  /\ accepted'[j] = handled'[j] \o eventCh'[j]
               /\ run'[j] = "done" => eventCh'[j] = <<>>
    <3>1. CASE i = j
      <4>1. /\ eventCh[j] # <<>> /\ accepted'[j] = accepted[j] /\ run'[j] = "event"
            /\ eventCh'[j] = Tail(eventCh[j]) /\ handled'[j] = Append(handled[j], Head(eventCh[j]))
        BY <2>2, <3>1 DEF TakeEvent, TypeInv, TypeOK
      <4>2. Append(handled[j], Head(eventCh[j])) \o Tail(eventCh[j]) = handled[j] \o eventCh[j]
        BY <2>1, <4>1, MoveHead
      <4> QED
        BY <2>1, <4>1, <4>2
    <3>2. CASE i # j
      BY <2>1, <2>2, <3>2 DEF TakeEvent, TypeInv, TypeOK
    <3> QED
      BY <3>1, <3>2
  <2>3. ASSUME NEW src, NEW matched, HandleEvent(src, matched)
        PROVE  /\ accepted'[j] = handled'[j] \o eventCh'[j]
               /\ run'[j] = "done" => eventCh'[j] = <<>>
    <3>1. handled'[j] = handled[j] /\ run'[j] = run[j]
      BY <2>3 DEF HandleEvent
    <3>2. CASE eventCh'[j] = eventCh[j] /\ accepted'[j] = accepted[j]
      BY <2>1, <3>1, <3>2
    <3>3. CASE /\ j \in Loaded
               /\ eventCh'[j] = Append(eventCh[j], received + 1)
               /\ accepted'[j] = Append(accepted[j], received + 1)
      <4>1. run[j] # "done"
        BY <3>3 DEF OwnerInv, MapInv, Live, Running, Loaded
      <4>2. Append(handled[j] \o eventCh[j], received + 1) = handled[j] \o Append(eventCh[j], received + 1)
        <5>1. received + 1 \in 1..MaxEvents
          BY <2>3, SendEffect
        <5> QED
          BY <2>1, <5>1, SendAtEnd
      <4> QED
        BY <2>1, <3>1, <3>3, <4>1, <4>2
    <3> QED
      BY <2>3, <3>2, <3>3, SendEffect
  <2>4. CASE UNCHANGED <<eventCh, accepted, handled>>
    <3>1. run'[j] = "done" => run[j] = "done" \/ eventCh[j] = <<>>
      BY <2>4, <2>1 DEF Next, Call, Continue, Deliver, Runner, vars, instVars, threadVars, Start,
        BeginLoadDir, ReadDir, LoadFails, Build, Swap, Unload, ReloadAll, Stop, CloseEvents, CloseVM,
        HandleEvent, TakeEvent, TakeTick, HandlerReturns, Exit, TypeInv, TypeOK
    <3> QED
      BY <2>1, <2>4, <3>1
  <2> QED
    BY <2>2, <2>3, <2>4 DEF Next, Call, Continue, Deliver, Runner, vars, instVars, history, Start,
      BeginLoadDir, ReadDir, LoadFails, Build, Swap, Unload, ReloadAll, Stop, CloseEvents, CloseVM,
      TakeTick, HandlerReturns, Exit
<1> QED
  BY <1>1, <1>2, TypeCorrect, OwnerInvariant, PTL DEF Spec

\* Events are numbered in the order of their delivery: nothing was accepted that
\* is newer than the last one, nothing by an instance that never was in the map,
\* and an instance of the map is the last of its name to have accepted.
OrderInv ==
  /\ \A i \in Insts : \A k \in DOMAIN accepted[i] : accepted[i][k] <= received
  /\ \A i \in Insts : run[i] = "none" => accepted[i] = <<>>
  /\ \A t \in Threads : built[t] # None => accepted[built[t]] = <<>>
  /\ \A i \in Loaded, j \in Insts : i # j /\ nameOf[i] = nameOf[j] => Before(j, i)

\* An instance of the map is the last of its name to have accepted an event.
LEMMA OrderInvariant == Spec => [](OrderInv /\ HandOver)
<1> USE NoneAssumption, MaxEventsAssumption
<1>1. Init => OrderInv /\ HandOver
  BY DEF Init, OrderInv, HandOver, Before, Loaded
<1>2. TypeInv /\ OwnerInv /\ OrderInv /\ HandOver /\ [Next]_vars => OrderInv' /\ HandOver'
  <2> SUFFICES ASSUME TypeInv, OwnerInv, OrderInv, HandOver, [Next]_vars
               PROVE  OrderInv' /\ HandOver'
    OBVIOUS
  <2> USE DEF engineVars, instVars, threadVars, history
  <2>1. ASSUME NEW src, NEW matched, HandleEvent(src, matched) PROVE OrderInv' /\ HandOver'
    <3>1. UNCHANGED <<workflows, nameOf, run, built>>
      BY <2>1 DEF HandleEvent
    <3>2. Loaded' = Loaded /\ Loaded \subseteq Insts
      BY <3>1 DEF Loaded, TypeInv, TypeOK
    <3>3. \* Whatever is new in an instance is the new event, and the instance is loaded.
          ASSUME NEW i \in Insts, NEW k \in DOMAIN accepted'[i]
          PROVE  \/ k \in DOMAIN accepted[i] /\ accepted'[i][k] = accepted[i][k]
                 \/ i \in Loaded /\ accepted'[i][k] = received + 1
      <4>1. accepted[i] \in Seq(1..MaxEvents) /\ received + 1 \in 1..MaxEvents
        BY <2>1, SendEffect DEF TypeInv, TypeOK
      <4>2. CASE i \in Loaded /\ accepted'[i] = Append(accepted[i], received + 1)
        BY <4>1, <4>2, AppendElements
      <4>3. CASE accepted'[i] = accepted[i]
        BY <4>3
      <4> QED
        BY <2>1, <4>2, <4>3, SendEffect
    <3>4. received \in Nat /\ received' = received + 1
      BY <2>1 DEF HandleEvent, TypeInv, TypeOK
    <3>5. ASSUME NEW i \in Insts, NEW k \in DOMAIN accepted[i]
          PROVE  accepted[i][k] \in Nat /\ accepted[i][k] <= received
      BY DEF OrderInv, TypeInv, TypeOK
    <3>6. ASSUME NEW i \in Insts, NEW k \in DOMAIN accepted'[i] PROVE accepted'[i][k] <= received'
      BY <3>3, <3>4, <3>5
    <3>7. ASSUME NEW i \in Insts, i \notin Loaded PROVE accepted'[i] = accepted[i]
      BY <2>1, <3>7, SendEffect
    <3>8. ASSUME NEW i \in Loaded, NEW j \in Insts, i # j, nameOf[i] = nameOf[j] PROVE Before(j, i)'
      <4>1. j \notin Loaded
        BY <3>8 DEF OwnerInv, MapInv, Loaded
      <4>2. i \in Insts /\ Before(j, i) /\ accepted'[j] = accepted[j]
        BY <3>2, <3>7, <3>8, <4>1 DEF OrderInv
      <4> QED
        BY <3>3, <3>4, <3>5, <4>2 DEF Before
    <3>9. ASSUME NEW i \in Insts, NEW j \in Insts, i # j, nameOf[i] = nameOf[j]
          PROVE  Before(i, j)' \/ Before(j, i)'
      <4>1. CASE i \in Loaded
        BY <3>8, <3>9, <4>1
      <4>2. CASE j \in Loaded
        BY <3>8, <3>9, <4>2
      <4>3. CASE i \notin Loaded /\ j \notin Loaded
        BY <3>7, <3>9, <4>3 DEF HandOver, Before
      <4> QED
        BY <4>1, <4>2, <4>3
    <3>10. ASSUME NEW i \in Insts, run[i] = "none" \/ \E t \in Threads : built[t] = i
           PROVE  accepted'[i] = <<>>
      <4>1. i \notin Loaded /\ accepted[i] = <<>>
        BY <3>10 DEF OrderInv, OwnerInv, MapInv, BuiltInv, Live, Running, Loaded
      <4> QED
        BY <3>7, <4>1
    <3>11. \A t \in Threads : built[t] # None => built[t] \in Insts
      BY DEF TypeInv, TypeOK
    <3>12. OrderInv'
      BY <3>1, <3>2, <3>6, <3>8, <3>10, <3>11 DEF OrderInv
    <3>13. HandOver'
      BY <3>1, <3>9 DEF HandOver
    <3> QED
      BY <3>12, <3>13
  <2>2. ASSUME NEW t \in Threads, NEW n \in Names, Build(t, n) PROVE OrderInv' /\ HandOver'
    <3>1. PICK i \in Insts : /\ run[i] = "none"
                             /\ run' = [run EXCEPT ![i] = "select"]
                             /\ nameOf' = [nameOf EXCEPT ![i] = n]
                             /\ built' = [built EXCEPT ![t] = i]
      BY <2>2 DEF Build
    <3>2. UNCHANGED <<workflows, received, accepted>>
      BY <2>2 DEF Build
    <3>3. accepted[i] = <<>> /\ i \notin Loaded
      BY <3>1 DEF OrderInv, OwnerInv, MapInv, Live, Running, Loaded
    <3>4. \A j, k \in Insts : j # i /\ k # i => nameOf'[j] = nameOf[j] /\ nameOf'[k] = nameOf[k]
      BY <3>1 DEF TypeInv, TypeOK
    <3>5. \A j, k \in Insts : j = i \/ k = i => Before(j, k)
      BY <3>3 DEF Before
    <3>6. Loaded' = Loaded /\ Loaded \subseteq Insts
      BY <3>2 DEF Loaded, TypeInv, TypeOK
    <3>7. \A j, k \in Insts : Before(j, k)' <=> Before(j, k)
      BY <3>2 DEF Before
    <3>8. HandOver'
      BY <3>4, <3>5, <3>7 DEF HandOver
    <3>9. OrderInv'
      BY <3>1, <3>2, <3>3, <3>4, <3>5, <3>6, <3>7 DEF OrderInv, TypeInv, TypeOK
    <3> QED
      BY <3>8, <3>9
  <2>3. CASE /\ UNCHANGED <<received, accepted, nameOf>>
             /\ ~\E t \in Threads, n \in Names : Build(t, n)
    <3>1. \A j, k \in Insts : Before(j, k)' <=> Before(j, k)
      BY <2>3 DEF Before
    <3>2. HandOver'
      BY <2>3, <3>1 DEF HandOver
    <3>3. \A i \in Insts : run'[i] = "none" => run[i] = "none"
      BY <2>3 DEF Next, Call, Continue, Deliver, Runner, vars, Start, BeginLoadDir, ReadDir, LoadFails,
        Swap, Unload, ReloadAll, Stop, CloseEvents, CloseVM, HandleEvent, TakeEvent, TakeTick,
        HandlerReturns, Exit, TypeInv, TypeOK
    <3>4. \A t \in Threads : built'[t] # None => built'[t] = built[t]
      BY <2>3 DEF Next, Call, Continue, Deliver, Runner, vars, Start, BeginLoadDir, ReadDir, LoadFails,
        Swap, Unload, ReloadAll, Stop, CloseEvents, CloseVM, HandleEvent, TakeEvent, TakeTick,
        HandlerReturns, Exit, TypeInv, TypeOK
    <3>5. ASSUME NEW n \in Names, workflows'[n] # None
          PROVE  workflows'[n] \in Loaded \/ \E t \in Threads : built[t] = workflows'[n]
      <4>1. workflows'[n] # workflows[n] => \E t \in Threads : built[t] = workflows'[n]
        BY <2>3, <3>5 DEF Next, Call, Continue, Deliver, Runner, vars, Start, BeginLoadDir, ReadDir,
          LoadFails, Swap, Unload, ReloadAll, Stop, CloseEvents, CloseVM, HandleEvent, TakeEvent,
          TakeTick, HandlerReturns, Exit, TypeInv, TypeOK
      <4> QED
        BY <3>5, <4>1 DEF Loaded
    <3>6. ASSUME NEW i \in Loaded', NEW j \in Insts, i # j, nameOf[i] = nameOf[j] PROVE Before(j, i)
      <4>1. CASE i \in Loaded
        BY <3>6, <4>1 DEF OrderInv
      <4>2. CASE i \notin Loaded
        <5>1. accepted[i] = <<>>
          BY <3>5, <3>6, <4>2 DEF OrderInv, Loaded
        <5> QED
          BY <5>1 DEF Before
      <4> QED
        BY <4>1, <4>2
    <3>7. Loaded' \subseteq Insts
      <4>1. /\ Loaded \subseteq Insts
            /\ \A t \in Threads : built[t] # None => built[t] \in Insts
        BY DEF Loaded, TypeInv, TypeOK
      <4>2. \A n \in Names : workflows'[n] # None => workflows'[n] \in Insts
        BY <3>5, <4>1
      <4> QED
        BY <4>2 DEF Loaded
    <3>8. OrderInv'
      <4>1. \A t \in Threads : built'[t] # None => accepted'[built'[t]] = <<>>
        BY <2>3, <3>4 DEF OrderInv
      <4>2. \A i \in Loaded', j \in Insts : i # j /\ nameOf'[i] = nameOf'[j] => Before(j, i)'
        BY <2>3, <3>1, <3>6, <3>7
      <4> QED
        BY <2>3, <3>3, <4>1, <4>2 DEF OrderInv
    <3> QED
      BY <3>2, <3>8
  <2> QED
    <3>1. \/ UNCHANGED <<received, accepted, nameOf>>
          \/ \E t \in Threads, n \in Names : Build(t, n)
          \/ Deliver
      BY DEF Next, Call, Continue, Runner, vars, Start, BeginLoadDir, ReadDir, LoadFails, Swap, Unload,
        ReloadAll, Stop, CloseEvents, CloseVM, TakeEvent, TakeTick, HandlerReturns, Exit
    <3> QED
      BY <2>1, <2>2, <2>3, <3>1 DEF Deliver
<1> QED
  BY <1>1, <1>2, TypeCorrect, OwnerInvariant, PTL DEF Spec

\* The versions of a workflow share no event, and a version that accepted one is
\* over before the next accepts its first.
THEOREM HandOverHolds == Spec => []HandOver
BY OrderInvariant, PTL

-----------------------------------------------------------------------------
(***************************************************************************)
(* The engine implements the mailboxes.                                    *)
(***************************************************************************)

\* The stage of an instance, read off its owner.
StageOf(i) ==
  /\ Life(i) = "absent" <=> run[i] = "none"
  /\ Life(i) = "serving" <=> i \in Loaded
  /\ Life(i) = "standby" <=> \E t \in Threads : built[t] = i
  /\ Life(i) = "gone" <=> vm[i] = "closed"
  /\ Life(i) \in {"absent", "serving", "standby", "gone", "draining"}

\* Every instance is at one of the stages of its life.
LEMMA Stages == TypeInv /\ OwnerInv => \A i \in Insts : StageOf(i)
<1> SUFFICES ASSUME TypeInv, OwnerInv, NEW i \in Insts PROVE StageOf(i)
  OBVIOUS
<1>1. i \in Loaded => Live(i) /\ ~\E t \in Threads : built[t] = i
  BY DEF OwnerInv, MapInv, BuiltInv, Loaded
<1>2. (\E t \in Threads : built[t] = i) => Live(i)
  BY NoneAssumption DEF OwnerInv, BuiltInv
<1>3. run[i] = "none" => vm[i] # "closed"
  BY DEF OwnerInv, StageInv
<1>4. Live(i) => run[i] # "none" /\ vm[i] # "closed"
  BY DEF Live, Running
<1> QED
  BY <1>1, <1>2, <1>3, <1>4 DEF Life, StageOf

\* Every step of the engine is a step of the mailboxes, or leaves them as they are.
LEMMA RefineStep ==
  ASSUME TypeInv, OwnerInv, TypeInv', OwnerInv', OrderInv, NothingLost, [Next]_vars
  PROVE  [Promise!Next]_(Promise!mailboxVars)
<1> USE NoneAssumption DEF TypeInv, TypeOK
<1> USE DEF engineVars, instVars, threadVars, history
<1> DEFINE life == [i \in Insts |-> Life(i)]
<1>a. \A i \in Insts : StageOf(i)
  BY Stages
<1>b. \A i \in Insts : StageOf(i)'
  <2>1. (TypeInv /\ OwnerInv => \A i \in Insts : StageOf(i))'
    BY Stages, PTL
  <2> QED
    BY <2>1
<1>1. ASSUME NEW t \in Threads, NEW n \in Names, Build(t, n) PROVE Promise!Next
  <2>1. PICK i \in Insts : /\ run[i] = "none"
                           /\ run' = [run EXCEPT ![i] = "select"]
                           /\ vm' = [vm EXCEPT ![i] = "open"]
                           /\ nameOf' = [nameOf EXCEPT ![i] = n]
                           /\ built' = [built EXCEPT ![t] = i]
    BY <1>1 DEF Build
  <2>2. UNCHANGED <<workflows, eventCh, handled>> /\ built[t] = None
    BY <1>1 DEF Build, Free
  <2>3. Life(i) = "absent" /\ Life(i)' = "standby"
    BY <2>1, <1>a, <1>b DEF StageOf
  <2>4. ASSUME NEW j \in Insts, j # i PROVE Life(j)' = Life(j)
    <3>1. run'[j] = run[j] /\ vm'[j] = vm[j] /\ Loaded' = Loaded
      BY <2>1, <2>2, <2>4 DEF Loaded
    <3>2. (\E u \in Threads : built'[u] = j) <=> (\E u \in Threads : built[u] = j)
      BY <2>1, <2>2, <2>4
    <3> QED
      BY <3>1, <3>2 DEF Life
  <2>5. life' = [life EXCEPT ![i] = "standby"]
    BY <2>3, <2>4
  <2> QED
    BY <2>1, <2>2, <2>3, <2>5 DEF Promise!Create, Promise!Next
<1>2. ASSUME NEW t \in Threads, Swap(t) PROVE Promise!Next
  <2>1. PICK i \in Insts, n \in Names : built[t] = i /\ nameOf[i] = n
    BY <1>2 DEF Swap
  <2>2. /\ workflows' = [workflows EXCEPT ![n] = i]
        /\ built' = [built EXCEPT ![t] = None]
        /\ UNCHANGED <<nameOf, eventCh, run, vm, handled>>
    BY <1>2, <2>1 DEF Swap
  <2>3. Life(i) = "standby" /\ Life(i)' = "serving"
    <3>1. i \in Loaded'
      BY <2>1, <2>2, NoneAssumption DEF Loaded
    <3> QED
      BY <2>1, <3>1, <1>a, <1>b DEF StageOf
  <2>4. ASSUME NEW j \in Insts, j # i
        PROVE  Life(j)' = IF j \in Promise!Serving /\ nameOf[j] = nameOf[i] THEN "draining" ELSE Life(j)
    <3>1. run'[j] = run[j] /\ vm'[j] = vm[j]
      BY <2>2
    <3>2. (\E u \in Threads : built'[u] = j) <=> (\E u \in Threads : built[u] = j)
      BY <2>1, <2>2, <2>4
    <3>3. j \in Loaded' <=> j \in Loaded /\ nameOf[j] # n
      BY <2>1, <2>2, <2>4 DEF Loaded, OwnerInv, MapInv
    <3>4. j \in Promise!Serving <=> j \in Loaded
      BY <1>a DEF Promise!Serving, StageOf
    <3>5. CASE j \in Loaded /\ nameOf[j] = n
      <4>1. Live(j) /\ ~\E u \in Threads : built[u] = j
        BY <3>5 DEF OwnerInv, MapInv, BuiltInv, Loaded
      <4> QED
        BY <2>1, <3>1, <3>2, <3>3, <3>4, <3>5, <4>1 DEF Life, Live, Running
    <3>6. CASE ~(j \in Loaded /\ nameOf[j] = n)
      <4>1. j \in Loaded' <=> j \in Loaded
        BY <3>3, <3>6
      <4> QED
        BY <2>1, <3>1, <3>2, <3>4, <3>6, <4>1 DEF Life
    <3> QED
      BY <3>5, <3>6
  <2>5. life' = [j \in Insts |-> IF j = i THEN "serving"
                                ELSE IF j \in Promise!Serving /\ nameOf[j] = nameOf[i] THEN "draining"
                                ELSE life[j]]
    BY <2>1, <2>3, <2>4
  <2> QED
    BY <2>1, <2>2, <2>3, <2>5 DEF Promise!TakeOver, Promise!Next
<1>3. \* What leaves the map drains.
      ASSUME NEW S \in SUBSET Loaded, Loaded' = Loaded \ S,
             UNCHANGED <<nameOf, eventCh, run, vm, built, handled>>
      PROVE  [Promise!Next]_(Promise!mailboxVars)
  <2>1. Loaded \subseteq Insts /\ S \subseteq Promise!Serving
    BY <1>a DEF Promise!Serving, StageOf, Loaded
  <2>2. ASSUME NEW i \in Insts PROVE Life(i)' = IF i \in S THEN "draining" ELSE Life(i)
    <3>1. i \in S => Live(i) /\ ~\E t \in Threads : built[t] = i
      BY DEF OwnerInv, MapInv, BuiltInv, Loaded
    <3> QED
      BY <1>3, <2>1, <3>1 DEF Life, Live, Running
  <2>3. life' = [i \in Insts |-> IF i \in S THEN "draining" ELSE life[i]]
    BY <2>2
  <2>4. CASE S = {}
    BY <1>3, <2>3, <2>4 DEF Promise!mailboxVars
  <2>5. CASE S # {}
    BY <1>3, <2>1, <2>3, <2>5 DEF Promise!Withdraw, Promise!Next
  <2> QED
    BY <2>4, <2>5
<1>4. ASSUME NEW t \in Threads, NEW n \in Names, Unload(t, n) PROVE [Promise!Next]_(Promise!mailboxVars)
  <2>1. workflows' = [workflows EXCEPT ![n] = None] /\ workflows[n] \in Loaded
    BY <1>4 DEF Unload, Loaded
  <2>2. PICK S \in SUBSET Loaded : S = {workflows[n]} /\ Loaded' = Loaded \ S
    <3>1. \A m \in Names \ {n} : workflows'[m] = workflows[m] /\ workflows[m] # workflows[n]
      BY <2>1 DEF OwnerInv, MapInv, Loaded
    <3>2. workflows'[n] = None /\ workflows[n] # None
      BY <2>1 DEF Loaded
    <3>3. Loaded' = Loaded \ {workflows[n]}
      <4>1. ASSUME NEW x \in Loaded' PROVE x \in Loaded /\ x # workflows[n]
        <5>1. PICK m \in Names : x = workflows'[m] /\ x # None
          BY <4>1 DEF Loaded
        <5> QED
          BY <3>1, <3>2, <5>1 DEF Loaded
      <4>2. ASSUME NEW x \in Loaded, x # workflows[n] PROVE x \in Loaded'
        <5>1. PICK m \in Names : x = workflows[m] /\ x # None
          BY <4>2 DEF Loaded
        <5> QED
          BY <3>1, <4>2, <5>1 DEF Loaded
      <4> QED
        BY <4>1, <4>2
    <3> QED
      BY <2>1, <3>3
  <2>3. UNCHANGED <<nameOf, eventCh, run, vm, built, handled>>
    BY <1>4 DEF Unload
  <2> QED
    BY <1>3, <2>2, <2>3
<1>5. ASSUME NEW t \in Threads, ReloadAll(t) \/ Stop(t) PROVE [Promise!Next]_(Promise!mailboxVars)
  <2>1. Loaded' = Loaded \ Loaded /\ UNCHANGED <<nameOf, eventCh, run, vm, built, handled>>
    BY <1>5 DEF ReloadAll, Stop, Loaded
  <2> QED
    BY <1>3, <2>1
<1>6. ASSUME NEW t \in Threads, CloseVM(t) PROVE Promise!Next
  <2>1. PICK i \in Insts : stopping[t] = i /\ run[i] = "done" /\ vm[i] = "open" /\ closed[i]
    BY <1>6 DEF CloseVM, OwnerInv, StoppingInv
  <2>2. vm' = [vm EXCEPT ![i] = "closed"] /\ UNCHANGED <<workflows, nameOf, eventCh, run, built, handled>>
    BY <1>6, <2>1 DEF CloseVM
  <2>3. Life(i) = "draining" /\ Life(i)' = "gone"
    <3>1. ~Live(i)
      BY <2>1 DEF Live
    <3>2. i \notin Loaded /\ ~\E u \in Threads : built[u] = i
      BY <2>1, <3>1 DEF OwnerInv, MapInv, BuiltInv, Loaded
    <3> QED
      BY <2>1, <2>2, <3>2 DEF Life
  <2>4. ASSUME NEW j \in Insts, j # i PROVE Life(j)' = Life(j)
    BY <2>2, <2>4 DEF Life, Loaded
  <2>5. life' = [life EXCEPT ![i] = "gone"]
    BY <2>1, <2>3, <2>4
  <2>6. eventCh[i] = <<>>
    BY <2>1 DEF NothingLost
  <2> QED
    BY <2>1, <2>2, <2>3, <2>5, <2>6 DEF Promise!Vanish, Promise!Next
<1>7. ASSUME NEW i \in Insts, TakeEvent(i) PROVE Promise!Next
  <2>1. /\ run[i] = "select" /\ eventCh[i] # <<>> /\ run' = [run EXCEPT ![i] = "event"]
        /\ UNCHANGED <<workflows, nameOf, vm, built>>
    BY <1>7 DEF TakeEvent
  <2>2. life' = life
    BY <2>1 DEF Life, Loaded
  <2>3. life[i] \in {"serving", "draining"}
    <3>1. Life(i) # "absent" /\ Life(i) # "gone"
      BY <2>1, <1>a DEF StageOf, OwnerInv, StageInv
    <3>2. Life(i) # "standby"
      <4>1. accepted[i] # <<>>
        BY <2>1, ConcatEqualIffEmpty DEF NothingLost
      <4> QED
        BY <1>a, <4>1, NoneAssumption DEF StageOf, OrderInv
    <3> QED
      BY <3>1, <3>2, <1>a DEF StageOf
  <2> QED
    BY <1>7, <2>1, <2>2, <2>3 DEF TakeEvent, Promise!Handle, Promise!Next
<1>8. ASSUME NEW src, NEW matched, HandleEvent(src, matched) PROVE [Promise!Next]_(Promise!mailboxVars)
  <2> DEFINE S == Takers(src, matched)
  <2>1. /\ eventCh' = [i \in Insts |-> IF i \in S THEN Append(eventCh[i], received + 1) ELSE eventCh[i]]
        /\ UNCHANGED <<workflows, nameOf, run, vm, built, handled>>
    BY <1>8 DEF HandleEvent
  <2>2. received + 1 \in 1..MaxEvents
    BY <1>8, MaxEventsAssumption DEF HandleEvent
  <2>3. life' = life
    BY <2>1 DEF Life, Loaded
  <2>4. S \subseteq {i \in Promise!Serving : Len(eventCh[i]) < Capacity}
    BY <1>a DEF Takers, Selects, Promise!Serving, StageOf
  <2> HIDE DEF S
  <2>5. CASE S = {}
    BY <2>1, <2>3, <2>5 DEF Promise!mailboxVars
  <2>6. CASE S # {}
    <3>1. Promise!Accept(received + 1, S) /\ S \in SUBSET Insts
      BY <2>1, <2>3, <2>4, <2>6 DEF Promise!Accept, Promise!Serving
    <3> QED
      BY <2>2, <3>1 DEF Promise!Next
  <2> QED
    BY <2>5, <2>6
<1>9. ASSUME UNCHANGED <<workflows, nameOf, eventCh, vm, built, handled>>,
             \A i \in Insts : run'[i] = "none" <=> run[i] = "none"
      PROVE  UNCHANGED Promise!mailboxVars
  BY <1>9 DEF Life, Loaded, Promise!mailboxVars
<1>10. ASSUME NEW i \in Insts, TakeTick(i) \/ HandlerReturns(i) \/ Exit(i)
       PROVE  UNCHANGED Promise!mailboxVars
  BY <1>9, <1>10 DEF TakeTick, HandlerReturns, Exit
<1>11. CASE UNCHANGED <<workflows, nameOf, eventCh, run, vm, built, handled>>
  BY <1>9, <1>11
<1> QED
  BY <1>1, <1>2, <1>4, <1>5, <1>6, <1>7, <1>8, <1>10, <1>11
    DEF Next, Call, Continue, Deliver, Runner, vars, Start, BeginLoadDir, ReadDir, LoadFails, CloseEvents

\* The engine keeps the promise of Mailbox: its map, its locks, its goroutines and
\* the overlap of its calls cannot be told from the outside.
THEOREM ImplementsMailboxHolds == Spec => ImplementsMailbox
<1>1. Init => Promise!Init
  BY DEF Init, Promise!Init, Life
<1> QED
  BY <1>1, RefineStep, TypeCorrect, OwnerInvariant, OrderInvariant, NothingLostHolds, PTL
    DEF Spec, ImplementsMailbox, Promise!Spec
=============================================================================
