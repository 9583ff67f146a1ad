-------------------------- MODULE GitHubAgentProofs --------------------------
(***************************************************************************)
(* Proofs about GitHubAgent, for any commands, any pull requests and any   *)
(* capacity of the command channel.                                        *)
(***************************************************************************)
EXTENDS GitHubAgent, SequenceTheorems, TLAPS

-----------------------------------------------------------------------------
(***************************************************************************)
(* What a worker at each of its steps knows, and what shutdown has reached *)
(* by each of its own.                                                     *)
(***************************************************************************)

\* The channel is closed exactly from the second step of shutdown on, and the
\* worker is not there before it was started.
StageInv ==
  /\ closed <=> main \in {"wait", "agent", "exited"}
  /\ main \in {"subscribe", "loop"} <=> worker = "none"
  /\ main \in {"agent", "exited"} => worker = "done"

\* The worker holds a command exactly while it executes one, and it ends when
\* nothing is left and nothing can be added.
WorkerInv ==
  /\ cur # None <=> worker \in {"execute", "reviews", "create"}
  /\ worker \in {"reviews", "create"} => ApproveOf[cur] # None
  /\ worker = "done" => closed /\ cmdCh = <<>>

\* Between the look at the reviews and the new one nobody else approves.
ApproveInv ==
  /\ OneApproval
  /\ worker = "create" => approvals[ApproveOf[cur]] = 0

IInv == GitHubTypeOK /\ StageInv /\ WorkerInv /\ Kept /\ ApproveInv

-----------------------------------------------------------------------------
(***************************************************************************)
(* Sequences.                                                              *)
(***************************************************************************)

\* What is received moves from the front of the channel to the hands of the worker.
LEMMA TakeHead ==
  ASSUME NEW S, NEW done \in Seq(S), NEW queued \in Seq(S), queued # <<>>
  PROVE  /\ Head(queued) \in S
         /\ Tail(queued) \in Seq(S)
         /\ Len(Tail(queued)) = Len(queued) - 1
         /\ (done \o <<>>) \o queued = (done \o <<Head(queued)>>) \o Tail(queued)
<1>1. /\ Head(queued) \in S /\ Tail(queued) \in Seq(S)
      /\ Len(Tail(queued)) = Len(queued) - 1
      /\ queued = <<Head(queued)>> \o Tail(queued)
  BY HeadTailProperties
<1>2. done \o <<>> = done
  BY ConcatEmptySeq
<1>3. (done \o <<Head(queued)>>) \o Tail(queued) = done \o (<<Head(queued)>> \o Tail(queued))
  BY <1>1, ConcatAssociative
<1> QED
  BY <1>1, <1>2, <1>3

\* What is executed moves from the hands of the worker to the end of the history.
LEMMA MarkDone ==
  ASSUME NEW S, NEW done \in Seq(S), NEW c \in S, NEW queued \in Seq(S)
  PROVE  /\ Append(done, c) \in Seq(S)
         /\ (done \o <<c>>) \o queued = (Append(done, c) \o <<>>) \o queued
<1>1. Append(done, c) \in Seq(S) /\ Append(done, c) = done \o <<c>>
  BY AppendProperties, AppendIsConcat
<1>2. Append(done, c) \o <<>> = Append(done, c)
  BY <1>1, ConcatEmptySeq
<1> QED
  BY <1>1, <1>2

\* A command that is accepted is the last one of the channel and of all.
LEMMA AcceptLast ==
  ASSUME NEW S, NEW front \in Seq(S), NEW queued \in Seq(S), NEW c \in S
  PROVE  Append(front \o queued, c) = front \o Append(queued, c)
<1>1. Append(queued, c) = queued \o <<c>> /\ Append(front \o queued, c) = (front \o queued) \o <<c>>
  BY AppendIsConcat, ConcatProperties
<1>2. (front \o queued) \o <<c>> = front \o (queued \o <<c>>)
  BY ConcatAssociative
<1> QED
  BY <1>1, <1>2

-----------------------------------------------------------------------------
(***************************************************************************)
(* The invariant is inductive.                                             *)
(***************************************************************************)

\* Nothing the invariant speaks of changes but the step of main, and what goes
\* with it: the steps of Run and shutdown.
LEMMA MainStep ==
  ASSUME IInv, Starting \/ Shutdown \/ Stopping
  PROVE  IInv'
<1> USE DEF IInv, GitHubTypeOK, StageInv, WorkerInv, Kept, ApproveInv, OneApproval, queue, work, Main, Alive
<1>1. CASE Subscribe
  BY <1>1 DEF Subscribe
<1>2. CASE StartLoop
  BY <1>2 DEF StartLoop
<1>3. CASE Listen
  BY <1>3 DEF Listen
<1>4. CASE ListenFails
  BY <1>4 DEF ListenFails
<1>5. CASE StartPoller
  BY <1>5 DEF StartPoller
<1>6. CASE Shutdown
  BY <1>6 DEF Shutdown
<1>7. CASE CloseQueue
  BY <1>7 DEF CloseQueue
<1>8. CASE AwaitWorker
  BY <1>8 DEF AwaitWorker
<1>9. CASE CloseAgent
  BY <1>9 DEF CloseAgent
<1>10. CASE Return
  BY <1>10 DEF Return
<1> QED
  BY <1>1, <1>2, <1>3, <1>4, <1>5, <1>6, <1>7, <1>8, <1>9, <1>10 DEF Starting, Stopping

\* A command that is accepted now is executed after all the others.
LEMMA AcceptStep ==
  ASSUME GitHubTypeOK, Kept, NEW c \in Commands
  PROVE  Append(accepted, c) = executed \o (IF cur = None THEN <<>> ELSE <<cur>>) \o Append(cmdCh, c)
<1> DEFINE front == executed \o (IF cur = None THEN <<>> ELSE <<cur>>)
<1>1. front \in Seq(Commands)
  <2>1. (IF cur = None THEN <<>> ELSE <<cur>>) \in Seq(Commands)
    BY DEF GitHubTypeOK
  <2> QED
    BY <2>1, ConcatProperties DEF GitHubTypeOK
<1>2. accepted = front \o cmdCh /\ cmdCh \in Seq(Commands)
  BY DEF Kept, GitHubTypeOK
<1> HIDE DEF front
<1>3. Append(front \o cmdCh, c) = front \o Append(cmdCh, c)
  BY <1>1, <1>2, AcceptLast
<1> QED
  BY <1>2, <1>3 DEF front

\* The steps of NATS.  A command is accepted only while the channel is open, so
\* the worker has not ended.
LEMMA NatsStep ==
  ASSUME IInv, (\E c \in Commands : SendCommand(c)) \/ Enqueue \/ Drained
  PROVE  IInv'
<1> USE DEF IInv, GitHubTypeOK, StageInv, WorkerInv, Kept, ApproveInv, OneApproval, queue, work, Alive
<1>1. ASSUME NEW c \in Commands, SendCommand(c) PROVE IInv'
  <2>1. Append(inbox, c) \in Seq(Commands)
    BY AppendProperties
  <2> QED
    BY <1>1, <2>1 DEF SendCommand
<1>2. CASE Enqueue
  <2>1. Tail(inbox) \in Seq(Commands) /\ Head(inbox) \in Commands
    BY <1>2, HeadTailProperties DEF Enqueue
  <2>2. CASE closed \/ ~(Len(cmdCh) < Cap)
    BY <1>2, <2>1, <2>2 DEF Enqueue
  <2>3. CASE ~closed /\ Len(cmdCh) < Cap
    <3>1. /\ cmdCh' = Append(cmdCh, Head(inbox)) /\ accepted' = Append(accepted, Head(inbox))
          /\ inbox' = Tail(inbox)
          /\ UNCHANGED <<panicked, sent, subscribed, conn, closed, main, work>>
      BY <1>2, <2>3 DEF Enqueue
    <3>2. /\ accepted' \in Seq(Commands) /\ cmdCh' \in Seq(Commands)
          /\ Len(cmdCh') = Len(cmdCh) + 1
      BY <2>1, <3>1, AppendProperties
    <3>3. Len(cmdCh) + 1 <= Cap
      BY <2>3, CapAssumption, LenProperties
    <3>4. GitHubTypeOK'
      BY <2>1, <3>1, <3>2, <3>3
    <3>5. worker # "done"
      BY <2>3
    <3>6. Kept'
      BY <2>1, <3>1, AcceptStep
    <3> QED
      BY <3>1, <3>4, <3>5, <3>6
  <2> QED
    BY <2>2, <2>3
<1>3. CASE Drained
  BY <1>3 DEF Drained
<1> QED
  BY <1>1, <1>2, <1>3

\* The end of a command: the worker's hands are empty, the history has one more.
LEMMA DoneStep ==
  ASSUME IInv, Done, worker \in {"execute", "reviews", "create"}
  PROVE  /\ executed' \in Seq(Commands) /\ cur' = None /\ worker' = "idle"
         /\ StageInv' /\ WorkerInv' /\ Kept'
<1>1. cur \in Commands /\ cur # None
  BY DEF IInv, GitHubTypeOK, WorkerInv
<1>2. /\ Append(executed, cur) \in Seq(Commands)
      /\ (executed \o <<cur>>) \o cmdCh = (Append(executed, cur) \o <<>>) \o cmdCh
  BY <1>1, MarkDone DEF IInv, GitHubTypeOK
<1>3. /\ worker' = "idle" /\ cur' = None /\ executed' = Append(executed, cur)
      /\ UNCHANGED <<accepted, cmdCh, closed, main>>
  BY DEF Done, Others
<1>4. Kept'
  BY <1>1, <1>2, <1>3 DEF IInv, Kept
<1>5. StageInv' /\ WorkerInv'
  BY <1>3 DEF IInv, StageInv, WorkerInv
<1> QED
  BY <1>2, <1>3, <1>4, <1>5

\* The steps of the worker.
LEMMA WorkerStep ==
  ASSUME IInv, Worker
  PROVE  IInv'
<1>1. CASE TakeCommand
  <2>1. /\ cur = None /\ cmdCh # <<>>
        /\ cur' = Head(cmdCh) /\ cmdCh' = Tail(cmdCh) /\ worker' = "execute"
        /\ UNCHANGED <<Others, approvals, executed>>
    BY <1>1 DEF TakeCommand, IInv, WorkerInv
  <2>2. /\ Head(cmdCh) \in Commands /\ Tail(cmdCh) \in Seq(Commands)
        /\ Len(Tail(cmdCh)) = Len(cmdCh) - 1
        /\ (executed \o <<>>) \o cmdCh = (executed \o <<Head(cmdCh)>>) \o Tail(cmdCh)
    BY <2>1, TakeHead DEF IInv, GitHubTypeOK
  <2>3. cur' # None
    BY <2>1, <2>2, NoneAssumption
  <2>4. Len(cmdCh') <= Cap
    BY <2>1, <2>2, CapAssumption, LenProperties DEF IInv, GitHubTypeOK
  <2>5. GitHubTypeOK'
    BY <2>1, <2>2, <2>4 DEF IInv, GitHubTypeOK, Others
  <2>6. Kept'
    BY <2>1, <2>2, <2>3 DEF IInv, Kept, Others
  <2>7. StageInv' /\ WorkerInv' /\ ApproveInv'
    BY <1>1, <2>1, <2>3 DEF TakeCommand, IInv, StageInv, WorkerInv, ApproveInv, OneApproval, Others
  <2> QED
    BY <2>5, <2>6, <2>7 DEF IInv
<1>2. CASE Execute \/ ListReviews
  <2>1. worker \in {"execute", "reviews"} /\ approvals' = approvals
    BY <1>2 DEF Execute, ListReviews
  <2>2. CASE Done
    <3>1. /\ executed' \in Seq(Commands) /\ cur' = None /\ worker' = "idle"
          /\ StageInv' /\ WorkerInv' /\ Kept'
      BY <2>1, <2>2, DoneStep
    <3>2. UNCHANGED <<Others, cmdCh>>
      BY <2>2 DEF Done
    <3> QED
      BY <2>1, <3>1, <3>2 DEF IInv, GitHubTypeOK, ApproveInv, OneApproval, Others
  <2>3. CASE worker' \in {"reviews", "create"}
    <3>1. /\ UNCHANGED <<Others, cmdCh, cur, executed>>
          /\ worker' = "create" => worker = "reviews" /\ approvals[ApproveOf[cur]] = 0
          /\ worker' = "reviews" => worker = "execute" /\ ApproveOf[cur] # None
      BY <1>2, <2>3 DEF Execute, ListReviews, Done
    <3> QED
      BY <2>1, <2>3, <3>1
      DEF IInv, GitHubTypeOK, StageInv, WorkerInv, Kept, ApproveInv, OneApproval, Others
  <2> QED
    BY <1>2, <2>2, <2>3 DEF Execute, ListReviews
<1>3. CASE CreateReview
  <2>1. worker = "create" /\ Done
    BY <1>3 DEF CreateReview
  <2>2. /\ executed' \in Seq(Commands) /\ cur' = None /\ worker' = "idle"
        /\ StageInv' /\ WorkerInv' /\ Kept'
    BY <2>1, DoneStep
  <2>3. ApproveOf[cur] \in PRs /\ approvals[ApproveOf[cur]] = 0
    BY <2>1, ApproveAssumption, NoneAssumption DEF IInv, GitHubTypeOK, WorkerInv, ApproveInv
  <2>4. approvals' = approvals \/ approvals' = [approvals EXCEPT ![ApproveOf[cur]] = @ + 1]
    BY <1>3 DEF CreateReview
  <2>5. approvals' \in [PRs -> Nat] /\ OneApproval'
    <3> USE DEF IInv, GitHubTypeOK, ApproveInv, OneApproval
    <3>1. CASE approvals' = approvals
      BY <3>1
    <3>2. CASE approvals' = [approvals EXCEPT ![ApproveOf[cur]] = @ + 1]
      <4>1. approvals' = [approvals EXCEPT ![ApproveOf[cur]] = 1]
        BY <2>3, <3>2
      <4> QED
        BY <2>3, <4>1
    <3> QED
      BY <2>4, <3>1, <3>2
  <2> QED
    BY <2>1, <2>2, <2>5 DEF IInv, GitHubTypeOK, ApproveInv, Done, Others
<1>4. CASE EndLoop
  BY <1>4 DEF EndLoop, IInv, GitHubTypeOK, StageInv, WorkerInv, Kept, ApproveInv, OneApproval, Others
<1> QED
  BY <1>1, <1>2, <1>3, <1>4 DEF Worker

\* The inductive invariant holds from the connection to NATS to the end of the
\* process, whatever is sent and whatever fails.
THEOREM AgentInvariant == GitHubSpec => []IInv
<1>1. GitHubInit => IInv
  <2> SUFFICES ASSUME GitHubInit PROVE IInv
    OBVIOUS
  <2>1. <<>> = (<<>> \o <<>>) \o <<>>
    BY ConcatEmptySeq, EmptySeq
  <2>2. GitHubTypeOK
    <3>1. <<>> \in Seq(Commands) /\ Len(<<>>) = 0 /\ 0 <= Cap
      BY CapAssumption, EmptySeq
    <3> QED
      BY <3>1 DEF GitHubInit, GitHubTypeOK
  <2>3. Kept
    BY <2>1 DEF GitHubInit, Kept
  <2> QED
    BY <2>2, <2>3 DEF GitHubInit, IInv, StageInv, WorkerInv, ApproveInv, OneApproval
<1>2. IInv /\ [GitHubNext]_githubVars => IInv'
  <2>1. CASE UNCHANGED githubVars
    BY <2>1 DEF githubVars, IInv, GitHubTypeOK, StageInv, WorkerInv, Kept, ApproveInv, OneApproval
  <2> QED
    BY <2>1, MainStep, NatsStep, WorkerStep DEF GitHubNext, Ended
<1> QED
  BY <1>1, <1>2, PTL DEF GitHubSpec

-----------------------------------------------------------------------------
(***************************************************************************)
(* What follows from it.                                                   *)
(***************************************************************************)

\* The variables keep their types: in particular the channel never holds more
\* than its capacity, because enqueueCommand drops what does not fit.
THEOREM GitHubTypeOKHolds == GitHubSpec => []GitHubTypeOK
<1>1. IInv => GitHubTypeOK
  BY DEF IInv
<1> QED
  BY <1>1, AgentInvariant, PTL

\* Accepted commands are executed once each, in the order in which NATS
\* delivered them, through the start, drops, failures and the shutdown; and when
\* shutdown goes on to close the agent's connection, the worker has ended, which
\* it does only when the closed channel is empty: all of them are executed.
THEOREM InOrderHolds == GitHubSpec => []InOrder
<1>1. IInv => Kept
  BY DEF IInv
<1>2. IInv => DrainedBeforeClose
  <2> SUFFICES ASSUME IInv, main \in {"agent", "exited"}
               PROVE  worker = "done" /\ executed = accepted
    BY DEF DrainedBeforeClose
  <2>1. worker = "done" /\ cur = None /\ cmdCh = <<>>
    BY DEF IInv, StageInv, WorkerInv
  <2>2. (executed \o <<>>) \o <<>> = executed
    BY ConcatEmptySeq DEF IInv, GitHubTypeOK
  <2> QED
    BY <2>1, <2>2 DEF IInv, Kept
<1>3. IInv => InOrder
  BY <1>1, <1>2 DEF InOrder
<1> QED
  BY <1>3, AgentInvariant, PTL

\* The comment on the drain ("Drain command channel before closing agent
\* connection", agent.go:286), which the run github_agent_stop refutes, is wrong for one
\* reason only: once shutdown has closed the channel the process ends with every
\* accepted command executed, or of the panic of enqueueCommand.
THEOREM OnlyThePanicLoses == GitHubSpec => [](ShutdownDrains \/ panicked)
<1>1. IInv /\ InOrder => ShutdownDrains \/ panicked
  BY DEF IInv, StageInv, InOrder, DrainedBeforeClose, ShutdownDrains, Alive
<1> QED
  BY <1>1, AgentInvariant, InOrderHolds, PTL

\* So the comment holds of a shutdown that takes the subscription away before it
\* closes the channel: if NATS delivers nothing to enqueueCommand from there on,
\* no accepted command is lost.
THEOREM DrainsWhenUnsubscribed ==
  GitHubSpec /\ [][Enqueue => ~closed]_githubVars => []ShutdownDrains
<1>1. GitHubInit => ~panicked
  BY DEF GitHubInit
<1>2. ~panicked /\ [GitHubNext]_githubVars /\ [Enqueue => ~closed]_githubVars => ~panicked'
  BY DEF GitHubNext, githubVars, SendCommand, Enqueue, Drained, Starting, Subscribe, StartLoop, Listen,
         ListenFails, StartPoller, Shutdown, Stopping, CloseQueue, AwaitWorker, CloseAgent, Return, Worker,
         TakeCommand, Execute, ListReviews, CreateReview, EndLoop, Done, Others, Ended
<1>3. (ShutdownDrains \/ panicked) /\ ~panicked => ShutdownDrains
  OBVIOUS
<1> QED
  BY <1>1, <1>2, <1>3, OnlyThePanicLoses, PTL DEF GitHubSpec

\* A pull request is approved at most once by this agent, however often a
\* workflow asks for it and whatever fails: one worker looks and approves.
THEOREM OneApprovalHolds == GitHubSpec => []OneApproval
<1>1. IInv => OneApproval
  BY DEF IInv, ApproveInv
<1> QED
  BY <1>1, AgentInvariant, PTL
=============================================================================
