----------------------------- MODULE GitHubAgent -----------------------------
(***************************************************************************)
(* How the GitHub agent executes commands, from its start to its shutdown  *)
(* (internal/github/agent.go and the commands of commands.go).             *)
(*                                                                         *)
(* NATS delivers the commands of a subscription one after the other to     *)
(* enqueueCommand, which puts them into a bounded channel or drops them.   *)
(* One worker executes them, each with requests to GitHub that may fail or *)
(* time out.  Shutdown closes the channel, waits for the worker and then   *)
(* drains the connection; the subscription is never removed before that.   *)
(***************************************************************************)
EXTENDS Naturals, Sequences, SequencesExt

CONSTANTS
  Commands,   \* commands that workflows may send, each once
  PRs,        \* pull requests
  ApproveOf,  \* the pull request a command approves, or None
  None,       \* no command, no pull request
  Cap         \* capacity of cmdCh, 256

ASSUME NoneAssumption == None \notin Commands \cup PRs
ASSUME ApproveAssumption == ApproveOf \in [Commands -> PRs \cup {None}]
ASSUME CapAssumption == Cap \in Nat \ {0}

VARIABLES
  sent,        \* commands published so far
  inbox,       \* the subscription's messages that are not delivered yet
  subscribed,  \* the subscription exists
  conn,        \* the connection to NATS: "open", "draining" or "closed"
  cmdCh,       \* the command channel
  closed,      \* cmdCh is closed
  main,        \* Run and shutdown: the next step
  worker,      \* commandLoop: the next step
  cur,         \* the command the worker executes
  approvals,   \* GitHub: reviews by this user that approve the pull request
  panicked,    \* the process died of a send on a closed channel
  accepted,    \* history: the commands that got into cmdCh
  executed     \* history: the commands executeCommand is done with

queue == <<cmdCh, closed>>
work == <<worker, cur, approvals, executed>>
githubVars == <<sent, inbox, subscribed, conn, cmdCh, closed, main, worker, cur, approvals,
                panicked, accepted, executed>>

GitHubTypeOK ==
  /\ sent \subseteq Commands
  /\ inbox \in Seq(Commands) /\ subscribed \in BOOLEAN
  /\ conn \in {"open", "draining", "closed"}
  /\ cmdCh \in Seq(Commands) /\ Len(cmdCh) <= Cap /\ closed \in BOOLEAN
  /\ main \in {"subscribe", "loop", "webhook", "poller", "running", "close", "wait", "agent",
               "exited", "failed"}
  /\ worker \in {"none", "idle", "execute", "reviews", "create", "done"}
  /\ cur \in Commands \cup {None}
  /\ approvals \in [PRs -> Nat]
  /\ panicked \in BOOLEAN
  /\ accepted \in Seq(Commands) /\ executed \in Seq(Commands)

\* Run: the agent is connected to NATS.
GitHubInit ==
  /\ sent = {} /\ inbox = <<>> /\ subscribed = FALSE /\ conn = "open"
  /\ cmdCh = <<>> /\ closed = FALSE
  /\ main = "subscribe" /\ worker = "none" /\ cur = None
  /\ approvals = [p \in PRs |-> 0]
  /\ panicked = FALSE /\ accepted = <<>> /\ executed = <<>>

\* The process lives: after main returned or a panic, nothing moves.
Alive == ~panicked /\ main \notin {"exited", "failed"}

-----------------------------------------------------------------------------
(***************************************************************************)
(* NATS.                                                                   *)
(***************************************************************************)

\* A workflow sends a command; without a subscription nobody gets it.
SendCommand(c) ==
  /\ Alive /\ c \notin sent
  /\ sent' = sent \cup {c}
  /\ inbox' = IF subscribed /\ conn = "open" THEN Append(inbox, c) ELSE inbox
  /\ UNCHANGED <<subscribed, conn, queue, main, work, panicked, accepted>>

\* Mutated: the send does not look at the capacity.
EnqueueUnbounded ==
  /\ Alive /\ inbox # <<>>
  /\ inbox' = Tail(inbox)
  /\ IF closed
     THEN panicked' = TRUE /\ UNCHANGED <<cmdCh, accepted>>
     ELSE /\ cmdCh' = Append(cmdCh, Head(inbox))
          /\ accepted' = Append(accepted, Head(inbox))
          /\ UNCHANGED panicked
  /\ UNCHANGED <<sent, subscribed, conn, closed, main, work>>

\* Mutated: when the channel is full the oldest command makes room.
EnqueueDropsOldest ==
  /\ Alive /\ inbox # <<>>
  /\ inbox' = Tail(inbox)
  /\ IF closed
     THEN panicked' = TRUE /\ UNCHANGED <<cmdCh, accepted>>
     ELSE /\ cmdCh' = Append(IF Len(cmdCh) < Cap THEN cmdCh ELSE Tail(cmdCh), Head(inbox))
          /\ accepted' = Append(accepted, Head(inbox))
          /\ UNCHANGED panicked
  /\ UNCHANGED <<sent, subscribed, conn, closed, main, work>>

\* enqueueCommand: the select panics on a closed channel, and drops on a full one.
Enqueue ==
  /\ Alive /\ inbox # <<>>
  /\ inbox' = Tail(inbox)
  /\ IF closed
     THEN panicked' = TRUE /\ UNCHANGED <<cmdCh, accepted>>
     ELSE IF Len(cmdCh) < Cap
     THEN /\ cmdCh' = Append(cmdCh, Head(inbox))
          /\ accepted' = Append(accepted, Head(inbox))
          /\ UNCHANGED panicked
     ELSE UNCHANGED <<cmdCh, accepted, panicked>>
  /\ UNCHANGED <<sent, subscribed, conn, closed, main, work>>

\* Drain: the messages that are there are still delivered, then the connection closes.
Drained ==
  /\ Alive /\ conn = "draining" /\ inbox = <<>>
  /\ conn' = "closed"
  /\ UNCHANGED <<sent, inbox, subscribed, queue, main, work, panicked, accepted>>

-----------------------------------------------------------------------------
(***************************************************************************)
(* Run and shutdown.                                                       *)
(***************************************************************************)

Main(from, to) == Alive /\ main = from /\ main' = to

Subscribe ==
  /\ Main("subscribe", "loop")
  /\ subscribed' = TRUE
  /\ UNCHANGED <<sent, inbox, conn, queue, work, panicked, accepted>>

StartLoop ==
  /\ Main("loop", "webhook")
  /\ worker' = "idle"
  /\ UNCHANGED <<sent, inbox, subscribed, conn, queue, cur, approvals, panicked, accepted,
                 executed>>

\* The webhook server listens; if it cannot, Run returns at once.
Listen ==
  /\ Main("webhook", "poller")
  /\ UNCHANGED <<sent, inbox, subscribed, conn, queue, work, panicked, accepted>>

ListenFails ==
  /\ Main("webhook", "failed")
  /\ conn' = "draining"
  /\ UNCHANGED <<sent, inbox, subscribed, queue, work, panicked, accepted>>

\* The poller starts, or its configuration is wrong and Run shuts down.
StartPoller ==
  /\ Main("poller", "running") \/ Main("poller", "close")
  /\ UNCHANGED <<sent, inbox, subscribed, conn, queue, work, panicked, accepted>>

\* A signal, Stop, or an error of the webhook server or the poller.
Shutdown ==
  /\ Main("running", "close")
  /\ UNCHANGED <<sent, inbox, subscribed, conn, queue, work, panicked, accepted>>

\* Mutated: the worker is waited for before the channel is closed.
CloseQueueLate ==
  /\ worker = "done"
  /\ Main("close", "wait")
  /\ closed' = TRUE
  /\ UNCHANGED <<sent, inbox, subscribed, conn, cmdCh, work, panicked, accepted>>

CloseQueue ==
  /\ Main("close", "wait")
  /\ closed' = TRUE
  /\ UNCHANGED <<sent, inbox, subscribed, conn, cmdCh, work, panicked, accepted>>

\* Mutated: shutdown does not wait for the worker.
AwaitWorkerNot ==
  /\ Main("wait", "agent")
  /\ UNCHANGED <<sent, inbox, subscribed, conn, queue, work, panicked, accepted>>

AwaitWorker ==
  /\ worker = "done"
  /\ Main("wait", "agent")
  /\ UNCHANGED <<sent, inbox, subscribed, conn, queue, work, panicked, accepted>>

\* agent.Close starts to drain the connection in the background.
CloseAgent ==
  /\ Alive /\ main = "agent" /\ conn = "open"
  /\ conn' = "draining"
  /\ UNCHANGED <<sent, inbox, subscribed, queue, main, work, panicked, accepted>>

\* Run returns, the process ends, whether the connection is drained or not.
Return ==
  /\ conn # "open"
  /\ Main("agent", "exited")
  /\ UNCHANGED <<sent, inbox, subscribed, conn, queue, work, panicked, accepted>>

-----------------------------------------------------------------------------
(***************************************************************************)
(* commandLoop and executeCommand.                                         *)
(***************************************************************************)

Others == <<sent, inbox, subscribed, conn, closed, main, panicked, accepted>>

TakeCommand ==
  /\ Alive /\ worker = "idle" /\ cmdCh # <<>>
  /\ cur' = Head(cmdCh) /\ cmdCh' = Tail(cmdCh)
  /\ worker' = "execute"
  /\ UNCHANGED <<Others, approvals, executed>>

\* executeCommand returns, with an error or without one.
Done ==
  /\ worker' = "idle" /\ cur' = None
  /\ executed' = Append(executed, cur)
  /\ UNCHANGED <<Others, cmdCh>>

\* A command that does not parse, has no valid signature, is unknown or lacks a
\* field is an error; what the ones other than approve_pr change on GitHub is left out.
Execute ==
  /\ Alive /\ worker = "execute"
  /\ UNCHANGED approvals
  /\ \/ Done
     \/ /\ ApproveOf[cur] # None
        /\ worker' = "reviews"
        /\ UNCHANGED <<Others, cmdCh, cur, executed>>

\* Mutated: the reviews that are there are not looked at.
ListReviewsBlindly ==
  /\ Alive /\ worker = "reviews"
  /\ UNCHANGED approvals
  /\ \/ Done
     \/ /\ worker' = "create"
        /\ UNCHANGED <<Others, cmdCh, cur, executed>>

\* ListReviews and Users.Get: an error or an approval of our own ends the command.
ListReviews ==
  /\ Alive /\ worker = "reviews"
  /\ UNCHANGED approvals
  /\ \/ Done
     \/ /\ approvals[ApproveOf[cur]] = 0
        /\ worker' = "create"
        /\ UNCHANGED <<Others, cmdCh, cur, executed>>

\* CreateReview: it fails, or the review is there, even if the answer is late.
CreateReview ==
  /\ Alive /\ worker = "create"
  /\ Done
  /\ approvals' \in {approvals, [approvals EXCEPT ![ApproveOf[cur]] = @ + 1]}

\* Mutated: the loop ends as soon as the channel is closed.
EndLoopAtOnce ==
  /\ Alive /\ worker = "idle" /\ closed
  /\ worker' = "done"
  /\ UNCHANGED <<Others, cmdCh, cur, approvals, executed>>

\* range ends when the channel is closed and empty.
EndLoop ==
  /\ Alive /\ worker = "idle" /\ closed /\ cmdCh = <<>>
  /\ worker' = "done"
  /\ UNCHANGED <<Others, cmdCh, cur, approvals, executed>>

-----------------------------------------------------------------------------
Worker == TakeCommand \/ Execute \/ ListReviews \/ CreateReview \/ EndLoop

Starting == Subscribe \/ StartLoop \/ Listen \/ ListenFails \/ StartPoller

Stopping == CloseQueue \/ AwaitWorker \/ CloseAgent \/ Return

\* The process has ended: what it has done stays as it is.
Ended == ~Alive /\ UNCHANGED githubVars

GitHubNext ==
  \/ \E c \in Commands : SendCommand(c)
  \/ Enqueue \/ Drained \/ Starting \/ Shutdown \/ Stopping \/ Worker \/ Ended

GitHubSpec == GitHubInit /\ [][GitHubNext]_githubVars

\* Goroutines run; a request to GitHub ends after 30 seconds at the latest.
GitHubFairSpec ==
  /\ GitHubSpec
  /\ WF_githubVars(Enqueue) /\ WF_githubVars(Starting)
  /\ WF_githubVars(Stopping) /\ WF_githubVars(Worker)

-----------------------------------------------------------------------------
(***************************************************************************)
(* Properties.                                                             *)
(***************************************************************************)

\* Done, at work and waiting together are what was accepted.
Kept == accepted = executed \o (IF cur = None THEN <<>> ELSE <<cur>>) \o cmdCh

\* "Drain command channel before closing agent connection" (agent.go:286): when
\* shutdown closes the connection every accepted command is executed.
DrainedBeforeClose ==
  main \in {"agent", "exited"} => worker = "done" /\ executed = accepted

\* The commands that were accepted are executed once each, in their order, also
\* those that shutdown finds in the channel.
InOrder == Kept /\ DrainedBeforeClose

\* "Check if we already approved this PR to avoid duplicate reviews"
\* (commands.go:78), whatever fails in between and however often it is asked.
OneApproval == \A p \in PRs : approvals[p] <= 1

\* An accepted command is executed, also when shutdown begins in the meantime, and
\* shutdown, which waits for it, comes to its end: unless Run fails at the start
\* or the process dies.
AcceptedRuns ==
  []<>(\/ main = "failed" \/ panicked
       \/ /\ \A c \in Commands : Contains(accepted, c) => Contains(executed, c)
          /\ main \notin {"close", "wait", "agent"})

\* The same comment, for every end of the process: once shutdown has closed the
\* channel, it does not end before every accepted command is executed.
ShutdownDrains == closed /\ ~Alive => executed = accepted
=============================================================================
