---------------------------- MODULE LinearPoller ----------------------------
(***************************************************************************)
(* The poller of the Linear agent (internal/linear/poller.go and the       *)
(* queries of client.go).                                                  *)
(*                                                                         *)
(* A poll notes the time, asks for the issues changed since the last poll, *)
(* then for the new comments, and moves lastSyncTime to the time it noted. *)
(* Linear goes on changing between these steps, and while it is answering. *)
(* The time of a query is formatted in whole seconds.                      *)
(***************************************************************************)
EXTENDS Integers, FiniteSets

CONSTANTS
  Issues, Comments,
  Second,       \* units of time in a second
  CommentsPage, \* comments in an answer, 50; there is no second page
  LookBack,     \* the poller starts at this time, and looks back to time 0
  MaxTime       \* bound: the time at which Linear stops changing

ASSUME LinearAssumption ==
  /\ IsFiniteSet(Issues) /\ IsFiniteSet(Comments) /\ Issues \cap Comments = {}
  /\ Second \in Nat \ {0} /\ CommentsPage \in Nat /\ LookBack \in Nat /\ MaxTime \in Nat

VARIABLES
  time,         \* the clock
  created,      \* Linear: creation of an issue or a comment, 0: not there
  changed,      \* Linear: its last change
  lastSyncTime, \* Poller.lastSyncTime
  polling,      \* where poll is: "no", "issues", "comments"
  now,          \* poll: the time noted at its begin
  told,         \* history: the change that was announced last
  toldNew,      \* history: how often an issue was announced as created
  dropped,      \* history: comments of a window that was given up
  moving        \* history: what changed between begin and answer of a poll

linearVars == <<time, created, changed, lastSyncTime, polling, now, told, toldNew, dropped, moving>>
linear == <<time, created, changed>>

Posts == Issues \cup Comments

LinearTypeOK ==
  /\ time \in Nat
  /\ created \in [Posts -> 0..time] /\ changed \in [Posts -> 0..time]
  /\ lastSyncTime \in 0..time /\ polling \in {"no", "issues", "comments"} /\ now \in 0..time
  /\ told \in [Posts -> 0..time] /\ toldNew \in [Issues -> Nat]
  /\ dropped \subseteq Comments /\ moving \subseteq Posts

LinearInit ==
  /\ time = 0 /\ created = [p \in Posts |-> 0] /\ changed = [p \in Posts |-> 0]
  /\ lastSyncTime = 0 /\ polling = "no" /\ now = 0
  /\ told = [p \in Posts |-> 0] /\ toldNew = [i \in Issues |-> 0]
  /\ dropped = {} /\ moving = {}

-----------------------------------------------------------------------------
\* Somebody creates or changes an issue, or comments on one.
Edit(p) ==
  /\ time < MaxTime
  /\ p \in Comments => created[p] = 0
  /\ time' = time + 1
  /\ created' = [created EXCEPT ![p] = IF @ = 0 THEN time + 1 ELSE @]
  /\ changed' = [changed EXCEPT ![p] = time + 1]
  /\ moving' = IF polling = "issues" THEN moving \cup {p} ELSE moving
  /\ UNCHANGED <<lastSyncTime, polling, now, told, toldNew, dropped>>

Elapse ==
  /\ time < MaxTime
  /\ time' = time + 1
  /\ UNCHANGED <<created, changed, lastSyncTime, polling, now, told, toldNew, dropped, moving>>

\* since.Format(time.RFC3339)
Formatted(t) == t - (t % Second)

\* The posts that match the filter of a query.
Matching(posts) == {p \in posts : changed[p] # 0 /\ changed[p] >= Formatted(lastSyncTime)}

-----------------------------------------------------------------------------
BeginPoll ==
  /\ polling = "no" /\ time >= LookBack
  /\ polling' = "issues" /\ now' = time
  /\ UNCHANGED <<linear, lastSyncTime, told, toldNew, dropped, moving>>

\* Mutated: an issue counts as new by the time of this poll.
IssuesArriveLate ==
  /\ polling = "issues"
  /\ \E missed \in SUBSET {i \in Issues : changed[i] > now} :
       LET issues == Matching(Issues) \ missed
       IN  /\ told' = [p \in Posts |-> IF p \in issues THEN changed[p] ELSE told[p]]
           /\ toldNew' = [i \in Issues |-> IF i \in issues /\ created[i] >= lastSyncTime
                                           THEN toldNew[i] + 1 ELSE toldNew[i]]
  /\ polling' = "comments"
  /\ UNCHANGED <<linear, lastSyncTime, now, dropped, moving>>

\* FetchUpdatedIssues, page by page, newest first: an issue that changes meanwhile
\* moves to the pages that were read already.  MapIssueEvent: it is announced as
\* created if it was created after the last poll.
IssuesArrive ==
  /\ polling = "issues"
  /\ \E missed \in SUBSET {i \in Issues : changed[i] > now} :
       LET issues == Matching(Issues) \ missed
       IN  /\ told' = [p \in Posts |-> IF p \in issues THEN changed[p] ELSE told[p]]
           /\ toldNew' = [i \in Issues |-> IF i \in issues /\ created[i] > lastSyncTime
                                           THEN toldNew[i] + 1 ELSE toldNew[i]]
  /\ polling' = "comments"
  /\ UNCHANGED <<linear, lastSyncTime, now, dropped, moving>>

\* The poll is given up, the next one asks for the same issues.
IssuesFail ==
  /\ polling = "issues"
  /\ polling' = "no"
  /\ UNCHANGED <<linear, lastSyncTime, now, told, toldNew, dropped, moving>>

\* Mutated: the next poll starts from the end of this one.
EndPollNow(comments) ==
  /\ polling = "comments"
  /\ told' = [p \in Posts |-> IF p \in comments THEN changed[p] ELSE told[p]]
  /\ dropped' = dropped \cup
       {c \in Matching(Comments) : c \notin comments /\ told[c] = 0 /\ created[c] <= now}
  /\ polling' = "no" /\ lastSyncTime' = time
  /\ UNCHANGED <<linear, now, toldNew, moving>>

\* The comments that arrived are announced, and lastSyncTime moves on.
EndPoll(comments) ==
  /\ polling = "comments"
  /\ told' = [p \in Posts |-> IF p \in comments THEN changed[p] ELSE told[p]]
  /\ dropped' = dropped \cup
       {c \in Matching(Comments) : c \notin comments /\ told[c] = 0 /\ created[c] <= now}
  /\ polling' = "no" /\ lastSyncTime' = now
  /\ UNCHANGED <<linear, now, toldNew, moving>>

\* One page of comments, the newest.
CommentsArrive ==
  EndPoll({c \in Matching(Comments) :
             Cardinality({d \in Matching(Comments) : created[d] > created[c]}) < CommentsPage})

\* That poll's comments are given up.
CommentsFail == EndPoll({})

LinearNext ==
  \/ \E p \in Posts : Edit(p)
  \/ Elapse \/ BeginPoll \/ IssuesArrive \/ IssuesFail \/ CommentsArrive \/ CommentsFail

LinearSpec == LinearInit /\ [][LinearNext]_linearVars

-----------------------------------------------------------------------------
(***************************************************************************)
(* Properties.                                                             *)
(***************************************************************************)

\* A change before lastSyncTime was announced: none falls between two windows, or
\* between the pages of an answer.  So was a comment, unless its window was
\* given up.
PostsTold ==
  \A p \in Posts :
    created[p] # 0 /\ changed[p] <= lastSyncTime => told[p] = changed[p] \/ p \in dropped

\* An issue is announced as created exactly once, if it leaves the polls alone
\* that are waiting for an answer.
CreatedOnce ==
  \A i \in Issues \ moving : created[i] # 0 /\ created[i] <= lastSyncTime => toldNew[i] = 1
=============================================================================
