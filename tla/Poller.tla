------------------------------- MODULE Poller -------------------------------
(***************************************************************************)
(* The poller of the GitHub agent (internal/github/poller.go and the       *)
(* listings of commands.go).                                               *)
(*                                                                         *)
(* A cycle goes through the listings of every repository, page by page.    *)
(* Each tick emits at most perTick items and leaves a cursor where the     *)
(* next one goes on.  When the cursor is through, time-based polling asks  *)
(* from then on only for what changed since the cycle began; polling by    *)
(* label or for pull requests lists everything that matches, every cycle.  *)
(*                                                                         *)
(* GitHub sorts a listing by the time of the last change, newest first,    *)
(* and answers page p of size s with the items of rank (p-1)*s to p*s-1.   *)
(* Between two requests items change, appear and vanish.  The times it     *)
(* gives are whole seconds; the poller's own are not.                      *)
(***************************************************************************)
EXTENDS Integers, FiniteSets

CONSTANTS
  Items,       \* issues, pull requests and comments
  RepoOf,      \* the repository of each, a number
  Kind,        \* "issue", "pr" or "comment"
  LabelsOf,    \* the labels of each, numbers
  Configs,     \* what the configuration file may say
  PageCap,     \* the most items GitHub puts on a page, 100
  OldestFirst, \* the order of comments, of which the request does not say
  Second,      \* units of time in a second
  Start,       \* the time the poller starts at
  Histories,   \* when each item may have changed last by then, 0: not there
  MaxTime      \* bound: the time that passes in a behaviour

ASSUME ItemsAssumption == IsFiniteSet(Items) /\ Kind \in [Items -> {"issue", "pr", "comment"}]
ASSUME ReposAssumption == RepoOf \in [Items -> Nat]
ASSUME ConfigsAssumption ==
  Configs \subseteq [perTick : Nat \ {0}, repos : Nat, labels : Nat, matchPRs : BOOLEAN]
ASSUME BoundsAssumption == PageCap \in Nat \ {0} /\ MaxTime \in Nat
ASSUME GitHubAssumption == OldestFirst \in BOOLEAN /\ Second \in Nat \ {0}
ASSUME HistoriesAssumption ==
  /\ Start \in Nat /\ Histories \subseteq [Items -> 0..Start]
  /\ \A h \in Histories : \A i, j \in Items : h[i] = h[j] /\ h[i] # 0 => i = j

VARIABLES
  updated,     \* GitHub: time of the last change of each item, 0: not there
  clock,       \* the time
  config,      \* the part of PollerConfig that matters
  lastSync,    \* Poller.lastSyncTime
  cycleSince,  \* Poller.cycleSince
  inCycle,     \* Poller.inCycle
  cursor,      \* Poller.cursor
  seen,        \* Poller.seenIssues
  ticking,     \* a tick is under way
  budget,      \* tick: how many items it may still emit
  told,        \* history: the change of each item that was emitted last
  due,         \* history: items this cycle must emit, if nothing happens to them
  emitted,     \* history: items this cycle emitted
  again,       \* history: items this cycle emitted more than once
  begun,       \* history: the times lastSync and cycleSince have had
  still        \* history: nothing changed on GitHub during this cycle

github == <<updated, clock>>
cycle == <<lastSync, cycleSince, inCycle>>
history == <<told, due, emitted, again, begun, still>>
pollerVars == <<updated, clock, config, lastSync, cycleSince, inCycle, cursor, seen, ticking,
                budget, told, due, emitted, again, begun, still>>

\* isPRMatchMode, isLabelMode.
Mode == IF config.matchPRs THEN "pr" ELSE IF config.labels > 0 THEN "label" ELSE "time"

PollerTypeOK ==
  /\ updated \in [Items -> 0..clock] /\ clock \in Nat
  /\ config \in Configs
  /\ lastSync \in 0..clock /\ cycleSince \in 0..clock /\ inCycle \in BOOLEAN
  /\ cursor \in [repo : Nat, label : Nat, phase : 0..2, page : Nat \ {0}]
  /\ seen \subseteq Items
  /\ ticking \in BOOLEAN /\ budget \in 0..config.perTick
  /\ told \in [Items -> 0..clock]
  /\ due \subseteq Items /\ emitted \subseteq Items /\ again \subseteq Items
  /\ begun \subseteq 0..clock
  /\ still \in BOOLEAN

FirstCursor == [repo |-> 1, label |-> 1, phase |-> 0, page |-> 1]

\* NewPoller looks back: lastSyncTime lies five minutes in the past, which is here
\* a second or more.
PollerInit ==
  /\ config \in Configs
  /\ updated \in Histories /\ clock = Start
  /\ lastSync \in {t \in 0..Start : t + Second <= Start}
  /\ cycleSince = 0 /\ inCycle = FALSE
  /\ cursor = FirstCursor /\ seen = {}
  /\ ticking = FALSE /\ budget = 0
  /\ told = [i \in Items |-> IF updated[i] < lastSync THEN updated[i] ELSE 0]
  /\ due = {} /\ emitted = {} /\ again = {} /\ begun = {lastSync} /\ still = TRUE

-----------------------------------------------------------------------------
(***************************************************************************)
(* GitHub.                                                                 *)
(***************************************************************************)

\* Time passes, and nothing changes.
Wait ==
  /\ clock < Start + MaxTime
  /\ clock' = clock + 1
  /\ UNCHANGED <<updated, config, cycle, cursor, seen, ticking, budget, history>>

Change(i, time) ==
  /\ clock < Start + MaxTime
  /\ clock' = clock + 1
  /\ updated' = [updated EXCEPT ![i] = time]
  /\ due' = due \ {i}
  /\ still' = FALSE
  /\ UNCHANGED <<config, cycle, cursor, seen, ticking, budget, told, emitted, again, begun>>

\* Item i is created or changed: it moves to the front of its listings.
Touch(i) == Change(i, clock + 1)

\* Item i is deleted, loses its label or changes its state: what follows moves up.
Vanish(i) == updated[i] # 0 /\ Change(i, 0)

\* The items of a listing before item i.
Order(i) == IF Kind[i] = "comment" /\ OldestFirst THEN -updated[i] ELSE updated[i]
Before(listing, i) == {j \in listing : Order(j) > Order(i)}

\* Page p of size s of the listing of a set of items.
Page(listing, p, s) ==
  {i \in listing : Cardinality(Before(listing, i)) \in (p - 1) * s .. p * s - 1}

\* The number of the page after it, 0 if there is none.
NextPage(listing, p, s) == IF Cardinality(listing) > p * s THEN p + 1 ELSE 0

\* The items of the cursor's repository.
Here == {i \in Items : updated[i] # 0 /\ RepoOf[i] = cursor.repo}
OfKind(kinds) == {i \in Here : Kind[i] \in kinds}

\* A time in whole seconds: as GitHub gives updated_at, and is told of since.
Cut(t) == (t \div Second) * Second

\* What GitHub takes to have changed since the last cycle, and what the poller does.
Since == {i \in Here : Cut(updated[i]) >= Cut(lastSync)}
NotBefore == {i \in Here : Cut(updated[i]) >= lastSync}

-----------------------------------------------------------------------------
(***************************************************************************)
(* tick                                                                    *)
(***************************************************************************)

\* What a cycle that begins now has to emit, if it is not to lose anything.
Due ==
  {i \in Items : /\ updated[i] # 0 /\ RepoOf[i] \in 1..config.repos
                 /\ CASE Mode = "time" -> updated[i] # told[i]
                      [] Mode = "label" -> Kind[i] = "issue" /\ LabelsOf[i] \cap 1..config.labels # {}
                      [] Mode = "pr" -> Kind[i] = "pr" /\ 1..config.labels \subseteq LabelsOf[i]}

\* Mutated: every tick starts at the first page again.
BeginTickAnew ==
  /\ ~ticking
  /\ ticking' = TRUE /\ budget' = config.perTick
  /\ inCycle' = TRUE
  /\ cursor' = FirstCursor
  /\ IF inCycle
     THEN UNCHANGED <<cycleSince, seen, due, emitted, again, begun, still>>
     ELSE /\ cycleSince' = clock /\ begun' = begun \cup {clock} /\ seen' = {}
          /\ due' = Due /\ emitted' = {} /\ again' = {} /\ still' = TRUE
  /\ UNCHANGED <<github, config, lastSync, told>>

\* A tick goes on with the cycle under way, or begins a new one.
BeginTick ==
  /\ ~ticking
  /\ ticking' = TRUE /\ budget' = config.perTick
  /\ inCycle' = TRUE
  /\ IF inCycle
     THEN UNCHANGED <<cycleSince, cursor, seen, due, emitted, again, begun, still>>
     ELSE /\ cycleSince' = clock /\ begun' = begun \cup {clock}
          /\ cursor' = FirstCursor /\ seen' = {}
          /\ due' = Due /\ emitted' = {} /\ again' = {} /\ still' = TRUE
  /\ UNCHANGED <<github, config, lastSync, told>>

Exhausted == cursor.repo > config.repos

\* The loop of the tick goes on with another request.
Polling == ticking /\ budget > 0 /\ ~Exhausted

\* advanceCursor
Advanced(next) ==
  LET nextRepo == [FirstCursor EXCEPT !.repo = cursor.repo + 1]
  IN  CASE next > 0 -> [cursor EXCEPT !.page = next]
        [] next = 0 /\ Mode = "label" /\ cursor.label < config.labels ->
             [cursor EXCEPT !.label = @ + 1, !.page = 1]
        [] next = 0 /\ Mode = "time" /\ cursor.phase < 2 ->
             [cursor EXCEPT !.phase = @ + 1, !.page = 1]
        [] OTHER -> nextRepo

\* Mutated: the page size does not follow what is left of the budget.
PerPageFull == IF config.perTick > PageCap THEN PageCap ELSE config.perTick

PerPage == IF budget > PageCap THEN PageCap ELSE budget

\* A page of the listing arrives: the items to keep are emitted and counted.
\* A caller that knows better than GitHub ends the listing there.
FetchPage(listing, keep, end) ==
  LET page == Page(listing, cursor.page, PerPage)
      out == page \cap keep
  IN  /\ told' = [i \in Items |-> IF i \in out THEN updated[i] ELSE told[i]]
      /\ emitted' = emitted \cup out
      /\ again' = again \cup (emitted \cap out)
      /\ budget' = budget - Cardinality(out)
      /\ cursor' = Advanced(IF page \cap end # {} THEN 0
                            ELSE NextPage(listing, cursor.page, PerPage))
      /\ UNCHANGED <<github, config, cycle, ticking, due, begun, still>>

\* Issues changed since the last cycle; GitHub lists pull requests among them.
FetchIssues ==
  /\ Polling /\ Mode = "time" /\ cursor.phase = 0
  /\ FetchPage(Since \cap OfKind({"issue", "pr"}), OfKind({"issue"}), {})
  /\ UNCHANGED seen

\* All pull requests, up to the first that did not change since the last cycle.
FetchPRs ==
  /\ Polling /\ Mode = "time" /\ cursor.phase = 1
  /\ FetchPage(OfKind({"pr"}), NotBefore, Here \ NotBefore)
  /\ UNCHANGED seen

FetchComments ==
  /\ Polling /\ Mode = "time" /\ cursor.phase = 2
  /\ FetchPage(Since \cap OfKind({"comment"}), Here, {})
  /\ UNCHANGED seen

\* Issues with the label, those that another label gave already left out.
FetchIssuesByLabel ==
  /\ Polling /\ Mode = "label"
  /\ FetchPage({i \in OfKind({"issue", "pr"}) : cursor.label \in LabelsOf[i]},
               OfKind({"issue"}) \ seen, {})
  /\ seen' = seen \cup (emitted' \ emitted)

\* Pull requests; with labels GitHub is asked for issues with all of them.
FetchPRsByState ==
  /\ Polling /\ Mode = "pr"
  /\ FetchPage(IF config.labels = 0 THEN OfKind({"pr"})
               ELSE {i \in OfKind({"issue", "pr"}) : 1..config.labels \subseteq LabelsOf[i]},
               OfKind({"pr"}), {})
  /\ UNCHANGED seen

Fetch ==
  FetchIssues \/ FetchPRs \/ FetchComments \/ FetchIssuesByLabel \/ FetchPRsByState

\* Mutated: after an error the listing is read from its first page again, and
\* the cycle with it.
FailRestarts ==
  /\ Polling
  /\ ticking' = FALSE
  /\ cursor' = FirstCursor
  /\ UNCHANGED <<github, config, cycle, seen, budget, history>>

\* The request fails: the tick ends, the next one tries again from here.
Fail ==
  /\ Polling
  /\ ticking' = FALSE
  /\ UNCHANGED <<github, config, cycle, cursor, seen, budget, history>>

\* Mutated: the next cycle asks for what changes after the end of this one.
EndTickNow ==
  /\ ticking /\ (budget <= 0 \/ Exhausted)
  /\ ticking' = FALSE
  /\ inCycle' = ~Exhausted
  /\ lastSync' = IF Exhausted /\ Mode = "time" THEN clock ELSE lastSync
  /\ UNCHANGED <<github, config, cycleSince, cursor, seen, budget, history>>

\* The budget is spent, or the cycle is complete.
EndTick ==
  /\ ticking /\ (budget <= 0 \/ Exhausted)
  /\ ticking' = FALSE
  /\ inCycle' = ~Exhausted
  /\ lastSync' = IF Exhausted /\ Mode = "time" THEN cycleSince ELSE lastSync
  /\ UNCHANGED <<github, config, cycleSince, cursor, seen, budget, history>>

-----------------------------------------------------------------------------
PollerNext ==
  \/ Wait \/ \E i \in Items : Touch(i) \/ Vanish(i)
  \/ BeginTick \/ Fetch \/ Fail \/ EndTick

PollerSpec == PollerInit /\ [][PollerNext]_pollerVars

\* The ticker ticks, and requests do not fail for ever.
PollerFairSpec ==
  PollerSpec /\ WF_pollerVars(BeginTick) /\ WF_pollerVars(EndTick) /\ SF_pollerVars(Fetch)

-----------------------------------------------------------------------------
(***************************************************************************)
(* Properties.                                                             *)
(***************************************************************************)

\* Every listing fits on the first page, whatever was emitted in the tick before.
Roomy ==
  PageCap >= Cardinality(Items) /\ config.perTick >= 2 * Cardinality(Items)

\* There is one listing, all of it is emitted, and a tick is a page, so that all
\* pages have the same size; and nothing moves between them.
OneListing ==
  /\ Mode = "pr" /\ config.repos = 1 /\ config.labels = 0
  /\ config.perTick <= PageCap
  /\ still

\* A pull request that changed in the second in which a cycle began, after it did:
\* its updated_at lies before the time the next cycle asks from.
Late(i) ==
  /\ Mode = "time" /\ Kind[i] = "pr"
  /\ \E time \in begun : time <= updated[i] /\ Cut(updated[i]) < time

\* A cycle that is complete emitted all that was changed before it began (or
\* that matches) and was left alone since: nothing falls between two cycles,
\* two listings, two pages, or a failed request and its repetition, but for a
\* pull request that ListPRsPage takes for older than it is (commands.go:120).
Complete ==
  ~inCycle /\ (Roomy \/ OneListing) => \A i \in due \ emitted : Late(i)

\* Nor is an item that was left alone emitted twice in a cycle.
AtMostOnce == Roomy \/ OneListing => again \cap due = {}

\* The same for every configuration: "Each tick fetches at most perTick items,
\* resuming from where it left off via a cursor.  When all items for all repos
\* are consumed, it advances lastSyncTime" (poller.go:38-40).
AllConsumed == ~inCycle /\ still => due \subseteq emitted

\* Polling never gets stuck in a cycle, once GitHub is quiet.
CyclesEnd == []<>~inCycle
=============================================================================
