------------------------------ MODULE Sentinel ------------------------------
(***************************************************************************)
(* The sentinel (internal/sentinel): at every tick it reads the checklist, *)
(* looks at agents and workflows, asks the LLM what needs attention, and   *)
(* publishes an event for every action of the answer.  Stop cancels its    *)
(* context and does not wait; the loop chooses at random between a tick    *)
(* that is due and a context that is done.                                 *)
(***************************************************************************)
EXTENDS Naturals

CONSTANT MaxActions  \* bound: actions of an answer

ASSUME MaxActionsAssumption == MaxActions \in Nat

VARIABLES
  loop,       \* "off", "select", "checklist", "asking", "acting", "ended"
  due,        \* the ticker's channel, which holds one tick
  cancelled,  \* the context is done
  actions     \* actions of the answer still to be published

sentinelVars == <<loop, due, cancelled, actions>>

SentinelTypeOK ==
  /\ loop \in {"off", "select", "checklist", "asking", "acting", "ended"}
  /\ due \in BOOLEAN /\ cancelled \in BOOLEAN /\ actions \in 0..MaxActions

SentinelInit == loop = "off" /\ due = FALSE /\ cancelled = FALSE /\ actions = 0

Begin ==
  /\ loop = "off"
  /\ loop' = "select"
  /\ UNCHANGED <<due, cancelled, actions>>

\* The daemon shuts down: Stop cancels the context.
Cancel ==
  /\ loop # "off" /\ ~cancelled
  /\ cancelled' = TRUE
  /\ UNCHANGED <<loop, due, actions>>

\* A tick that finds the channel full is lost.
Interval ==
  /\ loop \notin {"off", "ended"}
  /\ due' = TRUE
  /\ UNCHANGED <<loop, cancelled, actions>>

TakeTick ==
  /\ loop = "select" /\ due
  /\ loop' = "checklist" /\ due' = FALSE
  /\ UNCHANGED <<cancelled, actions>>

End ==
  /\ loop = "select" /\ cancelled
  /\ loop' = "ended"
  /\ UNCHANGED <<due, cancelled, actions>>

\* loadChecklist: a file that is missing, empty or unreadable ends the check;
\* otherwise gatherContext takes its picture and the LLM is asked.
ReadChecklist(items) ==
  /\ loop = "checklist"
  /\ loop' = IF items THEN "asking" ELSE "select"
  /\ UNCHANGED <<due, cancelled, actions>>

\* Mutated: the call is made without the context of the loop and without a timeout.
AskFailsUncancelled ==
  /\ loop = "asking" /\ ~cancelled
  /\ loop' = "select"
  /\ UNCHANGED <<due, cancelled, actions>>

\* The call fails: an error, 120 seconds, or the context is done.
AskFails ==
  /\ loop = "asking"
  /\ loop' = "select"
  /\ UNCHANGED <<due, cancelled, actions>>

\* processResult: an answer that does not parse has no actions.
Answered(n) ==
  /\ loop = "asking"
  /\ loop' = IF n = 0 THEN "select" ELSE "acting"
  /\ actions' = n
  /\ UNCHANGED <<due, cancelled>>

\* One event per action; an error goes on with the next one.
Act ==
  /\ loop = "acting"
  /\ actions' = actions - 1
  /\ loop' = IF actions = 1 THEN "select" ELSE "acting"
  /\ UNCHANGED <<due, cancelled>>

\* What the loop does in a check without anybody's help.
CheckStep == Act \/ AskFails \/ \E items \in BOOLEAN : ReadChecklist(items)

SentinelNext ==
  \/ Begin \/ Cancel \/ Interval \/ TakeTick \/ End \/ CheckStep
  \/ \E n \in 0..MaxActions : Answered(n)

SentinelSpec == SentinelInit /\ [][SentinelNext]_sentinelVars

-----------------------------------------------------------------------------
\* Once stopped the loop ends, whether it waits, asks an LLM that never answers or
\* has ticks due, although Stop does not wait for it.
SentinelEnds == []<>(cancelled => loop = "ended")
=============================================================================
