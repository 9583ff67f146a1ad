------------------------------ MODULE Mailbox -------------------------------
(***************************************************************************)
(* What the workflow engine promises to the author of a workflow, without  *)
(* its map, its lock and its goroutines: every version of a workflow that  *)
(* was ever loaded is a mailbox that stands by, serves, drains and is gone. *)
(* A name has at most one serving mailbox; a new version takes over in the *)
(* same step in which the old one begins to drain; only a serving mailbox  *)
(* accepts events; it handles them in order; and it is not gone before it  *)
(* has handled all of them.                                                *)
(***************************************************************************)
EXTENDS Naturals, Sequences

CONSTANTS Names, Insts, None, Capacity, MaxEvents

VARIABLES
  life,    \* the stage of each mailbox
  owner,   \* the workflow it belongs to
  queue,   \* the events it accepted and has not handled
  log      \* the events it handled

mailboxVars == <<life, owner, queue, log>>

Serving == {i \in Insts : life[i] = "serving"}

Init ==
  /\ life = [i \in Insts |-> "absent"]
  /\ owner = [i \in Insts |-> None]
  /\ queue = [i \in Insts |-> <<>>]
  /\ log = [i \in Insts |-> <<>>]

\* A new version was built; it receives nothing yet.
Create(i, n) ==
  /\ life[i] = "absent"
  /\ life' = [life EXCEPT ![i] = "standby"]
  /\ owner' = [owner EXCEPT ![i] = n]
  /\ UNCHANGED <<queue, log>>

\* It takes over: in the same step the version it replaces stops accepting.
TakeOver(i) ==
  /\ life[i] = "standby"
  /\ life' = [j \in Insts |-> IF j = i THEN "serving"
                              ELSE IF j \in Serving /\ owner[j] = owner[i] THEN "draining"
                              ELSE life[j]]
  /\ UNCHANGED <<owner, queue, log>>

\* Some versions are withdrawn together (an unload, a full reload, the stop).
Withdraw(S) ==
  /\ S # {} /\ S \subseteq Serving
  /\ life' = [i \in Insts |-> IF i \in S THEN "draining" ELSE life[i]]
  /\ UNCHANGED <<owner, queue, log>>

\* An event reaches some serving mailboxes that have room for it.
Accept(e, S) ==
  /\ S # {} /\ S \subseteq {i \in Serving : Len(queue[i]) < Capacity}
  /\ queue' = [i \in Insts |-> IF i \in S THEN Append(queue[i], e) ELSE queue[i]]
  /\ UNCHANGED <<life, owner, log>>

\* The oldest event is handled, by a version that serves or drains.
Handle(i) ==
  /\ life[i] \in {"serving", "draining"} /\ queue[i] # <<>>
  /\ queue' = [queue EXCEPT ![i] = Tail(@)]
  /\ log' = [log EXCEPT ![i] = Append(@, Head(queue[i]))]
  /\ UNCHANGED <<life, owner>>

\* A withdrawn version disappears once it has handled everything.
Vanish(i) ==
  /\ life[i] = "draining" /\ queue[i] = <<>>
  /\ life' = [life EXCEPT ![i] = "gone"]
  /\ UNCHANGED <<owner, queue, log>>

Next ==
  \/ \E i \in Insts, n \in Names : Create(i, n)
  \/ \E i \in Insts : TakeOver(i) \/ Handle(i) \/ Vanish(i)
  \/ \E S \in SUBSET Insts : Withdraw(S)
  \/ \E S \in SUBSET Insts, e \in 1..MaxEvents : Accept(e, S)

Spec == Init /\ [][Next]_mailboxVars
=============================================================================
