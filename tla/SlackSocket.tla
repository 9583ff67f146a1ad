----------------------------- MODULE SlackSocket -----------------------------
(***************************************************************************)
(* How events of Slack become events of sekia: SocketModeListener          *)
(* (internal/slack/socketmode.go) and the mapping (events.go).             *)
(*                                                                         *)
(* Slack sends envelopes over the socket and sends one again that was not  *)
(* acknowledged.  One goroutine acknowledges each before it maps it and    *)
(* publishes what comes of it.  A panic ends that goroutine, not the agent. *)
(* The workflows answer with messages of the bot, of which Slack tells the *)
(* agent as of any other.                                                  *)
(***************************************************************************)
EXTENDS Naturals, Sequences, FiniteSets

CONSTANTS
  Envelopes,      \* what may happen in the workspace, each once
  Type,           \* of each: "message", "own" (by the bot), "edit" (a subtype),
                  \* "reaction", "channel", "actions", "view", "other" or "hello"
  Actions,        \* how many block actions an interaction has
  Buffer,         \* capacity of smClient.Events, 50
  MaxDeliveries   \* bound: how often Slack sends an envelope

ASSUME TypesAssumption ==
  Type \in [Envelopes -> {"message", "own", "edit", "reaction", "channel", "actions", "view",
                          "other", "hello"}]
ASSUME SlackBoundsAssumption ==
  Actions \in Nat \ {0} /\ Buffer \in Nat \ {0} /\ MaxDeliveries \in Nat

VARIABLES
  listener,    \* Run: "auth", "running" or "failed"
  handler,     \* handleEvents: "none", "select", "map", "publish", "dead" or "done"
  botUserID,   \* it is known
  pending,     \* Slack: envelopes that happened and are not acknowledged
  happened,    \* those that happened
  events,      \* smClient.Events
  acks,        \* acknowledgements on their way to Slack
  current,     \* processEvent: the envelope, as a set of one or none
  rest,        \* the events that are still to be published of it
  delivered,   \* history: how often each was put into the channel
  handled,     \* history: how often the handler took each
  acked,       \* history: those Slack has the acknowledgement of
  published    \* history: how many events were published of each

slackVars == <<listener, handler, botUserID, pending, happened, events, acks, current, rest,
               delivered, handled, acked, published>>
slack == <<pending, happened, delivered, acked>>

SlackTypeOK ==
  /\ listener \in {"auth", "running", "failed"} /\ botUserID \in BOOLEAN
  /\ handler \in {"none", "select", "map", "publish", "dead", "done"}
  /\ pending \subseteq Envelopes /\ happened \subseteq Envelopes
  /\ events \in Seq(Envelopes) /\ Len(events) <= Buffer
  /\ acks \subseteq Envelopes /\ current \subseteq Envelopes /\ rest \in 0..Actions
  /\ delivered \in [Envelopes -> 0..MaxDeliveries] /\ handled \in [Envelopes -> Nat]
  /\ acked \subseteq Envelopes /\ published \in [Envelopes -> Nat]

SlackInit ==
  /\ listener = "auth" /\ handler = "none" /\ botUserID = FALSE
  /\ pending = {} /\ happened = {} /\ events = <<>> /\ acks = {}
  /\ current = {} /\ rest = 0
  /\ delivered = [e \in Envelopes |-> 0] /\ handled = [e \in Envelopes |-> 0]
  /\ acked = {} /\ published = [e \in Envelopes |-> 0]

-----------------------------------------------------------------------------
(***************************************************************************)
(* Slack and the socket.                                                   *)
(***************************************************************************)

\* Something happens; the bot writes only when a workflow has got an event.
Happen(e) ==
  /\ e \notin happened
  /\ Type[e] = "own" => \E f \in Envelopes : published[f] > 0
  /\ happened' = happened \cup {e} /\ pending' = pending \cup {e}
  /\ UNCHANGED <<listener, handler, botUserID, events, acks, current, rest, delivered,
                 handled, acked, published>>

\* An envelope that is not acknowledged is sent, or sent again.
DeliverEnvelope(e) ==
  /\ listener = "running" /\ e \in pending
  /\ delivered[e] < MaxDeliveries /\ Len(events) < Buffer
  /\ events' = Append(events, e)
  /\ delivered' = [delivered EXCEPT ![e] = @ + 1]
  /\ UNCHANGED <<listener, handler, botUserID, pending, happened, acks, current, rest,
                 handled, acked, published>>

AckArrives(e) ==
  /\ e \in acks
  /\ acks' = acks \ {e} /\ pending' = pending \ {e} /\ acked' = acked \cup {e}
  /\ UNCHANGED <<listener, handler, botUserID, happened, events, current, rest, delivered,
                 handled, published>>

\* The socket breaks and is set up again: acknowledgements on their way are lost.
Disconnect ==
  /\ listener = "running" /\ acks # {}
  /\ acks' = {}
  /\ UNCHANGED <<listener, handler, botUserID, slack, events, current, rest, handled,
                 published>>

-----------------------------------------------------------------------------
(***************************************************************************)
(* SocketModeListener.                                                     *)
(***************************************************************************)

\* Mutated: the events are handled before the bot knows who it is.
RunEarly ==
  /\ listener = "auth"
  /\ listener' = "running" /\ handler' = "select"
  /\ UNCHANGED <<botUserID, slack, events, acks, current, rest, handled, published>>

\* Run: the bot learns its own user ID before the goroutine starts.
Run ==
  /\ listener = "auth"
  /\ listener' = "running" /\ handler' = "select" /\ botUserID' = TRUE
  /\ UNCHANGED <<slack, events, acks, current, rest, handled, published>>

\* Without it Run returns the error, and the agent ends.
AuthFails ==
  /\ listener = "auth"
  /\ listener' = "failed"
  /\ UNCHANGED <<handler, botUserID, slack, events, acks, current, rest, handled, published>>

\* processEvent acknowledges first; what has no envelope ID is not acknowledged.
TakeEnvelope ==
  /\ handler = "select" /\ events # <<>>
  /\ LET e == Head(events)
     IN  /\ current' = {e}
         /\ acks' = IF Type[e] = "hello" THEN acks ELSE acks \cup {e}
         /\ handled' = [handled EXCEPT ![e] = @ + 1]
  /\ events' = Tail(events)
  /\ handler' = "map"
  /\ UNCHANGED <<listener, botUserID, slack, rest, published>>

\* How many events MapSlackEvent and MapInteractionCallback make of an envelope:
\* none of the bot's own messages and of edits, one of each block action.
Mapped(e) ==
  CASE Type[e] \in {"message", "reaction", "channel"} -> 1
    [] Type[e] = "own" -> IF botUserID THEN 0 ELSE 1
    [] Type[e] = "actions" -> Actions
    [] OTHER -> 0

Map ==
  /\ handler = "map"
  /\ \E e \in current : rest' = Mapped(e)
  /\ handler' = "publish"
  /\ UNCHANGED <<listener, botUserID, slack, events, acks, current, handled, published>>

PublishNext ==
  /\ handler = "publish"
  /\ IF rest > 0
     THEN /\ rest' = rest - 1
          /\ published' = [e \in Envelopes |-> IF e \in current THEN published[e] + 1
                                               ELSE published[e]]
          /\ UNCHANGED <<handler, current>>
     ELSE handler' = "select" /\ current' = {} /\ UNCHANGED <<rest, published>>
  /\ UNCHANGED <<listener, botUserID, slack, events, acks, handled>>

\* processEvent panics: handleEvents recovers and ends, the socket goes on.
HandlerPanics ==
  /\ handler \in {"map", "publish"}
  /\ handler' = "dead"
  /\ UNCHANGED <<listener, botUserID, slack, events, acks, current, rest, handled, published>>

\* The context is cancelled: the goroutine ends between two envelopes.
CancelHandler ==
  /\ handler = "select"
  /\ handler' = "done"
  /\ UNCHANGED <<listener, botUserID, slack, events, acks, current, rest, handled, published>>

SlackNext ==
  \/ \E e \in Envelopes : Happen(e) \/ DeliverEnvelope(e) \/ AckArrives(e)
  \/ Disconnect \/ Run \/ AuthFails
  \/ TakeEnvelope \/ Map \/ PublishNext \/ HandlerPanics \/ CancelHandler

SlackSpec == SlackInit /\ [][SlackNext]_slackVars

-----------------------------------------------------------------------------
(***************************************************************************)
(* Property.                                                               *)
(***************************************************************************)

\* What a workflow is to be told of: not of what the bot itself wrote.
Wanted(e) ==
  CASE Type[e] \in {"message", "reaction", "channel"} -> 1
    [] Type[e] = "actions" -> Actions
    [] OTHER -> 0

\* No message of the bot comes back as an event, so that workflows that answer do
\* not answer themselves; and although the acknowledgement goes out first, and
\* envelopes come again when it is lost, one that Slack takes for received was
\* published in full, and none more often than it was sent, unless the handler
\* died over it (it is then gone: "no longer be acknowledged", socketmode.go:54).
Mirrored ==
  \A e \in Envelopes :
    /\ published[e] <= delivered[e] * Wanted(e)
    /\ e \in acked /\ e \notin current => published[e] >= Wanted(e)
=============================================================================
