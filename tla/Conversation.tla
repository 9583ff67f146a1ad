---------------------------- MODULE Conversation ----------------------------
(***************************************************************************)
(* The conversation store and its use by workflows                         *)
(* (internal/conversation, internal/workflow/luaconversation.go).          *)
(*                                                                         *)
(* A workflow gets a handle of a conversation and keeps it as long as it   *)
(* likes; the handle is the key, not the conversation.  A reply is three   *)
(* holds of the store's lock with a call of the LLM between the last two;  *)
(* the workflow does nothing else meanwhile, but other workflows and the   *)
(* cleanup do.  A unit of time is the period of the cleanup, a minute.     *)
(***************************************************************************)
EXTENDS Integers, Sequences

CONSTANTS
  Keys,        \* platform, channel and thread
  Workflows,   \* the goroutines of workflows
  maxHistory,  \* Store.maxHistory, 0: unlimited
  ttl,         \* Store.ttl
  CallLimit,   \* how long a reply waits for the LLM at most
  MaxMessages  \* bound: messages workflows add in a behaviour

ASSUME StoreAssumption == maxHistory \in Nat /\ ttl \in Nat
ASSUME BoundsAssumption == CallLimit \in Nat /\ MaxMessages \in Nat

VARIABLES
  convos,      \* Store.convos: the keys that have a conversation
  messages,    \* Conversation.Messages, empty where there is none
  metadata,    \* Conversation.Metadata: is there any?
  idle,        \* how long ago UpdatedAt is, up to ttl + 1
  handles,     \* the handles each workflow holds
  step,        \* where a workflow is in reply: "none", "asked", "calling"
  on,          \* the conversation it replies in
  question,    \* the number of the prompt it appended
  context,     \* what it sends to the LLM
  waited,      \* how long ago it appended the prompt
  sent,        \* history: number of messages given to the store
  log,         \* history: all messages of a conversation since its creation
  lost         \* history: prompts the store did not take

store == <<convos, messages, metadata, idle, log>>
replies == <<step, on, question, context, waited>>
conversationVars == <<convos, messages, metadata, idle, handles, step, on, question, context, waited,
          sent, log, lost>>

\* Messages are numbered; an assistant's is an answer to the prompt of that number.
Message == [n : Nat \ {0}, to : Nat]

ConversationTypeOK ==
  /\ convos \subseteq Keys
  /\ messages \in [Keys -> Seq(Message)] /\ log \in [Keys -> Seq(Message)]
  /\ maxHistory > 0 => \A k \in Keys : Len(messages[k]) <= maxHistory
  /\ metadata \in [Keys -> BOOLEAN] /\ idle \in [Keys -> 0 .. ttl + 1]
  /\ handles \in [Workflows -> SUBSET Keys]
  /\ step \in [Workflows -> {"none", "asked", "calling"}]
  /\ on \in [Workflows -> Keys] /\ question \in [Workflows -> Nat]
  /\ context \in [Workflows -> Seq(Message)] /\ waited \in [Workflows -> 0..CallLimit]
  /\ sent \in Nat /\ lost \subseteq 1..sent

ConversationInit ==
  /\ convos = {} /\ messages = [k \in Keys |-> <<>>] /\ metadata = [k \in Keys |-> FALSE]
  /\ idle = [k \in Keys |-> 0]
  /\ handles = [w \in Workflows |-> {}]
  /\ step = [w \in Workflows |-> "none"] /\ on \in [Workflows -> Keys]
  /\ question = [w \in Workflows |-> 0] /\ context = [w \in Workflows |-> <<>>]
  /\ waited = [w \in Workflows |-> 0]
  /\ sent = 0 /\ log = [k \in Keys |-> <<>>] /\ lost = {}

-----------------------------------------------------------------------------
(***************************************************************************)
(* The store; each operation holds its lock.                               *)
(***************************************************************************)

\* Mutated: one more, the oldest ones, one less.
TrimLate(s) ==
  IF maxHistory > 0 /\ Len(s) > maxHistory + 1 THEN SubSeq(s, Len(s) - maxHistory + 1, Len(s)) ELSE s
TrimNewest(s) == IF maxHistory > 0 /\ Len(s) > maxHistory THEN SubSeq(s, 1, maxHistory) ELSE s
TrimMore(s) ==
  IF maxHistory > 0 /\ Len(s) > maxHistory THEN SubSeq(s, Len(s) - maxHistory + 2, Len(s)) ELSE s

\* The newest maxHistory messages.
Trim(s) ==
  IF maxHistory > 0 /\ Len(s) > maxHistory THEN SubSeq(s, Len(s) - maxHistory + 1, Len(s)) ELSE s

\* Store.Append: without a conversation of that key the message is dropped.
AppendMessage(k, to) ==
  LET m == [n |-> sent + 1, to |-> to]
  IN  /\ sent' = sent + 1
      /\ IF k \in convos
         THEN /\ messages' = [messages EXCEPT ![k] = Trim(Append(@, m))]
              /\ log' = [log EXCEPT ![k] = Append(@, m)]
              /\ idle' = [idle EXCEPT ![k] = 0]
         ELSE UNCHANGED <<messages, log, idle>>
      /\ UNCHANGED <<convos, metadata, handles>>

\* Mutated: a conversation idle for exactly its time to live goes too.
CleanupEarly ==
  LET expired == {k \in convos : idle[k] >= ttl}
  IN  /\ convos' = convos \ expired
      /\ messages' = [k \in Keys |-> IF k \in expired THEN <<>> ELSE messages[k]]
      /\ log' = [k \in Keys |-> IF k \in expired THEN <<>> ELSE log[k]]
      /\ metadata' = [k \in Keys |-> metadata[k] /\ k \notin expired]
      /\ idle' = [k \in Keys |-> IF k \in expired THEN 0 ELSE idle[k]]
      /\ UNCHANGED <<handles, replies, sent, lost>>

\* Store.Cleanup, called by the ticker of runConversationCleanup.
Cleanup ==
  LET expired == {k \in convos : idle[k] > ttl}
  IN  /\ convos' = convos \ expired
      /\ messages' = [k \in Keys |-> IF k \in expired THEN <<>> ELSE messages[k]]
      /\ log' = [k \in Keys |-> IF k \in expired THEN <<>> ELSE log[k]]
      /\ metadata' = [k \in Keys |-> metadata[k] /\ k \notin expired]
      /\ idle' = [k \in Keys |-> IF k \in expired THEN 0 ELSE idle[k]]
      /\ UNCHANGED <<handles, replies, sent, lost>>

-----------------------------------------------------------------------------
(***************************************************************************)
(* Workflows.                                                              *)
(***************************************************************************)

\* Mutated: to get a handle counts as use of the conversation.
GetHandleTouches(w, k) ==
  /\ step[w] = "none"
  /\ convos' = convos \cup {k}
  /\ idle' = [idle EXCEPT ![k] = 0]
  /\ handles' = [handles EXCEPT ![w] = @ \cup {k}]
  /\ UNCHANGED <<messages, metadata, replies, sent, log, lost>>

\* sekia.conversation(platform, channel, thread): Store.GetOrCreate.
GetHandle(w, k) ==
  /\ step[w] = "none"
  /\ convos' = convos \cup {k}
  /\ handles' = [handles EXCEPT ![w] = @ \cup {k}]
  /\ UNCHANGED <<messages, metadata, idle, replies, sent, log, lost>>

\* conv:append(role, content)
AddMessage(w, k) ==
  /\ step[w] = "none" /\ k \in handles[w]
  /\ sent < MaxMessages
  /\ AppendMessage(k, 0)
  /\ UNCHANGED <<replies, lost>>

\* conv:metadata(key, value)
SetMetadata(w, k) ==
  /\ step[w] = "none" /\ k \in handles[w]
  /\ metadata' = [metadata EXCEPT ![k] = k \in convos]
  /\ UNCHANGED <<convos, messages, idle, handles, replies, sent, log, lost>>

\* conv:reply(prompt) appends the prompt,
Ask(w, k) ==
  /\ step[w] = "none" /\ k \in handles[w]
  /\ sent < MaxMessages
  /\ AppendMessage(k, 0)
  /\ lost' = IF k \in convos THEN lost ELSE lost \cup {sent + 1}
  /\ step' = [step EXCEPT ![w] = "asked"]
  /\ on' = [on EXCEPT ![w] = k]
  /\ question' = [question EXCEPT ![w] = sent + 1]
  /\ waited' = [waited EXCEPT ![w] = 0]
  /\ UNCHANGED context

\* reads the history and calls the LLM with it,
Read(w) ==
  /\ step[w] = "asked"
  /\ step' = [step EXCEPT ![w] = "calling"]
  /\ context' = [context EXCEPT ![w] = messages[on[w]]]
  /\ UNCHANGED <<store, handles, on, question, waited, sent, lost>>

Return(w) ==
  /\ step' = [step EXCEPT ![w] = "none"]
  /\ question' = [question EXCEPT ![w] = 0]
  /\ context' = [context EXCEPT ![w] = <<>>]
  /\ waited' = [waited EXCEPT ![w] = 0]
  /\ UNCHANGED on

\* and appends the answer,
Answer(w) ==
  /\ step[w] = "calling"
  /\ AppendMessage(on[w], question[w])
  /\ Return(w)
  /\ UNCHANGED lost

\* or an error is returned and the prompt stays without an answer.
LLMFails(w) ==
  /\ step[w] = "calling"
  /\ Return(w)
  /\ UNCHANGED <<store, handles, sent, lost>>

-----------------------------------------------------------------------------
\* A minute passes; the context of a call ends it in time.
Minute ==
  /\ \A w \in Workflows : step[w] # "none" => waited[w] < CallLimit
  /\ idle' = [k \in Keys |-> IF k \in convos /\ idle[k] <= ttl THEN idle[k] + 1 ELSE idle[k]]
  /\ waited' = [w \in Workflows |-> IF step[w] = "none" THEN waited[w] ELSE waited[w] + 1]
  /\ UNCHANGED <<convos, messages, metadata, handles, step, on, question, context, sent, log, lost>>

ConversationNext ==
  \/ \E w \in Workflows, k \in Keys :
       GetHandle(w, k) \/ AddMessage(w, k) \/ SetMetadata(w, k) \/ Ask(w, k)
  \/ \E w \in Workflows : Read(w) \/ Answer(w) \/ LLMFails(w)
  \/ Cleanup \/ Minute

ConversationSpec == ConversationInit /\ [][ConversationNext]_conversationVars

\* Time passes, the cleanup runs, and a call of the LLM ends.
ConversationFairSpec ==
  /\ ConversationSpec
  /\ WF_conversationVars(Minute) /\ WF_conversationVars(Cleanup)
  /\ \A w \in Workflows : WF_conversationVars(Read(w)) /\ WF_conversationVars(Answer(w) \/ LLMFails(w))

-----------------------------------------------------------------------------
(***************************************************************************)
(* Properties.                                                             *)
(***************************************************************************)

\* What a conversation holds is the end of what was appended to it since it was
\* created, however its workflows take turns (Store.Append).
RecentHistory == \A k \in Keys : messages[k] = Trim(log[k])

\* Conversations live at least as long as a reply may take.
Patient == ttl >= CallLimit

\* What the LLM is given holds the question it is to answer, unless that was
\* lost, or other workflows have filled the history with newer messages between
\* the two holds of the lock.
QuestionSeen ==
  Patient =>
    \A w \in Workflows :
      step[w] = "calling" /\ question[w] \notin lost =>
        \/ \E i \in DOMAIN context[w] : context[w][i].n = question[w]
        \/ /\ Len(context[w]) = maxHistory
           /\ \A i \in DOMAIN context[w] : context[w][i].n > question[w]

\* An answer follows its question in the same conversation: none expires under
\* a reply, to be created anew by somebody else before the answer comes.
AnswersFollow ==
  Patient =>
    \A k \in Keys : \A i \in DOMAIN log[k] :
      log[k][i].to \in {0} \cup lost \/ \E j \in 1 .. i - 1 : log[k][j].n = log[k][i].to

\* Both together: in a conversation that outlives its replies the LLM is asked what
\* the workflow asked, and what it answers stands behind that question.
Dialogue == QuestionSeen /\ AnswersFollow

\* A conversation to which nothing is appended any more goes, even if workflows
\* go on to get handles of it and to set its metadata.
Evicted == \A k \in Keys : []<>(k \notin convos)
=============================================================================
