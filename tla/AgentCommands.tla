---------------------------- MODULE AgentCommands ----------------------------
(***************************************************************************)
(* A command from the workflow (or the MCP client) that sends it to the    *)
(* service it changes, and the configuration reloads of the agent that     *)
(* executes it: pkg/protocol/signing.go, luaCommand, handleSendCommand,    *)
(* and handleCommand, the cmd functions and reloadConfig of the four       *)
(* agents under internal/.                                                 *)
(*                                                                         *)
(* The engine and the MCP server sign with the secret they were started    *)
(* with.  The agent takes the commands one after the other, compares the   *)
(* signature with the secret of its configuration, and makes the requests  *)
(* of the command; it counts an event or an error.  Two subscriptions, for *)
(* broadcast and for targeted reloads, write the configuration on two      *)
(* goroutines of their own, without a lock.                                *)
(***************************************************************************)
EXTENDS Naturals, Sequences, FiniteSets

CONSTANTS
  Setups,       \* the agents, and how they are started
  Secrets,      \* values of security.command_secret
  NoSecret,     \* it is empty; the signature of an unsigned command
  Polls,        \* values of the settings of the pollers
  DefaultPoll,  \* the one of a configuration that says nothing
  ConfigFiles,  \* what the configuration file may hold, [secret, poll] or
  Nothing,      \* it is not there or does not parse,
  BadRef,       \* or a secret in it does not resolve
  Garbled,      \* a string with the pointer of one and the length of another
  Unsettled,    \* history: no reload had brought the file's secret into force
  MaxSent,      \* bounds: commands,
  MaxEdits,     \* writes of the configuration file and restarts of senders,
  MaxFields     \* and project fields of a command

ASSUME SetupsAssumption ==
  Setups \subseteq [agent : {"slack", "linear", "google", "github"},
                    named : BOOLEAN,   \* with --name or --config
                    tokens : BOOLEAN,  \* what it cannot do without is in the environment
                    services : SUBSET {"gmail", "calendar"}]  \* Google: those switched on
ASSUME SecretsAssumption ==
  NoSecret \in Secrets /\ {Garbled, Unsettled} \cap Secrets = {} /\ DefaultPoll \in Polls
ASSUME ConfigFilesAssumption ==
  ConfigFiles \subseteq [secret : Secrets, poll : Polls] \cup {Nothing, BadRef}
ASSUME CommandBoundsAssumption ==
  MaxSent \in Nat /\ MaxEdits \in Nat /\ MaxFields \in Nat

Signers == {"engine", "mcp"}
Reloaders == {"broadcast", "targeted"}
Ids == 1..MaxSent

VARIABLES
  setup,     \* the agent, one of Setups
  up,        \* the process lives
  file,      \* the configuration file that reloadConfig reads
  edits,     \* how often it was written, or a sender restarted
  secret,    \* cfg.Security.CommandSecret
  poll,      \* the poll settings of cfg
  polled,    \* those the poller was built with
  reload,    \* each subscription's goroutine: idle, or what it has read
  fresh,     \* history: the last reload read the file as it is, and was alone
  keys,      \* the secret each sender signs with
  sends,      \* how many commands were sent
  wire,      \* the commands that the subscription has not delivered yet
  hand,      \* handleCommand: the command at work, 0: none
  left,      \* the requests that are left of it, <<>> before the verdict
  sign,      \* history: the signature of each command
  verdict,   \* history: "none", "malformed", "refused" or "admitted"
  judged,    \* history: the secret of the file when the command was judged
  want,      \* history: how many changes it is to make at the service
  made,      \* history: how many it made
  counted    \* history: "none", "event" or "error"

settings == <<secret, poll, polled>>
reloads == <<reload, fresh>>
records == <<sign, verdict, judged, want, made, counted>>
commandVars ==
  <<setup, up, file, edits, secret, poll, polled, reload,
    fresh, keys, sends, wire, hand, left, sign, verdict, judged, want, made, counted>>

agent == setup.agent

Contents == [secret : Secrets, poll : Polls]
Idle == [at |-> "idle", new |-> [secret |-> NoSecret, poll |-> DefaultPoll]]

CommandTypeOK ==
  /\ setup \in Setups /\ up \in BOOLEAN
  /\ file \in ConfigFiles /\ edits \in 0..MaxEdits
  /\ secret \in Secrets \cup {Garbled} /\ poll \in Polls /\ polled \in Polls
  /\ reload \in [Reloaders -> [at : {"idle", "read", "write"}, new : Contents]]
  /\ fresh \in BOOLEAN
  /\ keys \in [Signers -> Secrets] /\ sends \in 0..MaxSent
  /\ wire \in Seq(Ids) /\ hand \in 0..MaxSent
  /\ left \in Seq({"look", "make"})
  /\ sign \in [Ids -> Secrets]
  /\ verdict \in [Ids -> {"none", "malformed", "refused", "admitted"}]
  /\ judged \in [Ids -> Secrets \cup {Unsettled}]
  /\ want \in [Ids -> Nat] /\ made \in [Ids -> Nat]
  /\ counted \in [Ids -> {"none", "event", "error"}]

-----------------------------------------------------------------------------
(***************************************************************************)
(* LoadConfig: a file that does not parse is taken for one that is not     *)
(* there; without the tokens of the service there is no configuration.     *)
(***************************************************************************)
Loads(content) ==
  content # BadRef /\ (content = Nothing => setup.tokens)

LoadConfig(content) ==
  IF content = Nothing THEN [secret |-> NoSecret, poll |-> DefaultPoll] ELSE content

CommandInit ==
  /\ setup \in Setups /\ up = TRUE
  /\ file \in ConfigFiles /\ edits = 0
  /\ \/ setup.named /\ secret \in Secrets /\ poll \in Polls
     \/ /\ ~setup.named /\ Loads(file)
        /\ secret = LoadConfig(file).secret /\ poll = LoadConfig(file).poll
  /\ polled = poll
  /\ reload = [g \in Reloaders |-> Idle]
  /\ fresh = ~setup.named
  /\ keys = [s \in Signers |-> secret] /\ sends = 0
  /\ wire = <<>> /\ hand = 0 /\ left = <<>>
  /\ sign = [i \in Ids |-> NoSecret] /\ verdict = [i \in Ids |-> "none"]
  /\ judged = [i \in Ids |-> Unsettled]
  /\ want = [i \in Ids |-> 0] /\ made = [i \in Ids |-> 0]
  /\ counted = [i \in Ids |-> "none"]

-----------------------------------------------------------------------------
(***************************************************************************)
(* Sending.                                                                *)
(***************************************************************************)

\* luaCommand and handleSendCommand: SignCommand signs with the sender's secret, or
\* leaves the command unsigned if there is none, and the command is published.
Send(s) ==
  /\ up /\ sends < MaxSent
  /\ sends' = sends + 1
  /\ sign' = [sign EXCEPT ![sends + 1] = keys[s]]
  /\ wire' = Append(wire, sends + 1)
  /\ UNCHANGED <<setup, up, file, edits, settings, reloads, keys, hand, left,
                 verdict, judged, want, made, counted>>

\* The daemon or the MCP server starts again, with another secret.
RestartSender(s) ==
  /\ up /\ edits < MaxEdits
  /\ edits' = edits + 1
  /\ \E k \in Secrets : keys' = [keys EXCEPT ![s] = k]
  /\ UNCHANGED <<setup, up, file, settings, reloads, sends, wire, hand, left, records>>

-----------------------------------------------------------------------------
(***************************************************************************)
(* Reloading.                                                              *)
(***************************************************************************)

EditConfig ==
  /\ up /\ edits < MaxEdits
  /\ edits' = edits + 1
  /\ file' \in ConfigFiles
  /\ fresh' = FALSE
  /\ UNCHANGED <<setup, up, settings, reload, keys, sends, wire, hand, left,
                 records>>

\* What reloadConfig applies.
Reloaded ==
  [slack |-> {"secret"}, linear |-> {"poll", "secret"}, google |-> {"poll", "secret"},
   github |-> {"poll"}]

\* handleConfigReload of the API has published a signal, to everybody or to this
\* agent; reloadConfig reads the file of the default name, also in an instance
\* that was started with another.
ReadConfig(g) ==
  /\ up /\ reload[g].at = "idle"
  /\ IF Loads(file)
     THEN reload' = [reload EXCEPT ![g] = [at |-> "read", new |-> LoadConfig(file)]]
     ELSE UNCHANGED reload
  /\ fresh' = \A h \in Reloaders : reload[h].at = "idle"
  /\ UNCHANGED <<setup, up, file, edits, settings, keys, sends, wire, hand, left,
                 records>>

\* The poll settings of cfg are the new ones, not those of the poller.
ApplyPoll(g) ==
  /\ up /\ reload[g].at = "read"
  /\ poll' = IF "poll" \in Reloaded[agent] THEN reload[g].new.poll ELSE poll
  /\ reload' = [reload EXCEPT ![g] = IF "secret" \in Reloaded[agent]
                                     THEN [@ EXCEPT !.at = "write"] ELSE Idle]
  /\ UNCHANGED <<setup, up, file, edits, secret, polled, fresh, keys, sends, wire,
                 hand, left, records>>

\* Who else is writing the secret, without a lock.
Writing(g) == {h \in Reloaders \ {g} : reload[h].at = "write"}

\* Mutated: a secret that was taken out of the file stays.
ApplySecretSet(g) ==
  /\ up /\ reload[g].at = "write"
  /\ secret' = IF reload[g].new.secret # NoSecret THEN reload[g].new.secret ELSE secret
  /\ reload' = [reload EXCEPT ![g] = Idle]
  /\ UNCHANGED <<setup, up, file, edits, poll, polled, fresh, keys, sends, wire,
                 hand, left, records>>

\* The string is written: two words that another write may come between.
ApplySecret(g) ==
  /\ up /\ reload[g].at = "write"
  /\ secret' \in {reload[g].new.secret} \cup (IF Writing(g) # {} THEN {Garbled} ELSE {})
  /\ reload' = [reload EXCEPT ![g] = Idle]
  /\ UNCHANGED <<setup, up, file, edits, poll, polled, fresh, keys, sends, wire,
                 hand, left, records>>

ReloadStep(g) == ReadConfig(g) \/ ApplyPoll(g) \/ ApplySecret(g)

-----------------------------------------------------------------------------
(***************************************************************************)
(* The commands of each agent, the fields each cannot do without, and the  *)
(* requests it makes: "look" changes nothing at the service.               *)
(***************************************************************************)
Table ==
  [slack |->
     [send_message |-> {"channel", "text"}, update_message |-> {"channel", "timestamp", "text"},
      add_reaction |-> {"channel", "timestamp", "emoji"},
      send_reply |-> {"channel", "thread_ts", "text"}],
   linear |->
     [create_issue |-> {"team_id", "title"}, update_issue |-> {"issue_id", "input"},
      create_comment |-> {"issue_id", "body"}, add_label |-> {"issue_id", "label_id"}],
   github |->
     [add_label |-> {"owner", "repo", "number", "label"},
      remove_label |-> {"owner", "repo", "number", "label"},
      create_comment |-> {"owner", "repo", "number", "body"},
      close_issue |-> {"owner", "repo", "number"}, reopen_issue |-> {"owner", "repo", "number"},
      approve_pr |-> {"owner", "repo", "number"},
      add_to_project |-> {"owner", "repo", "number", "project_id", "field_id"}],
   google |->
     [send_email |-> {"to", "subject", "body"},
      reply_email |-> {"thread_id", "to", "subject", "body"},
      add_label |-> {"message_id", "label"}, remove_label |-> {"message_id", "label"},
      archive |-> {"message_id"}, trash |-> {"message_id"}, untrash |-> {"message_id"},
      delete |-> {"message_id"}, create_event |-> {"summary", "start", "end"},
      update_event |-> {"event_id"}, delete_event |-> {"event_id"}]]

Known == DOMAIN Table[agent]

\* The client whose methods the command calls is there.
Calendar == {"create_event", "update_event", "delete_event"}
HasClient(c) ==
  agent = "google" => (IF c \in Calendar THEN "calendar" ELSE "gmail") \in setup.services

Makes(n) == [k \in 1..n |-> "make"]

\* The requests a command may come to: looking up the pull request, adding it to the
\* project and setting its fields; looking for an approval, and approving.
Requests(c) ==
  CASE c = "add_to_project" -> {<<"look">> \o Makes(n) : n \in 1 .. MaxFields + 1}
    [] c = "approve_pr" -> {<<"look">>, <<"look", "make">>}
    [] OTHER -> {Makes(1)}

-----------------------------------------------------------------------------
(***************************************************************************)
(* handleCommand, executeCommand.                                          *)
(***************************************************************************)

Outside == <<setup, file, edits, settings, reloads, keys, sends, sign>>

Take ==
  /\ up /\ hand = 0 /\ wire # <<>>
  /\ hand' = Head(wire) /\ wire' = Tail(wire)
  /\ UNCHANGED <<Outside, up, left, verdict, judged, want, made, counted>>

\* The command is counted and the handler returns.
Finish(outcome) ==
  /\ counted' = [counted EXCEPT ![hand] = outcome]
  /\ hand' = 0 /\ left' = <<>>
  /\ UNCHANGED <<Outside, wire>>

\* Mutated: a command without a signature is not looked at further.
VerifyLoosely(signature, s) == s = NoSecret \/ signature \in {s, NoSecret}

VerifyCommand(signature, s) == s = NoSecret \/ signature = s

\* A reload that writes another secret at this moment, without a lock.
Tearing == {g \in Reloaders : reload[g].at = "write" /\ reload[g].new.secret # secret}

\* What the handler may read: the old value, the new one, or the halves of both.
Readings ==
  LET news == {reload[g].new.secret : g \in Tearing}
  IN  {secret} \cup news
        \cup (IF secret # NoSecret /\ news \ {NoSecret} # {} THEN {Garbled} ELSE {})

Judging == up /\ hand # 0 /\ verdict[hand] = "none"

\* The length of one string and the nil pointer of an empty one: the process dies.
TornRead ==
  /\ Judging
  /\ \E g \in Tearing : NoSecret \in {secret, reload[g].new.secret}
  /\ up' = FALSE
  /\ UNCHANGED <<Outside, wire, hand, left, verdict, judged, want, made, counted>>

\* The file and the agent are agreed when the last reload has read the file as it
\* is now, was the only one under way, and is through.
Settled ==
  /\ up /\ ~setup.named /\ Loads(file) /\ fresh
  /\ \A g \in Reloaders : reload[g].at = "idle"

Verdict(v) ==
  /\ verdict' = [verdict EXCEPT ![hand] = v]
  /\ judged' = [judged EXCEPT ![hand] =
                  IF Settled /\ "secret" \in Reloaded[agent] THEN LoadConfig(file).secret
                  ELSE Unsettled]

Malformed ==
  /\ Judging
  /\ Verdict("malformed") /\ Finish("error")
  /\ UNCHANGED <<up, want, made>>

Refuse ==
  /\ Judging
  /\ \E s \in Readings : ~VerifyCommand(sign[hand], s)
  /\ Verdict("refused") /\ Finish("error")
  /\ UNCHANGED <<up, want, made>>

\* The signature is good.  A command that the agent does not know or that lacks a
\* field is an error; one for the service of Google that is switched off calls a
\* method of a nil client, and the process dies; others have their requests made.
Perform(c, payload) ==
  CASE c \notin Known \/ ~(Table[agent][c] \subseteq payload) ->
         Finish("error") /\ UNCHANGED <<up, want>>
    [] c \in Known /\ Table[agent][c] \subseteq payload /\ ~HasClient(c) ->
         up' = FALSE /\ UNCHANGED <<Outside, wire, hand, left, want, counted>>
    [] OTHER ->
         \E requests \in Requests(c) :
           /\ left' = requests
           /\ want' = [want EXCEPT ![hand] =
                         Cardinality({k \in DOMAIN requests : requests[k] = "make"})]
           /\ UNCHANGED <<Outside, up, wire, hand, counted>>

\* Payloads have all the fields of the command, or all but one.
Payloads(c) ==
  IF c \in Known THEN {Table[agent][c]} \cup {Table[agent][c] \ {f} : f \in Table[agent][c]}
  ELSE {{}}

Admit ==
  /\ Judging
  /\ \E s \in Readings : VerifyCommand(sign[hand], s)
  /\ Verdict("admitted")
  /\ \E c \in Known \cup {"unknown"} : \E payload \in Payloads(c) : Perform(c, payload)
  /\ UNCHANGED made

Working == up /\ hand # 0 /\ left # <<>>

\* Mutated: a field that cannot be set does not keep the others from being set.
RequestFailsOn ==
  /\ Working
  /\ made' \in {made, [made EXCEPT ![hand] = IF Head(left) = "make" THEN @ + 1 ELSE @]}
  /\ IF Len(left) > 1
     THEN left' = Tail(left) /\ UNCHANGED <<Outside, wire, hand, counted>>
     ELSE Finish("event")
  /\ UNCHANGED <<up, verdict, judged, want>>

\* The request fails, or its answer comes later than the 30 seconds of the command.
RequestFails ==
  /\ Working
  /\ made' \in {made, [made EXCEPT ![hand] = IF Head(left) = "make" THEN @ + 1 ELSE @]}
  /\ Finish("error")
  /\ UNCHANGED <<up, verdict, judged, want>>

\* It succeeds; the last one ends the command.
RequestDone ==
  /\ Working
  /\ made' = [made EXCEPT ![hand] = IF Head(left) = "make" THEN @ + 1 ELSE @]
  /\ IF Len(left) > 1
     THEN left' = Tail(left) /\ UNCHANGED <<Outside, wire, hand, counted>>
     ELSE Finish("event")
  /\ UNCHANGED <<up, verdict, judged, want>>

Handle ==
  Take \/ Malformed \/ Refuse \/ TornRead \/ Admit \/ RequestFails \/ RequestDone

-----------------------------------------------------------------------------
CommandNext ==
  \/ \E s \in Signers : Send(s) \/ RestartSender(s)
  \/ EditConfig
  \/ \E g \in Reloaders : ReloadStep(g)
  \/ Handle

CommandSpec == CommandInit /\ [][CommandNext]_commandVars

-----------------------------------------------------------------------------
(***************************************************************************)
(* Properties.                                                             *)
(***************************************************************************)

\* Once a reload has brought the file into force, the agent compares with the
\* secret of the file: no older secret stays, none that was taken out of it, and a
\* reload signal that came in between did no harm (reloadConfig; of the GitHub
\* agent it does not hold, see HotReload).
SecretReloaded ==
  Settled /\ agent # "github" => secret = LoadConfig(file).secret

\* From the file to the service: a command that arrives when file and agent agree
\* is executed exactly if it was signed with the file's secret, whichever secret
\* its sender was started with, and nothing changes at the service for any other.
Verdicts ==
  \A i \in Ids :
    /\ made[i] > 0 => verdict[i] = "admitted"
    /\ judged[i] # Unsettled =>
         LET good == judged[i] \in {NoSecret, sign[i]}
         IN  (verdict[i] = "admitted" => good) /\ (verdict[i] = "refused" => ~good)

\* An event is counted only for a command all of whose changes were made, once
\* each; what failed half way is counted as an error.
Honest ==
  \A i \in Ids :
    /\ made[i] <= want[i]
    /\ counted[i] = "event" => made[i] = want[i]

\* "All agents also hot-reload security.command_secret" (docs/docs/index.html:469),
\* and the table above it lists the poll settings of each agent as reloadable:
\* once a reload is through, both are those of the file.
HotReload ==
  Settled =>
    secret = LoadConfig(file).secret /\ (agent # "slack" => polled = LoadConfig(file).poll)
=============================================================================
