---------------------------- MODULE AgentsProofs ----------------------------
(***************************************************************************)
(* Proofs about AgentCommands, SlackSocket and GoogleAuth: for any         *)
(* secrets, any contents of the configuration file, any commands and       *)
(* envelopes, and any number of goroutines, callbacks and tokens; and that *)
(* what is proved of each part holds of the agents together.               *)
(***************************************************************************)
EXTENDS Agents, PollerProofs, GitHubAgentProofs, FunctionTheorems

-----------------------------------------------------------------------------
(***************************************************************************)
(* The token of the Google agent.                                          *)
(***************************************************************************)

\* Without the lock nobody is inside Token; with it one caller is.
LockInv ==
  /\ ~agentUp => lock = Free
  /\ lock # Free => at[lock] # "idle"
  /\ \A c \in Callers : c # lock => at[c] = "idle"

\* While no save went wrong and one process writes, the file holds the token that
\* was compared last, and that is the one of the source but for the caller that is
\* about to save it; half a file is there only during a save.
FileInv ==
  /\ agentUp => (lock = Free => lastToken = memory)
  /\ \A c \in Callers : at[c] = "source" => lastToken = memory
  /\ agentUp /\ flow = "write" => unsaved
  /\ agentUp /\ ~unsaved =>
       /\ lock = Free => disk = memory
       /\ \A c \in Callers : at[c] \in {"source", "compare"} => disk = lastToken
  /\ disk = Torn => unsaved \/ flow = "write" \/ \E c \in Callers : at[c] = "write"

AuthInv == AuthTypeOK /\ blocked <= callbacks /\ LockInv /\ FileInv

\* One caller at most is inside Token, and the file holds the token that was compared
\* last, while no save went wrong and no login writes.
THEOREM AuthInvariant == AuthSpec => []AuthInv
<1> USE CallersAssumption, TornAssumption, AuthBoundsAssumption
<1>1. AuthInit => AuthInv
  <2> SUFFICES ASSUME AuthInit PROVE AuthInv
    OBVIOUS
  <2>1. AuthTypeOK
    <3>1. <<>> \in Seq(BOOLEAN) /\ Len(<<>>) = 0
      OBVIOUS
    <3>2. results \in Seq(BOOLEAN) /\ Len(results) <= 1
      BY <3>1 DEF AuthInit
    <3>3. 0 \in 0..MaxTokens /\ 0 \in 0..MaxCallbacks
      OBVIOUS
    <3>4. at \in [Callers -> {"idle", "source", "compare", "write"}]
      BY DEF AuthInit
    <3> QED
      BY <3>2, <3>3, <3>4, Zenon DEF AuthInit, AuthTypeOK
  <2>2. LockInv /\ FileInv /\ blocked <= callbacks
    BY DEF AuthInit, LockInv, FileInv
  <2> QED
    BY <2>1, <2>2 DEF AuthInv
<1>2. AuthInv /\ [AuthNext]_authVars => AuthInv'
  <2> SUFFICES ASSUME AuthInv, [AuthNext]_authVars PROVE AuthInv'
    OBVIOUS
  <2> USE DEF AuthInv
  <2>1. CASE StartFlow
    BY <2>1 DEF StartFlow, sourceVars, AuthTypeOK, LockInv, FileInv
  <2>2. ASSUME NEW ok \in BOOLEAN, Callback(ok) PROVE AuthInv'
    <3>1. AuthTypeOK'
      <4>1. <<ok>> \in Seq(BOOLEAN) /\ Len(<<ok>>) <= 1
        OBVIOUS
      <4>2. results' \in Seq(BOOLEAN) /\ Len(results') <= 1
        <5>1. results' = results \/ results' = <<ok>>
          BY <2>2, Zenon DEF Callback
        <5> QED
          BY <4>1, <5>1, Zenon DEF AuthTypeOK
      <4>3. callbacks' \in 0..MaxCallbacks /\ blocked' \in 0..MaxCallbacks
        BY <2>2 DEF Callback, AuthTypeOK
      <4> QED
        BY <2>2, <4>2, <4>3 DEF Callback, sourceVars, AuthTypeOK
    <3>2. LockInv'
      BY <2>2 DEF Callback, sourceVars, AuthTypeOK, LockInv
    <3>3. FileInv'
      BY <2>2 DEF Callback, sourceVars, AuthTypeOK, LockInv, FileInv
    <3>4. (blocked <= callbacks)'
      BY <2>2 DEF Callback, AuthTypeOK
    <3> QED
      BY <3>1, <3>2, <3>3, <3>4
  <2>3. CASE Unblock
    BY <2>3 DEF Unblock, sourceVars, AuthTypeOK, LockInv, FileInv
  <2>4. CASE ReceiveResult
    BY <2>4 DEF ReceiveResult, sourceVars, AuthTypeOK, LockInv, FileInv
  <2>5. CASE GiveUp
    BY <2>5 DEF GiveUp, sourceVars, AuthTypeOK, LockInv, FileInv
  <2>6. CASE ServerDown
    BY <2>6 DEF ServerDown, sourceVars, AuthTypeOK, LockInv, FileInv
  <2>7. CASE ExchangeCode
    BY <2>7 DEF ExchangeCode, sourceVars, AuthTypeOK, LockInv, FileInv
  <2>8. CASE TruncateFile
    BY <2>8 DEF TruncateFile, sourceVars, AuthTypeOK, LockInv, FileInv
  <2>9. CASE WriteFile
    <3>1. AuthTypeOK'
      BY <2>9 DEF WriteFile, sourceVars, AuthTypeOK
    <3>2. LockInv'
      BY <2>9 DEF WriteFile, sourceVars, AuthTypeOK, LockInv
    <3>3. FileInv'
      BY <2>9 DEF WriteFile, sourceVars, AuthTypeOK, LockInv, FileInv
    <3> QED
      BY <2>9, <3>1, <3>2, <3>3 DEF WriteFile
  <2>10. CASE NewTokenSource
    <3>1. AuthTypeOK'
      BY <2>10 DEF NewTokenSource, flowVars, AuthTypeOK
    <3>2. LockInv'
      BY <2>10 DEF NewTokenSource, flowVars, AuthTypeOK, LockInv
    <3>3. FileInv'
      BY <2>10 DEF NewTokenSource, flowVars, AuthTypeOK, LockInv, FileInv
    <3> QED
      BY <2>10, <3>1, <3>2, <3>3 DEF NewTokenSource, flowVars
  <2>11. CASE Expire
    BY <2>11 DEF Expire, flowVars, AuthTypeOK, LockInv, FileInv
  <2>12. CASE EndAgent
    BY <2>12 DEF EndAgent, flowVars, AuthTypeOK, LockInv, FileInv
  <2>13. ASSUME NEW c \in Callers, Lock(c) PROVE AuthInv'
    BY <2>13 DEF Lock, flowVars, AuthTypeOK, LockInv, FileInv
  <2>14. ASSUME NEW c \in Callers, SourceToken(c) PROVE AuthInv'
    <3>1. AuthTypeOK'
      <4>1. issued' \in 0..MaxTokens /\ memory' \in 0..MaxTokens
        BY <2>14 DEF SourceToken, AuthTypeOK
      <4>2. valid' \in BOOLEAN
        BY <2>14, Zenon DEF SourceToken, AuthTypeOK
      <4>3. lock' \in Callers \cup {Free}
        BY <2>14, Zenon DEF SourceToken, Unlocked, AuthTypeOK
      <4>4. at' \in [Callers -> {"idle", "source", "compare", "write"}]
        BY <2>14 DEF SourceToken, Unlocked, AuthTypeOK
      <4> QED
        BY <2>14, <4>1, <4>2, <4>3, <4>4 DEF SourceToken, flowVars, AuthTypeOK
    <3>2. LockInv'
      BY <2>14 DEF SourceToken, Unlocked, flowVars, AuthTypeOK, LockInv
    <3>3. FileInv'
      BY <2>14 DEF SourceToken, Unlocked, flowVars, AuthTypeOK, LockInv, FileInv
    <3> QED
      BY <2>14, <3>1, <3>2, <3>3 DEF SourceToken, flowVars
  <2>15. ASSUME NEW c \in Callers, Compare(c) PROVE AuthInv'
    BY <2>15 DEF Compare, Unlocked, flowVars, AuthTypeOK, LockInv, FileInv
  <2>16. ASSUME NEW c \in Callers, SaveToken(c) PROVE AuthInv'
    <3>1. AuthTypeOK'
      BY <2>16 DEF SaveToken, Unlocked, flowVars, AuthTypeOK
    <3>2. LockInv'
      BY <2>16 DEF SaveToken, Unlocked, flowVars, AuthTypeOK, LockInv
    <3>3. FileInv'
      BY <2>16 DEF SaveToken, Unlocked, flowVars, AuthTypeOK, LockInv, FileInv
    <3> QED
      BY <2>16, <3>1, <3>2, <3>3 DEF SaveToken, flowVars
  <2>17. CASE UNCHANGED authVars
    BY <2>17 DEF authVars, AuthTypeOK, LockInv, FileInv
  <2> QED
    BY <2>1, <2>2, <2>3, <2>4, <2>5, <2>6, <2>7, <2>8, <2>9, <2>10, <2>11, <2>12, <2>13,
       <2>14, <2>15, <2>16, <2>17 DEF AuthNext, Flow
<1> QED
  BY <1>1, <1>2, PTL DEF AuthSpec

\* The file holds the token in use, unless a save failed or was cut short or the
\* command wrote beside the agent (PersistentTokenSource.Token, SaveTokenToFile).
THEOREM TokenKeptHolds == AuthSpec => []TokenKept
<1>1. AuthInv => TokenKept
  BY CallersAssumption DEF AuthInv, LockInv, FileInv, TokenKept
<1> QED
  BY <1>1, AuthInvariant, PTL

-----------------------------------------------------------------------------
(***************************************************************************)
(* Commands and configuration reloads.                                     *)
(***************************************************************************)

\* Nobody reloads and the secret is the one of the file, or one reload is alone
\* under way with what the file holds.
Agreed ==
  /\ \A g \in Reloaders : reload[g].at = "idle"
  /\ secret = LoadConfig(file).secret

Coming(g) ==
  /\ reload[g].at # "idle" /\ reload[g].new = LoadConfig(file)
  /\ \A h \in Reloaders \ {g} : reload[h].at = "idle"

ReloadInv ==
  /\ setup \in Setups /\ file \in ConfigFiles
  /\ reload \in [Reloaders -> [at : {"idle", "read", "write"}, new : Contents]]
  /\ ~setup.named /\ Loads(file) /\ fresh /\ agent # "github" =>
       Agreed \/ \E g \in Reloaders : Coming(g)

\* A configuration file that loads is read as contents of a configuration.
LEMMA LoadedContents ==
  ASSUME NEW f \in ConfigFiles, Loads(f) PROVE LoadConfig(f) \in Contents
BY ConfigFilesAssumption, SecretsAssumption DEF Loads, LoadConfig, Contents

\* Only the agent that is none of GitHub's reloads its secret.
LEMMA ReloadsSecret == setup \in Setups => ("secret" \in Reloaded[agent] <=> agent # "github")
<1> SUFFICES ASSUME setup \in Setups PROVE "secret" \in Reloaded[agent] <=> agent # "github"
  OBVIOUS
<1>1. agent \in {"slack", "linear", "google", "github"}
  BY SetupsAssumption DEF agent
<1> QED
  BY <1>1 DEF Reloaded

\* The secret in force is the one of the file, or a reload that read the file is on
\* its way, while the reloads come one at a time.
THEOREM ReloadInvariant == CommandSpec => []ReloadInv
<1>1. CommandInit => ReloadInv
  <2> SUFFICES ASSUME CommandInit PROVE ReloadInv
    OBVIOUS
  <2>1. Idle \in [at : {"idle", "read", "write"}, new : Contents]
    BY SecretsAssumption DEF Idle, Contents
  <2>2. reload \in [Reloaders -> [at : {"idle", "read", "write"}, new : Contents]]
    BY <2>1 DEF CommandInit
  <2>3. ~setup.named => Agreed
    BY DEF CommandInit, Agreed, Idle
  <2> QED
    BY <2>2, <2>3 DEF CommandInit, ReloadInv
<1>2. ReloadInv /\ [CommandNext]_commandVars => ReloadInv'
  <2> SUFFICES ASSUME ReloadInv, [CommandNext]_commandVars PROVE ReloadInv'
    OBVIOUS
  <2>1. CASE UNCHANGED <<setup, file, secret, reload, fresh>>
    BY <2>1 DEF ReloadInv, Agreed, Coming, LoadConfig, Loads, agent
  <2>2. CASE EditConfig
    BY <2>2 DEF EditConfig, ReloadInv, settings
  <2>3. ASSUME NEW g \in Reloaders, ReadConfig(g) PROVE ReloadInv'
    <3>1. UNCHANGED <<setup, file, secret>> /\ reload[g].at = "idle"
      BY <2>3 DEF ReadConfig, settings
    <3>2. CASE ~Loads(file)
      BY <2>3, <3>1, <3>2 DEF ReadConfig, ReloadInv, Loads
    <3>3. CASE Loads(file)
      <4> DEFINE r == [at |-> "read", new |-> LoadConfig(file)]
      <4>1. reload' = [reload EXCEPT ![g] = r]
        BY <2>3, <3>3 DEF ReadConfig
      <4>2. r \in [at : {"idle", "read", "write"}, new : Contents]
        BY <3>3, LoadedContents DEF ReloadInv
      <4>3. r.at = "read" /\ r.new = LoadConfig(file)
        OBVIOUS
      <4> HIDE DEF r
      <4>4. reload' \in [Reloaders -> [at : {"idle", "read", "write"}, new : Contents]]
        BY <4>1, <4>2 DEF ReloadInv
      <4>5. fresh' => Coming(g)'
        BY <2>3, <3>1, <4>1, <4>3 DEF ReadConfig, Coming, ReloadInv, LoadConfig
      <4> QED
        BY <3>1, <4>4, <4>5 DEF ReloadInv
    <3> QED
      BY <3>2, <3>3
  <2>4. ASSUME NEW g \in Reloaders, ApplyPoll(g) PROVE ReloadInv'
    <3>1. UNCHANGED <<setup, file, secret, fresh>> /\ reload[g].at = "read"
      BY <2>4 DEF ApplyPoll
    <3>2. CASE agent = "github"
      <4>1. reload' = [reload EXCEPT ![g] = Idle]
        BY <2>4, <3>2, ReloadsSecret DEF ApplyPoll, ReloadInv
      <4>2. Idle \in [at : {"idle", "read", "write"}, new : Contents]
        BY SecretsAssumption DEF Idle, Contents
      <4> QED
        BY <3>1, <3>2, <4>1, <4>2 DEF ReloadInv, agent
    <3>3. CASE agent # "github"
      <4> DEFINE r == [reload[g] EXCEPT !.at = "write"]
      <4>1. reload' = [reload EXCEPT ![g] = r]
        BY <2>4, <3>3, ReloadsSecret DEF ApplyPoll, ReloadInv
      <4>2. r \in [at : {"idle", "read", "write"}, new : Contents]
        BY DEF ReloadInv
      <4>3. r.at = "write" /\ r.new = reload[g].new
        BY DEF ReloadInv
      <4> HIDE DEF r
      <4>4. reload' \in [Reloaders -> [at : {"idle", "read", "write"}, new : Contents]]
        BY <4>1, <4>2 DEF ReloadInv
      <4>5. ~Agreed
        BY <3>1 DEF Agreed
      <4>6. ASSUME NEW h \in Reloaders, Coming(h) PROVE Coming(h)'
        <5>1. h = g
          BY <3>1, <4>6 DEF Coming
        <5> QED
          BY <3>1, <4>1, <4>3, <4>6, <5>1 DEF Coming, ReloadInv, LoadConfig
      <4> QED
        BY <3>1, <4>4, <4>5, <4>6 DEF ReloadInv, agent, Loads
    <3> QED
      BY <3>2, <3>3
  <2>5. ASSUME NEW g \in Reloaders, ApplySecret(g) PROVE ReloadInv'
    <3>1. UNCHANGED <<setup, file, fresh>> /\ reload[g].at = "write"
      BY <2>5 DEF ApplySecret
    <3>2. reload' = [reload EXCEPT ![g] = Idle]
      BY <2>5 DEF ApplySecret
    <3>3. Idle \in [at : {"idle", "read", "write"}, new : Contents] /\ Idle.at = "idle"
      BY SecretsAssumption DEF Idle, Contents
    <3>4. reload' \in [Reloaders -> [at : {"idle", "read", "write"}, new : Contents]]
      BY <3>2, <3>3 DEF ReloadInv
    <3>5. ~Agreed
      BY <3>1 DEF Agreed
    <3>6. ASSUME NEW h \in Reloaders, Coming(h) PROVE Agreed'
      <4>1. h = g
        BY <3>1, <3>6 DEF Coming
      <4>2. Writing(g) = {}
        BY <3>6, <4>1 DEF Writing, Coming
      <4>3. secret' = reload[g].new.secret
        BY <2>5, <4>2 DEF ApplySecret
      <4> QED
        BY <3>1, <3>2, <3>3, <3>6, <4>1, <4>3 DEF Agreed, Coming, ReloadInv, LoadConfig
    <3> QED
      BY <3>1, <3>4, <3>5, <3>6 DEF ReloadInv, agent, Loads
  <2>6. ASSUME NEW s \in Signers, Send(s) \/ RestartSender(s)
        PROVE UNCHANGED <<setup, file, secret, reload, fresh>>
    BY <2>6 DEF Send, RestartSender, settings, reloads
  <2>7. CASE Handle
    <3>1. UNCHANGED Outside
      BY <2>7 DEF Handle, Take, Malformed, Refuse, TornRead, Admit, Perform, RequestFails,
                  RequestDone, Finish
    <3> QED
      BY <2>1, <3>1 DEF Outside, settings, reloads
  <2> QED
    BY <2>1, <2>2, <2>3, <2>4, <2>5, <2>6, <2>7
    DEF CommandNext, ReloadStep, commandVars
<1> QED
  BY <1>1, <1>2, PTL DEF CommandSpec

\* When a reload has brought the file into force, the secret of the agent is the
\* file's, for any contents and any order of edits and signals (reloadConfig).
THEOREM SecretReloadedHolds == CommandSpec => []SecretReloaded
<1>1. ReloadInv => SecretReloaded
  BY DEF ReloadInv, SecretReloaded, Settled, Agreed, Coming
<1> QED
  BY <1>1, ReloadInvariant, PTL

\* Once a reload is through, the poll settings in the configuration of the agent are those
\* of the file, also the GitHub agent's: what HotReload misses is only the poller, which
\* keeps those it was built with, and GitHub's secret.
PollReloaded == Settled /\ agent # "slack" => poll = LoadConfig(file).poll

\* The goroutines are idle, or one is on its way that has read the file as it is and
\* brings the poll settings into force before the secret.
PollDone == (\A g \in Reloaders : reload[g].at = "idle") /\ poll = LoadConfig(file).poll

PollComing(g) == Coming(g) /\ (reload[g].at = "write" => poll = LoadConfig(file).poll)

Owed == ~setup.named /\ Loads(file) /\ fresh /\ agent # "slack"

PollInv == Owed => PollDone \/ \E g \in Reloaders : PollComing(g)

\* Every step brings the file's poll settings into force, or leaves them on their way.
LEMMA PollStep == ReloadInv /\ PollInv /\ [CommandNext]_commandVars => PollInv'
<1> SUFFICES ASSUME ReloadInv, PollInv, [CommandNext]_commandVars PROVE PollInv'
  OBVIOUS
<1>1. CASE UNCHANGED <<setup, file, poll, reload, fresh>>
  BY <1>1 DEF PollInv, Owed, PollDone, PollComing, Coming, LoadConfig, Loads, agent
<1>2. CASE EditConfig
  BY <1>2 DEF EditConfig, PollInv, Owed
<1>3. ASSUME NEW g \in Reloaders, ReadConfig(g) PROVE PollInv'
  <2> SUFFICES ASSUME Owed' PROVE PollComing(g)'
    BY DEF PollInv
  <2>1. UNCHANGED <<setup, file, poll>> /\ reload[g].at = "idle"
        /\ \A h \in Reloaders : reload[h].at = "idle"
    BY <1>3 DEF ReadConfig, settings, Owed
  <2> DEFINE r == [at |-> "read", new |-> LoadConfig(file)]
  <2>2. reload' = [reload EXCEPT ![g] = r]
    BY <1>3, <2>1 DEF ReadConfig, Owed, Loads
  <2>3. r.at = "read" /\ r.new = LoadConfig(file)
    OBVIOUS
  <2> HIDE DEF r
  <2>4. reload'[g] = r /\ \A h \in Reloaders \ {g} : reload'[h] = reload[h]
    BY <2>2 DEF ReloadInv
  <2>5. LoadConfig(file') = LoadConfig(file)
    BY <2>1
  <2> QED
    BY <2>1, <2>3, <2>4, <2>5 DEF PollComing, Coming
<1>4. ASSUME NEW g \in Reloaders, ApplyPoll(g) PROVE PollInv'
  <2> SUFFICES ASSUME Owed' PROVE PollDone' \/ PollComing(g)'
    BY DEF PollInv
  <2>1. UNCHANGED <<setup, file, fresh>> /\ reload[g].at = "read"
    BY <1>4 DEF ApplyPoll
  <2>2. Owed /\ ~PollDone
    BY <2>1 DEF Owed, PollDone, Loads, agent
  <2>3. PollComing(g)
    BY <2>1, <2>2 DEF PollInv, PollComing, Coming
  <2>4. /\ reload[g].new = LoadConfig(file) /\ LoadConfig(file') = LoadConfig(file)
        /\ \A h \in Reloaders \ {g} : reload[h].at = "idle"
    BY <2>1, <2>3 DEF PollComing, Coming
  <2>5. "poll" \in Reloaded[agent]
    BY <2>2, SetupsAssumption DEF ReloadInv, Owed, Reloaded, agent
  <2>6. poll' = LoadConfig(file').poll
    BY <1>4, <2>4, <2>5 DEF ApplyPoll
  <2>7. CASE "secret" \in Reloaded[agent]
    <3> DEFINE r == [reload[g] EXCEPT !.at = "write"]
    <3>1. reload' = [reload EXCEPT ![g] = r]
      BY <1>4, <2>7 DEF ApplyPoll, ReloadInv
    <3>2. r.at = "write" /\ r.new = reload[g].new
      BY DEF ReloadInv
    <3> HIDE DEF r
    <3>3. reload'[g] = r /\ \A h \in Reloaders \ {g} : reload'[h] = reload[h]
      BY <3>1 DEF ReloadInv
    <3> QED
      BY <2>4, <2>6, <3>2, <3>3 DEF PollComing, Coming
  <2>8. CASE "secret" \notin Reloaded[agent]
    <3>1. reload' = [reload EXCEPT ![g] = Idle] /\ Idle.at = "idle"
      BY <1>4, <2>8 DEF ApplyPoll, Idle
    <3>2. \A h \in Reloaders : reload'[h].at = "idle"
      BY <2>4, <3>1 DEF ReloadInv
    <3> QED
      BY <2>6, <3>2 DEF PollDone
  <2> QED
    BY <2>7, <2>8
<1>5. ASSUME NEW g \in Reloaders, ApplySecret(g) PROVE PollInv'
  <2> SUFFICES ASSUME Owed' PROVE PollDone'
    BY DEF PollInv
  <2>1. UNCHANGED <<setup, file, fresh, poll>> /\ reload[g].at = "write"
        /\ reload' = [reload EXCEPT ![g] = Idle] /\ Idle.at = "idle"
    BY <1>5 DEF ApplySecret, Idle
  <2>2. Owed /\ ~PollDone
    BY <2>1 DEF Owed, PollDone, Loads, agent
  <2>3. PollComing(g)
    BY <2>1, <2>2 DEF PollInv, PollComing, Coming
  <2>4. poll' = LoadConfig(file').poll /\ \A h \in Reloaders \ {g} : reload[h].at = "idle"
    BY <2>1, <2>3 DEF PollComing, Coming
  <2>5. \A h \in Reloaders : reload'[h].at = "idle"
    BY <2>1, <2>4 DEF ReloadInv
  <2> QED
    BY <2>4, <2>5 DEF PollDone
<1>6. ASSUME NEW s \in Signers, Send(s) \/ RestartSender(s)
      PROVE  UNCHANGED <<setup, file, poll, reload, fresh>>
  BY <1>6 DEF Send, RestartSender, settings, reloads
<1>7. CASE Handle
  <2>1. UNCHANGED Outside
    BY <1>7 DEF Handle, Take, Malformed, Refuse, TornRead, Admit, Perform, RequestFails,
                RequestDone, Finish
  <2> QED
    BY <1>1, <2>1 DEF Outside, settings, reloads
<1>8. CASE UNCHANGED commandVars
  BY <1>1, <1>8 DEF commandVars
<1> QED
  BY <1>1, <1>2, <1>3, <1>4, <1>5, <1>6, <1>7, <1>8 DEF CommandNext, ReloadStep

\* The poll settings of the configuration follow the file, for any contents and any
\* order of edits and signals (reloadConfig of the Linear, Google and GitHub agents).
THEOREM PollReloadedHolds == CommandSpec => []PollReloaded
<1>1. CommandInit => PollInv
  BY DEF CommandInit, PollInv, PollDone, Owed, Idle
<1>2. PollInv => PollReloaded
  BY DEF PollInv, Owed, PollDone, PollComing, Coming, PollReloaded, Settled
<1> QED
  BY <1>1, <1>2, PollStep, ReloadInvariant, PTL DEF CommandSpec

-----------------------------------------------------------------------------
(***************************************************************************)
(* From the file to the service.                                           *)
(***************************************************************************)

\* The changes that the requests of a command come to.
Changes(r) == {k \in DOMAIN r : r[k] = "make"}
Pending(r) == IF r # <<>> /\ r[1] = "look" THEN Len(r) - 1 ELSE Len(r)
Requesting(r) == r \in Seq({"look", "make"}) /\ \A k \in 2..Len(r) : r[k] = "make"

\* After at most one look every request is a change (cmd functions of the agents).
LEMMA RequestsShape ==
  ASSUME NEW c, NEW r \in Requests(c)
  PROVE  r # <<>> /\ Requesting(r) /\ Cardinality(Changes(r)) = Pending(r)
<1> USE CommandBoundsAssumption
<1>1. ASSUME NEW n \in Nat \ {0}, r = Makes(n)
      PROVE r # <<>> /\ Requesting(r) /\ Cardinality(Changes(r)) = Pending(r)
  <2>1. r \in Seq({"look", "make"}) /\ Len(r) = n /\ \A k \in 1..n : r[k] = "make"
    BY <1>1 DEF Makes
  <2>2. Changes(r) = 1..n
    BY <2>1 DEF Changes
  <2>3. Cardinality(1..n) = n
    BY FS_Interval
  <2>4. Pending(r) = n /\ r # <<>>
    BY <2>1 DEF Pending
  <2> QED
    BY <2>1, <2>2, <2>3, <2>4 DEF Requesting
<1>2. ASSUME NEW n \in Nat \ {0}, r = <<"look">> \o Makes(n)
      PROVE r # <<>> /\ Requesting(r) /\ Cardinality(Changes(r)) = Pending(r)
  <2>1. Makes(n) \in Seq({"look", "make"}) /\ Len(Makes(n)) = n
        /\ \A k \in 1..n : Makes(n)[k] = "make"
    BY DEF Makes
  <2>2. r \in Seq({"look", "make"}) /\ Len(r) = n + 1 /\ r[1] = "look"
        /\ \A k \in 2 .. n + 1 : r[k] = "make"
    BY <1>2, <2>1
  <2>3. Changes(r) = 2 .. n + 1
    BY <2>2 DEF Changes
  <2>4. Cardinality(2 .. n + 1) = n
    BY FS_Interval
  <2>5. Pending(r) = n /\ r # <<>>
    BY <2>2 DEF Pending
  <2> QED
    BY <2>2, <2>3, <2>4, <2>5 DEF Requesting
<1>3. ASSUME r = <<"look">>
      PROVE r # <<>> /\ Requesting(r) /\ Cardinality(Changes(r)) = Pending(r)
  <2>1. Changes(r) = {} /\ Pending(r) = 0
    BY <1>3 DEF Changes, Pending
  <2> QED
    BY <1>3, <2>1, FS_EmptySet DEF Requesting
<1>4. CASE r = <<"look", "make">>
  <2>1. r = <<"look">> \o Makes(1)
    BY <1>4 DEF Makes
  <2> QED
    BY <1>2, <2>1
<1> QED
  BY <1>1, <1>2, <1>3, <1>4 DEF Requests

\* Commands are delivered once they were sent; without a verdict nothing was done.
QueueInv ==
  /\ sends \in 0..MaxSent
  /\ wire \in Seq(Ids) /\ \A k \in 1..Len(wire) : wire[k] <= sends
  /\ hand \in 0..sends
  /\ DOMAIN sign = Ids /\ DOMAIN judged = Ids
  /\ verdict \in [Ids -> {"none", "malformed", "refused", "admitted"}]
  /\ want \in [Ids -> Nat] /\ made \in [Ids -> Nat]
  /\ counted \in [Ids -> {"none", "event", "error"}]
  /\ \A i \in Ids : i > sends => verdict[i] = "none"

WorkInv ==
  /\ \A i \in Ids : verdict[i] = "none" => made[i] = 0 /\ want[i] = 0 /\ counted[i] = "none"
  /\ Requesting(left)
  /\ left # <<>> =>
       /\ hand # 0 /\ verdict[hand] = "admitted" /\ counted[hand] = "none"
       /\ want[hand] = made[hand] + Pending(left)
  /\ Honest

CommandInv == QueueInv /\ WorkInv /\ Verdicts

\* When no reload is on its way, every reader of the secret reads the one of the file.
LEMMA JudgedSecret ==
  ASSUME ReloadInv, Settled, "secret" \in Reloaded[agent]
  PROVE  LoadConfig(file).secret = secret /\ Readings = {secret}
<1>1. \A g \in Reloaders : reload[g].at = "idle"
  BY DEF Settled
<1>2. Tearing = {}
  BY <1>1 DEF Tearing
<1>3. Readings = {secret}
  BY <1>2 DEF Readings
<1>4. LoadConfig(file).secret = secret
  BY ReloadsSecret, <1>1 DEF ReloadInv, Settled, Agreed, Coming
<1> QED
  BY <1>3, <1>4

\* A verdict that was reached while file and agent agree is the one of the file.
LEMMA JudgedRight ==
  ASSUME ReloadInv, CommandInv, Judging, UNCHANGED sign, UNCHANGED made,
         NEW v \in {"malformed", "refused", "admitted"}, Verdict(v),
         v = "admitted" => \E s \in Readings : VerifyCommand(sign[hand], s),
         v = "refused" => \E s \in Readings : ~VerifyCommand(sign[hand], s)
  PROVE  Verdicts'
<1> USE DEF CommandInv, QueueInv
<1>1. hand \in Ids
  BY CommandBoundsAssumption DEF Judging, Ids
<1>2. ASSUME NEW i \in Ids, i # hand
      PROVE verdict'[i] = verdict[i] /\ judged'[i] = judged[i]
  BY <1>2 DEF Verdict
<1>3. verdict'[hand] = v /\ made'[hand] = 0
  BY <1>1 DEF Verdict, WorkInv, Judging
<1>4. CASE Settled /\ "secret" \in Reloaded[agent]
  <2>1. judged'[hand] = secret
    BY <1>1, <1>4, JudgedSecret DEF Verdict
  <2>2. v = "admitted" => VerifyCommand(sign[hand], secret)
    BY <1>4, JudgedSecret
  <2>3. v = "refused" => ~VerifyCommand(sign[hand], secret)
    BY <1>4, JudgedSecret
  <2> QED
    BY <1>1, <1>2, <1>3, <2>1, <2>2, <2>3 DEF Verdicts, VerifyCommand
<1>5. CASE ~(Settled /\ "secret" \in Reloaded[agent])
  <2>1. judged'[hand] = Unsettled
    BY <1>1, <1>5 DEF Verdict
  <2>2. ASSUME NEW i \in Ids
        PROVE  /\ made'[i] > 0 => verdict'[i] = "admitted"
               /\ judged'[i] # Unsettled => judged'[i] = judged[i] /\ verdict'[i] = verdict[i]
    <3>1. CASE i = hand
      BY <1>3, <2>1, <3>1
    <3>2. CASE i # hand
      BY <1>2, <3>2 DEF Verdicts
    <3> QED
      BY <3>1, <3>2
  <2> QED
    BY <2>2 DEF Verdicts
<1> QED
  BY <1>4, <1>5

\* A command is judged once, and every request on GitHub or Google follows its verdict.
THEOREM CommandInvariant == CommandSpec => []CommandInv
<1> USE CommandBoundsAssumption
<1>1. CommandInit => CommandInv
  <2> SUFFICES ASSUME CommandInit PROVE CommandInv
    OBVIOUS
  <2>1. QueueInv
    BY DEF CommandInit, QueueInv, Ids
  <2>2. Requesting(left) /\ left = <<>>
    BY DEF CommandInit, Requesting
  <2>3. WorkInv
    BY <2>2 DEF CommandInit, WorkInv, Honest
  <2>4. Verdicts
    BY DEF CommandInit, Verdicts
  <2> QED
    BY <2>1, <2>3, <2>4 DEF CommandInv
<1>2. ReloadInv /\ CommandInv /\ [CommandNext]_commandVars => CommandInv'
  <2> SUFFICES ASSUME ReloadInv, CommandInv, [CommandNext]_commandVars PROVE CommandInv'
    OBVIOUS
  <2> USE DEF CommandInv
  <2>1. CASE UNCHANGED <<sends, wire, hand, left, records>>
    BY <2>1 DEF QueueInv, WorkInv, Verdicts, Honest, records
  <2>2. ASSUME NEW s \in Signers, Send(s) PROVE CommandInv'
    <3>1. UNCHANGED <<hand, left, verdict, judged, want, made, counted>>
          /\ sends' = sends + 1 /\ sends + 1 \in Ids
      BY <2>2 DEF Send, QueueInv, Ids
    <3>2. wire' = Append(wire, sends + 1) /\ sign' = [sign EXCEPT ![sends + 1] = keys[s]]
      BY <2>2 DEF Send
    <3>3. wire' \in Seq(Ids) /\ \A k \in 1..Len(wire') : wire'[k] <= sends + 1
      <4>1. Len(wire') = Len(wire) + 1 /\ wire'[Len(wire) + 1] = sends + 1
            /\ \A k \in 1..Len(wire) : wire'[k] = wire[k]
        BY <3>1, <3>2 DEF QueueInv
      <4>2. \A k \in 1..Len(wire) : wire[k] <= sends /\ wire[k] \in Nat
        BY DEF QueueInv, Ids
      <4>3. Len(wire) \in Nat /\ sends \in Nat
        BY DEF QueueInv
      <4>4. wire' \in Seq(Ids)
        BY <3>1, <3>2 DEF QueueInv
      <4> QED
        BY <4>1, <4>2, <4>3, <4>4
    <3>4. QueueInv'
      <4>1. hand' \in 0..sends' /\ sends' \in 0..MaxSent
        BY <3>1 DEF QueueInv, Ids
      <4>2. DOMAIN sign' = Ids
        BY <3>2 DEF QueueInv
      <4>3. \A i \in Ids : i > sends' => verdict[i] = "none"
        BY <3>1 DEF QueueInv, Ids
      <4>4. UNCHANGED <<judged, verdict, want, made, counted>> /\ sends' = sends + 1
        BY <3>1
      <4> QED
        BY <3>3, <4>1, <4>2, <4>3, <4>4 DEF QueueInv
    <3>5. WorkInv'
      BY <3>1 DEF WorkInv, Honest
    <3>6. verdict[sends + 1] = "none"
      BY <3>1 DEF QueueInv
    <3>7. Verdicts'
      BY <3>1, <3>2, <3>6 DEF Verdicts, QueueInv
    <3> QED
      BY <3>4, <3>5, <3>7
  <2>3. CASE Take
    <3>1. UNCHANGED <<sends, left, sign, verdict, judged, want, made, counted>> /\ hand = 0
      BY <2>3 DEF Take, Outside
    <3>2. wire # <<>> /\ hand' = Head(wire) /\ wire' = Tail(wire)
      BY <2>3 DEF Take
    <3>3. hand' \in 1..sends /\ wire' \in Seq(Ids)
          /\ \A k \in 1..Len(wire') : wire'[k] <= sends
      BY <3>2 DEF QueueInv, Ids
    <3>4. QueueInv'
      BY <3>1, <3>3 DEF QueueInv
    <3>5. left = <<>>
      BY <3>1 DEF WorkInv
    <3>6. WorkInv'
      BY <3>1, <3>5 DEF WorkInv, Honest
    <3>7. Verdicts'
      BY <3>1 DEF Verdicts
    <3> QED
      BY <3>4, <3>6, <3>7
  <2>4. CASE TornRead
    BY <2>4 DEF TornRead, Outside, QueueInv, WorkInv, Verdicts, Honest
  <2>5. ASSUME Judging PROVE hand \in Ids /\ left = <<>> /\ made[hand] = 0 /\ want[hand] = 0
    BY <2>5 DEF Judging, QueueInv, WorkInv, Ids
  <2>6. ASSUME NEW v \in {"malformed", "refused"}, Judging, Verdict(v), Finish("error"),
               UNCHANGED <<want, made>>
        PROVE QueueInv' /\ WorkInv'
    <3>1. UNCHANGED <<sends, wire, sign>> /\ hand' = 0 /\ left' = <<>>
          /\ counted' = [counted EXCEPT ![hand] = "error"]
      BY <2>6 DEF Finish, Outside
    <3>2. verdict' = [verdict EXCEPT ![hand] = v] /\ DOMAIN judged' = DOMAIN judged
      BY <2>6 DEF Verdict
    <3>3. QueueInv'
      BY <2>5, <2>6, <3>1, <3>2 DEF QueueInv
    <3>4. Requesting(<<>>)
      BY DEF Requesting
    <3>5. WorkInv'
      BY <2>5, <2>6, <3>1, <3>2, <3>4 DEF QueueInv, WorkInv, Honest
    <3> QED
      BY <3>3, <3>5
  <2>7. CASE Malformed
    <3>1. Judging /\ Verdict("malformed") /\ UNCHANGED <<sign, made>>
      BY <2>7 DEF Malformed, Finish, Outside
    <3> QED
      BY <2>6, <2>7, <3>1, JudgedRight DEF Malformed
  <2>8. CASE Refuse
    <3>1. Judging /\ Verdict("refused") /\ UNCHANGED <<sign, made>>
      BY <2>8 DEF Refuse, Finish, Outside
    <3> QED
      BY <2>6, <2>8, <3>1, JudgedRight DEF Refuse
  <2>9. CASE Admit
    <3>1. PICK c \in Known \cup {"unknown"} : \E payload \in Payloads(c) : Perform(c, payload)
      BY <2>9 DEF Admit
    <3>2. PICK payload \in Payloads(c) : Perform(c, payload)
      BY <3>1
    <3>3. Judging /\ Verdict("admitted") /\ UNCHANGED made
      BY <2>9 DEF Admit
    <3>4. verdict' = [verdict EXCEPT ![hand] = "admitted"] /\ DOMAIN judged' = DOMAIN judged
      BY <3>3 DEF Verdict
    <3>5. Requesting(<<>>)
      BY DEF Requesting
    <3>6. ASSUME Finish("error"), UNCHANGED want
          PROVE  QueueInv' /\ WorkInv' /\ UNCHANGED sign
      <4>1. UNCHANGED <<sends, wire, sign>> /\ hand' = 0 /\ left' = <<>>
            /\ counted' = [counted EXCEPT ![hand] = "error"]
        BY <3>6 DEF Finish, Outside
      <4>2. QueueInv'
        BY <2>5, <3>3, <3>4, <3>6, <4>1 DEF QueueInv
      <4>3. WorkInv'
        BY <2>5, <3>3, <3>4, <3>5, <3>6, <4>1 DEF QueueInv, WorkInv, Honest
      <4> QED
        BY <4>1, <4>2, <4>3
    <3>7. ASSUME UNCHANGED <<Outside, wire, hand, left, want, counted>>
          PROVE  QueueInv' /\ WorkInv' /\ UNCHANGED sign
      <4>1. UNCHANGED <<sends, sign, wire, hand, left, want, counted>>
        BY <3>7 DEF Outside
      <4>2. QueueInv'
        BY <2>5, <3>3, <3>4, <4>1 DEF QueueInv
      <4>3. WorkInv'
        BY <2>5, <3>3, <3>4, <4>1 DEF QueueInv, WorkInv, Honest
      <4> QED
        BY <4>1, <4>2, <4>3
    <3>8. ASSUME NEW r \in Requests(c), left' = r,
                 want' = [want EXCEPT ![hand] = Cardinality(Changes(r))],
                 UNCHANGED <<Outside, wire, hand, counted>>
          PROVE  QueueInv' /\ WorkInv' /\ UNCHANGED sign
      <4>1. UNCHANGED <<sends, sign, wire, hand, counted>>
        BY <3>8 DEF Outside
      <4>2. r # <<>> /\ Requesting(r) /\ Cardinality(Changes(r)) = Pending(r)
        BY RequestsShape
      <4>3. Pending(r) \in Nat
        BY <4>2 DEF Pending, Requesting
      <4>4. QueueInv'
        BY <2>5, <3>3, <3>4, <3>8, <4>1, <4>2, <4>3 DEF QueueInv
      <4>5. WorkInv'
        <5>1. want'[hand] = Pending(r) /\ \A i \in Ids : i # hand => want'[i] = want[i]
          BY <2>5, <3>3, <3>8, <4>2 DEF QueueInv
        <5>2. verdict'[hand] = "admitted" /\ \A i \in Ids : i # hand => verdict'[i] = verdict[i]
          BY <2>5, <3>3, <3>4 DEF QueueInv
        <5>3. counted[hand] = "none" /\ made[hand] = 0 /\ hand # 0
          BY <2>5, <3>3 DEF WorkInv, Judging
        <5>4. \A i \in Ids : i # hand /\ verdict'[i] = "none" =>
                made'[i] = 0 /\ want'[i] = 0 /\ counted'[i] = "none"
          BY <3>3, <4>1, <5>1, <5>2 DEF WorkInv
        <5>5. \A i \in Ids : verdict'[i] = "none" =>
                made'[i] = 0 /\ want'[i] = 0 /\ counted'[i] = "none"
          BY <5>2, <5>4
        <5>6. Honest'
          BY <3>3, <4>1, <4>3, <5>1, <5>3 DEF WorkInv, Honest
        <5>7. want'[hand'] = made'[hand'] + Pending(left')
          BY <3>3, <3>8, <4>1, <4>3, <5>1, <5>3
        <5> QED
          BY <3>8, <4>1, <4>2, <5>2, <5>3, <5>5, <5>6, <5>7 DEF WorkInv
      <4> QED
        BY <4>1, <4>4, <4>5
    <3>9. QueueInv' /\ WorkInv' /\ UNCHANGED sign
      <4>1. CASE Finish("error") /\ UNCHANGED <<up, want>>
        BY <3>6, <4>1
      <4>2. CASE up' = FALSE /\ UNCHANGED <<Outside, wire, hand, left, want, counted>>
        BY <3>7, <4>2
      <4>3. CASE \E r \in Requests(c) :
                   /\ left' = r
                   /\ want' = [want EXCEPT ![hand] = Cardinality(Changes(r))]
                   /\ UNCHANGED <<Outside, up, wire, hand, counted>>
        BY <3>8, <4>3
      <4> QED
        BY <3>2, <4>1, <4>2, <4>3, Zenon DEF Perform, Changes
    <3>10. Verdicts'
      BY <2>9, <3>3, <3>9, JudgedRight DEF Admit
    <3> QED
      BY <3>9, <3>10
  <2>10. ASSUME Working
         PROVE  /\ hand \in Ids /\ left # <<>> /\ verdict[hand] = "admitted"
                /\ Head(left) = left[1] /\ left[1] \in {"look", "make"}
                /\ Pending(left) = (IF Head(left) = "make" THEN Len(left) ELSE Len(left) - 1)
    BY <2>10 DEF Working, QueueInv, WorkInv, Requesting, Pending, Ids
  <2>11. ASSUME Working,
                made' \in {made, [made EXCEPT ![hand] = IF Head(left) = "make" THEN @ + 1 ELSE @]},
                UNCHANGED <<sends, sign, verdict, judged, want>>
         PROVE  made' \in [Ids -> Nat] /\ Verdicts'
    <3>1. made' \in [Ids -> Nat]
      BY <2>10, <2>11 DEF QueueInv
    <3>2. \A i \in Ids : i # hand => made'[i] = made[i]
      BY <2>10, <2>11 DEF QueueInv
    <3>3. Verdicts'
      BY <2>10, <2>11, <3>2 DEF Verdicts
    <3> QED
      BY <3>1, <3>3
  <2>12. CASE RequestFails
    <3>1. Working /\ UNCHANGED <<sends, sign, wire, verdict, judged, want>>
          /\ hand' = 0 /\ left' = <<>> /\ counted' = [counted EXCEPT ![hand] = "error"]
      BY <2>12 DEF RequestFails, Finish, Outside
    <3>2. made' \in {made, [made EXCEPT ![hand] = IF Head(left) = "make" THEN @ + 1 ELSE @]}
      BY <2>12 DEF RequestFails
    <3>3. made' \in [Ids -> Nat] /\ Verdicts'
      BY <2>11, <3>1, <3>2
    <3>4. QueueInv'
      <4>1. 0 \in 0..sends
        BY DEF QueueInv
      <4>2. counted' \in [Ids -> {"none", "event", "error"}]
        BY <3>1 DEF QueueInv
      <4> QED
        BY <3>1, <3>3, <4>1, <4>2 DEF QueueInv
    <3>5. Requesting(<<>>)
      BY DEF Requesting
    <3>6. made'[hand] <= want[hand] /\ \A i \in Ids : i # hand => made'[i] = made[i]
      BY <2>10, <3>1, <3>2 DEF QueueInv, WorkInv, Requesting
    <3>7. WorkInv'
      BY <2>10, <3>1, <3>5, <3>6 DEF QueueInv, WorkInv, Honest
    <3> QED
      BY <3>3, <3>4, <3>7
  <2>13. CASE RequestDone
    <3>1. Working /\ UNCHANGED <<sends, sign, wire, verdict, judged, want>>
          /\ made' = [made EXCEPT ![hand] = IF Head(left) = "make" THEN @ + 1 ELSE @]
      BY <2>13 DEF RequestDone, Finish, Outside
    <3>2. made' \in [Ids -> Nat] /\ Verdicts'
      BY <2>11, <3>1
    <3>3. /\ made'[hand] = made[hand] + (IF Head(left) = "make" THEN 1 ELSE 0)
          /\ \A i \in Ids : i # hand => made'[i] = made[i]
      BY <2>10, <3>1 DEF QueueInv
    <3>4. made'[hand] + (Len(left) - 1) = want[hand] /\ Len(left) \in Nat \ {0}
      BY <2>10, <3>1, <3>3 DEF QueueInv, WorkInv, Requesting
    <3>5. CASE Len(left) > 1
      <4>1. left' = Tail(left) /\ UNCHANGED <<hand, counted>>
        BY <2>13, <3>5 DEF RequestDone
      <4>2. QueueInv'
        BY <3>1, <3>2, <4>1 DEF QueueInv
      <4>3. left' \in Seq({"look", "make"}) /\ Len(left') = Len(left) - 1
            /\ \A k \in 1..Len(left') : left'[k] = left[k + 1]
        BY <3>5, <4>1 DEF WorkInv, Requesting
      <4>4. \A k \in 1..Len(left') : left'[k] = "make"
        BY <4>3 DEF WorkInv, Requesting
      <4>5. Requesting(left') /\ Pending(left') = Len(left')
        BY <3>5, <4>3, <4>4 DEF Requesting, Pending
      <4>6. made'[hand] <= want[hand] /\ want[hand] = made'[hand] + Pending(left')
        BY <2>10, <3>1, <3>2, <3>4, <4>3, <4>5 DEF QueueInv
      <4>7. WorkInv'
        BY <2>10, <3>1, <3>3, <4>1, <4>5, <4>6 DEF QueueInv, WorkInv, Honest
      <4> QED
        BY <3>2, <4>2, <4>7
    <3>6. CASE ~(Len(left) > 1)
      <4>1. hand' = 0 /\ left' = <<>> /\ counted' = [counted EXCEPT ![hand] = "event"]
        BY <2>13, <3>6 DEF RequestDone, Finish
      <4>2. QueueInv'
        BY <2>10, <3>1, <3>2, <4>1 DEF QueueInv
      <4>3. Requesting(<<>>)
        BY DEF Requesting
      <4>4. made'[hand] = want[hand]
        BY <2>10, <3>1, <3>2, <3>4, <3>6 DEF QueueInv
      <4>5. WorkInv'
        BY <2>10, <3>1, <3>3, <4>1, <4>3, <4>4 DEF QueueInv, WorkInv, Honest
      <4> QED
        BY <3>2, <4>2, <4>5
    <3> QED
      BY <3>5, <3>6
  <2>14. ASSUME NEW s \in Signers, RestartSender(s)
         PROVE  UNCHANGED <<sends, wire, hand, left, records>>
    BY <2>14 DEF RestartSender
  <2>15. ASSUME NEW g \in Reloaders, ReloadStep(g)
         PROVE  UNCHANGED <<sends, wire, hand, left, records>>
    BY <2>15 DEF ReloadStep, ReadConfig, ApplyPoll, ApplySecret
  <2>16. ASSUME EditConfig PROVE UNCHANGED <<sends, wire, hand, left, records>>
    BY <2>16 DEF EditConfig
  <2> QED
    BY <2>1, <2>2, <2>3, <2>4, <2>7, <2>8, <2>9, <2>12, <2>13, <2>14, <2>15, <2>16
    DEF CommandNext, Handle, commandVars, records
<1> QED
  BY <1>1, <1>2, ReloadInvariant, PTL DEF CommandSpec

\* A command that comes when file and agent agree is executed exactly if it was
\* signed with the secret of the file, and no other changes anything
\* (VerifyCommand, handleCommand, reloadConfig).
THEOREM VerdictsHold == CommandSpec => []Verdicts
<1>1. CommandInv => Verdicts
  BY DEF CommandInv
<1> QED
  BY <1>1, CommandInvariant, PTL

\* What was counted as an event was done in full, whatever requests a command comes
\* to and whichever of them fails (handleCommand and the cmd functions).
THEOREM HonestHolds == CommandSpec => []Honest
<1>1. CommandInv => Honest
  BY DEF CommandInv, WorkInv
<1> QED
  BY <1>1, CommandInvariant, PTL

-----------------------------------------------------------------------------
(***************************************************************************)
(* Envelopes of Slack.                                                     *)
(***************************************************************************)

\* How often an envelope is in a channel.
Places(s, e) == {k \in 1..Len(s) : s[k] = e}
Count(s, e) == Cardinality(Places(s, e))

\* How often an envelope is in a queue is a number.
LEMMA CountInNat ==
  ASSUME NEW s \in Seq(Envelopes), NEW e
  PROVE  IsFiniteSet(Places(s, e)) /\ Count(s, e) \in Nat
<1>1. Len(s) \in Nat /\ Places(s, e) \subseteq 1..Len(s)
  BY DEF Places
<1>2. IsFiniteSet(1..Len(s))
  BY <1>1, FS_Interval
<1> QED
  BY <1>1, <1>2, FS_Subset, FS_CardinalityType DEF Count

\* An envelope that joins the queue is counted once more, the others as before.
LEMMA CountAppend ==
  ASSUME NEW s \in Seq(Envelopes), NEW x \in Envelopes, NEW e
  PROVE  Count(Append(s, x), e) = Count(s, e) + (IF x = e THEN 1 ELSE 0)
<1>1. /\ Len(Append(s, x)) = Len(s) + 1 /\ Len(s) \in Nat
      /\ Append(s, x)[Len(s) + 1] = x /\ \A k \in 1..Len(s) : Append(s, x)[k] = s[k]
  OBVIOUS
<1>2. CASE x = e
  <2>1. Places(Append(s, x), e) = Places(s, e) \cup {Len(s) + 1}
    BY <1>1, <1>2 DEF Places
  <2>2. Len(s) + 1 \notin Places(s, e)
    BY <1>1 DEF Places
  <2> QED
    BY <1>2, <2>1, <2>2, CountInNat, FS_AddElement DEF Count
<1>3. CASE x # e
  <2>1. Places(Append(s, x), e) = Places(s, e)
    BY <1>1, <1>3 DEF Places
  <2> QED
    BY <1>3, <2>1, CountInNat DEF Count
<1> QED
  BY <1>2, <1>3

\* An envelope that leaves the queue is counted once less, the others as before.
LEMMA CountTail ==
  ASSUME NEW s \in Seq(Envelopes), s # <<>>, NEW e
  PROVE  Count(Tail(s), e) + (IF Head(s) = e THEN 1 ELSE 0) = Count(s, e)
<1> DEFINE later == Places(s, e) \ {1}
           shift == [k \in Places(Tail(s), e) |-> k + 1]
<1>1. /\ Tail(s) \in Seq(Envelopes) /\ Len(s) \in Nat \ {0} /\ Len(Tail(s)) = Len(s) - 1
      /\ Head(s) = s[1] /\ \A k \in 1..Len(Tail(s)) : Tail(s)[k] = s[k + 1]
  OBVIOUS
<1>2. \A k : k \in Places(Tail(s), e) <=> k \in Nat \ {0} /\ k + 1 \in later
  BY <1>1 DEF Places
<1>3. \A j \in later : j - 1 \in Places(Tail(s), e) /\ j \in Nat
  BY <1>1 DEF Places
<1>4. ExistsBijection(Places(Tail(s), e), later)
  <2>1. shift \in [Places(Tail(s), e) -> later]
    BY <1>2
  <2>2. \A j, k \in Places(Tail(s), e) : shift[j] = shift[k] => j = k
    BY <1>2
  <2>3. \A j \in later : \E k \in Places(Tail(s), e) : shift[k] = j
    BY <1>3
  <2>4. shift \in Bijection(Places(Tail(s), e), later)
    BY <2>1, <2>2, <2>3, Fun_IsBij
  <2> QED
    BY <2>4, Fun_ExistsBij
<1>5. Cardinality(later) = Count(Tail(s), e)
  BY <1>1, <1>4, CountInNat, FS_Bijection DEF Count
<1>6. CASE Head(s) = e
  <2>1. 1 \in Places(s, e)
    BY <1>1, <1>6 DEF Places
  <2>2. Cardinality(later) = Count(s, e) - 1
    BY <2>1, CountInNat, FS_RemoveElement DEF Count
  <2> QED
    BY <1>1, <1>5, <1>6, <2>2, CountInNat
<1>7. CASE Head(s) # e
  <2>1. later = Places(s, e)
    BY <1>1, <1>7 DEF Places
  <2>2. Count(s, e) = Count(Tail(s), e)
    BY <1>5, <2>1 DEF Count
  <2>3. Count(Tail(s), e) \in Nat
    BY <1>1, CountInNat
  <2> QED
    BY <1>7, <2>2, <2>3
<1> QED
  BY <1>6, <1>7

\* One envelope at a time; what was acknowledged and is not at work was published.
HandlerInv ==
  /\ events \in Seq(Envelopes) /\ rest \in Nat
  /\ delivered \in [Envelopes -> Nat] /\ handled \in [Envelopes -> Nat]
  /\ published \in [Envelopes -> Nat]
  /\ handler # "none" => botUserID
  /\ listener = "auth" => handler = "none"
  /\ handler \in {"none", "select"} => current = {}
  /\ current = {} \/ \E e \in Envelopes : current = {e}

EnvelopeInv(e) ==
  /\ handled[e] + Count(events, e) <= delivered[e]
  /\ published[e] <= handled[e] * Wanted(e)
  /\ e \in current /\ handler = "map" => published[e] + Wanted(e) <= handled[e] * Wanted(e)
  /\ e \in current /\ handler = "publish" =>
       published[e] + rest <= handled[e] * Wanted(e) /\ published[e] + rest >= Wanted(e)
  /\ e \in acks \cup acked /\ e \notin current => published[e] >= Wanted(e)

SlackInv == HandlerInv /\ \A e \in Envelopes : EnvelopeInv(e)

\* How often an envelope is to be answered is a number.
LEMMA WantedInNat == \A e : Wanted(e) \in Nat
BY SlackBoundsAssumption DEF Wanted

\* Envelopes are handled one at a time, and one that was acknowledged is at work or published.
THEOREM SlackInvariant == SlackSpec => []SlackInv
<1> USE SlackBoundsAssumption
<1>1. SlackInit => SlackInv
  <2> SUFFICES ASSUME SlackInit PROVE SlackInv
    OBVIOUS
  <2>1. HandlerInv
    BY DEF SlackInit, HandlerInv
  <2>2. ASSUME NEW e \in Envelopes PROVE EnvelopeInv(e)
    <3>1. Places(<<>>, e) = {}
      BY DEF Places
    <3>2. Count(<<>>, e) = 0
      BY <3>1, FS_EmptySet DEF Count
    <3> QED
      BY <3>2, WantedInNat DEF SlackInit, EnvelopeInv
  <2> QED
    BY <2>1, <2>2 DEF SlackInv
<1>2. SlackInv /\ [SlackNext]_slackVars => SlackInv'
  <2> SUFFICES ASSUME SlackInv, [SlackNext]_slackVars PROVE SlackInv'
    OBVIOUS
  <2> USE DEF SlackInv
  <2> DEFINE others == <<handler, botUserID, events, current, rest, delivered, handled, published>>
  <2>1. ASSUME UNCHANGED others, listener' = listener \/ listener' = "failed",
               (acks \cup acked)' \subseteq acks \cup acked PROVE SlackInv'
    <3>1. HandlerInv'
      BY <2>1 DEF HandlerInv
    <3>2. ASSUME NEW e \in Envelopes PROVE EnvelopeInv(e)'
      BY <2>1 DEF EnvelopeInv, Wanted
    <3> QED
      BY <3>1, <3>2
  <2>2. ASSUME NEW x \in Envelopes, DeliverEnvelope(x) PROVE SlackInv'
    <3>1. UNCHANGED <<listener, handler, botUserID, current, rest, handled, published, acks, acked>>
          /\ events' = Append(events, x) /\ delivered' = [delivered EXCEPT ![x] = @ + 1]
      BY <2>2 DEF DeliverEnvelope
    <3>2. HandlerInv'
      BY <3>1 DEF HandlerInv
    <3>3. ASSUME NEW e \in Envelopes PROVE EnvelopeInv(e)'
      <4>1. Count(events', e) = Count(events, e) + (IF x = e THEN 1 ELSE 0)
        BY <3>1, CountAppend DEF HandlerInv
      <4>2. Count(events, e) \in Nat
        BY CountInNat DEF HandlerInv
      <4>3. handled[e] + Count(events', e) <= delivered'[e]
        BY <3>1, <4>1, <4>2 DEF HandlerInv, EnvelopeInv
      <4> QED
        BY <3>1, <4>3 DEF EnvelopeInv, Wanted
    <3> QED
      BY <3>2, <3>3
  <2>3. CASE TakeEnvelope
    <3> DEFINE x == Head(events)
    <3>1. handler = "select" /\ events # <<>> /\ x \in Envelopes
      BY <2>3 DEF TakeEnvelope, HandlerInv
    <3>2. current' = {x} /\ events' = Tail(events) /\ handler' = "map"
          /\ handled' = [handled EXCEPT ![x] = @ + 1] /\ acks' \subseteq acks \cup {x}
          /\ UNCHANGED <<listener, botUserID, acked, delivered, rest, published>>
      BY <2>3 DEF TakeEnvelope, slack
    <3> HIDE DEF x
    <3>3. HandlerInv'
      BY <3>1, <3>2 DEF HandlerInv
    <3>4. ASSUME NEW e \in Envelopes PROVE EnvelopeInv(e)'
      <4>1. Count(Tail(events), e) + (IF x = e THEN 1 ELSE 0) = Count(events, e)
        BY <3>1, CountTail DEF HandlerInv, x
      <4>2. Count(events, e) \in Nat /\ Count(Tail(events), e) \in Nat /\ Wanted(e) \in Nat
        <5>1. Tail(events) \in Seq(Envelopes) /\ events \in Seq(Envelopes)
          BY <3>1 DEF HandlerInv
        <5> QED
          BY <5>1, CountInNat, WantedInNat
      <4>3. handled'[e] + Count(events', e) <= delivered'[e]
        BY <3>1, <3>2, <4>1, <4>2 DEF HandlerInv, EnvelopeInv
      <4>4. CASE e = x
        <5>1. handled'[e] = handled[e] + 1 /\ handled[e] \in Nat /\ published[e] \in Nat
          BY <3>1, <3>2, <4>4 DEF HandlerInv
        <5>2. handled'[e] * Wanted(e) = handled[e] * Wanted(e) + Wanted(e)
          BY <4>2, <5>1
        <5>3. published'[e] + Wanted(e) <= handled'[e] * Wanted(e)
          BY <3>2, <4>2, <5>1, <5>2 DEF EnvelopeInv
        <5> QED
          BY <3>2, <4>2, <4>3, <4>4, <5>1, <5>3 DEF EnvelopeInv, Wanted
      <4>5. CASE e # x
        <5>1. handled'[e] = handled[e] /\ e \notin current /\ e \notin current'
          BY <3>1, <3>2, <4>5 DEF HandlerInv
        <5> QED
          BY <3>2, <4>3, <4>5, <5>1 DEF EnvelopeInv, Wanted
      <4> QED
        BY <4>4, <4>5
    <3> QED
      BY <3>3, <3>4
  <2>4. CASE Map
    <3>1. handler = "map" /\ handler' = "publish"
          /\ UNCHANGED <<listener, botUserID, events, current, acks, acked, delivered, handled, published>>
      BY <2>4 DEF Map, slack
    <3>2. PICK x \in current : rest' = Mapped(x)
      BY <2>4 DEF Map
    <3>3. current = {x} /\ x \in Envelopes /\ botUserID
      BY <3>1, <3>2 DEF HandlerInv
    <3>4. rest' = Wanted(x)
      BY <3>2, <3>3 DEF Mapped, Wanted
    <3>5. HandlerInv'
      BY <3>1, <3>3, <3>4, WantedInNat DEF HandlerInv
    <3>6. ASSUME NEW e \in Envelopes PROVE EnvelopeInv(e)'
      BY <3>1, <3>3, <3>4, WantedInNat DEF EnvelopeInv, Wanted, HandlerInv
    <3> QED
      BY <3>5, <3>6
  <2>5. CASE PublishNext
    <3>1. handler = "publish"
          /\ UNCHANGED <<listener, botUserID, events, acks, acked, delivered, handled>>
      BY <2>5 DEF PublishNext, slack
    <3>2. CASE rest > 0
      <4>1. rest' = rest - 1 /\ UNCHANGED <<handler, current>>
            /\ published' = [e \in Envelopes |-> IF e \in current THEN published[e] + 1
                                                 ELSE published[e]]
        BY <2>5, <3>2 DEF PublishNext
      <4>2. HandlerInv'
        BY <3>1, <3>2, <4>1 DEF HandlerInv
      <4>3. ASSUME NEW e \in Envelopes PROVE EnvelopeInv(e)'
        <5>1. Wanted(e) \in Nat /\ handled[e] * Wanted(e) \in Nat /\ published[e] \in Nat
              /\ Wanted(e)' = Wanted(e) /\ rest \in Nat
          BY WantedInNat DEF HandlerInv, Wanted
        <5> HIDE DEF Wanted
        <5> QED
          BY <3>1, <3>2, <4>1, <5>1 DEF EnvelopeInv
      <4> QED
        BY <4>2, <4>3
    <3>3. CASE ~(rest > 0)
      <4>1. handler' = "select" /\ current' = {} /\ UNCHANGED <<rest, published>>
        BY <2>5, <3>3 DEF PublishNext
      <4>2. HandlerInv' /\ rest = 0
        BY <3>1, <3>3, <4>1 DEF HandlerInv
      <4>3. ASSUME NEW e \in Envelopes PROVE EnvelopeInv(e)'
        BY <3>1, <4>1, <4>2 DEF EnvelopeInv, Wanted, HandlerInv
      <4> QED
        BY <4>2, <4>3
    <3> QED
      BY <3>2, <3>3
  <2>6. ASSUME handler' \in {"dead", "done"}, handler # "none",
               UNCHANGED <<listener, botUserID, events, current, rest, delivered, handled, published,
                           acks, acked>>
        PROVE  SlackInv'
    <3>1. HandlerInv'
      BY <2>6 DEF HandlerInv
    <3>2. ASSUME NEW e \in Envelopes PROVE EnvelopeInv(e)'
      BY <2>6 DEF EnvelopeInv, Wanted
    <3> QED
      BY <3>1, <3>2
  <2>7. CASE HandlerPanics \/ CancelHandler
    BY <2>6, <2>7 DEF HandlerPanics, CancelHandler, slack
  <2>8. CASE Run
    <3>1. handler' = "select" /\ botUserID' = TRUE /\ listener' = "running"
          /\ UNCHANGED <<events, current, rest, delivered, handled, published, acks, acked>>
      BY <2>8 DEF Run, slack
    <3>2. current = {}
      BY <2>8 DEF Run, HandlerInv
    <3>3. HandlerInv'
      BY <3>1, <3>2 DEF HandlerInv
    <3>4. ASSUME NEW e \in Envelopes PROVE EnvelopeInv(e)'
      BY <3>1, <3>2 DEF EnvelopeInv, Wanted
    <3> QED
      BY <3>3, <3>4
  <2>9. ASSUME NEW e \in Envelopes, Happen(e) \/ AckArrives(e) PROVE SlackInv'
    BY <2>1, <2>9 DEF Happen, AckArrives
  <2>10. CASE Disconnect \/ AuthFails
    BY <2>1, <2>10 DEF Disconnect, AuthFails, slack
  <2>11. CASE UNCHANGED slackVars
    BY <2>1, <2>11 DEF slackVars
  <2> QED
    BY <2>2, <2>3, <2>4, <2>5, <2>7, <2>8, <2>9, <2>10, <2>11 DEF SlackNext
<1> QED
  BY <1>1, <1>2, PTL DEF SlackSpec

\* What Slack takes for received was published, and nothing of the bot's own, however
\* envelopes repeat and acknowledgements are lost (processEvent, MapSlackEvent).
THEOREM MirroredHolds == SlackSpec => []Mirrored
<1>1. SlackInv => Mirrored
  <2> SUFFICES ASSUME SlackInv, NEW e \in Envelopes
               PROVE  /\ published[e] <= delivered[e] * Wanted(e)
                      /\ e \in acked /\ e \notin current => published[e] >= Wanted(e)
    BY DEF Mirrored
  <2>1. EnvelopeInv(e) /\ HandlerInv
    BY DEF SlackInv
  <2>2. Count(events, e) \in Nat /\ Wanted(e) \in Nat
    BY <2>1, CountInNat, WantedInNat DEF HandlerInv
  <2> DEFINE d == delivered[e] - handled[e]
  <2>3. d \in Nat /\ delivered[e] = handled[e] + d
    <3>1. handled[e] \in Nat /\ delivered[e] \in Nat
      BY <2>1 DEF HandlerInv
    <3>2. handled[e] + Count(events, e) <= delivered[e]
      BY <2>1 DEF EnvelopeInv
    <3> QED
      BY <2>2, <3>1, <3>2
  <2> HIDE DEF d
  <2>4. delivered[e] * Wanted(e) = handled[e] * Wanted(e) + d * Wanted(e)
        /\ d * Wanted(e) \in Nat /\ handled[e] * Wanted(e) \in Nat
    BY <2>1, <2>2, <2>3 DEF HandlerInv
  <2> QED
    BY <2>1, <2>4 DEF EnvelopeInv, HandlerInv
<1> QED
  BY <1>1, SlackInvariant, PTL

-----------------------------------------------------------------------------
(***************************************************************************)
(* Types of the commands and of the socket.                                *)
(***************************************************************************)

\* What the senders and the reloads hold; a verdict is remembered with the file's secret.
KeyInv ==
  /\ edits \in 0..MaxEdits
  /\ secret \in Secrets \cup {Garbled} /\ poll \in Polls /\ polled \in Polls
  /\ keys \in [Signers -> Secrets] /\ sign \in [Ids -> Secrets]
  /\ judged \in [Ids -> Secrets \cup {Unsettled}]

SwitchInv == up \in BOOLEAN /\ fresh \in BOOLEAN

\* No step of the reloads or of a command takes a switch or a secret out of its range.
LEMMA KeyStep == ReloadInv /\ KeyInv /\ [CommandNext]_commandVars => KeyInv'
<1> SUFFICES ASSUME ReloadInv, KeyInv, [CommandNext]_commandVars PROVE KeyInv'
  OBVIOUS
<1> USE DEF KeyInv
<1>1. CASE UNCHANGED <<edits, settings, keys, sign, judged>>
  BY <1>1 DEF settings
<1>2. ASSUME NEW s \in Signers, Send(s) PROVE KeyInv'
  <2>1. UNCHANGED <<edits, settings, keys, judged>>
        /\ sign' = [sign EXCEPT ![sends + 1] = keys[s]]
    BY <1>2, Zenon DEF Send, settings
  <2> QED
    BY <2>1 DEF settings
<1>3. ASSUME NEW s \in Signers, RestartSender(s) PROVE KeyInv'
  <2>1. UNCHANGED <<settings, sign, judged>> /\ edits < MaxEdits /\ edits' = edits + 1
        /\ \E k \in Secrets : keys' = [keys EXCEPT ![s] = k]
    BY <1>3, Zenon DEF RestartSender, settings, records
  <2>2. edits' \in 0..MaxEdits
    BY <2>1, CommandBoundsAssumption
  <2> QED
    BY <2>1, <2>2 DEF settings
<1>4. CASE EditConfig
  <2>1. UNCHANGED <<settings, keys, sign, judged>> /\ edits < MaxEdits /\ edits' = edits + 1
    BY <1>4, Zenon DEF EditConfig, settings, records
  <2>2. edits' \in 0..MaxEdits
    BY <2>1, CommandBoundsAssumption
  <2> QED
    BY <2>1, <2>2 DEF settings
<1>5. ASSUME NEW g \in Reloaders, ReloadStep(g) PROVE KeyInv'
  <2>1. reload[g].new.secret \in Secrets /\ reload[g].new.poll \in Polls
    BY DEF ReloadInv, Contents
  <2>2. UNCHANGED <<edits, polled, keys, sign, judged>>
    BY <1>5, Zenon DEF ReloadStep, ReadConfig, ApplyPoll, ApplySecret, settings, records
  <2>3. secret' \in {secret, reload[g].new.secret, Garbled}
    BY <1>5 DEF ReloadStep, ReadConfig, ApplyPoll, ApplySecret, settings
  <2>4. poll' \in {poll, reload[g].new.poll}
    BY <1>5 DEF ReloadStep, ReadConfig, ApplyPoll, ApplySecret, settings
  <2> QED
    BY <2>1, <2>2, <2>3, <2>4
<1>6. CASE Handle
  <2>1. UNCHANGED Outside
    BY <1>6 DEF Handle, Take, Malformed, Refuse, TornRead, Admit, Perform, RequestFails,
                RequestDone, Finish
  <2>2. UNCHANGED judged \/ \E v \in {"malformed", "refused", "admitted"} : Verdict(v)
    BY <1>6 DEF Handle, Take, Malformed, Refuse, TornRead, Admit, RequestFails, RequestDone
  <2>3. Settled => LoadConfig(file).secret \in Secrets
    BY LoadedContents DEF Settled, ReloadInv, Contents
  <2>4. judged' \in [Ids -> Secrets \cup {Unsettled}]
    BY <2>2, <2>3 DEF Verdict
  <2> QED
    BY <2>1, <2>4 DEF Outside, settings
<1> QED
  BY <1>1, <1>2, <1>3, <1>4, <1>5, <1>6, Zenon DEF CommandNext, commandVars, settings

\* The variables of commands and reloads keep their types (handleCommand, reloadConfig).
THEOREM CommandTypeOKHolds == CommandSpec => []CommandTypeOK
<1>1. CommandInit => KeyInv /\ SwitchInv
  <2> SUFFICES ASSUME CommandInit PROVE KeyInv /\ SwitchInv
    OBVIOUS
  <2>1. secret \in Secrets /\ poll \in Polls
    <3>1. CASE ~setup.named /\ Loads(file) /\ secret = LoadConfig(file).secret
               /\ poll = LoadConfig(file).poll
      BY <3>1, LoadedContents DEF CommandInit, Contents
    <3>2. CASE secret \in Secrets /\ poll \in Polls
      BY <3>2
    <3> QED
      BY <3>1, <3>2, Zenon DEF CommandInit
  <2>2. edits \in 0..MaxEdits /\ polled = poll
    BY CommandBoundsAssumption DEF CommandInit
  <2>3. keys \in [Signers -> Secrets] /\ sign \in [Ids -> Secrets]
        /\ judged \in [Ids -> Secrets \cup {Unsettled}]
    BY <2>1, SecretsAssumption DEF CommandInit
  <2>4. up \in BOOLEAN /\ fresh \in BOOLEAN
    <3>1. setup.named \in BOOLEAN
      BY SetupsAssumption DEF CommandInit
    <3> QED
      BY <3>1, Zenon DEF CommandInit
  <2> QED
    BY <2>1, <2>2, <2>3, <2>4, Zenon DEF KeyInv, SwitchInv
<1>2. SwitchInv /\ [CommandNext]_commandVars => SwitchInv'
  <2> SUFFICES ASSUME SwitchInv, [CommandNext]_commandVars PROVE SwitchInv'
    OBVIOUS
  <2>1. UNCHANGED up \/ up' = FALSE
    BY Zenon DEF CommandNext, commandVars, Send, RestartSender, EditConfig, ReloadStep, ReadConfig,
         ApplyPoll, ApplySecret, Handle, Take, Malformed, Refuse, TornRead, Admit, Perform,
         RequestFails, RequestDone, Finish
  <2>2. UNCHANGED fresh \/ fresh' = FALSE \/ \E g \in Reloaders : ReadConfig(g)
    BY Zenon DEF CommandNext, commandVars, Send, RestartSender, EditConfig, ReloadStep,
         ApplyPoll, ApplySecret, Handle, Take, Malformed, Refuse, TornRead, Admit, Perform,
         RequestFails, RequestDone, Finish, Outside, reloads
  <2>3. fresh' \in BOOLEAN
    BY <2>2, Zenon DEF ReadConfig, SwitchInv
  <2> QED
    BY <2>1, <2>3, Zenon DEF SwitchInv
<1>3. CommandSpec => [](KeyInv /\ SwitchInv)
  BY <1>1, <1>2, KeyStep, ReloadInvariant, PTL DEF CommandSpec
<1>4. ReloadInv /\ CommandInv /\ KeyInv /\ SwitchInv => CommandTypeOK
  <2> SUFFICES ASSUME ReloadInv, CommandInv, KeyInv, SwitchInv PROVE CommandTypeOK
    OBVIOUS
  <2>1. hand \in 0..MaxSent
    BY CommandBoundsAssumption DEF CommandInv, QueueInv
  <2> QED
    BY <2>1, Zenon DEF ReloadInv, CommandInv, QueueInv, WorkInv, Requesting, KeyInv, SwitchInv,
                       CommandTypeOK
<1> QED
  BY <1>3, <1>4, ReloadInvariant, CommandInvariant, PTL

\* The variables of the socket keep their types, and its channel its capacity
\* (SocketModeListener).
THEOREM SlackTypeOKHolds == SlackSpec => []SlackTypeOK
<1> DEFINE Sets == /\ pending \subseteq Envelopes /\ happened \subseteq Envelopes
                   /\ acks \subseteq Envelopes /\ acked \subseteq Envelopes
           Stations == /\ listener \in {"auth", "running", "failed"}
                     /\ handler \in {"none", "select", "map", "publish", "dead", "done"}
           Bounds == /\ events \in Seq(Envelopes) /\ Len(events) <= Buffer /\ rest \in 0..Actions
                     /\ delivered \in [Envelopes -> 0..MaxDeliveries]
           Identity == botUserID \in BOOLEAN
<1>1. SlackInit => Sets /\ Stations /\ Bounds /\ Identity
  <2> SUFFICES ASSUME SlackInit PROVE Sets /\ Stations /\ Bounds /\ Identity
    OBVIOUS
  <2>1. Sets /\ Stations
    BY DEF SlackInit
  <2>2. Bounds
    <3>1. 0 \in 0..MaxDeliveries /\ 0 \in 0..Actions /\ 0 <= Buffer
      BY SlackBoundsAssumption
    <3>2. events \in Seq(Envelopes) /\ Len(events) = 0
      BY DEF SlackInit
    <3> QED
      BY <3>1, <3>2 DEF SlackInit
  <2>3. Identity
    BY Zenon DEF SlackInit
  <2> QED
    BY <2>1, <2>2, <2>3
<1>2. SlackInv /\ Sets /\ Stations /\ Bounds /\ Identity /\ [SlackNext]_slackVars
        => Sets' /\ Stations' /\ Bounds' /\ Identity'
  <2> SUFFICES ASSUME SlackInv, Sets, Stations, Bounds, Identity, [SlackNext]_slackVars
               PROVE  Sets' /\ Stations' /\ Bounds' /\ Identity'
    OBVIOUS
  <2>1. Sets'
    <3>1. CASE TakeEnvelope
      <4>1. Head(events) \in Envelopes
        BY <3>1 DEF TakeEnvelope
      <4> QED
        BY <3>1, <4>1 DEF TakeEnvelope, slack
    <3>2. ASSUME NEW e \in Envelopes, Happen(e) \/ DeliverEnvelope(e) \/ AckArrives(e) PROVE Sets'
      BY <3>2 DEF Happen, DeliverEnvelope, AckArrives
    <3>3. CASE \/ Disconnect \/ Run \/ AuthFails \/ Map \/ PublishNext \/ HandlerPanics
               \/ CancelHandler \/ UNCHANGED slackVars
      <4>1. UNCHANGED <<pending, happened, acked>> /\ acks' \in {acks, {}}
        BY <3>3 DEF Disconnect, Run, AuthFails, Map, PublishNext, HandlerPanics, CancelHandler,
                    slackVars, slack
      <4> QED
        BY <4>1
    <3> QED
      BY <3>1, <3>2, <3>3 DEF SlackNext
  <2>2. Stations'
    BY DEF SlackNext, slackVars, slack, Happen, DeliverEnvelope, AckArrives, Disconnect, Run, AuthFails,
           TakeEnvelope, Map, PublishNext, HandlerPanics, CancelHandler
  <2>3. Bounds'
    <3>1. CASE UNCHANGED <<events, rest, delivered>>
      BY <3>1
    <3>2. CASE TakeEnvelope
      <4>1. Tail(events) \in Seq(Envelopes) /\ Len(Tail(events)) <= Len(events)
        BY <3>2 DEF TakeEnvelope
      <4>2. Len(Tail(events)) <= Buffer
        BY <4>1, SlackBoundsAssumption
      <4> QED
        BY <3>2, <4>1, <4>2 DEF TakeEnvelope, slack
    <3>3. ASSUME NEW e \in Envelopes, DeliverEnvelope(e) PROVE Bounds'
      <4>1. events' = Append(events, e) /\ Len(events) < Buffer /\ UNCHANGED rest
            /\ delivered' = [delivered EXCEPT ![e] = @ + 1] /\ delivered[e] < MaxDeliveries
        BY <3>3 DEF DeliverEnvelope
      <4>2. events' \in Seq(Envelopes) /\ Len(events') <= Buffer
        BY <4>1, SlackBoundsAssumption
      <4>3. delivered[e] + 1 \in 0..MaxDeliveries
        BY <4>1, SlackBoundsAssumption
      <4> QED
        BY <4>1, <4>2, <4>3
    <3>4. CASE Map
      <4>1. PICK e \in current : rest' = Mapped(e)
        BY <3>4 DEF Map
      <4>2. rest' \in {0, 1, Actions}
        BY <4>1 DEF Mapped
      <4>3. rest' \in 0..Actions
        BY <4>2, SlackBoundsAssumption
      <4> QED
        BY <3>4, <4>3 DEF Map, slack
    <3>5. CASE PublishNext
      <4>1. UNCHANGED <<events, delivered>> /\ rest' \in {rest} \cup (IF rest > 0 THEN {rest - 1} ELSE {})
        BY <3>5 DEF PublishNext, slack
      <4>2. rest' \in 0..Actions
        BY <4>1, SlackBoundsAssumption
      <4> QED
        BY <4>1, <4>2
    <3>6. CASE \/ Disconnect \/ Run \/ AuthFails \/ HandlerPanics \/ CancelHandler
               \/ UNCHANGED slackVars \/ \E e \in Envelopes : Happen(e) \/ AckArrives(e)
      BY <3>1, <3>6 DEF Disconnect, Run, AuthFails, HandlerPanics, CancelHandler, Happen, AckArrives,
                        slackVars, slack
    <3> QED
      BY <3>2, <3>3, <3>4, <3>5, <3>6 DEF SlackNext
  <2>4. Identity'
    <3>1. UNCHANGED botUserID \/ botUserID' = TRUE
      BY Zenon DEF SlackNext, slackVars, Happen, DeliverEnvelope, AckArrives, Disconnect, Run, AuthFails,
           TakeEnvelope, Map, PublishNext, HandlerPanics, CancelHandler
    <3> QED
      BY <3>1, Zenon
  <2> QED
    BY <2>1, <2>2, <2>3, <2>4
<1>3. SlackInv /\ Sets /\ Stations /\ Bounds /\ Identity => SlackTypeOK
  <2> SUFFICES ASSUME SlackInv, Sets, Stations, Bounds, Identity PROVE SlackTypeOK
    OBVIOUS
  <2>1. current \subseteq Envelopes
    BY DEF SlackInv, HandlerInv
  <2> QED
    BY <2>1, Zenon DEF SlackInv, HandlerInv, SlackTypeOK
<1> QED
  BY <1>1, <1>2, <1>3, SlackInvariant, PTL DEF SlackSpec

-----------------------------------------------------------------------------
(***************************************************************************)
(* The agents together.                                                    *)
(***************************************************************************)

\* Every part behaves among the agents as it does alone: whichever part runs, the others
\* are left where they are.
THEOREM AgentsPartsHold ==
  AgentsSpec => PollerSpec /\ GitHubSpec /\ CommandSpec /\ SlackSpec /\ AuthSpec
<1>1. AgentsInit => PollerInit /\ GitHubInit /\ CommandInit /\ SlackInit /\ AuthInit
  BY DEF AgentsInit
<1>2. [AgentsNext]_agentsVars =>
        /\ [PollerNext]_pollerVars /\ [GitHubNext]_githubVars /\ [CommandNext]_commandVars
        /\ [SlackNext]_slackVars /\ [AuthNext]_authVars
  BY DEF AgentsNext, PollerPart, GitHubPart, CommandPart, SlackPart, AuthPart, otherThanPoller,
         otherThanGitHub, otherThanCommands, otherThanSlack, otherThanAuth, agentsVars
<1> QED
  BY <1>1, <1>2, PTL DEF AgentsSpec, PollerSpec, GitHubSpec, CommandSpec, SlackSpec, AuthSpec

\* The variables of the agents keep their types, in every part (internal/github, slack,
\* google, and the commands and reloads of all).
THEOREM AgentsTypeOKHolds == AgentsSpec => []AgentsTypeOK
<1>1. AgentsInit => part \in Parts
  BY DEF AgentsInit
<1>2. part \in Parts /\ [AgentsNext]_agentsVars => (part \in Parts)'
  BY DEF AgentsNext, PollerPart, GitHubPart, CommandPart, SlackPart, AuthPart, agentsVars
<1>3. AgentsSpec => [](part \in Parts)
  BY <1>1, <1>2, PTL DEF AgentsSpec
<1>4. /\ part \in Parts /\ PollerTypeOK /\ GitHubTypeOK /\ CommandTypeOK /\ SlackTypeOK /\ AuthInv
      => AgentsTypeOK
  BY DEF AgentsTypeOK, AuthInv
<1> QED
  BY <1>3, <1>4, AgentsPartsHold, PollerTypeOKHolds, GitHubTypeOKHolds, CommandTypeOKHolds,
     SlackTypeOKHolds, AuthInvariant, PTL

\* What each part promises, promised by the agents: polled items, commands, verdicts,
\* secrets, envelopes and tokens are what they should be in every behaviour of them all.
THEOREM AgentsSafe ==
  AgentsSpec => []( /\ Complete /\ AtMostOnce /\ InOrder /\ OneApproval
                    /\ SecretReloaded /\ Verdicts /\ Honest /\ Mirrored /\ TokenKept )
BY AgentsPartsHold, CompleteHolds, AtMostOnceHolds, InOrderHolds, OneApprovalHolds,
   SecretReloadedHolds, VerdictsHold, HonestHolds, MirroredHolds, TokenKeptHolds, PTL

=============================================================================
