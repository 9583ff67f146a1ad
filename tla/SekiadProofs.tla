---------------------------- MODULE SekiadProofs ----------------------------
(***************************************************************************)
(* Proofs about sekiad: its registry, start and shutdown, reloads of the   *)
(* configuration, the dashboard, and the parts together, for any agents    *)
(* and processes of one name, any workflows, settings, configuration files *)
(* and viewers, and any size of the ring and of the streams.               *)
(***************************************************************************)
EXTENDS Sekiad, LoaderProofs, ConversationProofs

-----------------------------------------------------------------------------
(***************************************************************************)
(* The registry.                                                           *)
(***************************************************************************)

\* What the handlers rely on: the map has an entry and a registration for each name.
EntryInv ==
  /\ meta \in [AgentNames -> Procs \cup {Nobody}]
  /\ heard \subseteq Procs
  /\ Capable

\* A registration that was received stays in the map whatever heartbeats come, and
\* in which order (handleRegistration, handleHeartbeat).
THEOREM CapableHolds == RegistrySpec => []Capable
<1> USE NameOfAssumption, NobodyAssumption
<1>1. RegistryInit => EntryInv
  <2> SUFFICES ASSUME RegistryInit PROVE EntryInv
    OBVIOUS
  <2>1. heard = {} /\ meta = [n \in AgentNames |-> Nobody]
    BY DEF RegistryInit, Unlisted
  <2> QED
    BY <2>1 DEF EntryInv, Capable
<1>2. EntryInv /\ [RegistryNext]_registryVars => EntryInv'
  <2> SUFFICES ASSUME EntryInv, [RegistryNext]_registryVars PROVE EntryInv'
    OBVIOUS
  <2>1. CASE StopDaemon
    BY <2>1 DEF StopDaemon, EntryInv, Capable
  <2>2. ASSUME NEW p \in Procs, HandleRegistration(p) PROVE EntryInv'
    BY <2>2 DEF HandleRegistration, EntryInv, Capable
  <2>3. ASSUME NEW p \in Procs, HandleHeartbeat(p) PROVE EntryInv'
    BY <2>3 DEF HandleHeartbeat, EntryInv, Capable
  <2>4. CASE UNCHANGED <<listed, meta, heard>>
    BY <2>4 DEF EntryInv, Capable
  <2> QED
    BY <2>1, <2>2, <2>3, <2>4
    DEF RegistryNext, registryVars, entries, StartNats, StartRegistry, StartAgent, Beat,
        Record, Reconnect, CloseConn, Crash
<1>3. EntryInv => Capable
  BY DEF EntryInv
<1> QED
  BY <1>1, <1>2, <1>3, PTL DEF RegistrySpec

-----------------------------------------------------------------------------
(***************************************************************************)
(* Start and shutdown of the daemon.                                       *)
(***************************************************************************)

\* Where the server has not started yet, and where it is gone.
Cold == {"nats", "failed", "ended"}

\* Before the API was started nobody calls it; what shutdown has passed is down, and the
\* sentinel is told to end.
OrderInv ==
  /\ stage \in Stages
  /\ up \subseteq Subsystems
  /\ calling \in BOOLEAN /\ spent \in BOOLEAN /\ dismissed \in BOOLEAN
  /\ stage = "nats" => up = {}
  /\ stage \in Starting \ {"web"} => "api" \notin up /\ ~calling
  /\ stage \in Starting => "web" \notin up
  /\ stage \notin Cold => "nats" \in up
  /\ stage = "failed" => up \subseteq {"sentinel", "watcher"} /\ ~calling
  /\ stage \in (Leaving \ {"shutWeb"}) \cup {"ended"} => "web" \notin up
  /\ stage \in (Leaving \ {"shutWeb", "shutApi"}) \cup {"ended"} =>
       "api" \notin up /\ (~calling \/ spent)
  /\ stage \in {"stopEngine", "closeRegistry", "closeNats", "ended"} =>
       ("sentinel" \in up => dismissed)
  /\ stage \in {"closeRegistry", "closeNats", "ended"} => "engine" \notin up
  /\ stage \in {"closeNats", "ended"} => "registry" \notin up
  /\ stage = "ended" => up \cap {"nats", "reload"} = {}

\* A reload leaves the subsystems as they are.
LEMMA ReloadLeaves ==
  \A s \in Subjects : Reload(s) =>
    UNCHANGED <<stage, opts, skillsOk, up, stopCh, built, dismissed, calling, streams, spent>>
BY Zenon DEF Reload, ReadFile, Compare, Set, CompareKey, CopyWorkflows, CopyKey, CreateClient,
     SetClient, EndReload, ReloadUnchanged, requestVars

\* What a reload gives to the engine or takes from it is the LLM client.
LEMMA ReloadTools ==
  \A s \in Subjects : Reload(s) => tools' \in {tools, tools \cup {"llm"}, tools \ {"llm"}}
BY DEF Reload, ReadFile, Compare, Set, CompareKey, CopyWorkflows, CopyKey, CreateClient,
     SetClient, EndReload

\* A sentinel that returns leaves everything else as it is.
LEMMA SentinelLeaves ==
  SentinelReturns => /\ up' = up \ {"sentinel"} /\ dismissed
                     /\ UNCHANGED <<stage, opts, skillsOk, stopCh, reloadVars, tools, built,
                                    dismissed, requestVars, spent>>
BY Zenon DEF SentinelReturns, DownUnchanged

\* Start and shutdown bring the subsystems up and down in their order.
THEOREM OrderInvariant == DaemonSpec => []OrderInv
<1>1. DaemonInit => OrderInv
  BY DEF DaemonInit, OrderInv, Stages, Starting, Leaving, Subsystems, Cold
<1>2. OrderInv /\ [DaemonNext]_daemonVars => OrderInv'
  <2> SUFFICES ASSUME OrderInv, [DaemonNext]_daemonVars PROVE OrderInv'
    OBVIOUS
  <2> USE DEF OrderInv, Stages, Starting, Leaving, Subsystems, Cold, Go, IsUp, requestVars
  <2>1. CASE Startup
    <3>1. CASE StartServer BY <3>1 DEF StartServer
    <3>2. CASE OpenRegistry
      <4>1. stage = "registry" /\ UNCHANGED <<calling, spent, dismissed>>
        BY <3>2 DEF OpenRegistry
      <4>2. CASE stage' = "engine" /\ up' = up \cup {"registry"}
        BY <4>1, <4>2
      <4>3. CASE stage' = "failed" /\ up' = {}
        BY <4>1, <4>3
      <4> QED
        BY <3>2, <4>2, <4>3 DEF OpenRegistry
    <3>3. CASE StartEngine
      <4>1. stage = "engine" /\ UNCHANGED <<calling, spent, dismissed>>
        BY <3>3 DEF StartEngine
      <4>2. CASE stage' = "load" /\ up' = up \cup {"engine"}
        BY <4>1, <4>2
      <4>3. CASE stage' = "failed" /\ up' = {}
        BY <4>1, <4>3
      <4>4. CASE stage' = "conversations" /\ up' = up
        BY <4>1, <4>4
      <4> QED
        BY <3>3, <4>2, <4>3, <4>4 DEF StartEngine
    <3>4. CASE LoadScripts BY <3>4 DEF LoadScripts
    <3>5. CASE StartWatching BY <3>5 DEF StartWatching
    <3>6. CASE GiveConversations BY <3>6 DEF GiveConversations
    <3>7. CASE LoadSkills BY <3>7 DEF LoadSkills
    <3>8. CASE StartSentinel BY <3>8 DEF StartSentinel
    <3>9. CASE SubscribeReload BY <3>9 DEF SubscribeReload
    <3>10. CASE StartApi BY <3>10 DEF StartApi
    <3>11. CASE StartWeb BY <3>11 DEF StartWeb
    <3> QED
      BY <2>1, <3>1, <3>2, <3>3, <3>4, <3>5, <3>6, <3>7, <3>8, <3>9, <3>10, <3>11 DEF Startup
  <2>2. CASE Shutdown
    <3> USE DEF DownUnchanged
    <3>1. CASE ShutWeb BY <3>1 DEF ShutWeb
    <3>2. CASE CloseApi BY <3>2 DEF CloseApi
    <3>3. CASE ShutApi BY <3>3 DEF ShutApi
    <3>4. CASE StopSentinel
      <4>1. /\ stage = "stopSentinel" /\ stage' = "stopEngine" /\ UNCHANGED <<up, calling, spent>>
            /\ dismissed' = ("sentinel" \in up)
        BY <3>4 DEF StopSentinel
      <4>2. dismissed' \in BOOLEAN
        BY <4>1
      <4>3. "sentinel" \in up => dismissed'
        BY <4>1, Zenon
      <4> QED
        BY <4>1, <4>2, <4>3
    <3>5. CASE StopEngine BY <3>5 DEF StopEngine
    <3>6. CASE CloseRegistry BY <3>6 DEF CloseRegistry
    <3>7. CASE CloseNats BY <3>7 DEF CloseNats
    <3> QED
      BY <2>2, <3>1, <3>2, <3>3, <3>4, <3>5, <3>6, <3>7 DEF Shutdown
  <2>3. CASE Timeout
    BY <2>3 DEF Timeout, DownUnchanged
  <2>4. CASE BeginCall
    BY <2>4 DEF BeginCall, Live
  <2>5. CASE ReloadWorkflows
    BY <2>5 DEF ReloadWorkflows, Live
  <2>6. ASSUME NEW why, Leave(why) PROVE OrderInv'
    BY <2>6 DEF Leave, DownUnchanged
  <2>7. CASE Stop \/ Stream
    <3>1. UNCHANGED <<stage, up, calling, spent, dismissed>>
      BY <2>7, Zenon DEF Stop, Stream, reloadVars
    <3> QED
      BY <3>1
  <2>8. ASSUME NEW s \in Subjects, Reload(s)
        PROVE  UNCHANGED <<stage, up, calling, spent, dismissed>>
    BY <2>8, ReloadLeaves
  <2>9. ASSUME NEW w \in Scripts, Reloaded(w) PROVE UNCHANGED <<stage, up, calling, spent, dismissed>>
    BY <2>9 DEF Reloaded
  <2>10. CASE UNCHANGED <<stage, up, calling, spent, dismissed>>
    BY <2>10
  <2>11. CASE SentinelReturns
    <3>1. up' = up \ {"sentinel"} /\ UNCHANGED <<stage, calling, spent, dismissed>>
      BY <2>11, SentinelLeaves, Zenon
    <3> QED
      BY <3>1
  <2> QED
    BY <2>1, <2>2, <2>3, <2>4, <2>5, <2>6, <2>7, <2>8, <2>9, <2>10, <2>11
    DEF DaemonNext, daemonVars
<1> QED
  BY <1>1, <1>2, PTL DEF DaemonSpec

\* Whatever fails at the start and however long the servers take to shut down, the NATS
\* connection is closed after all that shutdown waits for, and after the sentinel was
\* told to end (Run, shutdown, Sentinel.Stop).
THEOREM OrderlyHolds == DaemonSpec => []Orderly
<1>1. OrderInv => Orderly
  BY DEF OrderInv, Orderly, Stages, Starting, Leaving, Subsystems, Cold, IsUp
<1> QED
  BY <1>1, OrderInvariant, PTL

-----------------------------------------------------------------------------
(***************************************************************************)
(* Configuration reloads of the daemon.                                    *)
(***************************************************************************)

KeyAgrees == cfg.key # NoKey => inForce.key = cfg.key

\* What the engine and the daemon hold while the reload of subject s is at each step.
Between(s) ==
  /\ at[s] \in {"idle", "timeout", "setTimeout"} => inForce.timeout = cfg.timeout
  /\ at[s] \in {"idle", "timeout", "setTimeout", "verify", "setVerify"} =>
       inForce.verify = cfg.verify
  /\ at[s] \notin {"idle", "timeout", "setTimeout"} => inForce.timeout = fresh[s].timeout
  /\ at[s] \notin {"idle", "timeout", "setTimeout", "verify", "setVerify"} =>
       inForce.verify = fresh[s].verify
  /\ at[s] \in {"switchKey", "client", "setClient", "cfgKey"} =>
       cfg.timeout = fresh[s].timeout /\ cfg.verify = fresh[s].verify
  /\ at[s] \notin {"client", "setClient"} => KeyAgrees
  /\ at[s] \in {"client", "setClient"} => cfg.key = fresh[s].key
  /\ at[s] = "setClient" => llmClient[s] = fresh[s].key
  /\ at[s] \in {"cfg", "cfgKey"} => (fresh[s].key # NoKey => inForce.key = fresh[s].key)

ApplyInv ==
  /\ cfg \in Settings /\ inForce \in Settings /\ fresh \in [Subjects -> Settings]
  /\ llmClient \in [Subjects -> ApiKeys \cup {NoKey}]
  /\ at \in [Subjects -> ReloadSteps] /\ lone \in BOOLEAN
  /\ lone => \A s \in Subjects : at[s] # "idle" => Others(s)
  /\ lone /\ Enabled("engine") /\ Idle => Agree
  /\ lone /\ Enabled("engine") => \A s \in Subjects : at[s] # "idle" => Between(s)

\* Whatever the file holds, LoadConfig returns settings.
LEMMA LoadedSettings == \A f : LoadConfig(f) \in Settings
BY DefaultAssumption DEF LoadConfig

\* One step of a reload: it may count on what holds between its steps if it is alone.
LEMMA AppliedStep ==
  ASSUME ApplyInv, NEW s \in Subjects, at[s] # "idle", UNCHANGED <<opts, lone>>,
         NEW to \in ReloadSteps, at' = [at EXCEPT ![s] = to],
         cfg' \in Settings, inForce' \in Settings, fresh' \in [Subjects -> Settings],
         llmClient' \in [Subjects -> ApiKeys \cup {NoKey}],
         Between(s) /\ Enabled("engine") => IF to = "idle" THEN Agree' ELSE Between(s)'
  PROVE  ApplyInv'
<1>1. at' \in [Subjects -> ReloadSteps] /\ at'[s] = to
  BY DEF ApplyInv
<1>2. ASSUME lone PROVE \A t \in Subjects \ {s} : at'[t] = "idle"
  BY <1>2 DEF ApplyInv, Others
<1>3. ASSUME lone PROVE \A t \in Subjects : at'[t] # "idle" => Others(t)'
  BY <1>1, <1>2, <1>3 DEF Others
<1>4. Enabled("engine")' <=> Enabled("engine")
  BY DEF Enabled
<1>5. ASSUME lone, Enabled("engine") PROVE IF to = "idle" THEN Agree' ELSE Between(s)'
  BY <1>5 DEF ApplyInv
<1>6. ASSUME lone, Enabled("engine")
      PROVE  \A t \in Subjects : at'[t] # "idle" => Between(t)'
  BY <1>1, <1>2, <1>5, <1>6
<1>7. ASSUME lone, Enabled("engine"), Idle' PROVE Agree'
  BY <1>1, <1>5, <1>7 DEF Idle
<1> QED
  BY <1>1, <1>3, <1>4, <1>6, <1>7 DEF ApplyInv

\* Until two reloads overlap, the engine has what the daemon noted, but for the
\* settings that the reload in progress is about to note.
THEOREM ApplyInvariant == DaemonSpec => []ApplyInv
<1>1. DaemonInit => ApplyInv
  <2> SUFFICES ASSUME DaemonInit PROVE ApplyInv
    OBVIOUS
  <2>1. cfg \in Settings /\ inForce = cfg
    BY LoadedSettings DEF DaemonInit
  <2>2. fresh \in [Subjects -> Settings] /\ at \in [Subjects -> ReloadSteps]
        /\ llmClient \in [Subjects -> ApiKeys \cup {NoKey}] /\ lone \in BOOLEAN
        /\ \A s \in Subjects : at[s] = "idle"
    BY DefaultAssumption DEF DaemonInit, ReloadSteps
  <2> QED
    BY <2>1, <2>2 DEF ApplyInv, Agree
<1>2. ApplyInv /\ [DaemonNext]_daemonVars => ApplyInv'
  <2> SUFFICES ASSUME ApplyInv, [DaemonNext]_daemonVars PROVE ApplyInv'
    OBVIOUS
  <2>1. CASE UNCHANGED <<opts, cfg, inForce, at, fresh, llmClient, lone>>
    BY <2>1 DEF ApplyInv, Others, Enabled, Between, KeyAgrees, Idle, Agree
  <2>2. ASSUME NEW s \in Subjects, NEW f \in ConfigFiles, ReadFile(s, f) PROVE ApplyInv'
    <3>1. UNCHANGED <<opts, cfg, inForce, llmClient>> /\ at[s] = "idle"
      BY <2>2 DEF ReadFile
    <3>2. CASE UNCHANGED <<at, fresh, lone>>
      BY <2>1, <3>1, <3>2
    <3>3. ASSUME NEW to \in {"timeout", "cfg"}, at' = [at EXCEPT ![s] = to],
                 to = "cfg" => ~Enabled("engine"), lone' = (lone /\ Others(s)),
                 fresh' = [fresh EXCEPT ![s] = LoadConfig(f)]
          PROVE  ApplyInv'
      <4>1. fresh' \in [Subjects -> Settings]
        BY <3>3, LoadedSettings DEF ApplyInv
      <4>2. at' \in [Subjects -> ReloadSteps] /\ at'[s] = to
        BY <3>3 DEF ApplyInv, ReloadSteps
      <4>3. lone' \in BOOLEAN /\ (lone' => lone /\ Others(s))
        BY <3>3 DEF ApplyInv
      <4>4. ASSUME lone' PROVE \A t \in Subjects \ {s} : at'[t] = "idle"
        BY <3>3, <4>3, <4>4 DEF ApplyInv, Others
      <4>5. ASSUME lone' PROVE \A t \in Subjects : at'[t] # "idle" => Others(t)'
        BY <4>2, <4>4, <4>5 DEF Others
      <4>6. Enabled("engine")' <=> Enabled("engine")
        BY <3>1 DEF Enabled
      <4>7. ASSUME lone', Enabled("engine") PROVE Agree
        BY <3>1, <4>3, <4>7 DEF ApplyInv, Others, Idle
      <4>8. ASSUME lone', Enabled("engine")
            PROVE  \A t \in Subjects : at'[t] # "idle" => Between(t)'
        <5>1. Between(s)'
          BY <3>1, <3>3, <4>2, <4>7, <4>8 DEF Between, Agree, KeyAgrees
        <5> QED
          BY <4>4, <4>8, <5>1
      <4>9. ~Idle'
        BY <4>2 DEF Idle
      <4> QED
        BY <3>1, <4>1, <4>2, <4>3, <4>5, <4>6, <4>8, <4>9 DEF ApplyInv
    <3> QED
      BY <2>2, <3>2, <3>3 DEF ReadFile
  <2>3. ASSUME NEW s \in Subjects, NEW from \in ReloadSteps \ {"idle"},
               NEW to \in ReloadSteps, To(s, from, to), ReloadUnchanged,
               cfg' \in Settings, inForce' \in Settings, fresh' \in [Subjects -> Settings],
               llmClient' \in [Subjects -> ApiKeys \cup {NoKey}],
               Between(s) /\ Enabled("engine") => IF to = "idle" THEN Agree' ELSE Between(s)'
        PROVE  ApplyInv'
    <3>1. at[s] = from /\ from # "idle" /\ at' = [at EXCEPT ![s] = to] /\ UNCHANGED <<opts, lone>>
      BY <2>3 DEF To, ReloadUnchanged
    <3> QED
      BY <2>3, <3>1, AppliedStep
  <2> USE DEF To, ReloadSteps
  <2>4. ASSUME NEW s \in Subjects, Compare(s, "timeout", "setTimeout", "timeout", "verify")
        PROVE  ApplyInv'
    <3> DEFINE to == IF fresh[s].timeout # cfg.timeout THEN "setTimeout" ELSE "verify"
    <3>1. To(s, "timeout", to) /\ ReloadUnchanged /\ UNCHANGED <<cfg, inForce, fresh, llmClient>>
      BY <2>4 DEF Compare
    <3>2. Between(s) => Between(s)'
      BY <3>1 DEF Between, KeyAgrees, ApplyInv
    <3> QED
      BY <2>3, <3>1, <3>2 DEF ApplyInv
  <2>5. ASSUME NEW s \in Subjects, Compare(s, "verify", "setVerify", "verify", "llm")
        PROVE  ApplyInv'
    <3> DEFINE to == IF fresh[s].verify # cfg.verify THEN "setVerify" ELSE "llm"
    <3>1. To(s, "verify", to) /\ ReloadUnchanged /\ UNCHANGED <<cfg, inForce, fresh, llmClient>>
      BY <2>5 DEF Compare
    <3>2. Between(s) => Between(s)'
      BY <3>1 DEF Between, KeyAgrees, ApplyInv
    <3> QED
      BY <2>3, <3>1, <3>2 DEF ApplyInv
  <2>6. ASSUME NEW s \in Subjects, Set(s, "setTimeout", "timeout", "verify") PROVE ApplyInv'
    <3>1. To(s, "setTimeout", "verify") /\ ReloadUnchanged /\ UNCHANGED <<cfg, fresh, llmClient>>
          /\ inForce' = [inForce EXCEPT !.timeout = fresh[s].timeout]
      BY <2>6 DEF Set
    <3>2. inForce' \in Settings /\ inForce'.timeout = fresh[s].timeout
          /\ inForce'.verify = inForce.verify /\ inForce'.key = inForce.key
      BY <3>1 DEF ApplyInv, Settings
    <3>3. Between(s) => Between(s)'
      BY <3>1, <3>2 DEF Between, KeyAgrees, ApplyInv
    <3> QED
      BY <2>3, <3>1, <3>2, <3>3 DEF ApplyInv
  <2>7. ASSUME NEW s \in Subjects, Set(s, "setVerify", "verify", "llm") PROVE ApplyInv'
    <3>1. To(s, "setVerify", "llm") /\ ReloadUnchanged /\ UNCHANGED <<cfg, fresh, llmClient>>
          /\ inForce' = [inForce EXCEPT !.verify = fresh[s].verify]
      BY <2>7 DEF Set
    <3>2. inForce' \in Settings /\ inForce'.verify = fresh[s].verify
          /\ inForce'.timeout = inForce.timeout /\ inForce'.key = inForce.key
      BY <3>1 DEF ApplyInv, Settings
    <3>3. Between(s) => Between(s)'
      BY <3>1, <3>2 DEF Between, KeyAgrees, ApplyInv
    <3> QED
      BY <2>3, <3>1, <3>2, <3>3 DEF ApplyInv
  <2>8. ASSUME NEW s \in Subjects, CompareKey(s) PROVE ApplyInv'
    <3> DEFINE to == IF fresh[s].key \notin {NoKey, cfg.key} THEN "switch" ELSE "cfg"
    <3>1. To(s, "llm", to) /\ ReloadUnchanged /\ UNCHANGED <<cfg, inForce, fresh, llmClient>>
      BY <2>8 DEF CompareKey
    <3>2. Between(s) => Between(s)'
      BY <3>1 DEF Between, KeyAgrees, ApplyInv
    <3> QED
      BY <2>3, <3>1, <3>2 DEF ApplyInv
  <2>9. ASSUME NEW s \in Subjects, NEW from \in {"switch", "cfg"}, NEW to,
               from = "switch" => to = "switchKey", from = "cfg" => to = "cfgKey",
               CopyWorkflows(s, from, to)
        PROVE  ApplyInv'
    <3>1. To(s, from, to) /\ ReloadUnchanged /\ UNCHANGED <<inForce, fresh, llmClient>>
          /\ cfg' = [fresh[s] EXCEPT !.key = cfg.key]
      BY <2>9 DEF CopyWorkflows
    <3>2. cfg' \in Settings /\ cfg'.key = cfg.key
          /\ cfg'.timeout = fresh[s].timeout /\ cfg'.verify = fresh[s].verify
      BY <3>1 DEF ApplyInv, Settings
    <3>3. Between(s) => Between(s)'
      BY <2>9, <3>1, <3>2 DEF Between, KeyAgrees, ApplyInv
    <3>4. from \in ReloadSteps \ {"idle"} /\ to \in ReloadSteps \ {"idle"}
      BY <2>9
    <3> QED
      BY <2>3, <3>1, <3>2, <3>3, <3>4 DEF ApplyInv
  <2>10. ASSUME NEW s \in Subjects, CopyKey(s) PROVE ApplyInv'
    <3>1. To(s, "switchKey", "client") /\ ReloadUnchanged /\ UNCHANGED <<inForce, fresh, llmClient>>
          /\ cfg' = [cfg EXCEPT !.key = fresh[s].key]
      BY <2>10 DEF CopyKey
    <3>2. cfg' \in Settings /\ cfg'.key = fresh[s].key
          /\ cfg'.timeout = cfg.timeout /\ cfg'.verify = cfg.verify
      BY <3>1 DEF ApplyInv, Settings
    <3>3. Between(s) => Between(s)'
      BY <3>1, <3>2 DEF Between, KeyAgrees, ApplyInv
    <3> QED
      BY <2>3, <3>1, <3>2, <3>3 DEF ApplyInv
  <2>11. ASSUME NEW s \in Subjects, CreateClient(s) PROVE ApplyInv'
    <3>1. To(s, "client", "setClient") /\ ReloadUnchanged /\ UNCHANGED <<cfg, inForce, fresh>>
          /\ llmClient' = [llmClient EXCEPT ![s] = cfg.key]
      BY <2>11 DEF CreateClient
    <3>2. llmClient' \in [Subjects -> ApiKeys \cup {NoKey}] /\ llmClient'[s] = cfg.key
      BY <3>1 DEF ApplyInv, Settings
    <3>3. Between(s) => Between(s)'
      BY <3>1, <3>2 DEF Between, KeyAgrees, ApplyInv
    <3> QED
      BY <2>3, <3>1, <3>2, <3>3 DEF ApplyInv
  <2>12. ASSUME NEW s \in Subjects, SetClient(s) PROVE ApplyInv'
    <3>1. To(s, "setClient", "cfg") /\ ReloadUnchanged /\ UNCHANGED <<cfg, fresh>>
          /\ inForce' = [inForce EXCEPT !.key = llmClient[s]]
          /\ llmClient' = [llmClient EXCEPT ![s] = NoKey]
      BY <2>12 DEF SetClient
    <3>2. inForce' \in Settings /\ inForce'.key = llmClient[s]
          /\ inForce'.timeout = inForce.timeout /\ inForce'.verify = inForce.verify
          /\ llmClient' \in [Subjects -> ApiKeys \cup {NoKey}]
      BY <3>1 DEF ApplyInv, Settings
    <3>3. Between(s) => Between(s)'
      BY <3>1, <3>2 DEF Between, KeyAgrees, ApplyInv
    <3> QED
      BY <2>3, <3>1, <3>2, <3>3 DEF ApplyInv
  <2>13. ASSUME NEW s \in Subjects, EndReload(s) PROVE ApplyInv'
    <3>1. To(s, "cfgKey", "idle") /\ ReloadUnchanged /\ UNCHANGED <<inForce, llmClient>>
          /\ cfg' = [cfg EXCEPT !.key = fresh[s].key]
          /\ fresh' = [fresh EXCEPT ![s] = Default]
      BY <2>13 DEF EndReload
    <3>2. cfg' \in Settings /\ cfg'.key = fresh[s].key
          /\ cfg'.timeout = cfg.timeout /\ cfg'.verify = cfg.verify
          /\ fresh' \in [Subjects -> Settings]
      BY <3>1, DefaultAssumption DEF ApplyInv, Settings
    <3>3. Between(s) => Agree'
      BY <3>1, <3>2 DEF Between, KeyAgrees, Agree, ApplyInv
    <3> QED
      BY <2>3, <3>1, <3>2, <3>3 DEF ApplyInv
  <2>14. ASSUME NEW s \in Subjects, Reload(s) PROVE ApplyInv'
    BY <2>2, <2>4, <2>5, <2>6, <2>7, <2>8, <2>9, <2>10, <2>11, <2>12, <2>13, <2>14 DEF Reload
  <2>15. CASE Startup
    <3>1. UNCHANGED <<opts, reloadVars>>
      BY <2>15, Zenon DEF Startup, StartServer, OpenRegistry, StartEngine, LoadScripts, StartWatching,
                  GiveConversations, LoadSkills, StartSentinel, SubscribeReload, StartApi, StartWeb
    <3> QED
      BY <2>1, <3>1 DEF reloadVars
  <2>16. CASE \/ Shutdown \/ SentinelReturns \/ Timeout
              \/ \E why \in {"signal", "stop", "api", "web"} : Leave(why)
    <3>1. UNCHANGED <<opts, reloadVars>>
      BY <2>16, Zenon DEF Shutdown, SentinelReturns, Timeout, Leave, ShutWeb, CloseApi, ShutApi, StopSentinel,
                  StopEngine, CloseRegistry, CloseNats, DownUnchanged
    <3> QED
      BY <2>1, <3>1 DEF reloadVars
  <2>17. CASE \/ Stop \/ Stream \/ BeginCall \/ ReloadWorkflows
              \/ \E w \in Scripts : Reloaded(w)
    <3>1. UNCHANGED <<opts, reloadVars>>
      BY <2>17, Zenon DEF Stop, Stream, BeginCall, ReloadWorkflows, Reloaded
    <3> QED
      BY <2>1, <3>1 DEF reloadVars
  <2>18. CASE UNCHANGED daemonVars
    BY <2>1, <2>18 DEF daemonVars, reloadVars
  <2> QED
    BY <2>14, <2>15, <2>16, <2>17, <2>18 DEF DaemonNext
<1> QED
  BY <1>1, <1>2, PTL DEF DaemonSpec

\* Until two reloads overlap, the engine has between reloads the settings the daemon
\* believes it has, for any files and any order of start, stop and signals
\* (reloadConfig, startWorkflowEngine).
THEOREM AppliedHolds == DaemonSpec => []Applied
<1>1. ApplyInv => Applied
  BY DEF ApplyInv, Applied
<1> QED
  BY <1>1, ApplyInvariant, PTL

-----------------------------------------------------------------------------
(***************************************************************************)
(* What a workflow is built with.                                          *)
(***************************************************************************)

\* Run has not come to loadSkills, or has not passed SetConversationStore.
BeforeSkills == {"nats", "registry", "engine", "load", "watch", "conversations", "skills"}
BeforeStore == {"nats", "registry", "engine", "load", "watch", "conversations", "failed"}

\* The engine and the watcher are up only if the configuration asks for them.
AskedFor ==
  /\ opts \in Deployments
  /\ "engine" \in up => Enabled("engine")
  /\ "watcher" \in up => Enabled("watcher")
  /\ stage \in {"load", "watch"} => Enabled("engine")
  /\ stage \in {"load", "watch", "conversations"} /\ Enabled("engine") => "engine" \in up

\* The engine has the store once SetConversationStore is passed, and a workflow of a
\* skill has the store and the skills from the moment it is built.
StoreInv ==
  /\ stage \notin BeforeStore /\ Enabled("engine") => "conversations" \in tools
  /\ stage \in BeforeSkills => DOMAIN built \cap Handlers = {}
  /\ ~Enabled("engine") => DOMAIN built = {}
  /\ \A w \in DOMAIN built \cap Handlers : {"conversations", "skills"} \subseteq built[w]

\* Workflows of skills can talk to the conversation store and to the skills, unlike the
\* scripts that LoadDir built before there was a store (daemon.go:104, 165, 268).
HandlersEquipped == \A w \in DOMAIN built \cap Handlers : {"conversations", "skills"} \subseteq built[w]

\* While the daemon serves or leaves, whatever is built is built with the store: what has
\* none was built at startup and not loaded again since.
EquippedOnReload ==
  [][stage \notin BeforeStore => \A w \in DOMAIN built' :
       "conversations" \in built'[w] \/ (w \in DOMAIN built /\ built'[w] = built[w])]_daemonVars

\* POST /api/v1/workflows/reload leaves no workflow without the store.
EquippedAfterReloadAll ==
  [][ReloadWorkflows /\ stage \notin BeforeStore =>
       \A w \in DOMAIN built' : "conversations" \in built'[w]]_daemonVars

\* No step brings up an engine or a watcher that the configuration does not ask for.
LEMMA AskedForStep == AskedFor /\ [DaemonNext]_daemonVars => AskedFor'
<1> SUFFICES ASSUME AskedFor, [DaemonNext]_daemonVars PROVE AskedFor'
  OBVIOUS
<1> USE DEF AskedFor, Go, IsUp, Enabled
<1>1. UNCHANGED opts
  BY ReloadLeaves, SentinelLeaves, Zenon DEF DaemonNext, daemonVars, Startup, StartServer, OpenRegistry, StartEngine, LoadScripts,
       StartWatching, GiveConversations, LoadSkills, StartSentinel, SubscribeReload, StartApi,
       StartWeb, Shutdown, ShutWeb, CloseApi, ShutApi, StopSentinel, StopEngine, CloseRegistry,
       CloseNats, DownUnchanged, Timeout, Leave, Stop, Stream, BeginCall,
       ReloadWorkflows, Reloaded
<1>2. CASE UNCHANGED <<stage, up>>
  BY <1>1, <1>2
<1>3. CASE Startup
  <2>1. CASE StartServer BY <1>1, <2>1 DEF StartServer
  <2>2. CASE OpenRegistry BY <1>1, <2>2 DEF OpenRegistry
  <2>3. CASE StartEngine BY <1>1, <2>3 DEF StartEngine
  <2>4. CASE LoadScripts BY <1>1, <2>4 DEF LoadScripts
  <2>5. CASE StartWatching BY <1>1, <2>5 DEF StartWatching
  <2>6. CASE GiveConversations BY <1>1, <2>6 DEF GiveConversations
  <2>7. CASE LoadSkills BY <1>1, <2>7 DEF LoadSkills
  <2>8. CASE StartSentinel BY <1>1, <2>8 DEF StartSentinel
  <2>9. CASE SubscribeReload BY <1>1, <2>9 DEF SubscribeReload
  <2>10. CASE StartApi BY <1>1, <2>10 DEF StartApi
  <2>11. CASE StartWeb BY <1>1, <2>11 DEF StartWeb
  <2> QED
    BY <1>3, <2>1, <2>2, <2>3, <2>4, <2>5, <2>6, <2>7, <2>8, <2>9, <2>10, <2>11 DEF Startup
<1>4. CASE Shutdown \/ SentinelReturns \/ \E why \in {"signal", "stop", "api", "web"} : Leave(why)
  <2>1. CASE SentinelReturns
    <3>1. up' = up \ {"sentinel"} /\ UNCHANGED stage
      BY <2>1, SentinelLeaves, Zenon
    <3> QED
      BY <1>1, <3>1
  <2>2. CASE Shutdown \/ \E why \in {"signal", "stop", "api", "web"} : Leave(why)
    <3>1. up' \subseteq up /\ stage' \notin {"load", "watch", "conversations"}
      BY <2>2 DEF Shutdown, ShutWeb, CloseApi, ShutApi, StopSentinel, StopEngine, CloseRegistry,
                  CloseNats, Leave
    <3> QED
      BY <1>1, <3>1
  <2> QED
    BY <1>4, <2>1, <2>2
<1>5. UNCHANGED <<stage, up>> \/ Startup \/ Shutdown \/ SentinelReturns
      \/ \E why \in {"signal", "stop", "api", "web"} : Leave(why)
  BY ReloadLeaves, Zenon
  DEF DaemonNext, daemonVars, Timeout, Stop, Stream, BeginCall, ReloadWorkflows, Reloaded
<1> QED
  BY <1>2, <1>3, <1>4, <1>5

\* One step: the invariant is kept, and what is built while the engine has the store is
\* built with it.
LEMMA StoreStep ==
  AskedFor /\ StoreInv /\ [DaemonNext]_daemonVars =>
    /\ StoreInv'
    /\ stage \notin BeforeStore => \A w \in DOMAIN built' :
         "conversations" \in built'[w] \/ (w \in DOMAIN built /\ built'[w] = built[w])
    /\ ReloadWorkflows /\ stage \notin BeforeStore =>
         \A w \in DOMAIN built' : "conversations" \in built'[w]
<1> DEFINE Kept == stage \notin BeforeStore => \A w \in DOMAIN built' :
                     "conversations" \in built'[w] \/ (w \in DOMAIN built /\ built'[w] = built[w])
           Cured == ReloadWorkflows /\ stage \notin BeforeStore =>
                      \A w \in DOMAIN built' : "conversations" \in built'[w]
<1> SUFFICES ASSUME AskedFor, StoreInv, [DaemonNext]_daemonVars PROVE StoreInv' /\ Kept /\ Cured
  OBVIOUS
<1> USE DEF StoreInv, Go, IsUp, Enabled, BeforeSkills, BeforeStore
<1>1. CASE ReloadWorkflows
  <2>1. UNCHANGED <<stage, opts, tools>>
        /\ built' = IF Enabled("engine") THEN [w \in Scripts |-> tools] ELSE built
    BY <1>1 DEF ReloadWorkflows, Build
  <2> QED
    BY <2>1, ScriptsAssumption
<1>2. ASSUME Startup PROVE StoreInv' /\ Kept
  <2> USE DEF AskedFor
  <2>1. CASE StartServer \/ OpenRegistry \/ StartWatching \/ StartSentinel \/ SubscribeReload \/ StartWeb
    <3>1. UNCHANGED <<opts, tools, built>>
      BY <2>1, Zenon DEF StartServer, OpenRegistry, StartWatching, StartSentinel, SubscribeReload, StartWeb
    <3>2. /\ stage' \notin BeforeStore => stage \notin BeforeStore
          /\ stage' \in BeforeSkills => stage \in BeforeSkills
      BY <2>1 DEF StartServer, OpenRegistry, StartWatching, StartSentinel, SubscribeReload, StartWeb
    <3> QED
      BY <3>1, <3>2
  <2>2. CASE StartEngine
    <3>1. UNCHANGED <<opts, built>> /\ stage \in BeforeSkills /\ stage' \in BeforeStore
      BY <2>2 DEF StartEngine
    <3> QED
      BY <3>1
  <2>3. CASE LoadScripts
    BY <2>3, ScriptsAssumption DEF LoadScripts, Build
  <2>4. CASE GiveConversations
    BY <2>4 DEF GiveConversations
  <2>5. CASE LoadSkills
    BY <2>5 DEF LoadSkills
  <2>6. CASE StartApi
    <3>1. /\ UNCHANGED <<opts, tools>> /\ stage = "api" /\ stage' \in {"web", "failed"}
          /\ built' = built \/ (DOMAIN built' = {} /\ stage' = "failed")
      BY <2>6 DEF StartApi
    <3> QED
      BY <3>1
  <2> QED
    BY <1>2, <2>1, <2>2, <2>3, <2>4, <2>5, <2>6 DEF Startup
<1>3. ASSUME /\ UNCHANGED <<built, opts>>
             /\ "conversations" \in tools => "conversations" \in tools'
             /\ \/ UNCHANGED stage
                \/ /\ stage \notin BeforeStore \cup BeforeSkills
                   /\ stage' \notin BeforeStore \cup BeforeSkills
      PROVE  StoreInv' /\ Kept
  BY <1>3
<1>4. ASSUME Shutdown \/ \E why \in {"signal", "stop", "api", "web"} : Leave(why)
      PROVE  StoreInv' /\ Kept
  <2>1. CASE StopEngine
    BY <2>1 DEF StopEngine
  <2>2. CASE \/ ShutWeb \/ CloseApi \/ ShutApi \/ StopSentinel \/ CloseRegistry \/ CloseNats
             \/ \E why \in {"signal", "stop", "api", "web"} : Leave(why)
    <3>1. UNCHANGED <<opts, tools, built>>
      BY <2>2, Zenon DEF ShutWeb, CloseApi, ShutApi, StopSentinel, CloseRegistry, CloseNats,
           DownUnchanged, Leave
    <3>2. stage \notin BeforeStore \cup BeforeSkills /\ stage' \notin BeforeStore \cup BeforeSkills
      BY <2>2 DEF ShutWeb, CloseApi, ShutApi, StopSentinel, CloseRegistry, CloseNats, Leave
    <3> QED
      BY <1>3, <3>1, <3>2
  <2> QED
    BY <1>4, <2>1, <2>2 DEF Shutdown
<1>5. ASSUME NEW w \in Scripts, Reloaded(w) PROVE StoreInv' /\ Kept
  <2>1. /\ UNCHANGED <<stage, opts, tools>> /\ Enabled("engine")
        /\ built' = [v \in DOMAIN built \cup {w} |-> IF v = w THEN tools ELSE built[v]]
    BY <1>5, DeploymentsAssumption DEF Reloaded, AskedFor
  <2>2. w \notin Handlers
    BY ScriptsAssumption
  <2> QED
    BY <2>1, <2>2
<1>6. ASSUME NEW s \in Subjects, Reload(s) PROVE StoreInv' /\ Kept
  <2>1. UNCHANGED <<stage, opts, built>>
    BY <1>6, ReloadLeaves
  <2>2. "conversations" \in tools => "conversations" \in tools'
    BY <1>6, ReloadTools
  <2> QED
    BY <1>3, <2>1, <2>2
<1>7. ASSUME Stop \/ Stream \/ BeginCall \/ Timeout \/ SentinelReturns \/ UNCHANGED daemonVars
      PROVE  StoreInv' /\ Kept
  <2>1. UNCHANGED <<stage, opts, tools, built>>
    BY <1>7, SentinelLeaves, Zenon DEF Stop, Stream, BeginCall, Timeout, DownUnchanged, daemonVars
  <2> QED
    BY <1>3, <2>1
<1>8. CASE ~ReloadWorkflows
  <2>1. StoreInv' /\ Kept
    BY <1>2, <1>4, <1>5, <1>6, <1>7, <1>8, Zenon DEF DaemonNext
  <2> QED
    BY <1>8, <2>1
<1> QED
  BY <1>1, <1>8

\* The engine has the store in time, in every run of the daemon.
LEMMA StoreInvariant == DaemonSpec => [](AskedFor /\ StoreInv)
<1>1. DaemonInit => AskedFor /\ StoreInv
  BY DEF DaemonInit, AskedFor, StoreInv, BeforeSkills, BeforeStore
<1> QED
  BY <1>1, AskedForStep, StoreStep, PTL DEF DaemonSpec

\* Every workflow of a skill has the store and the skills, at every moment: loadSkills
\* comes after SetConversationStore, and no reload of the directory touches it.
THEOREM HandlersEquippedHolds == DaemonSpec => []HandlersEquipped
<1>1. StoreInv => HandlersEquipped
  BY DEF StoreInv, HandlersEquipped
<1> QED
  BY <1>1, StoreInvariant, PTL

\* The run sekiad_equipped shows a daemon that serves workflows without the store.
\* These are exactly scripts that LoadDir built at startup: every later load, by the
\* watcher or by a request, gives a workflow the store, and a reload of all of them
\* leaves none without.
THEOREM EquippedOnReloadHolds == DaemonSpec => EquippedOnReload /\ EquippedAfterReloadAll
<1>1. AskedFor /\ StoreInv /\ [DaemonNext]_daemonVars =>
        /\ [stage \notin BeforeStore => \A w \in DOMAIN built' :
              "conversations" \in built'[w] \/ (w \in DOMAIN built /\ built'[w] = built[w])]_daemonVars
        /\ [ReloadWorkflows /\ stage \notin BeforeStore =>
              \A w \in DOMAIN built' : "conversations" \in built'[w]]_daemonVars
  BY StoreStep
<1> QED
  BY <1>1, StoreInvariant, PTL DEF DaemonSpec, EquippedOnReload, EquippedAfterReloadAll

-----------------------------------------------------------------------------
(***************************************************************************)
(* The event feed of the dashboard.                                        *)
(***************************************************************************)

\* What the ring holds: the event published j events ago lies j places before ringPos.
RingInv ==
  /\ ringLen <= published
  /\ ringLen = RingSize \/ ringLen = published
  /\ \A j \in 1..ringLen :
       ring[IF j <= ringPos THEN ringPos - j ELSE ringPos - j + RingSize] = published + 1 - j

\* What a browser has been sent.
Sent(v) == got[v] \o queue[v]
\* The newest event, while it is still to be sent to it.
ToCome(v) == {e \in {published} : \E k \in 1..MaxOpens : <<v, k>> \in copied}

\* A stream is there after the page only; the copy of the clients holds at most one
\* stream of a browser, and while it is there the browser was not sent the event.
StreamInv(v) ==
  /\ since[v] = NotYet => v \notin clients /\ open[v] = 0 /\ Sent(v) = <<>>
  /\ v \in clients => open[v] > 0
  /\ v \notin clients => queue[v] = <<>>
  /\ \A k \in 0..MaxOpens : <<v, k>> \in copied =>
       /\ k > 0 /\ k <= open[v]
       /\ \A l \in 0..MaxOpens : <<v, l>> \in copied => l = k
       /\ published \notin InSeq(Sent(v))

FollowInv(v) ==
  since[v] # NotYet =>
    /\ since[v] <= published
    /\ Increasing(page[v])
    /\ InSeq(page[v]) = {e \in 1..since[v] : e + RingSize > since[v]}
    /\ Increasing(Sent(v))
    /\ InSeq(Sent(v)) \cup missed[v] \cup ToCome(v) = (since[v] + 1)..published

DashboardInv ==
  DashboardTypeOK /\ RingInv /\ \A v \in Viewers : StreamInv(v) /\ FollowInv(v)

\* A position that went round the ring at most once.
LEMMA Wrapped ==
  ASSUME NEW r \in Nat \ {0}, NEW a \in Nat, a < 2 * r
  PROVE  a % r = IF a < r THEN a ELSE a - r
<1>1. CASE a < r
  BY <1>1
<1>2. CASE ~(a < r)
  BY <1>2
<1> QED BY <1>1, <1>2

\* The page shows the newest events, in order.
LEMMA RecentEvents ==
  ASSUME DashboardTypeOK, RingInv
  PROVE  /\ Recent \in Seq(Feed) /\ Increasing(Recent)
         /\ InSeq(Recent) = {e \in 1..published : e + RingSize > published}
<1> USE RingAssumption, DashboardBounds
<1> DEFINE start == (ringPos - ringLen + RingSize) % RingSize
<1>0. ringPos \in 0..(RingSize - 1) /\ ringLen \in 0..RingSize /\ published \in 0..MaxEvents
      /\ RingSize \in Nat \ {0}
  BY DEF DashboardTypeOK
<1>1. start = IF ringLen <= ringPos THEN ringPos - ringLen ELSE ringPos - ringLen + RingSize
  <2> DEFINE a == ringPos - ringLen + RingSize
  <2>1. a \in Nat /\ a < 2 * RingSize
    BY <1>0
  <2>2. a % RingSize = IF a < RingSize THEN a ELSE a - RingSize
    BY <1>0, <2>1, Wrapped
  <2> QED
    BY <1>0, <2>2
<1>2. ASSUME NEW i \in 1..ringLen
      PROVE  ring[(start + i - 1) % RingSize] = published - ringLen + i
  <2> DEFINE a == start + i - 1
             j == ringLen + 1 - i
  <2>1. a \in Nat /\ a < 2 * RingSize /\ start \in 0..(RingSize - 1)
    BY <1>0, <1>1
  <2>2. a % RingSize = IF a < RingSize THEN a ELSE a - RingSize
    BY <1>0, <2>1, Wrapped
  <2>3. j \in 1..ringLen
    BY <1>0
  <2>4. a % RingSize = IF j <= ringPos THEN ringPos - j ELSE ringPos - j + RingSize
    <3> HIDE DEF start
    <3> QED
      BY <1>0, <1>1, <2>1, <2>2, <2>3
  <2>5. ring[a % RingSize] = published + 1 - j
    BY <2>3, <2>4 DEF RingInv
  <2> QED
    BY <1>0, <2>5
<1> DEFINE r == [i \in 1..ringLen |-> published - ringLen + i]
<1>3. Recent = r
  BY <1>2 DEF Recent
<1>4. r \in Seq(Feed) /\ Len(r) = ringLen /\ DOMAIN r = 1..ringLen
  <2>1. \A i \in 1..ringLen : published - ringLen + i \in Feed
    BY <1>0 DEF RingInv, Feed
  <2> QED
    BY <1>0, <2>1
<1>5. Increasing(r)
  BY <1>0, <1>4 DEF Increasing
<1>6. InSeq(r) = {e \in 1..published : e + RingSize > published}
  <2>1. ASSUME NEW i \in 1..ringLen
        PROVE  r[i] \in 1..published /\ r[i] + RingSize > published
    BY <1>0, <2>1 DEF RingInv
  <2>2. ASSUME NEW e \in 1..published, e + RingSize > published
        PROVE  \E i \in 1..ringLen : r[i] = e
    <3>1. e - published + ringLen \in 1..ringLen
      BY <1>0, <2>2 DEF RingInv
    <3> QED
      BY <1>0, <3>1
  <2> HIDE DEF r
  <2> QED
    BY <1>4, <2>1, <2>2 DEF InSeq
<1> QED
  BY <1>3, <1>4, <1>5, <1>6

\* Elements and order of two sequences put together.
LEMMA Halves ==
  ASSUME NEW s \in Seq(Nat), NEW t \in Seq(Nat)
  PROVE  /\ InSeq(s \o t) = InSeq(s) \cup InSeq(t)
         /\ Increasing(s \o t) <=>
              /\ Increasing(s) /\ Increasing(t)
              /\ \A a \in InSeq(s), b \in InSeq(t) : a < b
<1> DEFINE st == s \o t
<1>1. /\ st \in Seq(Nat) /\ Len(st) = Len(s) + Len(t) /\ Len(s) \in Nat /\ Len(t) \in Nat
      /\ \A i \in 1..Len(s) : st[i] = s[i]
      /\ \A i \in 1..Len(t) : st[Len(s) + i] = t[i]
  OBVIOUS
<1>2. DOMAIN st = 1..Len(st) /\ DOMAIN s = 1..Len(s) /\ DOMAIN t = 1..Len(t)
  BY <1>1
<1> HIDE DEF st
<1>3. \A i \in 1..Len(st) : i \in 1..Len(s) \/ (i - Len(s) \in 1..Len(t) /\ st[i] = t[i - Len(s)])
  <2> TAKE i \in 1..Len(st)
  <2>1. CASE i > Len(s)
    <3>1. i - Len(s) \in 1..Len(t) /\ i = Len(s) + (i - Len(s))
      BY <1>1, <2>1
    <3> QED
      BY <1>1, <3>1
  <2> QED
    BY <1>1, <2>1
<1>4. InSeq(st) = InSeq(s) \cup InSeq(t)
  <2>1. ASSUME NEW x \in InSeq(st) PROVE x \in InSeq(s) \cup InSeq(t)
    BY <1>1, <1>2, <1>3 DEF InSeq
  <2>2. ASSUME NEW x \in InSeq(s) PROVE x \in InSeq(st)
    BY <1>1, <1>2 DEF InSeq
  <2>3. ASSUME NEW x \in InSeq(t) PROVE x \in InSeq(st)
    <3>1. PICK i \in 1..Len(t) : x = t[i]
      BY <1>2 DEF InSeq
    <3>2. Len(s) + i \in 1..Len(st) /\ st[Len(s) + i] = x
      BY <1>1, <3>1
    <3> QED
      BY <1>2, <3>2 DEF InSeq
  <2> QED
    BY <2>1, <2>2, <2>3
<1>5. ASSUME Increasing(st)
      PROVE  /\ Increasing(s) /\ Increasing(t)
             /\ \A a \in InSeq(s), b \in InSeq(t) : a < b
  <2>1. Increasing(s)
    BY <1>1, <1>2, <1>5 DEF Increasing
  <2>2. Increasing(t)
    <3> SUFFICES ASSUME NEW i \in 1..Len(t), NEW j \in 1..Len(t), i < j PROVE t[i] < t[j]
      BY <1>2 DEF Increasing
    <3>1. Len(s) + i \in 1..Len(st) /\ Len(s) + j \in 1..Len(st) /\ Len(s) + i < Len(s) + j
      BY <1>1
    <3> QED
      BY <1>1, <1>2, <1>5, <3>1 DEF Increasing
  <2>3. ASSUME NEW a \in InSeq(s), NEW b \in InSeq(t) PROVE a < b
    <3>1. PICK i \in 1..Len(s) : a = s[i]
      BY <1>2 DEF InSeq
    <3>2. PICK j \in 1..Len(t) : b = t[j]
      BY <1>2 DEF InSeq
    <3>3. i \in 1..Len(st) /\ Len(s) + j \in 1..Len(st) /\ i < Len(s) + j
      BY <1>1
    <3> QED
      BY <1>1, <1>2, <1>5, <3>1, <3>2, <3>3 DEF Increasing
  <2> QED
    BY <2>1, <2>2, <2>3
<1>6. ASSUME Increasing(s), Increasing(t), \A a \in InSeq(s), b \in InSeq(t) : a < b
      PROVE  Increasing(st)
  <2> SUFFICES ASSUME NEW i \in 1..Len(st), NEW j \in 1..Len(st), i < j PROVE st[i] < st[j]
    BY <1>2 DEF Increasing
  <2>1. CASE j \in 1..Len(s)
    <3> DEFINE m == Len(s)
    <3>1. m \in Nat
      BY <1>1
    <3> HIDE DEF m
    <3>2. i \in 1..m
      BY <2>1, <3>1 DEF m
    <3>3. i \in 1..Len(s) /\ st[i] = s[i] /\ st[j] = s[j]
      BY <1>1, <2>1, <3>2, Zenon DEF m
    <3> QED
      BY <1>2, <1>6, <2>1, <3>3 DEF Increasing
  <2>2. CASE i \in 1..Len(s) /\ j \notin 1..Len(s)
    <3>1. j - Len(s) \in 1..Len(t) /\ st[j] = t[j - Len(s)] /\ st[i] = s[i]
      BY <1>1, <1>3, <2>2
    <3>2. st[i] \in InSeq(s) /\ st[j] \in InSeq(t)
      BY <1>2, <2>2, <3>1 DEF InSeq
    <3> QED
      BY <1>6, <3>2
  <2>3. CASE i \notin 1..Len(s)
    <3> DEFINE m == Len(s)
    <3>1. m \in Nat /\ i \notin 1..m
      BY <1>1, <2>3
    <3> HIDE DEF m
    <3>2. j \notin 1..m /\ i - m < j - m
      BY <3>1
    <3>3. i - m \in 1..Len(t) /\ st[i] = t[i - m] /\ j - m \in 1..Len(t) /\ st[j] = t[j - m]
      BY <1>3, <3>1, <3>2, Zenon DEF m
    <3> QED
      BY <1>2, <1>6, <3>2, <3>3 DEF Increasing
  <2> QED
    BY <2>1, <2>2, <2>3
<1> QED
  BY <1>4, <1>5, <1>6 DEF st

\* A sequence of one number.
LEMMA One == ASSUME NEW x \in Nat PROVE Increasing(<<x>>) /\ InSeq(<<x>>) = {x}
<1>1. DOMAIN <<x>> = {1} /\ <<x>>[1] = x
  OBVIOUS
<1> QED
  BY <1>1 DEF Increasing, InSeq

\* One more event at the end.
LEMMA SentLater ==
  ASSUME NEW s \in Seq(Feed), NEW x \in Feed
  PROVE  /\ InSeq(Append(s, x)) = InSeq(s) \cup {x}
         /\ Increasing(s) /\ (\A e \in InSeq(s) : e < x) => Increasing(Append(s, x))
<1>1. s \in Seq(Nat) /\ <<x>> \in Seq(Nat) /\ x \in Nat /\ Append(s, x) = s \o <<x>>
  BY DashboardBounds DEF Feed
<1>2. Increasing(<<x>>) /\ InSeq(<<x>>) = {x}
  BY <1>1, One
<1> DEFINE l == <<x>>
<1> HIDE DEF l
<1>3. /\ InSeq(s \o l) = InSeq(s) \cup InSeq(l)
      /\ Increasing(s) /\ Increasing(l) /\ (\A a \in InSeq(s), b \in InSeq(l) : a < b)
           => Increasing(s \o l)
  BY <1>1, Halves DEF l
<1> QED
  BY <1>1, <1>2, <1>3 DEF l

\* The front of an increasing sequence is increasing.
LEMMA Prefix ==
  ASSUME NEW s \in Seq(Feed), NEW t \in Seq(Feed), Increasing(s \o t)
  PROVE  Increasing(s) /\ InSeq(s \o t) = InSeq(s) \cup InSeq(t)
<1>1. s \in Seq(Nat) /\ t \in Seq(Nat)
  BY DashboardBounds DEF Feed
<1> QED
  BY <1>1, Halves

\* Putting sequences together is associative.
LEMMA Joined ==
  ASSUME NEW s \in Seq(Feed), NEW t \in Seq(Feed), NEW u \in Seq(Feed)
  PROVE  (s \o t) \o u = s \o (t \o u)
BY ConcatAssociative

\* A dashboard without events and viewers.
LEMMA DashboardInitInv == DashboardInit => DashboardInv
<1> SUFFICES ASSUME DashboardInit PROVE DashboardInv
  OBVIOUS
<1> USE RingAssumption, DashboardBounds
<1>1. DashboardTypeOK
  BY DEF DashboardInit, DashboardTypeOK, NotYet
<1>2. RingInv
  BY DEF DashboardInit, RingInv
<1>3. ASSUME NEW v \in Viewers PROVE StreamInv(v) /\ FollowInv(v)
  BY DEF DashboardInit, StreamInv, FollowInv, Sent, NotYet
<1> QED
  BY <1>1, <1>2, <1>3 DEF DashboardInv

\* An event reaches the ring and every stream that has room.
LEMMA PublishStep == DashboardInv /\ Publish => DashboardInv'
<1> SUFFICES ASSUME DashboardInv, Publish PROVE DashboardInv'
  OBVIOUS
<1> USE RingAssumption, DashboardBounds
<1>1. /\ published < MaxEvents /\ copied = {} /\ published' = published + 1
      /\ ring' = [ring EXCEPT ![ringPos] = published + 1]
      /\ ringPos' = (ringPos + 1) % RingSize
      /\ ringLen' = IF ringLen < RingSize THEN ringLen + 1 ELSE ringLen
      /\ copied' = {<<v, open[v]>> : v \in clients}
      /\ missed' = [v \in Viewers |-> IF v \in clients THEN missed[v]
                                      ELSE missed[v] \cup {published + 1}]
      /\ UNCHANGED <<clients, open, queue, since, page, got>>
  BY DEF Publish
<1>2. ringPos \in 0..(RingSize - 1) /\ ringLen \in 0..RingSize /\ published \in 0..MaxEvents
      /\ RingSize \in Nat \ {0} /\ ring \in [0..(RingSize - 1) -> 0..MaxEvents]
  BY DEF DashboardInv, DashboardTypeOK
<1>3. ringPos' = IF ringPos + 1 < RingSize THEN ringPos + 1 ELSE 0
  <2> DEFINE a == ringPos + 1
  <2>1. a \in Nat /\ a < 2 * RingSize
    BY <1>2
  <2>2. a % RingSize = IF a < RingSize THEN a ELSE a - RingSize
    <3> HIDE DEF a
    <3> QED
      BY <1>2, <2>1, Wrapped
  <2> QED
    BY <1>1, <1>2, <2>2
<1>4. DashboardTypeOK'
  <2>1. copied' \subseteq Viewers \X (0..MaxOpens)
    BY <1>1 DEF DashboardInv, DashboardTypeOK
  <2>2. missed' \in [Viewers -> SUBSET Feed]
    <3>1. published + 1 \in Feed
      BY <1>1, <1>2 DEF Feed
    <3> QED
      BY <1>1, <3>1 DEF DashboardInv, DashboardTypeOK
  <2>3. ringPos' \in 0..(RingSize - 1) /\ ringLen' \in 0..RingSize /\ published' \in 0..MaxEvents
        /\ ring' \in [0..(RingSize - 1) -> 0..MaxEvents]
    BY <1>1, <1>2, <1>3
  <2> QED
    BY <1>1, <2>1, <2>2, <2>3 DEF DashboardInv, DashboardTypeOK
<1>5. RingInv'
  <2>1. ringLen' <= published' /\ (ringLen' = RingSize \/ ringLen' = published')
    BY <1>1, <1>2 DEF DashboardInv, RingInv
  <2>2. ASSUME NEW j \in 1..ringLen'
        PROVE  ring'[IF j <= ringPos' THEN ringPos' - j ELSE ringPos' - j + RingSize]
                 = published' + 1 - j
    <3> DEFINE place == IF j <= ringPos' THEN ringPos' - j ELSE ringPos' - j + RingSize
    <3>1. CASE j = 1
      <4>1. (IF j <= ringPos' THEN ringPos' - j ELSE ringPos' - j + RingSize) = ringPos
        BY <1>2, <1>3, <3>1
      <4> QED
        BY <1>1, <1>2, <3>1, <4>1
    <3>2. CASE j > 1
      <4>1. j - 1 \in 1..ringLen
        BY <1>1, <1>2, <3>2
      <4>2. (IF j <= ringPos' THEN ringPos' - j ELSE ringPos' - j + RingSize)
              = IF j - 1 <= ringPos THEN ringPos - (j - 1) ELSE ringPos - (j - 1) + RingSize
        <5>1. CASE ringPos + 1 < RingSize
          <6>1. ringPos' = ringPos + 1 /\ j \in Nat
            BY <1>1, <1>2, <1>3, <3>2, <5>1
          <6>2. CASE j <= ringPos + 1
            BY <1>2, <3>2, <6>1, <6>2
          <6>3. CASE ~(j <= ringPos + 1)
            BY <1>2, <3>2, <6>1, <6>3
          <6> QED
            BY <6>2, <6>3
        <5>2. CASE ~(ringPos + 1 < RingSize)
          <6>1. ringPos' = 0 /\ ringPos = RingSize - 1 /\ j <= RingSize
            BY <1>1, <1>2, <1>3, <5>2
          <6>2. j \in Nat /\ ~(j <= 0) /\ j - 1 <= ringPos
            BY <1>1, <1>2, <3>2, <6>1
          <6> QED
            BY <1>2, <6>1, <6>2
        <5> QED
          BY <5>1, <5>2
      <4>3. (IF j <= ringPos' THEN ringPos' - j ELSE ringPos' - j + RingSize) # ringPos
        BY <1>1, <1>2, <1>3, <3>2
      <4>4. ring[IF j - 1 <= ringPos THEN ringPos - (j - 1) ELSE ringPos - (j - 1) + RingSize]
              = published + 1 - (j - 1)
        BY <4>1 DEF DashboardInv, RingInv
      <4>5. ring'[place] = ring[place]
        BY <1>1, <1>2, <4>3
      <4> HIDE DEF place
      <4>6. ring'[place] = published + 1 - (j - 1)
        BY <4>2, <4>4, <4>5 DEF place
      <4> QED
        BY <1>1, <1>2, <3>2, <4>1, <4>6 DEF place
    <3> QED
      BY <1>1, <1>2, <3>1, <3>2
  <2> QED
    BY <2>1, <2>2 DEF RingInv
<1>6. ASSUME NEW v \in Viewers PROVE StreamInv(v)' /\ FollowInv(v)'
  <2>1. StreamInv(v) /\ FollowInv(v)
    BY DEF DashboardInv
  <2>2. Sent(v)' = Sent(v) /\ UNCHANGED <<clients, open, queue, since, page>>
    BY <1>1 DEF Sent
  <2>3. open[v] \in 0..MaxOpens /\ since[v] \in Nat
    BY DEF DashboardInv, DashboardTypeOK, NotYet
  <2>4. \A k : <<v, k>> \in copied' <=> v \in clients /\ k = open[v]
    BY <1>1
  <2>5. ToCome(v) = {}
    BY <1>1 DEF ToCome
  <2>6. ToCome(v)' = IF v \in clients THEN {published + 1} ELSE {}
    BY <1>1, <2>1, <2>3, <2>4 DEF ToCome, StreamInv
  <2>7. missed'[v] = IF v \in clients THEN missed[v] ELSE missed[v] \cup {published + 1}
    BY <1>1
  <2>8. since[v] # NotYet => InSeq(Sent(v)) \subseteq (since[v] + 1)..published
    BY <2>1 DEF FollowInv
  <2>9. v \in clients => published + 1 \notin InSeq(Sent(v))
    BY <1>2, <2>1, <2>3, <2>8 DEF StreamInv
  <2>10. StreamInv(v)'
    BY <1>1, <2>1, <2>2, <2>4, <2>9 DEF StreamInv
  <2>11. FollowInv(v)'
    <3> SUFFICES ASSUME since[v] # NotYet PROVE FollowInv(v)'
      BY <2>2 DEF FollowInv
    <3>1. InSeq(Sent(v)) \cup missed[v] = (since[v] + 1)..published /\ since[v] <= published
      BY <2>1, <2>5 DEF FollowInv
    <3>2. (since[v] + 1)..(published + 1) = ((since[v] + 1)..published) \cup {published + 1}
      BY <1>2, <2>3, <3>1
    <3>3. InSeq(Sent(v)) \cup missed'[v] \cup ToCome(v)' = (since[v] + 1)..(published + 1)
      BY <2>6, <2>7, <3>1, <3>2
    <3>4. InSeq(Sent(v))' = InSeq(Sent(v)) /\ InSeq(page[v])' = InSeq(page[v])
          /\ (Increasing(Sent(v))' <=> Increasing(Sent(v)))
          /\ (Increasing(page[v])' <=> Increasing(page[v]))
      BY <2>2 DEF InSeq, Increasing
    <3> QED
      BY <1>1, <1>2, <2>1, <2>2, <2>3, <3>1, <3>3, <3>4 DEF FollowInv
  <2> QED
    BY <2>10, <2>11
<1> QED
  BY <1>4, <1>5, <1>6 DEF DashboardInv

\* The event goes to one stream of the copy.
LEMMA SendStep ==
  ASSUME NEW x \in Viewers, NEW n \in 1..MaxOpens, DashboardInv, Send(x, n)
  PROVE  DashboardInv'
<1> USE RingAssumption, DashboardBounds
<1>1. /\ <<x, n>> \in copied /\ copied' = copied \ {<<x, n>>}
      /\ UNCHANGED <<published, ring, ringPos, ringLen, clients, open, since, page, got>>
  BY DEF Send
<1>2. published \in 0..MaxEvents
  BY DEF DashboardInv, DashboardTypeOK
<1>3. StreamInv(x) /\ FollowInv(x) /\ n \in 0..MaxOpens
  BY DEF DashboardInv
<1>4. since[x] # NotYet /\ published \notin InSeq(Sent(x)) /\ ToCome(x) = {published}
  BY <1>1, <1>3 DEF StreamInv, ToCome
<1>5. published \in Feed /\ published \in (since[x] + 1)..published
  <2>1. published \in (since[x] + 1)..published
    BY <1>3, <1>4 DEF FollowInv
  <2>2. since[x] \in Nat
    BY DEF DashboardInv, DashboardTypeOK, NotYet
  <2> QED
    BY <1>2, <2>1, <2>2 DEF Feed
<1>6. \/ /\ x \in clients /\ queue' = [queue EXCEPT ![x] = Append(@, published)] /\ UNCHANGED missed
      \/ missed' = [missed EXCEPT ![x] = @ \cup {published}] /\ UNCHANGED queue
  BY DEF Send
<1>7. DashboardTypeOK'
  <2>1. queue' \in [Viewers -> Seq(Feed)] /\ missed' \in [Viewers -> SUBSET Feed]
    <3>1. Append(queue[x], published) \in Seq(Feed)
      BY <1>5 DEF DashboardInv, DashboardTypeOK
    <3>2. CASE queue' = [queue EXCEPT ![x] = Append(@, published)] /\ UNCHANGED missed
      BY <3>1, <3>2 DEF DashboardInv, DashboardTypeOK
    <3>3. CASE missed' = [missed EXCEPT ![x] = @ \cup {published}] /\ UNCHANGED queue
      BY <1>5, <3>3 DEF DashboardInv, DashboardTypeOK
    <3> QED
      BY <1>6, <3>2, <3>3
  <2> QED
    BY <1>1, <2>1 DEF DashboardInv, DashboardTypeOK
<1>8. RingInv'
  BY <1>1 DEF DashboardInv, RingInv
<1>9. ASSUME NEW v \in Viewers, v # x PROVE StreamInv(v)' /\ FollowInv(v)'
  <2>1. UNCHANGED <<queue[v], missed[v]>>
    BY <1>6, <1>9 DEF DashboardInv, DashboardTypeOK
  <2>2. \A k : <<v, k>> \in copied' <=> <<v, k>> \in copied
    BY <1>1, <1>9
  <2>3. Sent(v)' = Sent(v) /\ ToCome(v)' = ToCome(v)
    BY <1>1, <2>1, <2>2 DEF Sent, ToCome
  <2>4. StreamInv(v) /\ FollowInv(v)
    BY DEF DashboardInv
  <2>5. StreamInv(v)'
    BY <1>1, <2>1, <2>2, <2>3, <2>4 DEF StreamInv
  <2>6. FollowInv(v)'
    BY <1>1, <2>1, <2>3, <2>4 DEF FollowInv, InSeq, Increasing
  <2> QED
    BY <2>5, <2>6
<1>10. ToCome(x)' = {} /\ \A k \in 0..MaxOpens : <<x, k>> \notin copied'
  <2>1. \A k \in 0..MaxOpens : <<x, k>> \in copied => k = n
    BY <1>1, <1>3 DEF StreamInv
  <2>2. \A k \in 0..MaxOpens : <<x, k>> \notin copied'
    BY <1>1, <2>1
  <2>3. \A k \in 1..MaxOpens : <<x, k>> \notin copied'
    BY <2>2
  <2> QED
    BY <2>2, <2>3, Zenon DEF ToCome
<1>11. StreamInv(x)'
  BY <1>1, <1>4, <1>6, <1>10, <1>3 DEF StreamInv
<1>12. InSeq(Sent(x))' \cup missed'[x] = InSeq(Sent(x)) \cup missed[x] \cup {published}
       /\ Increasing(Sent(x))'
  <2>1. Sent(x) \in Seq(Feed) /\ got[x] \in Seq(Feed) /\ queue[x] \in Seq(Feed)
    BY DEF Sent, DashboardInv, DashboardTypeOK
  <2>2. CASE queue' = [queue EXCEPT ![x] = Append(@, published)] /\ UNCHANGED missed
    <3>1. Sent(x)' = Append(Sent(x), published)
      <4>1. queue'[x] = Append(queue[x], published)
        BY <2>2 DEF DashboardInv, DashboardTypeOK
      <4> QED
        <5>1. /\ Append(queue[x], published) = queue[x] \o <<published>>
              /\ Append(Sent(x), published) = Sent(x) \o <<published>>
          BY <1>5, <2>1, AppendIsConcat, Zenon
        <5>2. <<published>> \in Seq(Feed)
          BY <1>5
        <5>3. (got[x] \o queue[x]) \o <<published>> = got[x] \o (queue[x] \o <<published>>)
          BY <2>1, <5>2, Joined, Zenon
        <5> QED
          BY <1>1, <4>1, <5>1, <5>3, Zenon DEF Sent
    <3>2. \A e \in InSeq(Sent(x)) : e < published
      <4>1. InSeq(Sent(x)) \subseteq (since[x] + 1)..published
        BY <1>3, <1>4 DEF FollowInv
      <4>2. since[x] \in Nat
        BY DEF DashboardInv, DashboardTypeOK, NotYet
      <4> QED
        BY <1>2, <1>4, <4>1, <4>2
    <3>3. InSeq(Append(Sent(x), published)) = InSeq(Sent(x)) \cup {published}
          /\ Increasing(Append(Sent(x), published))
      BY <1>3, <1>4, <1>5, <2>1, <3>2, SentLater DEF FollowInv
    <3>4. InSeq(Sent(x))' = InSeq(Append(Sent(x), published))
          /\ (Increasing(Sent(x))' <=> Increasing(Append(Sent(x), published)))
      BY <3>1 DEF InSeq, Increasing
    <3> QED
      BY <2>2, <3>3, <3>4
  <2>3. CASE missed' = [missed EXCEPT ![x] = @ \cup {published}] /\ UNCHANGED queue
    <3>1. Sent(x)' = Sent(x)
      BY <1>1, <2>3 DEF Sent
    <3>2. missed'[x] = missed[x] \cup {published}
      BY <2>3 DEF DashboardInv, DashboardTypeOK
    <3>3. InSeq(Sent(x))' = InSeq(Sent(x)) /\ (Increasing(Sent(x))' <=> Increasing(Sent(x)))
      BY <3>1 DEF InSeq, Increasing
    <3> QED
      BY <1>3, <1>4, <3>2, <3>3 DEF FollowInv
  <2> QED
    BY <1>6, <2>2, <2>3
<1>13. FollowInv(x)'
  <2>1. InSeq(page[x])' = InSeq(page[x]) /\ (Increasing(page[x])' <=> Increasing(page[x]))
    BY <1>1 DEF InSeq, Increasing
  <2>2. InSeq(Sent(x))' \cup missed'[x] \cup ToCome(x)' = (since[x] + 1)..published
    BY <1>3, <1>4, <1>10, <1>12 DEF FollowInv
  <2> QED
    BY <1>1, <1>3, <1>4, <1>12, <2>1, <2>2 DEF FollowInv
<1> QED
  BY <1>7, <1>8, <1>9, <1>11, <1>13 DEF DashboardInv

\* What a step leaves alone that is about one browser only.
LEMMA OtherViewers ==
  ASSUME NEW x \in Viewers, NEW v \in Viewers, v # x, DashboardInv, UNCHANGED <<published, copied>>,
         v \in clients' <=> v \in clients,
         UNCHANGED <<open[v], queue[v], since[v], page[v], got[v], missed[v]>>
  PROVE  StreamInv(v)' /\ FollowInv(v)'
<1>1. Sent(v)' = Sent(v) /\ ToCome(v)' = ToCome(v)
  BY DEF Sent, ToCome
<1>2. StreamInv(v) /\ FollowInv(v)
  BY DEF DashboardInv
<1>3. StreamInv(v)'
  BY <1>1, <1>2 DEF StreamInv
<1>4. FollowInv(v)'
  BY <1>1, <1>2 DEF FollowInv, InSeq, Increasing
<1> QED
  BY <1>3, <1>4

\* A viewer loads the page and sees the recent events.
LEMMA LoadPageStep ==
  ASSUME NEW x \in Viewers, DashboardInv, LoadPage(x)
  PROVE  DashboardInv'
<1> USE RingAssumption, DashboardBounds
<1>1. /\ since[x] = NotYet /\ since' = [since EXCEPT ![x] = published]
      /\ page' = [page EXCEPT ![x] = Recent] /\ missed' = [missed EXCEPT ![x] = {}]
      /\ UNCHANGED <<published, ring, ringPos, ringLen, copied, clients, open, queue, got>>
  BY DEF LoadPage, bus
<1>2. published \in 0..MaxEvents
  BY DEF DashboardInv, DashboardTypeOK
<1>3. /\ Recent \in Seq(Feed) /\ Increasing(Recent)
      /\ InSeq(Recent) = {e \in 1..published : e + RingSize > published}
  BY RecentEvents DEF DashboardInv
<1>4. page' \in [Viewers -> Seq(Feed)] /\ since' \in [Viewers -> 0..NotYet]
      /\ missed' \in [Viewers -> SUBSET Feed]
  BY <1>1, <1>2, <1>3 DEF DashboardInv, DashboardTypeOK, NotYet
<1>5. DashboardTypeOK'
  BY <1>1, <1>4 DEF DashboardInv, DashboardTypeOK
<1>6. RingInv'
  BY <1>1 DEF DashboardInv, RingInv
<1>7. ASSUME NEW v \in Viewers, v # x PROVE StreamInv(v)' /\ FollowInv(v)'
  BY <1>1, <1>7, OtherViewers DEF DashboardInv, DashboardTypeOK
<1>8. since'[x] = published /\ page'[x] = Recent /\ missed'[x] = {}
  BY <1>1 DEF DashboardInv, DashboardTypeOK
<1>9. Sent(x)' = <<>> /\ open[x] = 0 /\ x \notin clients /\ StreamInv(x)
  BY <1>1 DEF Sent, StreamInv, DashboardInv
<1>10. ToCome(x)' = {}
  <2>1. \A k \in 0..MaxOpens : <<x, k>> \notin copied
    BY <1>9 DEF StreamInv
  <2>2. \A k \in 1..MaxOpens : <<x, k>> \notin copied'
    BY <1>1, <2>1
  <2> QED
    BY <2>2, Zenon DEF ToCome
<1>11. InSeq(<<>>) = {} /\ Increasing(<<>>)
  BY DEF InSeq, Increasing
<1>12. InSeq(Sent(x))' = {} /\ Increasing(Sent(x))'
  BY <1>9, <1>11 DEF InSeq, Increasing
<1>13. StreamInv(x)'
  BY <1>1, <1>9, <1>12 DEF StreamInv, InSeq
<1>14. InSeq(page[x])' = InSeq(Recent) /\ Increasing(page[x])'
  BY <1>3, <1>8 DEF InSeq, Increasing
<1>15. FollowInv(x)'
  <2>1. (published + 1)..published = {}
    BY <1>2
  <2>2. InSeq(Sent(x))' \cup missed'[x] \cup ToCome(x)' = {}
    BY <1>8, <1>10, <1>12
  <2>3. InSeq(page[x])' = {e \in 1..published : e + RingSize > published} /\ since'[x] <= published
    BY <1>2, <1>3, <1>8, <1>14
  <2> QED
    BY <1>1, <1>8, <1>12, <1>14, <2>1, <2>2, <2>3 DEF FollowInv
<1> QED
  BY <1>5, <1>6, <1>7, <1>13, <1>15 DEF DashboardInv

\* A viewer opens a stream behind the page it has loaded.
LEMMA OpenStreamStep ==
  ASSUME NEW x \in Viewers, DashboardInv, OpenStream(x)
  PROVE  DashboardInv'
<1> USE RingAssumption, DashboardBounds
<1>1. /\ since[x] # NotYet /\ x \notin clients /\ open[x] < MaxOpens
      /\ clients' = clients \cup {x} /\ open' = [open EXCEPT ![x] = @ + 1]
      /\ UNCHANGED <<published, ring, ringPos, ringLen, copied, queue, since, page, got, missed>>
  BY DEF OpenStream, bus
<1>2. open' \in [Viewers -> 0..MaxOpens] /\ open'[x] = open[x] + 1 /\ open[x] \in 0..MaxOpens
  BY <1>1 DEF DashboardInv, DashboardTypeOK
<1>3. DashboardTypeOK'
  BY <1>1, <1>2 DEF DashboardInv, DashboardTypeOK
<1>4. RingInv'
  BY <1>1 DEF DashboardInv, RingInv
<1>5. ASSUME NEW v \in Viewers, v # x PROVE StreamInv(v)' /\ FollowInv(v)'
  BY <1>1, <1>5, OtherViewers DEF DashboardInv, DashboardTypeOK
<1>6. Sent(x)' = Sent(x) /\ ToCome(x)' = ToCome(x)
  BY <1>1 DEF Sent, ToCome
<1>7. StreamInv(x) /\ FollowInv(x)
  BY DEF DashboardInv
<1>8. StreamInv(x)'
  BY <1>1, <1>2, <1>6, <1>7 DEF StreamInv
<1>9. FollowInv(x)'
  BY <1>1, <1>6, <1>7 DEF FollowInv, InSeq, Increasing
<1> QED
  BY <1>3, <1>4, <1>5, <1>8, <1>9 DEF DashboardInv

\* A viewer receives the next event of its stream.
LEMMA DeliverStep ==
  ASSUME NEW x \in Viewers, DashboardInv, Deliver(x)
  PROVE  DashboardInv'
<1> USE RingAssumption, DashboardBounds
<1>1. /\ x \in clients /\ queue[x] # <<>>
      /\ got' = [got EXCEPT ![x] = Append(@, Head(queue[x]))]
      /\ queue' = [queue EXCEPT ![x] = Tail(@)]
      /\ UNCHANGED <<published, ring, ringPos, ringLen, copied, clients, open, since, page, missed>>
  BY DEF Deliver, bus
<1>2. got[x] \in Seq(Feed) /\ queue[x] \in Seq(Feed)
  BY DEF DashboardInv, DashboardTypeOK
<1>3. Append(got[x], Head(queue[x])) \in Seq(Feed) /\ Tail(queue[x]) \in Seq(Feed)
  BY <1>1, <1>2
<1>4. DashboardTypeOK'
  <2>1. got' \in [Viewers -> Seq(Feed)] /\ queue' \in [Viewers -> Seq(Feed)]
    BY <1>1, <1>3 DEF DashboardInv, DashboardTypeOK
  <2> QED
    BY <1>1, <2>1 DEF DashboardInv, DashboardTypeOK
<1>5. RingInv'
  BY <1>1 DEF DashboardInv, RingInv
<1>6. ASSUME NEW v \in Viewers, v # x PROVE StreamInv(v)' /\ FollowInv(v)'
  BY <1>1, <1>6, OtherViewers DEF DashboardInv, DashboardTypeOK
<1>7. Sent(x)' = Sent(x)
  <2>1. got'[x] = Append(got[x], Head(queue[x])) /\ queue'[x] = Tail(queue[x])
    BY <1>1 DEF DashboardInv, DashboardTypeOK
  <2>2. Append(got[x], Head(queue[x])) \o Tail(queue[x]) = got[x] \o queue[x]
    <3> DEFINE e == Head(queue[x])
               t == Tail(queue[x])
    <3>1. e \in Feed /\ t \in Seq(Feed) /\ <<e>> \in Seq(Feed) /\ queue[x] = <<e>> \o t
      BY <1>1, <1>2
    <3> HIDE DEF e, t
    <3>2. Append(got[x], e) = got[x] \o <<e>>
      BY <1>2, <3>1
    <3>3. (got[x] \o <<e>>) \o t = got[x] \o (<<e>> \o t)
      BY <1>2, <3>1, Joined, Zenon
    <3> QED
      BY <3>1, <3>2, <3>3, Zenon DEF e, t
  <2> QED
    BY <2>1, <2>2 DEF Sent
<1>8. StreamInv(x) /\ FollowInv(x) /\ ToCome(x)' = ToCome(x)
  BY <1>1 DEF DashboardInv, ToCome
<1>9. StreamInv(x)'
  BY <1>1, <1>7, <1>8 DEF StreamInv
<1>10. FollowInv(x)'
  BY <1>1, <1>7, <1>8 DEF FollowInv, InSeq, Increasing
<1> QED
  BY <1>4, <1>5, <1>6, <1>9, <1>10 DEF DashboardInv

\* A stream ends and what was in it is lost.
LEMMA EndStreamStep ==
  ASSUME NEW x \in Viewers, DashboardInv, EndStream(x)
  PROVE  DashboardInv'
<1> USE RingAssumption, DashboardBounds
<1>1. /\ x \in clients /\ clients' = clients \ {x}
      /\ missed' = [missed EXCEPT ![x] = @ \cup InSeq(queue[x])]
      /\ queue' = [queue EXCEPT ![x] = <<>>]
      /\ UNCHANGED <<published, ring, ringPos, ringLen, copied, open, since, page, got>>
  BY DEF EndStream, bus, InSeq
<1>2. got[x] \in Seq(Feed) /\ queue[x] \in Seq(Feed)
  BY DEF DashboardInv, DashboardTypeOK
<1>3. InSeq(queue[x]) \subseteq Feed
  BY <1>2 DEF InSeq
<1>4. DashboardTypeOK'
  <2>1. missed' \in [Viewers -> SUBSET Feed] /\ queue' \in [Viewers -> Seq(Feed)]
    BY <1>1, <1>3 DEF DashboardInv, DashboardTypeOK
  <2> QED
    BY <1>1, <2>1 DEF DashboardInv, DashboardTypeOK
<1>5. RingInv'
  BY <1>1 DEF DashboardInv, RingInv
<1>6. ASSUME NEW v \in Viewers, v # x PROVE StreamInv(v)' /\ FollowInv(v)'
  BY <1>1, <1>6, OtherViewers DEF DashboardInv, DashboardTypeOK
<1>7. /\ StreamInv(x) /\ FollowInv(x) /\ ToCome(x)' = ToCome(x) /\ since[x] # NotYet
      /\ missed'[x] = missed[x] \cup InSeq(queue[x]) /\ queue'[x] = <<>>
  BY <1>1 DEF DashboardInv, DashboardTypeOK, ToCome, StreamInv
<1>8. Sent(x)' = got[x]
  <2>1. Sent(x)' = got[x] \o <<>>
    BY <1>1, <1>7 DEF Sent
  <2> QED
    BY <1>2, <2>1, ConcatEmptySeq, Zenon
<1>9. Increasing(got[x]) /\ InSeq(Sent(x)) = InSeq(got[x]) \cup InSeq(queue[x])
  BY <1>2, <1>7, Prefix DEF Sent, FollowInv
<1>10. InSeq(Sent(x))' = InSeq(got[x]) /\ Increasing(Sent(x))'
  BY <1>8, <1>9 DEF InSeq, Increasing
<1>11. StreamInv(x)'
  BY <1>1, <1>7, <1>9, <1>10 DEF StreamInv, InSeq
<1>12. FollowInv(x)'
  <2>1. InSeq(page[x])' = InSeq(page[x]) /\ (Increasing(page[x])' <=> Increasing(page[x]))
    BY <1>1 DEF InSeq, Increasing
  <2>2. InSeq(Sent(x))' \cup missed'[x] \cup ToCome(x)' = (since[x] + 1)..published
    BY <1>7, <1>9, <1>10 DEF FollowInv
  <2> QED
    BY <1>1, <1>7, <1>10, <2>1, <2>2 DEF FollowInv
<1> QED
  BY <1>4, <1>5, <1>6, <1>11, <1>12 DEF DashboardInv

\* The ring holds the latest events in order, and what a viewer has seen and is still
\* to receive together increase, without the events its full stream refused (event_bus.go).
THEOREM DashboardInvariant == DashboardSpec => []DashboardInv
<1>1. DashboardInv /\ UNCHANGED dashboardVars => DashboardInv'
  <2> SUFFICES ASSUME DashboardInv, UNCHANGED dashboardVars PROVE DashboardInv'
    OBVIOUS
  <2>1. DashboardTypeOK' /\ RingInv'
    BY DEF dashboardVars, DashboardInv, DashboardTypeOK, RingInv
  <2>2. ASSUME NEW v \in Viewers PROVE StreamInv(v)' /\ FollowInv(v)'
    <3>1. StreamInv(v) /\ FollowInv(v) /\ Sent(v)' = Sent(v) /\ ToCome(v)' = ToCome(v)
      BY DEF dashboardVars, DashboardInv, Sent, ToCome
    <3>2. StreamInv(v)'
      BY <3>1 DEF dashboardVars, StreamInv
    <3>3. FollowInv(v)'
      BY <3>1 DEF dashboardVars, FollowInv, InSeq, Increasing
    <3> QED
      BY <3>2, <3>3
  <2> QED
    BY <2>1, <2>2 DEF DashboardInv, dashboardVars
<1>2. DashboardInv /\ [DashboardNext]_dashboardVars => DashboardInv'
  BY <1>1, PublishStep, SendStep, LoadPageStep, OpenStreamStep, DeliverStep, EndStreamStep
  DEF DashboardNext
<1> QED
  BY <1>2, DashboardInitInv, PTL DEF DashboardSpec

\* A viewer whose stream never refused an event has seen, or is to receive, everything
\* since the page it loaded, once and in order (handleSSE, Subscribe, Publish).
THEOREM FollowedHolds == DashboardSpec => []Followed
<1>1. DashboardInv => Followed
  <2> SUFFICES ASSUME DashboardInv, NEW v \in Viewers, since[v] # NotYet
               PROVE  /\ Increasing(page[v] \o got[v] \o queue[v])
                      /\ InSeq(page[v]) = {e \in 1..since[v] : e + RingSize > since[v]}
                      /\ InSeq(Sent(v)) \cup missed[v] \cup ToCome(v) = (since[v] + 1)..published
    BY DEF Followed, Sent, ToCome
  <2>1. FollowInv(v)
    BY DEF DashboardInv
  <2>2. page[v] \in Seq(Feed) /\ got[v] \in Seq(Feed) /\ queue[v] \in Seq(Feed)
        /\ Sent(v) \in Seq(Feed)
    BY DEF DashboardInv, DashboardTypeOK, Sent
  <2>3. page[v] \o got[v] \o queue[v] = page[v] \o Sent(v)
    BY <2>2, Joined, Zenon DEF Sent
  <2>4. page[v] \in Seq(Nat) /\ Sent(v) \in Seq(Nat)
    BY <2>2, DashboardBounds DEF Feed
  <2>5. \A a \in InSeq(page[v]), b \in InSeq(Sent(v)) : a < b
    <3>1. since[v] \in Nat /\ published \in Nat
      BY DashboardBounds DEF DashboardInv, DashboardTypeOK, NotYet
    <3>2. InSeq(page[v]) \subseteq 1..since[v] /\ InSeq(Sent(v)) \subseteq (since[v] + 1)..published
      BY <2>1 DEF FollowInv
    <3> QED
      BY <3>1, <3>2
  <2>6. Increasing(page[v] \o Sent(v))
    BY <2>1, <2>4, <2>5, Halves DEF FollowInv
  <2> QED
    BY <2>1, <2>3, <2>6 DEF FollowInv
<1> QED
  BY <1>1, DashboardInvariant, PTL

-----------------------------------------------------------------------------
(***************************************************************************)
(* Types of the daemon, the registry and the sentinel.                     *)
(***************************************************************************)

\* The variables of the daemon keep their types.
LEMMA DaemonTypes == DaemonSpec => []DaemonTypeOK
<1>1. DaemonInit => DaemonTypeOK
  <2> SUFFICES ASSUME DaemonInit PROVE DaemonTypeOK
    OBVIOUS
  <2>1. cfg \in Settings /\ inForce = cfg
    BY LoadedSettings DEF DaemonInit
  <2>2. fresh \in [Subjects -> Settings] /\ at \in [Subjects -> ReloadSteps]
    BY DefaultAssumption DEF DaemonInit, ReloadSteps
  <2>3. opts \subseteq Options
    BY DeploymentsAssumption DEF DaemonInit
  <2>4. DOMAIN built = {}
    BY DEF DaemonInit
  <2>5. stage \in Stages
    BY DEF DaemonInit, Stages, Starting
  <2>6. skillsOk \in BOOLEAN /\ stopCh \in BOOLEAN /\ calling \in BOOLEAN /\ streams \in BOOLEAN
        /\ spent \in BOOLEAN /\ dismissed \in BOOLEAN /\ lone \in BOOLEAN
    BY Zenon DEF DaemonInit
  <2>8. llmClient \in [Subjects -> ApiKeys \cup {NoKey}] /\ reloads \in Nat
    BY DEF DaemonInit
  <2>7. up = {} /\ tools = {}
    BY DEF DaemonInit
  <2> QED
    BY <2>1, <2>2, <2>3, <2>4, <2>5, <2>6, <2>7, <2>8, Zenon DEF DaemonTypeOK
<1>2. DaemonTypeOK /\ [DaemonNext]_daemonVars => DaemonTypeOK'
  <2> SUFFICES ASSUME DaemonTypeOK, [DaemonNext]_daemonVars PROVE DaemonTypeOK'
    OBVIOUS
  <2> USE DEF DaemonTypeOK
  <2> DEFINE Switches == skillsOk \in BOOLEAN /\ stopCh \in BOOLEAN /\ calling \in BOOLEAN
                         /\ streams \in BOOLEAN /\ spent \in BOOLEAN /\ dismissed \in BOOLEAN
             Given == tools \subseteq Tools /\ DOMAIN built \subseteq Loadable
                      /\ \A w \in DOMAIN built : built[w] \subseteq Tools
             Held == cfg \in Settings /\ inForce \in Settings
                     /\ at \in [Subjects -> ReloadSteps] /\ fresh \in [Subjects -> Settings]
                     /\ llmClient \in [Subjects -> ApiKeys \cup {NoKey}]
                     /\ reloads \in Nat /\ lone \in BOOLEAN
  <2>1. Switches' /\ opts' \subseteq Options
    <3>1. \/ UNCHANGED <<skillsOk, stopCh, calling, streams, spent, opts, dismissed>>
          \/ UNCHANGED <<skillsOk, stopCh, calling, streams, opts, dismissed>> /\ spent' = TRUE
          \/ UNCHANGED <<skillsOk, stopCh, streams, spent, opts, dismissed>> /\ calling' \in BOOLEAN
          \/ UNCHANGED <<skillsOk, stopCh, calling, spent, opts, dismissed>> /\ streams' = ~streams
          \/ UNCHANGED <<skillsOk, calling, streams, spent, opts, dismissed>> /\ stopCh' = TRUE
          \/ UNCHANGED <<skillsOk, stopCh, calling, streams, spent, opts>> /\ StopSentinel
      BY ReloadLeaves, SentinelLeaves, Zenon DEF DaemonNext, daemonVars, Startup, StartServer, OpenRegistry, StartEngine, LoadScripts,
           StartWatching, GiveConversations, LoadSkills, StartSentinel, SubscribeReload, StartApi,
           StartWeb, Shutdown, ShutWeb, CloseApi, ShutApi, StopSentinel, StopEngine, CloseRegistry,
           CloseNats, DownUnchanged, Timeout, Leave, Stop, Stream, BeginCall,
           ReloadWorkflows, Reloaded, requestVars
    <3>2. StopSentinel => dismissed' \in BOOLEAN
      BY DEF StopSentinel, IsUp
    <3> QED
      BY <3>1, <3>2, Zenon
  <2>2. Given'
    <3>1. CASE UNCHANGED <<tools, built>>
      BY <3>1
    <3>2. ASSUME tools' \subseteq Tools, UNCHANGED built PROVE Given'
      BY <3>2
    <3>3. ASSUME UNCHANGED tools, NEW ws \in SUBSET Loadable,
                 built' = [w \in ws |-> IF w \in DOMAIN built THEN built[w] ELSE tools]
          PROVE  Given'
      BY <3>3
    <3>4. ASSUME UNCHANGED tools, built' = [w \in Scripts |-> tools] PROVE Given'
      BY <3>4 DEF Loadable
    <3>5. ASSUME UNCHANGED tools, built' = [w \in {} |-> {}] PROVE Given'
      BY <3>5
    <3>6. CASE LoadScripts \/ ReloadWorkflows
      BY <3>1, <3>4, <3>6 DEF LoadScripts, ReloadWorkflows, Build
    <3>7. CASE StartEngine \/ GiveConversations
      BY <3>1, <3>2, <3>7 DEF StartEngine, GiveConversations, Tools
    <3>8. CASE LoadSkills
      <4>1. tools' \subseteq Tools
        BY <3>8 DEF LoadSkills, Tools
      <4>2. CASE UNCHANGED <<tools, built>>
        BY <4>2
      <4>3. ASSUME NEW hs \in SUBSET Handlers,
                   built' = [w \in DOMAIN built \cup hs |->
                               IF w \in Handlers THEN tools' ELSE built[w]]
            PROVE  Given'
        BY <4>1, <4>3 DEF Loadable
      <4> QED
        BY <3>8, <4>2, <4>3 DEF LoadSkills
    <3>9. CASE StartApi \/ StopEngine
      BY <3>1, <3>5, <3>9 DEF StartApi, StopEngine
    <3>10. ASSUME NEW w \in Scripts, Reloaded(w) PROVE Given'
      <4>1. UNCHANGED tools
            /\ built' = [v \in DOMAIN built \cup {w} |-> IF v = w THEN tools ELSE built[v]]
        BY <3>10 DEF Reloaded
      <4> QED
        BY <4>1 DEF Loadable
    <3>11. ASSUME NEW s \in Subjects, Reload(s) PROVE Given'
      <4>1. UNCHANGED built
        BY <3>11, ReloadLeaves
      <4>2. tools' \in {tools, tools \cup {"llm"}, tools \ {"llm"}}
        BY <3>11, ReloadTools
      <4> QED
        BY <3>2, <4>1, <4>2 DEF Tools
    <3>12. CASE \/ StartServer \/ OpenRegistry \/ StartWatching \/ StartSentinel \/ SubscribeReload
                \/ StartWeb \/ ShutWeb \/ CloseApi \/ ShutApi \/ StopSentinel \/ CloseRegistry
                \/ CloseNats \/ SentinelReturns \/ Timeout \/ Stop \/ Stream \/ BeginCall
                \/ \E why \in {"signal", "stop", "api", "web"} : Leave(why)
                \/ UNCHANGED daemonVars
      <4>1. UNCHANGED <<tools, built>>
        BY <3>12, SentinelLeaves, Zenon DEF StartServer, OpenRegistry, StartWatching, StartSentinel,
             SubscribeReload, StartWeb, ShutWeb, CloseApi, ShutApi, StopSentinel, CloseRegistry,
             CloseNats, DownUnchanged, Timeout, Stop, Stream, BeginCall, Leave, daemonVars
      <4> QED
        BY <3>1, <4>1
    <3> QED
      BY <3>6, <3>7, <3>8, <3>9, <3>10, <3>11, <3>12, Zenon DEF DaemonNext, Startup, Shutdown
  <2>3. Held'
    <3>1. CASE UNCHANGED reloadVars
      BY <3>1 DEF reloadVars
    <3>2. ASSUME NEW s \in Subjects, Reload(s) PROVE Held'
      <4>1. ASSUME NEW f \in ConfigFiles, ReadFile(s, f) PROVE Held'
        <5>1. UNCHANGED <<cfg, inForce, llmClient>> /\ reloads' = reloads + 1
          BY <4>1 DEF ReadFile
        <5>2. at' \in [Subjects -> ReloadSteps] /\ fresh' \in [Subjects -> Settings]
          BY <4>1, LoadedSettings DEF ReadFile, ReloadSteps
        <5>3. lone' \in BOOLEAN
          BY <4>1, Zenon DEF ReadFile, Others
        <5>4. reloads' \in Nat
          BY <5>1
        <5> QED
          BY <5>1, <5>2, <5>3, <5>4
      <4>2. CASE \/ Compare(s, "timeout", "setTimeout", "timeout", "verify")
                 \/ Compare(s, "verify", "setVerify", "verify", "llm") \/ CompareKey(s)
        BY <4>2 DEF Compare, CompareKey, To, ReloadSteps, ReloadUnchanged
      <4>3. CASE Set(s, "setTimeout", "timeout", "verify") \/ Set(s, "setVerify", "verify", "llm")
        BY <4>3 DEF Set, To, ReloadSteps, Settings, ReloadUnchanged
      <4>4. CASE \/ CopyWorkflows(s, "switch", "switchKey") \/ CopyWorkflows(s, "cfg", "cfgKey")
                 \/ CopyKey(s)
        BY <4>4 DEF CopyWorkflows, CopyKey, To, ReloadSteps, Settings, ReloadUnchanged
      <4>5. CASE CreateClient(s) \/ SetClient(s)
        BY <4>5 DEF CreateClient, SetClient, To, ReloadSteps, Settings, ReloadUnchanged
      <4>6. CASE EndReload(s)
        BY <4>6, DefaultAssumption DEF EndReload, To, ReloadSteps, Settings, ReloadUnchanged
      <4> QED
        BY <3>2, <4>1, <4>2, <4>3, <4>4, <4>5, <4>6 DEF Reload
    <3>3. UNCHANGED reloadVars \/ \E s \in Subjects : Reload(s)
      BY SentinelLeaves, Zenon DEF DaemonNext, daemonVars, reloadVars, Startup, StartServer, OpenRegistry, StartEngine,
           LoadScripts, StartWatching, GiveConversations, LoadSkills, StartSentinel,
           SubscribeReload, StartApi, StartWeb, Shutdown, ShutWeb, CloseApi, ShutApi, StopSentinel,
           StopEngine, CloseRegistry, CloseNats, DownUnchanged, Timeout, Leave, Stop,
           Stream, BeginCall, ReloadWorkflows, Reloaded
    <3> QED
      BY <3>1, <3>2, <3>3
  <2>4. stage' \in Stages /\ up' \subseteq Subsystems
    <3>1. UNCHANGED <<stage, up>> \/ Startup \/ Shutdown \/ SentinelReturns
          \/ \E why \in {"signal", "stop", "api", "web"} : Leave(why)
      BY ReloadLeaves, Zenon
      DEF DaemonNext, daemonVars, Timeout, Stop, Stream, BeginCall, ReloadWorkflows, Reloaded
    <3> QED
      BY <3>1, SentinelLeaves DEF Startup, StartServer, OpenRegistry, StartEngine,
           LoadScripts, StartWatching, GiveConversations, LoadSkills, StartSentinel,
           SubscribeReload, StartApi, StartWeb, Shutdown, ShutWeb, CloseApi, ShutApi, StopSentinel,
           StopEngine, CloseRegistry, CloseNats, Leave, Go, Stages, Starting, Leaving,
           Subsystems
  <2> QED
    BY <2>1, <2>2, <2>3, <2>4, Zenon
<1> QED
  BY <1>1, <1>2, PTL DEF DaemonSpec

\* The variables of the registry and the agents keep their types.
LEMMA RegistryTypes == RegistrySpec => []RegistryTypeOK
<1>1. RegistryInit => RegistryTypeOK
  <2> SUFFICES ASSUME RegistryInit PROVE RegistryTypeOK
    OBVIOUS
  <2>1. 0 \in 0..MaxHandled /\ stops \in 0..MaxStops
    BY RegistryBounds DEF RegistryInit
  <2>2. shown \in [AgentNames -> 0..MaxHandled] /\ handled \in [Procs -> 0..MaxHandled]
    BY <2>1 DEF RegistryInit, Unlisted
  <2>4. beats \in [Procs -> Seq(0..MaxHandled)]
    <3>1. <<>> \in Seq(0..MaxHandled)
      BY EmptySeq
    <3> QED
      BY <3>1, Zenon DEF RegistryInit
  <2>3. meta \in [AgentNames -> Procs \cup {Nobody}] /\ status \in [AgentNames -> {"", "running"}]
        /\ proc \in [Procs -> {"new", "running", "gone"}]
    BY DEF RegistryInit, Unlisted
  <2> QED
    BY <2>1, <2>2, <2>3, <2>4 DEF RegistryInit, Unlisted, RegistryTypeOK
<1>2. RegistryTypeOK /\ [RegistryNext]_registryVars => RegistryTypeOK'
  <2> SUFFICES ASSUME RegistryTypeOK, [RegistryNext]_registryVars PROVE RegistryTypeOK'
    OBVIOUS
  <2> DEFINE Counters == /\ shown \in [AgentNames -> 0..MaxHandled]
                         /\ handled \in [Procs -> 0..MaxHandled]
             Sets == /\ listed \subseteq AgentNames /\ linked \subseteq Procs
                     /\ announced \subseteq Procs /\ heard \subseteq Procs
             Places == /\ server \in {"off", "nats", "on"} /\ stops \in 0..MaxStops
                       /\ meta \in [AgentNames -> Procs \cup {Nobody}]
                       /\ status \in [AgentNames -> {"", "running"}]
                       /\ proc \in [Procs -> {"new", "running", "gone"}]
             OnTheWay == beats \in [Procs -> Seq(0..MaxHandled)]
  <2>1. Sets'
    <3>1. \/ UNCHANGED <<listed, linked, announced, heard>>
          \/ listed' = {} /\ linked' = {} /\ announced' = {} /\ heard' = {}
          \/ \E p \in Procs :
               /\ listed' \in {listed, listed \cup {NameOf[p]}}
               /\ linked' \in {linked, linked \cup {p}}
               /\ announced' \in {announced, announced \cup {p}, announced \ {p}}
               /\ heard' \in {heard, heard \cup {p}}
      <4>1. CASE StopDaemon
        BY <4>1 DEF StopDaemon
      <4>2. CASE StartNats \/ StartRegistry \/ UNCHANGED registryVars
        BY <4>2 DEF StartNats, StartRegistry, registryVars, entries, agentSide, inFlight
      <4>3. ASSUME NEW p \in Procs,
                   \/ HandleRegistration(p) \/ HandleHeartbeat(p) \/ StartAgent(p) \/ Beat(p)
                   \/ Record(p) \/ Reconnect(p) \/ CloseConn(p) \/ Crash(p)
            PROVE  /\ listed' \in {listed, listed \cup {NameOf[p]}}
                   /\ linked' \in {linked, linked \cup {p}}
                   /\ announced' \in {announced, announced \cup {p}, announced \ {p}}
                   /\ heard' \in {heard, heard \cup {p}}
        BY <4>3 DEF entries, agentSide, inFlight, HandleRegistration, HandleHeartbeat, StartAgent,
             Beat, Record, Reconnect, CloseConn, Crash
      <4> QED
        BY <4>1, <4>2, <4>3, Zenon DEF RegistryNext
    <3> QED
      BY <3>1, NameOfAssumption DEF RegistryTypeOK
  <2>2. Places'
    <3>1. CASE StartNats \/ StartRegistry \/ UNCHANGED registryVars
      BY <3>1 DEF RegistryTypeOK, StartNats, StartRegistry, registryVars, entries, agentSide
    <3>2. CASE StopDaemon
      <4>1. stops' \in 0..MaxStops
        <5>1. stops \in 0..MaxStops /\ stops < MaxStops /\ stops' = stops + 1
          BY <3>2, Zenon DEF RegistryTypeOK, StopDaemon
        <5> QED
          BY <5>1, RegistryBounds
      <4>2. server' = "off" /\ UNCHANGED proc /\ meta' = [n \in AgentNames |-> Nobody]
            /\ status' = [n \in AgentNames |-> ""]
        BY <3>2 DEF StopDaemon
      <4> QED
        BY <4>1, <4>2 DEF RegistryTypeOK
    <3>3. ASSUME NEW p \in Procs, HandleRegistration(p) PROVE Places'
      BY <3>3, NameOfAssumption DEF RegistryTypeOK, HandleRegistration, agentSide
    <3>4. ASSUME NEW p \in Procs, HandleHeartbeat(p) PROVE Places'
      BY <3>4, NameOfAssumption DEF RegistryTypeOK, HandleHeartbeat, agentSide
    <3>5. ASSUME NEW p \in Procs, StartAgent(p) \/ Beat(p) \/ Record(p) PROVE Places'
      BY <3>5 DEF RegistryTypeOK, StartAgent, Beat, Record, entries, agentSide
    <3>6. ASSUME NEW p \in Procs, Reconnect(p) \/ CloseConn(p) \/ Crash(p) PROVE Places'
      <4>1. UNCHANGED <<server, stops, meta, status>>
            /\ proc' \in {proc, [proc EXCEPT ![p] = "gone"]}
        BY <3>6, Zenon DEF Reconnect, CloseConn, Crash, entries
      <4> QED
        BY <4>1 DEF RegistryTypeOK
    <3> QED
      BY <3>1, <3>2, <3>3, <3>4, <3>5, <3>6 DEF RegistryNext
  <2>3. Counters' /\ OnTheWay'
    <3> DEFINE Beats == Seq(0..MaxHandled)
    <3>1. ASSUME NEW q \in Beats PROVE q # <<>> => Head(q) \in 0..MaxHandled /\ Tail(q) \in Beats
      BY HeadTailProperties
    <3>2. ASSUME NEW q \in Beats, NEW e \in 0..MaxHandled PROVE Append(q, e) \in Beats
      BY AppendProperties
    <3>3. ASSUME NEW q \in Beats, NEW k \in 0..Len(q) PROVE SubSeq(q, 1, k) \in Beats
      <4>1. \A i \in 1..k : i \in 1..Len(q)
        BY LenProperties
      <4>2. \A i \in 1..k : q[i] \in 0..MaxHandled
        BY <4>1, ElementOfSeq
      <4> QED
        BY <4>2, SubSeqProperties
    <3>4. <<>> \in Beats /\ 0 \in 0..MaxHandled
      BY RegistryBounds
    <3>5. beats \in [Procs -> Beats] /\ shown \in [AgentNames -> 0..MaxHandled]
          /\ handled \in [Procs -> 0..MaxHandled]
      BY DEF RegistryTypeOK
    <3> HIDE DEF Beats
    <3>6. CASE StopDaemon
      BY <3>4, <3>5, <3>6 DEF StopDaemon, Beats
    <3>7. ASSUME NEW p \in Procs, HandleHeartbeat(p) PROVE Counters' /\ OnTheWay'
      <4>1. beats[p] \in Beats /\ beats[p] # <<>> /\ NameOf[p] \in AgentNames
        BY <3>5, <3>7, NameOfAssumption DEF HandleHeartbeat
      <4>2. Head(beats[p]) \in 0..MaxHandled /\ Tail(beats[p]) \in Beats
        BY <3>1, <4>1
      <4> QED
        BY <3>5, <3>7, <4>2 DEF HandleHeartbeat, agentSide, Beats
    <3>8. ASSUME NEW p \in Procs, Beat(p) PROVE Counters' /\ OnTheWay'
      <4>1. Append(beats[p], handled[p]) \in Beats
        BY <3>2, <3>5
      <4> QED
        BY <3>5, <3>8, <4>1 DEF Beat, entries, agentSide, Beats
    <3>9. ASSUME NEW p \in Procs, Record(p) PROVE Counters' /\ OnTheWay'
      BY <3>5, <3>9, RegistryBounds DEF Record, entries, inFlight, Beats
    <3>10. ASSUME NEW p \in Procs, Reconnect(p) \/ CloseConn(p) PROVE Counters' /\ OnTheWay'
      BY <3>4, <3>5, <3>10 DEF Reconnect, CloseConn, entries, Beats
    <3>11. ASSUME NEW p \in Procs, Crash(p) PROVE Counters' /\ OnTheWay'
      <4>1. PICK k \in 0..Len(beats[p]) : beats' = [beats EXCEPT ![p] = SubSeq(@, 1, k)]
        BY <3>11 DEF Crash
      <4>2. SubSeq(beats[p], 1, k) \in Beats
        BY <3>3, <3>5
      <4> QED
        BY <3>5, <3>11, <4>1, <4>2 DEF Crash, entries, Beats
    <3>12. ASSUME UNCHANGED <<shown, handled, beats>> PROVE Counters' /\ OnTheWay'
      BY <3>5, <3>12 DEF Beats
    <3>13. CASE \/ StartNats \/ StartRegistry \/ UNCHANGED registryVars
                \/ \E p \in Procs : HandleRegistration(p) \/ StartAgent(p)
      BY <3>12, <3>13
      DEF StartNats, StartRegistry, HandleRegistration, StartAgent, registryVars, entries, agentSide, inFlight
    <3> QED
      BY <3>6, <3>7, <3>8, <3>9, <3>10, <3>11, <3>13 DEF RegistryNext
  <2> QED
    BY <2>1, <2>2, <2>3 DEF RegistryTypeOK
<1> QED
  BY <1>1, <1>2, PTL DEF RegistrySpec

\* The variables of the sentinel keep their types.
LEMMA SentinelTypes == SentinelSpec => []SentinelTypeOK
<1> DEFINE Inv == SentinelTypeOK /\ (loop = "acting" => actions > 0)
<1>1. SentinelInit => Inv
  <2> SUFFICES ASSUME SentinelInit PROVE Inv
    OBVIOUS
  <2>1. loop = "off" /\ actions \in 0..MaxActions
    BY MaxActionsAssumption DEF SentinelInit
  <2>2. due \in BOOLEAN /\ cancelled \in BOOLEAN
    BY Zenon DEF SentinelInit
  <2> QED
    BY <2>1, <2>2 DEF SentinelTypeOK
<1>2. Inv /\ [SentinelNext]_sentinelVars => Inv'
  <2> SUFFICES ASSUME Inv, [SentinelNext]_sentinelVars PROVE Inv'
    OBVIOUS
  <2>1. loop' \in {"off", "select", "checklist", "asking", "acting", "ended"}
        /\ actions' \in 0..MaxActions /\ (loop' = "acting" => actions' > 0)
    BY MaxActionsAssumption DEF SentinelTypeOK, SentinelNext, sentinelVars, Begin, Cancel, Interval,
         TakeTick, End, CheckStep, Act, AskFails, ReadChecklist, Answered
  <2>2. due' \in BOOLEAN /\ cancelled' \in BOOLEAN
    <3>1. due' \in {TRUE, FALSE, due} /\ cancelled' \in {TRUE, cancelled}
      BY DEF SentinelNext, sentinelVars, Begin, Cancel, Interval,
         TakeTick, End, CheckStep, Act, AskFails, ReadChecklist, Answered
    <3> QED
      BY <3>1, Zenon DEF SentinelTypeOK
  <2> QED
    BY <2>1, <2>2, Zenon DEF SentinelTypeOK
<1> QED
  BY <1>1, <1>2, PTL DEF SentinelSpec

-----------------------------------------------------------------------------
(***************************************************************************)
(* The counters an entry of the registry shows.                            *)
(***************************************************************************)

\* Counters from low to high, up to what the process has now.
Line(s, most) ==
  /\ \A i, j \in 1..Len(s) : i <= j => s[i] <= s[j]
  /\ \A i \in 1..Len(s) : s[i] <= most

Above(s, least) == \A i \in 1..Len(s) : least <= s[i]

\* No other process ever bears the name of this one.
Alone(p) == \A q \in Procs : NameOf[q] = NameOf[p] => q = p

NeverAhead ==
  \A n \in AgentNames : shown[n] > 0 => \E p \in Procs : NameOf[p] = n /\ shown[n] <= handled[p]

NeverBack ==
  [][\A p \in Procs :
       Alone(p) /\ server' # "off" => shown[NameOf[p]] <= shown'[NameOf[p]]]_registryVars

CounterInv ==
  /\ \A p \in Procs : Line(beats[p], handled[p])
  /\ \A p \in Procs : Alone(p) => Above(beats[p], shown[NameOf[p]])
  /\ NeverAhead

Counters == 0..MaxHandled

\* A heartbeat joins the line at its end with the counter of now.
LEMMA LineAppend ==
  ASSUME NEW s \in Seq(Counters), NEW most \in Counters, Line(s, most)
  PROVE  Line(Append(s, most), most) /\ \A f \in Counters : Above(s, f) /\ f <= most => Above(Append(s, most), f)
<1> DEFINE t == Append(s, most)
<1>1. Len(t) = Len(s) + 1 /\ t[Len(s) + 1] = most /\ \A i \in 1..Len(s) : t[i] = s[i]
  BY AppendProperties
<1>2. Len(s) \in Nat
  OBVIOUS
<1> HIDE DEF t
<1>3. \A i \in 1..Len(t) : (i \in 1..Len(s) /\ t[i] = s[i]) \/ (i = Len(s) + 1 /\ t[i] = most)
  BY <1>1, <1>2
<1>4. \A i \in 1..Len(t) : t[i] <= most
  BY <1>3, RegistryBounds DEF Line, Counters
<1>5. ASSUME NEW i \in 1..Len(t), NEW j \in 1..Len(t), i <= j PROVE t[i] <= t[j]
  <2>1. CASE j = Len(s) + 1
    BY <1>3, <1>4, <1>2, <2>1
  <2>2. CASE j \in 1..Len(s)
    <3>1. i \in 1..Len(s)
      BY <1>2, <1>5, <2>2
    <3> QED
      BY <1>1, <1>5, <2>2, <3>1 DEF Line
  <2> QED
    BY <1>3, <2>1, <2>2
<1>6. \A f \in Counters : Above(s, f) /\ f <= most => Above(t, f)
  BY <1>3 DEF Above
<1> QED
  BY <1>4, <1>5, <1>6 DEF Line, t

\* The first one leaves: the others are not below it.
LEMMA LineTail ==
  ASSUME NEW s \in Seq(Counters), NEW most \in Counters, Line(s, most), s # <<>>
  PROVE  Line(Tail(s), most) /\ Above(Tail(s), Head(s)) /\ Head(s) <= most
         /\ \A f \in Counters : Above(s, f) => f <= Head(s)
<1> DEFINE t == Tail(s)
           h == Head(s)
<1>1. Len(s) \in Nat \ {0} /\ h = s[1] /\ Len(t) = Len(s) - 1 /\ \A i \in 1..Len(t) : t[i] = s[i + 1]
  BY HeadTailProperties
<1> HIDE DEF t, h
<1>2. 1 \in 1..Len(s) /\ \A i \in 1..Len(t) : i + 1 \in 1..Len(s) /\ 1 <= i + 1
  BY <1>1
<1>3. \A i, j \in 1..Len(t) : i <= j => t[i] <= t[j]
  BY <1>1, <1>2 DEF Line
<1>4. \A i \in 1..Len(t) : t[i] <= most /\ h <= t[i]
  BY <1>1, <1>2 DEF Line
<1>5. h <= most /\ \A f \in Counters : Above(s, f) => f <= h
  BY <1>1, <1>2 DEF Line, Above
<1> QED
  BY <1>3, <1>4, <1>5 DEF Line, Above, t, h

\* The last ones are lost.
LEMMA LineCut ==
  ASSUME NEW s \in Seq(Counters), NEW most \in Counters, Line(s, most), NEW k \in 0..Len(s)
  PROVE  Line(SubSeq(s, 1, k), most) /\ \A f \in Counters : Above(s, f) => Above(SubSeq(s, 1, k), f)
<1> DEFINE t == SubSeq(s, 1, k)
<1>1. Len(s) \in Nat /\ k \in Nat /\ \A i \in 1..k : i \in 1..Len(s) /\ s[i] \in Counters
  BY LenProperties, ElementOfSeq
<1>2. Len(t) = k /\ \A i \in 1..k : t[i] = s[i]
  BY <1>1, SubSeqProperties
<1> HIDE DEF t
<1>3. Line(t, most) /\ \A f \in Counters : Above(s, f) => Above(t, f)
  BY <1>1, <1>2 DEF Line, Above
<1> QED
  BY <1>3 DEF t

\* Nothing on the line is in order.
LEMMA LineEmpty ==
  /\ \A most : Line(<<>>, most)
  /\ \A least : Above(<<>>, least)
BY DEF Line, Above

\* What a heartbeat does to the entry of its name, and that it never takes the counter
\* of a name that one process bears back.
LEMMA HeartbeatStep ==
  ASSUME RegistryTypeOK, CounterInv, NEW p \in Procs, HandleHeartbeat(p)
  PROVE  CounterInv' /\ \A q \in Procs : Alone(q) => shown[NameOf[q]] <= shown'[NameOf[q]]
<1> DEFINE h == Head(beats[p])
<1>1. beats[p] \in Seq(Counters) /\ handled[p] \in Counters /\ NameOf[p] \in AgentNames
      /\ beats[p] # <<>> /\ Line(beats[p], handled[p])
  BY NameOfAssumption DEF RegistryTypeOK, Counters, HandleHeartbeat, CounterInv
<1>2. Line(Tail(beats[p]), handled[p]) /\ Above(Tail(beats[p]), h) /\ h <= handled[p]
      /\ \A f \in Counters : Above(beats[p], f) => f <= h
  BY <1>1, LineTail
<1>3. shown' = [shown EXCEPT ![NameOf[p]] = h] /\ beats' = [beats EXCEPT ![p] = Tail(beats[p])]
      /\ UNCHANGED handled
  BY DEF HandleHeartbeat, agentSide
<1> HIDE DEF h
<1>4. \A q \in Procs : Line(beats'[q], handled'[q])
  BY <1>2, <1>3 DEF CounterInv, RegistryTypeOK
<1>5. ASSUME NEW q \in Procs, Alone(q)
      PROVE  Above(beats'[q], shown'[NameOf[q]]) /\ shown[NameOf[q]] <= shown'[NameOf[q]]
  <2>1. NameOf[q] \in AgentNames /\ shown[NameOf[q]] \in Counters
    BY NameOfAssumption DEF RegistryTypeOK, Counters
  <2>2. CASE q = p
    <3>1. shown'[NameOf[q]] = h /\ beats'[q] = Tail(beats[p])
      BY <1>1, <1>3, <2>2 DEF RegistryTypeOK
    <3>2. Above(beats[p], shown[NameOf[q]])
      BY <1>5, <2>2 DEF CounterInv
    <3> QED
      BY <1>2, <2>1, <3>1, <3>2
  <2>3. CASE q # p
    <3>1. NameOf[q] # NameOf[p]
      BY <1>5, <2>3 DEF Alone
    <3>2. shown'[NameOf[q]] = shown[NameOf[q]] /\ beats'[q] = beats[q]
      BY <1>3, <2>1, <2>3, <3>1 DEF RegistryTypeOK
    <3>3. Above(beats[q], shown[NameOf[q]])
      BY <1>5 DEF CounterInv
    <3> QED
      BY <2>1, <3>2, <3>3, RegistryBounds DEF Counters
  <2> QED
    BY <2>2, <2>3
<1>6. NeverAhead'
  <2> SUFFICES ASSUME NEW n \in AgentNames, shown'[n] > 0
               PROVE  \E q \in Procs : NameOf[q] = n /\ shown'[n] <= handled[q]
    BY <1>3 DEF NeverAhead
  <2>1. CASE n = NameOf[p]
    BY <1>1, <1>2, <1>3, <2>1 DEF RegistryTypeOK
  <2>2. CASE n # NameOf[p]
    BY <1>3, <2>2 DEF RegistryTypeOK, CounterInv, NeverAhead
  <2> QED
    BY <2>1, <2>2
<1> QED
  BY <1>4, <1>5, <1>6 DEF CounterInv, Alone

\* Every step keeps the heartbeats on the line in order and the entries behind them, and
\* takes no counter of a name that one process bears back.
LEMMA CounterStep ==
  RegistryTypeOK /\ CounterInv /\ [RegistryNext]_registryVars =>
    /\ CounterInv'
    /\ server' # "off" => \A p \in Procs : Alone(p) => shown[NameOf[p]] <= shown'[NameOf[p]]
<1> SUFFICES ASSUME RegistryTypeOK, CounterInv, [RegistryNext]_registryVars
             PROVE  /\ CounterInv'
                    /\ server' # "off" => \A p \in Procs : Alone(p) => shown[NameOf[p]] <= shown'[NameOf[p]]
  OBVIOUS
<1>1. ASSUME UNCHANGED shown,
             \A p \in Procs : /\ handled[p] <= handled'[p]
                              /\ Line(beats'[p], handled'[p])
                              /\ \A f \in Counters : Above(beats[p], f) /\ f <= handled[p] => Above(beats'[p], f),
             \A p \in Procs : handled'[p] \in Counters
      PROVE  CounterInv' /\ \A p \in Procs : Alone(p) => shown[NameOf[p]] <= shown'[NameOf[p]]
  <2>1. \A p \in Procs : NameOf[p] \in AgentNames /\ shown[NameOf[p]] \in Counters
                         /\ handled[p] \in Counters
    BY NameOfAssumption DEF RegistryTypeOK, Counters
  <2>2. ASSUME NEW p \in Procs, Alone(p) PROVE shown[NameOf[p]] <= handled[p]
    <3>1. CASE shown[NameOf[p]] > 0
      BY <2>1, <2>2, <3>1 DEF CounterInv, NeverAhead, Alone
    <3>2. CASE shown[NameOf[p]] = 0
      BY <2>1, <3>2, RegistryBounds DEF Counters
    <3> QED
      BY <2>1, <3>1, <3>2, RegistryBounds DEF Counters
  <2>3. ASSUME NEW p \in Procs, Alone(p)' PROVE Above(beats'[p], shown'[NameOf[p]])
    BY <1>1, <2>1, <2>2, <2>3 DEF CounterInv, Alone
  <2>4. NeverAhead'
    <3> SUFFICES ASSUME NEW n \in AgentNames, shown[n] > 0
                 PROVE  \E p \in Procs : NameOf[p] = n /\ shown[n] <= handled'[p]
      BY <1>1 DEF NeverAhead
    <3>1. PICK p \in Procs : NameOf[p] = n /\ shown[n] <= handled[p]
      BY DEF CounterInv, NeverAhead
    <3>2. shown[n] \in Counters
      BY <2>1, <3>1
    <3> QED
      BY <1>1, <2>1, <3>1, <3>2, RegistryBounds DEF Counters
  <2>5. \A p \in Procs : shown[NameOf[p]] <= shown'[NameOf[p]]
    BY <1>1, <2>1, RegistryBounds DEF Counters
  <2> QED
    BY <1>1, <2>3, <2>4, <2>5 DEF CounterInv
<1>2. \A p \in Procs : beats[p] \in Seq(Counters) /\ handled[p] \in Counters /\ Line(beats[p], handled[p])
  BY DEF RegistryTypeOK, Counters, CounterInv
<1>3. ASSUME UNCHANGED <<shown, handled>>,
             \A p \in Procs : beats'[p] = beats[p] \/ beats'[p] = <<>>
      PROVE  CounterInv' /\ \A p \in Procs : Alone(p) => shown[NameOf[p]] <= shown'[NameOf[p]]
  <2>1. ASSUME NEW p \in Procs
        PROVE  /\ handled[p] <= handled'[p] /\ handled'[p] \in Counters
               /\ Line(beats'[p], handled'[p])
               /\ \A f \in Counters : Above(beats[p], f) => Above(beats'[p], f)
    BY <1>2, <1>3, LineEmpty, RegistryBounds DEF Counters
  <2> QED
    BY <1>1, <1>3, <2>1
<1>4. CASE StopDaemon
  <2>1. server' = "off" /\ UNCHANGED handled
    BY <1>4 DEF StopDaemon
  <2>2. \A p \in Procs : beats'[p] = <<>>
    BY <1>4 DEF StopDaemon
  <2>3. \A n \in AgentNames : shown'[n] = 0
    BY <1>4 DEF StopDaemon
  <2> QED
    BY <2>1, <2>2, <2>3, LineEmpty DEF CounterInv, NeverAhead
<1>5. ASSUME NEW p \in Procs, HandleHeartbeat(p)
      PROVE  CounterInv' /\ \A q \in Procs : Alone(q) => shown[NameOf[q]] <= shown'[NameOf[q]]
  BY <1>5, HeartbeatStep
<1>6. ASSUME NEW p \in Procs, Beat(p)
      PROVE  CounterInv' /\ \A q \in Procs : Alone(q) => shown[NameOf[q]] <= shown'[NameOf[q]]
  <2>1. UNCHANGED <<shown, handled>>
        /\ beats' \in {beats, [beats EXCEPT ![p] = Append(beats[p], handled[p])]}
    BY <1>6 DEF Beat, entries, agentSide
  <2>2. ASSUME NEW q \in Procs
        PROVE  /\ handled[q] <= handled'[q] /\ handled'[q] \in Counters
               /\ Line(beats'[q], handled'[q])
               /\ \A f \in Counters : Above(beats[q], f) /\ f <= handled[q] => Above(beats'[q], f)
    <3>1. handled'[q] = handled[q] /\ handled[q] \in Counters /\ handled[q] <= handled[q]
      BY <1>2, <2>1, RegistryBounds DEF Counters
    <3>2. CASE beats'[q] = beats[q]
      BY <1>2, <3>1, <3>2
    <3>3. CASE beats'[q] = Append(beats[q], handled[q])
      BY <1>2, <3>1, <3>3, LineAppend
    <3>4. beats'[q] = beats[q] \/ beats'[q] = Append(beats[q], handled[q])
      BY <2>1 DEF RegistryTypeOK
    <3> QED
      BY <3>1, <3>2, <3>3, <3>4
  <2> QED
    BY <1>1, <2>1, <2>2
<1>7. ASSUME NEW p \in Procs, Record(p)
      PROVE  CounterInv' /\ \A q \in Procs : Alone(q) => shown[NameOf[q]] <= shown'[NameOf[q]]
  <2>1. UNCHANGED <<shown, beats>> /\ handled' = [handled EXCEPT ![p] = handled[p] + 1]
        /\ handled[p] < MaxHandled
    BY <1>7 DEF Record, entries, inFlight
  <2>2. ASSUME NEW q \in Procs PROVE handled[q] <= handled'[q] /\ handled'[q] \in Counters
    <3>1. handled[q] \in Counters /\ handled'[q] = IF q = p THEN handled[q] + 1 ELSE handled[q]
      BY <2>1 DEF RegistryTypeOK, Counters
    <3>2. q = p => handled[q] < MaxHandled
      BY <2>1
    <3> QED
      BY <3>1, <3>2, RegistryBounds DEF Counters
  <2>3. ASSUME NEW q \in Procs PROVE Line(beats[q], handled'[q])
    <3> DEFINE B == beats[q]
               x == handled[q]
               y == handled'[q]
    <3>1. /\ Line(B, x) /\ x \in Counters /\ y \in Counters /\ x <= y
          /\ \A i \in 1..Len(B) : B[i] \in Counters
      BY <1>2, <2>2, ElementOfSeq
    <3> HIDE DEF B, x, y
    <3>2. Line(B, y)
      BY <3>1, RegistryBounds DEF Line, Counters
    <3> QED
      BY <3>2 DEF B, y
  <2> QED
    BY <1>1, <2>1, <2>2, <2>3
<1>8. ASSUME NEW p \in Procs, Crash(p)
      PROVE  CounterInv' /\ \A q \in Procs : Alone(q) => shown[NameOf[q]] <= shown'[NameOf[q]]
  <2>1. UNCHANGED <<shown, handled>>
    BY <1>8 DEF Crash, entries
  <2>2. PICK k \in 0..Len(beats[p]) : beats' = [beats EXCEPT ![p] = SubSeq(beats[p], 1, k)]
    BY <1>8 DEF Crash
  <2>3. ASSUME NEW q \in Procs
        PROVE  /\ handled[q] <= handled'[q] /\ handled'[q] \in Counters
               /\ Line(beats'[q], handled'[q])
               /\ \A f \in Counters : Above(beats[q], f) => Above(beats'[q], f)
    <3>1. handled'[q] = handled[q] /\ handled[q] \in Counters /\ handled[q] <= handled[q]
      BY <1>2, <2>1, RegistryBounds DEF Counters
    <3>2. CASE q # p
      <4>1. beats'[q] = beats[q]
        BY <2>2, <3>2 DEF RegistryTypeOK
      <4> QED
        BY <1>2, <3>1, <4>1
    <3>3. CASE q = p
      <4>1. beats'[q] = SubSeq(beats[q], 1, k)
        BY <2>2, <3>3 DEF RegistryTypeOK
      <4> QED
        BY <1>2, <3>1, <3>3, <4>1, LineCut
    <3> QED
      BY <3>2, <3>3
  <2> QED
    BY <1>1, <2>1, <2>3
<1>9. ASSUME NEW p \in Procs, Reconnect(p) \/ CloseConn(p)
      PROVE  CounterInv' /\ \A q \in Procs : Alone(q) => shown[NameOf[q]] <= shown'[NameOf[q]]
  <2>1. UNCHANGED <<shown, handled>> /\ beats' \in {beats, [beats EXCEPT ![p] = <<>>]}
    BY <1>9 DEF Reconnect, CloseConn, entries
  <2>2. \A q \in Procs : beats'[q] = beats[q] \/ beats'[q] = <<>>
    BY <2>1 DEF RegistryTypeOK
  <2> QED
    BY <1>3, <2>1, <2>2
<1>10. CASE \/ StartNats \/ StartRegistry \/ UNCHANGED registryVars
            \/ \E p \in Procs : HandleRegistration(p) \/ StartAgent(p)
  <2>1. UNCHANGED <<shown, handled, beats>>
    BY <1>10 DEF StartNats, StartRegistry, HandleRegistration, StartAgent, registryVars, entries,
                agentSide, inFlight
  <2> QED
    BY <1>3, <2>1
<1> QED
  BY <1>4, <1>5, <1>6, <1>7, <1>8, <1>9, <1>10 DEF RegistryNext, StopDaemon

\* Heartbeats stay in order, and an entry stays behind those that are to come.
LEMMA CounterInvariant == RegistrySpec => []CounterInv
<1>1. RegistryInit => CounterInv
  <2> SUFFICES ASSUME RegistryInit PROVE CounterInv
    OBVIOUS
  <2>1. \A p \in Procs : beats[p] = <<>>
    BY DEF RegistryInit
  <2>2. \A n \in AgentNames : shown[n] = 0
    BY DEF RegistryInit, Unlisted
  <2> QED
    BY <2>1, <2>2, LineEmpty DEF CounterInv, NeverAhead
<1> QED
  BY <1>1, CounterStep, RegistryTypes, PTL DEF RegistrySpec

\* The registry never shows more than a process of that name has counted, however
\* heartbeats are held back, lost and overtaken (RecordEvent, sendHeartbeat, handleHeartbeat).
THEOREM NeverAheadHolds == RegistrySpec => []NeverAhead
<1>1. CounterInv => NeverAhead
  BY DEF CounterInv
<1> QED
  BY <1>1, CounterInvariant, PTL

\* Where one process bears a name, its counters never fall on the dashboard until the
\* daemon ends, although they arrive late and some of them never (handleHeartbeat).
THEOREM NeverBackHolds == RegistrySpec => NeverBack
<1>1. RegistryTypeOK /\ CounterInv /\ [RegistryNext]_registryVars =>
        [\A p \in Procs :
           Alone(p) /\ server' # "off" => shown[NameOf[p]] <= shown'[NameOf[p]]]_registryVars
  BY CounterStep
<1> QED
  BY <1>1, CounterInvariant, RegistryTypes, PTL DEF RegistrySpec, NeverBack

-----------------------------------------------------------------------------
(***************************************************************************)
(* The parts together: what is proved of a part holds in the daemon.       *)
(***************************************************************************)

\* Every part behaves in the daemon as it does alone: whichever part runs, the others
\* are left where they are.
THEOREM SekiadPartsHold ==
  SekiadSpec => /\ DaemonSpec /\ LoaderSpec /\ ConversationSpec
                /\ RegistrySpec /\ DashboardSpec /\ SentinelSpec
<1>1. SekiadInit => /\ DaemonInit /\ LoaderInit /\ ConversationInit
                    /\ RegistryInit /\ DashboardInit /\ SentinelInit
  BY DEF SekiadInit
<1>2. [SekiadNext]_sekiadVars =>
        /\ [DaemonNext]_daemonVars /\ [LoaderNext]_loaderVars
        /\ [ConversationNext]_conversationVars /\ [RegistryNext]_registryVars
        /\ [DashboardNext]_dashboardVars /\ [SentinelNext]_sentinelVars
  BY DEF SekiadNext, DaemonPart, LoaderPart, ConversationPart, RegistryPart, DashboardPart,
         SentinelPart, otherThanDaemon, otherThanLoader, otherThanConversation, otherThanRegistry,
         otherThanDashboard, otherThanSentinel, sekiadVars
<1> QED
  BY <1>1, <1>2, PTL DEF SekiadSpec, DaemonSpec, LoaderSpec, ConversationSpec, RegistrySpec,
                         DashboardSpec, SentinelSpec

\* The variables of the daemon keep their types, in every part (internal/server,
\* workflow, conversation, registry, web, sentinel).
THEOREM SekiadTypeOKHolds == SekiadSpec => []SekiadTypeOK
<1>1. SekiadInit => part \in Parts
  BY DEF SekiadInit
<1>2. part \in Parts /\ [SekiadNext]_sekiadVars => (part \in Parts)'
  BY DEF SekiadNext, DaemonPart, LoaderPart, ConversationPart, RegistryPart, DashboardPart,
         SentinelPart, sekiadVars
<1>3. SekiadSpec => [](part \in Parts)
  BY <1>1, <1>2, PTL DEF SekiadSpec
<1>4. /\ part \in Parts /\ DaemonTypeOK /\ LoaderTypeOK /\ ConversationTypeOK
      /\ RegistryTypeOK /\ DashboardInv /\ SentinelTypeOK
      => SekiadTypeOK
  BY DEF SekiadTypeOK, DashboardInv
<1> QED
  BY <1>3, <1>4, SekiadPartsHold, DaemonTypes, LoaderTypeOKHolds, ConversationTypeOKHolds,
     RegistryTypes, DashboardInvariant, SentinelTypes, PTL

\* What each part promises, promised by the daemon, with no assumption but those about
\* the constants: settings, connections, histories, registrations and pages are what they
\* should be, and a workflow that fails to load never replaces one that runs.  What the
\* loader promises of the directory needs flushes that do not overlap (TrackedHolds).
THEOREM SekiadSafe ==
  SekiadSpec => /\ [](Applied /\ Orderly /\ RecentHistory /\ Dialogue /\ Capable /\ Followed)
                /\ KeepsOld
                /\ NeverBack
BY SekiadPartsHold, AppliedHolds, OrderlyHolds, KeepsOldHolds, RecentHistoryHolds, DialogueHolds,
   CapableHolds, FollowedHolds, NeverBackHolds, PTL

=============================================================================
