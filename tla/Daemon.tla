------------------------------- MODULE Daemon -------------------------------
(***************************************************************************)
(* The life of sekiad (internal/server): Run starts the subsystems one     *)
(* after the other, waits for a signal, Stop or a server that fails, and   *)
(* takes them down again within five seconds of grace for the two HTTP     *)
(* servers.  Meanwhile two NATS subscriptions may each ask for a reload of *)
(* the configuration file, on a goroutine of their own.                    *)
(*                                                                         *)
(* How workflows follow their files is the module Loader; here a workflow  *)
(* is what it was built with: the LLM client, the conversation store and   *)
(* the skills that the engine had at that moment.                          *)
(***************************************************************************)
EXTENDS Naturals

CONSTANTS
  Scripts,     \* workflows of the directory
  Handlers,    \* workflows of skills (handler.lua)
  Timeouts,    \* values of workflows.handler_timeout
  ApiKeys,        \* values of ai.api_key
  NoKey,       \* no API key
  Default,     \* the settings of LoadConfig without a file
  BadSecret,   \* a file with a value that ResolveViperConfig cannot resolve
  BadFile,     \* a file that does not parse, or no file
  Deployments, \* bound: the sets of options a configuration enables
  MaxReloads,  \* bound: reloads of a behaviour, for each of them
  ConfigFiles        \* what the configuration file may hold whenever it is read

Settings == [timeout : Timeouts, verify : BOOLEAN, key : ApiKeys \cup {NoKey}]

Subsystems == {"nats", "registry", "engine", "watcher", "sentinel", "reload", "api", "web"}
Options == {"engine", "watcher", "skills", "sentinel", "web"}
Tools == {"llm", "conversations", "skills"}
Subjects == {"all", "sekiad"}   \* sekia.config.reload and sekia.config.reload.sekiad
Loadable == Scripts \cup Handlers

ASSUME ScriptsAssumption == Scripts \cap Handlers = {}
ASSUME KeysAssumption == NoKey \notin ApiKeys
ASSUME DefaultAssumption == Default \in Settings /\ Default.key = NoKey
ASSUME DeploymentsAssumption ==
  \A o \in Deployments : o \subseteq Options /\ ("watcher" \in o => "engine" \in o)
ASSUME BadFilesAssumption == BadSecret \notin Settings /\ BadFile \notin Settings
ASSUME ConfigFilesAssumption == ConfigFiles \subseteq Settings \cup {BadSecret, BadFile}
ASSUME ReloadsBound == MaxReloads \in [Deployments -> Nat]

Starting == {"nats", "registry", "engine", "load", "watch", "conversations", "skills",
             "sentinel", "subscribe", "api", "web"}
Leaving == {"shutWeb", "shutApi", "stopSentinel", "stopEngine", "closeRegistry", "closeNats"}
Stages == Starting \cup {"serving"} \cup Leaving \cup {"ended", "failed"}

VARIABLES
  stage,     \* the next step of Run
  opts,      \* what the configuration enables
  skillsOk,  \* every skill of the directory, if there is one, can be read
  up,        \* subsystems that run
  stopCh,    \* Stop was called
  cfg,       \* Daemon.cfg
  inForce,   \* the engine's settings
  tools,     \* what the engine has to give to the workflows it builds
  built,     \* per loaded workflow: what it was built with
  at,        \* per subject: the next step of its reloadConfig
  fresh,     \* per subject: the configuration its reloadConfig read, Default before
  llmClient, \* per subject: the key of the client it made and did not hand over yet
  reloads,   \* history: reloads so far
  lone,      \* history: no reload has begun while the other one was under way
  dismissed, \* the context of the sentinel is cancelled
  calling,   \* a request of the HTTP API is in progress
  streams,   \* the dashboard has an event stream open
  spent      \* the five seconds of shutdown are over

reloadVars == <<cfg, inForce, at, fresh, llmClient, reloads, lone>>
requestVars == <<calling, streams>>
daemonVars == <<stage, opts, skillsOk, up, stopCh, tools, built, reloadVars,
                dismissed, requestVars, spent>>

ReloadSteps == {"idle", "timeout", "setTimeout", "verify", "setVerify", "llm", "switch",
                "switchKey", "client", "setClient", "cfg", "cfgKey"}

DaemonTypeOK ==
  /\ stage \in Stages /\ opts \subseteq Options /\ skillsOk \in BOOLEAN
  /\ up \subseteq Subsystems /\ stopCh \in BOOLEAN
  /\ cfg \in Settings /\ inForce \in Settings
  /\ tools \subseteq Tools
  /\ DOMAIN built \subseteq Loadable /\ \A w \in DOMAIN built : built[w] \subseteq Tools
  /\ at \in [Subjects -> ReloadSteps] /\ fresh \in [Subjects -> Settings]
  /\ llmClient \in [Subjects -> ApiKeys \cup {NoKey}]
  /\ reloads \in Nat /\ lone \in BOOLEAN /\ dismissed \in BOOLEAN
  /\ calling \in BOOLEAN /\ streams \in BOOLEAN /\ spent \in BOOLEAN

-----------------------------------------------------------------------------
\* LoadConfig: a file that cannot be read counts as none; a secret that cannot be
\* resolved is an error.
LoadConfig(f) == IF f \in Settings THEN f ELSE Default

DaemonInit ==
  /\ stage = "nats"
  /\ opts \in Deployments /\ skillsOk \in {TRUE, "skills" \notin opts}
  /\ up = {} /\ stopCh = FALSE
  /\ \E f \in ConfigFiles \ {BadSecret} : cfg = LoadConfig(f)
  /\ inForce = cfg
  /\ tools = {} /\ built = [w \in {} |-> {}]
  /\ at = [s \in Subjects |-> "idle"] /\ fresh = [s \in Subjects |-> Default]
  /\ llmClient = [s \in Subjects |-> NoKey] /\ reloads = 0 /\ lone = TRUE
  /\ dismissed = FALSE
  /\ calling = FALSE /\ streams = FALSE /\ spent = FALSE

Enabled(o) == o \in opts
Go(from, to) == stage = from /\ stage' = to
IsUp(s) == s \in up

\* LoadWorkflow hands the workflow what the engine has now.
Build(ws) == [w \in ws |-> tools]

-----------------------------------------------------------------------------
(***************************************************************************)
(* Run starts the subsystems.                                              *)
(***************************************************************************)

\* natsserver.New, or an error and the end.
StartServer ==
  /\ \/ Go("nats", "registry") /\ up' = {"nats"}
     \/ Go("nats", "failed") /\ UNCHANGED up
  /\ UNCHANGED <<opts, skillsOk, stopCh, reloadVars, tools, built, dismissed, requestVars, spent>>

\* registry.New, or the server is shut down again.
OpenRegistry ==
  /\ \/ Go("registry", "engine") /\ up' = up \cup {"registry"}
     \/ Go("registry", "failed") /\ up' = {}
  /\ UNCHANGED <<opts, skillsOk, stopCh, reloadVars, tools, built, dismissed, requestVars, spent>>

\* createLLMClient and the engine of startWorkflowEngine, if there is a directory.
StartEngine ==
  /\ IF Enabled("engine")
     THEN \/ /\ Go("engine", "load") /\ up' = up \cup {"engine"}
             /\ tools' = IF cfg.key # NoKey THEN {"llm"} ELSE {}
          \/ Go("engine", "failed") /\ up' = {} /\ UNCHANGED tools
     ELSE Go("engine", "conversations") /\ UNCHANGED <<up, tools>>
  /\ UNCHANGED <<opts, skillsOk, stopCh, reloadVars, built, dismissed, requestVars, spent>>

\* LoadDir, or a warning: the scripts are built when the engine has the client only.
LoadScripts ==
  /\ Go("load", "watch")
  /\ built' \in {Build(Scripts), built}
  /\ UNCHANGED <<opts, skillsOk, up, stopCh, reloadVars, tools, dismissed, requestVars, spent>>

\* StartWatcher, or a warning.
StartWatching ==
  /\ Go("watch", "conversations")
  /\ up' \in {up, IF Enabled("watcher") THEN up \cup {"watcher"} ELSE up}
  /\ UNCHANGED <<opts, skillsOk, stopCh, reloadVars, tools, built, dismissed, requestVars, spent>>

\* SetConversationStore.
GiveConversations ==
  /\ Go("conversations", "skills")
  /\ tools' = IF IsUp("engine") THEN tools \cup {"conversations"} ELSE tools
  /\ UNCHANGED <<opts, skillsOk, up, stopCh, reloadVars, built, dismissed, requestVars, spent>>

\* loadSkills: one skill that cannot be read leaves the manager without any.
LoadSkills ==
  /\ Go("skills", "sentinel")
  /\ IF Enabled("skills") /\ IsUp("engine")
     THEN /\ tools' = IF skillsOk THEN tools \cup {"skills"} ELSE tools
          /\ built' = [w \in DOMAIN built \cup (IF skillsOk THEN Handlers ELSE {}) |->
                         IF w \in Handlers THEN tools' ELSE built[w]]
     ELSE UNCHANGED <<tools, built>>
  /\ UNCHANGED <<opts, skillsOk, up, stopCh, reloadVars, dismissed, requestVars, spent>>

\* The sentinel needs an LLM client.
StartSentinel ==
  /\ Go("sentinel", "subscribe")
  /\ up' = IF Enabled("sentinel") /\ cfg.key # NoKey THEN up \cup {"sentinel"} ELSE up
  /\ UNCHANGED <<opts, skillsOk, stopCh, reloadVars, tools, built, dismissed, requestVars, spent>>

SubscribeReload ==
  /\ Go("subscribe", "api")
  /\ up' = up \cup {"reload"}
  /\ UNCHANGED <<opts, skillsOk, stopCh, reloadVars, tools, built, dismissed, requestVars, spent>>

\* startAPIServer; when the socket cannot be had, engine, registry and server are
\* stopped, the sentinel and the watcher are not.
StartApi ==
  /\ \/ Go("api", "web") /\ up' = up \cup {"api"} /\ UNCHANGED built
     \/ /\ Go("api", "failed") /\ up' = up \cap {"sentinel", "watcher"}
        /\ built' = [w \in {} |-> {}]
  /\ UNCHANGED <<opts, skillsOk, stopCh, reloadVars, tools, dismissed, requestVars, spent>>

StartWeb ==
  /\ Go("web", "serving")
  /\ up' = IF Enabled("web") THEN up \cup {"web"} ELSE up
  /\ UNCHANGED <<opts, skillsOk, stopCh, reloadVars, tools, built, dismissed, requestVars, spent>>

Startup ==
  \/ StartServer \/ OpenRegistry \/ StartEngine \/ LoadScripts \/ StartWatching
  \/ GiveConversations \/ LoadSkills \/ StartSentinel \/ SubscribeReload
  \/ StartApi \/ StartWeb

-----------------------------------------------------------------------------
(***************************************************************************)
(* While the daemon runs.                                                  *)
(***************************************************************************)

Live == stage \notin {"ended", "failed"}

\* The watcher loads a script again, also after Engine.Stop.
Reloaded(w) ==
  /\ Live /\ IsUp("watcher") /\ w \in Scripts
  /\ built' = [v \in DOMAIN built \cup {w} |-> IF v = w THEN tools ELSE built[v]]
  /\ UNCHANGED <<stage, opts, skillsOk, up, stopCh, reloadVars, tools, dismissed, requestVars, spent>>

\* POST /api/v1/workflows/reload arrives.
BeginCall ==
  /\ Live /\ IsUp("api") /\ ~calling
  /\ calling' = TRUE
  /\ UNCHANGED <<stage, opts, skillsOk, up, stopCh, reloadVars, tools, built, dismissed, streams, spent>>

\* handleWorkflowReload: ReloadAll reads the directory, not the skills.
ReloadWorkflows ==
  /\ Live /\ calling
  /\ calling' = FALSE
  /\ built' = IF Enabled("engine") THEN Build(Scripts) ELSE built
  /\ UNCHANGED <<stage, opts, skillsOk, up, stopCh, reloadVars, tools, dismissed, streams, spent>>

\* A browser opens the event stream of the dashboard, or leaves it.
Stream ==
  /\ Live /\ streams' = ~streams /\ (IsUp("web") \/ streams)
  /\ UNCHANGED <<stage, opts, skillsOk, up, stopCh, reloadVars, tools, built, calling, dismissed, spent>>

\* Stop closes stopCh.
Stop ==
  /\ ~stopCh /\ Live
  /\ stopCh' = TRUE
  /\ UNCHANGED <<stage, opts, skillsOk, up, reloadVars, tools, built, dismissed, requestVars, spent>>

-----------------------------------------------------------------------------
(***************************************************************************)
(* reloadConfig, on the goroutine of the subscription to subject s.        *)
(***************************************************************************)

Others(s) == \A t \in Subjects \ {s} : at[t] = "idle"

To(s, from, to) == Live /\ at[s] = from /\ at' = [at EXCEPT ![s] = to]

\* A message is there (sekiactl config reload, or any client of the server): the file
\* is read, whatever it holds by now; an error ends it.  A subscription handles one
\* message at a time; nothing keeps the other one from handling its own meanwhile.
ReadFile(s, f) ==
  /\ Live /\ IsUp("reload") /\ at[s] = "idle" /\ reloads < MaxReloads[opts]
  /\ reloads' = reloads + 1
  /\ IF f = BadSecret
     THEN UNCHANGED <<at, fresh, lone>>
     ELSE /\ at' = [at EXCEPT ![s] = IF Enabled("engine") THEN "timeout" ELSE "cfg"]
          /\ fresh' = [fresh EXCEPT ![s] = LoadConfig(f)]
          /\ lone' = (lone /\ Others(s))
  /\ UNCHANGED <<stage, opts, skillsOk, up, stopCh, cfg, inForce, llmClient, tools, built,
                 dismissed, requestVars, spent>>

ReloadUnchanged ==
  UNCHANGED <<stage, opts, skillsOk, up, stopCh, built, reloads, lone,
              dismissed, requestVars, spent>>

\* A setting is compared with Daemon.cfg, and set afterwards if it differs.
Compare(s, from, to, setting, next) ==
  /\ To(s, from, IF fresh[s][setting] # cfg[setting] THEN to ELSE next)
  /\ UNCHANGED <<cfg, inForce, tools, fresh, llmClient>> /\ ReloadUnchanged

\* SetHandlerTimeout and SetVerifyIntegrity.
Set(s, from, setting, to) ==
  /\ To(s, from, to)
  /\ inForce' = [inForce EXCEPT ![setting] = fresh[s][setting]]
  /\ UNCHANGED <<cfg, tools, fresh, llmClient>> /\ ReloadUnchanged

\* Mutated: Daemon.cfg is replaced first and the key compared with the new copy.
CompareKeyLate(s) ==
  /\ To(s, "llm", "cfg")
  /\ cfg' = fresh[s]
  /\ UNCHANGED <<inForce, tools, fresh, llmClient>> /\ ReloadUnchanged

\* A key that is gone changes nothing, another one does.
CompareKey(s) ==
  /\ To(s, "llm", IF fresh[s].key \notin {NoKey, cfg.key} THEN "switch" ELSE "cfg")
  /\ UNCHANGED <<cfg, inForce, tools, fresh, llmClient>> /\ ReloadUnchanged

\* Daemon.cfg = newCfg copies a struct without a lock, the section of the workflows
\* before that of the LLM: the other reload may read or write between the two.
CopyWorkflows(s, from, to) ==
  /\ To(s, from, to)
  /\ cfg' = [fresh[s] EXCEPT !.key = cfg.key]
  /\ UNCHANGED <<inForce, tools, fresh, llmClient>> /\ ReloadUnchanged

CopyKey(s) ==
  /\ To(s, "switchKey", "client")
  /\ cfg' = [cfg EXCEPT !.key = fresh[s].key]
  /\ UNCHANGED <<inForce, tools, fresh, llmClient>> /\ ReloadUnchanged

\* createLLMClient makes a client of what Daemon.cfg holds by now, or none.
CreateClient(s) ==
  /\ To(s, "client", "setClient")
  /\ llmClient' = [llmClient EXCEPT ![s] = cfg.key]
  /\ UNCHANGED <<cfg, inForce, tools, fresh>> /\ ReloadUnchanged

\* SetLLMClient.
SetClient(s) ==
  /\ To(s, "setClient", "cfg")
  /\ inForce' = [inForce EXCEPT !.key = llmClient[s]]
  /\ tools' = IF llmClient[s] # NoKey THEN tools \cup {"llm"} ELSE tools \ {"llm"}
  /\ llmClient' = [llmClient EXCEPT ![s] = NoKey]
  /\ UNCHANGED <<cfg, fresh>> /\ ReloadUnchanged

EndReload(s) ==
  /\ To(s, "cfgKey", "idle")
  /\ cfg' = [cfg EXCEPT !.key = fresh[s].key]
  /\ fresh' = [fresh EXCEPT ![s] = Default]
  /\ UNCHANGED <<inForce, tools, llmClient>> /\ ReloadUnchanged

Reload(s) ==
  \/ \E f \in ConfigFiles : ReadFile(s, f)
  \/ Compare(s, "timeout", "setTimeout", "timeout", "verify")
  \/ Set(s, "setTimeout", "timeout", "verify")
  \/ Compare(s, "verify", "setVerify", "verify", "llm")
  \/ Set(s, "setVerify", "verify", "llm")
  \/ CompareKey(s)
  \/ CopyWorkflows(s, "switch", "switchKey") \/ CopyKey(s) \/ CreateClient(s) \/ SetClient(s)
  \/ CopyWorkflows(s, "cfg", "cfgKey") \/ EndReload(s)

-----------------------------------------------------------------------------
(***************************************************************************)
(* waitForShutdown and shutdown.                                           *)
(***************************************************************************)

DownUnchanged ==
  UNCHANGED <<opts, skillsOk, stopCh, reloadVars, tools, built, dismissed, requestVars>>

\* A signal, Stop, or a server that ended with an error.
Leave(why) ==
  /\ Go("serving", "shutWeb")
  /\ why = "stop" => stopCh
  /\ why = "web" => IsUp("web")
  /\ UNCHANGED <<up, spent>> /\ DownUnchanged

\* The context of shutdown runs out.
Timeout ==
  /\ stage \in Leaving /\ ~spent
  /\ spent' = TRUE
  /\ UNCHANGED <<stage, up>> /\ DownUnchanged

\* Mutated: the dashboard's Shutdown has no context that could run out.
ShutWebWaits ==
  /\ Go("shutWeb", "shutApi")
  /\ IsUp("web") => ~streams
  /\ up' = up \ {"web"}
  /\ UNCHANGED spent /\ DownUnchanged

\* Shutdown of the dashboard waits for its requests, and a stream is one that
\* ends only when the browser leaves.
ShutWeb ==
  /\ Go("shutWeb", "shutApi")
  /\ IsUp("web") => ~streams \/ spent
  /\ up' = up \ {"web"}
  /\ UNCHANGED spent /\ DownUnchanged

\* Shutdown of the API: the listener is closed first, then requests are waited for.
CloseApi ==
  /\ stage = "shutApi" /\ IsUp("api")
  /\ up' = up \ {"api"}
  /\ UNCHANGED <<stage, spent>> /\ DownUnchanged

\* Mutated: it does not wait.
ShutApiNow ==
  /\ Go("shutApi", "stopSentinel")
  /\ ~IsUp("api")
  /\ UNCHANGED <<up, spent>> /\ DownUnchanged

ShutApi ==
  /\ Go("shutApi", "stopSentinel")
  /\ ~IsUp("api") /\ (~calling \/ spent)
  /\ UNCHANGED <<up, spent>> /\ DownUnchanged

\* Sentinel.Stop cancels the context of the sentinel and does not wait for it.
StopSentinel ==
  /\ Go("stopSentinel", "stopEngine")
  /\ dismissed' = IsUp("sentinel")
  /\ UNCHANGED <<opts, skillsOk, up, stopCh, reloadVars, tools, built, requestVars, spent>>

\* Its goroutine ends when it comes to see that (module Sentinel), be it after Run
\* has returned.
SentinelReturns ==
  /\ dismissed /\ IsUp("sentinel")
  /\ up' = up \ {"sentinel"}
  /\ UNCHANGED <<stage, spent>> /\ DownUnchanged

\* Engine.Stop; the workflows are gone.
StopEngine ==
  /\ Go("stopEngine", "closeRegistry")
  /\ up' = up \ {"engine"}
  /\ built' = [w \in {} |-> {}]
  /\ UNCHANGED <<opts, skillsOk, stopCh, reloadVars, tools, dismissed, requestVars, spent>>

CloseRegistry ==
  /\ Go("closeRegistry", "closeNats")
  /\ up' = up \ {"registry"}
  /\ UNCHANGED spent /\ DownUnchanged

CloseNats ==
  /\ Go("closeNats", "ended")
  /\ up' = up \ {"nats", "reload"}
  /\ UNCHANGED spent /\ DownUnchanged

Shutdown ==
  \/ ShutWeb \/ CloseApi \/ ShutApi \/ StopSentinel \/ StopEngine \/ CloseRegistry \/ CloseNats

-----------------------------------------------------------------------------
DaemonNext ==
  \/ Startup \/ Shutdown \/ SentinelReturns \/ Timeout \/ Stop
  \/ Stream \/ BeginCall \/ ReloadWorkflows
  \/ \E why \in {"signal", "stop", "api", "web"} : Leave(why)
  \/ \E s \in Subjects : Reload(s)
  \/ \E w \in Scripts : Reloaded(w)

DaemonSpec == DaemonInit /\ [][DaemonNext]_daemonVars

-----------------------------------------------------------------------------
(***************************************************************************)
(* Properties.                                                             *)
(***************************************************************************)

\* The engine runs with the settings the daemon believes it gave it.
Agree ==
  /\ inForce.timeout = cfg.timeout /\ inForce.verify = cfg.verify
  /\ cfg.key # NoKey => inForce.key = cfg.key

Idle == \A s \in Subjects : at[s] = "idle"

\* As long as no two reloads overlapped, engine and daemon agree between reloads.  A
\* reload compares the file with the daemon's own copy and not with the engine: if
\* the copy ever ran ahead, the setting could never be applied again.
Applied == Enabled("engine") /\ Idle /\ lone => Agree

\* sekiactl config reload: "By default, broadcasts to all agents and the daemon", and
\* "--target" reloads the daemon alone; "Apply reloadable settings" says reloadConfig:
\* when no reload is under way, what was read last is in force, however many came.
AppliedAlways == Enabled("engine") /\ Idle => Agree

\* The NATS connection outlives what uses it: when it is closed, nothing that was
\* waited for is left, and a request is in progress only if it had five seconds to end.
\* What may be left is the watcher, and a sentinel that was told to end, or that a
\* start that failed forgot; what such a sentinel still publishes reaches nobody.
Orderly ==
  ~IsUp("nats") =>
    /\ up \subseteq {"watcher", "sentinel"}
    /\ IsUp("sentinel") => dismissed \/ stage = "failed"
    /\ ~calling \/ spent

\* Stop ends the daemon, even if a browser never leaves the event stream, a request
\* hangs or a reload is under way.
StopEnds == []<>(stopCh => stage \in {"ended", "failed"})

\* README: "conv:reply(text)" and "sekia.skill(name)" work in workflows: once the
\* daemon serves, every workflow can talk to the conversation store.
Equipped == stage = "serving" => \A w \in DOMAIN built : "conversations" \in built[w]
=============================================================================
