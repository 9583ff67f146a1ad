------------------------------- MODULE Sekiad -------------------------------
(***************************************************************************)
(* The parts of the daemon sekiad besides the engine, checked in one run:  *)
(* its life (Daemon), hot reload (Loader), the conversation store          *)
(* (Conversation), the registry and the agents' side of it (Registry), the *)
(* event feed of the dashboard (Dashboard) and the sentinel (Sentinel).    *)
(* What they exchange is in each module an action of its environment; they *)
(* share no state, so a behaviour is that of one part, while the others    *)
(* stay where they start.                                                  *)
(***************************************************************************)
EXTENDS Daemon, Loader, Conversation, Registry, Dashboard, Sentinel

VARIABLE part  \* the part that runs

otherThanDaemon == <<loaderVars, conversationVars, registryVars, dashboardVars, sentinelVars>>
otherThanLoader == <<daemonVars, conversationVars, registryVars, dashboardVars, sentinelVars>>
otherThanConversation == <<daemonVars, loaderVars, registryVars, dashboardVars, sentinelVars>>
otherThanRegistry == <<daemonVars, loaderVars, conversationVars, dashboardVars, sentinelVars>>
otherThanDashboard == <<daemonVars, loaderVars, conversationVars, registryVars, sentinelVars>>
otherThanSentinel == <<daemonVars, loaderVars, conversationVars, registryVars, dashboardVars>>
sekiadVars == <<part, daemonVars, otherThanDaemon>>

Parts == {"daemon", "loader", "conversation", "registry", "dashboard", "sentinel"}

SekiadTypeOK ==
  /\ part \in Parts
  /\ DaemonTypeOK /\ LoaderTypeOK /\ ConversationTypeOK
  /\ RegistryTypeOK /\ DashboardTypeOK /\ SentinelTypeOK

\* A part that does not run starts in one of its initial states, always the same.
Still ==
  /\ part # "daemon" =>
       /\ opts = {} /\ skillsOk = TRUE /\ cfg = Default
  /\ part # "loader" => verify = FALSE
  /\ part # "conversation" => on = CHOOSE f \in [Workflows -> Keys] : TRUE

SekiadInit ==
  /\ part \in Parts
  /\ DaemonInit /\ LoaderInit /\ ConversationInit
  /\ RegistryInit /\ DashboardInit /\ SentinelInit
  /\ Still

DaemonPart == part = "daemon" /\ DaemonNext /\ UNCHANGED <<part, otherThanDaemon>>
LoaderPart == part = "loader" /\ LoaderNext /\ UNCHANGED <<part, otherThanLoader>>
ConversationPart ==
  part = "conversation" /\ ConversationNext /\ UNCHANGED <<part, otherThanConversation>>
RegistryPart == part = "registry" /\ RegistryNext /\ UNCHANGED <<part, otherThanRegistry>>
DashboardPart == part = "dashboard" /\ DashboardNext /\ UNCHANGED <<part, otherThanDashboard>>
SentinelPart == part = "sentinel" /\ SentinelNext /\ UNCHANGED <<part, otherThanSentinel>>

SekiadNext ==
  \/ DaemonPart \/ LoaderPart \/ ConversationPart
  \/ RegistryPart \/ DashboardPart \/ SentinelPart

SekiadSpec == SekiadInit /\ [][SekiadNext]_sekiadVars

-----------------------------------------------------------------------------
(***************************************************************************)
(* Fairness: that of each part, when it runs.                              *)
(***************************************************************************)

DaemonFairness ==
  /\ WF_daemonVars(part = "daemon" /\ Startup)
  /\ WF_daemonVars(part = "daemon" /\ (Shutdown \/ Leave("stop")))
  /\ WF_daemonVars(part = "daemon" /\ Timeout)

LoaderFairness ==
  /\ WF_loaderVars(part = "loader" /\ Notice)
  /\ WF_loaderVars(part = "loader" /\ StartWatcher)
  /\ WF_loaderVars(part = "loader" /\ \E g \in Flushers : Fire(g))
  /\ \A g \in Goroutines : WF_loaderVars(part = "loader" /\ Work(g))

ConversationFairness ==
  /\ WF_conversationVars(part = "conversation" /\ Minute)
  /\ WF_conversationVars(part = "conversation" /\ Cleanup)
  /\ \A w \in Workflows :
       /\ WF_conversationVars(part = "conversation" /\ Read(w))
       /\ WF_conversationVars(part = "conversation" /\ (Answer(w) \/ LLMFails(w)))

\* The NATS client reconnects and the ticker of the heartbeats goes on; messages
\* that reached the server are handled.
RegistryFairness ==
  \A p \in Procs :
    /\ WF_registryVars(part = "registry" /\ Beat(p))
    /\ WF_registryVars(part = "registry" /\ Reconnect(p))
    /\ WF_registryVars(part = "registry" /\ HandleRegistration(p))
    /\ WF_registryVars(part = "registry" /\ HandleHeartbeat(p))

\* Select chooses at random among what is ready: it takes the done context some time.
SentinelFairness ==
  /\ WF_sentinelVars(part = "sentinel" /\ CheckStep)
  /\ SF_sentinelVars(part = "sentinel" /\ End)

SekiadFairSpec ==
  /\ SekiadSpec
  /\ DaemonFairness /\ LoaderFairness /\ ConversationFairness
  /\ RegistryFairness /\ SentinelFairness

=============================================================================
