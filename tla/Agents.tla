------------------------------- MODULE Agents -------------------------------
(***************************************************************************)
(* The agents, checked in one run: the poller of the GitHub agent          *)
(* (Poller), how it executes and drains commands (GitHubAgent), the        *)
(* commands and configuration reloads of all agents (AgentCommands), the   *)
(* socket of the Slack agent (SlackSocket) and the token of the Google     *)
(* agent (GoogleAuth).  They run in goroutines or processes that share no  *)
(* state: a behaviour is that of one part, the others stay as they start.  *)
(***************************************************************************)
EXTENDS Poller, GitHubAgent, AgentCommands, SlackSocket, GoogleAuth

VARIABLE part  \* the part that runs

otherThanPoller == <<githubVars, commandVars, slackVars, authVars>>
otherThanGitHub == <<pollerVars, commandVars, slackVars, authVars>>
otherThanCommands == <<pollerVars, githubVars, slackVars, authVars>>
otherThanSlack == <<pollerVars, githubVars, commandVars, authVars>>
otherThanAuth == <<pollerVars, githubVars, commandVars, slackVars>>
agentsVars == <<part, pollerVars, otherThanPoller>>

Parts == {"poller", "github", "commands", "slack", "auth"}

AgentsTypeOK ==
  /\ part \in Parts
  /\ PollerTypeOK /\ GitHubTypeOK /\ CommandTypeOK /\ SlackTypeOK /\ AuthTypeOK

\* A part that does not run starts in one of its initial states, always the same.
Still ==
  /\ part # "poller" =>
       /\ config = CHOOSE c \in Configs : TRUE
       /\ updated = CHOOSE h \in Histories : TRUE
       /\ lastSync = 0
  /\ part # "commands" =>
       /\ setup = CHOOSE s \in Setups : ~s.named
       /\ file = CHOOSE f \in ConfigFiles : Loads(f)

AgentsInit ==
  /\ part \in Parts
  /\ PollerInit /\ GitHubInit /\ CommandInit /\ SlackInit /\ AuthInit
  /\ Still

PollerPart == part = "poller" /\ PollerNext /\ UNCHANGED <<part, otherThanPoller>>
GitHubPart == part = "github" /\ GitHubNext /\ UNCHANGED <<part, otherThanGitHub>>
CommandPart == part = "commands" /\ CommandNext /\ UNCHANGED <<part, otherThanCommands>>
SlackPart == part = "slack" /\ SlackNext /\ UNCHANGED <<part, otherThanSlack>>
AuthPart == part = "auth" /\ AuthNext /\ UNCHANGED <<part, otherThanAuth>>

AgentsNext == PollerPart \/ GitHubPart \/ CommandPart \/ SlackPart \/ AuthPart

AgentsSpec == AgentsInit /\ [][AgentsNext]_agentsVars

-----------------------------------------------------------------------------
(***************************************************************************)
(* Fairness: that of each part, when it runs.                              *)
(***************************************************************************)

\* The ticker ticks, and requests do not fail for ever.
PollerFairness ==
  /\ WF_pollerVars(part = "poller" /\ BeginTick)
  /\ WF_pollerVars(part = "poller" /\ EndTick)
  /\ SF_pollerVars(part = "poller" /\ Fetch)

\* Goroutines run; a request to GitHub ends after 30 seconds at the latest.
GitHubFairness ==
  /\ WF_githubVars(part = "github" /\ Enqueue)
  /\ WF_githubVars(part = "github" /\ Starting)
  /\ WF_githubVars(part = "github" /\ Stopping)
  /\ WF_githubVars(part = "github" /\ Worker)

\* The command goes on, and the wait for the callback has an end.
AuthFairness == WF_authVars(part = "auth" /\ Flow)

AgentsFairSpec == AgentsSpec /\ PollerFairness /\ GitHubFairness /\ AuthFairness
=============================================================================
