------------------------------ MODULE MCAgents ------------------------------
(* Instances of Agents.                                                      *)
EXTENDS Agents
CONSTANTS k1, k2, q0, q1, c1, c2, c3, c4, p1, p2, m1, o1, x1, h1

\* Poller: two pull requests, an issue and a comment in the first repository, an
\* issue in the second; room for everything in each mode, and little room.
MCRepoOf == <<1, 2, 1, 1, 1>>
MCKind == <<"issue", "issue", "pr", "pr", "comment">>
MCLabelsOf == <<{1, 2}, {2}, {1, 2}, {1}, {}>>
Setting(perTick, repos, labels, matchPRs) ==
  [perTick |-> perTick, repos |-> repos, labels |-> labels, matchPRs |-> matchPRs]
MCConfigs ==
  {Setting(10, 2, 0, FALSE), Setting(10, 2, 2, FALSE), Setting(10, 2, 1, TRUE),
   Setting(1, 1, 0, TRUE), Setting(2, 1, 0, FALSE)}
AllThere == [i \in Items |-> i]
MCHistories == {AllThere, [AllThere EXCEPT ![1] = 0, ![5] = 0]}

\* GitHubAgent: two commands approve the same pull request.
MCApproveOf == (c1 :> p1) @@ (c2 :> p1) @@ (c3 :> p2) @@ (c4 :> None)

\* AgentCommands: an agent of each kind, one of them started with another
\* configuration, one with a service switched off.
Agent(name, named, tokens, services) ==
  [agent |-> name, named |-> named, tokens |-> tokens, services |-> services]
MCSetups ==
  {Agent("slack", TRUE, TRUE, {}), Agent("linear", FALSE, FALSE, {}),
   Agent("google", FALSE, TRUE, {"gmail"}), Agent("github", FALSE, TRUE, {})}
GitHubSetup == {Agent("github", FALSE, TRUE, {})}
Content(s, q) == [secret |-> s, poll |-> q]
MCConfigFiles == {Content(k1, q1), Content(k2, q0), Nothing, BadRef}

\* SlackSocket: a message, one of the bot, an interaction, and the hello.
MCType == (m1 :> "message") @@ (o1 :> "own") @@ (x1 :> "actions") @@ (h1 :> "hello")
=============================================================================
