------------------------------ MODULE MCPoller ------------------------------
(* Instances of Poller: items of every kind in two repositories.             *)
EXTENDS Poller

\* Three pull requests, an issue and a comment are in the first repository, and
\* another issue in the second.
MCRepoOf == <<1, 2, 1, 1, 1, 1>>
MCKind == <<"issue", "issue", "pr", "pr", "pr", "comment">>
MCLabelsOf == <<{1, 2}, {2}, {1, 2}, {1}, {}, {}>>

Setting(perTick, repos, labels, matchPRs) ==
  [perTick |-> perTick, repos |-> repos, labels |-> labels, matchPRs |-> matchPRs]

\* Less room than there are items, as with the default of 100 on a busy day.
TightConfigs == {Setting(2, 1, 0, FALSE)}

\* Items were changed in the order of their numbers.
OneHistory == {[i \in Items |-> i]}
=============================================================================
