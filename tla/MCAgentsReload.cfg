CONSTANTS
  Items = {1, 2, 3, 4, 5}
  RepoOf <- MCRepoOf
  Kind <- MCKind
  LabelsOf <- MCLabelsOf
  Configs <- MCConfigs
  PageCap = 5
  OldestFirst = TRUE
  Second = 3
  Start = 7
  Histories <- MCHistories
  MaxTime = 2
  c1 = c1
  c2 = c2
  c3 = c3
  c4 = c4
  p1 = p1
  p2 = p2
  Commands = {c1, c2, c3, c4}
  PRs = {p1, p2}
  ApproveOf <- MCApproveOf
  None = None
  Cap = 2
  k1 = k1
  k2 = k2
  q0 = q0
  q1 = q1
  Setups <- GitHubSetup
  NoSecret = NoSecret
  Secrets = {NoSecret, k1, k2}
  DefaultPoll = q0
  Polls = {q0, q1}
  ConfigFiles <- MCConfigFiles
  Nothing = Nothing
  BadRef = BadRef
  Garbled = Garbled
  Unsettled = Unsettled
  MaxSent = 1
  MaxEdits = 2
  MaxFields = 1
  m1 = m1
  o1 = o1
  x1 = x1
  h1 = h1
  Envelopes = {m1, o1, x1, h1}
  Type <- MCType
  Actions = 2
  Buffer = 2
  MaxDeliveries = 2
  Callers = {g1, g2}
  Free = Free
  Torn = Torn
  MaxCallbacks = 3
  MaxTokens = 3
SPECIFICATION AgentsSpec
INVARIANT HotReload
CHECK_DEADLOCK FALSE
