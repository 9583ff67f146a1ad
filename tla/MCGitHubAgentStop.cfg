CONSTANTS
  c1 = c1
  c2 = c2
  c3 = c3
  c4 = c4
  p1 = p1
  p2 = p2
  Commands = {c1, c2, c3, c4}
  PRs = {p1, p2}
  ApproveOf <- MCApproveOf
  None = None
  Cap = 2
SPECIFICATION GitHubSpec
INVARIANT ShutdownDrains
