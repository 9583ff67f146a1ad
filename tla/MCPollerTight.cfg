CONSTANTS
  Items = {1, 2, 3, 4, 5, 6}
  RepoOf <- MCRepoOf
  Kind <- MCKind
  LabelsOf <- MCLabelsOf
  Configs <- TightConfigs
  PageCap = 6
  OldestFirst = FALSE
  Second = 1
  Start = 6
  Histories <- OneHistory
  MaxTime = 0
SPECIFICATION PollerSpec
INVARIANT AllConsumed
