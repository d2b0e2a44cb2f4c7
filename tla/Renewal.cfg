SPECIFICATION Spec
SYMMETRY AnyDirectory
CONSTANTS
  d1 = d1
  d2 = d2
  d3 = d3
  Dirs = {d1, d2, d3}
  NoDir = NoDir
  MaxGenerations = 3
  Issuers <- MCIssuers
  MinAge = 1
  Overlap = 2
  Margin = 0
  MaxTime = 3
  MaxSent = 1
  Capacity = 4
INVARIANTS
  AtMostTwoUsable
  LinearHistory
  OverlapBounded
  LostAnswerRetrievable
  StagedAsRecorded
