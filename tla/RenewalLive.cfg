SPECIFICATION LiveSpec
CONSTANTS
  d1 = d1
  d2 = d2
  d3 = d3
  Dirs = {d1}
  NoDir = NoDir
  MaxGenerations = 2
  Issuers <- MCIssuers
  MinAge = 1
  Overlap = 2
  Margin = 0
  MaxTime = 3
  MaxSent = 2
  Capacity = 3
PROPERTIES
  RetryCompletes
