SPECIFICATION LiveSpec
CHECK_DEADLOCK FALSE
\* Two tasks that last for a second, and a node that may be disabled.
CONSTANTS
  Capacity = 100
  Keys = {"k", "l"}
  NoKey = NoKey
  TrustIDs = {"a"}
  NoTrust = NoTrust
  MaxRetired = 2
  MaxOverlap = 4
  Nodes = {"n"}
  Tokens = {}
  Digests = {"p"}
  NoDigest = NoDigest
  TTLs = {1}
  MaxNodes = 1
  MaxTasks = 2
  MaxPending = 2
  Fresh = 10
  Gap = 1
  Node = "n"
  Key = "k"
  Disabling = TRUE
  MaxTime = 2
  \* Two listeners with a handler each.
  Servers = {"probes", "admin"}
  MaxActive = 1
INVARIANTS
  BothEndsAgree
PROPERTIES
  OutcomesReported
  QueueServed
  OrderlyEnd
