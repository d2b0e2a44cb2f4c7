SPECIFICATION LiveSpec
CONSTANTS
  e1 = e1
  e1x = e1x
  e2 = e2
  e3 = e3
  e4 = e4
  open = open
  closed = closed
  PendingLimit = 2
  NoEnvelope = NoEnvelope
  NoPolicy = NoPolicy
  Reqs = {1, 2}
  Envelopes = {e1, e2}
  Policies = {open}
  Task <- MCTask
  Pol <- MCPol
  Windows <- MCWindows
  Capacity = 6
  MaxRecords = 2
  MaxClockSkew = 1
  Retention = 2
  Minute = 1
  Second = 1
  MaxTime = 3
PROPERTIES InterruptedResolved ResultsDelivered
