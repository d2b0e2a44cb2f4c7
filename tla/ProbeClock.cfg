SPECIFICATION SeenSpec
CONSTANTS
  e1 = e1
  e1x = e1x
  e2 = e2
  e3 = e3
  e4 = e4
  open = open
  closed = closed
  PendingLimit = 1
  NoEnvelope = NoEnvelope
  NoPolicy = NoPolicy
  Reqs = {1, 2}
  Envelopes = {e1, e1x, e2, e3, e4}
  Policies = {open, closed}
  Task <- MCTask
  Pol <- MCPol
  Windows <- MCWindows
  Capacity = 6
  MaxRecords = 2
  MaxClockSkew = 1
  Retention = 2
  Minute = 1
  Second = 1
  MaxTime = 5
PROPERTIES RollbackNeverAccepted
