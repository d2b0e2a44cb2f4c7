SPECIFICATION Spec
SYMMETRY Interchangeable
CONSTANTS
  n1 = n1
  n2 = n2
  t1 = t1
  t2 = t2
  k1 = k1
  k2 = k2
  s1 = s1
  s2 = s2
  c1 = c1
  c2 = c2
  Capacity = 14
  Keys = {k1}
  NoKey = NoKey
  TrustIDs = {"a"}
  NoTrust = NoTrust
  MaxRetired = 2
  MaxOverlap = 3
  Nodes = {n1}
  Tokens = {t1}
  Digests = {"p"}
  NoDigest = NoDigest
  TTLs = {1}
  MaxNodes = 2
  MaxTasks = 2
  MaxPending = 2
  Fresh = 1
  Gap = 1
  Users = {}
  NoUser = NoUser
  Sessions = {}
  Sources = {}
  MaxUsers = 2
  MaxSessions = 2
  MaxOwned = 1
  Idle = 1
  Lifetime = 2
  AdminSkew = 1
  LoginWindow = 2
  GlobalLimit = 4
  SourceLimit = 3
  NameLimit = 2
  MaxBuckets = 4
  Clients = {}
  TrustSets = {}
  Down = Down
  NoToken = NoToken
  Backups = FALSE
  MigrationEvents = 4
  Rollback = 1
  MaxWait = 0
  MaxTime = 3
  MaxGen = 3
INVARIANTS
  ReservationExact
  ObligationsPayable
  NoOrphanedTask
PROPERTIES
  TerminalFinal
