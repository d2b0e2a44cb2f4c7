SPECIFICATION Spec
SYMMETRY Interchangeable
CONSTANTS
  n1 = n1
  n2 = n2
  t1 = t1
  t2 = t2
  k1 = k1
  k2 = k2
  s1 = s1
  s2 = s2
  c1 = c1
  c2 = c2
  Capacity = 15
  Keys = {k1}
  NoKey = NoKey
  TrustIDs = {"a"}
  NoTrust = NoTrust
  MaxRetired = 2
  MaxOverlap = 3
  Nodes = {n1}
  Tokens = {t1}
  Digests = {"p"}
  NoDigest = NoDigest
  TTLs = {1}
  MaxNodes = 2
  MaxTasks = 1
  MaxPending = 2
  Fresh = 2
  Gap = 1
  Users = {"ann"}
  NoUser = NoUser
  Sessions = {s1}
  Sources = {"peer"}
  MaxUsers = 2
  MaxSessions = 2
  MaxOwned = 1
  Idle = 2
  Lifetime = 1
  AdminSkew = 1
  LoginWindow = 1
  GlobalLimit = 1
  SourceLimit = 1
  NameLimit = 1
  MaxBuckets = 4
  Clients = {c1, c2}
  TrustSets = {}
  Down = Down
  NoToken = NoToken
  Backups = FALSE
  MigrationEvents = 4
  Rollback = 0
  MaxWait = 1
  MaxTime = 2
  MaxGen = 2
INVARIANTS
  ReservationExact
  SessionsCurrent
