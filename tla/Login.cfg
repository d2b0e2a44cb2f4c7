SPECIFICATION SpecT
SYMMETRY Interchangeable
\* Three windows in six seconds, and a wait of one.  No account exists: every name is
\* unknown, and counted all the same.
CONSTANTS
  n1 = n1
  n2 = n2
  t1 = t1
  t2 = t2
  k1 = k1
  k2 = k2
  s1 = s1
  s2 = s2
  c1 = c1
  c2 = c2
  Capacity = 12
  Keys = {}
  NoKey = NoKey
  TrustIDs = {"a"}
  NoTrust = NoTrust
  MaxRetired = 2
  MaxOverlap = 3
  Nodes = {}
  Tokens = {}
  Digests = {"p"}
  NoDigest = NoDigest
  TTLs = {1}
  MaxNodes = 2
  MaxTasks = 0
  MaxPending = 2
  Fresh = 1
  Gap = 1
  Users = {"ann", "bob"}
  NoUser = NoUser
  Sessions = {}
  Sources = {"peer"}
  MaxUsers = 0
  MaxSessions = 2
  MaxOwned = 1
  Idle = 1
  Lifetime = 2
  AdminSkew = 1
  LoginWindow = 3
  GlobalLimit = 2
  SourceLimit = 2
  NameLimit = 1
  MaxBuckets = 4
  Clients = {c1}
  TrustSets = {}
  Down = Down
  NoToken = NoToken
  Backups = FALSE
  MigrationEvents = 4
  Rollback = 0
  MaxWait = 1
  MaxTime = 6
  MaxGen = 1
INVARIANTS
  LoginBudget
