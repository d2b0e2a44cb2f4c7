SPECIFICATION Spec
CHECK_DEADLOCK FALSE
CONSTANTS
  None = None
  \* Two keys, one lineage of two files, one task that lives for a second.
  Capacity = 100
  SignKeys = {"k", "l"}
  Pinned = "k"
  Lineages = {"a"}
  MaxRetired = 2
  MaxOverlap = 4
  Digests = {"p"}
  TTLs = {1}
  MaxTasks = 1
  MaxPending = 2
  Fresh = 10
  Gap = 1
  MaxLife = 1
  MaxSkew = 0
  Overlaps = {2}
  Validity = {2}
  Asked = {1}
  MaxFiles = 2
  EndTime = 3
  GuideEnd = 5
  \* Two directories, two tokens and two names for a node.
  Dirs = {"e", "f"}
  Names = {"n", "m"}
  Tickets = {"t", "u"}
  MaxNames = 2
  LastTime = 2
  \* Three runs of the administrator client, two sessions.
  Runs = {"p", "q", "r"}
  Sessions = {"s", "t"}
  \* Two requests at a time, and a budget of two for three units of time.
  Callers = {"p", "q"}
  Limit = 2
  Window = 3
  Slots = 1
  MaxStale = 2
  Horizon = 6
  \* Half seconds: the gap, first delay and intervals of the code, a longest delay of twenty seconds.
  Interval = 20
  PollEvery = 10
  First = 10
  MaxDelay = 40
  MaxFailures = 3
  LeastGap = 10
  FreshFor = 40
  \* Files of up to two blocks, of which one may be read.
  Inodes = {1, 2}
  Blocks = {"a", "b"}
  MaxBytes = 1
  MaxSize = 2
  MaxEdits = 2
  MaxTick = 2
  \* One stranger on the bus; two frames nobody asked for, or changes.  An available
  \* report takes seven frames; the eighth may be another's, the ninth is refused.
  Strangers = {"x"}
  Words = {"active", None}
  MaxTotal = 8
  MaxEvents = 2
  \* A signature, a named sender and the longest body, a variant with a text, take 50 bytes.
  MaxHeader = 20
  MaxBody = 10
  MaxFrame = 50
  MaxText = 2
  \* Files of up to three lines, two directives, one in both spellings; one of each is reported.
  Profiles <- SmallProfiles
  Directives = {"challengeresponseauthentication", "kbdinteractiveauthentication", "permitrootlogin"}
  KeyLimit = 1
  DirectiveLimit = 1
  LineLimit = 3
  LastClock = 2
INVARIANTS
  InFlightSurvives
  EnrollmentWhole
  SessionKept
  SpanBounded
  HeartbeatsResume
  AuditComplete
  SnapshotRead
  FrameChecked
  ServiceReported
PROPERTIES
  RetiredDecidesNothing
