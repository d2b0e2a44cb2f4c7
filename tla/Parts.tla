-------------------------------- MODULE Parts -------------------------------
(***************************************************************************)
(* The parts of the system that share no state with each other, on small   *)
(* instances.  A behaviour is about one of them, whose variables take the  *)
(* first of x1 to x15; the others stay None.                               *)
(***************************************************************************)
CONSTANTS
    None,        \* a value unlike any other
    Capacity, SignKeys, Pinned,   \* a change of the signing key, see Rotation
    Lineages, MaxRetired, MaxOverlap, Digests, TTLs, MaxTasks, MaxPending, Fresh,
    Gap, MaxLife, MaxSkew, Overlaps, Validity, Asked, MaxFiles, EndTime, GuideEnd,
    Dirs, Names, Tickets,         \* enrollment, see Enrollment
    MaxNames, LastTime,
    Runs,        \* runs of the administrator client
    Sessions,    \* its sessions
    Callers, Limit, Window,       \* requests, see Admission
    Slots, MaxStale, Horizon,
    Interval, PollEvery, First,   \* the delays of a probe, see Telemetry
    MaxDelay, MaxFailures, LeastGap, FreshFor,
    Inodes, Blocks, MaxBytes,     \* files that are read, see SafeRead
    MaxSize, MaxEdits, MaxTick,
    Strangers, Words, MaxTotal,   \* the bus of a query, see Service
    MaxEvents,
    MaxHeader, MaxBody,           \* a frame, see BusFrame
    MaxFrame, MaxText,
    Profiles, Directives,         \* an SSH audit, see SSHAudit
    KeyLimit, DirectiveLimit, LineLimit, LastClock

VARIABLES part, x1, x2, x3, x4, x5, x6, x7, x8, x9, x10, x11, x12, x13, x14, x15

\* A change of the signing key, in any order and by the guide.
U == INSTANCE Rotation
       WITH now <- x1, d <- x2, held <- x3, files <- x4, q <- x5, dead <- x6,
            guided <- x7,
            Keys <- SignKeys, NoKey <- None, TrustIDs <- Lineages, NoTrust <- None,
            Nodes <- {"n"}, Node <- "n", Tokens <- {}, NoDigest <- None, MaxNodes <- 1,
            MaxTime <- EndTime, GuideTime <- GuideEnd

\* Enrollment, before there are tasks.
E == INSTANCE Enrollment
       WITH now <- x1, d <- x2, pinned <- x3, wire <- x4, answer <- x5,
            run <- x6, disk <- x7,
            Keys <- {}, NoKey <- None, TrustIDs <- {}, NoTrust <- None,
            Nodes <- Names, Tokens <- Tickets, NoDigest <- None, MaxNodes <- MaxNames,
            MaxTasks <- 0, NoDir <- None, NoToken <- None, MaxTime <- LastTime

C == INSTANCE Console
       WITH file <- x1, written <- x2, live <- x3, made <- x4, proc <- x5,
            kept <- x6, lost <- x7,
            Procs <- Runs, NoSession <- None

A == INSTANCE Admission
       WITH early <- x1, now <- x2, window <- x3, count <- x4, used <- x5,
            req <- x6, counted <- x7,
            Reqs <- Callers, MaxTime <- Horizon

T == INSTANCE Telemetry
       WITH mode <- x1, up <- x2, good <- x3, wait <- x4, due <- x5,
            failures <- x6, age <- x7, refused <- x8,
            Poll <- PollEvery, Gap <- LeastGap, Fresh <- FreshFor

H == INSTANCE SSHAudit
       WITH phase <- x1, lines <- x2, f <- x3, matched <- x4, seen <- x5,
            files <- x6, started <- x7, observed <- x8, finished <- x9,
            outcome <- x10, kinds <- x11,
            Names <- Directives, MaxClock <- LastClock

F == INSTANCE SafeRead
       WITH clock <- x1, path <- x2, file <- x3, edits <- x4, pc <- x5,
            fd <- x6, before <- x7, data <- x8, code <- x9, varied <- x10,
            settled <- x11

\* Frames of a size at which each of the limits is met.
B == INSTANCE BusFrame
       WITH owner <- x1, hlen <- x2, blen <- x3, size <- x4, pc <- x5,
            pos <- x6, lim <- x7, field <- x8, done <- x9, sender <- x10,
            sig <- x11, last <- x12, seen <- x13, verdict <- x14

\* A query of a service; None stands for the words that are no state.
S == INSTANCE Service
       WITH holder <- x1, unit <- x2, wire <- x3, events <- x4, pc <- x5,
            sent <- x6, serial <- x7, asked <- x8, cand <- x9, owner <- x10,
            total <- x11, closed <- x12, values <- x13, code <- x14, was <- x15,
            Others <- Strangers, NoWord <- None

ASSUME PartsAssumption ==
    /\ U!RotationAssumption /\ E!EnrollmentAssumption
    /\ C!ConsoleAssumption /\ A!AdmissionAssumption /\ T!TelemetryAssumption
    /\ H!SSHAuditAssumption /\ F!SafeReadAssumption
    /\ B!BusFrameAssumption /\ S!ServiceAssumption

\* One file of directives, and two of keys.
SmallProfiles == {<<"sshd_config">>, <<"authorized_keys", "authorized_keys">>}

-----------------------------------------------------------------------------
\* The variables beyond the first seven, eight, ...
above11 == <<x12, x13, x14, x15>>
above8 == <<x9, x10, x11, above11>>
above7 == <<x8, above8>>
vars == <<part, x1, x2, x3, x4, x5, x6, x7, above7>>

None11 == x12 = None /\ x13 = None /\ x14 = None /\ x15 = None
None8 == x9 = None /\ x10 = None /\ x11 = None /\ None11
None7 == x8 = None /\ None8

Init ==
    \/ part = "rotation" /\ U!Init /\ None7
    \/ part = "enrollment" /\ E!Init /\ None7
    \/ part = "console" /\ C!Init /\ None7
    \/ part = "admission" /\ A!Init /\ None7
    \/ part = "telemetry" /\ T!Init /\ None8
    \/ part = "audit" /\ H!Init /\ None11
    \/ part = "read" /\ F!Init /\ None11
    \/ part = "frame" /\ B!Init /\ x15 = None
    \/ part = "service" /\ S!Init

Rotate == part = "rotation" /\ U!Next /\ UNCHANGED <<part, above7>>
Enroll == part = "enrollment" /\ E!Next /\ UNCHANGED <<part, above7>>
Administer == part = "console" /\ C!Next /\ UNCHANGED <<part, above7>>
Admit == part = "admission" /\ A!Next /\ UNCHANGED <<part, above7>>
Beat == part = "telemetry" /\ T!Next /\ UNCHANGED <<part, above8>>
AuditFiles == part = "audit" /\ H!Next /\ UNCHANGED <<part, above11>>
Read == part = "read" /\ F!Next /\ UNCHANGED <<part, above11>>
CheckFrame == part = "frame" /\ B!Next /\ UNCHANGED <<part, x15>>
Query == part = "service" /\ S!Next /\ UNCHANGED part

Next ==
    \/ Rotate \/ Enroll \/ Administer \/ Admit \/ Beat
    \/ AuditFiles \/ Read \/ CheckFrame \/ Query

Spec == Init /\ [][Next]_vars

-----------------------------------------------------------------------------
(* Properties.                                                             *)

(***************************************************************************)
(* A change of the signing key loses nothing: whatever is migrated or      *)
(* replaced in whatever order, a worker that executes tasks does so under  *)
(* the trust its replay state is bound to, each change of the binding is   *)
(* one event, and results decided under a retired key are still taken.     *)
(* When the guide is followed, a running probe also accepts, in every      *)
(* phase, what the server still delivers (MigrateTrust and open in         *)
(* internal/probe, Poll and SubmitResult in internal/state/tasks.go).      *)
(***************************************************************************)
InFlightSurvives ==
    part = "rotation" => /\ U!TypeOK /\ U!WorkerBound /\ U!OneEventEach
                         /\ U!ResultsAcceptable /\ U!LiveAccepted

(***************************************************************************)
(* A key that a binding of the probe ever retired decides nothing again,   *)
(* in whatever order files are staged, migrated, restored and re-migrated, *)
(* also for envelopes it signed before (MigrateTrust in                    *)
(* internal/probe/trust.go).                                               *)
(***************************************************************************)
RetiredDecidesNothing == [][part = "rotation" => U!NotByRetired]_vars

(***************************************************************************)
(* An enrollment that is interrupted, repeated or answered late leaves no  *)
(* half of an identity: the key is durable before the server knows its     *)
(* node, the completion marker comes last, a token makes one identity, and *)
(* what Enroll reports is so (internal/agent/enrollment.go).               *)
(***************************************************************************)
EnrollmentWhole ==
    part = "enrollment" =>
        /\ E!TypeOK /\ E!KeyBeforeNode /\ E!MarkerComplete
        /\ E!ReportTrue /\ E!OneIdentityEach

(***************************************************************************)
(* A session that a login reported stays at hand while the server accepts  *)
(* it, whatever overlapping runs of the client do, fail to do or leave     *)
(* behind.  Two limits: forget was given; or another run loaded the file   *)
(* of a login before it was synced, one of the two removed it, and the     *)
(* other then removed by its name the file of a later login                *)
(* (internal/adminclient).                                                 *)
(***************************************************************************)
SessionKept == part = "console" => C!TypeOK /\ C!KeptAtHand

(***************************************************************************)
(* No span of the length of a window lets more than twice the budget of    *)
(* requests pass, or three times where the clock is read before the lock   *)
(* (the handlers of internal/enrollment and internal/management).          *)
(***************************************************************************)
SpanBounded == part = "admission" => A!TypeOK /\ A!SpanBounded

(***************************************************************************)
(* After any outage a probe is fresh again within the longest delay, and   *)
(* the server's gap refuses it at most twice in a row (internal/agent).    *)
(***************************************************************************)
HeartbeatsResume ==
    part = "telemetry" => T!TypeOK /\ T!RefusedTwice /\ T!FreshAgain

(***************************************************************************)
(* An SSH audit makes of any files a report that its own validation takes, *)
(* names every gap, and gives for a directive the line sshd goes by        *)
(* (internal/sshaudit).                                                    *)
(***************************************************************************)
AuditComplete ==
    part = "audit" => H!TypeOK /\ H!CollectedValid /\ H!GapsNamed /\ H!FirstGlobal

(***************************************************************************)
(* What is read of a file while others write, replace and truncate it is   *)
(* one state of it, as far as its metadata can tell (internal/saferead).   *)
(***************************************************************************)
SnapshotRead == part = "read" => F!TypeOK /\ F!Snapshot

(***************************************************************************)
(* A D-Bus frame that the guard passes on was checked to its last byte     *)
(* without a read out of bounds, and names a permitted sender              *)
(* (internal/service/guard.go).                                            *)
(***************************************************************************)
FrameChecked ==
    part = "frame" => B!TypeOK /\ B!InBounds /\ B!NothingUnseen /\ B!SenderNamed

(***************************************************************************)
(* What a service query reports was so at a moment of the query, whoever   *)
(* else sends frames or takes systemd's name (internal/service).           *)
(***************************************************************************)
ServiceReported == part = "service" => S!TypeOK /\ S!ReportTrue
=============================================================================
