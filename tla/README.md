# Argus-C2: specifications, model checking and proofs

This directory holds a verification development for Argus-C2, a small
command-and-telemetry system: one server, a probe on each managed Linux host,
and local command-line tools for operators. The TLA+ modules are translated
from the Go code under `src/`; TLC checks them on small instances and TLAPS
proves the most important properties for all instances. `PROJECT.json` lists
components, runs, mutants, the line map, hazards and theorems in machine-readable
form; this document explains them.

## 1. The system

### Parts

| Part | Code | State it keeps | Operations |
|---|---|---|---|
| Audit log | `internal/audit` | head of a bounded, hash-chained event log: events appended, slots reserved | `Append` with a reservation change, `Verify` |
| Probe state | `internal/probe/state.go` | `probe.db`: highest clock second and latched block, last policy digest, one row per request (running, final, delivered), decision index, audit head | open and recover, `Ready`, `prepare`, `finish`, `Pending`, acknowledge, prune, audit reader |
| Probe engine | `internal/probe/engine.go` | envelope and policy snapshot of the task in hand | `Process`: verify, decide, run the collector, store the outcome |
| Agent task loop | `internal/agent/tasks.go` | mode of the cycle | load policy, `Ready`, flush the outbox, poll, process, submit |
| Node registry | `internal/state/state.go` | nodes, enrollment tokens, heartbeats | issue token, enroll, heartbeat, disable; reservation check in `migrate` |
| Task queue | `internal/state/tasks.go`, `internal/server/tasks.go` | tasks: queued, dispatched, final, with the signed envelope | enqueue, poll (sign or resend), submit result, expire, cancel |
| Signer maintenance | `internal/state/signers.go`, `internal/signing` | selected key, trust set, pause flag | configure, pause, install trust, switch, cancel queue |
| Accounts and sessions | `internal/state/admin.go` | users with generations, sessions, login buckets, highest administrative second | login (two transactions around Argon2), logout, revoke, account changes |
| Management requests | `internal/state/management.go` | none of its own | `Manage`: housekeeping, authorization, one operation under a savepoint |
| Backup and quarantine | `internal/state/admin.go` | the cold copy | restore at a later time, `QuarantineRestore` |
| Certificate registry | `internal/state/certificates.go`, `internal/enrollment` | certificate generations with dates, end of overlap, revocation; recorded renewal answers | authorize, `RenewCertificate`, revoke, list |
| renew command | `internal/agent/renewal.go` | a staging directory: plan and key, certificate, answer, completion marker | prepare, request, save in three steps |
| Enrollment client | `internal/agent/enrollment.go` | staged identity files | enroll |
| Probe trust migration | `internal/probe/trust.go` | trust file and its binding in `probe.db` | `MigrateTrust` of a stopped probe |
| Agent loops' timing | `internal/agent/runner.go`, `tasks.go` | failures in a row, delays until the next heartbeat and poll | heartbeat, retry, restart |
| Administrator client | `cmd/cli`, `internal/adminclient` | the session file | login, logout, forget, cleanup after a failure |
| Request admission | `internal/enrollment`, `internal/management` | window, count and places of each handler | count, take a place, refuse |
| Server process | `cmd/server`, `internal/server/server.go` | listeners, their shutdown goroutines, the store | listen, fail, shut down, close |
| File reader | `internal/saferead` | an open descriptor between two `fstat`s | open, stat, read, compare, reopen |
| SSH audit | `internal/sshaudit`, `internal/protocol/inspection.go` | report under construction | read, parse a line, close a file, validate |
| Service query | `internal/service` | cursor over a frame; owner, serial, values of a query | take and validate frames, five calls |
| Protocol decoding, TLS, PKI tools | remaining packages | none that persists across calls | I/O, decoding, configuration |

### How they interact

The probe polls the server over mutual TLS. A poll signs the oldest queued task
of the node (or returns the stored envelope again), the probe verifies it
against its own trust file and policy, records its decision, runs a read-only
collector, stores the outcome in the outbox and submits it; the server closes
the task on a result it can bind to the stored envelope. Administrators reach
the same tables through sessions, and operators through `localctl`, which opens
the database file while the server runs. All writers append to one audit log in
the transaction of the change. Every SQLite transaction is immediate and
serialized, so transactions are the atomic steps; what interleaves is the
sequence of transactions of different actors, network messages, collector runs,
password hashing between two transactions, file writes, clock changes, crashes
and operator commands.

### What is hard

* **The bounded log.** Every change needs a free event. The obligations of a
  live row (a queued task is owed two events, a dispatched one one, an enabled
  node one, a session one) are reserved in advance, and `migrate` refuses a
  database whose counter disagrees with its rows. About thirty kinds of
  transaction move that counter.
* **Crashes of the probe** between the durable decision, the collector and the
  stored outcome, with redelivery of the same or another envelope.
* **Clocks** that are set back while replay protection, rate windows and expiry
  rest on them.
* **Lost answers**: of a poll after the envelope was signed, of a renewal after
  the certificate was issued.
* **Two-step operations** that hold something stale: policy snapshot, the
  account row read before hashing, a staged answer.
* **Long legal sequences**: trust files, backups, successive certificates.
* **Two machines, one change**: a rotation of the signing key is made of commands
  on the server and on the probe, with tasks on their way between them.
* **Shared files**: overlapping runs of the administrator client, a mapped file that is
  rewritten while it is read, an enrollment directory after a power loss.
* **Input from others**: frames of anybody on the system bus, configuration files of
  any content, judged twice by code that shares nothing.
* **Time**: retries against a minimum gap, request windows with a clock read too early,
  a shutdown that gives up on slow handlers.

The concrete list, one entry per source line with the properties that cover it,
is `hazards` in `PROJECT.json`.

### What makes each part correct

* Probe: at-most-once execution per request id; a collector runs only under a
  durable decision that the policy of that snapshot allows; rate limits; final
  rows are final evidence; a detected rollback blocks for good; interrupted
  tasks are resolved; results get delivered.
* Server: exact and payable reservations; outcomes final; one signature per
  assignment; signed envelopes stay verifiable through signer changes; retired
  keys stay retired; tokens used once and disabled nodes stay disabled, across
  restored backups; sessions rest on current authority; bounded login attempts.
* Certificates: one line of generations, at most two accepted at once, a bounded
  overlap, retrievable answers, directories that end up with what the server
  recorded.
* Server and probe together: both ends agree on every outcome; stored outcomes arrive;
  no queue stands still; a change of the signing key loses no task and revives no key.
* Enrollment and the administrator client: no half identity, no report that is untrue,
  no session that is live on the server and lost to its holder.
* Collectors: what is read is one state of the file, what is reported is what the
  validator takes and leaves no silent gap, and only systemd speaks for systemd.

## 2. Modules

    Audit ─┬─ Probe ─┬─ MCProbe ── MCProbeClock       TaskLife (abstract)
           │         └─ ProbeProofs ── ProbeLifeProofs
           ├─ Dispatch (with Signers) ─┬─ Rotation, Enrollment
           │                           ├─ Delivery ── LongRun ── DeliveryProofs
           │                           │
           ├─ Accounts ────────────────┴─ Server ─┬─ MCServer, LoginHistory ── MCLogin
           │                                      └─ ServerFacts, LoginHistory ── ServerProofs
           └─ Renewal ─┬─ MCRenewal
                       └─ RenewalProofs

    LongRun: extends Delivery; instances of Rotation, Listeners
    Parts:   instances of Rotation, Enrollment, Console, Admission, Telemetry,
             SSHAudit, SafeRead, BusFrame, Service
               ├─ PartsProofs
               └─ IdentityProofs

**Audit** — `CanAppend` and `Appended` are `audit.Append`'s capacity arithmetic
on the fields `seq` and `reserved` of a database record. The SHA-256 chain is
not modelled: only an edit of the file can break it.

**Probe** — state, engine and loop as one process. `db` is `probe.db`; a
transaction is a chain of operators on the record (`Clock`, `Policy`, `Prune`,
`Insert`, `Finish`), committing is `db' = ...`, rolling back is `UNCHANGED db`,
so a failure late in a transaction really forgets what it had done. `pc` names
the point of `RunTasks`/`Process`; `Crash` is possible at every point, `Open` runs
recovery. The environment may set the clock either way, rewrite the policy file
and deliver any envelope at any time, any number of times. History variables
`runs` and `startAt` record collector starts and acceptances.

**TaskLife** — the promise: decided once, started at most once and only when
accepted, finished once, delivered, possibly forgotten, never taken up again.
`Probe` refines it through `LifeStatus` and `LifeDelivered`, both functions of
rows and decision index.

**Signers, Dispatch, Accounts** — the server's tables and transactions as pairs
of operators: `XOK(d, ...)` is the conjunction of the code's early returns, `X(d, ...)`
the database it commits.

**Server** — composes them: processes that start and stop on a key, probes' requests,
logins in two transactions with anything in between, management requests,
`localctl` commands, backups. `restored` keeps the server from starting between
a restore and `QuarantineRestore`; that is the procedure of the recovery guide and
an assumption about the operator, not enforced by code. History: `sent`, `drawn`,
`via`, `gone`.

**LoginHistory** — `Server` with a history of the seconds at which password checks were started,
one sequence for each bucket. It constrains nothing: every step of `Server` is a step of it. A login
reads the clock (`admin.go:186`) before it waits for its first transaction: `Readings` are the
seconds that it may have read, at most `MaxWait` ago.

**Renewal** — certificate registry and issuer on one side, `renew` on the other.
A directory stands for everything drawn once when it is prepared (key pair, CSR,
renewal id). `Issue` is one transaction; the answer is heard or lost. `sent` counts
requests under way, which can outlive the process that sent them (`TimeOut`), so a
delayed request meets a retry. The three files are written by three actions with
`Abandon` between any two. `Restart` replaces the issuer. The clock of this module is
shared by both machines and does not run backwards; the registry holds one node,
since no query reads another node's rows.

**Rotation** — a change of the signing key on the server and one probe: `signctl` stage
and retire, `localctl` pause, install, switch and cancel (the operators of `Dispatch`),
`probectl trust-migrate`, replaced files and restarts, interleaved with the life of a task.
`q` is what the probe keeps: binding, file, worker and the trust it loaded, rows. In a behaviour
that is `guided` the operator takes the steps of `docs/phase-8-signer-rotation.md` in their
order; otherwise any command may come at any time. `Asked`, a bound, are the requests that
are submitted. `dead` is a history of the keys that
some binding retired.

**Delivery** — the queue of `Dispatch` and the loop of `RunTasks` over a network. A request
is lost, handled, or handled after the worker gave it up; answers are lost; the worker
dies anywhere. The probe's database is `TaskLife` itself (`Life == INSTANCE TaskLife`), which
`Probe` refines, so that the composition rests on the promise and not on its details.

**Enrollment** — `agent.Enroll` file by file. `disk[e].made` are the entries in order,
`safe` how many a power loss keeps for certain, `whole` the files whose content was
written and synced. That a power loss keeps a prefix of the entries made is an
assumption about a journalling file system.

**Console** — runs of the client over one session file. A run writes the file it opened but
removes whatever bears the name. From the write on another run may load the file, while the
sync or the close may still fail and remove it. `kept` are sessions that were reported to the
operator, `lost` those whose file was taken by a `forget`, or by a run whose own file somebody
had taken away before (§5).

**Admission** — window, count and places of a handler. `early` distinguishes the renewal
handler, which reads the clock before it asks the store, from the others. `counted` is a history
of the times at which requests were let past the budget.

**Telemetry** — delays of the two loops in units of time, with jitter as a choice between its
limits, against `Gap` and `Fresh`. `TelemetryAssumption` requires that the longest
interval and poll delay together do not exceed the freshness, which settings can break (§5),
that two retries outlast the gap, and that freshness is a few times the gap (300 against 5 seconds).

**SSHAudit** — `Collect` line by line and `Validate` as a second, independent definition. A
line is what the parser can tell of it; outcomes of reading are a choice. `kinds`, a
variable that no step changes, is the profile that the task asks for.

**SafeRead** — one read against writers, truncation, replacement, links and chown, with
the kernel's coarse time stamps.

**BusFrame** — the frame validator of the guard, one cursor step per action. Bytes are
chosen as they are read, so every frame within the bounds occurs.

**Service** — a query: five calls, the reader goroutine, changes of the unit and of the owner
of systemd's name, and strays from other connections.

**Listeners** — `runHTTP`, its shutdown goroutine, handlers, and `run` of the server's
main, which collects the listeners and closes the store.

**LongRun** and **Parts** — compositions of modules that share no state. A behaviour is about
one of them: `part`, chosen by `Init`, says which, and `Next` is the disjunction of the parts'
next-state relations, each leaving the other parts alone. Interleaving independent parts
would multiply states and add nothing to the properties, each of which reads one part.
`LongRun` keeps a set of variables per part and states fairness; `Parts` gives the
parts the same variables `x1` to `x15`. `LongRun` extends `Delivery`, so that what is proved of
that module is about the same definitions, and instantiates the others; `Parts` instantiates
all of its parts and hands its own constants, which `Parts.cfg` gives values, on to them. Only the
`Rotation` of `LongRun` is instantiated with numbers, and its operator is not `guided`. The `ASSUME`
of either module conjoins the assumptions of its parts.

Each model's header lists its simplifications. Operators whose comment begins with
"Faulty:" are the mutated forms named under `mutants`; no specification uses them.

## 3. Runs

| Run | Shows | Distinct states |
|---|---|---|
| `probe` | `AtMostOnce`, `ReservationExact`, `CollectorAuthorized`, `RateHeld`, `ClockLatched`, `AcceptedInOrder`, refinement of `TaskLife` | about 150 s |
| `probe_live` | `InterruptedResolved`, `ResultsDelivered` | seconds |
| `probe_clock` | a documented claim that fails, see §6 | counterexample |
| `server_queue` | `ReservationExact`, `ObligationsPayable`, `NoOrphanedTask`, `TerminalFinal` up to a full log | 0.2 M |
| `server_signers` | `SingleEnvelope`, `LiveEnvelopesVerify`, `RetiredForGood` through a whole signer change | 0.4 M |
| `server_restore` | `QuarantineHolds` with backups: used tokens and disabled nodes do not come back | 0.4 M |
| `server_manage` | `ReservationExact`, `SessionsCurrent` with two racing logins, every account change and management request, and tasks in the same log | 0.3 M |
| `login` | `LoginBudget` over every window, across restarts | 0.4 M |
| `renewal` | `AtMostTwoUsable`, `LinearHistory`, `OverlapBounded`, `LostAnswerRetrievable`, `StagedAsRecorded` | 1.5 M |
| `renewal_live` | `RetryCompletes` | 20 k |
| `long_run` | `BothEndsAgree`; under fairness `OutcomesReported`, `QueueServed`, `OrderlyEnd` | 0.1 M |
| `parts` | one property per part: `InFlightSurvives` and `RetiredDecidesNothing` (Rotation), `EnrollmentWhole`, `SessionKept` (Console), `SpanBounded` (Admission), `HeartbeatsResume` (Telemetry), `AuditComplete` (SSHAudit), `SnapshotRead`, `FrameChecked`, `ServiceReported` | 2.1 M |

The type invariant of a module is a conjunct of one of its properties
(`ReservationExact` of `Server`, `BothEndsAgree`, `OrderlyEnd`, the properties of `Parts`);
those of `Probe` and `Renewal` are proved (§4). The properties of `LongRun` and `Parts` are conjunctions of
named properties of the modules, which their comments explain.

### Bounds, and why they suffice

* *probe*: two request ids, five envelopes. The envelopes are chosen for the cases
  of `prepare`: a good one, another one under the same id, one with a resource, one
  with a forbidden resource, one badly signed. Two policies, one paused. Five
  seconds with skew 1, retention 2 and rate windows of 1, so that rollbacks within
  and beyond the skew, pruning and rate refusals all happen. Capacity 6 lets the log
  fill up in the middle of a task.
* *server_queue*: one node, two tasks, a log that just holds one life of the node;
  every capacity refusal occurs. The clock may step back.
* *server_signers*: two keys and four trust files (overlap, an early cut, retirement,
  an attempted revival), enough time for each window to end.
* *server_restore*: two nodes and two tokens, so that a token could be used twice.
* *server_manage*: one user, two concurrent logins (begun in different seconds, since each
  bucket lets one pass per second), two generations of the account, one task, and a log that
  just holds a submitted task beside them. A login may have read the clock one second ago.
  *login*: two users (one is enough for the budget of a name, two for the global one), windows of
  three seconds of which a login may wait one, and six seconds: one bucket then has three rows whose
  checks come within a window. The bound is reached: `3 * limit - 2` would be violated.
* *long_run*: two tasks of one second within two seconds, so that one expires before, while
  and after it is handed out, and one waits behind another; the network holds any set of
  requests. For the queue behind a cut window one task of two seconds, one trust file and seven
  seconds: staged at the start, second 3, the file ends the key's window at 6, and a task
  submitted at 5 lives until 7, so that it is queued, alive and beyond the window while dispatch is
  not paused. Two listeners with a handler each: one may hang while the other fails.
* *parts*, rotation: two keys, one trust lineage, at most two files (stage and retire), one
  task that may be anywhere on its way, three seconds; by the guide five seconds, which
  is a whole change. A second lineage, whose files a bound probe
  refuses by their id, is left out of the instance.
* *parts*, enrollment: two directories, tokens and nodes: a token presented twice and a
  node that is disabled meanwhile. Console: three runs over two sessions, so that one can
  come between the failure and the cleanup of another. Admission: a budget of two in windows
  of three units, two windows long. Telemetry: units of half a second, in which jitter can bring a
  retry within the gap, with the code's gap, first delay, and shortest interval and poll delay;
  the longest delay and the freshness are twenty seconds each instead of five minutes.
* *parts*, collectors: an audit of one configuration file or of two key files, of up to three
  lines each, with two directives, one of them in both spellings, of which one is
  reported, and one key per file, so that both limits are met; files of two blocks of
  which one may be read, two changes within two ticks; frames of up to 50 bytes, of which 20 of header
  fields and 10 of body: room for a named sender, a signature and a body with a text, a number or a
  variant; two disturbances of a query, of
  which the guard lets eight frames through, one more than an available report takes.
* *renewal*: three directories for at most three generations: a third request competes
  for a slot that revocation or expiry frees. Two issuers: one outlasts the overlap,
  one ends before it, so each argument of the minimum in `Cutoff` is the smallest
  somewhere. The migrated registry whose first row lacks its dates is an initial state.
* `Rollback = 0` in `server_signers`, `server_restore`, `server_manage` and `login`.
  For `LiveEnvelopesVerify` and `LoginBudget` this is part of the claim (both are false
  of a clock that goes back, and `LoginBudget` of a backup put back with its older buckets); in the
  others it keeps the state space small.
* `MaxWait` is 1 in `server_manage` and `login`, and 0 in the runs without logins. A login waits for
  the connection and the write lock, at most until the deadline of its handler, eight seconds
  (`internal/management/http.go:174`). `LoginBudget` supposes that the clock is not set while a
  login waits: set forward, it would count as time spent waiting.

Symmetry is declared for interchangeable nodes, tokens, sessions, clients and
directories, in runs without liveness. Deadlock is checked everywhere but in
`server_restore`, `long_run` and `parts`: a backup of a full log has no free event for the
quarantine, so nothing may follow it; and reads, audits, queries, enrollments and
the server process come to an end.

### Fairness

`Probe!LiveSpec`: a dead worker is restarted (systemd unit), a live one goes on with
the step it is at, and — strong fairness — a submission that is retried for ever is
not lost for ever. Nothing is assumed of crashes, clock, policy, or the delivery of tasks.
`ResultsDelivered` is conditional on the process staying up with its state open.

`Renewal!LiveSpec`: the operator repeats `renew request` while the directory is
incomplete, as `docs/phase-8-implementation.md` instructs; a process does not wait past
its 10 and 15 second timeouts; a request under way is answered or lost. Strong fairness
on hearing an answer and on the three saves says that crashes and losses do not strike
at the same step for ever. Nothing obliges the first issuance, expiry, or the server
to stay up.

`LongRun!LiveSpec`: time passes; the worker of Delivery goes on and is restarted when it
died; a request that is sent again and again is heard some time (strong fairness per
kind of request, since each single one may be lost). In Rotation a running worker polls, and
the operator need not do anything: `QueueServed` supposes that dispatch is in the end
not paused and the process holds the selected key. In Listeners the goroutines run and Shutdown's
timeout passes; no handler need ever end.

## 4. Proofs

TLAPS checks eight modules from nothing. No constant is bounded, and every assumption on
constants is named and weak enough that the code's values satisfy it; TLC evaluates each of
them in a run. Those that carry an argument, and not only a type, are:

* `RetentionAssumption` (`Probe`): a row outlives the windows of the rate limits and the
  tolerated skew (24 hours against 60 seconds plus 30). Pruning would otherwise forget
  acceptances that a window still counts.
* `Rollback = 0` is a hypothesis *inside* the property `LiveEnvelopesVerify`, and together with
  `~Backups` one of the theorem `LoginBudgetHolds`, see §3.
* `RotationAssumption`: the clock starts after `MaxLife + MaxSkew`, so that the start of the
  legacy key's window is a time, and `MaxTime` lies after that; the PEM file is not a trust set.
* `AdmissionAssumption`: a request that has read the clock gets to the lock within the window. The
  store call in between (`Authorize`) gives up after two seconds, the window is a minute.
* `AccountLimits`: limits and window of the login buckets are not zero.
* `WaitAssumption`: a login waits for its transaction at most a third of the login window (eight
  seconds against sixty).
* `TelemetryAssumption`: how delays, gap and freshness compare, see §2; and `Powers`, arithmetic of
  `2 ^ n` that holds whatever the constants are but that the provers do not know.
* `SafeReadAssumption`: files may be larger than what may be read of them.
* `ServiceAssumption`, `EnrollmentAssumption`: the marks "error", "none" and "refused" are not
  words of systemd or names of nodes. No such value is one in the code either.
* `SSHAuditAssumption`: who knows the older spelling of a directive knows the newer one, as
  the table of `DirectiveValue` does; a profile has one to four files.

Each invariant below was an invariant of a TLC run before it was proved.

**ProbeProofs** proves `TypeCorrect`, `AtMostOnceHolds`, `ReservationHolds`,
`AuthorizedHolds` and `LatchHolds`. The inductive invariant has two layers. `DBInv` is
about the database alone: the reserved slot exists exactly when one row runs (`Slot`),
the log has room for it, and each row holds an envelope of its own request and is backed by an
event in the decision index (`Backed`). One lemma per part of a transaction says that
the part keeps `DBInv` and which rows it can touch. `IInv` adds the worker: what it has
in hand matches a running row under the same snapshot, a started request is decided, an
accepted one has not started. `AtMostOnce` alone is not inductive: that a request cannot
be accepted again after its row was pruned needs the decision index, and that a slot is
there after a crash needs `Slot`.

**ProbeLifeProofs** proves `Refinement` (`Probe` implements `TaskLife`), `RateHolds` and
`InOrderHolds` from that invariant. Every step is one of six kinds of change of rows and
history (lemma `NextChange`), and the theorems go by these kinds. `HInv` adds that a row bears
the second of its acceptance, no later than the highest one, and that an acceptance without
a row is older than the retention (`Sound`): what `capacity` prunes lies outside every
window that can still be asked about.

**ServerFacts** and **ServerProofs** prove `ReservationExactHolds`, `ObligationsHold`,
`NoOrphanHolds`, `SingleEnvelopeHolds`, `QuarantineHolding`, `SessionsCurrentHolds`,
`LiveEnvelopesHold`, `TerminalHolds`, `RetiredHolds` and `LoginBudgetHolds`. `DBInv` is what every committed database
satisfies: sound rows, and a reservation that equals what the rows are owed, counted by
cardinalities. Within a transaction rows stay sound but slots are only balanced at its end, so
there is one lemma for each elementary change (append, close tasks, end sessions, new row) that
says what is owed afterwards, and the lemma of a transaction chains them and adds up. `IInv`
asks `DBInv` of the backup too, since it may become the database; ties the histories to the rows
(what was handed out is what its row still says; a token that enrolled is spent; a disabled
node is not enabled); and is weaker while an unquarantined copy is in place:
`QuarantineRestore` establishes it again because it leaves no node enabled and no token good.
`LoginBudgetHolds` has an invariant of its own, `TriesInv`. It bounds no cardinality but says, for
each bucket, before which time all but the last so many checks were started: the first that the row
counts came within `MaxWait` of the row's start, the first of the row before it a window less a wait
earlier, and the first of the one before that two windows. The three waits add up to less
than a window, so a window has no check of a fourth row, and lacks one of three: `3 * limit - 1`. The
budget is the length of an interval of indices, and no sum over a set is needed. A row that was
pruned leaves the same statement relative to the present second. (If logins did not wait, it would
be `2 * limit - 1`.)

**RenewalProofs** proves `TypeCorrect`, `AtMostTwoHolds`, `LinearHistoryHolds`,
`OverlapHolds`, `RetrievableHolds` and `StagedHolds`. `IInv` connects the four places a
renewal leaves traces in: `RetireInv` (an older row ends within the overlap and not after
its successor, the newest has no end), `PairInv` (of the superseded rows only the last can
still be good), `KeyInv` and `AnswerInv` (rows and recorded answers name each other, in
neighbouring generations), `HeldInv` (a process holds only a recorded answer, and saves
in order), `FileInv` (files are those of the recorded answer). `PairInv` is the heart:
it follows at each issuance from "fewer than two active", and gives both the bound of two and
that the new certificate cannot have been superseded while the old one is accepted.
It also needs that superseding a row records its dates; otherwise a migrated row could
escape the count.

**DeliveryProofs** proves `BothEndsHold`. Rows of the server move forward only; a request the
probe decided was handed out; a result on the wire is the one the probe stored; an
acknowledgment stands for a stored result. That an envelope handed out again is never one that
already ran comes from the order of the loop: nothing is undelivered or running when it polls.
The module also proves `ClosedLastHolds`, the safety half of `OrderlyEnd`: `ListenersInv` counts the
results main waits for as those in the channel and the listeners that have yet to return
(`Awaited`), and says that a listener that is not shut down had failed (`Orderly`).

**PartsProofs** proves one theorem for each of seven parts.
`SessionHolds` (Console): `ConsoleInv` says which run may still write, load or remove which file: a
run that makes a file, or has loaded one, finds it in place unless another took it away, and is then
marked (`clean`).
`SnapshotHolds` (SafeRead): `ReadInv` relates the blocks read so far to the file as it was at
the first `fstat`, as long as no change has moved a time stamp or the size since.
`ServiceHolds` (Service): `ServiceInv` says of every frame on the wire, and of every value taken, that
an answer of the verified owner was true at a moment of the query; frames of others are
told apart by their sender or serial.
`FrameHolds` (BusFrame): `FrameInv` says that the cursor and the last byte that was looked at move
together (`Walked`), that the slice at hand ends with the header fields until the sender was
checked and with the frame after it (`Slices`), and that a sender is on record only after its
field was read (`Named`).
`AuditHolds` (SSHAudit): `AuditInv` adds what a file under way can be (`Filling`, every clause of
which `ValidFile` asks for at its end) and that a Match line leaves its mark while, before it, every
directive that counts is in `seen` (`MatchMarked`); without the second, neither the silence of the
parser after a Match nor the first line of a name could be justified.
`SpanHolds` (Admission): `Spread` says of the present window and the two before it that all but their
requests were counted before they began, with `Late` added where the clock is read early; that is
why the early clock costs a third budget, and no more.
`HeartbeatsHold` (Telemetry): `Spaced` and `Backed` say that within the gap each refusal and each failure
was followed by its delay, so the third attempt is past the gap; `Reaching` that while network and
server work the next cycle is the first since they do, or comes before the last heartbeat is too
old. A refused heartbeat keeps `Reaching` because a retry at most doubles a delay that has already
passed within the gap: hence the comparison of gap and freshness.

**IdentityProofs** proves `RetiredKeysHold`, `InFlightHolds` (both Rotation) and `EnrollmentHolds`.
`BindingInv`, in any order of commands: the binding of the probe is a file of signctl or
the PEM file, carries on every key that one before it retired, and is what a running worker
loaded. `InFlightInv` adds the server: its slots are what node and open tasks are owed (`SlotsHeld`);
what was signed is open, or has the probe's result (`RowsAgree`); what is still delivered can be
handed out again (`Resendable`); and by the guide the trust of the two ends differs only while
dispatch is paused and nothing is on its way (`EndsInStep`), which is why the order of its steps matters.
`EnrollmentHolds` rests on an invariant of each directory: which entries can be there, in
which order, for each step of its run, and what a power loss may leave of them.

**Only model-checked** is liveness under fairness (`InterruptedResolved`, `ResultsDelivered`,
`RetryCompletes`, `OutcomesReported`, `QueueServed`, and the part of `OrderlyEnd` that says something
ends), which is out of the prover's reach. Every invariant and action property of a passing run is
a theorem.

## 5. Not modelled

* SHA-256, Ed25519, X.509, TLS, Argon2: assumed. Digests and signatures are the thing
  they stand for; whether a password matches is an input.
* Decoding and validation of JSON, CSR, policy and trust files: the models begin with
  decoded values, and the malformed ones are refusals.
* The sampling of host metrics, file permissions, systemd units: the engine of `Probe` sees
  a collector succeed or fail, and metrics are one read of `/proc` after another.
* Configuration of `crypto/tls` and the read-only health reports; the PKI tools, which write
  keys and certificates once.
* HTTP decoding and response bounds of the handlers; command-line parsing and output.
* Several enrollment epochs of one agent id; other nodes' certificates.

Limits that no property claims away, and that a reader should know:

* Ten dispatched tasks that are never answered stop a node until it is re-enrolled
  (documented in `docs/phase-4-implementation.md:130`); the tasks queued behind are served.
* With a certificate lifetime of one hour, the shortest accepted, a second-generation
  certificate reaches the minimum age for renewal only in the second it expires.
* A backup of a full log cannot be quarantined.
* A heartbeat interval of 300 seconds is as long as the freshness of a heartbeat, and the poll
  delay comes on top: such a probe is stale for a moment in every interval.
  `TelemetryAssumption` leaves the setting out.
* A change of a mapped file of the same size within the tick of the first `fstat` cannot be
  seen by any process; `SnapshotRead` is claimed of files that settled before.
* `forget` removes a session file without asking the server, and may then make a run that
  was about to remove its own file remove the next login's.
* Two other runs can do the same to a session file, because it can be loaded before it is synced
  and is removed by its name (`src/internal/adminclient/session.go:77`). Login p writes the file of
  session s; run q logs s out and removes it; login r saves t; p's sync fails, and its cleanup
  removes t's file. Or p writes s, q loads it for a logout, p's sync fails and removes s; r saves t;
  q's logout ends s and removes t's file. Either way t lives on the server and is not at hand any
  more. `SessionKept` leaves out these files (`lost`), and no others.
* The login buckets admit more than twice their limit in a minute when a login waits: its row starts
  at the second it read, earlier than the check, and is pruned by that much too early.
  `LoginBudget` therefore says fewer than three times.
* The comment at `src/internal/server/server.go:245` says to wait for handlers before the
  store is closed. The wait ends after the three seconds given to `Shutdown`; a handler
  that takes longer finds the store closed and its transaction rolled back.
  `OrderlyEnd` therefore claims the handlers' end only of listeners shut down in time.

Hazards without a property have a note in `PROJECT.json`.

## 6. Finding

`docs/phase-4-implementation.md:142`: "The probe persists its highest observed wall-clock
second. A rollback exceeding thirty seconds latches a task block that survives restart".
`Ready` and `prepare` raise `clock_high` first and return without commit on a later error
(for example `state.go:331`, a full outbox), so that observation is rolled back. Run
`probe_clock` shows it: second 3 is observed by a failing `Ready`, the clock returns to
1 with a skew of 1, the outbox is flushed, and a task is accepted with no block latched.
What does hold is `AcceptedInOrder`: no task is accepted further back than the skew from a
*recorded* decision, and `ClockLatched`: a latch, once set, is permanent.

## 7. Plan

Done, in the order of importance: probe core with refinement and proofs; the server's
queue, signers, accounts, management and backups; certificate renewal with proofs; server
and probe together (`Delivery`, `Rotation`); enrollment, administrator client, admission,
heartbeats; collectors and the bus guard; the server process; logins that wait for their transaction.

Proofs: of the probe, its refinement of `TaskLife`, the server with its login budget, certificate
renewal, delivery, the change of the signing key, enrollment, the administrator client, request
budgets, heartbeats, the file reader, the bus guard, the service query, the SSH audit and the end
of the server process.

Left: what §5 lists. A second lineage of trust files in the instance of `Rotation`, and a torn read
over several blocks in that of `SafeRead`, would need larger instances; the proofs cover both.

## Running

    tlc -workers 2 -config Probe.cfg MCProbe      # likewise the other .cfg files
    tlapm ProbeProofs.tla                         # likewise the other proof modules
