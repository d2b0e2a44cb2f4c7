------------------------------- MODULE Probe -------------------------------
(***************************************************************************)
(* The probe: the worker that polls for signed tasks, decides each one     *)
(* against the local policy, runs the accepted ones and delivers their     *)
(* results, together with its durable state probe.db (internal/probe), its *)
(* loop (internal/agent.RunTasks) and the local operator's audit reader.   *)
(*                                                                         *)
(* db is the database.  A transaction is a chain of the operators Clock,   *)
(* Policy, Prune, Insert, Finish and Appended, each of which takes a       *)
(* database and gives the next one: committing is db' = the end of the     *)
(* chain, rolling back is UNCHANGED db.                                    *)
(*                                                                         *)
(* Simplifications.  A digest is the thing it is the digest of: a payload  *)
(* is its envelope, a policy digest its policy.  All results have the same *)
(* size, so that PendingBytes is a number of results.  Wall-clock time is  *)
(* a small integer that the machine's owner may set forward or back at any *)
(* moment.  There is one enrollment epoch.  Signer trust is constant while *)
(* the worker runs (it is loaded at start).                                *)
(***************************************************************************)
EXTENDS Audit, FiniteSets

CONSTANTS
    Reqs,            \* request ids, ordered as the database orders them
    Envelopes,       \* envelopes the network may deliver
    NoEnvelope,
    Task,            \* what each envelope holds once decoded
    Policies,        \* contents the policy file may have
    NoPolicy,        \* the digest '' of a database no policy was seen by
    Pol,             \* what each policy says
    MaxRecords,      \* probe.MaxRecords
    MaxClockSkew,    \* protocol.MaxClockSkew
    Retention,       \* the 86400 seconds of capacity()
    Windows,         \* validity windows of the locally trusted task keys
    Minute,          \* the two windows of the rate limits
    Second,
    MaxTime          \* bound of the model: the last wall-clock second

TaskRecord ==
    [req : Reqs,             \* RequestID
     signed : BOOLEAN,       \* signature, structure and target are good
     created : Int,          \* CreatedAt
     expires : Int,          \* ExpiresAt
     key : Windows,          \* the window of the key that signed it
     policy : Policies,      \* PolicyDigest the sender signed
     kind : STRING,
     resource : STRING]      \* "" for a kind without resource

PolicyRecord ==
    [paused : BOOLEAN, kinds : SUBSET STRING, resources : SUBSET STRING,
     perMinute : Nat, burst : Nat, pending : Nat]

ASSUME ReqsAssumption == Reqs \subseteq Nat /\ IsFiniteSet(Reqs)
ASSUME EnvelopesAssumption ==
    NoEnvelope \notin Envelopes /\ \A e \in Envelopes : Task[e] \in TaskRecord
ASSUME WindowsAssumption == Windows \subseteq [from : Int, until : Int]
ASSUME PoliciesAssumption ==
    NoPolicy \notin Policies /\ \A p \in Policies : Pol[p] \in PolicyRecord
ASSUME LimitsAssumption ==
    /\ MaxRecords \in Nat /\ MaxClockSkew \in Nat /\ Retention \in Nat
    /\ Minute \in Nat /\ Second \in Nat /\ MaxTime \in Nat \ {0}
    /\ Capacity > 0
\* A row outlives the windows of the rate limits (60 and 1 of 86400 seconds),
\* also when the clock is behind by what is tolerated.
ASSUME RetentionAssumption ==
    Minute + MaxClockSkew <= Retention /\ Second + MaxClockSkew <= Retention

VARIABLES
    now,      \* the wall clock of the probe's machine
    file,     \* the policy file
    db,       \* probe.db
    pc,       \* what the worker process is doing
    mode,     \* RunTasks' mode of this cycle
    env,      \* the envelope Process works on
    snap,     \* the policy Process loaded for it
    runs,     \* history: how often the collector started, by request
    startAt   \* history: when each request was accepted, 0 if never

worker == <<pc, mode, env, snap>>
history == <<runs, startAt>>
vars == <<now, file, db, worker, history>>

-----------------------------------------------------------------------------
(* The rows of table executions.  State "none" is the absence of a row.    *)

Final == {"succeeded", "failed", "rejected", "expired", "indeterminate"}

Row == [state : {"none", "running"} \cup Final,
        env : Envelopes \cup {NoEnvelope},
        policy : Policies \cup {NoPolicy},
        acc : Nat,                         \* accepted_ms and started_at
        executed : BOOLEAN,
        delivered : BOOLEAN]

NoRow == [state |-> "none", env |-> NoEnvelope, policy |-> NoPolicy,
          acc |-> 0, executed |-> FALSE, delivered |-> FALSE]

DB == [high : Nat, blocked : BOOLEAN, policy : Policies \cup {NoPolicy},
       exec : [Reqs -> Row],
       decided : SUBSET Reqs,  \* the unique index audit_execution_decision
       seq : Nat, reserved : Nat]

Rows(d) == {r \in Reqs : d.exec[r].state # "none"}
RunningRows(d) == {r \in Reqs : d.exec[r].state = "running"}

\* The outbox: results that wait for the server's acknowledgment.
Undelivered(d) ==
    {r \in Reqs : d.exec[r].state \in Final /\ ~d.exec[r].delivered}

-----------------------------------------------------------------------------
(* Parts of transactions.                                                  *)

\* Faulty: correcting the clock lifts the block.
UnlatchedClock(d, t) ==
    IF t < d.high - MaxClockSkew
    THEN [d EXCEPT !.blocked = TRUE]
    ELSE [d EXCEPT !.blocked = FALSE, !.high = IF t > @ THEN t ELSE @]

\* Faulty: remembers the last second instead of the highest.
LastClock(d, t) ==
    IF d.blocked THEN d
    ELSE [d EXCEPT !.blocked = t < d.high - MaxClockSkew, !.high = t]

\* State.clock: latch a rollback, else remember the highest second.
Clock(d, t) ==
    IF d.blocked
    THEN d
    ELSE IF t < d.high - MaxClockSkew
         THEN LET b == [d EXCEPT !.blocked = TRUE]
              IN  IF Used(d) < Capacity THEN Appended(b, 0) ELSE b
         ELSE [d EXCEPT !.high = IF t > @ THEN t ELSE @]

\* State.policy: a policy not seen last is recorded by an event.
PolicyOK(d, p) == d.policy = p \/ CanAppend(d, 0)

Policy(d, p) ==
    IF d.policy = p THEN d ELSE [Appended(d, 0) EXCEPT !.policy = p]

\* capacity(), first half: rows whose result was acknowledged go away a
\* retention period after their task expired.
Prune(d, t) ==
    [d EXCEPT !.exec = [r \in Reqs |->
        IF /\ d.exec[r].delivered
           /\ d.exec[r].state \notin {"running", "indeterminate"}
           /\ Task[d.exec[r].env].expires < t - Retention
        THEN NoRow ELSE d.exec[r]]]

\* capacity(), second half.
HasCapacity(d, p) ==
    /\ Cardinality(Rows(d)) < MaxRecords
    /\ Cardinality(Undelivered(d)) + 1 <= Pol[p].pending
    /\ Used(d) + 2 <= Capacity

\* Faulty: finished tasks do not count.
RunningRecent(d, window) ==
    {r \in Reqs : d.exec[r].executed /\ d.exec[r].acc > now - window
                  /\ d.exec[r].state = "running"}

\* Executions that count against a rate limit at this moment.
Recent(d, window) ==
    {r \in Reqs : d.exec[r].executed /\ d.exec[r].acc > now - window}

\* Policy.Allows and Policy.AllowsResource.
Allows(p, t) == ~Pol[p].paused /\ t.kind \in Pol[p].kinds

AllowsResource(p, t) == t.resource = "" \/ t.resource \in Pol[p].resources

\* Faulty: an allowed kind of task may name any resource.
AnyResourceDecide(d, p, t) ==
    CASE now >= t.expires -> "expired"
      [] OTHER ->
         IF \/ now < t.created - MaxClockSkew
            \/ t.policy # p
            \/ ~Allows(p, t)
            \/ Cardinality(Recent(d, Minute)) >= Pol[p].perMinute
            \/ Cardinality(Recent(d, Second)) >= Pol[p].burst
         THEN "rejected" ELSE "running"

\* The switch of prepare: the state a new row starts in.
Decide(d, p, t) ==
    CASE now >= t.expires -> "expired"
      [] OTHER ->
         IF \/ now < t.created - MaxClockSkew              \* future
            \/ t.policy # p                                \* policy_mismatch
            \/ Pol[p].paused                               \* paused
            \/ ~Allows(p, t)                               \* task_disabled
            \/ ~AllowsResource(p, t)                       \* resource_denied
            \/ Cardinality(Recent(d, Minute)) >= Pol[p].perMinute
            \/ Cardinality(Recent(d, Second)) >= Pol[p].burst
         THEN "rejected" ELSE "running"

\* Faulty: without the unique index.
UnindexedInsertOK(d, e, state) ==
    CanAppend(d, IF state = "running" THEN 1 ELSE 0)

\* The insert of prepare and its event.  The event of a request that was
\* decided before breaks the unique index and fails the transaction, also
\* when the row itself has been pruned.
InsertOK(d, e, state) ==
    /\ Task[e].req \notin d.decided
    /\ CanAppend(d, IF state = "running" THEN 1 ELSE 0)

\* Faulty: reserves no slot for the outcome.
UnreservedInsert(d, e, p, state) ==
    LET row == [state |-> state, env |-> e, policy |-> p, acc |-> now,
                executed |-> state = "running", delivered |-> FALSE]
    IN  [Appended(d, 0)
         EXCEPT !.exec[Task[e].req] = row, !.decided = @ \cup {Task[e].req}]

Insert(d, e, p, state) ==
    LET row == [state |-> state, env |-> e, policy |-> p, acc |-> now,
                executed |-> state = "running", delivered |-> FALSE]
    IN  [Appended(d, IF state = "running" THEN 1 ELSE 0)
         EXCEPT !.exec[Task[e].req] = row, !.decided = @ \cup {Task[e].req}]

\* finishTx: only a running row can be finished, and its slot is spent.
FinishOK(d, r) == d.exec[r].state = "running" /\ CanAppend(d, -1)

Finish(d, r, state) == [Appended(d, -1) EXCEPT !.exec[r].state = state]

\* State.Pending: the oldest undelivered result, if there is one.
Pending(d) ==
    {r \in Undelivered(d) :
        \A s \in Undelivered(d) :
            \/ d.exec[r].acc < d.exec[s].acc
            \/ d.exec[r].acc = d.exec[s].acc /\ r <= s}

\* CheckTask: the clock and the task lie in the window of the signing key.
CheckTask(t) ==
    /\ t.key.from <= now /\ now < t.key.until
    /\ t.key.from <= t.created /\ t.expires <= t.key.until

-----------------------------------------------------------------------------
(* The worker process.  pc is "down" when no process runs, "degraded" when *)
(* it runs without task state (RunTasks with s = nil), otherwise a point   *)
(* of the loop of RunTasks or of Engine.Process.                           *)

PCs == {"down", "degraded", "cycle", "flush", "poll", "loaded", "accepted",
        "collecting", "submitting"}

Init ==
    /\ now \in 1..MaxTime
    /\ file \in Policies
    /\ db = [high |-> now, blocked |-> FALSE, policy |-> NoPolicy,
             exec |-> [r \in Reqs |-> NoRow], decided |-> {},
             seq |-> 1, reserved |-> 0]
    /\ pc = "down" /\ mode = "blocked" /\ env = NoEnvelope /\ snap = NoPolicy
    /\ runs = [r \in Reqs |-> 0] /\ startAt = [r \in Reqs |-> 0]

\* A new cycle, or a process that has gone: nothing in hand.
Idle(where) ==
    /\ pc' = where
    /\ mode' = "blocked" /\ env' = NoEnvelope /\ snap' = NoPolicy

\* The task in hand moves on.
Step(from, to) == pc = from /\ pc' = to /\ UNCHANGED <<mode, env, snap>>

\* The worker does not read or write anything but its database.
Inside == UNCHANGED <<now, file>>

\* Faulty: leaves the interrupted row as it is.
Unrecovered(d) == d

\* recover: the row a dead process left behind becomes indeterminate.
Recovered(d) ==
    IF RunningRows(d) = {} THEN d
    ELSE Finish(d, CHOOSE r \in RunningRows(d) : TRUE, "indeterminate")

\* open fails, and the agent goes on without task state, when the clock is
\* blocked, the audit head is bad or reservations and rows disagree.
Open ==
    /\ pc = "down"
    /\ LET d == Clock(db, now)
           consistent == /\ d.reserved = Cardinality(RunningRows(d))
                         /\ d.reserved <= 1
                         /\ \A r \in RunningRows(d) : FinishOK(d, r)
       IN  IF Verify(db) /\ ~d.blocked /\ consistent
           THEN Idle("cycle") /\ db' = Recovered(d)
           ELSE /\ Idle("degraded")
                /\ db' = IF Verify(db) /\ d.blocked THEN d ELSE db
    /\ Inside /\ UNCHANGED history

\* The process stops, at any point.
Crash ==
    /\ pc # "down"
    /\ Idle("down")
    /\ Inside /\ UNCHANGED <<db, history>>

-----------------------------------------------------------------------------
(* RunTasks.                                                               *)

ActiveKey == \E w \in Windows : w.from <= now /\ now < w.until

\* What a transaction has done when it is about to decide something new.
Cleaned(p) == Prune(Policy(Clock(db, now), p), now)

\* Ready and prepare refuse for the same reasons.
Available(p) ==
    /\ PolicyOK(Clock(db, now), p)
    /\ HasCapacity(Cleaned(p), p)
    /\ RunningRows(Cleaned(p)) = {}

\* Every cycle loads the policy file and asks whether the state is ready.
Checked(db1, mode1) ==
    /\ pc = "cycle"
    /\ pc' = "flush" /\ db' = db1 /\ mode' = mode1
    /\ Inside /\ UNCHANGED <<env, snap, history>>

ReadySucceeds ==
    /\ ActiveKey /\ ~Clock(db, now).blocked /\ Available(file)
    /\ Checked(Cleaned(file), IF Pol[file].paused THEN "paused" ELSE "ready")

\* The latch is committed.
ReadyClock ==
    /\ ActiveKey /\ Clock(db, now).blocked
    /\ Checked(Clock(db, now), "blocked")

\* Any other error rolls back.
ReadyFails ==
    /\ \/ ~ActiveKey
       \/ ~Clock(db, now).blocked /\ ~Available(file)
    /\ Checked(db, "blocked")

\* Acknowledge: the acknowledgment names the digest of the result that was
\* sent, so it marks that result and no other.
Acknowledged(d, r) == [d EXCEPT !.exec[r].delivered = TRUE]

\* Faulty: only a ready worker flushes.
ReadyFlush ==
    /\ pc = "flush"
    /\ IF mode = "ready"
       THEN /\ \/ Pending(db) = {} /\ UNCHANGED db
               \/ \E r \in Pending(db) : db' = Acknowledged(db, r)
            /\ Step("flush", "poll")
       ELSE UNCHANGED db /\ Idle("cycle")
    /\ Inside /\ UNCHANGED history

\* flush submits the oldest stored result, whatever the mode; after it only
\* a ready worker polls.
Flush ==
    /\ pc = "flush"
    /\ \/ Pending(db) = {} /\ UNCHANGED db
       \/ \E r \in Pending(db) : db' = Acknowledged(db, r)
    /\ IF mode = "ready" THEN Step("flush", "poll") ELSE Idle("cycle")
    /\ Inside /\ UNCHANGED history

\* A heartbeat or submission that fails ends the cycle; so does a poll that
\* fails or brings nothing.
NetworkFails ==
    /\ pc \in {"flush", "poll", "submitting"}
    /\ Idle("cycle")
    /\ Inside /\ UNCHANGED <<db, history>>

\* An envelope that fails verification is audited and dropped.  When the
\* log is full the event is not written; the cycle ends either way.
ReceiveInvalid(e) ==
    /\ pc = "poll"
    /\ ~Task[e].signed \/ ~CheckTask(Task[e])
    /\ db' = IF CanAppend(db, 0) THEN Appended(db, 0) ELSE db
    /\ Idle("cycle")
    /\ Inside /\ UNCHANGED history

\* Process loads the policy again once the envelope has been verified.
Receive(e) ==
    /\ pc = "poll"
    /\ Task[e].signed /\ CheckTask(Task[e])
    /\ pc' = "loaded" /\ env' = e /\ snap' = file
    /\ Inside /\ UNCHANGED <<db, mode, history>>

-----------------------------------------------------------------------------
(* prepare: one transaction, whose outcomes are the following actions.     *)

Known == db.exec[Task[env].req]

Preparing == pc = "loaded" /\ Inside

Trusted == ~Clock(db, now).blocked /\ CheckTask(Task[env])

\* The clock went back: commit the latch, refuse the task.
PrepareClock ==
    /\ Preparing
    /\ Clock(db, now).blocked
    /\ db' = Clock(db, now)
    /\ Idle("cycle") /\ UNCHANGED history

\* The request is known with other bytes: audit the conflict.
PrepareConflict ==
    /\ Preparing /\ Trusted
    /\ Known.state # "none" /\ Known.env # env
    /\ CanAppend(Clock(db, now), 0)
    /\ db' = Appended(Clock(db, now), 0)
    /\ Idle("cycle") /\ UNCHANGED history

\* The request is known and finished: its stored result is sent again.
PrepareCached ==
    /\ Preparing /\ Trusted
    /\ Known.env = env /\ Known.state \in Final
    /\ db' = Clock(db, now)
    /\ Step("loaded", "submitting") /\ UNCHANGED history

\* Nothing stands in the way of deciding on a new request.
Decidable == Trusted /\ Known.state = "none" /\ Available(snap)

Decision == Decide(Cleaned(snap), snap, Task[env])

PrepareAccept ==
    /\ Preparing /\ Decidable
    /\ Decision = "running"
    /\ InsertOK(Cleaned(snap), env, Decision)
    /\ db' = Insert(Cleaned(snap), env, snap, Decision)
    /\ startAt' = [startAt EXCEPT ![Task[env].req] = now]
    /\ Step("loaded", "accepted") /\ UNCHANGED runs

\* A refusal is stored and its result sent like that of any other task.
PrepareReject ==
    /\ Preparing /\ Decidable
    /\ Decision # "running"
    /\ InsertOK(Cleaned(snap), env, Decision)
    /\ db' = Insert(Cleaned(snap), env, snap, Decision)
    /\ Step("loaded", "submitting") /\ UNCHANGED history

\* Every other way through prepare returns an error and rolls back.
PrepareFails ==
    /\ Preparing /\ ~Clock(db, now).blocked
    /\ \/ ~CheckTask(Task[env])
       \/ /\ Known.state # "none" /\ Known.env # env
          /\ ~CanAppend(Clock(db, now), 0)
       \/ Known.state = "running" /\ Known.env = env
       \/ Known.state = "none" /\ ~Available(snap)
       \/ Decidable /\ ~InsertOK(Cleaned(snap), env, Decision)
    /\ Idle("cycle") /\ UNCHANGED <<db, history>>

Prepare ==
    \/ PrepareClock \/ PrepareConflict \/ PrepareCached
    \/ PrepareAccept \/ PrepareReject \/ PrepareFails

-----------------------------------------------------------------------------
(* The rest of Process.                                                    *)

\* The collector starts unless the task has expired meanwhile.
Begin ==
    /\ Step("accepted", "collecting")
    /\ now < Task[env].expires
    /\ runs' = [runs EXCEPT ![Task[env].req] = @ + 1]
    /\ Inside /\ UNCHANGED <<db, startAt>>

\* finish: the outcome is stored, whatever happened to the context.
Store(from, state) ==
    /\ Step(from, "submitting")
    /\ FinishOK(db, Task[env].req)
    /\ db' = Finish(db, Task[env].req, state)
    /\ Inside /\ UNCHANGED history

StoreExpired == Store("accepted", "expired") /\ now >= Task[env].expires

\* Failed covers the collector's errors, its deadline and result_limit.
StoreCollected ==
    \E state \in {"succeeded", "failed"} : Store("collecting", state)

\* Writing the outcome fails: the row stays running until a restart.
StoreFails ==
    /\ \/ pc = "collecting"
       \/ pc = "accepted" /\ now >= Task[env].expires
    /\ Idle("cycle")
    /\ Inside /\ UNCHANGED <<db, history>>

SubmitAck ==
    /\ pc = "submitting"
    /\ Known.state \in Final
    /\ db' = Acknowledged(db, Task[env].req)
    /\ Idle("cycle")
    /\ Inside /\ UNCHANGED history

-----------------------------------------------------------------------------
(* Around the worker.                                                      *)

\* probectl audit reads the log, at any time, and the access is an event.
ReadAudit ==
    /\ Verify(db) /\ CanAppend(db, 0)
    /\ db' = Appended(db, 0)
    /\ UNCHANGED <<now, file, worker, history>>

SetClock ==
    /\ now' \in 1..MaxTime
    /\ UNCHANGED <<file, db, worker, history>>

EditPolicy ==
    /\ file' \in Policies
    /\ UNCHANGED <<now, db, worker, history>>

Work ==
    \/ ReadySucceeds \/ ReadyClock \/ ReadyFails
    \/ Flush \/ NetworkFails
    \/ \E e \in Envelopes : Receive(e) \/ ReceiveInvalid(e)
    \/ Prepare
    \/ Begin \/ StoreExpired \/ StoreCollected \/ StoreFails \/ SubmitAck

Next == Open \/ Crash \/ Work \/ ReadAudit \/ SetClock \/ EditPolicy

Spec == Init /\ [][Next]_vars

\* The process is restarted when it is gone and keeps executing while it
\* runs; nothing obliges it to crash, the operator to act or the network to
\* deliver tasks.  A submission that is tried again and again gets through.
Fairness ==
    /\ WF_vars(Open)
    /\ WF_vars(ReadySucceeds \/ ReadyClock \/ ReadyFails)
    /\ WF_vars(Flush \/ NetworkFails) /\ SF_vars(Flush)
    /\ WF_vars(Prepare)
    /\ WF_vars(Begin \/ StoreExpired \/ StoreCollected \/ StoreFails)

LiveSpec == Spec /\ Fairness

-----------------------------------------------------------------------------
(* Properties.                                                             *)

TypeOK ==
    /\ now \in 1..MaxTime /\ file \in Policies /\ db \in DB
    /\ pc \in PCs /\ mode \in {"ready", "paused", "blocked"}
    /\ env \in Envelopes \cup {NoEnvelope}
    /\ snap \in Policies \cup {NoPolicy}
    /\ runs \in [Reqs -> Nat] /\ startAt \in [Reqs -> Nat]

\* Replay protection: whatever is delivered twice, altered under the same
\* request id, pruned, crashed over or re-clocked, Process starts the
\* collector at most once for a request id.
AtMostOnce == \A r \in Reqs : runs[r] <= 1

\* The reservations of the audit head are exactly the running rows, at most
\* one of them, and their slot really exists: recording an outcome (finish,
\* recover) is never refused for want of audit capacity, and open never
\* finds "inconsistent execution reservations".
ReservationExact ==
    /\ db.reserved = Cardinality(RunningRows(db))
    /\ db.reserved <= 1
    /\ Used(db) <= Capacity

\* While the collector runs, a durable running row, an event in the unique
\* index and the reserved slot stand for it; it works on the bytes that row
\* was accepted for, under the policy snapshot that row names, and that
\* policy is the one the signer bound and permits the task.
CollectorAuthorized ==
    pc = "collecting" =>
        LET t == Task[env]
            row == db.exec[t.req]
        IN  /\ row.state = "running" /\ row.env = env /\ t.req \in db.decided
            /\ row.policy = snap /\ t.policy = snap
            /\ t.signed /\ Allows(snap, t) /\ AllowsResource(snap, t)
            /\ startAt[t.req] < t.expires

\* The rate limits hold over every window of wall-clock time, also after
\* rows were pruned and after the clock was set back within the skew.
RateHeld ==
    \A t \in 1..MaxTime :
        LET In(window) == {r \in Reqs : /\ startAt[r] > t - window
                                        /\ startAt[r] \in 1..t}
        IN  /\ \E p \in Policies :
                  Cardinality(In(Minute)) <= Pol[p].perMinute
            /\ \E p \in Policies :
                  Cardinality(In(Second)) <= Pol[p].burst

\* A rollback beyond the skew is latched for good: from then on no request
\* is decided and no row starts to run, also after restarts and with the
\* clock set right again.
ClockLatched ==
    [][db.blocked => /\ db'.blocked
                     /\ db'.decided = db.decided
                     /\ RunningRows(db') \subseteq RunningRows(db)]_vars

\* No task is accepted further behind the last decision than the skew.
AcceptedInOrder ==
    [][\A r \in Reqs :
        startAt'[r] # startAt[r] =>
            \A s \in Reqs : db.exec[s].state # "none" =>
                startAt'[r] >= db.exec[s].acc - MaxClockSkew]_vars

\* A task that a crash interrupted does not hang: however often the process
\* dies, a later start resolves its row, unless the clock was set back.
InterruptedResolved ==
    \A r \in Reqs :
        (pc = "down" /\ r \in RunningRows(db)) ~>
            (r \notin RunningRows(db) \/ db.blocked)

\* Every stored result is delivered once the worker stays up with its task
\* state, also when Ready fails in every cycle.
ResultsDelivered ==
    <>[](pc \notin {"down", "degraded"}) =>
        \A r \in Reqs : r \in Undelivered(db) ~> r \notin Undelivered(db)

-----------------------------------------------------------------------------
(* The probe implements TaskLife.                                          *)

\* A decided request without a row has been pruned.
LifeStatus ==
    [r \in Reqs |-> IF db.exec[r].state # "none" THEN db.exec[r].state
                    ELSE IF r \in db.decided THEN "forgotten" ELSE "new"]

\* A row is pruned only when it was delivered.
LifeDelivered ==
    [r \in Reqs |-> db.exec[r].delivered \/ LifeStatus[r] = "forgotten"]

Life == INSTANCE TaskLife
            WITH status <- LifeStatus, starts <- runs,
                 delivered <- LifeDelivered

\* Seen through its rows and its decision index, all the probe does with a
\* request is what TaskLife allows.
ImplementsTaskLife == Life!Spec
=============================================================================
