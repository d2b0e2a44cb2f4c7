------------------------------ MODULE Dispatch ------------------------------
(***************************************************************************)
(* The server's node registry and task queue: the transactions of          *)
(* internal/state/state.go, tasks.go and signers.go as operators on the    *)
(* database d.  XOK(d, ...) says that X commits, X(d, ...) is the database *)
(* it commits.  Where a failure for want of audit capacity is told apart   *)
(* from others, XAllowed is the part of XOK that is not about capacity.    *)
(*                                                                         *)
(* Simplifications.  A node has one enrollment epoch in its life, so its   *)
(* name stands for both; its certificates are not part of this module, and *)
(* a caller is the node its authorized certificate names.  A task's kind   *)
(* and parameters play no part, its result is the pair of its status and   *)
(* policy digest.  Task request IDs are numbered in the order of the       *)
(* sequence column.                                                        *)
(***************************************************************************)
EXTENDS Audit, Signers

CONSTANTS
    Nodes,         \* agent IDs that identity.New may draw
    Tokens,        \* enrollment tokens that RandomID may draw
    Digests,       \* policy digests
    NoDigest,
    TTLs,          \* lifetimes, in seconds, of tasks and of tokens
    MaxNodes,      \* state.MaxNodes, also the limit of pending tokens
    MaxTasks,      \* state.MaxStoredTasks
    MaxPending,    \* the ten queued or dispatched tasks a node may have
    Fresh,         \* the five minutes a ready heartbeat is good for
    Gap            \* the five seconds between two heartbeats

ASSUME DispatchSets ==
    /\ IsFiniteSet(Nodes) /\ "none" \notin Nodes /\ NoDigest \notin Digests
    /\ TTLs \subseteq Nat \ {0}
ASSUME DispatchLimits ==
    MaxNodes \in Nat /\ MaxTasks \in Nat /\ MaxPending \in Nat
    /\ Fresh \in Nat /\ Gap \in Nat

Reqs == 1 .. MaxTasks

NodeRow == [state : {"none", "enabled", "disabled"},
            received : Nat,                    \* received_at, 0 if never
            policy : Digests \cup {NoDigest},  \* of the last heartbeat
            ready : BOOLEAN]                   \* task_state = 'ready'

TokenRow == [state : {"none", "pending", "consumed"}, expires : Nat]
NoTokenRow == [state |-> "none", expires |-> 0]

\* What a probe may report.
Statuses == {"succeeded", "failed", "rejected", "expired", "indeterminate"}
Result == [status : Statuses, policy : Digests]
NoResult == [status |-> "none", policy |-> NoDigest]

TaskRow == [state : {"none", "queued", "dispatched"} \cup Statuses,
            node : Nodes \cup {"none"}, policy : Digests \cup {NoDigest},
            created : Nat, expires : Nat,
            env : Envelope \cup {NoEnvelope},
            result : Result \cup {NoResult}]

NoNode == [state |-> "none", received |-> 0, policy |-> NoDigest, ready |-> FALSE]
NoTask == [state |-> "none", node |-> "none", policy |-> NoDigest,
           created |-> 0, expires |-> 0, env |-> NoEnvelope, result |-> NoResult]

Enabled(d) == {n \in Nodes : d.nodes[n].state = "enabled"}
Queued(d) == {r \in Reqs : d.tasks[r].state = "queued"}
Dispatched(d) == {r \in Reqs : d.tasks[r].state = "dispatched"}
Of(d, n) == {r \in Reqs : d.tasks[r].node = n}

-----------------------------------------------------------------------------
(* Enrollment.                                                             *)

\* issueTokenTx clears the table of used and expired tokens first.
Swept(d, t) ==
    [d EXCEPT !.tokens = [k \in Tokens |->
        IF d.tokens[k].state = "consumed" \/ d.tokens[k].expires <= t
        THEN NoTokenRow ELSE d.tokens[k]]]

IssueAllowed(d, t) ==
    Cardinality({l \in Tokens : Swept(d, t).tokens[l].state # "none"}) < MaxNodes

IssueToken(d, k, ttl, t) ==
    Appended([Swept(d, t) EXCEPT
                !.tokens[k] = [state |-> "pending", expires |-> t + ttl]], 0)

\* RegisterFrom, for the fresh identity n.
RegisterOK(d, k, n, t) ==
    /\ d.tokens[k].state = "pending" /\ d.tokens[k].expires > t
    /\ Cardinality({m \in Nodes : d.nodes[m].state # "none"}) < MaxNodes
    /\ d.nodes[n].state = "none"
    /\ CanAppend(d, 1)

Register(d, k, n) ==
    Appended([d EXCEPT !.tokens[k].state = "consumed",
                       !.nodes[n].state = "enabled"], 1)

-----------------------------------------------------------------------------
(* Heartbeats and disablement.                                             *)

HeartbeatOK(d, n, t) ==
    d.nodes[n].state = "enabled" /\ t - d.nodes[n].received >= Gap

Heartbeat(d, n, p, ready, t) ==
    [d EXCEPT !.nodes[n].received = t, !.nodes[n].policy = p,
              !.nodes[n].ready = ready]

\* Every row of R gets the state.
Closed(d, R, state) ==
    [d EXCEPT !.tasks = [r \in Reqs |->
        IF r \in R THEN [d.tasks[r] EXCEPT !.state = state] ELSE d.tasks[r]]]

\* Faulty: dispatched tasks are left for a result that can no longer come.
QueuedOnlyCancel(d, n) ==
    LET q == Queued(d) \cap Of(d, n)
    IN  AppendedEach(Closed(d, q, "rejected"), Cardinality(q), -2)

\* cancelNodeTasks.
CancelOK(d, n) ==
    LET q == Queued(d) \cap Of(d, n)
        s == Dispatched(d) \cap Of(d, n)
    IN  /\ CanAppendEach(d, Cardinality(q), -2)
        /\ CanAppendEach(AppendedEach(d, Cardinality(q), -2), Cardinality(s), -1)

Cancel(d, n) ==
    LET q == Queued(d) \cap Of(d, n)
        s == Dispatched(d) \cap Of(d, n)
    IN  AppendedEach(
          AppendedEach(Closed(Closed(d, q, "rejected"), s, "indeterminate"),
                       Cardinality(q), -2),
          Cardinality(s), -1)

\* disableTx; disabling a second time only leaves an event.
DisableOK(d, n) ==
    IF d.nodes[n].state = "enabled"
    THEN CancelOK(d, n) /\ CanAppend(Cancel(d, n), -1)
    ELSE d.nodes[n].state = "disabled" /\ CanAppend(d, 0)

Disable(d, n) ==
    IF d.nodes[n].state = "enabled"
    THEN Appended([Cancel(d, n) EXCEPT !.nodes[n].state = "disabled"], -1)
    ELSE Appended(d, 0)

-----------------------------------------------------------------------------
(* The task queue.                                                         *)

\* Faulty: a task that was handed out is closed when it expires.
OpenOverdue(d, n, t) ==
    {r \in (Queued(d) \cup Dispatched(d)) \cap Of(d, n) : d.tasks[r].expires <= t}

\* expireTasks: queued tasks only; a dispatched task keeps its reserved event
\* for a late result.
Overdue(d, n, t) ==
    {r \in Queued(d) \cap Of(d, n) : d.tasks[r].expires <= t}

ExpireOK(d, n, t) == CanAppendEach(d, Cardinality(Overdue(d, n, t)), -2)

Expire(d, n, t) ==
    AppendedEach(Closed(d, Overdue(d, n, t), "expired"),
                 Cardinality(Overdue(d, n, t)), -2)

\* enqueueTx: r is the next value of the sequence column.
NewTask(d, n, ttl, t) ==
    [NoTask EXCEPT !.state = "queued", !.node = n, !.created = t,
                   !.expires = t + ttl, !.policy = d.nodes[n].policy]

EnqueueAllowed(d, r, n, ttl, t) ==
    /\ d.nodes[n].state = "enabled"
    /\ d.nodes[n].policy # NoDigest /\ d.nodes[n].ready
    /\ d.nodes[n].received >= t - Fresh
    /\ d.key # NoKey /\ ~d.paused
    /\ ExpireOK(d, n, t)
    /\ d.tasks[r].state = "none"
    /\ \A q \in 1 .. r - 1 : d.tasks[q].state # "none"
    /\ LET e == Expire(d, n, t)
       IN  Cardinality((Queued(e) \cup Dispatched(e)) \cap Of(e, n)) < MaxPending
    /\ d.trust # NoTrust => CheckTrust(d.trust, d.key, NewTask(d, n, ttl, t), t)

\* Faulty: only one of the two events to come is provided for.
HalfReservedEnqueue(d, r, n, ttl, t) ==
    Appended([Expire(d, n, t) EXCEPT !.tasks[r] = NewTask(d, n, ttl, t)], 1)

Enqueue(d, r, n, ttl, t) ==
    Appended([Expire(d, n, t) EXCEPT !.tasks[r] = NewTask(d, n, ttl, t)], 2)

EnqueueOK(d, r, n, ttl, t) ==
    EnqueueAllowed(d, r, n, ttl, t) /\ CanAppend(Expire(d, n, t), 2)

\* Faulty: an overdue task is still the head of the queue.
EndlessDeliverable(d, n, t) == (Queued(d) \cup Dispatched(d)) \cap Of(d, n)

\* The task a poll of node n is about: the oldest that has not run out.
Deliverable(d, n, t) ==
    {r \in (Queued(d) \cup Dispatched(d)) \cap Of(d, n) : d.tasks[r].expires > t}

Oldest(d, n, t, r) ==
    r \in Deliverable(d, n, t) /\ \A q \in Deliverable(d, n, t) : r <= q

\* Store.Poll of a process that holds key k.
PollOK(d, n, k, t) ==
    d.nodes[n].state = "enabled" /\ d.key = k /\ k # NoKey

\* Faulty: a task that was handed out is signed again.
ResignOK(d, r, t) ==
    /\ d.trust # NoTrust => CheckTrust(d.trust, d.key, d.tasks[r], t)
    /\ CanAppend(d, -1)

\* A queued task is signed and committed before it is handed out ...
SignOK(d, r, t) ==
    /\ d.tasks[r].state = "queued"
    /\ d.trust # NoTrust => CheckTrust(d.trust, d.key, d.tasks[r], t)
    /\ CanAppend(d, -1)

\* Faulty: always signs in the first format.
LegacySign(d, r) ==
    Appended([d EXCEPT !.tasks[r].state = "dispatched",
                       !.tasks[r].env = [key |-> d.key, set |-> NoTrust]], -1)

Sign(d, r) ==
    Appended([d EXCEPT !.tasks[r].state = "dispatched",
                       !.tasks[r].env =
                          [key |-> d.key,
                           set |-> IF d.trust = NoTrust THEN NoTrust ELSE d.trust.id]],
             -1)

\* ... a dispatched one is handed out again as it is, if it still verifies.
ResendOK(d, r, t) ==
    /\ d.tasks[r].state = "dispatched"
    /\ IF d.trust = NoTrust THEN d.tasks[r].env = [key |-> d.key, set |-> NoTrust]
                            ELSE Verifies(d.trust, d.tasks[r], t)

\* Faulty: a result is taken for any task that has none yet.
LateSubmitOK(d, n, r, v) ==
    /\ d.nodes[n].state = "enabled" /\ d.tasks[r].node = n
    /\ v.status \notin {"rejected", "expired"} => v.policy = d.tasks[r].policy
    /\ d.tasks[r].result \in {v, NoResult}
    /\ d.tasks[r].result = NoResult => CanAppend(d, -1)

\* SubmitResult: first the checks, then the same result again or a new one.
SubmitOK(d, n, r, v) ==
    /\ d.nodes[n].state = "enabled" /\ d.tasks[r].node = n
    /\ v.status \notin {"rejected", "expired"} => v.policy = d.tasks[r].policy
    /\ \/ d.tasks[r].result = v
       \/ /\ d.tasks[r].result = NoResult /\ d.tasks[r].state = "dispatched"
          /\ CanAppend(d, -1)

Submit(d, r, v) ==
    IF d.tasks[r].result = v THEN d
    ELSE Appended([d EXCEPT !.tasks[r].state = v.status,
                            !.tasks[r].result = v], -1)

-----------------------------------------------------------------------------
(* Signers.                                                                *)

\* ConfigureSigner, at the start of a server process with key k.
ConfigureOK(d, k) == d.key = k \/ (d.key = NoKey /\ CanAppend(d, 0))
Configure(d, k) ==
    IF d.key = k THEN d ELSE Appended([d EXCEPT !.key = k], 0)

\* PauseDispatch.
InWindow(s, k, t) == k \in Active(s) /\ s.keys[k].from <= t /\ t < s.keys[k].until

PauseOK(d, paused, t) ==
    d.paused # paused =>
        /\ ~paused /\ d.trust # NoTrust => InWindow(d.trust, d.key, t)
        /\ CanAppend(d, 0)

Pause(d, paused) ==
    IF d.paused = paused THEN d ELSE Appended([d EXCEPT !.paused = paused], 0)

\* Faulty: live envelopes are not looked at.
BlindInstallOK(d, s, t) ==
    /\ d.paused /\ d.trust # s
    /\ MayFollow(d.trust, d.key, s) /\ d.key \in Active(s)
    /\ CanAppend(d, 0)

\* InstallSignerTrust of a trust set that differs from the current one, given
\* with the digest of the current one.
InstallOK(d, s, t) ==
    /\ d.paused /\ Verify(d) /\ d.trust # s
    /\ MayFollow(d.trust, d.key, s) /\ d.key \in Active(s)
    /\ \A r \in Dispatched(d) :
          d.tasks[r].expires > t => Verifies(s, d.tasks[r], t)
    /\ CanAppend(d, 0)

Install(d, s) == Appended([d EXCEPT !.trust = s], 0)

\* SwitchSigner to a key other than the selected one.
SwitchOK(d, k, t) ==
    /\ d.paused /\ d.trust # NoTrust /\ d.key # k
    /\ InWindow(d.trust, k, t)
    /\ Queued(d) = {}
    /\ CanAppend(d, 0)

Switch(d, k) == Appended([d EXCEPT !.key = k], 0)

\* CancelQueuedForSignerChange.
CancelQueuedOK(d) == d.paused /\ CanAppendEach(d, Cardinality(Queued(d)), -2)

CancelQueued(d) ==
    AppendedEach(Closed(d, Queued(d), "rejected"), Cardinality(Queued(d)), -2)
=============================================================================
