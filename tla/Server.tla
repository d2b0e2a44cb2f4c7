------------------------------- MODULE Server -------------------------------
(***************************************************************************)
(* The server: its database argus.db, the process that serves probes and   *)
(* administrators, and the local operator who works on the same database   *)
(* with localctl.  Every transaction is immediate and serialized, so each  *)
(* action is one transaction; a login is two, with the password hash       *)
(* computed between them, and a management request is one transaction that *)
(* authorizes a session and runs an operation under a savepoint.           *)
(*                                                                         *)
(* db is the database, see modules Dispatch and Accounts for its tables    *)
(* and module Audit for seq and reserved.  The server process may stop at  *)
(* any moment.  The operator may take a cold backup and put it back later, *)
(* and then follows the recovery guide: the server starts again only after *)
(* restore-quarantine.                                                     *)
(***************************************************************************)
EXTENDS Dispatch, Accounts

CONSTANTS
    Clients,       \* login requests that may be in progress at once
    TrustSets,     \* trust files the operator may install
    Down,          \* the server process is not running
    NoToken,
    Backups,       \* whether the operator takes a backup
    MigrationEvents, \* events a new database starts with
    Rollback,      \* how far one adjustment may set the clock back
    MaxWait,       \* the longest that a login waits for its transaction
    MaxTime,       \* bound of the model: the last wall-clock second
    MaxGen         \* bound of the model: account generations

ASSUME ServerAssumption ==
    /\ Down \notin Keys \cup {NoKey} /\ NoToken \notin Tokens
    /\ NoTrust \notin TrustSets /\ TrustSets \subseteq TrustSet
    /\ Backups \in BOOLEAN /\ MigrationEvents \in 0 .. Capacity
    /\ Rollback \in Nat /\ MaxWait \in Nat /\ MaxTime \in Nat \ {0} /\ MaxGen \in Nat

VARIABLES
    now,        \* the wall clock of the server's machine
    db,         \* argus.db
    proc,       \* the task key the server process holds, or Down
    login,      \* logins between their two transactions
    backup,     \* the cold copy, or the empty database
    restored,   \* the copy was put back and is not quarantined yet
    sent,       \* history: the envelopes that were handed out
    drawn,      \* history: tokens that were ever issued
    via,        \* history: the token each node was enrolled with
    gone        \* history: nodes that were ever disabled

history == <<sent, drawn, via, gone>>
vars == <<now, db, proc, login, backup, restored, history>>

DB == [nodes : [Nodes -> NodeRow], tokens : [Tokens -> TokenRow],
       tasks : [Reqs -> TaskRow],
       key : Keys \cup {NoKey}, trust : TrustSet \cup {NoTrust}, paused : BOOLEAN,
       users : [Users -> UserRow], sessions : [Sessions -> SessionRow],
       limits : [Buckets -> LimitRow], high : Nat,
       seq : Nat, reserved : Nat]

\* What migrate leaves in a new directory: four events.
EmptyDB ==
    [nodes |-> [n \in Nodes |-> NoNode],
     tokens |-> [k \in Tokens |-> NoTokenRow],
     tasks |-> [r \in Reqs |-> NoTask],
     key |-> NoKey, trust |-> NoTrust, paused |-> FALSE,
     users |-> [u \in Users |-> NoAccount],
     sessions |-> [s \in Sessions |-> NoSession],
     limits |-> [b \in Buckets |-> NoBucket], high |-> 0,
     seq |-> MigrationEvents, reserved |-> 0]

NoLogin == [stage |-> "idle", user |-> NoUser, acct |-> NoAccount]

Login == [stage : {"idle", "hashing"}, user : Users \cup {NoUser}, acct : UserRow]

Init ==
    /\ now = 1
    /\ db = EmptyDB
    /\ proc = Down
    /\ login = [c \in Clients |-> NoLogin]
    /\ backup = EmptyDB
    /\ restored = FALSE
    /\ sent = {}
    /\ drawn = {}
    /\ via = [n \in Nodes |-> NoToken]
    /\ gone = {}

\* The slots that the rows of the tables are owed, as migrate counts them.
Expected(d) ==
    Cardinality(Enabled(d)) + Cardinality(Live(d))
      + 2 * Cardinality(Queued(d)) + Cardinality(Dispatched(d))

\* Open succeeds; every localctl command and every server process begins so.
Opens(d) == Verify(d) /\ d.reserved = Expected(d)

Up == proc # Down

-----------------------------------------------------------------------------
(* Machine, process and backup.                                            *)

SetClock ==
    /\ \E t \in 1 .. MaxTime : t >= now - Rollback /\ t # now /\ now' = t
    /\ UNCHANGED <<db, proc, login, backup, restored, history>>

\* cmd/server, with or without a task key.
Start ==
    /\ ~Up /\ ~restored /\ Opens(db)
    /\ \E k \in Keys \cup {NoKey} :
          /\ proc' = k
          /\ IF k = NoKey THEN UNCHANGED db
             ELSE ConfigureOK(db, k) /\ db' = Configure(db, k)
    /\ UNCHANGED <<now, login, backup, restored, history>>

\* The process stops: orderly, killed, or with its machine.
Stop ==
    /\ Up
    /\ proc' = Down
    /\ login' = [c \in Clients |-> NoLogin]
    /\ UNCHANGED <<now, db, backup, restored, history>>

TakeBackup ==
    /\ Backups /\ ~Up /\ ~restored
    /\ backup' = db
    /\ UNCHANGED <<now, db, proc, login, restored, history>>

Restore ==
    /\ Backups /\ ~Up /\ ~restored
    /\ db' = backup
    /\ restored' = TRUE
    /\ UNCHANGED <<now, proc, login, backup, history>>

\* A transaction of localctl or of a request handler that only changes db.
Commit(d) ==
    /\ db' = d
    /\ UNCHANGED <<now, proc, login, backup, restored>>

Quiet(d) == Commit(d) /\ UNCHANGED history

\* RandomID draws a token that was never drawn before.
Draw(k) ==
    /\ k \notin drawn
    /\ drawn' = drawn \cup {k}
    /\ UNCHANGED <<sent, via, gone>>

-----------------------------------------------------------------------------
(* Probes and enrollment.                                                  *)

\* RegisterFrom: identity.New draws an ID that was never drawn before.
Enroll(k, n) ==
    /\ Up /\ via[n] = NoToken
    /\ RegisterOK(db, k, n, now)
    /\ Commit(Register(db, k, n))
    /\ via' = [via EXCEPT ![n] = k]
    /\ UNCHANGED <<sent, drawn, gone>>

SaveHeartbeat(n, p, ready) ==
    /\ Up /\ HeartbeatOK(db, n, now)
    /\ Quiet(Heartbeat(db, n, p, ready, now))

\* Poll finds nothing to deliver; overdue tasks are closed all the same.
PollNothing(n) ==
    /\ Up /\ PollOK(db, n, proc, now) /\ ~db.paused
    /\ ExpireOK(db, n, now)
    /\ Deliverable(db, n, now) = {}
    /\ Quiet(Expire(db, n, now))

PollSign(n, r) ==
    /\ Up /\ PollOK(db, n, proc, now) /\ ~db.paused
    /\ ExpireOK(db, n, now) /\ Oldest(db, n, now, r)
    /\ LET d == Expire(db, n, now)
       IN  /\ SignOK(d, r, now)
           /\ Commit(Sign(d, r))
           /\ sent' = sent \cup {[node |-> n, req |-> r, env |-> Sign(d, r).tasks[r].env]}
    /\ UNCHANGED <<drawn, via, gone>>

PollResend(n, r) ==
    /\ Up /\ PollOK(db, n, proc, now) /\ ~db.paused
    /\ ExpireOK(db, n, now) /\ Oldest(db, n, now, r)
    /\ ResendOK(db, r, now)
    /\ Commit(Expire(db, n, now))
    /\ sent' = sent \cup {[node |-> n, req |-> r, env |-> db.tasks[r].env]}
    /\ UNCHANGED <<drawn, via, gone>>

SubmitResult(n, r, v) ==
    /\ Up /\ SubmitOK(db, n, r, v)
    /\ Quiet(Submit(db, r, v))

-----------------------------------------------------------------------------
(* Login.                                                                  *)

\* Login reads the clock, and then waits for the connection and the write lock,
\* until the deadline of the handler: this is what it may have read.
Readings == {t \in 1 .. MaxTime : now - MaxWait <= t /\ t <= now + Rollback}

\* First transaction, with the time t that was read before it.  Over the limit
\* the attempt ends here, and the first refusal of a window is recorded.
LoginRefused(c, u, src, t) ==
    /\ Up /\ login[c] = NoLogin /\ AdminClockOK(db, t)
    /\ LET d == Pruned(AdminClock(db, t), t)
           e == Counted(d, u, src, t)
       IN  /\ AdmitOK(d, u, src) /\ ~Admitted(d, u, src)
           /\ IF FirstBlock(d, u, src)
              THEN CanAppend(e, 0) /\ Quiet(Appended(e, 0))
              ELSE Quiet(e)

LoginBegin(c, u, src, t) ==
    /\ Up /\ login[c] = NoLogin /\ AdminClockOK(db, t)
    /\ LET d == Pruned(AdminClock(db, t), t)
           e == Counted(d, u, src, t)
       IN  /\ AdmitOK(d, u, src) /\ Admitted(d, u, src)
           /\ CanAppend(e, 0)
           /\ db' = Appended(e, 0)
    /\ login' = [login EXCEPT ![c] =
                   [stage |-> "hashing", user |-> u, acct |-> db.users[u]]]
    /\ UNCHANGED <<now, proc, backup, restored, history>>

\* Second transaction: failed for the credentials, or for want of a session.
LoginEnd(c, d) ==
    /\ db' = d
    /\ login' = [login EXCEPT ![c] = NoLogin]
    /\ UNCHANGED <<now, proc, backup, restored, history>>

LoginFails(c, match) ==
    /\ login[c].stage = "hashing" /\ AdminClockOK(db, now)
    /\ LET d == AdminClock(db, now)
       IN  /\ ~(match /\ CredentialsHold(d, login[c].user, login[c].acct))
           /\ CanAppend(d, 0)
           /\ LoginEnd(c, Appended(d, 0))

LoginLimited(c) ==
    /\ login[c].stage = "hashing" /\ AdminClockOK(db, now)
    /\ LET d == AdminClock(db, now)
           e == RevokeEach(d, Stale(d, now))
       IN  /\ CredentialsHold(d, login[c].user, login[c].acct)
           /\ RevokeEachOK(d, Stale(d, now))
           /\ SessionLimit(e, login[c].user)
           /\ CanAppend(e, 0)
           /\ LoginEnd(c, Appended(e, 0))

LoginSucceeds(c, s) ==
    /\ login[c].stage = "hashing" /\ AdminClockOK(db, now)
    /\ LET d == AdminClock(db, now)
           e == RevokeEach(d, Stale(d, now))
       IN  /\ CredentialsHold(d, login[c].user, login[c].acct)
           /\ RevokeEachOK(d, Stale(d, now))
           /\ ~SessionLimit(e, login[c].user)
           /\ e.sessions[s] = NoSession
           /\ CanAppend(e, 1)
           /\ LoginEnd(c, Appended([e EXCEPT !.sessions[s] =
                 NewSession(login[c].user, login[c].acct, now)], 1))

\* A transaction failed, or the client went away: nothing is written.
LoginAborts(c) ==
    /\ login[c].stage = "hashing"
    /\ LoginEnd(c, db)

-----------------------------------------------------------------------------
(* Management requests: Store.Manage with the token of session s.          *)

\* Before the operation: the clock and the expiry of sessions.
Housekept(d, t) == LET e == AdminClock(d, t) IN RevokeEach(e, Stale(e, t))

ManageBegins ==
    /\ Up /\ AdminClockOK(db, now)
    /\ RevokeEachOK(AdminClock(db, now), Stale(db, now))

\* The token is no good; the housekeeping is kept.
ManageUnauthorized(s) ==
    /\ ManageBegins
    /\ ~Authorized(Housekept(db, now), s, now)
    /\ Quiet(Housekept(db, now))

\* The session is good, its user may do the operation, d is what it did.
ManageCommits(s, privileged, d) ==
    /\ Authorized(Housekept(db, now), s, now)
    /\ privileged => Housekept(db, now).users[db.sessions[s].user].role = "Admin"
    /\ Commit(Touched(d, s, now))

\* The operation is denied to the role, or it failed and was rolled back to
\* the savepoint: the event of the refusal is all that is kept.  A read of an
\* unknown record can always be refused so.
ManageRejected(s) ==
    LET d == Housekept(db, now)
    IN  /\ ManageBegins /\ Authorized(d, s, now)
        /\ CanAppend(d, 0)
        /\ Quiet(Appended(d, 0))

\* whoami, agents, tasks, audit: an event.
ManageRead(s) ==
    LET d == Housekept(db, now)
    IN  /\ ManageBegins /\ CanAppend(d, 0)
        /\ ManageCommits(s, FALSE, Appended(d, 0)) /\ UNCHANGED history

ManageLogout(s) ==
    LET d == Housekept(db, now)
    IN  /\ ManageBegins /\ RevokeEachOK(d, {s})
        /\ ManageCommits(s, FALSE, RevokeEach(d, {s})) /\ UNCHANGED history

ManageRevoke(s) ==
    LET d == Housekept(db, now)
        u == db.sessions[s].user
    IN  /\ ManageBegins /\ u # NoUser /\ d.users[u].gen < MaxGen
        /\ RevokeEachOK(d, Owned(d, u))
        /\ ManageCommits(s, FALSE,
             [RevokeEach(d, Owned(d, u)) EXCEPT !.users[u].gen = @ + 1])
        /\ UNCHANGED history

ManageSubmit(s, r, n, ttl) ==
    LET d == Housekept(db, now)
    IN  /\ ManageBegins /\ EnqueueOK(d, r, n, ttl, now)
        /\ ManageCommits(s, TRUE, Enqueue(d, r, n, ttl, now))
        /\ UNCHANGED history

ManageToken(s, k, ttl) ==
    LET d == Housekept(db, now)
    IN  /\ ManageBegins /\ IssueAllowed(d, now) /\ CanAppend(d, 0)
        /\ ManageCommits(s, TRUE, IssueToken(d, k, ttl, now))
        /\ Draw(k)

ManageDisable(s, n) ==
    LET d == Housekept(db, now)
    IN  /\ ManageBegins /\ DisableOK(d, n)
        /\ ManageCommits(s, TRUE, Disable(d, n))
        /\ gone' = gone \cup {n}
        /\ UNCHANGED <<sent, drawn, via>>

-----------------------------------------------------------------------------
(* The local operator.                                                     *)

Local(ok, d) == Opens(db) /\ ok /\ Quiet(d)

LocalRead == Local(CanAppend(db, 0), Appended(db, 0))

LocalToken(k, ttl) ==
    /\ Opens(db) /\ IssueAllowed(db, now) /\ CanAppend(db, 0)
    /\ Commit(IssueToken(db, k, ttl, now))
    /\ Draw(k)

LocalSubmit(r, n, ttl) ==
    Local(EnqueueOK(db, r, n, ttl, now), Enqueue(db, r, n, ttl, now))

LocalDisable(n) ==
    /\ Opens(db) /\ DisableOK(db, n)
    /\ Commit(Disable(db, n))
    /\ gone' = gone \cup {n}
    /\ UNCHANGED <<sent, drawn, via>>

LocalPause(paused) ==
    Local(paused # db.paused /\ PauseOK(db, paused, now), Pause(db, paused))

LocalInstall(s) == Local(InstallOK(db, s, now), Install(db, s))

LocalSwitch(k) == Local(SwitchOK(db, k, now), Switch(db, k))

LocalCancelQueued ==
    Local(Queued(db) # {} /\ CancelQueuedOK(db), CancelQueued(db))

LocalCreateUser(u, role) == Local(CreateUserOK(db, u, role), CreateUser(db, u, role))

LocalChangeUser(u, action, role) ==
    Local(db.users[u].gen < MaxGen /\ ChangeUserOK(db, u, action),
          ChangeUser(db, u, action, role))

LocalRevokeAll ==
    Local((\A u \in Users : db.users[u].gen < MaxGen) /\ RevokeAllSessionsOK(db),
          RevokeAllSessions(db))

-----------------------------------------------------------------------------
(* QuarantineRestore.                                                      *)

\* disableTx of every enabled node: their tasks, then a node_disabled each.
QuarantineOK(d) ==
    LET e == Enabled(d)
        q == {r \in Queued(d) : d.tasks[r].node \in e}
        s == {r \in Dispatched(d) : d.tasks[r].node \in e}
        f == AppendedEach(d, Cardinality(q), -2)
        g == AppendedEach(f, Cardinality(s) + Cardinality(e), -1)
    IN  /\ CanAppendEach(d, Cardinality(q), -2)
        /\ CanAppendEach(f, Cardinality(s) + Cardinality(e), -1)
        /\ RevokeAllOK(g, Live(d))

\* Faulty: tokens of the backup stay good.
TokenlessQuarantined(d) ==
    LET e == Enabled(d)
        q == {r \in Queued(d) : d.tasks[r].node \in e}
        s == {r \in Dispatched(d) : d.tasks[r].node \in e}
        f == AppendedEach(Closed(Closed(d, q, "rejected"), s, "indeterminate"),
                          Cardinality(q), -2)
        g == AppendedEach(f, Cardinality(s) + Cardinality(e), -1)
    IN  [Regenerated(RevokeAll(g, Live(d))) EXCEPT
           !.nodes = [n \in Nodes |->
              IF n \in e THEN [d.nodes[n] EXCEPT !.state = "disabled"] ELSE d.nodes[n]]]

Quarantined(d) ==
    LET e == Enabled(d)
        q == {r \in Queued(d) : d.tasks[r].node \in e}
        s == {r \in Dispatched(d) : d.tasks[r].node \in e}
        f == AppendedEach(Closed(Closed(d, q, "rejected"), s, "indeterminate"),
                          Cardinality(q), -2)
        g == AppendedEach(f, Cardinality(s) + Cardinality(e), -1)
    IN  [Regenerated(RevokeAll(g, Live(d))) EXCEPT
           !.nodes = [n \in Nodes |->
              IF n \in e THEN [d.nodes[n] EXCEPT !.state = "disabled"] ELSE d.nodes[n]],
           !.tokens = [k \in Tokens |->
              IF d.tokens[k].state = "pending"
              THEN [d.tokens[k] EXCEPT !.state = "consumed"] ELSE d.tokens[k]]]

QuarantineRestore ==
    /\ Opens(db) /\ QuarantineOK(db)
    /\ \A u \in Users : db.users[u].gen < MaxGen
    /\ db' = Quarantined(db)
    /\ restored' = FALSE
    /\ gone' = gone \cup Enabled(db)
    /\ UNCHANGED <<now, proc, login, backup, sent, drawn, via>>

-----------------------------------------------------------------------------
Probes ==
    \E n \in Nodes :
       \/ \E k \in Tokens : Enroll(k, n)
       \/ \E p \in Digests, ready \in BOOLEAN : SaveHeartbeat(n, p, ready)
       \/ PollNothing(n)
       \/ \E r \in Reqs :
             \/ PollSign(n, r)
             \/ PollResend(n, r)
             \/ \E v \in Result : SubmitResult(n, r, v)

Logins ==
    \E c \in Clients :
       \/ \E u \in Users, src \in Sources, t \in Readings : LoginRefused(c, u, src, t)
       \/ \E u \in Users, src \in Sources, t \in Readings : LoginBegin(c, u, src, t)
       \/ \E match \in BOOLEAN : LoginFails(c, match)
       \/ LoginLimited(c)
       \/ \E s \in Sessions : LoginSucceeds(c, s)
       \/ LoginAborts(c)

Management ==
    \E s \in Sessions :
       \/ ManageUnauthorized(s)
       \/ ManageRejected(s)
       \/ ManageRead(s)
       \/ ManageLogout(s)
       \/ ManageRevoke(s)
       \/ \E r \in Reqs, n \in Nodes, ttl \in TTLs : ManageSubmit(s, r, n, ttl)
       \/ \E k \in Tokens, ttl \in TTLs : ManageToken(s, k, ttl)
       \/ \E n \in Nodes : ManageDisable(s, n)

Operator ==
    \/ LocalRead
    \/ \E k \in Tokens, ttl \in TTLs : LocalToken(k, ttl)
    \/ \E r \in Reqs, n \in Nodes, ttl \in TTLs : LocalSubmit(r, n, ttl)
    \/ \E n \in Nodes : LocalDisable(n)
    \/ \E paused \in BOOLEAN : LocalPause(paused)
    \/ \E s \in TrustSets : LocalInstall(s)
    \/ \E k \in Keys : LocalSwitch(k)
    \/ LocalCancelQueued
    \/ \E u \in Users, role \in Roles : LocalCreateUser(u, role)
    \/ \E u \in Users, action \in {"password", "role", "disable", "revoke"},
          role \in Roles : LocalChangeUser(u, action, role)
    \/ LocalRevokeAll
    \/ QuarantineRestore

Next ==
    \/ SetClock \/ Start \/ Stop \/ TakeBackup \/ Restore
    \/ Probes \/ Logins \/ Management \/ Operator

Spec == Init /\ [][Next]_vars

-----------------------------------------------------------------------------
(* Properties.                                                             *)

TypeOK ==
    /\ now \in 1 .. MaxTime
    /\ db \in DB /\ backup \in DB
    /\ proc \in Keys \cup {NoKey, Down}
    /\ login \in [Clients -> Login]
    /\ restored \in BOOLEAN
    /\ sent \subseteq [node : Nodes, req : Reqs, env : Envelope]
    /\ drawn \subseteq Tokens
    /\ via \in [Nodes -> Tokens \cup {NoToken}]
    /\ gone \subseteq Nodes

(***************************************************************************)
(* The rows have their types, and the number of reserved audit slots is    *)
(* exactly what the enabled nodes, the sessions and the open tasks are     *)
(* owed: migrate refuses to open a database where it is not, so a miscount *)
(* would lock server and localctl out (state.go, "inconsistent server      *)
(* audit reservations").                                                   *)
(***************************************************************************)
ReservationExact == TypeOK /\ Opens(db)

(***************************************************************************)
(* However full the log, what was promised can be done: a node can be      *)
(* disabled with all its open tasks, a dispatched task can be answered, a  *)
(* queued one closed, a session ended, and an account that has sessions    *)
(* changed.                                                                *)
(***************************************************************************)
ObligationsPayable ==
    /\ \A n \in Enabled(db) : DisableOK(db, n)
    /\ Dispatched(db) # {} => CanAppend(db, -1)
    /\ CanAppendEach(db, Cardinality(Queued(db)), -2)
    /\ RevokeEachOK(db, Live(db))
    /\ \A u \in Users : Owned(db, u) # {} => RevokeAllOK(db, Owned(db, u))

(***************************************************************************)
(* A node that is not enabled has no open task: disabling cancels them in  *)
(* the same transaction and nothing is queued for it afterwards.           *)
(***************************************************************************)
NoOrphanedTask ==
    \A r \in Queued(db) \cup Dispatched(db) :
        db.nodes[db.tasks[r].node].state = "enabled"

(***************************************************************************)
(* A task that reached a final state keeps it, and its result, for ever;   *)
(* only putting back a backup can undo it.                                 *)
(***************************************************************************)
TerminalFinal ==
    [][(restored' => restored) =>
         \A r \in Reqs : db.tasks[r].state \in Statuses =>
            db'.tasks[r] = db.tasks[r]]_vars

(***************************************************************************)
(* An assignment leaves the server under one signature: re-polling, a      *)
(* restart, a change of signer or a quarantined restore never signs it     *)
(* again.                                                                  *)
(***************************************************************************)
SingleEnvelope ==
    \A x, y \in sent : x.node = y.node /\ x.req = y.req => x.env = y.env

(***************************************************************************)
(* A token enrolls at most one node, also when a backup from before its    *)
(* use is put back.                                                        *)
(***************************************************************************)
TokenOnce ==
    \A m, n \in Nodes : via[m] = via[n] /\ via[m] # NoToken => m = n

(***************************************************************************)
(* A node that was disabled is never served again, also when a backup from *)
(* before its disablement is put back.                                     *)
(***************************************************************************)
DisabledForGood == Up => gone \cap Enabled(db) = {}

(***************************************************************************)
(* QuarantineRestore keeps what a backup would undo: used tokens stay used *)
(* and disabled nodes disabled (internal/state/admin.go).                  *)
(***************************************************************************)
QuarantineHolds == TokenOnce /\ DisabledForGood

(***************************************************************************)
(* Every session rests on the present authority of its account: enabled,   *)
(* and of the generation that the password was checked against, however    *)
(* logins and account changes interleave.                                  *)
(***************************************************************************)
SessionsCurrent ==
    \A s \in Live(db) :
        LET u == db.users[db.sessions[s].user]
        IN  u.state = "enabled" /\ u.gen = db.sessions[s].gen

(***************************************************************************)
(* While the clock does not go back: the head of a node's queue can always *)
(* be handed out again once it was, across pauses and changes of trust, so *)
(* that no poll fails with "stored task signature is invalid"; and the     *)
(* selected key is a trusted one, as dispatchSettings demands.             *)
(***************************************************************************)
LiveEnvelopesVerify ==
    /\ db.trust # NoTrust => db.key \in Active(db.trust)
    /\ \A r \in Dispatched(db) :
          db.tasks[r].expires > now => ResendOK(db, r, now)

(***************************************************************************)
(* A key that left the trust set never comes back to it.                   *)
(***************************************************************************)
RetiredForGood ==
    [][(restored' => restored) =>
         \A k \in Keys :
            /\ db.trust # NoTrust /\ k \in db.trust.retired
            => db'.trust # NoTrust /\ k \in db'.trust.retired
               /\ k \notin Active(db'.trust)]_vars
=============================================================================
