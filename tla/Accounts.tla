------------------------------ MODULE Accounts ------------------------------
(***************************************************************************)
(* Administrator accounts, sessions and the login budget of the server:    *)
(* the transactions of internal/state/admin.go as operators on the         *)
(* database d, in the form used by module Dispatch.                        *)
(*                                                                         *)
(* Simplifications.  A password hash is changed only together with the     *)
(* generation of its account, so the generation stands for both; whether a *)
(* password matches the hash that was read is an input.  A session's id    *)
(* stands for its token.  The id of a deleted session may be drawn again.  *)
(***************************************************************************)
EXTENDS Audit, FiniteSets

CONSTANTS
    Users,          \* user names, known or not
    NoUser,
    Sessions,       \* session ids that RandomID may draw
    Sources,        \* network peers
    MaxUsers,       \* state.MaxUsers
    MaxSessions,    \* state.MaxSessions
    MaxOwned,       \* the eight sessions one account may have
    Idle,           \* state.SessionIdle
    Lifetime,       \* state.SessionLifetime
    AdminSkew,      \* the 30 seconds of adminClock and authorizeAdminTx
    LoginWindow,    \* the 60 seconds of admitLogin
    GlobalLimit,    \* the 30, 10 and 5 attempts of admitLogin
    SourceLimit,
    NameLimit,
    MaxBuckets      \* the 1024 rows of admin_limits

ASSUME AccountSets ==
    /\ IsFiniteSet(Users) /\ IsFiniteSet(Sessions) /\ NoUser \notin Users
    /\ Users \cap Sources = {} /\ "global" \notin Users \cup Sources
ASSUME AccountLimits ==
    /\ {MaxUsers, MaxSessions, MaxOwned, Idle, Lifetime} \subseteq Nat
    /\ {AdminSkew, MaxBuckets} \subseteq Nat
    /\ {LoginWindow, GlobalLimit, SourceLimit, NameLimit} \subseteq Nat \ {0}

Roles == {"Admin", "ReadOnly"}

UserRow == [state : {"none", "enabled", "disabled"}, role : Roles, gen : Nat]
NoAccount == [state |-> "none", role |-> "ReadOnly", gen |-> 0]

\* gen is no column: the generation the login was checked against.
SessionRow == [user : Users \cup {NoUser}, created : Nat, last : Nat,
               expires : Nat, gen : Nat]
NoSession == [user |-> NoUser, created |-> 0, last |-> 0, expires |-> 0, gen |-> 0]

\* The rows of admin_limits; a bucket without row has count 0.
Buckets == {"global"} \cup Users \cup Sources
LimitRow == [started : Int, count : Nat]
NoBucket == [started |-> 0, count |-> 0]

Known(d) == {u \in Users : d.users[u].state # "none"}
Live(d) == {s \in Sessions : d.sessions[s].user # NoUser}
Owned(d, u) == {s \in Sessions : d.sessions[s].user = u}

-----------------------------------------------------------------------------

\* adminClock.
AdminClockOK(d, t) == t >= 1 /\ t >= d.high - AdminSkew
AdminClock(d, t) == [d EXCEPT !.high = IF t > @ THEN t ELSE @]

\* The rows of R go away.
Ended(d, R) ==
    [d EXCEPT !.sessions =
        [s \in Sessions |-> IF s \in R THEN NoSession ELSE d.sessions[s]]]

\* revokeSessionTx of every session in R: one event each.
RevokeEachOK(d, R) == CanAppendEach(d, Cardinality(R), -1)
RevokeEach(d, R) == AppendedEach(Ended(d, R), Cardinality(R), -1)

\* Faulty: the one event keeps the slots of the sessions.
LeakyRevokeAll(d, R) == Appended(Ended(d, R), 0)

\* One event for all of R, as account changes record it.
RevokeAllOK(d, R) == CanAppend(d, 0 - Cardinality(R))
RevokeAll(d, R) == Appended(Ended(d, R), 0 - Cardinality(R))

\* expireSessionsTx.
Stale(d, t) ==
    {s \in Live(d) : d.sessions[s].expires <= t \/ d.sessions[s].last <= t - Idle}

-----------------------------------------------------------------------------
(* Login, first transaction: admitLogin.                                   *)

LimitOf(b) == IF b = "global" THEN GlobalLimit
              ELSE IF b \in Sources THEN SourceLimit ELSE NameLimit

\* Faulty: a bucket lasts for its first second only.
HastyPruned(d, t) ==
    [d EXCEPT !.limits = [b \in Buckets |->
        IF d.limits[b].started < t THEN NoBucket ELSE d.limits[b]]]

Pruned(d, t) ==
    [d EXCEPT !.limits = [b \in Buckets |->
        IF d.limits[b].started <= t - LoginWindow THEN NoBucket ELSE d.limits[b]]]

Full(d) == {b \in Buckets : d.limits[b].count > 0}

\* Every bucket of the attempt counts it, up to one past its limit.
Counted(d, u, src, t) ==
    [d EXCEPT !.limits = [b \in Buckets |->
        IF b \notin {"global", u, src} THEN d.limits[b]
        ELSE [started |-> IF d.limits[b].count = 0 THEN t ELSE d.limits[b].started,
              count |-> IF d.limits[b].count > LimitOf(b) THEN LimitOf(b) + 1
                        ELSE d.limits[b].count + 1]]]

\* A new row needs room; the rows of one attempt are made one by one.
AdmitOK(d, u, src) ==
    LET new == {"global", u, src} \ Full(d)
    IN  new = {} \/ Cardinality(Full(d)) + Cardinality(new) <= MaxBuckets

Admitted(d, u, src) ==
    \A b \in {"global", u, src} : d.limits[b].count < LimitOf(b)

FirstBlock(d, u, src) ==
    \E b \in {"global", u, src} : d.limits[b].count = LimitOf(b)

-----------------------------------------------------------------------------
(* Login, second transaction, after the key derivation.                    *)

\* Faulty: the account is not looked at again.
StaleCredentials(d, u, a) == a.state = "enabled"

\* The account is still what the first transaction read, snapshot a of user u.
CredentialsHold(d, u, a) == a.state = "enabled" /\ d.users[u] = a

SessionLimit(d, u) ==
    Cardinality(Live(d)) >= MaxSessions \/ Cardinality(Owned(d, u)) >= MaxOwned

NewSession(u, a, t) ==
    [user |-> u, created |-> t, last |-> t, expires |-> t + Lifetime, gen |-> a.gen]

-----------------------------------------------------------------------------
(* Sessions and accounts.                                                  *)

\* authorizeAdminTx.
Authorized(d, s, t) ==
    /\ d.sessions[s].user \in Users
    /\ d.users[d.sessions[s].user].state = "enabled"
    /\ d.sessions[s].expires > t
    /\ d.sessions[s].last > t - Idle
    /\ d.sessions[s].created <= t + AdminSkew

Touched(d, s, t) ==
    IF d.sessions[s].user = NoUser THEN d
    ELSE [d EXCEPT !.sessions[s].last = IF t > @ THEN t ELSE @]

CreateUserOK(d, u, role) ==
    /\ d.users[u].state = "none"
    /\ Cardinality(Known(d)) < MaxUsers
    /\ Known(d) = {} => role = "Admin"
    /\ CanAppend(d, 0)

CreateUser(d, u, role) ==
    Appended([d EXCEPT !.users[u] = [state |-> "enabled", role |-> role, gen |-> 1]], 0)

\* ChangeUser; action is "password", "role", "disable" or "revoke".
ChangeUserOK(d, u, action) ==
    /\ \/ d.users[u].state = "enabled"
       \/ d.users[u].state = "disabled" /\ action = "revoke"
    /\ RevokeAllOK(d, Owned(d, u))

ChangeUser(d, u, action, role) ==
    [RevokeAll(d, Owned(d, u)) EXCEPT
        !.users[u] = [state |-> IF action = "disable" THEN "disabled" ELSE @.state,
                      role |-> IF action = "role" THEN role ELSE @.role,
                      gen |-> @.gen + 1]]

\* The generation of every account moves on.
Regenerated(d) ==
    [d EXCEPT !.users = [u \in Users |->
        IF d.users[u].state = "none" THEN d.users[u]
        ELSE [d.users[u] EXCEPT !.gen = @ + 1]]]

RevokeAllSessionsOK(d) == RevokeAllOK(d, Live(d))
RevokeAllSessions(d) == Regenerated(RevokeAll(d, Live(d)))
=============================================================================
