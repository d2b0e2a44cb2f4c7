---------------------------- MODULE ProbeProofs ----------------------------
(***************************************************************************)
(* Proofs about the probe for every set of requests, envelopes and         *)
(* policies and every value of the limits.                                 *)
(*                                                                         *)
(* The argument has two layers.  DBInv is an invariant of the database     *)
(* alone, and there is one lemma per part of a transaction (Clock, Policy, *)
(* Prune, Insert, Finish, Acknowledged, Appended) saying that the part     *)
(* keeps DBInv and which rows it can touch.  IInv adds what the worker has *)
(* in hand and is preserved by every action because the transactions are   *)
(* chains of those parts.                                                  *)
(***************************************************************************)
EXTENDS Probe, TLAPS, FiniteSetTheorems

\* There is one slot when one row runs and no slot when none does.
Slot(d) ==
    \/ d.reserved = 0 /\ RunningRows(d) = {}
    \/ d.reserved = 1 /\ \E r \in Reqs : RunningRows(d) = {r}

\* A row holds an envelope of its own request and is backed by an event.
Backed(d) ==
    \A r \in Reqs : d.exec[r].state # "none" =>
        /\ r \in d.decided
        /\ d.exec[r].env \in Envelopes /\ Task[d.exec[r].env].req = r

DBInv(d) == d \in DB /\ Slot(d) /\ Used(d) <= Capacity /\ Backed(d)

\* What the worker may rely on between prepare and finish.
InHand ==
    LET t == Task[env]
        row == db.exec[t.req]
    IN  /\ env \in Envelopes /\ snap \in Policies /\ t.signed
        /\ pc \in {"accepted", "collecting"} =>
              /\ row.state = "running" /\ row.env = env /\ row.policy = snap
              /\ t.policy = snap
              /\ Allows(snap, t) /\ AllowsResource(snap, t)
              /\ startAt[t.req] < t.expires
        /\ pc = "accepted" => runs[t.req] = 0
        /\ pc = "collecting" => runs[t.req] = 1

IInv ==
    /\ TypeOK
    /\ DBInv(db)
    /\ \A r \in Reqs : runs[r] <= 1 /\ (runs[r] > 0 => r \in db.decided)
    /\ pc \in {"loaded", "accepted", "collecting", "submitting"} => InHand

-----------------------------------------------------------------------------


\* Updates of single fields stay inside the type of the database.
LEMMA HeadType ==
    ASSUME NEW d \in DB, NEW n \in Nat, NEW m \in Nat
    PROVE  [d EXCEPT !.seq = n, !.reserved = m] \in DB
  BY DEF DB

LEMMA ExecType ==
    ASSUME NEW d \in DB, NEW x \in [Reqs -> Row]
    PROVE  [d EXCEPT !.exec = x] \in DB
  BY DEF DB

\* What an append does to each field, for any change of the reservation.
LEMMA AppendFields ==
    ASSUME NEW d \in DB, NEW k \in Int, d.reserved + k >= 0
    PROVE  /\ Appended(d, k) \in DB
           /\ Appended(d, k).seq = d.seq + 1
           /\ Appended(d, k).reserved = d.reserved + k
           /\ Appended(d, k).exec = d.exec
           /\ Appended(d, k).decided = d.decided
           /\ Appended(d, k).blocked = d.blocked
           /\ Appended(d, k).high = d.high
           /\ Appended(d, k).policy = d.policy
  <1>1. d.seq + 1 \in Nat /\ d.reserved + k \in Nat
    BY DEF DB
  <1>2. Appended(d, k)
            = [d EXCEPT !.seq = d.seq + 1, !.reserved = d.reserved + k]
    BY DEF Appended
  <1>3. Appended(d, k) \in DB
    BY <1>1, <1>2, HeadType
  <1> QED
    BY <1>2, <1>3 DEF DB

\* Appending an event without touching reservations keeps the database
\* invariant whenever audit.Append lets it through.
LEMMA AppendKeeps ==
    ASSUME NEW d, DBInv(d), CanAppend(d, 0)
    PROVE  /\ DBInv(Appended(d, 0))
           /\ Appended(d, 0).exec = d.exec
           /\ Appended(d, 0).decided = d.decided
           /\ Appended(d, 0).blocked = d.blocked
  <1>1. d \in DB /\ d.reserved + 0 = d.reserved /\ d.reserved >= 0
    BY DEF DBInv, DB
  <1>2. Appended(d, 0) \in DB /\ Appended(d, 0).reserved = d.reserved
        /\ Appended(d, 0).seq = d.seq + 1
        /\ Appended(d, 0).exec = d.exec
        /\ Appended(d, 0).decided = d.decided
        /\ Appended(d, 0).blocked = d.blocked
    BY <1>1, AppendFields
  <1> QED
    BY <1>1, <1>2, CapacityAssumption
    DEF DBInv, DB, Slot, Backed, RunningRows, Used, CanAppend

\* State.clock keeps the database invariant and never touches a row.
LEMMA ClockKeeps ==
    ASSUME NEW d, DBInv(d), NEW t \in Nat
    PROVE  /\ DBInv(Clock(d, t))
           /\ Clock(d, t).exec = d.exec
           /\ Clock(d, t).decided = d.decided
           /\ d.blocked => Clock(d, t) = d
  <1> DEFINE b == [d EXCEPT !.blocked = TRUE]
  <1>1. b \in DB /\ b.exec = d.exec /\ b.decided = d.decided
        /\ b.seq = d.seq /\ b.reserved = d.reserved
    BY DEF DBInv, DB
  <1>2. DBInv(b)
    BY <1>1 DEF DBInv, Slot, Backed, RunningRows, Used
  <1>3. Used(d) < Capacity => CanAppend(b, 0)
    BY <1>1, CapacityAssumption DEF CanAppend, Used, DBInv, DB
  <1> DEFINE h == [d EXCEPT !.high = IF t > @ THEN t ELSE @]
  <1>4. h \in DB /\ h.exec = d.exec /\ h.decided = d.decided
        /\ h.seq = d.seq /\ h.reserved = d.reserved
    BY DEF DBInv, DB
  <1>5. DBInv(h)
    BY <1>4 DEF DBInv, Slot, Backed, RunningRows, Used
  <1>6. CASE d.blocked
    BY <1>6 DEF Clock
  <1>7. CASE ~d.blocked /\ t < d.high - MaxClockSkew
    <2>1. Clock(d, t) = IF Used(d) < Capacity THEN Appended(b, 0) ELSE b
      BY <1>7 DEF Clock
    <2> QED
      BY <2>1, <1>1, <1>2, <1>3, <1>7, AppendKeeps
  <1>8. CASE ~d.blocked /\ ~(t < d.high - MaxClockSkew)
    <2>1. Clock(d, t) = h
      BY <1>8 DEF Clock
    <2> QED
      BY <2>1, <1>4, <1>5, <1>8
  <1> QED
    BY <1>6, <1>7, <1>8

\* State.policy keeps the database invariant and never touches a row.
LEMMA PolicyKeeps ==
    ASSUME NEW d, DBInv(d), NEW p \in Policies, PolicyOK(d, p)
    PROVE  /\ DBInv(Policy(d, p))
           /\ Policy(d, p).exec = d.exec
           /\ Policy(d, p).decided = d.decided
  <1>1. CASE d.policy = p
    BY <1>1 DEF Policy
  <1>2. CASE d.policy # p
    <2> DEFINE a == Appended(d, 0)
    <2>1. DBInv(a) /\ a.exec = d.exec /\ a.decided = d.decided
      BY <1>2, AppendKeeps DEF PolicyOK
    <2>2. Policy(d, p) = [a EXCEPT !.policy = p]
      BY <1>2 DEF Policy
    <2> HIDE DEF a
    <2> DEFINE c == [a EXCEPT !.policy = p]
    <2>3. c \in DB /\ c.exec = a.exec /\ c.decided = a.decided
          /\ c.seq = a.seq /\ c.reserved = a.reserved
      BY <2>1 DEF DBInv, DB
    <2>4. DBInv(c)
      BY <2>1, <2>3 DEF DBInv, Slot, Backed, RunningRows, Used
    <2> QED
      BY <2>1, <2>2, <2>3, <2>4
  <1> QED
    BY <1>1, <1>2

\* The deletion of capacity() only takes rows away, and never a running one.
LEMMA PruneKeeps ==
    ASSUME NEW d, DBInv(d), NEW t \in Nat
    PROVE  /\ DBInv(Prune(d, t))
           /\ Prune(d, t).decided = d.decided
           /\ \A r \in Reqs : \/ Prune(d, t).exec[r] = d.exec[r]
                              \/ /\ Prune(d, t).exec[r] = NoRow
                                 /\ d.exec[r].state # "running"
  <1> DEFINE x == [r \in Reqs |->
                    IF /\ d.exec[r].delivered
                       /\ d.exec[r].state \notin {"running", "indeterminate"}
                       /\ Task[d.exec[r].env].expires < t - Retention
                    THEN NoRow ELSE d.exec[r]]
  <1>1. d \in DB /\ d.exec \in [Reqs -> Row]
    BY DEF DBInv, DB
  <1>2. NoRow \in Row /\ NoRow.state = "none"
    BY DEF NoRow, Row, Final
  <1>3. x \in [Reqs -> Row]
    BY <1>1, <1>2
  <1>4. \A r \in Reqs : \/ x[r] = d.exec[r]
                        \/ x[r] = NoRow /\ d.exec[r].state # "running"
    OBVIOUS
  <1>5. Prune(d, t) = [d EXCEPT !.exec = x]
    BY DEF Prune
  <1> HIDE DEF x
  <1>6. Prune(d, t) \in DB
    BY <1>1, <1>3, <1>5, ExecType
  <1>7. Prune(d, t).exec = x /\ Prune(d, t).decided = d.decided
        /\ Prune(d, t).seq = d.seq /\ Prune(d, t).reserved = d.reserved
    BY <1>1, <1>5 DEF DB
  <1>8. RunningRows(Prune(d, t)) = RunningRows(d)
    BY <1>2, <1>4, <1>7 DEF RunningRows
  <1>9. Backed(Prune(d, t))
    BY <1>2, <1>4, <1>7 DEF Backed, DBInv
  <1> QED
    BY <1>4, <1>6, <1>7, <1>8, <1>9 DEF DBInv, Slot, Used

\* The insert of prepare: with no row running, the new row is the only one
\* that can be, and it owns the slot that its event reserves.
LEMMA InsertKeeps ==
    ASSUME NEW d, DBInv(d), RunningRows(d) = {},
           NEW e \in Envelopes, NEW p \in Policies,
           NEW state \in {"running"} \cup Final,
           now \in Nat, InsertOK(d, e, state)
    PROVE  /\ DBInv(Insert(d, e, p, state))
           /\ Insert(d, e, p, state).decided
                = d.decided \cup {Task[e].req}
           /\ Insert(d, e, p, state).exec[Task[e].req].state = state
           /\ Insert(d, e, p, state).exec[Task[e].req].env = e
           /\ Insert(d, e, p, state).exec[Task[e].req].policy = p
  <1> DEFINE k == IF state = "running" THEN 1 ELSE 0
             q == Task[e].req
             row == [state |-> state, env |-> e, policy |-> p, acc |-> now,
                     executed |-> state = "running", delivered |-> FALSE]
             a == Appended(d, k)
             i == Insert(d, e, p, state)
  <1>1. d \in DB /\ q \in Reqs /\ k \in Int /\ d.reserved = 0
    BY EnvelopesAssumption DEF DBInv, DB, TaskRecord, Slot
  <1>2. a \in DB /\ a.seq = d.seq + 1 /\ a.reserved = k /\ a.exec = d.exec
        /\ a.decided = d.decided
    BY <1>1, AppendFields
  <1>3. row \in Row
    BY DEF Row
  <1>4. i = [a EXCEPT !.exec[q] = row, !.decided = @ \cup {q}]
    BY DEF Insert
  <1>5. row.state = state /\ row.env = e /\ row.policy = p
    OBVIOUS
  <1> HIDE DEF a, row, i, q
  <1>6. [a.exec EXCEPT ![q] = row] \in [Reqs -> Row]
        /\ a.decided \cup {q} \in SUBSET Reqs
    BY <1>1, <1>2, <1>3 DEF DB
  <1>7. i = [a EXCEPT !.exec = [a.exec EXCEPT ![q] = row],
                      !.decided = a.decided \cup {q}]
    BY <1>2, <1>4 DEF DB
  <1>8. i \in DB
    BY <1>2, <1>6, <1>7 DEF DB
  <1>9. i.exec = [d.exec EXCEPT ![q] = row] /\ i.decided = d.decided \cup {q}
        /\ i.seq = d.seq + 1 /\ i.reserved = k
    BY <1>2, <1>7 DEF DB
  <1>10. \A r \in Reqs : i.exec[r] = IF r = q THEN row ELSE d.exec[r]
    BY <1>1, <1>9 DEF DB
  <1>11. RunningRows(i) = IF state = "running" THEN {q} ELSE {}
    BY <1>1, <1>5, <1>10 DEF RunningRows
  <1>12. Slot(i)
    BY <1>1, <1>9, <1>11 DEF Slot
  <1>13. Backed(i)
    BY <1>1, <1>5, <1>9, <1>10 DEF Backed, DBInv, q
  <1>14. Used(i) <= Capacity
    BY <1>1, <1>9, CapacityAssumption DEF InsertOK, CanAppend, Used, DB
  <1> QED
    BY <1>1, <1>5, <1>8, <1>9, <1>10, <1>12, <1>13, <1>14 DEF DBInv, i, q

\* finishTx on a running row frees the slot with the very event it was
\* reserved for: no capacity check can fail.
LEMMA FinishKeeps ==
    ASSUME NEW d, DBInv(d), NEW r \in RunningRows(d), NEW state \in Final
    PROVE  /\ FinishOK(d, r)
           /\ DBInv(Finish(d, r, state))
           /\ RunningRows(Finish(d, r, state)) = {}
           /\ Finish(d, r, state).decided = d.decided
           /\ Finish(d, r, state).blocked = d.blocked
           /\ Finish(d, r, state).exec[r].state = state
  <1> DEFINE a == Appended(d, -1)
             f == Finish(d, r, state)
  <1>1. d \in DB /\ r \in Reqs /\ d.reserved = 1 /\ RunningRows(d) = {r}
        /\ d.exec[r].state = "running" /\ d.seq \in Nat
    BY DEF DBInv, DB, Slot, RunningRows
  <1>2. a \in DB /\ a.seq = d.seq + 1 /\ a.reserved = 0 /\ a.exec = d.exec
        /\ a.decided = d.decided /\ a.blocked = d.blocked
    <2>1. d.reserved + (-1) >= 0 /\ d.reserved + (-1) = 0
      BY <1>1
    <2> QED
      BY <1>1, <2>1, AppendFields
  <1>3. f = [a EXCEPT !.exec[r].state = state]
    BY DEF Finish
  <1>4. FinishOK(d, r)
    BY <1>1, CapacityAssumption DEF FinishOK, CanAppend, DBInv, Used
  <1> DEFINE row == [d.exec[r] EXCEPT !.state = state]
  <1>5. row \in Row /\ row.state = state /\ row.env = d.exec[r].env
    BY <1>1 DEF Row, DB
  <1> HIDE DEF a, f
  <1>6. f = [a EXCEPT !.exec = [d.exec EXCEPT ![r] = row]]
    BY <1>2, <1>3 DEF DB
  <1> HIDE DEF row
  <1>7. [d.exec EXCEPT ![r] = row] \in [Reqs -> Row]
    BY <1>1, <1>5 DEF DB
  <1>8. f \in DB
    BY <1>2, <1>6, <1>7, ExecType
  <1>9. f.exec = [d.exec EXCEPT ![r] = row] /\ f.decided = d.decided
        /\ f.seq = d.seq + 1 /\ f.reserved = 0 /\ f.blocked = d.blocked
    BY <1>2, <1>6 DEF DB
  <1>10. \A s \in Reqs : f.exec[s] = IF s = r THEN row ELSE d.exec[s]
    BY <1>1, <1>9 DEF DB
  <1>11. RunningRows(f) = {}
    BY <1>1, <1>5, <1>10 DEF RunningRows, Final
  <1>12. Backed(f)
    BY <1>1, <1>5, <1>9, <1>10 DEF Backed, DBInv
  <1>13. Used(f) <= Capacity
    BY <1>1, <1>9 DEF DBInv, Used
  <1> QED
    BY <1>1, <1>4, <1>5, <1>8, <1>9, <1>10, <1>11, <1>12, <1>13
    DEF DBInv, Slot, f

\* Acknowledge only sets the delivered mark of a finished row.
LEMMA AcknowledgeKeeps ==
    ASSUME NEW d, DBInv(d), NEW r \in Reqs
    PROVE  /\ DBInv(Acknowledged(d, r))
           /\ Acknowledged(d, r).decided = d.decided
           /\ Acknowledged(d, r).blocked = d.blocked
           /\ \A s \in Reqs :
                Acknowledged(d, r).exec[s].state = d.exec[s].state
  <1> DEFINE a == Acknowledged(d, r)
             row == [d.exec[r] EXCEPT !.delivered = TRUE]
  <1>1. d \in DB /\ d.exec \in [Reqs -> Row]
    BY DEF DBInv, DB
  <1>2. row \in Row /\ row.state = d.exec[r].state /\ row.env = d.exec[r].env
    BY <1>1 DEF Row
  <1>3. a = [d EXCEPT !.exec = [d.exec EXCEPT ![r] = row]]
    BY <1>1 DEF Acknowledged, DB
  <1> HIDE DEF a, row
  <1>4. a \in DB
    BY <1>1, <1>2, <1>3, ExecType
  <1>5. a.exec = [d.exec EXCEPT ![r] = row] /\ a.decided = d.decided
        /\ a.seq = d.seq /\ a.reserved = d.reserved
        /\ a.blocked = d.blocked
    BY <1>1, <1>3 DEF DB
  <1>6. \A s \in Reqs : a.exec[s] = IF s = r THEN row ELSE d.exec[s]
    BY <1>1, <1>5
  <1>7. RunningRows(a) = RunningRows(d)
    BY <1>2, <1>6 DEF RunningRows
  <1>8. Backed(a)
    BY <1>2, <1>5, <1>6 DEF Backed, DBInv
  <1> QED
    BY <1>2, <1>4, <1>5, <1>6, <1>7, <1>8 DEF DBInv, Slot, Used, a

\* The common prefix of Ready and prepare, up to the decision.
LEMMA CleanedKeeps ==
    ASSUME TypeOK, DBInv(db), NEW p \in Policies, PolicyOK(Clock(db, now), p)
    PROVE  /\ DBInv(Cleaned(p))
           /\ Cleaned(p).decided = db.decided
           /\ RunningRows(Cleaned(p)) = RunningRows(db)
  <1>1. now \in Nat
    BY LimitsAssumption DEF TypeOK
  <1> DEFINE c == Clock(db, now)
             q == Policy(c, p)
  <1>2. DBInv(c) /\ c.exec = db.exec /\ c.decided = db.decided
    BY <1>1, ClockKeeps
  <1> HIDE DEF c
  <1>3. DBInv(q) /\ q.exec = db.exec /\ q.decided = db.decided
    BY <1>2, PolicyKeeps DEF c
  <1> HIDE DEF q
  <1>4. /\ DBInv(Prune(q, now)) /\ Prune(q, now).decided = db.decided
        /\ \A r \in Reqs : \/ Prune(q, now).exec[r] = db.exec[r]
                           \/ /\ Prune(q, now).exec[r] = NoRow
                              /\ db.exec[r].state # "running"
    BY <1>1, <1>3, PruneKeeps
  <1>5. RunningRows(Prune(q, now)) = RunningRows(db)
    BY <1>4 DEF RunningRows, NoRow
  <1> QED
    BY <1>4, <1>5 DEF Cleaned, c, q

\* A step that leaves the worker with nothing in hand only has to keep the
\* database invariant and the decisions.
LEMMA IdleKeeps ==
    ASSUME IInv, NEW where \in {"down", "degraded", "cycle"}, Idle(where),
           Inside, UNCHANGED history,
           DBInv(db'), db.decided \subseteq db'.decided
    PROVE  IInv'
  <1>1. TypeOK'
    BY DEF IInv, TypeOK, Idle, Inside, history, PCs, DBInv
  <1>2. \A r \in Reqs : runs'[r] <= 1 /\ (runs'[r] > 0 => r \in db'.decided)
    BY DEF IInv, history
  <1> QED
    BY <1>1, <1>2 DEF IInv, Idle

\* The probe's initial states, those of probectl's initialize, satisfy it.
LEMMA InitIInv == Init => IInv
  <1> SUFFICES ASSUME Init PROVE IInv
    OBVIOUS
  <1>1. NoRow \in Row /\ NoRow.state = "none"
    BY DEF NoRow, Row
  <1>2. now \in Nat /\ now \in 1..MaxTime
    BY LimitsAssumption DEF Init
  <1>3. db \in DB
    BY <1>1, <1>2 DEF Init, DB
  <1>4. TypeOK
    BY <1>2, <1>3 DEF Init, TypeOK, PCs
  <1>5. RunningRows(db) = {} /\ Backed(db)
    BY <1>1 DEF Init, RunningRows, Backed
  <1>6. db.seq = 1 /\ db.reserved = 0
    BY DEF Init
  <1>7. Slot(db)
    BY <1>5, <1>6 DEF Slot
  <1>8. Used(db) <= Capacity
    BY <1>6, LimitsAssumption, CapacityAssumption DEF Used
  <1>9. pc = "down" /\ \A r \in Reqs : runs[r] = 0
    BY DEF Init
  <1> QED
    BY <1>3, <1>4, <1>5, <1>7, <1>8, <1>9 DEF IInv, DBInv

\* Every action keeps the invariant.
LEMMA NextIInv == IInv /\ [Next]_vars => IInv'
  <1> SUFFICES ASSUME IInv, [Next]_vars PROVE IInv'
    OBVIOUS
  <1> USE LimitsAssumption
  <1>t. TypeOK /\ DBInv(db) /\ now \in Nat /\ file \in Policies
    BY DEF IInv, TypeOK
  <1>c. /\ DBInv(Clock(db, now)) /\ Clock(db, now).exec = db.exec
        /\ Clock(db, now).decided = db.decided
    BY <1>t, ClockKeeps
  <1>1. CASE Open
    <2> DEFINE d == Clock(db, now)
    <2>1. DBInv(d) /\ d.decided = db.decided
      BY <1>c
    <2>2. DBInv(Recovered(d)) /\ Recovered(d).decided = db.decided
      <3> HIDE DEF d
      <3>1. CASE RunningRows(d) = {}
        BY <2>1, <3>1 DEF Recovered
      <3>2. CASE RunningRows(d) # {}
        <4> DEFINE r == CHOOSE r \in RunningRows(d) : TRUE
        <4>1. r \in RunningRows(d)
          BY <3>2
        <4>2. Recovered(d) = Finish(d, r, "indeterminate")
          BY <3>2 DEF Recovered
        <4> HIDE DEF r
        <4> QED
          BY <2>1, <4>1, <4>2, FinishKeeps DEF Final
      <3> QED
        BY <3>1, <3>2
    <2>3. \E w \in {"degraded", "cycle"} : Idle(w)
      BY <1>1 DEF Open
    <2>4. db' = Recovered(d) \/ db' = d \/ db' = db
      BY <1>1 DEF Open
    <2>5. DBInv(db') /\ db'.decided = db.decided
      BY <2>1, <2>2, <2>4, <1>t
    <2> QED
      BY <1>1, <2>3, <2>5, IdleKeeps DEF Open
  <1>2. CASE Crash
    BY <1>t, <1>2, IdleKeeps DEF Crash
  <1>3. CASE ReadySucceeds \/ ReadyClock \/ ReadyFails
    <2>1. /\ db' \in {Cleaned(file), Clock(db, now), db}
          /\ db' = Cleaned(file) => PolicyOK(Clock(db, now), file)
             \/ db' = Clock(db, now) \/ db' = db
          /\ pc' = "flush" /\ mode' \in {"ready", "paused", "blocked"}
          /\ UNCHANGED <<now, file, env, snap, runs, startAt>>
      BY <1>3 DEF ReadySucceeds, ReadyClock, ReadyFails, Checked, Available,
                  Inside, history
    <2>2. DBInv(db') /\ db'.decided = db.decided
      BY <1>t, <1>c, <2>1, CleanedKeeps
    <2>3. TypeOK'
      BY <2>1, <2>2, <1>t DEF TypeOK, PCs, DBInv
    <2> QED
      BY <2>1, <2>2, <2>3 DEF IInv
  <1>4. CASE Flush
    <2>1. DBInv(db') /\ db'.decided = db.decided
      <3>1. CASE UNCHANGED db
        BY <1>t, <3>1
      <3>2. ASSUME NEW r \in Pending(db), db' = Acknowledged(db, r)
            PROVE  DBInv(db') /\ db'.decided = db.decided
        BY <1>t, <3>2, AcknowledgeKeeps DEF Pending, Undelivered
      <3> QED
        BY <1>4, <3>1, <3>2 DEF Flush
    <2>2. CASE mode = "ready"
      <3>1. pc' = "poll" /\ UNCHANGED <<now, file, mode, env, snap, runs, startAt>>
        BY <1>4, <2>2 DEF Flush, Step, Inside, history
      <3>2. TypeOK'
        BY <3>1, <2>1, <1>t DEF TypeOK, PCs, DBInv
      <3> QED
        BY <3>1, <3>2, <2>1 DEF IInv
    <2>3. CASE mode # "ready"
      BY <1>4, <2>1, <2>3, IdleKeeps DEF Flush
    <2> QED
      BY <2>2, <2>3
  <1>5. CASE NetworkFails
    BY <1>t, <1>5, IdleKeeps DEF NetworkFails
  <1>6. ASSUME NEW e \in Envelopes, ReceiveInvalid(e) PROVE IInv'
    <2>1. DBInv(db') /\ db'.decided = db.decided
      BY <1>t, <1>6, AppendKeeps DEF ReceiveInvalid
    <2> QED
      BY <1>6, <2>1, IdleKeeps DEF ReceiveInvalid
  <1>7. ASSUME NEW e \in Envelopes, Receive(e) PROVE IInv'
    <2>1. pc' = "loaded" /\ env' = e /\ snap' = file /\ Task[e].signed
          /\ UNCHANGED <<now, file, db, mode, runs, startAt>>
      BY <1>7 DEF Receive, Inside, history
    <2>2. TypeOK'
      BY <2>1, <1>t DEF TypeOK, PCs
    <2>3. InHand'
      BY <2>1, <1>t DEF InHand
    <2> QED
      BY <2>1, <2>2, <2>3 DEF IInv
  <1>8. CASE PrepareClock
    BY <1>8, <1>c, IdleKeeps DEF PrepareClock, Preparing
  <1>9. CASE PrepareConflict
    <2>1. DBInv(db') /\ db'.decided = db.decided
      BY <1>c, <1>9, AppendKeeps DEF PrepareConflict
    <2> QED
      BY <1>9, <2>1, IdleKeeps DEF PrepareConflict, Preparing
  <1>10. CASE PrepareCached
    <2>1. /\ pc = "loaded" /\ pc' = "submitting" /\ db' = Clock(db, now)
          /\ UNCHANGED <<now, file, mode, env, snap, runs, startAt>>
      BY <1>10 DEF PrepareCached, Preparing, Step, Inside, history
    <2>2. TypeOK'
      BY <2>1, <1>c, <1>t DEF TypeOK, PCs, DBInv
    <2>3. InHand'
      BY <2>1 DEF IInv, InHand
    <2> QED
      BY <2>1, <2>2, <2>3, <1>c DEF IInv
  <1>11. CASE PrepareAccept
    <2> DEFINE q == Task[env].req
               d == Cleaned(snap)
               i == Insert(d, env, snap, "running")
    <2>1. /\ pc = "loaded" /\ pc' = "accepted" /\ Decidable
          /\ Decision = "running" /\ InsertOK(d, env, "running") /\ db' = i
          /\ startAt' = [startAt EXCEPT ![q] = now]
          /\ UNCHANGED <<now, file, mode, env, snap, runs>>
      BY <1>11 DEF PrepareAccept, Preparing, Step, Inside
    <2>2. env \in Envelopes /\ snap \in Policies /\ Task[env].signed
          /\ q \in Reqs /\ Task[env].expires \in Int
      BY <2>1, EnvelopesAssumption DEF IInv, InHand, TaskRecord
    <2>3. DBInv(d) /\ d.decided = db.decided /\ RunningRows(d) = {}
      BY <1>t, <2>1, <2>2, CleanedKeeps DEF Decidable, Available
    <2> HIDE DEF d
    <2>4. /\ DBInv(i) /\ i.decided = db.decided \cup {q}
          /\ i.exec[q].state = "running" /\ i.exec[q].env = env
          /\ i.exec[q].policy = snap
      BY <1>t, <2>1, <2>2, <2>3, InsertKeeps
    <2>5. /\ now < Task[env].expires /\ Task[env].policy = snap
          /\ Allows(snap, Task[env]) /\ AllowsResource(snap, Task[env])
      BY <1>t, <2>1, <2>2 DEF Decision, Decide
    <2>6. runs[q] = 0
      BY <2>1, <2>2, <2>3 DEF IInv, TypeOK, InsertOK
    <2> HIDE DEF i, q
    <2>7. TypeOK'
      BY <1>t, <2>1, <2>2, <2>4 DEF TypeOK, PCs, DBInv
    <2>8. startAt'[q] = now
      BY <2>1, <2>2, <1>t DEF TypeOK
    <2>9. InHand'
      BY <2>1, <2>2, <2>4, <2>5, <2>6, <2>8
      DEF InHand, Allows, AllowsResource, q
    <2> QED
      BY <2>1, <2>4, <2>7, <2>9 DEF IInv
  <1>12. CASE PrepareReject
    <2> DEFINE q == Task[env].req
               d == Cleaned(snap)
               i == Insert(d, env, snap, Decision)
    <2>1. /\ pc = "loaded" /\ pc' = "submitting" /\ Decidable
          /\ Decision # "running" /\ InsertOK(d, env, Decision) /\ db' = i
          /\ UNCHANGED <<now, file, mode, env, snap, runs, startAt>>
      BY <1>12 DEF PrepareReject, Preparing, Step, Inside, history
    <2>2. env \in Envelopes /\ snap \in Policies /\ Task[env].signed
      BY <2>1 DEF IInv, InHand
    <2>3. DBInv(d) /\ d.decided = db.decided /\ RunningRows(d) = {}
      BY <1>t, <2>1, <2>2, CleanedKeeps DEF Decidable, Available
    <2>4. Decision \in {"running"} \cup Final
      BY DEF Decision, Decide, Final
    <2> HIDE DEF d
    <2>5. DBInv(i) /\ i.decided = db.decided \cup {q}
      BY <1>t, <2>1, <2>2, <2>3, <2>4, InsertKeeps
    <2> HIDE DEF i, q
    <2>6. TypeOK'
      BY <1>t, <2>1, <2>5 DEF TypeOK, PCs, DBInv
    <2>7. InHand'
      BY <2>1, <2>2 DEF InHand
    <2> QED
      BY <2>1, <2>5, <2>6, <2>7 DEF IInv
  <1>13. CASE PrepareFails
    BY <1>t, <1>13, IdleKeeps DEF PrepareFails, Preparing
  <1>14. CASE Begin
    <2> DEFINE q == Task[env].req
    <2>1. /\ pc = "accepted" /\ pc' = "collecting"
          /\ runs' = [runs EXCEPT ![q] = @ + 1]
          /\ UNCHANGED <<now, file, db, mode, env, snap, startAt>>
      BY <1>14 DEF Begin, Step, Inside
    <2>2. InHand /\ q \in Reqs /\ runs[q] = 0
      BY <2>1, EnvelopesAssumption DEF IInv, InHand, TaskRecord
    <2>3. q \in db.decided
      BY <1>t, <2>1, <2>2 DEF InHand, DBInv, Backed
    <2>4. TypeOK'
      BY <1>t, <2>1, <2>2 DEF TypeOK, PCs
    <2>5. \A r \in Reqs : runs'[r] = IF r = q THEN 1 ELSE runs[r]
      BY <1>t, <2>1, <2>2 DEF TypeOK
    <2>6. InHand'
      BY <2>1, <2>2, <2>5 DEF InHand, Allows, AllowsResource
    <2> HIDE DEF q
    <2> QED
      BY <1>t, <2>1, <2>3, <2>4, <2>5, <2>6 DEF IInv
  <1>15. ASSUME NEW from \in {"accepted", "collecting"}, NEW state \in Final,
                Store(from, state)
         PROVE  IInv'
    <2> DEFINE q == Task[env].req
               f == Finish(db, q, state)
    <2>1. /\ pc = from /\ pc' = "submitting" /\ db' = f
          /\ UNCHANGED <<now, file, mode, env, snap, runs, startAt>>
      BY <1>15 DEF Store, Step, Inside, history
    <2>2. InHand /\ q \in Reqs /\ q \in RunningRows(db)
      BY <2>1, EnvelopesAssumption DEF IInv, InHand, TaskRecord, RunningRows
    <2>3. DBInv(f) /\ f.decided = db.decided
      BY <1>t, <2>2, FinishKeeps
    <2> HIDE DEF f, q
    <2>4. TypeOK'
      BY <1>t, <2>1, <2>3 DEF TypeOK, PCs, DBInv
    <2>5. InHand'
      BY <2>1, <2>2 DEF InHand
    <2> QED
      BY <2>1, <2>3, <2>4, <2>5 DEF IInv
  <1>16. CASE StoreFails
    BY <1>t, <1>16, IdleKeeps DEF StoreFails
  <1>17. CASE SubmitAck
    <2>1. Task[env].req \in Reqs
      BY <1>17, EnvelopesAssumption DEF IInv, InHand, SubmitAck, TaskRecord
    <2> QED
      BY <1>t, <1>17, <2>1, AcknowledgeKeeps, IdleKeeps DEF SubmitAck
  <1>18. CASE ReadAudit
    <2>1. UNCHANGED <<now, file, pc, mode, env, snap, runs, startAt>>
          /\ CanAppend(db, 0) /\ db' = Appended(db, 0)
      BY <1>18 DEF ReadAudit, worker, history
    <2>2. DBInv(db') /\ db'.exec = db.exec /\ db'.decided = db.decided
      BY <1>t, <2>1, AppendKeeps
    <2>3. TypeOK'
      BY <1>t, <2>1, <2>2 DEF TypeOK, DBInv
    <2>4. InHand => InHand'
      BY <2>1, <2>2 DEF InHand, Allows, AllowsResource
    <2> QED
      BY <2>1, <2>2, <2>3, <2>4 DEF IInv
  <1>19. CASE SetClock \/ EditPolicy
    <2>1. /\ UNCHANGED <<db, pc, mode, env, snap, runs, startAt>>
          /\ now' \in 1..MaxTime /\ file' \in Policies
      BY <1>19, <1>t DEF SetClock, EditPolicy, worker, history, TypeOK
    <2>2. TypeOK'
      BY <1>t, <2>1 DEF TypeOK
    <2>3. InHand => InHand'
      BY <2>1 DEF InHand, Allows, AllowsResource
    <2> QED
      BY <1>t, <2>1, <2>2, <2>3 DEF IInv
  <1>20. CASE UNCHANGED vars
    BY <1>20 DEF IInv, InHand, TypeOK, vars, worker, history
  <1> QED
    BY <1>1, <1>2, <1>3, <1>4, <1>5, <1>6, <1>7, <1>8, <1>9, <1>10, <1>11,
       <1>12, <1>13, <1>14, <1>15, <1>16, <1>17, <1>18, <1>19, <1>20
    DEF Next, Work, Prepare, StoreExpired, StoreCollected, Final

THEOREM Invariance == Spec => []IInv
  BY InitIInv, NextIInv, PTL DEF Spec

\* Every state of the probe has its type.
THEOREM TypeCorrect == Spec => []TypeOK
  <1>1. IInv => TypeOK
    BY DEF IInv
  <1> QED
    BY <1>1, Invariance, PTL

\* For every number of requests, envelopes and policies and all limits, the
\* collector starts at most once for a request id.
THEOREM AtMostOnceHolds == Spec => []AtMostOnce
  <1>1. IInv => AtMostOnce
    BY DEF IInv, AtMostOnce
  <1> QED
    BY <1>1, Invariance, PTL

\* Reserved audit slots are exactly the running rows and always available.
THEOREM ReservationHolds == Spec => []ReservationExact
  <1>1. IInv => ReservationExact
    <2> SUFFICES ASSUME IInv PROVE ReservationExact
      OBVIOUS
    <2>1. Slot(db) /\ Used(db) <= Capacity
      BY DEF IInv, DBInv
    <2>2. Cardinality({}) = 0 /\ \A r : Cardinality({r}) = 1
      BY FS_EmptySet, FS_Singleton
    <2> QED
      BY <2>1, <2>2 DEF Slot, ReservationExact
  <1> QED
    BY <1>1, Invariance, PTL

\* The collector only works on what was durably accepted and permitted.
THEOREM AuthorizedHolds == Spec => []CollectorAuthorized
  <1>1. IInv => CollectorAuthorized
    <2> SUFFICES ASSUME IInv, pc = "collecting" PROVE CollectorAuthorized
      BY DEF CollectorAuthorized
    <2>1. InHand /\ Task[env].req \in Reqs
      BY EnvelopesAssumption DEF IInv, InHand, TaskRecord
    <2>2. Task[env].req \in db.decided
      BY <2>1 DEF IInv, DBInv, Backed, InHand
    <2> QED
      BY <2>1, <2>2 DEF CollectorAuthorized, InHand
  <1> QED
    BY <1>1, Invariance, PTL

\* What a step does to a database whose clock is blocked.
Latched ==
    db.blocked => /\ db'.blocked
                  /\ db'.decided = db.decided
                  /\ RunningRows(db') \subseteq RunningRows(db)

LEMMA NextLatched == IInv /\ [Next]_vars => Latched
  <1> SUFFICES ASSUME IInv, [Next]_vars, db.blocked
               PROVE  /\ db'.blocked /\ db'.decided = db.decided
                      /\ RunningRows(db') \subseteq RunningRows(db)
    BY DEF Latched
  <1>t. DBInv(db) /\ now \in Nat /\ Clock(db, now) = db
    <2>1. DBInv(db) /\ now \in Nat
      BY LimitsAssumption DEF IInv, TypeOK
    <2> QED
      BY <2>1, ClockKeeps
  <1>1. CASE UNCHANGED db
    BY <1>1
  <1>2. CASE CanAppend(db, 0) /\ db' = Appended(db, 0)
    BY <1>2, <1>t, AppendKeeps DEF RunningRows
  <1>3. ASSUME NEW r \in Reqs, db' = Acknowledged(db, r)
        PROVE  /\ db'.blocked /\ db'.decided = db.decided
               /\ RunningRows(db') \subseteq RunningRows(db)
    BY <1>3, <1>t, AcknowledgeKeeps DEF RunningRows
  <1>4. CASE Open
    BY <1>1, <1>4, <1>t DEF Open
  <1>5. CASE ReadySucceeds \/ ReadyClock \/ ReadyFails
    BY <1>1, <1>5, <1>t DEF ReadySucceeds, ReadyClock, ReadyFails, Checked
  <1>6. CASE Flush
    <2>1. Pending(db) \subseteq Reqs
      BY DEF Pending, Undelivered
    <2> QED
      BY <1>1, <1>3, <1>6, <2>1 DEF Flush
  <1>7. ASSUME NEW e \in Envelopes, ReceiveInvalid(e) \/ Receive(e)
        PROVE  UNCHANGED db \/ (CanAppend(db, 0) /\ db' = Appended(db, 0))
    BY <1>7 DEF ReceiveInvalid, Receive
  <1>8. CASE Prepare
    BY <1>1, <1>8, <1>t
    DEF Prepare, PrepareClock, PrepareConflict, PrepareCached, PrepareAccept,
        PrepareReject, PrepareFails, Trusted, Decidable
  <1>9. ASSUME NEW from \in {"accepted", "collecting"}, NEW state \in Final,
               Store(from, state)
        PROVE  /\ db'.blocked /\ db'.decided = db.decided
               /\ RunningRows(db') \subseteq RunningRows(db)
    <2>1. Task[env].req \in RunningRows(db)
      BY <1>9, EnvelopesAssumption
      DEF IInv, InHand, Store, Step, TaskRecord, RunningRows
    <2>2. db' = Finish(db, Task[env].req, state)
      BY <1>9 DEF Store
    <2> QED
      BY <1>t, <2>1, <2>2, FinishKeeps
  <1>10. CASE SubmitAck
    <2>1. Task[env].req \in Reqs /\ db' = Acknowledged(db, Task[env].req)
      BY <1>10, EnvelopesAssumption DEF IInv, InHand, SubmitAck, TaskRecord
    <2> QED
      BY <1>3, <2>1
  <1>11. CASE ReadAudit
    BY <1>2, <1>11 DEF ReadAudit
  <1>12. CASE \/ Crash \/ NetworkFails \/ Begin \/ StoreFails \/ SetClock
              \/ EditPolicy \/ UNCHANGED vars
    BY <1>1, <1>12
    DEF Crash, NetworkFails, Begin, StoreFails, SetClock, EditPolicy, vars
  <1> QED
    BY <1>1, <1>2, <1>4, <1>5, <1>6, <1>7, <1>8, <1>9, <1>10, <1>11, <1>12
    DEF Next, Work, StoreExpired, StoreCollected, Final

\* Once latched, the clock block ends the acceptance of tasks for good.
THEOREM LatchHolds == Spec => ClockLatched
  <1>1. IInv /\ [Next]_vars =>
            [db.blocked => /\ db'.blocked
                           /\ db'.decided = db.decided
                           /\ RunningRows(db') \subseteq RunningRows(db)]_vars
    BY NextLatched DEF Latched
  <1> QED
    BY <1>1, Invariance, PTL DEF Spec, ClockLatched
=============================================================================
