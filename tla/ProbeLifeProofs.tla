-------------------------- MODULE ProbeLifeProofs --------------------------
(***************************************************************************)
(* What a request goes through on the probe, proved from the invariant of  *)
(* ProbeProofs: the probe implements TaskLife, it accepts tasks in the     *)
(* order of time up to the skew, and the rate limits hold over every       *)
(* window.                                                                 *)
(*                                                                         *)
(* Each of these needs to know, of every step, what becomes of the rows    *)
(* and of the history.  There are six kinds of change (Quiet to Delivers), *)
(* and lemma NextChange says that every step is one of them; the theorems  *)
(* then go by these six cases, not by the twenty actions.                  *)
(***************************************************************************)
EXTENDS ProbeProofs

\* The highest second only grows; with ~blocked it covers the clock.
Onward == db'.high >= db.high

Timely ==
    /\ Onward /\ db'.high >= now
    /\ now >= db.high - MaxClockSkew
    /\ now >= db'.high - MaxClockSkew

\* The rows that capacity() removes, and what it leaves.
Prunable(r) ==
    /\ db.exec[r].delivered
    /\ db.exec[r].state \notin {"running", "indeterminate"}
    /\ Task[db.exec[r].env].expires < now - Retention

Left == [r \in Reqs |-> IF Prunable(r) THEN NoRow ELSE db.exec[r]]

\* No row and no decision changes.
Quiet ==
    /\ db'.exec = db.exec /\ db'.decided = db.decided /\ Onward
    /\ UNCHANGED history

\* Rows are pruned.
Cleans ==
    /\ db'.exec = Left /\ db'.decided = db.decided /\ Timely
    /\ UNCHANGED history

\* A row that an envelope was accepted or refused with.
NewRow(e, p, s) ==
    [state |-> s, env |-> e, policy |-> p, acc |-> now,
     executed |-> s = "running", delivered |-> FALSE]

Entered(x, e, p, s) == [x EXCEPT ![Task[e].req] = NewRow(e, p, s)]

\* Executions that are left and count against a limit.
Counted(window) ==
    {r \in Reqs : Left[r].executed /\ Left[r].acc > now - window}

\* A request is decided, after pruning.
Decides(e, p, s) ==
    LET q == Task[e].req
    IN  /\ q \notin db.decided /\ db.exec[q].state = "none"
        /\ RunningRows(db) = {}
        /\ db'.exec = Entered(Left, e, p, s)
        /\ db'.decided = db.decided \cup {q}
        /\ Timely /\ UNCHANGED runs
        /\ s = "running" =>
              /\ startAt' = [startAt EXCEPT ![q] = now]
              /\ now < Task[e].expires
              /\ Cardinality(Counted(Minute)) < Pol[p].perMinute
              /\ Cardinality(Counted(Second)) < Pol[p].burst
        /\ s # "running" => UNCHANGED startAt

\* A collector starts.
Starts(r) ==
    /\ db.exec[r].state = "running" /\ runs[r] = 0
    /\ runs' = [runs EXCEPT ![r] = 1]
    /\ UNCHANGED <<db, startAt>>

\* An outcome is written.
Finishes(r, s) ==
    /\ db.exec[r].state = "running"
    /\ s \in IF runs[r] = 1 THEN {"succeeded", "failed", "indeterminate"}
             ELSE {"expired", "indeterminate"}
    /\ db'.exec = [db.exec EXCEPT ![r].state = s]
    /\ db'.decided = db.decided /\ Onward
    /\ UNCHANGED history

\* A result is acknowledged.
Delivers(r) ==
    /\ db.exec[r].state \in Final
    /\ db'.exec = [db.exec EXCEPT ![r].delivered = TRUE]
    /\ db'.decided = db.decided /\ Onward
    /\ UNCHANGED history

Change ==
    \/ Quiet \/ Cleans
    \/ \E e \in Envelopes, p \in Policies, s \in {"running", "rejected", "expired"} :
          Decides(e, p, s)
    \/ \E r \in Reqs : Starts(r) \/ Delivers(r) \/ \E s \in Final : Finishes(r, s)

-----------------------------------------------------------------------------
(* Every step is one of the six.                                           *)

\* The clock of a transaction: what it leaves alone, and what it has checked
\* when it does not block.
LEMMA ClockChecks ==
    ASSUME NEW d, DBInv(d), NEW t \in Nat
    PROVE  /\ Clock(d, t).exec = d.exec /\ Clock(d, t).decided = d.decided
           /\ Clock(d, t).high >= d.high
           /\ ~Clock(d, t).blocked => /\ Clock(d, t).high >= t
                                      /\ t >= d.high - MaxClockSkew
                                      /\ t >= Clock(d, t).high - MaxClockSkew
  <1>1. /\ d \in DB /\ d.high \in Nat /\ d.blocked \in BOOLEAN
        /\ d.seq \in Nat /\ d.reserved \in Nat
    BY DEF DBInv, DB
  <1>2. Clock(d, t).exec = d.exec /\ Clock(d, t).decided = d.decided
    BY ClockKeeps
  <1>3. CASE d.blocked
    <2>1. Clock(d, t) = d
      BY <1>3, ClockKeeps
    <2>2. Clock(d, t).blocked /\ Clock(d, t).high = d.high
      BY <1>3, <2>1, Zenon
    <2>3. Clock(d, t).high >= d.high
      BY <1>1, <2>2
    <2> QED
      BY <1>2, <2>2, <2>3
  <1>4. CASE ~d.blocked /\ t < d.high - MaxClockSkew
    <2> DEFINE b == [d EXCEPT !.blocked = TRUE]
    <2>1. b \in DB /\ b.high = d.high /\ b.blocked
      BY <1>1 DEF DB
    <2>2. Clock(d, t) = b \/ Clock(d, t) = Appended(b, 0)
      BY <1>4 DEF Clock
    <2> HIDE DEF b
    <2>3. Appended(b, 0).high = b.high /\ Appended(b, 0).blocked = b.blocked
      BY <2>1 DEF Appended, DB
    <2>4. Clock(d, t).blocked /\ Clock(d, t).high = d.high
      BY <2>1, <2>2, <2>3, Zenon
    <2>5. Clock(d, t).high >= d.high
      BY <1>1, <2>4
    <2> QED
      BY <1>2, <2>4, <2>5
  <1>5. CASE ~d.blocked /\ ~(t < d.high - MaxClockSkew)
    <2>1. Clock(d, t) = [d EXCEPT !.high = IF t > @ THEN t ELSE @]
      BY <1>5 DEF Clock
    <2>2. Clock(d, t).high = IF t > d.high THEN t ELSE d.high
      BY <1>1, <2>1 DEF DB
    <2> QED
      BY <1>1, <1>2, <1>5, <2>2, LimitsAssumption
  <1> QED
    BY <1>3, <1>4, <1>5

\* An append changes no row and no clock.
LEMMA AppendQuiet ==
    ASSUME NEW d \in DB, NEW k \in Int
    PROVE  /\ Appended(d, k).exec = d.exec /\ Appended(d, k).decided = d.decided
           /\ Appended(d, k).high = d.high
  BY DEF Appended, DB

\* What the first half of a deciding transaction leaves.
LEMMA CleanedLeaves ==
    ASSUME IInv, NEW p \in Policies, PolicyOK(Clock(db, now), p),
           ~Clock(db, now).blocked
    PROVE  /\ Cleaned(p) \in DB /\ Cleaned(p).exec = Left
           /\ Cleaned(p).decided = db.decided
           /\ Cleaned(p).high >= db.high /\ Cleaned(p).high >= now
           /\ now >= db.high - MaxClockSkew
           /\ now >= Cleaned(p).high - MaxClockSkew
  <1> DEFINE c == Clock(db, now)
             o == Policy(c, p)
  <1>1. DBInv(db) /\ now \in Nat /\ TypeOK
    BY LimitsAssumption DEF IInv, TypeOK
  <1>2. /\ DBInv(c) /\ c \in DB /\ c.exec = db.exec /\ c.decided = db.decided
        /\ c.high >= db.high /\ c.high >= now /\ now >= db.high - MaxClockSkew
        /\ now >= c.high - MaxClockSkew
    BY <1>1, ClockKeeps, ClockChecks DEF DBInv
  <1> HIDE DEF c
  <1>3. o \in DB /\ o.exec = c.exec /\ o.decided = c.decided /\ o.high = c.high
    <2>1. CASE c.policy = p
      BY <1>2, <2>1 DEF Policy
    <2>2. CASE c.policy # p
      <3>1. o = [Appended(c, 0) EXCEPT !.policy = p]
        BY <2>2 DEF Policy
      <3>2. Appended(c, 0) \in DB
        <4>1. CanAppend(c, 0)
          BY <2>2 DEF PolicyOK, c
        <4> QED
          BY <1>2, <4>1, AppendKeeps DEF DBInv
      <3>3. o.exec = Appended(c, 0).exec /\ o.decided = Appended(c, 0).decided
            /\ o.high = Appended(c, 0).high /\ o \in DB
        BY <3>1, <3>2 DEF DB
      <3> QED
        BY <1>2, <3>3, AppendQuiet
    <2> QED
      BY <2>1, <2>2
  <1> HIDE DEF o
  <1>4. Cleaned(p) = Prune(o, now)
    BY DEF Cleaned, o, c
  <1>5. /\ Prune(o, now).exec
              = [r \in Reqs |->
                   IF /\ o.exec[r].delivered
                      /\ o.exec[r].state \notin {"running", "indeterminate"}
                      /\ Task[o.exec[r].env].expires < now - Retention
                   THEN NoRow ELSE o.exec[r]]
        /\ Prune(o, now).decided = o.decided /\ Prune(o, now).high = o.high
    BY <1>3 DEF Prune, DB
  <1>6. Prune(o, now).exec = Left
    BY <1>2, <1>3, <1>5 DEF Left, Prunable
  <1>7. DBInv(Cleaned(p))
    BY <1>1, CleanedKeeps DEF c
  <1> QED
    BY <1>2, <1>3, <1>4, <1>5, <1>6, <1>7 DEF DBInv

\* A finished row: only its state changes.
LEMMA FinishChanges ==
    ASSUME NEW d, DBInv(d), NEW r \in RunningRows(d), NEW s \in Final
    PROVE  /\ Finish(d, r, s).exec = [d.exec EXCEPT ![r].state = s]
           /\ Finish(d, r, s).decided = d.decided /\ Finish(d, r, s).high = d.high
  <1>1. d \in DB
    BY DEF DBInv
  <1>2. Appended(d, -1).exec = d.exec /\ Appended(d, -1).decided = d.decided
        /\ Appended(d, -1).high = d.high
    BY <1>1, AppendQuiet
  <1>3. DOMAIN Appended(d, -1) = DOMAIN d
    BY <1>1 DEF Appended
  <1>4. Finish(d, r, s) = [Appended(d, -1) EXCEPT !.exec[r].state = s]
    BY DEF Finish
  <1>5. DOMAIN d = {"high", "blocked", "policy", "exec", "decided", "seq", "reserved"}
    BY <1>1 DEF DB
  <1> QED
    BY <1>2, <1>3, <1>4, <1>5

\* An acknowledged row: only its mark changes.
LEMMA AcknowledgeChanges ==
    ASSUME NEW d \in DB, NEW r \in Reqs
    PROVE  /\ Acknowledged(d, r).exec = [d.exec EXCEPT ![r].delivered = TRUE]
           /\ Acknowledged(d, r).decided = d.decided
           /\ Acknowledged(d, r).high = d.high
  BY DEF Acknowledged, DB

\* An insert that decides.
LEMMA InsertChanges ==
    ASSUME NEW d \in DB, NEW e \in Envelopes, NEW p, NEW s
    PROVE  /\ Insert(d, e, p, s).exec = Entered(d.exec, e, p, s)
           /\ Insert(d, e, p, s).decided = d.decided \cup {Task[e].req}
           /\ Insert(d, e, p, s).high = d.high
  <1> DEFINE k == IF s = "running" THEN 1 ELSE 0
             a == Appended(d, k)
             q == Task[e].req
  <1>1. a.exec = d.exec /\ a.decided = d.decided /\ a.high = d.high
    BY AppendQuiet
  <1>2. DOMAIN a = DOMAIN d
    BY DEF Appended
  <1>3. DOMAIN d = {"high", "blocked", "policy", "exec", "decided", "seq", "reserved"}
    BY DEF DB
  <1>4. Insert(d, e, p, s) = [a EXCEPT !.exec[q] = NewRow(e, p, s),
                                       !.decided = @ \cup {q}]
    BY DEF Insert, NewRow
  <1> HIDE DEF a, q
  <1> QED
    BY <1>1, <1>2, <1>3, <1>4 DEF q, Entered

\* PrepareAccept and PrepareReject decide.
LEMMA PrepareDecides ==
    ASSUME IInv, PrepareAccept \/ PrepareReject
    PROVE  \E e \in Envelopes, p \in Policies,
              s \in {"running", "rejected", "expired"} : Decides(e, p, s)
  <1> DEFINE q == Task[env].req
             c == Cleaned(snap)
             s == Decision
  <1>1. /\ pc = "loaded" /\ Decidable /\ InsertOK(c, env, s)
        /\ db' = Insert(c, env, snap, s) /\ UNCHANGED runs
    BY DEF PrepareAccept, PrepareReject, Preparing, history
  <1>2. /\ s = "running" => startAt' = [startAt EXCEPT ![q] = now]
        /\ s # "running" => UNCHANGED startAt
    BY DEF PrepareAccept, PrepareReject, history
  <1>3. env \in Envelopes /\ snap \in Policies /\ q \in Reqs
    BY <1>1, EnvelopesAssumption DEF IInv, InHand, TaskRecord
  <1>4. /\ ~Clock(db, now).blocked /\ PolicyOK(Clock(db, now), snap)
        /\ RunningRows(c) = {} /\ db.exec[q].state = "none"
    BY <1>1 DEF Decidable, Trusted, Available, Known
  <1>5. /\ c \in DB /\ c.exec = Left /\ c.decided = db.decided
        /\ c.high >= db.high /\ c.high >= now /\ now >= db.high - MaxClockSkew
        /\ now >= c.high - MaxClockSkew
    BY <1>3, <1>4, CleanedLeaves
  <1>6. RunningRows(db) = {}
    BY <1>3, <1>4, CleanedKeeps DEF IInv
  <1>7. /\ s \in {"running", "rejected", "expired"}
        /\ s = "running" => /\ ~(now >= Task[env].expires)
                            /\ ~(Cardinality(Recent(c, Minute)) >= Pol[snap].perMinute)
                            /\ ~(Cardinality(Recent(c, Second)) >= Pol[snap].burst)
    BY DEF Decision, Decide
  <1>8. Recent(c, Minute) = Counted(Minute) /\ Recent(c, Second) = Counted(Second)
    BY <1>5 DEF Recent, Counted
  <1>9. /\ Cardinality(Counted(Minute)) \in Nat /\ Cardinality(Counted(Second)) \in Nat
        /\ Pol[snap].perMinute \in Nat /\ Pol[snap].burst \in Nat
        /\ now \in Nat /\ Task[env].expires \in Int
    <2>1. \A S \in SUBSET Reqs : Cardinality(S) \in Nat
      BY ReqsAssumption, FS_Subset, FS_CardinalityType
    <2>2. Counted(Minute) \in SUBSET Reqs /\ Counted(Second) \in SUBSET Reqs
      BY DEF Counted
    <2> QED
      BY <1>3, <2>1, <2>2, PoliciesAssumption, EnvelopesAssumption, LimitsAssumption
      DEF PolicyRecord, TaskRecord, IInv, TypeOK
  <1>10. s = "running" => /\ now < Task[env].expires
                          /\ Cardinality(Counted(Minute)) < Pol[snap].perMinute
                          /\ Cardinality(Counted(Second)) < Pol[snap].burst
    BY <1>7, <1>8, <1>9
  <1>11. /\ db'.exec = Entered(Left, env, snap, s)
         /\ db'.decided = db.decided \cup {q} /\ db'.high = c.high
    <2> HIDE DEF c, s
    <2>1. /\ Insert(c, env, snap, s).exec = Entered(c.exec, env, snap, s)
          /\ Insert(c, env, snap, s).decided = c.decided \cup {q}
          /\ Insert(c, env, snap, s).high = c.high
      BY <1>3, <1>5, InsertChanges
    <2> QED
      BY <1>1, <1>5, <2>1
  <1>12. q \notin db.decided
    BY <1>1, <1>5 DEF InsertOK
  <1> HIDE DEF c, s
  <1>13. Timely
    BY <1>5, <1>11 DEF Timely, Onward
  <1>14. Decides(env, snap, s)
    BY <1>1, <1>2, <1>4, <1>6, <1>10, <1>11, <1>12, <1>13 DEF Decides
  <1> QED
    BY <1>3, <1>7, <1>14

\* Open leaves the rows alone or finishes the one that was left running.
LEMMA OpenChanges ==
    ASSUME IInv, Open
    PROVE  Quiet \/ \E r \in Reqs : Finishes(r, "indeterminate")
  <1> DEFINE d == Clock(db, now)
  <1>1. DBInv(db) /\ now \in Nat /\ db.high \in Nat
    BY LimitsAssumption DEF IInv, TypeOK, DB
  <1>2. /\ DBInv(d) /\ d.exec = db.exec /\ d.decided = db.decided
        /\ d.high >= db.high
    BY <1>1, ClockKeeps, ClockChecks
  <1>3. (db' = db \/ db' = d \/ db' = Recovered(d)) /\ UNCHANGED history
    BY DEF Open
  <1> HIDE DEF d
  <1>4. CASE db' = db \/ db' = d
    <2>1. db'.high >= db.high
      BY <1>1, <1>2, <1>4
    <2> QED
      BY <1>2, <1>3, <1>4, <2>1 DEF Quiet, Onward
  <1>5. CASE db' = Recovered(d) /\ RunningRows(d) = {}
    <2>1. db' = d
      BY <1>5 DEF Recovered
    <2> QED
      BY <1>4, <2>1
  <1>6. CASE db' = Recovered(d) /\ RunningRows(d) # {}
    <2> DEFINE r == CHOOSE r \in RunningRows(d) : TRUE
    <2>1. r \in RunningRows(d)
      BY <1>6
    <2>2. db' = Finish(d, r, "indeterminate")
      BY <1>6 DEF Recovered
    <2> HIDE DEF r
    <2>3. r \in Reqs /\ db.exec[r].state = "running"
      BY <1>2, <2>1 DEF RunningRows
    <2>4. /\ db'.exec = [db.exec EXCEPT ![r].state = "indeterminate"]
          /\ db'.decided = db.decided /\ db'.high >= db.high
      <3>1. /\ Finish(d, r, "indeterminate").exec = [d.exec EXCEPT ![r].state = "indeterminate"]
            /\ Finish(d, r, "indeterminate").decided = d.decided
            /\ Finish(d, r, "indeterminate").high = d.high
        BY <1>2, <2>1, FinishChanges DEF Final
      <3> QED
        BY <1>2, <2>2, <3>1
    <2>5. Finishes(r, "indeterminate")
      BY <1>3, <2>3, <2>4 DEF Finishes, Onward
    <2> QED
      BY <2>3, <2>5
  <1> QED
    BY <1>3, <1>4, <1>5, <1>6

\* Every step of the probe changes rows and history in one of the six ways.
LEMMA NextChange == IInv /\ [Next]_vars => Change
  <1> SUFFICES ASSUME IInv, [Next]_vars PROVE Change
    OBVIOUS
  <1>1. DBInv(db) /\ db \in DB /\ now \in Nat /\ db.high \in Nat /\ file \in Policies
    BY LimitsAssumption DEF IInv, TypeOK, DB
  <1>2. ASSUME UNCHANGED history,
               db' = db \/ db' = Clock(db, now) \/ db' = Appended(db, 0)
                        \/ db' = Appended(Clock(db, now), 0)
        PROVE  Quiet
    <2>1. /\ Clock(db, now).exec = db.exec /\ Clock(db, now).decided = db.decided
          /\ Clock(db, now).high >= db.high /\ Clock(db, now) \in DB
      BY <1>1, ClockKeeps, ClockChecks DEF DBInv
    <2>2. /\ db'.exec = db.exec /\ db'.decided = db.decided
          /\ db'.high = db.high \/ db'.high = Clock(db, now).high
      BY <1>1, <1>2, <2>1, AppendQuiet
    <2>3. db'.high >= db.high
      BY <1>1, <2>1, <2>2
    <2> QED
      BY <1>2, <2>2, <2>3 DEF Quiet, Onward
  <1>3. CASE Open
    BY <1>3, OpenChanges DEF Change, Final
  <1>4. CASE ReadySucceeds
    <2>1. /\ ~Clock(db, now).blocked /\ PolicyOK(Clock(db, now), file)
          /\ db' = Cleaned(file) /\ UNCHANGED history
      BY <1>4 DEF ReadySucceeds, Checked, Available
    <2>2. Cleans
      BY <1>1, <2>1, CleanedLeaves DEF Cleans, Timely, Onward
    <2> QED
      BY <2>2 DEF Change
  <1>5. CASE ReadyClock \/ ReadyFails
    BY <1>2, <1>5 DEF ReadyClock, ReadyFails, Checked, Change
  <1>6. ASSUME NEW r \in Reqs, db.exec[r].state \in Final,
               db' = Acknowledged(db, r), UNCHANGED history
        PROVE  Change
    <2>1. Delivers(r)
      BY <1>1, <1>6, AcknowledgeChanges DEF Delivers, Onward
    <2> QED
      BY <1>6, <2>1 DEF Change
  <1>7. CASE Flush
    <2>1. UNCHANGED history
      BY <1>7 DEF Flush
    <2>2. CASE UNCHANGED db
      BY <1>2, <2>1, <2>2 DEF Change
    <2>3. ASSUME NEW r \in Pending(db), db' = Acknowledged(db, r)
          PROVE  Change
      BY <1>6, <2>1, <2>3 DEF Pending, Undelivered
    <2> QED
      BY <1>7, <2>2, <2>3 DEF Flush
  <1>8. ASSUME NEW e \in Envelopes, ReceiveInvalid(e) \/ Receive(e)
        PROVE  Change
    BY <1>2, <1>8 DEF ReceiveInvalid, Receive, Change
  <1>9. CASE PrepareClock \/ PrepareConflict \/ PrepareCached \/ PrepareFails
    BY <1>2, <1>9
    DEF PrepareClock, PrepareConflict, PrepareCached, PrepareFails, Change
  <1>10. CASE PrepareAccept \/ PrepareReject
    BY <1>10, PrepareDecides DEF Change
  <1>11. CASE Begin
    <2> DEFINE q == Task[env].req
    <2>1. /\ pc = "accepted" /\ runs' = [runs EXCEPT ![q] = @ + 1]
          /\ UNCHANGED <<db, startAt>>
      BY <1>11 DEF Begin, Step
    <2>2. q \in Reqs /\ runs[q] = 0 /\ db.exec[q].state = "running"
      BY <2>1, EnvelopesAssumption DEF IInv, InHand, TaskRecord
    <2>3. runs' = [runs EXCEPT ![q] = 1]
      BY <2>1, <2>2
    <2>4. Starts(q)
      BY <2>1, <2>2, <2>3 DEF Starts
    <2> QED
      BY <2>2, <2>4 DEF Change
  <1>12. ASSUME NEW from, NEW s \in Final, Store(from, s),
                \/ from = "accepted" /\ s = "expired"
                \/ from = "collecting" /\ s \in {"succeeded", "failed"}
         PROVE  Change
    <2> DEFINE q == Task[env].req
    <2>1. pc = from /\ db' = Finish(db, q, s) /\ UNCHANGED history
      BY <1>12 DEF Store, Step
    <2>2. /\ q \in Reqs /\ db.exec[q].state = "running"
          /\ pc = "accepted" => runs[q] = 0
          /\ pc = "collecting" => runs[q] = 1
      BY <1>12, <2>1, EnvelopesAssumption DEF IInv, InHand, TaskRecord
    <2>3. q \in RunningRows(db)
      BY <2>2 DEF RunningRows
    <2>4. /\ db'.exec = [db.exec EXCEPT ![q].state = s]
          /\ db'.decided = db.decided /\ db'.high = db.high
      BY <1>1, <2>1, <2>3, FinishChanges
    <2>5. db'.high >= db.high
      BY <1>1, <2>4
    <2> HIDE DEF q
    <2>6. Finishes(q, s)
      BY <1>12, <2>1, <2>2, <2>4, <2>5 DEF Finishes, Onward
    <2> QED
      BY <2>2, <2>6 DEF Change
  <1>13. CASE SubmitAck
    <2>1. /\ pc = "submitting" /\ Known.state \in Final
          /\ db' = Acknowledged(db, Task[env].req) /\ UNCHANGED history
      BY <1>13 DEF SubmitAck
    <2>2. Task[env].req \in Reqs
      BY <2>1, EnvelopesAssumption DEF IInv, InHand, TaskRecord
    <2> QED
      BY <1>6, <2>1, <2>2 DEF Known
  <1>14. CASE \/ Crash \/ NetworkFails \/ StoreFails \/ ReadAudit \/ SetClock
              \/ EditPolicy \/ UNCHANGED vars
    BY <1>2, <1>14
    DEF Crash, NetworkFails, StoreFails, ReadAudit, SetClock, EditPolicy, vars, Change
  <1>15. StoreExpired \/ StoreCollected => Change
    BY <1>12 DEF StoreExpired, StoreCollected, Final
  <1> QED
    BY <1>3, <1>4, <1>5, <1>7, <1>8, <1>9, <1>10, <1>11, <1>13, <1>14, <1>15
    DEF Next, Work, Prepare

-----------------------------------------------------------------------------
(* The history in the rows.                                                *)

\* A row is marked delivered only when it is final, and is no newer than the
\* highest second h.  A request accepted at second s still has its row, which
\* counts against the rate limits, or was pruned a retention period later.
Sound(row, h, s) ==
    /\ row.delivered => row.state \in Final
    /\ row.state # "none" => row.acc <= h
    /\ s # 0 /\ row.state # "none" =>
          row.executed /\ row.acc = s /\ s < Task[row.env].expires
    /\ s # 0 /\ row.state = "none" => s < h - Retention

HInv ==
    /\ IInv
    /\ \A r \in Reqs : /\ Sound(db.exec[r], db.high, startAt[r])
                       /\ startAt[r] # 0 => r \in db.decided

\* Rows stay sound as time goes on.
LEMMA SoundLater ==
    ASSUME NEW row \in Row, NEW h \in Nat, NEW k \in Nat, NEW s \in Nat,
           k >= h, Sound(row, h, s)
    PROVE  Sound(row, k, s)
  <1>1. row.acc \in Nat /\ Retention \in Nat
    BY LimitsAssumption DEF Row
  <1>2. row.delivered => row.state \in Final
    BY DEF Sound
  <1>3. s # 0 /\ row.state # "none" =>
          row.executed /\ row.acc = s /\ s < Task[row.env].expires
    BY DEF Sound
  <1>4. row.state # "none" => row.acc <= k
    BY <1>1 DEF Sound
  <1>5. s # 0 /\ row.state = "none" => s < k - Retention
    BY <1>1 DEF Sound
  <1> QED
    BY <1>2, <1>3, <1>4, <1>5 DEF Sound

\* What pruning leaves is sound: a pruned row expired a retention period ago.
LEMMA LeftSound ==
    ASSUME HInv, Timely, db'.high \in Nat, NEW r \in Reqs
    PROVE  Left[r] \in Row /\ Sound(Left[r], db'.high, startAt[r])
  <1>1. /\ db.exec[r] \in Row /\ db.high \in Nat /\ startAt[r] \in Nat /\ now \in Nat
        /\ Sound(db.exec[r], db.high, startAt[r])
        /\ db.exec[r].state # "none" => db.exec[r].env \in Envelopes
    BY LimitsAssumption DEF HInv, IInv, DBInv, Backed, TypeOK, DB
  <1>2. db'.high >= db.high /\ db'.high >= now
    BY DEF Timely, Onward
  <1>3. CASE ~Prunable(r)
    <2>1. Left[r] = db.exec[r]
      BY <1>3 DEF Left
    <2> QED
      BY <1>1, <1>2, <2>1, SoundLater
  <1>4. CASE Prunable(r)
    <2>1. Left[r] = NoRow
      BY <1>4 DEF Left
    <2>2. NoRow \in Row /\ NoRow.state = "none" /\ ~NoRow.delivered
      BY DEF NoRow, Row
    <2>3. db.exec[r].state # "none"
      BY <1>1, <1>4 DEF Prunable, Sound, Final
    <2>4. Task[db.exec[r].env].expires \in Int
      BY <1>1, <2>3, EnvelopesAssumption DEF TaskRecord
    <2>5. /\ startAt[r] # 0 => startAt[r] < Task[db.exec[r].env].expires
          /\ Task[db.exec[r].env].expires < now - Retention
      BY <1>1, <1>4, <2>3 DEF Sound, Prunable
    <2>6. startAt[r] # 0 => startAt[r] < db'.high - Retention
      BY <1>1, <1>2, <2>4, <2>5, LimitsAssumption
    <2> QED
      BY <2>1, <2>2, <2>6 DEF Sound
  <1> QED
    BY <1>3, <1>4

\* It holds at first.
LEMMA InitHInv == Init => HInv
  <1> SUFFICES ASSUME Init PROVE HInv
    OBVIOUS
  <1>1. \A r \in Reqs : db.exec[r] = NoRow /\ startAt[r] = 0
    BY DEF Init
  <1>2. NoRow.state = "none" /\ ~NoRow.delivered
    BY DEF NoRow
  <1> QED
    BY <1>1, <1>2, InitIInv DEF HInv, Sound

\* Every step keeps it.
LEMMA NextHInv == HInv /\ [Next]_vars => HInv'
  <1> SUFFICES ASSUME HInv, [Next]_vars PROVE HInv'
    OBVIOUS
  <1>1. IInv /\ IInv' /\ Change
    BY NextIInv, NextChange DEF HInv
  <1>2. /\ db \in DB /\ db' \in DB /\ db.high \in Nat /\ db'.high \in Nat
        /\ now \in Nat /\ startAt \in [Reqs -> Nat] /\ startAt' \in [Reqs -> Nat]
    BY <1>1, LimitsAssumption DEF IInv, TypeOK, DB
  <1>3. \A r \in Reqs : db.exec[r] \in Row /\ db'.exec[r] \in Row
    BY <1>2 DEF DB
  <1> SUFFICES ASSUME NEW x \in Reqs
               PROVE  /\ Sound(db'.exec[x], db'.high, startAt'[x])
                      /\ startAt'[x] # 0 => x \in db'.decided
    BY <1>1 DEF HInv
  <1>4. /\ Sound(db.exec[x], db.high, startAt[x])
        /\ startAt[x] # 0 => x \in db.decided
    BY DEF HInv
  <1>5. CASE Quiet
    <2>1. /\ db'.exec[x] = db.exec[x] /\ startAt'[x] = startAt[x]
          /\ db'.high >= db.high /\ db'.decided = db.decided
      BY <1>5 DEF Quiet, Onward, history
    <2> QED
      BY <1>2, <1>3, <1>4, <2>1, SoundLater
  <1>6. CASE Cleans
    <2>1. /\ db'.exec[x] = Left[x] /\ startAt'[x] = startAt[x] /\ Timely
          /\ db'.decided = db.decided
      BY <1>6 DEF Cleans, history
    <2> QED
      BY <1>2, <1>4, <2>1, LeftSound
  <1>7. ASSUME NEW e \in Envelopes, NEW p \in Policies,
               NEW s \in {"running", "rejected", "expired"}, Decides(e, p, s)
        PROVE  /\ Sound(db'.exec[x], db'.high, startAt'[x])
               /\ startAt'[x] # 0 => x \in db'.decided
    <2> DEFINE q == Task[e].req
    <2>1. /\ q \notin db.decided /\ db'.exec = Entered(Left, e, p, s)
          /\ db'.decided = db.decided \cup {q} /\ Timely
          /\ s = "running" => /\ startAt' = [startAt EXCEPT ![q] = now]
                              /\ now < Task[e].expires
          /\ s # "running" => startAt' = startAt
      BY <1>7 DEF Decides
    <2>2. q \in Reqs
      BY EnvelopesAssumption DEF TaskRecord
    <2> HIDE DEF q
    <2>3. CASE x # q
      <3>1. db'.exec[x] = Left[x]
        BY <2>1, <2>2, <2>3 DEF Entered, Left, q
      <3>2. startAt'[x] = startAt[x]
        BY <1>2, <2>1, <2>3
      <3> QED
        BY <1>2, <1>4, <2>1, <3>1, <3>2, LeftSound
    <2>4. CASE x = q
      <3>1. db'.exec[x] = NewRow(e, p, s)
        BY <2>1, <2>2, <2>4 DEF Entered, Left, q
      <3>2. /\ NewRow(e, p, s).state = s /\ ~NewRow(e, p, s).delivered
            /\ NewRow(e, p, s).acc = now /\ NewRow(e, p, s).env = e
            /\ s = "running" => NewRow(e, p, s).executed
        BY DEF NewRow
      <3>3. startAt[x] = 0
        BY <1>4, <2>1, <2>4
      <3>4. startAt'[x] = IF s = "running" THEN now ELSE 0
        BY <1>2, <2>1, <2>2, <2>4, <3>3
      <3>5. db'.high >= now
        BY <2>1 DEF Timely
      <3> HIDE DEF NewRow
      <3>6. CASE s = "running"
        <4>1. now < Task[e].expires /\ startAt'[x] = now
          BY <2>1, <3>4, <3>6
        <4> QED
          BY <2>1, <2>4, <3>1, <3>2, <3>5, <3>6, <4>1 DEF Sound
      <3>7. CASE s # "running"
        <4>1. startAt'[x] = 0
          BY <3>4, <3>7
        <4> QED
          BY <3>1, <3>2, <3>5, <4>1 DEF Sound
      <3> QED
        BY <3>6, <3>7
    <2> QED
      BY <2>3, <2>4
  <1>8. ASSUME NEW r \in Reqs, Starts(r)
        PROVE  /\ Sound(db'.exec[x], db'.high, startAt'[x])
               /\ startAt'[x] # 0 => x \in db'.decided
    BY <1>4, <1>8 DEF Starts
  <1>9. ASSUME NEW r \in Reqs, NEW s \in Final, Finishes(r, s)
        PROVE  /\ Sound(db'.exec[x], db'.high, startAt'[x])
               /\ startAt'[x] # 0 => x \in db'.decided
    <2>1. /\ db.exec[r].state = "running" /\ db'.exec = [db.exec EXCEPT ![r].state = s]
          /\ db'.decided = db.decided /\ db'.high >= db.high /\ startAt' = startAt
      BY <1>9 DEF Finishes, Onward, history
    <2>2. CASE x # r
      <3>1. db'.exec[x] = db.exec[x]
        BY <1>2, <2>1, <2>2 DEF DB
      <3> QED
        BY <1>2, <1>3, <1>4, <2>1, <3>1, SoundLater
    <2>3. CASE x = r
      <3>1. db'.exec[x] = [db.exec[x] EXCEPT !.state = s]
        BY <1>2, <2>1, <2>3 DEF DB
      <3>2. /\ db'.exec[x].state = s /\ s # "none" /\ db.exec[x].state # "none"
            /\ db'.exec[x].delivered = db.exec[x].delivered
            /\ db'.exec[x].acc = db.exec[x].acc /\ db'.exec[x].env = db.exec[x].env
            /\ db'.exec[x].executed = db.exec[x].executed
        BY <1>3, <2>1, <2>3, <3>1 DEF Row, Final
      <3>3. Sound(db.exec[x], db'.high, startAt[x])
        BY <1>2, <1>3, <1>4, <2>1, SoundLater
      <3>4. Sound(db'.exec[x], db'.high, startAt[x])
        BY <3>2, <3>3, <1>9 DEF Sound
      <3> QED
        BY <1>4, <2>1, <3>4
    <2> QED
      BY <2>2, <2>3
  <1>10. ASSUME NEW r \in Reqs, Delivers(r)
         PROVE  /\ Sound(db'.exec[x], db'.high, startAt'[x])
                /\ startAt'[x] # 0 => x \in db'.decided
    <2>1. /\ db.exec[r].state \in Final
          /\ db'.exec = [db.exec EXCEPT ![r].delivered = TRUE]
          /\ db'.decided = db.decided /\ db'.high >= db.high /\ startAt' = startAt
      BY <1>10 DEF Delivers, Onward, history
    <2>2. CASE x # r
      <3>1. db'.exec[x] = db.exec[x]
        BY <1>2, <2>1, <2>2 DEF DB
      <3> QED
        BY <1>2, <1>3, <1>4, <2>1, <3>1, SoundLater
    <2>3. CASE x = r
      <3>1. db'.exec[x] = [db.exec[x] EXCEPT !.delivered = TRUE]
        BY <1>2, <2>1, <2>3 DEF DB
      <3>2. /\ db'.exec[x].state = db.exec[x].state /\ db.exec[x].state \in Final
            /\ db'.exec[x].acc = db.exec[x].acc /\ db'.exec[x].env = db.exec[x].env
            /\ db'.exec[x].executed = db.exec[x].executed
        BY <1>3, <2>1, <2>3, <3>1 DEF Row
      <3>3. Sound(db.exec[x], db'.high, startAt[x])
        BY <1>2, <1>3, <1>4, <2>1, SoundLater
      <3>4. Sound(db'.exec[x], db'.high, startAt[x])
        BY <3>2, <3>3 DEF Sound
      <3> QED
        BY <1>4, <2>1, <3>4
    <2> QED
      BY <2>2, <2>3
  <1> QED
    BY <1>1, <1>5, <1>6, <1>7, <1>8, <1>9, <1>10 DEF Change

\* The invariant of the history holds throughout.
THEOREM HistoryHolds == Spec => []HInv
  BY InitHInv, NextHInv, PTL DEF Spec

-----------------------------------------------------------------------------
(* Order and rate.                                                         *)

\* Tasks are accepted in the order of time, up to the skew.
THEOREM InOrderHolds == Spec => AcceptedInOrder
  <1>1. ASSUME HInv, [Next]_vars, NEW r \in Reqs, startAt'[r] # startAt[r],
               NEW s \in Reqs, db.exec[s].state # "none"
        PROVE  startAt'[r] >= db.exec[s].acc - MaxClockSkew
    <2>1. /\ db \in DB /\ db.high \in Nat /\ db.exec[s].acc \in Nat /\ now \in Nat
          /\ startAt \in [Reqs -> Nat]
      BY <1>1, LimitsAssumption DEF HInv, IInv, TypeOK, DB, Row
    <2>2. PICK e \in Envelopes, p \in Policies : Decides(e, p, "running")
      BY <1>1, NextChange
      DEF HInv, Change, Quiet, Cleans, Starts, Finishes, Delivers, Decides, history
    <2>3. startAt'[r] = now /\ now >= db.high - MaxClockSkew
      BY <1>1, <2>1, <2>2 DEF Decides, Timely
    <2>4. db.exec[s].acc <= db.high
      BY <1>1 DEF HInv, Sound
    <2> QED
      BY <2>1, <2>3, <2>4, LimitsAssumption
  <1>2. HInv /\ [Next]_vars =>
            [\A r \in Reqs : startAt'[r] # startAt[r] =>
                \A s \in Reqs : db.exec[s].state # "none" =>
                    startAt'[r] >= db.exec[s].acc - MaxClockSkew]_vars
    BY <1>1
  <1> QED
    BY <1>2, HistoryHolds, PTL DEF Spec, AcceptedInOrder

\* Acceptances in the window that ends with second t.
Within(t, w) == {r \in Reqs : startAt[r] > t - w /\ startAt[r] \in 1..t}

\* A step leaves a window as it is, or accepts one request while the others of
\* the window all count against the limit.
LEMMA WindowStep ==
    ASSUME HInv, [Next]_vars, NEW t \in 1..MaxTime,
           NEW w \in Nat, w + MaxClockSkew <= Retention
    PROVE  \/ Within(t, w)' = Within(t, w)
           \/ \E e \in Envelopes, p \in Policies :
                 /\ Decides(e, p, "running")
                 /\ Within(t, w)' \subseteq Counted(w) \cup {Task[e].req}
  <1>1. /\ startAt \in [Reqs -> Nat] /\ now \in Nat /\ t \in Nat
        /\ db'.high \in Nat /\ MaxClockSkew \in Nat /\ Retention \in Nat
    <2>1. IInv'
      BY NextHInv DEF HInv
    <2> QED
      BY <2>1, LimitsAssumption DEF HInv, IInv, TypeOK, DB
  <1>2. CASE UNCHANGED startAt
    BY <1>2 DEF Within
  <1>3. CASE ~UNCHANGED startAt
    <2>1. PICK e \in Envelopes, p \in Policies : Decides(e, p, "running")
      BY <1>3, NextChange
      DEF HInv, Change, Quiet, Cleans, Starts, Finishes, Delivers, Decides, history
    <2> DEFINE q == Task[e].req
    <2>2. /\ q \in Reqs /\ q \notin db.decided /\ Timely
          /\ startAt' = [startAt EXCEPT ![q] = now]
      BY <2>1, EnvelopesAssumption DEF Decides, TaskRecord
    <2> HIDE DEF q
    <2>3. startAt'[q] = now /\ startAt[q] = 0
          /\ \A r \in Reqs : r # q => startAt'[r] = startAt[r]
      BY <1>1, <2>2 DEF HInv
    <2>4. CASE now > t - w /\ now <= t
      <3> SUFFICES ASSUME NEW r \in Within(t, w)', r # q PROVE r \in Counted(w)
        BY <2>1 DEF q
      <3>1. r \in Reqs /\ startAt[r] \in Nat /\ startAt[r] > now - w /\ startAt[r] # 0
        BY <1>1, <2>3, <2>4 DEF Within
      <3>2. Left[r] \in Row /\ Sound(Left[r], db'.high, startAt[r])
        BY <1>1, <2>2, <3>1, LeftSound
      <3>3. now >= db'.high - MaxClockSkew
        BY <2>2 DEF Timely
      <3>4. ~(startAt[r] < db'.high - Retention)
        BY <1>1, <3>1, <3>3
      <3>5. Left[r].executed /\ Left[r].acc = startAt[r]
        BY <3>1, <3>2, <3>4 DEF Sound
      <3> QED
        BY <3>1, <3>5 DEF Counted
    <2>5. CASE ~(now > t - w /\ now <= t)
      <3>1. \A r \in Reqs :
               (startAt'[r] > t - w /\ startAt'[r] \in 1..t)
                  <=> (startAt[r] > t - w /\ startAt[r] \in 1..t)
        BY <1>1, <2>3, <2>5
      <3> QED
        BY <3>1 DEF Within
    <2> QED
      BY <2>4, <2>5
  <1> QED
    BY <1>2, <1>3

\* One more than what counts is within the limit.
LEMMA OneMore ==
    ASSUME NEW S \in SUBSET Reqs, NEW T, NEW x, T \subseteq S \cup {x},
           NEW n \in Nat, Cardinality(S) < n
    PROVE  Cardinality(T) <= n
  <1>1. IsFiniteSet(S) /\ Cardinality(S) \in Nat
    BY ReqsAssumption, FS_Subset, FS_CardinalityType
  <1>2. /\ IsFiniteSet(S \cup {x})
        /\ Cardinality(S \cup {x}) = IF x \in S THEN Cardinality(S) ELSE Cardinality(S) + 1
    BY <1>1, FS_AddElement
  <1>3. Cardinality(T) \in Nat /\ Cardinality(T) <= Cardinality(S \cup {x})
    BY <1>2, FS_Subset, FS_CardinalityType
  <1> QED
    BY <1>1, <1>2, <1>3

\* No window of either length ever holds more acceptances than a policy allows,
\* also after rows were pruned and with a clock that goes back within the skew.
THEOREM RateHolds == Spec => []RateHeld
  <1> DEFINE Slow(t) ==
        /\ \E p \in Policies : Cardinality(Within(t, Minute)) <= Pol[p].perMinute
        /\ \E p \in Policies : Cardinality(Within(t, Second)) <= Pol[p].burst
  <1>1. RateHeld <=> \A t \in 1..MaxTime : Slow(t)
    BY DEF RateHeld, Within
  <1>2. HInv /\ RateHeld /\ [Next]_vars => RateHeld'
    <2> SUFFICES ASSUME HInv, RateHeld, [Next]_vars, NEW t \in 1..MaxTime PROVE Slow(t)'
      BY DEF RateHeld, Within
    <2>1. Slow(t)
      BY <1>1
    <2>2. /\ Minute \in Nat /\ Minute + MaxClockSkew <= Retention
          /\ Second \in Nat /\ Second + MaxClockSkew <= Retention
          /\ Counted(Minute) \in SUBSET Reqs /\ Counted(Second) \in SUBSET Reqs
          /\ \A p \in Policies : Pol[p].perMinute \in Nat /\ Pol[p].burst \in Nat
      BY LimitsAssumption, RetentionAssumption, PoliciesAssumption DEF Counted, PolicyRecord
    <2>3. \E p \in Policies : Cardinality(Within(t, Minute)') <= Pol[p].perMinute
      <3>1. CASE Within(t, Minute)' = Within(t, Minute)
        BY <2>1, <3>1
      <3>2. ASSUME NEW e \in Envelopes, NEW p \in Policies, Decides(e, p, "running"),
                   Within(t, Minute)' \subseteq Counted(Minute) \cup {Task[e].req}
            PROVE  Cardinality(Within(t, Minute)') <= Pol[p].perMinute
        <4>1. Cardinality(Counted(Minute)) < Pol[p].perMinute
          BY <3>2 DEF Decides
        <4> QED
          BY <2>2, <3>2, <4>1, OneMore
      <3> QED
        BY <2>2, <3>1, <3>2, WindowStep
    <2>4. \E p \in Policies : Cardinality(Within(t, Second)') <= Pol[p].burst
      <3>1. CASE Within(t, Second)' = Within(t, Second)
        BY <2>1, <3>1
      <3>2. ASSUME NEW e \in Envelopes, NEW p \in Policies, Decides(e, p, "running"),
                   Within(t, Second)' \subseteq Counted(Second) \cup {Task[e].req}
            PROVE  Cardinality(Within(t, Second)') <= Pol[p].burst
        <4>1. Cardinality(Counted(Second)) < Pol[p].burst
          BY <3>2 DEF Decides
        <4> QED
          BY <2>2, <3>2, <4>1, OneMore
      <3> QED
        BY <2>2, <3>1, <3>2, WindowStep
    <2> QED
      BY <2>3, <2>4
  <1>3. Init => RateHeld
    <2> SUFFICES ASSUME Init, NEW t \in 1..MaxTime PROVE Slow(t)
      BY <1>1
    <2>1. Within(t, Minute) = {} /\ Within(t, Second) = {} /\ file \in Policies
      BY DEF Init, Within
    <2>2. Cardinality({}) = 0 /\ Pol[file].perMinute \in Nat /\ Pol[file].burst \in Nat
      BY <2>1, FS_EmptySet, PoliciesAssumption DEF PolicyRecord
    <2> QED
      BY <2>1, <2>2
  <1> QED
    BY <1>2, <1>3, HistoryHolds, PTL DEF Spec

-----------------------------------------------------------------------------
(* The probe implements TaskLife.                                          *)

\* What the mapping makes of rows x and decisions D.
StatusIn(x, D, r) ==
    IF x[r].state # "none" THEN x[r].state
    ELSE IF r \in D THEN "forgotten" ELSE "new"

DeliveredIn(x, D, r) == x[r].delivered \/ StatusIn(x, D, r) = "forgotten"

LEMMA Mapped ==
    /\ LifeStatus = [r \in Reqs |-> StatusIn(db.exec, db.decided, r)]
    /\ LifeDelivered = [r \in Reqs |-> DeliveredIn(db.exec, db.decided, r)]
    /\ LifeStatus' = [r \in Reqs |-> StatusIn(db'.exec, db'.decided, r)]
    /\ LifeDelivered' = [r \in Reqs |-> DeliveredIn(db'.exec, db'.decided, r)]
  BY DEF LifeStatus, LifeDelivered, StatusIn, DeliveredIn

\* Pruning forgets what was delivered, and forgetting is no loss of a mark.
LEMMA PruneForgets ==
    ASSUME HInv, NEW r \in Reqs, NEW D, D = db.decided
    PROVE  /\ StatusIn(Left, D, r)
                 = IF Prunable(r) THEN "forgotten" ELSE LifeStatus[r]
           /\ DeliveredIn(Left, D, r) <=> LifeDelivered[r]
           /\ Prunable(r) =>
                 LifeDelivered[r] /\ LifeStatus[r] \in Final \ {"indeterminate"}
  <1>1. /\ LifeStatus[r] = StatusIn(db.exec, db.decided, r)
        /\ LifeDelivered[r] <=> DeliveredIn(db.exec, db.decided, r)
    BY Mapped
  <1>2. CASE ~Prunable(r)
    <2>1. Left[r] = db.exec[r]
      BY <1>2 DEF Left
    <2> QED
      BY <1>1, <1>2, <2>1 DEF StatusIn, DeliveredIn
  <1>3. CASE Prunable(r)
    <2>1. Left[r] = NoRow /\ NoRow.state = "none"
      BY <1>3 DEF Left, NoRow
    <2>2. /\ db.exec[r].delivered /\ db.exec[r].state \in Final \ {"indeterminate"}
          /\ db.exec[r].state # "none"
      BY <1>3 DEF HInv, Sound, Prunable, Final
    <2>3. r \in db.decided
      BY <2>2 DEF HInv, IInv, DBInv, Backed
    <2>4. StatusIn(Left, D, r) = "forgotten" /\ DeliveredIn(Left, D, r)
      BY <2>1, <2>3 DEF StatusIn, DeliveredIn
    <2>5. LifeStatus[r] = db.exec[r].state /\ LifeDelivered[r]
      BY <1>1, <2>2 DEF StatusIn, DeliveredIn
    <2> QED
      BY <1>3, <2>2, <2>4, <2>5
  <1> QED
    BY <1>2, <1>3

\* Deciding on a request, seen through the mapping.
LEMMA DecidesMaps ==
    ASSUME HInv, NEW e \in Envelopes, NEW p \in Policies,
           NEW s \in {"running", "rejected", "expired"}, Decides(e, p, s)
    PROVE  Life!Decide(Task[e].req, s)
  <1> DEFINE q == Task[e].req
             S == {r \in Reqs : Prunable(r)}
  <1>1. /\ q \in Reqs /\ q \notin db.decided /\ db.exec[q].state = "none"
        /\ RunningRows(db) = {} /\ UNCHANGED runs
        /\ db'.exec = Entered(Left, e, p, s) /\ db'.decided = db.decided \cup {q}
    BY EnvelopesAssumption DEF Decides, TaskRecord
  <1>2. db'.exec = [r \in Reqs |-> IF r = q THEN NewRow(e, p, s) ELSE Left[r]]
    BY <1>1 DEF Entered, Left
  <1> HIDE DEF q
  <1>3. LifeStatus[q] = "new" /\ ~LifeDelivered[q]
    <2>1. ~db.exec[q].delivered
      BY <1>1 DEF HInv, Sound, Final
    <2> QED
      BY <1>1, <2>1, Mapped DEF StatusIn, DeliveredIn
  <1>4. \A r \in Reqs : LifeStatus[r] # "running"
    BY <1>1, Mapped DEF StatusIn, RunningRows
  <1>5. NewRow(e, p, s).state = s /\ s # "none" /\ ~NewRow(e, p, s).delivered
        /\ s # "forgotten"
    BY DEF NewRow
  <1> HIDE DEF NewRow
  <1>6. ASSUME NEW r \in Reqs, r # q
        PROVE  /\ StatusIn(db'.exec, db'.decided, r) = StatusIn(Left, db.decided, r)
               /\ DeliveredIn(db'.exec, db'.decided, r) <=> DeliveredIn(Left, db.decided, r)
    <2>1. db'.exec[r] = Left[r] /\ (r \in db'.decided <=> r \in db.decided)
      BY <1>1, <1>2, <1>6
    <2> QED
      BY <2>1 DEF StatusIn, DeliveredIn
  <1>7. StatusIn(db'.exec, db'.decided, q) = s /\ ~DeliveredIn(db'.exec, db'.decided, q)
    BY <1>1, <1>2, <1>5 DEF StatusIn, DeliveredIn
  <1>8. q \notin S /\ S \subseteq Life!Forgettable
    <2>1. \A r \in S : LifeDelivered[r] /\ LifeStatus[r] \in Final \ {"indeterminate"}
      BY PruneForgets
    <2> QED
      BY <1>3, <2>1 DEF Life!Forgettable, Life!Outcomes, Final
  <1>9. ASSUME NEW r \in Reqs
        PROVE  /\ LifeStatus'[r] = IF r \in S THEN "forgotten"
                                   ELSE IF r = q THEN s ELSE LifeStatus[r]
               /\ LifeDelivered'[r] <=> LifeDelivered[r]
    <2>1. CASE r = q
      BY <1>1, <1>3, <1>7, <1>8, <2>1, Mapped
    <2>2. CASE r # q
      <3>1. /\ LifeStatus'[r] = StatusIn(Left, db.decided, r)
            /\ LifeDelivered'[r] <=> DeliveredIn(Left, db.decided, r)
        BY <1>6, <2>2, Mapped
      <3> QED
        BY <2>2, <3>1, PruneForgets
    <2> QED
      BY <2>1, <2>2
  <1>10. LifeStatus' = Life!Forgetting(S, [LifeStatus EXCEPT ![q] = s])
    <2>1. LifeStatus' = [r \in Reqs |-> IF r \in S THEN "forgotten"
                                        ELSE IF r = q THEN s ELSE LifeStatus[r]]
      BY <1>9, Mapped
    <2>2. \A r \in Reqs : [LifeStatus EXCEPT ![q] = s][r]
                            = IF r = q THEN s ELSE LifeStatus[r]
      BY <1>1, Mapped
    <2> QED
      BY <2>1, <2>2 DEF Life!Forgetting
  <1>11. LifeDelivered' = LifeDelivered
    <2>1. \A r \in Reqs : DeliveredIn(db'.exec, db'.decided, r)
                            <=> DeliveredIn(db.exec, db.decided, r)
      BY <1>9, Mapped
    <2> QED
      BY <2>1, Mapped DEF DeliveredIn
  <1> QED
    BY <1>1, <1>3, <1>4, <1>8, <1>10, <1>11 DEF Life!Decide, q

\* The other steps, seen through the mapping.
LEMMA ChangeMaps ==
    ASSUME HInv, Change
    PROVE  [Life!Next]_<<LifeStatus, runs, LifeDelivered>>
  <1> USE DEF history
  <1>1. db \in DB /\ runs \in [Reqs -> Nat] /\ \A r \in Reqs : db.exec[r] \in Row
    BY DEF HInv, IInv, TypeOK, DB
  <1>2. CASE Quiet
    <2>1. LifeStatus' = LifeStatus /\ LifeDelivered' = LifeDelivered /\ runs' = runs
      BY <1>2, Mapped DEF Quiet
    <2> QED
      BY <2>1
  <1>3. CASE Cleans
    <2> DEFINE S == {r \in Reqs : Prunable(r)}
    <2>1. db'.exec = Left /\ db'.decided = db.decided /\ runs' = runs
      BY <1>3 DEF Cleans
    <2>2. \A r \in Reqs :
             /\ StatusIn(Left, db.decided, r) = IF r \in S THEN "forgotten" ELSE LifeStatus[r]
             /\ DeliveredIn(Left, db.decided, r) <=> DeliveredIn(db.exec, db.decided, r)
      BY PruneForgets, Mapped
    <2>3. S \subseteq Life!Forgettable
      <3>1. \A r \in S : LifeDelivered[r] /\ LifeStatus[r] \in Final \ {"indeterminate"}
        BY PruneForgets
      <3> QED
        BY <3>1 DEF Life!Forgettable, Life!Outcomes, Final
    <2>4. LifeStatus' = Life!Forgetting(S, LifeStatus)
      BY <2>1, <2>2, Mapped DEF Life!Forgetting
    <2>5. LifeDelivered' = LifeDelivered
      BY <2>1, <2>2, Mapped DEF DeliveredIn
    <2>6. Life!Forget
      BY <2>1, <2>3, <2>4, <2>5 DEF Life!Forget
    <2> QED
      BY <2>6 DEF Life!Next
  <1>4. ASSUME NEW e \in Envelopes, NEW p \in Policies,
               NEW s \in {"running", "rejected", "expired"}, Decides(e, p, s)
        PROVE  Life!Next
    <2>1. Life!Decide(Task[e].req, s) /\ Task[e].req \in Reqs
      BY <1>4, DecidesMaps, EnvelopesAssumption DEF TaskRecord
    <2> QED
      BY <2>1 DEF Life!Next, Life!Accept, Life!Refuse, Life!Refusals
  <1>5. ASSUME NEW r \in Reqs, Starts(r) PROVE Life!Next
    <2>1. LifeStatus' = LifeStatus /\ LifeDelivered' = LifeDelivered
      BY <1>5, Mapped DEF Starts
    <2>2. LifeStatus[r] = "running"
      BY <1>5, Mapped DEF Starts, StatusIn
    <2>3. Life!Start(r)
      BY <1>5, <2>1, <2>2 DEF Starts, Life!Start
    <2> QED
      BY <1>5, <2>3 DEF Life!Next
  <1>6. ASSUME NEW r \in Reqs, NEW s \in Final, Finishes(r, s) PROVE Life!Next
    <2>1. /\ db.exec[r].state = "running" /\ db'.decided = db.decided /\ runs' = runs
          /\ db'.exec = [db.exec EXCEPT ![r].state = s]
          /\ s \in IF runs[r] = 1 THEN {"succeeded", "failed", "indeterminate"}
                   ELSE {"expired", "indeterminate"}
      BY <1>6 DEF Finishes
    <2>2. \A x \in Reqs : /\ db'.exec[x].state = IF x = r THEN s ELSE db.exec[x].state
                          /\ db'.exec[x].delivered = db.exec[x].delivered
      BY <1>1, <2>1 DEF DB, Row
    <2>3. s # "none" /\ s # "forgotten"
      BY DEF Final
    <2>4. ASSUME NEW x \in Reqs
          PROVE  /\ StatusIn(db'.exec, db'.decided, x)
                       = IF x = r THEN s ELSE StatusIn(db.exec, db.decided, x)
                 /\ DeliveredIn(db'.exec, db'.decided, x)
                       <=> DeliveredIn(db.exec, db.decided, x)
      BY <2>1, <2>2, <2>3 DEF StatusIn, DeliveredIn
    <2>5. LifeStatus' = [LifeStatus EXCEPT ![r] = s]
      BY <2>4, Mapped
    <2>6. LifeDelivered' = LifeDelivered
      BY <2>4, Mapped DEF DeliveredIn
    <2>7. LifeStatus[r] = "running"
      BY <2>1, Mapped DEF StatusIn
    <2>8. Life!Finish(r)
      BY <2>1, <2>5, <2>6, <2>7 DEF Life!Finish
    <2> QED
      BY <1>6, <2>8 DEF Life!Next
  <1>7. ASSUME NEW r \in Reqs, Delivers(r) PROVE Life!Next
    <2>1. /\ db.exec[r].state \in Final /\ db'.decided = db.decided /\ runs' = runs
          /\ db'.exec = [db.exec EXCEPT ![r].delivered = TRUE]
      BY <1>7 DEF Delivers
    <2>2. \A x \in Reqs : /\ db'.exec[x].state = db.exec[x].state
                          /\ db'.exec[x].delivered
                               <=> (x = r \/ db.exec[x].delivered)
      BY <1>1, <2>1 DEF DB, Row
    <2>3. ASSUME NEW x \in Reqs
          PROVE  /\ StatusIn(db'.exec, db'.decided, x) = StatusIn(db.exec, db.decided, x)
                 /\ DeliveredIn(db'.exec, db'.decided, x)
                       <=> (x = r \/ DeliveredIn(db.exec, db.decided, x))
      BY <2>1, <2>2 DEF StatusIn, DeliveredIn
    <2>4. LifeStatus' = LifeStatus
      BY <2>3, Mapped
    <2>5. LifeDelivered' = [LifeDelivered EXCEPT ![r] = TRUE]
      BY <2>3, Mapped DEF DeliveredIn
    <2>6. LifeStatus[r] \in Life!Outcomes
      BY <2>1, Mapped DEF StatusIn, Life!Outcomes, Final
    <2>7. Life!Deliver(r)
      BY <2>1, <2>4, <2>5, <2>6 DEF Life!Deliver
    <2> QED
      BY <1>7, <2>7 DEF Life!Next
  <1> QED
    BY <1>2, <1>3, <1>4, <1>5, <1>6, <1>7 DEF Change

\* The probe implements TaskLife: a request is decided once, starts at most
\* once, ends once, and is never taken up again when it was forgotten.
THEOREM Refinement == Spec => ImplementsTaskLife
  <1>1. Init => Life!Init
    <2> SUFFICES ASSUME Init PROVE Life!Init
      OBVIOUS
    <2>1. \A r \in Reqs : db.exec[r] = NoRow
      BY DEF Init
    <2>2. NoRow.state = "none" /\ NoRow.delivered = FALSE
      BY DEF NoRow
    <2>3. db.decided = {} /\ runs = [r \in Reqs |-> 0]
      BY DEF Init
    <2>4. \A r \in Reqs : /\ StatusIn(db.exec, db.decided, r) = "new"
                          /\ ~DeliveredIn(db.exec, db.decided, r)
      BY <2>1, <2>2, <2>3 DEF StatusIn, DeliveredIn
    <2>5. LifeStatus = [r \in Reqs |-> "new"]
      BY <2>4, Mapped
    <2>6. LifeDelivered = [r \in Reqs |-> FALSE]
      BY <2>4, Mapped DEF DeliveredIn
    <2> QED
      BY <2>3, <2>5, <2>6 DEF Life!Init
  <1>2. HInv /\ [Next]_vars => [Life!Next]_<<LifeStatus, runs, LifeDelivered>>
    BY NextChange, ChangeMaps DEF HInv
  <1> QED
    BY <1>1, <1>2, HistoryHolds, PTL DEF Spec, ImplementsTaskLife, Life!Spec, Life!vars
=============================================================================
