-------------------------- MODULE DeliveryProofs ---------------------------
(***************************************************************************)
(* Server and probe agree on the fate of every task, for every set of      *)
(* nodes, every number of tasks, all lifetimes and limits: BothEndsAgree   *)
(* of module Delivery.                                                     *)
(*                                                                         *)
(* The invariant IInv ties the two ends together.  A request that the      *)
(* probe decided was Handed out by the server; what is on the wire as a    *)
(* result is what the probe stored; an acknowledgment stands for a stored  *)
(* result.  The server's transactions move a row forward only (Onward),    *)
(* which keeps all of this; RedeliveredUndecided comes from the order of   *)
(* the loop (nothing undelivered and nothing running while it polls).      *)
(*                                                                         *)
(* At the end, the store of the server process is closed last.             *)
(***************************************************************************)
EXTENDS LongRun, TLAPS, FiniteSetTheorems

-----------------------------------------------------------------------------
(* The server's rows.                                                      *)

DBType == [nodes : [Nodes -> NodeRow], tokens : [Tokens -> TokenRow],
           tasks : [Reqs -> TaskRow], key : {Key}, trust : {NoTrust},
           paused : {FALSE}, seq : Int, reserved : Int]

\* An open task has no result, and a task has the policy it was queued with.
RowSound(row) ==
    /\ row.state \in {"none", "queued", "dispatched"} => row.result = NoResult
    /\ row.state # "none" => row.policy \in Digests

Sound(e) == e \in DBType /\ \A r \in Reqs : RowSound(e.tasks[r])

\* The server has handed the task out.
HandedRow(row) ==
    row.state \in {"dispatched", "indeterminate"} \/ row.result # NoResult

Handed(r) == HandedRow(d.tasks[r])

\* Rows move on without a new result.
RowOnward(row, new) ==
    /\ new.result = row.result
    /\ HandedRow(row) => HandedRow(new)

\* What Serve writes.
Uncounted(e) == [e EXCEPT !.seq = 0]

Onward(e, f) == \A r \in Reqs : RowOnward(e.tasks[r], f.tasks[r])

-----------------------------------------------------------------------------
(* The two ends.                                                           *)

Decided == Life!Outcomes \cup {"forgotten"}

LifeType ==
    /\ status \in [Reqs -> {"new", "running"} \cup Decided]
    /\ starts \in [Reqs -> Nat] /\ delivered \in [Reqs -> BOOLEAN]

\* What the probe has decided, the server has handed out.
DecisionsHanded ==
    \A r \in Reqs : status[r] # "new" => Handed(r) /\ policy[r] \in Digests

StartedDecided == \A r \in Reqs : starts[r] # 0 => status[r] # "new"

ForgottenDelivered == \A r \in Reqs : status[r] = "forgotten" => delivered[r]

\* The probe's result for r, unless it has forgotten it.
Stored(r, v) ==
    /\ status[r] \in Decided
    /\ status[r] # "forgotten" => v = [status |-> status[r], policy |-> policy[r]]

ResultsStored ==
    \A r \in Reqs : d.tasks[r].result # NoResult => Stored(r, d.tasks[r].result)

WireStored ==
    \A c \in wire : c.kind = "result" =>
        c.req \in Reqs /\ c.value \in Result /\ Stored(c.req, c.value)

\* An answer speaks the truth, for good.
ReplyTrue ==
    /\ reply.kind = "ack" =>
          reply.req \in Reqs /\ d.tasks[reply.req].result # NoResult
    /\ reply.kind = "poll" /\ reply.req # 0 => Handed(reply.req)

\* Where the worker is.
AtPoll == pc = "poll" => Outbox = {} /\ Running = {}

AtHand ==
    /\ pc \in {"run", "stored"} => hand \in Reqs
    /\ pc = "stored" => status[hand] \in Life!Outcomes

IInv ==
    /\ TypeOK /\ Sound(d) /\ LifeType
    /\ DecisionsHanded /\ StartedDecided /\ ForgottenDelivered
    /\ DeliveredStored /\ ResultsStored /\ WireStored /\ ReplyTrue
    /\ AtPoll /\ AtHand /\ RedeliveredUndecided

-----------------------------------------------------------------------------
(* The transactions of the server.                                         *)

\* Rows that move on twice move on.
LEMMA OnwardThrough ==
    ASSUME NEW e, NEW f, NEW g, Onward(e, f), Onward(f, g)
    PROVE  Onward(e, g)
  BY DEF Onward, RowOnward

\* What the audit head does to a database.
LEMMA HeadKeeps ==
    ASSUME NEW e, Sound(e), NEW n \in Int, NEW k \in Int
    PROVE  /\ Sound(AppendedEach(e, n, k)) /\ AppendedEach(e, n, k).tasks = e.tasks
           /\ AppendedEach(e, n, k).nodes = e.nodes
           /\ Sound(Appended(e, k)) /\ Appended(e, k).tasks = e.tasks
           /\ Appended(e, k).nodes = e.nodes
           /\ Sound(Uncounted(e)) /\ Uncounted(e).tasks = e.tasks
           /\ Uncounted(e).nodes = e.nodes
  <1>1. e \in DBType /\ e.seq \in Int /\ e.reserved \in Int
    BY DEF Sound, DBType
  <1> DEFINE m == e.seq + n
             z == e.reserved + n * k
             m1 == e.seq + 1
             z1 == e.reserved + k
             a == AppendedEach(e, n, k)
             b == Appended(e, k)
             c == Uncounted(e)
             o == 0
  <1>2. o \in Int /\ n * k \in Int /\ m \in Int /\ z \in Int /\ m1 \in Int /\ z1 \in Int
    <2>1. n * k \in Int
      OBVIOUS
    <2> QED
      BY <1>1, <2>1
  <1>3. /\ a = [e EXCEPT !.seq = m, !.reserved = z]
        /\ b = [e EXCEPT !.seq = m1, !.reserved = z1]
        /\ c = [e EXCEPT !.seq = o]
    BY DEF AppendedEach, Appended, Uncounted
  <1> HIDE DEF a, b, c, m, z, m1, z1, o
  <1>4. a \in DBType /\ a.tasks = e.tasks /\ a.nodes = e.nodes
    BY <1>1, <1>2, <1>3 DEF DBType
  <1>5. b \in DBType /\ b.tasks = e.tasks /\ b.nodes = e.nodes
    BY <1>1, <1>2, <1>3 DEF DBType
  <1>6. c \in DBType /\ c.tasks = e.tasks /\ c.nodes = e.nodes
    BY <1>1, <1>2, <1>3 DEF DBType
  <1>7. Sound(a) /\ Sound(b) /\ Sound(c)
    BY <1>4, <1>5, <1>6 DEF Sound
  <1> QED
    BY <1>4, <1>5, <1>6, <1>7 DEF a, b, c

\* A database with other rows.
LEMMA TasksKeep ==
    ASSUME NEW e, Sound(e), NEW x \in [Reqs -> TaskRow],
           \A r \in Reqs : RowSound(x[r]) /\ RowOnward(e.tasks[r], x[r])
    PROVE  /\ Sound([e EXCEPT !.tasks = x]) /\ [e EXCEPT !.tasks = x].tasks = x
           /\ [e EXCEPT !.tasks = x].nodes = e.nodes
           /\ Onward(e, [e EXCEPT !.tasks = x])
  <1> DEFINE f == [e EXCEPT !.tasks = x]
  <1>1. f \in DBType /\ f.tasks = x /\ f.nodes = e.nodes
    BY DEF DBType, Sound
  <1> HIDE DEF f
  <1>2. Sound(f) /\ Onward(e, f)
    BY <1>1 DEF Sound, Onward
  <1> QED
    BY <1>1, <1>2 DEF f

\* Queued tasks are closed, and dispatched ones given up, without a result.
LEMMA ClosedKeeps ==
    ASSUME NEW e, Sound(e), NEW R \in SUBSET Reqs, NEW s \in Statuses,
           R \subseteq Queued(e) \/ (R \subseteq Dispatched(e) /\ s = "indeterminate")
    PROVE  /\ Sound(Closed(e, R, s)) /\ Onward(e, Closed(e, R, s))
           /\ Closed(e, R, s).nodes = e.nodes
           /\ \A r \in Reqs : r \notin R => Closed(e, R, s).tasks[r] = e.tasks[r]
  <1> DEFINE Row(r) == IF r \in R THEN [e.tasks[r] EXCEPT !.state = s] ELSE e.tasks[r]
             x == [r \in Reqs |-> Row(r)]
  <1>1. e \in DBType /\ \A r \in Reqs : e.tasks[r] \in TaskRow /\ RowSound(e.tasks[r])
    BY DEF Sound, DBType
  <1>2. ASSUME NEW r \in Reqs
        PROVE  Row(r) \in TaskRow /\ RowSound(Row(r)) /\ RowOnward(e.tasks[r], Row(r))
    <2>1. CASE r \notin R
      BY <1>1, <2>1 DEF RowOnward
    <2>2. CASE r \in R
      <3> DEFINE y == [e.tasks[r] EXCEPT !.state = s]
      <3>1. /\ y \in TaskRow /\ y.state = s /\ y.result = e.tasks[r].result
            /\ y.policy = e.tasks[r].policy
        BY <1>1 DEF TaskRow
      <3> HIDE DEF y
      <3>2. /\ s \notin {"none", "queued", "dispatched"}
            /\ e.tasks[r].state \in {"queued", "dispatched"}
            /\ e.tasks[r].state = "queued" \/ s = "indeterminate"
        BY <2>2 DEF Statuses, Queued, Dispatched
      <3>3. RowSound(y)
        BY <1>1, <3>1, <3>2 DEF RowSound
      <3>4. RowOnward(e.tasks[r], y)
        BY <1>1, <3>1, <3>2 DEF RowSound, RowOnward, HandedRow
      <3> QED
        BY <2>2, <3>1, <3>3, <3>4 DEF y
    <2> QED
      BY <2>1, <2>2
  <1>3. x \in [Reqs -> TaskRow] /\ \A r \in Reqs : x[r] = Row(r)
    BY <1>2
  <1>4. Closed(e, R, s) = [e EXCEPT !.tasks = x]
    BY DEF Closed
  <1> HIDE DEF x, Row
  <1>5. \A r \in Reqs : RowSound(x[r]) /\ RowOnward(e.tasks[r], x[r])
    BY <1>2, <1>3
  <1>6. /\ Sound(Closed(e, R, s)) /\ Closed(e, R, s).tasks = x
        /\ Closed(e, R, s).nodes = e.nodes /\ Onward(e, Closed(e, R, s))
    BY <1>3, <1>4, <1>5, TasksKeep
  <1> QED
    BY <1>3, <1>6 DEF Row

\* Sets of requests are finite.
LEMMA Counts == \A R \in SUBSET Reqs : Cardinality(R) \in Int
  <1>1. IsFiniteSet(Reqs)
    BY DispatchLimits, FS_Interval DEF Reqs
  <1> QED
    BY <1>1, FS_Subset, FS_CardinalityType

\* expireTasks
LEMMA ExpireKeeps ==
    ASSUME NEW e, Sound(e), NEW n, NEW t
    PROVE  /\ Sound(Expire(e, n, t)) /\ Onward(e, Expire(e, n, t))
           /\ Expire(e, n, t).nodes = e.nodes
           /\ \A r \in Reqs : \/ Expire(e, n, t).tasks[r] = e.tasks[r]
                              \/ r \in Overdue(e, n, t)
  <1> DEFINE R == Overdue(e, n, t)
             c == Closed(e, R, "expired")
  <1>1. R \in SUBSET Reqs /\ R \subseteq Queued(e) /\ "expired" \in Statuses
    BY DEF Overdue, Queued, Statuses
  <1>2. /\ Sound(c) /\ Onward(e, c) /\ c.nodes = e.nodes
        /\ \A r \in Reqs : r \notin R => c.tasks[r] = e.tasks[r]
    BY <1>1, ClosedKeeps
  <1>3. Cardinality(R) \in Int
    BY <1>1, Counts
  <1>4. Expire(e, n, t) = AppendedEach(c, Cardinality(R), -2)
    BY DEF Expire
  <1> HIDE DEF R, c
  <1>5. /\ Sound(Expire(e, n, t)) /\ Expire(e, n, t).tasks = c.tasks
        /\ Expire(e, n, t).nodes = c.nodes
    BY <1>2, <1>3, <1>4, HeadKeeps
  <1> QED
    BY <1>2, <1>5 DEF Onward, R

\* One row is written.
Put(e, r, row) == [e EXCEPT !.tasks = [e.tasks EXCEPT ![r] = row]]

LEMMA PutKeeps ==
    ASSUME NEW e, Sound(e), NEW r \in Reqs, NEW row \in TaskRow, RowSound(row)
    PROVE  /\ Sound(Put(e, r, row)) /\ Put(e, r, row).nodes = e.nodes
           /\ Put(e, r, row).tasks[r] = row
           /\ \A q \in Reqs : q # r => Put(e, r, row).tasks[q] = e.tasks[q]
           /\ RowOnward(e.tasks[r], row) => Onward(e, Put(e, r, row))
  <1> DEFINE x == [e.tasks EXCEPT ![r] = row]
             f == Put(e, r, row)
  <1>1. e \in DBType /\ e.tasks \in [Reqs -> TaskRow]
    BY DEF Sound, DBType
  <1>2. /\ x \in [Reqs -> TaskRow] /\ x[r] = row
        /\ \A q \in Reqs : q # r => x[q] = e.tasks[q]
    BY <1>1
  <1>3. f = [e EXCEPT !.tasks = x]
    BY DEF Put
  <1> HIDE DEF x, f
  <1>4. f \in DBType /\ f.tasks = x /\ f.nodes = e.nodes
    BY <1>1, <1>2, <1>3 DEF DBType
  <1>5. \A q \in Reqs : RowSound(e.tasks[q])
    BY DEF Sound
  <1>6. Sound(f)
    BY <1>2, <1>4, <1>5 DEF Sound
  <1>7. RowOnward(e.tasks[r], row) => Onward(e, f)
    BY <1>2, <1>4 DEF Onward, RowOnward
  <1> QED
    BY <1>2, <1>4, <1>6, <1>7 DEF f

\* cancelNodeTasks
LEMMA CancelKeeps ==
    ASSUME NEW e, Sound(e), NEW n
    PROVE  Sound(Cancel(e, n)) /\ Onward(e, Cancel(e, n))
  <1> DEFINE q == Queued(e) \cap Of(e, n)
             s == Dispatched(e) \cap Of(e, n)
             a == Closed(e, q, "rejected")
             b == Closed(a, s, "indeterminate")
             c == AppendedEach(b, Cardinality(q), -2)
             f == AppendedEach(c, Cardinality(s), -1)
  <1>1. /\ q \in SUBSET Reqs /\ q \subseteq Queued(e)
        /\ s \in SUBSET Reqs /\ s \subseteq Dispatched(e) /\ q \cap s = {}
        /\ "rejected" \in Statuses /\ "indeterminate" \in Statuses
    BY DEF Queued, Dispatched, Statuses
  <1>2. Cancel(e, n) = f
    BY DEF Cancel
  <1>3. Cardinality(q) \in Int /\ Cardinality(s) \in Int
    BY <1>1, Counts
  <1>4. /\ Sound(a) /\ Onward(e, a)
        /\ \A r \in Reqs : r \notin q => a.tasks[r] = e.tasks[r]
    BY <1>1, ClosedKeeps
  <1> HIDE DEF q, s, a
  <1>5. s \subseteq Dispatched(a)
    BY <1>1, <1>4 DEF Dispatched
  <1>6. Sound(b) /\ Onward(a, b)
    BY <1>1, <1>4, <1>5, ClosedKeeps
  <1> HIDE DEF b
  <1>7. Sound(c) /\ c.tasks = b.tasks
    BY <1>3, <1>6, HeadKeeps
  <1> HIDE DEF c
  <1>8. Sound(f) /\ f.tasks = c.tasks
    BY <1>3, <1>7, HeadKeeps
  <1>9. Onward(e, b)
    BY <1>4, <1>6, OnwardThrough
  <1> HIDE DEF f
  <1> QED
    BY <1>2, <1>7, <1>8, <1>9 DEF Onward

\* disableTx
LEMMA DisableKeeps ==
    ASSUME NEW e, Sound(e), NEW n \in Nodes, e.nodes[n].state = "enabled"
    PROVE  Sound(Uncounted(Disable(e, n))) /\ Onward(e, Uncounted(Disable(e, n)))
  <1> DEFINE c == Cancel(e, n)
             x == [c.nodes EXCEPT ![n] = [c.nodes[n] EXCEPT !.state = "disabled"]]
             b == [c EXCEPT !.nodes[n].state = "disabled"]
             f == Appended(b, -1)
  <1>1. Sound(c) /\ Onward(e, c)
    BY CancelKeeps
  <1>2. Disable(e, n) = f
    BY DEF Disable
  <1> HIDE DEF c
  <1>3. c \in DBType /\ c.nodes \in [Nodes -> NodeRow] /\ \A r \in Reqs : RowSound(c.tasks[r])
    BY <1>1 DEF Sound, DBType
  <1>4. [c.nodes[n] EXCEPT !.state = "disabled"] \in NodeRow
    BY <1>3 DEF NodeRow
  <1>5. x \in [Nodes -> NodeRow]
    BY <1>3, <1>4
  <1>6. b = [c EXCEPT !.nodes = x]
    BY <1>3 DEF DBType
  <1> HIDE DEF x, b
  <1>7. b \in DBType /\ b.tasks = c.tasks
    BY <1>3, <1>5, <1>6 DEF DBType
  <1>8. Sound(b) /\ Onward(e, b)
    BY <1>1, <1>3, <1>7 DEF Sound, Onward
  <1>9. Sound(f) /\ f.tasks = b.tasks
    BY <1>8, HeadKeeps
  <1> HIDE DEF f
  <1>10. Sound(Uncounted(f)) /\ Uncounted(f).tasks = f.tasks
    BY <1>9, HeadKeeps
  <1> QED
    BY <1>2, <1>8, <1>9, <1>10 DEF Onward

\* An event after a row was written, as Serve leaves it.
LEMMA WrittenKeeps ==
    ASSUME NEW e, Sound(e), NEW r \in Reqs, NEW row \in TaskRow, RowSound(row),
           NEW k \in Int
    PROVE  LET f == Uncounted(Appended(Put(e, r, row), k))
           IN  /\ Sound(f) /\ f.nodes = e.nodes /\ f.tasks[r] = row
               /\ \A q \in Reqs : q # r => f.tasks[q] = e.tasks[q]
               /\ RowOnward(e.tasks[r], row) => Onward(e, f)
  <1> DEFINE p == Put(e, r, row)
             a == Appended(p, k)
             f == Uncounted(a)
  <1>1. /\ Sound(p) /\ p.nodes = e.nodes /\ p.tasks[r] = row
        /\ \A q \in Reqs : q # r => p.tasks[q] = e.tasks[q]
        /\ RowOnward(e.tasks[r], row) => Onward(e, p)
    BY PutKeeps
  <1> HIDE DEF p
  <1>2. Sound(a) /\ a.nodes = p.nodes /\ a.tasks = p.tasks
    BY <1>1, HeadKeeps
  <1> HIDE DEF a
  <1>3. Sound(f) /\ f.nodes = a.nodes /\ f.tasks = a.tasks
    BY <1>2, HeadKeeps
  <1> HIDE DEF f
  <1>4. /\ Sound(f) /\ f.nodes = e.nodes /\ f.tasks[r] = row
        /\ \A q \in Reqs : q # r => f.tasks[q] = e.tasks[q]
        /\ RowOnward(e.tasks[r], row) => Onward(e, f)
    BY <1>1, <1>2, <1>3 DEF Onward
  <1> QED
    BY <1>4 DEF f, a, p

\* enqueueTx
LEMMA EnqueueKeeps ==
    ASSUME NEW e, Sound(e), NEW r \in Reqs, NEW n \in Nodes, NEW ttl \in TTLs,
           NEW t \in Nat, EnqueueOK(e, r, n, ttl, t)
    PROVE  LET f == Uncounted(Enqueue(e, r, n, ttl, t))
           IN  Sound(f) /\ Onward(e, f)
  <1> DEFINE x == Expire(e, n, t)
             row == NewTask(e, n, ttl, t)
             f == Uncounted(Appended(Put(x, r, row), 2))
  <1>1. /\ e.nodes[n].policy # NoDigest /\ e.tasks[r].state = "none"
        /\ e.nodes[n] \in NodeRow /\ RowSound(e.tasks[r])
    BY DEF EnqueueOK, EnqueueAllowed, Sound, DBType
  <1>2. /\ Sound(x) /\ Onward(e, x)
        /\ \A q \in Reqs : x.tasks[q] = e.tasks[q] \/ q \in Overdue(e, n, t)
    BY ExpireKeeps
  <1>3. r \notin Overdue(e, n, t)
    BY <1>1 DEF Overdue, Queued
  <1>4. t + ttl \in Nat /\ e.nodes[n].policy \in Digests
    BY <1>1, DispatchSets DEF NodeRow
  <1>5. /\ row \in TaskRow /\ row.state = "queued" /\ row.result = NoResult
        /\ row.policy = e.nodes[n].policy
    BY <1>4 DEF NewTask, NoTask, TaskRow
  <1>6. Enqueue(e, r, n, ttl, t) = Appended(Put(x, r, row), 2)
    <2>1. x \in DBType
      BY <1>2 DEF Sound
    <2> HIDE DEF x, row
    <2>2. [x EXCEPT !.tasks[r] = row] = Put(x, r, row)
      BY <2>1 DEF Put, DBType
    <2> QED
      BY <2>2 DEF Enqueue, x, row
  <1> HIDE DEF x, row
  <1>7. RowSound(row)
    BY <1>4, <1>5 DEF RowSound
  <1>8. RowOnward(x.tasks[r], row)
    BY <1>1, <1>2, <1>3, <1>5 DEF RowOnward, HandedRow, RowSound
  <1>9. Sound(f) /\ Onward(x, f)
    BY <1>2, <1>5, <1>7, <1>8, WrittenKeeps
  <1> HIDE DEF f
  <1>10. Onward(e, f)
    BY <1>2, <1>9, OnwardThrough
  <1> QED
    BY <1>6, <1>9, <1>10 DEF f

\* The row of a task that was signed.
SignedRow(e, r) ==
    [e.tasks[r] EXCEPT !.state = "dispatched",
                       !.env = [key |-> e.key, set |-> NoTrust]]

\* A queued task is signed.
LEMMA SignKeeps ==
    ASSUME NEW e, Sound(e), NEW r \in Reqs, e.tasks[r].state = "queued"
    PROVE  LET f == Uncounted(Sign(e, r))
           IN  Sound(f) /\ Onward(e, f) /\ f.tasks[r].state = "dispatched"
  <1> DEFINE row == SignedRow(e, r)
             f == Uncounted(Appended(Put(e, r, row), -1))
  <1>1. /\ e \in DBType /\ e.key = Key /\ e.trust = NoTrust
        /\ e.tasks \in [Reqs -> TaskRow]
        /\ e.tasks[r] \in TaskRow /\ RowSound(e.tasks[r])
    BY DEF Sound, DBType
  <1>2. [key |-> e.key, set |-> NoTrust] \in Envelope
    BY <1>1, DeliveryAssumption DEF Envelope
  <1>3. /\ row \in TaskRow /\ row.state = "dispatched"
        /\ row.result = e.tasks[r].result /\ row.policy = e.tasks[r].policy
    BY <1>1, <1>2 DEF SignedRow, TaskRow
  <1>4. Sign(e, r) = Appended(Put(e, r, row), -1)
    <2>1. [e EXCEPT !.tasks[r].state = "dispatched",
                    !.tasks[r].env = [key |-> e.key, set |-> NoTrust]]
            = Put(e, r, row)
      BY <1>1 DEF Put, SignedRow, DBType, TaskRow
    <2> QED
      BY <1>1, <2>1 DEF Sign
  <1> HIDE DEF row
  <1>5. RowSound(row) /\ RowOnward(e.tasks[r], row)
    BY <1>1, <1>3 DEF RowSound, RowOnward, HandedRow
  <1>6. Sound(f) /\ Onward(e, f) /\ f.tasks[r] = row
    BY <1>3, <1>5, WrittenKeeps
  <1> QED
    BY <1>3, <1>4, <1>6

\* The row of a task whose result was taken.
ResultRow(e, r, v) == [e.tasks[r] EXCEPT !.state = v.status, !.result = v]

\* SubmitResult: the only way to a result.
LEMMA SubmitKeeps ==
    ASSUME NEW e, Sound(e), NEW r \in Reqs, NEW v \in Result, NEW n,
           SubmitOK(e, n, r, v)
    PROVE  LET f == Uncounted(Submit(e, r, v))
           IN  /\ Sound(f) /\ f.tasks[r].result = v
               /\ \A q \in Reqs : q # r => f.tasks[q] = e.tasks[q]
               /\ \A q \in Reqs : HandedRow(e.tasks[q]) => HandedRow(f.tasks[q])
  <1>1. CASE e.tasks[r].result = v
    <2>1. Submit(e, r, v) = e
      BY <1>1 DEF Submit
    <2>2. Sound(Uncounted(e)) /\ Uncounted(e).tasks = e.tasks
      BY HeadKeeps
    <2> QED
      BY <1>1, <2>1, <2>2
  <1>2. CASE e.tasks[r].result # v
    <2> DEFINE row == ResultRow(e, r, v)
               f == Uncounted(Appended(Put(e, r, row), -1))
    <2>1. /\ e \in DBType /\ e.tasks \in [Reqs -> TaskRow]
          /\ e.tasks[r] \in TaskRow /\ RowSound(e.tasks[r])
          /\ e.tasks[r].state = "dispatched"
      BY <1>2 DEF Sound, DBType, SubmitOK
    <2>2. v.status \in Statuses /\ v.status \notin {"none", "queued", "dispatched"}
      BY DEF Result, Statuses
    <2>3. v # NoResult
      BY <2>2 DEF NoResult
    <2>4. /\ row \in TaskRow /\ row.state = v.status
          /\ row.result = v /\ row.policy = e.tasks[r].policy
      BY <2>1, <2>2 DEF ResultRow, TaskRow
    <2>5. Submit(e, r, v) = Appended(Put(e, r, row), -1)
      <3>1. [e EXCEPT !.tasks[r].state = v.status, !.tasks[r].result = v]
              = Put(e, r, row)
        BY <2>1 DEF Put, ResultRow, DBType, TaskRow
      <3> QED
        BY <1>2, <3>1 DEF Submit
    <2> HIDE DEF row
    <2>6. RowSound(row) /\ HandedRow(row)
      BY <2>1, <2>2, <2>3, <2>4 DEF RowSound, HandedRow
    <2>7. /\ Sound(f) /\ f.tasks[r] = row
          /\ \A q \in Reqs : q # r => f.tasks[q] = e.tasks[q]
      BY <2>4, <2>6, WrittenKeeps
    <2> HIDE DEF f
    <2> QED
      BY <2>4, <2>5, <2>6, <2>7 DEF f
  <1> QED
    BY <1>1, <1>2

-----------------------------------------------------------------------------
(* Steps of the server, seen from both ends.                               *)

\* A step that leaves the probe alone, loses no hand-out and no result, and
\* takes only results that the probe stored.
LEMMA ServerStep ==
    ASSUME IInv, UNCHANGED <<life, pc, hand>>, now' \in 1 .. MaxTime, Sound(d'),
           \A r \in Reqs : HandedRow(d.tasks[r]) => HandedRow(d'.tasks[r]),
           \A r \in Reqs : d.tasks[r].result # NoResult =>
                               d'.tasks[r].result # NoResult,
           \A r \in Reqs : d'.tasks[r].result # NoResult =>
                               Stored(r, d'.tasks[r].result),
           wire' \subseteq wire, reply' \in Reply, ReplyTrue', RedeliveredUndecided'
    PROVE  IInv'
  <1> USE DEF IInv, life
  <1>1. TypeOK'
    BY DEF TypeOK, Sound, DBType
  <1>2. LifeType' /\ StartedDecided' /\ ForgottenDelivered'
    BY DEF LifeType, StartedDecided, ForgottenDelivered
  <1>3. DecisionsHanded' /\ DeliveredStored'
    BY DEF DecisionsHanded, Handed, DeliveredStored
  <1>4. ResultsStored' /\ WireStored'
    BY DEF ResultsStored, WireStored, Stored
  <1>5. AtPoll' /\ AtHand'
    BY DEF AtPoll, AtHand, Outbox, Running
  <1> QED
    BY <1>1, <1>2, <1>3, <1>4, <1>5

\* A step that moves rows on.
LEMMA OnwardStep ==
    ASSUME IInv, UNCHANGED <<life, pc, hand>>, now' \in 1 .. MaxTime,
           Sound(d'), Onward(d, d'), wire' \subseteq wire, reply' \in Reply,
           \/ reply' = reply
           \/ reply'.kind # "ack" /\ (reply'.kind = "poll" => reply'.req = 0)
           \/ /\ reply'.kind = "poll" /\ reply'.req \in Reqs
              /\ HandedRow(d'.tasks[reply'.req])
              /\ d.tasks[reply'.req].state \in {"queued", "dispatched"}
    PROVE  IInv'
  <1>1. \A r \in Reqs : /\ d'.tasks[r].result = d.tasks[r].result
                        /\ HandedRow(d.tasks[r]) => HandedRow(d'.tasks[r])
    BY DEF Onward, RowOnward
  <1>2. \A r \in Reqs : d'.tasks[r].result # NoResult => Stored(r, d'.tasks[r].result)
    BY <1>1 DEF IInv, ResultsStored
  <1>3. ReplyTrue'
    BY <1>1 DEF IInv, ReplyTrue, Handed, TypeOK, Reply
  <1>4. RedeliveredUndecided'
    <2> SUFFICES ASSUME NEW r \in Reqs, Received(r)' PROVE status[r] = "new"
      BY DEF RedeliveredUndecided, life
    <2>1. pc = "poll" /\ reply' = [kind |-> "poll", req |-> r] /\ r # 0
      BY DispatchLimits DEF Received, Reqs
    <2>2. CASE reply' = reply
      BY <2>1, <2>2 DEF IInv, RedeliveredUndecided, Received
    <2>3. CASE d.tasks[r].state \in {"queued", "dispatched"}
      <3>1. d.tasks[r].result = NoResult
        BY <2>3 DEF IInv, Sound, RowSound
      <3>2. ~delivered[r]
        BY <3>1 DEF IInv, DeliveredStored
      <3>3. status[r] \notin Life!Outcomes /\ status[r] # "running"
        BY <2>1, <3>2 DEF IInv, AtPoll, Outbox, Running
      <3>4. status[r] # "forgotten"
        BY <3>2 DEF IInv, ForgottenDelivered
      <3>5. status[r] \in {"new", "running"} \cup Decided
        BY DEF IInv, LifeType
      <3> QED
        BY <3>3, <3>4, <3>5 DEF Decided
    <2> QED
      BY <2>1, <2>2, <2>3
  <1> QED
    BY <1>1, <1>2, <1>3, <1>4, ServerStep

LEMMA SubmitTaskStep ==
    ASSUME IInv, NEW r \in Reqs, NEW ttl \in TTLs, SubmitTask(r, ttl)
    PROVE  IInv'
  <1>1. Sound(d) /\ now \in Nat /\ now' \in 1 .. MaxTime /\ reply \in Reply
    BY DeliveryAssumption DEF IInv, TypeOK, SubmitTask
  <1>2. Node \in Nodes /\ EnqueueOK(d, r, Node, ttl, now)
    BY DeliveryAssumption DEF SubmitTask
  <1>3. d' = Uncounted(Enqueue(d, r, Node, ttl, now))
    BY DEF SubmitTask, Serve, Uncounted
  <1>4. Sound(d') /\ Onward(d, d')
    BY <1>1, <1>2, <1>3, EnqueueKeeps
  <1> QED
    BY <1>1, <1>4, OnwardStep DEF SubmitTask, worker

LEMMA DisableStep ==
    ASSUME IInv, DisableNode
    PROVE  IInv'
  <1>1. Sound(d) /\ now' \in 1 .. MaxTime /\ reply \in Reply
    BY DEF IInv, TypeOK, DisableNode
  <1>2. Node \in Nodes /\ d.nodes[Node].state = "enabled"
    BY DeliveryAssumption DEF DisableNode
  <1>3. d' = Uncounted(Disable(d, Node))
    BY DEF DisableNode, Serve, Uncounted
  <1>4. Sound(d') /\ Onward(d, d')
    BY <1>1, <1>2, <1>3, DisableKeeps
  <1> QED
    BY <1>1, <1>4, OnwardStep DEF DisableNode, worker

LEMMA TickStep ==
    ASSUME IInv, Tick
    PROVE  IInv'
  <1>1. Sound(d') /\ Onward(d, d')
    BY DEF IInv, Tick, Onward, RowOnward
  <1>2. now' \in 1 .. MaxTime /\ reply \in Reply
    BY DeliveryAssumption DEF IInv, TypeOK, Tick
  <1> QED
    BY <1>1, <1>2, OnwardStep DEF Tick, worker

LEMMA LoseStep ==
    ASSUME IInv, NEW c, Lose(c)
    PROVE  IInv'
  <1>1. Sound(d') /\ Onward(d, d')
    BY DEF IInv, Lose, Onward, RowOnward
  <1>2. now' \in 1 .. MaxTime /\ reply \in Reply /\ wire' \subseteq wire
    BY DEF IInv, TypeOK, Lose
  <1> QED
    BY <1>1, <1>2, OnwardStep DEF Lose

\* Expiry, as Serve leaves it.
LEMMA ServedExpiry ==
    ASSUME NEW e, Sound(e), NEW n, NEW t
    PROVE  LET f == Uncounted(Expire(e, n, t))
           IN  /\ Sound(f) /\ Onward(e, f)
               /\ \A r \in Reqs : f.tasks[r] = e.tasks[r] \/ r \in Overdue(e, n, t)
  <1> DEFINE x == Expire(e, n, t)
  <1>1. /\ Sound(x) /\ Onward(e, x)
        /\ \A r \in Reqs : x.tasks[r] = e.tasks[r] \/ r \in Overdue(e, n, t)
    BY ExpireKeeps
  <1> HIDE DEF x
  <1>2. Sound(Uncounted(x)) /\ Uncounted(x).tasks = x.tasks
    <2>1. 0 \in Int
      OBVIOUS
    <2> QED
      BY <1>1, <2>1, HeadKeeps
  <1>3. Onward(e, Uncounted(x))
    BY <1>1, <1>2 DEF Onward
  <1> QED
    BY <1>1, <1>2, <1>3 DEF x

\* Polls are answered with a task that was open, and now is handed out.
LEMMA PollSteps ==
    ASSUME IInv, NEW c,
           \/ PollNothing(c) \/ \E r \in Reqs : PollSign(c, r) \/ PollResend(c, r)
    PROVE  IInv'
  <1>1. Sound(d) /\ now \in 1 .. MaxTime /\ reply \in Reply
    BY DEF IInv, TypeOK
  <1>2. CASE PollNothing(c)
    <2>1. d' = Uncounted(Expire(d, Node, now))
      BY <1>2 DEF PollNothing, Serve, Uncounted
    <2>2. Sound(d') /\ Onward(d, d')
      BY <1>1, <2>1, ServedExpiry
    <2>3. /\ UNCHANGED <<now, life, pc, hand>> /\ wire' \subseteq wire
          /\ reply' = reply \/ reply' = [kind |-> "poll", req |-> 0]
      BY <1>2 DEF PollNothing, Answer, worker
    <2>4. reply' \in Reply
      BY <1>1, <2>3 DEF Reply
    <2> QED
      BY <1>1, <2>2, <2>3, <2>4, OnwardStep
  <1>3. ASSUME NEW r \in Reqs, PollSign(c, r) \/ PollResend(c, r)
        PROVE  IInv'
    <2> DEFINE x == Expire(d, Node, now)
    <2>1. /\ UNCHANGED <<now, life, pc, hand>> /\ wire' \subseteq wire
          /\ reply' = reply \/ reply' = [kind |-> "poll", req |-> r]
      BY <1>3 DEF PollSign, PollResend, Answer
    <2>2. reply' \in Reply
      BY <1>1, <2>1 DEF Reply
    <2>3. d.tasks[r].state \in {"queued", "dispatched"} /\ ~(d.tasks[r].expires <= now)
      <3>1. r \in Deliverable(d, Node, now)
        BY <1>3 DEF PollSign, PollResend, Oldest
      <3>2. d.tasks[r].expires \in Nat
        BY <1>1 DEF Sound, DBType, TaskRow
      <3> QED
        BY <1>1, <3>1, <3>2 DEF Deliverable, Queued, Dispatched
    <2>4. r \notin Overdue(d, Node, now)
      BY <2>3 DEF Overdue
    <2>5. Sound(d') /\ Onward(d, d') /\ d'.tasks[r].state = "dispatched"
      <3>1. CASE PollSign(c, r)
        <4>1. /\ Sound(x) /\ Onward(d, x) /\ x.tasks[r] = d.tasks[r]
          BY <1>1, <2>4, ExpireKeeps
        <4>2. d' = Uncounted(Sign(x, r)) /\ x.tasks[r].state = "queued"
          BY <3>1 DEF PollSign, Serve, Uncounted, SignOK
        <4> HIDE DEF x
        <4>3. Sound(d') /\ Onward(x, d') /\ d'.tasks[r].state = "dispatched"
          BY <4>1, <4>2, SignKeeps
        <4> QED
          BY <4>1, <4>3, OnwardThrough
      <3>2. CASE PollResend(c, r)
        <4>1. d' = Uncounted(Expire(d, Node, now)) /\ d.tasks[r].state = "dispatched"
          BY <3>2 DEF PollResend, Serve, Uncounted, ResendOK
        <4> QED
          BY <1>1, <2>4, <4>1, ServedExpiry
      <3> QED
        BY <1>3, <3>1, <3>2
    <2>6. HandedRow(d'.tasks[r])
      BY <2>5 DEF HandedRow
    <2> HIDE DEF x
    <2>7. CASE reply' = reply
      BY <1>1, <2>1, <2>2, <2>5, <2>7, OnwardStep
    <2>8. CASE reply' = [kind |-> "poll", req |-> r]
      <3>1. reply'.kind = "poll" /\ reply'.req = r
        BY <2>8
      <3> QED
        BY <1>1, <2>1, <2>2, <2>3, <2>5, <2>6, <3>1, OnwardStep
    <2> QED
      BY <2>1, <2>7, <2>8
  <1> QED
    BY <1>2, <1>3

\* A result is taken: it is what the probe stored.
LEMMA SubmitResultStep ==
    ASSUME IInv, NEW c, SubmitResult(c)
    PROVE  IInv'
  <1> DEFINE r == c.req
             v == c.value
  <1>1. Sound(d) /\ now \in 1 .. MaxTime /\ reply \in Reply
    BY DEF IInv, TypeOK
  <1>2. r \in Reqs /\ v \in Result /\ Stored(r, v)
    BY DEF IInv, WireStored, SubmitResult
  <1>3. d' = Uncounted(Submit(d, r, v)) /\ SubmitOK(d, Node, r, v)
    BY DEF SubmitResult, Serve, Uncounted
  <1>4. /\ UNCHANGED <<now, life, pc, hand>> /\ wire' \subseteq wire
        /\ reply' = reply \/ reply' = [kind |-> "ack", req |-> r]
    BY DEF SubmitResult, Answer
  <1> HIDE DEF r, v
  <1>5. /\ Sound(d') /\ d'.tasks[r].result = v
        /\ \A q \in Reqs : q # r => d'.tasks[q] = d.tasks[q]
        /\ \A q \in Reqs : HandedRow(d.tasks[q]) => HandedRow(d'.tasks[q])
    BY <1>1, <1>2, <1>3, SubmitKeeps
  <1>6. v # NoResult
    BY <1>2 DEF Result, NoResult, Statuses
  <1>7. \A q \in Reqs : /\ d.tasks[q].result # NoResult => d'.tasks[q].result # NoResult
                        /\ d'.tasks[q].result # NoResult => Stored(q, d'.tasks[q].result)
    BY <1>2, <1>5, <1>6 DEF IInv, ResultsStored
  <1>8. reply' \in Reply
    BY <1>1, <1>2, <1>4 DEF Reply
  <1>9. ReplyTrue'
    BY <1>1, <1>2, <1>4, <1>5, <1>6, <1>7 DEF IInv, ReplyTrue, Handed, Reply
  <1>10. RedeliveredUndecided'
    <2>1. reply'.kind = "ack" \/ reply' = reply
      BY <1>4
    <2> QED
      BY <1>4, <2>1 DEF IInv, RedeliveredUndecided, Received, life
  <1> QED
    BY <1>1, <1>4, <1>5, <1>7, <1>8, <1>9, <1>10, ServerStep

LEMMA RefusedStep ==
    ASSUME IInv, NEW c, Refused(c)
    PROVE  IInv'
  <1>1. Sound(d') /\ Onward(d, d')
    BY DEF IInv, Refused, Onward, RowOnward
  <1>2. /\ now' \in 1 .. MaxTime /\ UNCHANGED <<life, pc, hand>> /\ wire' \subseteq wire
        /\ reply' = reply \/ reply' = Failure
    BY DEF IInv, TypeOK, Refused, Answer
  <1>3. reply' \in Reply
    BY <1>2 DEF IInv, TypeOK, Reply, Failure
  <1>4. reply' = reply \/ (reply'.kind # "ack" /\ reply'.kind # "poll")
    BY <1>2 DEF Failure
  <1> QED
    BY <1>1, <1>2, <1>3, <1>4, OnwardStep

-----------------------------------------------------------------------------
(* Steps of the worker.                                                    *)

\* What the probe decided stays decided, and its result stays the same until
\* it is forgotten.
Kept ==
    \A r \in Reqs : status[r] \in Decided =>
        /\ status'[r] \in Decided
        /\ status'[r] # "forgotten" => status'[r] = status[r] /\ policy'[r] = policy[r]

\* A decision is about a task that the server handed out.
Grounded ==
    \A r \in Reqs :
        /\ status[r] # "new" => status'[r] # "new"
        /\ status'[r] # "new" => Handed(r) /\ policy'[r] \in Digests

\* The requests on the wire are old ones or carry a stored result.
WireFrom ==
    \A c \in wire' : c.kind = "result" =>
        \/ \E b \in wire : b.kind = "result" /\ b.req = c.req /\ b.value = c.value
        \/ /\ c.req \in Reqs /\ status[c.req] \in Life!Outcomes
           /\ c.value = [status |-> status[c.req], policy |-> policy[c.req]]

\* What the probe has stored can be sent.
LEMMA StoredResult ==
    ASSUME IInv, NEW r \in Reqs, status[r] \in Life!Outcomes
    PROVE  LET v == [status |-> status[r], policy |-> policy[r]]
           IN  v \in Result /\ Stored(r, v)
  <1>1. policy[r] \in Digests
    BY DEF IInv, DecisionsHanded, Life!Outcomes
  <1>2. status[r] \in Statuses
    BY DEF Life!Outcomes, Statuses
  <1> QED
    BY <1>1, <1>2 DEF Result, Stored, Decided

LEMMA WorkerStep ==
    ASSUME IInv, UNCHANGED <<now, d>>, LifeType', policy' \in [Reqs -> Digests \cup {NoDigest}],
           Kept, Grounded, StartedDecided', ForgottenDelivered', DeliveredStored',
           pc' \in {"down", "idle", "poll", "run", "stored", "submit"},
           hand' \in Reqs \cup {0}, wire' \subseteq Call, WireFrom,
           reply' = NoReply \/ (reply' = reply /\ pc' # "poll"), AtPoll', AtHand'
    PROVE  IInv'
  <1>1. NoReply \in Reply /\ NoReply.kind = "none"
    BY DEF NoReply, Reply
  <1>2. TypeOK' /\ Sound(d')
    BY <1>1 DEF IInv, TypeOK
  <1>3. DecisionsHanded'
    BY DEF Grounded, DecisionsHanded, Handed
  <1>4. ASSUME NEW r \in Reqs, NEW v, Stored(r, v) PROVE Stored(r, v)'
    BY <1>4 DEF Stored, Kept
  <1>5. ResultsStored'
    BY <1>4 DEF IInv, ResultsStored
  <1>6. WireStored'
    <2> SUFFICES ASSUME NEW c \in wire', c.kind = "result"
                 PROVE  c.req \in Reqs /\ c.value \in Result /\ Stored(c.req, c.value)
      BY <1>4 DEF WireStored
    <2>1. CASE \E b \in wire : b.kind = "result" /\ b.req = c.req /\ b.value = c.value
      BY <2>1 DEF IInv, WireStored
    <2>2. CASE /\ c.req \in Reqs /\ status[c.req] \in Life!Outcomes
               /\ c.value = [status |-> status[c.req], policy |-> policy[c.req]]
      BY <2>2, StoredResult
    <2> QED
      BY <2>1, <2>2 DEF WireFrom
  <1>7. ReplyTrue'
    BY <1>1 DEF IInv, ReplyTrue, Handed
  <1>8. RedeliveredUndecided'
    <2>1. reply'.kind = "none" \/ pc' # "poll"
      BY <1>1
    <2> QED
      BY <2>1 DEF RedeliveredUndecided, Received
  <1> QED
    BY <1>2, <1>3, <1>5, <1>6, <1>7, <1>8 DEF IInv

\* The worker moves, the probe's rows do not.
LEMMA LoopStep ==
    ASSUME IInv, UNCHANGED <<now, d>>, UNCHANGED life,
           pc' \in {"down", "idle", "poll", "run", "stored", "submit"},
           hand' \in Reqs \cup {0}, wire' \subseteq Call, WireFrom,
           reply' = NoReply,
           pc' = "poll" => Outbox = {} /\ Running = {},
           pc' \notin {"run", "stored"}
    PROVE  IInv'
  <1> USE DEF life
  <1>1. LifeType' /\ policy' \in [Reqs -> Digests \cup {NoDigest}]
    BY DEF IInv, LifeType, TypeOK
  <1>2. Kept
    BY DEF Kept
  <1>3. Grounded
    BY DEF IInv, Grounded, DecisionsHanded
  <1>4. StartedDecided' /\ ForgottenDelivered' /\ DeliveredStored'
    BY DEF IInv, StartedDecided, ForgottenDelivered, DeliveredStored
  <1>5. AtPoll' /\ AtHand'
    BY DEF AtPoll, AtHand, Outbox, Running
  <1> QED
    BY <1>1, <1>2, <1>3, <1>4, <1>5, WorkerStep

\* A request that is given up is still the request it was.
LEMMA GivenUpKeeps ==
    ASSUME IInv
    PROVE  /\ GivenUp \subseteq Call
           /\ \A c \in GivenUp : \E b \in wire :
                 b.kind = c.kind /\ b.req = c.req /\ b.value = c.value
  <1> SUFFICES ASSUME NEW b \in wire
               PROVE  LET c == [b EXCEPT !.live = FALSE]
                      IN  /\ c \in Call /\ c.kind = b.kind
                          /\ c.req = b.req /\ c.value = b.value
    BY DEF GivenUp
  <1>1. b \in Call
    BY DEF IInv, TypeOK
  <1> QED
    BY <1>1 DEF Call

\* A cycle ends, or the process.
LEMMA RestStep ==
    ASSUME IInv, UNCHANGED <<now, d>>, UNCHANGED life,
           Rest("idle") \/ Rest("down")
    PROVE  IInv'
  <1>1. wire' \subseteq Call /\ WireFrom
    BY GivenUpKeeps DEF Rest, WireFrom
  <1> QED
    BY <1>1, LoopStep DEF Rest, Go

\* A stored result is sent.
LEMMA SubmittingStep ==
    ASSUME IInv, UNCHANGED <<now, d>>, UNCHANGED life, NEW r \in Reqs,
           status[r] \in Life!Outcomes, Submitting(r)
    PROVE  IInv'
  <1> DEFINE v == [status |-> status[r], policy |-> policy[r]]
  <1>1. v \in Result
    BY StoredResult
  <1>2. /\ ResultCall(r) \in Call /\ ResultCall(r).req = r /\ ResultCall(r).value = v
    <2> HIDE DEF v
    <2>1. [kind |-> "result", req |-> r, value |-> v, live |-> TRUE] \in Call
      BY <1>1 DEF Call
    <2> QED
      BY <2>1 DEF ResultCall, v
  <1>3. wire' = wire \cup {ResultCall(r)}
    BY DEF Submitting
  <1> HIDE DEF v
  <1>4. wire' \subseteq Call /\ WireFrom
    BY <1>2, <1>3 DEF IInv, TypeOK, WireFrom, v
  <1> QED
    BY <1>4, LoopStep DEF Submitting, Go

LEMMA PollStep ==
    ASSUME IInv, Poll
    PROVE  IInv'
  <1>1. PollCall \in Call /\ PollCall.kind = "poll"
    <2>1. PollCall \in Call
      BY DEF PollCall, Call
    <2> QED
      BY <2>1 DEF PollCall
  <1>2. wire' \subseteq Call /\ WireFrom
    BY <1>1 DEF IInv, TypeOK, Poll, WireFrom
  <1> QED
    BY <1>2, LoopStep DEF Poll, Inside, Go

-----------------------------------------------------------------------------
(* Steps of the worker that write the probe's rows.                        *)

\* An answer is acknowledged for what the server has.
LEMMA AcknowledgeStep ==
    ASSUME IInv, Acknowledge
    PROVE  IInv'
  <1>1. reply.kind = "ack" /\ reply.req = hand
    BY DEF Acknowledge
  <1>2. hand \in Reqs /\ d.tasks[hand].result # NoResult
    BY <1>1 DEF IInv, ReplyTrue
  <1>3. /\ delivered' = [delivered EXCEPT ![hand] = TRUE]
        /\ UNCHANGED <<status, starts, policy, now, d>> /\ Rest("idle")
    BY DEF Acknowledge, Life!Deliver, Inside
  <1>4. delivered \in [Reqs -> BOOLEAN]
    BY DEF IInv, LifeType
  <1>5. \A r \in Reqs : delivered'[r] = (delivered[r] \/ r = hand)
    BY <1>2, <1>3, <1>4
  <1>6. LifeType'
    BY <1>3, <1>4 DEF IInv, LifeType
  <1>7. Kept /\ policy' \in [Reqs -> Digests \cup {NoDigest}]
    BY <1>3 DEF IInv, TypeOK, Kept
  <1>8. Grounded
    BY <1>3 DEF IInv, Grounded, DecisionsHanded
  <1>9. StartedDecided'
    BY <1>3 DEF IInv, StartedDecided
  <1>10. ForgottenDelivered' /\ DeliveredStored'
    BY <1>2, <1>3, <1>5 DEF IInv, ForgottenDelivered, DeliveredStored
  <1>11. wire' \subseteq Call /\ WireFrom
    BY <1>3, GivenUpKeeps DEF Rest, WireFrom
  <1>12. pc' = "idle" /\ hand' = 0 /\ reply' = NoReply
    BY <1>3 DEF Rest, Go
  <1>13. AtPoll' /\ AtHand'
    BY <1>12 DEF AtPoll, AtHand
  <1> QED
    BY <1>3, <1>6, <1>7, <1>8, <1>9, <1>10, <1>11, <1>12, <1>13, WorkerStep

\* A row is written that does not change what was decided.
LEMMA UndecidedRow ==
    ASSUME IInv, UNCHANGED <<now, d, policy, delivered>>, NEW r \in Reqs,
           status[r] = "running", LifeType',
           \A q \in Reqs : q # r => status'[q] = status[q],
           status'[r] \in {"running"} \cup Life!Outcomes,
           \A q \in Reqs : starts'[q] # 0 => starts[q] # 0 \/ q = r
    PROVE  /\ policy' \in [Reqs -> Digests \cup {NoDigest}]
           /\ Kept /\ Grounded
           /\ StartedDecided' /\ ForgottenDelivered' /\ DeliveredStored'
  <1>1. status[r] \notin Decided /\ status[r] # "new" /\ status'[r] # "forgotten"
        /\ status'[r] # "new"
    BY DEF Decided, Life!Outcomes
  <1>2. Kept /\ policy' \in [Reqs -> Digests \cup {NoDigest}]
    BY <1>1 DEF IInv, TypeOK, Kept
  <1>3. Grounded
    BY <1>1 DEF IInv, Grounded, DecisionsHanded
  <1>4. StartedDecided'
    BY <1>1 DEF IInv, StartedDecided
  <1>5. ForgottenDelivered' /\ DeliveredStored'
    BY <1>1 DEF IInv, ForgottenDelivered, DeliveredStored
  <1> QED
    BY <1>2, <1>3, <1>4, <1>5

\* The wire as it is.
LEMMA SameWire ==
    ASSUME IInv, UNCHANGED wire
    PROVE  wire' \subseteq Call /\ WireFrom
  BY DEF IInv, TypeOK, WireFrom

LEMMA StartStep ==
    ASSUME IInv, Start
    PROVE  IInv'
  <1>1. /\ pc = "run" /\ status[hand] = "running" /\ starts' = [starts EXCEPT ![hand] = 1]
        /\ UNCHANGED <<now, d, status, delivered, policy, pc, hand, wire, reply>>
    BY DEF Start, Life!Start, Inside, worker
  <1>2. hand \in Reqs
    BY <1>1 DEF IInv, AtHand
  <1>3. LifeType' /\ \A q \in Reqs : q # hand => starts'[q] = starts[q]
    BY <1>1, <1>2 DEF IInv, LifeType
  <1>4. /\ policy' \in [Reqs -> Digests \cup {NoDigest}] /\ Kept /\ Grounded
        /\ StartedDecided' /\ ForgottenDelivered' /\ DeliveredStored'
    BY <1>1, <1>2, <1>3, UndecidedRow
  <1>5. AtPoll' /\ AtHand'
    BY <1>1, <1>2 DEF AtPoll, AtHand
  <1>6. wire' \subseteq Call /\ WireFrom
    BY <1>1, SameWire
  <1>7. pc' = "run" /\ hand' \in Reqs \cup {0}
    BY <1>1, <1>2
  <1> QED
    BY <1>1, <1>3, <1>4, <1>5, <1>6, <1>7, WorkerStep

\* What Life!Finish(r) does.
LEMMA Finishes ==
    ASSUME IInv, NEW r \in Reqs, Life!Finish(r), UNCHANGED <<now, d, policy>>
    PROVE  /\ LifeType' /\ status'[r] \in Life!Outcomes
           /\ policy' \in [Reqs -> Digests \cup {NoDigest}] /\ Kept /\ Grounded
           /\ StartedDecided' /\ ForgottenDelivered' /\ DeliveredStored'
  <1>1. PICK s \in IF starts[r] = 1 THEN {"succeeded", "failed", "indeterminate"}
                   ELSE {"expired", "indeterminate"} :
               status' = [status EXCEPT ![r] = s]
    BY DEF Life!Finish
  <1>2. /\ s \in Life!Outcomes /\ status[r] = "running" /\ UNCHANGED <<starts, delivered>>
    BY <1>1 DEF Life!Finish, Life!Outcomes
  <1>3. /\ LifeType' /\ status'[r] = s
        /\ \A q \in Reqs : q # r => status'[q] = status[q]
    BY <1>1, <1>2 DEF IInv, LifeType, Decided
  <1> QED
    BY <1>2, <1>3, UndecidedRow

LEMMA FinishStep ==
    ASSUME IInv, Finish
    PROVE  IInv'
  <1>1. /\ pc = "run" /\ pc' = "stored" /\ Life!Finish(hand)
        /\ UNCHANGED <<now, d, policy, hand, wire, reply>>
    BY DEF Finish, Inside
  <1>2. hand \in Reqs
    BY <1>1 DEF IInv, AtHand
  <1>3. /\ LifeType' /\ status'[hand] \in Life!Outcomes
        /\ policy' \in [Reqs -> Digests \cup {NoDigest}] /\ Kept /\ Grounded
        /\ StartedDecided' /\ ForgottenDelivered' /\ DeliveredStored'
    BY <1>1, <1>2, Finishes
  <1>4. AtPoll' /\ AtHand'
    BY <1>1, <1>2, <1>3 DEF AtPoll, AtHand
  <1>5. wire' \subseteq Call /\ WireFrom
    BY <1>1, SameWire
  <1>6. hand' \in Reqs \cup {0}
    BY <1>1, <1>2
  <1> QED
    BY <1>1, <1>3, <1>4, <1>5, <1>6, WorkerStep

LEMMA RecoverStep ==
    ASSUME IInv, Recover
    PROVE  IInv'
  <1>1. Rest("idle") /\ UNCHANGED <<now, d, policy>>
    BY DEF Recover, Inside
  <1>2. CASE UNCHANGED <<status, starts, delivered>>
    BY <1>1, <1>2, RestStep DEF life
  <1>3. ASSUME NEW r \in Reqs, Life!Finish(r) PROVE IInv'
    <2>1. /\ LifeType' /\ policy' \in [Reqs -> Digests \cup {NoDigest}]
          /\ Kept /\ Grounded
          /\ StartedDecided' /\ ForgottenDelivered' /\ DeliveredStored'
      BY <1>1, <1>3, Finishes
    <2>2. wire' \subseteq Call /\ WireFrom
      BY <1>1, GivenUpKeeps DEF Rest, WireFrom
    <2>3. pc' = "idle" /\ hand' = 0 /\ reply' = NoReply
      BY <1>1 DEF Rest, Go
    <2>4. AtPoll' /\ AtHand'
      BY <2>3 DEF AtPoll, AtHand
    <2> QED
      BY <1>1, <2>1, <2>2, <2>3, <2>4, WorkerStep
  <1> QED
    BY <1>2, <1>3 DEF Recover

\* What forgetting leaves: only what was delivered is forgotten.
LEMMA Forgets ==
    ASSUME IInv, NEW S \in SUBSET Life!Forgettable, NEW f,
           status' = Life!Forgetting(S, f)
    PROVE  \A q \in Reqs : \/ status'[q] = f[q]
                           \/ /\ status'[q] = "forgotten" /\ delivered[q]
                              /\ status[q] \in Life!Outcomes
  BY DEF Life!Forgetting, Life!Forgettable

LEMMA PruneStep ==
    ASSUME IInv, Prune
    PROVE  IInv'
  <1>1. /\ pc = "idle"
        /\ UNCHANGED <<now, d, starts, delivered, policy, pc, hand, wire, reply>>
    BY DEF Prune, Life!Forget, Inside, worker
  <1>2. PICK S \in SUBSET Life!Forgettable : status' = Life!Forgetting(S, status)
    BY DEF Prune, Life!Forget
  <1>3. \A q \in Reqs : \/ status'[q] = status[q]
                        \/ /\ status'[q] = "forgotten" /\ delivered[q]
                           /\ status[q] \in Life!Outcomes
    BY <1>2, Forgets
  <1>4. status \in [Reqs -> {"new", "running"} \cup Decided]
    BY DEF IInv, LifeType
  <1>5. LifeType'
    <2>1. status' \in [Reqs -> {"new", "running"} \cup Decided]
      BY <1>2, <1>4 DEF Life!Forgetting, Decided
    <2> QED
      BY <1>1, <2>1 DEF IInv, LifeType
  <1>6. \A q \in Reqs : status[q] \in Life!Outcomes => status[q] # "new"
    BY DEF Life!Outcomes
  <1>7. Kept
    BY <1>1, <1>3 DEF Kept, Decided
  <1>8. Grounded
    BY <1>1, <1>3, <1>6 DEF IInv, Grounded, DecisionsHanded
  <1>9. StartedDecided' /\ DeliveredStored'
    BY <1>1, <1>3 DEF IInv, StartedDecided, DeliveredStored
  <1>10. ForgottenDelivered'
    BY <1>1, <1>3 DEF IInv, ForgottenDelivered
  <1>11. wire' \subseteq Call /\ WireFrom
    BY <1>1, SameWire
  <1>12. AtPoll' /\ AtHand'
    BY <1>1 DEF AtPoll, AtHand
  <1>13. /\ policy' \in [Reqs -> Digests \cup {NoDigest}]
         /\ pc' = "idle" /\ hand' \in Reqs \cup {0}
    BY <1>1 DEF IInv, TypeOK
  <1> QED
    BY <1>1, <1>5, <1>7, <1>8, <1>9, <1>10, <1>11, <1>12, <1>13, WorkerStep

\* A request that was received is decided, under a policy.
LEMMA DecideStep ==
    ASSUME IInv, NEW r \in Reqs, Received(r), NEW p \in Digests,
           policy' = [policy EXCEPT ![r] = p],
           NEW s \in {"running"} \cup Life!Outcomes, Life!Decide(r, s),
           NEW where, where = "run" \/ (where = "stored" /\ s # "running"),
           Go(where, r), UNCHANGED wire, Inside
    PROVE  IInv'
  <1>1. /\ pc' = where /\ hand' = r /\ reply' = NoReply
        /\ UNCHANGED <<now, d, wire, starts, delivered>> /\ status[r] = "new"
    BY DEF Go, Inside, Life!Decide
  <1>2. PICK S \in SUBSET Life!Forgettable :
               status' = Life!Forgetting(S, [status EXCEPT ![r] = s])
    BY DEF Life!Decide
  <1>3. status \in [Reqs -> {"new", "running"} \cup Decided]
    BY DEF IInv, LifeType
  <1>4. \A q \in Reqs : \/ status'[q] = [status EXCEPT ![r] = s][q]
                        \/ /\ status'[q] = "forgotten" /\ delivered[q]
                           /\ status[q] \in Life!Outcomes
    BY <1>2, Forgets
  <1>5. status'[r] = s
    BY <1>1, <1>3, <1>4 DEF Life!Outcomes
  <1>6. \A q \in Reqs : q # r => \/ status'[q] = status[q]
                                 \/ /\ status'[q] = "forgotten" /\ delivered[q]
                                    /\ status[q] \in Life!Outcomes
    BY <1>3, <1>4
  <1>7. LifeType'
    <2> DEFINE g == [status EXCEPT ![r] = s]
    <2>1. g \in [Reqs -> {"new", "running"} \cup Decided]
      BY <1>3 DEF Decided
    <2> HIDE DEF g
    <2>2. status' \in [Reqs -> {"new", "running"} \cup Decided]
      BY <1>2, <2>1 DEF Life!Forgetting, Decided, g
    <2> QED
      BY <1>1, <2>2 DEF IInv, LifeType
  <1>8. /\ policy' \in [Reqs -> Digests \cup {NoDigest}] /\ policy'[r] = p
        /\ \A q \in Reqs : q # r => policy'[q] = policy[q]
    BY DEF IInv, TypeOK
  <1>9. status[r] \notin Decided /\ s # "new" /\ s # "forgotten"
    BY <1>1 DEF Decided, Life!Outcomes
  <1>10. Kept
    BY <1>6, <1>8, <1>9 DEF Kept, Decided
  <1>11. Handed(r)
    <2>1. reply.kind = "poll" /\ reply.req = r /\ r # 0
      BY DispatchLimits DEF Received, Reqs
    <2> QED
      BY <2>1 DEF IInv, ReplyTrue
  <1>12. Grounded
    <2> SUFFICES ASSUME NEW q \in Reqs
                 PROVE  /\ status[q] # "new" => status'[q] # "new"
                        /\ status'[q] # "new" => Handed(q) /\ policy'[q] \in Digests
      BY DEF Grounded
    <2>1. CASE q = r
      BY <1>1, <1>5, <1>8, <1>9, <1>11, <2>1
    <2>2. CASE q # r
      <3>1. status'[q] = "new" <=> status[q] = "new"
        BY <1>6, <2>2 DEF Life!Outcomes
      <3> QED
        BY <1>8, <2>2, <3>1 DEF IInv, DecisionsHanded
    <2> QED
      BY <2>1, <2>2
  <1>13. StartedDecided' /\ DeliveredStored'
    BY <1>1, <1>12 DEF IInv, StartedDecided, DeliveredStored, Grounded
  <1>14. ForgottenDelivered'
    BY <1>1, <1>5, <1>6, <1>9 DEF IInv, ForgottenDelivered
  <1>15. wire' \subseteq Call /\ WireFrom
    BY <1>1, SameWire
  <1>16. AtPoll' /\ AtHand'
    BY <1>1, <1>5 DEF AtPoll, AtHand
  <1> QED
    BY <1>1, <1>7, <1>8, <1>10, <1>12, <1>13, <1>14, <1>15, <1>16, WorkerStep
    DEF Inside

LEMMA AcceptStep ==
    ASSUME IInv, NEW r \in Reqs, Accept(r)
    PROVE  IInv'
  <1> DEFINE p == d.tasks[r].policy
  <1>1. reply.kind = "poll" /\ reply.req = r /\ r # 0
    BY DispatchLimits DEF Accept, Received, Reqs
  <1>2. HandedRow(d.tasks[r]) /\ RowSound(d.tasks[r])
    BY <1>1 DEF IInv, ReplyTrue, Handed, Sound
  <1>3. p \in Digests
    BY <1>2 DEF HandedRow, RowSound
  <1>4. /\ Received(r) /\ policy' = [policy EXCEPT ![r] = p]
        /\ Life!Decide(r, "running") /\ Go("run", r) /\ UNCHANGED wire /\ Inside
    BY DEF Accept, Life!Accept
  <1> HIDE DEF p
  <1> QED
    BY <1>3, <1>4, DecideStep

LEMMA RefuseStep ==
    ASSUME IInv, NEW r \in Reqs, Refuse(r)
    PROVE  IInv'
  <1>1. PICK p \in Digests : policy' = [policy EXCEPT ![r] = p]
    BY DEF Refuse
  <1>2. PICK s \in Life!Refusals : Life!Decide(r, s)
    BY DEF Refuse, Life!Refuse
  <1>3. s \in Life!Outcomes /\ s # "running"
    BY <1>2 DEF Life!Refusals, Life!Outcomes
  <1>4. Received(r) /\ Go("stored", r) /\ UNCHANGED wire /\ Inside
    BY DEF Refuse
  <1> QED
    BY <1>1, <1>2, <1>3, <1>4, DecideStep

-----------------------------------------------------------------------------
(* The specification.                                                      *)

LEMMA InitInv == Init => IInv
  <1> SUFFICES ASSUME Init PROVE IInv
    OBVIOUS
  <1> DEFINE p == CHOOSE x \in Digests : TRUE
             up == [state |-> "enabled", received |-> now, policy |-> p, ready |-> TRUE]
             rows == [n \in Nodes |-> IF n = Node THEN up ELSE NoNode]
             tokens == [k \in Tokens |-> NoTokenRow]
             tasks == [r \in Reqs |-> NoTask]
  <1>1. p \in Digests
    BY DeliveryAssumption
  <1>2. now = 1 /\ now \in 1 .. MaxTime
    BY DeliveryAssumption DEF Init
  <1> HIDE DEF p
  <1>3. up \in NodeRow /\ NoNode \in NodeRow
    BY <1>1, <1>2 DEF NodeRow, NoNode
  <1>4. NoTask \in TaskRow /\ NoTask.state = "none" /\ NoTask.result = NoResult
    BY DEF NoTask, TaskRow
  <1>5. NoTokenRow \in TokenRow
    BY DEF NoTokenRow, TokenRow
  <1>6. d = [nodes |-> rows, tokens |-> tokens, tasks |-> tasks,
             key |-> Key, trust |-> NoTrust, paused |-> FALSE,
             seq |-> 0, reserved |-> 1]
    BY DEF Init, p
  <1>7. rows \in [Nodes -> NodeRow] /\ tokens \in [Tokens -> TokenRow]
    BY <1>3, <1>5
  <1>8. tasks \in [Reqs -> TaskRow] /\ \A r \in Reqs : tasks[r] = NoTask
    BY <1>4
  <1> HIDE DEF up, rows, tokens, tasks
  <1>9. d \in DBType /\ d.tasks = tasks
    BY <1>6, <1>7, <1>8 DEF DBType
  <1>10. Sound(d) /\ \A r \in Reqs : d.tasks[r].result = NoResult
    BY <1>4, <1>8, <1>9 DEF Sound, RowSound
  <1>11. /\ status = [r \in Reqs |-> "new"] /\ starts = [r \in Reqs |-> 0]
         /\ delivered = [r \in Reqs |-> FALSE] /\ policy = [r \in Reqs |-> NoDigest]
         /\ pc = "idle" /\ hand = 0 /\ wire = {} /\ reply = NoReply
    BY DEF Init, Life!Init
  <1>12. reply \in Reply /\ reply.kind = "none"
    BY <1>11 DEF NoReply, Reply
  <1>13. TypeOK
    BY <1>2, <1>8, <1>9, <1>11, <1>12 DEF TypeOK
  <1>14. LifeType
    BY <1>11 DEF LifeType
  <1>15. DecisionsHanded /\ StartedDecided /\ ForgottenDelivered /\ DeliveredStored
    BY <1>11 DEF DecisionsHanded, StartedDecided, ForgottenDelivered, DeliveredStored
  <1>16. ResultsStored /\ WireStored /\ ReplyTrue
    BY <1>10, <1>11, <1>12 DEF ResultsStored, WireStored, ReplyTrue
  <1>17. AtPoll /\ AtHand /\ RedeliveredUndecided
    BY <1>11 DEF AtPoll, AtHand, RedeliveredUndecided, Received
  <1> QED
    BY <1>10, <1>13, <1>14, <1>15, <1>16, <1>17 DEF IInv

LEMMA NextInv == IInv /\ [Next]_vars => IInv'
  <1> SUFFICES ASSUME IInv, [Next]_vars PROVE IInv'
    OBVIOUS
  <1>1. CASE Work
    <2>1. CASE Recover
      BY <2>1, RecoverStep
    <2>2. CASE Poll
      BY <2>2, PollStep
    <2>3. CASE Acknowledge
      BY <2>3, AcknowledgeStep
    <2>4. CASE Start
      BY <2>4, StartStep
    <2>5. CASE Finish
      BY <2>5, FinishStep
    <2>6. CASE FinishFails
      BY <2>6, RestStep DEF FinishFails, Inside
    <2>7. CASE SubmitStored
      <3>1. hand \in Reqs /\ status[hand] \in Life!Outcomes
        BY <2>7 DEF SubmitStored, IInv, AtHand
      <3> QED
        BY <2>7, <3>1, SubmittingStep DEF SubmitStored, Inside
    <2>8. CASE GiveUp
      BY <2>8, RestStep DEF GiveUp, Inside
    <2>9. ASSUME NEW r \in Reqs, Flush(r) PROVE IInv'
      BY <2>9, SubmittingStep DEF Flush, Inside, Outbox
    <2>10. ASSUME NEW r \in Reqs, Accept(r) PROVE IInv'
      BY <2>10, AcceptStep
    <2>11. ASSUME NEW r \in Reqs, Refuse(r) PROVE IInv'
      BY <2>11, RefuseStep
    <2>12. ASSUME NEW r \in Reqs, Unprocessed(r) PROVE IInv'
      BY <2>12, RestStep DEF Unprocessed, Inside
    <2> QED
      BY <1>1, <2>1, <2>2, <2>3, <2>4, <2>5, <2>6, <2>7, <2>8, <2>9, <2>10,
         <2>11, <2>12 DEF Work
  <1>2. ASSUME NEW c \in wire, Handle(c) PROVE IInv'
    <2>1. CASE SubmitResult(c)
      BY <2>1, SubmitResultStep
    <2>2. CASE Refused(c)
      BY <2>2, RefusedStep
    <2>3. CASE PollNothing(c) \/ \E r \in Reqs : PollSign(c, r) \/ PollResend(c, r)
      BY <2>3, PollSteps
    <2> QED
      BY <1>2, <2>1, <2>2, <2>3 DEF Handle
  <1>3. ASSUME NEW c \in wire, Lose(c) PROVE IInv'
    BY <1>3, LoseStep
  <1>4. ASSUME NEW r \in Reqs, NEW ttl \in TTLs, SubmitTask(r, ttl) PROVE IInv'
    BY <1>4, SubmitTaskStep
  <1>5. CASE Tick
    BY <1>5, TickStep
  <1>6. CASE Crash
    BY <1>6, RestStep DEF Crash, Inside
  <1>7. CASE Prune
    BY <1>7, PruneStep
  <1>8. CASE DisableNode
    BY <1>8, DisableStep
  <1>9. CASE UNCHANGED vars
    <2>1. UNCHANGED <<now, d, status, starts, delivered, policy, pc, hand, wire, reply>>
      BY <1>9 DEF vars, life, worker
    <2>2. now \in 1 .. MaxTime /\ Sound(d) /\ reply \in Reply
      BY DEF IInv, TypeOK
    <2>3. Onward(d, d)
      BY DEF Onward, RowOnward
    <2> QED
      BY <2>1, <2>2, <2>3, OnwardStep DEF life
  <1> QED
    BY <1>1, <1>2, <1>3, <1>4, <1>5, <1>6, <1>7, <1>8, <1>9 DEF Next

(***************************************************************************)
(* Both ends agree on what became of every task, whatever is lost, late,   *)
(* repeated or crashed over, for any number of tasks, any lifetimes,       *)
(* limits and digests (RunTasks, PollTask, SubmitResult, expireTasks,      *)
(* cancelNodeTasks).                                                       *)
(***************************************************************************)
THEOREM BothEndsHold == Spec => []BothEndsAgree
  <1>1. IInv => BothEndsAgree
    <2> SUFFICES ASSUME IInv PROVE BothEndsAgree
      OBVIOUS
    <2>1. OutcomeAgrees
      BY DEF IInv, ResultsStored, Stored, OutcomeAgrees
    <2>2. ClosedNeverRan
      <3> SUFFICES ASSUME NEW r \in Reqs,
                          d.tasks[r].state \in {"rejected", "expired"},
                          d.tasks[r].result = NoResult
                   PROVE  status[r] = "new" /\ starts[r] = 0
        BY DEF ClosedNeverRan
      <3>1. ~Handed(r)
        BY DEF Handed, HandedRow
      <3>2. status[r] = "new"
        BY <3>1 DEF IInv, DecisionsHanded
      <3> QED
        BY <3>2 DEF IInv, StartedDecided
    <2> QED
      BY <2>1, <2>2 DEF IInv, BothEndsAgree
  <1> QED
    BY <1>1, InitInv, NextInv, PTL DEF Spec
-----------------------------------------------------------------------------
(* The server process.                                                     *)

LEMMA CountsAgree == ASSUME NEW S1 PROVE L!Cardinality(S1) = Cardinality(S1)
  BY DEF L!Cardinality, Cardinality

LEMMA RunningCount ==
    /\ IsFiniteSet(Servers) /\ L!Count \in Nat /\ MaxActive \in Nat
    /\ IsFiniteSet(L!Running) /\ Cardinality(L!Running) \in Nat
    /\ Cardinality(L!Running) <= L!Count
  <1>1. IsFiniteSet(Servers) /\ MaxActive \in Nat
    <2>1. L!IsFiniteSet(Servers) => IsFiniteSet(Servers)
      BY DEF L!IsFiniteSet, IsFiniteSet
    <2>2. L!IsFiniteSet(Servers) /\ MaxActive \in Nat
      BY LongRunAssumption DEF L!ListenersAssumption
    <2> QED
      BY <2>1, <2>2
  <1>2. L!Running \subseteq Servers
    BY DEF L!Running
  <1>3. L!Count \in Nat
    BY <1>1, FS_CardinalityType, CountsAgree DEF L!Count
  <1>4. IsFiniteSet(L!Running) /\ Cardinality(L!Running) <= Cardinality(Servers)
    BY <1>1, <1>2, FS_Subset
  <1>5. Cardinality(L!Running) \in Nat
    BY <1>4, FS_CardinalityType
  <1> QED
    BY <1>1, <1>3, <1>4, <1>5, CountsAgree DEF L!Count

\* A listener returns, or goes on.
LEMMA OneReturns ==
    ASSUME L!TypeOK, NEW s \in Servers, serve[s] # "returned",
           serve' = [serve EXCEPT ![s] = "returned"]
    PROVE  Cardinality(L!Running') = Cardinality(L!Running) - 1
  <1>1. L!Running' = L!Running \ {s} /\ s \in L!Running
    BY DEF L!TypeOK, L!Running
  <1> HIDE DEF L!Running
  <1> QED
    BY <1>1, RunningCount, FS_RemoveElement

LEMMA NoneReturns ==
    ASSUME L!TypeOK, NEW s \in Servers, serve[s] # "returned",
           NEW v, v # "returned", serve' = [serve EXCEPT ![s] = v]
    PROVE  L!Running' = L!Running
  BY DEF L!TypeOK, L!Running

\* A step of one listener that main does not see.
LEMMA ListenerMoves ==
    ASSUME L!ListenersInv, NEW s \in Servers,
           \/ L!Arrive(s) \/ L!HandlerEnds(s) \/ L!Listen(s) \/ L!Shutdown(s) \/ L!ServeEnds(s)
           \/ L!ServeFails(s) \/ L!Drained(s) \/ L!TimedOut(s) \/ L!SeesStopped(s)
    PROVE  L!ListenersInv'
  <1>1. L!TypeOK /\ L!Awaited /\ (\A t \in Servers : L!Orderly(t)) /\ MaxActive \in Nat
    BY RunningCount DEF L!ListenersInv
  <1>2. L!Running' = L!Running
    <2>1. CASE serve' = serve
      BY <2>1 DEF L!Running
    <2>2. CASE L!Listen(s) \/ L!ServeEnds(s) \/ L!ServeFails(s)
      <3>1. CASE L!Listen(s)
        BY <3>1, <1>1, NoneReturns DEF L!Listen
      <3>2. CASE L!ServeEnds(s) \/ L!ServeFails(s)
        BY <3>2, <1>1, NoneReturns DEF L!ServeEnds, L!ServeFails
      <3> QED
        BY <2>2, <3>1, <3>2
    <2> QED
      BY <2>1, <2>2 DEF L!Arrive, L!HandlerEnds, L!Shutdown, L!Drained, L!TimedOut, L!SeesStopped
  <1>3. UNCHANGED <<pending, results, store, ctx>>
    BY DEF L!Arrive, L!HandlerEnds, L!Listen, L!Shutdown, L!ServeEnds, L!ServeFails, L!Drained,
       L!TimedOut, L!SeesStopped
  <1>4. L!Awaited'
    BY <1>1, <1>2, <1>3 DEF L!Awaited
  <1>5. ASSUME NEW n \in 0 .. MaxActive PROVE /\ n < MaxActive => n + 1 \in 0 .. MaxActive
                                              /\ n > 0 => n - 1 \in 0 .. MaxActive
    BY <1>1
  <1>6. L!TypeOK' /\ \A t \in Servers : L!Orderly(t)'
    <2>1. active[s] \in 0 .. MaxActive
      BY <1>1 DEF L!TypeOK
    <2>2. CASE L!Arrive(s)
      <3>1. active[s] + 1 \in 0 .. MaxActive
        BY <2>1, <2>2, <1>5 DEF L!Arrive
      <3>2. L!TypeOK'
        BY <1>1, <2>2, <3>1 DEF L!Arrive, L!TypeOK, L!Count
      <3> QED
        BY <1>1, <2>2, <3>2 DEF L!Arrive, L!TypeOK, L!Orderly
    <2>3. CASE L!HandlerEnds(s)
      <3>1. active[s] - 1 \in 0 .. MaxActive
        BY <2>1, <2>3, <1>5 DEF L!HandlerEnds
      <3>2. L!TypeOK'
        BY <1>1, <2>3, <3>1 DEF L!HandlerEnds, L!TypeOK, L!Count
      <3>3. active[s] # 0
        BY <2>1, <2>3 DEF L!HandlerEnds
      <3> QED
        BY <1>1, <2>3, <3>2, <3>3 DEF L!HandlerEnds, L!TypeOK, L!Orderly
    <2>4. CASE L!Listen(s)
      BY <1>1, <2>4 DEF L!Listen, L!TypeOK, L!Orderly, L!Count
    <2>5. CASE L!Shutdown(s)
      BY <1>1, <2>5 DEF L!Shutdown, L!TypeOK, L!Orderly, L!Count
    <2>6. CASE L!ServeEnds(s)
      BY <1>1, <2>6 DEF L!ServeEnds, L!TypeOK, L!Orderly, L!Count
    <2>7. CASE L!ServeFails(s)
      BY <1>1, <2>7 DEF L!ServeFails, L!TypeOK, L!Orderly, L!Count
    <2>8. CASE L!Drained(s)
      BY <1>1, <2>8 DEF L!Drained, L!TypeOK, L!Orderly, L!Count
    <2>9. CASE L!TimedOut(s)
      BY <1>1, <2>9 DEF L!TimedOut, L!TypeOK, L!Orderly, L!Count
    <2>10. CASE L!SeesStopped(s)
      BY <1>1, <2>10 DEF L!SeesStopped, L!TypeOK, L!Orderly, L!Count
    <2> QED
      BY <2>2, <2>3, <2>4, <2>5, <2>6, <2>7, <2>8, <2>9, <2>10
  <1> QED
    BY <1>4, <1>6 DEF L!ListenersInv

\* A listener returns to main.
LEMMA ListenerReturns ==
    ASSUME L!ListenersInv, NEW s \in Servers, L!ListenFails(s) \/ L!Returns(s)
    PROVE  L!ListenersInv'
  <1>1. L!TypeOK /\ L!Awaited /\ (\A t \in Servers : L!Orderly(t))
    BY DEF L!ListenersInv
  <1>2. /\ serve[s] # "returned" /\ serve' = [serve EXCEPT ![s] = "returned"]
        /\ pending' = pending + 1
        /\ UNCHANGED <<ctx, stopper, active, results, store, forced, failed>>
    BY DEF L!ListenFails, L!Returns
  <1>3. stopper[s] \in {"none", "done", "unshut"}
    BY <1>1 DEF L!ListenFails, L!Returns, L!Orderly
  <1>4. Cardinality(L!Running') = Cardinality(L!Running) - 1
    BY <1>1, <1>2, OneReturns
  <1>5. Cardinality(L!Running') \in Nat
    <2>1. L!Running' = L!Running \ {s} /\ s \in L!Running
      BY <1>1, <1>2 DEF L!Running, L!TypeOK
    <2> QED
      BY <2>1, RunningCount, FS_RemoveElement, FS_CardinalityType
  <1>6. pending \in Nat /\ results \in 0 .. L!Count
    BY <1>1 DEF L!TypeOK
  <1>7. L!Awaited'
    <2>1. results = pending + Cardinality(L!Running)
      BY <1>1, CountsAgree DEF L!Awaited
    <2>2. results = pending' + Cardinality(L!Running')
      BY <2>1, <1>2, <1>4, <1>6, RunningCount
    <2> QED
      BY <2>2, <1>1, <1>2, CountsAgree DEF L!Awaited
  <1>8. pending' \in 0 .. L!Count
    <2>1. results = pending' + Cardinality(L!Running')
      BY <1>2, <1>7, CountsAgree DEF L!Awaited
    <2>2. pending' \in Nat
      BY <1>2, <1>6
    <2> QED
      BY <2>1, <2>2, <1>5, <1>6, RunningCount
  <1>9. L!TypeOK'
    BY <1>1, <1>2, <1>8 DEF L!TypeOK, L!Count
  <1>10. \A t \in Servers : L!Orderly(t)'
    BY <1>1, <1>2, <1>3 DEF L!Orderly, L!TypeOK
  <1> QED
    BY <1>7, <1>9, <1>10 DEF L!ListenersInv

LEMMA MainMoves ==
    ASSUME L!ListenersInv, L!Signal \/ L!Collect \/ L!Exit
    PROVE  L!ListenersInv'
  <1>1. L!TypeOK /\ L!Awaited /\ (\A t \in Servers : L!Orderly(t))
    BY DEF L!ListenersInv
  <1>2. UNCHANGED <<serve, stopper, active, forced, failed>>
    BY DEF L!Signal, L!Collect, L!Exit
  <1>3. L!Running' = L!Running /\ \A t \in Servers : L!Orderly(t)'
    BY <1>1, <1>2 DEF L!Running, L!Orderly
  <1>4. pending \in 0 .. L!Count /\ results \in 0 .. L!Count
    BY <1>1 DEF L!TypeOK
  <1>5. pending' \in 0 .. L!Count /\ results' \in 0 .. L!Count /\ L!Awaited'
    <2>1. CASE UNCHANGED <<pending, results>>
      BY <1>1, <1>3, <1>4, <2>1 DEF L!Awaited, L!Signal, L!Collect, L!Exit
    <2>2. CASE L!Collect
      <3>1. /\ pending > 0 /\ results > 0 /\ pending' = pending - 1 /\ results' = results - 1
            /\ store' = store
        BY <2>2 DEF L!Collect
      <3>2. results = pending + Cardinality(L!Running) /\ store # "closed"
        BY <1>1, <1>4, <3>1, CountsAgree DEF L!Awaited
      <3>3. results' = pending' + Cardinality(L!Running)
        BY <3>1, <3>2, <1>4, RunningCount
      <3>4. L!Awaited'
        BY <3>1, <3>2, <3>3, <1>3, CountsAgree DEF L!Awaited
      <3> QED
        BY <3>1, <3>4, <1>4, RunningCount
    <2> QED
      BY <2>1, <2>2 DEF L!Signal, L!Exit
  <1>6. L!TypeOK'
    BY <1>1, <1>2, <1>5 DEF L!TypeOK, L!Signal, L!Collect, L!Exit, L!Count
  <1> QED
    BY <1>3, <1>5, <1>6 DEF L!ListenersInv

LEMMA ListenersStart == L!Init => L!ListenersInv
  <1> SUFFICES ASSUME L!Init PROVE L!ListenersInv
    OBVIOUS
  <1>1. L!Running = Servers
    BY DEF L!Init, L!Running
  <1>2. L!Awaited
    BY <1>1, RunningCount DEF L!Init, L!Awaited, L!Count
  <1>3. 0 \in 0 .. L!Count /\ L!Count \in 0 .. L!Count /\ 0 \in 0 .. MaxActive
    BY RunningCount
  <1>4. L!TypeOK
    BY <1>3 DEF L!Init, L!TypeOK
  <1>5. \A s \in Servers : L!Orderly(s)
    BY DEF L!Init, L!Orderly
  <1> QED
    BY <1>2, <1>4, <1>5 DEF L!ListenersInv

(***************************************************************************)
(* Whatever ends first, and with any number of listeners and handlers: the *)
(* store is closed only after every listener has returned, and after the   *)
(* handlers of every one that was shut down in time (runHTTP in            *)
(* internal/server/server.go, run in cmd/server/main.go).  This is the     *)
(* part of OrderlyEnd that is not about what must happen.                  *)
(***************************************************************************)
THEOREM ClosedLastHolds == LiveSpec => [](L!TypeOK /\ L!StoreClosedLast)
  <1>1. LongInit => L!ListenersInv
    BY ListenersStart DEF LongInit
  <1>2. L!ListenersInv /\ [LongNext]_all => L!ListenersInv'
    <2> SUFFICES ASSUME L!ListenersInv, [LongNext]_all PROVE L!ListenersInv'
      OBVIOUS
    <2>1. CASE UNCHANGED stopping
      BY <2>1 DEF stopping, L!ListenersInv, L!TypeOK, L!Awaited, L!Orderly, L!Running, L!Count
    <2>2. CASE L!Next
      BY <2>2, MainMoves, ListenerMoves, ListenerReturns DEF L!Next, L!Steps
    <2> QED
      BY <2>1, <2>2 DEF LongNext, Delivering, Rotating, Stopping, all
  <1>3. L!ListenersInv => L!TypeOK /\ L!StoreClosedLast
    <2> SUFFICES ASSUME L!ListenersInv PROVE L!StoreClosedLast
      BY DEF L!ListenersInv
    <2> SUFFICES ASSUME store = "closed", NEW s \in Servers
                 PROVE  serve[s] = "returned" /\ (s \notin forced \cup failed => active[s] = 0)
      BY DEF L!StoreClosedLast
    <2>1. pending \in Nat /\ L!Orderly(s)
      BY DEF L!ListenersInv, L!TypeOK
    <2>2. 0 = pending + Cardinality(L!Running)
      BY CountsAgree DEF L!ListenersInv, L!Awaited
    <2>3. Cardinality(L!Running) = 0
      BY <2>1, <2>2, RunningCount
    <2>4. L!Running = {}
      BY <2>3, RunningCount, FS_EmptySet
    <2>5. serve[s] = "returned"
      BY <2>4 DEF L!Running
    <2> QED
      BY <2>1, <2>5 DEF L!Orderly
  <1> QED
    BY <1>1, <1>2, <1>3, PTL DEF LiveSpec
=============================================================================
