---------------------------- MODULE ServerFacts ----------------------------
(***************************************************************************)
(* What every transaction of the server does to its database, for every    *)
(* set of nodes, tokens, keys, users and sessions and every limit.         *)
(*                                                                         *)
(* DBInv is what each committed database satisfies: the rows are sound     *)
(* (Rows) and the reserved audit slots are exactly what they are owed      *)
(* (Opens).  Inside a transaction the rows stay sound at every point, but  *)
(* the slots are only balanced at its end.  So there is one lemma for each *)
(* elementary change (an append, closing tasks, ending sessions, a new     *)
(* row), which says that Rows is kept, what is owed afterwards, and that   *)
(* the change Follows; the lemma of a transaction chains those of its      *)
(* changes and adds up.                                                    *)
(***************************************************************************)
EXTENDS Server, TLAPS, FiniteSetTheorems

\* Open tasks belong to enabled nodes.
Staffed(d) ==
    \A r \in Queued(d) \cup Dispatched(d) : d.tasks[r].node \in Enabled(d)

\* Sessions rest on the present authority of their account.
Current(d) ==
    \A s \in Live(d) :
        /\ d.users[d.sessions[s].user].state = "enabled"
        /\ d.users[d.sessions[s].user].gen = d.sessions[s].gen

\* A task that is out was signed.
Enveloped(d) == \A r \in Dispatched(d) : d.tasks[r].env \in Envelope

\* Active and retired keys are told apart, and the selected key is active.
Trusted(d) ==
    d.trust # NoTrust => /\ Active(d.trust) \cap d.trust.retired = {}
                         /\ d.key \in Active(d.trust)

Rows(d) == d \in DB /\ Staffed(d) /\ Current(d) /\ Enveloped(d) /\ Trusted(d)

DBInv(d) == Rows(d) /\ Opens(d)

\* Final rows never change, and a row that left the queue stays what it is.
Settled(d, e) ==
    \A r \in Reqs :
        /\ d.tasks[r].state \in Statuses => e.tasks[r] = d.tasks[r]
        /\ d.tasks[r].state \notin {"none", "queued"} =>
              /\ e.tasks[r].state \notin {"none", "queued"}
              /\ e.tasks[r].node = d.tasks[r].node
              /\ e.tasks[r].env = d.tasks[r].env
              /\ e.tasks[r].created = d.tasks[r].created
              /\ e.tasks[r].expires = d.tasks[r].expires

\* No node appears, and none is enabled again.
Shrinks(d, e) ==
    \A n \in Nodes :
        /\ e.nodes[n].state = "enabled" => d.nodes[n].state = "enabled"
        /\ e.nodes[n].state # "none" => d.nodes[n].state # "none"

\* No token is issued, and none becomes good again.
Unissued(d, e) ==
    \A k \in Tokens : e.tokens[k].state = "pending" => d.tokens[k].state = "pending"

\* The signers stay, and nothing new is signed.
Unsigned(d, e) ==
    e.key = d.key /\ e.trust = d.trust /\ Dispatched(e) \subseteq Dispatched(d)

\* What every transaction does but those that register, issue a token, sign
\* or change the signers.
Follows(d, e) == Settled(d, e) /\ Shrinks(d, e) /\ Unissued(d, e) /\ Unsigned(d, e)

-----------------------------------------------------------------------------
(* Finite sets of rows.                                                    *)

\* The tables are finite, so what they owe is a number.
LEMMA Finite ==
    ASSUME NEW d
    PROVE  /\ IsFiniteSet(Enabled(d)) /\ Cardinality(Enabled(d)) \in Nat
           /\ IsFiniteSet(Live(d)) /\ Cardinality(Live(d)) \in Nat
           /\ IsFiniteSet(Queued(d)) /\ Cardinality(Queued(d)) \in Nat
           /\ IsFiniteSet(Dispatched(d)) /\ Cardinality(Dispatched(d)) \in Nat
           /\ Expected(d) \in Nat
  <1>1. IsFiniteSet(Reqs)
    BY FS_Interval, DispatchLimits DEF Reqs
  <1>2. IsFiniteSet(Enabled(d))
    BY FS_Subset, DispatchSets DEF Enabled
  <1>3. IsFiniteSet(Live(d))
    BY FS_Subset, AccountSets DEF Live
  <1>4. IsFiniteSet(Queued(d)) /\ IsFiniteSet(Dispatched(d))
    BY <1>1, FS_Subset DEF Queued, Dispatched
  <1>5. /\ Cardinality(Enabled(d)) \in Nat /\ Cardinality(Live(d)) \in Nat
        /\ Cardinality(Queued(d)) \in Nat /\ Cardinality(Dispatched(d)) \in Nat
    BY <1>2, <1>3, <1>4, FS_CardinalityType
  <1> QED
    BY <1>2, <1>3, <1>4, <1>5 DEF Expected

\* Taking a part away from a finite set takes its number away.
LEMMA Without ==
    ASSUME NEW S, IsFiniteSet(S), NEW R \in SUBSET S
    PROVE  /\ IsFiniteSet(R) /\ Cardinality(R) \in Nat
           /\ Cardinality(R) <= Cardinality(S)
           /\ Cardinality(S \ R) = Cardinality(S) - Cardinality(R)
  <1>1. S \cap R = R
    OBVIOUS
  <1>2. IsFiniteSet(R) /\ Cardinality(R) <= Cardinality(S)
    BY FS_Subset
  <1>3. Cardinality(S \ R) = Cardinality(S) - Cardinality(S \cap R)
    BY FS_Difference
  <1> QED
    BY <1>1, <1>2, <1>3, FS_CardinalityType

-----------------------------------------------------------------------------
(* The relation Follows.                                                   *)

\* The tables that the invariants look at are the same.
Same(d, e) ==
    /\ e.nodes = d.nodes /\ e.tokens = d.tokens /\ e.tasks = d.tasks
    /\ e.key = d.key /\ e.trust = d.trust
    /\ e.users = d.users /\ e.sessions = d.sessions

\* An unchanged table keeps its rows sound and owes what it owed.
LEMMA SameKeeps ==
    ASSUME NEW d, NEW e \in DB, Rows(d), Same(d, e)
    PROVE  Rows(e) /\ Follows(d, e) /\ Expected(e) = Expected(d)
  <1>1. /\ Enabled(e) = Enabled(d) /\ Queued(e) = Queued(d)
        /\ Dispatched(e) = Dispatched(d) /\ Live(e) = Live(d)
    BY DEF Same, Enabled, Queued, Dispatched, Live
  <1>2. Rows(e)
    BY <1>1 DEF Same, Rows, Staffed, Current, Enveloped, Trusted
  <1>3. Follows(d, e)
    BY <1>1 DEF Same, Follows, Settled, Shrinks, Unissued, Unsigned
  <1> QED
    BY <1>1, <1>2, <1>3 DEF Expected

\* One change after another.
LEMMA FollowsThrough ==
    ASSUME NEW d, NEW e, NEW f, Follows(d, e), Follows(e, f)
    PROVE  Follows(d, f)
  <1>1. Settled(d, f)
    BY DEF Follows, Settled
  <1>2. Shrinks(d, f)
    BY DEF Follows, Shrinks
  <1>3. Unissued(d, f)
    BY DEF Follows, Unissued
  <1>4. Unsigned(d, f)
    BY DEF Follows, Unsigned
  <1> QED
    BY <1>1, <1>2, <1>3, <1>4 DEF Follows

-----------------------------------------------------------------------------
(* Events.                                                                 *)

\* One event changes the head and nothing else.
LEMMA AppendKeeps ==
    ASSUME NEW d, NEW k \in Int, Rows(d), d.reserved + k >= 0
    PROVE  LET e == Appended(d, k)
           IN  /\ Rows(e) /\ Follows(d, e) /\ Same(d, e)
               /\ Expected(e) = Expected(d)
               /\ e.seq = d.seq + 1 /\ e.reserved = d.reserved + k
               /\ e.paused = d.paused /\ e.limits = d.limits /\ e.high = d.high
  <1> DEFINE e == Appended(d, k)
  <1>1. d \in DB
    BY DEF Rows
  <1>2. d.seq + 1 \in Nat /\ d.reserved + k \in Nat
    BY <1>1 DEF DB
  <1>3. e = [d EXCEPT !.seq = d.seq + 1, !.reserved = d.reserved + k]
    BY DEF Appended
  <1> HIDE DEF e
  <1>4. /\ e \in DB /\ Same(d, e)
        /\ e.seq = d.seq + 1 /\ e.reserved = d.reserved + k
        /\ e.paused = d.paused /\ e.limits = d.limits /\ e.high = d.high
    BY <1>1, <1>2, <1>3 DEF DB, Same
  <1>5. Rows(e) /\ Follows(d, e) /\ Expected(e) = Expected(d)
    BY <1>4, SameKeeps
  <1> QED
    BY <1>4, <1>5 DEF e

\* So do several events that give back c slots each.
LEMMA AppendEachKeeps ==
    ASSUME NEW d, NEW n \in Nat, NEW c \in {1, 2}, Rows(d), d.reserved >= c * n
    PROVE  LET e == AppendedEach(d, n, -c)
           IN  /\ Rows(e) /\ Follows(d, e) /\ Same(d, e)
               /\ Expected(e) = Expected(d)
               /\ e.seq = d.seq + n /\ e.reserved = d.reserved - c * n
               /\ e.paused = d.paused /\ e.limits = d.limits /\ e.high = d.high
  <1> DEFINE e == AppendedEach(d, n, -c)
  <1>1. d \in DB
    BY DEF Rows
  <1>2. d.seq \in Nat /\ d.reserved \in Nat
    BY <1>1 DEF DB
  <1>3. d.seq + n \in Nat /\ d.reserved - c * n \in Nat /\ n * (-c) = - (c * n)
    BY <1>2
  <1>4. e = [d EXCEPT !.seq = d.seq + n, !.reserved = d.reserved - c * n]
    BY <1>2, <1>3 DEF AppendedEach
  <1> HIDE DEF e
  <1>5. /\ e \in DB /\ Same(d, e)
        /\ e.seq = d.seq + n /\ e.reserved = d.reserved - c * n
        /\ e.paused = d.paused /\ e.limits = d.limits /\ e.high = d.high
    BY <1>1, <1>3, <1>4 DEF DB, Same
  <1>6. Rows(e) /\ Follows(d, e) /\ Expected(e) = Expected(d)
    BY <1>5, SameKeeps
  <1> QED
    BY <1>5, <1>6 DEF e

-----------------------------------------------------------------------------
(* Changes of the tables.                                                  *)

\* Open tasks that get a final state leave the queue and nothing else moves.
LEMMA ClosedKeeps ==
    ASSUME NEW d, NEW R, NEW state \in Statuses, Rows(d),
           R \subseteq Queued(d) \cup Dispatched(d)
    PROVE  LET e == Closed(d, R, state)
           IN  /\ Rows(e) /\ Follows(d, e)
               /\ Queued(e) = Queued(d) \ R /\ Dispatched(e) = Dispatched(d) \ R
               /\ \A r \in Reqs : e.tasks[r].node = d.tasks[r].node
               /\ \A r \in Reqs \ R : e.tasks[r] = d.tasks[r]
               /\ e.nodes = d.nodes /\ e.tokens = d.tokens
               /\ e.users = d.users /\ e.sessions = d.sessions
               /\ e.key = d.key /\ e.trust = d.trust
               /\ e.seq = d.seq /\ e.reserved = d.reserved
  <1> DEFINE e == Closed(d, R, state)
             x == [r \in Reqs |-> IF r \in R THEN [d.tasks[r] EXCEPT !.state = state]
                                             ELSE d.tasks[r]]
  <1>1. d \in DB /\ d.tasks \in [Reqs -> TaskRow]
    BY DEF Rows, DB
  <1>2. x \in [Reqs -> TaskRow]
    BY <1>1 DEF TaskRow
  <1>3. e = [d EXCEPT !.tasks = x]
    BY DEF Closed
  <1>4. \A r \in Reqs :
           /\ r \in R => /\ x[r].state = state /\ x[r].node = d.tasks[r].node
                         /\ x[r].env = d.tasks[r].env
                         /\ x[r].created = d.tasks[r].created
                         /\ x[r].expires = d.tasks[r].expires
           /\ r \notin R => x[r] = d.tasks[r]
    BY <1>1 DEF TaskRow
  <1> HIDE DEF e, x
  <1>5. /\ e \in DB /\ e.tasks = x
        /\ e.nodes = d.nodes /\ e.tokens = d.tokens
        /\ e.users = d.users /\ e.sessions = d.sessions
        /\ e.key = d.key /\ e.trust = d.trust
        /\ e.seq = d.seq /\ e.reserved = d.reserved
    BY <1>1, <1>2, <1>3 DEF DB
  <1>6. state \notin {"none", "queued", "dispatched"}
    BY DEF Statuses
  <1>7. Queued(e) = Queued(d) \ R /\ Dispatched(e) = Dispatched(d) \ R
    BY <1>4, <1>5, <1>6 DEF Queued, Dispatched
  <1>8. /\ \A r \in Reqs : e.tasks[r].node = d.tasks[r].node
        /\ \A r \in Reqs \ R : e.tasks[r] = d.tasks[r]
    BY <1>4, <1>5
  <1>9. Enabled(e) = Enabled(d) /\ Live(e) = Live(d)
    BY <1>5 DEF Enabled, Live
  <1>10. Rows(e)
    <2>1. Staffed(e)
      BY <1>7, <1>8, <1>9 DEF Rows, Staffed, Queued, Dispatched
    <2>2. Enveloped(e)
      BY <1>4, <1>5, <1>7 DEF Rows, Enveloped, Dispatched
    <2>3. Current(e) /\ Trusted(e)
      BY <1>5, <1>9 DEF Rows, Current, Trusted
    <2> QED
      BY <1>5, <2>1, <2>2, <2>3 DEF Rows
  <1>11. Follows(d, e)
    <2>1. Settled(d, e)
      <3>1. \A r \in R : d.tasks[r].state \notin Statuses
        BY DEF Queued, Dispatched, Statuses
      <3> QED
        BY <1>4, <1>5, <1>6, <3>1 DEF Settled
    <2> QED
      BY <1>5, <1>7, <2>1 DEF Follows, Shrinks, Unissued, Unsigned
  <1> QED
    BY <1>5, <1>7, <1>8, <1>10, <1>11 DEF e

\* Two slots are owed less for every queued task that is closed ...
LEMMA ClosedQueued ==
    ASSUME NEW d, NEW R, NEW state \in Statuses, Rows(d), R \subseteq Queued(d)
    PROVE  /\ Expected(Closed(d, R, state)) = Expected(d) - 2 * Cardinality(R)
           /\ Cardinality(R) \in Nat /\ 2 * Cardinality(R) <= Expected(d)
  <1> DEFINE e == Closed(d, R, state)
  <1>1. Queued(e) = Queued(d) \ R /\ Dispatched(e) = Dispatched(d)
    BY ClosedKeeps DEF Queued, Dispatched
  <1>2. e.nodes = d.nodes /\ e.sessions = d.sessions
    BY ClosedKeeps
  <1> HIDE DEF e
  <1>3. Enabled(e) = Enabled(d) /\ Live(e) = Live(d)
    BY <1>2 DEF Enabled, Live
  <1>4. /\ Cardinality(R) \in Nat /\ Cardinality(R) <= Cardinality(Queued(d))
        /\ Cardinality(Queued(e)) = Cardinality(Queued(d)) - Cardinality(R)
    BY <1>1, Finite, Without
  <1>5. Expected(e) = Expected(d) - 2 * Cardinality(R)
    BY <1>1, <1>3, <1>4, Finite DEF Expected
  <1>6. 2 * Cardinality(R) <= Expected(d)
    BY <1>4, Finite DEF Expected
  <1> QED
    BY <1>4, <1>5, <1>6 DEF e

\* ... and one for every dispatched one.
LEMMA ClosedDispatched ==
    ASSUME NEW d, NEW R, NEW state \in Statuses, Rows(d), R \subseteq Dispatched(d)
    PROVE  /\ Expected(Closed(d, R, state)) = Expected(d) - Cardinality(R)
           /\ Cardinality(R) \in Nat /\ Cardinality(R) <= Expected(d)
  <1> DEFINE e == Closed(d, R, state)
  <1>1. Queued(e) = Queued(d) /\ Dispatched(e) = Dispatched(d) \ R
    BY ClosedKeeps DEF Queued, Dispatched
  <1>2. e.nodes = d.nodes /\ e.sessions = d.sessions
    BY ClosedKeeps
  <1> HIDE DEF e
  <1>3. Enabled(e) = Enabled(d) /\ Live(e) = Live(d)
    BY <1>2 DEF Enabled, Live
  <1>4. /\ Cardinality(R) \in Nat /\ Cardinality(R) <= Cardinality(Dispatched(d))
        /\ Cardinality(Dispatched(e)) = Cardinality(Dispatched(d)) - Cardinality(R)
    BY <1>1, Finite, Without
  <1>5. Expected(e) = Expected(d) - Cardinality(R)
    BY <1>1, <1>3, <1>4, Finite DEF Expected
  <1>6. Cardinality(R) <= Expected(d)
    BY <1>4, Finite DEF Expected
  <1> QED
    BY <1>4, <1>5, <1>6 DEF e

\* Sessions that end leave their accounts alone, and one slot each is owed less.
LEMMA EndedKeeps ==
    ASSUME NEW d, NEW R, Rows(d), R \subseteq Live(d)
    PROVE  LET e == Ended(d, R)
           IN  /\ Rows(e) /\ Follows(d, e)
               /\ \A s \in Sessions :
                     e.sessions[s] = IF s \in R THEN NoSession ELSE d.sessions[s]
               /\ Live(e) = Live(d) \ R
               /\ e.nodes = d.nodes /\ e.tokens = d.tokens /\ e.tasks = d.tasks
               /\ e.key = d.key /\ e.trust = d.trust /\ e.users = d.users
               /\ e.paused = d.paused
               /\ e.seq = d.seq /\ e.reserved = d.reserved
               /\ Expected(e) = Expected(d) - Cardinality(R)
               /\ Cardinality(R) \in Nat /\ Cardinality(R) <= Expected(d)
  <1> DEFINE e == Ended(d, R)
             x == [s \in Sessions |-> IF s \in R THEN NoSession ELSE d.sessions[s]]
  <1>1. d \in DB /\ d.sessions \in [Sessions -> SessionRow]
    BY DEF Rows, DB
  <1>2. x \in [Sessions -> SessionRow]
    BY <1>1 DEF SessionRow, NoSession
  <1>3. e = [d EXCEPT !.sessions = x]
    BY DEF Ended
  <1>4. \A s \in Sessions : x[s] = IF s \in R THEN NoSession ELSE d.sessions[s]
    OBVIOUS
  <1> HIDE DEF e, x
  <1>5. /\ e \in DB /\ e.sessions = x
        /\ e.nodes = d.nodes /\ e.tokens = d.tokens /\ e.tasks = d.tasks
        /\ e.key = d.key /\ e.trust = d.trust /\ e.users = d.users
        /\ e.paused = d.paused
        /\ e.seq = d.seq /\ e.reserved = d.reserved
    BY <1>1, <1>2, <1>3 DEF DB
  <1>6. Live(e) = Live(d) \ R
    BY <1>4, <1>5 DEF Live, NoSession
  <1>7. /\ Enabled(e) = Enabled(d) /\ Queued(e) = Queued(d)
        /\ Dispatched(e) = Dispatched(d)
    BY <1>5 DEF Enabled, Queued, Dispatched
  <1>8. Rows(e)
    <2>1. Current(e)
      BY <1>4, <1>5, <1>6 DEF Rows, Current, Live
    <2> QED
      BY <1>5, <1>7, <2>1 DEF Rows, Staffed, Enveloped, Trusted
  <1>9. Follows(d, e)
    BY <1>5, <1>7 DEF Follows, Settled, Shrinks, Unissued, Unsigned
  <1>10. /\ Cardinality(R) \in Nat /\ Cardinality(R) <= Cardinality(Live(d))
         /\ Cardinality(Live(e)) = Cardinality(Live(d)) - Cardinality(R)
    BY <1>6, Finite, Without
  <1>11. Expected(e) = Expected(d) - Cardinality(R) /\ Cardinality(R) <= Expected(d)
    BY <1>7, <1>10, Finite DEF Expected
  <1> QED
    BY <1>4, <1>5, <1>6, <1>8, <1>9, <1>10, <1>11 DEF e

-----------------------------------------------------------------------------
(* Transactions of the task queue.                                         *)

\* An event that nobody reserved a slot for.
LEMMA EventKeeps ==
    ASSUME NEW d, DBInv(d), CanAppend(d, 0)
    PROVE  DBInv(Appended(d, 0)) /\ Follows(d, Appended(d, 0))
  <1> DEFINE e == Appended(d, 0)
  <1>1. Rows(d) /\ Opens(d) /\ d.reserved \in Nat /\ d.seq \in Nat
    BY DEF DBInv, Rows, DB
  <1>2. /\ Rows(e) /\ Follows(d, e) /\ Expected(e) = Expected(d)
        /\ e.seq = d.seq + 1 /\ e.reserved = d.reserved
    BY <1>1, AppendKeeps
  <1> HIDE DEF e
  <1>3. Opens(e)
    BY <1>1, <1>2, CapacityAssumption DEF Opens, Verify, Used, CanAppend
  <1> QED
    BY <1>2, <1>3 DEF DBInv, e

\* Disabling a node finds a slot for each of its open tasks and leaves none.
LEMMA CancelKeeps ==
    ASSUME NEW d, NEW n, DBInv(d)
    PROVE  LET e == Cancel(d, n)
           IN  /\ CancelOK(d, n)
               /\ DBInv(e) /\ Follows(d, e)
               /\ \A r \in Queued(e) \cup Dispatched(e) : e.tasks[r].node # n
               /\ e.nodes = d.nodes
  <1> DEFINE q == Queued(d) \cap Of(d, n)
             s == Dispatched(d) \cap Of(d, n)
             a == Closed(d, q, "rejected")
             b == Closed(a, s, "indeterminate")
             f == AppendedEach(b, Cardinality(q), -2)
             e == AppendedEach(f, Cardinality(s), -1)
  <1>1. /\ Rows(d) /\ Opens(d) /\ d.reserved \in Nat /\ d.seq \in Nat
        /\ d.reserved = Expected(d) /\ d.seq + d.reserved <= Capacity
    BY DEF DBInv, Rows, DB, Opens, Verify, Used
  <1>2. q \subseteq Queued(d) /\ s \subseteq Dispatched(d)
    OBVIOUS
  <1>3. "rejected" \in Statuses /\ "indeterminate" \in Statuses
    BY DEF Statuses
  <1>4. \A r \in (Queued(d) \cup Dispatched(d)) \ (q \cup s) : d.tasks[r].node # n
    BY DEF Of, Queued, Dispatched
  <1> HIDE DEF q, s
  <1>5. /\ Rows(a) /\ Follows(d, a)
        /\ Queued(a) = Queued(d) \ q /\ Dispatched(a) = Dispatched(d) \ q
        /\ \A r \in Reqs : a.tasks[r].node = d.tasks[r].node
        /\ a.nodes = d.nodes
        /\ a.seq = d.seq /\ a.reserved = d.reserved
    BY <1>1, <1>2, <1>3, ClosedKeeps
  <1>6. /\ Expected(a) = Expected(d) - 2 * Cardinality(q)
        /\ Cardinality(q) \in Nat /\ 2 * Cardinality(q) <= Expected(d)
    BY <1>1, <1>2, <1>3, ClosedQueued
  <1>7. s \subseteq Dispatched(a)
    BY <1>2, <1>5 DEF Queued, Dispatched
  <1> HIDE DEF a
  <1>8. /\ Rows(b) /\ Follows(a, b)
        /\ Queued(b) = Queued(a) \ s /\ Dispatched(b) = Dispatched(a) \ s
        /\ \A r \in Reqs : b.tasks[r].node = a.tasks[r].node
        /\ b.nodes = a.nodes
        /\ b.seq = a.seq /\ b.reserved = a.reserved
    BY <1>3, <1>5, <1>7, ClosedKeeps
  <1>9. /\ Expected(b) = Expected(a) - Cardinality(s)
        /\ Cardinality(s) \in Nat /\ Cardinality(s) <= Expected(a)
    BY <1>3, <1>5, <1>7, ClosedDispatched
  <1> HIDE DEF b
  <1>10. /\ Rows(f) /\ Follows(b, f) /\ Same(b, f) /\ Expected(f) = Expected(b)
         /\ f.seq = b.seq + Cardinality(q)
         /\ f.reserved = b.reserved - 2 * Cardinality(q)
    BY <1>1, <1>5, <1>6, <1>8, AppendEachKeeps
  <1> HIDE DEF f
  <1>11. /\ Rows(e) /\ Follows(f, e) /\ Same(f, e) /\ Expected(e) = Expected(f)
         /\ e.seq = f.seq + Cardinality(s)
         /\ e.reserved = f.reserved - 1 * Cardinality(s)
    BY <1>1, <1>5, <1>6, <1>8, <1>9, <1>10, AppendEachKeeps
  <1>12. CancelOK(d, n)
    <2>1. d \in DB
      BY <1>1 DEF Rows
    <2> DEFINE g == AppendedEach(d, Cardinality(q), -2)
    <2>2. /\ g.seq = d.seq + Cardinality(q)
          /\ g.reserved = d.reserved - 2 * Cardinality(q)
      BY <1>1, <1>6, AppendEachKeeps
    <2> HIDE DEF g
    <2>3. CanAppendEach(d, Cardinality(q), -2)
      BY <1>1, <1>6, CapacityAssumption DEF CanAppendEach, CanAppend, Used
    <2>4. CanAppendEach(g, Cardinality(s), -1)
      BY <1>1, <1>6, <1>9, <2>2, CapacityAssumption
      DEF CanAppendEach, CanAppend, Used
    <2> QED
      BY <2>3, <2>4 DEF CancelOK, q, s, g
  <1>13. e = Cancel(d, n)
    BY DEF Cancel, q, s, a, b, f
  <1> HIDE DEF e
  <1>14. Opens(e)
    BY <1>1, <1>5, <1>6, <1>8, <1>9, <1>10, <1>11, CapacityAssumption
    DEF Opens, Verify, Used
  <1>15. Follows(d, e)
    BY <1>5, <1>8, <1>10, <1>11, FollowsThrough
  <1>16. e.tasks = b.tasks /\ e.nodes = d.nodes
    BY <1>5, <1>8, <1>10, <1>11 DEF Same
  <1>17. \A r \in Queued(e) \cup Dispatched(e) : e.tasks[r].node # n
    <2>1. Queued(e) = Queued(b) /\ Dispatched(e) = Dispatched(b)
      BY <1>16 DEF Queued, Dispatched
    <2>2. Queued(d) \cup Dispatched(d) \subseteq Reqs
      BY DEF Queued, Dispatched
    <2> QED
      BY <1>4, <1>5, <1>8, <1>16, <2>1, <2>2
  <1> QED
    BY <1>11, <1>12, <1>13, <1>14, <1>15, <1>16, <1>17 DEF DBInv

\* disableTx: the node's own slot pays for its event.
LEMMA DisableKeeps ==
    ASSUME NEW d, NEW n \in Nodes, DBInv(d), DisableOK(d, n)
    PROVE  /\ DBInv(Disable(d, n)) /\ Follows(d, Disable(d, n))
           /\ n \notin Enabled(Disable(d, n))
  <1>1. CASE d.nodes[n].state # "enabled"
    <2>1. Disable(d, n) = Appended(d, 0) /\ CanAppend(d, 0)
      BY <1>1 DEF Disable, DisableOK
    <2>2. DBInv(Appended(d, 0)) /\ Follows(d, Appended(d, 0))
      BY <2>1, EventKeeps
    <2> QED
      BY <1>1, <2>1, <2>2 DEF Follows, Shrinks, Enabled
  <1>2. CASE d.nodes[n].state = "enabled"
    <2> DEFINE c == Cancel(d, n)
               x == [c.nodes EXCEPT ![n] = [c.nodes[n] EXCEPT !.state = "disabled"]]
               b == [c EXCEPT !.nodes[n].state = "disabled"]
               e == Appended(b, -1)
    <2>1. /\ DBInv(c) /\ Follows(d, c) /\ c.nodes = d.nodes
          /\ \A r \in Queued(c) \cup Dispatched(c) : c.tasks[r].node # n
      BY CancelKeeps
    <2>2. Disable(d, n) = e /\ CanAppend(c, -1)
      BY <1>2 DEF Disable, DisableOK
    <2> HIDE DEF c
    <2>3. /\ c \in DB /\ c.nodes \in [Nodes -> NodeRow] /\ Rows(c)
          /\ c.seq \in Nat /\ c.reserved \in Nat
          /\ c.reserved = Expected(c) /\ c.seq + c.reserved <= Capacity
      BY <2>1 DEF DBInv, Rows, DB, Opens, Verify, Used
    <2>4. x \in [Nodes -> NodeRow] /\ x[n].state = "disabled"
          /\ \A m \in Nodes \ {n} : x[m] = c.nodes[m]
      BY <2>3 DEF NodeRow
    <2>5. b = [c EXCEPT !.nodes = x]
      BY <2>3 DEF DB
    <2> HIDE DEF x, b
    <2>6. /\ b \in DB /\ b.nodes = x /\ b.tokens = c.tokens /\ b.tasks = c.tasks
          /\ b.key = c.key /\ b.trust = c.trust
          /\ b.users = c.users /\ b.sessions = c.sessions
          /\ b.seq = c.seq /\ b.reserved = c.reserved
      BY <2>3, <2>4, <2>5 DEF DB
    <2>7. Enabled(b) = Enabled(c) \ {n}
      BY <2>4, <2>6 DEF Enabled
    <2>8. n \in Enabled(c)
      BY <1>2, <2>1 DEF Enabled
    <2>9. Queued(b) = Queued(c) /\ Dispatched(b) = Dispatched(c) /\ Live(b) = Live(c)
      BY <2>6 DEF Queued, Dispatched, Live
    <2>10. Expected(b) = Expected(c) - 1
      <3>1. Cardinality(Enabled(b)) = Cardinality(Enabled(c)) - 1
        BY <2>7, <2>8, Finite, FS_RemoveElement
      <3> QED
        BY <2>9, <3>1, Finite DEF Expected
    <2>11. Rows(b)
      <3>1. Staffed(b)
        BY <2>1, <2>3, <2>6, <2>7, <2>9 DEF Rows, Staffed
      <3> QED
        BY <2>3, <2>6, <2>9, <3>1 DEF Rows, Current, Enveloped, Trusted
    <2>12. Follows(c, b)
      <3>1. Shrinks(c, b)
        BY <1>2, <2>1, <2>4, <2>6 DEF Shrinks
      <3> QED
        BY <2>6, <2>9, <3>1 DEF Follows, Settled, Unissued, Unsigned
    <2>13. b.reserved + (-1) >= 0
      BY <2>2, <2>6 DEF CanAppend
    <2>14. /\ Rows(e) /\ Follows(b, e) /\ Same(b, e) /\ Expected(e) = Expected(b)
           /\ e.seq = b.seq + 1 /\ e.reserved = b.reserved + (-1)
      BY <2>11, <2>13, AppendKeeps
    <2> HIDE DEF e
    <2>15. Opens(e)
      BY <2>3, <2>6, <2>10, <2>13, <2>14 DEF Opens, Verify, Used
    <2>16. Follows(d, e)
      BY <2>1, <2>12, <2>14, FollowsThrough
    <2>17. n \notin Enabled(e)
      BY <2>4, <2>6, <2>14 DEF Enabled, Same
    <2> QED
      BY <2>2, <2>14, <2>15, <2>16, <2>17 DEF DBInv
  <1> QED
    BY <1>1, <1>2

\* A node that is enabled can always be disabled, however full the log.
LEMMA DisablePayable ==
    ASSUME NEW d, NEW n \in Enabled(d), DBInv(d)
    PROVE  DisableOK(d, n)
  <1> DEFINE c == Cancel(d, n)
  <1>1. CancelOK(d, n) /\ DBInv(c) /\ c.nodes = d.nodes
    BY CancelKeeps
  <1> HIDE DEF c
  <1>2. /\ c.seq \in Nat /\ c.reserved \in Nat
        /\ c.reserved = Expected(c) /\ c.seq + c.reserved <= Capacity
    BY <1>1 DEF DBInv, Rows, DB, Opens, Verify, Used
  <1>3. n \in Enabled(c)
    BY <1>1 DEF Enabled
  <1>4. Cardinality(Enabled(c)) # 0
    BY <1>3, Finite, FS_EmptySet
  <1>5. Expected(c) >= 1
    BY <1>4, Finite DEF Expected
  <1>6. CanAppend(c, -1)
    BY <1>2, <1>5 DEF CanAppend
  <1> QED
    BY <1>1, <1>6 DEF DisableOK, c, Enabled

\* Queued tasks can always be closed: each pays with its own two slots.
LEMMA CloseQueuedKeeps ==
    ASSUME NEW d, NEW R, NEW state \in Statuses, DBInv(d), R \subseteq Queued(d)
    PROVE  LET e == AppendedEach(Closed(d, R, state), Cardinality(R), -2)
           IN  /\ CanAppendEach(d, Cardinality(R), -2)
               /\ DBInv(e) /\ Follows(d, e)
               /\ Queued(e) = Queued(d) \ R /\ Dispatched(e) = Dispatched(d)
               /\ \A r \in Reqs \ R : e.tasks[r] = d.tasks[r]
               /\ e.nodes = d.nodes /\ e.tokens = d.tokens
               /\ e.users = d.users /\ e.sessions = d.sessions
               /\ e.key = d.key /\ e.trust = d.trust
  <1> DEFINE a == Closed(d, R, state)
             e == AppendedEach(a, Cardinality(R), -2)
  <1>1. /\ Rows(d) /\ d.reserved \in Nat /\ d.seq \in Nat
        /\ d.reserved = Expected(d) /\ d.seq + d.reserved <= Capacity
    BY DEF DBInv, Rows, DB, Opens, Verify, Used
  <1>2. /\ Rows(a) /\ Follows(d, a)
        /\ Queued(a) = Queued(d) \ R /\ Dispatched(a) = Dispatched(d) \ R
        /\ \A r \in Reqs \ R : a.tasks[r] = d.tasks[r]
        /\ a.nodes = d.nodes /\ a.tokens = d.tokens
        /\ a.users = d.users /\ a.sessions = d.sessions
        /\ a.key = d.key /\ a.trust = d.trust
        /\ a.seq = d.seq /\ a.reserved = d.reserved
    BY <1>1, ClosedKeeps
  <1>3. /\ Expected(a) = Expected(d) - 2 * Cardinality(R)
        /\ Cardinality(R) \in Nat /\ 2 * Cardinality(R) <= Expected(d)
    BY <1>1, ClosedQueued
  <1> HIDE DEF a
  <1>4. /\ Rows(e) /\ Follows(a, e) /\ Same(a, e) /\ Expected(e) = Expected(a)
        /\ e.seq = a.seq + Cardinality(R)
        /\ e.reserved = a.reserved - 2 * Cardinality(R)
    BY <1>1, <1>2, <1>3, AppendEachKeeps
  <1> HIDE DEF e
  <1>5. Opens(e)
    BY <1>1, <1>2, <1>3, <1>4, CapacityAssumption DEF Opens, Verify, Used
  <1>6. CanAppendEach(d, Cardinality(R), -2)
    BY <1>1, <1>3, CapacityAssumption DEF CanAppendEach, CanAppend, Used
  <1>7. Follows(d, e)
    BY <1>2, <1>4, FollowsThrough
  <1>8. Queued(e) = Queued(a) /\ Dispatched(e) = Dispatched(a)
    BY <1>4 DEF Same, Queued, Dispatched
  <1>9. Dispatched(d) \ R = Dispatched(d)
    BY DEF Queued, Dispatched
  <1> QED
    BY <1>2, <1>4, <1>5, <1>6, <1>7, <1>8, <1>9 DEF DBInv, Same, e, a

\* expireTasks.
LEMMA ExpireKeeps ==
    ASSUME NEW d, NEW n, NEW t, DBInv(d)
    PROVE  LET e == Expire(d, n, t)
           IN  /\ ExpireOK(d, n, t)
               /\ DBInv(e) /\ Follows(d, e)
               /\ Queued(e) = Queued(d) \ Overdue(d, n, t)
               /\ Dispatched(e) = Dispatched(d)
               /\ \A r \in Reqs \ Overdue(d, n, t) : e.tasks[r] = d.tasks[r]
               /\ e.nodes = d.nodes /\ e.tokens = d.tokens
               /\ e.users = d.users /\ e.sessions = d.sessions
               /\ e.key = d.key /\ e.trust = d.trust
  <1>1. Overdue(d, n, t) \subseteq Queued(d)
    BY DEF Overdue
  <1>2. "expired" \in Statuses
    BY DEF Statuses
  <1> QED
    BY <1>1, <1>2, CloseQueuedKeeps DEF Expire, ExpireOK

\* CancelQueuedForSignerChange.
LEMMA CancelQueuedKeeps ==
    ASSUME NEW d, DBInv(d)
    PROVE  DBInv(CancelQueued(d)) /\ Follows(d, CancelQueued(d))
  <1>1. "rejected" \in Statuses /\ Queued(d) \subseteq Queued(d)
    BY DEF Statuses
  <1> QED
    BY <1>1, CloseQueuedKeeps DEF CancelQueued

\* The database with another row for task r.
Put(d, r, row) == [d EXCEPT !.tasks[r] = row]

\* A changed row of the task table, by what it does to the two open states.
LEMMA TaskRowKeeps ==
    ASSUME NEW d, NEW r \in Reqs, NEW row \in TaskRow, Rows(d),
           row.state \in {"queued", "dispatched"} => row.node \in Enabled(d),
           row.state = "dispatched" => row.env \in Envelope
    PROVE  LET e == Put(d, r, row)
           IN  /\ Rows(e)
               /\ e.tasks[r] = row
               /\ \A q \in Reqs \ {r} : e.tasks[q] = d.tasks[q]
               /\ e.nodes = d.nodes /\ e.tokens = d.tokens
               /\ e.users = d.users /\ e.sessions = d.sessions
               /\ e.key = d.key /\ e.trust = d.trust
               /\ e.seq = d.seq /\ e.reserved = d.reserved
               /\ Queued(e) = IF row.state = "queued" THEN Queued(d) \cup {r}
                                                      ELSE Queued(d) \ {r}
               /\ Dispatched(e) = IF row.state = "dispatched"
                                  THEN Dispatched(d) \cup {r} ELSE Dispatched(d) \ {r}
               /\ Cardinality(Enabled(e)) = Cardinality(Enabled(d))
               /\ Cardinality(Live(e)) = Cardinality(Live(d))
  <1> DEFINE x == [d.tasks EXCEPT ![r] = row]
             e == Put(d, r, row)
  <1>1. d \in DB /\ d.tasks \in [Reqs -> TaskRow]
    BY DEF Rows, DB
  <1>2. /\ x \in [Reqs -> TaskRow] /\ x[r] = row
        /\ \A q \in Reqs \ {r} : x[q] = d.tasks[q]
    BY <1>1
  <1>3. e = [d EXCEPT !.tasks = x]
    BY <1>1 DEF Put, DB
  <1> HIDE DEF x, e
  <1>4. /\ e \in DB /\ e.tasks = x
        /\ e.nodes = d.nodes /\ e.tokens = d.tokens
        /\ e.users = d.users /\ e.sessions = d.sessions
        /\ e.key = d.key /\ e.trust = d.trust
        /\ e.seq = d.seq /\ e.reserved = d.reserved
    BY <1>1, <1>2, <1>3 DEF DB
  <1>5. Enabled(e) = Enabled(d) /\ Live(e) = Live(d)
    BY <1>4 DEF Enabled, Live
  <1>6. Queued(e) = IF row.state = "queued" THEN Queued(d) \cup {r}
                                            ELSE Queued(d) \ {r}
    BY <1>2, <1>4 DEF Queued
  <1>7. Dispatched(e) = IF row.state = "dispatched" THEN Dispatched(d) \cup {r}
                                                    ELSE Dispatched(d) \ {r}
    BY <1>2, <1>4 DEF Dispatched
  <1>8. Staffed(e)
    <2> SUFFICES ASSUME NEW q \in Queued(e) \cup Dispatched(e)
                 PROVE  e.tasks[q].node \in Enabled(e)
      BY DEF Staffed
    <2>1. CASE q = r
      BY <1>2, <1>4, <1>5, <2>1 DEF Queued, Dispatched
    <2>2. CASE q # r
      BY <1>2, <1>4, <1>5, <2>2 DEF Rows, Staffed, Queued, Dispatched
    <2> QED
      BY <2>1, <2>2
  <1>9. Enveloped(e)
    <2> SUFFICES ASSUME NEW q \in Dispatched(e) PROVE e.tasks[q].env \in Envelope
      BY DEF Enveloped
    <2> QED
      BY <1>2, <1>4 DEF Rows, Enveloped, Dispatched
  <1>10. Rows(e)
    BY <1>4, <1>5, <1>8, <1>9 DEF Rows, Current, Trusted
  <1> QED
    BY <1>2, <1>4, <1>5, <1>6, <1>7, <1>10 DEF e

\* enqueueTx reserves the two events the task will need.
LEMMA EnqueueKeeps ==
    ASSUME NEW d, NEW r \in Reqs, NEW n \in Nodes, NEW ttl \in TTLs, NEW t \in Nat,
           DBInv(d), EnqueueOK(d, r, n, ttl, t)
    PROVE  DBInv(Enqueue(d, r, n, ttl, t)) /\ Follows(d, Enqueue(d, r, n, ttl, t))
  <1> DEFINE c == Expire(d, n, t)
             row == NewTask(d, n, ttl, t)
             b == Put(c, r, row)
             e == Appended(b, 2)
  <1>1. /\ d.tasks[r].state = "none" /\ d.nodes[n].state = "enabled"
        /\ CanAppend(c, 2)
    BY DEF EnqueueOK, EnqueueAllowed
  <1>2. r \notin Overdue(d, n, t)
    BY <1>1 DEF Overdue, Queued
  <1>3. /\ DBInv(c) /\ Follows(d, c) /\ c.nodes = d.nodes
        /\ c.tasks[r] = d.tasks[r]
    BY <1>2, ExpireKeeps
  <1> HIDE DEF c
  <1>4. /\ c \in DB /\ Rows(c) /\ c.seq \in Nat /\ c.reserved \in Nat
        /\ c.reserved = Expected(c) /\ c.seq + c.reserved <= Capacity
    BY <1>3 DEF DBInv, Rows, DB, Opens, Verify, Used
  <1>5. /\ row \in TaskRow /\ row.state = "queued" /\ row.node = n
    <2>1. d.nodes[n].policy \in Digests \cup {NoDigest}
      BY DEF DBInv, Rows, DB, NodeRow
    <2>2. t + ttl \in Nat
      BY DispatchSets
    <2> QED
      BY <2>1, <2>2 DEF NewTask, NoTask, TaskRow
  <1>6. n \in Enabled(c)
    BY <1>1, <1>3 DEF Enabled
  <1> HIDE DEF row
  <1>7. /\ Rows(b) /\ b.tasks[r] = row
        /\ \A q \in Reqs \ {r} : b.tasks[q] = c.tasks[q]
        /\ b.nodes = c.nodes /\ b.tokens = c.tokens
        /\ b.key = c.key /\ b.trust = c.trust
        /\ b.seq = c.seq /\ b.reserved = c.reserved
        /\ Queued(b) = Queued(c) \cup {r} /\ Dispatched(b) = Dispatched(c) \ {r}
        /\ Cardinality(Enabled(b)) = Cardinality(Enabled(c))
        /\ Cardinality(Live(b)) = Cardinality(Live(c))
    BY <1>4, <1>5, <1>6, TaskRowKeeps
  <1> HIDE DEF b
  <1>8. r \notin Queued(c) /\ r \notin Dispatched(c)
    BY <1>1, <1>3 DEF Queued, Dispatched
  <1>9. Expected(b) = Expected(c) + 2
    <2>1. Cardinality(Queued(b)) = Cardinality(Queued(c)) + 1
      BY <1>7, <1>8, Finite, FS_AddElement
    <2>2. /\ Dispatched(b) = Dispatched(c)
          /\ Cardinality(Enabled(b)) = Cardinality(Enabled(c))
          /\ Cardinality(Live(b)) = Cardinality(Live(c))
      BY <1>7, <1>8
    <2> QED
      BY <2>1, <2>2, Finite DEF Expected
  <1>10. Follows(c, b)
    <2>1. Settled(c, b)
      BY <1>1, <1>3, <1>7 DEF Settled, Statuses
    <2> QED
      BY <1>7, <2>1 DEF Follows, Shrinks, Unissued, Unsigned
  <1>11. /\ Rows(e) /\ Follows(b, e) /\ Expected(e) = Expected(b)
         /\ e.seq = b.seq + 1 /\ e.reserved = b.reserved + 2
    BY <1>4, <1>7, AppendKeeps
  <1>12. e = Enqueue(d, r, n, ttl, t)
    BY DEF Enqueue, Put, c, b, row
  <1> HIDE DEF e
  <1>13. Opens(e)
    BY <1>1, <1>4, <1>7, <1>9, <1>11, CapacityAssumption
    DEF Opens, Verify, Used, CanAppend
  <1> QED
    BY <1>3, <1>10, <1>11, <1>12, <1>13, FollowsThrough DEF DBInv

\* A heartbeat is no event and owes nothing.
LEMMA HeartbeatKeeps ==
    ASSUME NEW d, NEW n \in Nodes, NEW p \in Digests, NEW ready \in BOOLEAN,
           NEW t \in Nat, DBInv(d)
    PROVE  DBInv(Heartbeat(d, n, p, ready, t)) /\ Follows(d, Heartbeat(d, n, p, ready, t))
  <1> DEFINE row == [d.nodes[n] EXCEPT !.received = t, !.policy = p, !.ready = ready]
             x == [d.nodes EXCEPT ![n] = row]
             e == Heartbeat(d, n, p, ready, t)
  <1>1. /\ d \in DB /\ d.nodes \in [Nodes -> NodeRow] /\ d.nodes[n] \in NodeRow
        /\ Rows(d) /\ Opens(d)
    BY DEF DBInv, Rows, DB
  <1>2. row \in NodeRow /\ row.state = d.nodes[n].state
    BY <1>1 DEF NodeRow
  <1>3. e = [d EXCEPT !.nodes = x]
    BY <1>1 DEF Heartbeat, DB
  <1>4. x \in [Nodes -> NodeRow] /\ \A m \in Nodes : x[m].state = d.nodes[m].state
    BY <1>1, <1>2
  <1> HIDE DEF x, e
  <1>5. /\ e \in DB /\ e.nodes = x /\ e.tokens = d.tokens /\ e.tasks = d.tasks
        /\ e.key = d.key /\ e.trust = d.trust
        /\ e.users = d.users /\ e.sessions = d.sessions
        /\ e.seq = d.seq /\ e.reserved = d.reserved
    BY <1>1, <1>3, <1>4 DEF DB
  <1>6. /\ Enabled(e) = Enabled(d) /\ Queued(e) = Queued(d)
        /\ Dispatched(e) = Dispatched(d) /\ Live(e) = Live(d)
    BY <1>4, <1>5 DEF Enabled, Queued, Dispatched, Live
  <1>7. Rows(e)
    BY <1>1, <1>5, <1>6 DEF Rows, Staffed, Current, Enveloped, Trusted
  <1>8. Follows(d, e)
    BY <1>4, <1>5, <1>6 DEF Follows, Settled, Shrinks, Unissued, Unsigned
  <1>9. Opens(e)
    BY <1>1, <1>5, <1>6 DEF Opens, Verify, Used, Expected
  <1> QED
    BY <1>7, <1>8, <1>9 DEF DBInv, e

\* SubmitResult gives back the slot of the task, once.
LEMMA SubmitKeeps ==
    ASSUME NEW d, NEW n \in Nodes, NEW r \in Reqs, NEW v \in Result,
           DBInv(d), SubmitOK(d, n, r, v)
    PROVE  DBInv(Submit(d, r, v)) /\ Follows(d, Submit(d, r, v))
  <1>1. CASE d.tasks[r].result = v
    <2>1. Submit(d, r, v) = d /\ Rows(d) /\ d \in DB
      BY <1>1 DEF Submit, DBInv, Rows
    <2>2. Follows(d, d)
      BY <2>1, SameKeeps DEF Same
    <2> QED
      BY <2>1, <2>2
  <1>2. CASE d.tasks[r].result # v
    <2> DEFINE row == [d.tasks[r] EXCEPT !.state = v.status, !.result = v]
               b == Put(d, r, row)
               e == Appended(b, -1)
    <2>1. d.tasks[r].state = "dispatched" /\ CanAppend(d, -1)
      BY <1>2 DEF SubmitOK
    <2>2. /\ d \in DB /\ Rows(d) /\ d.tasks \in [Reqs -> TaskRow]
          /\ d.tasks[r] \in TaskRow /\ d.seq \in Nat /\ d.reserved \in Nat
          /\ d.reserved = Expected(d) /\ d.seq + d.reserved <= Capacity
      BY DEF DBInv, Rows, DB, Opens, Verify, Used
    <2>3. v.status \in Statuses
      BY DEF Result
    <2>4. /\ row \in TaskRow /\ row.state = v.status
          /\ row.node = d.tasks[r].node /\ row.env = d.tasks[r].env
          /\ row.created = d.tasks[r].created /\ row.expires = d.tasks[r].expires
      BY <2>2, <2>3 DEF TaskRow
    <2>5. row.state \notin {"none", "queued", "dispatched"}
      BY <2>3, <2>4 DEF Statuses
    <2>6. e = Submit(d, r, v)
      <3>1. [d EXCEPT !.tasks[r].state = v.status, !.tasks[r].result = v]
              = [d EXCEPT !.tasks[r] = row]
        BY <2>2 DEF DB
      <3> QED
        BY <1>2, <3>1 DEF Submit, Put
    <2> HIDE DEF row
    <2>7. /\ Rows(b) /\ b.tasks[r] = row
          /\ \A q \in Reqs \ {r} : b.tasks[q] = d.tasks[q]
          /\ b.nodes = d.nodes /\ b.tokens = d.tokens
          /\ b.key = d.key /\ b.trust = d.trust
          /\ b.seq = d.seq /\ b.reserved = d.reserved
          /\ Queued(b) = Queued(d) \ {r} /\ Dispatched(b) = Dispatched(d) \ {r}
          /\ Cardinality(Enabled(b)) = Cardinality(Enabled(d))
          /\ Cardinality(Live(b)) = Cardinality(Live(d))
      BY <2>2, <2>4, <2>5, TaskRowKeeps
    <2> HIDE DEF b
    <2>8. r \notin Queued(d) /\ r \in Dispatched(d)
      BY <2>1 DEF Queued, Dispatched
    <2>9. Expected(b) = Expected(d) - 1
      <3>1. Cardinality(Dispatched(b)) = Cardinality(Dispatched(d)) - 1
        BY <2>7, <2>8, Finite, FS_RemoveElement
      <3>2. /\ Queued(b) = Queued(d)
            /\ Cardinality(Enabled(b)) = Cardinality(Enabled(d))
            /\ Cardinality(Live(b)) = Cardinality(Live(d))
        BY <2>7, <2>8
      <3> QED
        BY <3>1, <3>2, Finite DEF Expected
    <2>10. Follows(d, b)
      <3>1. Settled(d, b)
        BY <2>1, <2>4, <2>5, <2>7 DEF Settled, Statuses
      <3> QED
        BY <2>7, <3>1 DEF Follows, Shrinks, Unissued, Unsigned
    <2>11. /\ Rows(e) /\ Follows(b, e) /\ Expected(e) = Expected(b)
           /\ e.seq = b.seq + 1 /\ e.reserved = b.reserved + (-1)
      BY <2>1, <2>2, <2>7, AppendKeeps DEF CanAppend
    <2> HIDE DEF e
    <2>12. Opens(e)
      BY <2>1, <2>2, <2>7, <2>9, <2>11, CapacityAssumption
      DEF Opens, Verify, Used, CanAppend
    <2> QED
      BY <2>6, <2>10, <2>11, <2>12, FollowsThrough DEF DBInv
  <1> QED
    BY <1>1, <1>2

\* Poll signs the queued task r: all rows but r stay, and r is as it was but
\* for its state and its envelope.
LEMMA SignKeeps ==
    ASSUME NEW d, NEW r \in Reqs, NEW t, DBInv(d), d.key # NoKey, SignOK(d, r, t)
    PROVE  LET e == Sign(d, r)
               env == [key |-> d.key,
                       set |-> IF d.trust = NoTrust THEN NoTrust ELSE d.trust.id]
           IN  /\ DBInv(e) /\ Settled(d, e)
               /\ e.nodes = d.nodes /\ e.tokens = d.tokens
               /\ e.key = d.key /\ e.trust = d.trust
               /\ Dispatched(e) = Dispatched(d) \cup {r}
               /\ \A q \in Reqs \ {r} : e.tasks[q] = d.tasks[q]
               /\ e.tasks[r].state = "dispatched" /\ e.tasks[r].env = env
               /\ env \in Envelope
               /\ e.tasks[r].node = d.tasks[r].node
               /\ e.tasks[r].created = d.tasks[r].created
               /\ e.tasks[r].expires = d.tasks[r].expires
  <1> DEFINE env == [key |-> d.key,
                     set |-> IF d.trust = NoTrust THEN NoTrust ELSE d.trust.id]
             row == [d.tasks[r] EXCEPT !.state = "dispatched", !.env = env]
             b == Put(d, r, row)
             e == Appended(b, -1)
  <1>1. d.tasks[r].state = "queued" /\ CanAppend(d, -1)
    BY DEF SignOK
  <1>2. /\ d \in DB /\ Rows(d) /\ d.tasks \in [Reqs -> TaskRow]
        /\ d.tasks[r] \in TaskRow /\ d.seq \in Nat /\ d.reserved \in Nat
        /\ d.reserved = Expected(d) /\ d.seq + d.reserved <= Capacity
        /\ d.key \in Keys \cup {NoKey} /\ d.trust \in TrustSet \cup {NoTrust}
    BY DEF DBInv, Rows, DB, Opens, Verify, Used
  <1>3. env \in Envelope
    BY <1>2 DEF Envelope, TrustSet
  <1>4. Sign(d, r) = e
    <2>1. [d EXCEPT !.tasks[r].state = "dispatched", !.tasks[r].env = env]
            = [d EXCEPT !.tasks[r] = row]
      BY <1>2 DEF DB
    <2> QED
      BY <2>1 DEF Sign, Put
  <1> HIDE DEF env
  <1>5. /\ row \in TaskRow /\ row.state = "dispatched" /\ row.env = env
        /\ row.node = d.tasks[r].node
        /\ row.created = d.tasks[r].created /\ row.expires = d.tasks[r].expires
    BY <1>2, <1>3 DEF TaskRow
  <1>6. d.tasks[r].node \in Enabled(d) /\ r \in Queued(d) /\ r \notin Dispatched(d)
    BY <1>1, <1>2 DEF Rows, Staffed, Queued, Dispatched
  <1> HIDE DEF row
  <1>7. /\ Rows(b) /\ b.tasks[r] = row
        /\ \A q \in Reqs \ {r} : b.tasks[q] = d.tasks[q]
        /\ b.nodes = d.nodes /\ b.tokens = d.tokens
        /\ b.key = d.key /\ b.trust = d.trust
        /\ b.seq = d.seq /\ b.reserved = d.reserved
        /\ Queued(b) = Queued(d) \ {r} /\ Dispatched(b) = Dispatched(d) \cup {r}
        /\ Cardinality(Enabled(b)) = Cardinality(Enabled(d))
        /\ Cardinality(Live(b)) = Cardinality(Live(d))
    BY <1>2, <1>3, <1>5, <1>6, TaskRowKeeps
  <1> HIDE DEF b
  <1>8. Expected(b) = Expected(d) - 1
    <2>1. Cardinality(Dispatched(b)) = Cardinality(Dispatched(d)) + 1
      BY <1>6, <1>7, Finite, FS_AddElement
    <2>2. Cardinality(Queued(b)) = Cardinality(Queued(d)) - 1
      BY <1>6, <1>7, Finite, FS_RemoveElement
    <2>3. /\ Cardinality(Enabled(b)) = Cardinality(Enabled(d))
          /\ Cardinality(Live(b)) = Cardinality(Live(d))
      BY <1>7
    <2> QED
      BY <2>1, <2>2, <2>3, Finite DEF Expected
  <1>9. /\ Rows(e) /\ Same(b, e) /\ Expected(e) = Expected(b)
        /\ e.seq = b.seq + 1 /\ e.reserved = b.reserved + (-1)
    BY <1>1, <1>2, <1>7, AppendKeeps DEF CanAppend
  <1> HIDE DEF e
  <1>10. Opens(e)
    BY <1>1, <1>2, <1>7, <1>8, <1>9, CapacityAssumption
    DEF Opens, Verify, Used, CanAppend
  <1>11. Settled(d, e)
    BY <1>1, <1>7, <1>9 DEF Settled, Statuses, Same
  <1>12. Dispatched(e) = Dispatched(b)
    BY <1>9 DEF Same, Dispatched
  <1> QED
    BY <1>3, <1>4, <1>5, <1>7, <1>9, <1>10, <1>11, <1>12 DEF DBInv, Same, env

\* PauseDispatch.
LEMMA PauseKeeps ==
    ASSUME NEW d, NEW paused \in BOOLEAN, NEW t, DBInv(d), PauseOK(d, paused, t)
    PROVE  DBInv(Pause(d, paused)) /\ Follows(d, Pause(d, paused))
  <1> DEFINE b == [d EXCEPT !.paused = paused]
  <1>1. d \in DB /\ Rows(d) /\ Opens(d)
    BY DEF DBInv, Rows
  <1>2. /\ b \in DB /\ Same(d, b) /\ b.seq = d.seq /\ b.reserved = d.reserved
    BY <1>1 DEF DB, Same
  <1>3. CASE d.paused = paused
    BY <1>1, <1>3, SameKeeps DEF Pause, Same
  <1>4. CASE d.paused # paused
    <2>1. Pause(d, paused) = Appended(b, 0) /\ CanAppend(d, 0)
      BY <1>4 DEF Pause, PauseOK
    <2> HIDE DEF b
    <2>2. Rows(b) /\ Follows(d, b) /\ Expected(b) = Expected(d)
      BY <1>1, <1>2, SameKeeps
    <2>3. DBInv(b) /\ CanAppend(b, 0)
      BY <1>1, <1>2, <2>1, <2>2 DEF DBInv, Opens, Verify, Used, CanAppend
    <2>4. DBInv(Appended(b, 0)) /\ Follows(b, Appended(b, 0))
      BY <2>3, EventKeeps
    <2> QED
      BY <2>1, <2>2, <2>4, FollowsThrough
  <1> QED
    BY <1>3, <1>4

-----------------------------------------------------------------------------
(* Transactions of the registry and of the signers, which do not Follow.   *)

\* RegisterFrom: token k is spent, and node n joins with a slot of its own.
LEMMA RegisterKeeps ==
    ASSUME NEW d, NEW k \in Tokens, NEW n \in Nodes, NEW t,
           DBInv(d), RegisterOK(d, k, n, t)
    PROVE  LET e == Register(d, k, n)
           IN  /\ DBInv(e) /\ Settled(d, e) /\ Unsigned(d, e)
               /\ e.tasks = d.tasks
               /\ e.nodes[n].state = "enabled"
               /\ \A m \in Nodes \ {n} : e.nodes[m] = d.nodes[m]
               /\ e.tokens[k].state = "consumed"
               /\ \A l \in Tokens \ {k} : e.tokens[l] = d.tokens[l]
  <1> DEFINE x == [d.nodes EXCEPT ![n] = [d.nodes[n] EXCEPT !.state = "enabled"]]
             y == [d.tokens EXCEPT ![k] = [d.tokens[k] EXCEPT !.state = "consumed"]]
             b == [d EXCEPT !.tokens[k].state = "consumed",
                            !.nodes[n].state = "enabled"]
             e == Appended(b, 1)
  <1>1. d.nodes[n].state = "none" /\ CanAppend(d, 1)
    BY DEF RegisterOK
  <1>2. /\ d \in DB /\ Rows(d) /\ d.seq \in Nat /\ d.reserved \in Nat
        /\ d.nodes \in [Nodes -> NodeRow] /\ d.tokens \in [Tokens -> TokenRow]
        /\ d.reserved = Expected(d) /\ d.seq + d.reserved <= Capacity
    BY DEF DBInv, Rows, DB, Opens, Verify, Used
  <1>3. /\ x \in [Nodes -> NodeRow] /\ x[n].state = "enabled"
        /\ \A m \in Nodes \ {n} : x[m] = d.nodes[m]
    BY <1>2 DEF NodeRow
  <1>4. /\ y \in [Tokens -> TokenRow] /\ y[k].state = "consumed"
        /\ \A l \in Tokens \ {k} : y[l] = d.tokens[l]
    BY <1>2 DEF TokenRow
  <1>5. b = [d EXCEPT !.tokens = y, !.nodes = x]
    BY <1>2 DEF DB
  <1>6. Register(d, k, n) = e
    BY DEF Register
  <1> HIDE DEF x, y, b
  <1>7. /\ b \in DB /\ b.nodes = x /\ b.tokens = y /\ b.tasks = d.tasks
        /\ b.key = d.key /\ b.trust = d.trust
        /\ b.users = d.users /\ b.sessions = d.sessions
        /\ b.seq = d.seq /\ b.reserved = d.reserved
    BY <1>2, <1>3, <1>4, <1>5 DEF DB
  <1>8. /\ Enabled(b) = Enabled(d) \cup {n} /\ n \notin Enabled(d)
        /\ Queued(b) = Queued(d) /\ Dispatched(b) = Dispatched(d) /\ Live(b) = Live(d)
    BY <1>1, <1>3, <1>7 DEF Enabled, Queued, Dispatched, Live
  <1>9. Expected(b) = Expected(d) + 1
    <2>1. Cardinality(Enabled(b)) = Cardinality(Enabled(d)) + 1
      BY <1>8, Finite, FS_AddElement
    <2> QED
      BY <1>8, <2>1, Finite DEF Expected
  <1>10. Rows(b)
    BY <1>2, <1>7, <1>8 DEF Rows, Staffed, Current, Enveloped, Trusted
  <1>11. /\ Rows(e) /\ Same(b, e) /\ Expected(e) = Expected(b)
         /\ e.seq = b.seq + 1 /\ e.reserved = b.reserved + 1
    BY <1>2, <1>7, <1>10, AppendKeeps
  <1> HIDE DEF e
  <1>12. Opens(e)
    BY <1>1, <1>2, <1>7, <1>9, <1>11, CapacityAssumption
    DEF Opens, Verify, Used, CanAppend
  <1>13. Settled(d, e) /\ Unsigned(d, e)
    BY <1>7, <1>11 DEF Settled, Unsigned, Same, Dispatched
  <1> QED
    BY <1>3, <1>4, <1>6, <1>7, <1>11, <1>12, <1>13 DEF DBInv, Same

\* IssueToken: k becomes good, and no other token does.
LEMMA IssueKeeps ==
    ASSUME NEW d, NEW k \in Tokens, NEW ttl \in TTLs, NEW t \in Nat,
           DBInv(d), CanAppend(d, 0)
    PROVE  LET e == IssueToken(d, k, ttl, t)
           IN  /\ DBInv(e) /\ Settled(d, e) /\ Unsigned(d, e) /\ Shrinks(d, e)
               /\ e.nodes = d.nodes
               /\ \A l \in Tokens \ {k} :
                     e.tokens[l].state = "pending" => d.tokens[l].state = "pending"
  <1> DEFINE z == [l \in Tokens |->
                     IF d.tokens[l].state = "consumed" \/ d.tokens[l].expires <= t
                     THEN NoTokenRow ELSE d.tokens[l]]
             row == [state |-> "pending", expires |-> t + ttl]
             y == [z EXCEPT ![k] = row]
             b == [Swept(d, t) EXCEPT !.tokens[k] = row]
             e == Appended(b, 0)
  <1>1. /\ d \in DB /\ Rows(d) /\ Opens(d) /\ d.tokens \in [Tokens -> TokenRow]
    BY DEF DBInv, Rows, DB
  <1>2. z \in [Tokens -> TokenRow]
    BY <1>1 DEF TokenRow, NoTokenRow
  <1>3. \A l \in Tokens : z[l].state = "pending" => d.tokens[l].state = "pending"
    BY DEF NoTokenRow
  <1>4. row \in TokenRow
    BY DispatchSets DEF TokenRow
  <1>5. Swept(d, t) = [d EXCEPT !.tokens = z]
    BY DEF Swept
  <1> HIDE DEF z, row
  <1>6. /\ y \in [Tokens -> TokenRow]
        /\ \A l \in Tokens \ {k} : y[l] = z[l]
    BY <1>2, <1>4
  <1>7. b = [d EXCEPT !.tokens = y]
    BY <1>1, <1>5 DEF DB
  <1>8. IssueToken(d, k, ttl, t) = e
    BY DEF IssueToken, row
  <1> HIDE DEF y, b
  <1>9. /\ b \in DB /\ b.nodes = d.nodes /\ b.tokens = y /\ b.tasks = d.tasks
        /\ b.key = d.key /\ b.trust = d.trust
        /\ b.users = d.users /\ b.sessions = d.sessions
        /\ b.seq = d.seq /\ b.reserved = d.reserved
    BY <1>1, <1>6, <1>7 DEF DB
  <1>10. /\ Enabled(b) = Enabled(d)
         /\ Queued(b) = Queued(d) /\ Dispatched(b) = Dispatched(d) /\ Live(b) = Live(d)
    BY <1>9 DEF Enabled, Queued, Dispatched, Live
  <1>11. Rows(b)
    BY <1>1, <1>9, <1>10 DEF Rows, Staffed, Current, Enveloped, Trusted
  <1>12. DBInv(b) /\ CanAppend(b, 0)
    BY <1>1, <1>9, <1>10, <1>11
    DEF DBInv, Opens, Verify, Used, Expected, CanAppend
  <1>13. DBInv(e) /\ Follows(b, e)
    BY <1>12, EventKeeps
  <1>14. e.nodes = d.nodes /\ e.tokens = y /\ e.tasks = d.tasks
    <2>1. Same(b, e)
      BY <1>1, <1>9, <1>11, <1>12, AppendKeeps DEF CanAppend
    <2> QED
      BY <1>9, <2>1 DEF Same
  <1> HIDE DEF e
  <1>15. Settled(d, e) /\ Unsigned(d, e) /\ Shrinks(d, e)
    BY <1>9, <1>13, <1>14 DEF Settled, Unsigned, Shrinks, Follows, Dispatched
  <1> QED
    BY <1>3, <1>6, <1>8, <1>13, <1>14, <1>15

\* Another key, or another trust set, that goes with the rest.
LEMMA SignerKeeps ==
    ASSUME NEW d, NEW b \in DB, DBInv(d), CanAppend(d, 0), Trusted(b),
           b.nodes = d.nodes, b.tokens = d.tokens, b.tasks = d.tasks,
           b.users = d.users, b.sessions = d.sessions,
           b.seq = d.seq, b.reserved = d.reserved
    PROVE  /\ DBInv(Appended(b, 0)) /\ Same(b, Appended(b, 0))
           /\ Appended(b, 0).tasks = d.tasks /\ Appended(b, 0).nodes = d.nodes
           /\ Appended(b, 0).tokens = d.tokens
  <1>1. d \in DB /\ Rows(d) /\ Opens(d)
    BY DEF DBInv, Rows
  <1>2. /\ Enabled(b) = Enabled(d)
        /\ Queued(b) = Queued(d) /\ Dispatched(b) = Dispatched(d) /\ Live(b) = Live(d)
    BY DEF Enabled, Queued, Dispatched, Live
  <1>3. Rows(b)
    BY <1>1, <1>2 DEF Rows, Staffed, Current, Enveloped
  <1>4. DBInv(b) /\ CanAppend(b, 0)
    BY <1>1, <1>2, <1>3 DEF DBInv, Opens, Verify, Used, Expected, CanAppend
  <1>5. DBInv(Appended(b, 0))
    BY <1>4, EventKeeps
  <1>6. Same(b, Appended(b, 0))
    BY <1>3, <1>4, AppendKeeps DEF CanAppend
  <1> QED
    BY <1>5, <1>6 DEF Same

\* ConfigureSigner sets the key once, before there is a trust set.
LEMMA ConfigureKeeps ==
    ASSUME NEW d, NEW k \in Keys, DBInv(d), ConfigureOK(d, k)
    PROVE  LET e == Configure(d, k)
           IN  /\ DBInv(e) /\ e.trust = d.trust
               /\ e.key = d.key \/ (d.key = NoKey /\ d.trust = NoTrust)
               /\ e.nodes = d.nodes /\ e.tokens = d.tokens /\ e.tasks = d.tasks
  <1> DEFINE b == [d EXCEPT !.key = k]
  <1>1. CASE d.key = k
    BY <1>1 DEF Configure
  <1>2. CASE d.key # k
    <2>1. d \in DB /\ Trusted(d)
      BY DEF DBInv, Rows
    <2>2. d.key = NoKey /\ CanAppend(d, 0) /\ Configure(d, k) = Appended(b, 0)
      BY <1>2 DEF ConfigureOK, Configure
    <2>3. d.trust = NoTrust
      BY <2>1, <2>2, KeysAssumption DEF Trusted, Active
    <2>4. /\ b \in DB /\ b.key = k /\ b.trust = d.trust
          /\ b.nodes = d.nodes /\ b.tokens = d.tokens /\ b.tasks = d.tasks
          /\ b.users = d.users /\ b.sessions = d.sessions
          /\ b.seq = d.seq /\ b.reserved = d.reserved
      BY <2>1 DEF DB
    <2> HIDE DEF b
    <2>5. Trusted(b)
      BY <2>3, <2>4 DEF Trusted
    <2> QED
      BY <2>2, <2>3, <2>4, <2>5, SignerKeeps DEF Same
  <1> QED
    BY <1>1, <1>2

\* SwitchSigner selects an active key.
LEMMA SwitchKeeps ==
    ASSUME NEW d, NEW k \in Keys, NEW t, DBInv(d), SwitchOK(d, k, t)
    PROVE  LET e == Switch(d, k)
           IN  /\ DBInv(e) /\ e.trust = d.trust /\ d.trust # NoTrust
               /\ e.nodes = d.nodes /\ e.tokens = d.tokens /\ e.tasks = d.tasks
  <1> DEFINE b == [d EXCEPT !.key = k]
  <1>1. d \in DB /\ Trusted(d)
    BY DEF DBInv, Rows
  <1>2. /\ d.trust # NoTrust /\ k \in Active(d.trust) /\ CanAppend(d, 0)
        /\ Switch(d, k) = Appended(b, 0)
    BY DEF SwitchOK, InWindow, Switch
  <1>3. /\ b \in DB /\ b.key = k /\ b.trust = d.trust
        /\ b.nodes = d.nodes /\ b.tokens = d.tokens /\ b.tasks = d.tasks
        /\ b.users = d.users /\ b.sessions = d.sessions
        /\ b.seq = d.seq /\ b.reserved = d.reserved
    BY <1>1 DEF DB
  <1> HIDE DEF b
  <1>4. Trusted(b)
    BY <1>1, <1>2, <1>3 DEF Trusted
  <1> QED
    BY <1>2, <1>3, <1>4, SignerKeeps DEF Same

\* The keys that an installed trust set retires stay retired.
LEMMA InstallKeeps ==
    ASSUME NEW d, NEW s \in TrustSets, NEW t, DBInv(d), InstallOK(d, s, t)
    PROVE  LET e == Install(d, s)
           IN  /\ DBInv(e) /\ e.trust = s /\ s # NoTrust
               /\ d.trust # NoTrust => d.trust.retired \subseteq s.retired
               /\ Active(s) \cap s.retired = {}
               /\ e.nodes = d.nodes /\ e.tokens = d.tokens /\ e.tasks = d.tasks
  <1> DEFINE b == [d EXCEPT !.trust = s]
  <1>1. d \in DB /\ s \in TrustSet /\ s # NoTrust
    BY ServerAssumption DEF DBInv, Rows
  <1>2. /\ MayFollow(d.trust, d.key, s) /\ d.key \in Active(s) /\ CanAppend(d, 0)
        /\ Install(d, s) = Appended(b, 0)
    BY DEF InstallOK, Install
  <1>3. /\ b \in DB /\ b.key = d.key /\ b.trust = s
        /\ b.nodes = d.nodes /\ b.tokens = d.tokens /\ b.tasks = d.tasks
        /\ b.users = d.users /\ b.sessions = d.sessions
        /\ b.seq = d.seq /\ b.reserved = d.reserved
    BY <1>1 DEF DB
  <1> HIDE DEF b
  <1>4. Active(s) \cap s.retired = {}
    BY <1>2 DEF MayFollow, ValidTrust
  <1>5. d.trust # NoTrust => d.trust.retired \subseteq s.retired
    BY <1>2 DEF MayFollow
  <1>6. Trusted(b)
    BY <1>2, <1>3, <1>4 DEF Trusted
  <1> QED
    BY <1>1, <1>2, <1>3, <1>4, <1>5, <1>6, SignerKeeps DEF Same

-----------------------------------------------------------------------------
(* Transactions of the accounts.                                           *)

\* A change outside the tables: the clock, the login budget, the pause.
LEMMA SideKeeps ==
    ASSUME NEW d, NEW e \in DB, DBInv(d), Same(d, e),
           e.seq = d.seq, e.reserved = d.reserved
    PROVE  DBInv(e) /\ Follows(d, e)
  <1>1. Rows(e) /\ Follows(d, e) /\ Expected(e) = Expected(d)
    BY SameKeeps DEF DBInv
  <1> QED
    BY <1>1 DEF DBInv, Opens, Verify, Used

\* adminClock.
LEMMA AdminClockKeeps ==
    ASSUME NEW d, NEW t \in Nat, DBInv(d)
    PROVE  LET e == AdminClock(d, t)
           IN  DBInv(e) /\ Follows(d, e) /\ Same(d, e)
               /\ e.seq = d.seq /\ e.reserved = d.reserved
  <1> DEFINE e == AdminClock(d, t)
             h == IF t > d.high THEN t ELSE d.high
  <1>1. d \in DB /\ h \in Nat
    BY DEF DBInv, Rows, DB
  <1>2. e = [d EXCEPT !.high = h]
    BY DEF AdminClock
  <1> HIDE DEF e, h
  <1>3. e \in DB /\ Same(d, e) /\ e.seq = d.seq /\ e.reserved = d.reserved
    BY <1>1, <1>2 DEF DB, Same
  <1> QED
    BY <1>3, SideKeeps DEF e

\* admitLogin works on the budget alone.
LEMMA BudgetKeeps ==
    ASSUME NEW d, NEW t \in Nat, NEW u \in Users, NEW src \in Sources, DBInv(d)
    PROVE  LET p == Pruned(AdminClock(d, t), t)
               e == Counted(p, u, src, t)
           IN  DBInv(e) /\ Follows(d, e)
  <1> DEFINE a == AdminClock(d, t)
             x == [b \in Buckets |-> IF a.limits[b].started <= t - LoginWindow
                                     THEN NoBucket ELSE a.limits[b]]
             p == Pruned(a, t)
             y == [b \in Buckets |->
                    IF b \notin {"global", u, src} THEN p.limits[b]
                    ELSE [started |-> IF p.limits[b].count = 0 THEN t
                                      ELSE p.limits[b].started,
                          count |-> IF p.limits[b].count > LimitOf(b)
                                    THEN LimitOf(b) + 1 ELSE p.limits[b].count + 1]]
             e == Counted(p, u, src, t)
  <1>1. DBInv(a) /\ Follows(d, a)
    BY AdminClockKeeps
  <1> HIDE DEF a
  <1>2. a \in DB /\ a.limits \in [Buckets -> LimitRow]
    BY <1>1 DEF DBInv, Rows, DB
  <1>3. x \in [Buckets -> LimitRow]
    BY <1>2 DEF LimitRow, NoBucket
  <1>4. p = [a EXCEPT !.limits = x]
    BY DEF Pruned
  <1> HIDE DEF x, p
  <1>5. /\ p \in DB /\ p.limits \in [Buckets -> LimitRow] /\ Same(a, p)
        /\ p.seq = a.seq /\ p.reserved = a.reserved
    BY <1>2, <1>3, <1>4 DEF DB, Same
  <1>6. DBInv(p) /\ Follows(a, p)
    BY <1>1, <1>5, SideKeeps
  <1>7. \A b \in Buckets : LimitOf(b) \in Nat
    BY AccountLimits DEF LimitOf
  <1>8. y \in [Buckets -> LimitRow]
    BY <1>5, <1>7 DEF LimitRow
  <1>9. e = [p EXCEPT !.limits = y]
    BY DEF Counted
  <1> HIDE DEF y, e
  <1>10. e \in DB /\ Same(p, e) /\ e.seq = p.seq /\ e.reserved = p.reserved
    BY <1>5, <1>8, <1>9 DEF DB, Same
  <1>11. DBInv(e) /\ Follows(p, e)
    BY <1>6, <1>10, SideKeeps
  <1> QED
    BY <1>1, <1>6, <1>11, FollowsThrough DEF a, p, e

\* A session pays for its end, and the others stay.
LEMMA RevokeEachKeeps ==
    ASSUME NEW d, NEW R, DBInv(d), R \subseteq Live(d)
    PROVE  LET e == RevokeEach(d, R)
           IN  /\ RevokeEachOK(d, R)
               /\ DBInv(e) /\ Follows(d, e)
               /\ Live(e) = Live(d) \ R
               /\ \A s \in Sessions :
                     e.sessions[s] = IF s \in R THEN NoSession ELSE d.sessions[s]
               /\ e.users = d.users /\ e.nodes = d.nodes
  <1> DEFINE a == Ended(d, R)
             e == AppendedEach(a, Cardinality(R), -1)
  <1>1. /\ Rows(d) /\ d.reserved \in Nat /\ d.seq \in Nat
        /\ d.reserved = Expected(d) /\ d.seq + d.reserved <= Capacity
    BY DEF DBInv, Rows, DB, Opens, Verify, Used
  <1>2. /\ Rows(a) /\ Follows(d, a) /\ Live(a) = Live(d) \ R
        /\ \A s \in Sessions :
              a.sessions[s] = IF s \in R THEN NoSession ELSE d.sessions[s]
        /\ a.users = d.users /\ a.nodes = d.nodes
        /\ a.seq = d.seq /\ a.reserved = d.reserved
        /\ Expected(a) = Expected(d) - Cardinality(R)
        /\ Cardinality(R) \in Nat /\ Cardinality(R) <= Expected(d)
    BY <1>1, EndedKeeps
  <1> HIDE DEF a
  <1>3. a.reserved >= 1 * Cardinality(R)
    BY <1>1, <1>2
  <1>4. /\ Rows(e) /\ Follows(a, e) /\ Same(a, e) /\ Expected(e) = Expected(a)
        /\ e.seq = a.seq + Cardinality(R)
        /\ e.reserved = a.reserved - 1 * Cardinality(R)
    BY <1>2, <1>3, AppendEachKeeps
  <1> HIDE DEF e
  <1>5. Opens(e)
    BY <1>1, <1>2, <1>4, CapacityAssumption DEF Opens, Verify, Used
  <1>6. RevokeEachOK(d, R)
    BY <1>1, <1>2, CapacityAssumption DEF RevokeEachOK, CanAppendEach, CanAppend, Used
  <1>7. Follows(d, e)
    BY <1>2, <1>4, FollowsThrough
  <1>8. Live(e) = Live(a) /\ e.sessions = a.sessions
    BY <1>4 DEF Same, Live
  <1>9. e.users = d.users /\ e.nodes = d.nodes
    BY <1>2, <1>4 DEF Same
  <1>10. e = RevokeEach(d, R)
    BY DEF RevokeEach, a, e
  <1> QED
    BY <1>2, <1>4, <1>5, <1>6, <1>7, <1>8, <1>9, <1>10 DEF DBInv

\* One event for all the sessions of R gives back their slots.
LEMMA RevokeAllKeeps ==
    ASSUME NEW d, NEW R, DBInv(d), R \subseteq Live(d), RevokeAllOK(d, R)
    PROVE  LET e == RevokeAll(d, R)
           IN  /\ DBInv(e) /\ Follows(d, e)
               /\ Live(e) = Live(d) \ R
               /\ \A s \in Sessions :
                     e.sessions[s] = IF s \in R THEN NoSession ELSE d.sessions[s]
               /\ e.users = d.users /\ e.nodes = d.nodes /\ e.tokens = d.tokens
  <1> DEFINE a == Ended(d, R)
             e == Appended(a, 0 - Cardinality(R))
  <1>1. /\ Rows(d) /\ d.reserved \in Nat /\ d.seq \in Nat
        /\ d.reserved = Expected(d) /\ d.seq + d.reserved <= Capacity
    BY DEF DBInv, Rows, DB, Opens, Verify, Used
  <1>2. /\ Rows(a) /\ Follows(d, a) /\ Live(a) = Live(d) \ R
        /\ \A s \in Sessions :
              a.sessions[s] = IF s \in R THEN NoSession ELSE d.sessions[s]
        /\ a.users = d.users /\ a.nodes = d.nodes /\ a.tokens = d.tokens
        /\ a.seq = d.seq /\ a.reserved = d.reserved
        /\ Expected(a) = Expected(d) - Cardinality(R)
        /\ Cardinality(R) \in Nat /\ Cardinality(R) <= Expected(d)
    BY <1>1, EndedKeeps
  <1> HIDE DEF a
  <1>3. 0 - Cardinality(R) \in Int /\ a.reserved + (0 - Cardinality(R)) >= 0
    BY <1>1, <1>2
  <1>4. /\ Rows(e) /\ Follows(a, e) /\ Same(a, e) /\ Expected(e) = Expected(a)
        /\ e.seq = a.seq + 1
        /\ e.reserved = a.reserved + (0 - Cardinality(R))
    BY <1>2, <1>3, AppendKeeps
  <1> HIDE DEF e
  <1>5. Opens(e)
    BY <1>1, <1>2, <1>4, CapacityAssumption
    DEF Opens, Verify, Used, RevokeAllOK, CanAppend
  <1>6. Follows(d, e)
    BY <1>2, <1>4, FollowsThrough
  <1>7. Live(e) = Live(a) /\ e.sessions = a.sessions
    BY <1>4 DEF Same, Live
  <1>8. e.users = d.users /\ e.nodes = d.nodes /\ e.tokens = d.tokens
    BY <1>2, <1>4 DEF Same
  <1>9. e = RevokeAll(d, R)
    BY DEF RevokeAll, a, e
  <1> QED
    BY <1>2, <1>4, <1>5, <1>6, <1>7, <1>8, <1>9 DEF DBInv

\* If there are sessions, their slots pay for that event.
LEMMA RevokeAllPayable ==
    ASSUME NEW d, NEW R, DBInv(d), R \subseteq Live(d), R # {}
    PROVE  RevokeAllOK(d, R)
  <1>1. /\ d.reserved \in Nat /\ d.seq \in Nat
        /\ d.reserved = Expected(d) /\ d.seq + d.reserved <= Capacity
    BY DEF DBInv, Rows, DB, Opens, Verify, Used
  <1>2. IsFiniteSet(R) /\ Cardinality(R) \in Nat /\ Cardinality(R) <= Cardinality(Live(d))
    BY Finite, Without
  <1>3. Cardinality(R) # 0
    BY <1>2, FS_EmptySet
  <1>4. Cardinality(R) <= Expected(d)
    BY <1>2, Finite DEF Expected
  <1> QED
    BY <1>1, <1>2, <1>3, <1>4, CapacityAssumption DEF RevokeAllOK, CanAppend

\* The clock and the expiry of sessions, before every management request.
LEMMA HousekeptKeeps ==
    ASSUME NEW d, NEW t \in Nat, DBInv(d)
    PROVE  LET e == Housekept(d, t)
           IN  /\ DBInv(e) /\ Follows(d, e)
               /\ Live(e) = Live(d) \ Stale(d, t)
               /\ \A s \in Live(e) : e.sessions[s] = d.sessions[s]
               /\ e.users = d.users
  <1> DEFINE a == AdminClock(d, t)
             e == RevokeEach(a, Stale(a, t))
  <1>1. DBInv(a) /\ Follows(d, a) /\ Same(d, a)
    BY AdminClockKeeps
  <1> HIDE DEF a
  <1>2. Live(a) = Live(d) /\ Stale(a, t) = Stale(d, t) /\ Stale(a, t) \subseteq Live(a)
    BY <1>1 DEF Same, Live, Stale
  <1>3. /\ DBInv(e) /\ Follows(a, e) /\ Live(e) = Live(a) \ Stale(a, t)
        /\ \A s \in Sessions :
              e.sessions[s] = IF s \in Stale(a, t) THEN NoSession ELSE a.sessions[s]
        /\ e.users = a.users
    BY <1>1, <1>2, RevokeEachKeeps
  <1> HIDE DEF e
  <1>4. \A s \in Live(e) : e.sessions[s] = d.sessions[s]
    BY <1>1, <1>3 DEF Same, Live
  <1>5. e = Housekept(d, t)
    BY DEF Housekept, a, e
  <1> QED
    BY <1>1, <1>2, <1>3, <1>4, <1>5, FollowsThrough DEF Same

\* The database with another row for session s, or for user u.
PutSession(d, s, row) == [d EXCEPT !.sessions[s] = row]
PutUser(d, u, row) == [d EXCEPT !.users[u] = row]

\* A session row that rests on its account's authority.
LEMMA SessionRowKeeps ==
    ASSUME NEW d, NEW s \in Sessions, NEW row \in SessionRow, Rows(d),
           row.user \in Users,
           d.users[row.user].state = "enabled", d.users[row.user].gen = row.gen
    PROVE  LET e == PutSession(d, s, row)
           IN  /\ Rows(e) /\ Follows(d, e)
               /\ Live(e) = Live(d) \cup {s}
               /\ e.seq = d.seq /\ e.reserved = d.reserved
               /\ Enabled(e) = Enabled(d) /\ Queued(e) = Queued(d)
               /\ Dispatched(e) = Dispatched(d)
  <1> DEFINE x == [d.sessions EXCEPT ![s] = row]
             e == PutSession(d, s, row)
  <1>1. d \in DB /\ d.sessions \in [Sessions -> SessionRow]
    BY DEF Rows, DB
  <1>2. /\ x \in [Sessions -> SessionRow] /\ x[s] = row
        /\ \A z \in Sessions \ {s} : x[z] = d.sessions[z]
    BY <1>1
  <1>3. e = [d EXCEPT !.sessions = x]
    BY <1>1 DEF PutSession, DB
  <1> HIDE DEF x, e
  <1>4. /\ e \in DB /\ e.sessions = x
        /\ e.nodes = d.nodes /\ e.tokens = d.tokens /\ e.tasks = d.tasks
        /\ e.key = d.key /\ e.trust = d.trust /\ e.users = d.users
        /\ e.seq = d.seq /\ e.reserved = d.reserved
    BY <1>1, <1>2, <1>3 DEF DB
  <1>5. row.user # NoUser
    BY AccountSets
  <1>6. Live(e) = Live(d) \cup {s}
    BY <1>2, <1>4, <1>5 DEF Live
  <1>7. /\ Enabled(e) = Enabled(d) /\ Queued(e) = Queued(d)
        /\ Dispatched(e) = Dispatched(d)
    BY <1>4 DEF Enabled, Queued, Dispatched
  <1>8. Current(e)
    <2> SUFFICES ASSUME NEW z \in Live(e)
                 PROVE  /\ e.users[e.sessions[z].user].state = "enabled"
                        /\ e.users[e.sessions[z].user].gen = e.sessions[z].gen
      BY DEF Current
    <2>1. CASE z = s
      BY <1>2, <1>4, <2>1
    <2>2. CASE z # s
      BY <1>2, <1>4, <1>6, <2>2 DEF Rows, Current, Live
    <2> QED
      BY <2>1, <2>2
  <1>9. Rows(e)
    BY <1>4, <1>7, <1>8 DEF Rows, Staffed, Enveloped, Trusted
  <1>10. Follows(d, e)
    BY <1>4, <1>7 DEF Follows, Settled, Shrinks, Unissued, Unsigned
  <1> QED
    BY <1>4, <1>6, <1>7, <1>9, <1>10 DEF e

\* A request moves the last-seen time of its session.
LEMMA TouchedKeeps ==
    ASSUME NEW d, NEW s \in Sessions, NEW t \in Nat, DBInv(d)
    PROVE  DBInv(Touched(d, s, t)) /\ Follows(d, Touched(d, s, t))
  <1>1. d \in DB /\ Rows(d) /\ d.sessions[s] \in SessionRow /\ Opens(d)
    BY DEF DBInv, Rows, DB
  <1>2. CASE d.sessions[s].user = NoUser
    <2>1. Touched(d, s, t) = d
      BY <1>2 DEF Touched
    <2>2. Follows(d, d)
      BY <1>1, SameKeeps DEF Same
    <2> QED
      BY <2>1, <2>2
  <1>3. CASE d.sessions[s].user # NoUser
    <2> DEFINE w == IF t > d.sessions[s].last THEN t ELSE d.sessions[s].last
               row == [d.sessions[s] EXCEPT !.last = w]
               e == PutSession(d, s, row)
    <2>1. w \in Nat
      BY <1>1 DEF SessionRow
    <2>2. Touched(d, s, t) = e
      <3>1. d.sessions \in [Sessions -> SessionRow]
        BY <1>1 DEF DB
      <3>2. Touched(d, s, t) = [d EXCEPT !.sessions[s].last = w]
        BY <1>3 DEF Touched
      <3>3. [d EXCEPT !.sessions[s].last = w] = [d EXCEPT !.sessions[s] = row]
        BY <1>1, <3>1 DEF DB
      <3> QED
        BY <3>2, <3>3 DEF PutSession
    <2> HIDE DEF w
    <2>3. /\ row \in SessionRow /\ row.user = d.sessions[s].user
          /\ row.gen = d.sessions[s].gen
      BY <1>1, <2>1 DEF SessionRow
    <2> HIDE DEF row
    <2>4. s \in Live(d) /\ row.user \in Users
      BY <1>1, <1>3, <2>3 DEF Live, SessionRow
    <2>5. d.users[row.user].state = "enabled" /\ d.users[row.user].gen = row.gen
      BY <1>1, <2>3, <2>4 DEF Rows, Current
    <2>6. /\ Rows(e) /\ Follows(d, e) /\ Live(e) = Live(d) \cup {s}
          /\ e.seq = d.seq /\ e.reserved = d.reserved
          /\ Enabled(e) = Enabled(d) /\ Queued(e) = Queued(d)
          /\ Dispatched(e) = Dispatched(d)
      BY <1>1, <2>3, <2>4, <2>5, SessionRowKeeps
    <2> HIDE DEF e
    <2>7. Live(e) = Live(d)
      BY <2>4, <2>6
    <2>8. Opens(e)
      BY <1>1, <2>6, <2>7 DEF Opens, Verify, Used, Expected
    <2> QED
      BY <2>2, <2>6, <2>8 DEF DBInv
  <1> QED
    BY <1>2, <1>3

\* A login that ends well: the session rests on the account that was checked.
LEMMA NewSessionKeeps ==
    ASSUME NEW d, NEW s \in Sessions, NEW u \in Users, NEW a \in UserRow,
           NEW t \in Nat, DBInv(d), CredentialsHold(d, u, a),
           d.sessions[s] = NoSession, CanAppend(d, 1)
    PROVE  LET e == Appended([d EXCEPT !.sessions[s] = NewSession(u, a, t)], 1)
           IN  DBInv(e) /\ Follows(d, e)
  <1> DEFINE row == NewSession(u, a, t)
             b == PutSession(d, s, row)
             e == Appended(b, 1)
  <1>1. /\ d \in DB /\ Rows(d) /\ d.seq \in Nat /\ d.reserved \in Nat
        /\ d.reserved = Expected(d) /\ d.seq + d.reserved <= Capacity
    BY DEF DBInv, Rows, DB, Opens, Verify, Used
  <1>2. /\ row \in SessionRow /\ row.user = u /\ row.gen = a.gen
    BY AccountLimits DEF NewSession, SessionRow, UserRow
  <1>3. d.users[u].state = "enabled" /\ d.users[u].gen = a.gen
    BY DEF CredentialsHold
  <1> HIDE DEF row
  <1>4. /\ Rows(b) /\ Follows(d, b) /\ Live(b) = Live(d) \cup {s}
        /\ b.seq = d.seq /\ b.reserved = d.reserved
        /\ Enabled(b) = Enabled(d) /\ Queued(b) = Queued(d)
        /\ Dispatched(b) = Dispatched(d)
    BY <1>1, <1>2, <1>3, SessionRowKeeps
  <1> HIDE DEF b
  <1>5. s \notin Live(d)
    BY DEF Live, NoSession
  <1>6. Expected(b) = Expected(d) + 1
    <2>1. Cardinality(Live(b)) = Cardinality(Live(d)) + 1
      BY <1>4, <1>5, Finite, FS_AddElement
    <2> QED
      BY <1>4, <2>1, Finite DEF Expected
  <1>7. /\ Rows(e) /\ Follows(b, e) /\ Expected(e) = Expected(b)
        /\ e.seq = b.seq + 1 /\ e.reserved = b.reserved + 1
    BY <1>1, <1>4, AppendKeeps
  <1>8. e = Appended([d EXCEPT !.sessions[s] = NewSession(u, a, t)], 1)
    BY DEF PutSession, row, b
  <1> HIDE DEF e
  <1>9. Opens(e)
    BY <1>1, <1>4, <1>6, <1>7, CapacityAssumption DEF Opens, Verify, Used, CanAppend
  <1> QED
    BY <1>4, <1>7, <1>8, <1>9, FollowsThrough DEF DBInv

\* Accounts without session can be changed in any way.
LEMMA UsersKeep ==
    ASSUME NEW d, NEW x \in [Users -> UserRow], NEW e, Rows(d),
           \A s \in Live(d) : x[d.sessions[s].user] = d.users[d.sessions[s].user],
           e = [d EXCEPT !.users = x]
    PROVE  /\ Rows(e) /\ Follows(d, e) /\ Expected(e) = Expected(d)
           /\ e.nodes = d.nodes /\ e.tokens = d.tokens /\ e.tasks = d.tasks
           /\ e.sessions = d.sessions
           /\ e.seq = d.seq /\ e.reserved = d.reserved
  <1>1. d \in DB
    BY DEF Rows
  <1>2. /\ e \in DB /\ e.users = x
        /\ e.nodes = d.nodes /\ e.tokens = d.tokens /\ e.tasks = d.tasks
        /\ e.key = d.key /\ e.trust = d.trust /\ e.sessions = d.sessions
        /\ e.seq = d.seq /\ e.reserved = d.reserved
    BY <1>1 DEF DB
  <1>3. /\ Enabled(e) = Enabled(d) /\ Queued(e) = Queued(d)
        /\ Dispatched(e) = Dispatched(d) /\ Live(e) = Live(d)
    BY <1>2 DEF Enabled, Queued, Dispatched, Live
  <1>4. Current(e)
    BY <1>1, <1>2, <1>3 DEF Rows, Current
  <1>5. Rows(e)
    BY <1>1, <1>2, <1>3, <1>4 DEF Rows, Staffed, Enveloped, Trusted
  <1>6. Follows(d, e)
    BY <1>2, <1>3 DEF Follows, Settled, Shrinks, Unissued, Unsigned
  <1>7. Expected(e) = Expected(d)
    BY <1>3 DEF Expected
  <1> QED
    BY <1>2, <1>5, <1>6, <1>7

\* The same for the row of one user.
LEMMA UserRowKeeps ==
    ASSUME NEW d, NEW u \in Users, NEW row \in UserRow, DBInv(d),
           \A s \in Live(d) : d.sessions[s].user # u
    PROVE  /\ DBInv(PutUser(d, u, row)) /\ Follows(d, PutUser(d, u, row))
           /\ PutUser(d, u, row).seq = d.seq
           /\ PutUser(d, u, row).reserved = d.reserved
  <1> DEFINE x == [d.users EXCEPT ![u] = row]
             e == PutUser(d, u, row)
  <1>1. /\ d \in DB /\ d.users \in [Users -> UserRow]
        /\ d.sessions \in [Sessions -> SessionRow]
    BY DEF DBInv, Rows, DB
  <1>2. x \in [Users -> UserRow]
    BY <1>1
  <1>3. \A s \in Live(d) : x[d.sessions[s].user] = d.users[d.sessions[s].user]
    <2> SUFFICES ASSUME NEW s \in Live(d)
                 PROVE  x[d.sessions[s].user] = d.users[d.sessions[s].user]
      OBVIOUS
    <2>1. d.sessions[s].user \in Users
      BY <1>1 DEF Live, SessionRow
    <2> QED
      BY <1>1, <2>1
  <1>4. e = [d EXCEPT !.users = x]
    BY <1>1 DEF PutUser, DB
  <1> HIDE DEF x, e
  <1>5. /\ Rows(e) /\ Follows(d, e) /\ Expected(e) = Expected(d)
        /\ e.seq = d.seq /\ e.reserved = d.reserved
    BY <1>2, <1>3, <1>4, UsersKeep DEF DBInv
  <1>6. DBInv(e)
    BY <1>5 DEF DBInv, Opens, Verify, Used
  <1> QED
    BY <1>5, <1>6 DEF e

\* CreateUser: a name that was free has no session.
LEMMA CreateUserKeeps ==
    ASSUME NEW d, NEW u \in Users, NEW role \in Roles, DBInv(d), CreateUserOK(d, u, role)
    PROVE  DBInv(CreateUser(d, u, role)) /\ Follows(d, CreateUser(d, u, role))
  <1> DEFINE row == [state |-> "enabled", role |-> role, gen |-> 1]
             b == PutUser(d, u, row)
  <1>1. d.users[u].state = "none" /\ CanAppend(d, 0)
    BY DEF CreateUserOK
  <1>2. \A s \in Live(d) : d.sessions[s].user # u
    BY <1>1 DEF DBInv, Rows, Current
  <1>3. row \in UserRow
    BY DEF UserRow
  <1>4. CreateUser(d, u, role) = Appended(b, 0)
    BY DEF CreateUser, PutUser
  <1> HIDE DEF row
  <1>5. DBInv(b) /\ Follows(d, b) /\ b.seq = d.seq /\ b.reserved = d.reserved
    BY <1>2, <1>3, UserRowKeeps
  <1> HIDE DEF b
  <1>6. CanAppend(b, 0)
    BY <1>1, <1>5 DEF CanAppend
  <1>7. DBInv(Appended(b, 0)) /\ Follows(b, Appended(b, 0))
    BY <1>5, <1>6, EventKeeps
  <1> QED
    BY <1>4, <1>5, <1>7, FollowsThrough

\* Once the sessions of u have ended, its generation can move on.
LEMMA NoneOwned ==
    ASSUME NEW d, NEW e, NEW u \in Users, d \in DB,
           Live(e) = Live(d) \ Owned(d, u),
           \A s \in Sessions :
              e.sessions[s] = IF s \in Owned(d, u) THEN NoSession ELSE d.sessions[s]
    PROVE  /\ Owned(d, u) \subseteq Live(d)
           /\ \A s \in Live(e) : e.sessions[s].user # u
  <1>1. u # NoUser
    BY AccountSets
  <1> QED
    BY <1>1 DEF Owned, Live

\* ChangeUser ends the sessions of the account it changes.
LEMMA ChangeUserKeeps ==
    ASSUME NEW d, NEW u \in Users, NEW action, NEW role \in Roles, DBInv(d),
           ChangeUserOK(d, u, action)
    PROVE  LET e == ChangeUser(d, u, action, role) IN DBInv(e) /\ Follows(d, e)
  <1> DEFINE c == RevokeAll(d, Owned(d, u))
             row == [state |-> IF action = "disable" THEN "disabled"
                               ELSE c.users[u].state,
                     role |-> IF action = "role" THEN role ELSE c.users[u].role,
                     gen |-> c.users[u].gen + 1]
             e == PutUser(c, u, row)
  <1>1. RevokeAllOK(d, Owned(d, u)) /\ d \in DB
    BY DEF ChangeUserOK, DBInv, Rows
  <1>2. Owned(d, u) \subseteq Live(d)
    BY AccountSets DEF Owned, Live
  <1>3. /\ DBInv(c) /\ Follows(d, c) /\ Live(c) = Live(d) \ Owned(d, u)
        /\ \A s \in Sessions :
              c.sessions[s] = IF s \in Owned(d, u) THEN NoSession ELSE d.sessions[s]
    BY <1>1, <1>2, RevokeAllKeeps
  <1>4. ChangeUser(d, u, action, role) = e
    BY DEF ChangeUser, PutUser
  <1> HIDE DEF c
  <1>5. \A s \in Live(c) : c.sessions[s].user # u
    BY <1>1, <1>3, NoneOwned
  <1>6. c.users[u] \in UserRow
    BY <1>3 DEF DBInv, Rows, DB
  <1>7. row \in UserRow
    BY <1>6 DEF UserRow
  <1> HIDE DEF row
  <1>8. DBInv(e) /\ Follows(c, e)
    BY <1>3, <1>5, <1>7, UserRowKeeps
  <1> QED
    BY <1>3, <1>4, <1>8, FollowsThrough

\* The revoke request of a user does the same with one event each.
LEMMA RevokeOwnKeeps ==
    ASSUME NEW d, NEW u \in Users, DBInv(d)
    PROVE  LET e == [RevokeEach(d, Owned(d, u)) EXCEPT !.users[u].gen = @ + 1]
           IN  DBInv(e) /\ Follows(d, e)
  <1> DEFINE c == RevokeEach(d, Owned(d, u))
             row == [c.users[u] EXCEPT !.gen = c.users[u].gen + 1]
             f == PutUser(c, u, row)
  <1>1. Owned(d, u) \subseteq Live(d) /\ d \in DB
    BY AccountSets DEF Owned, Live, DBInv, Rows
  <1>2. /\ DBInv(c) /\ Follows(d, c) /\ Live(c) = Live(d) \ Owned(d, u)
        /\ \A s \in Sessions :
              c.sessions[s] = IF s \in Owned(d, u) THEN NoSession ELSE d.sessions[s]
    BY <1>1, RevokeEachKeeps
  <1>3. [RevokeEach(d, Owned(d, u)) EXCEPT !.users[u].gen = @ + 1]
           = [c EXCEPT !.users[u].gen = c.users[u].gen + 1]
    OBVIOUS
  <1> HIDE DEF c
  <1>4. \A s \in Live(c) : c.sessions[s].user # u
    BY <1>1, <1>2, NoneOwned
  <1>5. c \in DB /\ c.users \in [Users -> UserRow] /\ c.users[u] \in UserRow
    BY <1>2 DEF DBInv, Rows, DB
  <1>6. row \in UserRow
    BY <1>5 DEF UserRow
  <1>7. f = [c EXCEPT !.users[u].gen = c.users[u].gen + 1]
    BY <1>5 DEF PutUser, DB
  <1> HIDE DEF row, f
  <1>8. DBInv(f) /\ Follows(c, f)
    BY <1>2, <1>4, <1>6, UserRowKeeps DEF f
  <1>9. Follows(d, f)
    BY <1>2, <1>8, FollowsThrough
  <1> QED
    BY <1>3, <1>7, <1>8, <1>9

\* Every generation moves on when no session is left.
LEMMA RegeneratedKeeps ==
    ASSUME NEW d, Rows(d), Live(d) = {}
    PROVE  LET e == Regenerated(d)
           IN  /\ Rows(e) /\ Follows(d, e) /\ Expected(e) = Expected(d)
               /\ e.nodes = d.nodes /\ e.tokens = d.tokens /\ e.tasks = d.tasks
               /\ e.sessions = d.sessions
               /\ e.seq = d.seq /\ e.reserved = d.reserved
  <1> DEFINE x == [u \in Users |-> IF d.users[u].state = "none" THEN d.users[u]
                                   ELSE [d.users[u] EXCEPT !.gen = d.users[u].gen + 1]]
             e == Regenerated(d)
  <1>1. d.users \in [Users -> UserRow]
    BY DEF Rows, DB
  <1>2. x \in [Users -> UserRow]
    BY <1>1 DEF UserRow
  <1>3. e = [d EXCEPT !.users = x]
    BY DEF Regenerated
  <1> HIDE DEF x, e
  <1>4. /\ Rows(e) /\ Follows(d, e) /\ Expected(e) = Expected(d)
        /\ e.nodes = d.nodes /\ e.tokens = d.tokens /\ e.tasks = d.tasks
        /\ e.sessions = d.sessions
        /\ e.seq = d.seq /\ e.reserved = d.reserved
    BY <1>2, <1>3, UsersKeep
  <1> QED
    BY <1>4 DEF e

\* RevokeAllSessions.
LEMMA RevokeAllSessionsKeeps ==
    ASSUME NEW d, DBInv(d), RevokeAllSessionsOK(d)
    PROVE  DBInv(RevokeAllSessions(d)) /\ Follows(d, RevokeAllSessions(d))
  <1> DEFINE c == RevokeAll(d, Live(d))
             e == Regenerated(c)
  <1>1. RevokeAllOK(d, Live(d))
    BY DEF RevokeAllSessionsOK
  <1>2. DBInv(c) /\ Follows(d, c) /\ Live(c) = Live(d) \ Live(d)
    BY <1>1, RevokeAllKeeps
  <1> HIDE DEF c
  <1>3. /\ Rows(e) /\ Follows(c, e) /\ Expected(e) = Expected(c)
        /\ e.seq = c.seq /\ e.reserved = c.reserved
    BY <1>2, RegeneratedKeeps DEF DBInv
  <1>4. e = RevokeAllSessions(d)
    BY DEF RevokeAllSessions, c
  <1> HIDE DEF e
  <1>5. DBInv(e)
    BY <1>2, <1>3 DEF DBInv, Opens, Verify, Used
  <1> QED
    BY <1>2, <1>3, <1>4, <1>5, FollowsThrough

\* QuarantineRestore: no task is open, no node enabled, no session live and no
\* token good afterwards; the log keeps what happened.
LEMMA QuarantinedKeeps ==
    ASSUME NEW d, DBInv(d), QuarantineOK(d)
    PROVE  LET z == Quarantined(d)
           IN  /\ DBInv(z) /\ Follows(d, z)
               /\ Enabled(z) = {}
               /\ \A k \in Tokens : z.tokens[k].state # "pending"
  <1> DEFINE e == Enabled(d)
             q == {r \in Queued(d) : d.tasks[r].node \in e}
             s == {r \in Dispatched(d) : d.tasks[r].node \in e}
             R == Live(d)
             a == Closed(d, q, "rejected")
             b == Closed(a, s, "indeterminate")
             f == AppendedEach(b, Cardinality(q), -2)
             m == Cardinality(s) + Cardinality(e)
             g == AppendedEach(f, m, -1)
             h == Ended(g, R)
             i == Appended(h, 0 - Cardinality(R))
             j == Regenerated(i)
             x == [n \in Nodes |->
                     IF n \in e THEN [d.nodes[n] EXCEPT !.state = "disabled"]
                     ELSE d.nodes[n]]
             y == [k \in Tokens |->
                     IF d.tokens[k].state = "pending"
                     THEN [d.tokens[k] EXCEPT !.state = "consumed"] ELSE d.tokens[k]]
             z == [j EXCEPT !.nodes = x, !.tokens = y]
  <1>1. /\ d \in DB /\ Rows(d) /\ d.reserved \in Nat /\ d.seq \in Nat
        /\ d.reserved = Expected(d) /\ d.seq + d.reserved <= Capacity
        /\ d.nodes \in [Nodes -> NodeRow] /\ d.tokens \in [Tokens -> TokenRow]
    BY DEF DBInv, Rows, DB, Opens, Verify, Used
  <1>2. q = Queued(d) /\ s = Dispatched(d)
    BY <1>1 DEF Rows, Staffed
  <1>3. "rejected" \in Statuses /\ "indeterminate" \in Statuses
    BY DEF Statuses
  <1>4. Quarantined(d) = z
    BY DEF Quarantined, RevokeAll
  <1>5. /\ x \in [Nodes -> NodeRow] /\ \A n \in Nodes : x[n].state # "enabled"
        /\ \A n \in Nodes : x[n].state # "none" => d.nodes[n].state # "none"
    BY <1>1 DEF NodeRow, Enabled
  <1>6. /\ y \in [Tokens -> TokenRow] /\ \A k \in Tokens : y[k].state # "pending"
    BY <1>1 DEF TokenRow
  <1> HIDE DEF q, s
  <1>7. /\ Cardinality(q) \in Nat /\ Cardinality(s) \in Nat /\ Cardinality(e) \in Nat
        /\ Cardinality(R) \in Nat /\ m \in Nat
        /\ d.reserved = Cardinality(e) + Cardinality(R)
                          + 2 * Cardinality(q) + Cardinality(s)
    BY <1>1, <1>2, Finite DEF Expected
  <1>8. d.seq + Cardinality(q) + m + 1 <= Capacity
    <2> DEFINE v == AppendedEach(d, Cardinality(q), -2)
               w == AppendedEach(v, m, -1)
    <2>1. RevokeAllOK(w, R)
      BY DEF QuarantineOK, q, s
    <2>2. d.reserved >= 2 * Cardinality(q)
      BY <1>1, <1>7
    <2> HIDE DEF m
    <2>3. /\ Rows(v) /\ v.seq = d.seq + Cardinality(q)
          /\ v.reserved = d.reserved - 2 * Cardinality(q)
      BY <1>1, <1>7, <2>2, AppendEachKeeps
    <2> HIDE DEF v
    <2>4. v.reserved >= 1 * m
      BY <1>1, <1>7, <2>3 DEF m
    <2>5. w.seq = v.seq + m /\ w.reserved = v.reserved - 1 * m
      BY <1>7, <2>3, <2>4, AppendEachKeeps
    <2> HIDE DEF w
    <2>6. w.reserved = Cardinality(R)
      BY <1>1, <1>7, <2>3, <2>5 DEF m
    <2>7. w.seq + 1 + w.reserved + (0 - Cardinality(R)) <= Capacity
      BY <2>1 DEF RevokeAllOK, CanAppend
    <2> QED
      BY <1>1, <1>7, <2>3, <2>5, <2>6, <2>7, CapacityAssumption
  <1> HIDE DEF x, y
  <1>9. /\ Rows(a) /\ Follows(d, a)
        /\ Queued(a) = Queued(d) \ q /\ Dispatched(a) = Dispatched(d) \ q
        /\ a.sessions = d.sessions /\ a.seq = d.seq /\ a.reserved = d.reserved
    BY <1>1, <1>2, <1>3, ClosedKeeps
  <1>10. s \subseteq Dispatched(a)
    BY <1>2, <1>9 DEF Queued, Dispatched
  <1> HIDE DEF a
  <1>11. /\ Rows(b) /\ Follows(a, b)
         /\ Queued(b) = Queued(a) \ s /\ Dispatched(b) = Dispatched(a) \ s
         /\ b.sessions = a.sessions /\ b.seq = a.seq /\ b.reserved = a.reserved
    BY <1>3, <1>9, <1>10, ClosedKeeps
  <1>12. b.reserved >= 2 * Cardinality(q)
    BY <1>1, <1>7, <1>9, <1>11
  <1> HIDE DEF b
  <1>13. /\ Rows(f) /\ Follows(b, f) /\ Same(b, f)
         /\ f.seq = b.seq + Cardinality(q)
         /\ f.reserved = b.reserved - 2 * Cardinality(q)
    BY <1>7, <1>11, <1>12, AppendEachKeeps
  <1> HIDE DEF f
  <1>14. f.reserved >= 1 * m
    BY <1>1, <1>7, <1>9, <1>11, <1>13
  <1> HIDE DEF m
  <1>15. /\ Rows(g) /\ Follows(f, g) /\ Same(f, g)
         /\ g.seq = f.seq + m /\ g.reserved = f.reserved - 1 * m
    BY <1>7, <1>13, <1>14, AppendEachKeeps
  <1> HIDE DEF g
  <1>16. g.sessions = d.sessions /\ Live(g) = R /\ g.tasks = b.tasks
    BY <1>9, <1>11, <1>13, <1>15 DEF Same, Live
  <1>17. /\ Rows(h) /\ Follows(g, h) /\ Live(h) = Live(g) \ R
         /\ h.seq = g.seq /\ h.reserved = g.reserved /\ h.tasks = g.tasks
    BY <1>15, <1>16, EndedKeeps
  <1> HIDE DEF h
  <1>18. h.reserved = Cardinality(R) /\ h.seq = d.seq + Cardinality(q) + m
    BY <1>1, <1>7, <1>9, <1>11, <1>13, <1>15, <1>17 DEF m
  <1>19. 0 - Cardinality(R) \in Int /\ h.reserved + (0 - Cardinality(R)) >= 0
    BY <1>7, <1>18
  <1>20. /\ Rows(i) /\ Follows(h, i) /\ Same(h, i)
         /\ i.seq = h.seq + 1 /\ i.reserved = h.reserved + (0 - Cardinality(R))
    BY <1>17, <1>19, AppendKeeps
  <1> HIDE DEF i
  <1>21. Live(i) = {}
    BY <1>16, <1>17, <1>20 DEF Same, Live
  <1>22. /\ Rows(j) /\ Follows(i, j) /\ j.tasks = i.tasks /\ j.sessions = i.sessions
         /\ j.seq = i.seq /\ j.reserved = i.reserved
    BY <1>20, <1>21, RegeneratedKeeps
  <1> HIDE DEF j
  <1>23. /\ z \in DB /\ z.nodes = x /\ z.tokens = y /\ z.tasks = j.tasks
         /\ z.key = j.key /\ z.trust = j.trust
         /\ z.users = j.users /\ z.sessions = j.sessions
         /\ z.seq = j.seq /\ z.reserved = j.reserved
    BY <1>5, <1>6, <1>22 DEF Rows, DB
  <1> HIDE DEF z
  <1>24. /\ Queued(z) = {} /\ Dispatched(z) = {} /\ Live(z) = {} /\ Enabled(z) = {}
    <2>1. z.tasks = b.tasks /\ z.sessions = i.sessions
      BY <1>16, <1>17, <1>20, <1>22, <1>23 DEF Same
    <2>2. Queued(z) = Queued(b) /\ Dispatched(z) = Dispatched(b) /\ Live(z) = Live(i)
      BY <2>1 DEF Queued, Dispatched, Live
    <2>3. Queued(b) = {} /\ Dispatched(b) = {}
      BY <1>2, <1>9, <1>11
    <2> QED
      BY <1>5, <1>21, <1>23, <2>2, <2>3 DEF Enabled
  <1>25. Rows(z)
    BY <1>22, <1>23, <1>24 DEF Rows, Staffed, Current, Enveloped, Trusted
  <1>26. Opens(z)
    <2>1. Expected(z) = 0
      BY <1>24, FS_EmptySet DEF Expected
    <2>2. z.reserved = 0 /\ z.seq = d.seq + Cardinality(q) + m + 1
      BY <1>1, <1>7, <1>18, <1>20, <1>22, <1>23
    <2> QED
      BY <1>1, <1>7, <1>8, <2>1, <2>2, CapacityAssumption DEF Opens, Verify, Used
  <1>27. Follows(d, z)
    <2>1. Follows(d, j)
      BY <1>9, <1>11, <1>13, <1>15, <1>17, <1>20, <1>22, FollowsThrough
    <2>2. Settled(d, z) /\ Unsigned(d, z)
      BY <1>23, <2>1 DEF Follows, Settled, Unsigned, Dispatched
    <2>3. Shrinks(d, z) /\ Unissued(d, z)
      BY <1>5, <1>6, <1>23 DEF Shrinks, Unissued
    <2> QED
      BY <2>2, <2>3 DEF Follows
  <1> QED
    BY <1>4, <1>6, <1>23, <1>24, <1>25, <1>26, <1>27 DEF DBInv
=============================================================================
