---------------------------- MODULE ServerProofs ----------------------------
(***************************************************************************)
(* The properties of module Server, for every value of its constants.      *)
(*                                                                         *)
(* IInv is the inductive invariant.  The database, and the backup that may *)
(* become the database, satisfy DBInv of module ServerFacts.  The rest     *)
(* ties the history to the database: what was handed out is what its row   *)
(* still says, a token that enrolled a node is spent, and a node that was  *)
(* disabled is not enabled.  These three hold only while no unquarantined  *)
(* copy is in place, and are established again by QuarantineRestore        *)
(* because it leaves no node enabled and no token good.                    *)
(*                                                                         *)
(* Lemma Step says which steps keep IInv; the lemmas of the actions show   *)
(* that each is such a step, from the lemma of its transaction.            *)
(***************************************************************************)
EXTENDS ServerFacts, LoginHistory, SequenceTheorems

\* What was dispatched and has not run out can be handed out again at time t.
Resendable(d, t) ==
    \A r \in Dispatched(d) : d.tasks[r].expires > t => ResendOK(d, r, t)

Pending(d) == {k \in Tokens : d.tokens[k].state = "pending"}
Met(d) == {n \in Nodes : d.nodes[n].state # "none"}

\* The row of d is the one the envelope x was handed out for.
RowOf(d, x) ==
    /\ d.tasks[x.req].state \notin {"none", "queued"}
    /\ d.tasks[x.req].node = x.node /\ d.tasks[x.req].env = x.env

SentKept ==
    \A x \in sent :
        /\ via[x.node] # NoToken
        /\ ~restored /\ x.node \in Enabled(db) => RowOf(db, x)

TokensSpent ==
    /\ Pending(db) \cup Pending(backup) \subseteq drawn
    /\ \A n \in Nodes : via[n] # NoToken =>
          via[n] \in drawn /\ (~restored => via[n] \notin Pending(db))

NodesMet ==
    /\ \A n \in Met(db) \cup Met(backup) \cup gone : via[n] # NoToken
    /\ ~restored => gone \cap Enabled(db) = {}

LoginsKnown == \A c \in Clients : login[c].stage = "hashing" => login[c].user \in Users

IInv ==
    /\ TypeOK
    /\ DBInv(db) /\ DBInv(backup)
    /\ restored => proc = Down
    /\ LoginsKnown
    /\ SentKept /\ SingleEnvelope
    /\ TokensSpent /\ TokenOnce
    /\ NodesMet
    /\ Rollback = 0 => Resendable(db, now) /\ Resendable(backup, now)

\* Retired keys stay retired.
Retires(d, e) ==
    d.trust # NoTrust =>
        /\ e.trust # NoTrust /\ d.trust.retired \subseteq e.trust.retired
        /\ Active(e.trust) \cap e.trust.retired = {}

\* What no step undoes, unless it puts a backup back.
Advances == (restored' => restored) => Settled(db, db') /\ Retires(db, db')

-----------------------------------------------------------------------------
(* Steps.                                                                  *)

\* A task that could be handed out again still can: its row, the key and the
\* trust set are what they were.
LEMMA ResendFollows ==
    ASSUME NEW d, NEW e, NEW t, Resendable(d, t), Settled(d, e), Unsigned(d, e)
    PROVE  Resendable(e, t)
  <1> SUFFICES ASSUME NEW r \in Dispatched(e), e.tasks[r].expires > t
               PROVE  ResendOK(e, r, t)
    BY DEF Resendable
  <1>1. r \in Dispatched(d) /\ r \in Reqs /\ d.tasks[r].state = "dispatched"
    BY DEF Unsigned, Dispatched
  <1>2. /\ e.tasks[r].env = d.tasks[r].env
        /\ e.tasks[r].created = d.tasks[r].created
        /\ e.tasks[r].expires = d.tasks[r].expires
    BY <1>1 DEF Settled
  <1>3. ResendOK(d, r, t)
    BY <1>1, <1>2 DEF Resendable
  <1> QED
    BY <1>1, <1>2, <1>3 DEF ResendOK, Verifies, CheckTrust, Unsigned, Dispatched

\* It still can at a later time at which it has not run out.
LEMMA ResendLater ==
    ASSUME NEW d \in DB, NEW t \in Nat, NEW u \in Nat, t <= u, Resendable(d, t)
    PROVE  Resendable(d, u)
  <1> SUFFICES ASSUME NEW r \in Dispatched(d), d.tasks[r].expires > u
               PROVE  ResendOK(d, r, u)
    BY DEF Resendable
  <1>1. d.tasks[r].expires \in Nat
    BY DEF DB, TaskRow, Dispatched
  <1>2. ResendOK(d, r, t)
    BY <1>1 DEF Resendable
  <1>3. CASE d.trust = NoTrust
    BY <1>2, <1>3 DEF ResendOK
  <1>4. CASE d.trust # NoTrust
    <2> DEFINE k == d.tasks[r].env.key
    <2>1. Verifies(d.trust, d.tasks[r], t) /\ d.tasks[r].state = "dispatched"
      BY <1>2, <1>4 DEF ResendOK
    <2>2. d.trust \in TrustSet
      BY <1>4 DEF DB
    <2>3. CheckTrust(d.trust, k, d.tasks[r], t)
      BY <2>1 DEF Verifies
    <2>4. k \in Keys
      BY <2>3 DEF CheckTrust, Active
    <2>5. d.trust.keys[k].from \in Int /\ d.trust.keys[k].until \in Int
      BY <2>2, <2>4 DEF TrustSet, TrustKey
    <2> HIDE DEF k
    <2>6. CheckTrust(d.trust, k, d.tasks[r], u)
      BY <1>1, <2>3, <2>5 DEF CheckTrust
    <2> QED
      BY <1>4, <2>1, <2>6 DEF ResendOK, Verifies, k
  <1> QED
    BY <1>3, <1>4

\* The steps that keep IInv: the database moves by a transaction that settles
\* nothing anew, enables no node and signs nothing in two ways; a copy in place
\* is left only with no node enabled and no token good.
LEMMA Step ==
    ASSUME IInv, DBInv(db)', now' = now, backup' = backup,
           proc' \in Keys \cup {NoKey, Down}, restored' \in BOOLEAN,
           restored' => restored /\ proc' = Down,
           ~restored' /\ restored => Enabled(db') = {} /\ Pending(db') = {},
           login' \in [Clients -> Login], LoginsKnown',
           Settled(db, db'), Shrinks(db, db'), Retires(db, db'),
           sent \subseteq sent',
           \A x \in sent' \ sent :
              /\ x \in [node : Nodes, req : Reqs, env : Envelope]
              /\ ~restored' /\ x.node \in Enabled(db) /\ RowOf(db', x)
              /\ \A y \in sent' : x.node = y.node /\ x.req = y.req => x.env = y.env,
           drawn \subseteq drawn', drawn' \subseteq Tokens,
           Pending(db') \subseteq Pending(db) \cup (drawn' \ drawn),
           via' = via,
           gone \subseteq gone', gone' \ gone \subseteq Met(db) \ Enabled(db'),
           Rollback = 0 => Resendable(db', now)
    PROVE  IInv' /\ Advances
  <1>1. Enabled(db') \subseteq Enabled(db) /\ Met(db') \subseteq Met(db)
    BY DEF Shrinks, Enabled, Met
  <1>2. Enabled(db) \subseteq Met(db)
    BY DEF Enabled, Met
  <1>3. TypeOK'
    <2>1. db' \in DB
      BY DEF DBInv, Rows
    <2>2. gone' \subseteq Nodes
      BY DEF IInv, TypeOK, Met
    <2>3. sent' \subseteq [node : Nodes, req : Reqs, env : Envelope]
      BY DEF IInv, TypeOK
    <2> QED
      BY <2>1, <2>2, <2>3 DEF IInv, TypeOK
  <1>4. SentKept'
    <2> SUFFICES ASSUME NEW x \in sent'
                 PROVE  /\ via[x.node] # NoToken
                        /\ ~restored' /\ x.node \in Enabled(db') => RowOf(db', x)
      BY DEF SentKept
    <2>1. CASE x \notin sent
      BY <1>2, <2>1 DEF IInv, NodesMet
    <2>2. CASE x \in sent
      <3>1. via[x.node] # NoToken /\ x.req \in Reqs
        BY <2>2 DEF IInv, SentKept, TypeOK
      <3>2. ASSUME ~restored', x.node \in Enabled(db') PROVE RowOf(db', x)
        <4>1. ~restored /\ x.node \in Enabled(db)
          BY <1>1, <3>2
        <4>2. RowOf(db, x)
          BY <2>2, <4>1 DEF IInv, SentKept
        <4> QED
          BY <3>1, <4>2 DEF RowOf, Settled
      <3> QED
        BY <3>1, <3>2
    <2> QED
      BY <2>1, <2>2
  <1>5. SingleEnvelope'
    <2> SUFFICES ASSUME NEW x \in sent', NEW y \in sent',
                        x.node = y.node, x.req = y.req
                 PROVE  x.env = y.env
      BY DEF SingleEnvelope
    <2>1. CASE x \in sent /\ y \in sent
      BY <2>1 DEF IInv, SingleEnvelope
    <2>2. CASE x \notin sent
      BY <2>2
    <2>3. CASE y \notin sent
      BY <2>3
    <2> QED
      BY <2>1, <2>2, <2>3
  <1>6. TokensSpent'
    <2>1. Pending(db') \cup Pending(backup') \subseteq drawn'
      BY DEF IInv, TokensSpent
    <2> SUFFICES ASSUME NEW n \in Nodes, via[n] # NoToken
                 PROVE  /\ via[n] \in drawn'
                        /\ ~restored' => via[n] \notin Pending(db')
      BY <2>1 DEF TokensSpent
    <2>2. via[n] \in drawn
      BY DEF IInv, TokensSpent
    <2>3. ASSUME ~restored' PROVE via[n] \notin Pending(db')
      <3>1. CASE restored
        BY <2>3, <3>1
      <3>2. CASE ~restored
        BY <2>2, <3>2 DEF IInv, TokensSpent
      <3> QED
        BY <3>1, <3>2
    <2> QED
      BY <2>2, <2>3
  <1>7. TokenOnce'
    BY DEF IInv, TokenOnce
  <1>8. NodesMet'
    <2>1. \A n \in Met(db') \cup Met(backup') \cup gone' : via'[n] # NoToken
      BY <1>1 DEF IInv, NodesMet
    <2>2. ~restored' => gone' \cap Enabled(db') = {}
      BY <1>1 DEF IInv, NodesMet
    <2> QED
      BY <2>1, <2>2 DEF NodesMet
  <1>9. Rollback = 0 => Resendable(db', now') /\ Resendable(backup', now')
    BY DEF IInv
  <1>10. DBInv(backup')
    BY DEF IInv
  <1>11. Advances
    BY DEF Advances
  <1> QED
    BY <1>3, <1>4, <1>5, <1>6, <1>7, <1>8, <1>9, <1>10, <1>11 DEF IInv

\* A transaction that Follows, with the history as it is.
LEMMA Ordinary ==
    ASSUME IInv, DBInv(db'), Follows(db, db'),
           UNCHANGED <<now, proc, backup, restored, history>>,
           login' \in [Clients -> Login], LoginsKnown'
    PROVE  IInv' /\ Advances
  <1>1. /\ Settled(db, db') /\ Shrinks(db, db') /\ Unsigned(db, db')
        /\ Pending(db') \subseteq Pending(db)
    BY DEF Follows, Unissued, Pending
  <1>2. Retires(db, db')
    BY <1>1 DEF Unsigned, Retires, DBInv, Rows, Trusted
  <1>3. Rollback = 0 => Resendable(db', now)
    BY <1>1, ResendFollows DEF IInv
  <1>4. /\ proc' \in Keys \cup {NoKey, Down} /\ restored' \in BOOLEAN
        /\ restored' => restored /\ proc' = Down
    BY DEF IInv, TypeOK
  <1>5. sent' = sent /\ drawn' = drawn /\ via' = via /\ gone' = gone
    BY DEF history
  <1>6. drawn \subseteq Tokens
    BY DEF IInv, TypeOK
  <1> QED
    BY <1>1, <1>2, <1>3, <1>4, <1>5, <1>6, Step

\* A request handler or localctl commits such a transaction.
LEMMA QuietStep ==
    ASSUME IInv, NEW e, DBInv(e), Follows(db, e), Quiet(e)
    PROVE  IInv' /\ Advances
  <1>1. /\ db' = e /\ UNCHANGED <<now, proc, backup, restored, history>>
        /\ login' = login
    BY DEF Quiet, Commit
  <1>2. login' \in [Clients -> Login] /\ LoginsKnown'
    BY <1>1 DEF IInv, TypeOK, LoginsKnown
  <1> QED
    BY <1>1, <1>2, Ordinary

\* What an action may take for granted.
LEMMA Given ==
    ASSUME IInv
    PROVE  DBInv(db) /\ now \in Nat /\ (Up => ~restored)
  BY DEF IInv, TypeOK, Up

-----------------------------------------------------------------------------
(* Machine, process and backup.                                            *)

\* A database follows itself.
LEMMA Stays ==
    ASSUME NEW d, DBInv(d)
    PROVE  Follows(d, d)
  BY SameKeeps DEF Same, DBInv, Rows

\* Setting the clock; Rollback = 0 means that it only goes forward.
LEMMA SetClockKeeps ==
    ASSUME IInv, SetClock
    PROVE  IInv' /\ Advances
  <1>1. /\ now' \in 1 .. MaxTime /\ now' >= now - Rollback
        /\ UNCHANGED <<db, proc, login, backup, restored, sent, drawn, via, gone>>
    BY DEF SetClock, history
  <1>2. now \in Nat /\ now' \in Nat /\ MaxTime \in Nat
    BY <1>1, ServerAssumption DEF IInv, TypeOK
  <1>3. Rollback = 0 => Resendable(db, now') /\ Resendable(backup, now')
    BY <1>1, <1>2, ResendLater DEF IInv, DBInv, Rows
  <1>4. TypeOK'
    BY <1>1 DEF IInv, TypeOK
  <1>5. Advances
    <2>1. Settled(db, db)
      BY Stays DEF IInv, Follows
    <2>2. Retires(db, db)
      BY DEF IInv, DBInv, Rows, Trusted, Retires
    <2> QED
      BY <1>1, <2>1, <2>2 DEF Advances
  <1>6. /\ DBInv(db') /\ DBInv(backup') /\ LoginsKnown' /\ SentKept'
        /\ SingleEnvelope' /\ TokensSpent' /\ TokenOnce' /\ NodesMet'
    BY <1>1 DEF IInv, LoginsKnown, SentKept, SingleEnvelope, TokensSpent,
                TokenOnce, NodesMet
  <1> QED
    BY <1>1, <1>3, <1>4, <1>5, <1>6 DEF IInv

\* A step of the signers: the rows are the same, the keys move forward, and
\* what was handed out can be handed out again.
LEMMA SignerStep ==
    ASSUME IInv, DBInv(db'),
           db'.nodes = db.nodes, db'.tokens = db.tokens, db'.tasks = db.tasks,
           Retires(db, db'), Rollback = 0 => Resendable(db', now),
           UNCHANGED <<now, login, backup, restored, history>>,
           proc' \in Keys \cup {NoKey, Down}, restored => proc' = Down
    PROVE  IInv' /\ Advances
  <1>1. Settled(db, db') /\ Shrinks(db, db') /\ Pending(db') \subseteq Pending(db)
    BY DEF Settled, Shrinks, Pending
  <1>2. login' \in [Clients -> Login] /\ LoginsKnown' /\ restored' \in BOOLEAN
    BY DEF IInv, TypeOK, LoginsKnown
  <1>3. sent' = sent /\ drawn' = drawn /\ via' = via /\ gone' = gone
    BY DEF history
  <1>4. drawn \subseteq Tokens
    BY DEF IInv, TypeOK
  <1> QED
    BY <1>1, <1>2, <1>3, <1>4, Step

\* The process starts, and may select its key.  Nothing live was signed before
\* there was a key.
LEMMA StartKeeps ==
    ASSUME IInv, Start
    PROVE  IInv' /\ Advances
  <1>1. PICK k \in Keys \cup {NoKey} :
           /\ proc' = k
           /\ IF k = NoKey THEN UNCHANGED db
              ELSE ConfigureOK(db, k) /\ db' = Configure(db, k)
    BY DEF Start
  <1>2. ~restored /\ UNCHANGED <<now, login, backup, restored, history>>
    BY DEF Start
  <1>3. /\ DBInv(db') /\ db'.trust = db.trust
        /\ db'.key = db.key \/ (db.key = NoKey /\ db.trust = NoTrust)
        /\ db'.nodes = db.nodes /\ db'.tokens = db.tokens /\ db'.tasks = db.tasks
    <2>1. CASE k = NoKey
      BY <1>1, <2>1, Given
    <2>2. CASE k # NoKey
      BY <1>1, <2>2, Given, ConfigureKeeps
    <2> QED
      BY <2>1, <2>2
  <1>4. Retires(db, db')
    BY <1>3 DEF Retires, DBInv, Rows, Trusted
  <1>5. Rollback = 0 => Resendable(db', now)
    <2> SUFFICES ASSUME Rollback = 0, NEW r \in Dispatched(db'),
                        db'.tasks[r].expires > now
                 PROVE  ResendOK(db', r, now)
      BY DEF Resendable
    <2>1. r \in Dispatched(db) /\ ResendOK(db, r, now)
      BY <1>3 DEF IInv, Resendable, Dispatched
    <2>2. CASE db'.key = db.key
      BY <1>3, <2>1, <2>2 DEF ResendOK
    <2>3. CASE db.key = NoKey /\ db.trust = NoTrust
      <3>1. db.tasks[r].env = [key |-> NoKey, set |-> NoTrust]
        BY <2>1, <2>3 DEF ResendOK
      <3>2. db.tasks[r].env \in Envelope
        BY <2>1 DEF IInv, DBInv, Rows, Enveloped
      <3> QED
        BY <3>1, <3>2, KeysAssumption DEF Envelope
    <2> QED
      BY <1>3, <2>2, <2>3
  <1> QED
    BY <1>1, <1>2, <1>3, <1>4, <1>5, SignerStep

\* The process stops.
LEMMA StopKeeps ==
    ASSUME IInv, Stop
    PROVE  IInv' /\ Advances
  <1>1. /\ proc' = Down /\ login' = [c \in Clients |-> NoLogin]
        /\ UNCHANGED <<now, db, backup, restored, sent, drawn, via, gone>>
    BY DEF Stop, history
  <1>2. TypeOK' /\ LoginsKnown'
    BY <1>1 DEF IInv, TypeOK, Login, NoLogin, LoginsKnown, UserRow, NoAccount, Roles
  <1>3. Advances
    <2>1. Settled(db, db) /\ Retires(db, db)
      BY Stays DEF IInv, Follows, DBInv, Rows, Trusted, Retires
    <2> QED
      BY <1>1, <2>1 DEF Advances
  <1>4. /\ DBInv(db') /\ DBInv(backup') /\ SentKept'
        /\ SingleEnvelope' /\ TokensSpent' /\ TokenOnce' /\ NodesMet'
    BY <1>1 DEF IInv, SentKept, SingleEnvelope, TokensSpent, TokenOnce, NodesMet
  <1>5. Rollback = 0 => Resendable(db', now') /\ Resendable(backup', now')
    BY <1>1 DEF IInv
  <1> QED
    BY <1>1, <1>2, <1>3, <1>4, <1>5 DEF IInv

\* The backup is a database, and may be put back.
LEMMA BackupKeeps ==
    ASSUME IInv, TakeBackup \/ Restore
    PROVE  IInv' /\ Advances
  <1>1. /\ UNCHANGED <<now, proc, login, sent, drawn, via, gone>>
        /\ proc = Down /\ ~restored
        /\ \/ backup' = db /\ db' = db /\ restored' = FALSE
           \/ backup' = backup /\ db' = backup /\ restored' = TRUE
    BY DEF TakeBackup, Restore, history, Up, IInv, TypeOK
  <1>2. TypeOK' /\ LoginsKnown'
    BY <1>1 DEF IInv, TypeOK, LoginsKnown
  <1>3. Advances
    <2>1. Settled(db, db) /\ Retires(db, db)
      BY Stays DEF IInv, Follows, DBInv, Rows, Trusted, Retires
    <2> QED
      BY <1>1, <2>1 DEF Advances
  <1>4. SentKept'
    BY <1>1 DEF IInv, SentKept
  <1>5. SingleEnvelope' /\ TokenOnce'
    BY <1>1 DEF IInv, SingleEnvelope, TokenOnce
  <1>6. TokensSpent'
    BY <1>1 DEF IInv, TokensSpent
  <1>7. NodesMet'
    BY <1>1 DEF IInv, NodesMet
  <1>8. DBInv(db') /\ DBInv(backup')
    BY <1>1 DEF IInv
  <1>9. Rollback = 0 => Resendable(db', now') /\ Resendable(backup', now')
    BY <1>1 DEF IInv
  <1> QED
    BY <1>1, <1>2, <1>3, <1>4, <1>5, <1>6, <1>7, <1>8, <1>9 DEF IInv

-----------------------------------------------------------------------------
(* Probes.                                                                 *)

\* A node enrolls under a name that was never used, with a token that was
\* never used.
LEMMA EnrollKeeps ==
    ASSUME IInv, NEW k \in Tokens, NEW n \in Nodes, Enroll(k, n)
    PROVE  IInv' /\ Advances
  <1>1. /\ Up /\ via[n] = NoToken /\ RegisterOK(db, k, n, now)
        /\ db' = Register(db, k, n) /\ via' = [via EXCEPT ![n] = k]
        /\ UNCHANGED <<now, proc, login, backup, restored, sent, drawn, gone>>
    BY DEF Enroll, Commit
  <1>2. /\ DBInv(db') /\ Settled(db, db') /\ Unsigned(db, db')
        /\ db'.tasks = db.tasks /\ db'.nodes[n].state = "enabled"
        /\ \A m \in Nodes \ {n} : db'.nodes[m] = db.nodes[m]
        /\ db'.tokens[k].state = "consumed"
        /\ \A l \in Tokens \ {k} : db'.tokens[l] = db.tokens[l]
    BY <1>1, Given, RegisterKeeps
  <1>3. ~restored /\ k \in Pending(db) /\ k # NoToken
    BY <1>1, Given, ServerAssumption DEF RegisterOK, Pending
  <1>4. /\ Pending(db') \subseteq Pending(db) \ {k}
        /\ Met(db') \subseteq Met(db) \cup {n}
        /\ Enabled(db') \subseteq Enabled(db) \cup {n}
    BY <1>2 DEF Pending, Met, Enabled
  <1>5. /\ via' \in [Nodes -> Tokens \cup {NoToken}] /\ via'[n] = k
        /\ \A m \in Nodes \ {n} : via'[m] = via[m]
    BY <1>1 DEF IInv, TypeOK
  <1>6. TypeOK'
    <2>1. db' \in DB
      BY <1>2 DEF DBInv, Rows
    <2> QED
      BY <1>1, <1>5, <2>1 DEF IInv, TypeOK
  <1>7. SentKept'
    <2> SUFFICES ASSUME NEW x \in sent
                 PROVE  /\ via'[x.node] # NoToken
                        /\ x.node \in Enabled(db') => RowOf(db', x)
      BY <1>1, <1>3 DEF SentKept
    <2>1. via[x.node] # NoToken /\ x.node \in Nodes
      BY DEF IInv, SentKept, TypeOK
    <2>2. x.node # n
      BY <1>1, <2>1
    <2>3. x.node \in Enabled(db) => RowOf(db, x)
      BY <1>3 DEF IInv, SentKept
    <2> QED
      BY <1>2, <1>4, <1>5, <2>1, <2>2, <2>3 DEF RowOf
  <1>8. SingleEnvelope' /\ LoginsKnown' /\ DBInv(backup')
    BY <1>1 DEF IInv, SingleEnvelope, LoginsKnown
  <1>9. TokensSpent'
    <2>1. Pending(db') \cup Pending(backup') \subseteq drawn'
      BY <1>1, <1>4 DEF IInv, TokensSpent
    <2> SUFFICES ASSUME NEW m \in Nodes, via'[m] # NoToken
                 PROVE  via'[m] \in drawn /\ via'[m] \notin Pending(db')
      BY <1>1, <2>1 DEF TokensSpent
    <2>2. CASE m = n
      BY <1>3, <1>4, <1>5, <2>2 DEF IInv, TokensSpent
    <2>3. CASE m # n
      BY <1>3, <1>4, <1>5, <2>3 DEF IInv, TokensSpent
    <2> QED
      BY <2>2, <2>3
  <1>10. TokenOnce'
    <2>1. \A m \in Nodes : via[m] # k
      BY <1>3 DEF IInv, TokensSpent
    <2> QED
      BY <1>5, <2>1 DEF IInv, TokenOnce
  <1>11. NodesMet'
    <2>1. n \notin gone
      BY <1>1 DEF IInv, NodesMet
    <2>2. \A m \in Met(db') \cup Met(backup) \cup gone : m \in Nodes
      BY DEF Met, IInv, TypeOK
    <2>3. \A m \in Met(db') \cup Met(backup) \cup gone : via'[m] # NoToken
      BY <1>3, <1>4, <1>5, <2>2 DEF IInv, NodesMet
    <2>4. gone \cap Enabled(db') = {}
      BY <1>3, <1>4, <2>1 DEF IInv, NodesMet
    <2> QED
      BY <1>1, <2>3, <2>4 DEF NodesMet
  <1>12. Rollback = 0 => Resendable(db', now') /\ Resendable(backup', now')
    BY <1>1, <1>2, ResendFollows DEF IInv
  <1>13. Advances
    BY <1>2 DEF Advances, Retires, Unsigned, DBInv, Rows, Trusted
  <1> QED
    BY <1>1, <1>2, <1>3, <1>6, <1>7, <1>8, <1>9, <1>10, <1>11, <1>12, <1>13 DEF IInv

\* Heartbeats, polls that deliver nothing, and results.
LEMMA ProbeQuietKeeps ==
    ASSUME IInv, NEW n \in Nodes,
           \/ \E p \in Digests, ready \in BOOLEAN : SaveHeartbeat(n, p, ready)
           \/ PollNothing(n)
           \/ \E r \in Reqs, v \in Result : SubmitResult(n, r, v)
    PROVE  IInv' /\ Advances
  <1>1. CASE \E p \in Digests, ready \in BOOLEAN : SaveHeartbeat(n, p, ready)
    <2>1. PICK p \in Digests, ready \in BOOLEAN : SaveHeartbeat(n, p, ready)
      BY <1>1
    <2>2. Quiet(Heartbeat(db, n, p, ready, now))
      BY <2>1 DEF SaveHeartbeat
    <2> QED
      BY <2>2, Given, HeartbeatKeeps, QuietStep
  <1>2. CASE PollNothing(n)
    <2>1. Quiet(Expire(db, n, now))
      BY <1>2 DEF PollNothing
    <2>2. DBInv(Expire(db, n, now)) /\ Follows(db, Expire(db, n, now))
      BY Given, ExpireKeeps
    <2> QED
      BY <2>1, <2>2, QuietStep
  <1>3. CASE \E r \in Reqs, v \in Result : SubmitResult(n, r, v)
    <2>1. PICK r \in Reqs, v \in Result : SubmitResult(n, r, v)
      BY <1>3
    <2>2. SubmitOK(db, n, r, v) /\ Quiet(Submit(db, r, v))
      BY <2>1 DEF SubmitResult
    <2>3. DBInv(Submit(db, r, v)) /\ Follows(db, Submit(db, r, v))
      BY <2>2, Given, SubmitKeeps
    <2> QED
      BY <2>2, <2>3, QuietStep
  <1> QED
    BY <1>1, <1>2, <1>3

\* A poll signs a queued task: nothing was handed out for it before.
LEMMA PollSignKeeps ==
    ASSUME IInv, NEW n \in Nodes, NEW r \in Reqs, PollSign(n, r)
    PROVE  IInv' /\ Advances
  <1> DEFINE d == Expire(db, n, now)
             x == [node |-> n, req |-> r, env |-> Sign(d, r).tasks[r].env]
  <1>1. /\ Up /\ PollOK(db, n, proc, now) /\ Oldest(db, n, now, r)
        /\ SignOK(d, r, now) /\ db' = Sign(d, r) /\ sent' = sent \cup {x}
        /\ UNCHANGED <<now, proc, login, backup, restored, drawn, via, gone>>
    BY DEF PollSign, Commit
  <1>2. /\ DBInv(d) /\ Follows(db, d) /\ Dispatched(d) = Dispatched(db)
        /\ Queued(d) = Queued(db) \ Overdue(db, n, now)
        /\ \A q \in Reqs \ Overdue(db, n, now) : d.tasks[q] = db.tasks[q]
        /\ d.nodes = db.nodes /\ d.tokens = db.tokens
        /\ d.key = db.key /\ d.trust = db.trust
    BY Given, ExpireKeeps
  <1> HIDE DEF d
  <1>3. d.key # NoKey /\ n \in Enabled(db) /\ ~restored
    BY <1>1, <1>2, Given DEF PollOK, Enabled
  <1>4. d.tasks[r].state = "queued"
    BY <1>1 DEF SignOK
  <1>5. d.tasks[r] = db.tasks[r] /\ db.tasks[r].node = n
    <2>1. r \in Queued(d)
      BY <1>4 DEF Queued
    <2>2. d.tasks[r] = db.tasks[r]
      BY <1>2, <2>1
    <2>3. db.tasks[r].node = n
      BY <1>1 DEF Oldest, Deliverable, Of
    <2> QED
      BY <2>2, <2>3
  <1> DEFINE env == [key |-> d.key,
                     set |-> IF d.trust = NoTrust THEN NoTrust ELSE d.trust.id]
  <1>6. /\ DBInv(db') /\ Settled(d, db') /\ db'.nodes = d.nodes
        /\ db'.tokens = d.tokens /\ db'.key = d.key /\ db'.trust = d.trust
        /\ Dispatched(db') = Dispatched(d) \cup {r}
        /\ \A q \in Reqs \ {r} : db'.tasks[q] = d.tasks[q]
        /\ db'.tasks[r].state = "dispatched" /\ db'.tasks[r].env = env
        /\ env \in Envelope
        /\ db'.tasks[r].node = d.tasks[r].node
        /\ db'.tasks[r].created = d.tasks[r].created
        /\ db'.tasks[r].expires = d.tasks[r].expires
    BY <1>1, <1>2, <1>3, SignKeeps
  <1>7. /\ Settled(db, db') /\ Shrinks(db, db') /\ Pending(db') \subseteq Pending(db)
    <2>1. Settled(db, db')
      BY <1>2, <1>6 DEF Follows, Settled
    <2> QED
      BY <1>2, <1>6, <2>1 DEF Shrinks, Pending
  <1>8. Retires(db, db')
    BY <1>2, <1>6 DEF Retires, DBInv, Rows, Trusted
  <1>9. Rollback = 0 => Resendable(db', now)
    <2> SUFFICES ASSUME Rollback = 0, NEW q \in Dispatched(db'),
                        db'.tasks[q].expires > now
                 PROVE  ResendOK(db', q, now)
      BY DEF Resendable
    <2>1. CASE q = r
      <3>1. CASE d.trust = NoTrust
        BY <1>6, <2>1, <3>1 DEF ResendOK
      <3>2. CASE d.trust # NoTrust
        <4>1. CheckTrust(d.trust, d.key, d.tasks[r], now)
          BY <1>1, <3>2 DEF SignOK
        <4>2. d.trust \in TrustSet
          BY <1>2, <3>2 DEF DBInv, Rows, DB
        <4>3. env.key = d.key /\ env.set = d.trust.id /\ env.set # NoTrust
          BY <3>2, <4>2, KeysAssumption DEF TrustSet
        <4> HIDE DEF env
        <4>4. CheckTrust(d.trust, d.key, db'.tasks[r], now)
          BY <1>6, <4>1 DEF CheckTrust
        <4> QED
          BY <1>6, <2>1, <3>2, <4>3, <4>4 DEF ResendOK, Verifies
      <3> QED
        BY <3>1, <3>2
    <2>2. CASE q # r
      <3>1. Resendable(d, now)
        BY <1>2, ResendFollows DEF IInv, Follows
      <3>2. q \in Dispatched(d) /\ q \in Reqs /\ db'.tasks[q] = d.tasks[q]
        BY <1>6, <2>2 DEF Dispatched
      <3>3. ResendOK(d, q, now)
        BY <3>1, <3>2 DEF Resendable
      <3> QED
        BY <1>6, <3>2, <3>3 DEF ResendOK
    <2> QED
      BY <2>1, <2>2
  <1>10. x.node = n /\ x.req = r /\ x.env = env
    BY <1>1, <1>6
  <1>11. x \in [node : Nodes, req : Reqs, env : Envelope]
    BY <1>6, <1>10
  <1> HIDE DEF x, env
  <1>12. RowOf(db', x)
    BY <1>5, <1>6, <1>10 DEF RowOf
  <1>13. \A y \in sent : ~(y.node = n /\ y.req = r)
    BY <1>3, <1>4, <1>5 DEF IInv, SentKept, RowOf
  <1>14. \A y \in sent' \ sent :
            /\ y \in [node : Nodes, req : Reqs, env : Envelope]
            /\ ~restored' /\ y.node \in Enabled(db) /\ RowOf(db', y)
            /\ \A z \in sent' : y.node = z.node /\ y.req = z.req => y.env = z.env
    BY <1>1, <1>3, <1>10, <1>11, <1>12, <1>13
  <1>15. /\ proc' \in Keys \cup {NoKey, Down} /\ restored' \in BOOLEAN
         /\ restored' => restored /\ proc' = Down
         /\ login' \in [Clients -> Login] /\ LoginsKnown' /\ drawn \subseteq Tokens
    BY <1>1 DEF IInv, TypeOK, LoginsKnown
  <1> QED
    BY <1>1, <1>6, <1>7, <1>8, <1>9, <1>14, <1>15, Step

\* A poll hands the stored envelope out again.
LEMMA PollResendKeeps ==
    ASSUME IInv, NEW n \in Nodes, NEW r \in Reqs, PollResend(n, r)
    PROVE  IInv' /\ Advances
  <1> DEFINE x == [node |-> n, req |-> r, env |-> db.tasks[r].env]
  <1>1. /\ Up /\ PollOK(db, n, proc, now) /\ Oldest(db, n, now, r)
        /\ ResendOK(db, r, now) /\ db' = Expire(db, n, now)
        /\ sent' = sent \cup {x}
        /\ UNCHANGED <<now, proc, login, backup, restored, drawn, via, gone>>
    BY DEF PollResend, Commit
  <1>2. /\ DBInv(db') /\ Follows(db, db')
        /\ \A q \in Reqs \ Overdue(db, n, now) : db'.tasks[q] = db.tasks[q]
    BY <1>1, Given, ExpireKeeps
  <1>3. n \in Enabled(db) /\ ~restored
    BY <1>1, Given DEF PollOK, Enabled
  <1>4. r \in Dispatched(db) /\ r \notin Overdue(db, n, now)
    BY <1>1 DEF ResendOK, Dispatched, Overdue, Queued
  <1>5. db.tasks[r].env \in Envelope
    BY <1>4, Given DEF DBInv, Rows, Enveloped
  <1>6. db.tasks[r].node = n /\ db.tasks[r].state = "dispatched"
    BY <1>1, <1>4 DEF Oldest, Deliverable, Of, Dispatched
  <1>7. db'.tasks[r] = db.tasks[r]
    BY <1>2, <1>4
  <1>8. /\ x.node = n /\ x.req = r /\ x.env = db.tasks[r].env
        /\ x \in [node : Nodes, req : Reqs, env : Envelope]
    BY <1>5
  <1> HIDE DEF x
  <1>9. RowOf(db', x)
    BY <1>6, <1>7, <1>8 DEF RowOf
  <1>10. \A y \in sent : y.node = n /\ y.req = r => y.env = db.tasks[r].env
    BY <1>3 DEF IInv, SentKept, RowOf
  <1>11. \A y \in sent' \ sent :
            /\ y \in [node : Nodes, req : Reqs, env : Envelope]
            /\ ~restored' /\ y.node \in Enabled(db) /\ RowOf(db', y)
            /\ \A z \in sent' : y.node = z.node /\ y.req = z.req => y.env = z.env
    BY <1>1, <1>3, <1>8, <1>9, <1>10
  <1>12. /\ Settled(db, db') /\ Shrinks(db, db') /\ Unsigned(db, db')
         /\ Pending(db') \subseteq Pending(db)
    BY <1>2 DEF Follows, Unissued, Pending
  <1>13. Retires(db, db') /\ (Rollback = 0 => Resendable(db', now))
    BY <1>2, <1>12, ResendFollows DEF Unsigned, Retires, DBInv, Rows, Trusted, IInv
  <1>14. /\ proc' \in Keys \cup {NoKey, Down} /\ restored' \in BOOLEAN
         /\ restored' => restored /\ proc' = Down
         /\ login' \in [Clients -> Login] /\ LoginsKnown' /\ drawn \subseteq Tokens
    BY <1>1 DEF IInv, TypeOK, LoginsKnown
  <1> QED
    BY <1>1, <1>2, <1>11, <1>12, <1>13, <1>14, Step

-----------------------------------------------------------------------------
(* Logins.                                                                 *)

\* A login that ends commits a transaction that Follows.
LEMMA LoginEndKeeps ==
    ASSUME IInv, NEW c \in Clients, NEW e, DBInv(e), Follows(db, e), LoginEnd(c, e)
    PROVE  IInv' /\ Advances
  <1>1. /\ db' = e /\ login' = [login EXCEPT ![c] = NoLogin]
        /\ UNCHANGED <<now, proc, backup, restored, history>>
    BY DEF LoginEnd
  <1>2. NoLogin \in Login /\ NoLogin.stage = "idle"
    BY DEF NoLogin, Login, UserRow, NoAccount, Roles
  <1>3. login' \in [Clients -> Login] /\ LoginsKnown'
    BY <1>1, <1>2 DEF IInv, TypeOK, LoginsKnown
  <1> QED
    BY <1>1, <1>3, Ordinary

\* The two transactions of a login.
LEMMA LoginKeeps ==
    ASSUME IInv, Logins
    PROVE  IInv' /\ Advances
  <1>1. PICK c \in Clients :
           \/ \E u \in Users, src \in Sources, t \in Readings : LoginRefused(c, u, src, t)
           \/ \E u \in Users, src \in Sources, t \in Readings : LoginBegin(c, u, src, t)
           \/ \E match \in BOOLEAN : LoginFails(c, match)
           \/ LoginLimited(c)
           \/ \E s \in Sessions : LoginSucceeds(c, s)
           \/ LoginAborts(c)
    BY DEF Logins
  <1> DEFINE a == AdminClock(db, now)
             f == RevokeEach(a, Stale(a, now))
  <1>2. DBInv(db) /\ now \in Nat
    BY Given
  <1>3. DBInv(a) /\ Follows(db, a) /\ Same(db, a)
    BY <1>2, AdminClockKeeps
  <1>4. DBInv(f) /\ Follows(db, f) /\ f.users = a.users
    <2>1. Stale(a, now) \subseteq Live(a)
      BY DEF Stale
    <2> HIDE DEF a
    <2>2. DBInv(f) /\ Follows(a, f) /\ f.users = a.users
      BY <1>3, <2>1, RevokeEachKeeps
    <2> QED
      BY <1>3, <2>2, FollowsThrough
  <1>5. ASSUME NEW u \in Users, NEW src \in Sources, NEW t \in Readings,
               LoginRefused(c, u, src, t)
        PROVE  IInv' /\ Advances
    <2> DEFINE e == Counted(Pruned(AdminClock(db, t), t), u, src, t)
    <2>1. DBInv(e) /\ Follows(db, e)
      BY <1>2, BudgetKeeps DEF Readings
    <2>2. Quiet(e) \/ (CanAppend(e, 0) /\ Quiet(Appended(e, 0)))
      BY <1>5 DEF LoginRefused
    <2> HIDE DEF e
    <2>3. CASE Quiet(e)
      BY <2>1, <2>3, QuietStep
    <2>4. CASE CanAppend(e, 0) /\ Quiet(Appended(e, 0))
      <3>1. DBInv(Appended(e, 0)) /\ Follows(db, Appended(e, 0))
        BY <2>1, <2>4, EventKeeps, FollowsThrough
      <3> QED
        BY <2>4, <3>1, QuietStep
    <2> QED
      BY <2>2, <2>3, <2>4
  <1>6. ASSUME NEW u \in Users, NEW src \in Sources, NEW t \in Readings,
               LoginBegin(c, u, src, t)
        PROVE  IInv' /\ Advances
    <2> DEFINE e == Counted(Pruned(AdminClock(db, t), t), u, src, t)
               row == [stage |-> "hashing", user |-> u, acct |-> db.users[u]]
    <2>1. DBInv(e) /\ Follows(db, e)
      BY <1>2, BudgetKeeps DEF Readings
    <2>2. /\ CanAppend(e, 0) /\ db' = Appended(e, 0)
          /\ login' = [login EXCEPT ![c] = row]
          /\ UNCHANGED <<now, proc, backup, restored, history>>
      BY <1>6 DEF LoginBegin
    <2> HIDE DEF e
    <2>3. DBInv(db') /\ Follows(db, db')
      BY <2>1, <2>2, EventKeeps, FollowsThrough
    <2>4. row \in Login /\ row.user \in Users
      BY <1>2 DEF Login, DBInv, Rows, DB
    <2> HIDE DEF row
    <2>5. login' \in [Clients -> Login] /\ LoginsKnown'
      BY <2>2, <2>4 DEF IInv, TypeOK, LoginsKnown
    <2> QED
      BY <2>2, <2>3, <2>5, Ordinary
  <1>7. ASSUME NEW match \in BOOLEAN, LoginFails(c, match)
        PROVE  IInv' /\ Advances
    <2>1. CanAppend(a, 0) /\ LoginEnd(c, Appended(a, 0))
      BY <1>7 DEF LoginFails
    <2> HIDE DEF a
    <2>2. DBInv(Appended(a, 0)) /\ Follows(db, Appended(a, 0))
      BY <1>3, <2>1, EventKeeps, FollowsThrough
    <2> QED
      BY <2>1, <2>2, LoginEndKeeps
  <1>8. ASSUME LoginLimited(c) PROVE IInv' /\ Advances
    <2>1. CanAppend(f, 0) /\ LoginEnd(c, Appended(f, 0))
      BY <1>8 DEF LoginLimited
    <2> HIDE DEF f
    <2>2. DBInv(Appended(f, 0)) /\ Follows(db, Appended(f, 0))
      BY <1>4, <2>1, EventKeeps, FollowsThrough
    <2> QED
      BY <2>1, <2>2, LoginEndKeeps
  <1>9. ASSUME NEW s \in Sessions, LoginSucceeds(c, s) PROVE IInv' /\ Advances
    <2> DEFINE u == login[c].user
               acct == login[c].acct
               e == Appended([f EXCEPT !.sessions[s] = NewSession(u, acct, now)], 1)
    <2>1. /\ login[c].stage = "hashing" /\ CredentialsHold(a, u, acct)
          /\ f.sessions[s] = NoSession /\ CanAppend(f, 1) /\ LoginEnd(c, e)
      BY <1>9 DEF LoginSucceeds
    <2>2. u \in Users /\ acct \in UserRow
      BY <2>1 DEF IInv, LoginsKnown, TypeOK, Login
    <2> HIDE DEF f, a, u, acct
    <2>3. CredentialsHold(f, u, acct)
      BY <1>4, <2>1 DEF CredentialsHold
    <2>4. DBInv(e) /\ Follows(f, e)
      BY <1>2, <1>4, <2>1, <2>2, <2>3, NewSessionKeeps
    <2> HIDE DEF e
    <2>5. Follows(db, e)
      BY <1>4, <2>4, FollowsThrough
    <2> QED
      BY <2>1, <2>4, <2>5, LoginEndKeeps
  <1>10. ASSUME LoginAborts(c) PROVE IInv' /\ Advances
    BY <1>2, <1>10, Stays, LoginEndKeeps DEF LoginAborts
  <1> QED
    BY <1>1, <1>5, <1>6, <1>7, <1>8, <1>9, <1>10

-----------------------------------------------------------------------------
(* Tokens and disablement, for a request and for localctl.                 *)

\* A token that was never drawn is issued.
LEMMA IssueStep ==
    ASSUME IInv, NEW k \in Tokens, Draw(k), DBInv(db'), Settled(db, db'),
           Unsigned(db, db'), Shrinks(db, db'),
           \A l \in Tokens \ {k} :
              db'.tokens[l].state = "pending" => db.tokens[l].state = "pending",
           UNCHANGED <<now, proc, login, backup, restored>>
    PROVE  IInv' /\ Advances
  <1>1. /\ k \notin drawn /\ drawn' = drawn \cup {k}
        /\ sent' = sent /\ via' = via /\ gone' = gone
    BY DEF Draw
  <1>2. Pending(db') \subseteq Pending(db) \cup (drawn' \ drawn)
    BY <1>1 DEF Pending
  <1>3. Retires(db, db') /\ (Rollback = 0 => Resendable(db', now))
    BY ResendFollows DEF Unsigned, Retires, DBInv, Rows, Trusted, IInv
  <1>4. /\ proc' \in Keys \cup {NoKey, Down} /\ restored' \in BOOLEAN
        /\ restored' => restored /\ proc' = Down
        /\ login' \in [Clients -> Login] /\ LoginsKnown'
        /\ drawn' \subseteq Tokens /\ drawn \subseteq drawn'
    BY <1>1 DEF IInv, TypeOK, LoginsKnown
  <1> QED
    BY <1>1, <1>2, <1>3, <1>4, Step

\* A registered node is disabled.
LEMMA DisableStep ==
    ASSUME IInv, NEW n \in Met(db), DBInv(db'), Follows(db, db'),
           n \notin Enabled(db'), gone' = gone \cup {n},
           UNCHANGED <<now, proc, login, backup, restored, sent, drawn, via>>
    PROVE  IInv' /\ Advances
  <1>1. /\ Settled(db, db') /\ Shrinks(db, db') /\ Unsigned(db, db')
        /\ Pending(db') \subseteq Pending(db)
    BY DEF Follows, Unissued, Pending
  <1>2. Retires(db, db') /\ (Rollback = 0 => Resendable(db', now))
    BY <1>1, ResendFollows DEF Unsigned, Retires, DBInv, Rows, Trusted, IInv
  <1>3. /\ proc' \in Keys \cup {NoKey, Down} /\ restored' \in BOOLEAN
        /\ restored' => restored /\ proc' = Down
        /\ login' \in [Clients -> Login] /\ LoginsKnown' /\ drawn \subseteq Tokens
    BY DEF IInv, TypeOK, LoginsKnown
  <1>4. gone \subseteq gone' /\ gone' \ gone \subseteq Met(db) \ Enabled(db')
    OBVIOUS
  <1> QED
    BY <1>1, <1>2, <1>3, <1>4, Step

-----------------------------------------------------------------------------
(* Management requests.                                                    *)

\* A request ends with the last-seen time of its session.
LEMMA TouchedAfter ==
    ASSUME NEW d, NEW s \in Sessions, NEW t \in Nat, DBInv(d)
    PROVE  LET e == Touched(d, s, t)
           IN  DBInv(e) /\ Follows(d, e) /\ \A b : Follows(b, d) => Follows(b, e)
  BY TouchedKeeps, FollowsThrough

\* Requests that only change the database, by a transaction that Follows.
LEMMA ManageStep ==
    ASSUME IInv, NEW s \in Sessions, NEW e, DBInv(e), Follows(db, e),
           Commit(Touched(e, s, now)), UNCHANGED history
    PROVE  IInv' /\ Advances
  <1>1. DBInv(Touched(e, s, now)) /\ Follows(db, Touched(e, s, now))
    BY Given, TouchedAfter
  <1> QED
    BY <1>1, QuietStep DEF Quiet

\* Each request is housekeeping, its operation, and the touch of its session.
LEMMA ManageKeeps ==
    ASSUME IInv, Management
    PROVE  IInv' /\ Advances
  <1>1. PICK s \in Sessions :
           \/ ManageUnauthorized(s)
           \/ ManageRejected(s)
           \/ ManageRead(s)
           \/ ManageLogout(s)
           \/ ManageRevoke(s)
           \/ \E r \in Reqs, n \in Nodes, ttl \in TTLs : ManageSubmit(s, r, n, ttl)
           \/ \E k \in Tokens, ttl \in TTLs : ManageToken(s, k, ttl)
           \/ \E n \in Nodes : ManageDisable(s, n)
    BY DEF Management
  <1> DEFINE d == Housekept(db, now)
  <1>2. DBInv(db) /\ now \in Nat
    BY Given
  <1>3. DBInv(d) /\ Follows(db, d)
    BY <1>2, HousekeptKeeps
  <1>4. ASSUME CanAppend(d, 0)
        PROVE  DBInv(Appended(d, 0)) /\ Follows(db, Appended(d, 0))
    <2> HIDE DEF d
    <2> QED
      BY <1>3, <1>4, EventKeeps, FollowsThrough
  <1>5. ASSUME ManageUnauthorized(s) PROVE IInv' /\ Advances
    BY <1>3, <1>5, QuietStep DEF ManageUnauthorized
  <1>6. ASSUME ManageRejected(s) PROVE IInv' /\ Advances
    <2>1. CanAppend(d, 0) /\ Quiet(Appended(d, 0))
      BY <1>6 DEF ManageRejected
    <2> QED
      BY <1>4, <2>1, QuietStep
  <1>7. ASSUME ManageRead(s) PROVE IInv' /\ Advances
    <2>1. CanAppend(d, 0) /\ Commit(Touched(Appended(d, 0), s, now)) /\ UNCHANGED history
      BY <1>7 DEF ManageRead, ManageCommits
    <2> QED
      BY <1>4, <2>1, ManageStep
  <1>8. ASSUME ManageLogout(s) PROVE IInv' /\ Advances
    <2> DEFINE e == RevokeEach(d, {s})
    <2>1. /\ Commit(Touched(e, s, now)) /\ UNCHANGED history
          /\ d.sessions[s].user \in Users
      BY <1>8 DEF ManageLogout, ManageCommits, Authorized
    <2>2. {s} \subseteq Live(d)
      BY <2>1, AccountSets DEF Live
    <2> HIDE DEF d
    <2>3. DBInv(e) /\ Follows(d, e)
      BY <1>3, <2>2, RevokeEachKeeps
    <2> HIDE DEF e
    <2> QED
      BY <1>3, <2>1, <2>3, FollowsThrough, ManageStep
  <1>9. ASSUME ManageRevoke(s) PROVE IInv' /\ Advances
    <2> DEFINE u == db.sessions[s].user
               e == [RevokeEach(d, Owned(d, u)) EXCEPT !.users[u].gen = @ + 1]
    <2>1. Commit(Touched(e, s, now)) /\ UNCHANGED history /\ u # NoUser
      BY <1>9 DEF ManageRevoke, ManageCommits
    <2>2. u \in Users
      BY <1>2, <2>1 DEF DBInv, Rows, DB, SessionRow
    <2> HIDE DEF d, u
    <2>3. DBInv(e) /\ Follows(d, e)
      BY <1>3, <2>2, RevokeOwnKeeps
    <2> HIDE DEF e
    <2> QED
      BY <1>3, <2>1, <2>3, FollowsThrough, ManageStep
  <1>10. ASSUME NEW r \in Reqs, NEW n \in Nodes, NEW ttl \in TTLs,
                ManageSubmit(s, r, n, ttl)
         PROVE  IInv' /\ Advances
    <2> DEFINE e == Enqueue(d, r, n, ttl, now)
    <2>1. /\ EnqueueOK(d, r, n, ttl, now)
          /\ Commit(Touched(e, s, now)) /\ UNCHANGED history
      BY <1>10 DEF ManageSubmit, ManageCommits
    <2> HIDE DEF d
    <2>2. DBInv(e) /\ Follows(d, e)
      BY <1>2, <1>3, <2>1, EnqueueKeeps
    <2> HIDE DEF e
    <2> QED
      BY <1>3, <2>1, <2>2, FollowsThrough, ManageStep
  <1>11. ASSUME NEW k \in Tokens, NEW ttl \in TTLs, ManageToken(s, k, ttl)
         PROVE  IInv' /\ Advances
    <2> DEFINE e == IssueToken(d, k, ttl, now)
    <2>1. /\ CanAppend(d, 0) /\ db' = Touched(e, s, now) /\ Draw(k)
          /\ UNCHANGED <<now, proc, login, backup, restored>>
      BY <1>11 DEF ManageToken, ManageCommits, Commit
    <2> HIDE DEF d
    <2>2. /\ DBInv(e) /\ Settled(d, e) /\ Unsigned(d, e) /\ Shrinks(d, e)
          /\ \A l \in Tokens \ {k} :
                e.tokens[l].state = "pending" => d.tokens[l].state = "pending"
      BY <1>2, <1>3, <2>1, IssueKeeps
    <2> HIDE DEF e
    <2>3. DBInv(db') /\ Follows(e, db')
      BY <1>2, <2>1, <2>2, TouchedKeeps
    <2>4. Settled(db, db')
      BY <1>3, <2>2, <2>3 DEF Follows, Settled
    <2>5. Shrinks(db, db') /\ Unsigned(db, db')
      BY <1>3, <2>2, <2>3 DEF Follows, Shrinks, Unsigned
    <2>6. \A l \in Tokens \ {k} :
             db'.tokens[l].state = "pending" => db.tokens[l].state = "pending"
      BY <1>3, <2>2, <2>3 DEF Follows, Unissued
    <2> QED
      BY <2>1, <2>3, <2>4, <2>5, <2>6, IssueStep
  <1>12. ASSUME NEW n \in Nodes, ManageDisable(s, n) PROVE IInv' /\ Advances
    <2> DEFINE e == Disable(d, n)
    <2>1. /\ DisableOK(d, n) /\ db' = Touched(e, s, now) /\ gone' = gone \cup {n}
          /\ UNCHANGED <<now, proc, login, backup, restored, sent, drawn, via>>
      BY <1>12 DEF ManageDisable, ManageCommits, Commit
    <2> HIDE DEF d
    <2>2. DBInv(e) /\ Follows(d, e) /\ n \notin Enabled(e)
      BY <1>3, <2>1, DisableKeeps
    <2>3. n \in Met(db)
      BY <1>3, <2>1 DEF DisableOK, Follows, Shrinks, Met
    <2> HIDE DEF e
    <2>4. DBInv(db') /\ Follows(e, db')
      BY <1>2, <2>1, <2>2, TouchedKeeps
    <2>5. Follows(db, db')
      BY <1>3, <2>2, <2>4, FollowsThrough
    <2>6. n \notin Enabled(db')
      BY <2>2, <2>4 DEF Follows, Shrinks, Enabled
    <2> QED
      BY <2>1, <2>3, <2>4, <2>5, <2>6, DisableStep
  <1> QED
    BY <1>1, <1>5, <1>6, <1>7, <1>8, <1>9, <1>10, <1>11, <1>12

-----------------------------------------------------------------------------
(* The local operator.                                                     *)

\* localctl commands that commit a transaction that Follows.
LEMMA LocalStep ==
    ASSUME IInv, NEW ok, NEW e, Local(ok, e), DBInv(e), Follows(db, e)
    PROVE  IInv' /\ Advances
  BY QuietStep DEF Local

\* An installed trust set verifies all that is out.
LEMMA LocalInstallKeeps ==
    ASSUME IInv, NEW s \in TrustSets, LocalInstall(s)
    PROVE  IInv' /\ Advances
  <1>1. /\ InstallOK(db, s, now) /\ db' = Install(db, s) /\ proc' = proc
        /\ UNCHANGED <<now, login, backup, restored, history>>
    BY DEF LocalInstall, Local, Quiet, Commit
  <1>2. /\ DBInv(db') /\ db'.trust = s /\ s # NoTrust
        /\ db.trust # NoTrust => db.trust.retired \subseteq s.retired
        /\ Active(s) \cap s.retired = {}
        /\ db'.nodes = db.nodes /\ db'.tokens = db.tokens /\ db'.tasks = db.tasks
    BY <1>1, Given, InstallKeeps
  <1>3. Retires(db, db')
    BY <1>2 DEF Retires
  <1>4. Resendable(db', now)
    <2> SUFFICES ASSUME NEW r \in Dispatched(db'), db'.tasks[r].expires > now
                 PROVE  ResendOK(db', r, now)
      BY DEF Resendable
    <2>1. r \in Dispatched(db) /\ db.tasks[r].state = "dispatched"
      BY <1>2 DEF Dispatched
    <2>2. Verifies(s, db.tasks[r], now)
      BY <1>1, <1>2, <2>1 DEF InstallOK
    <2> QED
      BY <1>2, <2>1, <2>2 DEF ResendOK
  <1>5. proc' \in Keys \cup {NoKey, Down} /\ (restored => proc' = Down)
    BY <1>1 DEF IInv, TypeOK
  <1> QED
    BY <1>1, <1>2, <1>3, <1>4, <1>5, SignerStep

\* Under a trust set the selected key plays no part in what is out.
LEMMA LocalSwitchKeeps ==
    ASSUME IInv, NEW k \in Keys, LocalSwitch(k)
    PROVE  IInv' /\ Advances
  <1>1. /\ SwitchOK(db, k, now) /\ db' = Switch(db, k) /\ proc' = proc
        /\ UNCHANGED <<now, login, backup, restored, history>>
    BY DEF LocalSwitch, Local, Quiet, Commit
  <1>2. /\ DBInv(db') /\ db'.trust = db.trust /\ db.trust # NoTrust
        /\ db'.nodes = db.nodes /\ db'.tokens = db.tokens /\ db'.tasks = db.tasks
    BY <1>1, Given, SwitchKeeps
  <1>3. Retires(db, db')
    BY <1>2 DEF Retires, DBInv, Rows, Trusted
  <1>4. Rollback = 0 => Resendable(db', now)
    <2> SUFFICES ASSUME Rollback = 0, NEW r \in Dispatched(db'),
                        db'.tasks[r].expires > now
                 PROVE  ResendOK(db', r, now)
      BY DEF Resendable
    <2>1. r \in Dispatched(db) /\ ResendOK(db, r, now)
      BY <1>2 DEF IInv, Resendable, Dispatched
    <2> QED
      BY <1>2, <2>1 DEF ResendOK
  <1>5. proc' \in Keys \cup {NoKey, Down} /\ (restored => proc' = Down)
    BY <1>1 DEF IInv, TypeOK
  <1> QED
    BY <1>1, <1>2, <1>3, <1>4, <1>5, SignerStep

\* Quarantine leaves no node enabled and no token good, so the history holds
\* again for whatever copy was put back.
LEMMA QuarantineKeeps ==
    ASSUME IInv, QuarantineRestore
    PROVE  IInv' /\ Advances
  <1>1. /\ QuarantineOK(db) /\ db' = Quarantined(db) /\ restored' = FALSE
        /\ gone' = gone \cup Enabled(db)
        /\ UNCHANGED <<now, proc, login, backup, sent, drawn, via>>
    BY DEF QuarantineRestore
  <1>2. /\ DBInv(db') /\ Follows(db, db') /\ Enabled(db') = {}
        /\ \A k \in Tokens : db'.tokens[k].state # "pending"
    BY <1>1, Given, QuarantinedKeeps
  <1>3. /\ Settled(db, db') /\ Shrinks(db, db') /\ Unsigned(db, db')
        /\ Pending(db') = {}
    BY <1>2 DEF Follows, Pending
  <1>4. Retires(db, db') /\ (Rollback = 0 => Resendable(db', now))
    BY <1>2, <1>3, ResendFollows DEF Unsigned, Retires, DBInv, Rows, Trusted, IInv
  <1>5. /\ proc' \in Keys \cup {NoKey, Down}
        /\ login' \in [Clients -> Login] /\ LoginsKnown' /\ drawn \subseteq Tokens
    BY <1>1 DEF IInv, TypeOK, LoginsKnown
  <1>6. gone \subseteq gone' /\ gone' \ gone \subseteq Met(db) \ Enabled(db')
    BY <1>1, <1>2 DEF Met, Enabled
  <1> QED
    BY <1>1, <1>2, <1>3, <1>4, <1>5, <1>6, Step

\* All commands of localctl.
LEMMA OperatorKeeps ==
    ASSUME IInv, Operator
    PROVE  IInv' /\ Advances
  <1>1. DBInv(db) /\ now \in Nat
    BY Given
  <1>2. CASE LocalRead
    BY <1>1, <1>2, EventKeeps, LocalStep DEF LocalRead, Local
  <1>3. ASSUME NEW k \in Tokens, NEW ttl \in TTLs, LocalToken(k, ttl)
        PROVE  IInv' /\ Advances
    <2>1. /\ CanAppend(db, 0) /\ db' = IssueToken(db, k, ttl, now) /\ Draw(k)
          /\ UNCHANGED <<now, proc, login, backup, restored>>
      BY <1>3 DEF LocalToken, Commit
    <2>2. /\ DBInv(db') /\ Settled(db, db') /\ Unsigned(db, db') /\ Shrinks(db, db')
          /\ \A l \in Tokens \ {k} :
                db'.tokens[l].state = "pending" => db.tokens[l].state = "pending"
      BY <1>1, <2>1, IssueKeeps
    <2> QED
      BY <2>1, <2>2, IssueStep
  <1>4. ASSUME NEW r \in Reqs, NEW n \in Nodes, NEW ttl \in TTLs, LocalSubmit(r, n, ttl)
        PROVE  IInv' /\ Advances
    <2>1. EnqueueOK(db, r, n, ttl, now) /\ Quiet(Enqueue(db, r, n, ttl, now))
      BY <1>4 DEF LocalSubmit, Local
    <2> QED
      BY <1>1, <2>1, EnqueueKeeps, QuietStep
  <1>5. ASSUME NEW n \in Nodes, LocalDisable(n) PROVE IInv' /\ Advances
    <2>1. /\ DisableOK(db, n) /\ db' = Disable(db, n) /\ gone' = gone \cup {n}
          /\ UNCHANGED <<now, proc, login, backup, restored, sent, drawn, via>>
      BY <1>5 DEF LocalDisable, Commit
    <2>2. DBInv(db') /\ Follows(db, db') /\ n \notin Enabled(db')
      BY <1>1, <2>1, DisableKeeps
    <2>3. n \in Met(db)
      BY <2>1 DEF DisableOK, Met
    <2> QED
      BY <2>1, <2>2, <2>3, DisableStep
  <1>6. ASSUME NEW paused \in BOOLEAN, LocalPause(paused) PROVE IInv' /\ Advances
    <2>1. PauseOK(db, paused, now) /\ Quiet(Pause(db, paused))
      BY <1>6 DEF LocalPause, Local
    <2> QED
      BY <1>1, <2>1, PauseKeeps, QuietStep
  <1>7. CASE LocalCancelQueued
    <2>1. Quiet(CancelQueued(db))
      BY <1>7 DEF LocalCancelQueued, Local
    <2> QED
      BY <1>1, <2>1, CancelQueuedKeeps, QuietStep
  <1>8. ASSUME NEW u \in Users, NEW role \in Roles, LocalCreateUser(u, role)
        PROVE  IInv' /\ Advances
    <2>1. CreateUserOK(db, u, role) /\ Quiet(CreateUser(db, u, role))
      BY <1>8 DEF LocalCreateUser, Local
    <2> QED
      BY <1>1, <2>1, CreateUserKeeps, QuietStep
  <1>9. ASSUME NEW u \in Users, NEW action \in {"password", "role", "disable", "revoke"},
               NEW role \in Roles, LocalChangeUser(u, action, role)
        PROVE  IInv' /\ Advances
    <2>1. ChangeUserOK(db, u, action) /\ Quiet(ChangeUser(db, u, action, role))
      BY <1>9 DEF LocalChangeUser, Local
    <2> QED
      BY <1>1, <2>1, ChangeUserKeeps, QuietStep
  <1>10. CASE LocalRevokeAll
    <2>1. RevokeAllSessionsOK(db) /\ Quiet(RevokeAllSessions(db))
      BY <1>10 DEF LocalRevokeAll, Local
    <2> QED
      BY <1>1, <2>1, RevokeAllSessionsKeeps, QuietStep
  <1> QED
    BY <1>2, <1>3, <1>4, <1>5, <1>6, <1>7, <1>8, <1>9, <1>10,
       LocalInstallKeeps, LocalSwitchKeeps, QuarantineKeeps
    DEF Operator

-----------------------------------------------------------------------------
(* The invariant.                                                          *)

\* A new directory.
LEMMA EmptyInv == DBInv(EmptyDB)
  <1>1. /\ EmptyDB.nodes = [n \in Nodes |-> NoNode]
        /\ EmptyDB.tasks = [r \in Reqs |-> NoTask]
        /\ EmptyDB.sessions = [s \in Sessions |-> NoSession]
        /\ EmptyDB.trust = NoTrust
        /\ EmptyDB.seq = MigrationEvents /\ EmptyDB.reserved = 0
    BY DEF EmptyDB
  <1>2. EmptyDB \in DB
    <2>1. NoNode \in NodeRow /\ NoTokenRow \in TokenRow
      BY DEF NoNode, NodeRow, NoTokenRow, TokenRow
    <2>2. NoTask \in TaskRow
      BY DEF NoTask, TaskRow
    <2>3. NoAccount \in UserRow /\ NoSession \in SessionRow /\ NoBucket \in LimitRow
      BY DEF NoAccount, UserRow, Roles, NoSession, SessionRow, NoBucket, LimitRow
    <2>4. MigrationEvents \in Nat
      BY ServerAssumption, CapacityAssumption
    <2> QED
      BY <2>1, <2>2, <2>3, <2>4 DEF EmptyDB, DB
  <1>3. /\ Enabled(EmptyDB) = {} /\ Queued(EmptyDB) = {}
        /\ Dispatched(EmptyDB) = {} /\ Live(EmptyDB) = {}
    BY <1>1 DEF Enabled, Queued, Dispatched, Live, NoNode, NoTask, NoSession
  <1>4. Rows(EmptyDB)
    BY <1>1, <1>2, <1>3 DEF Rows, Staffed, Current, Enveloped, Trusted
  <1>5. Opens(EmptyDB)
    <2>1. Expected(EmptyDB) = 0
      BY <1>3, FS_EmptySet DEF Expected
    <2> QED
      BY <1>1, <2>1, ServerAssumption, CapacityAssumption DEF Opens, Verify, Used
  <1> QED
    BY <1>4, <1>5 DEF DBInv

\* The initial state.
LEMMA InitIInv == Init => IInv
  <1> SUFFICES ASSUME Init PROVE IInv
    OBVIOUS
  <1>1. db = EmptyDB /\ backup = EmptyDB
    BY DEF Init
  <1>2. DBInv(db) /\ DBInv(backup) /\ db \in DB /\ backup \in DB
    BY <1>1, EmptyInv DEF DBInv, Rows
  <1>3. NoLogin \in Login /\ NoLogin.stage = "idle"
    BY DEF NoLogin, Login, UserRow, NoAccount, Roles
  <1>4. TypeOK
    <2>1. now \in 1..MaxTime
      BY ServerAssumption DEF Init
    <2>2. proc \in Keys \cup {NoKey, Down} /\ restored \in BOOLEAN
      BY DEF Init
    <2>3. login \in [Clients -> Login]
      BY <1>3 DEF Init
    <2>4. /\ sent \subseteq [node : Nodes, req : Reqs, env : Envelope]
          /\ drawn \subseteq Tokens /\ gone \subseteq Nodes
      BY DEF Init
    <2>5. via \in [Nodes -> Tokens \cup {NoToken}]
      BY DEF Init
    <2> QED
      BY <1>2, <2>1, <2>2, <2>3, <2>4, <2>5 DEF TypeOK
  <1>5. LoginsKnown
    BY <1>3 DEF Init, LoginsKnown
  <1>6. SentKept /\ SingleEnvelope /\ TokenOnce
    BY DEF Init, SentKept, SingleEnvelope, TokenOnce
  <1>7. Pending(EmptyDB) = {} /\ Met(EmptyDB) = {} /\ Dispatched(EmptyDB) = {}
    BY DEF Pending, Met, Dispatched, EmptyDB, NoTokenRow, NoNode, NoTask
  <1>8. TokensSpent /\ NodesMet
    BY <1>1, <1>7 DEF Init, TokensSpent, NodesMet
  <1>9. Resendable(db, now) /\ Resendable(backup, now)
    BY <1>1, <1>7 DEF Resendable
  <1>10. ~restored
    BY DEF Init
  <1> QED
    BY <1>2, <1>4, <1>5, <1>6, <1>8, <1>9, <1>10 DEF IInv

\* Every step keeps the invariant and undoes nothing that is final.
LEMMA NextIInv == IInv /\ [Next]_vars => IInv' /\ Advances
  <1> SUFFICES ASSUME IInv, [Next]_vars PROVE IInv' /\ Advances
    OBVIOUS
  <1>1. CASE Probes
    BY <1>1, EnrollKeeps, ProbeQuietKeeps, PollSignKeeps, PollResendKeeps DEF Probes
  <1>2. CASE UNCHANGED vars
    <2>1. /\ DBInv(db') /\ Follows(db, db')
          /\ UNCHANGED <<now, proc, backup, restored, history>> /\ login' = login
      BY <1>2, Given, Stays DEF vars
    <2>2. login' \in [Clients -> Login] /\ LoginsKnown'
      BY <2>1 DEF IInv, TypeOK, LoginsKnown
    <2> QED
      BY <2>1, <2>2, Ordinary
  <1> QED
    BY <1>1, <1>2, SetClockKeeps, StartKeeps, StopKeeps, BackupKeeps, LoginKeeps,
       ManageKeeps, OperatorKeeps
    DEF Next

\* The invariant holds throughout.
THEOREM Invariance == Spec => []IInv
  <1>1. IInv /\ [Next]_vars => IInv'
    BY NextIInv
  <1> QED
    BY InitIInv, <1>1, PTL DEF Spec

-----------------------------------------------------------------------------
(* The properties.                                                         *)

\* The rows have their types and the reserved audit slots are exactly what the
\* enabled nodes, the sessions and the open tasks are owed, so migrate never
\* finds "inconsistent server audit reservations".
THEOREM ReservationExactHolds == Spec => []ReservationExact
  <1>1. IInv => ReservationExact
    BY DEF IInv, DBInv, ReservationExact
  <1> QED
    BY <1>1, Invariance, PTL

\* However full the log: nodes can be disabled, dispatched tasks answered,
\* queued ones closed, sessions ended and accounts with sessions changed.
THEOREM ObligationsHold == Spec => []ObligationsPayable
  <1>1. IInv => ObligationsPayable
    <2> SUFFICES ASSUME IInv PROVE ObligationsPayable
      OBVIOUS
    <2>1. /\ DBInv(db) /\ db.reserved \in Nat /\ db.seq \in Nat
          /\ db.reserved = Expected(db) /\ db.seq + db.reserved <= Capacity
      BY DEF IInv, DBInv, Rows, DB, Opens, Verify, Used
    <2>2. \A n \in Enabled(db) : DisableOK(db, n)
      BY <2>1, DisablePayable
    <2>3. Dispatched(db) # {} => CanAppend(db, -1)
      <3> SUFFICES ASSUME Dispatched(db) # {} PROVE CanAppend(db, -1)
        OBVIOUS
      <3>1. Cardinality(Dispatched(db)) # 0
        BY Finite, FS_EmptySet
      <3>2. Expected(db) >= 1
        BY <3>1, Finite DEF Expected
      <3> QED
        BY <2>1, <3>2, CapacityAssumption DEF CanAppend
    <2>4. CanAppendEach(db, Cardinality(Queued(db)), -2)
      <3>1. "rejected" \in Statuses
        BY DEF Statuses
      <3> QED
        BY <2>1, <3>1, CloseQueuedKeeps
    <2>5. RevokeEachOK(db, Live(db))
      BY <2>1, RevokeEachKeeps
    <2>6. ASSUME NEW u \in Users, Owned(db, u) # {}
          PROVE  RevokeAllOK(db, Owned(db, u))
      <3>1. Owned(db, u) \subseteq Live(db)
        BY AccountSets DEF Owned, Live
      <3> QED
        BY <2>1, <2>6, <3>1, RevokeAllPayable
    <2> QED
      BY <2>2, <2>3, <2>4, <2>5, <2>6 DEF ObligationsPayable
  <1> QED
    BY <1>1, Invariance, PTL

\* A node that is not enabled has no open task.
THEOREM NoOrphanHolds == Spec => []NoOrphanedTask
  <1>1. IInv => NoOrphanedTask
    BY DEF IInv, DBInv, Rows, Staffed, Enabled, NoOrphanedTask
  <1> QED
    BY <1>1, Invariance, PTL

\* An assignment leaves the server under one signature, across restarts, signer
\* changes and quarantined restores.
THEOREM SingleEnvelopeHolds == Spec => []SingleEnvelope
  <1>1. IInv => SingleEnvelope
    BY DEF IInv
  <1> QED
    BY <1>1, Invariance, PTL

\* Used tokens stay used and disabled nodes disabled, across restores.
THEOREM QuarantineHolding == Spec => []QuarantineHolds
  <1>1. IInv => QuarantineHolds
    BY DEF IInv, NodesMet, QuarantineHolds, DisabledForGood, Up
  <1> QED
    BY <1>1, Invariance, PTL

\* Every session rests on the present authority of its account, however logins
\* and account changes interleave.
THEOREM SessionsCurrentHolds == Spec => []SessionsCurrent
  <1>1. IInv => SessionsCurrent
    BY DEF IInv, DBInv, Rows, Current, SessionsCurrent
  <1> QED
    BY <1>1, Invariance, PTL

\* Where the clock never goes back, the head of a node's queue can always be
\* handed out again, and the selected key is a trusted one.
THEOREM LiveEnvelopesHold ==
    ASSUME Rollback = 0
    PROVE  Spec => []LiveEnvelopesVerify
  <1>1. IInv => LiveEnvelopesVerify
    BY DEF IInv, DBInv, Rows, Trusted, Resendable, LiveEnvelopesVerify
  <1> QED
    BY <1>1, Invariance, PTL

\* A task that reached a final state keeps it, and its result, for ever, unless
\* a backup is put back.
THEOREM TerminalHolds == Spec => TerminalFinal
  <1>1. IInv /\ [Next]_vars =>
          [(restored' => restored) =>
             \A r \in Reqs : db.tasks[r].state \in Statuses =>
                db'.tasks[r] = db.tasks[r]]_vars
    BY NextIInv DEF Advances, Settled
  <1> QED
    BY <1>1, Invariance, PTL DEF Spec, TerminalFinal

\* A key that left the trust set never comes back to it, unless a backup is put
\* back.
THEOREM RetiredHolds == Spec => RetiredForGood
  <1>1. IInv /\ [Next]_vars =>
          [(restored' => restored) =>
             \A k \in Keys :
                /\ db.trust # NoTrust /\ k \in db.trust.retired
                => db'.trust # NoTrust /\ k \in db'.trust.retired
                   /\ k \notin Active(db'.trust)]_vars
    BY NextIInv DEF Advances, Retires
  <1> QED
    BY <1>1, Invariance, PTL DEF Spec, RetiredForGood

-----------------------------------------------------------------------------
(* The login budget.  Only the first transaction of a login touches the    *)
(* rows of admin_limits.                                                   *)

Left(d, e) == "limits" \in DOMAIN e /\ e.limits = d.limits

LEMMA LeftThrough ==
    ASSUME NEW d, NEW e, NEW f, Left(d, e), Left(e, f) PROVE Left(d, f)
  BY DEF Left

\* Events, and the rows of the queue and the nodes.
LEMMA QueueLeft ==
    ASSUME NEW d, "limits" \in DOMAIN d
    PROVE  /\ \A x : Left(d, Appended(d, x))
           /\ \A x, y : Left(d, AppendedEach(d, x, y))
           /\ \A R, x : Left(d, Closed(d, R, x))
           /\ \A x : Left(d, [d EXCEPT !.tasks = x])
           /\ \A r, x : Left(d, [d EXCEPT !.tasks[r] = x])
           /\ \A R : Left(d, Ended(d, R))
           /\ \A n, p, ready, t : Left(d, Heartbeat(d, n, p, ready, t))
           /\ \A t : Left(d, Swept(d, t)) /\ Left(d, AdminClock(d, t))
           /\ Left(d, Regenerated(d))
  BY DEF Left, Appended, AppendedEach, Closed, Ended, Heartbeat, Swept, AdminClock, Regenerated

LEMMA CloseLeft ==
    ASSUME NEW d, "limits" \in DOMAIN d
    PROVE  /\ \A n : Left(d, Cancel(d, n))
           /\ \A n, t : Left(d, Expire(d, n, t))
           /\ Left(d, CancelQueued(d))
           /\ \A R : Left(d, RevokeEach(d, R)) /\ Left(d, RevokeAll(d, R))
  BY DEF Left, Cancel, Expire, CancelQueued, RevokeEach, RevokeAll, Appended, AppendedEach,
         Closed, Ended

LEMMA RowsLeft ==
    ASSUME NEW d, "limits" \in DOMAIN d
    PROVE  /\ \A n : Left(d, Disable(d, n))
           /\ \A r, n, ttl, t : Left(d, Enqueue(d, r, n, ttl, t))
           /\ \A k, n : Left(d, Register(d, k, n))
           /\ \A k, ttl, t : Left(d, IssueToken(d, k, ttl, t))
           /\ \A r : Left(d, Sign(d, r))
           /\ \A r, v : Left(d, Submit(d, r, v))
           /\ \A k : Left(d, Configure(d, k)) /\ Left(d, Switch(d, k))
           /\ \A p : Left(d, Pause(d, p))
           /\ \A s : Left(d, Install(d, s))
  <1>1. \A n : Left(d, Disable(d, n))
    BY CloseLeft DEF Left, Disable, Appended
  <1>2. \A r, n, ttl, t : Left(d, Enqueue(d, r, n, ttl, t))
    BY CloseLeft DEF Left, Enqueue, Appended
  <1>3. /\ \A k, n : Left(d, Register(d, k, n))
        /\ \A r : Left(d, Sign(d, r))
        /\ \A r, v : Left(d, Submit(d, r, v))
    BY DEF Left, Register, Sign, Submit, Appended
  <1>4. \A k, ttl, t : Left(d, IssueToken(d, k, ttl, t))
    BY QueueLeft DEF Left, IssueToken, Appended
  <1>5. /\ \A k : Left(d, Configure(d, k)) /\ Left(d, Switch(d, k))
        /\ \A p : Left(d, Pause(d, p))
        /\ \A s : Left(d, Install(d, s))
    BY DEF Left, Configure, Switch, Pause, Install, Appended
  <1> QED
    BY <1>1, <1>2, <1>3, <1>4, <1>5

LEMMA AccountsLeft ==
    ASSUME NEW d, "limits" \in DOMAIN d
    PROVE  /\ \A s, t : Left(d, Touched(d, s, t))
           /\ \A u, role : Left(d, CreateUser(d, u, role))
           /\ \A u, action, role : Left(d, ChangeUser(d, u, action, role))
           /\ Left(d, RevokeAllSessions(d))
           /\ \A t : Left(d, Housekept(d, t))
           /\ Left(d, Quarantined(d))
  <1>1. /\ \A s, t : Left(d, Touched(d, s, t))
        /\ \A u, role : Left(d, CreateUser(d, u, role))
    BY DEF Left, Touched, CreateUser, Appended
  <1>2. /\ \A u, action, role : Left(d, ChangeUser(d, u, action, role))
        /\ Left(d, RevokeAllSessions(d))
    BY CloseLeft DEF Left, ChangeUser, RevokeAllSessions, Regenerated
  <1>3. \A t : Left(d, Housekept(d, t))
    <2> SUFFICES ASSUME NEW t PROVE Left(d, Housekept(d, t))
      OBVIOUS
    <2> DEFINE e == AdminClock(d, t)
    <2>1. Left(d, e) /\ "limits" \in DOMAIN e
      BY QueueLeft DEF Left
    <2> HIDE DEF e
    <2>2. Left(e, RevokeEach(e, Stale(e, t)))
      BY <2>1, CloseLeft
    <2> QED
      BY <2>1, <2>2, LeftThrough DEF Housekept, e
  <1>4. Left(d, Quarantined(d))
    <2> DEFINE e == Enabled(d)
               q == {r \in Queued(d) : d.tasks[r].node \in e}
               s == {r \in Dispatched(d) : d.tasks[r].node \in e}
               f == AppendedEach(Closed(Closed(d, q, "rejected"), s, "indeterminate"),
                                 Cardinality(q), -2)
               g == AppendedEach(f, Cardinality(s) + Cardinality(e), -1)
               h == RevokeAll(g, Live(d))
    <2>1. Left(d, f) /\ Left(d, g) /\ "limits" \in DOMAIN g
      BY DEF Left, AppendedEach, Closed
    <2> HIDE DEF g
    <2>2. Left(d, h) /\ "limits" \in DOMAIN h
      BY <2>1, CloseLeft, LeftThrough DEF Left
    <2> HIDE DEF h
    <2>3. Left(d, Regenerated(h))
      BY <2>2, QueueLeft, LeftThrough
    <2> QED
      BY <2>3 DEF Left, Quarantined, h, g
  <1> QED
    BY <1>1, <1>2, <1>3, <1>4

\* The database is there, with its limits.
LEMMA HasLimits ==
    ASSUME IInv
    PROVE  "limits" \in DOMAIN db /\ db.limits \in [Buckets -> LimitRow] /\ now \in 1 .. MaxTime
  <1>1. db \in DB /\ now \in 1 .. MaxTime
    BY DEF IInv, TypeOK
  <1> QED
    BY <1>1 DEF DB

\* Every step but the first transaction of a login leaves the limits alone.
LEMMA ProbesLeft ==
    ASSUME IInv, Probes PROVE db'.limits = db.limits
  <1>1. "limits" \in DOMAIN db
    BY HasLimits
  <1>2. ASSUME NEW n, NEW t PROVE "limits" \in DOMAIN Expire(db, n, t)
    BY <1>1, CloseLeft DEF Left
  <1>3. ASSUME NEW n, NEW r, PollSign(n, r) PROVE Left(db, db')
    <2>1. db' = Sign(Expire(db, n, now), r)
      BY <1>3 DEF PollSign, Commit
    <2> QED
      BY <1>1, <1>2, <2>1, CloseLeft, RowsLeft, LeftThrough
  <1>4. ASSUME NEW n, NEW k, Enroll(k, n) PROVE Left(db, db')
    BY <1>1, <1>4, RowsLeft DEF Enroll, Commit
  <1>5. ASSUME NEW n, NEW p, NEW ready, SaveHeartbeat(n, p, ready) PROVE Left(db, db')
    BY <1>1, <1>5, QueueLeft DEF SaveHeartbeat, Quiet, Commit
  <1>6. ASSUME NEW n, PollNothing(n) PROVE Left(db, db')
    BY <1>1, <1>6, CloseLeft DEF PollNothing, Quiet, Commit
  <1>7. ASSUME NEW n, NEW r, PollResend(n, r) PROVE Left(db, db')
    BY <1>1, <1>7, CloseLeft DEF PollResend, Commit
  <1>8. ASSUME NEW n, NEW r, NEW v, SubmitResult(n, r, v) PROVE Left(db, db')
    BY <1>1, <1>8, RowsLeft DEF SubmitResult, Quiet, Commit
  <1> QED
    BY <1>3, <1>4, <1>5, <1>6, <1>7, <1>8 DEF Probes, Left

LEMMA LoginEndsLeft ==
    ASSUME IInv, NEW c,
           \/ \E match : LoginFails(c, match)
           \/ LoginLimited(c)
           \/ \E s : LoginSucceeds(c, s)
           \/ LoginAborts(c)
    PROVE  db'.limits = db.limits
  <1> DEFINE d == AdminClock(db, now)
             e == RevokeEach(d, Stale(d, now))
  <1>1. Left(db, d) /\ "limits" \in DOMAIN d
    BY HasLimits, QueueLeft DEF Left
  <1>2. Left(d, e)
    BY <1>1, CloseLeft
  <1>3. Left(db, e) /\ "limits" \in DOMAIN e
    BY <1>1, <1>2, LeftThrough DEF Left
  <1> HIDE DEF d, e
  <1>4. ASSUME NEW match, LoginFails(c, match) PROVE db'.limits = db.limits
    BY <1>1, <1>4 DEF LoginFails, LoginEnd, d, Left, Appended
  <1>5. ASSUME LoginLimited(c) PROVE db'.limits = db.limits
    <2>1. db' = Appended(e, 0)
      BY <1>5 DEF LoginLimited, LoginEnd, e, d
    <2> QED
      BY <1>3, <2>1 DEF Left, Appended
  <1>6. ASSUME NEW s, LoginSucceeds(c, s) PROVE db'.limits = db.limits
    <2>1. db' = Appended([e EXCEPT !.sessions[s] =
                            NewSession(login[c].user, login[c].acct, now)], 1)
      BY <1>6 DEF LoginSucceeds, LoginEnd, e, d
    <2> QED
      BY <1>3, <2>1 DEF Left, Appended
  <1>7. ASSUME LoginAborts(c) PROVE db'.limits = db.limits
    BY <1>7 DEF LoginAborts, LoginEnd
  <1> QED
    BY <1>4, <1>5, <1>6, <1>7

LEMMA ManagementLeft ==
    ASSUME IInv, Management PROVE db'.limits = db.limits
  <1> DEFINE h == Housekept(db, now)
  <1>1. Left(db, h) /\ "limits" \in DOMAIN h
    BY HasLimits, AccountsLeft DEF Left
  <1> HIDE DEF h
  <1>2. ASSUME NEW s, NEW p, NEW d, ManageCommits(s, p, d), Left(h, d)
        PROVE  Left(db, db')
    <2>1. db' = Touched(d, s, now) /\ Left(db, d) /\ "limits" \in DOMAIN d
      BY <1>1, <1>2, LeftThrough DEF ManageCommits, Commit, Left
    <2> QED
      BY <2>1, AccountsLeft, LeftThrough
  <1>3. PICK s \in Sessions :
       \/ ManageUnauthorized(s)
       \/ ManageRejected(s)
       \/ ManageRead(s)
       \/ ManageLogout(s)
       \/ ManageRevoke(s)
       \/ \E r \in Reqs, n \in Nodes, ttl \in TTLs : ManageSubmit(s, r, n, ttl)
       \/ \E k \in Tokens, ttl \in TTLs : ManageToken(s, k, ttl)
       \/ \E n \in Nodes : ManageDisable(s, n)
    BY DEF Management
  <1>4. ManageUnauthorized(s) => Left(db, db')
    BY <1>1 DEF ManageUnauthorized, Quiet, Commit, h
  <1>5. ManageRejected(s) => Left(db, db')
    <2>1. ManageRejected(s) => db' = Appended(h, 0)
      BY DEF ManageRejected, Quiet, Commit, h
    <2> QED
      BY <1>1, <2>1, QueueLeft, LeftThrough
  <1>6. ManageRead(s) => Left(db, db')
    <2>1. ManageRead(s) => ManageCommits(s, FALSE, Appended(h, 0))
      BY DEF ManageRead, h
    <2>2. Left(h, Appended(h, 0))
      BY <1>1, QueueLeft
    <2> QED
      BY <1>2, <2>1, <2>2
  <1>7. ManageLogout(s) => Left(db, db')
    <2>1. ManageLogout(s) => ManageCommits(s, FALSE, RevokeEach(h, {s}))
      BY DEF ManageLogout, h
    <2>2. Left(h, RevokeEach(h, {s}))
      BY <1>1, CloseLeft
    <2> QED
      BY <1>2, <2>1, <2>2
  <1>8. ManageRevoke(s) => Left(db, db')
    <2> DEFINE u == db.sessions[s].user
               e == RevokeEach(h, Owned(h, u))
    <2>1. ManageRevoke(s) => ManageCommits(s, FALSE, [e EXCEPT !.users[u].gen = @ + 1])
      BY DEF ManageRevoke, h
    <2>2. Left(h, e) /\ "limits" \in DOMAIN e
      BY <1>1, CloseLeft DEF Left
    <2> HIDE DEF e, u
    <2>3. Left(h, [e EXCEPT !.users[u].gen = @ + 1])
      BY <2>2 DEF Left
    <2> QED
      BY <1>2, <2>1, <2>3
  <1>9. ASSUME NEW r, NEW n, NEW ttl, ManageSubmit(s, r, n, ttl) PROVE Left(db, db')
    <2>1. ManageCommits(s, TRUE, Enqueue(h, r, n, ttl, now))
      BY <1>9 DEF ManageSubmit, h
    <2>2. Left(h, Enqueue(h, r, n, ttl, now))
      BY <1>1, RowsLeft
    <2> QED
      BY <1>2, <2>1, <2>2
  <1>10. ASSUME NEW k, NEW ttl, ManageToken(s, k, ttl) PROVE Left(db, db')
    <2>1. ManageCommits(s, TRUE, IssueToken(h, k, ttl, now))
      BY <1>10 DEF ManageToken, h
    <2>2. Left(h, IssueToken(h, k, ttl, now))
      BY <1>1, RowsLeft
    <2> QED
      BY <1>2, <2>1, <2>2
  <1>11. ASSUME NEW n, ManageDisable(s, n) PROVE Left(db, db')
    <2>1. ManageCommits(s, TRUE, Disable(h, n))
      BY <1>11 DEF ManageDisable, h
    <2>2. Left(h, Disable(h, n))
      BY <1>1, RowsLeft
    <2> QED
      BY <1>2, <2>1, <2>2
  <1> QED
    BY <1>3, <1>4, <1>5, <1>6, <1>7, <1>8, <1>9, <1>10, <1>11 DEF Left

LEMMA OperatorLeft ==
    ASSUME IInv, Operator PROVE db'.limits = db.limits
  <1>1. "limits" \in DOMAIN db
    BY HasLimits
  <1>2. ASSUME NEW ok, NEW d, Local(ok, d), Left(db, d) PROVE Left(db, db')
    BY <1>2 DEF Local, Quiet, Commit
  <1>3. LocalRead => Left(db, db')
    <2>1. Left(db, Appended(db, 0))
      BY <1>1, QueueLeft
    <2> QED
      BY <1>2, <2>1 DEF LocalRead
  <1>4. ASSUME NEW k, NEW ttl, LocalToken(k, ttl) PROVE Left(db, db')
    BY <1>1, <1>4, RowsLeft DEF LocalToken, Commit
  <1>5. ASSUME NEW r, NEW n, NEW ttl, LocalSubmit(r, n, ttl) PROVE Left(db, db')
    <2>1. Left(db, Enqueue(db, r, n, ttl, now))
      BY <1>1, RowsLeft
    <2> QED
      BY <1>2, <1>5, <2>1 DEF LocalSubmit
  <1>6. ASSUME NEW n, LocalDisable(n) PROVE Left(db, db')
    BY <1>1, <1>6, RowsLeft DEF LocalDisable, Commit
  <1>7. ASSUME NEW p, LocalPause(p) PROVE Left(db, db')
    <2>1. Left(db, Pause(db, p))
      BY <1>1, RowsLeft
    <2> QED
      BY <1>2, <1>7, <2>1 DEF LocalPause
  <1>8. ASSUME NEW s, LocalInstall(s) PROVE Left(db, db')
    <2>1. Left(db, Install(db, s))
      BY <1>1, RowsLeft
    <2> QED
      BY <1>2, <1>8, <2>1 DEF LocalInstall
  <1>9. ASSUME NEW k, LocalSwitch(k) PROVE Left(db, db')
    <2>1. Left(db, Switch(db, k))
      BY <1>1, RowsLeft
    <2> QED
      BY <1>2, <1>9, <2>1 DEF LocalSwitch
  <1>10. LocalCancelQueued => Left(db, db')
    <2>1. Left(db, CancelQueued(db))
      BY <1>1, CloseLeft
    <2> QED
      BY <1>2, <2>1 DEF LocalCancelQueued
  <1>11. ASSUME NEW u, NEW role, LocalCreateUser(u, role) PROVE Left(db, db')
    <2>1. Left(db, CreateUser(db, u, role))
      BY <1>1, AccountsLeft
    <2> QED
      BY <1>2, <1>11, <2>1 DEF LocalCreateUser
  <1>12. ASSUME NEW u, NEW action, NEW role, LocalChangeUser(u, action, role)
         PROVE  Left(db, db')
    <2>1. Left(db, ChangeUser(db, u, action, role))
      BY <1>1, AccountsLeft
    <2> QED
      BY <1>2, <1>12, <2>1 DEF LocalChangeUser
  <1>13. LocalRevokeAll => Left(db, db')
    <2>1. Left(db, RevokeAllSessions(db))
      BY <1>1, AccountsLeft
    <2> QED
      BY <1>2, <2>1 DEF LocalRevokeAll
  <1>14. QuarantineRestore => Left(db, db')
    BY <1>1, AccountsLeft DEF QuarantineRestore
  <1> QED
    BY <1>3, <1>4, <1>5, <1>6, <1>7, <1>8, <1>9, <1>10, <1>11, <1>12, <1>13, <1>14
    DEF Operator, Left

\* A login is asked for, whether it may go on or not.
Asked(c, u, src, t) == LoginRefused(c, u, src, t) \/ LoginBegin(c, u, src, t)

LEMMA LimitsLeft ==
    ASSUME IInv, Next, ~Backups
    PROVE  \/ db'.limits = db.limits
           \/ \E c \in Clients, u \in Users, src \in Sources, t \in Readings :
                 Asked(c, u, src, t)
  <1>1. CASE Logins
    BY <1>1, LoginEndsLeft DEF Logins, Asked
  <1>2. CASE Start
    <2>1. db' = db \/ \E k : db' = Configure(db, k)
      BY <1>2 DEF Start
    <2> QED
      BY <2>1, HasLimits, RowsLeft DEF Left
  <1>3. CASE SetClock \/ Stop \/ TakeBackup \/ Restore
    BY <1>3 DEF SetClock, Stop, TakeBackup, Restore
  <1> QED
    BY <1>1, <1>2, <1>3, ProbesLeft, ManagementLeft, OperatorLeft DEF Next

\* Time goes on, or stands still.
LEMMA TimeGoesOn ==
    ASSUME IInv, Next, Rollback = 0
    PROVE  now <= now' /\ (now' # now => db' = db)
  <1>0. now \in Int
    BY HasLimits
  <1>1. CASE SetClock
    BY <1>0, <1>1 DEF SetClock
  <1>2. CASE Start \/ Stop \/ TakeBackup \/ Restore
    BY <1>0, <1>2 DEF Start, Stop, TakeBackup, Restore
  <1>3. CASE Probes
    <2>1. now' = now
      BY <1>3 DEF Probes, Enroll, SaveHeartbeat, PollNothing, PollSign, PollResend,
         SubmitResult, Quiet, Commit
    <2> QED
      BY <1>0, <2>1
  <1>4. CASE Logins
    <2>1. ASSUME NEW c, NEW u, NEW src, NEW t,
                 LoginRefused(c, u, src, t) \/ LoginBegin(c, u, src, t)
          PROVE  now' = now
      BY <2>1 DEF LoginRefused, LoginBegin, Quiet, Commit
    <2>2. ASSUME NEW c, \/ \E match \in BOOLEAN : LoginFails(c, match)
                        \/ LoginLimited(c)
                        \/ \E s \in Sessions : LoginSucceeds(c, s)
                        \/ LoginAborts(c)
          PROVE  now' = now
      BY <2>2 DEF LoginFails, LoginLimited, LoginSucceeds, LoginAborts, LoginEnd
    <2> QED
      BY <1>0, <1>4, <2>1, <2>2 DEF Logins
  <1>5. CASE Management
    <2>1. now' = now
      BY <1>5 DEF Management, ManageUnauthorized, ManageRejected, ManageRead, ManageLogout,
         ManageRevoke, ManageSubmit, ManageToken, ManageDisable, ManageCommits, Quiet, Commit
    <2> QED
      BY <1>0, <2>1
  <1>6. CASE Operator
    <2>1. now' = now
      BY <1>6 DEF Operator, LocalRead, LocalToken, LocalSubmit, LocalDisable, LocalPause,
         LocalInstall, LocalSwitch, LocalCancelQueued, LocalCreateUser, LocalChangeUser,
         LocalRevokeAll, QuarantineRestore, Local, Quiet, Commit
    <2> QED
      BY <1>0, <2>1
  <1> QED
    BY <1>1, <1>2, <1>3, <1>4, <1>5, <1>6 DEF Next

-----------------------------------------------------------------------------
(* The checks of one bucket, s, with limit m, at time t.                   *)

Times == Seq(1 .. MaxTime)

LEMMA LimitFacts ==
    /\ LoginWindow \in Nat /\ LoginWindow >= 1 /\ MaxTime \in Nat
    /\ MaxWait \in Nat /\ 3 * MaxWait <= LoginWindow
    /\ \A b \in Buckets : LimitOf(b) \in Nat /\ LimitOf(b) >= 1
  BY AccountLimits, ServerAssumption, WaitAssumption DEF LimitOf

LEMMA TimeFacts ==
    ASSUME NEW s \in Times
    PROVE  Len(s) \in Nat /\ \A i \in 1 .. Len(s) : s[i] \in Int
  <1>1. \A i \in 1 .. Len(s) : s[i] \in 1 .. MaxTime
    BY ElementOfSeq DEF Times
  <1> QED
    BY <1>1, LenProperties DEF Times

LEMMA BeforeMore ==
    ASSUME NEW s \in Times, NEW k \in Int, NEW u \in Int, NEW l \in Int, NEW v \in Int,
           k \in Nat, Before(s, k, u), k <= l, u <= v
    PROVE  Before(s, l, v)
  <1> DEFINE n == Len(s)
  <1>1. n \in Nat /\ \A i \in 1 .. n : s[i] \in Int
    BY TimeFacts
  <1>2. \A i \in 1 .. n - k : s[i] < u
    BY DEF Before
  <1> SUFFICES ASSUME NEW i \in 1 .. n - l PROVE s[i] < v
    BY DEF Before
  <1> HIDE DEF n
  <1>3. i \in 1 .. n - k /\ i \in 1 .. n
    BY <1>1
  <1>4. s[i] < u /\ s[i] \in Int
    BY <1>1, <1>2, <1>3
  <1> QED
    BY <1>4

LEMMA BeforeAppend ==
    ASSUME NEW s \in Times, NEW t \in 1 .. MaxTime, NEW k \in Nat, NEW u \in Int,
           Before(s, k, u)
    PROVE  /\ Append(s, t) \in Times
           /\ Before(Append(s, t), k + 1, u)
           /\ k = 0 /\ t < u => Before(Append(s, t), 0, u)
  <1> DEFINE n == Len(s)
             a == Append(s, t)
  <1>1. n \in Nat /\ \A i \in 1 .. n : s[i] \in Int
    BY TimeFacts
  <1>2. /\ a \in Times /\ Len(a) = n + 1 /\ a[n + 1] = t
        /\ \A i \in 1 .. n : a[i] = s[i]
    BY AppendProperties DEF Times
  <1>3. \A i \in 1 .. n - k : s[i] < u
    BY DEF Before
  <1> HIDE DEF n, a
  <1>4. Before(a, k + 1, u)
    <2> SUFFICES ASSUME NEW i \in 1 .. (n + 1) - (k + 1) PROVE a[i] < u
      BY <1>2 DEF Before
    <2>1. i \in 1 .. n - k /\ i \in 1 .. n
      BY <1>1
    <2> QED
      BY <1>2, <1>3, <2>1
  <1>5. ASSUME k = 0, t < u PROVE Before(a, 0, u)
    <2> SUFFICES ASSUME NEW i \in 1 .. (n + 1) - 0 PROVE a[i] < u
      BY <1>2 DEF Before
    <2>1. (i \in 1 .. n - k /\ i \in 1 .. n) \/ i = n + 1
      BY <1>1, <1>5
    <2> QED
      BY <1>2, <1>3, <1>5, <2>1
  <1> QED
    BY <1>2, <1>4, <1>5 DEF a

\* Time goes on.
LEMMA SpreadLater ==
    ASSUME NEW s \in Times, NEW row \in LimitRow, NEW m \in Nat, m >= 1,
           NEW t \in Int, NEW u \in Int, t <= u, Spread(s, row, m, t)
    PROVE  Spread(s, row, m, u)
  <1>1. /\ LoginWindow \in Int /\ MaxWait \in Int /\ row.started \in Int
        /\ t + 1 \in Int /\ u + 1 \in Int /\ t + 1 <= u + 1
    BY LimitFacts DEF LimitRow
  <1>2. Before(s, 0, t + 1) => Before(s, 0, u + 1)
    <2> DEFINE v == t + 1
               w == u + 1
    <2>1. v \in Int /\ w \in Int /\ v <= w
      BY <1>1
    <2> HIDE DEF v, w
    <2>2. Before(s, 0, v) => Before(s, 0, w)
      BY <2>1, BeforeMore
    <2> QED
      BY <2>2 DEF v, w
  <1>3. CASE row.count > 0
    BY <1>1, <1>2, <1>3 DEF Spread, RowSpread
  <1>4. CASE ~(row.count > 0)
    <2> DEFINE k == m - 1
               l == 2 * m - 1
               v == t - LoginWindow + MaxWait + 1
               w == u - LoginWindow + MaxWait + 1
               x == t - 2 * LoginWindow + 2 * MaxWait + 1
               y == u - 2 * LoginWindow + 2 * MaxWait + 1
    <2>1. /\ k \in Nat /\ k \in Int /\ l \in Nat /\ l \in Int /\ k <= k /\ l <= l
          /\ v \in Int /\ w \in Int /\ x \in Int /\ y \in Int /\ v <= w /\ x <= y
      BY <1>1
    <2>2. Before(s, 0, t + 1) /\ Before(s, k, v) /\ Before(s, l, x)
      BY <1>4 DEF Spread, PrunedSpread
    <2> HIDE DEF k, l, v, w, x, y
    <2>3. Before(s, k, w) /\ Before(s, l, y)
      BY <2>1, <2>2, BeforeMore
    <2> QED
      BY <1>2, <1>4, <2>2, <2>3 DEF Spread, PrunedSpread, k, l, w, y
  <1> QED
    BY <1>3, <1>4

\* A row that has run out goes away.
LEMMA SpreadPruned ==
    ASSUME NEW s \in Times, NEW row \in LimitRow, NEW m \in Nat, m >= 1,
           NEW t \in Int, Spread(s, row, m, t), row.started <= t - LoginWindow
    PROVE  Spread(s, NoBucket, m, t)
  <1>0. NoBucket.count = 0 /\ LoginWindow \in Nat /\ MaxWait \in Nat
    BY LimitFacts DEF NoBucket
  <1>1. CASE row.count > 0
    <2> DEFINE a == row.started
               p == Passed(row, m)
               j == p - 1
               k == p + (m - 1)
               g == m - 1
               h == 2 * m - 1
               v == a + MaxWait + 1
               w == t - LoginWindow + MaxWait + 1
               x == a - LoginWindow + 2 * MaxWait + 1
               y == t - 2 * LoginWindow + 2 * MaxWait + 1
    <2>1. a \in Int /\ p \in Nat /\ p >= 1 /\ p <= m /\ a <= t - LoginWindow
      BY <1>1 DEF LimitRow, Passed
    <2>2. Before(s, 0, t + 1) /\ Before(s, j, v) /\ Before(s, k, x)
      BY <1>1 DEF Spread, RowSpread
    <2>3. /\ j \in Nat /\ j \in Int /\ k \in Nat /\ k \in Int /\ g \in Int /\ h \in Int
          /\ j <= g /\ k <= h
      <3> HIDE DEF p
      <3> QED
        BY <2>1
    <2>4. v \in Int /\ w \in Int /\ x \in Int /\ y \in Int /\ v <= w /\ x <= y
      <3> HIDE DEF a
      <3> QED
        BY <1>0, <2>1
    <2> HIDE DEF a, p, j, k, g, h, v, w, x, y
    <2>5. Before(s, g, w)
      BY <2>2, <2>3, <2>4, BeforeMore
    <2>6. Before(s, h, y)
      BY <2>2, <2>3, <2>4, BeforeMore
    <2> QED
      BY <1>0, <2>2, <2>5, <2>6 DEF Spread, PrunedSpread, g, h, w, y
  <1>2. CASE ~(row.count > 0)
    BY <1>0, <1>2 DEF Spread
  <1> QED
    BY <1>1, <1>2

\* What came before the checks s of a row that started at a and has let k pass.
Since(s, k, a, m) ==
    /\ Before(s, k - 1, a + MaxWait + 1)
    /\ Before(s, k + (m - 1), a - LoginWindow + 2 * MaxWait + 1)
    /\ Before(s, k + (2 * m - 1), a - 2 * LoginWindow + 3 * MaxWait + 1)

LEMMA RowSince ==
    ASSUME NEW s, NEW row \in LimitRow, NEW m \in Nat, NEW t, row.count > 0
    PROVE  Spread(s, row, m, t) <=> /\ row.started <= t /\ Before(s, 0, t + 1)
                                    /\ Since(s, Passed(row, m), row.started, m)
  BY DEF Spread, RowSpread, Since

\* A row that has let one more pass, whether the check is there or not.
LEMMA SinceGrows ==
    ASSUME NEW s \in Times, NEW a \in Int, NEW m \in Nat, m >= 1, NEW k \in Nat, k >= 1,
           NEW t \in 1 .. MaxTime, Since(s, k, a, m)
    PROVE  Since(s, k + 1, a, m) /\ Since(Append(s, t), k + 1, a, m)
  <1> DEFINE S == Append(s, t)
             v == a + MaxWait + 1
             x == a - LoginWindow + 2 * MaxWait + 1
             y == a - 2 * LoginWindow + 3 * MaxWait + 1
             j == k - 1
             g == k + (m - 1)
             h == k + (2 * m - 1)
  <1>1. /\ v \in Int /\ x \in Int /\ y \in Int /\ v <= v /\ x <= x /\ y <= y
    BY LimitFacts
  <1>2. /\ j \in Nat /\ g \in Nat /\ h \in Nat /\ j \in Int /\ g \in Int /\ h \in Int
        /\ j + 1 \in Int /\ g + 1 \in Int /\ h + 1 \in Int
        /\ j <= j + 1 /\ g <= g + 1 /\ h <= h + 1
    OBVIOUS
  <1>3. Before(s, j, v) /\ Before(s, g, x) /\ Before(s, h, y)
    BY DEF Since
  <1>4. /\ j + 1 = (k + 1) - 1 /\ g + 1 = (k + 1) + (m - 1)
        /\ h + 1 = (k + 1) + (2 * m - 1)
    OBVIOUS
  <1> HIDE DEF S, v, x, y, j, g, h
  <1>5. Before(s, j + 1, v) /\ Before(S, j + 1, v)
    BY <1>1, <1>2, <1>3, BeforeMore, BeforeAppend DEF S
  <1>6. Before(s, g + 1, x) /\ Before(S, g + 1, x)
    BY <1>1, <1>2, <1>3, BeforeMore, BeforeAppend DEF S
  <1>7. Before(s, h + 1, y) /\ Before(S, h + 1, y)
    BY <1>1, <1>2, <1>3, BeforeMore, BeforeAppend DEF S
  <1> QED
    BY <1>4, <1>5, <1>6, <1>7 DEF Since, S, v, x, y

\* A new row, which started at a, not longer than the wait before t, without and
\* with its first check.
LEMMA SinceNew ==
    ASSUME NEW s \in Times, NEW m \in Nat, m >= 1, NEW t \in 1 .. MaxTime, NEW a \in Int,
           t <= a + MaxWait, PrunedSpread(s, m, t)
    PROVE  Since(s, 1, a, m) /\ Since(Append(s, t), 1, a, m)
  <1> DEFINE S == Append(s, t)
             v == a + MaxWait + 1
             w == t - LoginWindow + MaxWait + 1
             x == a - LoginWindow + 2 * MaxWait + 1
             y == t - 2 * LoginWindow + 2 * MaxWait + 1
             z == a - 2 * LoginWindow + 3 * MaxWait + 1
             t1 == t + 1
             g == m - 1
             h == 2 * m - 1
  <1>1. /\ v \in Int /\ w \in Int /\ x \in Int /\ y \in Int /\ z \in Int /\ t1 \in Int
        /\ w <= x /\ y <= z /\ t1 <= v /\ t < v
    BY LimitFacts
  <1>2. /\ g \in Nat /\ h \in Nat /\ g \in Int /\ h \in Int /\ 0 \in Nat /\ 0 \in Int
        /\ g + 1 \in Int /\ h + 1 \in Int /\ g <= g + 1 /\ h <= h + 1 /\ 0 <= 0
        /\ g <= g /\ h <= h
    OBVIOUS
  <1>3. Before(s, 0, t1) /\ Before(s, g, w) /\ Before(s, h, y)
    BY DEF PrunedSpread
  <1>4. g + 1 = 1 + (m - 1) /\ h + 1 = 1 + (2 * m - 1) /\ 1 - 1 = 0
    OBVIOUS
  <1> HIDE DEF S, v, w, x, y, z, t1, g, h
  <1>5. Before(s, 0, v)
    BY <1>1, <1>2, <1>3, BeforeMore
  <1>6. Before(s, g, x) /\ Before(s, g + 1, x)
    BY <1>1, <1>2, <1>3, BeforeMore
  <1>7. Before(s, h, z) /\ Before(s, h + 1, z)
    BY <1>1, <1>2, <1>3, BeforeMore
  <1>8. Before(S, 0, v)
    BY <1>1, <1>2, <1>5, BeforeAppend DEF S
  <1>9. Before(S, g + 1, x)
    BY <1>1, <1>2, <1>6, BeforeAppend DEF S
  <1>10. Before(S, h + 1, z)
    BY <1>1, <1>2, <1>7, BeforeAppend DEF S
  <1> QED
    BY <1>4, <1>5, <1>6, <1>7, <1>8, <1>9, <1>10 DEF Since, S, v, x, z

\* The row q that an attempt which read the time a makes of the row p.
AskedRow(p, m, a) ==
    [started |-> IF p.count = 0 THEN a ELSE p.started,
     count |-> IF p.count > m THEN m + 1 ELSE p.count + 1]

LEMMA SpreadAsked ==
    ASSUME NEW s \in Times, NEW p \in LimitRow, NEW m \in Nat, m >= 1, NEW t \in 1 .. MaxTime,
           NEW a \in Int, a <= t, t <= a + MaxWait, Spread(s, p, m, t)
    PROVE  /\ Spread(s, AskedRow(p, m, a), m, t)
           /\ p.count < m => Spread(Append(s, t), AskedRow(p, m, a), m, t)
  <1> DEFINE q == AskedRow(p, m, a)
             S == Append(s, t)
  <1>1. p.started \in Int /\ p.count \in Nat /\ t \in Int
    BY DEF LimitRow
  <1>2. q \in LimitRow /\ q.count > 0 /\ q.started = (IF p.count = 0 THEN a ELSE p.started)
    BY <1>1 DEF LimitRow, AskedRow
  <1>3. Before(s, 0, t + 1) /\ Before(S, 0, t + 1)
    <2> DEFINE t1 == t + 1
    <2>1. Before(s, 0, t1)
      BY DEF Spread, RowSpread, PrunedSpread
    <2>2. t1 \in Int /\ t < t1
      OBVIOUS
    <2> HIDE DEF t1
    <2>3. Before(S, 0, t1)
      BY <2>1, <2>2, BeforeAppend
    <2> QED
      BY <2>1, <2>3 DEF t1
  <1>4. CASE p.count = 0
    <2>1. PrunedSpread(s, m, t)
      BY <1>4 DEF Spread
    <2>2. q.started = a /\ Passed(q, m) = 1
      BY <1>2, <1>4 DEF AskedRow, Passed
    <2>3. Since(s, 1, a, m) /\ Since(S, 1, a, m)
      BY <2>1, SinceNew
    <2> HIDE DEF q, S
    <2> QED
      BY <1>1, <1>2, <1>3, <2>2, <2>3, RowSince DEF q, S
  <1>5. CASE p.count > 0
    <2> DEFINE k == Passed(p, m)
               l == Passed(q, m)
               b == p.started
    <2>1. /\ k \in Nat /\ k >= 1 /\ (l = k \/ l = k + 1)
          /\ p.count < m => l = k + 1
      BY <1>1, <1>5 DEF Passed, AskedRow
    <2>2. b <= t /\ b \in Int /\ Since(s, k, b, m)
      BY <1>1, <1>5, RowSince
    <2>3. q.started = b
      BY <1>1, <1>2, <1>5
    <2> HIDE DEF q, S, k, l, b
    <2>4. Since(s, k + 1, b, m) /\ Since(S, k + 1, b, m)
      BY <2>1, <2>2, SinceGrows DEF S
    <2>5. Spread(s, q, m, t)
      BY <1>2, <1>3, <2>1, <2>2, <2>3, <2>4, RowSince DEF l
    <2>6. p.count < m => Spread(S, q, m, t)
      BY <1>2, <1>3, <2>1, <2>2, <2>3, <2>4, RowSince DEF l
    <2> QED
      BY <2>5, <2>6 DEF q, S
  <1> QED
    BY <1>1, <1>4, <1>5

\* All but k checks are a window old: at most k are recent.
LEMMA TailCounts ==
    ASSUME NEW s \in Times, NEW k \in Nat, NEW t \in Int, Before(s, k, t - LoginWindow + 1)
    PROVE  Cardinality({i \in 1 .. Len(s) : t - s[i] < LoginWindow}) <= k
  <1> DEFINE n == Len(s)
             R == {i \in 1 .. n : t - s[i] < LoginWindow}
             lo == IF n - k + 1 > 1 THEN n - k + 1 ELSE 1
  <1>1. n \in Nat /\ \A i \in 1 .. n : s[i] \in Int
    BY TimeFacts
  <1>2. \A i \in 1 .. n - k : s[i] < t - LoginWindow + 1
    BY DEF Before
  <1> HIDE DEF n
  <1>3. R \subseteq lo .. n
    <2> SUFFICES ASSUME NEW i \in R PROVE i \in lo .. n
      OBVIOUS
    <2>1. i \in 1 .. n /\ t - s[i] < LoginWindow /\ s[i] \in Int
      BY <1>1
    <2>2. ~(s[i] < t - LoginWindow + 1)
      BY <2>1, LimitFacts
    <2>3. ~(i \in 1 .. n - k)
      BY <1>2, <2>2
    <2> QED
      BY <1>1, <2>1, <2>3
  <1>4. lo \in Int /\ n \in Int /\ (lo > n \/ n - lo + 1 <= k)
    BY <1>1
  <1> HIDE DEF lo
  <1>5. IsFiniteSet(lo .. n) /\ Cardinality(lo .. n) = IF lo > n THEN 0 ELSE n - lo + 1
    BY <1>4, FS_Interval
  <1>6. Cardinality(lo .. n) <= k
    BY <1>4, <1>5
  <1>7. IsFiniteSet(R) /\ Cardinality(R) <= Cardinality(lo .. n)
    BY <1>3, <1>5, FS_Subset
  <1>8. Cardinality(R) \in Nat /\ Cardinality(lo .. n) \in Nat
    BY <1>5, <1>7, FS_CardinalityType
  <1>9. Cardinality(R) <= k
    <2> HIDE DEF R
    <2> QED
      BY <1>6, <1>7, <1>8
  <1> QED
    BY <1>9 DEF n

LEMMA SpreadCounts ==
    ASSUME NEW s \in Times, NEW row \in LimitRow, NEW m \in Nat, m >= 1, NEW t \in Int,
           Spread(s, row, m, t)
    PROVE  Cardinality({i \in 1 .. Len(s) : t - s[i] < LoginWindow}) <= 3 * m - 1
  <1> DEFINE w == t - LoginWindow + 1
             z == 3 * m - 1
  <1>1. w \in Int /\ z \in Nat /\ z \in Int
    BY LimitFacts
  <1>2. Before(s, z, w)
    <2>1. CASE row.count > 0
      <3> DEFINE p == Passed(row, m)
                 a == row.started
                 k == p + (2 * m - 1)
                 v == a - 2 * LoginWindow + 3 * MaxWait + 1
      <3>1. a \in Int /\ p \in Nat /\ p <= m
        BY DEF LimitRow, Passed
      <3>2. a <= t /\ Before(s, k, v)
        BY <2>1 DEF Spread, RowSpread
      <3>3. k \in Nat /\ k \in Int /\ k <= z
        <4> HIDE DEF p
        <4> QED
          BY <3>1
      <3>4. v \in Int /\ v <= w
        <4> HIDE DEF a
        <4> QED
          BY <3>1, <3>2, LimitFacts
      <3> HIDE DEF a, p, k, v, w, z
      <3> QED
        BY <1>1, <3>2, <3>3, <3>4, BeforeMore
    <2>2. CASE ~(row.count > 0)
      <3> DEFINE k == 2 * m - 1
                 v == t - 2 * LoginWindow + 2 * MaxWait + 1
      <3>1. k \in Nat /\ k \in Int /\ k <= z
        OBVIOUS
      <3>2. v \in Int /\ v <= w
        BY LimitFacts
      <3>3. Before(s, k, v)
        BY <2>2 DEF Spread, PrunedSpread
      <3> HIDE DEF k, v, w, z
      <3> QED
        BY <1>1, <3>1, <3>2, <3>3, BeforeMore
    <2> QED
      BY <2>1, <2>2
  <1> HIDE DEF z
  <1>3. Cardinality({i \in 1 .. Len(s) : t - s[i] < LoginWindow}) <= z
    BY <1>1, <1>2, TailCounts
  <1> QED
    BY <1>3 DEF z

\* What the first transaction of a login that read the time t finds in bucket b.
Found(b, t) == IF db.limits[b].started <= t - LoginWindow THEN NoBucket ELSE db.limits[b]

LEMMA AskedRows ==
    ASSUME IInv, NEW c, NEW u \in Users, NEW src \in Sources, NEW t, Asked(c, u, src, t),
           NEW b \in Buckets
    PROVE  /\ db'.limits[b] = IF b \in {"global", u, src}
                              THEN AskedRow(Found(b, t), LimitOf(b), t) ELSE Found(b, t)
           /\ LoginBegin(c, u, src, t) /\ b \in {"global", u, src} =>
                 Found(b, t).count < LimitOf(b)
           /\ now' = now
  <1> DEFINE d == Pruned(AdminClock(db, t), t)
             e == Counted(d, u, src, t)
  <1>1. AdminClock(db, t).limits = db.limits /\ "limits" \in DOMAIN AdminClock(db, t)
    BY HasLimits, QueueLeft DEF Left
  <1>2. d.limits[b] = Found(b, t) /\ "limits" \in DOMAIN d
    BY <1>1 DEF Pruned, Found
  <1> HIDE DEF d
  <1>3. /\ e.limits[b] = IF b \in {"global", u, src}
                         THEN AskedRow(Found(b, t), LimitOf(b), t) ELSE Found(b, t)
        /\ "limits" \in DOMAIN e
    BY <1>2 DEF Counted, AskedRow
  <1> HIDE DEF e
  <1>4. db' = e \/ db' = Appended(e, 0)
    BY DEF Asked, LoginRefused, LoginBegin, Quiet, Commit, d, e
  <1>5. db'.limits = e.limits
    BY <1>3, <1>4, QueueLeft DEF Left
  <1>6. LoginBegin(c, u, src, t) /\ b \in {"global", u, src} => Found(b, t).count < LimitOf(b)
    <2>1. LoginBegin(c, u, src, t) => Admitted(d, u, src)
      BY DEF LoginBegin, d
    <2> QED
      BY <1>2, <2>1 DEF Admitted
  <1>7. now' = now
    BY DEF Asked, LoginRefused, LoginBegin, Quiet, Commit
  <1> QED
    BY <1>3, <1>5, <1>6, <1>7

LEMMA FoundSpread ==
    ASSUME IInv, TriesInv, NEW b \in Buckets, NEW t \in Readings, Rollback = 0
    PROVE  Found(b, t) \in LimitRow /\ Spread(tries[b], Found(b, t), LimitOf(b), now)
  <1>1. /\ db.limits[b] \in LimitRow /\ now \in Int /\ tries[b] \in Times
        /\ Spread(tries[b], db.limits[b], LimitOf(b), now)
    BY HasLimits DEF TriesInv, Times
  <1>2. NoBucket \in LimitRow
    BY DEF NoBucket, LimitRow
  <1>3. LimitOf(b) \in Nat /\ LimitOf(b) >= 1 /\ LoginWindow \in Nat
    BY LimitFacts
  <1>4. CASE db.limits[b].started <= t - LoginWindow
    <2>1. t \in Int /\ t <= now /\ db.limits[b].started \in Int
      BY <1>1 DEF Readings, LimitRow
    <2>2. db.limits[b].started <= now - LoginWindow
      BY <1>1, <1>3, <1>4, <2>1
    <2>3. Spread(tries[b], NoBucket, LimitOf(b), now)
      BY <1>1, <1>3, <2>2, SpreadPruned
    <2> QED
      BY <1>2, <1>4, <2>3 DEF Found
  <1>5. CASE ~(db.limits[b].started <= t - LoginWindow)
    BY <1>1, <1>5 DEF Found
  <1> QED
    BY <1>4, <1>5

\* A login is asked for; if it may go on, its check is one more.
LEMMA AskedKeeps ==
    ASSUME IInv, TriesInv, NEW c, NEW u \in Users, NEW src \in Sources, NEW t \in Readings,
           Rollback = 0, Asked(c, u, src, t),
           \/ tries' = tries
           \/ Check(c, u, src, t)
    PROVE  TriesInv'
  <1> DEFINE B == {"global", u, src}
  <1>1. /\ tries \in [Buckets -> Times] /\ now \in 1 .. MaxTime
        /\ \A b \in Buckets : tries[b] \in Times /\ LimitOf(b) \in Nat /\ LimitOf(b) >= 1
    BY HasLimits, LimitFacts DEF TriesInv, Times
  <1>2. \A b \in Buckets : Append(tries[b], now) \in Times
    BY <1>1, AppendProperties DEF Times
  <1>3. t \in Int /\ t <= now /\ now <= t + MaxWait
    BY <1>1, LimitFacts DEF Readings
  <1>4. ASSUME NEW b \in Buckets
        PROVE  /\ tries'[b] \in Times
               /\ Spread(tries'[b], db'.limits[b], LimitOf(b), now')
    <2> DEFINE row == AskedRow(Found(b, t), LimitOf(b), t)
    <2>1. Found(b, t) \in LimitRow /\ Spread(tries[b], Found(b, t), LimitOf(b), now)
      BY FoundSpread
    <2>2. /\ db'.limits[b] = IF b \in B THEN row ELSE Found(b, t)
          /\ LoginBegin(c, u, src, t) /\ b \in B => Found(b, t).count < LimitOf(b)
          /\ now' = now
      BY AskedRows
    <2>3. /\ Spread(tries[b], row, LimitOf(b), now)
          /\ Found(b, t).count < LimitOf(b) =>
                Spread(Append(tries[b], now), row, LimitOf(b), now)
      BY <1>1, <1>3, <2>1, SpreadAsked
    <2>4. \/ tries'[b] = tries[b]
          \/ /\ b \in B /\ LoginBegin(c, u, src, t) /\ tries'[b] = Append(tries[b], now)
      BY DEF Check
    <2> HIDE DEF row
    <2> QED
      BY <1>1, <1>2, <2>1, <2>2, <2>3, <2>4
  <1>5. tries' \in [Buckets -> Times]
    <2>1. tries' = tries \/ tries' = [b \in Buckets |-> IF b \in B
                                      THEN Append(tries[b], now) ELSE tries[b]]
      BY DEF Check
    <2> QED
      BY <1>1, <1>2, <2>1
  <1> QED
    BY <1>4, <1>5 DEF TriesInv, Times

LEMMA TriesStep ==
    ASSUME IInv, TriesInv, Rollback = 0, ~Backups, NextT PROVE TriesInv'
  <1>1. ASSUME NEW c \in Clients, NEW u \in Users, NEW src \in Sources, NEW t \in Readings,
               Check(c, u, src, t)
        PROVE  TriesInv'
    <2>1. Asked(c, u, src, t)
      BY <1>1 DEF Check, Asked
    <2> QED
      BY <1>1, <2>1, AskedKeeps
  <1>2. CASE NoCheck
    <2>1. Next /\ tries' = tries
      BY <1>2 DEF NoCheck
    <2>2. now <= now' /\ now' \in Int
      <3>1. IInv'
        BY <2>1, NextIInv
      <3>2. now' \in 1 .. MaxTime
        BY <3>1 DEF IInv, TypeOK
      <3> QED
        BY <2>1, <3>2, TimeGoesOn
    <2>3. CASE db'.limits = db.limits
      <3>1. ASSUME NEW b \in Buckets
            PROVE  Spread(tries[b], db.limits[b], LimitOf(b), now')
        <4>1. /\ tries[b] \in Times /\ db.limits[b] \in LimitRow /\ now \in Int
              /\ Spread(tries[b], db.limits[b], LimitOf(b), now)
              /\ LimitOf(b) \in Nat /\ LimitOf(b) >= 1
          BY HasLimits, LimitFacts DEF TriesInv, Times
        <4> QED
          BY <2>2, <4>1, SpreadLater
      <3> QED
        BY <2>1, <2>3, <3>1 DEF TriesInv
    <2>4. CASE \E c \in Clients, u \in Users, src \in Sources, t \in Readings :
                 Asked(c, u, src, t)
      BY <2>1, <2>4, AskedKeeps
    <2> QED
      BY <2>1, <2>3, <2>4, LimitsLeft
  <1> QED
    BY <1>1, <1>2 DEF NextT

LEMMA TriesInit ==
    ASSUME InitT PROVE TriesInv
  <1>1. /\ now = 1 /\ tries = [b \in Buckets |-> <<>>]
        /\ db.limits = [b \in Buckets |-> NoBucket]
    BY DEF InitT, Init, EmptyDB
  <1>2. <<>> \in Seq(1 .. MaxTime) /\ Len(<<>>) = 0
    OBVIOUS
  <1>3. \A k \in Nat : \A t : Before(<<>>, k, t)
    BY <1>2 DEF Before
  <1>4. ASSUME NEW b \in Buckets PROVE Spread(<<>>, NoBucket, LimitOf(b), 1)
    <2>1. LimitOf(b) - 1 \in Nat /\ 2 * LimitOf(b) - 1 \in Nat
      BY LimitFacts
    <2> QED
      BY <1>3, <2>1 DEF Spread, PrunedSpread, NoBucket
  <1> QED
    BY <1>1, <1>2, <1>4 DEF TriesInv

(***************************************************************************)
(* No period of the length of the login window sees three times a bucket's *)
(* limit of password checks, for any limits and any number of users,       *)
(* sources and concurrent logins, and across restarts of the server, while *)
(* the clock does not go back and no backup is put back (admitLogin).  The *)
(* clock is read before the wait for the transaction, and that wait is at  *)
(* most a third of the window (WaitAssumption).                            *)
(***************************************************************************)
THEOREM LoginBudgetHolds ==
    ASSUME Rollback = 0, ~Backups
    PROVE  SpecT => []LoginBudget
  <1>1. InitT => IInv /\ TriesInv
    BY InitIInv, TriesInit DEF InitT
  <1>2. IInv /\ TriesInv /\ [NextT]_<<vars, tries>> => IInv' /\ TriesInv'
    <2> SUFFICES ASSUME IInv, TriesInv, [NextT]_<<vars, tries>> PROVE IInv' /\ TriesInv'
      OBVIOUS
    <2>1. CASE NextT
      <3>1. Next
        BY <2>1 DEF NextT, Check, NoCheck, Next, Logins
      <3> QED
        BY <2>1, <3>1, NextIInv, TriesStep
    <2>2. CASE UNCHANGED <<vars, tries>>
      <3>1. UNCHANGED vars
        BY <2>2
      <3>2. IInv'
        BY <3>1, NextIInv
      <3>3. UNCHANGED <<now, db, tries>>
        BY <2>2 DEF vars
      <3> QED
        BY <3>2, <3>3 DEF TriesInv
    <2> QED
      BY <2>1, <2>2
  <1>3. IInv /\ TriesInv => LoginBudget
    <2> SUFFICES ASSUME IInv, TriesInv, NEW b \in Buckets
                 PROVE  Cardinality(Recent(b)) <= 3 * LimitOf(b) - 1
      BY DEF LoginBudget
    <2>1. /\ tries[b] \in Times /\ db.limits[b] \in LimitRow /\ now \in Int
          /\ Spread(tries[b], db.limits[b], LimitOf(b), now)
          /\ LimitOf(b) \in Nat /\ LimitOf(b) >= 1
      BY HasLimits, LimitFacts DEF TriesInv, Times
    <2> QED
      BY <2>1, SpreadCounts DEF Recent
  <1> QED
    BY <1>1, <1>2, <1>3, PTL DEF SpecT
=============================================================================
