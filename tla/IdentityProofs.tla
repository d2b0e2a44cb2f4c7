--------------------------- MODULE IdentityProofs ---------------------------
(***************************************************************************)
(* How a probe comes by its identity and its trust: enrollment and the     *)
(* change of the signing key, for all values of their constants.           *)
(***************************************************************************)
EXTENDS Parts, SequenceTheorems, FiniteSetTheorems, TLAPS

-----------------------------------------------------------------------------
(* A change of the signing key, in any order.  x4 are the files of         *)
(* signctl, x5 is the probe, and x6 are the keys that were retired.        *)

LEMMA RotationConstants ==
    /\ Pinned \in SignKeys /\ None \notin U!TrustSet
    /\ MaxLife \in Nat /\ MaxSkew \in Nat /\ U!Last \in Nat
    /\ MaxLife + MaxSkew < U!Last /\ Overlaps \subseteq Nat /\ Validity \subseteq Nat
  BY PartsAssumption DEF U!RotationAssumption, U!Last

\* Files come in, and the probe is left alone.
LEMMA FilesGrow ==
    ASSUME U!BindingInv, UNCHANGED <<x5, x6, x7>>, x1' \in 1 .. U!Last, x3' \in SignKeys,
           x4 \subseteq x4', x4' \subseteq U!TrustSet,
           \A f \in x4' : f \in x4 \/ U!ValidTrust(f)
    PROVE  U!BindingInv'
  <1> USE DEF U!BindingInv
  <1>1. U!Typed'
    BY DEF U!Typed, U!Last
  <1>2. U!WorkerBound' /\ U!OneEventEach' /\ U!DeadKept'
    BY DEF U!WorkerBound, U!OneEventEach, U!DeadKept
  <1>3. U!FilesSound'
    BY RotationConstants DEF U!FilesSound
  <1>4. U!DocKnown'
    BY DEF U!DocKnown
  <1> QED
    BY <1>1, <1>2, <1>3, <1>4

\* The probe changes, but not its binding.
LEMMA ProbeChanges ==
    ASSUME U!BindingInv, UNCHANGED <<x1, x3, x4, x6, x7>>, x5' \in U!Probe,
           x5'.doc = x5.doc, x5'.events = x5.events,
           x5'.file \in x4 \cup {None},
           x5'.worker = "up" => x5'.loaded = x5.doc
    PROVE  U!BindingInv'
  <1> USE DEF U!BindingInv
  <1>1. U!Typed'
    BY DEF U!Typed, U!Last
  <1>2. U!WorkerBound' /\ U!OneEventEach' /\ U!DeadKept'
    BY DEF U!WorkerBound, U!OneEventEach, U!DeadKept
  <1>3. U!FilesSound' /\ U!DocKnown'
    BY DEF U!FilesSound, U!DocKnown
  <1> QED
    BY <1>1, <1>2, <1>3

\* What signctl stages is a trust set.
LEMMA StagedSet ==
    ASSUME NEW s \in U!TrustSet \cup {None}, NEW id \in Lineages, NEW k \in SignKeys,
           NEW t \in Int, NEW a \in Int, NEW b \in Int
    PROVE  U!Staged(s, id, k, t, a, b) \in U!TrustSet
  <1> DEFINE new == [from |-> t, until |-> b, legacy |-> FALSE]
  <1>1. new \in U!TrustKey /\ U!NoTrustKey \in U!TrustKey
    BY DEF U!TrustKey, U!NoTrustKey
  <1>2. CASE s = None
    <2> DEFINE c == t - MaxLife - MaxSkew
               old == [from |-> c, until |-> a, legacy |-> TRUE]
               ks == [l \in SignKeys |->
                        CASE l = k -> new
                          [] l = Pinned /\ l # k -> old
                          [] OTHER -> U!NoTrustKey]
    <2>1. c \in Int
      BY RotationConstants
    <2>2. U!Staged(s, id, k, t, a, b) = [id |-> id, gen |-> 1, retired |-> {}, keys |-> ks]
      BY <1>2 DEF U!Staged
    <2> HIDE DEF c
    <2>3. old \in U!TrustKey
      BY <2>1 DEF U!TrustKey
    <2> HIDE DEF new, old
    <2>4. ks \in [SignKeys -> U!TrustKey]
      BY <1>1, <2>3
    <2> HIDE DEF ks
    <2> QED
      BY <2>2, <2>4 DEF U!TrustSet
  <1>3. CASE s # None
    <2> DEFINE Cut(l) == [s.keys[l] EXCEPT !.until = U!Least(@, a)]
               ks == [l \in SignKeys |->
                        CASE l = k -> new
                          [] l \in U!Active(s) /\ l # k -> Cut(l)
                          [] OTHER -> U!NoTrustKey]
               g == s.gen + 1
    <2>1. s \in U!TrustSet
      BY <1>3
    <2>2. U!Staged(s, id, k, t, a, b) = [s EXCEPT !.gen = g, !.keys = ks]
      BY <1>3 DEF U!Staged
    <2>3. g \in Int
      BY <2>1 DEF U!TrustSet
    <2>4. ASSUME NEW l \in SignKeys PROVE Cut(l) \in U!TrustKey
      <3>1. s.keys[l] \in U!TrustKey
        BY <2>1 DEF U!TrustSet
      <3> DEFINE u == U!Least(s.keys[l].until, a)
      <3>2. u \in Int
        BY <3>1 DEF U!Least, U!TrustKey
      <3>3. Cut(l) = [s.keys[l] EXCEPT !.until = u]
        BY <3>1 DEF U!TrustKey
      <3> HIDE DEF u, Cut
      <3> QED
        BY <3>1, <3>2, <3>3 DEF U!TrustKey
    <2> HIDE DEF new, Cut
    <2>5. ks \in [SignKeys -> U!TrustKey]
      BY <1>1, <2>4
    <2> HIDE DEF ks, g
    <2> QED
      BY <2>1, <2>2, <2>3, <2>5 DEF U!TrustSet
  <1> QED
    BY <1>2, <1>3

LEMMA StageStep ==
    ASSUME U!BindingInv, NEW s \in x4 \cup {None}, NEW id \in Lineages, NEW k \in SignKeys,
           NEW o \in Overlaps, NEW v \in Validity, U!StageFile(s, id, k, o, v)
    PROVE  U!BindingInv'
  <1> DEFINE a == x1 + o
             b == a + v
             f == U!Staged(s, id, k, x1, a, b)
  <1>1. /\ x4' = x4 \cup {f} /\ UNCHANGED <<x1, x2, x3, x5, x6, x7>>
        /\ U!MayFollow(s, Pinned, f)
    BY DEF U!StageFile, U!StageOK
  <1>2. x1 \in 1 .. U!Last /\ x3 \in SignKeys /\ x4 \subseteq U!TrustSet
    BY DEF U!BindingInv, U!Typed
  <1>3. a \in Int /\ b \in Int /\ x1 \in Int
    BY <1>2, RotationConstants
  <1> HIDE DEF a, b
  <1>4. f \in U!TrustSet
    BY <1>2, <1>3, StagedSet
  <1>5. U!ValidTrust(f)
    BY <1>1 DEF U!MayFollow
  <1> HIDE DEF f
  <1> QED
    BY <1>1, <1>2, <1>4, <1>5, FilesGrow

LEMMA RetireStep ==
    ASSUME U!BindingInv, NEW s \in x4, NEW k \in SignKeys, U!RetireFile(s, k)
    PROVE  U!BindingInv'
  <1> DEFINE f == U!Retiring(s, k)
             g == s.gen + 1
             ks == [s.keys EXCEPT ![k] = U!NoTrustKey]
             rs == s.retired \cup {k}
  <1>1. /\ x4' = x4 \cup {f} /\ UNCHANGED <<x1, x2, x3, x5, x6, x7>>
        /\ U!MayFollow(s, None, f)
    BY DEF U!RetireFile, U!RetireOK
  <1>2. x1 \in 1 .. U!Last /\ x3 \in SignKeys /\ x4 \subseteq U!TrustSet
    BY DEF U!BindingInv, U!Typed
  <1>3. U!ValidTrust(f)
    BY <1>1 DEF U!MayFollow
  <1>4. s \in U!TrustSet
    BY <1>2
  <1>5. f = [s EXCEPT !.gen = g, !.keys = ks, !.retired = rs]
    BY <1>4 DEF U!Retiring, U!TrustSet
  <1>6. g \in Int /\ rs \in SUBSET SignKeys /\ ks \in [SignKeys -> U!TrustKey]
    <2>1. U!NoTrustKey \in U!TrustKey
      BY DEF U!NoTrustKey, U!TrustKey
    <2> QED
      BY <1>4, <2>1 DEF U!TrustSet
  <1> HIDE DEF g, ks, rs
  <1>7. f \in U!TrustSet
    BY <1>4, <1>5, <1>6 DEF U!TrustSet
  <1> HIDE DEF f
  <1> QED
    BY <1>1, <1>2, <1>3, <1>7, FilesGrow

\* The binding moves on, and carries what it retired.
LEMMA MigrateStep ==
    ASSUME U!BindingInv, NEW s \in x4 \cup {None}, NEW t \in x4, U!MigrateTrust(s, t)
    PROVE  U!BindingInv'
  <1> USE DEF U!BindingInv
  <1>1. /\ x5' = U!Migrated(x5, t) /\ x6' = x6 \cup t.retired
        /\ UNCHANGED <<x1, x2, x3, x4, x7>>
        /\ U!MayFollow(s, Pinned, t) /\ x5.worker # "up" /\ (x5.doc = t \/ s = x5.doc)
    BY DEF U!MigrateTrust, U!Locally, U!MigrateOK, U!Bound
  <1>2. x5 \in U!Probe /\ t \in U!TrustSet /\ t # None /\ x6 \subseteq SignKeys
    BY DEF U!Typed, U!FilesSound
  <1>3. t.retired \subseteq SignKeys
    BY <1>2 DEF U!TrustSet
  <1>4. CASE x5.doc = t
    <2>1. x5' = x5
      BY <1>1, <1>4 DEF U!Migrated
    <2>2. U!Typed'
      BY <1>1, <1>2, <1>3, <2>1 DEF U!Typed, U!Last
    <2>3. U!DeadKept'
      BY <1>1, <1>2, <1>4, <2>1 DEF U!DeadKept
    <2> QED
      BY <1>1, <2>1, <2>2, <2>3 DEF U!WorkerBound, U!OneEventEach, U!FilesSound, U!DocKnown
  <1>5. CASE x5.doc # t
    <2> DEFINE n == x5.events + 1
    <2>1. x5' = [x5 EXCEPT !.doc = t, !.events = n]
      BY <1>1, <1>2, <1>5 DEF U!Migrated, U!Probe
    <2>2. n \in Nat
      BY <1>2 DEF U!Probe
    <2>3. n = t.gen /\ x6 \subseteq t.retired
      <3>1. CASE x5.doc = None
        <4>1. t.gen = 1 /\ x5.events = 0 /\ x6 = {}
          BY <1>1, <1>5, <3>1 DEF U!MayFollow, U!OneEventEach, U!DeadKept
        <4> QED
          BY <4>1
      <3>2. CASE x5.doc # None
        <4>1. /\ t.gen = x5.doc.gen + 1 /\ x5.doc.retired \subseteq t.retired
              /\ x5.events = x5.doc.gen /\ x6 \subseteq x5.doc.retired
          BY <1>1, <1>5, <3>2 DEF U!MayFollow, U!OneEventEach, U!DeadKept
        <4> QED
          BY <4>1
      <3> QED
        BY <3>1, <3>2
    <2> HIDE DEF n
    <2>4. /\ x5' \in U!Probe /\ x5'.doc = t /\ x5'.events = n
          /\ x5'.worker = x5.worker /\ x5'.file = x5.file
      BY <1>2, <2>1, <2>2 DEF U!Probe
    <2>5. U!Typed'
      BY <1>1, <1>2, <1>3, <2>4 DEF U!Typed, U!Last
    <2>6. U!DeadKept' /\ U!OneEventEach' /\ U!WorkerBound'
      BY <1>1, <1>2, <2>3, <2>4 DEF U!DeadKept, U!OneEventEach, U!WorkerBound
    <2>7. U!FilesSound' /\ U!DocKnown'
      BY <1>1, <2>4 DEF U!FilesSound, U!DocKnown
    <2> QED
      BY <2>5, <2>6, <2>7
  <1> QED
    BY <1>4, <1>5

\* A step of the probe: what becomes of q, and that a request that is decided
\* was not signed with a retired key.
LEMMA ProbeStep ==
    ASSUME U!BindingInv,
           \/ \E s \in x4 \cup {None} : U!PlaceFile(s)
           \/ U!StartWorker \/ U!StopWorker
           \/ \E r \in U!Reqs : U!Finish(r) \/ U!Deliver(r)
    PROVE  U!BindingInv' /\ \A r \in U!Reqs : x5'.rows[r] # "none" => x5.rows[r] # "none"
  <1>1. x5 \in U!Probe /\ x4 \subseteq U!TrustSet /\ x5.file \in x4 \cup {None}
    BY DEF U!BindingInv, U!Typed, U!DocKnown
  <1>2. x5.worker = "up" => x5.loaded = x5.doc
    BY DEF U!BindingInv, U!WorkerBound
  <1>3. ASSUME NEW s \in x4 \cup {None}, U!PlaceFile(s)
        PROVE  U!BindingInv' /\ x5'.rows = x5.rows
    <2>1. x5' = [x5 EXCEPT !.file = s] /\ UNCHANGED <<x1, x3, x4, x6, x7>>
      BY <1>3 DEF U!PlaceFile, U!Locally
    <2>2. /\ x5' \in U!Probe /\ x5'.doc = x5.doc /\ x5'.events = x5.events /\ x5'.file = s
          /\ x5'.worker = x5.worker /\ x5'.loaded = x5.loaded /\ x5'.rows = x5.rows
      BY <1>1, <2>1 DEF U!Probe
    <2> QED
      BY <1>2, <2>1, <2>2, ProbeChanges
  <1>4. CASE U!StopWorker
    <2>1. x5' = [x5 EXCEPT !.worker = "down", !.loaded = None] /\ UNCHANGED <<x1, x3, x4, x6, x7>>
      BY <1>4 DEF U!StopWorker, U!Locally
    <2>2. /\ x5' \in U!Probe /\ x5'.doc = x5.doc /\ x5'.events = x5.events
          /\ x5'.file = x5.file /\ x5'.worker = "down" /\ x5'.rows = x5.rows
      BY <1>1, <2>1 DEF U!Probe
    <2> QED
      BY <1>1, <2>1, <2>2, ProbeChanges
  <1>5. CASE U!StartWorker
    <2>1. x5' = U!Started(x5) /\ UNCHANGED <<x1, x3, x4, x6, x7>>
      BY <1>5 DEF U!StartWorker, U!Locally
    <2>2. CASE x5.file = x5.doc
      <3> DEFINE rs == [r \in U!Reqs |-> IF x5.rows[r] = "running"
                                         THEN "indeterminate" ELSE x5.rows[r]]
      <3>1. x5' = [x5 EXCEPT !.worker = "up", !.loaded = x5.file, !.rows = rs]
        BY <2>1, <2>2 DEF U!Started, U!Bound
      <3>2. rs \in [U!Reqs -> {"none", "running"} \cup U!Statuses]
        BY <1>1 DEF U!Probe, U!Statuses
      <3>3. \A r \in U!Reqs : rs[r] # "none" => x5.rows[r] # "none"
        OBVIOUS
      <3> HIDE DEF rs
      <3>4. /\ x5' \in U!Probe /\ x5'.doc = x5.doc /\ x5'.events = x5.events
            /\ x5'.file = x5.file /\ x5'.loaded = x5.doc /\ x5'.rows = rs
        BY <1>1, <2>2, <3>1, <3>2 DEF U!Probe
      <3> QED
        BY <1>1, <2>1, <3>3, <3>4, ProbeChanges
    <2>3. CASE x5.file # x5.doc
      <3>1. x5' = [x5 EXCEPT !.worker = "degraded"]
        BY <2>1, <2>3 DEF U!Started, U!Bound
      <3>2. /\ x5' \in U!Probe /\ x5'.doc = x5.doc /\ x5'.events = x5.events
            /\ x5'.file = x5.file /\ x5'.worker = "degraded" /\ x5'.rows = x5.rows
        BY <1>1, <3>1 DEF U!Probe
      <3> QED
        BY <1>1, <2>1, <3>2, ProbeChanges
    <2> QED
      BY <2>2, <2>3
  <1>6. ASSUME NEW r \in U!Reqs, U!Finish(r)
        PROVE  U!BindingInv' /\ \A p \in U!Reqs : x5'.rows[p] # "none" => x5.rows[p] # "none"
    <2> DEFINE rs == [x5.rows EXCEPT ![r] = "succeeded"]
    <2>1. x5' = [x5 EXCEPT !.rows = rs] /\ UNCHANGED <<x1, x3, x4, x6, x7>>
      BY <1>1, <1>6 DEF U!Finish, U!Locally, U!Probe
    <2>2. /\ rs \in [U!Reqs -> {"none", "running"} \cup U!Statuses]
          /\ \A p \in U!Reqs : rs[p] # "none" => x5.rows[p] # "none"
      BY <1>1, <1>6 DEF U!Finish, U!Probe, U!Statuses
    <2> HIDE DEF rs
    <2>3. /\ x5' \in U!Probe /\ x5'.doc = x5.doc /\ x5'.events = x5.events
          /\ x5'.file = x5.file /\ x5'.worker = x5.worker /\ x5'.loaded = x5.loaded
          /\ x5'.rows = rs
      BY <1>1, <2>1, <2>2 DEF U!Probe
    <2> QED
      BY <1>1, <1>2, <2>1, <2>2, <2>3, ProbeChanges
  <1>7. ASSUME NEW r \in U!Reqs, U!Deliver(r)
        PROVE  U!BindingInv' /\ x5'.rows = x5.rows
    <2> DEFINE ds == x5.delivered \cup {r}
    <2>1. x5' = [x5 EXCEPT !.delivered = ds] /\ UNCHANGED <<x1, x3, x4, x6, x7>>
      BY <1>1, <1>7 DEF U!Deliver, U!Probe
    <2>2. ds \in SUBSET U!Reqs
      BY <1>1 DEF U!Probe
    <2> HIDE DEF ds
    <2>3. /\ x5' \in U!Probe /\ x5'.doc = x5.doc /\ x5'.events = x5.events
          /\ x5'.file = x5.file /\ x5'.worker = x5.worker /\ x5'.loaded = x5.loaded
          /\ x5'.rows = x5.rows
      BY <1>1, <2>1, <2>2 DEF U!Probe
    <2> QED
      BY <1>1, <1>2, <2>1, <2>3, ProbeChanges
  <1> QED
    BY <1>3, <1>4, <1>5, <1>6, <1>7

LEMMA ProcessStep ==
    ASSUME U!BindingInv, NEW r \in U!Reqs, U!Process(r)
    PROVE  U!BindingInv' /\ U!NotByRetired
  <1>1. /\ x5 \in U!Probe /\ x5.file \in x4 \cup {None} /\ x5.doc \in x4 \cup {None}
        /\ x5.worker = "up" /\ x5.loaded = x5.doc /\ U!Accepts(x5.loaded, x2.tasks[r], x1)
    BY DEF U!BindingInv, U!Typed, U!DocKnown, U!WorkerBound, U!Process
  <1>2. PICK s \in {"expired", "running", "rejected"} :
           x5' = [x5 EXCEPT !.rows[r] = s] /\ UNCHANGED <<x1, x2, x3, x4, x6, x7>>
    BY DEF U!Process, U!Locally
  <1> DEFINE rs == [x5.rows EXCEPT ![r] = s]
  <1>3. x5' = [x5 EXCEPT !.rows = rs]
    BY <1>1, <1>2 DEF U!Probe
  <1>4. /\ rs \in [U!Reqs -> {"none", "running"} \cup U!Statuses]
        /\ \A p \in U!Reqs : p # r => rs[p] = x5.rows[p]
    BY <1>1 DEF U!Probe, U!Statuses
  <1> HIDE DEF rs
  <1>5. /\ x5' \in U!Probe /\ x5'.doc = x5.doc /\ x5'.events = x5.events
        /\ x5'.file = x5.file /\ x5'.worker = x5.worker /\ x5'.loaded = x5.loaded
        /\ x5'.rows = rs
    BY <1>1, <1>3, <1>4 DEF U!Probe
  <1>6. U!BindingInv'
    BY <1>1, <1>2, <1>5, ProbeChanges
  <1>7. x2.tasks[r].env.key \notin x6
    <2>1. CASE x5.doc = None
      BY <2>1 DEF U!BindingInv, U!DeadKept
    <2>2. CASE x5.doc # None
      <3>1. U!ValidTrust(x5.doc) /\ x6 \subseteq x5.doc.retired
        BY <1>1, <2>2 DEF U!BindingInv, U!FilesSound, U!DeadKept
      <3>2. x2.tasks[r].env.key \in U!Active(x5.doc)
        BY <1>1, <2>2 DEF U!Accepts, U!Verifies, U!CheckTrust
      <3> QED
        BY <3>1, <3>2 DEF U!ValidTrust
    <2> QED
      BY <2>1, <2>2
  <1>8. U!NotByRetired
    BY <1>4, <1>5, <1>7 DEF U!NotByRetired
  <1> QED
    BY <1>6, <1>8

\* The server, and the clock.
LEMMA ElsewhereStep ==
    ASSUME U!BindingInv,
           \/ U!Tick \/ U!Poll \/ U!CancelQueuedForSignerChange
           \/ \E r \in Asked, ttl \in TTLs : U!SubmitTask(r, ttl)
           \/ \E paused \in BOOLEAN : U!PauseDispatch(paused)
           \/ \E s \in x4 : U!InstallSignerTrust(s)
           \/ \E k \in SignKeys : U!SwitchSigner(k) \/ U!RestartServer(k)
    PROVE  U!BindingInv' /\ x5' = x5
  <1>1. x1 \in 1 .. U!Last /\ x3 \in SignKeys /\ x4 \subseteq U!TrustSet
    BY DEF U!BindingInv, U!Typed
  <1>2. CASE U!Tick
    <2>1. x1 < U!Last /\ x1' = x1 + 1 /\ UNCHANGED <<x2, x3, x4, x5, x6, x7>>
      BY <1>2 DEF U!Tick
    <2>2. x1' \in 1 .. U!Last
      BY <1>1, <2>1, RotationConstants
    <2> QED
      BY <1>1, <2>1, <2>2, FilesGrow
  <1>3. ASSUME NEW k \in SignKeys, U!RestartServer(k) PROVE U!BindingInv' /\ x5' = x5
    BY <1>1, <1>3, FilesGrow DEF U!RestartServer
  <1>4. CASE UNCHANGED <<x1, x3, x4, x5, x6, x7>>
    BY <1>1, <1>4, FilesGrow
  <1> QED
    BY <1>2, <1>3, <1>4 DEF U!Poll, U!PollNothing, U!PollSign, U!CancelQueuedForSignerChange,
       U!SubmitTask, U!PauseDispatch, U!InstallSignerTrust, U!SwitchSigner, U!Serve

LEMMA BindingStep ==
    ASSUME U!BindingInv, U!Next PROVE U!BindingInv' /\ U!NotByRetired
  <1>1. ASSUME U!BindingInv', x5' = x5 PROVE U!BindingInv' /\ U!NotByRetired
    BY <1>1 DEF U!NotByRetired
  <1>2. ASSUME NEW s \in x4 \cup {None}, NEW id \in Lineages, NEW k \in SignKeys,
               NEW o \in Overlaps, NEW v \in Validity, U!StageFile(s, id, k, o, v)
        PROVE  U!BindingInv' /\ x5' = x5
    BY <1>2, StageStep DEF U!StageFile
  <1>3. ASSUME NEW s \in x4, NEW k \in SignKeys, U!RetireFile(s, k)
        PROVE  U!BindingInv' /\ x5' = x5
    BY <1>3, RetireStep DEF U!RetireFile
  <1>4. ASSUME NEW s \in x4 \cup {None}, NEW t \in x4, U!MigrateTrust(s, t)
        PROVE  U!BindingInv' /\ U!NotByRetired
    <2>1. x5' = U!Migrated(x5, t) /\ x5 \in U!Probe
      BY <1>4 DEF U!MigrateTrust, U!Locally, U!BindingInv, U!Typed
    <2>2. x5'.rows = x5.rows
      BY <2>1 DEF U!Migrated, U!Probe
    <2> QED
      BY <1>4, <2>2, MigrateStep DEF U!NotByRetired
  <1>5. ASSUME U!BindingInv' /\ \A r \in U!Reqs : x5'.rows[r] # "none" => x5.rows[r] # "none"
        PROVE  U!BindingInv' /\ U!NotByRetired
    BY <1>5 DEF U!NotByRetired
  <1> QED
    BY <1>1, <1>2, <1>3, <1>4, <1>5, ProcessStep, ProbeStep, ElsewhereStep DEF U!Next

LEMMA BindingInit == U!Init => U!BindingInv
  <1> SUFFICES ASSUME U!Init PROVE U!BindingInv
    OBVIOUS
  <1> DEFINE rs == [r \in U!Reqs |-> "none"]
  <1>1. /\ x7 \in BOOLEAN /\ x1 = MaxLife + MaxSkew + 1 /\ x3 = Pinned /\ x4 = {} /\ x6 = {}
        /\ x5 = [doc |-> None, file |-> None, worker |-> "up", loaded |-> None,
                 rows |-> rs, delivered |-> {}, events |-> 0]
    BY DEF U!Init
  <1>2. rs \in [U!Reqs -> {"none", "running"} \cup U!Statuses]
    OBVIOUS
  <1> HIDE DEF rs
  <1>3. /\ x5 \in U!Probe /\ x5.doc = None /\ x5.file = None /\ x5.loaded = None
        /\ x5.events = 0
    BY <1>1, <1>2 DEF U!Probe
  <1>4. x1 \in 1 .. U!Last
    BY <1>1, RotationConstants
  <1>5. U!Typed
    BY <1>1, <1>3, <1>4, RotationConstants DEF U!Typed
  <1>6. U!WorkerBound /\ U!OneEventEach /\ U!FilesSound /\ U!DocKnown /\ U!DeadKept
    BY <1>1, <1>3 DEF U!WorkerBound, U!OneEventEach, U!FilesSound, U!DocKnown, U!DeadKept
  <1> QED
    BY <1>5, <1>6 DEF U!BindingInv

\* The same among the other parts.
LEMMA RotationKept ==
    ASSUME part = "rotation" => U!BindingInv, [Next]_vars
    PROVE  /\ (part = "rotation" => U!BindingInv)'
           /\ [part = "rotation" => U!NotByRetired]_vars
  <1>1. CASE UNCHANGED vars
    BY <1>1 DEF vars, above7, U!BindingInv, U!Typed, U!Last, U!WorkerBound,
       U!OneEventEach, U!FilesSound, U!DocKnown, U!DeadKept
  <1>2. CASE part = "rotation" /\ U!Next /\ UNCHANGED part
    BY <1>2, BindingStep
  <1>3. CASE part # "rotation" /\ part' = part
    BY <1>3
  <1> QED
    BY <1>1, <1>2, <1>3 DEF Next, Rotate, Enroll, Administer,
       Admit, Beat, AuditFiles, Read, CheckFrame, Query

(***************************************************************************)
(* A key that a binding of the probe ever retired decides nothing again,   *)
(* for any number of keys, lineages, files and tasks and in any order of   *)
(* staging, migration, replacement, restart and late delivery              *)
(* (MigrateTrust and open in internal/probe, CheckTransition in            *)
(* internal/signing).                                                      *)
(***************************************************************************)
THEOREM RetiredKeysHold == Spec => RetiredDecidesNothing
  <1> DEFINE Inv == part = "rotation" => U!BindingInv
             Step == part = "rotation" => U!NotByRetired
  <1>1. Init => Inv
    BY BindingInit DEF Init
  <1>2. Inv /\ [Next]_vars => Inv' /\ [Step]_vars
    BY RotationKept
  <1> QED
    BY <1>1, <1>2, PTL DEF Spec, RetiredDecidesNothing

-----------------------------------------------------------------------------
(* What is in flight during the change.  x2 is the server's database, x5   *)
(* the probe.                                                              *)

LEMMA FlightConstants ==
    /\ None \notin SignKeys /\ None \notin Lineages /\ None \notin Digests
    /\ MaxTasks \in Nat /\ Capacity \in Nat \ {0} /\ TTLs \subseteq Nat /\ Digests # {}
    /\ Asked \subseteq U!Reqs
  BY PartsAssumption DEF U!RotationAssumption

\* Cardinality is the one of FiniteSets.
LEMMA SameCardinality == ASSUME NEW S1 PROVE U!Cardinality(S1) = Cardinality(S1)
  BY DEF U!Cardinality, Cardinality

LEMMA FiniteRows ==
    ASSUME NEW R \in SUBSET U!Reqs
    PROVE  IsFiniteSet(R) /\ U!Cardinality(R) \in Nat
  <1>1. IsFiniteSet(U!Reqs)
    BY FS_Interval, FlightConstants DEF U!Reqs
  <1>2. IsFiniteSet(R)
    BY <1>1, FS_Subset
  <1> QED
    BY <1>2, FS_CardinalityType, SameCardinality

LEMMA WithoutRows ==
    ASSUME NEW P1 \in SUBSET U!Reqs, NEW R \in SUBSET P1
    PROVE  U!Cardinality(P1 \ R) = U!Cardinality(P1) - U!Cardinality(R)
  <1>1. IsFiniteSet(P1) /\ IsFiniteSet(R)
    BY FiniteRows
  <1>2. P1 \cap R = R
    OBVIOUS
  <1>3. Cardinality(P1 \ R) = Cardinality(P1) - Cardinality(P1 \cap R)
    BY <1>1, FS_Difference
  <1> QED
    BY <1>2, <1>3, SameCardinality

LEMMA WithRow ==
    ASSUME NEW P1 \in SUBSET U!Reqs, NEW r \in U!Reqs
    PROVE  /\ r \notin P1 => U!Cardinality(P1 \cup {r}) = U!Cardinality(P1) + 1
           /\ r \in P1 => U!Cardinality(P1 \ {r}) = U!Cardinality(P1) - 1
  <1>1. IsFiniteSet(P1)
    BY FiniteRows
  <1>2. r \notin P1 => Cardinality(P1 \cup {r}) = Cardinality(P1) + 1
    BY <1>1, FS_AddElement
  <1>3. r \in P1 => Cardinality(P1 \ {r}) = Cardinality(P1) - 1
    BY <1>1, FS_RemoveElement
  <1> QED
    BY <1>2, <1>3, SameCardinality

\* The slots that the rows of a database are owed.
Owed(b) == 1 + 2 * U!Cardinality(U!Queued(b)) + U!Cardinality(U!Dispatched(b))

LEMMA OwedNumber ==
    ASSUME NEW b
    PROVE  /\ U!Queued(b) \in SUBSET U!Reqs /\ U!Dispatched(b) \in SUBSET U!Reqs
           /\ U!Cardinality(U!Queued(b)) \in Nat /\ U!Cardinality(U!Dispatched(b)) \in Nat
           /\ Owed(b) \in Nat
  <1>1. U!Queued(b) \in SUBSET U!Reqs /\ U!Dispatched(b) \in SUBSET U!Reqs
    BY DEF U!Queued, U!Dispatched
  <1>2. U!Cardinality(U!Queued(b)) \in Nat /\ U!Cardinality(U!Dispatched(b)) \in Nat
    BY <1>1, FiniteRows
  <1> QED
    BY <1>1, <1>2 DEF Owed

\* The tables that are left alone by what happens to tasks.
Aside(b, e) ==
    e.nodes = b.nodes /\ e.key = b.key /\ e.trust = b.trust /\ e.paused = b.paused

LEMMA AppendedRow ==
    ASSUME NEW b \in U!Database, NEW n \in Nat, NEW delta \in Int
    PROVE  /\ LET e == U!AppendedEach(b, n, delta)
              IN  /\ e \in U!Database /\ Aside(b, e) /\ e.tasks = b.tasks
                  /\ e.seq = b.seq + n /\ e.reserved = b.reserved + n * delta
           /\ LET e == U!Appended(b, delta)
              IN  /\ e \in U!Database /\ Aside(b, e) /\ e.tasks = b.tasks
                  /\ e.seq = b.seq + 1 /\ e.reserved = b.reserved + delta
  <1> DEFINE s == b.seq + n
             v == b.reserved + n * delta
             t == b.seq + 1
             w == b.reserved + delta
  <1>1. b.seq \in Nat /\ b.reserved \in Int
    BY DEF U!Database
  <1>2. s \in Nat /\ v \in Int /\ t \in Nat /\ w \in Int
    BY <1>1
  <1>3. /\ U!AppendedEach(b, n, delta) = [b EXCEPT !.seq = s, !.reserved = v]
        /\ U!Appended(b, delta) = [b EXCEPT !.seq = t, !.reserved = w]
    BY DEF U!Appended, U!AppendedEach
  <1> HIDE DEF s, v, t, w
  <1>4. LET e == [b EXCEPT !.seq = s, !.reserved = v]
        IN  /\ e \in U!Database /\ Aside(b, e) /\ e.tasks = b.tasks
            /\ e.seq = s /\ e.reserved = v
    BY <1>2 DEF U!Database, Aside
  <1>5. LET e == [b EXCEPT !.seq = t, !.reserved = w]
        IN  /\ e \in U!Database /\ Aside(b, e) /\ e.tasks = b.tasks
            /\ e.seq = t /\ e.reserved = w
    BY <1>2 DEF U!Database, Aside
  <1> QED
    BY <1>3, <1>4, <1>5 DEF s, v, t, w

\* The log is not counted.
LEMMA RecountedRow ==
    ASSUME NEW b \in U!Database
    PROVE  LET e == [b EXCEPT !.seq = 0]
           IN  /\ e \in U!Database /\ Aside(b, e) /\ e.tasks = b.tasks
               /\ e.seq = 0 /\ e.reserved = b.reserved
  BY DEF U!Database, Aside

LEMMA TasksPut ==
    ASSUME NEW b \in U!Database, NEW a \in [U!Reqs -> U!TaskRow]
    PROVE  LET e == [b EXCEPT !.tasks = a]
           IN  /\ e \in U!Database /\ Aside(b, e) /\ e.tasks = a
               /\ e.seq = b.seq /\ e.reserved = b.reserved
  BY DEF U!Database, Aside

-----------------------------------------------------------------------------
(* What the transactions keep.                                             *)

\* The invariant, for a database in the middle of a transaction.
RowSound(b, r) ==
    /\ U!Accounted(r, b.tasks[r])
    /\ b.tasks[r].state = "queued" => b.tasks[r].policy # None /\ b.tasks[r].node = "n"
    /\ b.tasks[r].state = "dispatched" /\ b.tasks[r].expires > x1 => U!ResendOK(b, r, x1)

Sound(b) ==
    /\ b \in U!Database /\ b.nodes["n"].state = "enabled"
    /\ b.reserved = Owed(b) /\ (b.trust = None => b.key = Pinned)
    /\ \A r \in U!Reqs : RowSound(b, r)

LEMMA SoundInv ==
    U!InFlightInv <=> /\ U!BindingInv /\ Sound(x2) /\ U!EndsInStep
                      /\ x2.seq = 0 /\ x2.reserved <= Capacity
  BY DEF U!InFlightInv, Sound, RowSound, U!SlotsHeld, U!RowsAgree, U!Resendable, U!Live,
     U!Queued, Owed

\* The same rows under the same keys are as sound.
LEMMA RowStays ==
    ASSUME NEW b, NEW e, NEW r \in U!Reqs, e.key = b.key, e.trust = b.trust,
           e.tasks[r] = b.tasks[r], RowSound(b, r)
    PROVE  RowSound(e, r)
  BY DEF RowSound, U!ResendOK

LEMMA TasksStay ==
    ASSUME NEW b, NEW e, Sound(b), e \in U!Database, Aside(b, e), e.tasks = b.tasks,
           e.reserved = b.reserved
    PROVE  Sound(e)
  <1>1. U!Queued(e) = U!Queued(b) /\ U!Dispatched(e) = U!Dispatched(b)
    BY DEF U!Queued, U!Dispatched
  <1>2. \A r \in U!Reqs : RowSound(e, r)
    BY RowStays DEF Sound, Aside
  <1> QED
    BY <1>1, <1>2 DEF Sound, Aside, Owed

\* Queued tasks are closed: expireTasks and CancelQueuedForSignerChange.
LEMMA ClosedSound ==
    ASSUME NEW b, Sound(b), NEW R \in SUBSET U!Queued(b), NEW st \in U!Statuses
    PROVE  LET e == U!AppendedEach(U!Closed(b, R, st), U!Cardinality(R), -2)
           IN  /\ Sound(e) /\ Aside(b, e) /\ e.reserved <= b.reserved
               /\ U!Queued(e) = U!Queued(b) \ R /\ U!Dispatched(e) = U!Dispatched(b)
               /\ \A r \in U!Reqs \ R : e.tasks[r] = b.tasks[r]
  <1> DEFINE c == U!Closed(b, R, st)
             n == U!Cardinality(R)
             e == U!AppendedEach(c, n, -2)
  <1>1. b \in U!Database /\ b.reserved = Owed(b) /\ R \in SUBSET U!Reqs
    BY DEF Sound, U!Queued
  <1> HIDE DEF n, e
  <1>2. /\ c \in U!Database /\ Aside(b, c) /\ c.reserved = b.reserved
        /\ \A r \in R : /\ c.tasks[r].env = b.tasks[r].env /\ c.tasks[r].state = st
                      /\ c.tasks[r].result = b.tasks[r].result
        /\ \A r \in U!Reqs \ R : c.tasks[r] = b.tasks[r]
    <2> DEFINE a == [r \in U!Reqs |->
                       IF r \in R THEN [b.tasks[r] EXCEPT !.state = st] ELSE b.tasks[r]]
    <2>1. b.tasks \in [U!Reqs -> U!TaskRow]
      BY <1>1 DEF U!Database
    <2>2. /\ a \in [U!Reqs -> U!TaskRow]
          /\ \A r \in R : /\ a[r].env = b.tasks[r].env /\ a[r].state = st
                        /\ a[r].result = b.tasks[r].result
          /\ \A r \in U!Reqs \ R : a[r] = b.tasks[r]
      BY <1>1, <2>1 DEF U!TaskRow
    <2>3. c = [b EXCEPT !.tasks = a]
      BY DEF U!Closed
    <2> HIDE DEF a, c
    <2>4. c \in U!Database /\ Aside(b, c) /\ c.tasks = a /\ c.reserved = b.reserved
      BY <1>1, <2>2, <2>3, TasksPut
    <2> QED
      BY <2>2, <2>4
  <1>3. n \in Nat /\ U!Cardinality(U!Queued(b) \ R) = U!Cardinality(U!Queued(b)) - n
    BY <1>1, FiniteRows, WithoutRows, OwedNumber DEF n
  <1> HIDE DEF c
  <1>4. -2 \in Int
    OBVIOUS
  <1>5. /\ e \in U!Database /\ Aside(c, e) /\ e.tasks = c.tasks
        /\ e.reserved = c.reserved + n * (-2)
    BY <1>2, <1>3, <1>4, AppendedRow DEF e
  <1>6. U!Queued(e) = U!Queued(b) \ R /\ U!Dispatched(e) = U!Dispatched(b)
    BY <1>1, <1>2, <1>5 DEF U!Queued, U!Dispatched, U!Statuses
  <1>7. e.reserved = Owed(e) /\ e.reserved <= b.reserved
    <2>1. Owed(e) = 1 + 2 * (U!Cardinality(U!Queued(b)) - n) + U!Cardinality(U!Dispatched(b))
      BY <1>3, <1>6 DEF Owed
    <2>2. e.reserved = Owed(b) - 2 * n
      BY <1>1, <1>2, <1>3, <1>5, OwedNumber
    <2> QED
      BY <1>1, <1>3, <2>1, <2>2, OwedNumber DEF Owed
  <1>8. ASSUME NEW r \in U!Reqs PROVE RowSound(e, r)
    <2>1. CASE r \notin R
      <3>1. e.tasks[r] = b.tasks[r] /\ e.key = b.key /\ e.trust = b.trust
        BY <1>2, <1>5, <2>1 DEF Aside
      <3> QED
        BY <3>1, RowStays DEF Sound
    <2>2. CASE r \in R
      <3>1. /\ e.tasks[r].env = b.tasks[r].env /\ e.tasks[r].state = st
            /\ e.tasks[r].result = b.tasks[r].result
        BY <1>2, <1>5, <2>2
      <3>2. b.tasks[r].state = "queued" /\ U!Accounted(r, b.tasks[r])
        BY <2>2 DEF U!Queued, Sound, RowSound
      <3>3. /\ b.tasks[r].env = U!NoEnvelope /\ x5.rows[r] = "none"
            /\ b.tasks[r].result = U!NoResult
        BY <3>2 DEF U!Accounted, U!Statuses
      <3> QED
        BY <3>1, <3>3 DEF RowSound, U!Accounted, U!Statuses
    <2> QED
      BY <2>1, <2>2
  <1>9. Aside(b, e) /\ \A r \in U!Reqs \ R : e.tasks[r] = b.tasks[r]
    BY <1>2, <1>5 DEF Aside
  <1>10. Sound(e)
    BY <1>5, <1>7, <1>8, <1>9 DEF Sound, Aside
  <1> QED
    BY <1>6, <1>7, <1>9, <1>10 DEF e, c, n

LEMMA ExpireSound ==
    ASSUME NEW b, Sound(b)
    PROVE  LET e == U!Expire(b, "n", x1)
           IN  /\ Sound(e) /\ Aside(b, e) /\ e.reserved <= b.reserved
               /\ U!Queued(e) \subseteq U!Queued(b) /\ U!Dispatched(e) = U!Dispatched(b)
               /\ \A r \in U!Reqs \ U!Queued(b) : e.tasks[r] = b.tasks[r]
               /\ \A r \in U!Queued(e) : e.tasks[r] = b.tasks[r]
  <1> DEFINE R == U!Overdue(b, "n", x1)
  <1>1. R \in SUBSET U!Queued(b) /\ "expired" \in U!Statuses
    BY DEF U!Overdue, U!Statuses
  <1>2. U!Expire(b, "n", x1) = U!AppendedEach(U!Closed(b, R, "expired"), U!Cardinality(R), -2)
    BY DEF U!Expire
  <1> HIDE DEF R
  <1>3. U!Queued(U!Expire(b, "n", x1)) = U!Queued(b) \ R
    BY <1>1, <1>2, ClosedSound
  <1>4. U!Queued(b) \subseteq U!Reqs
    BY DEF U!Queued
  <1> QED
    BY <1>1, <1>2, <1>3, <1>4, ClosedSound

LEMMA CancelSound ==
    ASSUME NEW b, Sound(b)
    PROVE  LET e == U!CancelQueued(b)
           IN  /\ Sound(e) /\ Aside(b, e) /\ e.reserved <= b.reserved
               /\ U!Queued(e) = {} /\ U!Dispatched(e) = U!Dispatched(b)
               /\ \A r \in U!Reqs \ U!Queued(b) : e.tasks[r] = b.tasks[r]
  <1> DEFINE R == U!Queued(b)
  <1>1. R \in SUBSET U!Queued(b) /\ "rejected" \in U!Statuses /\ U!Queued(b) \ R = {}
    BY DEF U!Statuses
  <1>2. U!CancelQueued(b) = U!AppendedEach(U!Closed(b, R, "rejected"), U!Cardinality(R), -2)
    BY DEF U!CancelQueued
  <1> QED
    BY <1>1, <1>2, ClosedSound

\* One row changes, and an event is appended.
LEMMA RowPut ==
    ASSUME NEW b, Sound(b), NEW r \in U!Reqs, NEW row \in U!TaskRow, NEW delta \in Int
    PROVE  LET e == U!Appended([b EXCEPT !.tasks[r] = row], delta)
           IN  /\ e \in U!Database /\ Aside(b, e) /\ e.tasks[r] = row
               /\ e.reserved = b.reserved + delta
               /\ \A p \in U!Reqs : p # r => e.tasks[p] = b.tasks[p] /\ RowSound(e, p)
  <1> DEFINE a == [b.tasks EXCEPT ![r] = row]
             c == [b EXCEPT !.tasks = a]
             e == U!Appended(c, delta)
  <1>1. b \in U!Database /\ b.tasks \in [U!Reqs -> U!TaskRow]
    BY DEF Sound, U!Database
  <1>2. [b EXCEPT !.tasks[r] = row] = c
    BY <1>1 DEF U!Database
  <1>3. /\ a \in [U!Reqs -> U!TaskRow] /\ a[r] = row
        /\ \A p \in U!Reqs : p # r => a[p] = b.tasks[p]
    BY <1>1
  <1> HIDE DEF a
  <1>4. c \in U!Database /\ Aside(b, c) /\ c.tasks = a /\ c.reserved = b.reserved
    BY <1>1, <1>3, TasksPut
  <1> HIDE DEF c
  <1>5. /\ e \in U!Database /\ Aside(c, e) /\ e.tasks = c.tasks
        /\ e.reserved = c.reserved + delta
    BY <1>4, AppendedRow
  <1> HIDE DEF e
  <1>6. /\ Aside(b, e) /\ e.tasks[r] = row
        /\ \A p \in U!Reqs : p # r => e.tasks[p] = b.tasks[p]
    BY <1>3, <1>4, <1>5 DEF Aside
  <1>7. \A p \in U!Reqs : p # r => RowSound(e, p)
    BY <1>6, RowStays DEF Sound, Aside
  <1> QED
    BY <1>2, <1>4, <1>5, <1>6, <1>7 DEF e

\* The counts after one row changed.
LEMMA RowCounts ==
    ASSUME NEW b, NEW e, NEW r \in U!Reqs,
           \A p \in U!Reqs : p # r => e.tasks[p] = b.tasks[p]
    PROVE  /\ b.tasks[r].state = "none" /\ e.tasks[r].state = "queued" => Owed(e) = Owed(b) + 2
           /\ b.tasks[r].state = "queued" /\ e.tasks[r].state = "dispatched" =>
                 Owed(e) = Owed(b) - 1
           /\ b.tasks[r].state = "dispatched" /\ e.tasks[r].state \in U!Statuses =>
                 Owed(e) = Owed(b) - 1
  <1> DEFINE Q1 == U!Queued(b)
             D1 == U!Dispatched(b)
  <1>1. Q1 \in SUBSET U!Reqs /\ D1 \in SUBSET U!Reqs
    BY OwedNumber
  <1>2. U!Cardinality(Q1) \in Nat /\ U!Cardinality(D1) \in Nat
    BY OwedNumber
  <1>3. ASSUME b.tasks[r].state = "none", e.tasks[r].state = "queued"
        PROVE  Owed(e) = Owed(b) + 2
    <2>1. U!Queued(e) = Q1 \cup {r} /\ U!Dispatched(e) = D1 /\ r \notin Q1
      BY <1>3 DEF U!Queued, U!Dispatched
    <2>2. U!Cardinality(U!Queued(e)) = U!Cardinality(Q1) + 1
      BY <1>1, <2>1, WithRow
    <2> QED
      BY <1>2, <2>1, <2>2 DEF Owed
  <1>4. ASSUME b.tasks[r].state = "queued", e.tasks[r].state = "dispatched"
        PROVE  Owed(e) = Owed(b) - 1
    <2>1. /\ U!Queued(e) = Q1 \ {r} /\ U!Dispatched(e) = D1 \cup {r}
          /\ r \in Q1 /\ r \notin D1
      BY <1>4 DEF U!Queued, U!Dispatched
    <2>2. /\ U!Cardinality(U!Queued(e)) = U!Cardinality(Q1) - 1
          /\ U!Cardinality(U!Dispatched(e)) = U!Cardinality(D1) + 1
      BY <1>1, <2>1, WithRow
    <2> QED
      BY <1>2, <2>1, <2>2 DEF Owed
  <1>5. ASSUME b.tasks[r].state = "dispatched", e.tasks[r].state \in U!Statuses
        PROVE  Owed(e) = Owed(b) - 1
    <2>1. U!Queued(e) = Q1 /\ U!Dispatched(e) = D1 \ {r} /\ r \in D1
      BY <1>5 DEF U!Queued, U!Dispatched, U!Statuses
    <2>2. U!Cardinality(U!Dispatched(e)) = U!Cardinality(D1) - 1
      BY <1>1, <2>1, WithRow
    <2> QED
      BY <1>2, <2>1, <2>2 DEF Owed
  <1> QED
    BY <1>3, <1>4, <1>5

LEMMA EnqueueSound ==
    ASSUME NEW b, Sound(b), NEW r \in U!Reqs, NEW ttl \in Nat, x1 \in Nat,
           U!EnqueueOK(b, r, "n", ttl, x1)
    PROVE  LET e == U!Enqueue(b, r, "n", ttl, x1)
           IN  Sound(e) /\ Aside(b, e) /\ e.reserved <= Capacity
  <1> DEFINE c == U!Expire(b, "n", x1)
             row == U!NewTask(b, "n", ttl, x1)
             e == U!Appended([c EXCEPT !.tasks[r] = row], 2)
  <1>1. U!Enqueue(b, r, "n", ttl, x1) = e
    BY DEF U!Enqueue
  <1>2. /\ b.tasks[r].state = "none" /\ b.nodes["n"].policy # None
        /\ c.seq + 1 + c.reserved + 2 <= Capacity
    BY DEF U!EnqueueOK, U!EnqueueAllowed, U!CanAppend
  <1>3. /\ row \in U!TaskRow /\ row.state = "queued" /\ row.node = "n"
        /\ row.env = U!NoEnvelope /\ row.policy # None /\ row.result = U!NoResult
    <2> DEFINE t == x1 + ttl
               p == b.nodes["n"].policy
    <2>1. t \in Nat
      OBVIOUS
    <2>2. p \in Digests \cup {None}
      BY DEF Sound, U!Database, U!NodeRow
    <2>3. row = [U!NoTask EXCEPT !.state = "queued", !.node = "n", !.created = x1,
                                 !.expires = t, !.policy = p]
      BY DEF U!NewTask
    <2> HIDE DEF t, p, row
    <2>4. row = [state |-> "queued", node |-> "n", policy |-> p, created |-> x1,
                 expires |-> t, env |-> U!NoEnvelope, result |-> U!NoResult]
      BY <2>3 DEF U!NoTask
    <2> QED
      BY <1>2, <2>1, <2>2, <2>4 DEF U!TaskRow, p
  <1>4. Sound(c) /\ Aside(b, c) /\ c.tasks[r] = b.tasks[r]
    BY <1>2, ExpireSound DEF U!Queued
  <1> HIDE DEF c, row
  <1>5. /\ e \in U!Database /\ Aside(c, e) /\ e.tasks[r] = row
        /\ e.reserved = c.reserved + 2
        /\ \A p \in U!Reqs : p # r => e.tasks[p] = c.tasks[p] /\ RowSound(e, p)
    BY <1>3, <1>4, RowPut
  <1> HIDE DEF e
  <1>6. Owed(e) = Owed(c) + 2
    BY <1>2, <1>3, <1>4, <1>5, RowCounts
  <1>7. x5.rows[r] = "none"
    BY <1>2 DEF Sound, RowSound, U!Accounted, U!Statuses
  <1>8. RowSound(e, r)
    BY <1>3, <1>5, <1>7 DEF RowSound, U!Accounted
  <1>9. c.seq \in Nat /\ c.reserved \in Int /\ c.reserved = Owed(c)
    BY <1>4 DEF Sound, U!Database
  <1>10. e.reserved <= Capacity
    BY <1>2, <1>5, <1>9, FlightConstants
  <1>11. Sound(e) /\ Aside(b, e)
    BY <1>4, <1>5, <1>6, <1>8, <1>9 DEF Sound, Aside
  <1> QED
    BY <1>1, <1>10, <1>11

\* A queued task is signed.
LEMMA SignSound ==
    ASSUME NEW b, Sound(b), NEW r \in U!Reqs, U!SignOK(b, r, x1)
    PROVE  LET e == U!Sign(b, r)
           IN  Sound(e) /\ Aside(b, e) /\ e.reserved = b.reserved - 1
  <1> DEFINE id == IF b.trust = None THEN None ELSE b.trust.id
             v == [key |-> b.key, set |-> id]
             row == [b.tasks[r] EXCEPT !.state = "dispatched", !.env = v]
             e == U!Appended([b EXCEPT !.tasks[r] = row], -1)
  <1>1. /\ b \in U!Database /\ b.tasks[r] \in U!TaskRow /\ b.key \in SignKeys
        /\ b.trust \in U!TrustSet \cup {None} /\ b.reserved = Owed(b)
    BY DEF Sound, U!Database
  <1>2. /\ b.tasks[r].state = "queued"
        /\ b.trust # None => U!CheckTrust(b.trust, b.key, b.tasks[r], x1)
    BY DEF U!SignOK
  <1>3. U!Sign(b, r) = e
    <2>1. [b EXCEPT !.tasks[r].state = "dispatched", !.tasks[r].env = v]
             = [b EXCEPT !.tasks[r] = row]
      BY <1>1 DEF U!Database, U!TaskRow
    <2> QED
      BY <2>1 DEF U!Sign
  <1>4. id \in Lineages \cup {None} /\ (b.trust # None => id = b.trust.id /\ id # None)
    BY <1>1, FlightConstants DEF U!TrustSet
  <1> HIDE DEF id
  <1>5. v \in U!Envelope /\ v.key = b.key /\ v.set = id /\ v # U!NoEnvelope
    BY <1>1, <1>4, FlightConstants DEF U!Envelope, U!NoEnvelope
  <1> HIDE DEF v
  <1>6. /\ row \in U!TaskRow /\ row.state = "dispatched" /\ row.env = v
        /\ row.created = b.tasks[r].created /\ row.expires = b.tasks[r].expires
        /\ row.node = b.tasks[r].node /\ row.policy = b.tasks[r].policy
        /\ row.result = b.tasks[r].result
    BY <1>1, <1>5 DEF U!TaskRow
  <1>7. -1 \in Int
    OBVIOUS
  <1> HIDE DEF row
  <1>8. /\ e \in U!Database /\ Aside(b, e) /\ e.tasks[r] = row
        /\ e.reserved = b.reserved + (-1)
        /\ \A p \in U!Reqs : p # r => e.tasks[p] = b.tasks[p] /\ RowSound(e, p)
    BY <1>6, <1>7, RowPut
  <1> HIDE DEF e
  <1>9. Owed(e) = Owed(b) - 1
    BY <1>2, <1>6, <1>8, RowCounts
  <1>10. RowSound(e, r)
    <2>1. b.tasks[r].policy # None /\ b.tasks[r].node = "n"
      BY <1>2 DEF Sound, RowSound
    <2>2. b.tasks[r].result = U!NoResult
      BY <1>2 DEF Sound, RowSound, U!Accounted, U!Statuses
    <2>3. U!Accounted(r, row)
      BY <1>5, <1>6, <2>1, <2>2 DEF U!Accounted
    <2>4. U!ResendOK(e, r, x1)
      <3>1. CASE b.trust = None
        <4>1. e.trust = None /\ e.key = b.key
          BY <1>8, <3>1 DEF Aside
        <4>2. row.env = [key |-> b.key, set |-> None]
          BY <1>6, <3>1 DEF v, id
        <4> QED
          BY <1>6, <1>8, <4>1, <4>2 DEF U!ResendOK
      <3>2. CASE b.trust # None
        <4>1. e.trust = b.trust
          BY <1>8 DEF Aside
        <4>2. U!CheckTrust(b.trust, b.key, row, x1)
          BY <1>2, <1>6, <3>2 DEF U!CheckTrust
        <4>3. U!Verifies(b.trust, row, x1)
          BY <1>4, <1>5, <1>6, <3>2, <4>2 DEF U!Verifies
        <4> QED
          BY <1>6, <1>8, <3>2, <4>1, <4>3 DEF U!ResendOK
      <3> QED
        BY <3>1, <3>2
    <2> QED
      BY <1>6, <1>8, <2>3, <2>4 DEF RowSound
  <1>11. b.reserved \in Int /\ e.reserved = b.reserved - 1 /\ e.reserved = Owed(e)
    BY <1>1, <1>8, <1>9, OwedNumber
  <1>12. Sound(e)
    BY <1>8, <1>10, <1>11 DEF Sound, Aside
  <1> QED
    BY <1>3, <1>8, <1>11, <1>12

\* A decided request is answered, for the first time or again.
LEMMA SubmitSound ==
    ASSUME NEW b, Sound(b), NEW r \in U!Reqs, x5.rows[r] \in U!Statuses,
           NEW v, v = [status |-> x5.rows[r], policy |-> b.tasks[r].policy],
           U!SubmitOK(b, "n", r, v)
    PROVE  LET e == U!Submit(b, r, v)
           IN  /\ Sound(e) /\ Aside(b, e) /\ e.reserved <= b.reserved
               /\ \A p \in U!Reqs : p # r => e.tasks[p] = b.tasks[p]
               /\ e.tasks[r] = b.tasks[r] \/ e.tasks[r].state \in U!Statuses
  <1>1. CASE b.tasks[r].result = v
    <2>1. U!Submit(b, r, v) = b
      BY <1>1 DEF U!Submit
    <2>2. b.reserved \in Int
      BY DEF Sound, U!Database
    <2> QED
      BY <2>1, <2>2 DEF Aside
  <1>2. CASE b.tasks[r].result # v
    <2> DEFINE row == [b.tasks[r] EXCEPT !.state = v.status, !.result = v]
               e == U!Appended([b EXCEPT !.tasks[r] = row], -1)
    <2>1. b \in U!Database /\ b.tasks[r] \in U!TaskRow /\ b.reserved = Owed(b)
      BY DEF Sound, U!Database
    <2>2. U!Submit(b, r, v) = e
      <3>1. [b EXCEPT !.tasks[r].state = v.status, !.tasks[r].result = v]
               = [b EXCEPT !.tasks[r] = row]
        BY <2>1 DEF U!Database, U!TaskRow
      <3> QED
        BY <1>2, <3>1 DEF U!Submit
    <2>3. b.tasks[r].state = "dispatched"
      BY <1>2 DEF U!SubmitOK
    <2>4. b.tasks[r].env # U!NoEnvelope /\ b.tasks[r].node = "n" /\ b.tasks[r].policy # None
      BY <2>3 DEF Sound, RowSound, U!Accounted
    <2>5. v \in U!Result /\ v.status = x5.rows[r]
      BY <2>1, <2>4 DEF U!Result, U!TaskRow
    <2>6. /\ row \in U!TaskRow /\ row.state = x5.rows[r] /\ row.result = v
          /\ row.env = b.tasks[r].env /\ row.node = b.tasks[r].node
          /\ row.policy = b.tasks[r].policy
      BY <2>1, <2>5 DEF U!TaskRow
    <2>7. -1 \in Int
      OBVIOUS
    <2> HIDE DEF row
    <2>8. /\ e \in U!Database /\ Aside(b, e) /\ e.tasks[r] = row
          /\ e.reserved = b.reserved + (-1)
          /\ \A p \in U!Reqs : p # r => e.tasks[p] = b.tasks[p] /\ RowSound(e, p)
      BY <2>6, <2>7, RowPut
    <2> HIDE DEF e
    <2>9. Owed(e) = Owed(b) - 1
      BY <2>3, <2>6, <2>8, RowCounts
    <2>10. RowSound(e, r)
      BY <2>4, <2>6, <2>8 DEF RowSound, U!Accounted, U!Statuses
    <2>11. e.reserved <= b.reserved /\ e.reserved = Owed(e)
      BY <2>1, <2>8, <2>9, OwedNumber
    <2>12. Sound(e)
      BY <2>8, <2>10, <2>11 DEF Sound, Aside
    <2> QED
      BY <2>2, <2>6, <2>8, <2>11, <2>12
  <1> QED
    BY <1>1, <1>2

\* The switch for dispatch, the trust set and the selected key.
LEMMA EventRow ==
    ASSUME NEW c \in U!Database
    PROVE  LET e == U!Appended(c, 0)
           IN  /\ e \in U!Database /\ Aside(c, e) /\ e.tasks = c.tasks
               /\ e.reserved = c.reserved
  <1> DEFINE z == 0
             e == U!Appended(c, z)
  <1>1. c.reserved \in Int
    BY DEF U!Database
  <1>2. z \in Int /\ z \in Nat /\ c.reserved + z = c.reserved
    BY <1>1
  <1>3. e = U!Appended(c, 0)
    OBVIOUS
  <1> HIDE DEF z
  <1>4. e \in U!Database /\ Aside(c, e) /\ e.tasks = c.tasks /\ e.reserved = c.reserved + z
    BY <1>2, AppendedRow
  <1> HIDE DEF e
  <1> QED
    BY <1>2, <1>3, <1>4

\* They leave the rows sound, if live envelopes verify under the new trust.
LEMMA HeadSound ==
    ASSUME NEW b, Sound(b), NEW e \in U!Database, e.tasks = b.tasks, e.nodes = b.nodes,
           e.reserved = b.reserved, e.trust = None => e.key = Pinned,
           \A r \in U!Dispatched(b) : b.tasks[r].expires > x1 => U!ResendOK(e, r, x1)
    PROVE  Sound(e)
  <1>1. U!Queued(e) = U!Queued(b) /\ U!Dispatched(e) = U!Dispatched(b)
    BY DEF U!Queued, U!Dispatched
  <1>2. \A r \in U!Reqs : RowSound(e, r)
    BY DEF Sound, RowSound, U!Dispatched
  <1> QED
    BY <1>1, <1>2 DEF Sound, Owed

-----------------------------------------------------------------------------
(* The steps.                                                              *)

\* Nothing on its way to the probe.
Quiet(b) ==
    U!Queued(b) = {} /\ \A r \in U!Dispatched(b) : ~(b.tasks[r].expires > x1)

LEMMA FlightFacts ==
    ASSUME U!InFlightInv
    PROVE  /\ U!BindingInv /\ Sound(x2) /\ x2 \in U!Database /\ x2.seq = 0
           /\ x2.reserved <= Capacity /\ x2.reserved \in Int /\ x1 \in Nat
           /\ x7 /\ x2.trust # x5.doc => x2.paused /\ Quiet(x2)
           /\ x5 \in U!Probe
  <1>1. U!BindingInv /\ Sound(x2) /\ U!EndsInStep /\ x2.seq = 0 /\ x2.reserved <= Capacity
    BY SoundInv
  <1>2. x2 \in U!Database /\ x2.reserved \in Int
    BY <1>1 DEF Sound, U!Database
  <1>3. x1 \in 1 .. U!Last /\ x5 \in U!Probe
    BY <1>1 DEF U!BindingInv, U!Typed
  <1>4. x1 \in Nat
    BY <1>3, RotationConstants
  <1>5. x7 /\ x2.trust # x5.doc => x2.paused /\ Quiet(x2)
    BY <1>1 DEF U!EndsInStep, Quiet, U!Drained, U!Live, U!Dispatched
  <1> QED
    BY <1>1, <1>2, <1>3, <1>4, <1>5

\* A transaction of the server commits e.
LEMMA Committed ==
    ASSUME U!InFlightInv, U!BindingInv', UNCHANGED <<x1, x7>>,
           x5'.rows = x5.rows, x5'.doc = x5.doc,
           NEW e, Sound(e), e.reserved <= Capacity, x2' = [e EXCEPT !.seq = 0],
           x7 /\ e.trust # x5.doc => e.paused /\ Quiet(e)
    PROVE  U!InFlightInv'
  <1> DEFINE c == [e EXCEPT !.seq = 0]
  <1>1. e \in U!Database
    BY DEF Sound
  <1>2. c \in U!Database /\ Aside(e, c) /\ c.tasks = e.tasks /\ c.seq = 0 /\ c.reserved = e.reserved
    BY <1>1, RecountedRow
  <1>3. x2' = c
    OBVIOUS
  <1> HIDE DEF c
  <1>4. Sound(c)
    BY <1>2, TasksStay
  <1>5. Sound(x2)'
    <2>1. ASSUME NEW r \in U!Reqs PROVE RowSound(x2, r)'
      <3>1. /\ U!Accounted(r, c.tasks[r])
            /\ c.tasks[r].state = "queued" => c.tasks[r].policy # None /\ c.tasks[r].node = "n"
            /\ c.tasks[r].state = "dispatched" /\ c.tasks[r].expires > x1 =>
                  U!ResendOK(c, r, x1)
        BY <1>4 DEF Sound, RowSound
      <3>2. U!Accounted(r, x2.tasks[r])'
        BY <1>3, <3>1 DEF U!Accounted
      <3>3. U!ResendOK(c, r, x1) => U!ResendOK(x2, r, x1)'
        BY <1>3
      <3> QED
        BY <1>3, <3>1, <3>2, <3>3 DEF RowSound
    <2>2. /\ x2' \in U!Database /\ x2'.nodes["n"].state = "enabled"
          /\ x2'.reserved = Owed(x2') /\ (x2'.trust = None => x2'.key = Pinned)
      BY <1>3, <1>4 DEF Sound
    <2> QED
      BY <2>1, <2>2 DEF Sound
  <1>6. U!EndsInStep'
    BY <1>2, <1>3 DEF U!EndsInStep, Quiet, Aside, U!Drained, U!Live, U!Queued, U!Dispatched
  <1>7. x2'.seq = 0 /\ x2'.reserved <= Capacity
    BY <1>2, <1>3
  <1> QED
    BY <1>5, <1>6, <1>7 DEF U!InFlightInv, Sound, RowSound, U!SlotsHeld, U!RowsAgree,
       U!Resendable, U!Live, U!Queued, Owed

LEMMA SubmitStep ==
    ASSUME U!InFlightInv, U!BindingInv', NEW r \in Asked, NEW ttl \in TTLs,
           U!SubmitTask(r, ttl)
    PROVE  U!InFlightInv'
  <1> DEFINE e == U!Enqueue(x2, r, "n", ttl, x1)
  <1>1. r \in U!Reqs /\ ttl \in Nat
    BY FlightConstants
  <1>2. /\ U!EnqueueOK(x2, r, "n", ttl, x1) /\ x2' = [e EXCEPT !.seq = 0]
        /\ UNCHANGED <<x1, x5, x7>>
    BY DEF U!SubmitTask, U!Serve
  <1>3. ~x2.paused
    BY <1>2 DEF U!EnqueueOK, U!EnqueueAllowed
  <1>4. Sound(e) /\ Aside(x2, e) /\ e.reserved <= Capacity
    BY <1>1, <1>2, FlightFacts, EnqueueSound
  <1> HIDE DEF e
  <1>5. x7 => e.trust = x5.doc
    BY <1>3, <1>4, FlightFacts DEF Aside
  <1> QED
    BY <1>2, <1>4, <1>5, Committed

LEMMA PollStep ==
    ASSUME U!InFlightInv, U!BindingInv', U!Poll
    PROVE  U!InFlightInv'
  <1> DEFINE c == U!Expire(x2, "n", x1)
  <1>1. ~x2.paused /\ UNCHANGED <<x1, x5, x7>>
    BY DEF U!Poll, U!PollNothing, U!PollSign, U!Polled, U!Serve
  <1>2. Sound(c) /\ Aside(x2, c) /\ c.reserved <= x2.reserved
    BY FlightFacts, ExpireSound
  <1>3. c.reserved \in Int /\ c.reserved <= Capacity
    <2>1. c.reserved \in Int
      BY <1>2 DEF Sound, U!Database
    <2> QED
      BY <1>2, <2>1, FlightFacts, FlightConstants
  <1>4. x7 => c.trust = x5.doc
    BY <1>1, <1>2, FlightFacts DEF Aside
  <1>5. CASE U!PollNothing
    <2>1. x2' = [c EXCEPT !.seq = 0]
      BY <1>5 DEF U!PollNothing, U!Serve
    <2> HIDE DEF c
    <2> QED
      BY <1>1, <1>2, <1>3, <1>4, <2>1, Committed
  <1>6. ASSUME NEW r \in U!Reqs, U!PollSign(r) PROVE U!InFlightInv'
    <2> DEFINE e == U!Sign(c, r)
    <2>1. U!SignOK(c, r, x1) /\ x2' = [e EXCEPT !.seq = 0]
      BY <1>6 DEF U!PollSign, U!Serve
    <2> HIDE DEF c
    <2>2. Sound(e) /\ Aside(c, e) /\ e.reserved = c.reserved - 1
      BY <1>2, <2>1, SignSound
    <2> HIDE DEF e
    <2>3. e.reserved <= Capacity /\ (x7 => e.trust = x5.doc)
      BY <1>3, <1>4, <2>2, FlightConstants DEF Aside
    <2> QED
      BY <1>1, <2>1, <2>2, <2>3, Committed
  <1> QED
    BY <1>5, <1>6 DEF U!Poll

LEMMA CancelStep ==
    ASSUME U!InFlightInv, U!BindingInv', U!CancelQueuedForSignerChange
    PROVE  U!InFlightInv'
  <1> DEFINE e == U!CancelQueued(x2)
  <1>1. x2' = [e EXCEPT !.seq = 0] /\ UNCHANGED <<x1, x5, x7>>
    BY DEF U!CancelQueuedForSignerChange, U!Serve
  <1>2. Sound(e) /\ Aside(x2, e) /\ e.reserved <= x2.reserved
    BY FlightFacts, CancelSound
  <1>3. U!Queued(e) = {}
    BY FlightFacts, CancelSound
  <1>4. U!Dispatched(e) = U!Dispatched(x2)
    BY FlightFacts, CancelSound
  <1>5. \A r \in U!Reqs \ U!Queued(x2) : e.tasks[r] = x2.tasks[r]
    BY FlightFacts, CancelSound
  <1> HIDE DEF e
  <1>6. e.reserved <= Capacity
    <2>1. e.reserved \in Int
      BY <1>2 DEF Sound, U!Database
    <2> QED
      BY <1>2, <2>1, FlightFacts, FlightConstants
  <1>7. Quiet(x2) => Quiet(e)
    BY <1>3, <1>4, <1>5 DEF Quiet, U!Queued, U!Dispatched
  <1>8. x7 /\ e.trust # x5.doc => e.paused /\ Quiet(e)
    BY <1>2, <1>7, FlightFacts DEF Aside
  <1> QED
    BY <1>1, <1>2, <1>6, <1>8, Committed

\* The switch for dispatch, the trust set and the selected key: if the rows
\* are sound under it, the new head is committed.
LEMMA HeadStep ==
    ASSUME U!InFlightInv, U!BindingInv', UNCHANGED <<x1, x5, x7>>,
           NEW e \in U!Database, e.tasks = x2.tasks, e.nodes = x2.nodes,
           e.reserved = x2.reserved, e.trust = None => e.key = Pinned,
           x2' = [e EXCEPT !.seq = 0],
           \A r \in U!Dispatched(x2) : x2.tasks[r].expires > x1 => U!ResendOK(e, r, x1),
           x7 /\ e.trust # x5.doc => e.paused /\ Quiet(x2)
    PROVE  U!InFlightInv'
  <1>1. Sound(e)
    BY FlightFacts, HeadSound
  <1>2. Quiet(x2) => Quiet(e)
    BY DEF Quiet, U!Queued, U!Dispatched
  <1>3. e.reserved <= Capacity
    BY FlightFacts
  <1> QED
    BY <1>1, <1>2, <1>3, Committed

LEMMA LiveResent ==
    ASSUME U!InFlightInv
    PROVE  /\ x2.trust = None => x2.key = Pinned
           /\ \A r \in U!Dispatched(x2) : x2.tasks[r].expires > x1 => U!ResendOK(x2, r, x1)
  BY DEF U!InFlightInv, U!Resendable, U!Live, U!Dispatched

LEMMA PauseStep ==
    ASSUME U!InFlightInv, U!BindingInv', NEW p \in BOOLEAN, U!PauseDispatch(p)
    PROVE  U!InFlightInv'
  <1> DEFINE c == [x2 EXCEPT !.paused = p]
             e == U!Appended(c, 0)
  <1>1. /\ x2' = [e EXCEPT !.seq = 0] /\ UNCHANGED <<x1, x5, x7>> /\ x2.paused # p
        /\ x7 /\ ~p => x2.trust = x5.doc
    BY DEF U!PauseDispatch, U!Pause, U!Serve
  <1>2. x2 \in U!Database /\ x2.key \in SignKeys /\ x2.trust \in U!TrustSet \cup {None}
    BY FlightFacts DEF U!Database
  <1>3. /\ e \in U!Database /\ e.tasks = x2.tasks /\ e.nodes = x2.nodes
        /\ e.key = x2.key /\ e.trust = x2.trust /\ e.paused = p /\ e.reserved = x2.reserved
    <2>1. /\ c \in U!Database /\ c.tasks = x2.tasks /\ c.nodes = x2.nodes
          /\ c.key = x2.key /\ c.trust = x2.trust /\ c.paused = p /\ c.reserved = x2.reserved
      BY <1>2 DEF U!Database
    <2> HIDE DEF c
    <2>2. e \in U!Database /\ Aside(c, e) /\ e.tasks = c.tasks /\ e.reserved = c.reserved
      BY <2>1, EventRow
    <2> HIDE DEF e
    <2> QED
      BY <2>1, <2>2 DEF Aside
  <1> HIDE DEF e
  <1>4. \A r \in U!Dispatched(x2) : x2.tasks[r].expires > x1 => U!ResendOK(e, r, x1)
    BY <1>3, LiveResent DEF U!ResendOK
  <1>5. x7 /\ e.trust # x5.doc => e.paused /\ Quiet(x2)
    BY <1>1, <1>3, FlightFacts
  <1> QED
    BY <1>1, <1>3, <1>4, <1>5, LiveResent, HeadStep

LEMMA InstallStep ==
    ASSUME U!InFlightInv, U!BindingInv', NEW s \in x4, U!InstallSignerTrust(s)
    PROVE  U!InFlightInv'
  <1> DEFINE c == [x2 EXCEPT !.trust = s]
             e == U!Appended(c, 0)
  <1>1. /\ x2' = [e EXCEPT !.seq = 0] /\ UNCHANGED <<x1, x5, x7>>
        /\ U!InstallOK(x2, s, x1) /\ (x7 => x5.doc = s)
    BY DEF U!InstallSignerTrust, U!Install, U!Serve
  <1>2. /\ x2 \in U!Database /\ x2.key \in SignKeys /\ x2.paused \in BOOLEAN
        /\ s \in U!TrustSet /\ s # None
    BY FlightFacts DEF U!Database, U!BindingInv, U!Typed, U!FilesSound
  <1>3. /\ e \in U!Database /\ e.tasks = x2.tasks /\ e.nodes = x2.nodes
        /\ e.key = x2.key /\ e.trust = s /\ e.paused = x2.paused /\ e.reserved = x2.reserved
    <2>1. /\ c \in U!Database /\ c.tasks = x2.tasks /\ c.nodes = x2.nodes
          /\ c.key = x2.key /\ c.trust = s /\ c.paused = x2.paused /\ c.reserved = x2.reserved
      BY <1>2 DEF U!Database
    <2> HIDE DEF c
    <2>2. e \in U!Database /\ Aside(c, e) /\ e.tasks = c.tasks /\ e.reserved = c.reserved
      BY <2>1, EventRow
    <2> HIDE DEF e
    <2> QED
      BY <2>1, <2>2 DEF Aside
  <1> HIDE DEF e
  <1>4. \A r \in U!Dispatched(x2) : x2.tasks[r].expires > x1 => U!ResendOK(e, r, x1)
    BY <1>1, <1>2, <1>3 DEF U!InstallOK, U!ResendOK, U!Dispatched
  <1>5. (x7 => e.trust = x5.doc) /\ e.trust # None
    BY <1>1, <1>2, <1>3
  <1> QED
    BY <1>1, <1>3, <1>4, <1>5, HeadStep

LEMMA SwitchStep ==
    ASSUME U!InFlightInv, U!BindingInv', NEW k \in SignKeys, U!SwitchSigner(k)
    PROVE  U!InFlightInv'
  <1> DEFINE c == [x2 EXCEPT !.key = k]
             e == U!Appended(c, 0)
  <1>1. x2' = [e EXCEPT !.seq = 0] /\ UNCHANGED <<x1, x5, x7>> /\ x2.trust # None
    BY DEF U!SwitchSigner, U!SwitchOK, U!Switch, U!Serve
  <1>2. /\ x2 \in U!Database /\ x2.trust \in U!TrustSet \cup {None}
        /\ x2.paused \in BOOLEAN
    BY FlightFacts DEF U!Database
  <1>3. /\ e \in U!Database /\ e.tasks = x2.tasks /\ e.nodes = x2.nodes
        /\ e.key = k /\ e.trust = x2.trust /\ e.paused = x2.paused /\ e.reserved = x2.reserved
    <2>1. /\ c \in U!Database /\ c.tasks = x2.tasks /\ c.nodes = x2.nodes
          /\ c.key = k /\ c.trust = x2.trust /\ c.paused = x2.paused /\ c.reserved = x2.reserved
      BY <1>2 DEF U!Database
    <2> HIDE DEF c
    <2>2. e \in U!Database /\ Aside(c, e) /\ e.tasks = c.tasks /\ e.reserved = c.reserved
      BY <2>1, EventRow
    <2> HIDE DEF e
    <2> QED
      BY <2>1, <2>2 DEF Aside
  <1> HIDE DEF e
  <1>4. \A r \in U!Dispatched(x2) : x2.tasks[r].expires > x1 => U!ResendOK(e, r, x1)
    BY <1>1, <1>3, LiveResent DEF U!ResendOK
  <1>5. x7 /\ e.trust # x5.doc => e.paused /\ Quiet(x2)
    BY <1>3, FlightFacts
  <1> QED
    BY <1>1, <1>3, <1>4, <1>5, HeadStep

LEMMA RestartStep ==
    ASSUME U!InFlightInv, U!BindingInv', NEW k \in SignKeys, U!RestartServer(k)
    PROVE  U!InFlightInv'
  <1>1. x2.key \in SignKeys
    BY FlightFacts DEF U!Database
  <1>2. x2.key = k
    BY <1>1, FlightConstants DEF U!RestartServer, U!ConfigureOK
  <1>3. x2' = [x2 EXCEPT !.seq = 0] /\ UNCHANGED <<x1, x5, x7>>
    BY <1>2 DEF U!RestartServer, U!Configure
  <1> QED
    BY <1>3, FlightFacts, Committed

LEMMA DeliverStep ==
    ASSUME U!InFlightInv, U!BindingInv', NEW r \in U!Reqs, U!Deliver(r)
    PROVE  U!InFlightInv'
  <1> DEFINE v == [status |-> x5.rows[r], policy |-> x2.tasks[r].policy]
             e == U!Submit(x2, r, v)
             ds == x5.delivered \cup {r}
  <1>1. /\ x2' = [e EXCEPT !.seq = 0] /\ UNCHANGED <<x1, x7>> /\ x5.rows[r] \in U!Statuses
        /\ x5' = [x5 EXCEPT !.delivered = ds] /\ U!SubmitOK(x2, "n", r, v)
    BY FlightFacts DEF U!Deliver, U!Probe
  <1> HIDE DEF ds
  <1>2. x5'.rows = x5.rows /\ x5'.doc = x5.doc
    BY <1>1, FlightFacts DEF U!Probe
  <1>3. v = [status |-> x5.rows[r], policy |-> x2.tasks[r].policy]
    OBVIOUS
  <1> HIDE DEF v
  <1>4. Sound(e) /\ Aside(x2, e) /\ e.reserved <= x2.reserved
    BY <1>1, <1>3, FlightFacts, SubmitSound
  <1>5. \A p \in U!Reqs : p # r => e.tasks[p] = x2.tasks[p]
    BY <1>1, <1>3, FlightFacts, SubmitSound
  <1>6. e.tasks[r] = x2.tasks[r] \/ e.tasks[r].state \in U!Statuses
    BY <1>1, <1>3, FlightFacts, SubmitSound
  <1> HIDE DEF e
  <1>7. e.reserved <= Capacity
    <2>1. e.reserved \in Int
      BY <1>4 DEF Sound, U!Database
    <2> QED
      BY <1>4, <2>1, FlightFacts, FlightConstants
  <1>8. Quiet(x2) => Quiet(e)
    BY <1>5, <1>6 DEF Quiet, U!Queued, U!Dispatched, U!Statuses
  <1>9. x7 /\ e.trust # x5.doc => e.paused /\ Quiet(e)
    BY <1>4, <1>8, FlightFacts DEF Aside
  <1> QED
    BY <1>1, <1>2, <1>4, <1>7, <1>9, Committed

LEMMA TickFlight ==
    ASSUME U!InFlightInv, U!BindingInv', U!Tick
    PROVE  U!InFlightInv'
  <1>1. x1' = x1 + 1 /\ UNCHANGED <<x2, x5, x7>>
    BY DEF U!Tick
  <1>2. x1 \in Nat /\ Sound(x2) /\ x2 \in U!Database
    BY FlightFacts
  <1>3. ASSUME NEW r \in U!Reqs, x2.tasks[r].state = "dispatched", x2.tasks[r].expires > x1'
        PROVE  x2.tasks[r].expires > x1 /\ U!ResendOK(x2, r, x1')
    <2>1. x2.tasks[r].expires \in Nat
      BY <1>2 DEF U!Database, U!TaskRow
    <2>2. x2.tasks[r].expires > x1
      BY <1>1, <1>2, <1>3, <2>1
    <2>3. U!ResendOK(x2, r, x1)
      BY <1>2, <1>3, <2>2 DEF Sound, RowSound
    <2>4. CASE x2.trust = None
      BY <2>2, <2>3, <2>4 DEF U!ResendOK
    <2>5. CASE x2.trust # None
      <3> DEFINE task == x2.tasks[r]
                 s == x2.trust
                 k == task.env.key
      <3>1. U!Verifies(s, task, x1)
        BY <2>3, <2>5 DEF U!ResendOK
      <3>2. /\ k \in U!Active(s) /\ s.keys[k].from <= x1 /\ s.keys[k].from <= task.created
            /\ task.expires <= s.keys[k].until
        BY <3>1 DEF U!Verifies, U!CheckTrust
      <3>3. s.keys[k].from \in Int /\ s.keys[k].until \in Int
        <4>1. s \in U!TrustSet
          BY <1>2, <2>5 DEF U!Database
        <4>2. k \in SignKeys
          BY <3>2 DEF U!Active
        <4>3. s.keys[k] \in U!TrustKey
          BY <4>1, <4>2 DEF U!TrustSet
        <4> QED
          BY <4>3 DEF U!TrustKey
      <3>4. s.keys[k].from <= x1' /\ x1' < s.keys[k].until
        BY <1>1, <1>2, <1>3, <2>1, <3>2, <3>3
      <3>5. U!CheckTrust(s, k, task, x1')
        BY <3>2, <3>4 DEF U!CheckTrust
      <3>6. U!Verifies(s, task, x1')
        BY <3>1, <3>5 DEF U!Verifies
      <3> QED
        BY <1>3, <2>2, <2>5, <3>6 DEF U!ResendOK
    <2> QED
      BY <2>2, <2>4, <2>5
  <1>4. U!Resendable'
    BY <1>1, <1>3 DEF U!InFlightInv, U!Resendable, U!Live
  <1>5. U!EndsInStep'
    <2>1. \A r \in U!Reqs : U!Live(r)' => U!Live(r)
      BY <1>1, <1>3 DEF U!Live
    <2> QED
      BY <1>1, <2>1 DEF U!InFlightInv, U!EndsInStep, U!Drained, U!Queued
  <1>6. (x2 \in U!Database)' /\ U!SlotsHeld' /\ U!RowsAgree'
    BY <1>1 DEF U!InFlightInv, U!SlotsHeld, U!RowsAgree, U!Accounted
  <1> QED
    BY <1>4, <1>5, <1>6 DEF U!InFlightInv

\* The database rests, and the probe changes or files come in.
LEMMA DatabaseRests ==
    ASSUME U!InFlightInv, U!BindingInv', UNCHANGED <<x1, x2, x7>>,
           \A r \in U!Reqs : \/ x5'.rows[r] = x5.rows[r]
                             \/ /\ x2.tasks[r].env # U!NoEnvelope
                                /\ x5.rows[r] \notin U!Statuses,
           x5'.doc = x5.doc \/ (x7 => x2.paused /\ U!Drained)
    PROVE  U!InFlightInv'
  <1>1. (x2 \in U!Database)' /\ U!SlotsHeld' /\ U!Resendable'
    BY DEF U!InFlightInv, U!SlotsHeld, U!Resendable, U!Live
  <1>2. ASSUME NEW r \in U!Reqs PROVE U!Accounted(r, x2.tasks[r])'
    <2>1. U!Accounted(r, x2.tasks[r])
      BY DEF U!InFlightInv, U!RowsAgree
    <2>2. CASE x5'.rows[r] = x5.rows[r]
      BY <2>1, <2>2 DEF U!Accounted
    <2>3. CASE x2.tasks[r].env # U!NoEnvelope /\ x5.rows[r] \notin U!Statuses
      BY <2>1, <2>3 DEF U!Accounted
    <2> QED
      BY <2>2, <2>3
  <1>3. U!RowsAgree'
    BY <1>2 DEF U!InFlightInv, U!RowsAgree
  <1>4. U!EndsInStep'
    BY DEF U!InFlightInv, U!EndsInStep, U!Drained, U!Live
  <1> QED
    BY <1>1, <1>3, <1>4 DEF U!InFlightInv

\* A row that is running was signed.
LEMMA RunningSigned ==
    ASSUME U!InFlightInv, NEW r \in U!Reqs, x5.rows[r] = "running"
    PROVE  x2.tasks[r].env # U!NoEnvelope
  BY DEF U!InFlightInv, U!RowsAgree, U!Accounted

LEMMA ProbeFlight ==
    ASSUME U!InFlightInv, U!BindingInv',
           \/ \E s \in x4 \cup {None} : U!PlaceFile(s)
           \/ U!StartWorker \/ U!StopWorker
           \/ \E r \in U!Reqs : U!Process(r) \/ U!Finish(r)
    PROVE  U!InFlightInv'
  <1>1. x5 \in U!Probe
    BY FlightFacts
  <1>2. ASSUME NEW s, U!PlaceFile(s) PROVE U!InFlightInv'
    <2>1. x5' = [x5 EXCEPT !.file = s] /\ UNCHANGED <<x1, x2, x7>>
      BY <1>2 DEF U!PlaceFile, U!Locally
    <2>2. x5'.rows = x5.rows /\ x5'.doc = x5.doc
      BY <1>1, <2>1 DEF U!Probe
    <2> QED
      BY <2>1, <2>2, DatabaseRests
  <1>3. CASE U!StopWorker
    <2>1. x5' = [x5 EXCEPT !.worker = "down", !.loaded = None] /\ UNCHANGED <<x1, x2, x7>>
      BY <1>3 DEF U!StopWorker, U!Locally
    <2>2. x5'.rows = x5.rows /\ x5'.doc = x5.doc
      BY <1>1, <2>1 DEF U!Probe
    <2> QED
      BY <2>1, <2>2, DatabaseRests
  <1>4. CASE U!StartWorker
    <2>1. x5' = U!Started(x5) /\ UNCHANGED <<x1, x2, x7>>
      BY <1>4 DEF U!StartWorker, U!Locally
    <2>2. CASE U!Bound(x5, x5.file)
      <3> DEFINE rs == [r \in U!Reqs |-> IF x5.rows[r] = "running"
                                         THEN "indeterminate" ELSE x5.rows[r]]
      <3>1. x5' = [x5 EXCEPT !.worker = "up", !.loaded = x5.file, !.rows = rs]
        BY <2>1, <2>2 DEF U!Started
      <3>2. \A r \in U!Reqs : rs[r] = x5.rows[r] \/ x5.rows[r] = "running"
        OBVIOUS
      <3> HIDE DEF rs
      <3>3. x5'.rows = rs /\ x5'.doc = x5.doc
        BY <1>1, <3>1 DEF U!Probe
      <3>4. "running" \notin U!Statuses
        BY DEF U!Statuses
      <3>5. \A r \in U!Reqs : \/ x5'.rows[r] = x5.rows[r]
                              \/ /\ x2.tasks[r].env # U!NoEnvelope
                                 /\ x5.rows[r] \notin U!Statuses
        BY <3>2, <3>3, <3>4, RunningSigned
      <3> QED
        BY <2>1, <3>3, <3>5, DatabaseRests
    <2>3. CASE ~U!Bound(x5, x5.file)
      <3>1. x5' = [x5 EXCEPT !.worker = "degraded"]
        BY <2>1, <2>3 DEF U!Started
      <3>2. x5'.rows = x5.rows /\ x5'.doc = x5.doc
        BY <1>1, <3>1 DEF U!Probe
      <3> QED
        BY <2>1, <3>2, DatabaseRests
    <2> QED
      BY <2>2, <2>3
  <1>5. ASSUME NEW r \in U!Reqs, U!Process(r) \/ U!Finish(r) PROVE U!InFlightInv'
    <2>1. PICK st : x5' = [x5 EXCEPT !.rows[r] = st] /\ UNCHANGED <<x1, x2, x7>>
      BY <1>5 DEF U!Process, U!Finish, U!Locally
    <2>2. x2.tasks[r].env # U!NoEnvelope /\ x5.rows[r] \notin U!Statuses
      <3>1. CASE U!Process(r)
        BY <3>1 DEF U!Process, U!Statuses
      <3>2. CASE U!Finish(r)
        BY <3>2, RunningSigned DEF U!Finish, U!Statuses
      <3> QED
        BY <1>5, <3>1, <3>2
    <2> DEFINE rs == [x5.rows EXCEPT ![r] = st]
    <2>3. x5' = [x5 EXCEPT !.rows = rs]
      BY <1>1, <2>1 DEF U!Probe
    <2>4. \A p \in U!Reqs : p # r => rs[p] = x5.rows[p]
      BY <1>1 DEF U!Probe
    <2> HIDE DEF rs
    <2>5. x5'.rows = rs /\ x5'.doc = x5.doc
      BY <1>1, <2>3 DEF U!Probe
    <2> QED
      BY <2>1, <2>2, <2>4, <2>5, DatabaseRests
  <1> QED
    BY <1>2, <1>3, <1>4, <1>5

LEMMA MigrateFlight ==
    ASSUME U!InFlightInv, U!BindingInv', NEW s, NEW t, U!MigrateTrust(s, t)
    PROVE  U!InFlightInv'
  <1>1. /\ x5' = U!Migrated(x5, t) /\ UNCHANGED <<x1, x2, x7>>
        /\ x7 => x2.paused /\ U!Drained
    BY DEF U!MigrateTrust, U!Locally
  <1>2. x5'.rows = x5.rows
    BY <1>1, FlightFacts DEF U!Migrated, U!Probe
  <1> QED
    BY <1>1, <1>2, DatabaseRests

LEMMA FlightStep ==
    ASSUME U!InFlightInv, U!Next PROVE U!InFlightInv'
  <1>1. U!BindingInv'
    BY FlightFacts, BindingStep
  <1>2. ASSUME NEW s, NEW id, NEW k, NEW o, NEW v, U!StageFile(s, id, k, o, v)
        PROVE  U!InFlightInv'
    BY <1>1, <1>2, DatabaseRests DEF U!StageFile
  <1>3. ASSUME NEW s, NEW k, U!RetireFile(s, k) PROVE U!InFlightInv'
    BY <1>1, <1>3, DatabaseRests DEF U!RetireFile
  <1>4. ASSUME NEW r \in U!Reqs, U!Process(r) \/ U!Finish(r) \/ U!Deliver(r)
        PROVE  U!InFlightInv'
    BY <1>1, <1>4, ProbeFlight, DeliverStep
  <1>5. CASE \/ \E s \in x4 \cup {None} : U!PlaceFile(s)
             \/ U!StartWorker \/ U!StopWorker
    BY <1>1, <1>5, ProbeFlight
  <1>6. CASE \/ \E r \in Asked, ttl \in TTLs : U!SubmitTask(r, ttl)
             \/ U!Poll
             \/ \E p \in BOOLEAN : U!PauseDispatch(p)
             \/ \E s \in x4 : U!InstallSignerTrust(s)
             \/ \E k \in SignKeys : U!SwitchSigner(k)
             \/ U!CancelQueuedForSignerChange
             \/ \E k \in SignKeys : U!RestartServer(k)
    BY <1>1, <1>6, SubmitStep, PollStep, PauseStep, InstallStep, SwitchStep, CancelStep,
       RestartStep
  <1> QED
    BY <1>1, <1>2, <1>3, <1>4, <1>5, <1>6, TickFlight, MigrateFlight DEF U!Next

LEMMA FlightInit == U!Init => U!InFlightInv
  <1> SUFFICES ASSUME U!Init PROVE U!InFlightInv
    OBVIOUS
  <1> DEFINE row == [state |-> "enabled", received |-> x1,
                     policy |-> CHOOSE p \in Digests : TRUE, ready |-> TRUE]
             ns == [n \in {"n"} |-> IF n = "n" THEN row ELSE U!NoNode]
             ts == [k \in {} |-> U!NoTokenRow]
             a == [r \in U!Reqs |-> U!NoTask]
  <1>1. /\ x1 = MaxLife + MaxSkew + 1
        /\ x2 = [nodes |-> ns, tokens |-> ts, tasks |-> a, key |-> Pinned, trust |-> None,
                 paused |-> FALSE, seq |-> 0, reserved |-> 1]
        /\ x5.doc = None /\ \A r \in U!Reqs : x5.rows[r] = "none"
    BY DEF U!Init
  <1>2. x1 \in Nat
    BY <1>1, RotationConstants
  <1>3. row \in U!NodeRow /\ row.state = "enabled"
    <2> DEFINE p == CHOOSE p \in Digests : TRUE
    <2>1. p \in Digests
      BY FlightConstants
    <2> HIDE DEF p
    <2> QED
      BY <1>2, <2>1 DEF U!NodeRow
  <1> HIDE DEF row
  <1>4. ns \in [{"n"} -> U!NodeRow] /\ ns["n"].state = "enabled"
    BY <1>3
  <1>5. ts \in [{} -> U!TokenRow]
    OBVIOUS
  <1>6. U!NoTask \in U!TaskRow /\ U!NoTask.state = "none" /\ U!NoTask.env = U!NoEnvelope
        /\ U!NoTask.result = U!NoResult
    BY DEF U!NoTask, U!TaskRow
  <1>7. a \in [U!Reqs -> U!TaskRow] /\ \A r \in U!Reqs : a[r] = U!NoTask
    BY <1>6
  <1> HIDE DEF ns, ts, a
  <1>8. /\ x2 \in U!Database /\ x2.nodes = ns /\ x2.tasks = a /\ x2.key = Pinned
        /\ x2.trust = None /\ x2.seq = 0 /\ x2.reserved = 1
    BY <1>1, <1>4, <1>5, <1>7, RotationConstants DEF U!Database
  <1>9. U!Queued(x2) = {} /\ U!Dispatched(x2) = {}
    BY <1>6, <1>7, <1>8 DEF U!Queued, U!Dispatched
  <1>10. U!Cardinality({}) = 0
    BY SameCardinality, FS_EmptySet
  <1>11. U!SlotsHeld
    <2>1. 1 <= Capacity
      BY FlightConstants
    <2> QED
      BY <1>4, <1>8, <1>9, <1>10, <2>1 DEF U!SlotsHeld
  <1>12. U!RowsAgree /\ U!Resendable
    BY <1>1, <1>6, <1>7, <1>8, <1>9 DEF U!RowsAgree, U!Accounted, U!Resendable, U!Live
  <1>13. U!EndsInStep
    BY <1>1, <1>8 DEF U!EndsInStep
  <1> QED
    BY <1>8, <1>11, <1>12, <1>13, BindingInit DEF U!InFlightInv

\* What the probe decided is acceptable, because its slot is still held.
LEMMA FlightAccepted ==
    ASSUME U!InFlightInv PROVE U!ResultsAcceptable
  <1> SUFFICES ASSUME NEW r \in U!Reqs, x5.rows[r] \in U!Statuses
               PROVE  U!SubmitOK(x2, "n", r,
                          [status |-> x5.rows[r], policy |-> x2.tasks[r].policy])
    BY DEF U!ResultsAcceptable
  <1>1. U!Accounted(r, x2.tasks[r]) /\ x2.nodes["n"].state = "enabled"
    BY DEF U!InFlightInv, U!RowsAgree, U!SlotsHeld
  <1>2. x2.tasks[r].env # U!NoEnvelope /\ x2.tasks[r].node = "n"
    BY <1>1 DEF U!Accounted, U!Statuses
  <1>3. CASE x2.tasks[r].state = "dispatched" /\ x2.tasks[r].result = U!NoResult
    <2>1. r \in U!Dispatched(x2)
      BY <1>3 DEF U!Dispatched
    <2>2. U!CanAppend(x2, -1)
      BY FlightFacts, OwedNumber DEF U!CanAppend, Sound, Owed
    <2> QED
      BY <1>1, <1>2, <1>3, <2>2 DEF U!SubmitOK
  <1>4. CASE x2.tasks[r].result = [status |-> x5.rows[r], policy |-> x2.tasks[r].policy]
    BY <1>1, <1>2, <1>4 DEF U!SubmitOK
  <1> QED
    BY <1>1, <1>2, <1>3, <1>4 DEF U!Accounted

LEMMA FlightLive ==
    ASSUME U!InFlightInv PROVE U!LiveAccepted
  <1> SUFFICES ASSUME x7, x5.worker = "up", NEW r \in U!Reqs, U!Live(r)
               PROVE  U!Accepts(x5.loaded, x2.tasks[r], x1) /\ U!ResendOK(x2, r, x1)
    BY DEF U!LiveAccepted
  <1>1. U!ResendOK(x2, r, x1) /\ (x2.trust = None => x2.key = Pinned)
    BY DEF U!InFlightInv, U!Resendable
  <1>2. x2.trust = x5.doc
    BY DEF U!InFlightInv, U!EndsInStep, U!Drained
  <1>3. x5.loaded = x5.doc
    BY DEF U!InFlightInv, U!BindingInv, U!WorkerBound
  <1> QED
    BY <1>1, <1>2, <1>3 DEF U!Accepts, U!ResendOK

(***************************************************************************)
(* A change of the signing key loses nothing, for any number of keys,      *)
(* lineages, files and tasks, any limits and any order of the commands of  *)
(* both operators, of restarts, polls and late results: a worker executes  *)
(* under the trust its replay state is bound to, each change of the        *)
(* binding is one event, and every stored result is one that the server    *)
(* still takes, with the slot of its audit event.  When the guide is       *)
(* followed, a running probe accepts, in every phase, what the server      *)
(* still delivers (MigrateTrust and open in internal/probe, Poll,          *)
(* SubmitResult, InstallSignerTrust and SwitchSigner in internal/state).   *)
(***************************************************************************)
THEOREM InFlightHolds == Spec => []InFlightSurvives
  <1> DEFINE Inv == part = "rotation" => U!InFlightInv
  <1>1. Init => Inv
    BY FlightInit DEF Init
  <1>2. Inv /\ [Next]_vars => Inv'
    <2> SUFFICES ASSUME Inv, [Next]_vars PROVE Inv'
      OBVIOUS
    <2>1. CASE UNCHANGED vars
      <3>1. U!BindingInv => U!BindingInv'
        BY <2>1 DEF vars, above7, U!BindingInv, U!Typed, U!Last, U!WorkerBound,
           U!OneEventEach, U!FilesSound, U!DocKnown, U!DeadKept
      <3>2. CASE part = "rotation"
        <4>1. U!InFlightInv /\ UNCHANGED <<x1, x2, x5, x7>>
          BY <2>1, <3>2 DEF vars, above7
        <4> QED
          BY <3>1, <4>1, FlightFacts, DatabaseRests
      <3> QED
        BY <2>1, <3>2 DEF vars
    <2>2. CASE part = "rotation" /\ U!Next /\ UNCHANGED part
      BY <2>2, FlightStep
    <2>3. CASE part # "rotation" /\ part' = part
      BY <2>3
    <2> QED
      BY <2>1, <2>2, <2>3 DEF Next, Rotate, Enroll, Administer, Admit, Beat, AuditFiles,
         Read, CheckFrame, Query
  <1>3. Inv => InFlightSurvives
    BY FlightAccepted, FlightLive DEF InFlightSurvives, U!InFlightInv, U!BindingInv, U!TypeOK
  <1> QED
    BY <1>1, <1>2, <1>3, PTL DEF Spec

-----------------------------------------------------------------------------
(* Enrollment.  x2 is the server's database, x3 the directory that each    *)
(* node is pinned to, x4 the requests under way, x5 the answers, x6 the    *)
(* runs and x7 what is on their disks.                                     *)

LEMMA EnrollConstants ==
    /\ None \notin Dirs /\ None \notin Tickets /\ LastTime \in Nat \ {0}
    /\ "none" \notin Names /\ "refused" \notin Names /\ TTLs \subseteq Nat
  BY PartsAssumption DEF E!EnrollmentAssumption

\* A database with its tables given.
LEMMA TablesMade ==
    ASSUME NEW b, NEW n, NEW t, NEW a, NEW k, NEW r, NEW p, NEW s, NEW v,
           b = [nodes |-> n, tokens |-> t, tasks |-> a, key |-> k, trust |-> r,
                paused |-> p, seq |-> s, reserved |-> v]
    PROVE  E!Tables(b) /\ b.nodes = n /\ b.tokens = t
  BY DEF E!Tables

LEMMA AppendedTables ==
    ASSUME NEW b, E!Tables(b), NEW delta
    PROVE  /\ E!Tables(E!Appended(b, delta)) /\ E!Appended(b, delta).nodes = b.nodes
           /\ E!Appended(b, delta).tokens = b.tokens
  <1> DEFINE s == b.seq + 1
             v == b.reserved + delta
  <1>1. E!Appended(b, delta) = [b EXCEPT !.seq = s, !.reserved = v]
    BY DEF E!Appended
  <1> HIDE DEF s, v
  <1>2. E!Appended(b, delta) =
          [nodes |-> b.nodes, tokens |-> b.tokens, tasks |-> b.tasks, key |-> b.key,
           trust |-> b.trust, paused |-> b.paused, seq |-> s, reserved |-> v]
    BY <1>1 DEF E!Tables
  <1> QED
    BY <1>2, TablesMade

LEMMA AppendedEachTables ==
    ASSUME NEW b, E!Tables(b), NEW m, NEW delta
    PROVE  /\ E!Tables(E!AppendedEach(b, m, delta))
           /\ E!AppendedEach(b, m, delta).nodes = b.nodes
           /\ E!AppendedEach(b, m, delta).tokens = b.tokens
  <1> DEFINE s == b.seq + m
             v == b.reserved + m * delta
  <1>1. E!AppendedEach(b, m, delta) = [b EXCEPT !.seq = s, !.reserved = v]
    BY DEF E!AppendedEach
  <1> HIDE DEF s, v
  <1>2. E!AppendedEach(b, m, delta) =
          [nodes |-> b.nodes, tokens |-> b.tokens, tasks |-> b.tasks, key |-> b.key,
           trust |-> b.trust, paused |-> b.paused, seq |-> s, reserved |-> v]
    BY <1>1 DEF E!Tables
  <1> QED
    BY <1>2, TablesMade

LEMMA ClosedTables ==
    ASSUME NEW b, E!Tables(b), NEW R, NEW st
    PROVE  /\ E!Tables(E!Closed(b, R, st)) /\ E!Closed(b, R, st).nodes = b.nodes
           /\ E!Closed(b, R, st).tokens = b.tokens
  <1> DEFINE a == [r \in E!Reqs |->
                     IF r \in R THEN [b.tasks[r] EXCEPT !.state = st] ELSE b.tasks[r]]
  <1>1. E!Closed(b, R, st) = [b EXCEPT !.tasks = a]
    BY DEF E!Closed
  <1> HIDE DEF a
  <1>2. E!Closed(b, R, st) =
          [nodes |-> b.nodes, tokens |-> b.tokens, tasks |-> a, key |-> b.key,
           trust |-> b.trust, paused |-> b.paused, seq |-> b.seq, reserved |-> b.reserved]
    BY <1>1 DEF E!Tables
  <1> QED
    BY <1>2, TablesMade

LEMMA CancelTables ==
    ASSUME NEW b, E!Tables(b), NEW n
    PROVE  /\ E!Tables(E!Cancel(b, n)) /\ E!Cancel(b, n).nodes = b.nodes
           /\ E!Cancel(b, n).tokens = b.tokens
  <1> DEFINE q == E!Queued(b) \cap E!Of(b, n)
             s == E!Dispatched(b) \cap E!Of(b, n)
             c == E!Closed(b, q, "rejected")
             e == E!Closed(c, s, "indeterminate")
             f == E!AppendedEach(e, E!Cardinality(q), -2)
  <1>1. E!Cancel(b, n) = E!AppendedEach(f, E!Cardinality(s), -1)
    BY DEF E!Cancel
  <1>2. E!Tables(c) /\ c.nodes = b.nodes /\ c.tokens = b.tokens
    BY ClosedTables
  <1> HIDE DEF c
  <1>3. E!Tables(e) /\ e.nodes = b.nodes /\ e.tokens = b.tokens
    BY <1>2, ClosedTables
  <1> HIDE DEF e
  <1>4. E!Tables(f) /\ f.nodes = b.nodes /\ f.tokens = b.tokens
    BY <1>3, AppendedEachTables
  <1> HIDE DEF f
  <1> QED
    BY <1>1, <1>4, AppendedEachTables

\* No node is forgotten, and no token becomes good again.
LEMMA DisableTables ==
    ASSUME NEW b, E!Tables(b), b.nodes \in [Names -> E!NodeRow], NEW n \in Names
    PROVE  /\ E!Tables(E!Disable(b, n)) /\ E!Disable(b, n).tokens = b.tokens
           /\ E!Disable(b, n).nodes \in [Names -> E!NodeRow]
           /\ \A m \in Names : b.nodes[m].state # "none" =>
                                   E!Disable(b, n).nodes[m].state # "none"
  <1>1. CASE b.nodes[n].state = "enabled"
    <2> DEFINE c == E!Cancel(b, n)
               ns == [b.nodes EXCEPT ![n].state = "disabled"]
               e == [c EXCEPT !.nodes[n].state = "disabled"]
    <2>1. E!Disable(b, n) = E!Appended(e, -1)
      BY <1>1 DEF E!Disable
    <2>2. E!Tables(c) /\ c.nodes = b.nodes /\ c.tokens = b.tokens
      BY CancelTables
    <2> HIDE DEF c
    <2>3. e = [nodes |-> ns, tokens |-> b.tokens, tasks |-> c.tasks, key |-> c.key,
               trust |-> c.trust, paused |-> c.paused, seq |-> c.seq,
               reserved |-> c.reserved]
      BY <2>2 DEF E!Tables
    <2>4. /\ ns \in [Names -> E!NodeRow]
          /\ \A m \in Names : b.nodes[m].state # "none" => ns[m].state # "none"
      BY DEF E!NodeRow
    <2> HIDE DEF ns, e
    <2>5. E!Tables(e) /\ e.nodes = ns /\ e.tokens = b.tokens
      BY <2>3, TablesMade
    <2> QED
      BY <2>1, <2>4, <2>5, AppendedTables
  <1>2. CASE b.nodes[n].state # "enabled"
    <2>1. E!Disable(b, n) = E!Appended(b, 0)
      BY <1>2 DEF E!Disable
    <2> QED
      BY <2>1, AppendedTables
  <1> QED
    BY <1>1, <1>2

LEMMA IssueTables ==
    ASSUME NEW b, E!Tables(b), b.tokens \in [Tickets -> E!TokenRow], NEW k \in Tickets,
           NEW ttl \in Nat, NEW t \in Nat
    PROVE  /\ E!Tables(E!IssueToken(b, k, ttl, t))
           /\ E!IssueToken(b, k, ttl, t).nodes = b.nodes
           /\ E!IssueToken(b, k, ttl, t).tokens \in [Tickets -> E!TokenRow]
           /\ \A l \in Tickets \ {k} :
                 E!IssueToken(b, k, ttl, t).tokens[l].state = "pending" =>
                     b.tokens[l].state = "pending"
  <1> DEFINE x == t + ttl
             row == [state |-> "pending", expires |-> x]
             swept == [l \in Tickets |->
                         IF b.tokens[l].state = "consumed" \/ b.tokens[l].expires <= t
                         THEN E!NoTokenRow ELSE b.tokens[l]]
             ts == [swept EXCEPT ![k] = row]
             c == E!Swept(b, t)
             e == [c EXCEPT !.tokens[k] = row]
  <1>1. E!IssueToken(b, k, ttl, t) = E!Appended(e, 0)
    BY DEF E!IssueToken
  <1>2. x \in Nat
    OBVIOUS
  <1> HIDE DEF x
  <1>3. row \in E!TokenRow /\ E!NoTokenRow \in E!TokenRow /\ E!NoTokenRow.state = "none"
    BY <1>2 DEF E!TokenRow, E!NoTokenRow
  <1> HIDE DEF row
  <1>4. /\ swept \in [Tickets -> E!TokenRow]
        /\ \A l \in Tickets : swept[l].state = "pending" => b.tokens[l].state = "pending"
    BY <1>3
  <1>5. c = [b EXCEPT !.tokens = swept]
    BY DEF E!Swept
  <1> HIDE DEF swept
  <1>6. c = [nodes |-> b.nodes, tokens |-> swept, tasks |-> b.tasks, key |-> b.key,
             trust |-> b.trust, paused |-> b.paused, seq |-> b.seq, reserved |-> b.reserved]
    BY <1>5 DEF E!Tables
  <1> HIDE DEF c
  <1>7. e = [nodes |-> b.nodes, tokens |-> ts, tasks |-> b.tasks, key |-> b.key,
             trust |-> b.trust, paused |-> b.paused, seq |-> b.seq, reserved |-> b.reserved]
    BY <1>6
  <1>8. /\ ts \in [Tickets -> E!TokenRow]
        /\ \A l \in Tickets \ {k} : ts[l].state = "pending" => b.tokens[l].state = "pending"
    BY <1>3, <1>4
  <1> HIDE DEF ts, e
  <1>9. E!Tables(e) /\ e.nodes = b.nodes /\ e.tokens = ts
    BY <1>7, TablesMade
  <1> QED
    BY <1>1, <1>8, <1>9, AppendedTables

LEMMA RegisterTables ==
    ASSUME NEW b, E!Tables(b), b.nodes \in [Names -> E!NodeRow],
           b.tokens \in [Tickets -> E!TokenRow], NEW k \in Tickets, NEW n \in Names
    PROVE  /\ E!Tables(E!Register(b, k, n))
           /\ E!Register(b, k, n).nodes \in [Names -> E!NodeRow]
           /\ E!Register(b, k, n).tokens \in [Tickets -> E!TokenRow]
           /\ E!Register(b, k, n).nodes[n].state # "none"
           /\ E!Register(b, k, n).tokens[k].state # "pending"
           /\ \A m \in Names \ {n} : E!Register(b, k, n).nodes[m] = b.nodes[m]
           /\ \A l \in Tickets \ {k} : E!Register(b, k, n).tokens[l] = b.tokens[l]
  <1> DEFINE ns == [b.nodes EXCEPT ![n].state = "enabled"]
             ts == [b.tokens EXCEPT ![k].state = "consumed"]
             e == [b EXCEPT !.tokens[k].state = "consumed", !.nodes[n].state = "enabled"]
  <1>1. E!Register(b, k, n) = E!Appended(e, 1)
    BY DEF E!Register
  <1>6. e = [b EXCEPT !.tokens = ts, !.nodes = ns]
    BY DEF E!Tables
  <1>3. /\ ns \in [Names -> E!NodeRow] /\ ns[n].state = "enabled"
        /\ \A m \in Names \ {n} : ns[m] = b.nodes[m]
    BY DEF E!NodeRow
  <1>4. /\ ts \in [Tickets -> E!TokenRow] /\ ts[k].state = "consumed"
        /\ \A l \in Tickets \ {k} : ts[l] = b.tokens[l]
    BY DEF E!TokenRow
  <1> HIDE DEF ns, ts, e
  <1>2. e = [nodes |-> ns, tokens |-> ts, tasks |-> b.tasks, key |-> b.key,
             trust |-> b.trust, paused |-> b.paused, seq |-> b.seq, reserved |-> b.reserved]
    BY <1>6 DEF E!Tables
  <1>5. E!Tables(e) /\ e.nodes = ns /\ e.tokens = ts
    BY <1>2, TablesMade
  <1> QED
    BY <1>1, <1>3, <1>4, <1>5, AppendedTables

LEMMA EnrollTypes ==
    ASSUME E!EnrollmentInv
    PROVE  /\ x1 \in 1 .. LastTime /\ x2.nodes \in [Names -> E!NodeRow]
           /\ x2.tokens \in [Tickets -> E!TokenRow] /\ E!Tables(x2)
           /\ x3 \in [Names -> Dirs \cup {None}] /\ x4 \subseteq Dirs
           /\ x5 \in [Dirs -> E!Answer] /\ x6 \in [Dirs -> E!Run]
           /\ x7 \in [Dirs -> E!Disk]
  BY DEF E!EnrollmentInv, E!TypeOK

\* The clock and the database go on; the tokens of runs do not come back.
LEMMA DatabaseStep ==
    ASSUME E!EnrollmentInv, UNCHANGED <<x3, x4, x5, x6, x7>>, x1' \in 1 .. LastTime,
           E!Tables(x2'), x2'.nodes \in [Names -> E!NodeRow],
           x2'.tokens \in [Tickets -> E!TokenRow],
           \A n \in Names : x2.nodes[n].state # "none" => x2'.nodes[n].state # "none",
           \A e \in Dirs : x6[e].token \in Tickets =>
              (x2'.tokens[x6[e].token].state = "pending" =>
                  x2.tokens[x6[e].token].state = "pending")
    PROVE  E!EnrollmentInv'
  <1> USE DEF E!EnrollmentInv
  <1>1. E!TypeOK'
    BY DEF E!TypeOK
  <1>2. E!Kept' /\ E!KeyBeforeNode' /\ E!OneIdentityEach'
    BY DEF E!Kept, E!KeyBeforeNode, E!OneIdentityEach, E!Has
  <1>3. E!Unsent' /\ E!UnderWay' /\ E!Declined' /\ E!Granted'
    BY DEF E!Unsent, E!UnderWay, E!Declined, E!Granted, E!Has, E!Unknown, E!KeyKept
  <1>4. E!Registered'
    <2> SUFFICES ASSUME NEW n \in Names, x3[n] # None
                 PROVE  /\ x2'.nodes[n].state # "none" /\ x6[x3[n]].pc # "none"
                        /\ x2'.tokens[x6[x3[n]].token].state # "pending"
      BY DEF E!Registered
    <2>1. /\ x2.nodes[n].state # "none" /\ x6[x3[n]].pc # "none"
          /\ x2.tokens[x6[x3[n]].token].state # "pending"
      BY DEF E!Registered
    <2>2. x3[n] \in Dirs
      BY EnrollTypes
    <2>3. x6[x3[n]].token \in Tickets
      BY <2>1, <2>2 DEF E!Unsent
    <2> QED
      BY <2>1, <2>2, <2>3
  <1> QED
    BY <1>1, <1>2, <1>3, <1>4

LEMMA TokenStep ==
    ASSUME E!EnrollmentInv, NEW k \in Tickets, NEW ttl \in TTLs, E!NewToken(k, ttl)
    PROVE  E!EnrollmentInv'
  <1>1. /\ x2' = E!IssueToken(x2, k, ttl, x1) /\ \A e \in Dirs : x6[e].token # k
        /\ UNCHANGED <<x1, x3, x4, x5, x6, x7>>
    BY DEF E!NewToken
  <1>2. x1 \in Nat /\ ttl \in Nat
    <2>1. x1 \in 1 .. LastTime
      BY EnrollTypes
    <2> QED
      BY <2>1, EnrollConstants
  <1>3. /\ E!Tables(x2') /\ x2'.nodes = x2.nodes /\ x2'.tokens \in [Tickets -> E!TokenRow]
        /\ \A l \in Tickets \ {k} : x2'.tokens[l].state = "pending" =>
                                        x2.tokens[l].state = "pending"
    BY <1>1, <1>2, EnrollTypes, IssueTables
  <1> QED
    BY <1>1, <1>3, EnrollTypes, DatabaseStep

LEMMA DisableStep ==
    ASSUME E!EnrollmentInv, NEW n \in Names, E!DisableNode(n) PROVE E!EnrollmentInv'
  <1>1. x2' = E!Disable(x2, n) /\ UNCHANGED <<x1, x3, x4, x5, x6, x7>>
    BY DEF E!DisableNode
  <1>2. /\ E!Tables(x2') /\ x2'.tokens = x2.tokens /\ x2'.nodes \in [Names -> E!NodeRow]
        /\ \A m \in Names : x2.nodes[m].state # "none" => x2'.nodes[m].state # "none"
    BY <1>1, EnrollTypes, DisableTables
  <1> QED
    BY <1>1, <1>2, EnrollTypes, DatabaseStep

LEMMA ClockStep ==
    ASSUME E!EnrollmentInv, E!Tick PROVE E!EnrollmentInv'
  <1>1. x1 < LastTime /\ x1' = x1 + 1 /\ UNCHANGED <<x2, x3, x4, x5, x6, x7>>
    BY DEF E!Tick
  <1>2. x1' \in 1 .. LastTime
    <2>1. x1 \in 1 .. LastTime /\ LastTime \in Nat
      BY EnrollTypes, EnrollConstants
    <2> QED
      BY <1>1, <2>1
  <1> QED
    BY <1>1, <1>2, EnrollTypes, DatabaseStep

\* The server refuses, or the request is lost.
LEMMA RefuseStep ==
    ASSUME E!EnrollmentInv, NEW e \in Dirs, E!Refused(e) \/ E!Lose(e)
    PROVE  E!EnrollmentInv'
  <1> USE DEF E!EnrollmentInv
  <1>1. /\ e \in x4 /\ x4' = x4 \ {e} /\ UNCHANGED <<x1, x2, x3, x6, x7>>
        /\ x5' = x5 \/ x5' = [x5 EXCEPT ![e] = "refused"]
    BY DEF E!Refused, E!Lose
  <1>2. /\ x5' \in [Dirs -> E!Answer] /\ x5'[e] \in {x5[e], "refused"}
        /\ \A c \in Dirs : c # e => x5'[c] = x5[c]
    BY <1>1, EnrollTypes DEF E!Answer
  <1>3. x5[e] = "none" /\ E!Unknown(e) /\ x6[e].pc # "none"
    BY <1>1 DEF E!UnderWay
  <1>4. E!TypeOK'
    BY <1>1, <1>2 DEF E!TypeOK
  <1>5. E!Kept' /\ E!KeyBeforeNode' /\ E!OneIdentityEach' /\ E!Registered'
    BY <1>1 DEF E!Kept, E!KeyBeforeNode, E!OneIdentityEach, E!Has, E!Registered
  <1>6. E!Unsent'
    BY <1>1, <1>2, <1>3 DEF E!Unsent, E!Unknown
  <1>7. E!UnderWay'
    BY <1>1, <1>2, EnrollTypes DEF E!UnderWay, E!Unknown, E!KeyKept, E!Has
  <1>8. E!Declined'
    BY <1>1, <1>2, <1>3 DEF E!Declined, E!Unknown
  <1>9. E!Granted'
    BY <1>1, <1>2, <1>3, EnrollConstants DEF E!Granted, E!Unknown, E!Has
  <1> QED
    BY <1>1, <1>4, <1>5, <1>6, <1>7, <1>8, <1>9

\* The server registers a node for the key of the directory.
LEMMA EnrolledStep ==
    ASSUME E!EnrollmentInv, NEW e \in Dirs, NEW n \in Names, E!Enrolled(e, n)
    PROVE  E!EnrollmentInv'
  <1> USE DEF E!EnrollmentInv
  <1> DEFINE k == x6[e].token
  <1>1. /\ e \in x4 /\ x2' = E!Register(x2, k, n) /\ x3' = [x3 EXCEPT ![n] = e]
        /\ x4' = x4 \ {e} /\ x5' = [x5 EXCEPT ![e] = n] /\ UNCHANGED <<x1, x6, x7>>
        /\ x2.tokens[k].state = "pending" /\ x2.nodes[n].state = "none"
    BY DEF E!Enrolled, E!RegisterOK
  <1>2. /\ x5[e] = "none" /\ x6[e].pc # "none" /\ E!KeyKept(e)
        /\ \A m \in Names : x3[m] # e
    BY <1>1 DEF E!UnderWay, E!Unknown
  <1>3. k \in Tickets
    BY <1>2 DEF E!Unsent
  <1> HIDE DEF k
  <1>4. /\ E!Tables(x2') /\ x2'.nodes \in [Names -> E!NodeRow]
        /\ x2'.tokens \in [Tickets -> E!TokenRow]
        /\ x2'.nodes[n].state # "none" /\ x2'.tokens[k].state # "pending"
        /\ \A m \in Names \ {n} : x2'.nodes[m] = x2.nodes[m]
        /\ \A l \in Tickets \ {k} : x2'.tokens[l] = x2.tokens[l]
    BY <1>1, <1>3, EnrollTypes, RegisterTables
  <1>5. /\ x3' \in [Names -> Dirs \cup {None}] /\ x3'[n] = e /\ x3[n] = None
        /\ \A m \in Names : m # n => x3'[m] = x3[m]
    <2>1. x3[n] = None
      BY <1>1 DEF E!Registered
    <2> QED
      BY <1>1, <2>1, EnrollTypes
  <1>6. /\ x5' \in [Dirs -> E!Answer] /\ x5'[e] = n
        /\ \A c \in Dirs : c # e => x5'[c] = x5[c]
    BY <1>1, EnrollTypes DEF E!Answer
  <1>7. E!TypeOK'
    BY <1>1, <1>4, <1>5, <1>6 DEF E!TypeOK
  <1>8. E!Kept'
    BY <1>1 DEF E!Kept
  <1>9. \A c \in Dirs : c # e => (E!Unknown(c) <=> E!Unknown(c)')
    BY <1>5, EnrollConstants DEF E!Unknown
  <1>10. E!Unsent'
    BY <1>1, <1>6, <1>9 DEF E!Unsent
  <1>11. E!UnderWay'
    BY <1>1, <1>6, <1>9, EnrollTypes DEF E!UnderWay, E!KeyKept, E!Has
  <1>12. E!Declined'
    <2>1. x6[e].pc # "rejected" /\ n # "refused"
      BY <1>2, EnrollConstants DEF E!Declined
    <2> QED
      BY <1>1, <1>6, <1>9, <2>1 DEF E!Declined
  <1>13. E!Granted'
    <2>1. \A c \in Dirs : c # e /\ x5[c] \in Names => x3'[x5[c]] = c
      BY <1>2, <1>5, EnrollConstants DEF E!Granted
    <2>2. ~E!Unknown(e)'
      BY <1>5 DEF E!Unknown
    <2> QED
      BY <1>1, <1>5, <1>6, <1>9, <2>1, <2>2 DEF E!Granted, E!Has
  <1>14. E!KeyBeforeNode'
    BY <1>1, <1>2, <1>5 DEF E!KeyBeforeNode, E!KeyKept, E!Has
  <1>15. ASSUME NEW m \in Names, m # n, x3[m] # None
         PROVE  /\ x3[m] # e /\ x6[x3[m]].token # k /\ x6[x3[m]].token \in Tickets
                /\ x6[x3[m]].pc # "none"
                /\ x2'.tokens[x6[x3[m]].token].state # "pending"
    <2>1. x3[m] \in Dirs /\ x3[m] # e
      BY <1>2, <1>15, EnrollTypes
    <2>2. x6[x3[m]].pc # "none" /\ x2.tokens[x6[x3[m]].token].state # "pending"
      BY <1>15 DEF E!Registered
    <2>3. x6[x3[m]].token \in Tickets
      BY <2>1, <2>2 DEF E!Unsent
    <2> QED
      BY <1>1, <1>4, <2>1, <2>2, <2>3
  <1>16. E!Registered'
    BY <1>1, <1>2, <1>4, <1>5, <1>15 DEF E!Registered, k
  <1>17. E!OneIdentityEach'
    BY <1>1, <1>5, <1>15 DEF E!OneIdentityEach, k
  <1> QED
    BY <1>4, <1>7, <1>8, <1>10, <1>11, <1>12, <1>13, <1>14, <1>16, <1>17

\* One run goes on.
LEMMA RunKeeps ==
    ASSUME E!EnrollmentInv, NEW e \in Dirs, NEW row \in E!Run, NEW k \in E!Disk,
           UNCHANGED <<x1, x2, x3, x5>>, x4' = x4 \/ x4' = x4 \cup {e},
           x6' = [x6 EXCEPT ![e] = row], x7' = [x7 EXCEPT ![e] = k],
           E!Laid(k), E!Reached(k, row.pc), row.pc # "none", row.token \in Tickets,
           x6[e].pc # "none" => row.token = x6[e].token,
           row.pc \in {"made", "keyed", "synced"} =>
              x6[e].pc \in {"none", "made", "keyed", "synced"},
           x4' # x4 => x6[e].pc = "synced" /\ row.pc = "waiting",
           E!KeyKept(e) => "key" \in k.whole /\ 2 <= k.safe,
           row.pc = "rejected" => x5[e] = "refused",
           row.pc \in {"answered", "certified", "marked", "ok"} \/ "identity" \in k.whole =>
              ~E!Unknown(e)
    PROVE  E!EnrollmentInv'
  <1> USE DEF E!EnrollmentInv
  <1>1. /\ x6' \in [Dirs -> E!Run] /\ x6'[e] = row
        /\ \A c \in Dirs : c # e => x6'[c] = x6[c]
    BY EnrollTypes
  <1>2. /\ x7' \in [Dirs -> E!Disk] /\ x7'[e] = k
        /\ \A c \in Dirs : c # e => x7'[c] = x7[c]
    BY EnrollTypes
  <1>3. E!TypeOK'
    BY <1>1, <1>2 DEF E!TypeOK
  <1>4. E!Kept'
    BY <1>1, <1>2 DEF E!Kept
  <1>5. \A c \in Dirs : E!KeyKept(c) => E!KeyKept(c)'
    BY <1>2 DEF E!KeyKept, E!Has
  <1>6. \A c \in Dirs : E!Unknown(c) <=> E!Unknown(c)'
    BY DEF E!Unknown
  <1>7. e \in x4' /\ e \notin x4 =>
           x6[e].pc = "synced" /\ row.pc = "waiting" /\ E!KeyKept(e)'
    <2>1. row.pc = "waiting" => k.whole = {"key"} /\ k.safe = 2
      BY DEF E!Reached, E!Whole, E!Safe
    <2>2. 2 <= 2
      OBVIOUS
    <2> QED
      BY <1>2, <2>1, <2>2 DEF E!KeyKept, E!Has
  <1>8. E!Unsent'
    <2>1. row.pc \in {"made", "keyed", "synced"} =>
             e \notin x4' /\ x5[e] = "none" /\ E!Unknown(e)
      BY DEF E!Unsent
    <2> QED
      BY <1>1, <1>6, <2>1 DEF E!Unsent
  <1>9. E!UnderWay'
    <2>1. ASSUME NEW c \in x4'
          PROVE  x5[c] = "none" /\ E!Unknown(c) /\ E!KeyKept(c)' /\ x6'[c].pc # "none"
      <3>1. c \in Dirs
        BY EnrollTypes
      <3>2. CASE c \in x4
        BY <1>1, <1>5, <3>1, <3>2 DEF E!UnderWay
      <3>3. CASE c \notin x4
        BY <1>1, <1>7, <3>3 DEF E!Unsent
      <3> QED
        BY <3>2, <3>3
    <2> QED
      BY <1>6, <2>1, EnrollTypes DEF E!UnderWay
  <1>10. E!Declined'
    BY <1>1, <1>6 DEF E!Declined
  <1>11. E!Granted'
    BY <1>1, <1>2, <1>6 DEF E!Granted, E!Has
  <1>12. ASSUME NEW n \in Names, x3[n] # None
         PROVE  x3[n] \in Dirs /\ x6[x3[n]].pc # "none" /\ x6'[x3[n]].pc # "none"
                /\ x6'[x3[n]].token = x6[x3[n]].token
    <2>1. x3[n] \in Dirs /\ x6[x3[n]].pc # "none"
      BY <1>12, EnrollTypes DEF E!Registered
    <2> QED
      BY <1>1, <2>1
  <1>13. E!Registered'
    BY <1>12 DEF E!Registered
  <1>14. E!KeyBeforeNode'
    BY <1>5, <1>12 DEF E!KeyBeforeNode, E!KeyKept
  <1>15. E!OneIdentityEach'
    BY <1>12 DEF E!OneIdentityEach
  <1> QED
    BY <1>3, <1>4, <1>8, <1>9, <1>10, <1>11, <1>13, <1>14, <1>15

\* Where the run of e is, and what is there.
LEMMA RunNow ==
    ASSUME E!EnrollmentInv, NEW e \in Dirs
    PROVE  /\ x6[e] \in E!Run /\ x7[e] \in E!Disk /\ E!Laid(x7[e])
           /\ E!Reached(x7[e], x6[e].pc)
           /\ x6[e].pc # "none" => x6[e].token \in Tickets
           /\ x6[e].pc \in {"answered", "certified", "marked", "ok"} \/ E!Has(e, "identity") =>
                 ~E!Unknown(e)
  BY DEF E!EnrollmentInv, E!TypeOK, E!Kept, E!Unsent, E!Granted

LEMMA GotoRow ==
    ASSUME E!EnrollmentInv, NEW e \in Dirs, NEW pc \in {"ok", "rejected", "failed"} \cup E!Running,
           E!Goto(e, pc)
    PROVE  \E row \in E!Run : /\ x6' = [x6 EXCEPT ![e] = row] /\ row.pc = pc
                              /\ row.token = x6[e].token
  <1> DEFINE row == [x6[e] EXCEPT !.pc = pc]
  <1>1. x6[e] \in E!Run /\ x6 \in [Dirs -> E!Run]
    BY RunNow, EnrollTypes
  <1>2. x6' = [x6 EXCEPT ![e] = row]
    BY <1>1 DEF E!Goto
  <1>3. row \in E!Run /\ row.pc = pc /\ row.token = x6[e].token
    BY <1>1 DEF E!Run
  <1> HIDE DEF row
  <1> QED
    BY <1>2, <1>3

\* A run goes on with what is on its disk; nothing that was there is lost.
LEMMA DiskStep ==
    ASSUME E!EnrollmentInv, NEW e \in Dirs, x6[e].pc # "none",
           NEW pc \in {"ok", "failed", "keyed", "synced", "certified", "marked"},
           E!Goto(e, pc), UNCHANGED <<x1, x2, x3, x4, x5>>,
           NEW k \in E!Disk, x7' = [x7 EXCEPT ![e] = k], E!Laid(k), E!Reached(k, pc),
           x7[e].whole \subseteq k.whole, x7[e].safe <= k.safe,
           pc \in {"keyed", "synced"} => x6[e].pc \in {"made", "keyed"},
           pc \in {"certified", "marked", "ok"} =>
              x6[e].pc \in {"answered", "certified", "marked"},
           "identity" \in k.whole => "identity" \in x7[e].whole \/ x6[e].pc = "certified"
    PROVE  E!EnrollmentInv'
  <1>1. PICK row \in E!Run : /\ x6' = [x6 EXCEPT ![e] = row] /\ row.pc = pc
                             /\ row.token = x6[e].token
    <2>1. pc \in {"ok", "rejected", "failed"} \cup E!Running
      BY DEF E!Running
    <2> QED
      BY <2>1, GotoRow
  <1>2. x6[e].token \in Tickets
    BY RunNow
  <1>3. E!KeyKept(e) => "key" \in k.whole /\ 2 <= k.safe
    <2>1. x7[e].safe \in Nat /\ k.safe \in Nat
      BY RunNow DEF E!Disk
    <2>2. 2 <= x7[e].safe => 2 <= k.safe
      BY <2>1
    <2> QED
      BY <2>2 DEF E!KeyKept, E!Has
  <1>4. x6[e].pc \in {"answered", "certified", "marked"} => ~E!Unknown(e)
    BY RunNow
  <1>5. "identity" \in x7[e].whole => ~E!Unknown(e)
    BY RunNow DEF E!Has
  <1>6. pc \in {"answered", "certified", "marked", "ok"} \/ "identity" \in k.whole =>
           ~E!Unknown(e)
    BY <1>4, <1>5
  <1>7. /\ row.pc # "none" /\ row.token \in Tickets /\ E!Reached(k, row.pc)
        /\ row.pc \in {"made", "keyed", "synced"} =>
              x6[e].pc \in {"none", "made", "keyed", "synced"}
        /\ row.pc # "rejected"
    BY <1>1, <1>2
  <1> QED
    BY <1>1, <1>3, <1>6, <1>7, RunKeeps

\* A run stops for good.
LEMMA FailedStep ==
    ASSUME E!EnrollmentInv, NEW e \in Dirs, x6[e].pc # "none", E!Goto(e, "failed"),
           UNCHANGED <<x1, x2, x3, x4, x5, x7>>
    PROVE  E!EnrollmentInv'
  <1>1. x7' = [x7 EXCEPT ![e] = x7[e]]
    BY EnrollTypes
  <1>2. x7[e] \in E!Disk /\ E!Laid(x7[e]) /\ E!Reached(x7[e], "failed")
    BY RunNow DEF E!Reached
  <1>3. x7[e].safe <= x7[e].safe
    BY <1>2 DEF E!Disk
  <1> QED
    BY <1>1, <1>2, <1>3, DiskStep

\* Steps of a run that leave the disk alone.
LEMMA MoveStep ==
    ASSUME E!EnrollmentInv, NEW e \in Dirs, E!Send(e) \/ E!Rejected(e) \/ E!Receive(e)
    PROVE  E!EnrollmentInv'
  <1>1. x7' = [x7 EXCEPT ![e] = x7[e]] /\ UNCHANGED <<x1, x2, x3, x5>>
    BY EnrollTypes DEF E!Send, E!Rejected, E!Receive, E!Client
  <1>2. CASE E!Send(e)
    <2>1. x6[e].pc = "synced" /\ x4' = x4 \cup {e} /\ E!Goto(e, "waiting")
      BY <1>2 DEF E!Send, E!At
    <2>2. PICK row \in E!Run : /\ x6' = [x6 EXCEPT ![e] = row] /\ row.pc = "waiting"
                               /\ row.token = x6[e].token
      BY <2>1, GotoRow DEF E!Running
    <2>3. E!Reached(x7[e], "waiting")
      BY <2>1, RunNow DEF E!Reached, E!Depth, E!Whole, E!Safe
    <2> QED
      BY <1>1, <2>1, <2>2, <2>3, RunNow, RunKeeps DEF E!KeyKept, E!Has
  <1>3. CASE E!Rejected(e)
    <2>1. x6[e].pc = "waiting" /\ x4' = x4 /\ E!Goto(e, "rejected") /\ x5[e] = "refused"
      BY <1>3 DEF E!Rejected, E!At
    <2>2. PICK row \in E!Run : /\ x6' = [x6 EXCEPT ![e] = row] /\ row.pc = "rejected"
                               /\ row.token = x6[e].token
      BY <2>1, GotoRow
    <2>3. E!Reached(x7[e], "rejected")
      BY <2>1, RunNow DEF E!Reached, E!Depth, E!Whole, E!Safe
    <2> QED
      BY <1>1, <2>1, <2>2, <2>3, RunNow, RunKeeps DEF E!KeyKept, E!Has
  <1>4. CASE E!Receive(e)
    <2> DEFINE row == [x6[e] EXCEPT !.pc = "answered", !.node = x5[e]]
    <2>1. x6[e].pc = "waiting" /\ x4' = x4 /\ x5[e] \in Names
      BY <1>4 DEF E!Receive, E!At
    <2>2. x6' = [x6 EXCEPT ![e] = row]
      BY <1>4, EnrollTypes DEF E!Receive
    <2>3. row \in E!Run /\ row.pc = "answered" /\ row.token = x6[e].token
      BY <2>1, RunNow DEF E!Run, E!Running
    <2> HIDE DEF row
    <2>4. E!Reached(x7[e], "answered")
      BY <2>1, RunNow DEF E!Reached, E!Depth, E!Whole, E!Safe
    <2>5. ~E!Unknown(e)
      BY <2>1 DEF E!EnrollmentInv, E!Granted, E!Unknown
    <2> QED
      BY <1>1, <2>1, <2>2, <2>3, <2>4, <2>5, RunNow, RunKeeps DEF E!KeyKept, E!Has
  <1> QED
    BY <1>2, <1>3, <1>4

\* The next file of the directory, with its content or without it.
LEMMA LaidNext ==
    ASSUME NEW a \in E!Disk, E!Laid(a), NEW file \in E!Files, Len(a.made) <= 3,
           E!Full[Len(a.made) + 1] = file, NEW w \in SUBSET E!Files,
           w = a.whole \/ w = a.whole \cup {file},
           file = "cert" => "key" \in a.whole, file = "identity" => "cert" \in a.whole
    PROVE  LET k == [made |-> Append(a.made, file), safe |-> a.safe, whole |-> w] IN
           k \in E!Disk /\ E!Laid(k) /\ Len(k.made) = Len(a.made) + 1
  <1> DEFINE m == a.made
             n == Len(m)
             q == Append(m, file)
             k == [made |-> q, safe |-> a.safe, whole |-> w]
  <1>1. m \in Seq(E!Files \cup {"dir"}) /\ a.safe \in Nat /\ a.whole \subseteq E!Files
    BY DEF E!Disk
  <1>2. n \in Nat
    BY <1>1, LenProperties
  <1>3. /\ q \in Seq(E!Files \cup {"dir"}) /\ Len(q) = n + 1 /\ q[n + 1] = file
        /\ \A i \in 1 .. n : q[i] = m[i]
    BY <1>1, AppendProperties
  <1>4. /\ n <= 4 /\ a.safe <= n /\ \A i \in 1 .. n : m[i] = E!Full[i]
        /\ \A f \in a.whole : \E i \in 1 .. n : m[i] = f
        /\ "cert" \in a.whole => "key" \in a.whole
        /\ "identity" \in a.whole => "cert" \in a.whole
    BY DEF E!Laid
  <1>5. n <= 3 /\ E!Full[n + 1] = file
    OBVIOUS
  <1> HIDE DEF q, n, m
  <1>6. k.made = q /\ k.safe = a.safe /\ k.whole = w /\ k \in E!Disk
    BY <1>1, <1>3 DEF E!Disk
  <1>7. n + 1 <= 4 /\ a.safe <= n + 1 /\ \A i \in 1 .. n + 1 : i \in 1 .. n \/ i = n + 1
    BY <1>1, <1>2, <1>4, <1>5
  <1>8. \A i \in 1 .. n + 1 : q[i] = E!Full[i]
    BY <1>3, <1>4, <1>5, <1>7
  <1>9. 1 .. n \subseteq 1 .. n + 1 /\ n + 1 \in 1 .. n + 1
    BY <1>2
  <1>10. \A f \in w : \E i \in 1 .. n + 1 : q[i] = f
    <2> SUFFICES ASSUME NEW f \in w PROVE \E i \in 1 .. n + 1 : q[i] = f
      OBVIOUS
    <2>1. CASE f = file
      BY <1>3, <1>9, <2>1
    <2>2. CASE f # file
      <3>1. PICK i \in 1 .. n : m[i] = f
        BY <1>4, <2>2
      <3> QED
        BY <1>3, <1>9, <3>1
    <2> QED
      BY <2>1, <2>2
  <1>11. ("cert" \in w => "key" \in w) /\ ("identity" \in w => "cert" \in w)
    BY <1>4
  <1>12. E!Laid(k)
    <2> HIDE DEF k
    <2> QED
      BY <1>3, <1>6, <1>7, <1>8, <1>10, <1>11 DEF E!Laid
  <1> QED
    BY <1>3, <1>6, <1>12 DEF k, q, n, m

LEMMA DiskUpdate ==
    ASSUME NEW a \in E!Disk, NEW q, NEW w
    PROVE  /\ [a EXCEPT !.made = q] = [made |-> q, safe |-> a.safe, whole |-> a.whole]
           /\ [[a EXCEPT !.made = q] EXCEPT !.whole = w]
                 = [made |-> q, safe |-> a.safe, whole |-> w]
  <1> DEFINE b == [made |-> q, safe |-> a.safe, whole |-> a.whole]
  <1>1. a = [made |-> a.made, safe |-> a.safe, whole |-> a.whole]
    BY DEF E!Disk
  <1>2. [a EXCEPT !.made = q] = b
    BY <1>1
  <1>3. [b EXCEPT !.whole = w] = [made |-> q, safe |-> a.safe, whole |-> w]
    OBVIOUS
  <1> QED
    BY <1>2, <1>3

\* The parameters of the three files.
Writes(from, file, pc) ==
    \/ from = "made" /\ file = "key" /\ pc = "keyed"
    \/ from = "answered" /\ file = "cert" /\ pc = "certified"
    \/ from = "certified" /\ file = "identity" /\ pc = "marked"

LEMMA WriteStep ==
    ASSUME E!EnrollmentInv, NEW e \in Dirs, NEW file, NEW pc, Writes(x6[e].pc, file, pc),
           E!WriteNew(e, file, pc)
    PROVE  E!EnrollmentInv'
  <1> DEFINE a == x7[e]
             n == Len(a.made)
             Written(w) == [made |-> Append(a.made, file), safe |-> a.safe, whole |-> w]
             before == x6[e].pc
  <1>1. /\ a \in E!Disk /\ E!Laid(a) /\ E!Reached(a, before) /\ x7 \in [Dirs -> E!Disk]
        /\ a.safe \in Nat /\ a.whole \subseteq E!Files
    BY RunNow, EnrollTypes DEF E!Disk
  <1>2. UNCHANGED <<x1, x2, x3, x4, x5>>
    BY DEF E!WriteNew, E!Client
  <1>3. \/ x7' = [x7 EXCEPT ![e] = Written(a.whole \cup {file})] /\ E!Goto(e, pc)
        \/ x7' = [x7 EXCEPT ![e] = Written(a.whole)] /\ E!Goto(e, "failed")
    <2> DEFINE q == Append(a.made, file)
               w == a.whole \cup {file}
    <2>1. \/ /\ x7' = [x7 EXCEPT ![e] = [[a EXCEPT !.made = q] EXCEPT !.whole = w]]
             /\ E!Goto(e, pc)
          \/ x7' = [x7 EXCEPT ![e] = [a EXCEPT !.made = q]] /\ E!Goto(e, "failed")
      BY <1>1 DEF E!WriteNew
    <2> HIDE DEF a, q, w
    <2>2. /\ [a EXCEPT !.made = q] = [made |-> q, safe |-> a.safe, whole |-> a.whole]
          /\ [[a EXCEPT !.made = q] EXCEPT !.whole = w]
                = [made |-> q, safe |-> a.safe, whole |-> w]
      BY <1>1, DiskUpdate
    <2> QED
      BY <2>1, <2>2 DEF q, w
  <1>4. before = "made" => n = 1 /\ a.whole = {} /\ a.safe = 0
    BY <1>1 DEF E!Reached, E!Depth, E!Whole, E!Safe
  <1>5. before = "answered" => n = 2 /\ a.whole = {"key"} /\ a.safe = 2
    BY <1>1 DEF E!Reached, E!Depth, E!Whole, E!Safe
  <1>6. before = "certified" => n = 3 /\ a.whole = {"key", "cert"} /\ a.safe = 2
    BY <1>1 DEF E!Reached, E!Depth, E!Whole, E!Safe
  <1>7. E!Full[2] = "key" /\ E!Full[3] = "cert" /\ E!Full[4] = "identity"
    BY DEF E!Full
  <1> HIDE DEF n, a, before
  <1>8. /\ file \in E!Files /\ n <= 3 /\ E!Full[n + 1] = file
        /\ file = "cert" => "key" \in a.whole
        /\ file = "identity" => "cert" \in a.whole
    <2>1. CASE before = "made" /\ file = "key" /\ pc = "keyed"
      <3>1. n <= 3 /\ n + 1 = 2
        BY <1>4, <2>1
      <3> QED
        BY <1>7, <2>1, <3>1 DEF E!Files
    <2>2. CASE before = "answered" /\ file = "cert" /\ pc = "certified"
      <3>1. n <= 3 /\ n + 1 = 3
        BY <1>5, <2>2
      <3> QED
        BY <1>5, <1>7, <2>2, <3>1 DEF E!Files
    <2>3. CASE before = "certified" /\ file = "identity" /\ pc = "marked"
      <3>1. n <= 3 /\ n + 1 = 4
        BY <1>6, <2>3
      <3> QED
        BY <1>6, <1>7, <2>3, <3>1 DEF E!Files
    <2> QED
      BY <2>1, <2>2, <2>3 DEF Writes, before
  <1>9. ASSUME NEW w \in SUBSET E!Files, w = a.whole \/ w = a.whole \cup {file}
        PROVE  /\ Written(w) \in E!Disk /\ E!Laid(Written(w)) /\ Len(Written(w).made) = n + 1
               /\ Written(w).safe = a.safe /\ Written(w).whole = w
    BY <1>1, <1>8, <1>9, LaidNext DEF n
  <1> HIDE DEF Written
  <1>10. a.safe <= a.safe /\ before # "none"
    BY <1>1 DEF Writes, before
  <1>11. "identity" \in a.whole \cup {file} => "identity" \in a.whole \/ before = "certified"
    BY DEF Writes, before
  <1>12. CASE x7' = [x7 EXCEPT ![e] = Written(a.whole)] /\ E!Goto(e, "failed")
    <2> DEFINE k == Written(a.whole)
    <2>1. k \in E!Disk /\ E!Laid(k) /\ k.safe = a.safe /\ k.whole = a.whole
      BY <1>1, <1>9
    <2>2. E!Reached(k, "failed")
      BY DEF E!Reached
    <2>3. x7' = [x7 EXCEPT ![e] = k]
      BY <1>12
    <2> HIDE DEF k
    <2> QED
      BY <1>2, <1>10, <1>12, <2>1, <2>2, <2>3, DiskStep DEF a, before
  <1>13. CASE x7' = [x7 EXCEPT ![e] = Written(a.whole \cup {file})] /\ E!Goto(e, pc)
    <2> DEFINE w == a.whole \cup {file}
               k == Written(w)
    <2>1. k \in E!Disk /\ E!Laid(k) /\ Len(k.made) = n + 1 /\ k.safe = a.safe /\ k.whole = w
      BY <1>1, <1>8, <1>9
    <2>2. x7' = [x7 EXCEPT ![e] = k]
      BY <1>13
    <2> HIDE DEF k
    <2>3. E!Reached(k, pc)
      <3>1. CASE before = "made" /\ file = "key" /\ pc = "keyed"
        <4>1. Len(k.made) = 2 /\ w = {"key"} /\ k.safe = 0
          BY <1>4, <2>1, <3>1
        <4> QED
          BY <2>1, <3>1, <4>1 DEF E!Reached, E!Depth, E!Whole, E!Safe
      <3>2. CASE before = "answered" /\ file = "cert" /\ pc = "certified"
        <4>1. Len(k.made) = 3 /\ w = {"key", "cert"} /\ k.safe = 2
          BY <1>5, <2>1, <3>2
        <4> QED
          BY <2>1, <3>2, <4>1 DEF E!Reached, E!Depth, E!Whole, E!Safe
      <3>3. CASE before = "certified" /\ file = "identity" /\ pc = "marked"
        <4>1. Len(k.made) = 4 /\ w = E!Files /\ k.safe = 2
          BY <1>6, <2>1, <3>3 DEF E!Files
        <4> QED
          BY <2>1, <3>3, <4>1 DEF E!Reached, E!Depth, E!Whole, E!Safe
      <3> QED
        BY <3>1, <3>2, <3>3 DEF Writes, before
    <2>4. /\ pc \in {"ok", "failed", "keyed", "synced", "certified", "marked"}
          /\ pc \in {"keyed", "synced"} => before \in {"made", "keyed"}
          /\ pc \in {"certified", "marked", "ok"} =>
                before \in {"answered", "certified", "marked"}
      BY DEF Writes, before
    <2>5. a.whole \subseteq k.whole /\ a.safe <= k.safe
      BY <1>10, <2>1
    <2>6. "identity" \in k.whole => "identity" \in a.whole \/ before = "certified"
      BY <1>11, <2>1
    <2> QED
      BY <1>2, <1>10, <1>13, <2>1, <2>2, <2>3, <2>4, <2>5, <2>6, DiskStep DEF a, before
  <1> QED
    BY <1>3, <1>12, <1>13

LEMMA SyncStep ==
    ASSUME E!EnrollmentInv, NEW e \in Dirs, NEW pc, E!Sync(e, pc),
           \/ x6[e].pc = "keyed" /\ pc = "synced"
           \/ x6[e].pc = "marked" /\ pc = "ok"
    PROVE  E!EnrollmentInv'
  <1> DEFINE a == x7[e]
             n == Len(a.made)
             k == [made |-> a.made, safe |-> n, whole |-> a.whole]
             before == x6[e].pc
  <1>1. /\ a \in E!Disk /\ E!Laid(a) /\ E!Reached(a, before) /\ x7 \in [Dirs -> E!Disk]
    BY RunNow, EnrollTypes
  <1>2. UNCHANGED <<x1, x2, x3, x4, x5>>
    BY DEF E!Sync, E!Client
  <1>3. \/ x7' = [x7 EXCEPT ![e] = [a EXCEPT !.safe = n]] /\ E!Goto(e, pc)
        \/ UNCHANGED x7 /\ E!Goto(e, "failed")
    BY <1>1 DEF E!Sync
  <1>4. before = "keyed" => n = 2 /\ a.whole = {"key"}
    BY <1>1 DEF E!Reached, E!Depth, E!Whole
  <1>5. before = "marked" => n = 4 /\ a.whole = E!Files
    BY <1>1 DEF E!Reached, E!Depth, E!Whole
  <1>6. /\ a.made \in Seq(E!Files \cup {"dir"}) /\ a.safe \in Nat /\ a.whole \subseteq E!Files
        /\ n \in Nat
    BY <1>1, LenProperties DEF E!Disk
  <1>7. /\ n <= 4 /\ a.safe <= n /\ \A i \in 1 .. n : a.made[i] = E!Full[i]
        /\ \A f \in a.whole : \E i \in 1 .. n : a.made[i] = f
        /\ "cert" \in a.whole => "key" \in a.whole
        /\ "identity" \in a.whole => "cert" \in a.whole
    BY <1>1 DEF E!Laid
  <1>8. Len(k.made) = n /\ k.safe = n /\ k.whole = a.whole /\ k.made = a.made
    OBVIOUS
  <1> HIDE DEF a, n, before
  <1>9. k \in E!Disk
    BY <1>6 DEF E!Disk
  <1>10. [a EXCEPT !.safe = n] = k
    <2>1. a = [made |-> a.made, safe |-> a.safe, whole |-> a.whole]
      BY <1>1 DEF E!Disk
    <2> QED
      BY <2>1
  <1> HIDE DEF k
  <1>11. E!Laid(k)
    <2>1. n <= n
      BY <1>6
    <2> QED
      BY <1>7, <1>8, <2>1 DEF E!Laid
  <1>12. CASE UNCHANGED x7 /\ E!Goto(e, "failed")
    <2>1. before # "none"
      BY DEF before
    <2> QED
      BY <1>2, <1>12, <2>1, FailedStep DEF before
  <1>13. CASE x7' = [x7 EXCEPT ![e] = [a EXCEPT !.safe = n]] /\ E!Goto(e, pc)
    <2>1. E!Reached(k, pc)
      <3>1. CASE before = "keyed" /\ pc = "synced"
        BY <1>4, <1>8, <3>1 DEF E!Reached, E!Depth, E!Whole, E!Safe
      <3>2. CASE before = "marked" /\ pc = "ok"
        BY <1>5, <1>8, <3>2 DEF E!Reached, E!Depth, E!Whole, E!Safe
      <3> QED
        BY <3>1, <3>2 DEF before
    <2>2. x7' = [x7 EXCEPT ![e] = k]
      BY <1>10, <1>13
    <2>3. a.whole \subseteq k.whole /\ a.safe <= k.safe
      BY <1>7, <1>8
    <2>4. /\ before # "none"
          /\ pc \in {"ok", "failed", "keyed", "synced", "certified", "marked"}
          /\ pc \in {"keyed", "synced"} => before \in {"made", "keyed"}
          /\ pc \in {"certified", "marked", "ok"} =>
                before \in {"answered", "certified", "marked"}
      BY DEF before
    <2> QED
      BY <1>2, <1>8, <1>9, <1>11, <1>13, <2>1, <2>2, <2>3, <2>4, DiskStep DEF a, before
  <1> QED
    BY <1>3, <1>12, <1>13

\* A run begins with a new directory.
LEMMA StartStep ==
    ASSUME E!EnrollmentInv, NEW e \in Dirs, NEW t \in Tickets, E!Start(e, t)
    PROVE  E!EnrollmentInv'
  <1> DEFINE a == x7[e]
             row == [pc |-> "made", token |-> t, node |-> "none"]
             q == <<"dir">>
             k == [made |-> q, safe |-> a.safe, whole |-> a.whole]
  <1>1. /\ x6[e].pc = "none" /\ UNCHANGED <<x1, x2, x3, x4, x5>>
        /\ x6' = [x6 EXCEPT ![e] = row]
        /\ x7' = [x7 EXCEPT ![e] = [a EXCEPT !.made = q]]
    BY EnrollTypes DEF E!Start, E!At, E!Client
  <1>2. a \in E!Disk /\ a.whole = {} /\ a.safe = 0
    <2>1. a \in E!Disk /\ E!Reached(a, "none")
      BY <1>1, RunNow
    <2> QED
      BY <2>1 DEF E!Reached, E!Whole, E!Safe
  <1>3. q \in Seq(E!Files \cup {"dir"}) /\ Len(q) = 1 /\ q[1] = "dir" /\ E!Full[1] = "dir"
    BY DEF E!Full
  <1> HIDE DEF a, q
  <1>4. x7' = [x7 EXCEPT ![e] = k]
    BY <1>1, <1>2, DiskUpdate
  <1>5. k.made = q /\ k.safe = 0 /\ k.whole = {} /\ k \in E!Disk
    BY <1>2, <1>3 DEF E!Disk
  <1> HIDE DEF k
  <1>6. E!Laid(k)
    <2>1. \A i \in 1 .. 1 : i = 1
      OBVIOUS
    <2>2. Len(k.made) <= 4 /\ k.safe <= Len(k.made)
      <3>1. Len(k.made) = 1 /\ k.safe = 0 /\ 1 <= 4 /\ 0 <= 1
        BY <1>3, <1>5
      <3> QED
        BY <3>1, Zenon
    <2>3. \A i \in 1 .. Len(k.made) : k.made[i] = E!Full[i]
      BY <1>3, <1>5, <2>1
    <2> QED
      BY <1>5, <2>2, <2>3 DEF E!Laid
  <1>7. E!Reached(k, "made")
    BY <1>3, <1>5 DEF E!Reached, E!Depth, E!Whole, E!Safe
  <1>8. row \in E!Run /\ row.pc = "made" /\ row.token = t
    BY DEF E!Run, E!Running
  <1> HIDE DEF row
  <1>9. ~E!KeyKept(e)
    BY <1>2 DEF E!KeyKept, E!Has, a
  <1> QED
    BY <1>1, <1>4, <1>5, <1>6, <1>7, <1>8, <1>9, RunKeeps

LEMMA EnrollStep ==
    ASSUME E!EnrollmentInv, NEW e \in Dirs, E!Enroll(e) PROVE E!EnrollmentInv'
  <1>1. CASE E!WriteKey(e) \/ E!WriteCert(e) \/ E!WriteIdentity(e)
    BY <1>1, WriteStep DEF E!WriteKey, E!WriteCert, E!WriteIdentity, E!At, Writes
  <1>2. CASE E!SyncKey(e) \/ E!SyncEnd(e)
    BY <1>2, SyncStep DEF E!SyncKey, E!SyncEnd, E!At
  <1>3. CASE E!Send(e) \/ E!Rejected(e) \/ E!Receive(e)
    BY <1>3, MoveStep
  <1>4. CASE E!GiveUp(e) \/ E!Kill(e)
    BY <1>4, FailedStep DEF E!GiveUp, E!Kill, E!At, E!Client, E!Running
  <1> QED
    BY <1>1, <1>2, <1>3, <1>4 DEF E!Enroll

\* What a power loss leaves of a directory, by the number of entries kept.
Left(a, n) ==
    [made |-> SubSeq(a.made, 1, n), safe |-> n,
     whole |-> {f \in a.whole : \E i \in 1 .. n : a.made[i] = f}]

LEMMA LeftLaid ==
    ASSUME NEW a \in E!Disk, E!Laid(a), NEW n \in 0 .. 4, a.safe <= n, n <= Len(a.made)
    PROVE  /\ Left(a, n) \in E!Disk /\ E!Laid(Left(a, n))
           /\ Left(a, n).whole \subseteq a.whole
           /\ "key" \in a.whole /\ 2 <= a.safe =>
                 "key" \in Left(a, n).whole /\ 2 <= Left(a, n).safe
           /\ a.safe = Len(a.made) =>
                 /\ Len(Left(a, n).made) = Len(a.made) /\ Left(a, n).safe = a.safe
                 /\ Left(a, n).whole = a.whole
  <1> DEFINE m == a.made
             l == Len(m)
             q == SubSeq(m, 1, n)
             w == {f \in a.whole : \E i \in 1 .. n : m[i] = f}
             k == [made |-> q, safe |-> n, whole |-> w]
  <1>1. m \in Seq(E!Files \cup {"dir"}) /\ a.safe \in Nat /\ a.whole \subseteq E!Files
    BY DEF E!Disk
  <1>2. l \in Nat /\ n \in Nat
    BY <1>1, LenProperties
  <1>3. /\ l <= 4 /\ a.safe <= l /\ \A i \in 1 .. l : m[i] = E!Full[i]
        /\ \A f \in a.whole : \E i \in 1 .. l : m[i] = f
        /\ "cert" \in a.whole => "key" \in a.whole
        /\ "identity" \in a.whole => "cert" \in a.whole
    BY DEF E!Laid
  <1>4. a.safe <= n /\ n <= l
    OBVIOUS
  <1>5. /\ q \in Seq(E!Files \cup {"dir"}) /\ Len(q) = n /\ \A i \in 1 .. n : q[i] = m[i]
    <2>1. 1 \in 1 .. l + 1 /\ n \in 0 .. l
      BY <1>2, <1>4
    <2>2. CASE n = 0
      <3>1. q = << >>
        BY <2>2, SubSeqEmpty, <1>1
      <3>2. Len(q) = 0 /\ q \in Seq(E!Files \cup {"dir"})
        BY <3>1
      <3> QED
        BY <2>2, <3>2
    <2>3. CASE n # 0
      <3>1. n \in 1 .. l
        BY <2>1, <2>3, <1>2
      <3> HIDE DEF m, q
      <3>2. \A i \in 1 .. n : m[i] \in E!Files \cup {"dir"}
        BY <1>1, <3>1, <1>2, ElementOfSeq DEF l
      <3>3. q = [i \in 1 .. n |-> m[i]]
        BY <1>1, <1>2, <3>1 DEF q, l
      <3> QED
        BY <1>2, <3>2, <3>3
    <2> QED
      BY <2>2, <2>3
  <1> HIDE DEF m, l, q
  <1>6. \A i \in 1 .. n : i \in 1 .. l /\ m[i] = E!Full[i]
    BY <1>2, <1>3, <1>4
  <1>7. w \subseteq a.whole /\ w \subseteq E!Files
    BY <1>1
  <1>8. k \in E!Disk /\ k.made = q /\ k.safe = n /\ k.whole = w
    BY <1>2, <1>5, <1>7 DEF E!Disk
  <1>9. E!Full[1] = "dir" /\ E!Full[2] = "key" /\ E!Full[3] = "cert" /\ E!Full[4] = "identity"
    BY DEF E!Full
  <1>10. \A i \in 1 .. n : i \in {1, 2, 3, 4}
    BY <1>2, <1>3, <1>4
  <1>11. "key" \in a.whole /\ 2 <= n => "key" \in w
    <2>1. 2 <= n => 2 \in 1 .. n
      BY <1>2
    <2> QED
      BY <1>6, <1>9, <2>1
  <1>12. "cert" \in a.whole /\ 3 <= n => "cert" \in w
    <2>1. 3 <= n => 3 \in 1 .. n
      BY <1>2
    <2> QED
      BY <1>6, <1>9, <2>1
  <1>13. "cert" \in w => "key" \in w
    <2> SUFFICES ASSUME "cert" \in w PROVE "key" \in w
      OBVIOUS
    <2>1. PICK i \in 1 .. n : m[i] = "cert"
      OBVIOUS
    <2>2. i = 3
      BY <1>6, <1>9, <1>10, <2>1
    <2>3. 2 <= n
      BY <1>2, <2>1, <2>2
    <2> QED
      BY <1>3, <1>7, <1>11, <2>3
  <1>14. "identity" \in w => "cert" \in w
    <2> SUFFICES ASSUME "identity" \in w PROVE "cert" \in w
      OBVIOUS
    <2>1. PICK i \in 1 .. n : m[i] = "identity"
      OBVIOUS
    <2>2. i = 4
      BY <1>6, <1>9, <1>10, <2>1
    <2>3. 3 <= n
      BY <1>2, <2>1, <2>2
    <2> QED
      BY <1>3, <1>7, <1>12, <2>3
  <1>15. \A f \in w : \E i \in 1 .. n : q[i] = f
    BY <1>5
  <1> HIDE DEF k
  <1>16. E!Laid(k)
    <2>1. n <= 4 /\ n <= n
      BY <1>2, <1>3, <1>4
    <2>2. \A i \in 1 .. n : q[i] = E!Full[i]
      BY <1>5, <1>6
    <2> HIDE DEF w
    <2> QED
      BY <1>5, <1>8, <1>13, <1>14, <1>15, <2>1, <2>2 DEF E!Laid
  <1>17. 2 <= a.safe => 2 <= n
    BY <1>1, <1>2, <1>4
  <1>18. a.safe = l => n = l /\ w = a.whole
    <2>1. a.safe = l => n = l
      BY <1>1, <1>2, <1>4
    <2> QED
      BY <1>3, <2>1
  <1>19. Left(a, n) = k
    BY DEF Left, k, q, m
  <1> HIDE DEF w
  <1> QED
    BY <1>5, <1>7, <1>8, <1>11, <1>16, <1>17, <1>18, <1>19 DEF l, m

LEMMA PowerLossStep ==
    ASSUME E!EnrollmentInv, E!PowerLoss PROVE E!EnrollmentInv'
  <1> USE DEF E!EnrollmentInv
  <1>1. PICK kept \in [Dirs -> 0 .. 4] :
          /\ \A e \in Dirs : x7[e].safe <= kept[e] /\ kept[e] <= Len(x7[e].made)
          /\ x7' = [e \in Dirs |-> Left(x7[e], kept[e])]
    BY DEF E!PowerLoss, Left
  <1>2. /\ UNCHANGED <<x1, x2, x3, x4, x5>>
        /\ x6' = [e \in Dirs |-> IF x6[e].pc \in E!Running
                                 THEN [x6[e] EXCEPT !.pc = "failed"] ELSE x6[e]]
    BY DEF E!PowerLoss, E!Client
  <1>3. ASSUME NEW e \in Dirs
        PROVE  /\ x6'[e] \in E!Run /\ x6'[e].token = x6[e].token
               /\ \/ x6'[e].pc = "failed" /\ x6[e].pc # "none"
                  \/ x6'[e].pc = x6[e].pc /\ x6[e].pc \in {"none", "ok", "rejected"}
    <2>1. x6[e] \in E!Run
      BY EnrollTypes
    <2>2. CASE x6[e].pc \in E!Running
      <3>1. x6'[e] = [x6[e] EXCEPT !.pc = "failed"]
        BY <1>2, <2>2
      <3>2. x6[e].pc # "none"
        BY <2>2 DEF E!Running
      <3> QED
        BY <2>1, <3>1, <3>2 DEF E!Run
    <2>3. CASE x6[e].pc \notin E!Running
      <3>1. x6'[e] = x6[e]
        BY <1>2, <2>3
      <3> QED
        BY <2>1, <2>3, <3>1 DEF E!Run
    <2> QED
      BY <2>2, <2>3
  <1>4. x6' \in [Dirs -> E!Run]
    BY <1>2, <1>3
  <1>5. ASSUME NEW e \in Dirs
        PROVE  /\ x7'[e] \in E!Disk /\ E!Laid(x7'[e]) /\ x7'[e].whole \subseteq x7[e].whole
               /\ E!KeyKept(e) => E!KeyKept(e)'
               /\ E!Reached(x7'[e], x6'[e].pc)
    <2> DEFINE a == x7[e]
               n == kept[e]
               k == Left(a, n)
    <2>1. a \in E!Disk /\ E!Laid(a) /\ E!Reached(a, x6[e].pc)
      BY RunNow
    <2>2. n \in 0 .. 4 /\ a.safe <= n /\ n <= Len(a.made) /\ x7'[e] = k
      BY <1>1
    <2> HIDE DEF a, n
    <2>3. /\ k \in E!Disk /\ E!Laid(k) /\ k.whole \subseteq a.whole
          /\ "key" \in a.whole /\ 2 <= a.safe => "key" \in k.whole /\ 2 <= k.safe
          /\ a.safe = Len(a.made) =>
                Len(k.made) = Len(a.made) /\ k.safe = a.safe /\ k.whole = a.whole
      BY <2>1, <2>2, LeftLaid
    <2> HIDE DEF k
    <2>4. E!Reached(k, x6'[e].pc)
      <3>1. CASE x6'[e].pc = "failed"
        BY <3>1 DEF E!Reached
      <3>2. CASE x6'[e].pc = x6[e].pc /\ x6[e].pc \in {"none", "ok", "rejected"}
        <4>1. a.safe = Len(a.made)
          BY <2>1, <3>2 DEF E!Reached, E!Depth, E!Safe
        <4> QED
          BY <2>1, <2>3, <3>2, <4>1 DEF E!Reached
      <3> QED
        BY <1>3, <3>1, <3>2
    <2> QED
      BY <2>2, <2>3, <2>4 DEF E!KeyKept, E!Has, a
  <1>6. x7' \in [Dirs -> E!Disk]
    BY <1>1, <1>5
  <1>7. E!TypeOK'
    BY <1>2, <1>4, <1>6 DEF E!TypeOK
  <1>8. E!Kept'
    BY <1>5 DEF E!Kept
  <1>9. \A e \in Dirs : E!Unknown(e) <=> E!Unknown(e)'
    BY <1>2 DEF E!Unknown
  <1>10. E!Unsent'
    <2> SUFFICES ASSUME NEW e \in Dirs
                 PROVE  /\ x6'[e].pc # "none" => x6'[e].token \in Tickets
                        /\ x6'[e].pc \in {"none", "made", "keyed", "synced"} =>
                              e \notin x4' /\ x5'[e] = "none" /\ E!Unknown(e)'
      BY DEF E!Unsent
    <2> QED
      BY <1>2, <1>3, <1>9 DEF E!Unsent
  <1>11. E!UnderWay'
    <2> SUFFICES ASSUME NEW e \in x4'
                 PROVE  /\ x5'[e] = "none" /\ E!Unknown(e)' /\ E!KeyKept(e)'
                        /\ x6'[e].pc # "none"
      BY DEF E!UnderWay
    <2>1. e \in x4 /\ e \in Dirs
      BY <1>2, EnrollTypes
    <2> QED
      BY <1>2, <1>3, <1>5, <1>9, <2>1 DEF E!UnderWay
  <1>12. E!Declined'
    BY <1>2, <1>3, <1>9 DEF E!Declined
  <1>13. E!Granted'
    <2> SUFFICES ASSUME NEW e \in Dirs
                 PROVE  /\ x5'[e] \in Names => x3'[x5'[e]] = e
                        /\ x6'[e].pc \in {"answered", "certified", "marked", "ok"}
                              \/ "identity" \in x7'[e].whole => ~E!Unknown(e)'
      BY DEF E!Granted, E!Has
    <2>1. "identity" \in x7'[e].whole => ~E!Unknown(e)
      BY <1>5, RunNow DEF E!Has
    <2>2. x6'[e].pc \in {"answered", "certified", "marked", "ok"} => ~E!Unknown(e)
      BY <1>3, RunNow
    <2> QED
      BY <1>2, <1>9, <2>1, <2>2 DEF E!Granted
  <1>14. \A n \in Names : x3[n] # None => x3[n] \in Dirs
    BY EnrollTypes
  <1>15. E!Registered'
    BY <1>2, <1>3, <1>14 DEF E!Registered
  <1>16. E!KeyBeforeNode'
    BY <1>2, <1>5, <1>14 DEF E!KeyBeforeNode, E!KeyKept
  <1>17. E!OneIdentityEach'
    BY <1>2, <1>3, <1>14 DEF E!OneIdentityEach
  <1>18. E!Tables(x2)'
    BY <1>2
  <1> QED
    BY <1>7, <1>8, <1>10, <1>11, <1>12, <1>13, <1>15, <1>16, <1>17, <1>18

LEMMA EnrollInit ==
    ASSUME E!Init PROVE E!EnrollmentInv
  <1> DEFINE a == [made |-> <<>>, safe |-> 0, whole |-> {}]
             row == [pc |-> "none", token |-> None, node |-> "none"]
  <1>1. /\ x1 = 1 /\ x3 = [n \in Names |-> None] /\ x4 = {} /\ x5 = [e \in Dirs |-> "none"]
        /\ x6 = [e \in Dirs |-> row] /\ x7 = [e \in Dirs |-> a]
        /\ x2 = [nodes |-> [n \in Names |-> E!NoNode],
                 tokens |-> [k \in Tickets |-> E!NoTokenRow],
                 tasks |-> x2.tasks, key |-> x2.key, trust |-> x2.trust,
                 paused |-> x2.paused, seq |-> x2.seq, reserved |-> x2.reserved]
    BY DEF E!Init
  <1>2. x1 \in 1 .. LastTime
    BY <1>1, EnrollConstants
  <1>3. /\ E!Tables(x2) /\ x2.nodes = [n \in Names |-> E!NoNode]
        /\ x2.tokens = [k \in Tickets |-> E!NoTokenRow]
    BY <1>1, TablesMade
  <1>4. x2.nodes \in [Names -> E!NodeRow] /\ x2.tokens \in [Tickets -> E!TokenRow]
    BY <1>3 DEF E!NodeRow, E!NoNode, E!TokenRow, E!NoTokenRow
  <1>5. a \in E!Disk /\ Len(a.made) = 0 /\ a.safe = 0 /\ a.whole = {}
    BY DEF E!Disk
  <1>6. row \in E!Run /\ row.pc = "none"
    BY DEF E!Run
  <1> HIDE DEF a, row
  <1>7. /\ \A e \in Dirs : x5[e] = "none" /\ x6[e] = row /\ x7[e] = a
        /\ \A n \in Names : x3[n] = None
    BY <1>1
  <1>8. E!TypeOK
    BY <1>1, <1>2, <1>4, <1>5, <1>6 DEF E!TypeOK, E!Answer
  <1>9. E!Laid(a) /\ E!Reached(a, "none")
    <2>1. 0 <= 4 /\ 0 <= 0 /\ 1 .. 0 = {}
      OBVIOUS
    <2>2. E!Laid(a)
      BY <1>5, <2>1 DEF E!Laid
    <2> QED
      BY <1>5, <2>2 DEF E!Reached, E!Depth, E!Whole, E!Safe
  <1>10. E!Kept
    BY <1>6, <1>7, <1>9 DEF E!Kept
  <1>11. E!Unsent /\ E!UnderWay /\ E!Declined /\ E!Granted
    <2>1. \A e \in Dirs : E!Unknown(e)
      BY <1>7, EnrollConstants DEF E!Unknown
    <2>2. E!Unsent /\ E!UnderWay /\ E!Declined
      BY <1>1, <1>6, <1>7, <2>1 DEF E!Unsent, E!UnderWay, E!Declined
    <2>3. E!Granted
      BY <1>5, <1>6, <1>7, EnrollConstants DEF E!Granted, E!Has
    <2> QED
      BY <2>2, <2>3
  <1>12. E!Registered /\ E!KeyBeforeNode /\ E!OneIdentityEach
    BY <1>7 DEF E!Registered, E!KeyBeforeNode, E!OneIdentityEach
  <1> QED
    BY <1>3, <1>8, <1>10, <1>11, <1>12 DEF E!EnrollmentInv

LEMMA EnrollNext ==
    ASSUME E!EnrollmentInv, E!Next PROVE E!EnrollmentInv'
  BY ClockStep, PowerLossStep, TokenStep, DisableStep, EnrollStep, RefuseStep, EnrolledStep,
     StartStep DEF E!Next

(***************************************************************************)
(* No enrollment leaves half of an identity, for every number of           *)
(* directories, nodes and tokens: whatever is lost, repeated, late, killed *)
(* or cut off by a power loss, the key is durable before the server knows  *)
(* its node, the completion marker comes last, a token makes one identity  *)
(* and what Enroll reports is so (internal/agent/enrollment.go).           *)
(***************************************************************************)
THEOREM EnrollmentHolds == Spec => []EnrollmentWhole
  <1> DEFINE Inv == part = "enrollment" => E!EnrollmentInv
  <1>1. Init => Inv
    BY EnrollInit DEF Init
  <1>2. Inv /\ [Next]_vars => Inv'
    <2> SUFFICES ASSUME Inv, [Next]_vars PROVE Inv'
      OBVIOUS
    <2>1. CASE UNCHANGED vars
      <3>1. UNCHANGED <<part, x1, x2, x3, x4, x5, x6, x7>>
        BY <2>1 DEF vars, above7, above8, above11
      <3> SUFFICES ASSUME E!EnrollmentInv PROVE E!EnrollmentInv'
        BY <3>1
      <3>2. E!TypeOK' /\ E!Kept' /\ E!KeyBeforeNode' /\ E!OneIdentityEach'
        BY <3>1 DEF E!EnrollmentInv, E!TypeOK, E!Kept, E!KeyBeforeNode, E!OneIdentityEach,
           E!Has
      <3>3. E!Unsent' /\ E!UnderWay' /\ E!Declined' /\ E!Granted'
        BY <3>1 DEF E!EnrollmentInv, E!Unsent, E!UnderWay, E!Declined, E!Granted, E!Has,
           E!KeyKept, E!Unknown
      <3>4. E!Registered' /\ E!Tables(x2)'
        BY <3>1 DEF E!EnrollmentInv, E!Registered
      <3> QED
        BY <3>2, <3>3, <3>4 DEF E!EnrollmentInv
    <2>2. CASE part = "enrollment" /\ E!Next
      BY <2>2, EnrollNext
    <2>3. CASE part # "enrollment" /\ part' = part
      BY <2>3
    <2> QED
      BY <2>1, <2>2, <2>3 DEF Next, Rotate, Enroll, Administer,
         Admit, Beat, AuditFiles, Read, CheckFrame, Query
  <1>3. Inv => EnrollmentWhole
    <2> SUFFICES ASSUME E!EnrollmentInv
                 PROVE  E!TypeOK /\ E!KeyBeforeNode /\ E!MarkerComplete /\ E!ReportTrue
                        /\ E!OneIdentityEach
      BY DEF EnrollmentWhole
    <2>1. E!MarkerComplete
      BY DEF E!EnrollmentInv, E!MarkerComplete, E!Kept, E!Laid, E!Granted, E!Unknown, E!Has
    <2>2. E!ReportTrue
      <3>1. ASSUME NEW e \in Dirs, x6[e].pc = "ok"
            PROVE  x7[e].safe = 4 /\ x7[e].whole = E!Files
        BY <3>1 DEF E!EnrollmentInv, E!Kept, E!Reached, E!Safe, E!Whole
      <3>2. ASSUME NEW e \in Dirs, x6[e].pc = "rejected"
            PROVE  e \notin x4 /\ E!Unknown(e)
        <4>1. x5[e] = "refused" /\ E!Unknown(e)
          BY <3>2 DEF E!EnrollmentInv, E!Declined
        <4> QED
          BY <4>1 DEF E!EnrollmentInv, E!UnderWay
      <3> QED
        BY <3>1, <3>2 DEF E!ReportTrue, E!Unknown
    <2> QED
      BY <2>1, <2>2 DEF E!EnrollmentInv
  <1> QED
    BY <1>1, <1>2, <1>3, PTL DEF Spec
=============================================================================
