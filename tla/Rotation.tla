------------------------------ MODULE Rotation ------------------------------
(***************************************************************************)
(* A change of the task-signing key, across the server and one probe.      *)
(* signctl writes trust files, localctl installs them on the server and    *)
(* selects the key, probectl trust-migrate binds the probe's replay state  *)
(* to them, and the operator puts the files and the private key in place   *)
(* and restarts the services.  These are separate commands on two machines *)
(* that may be given in any order, fail, be repeated, and meet tasks that  *)
(* are on their way.                                                       *)
(*                                                                         *)
(* d is the server's database, see module Dispatch.  q is what the probe   *)
(* keeps about trust and requests.                                         *)
(*                                                                         *)
(* Simplifications.  Both machines read the same clock, and it does not go *)
(* back.  The policy check of the worker is the choice between accepting   *)
(* and rejecting, and what it accepts succeeds unless interrupted.  The    *)
(* node stays enrolled and ready.  An envelope that was signed may reach   *)
(* the worker at any later time.  Neither audit log fills: the server's is *)
(* not counted, so that seq stays 0.                                       *)
(***************************************************************************)
EXTENDS Dispatch

CONSTANTS
    Node,          \* the probe's node
    Pinned,        \* the key of the original PEM file
    MaxLife,       \* protocol.MaxLifetime
    MaxSkew,       \* protocol.MaxClockSkew
    Overlaps,      \* retire-at of a staged file, from the time of staging
    Validity,      \* valid-until of a staged file, from its retire-at
    Asked,         \* bound of the model: the tasks that are submitted
    MaxFiles,      \* bound of the model: trust files that signctl writes
    MaxTime,       \* bound of the model: the last second
    GuideTime      \* the same, when the guide is followed

RotationAssumption ==
    /\ Capacity \in Nat \ {0} /\ MaxTasks \in Nat /\ TTLs \subseteq Nat
    /\ Digests # {} /\ NoDigest \notin Digests
    /\ NoKey \notin Keys /\ NoTrust \notin TrustIDs
    /\ Node \in Nodes /\ Pinned \in Keys
    /\ MaxLife \in Nat /\ MaxSkew \in Nat /\ MaxFiles \in Nat
    /\ \A t \in {MaxTime, GuideTime} : t \in Nat /\ MaxLife + MaxSkew < t
    /\ NoTrust \notin TrustSet
    /\ Overlaps \subseteq Nat /\ Validity \subseteq Nat \ {0}
    /\ Asked \subseteq Reqs

VARIABLES
    now,      \* the wall clock
    d,        \* the server's database
    held,     \* the private key that the server process was started with
    files,    \* trust files that signctl has written
    q,        \* the probe
    dead,     \* history: keys that were ever retired by a binding of q
    guided    \* the operator follows docs/phase-8-signer-rotation.md

vars == <<now, d, held, files, q, dead, guided>>

Last == IF guided THEN GuideTime ELSE MaxTime

Database == [nodes : [Nodes -> NodeRow], tokens : [Tokens -> TokenRow],
             tasks : [Reqs -> TaskRow], key : Keys,
             trust : TrustSet \cup {NoTrust}, paused : BOOLEAN,
             seq : Nat, reserved : Int]

\* NoTrust stands for the PEM file, and for schema 1 in the database.
Probe == [doc : TrustSet \cup {NoTrust},     \* probe_trust, the binding
          file : TrustSet \cup {NoTrust},    \* the -task-public-key file
          worker : {"down", "up", "degraded"},
          loaded : TrustSet \cup {NoTrust},  \* State.trust of the process
          rows : [Reqs -> {"none", "running"} \cup Statuses],
          delivered : SUBSET Reqs,
          events : Nat]                      \* signer_trust_changed events

Init ==
    /\ guided \in BOOLEAN
    /\ now = MaxLife + MaxSkew + 1
    /\ d = [nodes |-> [n \in Nodes |->
                IF n = Node THEN [state |-> "enabled", received |-> now,
                                  policy |-> CHOOSE p \in Digests : TRUE,
                                  ready |-> TRUE]
                            ELSE NoNode],
            tokens |-> [k \in Tokens |-> NoTokenRow],
            tasks |-> [r \in Reqs |-> NoTask],
            key |-> Pinned, trust |-> NoTrust, paused |-> FALSE,
            seq |-> 0, reserved |-> 1]
    /\ held = Pinned
    /\ files = {}
    /\ q = [doc |-> NoTrust, file |-> NoTrust, worker |-> "up",
            loaded |-> NoTrust, rows |-> [r \in Reqs |-> "none"],
            delivered |-> {}, events |-> 0]
    /\ dead = {}

-----------------------------------------------------------------------------
(* signctl: nothing but new files.                                         *)

Least(a, b) == IF a <= b THEN a ELSE b

\* The file of Stage, with the new key k, at time t.
Staged(s, id, k, t, retireAt, validUntil) ==
    LET new == [from |-> t, until |-> validUntil, legacy |-> FALSE]
    IN  IF s = NoTrust
        THEN [id |-> id, gen |-> 1, retired |-> {},
              keys |-> [l \in Keys |->
                 CASE l = k -> new
                   [] l = Pinned /\ l # k -> [from |-> t - MaxLife - MaxSkew,
                                              until |-> retireAt, legacy |-> TRUE]
                   [] OTHER -> NoTrustKey]]
        ELSE [s EXCEPT !.gen = @ + 1,
                       !.keys = [l \in Keys |->
                          CASE l = k -> new
                            [] l \in Active(s) /\ l # k ->
                                  [s.keys[l] EXCEPT !.until = Least(@, retireAt)]
                            [] OTHER -> NoTrustKey]]

StageOK(s, id, k, t, retireAt, validUntil) ==
    /\ retireAt > t + MaxLife /\ retireAt - t <= MaxOverlap
    /\ validUntil > retireAt
    /\ s # NoTrust =>
          /\ Cardinality(Active(s)) = 1
          /\ Cardinality(s.retired) < MaxRetired
          /\ \A l \in Active(s) : s.keys[l].until > t + MaxLife
    /\ MayFollow(s, Pinned, Staged(s, id, k, t, retireAt, validUntil))

\* The file of Retire.
Retiring(s, k) ==
    [s EXCEPT !.gen = @ + 1, !.keys[k] = NoTrustKey, !.retired = @ \cup {k}]

RetireOK(s, k) == s # NoTrust /\ MayFollow(s, NoKey, Retiring(s, k))

\* RandomID: every file staged from the PEM file starts a lineage of its own.
StageFile(s, id, k, overlap, valid) ==
    /\ Cardinality(files) < MaxFiles
    /\ s \in files \cup {NoTrust}
    /\ s = NoTrust => \A f \in files : f.id # id
    /\ guided => s = d.trust
    /\ StageOK(s, id, k, now, now + overlap, now + overlap + valid)
    /\ files' = files \cup
         {Staged(s, id, k, now, now + overlap, now + overlap + valid)}
    /\ UNCHANGED <<now, d, held, q, dead, guided>>

RetireFile(s, k) ==
    /\ Cardinality(files) < MaxFiles
    /\ s \in files /\ RetireOK(s, k)
    /\ guided => s = d.trust /\ k # d.key
    /\ files' = files \cup {Retiring(s, k)}
    /\ UNCHANGED <<now, d, held, q, dead, guided>>

-----------------------------------------------------------------------------
(* The server.                                                             *)

Live(r) == d.tasks[r].state = "dispatched" /\ d.tasks[r].expires > now

\* No task is queued, and no dispatched one can still be delivered.
Drained == Queued(d) = {} /\ ~ \E r \in Reqs : Live(r)

Serve(e) == d' = [e EXCEPT !.seq = 0] /\ UNCHANGED <<now, held, files, q, dead, guided>>

\* Only tasks whose expiry the model reaches.
SubmitTask(r, ttl) ==
    /\ now + ttl <= Last
    /\ EnqueueOK(d, r, Node, ttl, now)
    /\ Serve(Enqueue(d, r, Node, ttl, now))

Polled == PollOK(d, Node, held, now) /\ ~d.paused /\ ExpireOK(d, Node, now)

PollNothing ==
    /\ Polled /\ Deliverable(d, Node, now) = {}
    /\ Serve(Expire(d, Node, now))

PollSign(r) ==
    /\ Polled /\ Oldest(d, Node, now, r)
    /\ SignOK(Expire(d, Node, now), r, now)
    /\ Serve(Sign(Expire(d, Node, now), r))

Poll == PollNothing \/ \E r \in Reqs : PollSign(r)

PauseDispatch(paused) ==
    /\ d.paused # paused /\ PauseOK(d, paused, now)
    /\ guided /\ ~paused =>
          /\ q.worker = "up" /\ q.file = q.doc
          /\ d.trust = q.doc /\ held = d.key
    /\ Serve(Pause(d, paused))

InstallSignerTrust(s) ==
    /\ s \in files /\ InstallOK(d, s, now)
    /\ guided => q.doc = s
    /\ Serve(Install(d, s))

SwitchSigner(k) == SwitchOK(d, k, now) /\ Serve(Switch(d, k))

CancelQueuedForSignerChange ==
    Queued(d) # {} /\ CancelQueuedOK(d) /\ Serve(CancelQueued(d))

\* The private key file is replaced and the server restarted; a key that is
\* not the selected one does not start.
RestartServer(k) ==
    /\ ConfigureOK(d, k) /\ k # held
    /\ held' = k /\ d' = [Configure(d, k) EXCEPT !.seq = 0]
    /\ UNCHANGED <<now, files, q, dead, guided>>

-----------------------------------------------------------------------------
(* The probe's operator.                                                   *)

Locally(p) == q' = p /\ UNCHANGED <<now, d, held, files, guided>>

\* Faulty: an intact database is all that is asked for.
AnyTrust(p, given) == TRUE

\* checkTrustBinding, for the trust that was given or loaded from a file.
Bound(p, given) == given = p.doc

Running(p) == {r \in Reqs : p.rows[r] = "running"}

\* MigrateTrust, with the file that is said to be the current one.  Only a
\* worker with task state holds the process lock.
MigrateOK(p, given, next) ==
    /\ MayFollow(given, Pinned, next)
    /\ p.worker # "up"
    /\ Running(p) = {}
    /\ p.doc = next \/ Bound(p, given)

\* A repetition after a lost success changes nothing.
Migrated(p, next) ==
    IF p.doc = next THEN p
    ELSE [p EXCEPT !.doc = next, !.events = @ + 1]

MigrateTrust(given, next) ==
    /\ given \in files \cup {NoTrust} /\ next \in files
    /\ MigrateOK(q, given, next)
    /\ guided => d.paused /\ Drained /\ given = q.file /\ q.worker = "down"
    /\ Locally(Migrated(q, next))
    /\ dead' = dead \cup next.retired

\* Root replaces the file, at any time; a running worker does not look.
PlaceFile(s) ==
    /\ s \in files \cup {NoTrust} /\ s # q.file
    /\ guided => s = q.doc /\ q.worker = "down"
    /\ Locally([q EXCEPT !.file = s])
    /\ UNCHANGED dead

\* The agent starts: open loads the file, checks the binding and recovers an
\* interrupted task, or the agent goes on without task state.
Started(p) ==
    IF Bound(p, p.file)
    THEN [p EXCEPT !.worker = "up", !.loaded = p.file,
                   !.rows = [r \in Reqs |-> IF p.rows[r] = "running"
                                            THEN "indeterminate" ELSE p.rows[r]]]
    ELSE [p EXCEPT !.worker = "degraded"]

StartWorker ==
    q.worker = "down" /\ Locally(Started(q)) /\ UNCHANGED dead

\* It is stopped, or dies.
StopWorker ==
    /\ q.worker # "down"
    /\ Locally([q EXCEPT !.worker = "down", !.loaded = NoTrust])
    /\ UNCHANGED dead

-----------------------------------------------------------------------------
(* The worker.                                                             *)

\* Engine.Process verifies with the pinned key, or with the loaded trust.
Accepts(trust, task, t) ==
    IF trust = NoTrust THEN task.env = [key |-> Pinned, set |-> NoTrust]
                       ELSE Verifies(trust, task, t)

\* Process of an envelope that was signed for request r, decided anew.
Process(r) ==
    /\ q.worker = "up" /\ d.tasks[r].env # NoEnvelope
    /\ q.rows[r] = "none" /\ Running(q) = {}
    /\ Accepts(q.loaded, d.tasks[r], now)
    /\ \E s \in IF now >= d.tasks[r].expires THEN {"expired"}
                ELSE {"running", "rejected"} :
          Locally([q EXCEPT !.rows[r] = s])
    /\ UNCHANGED dead

Finish(r) ==
    /\ q.worker = "up" /\ q.rows[r] = "running"
    /\ Locally([q EXCEPT !.rows[r] = "succeeded"])
    /\ UNCHANGED dead

\* flush, or the submission at the end of a cycle, with its acknowledgment.
Deliver(r) ==
    LET v == [status |-> q.rows[r], policy |-> d.tasks[r].policy]
    IN  /\ q.worker = "up" /\ q.rows[r] \in Statuses /\ r \notin q.delivered
        /\ SubmitOK(d, Node, r, v)
        /\ d' = [Submit(d, r, v) EXCEPT !.seq = 0]
        /\ q' = [q EXCEPT !.delivered = @ \cup {r}]
        /\ UNCHANGED <<now, held, files, dead, guided>>

Tick ==
    now < Last /\ now' = now + 1 /\ UNCHANGED <<d, held, files, q, dead, guided>>

Next ==
    \/ Tick
    \/ \E s \in files \cup {NoTrust}, id \in TrustIDs, k \in Keys,
          o \in Overlaps, v \in Validity : StageFile(s, id, k, o, v)
    \/ \E s \in files, k \in Keys : RetireFile(s, k)
    \/ \E r \in Asked, ttl \in TTLs : SubmitTask(r, ttl)
    \/ Poll
    \/ \E paused \in BOOLEAN : PauseDispatch(paused)
    \/ \E s \in files : InstallSignerTrust(s)
    \/ \E k \in Keys : SwitchSigner(k)
    \/ CancelQueuedForSignerChange
    \/ \E k \in Keys : RestartServer(k)
    \/ \E s \in files \cup {NoTrust}, t \in files : MigrateTrust(s, t)
    \/ \E s \in files \cup {NoTrust} : PlaceFile(s)
    \/ StartWorker \/ StopWorker
    \/ \E r \in Reqs : Process(r) \/ Finish(r) \/ Deliver(r)

Spec == Init /\ [][Next]_vars

\* The loop of a running worker polls again and again.
PollsOn == q.worker = "up" /\ Poll

-----------------------------------------------------------------------------
(* Properties.                                                             *)

\* What the operator and the probe have, and the database.
Typed ==
    /\ guided \in BOOLEAN /\ now \in 1 .. Last /\ held \in Keys
    /\ files \subseteq TrustSet /\ q \in Probe /\ dead \subseteq Keys

TypeOK == Typed /\ d \in Database

(***************************************************************************)
(* A worker that executes tasks does so under the trust its replay state   *)
(* is bound to, whatever is migrated or replaced while it runs: migration  *)
(* needs its lock, open the matching file.                                 *)
(***************************************************************************)
WorkerBound == q.worker = "up" => q.loaded = q.doc

(***************************************************************************)
(* A key that a binding of the probe ever retired decides nothing again,   *)
(* in whatever order files of any lineage are staged, migrated, restored   *)
(* and re-migrated, also for envelopes it signed before.                   *)
(***************************************************************************)
NotByRetired ==
    \A r \in Reqs :
        q.rows[r] = "none" /\ q'.rows[r] # "none" =>
            d.tasks[r].env.key \notin dead

RetiredDecidesNothing == [][NotByRetired]_vars

(***************************************************************************)
(* Every change of the binding is recorded by one event, and a repetition  *)
(* of a change that was committed records none.                            *)
(***************************************************************************)
OneEventEach ==
    q.events = IF q.doc = NoTrust THEN 0 ELSE q.doc.gen

(***************************************************************************)
(* When the guide is followed, a probe that executes tasks accepts every   *)
(* envelope that the server still delivers, and the server can hand it out *)
(* again, in every phase of the change.                                    *)
(***************************************************************************)
LiveAccepted ==
    guided /\ q.worker = "up" =>
        \A r \in Reqs : Live(r) => /\ Accepts(q.loaded, d.tasks[r], now)
                                   /\ ResendOK(d, r, now)

(***************************************************************************)
(* What the probe decided under a key that has since been retired still    *)
(* reaches the server: no change of trust makes a stored result one that   *)
(* SubmitResult refuses.                                                   *)
(***************************************************************************)
ResultsAcceptable ==
    \A r \in Reqs : q.rows[r] \in Statuses =>
        SubmitOK(d, Node, r, [status |-> q.rows[r], policy |-> d.tasks[r].policy])

(***************************************************************************)
(* A task that the selected key may no longer sign, because a trust file   *)
(* cut its window, fails every poll of its node.  It does not do so for    *)
(* good: once dispatch runs and the worker polls, every queued task is     *)
(* signed or closed.                                                       *)
(***************************************************************************)
QueueMoves ==
    <>[](~d.paused /\ held = d.key /\ q.worker = "up") =>
        \A r \in Asked : r \in Queued(d) ~> r \notin Queued(d)

-----------------------------------------------------------------------------
(* Why a retired key decides nothing: the inductive invariant.             *)

\* What signctl writes is sound; NoTrust is the PEM file, which it does not.
FilesSound == \A f \in files : f # NoTrust /\ ValidTrust(f)

\* The probe is bound to a file of signctl, or to the PEM file.
DocKnown == q.doc \in files \cup {NoTrust} /\ q.file \in files \cup {NoTrust}

\* The binding carries on every key that one before it retired.
DeadKept == dead \subseteq (IF q.doc = NoTrust THEN {} ELSE q.doc.retired)

BindingInv ==
    Typed /\ WorkerBound /\ OneEventEach /\ FilesSound /\ DocKnown /\ DeadKept

-----------------------------------------------------------------------------
(* Why nothing in flight is lost: what the inductive invariant adds.       *)

\* Two slots of the audit log for every queued task, one for every dispatched
\* one, and one for the node.
SlotsHeld ==
    /\ d.seq = 0 /\ d.nodes[Node].state = "enabled"
    /\ d.reserved = 1 + 2 * Cardinality(Queued(d)) + Cardinality(Dispatched(d))
    /\ d.reserved <= Capacity

\* What was signed is open, or its result is the one of the probe.
Accounted(r, task) ==
    IF task.env = NoEnvelope
    THEN q.rows[r] = "none" /\ task.state # "dispatched" /\ task.result = NoResult
    ELSE /\ task.node = Node /\ task.policy # NoDigest
         /\ \/ task.state = "dispatched" /\ task.result = NoResult
            \/ /\ task.state \in Statuses /\ q.rows[r] \in Statuses
               /\ task.result = [status |-> q.rows[r], policy |-> task.policy]

\* Queued tasks know their policy.
RowsAgree ==
    \A r \in Reqs : /\ Accounted(r, d.tasks[r])
                    /\ r \in Queued(d) => d.tasks[r].policy # NoDigest /\ d.tasks[r].node = Node

\* The server can hand out again what it still delivers.
Resendable ==
    /\ d.trust = NoTrust => d.key = Pinned
    /\ \A r \in Reqs : Live(r) => ResendOK(d, r, now)

\* The guide lets the two ends differ only while nothing is on its way.
EndsInStep == guided /\ d.trust # q.doc => d.paused /\ Drained

InFlightInv ==
    /\ BindingInv /\ d \in Database
    /\ SlotsHeld /\ RowsAgree /\ Resendable /\ EndsInStep
=============================================================================
