------------------------------ MODULE Delivery ------------------------------
(***************************************************************************)
(* Tasks and results on their way between the server and one probe: the    *)
(* server's queue (module Dispatch), the loop of agent.RunTasks as a       *)
(* client of it, the HTTP requests between them, and the probe's durable   *)
(* decisions, for which its abstract specification TaskLife stands, which  *)
(* module Probe implements.                                                *)
(*                                                                         *)
(* A request may be lost, or reach the server when the worker has given it *)
(* up; an answer may be lost; the worker may die at any point; the server  *)
(* being down is the loss of what it is sent.                              *)
(*                                                                         *)
(* Simplifications.  One signing key without trust files, see module       *)
(* Rotation.  The node's last heartbeat stays good.  What the worker finds *)
(* in its policy, its clock and its capacity is a choice.  The server's    *)
(* audit log is not counted, so that seq stays 0.                          *)
(***************************************************************************)
EXTENDS Dispatch

CONSTANTS
    Node,          \* the probe's node
    Key,           \* the selected task key
    Disabling,     \* whether an administrator may disable the node
    MaxTime        \* bound of the model: the last second

ASSUME DeliveryAssumption ==
    /\ Node \in Nodes /\ Key \in Keys /\ Disabling \in BOOLEAN
    /\ Digests # {} /\ MaxTime \in Nat \ {0}

VARIABLES
    now,         \* the server's clock
    d,           \* the server's database
    status,      \* TaskLife: the probe's decisions,
    starts,      \*   how often a collector started,
    delivered,   \*   whether the result was acknowledged
    policy,      \* the policy digest stored with each decision
    pc,          \* where the worker is
    hand,        \* the request it is about, 0 for none
    wire,        \* requests that have not reached the server yet
    reply        \* the answer to the worker's last request

life == <<status, starts, delivered, policy>>
worker == <<pc, hand, wire, reply>>
vars == <<now, d, life, worker>>

Life == INSTANCE TaskLife

\* A request, and whether the worker still waits for its answer.
Call == [kind : {"poll", "result"}, req : Reqs \cup {0},
         value : Result \cup {NoResult}, live : BOOLEAN]

PollCall == [kind |-> "poll", req |-> 0, value |-> NoResult, live |-> TRUE]
ResultCall(r) ==
    [kind |-> "result", req |-> r,
     value |-> [status |-> status[r], policy |-> policy[r]], live |-> TRUE]

\* An answer; req 0 with kind "poll" is 204, nothing to do.
Reply == [kind : {"none", "error", "poll", "ack"}, req : Reqs \cup {0}]
NoReply == [kind |-> "none", req |-> 0]
Failure == [kind |-> "error", req |-> 0]

Init ==
    /\ now = 1
    /\ d = [nodes |-> [n \in Nodes |->
                IF n = Node THEN [state |-> "enabled", received |-> now,
                                  policy |-> CHOOSE p \in Digests : TRUE,
                                  ready |-> TRUE]
                            ELSE NoNode],
            tokens |-> [k \in Tokens |-> NoTokenRow],
            tasks |-> [r \in Reqs |-> NoTask],
            key |-> Key, trust |-> NoTrust, paused |-> FALSE,
            seq |-> 0, reserved |-> 1]
    /\ Life!Init
    /\ policy = [r \in Reqs |-> NoDigest]
    /\ pc = "idle" /\ hand = 0 /\ wire = {} /\ reply = NoReply

-----------------------------------------------------------------------------
(* The server.                                                             *)

Serve(e) == d' = [e EXCEPT !.seq = 0]

SubmitTask(r, ttl) ==
    /\ now + ttl <= MaxTime /\ EnqueueOK(d, r, Node, ttl, now)
    /\ Serve(Enqueue(d, r, Node, ttl, now))
    /\ UNCHANGED <<now, life, worker>>

DisableNode ==
    /\ Disabling /\ d.nodes[Node].state = "enabled" /\ DisableOK(d, Node)
    /\ Serve(Disable(d, Node))
    /\ UNCHANGED <<now, life, worker>>

\* A request has been handled: its answer goes to the worker, if that waits.
Answer(c, a) ==
    /\ wire' = wire \ {c}
    /\ reply' = IF c.live THEN a ELSE reply
    /\ UNCHANGED <<now, life, pc, hand>>

Polled(c) ==
    /\ c \in wire /\ c.kind = "poll"
    /\ PollOK(d, Node, Key, now) /\ ExpireOK(d, Node, now)

\* PollTask asks the store again for three seconds before it answers 204.
PollNothing(c) ==
    /\ Polled(c) /\ Deliverable(d, Node, now) = {}
    /\ Serve(Expire(d, Node, now))
    /\ \/ Answer(c, [kind |-> "poll", req |-> 0])
       \/ c.live /\ UNCHANGED <<now, life, worker>>

PollSign(c, r) ==
    /\ Polled(c) /\ Oldest(d, Node, now, r)
    /\ SignOK(Expire(d, Node, now), r, now)
    /\ Serve(Sign(Expire(d, Node, now), r))
    /\ Answer(c, [kind |-> "poll", req |-> r])

PollResend(c, r) ==
    /\ Polled(c) /\ Oldest(d, Node, now, r)
    /\ ResendOK(d, r, now)
    /\ Serve(Expire(d, Node, now))
    /\ Answer(c, [kind |-> "poll", req |-> r])

SubmitResult(c) ==
    /\ c \in wire /\ c.kind = "result"
    /\ SubmitOK(d, Node, c.req, c.value)
    /\ Serve(Submit(d, c.req, c.value))
    /\ Answer(c, [kind |-> "ack", req |-> c.req])

\* Anything else is answered with an error.
Refused(c) ==
    /\ c \in wire
    /\ IF c.kind = "poll" THEN ~PollOK(d, Node, Key, now)
                          ELSE ~SubmitOK(d, Node, c.req, c.value)
    /\ Answer(c, Failure)
    /\ UNCHANGED d

Handle(c) ==
    \/ PollNothing(c) \/ SubmitResult(c) \/ Refused(c)
    \/ \E r \in Reqs : PollSign(c, r) \/ PollResend(c, r)

-----------------------------------------------------------------------------
(* The network.                                                            *)

Lose(c) ==
    /\ c \in wire
    /\ wire' = wire \ {c}
    /\ UNCHANGED <<now, d, life, pc, hand, reply>>

\* What the worker no longer waits for.
GivenUp == {[c EXCEPT !.live = FALSE] : c \in wire}

-----------------------------------------------------------------------------
(* The worker's loop.                                                      *)

Inside == UNCHANGED <<now, d>>

Go(where, r) == pc' = where /\ hand' = r /\ reply' = NoReply

\* The end of a cycle, of the process, or of its patience.
Rest(where) == Go(where, 0) /\ wire' = GivenUp

Crash ==
    /\ pc # "down"
    /\ Rest("down")
    /\ Inside /\ UNCHANGED life

Running == {r \in Reqs : status[r] = "running"}

\* Faulty: what has not been acknowledged counts as interrupted.
RecoverUnsent ==
    /\ pc = "down" /\ Rest("idle")
    /\ status' = [r \in Reqs |-> IF status[r] # "new" /\ ~delivered[r]
                                 THEN "indeterminate" ELSE status[r]]
    /\ UNCHANGED <<starts, delivered, policy>>
    /\ Inside

\* open: an interrupted task becomes indeterminate.
Recover ==
    /\ pc = "down" /\ Rest("idle")
    /\ IF Running # {}
       THEN \E r \in Reqs : Life!Finish(r) /\ status'[r] = "indeterminate"
       ELSE UNCHANGED <<status, starts, delivered>>
    /\ Inside /\ UNCHANGED policy

Outbox == {r \in Reqs : status[r] \in Life!Outcomes /\ ~delivered[r]}

Submitting(r) == Go("submit", r) /\ wire' = wire \cup {ResultCall(r)}

\* Each cycle first sends a stored result; after that only a ready worker
\* polls.
Flush(r) ==
    /\ pc = "idle" /\ r \in Outbox
    /\ Submitting(r)
    /\ Inside /\ UNCHANGED life

Poll ==
    /\ pc = "idle" /\ Outbox = {} /\ Running = {}
    /\ Go("poll", 0) /\ wire' = wire \cup {PollCall}
    /\ Inside /\ UNCHANGED life

\* prune, as part of Ready and prepare.
Prune ==
    /\ pc = "idle"
    /\ Life!Forget
    /\ Inside /\ UNCHANGED <<policy, worker>>

\* The request failed, timed out, or there is nothing to do.
GiveUp ==
    /\ pc \in {"poll", "submit"} /\ reply.kind \in {"none", "error", "poll"}
    /\ reply.kind = "poll" => reply.req = 0
    /\ Rest("idle")
    /\ Inside /\ UNCHANGED life

Acknowledge ==
    /\ pc = "submit" /\ reply = [kind |-> "ack", req |-> hand]
    /\ Life!Deliver(hand)
    /\ Rest("idle")
    /\ Inside /\ UNCHANGED policy

\* Process of the envelope in the answer.  A request that was decided before
\* does not come (RedeliveredUndecided), so its cached result is not sent here.
Received(r) == pc = "poll" /\ reply = [kind |-> "poll", req |-> r]

Accept(r) ==
    /\ Received(r)
    /\ Life!Accept(r)
    /\ policy' = [policy EXCEPT ![r] = d.tasks[r].policy]
    /\ Go("run", r) /\ UNCHANGED wire
    /\ Inside

\* The refusal is stored under the present policy, and sent.
Refuse(r) ==
    /\ Received(r)
    /\ Life!Refuse(r)
    /\ \E p \in Digests : policy' = [policy EXCEPT ![r] = p]
    /\ Go("stored", r) /\ UNCHANGED wire
    /\ Inside

\* Clock, capacity, or a decision whose row is gone: no result.
Unprocessed(r) ==
    /\ Received(r)
    /\ Rest("idle")
    /\ Inside /\ UNCHANGED life

Start ==
    /\ pc = "run" /\ Life!Start(hand)
    /\ Inside /\ UNCHANGED <<policy, worker>>

\* The outcome is written.
Finish ==
    /\ pc = "run" /\ Life!Finish(hand) /\ status'[hand] # "indeterminate"
    /\ pc' = "stored" /\ UNCHANGED <<hand, wire, reply>>
    /\ Inside /\ UNCHANGED policy

\* The outcome cannot be written: the row stays running, and the worker is
\* not ready, until a restart.
FinishFails ==
    /\ pc = "run" /\ Rest("idle")
    /\ Inside /\ UNCHANGED life

SubmitStored ==
    /\ pc = "stored" /\ Submitting(hand)
    /\ Inside /\ UNCHANGED life

Work ==
    \/ Recover \/ Poll \/ Acknowledge \/ Start \/ Finish \/ FinishFails
    \/ SubmitStored \/ GiveUp
    \/ \E r \in Reqs : Flush(r) \/ Accept(r) \/ Refuse(r) \/ Unprocessed(r)

Tick == now < MaxTime /\ now' = now + 1 /\ UNCHANGED <<d, life, worker>>

Next ==
    \/ Tick \/ Crash \/ Prune \/ DisableNode \/ Work
    \/ \E r \in Reqs, ttl \in TTLs : SubmitTask(r, ttl)
    \/ \E c \in wire : Handle(c) \/ Lose(c)

Spec == Init /\ [][Next]_vars

\* A request that the worker waits on reaches the server and is handled.
Heard(kind) == \E c \in wire : c.live /\ c.kind = kind /\ Handle(c)

-----------------------------------------------------------------------------
(* Properties.                                                             *)

TypeOK ==
    /\ now \in 1 .. MaxTime
    /\ d.tasks \in [Reqs -> TaskRow]
    /\ policy \in [Reqs -> Digests \cup {NoDigest}]
    /\ pc \in {"down", "idle", "poll", "run", "stored", "submit"}
    /\ hand \in Reqs \cup {0} /\ wire \subseteq Call /\ reply \in Reply

(***************************************************************************)
(* What the server has as the result of a task is what the probe stored:   *)
(* no retry, crash or late request makes them differ.                      *)
(***************************************************************************)
OutcomeAgrees ==
    \A r \in Reqs :
        d.tasks[r].result # NoResult /\ status[r] # "forgotten" =>
            d.tasks[r].result = [status |-> status[r], policy |-> policy[r]]

(***************************************************************************)
(* A task that the server closed by itself before it was handed out        *)
(* (expired, cancelled with its node) has not been decided by the probe    *)
(* and never runs, also when polls and envelopes are on their way.         *)
(***************************************************************************)
ClosedNeverRan ==
    \A r \in Reqs :
        d.tasks[r].state \in {"rejected", "expired"} /\ d.tasks[r].result = NoResult
            => status[r] = "new" /\ starts[r] = 0

(***************************************************************************)
(* The probe takes a result for delivered, and may forget it, only when    *)
(* the server has stored it.                                               *)
(***************************************************************************)
DeliveredStored ==
    \A r \in Reqs : delivered[r] => d.tasks[r].result # NoResult

(***************************************************************************)
(* The order of the loop, result before poll, is enough for a request to   *)
(* be handed to Process only while it is undecided, although the server    *)
(* hands out a dispatched task again at every poll; the replay protection  *)
(* of the probe is a second line of defence.                               *)
(***************************************************************************)
RedeliveredUndecided == \A r \in Reqs : Received(r) => status[r] = "new"

(***************************************************************************)
(* Server and probe agree on what became of every task: the result that    *)
(* the server has is the one that the probe stored, the probe takes for    *)
(* delivered only what the server has, what the server closed by itself    *)
(* never ran, and no envelope is taken up once its task was decided,       *)
(* whatever is lost, late, repeated or crashed over (RunTasks, PollTask,   *)
(* SubmitResult).                                                          *)
(***************************************************************************)
BothEndsAgree ==
    /\ TypeOK /\ OutcomeAgrees /\ DeliveredStored
    /\ ClosedNeverRan /\ RedeliveredUndecided

(***************************************************************************)
(* Every outcome that the probe has stored reaches the server, unless the  *)
(* node is disabled, although requests and answers are lost, as long as    *)
(* the worker does not die for ever (flush in internal/agent/tasks.go).    *)
(***************************************************************************)
OutcomesReported ==
    <>[](pc # "down") =>
        \A r \in Reqs :
            status[r] \in Life!Outcomes ~>
                d.tasks[r].result # NoResult \/ d.nodes[Node].state # "enabled"

(***************************************************************************)
(* A queued task is handed out or closed, whatever became of the tasks     *)
(* before it: neither a dispatched task whose result never comes nor a     *)
(* stored result holds up the queue for good, unless writing an outcome    *)
(* failed and the worker was not restarted since.                          *)
(***************************************************************************)
QueueDrains ==
    <>[](pc # "down" /\ (Running # {} => pc = "run")) =>
        \A r \in Reqs : r \in Queued(d) ~> r \notin Queued(d)
=============================================================================
