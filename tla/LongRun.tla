------------------------------- MODULE LongRun ------------------------------
(***************************************************************************)
(* What must happen in the long run, in three parts of the system that     *)
(* share no state: the delivery of tasks and results between server and    *)
(* probe (module Delivery), trust files that arrive while tasks are queued *)
(* (module Rotation), and the end of the server process (module            *)
(* Listeners).  A behaviour is about one of them.                          *)
(***************************************************************************)
EXTENDS Delivery

CONSTANTS
    Servers, MaxActive    \* see Listeners

VARIABLES
    part,                                 \* which of the modules moves
    clock, db, held, files, bound, dead,  \* the state of Rotation
    guided,
    ctx, serve, stopper, active,          \* the state of Listeners
    pending, results, store, forced, failed

\* One task of two seconds, and a trust file that may cut the window of its key:
\* staged in the first second, it ends the window in the fourth, and a task that
\* was submitted in the third is still live then.
U == INSTANCE Rotation
       WITH now <- clock, d <- db, q <- bound,
            TTLs <- {2}, Asked <- {1}, Pinned <- Key, MaxLife <- 2, MaxSkew <- 0,
            Overlaps <- {3}, Validity <- {2}, MaxFiles <- 1,
            MaxTime <- 7, GuideTime <- 7

L == INSTANCE Listeners

ASSUME LongRunAssumption == U!RotationAssumption /\ L!ListenersAssumption

delivering == vars
changing == <<clock, db, held, files, bound, dead, guided>>
stopping == <<ctx, serve, stopper, active, pending, results, store, forced, failed>>
all == <<part, delivering, changing, stopping>>

Delivering(A) == part = "delivery" /\ A /\ UNCHANGED <<part, changing, stopping>>
Rotating(A) == part = "rotation" /\ A /\ UNCHANGED <<part, delivering, stopping>>
Stopping(A) == part = "listeners" /\ A /\ UNCHANGED <<part, delivering, changing>>

LongInit ==
    /\ part \in {"delivery", "rotation", "listeners"}
    /\ Init /\ U!Init /\ L!Init
    /\ ~guided    \* any command at any time

LongNext == Delivering(Next) \/ Rotating(U!Next) \/ Stopping(L!Next)

\* Delivery: a running worker goes on, a dead one is restarted, time passes,
\* and the server handles what reaches it; the network may lose any request
\* or answer, but not all of those that are sent again and again.
\* Rotation: time passes and a running worker polls; the operator need not do
\* anything.  Listeners: the goroutines run, and time passes for Shutdown; no
\* handler need ever end.
Fairness ==
    /\ WF_all(Delivering(Tick)) /\ WF_all(Delivering(Work))
    /\ SF_all(Delivering(Heard("result")))
    /\ SF_all(Delivering(Heard("poll")))
    /\ WF_all(Rotating(U!Tick)) /\ WF_all(Rotating(U!PollsOn))
    /\ \A s \in Servers : WF_all(Stopping(L!Steps(s)))
    /\ WF_all(Stopping(L!Collect)) /\ WF_all(Stopping(L!Exit))

LiveSpec == LongInit /\ [][LongNext]_all /\ Fairness

-----------------------------------------------------------------------------
(* Properties, with BothEndsAgree and OutcomesReported of Delivery.        *)

(***************************************************************************)
(* A queued task is handed out or closed, whatever became of the tasks     *)
(* before it, unless writing an outcome failed and the worker was not      *)
(* restarted since; also a task whose window was cut by a trust file, so   *)
(* that the selected key may no longer sign it and every poll of its node  *)
(* fails (Poll in internal/state/tasks.go).                                *)
(***************************************************************************)
QueueServed == QueueDrains /\ U!QueueMoves

(***************************************************************************)
(* The end of one listener is the end of the process, even if a handler    *)
(* never ends, and the store is closed after all of them (runHTTP in       *)
(* internal/server/server.go, run in cmd/server/main.go).                  *)
(***************************************************************************)
OrderlyEnd == [](L!TypeOK /\ L!StoreClosedLast) /\ L!EverythingStops
=============================================================================
