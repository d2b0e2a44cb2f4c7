----------------------------- MODULE Listeners -----------------------------
(***************************************************************************)
(* The server process from its start to its end: up to three listeners     *)
(* (probes, administrators, enrollment), each run by runHTTP of            *)
(* internal/server/server.go with a goroutine that shuts it down, their    *)
(* handlers, and run of cmd/server/main.go, which waits for the listeners  *)
(* and closes the store that the handlers use.                             *)
(*                                                                         *)
(* net/http is modelled by its documentation: Shutdown closes the listener *)
(* at once, whereupon ServeTLS returns, and then waits for the handlers as *)
(* long as its context allows; Close waits for nobody.                     *)
(***************************************************************************)
EXTENDS Integers, FiniteSets

CONSTANTS
    Servers,      \* the listeners of this process
    MaxActive     \* bound of the model: handlers of a listener at a time

ListenersAssumption == IsFiniteSet(Servers) /\ Servers # {} /\ MaxActive \in Nat

VARIABLES
    ctx,        \* whether the context of the process is cancelled
    serve,      \* what runHTTP does
    stopper,    \* what its goroutine does
    active,     \* handlers at work
    pending,    \* results in the channel
    results,    \* results that main still waits for
    store,      \* "open" or "closed"
    forced,     \* history: listeners whose handlers did not end in time
    failed      \* history: listeners that ended by themselves

vars == <<ctx, serve, stopper, active, pending, results, store, forced, failed>>

Count == Cardinality(Servers)

Init ==
    /\ ctx = FALSE /\ store = "open"
    /\ serve = [s \in Servers |-> "listen"]
    /\ stopper = [s \in Servers |-> "none"]
    /\ active = [s \in Servers |-> 0]
    /\ pending = 0 /\ results = Count
    /\ forced = {} /\ failed = {}

-----------------------------------------------------------------------------
(* The environment.                                                        *)

\* SIGINT or SIGTERM.
Signal ==
    /\ ~ctx /\ ctx' = TRUE
    /\ UNCHANGED <<serve, stopper, active, pending, results, store, forced, failed>>

\* On a new connection or an open one.
Arrive(s) ==
    /\ stopper[s] \in {"waiting", "draining", "unshut"} /\ active[s] < MaxActive
    /\ active' = [active EXCEPT ![s] = @ + 1]
    /\ UNCHANGED <<ctx, serve, stopper, pending, results, store, forced, failed>>

HandlerEnds(s) ==
    /\ active[s] > 0
    /\ active' = [active EXCEPT ![s] = @ - 1]
    /\ UNCHANGED <<ctx, serve, stopper, pending, results, store, forced, failed>>

-----------------------------------------------------------------------------
(* runHTTP.                                                                *)

\* The address is taken, or refused before: no goroutine was started.
ListenFails(s) ==
    /\ serve[s] = "listen"
    /\ serve' = [serve EXCEPT ![s] = "returned"] /\ pending' = pending + 1
    /\ UNCHANGED <<ctx, stopper, active, results, store, forced, failed>>

Listen(s) ==
    /\ serve[s] = "listen"
    /\ serve' = [serve EXCEPT ![s] = "serving"]
    /\ stopper' = [stopper EXCEPT ![s] = "waiting"]
    /\ UNCHANGED <<ctx, active, pending, results, store, forced, failed>>

\* The goroutine sees the end of the context and calls Shutdown.
Shutdown(s) ==
    /\ stopper[s] = "waiting" /\ ctx
    /\ stopper' = [stopper EXCEPT ![s] = "draining"]
    /\ UNCHANGED <<ctx, serve, active, pending, results, store, forced, failed>>

\* ServeTLS returns because of that, and stopped is closed ...
ServeEnds(s) ==
    /\ serve[s] = "serving" /\ stopper[s] \in {"draining", "done"}
    /\ serve' = [serve EXCEPT ![s] = "stopped"]
    /\ UNCHANGED <<ctx, stopper, active, pending, results, store, forced, failed>>

\* ... or with an error of its own.
ServeFails(s) ==
    /\ serve[s] = "serving"
    /\ serve' = [serve EXCEPT ![s] = "stopped"] /\ failed' = failed \cup {s}
    /\ UNCHANGED <<ctx, stopper, active, pending, results, store, forced>>

\* Shutdown returns when the last handler has, ...
Drained(s) ==
    /\ stopper[s] = "draining" /\ active[s] = 0
    /\ stopper' = [stopper EXCEPT ![s] = "done"]
    /\ UNCHANGED <<ctx, serve, active, pending, results, store, forced, failed>>

\* ... or after three seconds, and then Close does.
TimedOut(s) ==
    /\ stopper[s] = "draining" /\ active[s] > 0
    /\ stopper' = [stopper EXCEPT ![s] = "done"] /\ forced' = forced \cup {s}
    /\ UNCHANGED <<ctx, serve, active, pending, results, store, failed>>

\* Faulty: nobody tells the goroutine.
UntoldStopper(s) ==
    /\ stopper[s] = "waiting" /\ serve[s] = "stopped" /\ ctx
    /\ stopper' = [stopper EXCEPT ![s] = "unshut"]
    /\ UNCHANGED <<ctx, serve, active, pending, results, store, forced, failed>>

\* The goroutine sees that ServeTLS has returned, and leaves the rest alone.
SeesStopped(s) ==
    /\ stopper[s] = "waiting" /\ serve[s] = "stopped"
    /\ stopper' = [stopper EXCEPT ![s] = "unshut"]
    /\ UNCHANGED <<ctx, serve, active, pending, results, store, forced, failed>>

Returns(s) ==
    /\ serve[s] = "stopped" /\ stopper[s] \in {"done", "unshut"}
    /\ serve' = [serve EXCEPT ![s] = "returned"] /\ pending' = pending + 1
    /\ UNCHANGED <<ctx, stopper, active, results, store, forced, failed>>

-----------------------------------------------------------------------------
(* main                                                                    *)

Collect ==
    /\ pending > 0 /\ results > 0
    /\ pending' = pending - 1 /\ results' = results - 1
    /\ ctx' = TRUE
    /\ UNCHANGED <<serve, stopper, active, store, forced, failed>>

\* The deferred Close of the store.
Exit ==
    /\ results = 0 /\ store = "open"
    /\ store' = "closed"
    /\ UNCHANGED <<ctx, serve, stopper, active, pending, results, forced, failed>>

Steps(s) ==
    Listen(s) \/ Shutdown(s) \/ ServeEnds(s) \/ Drained(s) \/ TimedOut(s)
    \/ SeesStopped(s) \/ Returns(s)

Next ==
    \/ Signal \/ Collect \/ Exit
    \/ \E s \in Servers : Arrive(s) \/ HandlerEnds(s) \/ ListenFails(s) \/ ServeFails(s) \/ Steps(s)

Spec == Init /\ [][Next]_vars

-----------------------------------------------------------------------------
(* Properties.                                                             *)

TypeOK ==
    /\ ctx \in BOOLEAN /\ store \in {"open", "closed"}
    /\ serve \in [Servers -> {"listen", "serving", "stopped", "returned"}]
    /\ stopper \in [Servers -> {"none", "waiting", "draining", "done", "unshut"}]
    /\ active \in [Servers -> 0 .. MaxActive]
    /\ pending \in 0 .. Count /\ results \in 0 .. Count /\ forced \subseteq Servers
    /\ failed \subseteq Servers

(***************************************************************************)
(* The store is closed only when every listener has come to its end, and   *)
(* the handlers of every listener that was shut down in time have.         *)
(***************************************************************************)
StoreClosedLast ==
    store = "closed" => \A s \in Servers :
        /\ serve[s] = "returned"
        /\ s \notin forced \cup failed => active[s] = 0

(***************************************************************************)
(* The end of one listener is the end of the process: after a signal, or   *)
(* when a listener fails at its start or later, the others are shut down   *)
(* and the store is closed, even if a handler never ends.                  *)
(***************************************************************************)
EverythingStops ==
    (ctx \/ \E s \in Servers : serve[s] \in {"stopped", "returned"}) ~> store = "closed"

-----------------------------------------------------------------------------
(* Why the store is closed last: what the inductive invariant adds.        *)

\* The listeners that main has not heard of, or that have yet to return.
Running == {s \in Servers : serve[s] # "returned"}

Awaited ==
    /\ results = pending + Cardinality(Running)
    /\ store = "closed" => results = 0

\* A listener that returned has no goroutine left, and one that was not shut
\* down had failed before.
Orderly(s) ==
    /\ serve[s] = "listen" => stopper[s] = "none"
    /\ serve[s] = "returned" => stopper[s] \in {"none", "done", "unshut"}
    /\ stopper[s] = "none" => serve[s] \in {"listen", "returned"} /\ active[s] = 0
    /\ stopper[s] = "waiting" /\ serve[s] = "stopped" => s \in failed
    /\ stopper[s] = "unshut" => s \in failed
    /\ stopper[s] = "done" => s \in forced \/ active[s] = 0

ListenersInv == TypeOK /\ Awaited /\ \A s \in Servers : Orderly(s)
=============================================================================
