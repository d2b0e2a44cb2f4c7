----------------------------- MODULE Admission -----------------------------
(***************************************************************************)
(* The admission of requests that the handlers for enrollment, renewal and *)
(* administration share in form: a budget of requests per minute that is   *)
(* counted under a lock, and a number of places that a request takes or is *)
(* refused.  Each handler has its own.                                     *)
(*                                                                         *)
(* The handlers differ in when they read the clock.  The ones for          *)
(* enrollment and administration do under the lock; the one for renewal    *)
(* does at its start and uses what it read after it has asked the store    *)
(* about the certificate, which may take MaxStale.  The clock is the       *)
(* monotonic one.  What becomes of an admitted request is left out.        *)
(***************************************************************************)
EXTENDS Integers, FiniteSets, Sequences

CONSTANTS
    Reqs,        \* requests at a time
    Limit,       \* requests of a window: 30, and 120 for administration
    Window,      \* a minute
    Slots,       \* places: 4, and 8 for administration
    MaxStale,    \* longest time between reading the clock and using it
    MaxTime      \* bound of the model: time

AdmissionAssumption ==
    /\ IsFiniteSet(Reqs) /\ Limit \in Nat \ {0} /\ Window \in Nat \ {0} /\ Slots \in Nat
    /\ MaxStale \in 0 .. Window - 1 /\ MaxTime \in Nat

VARIABLES
    early,     \* whether this handler reads the clock before the lock
    now,       \* time
    window,    \* the start of the window; before the first one long ago
    count,     \* the requests counted in it
    used,      \* the places taken
    req,       \* the requests
    counted    \* history: the times at which requests were let past the budget

vars == <<early, now, window, count, used, req, counted>>

Idle == [pc |-> "idle", at |-> 0]

Init ==
    /\ early \in BOOLEAN
    /\ now = 0 /\ window = -Window /\ count = 0 /\ used = 0
    /\ req = [r \in Reqs |-> Idle]
    /\ counted = <<>>

\* A request that has read the clock gets to the lock in time.
Tick ==
    /\ now < MaxTime /\ now' = now + 1
    /\ \A r \in Reqs : req[r].pc = "checked" => now - req[r].at < MaxStale
    /\ UNCHANGED <<early, window, count, used, req, counted>>

\* The checks before the lock; a request that fails them is gone.
Arrive(r) ==
    /\ req[r].pc = "idle"
    /\ req' = [req EXCEPT ![r] = [pc |-> "checked", at |-> now]]
    /\ UNCHANGED <<early, now, window, count, used, counted>>

\* Faulty: every handler uses what it read at its start.
StaleClock(r) == req[r].at

\* The time that a request is counted at.
Clock(r) == IF early THEN req[r].at ELSE now

\* The window and the count before this request, and whether it may pass.
Budget(t) ==
    LET fresh == t - window >= Window
        c == IF fresh THEN 0 ELSE count
    IN [window |-> IF fresh THEN t ELSE window, count |-> c, allowed |-> c < Limit]

Refused(r) == req' = [req EXCEPT ![r] = Idle]

Count(r) ==
    /\ req[r].pc = "checked"
    /\ LET b == Budget(Clock(r)) IN
       /\ window' = b.window
       /\ IF b.allowed
          THEN /\ count' = b.count + 1 /\ counted' = Append(counted, now)
               /\ req' = [req EXCEPT ![r] = [pc |-> "counted", at |-> 0]]
          ELSE count' = b.count /\ Refused(r) /\ UNCHANGED counted
    /\ UNCHANGED <<early, now, used>>

TakeSlot(r) ==
    /\ req[r].pc = "counted"
    /\ IF used < Slots
       THEN used' = used + 1 /\ req' = [req EXCEPT ![r].pc = "working"]
       ELSE Refused(r) /\ UNCHANGED used
    /\ UNCHANGED <<early, now, window, count, counted>>

\* Answered, one way or another.
Finish(r) ==
    /\ req[r].pc = "working"
    /\ used' = used - 1 /\ Refused(r)
    /\ UNCHANGED <<early, now, window, count, counted>>

Next ==
    \/ Tick
    \/ \E r \in Reqs : Arrive(r) \/ Count(r) \/ TakeSlot(r) \/ Finish(r)

Spec == Init /\ [][Next]_vars

-----------------------------------------------------------------------------
(* Properties.                                                             *)

TypeOK ==
    /\ early \in BOOLEAN /\ now \in 0 .. MaxTime
    /\ window \in -Window .. MaxTime /\ count \in 0 .. Limit /\ used \in 0 .. Slots
    /\ req \in [Reqs -> [pc : {"idle", "checked", "counted", "working"}, at : 0 .. MaxTime]]
    /\ counted \in Seq(0 .. MaxTime)

\* The requests counted in a span as long as a window that ends now.
InSpan == {i \in 1 .. Len(counted) : now - counted[i] < Window}

(***************************************************************************)
(* No minute, wherever it begins, sees more than twice the budget where    *)
(* the clock is read under the lock, and more than three times the budget  *)
(* where it was read before: the windows begin with the first request      *)
(* after the last one, and a late request counts for the window in which   *)
(* it read the clock.                                                      *)
(***************************************************************************)
SpanBounded == Cardinality(InSpan) <= (IF early THEN 3 ELSE 2) * Limit

-----------------------------------------------------------------------------
(* Why it is so: what the inductive invariant adds to the types.           *)

\* A place is taken by a request that works.
PlacesTaken == used = Cardinality({r \in Reqs : req[r].pc = "working"})

\* A request that has read the clock is not late.
InTime ==
    \A r \in Reqs : req[r].pc = "checked" =>
        req[r].at <= now /\ now - req[r].at <= MaxStale

\* How long after the clock was read a request may be counted.
Late == IF early THEN MaxStale ELSE 0

\* All but the last k requests were counted before time t.
AllBut(k, t) == \A i \in 1 .. Len(counted) - k : counted[i] < t

\* The last requests are those of this window; each earlier window is at least
\* as long as Window and holds no more than Limit.
Spread ==
    /\ window <= now /\ count <= Len(counted)
    /\ AllBut(0, window + Window + Late)
    /\ AllBut(count, window + Late)
    /\ AllBut(count + Limit, window - Window + Late)
    /\ AllBut(count + 2 * Limit, window - 2 * Window + Late)

AdmissionInv == TypeOK /\ PlacesTaken /\ InTime /\ Spread
=============================================================================
