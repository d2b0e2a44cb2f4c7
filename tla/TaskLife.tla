------------------------------ MODULE TaskLife ------------------------------
(***************************************************************************)
(* What a probe promises about the requests it is given, without clocks,   *)
(* policies, audit log, processes or crashes: a request is decided once,   *)
(* its collector starts at most once and only after the decision, its      *)
(* outcome is written once, delivered results may be forgotten later, and  *)
(* what is forgotten is never taken up again.                              *)
(***************************************************************************)
EXTENDS Integers

CONSTANT Reqs

VARIABLES
    status,     \* of each request
    starts,     \* how often its collector started
    delivered   \* whether the server has acknowledged its result

vars == <<status, starts, delivered>>

Refusals == {"rejected", "expired"}
Outcomes == {"succeeded", "failed", "rejected", "expired", "indeterminate"}

Init ==
    /\ status = [r \in Reqs |-> "new"]
    /\ starts = [r \in Reqs |-> 0]
    /\ delivered = [r \in Reqs |-> FALSE]

Forgettable ==
    {r \in Reqs : delivered[r] /\ status[r] \in Outcomes \ {"indeterminate"}}

\* Room may be made, by forgetting, whenever something is decided.
Forgetting(S, f) == [r \in Reqs |-> IF r \in S THEN "forgotten" ELSE f[r]]

Decide(r, s) ==
    /\ status[r] = "new"
    /\ \A q \in Reqs : status[q] # "running"
    /\ \E S \in SUBSET Forgettable :
          status' = Forgetting(S, [status EXCEPT ![r] = s])
    /\ UNCHANGED <<starts, delivered>>

Accept(r) == Decide(r, "running")

Refuse(r) == \E s \in Refusals : Decide(r, s)

Forget ==
    /\ \E S \in SUBSET Forgettable : status' = Forgetting(S, status)
    /\ UNCHANGED <<starts, delivered>>

Start(r) ==
    /\ status[r] = "running" /\ starts[r] = 0
    /\ starts' = [starts EXCEPT ![r] = 1]
    /\ UNCHANGED <<status, delivered>>

\* A task that has not started can still end expired or indeterminate; its
\* success or failure is the collector's.
Finish(r) ==
    /\ status[r] = "running"
    /\ \E s \in IF starts[r] = 1 THEN {"succeeded", "failed", "indeterminate"}
                ELSE {"expired", "indeterminate"} :
          status' = [status EXCEPT ![r] = s]
    /\ UNCHANGED <<starts, delivered>>

Deliver(r) ==
    /\ status[r] \in Outcomes
    /\ delivered' = [delivered EXCEPT ![r] = TRUE]
    /\ UNCHANGED <<status, starts>>

Next ==
    \/ Forget
    \/ \E r \in Reqs : Accept(r) \/ Refuse(r) \/ Start(r) \/ Finish(r)
                       \/ Deliver(r)

Spec == Init /\ [][Next]_vars
=============================================================================
