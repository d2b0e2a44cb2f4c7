---------------------------- MODULE MCProbeClock ----------------------------
(* The probe with one more history variable: the highest second that any   *)
(* clock check of the worker has read, committed or not.                   *)
EXTENDS MCProbe

VARIABLE seen

\* The steps in which State.clock runs.
ChecksClock ==
    \/ pc = "down" /\ pc' # "down"
    \/ pc = "cycle" /\ pc' = "flush" /\ ActiveKey
    \/ pc = "loaded" /\ pc' # "loaded" /\ pc' # "down"

SeenSpec ==
    /\ Init /\ seen = now
    /\ [][/\ Next
          /\ seen' = IF ChecksClock /\ now > seen THEN now ELSE seen
         ]_<<vars, seen>>

\* "The probe persists its highest observed wall-clock second.  A rollback
\* exceeding thirty seconds latches a task block": then no task is accepted
\* at a second that lies further back than the skew from one that a clock
\* check of this probe has already observed.
RollbackNeverAccepted ==
    [][startAt' # startAt => now >= seen - MaxClockSkew]_<<vars, seen>>
=============================================================================
