----------------------------- MODULE Telemetry -----------------------------
(***************************************************************************)
(* When a probe reports: the two loops of the agent that send heartbeats   *)
(* (Run in internal/agent/runner.go, RunTasks in tasks.go) with their      *)
(* intervals, retries and jitter, the server's minimum gap between two     *)
(* heartbeats of a node, and the age at which a heartbeat is too old for   *)
(* a task to be submitted.                                                 *)
(*                                                                         *)
(* Time passes in units.  Calls take no time of their own; the network and *)
(* the server are down or up, and while they are up every call succeeds    *)
(* that the gap does not refuse.  An answer may be lost when they go down. *)
(* What a heartbeat says and the tasks are left out.                       *)
(***************************************************************************)
EXTENDS Integers

CONSTANTS
    Interval,      \* telemetry interval, 10 to 300 seconds
    Poll,          \* poll_seconds, 5 to 60
    First,         \* first retry delay, 5 seconds
    MaxDelay,      \* longest delay, 5 minutes
    MaxFailures,   \* failures that are counted, 16
    Gap,           \* least time between two heartbeats of a node, 5 seconds
    Fresh          \* age up to which a heartbeat counts, 5 minutes

\* The bounds of a delay with ten per cent of jitter.
Low(d) == d - d \div 10

High(d) ==
    LET h == Low(d) + d \div 5 IN IF h > MaxDelay THEN MaxDelay ELSE h

\* Arithmetic that holds whatever the constants are; the provers do not know
\* exponents.
Powers ==
    /\ 2 ^ 0 = 1
    /\ \A n \in 0 .. MaxFailures : 2 ^ n \in Nat \ {0} /\ 2 ^ (n + 1) = 2 * 2 ^ n

TelemetryAssumption ==
    /\ {Interval, Poll, First, MaxDelay, MaxFailures, Gap, Fresh} \subseteq Nat \ {0}
    /\ First <= MaxDelay /\ Interval <= MaxDelay /\ Poll <= MaxDelay
    /\ High(Interval) + High(Poll) <= Fresh
    /\ Gap <= 2 * Low(First) /\ High(First) + Gap <= Fresh /\ 4 * Gap <= Fresh
    /\ Powers

VARIABLES
    mode,       \* which loop runs: "telemetry" or "tasks"
    up,         \* network and server answer
    good,       \* how long they have, at most MaxDelay
    wait,       \* time to the next cycle
    due,        \* time to the next heartbeat, in the tasks loop
    failures,   \* failed cycles in a row
    age,        \* time since the server took a heartbeat, at most Fresh + 1
    refused     \* history: refusals by the gap since one was taken, or a restart

vars == <<mode, up, good, wait, due, failures, age, refused>>

Least(a, b) == IF a < b THEN a ELSE b

Init ==
    /\ mode \in {"telemetry", "tasks"}
    /\ up \in BOOLEAN /\ good = 0
    /\ wait = 0 /\ due = 0 /\ failures = 0
    /\ age = Fresh + 1 /\ refused = 0

Tick ==
    /\ wait > 0 /\ wait' = wait - 1
    /\ due' = IF due > 0 THEN due - 1 ELSE 0
    /\ age' = Least(age + 1, Fresh + 1)
    /\ good' = IF up THEN Least(good + 1, MaxDelay) ELSE 0
    /\ UNCHANGED <<mode, up, failures, refused>>

NetworkChanges ==
    /\ up' = ~up /\ good' = 0
    /\ UNCHANGED <<mode, wait, due, failures, age, refused>>

-----------------------------------------------------------------------------
(* The loops.                                                              *)

\* Faulty: begins with a fifth of the delay.
HastyRetryDelay(n) ==
    LET d == (First \div 5) * 2 ^ (n - 1) IN IF d > MaxDelay THEN MaxDelay ELSE d

\* First, doubled with each further failure up to the longest.
retryDelay(n) ==
    LET d == First * 2 ^ (n - 1) IN IF d > MaxDelay THEN MaxDelay ELSE d

Sleep(d) == wait' \in Low(d) .. High(d)

\* The end of a cycle that failed ...
Failed ==
    /\ failures' = Least(failures + 1, MaxFailures)
    /\ Sleep(retryDelay(failures'))

\* ... and of one that did not.
Succeeded ==
    /\ failures' = 0
    /\ Sleep(IF mode = "telemetry" THEN Interval ELSE Poll)

\* The time to the heartbeat after one that was acknowledged.
Scheduled == IF mode = "tasks" THEN due' \in Low(Interval) .. High(Interval) ELSE due' = 0

Due == wait = 0 /\ (mode = "tasks" => due = 0)

\* SaveHeartbeat takes it and the answer arrives.
Accepted ==
    /\ Due /\ up /\ age >= Gap
    /\ age' = 0 /\ refused' = 0
    /\ Scheduled /\ Succeeded
    /\ UNCHANGED <<mode, up, good>>

\* The answer is lost as the network goes down, in the tasks loop also when it
\* arrived and the calls after it fail.
Taken ==
    /\ Due /\ up /\ age >= Gap
    /\ age' = 0 /\ refused' = 0
    /\ up' = FALSE /\ good' = 0
    /\ \/ UNCHANGED due
       \/ mode = "tasks" /\ Scheduled
    /\ Failed
    /\ UNCHANGED mode

RateLimited ==
    /\ Due /\ up /\ age < Gap
    /\ refused' = refused + 1 /\ Failed
    /\ UNCHANGED <<mode, up, good, due, age>>

Unreachable ==
    /\ wait = 0 /\ ~up /\ Failed
    /\ UNCHANGED <<mode, up, good, due, age, refused>>

\* A cycle of the tasks loop without a heartbeat, also one that calls nobody
\* because the task state is blocked.
PollOnly ==
    /\ wait = 0 /\ mode = "tasks" /\ due > 0
    /\ Succeeded
    /\ UNCHANGED <<mode, up, good, due, age, refused>>

\* The agent is started again.
Restart ==
    /\ wait' = 0 /\ due' = 0 /\ failures' = 0 /\ refused' = 0
    /\ good' = 0
    /\ UNCHANGED <<mode, up, age>>

Next ==
    \/ Tick \/ NetworkChanges \/ Restart
    \/ Accepted \/ Taken \/ RateLimited \/ Unreachable \/ PollOnly

Spec == Init /\ [][Next]_vars

-----------------------------------------------------------------------------
(* Properties.                                                             *)

TypeOK ==
    /\ mode \in {"telemetry", "tasks"} /\ up \in BOOLEAN /\ good \in 0 .. MaxDelay
    /\ wait \in 0 .. MaxDelay /\ due \in 0 .. MaxDelay
    /\ failures \in 0 .. MaxFailures /\ age \in 0 .. Fresh + 1 /\ refused \in Nat

(***************************************************************************)
(* The server's gap never holds a running probe up for long: retries after *)
(* a lost answer, or after a restart, are refused at most twice before one *)
(* is taken, although the first of them comes within the gap.              *)
(***************************************************************************)
RefusedTwice == refused <= 2

(***************************************************************************)
(* A probe whose network and server have worked for the longest delay is   *)
(* fresh, however long they were away and however many attempts failed,    *)
(* and stays so while they work: tasks can be submitted for it.            *)
(***************************************************************************)
FreshAgain == good = MaxDelay /\ wait > 0 => age <= Fresh

-----------------------------------------------------------------------------
(* Why it is so: what the inductive invariant adds.                        *)

\* Within the gap, each refusal was followed by the shortest delay.
Spaced ==
    age < Gap => /\ refused >= 1 => Low(First) <= age + wait
                 /\ refused >= 2 => 2 * Low(First) <= age + wait

\* Within the gap, the last of some failures was followed by its delay.
Backed ==
    age < Gap /\ failures > 0 => Low(retryDelay(failures)) <= age + wait

\* The next heartbeat is put off only after one that was taken.
PutOff == due > 0 => age + due <= High(Interval)

\* While network and server work, the next cycle is either the first one since
\* they do, or comes before the last heartbeat is too old.
Reaching ==
    IF up THEN good + wait <= MaxDelay \/ age + wait <= Fresh ELSE good = 0

TelemetryInv ==
    TypeOK /\ RefusedTwice /\ Spaced /\ Backed /\ PutOff /\ Reaching

\* What doubling up to a limit comes to.
Doubling ==
    /\ retryDelay(1) = First
    /\ \A n \in 1 .. MaxFailures : retryDelay(n) \in First .. MaxDelay
    /\ \A n \in 1 .. MaxFailures - 1 : retryDelay(n + 1) <= 2 * retryDelay(n)
=============================================================================
