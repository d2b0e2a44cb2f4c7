------------------------------- MODULE Audit -------------------------------
(***************************************************************************)
(* The bounded event log of internal/audit that the probe's database and   *)
(* the server's database each keep.  A database is modelled as a record    *)
(* whose fields seq and reserved are the row of audit_head: the number of  *)
(* events appended so far and the number of slots set aside for events     *)
(* that later steps are obliged to append.  Appending happens inside the   *)
(* transaction of the change it records, so the operators take the         *)
(* database as it stands in the middle of a transaction and give the       *)
(* database after the append.  The hash chain, which only a rewrite of the *)
(* file can break, is not part of this module.                             *)
(***************************************************************************)
EXTENDS Integers

CONSTANT Capacity    \* audit.Capacity

ASSUME CapacityAssumption == Capacity \in Nat

Used(d) == d.seq + d.reserved

\* Faulty: an ordinary event may take a slot that is reserved.
GreedyCanAppend(d, delta) ==
    d.reserved + delta >= 0 /\ d.seq + 1 <= Capacity

\* audit.Append refuses a negative reservation, and an event that would take
\* a slot somebody else has reserved (ErrCapacity).
CanAppend(d, delta) ==
    /\ d.reserved + delta >= 0
    /\ d.seq + 1 + d.reserved + delta <= Capacity

\* One more event; delta > 0 reserves slots, delta < 0 gives them back.
Appended(d, delta) ==
    [d EXCEPT !.seq = @ + 1, !.reserved = @ + delta]

\* n events in a row, each giving back or taking the same number of slots.
CanAppendEach(d, n, delta) ==
    n > 0 => /\ CanAppend(d, delta)
             /\ d.reserved + n * delta >= 0
             /\ Used(d) + n + n * delta <= Capacity

AppendedEach(d, n, delta) ==
    [d EXCEPT !.seq = @ + n, !.reserved = @ + n * delta]

\* audit.Verify, the part that is about the head.
Verify(d) ==
    d.seq >= 0 /\ d.reserved >= 0 /\ Used(d) <= Capacity
=============================================================================
