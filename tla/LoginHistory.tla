---------------------------- MODULE LoginHistory ----------------------------
(***************************************************************************)
(* Module Server with a history of the password checks it has started.     *)
(***************************************************************************)
EXTENDS Server, Sequences

\* An attempt that waits as long as it may is still in the window it read.
ASSUME WaitAssumption == 3 * MaxWait <= LoginWindow

VARIABLE tries   \* by bucket, the seconds at which a check was started

InitT == Init /\ tries = [b \in Buckets |-> <<>>]

\* A login is let past its three buckets.
Check(c, u, src, t) ==
    /\ LoginBegin(c, u, src, t)
    /\ tries' = [b \in Buckets |-> IF b \in {"global", u, src}
                                   THEN Append(tries[b], now) ELSE tries[b]]

\* Any other step.
NoCheck ==
    /\ Next
    /\ \A c \in Clients : login[c] = NoLogin => login'[c] = NoLogin
    /\ UNCHANGED tries

NextT ==
    \/ \E c \in Clients, u \in Users, src \in Sources, t \in Readings : Check(c, u, src, t)
    \/ NoCheck

SpecT == InitT /\ [][NextT]_<<vars, tries>>

-----------------------------------------------------------------------------
(* Properties.                                                             *)

\* The checks of bucket b in a period as long as the window that ends now.
Recent(b) == {i \in 1 .. Len(tries[b]) : now - tries[b][i] < LoginWindow}

(***************************************************************************)
(* While the clock does not go back and no backup is put back, no period   *)
(* of the length of the login window sees three times a bucket's limit of  *)
(* password checks, also across restarts of the server (admitLogin).  A    *)
(* bucket counts from its first attempt, so that two of its windows meet   *)
(* in a period anyhow.  It can be three, because Login reads the clock     *)
(* before it waits for its transaction: a row may start as much as MaxWait *)
(* before its first check, and end by as much too early for it.  The last  *)
(* of the three then lacks one check, or the first does.                   *)
(***************************************************************************)
LoginBudget == \A b \in Buckets : Cardinality(Recent(b)) <= 3 * LimitOf(b) - 1

-----------------------------------------------------------------------------
(* Why it is so: what the inductive invariant says of a bucket.            *)

\* All but the last k of the checks s were started before time t.
Before(s, k, t) == \A i \in 1 .. Len(s) - k : s[i] < t

\* The attempts that a row with limit m has counted and may have let pass.
Passed(row, m) == IF row.count > m THEN m ELSE row.count

\* At time t, the checks s of a bucket with limit m that has a row: those of
\* the row are the last ones, and the first of them came within MaxWait of the
\* second at which the row started; those before them are of rows that started
\* a window, less MaxWait, earlier, and two windows.
RowSpread(s, row, m, t) ==
    /\ row.started <= t /\ Before(s, 0, t + 1)
    /\ Before(s, Passed(row, m) - 1, row.started + MaxWait + 1)
    /\ Before(s, Passed(row, m) + (m - 1),
              row.started - LoginWindow + 2 * MaxWait + 1)
    /\ Before(s, Passed(row, m) + (2 * m - 1),
              row.started - 2 * LoginWindow + 3 * MaxWait + 1)

\* The row was pruned, or there never was one.
PrunedSpread(s, m, t) ==
    /\ Before(s, 0, t + 1)
    /\ Before(s, m - 1, t - LoginWindow + MaxWait + 1)
    /\ Before(s, 2 * m - 1, t - 2 * LoginWindow + 2 * MaxWait + 1)

Spread(s, row, m, t) ==
    IF row.count > 0 THEN RowSpread(s, row, m, t) ELSE PrunedSpread(s, m, t)

TriesInv ==
    /\ tries \in [Buckets -> Seq(1 .. MaxTime)]
    /\ \A b \in Buckets : Spread(tries[b], db.limits[b], LimitOf(b), now)
=============================================================================
