----------------------------- MODULE MCRenewal -----------------------------
(* Small instances of Renewal for TLC.  Time is in units of an hour or so: *)
(* the long lifetime outlasts the overlap, the short one does not, and the *)
(* issuer of the second restart ends within the run.                       *)
EXTENDS Renewal, TLC

CONSTANTS d1, d2, d3

MCIssuers == {[life |-> 4, until |-> 6], [life |-> 1, until |-> 3]}

AnyDirectory == Permutations(Dirs)
=============================================================================
