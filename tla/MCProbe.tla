------------------------------ MODULE MCProbe ------------------------------
(* The probe on small instances.                                           *)
EXTENDS Probe, TLC

CONSTANTS e1, e1x, e2, e3, e4, open, closed, PendingLimit

AlwaysValid == [from |-> 1, until |-> 9]

MCWindows == {AlwaysValid}

Base == [req |-> 1, signed |-> TRUE, created |-> 1, expires |-> 2,
         key |-> AlwaysValid, policy |-> open, kind |-> "info",
         resource |-> ""]

\* e1x reuses the request id of e1 with other bytes and a later expiry; e3
\* names a resource no policy opens; e4 is not signed by a trusted key.
MCTask ==
    (e1  :> Base) @@
    (e1x :> [Base EXCEPT !.expires = 5]) @@
    (e2  :> [Base EXCEPT !.req = 2, !.expires = 5, !.kind = "ssh",
                         !.resource = "a"]) @@
    (e3  :> [Base EXCEPT !.req = 2, !.expires = 5, !.kind = "ssh",
                         !.resource = "b"]) @@
    (e4  :> [Base EXCEPT !.req = 2, !.signed = FALSE])

MCPol ==
    (open   :> [paused |-> FALSE, kinds |-> {"info", "ssh"},
                resources |-> {"a"}, perMinute |-> 1, burst |-> 1,
                pending |-> PendingLimit]) @@
    (closed :> [paused |-> TRUE, kinds |-> {"info", "ssh"},
                resources |-> {"a"}, perMinute |-> 1, burst |-> 1,
                pending |-> PendingLimit])
=============================================================================
