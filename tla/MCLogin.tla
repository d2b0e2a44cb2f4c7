------------------------------ MODULE MCLogin ------------------------------
(***************************************************************************)
(* An instance of module LoginHistory.                                     *)
(***************************************************************************)
EXTENDS MCServer, LoginHistory
=============================================================================
