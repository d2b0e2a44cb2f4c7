------------------------------ MODULE MCServer ------------------------------
(***************************************************************************)
(* Instances of module Server.                                             *)
(***************************************************************************)
EXTENDS Server, TLC

CONSTANTS n1, n2, t1, t2, k1, k2, s1, s2, c1, c2

Interchangeable == Permutations(Nodes) \cup Permutations(Tokens)
                     \cup Permutations(Sessions) \cup Permutations(Clients)

Key(from, until, legacy) == [from |-> from, until |-> until, legacy |-> legacy]

\* The life of a signer change: k1 alone, k1 and k2, k2 alone; then documents
\* that cut k1 short at once, or bring it back.
Overlapped == [id |-> "a", gen |-> 1, retired |-> {},
               keys |-> (k1 :> Key(1, 4, TRUE) @@ k2 :> Key(2, 6, FALSE))]
Cut == [Overlapped EXCEPT !.keys[k1].until = 3]
Retired == [id |-> "a", gen |-> 2, retired |-> {k1},
            keys |-> (k1 :> NoTrustKey @@ k2 :> Key(2, 6, FALSE))]
Revived == [id |-> "a", gen |-> 3, retired |-> {},
            keys |-> (k1 :> Key(2, 6, FALSE) @@ k2 :> Key(2, 5, FALSE))]

SignerChange == {Overlapped, Cut, Retired, Revived}
=============================================================================
