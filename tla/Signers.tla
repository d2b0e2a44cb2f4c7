------------------------------ MODULE Signers ------------------------------
(***************************************************************************)
(* The trust sets of internal/signing: which Ed25519 keys may sign tasks,  *)
(* in which window, and which keys are retired for good.  Keys, windows    *)
(* and digests are abstract: a key is its key ID, an envelope the key that *)
(* signed it and the trust_set_id it names, and two trust sets have the    *)
(* same canonical form, hence the same digest, when they are equal.        *)
(***************************************************************************)
EXTENDS Integers, FiniteSets

CONSTANTS
    Keys,           \* key IDs
    NoKey,          \* the key ID ''
    TrustIDs,       \* values of trust_set_id
    NoTrust,        \* trust_json is NULL: only the pinned key signs
    MaxRetired,     \* signing.MaxRetiredKeys
    MaxOverlap      \* signing.MaxSignerOverlap

ASSUME KeysAssumption == NoKey \notin Keys /\ NoTrust \notin TrustIDs
ASSUME TrustLimits == MaxRetired \in Nat /\ MaxOverlap \in Nat

\* A TrustKey: its validity window, and whether it also verifies envelopes of
\* the first format.
TrustKey == [from : Int, until : Int, legacy : BOOLEAN]

NoTrustKey == [from |-> 0, until |-> 0, legacy |-> FALSE]

TrustSet == [id : TrustIDs, gen : Int, keys : [Keys -> TrustKey],
             retired : SUBSET Keys]

Active(s) == {k \in Keys : s.keys[k] # NoTrustKey}
Legacy(s) == {k \in Active(s) : s.keys[k].legacy}

\* What an envelope says of its signature; one of the first format names
\* neither key nor trust set.
Envelope == [key : Keys, set : TrustIDs \cup {NoTrust}]
NoEnvelope == [key |-> NoKey, set |-> NoTrust]

\* TrustSet.Validate.  The overlap of two keys runs from the later start, k's,
\* to the earlier end, l's.
ValidTrust(s) ==
    /\ s.gen \in 1 .. 2 * MaxRetired + 1
    /\ Cardinality(Active(s)) \in 1 .. 2
    /\ Cardinality(s.retired) <= MaxRetired
    /\ Active(s) \cap s.retired = {}
    /\ \A k \in Active(s) : 0 < s.keys[k].from /\ s.keys[k].from < s.keys[k].until
    /\ Cardinality(Legacy(s)) <= 1
    /\ Cardinality(Active(s)) = 2 =>
          \E k, l \in Active(s) :
             /\ \A m \in Active(s) : /\ s.keys[m].from <= s.keys[k].from
                                     /\ s.keys[l].until <= s.keys[m].until
             /\ s.keys[l].until - s.keys[k].from \in 1 .. MaxOverlap

\* TrustSet.CheckTask, for a task that lives from created to expires.
CheckTrust(s, k, task, t) ==
    /\ k \in Active(s)
    /\ s.keys[k].from <= t /\ t < s.keys[k].until
    /\ s.keys[k].from <= task.created /\ task.expires <= s.keys[k].until

\* VerifyTrusted: an envelope of the first format is tried with the legacy key.
Verifies(s, task, t) ==
    /\ IF task.env.set = NoTrust THEN task.env.key \in Legacy(s)
                                 ELSE task.env.set = s.id
    /\ CheckTrust(s, task.env.key, task, t)

\* Faulty: the history of retired keys need not be carried on.
ForgetfulMayFollow(s, id, next) ==
    /\ ValidTrust(next)
    /\ IF s = NoTrust THEN id \in Legacy(next) /\ next.gen = 1
       ELSE next.gen = s.gen + 1 /\ Active(s) \cap Active(next) # {}

\* CheckTransition from trust set s, or from the pinned key id alone.
MayFollow(s, id, next) ==
    /\ ValidTrust(next)
    /\ IF s = NoTrust
       THEN /\ id \in Legacy(next)
            /\ next.gen = 1 /\ next.retired = {}
            /\ Cardinality(Active(next)) = 2
       ELSE LET shared == Active(s) \cap Active(next)
            IN  /\ next.id = s.id /\ next.gen = s.gen + 1
                /\ Cardinality(Active(next)) # Cardinality(Active(s))
                /\ Cardinality(shared) = 1
                /\ \A k \in shared :
                      /\ next.keys[k].from = s.keys[k].from
                      /\ next.keys[k].until <= s.keys[k].until
                      /\ next.keys[k].legacy = s.keys[k].legacy
                /\ Legacy(next) \subseteq shared
                /\ next.retired = s.retired \cup (Active(s) \ Active(next))
=============================================================================
