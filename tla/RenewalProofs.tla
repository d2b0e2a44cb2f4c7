--------------------------- MODULE RenewalProofs ---------------------------
(***************************************************************************)
(* The safety properties of module Renewal for every number of staging     *)
(* directories and generations, every set of issuers and every bound.      *)
(*                                                                         *)
(* None of the properties is inductive alone.  IInv adds what connects the *)
(* four places a renewal leaves traces in: the credential rows, the        *)
(* recorded answers, the answers that processes hold, and the files.       *)
(***************************************************************************)
EXTENDS Renewal, FiniteSetTheorems, TLAPS

(* The inductive invariant *)

\* The newest certificate has no end set; each older one ends within the
\* overlap and not after its successor.
RetireInv ==
    /\ reg.cred[reg.latest].retire = 0
    /\ \A g \in Generations : g < reg.latest =>
          /\ reg.cred[g].retire > 0
          /\ reg.cred[g].retire <= reg.cred[g + 1].issued + Overlap
          /\ reg.cred[g].retire <= reg.cred[g + 1].until

\* Rows after the first belong to the request of one directory.
KeyInv ==
    \A g \in Generations : 1 < g /\ g <= reg.latest =>
        /\ reg.cred[g].key \in Dirs
        /\ reg.renewals[reg.cred[g].key].cert = g

\* A recorded answer names two neighbouring rows.
AnswerInv ==
    \A d \in Dirs : reg.renewals[d] # NoAnswer =>
        /\ reg.renewals[d].auth \in Generations
        /\ reg.renewals[d].cert = reg.renewals[d].auth + 1
        /\ reg.renewals[d].cert <= reg.latest
        /\ reg.cred[reg.renewals[d].cert].key = d

\* Only a recorded answer is held by a process, and it is saved in order.
HeldInv ==
    \A d \in Dirs :
        /\ proc[d].pc \in {"answered", "saved", "recorded"} =>
              proc[d].answer = reg.renewals[d] /\ reg.renewals[d] # NoAnswer
        /\ proc[d].pc \in {"saved", "recorded"} =>
              dirs[d].cert = proc[d].answer.cert
        /\ proc[d].pc = "recorded" => dirs[d].answer = proc[d].answer

\* The files in a directory are those of its recorded answer.
FileInv ==
    \A d \in Dirs :
        /\ dirs[d].cert # 0 =>
              reg.renewals[d] # NoAnswer /\ reg.renewals[d].cert = dirs[d].cert
        /\ dirs[d].answer # NoAnswer =>
              dirs[d].cert # 0 /\ dirs[d].answer = reg.renewals[d]
        /\ dirs[d].done => dirs[d].answer # NoAnswer

\* Of the superseded certificates only the last can still be good: Active
\* was below two when the next one was issued, and it counts them all, since
\* superseding a certificate records its validity.
PairInv ==
    \A g \in Generations :
        /\ g < reg.latest => reg.cred[g].known
        /\ g + 1 < reg.latest =>
              \/ reg.cred[g].revoked
              \/ reg.cred[g].retire <= now
              \/ reg.cred[g].until <= now

IInv ==
    TypeOK /\ RetireInv /\ PairInv /\ KeyInv /\ AnswerInv /\ HeldInv /\ FileInv
-----------------------------------------------------------------------------
(* What one issuance does to the registry *)

\* An event changes the head of the log and nothing else.
LEMMA AppendedFields ==
    ASSUME NEW x \in Registry, NEW delta \in {0, -1}, x.reserved + delta >= 0
    PROVE  LET y == Appended(x, delta)
           IN  /\ y \in Registry
               /\ y.enabled = x.enabled /\ y.latest = x.latest
               /\ y.cred = x.cred /\ y.renewals = x.renewals
<1>1. x.seq + 1 \in Nat /\ x.reserved + delta \in Nat
  BY DEF Registry
<1>2. QED
  BY <1>1 DEF Appended, Registry

\* Issuer.Issue and the cutoff are times.
LEMMA Times ==
    ASSUME TypeOK, NEW g \in Generations, IssueOK, now < reg.cred[g].until
    PROVE  /\ Expires \in Nat /\ Expires > now
           /\ Cutoff(g) \in Nat /\ Cutoff(g) > now
           /\ Cutoff(g) <= now + Overlap /\ Cutoff(g) <= Expires
<1>1. issuer.life \in Nat /\ issuer.until \in Nat /\ issuer.life > Margin
  BY RenewalAssumption DEF TypeOK
<1>2. reg.cred[g].until \in Nat /\ now \in Nat
  BY DEF TypeOK, Registry, Credential
<1>3. Expires \in Nat /\ Expires > now
  BY <1>1, <1>2, RenewalAssumption DEF Expires, Least, IssueOK
<1>4. QED
  BY <1>2, <1>3, RenewalAssumption DEF Cutoff, Least

\* r is the registry after RenewCertificate has issued to d.
IssuedTo(d, r) ==
    LET n == reg.latest + 1 IN
    /\ r \in Registry
    /\ n \in Generations
    /\ r.enabled = reg.enabled
    /\ r.latest = n
    /\ r.cred[n] = [key |-> d, issued |-> now, until |-> Expires,
                    known |-> TRUE, retire |-> 0, revoked |-> FALSE]
    /\ r.cred[reg.latest].retire = Cutoff(reg.latest)
    /\ r.cred[reg.latest].revoked = reg.cred[reg.latest].revoked
    /\ r.cred[reg.latest].known
    /\ \A h \in Generations : h # n =>
          /\ r.cred[h].key = reg.cred[h].key
          /\ r.cred[h].issued = reg.cred[h].issued
          /\ r.cred[h].until = reg.cred[h].until
          /\ h # reg.latest => r.cred[h] = reg.cred[h]
    /\ r.renewals[d] = [auth |-> reg.latest, cert |-> n,
                        cutoff |-> Cutoff(reg.latest)]
    /\ \A e \in Dirs : e # d => r.renewals[e] = reg.renewals[e]

\* The nested updates of RenewCertificate amount to that.
LEMMA RenewedFields ==
    ASSUME TypeOK, NEW d \in Dirs, reg.latest < MaxGenerations,
           IssueOK, now < reg.cred[reg.latest].until
    PROVE  IssuedTo(d, Renewed(d, reg.latest))
<1> DEFINE l == reg.latest
           n == reg.latest + 1
           row == [auth |-> l, cert |-> n, cutoff |-> Cutoff(l)]
           new == [key |-> d, issued |-> now, until |-> Expires,
                   known |-> TRUE, retire |-> 0, revoked |-> FALSE]
           cr == [reg.cred EXCEPT ![l].known = TRUE, ![l].retire = Cutoff(l),
                                  ![n] = new]
           rn == [reg.renewals EXCEPT ![d] = row]
           r == Renewed(d, l)
<1>1. l \in Generations /\ n \in Generations /\ l # n
  BY RenewalAssumption DEF TypeOK, Registry, Generations
<1>2. Expires \in Nat /\ Cutoff(l) \in Nat
  BY <1>1, Times
<1>3. new \in Credential /\ row \in Answer
  BY <1>1, <1>2 DEF Credential, Answer, TypeOK, Generations
<1>4. reg.cred \in [Generations -> Credential] /\ reg.renewals \in [Dirs -> Answer]
      /\ reg.seq \in Nat /\ reg.reserved \in Nat /\ reg.enabled \in BOOLEAN
  BY DEF TypeOK, Registry
<1>5. /\ cr \in [Generations -> Credential]
      /\ cr[n] = new
      /\ cr[l].retire = Cutoff(l)
      /\ cr[l].revoked = reg.cred[l].revoked
      /\ cr[l].known
      /\ \A h \in Generations : h # n =>
            /\ cr[h].key = reg.cred[h].key
            /\ cr[h].issued = reg.cred[h].issued
            /\ cr[h].until = reg.cred[h].until
            /\ h # l => cr[h] = reg.cred[h]
  BY <1>1, <1>2, <1>3, <1>4 DEF Credential
<1>6. /\ rn \in [Dirs -> Answer] /\ rn[d] = row
      /\ \A e \in Dirs : e # d => rn[e] = reg.renewals[e]
  BY <1>3, <1>4
<1>7. /\ r \in Registry
      /\ r.enabled = reg.enabled /\ r.latest = n /\ r.cred = cr /\ r.renewals = rn
  <2> DEFINE r1 == [reg EXCEPT !.latest = n, !.cred = cr, !.renewals = rn]
  <2>1. r = Appended(r1, 0)
    BY DEF Renewed
  <2> HIDE DEF cr, rn, r
  <2>2. /\ r1 \in Registry
        /\ r1.enabled = reg.enabled /\ r1.latest = n /\ r1.cred = cr
        /\ r1.renewals = rn
    BY <1>1, <1>5, <1>6 DEF TypeOK, Registry
  <2> HIDE DEF r1
  <2>3. QED
    <3>1. r1.reserved + 0 >= 0
      BY <2>2 DEF Registry
    <3>2. QED
      BY <2>1, <2>2, <3>1, AppendedFields
<1> HIDE DEF cr, rn, r
<1>8. IssuedTo(d, r)
  BY <1>1, <1>5, <1>6, <1>7 DEF IssuedTo
<1>9. QED
  BY <1>8 DEF r
-----------------------------------------------------------------------------
(* The invariant is inductive *)

\* A step that leaves keys, dates and answers alone keeps what is said of them.
LEMMA SameRows ==
    ASSUME IInv,
           reg'.latest = reg.latest, reg'.renewals = reg.renewals,
           \A g \in Generations :
              /\ reg'.cred[g].key = reg.cred[g].key
              /\ reg'.cred[g].issued = reg.cred[g].issued
              /\ reg'.cred[g].until = reg.cred[g].until
              /\ reg'.cred[g].retire = reg.cred[g].retire
              /\ reg'.cred[g].known = reg.cred[g].known
              /\ reg.cred[g].revoked => reg'.cred[g].revoked,
           now' = now
    PROVE  RetireInv' /\ PairInv' /\ KeyInv' /\ AnswerInv'
<1> USE DEF IInv
<1>1. reg.latest \in Generations
  BY DEF TypeOK, Registry
<1>2. RetireInv'
  <2>1. \A g \in Generations : g < reg.latest => g + 1 \in Generations
    BY <1>1, RenewalAssumption DEF Generations
  <2>2. QED
    BY <1>1, <2>1 DEF RetireInv
<1>3. KeyInv'
  BY <1>1 DEF KeyInv
<1>4. AnswerInv'
  <2>1. \A d \in Dirs : reg.renewals[d] # NoAnswer =>
            reg.renewals[d].cert \in Generations
    BY <1>1, RenewalAssumption DEF AnswerInv, Generations
  <2>2. QED
    BY <1>1, <2>1 DEF AnswerInv
<1>5. PairInv'
  BY <1>1 DEF PairInv
<1>6. QED
  BY <1>2, <1>3, <1>4, <1>5

\* Two certificates in use leave no room for a third.
LEMMA OneActive ==
    ASSUME TypeOK, Cardinality(Active) < 2, NEW a \in Active, NEW b \in Active
    PROVE  a = b
<1> SUFFICES ASSUME a # b PROVE FALSE
  OBVIOUS
<1>1. IsFiniteSet(Rows)
  BY FS_Interval DEF Rows, TypeOK, Registry, Generations
<1>2. IsFiniteSet(Active)
  BY <1>1, FS_Subset DEF Active
<1>3. {a, b} \subseteq Active /\ {a, b} = {b} \cup {a}
  OBVIOUS
<1>4. IsFiniteSet({b}) /\ Cardinality({b}) = 1
  BY FS_Singleton
<1>5. Cardinality({a, b}) = 2
  BY <1>3, <1>4, FS_AddElement
<1>6. Cardinality({a, b}) <= Cardinality(Active)
  BY <1>2, <1>3, FS_Subset
<1>7. Cardinality(Active) \in Nat
  BY <1>2, FS_CardinalityType
<1>8. QED
  BY <1>5, <1>6, <1>7

\* A new certificate extends the line by one.
LEMMA IssueKeeps == ASSUME IInv, NEW d \in Dirs, Issue(d) PROVE IInv'
<1> USE DEF IInv
<1> DEFINE l == reg.latest
           n == reg.latest + 1
<1>1. /\ dirs[d].prev = l /\ l < MaxGenerations /\ reg.renewals[d] = NoAnswer
      /\ IssueOK /\ now < reg.cred[l].until
      /\ reg' = Renewed(d, l)
      /\ Replies(d, reg'.renewals[d])
      /\ UNCHANGED <<now, issuer, dirs>>
  BY DEF Issue, Usable, IssueAllowed
<1>2. /\ reg' \in Registry /\ n \in Generations
      /\ reg'.latest = n
      /\ reg'.cred[n].key = d /\ reg'.cred[n].issued = now
      /\ reg'.cred[n].until = Expires /\ reg'.cred[n].retire = 0
      /\ reg'.cred[l].retire = Cutoff(l)
      /\ \A h \in Generations : h # n =>
            /\ reg'.cred[h].key = reg.cred[h].key
            /\ reg'.cred[h].issued = reg.cred[h].issued
            /\ reg'.cred[h].until = reg.cred[h].until
            /\ h # l => reg'.cred[h] = reg.cred[h]
      /\ reg'.cred[l].known
      /\ reg'.renewals[d] = [auth |-> l, cert |-> n, cutoff |-> Cutoff(l)]
      /\ \A e \in Dirs : e # d => reg'.renewals[e] = reg.renewals[e]
  <2>1. IssuedTo(d, reg')
    BY <1>1, RenewedFields
  <2>2. QED
    BY <2>1 DEF IssuedTo
<1>3. l \in Generations /\ l \in Nat /\ now \in Nat
  BY DEF TypeOK, Registry, Generations
<1>4. /\ Cutoff(l) \in Nat /\ Cutoff(l) > now
      /\ Cutoff(l) <= now + Overlap /\ Cutoff(l) <= Expires
  BY <1>1, <1>3, Times
<1>5. reg'.renewals[d] # NoAnswer /\ reg'.renewals[d] \in Answer
  BY <1>2, <1>3, <1>4 DEF NoAnswer, Answer, Generations
<1>6. TypeOK'
  <2>1. sent' \in [Dirs -> Nat]
    BY <1>1 DEF Replies, TypeOK, Issue
  <2>2. proc' \in [Dirs -> Process]
    BY <1>1, <1>5 DEF Replies, TypeOK, Process
  <2>3. QED
    BY <1>1, <1>2, <2>1, <2>2 DEF TypeOK
<1>7. RetireInv'
  <2>1. \A g \in Generations : g < n /\ g # l => g < l /\ g + 1 # n /\ g + 1 \in Generations
    BY <1>3, RenewalAssumption DEF Generations
  <2>2. QED
    BY <1>2, <1>3, <1>4, <2>1 DEF RetireInv
<1>8. KeyInv'
  <2>1. ASSUME NEW g \in Generations, 1 < g, g <= n
        PROVE  reg'.cred[g].key \in Dirs /\ reg'.renewals[reg'.cred[g].key].cert = g
    <3>1. CASE g = n
      BY <1>2, <3>1
    <3>2. CASE g # n
      <4>1. g <= l
        BY <1>3, <2>1, <3>2 DEF Generations
      <4>2. reg.cred[g].key \in Dirs /\ reg.renewals[reg.cred[g].key].cert = g
        BY <2>1, <4>1 DEF KeyInv
      <4>3. reg.cred[g].key # d
        BY <1>1, <2>1, <4>2 DEF NoAnswer
      <4>4. QED
        BY <1>2, <3>2, <4>2, <4>3
    <3>3. QED
      BY <3>1, <3>2
  <2>2. QED
    BY <1>2, <2>1 DEF KeyInv
<1>9. AnswerInv'
  <2>1. ASSUME NEW e \in Dirs, e # d, reg.renewals[e] # NoAnswer
        PROVE  /\ reg.renewals[e].cert \in Generations
               /\ reg.renewals[e].cert <= l /\ reg.renewals[e].cert # n
    BY <1>3, <2>1, RenewalAssumption DEF AnswerInv, Generations
  <2>2. QED
    BY <1>2, <1>3, <2>1 DEF AnswerInv, Generations
<1>10. HeldInv'
  <2>1. ASSUME NEW e \in Dirs, e # d
        PROVE  proc'[e] = proc[e] /\ dirs'[e] = dirs[e] /\ reg'.renewals[e] = reg.renewals[e]
    BY <1>1, <1>2, <2>1 DEF Replies, TypeOK
  <2>2. proc[d].pc \in {"idle", "waiting"}
    BY <1>1 DEF HeldInv, TypeOK, Process
  <2>3. CASE proc' = proc
    BY <2>1, <2>2, <2>3 DEF HeldInv
  <2>4. CASE proc' = [proc EXCEPT ![d] = [pc |-> "answered", answer |-> reg'.renewals[d]]]
    <3>1. proc'[d].pc = "answered" /\ proc'[d].answer = reg'.renewals[d]
      BY <2>4 DEF TypeOK
    <3>2. QED
      BY <1>5, <2>1, <3>1 DEF HeldInv
  <2>5. QED
    BY <1>1, <2>3, <2>4 DEF Replies
<1>11. FileInv'
  BY <1>1, <1>2 DEF FileInv
<1>12. PairInv'
  <2>1. ASSUME NEW g \in Generations, g < n PROVE reg'.cred[g].known
    <3>1. g # n /\ (g # l => g < l)
      BY <1>3, <2>1 DEF Generations
    <3>2. QED
      BY <1>2, <2>1, <3>1 DEF PairInv
  <2>2. ASSUME NEW g \in Generations, g + 1 < n
        PROVE  \/ reg'.cred[g].revoked \/ reg'.cred[g].retire <= now
               \/ reg'.cred[g].until <= now
    <3>1. g < l /\ g # n /\ g # l /\ (g + 1 < l \/ g + 1 = l) /\ g \in Rows /\ l \in Rows
      BY <1>3, <2>2 DEF Generations, Rows
    <3>2. reg'.cred[g] = reg.cred[g]
      BY <1>2, <3>1
    <3>3. CASE g + 1 < l
      BY <3>2, <3>3 DEF PairInv
    <3>4. CASE g + 1 = l
      <4>1. l \in Active
        BY <1>1, <3>1 DEF Issue, Usable, Active
      <4>2. g \notin Active
        BY <1>1, <3>1, <4>1, OneActive DEF Issue, IssueAllowed
      <4>3. reg.cred[g].known
        BY <3>1 DEF PairInv
      <4>4. reg.cred[g].retire \in Nat /\ reg.cred[g].until \in Nat
        BY DEF TypeOK, Registry, Credential
      <4>5. QED
        BY <1>3, <3>1, <3>2, <4>2, <4>3, <4>4 DEF Active, Current
    <3>5. QED
      BY <3>1, <3>3, <3>4
  <2>3. QED
    BY <1>1, <1>2, <2>1, <2>2 DEF PairInv
<1>13. QED
  BY <1>6, <1>7, <1>8, <1>9, <1>10, <1>11, <1>12

\* RevokeCertificate, Credentials and Disable change marks and the log only.
LEMMA MarksKeep ==
    ASSUME IInv,
           (\E g \in Generations : RevokeCertificate(g)) \/ Credentials \/ Disable
    PROVE  IInv'
<1> USE DEF IInv
<1>1. UNCHANGED <<now, issuer, dirs, proc, sent>>
  BY DEF RevokeCertificate, Credentials, Disable
<1>2. /\ reg' \in Registry
      /\ reg'.latest = reg.latest /\ reg'.renewals = reg.renewals
      /\ \A g \in Generations :
            /\ reg'.cred[g].key = reg.cred[g].key
            /\ reg'.cred[g].issued = reg.cred[g].issued
            /\ reg'.cred[g].until = reg.cred[g].until
            /\ reg'.cred[g].retire = reg.cred[g].retire
            /\ reg'.cred[g].known = reg.cred[g].known
            /\ reg.cred[g].revoked => reg'.cred[g].revoked
  <2>0. reg \in Registry /\ reg.reserved + 0 >= 0
    BY DEF TypeOK, Registry
  <2>1. CASE \E g \in Generations : RevokeCertificate(g)
    <3>1. PICK g \in Generations : RevokeCertificate(g)
      BY <2>1
    <3> DEFINE x == [reg EXCEPT !.cred[g].revoked = TRUE]
    <3>2. /\ x \in Registry /\ x.latest = reg.latest /\ x.renewals = reg.renewals
          /\ x.reserved + 0 >= 0
          /\ \A h \in Generations :
                /\ x.cred[h].key = reg.cred[h].key
                /\ x.cred[h].issued = reg.cred[h].issued
                /\ x.cred[h].until = reg.cred[h].until
                /\ x.cred[h].retire = reg.cred[h].retire
                /\ x.cred[h].known = reg.cred[h].known
                /\ reg.cred[h].revoked => x.cred[h].revoked
      <4> DEFINE c == [reg.cred[g] EXCEPT !.revoked = TRUE]
                 cr == [reg.cred EXCEPT ![g] = c]
      <4>1. reg.cred \in [Generations -> Credential] /\ reg.cred[g] \in Credential
        BY <2>0 DEF Registry
      <4>2. /\ c \in Credential /\ c.key = reg.cred[g].key
            /\ c.issued = reg.cred[g].issued /\ c.until = reg.cred[g].until
            /\ c.retire = reg.cred[g].retire /\ c.known = reg.cred[g].known
        BY <4>1 DEF Credential
      <4>3. c.revoked
        BY <4>1 DEF Credential
      <4>4. x = [reg EXCEPT !.cred = cr]
        OBVIOUS
      <4> HIDE DEF c, x
      <4>5. /\ cr \in [Generations -> Credential] /\ cr[g] = c
            /\ \A h \in Generations : h # g => cr[h] = reg.cred[h]
        BY <4>1, <4>2
      <4> HIDE DEF cr
      <4>6. /\ x \in Registry /\ x.latest = reg.latest
            /\ x.renewals = reg.renewals /\ x.cred = cr /\ x.reserved + 0 >= 0
        BY <2>0, <4>4, <4>5 DEF Registry
      <4>7. QED
        BY <4>2, <4>3, <4>5, <4>6
    <3>3. reg' = Appended(x, 0)
      BY <3>1 DEF RevokeCertificate
    <3> HIDE DEF x
    <3>4. QED
      BY <3>2, <3>3, AppendedFields
  <2>2. CASE Credentials
    BY <2>0, <2>2, AppendedFields DEF Credentials
  <2>3. CASE Disable
    <3> DEFINE x == [reg EXCEPT !.enabled = FALSE]
    <3>1. /\ x \in Registry /\ x.latest = reg.latest /\ x.renewals = reg.renewals
          /\ x.cred = reg.cred /\ x.reserved = reg.reserved
      BY <2>0 DEF Registry
    <3>2. reg' = Appended(x, -1) /\ reg.reserved + (-1) >= 0
      BY <2>3 DEF Disable, CanAppend
    <3> HIDE DEF x
    <3>3. QED
      BY <3>1, <3>2, AppendedFields
  <2>4. QED
    BY <2>1, <2>2, <2>3
<1>3. RetireInv' /\ PairInv' /\ KeyInv' /\ AnswerInv'
  BY <1>1, <1>2, SameRows
<1>4. TypeOK'
  BY <1>1, <1>2 DEF TypeOK
<1>5. HeldInv' /\ FileInv'
  BY <1>1, <1>2 DEF HeldInv, FileInv
<1>6. QED
  BY <1>3, <1>4, <1>5

\* The server's other answers, and what happens between the machines.
LEMMA RepliesKeep ==
    ASSUME IInv, NEW d \in Dirs,
           Retrieve(d) \/ Refuse(d) \/ Lose(d) \/ TimeOut(d) \/ Abandon(d)
             \/ RequestRenewal(d)
    PROVE  IInv'
<1> USE DEF IInv
<1>1. UNCHANGED <<now, issuer, reg, dirs>>
  BY DEF Retrieve, Refuse, Lose, TimeOut, Abandon, RequestRenewal
<1>2. RetireInv' /\ PairInv' /\ KeyInv' /\ AnswerInv' /\ FileInv'
  BY <1>1 DEF RetireInv, PairInv, KeyInv, AnswerInv, FileInv
<1>3. sent' \in [Dirs -> Nat]
  BY DEF Retrieve, Refuse, Lose, TimeOut, Abandon, RequestRenewal, Replies, TypeOK
<1>4. /\ Idle \in Process
      /\ \A a \in Answer : [pc |-> "answered", answer |-> a] \in Process
  BY RenewalAssumption DEF Idle, Process, NoAnswer, Answer
<1>5. /\ \A e \in Dirs : e # d => proc'[e] = proc[e]
      /\ proc' \in [Dirs -> Process]
      /\ \/ proc'[d] = proc[d]
         \/ proc'[d].pc \in {"idle", "waiting"}
         \/ /\ proc'[d] = [pc |-> "answered", answer |-> reg.renewals[d]]
            /\ reg.renewals[d] # NoAnswer
  <2>1. CASE Retrieve(d)
    <3>1. reg.renewals[d] \in Answer /\ reg.renewals[d] # NoAnswer
      BY <2>1 DEF Retrieve, TypeOK, Registry
    <3>2. QED
      BY <1>4, <2>1, <3>1 DEF Retrieve, Replies, Recorded, TypeOK
  <2>2. CASE Refuse(d)
    BY <1>4, <2>2 DEF Refuse, TypeOK, Idle
  <2>3. CASE Lose(d)
    BY <2>3 DEF Lose, TypeOK
  <2>4. CASE TimeOut(d)
    BY <1>4, <2>4 DEF TimeOut, TypeOK, Idle
  <2>5. CASE Abandon(d)
    BY <1>4, <2>5 DEF Abandon, TypeOK, Idle
  <2>6. CASE RequestRenewal(d)
    BY <2>6 DEF RequestRenewal, TypeOK, Process
  <2>7. QED
    BY <2>1, <2>2, <2>3, <2>4, <2>5, <2>6
<1>6. HeldInv'
  BY <1>1, <1>5 DEF HeldInv
<1>7. TypeOK'
  BY <1>1, <1>3, <1>5 DEF TypeOK
<1>8. QED
  BY <1>2, <1>6, <1>7

\* The renew command writes its files in order, from the answer it holds.
LEMMA FilesKeep ==
    ASSUME IInv, NEW d \in Dirs,
           (\E g \in Generations : PrepareRenewal(d, g))
             \/ SaveCertificate(d) \/ SaveResponse(d) \/ SaveIdentity(d)
    PROVE  IInv'
<1> USE DEF IInv
<1>1. UNCHANGED <<now, issuer, reg, sent>>
  BY DEF PrepareRenewal, SaveCertificate, SaveResponse, SaveIdentity
<1>2. RetireInv' /\ PairInv' /\ KeyInv' /\ AnswerInv'
  BY <1>1 DEF RetireInv, PairInv, KeyInv, AnswerInv
<1>3. proc[d].answer \in Answer /\ proc[d] \in Process /\ dirs[d] \in Staging
  BY DEF TypeOK, Process
<1>4. CASE \E g \in Generations : PrepareRenewal(d, g)
  <2>1. PICK g \in Generations : PrepareRenewal(d, g)
    BY <1>4
  <2>2. PICK stage \in {"partial", "ready"} :
           dirs' = [dirs EXCEPT ![d].stage = stage, ![d].prev = g]
    BY <2>1 DEF PrepareRenewal
  <2>3. UNCHANGED proc
    BY <2>1 DEF PrepareRenewal
  <2>4. /\ dirs' \in [Dirs -> Staging]
        /\ \A e \in Dirs : /\ dirs'[e].cert = dirs[e].cert
                           /\ dirs'[e].answer = dirs[e].answer
                           /\ dirs'[e].done = dirs[e].done
    <3>1. g \in 0 .. MaxGenerations /\ stage \in {"none", "partial", "ready"}
      BY RenewalAssumption DEF Generations
    <3> DEFINE s == [dirs[d] EXCEPT !.stage = stage, !.prev = g]
    <3>2. /\ s \in Staging /\ s.cert = dirs[d].cert
          /\ s.answer = dirs[d].answer /\ s.done = dirs[d].done
      BY <1>3, <3>1 DEF Staging
    <3>3. dirs' = [dirs EXCEPT ![d] = s]
      BY <2>2 DEF TypeOK
    <3> HIDE DEF s
    <3>4. QED
      BY <3>2, <3>3 DEF TypeOK
  <2>5. TypeOK'
    BY <1>1, <2>3, <2>4 DEF TypeOK
  <2>6. HeldInv' /\ FileInv'
    BY <1>1, <2>3, <2>4 DEF HeldInv, FileInv
  <2>7. QED
    BY <1>2, <2>5, <2>6
<1>5. CASE SaveCertificate(d)
  <2> DEFINE c == proc[d].answer.cert
  <2>1. /\ proc[d].pc = "answered"
        /\ dirs' = [dirs EXCEPT ![d].cert = c]
        /\ proc' = [proc EXCEPT ![d].pc = "saved"]
        /\ dirs[d].cert \in {0, c}
    BY <1>5 DEF SaveCertificate, Saveable
  <2>2. proc[d].answer = reg.renewals[d] /\ reg.renewals[d] # NoAnswer
    BY <2>1 DEF HeldInv
  <2>3. c \in 0 .. MaxGenerations /\ c = reg.renewals[d].cert
    BY <1>3, <2>2 DEF Answer
  <2>4. /\ dirs' \in [Dirs -> Staging]
        /\ \A e \in Dirs : e # d => dirs'[e] = dirs[e] /\ proc'[e] = proc[e]
        /\ dirs'[d].cert = c /\ dirs'[d].answer = dirs[d].answer
        /\ dirs'[d].done = dirs[d].done
    BY <2>1, <2>3 DEF TypeOK, Staging
  <2>5. /\ proc' \in [Dirs -> Process]
        /\ proc'[d].pc = "saved" /\ proc'[d].answer = proc[d].answer
    BY <2>1 DEF TypeOK, Process
  <2>6. TypeOK'
    BY <1>1, <2>4, <2>5 DEF TypeOK
  <2>7. HeldInv'
    BY <1>1, <2>2, <2>4, <2>5 DEF HeldInv
  <2>8. c # 0
    BY <2>2, <2>3, RenewalAssumption DEF AnswerInv, Generations
  <2>9. FileInv'
    BY <1>1, <2>2, <2>3, <2>4, <2>8 DEF FileInv
  <2>10. QED
    BY <1>2, <2>6, <2>7, <2>9
<1>6. CASE SaveResponse(d)
  <2>1. /\ proc[d].pc = "saved"
        /\ dirs' = [dirs EXCEPT ![d].answer = proc[d].answer]
        /\ proc' = [proc EXCEPT ![d].pc = "recorded"]
    BY <1>6 DEF SaveResponse
  <2>2. /\ proc[d].answer = reg.renewals[d] /\ reg.renewals[d] # NoAnswer
        /\ dirs[d].cert = proc[d].answer.cert
    BY <2>1 DEF HeldInv
  <2>3. dirs[d].cert # 0
    BY <2>2, RenewalAssumption DEF AnswerInv, Generations
  <2>4. /\ dirs' \in [Dirs -> Staging]
        /\ \A e \in Dirs : e # d => dirs'[e] = dirs[e] /\ proc'[e] = proc[e]
        /\ dirs'[d].cert = dirs[d].cert /\ dirs'[d].answer = proc[d].answer
        /\ dirs'[d].done = dirs[d].done
    BY <1>3, <2>1 DEF TypeOK, Staging
  <2>5. /\ proc' \in [Dirs -> Process]
        /\ proc'[d].pc = "recorded" /\ proc'[d].answer = proc[d].answer
    BY <2>1 DEF TypeOK, Process
  <2>6. TypeOK'
    BY <1>1, <2>4, <2>5 DEF TypeOK
  <2>7. HeldInv'
    BY <1>1, <2>2, <2>4, <2>5 DEF HeldInv
  <2>8. FileInv'
    BY <1>1, <2>2, <2>3, <2>4 DEF FileInv
  <2>9. QED
    BY <1>2, <2>6, <2>7, <2>8
<1>7. CASE SaveIdentity(d)
  <2>1. /\ proc[d].pc = "recorded"
        /\ dirs' = [dirs EXCEPT ![d].done = TRUE]
        /\ proc' = [proc EXCEPT ![d] = Idle]
    BY <1>7 DEF SaveIdentity
  <2>2. dirs[d].answer = reg.renewals[d] /\ reg.renewals[d] # NoAnswer
    BY <2>1 DEF HeldInv
  <2>3. /\ dirs' \in [Dirs -> Staging]
        /\ \A e \in Dirs : e # d => dirs'[e] = dirs[e] /\ proc'[e] = proc[e]
        /\ dirs'[d].cert = dirs[d].cert /\ dirs'[d].answer = dirs[d].answer
    BY <2>1 DEF TypeOK, Staging
  <2>4. proc' \in [Dirs -> Process] /\ proc'[d].pc = "idle"
    BY <2>1, RenewalAssumption DEF TypeOK, Process, Idle, NoAnswer, Answer
  <2>5. TypeOK'
    BY <1>1, <2>3, <2>4 DEF TypeOK
  <2>6. HeldInv'
    BY <1>1, <2>3, <2>4 DEF HeldInv
  <2>7. FileInv'
    BY <1>1, <2>2, <2>3 DEF FileInv
  <2>8. QED
    BY <1>2, <2>5, <2>6, <2>7
<1>8. QED
  BY <1>4, <1>5, <1>6, <1>7

\* Time and restarts of the server.
LEMMA EnvironmentKeeps ==
    ASSUME IInv, Tick \/ (\E i \in Issuers : Restart(i)) \/ UNCHANGED vars
    PROVE  IInv'
<1> USE DEF IInv
<1>1. UNCHANGED <<reg, dirs, proc>>
  BY DEF Tick, Restart, vars
<1>2. now' \in Nat /\ issuer' \in Issuers /\ sent' \in [Dirs -> Nat]
  BY DEF TypeOK, Tick, Restart, vars
<1>3. PairInv'
  <2>1. now' \in Nat /\ now \in Nat /\ now <= now'
    BY <1>2 DEF TypeOK, Tick, Restart, vars
  <2>2. \A g \in Generations : reg.cred[g].retire \in Nat /\ reg.cred[g].until \in Nat
    BY DEF TypeOK, Registry, Credential
  <2>3. QED
    BY <1>1, <2>1, <2>2 DEF PairInv
<1>4. QED
  BY <1>1, <1>2, <1>3 DEF TypeOK, RetireInv, KeyInv, AnswerInv, HeldInv, FileInv

\* The initial registry has one row and nothing recorded.
LEMMA InitInv == Init => IInv
<1> SUFFICES ASSUME Init PROVE IInv
  OBVIOUS
<1>1. 1 \in Generations /\ 0 \in 0 .. MaxGenerations
  BY RenewalAssumption DEF Generations
<1>2. issuer \in Issuers /\ issuer.life \in Nat /\ issuer.until \in Nat
  BY RenewalAssumption DEF Init
<1>3. NoAnswer \in Answer /\ NoCredential \in Credential
  BY <1>1 DEF NoAnswer, Answer, NoCredential, Credential
<1>4. NoStaging \in Staging /\ Idle \in Process
  BY <1>1, <1>3 DEF NoStaging, Staging, Idle, Process
<1>5. PICK known \in BOOLEAN :
        reg = [enabled |-> TRUE, latest |-> 1,
               cred |-> [g \in Generations |->
                  IF g = 1 THEN [NoCredential EXCEPT
                                   !.until = Least(issuer.life, issuer.until),
                                   !.known = known]
                           ELSE NoCredential],
               renewals |-> [d \in Dirs |-> NoAnswer],
               seq |-> 0, reserved |-> 1]
  BY DEF Init
<1>6. Least(issuer.life, issuer.until) \in Nat
  BY <1>2 DEF Least
<1>7. reg \in Registry
  BY <1>1, <1>3, <1>5, <1>6 DEF Registry, NoCredential, Credential
<1>8. /\ reg.latest = 1 /\ reg.cred[1].retire = 0
      /\ \A d \in Dirs : reg.renewals[d] = NoAnswer
  BY <1>1, <1>5 DEF NoCredential
<1>9. TypeOK
  BY <1>2, <1>4, <1>7 DEF TypeOK, Init
<1>10. RetireInv /\ PairInv /\ KeyInv /\ AnswerInv
  BY <1>8 DEF RetireInv, PairInv, KeyInv, AnswerInv, Generations
<1>11. HeldInv /\ FileInv
  BY DEF HeldInv, FileInv, Init, Idle, NoStaging
<1>12. QED
  BY <1>9, <1>10, <1>11 DEF IInv

\* Every reachable state of the registry, the commands and the directories
\* satisfies IInv.
THEOREM Invariance == Spec => []IInv
<1>1. IInv /\ [Next]_vars => IInv'
  <2> SUFFICES ASSUME IInv, [Next]_vars PROVE IInv'
    OBVIOUS
  <2>1. ASSUME NEW d \in Dirs, Issue(d) PROVE IInv'
    BY <2>1, IssueKeeps
  <2>2. ASSUME NEW d \in Dirs,
               Retrieve(d) \/ Refuse(d) \/ Lose(d) \/ TimeOut(d) \/ Abandon(d)
                 \/ RequestRenewal(d)
        PROVE  IInv'
    BY <2>2, RepliesKeep
  <2>3. ASSUME NEW d \in Dirs,
               (\E g \in Generations : PrepareRenewal(d, g))
                 \/ SaveCertificate(d) \/ SaveResponse(d) \/ SaveIdentity(d)
        PROVE  IInv'
    BY <2>3, FilesKeep
  <2>4. CASE (\E g \in Generations : RevokeCertificate(g)) \/ Credentials \/ Disable
    BY <2>4, MarksKeep
  <2>5. CASE Tick \/ (\E i \in Issuers : Restart(i)) \/ UNCHANGED vars
    BY <2>5, EnvironmentKeeps
  <2>6. QED
    BY <2>1, <2>2, <2>3, <2>4, <2>5 DEF Next
<1>2. QED
  BY <1>1, InitInv, PTL DEF Spec

\* Registry, directories and processes stay within their types: no generation
\* beyond protocol.MaxCertificateGenerations, no negative count or time.
THEOREM TypeCorrect == Spec => []TypeOK
<1>1. IInv => TypeOK
  BY DEF IInv
<1>2. QED
  BY <1>1, Invariance, PTL

\* Of a node's certificates at most two are accepted by authorizeCertificate,
\* the newest and its predecessor.
THEOREM AtMostTwoHolds == Spec => []AtMostTwoUsable
<1>1. IInv => AtMostTwoUsable
  <2> SUFFICES ASSUME IInv PROVE AtMostTwoUsable
    OBVIOUS
  <2> DEFINE l == reg.latest
             U == {g \in Rows : Usable(g)}
             P == {l - 1} \cup {l}
  <2>1. l \in Nat /\ l \in Generations /\ now \in Nat /\ Rows \subseteq Generations
    BY RenewalAssumption DEF IInv, TypeOK, Registry, Generations, Rows
  <2>2. ASSUME NEW g \in U PROVE g \in P
    <3>1. g \in Generations /\ g \in Nat /\ g <= l
      BY <2>1 DEF Rows
    <3>2. reg.cred[g].retire \in Nat /\ reg.cred[g].until \in Nat
      BY <3>1 DEF IInv, TypeOK, Registry, Credential
    <3>3. g + 1 < l => reg.cred[g].retire > 0
      BY <2>1, <3>1 DEF IInv, RetireInv
    <3>4. ~(g + 1 < l)
      BY <2>1, <3>1, <3>2, <3>3 DEF IInv, PairInv, Usable, Current
    <3>5. QED
      BY <2>1, <3>1, <3>4
  <2>3. IsFiniteSet({l}) /\ Cardinality({l}) = 1
    BY FS_Singleton
  <2>4. IsFiniteSet({l - 1}) /\ Cardinality({l - 1}) = 1
    BY FS_Singleton
  <2>5. IsFiniteSet(P) /\ Cardinality(P) <= 2
    <3>1. P = {l} \cup {l - 1} /\ l - 1 \notin {l}
      BY <2>1
    <3>2. QED
      BY <2>3, <3>1, FS_AddElement
  <2>6. U \subseteq P
    BY <2>2
  <2>7. Cardinality(U) <= Cardinality(P) /\ Cardinality(P) \in Nat /\ Cardinality(U) \in Nat
    BY <2>5, <2>6, FS_Subset, FS_CardinalityType
  <2>8. QED
    BY <2>5, <2>7 DEF AtMostTwoUsable
<1>2. QED
  BY <1>1, Invariance, PTL

\* RenewCertificate never issues twice for one request and never lets two
\* requests follow the same certificate.
THEOREM LinearHistoryHolds == Spec => []LinearHistory
<1>1. IInv => LinearHistory
  <2> SUFFICES ASSUME IInv PROVE LinearHistory
    OBVIOUS
  <2>1. ASSUME NEW g \in Rows \ {1}
        PROVE  /\ reg.cred[g].key \in Dirs
               /\ reg.renewals[reg.cred[g].key].cert = g
               /\ reg.renewals[reg.cred[g].key].auth = g - 1
    <3>1. g \in Generations /\ 1 < g /\ g <= reg.latest
      BY RenewalAssumption DEF Rows, IInv, TypeOK, Registry, Generations
    <3>2. reg.cred[g].key \in Dirs /\ reg.renewals[reg.cred[g].key].cert = g
      BY <3>1 DEF IInv, KeyInv
    <3>3. reg.renewals[reg.cred[g].key] # NoAnswer
      BY <3>1, <3>2 DEF NoAnswer
    <3>4. QED
      BY <3>1, <3>2, <3>3 DEF IInv, AnswerInv, Generations
  <2>2. QED
    BY <2>1 DEF LinearHistory, IInv, AnswerInv
<1>2. QED
  BY <1>1, Invariance, PTL

\* The cutoff that RenewCertificate writes once bounds the superseded
\* certificate by the overlap and by its successor, whatever follows.
THEOREM OverlapHolds == Spec => []OverlapBounded
<1>1. IInv => OverlapBounded
  <2> SUFFICES ASSUME IInv, NEW g \in Rows, g + 1 \in Rows, Usable(g)
               PROVE  /\ now < reg.cred[g + 1].issued + Overlap
                      /\ now < reg.cred[g + 1].until
    BY DEF OverlapBounded
  <2>1. g \in Generations /\ g + 1 \in Generations /\ g < reg.latest /\ now \in Nat
    BY RenewalAssumption DEF Rows, IInv, TypeOK, Registry, Generations
  <2>2. /\ reg.cred[g].retire \in Nat /\ reg.cred[g + 1].until \in Nat
        /\ reg.cred[g + 1].issued \in Nat /\ Overlap \in Nat
    BY <2>1, RenewalAssumption DEF IInv, TypeOK, Registry, Credential
  <2>3. /\ reg.cred[g].retire > 0
        /\ reg.cred[g].retire <= reg.cred[g + 1].issued + Overlap
        /\ reg.cred[g].retire <= reg.cred[g + 1].until
    BY <2>1 DEF IInv, RetireInv
  <2>4. reg.cred[g].retire > now
    BY <2>2, <2>3 DEF Usable, Current
  <2>5. QED
    BY <2>1, <2>2, <2>3, <2>4
<1>2. QED
  BY <1>1, Invariance, PTL

\* While RenewCertificate would let the old certificate ask again, the new one
\* has neither expired nor been superseded.
THEOREM RetrievableHolds == Spec => []LostAnswerRetrievable
<1>1. IInv => LostAnswerRetrievable
  <2> SUFFICES ASSUME IInv, NEW d \in Dirs, reg.renewals[d] # NoAnswer,
                      Usable(reg.renewals[d].auth),
                      ~reg.cred[reg.renewals[d].cert].revoked
               PROVE  Usable(reg.renewals[d].cert)
    BY DEF LostAnswerRetrievable
  <2> DEFINE g == reg.renewals[d].auth
  <2>1. /\ g \in Generations /\ reg.renewals[d].cert = g + 1
        /\ g + 1 <= reg.latest
    BY DEF IInv, AnswerInv
  <2>2. /\ reg.latest \in Nat /\ now \in Nat /\ g \in Nat /\ g < reg.latest
        /\ g + 1 \in Rows /\ g + 1 \in Generations
    BY <2>1, RenewalAssumption DEF IInv, TypeOK, Registry, Rows, Generations
  <2>3. /\ reg.cred[g].retire \in Nat /\ reg.cred[g].until \in Nat
        /\ reg.cred[g + 1].until \in Nat
    BY <2>1, <2>2 DEF IInv, TypeOK, Registry, Credential
  <2>4. reg.cred[g].retire > 0 /\ reg.cred[g].retire <= reg.cred[g + 1].until
    BY <2>1, <2>2 DEF IInv, RetireInv
  <2>5. /\ reg.enabled /\ ~reg.cred[g].revoked /\ reg.cred[g].retire > now
        /\ now < reg.cred[g].until
    BY <2>3, <2>4 DEF Usable, Current
  <2>6. g + 1 = reg.latest
    BY <2>1, <2>2, <2>3, <2>5 DEF IInv, PairInv
  <2>7. reg.cred[g + 1].retire = 0
    BY <2>6 DEF IInv, RetireInv
  <2>8. QED
    BY <2>1, <2>2, <2>3, <2>4, <2>5, <2>7 DEF Usable, Current
<1>2. QED
  BY <1>1, Invariance, PTL

\* Whatever saveRenewalFile has left in a directory, through crashes and
\* retries, is the answer recorded for it and the certificate of its own key.
THEOREM StagedHolds == Spec => []StagedAsRecorded
<1>1. IInv => StagedAsRecorded
  BY DEF IInv, FileInv, AnswerInv, StagedAsRecorded
<1>2. QED
  BY <1>1, Invariance, PTL
=============================================================================
