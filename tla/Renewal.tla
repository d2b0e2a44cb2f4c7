------------------------------ MODULE Renewal ------------------------------
(***************************************************************************)
(* The life of one probe's client certificates: the credential registry of *)
(* internal/state/certificates.go, the issuer behind it, and the renew     *)
(* command of internal/agent/renewal.go, which stages a new key and        *)
(* certificate in a directory of its own and may die at any step.          *)
(*                                                                         *)
(* A directory stands for everything that is drawn once when it is         *)
(* prepared: the key pair, the CSR and the renewal id.  Certificates are   *)
(* named by their generation, which is unique per node.  Registry rows of  *)
(* other nodes are never read, so one node is enough.  now is the common   *)
(* clock of both machines; it does not run backwards.                      *)
(***************************************************************************)
EXTENDS Audit, FiniteSets

CONSTANTS
    Dirs,            \* staging directories
    NoDir,           \* the key of generation 1 is in none of them
    MaxGenerations,  \* protocol.MaxCertificateGenerations
    Issuers,         \* [life, until]: lifetime setting, end of the issuer's chain
    MinAge,          \* one hour between issuances
    Overlap,         \* 24 hours for the old certificate
    Margin,          \* the minute a certificate must still have
    MaxTime,         \* bound on now
    MaxSent          \* bound on the requests of a directory under way

VARIABLES
    now,
    issuer,   \* the issuer the server was started with
    reg,      \* the server's database, with the head of its audit log
    dirs,     \* what is durable in each staging directory
    proc,     \* the renew process on each directory: pc and the answer it holds
    sent      \* requests of each directory that are under way

vars == <<now, issuer, reg, dirs, proc, sent>>

Generations == 1 .. MaxGenerations

ASSUME RenewalAssumption ==
    /\ MaxGenerations \in Nat \ {0} /\ NoDir \notin Dirs
    /\ MinAge \in Nat /\ Overlap \in Nat \ {0} /\ Margin \in Nat
    /\ MaxTime \in Nat /\ MaxSent \in Nat \ {0}
    /\ Issuers # {} /\ Issuers \subseteq [life : Nat, until : Nat]
    /\ \A i \in Issuers : i.life > Margin

Least(a, b) == IF a <= b THEN a ELSE b
-----------------------------------------------------------------------------
(* State *)

\* A row of node_credentials and the leaf it pins.  The validity is in the
\* row only if known: rows of a migrated database lack it.
Credential ==
    [key : Dirs \cup {NoDir}, issued : Nat, until : Nat, known : BOOLEAN,
     retire : Nat, revoked : BOOLEAN]

NoCredential ==
    [key |-> NoDir, issued |-> 0, until |-> 0, known |-> FALSE,
     retire |-> 0, revoked |-> FALSE]

\* A row of certificate_renewals, which is also the answer sent.
Answer == [auth : 0 .. MaxGenerations, cert : 0 .. MaxGenerations, cutoff : Nat]

NoAnswer == [auth |-> 0, cert |-> 0, cutoff |-> 0]

Registry ==
    [enabled : BOOLEAN, latest : Generations,
     cred : [Generations -> Credential], renewals : [Dirs -> Answer],
     seq : Nat, reserved : Nat]

\* prev is the certificate renewal.json binds; cert, answer and done stand
\* for probe-cert.pem, renewal-response.json and identity.json.
Staging ==
    [stage : {"none", "partial", "ready"}, prev : 0 .. MaxGenerations,
     cert : 0 .. MaxGenerations, answer : Answer, done : BOOLEAN]

NoStaging ==
    [stage |-> "none", prev |-> 0, cert |-> 0, answer |-> NoAnswer,
     done |-> FALSE]

Process == [pc : {"idle", "waiting", "answered", "saved", "recorded"},
            answer : Answer]

Idle == [pc |-> "idle", answer |-> NoAnswer]

TypeOK ==
    /\ now \in Nat
    /\ issuer \in Issuers
    /\ reg \in Registry
    /\ dirs \in [Dirs -> Staging]
    /\ proc \in [Dirs -> Process]
    /\ sent \in [Dirs -> Nat]

\* A node enrolled a moment ago, or one migrated from an older database.
Init ==
    /\ now = 0
    /\ issuer \in Issuers
    /\ Margin < issuer.until
    /\ \E known \in BOOLEAN :
          reg = [enabled |-> TRUE, latest |-> 1,
                 cred |-> [g \in Generations |->
                    IF g = 1 THEN [NoCredential EXCEPT
                                     !.until = Least(issuer.life, issuer.until),
                                     !.known = known]
                             ELSE NoCredential],
                 renewals |-> [d \in Dirs |-> NoAnswer],
                 seq |-> 0, reserved |-> 1]
    /\ dirs = [d \in Dirs |-> NoStaging]
    /\ proc = [d \in Dirs |-> Idle]
    /\ sent = [d \in Dirs |-> 0]
-----------------------------------------------------------------------------
(* The registry *)

Rows == 1 .. reg.latest

\* Not revoked, and its overlap has not ended.
Current(g) ==
    ~reg.cred[g].revoked /\ (reg.cred[g].retire = 0 \/ reg.cred[g].retire > now)

\* authorizeCertificate: every request of the probe is subject to it.
Usable(g) ==
    /\ g \in Rows /\ reg.enabled
    /\ Current(g) /\ now < reg.cred[g].until

\* What the registry can tell of the number of certificates in use.
Active ==
    {g \in Rows : Current(g) /\ (reg.cred[g].known => now < reg.cred[g].until)}

\* Faulty: any certificate in use may start a branch.
BranchingIssueAllowed(g) ==
    /\ reg.latest < MaxGenerations /\ Cardinality(Active) < 2
    /\ g > 1 => now - reg.cred[g].issued >= MinAge

\* Faulty: does not count.
UncountedIssueAllowed(g) ==
    /\ g = reg.latest /\ reg.latest < MaxGenerations
    /\ g > 1 => now - reg.cred[g].issued >= MinAge

\* Only the newest certificate can ask for the next one.
IssueAllowed(g) ==
    /\ g = reg.latest
    /\ Cardinality(Active) < 2
    /\ reg.latest < MaxGenerations
    /\ g > 1 => now - reg.cred[g].issued >= MinAge

\* Issuer.Issue, cut to the issuer's own chain.
IssueOK == now + Margin < issuer.until

Expires == Least(now + issuer.life, issuer.until)

\* Faulty: the old certificate stays to its end.
EndlessCutoff(g) == Least(reg.cred[g].until, Expires)

\* Faulty: the new certificate may end before the old one.
LateCutoff(g) == Least(now + Overlap, reg.cred[g].until)

\* The old certificate goes after the overlap, and with either certificate.
Cutoff(g) == Least(now + Overlap, Least(reg.cred[g].until, Expires))

\* The rows RenewCertificate writes for the request of d, and its event.
Renewed(d, g) ==
    LET row == [auth |-> g, cert |-> reg.latest + 1, cutoff |-> Cutoff(g)]
    IN  Appended(
          [reg EXCEPT
             !.latest = @ + 1,
             !.cred = [@ EXCEPT
                ![g].known = TRUE, ![g].retire = row.cutoff,
                ![row.cert] = [key |-> d, issued |-> now, until |-> Expires,
                               known |-> TRUE, retire |-> 0, revoked |-> FALSE]],
             !.renewals[d] = row],
          0)

\* The answer of the server is lost, or heard by the process that waits.
Replies(d, a) ==
    /\ sent' = [sent EXCEPT ![d] = @ - 1]
    /\ \/ UNCHANGED proc
       \/ /\ proc[d].pc = "waiting"
          /\ proc' = [proc EXCEPT ![d] = [pc |-> "answered", answer |-> a]]

\* RenewCertificate for a request it has not seen: the new certificate, the
\* end of the old one, the recorded answer and the event are one transaction.
Issue(d) ==
    LET g == dirs[d].prev IN
    /\ sent[d] > 0 /\ Usable(g)
    /\ reg.renewals[d] = NoAnswer
    /\ IssueAllowed(g) /\ IssueOK
    /\ CanAppend(reg, 0)
    /\ reg' = Renewed(d, g)
    /\ Replies(d, reg'.renewals[d])
    /\ UNCHANGED <<now, issuer, dirs>>

\* Faulty: a retry starts the overlap again.
RefreshedAnswer(d) ==
    [reg.renewals[d] EXCEPT !.cutoff = Cutoff(reg.renewals[d].auth)]

\* The answer that was recorded, byte for byte.
Recorded(d) == reg.renewals[d]

\* RenewCertificate for a request it has seen: both certificates must still
\* be good, and nothing is written.
Retrieve(d) ==
    /\ sent[d] > 0 /\ Usable(dirs[d].prev)
    /\ reg.renewals[d] # NoAnswer
    /\ reg.renewals[d].auth = dirs[d].prev
    /\ Usable(reg.renewals[d].cert)
    /\ Replies(d, Recorded(d))
    /\ UNCHANGED <<now, issuer, reg, dirs>>

\* Anything else, and any request to a server that is busy, gets an error.
Refuse(d) ==
    /\ sent[d] > 0
    /\ sent' = [sent EXCEPT ![d] = @ - 1]
    /\ proc' = [proc EXCEPT ![d] = IF proc[d].pc = "waiting" THEN Idle ELSE @]
    /\ UNCHANGED <<now, issuer, reg, dirs>>

\* RevokeCertificate, an operator's command; repeating it adds an event.
RevokeCertificate(g) ==
    /\ g \in Rows
    /\ CanAppend(reg, 0)
    /\ reg' = Appended([reg EXCEPT !.cred[g].revoked = TRUE], 0)
    /\ UNCHANGED <<now, issuer, dirs, proc, sent>>

\* Credentials only reads, and appends an event.
Credentials ==
    /\ CanAppend(reg, 0)
    /\ reg' = Appended(reg, 0)
    /\ UNCHANGED <<now, issuer, dirs, proc, sent>>

\* The node is disabled, with the slot that enrollment reserved.
Disable ==
    /\ reg.enabled /\ CanAppend(reg, -1)
    /\ reg' = Appended([reg EXCEPT !.enabled = FALSE], -1)
    /\ UNCHANGED <<now, issuer, dirs, proc, sent>>

\* The server is stopped and started with other issuer files or another
\* lifetime; what was under way gets no answer.
Restart(i) ==
    /\ issuer' = i
    /\ sent' = [d \in Dirs |-> 0]
    /\ UNCHANGED <<now, reg, dirs, proc>>
-----------------------------------------------------------------------------
(* The renew command *)

\* The certificates of which the operator has the complete pair.
Held == {1} \cup {dirs[d].cert : d \in {e \in Dirs : dirs[e].done}}

\* PrepareRenewal with the pair of g.  Dying before the plan is on disk leaves
\* a directory no later command accepts.
PrepareRenewal(d, g) ==
    /\ dirs[d].stage = "none"
    /\ g \in Held /\ now < reg.cred[g].until
    /\ \E stage \in {"partial", "ready"} :
          dirs' = [dirs EXCEPT ![d].stage = stage, ![d].prev = g]
    /\ UNCHANGED <<now, issuer, reg, proc, sent>>

\* RequestRenewal takes the directory's lock, checks the plan against the
\* pair it is given, and sends.
RequestRenewal(d) ==
    /\ dirs[d].stage = "ready" /\ proc[d].pc = "idle"
    /\ now < reg.cred[dirs[d].prev].until
    /\ sent[d] < MaxSent
    /\ proc' = [proc EXCEPT ![d].pc = "waiting"]
    /\ sent' = [sent EXCEPT ![d] = @ + 1]
    /\ UNCHANGED <<now, issuer, reg, dirs>>

\* Faulty: an output that is there already is an error.
FreshOnly(old, none, new) == old = none

\* saveRenewalFile: an output may be there already if it is the same.
Saveable(old, none, new) == old \in {none, new}

\* verifyEnrollmentCertificate: the staged key, and dates that hold now.
CertificateOK(d, g) ==
    g \in Generations /\ reg.cred[g].key = d /\ now < reg.cred[g].until

\* The checks of Client.RenewCertificate on the answer.
AnswerOK(d, a) ==
    /\ a.auth = dirs[d].prev
    /\ a.cutoff <= reg.cred[a.auth].until
    /\ a.cutoff <= now + Overlap + Margin
    /\ CertificateOK(d, a.cert)
    /\ a.cutoff <= reg.cred[a.cert].until

\* The first file, once the answer is verified.
SaveCertificate(d) ==
    LET a == proc[d].answer IN
    /\ proc[d].pc = "answered"
    /\ AnswerOK(d, a)
    /\ Saveable(dirs[d].cert, 0, a.cert)
    /\ dirs' = [dirs EXCEPT ![d].cert = a.cert]
    /\ proc' = [proc EXCEPT ![d].pc = "saved"]
    /\ UNCHANGED <<now, issuer, reg, sent>>

SaveResponse(d) ==
    /\ proc[d].pc = "saved"
    /\ Saveable(dirs[d].answer, NoAnswer, proc[d].answer)
    /\ dirs' = [dirs EXCEPT ![d].answer = proc[d].answer]
    /\ proc' = [proc EXCEPT ![d].pc = "recorded"]
    /\ UNCHANGED <<now, issuer, reg, sent>>

\* identity.json, the completion marker.
SaveIdentity(d) ==
    /\ proc[d].pc = "recorded"
    /\ dirs' = [dirs EXCEPT ![d].done = TRUE]
    /\ proc' = [proc EXCEPT ![d] = Idle]
    /\ UNCHANGED <<now, issuer, reg, sent>>

\* The HTTP client gives up after ten seconds, the command after fifteen.
TimeOut(d) ==
    /\ proc[d].pc = "waiting"
    /\ proc' = [proc EXCEPT ![d] = Idle]
    /\ UNCHANGED <<now, issuer, reg, dirs, sent>>

\* The process dies or meets an error while it holds an answer; a file is on
\* disk or it is not, for it is written aside and renamed.
Abandon(d) ==
    /\ proc[d].pc \in {"answered", "saved", "recorded"}
    /\ proc' = [proc EXCEPT ![d] = Idle]
    /\ UNCHANGED <<now, issuer, reg, dirs, sent>>

\* A request never reaches the server.
Lose(d) ==
    /\ sent[d] > 0
    /\ sent' = [sent EXCEPT ![d] = @ - 1]
    /\ UNCHANGED <<now, issuer, reg, dirs, proc>>

Tick ==
    /\ now < MaxTime
    /\ now' = now + 1
    /\ UNCHANGED <<issuer, reg, dirs, proc, sent>>

Next ==
    \/ \E d \in Dirs :
          \/ Issue(d) \/ Retrieve(d) \/ Refuse(d) \/ Lose(d)
          \/ \E g \in Generations : PrepareRenewal(d, g)
          \/ RequestRenewal(d) \/ SaveCertificate(d) \/ SaveResponse(d)
          \/ SaveIdentity(d) \/ TimeOut(d) \/ Abandon(d)
    \/ \E g \in Generations : RevokeCertificate(g)
    \/ Credentials \/ Disable \/ Tick
    \/ \E i \in Issuers : Restart(i)

Spec == Init /\ [][Next]_vars
-----------------------------------------------------------------------------
(* Fairness: the operator repeats the request as the guide says; a request
   under way is answered or lost, and a process does not wait for ever; and
   neither the network nor the server nor a crash strikes for ever at the
   same step. *)
Heard(d) == Retrieve(d) /\ proc'[d].pc = "answered"

Settled(d) == Issue(d) \/ Retrieve(d) \/ Refuse(d) \/ Lose(d)

LiveSpec ==
    /\ Spec
    /\ \A d \in Dirs :
          /\ WF_vars(RequestRenewal(d)) /\ WF_vars(TimeOut(d))
          /\ WF_vars(Settled(d)) /\ WF_vars(Abandon(d))
          /\ SF_vars(Heard(d))
          /\ SF_vars(SaveCertificate(d))
          /\ SF_vars(SaveResponse(d))
          /\ SF_vars(SaveIdentity(d))
-----------------------------------------------------------------------------
(* Properties *)

\* Never do more than two certificates of a node pass authorizeCertificate,
\* however renewals, revocations, restarts and expiries interleave.
AtMostTwoUsable == Cardinality({g \in Rows : Usable(g)}) <= 2

\* The generations form one line: each after the first was issued once, to
\* the key of the directory that asked, on the authority of the one before
\* it.  No retried, delayed or competing request makes a branch or a second
\* certificate for the same request.
LinearHistory ==
    /\ \A g \in Rows \ {1} :
          LET d == reg.cred[g].key IN
          /\ d \in Dirs
          /\ reg.renewals[d].cert = g
          /\ reg.renewals[d].auth = g - 1
    /\ \A d \in Dirs : reg.renewals[d] # NoAnswer =>
          reg.cred[reg.renewals[d].cert].key = d

\* A superseded certificate is refused once the overlap is over, and never
\* outlives its successor: retries and restarts do not prolong it.
OverlapBounded ==
    \A g \in Rows : g + 1 \in Rows /\ Usable(g) =>
        /\ now < reg.cred[g + 1].issued + Overlap
        /\ now < reg.cred[g + 1].until

\* A lost answer can be fetched again for as long as the old certificate is
\* accepted: the new one is accepted too, unless it was revoked itself.
LostAnswerRetrievable ==
    \A d \in Dirs :
        LET a == reg.renewals[d] IN
        a # NoAnswer /\ Usable(a.auth) /\ ~reg.cred[a.cert].revoked
            => Usable(a.cert)

\* Whatever crashes and retries led to it, a directory with a completion
\* marker holds the certificate and the answer that the server recorded for
\* its request, issued to its own key; an incomplete one holds no other.
StagedAsRecorded ==
    \A d \in Dirs :
        /\ dirs[d].cert # 0 => /\ reg.renewals[d].cert = dirs[d].cert
                               /\ reg.cred[dirs[d].cert].key = d
        /\ dirs[d].answer # NoAnswer =>
              dirs[d].cert # 0 /\ dirs[d].answer = reg.renewals[d]
        /\ dirs[d].done => dirs[d].answer # NoAnswer

\* A renewal the server has recorded is completed in its directory, or one of
\* the two certificates has ceased to be accepted.
RetryCompletes ==
    \A d \in Dirs :
        reg.renewals[d] # NoAnswer ~>
            \/ dirs[d].done
            \/ ~Usable(reg.renewals[d].auth) \/ ~Usable(reg.renewals[d].cert)
=============================================================================
