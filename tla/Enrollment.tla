----------------------------- MODULE Enrollment -----------------------------
(***************************************************************************)
(* Enrollment of probes: agent.Enroll, which makes a directory with a new  *)
(* key, sends a request with a one-time token and stores the answer, and   *)
(* the enrollment handler in front of the registry of module Dispatch.     *)
(* The process may be killed and the machine may lose power between any    *)
(* two steps, and requests and answers may be lost or late.                *)
(*                                                                         *)
(* A directory stands for the run that made it and for the key and CSR in  *)
(* it: Mkdir fails if it exists, so no second run uses it.  disk records   *)
(* the entries that were made, in order; power loss keeps those that were  *)
(* synced and possibly the next ones (the metadata journal of the file     *)
(* system keeps the order), and a file is whole only when its content was  *)
(* written and synced.                                                     *)
(***************************************************************************)
EXTENDS Dispatch, Sequences

CONSTANTS
    Dirs,       \* -out directories
    NoDir,
    NoToken,
    MaxTime     \* bound of the model: the last second

EnrollmentAssumption ==
    /\ NoDir \notin Dirs /\ NoToken \notin Tokens /\ MaxTime \in Nat \ {0}
    /\ {"none", "refused"} \cap Nodes = {} /\ TTLs \subseteq Nat

VARIABLES
    now,      \* the server's clock
    d,        \* the server's database
    pinned,   \* the key that the certificate of each node is for
    wire,     \* requests under way: the directories they are from
    answer,   \* the answer that is on its way to each run
    run,      \* the run of each directory
    disk      \* what is in it

vars == <<now, d, pinned, wire, answer, run, disk>>

Files == {"key", "cert", "identity"}
Running == {"made", "keyed", "synced", "waiting", "answered", "certified", "marked"}

Run == [pc : {"none", "ok", "rejected", "failed"} \cup Running,
        token : Tokens \cup {NoToken}, node : Nodes \cup {"none"}]

Disk == [made : Seq(Files \cup {"dir"}),   \* entries, in order
         safe : Nat,                       \* how many of them are durable
         whole : SUBSET Files]             \* files with all their content

Answer == {"none", "refused"} \cup Nodes

Init ==
    /\ now = 1
    /\ d = [nodes |-> [n \in Nodes |-> NoNode],
            tokens |-> [k \in Tokens |-> NoTokenRow],
            tasks |-> [r \in Reqs |-> NoTask],
            key |-> NoKey, trust |-> NoTrust, paused |-> FALSE,
            seq |-> 0, reserved |-> 0]
    /\ pinned = [n \in Nodes |-> NoDir]
    /\ wire = {}
    /\ answer = [e \in Dirs |-> "none"]
    /\ run = [e \in Dirs |-> [pc |-> "none", token |-> NoToken, node |-> "none"]]
    /\ disk = [e \in Dirs |-> [made |-> <<>>, safe |-> 0, whole |-> {}]]

-----------------------------------------------------------------------------
(* The server.                                                             *)

NewToken(k, ttl) ==
    /\ IssueAllowed(d, now) /\ CanAppend(d, 0) /\ d.tokens[k].state = "none"
    /\ \A e \in Dirs : run[e].token # k
    /\ d' = IssueToken(d, k, ttl, now)
    /\ UNCHANGED <<now, pinned, wire, answer, run, disk>>

DisableNode(n) ==
    /\ d.nodes[n].state = "enabled" /\ DisableOK(d, n)
    /\ d' = Disable(d, n)
    /\ UNCHANGED <<now, pinned, wire, answer, run, disk>>

\* Issue for a fresh identity, then RegisterFrom, then 201.
Enrolled(e, n) ==
    /\ e \in wire /\ RegisterOK(d, run[e].token, n, now)
    /\ d' = Register(d, run[e].token, n)
    /\ pinned' = [pinned EXCEPT ![n] = e]
    /\ wire' = wire \ {e}
    /\ answer' = [answer EXCEPT ![e] = n]
    /\ UNCHANGED <<now, run, disk>>

\* The rate limit, the issuer or the registry.
Refused(e) ==
    /\ e \in wire
    /\ wire' = wire \ {e}
    /\ answer' = [answer EXCEPT ![e] = "refused"]
    /\ UNCHANGED <<now, d, pinned, run, disk>>

Lose(e) ==
    /\ e \in wire
    /\ wire' = wire \ {e}
    /\ UNCHANGED <<now, d, pinned, answer, run, disk>>

-----------------------------------------------------------------------------
(* Enroll.                                                                 *)

Client == UNCHANGED <<now, d, pinned>>

At(e, pc) == run[e].pc = pc
Goto(e, pc) == run' = [run EXCEPT ![e].pc = pc]

Start(e, k) ==
    /\ At(e, "none") /\ d.tokens[k].state # "none"
    /\ run' = [run EXCEPT ![e] = [pc |-> "made", token |-> k, node |-> "none"]]
    /\ disk' = [disk EXCEPT ![e].made = <<"dir">>]
    /\ Client /\ UNCHANGED <<wire, answer>>

\* writeNew, and where the run is when that succeeds; an error leaves a file
\* that is not whole.
WriteNew(e, file, pc) ==
    /\ \/ /\ disk' = [disk EXCEPT ![e].made = Append(@, file), ![e].whole = @ \cup {file}]
          /\ Goto(e, pc)
       \/ /\ disk' = [disk EXCEPT ![e].made = Append(@, file)]
          /\ Goto(e, "failed")
    /\ Client /\ UNCHANGED <<wire, answer>>

\* syncDir, for the first time of the directory and of its parent.
Sync(e, pc) ==
    /\ \/ /\ disk' = [disk EXCEPT ![e].safe = Len(disk[e].made)]
          /\ Goto(e, pc)
       \/ Goto(e, "failed") /\ UNCHANGED disk
    /\ Client /\ UNCHANGED <<wire, answer>>

WriteKey(e) == At(e, "made") /\ WriteNew(e, "key", "keyed")

SyncKey(e) == At(e, "keyed") /\ Sync(e, "synced")

Send(e) ==
    /\ At(e, "synced")
    /\ wire' = wire \cup {e}
    /\ Goto(e, "waiting")
    /\ Client /\ UNCHANGED <<answer, disk>>

Rejected(e) ==
    /\ At(e, "waiting") /\ answer[e] = "refused"
    /\ Goto(e, "rejected")
    /\ Client /\ UNCHANGED <<wire, answer, disk>>

\* The answer is read and its certificate verified.
Receive(e) ==
    /\ At(e, "waiting") /\ answer[e] \in Nodes
    /\ run' = [run EXCEPT ![e].pc = "answered", ![e].node = answer[e]]
    /\ Client /\ UNCHANGED <<wire, answer, disk>>

\* The connection is lost, it takes too long, or the answer is not good.
GiveUp(e) ==
    /\ At(e, "waiting") /\ Goto(e, "failed")
    /\ Client /\ UNCHANGED <<wire, answer, disk>>

WriteCert(e) == At(e, "answered") /\ WriteNew(e, "cert", "certified")

WriteIdentity(e) == At(e, "certified") /\ WriteNew(e, "identity", "marked")

\* Faulty: the end of the run does not wait for the directory.
NoSyncEnd(e) ==
    /\ At(e, "marked") /\ Goto(e, "ok")
    /\ Client /\ UNCHANGED <<wire, answer, disk>>

SyncEnd(e) == At(e, "marked") /\ Sync(e, "ok")

Kill(e) ==
    /\ run[e].pc \in Running
    /\ Goto(e, "failed")
    /\ Client /\ UNCHANGED <<wire, answer, disk>>

\* All machines of the model at once: what was not synced may be gone.
PowerLoss ==
    /\ \E kept \in [Dirs -> 0 .. 4] :
          /\ \A e \in Dirs : disk[e].safe <= kept[e] /\ kept[e] <= Len(disk[e].made)
          /\ disk' = [e \in Dirs |->
                [made |-> SubSeq(disk[e].made, 1, kept[e]), safe |-> kept[e],
                 whole |-> {f \in disk[e].whole :
                               \E i \in 1 .. kept[e] : disk[e].made[i] = f}]]
    /\ run' = [e \in Dirs |->
          IF run[e].pc \in Running THEN [run[e] EXCEPT !.pc = "failed"] ELSE run[e]]
    /\ Client /\ UNCHANGED <<wire, answer>>

Enroll(e) ==
    \/ WriteKey(e) \/ SyncKey(e) \/ Send(e) \/ Rejected(e) \/ Receive(e)
    \/ GiveUp(e) \/ WriteCert(e) \/ WriteIdentity(e) \/ SyncEnd(e) \/ Kill(e)

Tick == now < MaxTime /\ now' = now + 1 /\ UNCHANGED <<d, pinned, wire, answer, run, disk>>

Next ==
    \/ Tick \/ PowerLoss
    \/ \E k \in Tokens, ttl \in TTLs : NewToken(k, ttl)
    \/ \E n \in Nodes : DisableNode(n)
    \/ \E e \in Dirs : Enroll(e) \/ Refused(e) \/ Lose(e)
    \/ \E e \in Dirs, n \in Nodes : Enrolled(e, n)
    \/ \E e \in Dirs, k \in Tokens : Start(e, k)

Spec == Init /\ [][Next]_vars

-----------------------------------------------------------------------------
(* Properties.                                                             *)

TypeOK ==
    /\ now \in 1 .. MaxTime
    /\ d.nodes \in [Nodes -> NodeRow] /\ d.tokens \in [Tokens -> TokenRow]
    /\ pinned \in [Nodes -> Dirs \cup {NoDir}]
    /\ wire \subseteq Dirs /\ answer \in [Dirs -> Answer]
    /\ run \in [Dirs -> Run] /\ disk \in [Dirs -> Disk]

\* Present with all its content.
Has(e, file) == file \in disk[e].whole

(***************************************************************************)
(* The key of a node is durable on the probe before the server knows the   *)
(* node, so that no crash leaves a registered certificate whose key is     *)
(* nowhere.                                                                *)
(***************************************************************************)
KeyBeforeNode ==
    \A n \in Nodes : pinned[n] # NoDir =>
        Has(pinned[n], "key") /\ 2 <= disk[pinned[n]].safe

(***************************************************************************)
(* identity.json, the completion marker, is never there without the key    *)
(* and the certificate, nor without a node on the server that is pinned to *)
(* this very key.                                                          *)
(***************************************************************************)
MarkerComplete ==
    \A e \in Dirs : Has(e, "identity") =>
        Has(e, "key") /\ Has(e, "cert") /\ \E n \in Nodes : pinned[n] = e

(***************************************************************************)
(* What Enroll tells the operator is so: success means that the identity   *)
(* will be there after a power loss; a rejection by the server means that  *)
(* it made no node for this key, then or later.                            *)
(***************************************************************************)
ReportTrue ==
    \A e \in Dirs :
        /\ run[e].pc = "ok" => disk[e].safe = 4 /\ disk[e].whole = Files
        /\ run[e].pc = "rejected" => e \notin wire /\ \A n \in Nodes : pinned[n] # e

(***************************************************************************)
(* A token makes one identity, and one directory one node, however often   *)
(* and wherever the token is presented.                                    *)
(***************************************************************************)
OneIdentityEach ==
    \A n, m \in Nodes : n # m /\ pinned[n] # NoDir /\ pinned[m] # NoDir =>
        /\ pinned[n] # pinned[m]
        /\ run[pinned[n]].token # run[pinned[m]].token

-----------------------------------------------------------------------------
(* Why it holds: the inductive invariant.                                  *)

Full == <<"dir", "key", "cert", "identity">>

\* A directory has the entries in this order, and a file is whole only after
\* the one before it.
Laid(k) ==
    /\ Len(k.made) <= 4 /\ k.safe <= Len(k.made)
    /\ \A i \in 1 .. Len(k.made) : k.made[i] = Full[i]
    /\ \A f \in k.whole : \E i \in 1 .. Len(k.made) : k.made[i] = f
    /\ "cert" \in k.whole => "key" \in k.whole
    /\ "identity" \in k.whole => "cert" \in k.whole

\* What there is where the run is: the entries, the whole files, the durable ones.
Depth(pc) ==
    CASE pc = "none" -> 0 [] pc = "made" -> 1 [] pc = "certified" -> 3
      [] pc \in {"marked", "ok"} -> 4 [] OTHER -> 2

Whole(pc) ==
    CASE pc \in {"none", "made"} -> {} [] pc = "certified" -> {"key", "cert"}
      [] pc \in {"marked", "ok"} -> Files [] OTHER -> {"key"}

Safe(pc) ==
    CASE pc \in {"none", "made", "keyed"} -> 0 [] pc = "ok" -> 4 [] OTHER -> 2

Reached(k, pc) ==
    pc # "failed" => /\ Len(k.made) = Depth(pc) /\ k.whole = Whole(pc)
                     /\ k.safe = Safe(pc)

Kept == \A e \in Dirs : Laid(disk[e]) /\ Reached(disk[e], run[e].pc)

KeyKept(e) == Has(e, "key") /\ 2 <= disk[e].safe

Unknown(e) == \A n \in Nodes : pinned[n] # e

\* A request that was not sent, is under way, was refused, or was granted.
Unsent ==
    \A e \in Dirs :
        /\ run[e].pc # "none" => run[e].token \in Tokens
        /\ run[e].pc \in {"none", "made", "keyed", "synced"} =>
              e \notin wire /\ answer[e] = "none" /\ Unknown(e)

UnderWay ==
    \A e \in wire : /\ answer[e] = "none" /\ Unknown(e) /\ KeyKept(e)
                    /\ run[e].pc # "none"

Declined ==
    \A e \in Dirs : /\ answer[e] = "refused" => Unknown(e)
                    /\ run[e].pc = "rejected" => answer[e] = "refused"

Granted ==
    \A e \in Dirs :
        /\ answer[e] \in Nodes => pinned[answer[e]] = e
        /\ run[e].pc \in {"answered", "certified", "marked", "ok"}
              \/ Has(e, "identity") => ~Unknown(e)

\* The server's side: a registered node has used up the token of its run.
Registered ==
    \A n \in Nodes : pinned[n] # NoDir =>
        /\ d.nodes[n].state # "none"
        /\ run[pinned[n]].pc # "none"
        /\ d.tokens[run[pinned[n]].token].state # "pending"

\* The tables of d.
Tables(b) ==
    b = [nodes |-> b.nodes, tokens |-> b.tokens, tasks |-> b.tasks, key |-> b.key,
         trust |-> b.trust, paused |-> b.paused, seq |-> b.seq, reserved |-> b.reserved]

EnrollmentInv ==
    /\ TypeOK /\ Tables(d) /\ Kept /\ Unsent /\ UnderWay /\ Declined /\ Granted
    /\ Registered /\ KeyBeforeNode /\ OneIdentityEach
=============================================================================
