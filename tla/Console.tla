------------------------------ MODULE Console ------------------------------
(***************************************************************************)
(* The administrator client: runs of cmd/cli that share one session        *)
(* directory, the session file in it (internal/adminclient/session.go) and *)
(* the sessions of the server.  Two runs may overlap; a run may be killed  *)
(* between any two steps, and its requests and their answers may be lost.  *)
(*                                                                         *)
(* A session stands for its token, and for the file its login makes: a run *)
(* writes the file it opened, but removes whatever has the name.  The runs *)
(* use the server and the CA file that the session file names.  Requests   *)
(* that only read, or change something else than sessions, load the file   *)
(* and leave it alone.  The server's side of sessions is in module         *)
(* Accounts; here they end at any time, by expiry or by another client.    *)
(***************************************************************************)
EXTENDS Integers

CONSTANTS
    Procs,       \* runs of the client that may overlap
    Sessions,    \* sessions that the server may make
    NoSession

ConsoleAssumption ==
    NoSession \notin Sessions

VARIABLES
    file,      \* whose file session.bin is: each login makes one of its own
    written,   \* the sessions whose file was complete, and could be loaded
    live,      \* the sessions that the server accepts
    made,      \* the sessions it ever made
    proc,      \* the runs
    kept,      \* history: sessions whose login reported success
    lost       \* history: sessions whose file was removed by a forget, or by
               \* a run whose own file somebody had taken away

vars == <<file, written, live, made, proc, kept, lost>>

\* clean: since the run loaded the session, or made its file, nobody ran
\* forget, and no other run removed that file.
Proc == [pc : {"idle", "login", "granted", "given", "writing", "syncing",
               "cleanup", "logout", "ended", "revoked"},
         ses : Sessions \cup {NoSession}, clean : BOOLEAN]

Idle == [pc |-> "idle", ses |-> NoSession, clean |-> TRUE]

Init ==
    /\ file = NoSession /\ written = {} /\ live = {} /\ made = {} /\ kept = {} /\ lost = {}
    /\ proc = [p \in Procs |-> Idle]

At(p, pc) == proc[p].pc = pc
Goto(p, pc) == proc' = [proc EXCEPT ![p].pc = pc]
Stop(p) == proc' = [proc EXCEPT ![p] = Idle]

-----------------------------------------------------------------------------
(* login                                                                   *)

\* PrepareSession, the password, the request.
Login(p) ==
    /\ At(p, "idle") /\ file = NoSession
    /\ Goto(p, "login")
    /\ UNCHANGED <<file, written, live, made, kept, lost>>

Granted(p, s) ==
    /\ At(p, "login") /\ s \notin made
    /\ made' = made \cup {s} /\ live' = live \cup {s}
    /\ proc' = [proc EXCEPT ![p].pc = "granted", ![p].ses = s]
    /\ UNCHANGED <<file, written, kept, lost>>

Given(p) ==
    /\ At(p, "granted") /\ Goto(p, "given")
    /\ UNCHANGED <<file, written, live, made, kept, lost>>

\* Faulty: removes a file that is in the way.
ReplaceSession(p) ==
    /\ At(p, "given")
    /\ file' = proc[p].ses
    /\ proc' = [proc EXCEPT ![p].pc = "writing", ![p].clean = TRUE]
    /\ UNCHANGED <<written, live, made, kept, lost>>

\* SaveSession creates the file, which must not exist, ...
CreateSession(p) ==
    /\ At(p, "given")
    /\ IF file = NoSession
       THEN /\ file' = proc[p].ses
            /\ proc' = [proc EXCEPT ![p].pc = "writing", ![p].clean = TRUE]
       ELSE Goto(p, "cleanup") /\ UNCHANGED file
    /\ UNCHANGED <<written, live, made, kept, lost>>

\* A run whose file is gone removes, by its name, a file that is not its own,
\* which then is a forget for the others.
Unclean == [p \in Procs |-> [proc[p] EXCEPT !.clean = FALSE]]

\* The file of p is gone for the other runs that count on it, too.
UncleanWith(p) ==
    [q \in Procs |-> [proc[q] EXCEPT !.clean = @ /\ proc[q].ses # proc[p].ses]]

\* Removes session.bin, whosever it is now, and ends with p as given.
Remove(p, end) ==
    /\ file' = NoSession
    /\ IF proc[p].clean
       THEN proc' = [UncleanWith(p) EXCEPT ![p] = end] /\ UNCHANGED lost
       ELSE /\ proc' = [Unclean EXCEPT ![p] = end]
            /\ lost' = lost \cup ({file} \cap Sessions)

\* Write, Sync or Close fails: the deferred Remove of the name.
FailToSave(p) ==
    /\ Remove(p, [proc[p] EXCEPT !.pc = "cleanup"])
    /\ UNCHANGED <<written, live, made, kept>>

\* ... writes it, whereupon any run may load it, ...
WriteFile(p) ==
    /\ At(p, "writing")
    /\ \/ /\ written' = written \cup {proc[p].ses}
          /\ Goto(p, "syncing")
          /\ UNCHANGED <<file, live, made, kept, lost>>
       \/ FailToSave(p)

\* ... and syncs and closes it; only then the login has succeeded.
SyncFile(p) ==
    /\ At(p, "syncing")
    /\ \/ /\ kept' = kept \cup {proc[p].ses}
          /\ Stop(p)
          /\ UNCHANGED <<file, written, live, made, lost>>
       \/ FailToSave(p)

\* Then the server is asked to end the session, once.
Cleanup(p) ==
    /\ At(p, "cleanup")
    /\ live' = live \ {proc[p].ses}
    /\ Stop(p)
    /\ UNCHANGED <<file, written, made, kept, lost>>

-----------------------------------------------------------------------------
(* logout, revoke, forget                                                  *)

\* LoadSession takes any complete file, also of a login that still runs; and
\* the request.
Logout(p) ==
    /\ At(p, "idle") /\ file \in written
    /\ proc' = [proc EXCEPT ![p] = [pc |-> "logout", ses |-> file, clean |-> TRUE]]
    /\ UNCHANGED <<file, written, live, made, kept, lost>>

\* The server ends the session, for revoke all of the account.
Ended(p) ==
    /\ At(p, "logout") /\ proc[p].ses \in live
    /\ \/ live' = live \ {proc[p].ses}
       \/ live' = {}
    /\ Goto(p, "ended")
    /\ UNCHANGED <<file, written, made, kept, lost>>

Revoked(p) ==
    /\ At(p, "ended") /\ Goto(p, "revoked")
    /\ UNCHANGED <<file, written, live, made, kept, lost>>

\* ForgetSession, as the end of a logout: whatever file is there.
RemoveAfter(p) ==
    /\ At(p, "revoked")
    /\ Remove(p, Idle)
    /\ UNCHANGED <<written, live, made, kept>>

\* forget
Forget ==
    /\ file # NoSession /\ file' = NoSession
    /\ lost' = lost \cup ({file} \cap Sessions)
    /\ proc' = Unclean
    /\ UNCHANGED <<written, live, made, kept>>

\* A request that fails, an answer that does not come or is a refusal, or the
\* end of the process.
Fail(p) ==
    /\ ~At(p, "idle")
    /\ Stop(p)
    /\ UNCHANGED <<file, written, live, made, kept, lost>>

Expire(s) ==
    /\ s \in live /\ live' = live \ {s}
    /\ UNCHANGED <<file, written, made, proc, kept, lost>>

Next ==
    \/ Forget
    \/ \E s \in Sessions : Expire(s)
    \/ \E p \in Procs :
          \/ Login(p) \/ Given(p) \/ CreateSession(p)
          \/ WriteFile(p) \/ SyncFile(p) \/ Cleanup(p) \/ Logout(p)
          \/ Ended(p) \/ Revoked(p) \/ RemoveAfter(p) \/ Fail(p)
          \/ \E s \in Sessions : Granted(p, s)

Spec == Init /\ [][Next]_vars

-----------------------------------------------------------------------------
(* Properties.                                                             *)

TypeOK ==
    /\ file \in made \cup {NoSession} /\ written \subseteq made
    /\ live \subseteq made /\ made \subseteq Sessions
    /\ kept \subseteq made /\ lost \subseteq made
    /\ proc \in [Procs -> Proc]

(***************************************************************************)
(* A session that a login reported stays at hand: as long as the server    *)
(* accepts it, it is complete in the session file, whatever other runs do, *)
(* fail to do or leave behind, but for two limits that removing by name    *)
(* has.  The operator removed the file with forget, or ran forget while    *)
(* another run was about to remove a file of that name.  Or the file of a  *)
(* login that was still to sync it was loaded by another run already, one  *)
(* of the two removed it (the sync failed, or the other was a logout), a   *)
(* later login made a file of that name, and the other of the two then     *)
(* removed this one.                                                       *)
(***************************************************************************)
KeptAtHand == \A s \in kept \cap live : s \notin lost => file = s /\ s \in written

-----------------------------------------------------------------------------
(* Why it holds: the inductive invariant.                                  *)

\* The runs of a login that has a session, and no session of another's.
Entering(p) == proc[p].pc \in {"granted", "given", "writing", "syncing"}
Making(p) == proc[p].pc \in {"writing", "syncing"}

\* Until a login has reported its session no other has it, and until the login
\* has written the file nobody loads it.
OwnSession ==
    \A p \in Procs : Entering(p) =>
        /\ proc[p].ses \in made \ kept
        /\ proc[p].ses \in written <=> At(p, "syncing")
        /\ \A q \in Procs \ {p} : Entering(q) => proc[q].ses # proc[p].ses

\* The file that a login made is there, unless somebody took it away.
OwnFile ==
    \A p \in Procs : Making(p) =>
        /\ proc[p].clean => file = proc[p].ses
        /\ \/ file = proc[p].ses
           \/ proc[p].ses \in lost
           \/ proc[p].ses \notin live

\* A session is loaded from a complete file, which is there while the session
\* lives, and still there for the run that has ended it.
Leaving(p) == proc[p].pc \in {"ended", "revoked"}

LoadedSession ==
    \A p \in Procs :
        /\ At(p, "logout") \/ Leaving(p) => proc[p].ses \in written
        /\ At(p, "logout") /\ proc[p].clean /\ proc[p].ses \in live =>
              file = proc[p].ses
        /\ Leaving(p) => /\ proc[p].ses \notin live
                         /\ proc[p].clean => file = proc[p].ses
                         /\ \A q \in Procs \ {p} : Leaving(q) =>
                               proc[q].ses # proc[p].ses

ConsoleInv == TypeOK /\ OwnSession /\ OwnFile /\ LoadedSession /\ KeptAtHand
=============================================================================
