---------------------------- MODULE PartsProofs -----------------------------
(***************************************************************************)
(* Parts of the system that share no state, proved one by one for all      *)
(* values of their constants.                                              *)
(***************************************************************************)
EXTENDS Parts, SequenceTheorems, FiniteSetTheorems, TLAPS

\* A behaviour is about one part.
LEMMA OnePart == [Next]_vars => part' = part
  BY DEF Next, vars, Rotate, Enroll, Administer, Admit, Beat,
         AuditFiles, Read, CheckFrame, Query

-----------------------------------------------------------------------------
(* The administrator client.  The proof is about the rows of its runs, x5, *)
(* and what each step does to the run p and to the others.                 *)

\* One run changes.
LEMMA RunPut ==
    ASSUME C!TypeOK, NEW p \in Runs, NEW row \in C!Proc, x5' = [x5 EXCEPT ![p] = row]
    PROVE  /\ x5' \in [Runs -> C!Proc] /\ x5'[p] = row
           /\ \A q \in Runs : q # p => x5'[q] = x5[q]
  BY DEF C!TypeOK

\* A run stops, or goes on with the session it has.
LEMMA RunSteps ==
    ASSUME C!TypeOK, NEW p \in Runs
    PROVE  /\ C!Stop(p) => /\ x5' \in [Runs -> C!Proc]
                           /\ x5'[p].pc = "idle"
                           /\ \A q \in Runs : q # p => x5'[q] = x5[q]
           /\ \A l \in {"login", "given", "syncing", "cleanup", "ended", "revoked"} :
                 C!Goto(p, l) =>
                    /\ x5' \in [Runs -> C!Proc] /\ x5'[p].pc = l
                    /\ x5'[p].ses = x5[p].ses /\ x5'[p].clean = x5[p].clean
                    /\ \A q \in Runs : q # p => x5'[q] = x5[q]
  <1>1. x5 \in [Runs -> C!Proc] /\ x5[p] \in C!Proc
    BY DEF C!TypeOK
  <1>2. C!Idle \in C!Proc /\ C!Idle.pc = "idle"
    BY DEF C!Idle, C!Proc
  <1>3. ASSUME C!Stop(p)
        PROVE  /\ x5' \in [Runs -> C!Proc] /\ x5'[p] = C!Idle
               /\ \A q \in Runs : q # p => x5'[q] = x5[q]
    BY <1>2, <1>3, RunPut DEF C!Stop
  <1>4. ASSUME NEW l \in {"login", "given", "syncing", "cleanup", "ended", "revoked"}, C!Goto(p, l)
        PROVE  /\ x5' \in [Runs -> C!Proc] /\ x5'[p].pc = l
               /\ x5'[p].ses = x5[p].ses /\ x5'[p].clean = x5[p].clean
               /\ \A q \in Runs : q # p => x5'[q] = x5[q]
    <2> DEFINE row == [x5[p] EXCEPT !.pc = l]
    <2>1. /\ row \in C!Proc /\ row.pc = l /\ row.ses = x5[p].ses
          /\ row.clean = x5[p].clean
      BY <1>1 DEF C!Proc
    <2>2. x5' = [x5 EXCEPT ![p] = row]
      BY <1>1, <1>4 DEF C!Goto
    <2> HIDE DEF row
    <2> QED
      BY <2>1, <2>2, RunPut
  <1> QED
    BY <1>2, <1>3, <1>4

\* A run goes on or ends, and files stay as they are.
LEMMA RunMoves ==
    ASSUME C!ConsoleInv, NEW p \in Runs, UNCHANGED <<x1, x2, x4, x6, x7>>,
           x3' \subseteq x3, x5' \in [Runs -> C!Proc],
           \A q \in Runs : q # p => x5'[q] = x5[q],
           x5'[p].pc \in {"idle", "login", "given", "cleanup", "ended", "revoked"},
           x5'[p].pc = "given" => C!At(p, "granted") /\ x5'[p].ses = x5[p].ses,
           C!Leaving(p)' => /\ x5'[p].ses = x5[p].ses /\ x5'[p].clean = x5[p].clean
                            /\ \/ C!Leaving(p)
                               \/ /\ C!At(p, "logout") /\ x5[p].ses \in x3
                                  /\ x5[p].ses \notin x3'
    PROVE  C!ConsoleInv'
  <1> USE DEF C!ConsoleInv
  <1>1. C!TypeOK'
    BY DEF C!TypeOK
  <1>2. \A q \in Runs : /\ C!Entering(q)' => C!Entering(q) /\ x5'[q].ses = x5[q].ses
                        /\ q = p => ~C!Making(q)' /\ ~C!At(q, "logout")'
                        /\ C!Entering(q)' => C!At(q, "syncing")' = C!At(q, "syncing")
                        /\ q # p => C!Making(q)' = C!Making(q)
    BY DEF C!Entering, C!Making, C!At
  <1>3. C!OwnSession'
    BY <1>2 DEF C!OwnSession
  <1>4. C!OwnFile'
    BY <1>2 DEF C!OwnFile
  <1>5. C!LoadedSession'
    <2> SUFFICES ASSUME NEW q \in Runs
                 PROVE  /\ C!At(q, "logout")' \/ C!Leaving(q)' => x5'[q].ses \in x2
                        /\ C!At(q, "logout")' /\ x5'[q].clean /\ x5'[q].ses \in x3' =>
                              x1 = x5'[q].ses
                        /\ C!Leaving(q)' =>
                              /\ x5'[q].ses \notin x3'
                              /\ x5'[q].clean => x1 = x5'[q].ses
                              /\ \A r \in Runs \ {q} : C!Leaving(r)' =>
                                    x5'[r].ses # x5'[q].ses
      BY DEF C!LoadedSession
    <2>1. CASE q # p
      BY <2>1 DEF C!LoadedSession, C!At, C!Leaving
    <2>2. CASE q = p
      BY <1>2, <2>2 DEF C!LoadedSession, C!At, C!Leaving
    <2> QED
      BY <2>1, <2>2
  <1>6. C!KeptAtHand'
    BY DEF C!KeptAtHand
  <1> QED
    BY <1>1, <1>3, <1>4, <1>5, <1>6

LEMMA LoginStep ==
    ASSUME C!ConsoleInv, NEW p \in Runs, C!Login(p) PROVE C!ConsoleInv'
  <1>1. /\ UNCHANGED <<x1, x2, x3, x4, x6, x7>> /\ C!Goto(p, "login") /\ C!TypeOK
    BY DEF C!ConsoleInv, C!Login
  <1>2. /\ x5' \in [Runs -> C!Proc] /\ x5'[p].pc = "login"
        /\ \A q \in Runs : q # p => x5'[q] = x5[q]
    BY <1>1, RunSteps
  <1> QED
    BY <1>1, <1>2, RunMoves DEF C!Leaving

LEMMA GivenStep ==
    ASSUME C!ConsoleInv, NEW p \in Runs, C!Given(p) PROVE C!ConsoleInv'
  <1>1. /\ UNCHANGED <<x1, x2, x3, x4, x6, x7>> /\ C!Goto(p, "given") /\ C!TypeOK
        /\ C!At(p, "granted")
    BY DEF C!ConsoleInv, C!Given
  <1>2. /\ x5' \in [Runs -> C!Proc] /\ x5'[p].pc = "given" /\ x5'[p].ses = x5[p].ses
        /\ \A q \in Runs : q # p => x5'[q] = x5[q]
    BY <1>1, RunSteps
  <1> QED
    BY <1>1, <1>2, RunMoves DEF C!Leaving

\* A run stops, and the server may end sessions.
LEMMA StopStep ==
    ASSUME C!ConsoleInv, NEW p \in Runs, C!Stop(p), x3' \subseteq x3,
           UNCHANGED <<x1, x2, x4, x6, x7>>
    PROVE  C!ConsoleInv'
  <1>1. /\ x5' \in [Runs -> C!Proc] /\ x5'[p].pc = "idle"
        /\ \A q \in Runs : q # p => x5'[q] = x5[q]
    BY RunSteps DEF C!ConsoleInv
  <1> QED
    BY <1>1, RunMoves DEF C!Leaving

LEMMA EndedStep ==
    ASSUME C!ConsoleInv, NEW p \in Runs, C!Ended(p) PROVE C!ConsoleInv'
  <1>1. /\ UNCHANGED <<x1, x2, x4, x6, x7>> /\ C!Goto(p, "ended") /\ C!TypeOK
        /\ C!At(p, "logout") /\ x5[p].ses \in x3 /\ x5[p].ses \notin x3'
        /\ x3' \subseteq x3
    BY DEF C!ConsoleInv, C!Ended
  <1>2. /\ x5' \in [Runs -> C!Proc] /\ x5'[p].pc = "ended" /\ x5'[p].ses = x5[p].ses
        /\ x5'[p].clean = x5[p].clean
        /\ \A q \in Runs : q # p => x5'[q] = x5[q]
    BY <1>1, RunSteps
  <1> QED
    BY <1>1, <1>2, RunMoves

LEMMA RevokedStep ==
    ASSUME C!ConsoleInv, NEW p \in Runs, C!Revoked(p) PROVE C!ConsoleInv'
  <1>1. /\ UNCHANGED <<x1, x2, x3, x4, x6, x7>> /\ C!Goto(p, "revoked") /\ C!TypeOK
        /\ C!Leaving(p)
    BY DEF C!ConsoleInv, C!Revoked, C!At, C!Leaving
  <1>2. /\ x5' \in [Runs -> C!Proc] /\ x5'[p].pc = "revoked" /\ x5'[p].ses = x5[p].ses
        /\ x5'[p].clean = x5[p].clean
        /\ \A q \in Runs : q # p => x5'[q] = x5[q]
    BY <1>1, RunSteps
  <1> QED
    BY <1>1, <1>2, RunMoves

LEMMA ExpireStep ==
    ASSUME C!ConsoleInv, NEW s \in Sessions, C!Expire(s) PROVE C!ConsoleInv'
  <1> USE DEF C!ConsoleInv
  <1>1. UNCHANGED <<x1, x2, x4, x5, x6, x7>> /\ x3' \subseteq x3
    BY DEF C!Expire
  <1>2. C!TypeOK'
    BY <1>1 DEF C!TypeOK
  <1>3. C!OwnSession' /\ C!OwnFile'
    BY <1>1 DEF C!OwnSession, C!OwnFile, C!Entering, C!Making, C!At
  <1>4. C!LoadedSession'
    BY <1>1 DEF C!LoadedSession, C!Leaving, C!At
  <1>5. C!KeptAtHand'
    BY <1>1 DEF C!KeptAtHand
  <1> QED
    BY <1>2, <1>3, <1>4, <1>5

LEMMA GrantedStep ==
    ASSUME C!ConsoleInv, NEW p \in Runs, NEW s \in Sessions, C!Granted(p, s)
    PROVE  C!ConsoleInv'
  <1> USE DEF C!ConsoleInv
  <1> DEFINE row == [x5[p] EXCEPT !.pc = "granted", !.ses = s]
  <1>1. /\ UNCHANGED <<x1, x2, x6, x7>> /\ s \notin x4
        /\ x4' = x4 \cup {s} /\ x3' = x3 \cup {s}
        /\ x5 \in [Runs -> C!Proc] /\ x5[p] \in C!Proc
    BY DEF C!Granted, C!TypeOK
  <1>2. row \in C!Proc /\ row.pc = "granted" /\ row.ses = s
    BY <1>1 DEF C!Proc
  <1>3. x5' = [x5 EXCEPT ![p] = row]
    BY <1>1 DEF C!Granted, C!Proc
  <1> HIDE DEF row
  <1>4. /\ x5' \in [Runs -> C!Proc] /\ x5'[p] = row
        /\ \A q \in Runs : q # p => x5'[q] = x5[q]
    BY <1>2, <1>3, RunPut
  <1>5. C!TypeOK'
    BY <1>1, <1>4 DEF C!TypeOK
  <1>6. C!OwnSession'
    <2>1. \A q \in Runs : C!Entering(q) => x5[q].ses # s
      BY <1>1 DEF C!OwnSession
    <2>2. s \notin x2 \cup x6
      BY <1>1 DEF C!TypeOK
    <2> QED
      BY <1>1, <1>2, <1>4, <2>1, <2>2 DEF C!OwnSession, C!Entering, C!At
  <1>7. C!OwnFile'
    <2>1. \A q \in Runs : C!Making(q)' => /\ q # p /\ C!Making(q) /\ x5[q].ses # s
                                        /\ x5'[q] = x5[q]
      BY <1>1, <1>2, <1>4 DEF C!Making, C!OwnSession, C!Entering
    <2> QED
      BY <1>1, <2>1 DEF C!OwnFile
  <1>8. C!LoadedSession'
    <2>1. s \notin x2
      BY <1>1 DEF C!TypeOK
    <2> QED
      BY <1>1, <1>2, <1>4, <2>1 DEF C!LoadedSession, C!At, C!Leaving
  <1>9. C!KeptAtHand'
    <2>1. s \notin x6
      BY <1>1 DEF C!TypeOK
    <2> QED
      BY <1>1, <2>1 DEF C!KeptAtHand
  <1> QED
    BY <1>5, <1>6, <1>7, <1>8, <1>9

LEMMA CreateStep ==
    ASSUME C!ConsoleInv, NEW p \in Runs, C!CreateSession(p) PROVE C!ConsoleInv'
  <1> USE DEF C!ConsoleInv
  <1>1. CASE x1 # None
    <2>1. UNCHANGED <<x1, x2, x3, x4, x6, x7>> /\ C!Goto(p, "cleanup") /\ C!TypeOK
      BY <1>1 DEF C!CreateSession
    <2>2. /\ x5' \in [Runs -> C!Proc] /\ x5'[p].pc = "cleanup"
          /\ \A q \in Runs : q # p => x5'[q] = x5[q]
      BY <2>1, RunSteps
    <2> QED
      BY <2>1, <2>2, RunMoves DEF C!Leaving
  <1>2. CASE x1 = None
    <2> DEFINE row == [x5[p] EXCEPT !.pc = "writing", !.clean = TRUE]
    <2>1. /\ UNCHANGED <<x2, x3, x4, x6, x7>> /\ x1' = x5[p].ses
          /\ x5[p] \in C!Proc /\ C!Entering(p) /\ C!At(p, "given")
      BY <1>2 DEF C!CreateSession, C!TypeOK, C!Entering, C!At
    <2>2. row \in C!Proc /\ row.pc = "writing" /\ row.ses = x5[p].ses
      BY <2>1 DEF C!Proc
    <2>3. x5' = [x5 EXCEPT ![p] = row]
      BY <1>2, <2>1 DEF C!CreateSession, C!TypeOK, C!Proc
    <2> HIDE DEF row
    <2>4. /\ x5' \in [Runs -> C!Proc] /\ x5'[p] = row
          /\ \A q \in Runs : q # p => x5'[q] = x5[q]
      BY <2>2, <2>3, RunPut
    <2>5. None \notin x4 /\ x5[p].ses \in x4 \ (x2 \cup x6)
      BY <2>1, PartsAssumption DEF C!ConsoleAssumption, C!TypeOK, C!OwnSession, C!At
    <2>6. C!TypeOK'
      BY <2>1, <2>4, <2>5 DEF C!TypeOK
    <2>7. \A q \in Runs : /\ C!Entering(q)' = C!Entering(q)
                          /\ x5'[q].ses = x5[q].ses
                          /\ q # p => x5'[q] = x5[q]
                          /\ C!At(q, "syncing")' = C!At(q, "syncing")
      BY <2>1, <2>2, <2>4 DEF C!Entering, C!At
    <2>8. C!OwnSession'
      BY <2>1, <2>7 DEF C!OwnSession
    <2>9. C!OwnFile'
      <3> SUFFICES ASSUME NEW q \in Runs, C!Making(q)'
                   PROVE  /\ x5'[q].clean => x1' = x5'[q].ses
                          /\ \/ x1' = x5'[q].ses
                             \/ x5'[q].ses \in x7
                             \/ x5'[q].ses \notin x3
        BY <2>1 DEF C!OwnFile
      <3>1. CASE q = p
        BY <2>1, <2>7, <3>1
      <3>2. CASE q # p
        <4>1. C!Making(q) /\ C!Entering(q) /\ x5'[q] = x5[q]
          BY <2>4, <3>2 DEF C!Making, C!Entering
        <4>2. x5[q].ses # x1
          BY <1>2, <2>5, <4>1 DEF C!OwnSession
        <4> QED
          BY <4>1, <4>2 DEF C!OwnFile
      <3> QED
        BY <3>1, <3>2
    <2>10. C!LoadedSession'
      <3>1. \A q \in Runs : /\ C!At(q, "logout")' => q # p /\ C!At(q, "logout")
                            /\ C!Leaving(q)' => q # p /\ C!Leaving(q)
        BY <2>2, <2>4 DEF C!At, C!Leaving
      <3>2. \A q \in Runs : C!At(q, "logout") \/ C!Leaving(q) => x5[q].ses # x1
        BY <1>2, <2>5 DEF C!LoadedSession, C!TypeOK
      <3> QED
        BY <2>1, <2>7, <3>1, <3>2 DEF C!LoadedSession
    <2>11. C!KeptAtHand'
      BY <1>2, <2>1, <2>5 DEF C!KeptAtHand, C!TypeOK
    <2> QED
      BY <2>6, <2>8, <2>9, <2>10, <2>11
  <1> QED
    BY <1>1, <1>2

LEMMA LogoutStep ==
    ASSUME C!ConsoleInv, NEW p \in Runs, C!Logout(p) PROVE C!ConsoleInv'
  <1> USE DEF C!ConsoleInv
  <1> DEFINE row == [pc |-> "logout", ses |-> x1, clean |-> TRUE]
  <1>1. UNCHANGED <<x1, x2, x3, x4, x6, x7>> /\ x1 \in x2 /\ x1 \in Sessions
    BY DEF C!Logout, C!TypeOK
  <1>2. row \in C!Proc /\ row.pc = "logout" /\ row.ses = x1
    BY <1>1 DEF C!Proc
  <1>3. x5' = [x5 EXCEPT ![p] = row]
    BY DEF C!Logout
  <1> HIDE DEF row
  <1>4. /\ x5' \in [Runs -> C!Proc] /\ x5'[p] = row
        /\ \A q \in Runs : q # p => x5'[q] = x5[q]
    BY <1>2, <1>3, RunPut
  <1>5. C!TypeOK'
    BY <1>1, <1>4 DEF C!TypeOK
  <1>6. \A q \in Runs : /\ C!Entering(q)' => q # p /\ C!Entering(q)
                        /\ C!Making(q)' => q # p /\ C!Making(q)
                        /\ C!Leaving(q)' => q # p /\ C!Leaving(q)
                        /\ C!At(q, "logout")' => q = p \/ C!At(q, "logout")
                        /\ q # p => C!At(q, "syncing")' = C!At(q, "syncing")
    BY <1>2, <1>4 DEF C!Entering, C!Making, C!At, C!Leaving
  <1>7. C!OwnSession'
    BY <1>1, <1>4, <1>6 DEF C!OwnSession
  <1>8. C!OwnFile'
    BY <1>1, <1>4, <1>6 DEF C!OwnFile
  <1>9. C!LoadedSession'
    BY <1>1, <1>2, <1>4, <1>6 DEF C!LoadedSession
  <1>10. C!KeptAtHand'
    BY <1>1 DEF C!KeptAtHand
  <1> QED
    BY <1>5, <1>7, <1>8, <1>9, <1>10

\* The name is removed by force: who knew of the file no longer counts on it.
LEMMA ForcedStep ==
    ASSUME C!ConsoleInv, UNCHANGED <<x2, x3, x4, x6>>, x1' = None,
           x7' = x7 \cup ({x1} \cap Sessions), x5' \in [Runs -> C!Proc],
           \A q \in Runs : \/ x5'[q].pc \in {"idle", "cleanup"}
                           \/ /\ x5'[q].pc = x5[q].pc /\ x5'[q].ses = x5[q].ses
                              /\ ~x5'[q].clean
    PROVE  C!ConsoleInv'
  <1> USE DEF C!ConsoleInv
  <1>1. x1 \in x4 \cup {None} /\ None \notin Sessions
    BY PartsAssumption DEF C!TypeOK, C!ConsoleAssumption
  <1>2. C!TypeOK'
    BY <1>1 DEF C!TypeOK
  <1>3. \A q \in Runs : /\ C!Entering(q)' => C!Entering(q) /\ x5'[q].ses = x5[q].ses
                        /\ C!Entering(q)' => C!At(q, "syncing")' = C!At(q, "syncing")
                        /\ C!Making(q)' =>
                              /\ C!Making(q) /\ x5'[q].ses = x5[q].ses
                              /\ ~x5'[q].clean
                        /\ C!Leaving(q)' =>
                              /\ C!Leaving(q) /\ x5'[q].ses = x5[q].ses
                              /\ ~x5'[q].clean
                        /\ C!At(q, "logout")' =>
                              /\ C!At(q, "logout") /\ x5'[q].ses = x5[q].ses
                              /\ ~x5'[q].clean
    BY DEF C!Entering, C!Making, C!At, C!Leaving
  <1>4. C!OwnSession'
    BY <1>3 DEF C!OwnSession
  <1>5. C!OwnFile'
    <2>1. \A q \in Runs : C!Making(q) => x5[q].ses \in Sessions
      BY DEF C!OwnSession, C!Entering, C!Making, C!TypeOK
    <2> QED
      BY <1>3, <2>1 DEF C!OwnFile
  <1>6. C!LoadedSession'
    BY <1>3 DEF C!LoadedSession
  <1>7. C!KeptAtHand'
    BY DEF C!KeptAtHand, C!TypeOK
  <1> QED
    BY <1>2, <1>4, <1>5, <1>6, <1>7

LEMMA UncleanRuns ==
    ASSUME C!TypeOK
    PROVE  /\ C!Unclean \in [Runs -> C!Proc]
           /\ \A q \in Runs : /\ C!Unclean[q].pc = x5[q].pc
                              /\ C!Unclean[q].ses = x5[q].ses
                              /\ ~C!Unclean[q].clean
  <1>1. \A q \in Runs : x5[q] \in C!Proc
    BY DEF C!TypeOK
  <1>2. ASSUME NEW q \in Runs
        PROVE  LET row == [x5[q] EXCEPT !.clean = FALSE]
               IN  row \in C!Proc /\ row.pc = x5[q].pc /\ row.ses = x5[q].ses
                   /\ row.clean = FALSE
    BY <1>1 DEF C!Proc
  <1> QED
    BY <1>2 DEF C!Unclean

\* Who relies on the same file as p no longer does; the others still do.
LEMMA UncleanWithRuns ==
    ASSUME C!TypeOK, NEW p \in Runs
    PROVE  /\ C!UncleanWith(p) \in [Runs -> C!Proc]
           /\ \A q \in Runs : /\ C!UncleanWith(p)[q].pc = x5[q].pc
                              /\ C!UncleanWith(p)[q].ses = x5[q].ses
                              /\ C!UncleanWith(p)[q].clean =>
                                    x5[q].clean /\ x5[q].ses # x5[p].ses
  <1>1. \A q \in Runs : x5[q] \in C!Proc
    BY DEF C!TypeOK
  <1>2. ASSUME NEW q \in Runs, NEW b \in BOOLEAN
        PROVE  LET row == [x5[q] EXCEPT !.clean = b]
               IN  row \in C!Proc /\ row.pc = x5[q].pc /\ row.ses = x5[q].ses
                   /\ row.clean = b
    BY <1>1 DEF C!Proc
  <1>3. ASSUME NEW q \in Runs
        PROVE  /\ C!UncleanWith(p)[q] \in C!Proc
               /\ C!UncleanWith(p)[q].pc = x5[q].pc
               /\ C!UncleanWith(p)[q].ses = x5[q].ses
               /\ C!UncleanWith(p)[q].clean => x5[q].clean /\ x5[q].ses # x5[p].ses
    <2> DEFINE b == x5[q].clean /\ x5[q].ses # x5[p].ses
               row == [x5[q] EXCEPT !.clean = b]
    <2>1. C!UncleanWith(p)[q] = row
      BY DEF C!UncleanWith
    <2>2. x5[q].clean \in BOOLEAN
      BY <1>1 DEF C!Proc
    <2>3. b \in BOOLEAN
      BY <2>2
    <2>4. row \in C!Proc /\ row.pc = x5[q].pc /\ row.ses = x5[q].ses /\ row.clean = b
      <3> HIDE DEF b
      <3> QED
        BY <1>2, <2>3
    <2> HIDE DEF row
    <2> QED
      BY <2>1, <2>4
  <1> QED
    BY <1>3 DEF C!UncleanWith

LEMMA ForgetStep ==
    ASSUME C!ConsoleInv, C!Forget PROVE C!ConsoleInv'
  <1>1. C!TypeOK
    BY DEF C!ConsoleInv
  <1> QED
    BY <1>1, UncleanRuns, ForcedStep DEF C!Forget

\* A run removes the name, and stops or goes on to clean up.
LEMMA RemoveStep ==
    ASSUME C!ConsoleInv, NEW p \in Runs, NEW row \in C!Proc,
           row.pc \in {"idle", "cleanup"}, C!Remove(p, row),
           C!Making(p) \/ C!Leaving(p), UNCHANGED <<x2, x3, x4, x6>>
    PROVE  C!ConsoleInv'
  <1> USE DEF C!ConsoleInv
  <1>1. CASE ~x5[p].clean
    <2>1. /\ x1' = None /\ x5' = [C!Unclean EXCEPT ![p] = row]
          /\ x7' = x7 \cup ({x1} \cap Sessions)
      BY <1>1 DEF C!Remove
    <2>2. /\ x5' \in [Runs -> C!Proc] /\ x5'[p] = row
          /\ \A q \in Runs : q # p => x5'[q] = C!Unclean[q]
      BY <2>1, UncleanRuns
    <2> QED
      BY <2>1, <2>2, UncleanRuns, ForcedStep
  <1>2. CASE x5[p].clean
    <2>1. x1' = None /\ x5' = [C!UncleanWith(p) EXCEPT ![p] = row] /\ UNCHANGED x7
      BY <1>2 DEF C!Remove
    <2>2. /\ x5' \in [Runs -> C!Proc] /\ x5'[p] = row
          /\ \A q \in Runs : q # p => x5'[q] = C!UncleanWith(p)[q]
      BY <2>1, UncleanWithRuns
    <2>3. C!TypeOK'
      BY <2>1, <2>2 DEF C!TypeOK
    <2>4. x1 = x5[p].ses
      BY <1>2 DEF C!OwnFile, C!LoadedSession
    \* The others go on, and count on the file only if it is not p's.
    <2>5. \A q \in Runs \ {p} : /\ x5'[q].pc = x5[q].pc /\ x5'[q].ses = x5[q].ses
                                /\ x5'[q].clean => x5[q].clean /\ x5[q].ses # x1
      BY <2>2, <2>4, UncleanWithRuns
    <2>6. \A q \in Runs : /\ C!Entering(q)' => q # p /\ C!Entering(q)
                          /\ C!Making(q)' => q # p /\ C!Making(q)
                          /\ C!Leaving(q)' => q # p /\ C!Leaving(q)
                          /\ C!At(q, "logout")' => q # p /\ C!At(q, "logout")
                          /\ q # p => C!At(q, "syncing")' = C!At(q, "syncing")
      BY <2>2, <2>5 DEF C!Entering, C!Making, C!At, C!Leaving
    <2>7. C!OwnSession'
      BY <2>5, <2>6 DEF C!OwnSession
    \* A login that is still to sync loses its file to a logout only.
    <2>8. \A q \in Runs \ {p} : C!Making(q) => x1 # x5[q].ses \/ x5[q].ses \notin x3
      BY <2>4 DEF C!OwnSession, C!LoadedSession, C!Entering, C!Making
    <2>9. C!OwnFile'
      BY <2>1, <2>5, <2>6, <2>8 DEF C!OwnFile
    <2>10. C!LoadedSession'
      BY <2>1, <2>5, <2>6 DEF C!LoadedSession
    <2>11. x1 \notin x6 \/ x1 \notin x3
      BY <2>4 DEF C!OwnSession, C!LoadedSession, C!Entering, C!Making
    <2>12. C!KeptAtHand'
      BY <2>1, <2>11 DEF C!KeptAtHand
    <2> QED
      BY <2>3, <2>7, <2>9, <2>10, <2>12
  <1> QED
    BY <1>1, <1>2

LEMMA FailToSaveStep ==
    ASSUME C!ConsoleInv, NEW p \in Runs, C!Making(p), C!FailToSave(p)
    PROVE  C!ConsoleInv'
  <1> DEFINE row == [x5[p] EXCEPT !.pc = "cleanup"]
  <1>1. x5[p] \in C!Proc
    BY DEF C!ConsoleInv, C!TypeOK
  <1>2. row \in C!Proc /\ row.pc = "cleanup"
    BY <1>1 DEF C!Proc
  <1> HIDE DEF row
  <1>3. C!Remove(p, row) /\ UNCHANGED <<x2, x3, x4, x6>>
    BY DEF row, C!FailToSave
  <1> QED
    BY <1>2, <1>3, RemoveStep

LEMMA WriteFileStep ==
    ASSUME C!ConsoleInv, NEW p \in Runs, C!WriteFile(p) PROVE C!ConsoleInv'
  <1> USE DEF C!ConsoleInv
  <1>1. C!At(p, "writing") /\ C!Making(p) /\ C!Entering(p)
    BY DEF C!WriteFile, C!At, C!Making, C!Entering
  <1>2. CASE C!FailToSave(p)
    BY <1>1, <1>2, FailToSaveStep
  <1>3. CASE /\ x2' = x2 \cup {x5[p].ses} /\ C!Goto(p, "syncing")
             /\ UNCHANGED <<x1, x3, x4, x6, x7>>
    <2>1. /\ x5' \in [Runs -> C!Proc] /\ x5'[p].pc = "syncing"
          /\ x5'[p].ses = x5[p].ses /\ x5'[p].clean = x5[p].clean
          /\ \A q \in Runs : q # p => x5'[q] = x5[q]
      BY <1>3, RunSteps
    <2>2. x5[p].ses \in x4
      BY <1>1 DEF C!OwnSession
    <2>3. C!TypeOK'
      BY <1>3, <2>1, <2>2 DEF C!TypeOK
    <2>4. \A q \in Runs : /\ C!Entering(q)' = C!Entering(q)
                          /\ C!Making(q)' = C!Making(q)
                          /\ C!Leaving(q)' => q # p /\ C!Leaving(q)
                          /\ C!At(q, "logout")' => q # p /\ C!At(q, "logout")
                          /\ C!At(q, "syncing")' <=> q = p \/ C!At(q, "syncing")
                          /\ x5'[q].ses = x5[q].ses /\ x5'[q].clean = x5[q].clean
      BY <1>1, <2>1 DEF C!Entering, C!Making, C!At, C!Leaving
    <2>5. C!OwnSession'
      BY <1>1, <1>3, <2>4 DEF C!OwnSession
    <2>6. C!OwnFile'
      BY <1>3, <2>4 DEF C!OwnFile
    <2>7. C!LoadedSession'
      BY <1>3, <2>4 DEF C!LoadedSession
    <2>8. C!KeptAtHand'
      BY <1>3 DEF C!KeptAtHand
    <2> QED
      BY <2>3, <2>5, <2>6, <2>7, <2>8
  <1> QED
    BY <1>2, <1>3 DEF C!WriteFile

LEMMA SyncFileStep ==
    ASSUME C!ConsoleInv, NEW p \in Runs, C!SyncFile(p) PROVE C!ConsoleInv'
  <1> USE DEF C!ConsoleInv
  <1>1. C!At(p, "syncing") /\ C!Making(p) /\ C!Entering(p)
    BY DEF C!SyncFile, C!At, C!Making, C!Entering
  <1>2. CASE C!FailToSave(p)
    BY <1>1, <1>2, FailToSaveStep
  <1>3. CASE /\ x6' = x6 \cup {x5[p].ses} /\ C!Stop(p)
             /\ UNCHANGED <<x1, x2, x3, x4, x7>>
    <2>1. /\ x5' \in [Runs -> C!Proc] /\ x5'[p].pc = "idle"
          /\ \A q \in Runs : q # p => x5'[q] = x5[q]
      BY <1>3, RunSteps
    <2>2. x5[p].ses \in x4 /\ x5[p].ses \in x2
      BY <1>1 DEF C!OwnSession
    <2>3. C!TypeOK'
      BY <1>3, <2>1, <2>2 DEF C!TypeOK
    <2>4. \A q \in Runs : /\ C!Entering(q)' => q # p /\ C!Entering(q)
                          /\ C!Making(q)' => q # p /\ C!Making(q)
                          /\ C!Leaving(q)' => q # p /\ C!Leaving(q)
                          /\ C!At(q, "logout")' => q # p /\ C!At(q, "logout")
                          /\ q # p => C!At(q, "syncing")' = C!At(q, "syncing")
      BY <2>1 DEF C!Entering, C!Making, C!At, C!Leaving
    <2>5. C!OwnSession'
      BY <1>1, <1>3, <2>1, <2>4 DEF C!OwnSession
    <2>6. C!OwnFile'
      BY <1>3, <2>1, <2>4 DEF C!OwnFile
    <2>7. C!LoadedSession'
      BY <1>3, <2>1, <2>4 DEF C!LoadedSession
    <2>8. C!KeptAtHand'
      BY <1>1, <1>3, <2>2 DEF C!KeptAtHand, C!OwnFile
    <2> QED
      BY <2>3, <2>5, <2>6, <2>7, <2>8
  <1> QED
    BY <1>2, <1>3 DEF C!SyncFile

LEMMA ConsoleInit == C!Init => C!ConsoleInv
  <1> SUFFICES ASSUME C!Init PROVE C!ConsoleInv
    OBVIOUS
  <1>1. C!Idle \in C!Proc /\ C!Idle.pc = "idle"
    BY DEF C!Idle, C!Proc
  <1>2. \A p \in Runs : x5[p].pc = "idle"
    BY <1>1 DEF C!Init
  <1>3. C!TypeOK
    BY <1>1 DEF C!Init, C!TypeOK
  <1>4. C!OwnSession /\ C!OwnFile /\ C!LoadedSession
    BY <1>2 DEF C!OwnSession, C!OwnFile, C!LoadedSession, C!Entering, C!Making, C!Leaving,
       C!At
  <1>5. C!KeptAtHand
    BY DEF C!Init, C!KeptAtHand
  <1> QED
    BY <1>3, <1>4, <1>5 DEF C!ConsoleInv

LEMMA ConsoleNext == C!ConsoleInv /\ C!Next => C!ConsoleInv'
  <1> SUFFICES ASSUME C!ConsoleInv, C!Next PROVE C!ConsoleInv'
    OBVIOUS
  <1>1. CASE C!Forget
    BY <1>1, ForgetStep
  <1>2. CASE \E s \in Sessions : C!Expire(s)
    BY <1>2, ExpireStep
  <1>3. ASSUME NEW p \in Runs,
               \/ C!Login(p) \/ C!Given(p) \/ C!CreateSession(p) \/ C!WriteFile(p)
               \/ C!SyncFile(p) \/ C!Logout(p) \/ C!Ended(p) \/ C!Revoked(p)
               \/ \E s \in Sessions : C!Granted(p, s)
        PROVE  C!ConsoleInv'
    BY <1>3, LoginStep, GivenStep, CreateStep, WriteFileStep, SyncFileStep, LogoutStep,
       EndedStep, RevokedStep, GrantedStep
  <1>4. ASSUME NEW p \in Runs, C!Cleanup(p) \/ C!Fail(p) PROVE C!ConsoleInv'
    BY <1>4, StopStep DEF C!Cleanup, C!Fail
  <1>5. ASSUME NEW p \in Runs, C!RemoveAfter(p) PROVE C!ConsoleInv'
    <2>1. C!Idle \in C!Proc /\ C!Idle.pc = "idle"
      BY DEF C!Idle, C!Proc
    <2>2. C!Leaving(p)
      BY <1>5 DEF C!RemoveAfter, C!At, C!Leaving
    <2> QED
      BY <1>5, <2>1, <2>2, RemoveStep DEF C!RemoveAfter
  <1> QED
    BY <1>1, <1>2, <1>3, <1>4, <1>5 DEF C!Next

(***************************************************************************)
(* A session that a login reported stays at hand while the server accepts  *)
(* it, for any number of overlapping runs of the client and of sessions,   *)
(* of which any step may fail or be the last: but for a forget, and for a  *)
(* login and a logout that have lost the file they share                   *)
(* (internal/adminclient/session.go, cmd/cli).                             *)
(***************************************************************************)
THEOREM SessionHolds == Spec => []SessionKept
  <1> DEFINE Inv == part = "console" => C!ConsoleInv
  <1>1. Init => Inv
    BY ConsoleInit DEF Init
  <1>2. Inv /\ [Next]_vars => Inv'
    <2> SUFFICES ASSUME Inv, [Next]_vars, part' = "console" PROVE C!ConsoleInv'
      OBVIOUS
    <2>1. part = "console" /\ C!ConsoleInv
      BY OnePart
    <2>2. CASE C!Next
      BY <2>1, <2>2, ConsoleNext
    <2>3. CASE UNCHANGED vars
      BY <2>1, <2>3 DEF vars, above7, above8, above11,
         C!ConsoleInv, C!TypeOK, C!OwnSession, C!OwnFile, C!LoadedSession,
         C!KeptAtHand, C!Entering, C!Making, C!Leaving, C!At
    <2> QED
      BY <2>1, <2>2, <2>3 DEF Next, Rotate, Enroll, Administer,
         Admit, Beat, AuditFiles, Read, CheckFrame, Query
  <1>3. Inv => SessionKept
    BY DEF SessionKept, C!ConsoleInv
  <1> QED
    BY <1>1, <1>2, <1>3, PTL DEF Spec

-----------------------------------------------------------------------------
(* Reading a file.  x3 are the files, x6 the one that is open, x7 what it  *)
(* was at the first fstat, and x8 what has been read.                      *)

LEMMA ReadConstants ==
    /\ 0 \notin Inodes /\ MaxBytes \in Nat \ {0} /\ MaxSize \in Nat
    /\ MaxEdits \in Nat /\ MaxTick \in Nat \ {0} /\ MaxBytes <= MaxSize
  BY PartsAssumption DEF F!SafeReadAssumption

\* Contents are sequences of bounded length.
LEMMA ContentSeq ==
    ASSUME NEW bs
    PROVE  bs \in F!Content <=> bs \in Seq(Blocks) /\ Len(bs) <= MaxSize
  <1>1. ASSUME bs \in F!Content PROVE bs \in Seq(Blocks) /\ Len(bs) <= MaxSize
    <2>1. PICK n \in 0 .. MaxSize : bs \in [1 .. n -> Blocks]
      BY <1>1 DEF F!Content
    <2>2. n \in Nat
      BY <2>1, ReadConstants
    <2>3. bs \in Seq(Blocks)
      BY <2>1, <2>2, SeqDef
    <2>4. Len(bs) \in Nat /\ DOMAIN bs = 1 .. Len(bs) /\ DOMAIN bs = 1 .. n
      BY <2>1, <2>3, LenProperties
    <2>5. Len(bs) = n
      <3>1. ~(Len(bs) > n)
        <4> SUFFICES ASSUME Len(bs) > n PROVE FALSE
          OBVIOUS
        <4>1. Len(bs) \in 1 .. Len(bs)
          BY <2>2, <2>4
        <4> QED
          BY <2>2, <2>4, <4>1
      <3>2. ~(Len(bs) < n)
        <4> SUFFICES ASSUME Len(bs) < n PROVE FALSE
          OBVIOUS
        <4>1. n \in 1 .. n
          BY <2>2, <2>4
        <4> QED
          BY <2>2, <2>4, <4>1
      <3>3. Len(bs) \in Nat
        BY <2>4
      <3> QED
        BY <2>2, <3>1, <3>2, <3>3
    <2> QED
      BY <2>1, <2>3, <2>5
  <1>2. ASSUME bs \in Seq(Blocks), Len(bs) <= MaxSize PROVE bs \in F!Content
    <2>1. Len(bs) \in 0 .. MaxSize /\ bs \in [1 .. Len(bs) -> Blocks]
      BY <1>2, LenProperties, ReadConstants
    <2> QED
      BY <2>1 DEF F!Content
  <1> QED
    BY <1>1, <1>2

\* The types, one by one.
LEMMA ReadTypes ==
    ASSUME F!ReadInv
    PROVE  /\ x1 \in 1 .. MaxTick /\ x4 \in 0 .. MaxEdits
           /\ x2 \in Inodes \cup {0} /\ x3 \in [Inodes -> F!Inode]
           /\ x6 \in Inodes \cup {0} /\ x7 \in F!Inode
  BY Zenon DEF F!ReadInv, F!TypeOK, F!InHand

LEMMA ReadControl ==
    ASSUME F!ReadInv
    PROVE  /\ x10 \in BOOLEAN /\ x11 \in BOOLEAN
           /\ x5 \in {"open", "stat", "reading", "compare", "reopen", "done"}
           /\ x9 \in F!Codes \cup {""} /\ (x5 = "done" <=> x9 # "")
           /\ x8 \in Seq(Blocks) /\ Len(x8) <= MaxBytes + 1
  BY Zenon DEF F!ReadInv, F!TypeOK, F!InHand

\* Others change files: what they change gets the present tick.
LEMMA FilesChange ==
    ASSUME F!ReadInv, UNCHANGED <<x1, x5, x6, x7, x8, x9, x11>>, x5 # "done",
           x3' \in [Inodes -> F!Inode], x4' \in 0 .. MaxEdits, F!Watched,
           \A i \in Inodes : x3'[i] = x3[i] \/ x3'[i].stamp = x1,
           x2' \in Inodes \cup {0}, x2' # 0 => x3'[x2'].links > 0
    PROVE  F!ReadInv'
  <1> USE DEF F!ReadInv
  <1>1. /\ x10' \in BOOLEAN
        /\ x10 => x10'
        /\ x5 \notin {"reading", "compare"} => x10' = x10
        /\ x3'[x6] = x3[x6] => x10' = x10
    BY DEF F!Watched, F!TypeOK
  <1>2. F!TypeOK'
    BY <1>1, ReadTypes, ReadControl, Zenon DEF F!TypeOK
  <1>3. F!PathLinked'
    BY DEF F!PathLinked
  <1>4. F!StampsPast'
    <2>1. x1 \in Int
      BY ReadTypes, ReadConstants
    <2> QED
      BY <2>1 DEF F!StampsPast
  <1>5. F!InHand'
    <2>1. x9 = "" /\ x9' = ""
      BY DEF F!TypeOK
    <2> QED
      BY <1>1, <2>1 DEF F!InHand, F!Started
  <1>6. F!ChangeShows'
    <2> SUFFICES ASSUME x5 \in {"reading", "compare"}, x11
                 PROVE  x7.stamp < x1 /\ (x3'[x6].stamp > x7.stamp \/ F!Intact')
      BY DEF F!ChangeShows
    <2>1. x6 \in Inodes /\ x7.stamp < x1 /\ (x3[x6].stamp > x7.stamp \/ F!Intact)
      BY DEF F!InHand, F!ChangeShows
    <2>2. CASE x3'[x6] # x3[x6]
      <3>1. x3'[x6].stamp = x1
        BY <2>1, <2>2
      <3>2. x7.stamp \in Int /\ x1 \in Int
        BY ReadTypes, ReadConstants DEF F!Inode
      <3> QED
        BY <2>1, <3>1, <3>2
    <2>3. CASE x3'[x6] = x3[x6]
      BY <1>1, <2>1, <2>3 DEF F!Intact
    <2> QED
      BY <2>2, <2>3
  <1>7. F!WasIntact'
    <2>1. x9 = "" /\ x9' = ""
      BY DEF F!TypeOK
    <2> QED
      BY <1>1, <2>1 DEF F!WasIntact
  <1> QED
    BY <1>2, <1>3, <1>4, <1>5, <1>6, <1>7

\* One file changes.
LEMMA FileChanges ==
    ASSUME F!ReadInv, NEW i \in Inodes, NEW f \in F!Inode, F!Changed(i, f),
           x2' = x2 \/ x2' = 0, f.links > 0 \/ x2' = 0
    PROVE  F!ReadInv'
  <1> DEFINE g == [f EXCEPT !.stamp = x1]
  <1>1. x1 \in 0 .. MaxTick /\ x3 \in [Inodes -> F!Inode] /\ x2 \in Inodes \cup {0}
    BY ReadConstants, ReadTypes
  <1>2. g \in F!Inode /\ g.stamp = x1 /\ g.links = f.links
    BY <1>1 DEF F!Inode
  <1>3. /\ x3' = [x3 EXCEPT ![i] = g] /\ F!Watched /\ x4' = x4 + 1 /\ x4 < MaxEdits
        /\ UNCHANGED <<x1, x5, x6, x7, x8, x9, x11>> /\ x5 # "done"
    BY DEF F!Changed, F!Others, F!reader
  <1> HIDE DEF g
  <1>4. /\ x3' \in [Inodes -> F!Inode] /\ x3'[i] = g
        /\ \A j \in Inodes : j # i => x3'[j] = x3[j]
    BY <1>1, <1>2, <1>3
  <1>5. x4' \in 0 .. MaxEdits
    BY <1>3, ReadConstants, ReadTypes
  <1>6. x2' # 0 => x3'[x2'].links > 0
    BY <1>1, <1>2, <1>4 DEF F!ReadInv, F!PathLinked
  <1>7. x2' \in Inodes \cup {0} /\ \A j \in Inodes : x3'[j] = x3[j] \/ x3'[j].stamp = x1
    BY <1>1, <1>2, <1>4
  <1> QED
    BY <1>3, <1>4, <1>5, <1>6, <1>7, FilesChange

LEMMA WriteFile ==
    ASSUME F!ReadInv, F!Write PROVE F!ReadInv'
  <1> USE ReadConstants
  <1>1. /\ x1 \in 1 .. MaxTick /\ x2 \in Inodes \cup {0} /\ x6 \in Inodes \cup {0}
        /\ x3 \in [Inodes -> F!Inode] /\ x4 \in 0 .. MaxEdits
    BY DEF F!ReadInv, F!TypeOK
  <1>2. ASSUME NEW i \in Inodes
        PROVE  /\ x3[i] \in F!Inode /\ x3[i].links \in 0 .. 2
               /\ x3[i].blocks \in Seq(Blocks) /\ Len(x3[i].blocks) <= MaxSize
    <2>1. x3[i] \in F!Inode /\ x3[i].blocks \in F!Content /\ x3[i].links \in 0 .. 2
      BY <1>1 DEF F!Inode
    <2> QED
      BY <2>1, ContentSeq
  <1>3. ASSUME NEW i \in Inodes, NEW bs, bs \in Seq(Blocks), Len(bs) <= MaxSize,
               x3[i].links > 0, F!Changed(i, [x3[i] EXCEPT !.blocks = bs]), UNCHANGED x2
        PROVE  F!ReadInv'
    <2> DEFINE f == [x3[i] EXCEPT !.blocks = bs]
    <2>1. bs \in F!Content
      BY <1>3, ContentSeq
    <2>2. f \in F!Inode /\ f.links = x3[i].links
      BY <1>2, <2>1 DEF F!Inode
    <2>3. F!Changed(i, f)
      BY <1>3
    <2> HIDE DEF f
    <2> QED
      BY <1>3, <2>2, <2>3, FileChanges
  <1>4. ASSUME NEW i \in Inodes, NEW n \in 1 .. MaxSize, NEW b \in Blocks,
               F!Overwrite(i, n, b)
        PROVE  F!ReadInv'
    <2> DEFINE bs == [x3[i].blocks EXCEPT ![n] = b]
    <2>1. n \in 1 .. Len(x3[i].blocks)
      BY <1>2, <1>4, LenProperties DEF F!Overwrite
    <2>2. bs \in Seq(Blocks) /\ Len(bs) = Len(x3[i].blocks)
      BY <1>2, <2>1, ExceptSeq
    <2>3. [x3[i] EXCEPT !.blocks[n] = b] = [x3[i] EXCEPT !.blocks = bs]
      BY <1>2 DEF F!Inode
    <2>4. /\ F!Changed(i, [x3[i] EXCEPT !.blocks = bs]) /\ UNCHANGED x2
          /\ x3[i].links > 0
      BY <1>4, <2>3 DEF F!Overwrite
    <2> HIDE DEF bs
    <2> QED
      BY <1>2, <1>3, <2>2, <2>4
  <1>5. ASSUME NEW i \in Inodes, NEW b \in Blocks, F!Extend(i, b) PROVE F!ReadInv'
    <2> DEFINE bs == Append(x3[i].blocks, b)
    <2>1. bs \in Seq(Blocks) /\ Len(bs) = Len(x3[i].blocks) + 1
      BY <1>2
    <2>2. Len(x3[i].blocks) < MaxSize /\ Len(x3[i].blocks) \in Nat
      BY <1>2, <1>5, LenProperties DEF F!Extend
    <2>3. /\ F!Changed(i, [x3[i] EXCEPT !.blocks = bs]) /\ UNCHANGED x2
          /\ x3[i].links > 0
      BY <1>5 DEF F!Extend
    <2> HIDE DEF bs
    <2> QED
      BY <1>3, <2>1, <2>2, <2>3
  <1>6. ASSUME NEW i \in Inodes, F!Truncate(i) PROVE F!ReadInv'
    <2>1. << >> \in Seq(Blocks) /\ Len(<< >>) <= MaxSize
      BY EmptySeq
    <2> QED
      BY <1>3, <1>6, <2>1 DEF F!Truncate
  <1>7. ASSUME NEW i \in Inodes, F!Chown(i) PROVE F!ReadInv'
    <2> DEFINE f == [x3[i] EXCEPT !.owned = ~@]
    <2>1. f \in F!Inode /\ f.links = x3[i].links
      BY <1>2 DEF F!Inode
    <2>2. F!Changed(i, f) /\ UNCHANGED x2 /\ x3[i].links > 0
      BY <1>7 DEF F!Chown
    <2> HIDE DEF f
    <2> QED
      BY <2>1, <2>2, FileChanges
  <1>8. ASSUME NEW i \in Inodes, F!Link(i) PROVE F!ReadInv'
    <2> DEFINE f == [x3[i] EXCEPT !.links = 2]
    <2>1. f \in F!Inode /\ f.links = 2
      BY <1>2 DEF F!Inode
    <2>2. F!Changed(i, f) /\ UNCHANGED x2
      BY <1>8 DEF F!Link
    <2> HIDE DEF f
    <2> QED
      BY <2>1, <2>2, FileChanges
  <1>9. CASE F!Unlink
    <2> DEFINE k == x3[x2].links - 1
               f == [x3[x2] EXCEPT !.links = k]
    <2>1. x2 \in Inodes /\ x3[x2].links > 0
      BY <1>1, <1>9 DEF F!Unlink, F!ReadInv, F!PathLinked
    <2>2. k \in 0 .. 2
      BY <1>2, <2>1
    <2>3. F!Changed(x2, f) /\ x2' = 0
      BY <1>9 DEF F!Unlink
    <2> HIDE DEF k
    <2>4. f \in F!Inode
      BY <1>2, <2>1, <2>2 DEF F!Inode
    <2> HIDE DEF f
    <2> QED
      BY <2>1, <2>3, <2>4, FileChanges
  <1>10. ASSUME NEW j \in Inodes, NEW bs \in [1 .. MaxBytes -> Blocks], F!Replace(j, bs)
         PROVE  F!ReadInv'
    <2> DEFINE new == [blocks |-> bs, stamp |-> x1, owned |-> TRUE,
                       regular |-> TRUE, links |-> 1]
               k == x3[x2].links - 1
               old == [x3[x2] EXCEPT !.links = k, !.stamp = x1]
               Row(i) == IF i = j THEN new
                         ELSE IF i = x2 THEN [x3[i] EXCEPT !.links = @ - 1, !.stamp = x1]
                         ELSE x3[i]
    <2>1. /\ x3' = [i \in Inodes |-> Row(i)] /\ x2' = j
          /\ F!Watched /\ x4 < MaxEdits /\ x4' = x4 + 1
          /\ UNCHANGED <<x1, x5, x6, x7, x8, x9, x11>> /\ x5 # "done"
      BY <1>10 DEF F!Replace, F!Others, F!reader
    <2>2. new \in F!Inode /\ new.stamp = x1 /\ new.links = 1
      <3>1. bs \in F!Content /\ x1 \in 0 .. MaxTick
        BY <1>1 DEF F!Content
      <3> QED
        BY <3>1 DEF F!Inode
    <2>3. x2 \in Inodes => old \in F!Inode /\ old.stamp = x1
      <3> SUFFICES ASSUME x2 \in Inodes PROVE old \in F!Inode /\ old.stamp = x1
        OBVIOUS
      <3>1. k \in 0 .. 2 /\ x1 \in 0 .. MaxTick
        BY <1>1, <1>2 DEF F!ReadInv, F!PathLinked
      <3> HIDE DEF k
      <3> QED
        BY <1>2, <3>1 DEF F!Inode
    <2> HIDE DEF new
    <2>4. \A i \in Inodes : /\ Row(i) \in F!Inode
                            /\ Row(i) = x3[i] \/ Row(i).stamp = x1
      <3> SUFFICES ASSUME NEW i \in Inodes
                   PROVE  Row(i) \in F!Inode /\ (Row(i) = x3[i] \/ Row(i).stamp = x1)
        OBVIOUS
      <3>1. CASE i = j
        BY <2>2, <3>1
      <3>2. CASE i # j /\ i = x2
        <4>1. Row(i) = old
          BY <3>2
        <4> QED
          BY <2>3, <3>2, <4>1
      <3>3. CASE i # j /\ i # x2
        BY <1>2, <3>3
      <3> QED
        BY <3>1, <3>2, <3>3
    <2>5. Row(j) = new
      OBVIOUS
    <2> HIDE DEF Row, old
    <2>6. x4' \in 0 .. MaxEdits
      BY <1>1, <2>1
    <2> QED
      BY <2>1, <2>2, <2>4, <2>5, <2>6, FilesChange
  <1>11. \A i \in {x2, x6} \ {0} : i \in Inodes
    BY <1>1
  <1> QED
    BY <1>4, <1>5, <1>6, <1>7, <1>8, <1>9, <1>10, <1>11 DEF F!Write

LEMMA TickRead ==
    ASSUME F!ReadInv, F!Tick PROVE F!ReadInv'
  <1> USE DEF F!ReadInv
  <1>1. /\ x1 < MaxTick /\ x1' = x1 + 1 /\ x5 # "done"
        /\ UNCHANGED <<x2, x3, x4, x5, x6, x7, x8, x9, x10, x11>>
    BY DEF F!Tick, F!Others, F!reader
  <1>2. x1' \in 1 .. MaxTick /\ x1 \in Int
    BY <1>1, ReadTypes, ReadConstants
  <1>3. F!TypeOK'
    BY <1>1, <1>2, ReadTypes, ReadControl, Zenon DEF F!TypeOK
  <1>4. F!PathLinked' /\ F!InHand' /\ F!WasIntact'
    BY <1>1 DEF F!PathLinked, F!InHand, F!WasIntact, F!Started
  <1>5. F!StampsPast'
    <2>1. \A i \in Inodes : x3[i].stamp \in Int
      BY ReadTypes, ReadConstants DEF F!Inode
    <2> QED
      BY <1>1, <1>2, <2>1 DEF F!StampsPast
  <1>6. F!ChangeShows'
    <2>1. x7.stamp \in Int
      BY ReadTypes, ReadConstants DEF F!Inode
    <2> QED
      BY <1>1, <1>2, <2>1 DEF F!ChangeShows, F!Intact
  <1> QED
    BY <1>3, <1>4, <1>5, <1>6

\* The reader takes a step that reads nothing.
LEMMA ReaderMoves ==
    ASSUME F!ReadInv, UNCHANGED <<x1, x2, x3, x4, x7, x8, x10, x11>>,
           x6' \in Inodes \cup {0},
           x5' \in {"open", "stat", "reading", "compare", "reopen", "done"},
           x9' \in F!Codes \cup {""}, (x5' = "done" <=> x9' # ""),
           x5' \in {"stat", "reading", "compare", "reopen"} => x6' \in Inodes,
           F!Started' => F!Started,
           x5' \in {"open", "stat"} => x5 \in {"open", "stat"},
           x5' \in {"reading", "compare"} => x6' = x6 /\ x5 \in {"reading", "compare"},
           x5' = "reopen" \/ x9' = "ok" =>
              \/ x5 = "reopen" \/ x9 = "ok"
              \/ x11 => ~x10 /\ x8 = x7.blocks
    PROVE  F!ReadInv'
  <1> USE DEF F!ReadInv
  <1>1. F!TypeOK'
    <2>1. (x5' = "done") = (x9' # "")
      OBVIOUS
    <2> QED
      BY <2>1, ReadTypes, ReadControl, Zenon DEF F!TypeOK
  <1>2. F!PathLinked' /\ F!StampsPast'
    BY DEF F!PathLinked, F!StampsPast
  <1>3. F!InHand'
    BY DEF F!InHand
  <1>4. F!ChangeShows'
    BY DEF F!ChangeShows, F!Intact
  <1>5. F!WasIntact'
    BY DEF F!WasIntact
  <1> QED
    BY <1>1, <1>2, <1>3, <1>4, <1>5

LEMMA OpenRead ==
    ASSUME F!ReadInv, F!Open PROVE F!ReadInv'
  <1>1. x5 = "open" /\ UNCHANGED <<x1, x2, x3, x4, x7, x8, x10, x11>> /\ x9 = ""
    BY ReadControl DEF F!Open, F!disk
  <1>2. CASE x5' = "done" /\ x9' \in F!OpenCodes \cup {"missing"} /\ UNCHANGED x6
    <2>1. x9' \in F!Codes /\ x9' # "" /\ x9' # "ok"
      BY <1>2 DEF F!Codes, F!OpenCodes
    <2> QED
      BY <1>1, <1>2, <2>1, ReadTypes, ReaderMoves DEF F!Started
  <1>3. CASE x5' = "stat" /\ x6' = x2 /\ x2 # 0 /\ UNCHANGED x9
    <2>1. x6' \in Inodes
      BY <1>3, ReadTypes
    <2> QED
      BY <1>1, <1>3, <2>1, ReaderMoves DEF F!Started
  <1> QED
    BY <1>2, <1>3 DEF F!Open, F!Return

LEMMA FirstStatRead ==
    ASSUME F!ReadInv, F!FirstStat PROVE F!ReadInv'
  <1> USE DEF F!ReadInv
  <1> DEFINE r == F!Rejection(F!Stat(x3[x6]))
  <1>1. /\ x5 = "stat" /\ x7' = x3[x6] /\ UNCHANGED <<x1, x2, x3, x4, x6, x8, x10>>
        /\ x9 = "" /\ x6 \in Inodes /\ x8 = << >> /\ ~x10
    BY ReadControl DEF F!FirstStat, F!disk, F!InHand
  <1>2. x11' \in BOOLEAN /\ (x11' => x3[x6].stamp < x1)
    <2> DEFINE past == x3[x6].stamp < x1
    <2>1. x11' = past
      BY DEF F!FirstStat
    <2>2. past = TRUE \/ past = FALSE
      OBVIOUS
    <2> QED
      BY <2>1, <2>2, Zenon
  <1>3. \/ r = "ok" /\ x5' = "reading" /\ x9' = ""
        \/ r # "ok" /\ x5' = "done" /\ x9' = r
    BY <1>1 DEF F!FirstStat, F!Return
  <1>4. r \in F!Codes /\ r # ""
    BY DEF F!Rejection, F!Codes
  <1> HIDE DEF r
  <1>5. F!TypeOK'
    <2>1. /\ x9' \in F!Codes \cup {""} /\ (x5' = "done") = (x9' # "")
          /\ x5' \in {"open", "stat", "reading", "compare", "reopen", "done"}
      BY <1>3, <1>4
    <2> QED
      BY <1>1, <1>2, <2>1, ReadTypes, ReadControl, Zenon DEF F!TypeOK
  <1>6. F!PathLinked' /\ F!StampsPast'
    BY <1>1 DEF F!PathLinked, F!StampsPast
  <1>7. x7' \in F!Inode
    BY <1>1, ReadTypes
  <1>8. F!InHand'
    <2>1. F!Started' => x5' = "reading"
      BY <1>3 DEF F!Started
    <2>2. x5' = "reading" => F!Rejection(F!Stat(x7')) = "ok"
      BY <1>1, <1>3 DEF r
    <2>3. x8' \in Seq(Blocks) /\ x6' \in Inodes /\ x5' \notin {"open", "stat"}
      BY <1>1, <1>3, ReadControl
    <2> QED
      BY <1>7, <2>1, <2>2, <2>3 DEF F!InHand
  <1>9. F!ChangeShows'
    <2>1. Len(<< >>) = 0 /\ Len(x7'.blocks) \in Nat
      <3>1. x7'.blocks \in F!Content
        BY <1>7 DEF F!Inode
      <3>2. x7'.blocks \in Seq(Blocks)
        BY <3>1, ContentSeq
      <3> QED
        BY <3>2, LenProperties, EmptySeq
    <2>2. Len(x8') = 0 /\ x3'[x6'] = x7' /\ ~x10'
      BY <1>1, <2>1
    <2>3. Len(x8') <= Len(x7'.blocks) /\ \A n \in 1 .. Len(x8') : FALSE
      BY <2>1, <2>2
    <2>4. F!Intact'
      BY <2>2, <2>3, Zenon DEF F!Intact
    <2> QED
      BY <1>1, <1>2, <2>4 DEF F!ChangeShows
  <1>10. F!WasIntact'
    BY <1>3 DEF F!WasIntact
  <1> QED
    BY <1>5, <1>6, <1>8, <1>9, <1>10

LEMMA BlockRead ==
    ASSUME F!ReadInv, F!ReadBlock PROVE F!ReadInv'
  <1> USE DEF F!ReadInv
  <1> DEFINE n == Len(x8) + 1
             b == x3[x6].blocks[n]
  <1>1. /\ x5 = "reading" /\ x8' = Append(x8, b) /\ Len(x8) < Len(x3[x6].blocks)
        /\ Len(x8) <= MaxBytes /\ x6 \in Inodes /\ x9 = ""
        /\ UNCHANGED <<x1, x2, x3, x4, x5, x6, x7, x9, x10, x11>>
    BY ReadControl DEF F!ReadBlock, F!disk, F!More, F!InHand
  <1>2. x3[x6].blocks \in Seq(Blocks) /\ x8 \in Seq(Blocks) /\ Len(x8) \in Nat
    <2>1. x3[x6].blocks \in F!Content
      BY <1>1, ReadTypes DEF F!Inode
    <2> QED
      BY <2>1, ContentSeq, ReadControl, LenProperties
  <1>3. n \in 1 .. Len(x3[x6].blocks) /\ b \in Blocks
    <2>1. Len(x3[x6].blocks) \in Nat
      BY <1>2, LenProperties
    <2>2. n \in 1 .. Len(x3[x6].blocks)
      <3> DEFINE k == Len(x8)
                 m == Len(x3[x6].blocks)
      <3>1. k \in Nat /\ m \in Nat /\ k < m
        BY <1>1, <1>2, <2>1
      <3> HIDE DEF k, m
      <3>2. k + 1 \in 1 .. m
        BY <3>1
      <3> QED
        BY <3>2 DEF k, m
    <2> HIDE DEF n
    <2>3. b \in Blocks
      BY <1>2, <2>2, ElementOfSeq
    <2> QED
      BY <2>2, <2>3
  <1> HIDE DEF b
  <1>4. /\ x8' \in Seq(Blocks) /\ Len(x8') = Len(x8) + 1
        /\ x8'[n] = b /\ \A i \in 1 .. Len(x8) : x8'[i] = x8[i]
    <2> DEFINE d == x8
    <2>1. d \in Seq(Blocks) /\ x8' = Append(d, b) /\ b \in Blocks
      BY <1>1, <1>2, <1>3
    <2> QED
      BY <2>1, AppendProperties
  <1>5. F!TypeOK'
    <2>1. Len(x8') <= MaxBytes + 1
      <3> DEFINE k == Len(x8)
      <3>1. k \in Nat /\ k <= MaxBytes /\ Len(x8') = k + 1 /\ MaxBytes \in Nat
        BY <1>1, <1>2, <1>4, ReadConstants
      <3> HIDE DEF k
      <3> QED
        BY <3>1
    <2>2. F!TypeOK
      OBVIOUS
    <2> QED
      BY <1>1, <2>1, <2>2, Zenon DEF F!TypeOK
  <1>6. F!PathLinked' /\ F!StampsPast'
    BY <1>1 DEF F!PathLinked, F!StampsPast
  <1>7. F!InHand'
    BY <1>1, <1>4 DEF F!InHand, F!Started
  <1>8. F!ChangeShows'
    <2> SUFFICES ASSUME x11
                 PROVE  x7.stamp < x1 /\ (x3[x6].stamp > x7.stamp \/ F!Intact')
      BY <1>1 DEF F!ChangeShows
    <2>1. x7.stamp < x1 /\ (x3[x6].stamp > x7.stamp \/ F!Intact)
      BY <1>1 DEF F!ChangeShows
    <2>2. ASSUME F!Intact PROVE F!Intact'
      <3>1. /\ x3[x6] = x7 /\ ~x10 /\ \A i \in 1 .. Len(x8) : x8[i] = x7.blocks[i]
            /\ b = x7.blocks[n]
        BY <2>2 DEF F!Intact, b
      <3>2. Len(x7.blocks) \in Nat /\ Len(x8') <= Len(x7.blocks)
        <4> DEFINE k == Len(x8)
                   m == Len(x7.blocks)
        <4>1. k \in Nat /\ m \in Nat /\ k < m /\ Len(x8') = k + 1
          BY <1>1, <1>2, <1>4, <3>1, LenProperties
        <4> HIDE DEF k, m
        <4>2. Len(x8') <= m
          BY <4>1
        <4> QED
          BY <4>1, <4>2 DEF m
      <3>3. \A i \in 1 .. Len(x8') : x8'[i] = x7.blocks[i]
        <4> SUFFICES ASSUME NEW i \in 1 .. Len(x8') PROVE x8'[i] = x7.blocks[i]
          OBVIOUS
        <4>1. i \in 1 .. Len(x8) \/ i = n
          BY <1>2, <1>4
        <4> QED
          BY <1>4, <3>1, <4>1
      <3> QED
        BY <1>1, <3>1, <3>2, <3>3 DEF F!Intact
    <2> QED
      BY <2>1, <2>2
  <1>9. F!WasIntact'
    BY <1>1 DEF F!WasIntact
  <1> QED
    BY <1>5, <1>6, <1>7, <1>8, <1>9

LEMMA EndRead ==
    ASSUME F!ReadInv, F!ReadEnd PROVE F!ReadInv'
  <1>1. /\ x5 = "reading" /\ UNCHANGED <<x1, x2, x3, x4, x6, x7, x8, x10, x11>>
        /\ x6 \in Inodes /\ x9 = "" /\ F!Started
    BY ReadControl DEF F!ReadEnd, F!disk, F!ReadInv, F!InHand, F!Started
  <1>2. \/ x5' = "done" /\ x9' \in {"io_error", "too_large"}
        \/ x5' = "compare" /\ x9' = ""
    BY <1>1 DEF F!ReadEnd, F!Return
  <1>3. x9' \in F!Codes \cup {""} /\ x9' # "ok"
    BY <1>2 DEF F!Codes, F!OpenCodes
  <1> QED
    BY <1>1, <1>2, <1>3, ReaderMoves

\* The second fstat compares: the same stamp means the same file.
LEMMA SecondStatRead ==
    ASSUME F!ReadInv, F!SecondStat PROVE F!ReadInv'
  <1>1. /\ x5 = "compare" /\ UNCHANGED <<x1, x2, x3, x4, x6, x7, x8, x10, x11>>
        /\ x6 \in Inodes /\ x9 = "" /\ F!Started
    BY ReadControl DEF F!SecondStat, F!disk, F!ReadInv, F!InHand, F!Started
  <1>2. CASE x5' = "done" /\ x9' = "changed_during_read"
    <2>1. x9' \in F!Codes
      BY <1>2 DEF F!Codes
    <2> QED
      BY <1>1, <1>2, <2>1, ReaderMoves
  <1>3. CASE F!Unchanged(F!Stat(x3[x6])) /\ x5' = "reopen" /\ x9' = ""
    <2>1. x3[x6].stamp = x7.stamp /\ Len(x8) = Len(x7.blocks)
      BY <1>3 DEF F!Unchanged, F!Stat
    <2>2. x7.stamp \in Int
      BY ReadTypes, ReadConstants DEF F!Inode
    <2>3. x7.blocks \in Seq(Blocks) /\ x8 \in Seq(Blocks)
      <3>1. x7.blocks \in F!Content
        BY ReadTypes DEF F!Inode
      <3> QED
        BY <3>1, ContentSeq, ReadControl
    <2>4. ASSUME x11 PROVE ~x10 /\ x8 = x7.blocks
      <3>1. F!Intact
        <4>1. ~(x3[x6].stamp > x7.stamp)
          BY <2>1, <2>2
        <4>2. F!ChangeShows
          BY DEF F!ReadInv
        <4> QED
          BY <1>1, <2>4, <4>1, <4>2, Zenon DEF F!ChangeShows
      <3>2. ~x10 /\ \A i \in 1 .. Len(x8) : x8[i] = x7.blocks[i]
        BY <3>1 DEF F!Intact
      <3>3. x8 = x7.blocks
        BY <2>1, <2>3, <3>2, SeqEqual
      <3> QED
        BY <3>2, <3>3
    <2> QED
      BY <1>1, <1>3, <2>4, ReaderMoves
  <1> QED
    BY <1>1, <1>2, <1>3 DEF F!SecondStat, F!Return

LEMMA ReopenRead ==
    ASSUME F!ReadInv, F!Reopen PROVE F!ReadInv'
  <1>1. /\ x5 = "reopen" /\ UNCHANGED <<x1, x2, x3, x4, x6, x7, x8, x10, x11>>
        /\ x6 \in Inodes /\ F!Started
        /\ x5' = "done" /\ x9' \in {"ok", "changed_during_read"}
    BY DEF F!Reopen, F!disk, F!ReadInv, F!InHand, F!Started, F!Return
  <1>2. x9' \in F!Codes /\ x9' # ""
    BY <1>1 DEF F!Codes
  <1> QED
    BY <1>1, <1>2, ReaderMoves

LEMMA ReadInit == F!Init => F!ReadInv
  <1> SUFFICES ASSUME F!Init PROVE F!ReadInv
    OBVIOUS
  <1>1. PICK i \in Inodes :
          /\ x2 = i /\ x3 \in [Inodes -> F!Inode]
          /\ \A j \in Inodes :
                \/ j = i /\ x3[j].links > 0 /\ x3[j].stamp \in {0, 1}
                         /\ Len(x3[j].blocks) = MaxBytes
                \/ j # i /\ x3[j] = F!Free
    BY DEF F!Init
  <1>2. /\ x1 = 1 /\ x4 = 0 /\ x5 = "open" /\ x6 = 0 /\ x7 = F!Free
        /\ x8 = << >> /\ x9 = "" /\ x10 = FALSE /\ x11 = FALSE
    BY DEF F!Init
  <1>3. F!Free \in F!Inode /\ F!Free.stamp = 0 /\ << >> \in Seq(Blocks) /\ Len(<< >>) = 0
    <2> DEFINE e == << >>
    <2>1. e \in Seq(Blocks) /\ Len(e) = 0
      BY EmptySeq
    <2>2. F!Free = [blocks |-> e, stamp |-> 0, owned |-> TRUE, regular |-> TRUE,
                    links |-> 0]
      BY DEF F!Free
    <2> HIDE DEF e
    <2>3. Len(e) <= MaxSize
      BY <2>1, ReadConstants
    <2>4. e \in F!Content
      BY <2>1, <2>3, ContentSeq
    <2>5. F!Free \in F!Inode /\ F!Free.stamp = 0
      BY <2>2, <2>4, ReadConstants DEF F!Inode
    <2> QED
      BY <2>1, <2>5 DEF e
  <1>4. F!TypeOK
    <2> DEFINE k == Len(x8)
    <2>4. k = 0
      BY <1>2, <1>3
    <2> HIDE DEF k
    <2>5. x1 \in 1 .. MaxTick /\ x4 \in 0 .. MaxEdits /\ k <= MaxBytes + 1
      <3>1. 1 \in 1 .. MaxTick /\ 0 \in 0 .. MaxEdits /\ 0 <= MaxBytes + 1
        BY ReadConstants
      <3> QED
        BY <1>2, <2>4, <3>1, Zenon
    <2>1. x1 \in 1 .. MaxTick /\ x4 \in 0 .. MaxEdits /\ Len(x8) <= MaxBytes + 1
      BY <2>5 DEF k
    <2>2. (x5 = "done") = (x9 # "")
      BY <1>2
    <2>3. x2 \in Inodes \cup {0} /\ x3 \in [Inodes -> F!Inode]
      BY <1>1
    <2> QED
      BY <1>2, <2>1, <2>2, <2>3, Zenon DEF F!TypeOK
  <1>5. F!PathLinked /\ F!StampsPast
    <2>1. F!PathLinked
      BY <1>1 DEF F!PathLinked
    <2>2. \A j \in Inodes : x3[j].stamp \in {0, 1}
      BY <1>1, <1>3
    <2>3. \A j \in Inodes : x3[j].stamp <= x1
      <3>1. \A m \in {0, 1} : m <= 1
        OBVIOUS
      <3> QED
        BY <1>2, <2>2, <3>1, Zenon
    <2> QED
      BY <2>1, <2>3 DEF F!StampsPast
  <1>6. F!InHand
    BY <1>2, <1>3 DEF F!InHand, F!Started
  <1>7. F!ChangeShows /\ F!WasIntact
    BY <1>2 DEF F!ChangeShows, F!WasIntact
  <1> QED
    BY <1>4, <1>5, <1>6, <1>7 DEF F!ReadInv

(***************************************************************************)
(* What is reported as read is one version of the file, fit to be read,    *)
(* for files of any length and any number of changes, replacements and     *)
(* truncations meanwhile, if its last change was before the tick of the    *)
(* first fstat (internal/saferead).                                        *)
(***************************************************************************)
THEOREM SnapshotHolds == Spec => []SnapshotRead
  <1> DEFINE Inv == part = "read" => F!ReadInv
  <1>1. Init => Inv
    BY ReadInit DEF Init
  <1>2. Inv /\ [Next]_vars => Inv'
    <2> SUFFICES ASSUME Inv, [Next]_vars, part' = "read" PROVE F!ReadInv'
      OBVIOUS
    <2>1. part = "read" /\ F!ReadInv
      BY OnePart
    <2>2. CASE F!Next
      BY <2>1, <2>2, TickRead, WriteFile, OpenRead, FirstStatRead, BlockRead, EndRead,
         SecondStatRead, ReopenRead DEF F!Next, F!Read
    <2>3. CASE UNCHANGED vars
      BY <2>1, <2>3 DEF vars, above7, above8, above11, F!ReadInv,
         F!TypeOK, F!PathLinked, F!StampsPast, F!InHand, F!Started, F!ChangeShows,
         F!Intact, F!WasIntact
    <2> QED
      BY <2>1, <2>2, <2>3 DEF Next, Rotate, Enroll, Administer,
         Admit, Beat, AuditFiles, Read, CheckFrame, Query
  <1>3. Inv => SnapshotRead
    <2> SUFFICES ASSUME F!ReadInv PROVE F!TypeOK /\ F!Snapshot
      BY DEF SnapshotRead
    <2>1. ASSUME x9 = "ok" PROVE x7.owned /\ x7.regular /\ x7.links = 1
      BY <2>1 DEF F!ReadInv, F!InHand, F!Started, F!Rejection, F!Stat
    <2> QED
      BY <2>1 DEF F!ReadInv, F!Snapshot, F!WasIntact
  <1> QED
    BY <1>1, <1>2, <1>3, PTL DEF Spec

-----------------------------------------------------------------------------
(* A query of a service.  x3 is the wire, x5 the call, x6 whether its      *)
(* answer is awaited, x7 its serial, x13 the values, x14 the report.       *)

LEMMA ServiceConstants ==
    /\ None \in Words /\ "error" \notin Words /\ "error" \notin Strangers
    /\ "bus" \notin Strangers /\ "systemd" \notin Strangers /\ "" \notin Strangers
    /\ MaxTotal \in Nat /\ MaxEvents \in Nat
  BY PartsAssumption DEF S!ServiceAssumption

LEMMA FourProps == Len(S!Props) = 4
  BY DEF S!Props

LEMMA ServiceTypes ==
    ASSUME S!ServiceInv
    PROVE  /\ x4 \in 0 .. MaxEvents /\ x7 \in 0 .. 7 /\ x11 \in 0 .. MaxTotal
           /\ x3 \in Seq(S!Frames) /\ x13 \in Seq(S!Vals) /\ x2 \in x15
  BY Zenon DEF S!ServiceInv, S!TypeOK, S!InStep, S!OnTheWire, S!Seen

LEMMA ServiceControl ==
    ASSUME S!ServiceInv
    PROVE  /\ x1 \in S!Conns \cup {""} /\ x2 \in S!Unit /\ x15 \subseteq S!Unit
           /\ x5 \in {"open", "owner", "user", "unit", "get"}
           /\ x6 \in BOOLEAN /\ x8 \in BOOLEAN /\ x12 \in BOOLEAN
           /\ x9 \in S!Conns \cup {""} /\ x10 \in S!Conns \cup {""} /\ x14 \in S!Codes
  BY Zenon DEF S!ServiceInv, S!TypeOK

LEMMA PropKnown ==
    ASSUME NEW u \in S!Unit, NEW i PROVE S!Prop(u, i) \in Words \cup {"unit", "other"}
  BY DEF S!Prop, S!Unit

\* The bus, systemd and the others act: the query rests, and one more frame
\* may be on the wire.
LEMMA QueryRests ==
    ASSUME S!ServiceInv, x14 = "none", S!OnTheWire',
           UNCHANGED <<x5, x6, x7, x9, x10, x11, x12, x13, x14>>,
           x1' \in S!Conns \cup {""}, x2' \in S!Unit, x2' \in x15',
           x15 \subseteq x15', x15' \subseteq S!Unit,
           x4' \in 0 .. MaxEvents, x8' \in BOOLEAN
    PROVE  S!ServiceInv'
  <1>1. S!TypeOK'
    <2>1. S!TypeOK
      BY DEF S!ServiceInv
    <2> QED
      BY <2>1, Zenon DEF S!TypeOK
  <1>2. S!InStep'
    BY DEF S!ServiceInv, S!InStep, S!Answered
  <1>3. S!OwnerKnown'
    BY DEF S!ServiceInv, S!OwnerKnown
  <1>4. S!Seen'
    BY DEF S!ServiceInv, S!Seen
  <1> QED
    BY <1>1, <1>2, <1>3, <1>4 DEF S!ServiceInv

\* Nothing new on the wire.
LEMMA WireRests ==
    ASSUME S!ServiceInv, UNCHANGED <<x3, x5, x6, x7, x9, x13, x14>>, x15 \subseteq x15'
    PROVE  S!OnTheWire'
  <1>1. \A v : S!Truth(x5, x9, Len(x13), x15, v) => S!Truth(x5, x9, Len(x13), x15', v)
    BY DEF S!Truth
  <1> QED
    BY <1>1 DEF S!ServiceInv, S!OnTheWire

\* One more frame.
LEMMA WireGrows ==
    ASSUME S!ServiceInv, UNCHANGED <<x5, x6, x7, x9, x13, x14, x15>>,
           \E f \in S!Frames :
              /\ x3' = Append(x3, f) /\ f.serial <= x7
              /\ x6 /\ f.serial = x7 /\ f.from \notin Strangers =>
                    S!Truth(x5, x9, Len(x13), x15, f.val)
    PROVE  S!OnTheWire'
  <1>1. PICK f \in S!Frames :
              /\ x3' = Append(x3, f) /\ f.serial <= x7
              /\ x6 /\ f.serial = x7 /\ f.from \notin Strangers =>
                    S!Truth(x5, x9, Len(x13), x15, f.val)
    OBVIOUS
  <1>2. x3 \in Seq(S!Frames) /\ Len(x3) \in Nat
    BY ServiceTypes, LenProperties
  <1>3. /\ x3' \in Seq(S!Frames) /\ Len(x3') = Len(x3) + 1
        /\ x3'[Len(x3) + 1] = f /\ \A i \in 1 .. Len(x3) : x3'[i] = x3[i]
    BY <1>1, <1>2, AppendProperties
  <1>4. \A i \in 1 .. Len(x3') : i \in 1 .. Len(x3) \/ x3'[i] = f
    <2> DEFINE k == Len(x3)
               m == Len(x3')
    <2>1. k \in Nat /\ m = k + 1 /\ x3'[k + 1] = f
      BY <1>2, <1>3
    <2> HIDE DEF k, m
    <2>2. \A i \in 1 .. m : i \in 1 .. k \/ i = k + 1
      BY <2>1
    <2>3. \A i \in 1 .. m : i \in 1 .. k \/ x3'[i] = f
      BY <2>1, <2>2
    <2> QED
      BY <2>3 DEF k, m
  <1>5. \A i \in 1 .. Len(x3') : x3'[i] = f \/ (i \in 1 .. Len(x3) /\ x3'[i] = x3[i])
    BY <1>3, <1>4
  <1>6. S!OnTheWire
    BY DEF S!ServiceInv
  <1> QED
    BY <1>1, <1>3, <1>5, <1>6, Zenon DEF S!OnTheWire

LEMMA OneMoreEvent ==
    ASSUME S!ServiceInv, S!Disturbs PROVE x4' \in 0 .. MaxEvents
  <1>1. x4 \in 0 .. MaxEvents /\ x4 < MaxEvents /\ x4' = x4 + 1
    BY ServiceTypes DEF S!Disturbs
  <1>2. MaxEvents \in Nat
    BY ServiceConstants
  <1> QED
    BY <1>1, <1>2

LEMMA UnitStep ==
    ASSUME S!ServiceInv, NEW u \in S!Unit, S!UnitChanges(u) PROVE S!ServiceInv'
  <1>1. /\ x14 = "none" /\ x4' = x4 + 1 /\ x4 < MaxEvents /\ x2' = u
        /\ x15' = x15 \cup {u}
        /\ UNCHANGED <<x1, x3, x5, x6, x7, x8, x9, x10, x11, x12, x13, x14>>
    BY DEF S!UnitChanges, S!Disturbs, S!Busy, S!query
  <1>2. x4' \in 0 .. MaxEvents
    BY OneMoreEvent DEF S!UnitChanges
  <1> QED
    BY <1>1, <1>2, ServiceControl, QueryRests, WireRests

LEMMA HolderStep ==
    ASSUME S!ServiceInv, NEW c \in S!Conns \cup {""}, S!HolderChanges(c)
    PROVE  S!ServiceInv'
  <1>1. /\ x14 = "none" /\ x4' = x4 + 1 /\ x4 < MaxEvents /\ x1' = c
        /\ UNCHANGED <<x2, x3, x5, x6, x7, x8, x9, x10, x11, x12, x13, x14, x15>>
    BY DEF S!HolderChanges, S!Disturbs, S!Busy, S!query
  <1>2. x4' \in 0 .. MaxEvents
    BY OneMoreEvent DEF S!HolderChanges
  <1>3. x2' \in S!Unit /\ x2' \in x15' /\ x15' \subseteq S!Unit /\ x8' \in BOOLEAN
    BY <1>1, ServiceTypes, ServiceControl
  <1> QED
    BY <1>1, <1>2, <1>3, QueryRests, WireRests

LEMMA FrameIn ==
    ASSUME NEW c \in S!Conns \cup {"bus"}, NEW n \in Nat, NEW v \in S!Vals
    PROVE  /\ S!Frame(c, n, v) \in S!Frames /\ S!Frame(c, n, v).from = c
           /\ S!Frame(c, n, v).serial = n /\ S!Frame(c, n, v).val = v
  BY DEF S!Frame, S!Frames

\* Frames that nobody asked for.
LEMMA UnaskedStep ==
    ASSUME S!ServiceInv, x5 # "open", S!Disturbs, S!Busy, UNCHANGED <<x1, x2, x8, x15>>,
           \/ x3' = Append(x3, S!Frame("bus", 0, "signal"))
           \/ \E c \in Strangers, v \in S!Vals : x3' = Append(x3, S!Frame(c, x7, v))
    PROVE  S!ServiceInv'
  <1>1. /\ x14 = "none" /\ x4' = x4 + 1 /\ x4 < MaxEvents
        /\ UNCHANGED <<x5, x6, x7, x9, x10, x11, x12, x13, x14>>
    BY DEF S!Disturbs, S!Busy, S!query
  <1>2. x4' \in 0 .. MaxEvents /\ x7 \in Nat
    <2>1. x7 \in 0 .. 7
      BY ServiceTypes
    <2>2. x7 \in Nat
      BY <2>1
    <2> QED
      BY <2>2, OneMoreEvent
  <1>3. \E f \in S!Frames :
              /\ x3' = Append(x3, f) /\ f.serial <= x7
              /\ x6 /\ f.serial = x7 /\ f.from \notin Strangers =>
                    S!Truth(x5, x9, Len(x13), x15, f.val)
    <2>1. CASE x3' = Append(x3, S!Frame("bus", 0, "signal"))
      <3> DEFINE f == S!Frame("bus", 0, "signal")
      <3>1. f \in S!Frames /\ f.serial = 0
        BY FrameIn DEF S!Vals
      <3>2. x6 => x7 # 0
        <4>1. x6 => x7 = S!Answered + 1
          BY <1>1 DEF S!ServiceInv, S!InStep
        <4>2. S!Answered \in Nat
          BY ServiceTypes, LenProperties DEF S!Answered
        <4> QED
          BY <4>1, <4>2
      <3> HIDE DEF f
      <3>3. f.serial <= x7
        BY <1>2, <3>1
      <3> QED
        BY <2>1, <3>1, <3>2, <3>3 DEF f
    <2>2. ASSUME NEW c \in Strangers, NEW v \in S!Vals, x3' = Append(x3, S!Frame(c, x7, v))
          PROVE  \E f \in S!Frames :
              /\ x3' = Append(x3, f) /\ f.serial <= x7
              /\ x6 /\ f.serial = x7 /\ f.from \notin Strangers =>
                    S!Truth(x5, x9, Len(x13), x15, f.val)
      <3> DEFINE f == S!Frame(c, x7, v)
      <3>1. f \in S!Frames /\ f.serial = x7 /\ f.from = c
        BY <1>2, FrameIn DEF S!Conns
      <3> HIDE DEF f
      <3>3. f.serial <= x7
        BY <1>2, <3>1
      <3> QED
        BY <2>2, <3>1, <3>3 DEF f
    <2> QED
      BY <2>1, <2>2
  <1>4. S!OnTheWire'
    BY <1>1, <1>3, WireGrows
  <1>5. /\ x1' \in S!Conns \cup {""} /\ x2' \in S!Unit /\ x2' \in x15'
        /\ x15' \subseteq S!Unit /\ x8' \in BOOLEAN
    BY ServiceTypes, ServiceControl
  <1> QED
    BY <1>1, <1>2, <1>4, <1>5, QueryRests

\* The answer of the bus or of systemd is true.
LEMMA AnswerStep ==
    ASSUME S!ServiceInv, S!Answer PROVE S!ServiceInv'
  <1>1. /\ x6 /\ x14 = "none" /\ x8' = FALSE
        /\ UNCHANGED <<x1, x2, x4, x5, x6, x7, x9, x10, x11, x12, x13, x14, x15>>
    BY DEF S!Answer, S!Busy, S!query, S!env
  <1>2. x7 \in Nat
    <2>1. x7 \in 0 .. 7
      BY ServiceTypes
    <2> QED
      BY <2>1
  <1> DEFINE k == Len(x13)
  <1>3. \E c \in S!Conns \cup {"bus"}, v \in S!Vals :
           x3' = Append(x3, S!Frame(c, x7, v)) /\ S!Truth(x5, x9, k, x15, v)
    <2>1. CASE x3' = Append(x3, S!Frame("bus", x7, "error"))
      <3>1. "error" \in S!Vals /\ S!Truth(x5, x9, k, x15, "error")
        BY ServiceConstants DEF S!Vals, S!Truth
      <3> QED
        BY <2>1, <3>1
    <2>2. CASE x3' = Append(x3, S!Frame(S!Callee, x7, S!TrueAnswer))
               /\ S!Callee \in {"bus", "systemd"}
      <3>1. x2 \in x15 /\ x2 \in S!Unit /\ x1 \in S!Conns \cup {""}
            /\ x5 \in {"open", "owner", "user", "unit", "get"}
        BY ServiceTypes, ServiceControl
      <3>2. x5 # "open"
        BY <1>1, <3>1 DEF S!ServiceInv, S!InStep
      <3>3. CASE x5 = "owner"
        <4>1. S!TrueAnswer \in S!Vals
          BY <3>1, <3>3 DEF S!TrueAnswer, S!Vals
        <4> QED
          BY <2>2, <3>3, <4>1 DEF S!Truth, S!Conns
      <3>4. CASE x5 = "user"
        <4>1. S!TrueAnswer \in S!Vals /\ (S!TrueAnswer = "root" => x9 = "systemd")
          BY <3>4 DEF S!TrueAnswer, S!Vals
        <4> QED
          BY <2>2, <3>4, <4>1 DEF S!Truth, S!Conns
      <3>5. CASE x5 = "unit"
        <4>1. S!TrueAnswer \in S!Vals /\ (S!TrueAnswer = "nounit" => ~x2.loaded)
          BY <3>5 DEF S!TrueAnswer, S!Vals
        <4> QED
          BY <2>2, <3>1, <3>5, <4>1 DEF S!Truth, S!Conns
      <3>6. CASE x5 = "get"
        <4>1. S!TrueAnswer = S!Prop(x2, k + 1)
          BY <3>6 DEF S!TrueAnswer
        <4>2. S!TrueAnswer \in S!Vals
          BY <3>1, <4>1, PropKnown DEF S!Vals
        <4> QED
          BY <2>2, <3>1, <3>6, <4>1, <4>2 DEF S!Truth, S!Conns
      <3> QED
        BY <3>1, <3>2, <3>3, <3>4, <3>5, <3>6
    <2> QED
      BY <2>1, <2>2 DEF S!Answer
  <1> HIDE DEF k
  <1>4. PICK c \in S!Conns \cup {"bus"}, v \in S!Vals :
           x3' = Append(x3, S!Frame(c, x7, v)) /\ S!Truth(x5, x9, k, x15, v)
    BY <1>3
  <1>5. /\ S!Frame(c, x7, v) \in S!Frames /\ S!Frame(c, x7, v).serial = x7
        /\ S!Frame(c, x7, v).val = v /\ x7 <= x7
    BY <1>2, FrameIn
  <1>6. S!OnTheWire'
    BY <1>1, <1>4, <1>5, WireGrows DEF k
  <1>7. /\ x1' \in S!Conns \cup {""} /\ x2' \in S!Unit /\ x2' \in x15'
        /\ x15' \subseteq S!Unit /\ x8' \in BOOLEAN /\ x4' \in 0 .. MaxEvents
    BY <1>1, ServiceTypes, ServiceControl
  <1> QED
    BY <1>1, <1>6, <1>7, QueryRests

\* The query goes on to its next call; nothing is pending.
LEMMA QueryMoves ==
    ASSUME S!ServiceInv, UNCHANGED <<x1, x2, x4, x7, x15>>, x3' \in Seq(S!Frames),
           \A i \in 1 .. Len(x3') : x3'[i].serial <= x7,
           x8' \in BOOLEAN, x6' \in BOOLEAN, x12' \in BOOLEAN, x11' \in 0 .. MaxTotal,
           x5' \in {"open", "owner", "user", "unit", "get"},
           x9' \in S!Conns \cup {""}, x10' \in S!Conns \cup {""}, x14' \in S!Codes,
           x14' = "none" => ~x6', Len(x13') <= 4,
           S!InStep', S!OwnerKnown',
           \A i \in 1 .. Len(x13') : \E u \in x15 : x13'[i] = S!Prop(u, i),
           x14' = "unit_not_loaded" => \E u \in x15 : ~u.loaded
    PROVE  S!ServiceInv'
  <1>1. S!TypeOK'
    <2>1. Len(x13') <= Len(S!Props)
      BY FourProps
    <2>2. S!TypeOK
      BY DEF S!ServiceInv
    <2> QED
      BY <2>1, <2>2, Zenon DEF S!TypeOK
  <1>2. S!OnTheWire'
    BY Zenon DEF S!OnTheWire
  <1>3. S!Seen'
    BY DEF S!ServiceInv, S!Seen
  <1> QED
    BY <1>1, <1>2, <1>3 DEF S!ServiceInv

LEMMA OpenStep ==
    ASSUME S!ServiceInv, S!Open PROVE S!ServiceInv'
  <1> USE DEF S!ServiceInv
  <1>1. /\ x5 = "open" /\ UNCHANGED <<x1, x2, x3, x4, x6, x7, x8, x9, x10, x11, x12, x13, x15>>
        /\ x13 = << >> /\ x10 = ""
    BY DEF S!Open, S!Report, S!env, S!bus, S!InStep, S!OwnerKnown
  <1>2. \/ x5' = "owner" /\ x14' = x14
        \/ x5' = "open" /\ x14' \in {"bus_unavailable", "permission_denied"}
    BY <1>1 DEF S!Open, S!Report
  <1>3. x14' \in S!Codes
    BY <1>2, ServiceControl DEF S!Codes
  <1>4. S!InStep'
    <2>1. S!Answered' = S!Answered
      BY <1>1, <1>2 DEF S!Answered
    <2> QED
      BY <1>1, <1>2, <2>1 DEF S!InStep
  <1>5. S!OwnerKnown'
    BY <1>1, <1>2 DEF S!OwnerKnown
  <1>6. S!TypeOK'
    <2>1. S!TypeOK
      OBVIOUS
    <2> QED
      BY <1>1, <1>2, <1>3, <2>1, Zenon DEF S!TypeOK
  <1>7. S!Seen'
    BY <1>1, <1>2 DEF S!Seen
  <1>8. S!OnTheWire'
    BY <1>1, <1>2 DEF S!OnTheWire, S!Truth
  <1> QED
    BY <1>4, <1>5, <1>6, <1>7, <1>8

\* A call has a serial of its own: no frame is on the wire that has it.
LEMMA CallStep ==
    ASSUME S!ServiceInv, S!Call PROVE S!ServiceInv'
  <1> USE DEF S!ServiceInv
  <1>1. /\ x14 = "none" /\ x5 # "open" /\ ~x6 /\ x6' = TRUE /\ x7' = x7 + 1 /\ x8' = TRUE
        /\ UNCHANGED <<x1, x2, x3, x4, x5, x9, x10, x11, x12, x13, x14, x15>>
    BY DEF S!Call, S!env
  <1> DEFINE k == Len(x13)
  <1>2. k \in Nat /\ k < 4 /\ x7 = S!Answered /\ x13 \in Seq(S!Vals)
    <2>1. x13 \in Seq(S!Vals) /\ Len(x13) < Len(S!Props)
      BY <1>1 DEF S!InStep
    <2>2. x7 = S!Answered + 0 /\ S!Answered \in Int
      <3>1. Len(x13) \in Nat
        BY <2>1, LenProperties
      <3>2. x7 = S!Answered + (IF x6 THEN 1 ELSE 0)
        BY <1>1 DEF S!InStep
      <3> QED
        BY <1>1, <3>1, <3>2 DEF S!Answered
    <2>3. x7 = S!Answered
      BY <2>2
    <2> QED
      BY <2>1, <2>3, LenProperties, FourProps
  <1>3. S!Answered \in 0 .. 6 /\ S!Answered' = S!Answered
    <2> DEFINE m == k
    <2>1. m \in 0 .. 3
      <3>1. m \in Nat /\ m < 4
        BY <1>2
      <3> HIDE DEF m
      <3> QED
        BY <3>1
    <2>2. S!Answered \in {0, 1, 2, 3 + k}
      BY DEF S!Answered
    <2>4. S!Answered \in {0, 1, 2, 3 + m}
      BY <2>2
    <2>3. S!Answered' = S!Answered
      BY <1>1 DEF S!Answered
    <2> HIDE DEF m
    <2> QED
      BY <2>1, <2>3, <2>4
  <1> HIDE DEF k
  <1>4. x7' \in 0 .. 7 /\ x7 \in Nat /\ x7' = S!Answered' + 1
    BY <1>1, <1>2, <1>3
  <1>5. S!TypeOK'
    <2>1. S!TypeOK
      OBVIOUS
    <2> QED
      BY <1>1, <1>4, <2>1, Zenon DEF S!TypeOK
  <1>6. S!InStep'
    BY <1>1, <1>4 DEF S!InStep
  <1>7. S!OwnerKnown' /\ S!Seen'
    BY <1>1 DEF S!OwnerKnown, S!Seen
  <1>8. S!OnTheWire'
    <2>1. x3 \in Seq(S!Frames) /\ \A i \in 1 .. Len(x3) : x3[i].serial <= x7
      BY DEF S!OnTheWire
    <2>2. \A i \in 1 .. Len(x3) : x3[i].serial \in Nat
      <3> SUFFICES ASSUME NEW i \in 1 .. Len(x3) PROVE x3[i].serial \in Nat
        OBVIOUS
      <3>1. x3[i] \in S!Frames
        BY <2>1, ElementOfSeq
      <3> QED
        BY <3>1 DEF S!Frames
    <2>3. \A n \in Nat : n <= x7 => n <= x7' /\ n # x7'
      BY <1>1, <1>4
    <2>4. \A i \in 1 .. Len(x3) : x3[i].serial <= x7' /\ x3[i].serial # x7'
      BY <2>1, <2>2, <2>3, Zenon
    <2> QED
      BY <1>1, <2>1, <2>4, Zenon DEF S!OnTheWire
  <1> QED
    BY <1>5, <1>6, <1>7, <1>8

LEMMA FailureCode ==
    ASSUME NEW v
    PROVE  /\ S!Failure(v) \in S!Codes \ {"", "none"}
           /\ S!Failure(v) = "unit_not_loaded" => x5 = "unit" /\ v = "nounit"
  BY DEF S!Failure, S!Codes

LEMMA FailStep ==
    ASSUME S!ServiceInv, S!CallFails PROVE S!ServiceInv'
  <1> USE DEF S!ServiceInv
  <1>1. /\ x14' = S!Failure("error")
        /\ UNCHANGED <<x1, x2, x3, x4, x5, x6, x7, x8, x9, x10, x11, x12, x13, x15>>
    BY DEF S!CallFails, S!Report, S!env, S!bus
  <1>2. x14' \in S!Codes /\ x14' \notin {"", "none", "unit_not_loaded"}
    <2>1. S!Failure("error") \in S!Codes \ {"", "none"} /\ S!Failure("error") # "unit_not_loaded"
      BY DEF S!Failure, S!Codes
    <2> QED
      BY <1>1, <2>1
  <1>3. S!TypeOK'
    <2>1. S!TypeOK
      OBVIOUS
    <2> QED
      BY <1>1, <1>2, <2>1, Zenon DEF S!TypeOK
  <1>4. S!InStep' /\ S!OwnerKnown' /\ S!Seen' /\ S!OnTheWire'
    BY <1>1, <1>2 DEF S!InStep, S!OwnerKnown, S!Seen, S!OnTheWire
  <1> QED
    BY <1>3, <1>4

\* The first frame is taken off the wire.
LEMMA WireTail ==
    ASSUME S!ServiceInv, x3 # << >>, x3' = Tail(x3)
    PROVE  /\ x3' \in Seq(S!Frames) /\ Head(x3) \in S!Frames /\ Head(x3) = x3[1]
           /\ 1 \in 1 .. Len(x3)
           /\ \A i \in 1 .. Len(x3') : \E j \in 1 .. Len(x3) : x3'[i] = x3[j]
  <1>1. x3 \in Seq(S!Frames)
    BY ServiceTypes
  <1>2. /\ Head(x3) \in S!Frames /\ x3' \in Seq(S!Frames) /\ Len(x3') = Len(x3) - 1
        /\ \A i \in 1 .. Len(x3') : x3'[i] = x3[i + 1]
    BY <1>1, HeadTailProperties
  <1>3. Len(x3) \in Nat \ {0}
    BY <1>1, EmptySeq
  <1> DEFINE m == Len(x3)
             k == Len(x3')
  <1>4. m \in Nat \ {0} /\ k = m - 1
    BY <1>2, <1>3
  <1> HIDE DEF m, k
  <1>5. 1 \in 1 .. m /\ \A i \in 1 .. k : i + 1 \in 1 .. m
    BY <1>4
  <1>6. Head(x3) = x3[1]
    BY <1>1
  <1> QED
    BY <1>2, <1>5, <1>6 DEF m, k

\* A frame that answers the pending call.
LEMMA AnswerTrue ==
    ASSUME S!ServiceInv, x3 # << >>, x3' = Tail(x3), x14 = "none", x6,
           Head(x3).serial = x7, S!Speaker(Head(x3).from)
    PROVE  S!Truth(x5, x9, Len(x13), x15, Head(x3).val) /\ Head(x3).val \in S!Vals
  <1>1. Head(x3).from \notin Strangers
    BY ServiceConstants DEF S!Speaker, S!ServiceInv, S!OwnerKnown
  <1>2. S!OnTheWire
    BY DEF S!ServiceInv
  <1>3. S!Truth(x5, x9, Len(x13), x15, Head(x3).val)
    BY <1>1, <1>2, WireTail DEF S!OnTheWire
  <1>4. Head(x3).val \in S!Vals
    BY WireTail DEF S!Frames
  <1> QED
    BY <1>3, <1>4

\* One more value.
LEMMA ValueAdded ==
    ASSUME S!ServiceInv, x14 = "none", x5 = "get", NEW v \in S!Vals,
           S!Truth(x5, x9, Len(x13), x15, v), v \in Words \cup {"unit", "other"},
           x13' = Append(x13, v)
    PROVE  /\ x13' \in Seq(S!Vals) /\ Len(x13') = Len(x13) + 1 /\ Len(x13') \in 1 .. 4
           /\ \A i \in 1 .. Len(x13') : \E u \in x15 : x13'[i] = S!Prop(u, i)
  <1>1. x13 \in Seq(S!Vals) /\ Len(x13) < Len(S!Props)
    BY DEF S!ServiceInv, S!InStep
  <1>2. /\ x13' \in Seq(S!Vals) /\ Len(x13') = Len(x13) + 1
        /\ x13'[Len(x13) + 1] = v /\ \A i \in 1 .. Len(x13) : x13'[i] = x13[i]
    BY <1>1, AppendProperties
  <1>3. \E u \in x15 : v = S!Prop(u, Len(x13) + 1)
    BY DEF S!Truth
  <1>4. \A i \in 1 .. Len(x13) : \E u \in x15 : x13'[i] = S!Prop(u, i)
    BY <1>2 DEF S!ServiceInv, S!Seen
  <1> DEFINE k == Len(x13)
             m == Len(x13')
  <1>5. k \in Nat /\ k < 4 /\ m = k + 1
    BY <1>1, <1>2, LenProperties, FourProps
  <1> HIDE DEF k, m
  <1>6. m \in 1 .. 4 /\ \A i \in 1 .. m : i \in 1 .. k \/ i = k + 1
    BY <1>5
  <1>7. \A i \in 1 .. m : \E u \in x15 : x13'[i] = S!Prop(u, i)
    BY <1>2, <1>3, <1>4, <1>6 DEF k
  <1> QED
    BY <1>2, <1>6, <1>7 DEF k, m

LEMMA ReceiveStep ==
    ASSUME S!ServiceInv, S!Receive PROVE S!ServiceInv'
  <1> DEFINE f == Head(x3)
             n == Len(x13)
  <1>1. /\ x3 # << >> /\ ~x12 /\ x14 = "none" /\ x3' = Tail(x3)
        /\ UNCHANGED <<x1, x2, x4, x7, x8, x15>>
    BY DEF S!Receive, S!env
  <1>2. x3' \in Seq(S!Frames) /\ \A i \in 1 .. Len(x3') : x3'[i].serial <= x7
    BY <1>1, WireTail DEF S!ServiceInv, S!OnTheWire
  <1>3. x11' \in 0 .. MaxTotal /\ x12' \in BOOLEAN
    <2>1. \/ x11' = x11 /\ x12' = TRUE
          \/ x11' = x11 + 1 /\ x11 < MaxTotal /\ x12' = FALSE
      BY DEF S!Receive, S!Speaker
    <2>2. x11 \in 0 .. MaxTotal /\ MaxTotal \in Nat
      BY ServiceTypes, ServiceConstants
    <2>3. x11' \in 0 .. MaxTotal
      BY <2>1, <2>2
    <2> QED
      BY <2>1, <2>3
  <1>4. CASE UNCHANGED <<x5, x6, x9, x10, x13, x14>>
    <2>1. S!OnTheWire
      BY DEF S!ServiceInv
    <2>2. S!OnTheWire'
      BY <1>1, <1>2, <1>4, <2>1, WireTail DEF S!OnTheWire
    <2>3. S!TypeOK'
      <3>1. S!TypeOK
        BY DEF S!ServiceInv
      <3> QED
        BY <1>1, <1>3, <1>4, <3>1, Zenon DEF S!TypeOK
    <2>4. S!InStep' /\ S!OwnerKnown' /\ S!Seen'
      BY <1>1, <1>4 DEF S!ServiceInv, S!InStep, S!Answered, S!OwnerKnown, S!Seen
    <2> QED
      BY <2>2, <2>3, <2>4 DEF S!ServiceInv
  <1>5. CASE x6 /\ f.serial = x7 /\ S!Speaker(f.from) /\ x6' = FALSE
             /\ (S!Got(f.val) \/ S!GotError(f.val))
    <2>1. S!Truth(x5, x9, n, x15, f.val) /\ f.val \in S!Vals
      BY <1>1, <1>5, AnswerTrue
    <2>2. /\ x13 \in Seq(S!Vals) /\ n \in Nat /\ n < 4
          /\ (x5 # "get" => x13 = << >>) /\ x7 = S!Answered + 1
      BY <1>1, <1>5, FourProps, LenProperties DEF S!ServiceInv, S!InStep
    <2>3. /\ x10 \in {"", "systemd"} /\ (x5 \in {"open", "owner", "user"} => x10 = "")
          /\ (x5 \in {"unit", "get"} => x9 = "systemd")
      BY DEF S!ServiceInv, S!OwnerKnown
    <2>4. /\ x9 \in S!Conns \cup {""} /\ x10 \in S!Conns \cup {""} /\ x14 \in S!Codes
          /\ x5 \in {"open", "owner", "user", "unit", "get"} /\ x8 \in BOOLEAN
      BY ServiceControl
    <2>5. \A i \in 1 .. n : \E u \in x15 : x13[i] = S!Prop(u, i)
      BY DEF S!ServiceInv, S!Seen
    <2>6. "none" \in S!Codes /\ Len(<< >>) = 0 /\ Len(S!Props) = 4
      BY FourProps, EmptySeq DEF S!Codes
    <2>12. n <= 4
      BY <2>2
    <2> USE <1>1, <1>2, <1>3, <1>5
    <2>7. CASE S!GotOwner(f.val)
      <3>1. /\ x5 = "owner" /\ x5' = "user" /\ x9' \in S!Conns
            /\ UNCHANGED <<x10, x13, x14>>
        BY <2>7 DEF S!GotOwner
      <3>2. S!Answered = 0 /\ S!Answered' = 1
        BY <3>1 DEF S!Answered
      <3>3. S!InStep'
        BY <2>2, <2>6, <3>1, <3>2 DEF S!InStep
      <3>4. S!OwnerKnown'
        BY <2>3, <3>1 DEF S!OwnerKnown
      <3> QED
        BY <2>4, <2>5, <2>6, <2>12, <3>1, <3>3, <3>4, QueryMoves
    <2>8. CASE S!GotUser(f.val)
      <3>1. /\ x5 = "user" /\ x5' = "unit" /\ x10' = x9 /\ x9 = "systemd"
            /\ UNCHANGED <<x9, x13, x14>>
        BY <2>1, <2>8 DEF S!GotUser, S!Truth
      <3>2. S!Answered = 1 /\ S!Answered' = 2
        BY <3>1 DEF S!Answered
      <3>3. S!InStep'
        BY <2>2, <2>6, <3>1, <3>2 DEF S!InStep
      <3>4. S!OwnerKnown'
        BY <2>3, <3>1 DEF S!OwnerKnown
      <3> QED
        BY <2>4, <2>5, <2>6, <2>12, <3>1, <3>3, <3>4, QueryMoves
    <2>9. CASE S!GotUnit(f.val)
      <3>1. x5 = "unit" /\ x5' = "get" /\ UNCHANGED <<x9, x10, x13, x14>>
        BY <2>9 DEF S!GotUnit
      <3>2. S!Answered = 2 /\ S!Answered' = 3
        BY <2>2, <2>6, <3>1 DEF S!Answered
      <3>3. S!InStep'
        BY <2>2, <2>6, <3>1, <3>2 DEF S!InStep
      <3>4. S!OwnerKnown'
        BY <2>3, <3>1 DEF S!OwnerKnown
      <3> QED
        BY <2>4, <2>5, <2>6, <2>12, <3>1, <3>3, <3>4, QueryMoves
    <2>10. CASE S!GotValue(f.val)
      <3>1. /\ x5 = "get" /\ x5' = "get" /\ x13' = Append(x13, f.val)
            /\ f.val \in Words \cup {"unit", "other"} /\ UNCHANGED <<x9, x10>>
            /\ x14' = IF Len(x13') = Len(S!Props) THEN S!Verdict(x13') ELSE x14
        BY <2>10 DEF S!GotValue
      <3>2. /\ x13' \in Seq(S!Vals) /\ Len(x13') = n + 1 /\ Len(x13') \in 1 .. 4
            /\ \A i \in 1 .. Len(x13') : \E u \in x15 : x13'[i] = S!Prop(u, i)
        BY <2>1, <3>1, ValueAdded
      <3>3. S!Verdict(x13') \in {"alias_mismatch", "invalid_response", ""}
        BY DEF S!Verdict
      <3> DEFINE m == Len(x13')
      <3>4. /\ m = 4 => x14' \in {"alias_mismatch", "invalid_response", ""}
            /\ m # 4 => x14' = "none"
        BY <2>6, <3>1, <3>3
      <3>5. x14' \in S!Codes /\ x14' # "unit_not_loaded"
        BY <3>4 DEF S!Codes
      <3>6. x7 = m + 3 /\ m \in 1 .. 4
        <4>1. S!Answered = 3 + n
          BY <3>1 DEF S!Answered
        <4> HIDE DEF n
        <4> QED
          BY <2>2, <3>2, <4>1
      <3>7. S!InStep'
        <4>1. S!Answered' = 3 + m
          BY <3>1 DEF S!Answered
        <4> HIDE DEF m
        <4>2. x7 = 3 + m + 0 /\ (m # 4 => m < 4) /\ m <= 4
          BY <3>6
        <4>3. S!Answered' + 0 = x7
          BY <4>1, <4>2
        <4> QED
          BY <2>6, <3>1, <3>2, <3>4, <4>2, <4>3 DEF S!InStep, m
      <3>8. S!OwnerKnown'
        BY <2>3, <3>1 DEF S!OwnerKnown
      <3>9. Len(x13') <= 4
        BY <3>2
      <3> QED
        BY <2>4, <3>1, <3>2, <3>5, <3>7, <3>8, <3>9, QueryMoves
    <2>11. CASE S!GotError(f.val)
      <3>1. x14' = S!Failure(f.val) /\ UNCHANGED <<x5, x9, x10, x13>>
        BY <2>11 DEF S!GotError
      <3>2. /\ x14' \in S!Codes \ {"", "none"}
            /\ x14' = "unit_not_loaded" => x5 = "unit" /\ f.val = "nounit"
        BY <3>1 DEF S!Failure, S!Codes
      <3>3. x14' = "unit_not_loaded" => \E u \in x15 : ~u.loaded
        BY <2>1, <3>2 DEF S!Truth
      <3>4. S!InStep' /\ S!OwnerKnown'
        BY <2>2, <2>3, <3>1, <3>2 DEF S!InStep, S!OwnerKnown
      <3> QED
        BY <2>4, <2>5, <2>12, <3>1, <3>2, <3>3, <3>4, QueryMoves
    <2> QED
      BY <2>7, <2>8, <2>9, <2>10, <2>11 DEF S!Got
  <1> QED
    BY <1>4, <1>5 DEF S!Receive

LEMMA ServiceInit == S!Init => S!ServiceInv
  <1> SUFFICES ASSUME S!Init PROVE S!ServiceInv
    OBVIOUS
  <1>1. /\ x1 \in S!Conns \cup {""} /\ x2 \in S!Unit /\ x4 = 0 /\ x3 = << >> /\ x8 = FALSE
        /\ x5 = "open" /\ x6 = FALSE /\ x7 = 0 /\ x9 = "" /\ x10 = "" /\ x11 = 0
        /\ x12 = FALSE /\ x13 = << >> /\ x14 = "none" /\ x15 = {x2}
    BY DEF S!Init
  <1>2. /\ Len(<< >>) = 0 /\ << >> \in Seq(S!Frames) /\ << >> \in Seq(S!Vals)
        /\ Len(S!Props) = 4
    BY EmptySeq, FourProps
  <1>3. Len(x13) = 0 /\ Len(x3) = 0
    BY <1>1, <1>2
  <1>4. S!TypeOK
    <2>5. MaxEvents \in Nat /\ MaxTotal \in Nat
      BY ServiceConstants
    <2>1. 0 \in 0 .. MaxEvents /\ 0 \in 0 .. 7 /\ 0 \in 0 .. MaxTotal
      BY <2>5
    <2>2. Len(x13) <= Len(S!Props) /\ "none" \in S!Codes
      BY <1>2, <1>3 DEF S!Codes
    <2>3. x4 \in 0 .. MaxEvents /\ x7 \in 0 .. 7 /\ x11 \in 0 .. MaxTotal
      BY <1>1, <2>1, Zenon
    <2>4. x15 \subseteq S!Unit /\ x14 \in S!Codes
      BY <1>1, <2>2
    <2> QED
      BY <1>1, <2>2, <2>3, <2>4, Zenon DEF S!TypeOK
  <1>5. S!InStep /\ S!OwnerKnown
    <2>1. S!Answered = 0
      BY <1>1 DEF S!Answered
    <2>2. S!OwnerKnown
      BY <1>1 DEF S!OwnerKnown
    <2>3. Len(x13) < Len(S!Props)
      BY <1>2, <1>3
    <2>4. x7 = S!Answered + (IF x6 THEN 1 ELSE 0)
      <3>1. ~x6 /\ x7 = 0
        BY <1>1
      <3>2. (IF x6 THEN 1 ELSE 0) = 0
        BY <3>1
      <3>3. 0 = 0 + 0
        OBVIOUS
      <3> QED
        BY <2>1, <3>1, <3>2, <3>3, Zenon
    <2>5. S!InStep
      BY <1>1, <1>2, <2>3, <2>4 DEF S!InStep
    <2> QED
      BY <2>2, <2>5
  <1>6. \A i \in 1 .. 0 : FALSE
    OBVIOUS
  <1>7. S!OnTheWire /\ S!Seen
    <2>1. 1 .. Len(x13) = 1 .. 0 /\ 1 .. Len(x3) = 1 .. 0
      BY <1>3
    <2> QED
      BY <1>1, <1>2, <1>6, <2>1 DEF S!OnTheWire, S!Seen
  <1> QED
    BY <1>4, <1>5, <1>7 DEF S!ServiceInv

(***************************************************************************)
(* What a query of a service reports was so at a moment of the query, for  *)
(* any strangers on the bus and any number of frames, changes of the unit  *)
(* and of the owner of systemd's name (internal/service/linux.go).         *)
(***************************************************************************)
THEOREM ServiceHolds == Spec => []ServiceReported
  <1> DEFINE Inv == part = "service" => S!ServiceInv
  <1>1. Init => Inv
    BY ServiceInit DEF Init
  <1>2. Inv /\ [Next]_vars => Inv'
    <2> SUFFICES ASSUME Inv, [Next]_vars, part' = "service" PROVE S!ServiceInv'
      OBVIOUS
    <2>1. part = "service" /\ S!ServiceInv
      BY OnePart
    <2>2. CASE S!Next
      <3>1. ASSUME NEW c \in Strangers,
                   NEW v \in Words \cup {"root", "path", "nounit", "unit"} \cup S!Conns,
                   S!Stray(c, v)
            PROVE  S!ServiceInv'
        <4>1. v \in S!Vals
          BY DEF S!Vals
        <4> QED
          BY <2>1, <3>1, <4>1, UnaskedStep DEF S!Stray, S!env
      <3>2. CASE S!Signal
        BY <2>1, <3>2, UnaskedStep DEF S!Signal, S!env
      <3> QED
        BY <2>1, <2>2, <3>1, <3>2, OpenStep, CallStep, FailStep, AnswerStep, ReceiveStep,
           UnitStep, HolderStep DEF S!Next
    <2>3. CASE UNCHANGED vars
      <3>1. /\ UNCHANGED <<x1, x2, x3, x4, x5, x6, x7, x8>>
            /\ UNCHANGED <<x9, x10, x11, x12, x13, x14, x15>>
        BY <2>3 DEF vars, above7, above8, above11
      <3>2. S!TypeOK' /\ S!OwnerKnown' /\ S!Seen'
        BY <2>1, <3>1 DEF S!ServiceInv, S!TypeOK, S!OwnerKnown, S!Seen
      <3>3. S!InStep'
        BY <2>1, <3>1 DEF S!ServiceInv, S!InStep, S!Answered
      <3>4. S!OnTheWire'
        BY <2>1, <3>1, WireRests
      <3> QED
        BY <3>2, <3>3, <3>4 DEF S!ServiceInv
    <2> QED
      BY <2>1, <2>2, <2>3 DEF Next, Rotate, Enroll, Administer,
         Admit, Beat, AuditFiles, Read, CheckFrame, Query
  <1>3. Inv => ServiceReported
    <2> SUFFICES ASSUME S!ServiceInv PROVE S!TypeOK /\ S!ReportTrue
      BY DEF ServiceReported
    <2>1. S!ReportTrue
      BY DEF S!ServiceInv, S!InStep, S!Seen, S!ReportTrue
    <2> QED
      BY <2>1 DEF S!ServiceInv
  <1> QED
    BY <1>1, <1>2, <1>3, PTL DEF Spec

-----------------------------------------------------------------------------
(* A frame of the bus.  x2 and x3 are the lengths it declares, x4 its      *)
(* size, x5 what is read next, x6 the cursor, x7 the end of its slice, x12 *)
(* the last byte read and x13 those that were checked.                     *)

LEMMA LessTransitive == \A a, b, c \in Nat : a <= b /\ b <= c => a <= c
  OBVIOUS

LEMMA LessOrEqual ==
    \A a, b \in Nat : (a <= b /\ a >= b => a = b) /\ (a <= b => a < b \/ a = b)
  OBVIOUS

LEMMA UpFacts ==
    ASSUME NEW n \in Nat
    PROVE  /\ B!Up(n, 4) \in Nat /\ n <= B!Up(n, 4)
           /\ B!Up(n, 8) \in Nat /\ n <= B!Up(n, 8)
  <1>1. (n + 3) \div 4 \in Nat /\ n <= ((n + 3) \div 4) * 4
    OBVIOUS
  <1>2. (n + 7) \div 8 \in Nat /\ n <= ((n + 7) \div 8) * 8
    OBVIOUS
  <1>3. n + 4 - 1 = n + 3 /\ n + 8 - 1 = n + 7
    OBVIOUS
  <1> QED
    BY <1>1, <1>2, <1>3 DEF B!Up

LEMMA FrameTypes ==
    ASSUME B!FrameInv
    PROVE  /\ x2 \in Nat /\ x3 \in Nat /\ x4 \in Nat /\ x6 \in Nat /\ x7 \in Nat
           /\ x2 <= MaxHeader /\ x3 <= MaxBody /\ x4 <= MaxFrame /\ x6 <= x4 /\ x7 <= x4
  <1>1. MaxHeader \in Nat /\ MaxBody \in Nat /\ MaxFrame \in Nat
    BY PartsAssumption DEF B!BusFrameAssumption
  <1>2. /\ x2 \in 0 .. MaxHeader /\ x3 \in 0 .. MaxBody /\ x4 \in 0 .. MaxFrame
        /\ x6 \in 0 .. x4 /\ x7 \in 0 .. x4
    BY DEF B!FrameInv, B!TypeOK
  <1> QED
    BY <1>1, <1>2

\* The cursor moves within its slice.
LEMMA CursorMoves ==
    ASSUME B!FrameInv, x5 \notin {"read", "frame", "end"}, NEW to \in Nat, NEW next,
           B!Take(to, next), x6 <= to, to <= x4, UNCHANGED x4
    PROVE  /\ x6' = to /\ x5' = next /\ x12' = to - 1 /\ x13' = 0 .. to - 1 /\ 16 <= to
           /\ x6' \in 0 .. x4' /\ x12' \in -1 .. x4' /\ x13' \subseteq 0 .. x4'
  <1>1. x13 = 0 .. x6 - 1 /\ 16 <= x6
    BY DEF B!FrameInv, B!Walked
  <1>2. x6' = to /\ x5' = next /\ x12' = to - 1 /\ x13' = x13 \cup (x6 .. to - 1)
    BY DEF B!Take
  <1>3. x6 \in Nat /\ x4 \in Nat
    BY FrameTypes
  <1>4. (0 .. x6 - 1) \cup (x6 .. to - 1) = 0 .. to - 1
    BY <1>1, <1>3
  <1>5. 16 <= to /\ to \in 0 .. x4 /\ to - 1 \in -1 .. x4 /\ 0 .. to - 1 \subseteq 0 .. x4
    BY <1>1, <1>3
  <1> QED
    BY <1>1, <1>2, <1>4, <1>5

\* A step of the cursor to a place where it reads on in the same slice.
LEMMA CursorStep ==
    ASSUME B!FrameInv, x5 \notin {"read", "frame", "end", "sender"}, NEW to \in Nat,
           NEW next \in {"field", "code", "signature", "value", "sender", "variant", "close"},
           B!Take(to, next), x6 <= to, to <= x7, UNCHANGED <<x1, x2, x3, x4, x7, x14>>,
           next \in {"variant", "close"} <=> x5 \in {"body", "variant", "close"},
           next = "code" => to < x7, next = "sender" => to = x7,
           x8' \in 0 .. 9, x9' \subseteq 1 .. 9, x9 \subseteq x9',
           x10' \in {"", "daemon", "systemd", "other"},
           x11' \in {"", "s", "o", "u", "v", "a"},
           next \in {"signature", "value"} => x8' \in x9',
           x10' # "" => 7 \in x9',
           x5 \in {"body", "variant", "close"} => x10' = x10
    PROVE  B!FrameInv'
  <1>1. to <= x4 /\ x7 <= x4 /\ x4 \in Nat /\ x7 \in Nat
    <2>1. x7 <= x4 /\ x4 \in Nat /\ x7 \in Nat
      BY FrameTypes
    <2> QED
      BY <2>1, LessTransitive, Zenon
  <1>2. /\ x6' = to /\ x5' = next /\ x12' = to - 1 /\ x13' = 0 .. to - 1 /\ 16 <= to
        /\ x6' \in 0 .. x4' /\ x12' \in -1 .. x4' /\ x13' \subseteq 0 .. x4'
    BY <1>1, CursorMoves
  <1>3. B!TypeOK'
    <2>1. B!TypeOK
      BY DEF B!FrameInv
    <2>2. /\ x1' = x1 /\ x2' = x2 /\ x3' = x3 /\ x4' = x4 /\ x7' = x7 /\ x14' = x14
      OBVIOUS
    <2>3. x5' \in {"read", "frame", "field", "code", "signature", "value", "sender",
                   "body", "variant", "close", "end"}
      BY <1>2
    <2> QED
      BY <1>2, <2>1, <2>2, <2>3 DEF B!TypeOK
  <1>4. x14 = "" /\ x14' = ""
    BY DEF B!FrameInv, B!TypeOK
  <1>5. B!Walked' /\ B!NothingUnseen'
    BY <1>2, <1>4 DEF B!Walked, B!NothingUnseen
  <1>6. B!Slices'
    <2>1. B!BodyAt' = B!BodyAt
      BY DEF B!BodyAt
    <2>2. CASE x5 \in {"body", "variant", "close"}
      BY <1>2, <2>2 DEF B!Slices, B!FrameInv
    <2>3. CASE x5 \in {"field", "code", "signature", "value"}
      BY <1>2, <2>1, <2>3 DEF B!Slices, B!FrameInv
    <2>4. x5 \in {"body", "variant", "close", "field", "code", "signature", "value"}
      BY DEF B!FrameInv, B!TypeOK
    <2> QED
      BY <2>2, <2>3, <2>4
  <1>7. B!Named'
    BY <1>2, <1>4 DEF B!Named, B!FrameInv, B!SenderAllowed
  <1> QED
    BY <1>2, <1>3, <1>4, <1>5, <1>6, <1>7 DEF B!FrameInv, B!Unread

LEMMA FrameReading ==
    ASSUME B!FrameInv
    PROVE  /\ x5 \in {"field", "code", "signature", "value", "sender", "body", "variant", "close"} =>
                 /\ x6 \in Nat /\ x7 \in Nat /\ x6 <= x7 /\ x14 = ""
           /\ x8 \in 0 .. 9 /\ x9 \subseteq 1 .. 9
           /\ x10 \in {"", "daemon", "systemd", "other"}
           /\ x11 \in {"", "s", "o", "u", "v", "a"}
           /\ x10 # "" => 7 \in x9
           /\ x5 \in {"signature", "value"} => x8 \in x9
  <1>1. x6 \in Nat /\ x7 \in Nat
    BY FrameTypes
  <1>2. x14 # "" => x5 = "end"
    BY DEF B!FrameInv
  <1> QED
    BY <1>1, <1>2 DEF B!FrameInv, B!TypeOK, B!Walked, B!Named

\* The frame is refused, or its two lengths are read.
LEMMA RefuseFrame ==
    ASSUME B!FrameInv, B!Refuse PROVE B!FrameInv'
  <1>1. x5' = "end" /\ x14' = "rejected" /\ x5 # "end"
        /\ UNCHANGED <<x1, x2, x3, x4, x6, x7, x8, x9, x10, x11, x12, x13>>
    BY DEF B!Refuse
  <1>2. B!TypeOK'
    BY <1>1 DEF B!FrameInv, B!TypeOK
  <1> QED
    BY <1>1, <1>2 DEF B!FrameInv, B!Unread, B!Walked, B!Slices, B!Named, B!NothingUnseen, B!SenderAllowed

LEMMA ReadLengths ==
    ASSUME B!FrameInv, NEW h \in 0 .. MaxHeader + 1, NEW b \in 0 .. MaxBody + 1,
           B!ReadFrame(h, b)
    PROVE  B!FrameInv'
  <1> DEFINE z == 16 + B!Up(h, 8) + b
             u == B!Up(h, 8)
  <1>1. /\ x5 = "read" /\ x2' = h /\ x3' = b /\ x4' = z /\ x5' = "frame"
        /\ UNCHANGED <<x1, x6, x7, x8, x9, x10, x11, x12, x13, x14>>
        /\ h <= MaxHeader /\ b <= MaxBody /\ z <= MaxFrame
    BY DEF B!ReadFrame, B!Fits
  <1>2. MaxHeader \in Nat /\ MaxBody \in Nat /\ MaxFrame \in Nat
    BY PartsAssumption DEF B!BusFrameAssumption
  <1>3. h \in Nat /\ b \in Nat
    BY <1>2
  <1>4. u \in Nat
    BY <1>3, UpFacts
  <1>5. x6 = 0 /\ x7 = 0 /\ x12 = -1 /\ x13 = {}
    BY <1>1 DEF B!FrameInv, B!Unread
  <1> HIDE DEF u
  <1>6. z \in 0 .. MaxFrame /\ h \in 0 .. MaxHeader /\ b \in 0 .. MaxBody /\ 0 \in 0 .. z
        /\ -1 \in -1 .. z
    BY <1>1, <1>2, <1>3, <1>4 DEF u
  <1> HIDE DEF z
  <1>7. B!TypeOK'
    <2>1. /\ x1 \in {"", "systemd"} /\ x8 \in 0 .. 9 /\ x9 \subseteq 1 .. 9
          /\ x10 \in {"", "daemon", "systemd", "other"}
          /\ x11 \in {"", "s", "o", "u", "v", "a"} /\ x14 \in {"", "accepted", "rejected"}
      BY DEF B!FrameInv, B!TypeOK
    <2>2. x13' \subseteq 0 .. x4'
      BY <1>1, <1>5
    <2> QED
      BY <1>1, <1>5, <1>6, <2>1, <2>2, Zenon DEF B!TypeOK
  <1>8. x14 = ""
    BY <1>1 DEF B!FrameInv, B!TypeOK
  <1> QED
    BY <1>1, <1>5, <1>7, <1>8 DEF B!FrameInv, B!Unread, B!Walked, B!Slices, B!Named, B!NothingUnseen

LEMMA FrameHead ==
    ASSUME B!FrameInv, B!CheckFrame PROVE B!FrameInv'
  <1> DEFINE at == B!BodyAt
             l == 16 + x2
  <1>1. /\ x5 = "frame" /\ at + x3 = x4 /\ x5' = "field" /\ x6' = 16 /\ x7' = l
        /\ x13' = 0 .. 15 /\ x12' = 15
        /\ UNCHANGED <<x1, x2, x3, x4, x8, x9, x10, x11, x14>>
    BY DEF B!CheckFrame
  <1>2. x2 \in Nat /\ x3 \in Nat /\ x4 \in Nat
    BY FrameTypes
  <1>3. l \in Nat /\ l <= at /\ at \in Nat
    <2>1. l \in Nat
      BY <1>2
    <2> QED
      BY <2>1, UpFacts DEF B!BodyAt
  <1>4. 16 <= l
    BY <1>2
  <1> HIDE DEF at, l
  <1>5. l \in 0 .. x4 /\ 16 \in 0 .. x4 /\ 15 \in -1 .. x4 /\ 0 .. 15 \subseteq 0 .. x4
    BY <1>1, <1>2, <1>3, <1>4
  <1>6. x14 = ""
    BY <1>1 DEF B!FrameInv, B!TypeOK
  <1>7. B!TypeOK'
    <2>1. /\ x1 \in {"", "systemd"} /\ x8 \in 0 .. 9 /\ x9 \subseteq 1 .. 9
          /\ x10 \in {"", "daemon", "systemd", "other"}
          /\ x11 \in {"", "s", "o", "u", "v", "a"}
          /\ x2 \in 0 .. MaxHeader /\ x3 \in 0 .. MaxBody /\ x4 \in 0 .. MaxFrame
      BY DEF B!FrameInv, B!TypeOK
    <2> QED
      BY <1>1, <1>5, <1>6, <2>1, Zenon DEF B!TypeOK
  <1>8. B!Walked'
    <2>1. 16 - 1 = 15 /\ 16 <= 16
      OBVIOUS
    <2> QED
      BY <1>1, <1>4, <2>1 DEF B!Walked
  <1>9. B!Slices'
    BY <1>1 DEF B!Slices, B!BodyAt, at, l
  <1> QED
    BY <1>1, <1>6, <1>7, <1>8, <1>9 DEF B!FrameInv, B!Unread, B!Named, B!NothingUnseen

LEMMA TakesFit ==
    ASSUME x6 \in Nat, x7 \in Nat, NEW n \in Nat, NEW next
    PROVE  /\ B!TakeNumber(next) => \E to \in Nat : B!Take(to, next) /\ x6 <= to /\ to <= x7
           /\ B!TakeText(n, next) => \E to \in Nat : B!Take(to, next) /\ x6 <= to /\ to <= x7
           /\ B!TakeSignature(n, next) =>
                 \E to \in Nat : B!Take(to, next) /\ x6 <= to /\ to <= x7
  <1> DEFINE u == B!Up(x6, 4)
             p == u + 4
             t == u + 4 + n + 1
             g == x6 + 1 + n + 1
  <1>1. u \in Nat /\ x6 <= u
    BY UpFacts
  <1>2. ASSUME B!TakeNumber(next) PROVE \E to \in Nat : B!Take(to, next) /\ x6 <= to /\ to <= x7
    <2>1. x7 - u >= 4 /\ B!Take(p, next)
      BY <1>2 DEF B!TakeNumber, B!NumberFits
    <2> HIDE DEF u
    <2>2. p \in Nat /\ x6 <= p /\ p <= x7
      BY <1>1, <2>1
    <2> QED
      BY <2>1, <2>2
  <1>3. ASSUME B!TakeText(n, next) PROVE \E to \in Nat : B!Take(to, next) /\ x6 <= to /\ to <= x7
    <2>1. x7 - (u + 4) >= n + 1 /\ B!Take(t, next)
      BY <1>3 DEF B!TakeText, B!TextFits
    <2> HIDE DEF u
    <2>2. t \in Nat /\ x6 <= t /\ t <= x7
      BY <1>1, <2>1
    <2> QED
      BY <2>1, <2>2
  <1>4. ASSUME B!TakeSignature(n, next)
        PROVE  \E to \in Nat : B!Take(to, next) /\ x6 <= to /\ to <= x7
    <2>1. x7 - (x6 + 1) >= n + 1 /\ B!Take(g, next)
      BY <1>4 DEF B!TakeSignature, B!SignatureFits
    <2>2. g \in Nat /\ x6 <= g /\ g <= x7
      BY <2>1
    <2> QED
      BY <2>1, <2>2
  <1> QED
    BY <1>2, <1>3, <1>4

\* The steps of the cursor.
LEMMA FieldStep ==
    ASSUME B!FrameInv, B!NextField PROVE B!FrameInv'
  <1>1. /\ x5 = "field" /\ UNCHANGED <<x1, x2, x3, x4, x7, x8, x9, x10, x11, x14>>
        /\ x6 \in Nat /\ x7 \in Nat /\ x6 <= x7 /\ x14 = ""
    BY FrameReading DEF B!NextField
  <1>2. CASE x6 >= x7 /\ x5' = "sender" /\ UNCHANGED <<x6, x12, x13>>
    <2>1. x6 = x7
      BY <1>1, <1>2, LessOrEqual, Zenon
    <2>2. B!TypeOK'
      BY <1>1, <1>2 DEF B!FrameInv, B!TypeOK
    <2>3. B!Walked' /\ B!NothingUnseen' /\ B!Unread'
      BY <1>1, <1>2 DEF B!FrameInv, B!Walked, B!NothingUnseen, B!Unread
    <2>4. B!Slices'
      BY <1>1, <1>2, <2>1 DEF B!FrameInv, B!Slices, B!BodyAt
    <2>5. B!Named'
      BY <1>1, <1>2 DEF B!FrameInv, B!Named, B!SenderAllowed
    <2> QED
      BY <1>1, <2>2, <2>3, <2>4, <2>5 DEF B!FrameInv
  <1>3. CASE /\ x6 < x7 /\ B!Up(x6, 8) <= x7
             /\ B!Take(B!Up(x6, 8), IF B!Up(x6, 8) = x7 THEN "sender" ELSE "code")
    <2> DEFINE u == B!Up(x6, 8)
               next == IF u = x7 THEN "sender" ELSE "code"
    <2>1. u \in Nat /\ x6 <= u
      BY <1>1, UpFacts
    <2>2. u <= x7 /\ B!Take(u, next)
      BY <1>3
    <2> HIDE DEF u
    <2>3. u < x7 \/ u = x7
      BY <1>1, <2>1, <2>2, LessOrEqual, Zenon
    <2>4. /\ next \in {"sender", "code"} /\ (next = "sender" => u = x7)
          /\ next = "code" => u < x7
      BY <2>3
    <2> HIDE DEF next
    <2>5. next \in {"variant", "close"} <=> x5 \in {"body", "variant", "close"}
      BY <1>1, <2>4
    <2> QED
      BY <1>1, <2>1, <2>2, <2>3, <2>4, <2>5, FrameReading, CursorStep
  <1> QED
    BY <1>2, <1>3 DEF B!NextField

LEMMA CodeStep ==
    ASSUME B!FrameInv, NEW f \in 1 .. 9, B!Code(f) PROVE B!FrameInv'
  <1> DEFINE to == x6 + 1
  <1>1. /\ x5 = "code" /\ UNCHANGED <<x1, x2, x3, x4, x7, x10, x11, x14>>
        /\ B!Take(to, "signature") /\ x8' = f /\ x9' = x9 \cup {f}
    BY DEF B!Code
  <1>2. x6 \in Nat /\ x7 \in Nat /\ x6 < x7
    BY <1>1, FrameReading DEF B!FrameInv, B!Slices
  <1>3. to \in Nat /\ x6 <= to /\ to <= x7
    BY <1>2
  <1>4. f \in 0 .. 9
    OBVIOUS
  <1>5. /\ x9' \subseteq 1 .. 9 /\ x9 \subseteq x9' /\ x8' \in x9' /\ x8' \in 0 .. 9
        /\ x10' \in {"", "daemon", "systemd", "other"}
        /\ x11' \in {"", "s", "o", "u", "v", "a"} /\ (x10' # "" => 7 \in x9')
    BY <1>1, <1>4, FrameReading
  <1> HIDE DEF to
  <1> QED
    BY <1>1, <1>3, <1>5, CursorStep

LEMMA SignatureStep ==
    ASSUME B!FrameInv, B!FieldSignature PROVE B!FrameInv'
  <1>1. /\ x5 = "signature" /\ UNCHANGED <<x1, x2, x3, x4, x7, x8, x9, x10, x11, x14>>
        /\ B!TakeSignature(1, "value")
    BY DEF B!FieldSignature
  <1>2. x6 \in Nat /\ x7 \in Nat
    BY FrameTypes
  <1>3. PICK to \in Nat : B!Take(to, "value") /\ x6 <= to /\ to <= x7
    BY <1>1, <1>2, TakesFit
  <1>4. x8 \in x9
    BY <1>1, FrameReading
  <1> QED
    BY <1>1, <1>3, <1>4, FrameReading, CursorStep

LEMMA ValueStep ==
    ASSUME B!FrameInv, NEW n \in Nat, NEW who \in {"daemon", "systemd", "other"},
           NEW s \in {"", "s", "o", "u", "v", "a"}, B!Value(n, who, s)
    PROVE  B!FrameInv'
  <1>1. /\ x5 = "value" /\ UNCHANGED <<x1, x2, x3, x4, x7, x8, x9, x14>>
        /\ x10' = IF x8 = 7 THEN (IF n = 0 THEN "" ELSE who) ELSE x10
        /\ x11' = IF x8 = 8 THEN s ELSE x11
    BY DEF B!Value
  <1>2. x6 \in Nat /\ x7 \in Nat
    BY FrameTypes
  <1>3. B!TakeText(n, "field") \/ B!TakeNumber("field") \/ B!TakeSignature(n, "field")
    BY DEF B!Value
  <1>4. PICK to \in Nat : B!Take(to, "field") /\ x6 <= to /\ to <= x7
    BY <1>2, <1>3, TakesFit
  <1>5. /\ x9' \subseteq 1 .. 9 /\ x9 \subseteq x9' /\ x8' \in x9' /\ x8' \in 0 .. 9
    BY <1>1, FrameReading
  <1>6. /\ x10' \in {"", "daemon", "systemd", "other"}
        /\ x11' \in {"", "s", "o", "u", "v", "a"} /\ (x10' # "" => 7 \in x9')
    BY <1>1, FrameReading
  <1> QED
    BY <1>1, <1>4, <1>5, <1>6, CursorStep

\* From the header to the body.
LEMMA PaddingStep ==
    ASSUME B!FrameInv, B!Padding PROVE B!FrameInv'
  <1> DEFINE at == B!BodyAt
  <1>1. /\ x5 = "sender" /\ B!SenderAllowed /\ B!Take(at, "body") /\ x7' = x4
        /\ UNCHANGED <<x1, x2, x3, x4, x8, x9, x10, x11, x14>>
    BY DEF B!Padding
  <1>2. x7 = 16 + x2 /\ at + x3 = x4 /\ x6 = x7 /\ x14 = ""
    BY <1>1, FrameReading DEF B!FrameInv, B!Slices
  <1>3. x2 \in Nat /\ x3 \in Nat /\ x4 \in Nat /\ 16 + x2 \in Nat
    BY FrameTypes
  <1>4. at \in Nat /\ 16 + x2 <= at
    BY <1>3, UpFacts DEF B!BodyAt
  <1> HIDE DEF at
  <1>5. x6 <= at /\ at <= x4 /\ x4 \in 0 .. x4
    <2>1. x6 = 16 + x2 /\ x4 = at + x3
      BY <1>2
    <2> QED
      BY <1>3, <1>4, <2>1
  <1>6. /\ x6' = at /\ x5' = "body" /\ x12' = at - 1 /\ x13' = 0 .. at - 1 /\ 16 <= at
        /\ x6' \in 0 .. x4' /\ x12' \in -1 .. x4' /\ x13' \subseteq 0 .. x4'
    BY <1>1, <1>4, <1>5, CursorMoves
  <1>7. B!TypeOK'
    <2>1. B!TypeOK /\ x7' \in 0 .. x4' /\ x4' = x4
      BY <1>1, <1>5 DEF B!FrameInv
    <2> QED
      BY <1>1, <1>6, <2>1 DEF B!TypeOK
  <1>8. B!Walked' /\ B!NothingUnseen' /\ B!Unread'
    BY <1>1, <1>2, <1>5, <1>6 DEF B!Walked, B!NothingUnseen, B!Unread
  <1>9. B!Slices' /\ B!Named'
    BY <1>1, <1>2, <1>6 DEF B!FrameInv, B!Slices, B!Named, B!SenderAllowed
  <1> QED
    BY <1>1, <1>2, <1>7, <1>8, <1>9 DEF B!FrameInv

LEMMA BodyStep ==
    ASSUME B!FrameInv, NEW n \in Nat, B!Body(n) \/ B!Variant(n) PROVE B!FrameInv'
  <1>1. /\ x5 \in {"body", "variant"}
        /\ UNCHANGED <<x1, x2, x3, x4, x7, x8, x9, x10, x11, x14>>
    BY DEF B!Body, B!Variant
  <1>2. x6 \in Nat /\ x7 \in Nat /\ 1 \in Nat
    BY FrameTypes
  <1>3. \/ x5' = "close" /\ UNCHANGED <<x6, x12, x13>>
        \/ B!TakeText(n, "close") \/ B!TakeNumber("close") \/ B!TakeSignature(1, "variant")
    BY DEF B!Body, B!Variant
  <1>4. ASSUME NEW next \in {"variant", "close"}, NEW to \in Nat,
               B!Take(to, next), x6 <= to, to <= x7
        PROVE  B!FrameInv'
    <2>1. /\ x8' \in 0 .. 9 /\ x9' \subseteq 1 .. 9 /\ x9 \subseteq x9'
          /\ x10' \in {"", "daemon", "systemd", "other"}
          /\ x11' \in {"", "s", "o", "u", "v", "a"} /\ (x10' # "" => 7 \in x9')
      BY <1>1, FrameReading
    <2> QED
      BY <1>1, <1>4, <2>1, CursorStep
  <1>5. CASE x5' = "close" /\ UNCHANGED <<x6, x12, x13>>
    <2>1. B!TypeOK'
      BY <1>1, <1>5 DEF B!FrameInv, B!TypeOK
    <2>2. B!Walked' /\ B!Unread'
      BY <1>1, <1>5 DEF B!FrameInv, B!Walked, B!Unread
    <2>3. B!Slices' /\ B!Named' /\ B!NothingUnseen'
      BY <1>1, <1>5 DEF B!FrameInv, B!Slices, B!Named, B!SenderAllowed, B!NothingUnseen
    <2> QED
      BY <1>1, <1>5, <2>1, <2>2, <2>3 DEF B!FrameInv
  <1>6. CASE B!TakeText(n, "close") \/ B!TakeNumber("close")
    <2>1. PICK to \in Nat : B!Take(to, "close") /\ x6 <= to /\ to <= x7
      BY <1>2, <1>6, TakesFit
    <2> QED
      BY <1>4, <2>1
  <1>7. CASE B!TakeSignature(1, "variant")
    <2>1. PICK to \in Nat : B!Take(to, "variant") /\ x6 <= to /\ to <= x7
      BY <1>2, <1>7, TakesFit
    <2> QED
      BY <1>4, <2>1
  <1> QED
    BY <1>3, <1>5, <1>6, <1>7

LEMMA CloseStep ==
    ASSUME B!FrameInv, B!Close PROVE B!FrameInv'
  <1>1. /\ x5 = "close" /\ x6 = x7 /\ x5' = "end" /\ x14' = "accepted"
        /\ UNCHANGED <<x1, x2, x3, x4, x6, x7, x8, x9, x10, x11, x12, x13>>
    BY DEF B!Close
  <1>2. x7 = x4 /\ x13 = 0 .. x6 - 1 /\ B!SenderAllowed
    BY <1>1 DEF B!FrameInv, B!Slices, B!Walked, B!Named
  <1>3. B!TypeOK'
    BY <1>1 DEF B!FrameInv, B!TypeOK
  <1> QED
    BY <1>1, <1>2, <1>3 DEF B!FrameInv, B!Unread, B!Walked, B!Slices, B!Named, B!NothingUnseen,
       B!SenderAllowed

LEMMA FrameInit ==
    ASSUME B!Init PROVE B!FrameInv
  <1>1. /\ x1 \in {"", "systemd"} /\ x2 = 0 /\ x3 = 0 /\ x4 = 0 /\ x5 = "read" /\ x6 = 0
        /\ x7 = 0 /\ x8 = 0 /\ x9 = {} /\ x10 = "" /\ x11 = "" /\ x12 = -1 /\ x13 = {}
        /\ x14 = ""
    BY DEF B!Init
  <1>2. /\ 0 \in 0 .. MaxHeader /\ 0 \in 0 .. MaxBody /\ 0 \in 0 .. MaxFrame
        /\ 0 \in 0 .. 0 /\ -1 \in -1 .. 0 /\ 0 \in 0 .. 9
    BY PartsAssumption DEF B!BusFrameAssumption
  <1>3. B!TypeOK
    BY <1>1, <1>2, Zenon DEF B!TypeOK
  <1> QED
    BY <1>1, <1>3 DEF B!FrameInv, B!Unread, B!Walked, B!Slices, B!Named, B!NothingUnseen

LEMMA FrameNext ==
    ASSUME B!FrameInv, B!Next PROVE B!FrameInv'
  <1>1. \A n \in 0 .. MaxText + 1 : n \in Nat
    BY PartsAssumption DEF B!BusFrameAssumption
  <1> QED
    BY <1>1, RefuseFrame, ReadLengths, FrameHead, FieldStep, CodeStep, SignatureStep, ValueStep,
       PaddingStep, BodyStep, CloseStep DEF B!Next

(***************************************************************************)
(* For every limit on the header, the body, the frame and its texts, and   *)
(* whatever lengths a frame declares: the cursor never reads out of its    *)
(* slice, a frame is passed on only when each of its bytes was checked,    *)
(* and only from a permitted sender that it names                          *)
(* (internal/service/guard.go).                                            *)
(***************************************************************************)
THEOREM FrameHolds == Spec => []FrameChecked
  <1> DEFINE Inv == part = "frame" => B!FrameInv
  <1>1. Init => Inv
    BY FrameInit DEF Init
  <1>2. Inv /\ [Next]_vars => Inv'
    <2> SUFFICES ASSUME Inv, [Next]_vars, part' = "frame" PROVE B!FrameInv'
      OBVIOUS
    <2>1. part = "frame" /\ B!FrameInv
      BY OnePart
    <2>2. CASE B!Next
      BY <2>1, <2>2, FrameNext
    <2>3. CASE UNCHANGED vars
      <3>1. UNCHANGED <<x1, x2, x3, x4, x5, x6, x7, x8, x9, x10, x11, x12, x13, x14>>
        BY <2>3 DEF vars, above7, above8, above11
      <3>2. B!TypeOK'
        BY <2>1, <3>1 DEF B!FrameInv, B!TypeOK
      <3>3. B!Unread' /\ B!Walked' /\ B!NothingUnseen'
        BY <2>1, <3>1 DEF B!FrameInv, B!Unread, B!Walked, B!NothingUnseen
      <3>4. B!Slices' /\ B!Named'
        BY <2>1, <3>1 DEF B!FrameInv, B!Slices, B!Named, B!SenderAllowed, B!BodyAt
      <3> QED
        BY <2>1, <3>1, <3>2, <3>3, <3>4 DEF B!FrameInv
    <2> QED
      BY <2>1, <2>2, <2>3 DEF Next, Rotate, Enroll, Administer,
         Admit, Beat, AuditFiles, Read, CheckFrame, Query
  <1>3. Inv => FrameChecked
    <2> SUFFICES ASSUME B!FrameInv
                 PROVE  B!TypeOK /\ B!InBounds /\ B!NothingUnseen /\ B!SenderNamed
      BY DEF FrameChecked
    <2>1. B!InBounds
      <3> SUFFICES ASSUME x5 \in {"field", "code", "signature", "value", "variant", "close"}
                   PROVE  x12 < x7
        BY DEF B!InBounds
      <3>1. x6 \in Nat /\ x7 \in Nat
        BY FrameTypes
      <3>2. x6 <= x7 /\ x12 = x6 - 1
        BY DEF B!FrameInv, B!Walked
      <3> QED
        BY <3>1, <3>2
    <2>2. B!SenderNamed
      BY DEF B!FrameInv, B!Named, B!SenderNamed, B!SenderAllowed, B!TypeOK
    <2> QED
      BY <2>1, <2>2 DEF B!FrameInv
  <1> QED
    BY <1>1, <1>2, <1>3, PTL DEF Spec

-----------------------------------------------------------------------------
(* The SSH audit.  x1 is its phase, x2 the lines of the file so far, x3    *)
(* the observation of it, x4 whether a Match line was seen, x5 the         *)
(* directives that were, x6 the files before, x11 the profile.             *)

LEMMA AuditConstants ==
    /\ Profiles \subseteq Seq({"sshd_config", "authorized_keys"})
    /\ \A p \in Profiles : Len(p) \in 1 .. 4
    /\ "challengeresponseauthentication" \in Directives =>
          "kbdinteractiveauthentication" \in Directives
    /\ KeyLimit \in Nat \ {0} /\ DirectiveLimit \in Nat \ {0}
    /\ LineLimit \in Nat \ {0} /\ LastClock \in Nat \ {0}
  BY PartsAssumption DEF H!SSHAuditAssumption

\* What is not said of the findings and the status of an observation.
SameBut(o, p) ==
    /\ p.kind = o.kind /\ p.metadata = o.metadata /\ p.sha256 = o.sha256
    /\ p.baseline = o.baseline /\ p.keys = o.keys /\ p.directives = o.directives

\* Records with one field of an observation changed.
LEMMA StatusField ==
    ASSUME NEW o \in H!Observation, NEW s \in H!Codes
    PROVE  /\ [o EXCEPT !.status = s] \in H!Observation
           /\ SameBut(o, [o EXCEPT !.status = s])
           /\ [o EXCEPT !.status = s].status = s
           /\ [o EXCEPT !.status = s].findings = o.findings
  BY DEF H!Observation, SameBut

LEMMA FindingsField ==
    ASSUME NEW o \in H!Observation, NEW fs \in SUBSET H!Findings
    PROVE  /\ [o EXCEPT !.findings = fs] \in H!Observation
           /\ SameBut(o, [o EXCEPT !.findings = fs])
           /\ [o EXCEPT !.findings = fs].status = o.status
           /\ [o EXCEPT !.findings = fs].findings = fs
  BY DEF H!Observation, SameBut

LEMMA FindingFacts ==
    ASSUME NEW o \in H!Observation, NEW code \in H!Findings
    PROVE  /\ H!Finding(o, code) \in H!Observation /\ SameBut(o, H!Finding(o, code))
           /\ H!Finding(o, code).status = o.status
           /\ H!Finding(o, code).findings = o.findings \cup {code}
  <1> DEFINE fs == o.findings \cup {code}
  <1>1. fs \in SUBSET H!Findings
    BY DEF H!Observation
  <1>2. H!Finding(o, code) = [o EXCEPT !.findings = fs]
    BY DEF H!Finding
  <1> HIDE DEF fs
  <1>3. /\ [o EXCEPT !.findings = fs] \in H!Observation
        /\ SameBut(o, [o EXCEPT !.findings = fs])
        /\ [o EXCEPT !.findings = fs].status = o.status
        /\ [o EXCEPT !.findings = fs].findings = fs
    BY <1>1, FindingsField
  <1> QED
    BY <1>2, <1>3 DEF fs

LEMMA PartialFacts ==
    ASSUME NEW o \in H!Observation, NEW code \in H!Findings, o.status \in {"ok", "partial"}
    PROVE  /\ H!Partial(o, code) \in H!Observation /\ SameBut(o, H!Partial(o, code))
           /\ H!Partial(o, code).status = "partial"
           /\ H!Partial(o, code).findings = o.findings \cup {code}
  <1> DEFINE p == [o EXCEPT !.status = "partial"]
  <1>1. "partial" \in H!Codes
    BY DEF H!Codes
  <1>2. /\ p \in H!Observation /\ SameBut(o, p) /\ p.status = "partial"
        /\ p.findings = o.findings
    BY <1>1, StatusField
  <1>3. H!Partial(o, code) = H!Finding(p, code)
    BY DEF H!Partial
  <1> HIDE DEF p
  <1>4. /\ H!Finding(p, code) \in H!Observation /\ SameBut(p, H!Finding(p, code))
        /\ H!Finding(p, code).status = p.status
        /\ H!Finding(p, code).findings = p.findings \cup {code}
    BY <1>2, FindingFacts
  <1> QED
    BY <1>2, <1>3, <1>4 DEF SameBut

LEMMA ParseErrorFacts ==
    ASSUME NEW o \in H!Observation, NEW code \in H!Findings
    PROVE  /\ H!ParseError(o, code) \in H!Observation /\ SameBut(o, H!ParseError(o, code))
           /\ H!ParseError(o, code).status = "parse_error"
           /\ H!ParseError(o, code).findings = o.findings \cup {code}
  <1> DEFINE p == [o EXCEPT !.status = "parse_error"]
  <1>1. "parse_error" \in H!Codes
    BY DEF H!Codes
  <1>2. /\ p \in H!Observation /\ SameBut(o, p) /\ p.status = "parse_error"
        /\ p.findings = o.findings
    BY <1>1, StatusField
  <1>3. H!ParseError(o, code) = H!Finding(p, code)
    BY DEF H!ParseError
  <1> HIDE DEF p
  <1>4. /\ H!Finding(p, code) \in H!Observation /\ SameBut(p, H!Finding(p, code))
        /\ H!Finding(p, code).status = p.status
        /\ H!Finding(p, code).findings = p.findings \cup {code}
    BY <1>2, FindingFacts
  <1> QED
    BY <1>2, <1>3, <1>4 DEF SameBut

\* What the parser may find in a line.
LEMMA LineFacts ==
    ASSUME NEW l \in H!Line
    PROVE  /\ l.kind \in {"blank", "invalid", "long", "key", "match", "include", "dynamic",
                          "unknown", "directive"}
           /\ l.kind = "key" => l.options \in BOOLEAN /\ l.cert \in BOOLEAN
           /\ l.kind = "directive" => l.name \in Directives /\ l.simple \in BOOLEAN
  BY DEF H!Line

LEMMA CanonicalFacts ==
    ASSUME NEW n \in Directives
    PROVE  /\ H!Canonical(n) \in Directives
           /\ H!Canonical(n) \in H!Known
           /\ n \in H!Spellings(H!Canonical(n))
           /\ \A i : i \in H!Spellings(H!Canonical(n)) => H!Canonical(i) = H!Canonical(n)
  BY AuditConstants DEF H!Canonical, H!Known, H!Spellings

\* A change of the findings or to a worse status.
LEMMA FillingKept ==
    ASSUME NEW o, NEW p, NEW m \in Nat, SameBut(o, p), H!Filling(o, m),
           p.status \in {"ok", "partial", "parse_error"}
    PROVE  H!Filling(p, m + 1)
  <1>1. \A i \in 1 .. m : i \in 1 .. m + 1
    OBVIOUS
  <1> QED
    BY <1>1 DEF SameBut, H!Filling

\* What comes of a line: o before it, g after it, n its number.
Outcome(o, g, l, n) ==
    /\ g \in H!Observation /\ H!Filling(g, n) /\ g.kind = o.kind
    /\ o.findings \subseteq g.findings /\ (o.status = "partial" => g.status # "ok")
    /\ g.keys = o.keys \/ g.keys = Append(o.keys, n)
    /\ \/ g.directives = o.directives
       \/ /\ g.directives = Append(o.directives, [line |-> n, name |-> H!Canonical(l.name)])
          /\ l.kind = "directive" /\ l.simple /\ ~x4 /\ H!Canonical(l.name) \notin x5
    /\ l.kind = "match" => g.status = "partial" /\ "match_not_evaluated" \in g.findings
    /\ \/ g.status = "parse_error" \/ l.kind = "blank"
       \/ x4 /\ g = o
       \/ g.status = "partial" /\ g.findings \cap H!GapCodes # {}
       \/ g.keys = Append(o.keys, n)
       \/ g.directives = Append(o.directives, [line |-> n, name |-> H!Canonical(l.name)])

LEMMA PartialOutcome ==
    ASSUME NEW o \in H!Observation, NEW m \in Nat, H!Filling(o, m), o.status # "parse_error",
           NEW code \in H!GapCodes, NEW l, l.kind = "match" => code = "match_not_evaluated"
    PROVE  Outcome(o, H!Partial(o, code), l, m + 1)
  <1> DEFINE g == H!Partial(o, code)
  <1>1. code \in H!Findings /\ o.status \in {"ok", "partial"}
    BY DEF H!Findings, H!Filling
  <1>2. /\ g \in H!Observation /\ SameBut(o, g) /\ g.status = "partial"
        /\ g.findings = o.findings \cup {code}
    BY <1>1, PartialFacts
  <1> HIDE DEF g
  <1>3. H!Filling(g, m + 1)
    BY <1>2, FillingKept
  <1> QED
    BY <1>2, <1>3 DEF Outcome, SameBut, g

LEMMA ErrorOutcome ==
    ASSUME NEW o \in H!Observation, NEW m \in Nat, H!Filling(o, m),
           NEW code \in H!Findings, NEW l, l.kind # "match"
    PROVE  Outcome(o, H!ParseError(o, code), l, m + 1)
  <1> DEFINE g == H!ParseError(o, code)
  <1>1. /\ g \in H!Observation /\ SameBut(o, g) /\ g.status = "parse_error"
        /\ g.findings = o.findings \cup {code}
    BY ParseErrorFacts
  <1> HIDE DEF g
  <1>2. H!Filling(g, m + 1)
    BY <1>1, FillingKept
  <1>3. o.findings \subseteq g.findings /\ g.status # "ok"
    BY <1>1
  <1> QED
    BY <1>1, <1>2, <1>3 DEF Outcome, SameBut, g

\* No trace: a blank line, or one after a Match.
LEMMA SameOutcome ==
    ASSUME NEW o \in H!Observation, NEW m \in Nat, H!Filling(o, m), NEW l,
           l.kind # "match", l.kind = "blank" \/ x4
    PROVE  Outcome(o, o, l, m + 1)
  <1>1. H!Filling(o, m + 1)
    BY FillingKept DEF SameBut, H!Filling
  <1> QED
    BY <1>1 DEF Outcome

LEMMA KeyOutcome ==
    ASSUME x3 \in H!Observation, x2 \in Seq(H!Line), Len(x2) < LineLimit,
           H!Filling(x3, Len(x2)), x3.status # "parse_error", x3.kind = "authorized_keys",
           NEW l \in H!Line, l.kind = "key"
    PROVE  Outcome(x3, H!Key(l), l, Len(x2) + 1)
  <1>1. /\ Len(x2) \in Nat /\ Len(x2) + 1 \in 1 .. LineLimit
        /\ \A i \in 1 .. Len(x2) : i \in 1 .. Len(x2) + 1
    BY AuditConstants
  <1>2. CASE Len(x3.keys) >= KeyLimit
    <2>1. "key_limit" \in H!GapCodes
      BY DEF H!GapCodes
    <2>2. H!Key(l) = H!Partial(x3, "key_limit")
      BY <1>2 DEF H!Key
    <2>3. Outcome(x3, H!Partial(x3, "key_limit"), l, Len(x2) + 1)
      BY <1>1, <2>1, PartialOutcome
    <2> QED
      BY <2>2, <2>3
  <1>3. CASE ~(Len(x3.keys) >= KeyLimit)
    <2> DEFINE n == Len(x2) + 1
               a == Append(x3.keys, n)
               o == [x3 EXCEPT !.keys = a]
               p == IF l.options THEN H!Partial(o, "key_options_not_evaluated") ELSE o
               g == IF l.cert THEN H!Partial(p, "key_certificate_not_evaluated") ELSE p
    <2>1. H!Key(l) = g
      BY <1>3 DEF H!Key
    <2>2. x3.keys \in Seq(1 .. LineLimit)
      BY DEF H!Observation
    <2>3. /\ a \in Seq(1 .. LineLimit) /\ Len(a) = Len(x3.keys) + 1
          /\ \A k \in 1 .. Len(x3.keys) : a[k] = x3.keys[k]
          /\ a[Len(x3.keys) + 1] = n
      BY <1>1, <2>2, AppendProperties
    <2>4. \A k \in DOMAIN a : a[k] \in 1 .. n
      <3>1. \A k \in DOMAIN x3.keys : x3.keys[k] \in 1 .. Len(x2)
        BY DEF H!Filling
      <3>2. /\ DOMAIN a = 1 .. Len(x3.keys) + 1 /\ DOMAIN x3.keys = 1 .. Len(x3.keys)
            /\ Len(x3.keys) \in Nat /\ n \in 1 .. n
        BY <1>1, <2>2, <2>3, LenProperties
      <3> HIDE DEF a, n
      <3>3. \A k \in DOMAIN a : k \in 1 .. Len(x3.keys) \/ k = Len(x3.keys) + 1
        BY <3>2
      <3>4. \A i \in 1 .. Len(x2) : i \in 1 .. n
        BY <1>1 DEF n
      <3> QED
        BY <2>3, <3>1, <3>2, <3>3, <3>4
    <2>5. Len(a) <= KeyLimit
      <3>1. Len(x3.keys) \in Nat
        BY <2>2, LenProperties
      <3> QED
        BY <1>3, <2>3, <3>1, AuditConstants
    <2>6. n \in 1 .. LineLimit
      BY <1>1
    <2> HIDE DEF a, n
    <2>7. /\ o \in H!Observation /\ o.keys = a /\ o.status = x3.status
          /\ o.findings = x3.findings /\ o.kind = x3.kind /\ o.metadata = x3.metadata
          /\ o.sha256 = x3.sha256 /\ o.baseline = x3.baseline
          /\ o.directives = x3.directives
      BY <2>3 DEF H!Observation
    <2> HIDE DEF o
    <2>8. /\ x3.status \in {"ok", "partial"}
          /\ "key_options_not_evaluated" \in H!Findings
          /\ "key_certificate_not_evaluated" \in H!Findings
      BY DEF H!Filling, H!Findings, H!GapCodes
    <2>9. /\ p \in H!Observation /\ SameBut(o, p) /\ o.findings \subseteq p.findings
          /\ p.status \in {"ok", "partial"} /\ (o.status = "partial" => p.status = "partial")
      <3>1. CASE l.options
        <4>1. /\ H!Partial(o, "key_options_not_evaluated") \in H!Observation
              /\ SameBut(o, H!Partial(o, "key_options_not_evaluated"))
              /\ H!Partial(o, "key_options_not_evaluated").status = "partial"
              /\ H!Partial(o, "key_options_not_evaluated").findings
                     = o.findings \cup {"key_options_not_evaluated"}
          BY <2>7, <2>8, PartialFacts
        <4> QED
          BY <3>1, <4>1
      <3>2. CASE ~l.options
        BY <2>7, <2>8, <3>2 DEF SameBut
      <3> QED
        BY <3>1, <3>2
    <2> HIDE DEF p
    <2>10. /\ g \in H!Observation /\ SameBut(p, g) /\ p.findings \subseteq g.findings
           /\ g.status \in {"ok", "partial"} /\ (p.status = "partial" => g.status = "partial")
      <3>1. CASE l.cert
        <4>1. /\ H!Partial(p, "key_certificate_not_evaluated") \in H!Observation
              /\ SameBut(p, H!Partial(p, "key_certificate_not_evaluated"))
              /\ H!Partial(p, "key_certificate_not_evaluated").status = "partial"
              /\ H!Partial(p, "key_certificate_not_evaluated").findings
                     = p.findings \cup {"key_certificate_not_evaluated"}
          BY <2>8, <2>9, PartialFacts
        <4> QED
          BY <3>1, <4>1
      <3>2. CASE ~l.cert
        BY <2>9, <3>2 DEF SameBut
      <3> QED
        BY <3>1, <3>2
    <2> HIDE DEF g
    <2>11. /\ g.kind = "authorized_keys" /\ g.metadata = x3.metadata /\ g.sha256 = x3.sha256
           /\ g.baseline = x3.baseline /\ g.keys = a /\ g.directives = x3.directives
           /\ x3.findings \subseteq g.findings
           /\ (x3.status = "partial" => g.status = "partial")
      <3>1. o.findings \subseteq g.findings
        BY <2>9, <2>10
      <3> QED
        BY <2>7, <2>9, <2>10, <3>1 DEF SameBut
    <2>12. H!Filling(g, n)
      <3>1. x3.directives = <<>>
        BY DEF H!Filling
      <3> QED
        BY <2>4, <2>5, <2>10, <2>11, <3>1 DEF H!Filling
    <2>13. Outcome(x3, g, l, n)
      BY <2>10, <2>11, <2>12 DEF Outcome, a
    <2> QED
      BY <2>1, <2>13 DEF n
  <1> QED
    BY <1>2, <1>3

LEMMA DirectiveOutcome ==
    ASSUME x3 \in H!Observation, x2 \in Seq(H!Line), Len(x2) < LineLimit,
           H!Filling(x3, Len(x2)), x3.status # "parse_error", x3.kind = "sshd_config",
           NEW l \in H!Line, l.kind = "directive", ~x4
    PROVE  Outcome(x3, H!Directive(l), l, Len(x2) + 1)
  <1>1. /\ Len(x2) \in Nat /\ Len(x2) + 1 \in 1 .. LineLimit
        /\ \A i \in 1 .. Len(x2) : i \in 1 .. Len(x2) + 1
    BY AuditConstants
  <1>2. ASSUME NEW code \in H!GapCodes PROVE Outcome(x3, H!Partial(x3, code), l, Len(x2) + 1)
    BY <1>1, PartialOutcome
  <1>3. {"invalid_value", "duplicate_directive", "directive_limit"} \subseteq H!GapCodes
    BY DEF H!GapCodes
  <1> DEFINE n == Len(x2) + 1
             e == [line |-> n, name |-> H!Canonical(l.name)]
             b == Append(x3.directives, e)
             g == [x3 EXCEPT !.directives = b]
  <1>4. CASE l.simple /\ H!Canonical(l.name) \notin x5 /\ ~(Len(x3.directives) >= DirectiveLimit)
    <2>1. H!Directive(l) = g
      BY <1>4 DEF H!Directive
    <2>2. /\ H!Canonical(l.name) \in Directives /\ H!Canonical(l.name) \in H!Known
          /\ n \in 1 .. n /\ n \in 1 .. LineLimit
      BY <1>1, LineFacts, CanonicalFacts
    <2>3. /\ x3.directives \in Seq([line : 1 .. LineLimit, name : Directives])
          /\ e \in [line : 1 .. LineLimit, name : Directives]
          /\ e.line \in 1 .. n /\ e.name \in H!Known
      BY <2>2 DEF H!Observation
    <2>4. \A i \in 1 .. Len(x2) : i \in 1 .. n
      BY <1>1
    <2> HIDE DEF e, n
    <2>5. /\ b \in Seq([line : 1 .. LineLimit, name : Directives])
          /\ Len(b) = Len(x3.directives) + 1
          /\ \A k \in 1 .. Len(x3.directives) : b[k] = x3.directives[k]
          /\ b[Len(x3.directives) + 1] = e
      BY <2>3, AppendProperties
    <2>6. /\ DOMAIN b = 1 .. Len(x3.directives) + 1
          /\ DOMAIN x3.directives = 1 .. Len(x3.directives) /\ Len(x3.directives) \in Nat
      BY <2>3, <2>5, LenProperties
    <2> HIDE DEF b
    <2>7. \A k \in DOMAIN b : b[k].line \in 1 .. n /\ b[k].name \in H!Known
      <3>1. \A k \in DOMAIN x3.directives :
               x3.directives[k].line \in 1 .. Len(x2) /\ x3.directives[k].name \in H!Known
        BY DEF H!Filling
      <3>2. \A k \in DOMAIN b : k \in 1 .. Len(x3.directives) \/ k = Len(x3.directives) + 1
        BY <2>6
      <3> QED
        BY <2>3, <2>4, <2>5, <2>6, <3>1, <3>2
    <2>8. Len(b) <= DirectiveLimit
      BY <1>4, <2>5, <2>6, AuditConstants
    <2>9. /\ g \in H!Observation /\ g.directives = b /\ g.status = x3.status
          /\ g.findings = x3.findings /\ g.kind = x3.kind /\ g.metadata = x3.metadata
          /\ g.sha256 = x3.sha256 /\ g.baseline = x3.baseline /\ g.keys = x3.keys
      BY <2>5 DEF H!Observation
    <2> HIDE DEF g
    <2>10. H!Filling(g, n)
      <3>1. x3.keys = <<>>
        BY DEF H!Filling
      <3>2. \A k \in DOMAIN g.keys : FALSE
        BY <2>9, <3>1
      <3> QED
        BY <2>7, <2>8, <2>9, <3>1, <3>2 DEF H!Filling
    <2>11. Outcome(x3, g, l, n)
      BY <1>4, <2>9, <2>10 DEF Outcome, b, e
    <2> QED
      BY <2>1, <2>11 DEF n
  <1>5. CASE ~l.simple
    BY <1>2, <1>3, <1>5 DEF H!Directive
  <1>6. CASE l.simple /\ H!Canonical(l.name) \in x5
    BY <1>2, <1>3, <1>6 DEF H!Directive
  <1>7. CASE l.simple /\ H!Canonical(l.name) \notin x5 /\ Len(x3.directives) >= DirectiveLimit
    BY <1>2, <1>3, <1>7 DEF H!Directive
  <1> QED
    BY <1>4, <1>5, <1>6, <1>7

LEMMA ParsedOutcome ==
    ASSUME x3 \in H!Observation, x2 \in Seq(H!Line), Len(x2) < LineLimit,
           H!Filling(x3, Len(x2)), x3.status # "parse_error", x4 \in BOOLEAN,
           NEW l \in H!LinesOf(x3.kind)
    PROVE  Outcome(x3, H!Parsed(l), l, Len(x2) + 1)
  <1>1. /\ l \in H!Line /\ Len(x2) \in Nat
        /\ x3.kind \in {"sshd_config", "authorized_keys"}
        /\ (l.kind = "key" => x3.kind = "authorized_keys")
        /\ (l.kind = "directive" => x3.kind = "sshd_config")
    BY DEF H!LinesOf, H!Observation
  <1>2. l.kind \in {"blank", "invalid", "long", "key", "match", "include", "dynamic",
                    "unknown", "directive"}
    BY <1>1, LineFacts
  <1>3. /\ {"invalid_line", "line_limit"} \subseteq H!Findings
        /\ {"match_not_evaluated", "include_not_expanded", "dynamic_auth_not_evaluated",
            "other_directives_not_evaluated"} \subseteq H!GapCodes
    BY DEF H!GapCodes, H!Findings
  <1>4. ASSUME NEW code \in H!GapCodes, l.kind = "match" => code = "match_not_evaluated"
        PROVE  Outcome(x3, H!Partial(x3, code), l, Len(x2) + 1)
    BY <1>1, <1>4, PartialOutcome
  <1>5. ASSUME NEW code \in H!Findings, l.kind # "match"
        PROVE  Outcome(x3, H!ParseError(x3, code), l, Len(x2) + 1)
    BY <1>1, <1>5, ErrorOutcome
  <1>6. ASSUME l.kind # "match", l.kind = "blank" \/ x4
        PROVE  Outcome(x3, x3, l, Len(x2) + 1)
    BY <1>1, <1>6, SameOutcome
  <1>7. CASE l.kind = "blank"
    BY <1>6, <1>7 DEF H!Parsed
  <1>8. CASE l.kind = "invalid"
    BY <1>3, <1>5, <1>8 DEF H!Parsed
  <1>9. CASE l.kind = "long"
    BY <1>3, <1>5, <1>9 DEF H!Parsed
  <1>10. CASE l.kind = "key"
    <2>1. Outcome(x3, H!Key(l), l, Len(x2) + 1)
      BY <1>1, <1>10, KeyOutcome
    <2> QED
      BY <1>10, <2>1 DEF H!Parsed
  <1>11. CASE l.kind = "match"
    BY <1>3, <1>4, <1>11 DEF H!Parsed
  <1>12. CASE l.kind = "include"
    BY <1>3, <1>4, <1>12 DEF H!Parsed
  <1>13. CASE l.kind = "dynamic"
    BY <1>3, <1>4, <1>13 DEF H!Parsed
  <1>14. CASE l.kind = "unknown"
    BY <1>3, <1>4, <1>6, <1>14 DEF H!Parsed
  <1>15. CASE l.kind = "directive" /\ x4
    BY <1>6, <1>15 DEF H!Parsed
  <1>16. CASE l.kind = "directive" /\ ~x4
    <2>1. Outcome(x3, H!Directive(l), l, Len(x2) + 1)
      BY <1>1, <1>16, DirectiveOutcome
    <2> QED
      BY <1>16, <2>1 DEF H!Parsed
  <1> QED
    BY <1>2, <1>7, <1>8, <1>9, <1>10, <1>11, <1>12, <1>13, <1>14, <1>15, <1>16

LEMMA AuditTypes ==
    ASSUME H!AuditInv
    PROVE  /\ x11 \in Profiles /\ x1 \in {"read", "parse", "done"} /\ x4 \in BOOLEAN
           /\ x2 \in Seq(H!Line) /\ Len(x2) <= LineLimit /\ x5 \subseteq Directives
           /\ x3 \in H!Observation /\ x6 \in Seq(H!Observation) /\ Len(x6) <= Len(x11)
           /\ x7 \in 1 .. LastClock /\ x8 \in 1 .. LastClock /\ x9 \in 0 .. LastClock
           /\ x10 \in {"none", "succeeded", "collector_failed", "deadline"}
           /\ Len(x2) \in Nat /\ Len(x6) \in Nat
  BY DEF H!AuditInv, H!TypeOK

\* Every profile names one to four files.
LEMMA ProfileFacts ==
    ASSUME NEW p \in Profiles
    PROVE  /\ Len(p) \in 1 .. 4
           /\ \A k \in 1 .. Len(p) : p[k] \in {"sshd_config", "authorized_keys"}
  <1>1. p \in Seq({"sshd_config", "authorized_keys"})
    BY AuditConstants
  <1>2. \A k \in 1 .. Len(p) : p[k] \in {"sshd_config", "authorized_keys"}
    BY <1>1, ElementOfSeq
  <1> QED
    BY <1>2, AuditConstants

LEMMA NewFileFacts ==
    ASSUME NEW kind \in {"sshd_config", "authorized_keys"}
    PROVE  LET o == H!NewFile(kind)
           IN  /\ o \in H!Observation /\ o.kind = kind /\ o.status = "ok" /\ ~o.metadata
               /\ ~o.sha256 /\ o.baseline = "unavailable" /\ o.keys = <<>>
               /\ o.directives = <<>> /\ o.findings = {}
  BY DEF H!NewFile, H!Observation, H!Codes

\* A sequence that is one longer.
LEMMA OneMore ==
    ASSUME NEW Any, NEW s \in Seq(Any), NEW v
    PROVE  /\ \A k \in DOMAIN s : k \in DOMAIN Append(s, v) /\ Append(s, v)[k] = s[k]
           /\ \E k \in DOMAIN Append(s, v) : Append(s, v)[k] = v
           /\ \A k \in DOMAIN Append(s, v) : k \in DOMAIN s \/ Append(s, v)[k] = v
  <1> DEFINE t == Append(s, v)
  <1>1. s \in Seq(Any \cup {v}) /\ v \in Any \cup {v}
    OBVIOUS
  <1>2. /\ t \in Seq(Any \cup {v}) /\ Len(t) = Len(s) + 1 /\ t[Len(s) + 1] = v
        /\ \A k \in 1 .. Len(s) : t[k] = s[k]
    BY <1>1, AppendProperties
  <1> HIDE DEF t
  <1>3. DOMAIN s = 1 .. Len(s) /\ DOMAIN t = 1 .. Len(s) + 1 /\ Len(s) \in Nat
    BY <1>2, LenProperties
  <1>4. /\ \A k \in 1 .. Len(s) : k \in 1 .. Len(s) + 1
        /\ Len(s) + 1 \in 1 .. Len(s) + 1
        /\ \A k \in 1 .. Len(s) + 1 : k \in 1 .. Len(s) \/ k = Len(s) + 1
    BY <1>3
  <1>5. /\ \A k \in DOMAIN s : k \in DOMAIN t /\ t[k] = s[k]
        /\ \E k \in DOMAIN t : t[k] = v
        /\ \A k \in DOMAIN t : k \in DOMAIN s \/ t[k] = v
    BY <1>2, <1>3, <1>4, Zenon
  <1> QED
    BY <1>5 DEF t

LEMMA ParseLineStep ==
    ASSUME H!AuditInv, NEW l \in H!LinesOf(x3.kind), H!ParseLine(l) PROVE H!AuditInv'
  <1> DEFINE n == Len(x2) + 1
  <1>1. /\ x1 = "parse" /\ x3.status # "parse_error" /\ Len(x2) < LineLimit
        /\ x3' = H!Parsed(l) /\ x2' = Append(x2, l) /\ x4' = (x4 \/ l.kind = "match")
        /\ x5' = IF l.kind = "directive" /\ ~x4 /\ l.simple
                 THEN x5 \cup {H!Canonical(l.name)} ELSE x5
        /\ UNCHANGED <<x1, x6, x7, x8, x9, x10, x11>>
    BY DEF H!ParseLine, H!result
  <1>2. /\ H!Filling(x3, Len(x2)) /\ H!MatchMarked /\ H!GapsNamed /\ H!FirstGlobal
        /\ x3.status \in {"ok", "partial"} /\ l \in H!Line
    BY <1>1 DEF H!AuditInv, H!AtHand, H!Filling, H!LinesOf
  <1>3. Outcome(x3, x3', l, n)
    BY <1>1, <1>2, AuditTypes, ParsedOutcome
  <1>4. /\ x2' \in Seq(H!Line) /\ Len(x2') = n /\ x2'[n] = l
        /\ \A i \in 1 .. Len(x2) : x2'[i] = x2[i]
    BY <1>1, <1>2, AuditTypes, AppendProperties
  <1>5. /\ DOMAIN x2 = 1 .. Len(x2) /\ DOMAIN x2' = 1 .. n /\ n <= LineLimit
        /\ \A i \in 1 .. n : i \in 1 .. Len(x2) \/ i = n
        /\ \A i \in 1 .. Len(x2) : i \in 1 .. n
        /\ n \in 1 .. n
    <2>1. Len(x2) \in Nat /\ LineLimit \in Nat
      BY AuditTypes, AuditConstants
    <2> QED
      BY <1>1, <1>4, <2>1, AuditTypes, LenProperties
  <1> HIDE DEF n
  <1>6. H!TypeOK'
    <2>1. x5' \subseteq Directives
      BY <1>1, <1>2, AuditTypes, LineFacts, CanonicalFacts
    <2>2. x4' \in BOOLEAN
      BY <1>1, AuditTypes
    <2>3. x3' \in H!Observation
      BY <1>3 DEF Outcome
    <2> QED
      BY <1>1, <1>4, <1>5, <2>1, <2>2, <2>3, AuditTypes DEF H!TypeOK
  <1>7. H!AtHand' /\ H!ReportsSound' /\ H!CollectedValid'
    <2>1. H!Filling(x3', Len(x2'))
      BY <1>3, <1>4 DEF Outcome
    <2> QED
      BY <1>1, <2>1 DEF H!AuditInv, H!AtHand, H!ReportsSound, H!CollectedValid
  <1>8. H!MatchMarked'
    <2>1. CASE x4'
      <3>1. x3'.status # "ok" /\ "match_not_evaluated" \in x3'.findings
        <4>1. CASE x4
          BY <1>1, <1>2, <1>3, <4>1 DEF Outcome, H!MatchMarked
        <4>2. CASE l.kind = "match"
          BY <1>3, <4>2 DEF Outcome
        <4> QED
          BY <1>1, <2>1, <4>1, <4>2
      <3> QED
        BY <2>1, <3>1 DEF H!MatchMarked
    <2>2. CASE ~x4'
      <3>1. ~x4 /\ l.kind # "match"
        BY <1>1, <2>2
      <3>2. \A i \in 1 .. Len(x2) :
               /\ x2[i].kind # "match"
               /\ x2[i].kind = "directive" /\ x2[i].simple => H!Canonical(x2[i].name) \in x5
        BY <1>1, <1>2, <1>5, <3>1 DEF H!MatchMarked
      <3>3. x5 \subseteq x5'
        BY <1>1
      <3>4. l.kind = "directive" /\ l.simple => H!Canonical(l.name) \in x5'
        BY <1>1, <3>1
      <3>5. \A i \in 1 .. n :
               /\ x2'[i].kind # "match"
               /\ x2'[i].kind = "directive" /\ x2'[i].simple => H!Canonical(x2'[i].name) \in x5'
        BY <1>4, <1>5, <3>1, <3>2, <3>3, <3>4
      <3> QED
        BY <1>5, <2>2, <3>5 DEF H!MatchMarked, H!Canonical
    <2> QED
      BY <2>1, <2>2
  <1>9. /\ \A k \in DOMAIN x3.keys : k \in DOMAIN x3'.keys /\ x3'.keys[k] = x3.keys[k]
        /\ \A k \in DOMAIN x3.directives :
              k \in DOMAIN x3'.directives /\ x3'.directives[k] = x3.directives[k]
        /\ \/ x3'.directives = x3.directives
           \/ \A k \in DOMAIN x3'.directives :
                 \/ k \in DOMAIN x3.directives
                 \/ x3'.directives[k] = [line |-> n, name |-> H!Canonical(l.name)]
        /\ x3'.keys = Append(x3.keys, n) => \E k \in DOMAIN x3'.keys : x3'.keys[k] = n
        /\ x3'.directives = Append(x3.directives, [line |-> n, name |-> H!Canonical(l.name)])
              => \E k \in DOMAIN x3'.directives :
                    x3'.directives[k] = [line |-> n, name |-> H!Canonical(l.name)]
    <2> DEFINE e == [line |-> n, name |-> H!Canonical(l.name)]
    <2>1. /\ x3.keys \in Seq(1 .. LineLimit)
          /\ x3.directives \in Seq([line : 1 .. LineLimit, name : Directives])
      BY AuditTypes DEF H!Observation
    <2>2. /\ x3'.keys = x3.keys \/ x3'.keys = Append(x3.keys, n)
          /\ x3'.directives = x3.directives \/ x3'.directives = Append(x3.directives, e)
      BY <1>3 DEF Outcome
    <2> HIDE DEF e
    <2>3. /\ \A k \in DOMAIN x3.keys :
                k \in DOMAIN Append(x3.keys, n) /\ Append(x3.keys, n)[k] = x3.keys[k]
          /\ \E k \in DOMAIN Append(x3.keys, n) : Append(x3.keys, n)[k] = n
      BY <2>1, OneMore
    <2>4. /\ \A k \in DOMAIN x3.directives :
                /\ k \in DOMAIN Append(x3.directives, e)
                /\ Append(x3.directives, e)[k] = x3.directives[k]
          /\ \E k \in DOMAIN Append(x3.directives, e) : Append(x3.directives, e)[k] = e
          /\ \A k \in DOMAIN Append(x3.directives, e) :
                k \in DOMAIN x3.directives \/ Append(x3.directives, e)[k] = e
      <3> DEFINE D == [line : 1 .. LineLimit, name : Directives]
                 s == x3.directives
      <3>1. s \in Seq(D)
        BY <2>1
      <3> HIDE DEF D, s
      <3>2. /\ \A k \in DOMAIN s : k \in DOMAIN Append(s, e) /\ Append(s, e)[k] = s[k]
            /\ \E k \in DOMAIN Append(s, e) : Append(s, e)[k] = e
            /\ \A k \in DOMAIN Append(s, e) : k \in DOMAIN s \/ Append(s, e)[k] = e
        BY <3>1, OneMore
      <3> QED
        BY <3>2 DEF s
    <2>5. /\ \A k \in DOMAIN x3.keys : k \in DOMAIN x3'.keys /\ x3'.keys[k] = x3.keys[k]
          /\ x3'.keys = Append(x3.keys, n) => \E k \in DOMAIN x3'.keys : x3'.keys[k] = n
      <3>1. CASE x3'.keys = x3.keys
        BY <2>3, <3>1, Zenon
      <3>2. CASE x3'.keys = Append(x3.keys, n)
        BY <2>3, <3>2, Zenon
      <3> QED
        BY <2>2, <3>1, <3>2
    <2>6. /\ \A k \in DOMAIN x3.directives :
                k \in DOMAIN x3'.directives /\ x3'.directives[k] = x3.directives[k]
          /\ \/ x3'.directives = x3.directives
             \/ \A k \in DOMAIN x3'.directives :
                   k \in DOMAIN x3.directives \/ x3'.directives[k] = e
          /\ x3'.directives = Append(x3.directives, e)
                => \E k \in DOMAIN x3'.directives : x3'.directives[k] = e
      <3>1. CASE x3'.directives = x3.directives
        BY <2>4, <3>1, Zenon
      <3>2. CASE x3'.directives = Append(x3.directives, e)
        BY <2>4, <3>2, Zenon
      <3> QED
        BY <2>2, <3>1, <3>2
    <2> QED
      BY <2>5, <2>6 DEF e
  <1>10. H!GapsNamed'
    <2> DEFINE Told == {x3.keys[k] : k \in DOMAIN x3.keys}
                       \cup {x3.directives[k].line : k \in DOMAIN x3.directives}
               ToldNow == {x3'.keys[k] : k \in DOMAIN x3'.keys}
                          \cup {x3'.directives[k].line : k \in DOMAIN x3'.directives}
    <2> SUFFICES ASSUME x3'.status # "parse_error", NEW i \in 1 .. n,
                        x2'[i].kind # "blank", i \notin ToldNow
                 PROVE  x3'.status = "partial" /\ x3'.findings \cap H!GapCodes # {}
      BY <1>5 DEF H!GapsNamed, H!Reported, H!GapCodes
    <2>1. x3'.status \in {"ok", "partial"} /\ x3.findings \subseteq x3'.findings
          /\ (x3.status = "partial" => x3'.status # "ok")
      BY <1>3 DEF Outcome, H!Filling
    <2>2. Told \subseteq ToldNow
      BY <1>9
    <2>3. CASE i \in 1 .. Len(x2)
      <3>1. x2[i].kind # "blank" /\ i \notin Told /\ i \in DOMAIN x2
        BY <1>4, <1>5, <2>2, <2>3
      <3>2. x3.status = "partial" /\ x3.findings \cap H!GapCodes # {}
        BY <1>1, <1>2, <3>1 DEF H!GapsNamed, H!Reported
      <3> QED
        BY <2>1, <3>2
    <2>4. CASE i = n
      <3>1. l.kind # "blank"
        BY <1>4, <2>4
      <3>2. x3'.keys # Append(x3.keys, n)
        BY <1>9, <2>4
      <3>3. x3'.directives # Append(x3.directives, [line |-> n, name |-> H!Canonical(l.name)])
        BY <1>9, <2>4
      <3>4. CASE x3'.status = "partial" /\ x3'.findings \cap H!GapCodes # {}
        BY <3>4
      <3>5. CASE x4 /\ x3' = x3
        <4>1. "match_not_evaluated" \in H!GapCodes
          BY DEF H!GapCodes
        <4>2. x3.status # "ok" /\ "match_not_evaluated" \in x3.findings
          BY <1>1, <1>2, <3>5 DEF H!MatchMarked
        <4> QED
          BY <2>1, <3>5, <4>1, <4>2
      <3> QED
        BY <1>3, <3>1, <3>2, <3>3, <3>4, <3>5 DEF Outcome
    <2> QED
      BY <1>5, <2>3, <2>4
  <1>11. H!FirstGlobal'
    <2> DEFINE Is(s, i, name) == s[i].kind = "directive" /\ s[i].simple
                                 /\ s[i].name \in H!Spellings(name)
    <2>1. SUFFICES ASSUME NEW k \in DOMAIN x3'.directives
                 PROVE  /\ Is(x2', x3'.directives[k].line, x3'.directives[k].name)
                        /\ \A i \in 1 .. x3'.directives[k].line - 1 :
                              /\ ~Is(x2', i, x3'.directives[k].name)
                              /\ x2'[i].kind # "match"
      BY DEF H!FirstGlobal, H!Spellings
    <2>2. CASE k \in DOMAIN x3.directives
      <3> DEFINE d == x3.directives[k]
      <3>1. x3'.directives[k] = d
        BY <1>9, <2>2
      <3>2. d.line \in 1 .. Len(x2)
        BY <1>2, <2>2 DEF H!Filling
      <3>3. /\ Is(x2, d.line, d.name)
            /\ \A i \in 1 .. d.line - 1 : ~Is(x2, i, d.name) /\ x2[i].kind # "match"
        BY <1>1, <1>2, <2>2 DEF H!FirstGlobal
      <3> HIDE DEF d
      <3>4. \A i \in 1 .. d.line - 1 : i \in 1 .. Len(x2)
        <4>1. Len(x2) \in Nat
          BY AuditTypes
        <4> QED
          BY <3>2, <4>1
      <3> QED
        BY <1>4, <3>1, <3>2, <3>3, <3>4
    <2>3. CASE k \notin DOMAIN x3.directives
      <3>1. /\ x3'.directives[k] = [line |-> n, name |-> H!Canonical(l.name)]
            /\ l.kind = "directive" /\ l.simple /\ ~x4 /\ H!Canonical(l.name) \notin x5
        BY <1>3, <1>9, <2>1, <2>3 DEF Outcome
      <3>2. x3'.directives[k].line = n /\ x3'.directives[k].name = H!Canonical(l.name)
        BY <3>1
      <3>3. l.name \in Directives
        BY <1>2, <3>1, LineFacts
      <3>4. Is(x2', n, H!Canonical(l.name))
        BY <1>4, <3>1, <3>3, CanonicalFacts
      <3>5. \A i \in 1 .. n - 1 : i \in 1 .. Len(x2)
        BY AuditTypes DEF n
      <3>6. ASSUME NEW i \in 1 .. Len(x2)
            PROVE  ~Is(x2, i, H!Canonical(l.name)) /\ x2[i].kind # "match"
        <4>1. /\ x2[i].kind # "match"
              /\ x2[i].kind = "directive" /\ x2[i].simple => H!Canonical(x2[i].name) \in x5
          BY <1>1, <1>2, <1>5, <3>1 DEF H!MatchMarked
        <4>2. x2[i].name \in H!Spellings(H!Canonical(l.name)) =>
                 H!Canonical(x2[i].name) = H!Canonical(l.name)
          BY <3>3, CanonicalFacts
        <4> QED
          BY <3>1, <4>1, <4>2
      <3> QED
        BY <1>4, <3>2, <3>4, <3>5, <3>6
    <2> QED
      BY <2>2, <2>3
  <1> QED
    BY <1>6, <1>7, <1>8, <1>10, <1>11 DEF H!AuditInv

\* A file is done with, and its observation is one that Validate takes.
LEMMA NextFileStep ==
    ASSUME H!AuditInv, x1 # "done", NEW o \in H!Observation, H!ValidFile(o), H!NextFile(o)
    PROVE  H!AuditInv'
  <1>1. /\ x6' = Append(x6, o)
        /\ IF Len(x6) + 1 = Len(x11) THEN x1' = "done" /\ x3' = o
           ELSE x1' = "read" /\ x3' = H!NewFile(x11[Len(x6) + 2])
        /\ x2' = <<>> /\ x4' = FALSE /\ x5' = {}
        /\ UNCHANGED <<x7, x8, x9, x10, x11>>
    <2>1. Len(x6) + 1 + 1 = Len(x6) + 2
      BY AuditTypes
    <2> QED
      BY <2>1 DEF H!NextFile, H!File, H!result
  <1>2. Len(x6) < Len(x11) /\ Len(x11) \in 1 .. 4 /\ Len(x6) \in Nat
    BY AuditTypes, ProfileFacts DEF H!AuditInv, H!AtHand
  <1>3. /\ x6' \in Seq(H!Observation) /\ Len(x6') = Len(x6) + 1 /\ Len(x6') <= Len(x11)
        /\ \A k \in DOMAIN x6' : k \in DOMAIN x6 \/ x6'[k] = o
        /\ \A k \in DOMAIN x6 : x6'[k] = x6[k]
    <2>1. x6 \in Seq(H!Observation)
      BY AuditTypes
    <2>2. /\ \A k \in DOMAIN x6 : Append(x6, o)[k] = x6[k]
          /\ \A k \in DOMAIN Append(x6, o) : k \in DOMAIN x6 \/ Append(x6, o)[k] = o
      BY <2>1, OneMore
    <2>3. x6' \in Seq(H!Observation) /\ Len(x6') = Len(x6) + 1
      BY <1>1, <2>1, AppendProperties
    <2> QED
      BY <1>1, <1>2, <2>2, <2>3
  <1>4. Len(x6) + 1 # Len(x11) =>
           x11[Len(x6) + 2] \in {"sshd_config", "authorized_keys"} /\ Len(x6') < Len(x11)
    <2> SUFFICES ASSUME Len(x6) + 1 # Len(x11)
                 PROVE  Len(x6) + 2 \in 1 .. Len(x11) /\ Len(x6') < Len(x11)
      BY AuditTypes, ProfileFacts
    <2> QED
      BY <1>2, <1>3
  <1>5. x3' \in H!Observation /\ x1' \in {"read", "done"}
    BY <1>1, <1>4, NewFileFacts
  <1>6. H!TypeOK'
    <2>1. <<>> \in Seq(H!Line) /\ Len(<<>>) <= LineLimit
      BY AuditConstants
    <2> QED
      BY <1>1, <1>3, <1>5, <2>1, AuditTypes DEF H!TypeOK
  <1>7. H!AtHand'
    <2>1. Len(x6) + 2 = Len(x6') + 1
      BY <1>2, <1>3
    <2>2. x1' # "done" => Len(x6') < Len(x11') /\ x3' = H!NewFile(x11'[Len(x6') + 1])
      BY <1>1, <1>4, <2>1
    <2>3. x1' = "done" => Len(x6') = Len(x11')
      BY <1>1, <1>3
    <2> QED
      BY <1>1, <1>5, <2>2, <2>3 DEF H!AtHand, H!File, H!NewFile
  <1>8. H!ReportsSound'
    <2>1. \A k \in DOMAIN x6 : H!ValidFile(x6[k])
      BY DEF H!AuditInv, H!ReportsSound
    <2>2. \A k \in DOMAIN x6' : H!ValidFile(x6'[k])
      BY <1>3, <2>1
    <2> QED
      BY <2>2 DEF H!ReportsSound, H!ValidFile, H!Codes, H!ReadCodes, H!Findings, H!GapCodes,
         H!Known
  <1>9. H!MatchMarked' /\ H!GapsNamed' /\ H!FirstGlobal' /\ H!CollectedValid'
    BY <1>1, <1>5 DEF H!AuditInv, H!MatchMarked, H!GapsNamed, H!FirstGlobal, H!CollectedValid
  <1> QED
    BY <1>6, <1>7, <1>8, <1>9 DEF H!AuditInv

\* An observation of a file that could not be read or parsed.
LEMMA UnreadFile ==
    ASSUME H!AuditInv, x1 = "read"
    PROVE  /\ x3 \in H!Observation /\ x3.status = "ok" /\ x3.baseline = "unavailable"
           /\ ~x3.sha256 /\ x3.keys = <<>> /\ x3.directives = <<>> /\ x3.findings = {}
           /\ x2 = <<>> /\ x4 = FALSE /\ x5 = {} /\ Len(x6) < Len(x11)
  <1>1. /\ Len(x6) < Len(x11) /\ x2 = <<>> /\ x4 = FALSE /\ x5 = {}
        /\ x3 = H!NewFile(x11[Len(x6) + 1])
    BY DEF H!AuditInv, H!AtHand, H!File
  <1>2. Len(x6) + 1 \in 1 .. Len(x11)
    BY <1>1, AuditTypes, ProfileFacts
  <1>3. x11[Len(x6) + 1] \in {"sshd_config", "authorized_keys"}
    BY <1>2, AuditTypes, ProfileFacts
  <1> QED
    BY <1>1, <1>3, NewFileFacts

LEMMA BareFile ==
    ASSUME NEW o \in H!Observation, o.status \notin {"ok", "partial"},
           o.baseline = "unavailable", ~o.sha256, o.keys = <<>>, o.directives = <<>>
    PROVE  H!ValidFile(o)
  <1>1. o.status \in H!Codes /\ o.findings \subseteq H!Findings
    BY DEF H!Observation
  <1>2. Len(o.keys) <= KeyLimit /\ Len(o.directives) <= DirectiveLimit
    BY AuditConstants
  <1> QED
    BY <1>1, <1>2 DEF H!ValidFile

LEMMA MetadataField ==
    ASSUME NEW o \in H!Observation
    PROVE  LET p == [o EXCEPT !.metadata = TRUE]
           IN  /\ p \in H!Observation /\ p.metadata /\ p.kind = o.kind /\ p.status = o.status
               /\ p.sha256 = o.sha256 /\ p.baseline = o.baseline /\ p.keys = o.keys
               /\ p.directives = o.directives /\ p.findings = o.findings
  BY DEF H!Observation

LEMMA WritableFacts ==
    ASSUME NEW o \in H!Observation, NEW p \in H!Writable(o)
    PROVE  p \in H!Observation /\ SameBut(o, p) /\ p.status = o.status
  <1>1. "group_or_other_writable" \in H!Findings
    BY DEF H!Findings
  <1>2. /\ H!Finding(o, "group_or_other_writable") \in H!Observation
        /\ SameBut(o, H!Finding(o, "group_or_other_writable"))
        /\ H!Finding(o, "group_or_other_writable").status = o.status
    BY <1>1, FindingFacts
  <1> QED
    BY <1>2 DEF H!Writable, SameBut

LEMMA UnreadStep ==
    ASSUME H!AuditInv, NEW code \in H!ReadCodes, H!Unread(code) PROVE H!AuditInv'
  <1>1. x1 = "read"
    BY DEF H!Unread
  <1> DEFINE o == [x3 EXCEPT !.status = code]
             p == [x3 EXCEPT !.status = code, !.metadata = TRUE]
  <1>2. code \in H!Codes /\ code \notin {"ok", "partial"}
    BY DEF H!Codes, H!ReadCodes
  <1>3. o \in H!Observation /\ SameBut(x3, o) /\ o.status = code
    BY <1>1, <1>2, UnreadFile, StatusField
  <1>4. p \in H!Observation /\ p.status = code /\ p.baseline = o.baseline
        /\ p.sha256 = o.sha256 /\ p.keys = o.keys /\ p.directives = o.directives
    <2>1. p = [o EXCEPT !.metadata = TRUE]
      BY <1>1, UnreadFile DEF H!Observation
    <2> HIDE DEF o, p
    <2> QED
      BY <1>3, <2>1, MetadataField
  <1>5. H!NextFile(o) \/ \E q \in H!Writable(p) : H!NextFile(q)
    BY DEF H!Unread
  <1> HIDE DEF o, p
  <1>6. CASE H!NextFile(o)
    <2>1. H!ValidFile(o)
      BY <1>1, <1>2, <1>3, UnreadFile, BareFile DEF SameBut
    <2> QED
      BY <1>1, <1>3, <1>6, <2>1, NextFileStep
  <1>7. ASSUME NEW q \in H!Writable(p), H!NextFile(q) PROVE H!AuditInv'
    <2>1. q \in H!Observation /\ SameBut(p, q) /\ q.status = code
      BY <1>4, WritableFacts
    <2>2. H!ValidFile(q)
      BY <1>1, <1>2, <1>3, <1>4, <2>1, UnreadFile, BareFile DEF SameBut
    <2> QED
      BY <1>1, <1>7, <2>1, <2>2, NextFileStep
  <1> QED
    BY <1>5, <1>6, <1>7

\* A file that is read: its metadata is known.
LEMMA ReadFile ==
    ASSUME H!AuditInv, x1 = "read", NEW o \in H!Writable([x3 EXCEPT !.metadata = TRUE])
    PROVE  /\ o \in H!Observation /\ o.status = "ok" /\ o.metadata /\ ~o.sha256
           /\ o.baseline = "unavailable" /\ o.keys = <<>> /\ o.directives = <<>>
  <1> DEFINE p == [x3 EXCEPT !.metadata = TRUE]
  <1>1. /\ p \in H!Observation /\ p.metadata /\ p.status = x3.status
        /\ p.sha256 = x3.sha256 /\ p.baseline = x3.baseline /\ p.keys = x3.keys
        /\ p.directives = x3.directives
    BY UnreadFile, MetadataField
  <1> HIDE DEF p
  <1>2. o \in H!Writable(p)
    BY DEF p
  <1>3. o \in H!Observation /\ SameBut(p, o) /\ o.status = p.status
    BY <1>1, <1>2, WritableFacts
  <1> QED
    BY <1>1, <1>3, UnreadFile DEF SameBut

LEMMA UnparsedStep ==
    ASSUME H!AuditInv, H!Unparsed PROVE H!AuditInv'
  <1>1. x1 = "read"
    BY DEF H!Unparsed
  <1>2. PICK o \in H!Writable([x3 EXCEPT !.metadata = TRUE]) :
           \/ H!NextFile([o EXCEPT !.status = "sensitive_content"])
           \/ H!NextFile([o EXCEPT !.status = "parse_error"])
           \/ H!NextFile(H!ParseError(o, "line_limit"))
    BY DEF H!Unparsed
  <1>3. /\ o \in H!Observation /\ o.baseline = "unavailable" /\ ~o.sha256
        /\ o.keys = <<>> /\ o.directives = <<>>
    BY <1>1, ReadFile
  <1>4. ASSUME NEW p \in H!Observation, SameBut(o, p), p.status \notin {"ok", "partial"},
               H!NextFile(p)
        PROVE  H!AuditInv'
    <2>1. H!ValidFile(p)
      BY <1>3, <1>4, BareFile DEF SameBut
    <2> QED
      BY <1>1, <1>4, <2>1, NextFileStep
  <1>5. /\ "sensitive_content" \in H!Codes /\ "parse_error" \in H!Codes
        /\ "line_limit" \in H!Findings
    BY DEF H!Codes, H!Findings
  <1>6. ASSUME NEW s \in {"sensitive_content", "parse_error"},
               H!NextFile([o EXCEPT !.status = s])
        PROVE  H!AuditInv'
    <2> DEFINE p == [o EXCEPT !.status = s]
    <2>1. p \in H!Observation /\ SameBut(o, p) /\ p.status = s
      BY <1>3, <1>5, StatusField
    <2>2. H!NextFile(p)
      BY <1>6
    <2> HIDE DEF p
    <2> QED
      BY <1>4, <2>1, <2>2
  <1>7. CASE H!NextFile(H!ParseError(o, "line_limit"))
    <2> DEFINE p == H!ParseError(o, "line_limit")
    <2>1. p \in H!Observation /\ SameBut(o, p) /\ p.status = "parse_error"
      BY <1>3, <1>5, ParseErrorFacts
    <2>2. H!NextFile(p)
      BY <1>7
    <2> HIDE DEF p
    <2> QED
      BY <1>4, <2>1, <2>2
  <1> QED
    BY <1>2, <1>6, <1>7

LEMMA ParseStep ==
    ASSUME H!AuditInv, H!Parse PROVE H!AuditInv'
  <1>1. /\ x1 = "read" /\ x1' = "parse" /\ x3' \in H!Writable([x3 EXCEPT !.metadata = TRUE])
        /\ UNCHANGED <<x2, x4, x5, x6, x7, x8, x9, x10, x11>>
    BY DEF H!Parse, H!result
  <1>2. /\ x3' \in H!Observation /\ x3'.status = "ok" /\ x3'.metadata /\ ~x3'.sha256
        /\ x3'.baseline = "unavailable" /\ x3'.keys = <<>> /\ x3'.directives = <<>>
    BY <1>1, ReadFile
  <1>3. x2 = <<>> /\ x4 = FALSE /\ Len(x6) < Len(x11)
    BY <1>1, UnreadFile
  <1>4. H!TypeOK'
    BY <1>1, <1>2, AuditTypes DEF H!TypeOK
  <1>5. H!Filling(x3', Len(x2'))
    <2>1. 0 <= KeyLimit /\ 0 <= DirectiveLimit
      BY AuditConstants
    <2>2. Len(x3'.keys) = 0 /\ Len(x3'.directives) = 0
      BY <1>2
    <2>3. /\ \A k \in DOMAIN x3'.keys : FALSE
          /\ \A k \in DOMAIN x3'.directives : FALSE
      BY <1>2
    <2> QED
      BY <1>2, <2>1, <2>2, <2>3 DEF H!Filling
  <1>6. H!AtHand' /\ H!ReportsSound' /\ H!CollectedValid'
    BY <1>1, <1>3, <1>5 DEF H!AuditInv, H!AtHand, H!ReportsSound, H!CollectedValid
  <1>7. H!MatchMarked' /\ H!GapsNamed' /\ H!FirstGlobal'
    <2>1. /\ \A k \in DOMAIN x3'.directives : FALSE
          /\ \A i \in DOMAIN x2' : FALSE
      BY <1>1, <1>2, <1>3
    <2> QED
      BY <1>1, <1>3, <2>1 DEF H!MatchMarked, H!GapsNamed, H!FirstGlobal
  <1> QED
    BY <1>4, <1>6, <1>7 DEF H!AuditInv

\* The end of a file that was parsed.
LEMMA ClearedFacts ==
    ASSUME x3 \in H!Observation, NEW n \in Nat, n <= LineLimit, H!Filling(x3, n)
    PROVE  LET o == H!Cleared(x3)
           IN  /\ o \in H!Observation /\ H!Filling(o, n)
               /\ o.status = "parse_error" => o.keys = <<>> /\ o.directives = <<>>
  <1>1. CASE x3.status = "parse_error"
    <2> DEFINE o == [[x3 EXCEPT !.keys = <<>>] EXCEPT !.directives = <<>>]
    <2>1. H!Cleared(x3) = o
      BY <1>1 DEF H!Cleared, H!Observation
    <2>2. /\ o \in H!Observation /\ o.keys = <<>> /\ o.directives = <<>> /\ o.status = x3.status
          /\ o.kind = x3.kind /\ o.metadata = x3.metadata /\ o.sha256 = x3.sha256
          /\ o.baseline = x3.baseline
      <3> DEFINE none == <<>>
                 p == [x3 EXCEPT !.keys = none]
                 q == [p EXCEPT !.directives = none]
      <3>1. /\ none \in Seq(1 .. LineLimit)
            /\ none \in Seq([line : 1 .. LineLimit, name : Directives])
        OBVIOUS
      <3>2. o = q
        OBVIOUS
      <3> HIDE DEF none, o
      <3>3. /\ p \in H!Observation /\ p.keys = none /\ p.status = x3.status
            /\ p.kind = x3.kind /\ p.metadata = x3.metadata /\ p.sha256 = x3.sha256
            /\ p.baseline = x3.baseline
        BY <3>1 DEF H!Observation
      <3> HIDE DEF p
      <3>4. /\ q \in H!Observation /\ q.keys = p.keys /\ q.directives = none
            /\ q.status = p.status /\ q.kind = p.kind /\ q.metadata = p.metadata
            /\ q.sha256 = p.sha256 /\ q.baseline = p.baseline
        BY <3>1, <3>3 DEF H!Observation
      <3> HIDE DEF q
      <3> QED
        BY <3>2, <3>3, <3>4 DEF none
    <2> HIDE DEF o
    <2>3. H!Filling(o, n)
      <3>1. 0 <= KeyLimit /\ 0 <= DirectiveLimit
        BY AuditConstants
      <3>2. Len(o.keys) = 0 /\ Len(o.directives) = 0
        BY <2>2
      <3>3. /\ \A k \in DOMAIN o.keys : FALSE
            /\ \A k \in DOMAIN o.directives : FALSE
        BY <2>2
      <3> QED
        BY <2>2, <3>1, <3>2, <3>3 DEF H!Filling
    <2> QED
      BY <2>1, <2>2, <2>3
  <1>2. CASE x3.status # "parse_error" /\ x3.kind = "authorized_keys" /\ x3.status = "ok"
             /\ x3.keys = <<>>
    <2> DEFINE o == H!Finding(x3, "empty_key_file")
    <2>1. H!Cleared(x3) = o /\ "empty_key_file" \in H!Findings
      BY <1>2 DEF H!Cleared, H!Findings
    <2>2. o \in H!Observation /\ SameBut(x3, o) /\ o.status = x3.status
      BY <2>1, FindingFacts
    <2> HIDE DEF o
    <2>3. H!Filling(o, n)
      BY <2>2 DEF SameBut, H!Filling
    <2> QED
      BY <1>2, <2>1, <2>2, <2>3
  <1>3. CASE x3.status # "parse_error" /\ ~(x3.kind = "authorized_keys" /\ x3.status = "ok"
                                           /\ x3.keys = <<>>)
    BY <1>3 DEF H!Cleared
  <1> QED
    BY <1>1, <1>2, <1>3

LEMMA ComparedFacts ==
    ASSUME NEW o \in H!Observation, NEW n \in Nat, n <= LineLimit, H!Filling(o, n),
           o.status = "parse_error" => o.keys = <<>> /\ o.directives = <<>>,
           NEW p \in H!Compared(o)
    PROVE  p \in H!Observation /\ H!ValidFile(p)
  <1>1. CASE o.status \notin {"ok", "partial"}
    <2>1. p = o /\ o.status = "parse_error"
      BY <1>1 DEF H!Compared, H!Filling
    <2> QED
      BY <1>1, <2>1, BareFile DEF H!Filling
  <1>2. CASE o.status \in {"ok", "partial"}
    <2> DEFINE d == [o EXCEPT !.sha256 = TRUE]
               with(b) == [d EXCEPT !.baseline = b]
    <2>1. \/ p = with("unconfigured") \/ p = with("match")
          \/ p = H!Finding(with("changed"), "baseline_changed")
      BY <1>2 DEF H!Compared
    <2>2. ASSUME NEW b \in {"unconfigured", "match", "changed"}
          PROVE  LET q == with(b)
                 IN  /\ q \in H!Observation /\ q.sha256 /\ q.baseline = b /\ q.kind = o.kind
                     /\ q.status = o.status /\ q.metadata = o.metadata /\ q.keys = o.keys
                     /\ q.directives = o.directives
      BY DEF H!Observation
    <2> HIDE DEF with
    <2>3. /\ p \in H!Observation /\ p.sha256 /\ p.kind = o.kind /\ p.status = o.status
          /\ p.baseline \in {"unconfigured", "match", "changed"}
          /\ p.metadata = o.metadata /\ p.keys = o.keys /\ p.directives = o.directives
      <3>1. CASE p = with("unconfigured") \/ p = with("match")
        BY <2>2, <3>1
      <3>2. CASE p = H!Finding(with("changed"), "baseline_changed")
        <4> DEFINE q == with("changed")
        <4>1. /\ q \in H!Observation /\ q.sha256 /\ q.baseline = "changed" /\ q.kind = o.kind
              /\ q.status = o.status /\ q.metadata = o.metadata /\ q.keys = o.keys
              /\ q.directives = o.directives
          BY <2>2
        <4>2. p = H!Finding(q, "baseline_changed") /\ "baseline_changed" \in H!Findings
          BY <3>2 DEF H!Findings
        <4> HIDE DEF q
        <4>3. p \in H!Observation /\ SameBut(q, p) /\ p.status = q.status
          BY <4>1, <4>2, FindingFacts
        <4> QED
          BY <4>1, <4>3 DEF SameBut
      <3> QED
        BY <2>1, <3>1, <3>2
    <2>4. p.status \in H!Codes /\ p.findings \subseteq H!Findings
      BY <2>3 DEF H!Observation
    <2>5. /\ \A i \in 1 .. n : i \in 1 .. LineLimit
          /\ p.metadata
      BY <2>3, AuditConstants DEF H!Filling
    <2>6. /\ \A k \in DOMAIN p.keys : p.keys[k] \in 1 .. LineLimit
          /\ \A k \in DOMAIN p.directives :
                p.directives[k].line \in 1 .. LineLimit /\ p.directives[k].name \in H!Known
      <3>1. /\ \A k \in DOMAIN o.keys : o.keys[k] \in 1 .. n
            /\ \A k \in DOMAIN o.directives :
                  o.directives[k].line \in 1 .. n /\ o.directives[k].name \in H!Known
        BY DEF H!Filling
      <3> QED
        BY <2>3, <2>5, <3>1
    <2>7. /\ Len(p.keys) <= KeyLimit /\ Len(p.directives) <= DirectiveLimit
          /\ p.kind = "sshd_config" => p.keys = <<>>
          /\ p.kind = "authorized_keys" => p.directives = <<>>
      BY <2>3 DEF H!Filling
    <2>8. H!ValidFile(p)
      BY <1>2, <2>3, <2>4, <2>5, <2>6, <2>7 DEF H!ValidFile
    <2> QED
      BY <2>3, <2>8
  <1> QED
    BY <1>1, <1>2

LEMMA EndOfFileStep ==
    ASSUME H!AuditInv, H!EndOfFile PROVE H!AuditInv'
  <1> DEFINE o == H!Cleared(x3)
  <1>1. x1 = "parse" /\ \E p \in H!Compared(o) : H!NextFile(p)
    BY DEF H!EndOfFile
  <1>2. PICK p \in H!Compared(o) : H!NextFile(p)
    BY <1>1
  <1>3. /\ x3 \in H!Observation /\ Len(x2) \in Nat /\ Len(x2) <= LineLimit
        /\ H!Filling(x3, Len(x2))
    BY <1>1, AuditTypes DEF H!AuditInv, H!AtHand
  <1>4. /\ o \in H!Observation /\ H!Filling(o, Len(x2))
        /\ o.status = "parse_error" => o.keys = <<>> /\ o.directives = <<>>
    BY <1>3, ClearedFacts
  <1> HIDE DEF o
  <1>5. p \in H!Observation /\ H!ValidFile(p)
    BY <1>3, <1>4, ComparedFacts
  <1> QED
    BY <1>1, <1>2, <1>5, NextFileStep

LEMMA FinishStep ==
    ASSUME H!AuditInv, NEW t \in 1 .. LastClock, H!Finish(t) PROVE H!AuditInv'
  <1>1. /\ x1 = "done" /\ x10 = "none" /\ x9' = (IF t < x7 THEN x7 ELSE t)
        /\ x10' = (IF H!Validate(x9') THEN "succeeded" ELSE "collector_failed")
        /\ UNCHANGED <<x1, x2, x3, x4, x5, x6, x7, x8, x11>>
    BY DEF H!Finish
  <1>2. /\ x9' \in 1 .. LastClock /\ x9' \in 0 .. LastClock
        /\ x8 \in 1 .. LastClock /\ LastClock \in Nat
    <2>1. x7 \in 1 .. LastClock /\ x8 \in 1 .. LastClock /\ LastClock \in Nat
      BY AuditTypes, AuditConstants
    <2> QED
      BY <1>1, <2>1
  <1>3. x10' \in {"none", "succeeded", "collector_failed", "deadline"} /\ x10' # "none"
    BY <1>1
  <1>4. H!TypeOK'
    BY <1>1, <1>2, <1>3, AuditTypes DEF H!TypeOK
  <1>5. H!CollectedValid'
    <2> SUFFICES ASSUME ~(x9' < x8) PROVE H!Validate(x9')
      BY <1>1 DEF H!CollectedValid
    <2>1. x8 >= 1 /\ x8 <= x9'
      BY <1>2
    <2>2. Len(x6) \in 1 .. 4
      <3>1. Len(x6) = Len(x11)
        BY <1>1 DEF H!AuditInv, H!AtHand
      <3> QED
        BY <3>1, AuditTypes, ProfileFacts
    <2>3. 1 \in DOMAIN x6
      BY <2>2, AuditTypes, LenProperties
    <2>4. H!Coverage = H!Want
      BY <2>3 DEF H!Coverage, H!Want
    <2>5. \A k \in DOMAIN x6 : H!ValidFile(x6[k])
      BY DEF H!AuditInv, H!ReportsSound
    <2> QED
      BY <2>1, <2>2, <2>4, <2>5 DEF H!Validate
  <1>6. H!AtHand' /\ H!ReportsSound'
    BY <1>1, <1>3 DEF H!AuditInv, H!AtHand, H!ReportsSound
  <1>7. H!MatchMarked' /\ H!GapsNamed' /\ H!FirstGlobal'
    BY <1>1 DEF H!MatchMarked, H!GapsNamed, H!FirstGlobal
  <1> QED
    BY <1>4, <1>5, <1>6, <1>7 DEF H!AuditInv

LEMMA DeadlineStep ==
    ASSUME H!AuditInv, H!Deadline PROVE H!AuditInv'
  <1>1. /\ x10' = "deadline" /\ x1' = "done"
        /\ UNCHANGED <<x2, x3, x4, x5, x6, x7, x8, x9, x11>>
    BY DEF H!Deadline
  <1>2. H!TypeOK'
    BY <1>1, AuditTypes DEF H!TypeOK
  <1>3. H!AtHand' /\ H!ReportsSound' /\ H!CollectedValid'
    BY <1>1 DEF H!AuditInv, H!AtHand, H!ReportsSound, H!CollectedValid
  <1>4. H!MatchMarked' /\ H!GapsNamed' /\ H!FirstGlobal'
    BY <1>1 DEF H!MatchMarked, H!GapsNamed, H!FirstGlobal
  <1> QED
    BY <1>2, <1>3, <1>4 DEF H!AuditInv

LEMMA AuditInit ==
    ASSUME H!Init PROVE H!AuditInv
  <1>1. /\ x11 \in Profiles /\ x1 = "read" /\ x2 = <<>> /\ x3 = H!NewFile(x11[1])
        /\ x4 = FALSE /\ x5 = {} /\ x6 = <<>> /\ x7 \in 1 .. LastClock
        /\ x8 \in x7 .. LastClock /\ x9 = 0 /\ x10 = "none"
    BY DEF H!Init
  <1>2. Len(x11) \in 1 .. 4 /\ x11[1] \in {"sshd_config", "authorized_keys"}
    <2>1. Len(x11) \in 1 .. 4
      BY <1>1, ProfileFacts
    <2>2. 1 \in 1 .. Len(x11)
      BY <2>1
    <2> QED
      BY <1>1, <2>1, <2>2, ProfileFacts
  <1>3. x3 \in H!Observation
    BY <1>1, <1>2, NewFileFacts
  <1>4. /\ x8 \in 1 .. LastClock /\ 0 \in 0 .. LastClock /\ LineLimit \in Nat
    BY <1>1, AuditConstants
  <1>5. /\ <<>> \in Seq(H!Line) /\ <<>> \in Seq(H!Observation) /\ Len(<<>>) = 0
        /\ \A k \in DOMAIN <<>> : FALSE
    OBVIOUS
  <1>6. H!TypeOK
    <2>1. Len(x2) <= LineLimit /\ Len(x6) <= Len(x11)
      BY <1>1, <1>2, <1>4, <1>5
    <2> QED
      BY <1>1, <1>3, <1>4, <1>5, <2>1 DEF H!TypeOK
  <1>7. H!AtHand
    <2>1. Len(x6) < Len(x11) /\ Len(x6) + 1 = 1
      BY <1>1, <1>2, <1>5
    <2> QED
      BY <1>1, <2>1 DEF H!AtHand, H!File
  <1> QED
    BY <1>1, <1>5, <1>6, <1>7 DEF H!AuditInv, H!ReportsSound, H!CollectedValid,
       H!MatchMarked, H!GapsNamed, H!FirstGlobal

LEMMA AuditNext ==
    ASSUME H!AuditInv, H!Next PROVE H!AuditInv'
  BY UnreadStep, UnparsedStep, ParseStep, EndOfFileStep, DeadlineStep, ParseLineStep,
     FinishStep DEF H!Next

(***************************************************************************)
(* For every set of profiles, every limit and every content of the files:  *)
(* the report that Collect makes is one that Validate takes, unless the    *)
(* clock was set back, no line is left out in silence, and a directive is  *)
(* reported with the first line of its name, before every Match            *)
(* (internal/sshaudit/audit.go, internal/protocol/ssh.go).                 *)
(***************************************************************************)
THEOREM AuditHolds == Spec => []AuditComplete
  <1> DEFINE Inv == part = "audit" => H!AuditInv
  <1>1. Init => Inv
    BY AuditInit DEF Init
  <1>2. Inv /\ [Next]_vars => Inv'
    <2> SUFFICES ASSUME Inv, [Next]_vars, part' = "audit" PROVE H!AuditInv'
      OBVIOUS
    <2>1. part = "audit" /\ H!AuditInv
      BY OnePart
    <2>2. CASE H!Next
      BY <2>1, <2>2, AuditNext
    <2>3. CASE UNCHANGED vars
      <3>1. UNCHANGED <<x1, x2, x3, x4, x5, x6, x7, x8, x9, x10, x11>>
        BY <2>3 DEF vars, above7, above8, above11
      <3>2. H!TypeOK'
        BY <2>1, <3>1, AuditTypes DEF H!TypeOK
      <3>3. H!AtHand' /\ H!ReportsSound' /\ H!CollectedValid'
        BY <2>1, <3>1 DEF H!AuditInv, H!AtHand, H!File, H!ReportsSound, H!CollectedValid
      <3>4. H!MatchMarked' /\ H!GapsNamed'
        BY <2>1, <3>1 DEF H!AuditInv, H!MatchMarked, H!GapsNamed, H!Reported
      <3>5. H!FirstGlobal'
        BY <2>1, <3>1 DEF H!AuditInv, H!FirstGlobal
      <3> QED
        BY <3>2, <3>3, <3>4, <3>5 DEF H!AuditInv
    <2> QED
      BY <2>1, <2>2, <2>3 DEF Next, Rotate, Enroll, Administer,
         Admit, Beat, AuditFiles, Read, CheckFrame, Query
  <1>3. Inv => AuditComplete
    BY DEF AuditComplete, H!AuditInv
  <1> QED
    BY <1>1, <1>2, <1>3, PTL DEF Spec

-----------------------------------------------------------------------------
(* Admission.  x1 says when the clock is read, x2 is the time, x3 the      *)
(* window and x4 its count, x5 the places taken, x6 the requests, and x7   *)
(* the times at which requests were counted.                               *)

LEMMA AdmissionConstants ==
    /\ IsFiniteSet(Callers) /\ Limit \in Nat /\ Limit >= 1 /\ Window \in Nat /\ Window >= 1
    /\ Slots \in Nat /\ MaxStale \in Nat /\ MaxStale < Window /\ Horizon \in Nat
  <1>1. A!IsFiniteSet(Callers) => IsFiniteSet(Callers)
    BY DEF A!IsFiniteSet, IsFiniteSet
  <1>2. /\ A!IsFiniteSet(Callers) /\ Limit \in Nat \ {0} /\ Window \in Nat \ {0}
        /\ Slots \in Nat /\ MaxStale \in 0 .. Window - 1 /\ Horizon \in Nat
    BY PartsAssumption DEF A!AdmissionAssumption
  <1> QED
    BY <1>1, <1>2

LEMMA CountsAreCounts == ASSUME NEW S1 PROVE A!Cardinality(S1) = Cardinality(S1)
  BY DEF A!Cardinality, Cardinality

Working == {r \in Callers : x6[r].pc = "working"}

LEMMA AdmissionTypes ==
    ASSUME A!AdmissionInv
    PROVE  /\ x1 \in BOOLEAN /\ x2 \in 0 .. Horizon /\ x3 \in -Window .. Horizon
           /\ x4 \in 0 .. Limit /\ x5 \in 0 .. Slots
           /\ x6 \in [Callers -> [pc : {"idle", "checked", "counted", "working"},
                                  at : 0 .. Horizon]]
           /\ x7 \in Seq(0 .. Horizon)
           /\ x2 \in Int /\ x3 \in Int /\ x4 \in Nat /\ x5 \in Nat /\ Len(x7) \in Nat
           /\ A!Late \in Nat /\ A!Late < Window
  <1>1. /\ x1 \in BOOLEAN /\ x2 \in 0 .. Horizon /\ x3 \in -Window .. Horizon
        /\ x4 \in 0 .. Limit /\ x5 \in 0 .. Slots
        /\ x6 \in [Callers -> [pc : {"idle", "checked", "counted", "working"},
                               at : 0 .. Horizon]]
        /\ x7 \in Seq(0 .. Horizon)
    BY DEF A!AdmissionInv, A!TypeOK
  <1>2. x2 \in Int /\ x3 \in Int /\ x4 \in Nat /\ x5 \in Nat
    BY <1>1, AdmissionConstants
  <1>3. Len(x7) \in Nat
    BY <1>1, LenProperties
  <1>4. A!Late \in Nat /\ A!Late < Window
    BY AdmissionConstants DEF A!Late
  <1> QED
    BY <1>1, <1>2, <1>3, <1>4

\* One request changes.
LEMMA RequestPut ==
    ASSUME A!AdmissionInv, NEW r \in Callers, NEW row, x6' = [x6 EXCEPT ![r] = row],
           row \in [pc : {"idle", "checked", "counted", "working"}, at : 0 .. Horizon]
    PROVE  /\ x6' \in [Callers -> [pc : {"idle", "checked", "counted", "working"},
                                   at : 0 .. Horizon]]
           /\ x6'[r] = row /\ \A p \in Callers : p # r => x6'[p] = x6[p]
  BY AdmissionTypes

LEMMA IdleRow ==
    /\ A!Idle \in [pc : {"idle", "checked", "counted", "working"}, at : 0 .. Horizon]
    /\ A!Idle.pc = "idle"
  BY AdmissionConstants DEF A!Idle

\* The places after one request changed.
LEMMA WorkingCounts ==
    ASSUME A!AdmissionInv, NEW r \in Callers,
           \A p \in Callers : p # r => x6'[p] = x6[p]
    PROVE  /\ x6[r].pc # "working" /\ x6'[r].pc # "working" =>
                 (x5' = x5 => A!PlacesTaken')
           /\ x6[r].pc # "working" /\ x6'[r].pc = "working" =>
                 (x5' = x5 + 1 => A!PlacesTaken')
           /\ x6[r].pc = "working" /\ x6'[r].pc # "working" =>
                 x5 >= 1 /\ (x5' = x5 - 1 => A!PlacesTaken')
  <1>1. IsFiniteSet(Working)
    BY AdmissionConstants, FS_Subset DEF Working
  <1>2. x5 = Cardinality(Working) /\ Cardinality(Working) \in Nat
    BY <1>1, FS_CardinalityType, CountsAreCounts DEF A!AdmissionInv, A!PlacesTaken, Working
  <1>3. A!PlacesTaken' <=> x5' = Cardinality(Working')
    BY CountsAreCounts DEF A!PlacesTaken, Working
  <1>4. ASSUME x6[r].pc # "working", x6'[r].pc # "working", x5' = x5 PROVE A!PlacesTaken'
    <2>1. Working' = Working
      BY <1>4 DEF Working
    <2> QED
      BY <1>2, <1>3, <1>4, <2>1
  <1>5. ASSUME x6[r].pc # "working", x6'[r].pc = "working", x5' = x5 + 1
        PROVE  A!PlacesTaken'
    <2>1. Working' = Working \cup {r} /\ r \notin Working
      BY <1>5 DEF Working
    <2>2. Cardinality(Working') = Cardinality(Working) + 1
      BY <1>1, <2>1, FS_AddElement
    <2> QED
      BY <1>2, <1>3, <1>5, <2>2
  <1>6. ASSUME x6[r].pc = "working", x6'[r].pc # "working"
        PROVE  x5 >= 1 /\ (x5' = x5 - 1 => A!PlacesTaken')
    <2>1. Working' = Working \ {r} /\ r \in Working
      BY <1>6 DEF Working
    <2>2. Cardinality(Working') = Cardinality(Working) - 1
      BY <1>1, <2>1, FS_RemoveElement
    <2>3. Working # {}
      BY <2>1
    <2>4. Cardinality(Working) # 0
      BY <1>1, <2>3, FS_EmptySet
    <2> QED
      BY <1>2, <1>3, <2>2, <2>4
  <1> QED
    BY <1>4, <1>5, <1>6

\* A step that counts nothing.
LEMMA NothingCounted ==
    ASSUME A!Spread, UNCHANGED <<x1, x3, x4, x7>>, x2' \in Int, x2 \in Int, x3 \in Int, x2 <= x2'
    PROVE  A!Spread'
  <1>1. x3' <= x2' /\ x4' <= Len(x7')
    BY DEF A!Spread
  <1> QED
    BY <1>1 DEF A!Spread, A!AllBut, A!Late

LEMMA TickAdmission ==
    ASSUME A!AdmissionInv, A!Tick PROVE A!AdmissionInv'
  <1>1. /\ x2 < Horizon /\ x2' = x2 + 1 /\ UNCHANGED <<x1, x3, x4, x5, x6, x7>>
        /\ \A r \in Callers : x6[r].pc = "checked" => x2 - x6[r].at < MaxStale
    BY DEF A!Tick
  <1>2. x2' \in 0 .. Horizon /\ x2' \in Int /\ x2 <= x2'
    BY <1>1, AdmissionTypes, AdmissionConstants
  <1>3. A!TypeOK'
    BY <1>1, <1>2, AdmissionTypes DEF A!TypeOK
  <1>4. A!PlacesTaken'
    BY <1>1 DEF A!AdmissionInv, A!PlacesTaken
  <1>5. A!InTime'
    <2> SUFFICES ASSUME NEW r \in Callers, x6[r].pc = "checked"
                 PROVE  x6[r].at <= x2' /\ x2' - x6[r].at <= MaxStale
      BY <1>1 DEF A!InTime
    <2>1. x6[r].at \in 0 .. Horizon
      BY AdmissionTypes
    <2>2. x6[r].at <= x2 /\ x2 - x6[r].at < MaxStale
      BY <1>1 DEF A!AdmissionInv, A!InTime
    <2> QED
      BY <1>1, <2>1, <2>2, AdmissionTypes, AdmissionConstants
  <1>6. A!Spread'
    BY <1>1, <1>2, AdmissionTypes, NothingCounted DEF A!AdmissionInv
  <1> QED
    BY <1>3, <1>4, <1>5, <1>6 DEF A!AdmissionInv

\* A request moves, and nothing is counted.
LEMMA RequestMoves ==
    ASSUME A!AdmissionInv, NEW r \in Callers, NEW row, x6' = [x6 EXCEPT ![r] = row],
           row \in [pc : {"idle", "checked", "counted", "working"}, at : 0 .. Horizon],
           row.pc = "checked" => row.at = x2,
           UNCHANGED <<x1, x2, x3, x4, x7>>, x5' \in 0 .. Slots, A!PlacesTaken'
    PROVE  A!AdmissionInv'
  <1>1. /\ x6' \in [Callers -> [pc : {"idle", "checked", "counted", "working"},
                                at : 0 .. Horizon]]
        /\ x6'[r] = row /\ \A p \in Callers : p # r => x6'[p] = x6[p]
    BY RequestPut
  <1>2. A!TypeOK'
    BY <1>1, AdmissionTypes DEF A!TypeOK
  <1>3. A!InTime'
    <2>1. 0 <= MaxStale /\ x2 - x2 = 0 /\ x2 <= x2
      BY AdmissionTypes, AdmissionConstants
    <2> QED
      BY <1>1, <2>1 DEF A!AdmissionInv, A!InTime
  <1>4. x2 <= x2'
    BY AdmissionTypes
  <1>5. A!Spread'
    BY <1>4, AdmissionTypes, NothingCounted DEF A!AdmissionInv
  <1> QED
    BY <1>2, <1>3, <1>5 DEF A!AdmissionInv

LEMMA ArriveAdmission ==
    ASSUME A!AdmissionInv, NEW r \in Callers, A!Arrive(r) PROVE A!AdmissionInv'
  <1> DEFINE row == [pc |-> "checked", at |-> x2]
  <1>1. /\ x6[r].pc = "idle" /\ x6' = [x6 EXCEPT ![r] = row]
        /\ UNCHANGED <<x1, x2, x3, x4, x5, x7>>
    BY DEF A!Arrive
  <1>2. /\ row \in [pc : {"idle", "checked", "counted", "working"}, at : 0 .. Horizon]
        /\ row.pc = "checked" /\ row.at = x2
    BY AdmissionTypes
  <1> HIDE DEF row
  <1>3. x6'[r] = row /\ \A p \in Callers : p # r => x6'[p] = x6[p]
    BY <1>1, <1>2, RequestPut
  <1>4. A!PlacesTaken'
    BY <1>1, <1>2, <1>3, WorkingCounts
  <1> QED
    BY <1>1, <1>2, <1>4, AdmissionTypes, RequestMoves

LEMMA TakeSlotAdmission ==
    ASSUME A!AdmissionInv, NEW r \in Callers, A!TakeSlot(r) PROVE A!AdmissionInv'
  <1>1. x6[r].pc = "counted" /\ UNCHANGED <<x1, x2, x3, x4, x7>>
    BY DEF A!TakeSlot
  <1>2. CASE x5 < Slots
    <2> DEFINE row == [x6[r] EXCEPT !.pc = "working"]
    <2>1. x5' = x5 + 1 /\ x6' = [x6 EXCEPT ![r] = row]
      BY <1>2, AdmissionTypes DEF A!TakeSlot
    <2>2. /\ row \in [pc : {"idle", "checked", "counted", "working"}, at : 0 .. Horizon]
          /\ row.pc = "working"
      BY AdmissionTypes
    <2> HIDE DEF row
    <2>3. x5' \in 0 .. Slots
      BY <1>2, <2>1, AdmissionTypes, AdmissionConstants
    <2>4. x6'[r] = row /\ \A p \in Callers : p # r => x6'[p] = x6[p]
      BY <2>1, <2>2, RequestPut
    <2>5. A!PlacesTaken'
      BY <1>1, <2>1, <2>2, <2>4, WorkingCounts
    <2> QED
      BY <1>1, <2>1, <2>2, <2>3, <2>5, RequestMoves
  <1>3. CASE ~(x5 < Slots)
    <2>1. x5' = x5 /\ x6' = [x6 EXCEPT ![r] = A!Idle]
      BY <1>3 DEF A!TakeSlot, A!Refused
    <2>2. x6'[r] = A!Idle /\ \A p \in Callers : p # r => x6'[p] = x6[p]
      BY <2>1, IdleRow, RequestPut
    <2>3. A!PlacesTaken'
      BY <1>1, <2>1, <2>2, IdleRow, WorkingCounts
    <2> QED
      BY <1>1, <2>1, <2>3, IdleRow, AdmissionTypes, RequestMoves
  <1> QED
    BY <1>2, <1>3

LEMMA FinishAdmission ==
    ASSUME A!AdmissionInv, NEW r \in Callers, A!Finish(r) PROVE A!AdmissionInv'
  <1>1. /\ x6[r].pc = "working" /\ x5' = x5 - 1 /\ x6' = [x6 EXCEPT ![r] = A!Idle]
        /\ UNCHANGED <<x1, x2, x3, x4, x7>>
    BY DEF A!Finish, A!Refused
  <1>2. x6'[r] = A!Idle /\ \A p \in Callers : p # r => x6'[p] = x6[p]
    BY <1>1, IdleRow, RequestPut
  <1>3. x5 >= 1 /\ A!PlacesTaken'
    BY <1>1, <1>2, IdleRow, WorkingCounts
  <1>4. x5' \in 0 .. Slots
    BY <1>1, <1>3, AdmissionTypes, AdmissionConstants
  <1> QED
    BY <1>1, <1>3, <1>4, IdleRow, RequestMoves

\* The time that a request is counted at is not long past.
LEMMA ClockFacts ==
    ASSUME A!AdmissionInv, NEW r \in Callers, x6[r].pc = "checked"
    PROVE  /\ A!Clock(r) \in 0 .. Horizon /\ A!Clock(r) \in Int
           /\ A!Clock(r) <= x2 /\ x2 <= A!Clock(r) + A!Late
  <1>1. x6[r].at \in 0 .. Horizon /\ x2 \in 0 .. Horizon
    BY AdmissionTypes
  <1>2. x6[r].at <= x2 /\ x2 - x6[r].at <= MaxStale
    BY DEF A!AdmissionInv, A!InTime
  <1> QED
    BY <1>1, <1>2, AdmissionConstants DEF A!Clock, A!Late

\* The window after a request was counted: the times of the one before it are
\* those of an earlier window now, or it goes on.
LEMMA SpreadStep ==
    ASSUME A!AdmissionInv, x1' = x1, x2' = x2, x7' = Append(x7, x2),
           NEW t \in Int, t <= x2, x2 <= t + A!Late,
           \/ t - x3 >= Window /\ x3' = t /\ x4' = 1
           \/ t - x3 < Window /\ x3' = x3 /\ x4' = x4 + 1
    PROVE  A!Spread'
  <1> DEFINE n == Len(x7)
             l == A!Late
  <1>1. /\ x2 \in Int /\ x3 \in Int /\ x4 \in Nat /\ n \in Nat /\ x4 <= Limit
        /\ l \in Nat /\ x7 \in Seq(0 .. Horizon) /\ x2 \in 0 .. Horizon
    BY AdmissionTypes, AdmissionConstants
  <1>2. /\ x3 <= x2 /\ x4 <= n
        /\ \A i \in 1 .. n : x7[i] < x3 + Window + l
        /\ \A i \in 1 .. n - x4 : x7[i] < x3 + l
        /\ \A i \in 1 .. n - (x4 + Limit) : x7[i] < x3 - Window + l
        /\ \A i \in 1 .. n - (x4 + 2 * Limit) : x7[i] < x3 - 2 * Window + l
    <2>1. \A i \in 1 .. n - 0 : x7[i] < x3 + Window + l
      BY DEF A!AdmissionInv, A!Spread, A!AllBut
    <2>2. n - 0 = n
      BY <1>1
    <2> QED
      BY <2>1, <2>2 DEF A!AdmissionInv, A!Spread, A!AllBut
  <1>3. /\ Len(x7') = n + 1 /\ x7'[n + 1] = x2
        /\ \A i \in 1 .. n : x7'[i] = x7[i] /\ x7[i] \in Int
    <2>1. \A i \in 1 .. n : x7[i] \in 0 .. Horizon
      BY <1>1, ElementOfSeq
    <2> QED
      BY <1>1, <2>1, AppendProperties, AdmissionConstants
  <1>4. A!Late' = l
    BY DEF A!Late
  <1> HIDE DEF n, l
  <1>5. /\ x3' <= x2 /\ x4' <= n + 1
        /\ \A i \in 1 .. (n + 1) - 0 : x7'[i] < x3' + Window + l
        /\ \A i \in 1 .. (n + 1) - x4' : x7'[i] < x3' + l
        /\ \A i \in 1 .. (n + 1) - (x4' + Limit) : x7'[i] < x3' - Window + l
        /\ \A i \in 1 .. (n + 1) - (x4' + 2 * Limit) : x7'[i] < x3' - 2 * Window + l
    <2>1. CASE t - x3 >= Window /\ x3' = t /\ x4' = 1
      <3>1. x3' <= x2 /\ x4' <= n + 1
        BY <1>1, <2>1
      <3>2. \A i \in 1 .. n : x7'[i] < t + l
        BY <1>1, <1>2, <1>3, <2>1, AdmissionConstants
      <3>3. \A i \in 1 .. n + 1 : x7'[i] < t + Window + l
        <4>1. x2 < t + Window + l
          BY <1>1, AdmissionConstants DEF l
        <4>2. \A i \in 1 .. n + 1 : i \in 1 .. n \/ i = n + 1
          BY <1>1
        <4>3. t + l <= t + Window + l
          BY <1>1, AdmissionConstants
        <4>4. \A i \in 1 .. n : x7'[i] \in Int
          BY <1>3
        <4>5. ASSUME NEW i \in 1 .. n PROVE x7'[i] < t + Window + l
          <5>1. x7'[i] \in Int /\ x7'[i] < t + l
            BY <3>2, <4>4
          <5> DEFINE v == x7'[i]
          <5> HIDE DEF v
          <5>2. v \in Int /\ v < t + l
            BY <5>1 DEF v
          <5>3. t + l \in Int /\ t + Window + l \in Int
            BY <1>1, AdmissionConstants
          <5>4. v < t + Window + l
            BY <4>3, <5>2, <5>3
          <5> QED
            BY <5>4 DEF v
        <4> QED
          BY <1>3, <4>1, <4>2, <4>5
      <3>4. \A i \in 1 .. n - Limit : x7'[i] < t - Window + l
        <4> SUFFICES ASSUME NEW i \in 1 .. n - Limit PROVE x7'[i] < t - Window + l
          OBVIOUS
        <4>1. i \in 1 .. n /\ i \in 1 .. n - x4
          BY <1>1, AdmissionConstants
        <4>2. x7[i] < x3 + l /\ x7'[i] = x7[i] /\ x7[i] \in Int
          BY <1>2, <1>3, <4>1
        <4> QED
          BY <1>1, <2>1, <4>2, AdmissionConstants
      <3>5. \A i \in 1 .. n - 2 * Limit : x7'[i] < t - 2 * Window + l
        <4> SUFFICES ASSUME NEW i \in 1 .. n - 2 * Limit PROVE x7'[i] < t - 2 * Window + l
          OBVIOUS
        <4>1. i \in 1 .. n /\ i \in 1 .. n - (x4 + Limit)
          BY <1>1, AdmissionConstants
        <4>2. x7[i] < x3 - Window + l /\ x7'[i] = x7[i] /\ x7[i] \in Int
          BY <1>2, <1>3, <4>1
        <4> QED
          BY <1>1, <2>1, <4>2, AdmissionConstants
      <3>6. /\ (n + 1) - 0 = n + 1 /\ (n + 1) - x4' = n /\ (n + 1) - (x4' + Limit) = n - Limit
            /\ (n + 1) - (x4' + 2 * Limit) = n - 2 * Limit
        BY <1>1, <2>1, AdmissionConstants
      <3> QED
        BY <2>1, <3>1, <3>2, <3>3, <3>4, <3>5, <3>6
    <2>2. CASE t - x3 < Window /\ x3' = x3 /\ x4' = x4 + 1
      <3>1. x3' <= x2 /\ x4' <= n + 1
        BY <1>1, <1>2, <2>2
      <3>2. \A i \in 1 .. n + 1 : x7'[i] < x3 + Window + l
        <4>1. x2 < x3 + Window + l
          BY <1>1, <2>2, AdmissionConstants DEF l
        <4>2. \A i \in 1 .. n + 1 : i \in 1 .. n \/ i = n + 1
          BY <1>1
        <4> QED
          BY <1>2, <1>3, <4>1, <4>2
      <3>3. /\ (n + 1) - 0 = n + 1 /\ (n + 1) - x4' = n - x4
            /\ (n + 1) - (x4' + Limit) = n - (x4 + Limit)
            /\ (n + 1) - (x4' + 2 * Limit) = n - (x4 + 2 * Limit)
        BY <1>1, <2>2, AdmissionConstants
      <3>4. /\ \A i \in 1 .. n - x4 : i \in 1 .. n
            /\ \A i \in 1 .. n - (x4 + Limit) : i \in 1 .. n
            /\ \A i \in 1 .. n - (x4 + 2 * Limit) : i \in 1 .. n
        BY <1>1, AdmissionConstants
      <3>5. /\ \A i \in 1 .. n - x4 : x7'[i] < x3 + l
            /\ \A i \in 1 .. n - (x4 + Limit) : x7'[i] < x3 - Window + l
            /\ \A i \in 1 .. n - (x4 + 2 * Limit) : x7'[i] < x3 - 2 * Window + l
        BY <1>2, <1>3, <3>4
      <3> QED
        BY <2>2, <3>1, <3>2, <3>3, <3>5
    <2> QED
      BY <2>1, <2>2
  <1>6. x3' <= x2' /\ x4' <= Len(x7')
    BY <1>3, <1>5
  <1>7. Len(x7') = n + 1
    BY <1>3
  <1>8. A!AllBut(0, x3 + Window + A!Late)'
    BY <1>4, <1>5, <1>7, Zenon DEF A!AllBut
  <1>9. A!AllBut(x4, x3 + A!Late)'
    BY <1>4, <1>5, <1>7, Zenon DEF A!AllBut
  <1>10. A!AllBut(x4 + Limit, x3 - Window + A!Late)'
    BY <1>4, <1>5, <1>7, Zenon DEF A!AllBut
  <1>11. A!AllBut(x4 + 2 * Limit, x3 - 2 * Window + A!Late)'
    BY <1>4, <1>5, <1>7, Zenon DEF A!AllBut
  <1> QED
    BY <1>6, <1>8, <1>9, <1>10, <1>11 DEF A!Spread

LEMMA CountAdmission ==
    ASSUME A!AdmissionInv, NEW r \in Callers, A!Count(r) PROVE A!AdmissionInv'
  <1> DEFINE t == A!Clock(r)
             row == [pc |-> "counted", at |-> 0]
             fresh == t - x3 >= Window
             c == IF fresh THEN 0 ELSE x4
  <1>1. x6[r].pc = "checked" /\ UNCHANGED <<x1, x2, x5>>
    BY DEF A!Count
  <1>2. t \in 0 .. Horizon /\ t \in Int /\ t <= x2 /\ x2 <= t + A!Late
    BY <1>1, ClockFacts
  <1>3. /\ x3' = IF fresh THEN t ELSE x3
        /\ c < Limit => /\ x4' = c + 1 /\ x7' = Append(x7, x2)
                        /\ x6' = [x6 EXCEPT ![r] = row]
        /\ ~(c < Limit) => x4' = c /\ x6' = [x6 EXCEPT ![r] = A!Idle] /\ x7' = x7
    BY DEF A!Count, A!Budget, A!Refused
  <1>4. (fresh => c = 0) /\ (~fresh => c = x4) /\ c \in Nat
    BY AdmissionTypes
  <1>5. /\ (fresh => t - x3 >= Window) /\ (~fresh => t - x3 < Window)
        /\ x3' \in -Window .. Horizon
    <2>1. x3 \in -Window .. Horizon /\ x3 \in Int /\ t \in -Window .. Horizon
      BY <1>2, AdmissionTypes, AdmissionConstants
    <2>2. x3' \in -Window .. Horizon
      BY <1>3, <2>1
    <2> QED
      BY <1>2, <2>1, <2>2, AdmissionConstants
  <1> HIDE DEF t, fresh, c
  <1>6. CASE c < Limit
    <2>1. x4' = c + 1 /\ x7' = Append(x7, x2) /\ x6' = [x6 EXCEPT ![r] = row]
      BY <1>3, <1>6
    <2>2. \/ t - x3 >= Window /\ x3' = t /\ x4' = 1
          \/ t - x3 < Window /\ x3' = x3 /\ x4' = x4 + 1
      <3>1. c = 0 => c + 1 = 1
        OBVIOUS
      <3> QED
        BY <1>3, <1>4, <1>5, <2>1, <3>1
    <2>3. x3' \in -Window .. Horizon /\ x4' \in 0 .. Limit
      <3>1. c + 1 \in 0 .. Limit
        BY <1>6, <1>4, AdmissionConstants
      <3> QED
        BY <1>5, <2>1, <3>1
    <2>4. /\ row \in [pc : {"idle", "checked", "counted", "working"}, at : 0 .. Horizon]
          /\ row.pc = "counted"
      BY AdmissionConstants
    <2> HIDE DEF row
    <2>5. /\ x6' \in [Callers -> [pc : {"idle", "checked", "counted", "working"},
                                  at : 0 .. Horizon]]
          /\ x6'[r] = row /\ \A p \in Callers : p # r => x6'[p] = x6[p]
      BY <2>1, <2>4, RequestPut
    <2>6. x7' = Append(x7, x2) /\ x7' \in Seq(0 .. Horizon)
      <3>1. x7 \in Seq(0 .. Horizon) /\ x2 \in 0 .. Horizon
        BY AdmissionTypes
      <3> QED
        BY <2>1, <3>1, AppendProperties
    <2>7. A!TypeOK'
      BY <1>1, <2>3, <2>5, <2>6, AdmissionTypes DEF A!TypeOK
    <2>8. A!PlacesTaken'
      BY <1>1, <2>4, <2>5, WorkingCounts
    <2>9. A!InTime'
      BY <1>1, <2>4, <2>5 DEF A!AdmissionInv, A!InTime
    <2>10. A!Spread'
      BY <1>1, <1>2, <2>2, <2>6, SpreadStep
    <2> QED
      BY <2>7, <2>8, <2>9, <2>10 DEF A!AdmissionInv
  <1>7. CASE ~(c < Limit)
    <2>1. ~fresh
      BY <1>7, <1>4, AdmissionConstants
    <2>2. x6' = [x6 EXCEPT ![r] = A!Idle] /\ UNCHANGED <<x3, x4, x7>>
      BY <1>3, <1>7, <1>4, <2>1
    <2>3. x6'[r] = A!Idle /\ \A p \in Callers : p # r => x6'[p] = x6[p]
      BY <2>2, IdleRow, RequestPut
    <2>4. A!PlacesTaken'
      BY <1>1, <2>3, IdleRow, WorkingCounts
    <2> QED
      BY <1>1, <2>2, <2>4, IdleRow, AdmissionTypes, RequestMoves
  <1> QED
    BY <1>6, <1>7

LEMMA AdmissionInit == A!Init => A!AdmissionInv
  <1> SUFFICES ASSUME A!Init PROVE A!AdmissionInv
    OBVIOUS
  <1>1. /\ x1 \in BOOLEAN /\ x2 = 0 /\ x3 = -Window /\ x4 = 0 /\ x5 = 0
        /\ x6 = [r \in Callers |-> A!Idle] /\ x7 = <<>>
    BY DEF A!Init
  <1>2. /\ x2 \in 0 .. Horizon /\ x3 \in -Window .. Horizon /\ x4 \in 0 .. Limit
        /\ x5 \in 0 .. Slots
    BY <1>1, AdmissionConstants
  <1>3. /\ x6 \in [Callers -> [pc : {"idle", "checked", "counted", "working"},
                               at : 0 .. Horizon]]
        /\ \A r \in Callers : x6[r].pc = "idle"
    BY <1>1, IdleRow
  <1>4. x7 \in Seq(0 .. Horizon) /\ Len(x7) = 0
    BY <1>1
  <1>5. A!TypeOK
    BY <1>1, <1>2, <1>3, <1>4 DEF A!TypeOK
  <1>6. A!PlacesTaken
    <2>1. {r \in Callers : x6[r].pc = "working"} = {}
      BY <1>3
    <2> QED
      BY <1>1, <2>1, FS_EmptySet, CountsAreCounts DEF A!PlacesTaken
  <1>7. A!InTime
    BY <1>3 DEF A!InTime
  <1>8. A!Spread
    <2>1. x3 <= x2
      BY <1>1, AdmissionConstants
    <2>2. \A k \in Nat, s \in Int : A!AllBut(k, s)
      BY <1>4 DEF A!AllBut
    <2>3. A!Late \in Nat
      BY AdmissionConstants DEF A!Late
    <2>4. /\ x4 \in Nat /\ x4 + Limit \in Nat /\ x4 + 2 * Limit \in Nat
          /\ x3 + Window + A!Late \in Int /\ x3 + A!Late \in Int
          /\ x3 - Window + A!Late \in Int /\ x3 - 2 * Window + A!Late \in Int
      BY <1>1, <2>3, AdmissionConstants
    <2> QED
      BY <1>1, <1>4, <2>1, <2>2, <2>4 DEF A!Spread
  <1> QED
    BY <1>5, <1>6, <1>7, <1>8 DEF A!AdmissionInv

\* What is outside the last two or three windows is outside the span.
LEMMA SpanCounts ==
    ASSUME A!AdmissionInv PROVE A!SpanBounded
  <1> DEFINE n == Len(x7)
             m == (IF x1 THEN 3 ELSE 2) * Limit
             lo == n - m + 1
             l == A!Late
  <1>1. /\ x2 \in Int /\ x3 \in Int /\ x4 \in Nat /\ n \in Nat /\ x4 <= Limit
        /\ l \in Nat /\ l < Window /\ x7 \in Seq(0 .. Horizon) /\ x1 \in BOOLEAN
    BY AdmissionTypes, AdmissionConstants
  <1>2. /\ x3 <= x2
        /\ \A i \in 1 .. n - (x4 + Limit) : x7[i] < x3 - Window + l
        /\ \A i \in 1 .. n - (x4 + 2 * Limit) : x7[i] < x3 - 2 * Window + l
    BY DEF A!AdmissionInv, A!Spread, A!AllBut
  <1>3. \A i \in 1 .. n : x7[i] \in Int
    <2>1. \A i \in 1 .. n : x7[i] \in 0 .. Horizon
      BY <1>1, ElementOfSeq
    <2> QED
      BY <2>1, AdmissionConstants
  <1>4. (~x1 => l = 0) /\ m \in Nat /\ (x1 => m = 3 * Limit) /\ (~x1 => m = 2 * Limit)
    BY AdmissionConstants DEF A!Late
  <1> HIDE DEF n, l, m
  <1>5. ASSUME NEW i \in 1 .. n, i <= n - m PROVE ~(x2 - x7[i] < Window)
    <2>1. CASE x1
      <3>1. i \in 1 .. n - (x4 + 2 * Limit)
        BY <1>1, <1>4, <1>5, <2>1, AdmissionConstants
      <3>2. x7[i] < x3 - 2 * Window + l /\ x7[i] \in Int
        BY <1>2, <1>3, <3>1
      <3> QED
        BY <1>1, <1>2, <3>2, AdmissionConstants
    <2>2. CASE ~x1
      <3>1. i \in 1 .. n - (x4 + Limit)
        BY <1>1, <1>4, <1>5, <2>2, AdmissionConstants
      <3>2. x7[i] < x3 - Window + l /\ x7[i] \in Int
        BY <1>2, <1>3, <3>1
      <3> QED
        BY <1>1, <1>2, <1>4, <2>2, <3>2, AdmissionConstants
    <2> QED
      BY <2>1, <2>2
  <1>6. A!InSpan = {i \in 1 .. n : x2 - x7[i] < Window}
    BY DEF A!InSpan, n
  <1>7. CASE n >= m
    <2>1. A!InSpan \subseteq lo .. n
      <3> SUFFICES ASSUME NEW i \in A!InSpan PROVE i \in lo .. n
        OBVIOUS
      <3>1. i \in 1 .. n /\ x2 - x7[i] < Window
        BY <1>6
      <3>2. ~(i <= n - m)
        BY <1>5, <3>1
      <3> QED
        BY <1>1, <1>4, <3>1, <3>2
    <2>2. lo \in Int /\ n \in Int /\ n - lo + 1 = m /\ lo <= n + 1
      BY <1>1, <1>4, <1>7
    <2> HIDE DEF lo
    <2>3. IsFiniteSet(lo .. n) /\ Cardinality(lo .. n) = IF lo > n THEN 0 ELSE n - lo + 1
      BY <2>2, FS_Interval
    <2>4. Cardinality(lo .. n) <= m
      BY <1>4, <2>2, <2>3
    <2>5. IsFiniteSet(A!InSpan) /\ Cardinality(A!InSpan) <= Cardinality(lo .. n)
      BY <2>1, <2>3, FS_Subset
    <2>6. Cardinality(A!InSpan) \in Nat /\ Cardinality(lo .. n) \in Nat
      BY <2>3, <2>5, FS_CardinalityType
    <2>7. Cardinality(A!InSpan) <= m
      BY <1>4, <2>4, <2>5, <2>6
    <2> QED
      BY <2>7, CountsAreCounts DEF A!SpanBounded, m
  <1>8. CASE n < m
    <2>1. A!InSpan \subseteq 1 .. n
      BY <1>6
    <2>2. IsFiniteSet(1 .. n) /\ Cardinality(1 .. n) = IF 1 > n THEN 0 ELSE n - 1 + 1
      <3> DEFINE one == 1
      <3>1. one \in Int /\ n \in Int
        BY <1>1
      <3> HIDE DEF one
      <3>2. IsFiniteSet(one .. n) /\ Cardinality(one .. n) = IF one > n THEN 0 ELSE n - one + 1
        BY <3>1, FS_Interval
      <3> QED
        BY <3>2 DEF one
    <2>3. Cardinality(1 .. n) <= m
      BY <1>1, <1>4, <1>8, <2>2
    <2>4. IsFiniteSet(A!InSpan) /\ Cardinality(A!InSpan) <= Cardinality(1 .. n)
      BY <2>1, <2>2, FS_Subset
    <2>5. Cardinality(A!InSpan) \in Nat /\ Cardinality(1 .. n) \in Nat
      BY <2>2, <2>4, FS_CardinalityType
    <2>6. Cardinality(A!InSpan) <= m
      BY <1>4, <2>3, <2>4, <2>5
    <2> QED
      BY <2>6, CountsAreCounts DEF A!SpanBounded, m
  <1> QED
    BY <1>1, <1>4, <1>7, <1>8

(***************************************************************************)
(* Wherever a minute begins, at most twice the budget of requests pass in  *)
(* it, or three times where the clock is read before the lock, for any     *)
(* budget, window, number of places and of requests at a time, as long as  *)
(* a request gets to the lock within less than a window of reading the     *)
(* clock; and no more places are taken than there are (the handlers of     *)
(* internal/enrollment and internal/management).                           *)
(***************************************************************************)
THEOREM SpanHolds == Spec => []SpanBounded
  <1> DEFINE Inv == part = "admission" => A!AdmissionInv
  <1>1. Init => Inv
    BY AdmissionInit DEF Init
  <1>2. Inv /\ [Next]_vars => Inv'
    <2> SUFFICES ASSUME Inv, [Next]_vars PROVE Inv'
      OBVIOUS
    <2>1. CASE UNCHANGED vars
      BY <2>1 DEF vars, above7, A!AdmissionInv, A!TypeOK, A!PlacesTaken, A!InTime, A!Spread,
         A!AllBut, A!Late
    <2>2. CASE part = "admission" /\ A!Next /\ UNCHANGED part
      BY <2>2, TickAdmission, ArriveAdmission, CountAdmission, TakeSlotAdmission,
         FinishAdmission DEF A!Next
    <2>3. CASE part # "admission" /\ part' = part
      BY <2>3
    <2> QED
      BY <2>1, <2>2, <2>3 DEF Next, Rotate, Enroll, Administer, Admit, Beat, AuditFiles,
         Read, CheckFrame, Query
  <1>3. Inv => SpanBounded
    BY SpanCounts DEF SpanBounded, A!AdmissionInv
  <1> QED
    BY <1>1, <1>2, <1>3, PTL DEF Spec
-----------------------------------------------------------------------------
(* Heartbeats.  x1 is the loop that runs, x2 says whether network and      *)
(* server work and x3 for how long they have, x4 is the time to the next   *)
(* cycle, x5 to the next heartbeat, x6 the number of failures, x7 the age  *)
(* of the last heartbeat that was taken, and x8 counts refusals.           *)

LEMMA TelemetryConstants ==
    /\ Interval \in Nat /\ Interval >= 1 /\ PollEvery \in Nat /\ PollEvery >= 1
    /\ First \in Nat /\ First >= 1 /\ MaxDelay \in Nat /\ MaxDelay >= 1
    /\ MaxFailures \in Nat /\ MaxFailures >= 1
    /\ LeastGap \in Nat /\ LeastGap >= 1 /\ FreshFor \in Nat /\ FreshFor >= 1
    /\ First <= MaxDelay /\ Interval <= MaxDelay /\ PollEvery <= MaxDelay
    /\ T!High(Interval) + T!High(PollEvery) <= FreshFor
    /\ LeastGap <= 2 * T!Low(First) /\ T!High(First) + LeastGap <= FreshFor
    /\ 4 * LeastGap <= FreshFor
  <1>1. {Interval, PollEvery, First, MaxDelay, MaxFailures, LeastGap, FreshFor} \subseteq Nat \ {0}
    BY PartsAssumption DEF T!TelemetryAssumption
  <1>2. /\ Interval \in Nat \ {0} /\ PollEvery \in Nat \ {0} /\ First \in Nat \ {0}
        /\ MaxDelay \in Nat \ {0} /\ MaxFailures \in Nat \ {0} /\ LeastGap \in Nat \ {0}
        /\ FreshFor \in Nat \ {0}
    BY <1>1
  <1>3. /\ First <= MaxDelay /\ Interval <= MaxDelay /\ PollEvery <= MaxDelay
        /\ T!High(Interval) + T!High(PollEvery) <= FreshFor
        /\ LeastGap <= 2 * T!Low(First) /\ T!High(First) + LeastGap <= FreshFor
        /\ 4 * LeastGap <= FreshFor
    BY PartsAssumption DEF T!TelemetryAssumption
  <1> QED
    BY <1>2, <1>3

\* Doubling up to a limit.
LEMMA Times ==
    ASSUME NEW f \in Nat, NEW k \in Nat \ {0}
    PROVE  f * k \in Nat /\ f <= f * k /\ f * (2 * k) = 2 * (f * k)
  OBVIOUS

LEMMA Doubles == T!Doubling
  <1>1. 2 ^ 0 = 1 /\ \A n \in 0 .. MaxFailures : 2 ^ n \in Nat \ {0} /\ 2 ^ (n + 1) = 2 * 2 ^ n
    BY PartsAssumption DEF T!TelemetryAssumption, T!Powers
  <1>2. T!retryDelay(1) = First
    <2>1. 2 ^ (1 - 1) = 1
      BY <1>1
    <2>2. First * 1 = First
      BY TelemetryConstants
    <2> QED
      BY <2>1, <2>2, TelemetryConstants DEF T!retryDelay
  <1>3. ASSUME NEW n \in 1 .. MaxFailures
        PROVE  T!retryDelay(n) \in First .. MaxDelay
    <2> DEFINE k == 2 ^ (n - 1)
    <2>1. n - 1 \in 0 .. MaxFailures
      BY TelemetryConstants
    <2>2. k \in Nat \ {0}
      BY <1>1, <2>1
    <2>3. T!retryDelay(n) = IF First * k > MaxDelay THEN MaxDelay ELSE First * k
      BY DEF T!retryDelay
    <2> HIDE DEF k
    <2>4. First * k \in Nat /\ First <= First * k
      BY <2>2, Times, TelemetryConstants
    <2> QED
      BY <2>3, <2>4, TelemetryConstants
  <1>4. ASSUME NEW n \in 1 .. MaxFailures - 1
        PROVE  T!retryDelay(n + 1) <= 2 * T!retryDelay(n)
    <2> DEFINE k == 2 ^ (n - 1)
    <2>1. n - 1 \in 0 .. MaxFailures /\ (n + 1) - 1 = (n - 1) + 1
      BY TelemetryConstants
    <2>2. k \in Nat \ {0} /\ 2 ^ ((n - 1) + 1) = 2 * k
      BY <1>1, <2>1
    <2>3. /\ T!retryDelay(n) = IF First * k > MaxDelay THEN MaxDelay ELSE First * k
          /\ T!retryDelay(n + 1)
               = IF First * (2 * k) > MaxDelay THEN MaxDelay ELSE First * (2 * k)
      BY <2>1, <2>2 DEF T!retryDelay
    <2> HIDE DEF k
    <2>4. First * k \in Nat /\ First * (2 * k) = 2 * (First * k)
      BY <2>2, Times, TelemetryConstants
    <2> QED
      BY <2>3, <2>4, TelemetryConstants
  <1> QED
    BY <1>2, <1>3, <1>4 DEF T!Doubling

\* Jitter.
LEMMA DelayBounds ==
    ASSUME NEW n \in Nat
    PROVE  /\ T!Low(n) \in Nat /\ T!Low(n) <= n /\ 9 * n <= 10 * T!Low(n)
           /\ T!High(n) \in Nat /\ T!High(n) <= MaxDelay
           /\ 10 * T!High(n) <= 11 * n + 10
  BY TelemetryConstants DEF T!Low, T!High

LEMMA LowGrows ==
    ASSUME NEW n \in Nat, NEW m \in Nat, n <= m PROVE T!Low(n) <= T!Low(m)
  BY DEF T!Low

LEMMA HighGrows ==
    ASSUME NEW n \in Nat, NEW m \in Nat, n <= m PROVE T!High(n) <= T!High(m)
  BY TelemetryConstants DEF T!High, T!Low

LEMMA TelemetryTypes ==
    ASSUME T!TypeOK
    PROVE  /\ x1 \in {"telemetry", "tasks"} /\ x2 \in BOOLEAN
           /\ x3 \in Nat /\ x3 <= MaxDelay /\ x4 \in Nat /\ x4 <= MaxDelay
           /\ x5 \in Nat /\ x5 <= MaxDelay /\ x6 \in Nat /\ x6 <= MaxFailures
           /\ x7 \in Nat /\ x7 <= FreshFor + 1 /\ x8 \in Nat
  BY TelemetryConstants DEF T!TypeOK

LEMMA TypesPrimed ==
    ASSUME x1' \in {"telemetry", "tasks"}, x2' \in BOOLEAN,
           x3' \in Nat, x3' <= MaxDelay, x4' \in Nat, x4' <= MaxDelay,
           x5' \in Nat, x5' <= MaxDelay, x6' \in Nat, x6' <= MaxFailures,
           x7' \in Nat, x7' <= FreshFor + 1, x8' \in Nat
    PROVE  T!TypeOK'
  <1>1. /\ x3' \in 0 .. MaxDelay /\ x4' \in 0 .. MaxDelay /\ x5' \in 0 .. MaxDelay
        /\ x6' \in 0 .. MaxFailures /\ x7' \in 0 .. FreshFor + 1
    BY TelemetryConstants
  <1> QED
    BY <1>1 DEF T!TypeOK

\* The end of a cycle.
LEMMA SleepBounds ==
    ASSUME NEW n \in Nat, T!Sleep(n)
    PROVE  x4' \in Nat /\ x4' <= MaxDelay /\ T!Low(n) <= x4' /\ x4' <= T!High(n)
  BY DelayBounds, TelemetryConstants DEF T!Sleep

\* After the failure of a cycle, how long to the next one.
Delay == T!retryDelay(x6')

LEMMA FailedBounds ==
    ASSUME T!TypeOK, T!Doubling, T!Failed
    PROVE  /\ x6' \in Nat /\ x6' >= 1 /\ x6' <= MaxFailures
           /\ Delay \in Nat /\ First <= Delay
           /\ x4' \in Nat /\ x4' <= MaxDelay
           /\ T!Low(Delay) <= x4' /\ x4' <= T!High(Delay) /\ T!Low(First) <= x4'
  <1>1. x6' \in Nat /\ x6' >= 1 /\ x6' <= MaxFailures
    BY TelemetryTypes, TelemetryConstants DEF T!Failed, T!Least
  <1>2. Delay \in First .. MaxDelay
    BY <1>1, TelemetryConstants DEF T!Doubling, Delay
  <1>3. Delay \in Nat /\ First <= Delay /\ First \in Nat
    BY <1>2, TelemetryConstants
  <1>4. T!Sleep(Delay)
    BY DEF T!Failed, Delay
  <1> HIDE DEF Delay
  <1>5. x4' \in Nat /\ x4' <= MaxDelay /\ T!Low(Delay) <= x4' /\ x4' <= T!High(Delay)
    BY <1>3, <1>4, SleepBounds
  <1>6. T!Low(First) <= T!Low(Delay) /\ T!Low(First) \in Nat /\ T!Low(Delay) \in Nat
    BY <1>3, LowGrows, DelayBounds
  <1> QED
    BY <1>1, <1>3, <1>5, <1>6

LEMMA TickTelemetry ==
    ASSUME T!TelemetryInv, T!Tick PROVE T!TelemetryInv'
  <1>1. /\ x4 > 0 /\ x4' = x4 - 1 /\ UNCHANGED <<x1, x2, x6, x8>>
        /\ x5' = (IF x5 > 0 THEN x5 - 1 ELSE 0)
        /\ x7' = (IF x7 + 1 < FreshFor + 1 THEN x7 + 1 ELSE FreshFor + 1)
        /\ x3' = (IF x2 THEN IF x3 + 1 < MaxDelay THEN x3 + 1 ELSE MaxDelay ELSE 0)
    BY DEF T!Tick, T!Least
  <1>2. T!TypeOK
    BY DEF T!TelemetryInv
  <1>3. x4' \in Nat /\ x4' = x4 - 1 /\ x7' \in Nat /\ x7' <= x7 + 1 /\ x5' \in Nat
    BY <1>1, <1>2, TelemetryTypes, TelemetryConstants
  <1>4. T!TypeOK'
    BY <1>1, <1>2, <1>3, TelemetryTypes, TelemetryConstants, TypesPrimed
  <1>5. x7' < LeastGap => x7 < LeastGap /\ x7' + x4' = x7 + x4
    BY <1>1, <1>2, TelemetryTypes, TelemetryConstants
  <1>6. T!RefusedTwice' /\ T!Spaced' /\ T!Backed'
    <2>1. T!RefusedTwice'
      BY <1>1 DEF T!TelemetryInv, T!RefusedTwice
    <2>2. T!Spaced'
      BY <1>1, <1>5 DEF T!TelemetryInv, T!Spaced
    <2>3. T!Backed'
      <3>1. T!retryDelay(x6)' = T!retryDelay(x6)
        BY <1>1 DEF T!retryDelay
      <3>2. T!Low(T!retryDelay(x6))' = T!Low(T!retryDelay(x6))
        BY <1>1, <3>1 DEF T!Low
      <3> QED
        BY <1>1, <1>5, <3>2 DEF T!TelemetryInv, T!Backed
    <2> QED
      BY <2>1, <2>2, <2>3
  <1>7. T!PutOff'
    <2>1. x5 > 0 => x7 + x5 <= T!High(Interval)
      BY DEF T!TelemetryInv, T!PutOff
    <2>2. x5' > 0 => x5 > 0 /\ x7' + x5' <= x7 + x5
      BY <1>1, <1>2, TelemetryTypes, TelemetryConstants
    <2>3. T!High(Interval) \in Nat
      BY TelemetryConstants, DelayBounds
    <2>4. x5' > 0 => x7' + x5' <= T!High(Interval)
      BY <1>2, <1>3, <2>1, <2>2, <2>3, TelemetryTypes
    <2> QED
      BY <2>4 DEF T!PutOff
  <1>8. T!Reaching'
    <2>1. IF x2 THEN x3 + x4 <= MaxDelay \/ x7 + x4 <= FreshFor ELSE x3 = 0
      BY DEF T!TelemetryInv, T!Reaching
    <2>2. IF x2' THEN x3' + x4' <= MaxDelay \/ x7' + x4' <= FreshFor ELSE x3' = 0
      BY <1>1, <1>2, <2>1, TelemetryTypes, TelemetryConstants
    <2> QED
      BY <2>2 DEF T!Reaching
  <1> QED
    BY <1>4, <1>6, <1>7, <1>8 DEF T!TelemetryInv

\* The invariant of what a step leaves, from what it is made of.
LEMMA TelemetryFrom ==
    ASSUME T!TypeOK', T!RefusedTwice', T!Spaced', T!Backed', T!PutOff', T!Reaching'
    PROVE  T!TelemetryInv'
  BY DEF T!TelemetryInv

LEMMA NetworkTelemetry ==
    ASSUME T!TelemetryInv, T!NetworkChanges \/ T!Restart PROVE T!TelemetryInv'
  <1>1. T!TypeOK
    BY DEF T!TelemetryInv
  <1>2. CASE T!NetworkChanges
    <2>1. x2' = ~x2 /\ x3' = 0 /\ UNCHANGED <<x1, x4, x5, x6, x7, x8>>
      BY <1>2 DEF T!NetworkChanges
    <2>2. T!TypeOK'
      BY <1>1, <2>1, TelemetryTypes, TelemetryConstants, TypesPrimed
    <2>3. T!RefusedTwice' /\ T!Spaced' /\ T!Backed' /\ T!PutOff'
      BY <2>1 DEF T!TelemetryInv, T!RefusedTwice, T!Spaced, T!Backed, T!PutOff, T!retryDelay,
         T!Low
    <2>4. x3' + x4' <= MaxDelay
      BY <1>1, <2>1, TelemetryTypes
    <2> QED
      BY <2>1, <2>2, <2>3, <2>4, TelemetryFrom DEF T!Reaching
  <1>3. CASE T!Restart
    <2>1. /\ x4' = 0 /\ x5' = 0 /\ x6' = 0 /\ x8' = 0 /\ x3' = 0
          /\ UNCHANGED <<x1, x2, x7>>
      BY <1>3 DEF T!Restart
    <2>2. T!TypeOK'
      BY <1>1, <2>1, TelemetryTypes, TelemetryConstants, TypesPrimed
    <2>3. T!RefusedTwice' /\ T!Spaced' /\ T!Backed' /\ T!PutOff'
      BY <2>1 DEF T!RefusedTwice, T!Spaced, T!Backed, T!PutOff
    <2>4. x3' + x4' <= MaxDelay
      BY <2>1, TelemetryConstants
    <2> QED
      BY <2>1, <2>2, <2>3, <2>4, TelemetryFrom DEF T!Reaching
  <1> QED
    BY <1>2, <1>3

\* When the next heartbeat is put off to.
LEMMA ScheduledBounds ==
    ASSUME T!Scheduled
    PROVE  x5' \in Nat /\ x5' <= MaxDelay /\ x5' <= T!High(Interval)
  <1>1. /\ T!Low(Interval) \in Nat /\ T!High(Interval) \in Nat /\ T!High(Interval) <= MaxDelay
        /\ MaxDelay \in Nat
    BY DelayBounds, TelemetryConstants
  <1>2. x5' \in T!Low(Interval) .. T!High(Interval) \/ x5' = 0
    BY DEF T!Scheduled
  <1> HIDE DEF T!Low, T!High
  <1> QED
    BY <1>1, <1>2

LEMMA SucceededBounds ==
    ASSUME T!Succeeded
    PROVE  /\ x6' = 0 /\ x4' \in Nat /\ x4' <= MaxDelay
           /\ x4' <= T!High(IF x1 = "telemetry" THEN Interval ELSE PollEvery)
           /\ T!High(Interval) \in Nat /\ T!High(PollEvery) \in Nat /\ x4' <= FreshFor
  <1> DEFINE n == IF x1 = "telemetry" THEN Interval ELSE PollEvery
  <1>1. x6' = 0 /\ T!Sleep(n)
    BY DEF T!Succeeded
  <1>2. n \in Nat /\ (n = Interval \/ n = PollEvery)
    BY TelemetryConstants
  <1>3. T!High(Interval) \in Nat /\ T!High(PollEvery) \in Nat
    BY TelemetryConstants, DelayBounds
  <1>4. T!High(n) <= FreshFor
    BY <1>2, <1>3, TelemetryConstants
  <1> HIDE DEF n
  <1>5. x4' \in Nat /\ x4' <= MaxDelay /\ x4' <= T!High(n) /\ T!High(n) \in Nat
    BY <1>1, <1>2, SleepBounds, DelayBounds
  <1>6. x4' <= FreshFor
    BY <1>4, <1>5, TelemetryConstants
  <1> QED
    BY <1>1, <1>3, <1>5, <1>6 DEF n

LEMMA AcceptedTelemetry ==
    ASSUME T!TelemetryInv, T!Accepted PROVE T!TelemetryInv'
  <1>1. T!TypeOK
    BY DEF T!TelemetryInv
  <1>2. x7' = 0 /\ x8' = 0 /\ T!Scheduled /\ T!Succeeded /\ UNCHANGED <<x1, x2, x3>> /\ x2
    BY DEF T!Accepted
  <1>3. x5' \in Nat /\ x5' <= MaxDelay /\ x5' <= T!High(Interval)
    BY <1>2, ScheduledBounds
  <1>4. x6' = 0 /\ x4' \in Nat /\ x4' <= MaxDelay /\ x4' <= FreshFor
    BY <1>2, SucceededBounds
  <1>5. T!TypeOK'
    BY <1>1, <1>2, <1>3, <1>4, TelemetryTypes, TelemetryConstants, TypesPrimed
  <1>6. T!RefusedTwice' /\ T!Spaced' /\ T!Backed'
    BY <1>2, <1>4 DEF T!RefusedTwice, T!Spaced, T!Backed
  <1>7. x7' + x5' <= T!High(Interval) /\ x7' + x4' <= FreshFor
    BY <1>2, <1>3, <1>4
  <1> QED
    BY <1>2, <1>5, <1>6, <1>7, TelemetryFrom DEF T!PutOff, T!Reaching

LEMMA TakenTelemetry ==
    ASSUME T!TelemetryInv, T!Doubling, T!Taken PROVE T!TelemetryInv'
  <1>1. T!TypeOK
    BY DEF T!TelemetryInv
  <1>2. /\ x7' = 0 /\ x8' = 0 /\ x2' = FALSE /\ x3' = 0 /\ x1' = x1 /\ T!Failed
        /\ x5' = x5 \/ T!Scheduled
    BY DEF T!Taken
  <1>3. T!High(Interval) \in Nat
    BY DelayBounds, TelemetryConstants
  <1>4. x5' \in Nat /\ x5' <= MaxDelay /\ (x5' > 0 => x7' + x5' <= T!High(Interval))
    <2>1. CASE T!Scheduled
      BY <1>2, <2>1, ScheduledBounds
    <2>2. CASE x5' = x5
      <3>1. x5 > 0 => x7 + x5 <= T!High(Interval)
        BY DEF T!TelemetryInv, T!PutOff
      <3> QED
        BY <1>1, <1>2, <1>3, <2>2, <3>1, TelemetryTypes
    <2> QED
      BY <1>2, <2>1, <2>2
  <1>5. x5' \in Nat /\ x5' <= MaxDelay /\ x7' \in Nat /\ x7' <= FreshFor + 1 /\ x8' \in Nat
    BY <1>2, <1>4, TelemetryConstants
  <1>6. x6' \in Nat /\ x6' <= MaxFailures /\ x4' \in Nat /\ x4' <= MaxDelay
        /\ T!Low(Delay) <= x4'
    BY <1>1, <1>2, FailedBounds
  <1>7. T!TypeOK'
    <2>1. x3' \in Nat /\ x3' <= MaxDelay /\ x1' \in {"telemetry", "tasks"}
      BY <1>1, <1>2, TelemetryTypes, TelemetryConstants
    <2> QED
      BY <1>2, <1>5, <1>6, <2>1, TypesPrimed
  <1>8. T!RefusedTwice' /\ T!Spaced'
    BY <1>2 DEF T!RefusedTwice, T!Spaced
  <1>9. T!Backed'
    <2>1. T!Low(Delay) <= x7' + x4'
      BY <1>2, <1>6
    <2> QED
      BY <2>1 DEF T!Backed, Delay, T!Low, T!retryDelay
  <1>10. T!PutOff'
    BY <1>4 DEF T!PutOff
  <1> QED
    BY <1>2, <1>7, <1>8, <1>9, <1>10, TelemetryFrom DEF T!Reaching

\* A refusal comes before the delays are long.
LEMMA RefusedDelay ==
    ASSUME T!TelemetryInv, T!Doubling, T!RateLimited
    PROVE  x7 + T!High(Delay) <= FreshFor
  <1>1. T!TypeOK /\ T!Failed /\ x4 = 0 /\ x7 < LeastGap
    BY DEF T!TelemetryInv, T!RateLimited, T!Due
  <1>2. x7 \in Nat /\ x6 \in Nat /\ x6 <= MaxFailures
    BY <1>1, TelemetryTypes
  <1>3. Delay \in Nat /\ T!High(Delay) \in Nat
    BY <1>1, FailedBounds, DelayBounds
  <1>4. CASE x6 = 0
    <2>1. x6' = 1
      BY <1>1, <1>4, TelemetryConstants DEF T!Failed, T!Least
    <2>2. Delay = First
      BY <2>1 DEF Delay, T!Doubling
    <2>3. T!High(First) \in Nat
      BY <1>3, <2>2
    <2> QED
      BY <1>1, <1>2, <2>2, <2>3, TelemetryConstants
  <1>5. CASE x6 > 0
    <2> DEFINE e == T!retryDelay(x6)
    <2>1. e \in Nat
      BY <1>2, <1>5, TelemetryConstants DEF T!Doubling
    <2>2. T!Low(e) <= x7
      <3>1. T!Low(e) <= x7 + x4
        BY <1>1, <1>5 DEF T!TelemetryInv, T!Backed
      <3> QED
        BY <1>1, <1>2, <3>1, <2>1, DelayBounds
    <2>3. Delay <= 2 * e
      <3>1. CASE x6 < MaxFailures
        <4>1. x6' = x6 + 1 /\ x6 \in 1 .. MaxFailures - 1
          BY <1>1, <1>2, <1>5, <3>1, TelemetryConstants DEF T!Failed, T!Least
        <4> QED
          BY <4>1 DEF T!Doubling, Delay
      <3>2. CASE ~(x6 < MaxFailures)
        <4>1. x6' = x6
          BY <1>1, <1>2, <1>5, <3>2, TelemetryConstants DEF T!Failed, T!Least
        <4>2. Delay = e
          BY <4>1 DEF Delay
        <4> HIDE DEF e
        <4> QED
          BY <2>1, <4>2
      <3> QED
        BY <3>1, <3>2
    <2> HIDE DEF e, Delay
    <2>4. 9 * e <= 10 * T!Low(e) /\ T!Low(e) \in Nat
      BY <2>1, DelayBounds
    <2>5. 10 * T!High(Delay) <= 11 * Delay + 10
      BY <1>3, DelayBounds
    <2> DEFINE lo == T!Low(e)
               hi == T!High(Delay)
    <2>6. lo \in Nat /\ hi \in Nat /\ lo <= x7 /\ 9 * e <= 10 * lo /\ 10 * hi <= 11 * Delay + 10
      BY <1>3, <2>2, <2>4, <2>5
    <2> HIDE DEF lo, hi
    <2>7. x7 + hi <= FreshFor
      BY <1>1, <1>2, <1>3, <2>1, <2>3, <2>6, TelemetryConstants
    <2> QED
      BY <2>7 DEF hi
  <1> QED
    BY <1>2, <1>4, <1>5

\* What the waits before two, or more, cycles add up to.
LEMMA LaterStill ==
    ASSUME NEW l \in Nat, NEW a \in Nat, NEW w \in Nat, NEW k \in Nat,
           k >= 1 => l <= a, k >= 2 => 2 * l <= a
    PROVE  (k >= 1 => l <= a + w) /\ (k >= 2 => 2 * l <= a + w)
  OBVIOUS

LEMMA OneMoreRefusal ==
    ASSUME NEW l \in Nat, NEW a \in Nat, NEW w \in Nat, NEW k \in Nat, NEW gap \in Nat,
           k >= 1 => l <= a, k >= 2 => 2 * l <= a, gap <= 2 * l, a < gap, l <= w
    PROVE  k + 1 <= 2 /\ (k + 1 >= 2 => 2 * l <= a + w) /\ l <= a + w
  OBVIOUS

LEMMA WithinSum ==
    ASSUME NEW a \in Nat, NEW w \in Nat, NEW h \in Nat, NEW f \in Nat, w <= h, a + h <= f
    PROVE  a + w <= f
  OBVIOUS

LEMMA RateLimitedTelemetry ==
    ASSUME T!TelemetryInv, T!Doubling, T!RateLimited PROVE T!TelemetryInv'
  <1>1. T!TypeOK /\ T!Failed /\ x4 = 0 /\ x7 < LeastGap
    BY DEF T!TelemetryInv, T!RateLimited, T!Due
  <1>2. x8' = x8 + 1 /\ UNCHANGED <<x1, x2, x3, x5, x7>> /\ x2
    BY DEF T!RateLimited
  <1>3. /\ x6' \in Nat /\ x6' <= MaxFailures /\ x4' \in Nat /\ x4' <= MaxDelay
        /\ Delay \in Nat /\ T!Low(Delay) <= x4' /\ x4' <= T!High(Delay)
        /\ T!Low(First) <= x4'
    BY <1>1, FailedBounds
  <1>4. /\ x8 \in Nat /\ x8 <= 2 /\ x7 \in Nat
        /\ x8 >= 1 => T!Low(First) <= x7
        /\ x8 >= 2 => 2 * T!Low(First) <= x7
    <2>1. x8 <= 2 /\ x8 \in Nat /\ x7 \in Nat
      BY <1>1, TelemetryTypes DEF T!TelemetryInv, T!RefusedTwice
    <2>2. /\ x8 >= 1 => T!Low(First) <= x7 + x4
          /\ x8 >= 2 => 2 * T!Low(First) <= x7 + x4
      BY <1>1 DEF T!TelemetryInv, T!Spaced
    <2>3. x7 + x4 = x7
      BY <1>1, <2>1
    <2> QED
      BY <2>1, <2>2, <2>3
  <1>5. T!Low(First) \in Nat /\ LeastGap <= 2 * T!Low(First) /\ LeastGap \in Nat
    BY TelemetryConstants, DelayBounds
  <1>6. x8' <= 2 /\ (x8' >= 2 => 2 * T!Low(First) <= x7' + x4')
        /\ T!Low(First) <= x7' + x4'
    <2> DEFINE l == T!Low(First)
    <2>1. l \in Nat /\ LeastGap <= 2 * l /\ LeastGap \in Nat /\ l <= x4' /\ x4' \in Nat
      BY <1>3, <1>5
    <2>2. /\ (x8 >= 1 => l <= x7) /\ (x8 >= 2 => 2 * l <= x7) /\ x8 \in Nat /\ x7 \in Nat
          /\ x7 < LeastGap /\ x8' = x8 + 1 /\ x7' = x7
      BY <1>1, <1>2, <1>4
    <2> HIDE DEF l
    <2>3. x8 + 1 <= 2 /\ (x8 + 1 >= 2 => 2 * l <= x7 + x4') /\ l <= x7 + x4'
      BY <2>1, <2>2, OneMoreRefusal
    <2> QED
      BY <2>2, <2>3 DEF l
  <1>7. T!TypeOK'
    BY <1>1, <1>2, <1>3, <1>4, TelemetryTypes, TelemetryConstants, TypesPrimed
  <1>8. T!RefusedTwice' /\ T!Spaced'
    BY <1>6 DEF T!RefusedTwice, T!Spaced, T!Low
  <1>9. T!Backed'
    <2>1. T!Low(Delay) <= x7' + x4'
      <3> HIDE DEF Delay
      <3>1. T!Low(Delay) \in Nat
        BY <1>3, DelayBounds
      <3> QED
        BY <1>2, <1>3, <1>4, <3>1
    <2> QED
      BY <2>1 DEF T!Backed, Delay, T!Low, T!retryDelay
  <1>10. T!PutOff'
    BY <1>2 DEF T!TelemetryInv, T!PutOff, T!High, T!Low
  <1>11. x7' + x4' <= FreshFor
    <2> DEFINE hi == T!High(Delay)
    <2>1. hi \in Nat /\ x4' <= hi /\ x7 + hi <= FreshFor
      BY <1>3, DelayBounds, RefusedDelay
    <2>2. x7' = x7 /\ x7 \in Nat /\ x4' \in Nat /\ FreshFor \in Nat
      BY <1>2, <1>3, <1>4, TelemetryConstants
    <2> HIDE DEF hi
    <2>3. x7 + x4' <= FreshFor
      BY <2>1, <2>2, WithinSum
    <2> QED
      BY <2>2, <2>3
  <1> QED
    BY <1>2, <1>7, <1>8, <1>9, <1>10, <1>11, TelemetryFrom DEF T!Reaching

LEMMA UnreachableTelemetry ==
    ASSUME T!TelemetryInv, T!Doubling, T!Unreachable PROVE T!TelemetryInv'
  <1>1. T!TypeOK /\ T!Failed /\ x4 = 0 /\ ~x2 /\ UNCHANGED <<x1, x2, x3, x5, x7, x8>>
    BY DEF T!TelemetryInv, T!Unreachable
  <1>2. /\ x6' \in Nat /\ x6' <= MaxFailures /\ x4' \in Nat /\ x4' <= MaxDelay
        /\ Delay \in Nat /\ T!Low(Delay) <= x4' /\ T!Low(First) <= x4'
    BY <1>1, FailedBounds
  <1>3. T!TypeOK'
    BY <1>1, <1>2, TelemetryTypes, TelemetryConstants, TypesPrimed
  <1>4. T!RefusedTwice'
    BY <1>1 DEF T!TelemetryInv, T!RefusedTwice
  <1>5. T!Spaced'
    <2> DEFINE l == T!Low(First)
    <2>1. l \in Nat /\ x7 \in Nat
      BY <1>1, TelemetryTypes, TelemetryConstants, DelayBounds
    <2>2. x7 < LeastGap => (x8 >= 1 => l <= x7 + x4) /\ (x8 >= 2 => 2 * l <= x7 + x4)
      BY DEF T!TelemetryInv, T!Spaced
    <2>3. x7' = x7 /\ x8' = x8 /\ x4 = 0 /\ x4' \in Nat /\ x8 \in Nat
      BY <1>1, <1>2, TelemetryTypes
    <2>4. x7 + x4 = x7
      BY <2>1, <2>3
    <2> HIDE DEF l
    <2>5. x7 < LeastGap => (x8 >= 1 => l <= x7) /\ (x8 >= 2 => 2 * l <= x7)
      BY <2>2, <2>4
    <2>6. x7 < LeastGap => /\ x8 >= 1 => l <= x7 + x4'
                           /\ x8 >= 2 => 2 * l <= x7 + x4'
      BY <2>1, <2>3, <2>5, LaterStill
    <2> QED
      BY <2>3, <2>6 DEF T!Spaced, l, T!Low
  <1>6. T!Backed'
    <2>1. T!Low(Delay) <= x7' + x4'
      <3> HIDE DEF Delay
      <3>1. T!Low(Delay) \in Nat /\ x7 \in Nat
        BY <1>1, <1>2, DelayBounds, TelemetryTypes
      <3> QED
        BY <1>1, <1>2, <3>1
    <2> QED
      BY <2>1 DEF T!Backed, Delay, T!Low, T!retryDelay
  <1>7. T!PutOff'
    BY <1>1 DEF T!TelemetryInv, T!PutOff, T!High, T!Low
  <1>8. T!Reaching'
    BY <1>1 DEF T!TelemetryInv, T!Reaching
  <1> QED
    BY <1>3, <1>4, <1>5, <1>6, <1>7, <1>8, TelemetryFrom

LEMMA PollOnlyTelemetry ==
    ASSUME T!TelemetryInv, T!PollOnly PROVE T!TelemetryInv'
  <1>1. /\ T!TypeOK /\ T!Succeeded /\ x4 = 0 /\ x1 = "tasks" /\ x5 > 0
        /\ UNCHANGED <<x1, x2, x3, x5, x7, x8>>
    BY DEF T!TelemetryInv, T!PollOnly
  <1>2. /\ x6' = 0 /\ x4' \in Nat /\ x4' <= MaxDelay /\ x4' <= T!High(PollEvery)
        /\ T!High(PollEvery) \in Nat /\ T!High(Interval) \in Nat
    BY <1>1, SucceededBounds
  <1>3. T!TypeOK'
    BY <1>1, <1>2, TelemetryTypes, TelemetryConstants, TypesPrimed
  <1>4. T!RefusedTwice' /\ T!Backed'
    BY <1>1, <1>2 DEF T!TelemetryInv, T!RefusedTwice, T!Backed
  <1>5. T!Spaced'
    <2> DEFINE l == T!Low(First)
    <2>1. l \in Nat /\ x7 \in Nat
      BY <1>1, TelemetryTypes, TelemetryConstants, DelayBounds
    <2>2. x7 < LeastGap => (x8 >= 1 => l <= x7 + x4) /\ (x8 >= 2 => 2 * l <= x7 + x4)
      BY DEF T!TelemetryInv, T!Spaced
    <2>3. x7' = x7 /\ x8' = x8 /\ x4 = 0 /\ x4' \in Nat /\ x8 \in Nat
      BY <1>1, <1>2, TelemetryTypes
    <2>4. x7 + x4 = x7
      BY <2>1, <2>3
    <2> HIDE DEF l
    <2>5. x7 < LeastGap => (x8 >= 1 => l <= x7) /\ (x8 >= 2 => 2 * l <= x7)
      BY <2>2, <2>4
    <2>6. x7 < LeastGap => /\ x8 >= 1 => l <= x7 + x4'
                           /\ x8 >= 2 => 2 * l <= x7 + x4'
      BY <2>1, <2>3, <2>5, LaterStill
    <2> QED
      BY <2>3, <2>6 DEF T!Spaced, l, T!Low
  <1>6. T!PutOff' /\ x7 + x5 <= T!High(Interval)
    BY <1>1 DEF T!TelemetryInv, T!PutOff, T!High, T!Low
  <1>7. x7' + x4' <= FreshFor
    <2> DEFINE hi == T!High(Interval)
               hp == T!High(PollEvery)
    <2>1. /\ hi \in Nat /\ hp \in Nat /\ hi + hp <= FreshFor /\ x7 + x5 <= hi
          /\ x4' <= hp
      BY <1>2, <1>6, TelemetryConstants
    <2> HIDE DEF hi, hp
    <2> QED
      BY <1>1, <1>2, <2>1, TelemetryTypes, TelemetryConstants
  <1>8. T!Reaching'
    BY <1>1, <1>7 DEF T!TelemetryInv, T!Reaching
  <1> QED
    BY <1>3, <1>4, <1>5, <1>6, <1>8, TelemetryFrom

LEMMA TelemetryInit == T!Init => T!TelemetryInv
  <1> SUFFICES ASSUME T!Init PROVE T!TelemetryInv
    OBVIOUS
  <1>1. /\ x1 \in {"telemetry", "tasks"} /\ x2 \in BOOLEAN /\ x3 = 0 /\ x4 = 0 /\ x5 = 0
        /\ x6 = 0 /\ x7 = FreshFor + 1 /\ x8 = 0
    BY DEF T!Init
  <1>2. T!TypeOK
    BY <1>1, TelemetryConstants DEF T!TypeOK
  <1>3. T!RefusedTwice /\ T!Spaced /\ T!Backed /\ T!PutOff
    BY <1>1 DEF T!RefusedTwice, T!Spaced, T!Backed, T!PutOff
  <1>4. T!Reaching
    BY <1>1, TelemetryConstants DEF T!Reaching
  <1> QED
    BY <1>2, <1>3, <1>4 DEF T!TelemetryInv

(***************************************************************************)
(* The server's gap refuses a probe at most twice in a row, and a probe    *)
(* whose network and server have worked for the longest delay is fresh,    *)
(* for any interval, delays, gap and age that stand to each other as the   *)
(* assumption of module Telemetry says (Run and RunTasks of                *)
(* internal/agent, SaveHeartbeat and enqueueTx of internal/state).         *)
(***************************************************************************)
THEOREM HeartbeatsHold == Spec => []HeartbeatsResume
  <1> DEFINE Inv == part = "telemetry" => T!TelemetryInv
  <1>1. Init => Inv
    BY TelemetryInit DEF Init
  <1>2. Inv /\ [Next]_vars => Inv'
    <2> SUFFICES ASSUME Inv, [Next]_vars PROVE Inv'
      OBVIOUS
    <2>1. CASE UNCHANGED vars
      <3>1. UNCHANGED <<part, x1, x2, x3, x4, x5, x6, x7, x8>>
        BY <2>1 DEF vars, above7
      <3> QED
        BY <3>1 DEF T!TelemetryInv, T!TypeOK, T!RefusedTwice, T!Spaced, T!Backed, T!PutOff,
           T!Reaching, T!High, T!Low, T!retryDelay
    <2>2. CASE part = "telemetry" /\ T!Next /\ UNCHANGED part
      BY <2>2, Doubles, TickTelemetry, NetworkTelemetry, AcceptedTelemetry, TakenTelemetry,
         RateLimitedTelemetry, UnreachableTelemetry, PollOnlyTelemetry DEF T!Next
    <2>3. CASE part # "telemetry" /\ part' = part
      BY <2>3
    <2> QED
      BY <2>1, <2>2, <2>3 DEF Next, Rotate, Enroll, Administer, Admit, Beat, AuditFiles,
         Read, CheckFrame, Query
  <1>3. Inv => HeartbeatsResume
    <2> SUFFICES ASSUME part = "telemetry", T!TelemetryInv PROVE T!FreshAgain
      BY DEF HeartbeatsResume, T!TelemetryInv
    <2>1. IF x2 THEN x3 + x4 <= MaxDelay \/ x7 + x4 <= FreshFor ELSE x3 = 0
      BY DEF T!TelemetryInv, T!Reaching
    <2>2. T!TypeOK
      BY DEF T!TelemetryInv
    <2>3. x3 = MaxDelay /\ x4 > 0 => x7 <= FreshFor
      BY <2>1, <2>2, TelemetryTypes, TelemetryConstants
    <2> QED
      BY <2>3 DEF T!FreshAgain
  <1> QED
    BY <1>1, <1>2, <1>3, PTL DEF Spec
=============================================================================
