------------------------------ MODULE Service ------------------------------
(***************************************************************************)
(* One service.status query (internal/service/linux.go): the query asks    *)
(* the bus who owns systemd's name and under which user it runs, and then  *)
(* asks that connection about the unit, one property at a time, while a    *)
(* reader goroutine takes frames off the socket through the guard.         *)
(* Meanwhile units change, connections come and go, and others on the bus  *)
(* send frames of their own, also ones that pretend to be the answer.      *)
(*                                                                         *)
(* The shape of a frame is the subject of module BusFrame; here a frame    *)
(* has a sender, the serial number it answers, and a value.  The library   *)
(* takes any frame with the serial of the pending call for its answer.     *)
(* The bus delivers in order, and its own answers are well formed.         *)
(* Opening the socket, authentication and Hello are one step that may      *)
(* fail.                                                                   *)
(***************************************************************************)
EXTENDS Integers, Sequences

CONSTANTS
    Others,       \* connections that are not systemd's, of ordinary users
    Words,        \* values of the state properties
    NoWord,       \* the one among them that is no state word
    MaxTotal,     \* frames that the guard lets through, 64 KiB in the code
    MaxEvents     \* bound of the model: frames that nobody asked for, and
                  \* changes of the unit and of the name

Props == <<"Id", "LoadState", "ActiveState", "SubState">>
Conns == Others \cup {"systemd"}

ServiceAssumption ==
    /\ NoWord \in Words /\ "error" \notin Words \cup Others
    /\ {"bus", "systemd", ""} \cap Others = {}
    /\ MaxTotal \in Nat /\ MaxEvents \in Nat

VARIABLES
    holder,     \* the connection that owns systemd's name, "" if none does
    unit,       \* whether the unit is loaded, and its properties
    wire,       \* frames on their way to the query
    events,     \* frames nobody asked for and changes, so far
    pc,         \* the call that the query makes next or waits for
    sent,       \* whether it waits
    serial,     \* the serial of its latest call
    asked,      \* whether that call was not answered yet
    cand,       \* the answer to GetNameOwner
    owner,      \* the guard's owner
    total,      \* the frames it let through
    closed,     \* the reader has failed
    values,     \* the values read so far
    code,       \* the code of the report, "none" before, "" if it is available
    was         \* history: what the unit was like since the query began

env == <<holder, unit>>
bus == <<wire, events, asked>>
query == <<pc, sent, serial, cand, owner, total, closed, values, code>>
vars == <<env, bus, query, was>>

Unit == [loaded : BOOLEAN, alias : BOOLEAN, state : Words]

\* What systemd says of a property: the name in Id, a word for the states.
Prop(u, i) == IF i = 1 THEN (IF u.alias THEN "other" ELSE "unit") ELSE u.state

Init ==
    /\ holder \in Conns \cup {""} /\ unit \in Unit /\ events = 0
    /\ wire = <<>> /\ asked = FALSE
    /\ pc = "open" /\ sent = FALSE /\ serial = 0 /\ cand = "" /\ owner = ""
    /\ total = 0 /\ closed = FALSE /\ values = <<>> /\ code = "none"
    /\ was = {unit}

-----------------------------------------------------------------------------
(* The bus, systemd and the others.                                        *)

Busy == code = "none" /\ UNCHANGED query

Disturbs == events < MaxEvents /\ events' = events + 1

UnitChanges(u) ==
    /\ Disturbs
    /\ unit' = u /\ was' = was \cup {u}
    /\ Busy /\ UNCHANGED <<holder, wire, asked>>

HolderChanges(c) ==
    /\ Disturbs
    /\ holder' = c
    /\ Busy /\ UNCHANGED <<unit, wire, asked, was>>

Frame(from, s, v) == [from |-> from, serial |-> s, val |-> v]

\* Who is asked: the bus about names, the owner about units.
Callee == IF pc \in {"owner", "user"} THEN "bus" ELSE cand

\* The honest answer of the bus or of systemd, or an error of the bus in its
\* place when the connection is gone.
TrueAnswer ==
    CASE pc = "owner" -> IF holder = "" THEN "error" ELSE holder
      [] pc = "user" -> IF cand = "systemd" THEN "root" ELSE "user"
      [] pc = "unit" -> IF unit.loaded THEN "path" ELSE "nounit"
      [] OTHER -> Prop(unit, Len(values) + 1)

Answer ==
    /\ sent /\ asked /\ asked' = FALSE
    /\ \/ Callee \in {"bus", "systemd"} /\ wire' = Append(wire, Frame(Callee, serial, TrueAnswer))
       \/ wire' = Append(wire, Frame("bus", serial, "error"))
    /\ Busy /\ UNCHANGED <<events, env, was>>

\* Signals of the bus, which answer nothing.
Signal ==
    /\ pc # "open" /\ Disturbs
    /\ wire' = Append(wire, Frame("bus", 0, "signal"))
    /\ Busy /\ UNCHANGED <<asked, env, was>>

\* Anybody may send anything, but not under another's name.
Stray(c, v) ==
    /\ pc # "open" /\ Disturbs
    /\ wire' = Append(wire, Frame(c, serial, v))
    /\ Busy /\ UNCHANGED <<asked, env, was>>

-----------------------------------------------------------------------------
(* The query.                                                              *)

Report(c) == code' = c /\ UNCHANGED <<env, bus, was>>

Open ==
    /\ pc = "open"
    /\ \/ pc' = "owner" /\ UNCHANGED <<code, env, bus, was>>
       \/ \E c \in {"bus_unavailable", "permission_denied"} : Report(c) /\ UNCHANGED pc
    /\ UNCHANGED <<sent, serial, cand, owner, total, closed, values>>

Call ==
    /\ code = "none" /\ pc # "open" /\ ~sent /\ ~closed
    /\ sent' = TRUE /\ serial' = serial + 1 /\ asked' = TRUE
    /\ UNCHANGED <<env, wire, events, pc, cand, owner, total, closed, values, code, was>>

\* What a failed call makes of the report, by the call.
Failure(v) ==
    CASE pc = "owner" -> "bus_unavailable"
      [] pc = "user" -> "permission_denied"
      [] OTHER -> IF pc = "unit" /\ v = "nounit" THEN "unit_not_loaded" ELSE "invalid_response"

\* The deadline passes, or the reader has closed the connection.
CallFails ==
    /\ code = "none" /\ (sent \/ closed) /\ pc # "open"
    /\ Report(Failure("error"))
    /\ UNCHANGED <<pc, sent, serial, cand, owner, total, closed, values>>

\* Faulty: lets the owner speak before its user is known.
HastyOwner(v) ==
    /\ pc = "owner" /\ v \in Conns
    /\ cand' = v /\ owner' = v /\ pc' = "user" /\ UNCHANGED <<values, code>>

GotOwner(v) ==
    /\ pc = "owner" /\ v \in Conns
    /\ cand' = v /\ pc' = "user" /\ UNCHANGED <<owner, values, code>>

GotUser(v) ==
    /\ pc = "user" /\ v = "root"
    /\ owner' = cand /\ pc' = "unit" /\ UNCHANGED <<cand, values, code>>

GotUnit(v) ==
    /\ pc = "unit" /\ v = "path"
    /\ pc' = "get" /\ UNCHANGED <<cand, owner, values, code>>

\* The last one is checked with the others: the name, then the words.
Verdict(vs) ==
    IF vs[1] # "unit" THEN "alias_mismatch"
    ELSE IF \E i \in 2 .. Len(Props) : vs[i] \notin Words \ {NoWord} THEN "invalid_response"
    ELSE ""

GotValue(v) ==
    /\ pc = "get" /\ v \in Words \cup {"unit", "other"}
    /\ values' = Append(values, v)
    /\ code' = IF Len(values') = Len(Props) THEN Verdict(values') ELSE code
    /\ UNCHANGED <<pc, cand, owner>>

Got(v) == GotOwner(v) \/ GotUser(v) \/ GotUnit(v) \/ GotValue(v)

\* Every other answer.
GotError(v) ==
    /\ code' = Failure(v) /\ UNCHANGED <<pc, cand, owner, values>>
    /\ ~(pc = "owner" /\ v \in Conns) /\ ~(pc = "user" /\ v = "root")
    /\ ~(pc = "unit" /\ v = "path") /\ ~(pc = "get" /\ v \in Words \cup {"unit", "other"})

\* The guard: the bus, or the owner if there is one, within the budget.
Speaker(c) == total < MaxTotal /\ (c = "bus" \/ (owner # "" /\ c = owner))

\* The reader goroutine.
Receive ==
    /\ wire # <<>> /\ ~closed /\ code = "none"
    /\ wire' = Tail(wire)
    /\ LET f == Head(wire) IN
       \/ /\ Speaker(f.from) /\ total' = total + 1 /\ closed' = FALSE
          /\ \/ /\ sent /\ f.serial = serial
                /\ sent' = FALSE /\ (Got(f.val) \/ GotError(f.val))
             \/ (~sent \/ f.serial # serial) /\ UNCHANGED <<pc, sent, cand, owner, values, code>>
       \/ /\ ~Speaker(f.from) /\ closed' = TRUE
          /\ UNCHANGED <<pc, sent, cand, owner, total, values, code>>
    /\ UNCHANGED <<serial, events, asked, env, was>>

Next ==
    \/ Open \/ Call \/ CallFails \/ Answer \/ Receive \/ Signal
    \/ \E u \in Unit : UnitChanges(u)
    \/ \E c \in Conns \cup {""} : HolderChanges(c)
    \/ \E c \in Others, v \in Words \cup {"root", "path", "nounit", "unit"} \cup Conns : Stray(c, v)

Spec == Init /\ [][Next]_vars

-----------------------------------------------------------------------------
(* Properties.                                                             *)

Codes == {"", "none", "bus_unavailable", "permission_denied", "unit_not_loaded",
          "alias_mismatch", "invalid_response"}

TypeOK ==
    /\ holder \in Conns \cup {""} /\ unit \in Unit /\ events \in 0 .. MaxEvents
    /\ asked \in BOOLEAN
    /\ pc \in {"open", "owner", "user", "unit", "get"} /\ sent \in BOOLEAN
    /\ serial \in 0 .. 7 /\ cand \in Conns \cup {""} /\ owner \in Conns \cup {""}
    /\ total \in 0 .. MaxTotal /\ closed \in BOOLEAN
    /\ Len(values) <= Len(Props) /\ code \in Codes /\ was \subseteq Unit

(***************************************************************************)
(* What a report says was so: each value of an available report is one     *)
(* that systemd gave of this unit at a moment of the query, and a unit     *)
(* reported as not loaded was not loaded at one, whoever else sends frames *)
(* and takes or drops systemd's name meanwhile.  The values need not have  *)
(* been there together.                                                    *)
(***************************************************************************)
ReportTrue ==
    /\ code = "" => \A i \in 1 .. Len(Props) : \E u \in was : values[i] = Prop(u, i)
    /\ code = "unit_not_loaded" => \E u \in was : ~u.loaded

-----------------------------------------------------------------------------
(* Why it holds: the inductive invariant.                                  *)

Vals == Words \cup Conns \cup {"error", "root", "user", "path", "nounit", "unit",
                               "other", "signal"}
Frames == [from : Conns \cup {"bus"}, serial : Nat, val : Vals]

\* The calls that were answered.
Answered ==
    CASE pc \in {"open", "owner"} -> 0 [] pc = "user" -> 1
      [] pc = "unit" -> 2 [] OTHER -> 3 + Len(values)

InStep ==
    /\ values \in Seq(Vals) /\ (pc # "get" => values = <<>>) /\ (sent => pc # "open")
    /\ code = "none" => /\ Len(values) < Len(Props)
                        /\ serial = Answered + (IF sent THEN 1 ELSE 0)
    /\ code = "" => Len(values) = Len(Props)

\* The guard lets nobody but systemd speak, and not before its user is known.
OwnerKnown ==
    /\ owner \in {"", "systemd"}
    /\ pc \in {"open", "owner", "user"} => owner = ""
    /\ pc \in {"unit", "get"} => cand = "systemd"

\* What an answer v to call p tells is so: c is the candidate, k the number of
\* values before, and w what the unit was like.
Truth(p, c, k, w, v) ==
    /\ p = "user" /\ v = "root" => c = "systemd"
    /\ p = "unit" /\ v = "nounit" => \E u \in w : ~u.loaded
    /\ p = "get" /\ v \in Words \cup {"unit", "other"} => \E u \in w : v = Prop(u, k + 1)

\* A frame with the serial of the pending call, and not of a stranger, is its answer.
OnTheWire ==
    /\ wire \in Seq(Frames) /\ \A i \in 1 .. Len(wire) : wire[i].serial <= serial
    /\ code = "none" /\ sent => \A i \in 1 .. Len(wire) :
          wire[i].serial = serial /\ wire[i].from \notin Others =>
              Truth(pc, cand, Len(values), was, wire[i].val)

Seen ==
    /\ unit \in was /\ \A i \in 1 .. Len(values) : \E u \in was : values[i] = Prop(u, i)
    /\ code = "unit_not_loaded" => \E u \in was : ~u.loaded

ServiceInv == TypeOK /\ InStep /\ OwnerKnown /\ OnTheWire /\ Seen
=============================================================================
