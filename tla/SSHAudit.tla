------------------------------ MODULE SSHAudit ------------------------------
(***************************************************************************)
(* The SSH audit: sshaudit.Collect reads the files of a profile and goes   *)
(* through them line by line; protocol.SSHReport.Validate, which shares no *)
(* code with it, decides on the probe whether the report is sent and on    *)
(* the server whether it is stored.                                        *)
(*                                                                         *)
(* A line is what the parser can tell about it.  Reading is the choice of  *)
(* an outcome, see module SafeRead, and of the lines one after the other.  *)
(* A fingerprint, a digest and a mode are as Validate wants them, except   *)
(* for the presence of a digest.                                           *)
(***************************************************************************)
EXTENDS Integers, Sequences

CONSTANTS
    Profiles,         \* the kinds of the files of each profile, in order
    Names,            \* directives that are evaluated, in either spelling
    KeyLimit,         \* keys that are reported of a file (8)
    DirectiveLimit,   \* directives that are reported of a file (8)
    LineLimit,        \* lines of a file (512)
    MaxClock          \* bound of the model: the probe's clock

SSHAuditAssumption ==
    /\ Profiles \subseteq Seq({"sshd_config", "authorized_keys"})
    /\ \A p \in Profiles : Len(p) \in 1 .. 4
    /\ "challengeresponseauthentication" \in Names => "kbdinteractiveauthentication" \in Names
    /\ KeyLimit \in Nat \ {0} /\ DirectiveLimit \in Nat \ {0}
    /\ LineLimit \in Nat \ {0} /\ MaxClock \in Nat \ {0}

VARIABLES
    kinds,      \* the profile that is asked for
    phase,      \* "read", "parse", "done"
    lines,      \* the lines of the present file so far
    f,          \* its observation
    matched,    \* a Match line was seen
    seen,       \* directives that were seen
    files,      \* observations of the files before
    started,    \* StartedAt of the result
    observed,   \* ObservedAt of the report
    finished,   \* FinishedAt of the result, 0 before
    outcome     \* of the task

result == <<kinds, started, observed, finished, outcome>>
vars == <<phase, lines, f, matched, seen, files, result>>

\* "invalid" stands for a stray carriage return, for what is no key, for a
\* name that is not a word and for a directive without a value; "unknown" for
\* a name or a value that DirectiveValue does not know.
Line ==
    [kind : {"blank", "invalid", "long"}]
    \cup [kind : {"key"}, options : BOOLEAN, cert : BOOLEAN]
    \cup [kind : {"match", "include", "dynamic", "unknown"}]
    \cup [kind : {"directive"}, name : Names, simple : BOOLEAN]

LinesOf(kind) ==
    {l \in Line : l.kind \in {"blank", "invalid", "long"}
                  \/ (l.kind = "key") = (kind = "authorized_keys")}

\* Not read, or read and not parsed.
ReadCodes == {"missing", "permission_denied", "unsafe_path", "unsafe_type",
              "owner_mismatch", "too_large", "changed_during_read",
              "unsupported", "io_error"}
Codes == ReadCodes \cup {"ok", "partial", "parse_error", "sensitive_content"}

GapCodes == {"match_not_evaluated", "include_not_expanded",
             "dynamic_auth_not_evaluated", "other_directives_not_evaluated",
             "key_options_not_evaluated", "key_certificate_not_evaluated",
             "key_limit", "duplicate_directive", "invalid_value", "directive_limit"}
Findings == GapCodes \cup {"group_or_other_writable", "invalid_line", "line_limit",
                           "empty_key_file", "baseline_changed"}

\* SSHFileObservation.  Findings are distinct, so a set.
NewFile(kind) ==
    [kind |-> kind, status |-> "ok", metadata |-> FALSE, sha256 |-> FALSE,
     baseline |-> "unavailable", keys |-> <<>>, directives |-> <<>>, findings |-> {}]

Observation ==
    [kind : {"sshd_config", "authorized_keys"}, status : Codes, metadata : BOOLEAN,
     sha256 : BOOLEAN, baseline : {"unavailable", "unconfigured", "match", "changed"},
     keys : Seq(1 .. LineLimit), directives : Seq([line : 1 .. LineLimit, name : Names]),
     findings : SUBSET Findings]

File == Len(files) + 1

Init ==
    /\ kinds \in Profiles
    /\ phase = "read" /\ lines = <<>> /\ f = NewFile(kinds[1])
    /\ matched = FALSE /\ seen = {} /\ files = <<>>
    /\ started \in 1 .. MaxClock /\ observed \in started .. MaxClock
    /\ finished = 0 /\ outcome = "none"

-----------------------------------------------------------------------------
(* Collect and parse.                                                      *)

Finding(o, code) == [o EXCEPT !.findings = @ \cup {code}]

Partial(o, code) ==
    Finding([o EXCEPT !.status = IF @ = "ok" THEN "partial" ELSE @], code)

ParseError(o, code) == Finding([o EXCEPT !.status = "parse_error"], code)

\* The next file or the end.
NextFile(o) ==
    /\ files' = Append(files, o)
    /\ IF File = Len(kinds) THEN phase' = "done" /\ f' = o
                            ELSE phase' = "read" /\ f' = NewFile(kinds[File + 1])
    /\ lines' = <<>> /\ matched' = FALSE /\ seen' = {}
    /\ UNCHANGED result

Writable(o) == {o, Finding(o, "group_or_other_writable")}

\* The file is not read; there may be metadata.
Unread(code) ==
    /\ phase = "read"
    /\ \/ NextFile([f EXCEPT !.status = code])
       \/ \E o \in Writable([f EXCEPT !.status = code, !.metadata = TRUE]) : NextFile(o)

\* Bytes that are no text, hold a private key, or are too many lines.
Unparsed ==
    /\ phase = "read"
    /\ \E o \in Writable([f EXCEPT !.metadata = TRUE]) :
          \/ NextFile([o EXCEPT !.status = "sensitive_content"])
          \/ NextFile([o EXCEPT !.status = "parse_error"])
          \/ NextFile(ParseError(o, "line_limit"))

Parse ==
    /\ phase = "read" /\ phase' = "parse"
    /\ f' \in Writable([f EXCEPT !.metadata = TRUE])
    /\ UNCHANGED <<lines, matched, seen, files, result>>

Canonical(name) ==
    IF name = "challengeresponseauthentication"
    THEN "kbdinteractiveauthentication" ELSE name

Key(l) ==
    IF Len(f.keys) >= KeyLimit THEN Partial(f, "key_limit")
    ELSE LET o == [f EXCEPT !.keys = Append(@, Len(lines) + 1)]
             p == IF l.options THEN Partial(o, "key_options_not_evaluated") ELSE o
         IN  IF l.cert THEN Partial(p, "key_certificate_not_evaluated") ELSE p

Directive(l) ==
    IF ~l.simple THEN Partial(f, "invalid_value")
    ELSE IF Canonical(l.name) \in seen THEN Partial(f, "duplicate_directive")
    ELSE IF Len(f.directives) >= DirectiveLimit THEN Partial(f, "directive_limit")
    ELSE [f EXCEPT !.directives =
             Append(@, [line |-> Len(lines) + 1, name |-> Canonical(l.name)])]

Parsed(l) ==
    CASE l.kind = "blank" -> f
      [] l.kind = "invalid" -> ParseError(f, "invalid_line")
      [] l.kind = "long" -> ParseError(f, "line_limit")
      [] l.kind = "key" -> Key(l)
      [] l.kind = "match" -> Partial(f, "match_not_evaluated")
      [] l.kind = "include" -> Partial(f, "include_not_expanded")
      [] l.kind = "dynamic" -> Partial(f, "dynamic_auth_not_evaluated")
      [] l.kind = "unknown" ->
            IF matched THEN f ELSE Partial(f, "other_directives_not_evaluated")
      [] l.kind = "directive" -> IF matched THEN f ELSE Directive(l)

ParseLine(l) ==
    /\ phase = "parse" /\ f.status # "parse_error" /\ Len(lines) < LineLimit
    /\ f' = Parsed(l)
    /\ lines' = Append(lines, l)
    /\ matched' = (matched \/ l.kind = "match")
    /\ seen' = IF l.kind = "directive" /\ ~matched /\ l.simple
               THEN seen \cup {Canonical(l.name)} ELSE seen
    /\ UNCHANGED <<phase, files, result>>

\* Faulty: what was read before the bad line is kept.
Kept(o) == o

\* The end of parse.
Cleared(o) ==
    IF o.status = "parse_error" THEN [o EXCEPT !.keys = <<>>, !.directives = <<>>]
    ELSE IF o.kind = "authorized_keys" /\ o.status = "ok" /\ o.keys = <<>>
         THEN Finding(o, "empty_key_file") ELSE o

\* The digest is compared with the baseline of the mapping.
Compared(o) ==
    IF o.status \notin {"ok", "partial"} THEN {o}
    ELSE LET d == [o EXCEPT !.sha256 = TRUE]
         IN  {[d EXCEPT !.baseline = "unconfigured"], [d EXCEPT !.baseline = "match"],
              Finding([d EXCEPT !.baseline = "changed"], "baseline_changed")}

EndOfFile ==
    /\ phase = "parse"
    /\ \E o \in Compared(Cleared(f)) : NextFile(o)

Coverage ==
    IF \A k \in DOMAIN files : files[k].status \notin {"ok", "partial"} THEN "unavailable"
    ELSE IF \E k \in DOMAIN files : files[k].status # "ok" THEN "partial"
    ELSE "complete"

-----------------------------------------------------------------------------
(* Validate, and the engine that asks it.                                  *)

\* DirectiveValue knows the newer of the two spellings only.
Known == Names \ {"challengeresponseauthentication"}

ValidFile(o) ==
    /\ o.status \in Codes /\ o.findings \subseteq Findings
    /\ Len(o.keys) <= KeyLimit /\ Len(o.directives) <= DirectiveLimit
    /\ IF o.status \in {"ok", "partial"}
       THEN o.metadata /\ o.sha256 /\ o.baseline \in {"unconfigured", "match", "changed"}
       ELSE ~o.sha256 /\ o.baseline = "unavailable" /\ o.keys = <<>> /\ o.directives = <<>>
    /\ o.kind = "sshd_config" => o.keys = <<>>
    /\ o.kind = "authorized_keys" => o.directives = <<>>
    /\ \A k \in DOMAIN o.keys : o.keys[k] \in 1 .. LineLimit
    /\ \A k \in DOMAIN o.directives :
          o.directives[k].line \in 1 .. LineLimit /\ o.directives[k].name \in Known

Want ==
    IF \A k \in DOMAIN files : files[k].status = "ok" THEN "complete"
    ELSE IF \A k \in DOMAIN files : files[k].status \notin {"ok", "partial"}
         THEN "unavailable" ELSE "partial"

Validate(now) ==
    /\ observed >= 1 /\ observed <= now /\ Len(files) \in 1 .. 4
    /\ \A k \in DOMAIN files : ValidFile(files[k])
    /\ Coverage = Want

\* The collector returns at time t, which may be before it was called.
Finish(t) ==
    /\ phase = "done" /\ outcome = "none"
    /\ finished' = IF t < started THEN started ELSE t
    /\ outcome' = IF Validate(finished') THEN "succeeded" ELSE "collector_failed"
    /\ UNCHANGED <<kinds, phase, lines, f, matched, seen, files, started, observed>>

\* The deadline of the task.
Deadline ==
    /\ outcome = "none"
    /\ outcome' = "deadline" /\ phase' = "done"
    /\ UNCHANGED <<kinds, lines, f, matched, seen, files, started, observed, finished>>

Next ==
    \/ \E c \in ReadCodes : Unread(c)
    \/ Unparsed \/ Parse \/ EndOfFile \/ Deadline
    \/ \E l \in LinesOf(f.kind) : ParseLine(l)
    \/ \E t \in 1 .. MaxClock : Finish(t)

Spec == Init /\ [][Next]_vars

-----------------------------------------------------------------------------
(* Properties.                                                             *)

TypeOK ==
    /\ kinds \in Profiles /\ phase \in {"read", "parse", "done"} /\ matched \in BOOLEAN
    /\ lines \in Seq(Line) /\ Len(lines) <= LineLimit /\ seen \subseteq Names
    /\ f \in Observation /\ files \in Seq(Observation) /\ Len(files) <= Len(kinds)
    /\ started \in 1 .. MaxClock /\ observed \in 1 .. MaxClock
    /\ finished \in 0 .. MaxClock
    /\ outcome \in {"none", "succeeded", "collector_failed", "deadline"}

\* The lines that a file is reported with.
Reported ==
    {f.keys[k] : k \in DOMAIN f.keys} \cup {f.directives[k].line : k \in DOMAIN f.directives}

(***************************************************************************)
(* What Collect makes of any readable or unreadable files is a report that *)
(* Validate accepts, so that the audit fails only when it took too long or *)
(* when the clock of the probe was set back while it ran.                  *)
(***************************************************************************)
CollectedValid ==
    outcome = "collector_failed" => finished < observed

(***************************************************************************)
(* Nothing is left out in silence: a file in which a line with content is  *)
(* not reported is not "ok", and has a finding that says what was not      *)
(* evaluated.                                                              *)
(***************************************************************************)
GapsNamed ==
    phase = "parse" /\ f.status # "parse_error" =>
        \A i \in DOMAIN lines :
            lines[i].kind # "blank" /\ i \notin Reported =>
                f.status = "partial" /\ f.findings \cap GapCodes # {}

Spellings(name) ==
    IF name = "kbdinteractiveauthentication"
    THEN {name, "challengeresponseauthentication"} ELSE {name}

(***************************************************************************)
(* A directive is reported with the line that sshd goes by, as far as this *)
(* parser understands the lines: the first one of its name, under either   *)
(* spelling, and one that stands before every Match.                       *)
(***************************************************************************)
FirstGlobal ==
    phase = "parse" /\ f.status # "parse_error" =>
        \A k \in DOMAIN f.directives :
            LET d == f.directives[k]
                Is(i) == lines[i].kind = "directive" /\ lines[i].simple
                         /\ lines[i].name \in Spellings(d.name)
            IN  /\ Is(d.line)
                /\ \A i \in 1 .. d.line - 1 : ~Is(i) /\ lines[i].kind # "match"

-----------------------------------------------------------------------------
(* Why it holds: the inductive invariant.                                  *)

\* An observation that the parser is filling, after n lines.
Filling(o, n) ==
    /\ o.status \in {"ok", "partial", "parse_error"}
    /\ o.metadata /\ ~o.sha256 /\ o.baseline = "unavailable"
    /\ Len(o.keys) <= KeyLimit /\ Len(o.directives) <= DirectiveLimit
    /\ o.kind = "sshd_config" => o.keys = <<>>
    /\ o.kind = "authorized_keys" => o.directives = <<>>
    /\ \A k \in DOMAIN o.keys : o.keys[k] \in 1 .. n
    /\ \A k \in DOMAIN o.directives :
          o.directives[k].line \in 1 .. n /\ o.directives[k].name \in Known

AtHand ==
    /\ phase # "done" => Len(files) < Len(kinds)
    /\ phase = "read" => /\ lines = <<>> /\ matched = FALSE /\ seen = {}
                         /\ f = NewFile(kinds[File])
    /\ phase = "parse" => Filling(f, Len(lines))
    /\ phase = "done" /\ outcome = "none" => Len(files) = Len(kinds)

ReportsSound == \A k \in DOMAIN files : ValidFile(files[k])

\* A Match line leaves its mark; before it, what counts has been seen.
MatchMarked ==
    phase = "parse" =>
        IF matched THEN f.status # "ok" /\ "match_not_evaluated" \in f.findings
        ELSE \A i \in DOMAIN lines :
                /\ lines[i].kind # "match"
                /\ lines[i].kind = "directive" /\ lines[i].simple =>
                      Canonical(lines[i].name) \in seen

AuditInv ==
    /\ TypeOK /\ AtHand /\ ReportsSound /\ CollectedValid /\ MatchMarked
    /\ GapsNamed /\ FirstGlobal
=============================================================================
