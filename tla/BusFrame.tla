------------------------------ MODULE BusFrame ------------------------------
(***************************************************************************)
(* The guard that stands between the system bus and the D-Bus decoder      *)
(* (internal/service/guard.go): it takes one frame of arbitrary bytes,     *)
(* walks over its header fields and its body, and passes it on only if it  *)
(* is one of the few shapes that the queries need.                         *)
(*                                                                         *)
(* The bytes of a frame are chosen as the cursor reads them, so that every *)
(* frame up to the bounds is explored.  Of a text only its length matters, *)
(* and for the sender whom it names; of a number whether it is the length  *)
(* of a text.  Positions are counted from the start of the frame, whose    *)
(* body begins at a multiple of eight.                                     *)
(***************************************************************************)
EXTENDS Integers

CONSTANTS
    MaxHeader,    \* bytes of header fields, 4096 in the code
    MaxBody,      \* bytes of the body, 4096
    MaxFrame,     \* bytes of the frame, 8192
    MaxText       \* bytes of a text, 256

BusFrameAssumption ==
    /\ MaxHeader \in Nat /\ MaxBody \in Nat /\ MaxFrame \in Nat /\ MaxText \in Nat

VARIABLES
    owner,        \* the verified connection of systemd, "" while there is none
    hlen, blen,   \* the two lengths that the frame declares
    size,         \* the bytes that Read allocated and filled, 0 before
    pc,           \* what is read next
    pos, lim,     \* the cursor: its position and the end of its slice
    field, done,  \* the header field at hand, and those that were there
    sender, sig,  \* the values of the fields sender and signature
    last,         \* history: the highest index that the last step read
    seen,         \* history: the bytes that were checked
    verdict       \* "", "accepted", "rejected"

vars == <<owner, hlen, blen, size, pc, pos, lim, field, done, sender, sig, last, seen, verdict>>

\* The least multiple of a from n on.
Up(n, a) == ((n + a - 1) \div a) * a

\* The signature of a header field, by its code.
Want == [f \in 1 .. 9 |->
           CASE f = 1 -> "o" [] f \in {2, 3, 4, 6, 7} -> "s" [] f \in {5, 9} -> "u" [] f = 8 -> "g"]

BodyAt == Up(16 + hlen, 8)

Init ==
    /\ owner \in {"", "systemd"}
    /\ hlen = 0 /\ blen = 0 /\ size = 0
    /\ pc = "read" /\ pos = 0 /\ lim = 0
    /\ field = 0 /\ done = {} /\ sender = "" /\ sig = ""
    /\ last = -1 /\ seen = {} /\ verdict = ""

\* Any content that is not as it should be.
Refuse ==
    /\ pc # "end" /\ (pc = "close" => pos # lim)
    /\ pc' = "end" /\ verdict' = "rejected"
    /\ UNCHANGED <<owner, hlen, blen, size, pos, lim, field, done, sender, sig, last, seen>>

-----------------------------------------------------------------------------
(* Read: the lengths, then the whole frame.                                *)

Fits(h, b) ==
    /\ h <= MaxHeader /\ b <= MaxBody
    /\ 16 + Up(h, 8) + b <= MaxFrame

ReadFrame(h, b) ==
    /\ pc = "read" /\ Fits(h, b)
    /\ hlen' = h /\ blen' = b /\ size' = 16 + Up(h, 8) + b
    /\ pc' = "frame"
    /\ UNCHANGED <<owner, pos, lim, field, done, sender, sig, last, seen, verdict>>

\* The head of validateFrame.
CheckFrame ==
    /\ pc = "frame" /\ size >= 16
    /\ BodyAt + blen = size
    /\ pc' = "field" /\ pos' = 16 /\ lim' = 16 + hlen
    /\ seen' = 0 .. 15 /\ last' = 15
    /\ UNCHANGED <<owner, hlen, blen, size, field, done, sender, sig, verdict>>

-----------------------------------------------------------------------------
(* The cursor.                                                             *)

NumberFits == Up(pos, 4) <= lim /\ lim - Up(pos, 4) >= 4

TextFits(n) ==
    /\ NumberFits
    /\ n <= MaxText /\ lim - (Up(pos, 4) + 4) >= n + 1

SignatureFits(n) ==
    /\ lim - pos >= 2
    /\ n <= 1 /\ lim - (pos + 1) >= n + 1

\* The cursor moves to an end that fits, and what lies between was checked.
Take(end, next) ==
    /\ pos' = end /\ last' = end - 1
    /\ seen' = seen \cup (pos .. end - 1)
    /\ pc' = next

TakeNumber(next) == NumberFits /\ Take(Up(pos, 4) + 4, next)
TakeText(n, next) == TextFits(n) /\ Take(Up(pos, 4) + 4 + n + 1, next)
TakeSignature(n, next) == SignatureFits(n) /\ Take(pos + 1 + n + 1, next)

-----------------------------------------------------------------------------
(* The header fields.                                                      *)

\* The loop's end, or the padding before the next field.
NextField ==
    /\ pc = "field"
    /\ \/ pos >= lim /\ pc' = "sender" /\ UNCHANGED <<pos, last, seen>>
       \/ /\ pos < lim /\ Up(pos, 8) <= lim
          /\ Take(Up(pos, 8), IF Up(pos, 8) = lim THEN "sender" ELSE "code")
    /\ UNCHANGED <<owner, hlen, blen, size, lim, field, done, sender, sig, verdict>>

Code(f) ==
    /\ pc = "code" /\ f \notin done
    /\ Take(pos + 1, "signature") /\ field' = f /\ done' = done \cup {f}
    /\ UNCHANGED <<owner, hlen, blen, size, lim, sender, sig, verdict>>

\* Its signature is the one of its code.
FieldSignature ==
    /\ pc = "signature" /\ TakeSignature(1, "value")
    /\ UNCHANGED <<owner, hlen, blen, size, lim, field, done, sender, sig, verdict>>

\* An empty text names nobody.
Value(n, who, s) ==
    /\ pc = "value"
    /\ CASE Want[field] \in {"s", "o"} -> TakeText(n, "field")
         [] Want[field] = "u" -> n = 0 /\ TakeNumber("field")
         [] OTHER -> (n = 0) = (s = "") /\ TakeSignature(n, "field")
    /\ sender' = IF field = 7 THEN (IF n = 0 THEN "" ELSE who) ELSE sender
    /\ sig' = IF field = 8 THEN s ELSE sig
    /\ UNCHANGED <<owner, hlen, blen, size, lim, field, done, verdict>>

SenderAllowed == sender = "daemon" \/ (owner # "" /\ sender = owner)

\* Faulty: does not look at the padding.
SkippedPadding ==
    /\ pc = "sender" /\ SenderAllowed
    /\ pos' = BodyAt /\ lim' = size /\ pc' = "body"
    /\ UNCHANGED <<owner, hlen, blen, size, field, done, sender, sig, last, seen, verdict>>

\* The sender, and the padding up to the body.
Padding ==
    /\ pc = "sender" /\ SenderAllowed
    /\ Take(BodyAt, "body") /\ lim' = size
    /\ UNCHANGED <<owner, hlen, blen, size, field, done, sender, sig, verdict>>

-----------------------------------------------------------------------------
(* The body.                                                               *)

Body(n) ==
    /\ pc = "body"
    /\ CASE sig \in {"s", "o"} -> TakeText(n, "close")
         [] sig = "u" -> n = 0 /\ TakeNumber("close")
         [] sig = "v" -> n = 0 /\ TakeSignature(1, "variant")
         [] sig = "" -> n = 0 /\ pc' = "close" /\ UNCHANGED <<pos, last, seen>>
         [] OTHER -> FALSE
    /\ UNCHANGED <<owner, hlen, blen, size, lim, field, done, sender, sig, verdict>>

\* A variant holds a text.
Variant(n) ==
    /\ pc = "variant" /\ TakeText(n, "close")
    /\ UNCHANGED <<owner, hlen, blen, size, lim, field, done, sender, sig, verdict>>

\* Nothing may follow.
Close ==
    /\ pc = "close" /\ pos = lim
    /\ pc' = "end" /\ verdict' = "accepted"
    /\ UNCHANGED <<owner, hlen, blen, size, pos, lim, field, done, sender, sig, last, seen>>

Next ==
    \/ Refuse \/ CheckFrame \/ NextField \/ FieldSignature \/ Padding \/ Close
    \/ \E h \in 0 .. MaxHeader + 1, b \in 0 .. MaxBody + 1 : ReadFrame(h, b)
    \/ \E f \in 1 .. 9 : Code(f)
    \/ \E n \in 0 .. MaxText + 1 :
          \/ Body(n) \/ Variant(n)
          \/ \E who \in {"daemon", "systemd", "other"}, s \in {"", "s", "o", "u", "v", "a"} :
                Value(n, who, s)

Spec == Init /\ [][Next]_vars

-----------------------------------------------------------------------------
(* Properties.                                                             *)

TypeOK ==
    /\ owner \in {"", "systemd"}
    /\ hlen \in 0 .. MaxHeader /\ blen \in 0 .. MaxBody /\ size \in 0 .. MaxFrame
    /\ pc \in {"read", "frame", "field", "code", "signature", "value", "sender",
               "body", "variant", "close", "end"}
    /\ pos \in 0 .. size /\ lim \in 0 .. size /\ last \in -1 .. size
    /\ field \in 0 .. 9 /\ done \subseteq 1 .. 9
    /\ sender \in {"", "daemon", "systemd", "other"}
    /\ sig \in {"", "s", "o", "u", "v", "a"}
    /\ seen \subseteq 0 .. size /\ verdict \in {"", "accepted", "rejected"}

(***************************************************************************)
(* Whatever bytes arrive, no step of the cursor reads past the slice it    *)
(* walks over: a nested length never leads out of the header, or out of    *)
(* the frame, which in Go would end the whole probe.                       *)
(***************************************************************************)
InBounds == pc \in {"field", "code", "signature", "value", "variant", "close"} => last < lim

(***************************************************************************)
(* A frame that is passed on was checked to the last byte: the header      *)
(* fields, the padding and the body lie side by side and leave nothing     *)
(* over, though Read and validateFrame compute the lengths separately.     *)
(***************************************************************************)
NothingUnseen == verdict = "accepted" => seen = 0 .. size - 1

(***************************************************************************)
(* A frame that is passed on names its sender, once, and this is the bus   *)
(* or, when it is known, systemd.                                          *)
(***************************************************************************)
SenderNamed ==
    verdict = "accepted" =>
        /\ 7 \in done
        /\ sender = "daemon" \/ (sender = "systemd" /\ owner = "systemd")

-----------------------------------------------------------------------------
(* Why it holds: the inductive invariant.                                  *)

\* Nothing of the frame has been looked at.
Unread ==
    pc \in {"read", "frame"} => pos = 0 /\ lim = 0 /\ last = -1 /\ seen = {}

\* The cursor has checked all that lies before it, in the slice it walks over.
Walked ==
    pc \notin {"read", "frame", "end"} =>
        /\ 16 <= pos /\ pos <= lim /\ last = pos - 1
        /\ seen = 0 .. pos - 1

Slices ==
    /\ pc \in {"field", "code", "signature", "value", "sender"} =>
          lim = 16 + hlen /\ BodyAt + blen = size
    /\ pc = "code" => pos < lim
    /\ pc = "sender" => pos = lim
    /\ pc \in {"body", "variant", "close"} => lim = size

Named ==
    /\ sender # "" => 7 \in done
    /\ pc \in {"signature", "value"} => field \in done
    /\ pc \in {"body", "variant", "close"} \/ verdict = "accepted" => SenderAllowed

FrameInv ==
    /\ TypeOK /\ Unread /\ Walked /\ Slices /\ Named /\ NothingUnseen
    /\ verdict # "" => pc = "end"
=============================================================================
