------------------------------ MODULE SafeRead ------------------------------
(***************************************************************************)
(* saferead.Read of one mapped file while others write to it, replace it   *)
(* or change its owner.  The reader keeps the file open, compares what     *)
(* fstat says before and after, and looks the path up again.               *)
(*                                                                         *)
(* A file is a sequence of blocks; a block is read at once.  The kernel    *)
(* gives a file that is changed the present tick of a coarse clock as its  *)
(* mtime and ctime, so that two changes may leave the same stamp.  An      *)
(* inode that is open is not used again.                                   *)
(*                                                                         *)
(* Simplifications.  The directories on the way (openBase, trustedDir) are *)
(* in order or the open fails; one owner stands for user and group; mtime  *)
(* and ctime are one stamp; the clock of the kernel is not set back.       *)
(***************************************************************************)
EXTENDS Integers, Sequences

CONSTANTS
    Inodes,       \* inode numbers
    Blocks,       \* contents of a block
    MaxBytes,     \* max_bytes of the mapping, in blocks
    MaxSize,      \* bound of the model: blocks of a file
    MaxEdits,     \* bound of the model: changes by others during the read
    MaxTick       \* bound of the model: ticks of the kernel's clock

SafeReadAssumption ==
    /\ 0 \notin Inodes /\ Blocks # {}
    /\ MaxBytes \in Nat \ {0} /\ MaxSize \in Nat /\ MaxEdits \in Nat
    /\ MaxTick \in Nat \ {0} /\ MaxBytes <= MaxSize

VARIABLES
    clock,    \* the kernel's clock
    path,     \* the inode that the path names, 0 for none
    file,     \* the inodes
    edits,    \* changes by others
    pc,       \* where the reader is
    fd,       \* the inode it has open, 0 for none
    before,   \* the file as it was at the first fstat
    data,     \* the blocks it has read
    code,     \* the code of its observation, "" until it has one
    varied,   \* history: the open file changed between the two fstat calls
    settled   \* history: the file was last changed before the tick of the first fstat

disk == <<clock, path, file, edits>>
reader == <<pc, fd, before, data, code>>
vars == <<disk, reader, varied, settled>>

Content == UNION {[1 .. n -> Blocks] : n \in 0 .. MaxSize}

Inode == [blocks : Content, stamp : 0 .. MaxTick, owned : BOOLEAN,
          regular : BOOLEAN, links : 0 .. 2]

\* What fstat tells.
Stat(f) == [size |-> Len(f.blocks), stamp |-> f.stamp, owned |-> f.owned,
            regular |-> f.regular, links |-> f.links]

Free == [blocks |-> <<>>, stamp |-> 0, owned |-> TRUE, regular |-> TRUE, links |-> 0]

OpenCodes == {"permission_denied", "unsafe_path", "unsupported", "io_error"}
Codes == OpenCodes \cup {"missing", "unsafe_type", "owner_mismatch", "too_large",
                         "changed_during_read", "ok"}

Init ==
    /\ clock = 1 /\ edits = 0
    /\ \E i \in Inodes :
          /\ path = i
          /\ file \in [Inodes -> Inode]
          /\ \A j \in Inodes :
                \/ j = i /\ file[j].links > 0 /\ file[j].stamp \in {0, 1}
                         /\ Len(file[j].blocks) = MaxBytes
                \/ j # i /\ file[j] = Free
    /\ pc = "open" /\ fd = 0 /\ before = Free /\ data = <<>> /\ code = ""
    /\ varied = FALSE /\ settled = FALSE

-----------------------------------------------------------------------------
(* Others.                                                                 *)

Watched ==
    varied' = (varied \/ (pc \in {"reading", "compare"}
                          /\ [file'[fd] EXCEPT !.stamp = 0] # [file[fd] EXCEPT !.stamp = 0]))

Others == pc # "done" /\ UNCHANGED <<reader, settled>>

Tick ==
    /\ clock < MaxTick /\ clock' = clock + 1
    /\ UNCHANGED <<path, file, edits, varied>> /\ Others

Changed(i, f) ==
    /\ file' = [file EXCEPT ![i] = [f EXCEPT !.stamp = clock]]
    /\ Watched /\ edits < MaxEdits /\ edits' = edits + 1
    /\ UNCHANGED clock /\ Others

Overwrite(i, n, b) ==
    /\ file[i].regular /\ file[i].links > 0 /\ n \in DOMAIN file[i].blocks
    /\ Changed(i, [file[i] EXCEPT !.blocks[n] = b]) /\ UNCHANGED path

Extend(i, b) ==
    /\ file[i].regular /\ file[i].links > 0 /\ Len(file[i].blocks) < MaxSize
    /\ Changed(i, [file[i] EXCEPT !.blocks = Append(@, b)]) /\ UNCHANGED path

Truncate(i) ==
    /\ file[i].regular /\ file[i].links > 0
    /\ Changed(i, [file[i] EXCEPT !.blocks = <<>>]) /\ UNCHANGED path

Chown(i) ==
    /\ file[i].links > 0
    /\ Changed(i, [file[i] EXCEPT !.owned = ~@]) /\ UNCHANGED path

Link(i) ==
    /\ file[i].links = 1
    /\ Changed(i, [file[i] EXCEPT !.links = 2]) /\ UNCHANGED path

Unlink ==
    /\ path # 0
    /\ Changed(path, [file[path] EXCEPT !.links = @ - 1]) /\ path' = 0

\* A new file takes the path; the rename changes both inodes.
Replace(j, bs) ==
    /\ file[j].links = 0 /\ j # fd
    /\ path' = j
    /\ file' = [i \in Inodes |->
          IF i = j THEN [blocks |-> bs, stamp |-> clock, owned |-> TRUE,
                         regular |-> TRUE, links |-> 1]
          ELSE IF i = path THEN [file[i] EXCEPT !.links = @ - 1, !.stamp = clock]
          ELSE file[i]]
    /\ Watched /\ edits < MaxEdits /\ edits' = edits + 1
    /\ UNCHANGED clock /\ Others

\* Only the file at the path and the open one matter.
Write ==
    \/ \E i \in {path, fd} \ {0} :
          \/ \E n \in 1 .. MaxSize, b \in Blocks : Overwrite(i, n, b)
          \/ \E b \in Blocks : Extend(i, b)
          \/ Truncate(i) \/ Chown(i) \/ Link(i)
    \/ Unlink
    \/ \E j \in Inodes, bs \in [1 .. MaxBytes -> Blocks] : Replace(j, bs)

-----------------------------------------------------------------------------
(* The reader.                                                             *)

Return(c) == pc' = "done" /\ code' = c

Open ==
    /\ pc = "open"
    /\ IF path = 0
       THEN Return("missing") /\ UNCHANGED fd
       ELSE \/ \E c \in OpenCodes : Return(c) /\ UNCHANGED fd
            \/ pc' = "stat" /\ fd' = path /\ UNCHANGED code
    /\ UNCHANGED <<disk, before, data, varied, settled>>

\* The first fstat and the checks of it.
Rejection(s) ==
    IF ~s.regular \/ s.links # 1 THEN "unsafe_type"
    ELSE IF ~s.owned THEN "owner_mismatch"
    ELSE IF s.size > MaxBytes THEN "too_large" ELSE "ok"

FirstStat ==
    /\ pc = "stat"
    /\ before' = file[fd]
    /\ IF Rejection(Stat(file[fd])) = "ok"
       THEN pc' = "reading" /\ UNCHANGED code
       ELSE Return(Rejection(Stat(file[fd])))
    /\ settled' = (file[fd].stamp < clock)
    /\ UNCHANGED <<disk, fd, data, varied>>

\* io.ReadAll of a LimitReader: up to MaxBytes + 1.
More == Len(data) < Len(file[fd].blocks) /\ Len(data) <= MaxBytes

ReadBlock ==
    /\ pc = "reading" /\ More
    /\ data' = Append(data, file[fd].blocks[Len(data) + 1])
    /\ UNCHANGED <<disk, pc, fd, before, code, varied, settled>>

\* The end of the file or of the limit; the context may have ended.
ReadEnd ==
    /\ pc = "reading"
    /\ \/ Return("io_error")
       \/ /\ ~More
          /\ IF Len(data) > MaxBytes THEN Return("too_large")
                                     ELSE pc' = "compare" /\ UNCHANGED code
    /\ UNCHANGED <<disk, fd, before, data, varied, settled>>

\* Faulty: the time stamps are not compared.
SameFile(s) ==
    /\ [s EXCEPT !.stamp = 0] = [Stat(before) EXCEPT !.stamp = 0]
    /\ Len(data) = Len(before.blocks)

\* The second fstat.
Unchanged(s) == s = Stat(before) /\ Len(data) = Len(before.blocks)

SecondStat ==
    /\ pc = "compare"
    /\ IF Unchanged(Stat(file[fd]))
       THEN pc' = "reopen" /\ UNCHANGED code
       ELSE Return("changed_during_read")
    /\ UNCHANGED <<disk, fd, before, data, varied, settled>>

Reopen ==
    /\ pc = "reopen"
    /\ \/ path = fd /\ Return("ok")
       \/ Return("changed_during_read")
    /\ UNCHANGED <<disk, fd, before, data, varied, settled>>

Read == Open \/ FirstStat \/ ReadBlock \/ ReadEnd \/ SecondStat \/ Reopen

Next == Tick \/ Write \/ Read

Spec == Init /\ [][Next]_vars

-----------------------------------------------------------------------------
TypeOK ==
    /\ clock \in 1 .. MaxTick /\ edits \in 0 .. MaxEdits
    /\ path \in Inodes \cup {0}
    /\ file \in [Inodes -> Inode] /\ varied \in BOOLEAN /\ settled \in BOOLEAN
    /\ pc \in {"open", "stat", "reading", "compare", "reopen", "done"}
    /\ fd \in Inodes \cup {0} /\ code \in Codes \cup {""}
    /\ Len(data) <= MaxBytes + 1 /\ (pc = "done") = (code # "")

(***************************************************************************)
(* What is reported as read ("ok") is one version of the file, which had   *)
(* the configured owner and one link all the time from the first fstat to  *)
(* the second, provided that the file had not yet been changed in the tick *)
(* of the first fstat.                                                     *)
(***************************************************************************)
Snapshot ==
    code = "ok" /\ settled =>
        /\ ~varied /\ data = before.blocks
        /\ before.owned /\ before.regular /\ before.links = 1

-----------------------------------------------------------------------------
(* Why it holds: the inductive invariant.                                  *)

PathLinked == path # 0 => file[path].links > 0
StampsPast == \A i \in Inodes : file[i].stamp <= clock

Started == pc \in {"reading", "compare", "reopen"} \/ code = "ok"

\* What the reader has is fit to be read.
InHand ==
    /\ pc \in {"stat", "reading", "compare", "reopen"} => fd \in Inodes
    /\ data \in Seq(Blocks) /\ before \in Inode
    /\ Started => Rejection(Stat(before)) = "ok"
    /\ pc \in {"open", "stat"} => data = <<>> /\ ~varied

\* Every change since the first fstat shows in the stamp.
Intact ==
    /\ file[fd] = before /\ ~varied /\ Len(data) <= Len(before.blocks)
    /\ \A n \in 1 .. Len(data) : data[n] = before.blocks[n]

ChangeShows ==
    pc \in {"reading", "compare"} /\ settled =>
        before.stamp < clock /\ (file[fd].stamp > before.stamp \/ Intact)

WasIntact ==
    (pc = "reopen" \/ code = "ok") /\ settled => ~varied /\ data = before.blocks

ReadInv ==
    TypeOK /\ PathLinked /\ StampsPast /\ InHand /\ ChangeShows /\ WasIntact
=============================================================================
