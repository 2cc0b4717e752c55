------------------------------ MODULE RUPApply ------------------------------
(***************************************************************************)
(* rup2_apply of librup/librup.c behind RUPAdapter's ApplyPatch, for       *)
(* patches of one file, called again and again, with crashes in between.   *)
(* A dump of a console type is converted into ninja.src, a file in the     *)
(* temporary directory that every call shares; the conversion is patched   *)
(* and renamed over the target.  Any other file is patched in place.       *)
(*                                                                         *)
(* A byte has two bits, which is enough for XOR, and an MD5 sum stands for *)
(* the bytes it is of.  The stream fo is buffered: what fwrite is given    *)
(* reaches the file at the next fseek or fclose, or, when the buffer is    *)
(* full, a part of it earlier; ftruncate goes past the buffer.             *)
(*                                                                         *)
(* No result of fwrite, fclose, ftruncate, remove or rename is looked at:  *)
(* each of them may fail, and the call goes on as if it had not.           *)
(***************************************************************************)
EXTENDS Integers, Sequences

CONSTANTS
    Inputs,     \* the files users apply patches to
    Patches,    \* the patches
    MayCrash    \* whether the process may end in the middle of a call

Byte == 0..3
File == Seq(Byte)
HeaderMark == 2     \* the byte that stands for a header that is stripped and restored
UnifMark == 3       \* the byte that stands for the structure of a UNIF file

\* Offsets that cannot be sought, from 2^63 on, are left out: in no difference of two
\* files is there one.
Commands == [code : {"M", "2", "?"}, offset : Nat, bytes : File]

ASSUME InputsAssumption == Inputs \subseteq File
ASSUME PatchesAssumption ==
    \A p \in Patches :
        /\ p.ninja2 \in BOOLEAN /\ p.type \in {"raw", "nes", "gb", "lynx"}
        /\ p.smd5 \in File /\ p.mmd5 \in File
        /\ p.ssize = Len(p.smd5) /\ p.msize = Len(p.mmd5)
        /\ p.commands \in Seq(Commands)
ASSUME MayCrashAssumption == MayCrash \in BOOLEAN

VARIABLES
    pc,         \* where rup2_apply is
    patch, input,
    target,     \* the file at the output path
    ninja,      \* ninja.src in the temporary directory
    fo,         \* the file the stream fo is open on
    buffer,     \* what fwrite was given and the file does not have yet
    header, overflow, revert,
    next,       \* the command the patch stream stands at
    applied,    \* the return value
    clean,      \* history: there was no ninja.src when the call began
    lost        \* history: bytes did not reach their file, or ninja.src was not removed

call   == <<patch, input, clean>>
files  == <<target, ninja>>
stream == <<fo, buffer>>
locals == <<header, overflow, revert, next>>
vars   == <<pc, call, files, stream, locals, applied, lost>>

Nothing == <<-1>>
NoWrite == [at |-> 0, bytes |-> <<>>]
NoPatch ==
    [ninja2 |-> FALSE, type |-> "raw", smd5 |-> <<>>, mmd5 |-> <<>>, ssize |-> 0,
     msize |-> 0, commands |-> <<>>]

\* librup.h, and the adapter's message when it cannot copy.
Applying == "applying"
Results == {"ok", "wrong_format", "md5_mismatch", "bad_patch", "not_copied"}

-----------------------------------------------------------------------------
(* Bytes and files. *)

Xor(a, b) == (((a % 2) + (b % 2)) % 2) + 2 * (((a \div 2) + (b \div 2)) % 2)

\* Writing bytes at an offset, over a hole of zeros if that is behind the end.
Poke(f, at, bytes) ==
    LET n == Len(bytes)
        size == IF n > 0 /\ at + n > Len(f) THEN at + n ELSE Len(f)
    IN  [k \in 1..size |->
           IF k > at /\ k <= at + n THEN bytes[k - at]
           ELSE IF k <= Len(f) THEN f[k] ELSE 0]

Resized(f, size) == [k \in 1..size |-> IF k <= Len(f) THEN f[k] ELSE 0]

Starts(f, mark) == f # <<>> /\ f[1] = mark

\* What the readers make of a file: the bytes that are patched and the header that
\* is put back.  nes_read leaves nothing of a file it does not know.
NesRead(f) ==
    IF Starts(f, HeaderMark) \/ Starts(f, UnifMark)
      THEN [rom |-> Tail(f), header |-> <<f[1]>>]
      ELSE [rom |-> <<>>, header |-> Nothing]

\* A dump whose size is not that of whole banks has a copier's header, which is
\* dropped for good.
GbRead(f) == [rom |-> IF Len(f) % 2 # 0 THEN Tail(f) ELSE f, header |-> Nothing]

LynxRead(f) ==
    IF Starts(f, HeaderMark) THEN [rom |-> Tail(f), header |-> <<HeaderMark>>]
    ELSE [rom |-> f, header |-> Nothing]

Converted(type, f) ==
    CASE type = "nes"  -> NesRead(f)
      [] type = "gb"   -> GbRead(f)
      [] type = "lynx" -> LynxRead(f)
      [] type = "raw"  -> [rom |-> f, header |-> Nothing]

\* The contents of the file fo is open on, once the buffer is written.
OnDisk == IF fo = "ninja" THEN ninja ELSE target
Flushed == Poke(OnDisk, buffer.at, buffer.bytes)

SetOpenFile(f) ==
    IF fo = "ninja" THEN ninja' = f /\ UNCHANGED target ELSE target' = f /\ UNCHANGED ninja

\* fseek(fo, at) and fwrite(bytes): the first n bytes go through.  The others are
\* buffered, or are those that will not get through, now or when the buffer is written.
\* (Once bytes are lost fseek may fail, too, and what follows be written elsewhere; no
\* property says what a file holds then.)
SeekAndWrite(at, bytes) ==
    \E n \in 0..Len(bytes) :
        /\ SetOpenFile(Poke(Flushed, at, SubSeq(bytes, 1, n)))
        /\ \/ /\ buffer' = IF n = Len(bytes) THEN NoWrite
                          ELSE [at |-> at + n, bytes |-> SubSeq(bytes, n + 1, Len(bytes))]
              /\ UNCHANGED lost
           \/ buffer' = NoWrite /\ lost' = TRUE
        /\ UNCHANGED fo

-----------------------------------------------------------------------------
Init ==
    /\ pc = "idle"
    /\ patch = NoPatch /\ input = <<>> /\ clean = TRUE
    /\ target = Nothing /\ ninja = Nothing
    /\ fo = "none" /\ buffer = NoWrite
    /\ header = Nothing /\ overflow = Nothing /\ revert = FALSE /\ next = 1
    /\ applied = Applying /\ lost = FALSE

Return(r) == applied' = r /\ pc' = "returned"

\* ApplyPatch with a new output path: the input is copied there, unless there is
\* a file already.
CopyAndApply(p, f) ==
    /\ pc = "idle"
    /\ patch' = p /\ input' = f /\ clean' = (ninja = Nothing)
    /\ IF target = Nothing THEN target' = f /\ pc' = "magic" /\ UNCHANGED applied
       ELSE Return("not_copied") /\ UNCHANGED target
    /\ UNCHANGED <<ninja, stream, locals, lost>>

\* ApplyPatch with the input as the output.
ApplyInPlace(p) ==
    /\ pc = "idle" /\ target # Nothing
    /\ patch' = p /\ input' = target /\ clean' = (ninja = Nothing)
    /\ pc' = "magic"
    /\ UNCHANGED <<files, stream, locals, applied, lost>>

Magic ==
    /\ pc = "magic"
    /\ IF patch.ninja2 THEN pc' = "convert" /\ UNCHANGED applied ELSE Return("wrong_format")
    /\ UNCHANGED <<call, files, stream, locals, lost>>

\* Control code 1: a console type's reader fills ninja.src.
Convert ==
    /\ pc = "convert"
    /\ IF patch.type = "raw" THEN UNCHANGED <<ninja, header, lost>>
       ELSE LET c == Converted(patch.type, target)
            IN  /\ header' = c.header
                /\ \/ ninja' = c.rom /\ UNCHANGED lost
                   \/ /\ \E n \in 0..Len(c.rom) : ninja' = SubSeq(c.rom, 1, n)
                      /\ lost' = TRUE
    /\ pc' = "verify"
    /\ UNCHANGED <<call, target, stream, overflow, revert, next, applied>>

\* A slip: the target is summed although there is a conversion.
SummedTarget == target

\* ninja.src if there is one, whoever left it.
Summed == IF ninja # Nothing THEN ninja ELSE target

Verify ==
    /\ pc = "verify"
    /\ IF Summed \in {patch.smd5, patch.mmd5}
         THEN /\ revert' = (Summed # patch.smd5)
              /\ fo' = IF ninja # Nothing THEN "ninja" ELSE "target"
              /\ pc' = "command" /\ UNCHANGED applied
         ELSE Return("md5_mismatch") /\ UNCHANGED <<revert, fo>>
    /\ UNCHANGED <<call, files, buffer, header, overflow, next, lost>>

Command == patch.commands[next]
MoreCommands == pc = "command" /\ next <= Len(patch.commands)

\* Control code M or A.
ReadOverflow ==
    /\ MoreCommands /\ Command.code = "M"
    /\ overflow' = [k \in 1..Len(Command.bytes) |-> Xor(Command.bytes[k], 3)]
    /\ next' = next + 1
    /\ UNCHANGED <<pc, call, files, stream, header, revert, applied, lost>>

\* The bytes of a command that fread finds none for: sourceBytes keeps what the
\* memory held.
Beyond(c, f) == {k \in 1..Len(c.bytes) : c.offset + k > Len(f)}

XorBytes(c, f, heap) ==
    [k \in 1..Len(c.bytes) |->
       Xor(c.bytes[k], IF k \in Beyond(c, f) THEN heap[k] ELSE f[c.offset + k])]

\* Control code 2.
XorPatch ==
    /\ MoreCommands /\ Command.code = "2"
    /\ \E heap \in [Beyond(Command, Flushed) -> Byte] :
          SeekAndWrite(Command.offset, XorBytes(Command, Flushed, heap))
    /\ next' = next + 1
    /\ UNCHANGED <<pc, call, header, overflow, revert, applied>>

\* fclose(fo)
Close ==
    /\ SetOpenFile(Flushed)
    /\ fo' = "none" /\ buffer' = NoWrite

\* Any other code: the streams are closed, ninja.src stays.
BadCommand ==
    /\ MoreCommands /\ Command.code = "?"
    /\ Close
    /\ Return("bad_patch")
    /\ UNCHANGED <<call, locals, lost>>

\* A slip: the two lengths confused.
OverflowAtOther == IF patch.ssize > patch.msize /\ revert THEN patch.ssize ELSE patch.msize

OverflowAt == IF patch.ssize > patch.msize /\ revert THEN patch.msize ELSE patch.ssize

\* fread(buffer, 1, 1, rup) == 0
PatchEnds == next > Len(patch.commands)

EndOfPatch ==
    /\ pc = "command" /\ PatchEnds
    /\ IF overflow = Nothing THEN UNCHANGED <<files, stream, lost>>
       ELSE SeekAndWrite(OverflowAt, overflow)
    /\ overflow' = Nothing
    /\ pc' = "truncate"
    /\ UNCHANGED <<call, header, revert, next, applied>>

\* ftruncate past the stream's buffer; it may fail.
Truncate ==
    /\ pc = "truncate"
    /\ \/ /\ patch.ssize > patch.msize /\ ~revert
          /\ SetOpenFile(Resized(OnDisk, patch.msize))
       \/ /\ patch.ssize < patch.msize /\ revert
          /\ SetOpenFile(Resized(OnDisk, patch.ssize))
       \/ UNCHANGED files
    /\ pc' = "restore"
    /\ UNCHANGED <<call, stream, locals, applied, lost>>

\* rebuild_unif writes into the target's banks what they have room for, and what
\* lies behind data if that is too short; ninja.src is removed.
RebuildUnif ==
    /\ pc = "restore" /\ header = <<UnifMark>>
    /\ \E heap \in [(Len(Flushed) + 1)..(Len(target) - 1) -> Byte] :
          LET banks == [k \in 1..(Len(target) - 1) |->
                          IF k <= Len(Flushed) THEN Flushed[k] ELSE heap[k]]
          IN  \/ target' = Poke(target, 1, banks) /\ ninja' = Nothing /\ UNCHANGED lost
              \/ /\ \E n \in 0..Len(banks) : target' = Poke(target, 1, SubSeq(banks, 1, n))
                 /\ ninja' \in {Flushed, Nothing}
                 /\ lost' = TRUE
    /\ fo' = "none" /\ buffer' = NoWrite /\ header' = Nothing
    /\ pc' = "rename"
    /\ UNCHANGED <<call, overflow, revert, next, applied>>

\* A slip: the header is lost.
WithoutHeader(f) == f
WithHeader(f) == IF header = Nothing THEN f ELSE header \o f

\* The header is written before everything else, and fo closed.
RestoreHeader ==
    /\ pc = "restore" /\ header # <<UnifMark>>
    /\ \/ SetOpenFile(WithHeader(Flushed)) /\ UNCHANGED lost
       \/ /\ \E n \in 0..Len(WithHeader(Flushed)) :
                SetOpenFile(Poke(Flushed, 0, SubSeq(WithHeader(Flushed), 1, n)))
          /\ lost' = TRUE
    /\ fo' = "none" /\ buffer' = NoWrite /\ header' = Nothing
    /\ pc' = "rename"
    /\ UNCHANGED <<call, overflow, revert, next, applied>>

\* remove(targetName), if there is a ninja.src to take its place.  It may fail.
RemoveTarget ==
    /\ pc = "rename" /\ ninja # Nothing
    /\ target' \in {Nothing, target}
    /\ pc' = "removed"
    /\ UNCHANGED <<call, ninja, stream, locals, applied, lost>>

\* A slip: ninja.src is cleaned up whether it could be renamed or not.
RenameOrDrop ==
    /\ pc = "removed"
    /\ target' \in {ninja, target} /\ ninja' = Nothing
    /\ Return("ok")
    /\ UNCHANGED <<call, stream, locals, lost>>

\* rename("ninja.src", targetName), which fails where the target is on another volume
\* than the temporary directory: both stay as they are, and 0 is returned.
Rename ==
    /\ pc = "removed"
    /\ \/ target' = ninja /\ ninja' = Nothing
       \/ UNCHANGED files
    /\ Return("ok")
    /\ UNCHANGED <<call, stream, locals, lost>>

NoRename ==
    /\ pc = "rename" /\ ninja = Nothing
    /\ Return("ok")
    /\ UNCHANGED <<call, files, stream, locals, lost>>

\* The locals of a call are gone.
Forgotten ==
    /\ pc' = "idle" /\ applied' = Applying
    /\ patch' = NoPatch /\ input' = <<>> /\ clean' = TRUE
    /\ header' = Nothing /\ overflow' = Nothing /\ revert' = FALSE /\ next' = 1
    /\ fo' = "none" /\ buffer' = NoWrite /\ lost' = FALSE

\* The result is shown; the user may remove the output.
Dismiss ==
    /\ pc = "returned"
    /\ Forgotten
    /\ target' \in {target, Nothing}
    /\ UNCHANGED ninja

\* The process ends in the middle: what is buffered is lost, ninja.src is not.
Crash ==
    /\ MayCrash /\ pc \notin {"idle", "returned"}
    /\ Forgotten
    /\ UNCHANGED files

Step ==
    \/ Magic \/ Convert \/ Verify
    \/ ReadOverflow \/ XorPatch \/ BadCommand \/ EndOfPatch
    \/ Truncate \/ RebuildUnif \/ RestoreHeader
    \/ RemoveTarget \/ Rename \/ NoRename

Call ==
    /\ pc = "idle"
    /\ \E p \in Patches : ApplyInPlace(p) \/ \E f \in Inputs : CopyAndApply(p, f)

Next == Call \/ Step \/ Dismiss \/ Crash
Spec == Init /\ [][Next]_vars

-----------------------------------------------------------------------------
(* Properties. *)

\* The bytes the patch leads to, and the file the user is to get.
Wanted == IF revert THEN patch.smd5 ELSE patch.mmd5
WantedFile ==
    LET h == Converted(patch.type, input).header
    IN  IF h = Nothing THEN Wanted ELSE h \o Wanted

\* The patch is the difference of two files, as a NINJA 2 maker writes it: each byte
\* they both have and differ in is in one XOR record, and the tail of the longer one
\* is its overflow.
Common(p) == IF p.ssize < p.msize THEN p.ssize ELSE p.msize
Longer(p) == IF p.ssize > p.msize THEN p.smd5 ELSE p.mmd5
InRecord(c, k) == c.code = "2" /\ c.offset < k /\ k <= c.offset + Len(c.bytes)
IsDifference(p) ==
    /\ \A c \in 1..Len(p.commands) :
          LET r == p.commands[c]
          IN  /\ r.code = "2" => /\ r.offset + Len(r.bytes) <= Common(p)
                                 /\ \A k \in 1..Len(r.bytes) :
                                       r.bytes[k] = Xor(p.smd5[r.offset + k], p.mmd5[r.offset + k])
              /\ r.code = "M" => /\ p.ssize # p.msize
                                 /\ r.bytes = [k \in 1..(Len(Longer(p)) - Common(p)) |->
                                                  Xor(Longer(p)[Common(p) + k], 3)]
    /\ \A k \in 1..Common(p) :
          /\ p.smd5[k] # p.mmd5[k] => \E c \in 1..Len(p.commands) : InRecord(p.commands[c], k)
          /\ \A c, d \in 1..Len(p.commands) :
                InRecord(p.commands[c], k) /\ InRecord(p.commands[d], k) => c = d
    /\ p.ssize # p.msize => \E c \in 1..Len(p.commands) : p.commands[c].code = "M"

Shrinks == IF revert THEN patch.ssize < patch.msize ELSE patch.msize < patch.ssize
UnifResized ==
    Converted(patch.type, input).header = <<UnifMark>> /\ patch.ssize # patch.msize

\* When every write went through, success means that the user has the file the patch
\* leads to, modified or reverted, under the input's own header, whatever was in ninja.src
\* before and whenever the stream's buffer went out: as the output, or, if rename failed,
\* as ninja.src, and then the output is the input as it was or is not there.  What is
\* truncated depends on the order of ftruncate and the flush: files that shrink are left
\* out.
PatchedExactly ==
    applied = "ok" /\ ~lost /\ IsDifference(patch) /\ ~Shrinks /\ ~UnifResized =>
        IF ninja = Nothing THEN target = WantedFile
        ELSE ninja = WantedFile /\ target \in {Nothing, input}

\* The target is not removed before ninja.src is the complete file to replace it, if
\* every write went through: a crash between remove and rename, and a rename that fails,
\* lose no bytes of the result.
ReplacementComplete ==
    pc = "removed" /\ ~lost /\ IsDifference(patch) /\ ~Shrinks => ninja = WantedFile

\* A dump that is converted first survives its patch: at every step, and so after a crash
\* there, and whatever the call returns, the target is the input, or the whole result is
\* the target or in ninja.src.  (A call that could not copy its input has no target of
\* its own.)
DumpSurvives ==
    /\ pc # "idle" /\ applied # "not_copied" /\ patch.type # "raw"
    /\ ~lost /\ IsDifference(patch) /\ ~Shrinks /\ ~UnifResized
    => target = input \/ WantedFile \in {target, ninja}

\* Without a ninja.src left by an earlier call, and with its own written whole, the
\* verdict is about the input: it is accepted exactly if it is the original or the modified
\* file.  A file that is turned down is left as it was.
VerdictExact ==
    /\ clean /\ ~lost /\ applied = "md5_mismatch" =>
          Converted(patch.type, input).rom \notin {patch.smd5, patch.mmd5}
    /\ clean /\ ~lost /\ applied \in {"ok", "bad_patch"} =>
          Converted(patch.type, input).rom \in {patch.smd5, patch.mmd5}
    /\ applied \in {"md5_mismatch", "wrong_format"} => target = input
=============================================================================
