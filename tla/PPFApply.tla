------------------------------ MODULE PPFApply ------------------------------
(***************************************************************************)
(* applyPPF of ppfdev/applyppf3_linux.c behind PPFAdapter's ApplyPatch:    *)
(* the adapter copies the input to the output path, applyPPF overwrites    *)
(* the copy in place.  The loop over the records ends when the bytes that  *)
(* are left, count, come to zero.  mode is APPLY for the adapter; UNDO is  *)
(* what applyppf3_main's command u passes.                                 *)
(*                                                                         *)
(* No result of fseeko64, fwrite or fclose is looked at: an offset that    *)
(* cannot be sought leaves the stream where it stands, and bytes that      *)
(* cannot be written are missing.                                          *)
(***************************************************************************)
EXTENDS PPFFormat

CONSTANTS
    Patches,    \* the patches there are besides one just created
    Answers,    \* to "continue ? (y/n)": {"n"} in a build with NO_PRINTF
    Room        \* the size to which a file can grow

\* Records as they are read: the offset is a signed number of 32 or 64 bits.
Readable == [offset : Int, data : Seq(Byte), old : Seq(Byte)]

ASSUME ApplyAssumption ==
    /\ \A p \in Patches :
          /\ p.version \in 0..3
          /\ p.imagetype \in 0..1 /\ p.blockcheck \in 0..1 /\ p.undo \in 0..1
          /\ p.block \in [Block -> Byte] /\ p.binlen \in Nat
          /\ p.records \in Seq(Readable)
          /\ p.undo = 1 => \A n \in 1..Len(p.records) :
                              Len(p.records[n].old) = Len(p.records[n].data)
          /\ p.version # 3 => p.undo = 0 /\ p.imagetype = 0
          /\ p.version = 1 => p.fileid = NoFileId
          /\ p.fileid \in Nat \cup {NoFileId} /\ p.torn \in Nat
    /\ "n" \in Answers /\ Answers \subseteq {"n", "y"}
    /\ Room \in Nat

VARIABLES
    ppc,            \* where applyPPF is
    patch, input,   \* the patch, the file to patch
    mode,
    output,         \* what is at the output path
    binblock,       \* the static buffer the validation block is read into
    count,          \* bytes of records left
    next,           \* the record the patch stream stands at
    place,          \* where the stream bin stands
    applied,        \* the return value
    overruled,      \* history: the user went on with a validation that failed
    lost            \* history: bytes did not get through to the output

applyInput == <<patch, input, mode>>
loopVars   == <<count, next, place, lost>>
applyVars  == <<ppc, applyInput, output, binblock, loopVars, applied, overruled>>

\* ppf3.h, and the adapter's own message when it cannot copy.
Applying == 99
OPEN_FAILED == -1
WRONG_SIZE == -2
VALIDATION_FAILED == -3
NO_UNDO_DATA == -4
VERSION_UNSUPPORTED == -5
NOT_COPIED == -9

Absent == [size |-> -1, data |-> [j \in {} |-> 0]]
NoInput == [size |-> 0, data |-> [j \in {} |-> 0]]
NoPatch ==
    [version |-> 0, imagetype |-> 0, blockcheck |-> 0, undo |-> 0,
     block |-> [j \in Block |-> 0], binlen |-> 0, records |-> <<>>,
     fileid |-> NoFileId, torn |-> 0]

-----------------------------------------------------------------------------
ApplyInit ==
    /\ ppc = "idle"
    /\ patch = NoPatch /\ input = NoInput /\ mode = "APPLY"
    /\ output = Absent
    /\ binblock = [j \in Block |-> 0]
    /\ count = 0 /\ next = 1 /\ place = 0
    /\ applied = Applying /\ overruled = FALSE /\ lost = FALSE

ApplyReturn(r) ==
    /\ applied' = r
    /\ ppc' = "returned"
    /\ UNCHANGED <<applyInput, output, binblock, loopVars, overruled>>

\* ApplyPatch with different input and output paths: copyItemAtPath makes the
\* output, and fails when there is something at its path already.
CopyAndApply(p, f) ==
    /\ ppc = "idle"
    /\ patch' = p /\ input' = f /\ mode' = "APPLY"
    /\ IF output = Absent
         THEN output' = f /\ ppc' = "open" /\ applied' = Applying
         ELSE output' = output /\ ppc' = "returned" /\ applied' = NOT_COPIED
    /\ UNCHANGED <<binblock, loopVars, overruled>>

\* The file that is at the output path is patched, or unpatched, in place.
InPlace(p, how) ==
    /\ ppc = "idle" /\ output # Absent
    /\ patch' = p /\ input' = output /\ mode' = how
    /\ ppc' = "open" /\ applied' = Applying
    /\ UNCHANGED <<output, binblock, loopVars, overruled>>

\* Undo is supported by PPF3.0 only.
Unsupported == patch.version = 0 \/ (mode = "UNDO" /\ patch.version # 3)

\* A slip: the file to patch is opened for writing, not for update.
OpenFilesEmptied ==
    /\ ppc = "open"
    /\ ppc' = IF patch.version = 2 THEN "size" ELSE IF patch.version = 3 THEN "undo" ELSE "start"
    /\ output' = [size |-> 0, data |-> [j \in {} |-> 0]]
    /\ UNCHANGED <<applyInput, binblock, loopVars, applied, overruled>>

OpenFiles ==
    /\ ppc = "open"
    /\ IF Unsupported THEN ApplyReturn(VERSION_UNSUPPORTED)
       ELSE /\ ppc' = IF patch.version = 2 THEN "size"
                      ELSE IF patch.version = 3 THEN "undo" ELSE "start"
            /\ UNCHANGED <<applyInput, output, binblock, loopVars, applied, overruled>>

OpenFilesFails == ppc = "open" /\ ApplyReturn(OPEN_FAILED)

GoOn(to) ==
    /\ ppc' = to
    /\ UNCHANGED <<applyInput, output, binblock, loopVars, applied, overruled>>

\* ApplyPPF2Patch: obinlen!=binlen.
CheckSize ==
    /\ ppc = "size"
    /\ \/ patch.binlen = output.size /\ GoOn("block")
       \/ /\ patch.binlen # output.size
          /\ \/ "y" \in Answers /\ GoOn("block")
             \/ ApplyReturn(WRONG_SIZE)

\* ApplyPPF3Patch: mode==UNDO and no undo data.
CheckUndo ==
    /\ ppc = "undo"
    /\ IF mode = "UNDO" /\ patch.undo = 0 THEN ApplyReturn(NO_UNDO_DATA)
       ELSE GoOn(IF patch.blockcheck = 1 THEN "block" ELSE "start")

\* A slip: the answer to a failed comparison is not looked at.
AnswerIgnored(same, answer) == same \/ answer \in {"n", "y"}

\* The comparison succeeds, or fails and the user goes on nevertheless.
BlockAccepted(same, answer) == same \/ answer = "y"

\* The validation block: a file too short for it leaves in binblock what an
\* earlier call read.  The stream stands behind what was read of it, or, for a write
\* with no seek in between, behind what stdio has read ahead.
CheckBlock ==
    /\ ppc = "block"
    /\ binblock' = BlockOf(output, BlockAt[patch.imagetype], binblock)
    /\ LET from == BlockAt[patch.imagetype]
           end  == IF from < output.size THEN Least(from + BlockLen, output.size) ELSE from
       IN  place' \in {end} \cup end..output.size
    /\ LET same == binblock' = patch.block
       IN  \E answer \in Answers :
             /\ IF BlockAccepted(same, answer)
                  THEN ppc' = "start" /\ applied' = applied
                  ELSE ppc' = "returned" /\ applied' = VALIDATION_FAILED
             /\ overruled' = (~same /\ answer = "y")
    /\ UNCHANGED <<applyInput, output, count, next, lost>>

\* ShowFileId returns the length of the text, 0 also where there is none: a
\* PPF1.0 patch is not asked for one.
FileIdBytes ==
    IF patch.version = 1 \/ patch.fileid <= 0 THEN 0
    ELSE patch.fileid + IdFrame(patch.version)

StartRecords ==
    /\ ppc = "start"
    /\ count' = PatchSize(patch) - HeaderSize(patch) - FileIdBytes
    /\ next' = 1
    /\ ppc' = "records"
    /\ UNCHANGED <<applyInput, output, binblock, place, applied, overruled, lost>>

\* A record lies in the patch in full.
Whole(n) == n <= Len(patch.records) /\ (n = Len(patch.records) => patch.torn = 0)

\* A slip: the loop ends when less is left than the fixed part of a record.
LoopOverEarly(c) == c <= 9

\* What the loop takes off count for a record.
RecordCount(r) == Len(r.data) + OffsetLen(patch.version) + 1 + patch.undo * Len(r.data)

LoopOver(c) == c = 0

\* fseeko64(bin, offset): a negative offset cannot be sought, nor can any while bytes
\* written before cannot be flushed.
Sought(offset) ==
    IF offset < 0 THEN {place} ELSE IF lost THEN {offset, place} ELSE {offset}

\* fwrite at the place from: the first n bytes get through, all of them or fewer, now
\* or at the next flush or fclose.
WriteAt(from, bytes) ==
    \E n \in 0..Len(bytes) :
        /\ n > 0 => from + n <= Room
        /\ output' = Written(output, from, SubSeq(bytes, 1, n))
        /\ place' = from + n
        /\ lost' = (lost \/ n < Len(bytes))

\* One turn of do..while(count!=0).
ApplyRecord ==
    /\ ppc = "records" /\ Whole(next)
    /\ LET r == patch.records[next]
       IN  /\ \E from \in Sought(r.offset) :
                 WriteAt(from, IF mode = "UNDO" THEN r.old ELSE r.data)
           /\ count' = count - RecordCount(r)
    /\ next' = next + 1
    /\ IF LoopOver(count') THEN ppc' = "returned" /\ applied' = 0
       ELSE UNCHANGED <<ppc, applied>>
    /\ UNCHANGED <<applyInput, binblock, overruled>>

\* There is no record left and count is not zero: fread delivers nothing, part
\* of a record or text, and the loop goes on with what its variables hold.  A
\* record of which nothing is read repeats the one before it, at its offset if that
\* can be sought.  Elsewhere a byte of the file may be overwritten (the writes behind
\* its end are left out).
Repeats == /\ patch.torn = 0 /\ patch.fileid = NoFileId /\ ~lost
           /\ IF patch.records = <<>> THEN patch.version = 3
              ELSE patch.records[Len(patch.records)].offset >= 0

RunOn ==
    /\ ppc \in {"records", "beyond"} /\ ~Whole(next)
    /\ \/ output' = output
       \/ ~Repeats /\ \E at \in 0..(output.size - 1), b \in {0, 1} : output' = Written(output, at, <<b>>)
    /\ ppc' = "beyond"
    /\ UNCHANGED <<applyInput, binblock, loopVars, applied, overruled>>

\* The unsigned 32-bit count of PPF1.0 and 2.0 comes round to zero.
Wraps ==
    /\ ppc = "beyond" /\ patch.version \in 1..2
    /\ ApplyReturn(0)

ApplyStep ==
    \/ OpenFiles \/ OpenFilesFails
    \/ CheckSize \/ CheckUndo \/ CheckBlock
    \/ StartRecords \/ ApplyRecord \/ RunOn \/ Wraps

ApplyCall ==
    /\ ppc = "idle"
    /\ \E p \in Patches :
          \/ \E f \in Files : CopyAndApply(p, f)
          \/ \E how \in {"APPLY", "UNDO"} : InPlace(p, how)

\* The result is shown; with the call its locals are gone, the statics stay.  The
\* user may remove what is at the output path.
Dismiss ==
    /\ ppc = "returned"
    /\ ppc' = "idle" /\ applied' = Applying
    /\ patch' = NoPatch /\ input' = NoInput /\ mode' = "APPLY"
    /\ count' = 0 /\ next' = 1 /\ place' = 0 /\ overruled' = FALSE /\ lost' = FALSE
    /\ output' \in {output, Absent}
    /\ UNCHANGED binblock

ApplyNext == ApplyCall \/ Dismiss \/ ApplyStep
ApplySpec == ApplyInit /\ [][ApplyNext]_applyVars

-----------------------------------------------------------------------------
(* Properties. *)

\* A patch the loop can get to the end of: it has records, all of them whole,
\* and no file_id.diz without text (whose length 0 counts as none).
Endable(p) == p.records # <<>> /\ p.torn = 0 /\ p.fileid # 0

\* Every offset can be sought.
Placeable(p) == \A n \in 1..Len(p.records) : p.records[n].offset >= 0

\* The byte at p after all records: the last one that covers it has it.
Expected(f, p, how) ==
    LET recs == patch.records
        Covering == {n \in 1..Len(recs) :
                       recs[n].offset <= p /\ p < recs[n].offset + Len(recs[n].data)}
    IN  IF Covering = {} THEN (IF p < f.size THEN f.data[p] ELSE 0)
        ELSE LET n == CHOOSE n \in Covering : \A k \in Covering : k <= n
                 bytes == IF how = "UNDO" THEN recs[n].old ELSE recs[n].data
             IN  bytes[p - recs[n].offset + 1]

\* count, which starts from the size of the patch file and what ShowFileId says,
\* reaches zero after the last record and not before: success is reported only when
\* every record has had its turn, whatever the fields of the patch hold.  If their
\* offsets are not negative and the writes got through, every byte is then as the
\* records say, in whatever order they come and overlap.
AppliedInFull ==
    ppc = "returned" /\ applied = 0 /\ Endable(patch) =>
        /\ next > Len(patch.records)
        /\ Placeable(patch) /\ ~lost =>
              \A p \in 0..(output.size - 1) : output.data[p] = Expected(input, p, mode)

\* A call that ends in one of applyPPF's errors leaves the copy, or the file
\* patched in place, byte for byte as it was.
RefusedUntouched ==
    ppc = "returned" /\ applied \in -5..-1 => output = input

\* Unless the user overrules it, what a file has of the validation block is compared:
\* a patch is not applied to a file that differs there, stale buffer or not.
ValidatedWhatIsThere ==
    LET at == BlockAt[patch.imagetype]
    IN  ppc = "returned" /\ applied = 0 /\ ~overruled
          /\ (patch.version = 2 \/ (patch.version = 3 /\ patch.blockcheck = 1))
        => \A j \in Block : at + j < input.size => input.data[at + j] = patch.block[j]
=============================================================================
