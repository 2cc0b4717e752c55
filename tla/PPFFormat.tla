----------------------------- MODULE PPFFormat -----------------------------
(***************************************************************************)
(* PPF patch files: what ppfdev/makeppf3_linux.c writes and                *)
(* ppfdev/applyppf3_linux.c reads.  A patch is a header, 1024 bytes of the *)
(* file it is for (the validation block), records that overwrite, and an   *)
(* optional file_id.diz text.                                              *)
(***************************************************************************)
EXTENDS ByteFiles

CONSTANTS
    MaxRun,     \* the most bytes a record holds (255)
    BlockAt,    \* where the validation block is, by image type (0x9320, 0x80A0)
    BlockLen    \* how long it is (1024)

ASSUME FormatAssumption ==
    /\ MaxRun \in Nat \ {0}
    /\ BlockAt \in [0..1 -> Nat]
    /\ BlockLen \in Nat \ {0}

Block == 0..(BlockLen - 1)
NoFileId == -1

\* A record as it is made: data goes to offset; old, the bytes it replaces, is there
\* when the patch holds undo data.
Records == [offset : Nat, data : Seq(Byte), old : Seq(Byte)]

\* fread of the validation block of f into memory that held before: a file that
\* ends early leaves the rest of that memory as it was.
BlockOf(f, at, before) ==
    [j \in Block |-> IF at + j < f.size THEN f.data[at + j] ELSE before[j]]

\* fwrite of bytes at offset: behind the end the file grows, over a hole of zeros.
Written(f, offset, bytes) ==
    LET n == Len(bytes)
        size == IF n > 0 /\ offset + n > f.size THEN offset + n ELSE f.size
    IN  [size |-> size,
         data |-> [i \in 0..(size - 1) |->
                     CASE i >= offset /\ i < offset + n -> bytes[i - offset + 1]
                       [] OTHER -> IF i < f.size THEN f.data[i] ELSE 0]]

-----------------------------------------------------------------------------
(* Sizes in bytes. *)

OffsetLen(version) == IF version = 3 THEN 8 ELSE 4

HeaderSize(p) ==
    CASE p.version = 1 -> 56
      [] p.version = 2 -> 60 + BlockLen
      [] OTHER -> 60 + p.blockcheck * BlockLen

RecordSize(p, r) == OffsetLen(p.version) + 1 + Len(r.data) + p.undo * Len(r.data)

\* The first n records.
RecordBytes(p) ==
    LET sum[n \in 0..Len(p.records)] ==
          IF n = 0 THEN 0 ELSE sum[n - 1] + RecordSize(p, p.records[n])
    IN  sum

\* @BEGIN_FILE_ID.DIZ, @END_FILE_ID.DIZ and the length around the text.
IdFrame(version) == 18 + 16 + (IF version = 2 THEN 4 ELSE 2)

\* The whole patch; torn bytes of the last record's data are missing from it.
PatchSize(p) ==
    HeaderSize(p) + RecordBytes(p)[Len(p.records)] - p.torn
      + (IF p.fileid = NoFileId THEN 0 ELSE p.fileid + IdFrame(p.version))
=============================================================================
