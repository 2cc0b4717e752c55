----------------------------- MODULE PPFCreate -----------------------------
(***************************************************************************)
(* makePPF of ppfdev/makeppf3_linux.c: the two files are read a chunk at a *)
(* time, and every run of bytes that differ within a chunk is written as   *)
(* one or more records.  Arg, which makePPF fills with fixed values and    *)
(* makeppf3_main from switches, is an input.                               *)
(***************************************************************************)
EXTENDS PPFFormat

CONSTANTS
    ChunkSize,  \* eightmb, the bytes read at a time (1048576)
    Args,       \* Arg: [undo, blockcheck, imagetype, fileid]
    Junk        \* bytes that memory nobody wrote may hold

ASSUME CreateAssumption ==
    /\ ChunkSize \in Nat \ {0}
    /\ Junk \subseteq Byte
    /\ \A a \in Args : /\ a.undo \in 0..1 /\ a.blockcheck \in 0..1
                       /\ a.imagetype \in 0..1
                       /\ a.fileid \in Nat \cup {NoFileId}

VARIABLES
    cpc,            \* where makePPF is
    bin, mod, arg,  \* the original, the modified file, the options
    header,         \* the validation block in the patch
    records,        \* the records in the patch
    fileid,         \* the length of the file_id.diz text in the patch
    y,              \* the malloc'ed buffer mod is read into
    chunk, amount,  \* the chunk's offset, its length
    i,              \* the byte WriteChanges looks at
    made            \* the return value

makeInput == <<bin, mod, arg>>
patchFile == <<header, records, fileid>>
scanVars  == <<y, chunk, amount, i>>
makeVars  == <<cpc, makeInput, patchFile, scanVars, made>>

\* ppf3.h
Running == 99
FAILED_TO_OPEN == -1
WRONG_INPUT_SIZE == -2
FAILED_TO_CREATE == -6
HEADER_FAILED == -7
OUT_OF_MEMORY == -8

NoFile == [size |-> 0, data |-> [j \in {} |-> 0]]
Chunk == 0..(ChunkSize - 1)

-----------------------------------------------------------------------------
MakeInit ==
    /\ cpc = "idle"
    /\ bin = NoFile /\ mod = NoFile
    /\ arg = [undo |-> 0, blockcheck |-> 1, imagetype |-> 0, fileid |-> NoFileId]
    /\ header = [j \in Block |-> 0] /\ records = <<>> /\ fileid = NoFileId
    /\ y = [j \in Chunk |-> 0] /\ chunk = 0 /\ amount = 0 /\ i = 0
    /\ made = Running

\* The call, with what its local and malloc'ed memory happens to hold.
MakePPF(o, m, a, stack, heap) ==
    /\ cpc = "idle"
    /\ bin' = o /\ mod' = m /\ arg' = a
    /\ header' = stack /\ y' = heap
    /\ cpc' = "open"
    /\ UNCHANGED <<records, fileid, chunk, amount, i, made>>

MakeReturn(r) ==
    /\ made' = r
    /\ cpc' = "made"
    /\ UNCHANGED <<makeInput, patchFile, scanVars>>

\* The two sizes OpenFilesForCreate compares: both are taken of bin.
ComparedSizes == <<bin.size, bin.size>>

Refuses == ComparedSizes[1] # ComparedSizes[2]

OpenFilesForCreate ==
    /\ cpc = "open"
    /\ IF Refuses THEN MakeReturn(WRONG_INPUT_SIZE)
       ELSE /\ cpc' = "header"
            /\ UNCHANGED <<makeInput, patchFile, scanVars, made>>

OpenFails == cpc = "open" /\ \E r \in {FAILED_TO_OPEN, FAILED_TO_CREATE} : MakeReturn(r)

\* A slip: the two image types' offsets are swapped.
BlockPlaceSwapped == BlockAt[1 - arg.imagetype]

BlockPlace == BlockAt[arg.imagetype]

\* The header and, with blockcheck, the validation block: a file that ends
\* before or in the block leaves what the stack held in the patch.
PPFCreateHeader ==
    /\ cpc = "header"
    /\ header' = IF arg.blockcheck = 1
                   THEN BlockOf(bin, BlockPlace, header) ELSE header
    /\ cpc' = "changes"
    /\ UNCHANGED <<makeInput, records, fileid, scanVars, made>>

HeaderFails == cpc = "header" /\ MakeReturn(HEADER_FAILED)

NoMemory == cpc = "changes" /\ MakeReturn(OUT_OF_MEMORY)

EmptyBin == cpc = "changes" /\ bin.size = 0 /\ MakeReturn(WRONG_INPUT_SIZE)

StartChanges ==
    /\ cpc = "changes" /\ bin.size # 0
    /\ cpc' = "read"
    /\ UNCHANGED <<makeInput, patchFile, scanVars, made>>

\* Up to a chunk of bin, and as much of mod if it has that much: otherwise y
\* keeps what it held.
ReadChunk ==
    /\ cpc = "read" /\ chunk < bin.size
    /\ amount' = Least(ChunkSize, bin.size - chunk)
    /\ y' = [j \in Chunk |-> IF j < amount' /\ chunk + j < mod.size
                               THEN mod.data[chunk + j] ELSE y[j]]
    /\ i' = 0
    /\ cpc' = "scan"
    /\ UNCHANGED <<makeInput, patchFile, chunk, made>>

Differs(j) == bin.data[chunk + j] # y[j]

SameByte ==
    /\ cpc = "scan" /\ i < amount /\ ~Differs(i)
    /\ i' = i + 1
    /\ UNCHANGED <<cpc, makeInput, patchFile, y, chunk, amount, made>>

\* The do..while over k.
RunLength ==
    CHOOSE k \in 1..MaxRun :
        /\ \A j \in 1..(k - 1) : i + j < amount /\ Differs(i + j)
        /\ ~(i + k < amount /\ Differs(i + k) /\ k # MaxRun)

\* A slip: without the i-- after a full record.
AfterSkipping(k) == i + k + 1

\* The byte after a run is equal and is skipped, unless the run was cut at
\* MaxRun: then i-- makes the loop look at it again.
After(k) == IF k = MaxRun THEN i + k ELSE i + k + 1

RecordOffset == chunk + i

\* A slip: the undo data is taken of y, as the record's data is.
UndoOfMod(k) == [j \in 1..k |-> y[i + j - 1]]

UndoData(k) == [j \in 1..k |-> bin.data[chunk + i + j - 1]]

WriteRecord ==
    /\ cpc = "scan" /\ i < amount /\ Differs(i)
    /\ LET k == RunLength
       IN  /\ records' = Append(records,
                 [offset |-> RecordOffset,
                  data |-> [j \in 1..k |-> y[i + j - 1]],
                  old |-> IF arg.undo = 1 THEN UndoData(k) ELSE <<>>])
           /\ i' = After(k)
    /\ UNCHANGED <<cpc, makeInput, header, fileid, y, chunk, amount, made>>

ChunkDone ==
    /\ cpc = "scan" /\ i >= amount
    /\ chunk' = chunk + ChunkSize
    /\ cpc' = "read"
    /\ UNCHANGED <<makeInput, patchFile, y, amount, i, made>>

\* fread of bin delivers nothing: the file is through.
BinDone ==
    /\ cpc = "read" /\ chunk >= bin.size
    /\ arg.fileid = NoFileId
    /\ MakeReturn(0)

PPFAddFileId ==
    /\ cpc = "read" /\ chunk >= bin.size
    /\ arg.fileid # NoFileId
    /\ fileid' = arg.fileid
    /\ made' = 0
    /\ cpc' = "made"
    /\ UNCHANGED <<makeInput, header, records, scanVars>>

FileIdFails ==
    /\ cpc = "read" /\ chunk >= bin.size
    /\ arg.fileid # NoFileId
    /\ MakeReturn(1)

MakeStep ==
    \/ OpenFilesForCreate \/ OpenFails
    \/ PPFCreateHeader \/ HeaderFails
    \/ NoMemory \/ EmptyBin \/ StartChanges
    \/ ReadChunk \/ SameByte \/ WriteRecord \/ ChunkDone
    \/ BinDone \/ PPFAddFileId \/ FileIdFails

MakeCall ==
    /\ cpc = "idle"
    /\ \E o, m \in Files, a \in Args : 
         \E stack \in [Block -> Junk], heap \in [Chunk -> Junk] :
            MakePPF(o, m, a, stack, heap)

-----------------------------------------------------------------------------
(* Properties. *)

\* The offset behind the last byte that has been compared.
Compared ==
    IF cpc = "scan" THEN chunk + Least(i, amount) ELSE Least(chunk, bin.size)

Covers(r, p) == r.offset <= p /\ p < r.offset + Len(r.data)

\* The loops of PPFGetChanges and WriteChanges, with their chunks, their limit
\* of 255 bytes a record and their stepping back and skipping, record exactly
\* the bytes compared so far that the two files both have and that differ,
\* with the modified byte and, for undo, the original one.
RecordsAreDifferences ==
    \A p \in 0..(Least(Compared, mod.size) - 1) :
        /\ (bin.data[p] # mod.data[p]) <=> (\E n \in 1..Len(records) : Covers(records[n], p))
        /\ \A n \in 1..Len(records) :
              Covers(records[n], p) =>
                LET at == p - records[n].offset + 1
                IN  /\ records[n].data[at] = mod.data[p]
                    /\ arg.undo = 1 => records[n].old[at] = bin.data[p]

\* Records hold 1 to 255 bytes of the original's length, ascend without
\* overlapping, and touch only where the limit or the end of a chunk cut a run.
RecordsInOrder ==
    \A n \in 1..Len(records) :
        LET end == records[n].offset + Len(records[n].data)
        IN  /\ Len(records[n].data) \in 1..MaxRun
            /\ end <= bin.size
            /\ n < Len(records) => end <= records[n + 1].offset
            /\ (n < Len(records) /\ end = records[n + 1].offset) =>
                  Len(records[n].data) = MaxRun \/ end % ChunkSize = 0
=============================================================================
