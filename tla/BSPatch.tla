------------------------------ MODULE BSPatch ------------------------------
(***************************************************************************)
(* bspatch_perform of bsdiff/bspatch.c: a BSDIFF40 patch applied to a file *)
(* src.  The patch and the file are whatever the user picked: a patch may  *)
(* be corrupt, and nothing in it names the file it was made from.          *)
(***************************************************************************)
EXTENDS ByteFiles

CONSTANTS Patches   \* the patch files there are besides one just created

ASSUME PatchesAssumption ==
    \A p \in Patches :
        /\ p.magic \in BOOLEAN
        /\ p.newsize \in Int
        /\ p.ctrl \in Seq([add : Int, copy : Int, seek : Int])
        /\ p.diff \in Seq(Byte) /\ p.extra \in Seq(Byte)

VARIABLES
    apc,                    \* where bspatch_perform is
    patch, src,             \* the patch and the old file
    oldpos, newpos,
    cat, dat, eat,          \* how much of each block has been read
    out,                    \* the malloc'ed new file
    target,                 \* what is at the output path
    applied                 \* the return value, NoResult or Exited

patchInput == <<patch, src>>
progress   == <<oldpos, newpos, cat, dat, eat, out>>
applyVars  == <<apc, patchInput, progress, target, applied>>

Unset == -1                 \* a byte of malloc'ed memory nobody wrote
Exited == -2                \* err(1,NULL): the whole process is gone
Untouched == [size |-> -1, data |-> <<>>]   \* the output path as it was
Partial   == [size |-> -2, data |-> <<>>]   \* truncated, not written in full

NoPatch == [magic |-> FALSE, newsize |-> 0, ctrl |-> <<>>, diff |-> <<>>, extra |-> <<>>]
NoSource == [size |-> 0, data |-> [i \in {} |-> 0]]

-----------------------------------------------------------------------------
ApplyInit ==
    /\ apc = "idle"
    /\ patch = NoPatch /\ src = NoSource
    /\ oldpos = 0 /\ newpos = 0 /\ cat = 0 /\ dat = 0 /\ eat = 0
    /\ out = [i \in {} |-> Unset]
    /\ target = Untouched
    /\ applied = NoResult

\* The call.
Begin(p, s) ==
    /\ apc = "idle"
    /\ patch' = p /\ src' = s
    /\ apc' = "header"
    /\ UNCHANGED <<progress, target, applied>>

Return(r) ==
    /\ applied' = r
    /\ apc' = "returned"
    /\ UNCHANGED <<patchInput, progress, target>>

HeaderGood == patch.magic /\ patch.newsize >= 0

\* A slip: the output is opened, and truncated, along with the inputs.
ReadHeaderAndTruncate ==
    /\ apc = "header" /\ HeaderGood
    /\ out' = [i \in 0..(patch.newsize - 1) |-> Unset]
    /\ target' = Partial
    /\ apc' = "triples"
    /\ UNCHANGED <<patchInput, oldpos, newpos, cat, dat, eat, applied>>

\* The header is right and the three streams and the old file can be read.
ReadHeader ==
    /\ apc = "header" /\ HeaderGood
    /\ out' = [i \in 0..(patch.newsize - 1) |-> Unset]
    /\ apc' = "triples"
    /\ UNCHANGED <<patchInput, oldpos, newpos, cat, dat, eat, target, applied>>

\* Not a BSDIFF40 header, or a negative length in it.
BadHeader == apc = "header" /\ ~HeaderGood /\ Return(2)

\* One of the files cannot be opened or read.
ReadFails == apc = "header" /\ Return(1)

\* malloc(newsize+1) fails: err() ends the process.
NoMemory == apc = "header" /\ HeaderGood /\ Return(Exited)

\* A slip: the last byte of a block counts as missing.
CanReadBefore(block, at, n) == n >= 0 /\ at + n < Len(block)

\* BZ2_bzRead(.., n) delivers n bytes from offset at of a block: a negative n
\* is BZ_PARAM_ERROR, too large a one comes back short.
CanRead(block, at, n) == n >= 0 /\ at + n <= Len(block)

\* The old byte added at oldpos+i, none outside of the file.
OldByte(i) == IF i >= 0 /\ i < src.size THEN src.data[i] ELSE 0

FilledButOne == newpos >= patch.newsize - 1

\* The loop is over: while(newpos<newsize).
Filled == newpos >= patch.newsize

\* Both sanity checks and all three reads of one turn of the loop succeed.
TripleGood(t) ==
    /\ newpos + t.add <= patch.newsize
    /\ CanRead(patch.diff, dat, t.add)
    /\ newpos + t.add + t.copy <= patch.newsize
    /\ CanRead(patch.extra, eat, t.copy)

\* One turn: add the diff string to the old bytes, copy the extra string, seek.
ApplyTriple ==
    /\ apc = "triples" /\ ~Filled
    /\ cat < Len(patch.ctrl)
    /\ LET t == patch.ctrl[cat + 1]
       IN  /\ TripleGood(t)
           /\ out' = [i \in DOMAIN out |->
                        IF i < newpos \/ i >= newpos + t.add + t.copy THEN out[i]
                        ELSE IF i < newpos + t.add
                        THEN (patch.diff[dat + 1 + (i - newpos)]
                                + OldByte(oldpos + (i - newpos))) % 256
                        ELSE patch.extra[eat + 1 + (i - newpos - t.add)]]
           /\ newpos' = newpos + t.add + t.copy
           /\ oldpos' = oldpos + t.add + t.seek
           /\ cat' = cat + 1
           /\ dat' = dat + t.add
           /\ eat' = eat + t.copy
    /\ UNCHANGED <<apc, patchInput, target, applied>>

\* The control block is exhausted, or a triple fails a check or a read.
CorruptTriple ==
    /\ apc = "triples" /\ ~Filled
    /\ \/ cat = Len(patch.ctrl)
       \/ cat < Len(patch.ctrl) /\ ~TripleGood(patch.ctrl[cat + 1])
    /\ Return(2)

\* The output is opened, truncated and written in one go.
WriteNew ==
    /\ apc = "triples" /\ Filled
    /\ target' = [size |-> patch.newsize, data |-> out]
    /\ applied' = 0
    /\ apc' = "returned"
    /\ UNCHANGED <<patchInput, progress>>

\* The output cannot be opened, or is truncated and then not written in full.
WriteNewFails ==
    /\ apc = "triples" /\ Filled
    /\ target' \in {Untouched, Partial}
    /\ applied' = 1
    /\ apc' = "returned"
    /\ UNCHANGED <<patchInput, progress>>

ApplyStep ==
    \/ ReadHeader \/ BadHeader \/ ReadFails \/ NoMemory
    \/ ApplyTriple \/ CorruptTriple
    \/ WriteNew \/ WriteNewFails

\* The user applies some patch to some file.
Apply == apc = "idle" /\ \E p \in Patches, s \in Files : Begin(p, s)

ApplyNext == Apply \/ ApplyStep

ApplySpec == ApplyInit /\ [][ApplyNext]_applyVars

-----------------------------------------------------------------------------

\* new is malloc'ed and filled triple by triple (bspatch.c:156, 175): whatever
\* the triples of the patch are, a file that is written holds no byte of
\* memory the patch did not fill.
NothingUninitialised ==
    applied = 0 => \A i \in DOMAIN target.data : target.data[i] # Unset

\* A patch found corrupt has not touched the output path, which may be the old
\* file itself: the output is opened only after the last triple.
CorruptLeavesTarget == applied = 2 => target = Untouched
=============================================================================
