------------------------------ MODULE XDBlocks ------------------------------
(***************************************************************************)
(* The blocks of the source the xdelta3 command keeps in memory            *)
(* (xdelta3-blkcache.h).  One buffer of SrcWinSize bytes is one block when  *)
(* the source is known to fit into it; otherwise it is cut into MaxLru      *)
(* blocks, kept by recent use or, for a scan from front to back, in a ring. *)
(*                                                                         *)
(* A block in memory is [blkno, at, size]: its label, and the part of the   *)
(* file that its bytes came from.  What the functions here change is one    *)
(* record, st, with the return code of the last call in st.ret.             *)
(***************************************************************************)
EXTENDS Integers, Sequences, SequencesExt

CONSTANTS
    SrcWinSize,  \* option_srcwinsz, a power of two
    MaxLru,      \* MAX_LRU_SIZE
    AllocSize    \* XD3_ALLOCSIZE, how much of a file is looked at first

ASSUME BlocksAssumption ==
    /\ SrcWinSize \in Nat \ {0} /\ MaxLru \in Nat \ {0}
    /\ SrcWinSize % MaxLru = 0 /\ AllocSize \in Nat \ {0}

Invalid == -1   \* XD3_INVALID_OFFSET
NoBlock == [blkno |-> Invalid, at |-> 0, size |-> 0]
AtMost(a, b) == IF a < b THEN a ELSE b

Returned(st, code) == [st EXCEPT !.ret = code]

(* A file is [length, regular, seeks, good]: is it a regular file, can it be *)
(* positioned, and from which byte on does reading it fail.                 *)

\* The number of bytes main_read_primary_input returns, asked for size at the
\* offset: -1 for an error.  The first read of all is one of AllocSize bytes, to
\* look for a compressed file, and one of the rest, whose error is dropped
\* (main_secondary_decompress_check): what was looked at is returned.
Nread(file, offset, size, first) ==
    LET n    == IF offset < file.length THEN AtMost(size, file.length - offset) ELSE 0
        look == AtMost(n, AllocSize)
    IN  IF offset + n <= file.good THEN n
        ELSE IF first /\ offset + look <= file.good THEN look
        ELSE -1

\* Slot i after a read of n bytes into it.
FilledAt(st, i, n, label) ==
    [st EXCEPT !.slots[i] = [blkno |-> label, at |-> st.offset, size |-> n],
               !.offset = @ + n]

-----------------------------------------------------------------------------
(* main_getblk_lru: st with the slot of the block in st.slot, st.new set when *)
(* it has yet to be read.                                                   *)

Labelled(st, b) == {i \in DOMAIN st.slots : st.slots[i].blkno = b}

\* e at the end of s, which holds nothing twice: taken from its place, or new.
Place(s, e) == CHOOSE k \in DOMAIN s : s[k] = e
Moved(s, e) == Append(IF \E k \in DOMAIN s : s[k] = e THEN RemoveAt(s, Place(s, e)) ELSE s, e)
Emptied(st, i) == [st EXCEPT !.slots[i].blkno = Invalid, !.slot = i, !.new = TRUE]

RingSlot(b, n) == (b % n) + 1

FromRing(st, b) ==
    LET i == RingSlot(b, Len(st.slots))
        label == st.slots[i].blkno
    IN  IF label = b THEN [st EXCEPT !.slot = i, !.new = FALSE]
        ELSE IF label # Invalid /\ label > b THEN Returned(st, "TOOFARBACK")
        ELSE Emptied(st, i)

\* A slip: a block that is found keeps its place in the list.
HitUnmoved(st, i) == [st EXCEPT !.slot = i, !.new = FALSE]
Hit(st, i) == [st EXCEPT !.slot = i, !.new = FALSE, !.recent = Moved(@, i)]

FromList(st, b) ==
    IF Labelled(st, b) # {}
    THEN Hit(st, CHOOSE j \in Labelled(st, b) : TRUE)
    ELSE LET i == Head(st.recent)
         IN  Emptied([st EXCEPT !.recent = Moved(@, i)], i)

GetLru(st, b) == IF st.fifo THEN FromRing(Returned(st, "ok"), b)
                 ELSE FromList(Returned(st, "ok"), b)

-----------------------------------------------------------------------------
(* main_read_seek_source *)

\* A whole block is read to get over it.
SkipBlock(st, file) ==
    LET skip == st.position \div st.blksize
        got  == GetLru(st, skip)
        n    == Nread(file, got.offset, st.blksize, FALSE)
    IN  IF got.ret # "ok" THEN got
        ELSE IF n = -1 THEN Returned(got, "read error")
        ELSE IF n # st.blksize
             THEN Returned(FilledAt(got, got.slot, n, skip), "INVALID_INPUT")
        ELSE [FilledAt(got, got.slot, n, skip) EXCEPT !.position = @ + n]

\* Blocks are read until the file is at byte pos, which pos of them are enough for.
Skipped(st, file, pos) ==
    LET after[k \in 0..pos] ==
          IF k = 0 THEN st
          ELSE LET s == after[k - 1]
               IN  IF s.ret # "ok" \/ s.position >= pos THEN s ELSE SkipBlock(s, file)
    IN  after[pos]

\* One failed seek is enough: from then on the file is read on.
ReadSeek(st, file, pos) ==
    IF ~st.seek_failed /\ file.seeks
    THEN [st EXCEPT !.offset = pos, !.position = pos]
    ELSE IF st.position > pos
    THEN Returned([st EXCEPT !.seek_failed = TRUE], "TOOFARBACK")
    ELSE Skipped([st EXCEPT !.seek_failed = TRUE], file, pos)

-----------------------------------------------------------------------------
Positioned(st, file, pos) ==
    IF pos # st.position THEN ReadSeek(st, file, pos) ELSE st

ReadInto(st, i, file, b) ==
    LET n == Nread(file, st.offset, st.blksize, st.first)
    IN  IF st.ret # "ok" THEN st
        ELSE IF n = -1 THEN Returned(st, "read error")
        ELSE [FilledAt(st, i, n, b) EXCEPT
                 !.first = FALSE, !.position = b * st.blksize + n,
                 !.cur = [blkno |-> b, at |-> st.offset, size |-> n]]

\* main_getblk_func: the block b in st.cur (curblk, curblkno, onblk), got being what
\* main_getblk_lru returned for it.
Fetched(got, file, b) ==
    IF got.ret # "ok" THEN got
    ELSE IF ~got.new THEN [got EXCEPT !.cur = got.slots[got.slot]]
    ELSE ReadInto(Positioned(got, file, b * got.blksize), got.slot, file, b)

GetBlock(st, file, b) == Fetched(GetLru(st, b), file, b)

\* main_set_source: the file has been opened; st.size is the size when it is known.
\* fifo is do_src_fifo as main_input has set it.
OneBlock(fifo) ==
    [slots |-> <<NoBlock>>, recent |-> <<1>>, fifo |-> fifo, blksize |-> SrcWinSize,
     position |-> 0, offset |-> 0, seek_failed |-> FALSE, first |-> TRUE, slot |-> 1, new |-> FALSE,
     known |-> FALSE, size |-> 0, cur |-> NoBlock, ret |-> "ok"]

CutUp(st, size) ==
    [st EXCEPT
        !.blksize = size,
        !.slots = [i \in 1..MaxLru |->
                      [blkno |-> i - 1, at |-> (i - 1) * size, size |-> size]],
        !.recent = [i \in 1..MaxLru |-> i],
        !.cur = [@ EXCEPT !.size = size]]

\* one: the source with its first block read.
Sized(one, file, fifo) ==
    LET short == one.cur.size < SrcWinSize
        known == file.regular \/ short
        size  == IF file.regular THEN file.length ELSE IF short THEN one.cur.size ELSE 0
        st    == [one EXCEPT !.known = known, !.size = size, !.fifo = fifo \/ ~known]
    IN  IF one.ret # "ok" THEN one
        ELSE IF ~known \/ size > SrcWinSize THEN CutUp(st, SrcWinSize \div MaxLru)
        ELSE st

SetSource(file, fifo) == Sized(GetBlock(OneBlock(fifo), file, 0), file, fifo)
=============================================================================
