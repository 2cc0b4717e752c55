------------------------------ MODULE XDSource ------------------------------
(***************************************************************************)
(* The source file as xdelta3 sees it: one block of it in memory, the      *)
(* block the library asks for next, and what it has found out about the    *)
(* end of the file.  The client of this library loads the blocks.          *)
(***************************************************************************)
EXTENDS XDVcdiff

CONSTANTS BlkSize,      \* bytes in a source block
          MaxWinSize    \* source->max_winsize, as xd3_set_source rounds it

ASSUME SourceAssumption ==
    /\ BlkSize \in Nat \ {0}
    /\ BlkSize \in {2 ^ k : k \in 0..20}
    /\ MaxWinSize \in Nat /\ MaxWinSize >= BlkSize

Block(file, n) == SubSeq(file, n * BlkSize + 1, SmallerOf((n + 1) * BlkSize, Len(file)))

NoSource == [have |-> FALSE]

\* code() with its first block loaded, and xd3_set_source.
NewSource(file) ==
    [have |-> TRUE, file |-> file, cur |-> 0, onblk |-> Len(Block(file, 0)), want |-> 0,
     max |-> 0, onlast |-> 0, eof |-> FALSE, base |-> 0, len |-> 0]

\* xd3_source_eof: where the source ends, so far.
SourceEof(s) == s.max * BlkSize + s.onlast

\* xd3_bytes_on_srcblk
BytesOnBlk(s, n) == IF n = s.max THEN s.onlast ELSE BlkSize

SourceByte(s, at) == s.file[at + 1]

\* xd3_getblk, for the block in memory and for another one.
Loaded(s, n) == n = s.cur
Want(s, n)   == [s EXCEPT !.want = n]

Got(s, n) ==
    [s EXCEPT !.max = LargerOf(@, n),
              !.eof = @ \/ (n > s.max /\ s.onblk < BlkSize),
              !.onlast = IF n >= s.max THEN s.onblk ELSE @]

\* The client's answer to XD3_GETSRCBLK.
Supplied(s) == [s EXCEPT !.cur = s.want, !.onblk = Len(Block(s.file, s.want))]
=============================================================================
