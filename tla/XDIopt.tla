------------------------------- MODULE XDIopt -------------------------------
(***************************************************************************)
(* The instruction buffer of the encoder (iopt): lazy matching puts in     *)
(* matches that overlap, and before they are written the buffer is         *)
(* compacted to matches that do not.                                       *)
(***************************************************************************)
EXTENDS XDVcdiff

MaxMatchSplit == 18

End(inst) == inst.pos + inst.size

\* Where the first of two overlapping matches ends: both are to be about as
\* long, but the first one no longer than MaxMatchSplit.
FirstSize(r1, r2) ==
    LET gap     == End(r2) - r1.pos
        newsize == SmallerOf(MaxMatchSplit, gap - gap \div 2)
    IN  IF newsize > r1.size THEN r1.size
        ELSE IF newsize > r2.size THEN r2.pos - r1.pos
        ELSE LargerOf(newsize, r2.pos - r1.pos)

Shortened(r1, r2) == [r1 EXCEPT !.size = FirstSize(r1, r2)]
Trimmed(r1, r2) ==
    LET cut == r1.pos + FirstSize(r1, r2) - r2.pos
    IN  [r2 EXCEPT !.size = @ - cut, !.pos = @ + cut, !.addr = @ + cut]

\* A slip: of two matches that share one byte both are kept whole.
OverlappingByTwo(q, i) == End(q[i]) > q[i + 1].pos + 1

Overlapping(q, i) == End(q[i]) > q[i + 1].pos

\* Is it too early to look at the match at i and the next one?
Undecided(q, i, force) == i + 1 = Len(q) /\ Overlapping(q, i) /\ ~force

\* Too little of each of the two is its own.
NotWorthBoth(r1, r2) ==
    \/ End(r2) - r1.pos < 2 * MinMatch
    \/ End(r2) - End(r1) <= 2
    \/ r2.pos - r1.pos <= 2

\* One round of the loop of xd3_iopt_flush_instructions at match i of q.
Compact(q, i) ==
    LET r1 == q[i]
        r2 == q[i + 1]
    IN  CASE ~Overlapping(q, i) -> [q |-> q, i |-> i + 1]
          [] Overlapping(q, i) /\ i + 2 <= Len(q) /\ q[i + 2].pos <= End(r1) + 1
                -> [q |-> RemoveAt(q, i + 1), i |-> i]
          [] OTHER ->
                IF NotWorthBoth(r1, r2)
                THEN IF r1.size < r2.size
                     THEN [q |-> RemoveAt(q, i), i |-> i]
                     ELSE [q |-> RemoveAt(q, i + 1), i |-> i + 1]
                ELSE [q |-> [q EXCEPT ![i] = Shortened(r1, r2), ![i + 1] = Trimmed(r1, r2)],
                      i |-> i + 1]

\* A slip: the matches a new one covers are kept.
CoveredToo(q, pos) == q

\* xd3_iopt_erase: the matches a new one from pos on covers.
Uncovered(q, pos) ==
    LET kept == SelectLastInSeq(q, LAMBDA r : r.pos < pos)
    IN  SubSeq(q, 1, kept)

\* xd3_iopt_last_matched
LastMatched(q) == IF q = <<>> THEN 0 ELSE End(Last(q))
=============================================================================
