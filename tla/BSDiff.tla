------------------------------- MODULE BSDiff -------------------------------
(***************************************************************************)
(* bsdiff_perform of bsdiff/bsdiff.c: the creation of a BSDIFF40 patch.    *)
(*                                                                         *)
(* The function reads both files, sorts the suffixes of the old one, then  *)
(* scans the new one for the longest useful matches and cuts it into       *)
(* triples <<add, copy, seek>>: add bytes stored as differences from the   *)
(* old file, copy bytes stored literally, and a seek in the old file.      *)
(*                                                                         *)
(* The search is the loop its tail recursion is, so that every bound it    *)
(* relies on is a state predicate.  bzip2 is transparent: a block is the   *)
(* bytes that were written to it.                                          *)
(***************************************************************************)
EXTENDS ByteFiles

CONSTANTS Fuzz      \* the 8 of "len>oldscore+8"

ASSUME FuzzAssumption == Fuzz \in Nat

VARIABLES
    old, new,                       \* the two files, as read
    I,                              \* the suffix array of old
    pc,                             \* where bsdiff_perform is
    scan, len, pos,                 \* position in new; match at pos in old
    oldscore, scsc,                 \* matches of the previous offset, counted up to scsc
    st, en,                         \* bracket of the binary search
    lastscan, lastpos, lastoffset,  \* where the previous triple ended
    ctrl, db, eb,                   \* the three blocks of the patch
    created                         \* the return value; NoResult while running

files     == <<old, new>>
matchVars == <<scan, len, pos>>
scoreVars == <<oldscore, scsc>>
bracket   == <<st, en>>
patchVars == <<lastscan, lastpos, lastoffset, ctrl, db, eb>>
diffVars  == <<files, I, pc, matchVars, scoreVars, bracket, patchVars, created>>

-----------------------------------------------------------------------------
(* Suffixes and matches *)

\* The order qsufsort sorts by: a proper prefix comes first.
SuffixLess(f, i, j) ==
    \E k \in 0..Least(f.size - i, f.size - j) :
        /\ \A h \in 0..(k - 1) : f.data[i + h] = f.data[j + h]
        /\ j + k < f.size
        /\ i + k = f.size \/ (i + k < f.size /\ f.data[i + k] < f.data[j + k])

\* What qsufsort leaves in I: all suffixes, the empty one included, in order.
SuffixArray(f) ==
    LET rank == [i \in 0..f.size |-> Cardinality({j \in 0..f.size : SuffixLess(f, j, i)})]
    IN  [k \in 0..f.size |-> CHOOSE i \in 0..f.size : rank[i] = k]

\* matchlen(old+i, oldsize-i, new+j, newsize-j)
MatchLengths(i, j) ==
    LET most == Least(old.size - i, new.size - j)
    IN  {n \in 0..most :
            /\ \A h \in 0..(n - 1) : old.data[i + h] = new.data[j + h]
            /\ n < most => old.data[i + n] # new.data[j + n]}

\* memcmp(old+i, new+j, MIN(oldsize-i, newsize-j)) < 0
Below(i, j) ==
    \E k \in 0..(Least(old.size - i, new.size - j) - 1) :
        /\ \A h \in 0..(k - 1) : old.data[i + h] = new.data[j + h]
        /\ old.data[i + k] < new.data[j + k]

\* Does byte k of new continue the match at the previous offset?
Continues(k) ==
    /\ k + lastoffset < old.size
    /\ old.data[k + lastoffset] = new.data[k]

-----------------------------------------------------------------------------
DiffInit ==
    /\ old \in Files /\ new \in Files
    /\ I = SuffixArray(old)
    /\ pc = "load"
    /\ scan = 0 /\ len = 0 /\ pos = 0
    /\ oldscore = 0 /\ scsc = 0 /\ st = 0 /\ en = 0
    /\ lastscan = 0 /\ lastpos = 0 /\ lastoffset = 0
    /\ ctrl = <<>> /\ db = <<>> /\ eb = <<>>
    /\ created = NoResult

\* Both files are read, the suffixes sorted, the patch file opened and its
\* header written with two zero lengths.
Load ==
    /\ pc = "load"
    /\ pc' = "outer"
    /\ UNCHANGED <<files, I, matchVars, scoreVars, bracket, patchVars, created>>

\* A file cannot be read or written (1), or memory is short (5).
LoadFails ==
    /\ pc = "load"
    /\ created' \in {1, 5}
    /\ pc' = "done"
    /\ UNCHANGED <<files, I, matchVars, scoreVars, bracket, patchVars>>

\* A slip: "scsc=scan" for "scsc=scan+=len".
NotAdvanced == scan

\* Where the scan resumes: after the match it found.
Advanced == scan + len

\* while(scan<newsize) { oldscore=0; for(scsc=scan+=len; ...
NextMatch ==
    /\ pc = "outer" /\ scan < new.size
    /\ oldscore' = 0
    /\ scan' = Advanced
    /\ scsc' = Advanced
    /\ pc' = "inner"
    /\ UNCHANGED <<files, I, len, pos, bracket, patchVars, created>>

\* The for loop calls search(I, old, oldsize, new+scan, newsize-scan, 0, oldsize, &pos).
StartSearch ==
    /\ pc = "inner" /\ scan < new.size
    /\ st' = 0 /\ en' = old.size
    /\ pc' = "search"
    /\ UNCHANGED <<files, I, matchVars, scoreVars, patchVars, created>>

\* The for loop ends because new does.
EndOfNew ==
    /\ pc = "inner" /\ scan >= new.size
    /\ pc' = "cut"
    /\ UNCHANGED <<files, I, matchVars, scoreVars, bracket, patchVars, created>>

\* search calls itself on one half of its bracket.
Narrow ==
    /\ pc = "search" /\ en - st >= 2
    /\ LET x == st + (en - st) \div 2
       IN  IF Below(I[x], scan)
           THEN st' = x /\ en' = en
           ELSE st' = st /\ en' = x
    /\ UNCHANGED <<files, I, pc, matchVars, scoreVars, patchVars, created>>

\* A slip: the shorter one.
FoundShorter(p, n) ==
    \E x \in MatchLengths(I[st], scan), y \in MatchLengths(I[en], scan) :
        IF x < y THEN p = I[st] /\ n = x ELSE p = I[en] /\ n = y

\* search returns the longer of the two matches left, the second on a tie.
Found(p, n) ==
    \E x \in MatchLengths(I[st], scan), y \in MatchLengths(I[en], scan) :
        IF x > y THEN p = I[st] /\ n = x ELSE p = I[en] /\ n = y

\* The rest of the for loop's body: score the previous offset over the new
\* match; leave the loop when the match beats it, else step one byte on.
Score ==
    /\ pc = "search" /\ en - st < 2
    /\ \E p \in 0..old.size, n \in 0..(new.size - scan) :
         /\ Found(p, n)
         /\ pos' = p /\ len' = n
         /\ LET counted == oldscore
                    + Cardinality({k \in scsc..(scan + n - 1) : Continues(k)})
            IN  /\ scsc' = IF scsc < scan + n THEN scan + n ELSE scsc
                /\ IF (n = counted /\ n # 0) \/ n > counted + Fuzz
                   THEN /\ oldscore' = counted
                        /\ scan' = scan
                        /\ pc' = "cut"
                   ELSE /\ oldscore' = IF Continues(scan) THEN counted - 1 ELSE counted
                        /\ scan' = scan + 1
                        /\ pc' = "inner"
    /\ UNCHANGED <<files, I, bracket, patchVars, created>>

-----------------------------------------------------------------------------
(* Cutting a triple *)

\* A slip: the last bytes are not cut off at the end of new.
CutDueOnMatch == len # oldscore

\* if((len!=oldscore) || (scan==newsize))
CutDue == len # oldscore \/ scan = new.size

\* The least i <= most at which score(i) is greatest, score(0) = 0.
Best(most, score(_)) ==
    {i \in 0..most : /\ \A j \in 0..most : score(j) <= score(i)
                     /\ \A j \in 0..(i - 1) : score(j) < score(i)}

\* Matching bytes among the i forward of the last triple; s*2-i.
ForwardScore(i) ==
    2 * Cardinality({k \in 0..(i - 1) :
            old.data[lastpos + k] = new.data[lastscan + k]}) - i

\* Matching bytes among the i before the match found; s*2-i.
BackwardScore(i) ==
    2 * Cardinality({k \in 1..i : old.data[pos - k] = new.data[scan - k]}) - i

ForwardLengths == Best(Least(scan - lastscan, old.size - lastpos), ForwardScore)

BackwardLengths ==
    IF scan < new.size THEN Best(Least(scan - lastscan, pos), BackwardScore) ELSE {0}

\* A slip: overlapping extensions are both kept whole.
NeverOverlap(f, b) == 0

\* By how much the two extensions overlap, if they do.
Overlap(f, b) == (lastscan + f) - (scan - b)

\* Where forward extension f and backward extension b overlap, the overlap is
\* split where the forward one stops being the better: lens.
OverlapSplits(f, b, overlap) ==
    LET forward(k) == new.data[lastscan + f - overlap + k] = old.data[lastpos + f - overlap + k]
        backward(k) == new.data[scan - b + k] = old.data[pos - b + k]
        split(i) == Cardinality({k \in 0..(i - 1) : forward(k)})
                  - Cardinality({k \in 0..(i - 1) : backward(k)})
    IN  Best(overlap, split)

ReverseDifference(a, b) == (b - a) % 256

\* db holds unsigned bytes.
Difference(a, b) == (a - b) % 256

\* From the end of this triple in old to the start of the next.
Seek(f, b) == (pos - b) - (lastpos + f)

\* A slip: the difference the wrong way round.
ReverseOffset == scan - pos

MatchOffset == pos - scan

\* The triple for lenf = f and lenb = b after the split.
WriteTriple(f, b) ==
    LET extra == (scan - b) - (lastscan + f)
    IN  /\ db' = db \o [k \in 1..f |->
                    Difference(new.data[lastscan + k - 1], old.data[lastpos + k - 1])]
        /\ eb' = eb \o [k \in 1..extra |-> new.data[lastscan + f + k - 1]]
        /\ ctrl' = Append(ctrl, [add |-> f, copy |-> extra, seek |-> Seek(f, b)])
        /\ lastscan' = scan - b
        /\ lastpos' = pos - b
        /\ lastoffset' = MatchOffset

Cut ==
    /\ pc = "cut" /\ CutDue
    /\ \E f \in ForwardLengths, b \in BackwardLengths :
         LET overlap == Overlap(f, b)
         IN  IF overlap > 0
             THEN \E lens \in OverlapSplits(f, b, overlap) :
                     WriteTriple(f + lens - overlap, b - lens)
             ELSE WriteTriple(f, b)
    /\ pc' = "outer"
    /\ UNCHANGED <<files, I, matchVars, scoreVars, bracket, created>>

\* The match continues the previous offset: no triple.
NoCut ==
    /\ pc = "cut" /\ ~CutDue
    /\ pc' = "outer"
    /\ UNCHANGED <<files, I, matchVars, scoreVars, bracket, patchVars, created>>

\* The three blocks are written, then the header with their real lengths.
Finish ==
    /\ pc = "outer" /\ scan >= new.size
    /\ created' = 0
    /\ pc' = "done"
    /\ UNCHANGED <<files, I, matchVars, scoreVars, bracket, patchVars>>

\* A write fails while a triple or the blocks are written: the patch file is
\* left with the zero lengths of the first header.
WriteFails ==
    /\ \/ pc = "cut" /\ CutDue
       \/ pc = "outer" /\ scan >= new.size
    /\ created' = 1
    /\ pc' = "done"
    /\ UNCHANGED <<files, I, matchVars, scoreVars, bracket, patchVars>>

DiffNext ==
    \/ Load \/ LoadFails
    \/ NextMatch \/ StartSearch \/ EndOfNew \/ Narrow \/ Score
    \/ Cut \/ NoCut
    \/ Finish \/ WriteFails

DiffSpec == DiffInit /\ [][DiffNext]_diffVars /\ WF_diffVars(DiffNext)

-----------------------------------------------------------------------------
Triple == [add : Nat, copy : Nat, seek : Int]

\* Type invariant of bsdiff_perform's locals.
DiffTypeOK ==
    /\ old \in Files /\ new \in Files
    /\ pc \in {"load", "outer", "inner", "search", "cut", "done"}
    /\ I \in [0..old.size -> 0..old.size]
    /\ scan \in 0..new.size /\ len \in 0..new.size /\ pos \in 0..old.size
    /\ lastscan \in 0..new.size /\ lastpos \in 0..old.size /\ lastoffset \in Int
    /\ oldscore \in Int /\ scsc \in 0..new.size
    /\ st \in 0..old.size /\ en \in 0..old.size
    /\ ctrl \in Seq(Triple)
    /\ db \in Seq(Byte) /\ eb \in Seq(Byte)
    /\ created \in {NoResult, 0, 1, 5}

\* Where the scan stands relative to the match it found and to the last triple.
ScanInv ==
    /\ pc \in {"load", "outer", "cut"} => scan = new.size \/ scan + len <= new.size
    /\ pc = "search" => scan < new.size
    /\ pc # "done" => scan + lastoffset >= 0 /\ created = NoResult
    /\ pc \in {"load", "outer"} /\ scan = new.size => lastscan = new.size
    /\ created = 0 => lastscan = new.size

\* db and eb are allocated with newsize+1 bytes (bsdiff.c:243): what the
\* triples so far put into them is exactly the part of new they cover, so
\* neither buffer overflows whatever the matches were.
BuffersFit == Len(db) + Len(eb) = lastscan /\ lastscan <= scan

\* A patch reported as created accounts for every byte of new: no path through
\* the scan ends with bytes after the last triple (bsdiff.c:294, 349).
Complete == created = 0 => Len(db) + Len(eb) = new.size

\* oldscore is adjusted incrementally (bsdiff.c:281-291).  Whenever a search is
\* about to be scored it is exactly the number of bytes in scan..scsc-1 that
\* continue the previous offset; bytes the counter has skipped do not.  This
\* relies on the search never missing a byte that occurs in old.
OldscoreExact ==
    pc \in {"inner", "search"} =>
        /\ oldscore = Cardinality({k \in scan..(scsc - 1) : Continues(k)})
        /\ \A k \in scsc..(scan - 1) : ~Continues(k)

\* old[scsc+lastoffset] is only tested against the upper bound (bsdiff.c:282,
\* 289): the index is never negative.
OffsetReadsInBounds ==
    pc \in {"inner", "search"} => scsc + lastoffset >= 0 /\ scan + lastoffset >= 0

\* The scan ends for every pair of files: no chain of matches, of whatever
\* length 0 included, keeps bsdiff_perform from returning.
DiffTerminates == <>(pc = "done")
=============================================================================
