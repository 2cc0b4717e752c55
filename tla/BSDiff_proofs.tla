--------------------------- MODULE BSDiff_proofs ---------------------------
(***************************************************************************)
(* bsdiff_perform keeps its positions and its two buffers within bounds,   *)
(* and oldscore exact, for all files and every Fuzz.                       *)
(***************************************************************************)
EXTENDS BSDiff, FiniteSetTheorems, SequenceTheorems, TLAPS

\* The inductive invariant: the types and bounds of the locals, what has been
\* written to db and eb, and where the scan stands.
DiffInv == DiffTypeOK /\ BuffersFit /\ ScanInv /\ OffsetReadsInBounds

\* A file has a size and bytes.
LEMMA FileType ==
    ASSUME NEW f \in Files
    PROVE  /\ f.size \in Nat
           /\ \A i \in 0..(f.size - 1) : f.data[i] \in Byte
  BY FilesAssumption

\* The bytes of a file are numbers.
LEMMA FileBytes ==
    ASSUME NEW f \in Files
    PROVE  f.size \in Nat /\ \A k \in 0..(f.size - 1) : f.data[k] \in Nat
  <1>1. Byte \subseteq Nat
    BY DEF Byte
  <1> QED
    BY <1>1, FileType

-----------------------------------------------------------------------------
(* The suffix array.                                                         *)

\* A set of natural numbers has a least one: of the intervals up to its members, one
\* includes no other.
LEMMA LeastMember ==
    ASSUME NEW T \in SUBSET Nat, T # {}
    PROVE  \E x \in T : \A y \in T : x <= y
  <1> DEFINE below == {0..x : x \in T}
  <1>1. below # {} /\ below \subseteq FiniteSubsetsOf(Nat)
    <2>1. \A x \in T : IsFiniteSet(0..x) /\ 0..x \subseteq Nat
      BY FS_Interval
    <2> QED
      BY <2>1 DEF FiniteSubsetsOf
  <1>2. PICK b \in below : \A c \in below : ~(<<c, b>> \in StrictSubsetOrdering(Nat))
    <2>1. IsWellFoundedOn(StrictSubsetOrdering(Nat), FiniteSubsetsOf(Nat))
      BY FS_StrictSubsetOrderingWellFounded
    <2> HIDE DEF below
    <2> QED
      BY <1>1, <2>1, WFMin
  <1>3. PICK x \in T : b = 0..x
    BY <1>2
  <1>4. ASSUME NEW y \in T, y < x PROVE FALSE
    <2>1. 0..y \subseteq 0..x /\ x \in 0..x /\ x \notin 0..y
      BY <1>4
    <2>2. <<0..y, 0..x>> \in StrictSubsetOrdering(Nat)
      BY <2>1 DEF StrictSubsetOrdering
    <2> QED
      BY <1>2, <1>3, <2>2
  <1> QED
    BY <1>3, <1>4

\* No suffix comes before itself.
LEMMA SuffixIrreflexive ==
    ASSUME NEW f \in Files, NEW i \in 0..f.size
    PROVE  ~SuffixLess(f, i, i)
  <1>1. f.size \in Nat /\ \A k \in 0..(f.size - 1) : f.data[k] \in Nat
    BY FileBytes
  <1> QED
    BY <1>1 DEF SuffixLess, Least

\* What one suffix comes before, and that comes before another, it comes before too.
LEMMA SuffixTransitive ==
    ASSUME NEW f \in Files, NEW i \in 0..f.size, NEW j \in 0..f.size, NEW l \in 0..f.size,
           SuffixLess(f, i, j), SuffixLess(f, j, l)
    PROVE  SuffixLess(f, i, l)
  <1>1. f.size \in Nat /\ \A k \in 0..(f.size - 1) : f.data[k] \in Nat
    BY FileBytes
  <1>2. PICK a \in 0..Least(f.size - i, f.size - j) :
          /\ \A h \in 0..(a - 1) : f.data[i + h] = f.data[j + h]
          /\ j + a < f.size
          /\ i + a = f.size \/ (i + a < f.size /\ f.data[i + a] < f.data[j + a])
    BY DEF SuffixLess
  <1>3. PICK b \in 0..Least(f.size - j, f.size - l) :
          /\ \A h \in 0..(b - 1) : f.data[j + h] = f.data[l + h]
          /\ l + b < f.size
          /\ j + b = f.size \/ (j + b < f.size /\ f.data[j + b] < f.data[l + b])
    BY DEF SuffixLess
  <1>4. /\ a \in Nat /\ a <= f.size - i /\ a <= f.size - j
        /\ b \in Nat /\ b <= f.size - j /\ b <= f.size - l
    BY <1>1, <1>2, <1>3 DEF Least
  <1> DEFINE k == IF a < b THEN a ELSE b
  <1>5. k \in 0..Least(f.size - i, f.size - l) /\ l + k < f.size
    BY <1>1, <1>3, <1>4 DEF Least
  <1>6. \A h \in 0..(k - 1) : f.data[i + h] = f.data[l + h]
    BY <1>2, <1>3, <1>4
  <1>7. i + k = f.size \/ (i + k < f.size /\ f.data[i + k] < f.data[l + k])
    <2>1. CASE a < b
      BY <1>1, <1>2, <1>3, <1>4, <2>1
    <2>2. CASE a = b
      <3>1. j + a < f.size /\ l + a < f.size /\ f.data[j + a] < f.data[l + a]
        BY <1>1, <1>2, <1>3, <1>4, <2>2
      <3>2. CASE i + a = f.size
        BY <2>2, <3>2
      <3>3. CASE i + a < f.size /\ f.data[i + a] < f.data[j + a]
        <4>1. /\ f.data[i + a] \in Nat /\ f.data[j + a] \in Nat /\ f.data[l + a] \in Nat
          BY <1>1, <1>4, <3>1, <3>3
        <4> QED
          BY <2>2, <3>1, <3>3, <4>1
      <3> QED
        BY <1>2, <3>2, <3>3
    <2>3. CASE b < a
      <3>1. /\ i + b < f.size /\ j + b < f.size
            /\ f.data[i + b] = f.data[j + b]
        BY <1>1, <1>2, <1>4, <2>3
      <3> QED
        BY <1>1, <1>3, <1>4, <2>3, <3>1
    <2> QED
      BY <1>4, <2>1, <2>2, <2>3
  <1> HIDE DEF k
  <1> QED
    BY <1>5, <1>6, <1>7 DEF SuffixLess

\* Of two suffixes one comes before the other: where they first differ, or one ends.
LEMMA SuffixTotal ==
    ASSUME NEW f \in Files, NEW i \in 0..f.size, NEW j \in 0..f.size, i # j
    PROVE  SuffixLess(f, i, j) \/ SuffixLess(f, j, i)
  <1>1. f.size \in Nat /\ \A k \in 0..(f.size - 1) : f.data[k] \in Nat
    BY FileBytes
  <1> DEFINE most == Least(f.size - i, f.size - j)
             ends == {k \in 0..most : i + k = f.size \/ j + k = f.size
                                        \/ f.data[i + k] # f.data[j + k]}
  <1>2. /\ most \in Nat /\ most <= f.size - i /\ most <= f.size - j
        /\ most = f.size - i \/ most = f.size - j
    BY <1>1 DEF Least
  <1>3. ends \in SUBSET Nat /\ ends # {}
    <2>1. most \in ends
      BY <1>1, <1>2
    <2> QED
      BY <1>2, <2>1
  <1>4. PICK k \in ends : \A h \in ends : k <= h
    BY <1>3, LeastMember
  <1>5. k \in 0..most /\ \A h \in 0..(k - 1) : f.data[i + h] = f.data[j + h]
    <2>1. k \in 0..most
      BY <1>4
    <2>2. ASSUME NEW h \in 0..(k - 1) PROVE f.data[i + h] = f.data[j + h]
      <3>1. h \in 0..most /\ h < k
        BY <1>2, <2>1
      <3>2. h \notin ends
        BY <1>2, <1>3, <1>4, <3>1
      <3> QED
        BY <3>1, <3>2
    <2> QED
      BY <2>1, <2>2
  <1>6. i + k = f.size \/ j + k = f.size \/ f.data[i + k] # f.data[j + k]
    BY <1>4
  <1>7. k \in Nat /\ i + k <= f.size /\ j + k <= f.size
    BY <1>1, <1>2, <1>5
  <1>8. k \in 0..Least(f.size - i, f.size - j) /\ k \in 0..Least(f.size - j, f.size - i)
    BY <1>1, <1>7 DEF Least
  <1> HIDE DEF most, ends
  <1>9. CASE i + k = f.size
    <2>1. j + k < f.size
      BY <1>1, <1>7, <1>9
    <2> QED
      BY <1>5, <1>8, <1>9, <2>1 DEF SuffixLess
  <1>10. CASE j + k = f.size
    <2>1. i + k < f.size
      BY <1>1, <1>7, <1>10
    <2> QED
      BY <1>5, <1>8, <1>10, <2>1 DEF SuffixLess
  <1>11. CASE i + k < f.size /\ j + k < f.size
    <2>1. f.data[i + k] \in Nat /\ f.data[j + k] \in Nat
      BY <1>1, <1>7, <1>11
    <2>2. f.data[i + k] # f.data[j + k]
      BY <1>1, <1>6, <1>7, <1>11
    <2>3. CASE f.data[i + k] < f.data[j + k]
      BY <1>5, <1>8, <1>11, <2>3 DEF SuffixLess
    <2>4. CASE f.data[j + k] < f.data[i + k]
      BY <1>5, <1>8, <1>11, <2>4 DEF SuffixLess
    <2> QED
      BY <2>1, <2>2, <2>3, <2>4
  <1> QED
    BY <1>1, <1>7, <1>9, <1>10, <1>11

\* Members of a finite set that are ordered, numbered by how many come before them, get
\* the numbers from 0 on, each once and in order.
LEMMA Numbering ==
    ASSUME NEW n \in Nat, NEW before \in [0..n -> SUBSET (0..n)],
           \A i \in 0..n : i \notin before[i],
           \A i, j \in 0..n : i \in before[j] => before[i] \subseteq before[j],
           \A i, j \in 0..n : i # j => i \in before[j] \/ j \in before[i],
           NEW rank, \A i \in 0..n : rank[i] = Cardinality(before[i])
    PROVE  /\ \A i \in 0..n : rank[i] \in 0..n
           /\ \A i, j \in 0..n : i \in before[j] <=> rank[i] < rank[j]
           /\ \A k \in 0..n : \E i \in 0..n : rank[i] = k
  <1>1. IsFiniteSet(0..n) /\ Cardinality(0..n) = n + 1
    BY FS_Interval
  <1>2. ASSUME NEW i \in 0..n
        PROVE  IsFiniteSet(before[i]) /\ Cardinality(before[i]) \in 0..n
    <2>1. /\ IsFiniteSet(before[i]) /\ Cardinality(before[i]) <= n + 1
          /\ n + 1 = Cardinality(before[i]) => 0..n = before[i]
      <3>1. before[i] \in SUBSET (0..n)
        OBVIOUS
      <3> QED
        BY <1>1, <3>1, FS_Subset
    <2>2. Cardinality(before[i]) \in Nat
      BY <2>1, FS_CardinalityType
    <2> QED
      BY <2>1, <2>2
  <1>3. \A i \in 0..n : rank[i] = Cardinality(before[i])
    OBVIOUS
  <1>4. \A i \in 0..n : rank[i] \in 0..n
    BY <1>2
  <1>5. ASSUME NEW i \in 0..n, NEW j \in 0..n, i \in before[j]
        PROVE  rank[i] < rank[j]
    <2>1. before[i] \in SUBSET before[j] /\ before[i] # before[j]
      BY <1>5
    <2>2. /\ Cardinality(before[i]) <= Cardinality(before[j])
          /\ Cardinality(before[j]) # Cardinality(before[i])
      BY <1>2, <2>1, FS_Subset
    <2>3. Cardinality(before[i]) \in Nat /\ Cardinality(before[j]) \in Nat
      BY <1>2
    <2>4. Cardinality(before[i]) < Cardinality(before[j])
      BY <2>2, <2>3
    <2> QED
      BY <1>3, <2>4
  <1>6. \A i \in 0..n : rank[i] \in Nat
    BY <1>4
  <1>7. \A i, j \in 0..n : i \in before[j] <=> rank[i] < rank[j]
    <2> TAKE i, j \in 0..n
    <2>1. rank[i] \in Nat /\ rank[j] \in Nat
      BY <1>6
    <2>2. i = j => i \notin before[j]
      OBVIOUS
    <2>3. i # j => i \in before[j] \/ rank[j] < rank[i]
      BY <1>5
    <2>4. i \in before[j] => rank[i] < rank[j]
      BY <1>5
    <2> QED
      BY <2>1, <2>2, <2>3, <2>4
  <1> DEFINE number == [i \in 0..n |-> rank[i]]
  <1>8. number \in Injection(0..n, 0..n)
    <2>1. ASSUME NEW i \in 0..n, NEW j \in 0..n, number[i] = number[j]
          PROVE  i = j
      <3>1. rank[i] \in Nat /\ ~(rank[i] < rank[j]) /\ ~(rank[j] < rank[i])
        BY <1>6, <2>1
      <3>2. i \notin before[j] /\ j \notin before[i]
        BY <1>7, <3>1
      <3> QED
        BY <3>2
    <2>2. number \in [0..n -> 0..n]
      BY <1>4
    <2> QED
      BY <2>1, <2>2 DEF Injection, IsInjective
  <1>9. number \in Surjection(0..n, 0..n)
    <2> HIDE DEF number
    <2> QED
      BY <1>1, <1>8, FS_Injection
  <1>10. \A k \in 0..n : \E i \in 0..n : number[i] = k
    BY <1>9 DEF Surjection
  <1> QED
    BY <1>4, <1>7, <1>10

\* I is the suffix array of old: every position is in it, and the suffixes are in order.
Sorted(f, array) ==
    /\ array \in [0..f.size -> 0..f.size]
    /\ \A p \in 0..f.size : \E r \in 0..f.size : array[r] = p
    /\ \A r, s \in 0..f.size : r < s => SuffixLess(f, array[r], array[s])

LEMMA SuffixArraySorted ==
    ASSUME NEW f \in Files
    PROVE  Sorted(f, SuffixArray(f))
  <1> DEFINE n == f.size
             before == [i \in 0..n |-> {j \in 0..n : SuffixLess(f, j, i)}]
             rank == [i \in 0..n |-> Cardinality({j \in 0..n : SuffixLess(f, j, i)})]
             array == [k \in 0..n |-> CHOOSE i \in 0..n : rank[i] = k]
  <1>1. n \in Nat
    BY FileType
  <1>2. /\ before \in [0..n -> SUBSET (0..n)]
        /\ \A i, j \in 0..n : i \in before[j] <=> SuffixLess(f, i, j)
    OBVIOUS
  <1>3. \A i \in 0..n : rank[i] = Cardinality(before[i])
    OBVIOUS
  <1> HIDE DEF before, rank, n
  <1>4. \A i \in 0..n : i \notin before[i]
    BY <1>2, SuffixIrreflexive DEF n
  <1>5. \A i, j \in 0..n : i \in before[j] => before[i] \subseteq before[j]
    <2> SUFFICES ASSUME NEW i \in 0..n, NEW j \in 0..n, i \in before[j], NEW k \in before[i]
                 PROVE  k \in before[j]
      OBVIOUS
    <2>1. k \in 0..n /\ SuffixLess(f, k, i) /\ SuffixLess(f, i, j)
      BY <1>2
    <2>2. SuffixLess(f, k, j)
      BY <2>1, SuffixTransitive DEF n
    <2> QED
      BY <1>2, <2>1, <2>2
  <1>6. \A i, j \in 0..n : i # j => i \in before[j] \/ j \in before[i]
    BY <1>2, SuffixTotal DEF n
  <1>7. /\ \A i \in 0..n : rank[i] \in 0..n
        /\ \A i, j \in 0..n : i \in before[j] <=> rank[i] < rank[j]
        /\ \A k \in 0..n : \E i \in 0..n : rank[i] = k
    BY <1>1, <1>2, <1>3, <1>4, <1>5, <1>6, Numbering
  <1>8. SuffixArray(f) = array
    BY DEF SuffixArray, rank, n
  <1>9. \A k \in 0..n : array[k] \in 0..n /\ rank[array[k]] = k
    BY <1>7
  <1>10. array \in [0..n -> 0..n]
    BY <1>9
  <1>11. \A p \in 0..n : rank[p] \in 0..n /\ array[rank[p]] = p
    <2> TAKE p \in 0..n
    <2>1. rank[p] \in 0..n
      BY <1>7
    <2>2. array[rank[p]] \in 0..n /\ rank[array[rank[p]]] = rank[p]
      BY <1>9, <2>1
    <2> HIDE DEF array
    <2>3. ~(rank[array[rank[p]]] < rank[p]) /\ ~(rank[p] < rank[array[rank[p]]])
      BY <1>1, <2>1, <2>2
    <2>4. array[rank[p]] \notin before[p] /\ p \notin before[array[rank[p]]]
      BY <1>7, <2>2, <2>3
    <2>5. array[rank[p]] = p
      BY <1>6, <2>2, <2>4
    <2> QED
      BY <2>1, <2>5
  <1> HIDE DEF array
  <1>12. \A r, s \in 0..n : r < s => SuffixLess(f, array[r], array[s])
    BY <1>2, <1>7, <1>9
  <1>13. \A p \in 0..n : \E r \in 0..n : array[r] = p
    BY <1>11
  <1> QED
    BY <1>8, <1>10, <1>12, <1>13 DEF Sorted, n

-----------------------------------------------------------------------------
(* The two blocks and the bounds.                                            *)

\* db holds differences of bytes modulo 256, and adding the byte back undoes it.
LEMMA ByteDifference ==
    ASSUME NEW a \in Byte, NEW b \in Byte
    PROVE  /\ (a - b) % 256 \in Byte
           /\ (((a - b) % 256) + b) % 256 = a
  <1>1. a \in Int /\ b \in Int /\ 0 <= a /\ a <= 255 /\ 0 <= b /\ b <= 255
    BY DEF Byte
  <1>2. CASE a >= b
    <2>1. (a - b) % 256 = a - b
      BY <1>1, <1>2
    <2> QED
      BY <1>1, <1>2, <2>1 DEF Byte
  <1>3. CASE a < b
    <2>1. (a - b) % 256 = a - b + 256
      BY <1>1, <1>3
    <2>2. (a - b + 256 + b) % 256 = a
      BY <1>1
    <2> QED
      BY <1>1, <1>3, <2>1, <2>2 DEF Byte
  <1> QED
    BY <1>1, <1>2, <1>3

\* Counting bytes in a range gives a number.
LEMMA CountType ==
    ASSUME NEW a \in Int, NEW b \in Int, NEW P, P \subseteq a..b
    PROVE  Cardinality(P) \in Nat
  <1>1. IsFiniteSet(a..b)
    BY FS_Interval
  <1>2. IsFiniteSet(P)
    BY <1>1, FS_Subset
  <1> QED
    BY <1>2, FS_CardinalityType

\* Extending a block with n bytes: its length and its bytes, old and new.
LEMMA ExtendBlock ==
    ASSUME NEW block \in Seq(Byte), NEW n \in Nat, NEW more \in [1..n -> Byte]
    PROVE  /\ block \o more \in Seq(Byte)
           /\ Len(block \o more) = Len(block) + n
           /\ \A i \in 1..Len(block) : (block \o more)[i] = block[i]
           /\ \A i \in 1..n : (block \o more)[Len(block) + i] = more[i]
  <1>1. more \in Seq(Byte) /\ Len(more) = n
    BY IsASeq, LenProperties
  <1>2. /\ block \o more \in Seq(Byte)
        /\ Len(block \o more) = Len(block) + Len(more)
        /\ \A i \in 1..(Len(block) + Len(more)) : (block \o more)[i] =
              IF i <= Len(block) THEN block[i] ELSE more[i - Len(block)]
    BY <1>1, ConcatProperties
  <1>3. Len(block) \in Nat
    BY LenProperties
  <1>4. \A i \in 1..Len(block) : (block \o more)[i] = block[i]
    BY <1>1, <1>2, <1>3
  <1>5. ASSUME NEW i \in 1..n
        PROVE  (block \o more)[Len(block) + i] = more[i]
    <2>1. /\ Len(block) + i \in 1..(Len(block) + Len(more))
          /\ ~(Len(block) + i <= Len(block))
          /\ (Len(block) + i) - Len(block) = i
      BY <1>1, <1>3
    <2> QED
      BY <1>2, <2>1
  <1> QED
    BY <1>1, <1>2, <1>4, <1>5

\* A triple after the overlap is split stays between the last triple and the
\* scan, and inside the old file.
LEMMA TripleBounds ==
    ASSUME DiffTypeOK, BuffersFit, pc = "cut", Cut
    PROVE  \E f \in Nat, b \in Nat :
              /\ f <= old.size - lastpos
              /\ b <= pos
              /\ lastscan + f <= scan - b
              /\ scan = new.size => b = 0
              /\ WriteTriple(f, b)
  <1>1. /\ old.size \in Nat /\ new.size \in Nat
        /\ scan \in Nat /\ lastscan \in Nat /\ lastscan <= scan
        /\ pos \in Nat /\ lastpos \in Nat /\ lastpos <= old.size
    BY FileType DEF DiffTypeOK, BuffersFit
  <1>2. PICK f \in ForwardLengths, b \in BackwardLengths :
          LET overlap == (lastscan + f) - (scan - b)
          IN  IF overlap > 0
              THEN \E lens \in OverlapSplits(f, b, overlap) :
                      WriteTriple(f + lens - overlap, b - lens)
              ELSE WriteTriple(f, b)
    BY DEF Cut, Overlap
  <1>3. f \in 0..Least(scan - lastscan, old.size - lastpos)
    BY DEF ForwardLengths, Best
  <1>4. /\ b \in Nat /\ b <= pos /\ b <= scan - lastscan
        /\ scan = new.size => b = 0
    BY <1>1 DEF BackwardLengths, Best, Least
  <1>5. f \in Nat /\ f <= scan - lastscan /\ f <= old.size - lastpos
    BY <1>1, <1>3 DEF Least
  <1>6. CASE (lastscan + f) - (scan - b) > 0
    <2> DEFINE overlap == (lastscan + f) - (scan - b)
    <2>1. PICK lens \in OverlapSplits(f, b, overlap) :
            WriteTriple(f + lens - overlap, b - lens)
      BY <1>2, <1>6
    <2>2. lens \in 0..overlap
      BY <2>1 DEF OverlapSplits, Best
    <2>3. /\ f + lens - overlap \in Nat /\ b - lens \in Nat
          /\ f + lens - overlap <= old.size - lastpos
          /\ b - lens <= pos
          /\ lastscan + (f + lens - overlap) <= scan - (b - lens)
          /\ scan = new.size => b - lens = 0
      BY <1>1, <1>4, <1>5, <2>2
    <2> QED
      BY <2>1, <2>3
  <1>7. CASE ~((lastscan + f) - (scan - b) > 0)
    BY <1>1, <1>2, <1>4, <1>5, <1>7
  <1> QED
    BY <1>6, <1>7

\* What cutting a triple does: the three numbers written, the bytes they cover,
\* and where the next triple starts.
CutBy(f, extra, z) ==
    /\ ctrl' = Append(ctrl, [add |-> f, copy |-> extra, seek |-> z])
    /\ lastscan' = lastscan + f + extra /\ lastscan' <= scan
    /\ scan = new.size => lastscan' = scan
    /\ lastpos' = lastpos + f + z /\ lastpos' \in 0..pos
    /\ lastpos + f <= old.size
    /\ lastoffset' = pos - scan
    /\ db' \in Seq(Byte) /\ Len(db') = Len(db) + f
    /\ \A i \in 1..Len(db) : db'[i] = db[i]
    /\ \A i \in 0..(f - 1) :
          (db'[Len(db) + 1 + i] + old.data[lastpos + i]) % 256 = new.data[lastscan + i]
    /\ eb' \in Seq(Byte) /\ Len(eb') = Len(eb) + extra
    /\ \A i \in 1..Len(eb) : eb'[i] = eb[i]
    /\ \A i \in 0..(extra - 1) :
          eb'[Len(eb) + 1 + i] = new.data[lastscan + f + i]

LEMMA CutEffect ==
    ASSUME DiffInv, Cut
    PROVE  \E f \in Nat, extra \in Nat, z \in Int : CutBy(f, extra, z)
  <1> USE DEF DiffInv
  <1>1. PICK f \in Nat, b \in Nat :
          /\ f <= old.size - lastpos
          /\ b <= pos
          /\ lastscan + f <= scan - b
          /\ scan = new.size => b = 0
          /\ WriteTriple(f, b)
    BY TripleBounds DEF Cut
  <1>2. /\ old.size \in Nat /\ new.size \in Nat
        /\ scan \in 0..new.size /\ pos \in 0..old.size
        /\ lastscan \in Nat /\ lastpos \in Nat
    BY FileType DEF DiffTypeOK
  <1> DEFINE extra == (scan - b) - (lastscan + f)
             z == (pos - b) - (lastpos + f)
             adds == [k \in 1..f |->
                        Difference(new.data[lastscan + k - 1], old.data[lastpos + k - 1])]
             copies == [k \in 1..extra |-> new.data[lastscan + f + k - 1]]
  <1>3. /\ extra \in Nat /\ z \in Int
        /\ f <= old.size - lastpos /\ b <= pos
        /\ scan = new.size => b = 0
    BY <1>1, <1>2
  <1>4. ASSUME NEW k \in 1..f
        PROVE  /\ adds[k] \in Byte
               /\ (adds[k] + old.data[lastpos + k - 1]) % 256 = new.data[lastscan + k - 1]
    <2>1. lastscan + k - 1 \in 0..(new.size - 1) /\ lastpos + k - 1 \in 0..(old.size - 1)
      BY <1>1, <1>2
    <2>2. new.data[lastscan + k - 1] \in Byte /\ old.data[lastpos + k - 1] \in Byte
      BY <2>1, FileType DEF DiffTypeOK
    <2> QED
      BY <2>2, ByteDifference DEF Difference
  <1>5. ASSUME NEW k \in 1..extra
        PROVE  copies[k] \in Byte /\ copies[k] = new.data[lastscan + f + k - 1]
    <2>1. lastscan + f + k - 1 \in 0..(new.size - 1)
      BY <1>1, <1>2, <1>3
    <2> QED
      BY <2>1, FileType DEF DiffTypeOK
  <1>6. adds \in [1..f -> Byte] /\ copies \in [1..extra -> Byte]
    BY <1>4, <1>5
  <1>7. /\ db' = db \o adds /\ eb' = eb \o copies
        /\ ctrl' = Append(ctrl, [add |-> f, copy |-> extra, seek |-> z])
        /\ lastscan' = scan - b /\ lastpos' = pos - b /\ lastoffset' = pos - scan
    BY <1>1 DEF WriteTriple, Seek, MatchOffset
  <1> HIDE DEF adds, copies
  <1>8. /\ db \in Seq(Byte) /\ eb \in Seq(Byte)
        /\ Len(db) \in Nat /\ Len(eb) \in Nat
    BY LenProperties DEF DiffTypeOK
  <1>9. /\ db' \in Seq(Byte) /\ Len(db') = Len(db) + f
        /\ \A i \in 1..Len(db) : db'[i] = db[i]
        /\ \A k \in 1..f : db'[Len(db) + k] = adds[k]
    BY <1>6, <1>7, <1>8, ExtendBlock
  <1>10. /\ eb' \in Seq(Byte) /\ Len(eb') = Len(eb) + extra
         /\ \A i \in 1..Len(eb) : eb'[i] = eb[i]
         /\ \A k \in 1..extra : eb'[Len(eb) + k] = copies[k]
    BY <1>3, <1>6, <1>7, <1>8, ExtendBlock
  <1>11. ASSUME NEW i \in 0..(f - 1)
         PROVE  (db'[Len(db) + 1 + i] + old.data[lastpos + i]) % 256 = new.data[lastscan + i]
    <2>1. /\ i + 1 \in 1..f /\ Len(db) + (i + 1) = Len(db) + 1 + i
          /\ lastpos + (i + 1) - 1 = lastpos + i /\ lastscan + (i + 1) - 1 = lastscan + i
      BY <1>2, <1>8
    <2>2. db'[Len(db) + 1 + i] = adds[i + 1]
      BY <1>9, <2>1
    <2>3. (adds[i + 1] + old.data[lastpos + i]) % 256 = new.data[lastscan + i]
      BY <1>4, <2>1
    <2> QED
      BY <2>2, <2>3
  <1>12. ASSUME NEW i \in 0..(extra - 1)
         PROVE  eb'[Len(eb) + 1 + i] = new.data[lastscan + f + i]
    <2>1. /\ i + 1 \in 1..extra /\ Len(eb) + (i + 1) = Len(eb) + 1 + i
          /\ lastscan + f + (i + 1) - 1 = lastscan + f + i
      BY <1>2, <1>3, <1>8
    <2> QED
      BY <1>5, <1>10, <2>1
  <1>13. /\ lastscan' = lastscan + f + extra /\ lastscan' <= scan
         /\ scan = new.size => lastscan' = scan
         /\ lastpos' = lastpos + f + z /\ lastpos' \in 0..pos
         /\ lastpos + f <= old.size
    BY <1>2, <1>3, <1>7
  <1> HIDE DEF extra, z
  <1>14. CutBy(f, extra, z)
    BY <1>7, <1>9, <1>10, <1>11, <1>12, <1>13 DEF CutBy
  <1> QED
    BY <1>3, <1>14

\* Cutting a triple keeps the invariant.
LEMMA CutKeeps ==
    ASSUME DiffInv, Cut
    PROVE  DiffInv'
  <1> USE DEF DiffInv
  <1>1. /\ pc = "cut" /\ pc' = "outer"
        /\ UNCHANGED <<old, new, I, scan, len, pos, oldscore, scsc, st, en, created>>
    BY DEF Cut, files, matchVars, scoreVars, bracket
  <1>2. PICK f \in Nat, extra \in Nat, z \in Int : CutBy(f, extra, z)
    BY CutEffect
  <1>3. /\ old.size \in Nat /\ new.size \in Nat
        /\ scan \in 0..new.size /\ pos \in 0..old.size
        /\ lastscan \in Nat /\ Len(db) \in Nat /\ Len(eb) \in Nat
    BY FileType, LenProperties DEF DiffTypeOK
  <1>4. ctrl' \in Seq(Triple)
    BY <1>2, AppendProperties DEF CutBy, DiffTypeOK, Triple
  <1>5. /\ lastscan' = lastscan + f + extra /\ lastscan' <= scan
        /\ scan = new.size => lastscan' = scan
        /\ lastpos' \in 0..pos /\ lastoffset' = pos - scan
        /\ Len(db') = Len(db) + f /\ Len(eb') = Len(eb) + extra
        /\ db' \in Seq(Byte) /\ eb' \in Seq(Byte)
    BY <1>2 DEF CutBy
  <1>6. lastscan' \in 0..new.size /\ lastpos' \in 0..old.size /\ lastoffset' \in Int
    BY <1>3, <1>5
  <1>7. DiffTypeOK'
    BY <1>1, <1>4, <1>5, <1>6 DEF DiffTypeOK
  <1>8. BuffersFit'
    <2>1. Len(db) + Len(eb) = lastscan
      BY DEF BuffersFit
    <2>2. Len(db') + Len(eb') = lastscan'
      <3>1. /\ lastscan' = lastscan + f + extra
            /\ Len(db') = Len(db) + f /\ Len(eb') = Len(eb) + extra
        BY <1>5
      <3> QED
        BY <1>3, <2>1, <3>1
    <2>3. lastscan' <= scan'
      BY <1>1, <1>5
    <2> QED
      BY <2>2, <2>3 DEF BuffersFit
  <1>9. ScanInv' /\ OffsetReadsInBounds'
    <2>1. scan + lastoffset' >= 0
      BY <1>3, <1>5
    <2>2. scan = new.size \/ scan + len <= new.size
      BY <1>1 DEF ScanInv
    <2>3. created = NoResult
      BY <1>1 DEF ScanInv
    <2> QED
      BY <1>1, <1>5, <2>1, <2>2, <2>3 DEF ScanInv, OffsetReadsInBounds, NoResult
  <1> QED
    BY <1>7, <1>8, <1>9

\* Scoring a match keeps the invariant.
LEMMA ScoreKeeps ==
    ASSUME DiffInv, Score
    PROVE  DiffInv'
  <1> USE DEF DiffInv
  <1>1. /\ pc = "search" /\ pc' \in {"inner", "cut"}
        /\ UNCHANGED <<files, I, bracket, patchVars, created>>
    BY DEF Score
  <1>2. PICK p \in 0..old.size, n \in 0..(new.size - scan) :
          /\ pos' = p /\ len' = n
          /\ LET counted == oldscore + Cardinality({k \in scsc..(scan + n - 1) : Continues(k)})
             IN  /\ scsc' = IF scsc < scan + n THEN scan + n ELSE scsc
                 /\ IF (n = counted /\ n # 0) \/ n > counted + Fuzz
                    THEN oldscore' = counted /\ scan' = scan /\ pc' = "cut"
                    ELSE /\ oldscore' = IF Continues(scan) THEN counted - 1 ELSE counted
                         /\ scan' = scan + 1
                         /\ pc' = "inner"
    BY DEF Score
  <1>3. /\ old.size \in Nat /\ new.size \in Nat /\ scan \in Nat /\ scan < new.size
        /\ scsc \in 0..new.size /\ lastoffset \in Int /\ lastscan <= scan
        /\ scan + lastoffset >= 0 /\ scsc + lastoffset >= 0 /\ oldscore \in Int
    BY <1>1, FileType DEF DiffTypeOK, ScanInv, OffsetReadsInBounds, BuffersFit
  <1>4. Cardinality({k \in scsc..(scan + n - 1) : Continues(k)}) \in Nat
    BY <1>3, CountType
  <1>5. /\ oldscore' \in Int
        /\ scan' = scan \/ (scan' = scan + 1 /\ pc' = "inner")
        /\ scsc' = scsc \/ scsc' = scan + n
    BY <1>2, <1>3, <1>4
  <1>6. /\ scan' \in 0..new.size /\ scsc' \in 0..new.size
        /\ len' \in 0..new.size /\ pos' \in 0..old.size
    BY <1>2, <1>3, <1>5
  <1>7. UNCHANGED <<old, new, I, st, en, lastscan, lastpos, lastoffset, ctrl, db, eb, created>>
    BY <1>1 DEF files, bracket, patchVars
  <1>8. DiffTypeOK'
    BY <1>1, <1>5, <1>6, <1>7 DEF DiffTypeOK
  <1>9. BuffersFit'
    BY <1>3, <1>5, <1>7 DEF BuffersFit
  <1>10. ScanInv' /\ OffsetReadsInBounds'
    <2>1. scan' + lastoffset >= 0 /\ scsc' + lastoffset >= 0
      BY <1>2, <1>3, <1>5
    <2>2. pc' = "cut" => scan' + len' <= new.size
      BY <1>2, <1>3, <1>5
    <2> QED
      BY <1>1, <1>7, <2>1, <2>2 DEF ScanInv, OffsetReadsInBounds
  <1> QED
    BY <1>8, <1>9, <1>10

\* Every step of bsdiff_perform keeps the invariant.
LEMMA DiffStep ==
    ASSUME DiffInv, [DiffNext]_diffVars
    PROVE  DiffInv'
  <1> USE DEF DiffInv
  <1>0. /\ old.size \in Nat /\ new.size \in Nat
        /\ scan \in Nat /\ len \in Nat /\ pos \in Nat /\ lastoffset \in Int
        /\ st \in 0..old.size /\ en \in 0..old.size /\ lastscan <= scan
    BY FileType DEF DiffTypeOK, BuffersFit
  <1> USE DEF files, matchVars, scoreVars, bracket, patchVars
  <1>1. CASE Load \/ NoCut
    BY <1>0, <1>1 DEF Load, NoCut, CutDue, DiffTypeOK, BuffersFit, ScanInv, OffsetReadsInBounds
  <1>9. CASE EndOfNew
    <2>1. scan = new.size
      BY <1>0, <1>9 DEF EndOfNew, DiffTypeOK
    <2> QED
      BY <1>9, <2>1 DEF EndOfNew, DiffTypeOK, BuffersFit, ScanInv, OffsetReadsInBounds
  <1>2. CASE LoadFails \/ WriteFails
    <2>1. pc' = "done" /\ created' \in {1, 5}
      BY <1>2 DEF LoadFails, WriteFails
    <2>2. UNCHANGED <<files, I, matchVars, scoreVars, bracket, patchVars>>
      BY <1>2 DEF LoadFails, WriteFails
    <2> QED
      BY <2>1, <2>2 DEF DiffTypeOK, BuffersFit, ScanInv, OffsetReadsInBounds
  <1>10. CASE Finish
    <2>1. scan = new.size
      BY <1>0, <1>10 DEF Finish, DiffTypeOK
    <2> QED
      BY <1>10, <2>1 DEF Finish, DiffTypeOK, BuffersFit, ScanInv, OffsetReadsInBounds
  <1>3. CASE NextMatch
    <2>1. /\ pc = "outer" /\ pc' = "inner" /\ oldscore' = 0
          /\ scan' = scan + len /\ scsc' = scan + len
          /\ UNCHANGED <<old, new, I, len, pos, st, en, lastscan, lastpos, lastoffset,
                         ctrl, db, eb, created>>
      BY <1>3 DEF NextMatch, Advanced
    <2>2. scan + len <= new.size
      BY <1>0, <1>3 DEF NextMatch, ScanInv
    <2>3. scan + lastoffset >= 0
      BY <2>1 DEF ScanInv
    <2>4. scan' \in 0..new.size /\ scsc' \in 0..new.size
      BY <1>0, <2>1, <2>2
    <2>5. DiffTypeOK'
      BY <2>1, <2>4 DEF DiffTypeOK
    <2>6. BuffersFit'
      BY <1>0, <2>1 DEF BuffersFit
    <2>7. scan' + lastoffset' >= 0 /\ scsc' + lastoffset' >= 0
      BY <1>0, <2>1, <2>3
    <2> QED
      BY <2>1, <2>5, <2>6, <2>7 DEF ScanInv, OffsetReadsInBounds
  <1>4. CASE StartSearch
    BY <1>0, <1>4 DEF StartSearch, DiffTypeOK, BuffersFit, ScanInv, OffsetReadsInBounds
  <1>5. CASE Narrow
    <2>1. st' \in 0..old.size /\ en' \in 0..old.size
      BY <1>0, <1>5 DEF Narrow
    <2>2. pc' = pc /\ UNCHANGED <<old, new, I, scan, len, pos, oldscore, scsc, lastscan, lastpos,
                                 lastoffset, ctrl, db, eb, created>>
      BY <1>5 DEF Narrow
    <2> QED
      BY <2>1, <2>2 DEF DiffTypeOK, BuffersFit, ScanInv, OffsetReadsInBounds
  <1>6. CASE Score
    BY <1>6, ScoreKeeps
  <1>7. CASE Cut
    BY <1>7, CutKeeps
  <1>8. CASE UNCHANGED diffVars
    BY <1>8 DEF diffVars, DiffTypeOK, BuffersFit, ScanInv, OffsetReadsInBounds
  <1> QED
    BY <1>1, <1>2, <1>3, <1>4, <1>5, <1>6, <1>7, <1>8, <1>9, <1>10 DEF DiffNext

LEMMA DiffStart == DiffInit => DiffInv
  <1> SUFFICES ASSUME DiffInit PROVE DiffInv
    OBVIOUS
  <1>1. /\ old.size \in Nat /\ new.size \in Nat
        /\ I \in [0..old.size -> 0..old.size]
    BY FileType, SuffixArraySorted DEF DiffInit, Sorted
  <1>2. <<>> \in Seq(Byte) /\ <<>> \in Seq(Triple) /\ Len(<<>>) = 0
    BY EmptySeq
  <1> QED
    BY <1>1, <1>2 DEF DiffInit, DiffInv, DiffTypeOK, BuffersFit, ScanInv, OffsetReadsInBounds, NoResult

-----------------------------------------------------------------------------
(* The search and the score.                                                 *)

\* The bracket of the search: what is left of it begins with a byte not greater than the
\* one looked for, what is right of it with one not less.
Bracketed ==
    pc = "search" =>
        /\ st < en \/ old.size = 0
        /\ st # 0 => /\ I[st] < old.size
                     /\ old.data[I[st]] <= new.data[scan]
        /\ en # old.size => /\ I[en] < old.size
                            /\ old.data[I[en]] >= new.data[scan]

\* The inductive invariant of the score.
ScoreInv == Sorted(old, I) /\ Bracketed /\ OldscoreExact

\* In the suffix array, first bytes do not decrease, and only the first suffix is empty.
LEMMA FirstBytes ==
    ASSUME NEW f \in Files, NEW array, Sorted(f, array),
           NEW r \in 0..f.size, NEW s \in 0..f.size, r <= s, s > 0
    PROVE  /\ array[s] < f.size
           /\ array[r] < f.size => f.data[array[r]] <= f.data[array[s]]
  <1>1. f.size \in Nat /\ \A k \in 0..(f.size - 1) : f.data[k] \in Nat
    BY FileBytes
  <1>2. array[r] \in 0..f.size /\ array[s] \in 0..f.size
    BY DEF Sorted
  <1>3. array[s] < f.size
    <2>1. 0 \in 0..f.size /\ 0 < s
      BY <1>1
    <2>2. SuffixLess(f, array[0], array[s])
      BY <2>1 DEF Sorted
    <2> QED
      BY <1>1, <1>2, <2>2 DEF SuffixLess
  <1>4. CASE r = s
    <2>1. f.data[array[s]] \in Nat
      BY <1>1, <1>2, <1>3
    <2> QED
      BY <1>3, <1>4, <2>1
  <1>5. CASE r < s
    <2>1. SuffixLess(f, array[r], array[s])
      BY <1>5 DEF Sorted
    <2> DEFINE i == array[r]
               j == array[s]
    <2> HIDE DEF i, j
    <2>2. i \in 0..f.size /\ j \in 0..f.size /\ j < f.size /\ SuffixLess(f, i, j)
      BY <1>2, <1>3, <2>1 DEF i, j
    <2>3. ASSUME i < f.size PROVE f.data[i] <= f.data[j]
      <3>1. f.data[i] \in Nat /\ f.data[j] \in Nat
        BY <1>1, <2>2, <2>3
      <3>2. PICK k \in 0..Least(f.size - i, f.size - j) :
              /\ \A h \in 0..(k - 1) : f.data[i + h] = f.data[j + h]
              /\ j + k < f.size
              /\ i + k = f.size \/ (i + k < f.size /\ f.data[i + k] < f.data[j + k])
        BY <2>2 DEF SuffixLess
      <3>3. k \in Nat
        BY <1>1, <2>2, <3>2 DEF Least
      <3>4. CASE k = 0
        <4>1. i + k = i /\ j + k = j
          BY <2>2, <3>4
        <4>2. f.data[i] < f.data[j]
          BY <2>3, <3>2, <4>1, <2>2
        <4> QED
          BY <3>1, <4>2
      <3>5. CASE k > 0
        <4>1. 0 \in 0..(k - 1) /\ i + 0 = i /\ j + 0 = j
          BY <2>2, <3>3, <3>5
        <4>2. f.data[i] = f.data[j]
          BY <3>2, <4>1
        <4> QED
          BY <3>1, <4>2
      <3> QED
        BY <3>3, <3>4, <3>5
    <2> QED
      BY <1>3, <2>3 DEF i, j
  <1> QED
    BY <1>2, <1>3, <1>4, <1>5

\* One turn of the search keeps the bracket.
LEMMA NarrowKeeps ==
    ASSUME DiffInv, Sorted(old, I), Bracketed, Narrow
    PROVE  Bracketed'
  <1>1. /\ pc = "search" /\ pc' = "search" /\ en - st >= 2
        /\ UNCHANGED <<old, new, I, scan>>
    BY DEF Narrow, files, matchVars
  <1>2. /\ old \in Files /\ new \in Files
        /\ st \in 0..old.size /\ en \in 0..old.size
        /\ scan \in 0..new.size /\ scan < new.size
    BY <1>1 DEF DiffInv, DiffTypeOK, ScanInv
  <1>3. /\ old.size \in Nat /\ new.size \in Nat
        /\ \A k \in 0..(old.size - 1) : old.data[k] \in Nat
        /\ \A k \in 0..(new.size - 1) : new.data[k] \in Nat
    BY <1>2, FileBytes
  <1>4. PICK x \in Int : /\ x = st + (en - st) \div 2
                         /\ st' = (IF Below(I[x], scan) THEN x ELSE st)
                         /\ en' = (IF Below(I[x], scan) THEN en ELSE x)
    BY <1>1, <1>2, <1>3 DEF Narrow
  <1>5. st < x /\ x < en /\ x \in 0..old.size /\ x # 0
    BY <1>1, <1>2, <1>3, <1>4
  <1>6. I[x] \in 0..old.size /\ I[x] < old.size
    <2>1. I[x] \in 0..old.size
      BY <1>5 DEF Sorted
    <2>2. x <= x /\ x > 0
      BY <1>2, <1>3, <1>5
    <2> QED
      BY <1>2, <1>5, <2>1, <2>2, FirstBytes
  <1> DEFINE i == I[x]
  <1> HIDE DEF i
  <1>7. i = I[x] /\ i \in 0..(old.size - 1) /\ old.data[i] \in Nat /\ new.data[scan] \in Nat
    BY <1>2, <1>3, <1>6 DEF i
  <1>8. ASSUME Below(i, scan) PROVE old.data[i] <= new.data[scan]
    <2>1. PICK k \in 0..(Least(old.size - i, new.size - scan) - 1) :
            /\ \A h \in 0..(k - 1) : old.data[i + h] = new.data[scan + h]
            /\ old.data[i + k] < new.data[scan + k]
      BY <1>8 DEF Below
    <2>2. k \in Nat
      BY <1>2, <1>3, <1>7, <2>1 DEF Least
    <2>3. CASE k = 0
      <3>1. i + k = i /\ scan + k = scan
        BY <1>2, <1>7, <2>3
      <3> QED
        BY <1>7, <2>1, <3>1
    <2>4. CASE k > 0
      <3>1. 0 \in 0..(k - 1) /\ i + 0 = i /\ scan + 0 = scan
        BY <1>2, <1>7, <2>2, <2>4
      <3> QED
        BY <1>7, <2>1, <3>1
    <2> QED
      BY <2>2, <2>3, <2>4
  <1>9. ASSUME ~Below(i, scan) PROVE old.data[i] >= new.data[scan]
    <2> SUFFICES ASSUME old.data[i] < new.data[scan] PROVE FALSE
      BY <1>7
    <2>1. /\ 0 \in 0..(Least(old.size - i, new.size - scan) - 1)
          /\ i + 0 = i /\ scan + 0 = scan
      BY <1>2, <1>3, <1>7 DEF Least
    <2>2. \A h \in 0..(0 - 1) : old.data[i + h] = new.data[scan + h]
      OBVIOUS
    <2>3. Below(i, scan)
      BY <2>1, <2>2 DEF Below
    <2> QED
      BY <1>9, <2>3
  <1>10. CASE Below(i, scan)
    <2>1. st' = x /\ en' = en
      BY <1>4, <1>7, <1>10
    <2> QED
      BY <1>1, <1>5, <1>6, <1>7, <1>8, <1>10, <2>1 DEF Bracketed
  <1>11. CASE ~Below(i, scan)
    <2>1. st' = st /\ en' = x
      BY <1>4, <1>7, <1>11
    <2> QED
      BY <1>1, <1>5, <1>6, <1>7, <1>9, <1>11, <2>1 DEF Bracketed
  <1> QED
    BY <1>10, <1>11

\* The search misses no byte: when it finds nothing, the byte is not in old.
LEMMA NothingMissed ==
    ASSUME DiffInv, Sorted(old, I), Bracketed, pc = "search", en - st < 2,
           NEW p, NEW n \in Int, Found(p, n),
           NEW i \in 0..(old.size - 1), old.data[i] = new.data[scan]
    PROVE  n > 0
  <1>1. /\ old \in Files /\ new \in Files
        /\ st \in 0..old.size /\ en \in 0..old.size
        /\ scan \in 0..new.size /\ scan < new.size
    BY DEF DiffInv, DiffTypeOK, ScanInv
  <1>2. /\ old.size \in Nat /\ new.size \in Nat /\ old.size > 0
        /\ \A k \in 0..(old.size - 1) : old.data[k] \in Nat
        /\ \A k \in 0..(new.size - 1) : new.data[k] \in Nat
    BY <1>1, FileBytes
  <1>3. st < en /\ en = st + 1 /\ en > 0 /\ new.data[scan] \in Nat
    BY <1>1, <1>2 DEF Bracketed
  <1>4. PICK r \in 0..old.size : I[r] = i
    <2>1. i \in 0..old.size
      BY <1>2
    <2> QED
      BY <2>1 DEF Sorted
  <1>5. I[st] \in 0..old.size /\ I[en] \in 0..old.size
    BY <1>1 DEF Sorted
  <1>6. \/ I[st] < old.size /\ old.data[I[st]] = new.data[scan]
        \/ I[en] < old.size /\ old.data[I[en]] = new.data[scan]
    <2>1. CASE r = st \/ r = en
      BY <1>2, <1>4, <2>1
    <2>2. CASE r < st
      <3>1. st # 0 /\ st > 0 /\ r <= st /\ I[r] < old.size
        BY <1>1, <1>2, <1>4, <2>2
      <3>2. old.data[I[r]] <= old.data[I[st]]
        BY <1>1, <3>1, FirstBytes
      <3>3. I[st] < old.size /\ old.data[I[st]] <= new.data[scan]
        BY <3>1 DEF Bracketed
      <3>4. old.data[I[st]] \in Nat
        BY <1>2, <1>5, <3>3
      <3> QED
        BY <1>3, <1>4, <3>2, <3>3, <3>4
    <2>3. CASE en < r
      <3>1. en # old.size /\ r > 0 /\ en <= r
        BY <1>1, <1>2, <2>3
      <3>2. I[en] < old.size /\ old.data[I[en]] >= new.data[scan]
        BY <3>1 DEF Bracketed
      <3>3. old.data[I[en]] <= old.data[I[r]]
        BY <1>1, <3>1, <3>2, FirstBytes
      <3>4. old.data[I[en]] \in Nat
        BY <1>2, <1>5, <3>2
      <3> QED
        BY <1>3, <1>4, <3>2, <3>3, <3>4
    <2> QED
      BY <1>1, <1>2, <1>3, <2>1, <2>2, <2>3
  <1>7. ASSUME NEW j \in 0..old.size, NEW m \in MatchLengths(j, scan)
        PROVE  /\ m \in Nat
               /\ j < old.size /\ old.data[j] = new.data[scan] => m > 0
    <2>1. Least(old.size - j, new.size - scan) \in Nat
      BY <1>1, <1>2 DEF Least
    <2>2. m \in Nat
      BY <1>7, <2>1 DEF MatchLengths
    <2>3. ASSUME m = 0, j < old.size, old.data[j] = new.data[scan] PROVE FALSE
      <3>1. 0 < Least(old.size - j, new.size - scan)
        BY <1>1, <1>2, <2>3 DEF Least
      <3>2. j + m = j /\ scan + m = scan
        BY <1>1, <2>3
      <3> QED
        BY <1>7, <2>3, <3>1, <3>2 DEF MatchLengths
    <2> QED
      BY <2>2, <2>3
  <1>8. PICK x \in MatchLengths(I[st], scan), y \in MatchLengths(I[en], scan) :
          IF x > y THEN p = I[st] /\ n = x ELSE p = I[en] /\ n = y
    BY DEF Found
  <1>9. /\ x \in Nat /\ y \in Nat
        /\ I[st] < old.size /\ old.data[I[st]] = new.data[scan] => x > 0
        /\ I[en] < old.size /\ old.data[I[en]] = new.data[scan] => y > 0
    BY <1>5, <1>7
  <1> QED
    BY <1>6, <1>8, <1>9

-----------------------------------------------------------------------------
(* The score.                                                                *)

\* The bytes of a part of new that continue the previous offset.
Continuing(a, b) == {k \in a..(b - 1) : Continues(k)}

\* They are counted part by part; where none does the count is 0.
LEMMA CountParts ==
    ASSUME NEW a \in Int, NEW b \in Int, NEW c \in Int, a <= b, b <= c
    PROVE  /\ Cardinality(Continuing(a, b)) \in Nat
           /\ Cardinality(Continuing(b, c)) \in Nat
           /\ Cardinality(Continuing(a, c)) =
                Cardinality(Continuing(a, b)) + Cardinality(Continuing(b, c))
  <1>1. /\ IsFiniteSet(Continuing(a, b)) /\ IsFiniteSet(Continuing(b, c))
        /\ Cardinality(Continuing(a, b)) \in Nat /\ Cardinality(Continuing(b, c)) \in Nat
    <2>1. IsFiniteSet(a..(b - 1)) /\ IsFiniteSet(b..(c - 1))
      BY FS_Interval
    <2>2. /\ Continuing(a, b) \in SUBSET (a..(b - 1))
          /\ Continuing(b, c) \in SUBSET (b..(c - 1))
      BY DEF Continuing
    <2>3. IsFiniteSet(Continuing(a, b)) /\ IsFiniteSet(Continuing(b, c))
      BY <2>1, <2>2, FS_Subset
    <2> QED
      BY <2>3, FS_CardinalityType
  <1>2. /\ Continuing(a, c) = Continuing(a, b) \cup Continuing(b, c)
        /\ Continuing(a, b) \cap Continuing(b, c) = {}
    BY DEF Continuing
  <1>3. /\ Cardinality(Continuing(a, b) \cup Continuing(b, c)) =
             Cardinality(Continuing(a, b)) + Cardinality(Continuing(b, c))
               - Cardinality(Continuing(a, b) \cap Continuing(b, c))
    BY <1>1, FS_Union
  <1>4. Cardinality(Continuing(a, b) \cap Continuing(b, c)) = 0
    BY <1>2, FS_EmptySet
  <1> QED
    BY <1>1, <1>2, <1>3, <1>4

LEMMA CountNone ==
    ASSUME NEW a \in Int, NEW b \in Int, \A k \in a..(b - 1) : ~Continues(k)
    PROVE  Cardinality(Continuing(a, b)) = 0
  <1>1. Continuing(a, b) = {}
    BY DEF Continuing
  <1> QED
    BY <1>1, FS_EmptySet

LEMMA CountEmpty ==
    ASSUME NEW a \in Int, NEW b \in Int, b <= a
    PROVE  Cardinality(Continuing(a, b)) = 0
  <1>1. a..(b - 1) = {}
    OBVIOUS
  <1>2. Continuing(a, b) = {}
    BY <1>1 DEF Continuing
  <1> QED
    BY <1>2, FS_EmptySet

LEMMA CountOne ==
    ASSUME NEW a \in Int
    PROVE  Cardinality(Continuing(a, a + 1)) = IF Continues(a) THEN 1 ELSE 0
  <1>1. a..((a + 1) - 1) = {a}
    OBVIOUS
  <1>2. Continuing(a, a + 1) = IF Continues(a) THEN {a} ELSE {}
    BY <1>1 DEF Continuing
  <1> QED
    BY <1>2, FS_EmptySet, FS_Singleton

\* Scoring a match keeps the count exact: what is passed over without being counted is a
\* byte that does not occur in old at all.
LEMMA ScoreExact ==
    ASSUME DiffInv, ScoreInv, Score
    PROVE  OldscoreExact'
  <1>1. /\ pc = "search" /\ en - st < 2
        /\ UNCHANGED <<old, new, lastoffset>>
    BY DEF Score, files, patchVars
  <1>2. /\ old \in Files /\ new \in Files
        /\ scan \in Nat /\ scan < new.size /\ scsc \in Nat /\ oldscore \in Int
        /\ lastoffset \in Int /\ scan + lastoffset >= 0
        /\ old.size \in Nat /\ new.size \in Nat
    BY <1>1, FileType DEF DiffInv, DiffTypeOK, ScanInv, OffsetReadsInBounds
  <1>3. PICK p \in 0..old.size, n \in 0..(new.size - scan) :
          /\ Found(p, n)
          /\ scsc' = IF scsc < scan + n THEN scan + n ELSE scsc
          /\ LET counted == oldscore + Cardinality(Continuing(scsc, scan + n))
             IN  pc' = "cut"
                   \/ /\ oldscore' = IF Continues(scan) THEN counted - 1 ELSE counted
                      /\ scan' = scan + 1
                      /\ pc' = "inner"
    <2>1. PICK p \in 0..old.size, n \in 0..(new.size - scan) :
            /\ Found(p, n)
            /\ LET counted == oldscore + Cardinality({k \in scsc..(scan + n - 1) : Continues(k)})
               IN  /\ scsc' = IF scsc < scan + n THEN scan + n ELSE scsc
                   /\ IF (n = counted /\ n # 0) \/ n > counted + Fuzz
                      THEN /\ oldscore' = counted
                           /\ scan' = scan
                           /\ pc' = "cut"
                      ELSE /\ oldscore' = IF Continues(scan) THEN counted - 1 ELSE counted
                           /\ scan' = scan + 1
                           /\ pc' = "inner"
      BY DEF Score
    <2> DEFINE part == {k \in scsc..(scan + n - 1) : Continues(k)}
    <2>2. part = Continuing(scsc, scan + n)
      <3>1. scsc..(scan + n - 1) = scsc..((scan + n) - 1)
        BY <1>2
      <3> QED
        BY <3>1 DEF Continuing
    <2> HIDE DEF part
    <2>3. /\ Found(p, n)
          /\ LET counted == oldscore + Cardinality(part)
             IN  /\ scsc' = IF scsc < scan + n THEN scan + n ELSE scsc
                 /\ IF (n = counted /\ n # 0) \/ n > counted + Fuzz
                    THEN /\ oldscore' = counted
                         /\ scan' = scan
                         /\ pc' = "cut"
                    ELSE /\ oldscore' = IF Continues(scan) THEN counted - 1 ELSE counted
                         /\ scan' = scan + 1
                         /\ pc' = "inner"
      BY <2>1 DEF part
    <2> DEFINE c == Cardinality(part)
    <2>4. /\ scsc' = IF scsc < scan + n THEN scan + n ELSE scsc
          /\ \/ pc' = "cut"
             \/ /\ oldscore' = IF Continues(scan) THEN (oldscore + c) - 1 ELSE oldscore + c
                /\ scan' = scan + 1
                /\ pc' = "inner"
      <3> HIDE DEF c
      <3>1. LET counted == oldscore + c
             IN  /\ scsc' = IF scsc < scan + n THEN scan + n ELSE scsc
                 /\ IF (n = counted /\ n # 0) \/ n > counted + Fuzz
                    THEN /\ oldscore' = counted
                         /\ scan' = scan
                         /\ pc' = "cut"
                    ELSE /\ oldscore' = IF Continues(scan) THEN counted - 1 ELSE counted
                         /\ scan' = scan + 1
                         /\ pc' = "inner"
        BY <2>3 DEF c
      <3> QED
        BY <3>1
    <2>5. c = Cardinality(Continuing(scsc, scan + n))
      BY <2>2
    <2> QED
      BY <2>3, <2>4, <2>5
  <1>4. n = 0 => ~Continues(scan)
    <2> SUFFICES ASSUME n = 0, Continues(scan) PROVE FALSE
      OBVIOUS
    <2>1. /\ scan + lastoffset \in 0..(old.size - 1)
          /\ old.data[scan + lastoffset] = new.data[scan]
      BY <1>2 DEF Continues
    <2>2. n > 0
      BY <1>1, <1>2, <1>3, <2>1, NothingMissed DEF ScoreInv
    <2> QED
      BY <2>2
  <1>5. /\ oldscore = Cardinality(Continuing(scan, scsc))
        /\ \A k \in scsc..(scan - 1) : ~Continues(k)
    BY <1>1 DEF ScoreInv, OldscoreExact, Continuing
  <1> DEFINE counted == oldscore + Cardinality(Continuing(scsc, scan + n))
  <1>6. n \in Nat /\ scsc' \in Nat /\ scsc' >= scan + n /\ scsc' >= scsc
    BY <1>2, <1>3
  <1>7. counted = Cardinality(Continuing(scan, scsc'))
    <2>1. CASE scsc >= scan + n
      <3>1. scsc' = scsc /\ \A k \in scsc..(scan + n - 1) : ~Continues(k)
        BY <1>2, <1>3, <1>6, <2>1
      <3>2. Cardinality(Continuing(scsc, scan + n)) = 0
        BY <1>2, <1>6, <3>1, CountNone
      <3> QED
        BY <1>2, <1>5, <3>1, <3>2
    <2>2. CASE scan <= scsc /\ scsc < scan + n
      BY <1>2, <1>3, <1>5, <1>6, <2>2, CountParts
    <2>3. CASE scsc < scan /\ scsc < scan + n
      <3>1. scsc' = scan + n
        BY <1>2, <1>3, <2>3
      <3>2. /\ scan \in Int /\ scsc \in Int /\ scan + n \in Int
            /\ scsc <= scan /\ scan <= scan + n
        BY <1>2, <1>6, <2>3
      <3>3. /\ Cardinality(Continuing(scan, scsc)) = 0
            /\ Cardinality(Continuing(scsc, scan)) = 0
        BY <1>5, <3>2, CountNone, CountEmpty
      <3>4. /\ Cardinality(Continuing(scsc, scan + n)) =
                 Cardinality(Continuing(scsc, scan)) + Cardinality(Continuing(scan, scan + n))
            /\ Cardinality(Continuing(scan, scan + n)) \in Nat
        BY <3>2, CountParts
      <3> QED
        BY <1>5, <3>1, <3>3, <3>4
    <2> QED
      BY <1>2, <1>6, <2>1, <2>2, <2>3
  <1>8. CASE pc' = "cut"
    BY <1>8 DEF OldscoreExact
  <1>9. CASE /\ oldscore' = (IF Continues(scan) THEN counted - 1 ELSE counted)
             /\ scan' = scan + 1
             /\ pc' = "inner"
    <2>1. oldscore' = Cardinality(Continuing(scan + 1, scsc'))
      <3>1. CASE scan < scsc'
        <4>1. /\ Cardinality(Continuing(scan, scsc')) =
                   Cardinality(Continuing(scan, scan + 1)) + Cardinality(Continuing(scan + 1, scsc'))
              /\ Cardinality(Continuing(scan + 1, scsc')) \in Nat
          <5>1. /\ scan \in Int /\ scan + 1 \in Int /\ scsc' \in Int
                /\ scan <= scan + 1 /\ scan + 1 <= scsc'
            BY <1>2, <1>6, <3>1
          <5> QED
            BY <5>1, CountParts
        <4>2. Cardinality(Continuing(scan, scan + 1)) = IF Continues(scan) THEN 1 ELSE 0
          BY <1>2, CountOne
        <4> HIDE DEF counted
        <4> QED
          BY <1>7, <1>9, <4>1, <4>2
      <3>2. CASE scsc' <= scan
        <4>1. n = 0 /\ ~Continues(scan)
          BY <1>2, <1>4, <1>6, <3>2
        <4>2. scan \in Int /\ scan + 1 \in Int /\ scsc' \in Int /\ scsc' <= scan + 1
          BY <1>2, <1>6, <3>2
        <4>3. /\ Cardinality(Continuing(scan, scsc')) = 0
              /\ Cardinality(Continuing(scan + 1, scsc')) = 0
          BY <3>2, <4>2, CountEmpty
        <4> HIDE DEF counted
        <4> QED
          BY <1>7, <1>9, <4>1, <4>3
      <3> QED
        BY <1>2, <1>6, <3>1, <3>2
    <2>2. \A k \in scsc'..((scan + 1) - 1) : ~Continues(k)
      <3> TAKE k \in scsc'..((scan + 1) - 1)
      <3>1. k \in scsc..(scan - 1) \/ (k = scan /\ n = 0)
        BY <1>2, <1>6
      <3> QED
        BY <1>4, <1>5, <3>1
    <2>3. \A k : Continues(k)' <=> Continues(k)
      BY <1>1 DEF Continues
    <2>4. {k \in (scan + 1)..(scsc' - 1) : Continues(k)'} = Continuing(scan + 1, scsc')
      BY <2>3 DEF Continuing
    <2> HIDE DEF counted
    <2>5. {k \in scan'..(scsc' - 1) : Continues(k)'} = Continuing(scan + 1, scsc')
      BY <1>9, <2>4
    <2>6. /\ oldscore' = Cardinality({k \in scan'..(scsc' - 1) : Continues(k)'})
          /\ \A k \in scsc'..(scan' - 1) : ~Continues(k)'
      <3>1. \A k \in scsc'..(scan' - 1) : ~Continues(k)'
        BY <1>9, <2>2, <2>3
      <3> QED
        BY <2>1, <2>5, <3>1
    <2> QED
      BY <2>6 DEF OldscoreExact
  <1> QED
    BY <1>3, <1>8, <1>9

\* The inductive invariant of the score is kept.
LEMMA ScoreStep ==
    ASSUME DiffInv, ScoreInv, [DiffNext]_diffVars
    PROVE  ScoreInv'
  <1> USE DEF ScoreInv
  <1>1. UNCHANGED <<old, new, I>>
    BY DEF DiffNext, diffVars, files, Load, LoadFails, NextMatch, StartSearch, EndOfNew,
           Narrow, Score, Cut, NoCut, Finish, WriteFails
  <1>2. Sorted(old, I)'
    BY <1>1
  <1>3. CASE pc' \notin {"inner", "search"}
    BY <1>2, <1>3 DEF Bracketed, OldscoreExact
  <1>4. CASE NextMatch
    <2>1. pc' = "inner" /\ oldscore' = 0 /\ scan' = scan + len /\ scsc' = scan + len
      BY <1>4 DEF NextMatch, Advanced
    <2>2. scan + len \in Int
      BY DEF DiffInv, DiffTypeOK
    <2>3. /\ scan'..(scsc' - 1) = {} /\ scsc'..(scan' - 1) = {}
      BY <2>1, <2>2
    <2>4. {k \in scan'..(scsc' - 1) : Continues(k)'} = {}
      BY <2>3
    <2>5. Cardinality({k \in scan'..(scsc' - 1) : Continues(k)'}) = 0
      BY <2>4, FS_EmptySet
    <2>6. OldscoreExact'
      BY <2>1, <2>3, <2>5 DEF OldscoreExact
    <2> QED
      BY <1>2, <2>1, <2>6 DEF Bracketed
  <1>5. ASSUME UNCHANGED <<pc, old, new, scan, scsc, oldscore, lastoffset>>
        PROVE  OldscoreExact'
    BY <1>5 DEF OldscoreExact, Continues
  <1>6. CASE StartSearch
    <2>1. /\ pc = "inner" /\ pc' = "search" /\ st' = 0 /\ en' = old.size
          /\ UNCHANGED <<old, new, scan, scsc, oldscore, lastoffset>>
      BY <1>6 DEF StartSearch, files, matchVars, scoreVars, patchVars
    <2>2. OldscoreExact'
      BY <2>1 DEF OldscoreExact, Continues
    <2>3. old.size \in Nat
      BY FileType DEF DiffInv, DiffTypeOK
    <2> QED
      BY <1>1, <1>2, <2>1, <2>2, <2>3 DEF Bracketed
  <1>7. CASE Narrow
    <2>1. UNCHANGED <<pc, old, new, scan, scsc, oldscore, lastoffset>>
      BY <1>7 DEF Narrow, files, matchVars, scoreVars, patchVars
    <2> QED
      BY <1>2, <1>5, <1>7, <2>1, NarrowKeeps
  <1>8. CASE Score
    <2>1. Bracketed'
      BY <1>8 DEF Score, Bracketed
    <2> QED
      BY <1>2, <1>8, <2>1, ScoreExact
  <1>9. CASE UNCHANGED diffVars
    BY <1>2, <1>5, <1>9 DEF diffVars, files, bracket, matchVars, scoreVars, patchVars, Bracketed
  <1>10. CASE Load \/ LoadFails \/ EndOfNew \/ Cut \/ NoCut \/ Finish \/ WriteFails
    BY <1>3, <1>10 DEF Load, LoadFails, EndOfNew, Cut, NoCut, Finish, WriteFails
  <1> QED
    BY <1>4, <1>6, <1>7, <1>8, <1>9, <1>10 DEF DiffNext

LEMMA ScoreStart == DiffInit => ScoreInv
  <1> SUFFICES ASSUME DiffInit PROVE ScoreInv
    OBVIOUS
  <1>1. Sorted(old, I)
    BY SuffixArraySorted DEF DiffInit
  <1> QED
    BY <1>1 DEF DiffInit, ScoreInv, Bracketed, OldscoreExact

-----------------------------------------------------------------------------
(* The theorems.                                                             *)

\* The inductive invariant holds in every run of bsdiff_perform.
THEOREM DiffInvariant == DiffSpec => []DiffInv
  BY DiffStart, DiffStep, PTL DEF DiffSpec

\* bsdiff_perform's locals keep their types: the positions in both files stay
\* inside them (bsdiff.c:274-352).
THEOREM DiffTypes == DiffSpec => []DiffTypeOK
  <1>1. DiffInv => DiffTypeOK
    BY DEF DiffInv
  <1> QED
    BY <1>1, DiffInvariant, PTL

\* db and eb never hold more than the newsize+1 bytes allocated (bsdiff.c:243),
\* whatever the files and the matches.
THEOREM DiffBuffersFit == DiffSpec => []BuffersFit
  <1>1. DiffInv => BuffersFit
    BY DEF DiffInv
  <1> QED
    BY <1>1, DiffInvariant, PTL

\* The reads of old at the previous offset, tested against the upper bound
\* only (bsdiff.c:282, 289), are never below 0.
THEOREM DiffOffsetReads == DiffSpec => []OffsetReadsInBounds
  <1>1. DiffInv => OffsetReadsInBounds
    BY DEF DiffInv
  <1> QED
    BY <1>1, DiffInvariant, PTL

\* A patch reported as created covers all of new (bsdiff.c:294, 349).
THEOREM DiffComplete == DiffSpec => []Complete
  <1>1. DiffInv => Complete
    BY DEF DiffInv, ScanInv, BuffersFit, Complete
  <1> QED
    BY <1>1, DiffInvariant, PTL
\* The inductive invariant of the score: the suffix array is sorted and misses no
\* position, and the search keeps what it looks for within its bracket.
THEOREM ScoreInvariant == DiffSpec => []ScoreInv
  BY DiffInvariant, ScoreStart, ScoreStep, PTL DEF DiffSpec

\* oldscore, adjusted by each step of the scan (bsdiff.c:281-291), is at each search the
\* number of bytes that continue the previous offset.
THEOREM OldscoreExactHolds == DiffSpec => []OldscoreExact
  <1>1. ScoreInv => OldscoreExact
    BY DEF ScoreInv
  <1> QED
    BY <1>1, ScoreInvariant, PTL
=============================================================================
