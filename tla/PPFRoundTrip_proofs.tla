------------------------- MODULE PPFRoundTrip_proofs -------------------------
(***************************************************************************)
(* applyPPF on patches nobody made, for all patches, files, block places   *)
(* and limits; then makePPF, and what it makes applied by applyPPF, for    *)
(* all files, options, sizes of chunks and limits of a record.             *)
(***************************************************************************)
EXTENDS PPFRoundTrip, SequenceTheorems, WellFoundedInduction, TLAPS

-----------------------------------------------------------------------------
(* applyPPF                                                                  *)

\* What a patch and a file are read as, whatever is in them.
IsPatch(p) ==
    /\ p.version \in 0..3 /\ p.imagetype \in 0..1 /\ p.blockcheck \in 0..1 /\ p.undo \in 0..1
    /\ p.records \in Seq(Readable)
    /\ p.undo = 1 => \A n \in 1..Len(p.records) :
                        Len(p.records[n].old) = Len(p.records[n].data)
    /\ p.version = 1 => p.fileid = NoFileId
    /\ p.fileid \in Nat \cup {NoFileId} /\ p.torn \in Nat

IsFile(f) ==
    /\ f = [size |-> f.size, data |-> f.data]
    /\ f.size \in Nat /\ f.data \in [0..(f.size - 1) -> Byte]

\* A file read behind its end, where a later write leaves a hole of zeros.
ByteAt(f, k) == IF k < f.size THEN f.data[k] ELSE 0

-----------------------------------------------------------------------------
(* The natural numbers are well-founded, and what follows for the size of    *)
(* the records, which PPFFormat defines by recursion.                        *)

\* A set of natural numbers that is not empty has a least element.
LEMMA LeastNumber ==
    ASSUME NEW S \in SUBSET Nat, S # {}
    PROVE  \E m \in S : \A k \in S : m <= k
  <1> DEFINE R == OpToRel(<, Nat)
  <1>1. PICK m \in S : \A k \in S : ~ (<<k, m>> \in R)
    <2>1. IsWellFoundedOn(R, Nat)
      BY NatLessThanWellFounded
    <2> HIDE DEF R
    <2> QED
      BY <2>1, WFMin, Zenon
  <1>2. \A k \in S : <<k, m>> \in R <=> k < m
    BY DEF OpToRel
  <1>3. \A k \in S : ~(k < m)
    BY <1>1, <1>2
  <1> QED
    BY <1>3

\* Partial sums of a sequence of numbers exist: PPFFormat's recursion defines them.
SumsTo(n, g, f) == f \in [0..n -> Int] /\ f[0] = 0 /\ \A k \in 1..n : f[k] = f[k - 1] + g[k]

LEMMA SumsExist ==
    ASSUME NEW N \in Nat, NEW g, \A k \in 1..N : g[k] \in Int
    PROVE  \E f : SumsTo(N, g, f)
  <1> DEFINE Bad == {n \in 0..N : ~ \E f : SumsTo(n, g, f)}
  <1>1. SUFFICES ASSUME Bad # {} PROVE FALSE
    OBVIOUS
  <1>2. PICK m \in Bad : \A k \in Bad : m <= k
    <2>1. Bad \in SUBSET Nat
      OBVIOUS
    <2> HIDE DEF Bad
    <2> QED
      BY <1>1, <2>1, LeastNumber
  <1>3. CASE m = 0
    <2> DEFINE z == [k \in 0..0 |-> 0]
    <2>1. SumsTo(0, g, z)
      BY DEF SumsTo
    <2> QED
      BY <1>2, <1>3, <2>1
  <1>4. CASE m # 0
    <2>1. m \in 1..N /\ m - 1 \in 0..N /\ m - 1 \in Nat
      BY <1>2, <1>4
    <2>2. m - 1 \notin Bad
      BY <1>2, <2>1
    <2>3. PICK f : SumsTo(m - 1, g, f)
      BY <2>1, <2>2
    <2> DEFINE h == [k \in 0..m |-> IF k = m THEN f[m - 1] + g[m] ELSE f[k]]
    <2>4. SumsTo(m, g, h)
      <3>1. h \in [0..m -> Int]
        BY <2>1, <2>3 DEF SumsTo
      <3>2. h[0] = 0
        BY <2>1, <2>3 DEF SumsTo
      <3>3. ASSUME NEW k \in 1..m PROVE h[k] = h[k - 1] + g[k]
        <4>1. CASE k = m
          BY <2>1, <4>1
        <4>2. CASE k # m
          <5>1. k \in 1..(m - 1) /\ k \in 0..m /\ k - 1 \in 0..m /\ k - 1 # m
            BY <2>1, <4>2
          <5>2. h[k] = f[k] /\ h[k - 1] = f[k - 1]
            BY <4>2, <5>1
          <5> QED
            BY <2>3, <5>1, <5>2 DEF SumsTo
        <4> QED
          BY <4>1, <4>2
      <3> QED
        BY <3>1, <3>2, <3>3 DEF SumsTo
    <2> QED
      BY <1>2, <2>4
  <1> QED
    BY <1>3, <1>4

LEMMA RecordTypes ==
    ASSUME NEW p, IsPatch(p), NEW n \in 1..Len(p.records)
    PROVE  /\ p.records[n].offset \in Int
           /\ p.records[n].data \in Seq(Byte) /\ Len(p.records[n].data) \in Nat
           /\ p.records[n].old \in Seq(Byte) /\ Len(p.records[n].old) \in Nat
  <1>1. p.records[n] \in Readable
    BY ElementOfSeq DEF IsPatch
  <1>2. /\ p.records[n].offset \in Int /\ p.records[n].data \in Seq(Byte)
        /\ p.records[n].old \in Seq(Byte)
    BY <1>1 DEF Readable
  <1> QED
    BY <1>2, LenProperties

LEMMA RecordSizePositive ==
    ASSUME NEW p, IsPatch(p), NEW n \in 1..Len(p.records)
    PROVE  RecordSize(p, p.records[n]) \in Nat \ {0}
  <1>1. PICK d \in Nat : d = Len(p.records[n].data)
    BY RecordTypes
  <1>2. p.undo * d \in Nat
    <2>1. p.undo = 0 \/ p.undo = 1
      BY DEF IsPatch
    <2> QED
      BY <2>1
  <1>3. OffsetLen(p.version) \in {4, 8}
    BY DEF OffsetLen
  <1>4. PICK u \in Nat : u = p.undo * d
    BY <1>2
  <1>5. RecordSize(p, p.records[n]) = OffsetLen(p.version) + 1 + d + u
    BY <1>1, <1>4 DEF RecordSize
  <1> QED
    BY <1>3, <1>5

\* RecordBytes are the partial sums of the records' sizes.
LEMMA RecordBytesSum ==
    ASSUME NEW p, IsPatch(p)
    PROVE  /\ RecordBytes(p)[0] = 0
           /\ \A n \in 0..Len(p.records) : RecordBytes(p)[n] \in Int
           /\ \A n \in 1..Len(p.records) :
                RecordBytes(p)[n] = RecordBytes(p)[n - 1] + RecordSize(p, p.records[n])
  <1> DEFINE N == Len(p.records)
             g == [n \in 1..N |-> RecordSize(p, p.records[n])]
             Sum(s) == s = [n \in 0..N |->
                              IF n = 0 THEN 0 ELSE s[n - 1] + RecordSize(p, p.records[n])]
  <1>1. N \in Nat
    BY LenProperties DEF IsPatch
  <1>2. \A n \in 1..N : g[n] \in Int
    BY RecordSizePositive
  <1>3. PICK f : SumsTo(N, g, f)
    <2> HIDE DEF g, N
    <2> QED
      BY <1>1, <1>2, SumsExist
  <1>4. Sum(f)
    <2>1. f = [n \in 0..N |-> f[n]]
      BY <1>3 DEF SumsTo
    <2>2. ASSUME NEW n \in 0..N
          PROVE  f[n] = IF n = 0 THEN 0 ELSE f[n - 1] + RecordSize(p, p.records[n])
      <3>1. CASE n = 0
        BY <1>3, <3>1 DEF SumsTo
      <3>2. CASE n # 0
        <4>1. n \in 1..N
          BY <1>1, <3>2
        <4>2. f[n] = f[n - 1] + g[n] /\ g[n] = RecordSize(p, p.records[n])
          BY <1>3, <4>1 DEF SumsTo
        <4> QED
          BY <3>2, <4>2
      <3> QED
        BY <3>1, <3>2
    <2> QED
      BY <2>1, <2>2, Zenon
  <1>5. RecordBytes(p) = CHOOSE s : Sum(s)
    BY DEF RecordBytes
  <1>6. Sum(RecordBytes(p))
    <2> HIDE DEF Sum
    <2> QED
      BY <1>4, <1>5, Zenon
  <1>7. \A n \in 0..N :
           RecordBytes(p)[n] = IF n = 0 THEN 0
                               ELSE RecordBytes(p)[n - 1] + RecordSize(p, p.records[n])
    BY <1>6
  <1>8. \A n \in 1..N : RecordBytes(p)[n] = RecordBytes(p)[n - 1] + RecordSize(p, p.records[n])
    BY <1>1, <1>7
  <1>9. RecordBytes(p)[0] = 0
    BY <1>1, <1>7
  <1> DEFINE r == RecordBytes(p)
             Odd == {n \in 0..N : r[n] \notin Int}
  <1>10. Odd = {}
    <2>1. SUFFICES ASSUME Odd # {} PROVE FALSE
      OBVIOUS
    <2>2. PICK m \in Odd : \A k \in Odd : m <= k
      <3>1. Odd \in SUBSET Nat
        OBVIOUS
      <3> HIDE DEF Odd
      <3> QED
        BY <2>1, <3>1, LeastNumber
    <2>3. m \in 1..N /\ m - 1 \in 0..N /\ m - 1 < m
      BY <1>1, <1>9, <2>2
    <2>4. r[m - 1] \in Int
      BY <2>2, <2>3
    <2>5. r[m] = r[m - 1] + RecordSize(p, p.records[m])
      BY <1>8, <2>3
    <2>6. RecordSize(p, p.records[m]) \in Nat
      BY <2>3, RecordSizePositive
    <2> QED
      BY <2>2, <2>4, <2>5, <2>6
  <1> QED
    BY <1>8, <1>9, <1>10

\* As long as there are records left, there are bytes left.
LEMMA BytesLeft ==
    ASSUME NEW p, IsPatch(p), NEW n \in 0..Len(p.records), n # Len(p.records)
    PROVE  RecordBytes(p)[n] < RecordBytes(p)[Len(p.records)]
  <1> DEFINE N == Len(p.records)
             r == RecordBytes(p)
             Low == {k \in (n + 1)..N : ~(r[n] < r[k])}
  <1>1. N \in Nat
    BY LenProperties DEF IsPatch
  <1>2. \A k \in 0..N : r[k] \in Int
    BY RecordBytesSum
  <1>3. ASSUME NEW k \in 1..N PROVE r[k - 1] < r[k]
    <2>1. r[k] = r[k - 1] + RecordSize(p, p.records[k])
      BY RecordBytesSum
    <2>2. RecordSize(p, p.records[k]) \in Nat \ {0}
      BY RecordSizePositive
    <2>3. r[k] \in Int /\ r[k - 1] \in Int
      <3>1. k \in 0..N /\ k - 1 \in 0..N
        BY <1>1
      <3> QED
        BY <1>2, <3>1
    <2> HIDE DEF r
    <2> QED
      BY <2>1, <2>2, <2>3
  <1> HIDE DEF r, N
  <1>4. Low = {}
    <2>1. SUFFICES ASSUME Low # {} PROVE FALSE
      OBVIOUS
    <2>2. PICK m \in Low : \A k \in Low : m <= k
      <3>1. Low \in SUBSET Nat
        BY DEF N
      <3> HIDE DEF Low
      <3> QED
        BY <2>1, <3>1, LeastNumber
    <2>3. m \in 1..N /\ m \in (n + 1)..N /\ ~(r[n] < r[m]) /\ n \in 0..N
      BY <1>1, <2>2 DEF N
    <2>4. r[m - 1] < r[m]
      BY <1>3, <2>3
    <2>5. m - 1 \in 0..N /\ m \in 0..N
      BY <1>1, <2>3
    <2>6. r[n] \in Int /\ r[m - 1] \in Int /\ r[m] \in Int
      BY <1>2, <2>3, <2>5
    <2>7. ~(r[n] < r[m - 1]) /\ n # m - 1
      BY <2>3, <2>4, <2>6
    <2>8. m - 1 \in (n + 1)..N
      BY <1>1, <2>3, <2>7
    <2>9. m - 1 \in Low
      BY <2>7, <2>8
    <2> QED
      BY <2>2, <2>3, <2>9
  <1>5. N \in (n + 1)..N
    BY <1>1 DEF N
  <1> QED
    BY <1>4, <1>5 DEF r, N
-----------------------------------------------------------------------------
(* What has been written.                                                    *)

\* The bytes a record is for, in the direction it is applied.
Bytes(n) == IF mode = "UNDO" THEN patch.records[n].old ELSE patch.records[n].data

CoveredBy(n, k) ==
    patch.records[n].offset <= k /\ k < patch.records[n].offset + Len(patch.records[n].data)

\* Expected, of the first m records only.
CoveringTo(m, k) == {n \in 1..m : CoveredBy(n, k)}
LatestTo(m, k) == CHOOSE n \in CoveringTo(m, k) : \A l \in CoveringTo(m, k) : l <= n
ExpectedTo(m, k) ==
    IF CoveringTo(m, k) = {} THEN ByteAt(input, k)
    ELSE Bytes(LatestTo(m, k))[k - patch.records[LatestTo(m, k)].offset + 1]

WrittenTo(m) == \A k \in Nat : ByteAt(output, k) = ExpectedTo(m, k)

\* What is said of the bytes is said of offsets that can be sought and of writes that
\* got through.
Clean == Placeable(patch) /\ ~lost

\* Records that lie within the file leave its size as it is.
KeepsSize ==
    (\A n \in 1..Len(patch.records) :
        patch.records[n].offset + Len(patch.records[n].data) <= input.size)
      => output.size = input.size

\* A text of length zero counts as none, so its frame is taken for records.
Slack == IF patch.fileid = 0 THEN IdFrame(patch.version) ELSE 0

\* count is what the records from next on take, and the frame.
Counted ==
    patch.torn = 0 =>
        count = RecordBytes(patch)[Len(patch.records)] - RecordBytes(patch)[next - 1] + Slack

-----------------------------------------------------------------------------
(* The invariant.                                                            *)

Checking == {"open", "size", "undo", "block", "start"}
Codes == {0, OPEN_FAILED, WRONG_SIZE, VALIDATION_FAILED, NO_UNDO_DATA, VERSION_UNSUPPORTED,
          NOT_COPIED}

ApplyTypes ==
    /\ ppc \in {"idle"} \cup Checking \cup {"records", "beyond", "returned"}
    /\ IsPatch(patch) /\ IsFile(input) /\ mode \in {"APPLY", "UNDO"}
    /\ output = Absent \/ IsFile(output)
    /\ ppc # "idle" => IsFile(output)
    /\ count \in Int /\ next \in Nat \ {0} /\ place \in Nat /\ lost \in BOOLEAN
    /\ IF ppc = "returned" THEN applied \in Codes ELSE applied = Applying
    /\ ppc \in {"idle", "open", "size", "undo", "block"} => overruled = FALSE

\* The records are, or have been, gone through.
Loops == ppc \in {"start", "records", "beyond"} \/ (ppc = "returned" /\ applied = 0)

\* Which checks of which version it comes through.
Stages ==
    /\ ppc = "size" => patch.version = 2
    /\ ppc = "undo" => patch.version = 3
    /\ ppc = "block" => patch.version = 2 \/ (patch.version = 3 /\ patch.blockcheck = 1)
    /\ ppc \in {"size", "block"} \/ Loops =>
          patch.version # 0 /\ (mode = "UNDO" => patch.version = 3)
    /\ ppc = "block" \/ Loops => (mode = "UNDO" => patch.undo = 1)

\* The validation block as far as the file has one.
BlockSeen ==
    ~overruled /\ (patch.version = 2 \/ (patch.version = 3 /\ patch.blockcheck = 1)) =>
        \A j \in Block : BlockAt[patch.imagetype] + j < input.size =>
                             input.data[BlockAt[patch.imagetype] + j] = patch.block[j]

ApplyInv ==
    /\ ApplyTypes
    /\ Stages
    /\ ppc \in Checking => output = input
    /\ RefusedUntouched
    /\ Loops => BlockSeen
    /\ ppc = "records" =>
          /\ next - 1 <= Len(patch.records) /\ (next = 1 \/ count # 0)
          /\ Counted
          /\ Clean => WrittenTo(next - 1) /\ KeepsSize
    /\ ppc = "beyond" => patch.torn # 0 \/ Slack # 0 \/ patch.records = <<>>
    /\ ppc = "returned" /\ applied = 0 /\ patch.torn = 0
         /\ (patch.version = 3 \/ Endable(patch)) =>
          /\ next > Len(patch.records)
          /\ Clean => WrittenTo(Len(patch.records)) /\ KeepsSize

-----------------------------------------------------------------------------
(* Writing.                                                                  *)

\* A file stays a file, of bytes, whatever is written to it and where.
LEMMA WrittenIsFile ==
    ASSUME NEW f, IsFile(f), NEW at \in Nat, NEW b \in Seq(Byte)
    PROVE  IsFile(Written(f, at, b))
  <1> DEFINE n == Len(b)
             s == IF n > 0 /\ at + n > f.size THEN at + n ELSE f.size
             d == [p \in 0..(s - 1) |->
                     CASE p >= at /\ p < at + n -> b[p - at + 1]
                       [] OTHER -> IF p < f.size THEN f.data[p] ELSE 0]
  <1>1. Written(f, at, b) = [size |-> s, data |-> d]
    BY DEF Written
  <1>2. n \in Nat /\ f.size \in Nat
    BY LenProperties DEF IsFile
  <1>3. s \in Nat
    BY <1>2
  <1>4. ASSUME NEW p \in 0..(s - 1) PROVE d[p] \in Byte
    <2> DEFINE hit == p >= at /\ p < at + n
    <2>1. CASE hit
      <3>1. p - at + 1 \in 1..n
        BY <1>2, <1>3, <2>1
      <3>2. b[p - at + 1] \in Byte
        BY <3>1, ElementOfSeq
      <3> QED
        BY <2>1, <3>2
    <2>2. CASE ~hit
      <3>1. d[p] = IF p < f.size THEN f.data[p] ELSE 0
        BY <2>2
      <3>2. p < f.size => p \in 0..(f.size - 1)
        BY <1>2, <1>3
      <3>3. p < f.size => f.data[p] \in Byte
        BY <3>2 DEF IsFile
      <3>4. 0 \in Byte
        BY DEF Byte
      <3> QED
        BY <3>1, <3>3, <3>4, Zenon
    <2> QED
      BY <2>1, <2>2
  <1>5. d \in [0..(s - 1) -> Byte]
    <2>1. d = [p \in 0..(s - 1) |-> d[p]]
      OBVIOUS
    <2> HIDE DEF d
    <2> QED
      BY <1>4, <2>1
  <1> HIDE DEF d, s
  <1> QED
    BY <1>1, <1>3, <1>5 DEF IsFile

\* What is at every position after a write, behind the end too.
LEMMA WrittenByte ==
    ASSUME NEW f, IsFile(f), NEW at \in Nat, NEW b \in Seq(Byte), NEW k \in Nat
    PROVE  ByteAt(Written(f, at, b), k)
             = IF at <= k /\ k < at + Len(b) THEN b[k - at + 1] ELSE ByteAt(f, k)
  <1> DEFINE n == Len(b)
             s == IF n > 0 /\ at + n > f.size THEN at + n ELSE f.size
             d == [p \in 0..(s - 1) |->
                     CASE p >= at /\ p < at + n -> b[p - at + 1]
                       [] OTHER -> IF p < f.size THEN f.data[p] ELSE 0]
  <1>1. Written(f, at, b).size = s /\ Written(f, at, b).data = d
    BY DEF Written
  <1>2. n \in Nat /\ f.size \in Nat
    BY LenProperties DEF IsFile
  <1>3. s \in Nat
    BY <1>2
  <1>4. ByteAt(Written(f, at, b), k) = IF k < s THEN d[k] ELSE 0
    BY <1>1 DEF ByteAt
  <1> DEFINE hit == at <= k /\ k < at + n
  <1>5. CASE hit
    <2>1. k < s /\ k \in 0..(s - 1)
      BY <1>2, <1>3, <1>5
    <2>2. d[k] = b[k - at + 1]
      BY <1>5, <2>1
    <2> QED
      BY <1>4, <1>5, <2>1, <2>2
  <1>6. CASE ~hit
    <2>1. CASE k < s
      <3>1. k \in 0..(s - 1)
        BY <1>3, <2>1
      <3>2. d[k] = IF k < f.size THEN f.data[k] ELSE 0
        BY <1>6, <3>1
      <3> QED
        BY <1>4, <1>6, <2>1, <3>2 DEF ByteAt
    <2>2. CASE ~(k < s)
      <3>1. ~(k < f.size)
        BY <1>2, <1>3, <2>2
      <3> QED
        BY <1>4, <1>6, <2>2, <3>1 DEF ByteAt
    <2> QED
      BY <2>1, <2>2
  <1> QED
    BY <1>5, <1>6

\* Nothing is written behind the end of a write that ends within the file.
LEMMA WrittenSize ==
    ASSUME NEW f, IsFile(f), NEW at \in Nat, NEW b \in Seq(Byte), at + Len(b) <= f.size
    PROVE  Written(f, at, b).size = f.size
  <1>1. Len(b) \in Nat /\ f.size \in Nat
    BY LenProperties DEF IsFile
  <1> QED
    BY <1>1 DEF Written

\* One record more: where it lies it is the latest, elsewhere nothing changes.
LEMMA OneRecordMore ==
    ASSUME IsPatch(patch), NEW m \in Nat, m < Len(patch.records), NEW k \in Nat
    PROVE  ExpectedTo(m + 1, k)
             = IF CoveredBy(m + 1, k) THEN Bytes(m + 1)[k - patch.records[m + 1].offset + 1]
               ELSE ExpectedTo(m, k)
  <1>1. 1..(m + 1) = 1..m \cup {m + 1}
    OBVIOUS
  <1>2. CASE CoveredBy(m + 1, k)
    <2>1. m + 1 \in CoveringTo(m + 1, k) /\ \A l \in CoveringTo(m + 1, k) : l <= m + 1
      BY <1>1, <1>2 DEF CoveringTo
    <2>2. ASSUME NEW n \in CoveringTo(m + 1, k), \A l \in CoveringTo(m + 1, k) : l <= n
          PROVE  n = m + 1
      <3>1. n \in 1..(m + 1) /\ m + 1 <= n
        BY <2>1, <2>2 DEF CoveringTo
      <3> QED
        BY <3>1
    <2>3. LatestTo(m + 1, k) = m + 1
      BY <2>1, <2>2 DEF LatestTo
    <2> QED
      BY <1>2, <2>1, <2>3 DEF ExpectedTo
  <1>3. CASE ~CoveredBy(m + 1, k)
    <2>1. CoveringTo(m + 1, k) = CoveringTo(m, k)
      BY <1>1, <1>3 DEF CoveringTo
    <2>2. LatestTo(m + 1, k) = LatestTo(m, k)
      BY <2>1 DEF LatestTo
    <2>3. ExpectedTo(m + 1, k) = ExpectedTo(m, k)
      BY <2>1, <2>2, Zenon DEF ExpectedTo
    <2> QED
      BY <1>3, <2>3
  <1> QED
    BY <1>2, <1>3

-----------------------------------------------------------------------------
(* The steps.                                                                *)

LEMMA ApplyStart == ApplyInit => ApplyInv
  <1> SUFFICES ASSUME ApplyInit PROVE ApplyInv
    OBVIOUS
  <1>1. IsPatch(patch)
    BY DEF ApplyInit, NoPatch, IsPatch, NoFileId
  <1>2. IsFile(input)
    BY DEF ApplyInit, NoInput, IsFile
  <1>3. place \in Nat /\ lost \in BOOLEAN
    BY DEF ApplyInit
  <1>4. ApplyTypes
    BY <1>1, <1>2, <1>3 DEF ApplyInit, ApplyTypes, Checking
  <1> QED
    BY <1>4 DEF ApplyInit, ApplyInv, Stages, Checking, RefusedUntouched, Loops

\* A call, whatever the patch and the file.
LEMMA CopyAndApplyKeepsInv ==
    ASSUME ApplyInv, NEW p, NEW f, IsPatch(p), IsFile(f), CopyAndApply(p, f)
    PROVE  ApplyInv'
  <1>1. ApplyTypes /\ ppc = "idle" /\ patch' = p /\ input' = f /\ mode' = "APPLY"
        /\ UNCHANGED <<count, next, place, lost, overruled>>
    BY DEF ApplyInv, CopyAndApply, loopVars
  <1>2. \/ output' = f /\ ppc' = "open" /\ applied' = Applying
        \/ output' = output /\ output # Absent /\ ppc' = "returned" /\ applied' = NOT_COPIED
    BY DEF CopyAndApply
  <1>3. IsPatch(patch)' /\ IsFile(input)' /\ IsFile(output)'
    BY <1>1, <1>2, Zenon DEF ApplyTypes, IsPatch, IsFile
  <1>4. ApplyTypes'
    BY <1>1, <1>2, <1>3, Zenon DEF ApplyTypes, Checking, Codes
  <1>5. ~Loops' /\ Stages' /\ RefusedUntouched' /\ (ppc \in Checking => output = input)'
    BY <1>1, <1>2 DEF Loops, Stages, RefusedUntouched, Checking, NOT_COPIED
  <1> QED
    BY <1>1, <1>2, <1>4, <1>5 DEF ApplyInv, NOT_COPIED

LEMMA InPlaceKeepsInv ==
    ASSUME ApplyInv, NEW p, NEW how \in {"APPLY", "UNDO"}, IsPatch(p), InPlace(p, how)
    PROVE  ApplyInv'
  <1>1. /\ ApplyTypes /\ ppc = "idle" /\ output # Absent
        /\ patch' = p /\ input' = output /\ mode' = how /\ output' = output
        /\ ppc' = "open" /\ applied' = Applying
        /\ UNCHANGED <<count, next, place, lost, overruled>>
    BY DEF ApplyInv, InPlace, loopVars
  <1>2. IsPatch(patch)' /\ IsFile(input)' /\ IsFile(output)'
    BY <1>1, Zenon DEF ApplyTypes, IsPatch, IsFile
  <1>3. ApplyTypes'
    BY <1>1, <1>2, Zenon DEF ApplyTypes, Checking
  <1>4. ~Loops' /\ Stages' /\ RefusedUntouched'
    BY <1>1 DEF Loops, Stages, RefusedUntouched
  <1> QED
    BY <1>1, <1>3, <1>4 DEF ApplyInv

\* An error return before anything is written.
LEMMA ErrorKeepsInv ==
    ASSUME ApplyInv, ppc \in Checking, NEW r \in Codes \ {0}, ApplyReturn(r)
    PROVE  ApplyInv'
  <1>1. /\ ApplyTypes /\ output = input /\ ppc' = "returned" /\ applied' = r
        /\ UNCHANGED <<patch, input, mode, output, count, next, place, lost, overruled>>
    BY DEF ApplyInv, ApplyReturn, applyInput, loopVars
  <1>2. ApplyTypes'
    BY <1>1 DEF ApplyTypes, Checking, IsPatch, IsFile
  <1> QED
    BY <1>1, <1>2 DEF ApplyInv, Stages, Loops, RefusedUntouched, Checking

\* A check that is passed, with nothing but the stage changed.
LEMMA GoOnKeepsInv ==
    ASSUME ApplyInv, ppc \in {"open", "size", "undo"}, NEW to \in Checking, GoOn(to),
           Stages', to = "start" => BlockSeen
    PROVE  ApplyInv'
  <1>1. /\ ApplyTypes /\ output = input /\ ppc' = to /\ applied = Applying /\ overruled = FALSE
        /\ UNCHANGED <<patch, input, mode, output, binblock, applied, overruled>>
        /\ UNCHANGED <<count, next, place, lost>>
    BY DEF ApplyInv, ApplyTypes, GoOn, applyInput, loopVars, Checking
  <1>2. IsPatch(patch)' /\ IsFile(input)' /\ IsFile(output)'
    BY <1>1, Zenon DEF ApplyTypes, Checking, IsPatch, IsFile
  <1>3. ApplyTypes'
    BY <1>1, <1>2 DEF ApplyTypes, Checking
  <1>4. BlockSeen => BlockSeen'
    BY <1>1, Zenon DEF BlockSeen
  <1>5. Loops' => to = "start"
    BY <1>1, Zenon DEF Loops, Checking
  <1>6. RefusedUntouched'
    BY <1>1 DEF RefusedUntouched, Checking
  <1> QED
    BY <1>1, <1>3, <1>4, <1>5, <1>6 DEF ApplyInv, Checking

LEMMA OpenFilesKeepsInv ==
    ASSUME ApplyInv, OpenFiles \/ OpenFilesFails
    PROVE  ApplyInv'
  <1>1. ppc = "open" /\ ApplyTypes /\ overruled = FALSE
    BY DEF OpenFiles, OpenFilesFails, ApplyInv, ApplyTypes
  <1>2. CASE OpenFiles /\ ~Unsupported
    <2> DEFINE to == IF patch.version = 2 THEN "size"
                     ELSE IF patch.version = 3 THEN "undo" ELSE "start"
    <2>1. GoOn(to)
      BY <1>2 DEF OpenFiles, GoOn
    <2>2. to \in Checking
      BY DEF Checking
    <2>3. Stages'
      BY <1>2, <2>1 DEF Stages, Loops, Unsupported, GoOn, applyInput
    <2>4. to = "start" => BlockSeen
      BY DEF BlockSeen
    <2> QED
      BY <1>1, <2>1, <2>2, <2>3, <2>4, GoOnKeepsInv DEF Checking
  <1>3. CASE OpenFiles /\ Unsupported
    BY <1>1, <1>3, ErrorKeepsInv DEF OpenFiles, Checking, Codes, VERSION_UNSUPPORTED
  <1>4. CASE OpenFilesFails
    BY <1>1, <1>4, ErrorKeepsInv DEF OpenFilesFails, Checking, Codes, OPEN_FAILED
  <1> QED
    BY <1>2, <1>3, <1>4

LEMMA CheckSizeKeepsInv ==
    ASSUME ApplyInv, CheckSize
    PROVE  ApplyInv'
  <1>1. ppc = "size" /\ ApplyTypes /\ overruled = FALSE /\ Stages
    BY DEF CheckSize, ApplyInv, ApplyTypes
  <1>2. CASE GoOn("block")
    <2>1. Stages'
      BY <1>1, <1>2 DEF Stages, Loops, GoOn, applyInput
    <2> QED
      BY <1>1, <1>2, <2>1, GoOnKeepsInv DEF Checking
  <1>3. CASE ApplyReturn(WRONG_SIZE)
    BY <1>1, <1>3, ErrorKeepsInv DEF Checking, Codes, WRONG_SIZE
  <1> QED
    BY <1>2, <1>3 DEF CheckSize

LEMMA CheckUndoKeepsInv ==
    ASSUME ApplyInv, CheckUndo
    PROVE  ApplyInv'
  <1>1. ppc = "undo" /\ ApplyTypes /\ overruled = FALSE /\ Stages /\ patch.version = 3
    BY DEF CheckUndo, ApplyInv, ApplyTypes, Stages
  <1>2. CASE mode = "UNDO" /\ patch.undo = 0
    BY <1>1, <1>2, ErrorKeepsInv DEF CheckUndo, Checking, Codes, NO_UNDO_DATA
  <1>3. CASE ~(mode = "UNDO" /\ patch.undo = 0)
    <2> DEFINE to == IF patch.blockcheck = 1 THEN "block" ELSE "start"
    <2>1. GoOn(to)
      BY <1>3 DEF CheckUndo
    <2>2. to \in Checking
      BY DEF Checking
    <2>3. patch.undo = 0 \/ patch.undo = 1
      BY <1>1 DEF ApplyTypes, IsPatch
    <2>4. Stages'
      BY <1>1, <1>3, <2>1, <2>3 DEF Stages, Loops, GoOn, applyInput
    <2>5. to = "start" => BlockSeen
      BY <1>1 DEF BlockSeen
    <2> QED
      BY <1>1, <2>1, <2>2, <2>4, <2>5, GoOnKeepsInv DEF Checking
  <1> QED
    BY <1>2, <1>3

\* What is compared is the file's own block as far as it has one.
LEMMA CheckBlockKeepsInv ==
    ASSUME ApplyInv, CheckBlock
    PROVE  ApplyInv'
  <1>1. /\ ppc = "block" /\ ApplyTypes /\ Stages /\ output = input /\ applied = Applying
        /\ UNCHANGED <<patch, input, mode, output, count, next, lost>>
        /\ binblock' = BlockOf(output, BlockAt[patch.imagetype], binblock)
    BY DEF ApplyInv, ApplyTypes, CheckBlock, applyInput, loopVars, Checking
  <1>2. PICK answer \in Answers :
          /\ IF BlockAccepted(binblock' = patch.block, answer)
               THEN ppc' = "start" /\ applied' = applied
               ELSE ppc' = "returned" /\ applied' = VALIDATION_FAILED
          /\ overruled' = (~(binblock' = patch.block) /\ answer = "y")
    BY DEF CheckBlock
  <1>3. IsPatch(patch)' /\ IsFile(input)' /\ IsFile(output)'
    BY <1>1, Zenon DEF ApplyTypes, IsPatch, IsFile
  <1>place. place' \in Nat
    <2>1. PICK at \in Nat, size \in Nat, len \in Nat :
            at = BlockAt[patch.imagetype] /\ size = output.size /\ len = BlockLen
      BY <1>1, FormatAssumption DEF ApplyTypes, IsPatch, IsFile
    <2> DEFINE end == IF at < size THEN Least(at + len, size) ELSE at
    <2>2. place' \in {end} \cup end..size
      BY <2>1 DEF CheckBlock
    <2>3. end \in Nat
      BY DEF Least
    <2> HIDE DEF end
    <2> QED
      BY <2>2, <2>3
  <1>4. ApplyTypes'
    BY <1>1, <1>2, <1>3, <1>place DEF ApplyTypes, Checking, Codes
  <1>5. Stages'
    BY <1>1, <1>2 DEF Stages, Loops, VALIDATION_FAILED
  <1>6. RefusedUntouched'
    BY <1>1 DEF RefusedUntouched
  <1>7. ppc' = "start" => BlockSeen'
    <2> SUFFICES ASSUME ppc' = "start", ~overruled',
                        NEW j \in Block, BlockAt[patch.imagetype] + j < input.size
                 PROVE  input.data[BlockAt[patch.imagetype] + j] = patch.block[j]
      BY <1>1 DEF BlockSeen
    <2>1. binblock' = patch.block
      BY <1>2 DEF BlockAccepted
    <2>2. binblock'[j] = input.data[BlockAt[patch.imagetype] + j]
      BY <1>1 DEF BlockOf
    <2> QED
      BY <2>1, <2>2
  <1> QED
    BY <1>1, <1>2, <1>4, <1>5, <1>6, <1>7 DEF ApplyInv, Loops, VALIDATION_FAILED

\* count starts from what the records take, whether there is a text or not.
LEMMA StartRecordsKeepsInv ==
    ASSUME ApplyInv, StartRecords
    PROVE  ApplyInv'
  <1>1. /\ ppc = "start" /\ ApplyTypes /\ Stages /\ BlockSeen
        /\ output = input /\ applied = Applying
        /\ UNCHANGED <<patch, input, mode, output, place, applied, overruled, lost>>
        /\ ppc' = "records" /\ next' = 1
        /\ count' = PatchSize(patch) - HeaderSize(patch) - FileIdBytes
    BY DEF ApplyInv, ApplyTypes, StartRecords, applyInput, Checking, Loops
  <1>2. IsPatch(patch) /\ IsFile(input) /\ IsFile(output)
    BY <1>1 DEF ApplyTypes
  <1>3. PICK N \in Nat : N = Len(patch.records)
    BY <1>2, LenProperties DEF IsPatch
  <1>4. PICK total \in Int : total = RecordBytes(patch)[Len(patch.records)]
    BY <1>2, <1>3, RecordBytesSum
  <1>5. PICK h \in Int : h = HeaderSize(patch)
    <2>1. patch.blockcheck * BlockLen \in Int
      <3>1. patch.blockcheck = 0 \/ patch.blockcheck = 1
        BY <1>2 DEF IsPatch
      <3> QED
        BY <3>1, FormatAssumption
    <2>2. HeaderSize(patch) \in Int
      BY <2>1, FormatAssumption DEF HeaderSize
    <2> QED
      BY <2>2
  <1>6. PICK id \in Int, frame \in Int, torn \in Int :
           id = patch.fileid /\ frame = IdFrame(patch.version) /\ torn = patch.torn
    BY <1>2 DEF IsPatch, IdFrame, NoFileId
  <1>7. (patch.version = 1 => id = NoFileId) /\ id \in Nat \cup {NoFileId}
    BY <1>2, <1>6 DEF IsPatch
  <1>8. PatchSize(patch) = h + total - torn + (IF id = NoFileId THEN 0 ELSE id + frame)
    BY <1>4, <1>5, <1>6 DEF PatchSize
  <1>9. FileIdBytes = IF patch.version = 1 \/ id <= 0 THEN 0 ELSE id + frame
    BY <1>6 DEF FileIdBytes
  <1>10. Slack = IF id = 0 THEN frame ELSE 0
    BY <1>6 DEF Slack
  <1>11. count' = total - torn + Slack
    BY <1>1, <1>5, <1>7, <1>8, <1>9, <1>10 DEF NoFileId
  <1>12. count' \in Int
    BY <1>10, <1>11
  <1>13. Counted'
    <2>1. SUFFICES ASSUME patch.torn = 0
                   PROVE  count' = RecordBytes(patch)[Len(patch.records)]
                                     - RecordBytes(patch)[1 - 1] + Slack
      BY <1>1 DEF Counted, Slack
    <2>2. RecordBytes(patch)[1 - 1] = 0
      BY <1>2, RecordBytesSum
    <2>3. torn = 0 /\ Slack \in Int
      BY <1>6, <1>10, <2>1
    <2> QED
      BY <1>4, <1>11, <2>2, <2>3
  <1>14. WrittenTo(next - 1)'
    <2>1. ASSUME NEW k PROVE ByteAt(output, k) = ExpectedTo(0, k)'
      <3>1. CoveringTo(0, k)' = {}
        BY DEF CoveringTo
      <3>2. ExpectedTo(0, k)' = ByteAt(input', k)
        BY <3>1 DEF ExpectedTo
      <3> QED
        BY <1>1, <3>2
    <2>2. next' - 1 = 0
      BY <1>1
    <2> QED
      BY <1>1, <2>1, <2>2 DEF WrittenTo, ByteAt
  <1>15. KeepsSize'
    BY <1>1 DEF KeepsSize
  <1>16. IsPatch(patch)' /\ IsFile(input)' /\ IsFile(output)'
    BY <1>1, <1>2, Zenon DEF IsPatch, IsFile
  <1>17. ApplyTypes'
    BY <1>1, <1>12, <1>16 DEF ApplyTypes, Checking
  <1>18. Stages' /\ BlockSeen' /\ RefusedUntouched'
    BY <1>1, Zenon DEF Stages, Loops, BlockSeen, RefusedUntouched
  <1>19. next' - 1 <= Len(patch'.records)
    BY <1>1, <1>3
  <1> QED
    BY <1>1, <1>13, <1>14, <1>15, <1>17, <1>18, <1>19 DEF ApplyInv, Checking

\* A record that is there in full has as many old bytes as new ones if it is undone.
LEMMA BytesOfRecord ==
    ASSUME ApplyTypes, mode = "UNDO" => patch.undo = 1, NEW n \in 1..Len(patch.records)
    PROVE  Bytes(n) \in Seq(Byte) /\ Len(Bytes(n)) = Len(patch.records[n].data)
  <1>1. /\ patch.records[n].data \in Seq(Byte) /\ patch.records[n].old \in Seq(Byte)
        /\ mode = "UNDO" => Len(patch.records[n].old) = Len(patch.records[n].data)
    BY RecordTypes DEF ApplyTypes, IsPatch
  <1> QED
    BY <1>1 DEF Bytes

\* One record is written, and count falls by its size.
LEMMA ApplyRecordWrites ==
    ASSUME ApplyInv, ApplyRecord
    PROVE  /\ next <= Len(patch.records) /\ IsFile(output')
           /\ Clean' => WrittenTo(next - 1)' /\ KeepsSize'
           /\ count' \in Int /\ place' \in Nat /\ lost' \in BOOLEAN
           /\ patch.torn = 0 =>
                 count' = RecordBytes(patch)[Len(patch.records)] - RecordBytes(patch)[next] + Slack
  <1> DEFINE r == patch.records[next]
  <1>1. /\ ppc = "records" /\ Whole(next) /\ ApplyTypes /\ Stages
        /\ next - 1 <= Len(patch.records) /\ Counted
        /\ Clean => WrittenTo(next - 1) /\ KeepsSize
        /\ UNCHANGED <<patch, input, mode>>
        /\ \E from \in Sought(r.offset) : WriteAt(from, Bytes(next))
        /\ count' = count - RecordCount(r)
    BY DEF ApplyInv, ApplyRecord, applyInput, Bytes
  <1>2. /\ IsPatch(patch) /\ IsFile(input) /\ IsFile(output) /\ count \in Int
        /\ next \in Nat \ {0} /\ (mode = "UNDO" => patch.undo = 1)
        /\ place \in Nat /\ lost \in BOOLEAN
    BY <1>1 DEF ApplyTypes, Stages, Loops
  <1>3. next \in 1..Len(patch.records)
    <2>1. Len(patch.records) \in Nat /\ next <= Len(patch.records)
      BY <1>1, <1>2, LenProperties DEF Whole, IsPatch
    <2> QED
      BY <1>2, <2>1
  <1>4. Bytes(next) \in Seq(Byte) /\ Len(Bytes(next)) = Len(r.data)
    BY <1>1, <1>2, <1>3, BytesOfRecord
  <1>5. r.offset \in Int
    BY <1>2, <1>3, RecordTypes
  <1>from. PICK from \in Sought(r.offset) : WriteAt(from, Bytes(next))
    BY <1>1
  <1>at. from \in Nat /\ (~lost /\ r.offset >= 0 => from = r.offset)
    <2> HIDE DEF r
    <2> QED
      BY <1>2, <1>5 DEF Sought
  <1>n. PICK got \in 0..Len(Bytes(next)) :
          /\ output' = Written(output, from, SubSeq(Bytes(next), 1, got))
          /\ place' = from + got
          /\ lost' = (lost \/ got < Len(Bytes(next)))
    BY <1>from DEF WriteAt
  <1>len. Len(Bytes(next)) \in Nat
    BY <1>4, LenProperties
  <1>part. SubSeq(Bytes(next), 1, got) \in Seq(Byte)
    BY <1>4, <1>len, <1>n, SubSeqProperties
  <1>types. place' \in Nat /\ lost' \in BOOLEAN
    BY <1>2, <1>at, <1>n
  <1>6. IsFile(output')
    BY <1>2, <1>at, <1>n, <1>part, WrittenIsFile
  <1>clean. ASSUME Clean'
            PROVE  /\ WrittenTo(next - 1) /\ KeepsSize /\ r.offset \in Nat
                   /\ output' = Written(output, r.offset, Bytes(next))
    <2>1. ~lost /\ ~(got < Len(Bytes(next)))
      BY <1>n, <1>clean, Zenon DEF Clean
    <2>whole. got = Len(Bytes(next))
      BY <1>len, <1>n, <2>1
    <2>2. Placeable(patch)
      BY <1>1, <1>clean DEF Clean, Placeable
    <2>3. WrittenTo(next - 1) /\ KeepsSize
      BY <1>1, <2>1, <2>2 DEF Clean
    <2>4. r.offset \in Nat
      BY <1>3, <1>5, <2>2 DEF Placeable
    <2>5. SubSeq(Bytes(next), 1, got) = Bytes(next)
      BY <1>4, <2>whole, SubSeqFull
    <2>6. r.offset >= 0
      <3> HIDE DEF r
      <3> QED
        BY <2>4
    <2>7. from = r.offset
      BY <1>at, <2>1, <2>6, Zenon
    <2>8. output' = Written(output, r.offset, Bytes(next))
      BY <1>n, <2>5, <2>7, Zenon
    <2> QED
      BY <2>3, <2>4, <2>8
  <1>7. PICK m \in Nat : m = next - 1 /\ next = m + 1 /\ m < Len(patch.records)
    BY <1>3
  <1>8. ASSUME Clean', NEW k \in Nat
        PROVE  ByteAt(output', k) = ExpectedTo(m + 1, k)
    <2>1. ByteAt(output', k) = IF r.offset <= k /\ k < r.offset + Len(Bytes(next))
                               THEN Bytes(next)[k - r.offset + 1] ELSE ByteAt(output, k)
      <3> DEFINE b == Bytes(next)
                 o == r.offset
      <3>1. IsFile(output) /\ o \in Nat /\ b \in Seq(Byte) /\ output' = Written(output, o, b)
        BY <1>2, <1>4, <1>8, <1>clean
      <3> HIDE DEF b, o
      <3>2. ByteAt(Written(output, o, b), k)
              = IF o <= k /\ k < o + Len(b) THEN b[k - o + 1] ELSE ByteAt(output, k)
        BY <1>8, <3>1, WrittenByte
      <3> QED
        BY <3>1, <3>2 DEF b, o
    <2>2. ByteAt(output, k) = ExpectedTo(m, k)
      BY <1>7, <1>8, <1>clean DEF WrittenTo
    <2>3. ExpectedTo(m + 1, k)
            = IF CoveredBy(next, k) THEN Bytes(next)[k - r.offset + 1] ELSE ExpectedTo(m, k)
      BY <1>2, <1>7, OneRecordMore, ZenonT(40)
    <2>4. CoveredBy(next, k) <=> r.offset <= k /\ k < r.offset + Len(Bytes(next))
      BY <1>4 DEF CoveredBy
    <2> QED
      BY <2>1, <2>2, <2>3, <2>4, Zenon
  <1>9. ASSUME NEW k PROVE ExpectedTo(m + 1, k)' = ExpectedTo(m + 1, k)
    BY <1>1 DEF ExpectedTo, LatestTo, CoveringTo, CoveredBy, ByteAt, Bytes
  <1>10. next' = next + 1
    BY DEF ApplyRecord
  <1>11. ASSUME Clean' PROVE WrittenTo(next - 1)'
    <2>1. next' - 1 = m + 1
      BY <1>7, <1>10
    <2>2. \A k \in Nat : ByteAt(output', k) = ExpectedTo(m + 1, k)'
      BY <1>8, <1>9, <1>11
    <2>3. WrittenTo(m + 1)'
      BY <2>2 DEF WrittenTo, ByteAt
    <2> QED
      BY <2>1, <2>3 DEF WrittenTo
  <1>12. ASSUME Clean' PROVE KeepsSize'
    <2>1. SUFFICES ASSUME \A n \in 1..Len(patch.records) :
                            patch.records[n].offset + Len(patch.records[n].data) <= input.size
                   PROVE  output'.size = input.size
      BY <1>1 DEF KeepsSize
    <2>2. output.size = input.size
      BY <1>1, <1>12, <1>clean, <2>1 DEF KeepsSize
    <2>3. r.offset + Len(Bytes(next)) <= output.size
      BY <1>3, <1>4, <2>1, <2>2
    <2> QED
      BY <1>2, <1>4, <1>12, <1>clean, <2>2, <2>3, WrittenSize
  <1>13. PICK size \in Int : size = RecordCount(r) /\ size = RecordSize(patch, r)
    <2>1. PICK d \in Nat : d = Len(r.data)
      BY <1>2, <1>3, RecordTypes
    <2>2. PICK u \in Nat : u = patch.undo * d
      <3>1. patch.undo = 0 \/ patch.undo = 1
        BY <1>2 DEF IsPatch
      <3> QED
        BY <3>1
    <2>3. PICK o \in Nat : o = OffsetLen(patch.version)
      BY DEF OffsetLen
    <2>4. RecordCount(r) = d + o + 1 + u
      BY <2>1, <2>2, <2>3 DEF RecordCount
    <2>5. RecordSize(patch, r) = o + 1 + d + u
      BY <2>1, <2>2, <2>3 DEF RecordSize
    <2> HIDE DEF r
    <2> QED
      BY <2>4, <2>5
  <1>14. count' \in Int
    BY <1>1, <1>2, <1>13
  <1>15. ASSUME patch.torn = 0
         PROVE  count' = RecordBytes(patch)[Len(patch.records)] - RecordBytes(patch)[next] + Slack
    <2>1. PICK total \in Int, before \in Int, with \in Int :
            /\ total = RecordBytes(patch)[Len(patch.records)]
            /\ before = RecordBytes(patch)[next - 1] /\ with = RecordBytes(patch)[next]
      <3>1. Len(patch.records) \in 0..Len(patch.records) /\ next - 1 \in 0..Len(patch.records)
            /\ next \in 0..Len(patch.records)
        BY <1>3, <1>7
      <3> QED
        BY <1>2, <3>1, RecordBytesSum
    <2>2. with = before + size
      BY <1>2, <1>3, <1>13, <2>1, RecordBytesSum
    <2>3. PICK slack \in Int : slack = Slack
      BY DEF Slack, IdFrame
    <2>4. count = total - before + slack
      BY <1>1, <1>15, <2>1, <2>3 DEF Counted
    <2>5. count' = count - size
      BY <1>1, <1>13
    <2>6. count' = total - with + slack
      BY <2>2, <2>4, <2>5
    <2> QED
      BY <2>1, <2>3, <2>6
  <1> QED
    BY <1>3, <1>6, <1>11, <1>12, <1>14, <1>15, <1>types

\* The loop ends when all of the records have been written, and not before.
LEMMA ApplyRecordKeepsInv ==
    ASSUME ApplyInv, ApplyRecord
    PROVE  ApplyInv'
  <1>1. /\ ppc = "records" /\ ApplyTypes /\ Stages /\ BlockSeen /\ applied = Applying
        /\ UNCHANGED <<patch, input, mode, overruled>> /\ next' = next + 1
        /\ IF LoopOver(count') THEN ppc' = "returned" /\ applied' = 0
           ELSE ppc' = ppc /\ applied' = applied
    BY DEF ApplyInv, ApplyTypes, ApplyRecord, applyInput, Loops
  <1>2. /\ next <= Len(patch.records) /\ IsFile(output')
        /\ Clean' => WrittenTo(next - 1)' /\ KeepsSize'
        /\ count' \in Int /\ place' \in Nat /\ lost' \in BOOLEAN
        /\ patch.torn = 0 =>
              count' = RecordBytes(patch)[Len(patch.records)] - RecordBytes(patch)[next] + Slack
    BY ApplyRecordWrites
  <1>3. next \in Nat \ {0} /\ IsPatch(patch) /\ IsFile(input) /\ Len(patch.records) \in Nat
    BY <1>1, LenProperties DEF ApplyTypes, IsPatch
  <1>4. next' - 1 = next /\ next' \in Nat \ {0} /\ next \in 0..Len(patch.records)
    BY <1>1, <1>2, <1>3
  <1>5. Counted'
    BY <1>1, <1>2, <1>4 DEF Counted, Slack
  <1>6. IsPatch(patch)' /\ IsFile(input)' /\ IsFile(output)'
    BY <1>1, <1>2, <1>3, Zenon DEF IsPatch, IsFile
  <1>7. ApplyTypes'
    BY <1>1, <1>2, <1>4, <1>6 DEF ApplyTypes, Codes, Checking
  <1>8. Stages' /\ BlockSeen'
    BY <1>1 DEF Stages, Loops, BlockSeen
  <1>9. ASSUME count' = 0, patch.torn = 0
        PROVE  next = Len(patch.records)
    <2>1. PICK total \in Int, with \in Int :
            total = RecordBytes(patch)[Len(patch.records)] /\ with = RecordBytes(patch)[next]
      <3>1. Len(patch.records) \in 0..Len(patch.records)
        BY <1>3
      <3> QED
        BY <1>3, <1>4, <3>1, RecordBytesSum
    <2>2. next # Len(patch.records) => with < total
      BY <1>3, <1>4, <2>1, BytesLeft
    <2>3. Slack \in Nat
      BY DEF Slack, IdFrame
    <2> QED
      BY <1>2, <1>9, <2>1, <2>2, <2>3
  <1>10. CASE LoopOver(count')
    <2>1. ppc' = "returned" /\ applied' = 0 /\ count' = 0
      BY <1>1, <1>10 DEF LoopOver
    <2>2. patch.torn = 0 /\ Clean' => WrittenTo(Len(patch.records))'
      BY <1>1, <1>2, <1>4, <1>9, <2>1 DEF WrittenTo
    <2>3. patch.torn = 0 => next' > Len(patch.records)
      BY <1>1, <1>3, <1>9, <2>1
    <2> QED
      BY <1>1, <1>2, <1>7, <1>8, <2>1, <2>2, <2>3 DEF ApplyInv, RefusedUntouched, Checking
  <1>11. CASE ~LoopOver(count')
    <2>1. ppc' = "records" /\ count' # 0
      BY <1>1, <1>11 DEF LoopOver
    <2> QED
      BY <1>1, <1>2, <1>4, <1>5, <1>7, <1>8, <2>1 DEF ApplyInv, RefusedUntouched, Checking
  <1> QED
    BY <1>10, <1>11

\* Past the records the loop runs only if it cannot come to its end.
LEMMA RunOnKeepsInv ==
    ASSUME ApplyInv, RunOn
    PROVE  ApplyInv'
  <1>1. /\ ppc \in {"records", "beyond"} /\ ~Whole(next) /\ ApplyTypes /\ Stages /\ BlockSeen
        /\ applied = Applying /\ ppc' = "beyond"
        /\ UNCHANGED <<patch, input, mode, count, next, place, lost, applied, overruled>>
    BY DEF ApplyInv, ApplyTypes, RunOn, applyInput, loopVars, Loops
  <1>2. IsPatch(patch) /\ IsFile(input) /\ IsFile(output) /\ next \in Nat \ {0}
    BY <1>1 DEF ApplyTypes
  <1>3. IsFile(output')
    <2>1. CASE output' = output
      BY <1>2, <2>1
    <2>2. CASE \E at \in 0..(output.size - 1), b \in {0, 1} : output' = Written(output, at, <<b>>)
      <3>1. PICK at \in 0..(output.size - 1), b \in {0, 1} : output' = Written(output, at, <<b>>)
        BY <2>2
      <3>2. at \in Nat
        BY <1>2, <3>1 DEF IsFile
      <3>3. <<b>> \in Seq(Byte)
        BY <3>1 DEF Byte
      <3> QED
        BY <1>2, <3>1, <3>2, <3>3, WrittenIsFile
    <2> QED
      BY <2>1, <2>2 DEF RunOn
  <1>4. patch.torn # 0 \/ Slack # 0 \/ patch.records = <<>>
    <2>1. CASE ppc = "records"
      <3>1. SUFFICES ASSUME patch.torn = 0, patch.records # <<>> PROVE Slack # 0
        OBVIOUS
      <3>2. next - 1 <= Len(patch.records) /\ (next = 1 \/ count # 0) /\ Counted
        BY <2>1 DEF ApplyInv
      <3>3. PICK N \in Nat \ {0} : N = Len(patch.records)
        <4>1. Len(patch.records) \in Nat /\ Len(patch.records) # 0
          BY <1>2, <3>1, LenProperties, EmptySeq DEF IsPatch
        <4> QED
          BY <4>1
      <3>4. next - 1 = N
        BY <1>1, <1>2, <3>1, <3>2, <3>3 DEF Whole
      <3>5. RecordBytes(patch)[N] \in Int
        BY <1>2, <3>3, RecordBytesSum
      <3>6. Slack \in Int
        BY DEF Slack, IdFrame
      <3>7. count = RecordBytes(patch)[N] - RecordBytes(patch)[N] + Slack
        BY <3>1, <3>2, <3>3, <3>4 DEF Counted
      <3>8. count = Slack
        BY <3>5, <3>6, <3>7
      <3> QED
        BY <3>2, <3>3, <3>4, <3>8
    <2>2. CASE ppc = "beyond"
      BY <2>2 DEF ApplyInv
    <2> QED
      BY <1>1, <2>1, <2>2
  <1>5. IsPatch(patch)' /\ IsFile(input)' /\ IsFile(output)'
    BY <1>1, <1>2, <1>3, Zenon DEF IsPatch, IsFile
  <1>6. ApplyTypes'
    BY <1>1, <1>5 DEF ApplyTypes, Checking
  <1>7. Stages' /\ BlockSeen'
    BY <1>1 DEF Stages, Loops, BlockSeen
  <1> QED
    BY <1>1, <1>4, <1>6, <1>7 DEF ApplyInv, Checking, RefusedUntouched, Slack

LEMMA WrapsKeepsInv ==
    ASSUME ApplyInv, Wraps
    PROVE  ApplyInv'
  <1>1. /\ ppc = "beyond" /\ patch.version \in 1..2 /\ ApplyTypes /\ Stages /\ BlockSeen
        /\ patch.torn # 0 \/ Slack # 0 \/ patch.records = <<>>
        /\ applied' = 0 /\ ppc' = "returned"
        /\ UNCHANGED <<patch, input, mode, output, count, next, place, lost, overruled>>
    BY DEF ApplyInv, Wraps, ApplyReturn, applyInput, loopVars, Loops
  <1>2. ~Endable(patch) /\ patch.version # 3
    BY <1>1 DEF Endable, Slack
  <1>3. IsPatch(patch)' /\ IsFile(input)' /\ IsFile(output)'
    BY <1>1, Zenon DEF ApplyTypes, IsPatch, IsFile
  <1>4. ApplyTypes'
    BY <1>1, <1>3 DEF ApplyTypes, Checking, Codes
  <1>5. Stages' /\ BlockSeen'
    BY <1>1 DEF Stages, Loops, BlockSeen
  <1>6. Endable(patch)' = Endable(patch) /\ patch'.version # 3 /\ ~Endable(patch')
    BY <1>1, <1>2, Zenon
  <1> QED
    BY <1>1, <1>4, <1>5, <1>6 DEF ApplyInv, Checking, RefusedUntouched

LEMMA DismissKeepsInv ==
    ASSUME ApplyInv, Dismiss
    PROVE  ApplyInv'
  <1>1. /\ ppc = "returned" /\ ApplyTypes
        /\ ppc' = "idle" /\ applied' = Applying /\ patch' = NoPatch /\ input' = NoInput
        /\ mode' = "APPLY" /\ count' = 0 /\ next' = 1 /\ overruled' = FALSE
        /\ place' = 0 /\ lost' = FALSE
        /\ output' = output \/ output' = Absent
    BY DEF ApplyInv, Dismiss
  <1>2. IsPatch(NoPatch) /\ IsFile(NoInput)
    BY DEF NoPatch, IsPatch, NoFileId, NoInput, IsFile
  <1>3. IsPatch(patch)' /\ IsFile(input)'
    BY <1>1, <1>2, Zenon DEF IsPatch, IsFile
  <1>4. (output = Absent \/ IsFile(output))'
    BY <1>1, Zenon DEF ApplyTypes, IsFile, Absent
  <1>5. place' \in Nat /\ lost' \in BOOLEAN
    BY <1>1
  <1>6. ApplyTypes'
    BY <1>1, <1>3, <1>4, <1>5 DEF ApplyTypes, Checking
  <1> QED
    BY <1>1, <1>6 DEF ApplyInv, Stages, Loops, Checking, RefusedUntouched

LEMMA ApplyStepKeepsInv ==
    ASSUME ApplyInv, ApplyStep
    PROVE  ApplyInv'
  BY OpenFilesKeepsInv, CheckSizeKeepsInv, CheckUndoKeepsInv, CheckBlockKeepsInv,
     StartRecordsKeepsInv, ApplyRecordKeepsInv, RunOnKeepsInv, WrapsKeepsInv DEF ApplyStep

LEMMA StutterKeepsInv ==
    ASSUME ApplyInv, UNCHANGED applyVars
    PROVE  ApplyInv'
  <1>1. UNCHANGED <<ppc, patch, input, mode, output, count, next, place, lost, applied, overruled>>
    BY DEF applyVars, applyInput, loopVars
  <1>2. IsPatch(patch)' <=> IsPatch(patch)
    BY <1>1, Zenon DEF IsPatch
  <1>3. (IsFile(input)' <=> IsFile(input)) /\ (IsFile(output)' <=> IsFile(output))
    BY <1>1, Zenon DEF IsFile
  <1>4. ApplyTypes'
    BY <1>1, <1>2, <1>3, Zenon DEF ApplyInv, ApplyTypes, Absent, Codes, Checking
  <1>5. Stages' /\ (Loops => BlockSeen)'
    BY <1>1, Zenon DEF ApplyInv, Stages, Loops, BlockSeen
  <1>6. ASSUME NEW m, NEW k PROVE ExpectedTo(m, k)' = ExpectedTo(m, k)
    BY <1>1 DEF ExpectedTo, LatestTo, CoveringTo, CoveredBy, ByteAt, Bytes
  <1>7. \A m : WrittenTo(m)' <=> WrittenTo(m)
    BY <1>1, <1>6, Zenon DEF WrittenTo, ByteAt
  <1>8. (KeepsSize' <=> KeepsSize) /\ (Counted' <=> Counted) /\ (Slack' = Slack)
    BY <1>1, Zenon DEF KeepsSize, Counted, Slack
  <1>9. Clean' <=> Clean
    BY <1>1 DEF Clean, Placeable
  <1> QED
    BY <1>1, <1>4, <1>5, <1>7, <1>8, <1>9 DEF ApplyInv, RefusedUntouched, Checking, WrittenTo, Endable

-----------------------------------------------------------------------------
(* The theorems.                                                             *)

\* The invariant holds of calls one after the other, copying, in place and undoing.
THEOREM ApplyInvariant == ApplySpec => []ApplyInv
  <1>1. ApplyInit => ApplyInv
    BY ApplyStart
  <1>2. ApplyInv /\ [ApplyNext]_applyVars => ApplyInv'
    <2> SUFFICES ASSUME ApplyInv, [ApplyNext]_applyVars
                 PROVE  ApplyInv'
      OBVIOUS
    <2>1. ASSUME NEW p \in Patches, NEW f \in Files, CopyAndApply(p, f)
          PROVE  ApplyInv'
      <3>1. IsPatch(p) /\ IsFile(f)
        BY ApplyAssumption, FilesAssumption DEF IsPatch, IsFile
      <3> QED
        BY <2>1, <3>1, CopyAndApplyKeepsInv
    <2>2. ASSUME NEW p \in Patches, NEW how \in {"APPLY", "UNDO"}, InPlace(p, how)
          PROVE  ApplyInv'
      <3>1. IsPatch(p)
        BY ApplyAssumption DEF IsPatch
      <3> QED
        BY <2>2, <3>1, InPlaceKeepsInv
    <2>3. CASE ApplyCall
      BY <2>1, <2>2, <2>3 DEF ApplyCall
    <2>4. CASE Dismiss
      BY <2>4, DismissKeepsInv
    <2>5. CASE ApplyStep
      BY <2>5, ApplyStepKeepsInv
    <2>6. CASE UNCHANGED applyVars
      BY <2>6, StutterKeepsInv
    <2> QED
      BY <2>3, <2>4, <2>5, <2>6 DEF ApplyNext
  <1> QED
    BY <1>1, <1>2, PTL DEF ApplySpec

\* An error of applyPPF leaves the output as it was: every error is found before the
\* first record is written.
THEOREM RefusedUntouchedHolds == ApplySpec => []RefusedUntouched
  <1>1. ApplyInv => RefusedUntouched
    BY DEF ApplyInv
  <1> QED
    BY <1>1, ApplyInvariant, PTL

\* What a file has of the validation block has been compared, stale buffer or not,
\* when records have been applied that nobody insisted on.
THEOREM ValidatedWhatIsThereHolds == ApplySpec => []ValidatedWhatIsThere
  <1>1. ApplyInv => ValidatedWhatIsThere
    BY DEF ApplyInv, Loops, BlockSeen, ValidatedWhatIsThere
  <1> QED
    BY <1>1, ApplyInvariant, PTL

LEMMA ExpectedIsExpectedTo ==
    ASSUME NEW k PROVE Expected(input, k, mode) = ExpectedTo(Len(patch.records), k)
  BY DEF Expected, ExpectedTo, CoveringTo, CoveredBy, LatestTo, Bytes, ByteAt

\* Success is reported only after the last record: the count the loop ends by neither
\* misses nor invents one.  If the offsets can be sought and the writes got through, every
\* byte is then as the latest record that covers it says.
THEOREM AppliedInFullHolds == ApplySpec => []AppliedInFull
  <1>1. ApplyInv => AppliedInFull
    <2> SUFFICES ASSUME ApplyInv, ppc = "returned", applied = 0, Endable(patch),
                        Placeable(patch), ~lost, NEW k \in 0..(output.size - 1)
                 PROVE  output.data[k] = Expected(input, k, mode)
      BY DEF AppliedInFull, ApplyInv, Endable
    <2>1. WrittenTo(Len(patch.records)) /\ IsFile(output)
      BY DEF ApplyInv, ApplyTypes, Endable, Clean
    <2>2. k \in Nat /\ k < output.size
      BY <2>1 DEF IsFile
    <2>3. output.data[k] = ExpectedTo(Len(patch.records), k)
      BY <2>1, <2>2 DEF WrittenTo, ByteAt
    <2> QED
      BY <2>3, ExpectedIsExpectedTo
  <1> QED
    BY <1>1, ApplyInvariant, PTL

-----------------------------------------------------------------------------
(* makePPF, and applyPPF behind it                                           *)

\* The chunks are read from multiples of their size.
AtChunk == \E q \in Nat : chunk = q * ChunkSize

\* The part of y that was read from the modified file.
ReadFromMod ==
    \A j \in Nat : j < amount /\ chunk + j < mod.size => y[j] = mod.data[chunk + j]

End(n) == records[n].offset + Len(records[n].data)

\* A record may touch the byte that is looked at only if it is full or ends a chunk.
Touches(n) == Len(records[n].data) = MaxRun \/ End(n) % ChunkSize = 0

MakeTypes ==
    /\ cpc \in {"idle", "open", "header", "changes", "read", "scan", "made"}
    /\ IsFile(bin) /\ IsFile(mod)
    /\ arg.undo \in 0..1 /\ arg.blockcheck \in 0..1 /\ arg.imagetype \in 0..1
    /\ arg.fileid \in Nat \cup {NoFileId} /\ fileid \in Nat \cup {NoFileId}
    /\ header \in [Block -> Byte] /\ y \in [Chunk -> Byte]
    /\ chunk \in Nat /\ amount \in Nat /\ i \in Nat
    /\ records \in Seq(Records)
    /\ arg.undo = 1 => \A n \in 1..Len(records) :
                          Len(records[n].old) = Len(records[n].data)

\* Where it stands in the files.
Position ==
    /\ cpc \in {"idle", "open", "header", "changes"} => chunk = 0 /\ records = <<>>
    /\ AtChunk
    /\ cpc = "scan" => /\ chunk < bin.size /\ amount = Least(ChunkSize, bin.size - chunk)
                       /\ i <= amount + 1 /\ ReadFromMod

\* Nothing is recorded of what has not been compared.
RecordsBehind == \A n \in 1..Len(records) : End(n) <= Compared

LastTouches ==
    cpc = "scan" /\ records # <<>> /\ End(Len(records)) = chunk + i => Touches(Len(records))

\* The validation block of a file that has the whole of it.
OwnBlock ==
    /\ cpc \in {"changes", "read", "scan"} \/ (cpc = "made" /\ made = 0)
    /\ arg.blockcheck = 1 /\ BlockAt[arg.imagetype] + BlockLen <= bin.size
    => \A j \in Block : header[j] = bin.data[BlockAt[arg.imagetype] + j]

MakeInv ==
    /\ MakeTypes /\ Position
    /\ RecordsAreDifferences /\ RecordsInOrder
    /\ RecordsBehind /\ LastTouches /\ OwnBlock
    /\ made = 0 => cpc = "made" /\ chunk >= bin.size

\* applyPPF is given what makePPF left when it ended well.
Handed == ppc # "idle" => made = 0 /\ patch = CreatedPatch

Inv == MakeInv /\ ApplyInv /\ Handed /\ OwnPatchAccepted

-----------------------------------------------------------------------------
(* Runs.                                                                     *)

LEMMA SeqOfFunction ==
    ASSUME NEW S, NEW n \in Nat, NEW f \in [1..n -> S]
    PROVE  f \in Seq(S) /\ Len(f) = n
  <1>1. f \in Seq(S)
    BY SeqDef
  <1>2. Len(f) \in Nat /\ DOMAIN f = 1..Len(f)
    BY <1>1, LenProperties
  <1>3. 1..Len(f) = 1..n
    BY <1>2
  <1>4. Len(f) = n
    BY <1>2, <1>3
  <1> QED
    BY <1>1, <1>4

\* A run ends within the chunk, and in front of a byte that is equal, of the end of
\* the chunk, or full.
LEMMA RunEnds ==
    ASSUME i \in Nat, amount \in Nat, i < amount
    PROVE  /\ RunLength \in 1..MaxRun /\ i + RunLength <= amount
           /\ \A j \in 1..(RunLength - 1) : Differs(i + j)
           /\ i + RunLength < amount /\ RunLength # MaxRun => ~Differs(i + RunLength)
  <1> DEFINE Stops(k) == ~(i + k < amount /\ Differs(i + k) /\ k # MaxRun)
             Runs(k) == \A j \in 1..(k - 1) : i + j < amount /\ Differs(i + j)
             Stop == {k \in 1..MaxRun : Stops(k)}
  <1>1. MaxRun \in Nat \ {0}
    BY FormatAssumption
  <1>2. PICK k \in Stop : \A l \in Stop : k <= l
    <2>1. MaxRun \in Stop
      BY <1>1
    <2>2. Stop \in SUBSET Nat
      OBVIOUS
    <2> HIDE DEF Stop
    <2> QED
      BY <2>1, <2>2, LeastNumber
  <1>3. k \in 1..MaxRun /\ Stops(k)
    OBVIOUS
  <1>4. Runs(k)
    <2> SUFFICES ASSUME NEW j \in 1..(k - 1) PROVE i + j < amount /\ Differs(i + j)
      OBVIOUS
    <2>1. j \in 1..MaxRun /\ j < k
      BY <1>1, <1>3
    <2>2. ~Stops(j)
      BY <1>2, <1>3, <2>1
    <2> QED
      BY <2>2
  <1> HIDE DEF Stops, Runs
  <1>5. RunLength = CHOOSE l \in 1..MaxRun : Runs(l) /\ Stops(l)
    BY DEF RunLength, Runs, Stops
  <1>6. RunLength \in 1..MaxRun /\ Runs(RunLength) /\ Stops(RunLength)
    <2> HIDE DEF Stop
    <2> QED
      BY <1>3, <1>4, <1>5, Zenon
  <1>7. i + RunLength <= amount
    <2>1. PICK k0 \in Nat \ {0} : k0 = RunLength
      BY <1>1, <1>6
    <2>2. CASE k0 = 1
      BY <2>1, <2>2
    <2>3. CASE k0 # 1
      <3>1. k0 - 1 \in 1..(k0 - 1)
        BY <2>1, <2>3
      <3>2. i + (k0 - 1) < amount
        BY <1>6, <2>1, <3>1 DEF Runs
      <3> QED
        BY <2>1, <3>2
    <2> QED
      BY <2>2, <2>3
  <1> QED
    BY <1>6, <1>7 DEF Runs, Stops

-----------------------------------------------------------------------------
(* The steps of makePPF.                                                     *)

LEMMA MakeStart == MakeInit => MakeInv
  <1> SUFFICES ASSUME MakeInit PROVE MakeInv
    OBVIOUS
  <1>1. IsFile(bin) /\ IsFile(mod)
    BY DEF MakeInit, NoFile, IsFile
  <1>2. /\ y \in [Chunk -> Byte] /\ header \in [Block -> Byte]
        /\ records = <<>> /\ Len(records) = 0
    BY DEF MakeInit, Chunk, Byte
  <1>3. MakeTypes
    BY <1>1, <1>2, EmptySeq DEF MakeInit, MakeTypes, NoFileId
  <1>4. AtChunk
    <2>1. 0 = 0 * ChunkSize
      BY CreateAssumption
    <2> QED
      BY <2>1 DEF AtChunk, MakeInit
  <1>5. Compared = 0
    BY DEF MakeInit, Compared, Least, NoFile
  <1>6. Least(Compared, mod.size) = 0
    BY <1>5 DEF Least, MakeInit, NoFile
  <1>7. RecordsAreDifferences /\ RecordsInOrder /\ RecordsBehind
    BY <1>2, <1>6 DEF RecordsAreDifferences, RecordsInOrder, RecordsBehind
  <1> QED
    BY <1>3, <1>4, <1>7 DEF MakeInit, MakeInv, Position, LastTouches, OwnBlock, Running

\* Sequences that are compared only as far as before.
LEMMA SameFront ==
    ASSUME MakeInv, UNCHANGED <<bin, mod, arg, records>>, Compared' = Compared
    PROVE  RecordsAreDifferences' /\ RecordsInOrder' /\ RecordsBehind'
  <1>1. RecordsAreDifferences'
    BY ZenonT(40) DEF MakeInv, RecordsAreDifferences, Covers
  <1>2. RecordsInOrder'
    BY Zenon DEF MakeInv, RecordsInOrder
  <1>3. RecordsBehind'
    BY Zenon DEF MakeInv, RecordsBehind, End
  <1> QED
    BY <1>1, <1>2, <1>3

LEMMA MakePPFKeepsInv ==
    ASSUME MakeInv, NEW o, NEW m, NEW a, NEW stack, NEW heap, IsFile(o), IsFile(m),
           a.undo \in 0..1, a.blockcheck \in 0..1, a.imagetype \in 0..1,
           a.fileid \in Nat \cup {NoFileId},
           stack \in [Block -> Byte], heap \in [Chunk -> Byte],
           MakePPF(o, m, a, stack, heap)
    PROVE  MakeInv'
  <1>1. /\ cpc = "idle" /\ cpc' = "open" /\ bin' = o /\ mod' = m /\ arg' = a
        /\ header' = stack /\ y' = heap
        /\ UNCHANGED <<records, fileid, chunk, amount, i, made>>
        /\ MakeTypes /\ chunk = 0 /\ records = <<>> /\ AtChunk /\ made # 0
    BY DEF MakePPF, MakeInv, Position
  <1>2. IsFile(bin') /\ IsFile(mod') /\ Len(records') = 0
    BY <1>1
  <1>3. MakeTypes'
    BY <1>1, <1>2 DEF MakeTypes, IsFile
  <1>4. Position'
    BY <1>1 DEF Position, AtChunk
  <1>5. Compared' = 0
    BY <1>1, <1>2 DEF Compared, Least, IsFile
  <1>6. Least(Compared', mod'.size) = 0
    BY <1>1, <1>2, <1>5 DEF Least, IsFile
  <1>7. RecordsAreDifferences' /\ RecordsInOrder' /\ RecordsBehind'
    BY <1>2, <1>6 DEF RecordsAreDifferences, RecordsInOrder, RecordsBehind
  <1> QED
    BY <1>1, <1>3, <1>4, <1>7 DEF MakeInv, LastTouches, OwnBlock

\* A return from outside of the loop over a chunk.
LEMMA MakeReturnKeepsInv ==
    ASSUME MakeInv, NEW r, cpc \in {"open", "header", "changes", "read"},
           r = 0 => cpc = "read" /\ chunk >= bin.size, MakeReturn(r)
    PROVE  MakeInv'
  <1>1. /\ cpc' = "made" /\ made' = r
        /\ UNCHANGED <<bin, mod, arg, header, records, fileid, y, chunk, amount, i>>
    BY DEF MakeReturn, makeInput, patchFile, scanVars
  <1>2. Compared' = Compared
    BY <1>1 DEF Compared
  <1>3. MakeTypes' /\ Position'
    BY <1>1 DEF MakeInv, MakeTypes, IsFile, Position, AtChunk
  <1>4. OwnBlock'
    BY <1>1 DEF MakeInv, OwnBlock
  <1> QED
    BY <1>1, <1>2, <1>3, <1>4, SameFront DEF MakeInv, LastTouches

LEMMA BlockIsBytes ==
    ASSUME NEW f, IsFile(f), NEW t \in 0..1, NEW before \in [Block -> Byte]
    PROVE  BlockOf(f, BlockAt[t], before) \in [Block -> Byte]
  <1>1. PICK at \in Nat, len \in Nat : at = BlockAt[t] /\ len = BlockLen
    BY FormatAssumption
  <1>2. ASSUME NEW j \in Block, at + j < f.size PROVE f.data[at + j] \in Byte
    <2>1. at + j \in 0..(f.size - 1)
      BY <1>1, <1>2 DEF IsFile, Block
    <2> QED
      BY <2>1 DEF IsFile
  <1> QED
    BY <1>1, <1>2 DEF BlockOf

LEMMA OpeningKeepsInv ==
    ASSUME MakeInv,
           \/ OpenFilesForCreate \/ OpenFails \/ PPFCreateHeader \/ HeaderFails
           \/ NoMemory \/ EmptyBin \/ StartChanges
    PROVE  MakeInv'
  <1>1. CASE OpenFilesForCreate
    <2>1. CASE Refuses
      BY <1>1, <2>1, MakeReturnKeepsInv DEF OpenFilesForCreate, WRONG_INPUT_SIZE
    <2>2. CASE ~Refuses
      <3>1. /\ cpc = "open" /\ cpc' = "header"
            /\ UNCHANGED <<bin, mod, arg, header, records, fileid, y, chunk, amount, i, made>>
        BY <1>1, <2>2 DEF OpenFilesForCreate, makeInput, patchFile, scanVars
      <3>2. Compared' = Compared
        BY <3>1 DEF Compared
      <3>3. MakeTypes' /\ Position' /\ OwnBlock'
        BY <3>1 DEF MakeInv, MakeTypes, IsFile, Position, AtChunk, OwnBlock
      <3> QED
        BY <3>1, <3>2, <3>3, SameFront DEF MakeInv, LastTouches
    <2> QED
      BY <2>1, <2>2
  <1>2. CASE PPFCreateHeader
    <2>1. /\ cpc = "header" /\ cpc' = "changes"
          /\ header' = IF arg.blockcheck = 1 THEN BlockOf(bin, BlockPlace, header) ELSE header
          /\ UNCHANGED <<bin, mod, arg, records, fileid, y, chunk, amount, i, made>>
      BY <1>2 DEF PPFCreateHeader, makeInput, scanVars
    <2>2. Compared' = Compared
      BY <2>1 DEF Compared
    <2>3. MakeTypes' /\ Position'
      <3>1. header' \in [Block -> Byte]
        BY <2>1, BlockIsBytes DEF MakeInv, MakeTypes, BlockPlace
      <3> QED
        BY <2>1, <3>1 DEF MakeInv, MakeTypes, IsFile, Position, AtChunk
    <2>4. OwnBlock'
      <3> SUFFICES ASSUME arg.blockcheck = 1, NEW at \in Nat, at = BlockAt[arg.imagetype],
                          at + BlockLen <= bin.size, NEW j \in Block
                   PROVE  header'[j] = bin.data[at + j]
        <4>1. BlockAt[arg.imagetype] \in Nat
          BY FormatAssumption DEF MakeInv, MakeTypes
        <4> QED
          BY <2>1, <4>1 DEF OwnBlock
      <3>1. at + j < bin.size
        <4>1. j \in Nat /\ j < BlockLen /\ BlockLen \in Nat /\ bin.size \in Nat
          BY FormatAssumption DEF Block, MakeInv, MakeTypes, IsFile
        <4> QED
          BY <4>1
      <3> QED
        BY <2>1, <3>1 DEF BlockOf, BlockPlace
    <2> QED
      BY <2>1, <2>2, <2>3, <2>4, SameFront DEF MakeInv, LastTouches
  <1>3. CASE StartChanges
    <2>1. /\ cpc = "changes" /\ cpc' = "read"
          /\ UNCHANGED <<bin, mod, arg, header, records, fileid, y, chunk, amount, i, made>>
      BY <1>3 DEF StartChanges, makeInput, patchFile, scanVars
    <2>2. Compared' = Compared
      BY <2>1 DEF Compared
    <2>3. MakeTypes' /\ Position' /\ OwnBlock'
      BY <2>1 DEF MakeInv, MakeTypes, IsFile, Position, AtChunk, OwnBlock
    <2> QED
      BY <2>1, <2>2, <2>3, SameFront DEF MakeInv, LastTouches
  <1>4. CASE OpenFails
    BY <1>4, MakeReturnKeepsInv DEF OpenFails, FAILED_TO_OPEN, FAILED_TO_CREATE
  <1>5. CASE HeaderFails \/ NoMemory \/ EmptyBin
    BY <1>5, MakeReturnKeepsInv
       DEF HeaderFails, NoMemory, EmptyBin, HEADER_FAILED, OUT_OF_MEMORY, WRONG_INPUT_SIZE
  <1> QED
    BY <1>1, <1>2, <1>3, <1>4, <1>5

LEMMA Multiple == ASSUME NEW S \in Nat \ {0}, NEW q \in Nat PROVE (q * S) % S = 0
  OBVIOUS

LEMMA NextMultiple ==
    ASSUME NEW S \in Nat \ {0}, NEW q \in Nat
    PROVE  q * S + S = (q + 1) * S
  OBVIOUS

\* A chunk is read: of the modified file what there is of it.
LEMMA ReadChunkKeepsInv ==
    ASSUME MakeInv, ReadChunk
    PROVE  MakeInv'
  <1>1. /\ cpc = "read" /\ chunk < bin.size /\ cpc' = "scan" /\ i' = 0
        /\ amount' = Least(ChunkSize, bin.size - chunk)
        /\ y' = [j \in Chunk |-> IF j < amount' /\ chunk + j < mod.size
                                   THEN mod.data[chunk + j] ELSE y[j]]
        /\ UNCHANGED <<bin, mod, arg, header, records, fileid, chunk, made>>
        /\ MakeTypes /\ AtChunk
    BY DEF ReadChunk, makeInput, patchFile, MakeInv, Position
  <1>2. /\ bin.size \in Nat /\ mod.size \in Nat /\ chunk \in Nat /\ ChunkSize \in Nat \ {0}
        /\ IsFile(mod) /\ y \in [Chunk -> Byte]
    BY <1>1, CreateAssumption DEF MakeTypes, IsFile
  <1>3. amount' \in Nat \ {0} /\ amount' <= ChunkSize
    BY <1>1, <1>2 DEF Least
  <1>4. y' \in [Chunk -> Byte]
    <2>1. ASSUME NEW j \in Chunk, chunk + j < mod.size PROVE mod.data[chunk + j] \in Byte
      <3>1. chunk + j \in 0..(mod.size - 1)
        BY <1>2, <2>1 DEF Chunk
      <3> QED
        BY <1>2, <3>1 DEF IsFile
    <2> QED
      BY <1>1, <1>2, <2>1
  <1>5. ReadFromMod'
    <2> SUFFICES ASSUME NEW j \in Nat, j < amount', chunk + j < mod.size
                 PROVE  y'[j] = mod.data[chunk + j]
      BY <1>1 DEF ReadFromMod
    <2>1. j \in Chunk
      BY <1>2, <1>3 DEF Chunk
    <2> QED
      BY <1>1, <2>1
  <1>6. Compared' = Compared
    <2>1. Compared = chunk
      BY <1>1, <1>2 DEF Compared, Least
    <2>2. Compared' = chunk
      BY <1>1, <1>2, <1>3 DEF Compared, Least
    <2> QED
      BY <2>1, <2>2
  <1>7. MakeTypes'
    BY <1>1, <1>3, <1>4 DEF MakeTypes, IsFile
  <1>8. Position'
    BY <1>1, <1>3, <1>5 DEF Position, AtChunk
  <1>9. OwnBlock'
    BY <1>1 DEF MakeInv, OwnBlock
  <1>10. LastTouches'
    <2>1. chunk % ChunkSize = 0
      BY <1>1, <1>2, Multiple DEF AtChunk
    <2>2. chunk' + i' = chunk
      BY <1>1, <1>2
    <2> QED
      BY <1>1, <2>1, <2>2 DEF LastTouches, Touches, End
  <1> QED
    BY <1>1, <1>6, <1>7, <1>8, <1>9, <1>10, SameFront DEF MakeInv

LEMMA ChunkDoneKeepsInv ==
    ASSUME MakeInv, ChunkDone
    PROVE  MakeInv'
  <1>1. /\ cpc = "scan" /\ i >= amount /\ cpc' = "read" /\ chunk' = chunk + ChunkSize
        /\ UNCHANGED <<bin, mod, arg, header, records, fileid, y, amount, i, made>>
        /\ MakeTypes /\ AtChunk /\ chunk < bin.size /\ amount = Least(ChunkSize, bin.size - chunk)
    BY DEF ChunkDone, makeInput, patchFile, MakeInv, Position
  <1>2. /\ bin.size \in Nat /\ chunk \in Nat /\ ChunkSize \in Nat \ {0} /\ i \in Nat
        /\ amount \in Nat
    BY <1>1, CreateAssumption DEF MakeTypes, IsFile
  <1>3. AtChunk'
    <2>1. PICK q \in Nat : chunk = q * ChunkSize
      BY <1>1 DEF AtChunk
    <2>2. chunk' = (q + 1) * ChunkSize
      BY <1>1, <1>2, <2>1, NextMultiple
    <2> QED
      BY <2>2 DEF AtChunk
  <1>4. Compared' = Compared
    <2>1. Compared = chunk + amount
      BY <1>1, <1>2 DEF Compared, Least
    <2>2. Compared' = chunk + amount
      BY <1>1, <1>2 DEF Compared, Least
    <2> QED
      BY <2>1, <2>2
  <1>5. MakeTypes'
    <2>1. chunk' \in Nat
      BY <1>1, <1>2
    <2> QED
      BY <1>1, <2>1 DEF MakeTypes, IsFile
  <1>6. Position' /\ OwnBlock' /\ LastTouches'
    BY <1>1, <1>3 DEF Position, OwnBlock, LastTouches, MakeInv
  <1> QED
    BY <1>1, <1>4, <1>5, <1>6, SameFront DEF MakeInv

LEMMA MakeEndsKeepsInv ==
    ASSUME MakeInv, BinDone \/ PPFAddFileId \/ FileIdFails
    PROVE  MakeInv'
  <1>1. CASE BinDone
    BY <1>1, MakeReturnKeepsInv DEF BinDone
  <1>2. CASE FileIdFails
    BY <1>2, MakeReturnKeepsInv DEF FileIdFails
  <1>3. CASE PPFAddFileId
    <2>1. /\ cpc = "read" /\ chunk >= bin.size
          /\ cpc' = "made" /\ made' = 0 /\ fileid' = arg.fileid
          /\ UNCHANGED <<bin, mod, arg, header, records, y, chunk, amount, i>>
      BY <1>3 DEF PPFAddFileId, makeInput, scanVars
    <2>2. Compared' = Compared
      BY <2>1 DEF Compared
    <2>3. MakeTypes' /\ Position' /\ OwnBlock'
      BY <2>1 DEF MakeInv, MakeTypes, IsFile, Position, AtChunk, OwnBlock
    <2> QED
      BY <2>1, <2>2, <2>3, SameFront DEF MakeInv, LastTouches
  <1> QED
    BY <1>1, <1>2, <1>3

\* The byte at i, as far as the modified file has it.
LEMMA ByteRead ==
    ASSUME MakeInv, cpc = "scan", NEW j \in Nat, j < amount, chunk + j < mod.size
    PROVE  y[j] = mod.data[chunk + j] /\ (Differs(j) <=> bin.data[chunk + j] # mod.data[chunk + j])
  BY DEF MakeInv, Position, ReadFromMod, Differs

LEMMA SameByteKeepsInv ==
    ASSUME MakeInv, SameByte
    PROVE  MakeInv'
  <1>1. /\ cpc = "scan" /\ i < amount /\ ~Differs(i) /\ i' = i + 1
        /\ UNCHANGED <<cpc, bin, mod, arg, header, records, fileid, y, chunk, amount, made>>
        /\ MakeTypes /\ Position /\ RecordsBehind /\ RecordsAreDifferences
    BY DEF SameByte, makeInput, patchFile, MakeInv
  <1>2. /\ bin.size \in Nat /\ mod.size \in Nat /\ chunk \in Nat /\ i \in Nat /\ amount \in Nat
    BY <1>1 DEF MakeTypes, IsFile
  <1>3. Compared = chunk + i /\ Compared' = chunk + i + 1
    BY <1>1, <1>2 DEF Compared, Least
  <1>4. ASSUME NEW n \in 1..Len(records)
        PROVE  End(n) <= chunk + i /\ End(n) \in Nat
    <2>1. End(n) \in Nat
      <3>1. PICK o \in Nat, d \in Nat : o = records[n].offset /\ d = Len(records[n].data)
        <4>1. records[n] \in Records
          BY <1>1, ElementOfSeq DEF MakeTypes
        <4>2. records[n].offset \in Nat /\ records[n].data \in Seq(Byte)
          BY <4>1 DEF Records
        <4> QED
          BY <4>2, LenProperties
      <3> QED
        BY <3>1 DEF End
    <2> QED
      BY <1>1, <1>3, <2>1 DEF RecordsBehind
  <1>5. RecordsAreDifferences'
    <2> SUFFICES ASSUME NEW p \in 0..(Least(Compared', mod.size) - 1)
                 PROVE  /\ (bin.data[p] # mod.data[p])
                              <=> (\E n \in 1..Len(records) : Covers(records[n], p))
                        /\ \A n \in 1..Len(records) :
                              Covers(records[n], p) =>
                                LET at == p - records[n].offset + 1
                                IN  /\ records[n].data[at] = mod.data[p]
                                    /\ arg.undo = 1 => records[n].old[at] = bin.data[p]
      BY <1>1 DEF RecordsAreDifferences, Covers
    <2>1. p \in Nat /\ p <= chunk + i /\ p < mod.size
      BY <1>2, <1>3 DEF Least
    <2>2. CASE p < chunk + i
      <3>1. p \in 0..(Least(Compared, mod.size) - 1)
        BY <1>2, <1>3, <2>1, <2>2 DEF Least
      <3> QED
        BY <1>1, <3>1 DEF RecordsAreDifferences
    <2>3. CASE p = chunk + i
      <3>1. bin.data[p] = mod.data[p]
        BY <1>1, <1>2, <2>1, <2>3, ByteRead
      <3>2. \A n \in 1..Len(records) : ~Covers(records[n], p)
        BY <1>2, <1>4, <2>1, <2>3 DEF Covers, End
      <3> QED
        BY <3>1, <3>2
    <2> QED
      BY <1>2, <2>1, <2>2, <2>3
  <1>6. RecordsInOrder'
    BY <1>1, Zenon DEF MakeInv, RecordsInOrder
  <1>7. RecordsBehind'
    BY <1>1, <1>2, <1>3, <1>4 DEF RecordsBehind, End
  <1>8. MakeTypes'
    <2>1. i' \in Nat
      BY <1>1, <1>2
    <2> QED
      BY <1>1, <2>1 DEF MakeTypes, IsFile
  <1>9. Position'
    <2>1. i' <= amount + 1
      BY <1>1, <1>2
    <2> QED
      BY <1>1, <2>1 DEF Position, AtChunk, ReadFromMod
  <1>10. LastTouches'
    <2>1. ASSUME records # <<>> PROVE End(Len(records)) # chunk + i'
      <3>1. Len(records) \in 1..Len(records)
        BY <1>1, <2>1, EmptySeq DEF MakeTypes
      <3> QED
        BY <1>1, <1>2, <1>4, <3>1
    <2> QED
      BY <1>1, <2>1 DEF LastTouches, End
  <1>11. OwnBlock'
    BY <1>1 DEF MakeInv, OwnBlock
  <1> QED
    BY <1>1, <1>5, <1>6, <1>7, <1>8, <1>9, <1>10, <1>11 DEF MakeInv

\* What is recorded is the run, with the bytes of both files.
LEMMA WriteRecordKeepsInv ==
    ASSUME MakeInv, WriteRecord
    PROVE  MakeInv'
  <1> DEFINE N == Len(records)
             At == chunk + i
             D == [j \in 1..RunLength |-> y[i + j - 1]]
             O == IF arg.undo = 1 THEN UndoData(RunLength) ELSE <<>>
             new == [offset |-> At, data |-> D, old |-> O]
  <1>1. /\ cpc = "scan" /\ i < amount /\ Differs(i) /\ i' = After(RunLength)
        /\ records' = Append(records, new)
        /\ UNCHANGED <<cpc, bin, mod, arg, header, fileid, y, chunk, amount, made>>
        /\ MakeTypes /\ Position /\ RecordsBehind /\ RecordsAreDifferences /\ RecordsInOrder
        /\ LastTouches /\ amount = Least(ChunkSize, bin.size - chunk) /\ chunk < bin.size
    BY DEF WriteRecord, makeInput, MakeInv, RecordOffset, Position
  <1>2. /\ bin.size \in Nat /\ mod.size \in Nat /\ chunk \in Nat /\ i \in Nat /\ amount \in Nat
        /\ ChunkSize \in Nat \ {0} /\ MaxRun \in Nat \ {0}
        /\ y \in [Chunk -> Byte] /\ bin.data \in [0..(bin.size - 1) -> Byte]
    BY <1>1, FormatAssumption, CreateAssumption DEF MakeTypes, IsFile
  <1>3. amount <= ChunkSize /\ chunk + amount <= bin.size
    BY <1>1, <1>2 DEF Least
  <1>4. PICK k \in Nat \ {0} :
          /\ k = RunLength /\ k <= MaxRun /\ i + k <= amount
          /\ \A j \in 1..(k - 1) : Differs(i + j)
          /\ i + k < amount /\ k # MaxRun => ~Differs(i + k)
    BY <1>1, <1>2, RunEnds
  <1>5. D \in Seq(Byte) /\ Len(D) = k
    <2>1. \A j \in 1..k : i + j - 1 \in Chunk
      BY <1>2, <1>3, <1>4 DEF Chunk
    <2>2. D \in [1..k -> Byte]
      BY <1>2, <1>4, <2>1
    <2> HIDE DEF D
    <2> QED
      BY <2>2, SeqOfFunction
  <1>6. O \in Seq(Byte) /\ (arg.undo = 1 => Len(O) = k)
    <2>1. CASE arg.undo = 1
      <3>1. \A j \in 1..k : chunk + i + j - 1 \in 0..(bin.size - 1)
        BY <1>2, <1>3, <1>4
      <3>2. UndoData(k) \in [1..k -> Byte]
        BY <1>2, <3>1 DEF UndoData
      <3>3. O = UndoData(k)
        BY <1>4, <2>1
      <3> HIDE DEF O
      <3> QED
        BY <3>2, <3>3, SeqOfFunction
    <2>2. CASE arg.undo # 1
      BY <2>2, EmptySeq
    <2> QED
      BY <2>1, <2>2
  <1>7. At \in Nat /\ new \in Records
    BY <1>2, <1>5, <1>6 DEF Records
  <1>8. /\ N \in Nat /\ records' \in Seq(Records) /\ Len(records') = N + 1
        /\ \A n \in 1..N : records'[n] = records[n]
        /\ records'[N + 1] = new /\ records' # <<>>
    <2>1. records \in Seq(Records)
      BY <1>1 DEF MakeTypes
    <2> HIDE DEF new
    <2> QED
      BY <1>1, <1>7, <2>1, AppendProperties, LenProperties
  <1>9. /\ new.offset = At /\ Len(new.data) = k
        /\ \A j \in 1..k : new.data[j] = y[i + j - 1]
        /\ arg.undo = 1 => Len(new.old) = k /\ \A j \in 1..k : new.old[j] = bin.data[chunk + i + j - 1]
    BY <1>4, <1>5, <1>6 DEF UndoData
  <1> HIDE DEF D, O, new
  <1>10. Compared = At
    BY <1>1, <1>2 DEF Compared, Least
  <1>11. /\ i' \in Nat /\ i' <= amount + 1 /\ (i' = i + k => k = MaxRun) /\ i' >= i + k
    BY <1>1, <1>2, <1>4 DEF After
  <1>12. /\ Compared' = At + k \/ (Compared' = At + k + 1 /\ i + k < amount /\ k # MaxRun)
    <2>1. Compared' = chunk + Least(i', amount)
      BY <1>1 DEF Compared
    <2>2. CASE k = MaxRun
      <3>1. i' = i + k
        BY <1>1, <1>4, <2>2 DEF After
      <3>2. Least(i', amount) = i + k
        BY <1>4, <3>1 DEF Least
      <3> QED
        BY <1>2, <2>1, <3>2
    <2>3. CASE k # MaxRun
      <3>1. i' = i + k + 1
        BY <1>1, <1>4, <2>3 DEF After
      <3>2. CASE i + k < amount
        <4>1. Least(i', amount) = i + k + 1
          BY <1>2, <3>1, <3>2 DEF Least
        <4> QED
          BY <1>2, <2>1, <2>3, <3>2, <4>1
      <3>3. CASE ~(i + k < amount)
        <4>1. Least(i', amount) = i + k
          BY <1>2, <1>4, <3>1, <3>3 DEF Least
        <4> QED
          BY <1>2, <2>1, <4>1
      <3> QED
        BY <3>2, <3>3
    <2> QED
      BY <2>2, <2>3
  <1>13. ASSUME NEW n \in 1..N
         PROVE  /\ End(n) \in Nat /\ End(n) <= At
                /\ records[n].offset \in Nat /\ Len(records[n].data) \in Nat
    <2>1. records[n].offset \in Nat /\ Len(records[n].data) \in Nat
      <3>1. records[n] \in Records
        BY <1>1, ElementOfSeq DEF MakeTypes
      <3>2. records[n].offset \in Nat /\ records[n].data \in Seq(Byte)
        BY <3>1 DEF Records
      <3> QED
        BY <3>2, LenProperties
    <2>2. PICK o \in Nat, d \in Nat : o = records[n].offset /\ d = Len(records[n].data)
      BY <2>1
    <2>3. End(n) \in Nat
      BY <2>2 DEF End
    <2> QED
      BY <1>1, <1>10, <2>1, <2>3 DEF RecordsBehind
  <1> HIDE DEF N, At
  <1>14. /\ At = chunk + i /\ At \in Nat /\ chunk \in Nat /\ i \in Nat /\ amount \in Nat
         /\ mod.size \in Nat /\ i + k <= amount /\ Compared' \in Nat
    BY <1>2, <1>4, <1>12 DEF At

  <1>15. RecordsAreDifferences'
    <2> SUFFICES ASSUME NEW p \in 0..(Least(Compared', mod.size) - 1)
                 PROVE  /\ (bin.data[p] # mod.data[p])
                              <=> (\E n \in 1..(N + 1) : Covers(records'[n], p))
                        /\ \A n \in 1..(N + 1) :
                              Covers(records'[n], p) =>
                                /\ records'[n].data[p - records'[n].offset + 1] = mod.data[p]
                                /\ arg.undo = 1 =>
                                     records'[n].old[p - records'[n].offset + 1] = bin.data[p]
      BY <1>1, <1>8, SMTT(40) DEF RecordsAreDifferences, Covers
    <2>1. p \in Nat /\ p < Compared' /\ p < mod.size
      <3>1. PICK c \in Nat, m \in Nat : c = Compared' /\ m = mod.size
        BY <1>14
      <3>2. p \in 0..(Least(c, m) - 1)
        BY <3>1
      <3>3. p \in Nat /\ p < c /\ p < m
        BY <3>2 DEF Least
      <3> QED
        BY <3>1, <3>3
    <2>2. Covers(new, p) <=> At <= p /\ p < At + k
      BY <1>9 DEF Covers
    <2>3. \A n \in 1..(N + 1) : n \in 1..N \/ n = N + 1
      BY <1>8
    <2>4. N + 1 \in 1..(N + 1) /\ 1..N \subseteq 1..(N + 1)
      BY <1>8
    <2>5. CASE p < At
      <3>1. p \in 0..(Least(Compared, mod.size) - 1)
        BY <1>2, <1>10, <1>14, <2>1, <2>5 DEF Least
      <3>2. ~Covers(new, p)
        BY <1>14, <2>1, <2>2, <2>5
      <3>3. /\ (bin.data[p] # mod.data[p]) <=> (\E n \in 1..N : Covers(records[n], p))
            /\ \A n \in 1..N :
                  Covers(records[n], p) =>
                    /\ records[n].data[p - records[n].offset + 1] = mod.data[p]
                    /\ arg.undo = 1 => records[n].old[p - records[n].offset + 1] = bin.data[p]
        BY <1>1, <3>1 DEF RecordsAreDifferences, N
      <3> QED
        BY <1>8, <2>3, <2>4, <3>2, <3>3
    <2>6. ASSUME ~(p < At), NEW n \in 1..N PROVE ~Covers(records'[n], p)
      <3>1. ~Covers(records[n], p)
        BY <1>13, <1>14, <2>1, <2>6 DEF Covers, End
      <3> QED
        BY <1>8, <3>1
    <2>7. CASE At <= p /\ p < At + k
      <3>1. PICK j \in Nat : j = p - At /\ p = At + j /\ j < k
        BY <1>14, <2>1, <2>7
      <3>2. Differs(i + j)
        <4>1. CASE j = 0
          <5>1. i + j = i
            BY <1>2, <4>1
          <5> QED
            BY <1>1, <5>1
        <4>2. CASE j # 0
          <5>1. j \in 1..(k - 1)
            BY <3>1, <4>2
          <5> QED
            BY <1>4, <5>1
        <4> QED
          BY <4>1, <4>2
      <3>3. i + j < amount /\ chunk + (i + j) = p /\ i + j \in Nat
        BY <1>14, <3>1
      <3>4. y[i + j] = mod.data[p] /\ bin.data[p] # mod.data[p]
        BY <1>1, <2>1, <3>2, <3>3, ByteRead
      <3>5. p - At + 1 \in 1..k /\ i + (p - At + 1) - 1 = i + j
            /\ chunk + i + (p - At + 1) - 1 = p
        BY <1>14, <3>1
      <3>6. new.data[p - At + 1] = mod.data[p] /\ (arg.undo = 1 => new.old[p - At + 1] = bin.data[p])
        BY <1>9, <3>4, <3>5
      <3>7. Covers(records'[N + 1], p) /\ ~(p < At)
        BY <1>8, <1>14, <2>1, <2>2, <2>7
      <3>8. ASSUME NEW n \in 1..(N + 1), Covers(records'[n], p)
            PROVE  /\ records'[n].data[p - records'[n].offset + 1] = mod.data[p]
                   /\ arg.undo = 1 =>
                        records'[n].old[p - records'[n].offset + 1] = bin.data[p]
        <4>1. n = N + 1
          BY <2>3, <2>6, <3>7, <3>8
        <4>2. records'[n] = new /\ records'[n].offset = At
          BY <1>8, <1>9, <4>1
        <4> QED
          BY <3>6, <4>2
      <3> QED
        BY <2>4, <3>4, <3>7, <3>8
    <2>8. CASE p = At + k
      <3>1. i + k < amount /\ k # MaxRun
        BY <1>4, <1>12, <1>14, <2>1, <2>8
      <3>2. chunk + (i + k) = p /\ i + k \in Nat
        BY <1>2, <1>14, <2>8
      <3>3. bin.data[p] = mod.data[p]
        BY <1>1, <1>4, <2>1, <3>1, <3>2, ByteRead
      <3>4. ~Covers(new, p) /\ ~(p < At)
        BY <1>14, <2>1, <2>2, <2>8
      <3> QED
        BY <1>8, <2>3, <2>6, <3>3, <3>4
    <2> QED
      BY <1>12, <1>14, <2>1, <2>5, <2>7, <2>8
  <1>16. RecordsInOrder'
    <2> SUFFICES ASSUME NEW n \in 1..(N + 1)
                 PROVE  LET end == records'[n].offset + Len(records'[n].data)
                        IN  /\ Len(records'[n].data) \in 1..MaxRun
                            /\ end <= bin.size
                            /\ n < N + 1 => end <= records'[n + 1].offset
                            /\ (n < N + 1 /\ end = records'[n + 1].offset) =>
                                  Len(records'[n].data) = MaxRun \/ end % ChunkSize = 0
      BY <1>1, <1>8 DEF RecordsInOrder
    <2>1. CASE n < N
      <3>1. n \in 1..N /\ n + 1 \in 1..N
        BY <1>8, <2>1
      <3>2. records'[n] = records[n] /\ records'[n + 1] = records[n + 1]
        BY <1>8, <3>1
      <3> QED
        BY <1>1, <2>1, <3>1, <3>2 DEF RecordsInOrder, N
    <2>2. CASE n = N
      <3>1. n \in 1..N /\ records'[n] = records[n] /\ records'[n + 1] = new /\ n < N + 1
        BY <1>8, <2>2
      <3>2. Len(records[n].data) \in 1..MaxRun /\ End(n) <= bin.size
        BY <1>1, <3>1 DEF RecordsInOrder, N, End
      <3>3. End(n) <= At
        BY <1>13, <3>1
      <3>4. records # <<>>
        BY <1>8, <3>1, EmptySeq DEF N
      <3>5. End(n) = At => Touches(n)
        BY <1>1, <1>14, <2>2, <3>4 DEF LastTouches, N
      <3> QED
        BY <1>9, <3>1, <3>2, <3>3, <3>5 DEF End, Touches
    <2>3. CASE n = N + 1
      <3>1. records'[n] = new /\ ~(n < N + 1)
        BY <1>8, <2>3
      <3>2. Len(new.data) \in 1..MaxRun /\ new.offset + Len(new.data) <= bin.size
        BY <1>2, <1>3, <1>4, <1>9, <1>14
      <3> QED
        BY <3>1, <3>2
    <2> QED
      BY <1>8, <2>1, <2>2, <2>3
  <1>17. RecordsBehind'
    <2> SUFFICES ASSUME NEW n \in 1..(N + 1)
                 PROVE  records'[n].offset + Len(records'[n].data) <= Compared'
      BY <1>8 DEF RecordsBehind, End
    <2>1. At + k <= Compared'
      BY <1>4, <1>12, <1>14
    <2>2. CASE n \in 1..N
      <3>1. records'[n].offset + Len(records'[n].data) = End(n)
        BY <1>8, <2>2 DEF End
      <3> QED
        BY <1>4, <1>12, <1>13, <1>14, <2>2, <3>1
    <2>3. CASE n = N + 1
      BY <1>8, <1>9, <2>1, <2>3
    <2> QED
      BY <1>8, <2>2, <2>3
  <1>18. LastTouches'
    <2>1. SUFFICES ASSUME records'[N + 1].offset + Len(records'[N + 1].data) = chunk + i'
                   PROVE  Len(records'[N + 1].data) = MaxRun
      BY <1>1, <1>8 DEF LastTouches, Touches, End
    <2>2. At + k = chunk + i'
      BY <1>8, <1>9, <2>1
    <2>3. i' \in Nat /\ i' = i + k
      <3>1. PICK j \in Nat, c \in Nat, m \in Nat : j = i' /\ c = chunk /\ m = i
        BY <1>11, <1>14
      <3>2. c + m + k = c + j
        BY <1>14, <2>2, <3>1
      <3>3. j = m + k
        BY <3>2
      <3> QED
        BY <3>1, <3>3
    <2>4. k = MaxRun
      BY <1>11, <2>3
    <2> QED
      BY <1>8, <1>9, <2>4
  <1>19. MakeTypes'
    <2>1. ASSUME arg.undo = 1, NEW n \in 1..(N + 1)
          PROVE  Len(records'[n].old) = Len(records'[n].data)
      <3>1. CASE n \in 1..N
        BY <1>1, <1>8, <2>1, <3>1 DEF MakeTypes, N
      <3>2. CASE n = N + 1
        BY <1>8, <1>9, <2>1, <3>2
      <3> QED
        BY <1>8, <3>1, <3>2
    <2> QED
      BY <1>1, <1>8, <1>11, <2>1 DEF MakeTypes, IsFile
  <1>20. Position' /\ OwnBlock'
    BY <1>1, <1>11 DEF MakeInv, Position, AtChunk, ReadFromMod, OwnBlock
  <1> QED
    BY <1>1, <1>15, <1>16, <1>17, <1>18, <1>19, <1>20 DEF MakeInv

LEMMA MakeStepKeepsInv ==
    ASSUME MakeInv, MakeCall \/ MakeStep
    PROVE  MakeInv'
  <1>1. CASE MakeCall
    <2>1. PICK o \in Files, m \in Files, a \in Args, stack \in [Block -> Junk],
               heap \in [Chunk -> Junk] : MakePPF(o, m, a, stack, heap)
      BY <1>1 DEF MakeCall
    <2>2. IsFile(o) /\ IsFile(m)
      BY FilesAssumption DEF IsFile
    <2>3. stack \in [Block -> Byte] /\ heap \in [Chunk -> Byte]
      BY CreateAssumption
    <2> QED
      BY <2>1, <2>2, <2>3, CreateAssumption, MakePPFKeepsInv
  <1>2. CASE MakeStep
    BY <1>2, OpeningKeepsInv, ReadChunkKeepsInv, SameByteKeepsInv, WriteRecordKeepsInv,
       ChunkDoneKeepsInv, MakeEndsKeepsInv DEF MakeStep
  <1> QED
    BY <1>1, <1>2

LEMMA MakeStutterKeepsInv ==
    ASSUME MakeInv, UNCHANGED makeVars
    PROVE  MakeInv'
  <1>1. UNCHANGED <<cpc, bin, mod, arg, header, records, fileid, y, chunk, amount, i, made>>
    BY DEF makeVars, makeInput, patchFile, scanVars
  <1>2. Compared' = Compared
    BY <1>1 DEF Compared
  <1>3. MakeTypes' /\ Position' /\ OwnBlock'
    BY <1>1 DEF MakeInv, MakeTypes, IsFile, Position, AtChunk, ReadFromMod, OwnBlock
  <1>4. LastTouches'
    BY <1>1 DEF MakeInv, LastTouches, Touches, End
  <1> QED
    BY <1>1, <1>2, <1>3, <1>4, SameFront DEF MakeInv

-----------------------------------------------------------------------------
(* The steps of both.                                                        *)

LEMMA CreatedIsPatch ==
    ASSUME MakeInv
    PROVE  IsPatch(CreatedPatch) /\ Placeable(CreatedPatch) /\ CreatedPatch.version = 3
  <1>1. Records \subseteq Readable
    BY DEF Records, Readable
  <1>2. records \in Seq(Records)
    BY DEF MakeInv, MakeTypes
  <1>3. \A n \in 1..Len(records) : records[n] \in Records
    BY <1>2, ElementOfSeq
  <1>4. records \in Seq(Readable)
    BY <1>1, <1>2, <1>3
  <1>5. \A n \in 1..Len(records) : records[n].offset >= 0
    BY <1>3 DEF Records
  <1> QED
    BY <1>4, <1>5 DEF MakeInv, MakeTypes, CreatedPatch, IsPatch, Placeable

\* None of applyPPF's checks turns down a patch for the file it was made of.
LEMMA OwnPatchStep ==
    ASSUME Inv, ApplyStep, UNCHANGED makeVars
    PROVE  OwnPatchAccepted'
  <1>1. UNCHANGED <<made, bin, arg, header, patch, input, mode>>
    BY DEF ApplyStep, OpenFiles, OpenFilesFails, CheckSize, CheckUndo, CheckBlock, StartRecords,
           ApplyRecord, RunOn, Wraps, ApplyReturn, GoOn, applyInput, makeVars, makeInput,
           patchFile
  <1> SUFFICES ASSUME ppc' = "returned", made = 0, mode = "APPLY", input = bin,
                      arg.blockcheck = 1 => BlockAt[arg.imagetype] + BlockLen <= bin.size
               PROVE  applied' \in {0, OPEN_FAILED, NOT_COPIED}
    BY <1>1 DEF OwnPatchAccepted
  <1>2. /\ ApplyTypes /\ Stages /\ (ppc \in Checking => output = input)
        /\ patch = CreatedPatch /\ patch.version = 3 /\ OwnBlock /\ cpc = "made"
        /\ patch.block = header /\ patch.blockcheck = arg.blockcheck
        /\ patch.imagetype = arg.imagetype
    <2>1. ppc # "idle"
      BY DEF ApplyStep, OpenFiles, OpenFilesFails, CheckSize, CheckUndo, CheckBlock,
             StartRecords, ApplyRecord, RunOn, Wraps
    <2>2. patch = CreatedPatch
      BY <2>1 DEF Inv, Handed
    <2> QED
      BY <2>2 DEF Inv, ApplyInv, MakeInv, CreatedPatch
  <1>3. CASE OpenFiles
    BY <1>2, <1>3 DEF OpenFiles, Unsupported
  <1>4. CASE OpenFilesFails
    BY <1>4 DEF OpenFilesFails, ApplyReturn
  <1>5. CASE CheckSize
    BY <1>2, <1>5 DEF CheckSize, Stages
  <1>6. CASE CheckUndo
    BY <1>2, <1>6 DEF CheckUndo, GoOn
  <1>7. CASE CheckBlock
    <2>1. patch.blockcheck = 1 /\ output = bin
      BY <1>2, <1>7 DEF CheckBlock, Stages, Checking
    <2>2. PICK at \in Nat, size \in Nat, len \in Nat :
            /\ at = BlockAt[patch.imagetype] /\ size = bin.size /\ len = BlockLen
            /\ at + len <= size
      <3>1. BlockAt[patch.imagetype] \in Nat /\ BlockLen \in Nat
        BY <1>2, FormatAssumption DEF ApplyTypes, IsPatch
      <3>2. bin.size \in Nat
        BY DEF Inv, MakeInv, MakeTypes, IsFile
      <3> QED
        BY <1>2, <2>1, <3>1, <3>2
    <2>3. ASSUME NEW j \in Block PROVE at + j < bin.size /\ header[j] = bin.data[at + j]
      <3>1. j \in 0..(len - 1)
        BY <2>2 DEF Block
      <3>2. at + j < size
        BY <2>2, <3>1
      <3> QED
        BY <1>2, <2>1, <2>2, <3>2 DEF OwnBlock
    <2>4. binblock' = [j \in Block |-> header[j]]
      BY <1>7, <2>1, <2>2, <2>3 DEF CheckBlock, BlockOf
    <2>5. patch.block = [j \in Block |-> header[j]]
      BY <1>2 DEF Inv, MakeInv, MakeTypes
    <2> QED
      BY <1>7, <2>4, <2>5, <1>2 DEF CheckBlock, BlockAccepted
  <1>8. CASE StartRecords \/ RunOn
    BY <1>8 DEF StartRecords, RunOn
  <1>9. CASE ApplyRecord
    BY <1>2, <1>9 DEF ApplyRecord, ApplyTypes
  <1>10. CASE Wraps
    BY <1>2, <1>10 DEF Wraps
  <1> QED
    BY <1>3, <1>4, <1>5, <1>6, <1>7, <1>8, <1>9, <1>10 DEF ApplyStep

\* makePPF is not at work while applyPPF is.
LEMMA CreateKeepsInv ==
    ASSUME Inv, Create
    PROVE  Inv'
  <1>1. MakeInv'
    BY MakeStepKeepsInv DEF Create, Inv
  <1>2. ApplyInv'
    BY StutterKeepsInv DEF Create, Inv
  <1>3. cpc # "made"
    BY DEF Create, MakeCall, MakePPF, MakeStep, OpenFilesForCreate, OpenFails, PPFCreateHeader,
           HeaderFails, NoMemory, EmptyBin, StartChanges, ReadChunk, SameByte, WriteRecord,
           ChunkDone, BinDone, PPFAddFileId, FileIdFails
  <1>4. ppc = "idle"
    BY <1>3 DEF Inv, MakeInv, Handed
  <1>5. ppc' = "idle"
    BY <1>4 DEF Create, applyVars
  <1> QED
    BY <1>1, <1>2, <1>5 DEF Inv, Handed, OwnPatchAccepted

LEMMA CreatedStays == ASSUME UNCHANGED makeVars PROVE CreatedPatch' = CreatedPatch
  BY DEF makeVars, makeInput, patchFile, CreatedPatch

LEMMA ApplyCreatedKeepsInv ==
    ASSUME Inv, ApplyCreated
    PROVE  Inv'
  <1>1. /\ made = 0 /\ made' = 0 /\ CreatedPatch' = CreatedPatch /\ MakeInv'
        /\ ApplyInv /\ MakeInv /\ IsPatch(CreatedPatch)
    BY CreatedStays, CreatedIsPatch, MakeStutterKeepsInv DEF ApplyCreated, Inv, makeVars
  <1>2. CASE \E f \in Files : CopyAndApply(CreatedPatch, f)
    <2>1. PICK f \in Files : CopyAndApply(CreatedPatch, f)
      BY <1>2
    <2>2. IsFile(f)
      BY FilesAssumption DEF IsFile
    <2>3. ApplyInv'
      BY <1>1, <2>1, <2>2, CopyAndApplyKeepsInv
    <2>4. Handed' /\ OwnPatchAccepted'
      BY <1>1, <2>1 DEF CopyAndApply, Handed, OwnPatchAccepted
    <2> QED
      BY <1>1, <2>3, <2>4 DEF Inv
  <1>3. CASE InPlace(CreatedPatch, "UNDO")
    <2>1. ApplyInv'
      BY <1>1, <1>3, InPlaceKeepsInv
    <2>2. Handed' /\ OwnPatchAccepted'
      BY <1>1, <1>3 DEF InPlace, Handed, OwnPatchAccepted
    <2> QED
      BY <1>1, <2>1, <2>2 DEF Inv
  <1> QED
    BY <1>2, <1>3 DEF ApplyCreated

LEMMA ApplyingKeepsInv ==
    ASSUME Inv, ApplyStep, UNCHANGED makeVars
    PROVE  Inv'
  <1>1. MakeInv' /\ ApplyInv' /\ CreatedPatch' = CreatedPatch
    BY ApplyStepKeepsInv, MakeStutterKeepsInv, CreatedStays DEF Inv
  <1>2. ppc # "idle" /\ patch' = patch
    BY DEF ApplyStep, OpenFiles, OpenFilesFails, CheckSize, CheckUndo, CheckBlock, StartRecords,
           ApplyRecord, RunOn, Wraps, ApplyReturn, GoOn, applyInput
  <1>3. Handed'
    BY <1>1, <1>2 DEF Inv, Handed, makeVars
  <1> QED
    BY <1>1, <1>3, OwnPatchStep DEF Inv

LEMMA InvStep ==
    ASSUME Inv, [Next]_vars
    PROVE  Inv'
  <1>1. CASE Create
    BY <1>1, CreateKeepsInv
  <1>2. CASE ApplyCreated
    BY <1>2, ApplyCreatedKeepsInv
  <1>3. CASE ApplyStep /\ UNCHANGED makeVars
    BY <1>3, ApplyingKeepsInv
  <1>4. CASE Dismiss /\ UNCHANGED makeVars
    <2>1. MakeInv' /\ ApplyInv'
      BY <1>4, DismissKeepsInv, MakeStutterKeepsInv DEF Inv
    <2>2. ppc' = "idle"
      BY <1>4 DEF Dismiss
    <2> QED
      BY <2>1, <2>2 DEF Inv, Handed, OwnPatchAccepted
  <1>5. CASE UNCHANGED vars
    <2>1. MakeInv' /\ ApplyInv' /\ CreatedPatch' = CreatedPatch
      BY <1>5, StutterKeepsInv, MakeStutterKeepsInv, CreatedStays DEF Inv, vars
    <2>2. UNCHANGED <<made, bin, arg, ppc, patch, input, mode, applied>>
      BY <1>5 DEF vars, makeVars, makeInput, applyVars, applyInput
    <2>3. Handed' /\ OwnPatchAccepted'
      BY <2>1, <2>2 DEF Inv, Handed, OwnPatchAccepted
    <2> QED
      BY <2>1, <2>3 DEF Inv
  <1> QED
    BY <1>1, <1>2, <1>3, <1>4, <1>5 DEF Next

-----------------------------------------------------------------------------
(* What a created patch does to the file it was made of.                     *)

\* A set of numbers up to N that is not empty has a greatest element.
LEMMA GreatestNumber ==
    ASSUME NEW N \in Nat, NEW S \in SUBSET (1..N), S # {}
    PROVE  \E m \in S : \A k \in S : k <= m
  <1> DEFINE D == {N - k : k \in S}
  <1>1. D \in SUBSET Nat /\ D # {}
    <2>1. \A k \in S : N - k \in Nat
      OBVIOUS
    <2> QED
      BY <2>1, Zenon
  <1>2. PICK d \in D : \A e \in D : d <= e
    <2> HIDE DEF D
    <2> QED
      BY <1>1, LeastNumber
  <1>3. PICK m \in S : d = N - m
    BY <1>2
  <1>4. ASSUME NEW k \in S PROVE k <= m
    <2>1. N - m <= N - k
      BY <1>2, <1>3
    <2>2. k \in Nat /\ m \in Nat
      OBVIOUS
    <2> QED
      BY <2>1, <2>2
  <1> QED
    BY <1>3, <1>4

LEMMA LatestIsCovering ==
    ASSUME NEW k, NEW m \in Nat, CoveringTo(m, k) # {}
    PROVE  LatestTo(m, k) \in 1..m /\ CoveredBy(LatestTo(m, k), k)
  <1>1. CoveringTo(m, k) \in SUBSET (1..m)
    BY DEF CoveringTo
  <1>2. \E n \in CoveringTo(m, k) : \A l \in CoveringTo(m, k) : l <= n
    BY <1>1, GreatestNumber
  <1>3. LatestTo(m, k) \in CoveringTo(m, k)
    BY <1>2, Zenon DEF LatestTo
  <1> QED
    BY <1>3 DEF CoveringTo

\* What holds when a created patch has been applied.
LEMMA AfterApplying ==
    ASSUME Inv, ppc = "returned", applied = 0, ~lost
    PROVE  /\ patch.records = records /\ patch.undo = arg.undo /\ Len(records) \in Nat
           /\ Compared = bin.size /\ IsFile(bin) /\ IsFile(mod) /\ IsFile(input) /\ IsFile(output)
           /\ WrittenTo(Len(records))
           /\ input.size = bin.size => output.size = bin.size
           /\ mode = "UNDO" => arg.undo = 1
  <1>1. /\ made = 0 /\ patch = CreatedPatch /\ MakeInv /\ ApplyInv
    BY DEF Inv, Handed
  <1>2. /\ patch.records = records /\ patch.undo = arg.undo /\ patch.version = 3 /\ patch.torn = 0
    BY <1>1 DEF CreatedPatch
  <1>3. IsFile(bin) /\ IsFile(mod) /\ IsFile(input) /\ IsFile(output) /\ records \in Seq(Records)
        /\ chunk \in Nat
    BY <1>1 DEF MakeInv, MakeTypes, ApplyInv, ApplyTypes
  <1>4. Len(records) \in Nat
    BY <1>3, LenProperties
  <1>5. Compared = bin.size
    <2>1. cpc = "made" /\ chunk >= bin.size
      BY <1>1 DEF MakeInv
    <2>2. bin.size \in Nat
      BY <1>3 DEF IsFile
    <2> QED
      BY <1>3, <2>1, <2>2 DEF Compared, Least
  <1>6. WrittenTo(Len(records)) /\ KeepsSize
    BY <1>1, <1>2, CreatedIsPatch DEF ApplyInv, Clean
  <1>7. input.size = bin.size => output.size = bin.size
    <2> SUFFICES ASSUME input.size = bin.size PROVE output.size = input.size
      OBVIOUS
    <2>1. \A n \in 1..Len(records) : records[n].offset + Len(records[n].data) <= input.size
      BY <1>1 DEF MakeInv, RecordsInOrder
    <2> QED
      BY <1>2, <1>6, <2>1 DEF KeepsSize
  <1>8. mode = "UNDO" => arg.undo = 1
    BY <1>1, <1>2 DEF ApplyInv, Stages, Loops
  <1> QED
    BY <1>2, <1>3, <1>4, <1>5, <1>6, <1>7, <1>8

\* Every byte both files have: where they differ a record has it, elsewhere none has.
LEMMA ByteApplied ==
    ASSUME Inv, ppc = "returned", applied = 0, ~lost,
           NEW p \in 0..(Least(bin.size, mod.size) - 1), p < output.size
    PROVE  output.data[p]
             = IF bin.data[p] = mod.data[p] THEN ByteAt(input, p)
               ELSE IF mode = "UNDO" THEN bin.data[p] ELSE mod.data[p]
  <1> DEFINE N == Len(records)
  <1>1. /\ patch.records = records /\ N \in Nat /\ WrittenTo(N)
        /\ mode = "UNDO" => arg.undo = 1
        /\ Compared = bin.size /\ RecordsAreDifferences
    BY AfterApplying DEF Inv, MakeInv
  <1>2. p \in Nat
    <2>1. PICK b \in Nat, m \in Nat : b = bin.size /\ m = mod.size
      BY AfterApplying DEF IsFile
    <2> QED
      BY <2>1 DEF Least
  <1>3. output.data[p] = ExpectedTo(N, p)
    BY <1>1, <1>2 DEF WrittenTo, ByteAt
  <1>4. /\ (bin.data[p] # mod.data[p]) <=> (\E n \in 1..N : Covers(records[n], p))
        /\ \A n \in 1..N :
              Covers(records[n], p) =>
                /\ records[n].data[p - records[n].offset + 1] = mod.data[p]
                /\ arg.undo = 1 => records[n].old[p - records[n].offset + 1] = bin.data[p]
    BY <1>1 DEF RecordsAreDifferences
  <1>5. \A n : CoveredBy(n, p) <=> Covers(records[n], p)
    BY <1>1 DEF CoveredBy, Covers
  <1>6. CoveringTo(N, p) = {} <=> bin.data[p] = mod.data[p]
    BY <1>4, <1>5, Zenon DEF CoveringTo
  <1>7. CASE CoveringTo(N, p) = {}
    BY <1>3, <1>6, <1>7 DEF ExpectedTo
  <1>8. CASE CoveringTo(N, p) # {}
    <2>1. PICK n \in 1..N : n = LatestTo(N, p) /\ CoveredBy(n, p)
      BY <1>1, <1>8, LatestIsCovering
    <2>2. /\ records[n].data[p - records[n].offset + 1] = mod.data[p]
          /\ arg.undo = 1 => records[n].old[p - records[n].offset + 1] = bin.data[p]
      BY <1>4, <1>5, <2>1
    <2>3. output.data[p] = Bytes(n)[p - records[n].offset + 1]
      BY <1>1, <1>3, <1>8, <2>1 DEF ExpectedTo
    <2> QED
      BY <1>1, <1>6, <1>8, <2>2, <2>3 DEF Bytes
  <1> QED
    BY <1>7, <1>8

LEMMA SameFiles ==
    ASSUME NEW f, NEW g, IsFile(f), IsFile(g), f.size = g.size,
           \A p \in 0..(f.size - 1) : f.data[p] = g.data[p]
    PROVE  f = g
  <1>1. f.data = g.data
    <2>1. f.data \in [0..(f.size - 1) -> Byte] /\ g.data \in [0..(f.size - 1) -> Byte]
      BY DEF IsFile
    <2>2. /\ f.data = [p \in 0..(f.size - 1) |-> f.data[p]]
          /\ g.data = [p \in 0..(f.size - 1) |-> g.data[p]]
      BY <2>1, Zenon
    <2> QED
      BY <2>2, Zenon
  <1> QED
    BY <1>1 DEF IsFile

-----------------------------------------------------------------------------
(* The theorems.                                                             *)

\* The invariant of making and applying, for every file, option, chunk size and limit.
THEOREM RoundTripInvariant == Spec => []Inv
  <1>1. Init => Inv
    BY MakeStart, ApplyStart DEF Init, Inv, ApplyInit, Handed, OwnPatchAccepted
  <1>2. Inv /\ [Next]_vars => Inv'
    BY InvStep
  <1> QED
    BY <1>1, <1>2, PTL DEF Spec

\* Chunks, limit, stepping back and skipping leave out no byte that differs, record
\* none twice and none that is equal.
THEOREM RecordsExactHolds == Spec => []RecordsExact
  <1>1. Inv => RecordsExact
    BY DEF Inv, MakeInv, RecordsExact
  <1> QED
    BY <1>1, RoundTripInvariant, PTL

\* None of applyPPF's checks turns down a created patch on the file it was made of.
THEOREM OwnPatchAcceptedHolds == Spec => []OwnPatchAccepted
  <1>1. Inv => OwnPatchAccepted
    BY DEF Inv
  <1> QED
    BY <1>1, RoundTripInvariant, PTL

\* makePPF and applyPPF belong together: a created patch gives the original every
\* byte of the modified file at its length, and undo takes them back, unless bytes of the
\* output could not be written.
THEOREM RoundTripHolds == Spec => []RoundTrip
  <1>1. Inv => RoundTrip
    <2> SUFFICES ASSUME Inv PROVE RoundTrip
      OBVIOUS
    <2>1. ASSUME Applied("APPLY"), input = bin
          PROVE  /\ output.size = bin.size
                 /\ \A p \in 0..(Least(bin.size, mod.size) - 1) : output.data[p] = mod.data[p]
      <3>1. ppc = "returned" /\ applied = 0 /\ mode = "APPLY" /\ ~lost
        BY <2>1 DEF Applied
      <3>2. output.size = bin.size /\ IsFile(bin) /\ IsFile(mod)
        BY <2>1, <3>1, AfterApplying
      <3>3. ASSUME NEW p \in 0..(Least(bin.size, mod.size) - 1)
            PROVE  output.data[p] = mod.data[p]
        <4>1. p < bin.size /\ p < output.size
          <5>1. PICK b \in Nat, m \in Nat : b = bin.size /\ m = mod.size
            BY <3>2 DEF IsFile
          <5>2. p < b
            BY <5>1 DEF Least
          <5> QED
            BY <3>2, <5>1, <5>2
        <4>2. ByteAt(input, p) = bin.data[p]
          BY <2>1, <4>1 DEF ByteAt
        <4> QED
          BY <3>1, <4>1, <4>2, ByteApplied
      <3> QED
        BY <3>2, <3>3
    <2>2. ASSUME Applied("UNDO"), input = mod, bin.size = mod.size
          PROVE  output = bin
      <3>1. ppc = "returned" /\ applied = 0 /\ mode = "UNDO" /\ ~lost
        BY <2>2 DEF Applied
      <3>2. output.size = bin.size /\ IsFile(bin) /\ IsFile(output)
        BY <2>2, <3>1, AfterApplying
      <3>3. Least(bin.size, mod.size) = bin.size
        BY <2>2 DEF Least
      <3>4. ASSUME NEW p \in 0..(output.size - 1)
            PROVE  output.data[p] = bin.data[p]
        <4>1. p < mod.size /\ p < output.size
          BY <2>2, <3>2 DEF IsFile
        <4>2. ByteAt(input, p) = mod.data[p]
          BY <2>2, <4>1 DEF ByteAt
        <4> QED
          BY <3>1, <3>2, <3>3, <4>1, <4>2, ByteApplied
      <3> QED
        BY <3>2, <3>4, SameFiles
    <2> QED
      BY <2>1, <2>2 DEF RoundTrip
  <1> QED
    BY <1>1, RoundTripInvariant, PTL
=============================================================================
