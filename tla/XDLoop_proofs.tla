---------------------------- MODULE XDLoop_proofs ----------------------------
(***************************************************************************)
(* xdelta3's decoder, whatever it is given for a patch and for a source,   *)
(* and its encoder, whatever source and target it is given: for all files, *)
(* sizes of a block, a window and usize_t, sizes of the instruction        *)
(* buffer, and ways to call them.                                          *)
(***************************************************************************)
EXTENDS XDLoop, SequenceTheorems, WellFoundedInduction, TLAPS

-----------------------------------------------------------------------------
(* The natural numbers are well-founded, and what follows for what XDVcdiff  *)
(* and the community modules define by recursion.                            *)

\* A set of natural numbers that is not empty has a least element.
LEMMA LeastNumber ==
    ASSUME NEW S \in SUBSET Nat, S # {}
    PROVE  \E m \in S : \A k \in S : m <= k
  <1> DEFINE R == OpToRel(<, Nat)
  <1>1. PICK m \in S : \A k \in S : ~ (<<k, m>> \in R)
    <2>1. IsWellFoundedOn(R, Nat)
      BY NatLessThanWellFounded
    <2> HIDE DEF R
    <2> QED
      BY <2>1, WFMin, Zenon
  <1>2. \A k \in S : <<k, m>> \in R <=> k < m
    BY DEF OpToRel
  <1>3. \A k \in S : ~(k < m)
    BY <1>1, <1>2
  <1> QED
    BY <1>3

\* What the reading of a size answers, and a round of it.
ReadResult == [st : {"short", "overflow", "ok"}, val : Nat, next : Nat \ {0}]

Places == (Nat \ {0}) \X Nat

\* The place the round after this one is at.
Further(s, x) == <<x[1] + 1, x[2] * 128 + (s[x[1]] % 128)>>

ReadRound(s, i, f, x) ==
    IF x[1] > Len(s) THEN [st |-> "short", val |-> 0, next |-> i]
    ELSE IF Overflows(x[2]) THEN [st |-> "overflow", val |-> 0, next |-> i]
    ELSE IF s[x[1]] >= 128 THEN f[Further(s, x)]
    ELSE [st |-> "ok", val |-> x[2] * 128 + s[x[1]], next |-> x[1] + 1]

\* f is right for the last n bytes.
ReadsLast(s, i, n, f) ==
    /\ f \in [Places -> ReadResult]
    /\ \A x \in Places : x[1] + n > Len(s) => f[x] = ReadRound(s, i, f, x)

\* Bytes, and what is left of them without the bit that says there are more.
LEMMA ByteNumbers == \A b \in Byte : b \in Nat /\ b % 128 \in Nat
  BY DEF Byte

\* Where a number is read on from.
LEMMA FurtherPlace ==
    ASSUME NEW s \in Seq(Byte), NEW x \in Places, x[1] <= Len(s)
    PROVE  s[x[1]] \in Nat /\ Further(s, x) \in Places /\ Further(s, x)[1] = x[1] + 1
  <1>1. PICK k \in Nat \ {0}, part \in Nat : x = <<k, part>>
    BY DEF Places
  <1>2. x[1] = k /\ x[2] = part
    BY <1>1
  <1>3. k \in 1..Len(s)
    BY <1>1, <1>2
  <1>4. s[k] \in Byte
    BY <1>3
  <1>5. PICK low \in Nat : low = s[k] % 128
    BY <1>4, ByteNumbers
  <1>6. Further(s, x) = <<k + 1, part * 128 + low>>
    BY <1>2, <1>5 DEF Further
  <1>7. k + 1 \in Nat \ {0} /\ part * 128 + low \in Nat /\ s[x[1]] \in Nat
    <2>1. low \in Nat
      BY <1>5
    <2>2. s[x[1]] \in Nat
      <3>1. s[k] \in Nat
        BY <1>4, ByteNumbers, Zenon
      <3> QED
        BY <1>2, <3>1, Zenon
    <2>3. k + 1 \in Nat \ {0} /\ part * 128 + low \in Nat
      BY <1>1, <2>1
    <2> QED
      BY <2>2, <2>3
  <1> QED
    BY <1>2, <1>6, <1>7 DEF Places

\* A round takes a function of results to a result.
LEMMA ReadRoundType ==
    ASSUME NEW s \in Seq(Byte), NEW i \in Nat \ {0}, NEW f \in [Places -> ReadResult],
           NEW x \in Places
    PROVE  ReadRound(s, i, f, x) \in ReadResult
  <1>1. x[1] \in Nat \ {0} /\ x[2] \in Nat
    BY DEF Places
  <1>2. CASE x[1] > Len(s)
    BY <1>1, <1>2 DEF ReadRound, ReadResult
  <1>3. CASE x[1] <= Len(s)
    <2>1. s[x[1]] \in Nat /\ Further(s, x) \in Places
      BY <1>3, FurtherPlace
    <2>2. f[Further(s, x)] \in ReadResult
      BY <2>1
    <2>3. x[2] * 128 + s[x[1]] \in Nat
      BY <1>1, <2>1
    <2> QED
      BY <1>1, <1>3, <2>2, <2>3 DEF ReadRound, ReadResult
  <1> QED
    BY <1>1, <1>2, <1>3

\* There is one function that reads numbers as ReadSize's recursion says.
LEMMA ReadsExist ==
    ASSUME NEW s \in Seq(Byte), NEW i \in Nat \ {0}
    PROVE  \A n \in Nat : n <= Len(s) => \E f : ReadsLast(s, i, n, f)
  <1> DEFINE Bad == {n \in Nat : n <= Len(s) /\ ~ \E f : ReadsLast(s, i, n, f)}
  <1>1. SUFFICES ASSUME Bad # {} PROVE FALSE
    OBVIOUS
  <1>2. PICK m \in Bad : \A k \in Bad : m <= k
    <2>1. Bad \in SUBSET Nat
      OBVIOUS
    <2> HIDE DEF Bad
    <2> QED
      BY <1>1, <2>1, LeastNumber
  <1> DEFINE Short == [st |-> "short", val |-> 0, next |-> i]
  <1>3. Short \in ReadResult
    BY DEF ReadResult
  <1>4. CASE m = 0
    <2> DEFINE f == [x \in Places |-> Short]
    <2>1. ReadsLast(s, i, 0, f)
      <3>1. \A x \in Places : x[1] + 0 > Len(s) => ReadRound(s, i, f, x) = Short
        BY DEF Places, ReadRound
      <3> HIDE DEF Short
      <3> QED
        BY <1>3, <3>1 DEF ReadsLast
    <2> QED
      BY <1>2, <1>4, <2>1
  <1>5. CASE m # 0
    <2>1. m - 1 \in Nat /\ m \in Nat /\ m <= Len(s)
      BY <1>2, <1>5
    <2>2. PICK f : ReadsLast(s, i, m - 1, f)
      <3>1. m - 1 \notin Bad
        BY <1>2, <2>1
      <3> QED
        BY <2>1, <3>1
    <2> DEFINE g == [x \in Places |-> IF x[1] + m > Len(s) THEN ReadRound(s, i, f, x) ELSE Short]
    <2>3. f \in [Places -> ReadResult]
      BY <2>2 DEF ReadsLast
    <2>4. g \in [Places -> ReadResult]
      <3>1. \A x \in Places : ReadRound(s, i, f, x) \in ReadResult
        BY <2>3, ReadRoundType
      <3> HIDE DEF Short
      <3> QED
        BY <1>3, <3>1
    <2>5. ASSUME NEW x \in Places, x[1] + m > Len(s)
          PROVE  g[x] = ReadRound(s, i, g, x)
      <3>1. g[x] = ReadRound(s, i, f, x)
        BY <2>5
      <3>2. CASE x[1] > Len(s)
        BY <3>1, <3>2 DEF Places, ReadRound
      <3>3. CASE x[1] <= Len(s)
        <4> DEFINE y == Further(s, x)
        <4>1. x[1] \in Nat
          BY DEF Places
        <4>2. y \in Places /\ y[1] = x[1] + 1
          BY <3>3, FurtherPlace
        <4> HIDE DEF y
        <4>4. y[1] + (m - 1) > Len(s) /\ y[1] + m > Len(s)
          BY <2>1, <2>5, <4>1, <4>2
        <4>5. g[y] = f[y]
          <5>1. f[y] = ReadRound(s, i, f, y)
            BY <2>2, <4>2, <4>4 DEF ReadsLast
          <5>2. g[y] = ReadRound(s, i, f, y)
            BY <4>2, <4>4
          <5> QED
            BY <5>1, <5>2
        <4> HIDE DEF g
        <4> QED
          BY <3>1, <4>5 DEF ReadRound, y
      <3>4. x[1] \in Nat
        BY DEF Places
      <3> QED
        BY <3>2, <3>3, <3>4
    <2>6. ReadsLast(s, i, m, g)
      <3> HIDE DEF g
      <3> QED
        BY <2>4, <2>5 DEF ReadsLast
    <2> QED
      BY <1>2, <2>6
  <1> QED
    BY <1>2, <1>4, <1>5

\* A size is a number, and what is behind it is at an index.
LEMMA ReadSizeType ==
    ASSUME NEW s \in Seq(Byte), NEW i \in Nat \ {0}
    PROVE  /\ ReadSize(s, i).val \in Nat
           /\ ReadSize(s, i).next \in Nat \ {0}
  <1> DEFINE Reads(f) == f = [x \in Places |-> ReadRound(s, i, f, x)]
  <1>1. \E f : Reads(f)
    <2>1. Len(s) \in Nat /\ Len(s) <= Len(s)
      OBVIOUS
    <2>2. PICK f : ReadsLast(s, i, Len(s), f)
      BY <2>1, ReadsExist
    <2> DEFINE g == [x \in Places |-> ReadRound(s, i, f, x)]
    <2>3. ASSUME NEW x \in Places PROVE f[x] = ReadRound(s, i, f, x)
      <3>1. x[1] \in Nat \ {0}
        BY DEF Places
      <3> QED
        BY <2>1, <2>2, <3>1 DEF ReadsLast
    <2>4. f \in [Places -> ReadResult]
      BY <2>2 DEF ReadsLast
    <2> QED
      BY <2>3, <2>4
  <1>2. Reads(CHOOSE f : Reads(f))
    <2> HIDE DEF Reads
    <2> QED
      BY <1>1
  <1> DEFINE r == CHOOSE f : Reads(f)
  <1>3. ReadSize(s, i) = r[<<i, 0>>]
    BY DEF ReadSize, ReadRound, Further, Places
  <1>4. Reads(r)
    BY <1>2
  <1> HIDE DEF r
  <1>5. \A x \in Places : r[x] = ReadRound(s, i, r, x)
    BY <1>4
  <1> DEFINE Wrong == {n \in Nat : \E x \in Places : x[1] + n > Len(s) /\ r[x] \notin ReadResult}
  <1>6. Wrong = {}
    <2> SUFFICES ASSUME Wrong # {} PROVE FALSE
      OBVIOUS
    <2>1. PICK m \in Wrong : \A k \in Wrong : m <= k
      <3>1. Wrong \in SUBSET Nat
        OBVIOUS
      <3> HIDE DEF Wrong
      <3> QED
        BY <3>1, LeastNumber
    <2>2. PICK x \in Places : x[1] + m > Len(s) /\ r[x] \notin ReadResult
      BY <2>1
    <2>3. r[x] = ReadRound(s, i, r, x) /\ x[1] \in Nat \ {0} /\ x[2] \in Nat /\ m \in Nat
      BY <1>5, <2>1, <2>2 DEF Places
    <2>4. x[1] \in 1..Len(s)
      BY <2>2, <2>3 DEF ReadRound, ReadResult
    <2> DEFINE y == Further(s, x)
    <2>6. y \in Places /\ y[1] = x[1] + 1 /\ s[x[1]] \in Nat
      BY <2>4, FurtherPlace
    <2>7. r[x] = r[y]
      <3>1. x[2] * 128 + s[x[1]] \in Nat
        BY <2>3, <2>6
      <3> QED
        BY <2>2, <2>3, <2>4, <3>1 DEF ReadRound, ReadResult
    <2>8. m # 0 /\ y[1] + (m - 1) > Len(s)
      BY <2>2, <2>3, <2>4, <2>6
    <2>9. m - 1 \in Wrong
      <3> HIDE DEF y
      <3> QED
        BY <2>2, <2>3, <2>6, <2>7, <2>8
    <2> QED
      BY <2>1, <2>3, <2>9
  <1>7. <<i, 0>> \in Places /\ i + Len(s) > Len(s) /\ <<i, 0>>[1] = i /\ Len(s) \in Nat
    BY DEF Places
  <1>8. r[<<i, 0>>] \in ReadResult
    BY <1>6, <1>7
  <1> QED
    BY <1>3, <1>8 DEF ReadResult

\* The sequences put behind one another so far.
FlatUpto(S, seqs, n, f) ==
    /\ f \in [1..n -> Seq(S)]
    /\ n > 0 => f[1] = seqs[1]
    /\ \A i \in 2..n : f[i] = f[i - 1] \o seqs[i]

\* The partial concatenations of a sequence of sequences exist.
LEMMA FlatExists ==
    ASSUME NEW S, NEW seqs \in Seq(Seq(S))
    PROVE  \A n \in Nat : n <= Len(seqs) => \E f : FlatUpto(S, seqs, n, f)
  <1> DEFINE Bad == {n \in Nat : n <= Len(seqs) /\ ~ \E f : FlatUpto(S, seqs, n, f)}
  <1>1. SUFFICES ASSUME Bad # {} PROVE FALSE
    OBVIOUS
  <1>2. PICK m \in Bad : \A k \in Bad : m <= k
    <2>1. Bad \in SUBSET Nat
      OBVIOUS
    <2> HIDE DEF Bad
    <2> QED
      BY <1>1, <2>1, LeastNumber
  <1>3. CASE m = 0
    <2> DEFINE f == [i \in 1..0 |-> <<>>]
    <2>1. 1..0 = {} /\ 2..0 = {}
      OBVIOUS
    <2>2. f \in [1..0 -> Seq(S)]
      BY <2>1
    <2>3. FlatUpto(S, seqs, 0, f)
      BY <2>1, <2>2 DEF FlatUpto
    <2> QED
      BY <1>2, <1>3, <2>3
  <1>4. CASE m # 0
    <2>1. m \in 1..Len(seqs) /\ m - 1 \in Nat /\ m - 1 <= Len(seqs) /\ m - 1 < m
      BY <1>2, <1>4
    <2>2. PICK f : FlatUpto(S, seqs, m - 1, f)
      <3>1. m - 1 \notin Bad
        <4>1. m \in Nat
          BY <2>1
        <4> HIDE DEF Bad
        <4> QED
          BY <1>2, <2>1, <4>1
      <3> QED
        BY <2>1, <3>1
    <2>3. seqs[m] \in Seq(S) /\ seqs[1] \in Seq(S)
      BY <2>1
    <2> DEFINE g == [i \in 1..m |-> IF i = m THEN (IF m = 1 THEN seqs[1] ELSE f[m - 1] \o seqs[m]) ELSE f[i]]
    <2>4. \A i \in 1..(m - 1) : g[i] = f[i] /\ f[i] \in Seq(S)
      <3>1. \A i \in 1..(m - 1) : i # m /\ i \in 1..m
        BY <2>1
      <3>2. \A i \in 1..(m - 1) : f[i] \in Seq(S)
        BY <2>2 DEF FlatUpto
      <3> QED
        BY <3>1, <3>2
    <2>5. g[m] \in Seq(S)
      <3>1. CASE m = 1
        BY <2>3, <3>1
      <3>2. CASE m # 1
        <4>1. m - 1 \in 1..(m - 1)
          BY <2>1, <3>2
        <4>2. f[m - 1] \in Seq(S)
          BY <2>4, <4>1
        <4>3. f[m - 1] \o seqs[m] \in Seq(S)
          BY <2>3, <4>2
        <4> QED
          BY <2>1, <3>2, <4>3
      <3> QED
        BY <3>1, <3>2
    <2>6. g \in [1..m -> Seq(S)]
      <3>1. \A i \in 1..m : i = m \/ i \in 1..(m - 1)
        BY <2>1
      <3>2. \A i \in 1..m : g[i] \in Seq(S)
        BY <2>4, <2>5, <3>1, Zenon
      <3> QED
        BY <3>2
    <2>7. g[1] = seqs[1]
      BY <2>1, <2>2 DEF FlatUpto
    <2>8. ASSUME NEW i \in 2..m PROVE g[i] = g[i - 1] \o seqs[i]
      <3>1. i - 1 \in 1..(m - 1) /\ i \in 1..m
        BY <2>1
      <3>2. g[i - 1] = f[i - 1]
        BY <2>4, <3>1
      <3>3. CASE i = m
        <4>1. m # 1 /\ m \in 1..m
          BY <2>1, <3>3
        <4>2. g[m] = f[m - 1] \o seqs[m]
          BY <4>1
        <4> HIDE DEF g
        <4> QED
          BY <3>2, <3>3, <4>2
      <3>4. CASE i # m
        <4>1. i \in 2..(m - 1) /\ i \in 1..(m - 1)
          BY <2>1, <3>4
        <4>2. f[i] = f[i - 1] \o seqs[i]
          BY <2>2, <4>1 DEF FlatUpto
        <4> QED
          BY <2>4, <3>2, <4>1, <4>2
      <3> QED
        BY <3>3, <3>4
    <2>9. FlatUpto(S, seqs, m, g)
      <3> HIDE DEF g
      <3> QED
        BY <2>6, <2>7, <2>8 DEF FlatUpto
    <2> QED
      BY <1>2, <2>9
  <1> QED
    BY <1>3, <1>4

\* FlattenSeq puts them all behind one another.
LEMMA FlatIsFlatten ==
    ASSUME NEW S, NEW seqs \in Seq(Seq(S)), seqs # <<>>
    PROVE  \E f : FlatUpto(S, seqs, Len(seqs), f) /\ FlattenSeq(seqs) = f[Len(seqs)]
  <1>1. Len(seqs) \in Nat \ {0}
    OBVIOUS
  <1> DEFINE n == Len(seqs)
  <1> DEFINE Flat(f) == f = [i \in 1..n |-> IF i = 1 THEN seqs[i] ELSE f[i - 1] \o seqs[i]]
  <1>2. \E f : Flat(f)
    <2>1. n <= n
      BY <1>1
    <2>2. PICK f : FlatUpto(S, seqs, n, f)
      BY <1>1, <2>1, FlatExists
    <2>3. ASSUME NEW i \in 1..n PROVE f[i] = IF i = 1 THEN seqs[i] ELSE f[i - 1] \o seqs[i]
      <3>1. CASE i = 1
        BY <1>1, <2>2, <3>1 DEF FlatUpto
      <3>2. CASE i # 1
        <4>1. i \in 2..n
          BY <1>1, <3>2
        <4> QED
          BY <2>2, <3>2, <4>1 DEF FlatUpto
      <3> QED
        BY <3>1, <3>2
    <2>4. f \in [1..n -> Seq(S)]
      BY <2>2 DEF FlatUpto
    <2> QED
      BY <2>3, <2>4
  <1> DEFINE g == CHOOSE f : Flat(f)
  <1>3. Flat(g)
    <2> HIDE DEF Flat
    <2> QED
      BY <1>2
  <1>4. FlattenSeq(seqs) = g[n]
    BY <1>1 DEF FlattenSeq
  <1> HIDE DEF g
  <1>5. /\ DOMAIN g = 1..n
        /\ g[1] = seqs[1]
        /\ \A i \in 2..n : g[i] = g[i - 1] \o seqs[i]
    <2>1. 1 \in 1..n /\ \A i \in 2..n : i # 1 /\ i \in 1..n
      BY <1>1
    <2>2. g = [i \in 1..n |-> IF i = 1 THEN seqs[i] ELSE g[i - 1] \o seqs[i]]
      BY <1>3
    <2>3. \A i \in 1..n : g[i] = IF i = 1 THEN seqs[i] ELSE g[i - 1] \o seqs[i]
      BY <2>2
    <2> HIDE DEF n
    <2> QED
      BY <2>1, <2>2, <2>3
  <1> DEFINE Bad == {i \in 1..n : g[i] \notin Seq(S)}
  <1>6. Bad = {}
    <2> SUFFICES ASSUME Bad # {} PROVE FALSE
      OBVIOUS
    <2>1. PICK m \in Bad : \A k \in Bad : m <= k
      <3>1. Bad \in SUBSET Nat
        BY <1>1
      <3> HIDE DEF Bad
      <3> QED
        BY <3>1, LeastNumber
    <2>2. m \in 1..n /\ seqs[m] \in Seq(S)
      BY <2>1
    <2>3. CASE m = 1
      BY <1>5, <2>1, <2>2, <2>3
    <2>4. CASE m # 1
      <3>1. m - 1 \in 1..n /\ m - 1 < m /\ m \in 2..n
        BY <1>1, <2>2, <2>4
      <3>2. g[m - 1] \in Seq(S)
        BY <2>1, <3>1
      <3>3. g[m - 1] \o seqs[m] \in Seq(S)
        BY <2>2, <3>2
      <3> QED
        BY <1>5, <2>1, <3>1, <3>3
    <2> QED
      BY <2>3, <2>4
  <1>7. \A i \in 1..n : g[i] \in Seq(S)
    BY <1>6
  <1>8. g \in [1..n -> Seq(S)]
    <2>1. g = [i \in 1..n |-> g[i]]
      <3> DEFINE h == [i \in 1..n |-> IF i = 1 THEN seqs[i] ELSE g[i - 1] \o seqs[i]]
      <3>1. g = h /\ h = [i \in DOMAIN h |-> h[i]] /\ DOMAIN h = 1..n
        BY <1>3
      <3> HIDE DEF h
      <3> QED
        BY <3>1
    <2> QED
      BY <1>7, <2>1
  <1>9. FlatUpto(S, seqs, n, g)
    BY <1>5, <1>8 DEF FlatUpto
  <1> QED
    BY <1>4, <1>9

\* g says how long it is by then.
LengthsAre(S, seqs, n, g) ==
    /\ g \in [1..n -> Nat]
    /\ FlattenSeq(seqs) \in Seq(S) /\ Len(FlattenSeq(seqs)) = g[n]
    /\ g[1] = Len(seqs[1])
    /\ \A i \in 2..n : g[i] = g[i - 1] + Len(seqs[i])

\* ... and are as long as their parts together.
LEMMA FlatLengths ==
    ASSUME NEW S, NEW seqs \in Seq(Seq(S)), NEW n \in Nat \ {0}, Len(seqs) = n
    PROVE  \E g : LengthsAre(S, seqs, n, g)
  <1>1. seqs # <<>>
    OBVIOUS
  <1>2. PICK f : FlatUpto(S, seqs, n, f) /\ FlattenSeq(seqs) = f[n]
    BY <1>1, FlatIsFlatten
  <1> DEFINE g == [i \in 1..n |-> Len(f[i])]
  <1>3. f \in [1..n -> Seq(S)] /\ f[1] = seqs[1]
    BY <1>2 DEF FlatUpto
  <1>4. g \in [1..n -> Nat]
    BY <1>3
  <1>5. ASSUME NEW i \in 2..n PROVE g[i] = g[i - 1] + Len(seqs[i])
    <2>1. i \in 1..n /\ i - 1 \in 1..n
      OBVIOUS
    <2>2. f[i] = f[i - 1] \o seqs[i]
      BY <1>2 DEF FlatUpto
    <2>3. f[i - 1] \in Seq(S) /\ seqs[i] \in Seq(S)
      BY <1>3, <2>1
    <2>4. Len(f[i]) = Len(f[i - 1]) + Len(seqs[i])
      BY <2>2, <2>3
    <2> QED
      BY <2>1, <2>4
  <1>6. n \in 1..n /\ 1 \in 1..n
    OBVIOUS
  <1>7. FlattenSeq(seqs) \in Seq(S) /\ Len(FlattenSeq(seqs)) = g[n] /\ g[1] = Len(seqs[1])
    BY <1>2, <1>3, <1>6
  <1> HIDE DEF g
  <1> QED
    BY <1>4, <1>5, <1>7 DEF LengthsAre

\* Of one, four and nine sequences.
LEMMA FlatOne ==
    ASSUME NEW S, NEW seqs \in Seq(Seq(S)), Len(seqs) = 1
    PROVE  FlattenSeq(seqs) \in Seq(S) /\ Len(FlattenSeq(seqs)) = Len(seqs[1])
  <1>1. 1 \in Nat \ {0}
    OBVIOUS
  <1>2. PICK g : LengthsAre(S, seqs, 1, g)
    BY <1>1, FlatLengths
  <1> QED
    BY <1>2 DEF LengthsAre

\* Four of them.
LEMMA FlatFour ==
    ASSUME NEW S, NEW seqs \in Seq(Seq(S)), Len(seqs) = 4,
           NEW a \in Nat, \A i \in 1..4 : Len(seqs[i]) = a
    PROVE  FlattenSeq(seqs) \in Seq(S) /\ Len(FlattenSeq(seqs)) = a + a + a + a
  <1>1. 4 \in Nat \ {0}
    OBVIOUS
  <1>2. PICK g : LengthsAre(S, seqs, 4, g)
    BY <1>1, FlatLengths
  <1>3. /\ g \in [1..4 -> Nat]
        /\ FlattenSeq(seqs) \in Seq(S) /\ Len(FlattenSeq(seqs)) = g[4]
        /\ g[1] = Len(seqs[1])
    BY <1>2 DEF LengthsAre
  <1>4. \A i \in 2..4 : g[i] = g[i - 1] + Len(seqs[i])
    BY <1>2 DEF LengthsAre
  <1>5. g[1] = a
    BY <1>3
  <1>6. g[2] = g[1] + a /\ g[3] = g[2] + a /\ g[4] = g[3] + a
    BY <1>4
  <1> QED
    BY <1>3, <1>5, <1>6

\* Of nine sequences the first six are as long as each other, and the rest.
Widths(seqs, a, b) == (\A i \in 1..6 : Len(seqs[i]) = a) /\ (\A i \in 7..9 : Len(seqs[i]) = b)

\* Nine of them.
LEMMA FlatNine ==
    ASSUME NEW S, NEW seqs \in Seq(Seq(S)), Len(seqs) = 9,
           NEW a \in Nat, NEW b \in Nat, Widths(seqs, a, b)
    PROVE  FlattenSeq(seqs) \in Seq(S) /\ Len(FlattenSeq(seqs)) = a + a + a + a + a + a + b + b + b
  <1>1. 9 \in Nat \ {0}
    OBVIOUS
  <1>2. PICK g : LengthsAre(S, seqs, 9, g)
    BY <1>1, FlatLengths
  <1>3. /\ g \in [1..9 -> Nat]
        /\ FlattenSeq(seqs) \in Seq(S) /\ Len(FlattenSeq(seqs)) = g[9]
        /\ g[1] = Len(seqs[1])
    BY <1>2 DEF LengthsAre
  <1>4. \A i \in 2..9 : g[i] = g[i - 1] + Len(seqs[i])
    BY <1>2 DEF LengthsAre
  <1>5. g[1] = a
    BY <1>3 DEF Widths
  <1>6. g[2] = g[1] + a /\ g[3] = g[2] + a /\ g[4] = g[3] + a /\ g[5] = g[4] + a /\ g[6] = g[5] + a
    BY <1>4 DEF Widths
  <1>7. g[7] = g[6] + b /\ g[8] = g[7] + b /\ g[9] = g[8] + b
    BY <1>4 DEF Widths
  <1> QED
    BY <1>3, <1>5, <1>6, <1>7

Entries == [type1 : Nat, size1 : Nat, type2 : Nat, size2 : Nat]

\* The instructions of the code table are instructions.
LEMMA EntryType ==
    ASSUME NEW t \in Nat, NEW s \in Nat, NEW u \in Nat, NEW r \in Nat
    PROVE  Single(t, s) \in Entries /\ Double(t, s, u, r) \in Entries
  BY DEF Single, Double, Entries, NOOP

Copies(m) == <<Single(CPY + Modes[m], 0)>> \o [c \in 1..15 |-> Single(CPY + Modes[m], MinMatch + c - 1)]
AddCopies(m) == Pairs(4, AddCopyMax(Modes[m]), LAMBDA a, c : Double(ADD, a, CPY + Modes[m], c))
CopyAdds(m) == Pairs(1, 4, LAMBDA a, c : Double(CPY + Modes[m], c, ADD, a))

\* The rows of copies of one mode, of which there are as many as sizes.
LEMMA CopiesType ==
    ASSUME NEW m \in 1..9
    PROVE  Copies(m) \in Seq(Entries) /\ Len(Copies(m)) = 16
  <1>1. CPY + Modes[m] \in Nat
    BY DEF CPY, Modes, CpyModes, NearModes, SameModes
  <1>2. <<Single(CPY + Modes[m], 0)>> \in Seq(Entries)
    BY <1>1, EntryType
  <1> DEFINE rest == [c \in 1..15 |-> Single(CPY + Modes[m], MinMatch + c - 1)]
  <1>3. rest \in Seq(Entries) /\ Len(rest) = 15
    <2>1. \A c \in 1..15 : MinMatch + c - 1 \in Nat
      BY DEF MinMatch
    <2>2. \A c \in 1..15 : Single(CPY + Modes[m], MinMatch + c - 1) \in Entries
      BY <1>1, <2>1, EntryType
    <2> QED
      BY <2>2
  <1> QED
    BY <1>2, <1>3 DEF Copies

\* The rows of an ADD before a copy.
LEMMA AddCopiesType ==
    ASSUME NEW m \in 1..9
    PROVE  /\ AddCopies(m) \in Seq(Entries)
           /\ Len(AddCopies(m)) = IF m <= 6 THEN 12 ELSE 4
  <1> DEFINE k == IF m <= 6 THEN 3 ELSE 1
             rows == [a \in 1..4 |-> [c \in 1..k |-> Double(ADD, a, CPY + Modes[m], MinMatch + c - 1)]]
  <1>1. CPY + Modes[m] \in Nat /\ ADD \in Nat /\ Modes[m] = m - 1
    BY DEF CPY, ADD, Modes, CpyModes, NearModes, SameModes
  <1>2. AddCopyMax(Modes[m]) - MinMatch + 1 = k
    BY <1>1 DEF AddCopyMax, MinMatch, NearModes
  <1>3. AddCopies(m) = FlattenSeq(rows)
    BY <1>2 DEF AddCopies, Pairs
  <1>4. ASSUME NEW a \in 1..4 PROVE rows[a] \in Seq(Entries) /\ Len(rows[a]) = k
    <2>1. \A c \in 1..k : MinMatch + c - 1 \in Nat
      BY DEF MinMatch
    <2>2. a \in Nat
      OBVIOUS
    <2>3. \A c \in 1..k : Double(ADD, a, CPY + Modes[m], MinMatch + c - 1) \in Entries
      BY <1>1, <2>1, <2>2, EntryType
    <2>4. k \in Nat
      OBVIOUS
    <2>5. rows[a] = [c \in 1..k |-> Double(ADD, a, CPY + Modes[m], MinMatch + c - 1)]
      OBVIOUS
    <2> HIDE DEF rows, k
    <2> QED
      BY <2>3, <2>4, <2>5
  <1>5. rows \in Seq(Seq(Entries)) /\ Len(rows) = 4
    <2>1. DOMAIN rows = 1..4 /\ rows = [a \in 1..4 |-> rows[a]]
      OBVIOUS
    <2> HIDE DEF rows
    <2> QED
      BY <1>4, <2>1
  <1>6. k \in Nat /\ k + k + k + k = IF m <= 6 THEN 12 ELSE 4
    OBVIOUS
  <1> HIDE DEF rows, k
  <1> QED
    BY <1>3, <1>4, <1>5, <1>6, FlatFour

\* The row of a copy before an ADD.
LEMMA CopyAddsType ==
    ASSUME NEW m \in 1..9
    PROVE  CopyAdds(m) \in Seq(Entries) /\ Len(CopyAdds(m)) = 1
  <1> DEFINE row(a) == [c \in 1..1 |-> Double(CPY + Modes[m], MinMatch + c - 1, ADD, a)]
             rows == [a \in 1..1 |-> row(a)]
  <1>1. CPY + Modes[m] \in Nat /\ ADD \in Nat
    BY DEF CPY, ADD, Modes, CpyModes, NearModes, SameModes
  <1>2. 4 - MinMatch + 1 = 1
    BY DEF MinMatch
  <1>3. CopyAdds(m) = FlattenSeq(rows)
    BY <1>2 DEF CopyAdds, Pairs
  <1>4. row(1) \in Seq(Entries) /\ Len(row(1)) = 1
    <2>1. \A c \in 1..1 : MinMatch + c - 1 \in Nat
      BY DEF MinMatch
    <2>2. \A c \in 1..1 : Double(CPY + Modes[m], MinMatch + c - 1, ADD, 1) \in Entries
      BY <1>1, <2>1, EntryType
    <2> QED
      BY <2>2
  <1>5. rows[1] = row(1) /\ rows = [a \in 1..1 |-> rows[a]]
    OBVIOUS
  <1> HIDE DEF row, rows
  <1>6. rows \in Seq(Seq(Entries)) /\ Len(rows) = 1
    <2>1. \A a \in 1..1 : rows[a] \in Seq(Entries)
      BY <1>4, <1>5
    <2> QED
      BY <1>5, <2>1
  <1> QED
    BY <1>3, <1>4, <1>5, <1>6, FlatOne

\* What the table is put together of.
LEMMA PartsType ==
    ASSUME NEW S, NEW a \in Seq(S), NEW b \in Seq(S), NEW c \in Seq(S), NEW d \in Seq(S), NEW e \in Seq(S)
    PROVE  /\ a \o b \o c \o d \o e \in Seq(S)
           /\ Len(a \o b \o c \o d \o e) = Len(a) + Len(b) + Len(c) + Len(d) + Len(e)
  <1>1. a \o b \in Seq(S) /\ Len(a \o b) = Len(a) + Len(b)
    OBVIOUS
  <1> DEFINE ab == a \o b
  <1> HIDE DEF ab
  <1>2. ab \o c \in Seq(S) /\ Len(ab \o c) = Len(ab) + Len(c)
    BY <1>1 DEF ab
  <1> DEFINE abc == ab \o c
  <1> HIDE DEF abc
  <1>3. abc \o d \in Seq(S) /\ Len(abc \o d) = Len(abc) + Len(d)
    BY <1>2 DEF abc
  <1> DEFINE abcd == abc \o d
  <1> HIDE DEF abcd
  <1>4. abcd \o e \in Seq(S) /\ Len(abcd \o e) = Len(abcd) + Len(e)
    BY <1>3 DEF abcd
  <1>5. Len(ab) = Len(a) + Len(b) /\ Len(abc) = Len(ab) + Len(c) /\ Len(abcd) = Len(abc) + Len(d)
    BY <1>1, <1>2, <1>3 DEF ab, abc, abcd
  <1>6. Len(abcd \o e) = Len(a) + Len(b) + Len(c) + Len(d) + Len(e)
    BY <1>4, <1>5
  <1> QED
    BY <1>4, <1>6 DEF ab, abc, abcd

\* Every code has an entry, of one or two instructions.
LEMMA CodeTableType == CodeTable \in Seq(Entries) /\ Len(CodeTable) = 256
  <1> DEFINE first == <<Single(RUN, 0), Single(ADD, 0)>>
             adds == [s \in 1..17 |-> Single(ADD, s)]
             copies == [m \in 1..9 |-> Copies(m)]
             addCopies == [m \in 1..9 |-> AddCopies(m)]
             copyAdds == [m \in 1..9 |-> CopyAdds(m)]
  <1>1. CodeTable = first \o adds \o FlattenSeq(copies) \o FlattenSeq(addCopies) \o FlattenSeq(copyAdds)
    BY DEF CodeTable, Copies, AddCopies, CopyAdds, CpyModes, NearModes, SameModes
  <1>2. first \in Seq(Entries) /\ Len(first) = 2
    BY EntryType DEF RUN, ADD
  <1>3. adds \in Seq(Entries) /\ Len(adds) = 17
    <2>1. \A s \in 1..17 : Single(ADD, s) \in Entries
      BY EntryType DEF ADD
    <2> QED
      BY <2>1
  <1>4. FlattenSeq(copies) \in Seq(Entries) /\ Len(FlattenSeq(copies)) = 144
    <2>1. copies \in Seq(Seq(Entries)) /\ Len(copies) = 9
      BY CopiesType
    <2>2. (\A i \in 1..6 : Len(copies[i]) = 16) /\ (\A i \in 7..9 : Len(copies[i]) = 16)
      BY CopiesType
    <2>4. PICK a \in Nat, b \in Nat : a = 16 /\ b = 16
      OBVIOUS
    <2> HIDE DEF copies
    <2>5. Widths(copies, a, b)
      BY <2>2, <2>4 DEF Widths
    <2>6. /\ FlattenSeq(copies) \in Seq(Entries)
          /\ Len(FlattenSeq(copies)) = a + a + a + a + a + a + b + b + b
      BY <2>1, <2>5, FlatNine
    <2> QED
      BY <2>4, <2>6
  <1>5. FlattenSeq(addCopies) \in Seq(Entries) /\ Len(FlattenSeq(addCopies)) = 84
    <2>1. addCopies \in Seq(Seq(Entries)) /\ Len(addCopies) = 9
      BY AddCopiesType
    <2>2. \A i \in 1..6 : Len(addCopies[i]) = 12
      BY AddCopiesType
    <2>3. \A i \in 7..9 : Len(addCopies[i]) = 4
      BY AddCopiesType
    <2>4. PICK a \in Nat, b \in Nat : a = 12 /\ b = 4
      OBVIOUS
    <2> HIDE DEF addCopies
    <2>5. Widths(addCopies, a, b)
      BY <2>2, <2>3, <2>4 DEF Widths
    <2>6. /\ FlattenSeq(addCopies) \in Seq(Entries)
          /\ Len(FlattenSeq(addCopies)) = a + a + a + a + a + a + b + b + b
      BY <2>1, <2>5, FlatNine
    <2> QED
      BY <2>4, <2>6
  <1>6. FlattenSeq(copyAdds) \in Seq(Entries) /\ Len(FlattenSeq(copyAdds)) = 9
    <2>1. copyAdds \in Seq(Seq(Entries)) /\ Len(copyAdds) = 9
      BY CopyAddsType
    <2>2. (\A i \in 1..6 : Len(copyAdds[i]) = 1) /\ (\A i \in 7..9 : Len(copyAdds[i]) = 1)
      BY CopyAddsType
    <2>4. PICK a \in Nat, b \in Nat : a = 1 /\ b = 1
      OBVIOUS
    <2> HIDE DEF copyAdds
    <2>5. Widths(copyAdds, a, b)
      BY <2>2, <2>4 DEF Widths
    <2>6. /\ FlattenSeq(copyAdds) \in Seq(Entries)
          /\ Len(FlattenSeq(copyAdds)) = a + a + a + a + a + a + b + b + b
      BY <2>1, <2>5, FlatNine
    <2> QED
      BY <2>4, <2>6
  <1> HIDE DEF first, adds, copies, addCopies, copyAdds
  <1> QED
    <2> DEFINE all == first \o adds \o FlattenSeq(copies) \o FlattenSeq(addCopies) \o FlattenSeq(copyAdds)
    <2>1. /\ all \in Seq(Entries)
          /\ Len(all) = Len(first) + Len(adds) + Len(FlattenSeq(copies)) + Len(FlattenSeq(addCopies))
                         + Len(FlattenSeq(copyAdds))
      <3>1. first \in Seq(Entries) /\ adds \in Seq(Entries)
        BY <1>2, <1>3
      <3>2. FlattenSeq(copies) \in Seq(Entries) /\ FlattenSeq(addCopies) \in Seq(Entries)
            /\ FlattenSeq(copyAdds) \in Seq(Entries)
        BY <1>4, <1>5, <1>6
      <3> QED
        BY <3>1, <3>2, PartsType
    <2>2. CodeTable = all
      BY <1>1
    <2> HIDE DEF all
    <2>3. Len(all) = 256
      BY <2>1, <1>2, <1>3, <1>4, <1>5, <1>6
    <2> QED
      BY <2>1, <2>2, <2>3, Zenon

-----------------------------------------------------------------------------
(* The decoder, whatever it is given to read.                                *)

IsSeq(t) == t \in Seq({t[k] : k \in DOMAIN t})

FieldNames == {Fields[k] : k \in 1..18}

FieldsType(f) ==
    /\ DOMAIN f = FieldNames
    /\ \A x \in Sizes : f[x] \in Nat
    /\ f["WININD"] \in Nat

DecFields == {"field", "state", "in", "part", "ret", "nover", "windows", "start", "f"}

DecType(d) ==
    /\ DOMAIN d = DecFields
    /\ d.field \in 1..18
    /\ d.state \in {"FIELD", "DATA", "INST", "ADDR", "EMIT", "EMITTING", "FINISH"}
    /\ d.in \in Seq(Byte) /\ d.part \in Seq(Byte)
    /\ FieldsType(d.f)

HalfType(h) == h \in [type : Nat, size : Nat, addr : Nat]

CacheType(c) ==
    /\ DOMAIN c = {"near", "slot", "same"}
    /\ c.near \in [0..3 -> Nat]
    /\ c.slot \in 0..3
    /\ \A k \in DOMAIN c.same : c.same[k] \in Nat

BodyFields == {"DATA", "INST", "ADDR", "d", "i", "a", "pos", "cur1", "cur2", "cache"}

BodyType(b) ==
    /\ DOMAIN b = BodyFields
    /\ b.DATA \in Seq(Byte) /\ b.INST \in Seq(Byte) /\ b.ADDR \in Seq(Byte)
    /\ b.d \in Nat \ {0} /\ b.i \in Nat \ {0} /\ b.a \in Nat \ {0}
    /\ b.pos \in Nat
    /\ HalfType(b.cur1) /\ HalfType(b.cur2) /\ CacheType(b.cache)

SrcFields == {"have", "file", "cur", "onblk", "want", "max", "onlast", "eof", "base", "len"}

SrcType(s) ==
    /\ s.have \in BOOLEAN
    /\ s.have => /\ DOMAIN s = SrcFields
                 /\ s.file \in Seq(Byte) /\ s.cur \in Nat /\ s.want \in Nat
                 /\ s.onblk = Len(Block(s.file, s.cur))

\* Which part of a window the decoder is in.
Behind(n) == (dec.state = "FIELD" /\ dec.field > n) \/ dec.state \in {"DATA", "INST", "ADDR", "EMIT", "EMITTING"}
BeforeInstructions == dec.state \in {"FIELD", "DATA", "INST", "ADDR", "EMIT"}

\* A copy is of what is there before the position it is put at.
CopyGood(h, here) ==
    h.type >= CPY => h.addr < here /\ (h.addr < CpyLen => (h.addr + h.size) % Word <= CpyLen)

HalfGood(h, here) == (h.type = NOOP => h = NoHalf) /\ CopyGood(h, here)

There == CpyLen + Len(tgt)

\* The sections are taken one after the other, each up to its size.
Unread(b) == b.DATA = <<>> /\ b.INST = <<>> /\ b.ADDR = <<>>

SectionsGood ==
    /\ dec.state = "FIELD" /\ dec.field > 11 => Unread(body)
    /\ dec.state = "DATA" => Len(body.DATA) <= dec.f["DATALEN"] /\ body.INST = <<>> /\ body.ADDR = <<>>
    /\ dec.state = "INST" => Len(body.INST) <= dec.f["INSTLEN"] /\ body.ADDR = <<>>
    /\ dec.state = "ADDR" => Len(body.ADDR) <= dec.f["ADDRLEN"]

InstructionsGood ==
    /\ body.pos <= There + body.cur1.size + body.cur2.size
    /\ HalfGood(body.cur1, There)
    /\ HalfGood(body.cur2, There + body.cur1.size)

DecoderInvariant ==
    /\ DecType(dec) /\ BodyType(body) /\ IsSeq(tgt) /\ SrcType(dsrc)
    /\ dec.ret = "OUTPUT" => dec.state = "FINISH"
    /\ BeforeInstructions \/ (dec.state = "FINISH" /\ dec.ret # "OUTPUT") => tgt = <<>>
    /\ Behind(9) => (CpyLen # 0 => dec.f["WININD"] % 4 \in {1, 2})
    /\ Behind(11) /\ dec.state # "EMITTING" => body.pos = CpyLen /\ body.cur1 = NoHalf /\ body.cur2 = NoHalf
    /\ SectionsGood
    /\ Behind(13) => dec.f["TGTLEN"] <= HardMaxWinSize
    /\ dec.state = "EMITTING" => InstructionsGood /\ (CpyLen # 0 => dsrc.have)

-----------------------------------------------------------------------------
(* The address cache, and the halves of an instruction.                      *)

-----------------------------------------------------------------------------
(* The operators of the decoder                                              *)

\* The modulus of usize_t is not zero.
LEMMA WordPositive == Word \in Nat \ {0}
  BY WordAssumption

\* Sums that wrap are not more than those that do not.
LEMMA Wrapped ==
    ASSUME NEW a \in Int
    PROVE  /\ a % Word \in Nat
           /\ a >= 0 => a % Word <= a
           /\ a >= 0 /\ a < Word => a % Word = a
  <1>1. \A w \in Nat \ {0} : a % w \in Nat /\ (a >= 0 => a % w <= a) /\ (a >= 0 /\ a < w => a % w = a)
    OBVIOUS
  <1> QED
    BY <1>1, WordPositive

\* The address cache of a window that begins.
LEMMA EmptyCacheType == CacheType(EmptyCache)
  BY DEF CacheType, EmptyCache, NearModes

\* The address cache takes any address.
LEMMA UpdateCacheType ==
    ASSUME NEW c, CacheType(c), NEW addr \in Nat
    PROVE  CacheType(UpdateCache(c, addr))
  <1> DEFINE n == UpdateCache(c, addr)
  <1>1. /\ DOMAIN n = {"near", "slot", "same"}
        /\ n.near = [c.near EXCEPT ![c.slot] = addr]
        /\ n.slot = (c.slot + 1) % NearModes
        /\ n.same = [k \in DOMAIN c.same \cup {SameSlot(addr)} |-> IF k = SameSlot(addr) THEN addr ELSE c.same[k]]
    BY DEF UpdateCache
  <1>2. n.near \in [0..3 -> Nat]
    BY <1>1 DEF CacheType
  <1>3. n.slot \in 0..3
    <2>1. \A k \in 0..3 : (k + 1) % 4 \in 0..3
      OBVIOUS
    <2> QED
      BY <1>1, <2>1 DEF CacheType, NearModes
  <1>4. \A k \in DOMAIN n.same : n.same[k] \in Nat
    <2>1. \A k \in DOMAIN c.same : c.same[k] \in Nat
      BY DEF CacheType
    <2> HIDE DEF n
    <2> QED
      BY <1>1, <2>1
  <1> HIDE DEF n
  <1> QED
    BY <1>1, <1>2, <1>3, <1>4 DEF CacheType, n

\* An address that is read is a number.
LEMMA DecodeAddressType ==
    ASSUME NEW c, CacheType(c), NEW here \in Nat, NEW mode \in Nat, NEW s \in Seq(Byte), NEW i \in Nat \ {0},
           DecodeAddress(c, here, mode, s, i).ok
    PROVE  /\ DecodeAddress(c, here, mode, s, i).addr \in Nat
           /\ DecodeAddress(c, here, mode, s, i).next \in Nat \ {0}
  <1> DEFINE a == DecodeAddress(c, here, mode, s, i)
             read == ReadSize(s, i)
  <1>1. read.val \in Nat /\ read.next \in Nat \ {0}
    BY ReadSizeType
  <1>2. CASE mode >= 6
    <2>1. a = IF i > Len(s) THEN [ok |-> FALSE]
              ELSE [ok |-> TRUE, next |-> i + 1, addr |-> Same(c, (mode - 2 - NearModes) * 256 + s[i])]
      BY <1>2 DEF DecodeAddress, NearModes
    <2>2. \A slot : Same(c, slot) \in Nat
      BY DEF Same, CacheType
    <2>3. a.ok
      OBVIOUS
    <2> HIDE DEF a
    <2>4. ~(i > Len(s))
      BY <2>1, <2>3
    <2>5. a.next = i + 1 /\ a.addr \in Nat
      BY <2>1, <2>2, <2>4
    <2> QED
      BY <2>5 DEF a
  <1>3. CASE mode < 6 /\ read.st # "ok"
    <2>1. a = [ok |-> FALSE]
      BY <1>3 DEF DecodeAddress, NearModes
    <2>2. a.ok
      OBVIOUS
    <2> HIDE DEF a
    <2> QED
      BY <2>1, <2>2
  <1>4. CASE mode = 0 /\ read.st = "ok"
    <2>1. a = [ok |-> TRUE, next |-> read.next, addr |-> read.val]
      BY <1>4 DEF DecodeAddress, NearModes
    <2> HIDE DEF a
    <2> QED
      BY <1>1, <2>1 DEF a
  <1>5. CASE mode = 1 /\ read.st = "ok"
    <2>1. a = [ok |-> TRUE, next |-> read.next, addr |-> (here - read.val) % Word]
      BY <1>5 DEF DecodeAddress, NearModes
    <2>2. (here - read.val) % Word \in Nat
      <3>1. here - read.val \in Int
        BY <1>1
      <3> QED
        BY <3>1, Wrapped
    <2> HIDE DEF a
    <2> QED
      BY <1>1, <2>1, <2>2 DEF a
  <1>6. CASE mode \in 2..5 /\ read.st = "ok"
    <2>1. a = [ok |-> TRUE, next |-> read.next, addr |-> (read.val + c.near[mode - 2]) % Word]
      BY <1>6 DEF DecodeAddress, NearModes
    <2>2. (read.val + c.near[mode - 2]) % Word \in Nat
      <3>1. c.near[mode - 2] \in Nat
        BY <1>6 DEF CacheType
      <3>2. read.val + c.near[mode - 2] \in Int
        BY <1>1, <3>1
      <3> QED
        BY <3>2, Wrapped
    <2> HIDE DEF a
    <2> QED
      BY <1>1, <2>1, <2>2 DEF a
  <1> QED
    BY <1>2, <1>3, <1>4, <1>5, <1>6

\* The end of the parsing of a half instruction.
HalfFrom(b, type, size, addr) ==
    IF (b.pos + size) % Word > MaxPos THEN [ok |-> FALSE]
    ELSE [ok |-> TRUE, b |-> [b EXCEPT !.pos = (@ + size) % Word],
          half |-> [type |-> type, size |-> size, addr |-> addr]]

HalfParsed(b, r) ==
    /\ BodyType(r.b) /\ HalfType(r.half)
    /\ r.b.pos <= b.pos + r.half.size
    /\ HalfGood(r.half, b.pos)

\* A half instruction that is within the window has the types it should have.
LEMMA HalfFromType ==
    ASSUME NEW b, BodyType(b), NEW type \in Nat \ {0}, NEW size \in Nat, NEW addr \in Nat,
           HalfFrom(b, type, size, addr).ok,
           CopyGood([type |-> type, size |-> size, addr |-> addr], b.pos)
    PROVE  HalfParsed(b, HalfFrom(b, type, size, addr))
  <1> DEFINE r == HalfFrom(b, type, size, addr)
             h == [type |-> type, size |-> size, addr |-> addr]
  <1>1. ~((b.pos + size) % Word > MaxPos)
    BY DEF HalfFrom
  <1>2. r.b = [b EXCEPT !.pos = (b.pos + size) % Word] /\ r.half = h
    BY <1>1 DEF HalfFrom
  <1>3. (b.pos + size) % Word \in Nat /\ (b.pos + size) % Word <= b.pos + size
    <2>1. b.pos + size \in Int /\ b.pos + size >= 0
      BY DEF BodyType
    <2> QED
      BY <2>1, Wrapped
  <1>4. BodyType(r.b) /\ r.b.pos = (b.pos + size) % Word
    BY <1>2, <1>3 DEF BodyType, BodyFields
  <1>5. HalfType(h) /\ h.type # NOOP /\ h.size = size
    BY DEF HalfType, NOOP
  <1> QED
    BY <1>2, <1>3, <1>4, <1>5 DEF HalfParsed, HalfGood

\* A copy that is not turned down is of what is there.
LEMMA CopyGoodFrom ==
    ASSUME NEW type, NEW size \in Nat, NEW a \in Nat, NEW pos \in Nat, ~AddressBad(a, size, pos),
           CpyLen \in Nat
    PROVE  CopyGood([type |-> type, size |-> size, addr |-> a], pos)
  <1>1. a < pos /\ ~(a < CpyLen /\ (a + size) % Word > CpyLen)
    BY DEF AddressBad
  <1> DEFINE h == [type |-> type, size |-> size, addr |-> a]
  <1>2. h.size = size /\ h.addr = a
    OBVIOUS
  <1> HIDE DEF h
  <1>0. (a + size) % Word \in Nat
    BY Wrapped
  <1>3. CASE ~(a < CpyLen)
    BY <1>1, <1>2, <1>3 DEF CopyGood, h
  <1>4. CASE ~((a + size) % Word > CpyLen)
    BY <1>0, <1>1, <1>2, <1>4 DEF CopyGood, h
  <1> QED
    BY <1>1, <1>3, <1>4

\* Either half of an instruction leaves the position not further than its end.
LEMMA ParseHalfType ==
    ASSUME NEW b, BodyType(b), NEW type \in Nat, NEW size0 \in Nat, ParseHalf(b, type, size0).ok,
           CpyLen \in Nat
    PROVE  HalfParsed(b, ParseHalf(b, type, size0))
  <1> DEFINE r == ParseHalf(b, type, size0)
             read == ReadSize(b.INST, b.i)
             size == IF size0 = 0 THEN read.val ELSE size0
             b1 == IF size0 = 0 THEN [b EXCEPT !.i = read.next] ELSE b
             addr == DecodeAddress(b.cache, b.pos, type - CPY, b.ADDR, b.a)
             b2 == [b1 EXCEPT !.a = addr.next, !.cache = UpdateCache(b1.cache, addr.addr)]
  <1>1. read.val \in Nat /\ read.next \in Nat \ {0}
    BY ReadSizeType DEF BodyType
  <1>2. size \in Nat
    BY <1>1
  <1>3. BodyType(b1) /\ b1.pos = b.pos /\ b1.cache = b.cache
    BY <1>1 DEF BodyType, BodyFields
  <1>4. r.ok
    BY Zenon
  <1>5. CASE type = NOOP
    <2>1. r = [ok |-> TRUE, b |-> b, half |-> NoHalf]
      BY <1>5 DEF ParseHalf, NOOP, ADD, RUN
    <2>2. r.b = b /\ r.half = NoHalf
      BY <2>1
    <2> HIDE DEF r
    <2>3. HalfType(NoHalf) /\ NoHalf.type = 0 /\ NoHalf.size = 0
      BY DEF NoHalf, HalfType, NOOP
    <2>4. b.pos \in Nat
      BY DEF BodyType
    <2>5. HalfGood(NoHalf, b.pos)
      BY <2>3 DEF HalfGood, CopyGood, CPY
    <2>6. b.pos <= b.pos + NoHalf.size
      BY <2>3, <2>4
    <2> HIDE DEF NoHalf
    <2> QED
      BY <2>2, <2>3, <2>5, <2>6 DEF HalfParsed, r
  <1>6. CASE type # NOOP /\ size0 = 0 /\ read.st # "ok"
    <2>1. r = [ok |-> FALSE]
      BY <1>6 DEF ParseHalf
    <2> HIDE DEF r
    <2> QED
      BY <1>4, <2>1
  <1>7. CASE type \in {ADD, RUN} /\ ~(size0 = 0 /\ read.st # "ok")
    <2>1. r = HalfFrom(b1, type, size, 0)
      BY <1>7 DEF ParseHalf, HalfFrom, ADD, RUN, NOOP
    <2>2. type \in Nat \ {0} /\ 0 \in Nat
      BY <1>7 DEF ADD, RUN
    <2>3. CopyGood([type |-> type, size |-> size, addr |-> 0], b1.pos)
      BY <1>7 DEF CopyGood, ADD, RUN, CPY
    <2> HIDE DEF r, size, b1
    <2>4. HalfParsed(b1, HalfFrom(b1, type, size, 0))
      BY <1>2, <1>3, <1>4, <2>1, <2>2, <2>3, HalfFromType
    <2> QED
      BY <1>3, <2>1, <2>4 DEF HalfParsed, r
  <1>8. CASE type \notin {NOOP, ADD, RUN} /\ ~(size0 = 0 /\ read.st # "ok")
    <2>1. r = IF ~addr.ok THEN [ok |-> FALSE]
              ELSE IF AddressBad(addr.addr, size, b.pos) THEN [ok |-> FALSE]
              ELSE HalfFrom(b2, type, size, addr.addr)
      BY <1>8 DEF ParseHalf, HalfFrom
    <2>2. type \in Nat \ {0} /\ type - CPY \in Nat /\ type >= CPY
      BY <1>8 DEF NOOP, ADD, RUN, CPY
    <2>3. b.cache = b.cache /\ CacheType(b.cache) /\ b.pos \in Nat /\ b.ADDR \in Seq(Byte) /\ b.a \in Nat \ {0}
      BY DEF BodyType
    <2> HIDE DEF r, size, b2
    <2>4. addr.ok /\ ~AddressBad(addr.addr, size, b.pos)
      BY <1>4, <2>1
    <2>5. addr.addr \in Nat /\ addr.next \in Nat \ {0}
      BY <2>2, <2>3, <2>4, DecodeAddressType
    <2> HIDE DEF addr, b1
    <2>6. r = HalfFrom(b2, type, size, addr.addr)
      BY <2>1, <2>4
    <2>7. CacheType(UpdateCache(b1.cache, addr.addr))
      BY <1>3, <2>3, <2>5, UpdateCacheType
    <2>8. BodyType(b2) /\ b2.pos = b.pos
      BY <1>3, <2>5, <2>7 DEF b2, BodyType, BodyFields
    <2>9. CopyGood([type |-> type, size |-> size, addr |-> addr.addr], b2.pos)
      BY <1>2, <2>3, <2>4, <2>5, <2>8, CopyGoodFrom
    <2>10. HalfParsed(b2, HalfFrom(b2, type, size, addr.addr))
      BY <1>2, <1>4, <2>2, <2>5, <2>6, <2>8, <2>9, HalfFromType
    <2> QED
      BY <2>6, <2>8, <2>10 DEF HalfParsed, r
  <1> QED
    BY <1>5, <1>6, <1>7, <1>8 DEF NOOP, ADD, RUN

\* A block of the source that has bytes is within the source, and not longer than a block.
LEMMA BlockLength ==
    ASSUME NEW file \in Seq(Byte), NEW n \in Nat
    PROVE  \E from \in Nat : /\ from = n * BlkSize
                             /\ Len(Block(file, n)) \in 0..BlkSize
                             /\ Len(Block(file, n)) > 0 => from + Len(Block(file, n)) <= Len(file)
  <1>1. PICK from \in Nat : from = n * BlkSize
    BY SourceAssumption
  <1>2. (n + 1) * BlkSize = from + BlkSize
    BY <1>1, SourceAssumption
  <1>3. BlkSize \in Nat \ {0}
    BY SourceAssumption
  <1> DEFINE to == SmallerOf(from + BlkSize, Len(file))
  <1>4. to \in Nat /\ to <= Len(file) /\ to <= from + BlkSize
    BY <1>1, <1>3 DEF SmallerOf
  <1>5. Block(file, n) = SubSeq(file, from + 1, to)
    BY <1>1, <1>2 DEF Block
  <1> HIDE DEF to
  <1>6. Len(SubSeq(file, from + 1, to)) = IF from + 1 <= to THEN to - from ELSE 0
    <2>1. from + 1 \in 1..(Len(file) + 1) \/ from + 1 > to
      BY <1>1, <1>4
    <2> QED
      BY <1>1, <1>4, <2>1
  <1> QED
    BY <1>1, <1>3, <1>4, <1>5, <1>6

\* What a copy of the source takes of a block is there in the file.
LEMMA TakenBytes ==
    ASSUME NEW file \in Seq(Byte), NEW start \in Nat, NEW size \in Nat,
           LET off == start % BlkSize  on == Len(Block(file, start \div BlkSize))
           IN  ~(on # BlkSize /\ off + size > on)
    PROVE  LET take == SmallerOf(size, BlkSize - (start % BlkSize))
           IN  /\ take \in 0..size
               /\ SubSeq(file, start + 1, start + take) \in Seq(Byte)
               /\ Len(SubSeq(file, start + 1, start + take)) = take
  <1>1. BlkSize \in Nat \ {0}
    BY SourceAssumption
  <1>2. PICK off \in Nat : off = start % BlkSize /\ off < BlkSize
    <2>1. \A w \in Nat \ {0} : start % w \in Nat /\ start % w < w
      OBVIOUS
    <2> QED
      BY <1>1, <2>1
  <1>3. PICK n \in Nat : n = start \div BlkSize
    <2>1. \A w \in Nat \ {0} : start \div w \in Nat
      OBVIOUS
    <2> QED
      BY <1>1, <2>1
  <1>4. PICK from \in Nat : /\ from = n * BlkSize
                            /\ Len(Block(file, n)) \in 0..BlkSize
                            /\ Len(Block(file, n)) > 0 => from + Len(Block(file, n)) <= Len(file)
    BY BlockLength
  <1>5. start = from + off
    <2>1. \A w \in Nat \ {0} : start = ((start \div w) * w) + (start % w)
      OBVIOUS
    <2>2. start = ((start \div BlkSize) * BlkSize) + (start % BlkSize)
      BY <1>1, <2>1
    <2> QED
      BY <1>2, <1>3, <1>4, <2>2
  <1> DEFINE take == SmallerOf(size, BlkSize - off)
             on == Len(Block(file, n))
  <1>6. take \in 0..size /\ take <= BlkSize - off
    BY <1>1, <1>2 DEF SmallerOf
  <1>7. ~(on # BlkSize /\ off + size > on)
    BY <1>2, <1>3
  <1> HIDE DEF take, on
  <1>8. take > 0 => on > 0 /\ off + take <= on
    <2>1. on \in 0..BlkSize
      BY <1>4 DEF on
    <2> QED
      BY <1>1, <1>2, <1>6, <1>7, <2>1
  <1>9. take > 0 => start + take <= Len(file)
    <2>1. take \in Nat /\ Len(file) \in Nat /\ on \in Nat
      BY <1>1, <1>4, <1>6 DEF on
    <2>2. on > 0 => from + on <= Len(file)
      BY <1>4 DEF on
    <2>3. \A a, b, c, d, e \in Nat : a + b <= c /\ d + c <= e => d + a + b <= e
      OBVIOUS
    <2>4. take > 0 => (from + off) + take <= Len(file)
      BY <1>2, <1>8, <2>1, <2>2, <2>3
    <2> QED
      BY <1>5, <2>4
  <1>10. SubSeq(file, start + 1, start + take) \in Seq(Byte) /\ Len(SubSeq(file, start + 1, start + take)) = take
    <2>1. CASE take = 0
      BY <2>1
    <2>2. CASE take > 0
      BY <1>6, <1>9, <2>2
    <2> QED
      BY <1>6, <2>1, <2>2
  <1> QED
    BY <1>2, <1>6, <1>10 DEF take

-----------------------------------------------------------------------------
(* The decoder begins.                                                       *)

\* A source that is opened, or none.
LEMMA NewSourceType ==
    ASSUME NEW file \in Seq(Byte), NEW there
    PROVE  SrcType(Opened(file, there))
  <1>1. SrcType(NewSource(file))
    BY DEF SrcType, SrcFields, NewSource
  <1>2. SrcType(NoSource)
    BY DEF SrcType, NoSource
  <1> QED
    BY <1>1, <1>2 DEF Opened

\* No instruction at all is one of no size.
LEMMA NoHalfType == HalfType(NoHalf) /\ NoHalf.type = NOOP /\ NoHalf.size = 0
  BY DEF NoHalf, HalfType, NOOP

\* A window begins with empty sections and no instruction under way.
LEMMA NoBodyType ==
    ASSUME NEW n \in Nat
    PROVE  /\ BodyType(NoBody) /\ BodyType([NoBody EXCEPT !.pos = n])
           /\ [NoBody EXCEPT !.pos = n].pos = n /\ Unread([NoBody EXCEPT !.pos = n])
           /\ [NoBody EXCEPT !.pos = n].cur1 = NoHalf /\ [NoBody EXCEPT !.pos = n].cur2 = NoHalf
  <1>1. HalfType(NoHalf) /\ CacheType(EmptyCache)
    BY NoHalfType, EmptyCacheType
  <1>2. <<>> \in Seq(Byte) /\ 1 \in Nat \ {0} /\ 0 \in Nat
    OBVIOUS
  <1> QED
    BY <1>1, <1>2 DEF NoBody, BodyType, BodyFields, Unread

\* The fields that matter here have their places, and no other field has their names.
LEMMA FieldsAre ==
    /\ DOMAIN Fields = 1..18
    /\ Fields[9] = "WININD" /\ Fields[10] = "CPYLEN" /\ Fields[11] = "CPYOFF" /\ Fields[13] = "TGTLEN"
    /\ Fields[18] = "CKSUM"
    /\ \A k \in 1..18 : /\ Fields[k] = "WININD" => k = 9
                        /\ Fields[k] = "CPYLEN" => k = 10
                        /\ Fields[k] = "CPYOFF" => k = 11
                        /\ Fields[k] = "TGTLEN" => k = 13
                        /\ Fields[k] = "CKSUM" => k = 18
    /\ Sizes \cup Single1 \subseteq FieldNames
  <1>1. DOMAIN Fields = 1..18
    BY DEF Fields
  <1>2. /\ Fields[1] = "VCHEAD" /\ Fields[2] = "HDRIND" /\ Fields[3] = "SECONDID" /\ Fields[4] = "TABLEN"
        /\ Fields[5] = "NEAR" /\ Fields[6] = "SAME" /\ Fields[7] = "APPLEN" /\ Fields[8] = "APPDAT"
        /\ Fields[9] = "WININD" /\ Fields[10] = "CPYLEN" /\ Fields[11] = "CPYOFF" /\ Fields[12] = "ENCLEN"
        /\ Fields[13] = "TGTLEN" /\ Fields[14] = "DELIND" /\ Fields[15] = "DATALEN" /\ Fields[16] = "INSTLEN"
        /\ Fields[17] = "ADDRLEN" /\ Fields[18] = "CKSUM"
    BY DEF Fields
  <1>3. \A k \in 1..18 : k \in {1, 2, 3, 4, 5, 6, 7, 8, 9, 10, 11, 12, 13, 14, 15, 16, 17, 18}
    OBVIOUS
  <1>4. ASSUME NEW k \in 1..18
        PROVE  /\ Fields[k] = "WININD" => k = 9
               /\ Fields[k] = "CPYLEN" => k = 10
               /\ Fields[k] = "CPYOFF" => k = 11
               /\ Fields[k] = "TGTLEN" => k = 13
               /\ Fields[k] = "CKSUM" => k = 18
    BY <1>2, <1>3
  <1>5. \A x \in Sizes \cup Single1 : \E k \in 1..18 : Fields[k] = x
    <2>1. ASSUME NEW x \in Sizes \cup Single1
          PROVE  \E k \in 1..18 : Fields[k] = x
      BY <1>2, <1>3, <2>1 DEF Sizes, Single1
    <2> QED
      BY <2>1
  <1> QED
    BY <1>1, <1>2, <1>4, <1>5 DEF FieldNames

\* The decoder begins with nothing decoded.
LEMMA DecodeInitType ==
    ASSUME NEW source, SrcType(source), NEW nover, DecodeInit(source, nover)
    PROVE  DecoderInvariant
  <1>1. dec = [field |-> 1, state |-> "FIELD", in |-> <<>>, part |-> <<>>, ret |-> "INPUT", nover |-> nover,
              windows |-> 0, start |-> 0, f |-> [x \in {Fields[i] : i \in 1..Len(Fields)} |->
                                                    IF x \in {"VCHEAD", "APPDAT", "CKSUM"} THEN <<>> ELSE 0]]
    BY DEF DecodeInit
  <1>2. Len(Fields) = 18
    BY FieldsAre, LenProperties DEF Fields
  <1>3. dec.f = [x \in FieldNames |-> IF x \in {"VCHEAD", "APPDAT", "CKSUM"} THEN <<>> ELSE 0]
    BY <1>1, <1>2 DEF FieldNames
  <1>4. FieldsType(dec.f)
    <2>1. \A x \in Sizes : x \in FieldNames /\ x \notin {"VCHEAD", "APPDAT", "CKSUM"}
      BY FieldsAre DEF Sizes
    <2>2. "WININD" \in FieldNames
      BY FieldsAre DEF Single1
    <2> QED
      BY <1>3, <2>1, <2>2 DEF FieldsType
  <1>5. DecType(dec) /\ dec.state = "FIELD" /\ dec.field = 1 /\ dec.ret = "INPUT"
    BY <1>1, <1>4 DEF DecType, DecFields
  <1>6. BodyType(body) /\ tgt = <<>> /\ SrcType(dsrc)
    BY NoBodyType DEF DecodeInit
  <1>7. IsSeq(tgt)
    BY <1>6 DEF IsSeq
  <1> QED
    BY <1>5, <1>6, <1>7 DEF DecoderInvariant, SectionsGood, Behind, BeforeInstructions

-----------------------------------------------------------------------------
(* The client's calls, and the windows.                                      *)

\* What a window must have kept of an earlier one stays as good.
LEMMA SameInstructions ==
    ASSUME InstructionsGood, body' = body, tgt' = tgt, dec'.f = dec.f
    PROVE  InstructionsGood'
  BY DEF InstructionsGood, There, HalfGood, CopyGood, CpyLen

\* A return to the client, or a call of the client's, changes nothing else.
LEMMA ReturnKeeps ==
    ASSUME DecoderInvariant, dec.ret # "OUTPUT", NEW ret, ret # "OUTPUT", dec' = [dec EXCEPT !.ret = ret],
           UNCHANGED <<body, tgt>>, SrcType(dsrc'), dsrc'.have = dsrc.have
    PROVE  DecoderInvariant'
  <1>1. DecType(dec)
    BY DEF DecoderInvariant
  <1>2. /\ dec'.state = dec.state /\ dec'.field = dec.field /\ dec'.in = dec.in /\ dec'.part = dec.part
        /\ dec'.f = dec.f /\ dec'.ret = ret /\ DOMAIN dec' = DecFields
    BY <1>1 DEF DecType, DecFields
  <1>3. DecType(dec')
    BY <1>1, <1>2 DEF DecType
  <1>4. InstructionsGood => InstructionsGood'
    BY <1>2, SameInstructions
  <1> QED
    BY <1>2, <1>3, <1>4 DEF DecoderInvariant, SectionsGood, Unread, Behind, BeforeInstructions, CpyLen

\* A patch that is turned down leaves everything as it is.
LEMMA RefusalKeeps ==
    ASSUME DecoderInvariant, dec.ret = "CALL", DecReturn("INVALID"), UNCHANGED <<body, tgt, dsrc>>
    PROVE  DecoderInvariant'
  <1>1. SrcType(dsrc)
    BY DEF DecoderInvariant
  <1> QED
    BY <1>1, ReturnKeeps DEF DecReturn

\* What does not touch the decoder keeps its invariant.
LEMMA UnchangedDecoder == ASSUME DecoderInvariant, UNCHANGED decVars PROVE DecoderInvariant'
  <1>1. dec' = dec /\ body' = body /\ tgt' = tgt /\ dsrc' = dsrc
    BY DEF decVars
  <1>2. InstructionsGood => InstructionsGood'
    BY <1>1, SameInstructions
  <1> QED
    BY <1>1, <1>2 DEF DecoderInvariant, SectionsGood, Unread, Behind, BeforeInstructions, CpyLen

\* The client calls again, after an answer it has nothing to do for.
LEMMA GoOnDecodingKeeps == ASSUME DecoderInvariant, GoOnDecoding PROVE DecoderInvariant'
  <1>1. SrcType(dsrc)
    BY DEF DecoderInvariant
  <1>2. dec.ret # "OUTPUT" /\ dec' = [dec EXCEPT !.ret = "CALL"] /\ UNCHANGED <<body, tgt, dsrc>>
    BY DEF GoOnDecoding, DecReturn
  <1> QED
    BY <1>1, <1>2, ReturnKeeps

\* The block that was asked for is the one that is there.
LEMMA SuppliedType ==
    ASSUME NEW s, SrcType(s), s.have
    PROVE  SrcType(Supplied(s)) /\ Supplied(s).have
  BY DEF SrcType, SrcFields, Supplied

\* The client loads a block.
LEMMA DecSupplyBlockKeeps == ASSUME DecoderInvariant, DecSupplyBlock PROVE DecoderInvariant'
  <1>1. SrcType(dsrc)
    BY DEF DecoderInvariant
  <1>2. /\ dec.ret # "OUTPUT" /\ dec' = [dec EXCEPT !.ret = "CALL"] /\ UNCHANGED <<body, tgt>>
        /\ dsrc' = IF dsrc.have THEN Supplied(dsrc) ELSE dsrc
    BY DEF DecSupplyBlock, DecReturn
  <1>3. SrcType(dsrc') /\ dsrc'.have = dsrc.have
    <2>1. CASE dsrc.have
      BY <1>1, <1>2, <2>1, SuppliedType DEF SrcType
    <2>2. CASE ~dsrc.have
      BY <1>1, <1>2, <2>2
    <2> QED
      BY <2>1, <2>2
  <1> QED
    BY <1>2, <1>3, ReturnKeeps

\* The client gives more of the patch.
LEMMA DecAvailInputKeeps == ASSUME DecoderInvariant, NEW bytes \in Seq(Byte), DecAvailInput(bytes) PROVE DecoderInvariant'
  <1>1. DecType(dec)
    BY DEF DecoderInvariant
  <1>2. /\ dec.ret = "INPUT" /\ dec' = [dec EXCEPT !.in = bytes, !.ret = "CALL"]
        /\ body' = body /\ tgt' = tgt /\ dsrc' = dsrc
    BY DEF DecAvailInput
  <1>3. /\ dec'.state = dec.state /\ dec'.field = dec.field /\ dec'.in = bytes /\ dec'.part = dec.part
        /\ dec'.f = dec.f /\ dec'.ret = "CALL" /\ DOMAIN dec' = DecFields
    BY <1>1, <1>2 DEF DecType, DecFields
  <1>4. DecType(dec')
    BY <1>1, <1>3 DEF DecType
  <1>5. InstructionsGood => InstructionsGood'
    BY <1>2, <1>3, SameInstructions
  <1> QED
    BY <1>2, <1>3, <1>4, <1>5 DEF DecoderInvariant, SectionsGood, Unread, Behind, BeforeInstructions, CpyLen

\* The client takes a window.
LEMMA DecConsumeOutputKeeps == ASSUME DecoderInvariant, DecConsumeOutput PROVE DecoderInvariant'
  <1>1. DecType(dec) /\ dec.state = "FINISH"
    BY DEF DecoderInvariant, DecConsumeOutput
  <1>2. /\ dec' = [dec EXCEPT !.ret = "CALL"] /\ tgt' = <<>> /\ body' = body /\ dsrc' = dsrc
    BY DEF DecConsumeOutput, DecReturn
  <1>3. /\ dec'.state = "FINISH" /\ dec'.field = dec.field /\ dec'.in = dec.in /\ dec'.part = dec.part
        /\ dec'.f = dec.f /\ dec'.ret = "CALL" /\ DOMAIN dec' = DecFields
    BY <1>1, <1>2 DEF DecType, DecFields
  <1>4. DecType(dec') /\ IsSeq(tgt')
    BY <1>1, <1>2, <1>3 DEF DecType, IsSeq
  <1> QED
    BY <1>2, <1>3, <1>4 DEF DecoderInvariant, SectionsGood, Unread, Behind, BeforeInstructions

\* The next window's fields are read from its indicator on.
LEMMA FinishWindowKeeps == ASSUME DecoderInvariant, FinishWindow PROVE DecoderInvariant'
  <1>1. DecType(dec) /\ tgt = <<>>
    BY DEF DecoderInvariant, FinishWindow, Decoding
  <1>2. /\ dec' = [dec EXCEPT !.state = "FIELD", !.field = 9, !.windows = @ + 1, !.ret = "WINFINISH"]
        /\ tgt' = tgt /\ body' = body /\ dsrc' = dsrc
    BY DEF FinishWindow
  <1>3. /\ dec'.state = "FIELD" /\ dec'.field = 9 /\ dec'.in = dec.in /\ dec'.part = dec.part
        /\ dec'.f = dec.f /\ dec'.ret = "WINFINISH" /\ DOMAIN dec' = DecFields
    BY <1>1, <1>2 DEF DecType, DecFields
  <1>4. DecType(dec')
    BY <1>1, <1>3 DEF DecType
  <1> QED
    BY <1>1, <1>2, <1>3, <1>4 DEF DecoderInvariant, SectionsGood, Unread, Behind, BeforeInstructions

\* A window is given out or turned down.
LEMMA EmitWindowKeeps == ASSUME DecoderInvariant, EmitWindow PROVE DecoderInvariant'
  <1>1. DecType(dec) /\ SrcType(dsrc) /\ dec.ret = "CALL"
    BY DEF DecoderInvariant, EmitWindow, Decoding
  <1>2. /\ dec' = IF WindowGood THEN [dec EXCEPT !.state = "FINISH", !.ret = "OUTPUT"]
                  ELSE [dec EXCEPT !.ret = "INVALID"]
        /\ tgt' = tgt /\ body' = body /\ dsrc' = dsrc
    BY DEF EmitWindow
  <1>3. CASE ~WindowGood
    BY <1>1, <1>2, <1>3, RefusalKeeps DEF DecReturn
  <1>4. CASE WindowGood
    <2>1. /\ dec'.state = "FINISH" /\ dec'.field = dec.field /\ dec'.in = dec.in /\ dec'.part = dec.part
          /\ dec'.f = dec.f /\ dec'.ret = "OUTPUT" /\ DOMAIN dec' = DecFields
      BY <1>1, <1>2, <1>4 DEF DecType, DecFields
    <2>2. DecType(dec')
      BY <1>1, <2>1 DEF DecType
    <2> QED
      BY <1>1, <1>2, <2>1, <2>2 DEF DecoderInvariant, SectionsGood, Unread, Behind, BeforeInstructions
  <1> QED
    BY <1>3, <1>4

-----------------------------------------------------------------------------
(* The fields of a window.                                                   *)

\* A byte goes to a field.
LEMMA TakeByteKeeps == ASSUME DecoderInvariant, TakeByte PROVE DecoderInvariant'
  <1>1. DecType(dec) /\ SrcType(dsrc) /\ dec.state = "FIELD" /\ dec.ret = "CALL"
    BY DEF DecoderInvariant, TakeByte, Decoding
  <1>2. tgt' = tgt /\ body' = body /\ dsrc' = dsrc
    BY DEF TakeByte
  <1>3. CASE dec.in = <<>>
    <2>1. dec' = [dec EXCEPT !.ret = "INPUT"]
      BY <1>3 DEF TakeByte
    <2> QED
      BY <1>1, <1>2, <2>1, ReturnKeeps
  <1>4. CASE dec.in # <<>>
    <2> DEFINE moved == IF Field = "WININD" THEN dec.start + dec.f["TGTLEN"] ELSE dec.start
    <2>1. dec' = [dec EXCEPT !.in = Tail(dec.in), !.part = Append(dec.part, Head(dec.in)), !.start = moved]
      BY <1>4 DEF TakeByte
    <2>2. Tail(dec.in) \in Seq(Byte) /\ Append(dec.part, Head(dec.in)) \in Seq(Byte)
      <3>1. dec.in \in Seq(Byte) /\ dec.part \in Seq(Byte)
        BY <1>1 DEF DecType
      <3> QED
        BY <1>4, <3>1
    <2>3. /\ dec'.state = dec.state /\ dec'.field = dec.field /\ dec'.in = Tail(dec.in)
          /\ dec'.part = Append(dec.part, Head(dec.in))
          /\ dec'.f = dec.f /\ dec'.ret = "CALL" /\ DOMAIN dec' = DecFields
      BY <1>1, <2>1 DEF DecType, DecFields
    <2>4. DecType(dec')
      BY <1>1, <2>2, <2>3 DEF DecType
    <2> QED
      BY <1>1, <1>2, <2>3, <2>4 DEF DecoderInvariant, SectionsGood, Unread, Behind, BeforeInstructions, CpyLen
  <1> QED
    BY <1>3, <1>4

\* What the field that is whole makes of the fields read so far.
FieldsWith(f, g) ==
    /\ FieldsType(g)
    /\ \A x \in {"WININD", "CPYLEN", "TGTLEN"} : Field # x /\ ~(x = "CPYLEN" /\ Field = "WININD") => g[x] = f[x]
    /\ Field = "WININD" => g["CPYLEN"] = 0
    /\ Field = "CPYLEN" => g["CPYLEN"] = f["CPYLEN"] \/ f["WININD"] % 4 \in {1, 2}

EndedFields ==
    LET read == ReadSize(dec.part, 1)
        f    == CASE ~Present(Field, dec.f)  -> dec.f
                  [] Field \in Single1 /\ Present(Field, dec.f) -> [dec.f EXCEPT ![Field] = dec.part[1]]
                  [] Field \in Sizes /\ Present(Field, dec.f)   -> [dec.f EXCEPT ![Field] = read.val]
                  [] OTHER                   -> [dec.f EXCEPT ![Field] = dec.part]
    IN  IF Field = "WININD" THEN NewWindow(f) ELSE f

Fits(x, v) == x \in Sizes \cup {"WININD"} => v \in Nat

\* A field gets a value of its kind.
LEMMA SetField ==
    ASSUME NEW f, FieldsType(f), NEW v, NEW x \in FieldNames, Fits(x, v)
    PROVE  /\ FieldsType([f EXCEPT ![x] = v])
           /\ [f EXCEPT ![x] = v][x] = v
           /\ \A y \in FieldNames : y # x => [f EXCEPT ![x] = v][y] = f[y]
  <1>1. Sizes \subseteq FieldNames /\ "WININD" \in FieldNames
    BY FieldsAre DEF Single1
  <1> QED
    BY <1>1 DEF FieldsType, Fits

\* A field that is whole has a value of its kind, and leaves the others alone.
LEMMA EndedFieldsType ==
    ASSUME DecType(dec), ~NeedsByte
    PROVE  FieldsWith(dec.f, EndedFields)
  <1> DEFINE read == ReadSize(dec.part, 1)
             f == CASE ~Present(Field, dec.f)  -> dec.f
                  [] Field \in Single1 /\ Present(Field, dec.f) -> [dec.f EXCEPT ![Field] = dec.part[1]]
                  [] Field \in Sizes /\ Present(Field, dec.f)   -> [dec.f EXCEPT ![Field] = read.val]
                  [] OTHER                   -> [dec.f EXCEPT ![Field] = dec.part]
             there == Present(Field, dec.f)
             fits(v) == Fits(Field, v)
             set(v) == [dec.f EXCEPT ![Field] = v]
  <1>1. dec.part \in Seq(Byte) /\ FieldsType(dec.f) /\ dec.field \in 1..18
    BY DEF DecType
  <1>2. Field \in FieldNames /\ {"WININD", "CPYLEN", "CPYOFF", "TGTLEN"} \subseteq FieldNames
    BY <1>1, FieldsAre DEF Field, FieldNames, Sizes, Single1
  <1>3. read.val \in Nat
    BY <1>1, ReadSizeType
  <1>4. there /\ Field \in Single1 => dec.part[1] \in Nat
    <2>1. there /\ Field \in Single1 => dec.part # <<>>
      BY DEF NeedsByte, Single1, Sizes
    <2>2. dec.part # <<>> => dec.part[1] \in Byte
      BY <1>1
    <2>3. Byte \subseteq Nat
      BY DEF Byte
    <2> QED
      BY <2>1, <2>2, <2>3
  <1>5. Field = "CPYLEN" => (there <=> dec.f["WININD"] % 4 \in {1, 2})
    BY DEF Present
  <1>6. f = dec.f \/ (there /\ \E v : fits(v) /\ f = set(v))
    <2>1. CASE ~there
      BY <2>1
    <2>2. CASE there /\ Field \in Single1
      <3>1. f = set(dec.part[1])
        BY <2>2 DEF Single1, Sizes
      <3>2. fits(dec.part[1])
        BY <1>4, <2>2 DEF Fits
      <3> HIDE DEF f, set, fits, there
      <3> QED
        BY <2>2, <3>1, <3>2
    <2>3. CASE there /\ Field \in Sizes
      <3>1. f = set(read.val)
        BY <2>3 DEF Single1, Sizes
      <3>2. fits(read.val)
        BY <1>3 DEF Fits
      <3> HIDE DEF f, set, fits, there, read
      <3> QED
        BY <2>3, <3>1, <3>2
    <2>4. CASE there /\ Field \notin Single1 /\ Field \notin Sizes
      <3>1. f = set(dec.part)
        BY <2>4
      <3>2. fits(dec.part)
        BY <2>4 DEF Single1, Fits
      <3> HIDE DEF f, set, fits, there, read
      <3> QED
        BY <2>4, <3>1, <3>2
    <2> QED
      BY <2>1, <2>2, <2>3, <2>4
  <1>7. EndedFields = IF Field = "WININD" THEN NewWindow(f) ELSE f
    BY DEF EndedFields
  <1> HIDE DEF f, there
  <1>8. /\ FieldsType(f)
        /\ \A y \in FieldNames : y # Field => f[y] = dec.f[y]
        /\ f[Field] = dec.f[Field] \/ there
    <2>1. CASE f = dec.f
      BY <1>1, <2>1
    <2>2. CASE there /\ \E v : fits(v) /\ f = set(v)
      <3>1. PICK v : fits(v) /\ f = set(v)
        BY <2>2
      <3>2. Fits(Field, v)
        BY <3>1
      <3>3. f = [dec.f EXCEPT ![Field] = v]
        BY <3>1
      <3> HIDE DEF set, fits
      <3>4. /\ FieldsType([dec.f EXCEPT ![Field] = v])
            /\ \A y \in FieldNames : y # Field => [dec.f EXCEPT ![Field] = v][y] = dec.f[y]
        BY <1>1, <1>2, <3>2, SetField
      <3>5. FieldsType(f)
        BY <3>3, <3>4
      <3>6. \A y \in FieldNames : y # Field => f[y] = dec.f[y]
        BY <3>3, <3>4
      <3>7. there
        BY <2>2
      <3> QED
        BY <3>5, <3>6, <3>7
    <2> QED
      BY <1>6, <2>1, <2>2
  <1>9. CASE Field # "WININD"
    BY <1>2, <1>5, <1>7, <1>8, <1>9 DEF FieldsWith
  <1>10. CASE Field = "WININD"
    <2>1. EndedFields = [[f EXCEPT !["CPYLEN"] = 0] EXCEPT !["CPYOFF"] = 0]
      BY <1>7, <1>10, <1>8, <1>2 DEF NewWindow, FieldsType
    <2> DEFINE g == [f EXCEPT !["CPYLEN"] = 0]
    <2>2. FieldsType(g) /\ g["CPYLEN"] = 0 /\ \A y \in FieldNames : y # "CPYLEN" => g[y] = f[y]
      BY <1>2, <1>8, SetField DEF Fits
    <2> HIDE DEF g
    <2>3. FieldsType([g EXCEPT !["CPYOFF"] = 0]) /\ \A y \in FieldNames : y # "CPYOFF" => [g EXCEPT !["CPYOFF"] = 0][y] = g[y]
      BY <1>2, <2>2, SetField DEF Fits
    <2>4. EndedFields = [g EXCEPT !["CPYOFF"] = 0]
      BY <2>1 DEF g
    <2> HIDE DEF EndedFields
    <2>5. FieldsType(EndedFields) /\ EndedFields["CPYLEN"] = 0 /\ EndedFields["TGTLEN"] = f["TGTLEN"]
      BY <1>2, <2>2, <2>3, <2>4
    <2> QED
      BY <1>2, <1>8, <1>10, <2>5 DEF FieldsWith
  <1> QED
    BY <1>9, <1>10

\* What is said of a window once the field that says it is behind.
Said(k, f, b) ==
    /\ k > 9 => (f["CPYLEN"] # 0 => f["WININD"] % 4 \in {1, 2})
    /\ k > 11 => b.pos = f["CPYLEN"] /\ b.cur1 = NoHalf /\ b.cur2 = NoHalf /\ Unread(b)
    /\ k > 13 => f["TGTLEN"] <= HardMaxWinSize

\* What is said of a window, field by field.
LEMMA FieldsSaid ==
    ASSUME DecType(dec), BodyType(body), Said(dec.field, dec.f, body), NEW f, FieldsWith(dec.f, f), NEW b,
           b = IF Field = "CPYOFF" THEN [NoBody EXCEPT !.pos = dec.f["CPYLEN"]] ELSE body
    PROVE  /\ BodyType(b)
           /\ Said(dec.field, dec.f, b)
           /\ Said(dec.field, f, b)
           /\ ~Refused(Field, f) => Said(dec.field + 1, f, b)
  <1> DEFINE k == dec.field
  <1>1. k \in 1..18 /\ dec.f["CPYLEN"] \in Nat
    BY DEF DecType, FieldsType, Sizes
  <1>2. /\ Field = "WININD" <=> k = 9
        /\ Field = "CPYLEN" <=> k = 10
        /\ Field = "CPYOFF" <=> k = 11
        /\ Field = "TGTLEN" <=> k = 13
    BY <1>1, FieldsAre DEF Field
  <1>3. /\ BodyType(b)
        /\ k = 11 => b.pos = dec.f["CPYLEN"] /\ b.cur1 = NoHalf /\ b.cur2 = NoHalf /\ Unread(b)
        /\ k # 11 => b = body
    BY <1>1, <1>2, NoBodyType
  <1>4. /\ k \notin {9, 10} => f["CPYLEN"] = dec.f["CPYLEN"]
        /\ k # 9 => f["WININD"] = dec.f["WININD"]
        /\ k # 13 => f["TGTLEN"] = dec.f["TGTLEN"]
        /\ k = 9 => f["CPYLEN"] = 0
        /\ k = 10 => f["CPYLEN"] = dec.f["CPYLEN"] \/ dec.f["WININD"] % 4 \in {1, 2}
    BY <1>2 DEF FieldsWith
  <1>5. k = 13 /\ ~Refused(Field, f) => ~(f["TGTLEN"] > HardMaxWinSize)
    BY <1>2 DEF Refused
  <1>6. f["TGTLEN"] \in Nat /\ HardMaxWinSize \in Nat
    BY DecodeAssumption DEF FieldsWith, FieldsType, Sizes
  <1> DEFINE none == dec.f["WININD"] % 4 \in {1, 2}
             none2 == f["WININD"] % 4 \in {1, 2}
  <1>7. k # 9 => (none <=> none2)
    BY <1>4
  <1>8. /\ k > 9 => (dec.f["CPYLEN"] # 0 => none)
        /\ k > 11 => body.pos = dec.f["CPYLEN"] /\ body.cur1 = NoHalf /\ body.cur2 = NoHalf /\ Unread(body)
        /\ k > 13 => dec.f["TGTLEN"] <= HardMaxWinSize
    BY DEF Said
  <1>9. k = 10 => f["CPYLEN"] = dec.f["CPYLEN"] \/ none
    BY <1>4
  <1> HIDE DEF none, none2, k
  <1>10. Said(k, dec.f, b)
    BY <1>1, <1>3, <1>8 DEF Said, none
  <1>11. Said(k, f, b)
    <2>1. k > 9 => (f["CPYLEN"] # 0 => none2)
      BY <1>1, <1>4, <1>7, <1>8, <1>9
    <2>2. ASSUME k > 11
          PROVE  b.pos = f["CPYLEN"] /\ b.cur1 = NoHalf /\ b.cur2 = NoHalf /\ Unread(b)
      <3>1. k # 11 /\ k \notin {9, 10}
        BY <1>1, <2>2
      <3>2. b = body /\ f["CPYLEN"] = dec.f["CPYLEN"]
        BY <1>3, <1>4, <3>1
      <3>3. body.pos = dec.f["CPYLEN"] /\ body.cur1 = NoHalf /\ body.cur2 = NoHalf /\ Unread(body)
        BY <1>8, <2>2
      <3> QED
        BY <3>2, <3>3
    <2>3. k > 13 => f["TGTLEN"] <= HardMaxWinSize
      BY <1>1, <1>4, <1>8
    <2> QED
      BY <2>1, <2>2, <2>3 DEF Said, none2
  <1>12. ASSUME ~Refused(Field, f)
         PROVE  Said(k + 1, f, b)
    <2>1. k + 1 > 9 => (f["CPYLEN"] # 0 => none2)
      BY <1>1, <1>4, <1>7, <1>8, <1>9
    <2>2. ASSUME k + 1 > 11
          PROVE  b.pos = f["CPYLEN"] /\ b.cur1 = NoHalf /\ b.cur2 = NoHalf /\ Unread(b)
      <3>1. k \notin {9, 10} /\ (k = 11 \/ k > 11)
        BY <1>1, <2>2
      <3>2. f["CPYLEN"] = dec.f["CPYLEN"]
        BY <1>4, <3>1
      <3>3. CASE k = 11
        BY <1>3, <3>2, <3>3
      <3>4. CASE k > 11
        <4>1. b = body
          BY <1>1, <1>3, <3>4
        <4>2. body.pos = dec.f["CPYLEN"] /\ body.cur1 = NoHalf /\ body.cur2 = NoHalf /\ Unread(body)
          BY <1>8, <3>4
        <4> QED
          BY <3>2, <4>1, <4>2
      <3> QED
        BY <3>1, <3>3, <3>4
    <2>3. k + 1 > 13 => f["TGTLEN"] <= HardMaxWinSize
      BY <1>1, <1>4, <1>5, <1>6, <1>8, <1>12
    <2> QED
      BY <2>1, <2>2, <2>3 DEF Said, none2
  <1> QED
    BY <1>3, <1>10, <1>11, <1>12 DEF k

\* Where the decoder is among the fields is what it has said.
LEMMA SaidIsInvariant ==
    ASSUME dec.state = "FIELD"
    PROVE  DecoderInvariant <=> /\ DecType(dec) /\ BodyType(body) /\ IsSeq(tgt) /\ SrcType(dsrc)
                                /\ dec.ret # "OUTPUT" /\ tgt = <<>>
                                /\ Said(dec.field, dec.f, body)
  BY DEF DecoderInvariant, SectionsGood, Behind, BeforeInstructions, Said, CpyLen

\* A field ends.
LEMMA EndFieldKeeps == ASSUME DecoderInvariant, EndField PROVE DecoderInvariant'
  <1> DEFINE f == EndedFields
             b == IF Field = "CPYOFF" THEN [NoBody EXCEPT !.pos = dec.f["CPYLEN"]] ELSE body
  <1>1. /\ dec.state = "FIELD" /\ dec.ret = "CALL" /\ ~NeedsByte /\ tgt' = tgt /\ dsrc' = dsrc /\ body' = b
    BY DEF EndField, Decoding
  <1>2. /\ DecType(dec) /\ BodyType(body) /\ IsSeq(tgt) /\ SrcType(dsrc) /\ tgt = <<>>
        /\ Said(dec.field, dec.f, body)
    BY <1>1, SaidIsInvariant
  <1>3. FieldsWith(dec.f, f)
    BY <1>1, <1>2, EndedFieldsType
  <1>4. \/ dec' = [dec EXCEPT !.ret = "INVALID"]
        \/ dec' = FieldRead(dec, f)
    BY DEF EndField, EndedFields
  <1> HIDE DEF f
  <1>5. /\ BodyType(b)
        /\ Said(dec.field, dec.f, b)
        /\ Said(dec.field, f, b)
        /\ ~Refused(Field, f) => Said(dec.field + 1, f, b)
    BY <1>2, <1>3, FieldsSaid
  <1>6. FieldsType(f) /\ <<>> \in Seq(Byte) /\ dec.field \in 1..18 /\ (Field = "CKSUM" <=> dec.field = 18)
    <2>1. FieldsType(f) /\ <<>> \in Seq(Byte)
      BY <1>3 DEF FieldsWith
    <2>2. dec.field \in 1..18
      BY <1>2 DEF DecType
    <2>3. Field = "CKSUM" <=> dec.field = 18
      BY <2>2, FieldsAre DEF Field
    <2> QED
      BY <2>1, <2>2, <2>3
  <1> HIDE DEF b
  <1>7. CASE dec' = [dec EXCEPT !.ret = "INVALID"]
    <2>1. /\ dec'.state = "FIELD" /\ dec'.field = dec.field /\ dec'.in = dec.in /\ dec'.part = dec.part
          /\ dec'.f = dec.f /\ dec'.ret = "INVALID" /\ DOMAIN dec' = DecFields
      BY <1>1, <1>2, <1>7 DEF DecType, DecFields
    <2>2. DecType(dec')
      BY <1>2, <2>1 DEF DecType
    <2> QED
      BY <1>1, <1>2, <1>5, <2>1, <2>2 DEF DecoderInvariant, SectionsGood, Behind, BeforeInstructions, Said, CpyLen
  <1>8. CASE dec' = FieldRead(dec, f) /\ Refused(Field, f)
    <2>0. dec' = [dec EXCEPT !.f = f, !.part = <<>>, !.ret = "INVALID"]
      BY <1>8 DEF FieldRead
    <2>1. /\ dec'.state = "FIELD" /\ dec'.field = dec.field /\ dec'.in = dec.in /\ dec'.part = <<>>
          /\ dec'.f = f /\ dec'.ret = "INVALID" /\ DOMAIN dec' = DecFields
      BY <1>1, <1>2, <2>0 DEF DecType, DecFields
    <2>2. DecType(dec')
      BY <1>2, <1>6, <2>1 DEF DecType
    <2> QED
      BY <1>1, <1>2, <1>5, <2>1, <2>2 DEF DecoderInvariant, SectionsGood, Behind, BeforeInstructions, Said, CpyLen
  <1>9. CASE dec' = FieldRead(dec, f) /\ ~Refused(Field, f) /\ Field = "CKSUM"
    <2> DEFINE ret == IF dec.windows = 0 THEN "GOTHEADER" ELSE "WINSTART"
    <2>0. dec' = [dec EXCEPT !.f = f, !.part = <<>>, !.state = "DATA", !.ret = ret]
      BY <1>9 DEF FieldRead
    <2>3. ret # "OUTPUT"
      OBVIOUS
    <2> HIDE DEF ret
    <2>1. /\ dec'.state = "DATA" /\ dec'.field = dec.field /\ dec'.in = dec.in /\ dec'.part = <<>>
          /\ dec'.f = f /\ dec'.ret = ret /\ DOMAIN dec' = DecFields
      BY <1>1, <1>2, <2>0 DEF DecType, DecFields
    <2>2. DecType(dec')
      BY <1>2, <1>6, <2>1 DEF DecType
    <2>4. /\ f["CPYLEN"] # 0 => f["WININD"] % 4 \in {1, 2}
          /\ b.pos = f["CPYLEN"] /\ b.cur1 = NoHalf /\ b.cur2 = NoHalf /\ Unread(b)
          /\ f["TGTLEN"] <= HardMaxWinSize
      BY <1>5, <1>6, <1>9 DEF Said
    <2>5. Len(b.DATA) <= f["DATALEN"] /\ b.INST = <<>> /\ b.ADDR = <<>>
      <3>1. f["DATALEN"] \in Nat /\ Len(<<>>) = 0
        BY <1>6 DEF FieldsType, Sizes
      <3> QED
        BY <2>4, <3>1 DEF Unread
    <2> QED
      BY <1>1, <1>2, <1>5, <2>1, <2>2, <2>3, <2>4, <2>5 DEF DecoderInvariant, SectionsGood, Behind, BeforeInstructions, CpyLen
  <1>10. CASE dec' = FieldRead(dec, f) /\ ~Refused(Field, f) /\ Field # "CKSUM"
    <2>0. dec' = [dec EXCEPT !.f = f, !.part = <<>>, !.field = dec.field + 1]
      BY <1>10 DEF FieldRead
    <2>1. /\ dec'.state = "FIELD" /\ dec'.field = dec.field + 1 /\ dec'.in = dec.in /\ dec'.part = <<>>
          /\ dec'.f = f /\ dec'.ret = "CALL" /\ DOMAIN dec' = DecFields
      BY <1>1, <1>2, <2>0 DEF DecType, DecFields
    <2>3. dec.field + 1 \in 1..18
      BY <1>6, <1>10
    <2>2. DecType(dec')
      BY <1>2, <1>6, <2>1, <2>3 DEF DecType
    <2>4. Said(dec.field + 1, f, b)
      BY <1>5, <1>10
    <2> QED
      BY <1>1, <1>2, <1>5, <2>1, <2>2, <2>4 DEF DecoderInvariant, SectionsGood, Behind, BeforeInstructions, Said, CpyLen
  <1> QED
    BY <1>4, <1>7, <1>8, <1>9, <1>10

-----------------------------------------------------------------------------
(* The sections.                                                             *)

\* A section takes what there is of it and no more.
LEMMA TakeSectionKeeps ==
    ASSUME DecoderInvariant, NEW sec \in {"DATA", "INST", "ADDR"}, TakeSection(sec)
    PROVE  DecoderInvariant'
  <1> DEFINE size == dec.f[SectionSize[sec]]
             need == size - Len(body[sec])
             take == SmallerOf(need, Len(dec.in))
             s == body[sec] \o SubSeq(dec.in, 1, take)
  <1>1. /\ dec.state = sec /\ dec.ret = "CALL" /\ tgt' = tgt /\ dsrc' = dsrc
        /\ body' = [body EXCEPT ![sec] = s]
        /\ dec' = IF need = take
                  THEN [dec EXCEPT !.in = SubSeq(dec.in, take + 1, Len(dec.in)), !.state = AfterSection[sec]]
                  ELSE [dec EXCEPT !.in = <<>>, !.ret = "INPUT"]
    BY DEF TakeSection, Decoding
  <1>2. /\ DecType(dec) /\ BodyType(body) /\ IsSeq(tgt) /\ SrcType(dsrc) /\ tgt = <<>> /\ SectionsGood
        /\ CpyLen # 0 => dec.f["WININD"] % 4 \in {1, 2}
        /\ body.pos = CpyLen /\ body.cur1 = NoHalf /\ body.cur2 = NoHalf
        /\ dec.f["TGTLEN"] <= HardMaxWinSize
    BY <1>1 DEF DecoderInvariant, Behind, BeforeInstructions
  <1>3. size \in Nat /\ Len(body[sec]) \in 0..size /\ body[sec] \in Seq(Byte) /\ dec.in \in Seq(Byte)
    <2>1. FieldsType(dec.f) /\ dec.in \in Seq(Byte)
      BY <1>2 DEF DecType
    <2>2. body[sec] \in Seq(Byte) /\ size \in Nat
      <3>1. SectionSize[sec] \in Sizes
        BY DEF Sizes, SectionSize
      <3>2. size \in Nat
        BY <2>1, <3>1 DEF FieldsType
      <3>3. body[sec] \in Seq(Byte)
        BY <1>2 DEF BodyType
      <3> QED
        BY <3>2, <3>3
    <2>3. Len(body[sec]) <= size
      BY <1>1, <1>2 DEF SectionsGood, SectionSize
    <2> QED
      BY <2>1, <2>2, <2>3
  <1> HIDE DEF size
  <1>4. need \in Nat /\ take \in 0..Len(dec.in) /\ take <= need
    <2>1. \A m, n \in Nat : SmallerOf(m, n) \in 0..n /\ SmallerOf(m, n) <= m
      BY DEF SmallerOf
    <2>2. need \in Nat
      BY <1>3
    <2>3. Len(dec.in) \in Nat
      BY <1>3
    <2> HIDE DEF need
    <2> QED
      BY <2>1, <2>2, <2>3
  <1>5. s \in Seq(Byte) /\ Len(s) <= size
    <2> DEFINE t == SubSeq(dec.in, 1, take)
    <2>1. t \in Seq(Byte) /\ Len(t) = take
      BY <1>3, <1>4
    <2> HIDE DEF t, take
    <2>2. s \in Seq(Byte) /\ Len(s) = Len(body[sec]) + take
      BY <1>3, <2>1 DEF t
    <2> HIDE DEF s
    <2> QED
      BY <1>3, <1>4, <2>2
  <1>6. SubSeq(dec.in, take + 1, Len(dec.in)) \in Seq(Byte) /\ <<>> \in Seq(Byte) /\ Len(<<>>) = 0
    BY <1>3, <1>4
  <1> DEFINE rest == SubSeq(dec.in, take + 1, Len(dec.in))
  <1> HIDE DEF s, take, need, rest
  <1>7. /\ BodyType(body') /\ body'[sec] = s
        /\ \A x \in BodyFields : x # sec => body'[x] = body[x]
    <2>1. body' = [body EXCEPT ![sec] = s]
      BY <1>1
    <2>2. BodyType(body) /\ s \in Seq(Byte)
      BY <1>2, <1>5
    <2>3. /\ BodyType([body EXCEPT ![sec] = s])
          /\ [body EXCEPT ![sec] = s][sec] = s
          /\ \A x \in BodyFields : x # sec => [body EXCEPT ![sec] = s][x] = body[x]
      BY <2>2 DEF BodyType, BodyFields
    <2> QED
      BY <2>1, <2>3, Zenon
  <1>8. /\ body'.pos = body.pos /\ body'.cur1 = NoHalf /\ body'.cur2 = NoHalf
        /\ sec # "DATA" => body'.DATA = body.DATA
        /\ sec # "INST" => body'.INST = body.INST
        /\ sec # "ADDR" => body'.ADDR = body.ADDR
    BY <1>2, <1>7 DEF BodyFields
  <1>9. /\ sec = "DATA" => size = dec.f["DATALEN"] /\ AfterSection[sec] = "INST" /\ body.INST = <<>> /\ body.ADDR = <<>>
        /\ sec = "INST" => size = dec.f["INSTLEN"] /\ AfterSection[sec] = "ADDR" /\ body.ADDR = <<>>
        /\ sec = "ADDR" => size = dec.f["ADDRLEN"] /\ AfterSection[sec] = "EMIT"
        /\ 0 <= dec.f["INSTLEN"] /\ 0 <= dec.f["ADDRLEN"]
    <2>1. 0 <= dec.f["INSTLEN"] /\ 0 <= dec.f["ADDRLEN"]
      BY <1>2 DEF DecType, FieldsType, Sizes
    <2> QED
      BY <1>1, <1>2, <2>1 DEF SectionsGood, size, SectionSize, AfterSection
  <1>10. CASE need = take
    <2>1. dec' = [dec EXCEPT !.in = rest, !.state = AfterSection[sec]]
      BY <1>1, <1>10 DEF rest
    <2>2. /\ dec'.state = AfterSection[sec] /\ dec'.field = dec.field /\ dec'.in = rest /\ dec'.part = dec.part
          /\ dec'.f = dec.f /\ dec'.ret = "CALL" /\ DOMAIN dec' = DecFields
      BY <1>1, <1>2, <2>1 DEF DecType, DecFields
    <2>3. rest \in Seq(Byte) /\ AfterSection[sec] \in {"INST", "ADDR", "EMIT"}
      BY <1>6, <1>9 DEF rest
    <2>4. DecType(dec')
      BY <1>2, <2>2, <2>3 DEF DecType
    <2>5. SectionsGood'
      BY <1>6, <1>8, <1>9, <2>2 DEF SectionsGood
    <2> QED
      BY <1>1, <1>2, <1>7, <1>8, <2>2, <2>3, <2>4, <2>5 DEF DecoderInvariant, Behind, BeforeInstructions, CpyLen
  <1>11. CASE need # take
    <2>1. dec' = [dec EXCEPT !.in = <<>>, !.ret = "INPUT"]
      BY <1>1, <1>11
    <2>2. /\ dec'.state = sec /\ dec'.field = dec.field /\ dec'.in = <<>> /\ dec'.part = dec.part
          /\ dec'.f = dec.f /\ dec'.ret = "INPUT" /\ DOMAIN dec' = DecFields
      BY <1>1, <1>2, <2>1 DEF DecType, DecFields
    <2>4. DecType(dec')
      BY <1>2, <1>6, <2>2 DEF DecType
    <2>5. SectionsGood'
      BY <1>5, <1>7, <1>8, <1>9, <2>2 DEF SectionsGood
    <2> QED
      BY <1>1, <1>2, <1>7, <1>8, <2>2, <2>4, <2>5 DEF DecoderInvariant, Behind, BeforeInstructions, CpyLen
  <1> QED
    BY <1>10, <1>11

\* A section that was decompressed is bytes.
LEMMA DecompressedType ==
    ASSUME NEW sec \in {"DATA", "INST", "ADDR"}, BodyType(body), Decompressed(sec).ok
    PROVE  Decompressed(sec).out \in Seq(Byte)
  <1> DEFINE read == ReadSize(body[sec], 1)
             out == Expand(dec.f["SECONDID"], SubSeq(body[sec], read.next, Len(body[sec])), read.val)
  <1>1. body[sec] \in Seq(Byte)
    BY DEF BodyType
  <1>2. read.val \in Nat
    BY <1>1, ReadSizeType
  <1>3. Decompressed(sec) =
          IF ~Bit(dec.f["DELIND"], Compressed[sec]) THEN [ok |-> TRUE, out |-> body[sec]]
          ELSE IF read.st # "ok" \/ read.val = 0 THEN [ok |-> FALSE, out |-> <<>>]
          ELSE [ok |-> out \in [1..read.val -> Byte], out |-> out]
    BY DEF Decompressed
  <1> HIDE DEF read, out
  <1>4. CASE ~Bit(dec.f["DELIND"], Compressed[sec])
    <2>1. Decompressed(sec) = [ok |-> TRUE, out |-> body[sec]]
      BY <1>3, <1>4, Zenon
    <2> QED
      BY <1>1, <2>1
  <1>5. CASE Bit(dec.f["DELIND"], Compressed[sec])
    <2> DEFINE none == read.st # "ok" \/ read.val = 0
               made == out \in [1..read.val -> Byte]
    <2>2. Decompressed(sec) = IF none THEN [ok |-> FALSE, out |-> <<>>] ELSE [ok |-> made, out |-> out]
      BY <1>3, <1>5, Zenon
    <2>3. Decompressed(sec).ok
      BY Zenon
    <2> HIDE DEF none, made
    <2>4. ~none
      <3>1. ASSUME none PROVE FALSE
        <4>1. Decompressed(sec) = [ok |-> FALSE, out |-> <<>>]
          BY <2>2, <3>1, Zenon
        <4> QED
          BY <2>3, <4>1
      <3> QED
        BY <3>1
    <2>5. Decompressed(sec) = [ok |-> made, out |-> out]
      BY <2>2, <2>4, Zenon
    <2>7. Decompressed(sec).ok = made /\ Decompressed(sec).out = out
      BY <2>5
    <2>6. made /\ Decompressed(sec).out = out
      BY <2>3, <2>7, Zenon
    <2>1. out \in [1..read.val -> Byte] /\ Decompressed(sec).out = out
      BY <2>6 DEF made
    <2> QED
      BY <1>2, <2>1
  <1> QED
    BY <1>4, <1>5

\* A window that copies has a window of the source, and a source.
LEMMA CopyWindowBits ==
    ASSUME NEW w \in Nat, w % 4 # 0
    PROVE  Bit(w, 1) \/ Bit(w, 2)
  BY DEF Bit

\* The sections are whole, and the instructions begin at the end of the source's window.
LEMMA SectionsWholeKeeps == ASSUME DecoderInvariant, SectionsWhole PROVE DecoderInvariant'
  <1> DEFINE all == [sec \in {"DATA", "INST", "ADDR"} |-> Decompressed(sec)]
             bad == (\E sec \in DOMAIN all : ~all[sec].ok) \/ Bit(dec.f["WININD"], 2)
                    \/ (Bit(dec.f["WININD"], 1) /\ ~dsrc.have)
  <1>1. /\ dec.state = "EMIT" /\ dec.ret = "CALL" /\ tgt' = tgt /\ dsrc' = dsrc
        /\ IF bad THEN DecReturn("INVALID") /\ UNCHANGED body
           ELSE /\ body' = [body EXCEPT !.DATA = all["DATA"].out, !.INST = all["INST"].out,
                                        !.ADDR = all["ADDR"].out]
                /\ dec' = [dec EXCEPT !.state = "EMITTING"]
    BY DEF SectionsWhole, Decoding
  <1>2. /\ DecType(dec) /\ BodyType(body) /\ IsSeq(tgt) /\ SrcType(dsrc) /\ tgt = <<>>
        /\ CpyLen # 0 => dec.f["WININD"] % 4 \in {1, 2}
        /\ body.pos = CpyLen /\ body.cur1 = NoHalf /\ body.cur2 = NoHalf
        /\ dec.f["TGTLEN"] <= HardMaxWinSize
    BY <1>1 DEF DecoderInvariant, Behind, BeforeInstructions
  <1>3. CASE bad
    BY <1>1, <1>3, RefusalKeeps
  <1>4. CASE ~bad
    <2>1. \A sec \in {"DATA", "INST", "ADDR"} : all[sec].ok /\ all[sec].out \in Seq(Byte)
      BY <1>2, <1>4, DecompressedType
    <2> DEFINE D == all["DATA"].out
               I == all["INST"].out
               A == all["ADDR"].out
    <2>2. D \in Seq(Byte) /\ I \in Seq(Byte) /\ A \in Seq(Byte)
      BY <2>1
    <2>3. /\ body' = [body EXCEPT !.DATA = D, !.INST = I, !.ADDR = A]
          /\ dec' = [dec EXCEPT !.state = "EMITTING"]
      BY <1>1, <1>4
    <2> HIDE DEF D, I, A, all
    <2>4. /\ BodyType(body') /\ body'.pos = CpyLen /\ body'.cur1 = NoHalf /\ body'.cur2 = NoHalf
      BY <1>2, <2>2, <2>3 DEF BodyType, BodyFields
    <2>5. /\ dec'.state = "EMITTING" /\ dec'.field = dec.field /\ dec'.in = dec.in /\ dec'.part = dec.part
          /\ dec'.f = dec.f /\ dec'.ret = "CALL" /\ DOMAIN dec' = DecFields
      BY <1>1, <1>2, <2>3 DEF DecType, DecFields
    <2>6. DecType(dec')
      BY <1>2, <2>5 DEF DecType
    <2>7. CpyLen # 0 => dsrc.have
      <3>1. dec.f["WININD"] \in Nat
        BY <1>2 DEF DecType, FieldsType
      <3>2. Bit(dec.f["WININD"], 1) => dsrc.have
        BY <1>4, Zenon
      <3>3. ~Bit(dec.f["WININD"], 2)
        BY <1>4, Zenon
      <3> QED
        BY <1>2, <3>1, <3>2, <3>3, CopyWindowBits
    <2>8. InstructionsGood'
      <3>1. CpyLen \in Nat /\ CpyLen' = CpyLen /\ Len(tgt') = 0
        BY <1>1, <1>2, <2>5 DEF CpyLen, DecType, FieldsType, Sizes
      <3>2. There' \in Nat /\ There' = CpyLen
        BY <3>1 DEF There
      <3>3. ~(NOOP >= CPY)
        BY DEF NOOP, CPY
      <3> QED
        BY <2>4, <3>1, <3>2, <3>3, NoHalfType DEF InstructionsGood, HalfGood, CopyGood
    <2> QED
      BY <1>1, <1>2, <2>4, <2>5, <2>6, <2>7, <2>8
      DEF DecoderInvariant, SectionsGood, Behind, BeforeInstructions, CpyLen
  <1> QED
    BY <1>3, <1>4

-----------------------------------------------------------------------------
(* The instructions.                                                         *)

\* What is there stays there.
LEMMA HalfGoodLater ==
    ASSUME NEW h, HalfType(h), NEW m \in Nat, NEW n \in Nat, m <= n, HalfGood(h, m)
    PROVE  HalfGood(h, n)
  <1>1. h.addr \in Nat
    BY DEF HalfType
  <1>2. h.addr < m => h.addr < n
    BY <1>1
  <1> QED
    BY <1>2 DEF HalfGood, CopyGood

\* The position the next byte goes to.
LEMMA ThereType == ASSUME DecType(dec), IsSeq(tgt) PROVE CpyLen \in Nat /\ Len(tgt) \in Nat /\ There \in Nat
  <1>1. CpyLen \in Nat
    BY DEF DecType, FieldsType, Sizes, CpyLen
  <1>2. Len(tgt) \in Nat
    BY DEF IsSeq
  <1> QED
    BY <1>1, <1>2 DEF There

\* Both halves of an instruction are of what is there before each of them.
LEMMA DecodeInstructionKeeps == ASSUME DecoderInvariant, DecodeInstruction PROVE DecoderInvariant'
  <1> DEFINE code == CodeTable[body.INST[body.i] + 1]
             next == [body EXCEPT !.i = body.i + 1]
             one == ParseHalf(next, code.type1, code.size1)
             two == ParseHalf(one.b, code.type2, code.size2)
  <1>1. /\ dec.state = "EMITTING" /\ dec.ret = "CALL" /\ Idle /\ body.i <= Len(body.INST)
        /\ tgt' = tgt /\ dsrc' = dsrc
        /\ IF ~one.ok THEN DecReturn("INVALID") /\ UNCHANGED body
           ELSE IF ~two.ok THEN DecReturn("INVALID") /\ UNCHANGED body
           ELSE body' = [two.b EXCEPT !.cur1 = one.half, !.cur2 = two.half] /\ UNCHANGED dec
    BY DEF DecodeInstruction, Decoding
  <1>2. /\ DecType(dec) /\ BodyType(body) /\ IsSeq(tgt) /\ SrcType(dsrc)
        /\ CpyLen # 0 => dec.f["WININD"] % 4 \in {1, 2}
        /\ InstructionsGood /\ (CpyLen # 0 => dsrc.have)
        /\ dec.f["TGTLEN"] <= HardMaxWinSize
    BY <1>1 DEF DecoderInvariant, Behind
  <1>3. CASE ~one.ok
    BY <1>1, <1>3, RefusalKeeps
  <1>4. CASE one.ok /\ ~two.ok
    BY <1>1, <1>4, RefusalKeeps
  <1>5. CASE one.ok /\ two.ok
    <2>1. code.type1 \in Nat /\ code.size1 \in Nat /\ code.type2 \in Nat /\ code.size2 \in Nat
      <3>1. body.INST[body.i] \in Byte
        <4>1. body.INST \in Seq(Byte) /\ body.i \in Nat \ {0} /\ body.i <= Len(body.INST)
          BY <1>1, <1>2 DEF BodyType
        <4>2. body.i \in 1..Len(body.INST)
          BY <4>1
        <4> QED
          BY <4>1, <4>2, ElementOfSeq
      <3>2. body.INST[body.i] + 1 \in 1..256
        BY <3>1 DEF Byte
      <3>3. code \in Entries
        <4> DEFINE k == body.INST[body.i] + 1
        <4>1. k \in 1..Len(CodeTable) /\ CodeTable \in Seq(Entries)
          BY <3>2, CodeTableType
        <4> HIDE DEF k
        <4>2. CodeTable[k] \in Entries
          BY <4>1, ElementOfSeq
        <4> QED
          BY <4>2 DEF k
      <3> HIDE DEF code
      <3> QED
        BY <3>3 DEF Entries
    <2>2. BodyType(next) /\ next.pos = body.pos
      BY <1>2 DEF BodyType, BodyFields
    <2>3. CpyLen \in Nat /\ There \in Nat /\ Len(tgt) \in Nat
      BY <1>2, ThereType
    <2>0. body' = [two.b EXCEPT !.cur1 = one.half, !.cur2 = two.half] /\ dec' = dec
      BY <1>1, <1>5
    <2> HIDE DEF next, code
    <2>4. HalfParsed(next, one)
      BY <1>5, <2>1, <2>2, <2>3, ParseHalfType
    <2> HIDE DEF one
    <2>5. BodyType(one.b)
      BY <2>4 DEF HalfParsed
    <2>6. HalfParsed(one.b, two)
      BY <1>5, <2>1, <2>3, <2>5, ParseHalfType
    <2> HIDE DEF two
    <2>7. /\ body.pos \in Nat /\ one.b.pos \in Nat /\ two.b.pos \in Nat
          /\ one.half.size \in Nat /\ two.half.size \in Nat
          /\ HalfType(one.half) /\ HalfType(two.half) /\ BodyType(two.b)
      BY <1>2, <2>4, <2>5, <2>6 DEF HalfParsed, BodyType, HalfType
    <2>8. body.pos <= There
      <3>1. body.cur1 = NoHalf /\ body.cur2 = NoHalf
        BY <1>1, <1>2 DEF Idle, InstructionsGood, HalfGood
      <3>2. body.pos <= There + body.cur1.size + body.cur2.size
        BY <1>2 DEF InstructionsGood
      <3>3. body.pos <= There + 0 + 0
        BY <3>1, <3>2, NoHalfType
      <3> QED
        BY <2>3, <2>7, <3>3
    <2>9. one.b.pos <= body.pos + one.half.size /\ HalfGood(one.half, body.pos)
      BY <2>2, <2>4 DEF HalfParsed
    <2>10. two.b.pos <= one.b.pos + two.half.size /\ HalfGood(two.half, one.b.pos)
      BY <2>6 DEF HalfParsed
    <2>11. one.b.pos <= There + one.half.size /\ two.b.pos <= There + one.half.size + two.half.size
      <3>2. one.b.pos <= body.pos + one.half.size
        BY <2>9
      <3>3. two.b.pos <= one.b.pos + two.half.size
        BY <2>10
      <3>4. /\ body.pos \in Nat /\ one.b.pos \in Nat /\ two.b.pos \in Nat
            /\ one.half.size \in Nat /\ two.half.size \in Nat
        BY <2>7
      <3>5. one.b.pos <= There + one.half.size
        <4>1. \A p, q, t, u \in Nat : p <= t /\ q <= p + u => q <= t + u
          OBVIOUS
        <4> QED
          BY <2>3, <2>8, <3>2, <3>4, <4>1
      <3>6. two.b.pos <= There + one.half.size + two.half.size
        <4>1. \A q, r, t, u, v \in Nat : q <= t + u /\ r <= q + v => r <= t + u + v
          OBVIOUS
        <4> QED
          BY <2>3, <3>3, <3>4, <3>5, <4>1
      <3> QED
        BY <3>5, <3>6
    <2>12. HalfGood(one.half, There)
      BY <2>3, <2>7, <2>8, <2>9, HalfGoodLater
    <2>13. There + one.half.size \in Nat
      BY <2>3, <2>7
    <2>14. HalfGood(two.half, There + one.half.size)
      BY <2>7, <2>10, <2>11, <2>13, HalfGoodLater
    <2>15. /\ BodyType(body') /\ body'.cur1 = one.half /\ body'.cur2 = two.half /\ body'.pos = two.b.pos
      BY <2>0, <2>7 DEF BodyType, BodyFields
    <2>16. dec'.f = dec.f /\ tgt' = tgt
      BY <1>1, <2>0
    <2>17. InstructionsGood'
      BY <2>11, <2>12, <2>14, <2>15, <2>16 DEF InstructionsGood, HalfGood, CopyGood, There, CpyLen
    <2> QED
      BY <1>1, <1>2, <2>0, <2>15, <2>17
      DEF DecoderInvariant, SectionsGood, Behind, BeforeInstructions, CpyLen
  <1> QED
    BY <1>3, <1>4, <1>5

\* Sequences, whatever their elements are.
LEMMA SeqIsSeq == ASSUME NEW T, NEW c \in Seq(T) PROVE IsSeq(c)
  <1>1. c \in [1..Len(c) -> {c[k] : k \in DOMAIN c}] /\ Len(c) \in Nat
    BY LenProperties
  <1> QED
    BY <1>1 DEF IsSeq

\* A function from 1 to n is one.
LEMMA FunctionIsSeq ==
    ASSUME NEW n \in Nat, NEW f, f = [k \in 1..n |-> f[k]]
    PROVE  IsSeq(f) /\ Len(f) = n
  <1>1. f \in [1..n -> {f[k] : k \in DOMAIN f}]
    OBVIOUS
  <1>2. f \in Seq({f[k] : k \in DOMAIN f}) /\ DOMAIN f = 1..n
    BY <1>1
  <1> QED
    BY <1>2, LenProperties DEF IsSeq

\* ... and so are two of them, one behind the other.
LEMMA PutBehind ==
    ASSUME NEW a, IsSeq(a), NEW b, IsSeq(b)
    PROVE  IsSeq(a \o b) /\ Len(a \o b) = Len(a) + Len(b)
  <1> DEFINE S == {a[k] : k \in DOMAIN a} \cup {b[k] : k \in DOMAIN b}
  <1>1. a \in Seq(S) /\ b \in Seq(S)
    <2>1. a \in [1..Len(a) -> S] /\ b \in [1..Len(b) -> S] /\ Len(a) \in Nat /\ Len(b) \in Nat
      BY LenProperties DEF IsSeq
    <2> QED
      BY <2>1
  <1> HIDE DEF S
  <1>2. a \o b \in Seq(S) /\ Len(a \o b) = Len(a) + Len(b)
    BY <1>1, ConcatProperties
  <1> QED
    BY <1>2, SeqIsSeq

-----------------------------------------------------------------------------
(* What they put out.                                                        *)

\* The half instruction under way is the first one, or the second one when the first is done.
LEMMA TurnType ==
    ASSUME BodyType(body), InstructionsGood, ~Idle
    PROVE  /\ HalfType(Half) /\ Half.type # NOOP
           /\ Turn = "cur1" => Half = body.cur1 /\ HalfGood(Half, There)
           /\ Turn # "cur1" => Half = body.cur2 /\ body.cur1 = NoHalf /\ HalfGood(Half, There + 0)
  <1>1. CASE body.cur1.type # NOOP
    <2>1. Turn = "cur1" /\ Half = body.cur1
      BY <1>1 DEF Turn, Half
    <2> QED
      BY <1>1, <2>1 DEF BodyType, InstructionsGood
  <1>2. CASE body.cur1.type = NOOP
    <2>1. Turn = "cur2" /\ Half = body.cur2
      BY <1>2 DEF Turn, Half
    <2>2. body.cur1 = NoHalf
      BY <1>2 DEF InstructionsGood, HalfGood
    <2>3. HalfGood(body.cur2, There + 0)
      BY <2>2, NoHalfType DEF InstructionsGood
    <2> QED
      BY <1>2, <2>1, <2>2, <2>3 DEF BodyType, Idle
  <1> QED
    BY <1>1, <1>2

\* What is put out of a half instruction leaves the rest of it, and the other
\* half, as good as they were.
LEMMA HalfPutOut ==
    ASSUME DecType(dec), BodyType(body), IsSeq(tgt), InstructionsGood, ~Idle, dec' = dec,
           NEW take \in 0..Half.size, NEW h, HalfType(h), h.size = Half.size - take, HalfGood(h, There + take),
           Len(tgt') = Len(tgt) + take,
           NEW b, BodyType(b), b.cur1 = body.cur1, b.cur2 = body.cur2, b.pos = body.pos, body' = Turned(b, h)
    PROVE  BodyType(body') /\ InstructionsGood'
  <1>1. CpyLen \in Nat /\ Len(tgt) \in Nat /\ There \in Nat /\ There = CpyLen + Len(tgt)
    BY ThereType DEF There
  <1>2. /\ HalfType(Half) /\ Half.type # NOOP
        /\ Turn = "cur1" => Half = body.cur1
        /\ Turn # "cur1" => Half = body.cur2 /\ body.cur1 = NoHalf
    BY TurnType
  <1>3. Half.size \in Nat /\ take \in Nat /\ take <= Half.size /\ body.pos \in Nat /\ h.size \in Nat
    BY <1>2 DEF HalfType, BodyType
  <1>4. There' = There + take
    BY <1>1, <1>3 DEF There, CpyLen
  <1>5. HalfType(body.cur1) /\ HalfType(body.cur2) /\ body.cur1.size \in Nat /\ body.cur2.size \in Nat
    BY DEF BodyType, HalfType
  <1>6. /\ body.pos <= There + body.cur1.size + body.cur2.size
        /\ HalfGood(body.cur2, There + body.cur1.size)
    BY DEF InstructionsGood
  <1>7. CASE Turn = "cur1"
    <2>1. body' = [b EXCEPT !.cur1 = h]
      BY <1>7 DEF Turned
    <2>2. BodyType(body') /\ body'.cur1 = h /\ body'.cur2 = body.cur2 /\ body'.pos = body.pos
      BY <2>1 DEF BodyType, BodyFields
    <2>3. There + take + h.size = There + body.cur1.size
      <3>1. \A t, k, s, z \in Nat : z = s - k => t + k + z = t + s
        OBVIOUS
      <3>2. There + take + h.size = There + Half.size
        BY <1>1, <1>3, <3>1
      <3> QED
        BY <1>2, <1>7, <3>2
    <2>4. There' + body'.cur1.size = There + body.cur1.size
      BY <1>4, <2>2, <2>3
    <2>5. body'.pos <= There' + body'.cur1.size + body'.cur2.size
      BY <1>6, <2>2, <2>4
    <2>6. HalfGood(body'.cur1, There')
      BY <1>4, <2>2
    <2>7. HalfGood(body'.cur2, There' + body'.cur1.size)
      BY <1>6, <2>2, <2>4
    <2> QED
      BY <2>2, <2>5, <2>6, <2>7 DEF InstructionsGood, HalfGood, CopyGood, CpyLen
  <1>8. CASE Turn # "cur1"
    <2>1. body' = [b EXCEPT !.cur2 = h]
      BY <1>8 DEF Turned
    <2>2. BodyType(body') /\ body'.cur2 = h /\ body'.cur1 = NoHalf /\ body'.pos = body.pos
      BY <1>2, <1>8, <2>1 DEF BodyType, BodyFields
    <2>3. body'.cur1.size = 0 /\ There' + 0 = There + take
      BY <1>1, <1>3, <1>4, <2>2, NoHalfType
    <2>4. body.pos <= There + 0 + Half.size
      BY <1>2, <1>6, <1>8, NoHalfType
    <2>5. There' + 0 + h.size = There + 0 + Half.size
      BY <1>1, <1>3, <2>3
    <2>6. body'.pos <= There' + body'.cur1.size + body'.cur2.size
      BY <2>2, <2>3, <2>4, <2>5
    <2>7. HalfGood(NoHalf, There')
      BY NoHalfType DEF HalfGood, CopyGood, NOOP, CPY
    <2>8. HalfGood(body'.cur2, There' + body'.cur1.size)
      BY <2>2, <2>3
    <2> QED
      BY <2>2, <2>6, <2>7, <2>8 DEF InstructionsGood, HalfGood, CopyGood, CpyLen
  <1> QED
    BY <1>7, <1>8

\* ... and with it all of the invariant.
LEMMA PutOutKeeps ==
    ASSUME DecoderInvariant, dec.state = "EMITTING", dec.ret = "CALL", dec' = dec,
           BodyType(body'), InstructionsGood', IsSeq(tgt'), SrcType(dsrc'), dsrc'.have = dsrc.have
    PROVE  DecoderInvariant'
  BY DEF DecoderInvariant, SectionsGood, Behind, BeforeInstructions, CpyLen

\* A half instruction that is all put out leaves nothing to be wrong.
LEMMA NoHalfLeft ==
    ASSUME NEW n \in Nat, NEW size \in Nat
    PROVE  HalfType(NoHalf) /\ NoHalf.size = size - size /\ HalfGood(NoHalf, n)
  BY NoHalfType DEF HalfGood, CopyGood, NOOP, CPY

\* ADD and RUN.
LEMMA OutputDataKeeps == ASSUME DecoderInvariant, OutputData PROVE DecoderInvariant'
  <1> DEFINE used == IF Half.type = RUN THEN 1 ELSE Half.size
             added == SubSeq(body.DATA, body.d, body.d + used - 1)
             run == [k \in 1..Half.size |-> body.DATA[body.d]]
             bad == NoRoom(Half.size) \/ body.d + used - 1 > Len(body.DATA)
             put == IF Half.type = ADD THEN added ELSE run
  <1>1. /\ dec.state = "EMITTING" /\ dec.ret = "CALL" /\ ~Idle /\ Half.type \in {ADD, RUN} /\ dsrc' = dsrc
        /\ IF bad THEN DecReturn("INVALID") /\ UNCHANGED <<body, tgt>>
           ELSE /\ tgt' = tgt \o put
                /\ body' = Turned([body EXCEPT !.d = body.d + used], NoHalf)
                /\ UNCHANGED dec
    BY DEF OutputData, Decoding
  <1>2. /\ DecType(dec) /\ BodyType(body) /\ IsSeq(tgt) /\ SrcType(dsrc) /\ InstructionsGood
    BY <1>1 DEF DecoderInvariant
  <1>3. CASE bad
    BY <1>1, <1>3, RefusalKeeps
  <1>4. CASE ~bad
    <2>0. /\ tgt' = tgt \o put /\ dec' = dec
          /\ body' = Turned([body EXCEPT !.d = body.d + used], NoHalf)
      BY <1>1, <1>4
    <2>1. Half.size \in Nat /\ body.d \in Nat \ {0} /\ body.DATA \in Seq(Byte)
      BY <1>1, <1>2, TurnType DEF HalfType, BodyType
    <2>2. used \in Nat /\ body.d + used \in Nat \ {0} /\ ~(body.d + used - 1 > Len(body.DATA))
      BY <1>4, <2>1
    <2>3. Half.type = ADD => used = Half.size
      BY DEF ADD, RUN
    <2> HIDE DEF used
    <2>4. IsSeq(put) /\ Len(put) = Half.size
      <3>1. CASE Half.type = ADD
        <4>1. SubSeq(body.DATA, body.d, body.d + used - 1) \in Seq(Byte)
          BY <2>1, <2>2
        <4>2. Len(SubSeq(body.DATA, body.d, body.d + used - 1)) = used
          BY <2>1, <2>2
        <4> QED
          BY <2>3, <3>1, <4>1, <4>2, SeqIsSeq
      <3>2. CASE Half.type # ADD
        <4> DEFINE size == Half.size
        <4>1. run = [k \in 1..size |-> run[k]]
          OBVIOUS
        <4> HIDE DEF run
        <4>2. IsSeq(run) /\ Len(run) = size
          BY <2>1, <4>1, FunctionIsSeq
        <4> QED
          BY <3>2, <4>2
      <3> QED
        BY <3>1, <3>2
    <2> HIDE DEF put, bad
    <2>5. IsSeq(tgt') /\ Len(tgt') = Len(tgt) + Half.size
      BY <1>2, <2>0, <2>4, PutBehind
    <2>6. There + Half.size \in Nat /\ Half.size \in 0..Half.size
      BY <1>2, <2>1, ThereType
    <2>7. HalfType(NoHalf) /\ NoHalf.size = Half.size - Half.size /\ HalfGood(NoHalf, There + Half.size)
      BY <2>1, <2>6, NoHalfLeft
    <2> DEFINE b == [body EXCEPT !.d = body.d + used]
    <2>9. BodyType(b) /\ b.cur1 = body.cur1 /\ b.cur2 = body.cur2 /\ b.pos = body.pos
      BY <1>2, <2>2 DEF BodyType, BodyFields
    <2>10. body' = Turned(b, NoHalf)
      BY <2>0
    <2> HIDE DEF b
    <2>8. BodyType(body') /\ InstructionsGood'
      BY <1>1, <1>2, <2>0, <2>5, <2>6, <2>7, <2>9, <2>10, HalfPutOut
    <2> QED
      BY <1>1, <1>2, <2>0, <2>5, <2>8, PutOutKeeps
  <1> QED
    BY <1>3, <1>4

\* A copy of the target is as long as it is said to be, whatever it copies.
LEMMA OverlappedIsSeq ==
    ASSUME NEW out, IsSeq(out), NEW from, NEW n \in Nat
    PROVE  IsSeq(Overlapped(out, from, n)) /\ Len(Overlapped(out, from, n)) = Len(out) + n
  <1> DEFINE copied[k \in Nat] == IF from + k < Len(out) THEN out[from + k + 1] ELSE copied[from + k - Len(out)]
             put == [k \in 1..n |-> copied[k - 1]]
  <1>1. Overlapped(out, from, n) = out \o put
    BY DEF Overlapped
  <1> HIDE DEF copied
  <1>2. put = [k \in 1..n |-> put[k]]
    OBVIOUS
  <1> HIDE DEF put
  <1>3. IsSeq(put) /\ Len(put) = n
    BY <1>2, FunctionIsSeq
  <1> QED
    BY <1>1, <1>3, PutBehind

\* A copy of the target.
LEMMA OutputTargetCopyKeeps == ASSUME DecoderInvariant, OutputTargetCopy PROVE DecoderInvariant'
  <1> DEFINE copy == Overlapped(tgt, Half.addr - CpyLen, Half.size)
  <1>1. /\ dec.state = "EMITTING" /\ dec.ret = "CALL" /\ ~Idle /\ dsrc' = dsrc
        /\ IF NoRoom(Half.size) THEN DecReturn("INVALID") /\ UNCHANGED <<body, tgt>>
           ELSE tgt' = copy /\ body' = Turned(body, NoHalf) /\ UNCHANGED dec
    BY DEF OutputTargetCopy, Decoding
  <1>2. /\ DecType(dec) /\ BodyType(body) /\ IsSeq(tgt) /\ SrcType(dsrc) /\ InstructionsGood
    BY <1>1 DEF DecoderInvariant
  <1>3. CASE NoRoom(Half.size)
    BY <1>1, <1>3, RefusalKeeps
  <1>4. CASE ~NoRoom(Half.size)
    <2>0. tgt' = copy /\ dec' = dec /\ body' = Turned(body, NoHalf)
      BY <1>1, <1>4
    <2>1. Half.size \in Nat /\ body.d \in Nat \ {0}
      BY <1>1, <1>2, TurnType DEF HalfType, BodyType
    <2>5. IsSeq(tgt') /\ Len(tgt') = Len(tgt) + Half.size
      BY <1>2, <2>0, <2>1, OverlappedIsSeq
    <2>6. There + Half.size \in Nat /\ Half.size \in 0..Half.size
      BY <1>2, <2>1, ThereType
    <2>7. HalfType(NoHalf) /\ NoHalf.size = Half.size - Half.size /\ HalfGood(NoHalf, There + Half.size)
      BY <2>1, <2>6, NoHalfLeft
    <2> HIDE DEF copy
    <2>8. BodyType(body') /\ InstructionsGood'
      BY <1>1, <1>2, <2>0, <2>5, <2>6, <2>7, HalfPutOut
    <2> QED
      BY <1>1, <1>2, <2>0, <2>5, <2>8, PutOutKeeps
  <1> QED
    BY <1>3, <1>4

\* The source after a look at one of its blocks.
LEMMA GotType ==
    ASSUME NEW s, SrcType(s), s.have, NEW n
    PROVE  /\ SrcType(Got(s, n)) /\ Got(s, n).have
           /\ Got(s, n).file = s.file /\ Got(s, n).onblk = s.onblk
  BY DEF SrcType, SrcFields, Got

\* The source after one of its blocks was asked for.
LEMMA WantType ==
    ASSUME NEW s, SrcType(s), s.have, NEW n \in Nat
    PROVE  SrcType(Want(s, n)) /\ Want(s, n).have
  BY DEF SrcType, SrcFields, Want

RestOf(h, take) ==
    IF take = h.size THEN NoHalf ELSE [h EXCEPT !.size = h.size - take, !.addr = h.addr + take]

\* What is left of a copy is of what is there, too.
LEMMA RestOfCopy ==
    ASSUME NEW h, HalfType(h), NEW here \in Nat, NEW take \in 0..h.size, h.type >= CPY, h.addr < CpyLen,
           CpyLen \in Nat, HalfGood(h, here)
    PROVE  HalfType(RestOf(h, take)) /\ RestOf(h, take).size = h.size - take /\ HalfGood(RestOf(h, take), here + take)
  <1> DEFINE g == RestOf(h, take)
  <1>1. h.type \in Nat /\ h.size \in Nat /\ h.addr \in Nat /\ take \in Nat /\ take <= h.size
    BY DEF HalfType
  <1>2. CASE take = h.size
    <2>1. g = NoHalf /\ here + take \in Nat
      BY <1>1, <1>2 DEF RestOf
    <2> QED
      BY <1>1, <1>2, <2>1, NoHalfLeft
  <1>3. CASE take # h.size
    <2>1. g = [h EXCEPT !.size = h.size - take, !.addr = h.addr + take]
      BY <1>3 DEF RestOf
    <2> HIDE DEF g
    <2>2. g.type = h.type /\ g.size = h.size - take /\ g.addr = h.addr + take
      BY <2>1 DEF HalfType
    <2>3. HalfType(g)
      <3>1. h.size - take \in Nat /\ h.addr + take \in Nat
        BY <1>1
      <3> QED
        BY <2>1, <3>1 DEF HalfType
    <2>4. h.addr < here /\ (h.addr + h.size) % Word <= CpyLen
      BY DEF HalfGood, CopyGood
    <2>5. g.addr + g.size = h.addr + h.size
      BY <1>1, <2>2
    <2>6. (g.addr + g.size) % Word <= CpyLen
      BY <2>4, <2>5
    <2>7. g.addr < here + take
      BY <1>1, <2>2, <2>4
    <2>8. g.type # NOOP
      BY <2>2 DEF NOOP, CPY
    <2>9. HalfGood(g, here + take)
      BY <2>6, <2>7, <2>8 DEF HalfGood, CopyGood
    <2> QED
      BY <2>2, <2>3, <2>9 DEF g
  <1> QED
    BY <1>2, <1>3

\* A copy of the source, or the part of it one block has.
LEMMA OutputSourceCopyKeeps == ASSUME DecoderInvariant, OutputSourceCopy PROVE DecoderInvariant'
  <1> DEFINE whence == dec.f["CPYOFF"] + Half.addr
             n == whence \div BlkSize
             off == whence % BlkSize
             take == SmallerOf(Half.size, BlkSize - off)
             got == Got(dsrc, n)
             short == got.onblk # BlkSize /\ off + Half.size > got.onblk
             rest == RestOf(Half, take)
             put == SubSeq(dsrc.file, whence + 1, whence + take)
  <1>1. /\ dec.state = "EMITTING" /\ dec.ret = "CALL" /\ ~Idle /\ Half.type >= CPY /\ Half.addr < CpyLen
        /\ \/ NoRoom(Half.size) /\ DecReturn("INVALID") /\ UNCHANGED <<body, tgt, dsrc>>
           \/ DecReturn("GETSRCBLK") /\ dsrc' = Want(dsrc, n) /\ UNCHANGED <<body, tgt>>
           \/ Loaded(dsrc, n) /\ short /\ dsrc' = got /\ DecReturn("INVALID") /\ UNCHANGED <<body, tgt>>
           \/ /\ Loaded(dsrc, n) /\ ~short /\ dsrc' = got
              /\ tgt' = tgt \o put /\ body' = Turned(body, rest) /\ UNCHANGED dec
    <2>1. dec.state = "EMITTING" /\ dec.ret = "CALL" /\ ~Idle /\ Half.type >= CPY /\ Half.addr < CpyLen
      BY DEF OutputSourceCopy, Decoding
    <2>2. CASE NoRoom(Half.size)
      BY <2>1, <2>2 DEF OutputSourceCopy
    <2>3. CASE ~NoRoom(Half.size) /\ ~Loaded(dsrc, n)
      BY <2>1, <2>3 DEF OutputSourceCopy
    <2>4. CASE ~NoRoom(Half.size) /\ Loaded(dsrc, n) /\ short
      BY <2>1, <2>4 DEF OutputSourceCopy
    <2>5. CASE ~NoRoom(Half.size) /\ Loaded(dsrc, n) /\ ~short
      BY <2>1, <2>5 DEF OutputSourceCopy, RestOf
    <2> QED
      BY <2>2, <2>3, <2>4, <2>5
  <1>2. /\ DecType(dec) /\ BodyType(body) /\ IsSeq(tgt) /\ SrcType(dsrc) /\ InstructionsGood
        /\ CpyLen # 0 => dsrc.have
    BY <1>1 DEF DecoderInvariant
  <1>3. /\ HalfType(Half) /\ Half.size \in Nat /\ Half.addr \in Nat
        /\ CpyLen \in Nat /\ There \in Nat /\ Len(tgt) \in Nat /\ HalfGood(Half, There)
    <2>1. There \in Nat /\ CpyLen \in Nat /\ Len(tgt) \in Nat
      BY <1>2, ThereType
    <2>2. There + 0 = There
      BY <2>1
    <2> QED
      BY <1>1, <1>2, <2>1, <2>2, TurnType DEF HalfType
  <1>4. dsrc.have
    <2>1. CpyLen # 0
      BY <1>1, <1>3
    <2> QED
      BY <1>2, <2>1
  <1>5. whence \in Nat
    <2>1. dec.f["CPYOFF"] \in Nat
      BY <1>2 DEF DecType, FieldsType, Sizes
    <2> QED
      BY <1>3, <2>1
  <1>6. n \in Nat
    <2>1. \A w \in Nat \ {0} : whence \div w \in Nat
      BY <1>5
    <2> HIDE DEF whence
    <2> QED
      BY <2>1, SourceAssumption
  <1>7. /\ SrcType(got) /\ got.have /\ got.file = dsrc.file /\ got.onblk = dsrc.onblk
        /\ SrcType(Want(dsrc, n)) /\ Want(dsrc, n).have
    BY <1>2, <1>4, <1>6, GotType, WantType
  <1> HIDE DEF whence, n, off, take, got, short, rest, put
  <1>8. CASE NoRoom(Half.size) /\ DecReturn("INVALID") /\ UNCHANGED <<body, tgt, dsrc>>
    BY <1>1, <1>8, RefusalKeeps
  <1>9. CASE DecReturn("GETSRCBLK") /\ dsrc' = Want(dsrc, n) /\ UNCHANGED <<body, tgt>>
    <2>1. SrcType(dsrc') /\ dsrc'.have = dsrc.have
      BY <1>2, <1>4, <1>7, <1>9 DEF SrcType
    <2> QED
      BY <1>1, <1>9, <2>1, ReturnKeeps DEF DecReturn
  <1>10. CASE Loaded(dsrc, n) /\ short /\ dsrc' = got /\ DecReturn("INVALID") /\ UNCHANGED <<body, tgt>>
    <2>1. SrcType(dsrc') /\ dsrc'.have = dsrc.have
      BY <1>2, <1>4, <1>7, <1>10 DEF SrcType
    <2> QED
      BY <1>1, <1>10, <2>1, ReturnKeeps DEF DecReturn
  <1>11. CASE /\ Loaded(dsrc, n) /\ ~short /\ dsrc' = got
              /\ tgt' = tgt \o put /\ body' = Turned(body, rest) /\ UNCHANGED dec
    <2>1. dsrc.file \in Seq(Byte) /\ got.onblk = Len(Block(dsrc.file, n))
      BY <1>2, <1>4, <1>7, <1>11 DEF SrcType, Loaded
    <2>2. ~(Len(Block(dsrc.file, whence \div BlkSize)) # BlkSize
            /\ (whence % BlkSize) + Half.size > Len(Block(dsrc.file, whence \div BlkSize)))
      BY <1>11, <2>1 DEF short, off, n
    <2> DEFINE k == SmallerOf(Half.size, BlkSize - (whence % BlkSize))
    <2>3. /\ k \in 0..Half.size
          /\ SubSeq(dsrc.file, whence + 1, whence + k) \in Seq(Byte)
          /\ Len(SubSeq(dsrc.file, whence + 1, whence + k)) = k
      BY <1>3, <1>5, <2>1, <2>2, TakenBytes
    <2>4. take = k
      BY DEF take, off
    <2> HIDE DEF k
    <2>5. take \in 0..Half.size /\ put \in Seq(Byte) /\ Len(put) = take
      BY <2>3, <2>4 DEF put
    <2>6. IsSeq(tgt') /\ Len(tgt') = Len(tgt) + take
      BY <1>2, <1>11, <2>5, PutBehind, SeqIsSeq
    <2>7. HalfType(rest) /\ rest.size = Half.size - take /\ HalfGood(rest, There + take)
      BY <1>1, <1>3, <2>5, RestOfCopy DEF rest
    <2>8. BodyType(body') /\ InstructionsGood'
      BY <1>1, <1>2, <1>11, <2>5, <2>6, <2>7, HalfPutOut
    <2>9. SrcType(dsrc') /\ dsrc'.have = dsrc.have
      BY <1>2, <1>4, <1>7, <1>11 DEF SrcType
    <2> QED
      BY <1>1, <1>2, <1>11, <2>6, <2>8, <2>9, PutOutKeeps
  <1> QED
    BY <1>1, <1>8, <1>9, <1>10, <1>11

\* Every step of xd3_decode_input keeps the invariant.
LEMMA DecodeStepKeeps == ASSUME DecoderInvariant, DecodeStep PROVE DecoderInvariant'
  <1>1. CASE TakeByte
    BY <1>1, TakeByteKeeps
  <1>2. CASE EndField
    BY <1>2, EndFieldKeeps
  <1>3. CASE \E sec \in {"DATA", "INST", "ADDR"} : TakeSection(sec)
    BY <1>3, TakeSectionKeeps
  <1>4. CASE SectionsWhole
    BY <1>4, SectionsWholeKeeps
  <1>5. CASE DecodeInstruction
    BY <1>5, DecodeInstructionKeeps
  <1>6. CASE OutputData
    BY <1>6, OutputDataKeeps
  <1>7. CASE OutputTargetCopy
    BY <1>7, OutputTargetCopyKeeps
  <1>8. CASE OutputSourceCopy
    BY <1>8, OutputSourceCopyKeeps
  <1>9. CASE EmitWindow
    BY <1>9, EmitWindowKeeps
  <1>10. CASE FinishWindow
    BY <1>10, FinishWindowKeeps
  <1> QED
    BY <1>1, <1>2, <1>3, <1>4, <1>5, <1>6, <1>7, <1>8, <1>9, <1>10 DEF DecodeStep

-----------------------------------------------------------------------------
(* The two loops of code().                                                  *)

JobFields == {"case", "phase", "in", "pos", "read", "result"}

JobType(j) == DOMAIN j = JobFields /\ j.case \in Cases /\ j.in \in Seq(Byte) /\ j.pos \in Nat

\* What code() reads is bytes.
LEMMA ChunkType ==
    ASSUME JobType(job)
    PROVE  NextChunk \in Seq(Byte)
  <1>1. job.in \in Seq(Byte) /\ job.pos \in Nat /\ job.case.chunk \in Nat /\ Len(job.in) \in Nat
    BY LoopAssumption DEF JobType
  <1> DEFINE to == SmallerOf(job.pos + job.case.chunk, Len(job.in))
  <1>2. to \in Nat /\ to <= Len(job.in)
    BY <1>1 DEF SmallerOf
  <1> HIDE DEF to
  <1>3. SubSeq(job.in, job.pos + 1, to) \in Seq(Byte)
    BY <1>1, <1>2
  <1> QED
    BY <1>3 DEF NextChunk, Chunk, to

\* code() reads on.
LEMMA ReadMoreType == ASSUME JobType(job), ReadMore PROVE JobType(job')
  <1>1. job.pos + Len(NextChunk) \in Nat
    BY ChunkType DEF JobType
  <1> HIDE DEF NextChunk
  <1> QED
    BY <1>1 DEF ReadMore, JobType, JobFields

\* code() begins with a decoder that has read nothing.
LEMMA DecoderInit == Init => JobType(job) /\ DecoderInvariant
  <1> SUFFICES ASSUME Init
               PROVE  JobType(job) /\ DecoderInvariant
    OBVIOUS
  <1>1. PICK c \in Cases :
          /\ job = [case |-> c, phase |-> "create", in |-> c.target, pos |-> 0, read |-> c.chunk, result |-> 0]
          /\ DecodeInit(Opened(c.applied, c.opened = "both"), c.nover)
    BY DEF Init
  <1>2. c.target \in Seq(Byte) /\ c.applied \in Seq(Byte)
    BY LoopAssumption
  <1>3. JobType(job)
    BY <1>1, <1>2 DEF JobType, JobFields
  <1>4. SrcType(Opened(c.applied, c.opened = "both"))
    BY <1>2, NewSourceType
  <1>5. DecoderInvariant
    BY <1>1, <1>4, DecodeInitType
  <1> QED
    BY <1>3, <1>5

\* Every step of the two loops of code() keeps the invariant.
LEMMA DecoderNext == JobType(job) /\ DecoderInvariant /\ [Next]_allVars => (JobType(job) /\ DecoderInvariant)'
  <1> SUFFICES ASSUME JobType(job), DecoderInvariant, [Next]_allVars
               PROVE  JobType(job') /\ DecoderInvariant'
    BY DEF JobType, JobFields
  <1>1. CASE ReadInput
    <2>1. JobType(job')
      BY <1>1, ReadMoreType DEF ReadInput
    <2> QED
      BY <1>1, <2>1, UnchangedDecoder DEF ReadInput
  <1>2. CASE ReadPatch
    <2>1. JobType(job') /\ NextChunk \in Seq(Byte) /\ DecAvailInput(NextChunk)
      BY <1>2, ReadMoreType, ChunkType DEF ReadPatch
    <2> QED
      BY <2>1, DecAvailInputKeeps
  <1>3. CASE WritePatch
    BY <1>3, UnchangedDecoder DEF WritePatch
  <1>4. CASE WriteTarget
    BY <1>4, DecConsumeOutputKeeps DEF WriteTarget
  <1>5. CASE WriteTargetShort
    <2>1. JobType(job')
      <3>1. PICK n \in {0, Len(tgt) - 1} : job' = [job EXCEPT !.phase = "applied", !.result = n]
        BY <1>5 DEF WriteTargetShort
      <3> QED
        BY <3>1 DEF JobType, JobFields
    <2>2. UNCHANGED decVars
      BY <1>5 DEF WriteTargetShort
    <2> QED
      BY <2>1, <2>2, UnchangedDecoder
  <1>6. CASE LoadBlock
    <2>1. job' = job /\ (UNCHANGED decVars \/ DecSupplyBlock)
      BY <1>6 DEF LoadBlock, loopVars
    <2> QED
      BY <2>1, UnchangedDecoder, DecSupplyBlockKeeps
  <1>7. CASE GoOn
    <2>1. job' = job /\ (UNCHANGED decVars \/ GoOnDecoding)
      BY <1>7 DEF GoOn, loopVars
    <2> QED
      BY <2>1, UnchangedDecoder, GoOnDecodingKeeps
  <1>8. CASE Encode
    BY <1>8, UnchangedDecoder DEF Encode, loopVars
  <1>9. CASE Decode
    BY <1>9, DecodeStepKeeps DEF Decode, loopVars
  <1>10. CASE Created
    <2>1. JobType(job')
      <3>1. PICK p \in Seq(Byte) :
              job' = [job EXCEPT !.phase = "apply", !.in = p, !.pos = 0, !.read = job.case.chunk]
        BY <1>10 DEF Created
      <3> QED
        BY <3>1 DEF JobType, JobFields
    <2>2. UNCHANGED decVars
      BY <1>10 DEF Created
    <2> QED
      BY <2>1, <2>2, UnchangedDecoder
  <1>11. CASE Applied
    <2>1. JobType(job')
      BY <1>11 DEF Applied, JobType, JobFields
    <2> QED
      BY <1>11, <2>1, UnchangedDecoder DEF Applied
  <1>12. CASE Refuse
    <2>1. JobType(job')
      BY <1>12 DEF Refuse, JobType, JobFields
    <2> QED
      BY <1>12, <2>1, UnchangedDecoder DEF Refuse
  <1>13. CASE UNCHANGED allVars
    BY <1>13, UnchangedDecoder DEF allVars, loopVars
  <1> QED
    BY <1>1, <1>2, <1>3, <1>4, <1>5, <1>6, <1>7, <1>8, <1>9, <1>10, <1>11, <1>12, <1>13 DEF Next

\* xd3_decode_input reads the fields, the sections and the instructions of whatever
\* it is given into what they should be: for every patch, source, block size and
\* way to call it, the decoder is where DecoderInvariant says.
THEOREM DecoderSafe == Spec => []DecoderInvariant
  <1>1. Spec => [](JobType(job) /\ DecoderInvariant)
    BY DecoderInit, DecoderNext, PTL DEF Spec
  <1> QED
    BY <1>1, PTL

\* The invariant says what CopiesWhatIsThere says.
LEMMA InvariantCopies == DecoderInvariant => CopiesWhatIsThere
  <1> SUFFICES ASSUME DecoderInvariant, dec.state = "EMITTING", Half.type >= CPY
               PROVE  IF Half.addr < CpyLen
                      THEN SumsFit /\ ~NoRoom(Half.size) => Half.addr + Half.size <= CpyLen
                      ELSE Half.addr < CpyLen + Len(tgt)
    BY DEF CopiesWhatIsThere
  <1>1. /\ DecType(dec) /\ BodyType(body) /\ IsSeq(tgt) /\ InstructionsGood /\ dec.f["TGTLEN"] <= HardMaxWinSize
    BY DEF DecoderInvariant, Behind
  <1>2. ~Idle
    BY DEF Idle, Half, Turn, NOOP, CPY
  <1>3. CpyLen \in Nat /\ There \in Nat /\ Len(tgt) \in Nat /\ There + 0 = There /\ There = CpyLen + Len(tgt)
    BY <1>1, ThereType DEF There
  <1>4. HalfType(Half) /\ HalfGood(Half, There)
    BY <1>1, <1>2, <1>3, TurnType
  <1>5. Half.addr \in Nat /\ Half.size \in Nat
    BY <1>4 DEF HalfType
  <1>6. Half.addr < There /\ (Half.addr < CpyLen => (Half.addr + Half.size) % Word <= CpyLen)
    BY <1>4 DEF HalfGood, CopyGood
  <1>7. ASSUME Half.addr < CpyLen, SumsFit, ~NoRoom(Half.size)
        PROVE  Half.addr + Half.size <= CpyLen
    <2> DEFINE room == Space(dec.f["TGTLEN"])
    <2>1. room \in Nat
      <3>1. dec.f["TGTLEN"] \in 0..HardMaxWinSize
        BY <1>1, DecodeAssumption DEF DecType, FieldsType, Sizes
      <3> QED
        BY <3>1, DecodeAssumption
    <2>2. CpyLen + room < Word
      BY <1>7 DEF SumsFit
    <2>3. ~(Len(tgt) + Half.size > room)
      BY <1>7 DEF NoRoom
    <2> HIDE DEF room
    <2>4. Half.addr + Half.size < Word
      BY <1>3, <1>5, <1>7, <2>1, <2>2, <2>3, WordPositive
    <2>5. (Half.addr + Half.size) % Word = Half.addr + Half.size
      <3> DEFINE sum == Half.addr + Half.size
      <3>1. sum \in Int /\ sum >= 0 /\ sum < Word
        BY <1>5, <2>4
      <3> HIDE DEF sum
      <3>2. sum % Word = sum
        BY <3>1, Wrapped
      <3> QED
        BY <3>2 DEF sum
    <2> QED
      BY <1>6, <1>7, <2>5
  <1> QED
    BY <1>3, <1>6, <1>7

\* A copy that xd3_decode_output_halfinst is about to make is of bytes that are
\* there, whatever the patch says: CopiesWhatIsThere of the runs, for every patch,
\* source, size of a block, of usize_t and of the largest window.
THEOREM CopiesSafe == Spec => []CopiesWhatIsThere
  BY DecoderSafe, InvariantCopies, PTL

-----------------------------------------------------------------------------
(* The encoder: its invariant *)

\* An instruction of the buffer: no copy and no run is shorter than MIN_MATCH.
InstFields == {"type", "pos", "size", "addr", "xtra"}

IsInst(r) == DOMAIN r = InstFields /\ r.pos \in Nat /\ r.size \in Nat /\ r.size >= MinMatch

AreInsts(S) == \A r \in S : IsInst(r)

\* A sequence of them.
Buffer(q) == q \in Seq({q[k] : k \in DOMAIN q}) /\ AreInsts({q[k] : k \in DOMAIN q})

\* Every match in the buffer begins and ends behind the one before it.
InOrder(q) == \A k \in 1..(Len(q) - 1) : q[k].pos < q[k + 1].pos /\ End(q[k]) < End(q[k + 1])

\* The first n matches of the buffer do not overlap what follows them.
Apart(q, n) == \A k \in 1..n : k < Len(q) => ~Overlapping(q, k)

\* The parts of the encoder, each with what of it the proofs need.
EncFields == {"state", "flush", "in", "buf", "left", "out", "ret", "pos", "total", "window", "minMatch"}

EncType(e) ==
    /\ DOMAIN e = EncFields
    /\ e.in \in Seq(Byte) /\ e.buf \in Seq(Byte) /\ e.left \in Seq(Byte)
    /\ e.pos \in Nat /\ e.total \in Nat
    /\ e.minMatch \in Nat /\ e.minMatch >= MinMatch

MatchFields == {"state", "srcpos", "last", "fwd", "back", "maxfwd", "maxback", "min", "max", "maxsrc",
                "decided", "taroff", "cksum"}

MatchType(m) ==
    /\ DOMAIN m = MatchFields
    /\ m.srcpos \in Nat /\ m.fwd \in Nat /\ m.back \in Nat
    /\ m.min \in Nat /\ m.max \in Nat /\ m.maxsrc \in Nat /\ m.cksum \in Nat
    /\ m.maxfwd \in Int /\ m.maxback \in Int
    /\ m.back <= m.srcpos /\ m.maxback <= m.srcpos

LoopType(l) == DOMAIN l = {"runL", "runC", "next", "target", "then", "new", "len"} /\ l.target \in Nat
SectType(s) == DOMAIN s = {"hdr", "data", "inst", "addr", "cache", "unenc", "iout"} /\ s.unenc \in Nat
IoptType(o) == DOMAIN o = {"used", "slots", "force", "i", "flushed"} /\ Buffer(o.used) /\ o.i \in Nat \ {0}
HashType(h) == DOMAIN h = {"small", "prev", "large"} /\ \A b \in DOMAIN h.large : h.large[b] \in Nat \ {0}

\* What has been found out about the source, and what of it is indexed and
\* matched, is there.
SourceGood ==
    /\ SrcType(src)
    /\ src.have =>
          /\ src.max \in Nat /\ src.onlast \in Nat /\ src.base \in Nat /\ src.len \in Int
          /\ src.max * BlkSize <= Len(src.file) \/ src.max * BlkSize <= match.cksum
          /\ match.srcpos <= Len(src.file)
          /\ match.state \in {"FORWARD", "BACKWARD"} => match.srcpos + match.fwd <= Len(src.file)
          /\ \A b \in DOMAIN hash.large : hash.large[b] - 1 <= Len(src.file)

EncoderTypes == EncType(enc) /\ MatchType(match) /\ LoopType(loop) /\ SectType(sect) /\ IoptType(iopt) /\ HashType(hash)

\* The buffer before a match at pos is put in.
Before(pos) == iopt.used # <<>> => Last(iopt.used).pos < pos

\* min_match is what a match at pos must have to end behind the last one.
Ready(pos) == Before(pos) /\ LastMatched(iopt.used) < pos + enc.minMatch

\* There is a string to look for.
StringHere == enc.pos + SLook <= Len(enc.in)

\* Where the call is: at a byte of the input, at a source match, or at a match
\* that waits for a slot of the buffer.
AtByte == at \in {"run", "large", "look", "small", "move"}
Extending == at \in {"extend", "extended"}
WantsSlot == at \in {"slot", "take"} \/ (at \in {"compact", "pick"} /\ ~iopt.force)

\* A source match that grows is within the source and the input.
MatchUnderWay ==
    match.state \in {"FORWARD", "BACKWARD"} =>
        /\ Extending \/ (at = "client" /\ enc.state = "SEARCH")
        /\ src.have /\ enc.in # <<>> /\ match.back <= enc.pos /\ match.maxback <= enc.pos

\* The match that waits for a slot comes behind those in the buffer.
NewGood ==
    /\ IsInst(loop.new) /\ Before(loop.new.pos) /\ LastMatched(iopt.used) < End(loop.new)
    /\ loop.new.pos <= enc.pos
    /\ \/ loop.then = "lazy" /\ StringHere /\ loop.len \in Nat /\ loop.len >= MinMatch /\ End(loop.new) = enc.pos + loop.len
       \/ loop.then = "forward" /\ match.fwd > 0

\* Where the call is, and what the buffer is then.
PlaceGood ==
    /\ at = "client" => /\ enc.state \in {"INPUT", "SEARCH", "POSTOUT", "POSTWIN"}
                        /\ enc.state = "SEARCH" => Ready(enc.pos)
                        /\ enc.state # "SEARCH" => iopt.used = <<>>
    /\ AtByte => Ready(enc.pos) /\ StringHere
    /\ at \in {"look", "move"} => src.have
    /\ at = "move" => loop.then \in {"run", "look"}
    /\ at = "update" => Ready(enc.pos + 1) /\ StringHere
    /\ at = "lazy" => /\ Before(enc.pos + 1) /\ LastMatched(iopt.used) <= enc.pos + loop.len
                      /\ StringHere /\ loop.len \in Nat /\ loop.len >= MinMatch
    /\ at = "forward" => Before(enc.pos + match.fwd)
    /\ at = "restart" => Before(enc.pos)
    /\ Extending => /\ Ready(enc.pos) /\ src.have /\ match.state \in {"FORWARD", "BACKWARD"}
                    /\ loop.then = "loop" => StringHere
    /\ WantsSlot => NewGood
    /\ at = "header" => iopt.used = <<>>
    /\ at = "compact" => Apart(iopt.used, iopt.i - 1)

\* What the client was told, and what the call is in the middle of.
StateGood ==
    /\ at \in {"client", "restart", "update", "lazy", "forward", "slot", "take", "instr", "compact", "pick", "header"}
       \/ AtByte \/ Extending
    /\ AtByte \/ Extending \/ WantsSlot \/ at \in {"restart", "update", "lazy", "forward"} => enc.state = "SEARCH"
    /\ enc.ret = "INPUT" => at = "client" /\ enc.state = "INPUT"
    /\ enc.ret = "GETSRCBLK" => src.have

\* With an unlimited buffer nothing is encoded before the window is searched.
UnlimitedGood ==
    iopt.slots = 0 =>
        /\ at # "take"
        /\ at \in {"compact", "pick"} => iopt.force
        /\ at = "pick" => Apart(iopt.used, Len(iopt.used)) /\ (iopt.used # <<>> => Head(iopt.used).pos >= sect.unenc)
        /\ sect.unenc = 0 \/ at \in {"pick", "header"} \/ (at = "client" /\ enc.state # "SEARCH")

EncoderInvariant ==
    EncoderTypes /\ SourceGood /\ MatchUnderWay /\ PlaceGood /\ StateGood /\ UnlimitedGood /\ InOrder(iopt.used)

-----------------------------------------------------------------------------
(* The instruction buffer *)

\* A set of natural numbers that is bounded and not empty has a largest element.
LEMMA LargestNumber ==
    ASSUME NEW n \in Nat, NEW S \in SUBSET (1..n), S # {}
    PROVE  Max(S) \in S /\ \A k \in S : k <= Max(S)
  <1> DEFINE T == {n - k : k \in S}
  <1>1. T \in SUBSET Nat /\ T # {}
    <2>1. PICK e \in S : TRUE
      OBVIOUS
    <2>2. n - e \in T
      OBVIOUS
    <2>3. \A k \in 1..n : n - k \in Nat
      OBVIOUS
    <2>4. \A k \in S : n - k \in Nat
      BY <2>3
    <2> QED
      BY <2>2, <2>4
  <1> HIDE DEF T
  <1>2. PICK m \in T : \A k \in T : m <= k
    BY <1>1, LeastNumber
  <1>3. PICK x \in S : m = n - x
    BY DEF T
  <1>4. \A y \in S : x >= y
    <2>1. \A y \in S : m <= n - y
      BY <1>2 DEF T
    <2> QED
      BY <1>3, <2>1
  <1> QED
    BY <1>4 DEF Max

\* Agreeing finds a number up to n: how far the bytes agree.
LEMMA FirstOf ==
    ASSUME NEW n \in Nat, NEW G
    PROVE  \E k \in 0..n : (k = n \/ k \notin G) /\ \A j \in 0..(k - 1) : j \in G
  <1> DEFINE S == {k \in 0..n : k = n \/ k \notin G}
  <1>1. S \in SUBSET Nat /\ S # {}
    OBVIOUS
  <1> HIDE DEF S
  <1>2. PICK m \in S : \A k \in S : m <= k
    BY <1>1, LeastNumber
  <1>3. m \in 0..n /\ (m = n \/ m \notin G)
    BY DEF S
  <1>4. \A j \in 0..(m - 1) : j \in G
    BY <1>2, <1>3 DEF S
  <1> QED
    BY <1>3, <1>4

\* Instructions, and where they end.
LEMMA InstNumbers ==
    ASSUME NEW r, IsInst(r)
    PROVE  r.pos \in Nat /\ r.size \in Nat /\ r.size >= MinMatch /\ End(r) \in Nat /\ End(r) = r.pos + r.size
           /\ End(r) > r.pos
  BY DEF IsInst, End, MinMatch

\* A buffer is a sequence of instructions.
LEMMA BufferIn ==
    ASSUME NEW q
    PROVE  Buffer(q) <=> \E S : AreInsts(S) /\ q \in Seq(S)
  <1>1. ASSUME NEW S, AreInsts(S), q \in Seq(S)
        PROVE  Buffer(q)
    <2> DEFINE T == {q[k] : k \in DOMAIN q}
    <2>1. DOMAIN q = 1..Len(q) /\ Len(q) \in Nat /\ \A k \in 1..Len(q) : q[k] \in S
      BY <1>1
    <2>2. q \in Seq(T)
      BY <1>1, <2>1
    <2>3. T \subseteq S
      BY <2>1
    <2>4. AreInsts(T)
      BY <1>1, <2>3 DEF AreInsts
    <2> QED
      BY <2>2, <2>4 DEF Buffer
  <1> QED
    BY <1>1 DEF Buffer

\* The elements of a buffer.
LEMMA ElementNumbers ==
    ASSUME NEW q, Buffer(q)
    PROVE  /\ Len(q) \in Nat /\ DOMAIN q = 1..Len(q)
           /\ \A k \in 1..Len(q) : /\ IsInst(q[k]) /\ q[k].pos \in Nat /\ q[k].size \in Nat /\ q[k].size >= MinMatch
                                   /\ End(q[k]) \in Nat /\ End(q[k]) = q[k].pos + q[k].size /\ End(q[k]) > q[k].pos
  <1>1. PICK S : AreInsts(S) /\ q \in Seq(S)
    BY BufferIn
  <1>2. Len(q) \in Nat /\ DOMAIN q = 1..Len(q) /\ \A k \in 1..Len(q) : IsInst(q[k])
    BY <1>1 DEF AreInsts
  <1> QED
    BY <1>2, InstNumbers

\* A buffer is in order when each match is behind all those before it.
LEMMA OrderedAll ==
    ASSUME NEW q, Buffer(q)
    PROVE  InOrder(q) <=> \A j, k \in 1..Len(q) : j < k => q[j].pos < q[k].pos /\ End(q[j]) < End(q[k])
  <1> DEFINE Bad == {d \in Nat : \E j \in 1..Len(q) : j + d + 1 <= Len(q) /\
                        ~(q[j].pos < q[j + d + 1].pos /\ End(q[j]) < End(q[j + d + 1]))}
  <1>9. Len(q) \in Nat
    BY ElementNumbers
  <1>0. \A j \in 1..Len(q) : q[j].pos \in Nat /\ End(q[j]) \in Nat
    BY ElementNumbers
  <1>1. ASSUME InOrder(q)
        PROVE  Bad = {}
    <2> SUFFICES ASSUME Bad # {} PROVE FALSE
      OBVIOUS
    <2>1. Bad \in SUBSET Nat
      OBVIOUS
    <2>2. PICK d \in Bad : \A e \in Bad : d <= e
      <3> HIDE DEF Bad
      <3> QED
        BY <2>1, LeastNumber
    <2>3. PICK j \in 1..Len(q) : j + d + 1 <= Len(q) /\ ~(q[j].pos < q[j + d + 1].pos /\ End(q[j]) < End(q[j + d + 1]))
      BY <2>2
    <2>4. d \in Nat
      BY <2>1
    <2>5. CASE d = 0
      <3>1. j \in 1..(Len(q) - 1) /\ j + d + 1 = j + 1
        BY <2>3, <2>5
      <3>2. q[j].pos < q[j + 1].pos /\ End(q[j]) < End(q[j + 1])
        BY <1>1, <3>1 DEF InOrder
      <3> QED
        BY <2>3, <3>1, <3>2, Zenon
    <2>6. CASE d # 0
      <3>1. d - 1 \in Nat /\ d - 1 \notin Bad
        <4> HIDE DEF Bad
        <4> QED
          BY <2>2, <2>4, <2>6
      <3>2. PICK k \in 1..(Len(q) - 1) : k = j + d /\ k + 1 = j + d + 1 /\ j + (d - 1) + 1 = k
        <4>1. j + d + 1 <= Len(q)
          BY <2>3
        <4> HIDE DEF Bad
        <4>2. \A n, x, e \in Nat : x \in 1..n /\ x + e + 1 <= n /\ e # 0
                                 => x + e \in 1..(n - 1) /\ x + (e - 1) + 1 = x + e
          OBVIOUS
        <4>3. j \in Nat
          BY <1>9
        <4>4. j + d \in 1..(Len(q) - 1) /\ j + (d - 1) + 1 = j + d
          BY <1>9, <2>4, <2>6, <4>1, <4>2, <4>3
        <4> QED
          BY <4>4
      <3>3. q[j].pos < q[k].pos /\ End(q[j]) < End(q[k])
        <4>1. j + (d - 1) + 1 <= Len(q)
          BY <3>2
        <4>2. q[j].pos < q[j + (d - 1) + 1].pos /\ End(q[j]) < End(q[j + (d - 1) + 1])
          BY <3>1, <4>1
        <4> QED
          BY <3>2, <4>2, Zenon
      <3>4. q[k].pos < q[k + 1].pos /\ End(q[k]) < End(q[k + 1])
        BY <1>1, <3>2 DEF InOrder
      <3>5. q[j].pos \in Nat /\ End(q[j]) \in Nat /\ q[k].pos \in Nat /\ End(q[k]) \in Nat
            /\ q[k + 1].pos \in Nat /\ End(q[k + 1]) \in Nat
        <4>1. k \in 1..Len(q) /\ k + 1 \in 1..Len(q)
          BY <1>9, <3>2
        <4> HIDE DEF Bad
        <4> QED
          BY <1>0, <4>1
      <3>6. q[j].pos < q[k + 1].pos /\ End(q[j]) < End(q[k + 1])
        <4> HIDE DEF Bad
        <4>1. \A x, y, z \in Nat : x < y /\ y < z => x < z
          OBVIOUS
        <4> QED
          BY <3>3, <3>4, <3>5, <4>1
      <3> QED
        BY <2>3, <3>2, <3>6, Zenon
    <2> QED
      BY <2>5, <2>6
  <1>2. ASSUME InOrder(q), NEW j \in 1..Len(q), NEW k \in 1..Len(q), j < k
        PROVE  q[j].pos < q[k].pos /\ End(q[j]) < End(q[k])
    <2>1. k - j - 1 \in Nat /\ j + (k - j - 1) + 1 = k
      BY <1>2
    <2>2. PICK d \in Nat : d = k - j - 1
      BY <2>1
    <2>3. d \notin Bad
      <3> HIDE DEF Bad
      <3> QED
        BY <1>1, <1>2
    <2>4. j + d + 1 <= Len(q) => q[j].pos < q[j + d + 1].pos /\ End(q[j]) < End(q[j + d + 1])
      BY <2>3
    <2>5. j + d + 1 = k /\ j + d + 1 <= Len(q)
      <3> HIDE DEF Bad
      <3> QED
        BY <1>9, <2>1, <2>2
    <2> QED
      BY <2>4, <2>5, Zenon
  <1>3. ASSUME \A j, k \in 1..Len(q) : j < k => q[j].pos < q[k].pos /\ End(q[j]) < End(q[k])
        PROVE  InOrder(q)
    BY <1>3 DEF InOrder
  <1> QED
    BY <1>2, <1>3

\* How far the matches in a buffer go.
LEMMA LastMatchedType ==
    ASSUME NEW q, Buffer(q)
    PROVE  LastMatched(q) \in Nat /\ (q # <<>> => Last(q) = q[Len(q)] /\ Len(q) \in 1..Len(q) /\ LastMatched(q) = End(q[Len(q)]))
  <1>0. PICK Of : AreInsts(Of) /\ q \in Seq(Of)
    BY BufferIn
  <1>1. CASE q = <<>>
    BY <1>1 DEF LastMatched
  <1>2. CASE q # <<>>
    <2>1. Len(q) \in 1..Len(q)
      BY <1>0, <1>2
    <2> QED
      BY <1>2, <2>1, ElementNumbers DEF LastMatched, Last
  <1> QED
    BY <1>1, <1>2

\* A match that begins and ends behind the last one can be put in.
LEMMA AppendOrdered ==
    ASSUME NEW q, Buffer(q), InOrder(q), NEW r, IsInst(r),
           q # <<>> => Last(q).pos < r.pos, LastMatched(q) < End(r)
    PROVE  /\ Buffer(Append(q, r)) /\ InOrder(Append(q, r)) /\ Append(q, r) # <<>>
           /\ Last(Append(q, r)) = r /\ LastMatched(Append(q, r)) = End(r)
  <1>0. PICK Of : AreInsts(Of) /\ q \in Seq(Of)
    BY BufferIn
  <1> DEFINE a == Append(q, r)
  <1>1. Len(a) = Len(q) + 1 /\ a[Len(q) + 1] = r /\ Len(q) \in Nat /\ \A k \in 1..Len(q) : a[k] = q[k]
    BY <1>0
  <1>6. Buffer(a)
    <2> DEFINE All == Of \cup {r}
    <2>1. q \in Seq(All) /\ r \in All /\ AreInsts(All)
      <3>1. q \in Seq(All)
        BY <1>0
      <3> QED
        BY <1>0, <3>1 DEF AreInsts
    <2> HIDE DEF All
    <2>2. a \in Seq(All)
      BY <2>1
    <2> QED
      BY <2>1, <2>2, BufferIn
  <1>2. Last(a) = r /\ a # <<>>
    BY <1>0, <1>1 DEF Last
  <1> HIDE DEF a
  <1>3. LastMatched(a) = End(r)
    BY <1>2 DEF LastMatched
  <1>4. ASSUME NEW k \in 1..(Len(a) - 1)
        PROVE  a[k].pos < a[k + 1].pos /\ End(a[k]) < End(a[k + 1])
    <2>1. CASE k < Len(q)
      <3>1. k \in 1..(Len(q) - 1) /\ a[k] = q[k] /\ a[k + 1] = q[k + 1]
        BY <1>1, <2>1
      <3>2. q[k].pos < q[k + 1].pos /\ End(q[k]) < End(q[k + 1])
        BY <3>1 DEF InOrder
      <3> QED
        BY <3>1, <3>2, Zenon
    <2>2. CASE k = Len(q)
      <3>1. a[k] = q[k] /\ a[k + 1] = r /\ q # <<>>
        BY <1>1, <2>2
      <3>2. Last(q) = q[k] /\ LastMatched(q) = End(q[k])
        BY <2>2, <3>1, LastMatchedType
      <3> QED
        BY <3>1, <3>2
    <2> QED
      BY <1>1, <2>1, <2>2
  <1>5. InOrder(a)
    BY <1>4 DEF InOrder
  <1> QED
    BY <1>2, <1>3, <1>5, <1>6 DEF a

\* What is left when the first match is taken out.
LEMMA TailOrdered ==
    ASSUME NEW q, Buffer(q), InOrder(q), q # <<>>
    PROVE  /\ Buffer(Tail(q)) /\ InOrder(Tail(q)) /\ (Tail(q) # <<>> => Last(Tail(q)) = Last(q))
           /\ Apart(q, Len(q)) => /\ Apart(Tail(q), Len(Tail(q)))
                                  /\ Tail(q) # <<>> => Head(Tail(q)).pos >= End(Head(q))
  <1>0. PICK Of : AreInsts(Of) /\ q \in Seq(Of)
    BY BufferIn
  <1> DEFINE t == Tail(q)
  <1>1. t \in Seq(Of) /\ Len(t) = Len(q) - 1 /\ \A k \in 1..Len(t) : t[k] = q[k + 1]
    BY <1>0
  <1>6. Buffer(t)
    BY <1>0, <1>1, BufferIn
  <1>2. Len(q) \in Nat \ {0} /\ Head(q) = q[1] /\ (t # <<>> => Len(q) > 1 /\ Head(t) = q[2])
    BY <1>1
  <1> HIDE DEF t
  <1>3. t # <<>> => Last(t) = Last(q)
    BY <1>1, <1>2 DEF Last
  <1>4. InOrder(t)
    <2>1. ASSUME NEW k \in 1..(Len(t) - 1)
          PROVE  t[k].pos < t[k + 1].pos /\ End(t[k]) < End(t[k + 1])
      <3>1. k + 1 \in 1..(Len(q) - 1) /\ t[k] = q[k + 1] /\ t[k + 1] = q[(k + 1) + 1]
        BY <1>1, <1>2
      <3>2. q[k + 1].pos < q[(k + 1) + 1].pos /\ End(q[k + 1]) < End(q[(k + 1) + 1])
        BY <3>1 DEF InOrder
      <3> QED
        BY <3>1, <3>2, Zenon
    <2> QED
      BY <2>1 DEF InOrder
  <1>5. ASSUME Apart(q, Len(q))
        PROVE  Apart(t, Len(t)) /\ (t # <<>> => Head(t).pos >= End(Head(q)))
    <2>1. ASSUME NEW k \in 1..Len(q), k < Len(q)
          PROVE  ~(End(q[k]) > q[k + 1].pos)
      BY <1>5, <2>1 DEF Apart, Overlapping
    <2>2. Apart(t, Len(t))
      <3>1. ASSUME NEW k \in 1..Len(t), k < Len(t)
            PROVE  ~(End(t[k]) > t[k + 1].pos)
        <4>1. k + 1 \in 1..Len(q) /\ k + 1 < Len(q) /\ t[k] = q[k + 1] /\ t[k + 1] = q[(k + 1) + 1]
          BY <1>1, <1>2, <3>1
        <4> QED
          BY <2>1, <4>1
      <3> QED
        BY <3>1 DEF Apart, Overlapping
    <2>3. ASSUME t # <<>>
          PROVE  Head(t).pos >= End(Head(q))
      <3>1. 1 \in 1..Len(q) /\ 2 \in 1..Len(q) /\ 1 < Len(q) /\ 1 + 1 = 2
        BY <1>2, <2>3
      <3>2. ~(End(q[1]) > q[2].pos)
        BY <2>1, <3>1
      <3>3. End(q[1]) \in Nat /\ q[2].pos \in Nat
        BY <3>1, ElementNumbers
      <3> QED
        BY <1>2, <2>3, <3>2, <3>3
    <2> QED
      BY <2>2, <2>3
  <1> QED
    BY <1>3, <1>4, <1>5, <1>6 DEF t

\* The matches before pos are in order, and go no further than they did.
LEMMA UncoveredOrdered ==
    ASSUME NEW q, Buffer(q), InOrder(q), NEW pos \in Nat
    PROVE  /\ Buffer(Uncovered(q, pos)) /\ InOrder(Uncovered(q, pos))
           /\ Uncovered(q, pos) # <<>> => Last(Uncovered(q, pos)).pos < pos
           /\ LastMatched(Uncovered(q, pos)) <= LastMatched(q)
  <1>0. PICK Of : AreInsts(Of) /\ q \in Seq(Of)
    BY BufferIn
  <1> DEFINE S == {k \in 1..Len(q) : q[k].pos < pos}
             n == IF S # {} THEN Max(S) ELSE 0
             u == SubSeq(q, 1, n)
  <1>1. Uncovered(q, pos) = u
    BY DEF Uncovered, SelectLastInSeq
  <1>2. n \in 0..Len(q) /\ (n # 0 => q[n].pos < pos)
    <2>1. S \in SUBSET (1..Len(q)) /\ Len(q) \in Nat
      OBVIOUS
    <2>2. CASE S = {}
      BY <2>2
    <2>3. CASE S # {}
      <3>1. Max(S) \in S
        <4> HIDE DEF S
        <4> QED
          BY <2>1, <2>3, LargestNumber
      <3> QED
        BY <2>3, <3>1
    <2> QED
      BY <2>2, <2>3
  <1> HIDE DEF n
  <1>3. u \in Seq(Of) /\ Len(u) = n /\ \A k \in 1..n : u[k] = q[k]
    BY <1>0, <1>2
  <1>7. Buffer(u)
    BY <1>0, <1>3, BufferIn
  <1> HIDE DEF u
  <1>4. InOrder(u)
    <2>1. ASSUME NEW k \in 1..(Len(u) - 1)
          PROVE  u[k].pos < u[k + 1].pos /\ End(u[k]) < End(u[k + 1])
      <3>1. k \in 1..(Len(q) - 1) /\ u[k] = q[k] /\ u[k + 1] = q[k + 1]
        BY <1>2, <1>3
      <3>2. q[k].pos < q[k + 1].pos /\ End(q[k]) < End(q[k + 1])
        BY <3>1 DEF InOrder
      <3> QED
        BY <3>1, <3>2, Zenon
    <2> QED
      BY <2>1 DEF InOrder
  <1>5. u # <<>> => n \in 1..Len(q) /\ Last(u) = q[n]
    BY <1>2, <1>3 DEF Last
  <1>6. LastMatched(u) <= LastMatched(q)
    <2>1. CASE u = <<>>
      <3>1. LastMatched(q) \in Nat
        BY LastMatchedType
      <3> QED
        BY <2>1, <3>1 DEF LastMatched
    <2>2. CASE u # <<>>
      <3>1. LastMatched(u) = End(q[n]) /\ q # <<>>
        BY <1>5, <2>2 DEF LastMatched
      <3>2. LastMatched(q) = End(q[Len(q)]) /\ Len(q) \in 1..Len(q)
        BY <3>1, LastMatchedType
      <3>3. n = Len(q) \/ End(q[n]) < End(q[Len(q)])
        BY <1>5, <2>2, <3>2, OrderedAll
      <3>4. End(q[n]) \in Nat /\ End(q[Len(q)]) \in Nat
        BY <1>5, <2>2, <3>2, ElementNumbers
      <3> QED
        BY <3>1, <3>2, <3>3, <3>4
    <2> QED
      BY <2>1, <2>2
  <1> QED
    BY <1>1, <1>2, <1>4, <1>5, <1>6, <1>7

\* A match is removed.
LEMMA RemoveOrdered ==
    ASSUME NEW q, Buffer(q), InOrder(q), NEW i \in 1..Len(q)
    PROVE  /\ Buffer(RemoveAt(q, i)) /\ Len(RemoveAt(q, i)) = Len(q) - 1 /\ InOrder(RemoveAt(q, i))
           /\ \A k \in 1..(Len(q) - 1) : RemoveAt(q, i)[k] = IF k < i THEN q[k] ELSE q[k + 1]
  <1>0. PICK Of : AreInsts(Of) /\ q \in Seq(Of)
    BY BufferIn
  <1> DEFINE r == RemoveAt(q, i)
             a == SubSeq(q, 1, i - 1)
             b == SubSeq(q, i + 1, Len(q))
  <1>1. a \in Seq(Of) /\ Len(a) = i - 1 /\ \A k \in 1..(i - 1) : a[k] = q[k]
    BY <1>0
  <1>2. b \in Seq(Of) /\ Len(b) = Len(q) - i /\ \A k \in 1..(Len(q) - i) : b[k] = q[k + i]
    BY <1>0
  <1>3. r = a \o b
    BY DEF RemoveAt
  <1> HIDE DEF a, b, r
  <1>4. r \in Seq(Of) /\ Len(r) = Len(q) - 1 /\ Len(q) \in Nat
    BY <1>0, <1>1, <1>2, <1>3
  <1>8. Buffer(r)
    BY <1>0, <1>4, BufferIn
  <1>5. ASSUME NEW k \in 1..(Len(q) - 1)
        PROVE  r[k] = IF k < i THEN q[k] ELSE q[k + 1]
    <2>1. CASE k < i
      <3>1. r[k] = a[k] /\ k \in 1..(i - 1)
        BY <1>1, <1>2, <1>3, <2>1
      <3> QED
        BY <1>1, <2>1, <3>1
    <2>2. CASE ~(k < i)
      <3>1. k - (i - 1) \in 1..(Len(q) - i) /\ (k - (i - 1)) + i = k + 1
        BY <2>2
      <3>2. r[k] = b[k - (i - 1)]
        BY <1>1, <1>2, <1>3, <2>2
      <3>3. b[k - (i - 1)] = q[(k - (i - 1)) + i]
        BY <1>2, <3>1
      <3>4. r[k] = q[k + 1]
        BY <3>1, <3>2, <3>3
      <3> QED
        BY <2>2, <3>4
    <2> QED
      BY <2>1, <2>2
  <1>6. ASSUME NEW j \in 1..Len(r), NEW k \in 1..Len(r), j < k
        PROVE  r[j].pos < r[k].pos /\ End(r[j]) < End(r[k])
    <2>1. PICK x \in 1..Len(q) : r[j] = q[x] /\ x = IF j < i THEN j ELSE j + 1
      BY <1>4, <1>5
    <2>2. PICK y \in 1..Len(q) : r[k] = q[y] /\ y = IF k < i THEN k ELSE k + 1
      BY <1>4, <1>5
    <2>3. x < y
      BY <1>6, <2>1, <2>2
    <2> QED
      BY <2>1, <2>2, <2>3, OrderedAll
  <1>7. InOrder(r)
    BY <1>6, <1>8, OrderedAll
  <1> QED
    BY <1>4, <1>5, <1>7, <1>8 DEF r

\* Two matches that overlap and are both kept: where the first one ends now, it and
\* the rest of the second are worth their instructions.
LEMMA FirstSizeBounds ==
    ASSUME NEW r1, IsInst(r1), NEW r2, IsInst(r2), r1.pos < r2.pos, End(r1) < End(r2), r2.pos < End(r1),
           ~NotWorthBoth(r1, r2)
    PROVE  \E n \in Nat : /\ n = FirstSize(r1, r2) /\ n >= MinMatch /\ n <= r1.size
                          /\ r1.pos + n >= r2.pos /\ r1.pos + n + MinMatch <= End(r2)
  <1>1. PICK p1 \in Nat, s1 \in Nat, p2 \in Nat, s2 \in Nat :
          p1 = r1.pos /\ s1 = r1.size /\ p2 = r2.pos /\ s2 = r2.size
          /\ End(r1) = p1 + s1 /\ End(r2) = p2 + s2
    BY InstNumbers
  <1>2. s1 >= 4 /\ s2 >= 4
    BY <1>1, InstNumbers DEF MinMatch
  <1>3. p1 < p2 /\ p1 + s1 < p2 + s2 /\ p2 < p1 + s1
    BY <1>1
  <1> DEFINE gap == p2 + s2 - p1
             half == gap \div 2
             new == SmallerOf(18, gap - half)
             n == IF new > s1 THEN s1 ELSE IF new > s2 THEN p2 - p1 ELSE LargerOf(new, p2 - p1)
  <1>4. gap \in Nat /\ gap >= 8
    BY <1>1, <1>3 DEF NotWorthBoth, MinMatch
  <1>5. FirstSize(r1, r2) = n
    <2>1. End(r2) - r1.pos = gap
      BY <1>1
    <2> QED
      BY <1>1, <2>1, Zenon DEF FirstSize, MaxMatchSplit
  <1> HIDE DEF gap
  <1>6. half \in Nat /\ 2 * half <= gap /\ gap <= 2 * half + 1
    BY <1>4
  <1> HIDE DEF half
  <1>7. new \in Nat /\ new <= gap - half /\ new <= 18 /\ (new = 18 \/ new = gap - half)
    BY <1>4, <1>6 DEF SmallerOf
  <1> HIDE DEF new
  <1>8. gap = (p2 - p1) + s2
    BY DEF gap
  <1>9. new >= 4
    BY <1>4, <1>6, <1>7
  <1>10. n \in Nat /\ n >= 4 /\ n <= s1 /\ p1 + n >= p2 /\ p1 + n + 4 <= p2 + s2
    <2>1. CASE new > s1
      BY <1>2, <1>3, <1>4, <1>6, <1>7, <1>8, <2>1
    <2>2. CASE ~(new > s1) /\ new > s2
      BY <1>2, <1>3, <1>4, <1>6, <1>7, <1>8, <2>2
    <2>3. CASE ~(new > s1) /\ ~(new > s2)
      BY <1>2, <1>3, <1>4, <1>6, <1>7, <1>8, <1>9, <2>3 DEF LargerOf
    <2> QED
      BY <2>1, <2>2, <2>3
  <1> HIDE DEF n
  <1> QED
    BY <1>1, <1>5, <1>10 DEF MinMatch

\* ... which do not overlap any more.
LEMMA SplitInsts ==
    ASSUME NEW r1, IsInst(r1), NEW r2, IsInst(r2), r1.pos < r2.pos, End(r1) < End(r2), r2.pos < End(r1),
           ~NotWorthBoth(r1, r2)
    PROVE  LET s == Shortened(r1, r2)
               t == Trimmed(r1, r2)
           IN  /\ IsInst(s) /\ IsInst(t) /\ s.pos = r1.pos
               /\ End(s) = t.pos /\ t.pos >= r2.pos /\ t.pos <= End(r1) /\ End(t) = End(r2)
  <1>1. PICK n \in Nat : /\ n = FirstSize(r1, r2) /\ n >= MinMatch /\ n <= r1.size
                         /\ r1.pos + n >= r2.pos /\ r1.pos + n + MinMatch <= End(r2)
    BY FirstSizeBounds
  <1>2. MinMatch = 4 /\ r1.pos \in Nat /\ r2.pos \in Nat /\ r1.size \in Nat /\ r2.size \in Nat
        /\ End(r1) = r1.pos + r1.size /\ End(r2) = r2.pos + r2.size
    BY InstNumbers DEF MinMatch, IsInst
  <1>3. PICK c \in Nat : c = r1.pos + n - r2.pos
    BY <1>1, <1>2
  <1> DEFINE s == [r1 EXCEPT !.size = n]
             t == [r2 EXCEPT !.size = @ - c, !.pos = @ + c, !.addr = @ + c]
  <1>4. Shortened(r1, r2) = s /\ Trimmed(r1, r2) = t
    BY <1>1, <1>3, Zenon DEF Shortened, Trimmed
  <1>5. IsInst(s) /\ s.pos = r1.pos /\ s.size = n
    BY <1>1 DEF IsInst, InstFields
  <1>6. r2.size - c \in Nat /\ r2.size - c >= MinMatch /\ r2.pos + c \in Nat
    BY <1>1, <1>2, <1>3
  <1>7. IsInst(t) /\ t.pos = r2.pos + c /\ t.size = r2.size - c
    BY <1>6 DEF IsInst, InstFields
  <1> HIDE DEF s, t
  <1>8. End(s) = t.pos /\ t.pos >= r2.pos /\ t.pos <= End(r1) /\ End(t) = End(r2)
    BY <1>1, <1>2, <1>3, <1>5, <1>7 DEF End
  <1> QED
    BY <1>4, <1>5, <1>7, <1>8

\* A round of the compaction leaves the buffer in order, with no overlap among the
\* matches it has been through; the last one stays as it is unless it is forced.
LEMMA CompactOrdered ==
    ASSUME NEW q, Buffer(q), InOrder(q), NEW i \in Nat \ {0}, i < Len(q), Apart(q, i - 1)
    PROVE  /\ Buffer(Compact(q, i).q) /\ InOrder(Compact(q, i).q)
           /\ Compact(q, i).i \in Nat \ {0} /\ Apart(Compact(q, i).q, Compact(q, i).i - 1)
           /\ ~Undecided(q, i, FALSE) => Compact(q, i).q # <<>> /\ Last(Compact(q, i).q) = Last(q)
  <1> DEFINE r1 == q[i]
             r2 == q[i + 1]
  <1>1. i \in 1..Len(q) /\ i + 1 \in 1..Len(q) /\ Len(q) \in Nat /\ i \in 1..(Len(q) - 1)
    BY ElementNumbers
  <1>2. IsInst(r1) /\ IsInst(r2) /\ r1.pos < r2.pos /\ End(r1) < End(r2)
    BY <1>1, ElementNumbers DEF InOrder
  <1>3. \A k \in 1..(i - 1) : End(q[k]) <= q[k + 1].pos /\ k \in 1..Len(q) /\ k + 1 \in 1..Len(q)
    <2> TAKE k \in 1..(i - 1)
    <2>1. k < Len(q) /\ k \in 1..Len(q) /\ k + 1 \in 1..Len(q)
      BY <1>1
    <2>2. ~(End(q[k]) > q[k + 1].pos)
      BY <2>1 DEF Apart, Overlapping
    <2>3. End(q[k]) \in Nat /\ q[k + 1].pos \in Nat
      BY <2>1, ElementNumbers
    <2> QED
      BY <2>1, <2>2, <2>3
  <1>4. CASE ~Overlapping(q, i)
    <2>1. Compact(q, i) = [q |-> q, i |-> i + 1]
      BY <1>4, Zenon DEF Compact
    <2>2. Apart(q, i)
      <3>1. ASSUME NEW k \in 1..i, k < Len(q)
            PROVE  ~Overlapping(q, k)
        <4>1. CASE k = i
          BY <1>4, <4>1
        <4>2. CASE k # i
          <5>1. k \in 1..(i - 1)
            BY <4>2
          <5> QED
            BY <3>1, <5>1 DEF Apart
        <4> QED
          BY <4>1, <4>2
      <3> QED
        BY <3>1 DEF Apart
    <2>3. i + 1 \in Nat \ {0} /\ (i + 1) - 1 = i /\ q # <<>>
      BY <1>1
    <2>4. Compact(q, i).q = q /\ Compact(q, i).i = i + 1
      BY <2>1
    <2> QED
      BY <2>2, <2>3, <2>4
  <1>5. CASE Overlapping(q, i) /\ i + 2 <= Len(q) /\ q[i + 2].pos <= End(r1) + 1
    <2>1. Compact(q, i) = [q |-> RemoveAt(q, i + 1), i |-> i]
      BY <1>5, Zenon DEF Compact
    <2> DEFINE r == RemoveAt(q, i + 1)
    <2>2. Buffer(r) /\ Len(r) = Len(q) - 1 /\ InOrder(r)
          /\ \A k \in 1..(Len(q) - 1) : r[k] = IF k < i + 1 THEN q[k] ELSE q[k + 1]
      BY <1>1, RemoveOrdered
    <2> HIDE DEF r
    <2>3. Apart(r, i - 1)
      <3>1. ASSUME NEW k \in 1..(i - 1), k < Len(r)
            PROVE  ~(End(r[k]) > r[k + 1].pos)
        <4>1. r[k] = q[k] /\ r[k + 1] = q[k + 1]
          <5>1. k \in 1..(Len(q) - 1) /\ k + 1 \in 1..(Len(q) - 1) /\ k < i + 1 /\ k + 1 < i + 1
            BY <1>1, <2>2, <3>1
          <5> QED
            BY <2>2, <5>1
        <4>2. End(q[k]) \in Nat /\ q[k + 1].pos \in Nat /\ End(q[k]) <= q[k + 1].pos
          BY <1>3, ElementNumbers
        <4> QED
          BY <4>1, <4>2
      <3> QED
        BY <3>1 DEF Apart, Overlapping
    <2>4. r # <<>> /\ Last(r) = Last(q)
      BY <1>1, <1>5, <2>2 DEF Last
    <2>5. Compact(q, i).q = r /\ Compact(q, i).i = i
      BY <2>1 DEF r
    <2> QED
      BY <2>2, <2>3, <2>4, <2>5
  <1> DEFINE Free == i + 2 <= Len(q) => q[i + 2].pos > End(r1) + 1
  <1>6. ASSUME Overlapping(q, i), ~(i + 2 <= Len(q) /\ q[i + 2].pos <= End(r1) + 1)
        PROVE  /\ Free /\ r2.pos < End(r1)
               /\ ~Undecided(q, i, FALSE) => i + 2 <= Len(q)
    <2>1. i + 2 <= Len(q) => i + 2 \in 1..Len(q)
      BY <1>1
    <2>2. Free
      BY <1>2, <1>6, <2>1, ElementNumbers, InstNumbers
    <2>3. r2.pos < End(r1)
      BY <1>2, <1>6, InstNumbers DEF Overlapping
    <2>4. ~Undecided(q, i, FALSE) => i + 2 <= Len(q)
      BY <1>1, <1>6 DEF Undecided
    <2> QED
      BY <2>2, <2>3, <2>4
  <1>7. CASE Overlapping(q, i) /\ ~(i + 2 <= Len(q) /\ q[i + 2].pos <= End(r1) + 1) /\ NotWorthBoth(r1, r2) /\ r1.size < r2.size
    <2>1. Compact(q, i) = [q |-> RemoveAt(q, i), i |-> i]
      BY <1>7, Zenon DEF Compact
    <2> DEFINE r == RemoveAt(q, i)
    <2>2. Buffer(r) /\ Len(r) = Len(q) - 1 /\ InOrder(r)
          /\ \A k \in 1..(Len(q) - 1) : r[k] = IF k < i THEN q[k] ELSE q[k + 1]
      BY <1>1, RemoveOrdered
    <2> HIDE DEF r
    <2>3. Apart(r, i - 1)
      <3>1. ASSUME NEW k \in 1..(i - 1), k < Len(r)
            PROVE  ~(End(r[k]) > r[k + 1].pos)
        <4>1. r[k] = q[k]
          BY <1>1, <2>2, <3>1
        <4>2. End(q[k]) \in Nat /\ q[k + 1].pos \in Nat /\ End(q[k]) <= q[k + 1].pos
          BY <1>3, ElementNumbers
        <4>3. CASE k + 1 < i
          <5>1. r[k + 1] = q[k + 1]
            BY <1>1, <2>2, <3>1, <4>3
          <5> QED
            BY <4>1, <4>2, <5>1
        <4>4. CASE ~(k + 1 < i)
          <5>1. k + 1 = i /\ i \in 1..(Len(q) - 1)
            BY <1>1, <3>1, <4>4
          <5>2. r[k + 1] = r2
            BY <2>2, <5>1
          <5>3. r2.pos \in Nat /\ q[k + 1].pos < r2.pos
            BY <1>2, <5>1, InstNumbers
          <5> QED
            BY <4>1, <4>2, <5>2, <5>3
        <4> QED
          BY <4>3, <4>4
      <3> QED
        BY <3>1 DEF Apart, Overlapping
    <2>4. r # <<>> /\ Last(r) = Last(q)
      BY <1>1, <2>2 DEF Last
    <2>5. Compact(q, i).q = r /\ Compact(q, i).i = i
      BY <2>1 DEF r
    <2> QED
      BY <2>2, <2>3, <2>4, <2>5
  <1>8. CASE Overlapping(q, i) /\ ~(i + 2 <= Len(q) /\ q[i + 2].pos <= End(r1) + 1) /\ NotWorthBoth(r1, r2) /\ ~(r1.size < r2.size)
    <2>1. Compact(q, i) = [q |-> RemoveAt(q, i + 1), i |-> i + 1]
      BY <1>8, Zenon DEF Compact
    <2> DEFINE r == RemoveAt(q, i + 1)
    <2>2. Buffer(r) /\ Len(r) = Len(q) - 1 /\ InOrder(r)
          /\ \A k \in 1..(Len(q) - 1) : r[k] = IF k < i + 1 THEN q[k] ELSE q[k + 1]
      BY <1>1, RemoveOrdered
    <2> HIDE DEF r
    <2>3. Apart(r, i)
      <3>1. ASSUME NEW k \in 1..i, k < Len(r)
            PROVE  ~(End(r[k]) > r[k + 1].pos)
        <4>1. r[k] = q[k]
          BY <1>1, <2>2, <3>1
        <4>2. CASE k < i
          <5>1. r[k + 1] = q[k + 1] /\ k \in 1..(i - 1)
            <6>1. k + 1 \in 1..(Len(q) - 1) /\ k + 1 < i + 1 /\ k \in 1..(i - 1)
              BY <1>1, <2>2, <3>1, <4>2
            <6> QED
              BY <2>2, <6>1
          <5>2. End(q[k]) \in Nat /\ q[k + 1].pos \in Nat /\ End(q[k]) <= q[k + 1].pos
            BY <1>3, <5>1, ElementNumbers
          <5> QED
            BY <4>1, <5>1, <5>2
        <4>3. CASE k = i
          <5>1. i + 1 \in 1..(Len(q) - 1) /\ i + 2 \in 1..Len(q) /\ (i + 1) + 1 = i + 2
            BY <1>1, <2>2, <3>1, <4>3
          <5>2. r[i + 1] = q[i + 2]
            BY <2>2, <5>1
          <5>3. q[i + 2].pos > End(r1) + 1
            BY <1>6, <1>8, <5>1
          <5>4. q[i + 2].pos \in Nat /\ End(r1) \in Nat
            BY <1>2, <5>1, ElementNumbers, InstNumbers
          <5> QED
            BY <4>1, <4>3, <5>2, <5>3, <5>4
        <4> QED
          BY <3>1, <4>2, <4>3
      <3> QED
        BY <3>1 DEF Apart, Overlapping
    <2>4. ~Undecided(q, i, FALSE) => r # <<>> /\ Last(r) = Last(q)
      <3> SUFFICES ASSUME i + 2 <= Len(q)
                   PROVE  r # <<>> /\ Last(r) = Last(q)
        BY <1>6, <1>8
      <3> QED
        BY <1>1, <2>2 DEF Last
    <2>5. Compact(q, i).q = r /\ Compact(q, i).i = i + 1 /\ (i + 1) - 1 = i /\ i + 1 \in Nat \ {0}
      BY <2>1 DEF r
    <2> QED
      BY <2>2, <2>3, <2>4, <2>5
  <1>9. CASE Overlapping(q, i) /\ ~(i + 2 <= Len(q) /\ q[i + 2].pos <= End(r1) + 1) /\ ~NotWorthBoth(r1, r2)
    <2> DEFINE s == Shortened(r1, r2)
               t == Trimmed(r1, r2)
               r == [q EXCEPT ![i] = s, ![i + 1] = t]
    <2>1. Compact(q, i) = [q |-> r, i |-> i + 1]
      BY <1>9, Zenon DEF Compact
    <2>2. Free /\ r2.pos < End(r1) /\ (~Undecided(q, i, FALSE) => i + 2 <= Len(q))
      BY <1>6, <1>9
    <2>3. /\ IsInst(s) /\ IsInst(t) /\ s.pos = r1.pos
          /\ End(s) = t.pos /\ t.pos >= r2.pos /\ t.pos <= End(r1) /\ End(t) = End(r2)
      BY <1>2, <1>9, <2>2, SplitInsts
    <2> HIDE DEF s, t
    <2>4. Buffer(r) /\ Len(r) = Len(q) /\ r[i] = s /\ r[i + 1] = t
          /\ \A k \in 1..Len(q) : k # i /\ k # i + 1 => r[k] = q[k]
      <3>1. PICK Of : AreInsts(Of) /\ q \in Seq(Of)
        BY BufferIn
      <3> DEFINE All == Of \cup {s, t}
      <3>2. q \in Seq(All) /\ s \in All /\ t \in All /\ AreInsts(All)
        <4>1. q \in Seq(All)
          BY <3>1
        <4> QED
          BY <2>3, <3>1, <4>1 DEF AreInsts
      <3> HIDE DEF All
      <3>3. r \in Seq(All) /\ Len(r) = Len(q) /\ r[i] = s /\ r[i + 1] = t
            /\ \A k \in 1..Len(q) : k # i /\ k # i + 1 => r[k] = q[k]
        BY <1>1, <3>2
      <3> HIDE DEF r
      <3> QED
        BY <3>2, <3>3, BufferIn
    <2> HIDE DEF r
    <2>5. /\ r1.pos \in Nat /\ r2.pos \in Nat /\ End(r1) \in Nat /\ End(r2) \in Nat
          /\ s.pos \in Nat /\ t.pos \in Nat /\ End(s) \in Nat /\ End(t) \in Nat /\ End(s) > s.pos
      BY <1>2, <2>3, InstNumbers
    <2>6. ASSUME NEW k \in 1..(Len(r) - 1)
          PROVE  r[k].pos < r[k + 1].pos /\ End(r[k]) < End(r[k + 1]) /\ (k <= i => ~(End(r[k]) > r[k + 1].pos))
      <3>0. k \in 1..(Len(q) - 1) /\ k \in 1..Len(q) /\ k + 1 \in 1..Len(q)
        BY <2>4
      <3>1. q[k].pos < q[k + 1].pos /\ End(q[k]) < End(q[k + 1])
        BY <3>0 DEF InOrder
      <3>2. q[k].pos \in Nat /\ q[k + 1].pos \in Nat /\ End(q[k]) \in Nat /\ End(q[k + 1]) \in Nat
        BY <3>0, ElementNumbers
      <3>3. CASE k + 1 < i
        <4>1. r[k] = q[k] /\ r[k + 1] = q[k + 1] /\ k \in 1..(i - 1)
          BY <2>4, <3>0, <3>3
        <4>2. End(q[k]) <= q[k + 1].pos
          BY <1>3, <4>1
        <4> QED
          BY <3>1, <3>2, <4>1, <4>2
      <3>4. CASE k + 1 = i
        <4>1. r[k] = q[k] /\ r[k + 1] = s /\ k \in 1..(i - 1) /\ q[k + 1] = r1
          BY <2>4, <3>0, <3>4
        <4>2. End(q[k]) <= r1.pos
          BY <1>3, <4>1
        <4>3. q[k].pos < s.pos /\ End(q[k]) < End(s) /\ ~(End(q[k]) > s.pos)
          <5>1. q[k].pos < r1.pos /\ s.pos = r1.pos
            BY <2>3, <3>1, <4>1
          <5>2. \A a, e, p, f \in Nat : a < p /\ e <= p /\ f > p => a < p /\ e < f /\ ~(e > p)
            OBVIOUS
          <5>3. End(q[k]) <= s.pos
            BY <4>2, <5>1, SMT
          <5>4. q[k].pos < s.pos
            BY <5>1, SMT
          <5> QED
            BY <2>5, <3>2, <5>2, <5>3, <5>4
        <4> QED
          BY <4>1, <4>3, Zenon
      <3>5. CASE k = i
        <4>1. r[k] = s /\ r[k + 1] = t
          BY <2>4, <3>5
        <4>2. t.pos < End(t)
          BY <2>3, InstNumbers
        <4>3. s.pos < t.pos
          BY <2>3, <2>5
        <4> QED
          BY <2>3, <2>5, <4>1, <4>2, <4>3
      <3>6. CASE k = i + 1
        <4>1. r[k] = t /\ r[k + 1] = q[k + 1] /\ k + 1 = i + 2 /\ i + 2 <= Len(q) /\ q[k] = r2
          BY <2>4, <3>0, <3>6
        <4>2. q[k + 1].pos > End(r1) + 1
          BY <2>2, <4>1
        <4>3. ~(k <= i)
          BY <1>1, <3>6
        <4>4. t.pos < q[k + 1].pos /\ End(t) < End(q[k + 1])
          <5>1. End(r2) < End(q[k + 1])
            BY <3>1, <4>1
          <5>2. \A a, e, p \in Nat : a <= e /\ p > e + 1 => a < p
            OBVIOUS
          <5>3. t.pos < q[k + 1].pos
            BY <2>3, <2>5, <3>2, <4>2, <5>2
          <5> QED
            BY <2>3, <5>1, <5>3, Zenon
        <4> QED
          BY <4>1, <4>3, <4>4, Zenon
      <3>7. CASE k > i + 1
        <4>1. r[k] = q[k] /\ r[k + 1] = q[k + 1] /\ ~(k <= i)
          BY <2>4, <3>0, <3>7
        <4> QED
          BY <3>1, <4>1
      <3> QED
        BY <3>0, <1>1, <3>3, <3>4, <3>5, <3>6, <3>7
    <2>7. InOrder(r)
      BY <2>6 DEF InOrder
    <2>8. Apart(r, i)
      <3>1. ASSUME NEW k \in 1..i, k < Len(r)
            PROVE  ~(End(r[k]) > r[k + 1].pos)
        <4>1. k \in 1..(Len(r) - 1) /\ k <= i
          BY <2>4, <3>1
        <4> QED
          BY <2>6, <4>1
      <3> QED
        BY <3>1 DEF Apart, Overlapping
    <2>9. ~Undecided(q, i, FALSE) => r # <<>> /\ Last(r) = Last(q)
      <3> SUFFICES ASSUME i + 2 <= Len(q)
                   PROVE  r # <<>> /\ Last(r) = Last(q)
        BY <2>2
      <3>1. Len(q) # i /\ Len(q) # i + 1 /\ Len(q) \in 1..Len(q)
        BY <1>1
      <3> QED
        BY <2>4, <3>1 DEF Last
    <2>10. Compact(q, i).q = r /\ Compact(q, i).i = i + 1 /\ (i + 1) - 1 = i /\ i + 1 \in Nat \ {0}
      BY <2>1
    <2> QED
      BY <2>4, <2>7, <2>8, <2>9, <2>10
  <1> QED
    BY <1>4, <1>5, <1>7, <1>8, <1>9

-----------------------------------------------------------------------------
(* What the client of the encoder does *)

\* The encoder where nothing of it changes.
LEMMA UnchangedEncoder == ASSUME EncoderInvariant, UNCHANGED encVars PROVE EncoderInvariant'
  <1>1. enc' = enc /\ at' = at /\ src' = src /\ match' = match /\ hash' = hash /\ iopt' = iopt /\ sect' = sect /\ loop' = loop
    BY DEF encVars
  <1>2. EncoderTypes' /\ SourceGood' /\ MatchUnderWay'
    BY <1>1 DEF EncoderInvariant, EncoderTypes, SourceGood, MatchUnderWay, Extending
  <1>3. PlaceGood'
    BY <1>1 DEF EncoderInvariant, PlaceGood, Ready, Before, AtByte, Extending, WantsSlot, NewGood, StringHere
  <1>4. StateGood' /\ UnlimitedGood' /\ InOrder(iopt.used)'
    BY <1>1 DEF EncoderInvariant, StateGood, UnlimitedGood, AtByte, Extending, WantsSlot
  <1> QED
    BY <1>2, <1>3, <1>4 DEF EncoderInvariant

\* The client gives the encoder input.
LEMMA AvailInputKeeps ==
    ASSUME EncoderInvariant, NEW bytes \in Seq(Byte), NEW last, AvailInput(bytes, last)
    PROVE  EncoderInvariant'
  <1>1. /\ at = "client" /\ enc.ret = "INPUT" /\ enc.state = "INPUT"
        /\ enc' = [enc EXCEPT !.in = bytes, !.flush = @ \/ last, !.ret = "CALL"]
        /\ at' = at /\ src' = src /\ match' = match /\ hash' = hash /\ iopt' = iopt /\ sect' = sect /\ loop' = loop
    BY DEF AvailInput, EncoderInvariant, StateGood
  <1>2. EncType(enc')
    BY <1>1 DEF EncoderInvariant, EncoderTypes, EncType, EncFields
  <1>3. enc'.state = "INPUT" /\ enc'.pos = enc.pos /\ enc'.ret = "CALL"
    BY <1>1 DEF EncoderInvariant, EncoderTypes, EncType, EncFields
  <1>4. EncoderTypes' /\ SourceGood' /\ MatchUnderWay'
    BY <1>1, <1>2, <1>3 DEF EncoderInvariant, EncoderTypes, SourceGood, MatchUnderWay, Extending
  <1>5. PlaceGood'
    BY <1>1, <1>3 DEF EncoderInvariant, PlaceGood, AtByte, Extending, WantsSlot
  <1>6. StateGood' /\ UnlimitedGood' /\ InOrder(iopt.used)'
    BY <1>1, <1>3 DEF EncoderInvariant, StateGood, UnlimitedGood, AtByte, Extending, WantsSlot
  <1> QED
    BY <1>4, <1>5, <1>6 DEF EncoderInvariant

\* What the client's answer to a return of the encoder leaves as it is.
AnswerOnly ==
    /\ at = "client" /\ at' = at /\ match' = match /\ hash' = hash /\ iopt' = iopt /\ sect' = sect /\ loop' = loop
    /\ enc'.state = enc.state /\ enc'.pos = enc.pos /\ enc'.in = enc.in /\ enc'.minMatch = enc.minMatch
    /\ enc'.ret \in {"CALL", "WINFINISH", "OUTPUT"}

\* Such an answer keeps the invariant.
LEMMA AnswerKeeps ==
    ASSUME EncoderInvariant, AnswerOnly, EncType(enc'), SourceGood', src'.have = src.have
    PROVE  EncoderInvariant'
  <1>1. /\ at = "client" /\ at' = at /\ match' = match /\ hash' = hash /\ iopt' = iopt /\ sect' = sect /\ loop' = loop
        /\ enc'.state = enc.state /\ enc'.pos = enc.pos /\ enc'.in = enc.in /\ enc'.minMatch = enc.minMatch
        /\ enc'.ret \in {"CALL", "WINFINISH", "OUTPUT"}
    BY DEF AnswerOnly
  <1>2. EncoderTypes' /\ MatchUnderWay'
    BY <1>1 DEF EncoderInvariant, EncoderTypes, MatchUnderWay, Extending
  <1>3. PlaceGood'
    BY <1>1 DEF EncoderInvariant, PlaceGood, Ready, Before, AtByte, Extending, WantsSlot
  <1>4. StateGood' /\ UnlimitedGood' /\ InOrder(iopt.used)'
    BY <1>1 DEF EncoderInvariant, StateGood, UnlimitedGood, AtByte, Extending, WantsSlot
  <1> QED
    BY <1>2, <1>3, <1>4 DEF EncoderInvariant

\* The client takes the output.
LEMMA ConsumeOutputKeeps == ASSUME EncoderInvariant, ConsumeOutput PROVE EncoderInvariant'
  <1>1. EncType(enc)
    BY DEF EncoderInvariant, EncoderTypes
  <1>2. EncType(enc') /\ AnswerOnly
    BY <1>1 DEF EncType, EncFields, AnswerOnly, ConsumeOutput
  <1>3. SourceGood' /\ src'.have = src.have
    BY DEF EncoderInvariant, SourceGood, ConsumeOutput
  <1> QED
    BY <1>2, <1>3, AnswerKeeps

\* The client calls again.
LEMMA GoOnEncodingKeeps == ASSUME EncoderInvariant, GoOnEncoding PROVE EncoderInvariant'
  <1>1. EncType(enc)
    BY DEF EncoderInvariant, EncoderTypes
  <1>2. EncType(enc') /\ AnswerOnly
    BY <1>1 DEF EncType, EncFields, AnswerOnly, GoOnEncoding
  <1>3. SourceGood' /\ src'.have = src.have
    BY DEF EncoderInvariant, SourceGood, GoOnEncoding
  <1> QED
    BY <1>2, <1>3, AnswerKeeps

\* The client loads the block of the source it was asked for.
LEMMA SupplyBlockKeeps == ASSUME EncoderInvariant, SupplyBlock PROVE EncoderInvariant'
  <1>1. EncType(enc) /\ src.have
    BY DEF EncoderInvariant, EncoderTypes, StateGood, SupplyBlock
  <1>2. EncType(enc') /\ AnswerOnly
    BY <1>1 DEF EncType, EncFields, AnswerOnly, SupplyBlock
  <1>3. src' = [src EXCEPT !.cur = src.want, !.onblk = Len(Block(src.file, src.want))] /\ SrcType(src)
    BY DEF SupplyBlock, Supplied, EncoderInvariant, SourceGood
  <1>4. SrcType(src') /\ src'.have = src.have /\ src'.file = src.file /\ src'.max = src.max /\ src'.onlast = src.onlast
        /\ src'.base = src.base /\ src'.len = src.len
    BY <1>1, <1>3 DEF SrcType, SrcFields
  <1>5. match' = match /\ hash' = hash
    BY DEF SupplyBlock
  <1>6. SourceGood'
    BY <1>4, <1>5 DEF EncoderInvariant, SourceGood
  <1> QED
    BY <1>2, <1>4, <1>6, AnswerKeeps

\* xd3_free_stream
LEMMA EncodeFreedKeeps == ASSUME EncoderInvariant, EncodeFreed, at = "client", enc.state = "INPUT" PROVE EncoderInvariant'
  <1>1. /\ enc' = [enc EXCEPT !.ret = "FREED"] /\ match' = NoMatch /\ hash' = [small |-> <<>>, prev |-> <<>>, large |-> <<>>]
        /\ sect' = NoSections /\ loop' = NewLoop /\ src' = NoSource /\ at' = at /\ iopt' = iopt
    BY DEF EncodeFreed
  <1>2. EncType(enc) /\ iopt.used = <<>> /\ IoptType(iopt)
    BY DEF EncoderInvariant, EncoderTypes, PlaceGood
  <1>3. EncType(enc') /\ enc'.state = "INPUT" /\ enc'.ret = "FREED"
    BY <1>1, <1>2 DEF EncType, EncFields
  <1>4. MatchType(match') /\ match'.state = "TARGET"
    BY <1>1 DEF MatchType, MatchFields, NoMatch
  <1>5. HashType(hash') /\ SectType(sect') /\ sect'.unenc = 0 /\ LoopType(loop')
    BY <1>1 DEF HashType, SectType, NoSections, LoopType, NewLoop
  <1>6. SourceGood'
    BY <1>1 DEF SourceGood, NoSource, SrcType
  <1>7. MatchUnderWay'
    BY <1>4 DEF MatchUnderWay
  <1>8. PlaceGood'
    BY <1>1, <1>2, <1>3 DEF PlaceGood, AtByte, Extending, WantsSlot
  <1>9. StateGood' /\ UnlimitedGood' /\ InOrder(iopt.used)'
    BY <1>1, <1>3, <1>5 DEF EncoderInvariant, StateGood, UnlimitedGood, AtByte, Extending, WantsSlot
  <1> QED
    BY <1>1, <1>2, <1>3, <1>4, <1>5, <1>6, <1>7, <1>8, <1>9 DEF EncoderInvariant, EncoderTypes

\* The encoder begins with nothing to encode.
LEMMA EncodeInitType ==
    ASSUME NEW file \in Seq(Byte), NEW there \in BOOLEAN, NEW slots \in Nat, EncodeInit(Opened(file, there), slots)
    PROVE  EncoderInvariant
  <1>1. /\ enc = [state |-> "INPUT", flush |-> FALSE, in |-> <<>>, buf |-> <<>>, left |-> <<>>,
              out |-> <<>>, ret |-> "INPUT", pos |-> 0, total |-> 0, window |-> 0, minMatch |-> MinMatch]
        /\ at = "client" /\ src = Opened(file, there) /\ match = NoMatch
        /\ hash = [small |-> <<>>, prev |-> <<>>, large |-> <<>>]
        /\ iopt = [used |-> <<>>, slots |-> slots, force |-> FALSE, i |-> 1, flushed |-> 0]
        /\ sect = NoSections /\ loop = NewLoop
    BY DEF EncodeInit
  <1>2. EncType(enc) /\ enc.state = "INPUT" /\ enc.ret = "INPUT"
    BY <1>1 DEF EncType, EncFields, MinMatch
  <1>3. MatchType(match) /\ match.state = "TARGET" /\ match.srcpos = 0 /\ match.cksum = 0
    BY <1>1 DEF MatchType, MatchFields, NoMatch
  <1>4. HashType(hash) /\ hash.large = <<>> /\ SectType(sect) /\ sect.unenc = 0 /\ LoopType(loop)
    BY <1>1 DEF HashType, SectType, NoSections, LoopType, NewLoop
  <1>5. IoptType(iopt) /\ iopt.used = <<>>
    BY <1>1 DEF IoptType, Buffer, AreInsts
  <1>6. SourceGood
    <2>1. SrcType(src)
      BY <1>1, NewSourceType
    <2>2. src.have => /\ src.max = 0 /\ src.onlast = 0 /\ src.base = 0 /\ src.len = 0
                      /\ src.file = file
      BY <1>1 DEF Opened, NewSource, NoSource
    <2>3. src.have => src.max * BlkSize <= match.cksum
      BY <1>3, <2>2, SourceAssumption
    <2> QED
      BY <1>3, <1>4, <2>1, <2>2, <2>3 DEF SourceGood
  <1>7. MatchUnderWay
    BY <1>3 DEF MatchUnderWay
  <1>8. PlaceGood
    BY <1>1, <1>2, <1>5 DEF PlaceGood, AtByte, Extending, WantsSlot
  <1>9. StateGood /\ UnlimitedGood /\ InOrder(iopt.used)
    BY <1>1, <1>2, <1>4, <1>5 DEF StateGood, UnlimitedGood, AtByte, Extending, WantsSlot, InOrder
  <1> QED
    BY <1>2, <1>3, <1>4, <1>5, <1>6, <1>7, <1>8, <1>9 DEF EncoderInvariant, EncoderTypes

-----------------------------------------------------------------------------
(* Windows, and output *)

\* What the invariant says of the buffer and of the place in the window.
LEMMA EncoderFields ==
    ASSUME EncoderInvariant
    PROVE  /\ EncType(enc) /\ MatchType(match) /\ LoopType(loop) /\ SectType(sect) /\ IoptType(iopt) /\ HashType(hash)
           /\ SourceGood /\ MatchUnderWay /\ PlaceGood /\ StateGood /\ UnlimitedGood
           /\ Buffer(iopt.used) /\ InOrder(iopt.used) /\ LastMatched(iopt.used) \in Nat
           /\ enc.pos \in Nat /\ enc.in \in Seq(Byte) /\ Len(enc.in) \in Nat /\ enc.minMatch \in Nat /\ enc.minMatch >= 4
  <1>1. EncType(enc) /\ IoptType(iopt)
    BY DEF EncoderInvariant, EncoderTypes
  <1>2. Buffer(iopt.used) /\ enc.in \in Seq(Byte) /\ enc.pos \in Nat /\ enc.minMatch \in Nat /\ enc.minMatch >= 4
    BY <1>1 DEF IoptType, EncType, MinMatch
  <1>3. LastMatched(iopt.used) \in Nat
    BY <1>2, LastMatchedType
  <1> QED
    BY <1>2, <1>3 DEF EncoderInvariant, EncoderTypes

\* A window of the input begins.
LEMMA StartWindowKeeps == ASSUME EncoderInvariant, StartWindow PROVE EncoderInvariant'
  <1> DEFINE kept == enc.left \o enc.buf
             all == kept \o enc.in
             size == IF kept = <<>> THEN Len(all) ELSE SmallerOf(WinSize, Len(all))
  <1>1. /\ at = "client" /\ enc.ret = "CALL" /\ enc.state = "INPUT"
        /\ at' = at /\ src' = src /\ match' = match /\ hash' = hash /\ iopt' = iopt /\ loop' = loop
        /\ \/ /\ enc' = [enc EXCEPT !.in = SubSeq(all, 1, size), !.left = SubSeq(all, size + 1, Len(all)),
                                    !.buf = <<>>, !.pos = 0, !.minMatch = MinMatch,
                                    !.state = "SEARCH", !.ret = "WINSTART"]
              /\ sect' = NoSections
           \/ /\ enc' = [enc EXCEPT !.buf = all, !.left = <<>>, !.in = <<>>, !.ret = "INPUT"]
              /\ sect' = sect
    BY DEF StartWindow, Called
  <1>2. EncType(enc) /\ MatchUnderWay /\ PlaceGood /\ iopt.used = <<>>
    BY <1>1, EncoderFields DEF PlaceGood
  <1>3. all \in Seq(Byte) /\ size \in 0..Len(all)
    <2>1. kept \in Seq(Byte) /\ enc.in \in Seq(Byte)
      BY <1>2 DEF EncType
    <2> HIDE DEF kept
    <2>2. all \in Seq(Byte) /\ Len(all) \in Nat
      BY <2>1
    <2> HIDE DEF all
    <2>3. WinSize \in Nat
      BY EncodeAssumption
    <2> QED
      BY <2>2, <2>3 DEF SmallerOf
  <1> HIDE DEF all, size
  <1>4. SubSeq(all, 1, size) \in Seq(Byte) /\ SubSeq(all, size + 1, Len(all)) \in Seq(Byte)
    BY <1>3
  <1>5. match'.state \notin {"FORWARD", "BACKWARD"}
    BY <1>1, <1>2 DEF MatchUnderWay, Extending
  <1>6. SourceGood' /\ InOrder(iopt.used)' /\ MatchType(match') /\ HashType(hash') /\ LoopType(loop') /\ IoptType(iopt')
        /\ MatchUnderWay' /\ SectType(sect)
    BY <1>1, <1>5, EncoderFields DEF SourceGood, MatchUnderWay
  <1>7. CASE /\ enc' = [enc EXCEPT !.in = SubSeq(all, 1, size), !.left = SubSeq(all, size + 1, Len(all)),
                                    !.buf = <<>>, !.pos = 0, !.minMatch = MinMatch,
                                    !.state = "SEARCH", !.ret = "WINSTART"]
             /\ sect' = NoSections
    <2>1. EncType(enc') /\ enc'.state = "SEARCH" /\ enc'.ret = "WINSTART" /\ enc'.pos = 0 /\ enc'.minMatch = 4
      BY <1>2, <1>4, <1>7 DEF EncType, EncFields, MinMatch
    <2>2. SectType(sect') /\ sect'.unenc = 0
      BY <1>7 DEF SectType, NoSections
    <2>3. Ready(enc.pos)'
      BY <1>1, <1>2, <2>1 DEF Ready, Before, LastMatched
    <2>4. PlaceGood'
      BY <1>1, <2>1, <2>3 DEF PlaceGood, AtByte, Extending, WantsSlot
    <2>5. StateGood' /\ UnlimitedGood'
      BY <1>1, <2>1, <2>2 DEF StateGood, UnlimitedGood, AtByte, Extending, WantsSlot
    <2> QED
      BY <1>6, <2>1, <2>2, <2>4, <2>5 DEF EncoderInvariant, EncoderTypes
  <1>8. CASE /\ enc' = [enc EXCEPT !.buf = all, !.left = <<>>, !.in = <<>>, !.ret = "INPUT"]
             /\ sect' = sect
    <2>1. EncType(enc') /\ enc'.state = "INPUT" /\ enc'.ret = "INPUT"
      BY <1>1, <1>2, <1>3, <1>8 DEF EncType, EncFields
    <2>2. PlaceGood'
      BY <1>1, <1>2, <2>1 DEF PlaceGood, AtByte, Extending, WantsSlot
    <2>3. StateGood' /\ UnlimitedGood'
      BY <1>1, <1>8, <2>1, EncoderFields DEF StateGood, UnlimitedGood, AtByte, Extending, WantsSlot
    <2> QED
      BY <1>6, <1>8, <2>1, <2>2, <2>3 DEF EncoderInvariant, EncoderTypes
  <1> QED
    BY <1>1, <1>7, <1>8

\* The sections go out, page by page.
LEMMA EmitHeaderKeeps == ASSUME EncoderInvariant, EmitHeader PROVE EncoderInvariant'
  <1>1. /\ at = "header" /\ at' = "client" /\ src' = src /\ match' = match /\ hash' = hash /\ iopt' = iopt /\ sect' = sect /\ loop' = loop
        /\ \E pages : enc' = [enc EXCEPT !.out = pages, !.state = "POSTOUT", !.ret = "OUTPUT"]
    BY DEF EmitHeader
  <1>2. EncType(enc') /\ enc'.state = "POSTOUT" /\ enc'.ret = "OUTPUT"
    BY <1>1, EncoderFields DEF EncType, EncFields
  <1>3. match.state \notin {"FORWARD", "BACKWARD"} /\ iopt.used = <<>>
    BY <1>1, EncoderFields DEF MatchUnderWay, Extending, PlaceGood
  <1>4. SourceGood' /\ InOrder(iopt.used)' /\ EncoderTypes' /\ MatchUnderWay'
    BY <1>1, <1>2, <1>3, EncoderFields DEF EncoderTypes, SourceGood, MatchUnderWay
  <1>5. PlaceGood'
    BY <1>1, <1>2, <1>3 DEF PlaceGood, AtByte, Extending, WantsSlot
  <1>6. StateGood' /\ UnlimitedGood'
    BY <1>1, <1>2, EncoderFields DEF StateGood, UnlimitedGood, AtByte, Extending, WantsSlot
  <1> QED
    BY <1>4, <1>5, <1>6 DEF EncoderInvariant

\* The next page, or the end of the window.
LEMMA PostOutKeeps == ASSUME EncoderInvariant, PostOut PROVE EncoderInvariant'
  <1>1. /\ at = "client" /\ enc.state = "POSTOUT" /\ at' = at /\ src' = src /\ match' = match /\ hash' = hash
        /\ iopt' = iopt /\ sect' = sect /\ loop' = loop
        /\ \/ enc' = [enc EXCEPT !.ret = "OUTPUT"]
           \/ enc' = [enc EXCEPT !.ret = "WINFINISH", !.total = @ + Len(enc.in), !.state = "POSTWIN"]
    BY DEF PostOut, Called
  <1>2. EncType(enc') /\ enc'.state \in {"POSTOUT", "POSTWIN"} /\ enc'.ret \in {"OUTPUT", "WINFINISH"}
    <2>1. EncType(enc)
      BY EncoderFields
    <2>2. enc.total + Len(enc.in) \in Nat
      BY <2>1 DEF EncType
    <2> QED
      BY <1>1, <2>1, <2>2 DEF EncType, EncFields
  <1>3. match.state \notin {"FORWARD", "BACKWARD"} /\ iopt.used = <<>>
    BY <1>1, EncoderFields DEF MatchUnderWay, Extending, PlaceGood
  <1>4. SourceGood' /\ InOrder(iopt.used)' /\ EncoderTypes' /\ MatchUnderWay'
    BY <1>1, <1>2, <1>3, EncoderFields DEF EncoderTypes, SourceGood, MatchUnderWay
  <1>5. PlaceGood'
    BY <1>1, <1>2, <1>3 DEF PlaceGood, AtByte, Extending, WantsSlot
  <1>6. StateGood' /\ UnlimitedGood'
    BY <1>1, <1>2, EncoderFields DEF StateGood, UnlimitedGood, AtByte, Extending, WantsSlot
  <1> QED
    BY <1>4, <1>5, <1>6 DEF EncoderInvariant

\* xd3_encode_reset
LEMMA PostWinKeeps == ASSUME EncoderInvariant, PostWin PROVE EncoderInvariant'
  <1>1. /\ at = "client" /\ enc.state = "POSTWIN" /\ at' = at /\ iopt' = iopt /\ sect' = sect /\ loop' = loop
        /\ enc' = [enc EXCEPT !.in = <<>>, !.state = "INPUT", !.window = @ + 1,
                              !.ret = IF enc.left = <<>> THEN "INPUT" ELSE "CALL"]
        /\ src' = IF src.have THEN [src EXCEPT !.base = 0, !.len = 0] ELSE src
        /\ match' = [match EXCEPT !.decided = FALSE, !.min = 0, !.max = 0]
        /\ hash' = [hash EXCEPT !.small = <<>>]
    BY DEF PostWin, Called
  <1>2. EncType(enc') /\ enc'.state = "INPUT" /\ enc'.ret \in {"INPUT", "CALL"}
    BY <1>1, EncoderFields DEF EncType, EncFields
  <1>3. match.state \notin {"FORWARD", "BACKWARD"} /\ iopt.used = <<>>
    BY <1>1, EncoderFields DEF MatchUnderWay, Extending, PlaceGood
  <1>4. /\ MatchType(match') /\ match'.state = match.state /\ match'.srcpos = match.srcpos /\ match'.fwd = match.fwd
        /\ match'.cksum = match.cksum
    BY <1>1, EncoderFields DEF MatchType, MatchFields
  <1>5. HashType(hash') /\ hash'.large = hash.large
    BY <1>1, EncoderFields DEF HashType
  <1>6. SourceGood'
    <2>1. CASE ~src.have
      BY <1>1, <2>1, EncoderFields DEF SourceGood, SrcType
    <2>2. CASE src.have
      <3>1. SrcType(src) /\ src' = [src EXCEPT !.base = 0, !.len = 0]
        BY <1>1, <2>2, EncoderFields DEF SourceGood
      <3>2. SrcType(src') /\ src'.have = src.have /\ src'.file = src.file /\ src'.max = src.max /\ src'.onlast = src.onlast
            /\ src'.base = 0 /\ src'.len = 0
        BY <2>2, <3>1 DEF SrcType, SrcFields
      <3> QED
        BY <1>4, <1>5, <3>2, EncoderFields DEF SourceGood
    <2> QED
      BY <2>1, <2>2
  <1>7. InOrder(iopt.used)' /\ EncoderTypes' /\ MatchUnderWay'
    BY <1>1, <1>2, <1>3, <1>4, <1>5, EncoderFields DEF EncoderTypes, MatchUnderWay
  <1>8. PlaceGood'
    BY <1>1, <1>2, <1>3 DEF PlaceGood, AtByte, Extending, WantsSlot
  <1>9. StateGood' /\ UnlimitedGood'
    BY <1>1, <1>2, EncoderFields DEF StateGood, UnlimitedGood, AtByte, Extending, WantsSlot
  <1> QED
    BY <1>6, <1>7, <1>8, <1>9 DEF EncoderInvariant

-----------------------------------------------------------------------------
(* Source matches *)

\* A match is set up, or is not worth it.
LEMMA MatchSetupType ==
    ASSUME EncoderInvariant, src.have, NEW srcpos \in Nat
    PROVE  /\ MatchType(MatchSetup(srcpos))
           /\ MatchSetup(srcpos).state \in {"SEARCHING", "BACKWARD"}
           /\ MatchSetup(srcpos).fwd = 0 /\ MatchSetup(srcpos).back = 0 /\ MatchSetup(srcpos).maxback <= enc.pos
           /\ MatchSetup(srcpos).cksum = match.cksum
           /\ MatchSetup(srcpos).srcpos \in {srcpos, match.srcpos}
  <1>1. MatchType(match) /\ SourceGood /\ SectType(sect) /\ enc.pos \in Nat /\ Len(enc.in) \in Nat
    BY EncoderFields
  <1> DEFINE low == IF match.decided THEN src.base ELSE 0
             high == IF match.decided THEN src.base + src.len
                     ELSE IF src.eof THEN SourceEof(src) ELSE Unlimited
  <1>2. low \in Nat
    BY <1>1 DEF SourceGood
  <1>3. high \in Int
    <2>1. Unlimited \in Int
      <3>1. Word \in Nat
        BY WordAssumption
      <3>2. \A w \in Nat : w \div 2 \in Int
        OBVIOUS
      <3> QED
        BY <3>1, <3>2 DEF Unlimited
    <2>2. SourceEof(src) \in Int
      <3>1. src.max \in Nat /\ src.onlast \in Nat /\ BlkSize \in Nat
        BY <1>1, SourceAssumption DEF SourceGood
      <3> QED
        BY <3>1 DEF SourceEof
    <2>3. src.base + src.len \in Int
      BY <1>1 DEF SourceGood
    <2> QED
      BY <2>1, <2>2, <2>3
  <1> DEFINE no == [match EXCEPT !.state = "SEARCHING", !.last = srcpos,
                           !.back = 0, !.fwd = 0, !.maxback = 0, !.maxfwd = 0]
             mb == SmallerOf(enc.pos - sect.unenc, srcpos - low)
             mf == SmallerOf(Len(enc.in) - enc.pos, high - srcpos)
             yes == [match EXCEPT !.state = "BACKWARD", !.srcpos = srcpos, !.last = srcpos,
                           !.back = 0, !.fwd = 0, !.maxback = mb, !.maxfwd = mf]
  <1>4. MatchSetup(srcpos) = no \/ MatchSetup(srcpos) = yes
    <2>1. CASE Rejected(srcpos)
      BY <2>1, Zenon DEF MatchSetup
    <2>2. CASE ~Rejected(srcpos)
      BY <2>2, Zenon DEF MatchSetup
    <2> QED
      BY <2>1, <2>2
  <1> HIDE DEF low, high
  <1>5. mb \in Int /\ mf \in Int /\ mb <= srcpos /\ mb <= enc.pos
    BY <1>1, <1>2, <1>3 DEF SmallerOf, SectType
  <1> HIDE DEF mb, mf
  <1>6. CASE MatchSetup(srcpos) = no
    BY <1>1, <1>6 DEF MatchType, MatchFields
  <1>7. CASE MatchSetup(srcpos) = yes
    BY <1>1, <1>5, <1>7 DEF MatchType, MatchFields
  <1> QED
    BY <1>4, <1>6, <1>7

\* The reentrant part of ENC_SEARCH
LEMMA SearchKeeps == ASSUME EncoderInvariant, Search PROVE EncoderInvariant'
  <1>1. /\ at = "client" /\ enc.state = "SEARCH" /\ enc.ret = "CALL" /\ loop' = NewLoop
        /\ enc' = enc /\ src' = src /\ hash' = hash /\ iopt' = iopt /\ sect' = sect
    BY DEF Search, Called
  <1>2. Ready(enc.pos)
    BY <1>1, EncoderFields DEF PlaceGood
  <1>3. LoopType(loop') /\ loop'.then = "client"
    BY <1>1 DEF LoopType, NewLoop
  <1>4. iopt.slots = 0 => sect.unenc = 0
    BY <1>1, EncoderFields DEF UnlimitedGood
  <1>5. ASSUME MatchType(match'), match'.cksum = match.cksum, match'.srcpos = match.srcpos,
               src.have /\ match'.state \in {"FORWARD", "BACKWARD"} => match'.srcpos + match'.fwd <= Len(src.file)
        PROVE  EncoderTypes' /\ SourceGood' /\ InOrder(iopt.used)'
    BY <1>1, <1>3, <1>5, EncoderFields DEF EncoderTypes, SourceGood
  <1>6. CASE ~src.have \/ Len(enc.in) = 0
    <2>1. /\ match' = IF src.have /\ match.state = "TARGET"
                        THEN [match EXCEPT !.state = "SEARCHING", !.fwd = 0] ELSE match
          /\ at' \in {"instr", "restart"}
      BY <1>6 DEF Search
    <2>2. match.state \notin {"FORWARD", "BACKWARD"}
      BY <1>6, EncoderFields DEF MatchUnderWay
    <2>3. MatchType(match') /\ match'.cksum = match.cksum /\ match'.srcpos = match.srcpos
          /\ match'.state \notin {"FORWARD", "BACKWARD"}
      BY <2>1, <2>2, EncoderFields DEF MatchType, MatchFields
    <2>4. PlaceGood'
      BY <1>1, <1>2, <2>1 DEF PlaceGood, AtByte, Extending, WantsSlot, Ready, Before
    <2>5. StateGood' /\ UnlimitedGood' /\ MatchUnderWay'
      BY <1>1, <1>4, <2>1, <2>3 DEF StateGood, UnlimitedGood, AtByte, Extending, WantsSlot, MatchUnderWay
    <2> QED
      BY <1>5, <2>3, <2>4, <2>5 DEF EncoderInvariant
  <1>7. ASSUME src.have, Len(enc.in) # 0, match.state = "TARGET" \/ match.state \in {"FORWARD", "BACKWARD"},
               at' = "extend", match' = match \/ match' = [MatchSetup(match.srcpos) EXCEPT !.state = "FORWARD"],
               match' = match => match.state \in {"FORWARD", "BACKWARD"}
        PROVE  EncoderInvariant'
    <2>1. MatchType(match) /\ SourceGood /\ MatchUnderWay
      BY EncoderFields
    <2> DEFINE m == MatchSetup(match.srcpos)
    <2>2. MatchType(m) /\ m.fwd = 0 /\ m.back = 0 /\ m.maxback <= enc.pos /\ m.cksum = match.cksum /\ m.srcpos = match.srcpos
      <3>1. match.srcpos \in Nat
        BY <2>1 DEF MatchType
      <3> QED
        BY <1>7, <3>1, MatchSetupType
    <2> HIDE DEF m
    <2>3. CASE match' = [m EXCEPT !.state = "FORWARD"]
      <3>1. /\ MatchType(match') /\ match'.state = "FORWARD" /\ match'.cksum = match.cksum /\ match'.srcpos = match.srcpos
            /\ match'.fwd = 0 /\ match'.back = 0 /\ match'.maxback <= enc.pos
        BY <2>2, <2>3 DEF MatchType, MatchFields
      <3>2. src.have => match'.srcpos + match'.fwd <= Len(src.file)
        <4>1. match.srcpos \in Nat /\ match.srcpos <= Len(src.file)
          BY <1>7, <2>1 DEF SourceGood, MatchType
        <4> QED
          BY <3>1, <4>1
      <3>3. MatchUnderWay'
        <4>1. enc.in # <<>> /\ enc.pos \in Nat
          BY <1>7, EncoderFields
        <4> QED
          BY <1>1, <1>7, <3>1, <4>1 DEF MatchUnderWay, Extending
      <3>4. PlaceGood'
        BY <1>1, <1>2, <1>3, <1>7, <3>1 DEF PlaceGood, AtByte, Extending, WantsSlot, Ready, Before
      <3>5. StateGood' /\ UnlimitedGood'
        BY <1>1, <1>4, <1>7 DEF StateGood, UnlimitedGood, AtByte, Extending, WantsSlot
      <3> QED
        BY <1>5, <3>1, <3>2, <3>3, <3>4, <3>5 DEF EncoderInvariant
    <2>4. CASE match' = match
      <3>1. match.state \in {"FORWARD", "BACKWARD"}
        BY <1>7, <2>4
      <3>2. src.have => match'.srcpos + match'.fwd <= Len(src.file)
        BY <1>7, <2>1, <2>4, <3>1 DEF SourceGood
      <3>3. MatchUnderWay'
        BY <1>1, <1>7, <2>1, <2>4, <3>1 DEF MatchUnderWay, Extending
      <3>4. PlaceGood'
        BY <1>1, <1>2, <1>3, <1>7, <2>4, <3>1 DEF PlaceGood, AtByte, Extending, WantsSlot, Ready, Before
      <3>5. StateGood' /\ UnlimitedGood'
        BY <1>1, <1>4, <1>7 DEF StateGood, UnlimitedGood, AtByte, Extending, WantsSlot
      <3> QED
        BY <1>5, <2>1, <2>4, <3>2, <3>3, <3>4, <3>5 DEF EncoderInvariant
    <2> QED
      BY <1>7, <2>3, <2>4 DEF m
  <1>8. CASE src.have /\ Len(enc.in) # 0
    <2>1. \/ /\ match.state = "TARGET"
             /\ match' = [MatchSetup(match.srcpos) EXCEPT !.state = "FORWARD"]
             /\ at' = "extend"
          \/ match.state \in {"FORWARD", "BACKWARD"} /\ at' = "extend" /\ match' = match
          \/ match.state = "SEARCHING" /\ at' = "restart" /\ match' = match
      BY <1>8 DEF Search
    <2>2. CASE match.state = "SEARCHING" /\ at' = "restart" /\ match' = match
      <3>1. PlaceGood'
        BY <1>1, <1>2, <2>2 DEF PlaceGood, AtByte, Extending, WantsSlot, Ready, Before
      <3>2. StateGood' /\ UnlimitedGood' /\ MatchUnderWay'
        BY <1>1, <1>4, <2>2 DEF StateGood, UnlimitedGood, AtByte, Extending, WantsSlot, MatchUnderWay
      <3> QED
        BY <1>5, <2>2, <3>1, <3>2, EncoderFields DEF EncoderInvariant
    <2>3. CASE match.state \in {"FORWARD", "BACKWARD"} /\ at' = "extend" /\ match' = match
      BY <1>7, <1>8, <2>3
    <2>4. CASE /\ match.state = "TARGET"
               /\ match' = [MatchSetup(match.srcpos) EXCEPT !.state = "FORWARD"]
               /\ at' = "extend"
      <3>1. match'.state = "FORWARD"
        <4>1. MatchType(MatchSetup(match.srcpos))
          BY <1>8, EncoderFields, MatchSetupType DEF MatchType
        <4> QED
          BY <2>4, <4>1 DEF MatchType, MatchFields
      <3> QED
        BY <1>7, <1>8, <2>4, <3>1
    <2> QED
      BY <2>1, <2>2, <2>3, <2>4
  <1> QED
    BY <1>6, <1>8, EncoderFields

\* A place in the source, and the block it is in.
LEMMA PlaceInBlock ==
    ASSUME NEW x \in Nat
    PROVE  \E n, from, off \in Nat : /\ n = x \div BlkSize /\ from = n * BlkSize /\ off = x % BlkSize
                                     /\ off < BlkSize /\ x = from + off /\ (n + 1) * BlkSize = from + BlkSize
  <1>1. BlkSize \in Nat \ {0}
    BY SourceAssumption
  <1>2. PICK off \in Nat : off = x % BlkSize /\ off < BlkSize
    <2>1. \A w \in Nat \ {0} : x % w \in Nat /\ x % w < w
      OBVIOUS
    <2> QED
      BY <1>1, <2>1
  <1>3. PICK n \in Nat : n = x \div BlkSize
    <2>1. \A w \in Nat \ {0} : x \div w \in Nat
      OBVIOUS
    <2> QED
      BY <1>1, <2>1
  <1>4. PICK from \in Nat : from = n * BlkSize
    BY <1>1
  <1>5. x = from + off
    <2>1. \A w \in Nat \ {0} : x = ((x \div w) * w) + (x % w)
      OBVIOUS
    <2>2. x = ((x \div BlkSize) * BlkSize) + (x % BlkSize)
      BY <1>1, <2>1
    <2> QED
      BY <1>2, <1>3, <1>4, <2>2
  <1>6. (n + 1) * BlkSize = from + BlkSize
    BY <1>1, <1>4
  <1> QED
    BY <1>2, <1>3, <1>4, <1>5, <1>6

\* The length of a part of a file.
LEMMA PartLength ==
    ASSUME NEW file \in Seq(Byte), NEW from \in Nat, NEW to \in Nat, to <= Len(file)
    PROVE  \E on \in Nat : on = Len(SubSeq(file, from + 1, to)) /\ on = IF from + 1 <= to THEN to - from ELSE 0
  <1>1. from + 1 \in 1..(Len(file) + 1) \/ from + 1 > to
    OBVIOUS
  <1>2. Len(SubSeq(file, from + 1, to)) = IF from + 1 <= to THEN to - from ELSE 0
    BY <1>1
  <1>3. (IF from + 1 <= to THEN to - from ELSE 0) \in Nat
    OBVIOUS
  <1> QED
    BY <1>2, <1>3, Zenon

\* The block of a place in the source has what is there up to this place.
LEMMA BlockReaches ==
    ASSUME NEW file \in Seq(Byte), NEW x \in Nat, x <= Len(file)
    PROVE  \E n, from, on \in Nat : /\ n = x \div BlkSize /\ from = n * BlkSize /\ on = Len(Block(file, n))
                                    /\ from <= x /\ x <= from + on /\ from + on <= Len(file)
  <1>1. PICK n, from, off \in Nat : /\ n = x \div BlkSize /\ from = n * BlkSize
                                    /\ off < BlkSize /\ x = from + off /\ (n + 1) * BlkSize = from + BlkSize
    BY PlaceInBlock
  <1>2. BlkSize \in Nat \ {0}
    BY SourceAssumption
  <1> DEFINE to == SmallerOf(from + BlkSize, Len(file))
  <1>3. Block(file, n) = SubSeq(file, from + 1, to)
    BY <1>1, Zenon DEF Block
  <1>4. to \in Nat /\ to <= Len(file) /\ x <= to /\ (to = from + BlkSize \/ to = Len(file))
    BY <1>1, <1>2 DEF SmallerOf
  <1> HIDE DEF to
  <1>6. PICK on \in Nat : on = Len(Block(file, n)) /\ on = IF from + 1 <= to THEN to - from ELSE 0
    <2>1. from \in Nat
      BY <1>1
    <2>2. \E on \in Nat : on = Len(SubSeq(file, from + 1, to)) /\ on = IF from + 1 <= to THEN to - from ELSE 0
      BY <1>4, <2>1, PartLength, Zenon
    <2> QED
      BY <1>3, <2>2, Zenon
  <1>7. from <= x /\ x <= from + on /\ from + on <= Len(file)
    <2>1. from \in Nat /\ off \in Nat /\ x = from + off /\ on \in Nat /\ Len(file) \in Nat
      BY <1>1, <1>6
    <2>2. CASE from + 1 <= to
      <3>1. on = to - from
        BY <1>6, <2>2
      <3> QED
        BY <1>4, <2>1, <2>2, <3>1
    <2>3. CASE ~(from + 1 <= to)
      <3>1. on = 0
        BY <1>6, <2>3
      <3>2. Len(file) <= from
        BY <1>2, <1>4, <2>1, <2>3
      <3> QED
        BY <2>1, <3>1, <3>2
    <2> QED
      BY <2>2, <2>3
  <1> QED
    BY <1>1, <1>6, <1>7

\* What is found out about the source by a look at block n.
LEMMA GotSource ==
    ASSUME NEW s, SrcType(s), s.have, s.max \in Nat, s.onlast \in Nat, NEW n \in Nat
    PROVE  /\ SrcType(Got(s, n)) /\ Got(s, n).have = s.have /\ Got(s, n).file = s.file /\ Got(s, n).onblk = s.onblk
           /\ Got(s, n).cur = s.cur /\ Got(s, n).base = s.base /\ Got(s, n).len = s.len
           /\ Got(s, n).max \in Nat /\ Got(s, n).onlast \in Nat
           /\ Got(s, n).max = IF s.max > n THEN s.max ELSE n
           /\ n >= s.max => Got(s, n).onlast = s.onblk
  <1>1. s.onblk \in Nat
    <2>1. PICK from \in Nat : Len(Block(s.file, s.cur)) \in 0..BlkSize
      BY BlockLength DEF SrcType
    <2>2. BlkSize \in Nat
      BY SourceAssumption
    <2> QED
      BY <2>1, <2>2 DEF SrcType
  <1> QED
    BY <1>1 DEF SrcType, SrcFields, Got, LargerOf

\* The call asks for a block, and returns.
LEMMA AskForKeeps ==
    ASSUME EncoderInvariant, NEW n \in Nat, AskFor(n), at \in {"extend", "move"}
    PROVE  EncoderInvariant'
  <1>1. /\ src' = Want(src, n) /\ at' = "client" /\ enc' = [enc EXCEPT !.ret = "GETSRCBLK"]
        /\ match' = match /\ hash' = hash /\ iopt' = iopt /\ sect' = sect /\ loop' = loop
    BY DEF AskFor, Return
  <1>2. src.have /\ Ready(enc.pos) /\ enc.state = "SEARCH" /\ SrcType(src)
    BY EncoderFields DEF PlaceGood, AtByte, Extending, StateGood, SourceGood
  <1>3. EncType(enc') /\ enc'.state = "SEARCH" /\ enc'.ret = "GETSRCBLK" /\ enc'.pos = enc.pos /\ enc'.in = enc.in
        /\ enc'.minMatch = enc.minMatch
    BY <1>1, <1>2, EncoderFields DEF EncType, EncFields
  <1>4. SrcType(src') /\ src'.have = src.have /\ src'.file = src.file /\ src'.max = src.max /\ src'.onlast = src.onlast
        /\ src'.base = src.base /\ src'.len = src.len
    BY <1>1, <1>2 DEF SrcType, SrcFields, Want
  <1>5. EncoderTypes' /\ SourceGood' /\ InOrder(iopt.used)'
    BY <1>1, <1>3, <1>4, EncoderFields DEF EncoderTypes, SourceGood
  <1>6. MatchUnderWay'
    BY <1>1, <1>3, <1>4, EncoderFields DEF MatchUnderWay
  <1>7. PlaceGood'
    BY <1>1, <1>2, <1>3 DEF PlaceGood, AtByte, Extending, WantsSlot, Ready, Before
  <1>8. StateGood' /\ UnlimitedGood'
    BY <1>1, <1>2, <1>3, <1>4, EncoderFields DEF StateGood, UnlimitedGood, AtByte, Extending, WantsSlot
  <1> QED
    BY <1>5, <1>6, <1>7, <1>8 DEF EncoderInvariant

\* The match grows by what there is of one block.
LEMMA GrownKeeps ==
    ASSUME EncoderInvariant, at = "extend", at' \in {"extend", "extended"},
           enc' = enc, hash' = hash, iopt' = iopt, sect' = sect, loop' = loop,
           SrcType(src'), src'.have, src'.file = src.file, src'.max \in Nat, src'.onlast \in Nat,
           src'.base = src.base, src'.len = src.len,
           src'.max = src.max \/ src'.max * BlkSize <= Len(src.file),
           MatchType(match'), match'.cksum = match.cksum, match'.srcpos = match.srcpos,
           match'.state \in {"FORWARD", "BACKWARD"}, match'.srcpos + match'.fwd <= Len(src.file),
           match'.back <= enc.pos, match'.maxback <= enc.pos
    PROVE  EncoderInvariant'
  <1>1. src.have /\ Ready(enc.pos) /\ enc.state = "SEARCH" /\ (loop.then = "loop" => StringHere) /\ enc.in # <<>>
        /\ SourceGood
    BY EncoderFields DEF PlaceGood, Extending, StateGood, MatchUnderWay
  <1>2. EncoderTypes' /\ InOrder(iopt.used)'
    BY EncoderFields DEF EncoderTypes
  <1>3. SourceGood'
    BY <1>1 DEF SourceGood
  <1>4. MatchUnderWay'
    BY <1>1 DEF MatchUnderWay, Extending
  <1>5. PlaceGood'
    BY <1>1 DEF PlaceGood, AtByte, Extending, WantsSlot, Ready, Before, StringHere
  <1>6. StateGood' /\ UnlimitedGood'
    BY <1>1, EncoderFields DEF StateGood, UnlimitedGood, AtByte, Extending, WantsSlot
  <1> QED
    BY <1>2, <1>3, <1>4, <1>5, <1>6 DEF EncoderInvariant

\* A match grows backward.
LEMMA ExtendBackKeeps == ASSUME EncoderInvariant, ExtendBack PROVE EncoderInvariant'
  <1>1. /\ at = "extend" /\ match.state = "BACKWARD" /\ SourceGood /\ MatchType(match) /\ src.have /\ SrcType(src)
        /\ match.srcpos + match.fwd <= Len(src.file) /\ match.back <= enc.pos /\ match.maxback <= enc.pos
        /\ src.max \in Nat /\ src.onlast \in Nat
    BY EncoderFields DEF ExtendBack, SourceGood, PlaceGood, Extending, MatchUnderWay
  <1>2. PICK sp, bk, fw \in Nat, mb \in Int :
          sp = match.srcpos /\ bk = match.back /\ fw = match.fwd /\ mb = match.maxback /\ bk <= sp /\ mb <= sp
    BY <1>1 DEF MatchType
  <1>3. CASE match.back >= match.maxback
    <2>1. /\ match' = [match EXCEPT !.state = "FORWARD"]
          /\ enc' = enc /\ at' = at /\ src' = src /\ hash' = hash /\ iopt' = iopt /\ sect' = sect /\ loop' = loop
      BY <1>3 DEF ExtendBack
    <2>2. /\ MatchType(match') /\ match'.cksum = match.cksum /\ match'.srcpos = match.srcpos /\ match'.state = "FORWARD"
          /\ match'.fwd = match.fwd /\ match'.back = match.back /\ match'.maxback = match.maxback
      BY <1>1, <2>1 DEF MatchType, MatchFields
    <2>3. src.base = src'.base /\ src.len = src'.len /\ src'.max = src.max
      BY <2>1
    <2> QED
      BY <1>1, <2>1, <2>2, <2>3, GrownKeeps
  <1>4. CASE ~(match.back >= match.maxback)
    <2>1. bk < mb /\ bk < sp
      BY <1>2, <1>4
    <2>2. PICK x \in Nat : x = sp - bk - 1
      BY <1>2, <2>1
    <2>3. PICK n, from, off \in Nat : /\ n = x \div BlkSize /\ from = n * BlkSize
                                      /\ off < BlkSize /\ x = from + off
      BY PlaceInBlock
    <2>6. n = BackBlock
      BY <1>2, <2>2, <2>3 DEF BackBlock
    <2>7. from <= sp /\ sp - bk - from >= 1
      BY <1>2, <2>2, <2>3
    <2>4. CASE AskFor(BackBlock)
      BY <1>1, <2>6, <2>4, AskForKeeps
    <2> DEFINE start == match.srcpos - match.back
               rem == SmallerOf(start - BackBlock * BlkSize, match.maxback - match.back)
               same(k) == SourceByte(src, start - k - 1) = enc.in[enc.pos - match.back - k]
               m == Agreeing(rem, same)
    <2>5. CASE /\ Loaded(src, BackBlock) /\ src' = Got(src, BackBlock)
               /\ match' = [match EXCEPT !.back = @ + m, !.state = IF m < rem THEN "FORWARD" ELSE @]
               /\ enc' = enc /\ at' = at /\ hash' = hash /\ iopt' = iopt /\ sect' = sect /\ loop' = loop
      <3>1. rem \in Nat /\ rem <= mb - bk
        <4>1. start - BackBlock * BlkSize = sp - bk - from
          BY <1>2, <2>3, <2>6
        <4>2. sp - bk - from \in Nat /\ mb - bk \in Nat
          BY <1>2, <2>1, <2>7
        <4> QED
          BY <1>2, <4>1, <4>2 DEF SmallerOf
      <3> HIDE DEF rem
      <3>2. m \in 0..rem
        <4> DEFINE G == {k \in 0..rem : same(k)}
        <4>1. \E k \in 0..rem : (k = rem \/ k \notin G) /\ \A j \in 0..(k - 1) : j \in G
          BY <3>1, FirstOf
        <4>2. \E k \in 0..rem : (k = rem \/ ~same(k)) /\ \A j \in 0..(k - 1) : same(j)
          BY <4>1
        <4> QED
          BY <4>2, Zenon DEF Agreeing
      <3> HIDE DEF m
      <3>3. m \in Nat /\ bk + m \in Nat /\ bk + m <= mb
        BY <1>2, <3>1, <3>2
      <3>4. match'.state \in {"FORWARD", "BACKWARD"}
        BY <1>1, <2>5 DEF MatchType, MatchFields
      <3>5. /\ MatchType(match') /\ match'.cksum = match.cksum /\ match'.srcpos = match.srcpos
            /\ match'.fwd = match.fwd /\ match'.back = bk + m /\ match'.maxback = match.maxback
        BY <1>1, <1>2, <2>5, <3>3 DEF MatchType, MatchFields
      <3>6. match'.back <= enc.pos /\ match'.srcpos + match'.fwd <= Len(src.file)
        <4>1. enc.pos \in Nat
          BY EncoderFields
        <4> QED
          BY <1>1, <1>2, <3>3, <3>5, <4>1
      <3>7. /\ SrcType(src') /\ src'.have = src.have /\ src'.file = src.file /\ src'.base = src.base /\ src'.len = src.len
            /\ src'.max \in Nat /\ src'.onlast \in Nat /\ (src'.max = src.max \/ src'.max = n)
        BY <1>1, <2>6, <2>5, GotSource
      <3>8. n * BlkSize <= Len(src.file)
        <4>1. sp + fw <= Len(src.file) /\ Len(src.file) \in Nat
          BY <1>1, <1>2 DEF SrcType
        <4> QED
          <5>1. from <= Len(src.file)
            <6>1. from \in Nat
              BY <2>3
            <6> QED
              BY <1>2, <2>7, <4>1, <6>1
          <5> QED
            BY <2>3, <5>1, Zenon
      <3> QED
        BY <1>1, <2>5, <3>4, <3>5, <3>6, <3>7, <3>8, GrownKeeps
    <2> QED
      BY <1>4, <2>4, <2>5 DEF ExtendBack
  <1> QED
    BY <1>3, <1>4

\* A match grows forward.
LEMMA ExtendForwardKeeps == ASSUME EncoderInvariant, ExtendForward PROVE EncoderInvariant'
  <1>1. /\ at = "extend" /\ match.state = "FORWARD" /\ SourceGood /\ MatchType(match) /\ src.have /\ SrcType(src)
        /\ match.srcpos + match.fwd <= Len(src.file) /\ match.back <= enc.pos /\ match.maxback <= enc.pos
        /\ src.max \in Nat /\ src.onlast \in Nat
    BY EncoderFields DEF ExtendForward, SourceGood, PlaceGood, Extending, MatchUnderWay
  <1>2. PICK sp, fw \in Nat, mf \in Int : sp = match.srcpos /\ fw = match.fwd /\ mf = match.maxfwd
    BY <1>1 DEF MatchType
  <1>3. CASE match.fwd >= match.maxfwd
    <2>1. /\ at' = "extended" /\ match' = match
          /\ enc' = enc /\ src' = src /\ hash' = hash /\ iopt' = iopt /\ sect' = sect /\ loop' = loop
      BY <1>3 DEF ExtendForward
    <2>2. src.base = src'.base /\ src.len = src'.len /\ src'.max = src.max
      BY <2>1
    <2> QED
      BY <1>1, <2>1, <2>2, GrownKeeps
  <1>4. CASE ~(match.fwd >= match.maxfwd)
    <2>1. fw < mf
      BY <1>2, <1>4
    <2>2. PICK x \in Nat : x = sp + fw /\ x <= Len(src.file)
      BY <1>1, <1>2
    <2>3. PICK n, from, on \in Nat : /\ n = x \div BlkSize /\ from = n * BlkSize /\ on = Len(Block(src.file, n))
                                     /\ from <= x /\ x <= from + on /\ from + on <= Len(src.file)
      <3>1. src.file \in Seq(Byte)
        BY <1>1 DEF SrcType
      <3> QED
        BY <2>2, <3>1, BlockReaches
    <2>6. n = FwdBlock
      BY <1>2, <2>2, <2>3 DEF FwdBlock
    <2>4. CASE AskFor(FwdBlock)
      BY <1>1, <2>6, <2>4, AskForKeeps
    <2> DEFINE start == match.srcpos + match.fwd
               rem == SmallerOf(match.maxfwd - match.fwd, FwdBlock * BlkSize + src.onblk - start)
               same(k) == SourceByte(src, start + k) = enc.in[enc.pos + match.fwd + k + 1]
               m == Agreeing(rem, same)
    <2>5. CASE /\ Loaded(src, FwdBlock) /\ src' = Got(src, FwdBlock)
               /\ match' = [match EXCEPT !.fwd = @ + m]
               /\ at' = IF rem = 0 \/ m < rem THEN "extended" ELSE "extend"
               /\ enc' = enc /\ hash' = hash /\ iopt' = iopt /\ sect' = sect /\ loop' = loop
      <3>0. at' \in {"extend", "extended"}
        BY <2>5
      <3>1. rem \in Nat /\ x + rem <= Len(src.file)
        <4>1. src.onblk = on
          BY <1>1, <2>3, <2>5, <2>6 DEF Loaded, SrcType
        <4>2. FwdBlock * BlkSize + src.onblk - start = from + on - x
          BY <1>2, <2>2, <2>3, <2>6, <4>1
        <4>3. from + on - x \in Nat /\ mf - fw \in Nat /\ x + (from + on - x) <= Len(src.file) /\ x \in Nat /\ Len(src.file) \in Nat
          <5>1. from \in Nat /\ on \in Nat /\ x \in Nat /\ from <= x /\ x <= from + on /\ from + on <= Len(src.file)
            BY <2>2, <2>3
          <5>2. Len(src.file) \in Nat
            BY <1>1 DEF SrcType
          <5>3. mf - fw \in Nat
            BY <1>2, <2>1
          <5> QED
            BY <5>1, <5>2, <5>3
        <4>4. rem = SmallerOf(mf - fw, from + on - x)
          BY <1>2, <4>2
        <4> HIDE DEF rem
        <4> QED
          BY <4>3, <4>4 DEF SmallerOf
      <3> HIDE DEF rem
      <3>2. m \in 0..rem
        <4> DEFINE G == {k \in 0..rem : same(k)}
        <4>1. \E k \in 0..rem : (k = rem \/ k \notin G) /\ \A j \in 0..(k - 1) : j \in G
          BY <3>1, FirstOf
        <4>2. \E k \in 0..rem : (k = rem \/ ~same(k)) /\ \A j \in 0..(k - 1) : same(j)
          BY <4>1
        <4> QED
          BY <4>2, Zenon DEF Agreeing
      <3> HIDE DEF m
      <3>3. m \in Nat /\ fw + m \in Nat /\ sp + (fw + m) <= Len(src.file)
        <4>1. Len(src.file) \in Nat
          BY <1>1 DEF SrcType
        <4>2. m \in Nat /\ m <= rem
          BY <3>1, <3>2
        <4>3. sp \in Nat /\ fw \in Nat /\ rem \in Nat /\ (sp + fw) + rem <= Len(src.file)
          BY <1>2, <2>2, <3>1
        <4> QED
          BY <4>1, <4>2, <4>3
      <3>5. /\ MatchType(match') /\ match'.cksum = match.cksum /\ match'.srcpos = match.srcpos
            /\ match'.fwd = fw + m /\ match'.back = match.back /\ match'.maxback = match.maxback
            /\ match'.state = match.state
        BY <1>1, <1>2, <2>5, <3>3 DEF MatchType, MatchFields
      <3>6. match'.srcpos + match'.fwd <= Len(src.file)
        BY <1>2, <3>3, <3>5
      <3>7. /\ SrcType(src') /\ src'.have = src.have /\ src'.file = src.file /\ src'.base = src.base /\ src'.len = src.len
            /\ src'.max \in Nat /\ src'.onlast \in Nat /\ (src'.max = src.max \/ src'.max = n)
        BY <1>1, <2>6, <2>5, GotSource
      <3>8. n * BlkSize <= Len(src.file)
        <4>1. from <= Len(src.file)
          <5>1. from \in Nat /\ on \in Nat /\ Len(src.file) \in Nat
            BY <1>1, <2>3 DEF SrcType
          <5> QED
            BY <2>3, <5>1
        <4> QED
          BY <2>3, <4>1, Zenon
      <3> QED
        BY <1>1, <2>5, <3>0, <3>5, <3>6, <3>7, <3>8, GrownKeeps
    <2> QED
      BY <1>4, <2>4, <2>5 DEF ExtendForward
  <1> QED
    BY <1>3, <1>4

\* A match that has ended is put in the buffer, or dropped.
LEMMA MatchExtendedKeeps == ASSUME EncoderInvariant, MatchExtended PROVE EncoderInvariant'
  <1>1. /\ at = "extended" /\ enc' = enc /\ src' = src /\ hash' = hash /\ sect' = sect
        /\ SourceGood /\ MatchType(match) /\ LoopType(loop) /\ IoptType(iopt) /\ src.have /\ Ready(enc.pos) /\ enc.state = "SEARCH"
        /\ match.state \in {"FORWARD", "BACKWARD"} /\ (loop.then = "loop" => StringHere)
        /\ match.srcpos + match.fwd <= Len(src.file) /\ match.back <= enc.pos
    BY EncoderFields DEF MatchExtended, SourceGood, PlaceGood, Extending, MatchUnderWay, StateGood
  <1>2. PICK sp, fw, bk, pos \in Nat : sp = match.srcpos /\ fw = match.fwd /\ bk = match.back /\ pos = enc.pos /\ bk <= sp /\ bk <= pos
    BY <1>1, EncoderFields DEF MatchType
  <1>3. CASE match.fwd < enc.minMatch
    <2>1. /\ match' = [match EXCEPT !.fwd = 0, !.state = "SEARCHING"]
          /\ at' = AfterSource(0) /\ iopt' = iopt /\ loop' = loop
      BY <1>3 DEF MatchExtended
    <2>2. MatchType(match') /\ match'.cksum = match.cksum /\ match'.srcpos = match.srcpos /\ match'.fwd = 0 /\ match'.state = "SEARCHING"
      BY <1>1, <2>1 DEF MatchType, MatchFields
    <2>3. (at' = "small" /\ loop.then = "loop") \/ at' = "forward"
      BY <2>1 DEF AfterSource
    <2>4. EncoderTypes' /\ SourceGood' /\ InOrder(iopt.used)' /\ MatchUnderWay'
      BY <1>1, <2>1, <2>2, EncoderFields DEF EncoderTypes, SourceGood, MatchUnderWay
    <2>5. PlaceGood'
      <3>1. enc.pos + 0 = enc.pos
        BY <1>2
      <3> QED
        BY <1>1, <2>1, <2>2, <2>3, <3>1 DEF PlaceGood, AtByte, Extending, WantsSlot, Ready, Before, StringHere
    <2>6. StateGood' /\ UnlimitedGood'
      BY <1>1, <2>1, <2>3, EncoderFields DEF StateGood, UnlimitedGood, AtByte, Extending, WantsSlot
    <2> QED
      BY <2>4, <2>5, <2>6 DEF EncoderInvariant
  <1>4. CASE ~(match.fwd < enc.minMatch)
    <2> DEFINE start == enc.pos - match.back
               len == match.back + match.fwd
               from == match.srcpos - match.back
               end == match.srcpos + match.fwd
               min == IF match.max = 0 \/ from < match.min THEN from ELSE match.min
               ended == start + len = Len(enc.in)
               new == [type |-> CPY, pos |-> start, size |-> len, addr |-> from, xtra |-> 1]
               mx == LargerOf(match.max, end)
               ms == LargerOf(match.maxsrc, end)
               st == IF ended THEN "TARGET" ELSE "SEARCHING"
               sp2 == IF ended THEN end ELSE match.srcpos
    <2>1. /\ match' = [match EXCEPT !.back = 0, !.min = min, !.max = mx, !.maxsrc = ms, !.state = st, !.srcpos = sp2]
          /\ iopt' = IF match.back > 0 THEN [iopt EXCEPT !.used = Uncovered(iopt.used, start)] ELSE iopt
          /\ loop' = [loop EXCEPT !.new = new, !.len = match.fwd, !.then = AfterSource(match.fwd)]
          /\ at' = "slot"
      BY <1>4, Zenon DEF MatchExtended
    <2>2. /\ start \in Nat /\ start = pos - bk /\ len \in Nat /\ len = bk + fw /\ from \in Nat /\ end \in Nat /\ end = sp + fw
          /\ start + len = pos + fw /\ fw >= 4 /\ fw >= enc.minMatch /\ len >= 4
      <3>1. enc.minMatch \in Nat /\ enc.minMatch >= 4
        BY EncoderFields
      <3> QED
        BY <1>2, <1>4, <3>1
    <2> HIDE DEF start, len, from, end
    <2>3. min \in Nat /\ mx \in Nat /\ ms \in Nat /\ st \in {"TARGET", "SEARCHING"} /\ sp2 \in Nat /\ sp2 >= sp /\ sp2 <= Len(src.file)
      <3>1. match.min \in Nat /\ match.max \in Nat /\ match.maxsrc \in Nat /\ Len(src.file) \in Nat
        BY <1>1 DEF MatchType, SrcType, SourceGood
      <3>2. sp + fw <= Len(src.file) /\ sp <= Len(src.file)
        BY <1>1, <1>2, <3>1
      <3>3. sp \in Nat /\ from \in Nat /\ end \in Nat /\ end = sp + fw /\ fw \in Nat /\ sp = match.srcpos
        BY <1>2, <2>2
      <3>4. min \in Nat /\ mx \in Nat /\ ms \in Nat
        BY <3>1, <3>3 DEF LargerOf
      <3>5. sp2 \in {end, sp}
        BY <3>3
      <3> HIDE DEF sp2, min, mx, ms
      <3> QED
        BY <3>1, <3>2, <3>3, <3>4, <3>5
    <2> HIDE DEF min, mx, ms, st, sp2
    <2>4. /\ MatchType(match') /\ match'.cksum = match.cksum /\ match'.srcpos = sp2 /\ match'.fwd = fw
          /\ match'.state \in {"TARGET", "SEARCHING"}
      BY <1>1, <1>2, <2>1, <2>3 DEF MatchType, MatchFields
    <2>5. IsInst(new) /\ new.pos = start /\ End(new) = pos + fw
      <3>1. IsInst(new)
        BY <2>2 DEF IsInst, InstFields, MinMatch
      <3> QED
        BY <2>2, <3>1 DEF End
    <2> HIDE DEF new
    <2>6. LoopType(loop') /\ loop'.new = new /\ loop'.len = fw /\ ((loop'.then = "lazy" /\ StringHere) \/ loop'.then = "forward")
      <3>1. LoopType(loop') /\ loop'.new = new /\ loop'.len = fw /\ loop'.then = AfterSource(match.fwd)
        BY <1>1, <1>2, <2>1 DEF LoopType
      <3>2. (loop.then = "loop" /\ AfterSource(match.fwd) = "lazy") \/ AfterSource(match.fwd) = "forward"
        BY <1>2, <2>2 DEF AfterSource
      <3> QED
        BY <1>1, <3>1, <3>2
    <2>7. /\ IoptType(iopt') /\ InOrder(iopt'.used) /\ (iopt'.used # <<>> => Last(iopt'.used).pos < start)
          /\ LastMatched(iopt'.used) < pos + fw /\ iopt'.slots = iopt.slots
      <3>1. /\ Buffer(iopt.used) /\ InOrder(iopt.used) /\ LastMatched(iopt.used) \in Nat /\ LastMatched(iopt.used) < enc.pos + enc.minMatch
            /\ enc.minMatch \in Nat /\ (iopt.used # <<>> => Last(iopt.used).pos < enc.pos)
        BY <1>1, EncoderFields DEF Ready, Before
      <3>2. LastMatched(iopt.used) < pos + fw
        <4>1. PICK mm, l \in Nat : mm = enc.minMatch /\ l = LastMatched(iopt.used)
          BY <3>1
        <4>2. fw >= mm /\ l < pos + mm
          BY <1>2, <2>2, <3>1, <4>1, Zenon
        <4> QED
          BY <1>2, <4>1, <4>2
      <3>3. CASE match.back > 0
        <4> DEFINE u == Uncovered(iopt.used, start)
        <4>1. /\ Buffer(u) /\ InOrder(u) /\ (u # <<>> => Last(u).pos < start)
              /\ LastMatched(u) <= LastMatched(iopt.used)
          BY <2>2, <3>1, UncoveredOrdered
        <4>2. iopt' = [iopt EXCEPT !.used = u]
          BY <2>1, <3>3
        <4> HIDE DEF u
        <4>3. LastMatched(u) \in Nat
          BY <4>1, LastMatchedType
        <4>4. IoptType(iopt') /\ iopt'.used = u /\ iopt'.slots = iopt.slots
          BY <1>1, <4>1, <4>2 DEF IoptType
        <4>5. LastMatched(u) < pos + fw
          BY <1>2, <3>1, <3>2, <4>1, <4>3
        <4> QED
          BY <4>1, <4>4, <4>5
      <3>4. CASE ~(match.back > 0)
        <4>1. iopt' = iopt
          BY <2>1, <3>4
        <4>2. start = enc.pos
          BY <1>2, <2>2, <3>4
        <4> QED
          BY <1>1, <3>1, <3>2, <4>1, <4>2
      <3> QED
        BY <3>3, <3>4
    <2>8. EncoderTypes' /\ InOrder(iopt.used)' /\ MatchUnderWay'
      BY <1>1, <2>4, <2>6, <2>7, EncoderFields DEF EncoderTypes, MatchUnderWay
    <2>9. SourceGood'
      BY <1>1, <2>3, <2>4 DEF SourceGood
    <2>10. NewGood'
      <3>1. start <= pos /\ fw > 0 /\ enc.pos + fw = pos + fw
        BY <1>2, <2>2
      <3>2. fw \in Nat /\ fw >= MinMatch
        BY <1>2, <2>2 DEF MinMatch
      <3> QED
        BY <1>1, <1>2, <2>4, <2>5, <2>6, <2>7, <3>1, <3>2 DEF NewGood, Before, StringHere
    <2>11. PlaceGood'
      BY <2>1, <2>10 DEF PlaceGood, AtByte, Extending, WantsSlot
    <2>12. StateGood' /\ UnlimitedGood'
      BY <1>1, <2>1, <2>7, EncoderFields DEF StateGood, UnlimitedGood, AtByte, Extending, WantsSlot
    <2> QED
      BY <2>8, <2>9, <2>11, <2>12 DEF EncoderInvariant
  <1> QED
    BY <1>3, <1>4

\* The position moves behind the match the call began with.
LEMMA MoveOnKeeps == ASSUME EncoderInvariant, MoveOn PROVE EncoderInvariant'
  <1>1. /\ at = "forward" /\ enc' = [enc EXCEPT !.pos = @ + match.fwd] /\ loop' = NewLoop /\ at' = "restart"
        /\ src' = src /\ match' = match /\ hash' = hash /\ iopt' = iopt /\ sect' = sect
    BY DEF MoveOn
  <1>2. EncType(enc') /\ enc'.state = enc.state /\ enc'.pos = enc.pos + match.fwd /\ enc'.in = enc.in /\ enc'.ret = enc.ret
    <2>1. enc.pos + match.fwd \in Nat
      BY EncoderFields DEF MatchType
    <2> QED
      BY <1>1, <2>1, EncoderFields DEF EncType, EncFields
  <1>3. LoopType(loop')
    BY <1>1 DEF LoopType, NewLoop
  <1>4. match.state \notin {"FORWARD", "BACKWARD"} /\ Before(enc.pos + match.fwd) /\ enc.state = "SEARCH"
    BY <1>1, EncoderFields DEF MatchUnderWay, Extending, PlaceGood, StateGood
  <1>5. EncoderTypes' /\ SourceGood' /\ InOrder(iopt.used)' /\ MatchUnderWay'
    BY <1>1, <1>2, <1>3, <1>4, EncoderFields DEF EncoderTypes, SourceGood, MatchUnderWay
  <1>6. PlaceGood'
    BY <1>1, <1>2, <1>4 DEF PlaceGood, AtByte, Extending, WantsSlot, Before
  <1>7. StateGood' /\ UnlimitedGood'
    BY <1>1, <1>2, <1>4, EncoderFields DEF StateGood, UnlimitedGood, AtByte, Extending, WantsSlot
  <1> QED
    BY <1>5, <1>6, <1>7 DEF EncoderInvariant

-----------------------------------------------------------------------------
(* The index of the source *)

\* From one look at the place the matcher is at to the next one.
LEMMA ByteKeeps ==
    ASSUME EncoderInvariant, at \in {"run", "large", "look", "small", "move"},
           at' \in {"run", "large", "look", "small", "move"}, src.have \/ at' \notin {"look", "move"},
           at' # "move" \/ loop'.then \in {"run", "look"},
           enc' = enc, src' = src, hash' = hash, iopt' = iopt, sect' = sect, LoopType(loop'), MatchType(match'),
           match'.state = match.state, match'.srcpos = match.srcpos, match'.fwd = match.fwd,
           match'.cksum >= match.cksum \/ ~src.have \/ src.max * BlkSize <= match'.cksum
    PROVE  EncoderInvariant'
  <1>1. Ready(enc.pos) /\ StringHere /\ enc.state = "SEARCH" /\ match.state \notin {"FORWARD", "BACKWARD"}
    BY EncoderFields DEF PlaceGood, AtByte, StateGood, MatchUnderWay, Extending
  <1>2. EncoderTypes' /\ InOrder(iopt.used)' /\ MatchUnderWay'
    BY <1>1, EncoderFields DEF EncoderTypes, MatchUnderWay
  <1>3. SourceGood'
    <2>1. CASE ~src.have
      BY <2>1, EncoderFields DEF SourceGood
    <2>2. CASE src.have
      <3>1. SourceGood /\ MatchType(match)
        BY EncoderFields
      <3>2. src.max * BlkSize <= Len(src.file) \/ src.max * BlkSize <= match'.cksum
        <4>1. PICK b, c, d \in Nat : b = src.max * BlkSize /\ c = match.cksum /\ d = match'.cksum
          <5>1. src.max \in Nat /\ BlkSize \in Nat /\ match.cksum \in Nat /\ match'.cksum \in Nat
            BY <2>2, <3>1, SourceAssumption DEF SourceGood, MatchType
          <5>2. src.max * BlkSize \in Nat
            BY <5>1
          <5> QED
            BY <5>1, <5>2, Zenon
        <4>2. b <= Len(src.file) \/ b <= c
          BY <2>2, <3>1, <4>1 DEF SourceGood
        <4>3. d >= c \/ b <= d
          BY <2>2, <4>1
        <4>4. b <= Len(src.file) \/ b <= d
          BY <4>1, <4>2, <4>3
        <4> QED
          BY <4>1, <4>4
      <3> QED
        BY <1>1, <2>2, <3>1, <3>2 DEF SourceGood
    <2> QED
      BY <2>1, <2>2
  <1>4. PlaceGood'
    BY <1>1 DEF PlaceGood, AtByte, Extending, WantsSlot, Ready, Before, StringHere
  <1>5. StateGood' /\ UnlimitedGood'
    BY <1>1, EncoderFields DEF StateGood, UnlimitedGood, AtByte, Extending, WantsSlot
  <1> QED
    BY <1>2, <1>3, <1>4, <1>5 DEF EncoderInvariant

\* The source's index is to be moved on, or is as far as it goes.
LEMMA BeginMoveType ==
    ASSUME EncoderInvariant, src.have, NEW l, LoopType(l), NEW then, BeginMove(l, then)
    PROVE  /\ MatchType(match') /\ match'.state = match.state /\ match'.srcpos = match.srcpos /\ match'.fwd = match.fwd
           /\ match'.cksum >= match.cksum
           /\ LoopType(loop') /\ (at' = then \/ (at' = "move" /\ loop'.then = then))
  <1>1. MatchType(match) /\ EncType(enc)
    BY EncoderFields
  <1>2. match.cksum \in Nat /\ match.maxsrc \in Nat /\ enc.total \in Nat /\ enc.pos \in Nat
    BY <1>1 DEF MatchType, EncType
  <1>3. CASE at' = then /\ loop' = [l EXCEPT !.next = Unlimited] /\ match' = match
    BY <1>1, <1>2, <1>3 DEF LoopType
  <1> DEFINE from == LargerOf(match.cksum, match.maxsrc)
             to == LargerOf(TargetCksum, from)
  <1>4. CASE at' = "move" /\ loop' = [l EXCEPT !.then = then, !.target = to] /\ match' = [match EXCEPT !.cksum = from]
    <2>1. from \in Nat /\ from >= match.cksum
      BY <1>2 DEF LargerOf
    <2> HIDE DEF from
    <2>2. TargetCksum \in Int
      <3> DEFINE here == enc.total + enc.pos
                 far == here + MaxWinSize \div 2 + 2 * BlkSize
      <3>1. MaxWinSize \in Nat /\ BlkSize \in Nat \ {0}
        BY SourceAssumption
      <3>2. far \in Nat
        BY <1>2, <3>1
      <3> HIDE DEF far
      <3>3. far % BlkSize \in Nat
        BY <3>1, <3>2
      <3>4. far - (far % BlkSize) \in Int
        BY <3>2, <3>3
      <3> QED
        BY <3>1, <3>4 DEF TargetCksum, far
    <2>3. to \in Nat
      BY <2>1, <2>2 DEF LargerOf
    <2> HIDE DEF to
    <2> QED
      BY <1>1, <1>4, <2>1, <2>3 DEF LoopType, MatchType, MatchFields
  <1> QED
    BY <1>3, <1>4 DEF BeginMove

\* What is indexed is there in the source.
LEMMA IndexedType ==
    ASSUME NEW n \in Nat, NEW old \in Nat, NEW base \in Nat, base = src.cur * BlkSize, NEW end \in Nat, base + n <= end,
           LLook <= n, HashType(hash), \A b \in DOMAIN hash.large : hash.large[b] - 1 <= end
    PROVE  \A b \in DOMAIN IndexOf(n, old) : IndexOf(n, old)[b] \in Nat \ {0} /\ IndexOf(n, old)[b] - 1 <= end
  <1> DEFINE h(p) == Bucket(SubSeq(src.file, base + p + 1, base + p + LLook))
             ps == IndexedAt(n, old)
             new == {h(p) : p \in ps}
             f == [b \in new \cup DOMAIN hash.large |->
                      IF b \in new THEN base + Min({p \in ps : h(p) = b}) + 1 ELSE hash.large[b]]
  <1>1. IndexOf(n, old) = f
    BY DEF IndexOf
  <1>2. ps \subseteq 0..n
    <2>1. LLook \in Nat
      BY EncodeAssumption
    <2> QED
      BY <2>1 DEF IndexedAt
  <1> HIDE DEF ps
  <1>3. ASSUME NEW b \in new
        PROVE  f[b] \in Nat \ {0} /\ f[b] - 1 <= end
    <2> DEFINE S == {p \in ps : h(p) = b}
    <2>1. S # {} /\ S \subseteq ps
      OBVIOUS
    <2>2. f[b] = base + Min(S) + 1
      OBVIOUS
    <2> HIDE DEF S, f
    <2>3. S \in SUBSET Nat
      BY <1>2, <2>1
    <2>4. \E m \in S : \A k \in S : m <= k
      BY <2>1, <2>3, LeastNumber
    <2>5. Min(S) \in S
      BY <2>4, Zenon DEF Min
    <2>6. Min(S) \in 0..n
      BY <1>2, <2>1, <2>5
    <2> QED
      BY <2>2, <2>6
  <1>4. ASSUME NEW b \in DOMAIN hash.large, b \notin new
        PROVE  f[b] \in Nat \ {0} /\ f[b] - 1 <= end
    <2>1. f[b] = hash.large[b]
      BY <1>4
    <2> HIDE DEF f, new
    <2> QED
      BY <2>1 DEF HashType
  <1>5. DOMAIN f = new \cup DOMAIN hash.large
    OBVIOUS
  <1> HIDE DEF f, new
  <1> QED
    BY <1>1, <1>3, <1>4, <1>5

\* The index grows by a block.
LEMMA MovePointKeeps == ASSUME EncoderInvariant, MovePoint PROVE EncoderInvariant'
  <1>1. /\ at = "move" /\ src.have /\ SourceGood /\ SrcType(src) /\ MatchType(match) /\ HashType(hash) /\ loop.then \in {"run", "look"}
        /\ Ready(enc.pos) /\ StringHere /\ enc.state = "SEARCH" /\ match.state \notin {"FORWARD", "BACKWARD"}
        /\ src.max \in Nat /\ src.onlast \in Nat
    BY EncoderFields DEF MovePoint, PlaceGood, SourceGood, AtByte, StateGood, MatchUnderWay, Extending
  <1>2. PICK c \in Nat : c = match.cksum
    BY <1>1 DEF MatchType
  <1>3. PICK n, from, off \in Nat : /\ n = c \div BlkSize /\ from = n * BlkSize
                                    /\ off < BlkSize /\ c = from + off /\ (n + 1) * BlkSize = from + BlkSize
    BY PlaceInBlock
  <1>4. n = NextToIndex
    BY <1>2, <1>3 DEF NextToIndex
  <1>5. CASE AskFor(NextToIndex)
    BY <1>1, <1>4, <1>5, AskForKeeps
  <1> DEFINE bytes == BytesOnBlk(src', n)
             index == IndexOf(bytes, match.cksum % BlkSize)
  <1>6. CASE /\ Loaded(src, n) /\ src' = Got(src, n)
             /\ hash' = IF bytes < LLook THEN hash ELSE [hash EXCEPT !.large = index]
             /\ match' = [match EXCEPT !.cksum = (n + 1) * BlkSize]
             /\ enc' = enc /\ at' = at /\ iopt' = iopt /\ sect' = sect /\ loop' = loop
    <2>1. /\ SrcType(src') /\ src'.have /\ src'.file = src.file /\ src'.base = src.base /\ src'.len = src.len
          /\ src'.max \in Nat /\ src'.onlast \in Nat
          /\ src'.max = (IF src.max > n THEN src.max ELSE n)
          /\ n >= src.max => src'.onlast = src.onblk
      BY <1>1, <1>6, GotSource
    <2>2. BlkSize \in Nat \ {0} /\ LLook \in Nat \ {0} /\ n \in Nat /\ from \in Nat /\ off \in Nat
      BY <1>3, SourceAssumption, EncodeAssumption
    <2>3. from + BlkSize \in Nat /\ from + BlkSize > c
      BY <1>2, <1>3, <2>2
    <2>4. /\ MatchType(match') /\ match'.cksum = from + BlkSize /\ match'.srcpos = match.srcpos
          /\ match'.fwd = match.fwd /\ match'.state = match.state
      BY <1>1, <1>3, <1>6, <2>3 DEF MatchType, MatchFields
    <2>5. Len(src.file) \in Nat /\ (src.max * BlkSize <= Len(src.file) \/ src.max * BlkSize <= c)
      BY <1>1, <1>2 DEF SourceGood, SrcType
    <2>6. src'.max * BlkSize <= Len(src'.file) \/ src'.max * BlkSize <= match'.cksum
      <3>1. CASE src.max > n
        <4>1. PICK b \in Nat : b = src.max * BlkSize
          BY <1>1, <2>2
        <4>2. b <= Len(src.file) \/ b <= from + BlkSize
          BY <1>2, <2>3, <2>5, <4>1
        <4>3. src'.max = src.max
          BY <2>1, <3>1
        <4> QED
          BY <2>1, <2>4, <4>1, <4>2, <4>3
      <3>2. CASE ~(src.max > n)
        <4>1. src'.max = n
          BY <2>1, <3>2
        <4>2. from <= from + BlkSize
          BY <2>2
        <4> QED
          BY <1>3, <2>4, <4>1, <4>2
      <3> QED
        BY <3>1, <3>2
    <2>7. bytes \in Nat /\ (bytes >= LLook => from + bytes <= Len(src.file))
      <3>1. CASE src.max > n
        <4>1. bytes = BlkSize
          BY <2>1, <3>1 DEF BytesOnBlk
        <4>2. PICK d \in Nat : src.max = (n + 1) + d
          <5>1. src.max - (n + 1) \in Nat /\ src.max = (n + 1) + (src.max - (n + 1))
            BY <1>1, <2>2, <3>1
          <5> QED
            BY <5>1
        <4>3. PICK rest \in Nat : rest = d * BlkSize
          BY <2>2, <4>2
        <4>4. src.max * BlkSize = (from + BlkSize) + rest
          <5>1. \A u, v, w \in Nat : (u + v) * w = (u * w) + (v * w)
            OBVIOUS
          <5>2. d \in Nat /\ n + 1 \in Nat /\ BlkSize \in Nat
            BY <2>2, <4>2
          <5>3. ((n + 1) + d) * BlkSize = ((n + 1) * BlkSize) + (d * BlkSize)
            BY <5>1, <5>2
          <5> QED
            BY <1>3, <4>2, <4>3, <5>3, Zenon
        <4>5. (from + BlkSize) + rest <= Len(src.file)
          <5>1. rest \in Nat
            BY <4>3
          <5>2. ~((from + BlkSize) + rest <= c)
            BY <1>2, <2>2, <2>3, <5>1
          <5> QED
            BY <2>5, <4>4, <5>2
        <4> QED
          <5>1. rest \in Nat
            BY <4>3
          <5> QED
            BY <2>2, <2>5, <4>1, <4>5, <5>1
      <3>2. CASE ~(src.max > n)
        <4>1. n >= src.max
          BY <1>1, <2>2, <3>2
        <4>2. bytes = src.onblk
          BY <2>1, <3>2, <4>1 DEF BytesOnBlk
        <4>3. src.onblk = Len(Block(src.file, n)) /\ src.file \in Seq(Byte)
          BY <1>1, <1>6 DEF SrcType, Loaded
        <4>4. PICK fr \in Nat : /\ fr = n * BlkSize
                                /\ Len(Block(src.file, n)) \in 0..BlkSize
                                /\ Len(Block(src.file, n)) > 0 => fr + Len(Block(src.file, n)) <= Len(src.file)
          BY <2>2, <4>3, BlockLength
        <4>5. fr = from
          BY <1>3, <4>4
        <4>6. bytes \in 0..BlkSize /\ (bytes > 0 => from + bytes <= Len(src.file))
          BY <4>2, <4>3, <4>4, <4>5
        <4> HIDE DEF bytes
        <4> QED
          BY <2>2, <4>6
      <3> QED
        BY <3>1, <3>2
    <2> HIDE DEF bytes
    <2>8. HashType(hash') /\ \A b \in DOMAIN hash'.large : hash'.large[b] - 1 <= Len(src.file)
      <3>1. HashType(hash) /\ \A b \in DOMAIN hash.large : hash.large[b] - 1 <= Len(src.file)
        BY <1>1 DEF SourceGood
      <3>2. CASE bytes < LLook
        BY <1>6, <3>1, <3>2
      <3>3. CASE ~(bytes < LLook)
        <4>1. from = src.cur * BlkSize
          BY <1>3, <1>6 DEF Loaded
        <4>2. match.cksum % BlkSize \in Nat
          BY <1>2, <2>2
        <4>3. bytes >= LLook /\ bytes \in Nat /\ from + bytes <= Len(src.file)
          BY <2>2, <2>7, <3>3
        <4>4. \A b \in DOMAIN index : index[b] \in Nat \ {0} /\ index[b] - 1 <= Len(src.file)
          BY <2>2, <2>5, <3>1, <4>1, <4>2, <4>3, IndexedType
        <4> HIDE DEF index
        <4>5. hash' = [hash EXCEPT !.large = index]
          BY <1>6, <3>3
        <4>6. hash'.large = index /\ DOMAIN hash' = DOMAIN hash
          BY <3>1, <4>5 DEF HashType
        <4> QED
          BY <3>1, <4>4, <4>6 DEF HashType
      <3> QED
        BY <3>2, <3>3
    <2>9. SourceGood'
      BY <1>1, <2>1, <2>4, <2>6, <2>8 DEF SourceGood
    <2>10. EncoderTypes' /\ InOrder(iopt.used)' /\ MatchUnderWay'
      BY <1>1, <1>6, <2>4, <2>8, EncoderFields DEF EncoderTypes, MatchUnderWay
    <2>11. PlaceGood'
      BY <1>1, <1>6, <2>1 DEF PlaceGood, AtByte, Extending, WantsSlot, Ready, Before, StringHere
    <2>12. StateGood' /\ UnlimitedGood'
      BY <1>1, <1>6, <2>1, EncoderFields DEF StateGood, UnlimitedGood, AtByte, Extending, WantsSlot
    <2> QED
      BY <2>9, <2>10, <2>11, <2>12 DEF EncoderInvariant
  <1> QED
    BY <1>4, <1>5, <1>6 DEF MovePoint

\* The index is far enough on.
LEMMA PointMovedKeeps == ASSUME EncoderInvariant, PointMoved PROVE EncoderInvariant'
  <1>1. /\ at = "move" /\ at' = loop.then /\ loop.then \in {"run", "look"} /\ src.have
        /\ enc' = enc /\ src' = src /\ hash' = hash /\ iopt' = iopt /\ sect' = sect
        /\ MatchType(match) /\ LoopType(loop) /\ SourceGood
    BY EncoderFields DEF PointMoved, PlaceGood
  <1>2. at' \in {"run", "large", "look", "small", "move"} /\ at' # "move"
    BY <1>1
  <1>3. CASE match' = [match EXCEPT !.cksum = SourceEof(src)] /\ loop' = [loop EXCEPT !.next = Unlimited]
    <2>1. src.max \in Nat /\ src.onlast \in Nat /\ BlkSize \in Nat
      BY <1>1, SourceAssumption DEF SourceGood
    <2>2. PICK b \in Nat : b = src.max * BlkSize
      BY <2>1
    <2>3. SourceEof(src) = b + src.onlast /\ SourceEof(src) \in Nat /\ b <= SourceEof(src)
      BY <2>1, <2>2 DEF SourceEof
    <2>4. /\ MatchType(match') /\ match'.state = match.state /\ match'.srcpos = match.srcpos /\ match'.fwd = match.fwd
          /\ match'.cksum = SourceEof(src)
      BY <1>1, <1>3, <2>3 DEF MatchType, MatchFields
    <2>5. LoopType(loop') /\ src.max * BlkSize <= match'.cksum
      BY <1>1, <1>3, <2>2, <2>3, <2>4 DEF LoopType
    <2> QED
      BY <1>1, <1>2, <2>4, <2>5, ByteKeeps
  <1>4. CASE match' = match /\ \E n : loop' = [loop EXCEPT !.next = n]
    <2>1. LoopType(loop')
      BY <1>1, <1>4 DEF LoopType
    <2>2. match'.cksum >= match.cksum
      BY <1>1, <1>4 DEF MatchType
    <2> QED
      BY <1>1, <1>2, <1>4, <2>1, <2>2, ByteKeeps
  <1> QED
    BY <1>3, <1>4 DEF PointMoved

-----------------------------------------------------------------------------
(* The string matcher *)

\* How far the last match begins.
LEMMA LastPlace ==
    ASSUME EncoderInvariant
    PROVE  iopt.used # <<>> => Last(iopt.used).pos \in Nat
  <1> SUFFICES ASSUME iopt.used # <<>> PROVE Last(iopt.used).pos \in Nat
    OBVIOUS
  <1>1. Last(iopt.used) = iopt.used[Len(iopt.used)] /\ Len(iopt.used) \in 1..Len(iopt.used)
    BY EncoderFields, LastMatchedType
  <1> QED
    BY <1>1, EncoderFields, ElementNumbers

\* restartloop
LEMMA RestartKeeps == ASSUME EncoderInvariant, Restart PROVE EncoderInvariant'
  <1>1. /\ at = "restart" /\ src' = src /\ hash' = hash /\ iopt' = iopt /\ sect' = sect /\ Before(enc.pos)
        /\ enc.state = "SEARCH" /\ match.state \notin {"FORWARD", "BACKWARD"}
        /\ MatchType(match) /\ LoopType(loop) /\ SourceGood /\ EncType(enc)
    BY EncoderFields DEF Restart, PlaceGood, StateGood, MatchUnderWay, Extending
  <1>2. CASE enc.pos + SLook > Len(enc.in)
    <2>1. at' = "instr" /\ enc' = enc /\ match' = match /\ loop' = loop
      BY <1>2 DEF Restart
    <2>2. EncoderTypes' /\ InOrder(iopt.used)' /\ MatchUnderWay' /\ SourceGood'
      BY <1>1, <2>1, EncoderFields DEF EncoderTypes, MatchUnderWay, SourceGood
    <2>3. PlaceGood' /\ StateGood' /\ UnlimitedGood'
      BY <1>1, <2>1, EncoderFields DEF PlaceGood, StateGood, UnlimitedGood, AtByte, Extending, WantsSlot
    <2> QED
      BY <2>2, <2>3 DEF EncoderInvariant
  <1>3. CASE ~(enc.pos + SLook > Len(enc.in))
    <2> DEFINE mm == LargerOf(MinMatch, 1 + LastMatched(iopt.used) - enc.pos)
    <2>1. PICK ran : /\ LoopType(ran) /\ enc' = [enc EXCEPT !.minMatch = mm]
                     /\ IF src.have /\ enc.pos + LLook <= Len(enc.in)
                        THEN BeginMove(ran, "run")
                        ELSE at' = "run" /\ loop' = ran /\ UNCHANGED match
      <3> DEFINE last == Input(enc.pos + SLook - 1)
                 same == Agreeing(SLook - 1, LAMBDA k : Input(enc.pos + SLook - 2 - k) = last)
                 ran == [loop EXCEPT !.runL = 1 + same, !.runC = last]
      <3>1. LoopType(ran)
        BY <1>1 DEF LoopType
      <3>2. /\ enc' = [enc EXCEPT !.minMatch = mm]
            /\ IF src.have /\ enc.pos + LLook <= Len(enc.in)
               THEN BeginMove(ran, "run")
               ELSE at' = "run" /\ loop' = ran /\ UNCHANGED match
        BY <1>3, Zenon DEF Restart
      <3> QED
        BY <3>1, <3>2
    <2>2. mm \in Nat /\ mm >= 4 /\ LastMatched(iopt.used) < enc.pos + mm
      BY EncoderFields DEF LargerOf, MinMatch
    <2> HIDE DEF mm
    <2>3. /\ EncType(enc') /\ enc'.minMatch = mm /\ enc'.pos = enc.pos /\ enc'.in = enc.in /\ enc'.state = enc.state
          /\ enc'.ret = enc.ret
      BY <1>1, <2>1, <2>2 DEF EncType, EncFields, MinMatch
    <2>4. /\ MatchType(match') /\ match'.state = match.state /\ match'.srcpos = match.srcpos /\ match'.fwd = match.fwd
          /\ match'.cksum >= match.cksum
          /\ LoopType(loop') /\ (at' = "run" \/ (src.have /\ at' = "move" /\ loop'.then = "run"))
      <3>1. CASE src.have /\ enc.pos + LLook <= Len(enc.in)
        BY <2>1, <3>1, BeginMoveType
      <3>2. CASE ~(src.have /\ enc.pos + LLook <= Len(enc.in))
        BY <1>1, <2>1, <3>2 DEF MatchType
      <3> QED
        BY <3>1, <3>2
    <2>5. StringHere /\ Ready(enc.pos)'
      <3>1. StringHere
        BY <1>3, EncoderFields DEF StringHere, SLook
      <3> QED
        BY <1>1, <2>2, <2>3, <3>1 DEF Ready, Before
    <2>6. SourceGood'
      <3>1. CASE ~src.have
        BY <1>1, <3>1 DEF SourceGood
      <3>2. CASE src.have
        <4>1. src.max * BlkSize <= Len(src.file) \/ src.max * BlkSize <= match'.cksum
          <5>1. src.max \in Nat /\ BlkSize \in Nat /\ match.cksum \in Nat /\ match'.cksum \in Nat
            BY <1>1, <2>4, <3>2, SourceAssumption DEF SourceGood, MatchType
          <5>2. PICK b \in Nat : b = src.max * BlkSize
            BY <5>1
          <5>3. b <= Len(src.file) \/ b <= match.cksum
            BY <1>1, <3>2, <5>2 DEF SourceGood
          <5>4. b <= Len(src.file) \/ b <= match'.cksum
            BY <2>4, <5>1, <5>2, <5>3
          <5> QED
            BY <5>2, <5>4
        <4> QED
          BY <1>1, <2>4, <3>2, <4>1 DEF SourceGood
      <3> QED
        BY <3>1, <3>2
    <2>7. EncoderTypes' /\ InOrder(iopt.used)' /\ MatchUnderWay'
      BY <1>1, <2>3, <2>4, EncoderFields DEF EncoderTypes, MatchUnderWay
    <2>8. PlaceGood'
      BY <1>1, <2>3, <2>4, <2>5 DEF PlaceGood, AtByte, Extending, WantsSlot, StringHere
    <2>9. StateGood' /\ UnlimitedGood'
      BY <1>1, <2>3, <2>4, EncoderFields DEF StateGood, UnlimitedGood, AtByte, Extending, WantsSlot
    <2> QED
      BY <2>6, <2>7, <2>8, <2>9 DEF EncoderInvariant
  <1> QED
    BY <1>2, <1>3

\* A run or a copy is found here.
LEMMA FoundKeeps ==
    ASSUME EncoderInvariant, at \in {"run", "small"}, NEW n \in Nat, n >= enc.minMatch,
           IsInst(loop'.new), loop'.new.pos = enc.pos, loop'.new.size = n, loop'.len = n, loop'.then = "lazy",
           at' = "slot", LoopType(loop'), enc' = enc, src' = src, match' = match, iopt' = iopt, sect' = sect,
           HashType(hash'), hash'.large = hash.large
    PROVE  EncoderInvariant'
  <1>1. Ready(enc.pos) /\ StringHere /\ enc.state = "SEARCH" /\ match.state \notin {"FORWARD", "BACKWARD"}
    BY EncoderFields DEF PlaceGood, AtByte, StateGood, MatchUnderWay, Extending
  <1>2. EncoderTypes' /\ InOrder(iopt.used)' /\ MatchUnderWay' /\ SourceGood'
    BY <1>1, EncoderFields DEF EncoderTypes, MatchUnderWay, SourceGood
  <1>3. NewGood'
    <2>1. End(loop'.new) = enc.pos + n
      BY DEF End
    <2>2. LastMatched(iopt.used) < enc.pos + n /\ n >= MinMatch /\ enc.pos <= enc.pos
      BY <1>1, EncoderFields DEF Ready, MinMatch
    <2> QED
      BY <1>1, <2>1, <2>2 DEF NewGood, Ready, Before, StringHere
  <1>4. PlaceGood'
    BY <1>3 DEF PlaceGood, AtByte, Extending, WantsSlot
  <1>5. StateGood' /\ UnlimitedGood'
    BY <1>1, EncoderFields DEF StateGood, UnlimitedGood, AtByte, Extending, WantsSlot
  <1> QED
    BY <1>2, <1>4, <1>5 DEF EncoderInvariant

\* A run is looked for.
LEMMA TryRunKeeps == ASSUME EncoderInvariant, TryRun PROVE EncoderInvariant'
  <1> DEFINE rem == Len(enc.in) - enc.pos
             same(k) == Input(enc.pos + SLook + k) = loop.runC
             m == Agreeing(rem - SLook, same)
             n == SLook + m
             new == [type |-> RUN, pos |-> enc.pos, size |-> n, addr |-> 0, xtra |-> loop.runC]
  <1>1. /\ at = "run" /\ enc' = enc /\ src' = src /\ match' = match /\ hash' = hash /\ iopt' = iopt /\ sect' = sect
        /\ LoopType(loop) /\ MatchType(match) /\ StringHere /\ HashType(hash)
    BY EncoderFields DEF TryRun, PlaceGood, AtByte
  <1>2. rem - SLook \in Nat
    BY <1>1, EncoderFields DEF StringHere, SLook
  <1>3. m \in 0..(rem - SLook)
    <2>0. PICK left \in Nat : left = rem - SLook
      BY <1>2
    <2> HIDE DEF rem
    <2> DEFINE G == {k \in 0..left : same(k)}
    <2> HIDE DEF G
    <2>1. PICK f \in 0..left : (f = left \/ f \notin G) /\ \A j \in 0..(f - 1) : j \in G
      <3>1. left \in Nat
        BY <2>0
      <3> QED
        BY <3>1, FirstOf
    <2> USE DEF G
    <2>2. (f = left \/ ~same(f)) /\ \A j \in 0..(f - 1) : same(j)
      BY <2>0, <2>1
    <2>3. (CHOOSE k \in 0..left : (k = left \/ ~same(k)) /\ \A j \in 0..(k - 1) : same(j)) \in 0..left
      BY <2>1, <2>2
    <2>4. m = CHOOSE k \in 0..left : (k = left \/ ~same(k)) /\ \A j \in 0..(k - 1) : same(j)
      BY <2>0, Zenon DEF Agreeing
    <2> QED
      BY <2>0, <2>3, <2>4, Zenon
  <1>4. \/ /\ n >= enc.minMatch
           /\ loop' = [[loop EXCEPT !.runL = n] EXCEPT !.new = new, !.len = n, !.then = "lazy"]
           /\ at' = "slot"
        \/ (loop' = [loop EXCEPT !.runL = n] \/ loop' = loop) /\ at' = "large"
    <2>1. new.size = n
      OBVIOUS
    <2>2. CASE loop.runL = SLook /\ n >= enc.minMatch /\ n >= MinRun
      <3>1. Found(new, [loop EXCEPT !.runL = n])
        BY <2>2, Zenon DEF TryRun
      <3>2. loop' = [[loop EXCEPT !.runL = n] EXCEPT !.new = new, !.len = new.size, !.then = "lazy"] /\ at' = "slot"
        BY <3>1, Zenon DEF Found
      <3> QED
        BY <2>1, <2>2, <3>2, Zenon
    <2>3. CASE ~(loop.runL = SLook /\ n >= enc.minMatch /\ n >= MinRun)
      <3>1. loop' = (IF loop.runL = SLook THEN [loop EXCEPT !.runL = n] ELSE loop) /\ at' = "large"
        BY <2>3, Zenon DEF TryRun
      <3> QED
        BY <3>1, Zenon
    <2> QED
      BY <2>2, <2>3
  <1> HIDE DEF rem, m
  <1>5. n \in Nat /\ n >= 4
    BY <1>2, <1>3 DEF SLook
  <1> HIDE DEF n
  <1>6. CASE /\ n >= enc.minMatch
             /\ loop' = [[loop EXCEPT !.runL = n] EXCEPT !.new = new, !.len = n, !.then = "lazy"]
             /\ at' = "slot"
    <2>1. IsInst(new) /\ new.pos = enc.pos /\ new.size = n
      BY <1>5, EncoderFields DEF IsInst, InstFields, MinMatch
    <2> HIDE DEF new
    <2>2. LoopType(loop') /\ loop'.new = new /\ loop'.len = n /\ loop'.then = "lazy"
      BY <1>1, <1>6 DEF LoopType
    <2> QED
      BY <1>1, <1>5, <1>6, <2>1, <2>2, FoundKeeps
  <1>7. CASE (loop' = [loop EXCEPT !.runL = n] \/ loop' = loop) /\ at' = "large"
    <2>1. LoopType(loop')
      BY <1>1, <1>7 DEF LoopType
    <2>2. match'.cksum >= match.cksum /\ MatchType(match')
      BY <1>1 DEF MatchType
    <2> QED
      BY <1>1, <1>7, <2>1, <2>2, ByteKeeps
  <1> QED
    BY <1>4, <1>6, <1>7

\* The index is moved on, or there is no string left to look for.
LEMMA TryLargeKeeps == ASSUME EncoderInvariant, TryLarge PROVE EncoderInvariant'
  <1>1. /\ at = "large" /\ enc' = enc /\ src' = src /\ hash' = hash /\ iopt' = iopt /\ sect' = sect
        /\ LoopType(loop) /\ MatchType(match)
    BY EncoderFields DEF TryLarge
  <1>2. match.cksum >= match.cksum
    BY <1>1 DEF MatchType
  <1>3. CASE at' = "small" /\ match' = match /\ loop' = loop
    BY <1>1, <1>2, <1>3, ByteKeeps
  <1>4. CASE src.have /\ BeginMove(loop, "look")
    <2>1. /\ MatchType(match') /\ match'.state = match.state /\ match'.srcpos = match.srcpos /\ match'.fwd = match.fwd
          /\ match'.cksum >= match.cksum
          /\ LoopType(loop') /\ (at' = "look" \/ (at' = "move" /\ loop'.then = "look"))
      BY <1>1, <1>4, BeginMoveType
    <2>2. at' \in {"run", "large", "look", "small", "move"} /\ (at' # "move" \/ loop'.then \in {"run", "look"})
      BY <2>1
    <2> QED
      BY <1>1, <1>4, <2>1, <2>2, ByteKeeps
  <1>5. CASE src.have /\ at' = "look" /\ match' = match /\ loop' = loop
    BY <1>1, <1>2, <1>5, ByteKeeps
  <1> QED
    BY <1>3, <1>4, <1>5 DEF TryLarge

\* A copy of the source is looked for.
LEMMA LookLargeKeeps == ASSUME EncoderInvariant, LookLarge PROVE EncoderInvariant'
  <1>1. /\ at = "look" /\ enc' = enc /\ src' = src /\ hash' = hash /\ iopt' = iopt /\ sect' = sect
        /\ LoopType(loop) /\ MatchType(match) /\ HashType(hash) /\ SourceGood /\ src.have
        /\ Ready(enc.pos) /\ StringHere /\ enc.state = "SEARCH"
    BY EncoderFields DEF LookLarge, PlaceGood, AtByte, StateGood
  <1>2. PICK b : \/ at' = "small" /\ match' = match /\ loop' = loop
                 \/ /\ b \in DOMAIN hash.large
                    /\ match' = MatchSetup(hash.large[b] - 1)
                    /\ at' = IF match'.state = "BACKWARD" THEN "extend" ELSE "small"
                    /\ loop' = [loop EXCEPT !.then = "loop"]
    <2> DEFINE b == Bucket(String(enc.pos, LLook))
    <2>1. IF b \notin DOMAIN hash.large
          THEN at' = "small" /\ UNCHANGED <<match, loop>>
          ELSE /\ match' = MatchSetup(hash.large[b] - 1)
               /\ at' = IF match'.state = "BACKWARD" THEN "extend" ELSE "small"
               /\ loop' = [loop EXCEPT !.then = "loop"]
      BY Zenon DEF LookLarge
    <2> HIDE DEF b
    <2> QED
      BY <2>1
  <1>3. CASE at' = "small" /\ match' = match /\ loop' = loop
    <2>1. match.cksum >= match.cksum
      BY <1>1 DEF MatchType
    <2> QED
      BY <1>1, <1>3, <2>1, ByteKeeps
  <1>4. CASE /\ b \in DOMAIN hash.large
             /\ match' = MatchSetup(hash.large[b] - 1)
             /\ at' = IF match'.state = "BACKWARD" THEN "extend" ELSE "small"
             /\ loop' = [loop EXCEPT !.then = "loop"]
    <2>1. PICK p \in Nat : p = hash.large[b] - 1 /\ p <= Len(src.file)
      <3>1. hash.large[b] \in Nat \ {0} /\ hash.large[b] - 1 <= Len(src.file)
        BY <1>1, <1>4 DEF HashType, SourceGood
      <3> QED
        BY <3>1
    <2>2. match' = MatchSetup(p)
      BY <1>4, <2>1
    <2>3. /\ MatchType(match') /\ match'.state \in {"SEARCHING", "BACKWARD"} /\ match'.fwd = 0 /\ match'.back = 0
          /\ match'.maxback <= enc.pos /\ match'.cksum = match.cksum /\ match'.srcpos \in {p, match.srcpos}
      BY <1>1, <2>1, <2>2, MatchSetupType
    <2>4. LoopType(loop') /\ loop'.then = "loop"
      BY <1>1, <1>4 DEF LoopType
    <2>5. match'.srcpos <= Len(src.file) /\ match'.srcpos + match'.fwd <= Len(src.file)
      <3>1. match'.srcpos \in Nat /\ match'.srcpos <= Len(src.file)
        BY <1>1, <2>1, <2>3 DEF SourceGood, MatchType
      <3> QED
        BY <2>3, <3>1
    <2>6. SourceGood'
      BY <1>1, <2>3, <2>5 DEF SourceGood
    <2>7. enc.in # <<>>
      BY <1>1, EncoderFields DEF StringHere, SLook
    <2>8. MatchUnderWay'
      <3>1. match'.state = "BACKWARD" => at' = "extend"
        BY <1>4
      <3>2. match'.back <= enc.pos
        BY <2>3, EncoderFields
      <3> QED
        BY <1>1, <2>3, <2>7, <3>1, <3>2 DEF MatchUnderWay, Extending
    <2>9. EncoderTypes' /\ InOrder(iopt.used)'
      BY <1>1, <2>3, <2>4, EncoderFields DEF EncoderTypes
    <2>10. CASE at' = "small"
      <3>1. PlaceGood'
        BY <1>1, <2>10 DEF PlaceGood, AtByte, Extending, WantsSlot, Ready, Before, StringHere
      <3>2. StateGood' /\ UnlimitedGood'
        BY <1>1, <2>10, EncoderFields DEF StateGood, UnlimitedGood, AtByte, Extending, WantsSlot
      <3> QED
        BY <2>6, <2>8, <2>9, <3>1, <3>2 DEF EncoderInvariant
    <2>11. CASE at' = "extend" /\ match'.state = "BACKWARD"
      <3>1. PlaceGood'
        BY <1>1, <2>4, <2>11 DEF PlaceGood, AtByte, Extending, WantsSlot, Ready, Before, StringHere
      <3>2. StateGood' /\ UnlimitedGood'
        BY <1>1, <2>11, EncoderFields DEF StateGood, UnlimitedGood, AtByte, Extending, WantsSlot
      <3> QED
        BY <2>6, <2>8, <2>9, <3>1, <3>2 DEF EncoderInvariant
    <2> QED
      BY <1>4, <2>10, <2>11
  <1> QED
    BY <1>2, <1>3, <1>4

\* How far the input agrees with what is here is at most what is left of it.
LEMMA AgreesHere ==
    ASSUME EncoderInvariant, StringHere, NEW base
    PROVE  AgreesFrom(base) \in Nat
  <1> DEFINE same(k) == Input(base + k) = Input(enc.pos + k)
             left == Len(enc.in) - enc.pos
             G == {k \in 0..left : same(k)}
  <1>1. left \in Nat
    BY EncoderFields DEF StringHere, SLook
  <1> HIDE DEF left, G
  <1>2. PICK f \in 0..left : (f = left \/ f \notin G) /\ \A j \in 0..(f - 1) : j \in G
    BY <1>1, FirstOf
  <1>3. (f = left \/ ~same(f)) /\ \A j \in 0..(f - 1) : same(j)
    BY <1>1, <1>2 DEF G
  <1>4. (CHOOSE k \in 0..left : (k = left \/ ~same(k)) /\ \A j \in 0..(k - 1) : same(j)) \in 0..left
    BY <1>2, <1>3
  <1>5. AgreesFrom(base) = CHOOSE k \in 0..left : (k = left \/ ~same(k)) /\ \A j \in 0..(k - 1) : same(j)
    BY Zenon DEF AgreesFrom, Agreeing, left
  <1>6. AgreesFrom(base) \in 0..left
    BY <1>4, <1>5, Zenon
  <1> QED
    BY <1>1, <1>6

\* A copy of earlier input is looked for.
LEMMA TrySmallKeeps == ASSUME EncoderInvariant, TrySmall PROVE EncoderInvariant'
  <1> DEFINE b == Bucket(String(enc.pos, SLook))
             m == IF b \in DOMAIN hash.small THEN SMatch(hash.small[b] - 1) ELSE <<0, 0>>
             n == IF Inefficient(m[1], enc.pos - m[2]) THEN 0 ELSE m[1]
             new == [type |-> CPY, pos |-> enc.pos, size |-> n, addr |-> m[2], xtra |-> 0]
             mm == LargerOf(MinMatch, enc.minMatch - 1)
  <1>1. /\ at = "small" /\ src' = src /\ match' = match /\ iopt' = iopt /\ sect' = sect
        /\ LoopType(loop) /\ MatchType(match) /\ HashType(hash) /\ SourceGood /\ EncType(enc)
        /\ Ready(enc.pos) /\ StringHere /\ enc.state = "SEARCH" /\ match.state \notin {"FORWARD", "BACKWARD"}
    BY EncoderFields DEF TrySmall, PlaceGood, AtByte, StateGood, MatchUnderWay, Extending
  <1>2. HashType(hash') /\ hash'.large = hash.large
    <2>1. hash' = Inserted(b)
      BY Zenon DEF TrySmall
    <2> HIDE DEF b
    <2>2. PICK s, p : hash' = [hash EXCEPT !.small = s, !.prev = p]
      <3> DEFINE s == Stored(hash.small, b, enc.pos + 1)
                 p == IF SChain = 1 /\ SLChain = 1 THEN hash.prev
                          ELSE Stored(hash.prev, enc.pos % SPrevSize,
                                      IF b \in DOMAIN hash.small THEN hash.small[b] ELSE 0)
      <3>1. hash' = [hash EXCEPT !.small = s, !.prev = p]
        BY <2>1, Zenon DEF Inserted
      <3> QED
        BY <3>1, Zenon
    <2> QED
      BY <1>1, <2>2 DEF HashType
  <1>3. n \in Nat
    <2> HIDE DEF b
    <2>1. m[1] \in Nat
      <3>1. CASE b \in DOMAIN hash.small
        <4>1. PICK longest : SMatch(hash.small[b] - 1) = <<AgreesFrom(longest), longest>>
          BY DEF SMatch
        <4>2. m = <<AgreesFrom(longest), longest>>
          BY <3>1, <4>1, Zenon
        <4>3. m[1] = AgreesFrom(longest)
          BY <4>2
        <4> QED
          BY <1>1, <4>3, AgreesHere
      <3>2. CASE b \notin DOMAIN hash.small
        BY <3>2
      <3> QED
        BY <3>1, <3>2
    <2> HIDE DEF m
    <2> QED
      BY <2>1
  <1>4. \/ n >= enc.minMatch /\ Found(new, loop) /\ enc' = enc
        \/ enc' = [enc EXCEPT !.minMatch = mm] /\ at' = "update" /\ loop' = loop
    <2>1. CASE n >= enc.minMatch
      BY <2>1, Zenon DEF TrySmall
    <2>2. CASE ~(n >= enc.minMatch)
      BY <2>2, Zenon DEF TrySmall
    <2> QED
      BY <2>1, <2>2
  <1> HIDE DEF b, m, n
  <1>5. CASE n >= enc.minMatch /\ Found(new, loop) /\ enc' = enc
    <2>1. IsInst(new) /\ new.pos = enc.pos /\ new.size = n
      BY <1>3, <1>5, EncoderFields DEF IsInst, InstFields, MinMatch
    <2>2. loop' = [loop EXCEPT !.new = new, !.len = new.size, !.then = "lazy"] /\ at' = "slot"
      BY <1>5, Zenon DEF Found
    <2> HIDE DEF new
    <2>3. LoopType(loop') /\ loop'.new = new /\ loop'.len = n /\ loop'.then = "lazy"
      BY <1>1, <2>1, <2>2 DEF LoopType
    <2> QED
      BY <1>1, <1>2, <1>3, <1>5, <2>1, <2>2, <2>3, FoundKeeps
  <1>6. CASE enc' = [enc EXCEPT !.minMatch = mm] /\ at' = "update" /\ loop' = loop
    <2>1. mm \in Nat /\ mm >= 4 /\ mm >= enc.minMatch - 1
      BY EncoderFields DEF LargerOf, MinMatch
    <2> HIDE DEF mm
    <2>2. /\ EncType(enc') /\ enc'.minMatch = mm /\ enc'.pos = enc.pos /\ enc'.in = enc.in /\ enc'.state = enc.state
          /\ enc'.ret = enc.ret
      BY <1>1, <1>6, <2>1 DEF EncType, EncFields, MinMatch
    <2>3. EncoderTypes' /\ InOrder(iopt.used)' /\ MatchUnderWay' /\ SourceGood'
      BY <1>1, <1>2, <1>6, <2>2, EncoderFields DEF EncoderTypes, MatchUnderWay, SourceGood
    <2>4. Ready(enc.pos + 1)' /\ StringHere'
      <3>1. LastMatched(iopt.used) < enc.pos + 1 + mm
        BY <1>1, <2>1, EncoderFields DEF Ready
      <3>2. iopt.used # <<>> => Last(iopt.used).pos < enc.pos + 1
        BY <1>1, LastPlace, EncoderFields DEF Ready, Before
      <3> QED
        BY <1>1, <2>2, <3>1, <3>2 DEF Ready, Before, StringHere
    <2>5. PlaceGood'
      BY <1>6, <2>4 DEF PlaceGood, AtByte, Extending, WantsSlot, StringHere
    <2>6. StateGood' /\ UnlimitedGood'
      BY <1>1, <1>6, <2>2, EncoderFields DEF StateGood, UnlimitedGood, AtByte, Extending, WantsSlot
    <2> QED
      BY <2>3, <2>5, <2>6 DEF EncoderInvariant
  <1> QED
    BY <1>4, <1>5, <1>6

\* HANDLELAZY
LEMMA HandleLazyKeeps == ASSUME EncoderInvariant, HandleLazy PROVE EncoderInvariant'
  <1>1. /\ at = "lazy" /\ src' = src /\ match' = match /\ hash' = hash /\ iopt' = iopt /\ sect' = sect /\ loop' = loop
        /\ EncType(enc) /\ enc.state = "SEARCH" /\ match.state \notin {"FORWARD", "BACKWARD"}
        /\ Before(enc.pos + 1) /\ LastMatched(iopt.used) <= enc.pos + loop.len /\ StringHere
        /\ loop.len \in Nat /\ loop.len >= MinMatch
    BY EncoderFields DEF HandleLazy, PlaceGood, StateGood, MatchUnderWay, Extending
  <1>2. \/ enc' = [enc EXCEPT !.minMatch = loop.len] /\ at' = "update"
        \/ enc' = [enc EXCEPT !.pos = @ + loop.len] /\ at' = "restart"
    BY DEF HandleLazy
  <1>3. PICK len \in Nat : len = loop.len /\ len >= 4
    BY <1>1 DEF MinMatch
  <1>4. CASE enc' = [enc EXCEPT !.minMatch = loop.len] /\ at' = "update"
    <2>1. EncType(enc') /\ enc'.minMatch = len /\ enc'.pos = enc.pos /\ enc'.in = enc.in /\ enc'.state = "SEARCH"
          /\ enc'.ret = enc.ret
      BY <1>1, <1>3, <1>4 DEF EncType, EncFields, MinMatch
    <2>2. EncoderTypes' /\ InOrder(iopt.used)' /\ MatchUnderWay' /\ SourceGood'
      BY <1>1, <2>1, EncoderFields DEF EncoderTypes, MatchUnderWay, SourceGood
    <2>3. Ready(enc.pos + 1)' /\ StringHere'
      <3>1. LastMatched(iopt.used) < enc.pos + 1 + len
        BY <1>1, <1>3, EncoderFields
      <3> QED
        BY <1>1, <2>1, <3>1 DEF Ready, Before, StringHere
    <2>4. PlaceGood'
      BY <1>4, <2>3 DEF PlaceGood, AtByte, Extending, WantsSlot, StringHere
    <2>5. StateGood' /\ UnlimitedGood'
      BY <1>1, <1>4, <2>1, EncoderFields DEF StateGood, UnlimitedGood, AtByte, Extending, WantsSlot
    <2> QED
      BY <2>2, <2>4, <2>5 DEF EncoderInvariant
  <1>5. CASE enc' = [enc EXCEPT !.pos = @ + loop.len] /\ at' = "restart"
    <2>1. EncType(enc') /\ enc'.pos = enc.pos + len /\ enc'.in = enc.in /\ enc'.state = "SEARCH" /\ enc'.ret = enc.ret
      BY <1>1, <1>3, <1>5 DEF EncType, EncFields
    <2>2. EncoderTypes' /\ InOrder(iopt.used)' /\ MatchUnderWay' /\ SourceGood'
      BY <1>1, <2>1, EncoderFields DEF EncoderTypes, MatchUnderWay, SourceGood
    <2>3. Before(enc.pos)'
      <3>1. iopt.used # <<>> => Last(iopt.used).pos < enc.pos + len
        BY <1>1, <1>3, LastPlace, EncoderFields DEF Before
      <3> QED
        BY <1>1, <2>1, <3>1 DEF Before
    <2>4. PlaceGood'
      BY <1>5, <2>3 DEF PlaceGood, AtByte, Extending, WantsSlot
    <2>5. StateGood' /\ UnlimitedGood'
      BY <1>1, <1>5, <2>1, EncoderFields DEF StateGood, UnlimitedGood, AtByte, Extending, WantsSlot
    <2> QED
      BY <2>2, <2>4, <2>5 DEF EncoderInvariant
  <1> QED
    BY <1>2, <1>4, <1>5

\* updateone
LEMMA UpdateOneKeeps == ASSUME EncoderInvariant, UpdateOne PROVE EncoderInvariant'
  <1>1. /\ at = "update" /\ src' = src /\ match' = match /\ hash' = hash /\ iopt' = iopt /\ sect' = sect
        /\ EncType(enc) /\ LoopType(loop) /\ enc.state = "SEARCH" /\ match.state \notin {"FORWARD", "BACKWARD"}
        /\ Ready(enc.pos + 1) /\ StringHere
    BY EncoderFields DEF UpdateOne, PlaceGood, StateGood, MatchUnderWay, Extending
  <1>2. CASE enc.pos + SLook = Len(enc.in)
    <2>1. at' = "instr" /\ enc' = enc /\ loop' = loop
      BY <1>2 DEF UpdateOne
    <2>2. EncoderTypes' /\ InOrder(iopt.used)' /\ MatchUnderWay' /\ SourceGood'
      BY <1>1, <2>1, EncoderFields DEF EncoderTypes, MatchUnderWay, SourceGood
    <2>3. PlaceGood' /\ StateGood' /\ UnlimitedGood'
      BY <1>1, <2>1, EncoderFields DEF PlaceGood, StateGood, UnlimitedGood, AtByte, Extending, WantsSlot
    <2> QED
      BY <2>2, <2>3 DEF EncoderInvariant
  <1>3. CASE enc.pos + SLook # Len(enc.in)
    <2>1. loop' = NextRun(loop, Input(enc.pos + SLook)) /\ enc' = [enc EXCEPT !.pos = @ + 1] /\ at' = "run"
      BY <1>3 DEF UpdateOne
    <2>2. LoopType(loop')
      <3>1. PICK c : loop' = NextRun(loop, c)
        BY <2>1
      <3> QED
        BY <1>1, <3>1 DEF LoopType, NextRun
    <2>3. /\ EncType(enc') /\ enc'.pos = enc.pos + 1 /\ enc'.in = enc.in /\ enc'.state = "SEARCH" /\ enc'.ret = enc.ret
          /\ enc'.minMatch = enc.minMatch
      BY <1>1, <2>1 DEF EncType, EncFields
    <2>4. EncoderTypes' /\ InOrder(iopt.used)' /\ MatchUnderWay' /\ SourceGood'
      BY <1>1, <2>2, <2>3, EncoderFields DEF EncoderTypes, MatchUnderWay, SourceGood
    <2>5. Ready(enc.pos)' /\ StringHere'
      <3>1. enc.pos + 1 + SLook <= Len(enc.in)
        BY <1>1, <1>3, EncoderFields DEF StringHere, SLook
      <3> QED
        BY <1>1, <2>3, <3>1 DEF Ready, Before, StringHere
    <2>6. PlaceGood'
      BY <2>1, <2>5 DEF PlaceGood, AtByte, Extending, WantsSlot
    <2>7. StateGood' /\ UnlimitedGood'
      BY <1>1, <2>1, <2>3, EncoderFields DEF StateGood, UnlimitedGood, AtByte, Extending, WantsSlot
    <2> QED
      BY <2>4, <2>6, <2>7 DEF EncoderInvariant
  <1> QED
    BY <1>2, <1>3

-----------------------------------------------------------------------------
(* From the instruction buffer to the sections *)

\* What an action of the buffer leaves as it is.
OnlyBuffer == enc' = enc /\ src' = src /\ match' = match /\ hash' = hash /\ sect' = sect /\ loop' = loop

\* Such an action keeps what is not about the buffer.
LEMMA OnlyBufferKeeps ==
    ASSUME EncoderInvariant, OnlyBuffer, IoptType(iopt'), at \notin {"client", "extend", "extended"}
    PROVE  EncoderTypes' /\ SourceGood' /\ MatchUnderWay'
  <1>1. EncoderTypes' /\ SourceGood'
    BY EncoderFields DEF OnlyBuffer, EncoderTypes, SourceGood
  <1>2. MatchUnderWay'
    BY EncoderFields DEF OnlyBuffer, MatchUnderWay, Extending
  <1> QED
    BY <1>1, <1>2

\* A new match is put into the buffer.
LEMMA TakeSlotKeeps == ASSUME EncoderInvariant, TakeSlot PROVE EncoderInvariant'
  <1>1. /\ at \in {"slot", "take"} /\ iopt' = [iopt EXCEPT !.used = Append(@, loop.new)] /\ at' = loop.then
        /\ OnlyBuffer /\ NewGood /\ enc.state = "SEARCH" /\ IoptType(iopt)
    BY EncoderFields DEF TakeSlot, OnlyBuffer, PlaceGood, WantsSlot, StateGood
  <1>2. /\ IsInst(loop.new) /\ (iopt.used # <<>> => Last(iopt.used).pos < loop.new.pos)
        /\ LastMatched(iopt.used) < End(loop.new)
    BY <1>1 DEF NewGood, Before
  <1>3. Buffer(iopt.used) /\ InOrder(iopt.used)
    BY EncoderFields
  <1>4. /\ Buffer(Append(iopt.used, loop.new)) /\ InOrder(Append(iopt.used, loop.new))
        /\ Last(Append(iopt.used, loop.new)) = loop.new /\ LastMatched(Append(iopt.used, loop.new)) = End(loop.new)
    BY <1>2, <1>3, AppendOrdered
  <1>5. /\ IoptType(iopt') /\ iopt'.used = Append(iopt.used, loop.new) /\ iopt'.slots = iopt.slots
        /\ iopt'.force = iopt.force
    BY <1>1, <1>4 DEF IoptType
  <1>6. EncoderTypes' /\ SourceGood' /\ MatchUnderWay' /\ InOrder(iopt.used)'
    BY <1>1, <1>4, <1>5, OnlyBufferKeeps
  <1>7. PICK pos \in Nat : pos = loop.new.pos /\ pos <= enc.pos
    BY <1>1 DEF NewGood, IsInst
  <1>8. CASE /\ loop.then = "lazy" /\ StringHere /\ loop.len \in Nat /\ loop.len >= MinMatch
             /\ End(loop.new) = enc.pos + loop.len
    <2>1. Before(enc.pos + 1)' /\ LastMatched(iopt.used)' <= enc.pos + loop.len
      BY <1>1, <1>4, <1>5, <1>7, <1>8, EncoderFields DEF Before, OnlyBuffer
    <2>2. PlaceGood'
      BY <1>1, <1>8, <2>1 DEF PlaceGood, AtByte, Extending, WantsSlot, OnlyBuffer, StringHere
    <2>3. StateGood' /\ UnlimitedGood'
      BY <1>1, <1>5, <1>8, EncoderFields DEF StateGood, UnlimitedGood, AtByte, Extending, WantsSlot, OnlyBuffer
    <2> QED
      BY <1>6, <2>2, <2>3 DEF EncoderInvariant
  <1>9. CASE loop.then = "forward" /\ match.fwd > 0
    <2>1. Before(enc.pos + match.fwd)'
      <3>1. match.fwd \in Nat
        BY EncoderFields DEF MatchType
      <3> QED
        BY <1>1, <1>4, <1>5, <1>7, <1>9, <3>1, EncoderFields DEF Before, OnlyBuffer
    <2>2. PlaceGood'
      BY <1>1, <1>9, <2>1 DEF PlaceGood, AtByte, Extending, WantsSlot, OnlyBuffer
    <2>3. StateGood' /\ UnlimitedGood'
      BY <1>1, <1>5, <1>9, EncoderFields DEF StateGood, UnlimitedGood, AtByte, Extending, WantsSlot, OnlyBuffer
    <2> QED
      BY <1>6, <2>2, <2>3 DEF EncoderInvariant
  <1> QED
    BY <1>1, <1>8, <1>9 DEF NewGood

\* The buffer is full.
LEMMA SlotsFullKeeps == ASSUME EncoderInvariant, SlotsFull PROVE EncoderInvariant'
  <1>1. /\ at = "slot" /\ iopt' = [iopt EXCEPT !.force = FALSE, !.i = 1, !.flushed = 0] /\ at' = "compact"
        /\ OnlyBuffer /\ NewGood /\ enc.state = "SEARCH" /\ IoptType(iopt) /\ iopt.slots # 0
    BY EncoderFields DEF SlotsFull, OnlyBuffer, PlaceGood, WantsSlot, StateGood, FreeSlot
  <1>2. /\ IoptType(iopt') /\ iopt'.used = iopt.used /\ iopt'.slots = iopt.slots /\ iopt'.force = FALSE /\ iopt'.i = 1
    BY <1>1 DEF IoptType
  <1>3. EncoderTypes' /\ SourceGood' /\ MatchUnderWay' /\ InOrder(iopt.used)'
    BY <1>1, <1>2, EncoderFields, OnlyBufferKeeps
  <1>4. NewGood'
    BY <1>1, <1>2 DEF NewGood, OnlyBuffer, Before, StringHere
  <1>5. Apart(iopt.used, iopt.i - 1)'
    BY <1>2 DEF Apart
  <1>6. PlaceGood'
    BY <1>1, <1>4, <1>5 DEF PlaceGood, AtByte, Extending, WantsSlot
  <1>7. StateGood' /\ UnlimitedGood'
    BY <1>1, <1>2, EncoderFields DEF StateGood, UnlimitedGood, AtByte, Extending, WantsSlot, OnlyBuffer
  <1> QED
    BY <1>3, <1>6, <1>7 DEF EncoderInvariant

\* ENC_INSTR
LEMMA InputSearchedKeeps == ASSUME EncoderInvariant, InputSearched PROVE EncoderInvariant'
  <1>1. /\ at = "instr" /\ iopt' = [iopt EXCEPT !.force = TRUE, !.i = 1, !.flushed = 0] /\ at' = "compact"
        /\ enc' = [enc EXCEPT !.state = "INSTR"]
        /\ src' = src /\ match' = match /\ hash' = hash /\ sect' = sect /\ loop' = loop /\ IoptType(iopt) /\ EncType(enc)
        /\ enc.ret # "INPUT" /\ match.state \notin {"FORWARD", "BACKWARD"}
    BY EncoderFields DEF InputSearched, StateGood, MatchUnderWay, Extending
  <1>2. /\ IoptType(iopt') /\ iopt'.used = iopt.used /\ iopt'.slots = iopt.slots /\ iopt'.force = TRUE /\ iopt'.i = 1
    BY <1>1 DEF IoptType
  <1>3. EncType(enc') /\ enc'.ret = enc.ret
    BY <1>1 DEF EncType, EncFields
  <1>4. EncoderTypes' /\ SourceGood' /\ MatchUnderWay' /\ InOrder(iopt.used)'
    BY <1>1, <1>2, <1>3, EncoderFields DEF EncoderTypes, SourceGood, MatchUnderWay
  <1>5. Apart(iopt.used, iopt.i - 1)'
    BY <1>2 DEF Apart
  <1>6. PlaceGood'
    BY <1>1, <1>2, <1>5 DEF PlaceGood, AtByte, Extending, WantsSlot
  <1>7. StateGood' /\ UnlimitedGood'
    BY <1>1, <1>2, <1>3, EncoderFields DEF StateGood, UnlimitedGood, AtByte, Extending, WantsSlot
  <1> QED
    BY <1>4, <1>6, <1>7 DEF EncoderInvariant

\* A new match that waits for a slot goes by the end of the buffer alone.
LEMMA NewGoodKeeps ==
    ASSUME NewGood, enc' = enc, match'.fwd = match.fwd, loop' = loop, Buffer(iopt'.used),
           Buffer(iopt.used), iopt'.used # <<>> => iopt.used # <<>> /\ Last(iopt'.used) = Last(iopt.used)
    PROVE  NewGood'
  <1>1. Before(loop.new.pos)'
    BY DEF NewGood, Before
  <1>2. LastMatched(iopt'.used) < End(loop.new)
    <2>1. CASE iopt'.used = <<>>
      <3>1. End(loop.new) \in Nat /\ End(loop.new) > loop.new.pos /\ loop.new.pos \in Nat
        BY InstNumbers DEF NewGood
      <3> QED
        BY <2>1, <3>1 DEF LastMatched
    <2>2. CASE iopt'.used # <<>>
      <3>1. LastMatched(iopt'.used) = LastMatched(iopt.used)
        BY <2>2 DEF LastMatched
      <3> QED
        BY <3>1 DEF NewGood
    <2> QED
      BY <2>1, <2>2
  <1> QED
    BY <1>1, <1>2 DEF NewGood, Before, StringHere

\* A round of compacting.
LEMMA CompactStepKeeps == ASSUME EncoderInvariant, CompactStep PROVE EncoderInvariant'
  <1> DEFINE c == Compact(iopt.used, iopt.i)
  <1>1. /\ at = "compact" /\ iopt' = [iopt EXCEPT !.used = c.q, !.i = c.i] /\ at' = at
        /\ OnlyBuffer /\ IoptType(iopt) /\ Apart(iopt.used, iopt.i - 1)
        /\ Buffer(iopt.used) /\ InOrder(iopt.used) /\ ~CompactionOver
    BY EncoderFields DEF CompactStep, OnlyBuffer, PlaceGood
  <1>2. PICK i \in Nat \ {0} : i = iopt.i
    BY <1>1 DEF IoptType
  <1>3. Len(iopt.used) \in Nat
    BY <1>1, ElementNumbers
  <1>4. i < Len(iopt.used) /\ ~Undecided(iopt.used, i, iopt.force)
    BY <1>1, <1>2, <1>3 DEF CompactionOver
  <1>5. /\ Buffer(c.q) /\ InOrder(c.q) /\ c.i \in Nat \ {0} /\ Apart(c.q, c.i - 1)
        /\ ~Undecided(iopt.used, i, FALSE) => c.q # <<>> /\ Last(c.q) = Last(iopt.used)
    BY <1>1, <1>2, <1>4, CompactOrdered
  <1> HIDE DEF c
  <1>6. /\ IoptType(iopt') /\ iopt'.used = c.q /\ iopt'.i = c.i /\ iopt'.slots = iopt.slots /\ iopt'.force = iopt.force
    BY <1>1, <1>5 DEF IoptType
  <1>7. EncoderTypes' /\ SourceGood' /\ MatchUnderWay' /\ InOrder(iopt.used)'
    BY <1>1, <1>5, <1>6, OnlyBufferKeeps
  <1>8. ~iopt.force => NewGood'
    <2> SUFFICES ASSUME ~iopt.force PROVE NewGood'
      OBVIOUS
    <2>1. NewGood
      BY <1>1, EncoderFields DEF PlaceGood, WantsSlot
    <2>2. ~Undecided(iopt.used, i, FALSE)
      BY <1>4 DEF Undecided
    <2>3. iopt.used # <<>>
      BY <1>2, <1>4
    <2> QED
      BY <1>1, <1>5, <1>6, <2>1, <2>2, <2>3, NewGoodKeeps DEF OnlyBuffer
  <1>9. PlaceGood'
    BY <1>1, <1>5, <1>6, <1>8 DEF PlaceGood, AtByte, Extending, WantsSlot
  <1>10. StateGood' /\ UnlimitedGood'
    BY <1>1, <1>6, EncoderFields DEF StateGood, UnlimitedGood, AtByte, Extending, WantsSlot, OnlyBuffer
  <1> QED
    BY <1>7, <1>9, <1>10 DEF EncoderInvariant

\* The buffer is compacted.
LEMMA CompactedKeeps == ASSUME EncoderInvariant, Compacted PROVE EncoderInvariant'
  <1>1. /\ at = "compact" /\ iopt' = iopt /\ at' = "pick" /\ CompactionOver
        /\ OnlyBuffer /\ IoptType(iopt) /\ Apart(iopt.used, iopt.i - 1) /\ Buffer(iopt.used)
    BY EncoderFields DEF Compacted, OnlyBuffer, PlaceGood
  <1>2. EncoderTypes' /\ SourceGood' /\ MatchUnderWay' /\ InOrder(iopt.used)'
    BY <1>1, EncoderFields, OnlyBufferKeeps
  <1>3. PlaceGood'
    <2>1. ~iopt.force => NewGood'
      BY <1>1, EncoderFields DEF PlaceGood, WantsSlot, NewGood, OnlyBuffer, Before, StringHere
    <2> QED
      BY <1>1, <2>1 DEF PlaceGood, AtByte, Extending, WantsSlot
  <1>4. iopt.slots = 0 => iopt.force /\ sect.unenc = 0
    BY <1>1, EncoderFields DEF UnlimitedGood
  <1>5. iopt.force => Apart(iopt.used, Len(iopt.used))
    <2> SUFFICES ASSUME iopt.force PROVE Apart(iopt.used, Len(iopt.used))
      OBVIOUS
    <2>1. PICK i \in Nat \ {0} : i = iopt.i
      BY <1>1 DEF IoptType
    <2>2. Len(iopt.used) \in Nat
      BY <1>1, ElementNumbers
    <2>3. i >= Len(iopt.used)
      BY <1>1, <2>1, <2>2 DEF CompactionOver, Undecided
    <2>4. Apart(iopt.used, i - 1)
      BY <1>1, <2>1
    <2>5. \A k \in 1..Len(iopt.used) : k < Len(iopt.used) => k \in 1..(i - 1)
      BY <2>2, <2>3
    <2> QED
      BY <2>4, <2>5 DEF Apart
  <1>6. iopt.used # <<>> => Head(iopt.used).pos >= 0
    <2> SUFFICES ASSUME iopt.used # <<>> PROVE Head(iopt.used).pos >= 0
      OBVIOUS
    <2>1. Len(iopt.used) \in 1..Len(iopt.used) /\ Head(iopt.used) = iopt.used[1]
      BY <1>1, LastMatchedType
    <2>2. 1 \in 1..Len(iopt.used)
      BY <2>1
    <2> QED
      BY <1>1, <2>1, <2>2, ElementNumbers
  <1>7. UnlimitedGood'
    BY <1>1, <1>4, <1>5, <1>6 DEF UnlimitedGood, OnlyBuffer
  <1>8. StateGood'
    BY <1>1, EncoderFields DEF StateGood, AtByte, Extending, WantsSlot, OnlyBuffer
  <1> QED
    BY <1>2, <1>3, <1>7, <1>8 DEF EncoderInvariant

\* There are free slots again.
LEMMA SlotsEmptiedKeeps == ASSUME EncoderInvariant, SlotsEmptied PROVE EncoderInvariant'
  <1>1. /\ at = "pick" /\ iopt' = iopt /\ at' = "take" /\ ~iopt.force /\ OnlyBuffer
        /\ NewGood /\ enc.state = "SEARCH" /\ IoptType(iopt) /\ iopt.slots # 0
    BY EncoderFields DEF SlotsEmptied, OnlyBuffer, PlaceGood, WantsSlot, StateGood, UnlimitedGood
  <1>2. EncoderTypes' /\ SourceGood' /\ MatchUnderWay' /\ InOrder(iopt.used)'
    BY <1>1, EncoderFields, OnlyBufferKeeps
  <1>3. NewGood'
    BY <1>1 DEF NewGood, OnlyBuffer, Before, StringHere
  <1>4. PlaceGood'
    BY <1>1, <1>3 DEF PlaceGood, AtByte, Extending, WantsSlot
  <1>5. StateGood' /\ UnlimitedGood'
    BY <1>1, EncoderFields DEF StateGood, UnlimitedGood, AtByte, Extending, WantsSlot, OnlyBuffer
  <1> QED
    BY <1>2, <1>4, <1>5 DEF EncoderInvariant

\* An instruction is encoded: its bytes are put behind the others.
LEMMA OperandsType ==
    ASSUME NEW s, SectType(s), NEW inst, NEW window
    PROVE  SectType(WithOperands(s, inst, window).s) /\ WithOperands(s, inst, window).s.unenc = s.unenc
  <1>0. ADD # RUN
    BY DEF ADD, RUN
  <1>1. CASE inst.type = RUN
    <2>0. inst.type # ADD
      BY <1>0, <1>1
    <2>1. WithOperands(s, inst, window) = [s |-> [s EXCEPT !.data = Append(@, inst.xtra)], inst |-> inst]
      BY <1>1, <2>0, Zenon DEF WithOperands
    <2> QED
      BY <2>1 DEF SectType
  <1>2. CASE inst.type = ADD
    <2>0. inst.type # RUN
      BY <1>0, <1>2
    <2>1. WithOperands(s, inst, window) = [s |-> [s EXCEPT !.data = @ \o String(inst.pos, inst.size)], inst |-> inst]
      BY <1>2, <2>0, Zenon DEF WithOperands
    <2> QED
      BY <2>1 DEF SectType
  <1>3. CASE inst.type # RUN /\ inst.type # ADD
    <2> DEFINE taroff == IF window.have THEN window.len ELSE 0
               addr   == IF window.have /\ inst.xtra = 1 THEN inst.addr - window.base
                         ELSE inst.addr + taroff
               e      == EncodeAddress(s.cache, addr, inst.pos + taroff)
    <2>1. WithOperands(s, inst, window) =
             [s |-> [s EXCEPT !.addr = @ \o e.bytes, !.cache = UpdateCache(@, addr)],
              inst |-> [inst EXCEPT !.type = CPY + e.mode]]
      BY <1>3, Zenon DEF WithOperands
    <2> DEFINE i == [inst EXCEPT !.type = CPY + e.mode]
               t == [s EXCEPT !.addr = @ \o e.bytes, !.cache = UpdateCache(@, addr)]
    <2>2. WithOperands(s, inst, window) = [s |-> t, inst |-> i]
      BY <2>1, Zenon
    <2> HIDE DEF e, addr
    <2>3. SectType(t) /\ t.unenc = s.unenc
      BY DEF SectType
    <2> HIDE DEF t, i
    <2> QED
      BY <2>2, <2>3
  <1> QED
    BY <1>1, <1>2, <1>3

\* The code of an instruction.
LEMMA EmittedType ==
    ASSUME NEW s, SectType(s), NEW code, NEW inst
    PROVE  SectType(Emitted(s, code, inst)) /\ Emitted(s, code, inst).unenc = s.unenc
  <1> DEFINE i == s.inst \o <<code>> \o (IF CodeTable[code + 1].size1 = 0 THEN EmitSize(inst.size) ELSE <<>>)
  <1>1. Emitted(s, code, inst) = [s EXCEPT !.inst = i]
    BY DEF Emitted
  <1> HIDE DEF i
  <1> QED
    BY <1>1 DEF SectType

\* How far the window is encoded after an instruction.
LEMMA FinishType ==
    ASSUME NEW s, SectType(s), NEW given, given.size \in Nat, NEW window
    PROVE  /\ SectType(FinishEncoding(s, given, window))
           /\ FinishEncoding(s, given, window).unenc = s.unenc + given.size
  <1> DEFINE w == WithOperands(s, given, window)
             pair == PairCode(s.iout, w.inst)
             next == [w.s EXCEPT !.unenc = @ + given.size]
  <1>1. SectType(w.s) /\ w.s.unenc = s.unenc
    BY OperandsType
  <1>2. SectType(next) /\ next.unenc = s.unenc + given.size
    <2> HIDE DEF w
    <2> QED
      BY <1>1 DEF SectType
  <1>3. \/ FinishEncoding(s, given, window) = [next EXCEPT !.iout = w.inst]
        \/ FinishEncoding(s, given, window) = [Emitted(next, pair, w.inst) EXCEPT !.iout = NoInst]
        \/ FinishEncoding(s, given, window) = [Emitted(next, Code1(s.iout), s.iout) EXCEPT !.iout = w.inst]
    <2>1. CASE s.iout = NoInst
      BY <2>1, Zenon DEF FinishEncoding
    <2>2. CASE s.iout # NoInst /\ pair # 0
      BY <2>2, Zenon DEF FinishEncoding
    <2>3. CASE ~(s.iout = NoInst) /\ ~(s.iout # NoInst /\ pair # 0)
      BY <2>3, Zenon DEF FinishEncoding
    <2> QED
      BY <2>1, <2>2, <2>3
  <1> HIDE DEF w, pair, next
  <1>4. ASSUME NEW t, SectType(t), t.unenc = s.unenc + given.size, NEW i
        PROVE  SectType([t EXCEPT !.iout = i]) /\ [t EXCEPT !.iout = i].unenc = s.unenc + given.size
    BY <1>4 DEF SectType
  <1>5. CASE FinishEncoding(s, given, window) = [next EXCEPT !.iout = w.inst]
    BY <1>2, <1>4, <1>5
  <1>6. CASE FinishEncoding(s, given, window) = [Emitted(next, pair, w.inst) EXCEPT !.iout = NoInst]
    <2>1. SectType(Emitted(next, pair, w.inst)) /\ Emitted(next, pair, w.inst).unenc = s.unenc + given.size
      BY <1>2, EmittedType
    <2> QED
      BY <1>4, <1>6, <2>1
  <1>7. CASE FinishEncoding(s, given, window) = [Emitted(next, Code1(s.iout), s.iout) EXCEPT !.iout = w.inst]
    <2>1. SectType(Emitted(next, Code1(s.iout), s.iout)) /\ Emitted(next, Code1(s.iout), s.iout).unenc = s.unenc + given.size
      BY <1>2, EmittedType
    <2> QED
      BY <1>4, <1>7, <2>1
  <1> QED
    BY <1>3, <1>5, <1>6, <1>7

\* What no match covers is encoded up to a place that is not encoded yet.
LEMMA AddType ==
    ASSUME NEW s, SectType(s), NEW pos \in Nat, NEW window
    PROVE  /\ SectType(AddUpTo(s, pos, window))
           /\ AddUpTo(s, pos, window).unenc \in Nat
           /\ pos >= s.unenc => AddUpTo(s, pos, window).unenc = pos
  <1>1. s.unenc \in Nat
    BY DEF SectType
  <1>2. CASE pos > s.unenc
    <2>1. PICK n \in Nat : n = pos - s.unenc
      BY <1>1, <1>2
    <2> DEFINE add == [type |-> ADD, pos |-> s.unenc, size |-> pos - s.unenc, addr |-> 0, xtra |-> 0]
    <2>2. AddUpTo(s, pos, window) = FinishEncoding(s, add, window)
      BY <1>2, Zenon DEF AddUpTo
    <2>3. add.size = n
      BY <2>1
    <2> HIDE DEF add
    <2>4. SectType(FinishEncoding(s, add, window)) /\ FinishEncoding(s, add, window).unenc = s.unenc + n
      BY <2>3, FinishType
    <2>5. s.unenc + n = pos
      BY <1>1, <2>1
    <2> QED
      BY <2>2, <2>4, <2>5
  <1>3. CASE ~(pos > s.unenc)
    <2>1. AddUpTo(s, pos, window) = s
      BY <1>3, Zenon DEF AddUpTo
    <2> QED
      BY <1>1, <1>3, <2>1
  <1> QED
    BY <1>2, <1>3

\* The window of the source that is decided on.
LEMMA DecidedSource ==
    ASSUME EncoderInvariant
    PROVE  \/ SrcwinDecided = src
           \/ src.have /\ \E b \in Nat, n \in Int : SrcwinDecided = [src EXCEPT !.len = n, !.base = b]
  <1>1. CASE ~src.have \/ match.decided
    BY <1>1, Zenon DEF SrcwinDecided
  <1>2. CASE ~(~src.have \/ match.decided)
    <2>1. SrcwinDecided = [src EXCEPT !.len = SrcwinLen,
                             !.base = IF enc.state = "INSTR" /\ match.max = 0 THEN src.base ELSE match.min]
      BY <1>2, Zenon DEF SrcwinDecided
    <2>2. /\ src.base \in Nat /\ src.max \in Nat /\ src.onlast \in Nat /\ match.min \in Nat /\ match.max \in Nat
          /\ Len(enc.in) \in Nat /\ BlkSize \in Nat
      BY <1>2, EncoderFields, SourceAssumption DEF SourceGood, MatchType
    <2>3. SrcwinLen \in Int
      <3>1. SourceEof(src) \in Int
        BY <2>2 DEF SourceEof
      <3>2. \A n \in Nat : n \div 4 \in Int
        OBVIOUS
      <3>3. Len(enc.in) \div 4 \in Int
        BY <2>2, <3>2
      <3>4. GuessedLen \in Int
        <4>1. PICK quarter \in Int : quarter = Len(enc.in) \div 4
          BY <3>3
        <4>2. PICK eof \in Int : eof = SourceEof(src)
          BY <3>1
        <4>3. PICK n \in Int : n = LargerOf(match.max - match.min, Len(enc.in) + quarter)
          <5>1. PICK d \in Int : d = match.max - match.min
            BY <2>2
          <5>2. PICK t \in Int : t = Len(enc.in) + quarter
            <6>1. \A x \in Nat, y \in Int : x + y \in Int
              OBVIOUS
            <6> QED
              BY <2>2, <4>1, <6>1
          <5>3. LargerOf(d, t) \in Int
            BY DEF LargerOf
          <5> QED
            BY <5>1, <5>2, <5>3, Zenon
        <4>4. GuessedLen = IF src.eof THEN SmallerOf(n, eof - match.min) ELSE n
          BY <4>1, <4>2, <4>3, Zenon DEF GuessedLen
        <4> QED
          BY <2>2, <4>2, <4>3, <4>4 DEF SmallerOf
      <3>5. \/ SrcwinLen = 0 \/ SrcwinLen = match.max - match.min \/ SrcwinLen = GuessedLen
        <4>1. CASE enc.state = "INSTR" /\ match.max = 0
          <5>1. ~(match.max > 0)
            BY <2>2, <4>1
          <5> QED
            BY <4>1, <5>1, Zenon DEF SrcwinLen
        <4>2. CASE enc.state = "INSTR" /\ match.max > 0
          <5>1. match.max # 0
            BY <2>2, <4>2
          <5> QED
            BY <4>2, <5>1, Zenon DEF SrcwinLen
        <4>3. CASE ~(enc.state = "INSTR" /\ match.max = 0) /\ ~(enc.state = "INSTR" /\ match.max > 0)
          BY <4>3, Zenon DEF SrcwinLen
        <4> QED
          BY <4>1, <4>2, <4>3
      <3> QED
        BY <2>2, <3>4, <3>5
    <2>4. (IF enc.state = "INSTR" /\ match.max = 0 THEN src.base ELSE match.min) \in Nat
      BY <2>2
    <2> QED
      BY <1>2, <2>1, <2>3, <2>4
  <1> QED
    BY <1>1, <1>2

\* The front of the buffer is encoded.
LEMMA EncodeFrontKeeps == ASSUME EncoderInvariant, EncodeFront PROVE EncoderInvariant'
  <1> DEFINE inst == Head(iopt.used)
             window == IF inst.type = RUN THEN src ELSE SrcwinDecided
  <1>1. /\ at = "pick" /\ iopt.used # <<>>
        /\ src' = window
        /\ match' = [match EXCEPT !.decided = @ \/ (src.have /\ inst.type # RUN)]
        /\ sect' = FinishEncoding(AddUpTo(sect, inst.pos, window), inst, window)
        /\ iopt' = [iopt EXCEPT !.used = Tail(@), !.flushed = @ + 1]
        /\ enc' = enc /\ at' = at /\ hash' = hash /\ loop' = loop
    BY DEF EncodeFront
  <1>2. /\ MatchType(match) /\ IoptType(iopt) /\ SectType(sect) /\ SourceGood /\ InOrder(iopt.used) /\ Buffer(iopt.used)
        /\ match.state \notin {"FORWARD", "BACKWARD"}
    BY <1>1, EncoderFields DEF MatchUnderWay, Extending
  <1>3. \/ src' = src
        \/ src.have /\ \E b \in Nat, n \in Int : src' = [src EXCEPT !.len = n, !.base = b]
    BY <1>1, DecidedSource
  <1> HIDE DEF window
  <1>4. /\ SrcType(src') /\ src'.have = src.have
        /\ src.have => /\ src'.max = src.max /\ src'.onlast = src.onlast /\ src'.file = src.file
                       /\ src'.base \in Nat /\ src'.len \in Int
    <2>1. CASE src' = src
      BY <1>2, <2>1 DEF SourceGood
    <2>2. CASE src.have /\ \E b \in Nat, n \in Int : src' = [src EXCEPT !.len = n, !.base = b]
      BY <1>2, <2>2 DEF SourceGood, SrcType, SrcFields
    <2> QED
      BY <1>3, <2>1, <2>2
  <1>5. /\ MatchType(match') /\ match'.state = match.state /\ match'.srcpos = match.srcpos /\ match'.fwd = match.fwd
        /\ match'.cksum = match.cksum
    BY <1>1, <1>2 DEF MatchType, MatchFields
  <1>6. SourceGood'
    BY <1>1, <1>2, <1>4, <1>5 DEF SourceGood
  <1>7. /\ Len(iopt.used) \in 1..Len(iopt.used) /\ inst = iopt.used[1] /\ IsInst(inst)
        /\ inst.pos \in Nat /\ inst.size \in Nat /\ End(inst) = inst.pos + inst.size
    <2>1. Len(iopt.used) \in 1..Len(iopt.used) /\ inst = iopt.used[1]
      BY <1>1, <1>2, LastMatchedType
    <2>2. 1 \in 1..Len(iopt.used)
      BY <2>1
    <2> QED
      BY <1>2, <2>1, <2>2, ElementNumbers
  <1>8. /\ Buffer(Tail(iopt.used)) /\ InOrder(Tail(iopt.used))
        /\ Tail(iopt.used) # <<>> => Last(Tail(iopt.used)) = Last(iopt.used)
        /\ Apart(iopt.used, Len(iopt.used)) => /\ Apart(Tail(iopt.used), Len(Tail(iopt.used)))
                                               /\ Tail(iopt.used) # <<>> => Head(Tail(iopt.used)).pos >= End(inst)
    BY <1>1, <1>2, TailOrdered
  <1> HIDE DEF inst
  <1>9. /\ IoptType(iopt') /\ iopt'.used = Tail(iopt.used) /\ iopt'.slots = iopt.slots /\ iopt'.force = iopt.force
    BY <1>1, <1>2, <1>8 DEF IoptType
  <1>10. SectType(sect') /\ (inst.pos >= sect.unenc => sect'.unenc = End(inst))
    <2>1. /\ SectType(AddUpTo(sect, inst.pos, window))
          /\ inst.pos >= sect.unenc => AddUpTo(sect, inst.pos, window).unenc = inst.pos
      BY <1>2, <1>7, AddType
    <2> DEFINE s == AddUpTo(sect, inst.pos, window)
    <2> HIDE DEF s
    <2>2. SectType(FinishEncoding(s, inst, window)) /\ FinishEncoding(s, inst, window).unenc = s.unenc + inst.size
      BY <1>7, <2>1, FinishType DEF s
    <2>3. sect' = FinishEncoding(s, inst, window)
      BY <1>1 DEF s
    <2>4. inst.pos >= sect.unenc => s.unenc = inst.pos
      BY <2>1 DEF s
    <2> QED
      BY <1>7, <2>2, <2>3, <2>4
  <1>11. EncoderTypes' /\ MatchUnderWay' /\ InOrder(iopt.used)'
    BY <1>1, <1>2, <1>5, <1>8, <1>9, <1>10, EncoderFields DEF EncoderTypes, MatchUnderWay
  <1>12. ~iopt.force => NewGood'
    <2> SUFFICES ASSUME ~iopt.force PROVE NewGood'
      OBVIOUS
    <2>1. NewGood
      BY <1>1, EncoderFields DEF PlaceGood, WantsSlot
    <2> QED
      BY <1>1, <1>2, <1>5, <1>8, <1>9, <2>1, NewGoodKeeps
  <1>13. PlaceGood'
    BY <1>1, <1>9, <1>12 DEF PlaceGood, AtByte, Extending, WantsSlot
  <1>14. StateGood'
    BY <1>1, <1>4, <1>9, EncoderFields DEF StateGood, AtByte, Extending, WantsSlot
  <1>15. UnlimitedGood'
    <2>1. iopt.slots = 0 => iopt.force /\ Apart(iopt.used, Len(iopt.used)) /\ inst.pos >= sect.unenc
      BY <1>1, EncoderFields DEF UnlimitedGood, inst
    <2> QED
      BY <1>1, <1>8, <1>9, <1>10, <2>1 DEF UnlimitedGood
  <1> QED
    BY <1>6, <1>11, <1>13, <1>14, <1>15 DEF EncoderInvariant

\* xd3_iopt_add_finalize
LEMMA FinalizeKeeps == ASSUME EncoderInvariant, Finalize PROVE EncoderInvariant'
  <1> DEFINE s == AddUpTo(sect, Len(enc.in), src)
  <1>1. /\ at = "pick" /\ iopt.used = <<>> /\ at' = "header"
        /\ sect' = IF s.iout = NoInst THEN s ELSE [Emitted(s, Code1(s.iout), s.iout) EXCEPT !.iout = NoInst]
        /\ enc' = enc /\ src' = src /\ match' = match /\ hash' = hash /\ iopt' = iopt /\ loop' = loop
    BY DEF Finalize
  <1>2. SectType(s)
    BY EncoderFields, AddType
  <1> HIDE DEF s
  <1>3. SectType(Emitted(s, Code1(s.iout), s.iout))
    BY <1>2, EmittedType
  <1>4. SectType(sect')
    BY <1>1, <1>2, <1>3 DEF SectType
  <1>5. EncoderTypes' /\ SourceGood' /\ InOrder(iopt.used)' /\ MatchUnderWay'
    BY <1>1, <1>4, EncoderFields DEF EncoderTypes, SourceGood, MatchUnderWay, Extending
  <1>6. PlaceGood' /\ StateGood' /\ UnlimitedGood'
    BY <1>1, EncoderFields DEF PlaceGood, StateGood, UnlimitedGood, AtByte, Extending, WantsSlot
  <1> QED
    BY <1>5, <1>6 DEF EncoderInvariant

-----------------------------------------------------------------------------
(* The encoder in code() *)

\* Every step of the encoder keeps the invariant.
LEMMA EncodeStepKeeps == ASSUME EncoderInvariant, EncodeStep PROVE EncoderInvariant'
  BY StartWindowKeeps, SearchKeeps, ExtendBackKeeps, ExtendForwardKeeps, MatchExtendedKeeps, MoveOnKeeps,
     MovePointKeeps, PointMovedKeeps, RestartKeeps, TryRunKeeps, TryLargeKeeps, LookLargeKeeps, TrySmallKeeps,
     HandleLazyKeeps, UpdateOneKeeps, TakeSlotKeeps, SlotsFullKeeps, InputSearchedKeeps, CompactStepKeeps,
     CompactedKeeps, EncodeFrontKeeps, SlotsEmptiedKeeps, FinalizeKeeps, EmitHeaderKeeps, PostOutKeeps, PostWinKeeps
  DEF EncodeStep

\* code() begins with an encoder that has been given nothing.
LEMMA EncoderInit == Init => EncoderInvariant
  <1> SUFFICES ASSUME Init PROVE EncoderInvariant
    OBVIOUS
  <1>1. PICK c \in Cases : EncodeInit(Opened(c.source, c.opened # "neither"), c.slots)
    BY DEF Init
  <1>2. c.source \in Seq(Byte) /\ c.slots \in Nat
    BY LoopAssumption
  <1>3. (c.opened # "neither") \in BOOLEAN
    OBVIOUS
  <1> QED
    BY <1>1, <1>2, <1>3, EncodeInitType

\* Every step of the two loops of code() keeps the invariant.
LEMMA EncoderNext == JobType(job) /\ EncoderInvariant /\ [Next]_allVars => EncoderInvariant'
  <1> SUFFICES ASSUME JobType(job), EncoderInvariant, [Next]_allVars
               PROVE  EncoderInvariant'
    OBVIOUS
  <1>1. CASE ReadInput
    <2>1. NextChunk \in Seq(Byte) /\ AvailInput(NextChunk, Len(NextChunk) < job.case.chunk)
      BY <1>1, ChunkType DEF ReadInput
    <2> QED
      BY <2>1, AvailInputKeeps
  <1>2. CASE ReadPatch \/ WriteTarget \/ WriteTargetShort \/ Decode \/ Applied \/ Refuse
    BY <1>2, UnchangedEncoder DEF ReadPatch, WriteTarget, WriteTargetShort, Decode, Applied, Refuse
  <1>3. CASE WritePatch
    BY <1>3, ConsumeOutputKeeps DEF WritePatch
  <1>4. CASE LoadBlock
    BY <1>4, UnchangedEncoder, SupplyBlockKeeps DEF LoadBlock
  <1>5. CASE GoOn
    BY <1>5, UnchangedEncoder, GoOnEncodingKeeps DEF GoOn
  <1>6. CASE Encode
    BY <1>6, EncodeStepKeeps DEF Encode
  <1>7. CASE Created
    <2>1. EncodeFreed /\ at = "client" /\ enc.ret = "INPUT"
      BY <1>7 DEF Created
    <2>2. enc.state = "INPUT"
      BY <2>1, EncoderFields DEF StateGood
    <2> QED
      BY <2>1, <2>2, EncodeFreedKeeps
  <1>8. CASE UNCHANGED allVars
    BY <1>8, UnchangedEncoder DEF allVars
  <1> QED
    BY <1>1, <1>2, <1>3, <1>4, <1>5, <1>6, <1>7, <1>8 DEF Next

\* xd3_encode_input is where EncoderInvariant says, for every source, target,
\* block size, window size, size of the instruction buffer and way to call it.
THEOREM EncoderSafe == Spec => []EncoderInvariant
  <1>1. Spec => [](JobType(job) /\ DecoderInvariant /\ EncoderInvariant)
    BY DecoderInit, DecoderNext, EncoderInit, EncoderNext, PTL DEF Spec
  <1> QED
    BY <1>1, PTL

\* The invariant says what BufferInOrder says.
LEMMA InvariantBuffer == EncoderInvariant => BufferInOrder
  <1> SUFFICES ASSUME EncoderInvariant PROVE BufferInOrder
    OBVIOUS
  <1>1. Buffer(iopt.used) /\ InOrder(iopt.used)
    BY EncoderFields
  <1>2. \A i \in 1..Len(iopt.used) : iopt.used[i].size >= MinMatch
    BY <1>1, ElementNumbers
  <1> QED
    BY <1>1, <1>2 DEF BufferInOrder, InOrder

\* xd3_iopt_check: the matches of the instruction buffer begin and end one
\* behind the other, and none is shorter than MIN_MATCH, however they came to
\* be there, were cut, dropped and split.
THEOREM BufferSafe == Spec => []BufferInOrder
  <1> QED
    BY EncoderSafe, InvariantBuffer, PTL

-----------------------------------------------------------------------------
(* What the encoder puts out: the second invariant, which rests on the first *)

\* Where the window of the source begins and ends, or will as far as the matches go.
WindowFrom == IF match.decided THEN src.base ELSE match.min
WindowTo   == IF match.decided THEN src.base + src.len ELSE match.max

\* What r writes is what the input has there, and what it copies is in the window.
RightIn(r, in, s, lo, hi) ==
    /\ r.type \in {RUN, CPY} /\ r.addr \in Nat /\ End(r) <= Len(in)
    /\ r.type = RUN => \A i \in (r.pos + 1)..End(r) : in[i] = r.xtra
    /\ FromSource(r) =>
          /\ s.have /\ r.addr + r.size <= Len(s.file) /\ lo <= r.addr /\ r.addr + r.size <= hi
          /\ \A i \in (r.pos + 1)..End(r) : in[i] = s.file[i - r.pos + r.addr]
    /\ r.type = CPY /\ ~FromSource(r) =>
          /\ r.addr < r.pos
          /\ \A i \in (r.pos + 1)..End(r) : in[i] = in[i - r.pos + r.addr]

Right(r) == RightIn(r, enc.in, src, WindowFrom, WindowTo)

AllRight == \A k \in 1..Len(iopt.used) : Right(iopt.used[k])
NewRight == WantsSlot => Right(loop.new)

\* What agrees so far with the source, and how far it may go.
MatchRight ==
    match.state \in {"FORWARD", "BACKWARD"} =>
        /\ match.maxfwd <= 0 \/ match.maxfwd <= Len(enc.in) - enc.pos
        /\ match.fwd = 0 \/ match.fwd <= match.maxfwd
        /\ match.back = 0 \/ match.back <= match.maxback
        /\ match.decided /\ match.maxfwd > 0 =>
              /\ src.base <= match.srcpos /\ src.base + match.maxback <= match.srcpos
              /\ match.srcpos + match.maxfwd <= src.base + src.len
        /\ \A i \in (1 - match.back)..match.fwd : src.file[match.srcpos + i] = enc.in[enc.pos + i]

\* The last bytes of the string at a place are the run.
RunAt(l, in, pos) ==
    /\ l.runL \in Nat
    /\ \A i \in (pos + 1)..(pos + SLook) : pos + SLook - i < l.runL => in[i] = l.runC

LazyNext == WantsSlot /\ loop.then = "lazy"
RunRight == AtByte \/ at \in {"update", "lazy"} \/ LazyNext \/ (Extending /\ loop.then = "loop")
            => RunAt(loop, enc.in, enc.pos)

\* The strings in the table begin before here; when the one here is in it, not behind here.
SmallBefore(small, n) == \A b \in DOMAIN small : small[b] \in Nat \ {0} /\ small[b] <= n

SmallRight ==
    /\ AtByte \/ Extending \/ at \in {"restart", "forward"} \/ (WantsSlot /\ loop.then = "forward")
          \/ (at = "client" /\ enc.state = "SEARCH") => SmallBefore(hash.small, enc.pos)
    /\ at \in {"update", "lazy"} \/ LazyNext => SmallBefore(hash.small, enc.pos + 1)
    /\ at = "client" /\ enc.state = "INPUT" => DOMAIN hash.small = {}
    /\ \A i \in DOMAIN hash.prev : hash.prev[i] \in Nat

\* The source ends where the encoder has found its end, and the matches before it.
EndFound(s) == s.eof => Len(s.file) <= SourceEof(s) /\ Len(s.file) <= (s.max + 1) * BlkSize
EndKnown == src.have => match.max <= Len(src.file) /\ EndFound(src)

\* With an unlimited buffer nothing is left out.
AllEncoded ==
    iopt.slots = 0 =>
        /\ at = "pick" => sect.unenc <= Len(enc.in)
        /\ at = "header" => sect.unenc = Len(enc.in)

ExactInvariant == AllRight /\ NewRight /\ MatchRight /\ RunRight /\ SmallRight /\ EndKnown /\ AllEncoded

\* What an instruction needs of a window, a wider one has.
LEMMA WiderRight ==
    ASSUME NEW r, IsInst(r), NEW in, NEW s, NEW t, NEW lo, NEW hi, NEW from, NEW to,
           RightIn(r, in, s, lo, hi),
           s.have => /\ t.have /\ t.file = s.file
                     /\ lo \in Int /\ hi \in Int /\ from \in Int /\ to \in Int
                     /\ hi <= 0 \/ (from <= lo /\ hi <= to)
    PROVE  RightIn(r, in, t, from, to)
  <1>1. FromSource(r) => t.have /\ t.file = s.file /\ from <= r.addr /\ r.addr + r.size <= to
    <2> SUFFICES ASSUME FromSource(r)
                 PROVE  t.have /\ t.file = s.file /\ from <= r.addr /\ r.addr + r.size <= to
      OBVIOUS
    <2>1. s.have /\ lo <= r.addr /\ r.addr + r.size <= hi /\ r.addr \in Nat
      BY DEF RightIn
    <2>2. r.size \in Nat /\ r.size >= 4
      BY InstNumbers DEF MinMatch
    <2>3. PICK a, n \in Nat : a = r.addr /\ n = r.size /\ n >= 4
      BY <2>1, <2>2
    <2>4. lo \in Int /\ hi \in Int /\ from \in Int /\ to \in Int /\ lo <= a /\ a + n <= hi
      BY <2>1, <2>3
    <2>5. from <= a /\ a + n <= to
      BY <2>1, <2>3, <2>4
    <2> QED
      BY <2>1, <2>3, <2>5
  <1> QED
    BY <1>1 DEF RightIn

\* The part of an instruction that begins c bytes behind its beginning.
PartOf(p, r, c) ==
    /\ p.type = r.type /\ p.xtra = r.xtra
    /\ p.pos = r.pos + c /\ p.addr = r.addr + c /\ c + p.size <= r.size

\* A part of an instruction is as right as the whole.
LEMMA PartRight ==
    ASSUME NEW r, IsInst(r), NEW in, NEW s, NEW lo \in Int, NEW hi \in Int, RightIn(r, in, s, lo, hi),
           NEW length \in Nat, length = Len(in), s.have => Len(s.file) \in Nat,
           NEW p, IsInst(p), NEW c \in Nat, PartOf(p, r, c)
    PROVE  RightIn(p, in, s, lo, hi)
  <1>1. r.addr \in Nat /\ r.pos \in Nat /\ r.size \in Nat /\ p.size \in Nat /\ End(r) = r.pos + r.size
        /\ End(p) = p.pos + p.size /\ End(r) <= length
    BY InstNumbers DEF RightIn
  <1>2. PICK pos, n, pn, a \in Nat : pos = r.pos /\ n = r.size /\ pn = p.size /\ a = r.addr
    BY <1>1, Zenon
  <1>3. p.pos = pos + c /\ p.addr = a + c /\ c + pn <= n /\ p.type = r.type /\ p.xtra = r.xtra
    BY <1>2, Zenon DEF PartOf
  <1>4. End(r) = pos + n /\ End(p) = pos + c + pn
    BY <1>1, <1>2, <1>3, Zenon
  <1>5. a + c \in Nat /\ pos + c + pn <= pos + n /\ (pos + n <= length => pos + c + pn <= length)
    BY <1>3
  <1>6. p.addr \in Nat /\ End(p) <= Len(in)
    BY <1>1, <1>3, <1>4, <1>5, Zenon
  <1>7. \A i \in (p.pos + 1)..End(p) : i \in (r.pos + 1)..End(r) /\ i - p.pos + p.addr = i - r.pos + r.addr
    <2>1. \A i \in (pos + c + 1)..(pos + c + pn) : i \in (pos + 1)..(pos + n) /\ i - (pos + c) + (a + c) = i - pos + a
      BY <1>3
    <2> QED
      BY <1>2, <1>3, <1>4, <2>1, Zenon
  <1>8. ASSUME FromSource(r)
        PROVE  p.addr + p.size <= Len(s.file) /\ lo <= p.addr /\ p.addr + p.size <= hi
    <2>1. s.have /\ a + n <= Len(s.file) /\ lo <= a /\ a + n <= hi
      BY <1>2, <1>8, Zenon DEF RightIn
    <2>2. PICK len \in Nat : len = Len(s.file)
      BY <2>1
    <2>3. a + c + pn <= len /\ lo <= a + c /\ a + c + pn <= hi
      BY <1>3, <2>1, <2>2
    <2> QED
      BY <1>2, <1>3, <2>2, <2>3, Zenon
  <1>9. FromSource(p) <=> FromSource(r)
    BY <1>3 DEF FromSource
  <1>10. r.addr < r.pos => p.addr < p.pos
    BY <1>2, <1>3
  <1> QED
    BY <1>3, <1>6, <1>7, <1>8, <1>9, <1>10 DEF RightIn

\* Where neither the input nor the source nor the window changes, what is right stays right.
LEMMA SameWindow ==
    ASSUME EncoderInvariant, enc'.in = enc.in, src'.have = src.have,
           src.have => src'.file = src.file /\ src'.base = src.base /\ src'.len = src.len,
           match'.decided = match.decided, match'.min = match.min, match'.max = match.max
    PROVE  \A r : Right(r) => Right(r)'
  <1>1. src.have => WindowFrom' = WindowFrom /\ WindowTo' = WindowTo
    BY DEF WindowFrom, WindowTo
  <1> QED
    BY <1>1 DEF Right, RightIn

\* ... in the buffer too.
LEMMA SameRight ==
    ASSUME EncoderInvariant, AllRight, NewRight, enc'.in = enc.in, src'.have = src.have,
           src.have => src'.file = src.file /\ src'.base = src.base /\ src'.len = src.len,
           match'.decided = match.decided, match'.min = match.min, match'.max = match.max,
           iopt'.used = iopt.used, WantsSlot' => WantsSlot /\ loop'.new = loop.new
    PROVE  AllRight' /\ NewRight'
  <1>1. \A r : Right(r) => Right(r)'
    BY SameWindow
  <1>2. AllRight'
    <2>1. \A k \in 1..Len(iopt.used) : Right(iopt.used[k])
      BY DEF AllRight
    <2> QED
      BY <1>1, <2>1 DEF AllRight, Right
  <1> QED
    BY <1>1, <1>2 DEF NewRight

\* What the second invariant says one by one.
LEMMA ExactFields ==
    ASSUME ExactInvariant
    PROVE  AllRight /\ NewRight /\ MatchRight /\ RunRight /\ SmallRight /\ EndKnown /\ AllEncoded
  BY DEF ExactInvariant

\* Between the windows there is nothing to be wrong.
LEMMA IdleExact ==
    ASSUME at' = "client", iopt'.used = <<>>, match'.state \notin {"FORWARD", "BACKWARD"}, EndKnown',
           \A i \in DOMAIN hash'.prev : hash'.prev[i] \in Nat,
           DOMAIN hash'.small = {} \/ enc'.state \notin {"SEARCH", "INPUT"}
    PROVE  ExactInvariant'
  <1>1. AllRight'
    BY DEF AllRight
  <1>2. NewRight' /\ MatchRight' /\ RunRight' /\ AllEncoded'
    BY DEF NewRight, MatchRight, RunRight, AllEncoded, WantsSlot, LazyNext, AtByte, Extending
  <1>3. SmallRight'
    BY DEF SmallRight, SmallBefore, WantsSlot, LazyNext, AtByte, Extending
  <1> QED
    BY <1>1, <1>2, <1>3 DEF ExactInvariant

\* The encoder where nothing of it changes.
LEMMA UnchangedExact == ASSUME ExactInvariant, UNCHANGED encVars PROVE ExactInvariant'
  <1>1. enc' = enc /\ at' = at /\ src' = src /\ match' = match /\ hash' = hash /\ iopt' = iopt /\ sect' = sect /\ loop' = loop
    BY DEF encVars
  <1>2. AllRight' /\ NewRight'
    BY <1>1, ExactFields DEF AllRight, NewRight, Right, WindowFrom, WindowTo, WantsSlot
  <1>3. MatchRight' /\ EndKnown' /\ AllEncoded'
    BY <1>1, ExactFields DEF MatchRight, EndKnown, AllEncoded
  <1>4. RunRight' /\ SmallRight'
    BY <1>1, ExactFields DEF RunRight, SmallRight, WantsSlot, LazyNext, AtByte, Extending
  <1> QED
    BY <1>2, <1>3, <1>4 DEF ExactInvariant

\* Between windows: no match is under way, and nothing is in the buffer or the table.
LEMMA BetweenWindows ==
    ASSUME EncoderInvariant, ExactInvariant, at = "client", enc.state # "SEARCH"
    PROVE  /\ iopt.used = <<>> /\ match.state \notin {"FORWARD", "BACKWARD"}
           /\ enc.state = "INPUT" => DOMAIN hash.small = {}
           /\ \A i \in DOMAIN hash.prev : hash.prev[i] \in Nat
  <1>1. iopt.used = <<>> /\ match.state \notin {"FORWARD", "BACKWARD"}
    BY EncoderFields DEF PlaceGood, MatchUnderWay, Extending
  <1> QED
    BY <1>1, ExactFields DEF SmallRight

\* The client gives the encoder input.
LEMMA AvailInputExact ==
    ASSUME EncoderInvariant, ExactInvariant, NEW bytes, NEW last, AvailInput(bytes, last)
    PROVE  ExactInvariant'
  <1>1. /\ at = "client" /\ enc.state = "INPUT"
        /\ enc' = [enc EXCEPT !.in = bytes, !.flush = @ \/ last, !.ret = "CALL"]
        /\ at' = at /\ src' = src /\ match' = match /\ hash' = hash /\ iopt' = iopt /\ sect' = sect /\ loop' = loop
    BY EncoderFields DEF AvailInput, StateGood
  <1>2. EndKnown'
    BY <1>1, ExactFields DEF EndKnown
  <1> QED
    BY <1>1, <1>2, BetweenWindows, IdleExact

\* The client takes output, loads a block, or calls again.
LEMMA AnswerExact ==
    ASSUME EncoderInvariant, ExactInvariant, AnswerOnly, sect' = sect, EndKnown', src'.have = src.have,
           src.have => src'.file = src.file /\ src'.base = src.base /\ src'.len = src.len
    PROVE  ExactInvariant'
  <1>1. /\ at = "client" /\ at' = at /\ match' = match /\ hash' = hash /\ iopt' = iopt /\ sect' = sect /\ loop' = loop
        /\ enc'.state = enc.state /\ enc'.pos = enc.pos /\ enc'.in = enc.in
    BY DEF AnswerOnly
  <1>2. AllRight' /\ NewRight'
    <2>1. ~WantsSlot'
      BY <1>1 DEF WantsSlot
    <2> QED
      BY <1>1, <2>1, ExactFields, SameRight
  <1>3. MatchRight'
    <2>1. match.state \in {"FORWARD", "BACKWARD"} => src.have
      BY EncoderFields DEF MatchUnderWay
    <2> QED
      BY <1>1, <2>1, ExactFields DEF MatchRight
  <1>4. RunRight' /\ SmallRight' /\ AllEncoded'
    BY <1>1, ExactFields DEF RunRight, SmallRight, WantsSlot, LazyNext, AtByte, Extending, AllEncoded
  <1> QED
    BY <1>2, <1>3, <1>4 DEF ExactInvariant

\* The client takes the output.
LEMMA ConsumeOutputExact == ASSUME EncoderInvariant, ExactInvariant, ConsumeOutput PROVE ExactInvariant'
  <1>1. EncType(enc) /\ EndKnown
    BY EncoderFields, ExactFields
  <1>2. AnswerOnly /\ src' = src /\ match' = match /\ sect' = sect
    BY <1>1 DEF EncType, EncFields, AnswerOnly, ConsumeOutput
  <1>3. EndKnown'
    BY <1>1, <1>2 DEF EndKnown
  <1> QED
    BY <1>2, <1>3, AnswerExact

\* The client calls again.
LEMMA GoOnEncodingExact == ASSUME EncoderInvariant, ExactInvariant, GoOnEncoding PROVE ExactInvariant'
  <1>1. EncType(enc) /\ EndKnown
    BY EncoderFields, ExactFields
  <1>2. AnswerOnly /\ src' = src /\ match' = match /\ sect' = sect
    BY <1>1 DEF EncType, EncFields, AnswerOnly, GoOnEncoding
  <1>3. EndKnown'
    BY <1>1, <1>2 DEF EndKnown
  <1> QED
    BY <1>2, <1>3, AnswerExact

\* The client loads the block of the source it was asked for.
LEMMA SupplyBlockExact == ASSUME EncoderInvariant, ExactInvariant, SupplyBlock PROVE ExactInvariant'
  <1>1. EncType(enc) /\ EndKnown /\ src.have /\ SrcType(src)
    BY EncoderFields, ExactFields DEF StateGood, SourceGood, SupplyBlock
  <1>2. AnswerOnly /\ match' = match /\ sect' = sect
    BY <1>1 DEF EncType, EncFields, AnswerOnly, SupplyBlock
  <1>3. src' = [src EXCEPT !.cur = src.want, !.onblk = Len(Block(src.file, src.want))]
    BY DEF SupplyBlock, Supplied
  <1>4. /\ src'.have = src.have /\ src'.file = src.file /\ src'.max = src.max /\ src'.onlast = src.onlast
        /\ src'.base = src.base /\ src'.len = src.len /\ src'.eof = src.eof
    BY <1>1, <1>3 DEF SrcType, SrcFields
  <1>5. EndKnown'
    BY <1>1, <1>2, <1>4 DEF EndKnown, EndFound, SourceEof
  <1> QED
    BY <1>2, <1>4, <1>5, AnswerExact

\* xd3_free_stream
LEMMA EncodeFreedExact ==
    ASSUME EncoderInvariant, ExactInvariant, EncodeFreed, at = "client", enc.state = "INPUT"
    PROVE  ExactInvariant'
  <1>1. /\ match' = NoMatch /\ hash' = [small |-> <<>>, prev |-> <<>>, large |-> <<>>]
        /\ src' = NoSource /\ at' = at /\ iopt' = iopt
    BY DEF EncodeFreed
  <1>2. iopt.used = <<>>
    BY BetweenWindows
  <1>3. match'.state \notin {"FORWARD", "BACKWARD"} /\ DOMAIN hash'.small = {} /\ DOMAIN hash'.prev = {}
    BY <1>1 DEF NoMatch
  <1>4. EndKnown'
    BY <1>1 DEF EndKnown, NoSource
  <1> QED
    BY <1>1, <1>2, <1>3, <1>4, IdleExact

\* xd3_config_stream
LEMMA EncodeInitExact ==
    ASSUME NEW file \in Seq(Byte), NEW there \in BOOLEAN, NEW slots, EncodeInit(Opened(file, there), slots)
    PROVE  ExactInvariant
  <1>1. /\ at = "client" /\ src = Opened(file, there) /\ match = NoMatch /\ enc.state = "INPUT"
        /\ hash = [small |-> <<>>, prev |-> <<>>, large |-> <<>>] /\ iopt.used = <<>>
    BY DEF EncodeInit
  <1>2. match.state \notin {"FORWARD", "BACKWARD"} /\ match.max = 0 /\ DOMAIN hash.small = {} /\ DOMAIN hash.prev = {}
    BY <1>1 DEF NoMatch
  <1>3. EndKnown
    BY <1>1, <1>2 DEF EndKnown, EndFound, Opened, NoSource, NewSource
  <1>4. AllRight /\ NewRight /\ MatchRight
    BY <1>1, <1>2 DEF AllRight, NewRight, MatchRight, WantsSlot
  <1>5. RunRight /\ AllEncoded /\ SmallRight
    BY <1>1, <1>2 DEF RunRight, AllEncoded, SmallRight, SmallBefore, WantsSlot, LazyNext, AtByte, Extending
  <1> QED
    BY <1>3, <1>4, <1>5 DEF ExactInvariant

\* A window of the input begins.
LEMMA StartWindowExact == ASSUME EncoderInvariant, ExactInvariant, StartWindow PROVE ExactInvariant'
  <1>1. at = "client" /\ enc.state = "INPUT" /\ at' = at /\ src' = src /\ match' = match /\ hash' = hash /\ iopt' = iopt
    BY DEF StartWindow, Called
  <1>2. EndKnown'
    BY <1>1, ExactFields DEF EndKnown
  <1> QED
    BY <1>1, <1>2, BetweenWindows, IdleExact

\* xd3_emit_hdr, and the sections after it.
LEMMA EmitHeaderExact == ASSUME EncoderInvariant, ExactInvariant, EmitHeader PROVE ExactInvariant'
  <1>1. /\ at = "header" /\ at' = "client" /\ src' = src /\ match' = match /\ hash' = hash /\ iopt' = iopt
        /\ EncType(enc) /\ iopt.used = <<>> /\ match.state \notin {"FORWARD", "BACKWARD"}
    BY EncoderFields DEF EmitHeader, PlaceGood, MatchUnderWay, Extending
  <1>2. enc'.state = "POSTOUT"
    BY <1>1 DEF EmitHeader, EncType, EncFields
  <1>3. EndKnown' /\ \A i \in DOMAIN hash.prev : hash.prev[i] \in Nat
    BY <1>1, ExactFields DEF EndKnown, SmallRight
  <1> QED
    BY <1>1, <1>2, <1>3, IdleExact

\* ENC_POSTOUT
LEMMA PostOutExact == ASSUME EncoderInvariant, ExactInvariant, PostOut PROVE ExactInvariant'
  <1>1. /\ at = "client" /\ at' = at /\ src' = src /\ match' = match /\ hash' = hash /\ iopt' = iopt
        /\ EncType(enc) /\ enc.state = "POSTOUT"
    BY EncoderFields DEF PostOut, Called
  <1>2. enc'.state \in {"POSTOUT", "POSTWIN"}
    BY <1>1 DEF PostOut, EncType, EncFields
  <1>3. EndKnown'
    BY <1>1, ExactFields DEF EndKnown
  <1> QED
    BY <1>1, <1>2, <1>3, BetweenWindows, IdleExact

\* ENC_POSTWIN
LEMMA PostWinExact == ASSUME EncoderInvariant, ExactInvariant, PostWin PROVE ExactInvariant'
  <1>1. /\ at = "client" /\ at' = at /\ iopt' = iopt /\ enc.state = "POSTWIN"
        /\ MatchType(match) /\ HashType(hash) /\ SourceGood
        /\ src' = IF src.have THEN [src EXCEPT !.base = 0, !.len = 0] ELSE src
        /\ match' = [match EXCEPT !.decided = FALSE, !.min = 0, !.max = 0]
        /\ hash' = [hash EXCEPT !.small = <<>>]
    BY EncoderFields DEF PostWin, Called
  <1>2. match'.state = match.state /\ match'.max = 0 /\ hash'.prev = hash.prev /\ DOMAIN hash'.small = {}
    BY <1>1 DEF MatchType, MatchFields, HashType
  <1>3. EndKnown'
    <2> SUFFICES ASSUME src'.have PROVE match'.max <= Len(src'.file) /\ EndFound(src')
      BY DEF EndKnown
    <2>1. src.have /\ src' = [src EXCEPT !.base = 0, !.len = 0] /\ SrcType(src)
      BY <1>1 DEF SourceGood
    <2>2. src'.file = src.file /\ src'.eof = src.eof /\ src'.max = src.max /\ src'.onlast = src.onlast /\ Len(src.file) \in Nat
      BY <2>1 DEF SrcType, SrcFields
    <2>3. EndFound(src)
      BY <2>1, ExactFields DEF EndKnown
    <2> QED
      BY <1>2, <2>2, <2>3 DEF EndFound, SourceEof
  <1> QED
    BY <1>1, <1>2, <1>3, BetweenWindows, IdleExact

\* A step that leaves the input, the source, its window and the buffer as they are,
\* and no match under way.
LEMMA CalmExact ==
    ASSUME EncoderInvariant, ExactInvariant, enc'.in = enc.in, src' = src,
           match'.decided = match.decided, match'.min = match.min, match'.max = match.max,
           match'.state \notin {"FORWARD", "BACKWARD"},
           iopt'.used = iopt.used, WantsSlot' => WantsSlot /\ loop'.new = loop.new,
           RunRight', SmallRight', AllEncoded'
    PROVE  ExactInvariant'
  <1>1. AllRight' /\ NewRight'
    BY ExactFields, SameRight
  <1>2. MatchRight' /\ EndKnown'
    BY ExactFields DEF MatchRight, EndKnown
  <1> QED
    BY <1>1, <1>2 DEF ExactInvariant

\* A table of strings that begin before here is one of strings that begin before a later place.
LEMMA SmallLater ==
    ASSUME NEW small, NEW m \in Int, NEW n \in Int, SmallBefore(small, m), m <= n
    PROVE  SmallBefore(small, n)
  BY DEF SmallBefore

\* The position moves behind the match the call began with.
LEMMA MoveOnExact == ASSUME EncoderInvariant, ExactInvariant, MoveOn PROVE ExactInvariant'
  <1>1. /\ at = "forward" /\ enc' = [enc EXCEPT !.pos = @ + match.fwd] /\ loop' = NewLoop /\ at' = "restart"
        /\ src' = src /\ match' = match /\ hash' = hash /\ iopt' = iopt /\ sect' = sect
        /\ EncType(enc) /\ MatchType(match) /\ match.state \notin {"FORWARD", "BACKWARD"}
    BY EncoderFields DEF MoveOn, MatchUnderWay, Extending
  <1>2. enc'.in = enc.in /\ enc'.pos = enc.pos + match.fwd /\ match.fwd \in Nat /\ enc.pos \in Nat
    BY <1>1 DEF EncType, EncFields, MatchType
  <1>3. SmallRight'
    <2>1. SmallBefore(hash.small, enc.pos) /\ \A i \in DOMAIN hash.prev : hash.prev[i] \in Nat
      BY <1>1, ExactFields DEF SmallRight
    <2>2. SmallBefore(hash.small, enc.pos + match.fwd)
      BY <1>2, <2>1, SmallLater
    <2> QED
      BY <1>1, <1>2, <2>1, <2>2 DEF SmallRight, AtByte, Extending, WantsSlot, LazyNext
  <1>4. RunRight' /\ AllEncoded'
    BY <1>1 DEF RunRight, AllEncoded, AtByte, Extending, WantsSlot, LazyNext
  <1> QED
    BY <1>1, <1>2, <1>3, <1>4, CalmExact DEF WantsSlot

\* HANDLELAZY
LEMMA HandleLazyExact == ASSUME EncoderInvariant, ExactInvariant, HandleLazy PROVE ExactInvariant'
  <1>1. /\ at = "lazy" /\ src' = src /\ match' = match /\ hash' = hash /\ iopt' = iopt /\ sect' = sect /\ loop' = loop
        /\ EncType(enc) /\ match.state \notin {"FORWARD", "BACKWARD"} /\ loop.len \in Nat /\ loop.len >= 4
    BY EncoderFields DEF HandleLazy, PlaceGood, MatchUnderWay, Extending, MinMatch
  <1>2. \/ enc' = [enc EXCEPT !.minMatch = loop.len] /\ at' = "update"
        \/ enc' = [enc EXCEPT !.pos = @ + loop.len] /\ at' = "restart"
    BY DEF HandleLazy
  <1>3. RunAt(loop, enc.in, enc.pos) /\ SmallBefore(hash.small, enc.pos + 1)
        /\ \A i \in DOMAIN hash.prev : hash.prev[i] \in Nat
    BY <1>1, ExactFields DEF RunRight, SmallRight
  <1>4. CASE enc' = [enc EXCEPT !.minMatch = loop.len] /\ at' = "update"
    <2>1. enc'.in = enc.in /\ enc'.pos = enc.pos
      BY <1>1, <1>4 DEF EncType, EncFields
    <2>2. RunRight' /\ SmallRight' /\ AllEncoded'
      BY <1>1, <1>3, <1>4, <2>1 DEF RunRight, SmallRight, AllEncoded, AtByte, Extending, WantsSlot, LazyNext
    <2> QED
      BY <1>1, <1>4, <2>1, <2>2, CalmExact DEF WantsSlot
  <1>5. CASE enc' = [enc EXCEPT !.pos = @ + loop.len] /\ at' = "restart"
    <2>1. enc'.in = enc.in /\ enc'.pos = enc.pos + loop.len /\ enc.pos \in Nat
      BY <1>1, <1>5 DEF EncType, EncFields
    <2>2. SmallBefore(hash.small, enc.pos + loop.len)
      <3>1. enc.pos + 1 \in Int /\ enc.pos + loop.len \in Int /\ enc.pos + 1 <= enc.pos + loop.len
        BY <1>1, <2>1
      <3> QED
        BY <1>3, <3>1, SmallLater
    <2>3. RunRight' /\ SmallRight' /\ AllEncoded'
      BY <1>1, <1>3, <1>5, <2>1, <2>2 DEF RunRight, SmallRight, AllEncoded, AtByte, Extending, WantsSlot, LazyNext
    <2> QED
      BY <1>1, <1>5, <2>1, <2>3, CalmExact DEF WantsSlot
  <1> QED
    BY <1>2, <1>4, <1>5

\* The string one byte further on ends in the run that NEXTRUN counts.
LEMMA NextRunAt ==
    ASSUME NEW l, LoopType(l), NEW in, NEW pos \in Nat, RunAt(l, in, pos)
    PROVE  RunAt(NextRun(l, in[pos + 5]), in, pos + 1)
  <1> DEFINE c == in[pos + 5]
             m == NextRun(l, c)
  <1>1. l.runL \in Nat /\ \A i \in (pos + 1)..(pos + 4) : pos + 4 - i < l.runL => in[i] = l.runC
    BY DEF RunAt, SLook
  <1>2. CASE c = l.runC
    <2>1. m.runL = l.runL + 1 /\ m.runC = l.runC
      BY <1>2 DEF NextRun, LoopType
    <2> HIDE DEF m
    <2>2. ASSUME NEW i \in (pos + 2)..(pos + 5), pos + 5 - i < l.runL + 1
          PROVE  in[i] = l.runC
      <3>1. CASE i = pos + 5
        BY <1>2, <3>1
      <3>2. CASE i # pos + 5
        <4>1. i \in (pos + 1)..(pos + 4) /\ pos + 4 - i < l.runL
          BY <1>1, <2>2, <3>2
        <4> QED
          BY <1>1, <4>1
      <3> QED
        BY <3>1, <3>2
    <2>3. pos + 1 + 1 = pos + 2 /\ pos + 1 + 4 = pos + 5
      OBVIOUS
    <2>4. RunAt(m, in, pos + 1)
      BY <1>1, <2>1, <2>2, <2>3 DEF RunAt, SLook
    <2> QED
      BY <2>4 DEF m
  <1>3. CASE c # l.runC
    <2>1. m.runL = 1 /\ m.runC = c
      BY <1>3 DEF NextRun, LoopType
    <2> HIDE DEF m
    <2>2. ASSUME NEW i \in (pos + 1 + 1)..(pos + 1 + 4), pos + 1 + 4 - i < 1
          PROVE  in[i] = c
      <3>1. i = pos + 5
        BY <2>2
      <3> QED
        BY <3>1
    <2>3. RunAt(m, in, pos + 1)
      BY <2>1, <2>2 DEF RunAt, SLook
    <2> QED
      BY <2>3 DEF m
  <1> QED
    BY <1>2, <1>3

\* updateone
LEMMA UpdateOneExact == ASSUME EncoderInvariant, ExactInvariant, UpdateOne PROVE ExactInvariant'
  <1>1. /\ at = "update" /\ src' = src /\ match' = match /\ hash' = hash /\ iopt' = iopt /\ sect' = sect
        /\ EncType(enc) /\ LoopType(loop) /\ match.state \notin {"FORWARD", "BACKWARD"}
    BY EncoderFields DEF UpdateOne, MatchUnderWay, Extending
  <1>2. RunAt(loop, enc.in, enc.pos) /\ SmallBefore(hash.small, enc.pos + 1)
        /\ \A i \in DOMAIN hash.prev : hash.prev[i] \in Nat
    BY <1>1, ExactFields DEF RunRight, SmallRight
  <1>3. CASE enc.pos + SLook = Len(enc.in)
    <2>1. at' = "instr" /\ enc' = enc /\ loop' = loop
      BY <1>3 DEF UpdateOne
    <2>2. RunRight' /\ SmallRight' /\ AllEncoded'
      BY <1>1, <1>2, <2>1 DEF RunRight, SmallRight, AllEncoded, AtByte, Extending, WantsSlot, LazyNext
    <2> QED
      BY <1>1, <2>1, <2>2, CalmExact DEF WantsSlot
  <1>4. CASE enc.pos + SLook # Len(enc.in)
    <2>1. loop' = NextRun(loop, Input(enc.pos + SLook)) /\ enc' = [enc EXCEPT !.pos = @ + 1] /\ at' = "run"
      BY <1>4 DEF UpdateOne
    <2>2. enc'.in = enc.in /\ enc'.pos = enc.pos + 1 /\ enc.pos \in Nat
      BY <1>1, <2>1 DEF EncType, EncFields
    <2>3. Input(enc.pos + SLook) = enc.in[enc.pos + 5]
      <3>1. enc.pos + SLook + 1 = enc.pos + 5
        BY <2>2 DEF SLook
      <3> QED
        BY <3>1, Zenon DEF Input
    <2>4. RunAt(loop', enc.in, enc.pos + 1)
      BY <1>1, <1>2, <2>1, <2>2, <2>3, NextRunAt
    <2>5. RunRight' /\ SmallRight' /\ AllEncoded'
      BY <1>1, <1>2, <2>1, <2>2, <2>4 DEF RunRight, SmallRight, AllEncoded, AtByte, Extending, WantsSlot, LazyNext
    <2> QED
      BY <1>1, <2>1, <2>2, <2>5, CalmExact DEF WantsSlot
  <1> QED
    BY <1>3, <1>4

\* The buffer is full.
LEMMA SlotsFullExact == ASSUME EncoderInvariant, ExactInvariant, SlotsFull PROVE ExactInvariant'
  <1>1. /\ at = "slot" /\ iopt' = [iopt EXCEPT !.force = FALSE, !.i = 1, !.flushed = 0] /\ at' = "compact"
        /\ enc' = enc /\ src' = src /\ match' = match /\ hash' = hash /\ sect' = sect /\ loop' = loop
        /\ IoptType(iopt) /\ match.state \notin {"FORWARD", "BACKWARD"}
    BY EncoderFields DEF SlotsFull, MatchUnderWay, Extending
  <1>2. iopt'.used = iopt.used /\ iopt'.force = FALSE
    BY <1>1 DEF IoptType
  <1>3. RunRight' /\ SmallRight' /\ AllEncoded'
    BY <1>1, <1>2, ExactFields DEF RunRight, SmallRight, AllEncoded, AtByte, Extending, WantsSlot, LazyNext
  <1> QED
    BY <1>1, <1>2, <1>3, CalmExact DEF WantsSlot

\* ENC_INSTR
LEMMA InputSearchedExact == ASSUME EncoderInvariant, ExactInvariant, InputSearched PROVE ExactInvariant'
  <1>1. /\ at = "instr" /\ iopt' = [iopt EXCEPT !.force = TRUE, !.i = 1, !.flushed = 0] /\ at' = "compact"
        /\ enc' = [enc EXCEPT !.state = "INSTR"]
        /\ src' = src /\ match' = match /\ hash' = hash /\ sect' = sect /\ loop' = loop /\ IoptType(iopt) /\ EncType(enc)
        /\ match.state \notin {"FORWARD", "BACKWARD"}
    BY EncoderFields DEF InputSearched, MatchUnderWay, Extending
  <1>2. iopt'.used = iopt.used /\ iopt'.force = TRUE /\ enc'.in = enc.in
    BY <1>1 DEF IoptType, EncType, EncFields
  <1>3. RunRight' /\ SmallRight' /\ AllEncoded'
    BY <1>1, <1>2, ExactFields DEF RunRight, SmallRight, AllEncoded, AtByte, Extending, WantsSlot, LazyNext
  <1> QED
    BY <1>1, <1>2, <1>3, CalmExact DEF WantsSlot

\* The buffer is compacted.
LEMMA CompactedExact == ASSUME EncoderInvariant, ExactInvariant, Compacted PROVE ExactInvariant'
  <1>1. /\ at = "compact" /\ iopt' = iopt /\ at' = "pick"
        /\ enc' = enc /\ src' = src /\ match' = match /\ hash' = hash /\ sect' = sect /\ loop' = loop
        /\ match.state \notin {"FORWARD", "BACKWARD"} /\ Len(enc.in) \in Nat
    BY EncoderFields DEF Compacted, MatchUnderWay, Extending
  <1>2. RunRight' /\ SmallRight'
    BY <1>1, ExactFields DEF RunRight, SmallRight, AtByte, Extending, WantsSlot, LazyNext
  <1>3. AllEncoded'
    <2>1. iopt.slots = 0 => sect.unenc = 0
      BY <1>1, EncoderFields DEF UnlimitedGood
    <2> QED
      BY <1>1, <2>1 DEF AllEncoded
  <1> QED
    BY <1>1, <1>2, <1>3, CalmExact DEF WantsSlot

\* There are free slots again.
LEMMA SlotsEmptiedExact == ASSUME EncoderInvariant, ExactInvariant, SlotsEmptied PROVE ExactInvariant'
  <1>1. /\ at = "pick" /\ iopt' = iopt /\ at' = "take" /\ ~iopt.force
        /\ enc' = enc /\ src' = src /\ match' = match /\ hash' = hash /\ sect' = sect /\ loop' = loop
        /\ match.state \notin {"FORWARD", "BACKWARD"}
    BY EncoderFields DEF SlotsEmptied, MatchUnderWay, Extending
  <1>2. RunRight' /\ SmallRight' /\ AllEncoded'
    BY <1>1, ExactFields DEF RunRight, SmallRight, AllEncoded, AtByte, Extending, WantsSlot, LazyNext
  <1> QED
    BY <1>1, <1>2, CalmExact DEF WantsSlot

\* A block that is short, or the last one there can be, has the rest of the file.
LEMMA ShortBlock ==
    ASSUME NEW file \in Seq(Byte), NEW n \in Nat,
           Len(Block(file, n)) < BlkSize \/ Len(file) <= (n + 1) * BlkSize
    PROVE  Len(file) <= n * BlkSize + Len(Block(file, n))
  <1>1. BlkSize \in Nat \ {0} /\ Len(file) \in Nat
    BY SourceAssumption
  <1>2. PICK from, len \in Nat : from = n * BlkSize /\ len = Len(file)
    <2>1. n * BlkSize \in Nat
      BY <1>1
    <2> QED
      BY <1>1, <2>1, Zenon
  <1>3. (n + 1) * BlkSize = from + BlkSize
    BY <1>1, <1>2
  <1> DEFINE to == SmallerOf(from + BlkSize, len)
  <1>4. Block(file, n) = SubSeq(file, from + 1, to)
    BY <1>2, <1>3, Zenon DEF Block
  <1>5. to \in Nat /\ to <= len /\ to <= from + BlkSize /\ (to = from + BlkSize \/ to = len)
    BY <1>1, <1>2 DEF SmallerOf
  <1> HIDE DEF to
  <1>6. PICK on \in Nat : on = Len(Block(file, n)) /\ on = IF from + 1 <= to THEN to - from ELSE 0
    <2>1. from \in Nat /\ to <= Len(file)
      BY <1>2, <1>5
    <2>2. \E on \in Nat : on = Len(SubSeq(file, from + 1, to)) /\ on = IF from + 1 <= to THEN to - from ELSE 0
      BY <1>5, <2>1, PartLength, Zenon
    <2> QED
      BY <1>4, <2>2, Zenon
  <1>7. on < BlkSize \/ len <= from + BlkSize
    BY <1>2, <1>3, <1>6
  <1>8. len <= from + on
    BY <1>1, <1>5, <1>6, <1>7
  <1> QED
    BY <1>2, <1>6, <1>8, Zenon

\* What a look at a block says of the end of the source is true.
LEMMA GotEnd ==
    ASSUME NEW s, SrcType(s), s.have, s.max \in Nat, s.onlast \in Nat, EndFound(s), NEW n \in Nat, Loaded(s, n)
    PROVE  EndFound(Got(s, n))
  <1> DEFINE g == Got(s, n)
  <1>1. s.file \in Seq(Byte) /\ s.onblk = Len(Block(s.file, n)) /\ s.onblk \in Nat /\ Len(s.file) \in Nat
    <2>1. s.file \in Seq(Byte) /\ s.onblk = Len(Block(s.file, n))
      BY DEF SrcType, Loaded
    <2>2. Len(Block(s.file, n)) \in Nat
      <3>1. Len(Block(s.file, n)) \in 0..BlkSize
        BY <2>1, BlockLength
      <3> QED
        BY <3>1, SourceAssumption
    <2> QED
      BY <2>1, <2>2
  <1>2. BlkSize \in Nat \ {0}
    BY SourceAssumption
  <1>3. /\ g.file = s.file /\ g.max = LargerOf(s.max, n) /\ g.eof = (s.eof \/ (n > s.max /\ s.onblk < BlkSize))
        /\ g.onlast = IF n >= s.max THEN s.onblk ELSE s.onlast
    BY DEF SrcType, SrcFields, Got
  <1> HIDE DEF g
  <1>4. SUFFICES ASSUME g.eof PROVE Len(g.file) <= SourceEof(g) /\ Len(g.file) <= (g.max + 1) * BlkSize
    BY DEF EndFound, g
  <1>5. CASE n < s.max
    <2>0. ~(n > s.max) /\ ~(n >= s.max) /\ LargerOf(s.max, n) = s.max
      BY <1>5 DEF LargerOf
    <2>1. g.file = s.file /\ g.max = s.max /\ g.onlast = s.onlast /\ s.eof
      BY <1>3, <1>4, <2>0, Zenon
    <2> QED
      BY <2>1 DEF EndFound, SourceEof
  <1>6. CASE ~(n < s.max)
    <2>1. g.file = s.file /\ g.max = n /\ g.onlast = s.onblk
      BY <1>3, <1>6 DEF LargerOf
    <2>2. Len(s.file) <= (n + 1) * BlkSize \/ s.onblk < BlkSize
      <3>1. s.eof \/ s.onblk < BlkSize
        BY <1>3, <1>4
      <3>2. ASSUME s.eof
            PROVE  Len(s.file) <= (n + 1) * BlkSize
        <4>1. Len(s.file) <= (s.max + 1) * BlkSize
          BY <3>2 DEF EndFound
        <4>2. PICK d \in Nat : n = s.max + d
          <5>1. n - s.max \in Nat /\ n = s.max + (n - s.max)
            BY <1>6
          <5> QED
            BY <5>1
        <4>3. PICK b, rest \in Nat : b = (s.max + 1) * BlkSize /\ rest = d * BlkSize
          BY <1>2, <4>2
        <4>4. (n + 1) * BlkSize = b + rest
          <5>1. \A u, v, w \in Nat : (u + v) * w = (u * w) + (v * w)
            OBVIOUS
          <5>2. ((s.max + 1) + d) * BlkSize = ((s.max + 1) * BlkSize) + (d * BlkSize)
            BY <1>2, <4>2, <5>1
          <5>3. n + 1 = (s.max + 1) + d
            BY <4>2
          <5> QED
            BY <4>3, <5>2, <5>3, Zenon
        <4>5. Len(s.file) <= b + rest
          BY <1>1, <4>1, <4>3
        <4> QED
          BY <4>4, <4>5
      <3> QED
        BY <3>1, <3>2
    <2>3. Len(s.file) <= n * BlkSize + s.onblk
      BY <1>1, <2>2, ShortBlock
    <2>4. s.onblk <= BlkSize
      <3>1. Len(Block(s.file, n)) \in 0..BlkSize
        BY <1>1, BlockLength
      <3> QED
        BY <1>1, <1>2, <3>1
    <2>5. PICK b \in Nat : b = n * BlkSize
      BY <1>2
    <2>6. (n + 1) * BlkSize = b + BlkSize
      BY <1>2, <2>5
    <2>7. Len(s.file) <= b + s.onblk /\ Len(s.file) <= b + BlkSize
      BY <1>1, <1>2, <2>3, <2>4, <2>5
    <2> QED
      BY <2>1, <2>5, <2>6, <2>7 DEF SourceEof
  <1> QED
    BY <1>5, <1>6

\* The source's index is to be moved on: the run and the matches stay as they are.
LEMMA BeginMoveExact ==
    ASSUME MatchType(match), NEW l, LoopType(l), NEW then, BeginMove(l, then)
    PROVE  /\ match'.state = match.state /\ match'.decided = match.decided /\ match'.min = match.min /\ match'.max = match.max
           /\ loop'.runL = l.runL /\ loop'.runC = l.runC /\ at' \in {then, "move"}
  <1>1. CASE at' = then /\ loop' = [l EXCEPT !.next = Unlimited] /\ match' = match
    BY <1>1 DEF LoopType
  <1>2. CASE \E to, from : at' = "move" /\ loop' = [l EXCEPT !.then = then, !.target = to] /\ match' = [match EXCEPT !.cksum = from]
    BY <1>2 DEF LoopType, MatchType, MatchFields
  <1> QED
    BY <1>1, <1>2 DEF BeginMove

\* From one look at the place the matcher is at to the next one.
LEMMA ByteExact ==
    ASSUME EncoderInvariant, ExactInvariant, at \in {"run", "large", "look", "small", "move"},
           at' \in {"run", "large", "look", "small", "move"},
           enc' = enc, src' = src, hash' = hash, iopt' = iopt,
           match'.state = match.state, match'.decided = match.decided, match'.min = match.min, match'.max = match.max,
           RunAt(loop', enc.in, enc.pos)
    PROVE  ExactInvariant'
  <1>1. match.state \notin {"FORWARD", "BACKWARD"}
    BY EncoderFields DEF MatchUnderWay, Extending
  <1>2. RunRight'
    BY DEF RunRight
  <1>3. SmallRight' /\ AllEncoded'
    BY ExactFields DEF SmallRight, AllEncoded, AtByte, Extending, WantsSlot, LazyNext
  <1> QED
    BY <1>1, <1>2, <1>3, CalmExact DEF WantsSlot

\* A run is the same whatever else of the loop's state changes.
LEMMA SameRun ==
    ASSUME NEW l, NEW m, NEW in, NEW pos, RunAt(l, in, pos), m.runL = l.runL, m.runC = l.runC
    PROVE  RunAt(m, in, pos)
  BY DEF RunAt

\* The index is moved on, or there is no string left to look for.
LEMMA TryLargeExact == ASSUME EncoderInvariant, ExactInvariant, TryLarge PROVE ExactInvariant'
  <1>1. /\ at = "large" /\ enc' = enc /\ src' = src /\ hash' = hash /\ iopt' = iopt /\ sect' = sect
        /\ LoopType(loop) /\ MatchType(match)
    BY EncoderFields DEF TryLarge
  <1>2. RunAt(loop, enc.in, enc.pos)
    BY <1>1, ExactFields DEF RunRight, AtByte
  <1>3. CASE at' \in {"small", "look"} /\ match' = match /\ loop' = loop
    BY <1>1, <1>2, <1>3, ByteExact
  <1>4. CASE BeginMove(loop, "look")
    <2>1. /\ match'.state = match.state /\ match'.decided = match.decided /\ match'.min = match.min /\ match'.max = match.max
          /\ loop'.runL = loop.runL /\ loop'.runC = loop.runC /\ at' \in {"look", "move"}
      BY <1>1, <1>4, BeginMoveExact
    <2>2. RunAt(loop', enc.in, enc.pos)
      BY <1>2, <2>1, SameRun
    <2> QED
      BY <1>1, <2>1, <2>2, ByteExact
  <1> QED
    BY <1>3, <1>4 DEF TryLarge

\* The index is far enough on.
LEMMA PointMovedExact == ASSUME EncoderInvariant, ExactInvariant, PointMoved PROVE ExactInvariant'
  <1>1. /\ at = "move" /\ at' = loop.then /\ loop.then \in {"run", "look"}
        /\ enc' = enc /\ src' = src /\ hash' = hash /\ iopt' = iopt /\ sect' = sect
        /\ MatchType(match) /\ LoopType(loop)
    BY EncoderFields DEF PointMoved, PlaceGood
  <1>2. RunAt(loop, enc.in, enc.pos)
    BY <1>1, ExactFields DEF RunRight, AtByte
  <1>3. \E n, c : loop' = [loop EXCEPT !.next = n] /\ (match' = match \/ match' = [match EXCEPT !.cksum = c])
    BY DEF PointMoved
  <1>4. /\ match'.state = match.state /\ match'.decided = match.decided /\ match'.min = match.min /\ match'.max = match.max
        /\ loop'.runL = loop.runL /\ loop'.runC = loop.runC
    BY <1>1, <1>3 DEF MatchType, MatchFields, LoopType
  <1>5. RunAt(loop', enc.in, enc.pos)
    BY <1>2, <1>4, SameRun
  <1> QED
    BY <1>1, <1>4, <1>5, ByteExact

\* xd3_iopt_add_finalize
LEMMA FinalizeExact == ASSUME EncoderInvariant, ExactInvariant, Finalize PROVE ExactInvariant'
  <1> DEFINE s == AddUpTo(sect, Len(enc.in), src)
  <1>1. /\ at = "pick" /\ iopt.used = <<>> /\ at' = "header"
        /\ sect' = IF s.iout = NoInst THEN s ELSE [Emitted(s, Code1(s.iout), s.iout) EXCEPT !.iout = NoInst]
        /\ enc' = enc /\ src' = src /\ match' = match /\ hash' = hash /\ iopt' = iopt /\ loop' = loop
        /\ SectType(sect) /\ Len(enc.in) \in Nat /\ match.state \notin {"FORWARD", "BACKWARD"}
    BY EncoderFields DEF Finalize, MatchUnderWay, Extending
  <1>2. SectType(s) /\ (Len(enc.in) >= sect.unenc => s.unenc = Len(enc.in))
    BY <1>1, AddType
  <1> HIDE DEF s
  <1>3. SectType(Emitted(s, Code1(s.iout), s.iout)) /\ Emitted(s, Code1(s.iout), s.iout).unenc = s.unenc
    BY <1>2, EmittedType
  <1>4. sect'.unenc = s.unenc
    BY <1>1, <1>3 DEF SectType
  <1>5. AllEncoded'
    <2>1. sect.unenc \in Nat
      BY <1>1 DEF SectType
    <2>2. iopt.slots = 0 => sect.unenc <= Len(enc.in)
      BY <1>1, ExactFields DEF AllEncoded
    <2> QED
      BY <1>1, <1>2, <1>4, <2>1, <2>2 DEF AllEncoded
  <1>6. RunRight' /\ SmallRight'
    BY <1>1, ExactFields DEF RunRight, SmallRight, AtByte, Extending, WantsSlot, LazyNext
  <1> QED
    BY <1>1, <1>5, <1>6, CalmExact DEF WantsSlot

\* The call asks for a block, and returns.
LEMMA AskForExact ==
    ASSUME EncoderInvariant, ExactInvariant, NEW n, AskFor(n), at \in {"extend", "move"}
    PROVE  ExactInvariant'
  <1>1. /\ src' = Want(src, n) /\ at' = "client" /\ enc' = [enc EXCEPT !.ret = "GETSRCBLK"]
        /\ match' = match /\ hash' = hash /\ iopt' = iopt /\ sect' = sect /\ loop' = loop
    BY DEF AskFor, Return
  <1>2. src.have /\ enc.state = "SEARCH" /\ SrcType(src) /\ EncType(enc)
    BY EncoderFields DEF PlaceGood, AtByte, Extending, StateGood, SourceGood
  <1>3. enc'.state = "SEARCH" /\ enc'.pos = enc.pos /\ enc'.in = enc.in
    BY <1>1, <1>2 DEF EncType, EncFields
  <1>4. src'.have = src.have /\ src'.file = src.file /\ src'.max = src.max /\ src'.onlast = src.onlast
        /\ src'.base = src.base /\ src'.len = src.len /\ src'.eof = src.eof
    BY <1>1, <1>2 DEF SrcType, SrcFields, Want
  <1>5. AllRight' /\ NewRight'
    <2>1. ~WantsSlot'
      BY <1>1 DEF WantsSlot
    <2> QED
      BY <1>1, <1>3, <1>4, <2>1, ExactFields, SameRight
  <1>6. MatchRight' /\ EndKnown'
    BY <1>1, <1>3, <1>4, ExactFields DEF MatchRight, EndKnown, EndFound, SourceEof
  <1>7. RunRight' /\ SmallRight' /\ AllEncoded'
    BY <1>1, <1>3, ExactFields DEF RunRight, SmallRight, AllEncoded, AtByte, Extending, WantsSlot, LazyNext
  <1> QED
    BY <1>5, <1>6, <1>7 DEF ExactInvariant

\* A match that is set up goes no further than the input, and than the window that is decided on.
LEMMA MatchSetupExact ==
    ASSUME EncoderInvariant, src.have, NEW srcpos \in Nat
    PROVE  LET m == MatchSetup(srcpos)
           IN  /\ m.decided = match.decided /\ m.min = match.min /\ m.max = match.max
               /\ m.maxfwd <= 0 \/ m.maxfwd <= Len(enc.in) - enc.pos
               /\ m.decided /\ m.maxfwd > 0 =>
                     /\ src.base <= m.srcpos /\ src.base + m.maxback <= m.srcpos
                     /\ m.srcpos + m.maxfwd <= src.base + src.len
  <1>1. MatchType(match) /\ SourceGood /\ SectType(sect) /\ enc.pos \in Nat /\ Len(enc.in) \in Nat
    BY EncoderFields
  <1> DEFINE low == IF match.decided THEN src.base ELSE 0
             high == IF match.decided THEN src.base + src.len
                     ELSE IF src.eof THEN SourceEof(src) ELSE Unlimited
             no == [match EXCEPT !.state = "SEARCHING", !.last = srcpos,
                           !.back = 0, !.fwd = 0, !.maxback = 0, !.maxfwd = 0]
             mb == SmallerOf(enc.pos - sect.unenc, srcpos - low)
             mf == SmallerOf(Len(enc.in) - enc.pos, high - srcpos)
             yes == [match EXCEPT !.state = "BACKWARD", !.srcpos = srcpos, !.last = srcpos,
                           !.back = 0, !.fwd = 0, !.maxback = mb, !.maxfwd = mf]
             m == MatchSetup(srcpos)
  <1>2. CASE Rejected(srcpos)
    <2>1. m = no
      BY <1>2, Zenon DEF MatchSetup
    <2>2. m.decided = match.decided /\ m.min = match.min /\ m.max = match.max /\ m.maxfwd = 0
      BY <1>1, <2>1 DEF MatchType, MatchFields
    <2> HIDE DEF m
    <2>3. m.maxfwd <= 0 /\ ~(m.maxfwd > 0)
      BY <2>2
    <2> QED
      BY <2>2, <2>3, Zenon DEF m
  <1>3. CASE ~Rejected(srcpos)
    <2>1. m = yes
      BY <1>3, Zenon DEF MatchSetup
    <2>2. PICK b, f, lo, hi : b = mb /\ f = mf /\ lo = low /\ hi = high
                            /\ b = SmallerOf(enc.pos - sect.unenc, srcpos - lo)
                            /\ f = SmallerOf(Len(enc.in) - enc.pos, hi - srcpos)
      OBVIOUS
    <2>3. f <= Len(enc.in) - enc.pos
      <3>1. high \in Int
        <4>1. Unlimited \in Int
          <5>1. \A w \in Nat : w \div 2 \in Int
            OBVIOUS
          <5> QED
            BY <5>1, WordAssumption DEF Unlimited
        <4>2. SourceEof(src) \in Int /\ src.base + src.len \in Int
          <5>1. src.max \in Nat /\ src.onlast \in Nat /\ BlkSize \in Nat /\ src.base \in Nat /\ src.len \in Int
            BY <1>1, SourceAssumption DEF SourceGood
          <5> QED
            BY <5>1 DEF SourceEof
        <4> QED
          BY <4>1, <4>2
      <3> HIDE DEF high
      <3> QED
        BY <1>1, <2>2, <3>1 DEF SmallerOf
    <2>4. match.decided => /\ src.base <= srcpos /\ src.base + b <= srcpos /\ srcpos + f <= src.base + src.len
      <3> SUFFICES ASSUME match.decided
                   PROVE  src.base <= srcpos /\ src.base + b <= srcpos /\ srcpos + f <= src.base + src.len
        OBVIOUS
      <3>1. src.base \in Nat /\ src.len \in Int /\ sect.unenc \in Nat
        BY <1>1 DEF SourceGood, SectType
      <3>2. src.base <= srcpos
        BY <1>3 DEF Rejected
      <3>3. b = SmallerOf(enc.pos - sect.unenc, srcpos - src.base)
            /\ f = SmallerOf(Len(enc.in) - enc.pos, (src.base + src.len) - srcpos)
        <4>1. lo = src.base /\ hi = src.base + src.len
          BY <2>2
        <4> HIDE DEF mb, mf, low, high
        <4> QED
          BY <2>2, <4>1
      <3> HIDE DEF mb, mf
      <3>4. src.base + b <= srcpos
        BY <1>1, <3>1, <3>3 DEF SmallerOf
      <3>5. srcpos + f <= src.base + src.len
        BY <1>1, <3>1, <3>3 DEF SmallerOf
      <3> QED
        BY <3>2, <3>4, <3>5
    <2>5. m = [match EXCEPT !.state = "BACKWARD", !.srcpos = srcpos, !.last = srcpos,
                           !.back = 0, !.fwd = 0, !.maxback = b, !.maxfwd = f]
      BY <2>1, <2>2, Zenon
    <2> HIDE DEF m, mb, mf
    <2>6. /\ m.decided = match.decided /\ m.min = match.min /\ m.max = match.max
          /\ m.maxfwd = f /\ m.maxback = b /\ m.srcpos = srcpos
      BY <1>1, <2>5 DEF MatchType, MatchFields
    <2> QED
      BY <2>3, <2>4, <2>6, Zenon DEF m
  <1> QED
    BY <1>2, <1>3

\* A match begins, or grows.
LEMMA GrownExact ==
    ASSUME EncoderInvariant, ExactInvariant, at' \in {"extend", "extended"},
           enc' = enc, hash' = hash, iopt' = iopt,
           src'.have = src.have, src.have => src'.file = src.file /\ src'.base = src.base /\ src'.len = src.len,
           match'.decided = match.decided, match'.min = match.min, match'.max = match.max,
           SmallBefore(hash.small, enc.pos), RunRight', MatchRight', EndKnown'
    PROVE  ExactInvariant'
  <1>1. AllRight' /\ NewRight'
    <2>1. ~WantsSlot'
      BY DEF WantsSlot
    <2> QED
      BY <2>1, ExactFields, SameRight
  <1>2. SmallRight' /\ AllEncoded'
    BY ExactFields DEF SmallRight, AllEncoded, AtByte, Extending, WantsSlot, LazyNext
  <1> QED
    BY <1>1, <1>2 DEF ExactInvariant

\* A match that has just been set up agrees in nothing yet.
LEMMA SetUpRight ==
    ASSUME EncoderInvariant, src.have, NEW srcpos \in Nat, enc' = enc, src' = src,
           NEW state, match' = [MatchSetup(srcpos) EXCEPT !.state = state]
    PROVE  /\ MatchRight' /\ match'.state = state
           /\ match'.decided = match.decided /\ match'.min = match.min /\ match'.max = match.max
  <1> DEFINE m == MatchSetup(srcpos)
  <1>1. MatchType(m) /\ m.fwd = 0 /\ m.back = 0
    BY MatchSetupType
  <1>2. /\ m.decided = match.decided /\ m.min = match.min /\ m.max = match.max
        /\ m.maxfwd <= 0 \/ m.maxfwd <= Len(enc.in) - enc.pos
        /\ m.decided /\ m.maxfwd > 0 =>
              /\ src.base <= m.srcpos /\ src.base + m.maxback <= m.srcpos
              /\ m.srcpos + m.maxfwd <= src.base + src.len
    BY MatchSetupExact
  <1> HIDE DEF m
  <1>3. /\ match'.state = state /\ match'.decided = m.decided /\ match'.min = m.min /\ match'.max = m.max
        /\ match'.maxfwd = m.maxfwd /\ match'.maxback = m.maxback /\ match'.srcpos = m.srcpos
        /\ match'.fwd = 0 /\ match'.back = 0
    <2>1. match' = [m EXCEPT !.state = state]
      BY DEF m
    <2> QED
      BY <1>1, <2>1 DEF MatchType, MatchFields
  <1>4. (1 - match'.back)..match'.fwd = {}
    BY <1>3
  <1>5. MatchRight'
    BY <1>2, <1>3, <1>4 DEF MatchRight
  <1> QED
    BY <1>2, <1>3, <1>5

\* The reentrant part of ENC_SEARCH
LEMMA SearchExact == ASSUME EncoderInvariant, ExactInvariant, Search PROVE ExactInvariant'
  <1>1. /\ at = "client" /\ enc.state = "SEARCH" /\ loop' = NewLoop
        /\ enc' = enc /\ src' = src /\ hash' = hash /\ iopt' = iopt /\ sect' = sect /\ MatchType(match)
    BY EncoderFields DEF Search, Called
  <1>2. SmallBefore(hash.small, enc.pos) /\ \A i \in DOMAIN hash.prev : hash.prev[i] \in Nat
    BY <1>1, ExactFields DEF SmallRight
  <1>3. loop'.then = "client"
    BY <1>1 DEF NewLoop
  <1>4. CASE /\ match'.decided = match.decided /\ match'.min = match.min /\ match'.max = match.max
             /\ match'.state \notin {"FORWARD", "BACKWARD"} /\ at' \in {"instr", "restart"}
    <2>1. RunRight' /\ SmallRight' /\ AllEncoded'
      BY <1>1, <1>2, <1>4 DEF RunRight, SmallRight, AllEncoded, AtByte, Extending, WantsSlot, LazyNext
    <2> QED
      BY <1>1, <1>4, <2>1, CalmExact DEF WantsSlot
  <1>5. CASE ~src.have \/ Len(enc.in) = 0
    <2>1. /\ match' = IF src.have /\ match.state = "TARGET"
                        THEN [match EXCEPT !.state = "SEARCHING", !.fwd = 0] ELSE match
          /\ at' \in {"instr", "restart"}
      BY <1>5 DEF Search
    <2>2. match.state \notin {"FORWARD", "BACKWARD"}
      BY <1>5, EncoderFields DEF MatchUnderWay
    <2>3. /\ match'.decided = match.decided /\ match'.min = match.min /\ match'.max = match.max
          /\ match'.state \notin {"FORWARD", "BACKWARD"}
      BY <1>1, <2>1, <2>2 DEF MatchType, MatchFields
    <2> QED
      BY <1>4, <2>1, <2>3
  <1>6. EndKnown'
    <2>1. match'.max = match.max => EndKnown'
      BY <1>1, ExactFields DEF EndKnown
    <2>2. CASE ~src.have
      BY <1>1, <2>2 DEF EndKnown
    <2>3. CASE src.have
      <3>1. match' = match \/ match' = [MatchSetup(match.srcpos) EXCEPT !.state = "FORWARD"] \/ match' = [match EXCEPT !.state = "SEARCHING", !.fwd = 0]
        BY DEF Search
      <3>2. match.srcpos \in Nat
        BY <1>1 DEF MatchType
      <3>3. CASE match' = [MatchSetup(match.srcpos) EXCEPT !.state = "FORWARD"]
        BY <1>1, <2>1, <2>3, <3>2, <3>3, SetUpRight
      <3>4. CASE match' = match \/ match' = [match EXCEPT !.state = "SEARCHING", !.fwd = 0]
        BY <1>1, <2>1, <3>4 DEF MatchType, MatchFields
      <3> QED
        BY <3>1, <3>3, <3>4
    <2> QED
      BY <2>2, <2>3
  <1>7. CASE src.have /\ Len(enc.in) # 0
    <2>1. \/ /\ match.state = "TARGET"
             /\ match' = [MatchSetup(match.srcpos) EXCEPT !.state = "FORWARD"]
             /\ at' = "extend"
          \/ match.state \in {"FORWARD", "BACKWARD"} /\ at' = "extend" /\ match' = match
          \/ match.state = "SEARCHING" /\ at' = "restart" /\ match' = match
      BY <1>7 DEF Search
    <2>2. CASE match.state = "SEARCHING" /\ at' = "restart" /\ match' = match
      BY <1>4, <2>2
    <2>3. CASE at' = "extend"
      <3>1. RunRight'
        BY <1>3, <2>3 DEF RunRight, AtByte, Extending, WantsSlot, LazyNext
      <3>2. MatchRight' /\ match'.decided = match.decided /\ match'.min = match.min /\ match'.max = match.max
        <4>1. CASE match' = match
          BY <1>1, <4>1, ExactFields DEF MatchRight
        <4>2. CASE match' = [MatchSetup(match.srcpos) EXCEPT !.state = "FORWARD"]
          <5>1. match.srcpos \in Nat
            BY <1>1 DEF MatchType
          <5> QED
            BY <1>1, <1>7, <4>2, <5>1, SetUpRight
        <4> QED
          BY <2>1, <4>1, <4>2
      <3> QED
        BY <1>1, <1>2, <1>6, <2>3, <3>1, <3>2, GrownExact
    <2> QED
      BY <2>1, <2>2, <2>3
  <1> QED
    BY <1>5, <1>7, EncoderFields

\* What the encoder knows of the end of the source is still true after a look at a block.
LEMMA GotKnown ==
    ASSUME EncoderInvariant, EndKnown, src.have, NEW n \in Nat, Loaded(src, n), src' = Got(src, n), match'.max = match.max
    PROVE  EndKnown' /\ src'.have = src.have /\ src'.file = src.file /\ src'.base = src.base /\ src'.len = src.len
  <1>1. SrcType(src) /\ src.max \in Nat /\ src.onlast \in Nat
    BY EncoderFields DEF SourceGood
  <1>2. src'.have = src.have /\ src'.file = src.file /\ src'.base = src.base /\ src'.len = src.len
    BY <1>1, GotSource
  <1>3. EndFound(src) /\ match.max <= Len(src.file)
    BY DEF EndKnown
  <1>4. EndFound(src')
    BY <1>1, <1>3, GotEnd
  <1> QED
    BY <1>2, <1>3, <1>4 DEF EndKnown

\* The agreement of a match, with what was found before it or behind it.
Agrees(file, in, sp, pos, from, to) == \A i \in from..to : file[sp + i] = in[pos + i]

\* Two stretches that agree and meet are one.
LEMMA AgreesBoth ==
    ASSUME NEW file, NEW in, NEW sp, NEW pos, NEW a \in Int, NEW b \in Int, NEW c \in Int, NEW d \in Int,
           Agrees(file, in, sp, pos, a, b), Agrees(file, in, sp, pos, c, d), c <= b + 1
    PROVE  Agrees(file, in, sp, pos, a, d)
  BY DEF Agrees

\* A match grows backward.
LEMMA ExtendBackExact == ASSUME EncoderInvariant, ExactInvariant, ExtendBack PROVE ExactInvariant'
  <1>1. /\ at = "extend" /\ match.state = "BACKWARD" /\ MatchType(match) /\ src.have
        /\ src.max \in Nat /\ src.onlast \in Nat
    BY EncoderFields DEF ExtendBack, SourceGood, PlaceGood, Extending
  <1>2. PICK sp, bk, fw, pos \in Nat, mb \in Int :
          sp = match.srcpos /\ bk = match.back /\ fw = match.fwd /\ mb = match.maxback /\ pos = enc.pos /\ bk <= sp /\ mb <= sp
    BY <1>1, EncoderFields DEF MatchType
  <1>3. /\ match.maxfwd <= 0 \/ match.maxfwd <= Len(enc.in) - enc.pos
        /\ match.fwd = 0 \/ match.fwd <= match.maxfwd
        /\ match.back = 0 \/ match.back <= match.maxback
        /\ match.decided /\ match.maxfwd > 0 =>
              /\ src.base <= match.srcpos /\ src.base + match.maxback <= match.srcpos
              /\ match.srcpos + match.maxfwd <= src.base + src.len
        /\ Agrees(src.file, enc.in, sp, pos, 1 - bk, fw)
    BY <1>1, <1>2, ExactFields DEF MatchRight, Agrees
  <1>4. SmallBefore(hash.small, enc.pos) /\ EndKnown /\ (loop.then = "loop" => RunAt(loop, enc.in, enc.pos))
    BY <1>1, ExactFields DEF SmallRight, Extending, RunRight
  <1>5. CASE match.back >= match.maxback
    <2>1. /\ match' = [match EXCEPT !.state = "FORWARD"]
          /\ enc' = enc /\ at' = at /\ src' = src /\ hash' = hash /\ iopt' = iopt /\ sect' = sect /\ loop' = loop
      BY <1>5 DEF ExtendBack
    <2>2. /\ match'.srcpos = match.srcpos /\ match'.fwd = match.fwd /\ match'.back = match.back
          /\ match'.maxback = match.maxback /\ match'.maxfwd = match.maxfwd
          /\ match'.decided = match.decided /\ match'.min = match.min /\ match'.max = match.max
      BY <1>1, <2>1 DEF MatchType, MatchFields
    <2>3. MatchRight' /\ EndKnown' /\ RunRight'
      <3>1. MatchRight'
        BY <1>2, <1>3, <2>1, <2>2 DEF MatchRight, Agrees
      <3> QED
        BY <1>1, <1>4, <2>1, <2>2, <3>1 DEF EndKnown, RunRight, AtByte, Extending, WantsSlot, LazyNext
    <2> QED
      BY <1>1, <1>4, <2>1, <2>2, <2>3, GrownExact
  <1>6. CASE ~(match.back >= match.maxback)
    <2>1. bk < mb /\ bk < sp
      BY <1>2, <1>6
    <2>2. PICK x \in Nat : x = sp - bk - 1
      BY <1>2, <2>1
    <2>3. PICK n, from, off \in Nat : /\ n = x \div BlkSize /\ from = n * BlkSize
                                      /\ off < BlkSize /\ x = from + off
      BY PlaceInBlock
    <2>6. n = BackBlock
      BY <1>2, <2>2, <2>3 DEF BackBlock
    <2>7. from <= sp /\ sp - bk - from >= 1
      BY <1>2, <2>2, <2>3
    <2>4. CASE AskFor(BackBlock)
      BY <1>1, <2>4, AskForExact
    <2> DEFINE start == match.srcpos - match.back
               rem == SmallerOf(start - BackBlock * BlkSize, match.maxback - match.back)
               same(k) == SourceByte(src, start - k - 1) = enc.in[enc.pos - match.back - k]
               m == Agreeing(rem, same)
    <2>5. CASE /\ Loaded(src, BackBlock) /\ src' = Got(src, BackBlock)
               /\ match' = [match EXCEPT !.back = @ + m, !.state = IF m < rem THEN "FORWARD" ELSE @]
               /\ enc' = enc /\ at' = at /\ hash' = hash /\ iopt' = iopt /\ sect' = sect /\ loop' = loop
      <3>1. rem \in Nat /\ rem <= mb - bk
        <4>1. start - BackBlock * BlkSize = sp - bk - from
          BY <1>2, <2>3, <2>6
        <4>2. sp - bk - from \in Nat /\ mb - bk \in Nat
          BY <1>2, <2>1, <2>7
        <4> QED
          BY <1>2, <4>1, <4>2 DEF SmallerOf
      <3> HIDE DEF rem
      <3>2. m \in 0..rem /\ \A j \in 0..(m - 1) : same(j)
        <4> DEFINE G == {k \in 0..rem : same(k)}
        <4>1. \E k \in 0..rem : (k = rem \/ k \notin G) /\ \A j \in 0..(k - 1) : j \in G
          BY <3>1, FirstOf
        <4>2. \E k \in 0..rem : (k = rem \/ ~same(k)) /\ \A j \in 0..(k - 1) : same(j)
          BY <4>1
        <4> QED
          BY <4>2, Zenon DEF Agreeing
      <3> HIDE DEF m
      <3>3. m \in Nat /\ bk + m \in Nat /\ bk + m <= mb
        BY <1>2, <3>1, <3>2
      <3>4. Agrees(src.file, enc.in, sp, pos, 1 - (bk + m), 0 - bk)
        <4> SUFFICES ASSUME NEW i \in (1 - (bk + m))..(0 - bk) PROVE src.file[sp + i] = enc.in[pos + i]
          BY DEF Agrees
        <4>1. PICK k \in 0..(m - 1) : k = (0 - bk) - i
          <5>1. bk \in Nat /\ m \in Nat /\ i \in Int /\ 1 - (bk + m) <= i /\ i <= 0 - bk
            BY <1>2, <3>3
          <5>2. (0 - bk) - i \in 0..(m - 1)
            BY <5>1
          <5> QED
            BY <5>2
        <4>2. same(k)
          BY <3>2, <4>1
        <4>3. (start - k - 1) + 1 = sp + i /\ enc.pos - match.back - k = pos + i
          BY <1>2, <3>3, <4>1
        <4> QED
          BY <4>2, <4>3 DEF SourceByte
      <3>5. Agrees(src.file, enc.in, sp, pos, 1 - (bk + m), fw)
        <4>1. 1 - (bk + m) \in Int /\ 0 - bk \in Int /\ 1 - bk \in Int /\ 1 - bk <= (0 - bk) + 1
          BY <1>2, <3>3
        <4> QED
          BY <1>2, <1>3, <3>4, <4>1, AgreesBoth
      <3>6. /\ match'.srcpos = sp /\ match'.fwd = fw /\ match'.back = bk + m
            /\ match'.maxback = mb /\ match'.maxfwd = match.maxfwd
            /\ match'.decided = match.decided /\ match'.min = match.min /\ match'.max = match.max
        BY <1>1, <1>2, <2>5 DEF MatchType, MatchFields
      <3>7. EndKnown' /\ src'.have = src.have /\ src'.file = src.file /\ src'.base = src.base /\ src'.len = src.len
        BY <1>1, <1>4, <2>5, <2>6, <3>6, GotKnown
      <3>8. MatchRight' /\ RunRight'
        <4>1. MatchRight'
          BY <1>2, <1>3, <2>5, <3>3, <3>5, <3>6, <3>7 DEF MatchRight, Agrees
        <4> QED
          BY <1>1, <1>4, <2>5, <4>1 DEF RunRight, AtByte, Extending, WantsSlot, LazyNext
      <3> QED
        BY <1>1, <1>4, <2>5, <3>6, <3>7, <3>8, GrownExact
    <2> QED
      BY <1>6, <2>4, <2>5 DEF ExtendBack
  <1> QED
    BY <1>5, <1>6

\* A match grows forward.
LEMMA ExtendForwardExact == ASSUME EncoderInvariant, ExactInvariant, ExtendForward PROVE ExactInvariant'
  <1>1. /\ at = "extend" /\ match.state = "FORWARD" /\ SourceGood /\ MatchType(match) /\ src.have /\ SrcType(src)
        /\ match.srcpos + match.fwd <= Len(src.file)
        /\ src.max \in Nat /\ src.onlast \in Nat
    BY EncoderFields DEF ExtendForward, SourceGood, PlaceGood, Extending
  <1>2. PICK sp, bk, fw, pos \in Nat, mf \in Int :
          sp = match.srcpos /\ bk = match.back /\ fw = match.fwd /\ mf = match.maxfwd /\ pos = enc.pos
    BY <1>1, EncoderFields DEF MatchType
  <1>3. /\ match.maxfwd <= 0 \/ match.maxfwd <= Len(enc.in) - enc.pos
        /\ match.fwd = 0 \/ match.fwd <= match.maxfwd
        /\ match.back = 0 \/ match.back <= match.maxback
        /\ match.decided /\ match.maxfwd > 0 =>
              /\ src.base <= match.srcpos /\ src.base + match.maxback <= match.srcpos
              /\ match.srcpos + match.maxfwd <= src.base + src.len
        /\ Agrees(src.file, enc.in, sp, pos, 1 - bk, fw)
    BY <1>1, <1>2, ExactFields DEF MatchRight, Agrees
  <1>4. SmallBefore(hash.small, enc.pos) /\ EndKnown /\ (loop.then = "loop" => RunAt(loop, enc.in, enc.pos))
    BY <1>1, ExactFields DEF SmallRight, Extending, RunRight
  <1>5. CASE match.fwd >= match.maxfwd
    <2>1. /\ at' = "extended" /\ match' = match
          /\ enc' = enc /\ src' = src /\ hash' = hash /\ iopt' = iopt /\ sect' = sect /\ loop' = loop
      BY <1>5 DEF ExtendForward
    <2>2. MatchRight' /\ EndKnown' /\ RunRight'
      BY <1>1, <1>4, <2>1, ExactFields DEF MatchRight, EndKnown, RunRight, AtByte, Extending, WantsSlot, LazyNext
    <2> QED
      BY <1>1, <1>4, <2>1, <2>2, GrownExact
  <1>6. CASE ~(match.fwd >= match.maxfwd)
    <2>1. fw < mf
      BY <1>2, <1>6
    <2>2. PICK x \in Nat : x = sp + fw /\ x <= Len(src.file)
      BY <1>1, <1>2
    <2>3. PICK n, from, on \in Nat : /\ n = x \div BlkSize /\ from = n * BlkSize /\ on = Len(Block(src.file, n))
                                     /\ from <= x /\ x <= from + on /\ from + on <= Len(src.file)
      <3>1. src.file \in Seq(Byte)
        BY <1>1 DEF SrcType
      <3> QED
        BY <2>2, <3>1, BlockReaches
    <2>6. n = FwdBlock
      BY <1>2, <2>2, <2>3 DEF FwdBlock
    <2>4. CASE AskFor(FwdBlock)
      BY <1>1, <2>4, AskForExact
    <2> DEFINE start == match.srcpos + match.fwd
               rem == SmallerOf(match.maxfwd - match.fwd, FwdBlock * BlkSize + src.onblk - start)
               same(k) == SourceByte(src, start + k) = enc.in[enc.pos + match.fwd + k + 1]
               m == Agreeing(rem, same)
    <2>5. CASE /\ Loaded(src, FwdBlock) /\ src' = Got(src, FwdBlock)
               /\ match' = [match EXCEPT !.fwd = @ + m]
               /\ at' = IF rem = 0 \/ m < rem THEN "extended" ELSE "extend"
               /\ enc' = enc /\ hash' = hash /\ iopt' = iopt /\ sect' = sect /\ loop' = loop
      <3>0. at' \in {"extend", "extended"}
        BY <2>5
      <3>1. rem \in Nat /\ rem <= mf - fw
        <4>1. src.onblk = on
          BY <1>1, <2>3, <2>5, <2>6 DEF Loaded, SrcType
        <4>2. FwdBlock * BlkSize + src.onblk - start = (from + on) - x
          BY <1>2, <2>2, <2>3, <2>6, <4>1
        <4>3. (from + on) - x \in Nat
          BY <2>2, <2>3
        <4>5. mf - fw \in Nat
          BY <1>2, <2>1
        <4>4. rem = SmallerOf(mf - fw, (from + on) - x)
          BY <1>2, <4>2
        <4> HIDE DEF rem
        <4> QED
          BY <4>3, <4>4, <4>5 DEF SmallerOf
      <3> HIDE DEF rem
      <3>2. m \in 0..rem /\ \A j \in 0..(m - 1) : same(j)
        <4> DEFINE G == {k \in 0..rem : same(k)}
        <4>1. \E k \in 0..rem : (k = rem \/ k \notin G) /\ \A j \in 0..(k - 1) : j \in G
          BY <3>1, FirstOf
        <4>2. \E k \in 0..rem : (k = rem \/ ~same(k)) /\ \A j \in 0..(k - 1) : same(j)
          BY <4>1
        <4> QED
          BY <4>2, Zenon DEF Agreeing
      <3> HIDE DEF m
      <3>3. m \in Nat /\ fw + m \in Nat /\ fw + m <= mf
        BY <1>2, <3>1, <3>2
      <3>4. Agrees(src.file, enc.in, sp, pos, fw + 1, fw + m)
        <4> SUFFICES ASSUME NEW i \in (fw + 1)..(fw + m) PROVE src.file[sp + i] = enc.in[pos + i]
          BY DEF Agrees
        <4>1. PICK k \in 0..(m - 1) : k = i - fw - 1
          BY <1>2, <3>3
        <4>2. same(k)
          BY <3>2, <4>1
        <4>3. (start + k) + 1 = sp + i /\ enc.pos + match.fwd + k + 1 = pos + i
          BY <1>2, <3>3, <4>1
        <4> QED
          BY <4>2, <4>3 DEF SourceByte
      <3>5. Agrees(src.file, enc.in, sp, pos, 1 - bk, fw + m)
        <4>1. 1 - bk \in Int /\ fw + 1 \in Int /\ fw + m \in Int /\ fw + 1 <= fw + 1
          BY <1>2, <3>3
        <4> QED
          BY <1>2, <1>3, <3>4, <4>1, AgreesBoth
      <3>6. /\ match'.srcpos = sp /\ match'.fwd = fw + m /\ match'.back = bk
            /\ match'.maxback = match.maxback /\ match'.maxfwd = mf
            /\ match'.decided = match.decided /\ match'.min = match.min /\ match'.max = match.max
        BY <1>1, <1>2, <2>5 DEF MatchType, MatchFields
      <3>7. EndKnown' /\ src'.have = src.have /\ src'.file = src.file /\ src'.base = src.base /\ src'.len = src.len
        BY <1>1, <1>4, <2>5, <2>6, <3>6, GotKnown
      <3>8. MatchRight' /\ RunRight'
        <4>1. MatchRight'
          BY <1>2, <1>3, <2>5, <3>3, <3>5, <3>6, <3>7 DEF MatchRight, Agrees
        <4> QED
          BY <1>1, <1>4, <2>5, <3>0, <4>1 DEF RunRight, AtByte, Extending, WantsSlot, LazyNext
      <3> QED
        BY <1>1, <1>4, <2>5, <3>0, <3>6, <3>7, <3>8, GrownExact
    <2> QED
      BY <1>6, <2>4, <2>5 DEF ExtendForward
  <1> QED
    BY <1>5, <1>6

\* The index grows by a block.
LEMMA MovePointExact == ASSUME EncoderInvariant, ExactInvariant, MovePoint PROVE ExactInvariant'
  <1>1. /\ at = "move" /\ src.have /\ MatchType(match) /\ HashType(hash) /\ match.state \notin {"FORWARD", "BACKWARD"}
    BY EncoderFields DEF MovePoint, PlaceGood, MatchUnderWay, Extending
  <1>2. NextToIndex \in Nat
    <2>1. match.cksum \in Nat /\ BlkSize \in Nat \ {0}
      BY <1>1, SourceAssumption DEF MatchType
    <2> QED
      BY <2>1 DEF NextToIndex
  <1>3. CASE AskFor(NextToIndex)
    BY <1>1, <1>3, AskForExact
  <1>4. CASE /\ Loaded(src, NextToIndex) /\ src' = Got(src, NextToIndex)
             /\ \E n : hash' = hash \/ hash' = [hash EXCEPT !.large = n]
             /\ match' = [match EXCEPT !.cksum = (NextToIndex + 1) * BlkSize]
             /\ enc' = enc /\ at' = at /\ iopt' = iopt /\ sect' = sect /\ loop' = loop
    <2>1. /\ match'.state = match.state /\ match'.decided = match.decided /\ match'.min = match.min /\ match'.max = match.max
          /\ hash'.small = hash.small /\ hash'.prev = hash.prev
      BY <1>1, <1>4 DEF MatchType, MatchFields, HashType
    <2>2. EndKnown' /\ src'.have = src.have /\ src'.file = src.file /\ src'.base = src.base /\ src'.len = src.len
      BY <1>1, <1>2, <1>4, <2>1, GotKnown, ExactFields
    <2>3. AllRight' /\ NewRight'
      <3>1. ~WantsSlot'
        BY <1>1, <1>4 DEF WantsSlot
      <3> QED
        BY <1>4, <2>1, <2>2, <3>1, ExactFields, SameRight
    <2>4. MatchRight'
      BY <1>1, <2>1 DEF MatchRight
    <2>5. RunRight' /\ SmallRight' /\ AllEncoded'
      BY <1>1, <1>4, <2>1, ExactFields DEF RunRight, SmallRight, AllEncoded, AtByte, Extending, WantsSlot, LazyNext
    <2> QED
      BY <2>2, <2>3, <2>4, <2>5 DEF ExactInvariant
  <1>5. ASSUME ~AskFor(NextToIndex)
        PROVE  /\ Loaded(src, NextToIndex) /\ src' = Got(src, NextToIndex)
               /\ \E n : hash' = hash \/ hash' = [hash EXCEPT !.large = n]
               /\ match' = [match EXCEPT !.cksum = (NextToIndex + 1) * BlkSize]
               /\ enc' = enc /\ at' = at /\ iopt' = iopt /\ sect' = sect /\ loop' = loop
    <2> DEFINE n == BytesOnBlk(src', NextToIndex)
               large == IndexOf(n, match.cksum % BlkSize)
    <2>1. /\ Loaded(src, NextToIndex) /\ src' = Got(src, NextToIndex)
          /\ hash' = IF n < LLook THEN hash ELSE [hash EXCEPT !.large = large]
          /\ match' = [match EXCEPT !.cksum = (NextToIndex + 1) * BlkSize]
          /\ enc' = enc /\ at' = at /\ iopt' = iopt /\ sect' = sect /\ loop' = loop
      BY <1>5, Zenon DEF MovePoint
    <2> HIDE DEF n, large
    <2> QED
      BY <2>1
  <1> QED
    BY <1>3, <1>4, <1>5

\* The run at the end of the string here, counted anew.
LEMMA CountedRun ==
    ASSUME NEW l, NEW pos \in Nat, pos = enc.pos, NEW m \in 0..(SLook - 1), l.runL = 1 + m, l.runC = Input(pos + SLook - 1),
           \A k \in 0..(m - 1) : Input(pos + SLook - 2 - k) = Input(pos + SLook - 1)
    PROVE  RunAt(l, enc.in, pos)
  <1>1. m \in 0..3 /\ l.runL \in Nat /\ l.runC = enc.in[pos + 4]
    <2>1. pos + SLook - 1 + 1 = pos + 4 /\ SLook = 4
      BY DEF SLook
    <2>2. l.runC = enc.in[pos + 4]
      BY <2>1, Zenon DEF Input
    <2> QED
      BY <2>1, <2>2
  <1>2. ASSUME NEW i \in (pos + 1)..(pos + 4), pos + 4 - i < 1 + m
        PROVE  enc.in[i] = l.runC
    <2>1. CASE i = pos + 4
      BY <1>1, <2>1
    <2>2. CASE i # pos + 4
      <3>1. PICK k \in 0..(m - 1) : k = (pos + 3) - i
        <4>1. (pos + 3) - i \in 0..(m - 1)
          BY <1>1, <1>2, <2>2
        <4> QED
          BY <4>1
      <3>2. (pos + SLook - 2 - k) + 1 = i /\ pos + SLook - 1 + 1 = pos + 4
        BY <3>1 DEF SLook
      <3>3. Input(pos + SLook - 2 - k) = enc.in[i] /\ Input(pos + SLook - 1) = enc.in[pos + 4]
        BY <3>2, Zenon DEF Input
      <3> QED
        BY <1>1, <3>1, <3>3
    <2> QED
      BY <2>1, <2>2
  <1> QED
    BY <1>1, <1>2 DEF RunAt, SLook

\* restartloop
LEMMA RestartExact == ASSUME EncoderInvariant, ExactInvariant, Restart PROVE ExactInvariant'
  <1>1. /\ at = "restart" /\ src' = src /\ hash' = hash /\ iopt' = iopt /\ sect' = sect
        /\ match.state \notin {"FORWARD", "BACKWARD"}
        /\ MatchType(match) /\ LoopType(loop) /\ EncType(enc) /\ enc.pos \in Nat
    BY EncoderFields DEF Restart, MatchUnderWay, Extending
  <1>2. SmallBefore(hash.small, enc.pos) /\ \A i \in DOMAIN hash.prev : hash.prev[i] \in Nat
    BY <1>1, ExactFields DEF SmallRight
  <1>3. CASE enc.pos + SLook > Len(enc.in)
    <2>1. at' = "instr" /\ enc' = enc /\ match' = match /\ loop' = loop
      BY <1>3 DEF Restart
    <2>2. RunRight' /\ SmallRight' /\ AllEncoded'
      BY <1>1, <1>2, <2>1 DEF RunRight, SmallRight, AllEncoded, AtByte, Extending, WantsSlot, LazyNext
    <2> QED
      BY <1>1, <2>1, <2>2, CalmExact DEF WantsSlot
  <1>4. CASE ~(enc.pos + SLook > Len(enc.in))
    <2> DEFINE mm == LargerOf(MinMatch, 1 + LastMatched(iopt.used) - enc.pos)
               last == Input(enc.pos + SLook - 1)
               same(k) == Input(enc.pos + SLook - 2 - k) = last
               m == Agreeing(SLook - 1, same)
               ran == [loop EXCEPT !.runL = 1 + m, !.runC = last]
    <2>1. /\ enc' = [enc EXCEPT !.minMatch = mm]
          /\ IF src.have /\ enc.pos + LLook <= Len(enc.in)
             THEN BeginMove(ran, "run")
             ELSE at' = "run" /\ loop' = ran /\ UNCHANGED match
      BY <1>4, Zenon DEF Restart
    <2>2. m \in 0..(SLook - 1) /\ \A j \in 0..(m - 1) : same(j)
      <3>1. SLook - 1 \in Nat
        BY DEF SLook
      <3> HIDE DEF last
      <3> DEFINE G == {k \in 0..(SLook - 1) : same(k)}
      <3>2. \E k \in 0..(SLook - 1) : (k = SLook - 1 \/ k \notin G) /\ \A j \in 0..(k - 1) : j \in G
        BY <3>1, FirstOf
      <3>3. \E k \in 0..(SLook - 1) : (k = SLook - 1 \/ ~same(k)) /\ \A j \in 0..(k - 1) : same(j)
        BY <3>2, SMT DEF SLook
      <3> QED
        BY <3>3, Zenon DEF Agreeing
    <2> HIDE DEF m, mm
    <2>3. LoopType(ran) /\ ran.runL = 1 + m /\ ran.runC = last
      BY <1>1 DEF LoopType
    <2> HIDE DEF ran
    <2>4. RunAt(ran, enc.in, enc.pos)
      BY <1>1, <2>2, <2>3, CountedRun
    <2>5. enc'.in = enc.in /\ enc'.pos = enc.pos
      BY <1>1, <2>1 DEF EncType, EncFields
    <2>6. /\ match'.state = match.state /\ match'.decided = match.decided /\ match'.min = match.min /\ match'.max = match.max
          /\ loop'.runL = ran.runL /\ loop'.runC = ran.runC /\ at' \in {"run", "move"}
      <3>1. CASE BeginMove(ran, "run")
        BY <1>1, <2>3, <3>1, BeginMoveExact
      <3>2. CASE at' = "run" /\ loop' = ran /\ match' = match
        BY <3>2
      <3> QED
        BY <2>1, <3>1, <3>2
    <2>7. RunAt(loop', enc.in, enc.pos)
      BY <2>4, <2>6, SameRun
    <2>8. RunRight' /\ SmallRight' /\ AllEncoded'
      BY <1>1, <1>2, <2>5, <2>6, <2>7 DEF RunRight, SmallRight, AllEncoded, AtByte, Extending, WantsSlot, LazyNext
    <2> QED
      BY <1>1, <2>5, <2>6, <2>8, CalmExact DEF WantsSlot
  <1> QED
    BY <1>3, <1>4

\* A copy of the source is looked for.
LEMMA LookLargeExact == ASSUME EncoderInvariant, ExactInvariant, LookLarge PROVE ExactInvariant'
  <1>1. /\ at = "look" /\ enc' = enc /\ src' = src /\ hash' = hash /\ iopt' = iopt /\ sect' = sect
        /\ LoopType(loop) /\ MatchType(match) /\ HashType(hash) /\ src.have
    BY EncoderFields DEF LookLarge, PlaceGood
  <1>0. RunAt(loop, enc.in, enc.pos) /\ SmallBefore(hash.small, enc.pos) /\ EndKnown
    BY <1>1, ExactFields DEF RunRight, SmallRight, AtByte
  <1>2. PICK b : \/ at' = "small" /\ match' = match /\ loop' = loop
                 \/ /\ b \in DOMAIN hash.large
                    /\ match' = MatchSetup(hash.large[b] - 1)
                    /\ at' = IF match'.state = "BACKWARD" THEN "extend" ELSE "small"
                    /\ loop' = [loop EXCEPT !.then = "loop"]
    <2> DEFINE b == Bucket(String(enc.pos, LLook))
    <2>1. IF b \notin DOMAIN hash.large
          THEN at' = "small" /\ UNCHANGED <<match, loop>>
          ELSE /\ match' = MatchSetup(hash.large[b] - 1)
               /\ at' = IF match'.state = "BACKWARD" THEN "extend" ELSE "small"
               /\ loop' = [loop EXCEPT !.then = "loop"]
      BY Zenon DEF LookLarge
    <2> HIDE DEF b
    <2> QED
      BY <2>1
  <1>3. CASE at' = "small" /\ match' = match /\ loop' = loop
    BY <1>0, <1>1, <1>3, ByteExact
  <1>4. CASE /\ b \in DOMAIN hash.large
             /\ match' = MatchSetup(hash.large[b] - 1)
             /\ at' = IF match'.state = "BACKWARD" THEN "extend" ELSE "small"
             /\ loop' = [loop EXCEPT !.then = "loop"]
    <2>1. PICK p \in Nat : p = hash.large[b] - 1
      BY <1>1, <1>4 DEF HashType
    <2>2. match' = MatchSetup(p)
      BY <1>4, <2>1
    <2>3. match'.state \in {"SEARCHING", "BACKWARD"} /\ MatchType(match')
      BY <1>1, <2>1, <2>2, MatchSetupType
    <2>4. loop'.runL = loop.runL /\ loop'.runC = loop.runC /\ loop'.then = "loop"
      BY <1>1, <1>4 DEF LoopType
    <2>5. RunAt(loop', enc.in, enc.pos)
      BY <1>0, <2>4, SameRun
    <2>6. RunRight'
      BY <1>1, <2>5 DEF RunRight
    <2>7. MatchRight' /\ match'.decided = match.decided /\ match'.min = match.min /\ match'.max = match.max
      <3>1. match' = [MatchSetup(p) EXCEPT !.state = match'.state]
        <4> DEFINE m == MatchSetup(p)
        <4>1. PICK v, w, x, y, z : m = [match EXCEPT !.state = "SEARCHING", !.last = v, !.back = w, !.fwd = x, !.maxback = y, !.maxfwd = z]
                 \/ \E u : m = [match EXCEPT !.state = "BACKWARD", !.srcpos = u, !.last = v, !.back = w, !.fwd = x, !.maxback = y, !.maxfwd = z]
          BY Zenon DEF MatchSetup
        <4> HIDE DEF m
        <4>2. m = [m EXCEPT !.state = m.state]
          BY <4>1
        <4> QED
          BY <2>2, <4>2, Zenon DEF m
      <3> QED
        BY <1>1, <3>1, SetUpRight
    <2>8. CASE at' = "small"
      <3>1. match'.state \notin {"FORWARD", "BACKWARD"}
        BY <1>4, <2>3, <2>8
      <3>2. SmallRight' /\ AllEncoded'
        BY <1>1, <2>8, ExactFields DEF SmallRight, AllEncoded, AtByte, Extending, WantsSlot, LazyNext
      <3> QED
        BY <1>1, <2>6, <2>7, <2>8, <3>1, <3>2, CalmExact DEF WantsSlot
    <2>9. CASE at' = "extend"
      <3>1. EndKnown'
        BY <1>0, <1>1, <2>7 DEF EndKnown
      <3> QED
        BY <1>0, <1>1, <2>6, <2>7, <2>9, <3>1, GrownExact
    <2> QED
      BY <1>4, <2>8, <2>9
  <1> QED
    BY <1>2, <1>3, <1>4

\* A run or a copy is found here.
LEMMA FoundExact ==
    ASSUME EncoderInvariant, ExactInvariant, at \in {"run", "small"}, at' = "slot", loop'.then = "lazy",
           enc' = enc, src' = src, match' = match, iopt' = iopt, Right(loop'.new),
           RunAt(loop', enc.in, enc.pos), SmallBefore(hash'.small, enc.pos + 1),
           \A i \in DOMAIN hash'.prev : hash'.prev[i] \in Nat
    PROVE  ExactInvariant'
  <1>1. match.state \notin {"FORWARD", "BACKWARD"} /\ enc.state = "SEARCH"
    BY EncoderFields DEF MatchUnderWay, Extending, StateGood, AtByte
  <1>2. AllRight' /\ NewRight'
    <2>1. \A r : Right(r) => Right(r)'
      BY SameWindow
    <2>2. AllRight'
      <3>1. \A k \in 1..Len(iopt.used) : Right(iopt.used[k])
        BY ExactFields DEF AllRight
      <3> QED
        BY <2>1, <3>1 DEF AllRight, Right
    <2>3. NewRight'
      BY DEF NewRight, Right, WindowFrom, WindowTo
    <2> QED
      BY <2>2, <2>3
  <1>3. MatchRight' /\ EndKnown'
    BY <1>1, ExactFields DEF MatchRight, EndKnown
  <1>4. RunRight' /\ SmallRight' /\ AllEncoded'
    BY <1>1 DEF RunRight, SmallRight, AllEncoded, AtByte, Extending, WantsSlot, LazyNext
  <1> QED
    BY <1>2, <1>3, <1>4 DEF ExactInvariant

\* A run is what the input has.
LEMMA RunIsRight ==
    ASSUME NEW pos \in Nat, NEW c, NEW length \in Nat, length = Len(enc.in), NEW m \in Nat, pos + SLook + m <= length,
           \A i \in (pos + 1)..(pos + SLook) : enc.in[i] = c, \A k \in 0..(m - 1) : Input(pos + SLook + k) = c
    PROVE  Right([type |-> RUN, pos |-> pos, size |-> SLook + m, addr |-> 0, xtra |-> c])
  <1> DEFINE r == [type |-> RUN, pos |-> pos, size |-> SLook + m, addr |-> 0, xtra |-> c]
  <1>1. r.type = RUN /\ r.pos = pos /\ r.size = SLook + m /\ r.addr = 0 /\ r.xtra = c /\ End(r) = pos + (SLook + m)
    BY DEF End
  <1> HIDE DEF r
  <1>2. ASSUME NEW i \in (pos + 1)..(pos + (SLook + m))
        PROVE  enc.in[i] = c
    <2>1. CASE i <= pos + SLook
      <3>1. i \in (pos + 1)..(pos + SLook)
        BY <1>2, <2>1 DEF SLook
      <3> QED
        BY <3>1
    <2>2. CASE ~(i <= pos + SLook)
      <3>1. PICK k \in 0..(m - 1) : pos + SLook + k + 1 = i
        <4>1. i - pos - 5 \in 0..(m - 1) /\ pos + SLook + (i - pos - 5) + 1 = i
          BY <1>2, <2>2 DEF SLook
        <4> QED
          BY <4>1
      <3>2. Input(pos + SLook + k) = enc.in[i]
        BY <3>1, Zenon DEF Input
      <3> QED
        BY <3>1, <3>2
    <2> QED
      BY <2>1, <2>2
  <1>3. ~FromSource(r) /\ r.type # CPY
    BY <1>1 DEF FromSource, RUN, CPY
  <1>4. End(r) <= Len(enc.in)
    BY <1>1 DEF SLook
  <1>5. Right(r)
    BY <1>1, <1>2, <1>3, <1>4 DEF Right, RightIn
  <1> QED
    BY <1>5 DEF r

\* A run is looked for.
LEMMA TryRunExact == ASSUME EncoderInvariant, ExactInvariant, TryRun PROVE ExactInvariant'
  <1> DEFINE rem == Len(enc.in) - enc.pos
             same(k) == Input(enc.pos + SLook + k) = loop.runC
             m == Agreeing(rem - SLook, same)
             n == SLook + m
             new == [type |-> RUN, pos |-> enc.pos, size |-> n, addr |-> 0, xtra |-> loop.runC]
  <1>1. /\ at = "run" /\ enc' = enc /\ src' = src /\ match' = match /\ hash' = hash /\ iopt' = iopt /\ sect' = sect
        /\ LoopType(loop) /\ StringHere /\ enc.pos \in Nat /\ Len(enc.in) \in Nat
    BY EncoderFields DEF TryRun, PlaceGood, AtByte
  <1>0. RunAt(loop, enc.in, enc.pos) /\ SmallBefore(hash.small, enc.pos) /\ \A i \in DOMAIN hash.prev : hash.prev[i] \in Nat
    BY <1>1, ExactFields DEF RunRight, SmallRight, AtByte
  <1>2. PICK left \in Nat : left = rem - SLook
    BY <1>1 DEF StringHere, SLook
  <1>3. m \in 0..left /\ \A j \in 0..(m - 1) : same(j)
    <2> HIDE DEF rem
    <2> DEFINE G == {k \in 0..left : same(k)}
    <2> HIDE DEF G
    <2>1. \E k \in 0..left : (k = left \/ k \notin G) /\ \A j \in 0..(k - 1) : j \in G
      BY <1>2, FirstOf
    <2> USE DEF G
    <2>2. \E k \in 0..left : (k = left \/ ~same(k)) /\ \A j \in 0..(k - 1) : same(j)
      BY <2>1
    <2> QED
      BY <1>2, <2>2, Zenon DEF Agreeing
  <1>4. \/ /\ loop.runL = SLook
           /\ loop' = [[loop EXCEPT !.runL = n] EXCEPT !.new = new, !.len = n, !.then = "lazy"]
           /\ at' = "slot"
        \/ loop' = (IF loop.runL = SLook THEN [loop EXCEPT !.runL = n] ELSE loop) /\ at' = "large"
    <2>1. new.size = n
      OBVIOUS
    <2>2. CASE loop.runL = SLook /\ n >= enc.minMatch /\ n >= MinRun
      <3>1. Found(new, [loop EXCEPT !.runL = n])
        BY <2>2, Zenon DEF TryRun
      <3>2. loop' = [[loop EXCEPT !.runL = n] EXCEPT !.new = new, !.len = new.size, !.then = "lazy"] /\ at' = "slot"
        BY <3>1, Zenon DEF Found
      <3> QED
        BY <2>1, <2>2, <3>2, Zenon
    <2>3. CASE ~(loop.runL = SLook /\ n >= enc.minMatch /\ n >= MinRun)
      <3>1. loop' = (IF loop.runL = SLook THEN [loop EXCEPT !.runL = n] ELSE loop) /\ at' = "large"
        BY <2>3, Zenon DEF TryRun
      <3> QED
        BY <3>1, Zenon
    <2> QED
      BY <2>2, <2>3
  <1>5. n \in Nat /\ m \in Nat /\ enc.pos + SLook + m <= Len(enc.in)
    <2>1. left = (Len(enc.in) - enc.pos) - 4
      BY <1>2 DEF SLook
    <2> HIDE DEF m
    <2> QED
      BY <1>1, <1>3, <2>1 DEF SLook
  <1> HIDE DEF rem, m
  <1>9. loop.runL = SLook => \A i \in (enc.pos + 1)..(enc.pos + SLook) : enc.in[i] = loop.runC
    BY <1>0, <1>1 DEF RunAt, SLook
  <1>6. ASSUME NEW l, l.runL = n, l.runC = loop.runC, loop.runL = SLook
        PROVE  RunAt(l, enc.in, enc.pos)
    BY <1>5, <1>6, <1>9 DEF RunAt
  <1>7. CASE /\ loop.runL = SLook
             /\ loop' = [[loop EXCEPT !.runL = n] EXCEPT !.new = new, !.len = n, !.then = "lazy"]
             /\ at' = "slot"
    <2>1. Right(new)
      BY <1>1, <1>3, <1>5, <1>7, <1>9, RunIsRight
    <2> HIDE DEF new, n
    <2>2. loop'.new = new /\ loop'.then = "lazy" /\ loop'.runL = n /\ loop'.runC = loop.runC
      BY <1>1, <1>7 DEF LoopType
    <2>3. RunAt(loop', enc.in, enc.pos)
      BY <1>6, <1>7, <2>2
    <2>4. SmallBefore(hash.small, enc.pos + 1)
      BY <1>0, <1>1, SmallLater
    <2> QED
      BY <1>0, <1>1, <1>7, <2>1, <2>2, <2>3, <2>4, FoundExact
  <1>8. CASE loop' = (IF loop.runL = SLook THEN [loop EXCEPT !.runL = n] ELSE loop) /\ at' = "large"
    <2> HIDE DEF n
    <2>1. RunAt(loop', enc.in, enc.pos)
      <3>1. CASE loop.runL = SLook
        <4>1. loop'.runL = n /\ loop'.runC = loop.runC
          BY <1>1, <1>8, <3>1 DEF LoopType
        <4> QED
          BY <1>6, <3>1, <4>1
      <3>2. CASE loop.runL # SLook
        BY <1>0, <1>8, <3>2
      <3> QED
        BY <3>1, <3>2
    <2> QED
      BY <1>1, <1>8, <2>1, ByteExact
  <1> QED
    BY <1>4, <1>7, <1>8

\* A new match is put into the buffer.
LEMMA TakeSlotExact == ASSUME EncoderInvariant, ExactInvariant, TakeSlot PROVE ExactInvariant'
  <1>1. /\ at \in {"slot", "take"} /\ iopt' = [iopt EXCEPT !.used = Append(@, loop.new)] /\ at' = loop.then
        /\ enc' = enc /\ src' = src /\ match' = match /\ hash' = hash /\ sect' = sect /\ loop' = loop
        /\ NewGood /\ IoptType(iopt) /\ Buffer(iopt.used) /\ WantsSlot
    BY EncoderFields DEF TakeSlot, PlaceGood, WantsSlot
  <1>2. loop.then \in {"lazy", "forward"}
    BY <1>1 DEF NewGood
  <1>3. match.state \notin {"FORWARD", "BACKWARD"}
    BY <1>1, EncoderFields DEF MatchUnderWay, Extending
  <1>4. /\ \A r : Right(r) <=> Right(r)'
        /\ Right(loop.new) /\ \A k \in 1..Len(iopt.used) : Right(iopt.used[k])
    BY <1>1, ExactFields DEF Right, WindowFrom, WindowTo, NewRight, AllRight
  <1>5. AllRight'
    <2>1. iopt'.used = Append(iopt.used, loop.new)
      BY <1>1 DEF IoptType
    <2>2. PICK Of : iopt.used \in Seq(Of)
      BY <1>1, BufferIn
    <2>3. /\ Len(Append(iopt.used, loop.new)) = Len(iopt.used) + 1 /\ Len(iopt.used) \in Nat
          /\ \A k \in 1..(Len(iopt.used) + 1) : Append(iopt.used, loop.new)[k] = IF k = Len(iopt.used) + 1 THEN loop.new ELSE iopt.used[k]
      BY <2>2
    <2>4. \A k \in 1..Len(iopt'.used) : iopt'.used[k] = loop.new \/ (k \in 1..Len(iopt.used) /\ iopt'.used[k] = iopt.used[k])
      BY <2>1, <2>3
    <2>5. \A k \in 1..Len(iopt'.used) : Right(iopt'.used[k])
      BY <1>4, <2>4
    <2> QED
      BY <1>4, <2>5 DEF AllRight
  <1>6. NewRight' /\ MatchRight' /\ EndKnown' /\ AllEncoded'
    BY <1>1, <1>2, <1>3, ExactFields DEF NewRight, MatchRight, EndKnown, AllEncoded, WantsSlot
  <1>7. RunRight' /\ SmallRight'
    BY <1>1, <1>2, ExactFields DEF RunRight, SmallRight, AtByte, Extending, WantsSlot, LazyNext
  <1> QED
    BY <1>5, <1>6, <1>7 DEF ExactInvariant

\* What is left of the buffer was there before.
LEMMA UncoveredWere ==
    ASSUME NEW q, Buffer(q), NEW pos
    PROVE  \A k \in 1..Len(Uncovered(q, pos)) : k \in 1..Len(q) /\ Uncovered(q, pos)[k] = q[k]
  <1>0. PICK Of : q \in Seq(Of)
    BY BufferIn
  <1> DEFINE S == {k \in 1..Len(q) : q[k].pos < pos}
             n == IF S # {} THEN Max(S) ELSE 0
             u == SubSeq(q, 1, n)
  <1>1. Uncovered(q, pos) = u
    BY DEF Uncovered, SelectLastInSeq
  <1>2. n \in 0..Len(q)
    <2>1. S \in SUBSET (1..Len(q)) /\ Len(q) \in Nat
      BY <1>0
    <2>2. CASE S = {}
      BY <2>1, <2>2
    <2>3. CASE S # {}
      <3>1. Max(S) \in S
        <4> HIDE DEF S
        <4> QED
          BY <2>1, <2>3, LargestNumber
      <3> QED
        BY <2>1, <2>3, <3>1
    <2> QED
      BY <2>2, <2>3
  <1> HIDE DEF n
  <1>3. Len(u) = n /\ \A k \in 1..n : u[k] = q[k]
    BY <1>0, <1>2
  <1> HIDE DEF u
  <1> QED
    BY <1>0, <1>1, <1>2, <1>3

\* What a match has agreed in is a copy of the source within the input, the file and the window.
LEMMA MatchIsRight ==
    ASSUME NEW r, NEW in, NEW s, s.have, NEW lo \in Int, NEW hi \in Int,
           NEW sp \in Nat, NEW bk \in Nat, NEW fw \in Nat, NEW pos \in Nat, bk <= sp, bk <= pos,
           NEW length \in Nat, length = Len(in), pos + fw <= length,
           NEW size \in Nat, size = Len(s.file), sp + fw <= size,
           lo <= sp - bk, sp + fw <= hi, Agrees(s.file, in, sp, pos, 1 - bk, fw),
           r.type = CPY, r.pos = pos - bk, r.size = bk + fw, r.addr = sp - bk, r.xtra = 1
    PROVE  RightIn(r, in, s, lo, hi)
  <1>1. End(r) = pos + fw
    <2>1. (pos - bk) + (bk + fw) = pos + fw
      OBVIOUS
    <2> QED
      BY <2>1, Zenon DEF End
  <1>2. sp - bk \in Nat /\ (sp - bk) + (bk + fw) = sp + fw
    OBVIOUS
  <1>3. ASSUME NEW i \in ((pos - bk) + 1)..(pos + fw)
        PROVE  in[i] = s.file[i - (pos - bk) + (sp - bk)]
    <2>1. i - pos \in (1 - bk)..fw /\ pos + (i - pos) = i /\ sp + (i - pos) = i - (pos - bk) + (sp - bk)
      OBVIOUS
    <2> QED
      BY <2>1 DEF Agrees
  <1>4. r.addr \in Nat /\ End(r) <= Len(in)
    BY <1>1, <1>2
  <1>5. \A i \in (r.pos + 1)..End(r) : in[i] = s.file[i - r.pos + r.addr]
    BY <1>1, <1>3
  <1>6. r.addr + r.size <= Len(s.file) /\ lo <= r.addr /\ r.addr + r.size <= hi
    BY <1>2
  <1>7. r.type # RUN /\ FromSource(r)
    BY DEF RUN, CPY, FromSource
  <1> QED
    BY <1>4, <1>5, <1>6, <1>7 DEF RightIn, RUN, CPY

\* A match of the source ends, and is taken or not.
LEMMA MatchExtendedExact == ASSUME EncoderInvariant, ExactInvariant, MatchExtended PROVE ExactInvariant'
  <1>1. /\ at = "extended" /\ enc' = enc /\ src' = src /\ hash' = hash /\ sect' = sect
        /\ SourceGood /\ MatchType(match) /\ LoopType(loop) /\ IoptType(iopt) /\ src.have
        /\ match.state \in {"FORWARD", "BACKWARD"} /\ match.srcpos + match.fwd <= Len(src.file)
        /\ src.base \in Nat /\ src.len \in Int /\ Len(src.file) \in Nat /\ Len(enc.in) \in Nat
    BY EncoderFields DEF MatchExtended, SourceGood, SrcType, PlaceGood, Extending
  <1>2. PICK sp, fw, bk, pos \in Nat : sp = match.srcpos /\ fw = match.fwd /\ bk = match.back /\ pos = enc.pos /\ bk <= sp /\ bk <= pos
    BY <1>1, EncoderFields DEF MatchType, MatchUnderWay
  <1>3. /\ SmallBefore(hash.small, enc.pos) /\ (loop.then = "loop" => RunAt(loop, enc.in, enc.pos))
        /\ \A i \in DOMAIN hash.prev : hash.prev[i] \in Nat
    BY <1>1, ExactFields DEF SmallRight, RunRight, Extending
  <1>4. CASE match.fwd < enc.minMatch
    <2>1. /\ match' = [match EXCEPT !.fwd = 0, !.state = "SEARCHING"]
          /\ at' = AfterSource(0) /\ iopt' = iopt /\ loop' = loop
      BY <1>4 DEF MatchExtended
    <2>2. /\ match'.decided = match.decided /\ match'.min = match.min /\ match'.max = match.max
          /\ match'.state \notin {"FORWARD", "BACKWARD"}
      BY <1>1, <2>1 DEF MatchType, MatchFields
    <2>3. (at' = "small" /\ loop.then = "loop") \/ at' = "forward"
      BY <2>1 DEF AfterSource
    <2>4. RunRight' /\ SmallRight' /\ AllEncoded'
      BY <1>1, <1>3, <2>1, <2>3 DEF RunRight, SmallRight, AllEncoded, AtByte, Extending, WantsSlot, LazyNext
    <2> QED
      BY <1>1, <2>1, <2>2, <2>3, <2>4, CalmExact DEF WantsSlot
  <1>5. CASE ~(match.fwd < enc.minMatch)
    <2> DEFINE start == enc.pos - match.back
               len == match.back + match.fwd
               from == match.srcpos - match.back
               end == match.srcpos + match.fwd
               min == IF match.max = 0 \/ from < match.min THEN from ELSE match.min
               ended == start + len = Len(enc.in)
               new == [type |-> CPY, pos |-> start, size |-> len, addr |-> from, xtra |-> 1]
               mx == LargerOf(match.max, end)
               ms == LargerOf(match.maxsrc, end)
               st == IF ended THEN "TARGET" ELSE "SEARCHING"
               sp2 == IF ended THEN end ELSE match.srcpos
    <2>1. /\ match' = [match EXCEPT !.back = 0, !.min = min, !.max = mx, !.maxsrc = ms, !.state = st, !.srcpos = sp2]
          /\ iopt' = IF match.back > 0 THEN [iopt EXCEPT !.used = Uncovered(iopt.used, start)] ELSE iopt
          /\ loop' = [loop EXCEPT !.new = new, !.len = match.fwd, !.then = AfterSource(match.fwd)]
          /\ at' = "slot"
      BY <1>5, Zenon DEF MatchExtended
    <2>2. start = pos - bk /\ len = bk + fw /\ from = sp - bk /\ end = sp + fw /\ from \in Nat /\ end \in Nat /\ fw >= 4
      <3>1. enc.minMatch \in Nat /\ enc.minMatch >= 4
        BY EncoderFields
      <3> QED
        BY <1>2, <1>5, <3>1
    <2> HIDE DEF start, len, from, end
    <2>3. /\ min \in Nat /\ mx \in Nat /\ st \in {"TARGET", "SEARCHING"}
          /\ min <= from /\ end <= mx /\ mx <= Len(src.file)
          /\ match.max <= 0 \/ (min <= match.min /\ match.max <= mx)
      <3>1. match.min \in Nat /\ match.max \in Nat /\ match.max <= Len(src.file)
        BY <1>1, ExactFields DEF MatchType, EndKnown
      <3>2. PICK mn, ma, size \in Nat : mn = match.min /\ ma = match.max /\ size = Len(src.file) /\ ma <= size /\ sp + fw <= size
        BY <1>1, <1>2, <3>1
      <3>3. min = IF ma = 0 \/ from < mn THEN from ELSE mn
        BY <3>2
      <3>4. mx = IF ma > end THEN ma ELSE end
        BY <3>2 DEF LargerOf
      <3> HIDE DEF min, mx
      <3>5. min \in Nat /\ min <= from /\ (ma = 0 \/ min <= mn)
        BY <2>2, <3>2, <3>3
      <3>6. mx \in Nat /\ end <= mx /\ mx <= size /\ ma <= mx
        BY <2>2, <3>2, <3>4
      <3> QED
        BY <3>2, <3>5, <3>6
    <2> HIDE DEF min, mx, ms, st, sp2
    <2>4. match'.decided = match.decided /\ match'.min = min /\ match'.max = mx /\ match'.state = st
      BY <1>1, <2>1 DEF MatchType, MatchFields
    <2>5. new.type = CPY /\ new.pos = start /\ new.size = len /\ new.addr = from /\ new.xtra = 1
      OBVIOUS
    <2> HIDE DEF new
    <2>6. loop'.new = new /\ loop'.then = AfterSource(match.fwd) /\ loop'.runL = loop.runL /\ loop'.runC = loop.runC
      BY <1>1, <2>1 DEF LoopType
    <2>7. (loop.then = "loop" /\ loop'.then = "lazy") \/ loop'.then = "forward"
      BY <1>2, <2>2, <2>6 DEF AfterSource
    <2>8. /\ WindowFrom \in Int /\ WindowTo \in Int /\ WindowFrom' \in Int /\ WindowTo' \in Int
          /\ WindowTo <= 0 \/ (WindowFrom' <= WindowFrom /\ WindowTo <= WindowTo')
          /\ ~match.decided => WindowFrom' = min /\ WindowTo' = mx
          /\ match.decided => WindowFrom' = src.base /\ WindowTo' = src.base + src.len
      <3>1. match.min \in Nat /\ match.max \in Nat
        BY <1>1 DEF MatchType
      <3>2. CASE match.decided
        BY <1>1, <2>4, <3>2 DEF WindowFrom, WindowTo
      <3>3. CASE ~match.decided
        BY <1>1, <2>3, <2>4, <3>1, <3>3 DEF WindowFrom, WindowTo
      <3> QED
        BY <3>2, <3>3
    <2>9. AllRight'
      <3>1. \A k \in 1..Len(iopt.used) : Right(iopt.used[k]) /\ IsInst(iopt.used[k])
        BY ExactFields, EncoderFields, ElementNumbers DEF AllRight
      <3>2. ASSUME NEW r, IsInst(r), Right(r)
            PROVE  Right(r)'
        <4>1. RightIn(r, enc.in, src, WindowFrom, WindowTo)
          BY <3>2 DEF Right
        <4>2. RightIn(r, enc.in, src, WindowFrom', WindowTo')
          <5> HIDE DEF WindowFrom, WindowTo
          <5> QED
            BY <1>1, <2>8, <3>2, <4>1, WiderRight
        <4> QED
          BY <1>1, <4>2 DEF Right
      <3>3. \A k \in 1..Len(iopt'.used) : k \in 1..Len(iopt.used) /\ iopt'.used[k] = iopt.used[k]
        <4>1. CASE match.back > 0
          <5>1. iopt'.used = Uncovered(iopt.used, start)
            BY <1>1, <2>1, <4>1 DEF IoptType
          <5> QED
            BY <5>1, UncoveredWere, EncoderFields
        <4>2. CASE ~(match.back > 0)
          BY <2>1, <4>2
        <4> QED
          BY <4>1, <4>2
      <3> QED
        BY <3>1, <3>2, <3>3 DEF AllRight
    <2>10. NewRight'
      <3>1. /\ match.maxfwd <= 0 \/ match.maxfwd <= Len(enc.in) - enc.pos
            /\ match.fwd = 0 \/ match.fwd <= match.maxfwd
            /\ match.back = 0 \/ match.back <= match.maxback
            /\ match.decided /\ match.maxfwd > 0 =>
                  /\ src.base <= match.srcpos /\ src.base + match.maxback <= match.srcpos
                  /\ match.srcpos + match.maxfwd <= src.base + src.len
            /\ Agrees(src.file, enc.in, sp, pos, 1 - bk, fw)
        BY <1>1, <1>2, ExactFields DEF MatchRight, Agrees
      <3>2. PICK mf, mb \in Int : mf = match.maxfwd /\ mb = match.maxback
        BY <1>1 DEF MatchType
      <3>3. mf > 0 /\ fw <= mf /\ mf <= Len(enc.in) - pos /\ (bk = 0 \/ bk <= mb)
        BY <1>1, <1>2, <2>2, <3>1, <3>2
      <3>4. pos + fw <= Len(enc.in)
        BY <1>1, <3>2, <3>3
      <3>5. WindowFrom' <= sp - bk /\ sp + fw <= WindowTo'
        <4>1. CASE match.decided
          <5>1. src.base <= sp /\ src.base + mb <= sp /\ sp + mf <= src.base + src.len
            BY <1>2, <3>1, <3>2, <3>3, <4>1
          <5> QED
            BY <1>1, <2>8, <3>2, <3>3, <4>1, <5>1
        <4>2. CASE ~match.decided
          BY <2>2, <2>3, <2>8, <4>2
        <4> QED
          BY <4>1, <4>2
      <3>6. RightIn(new, enc.in, src, WindowFrom', WindowTo')
        <4>1. sp + fw <= Len(src.file)
          BY <1>1, <1>2
        <4>2. PICK length, size \in Nat : length = Len(enc.in) /\ size = Len(src.file)
          BY <1>1
        <4>3. PICK lo, hi \in Int : lo = WindowFrom' /\ hi = WindowTo' /\ lo <= sp - bk /\ sp + fw <= hi
          BY <2>8, <3>5
        <4>4. new.type = CPY /\ new.pos = pos - bk /\ new.size = bk + fw /\ new.addr = sp - bk /\ new.xtra = 1
          BY <2>2, <2>5
        <4>5. pos + fw <= length /\ sp + fw <= size /\ bk <= sp /\ bk <= pos /\ src.have /\ Agrees(src.file, enc.in, sp, pos, 1 - bk, fw)
          BY <1>1, <1>2, <3>1, <3>4, <4>1, <4>2
        <4>6. RightIn(new, enc.in, src, lo, hi)
          BY <4>2, <4>3, <4>4, <4>5, MatchIsRight
        <4> QED
          BY <4>3, <4>6
      <3> QED
        BY <1>1, <2>6, <3>6 DEF NewRight, Right
    <2>11. MatchRight' /\ EndKnown' /\ AllEncoded'
      BY <1>1, <2>1, <2>3, <2>4, ExactFields DEF MatchRight, EndKnown, AllEncoded
    <2>12. RunRight' /\ SmallRight'
      <3>1. SmallBefore(hash.small, enc.pos + 1)
        BY <1>2, <1>3, SmallLater
      <3>2. loop'.then = "lazy" => RunAt(loop', enc.in, enc.pos)
        BY <1>3, <2>6, <2>7, SameRun
      <3> QED
        BY <1>1, <1>3, <2>1, <3>1, <3>2 DEF RunRight, SmallRight, AtByte, Extending, WantsSlot, LazyNext
    <2> QED
      BY <2>9, <2>10, <2>11, <2>12 DEF ExactInvariant
  <1> QED
    BY <1>4, <1>5

\* Of two matches that overlap and are both kept, what is kept is a part of each.
LEMMA SplitParts ==
    ASSUME NEW r1, IsInst(r1), NEW r2, IsInst(r2), r1.pos < r2.pos, End(r1) < End(r2), r2.pos < End(r1),
           ~NotWorthBoth(r1, r2), r1.addr \in Nat, r2.addr \in Nat
    PROVE  /\ PartOf(Shortened(r1, r2), r1, 0)
           /\ \E c \in Nat : PartOf(Trimmed(r1, r2), r2, c)
  <1>1. PICK n \in Nat : /\ n = FirstSize(r1, r2) /\ n >= MinMatch /\ n <= r1.size
                         /\ r1.pos + n >= r2.pos /\ r1.pos + n + MinMatch <= End(r2)
    BY FirstSizeBounds
  <1>2. MinMatch = 4 /\ r1.pos \in Nat /\ r2.pos \in Nat /\ r1.size \in Nat /\ r2.size \in Nat
        /\ End(r1) = r1.pos + r1.size /\ End(r2) = r2.pos + r2.size
    BY InstNumbers DEF MinMatch, IsInst
  <1>3. PICK c \in Nat : c = r1.pos + n - r2.pos
    BY <1>1, <1>2
  <1> DEFINE s == [r1 EXCEPT !.size = n]
             t == [r2 EXCEPT !.size = @ - c, !.pos = @ + c, !.addr = @ + c]
  <1>4. Shortened(r1, r2) = s /\ Trimmed(r1, r2) = t
    BY <1>1, <1>3, Zenon DEF Shortened, Trimmed
  <1>5. s.type = r1.type /\ s.xtra = r1.xtra /\ s.pos = r1.pos /\ s.addr = r1.addr /\ s.size = n
    BY DEF IsInst, InstFields
  <1>6. t.type = r2.type /\ t.xtra = r2.xtra /\ t.pos = r2.pos + c /\ t.addr = r2.addr + c /\ t.size = r2.size - c
    BY DEF IsInst, InstFields
  <1> HIDE DEF s, t
  <1>7. r1.pos + 0 = r1.pos /\ r1.addr + 0 = r1.addr /\ 0 + n <= r1.size
    BY <1>1, <1>2
  <1>8. c + (r2.size - c) <= r2.size
    BY <1>2
  <1> QED
    BY <1>4, <1>5, <1>6, <1>7, <1>8 DEF PartOf

\* A round of the compaction leaves what is right right.
LEMMA CompactRight ==
    ASSUME NEW in, NEW s, NEW lo \in Int, NEW hi \in Int, Len(in) \in Nat, s.have => Len(s.file) \in Nat,
           NEW q, Buffer(q), InOrder(q), NEW i \in Nat \ {0}, i < Len(q), \A k \in 1..Len(q) : RightIn(q[k], in, s, lo, hi)
    PROVE  \A k \in 1..Len(Compact(q, i).q) : RightIn(Compact(q, i).q[k], in, s, lo, hi)
  <1> DEFINE r1 == q[i]
             r2 == q[i + 1]
  <1>1. i \in 1..Len(q) /\ i + 1 \in 1..Len(q) /\ Len(q) \in Nat /\ i \in 1..(Len(q) - 1)
    BY ElementNumbers
  <1>2. IsInst(r1) /\ IsInst(r2) /\ r1.pos < r2.pos /\ End(r1) < End(r2)
    BY <1>1, ElementNumbers DEF InOrder
  <1>3. ASSUME NEW j \in 1..Len(q)
        PROVE  \A k \in 1..Len(RemoveAt(q, j)) : RightIn(RemoveAt(q, j)[k], in, s, lo, hi)
    <2>1. /\ Len(RemoveAt(q, j)) = Len(q) - 1
          /\ \A k \in 1..(Len(q) - 1) : RemoveAt(q, j)[k] = IF k < j THEN q[k] ELSE q[k + 1]
      BY RemoveOrdered
    <2>2. \A k \in 1..(Len(q) - 1) : k \in 1..Len(q) /\ k + 1 \in 1..Len(q)
      BY <1>1
    <2> QED
      BY <2>1, <2>2
  <1>4. CASE Compact(q, i).q = q
    BY <1>4
  <1>5. CASE \E j \in 1..Len(q) : Compact(q, i).q = RemoveAt(q, j)
    BY <1>3, <1>5
  <1> DEFINE split == [q EXCEPT ![i] = Shortened(r1, r2), ![i + 1] = Trimmed(r1, r2)]
  <1>6. CASE Compact(q, i).q = split /\ Overlapping(q, i) /\ ~NotWorthBoth(r1, r2)
    <2>1. RightIn(r1, in, s, lo, hi) /\ RightIn(r2, in, s, lo, hi)
      BY <1>1
    <2>2. r1.addr \in Nat /\ r2.addr \in Nat
      BY <2>1 DEF RightIn
    <2>3. r2.pos < End(r1)
      BY <1>2, <1>6, InstNumbers DEF Overlapping
    <2>4. IsInst(Shortened(r1, r2)) /\ IsInst(Trimmed(r1, r2))
      BY <1>2, <1>6, <2>3, SplitInsts
    <2>5. PartOf(Shortened(r1, r2), r1, 0) /\ \E c \in Nat : PartOf(Trimmed(r1, r2), r2, c)
      BY <1>2, <1>6, <2>2, <2>3, SplitParts
    <2>6. RightIn(Shortened(r1, r2), in, s, lo, hi) /\ RightIn(Trimmed(r1, r2), in, s, lo, hi)
      <3> HIDE DEF r1, r2
      <3>1. PICK length \in Nat : length = Len(in)
        OBVIOUS
      <3> QED
        BY <1>2, <2>1, <2>4, <2>5, <3>1, PartRight
    <2>7. PICK Of : q \in Seq(Of)
      BY BufferIn
    <2>8. Len(split) = Len(q) /\ \A k \in 1..Len(q) : split[k] \in {Shortened(r1, r2), Trimmed(r1, r2), q[k]}
      BY <2>7
    <2> HIDE DEF split, r1, r2
    <2> QED
      BY <1>6, <2>6, <2>8
  <1>7. \/ Compact(q, i).q = q
        \/ \E j \in 1..Len(q) : Compact(q, i).q = RemoveAt(q, j)
        \/ Compact(q, i).q = split /\ Overlapping(q, i) /\ ~NotWorthBoth(r1, r2)
    <2>1. CASE ~Overlapping(q, i)
      <3>1. Compact(q, i) = [q |-> q, i |-> i + 1]
        BY <2>1, Zenon DEF Compact
      <3> QED
        BY <3>1
    <2>2. CASE Overlapping(q, i) /\ i + 2 <= Len(q) /\ q[i + 2].pos <= End(r1) + 1
      <3>1. Compact(q, i) = [q |-> RemoveAt(q, i + 1), i |-> i]
        BY <2>2, Zenon DEF Compact
      <3> QED
        BY <1>1, <3>1
    <2>3. CASE Overlapping(q, i) /\ ~(i + 2 <= Len(q) /\ q[i + 2].pos <= End(r1) + 1)
      <3>1. CASE NotWorthBoth(r1, r2)
        <4>1. Compact(q, i) = IF r1.size < r2.size
                     THEN [q |-> RemoveAt(q, i), i |-> i]
                     ELSE [q |-> RemoveAt(q, i + 1), i |-> i + 1]
          BY <2>3, <3>1, Zenon DEF Compact
        <4>2. Compact(q, i).q = RemoveAt(q, i) \/ Compact(q, i).q = RemoveAt(q, i + 1)
          BY <4>1
        <4> QED
          BY <1>1, <4>2
      <3>2. CASE ~NotWorthBoth(r1, r2)
        <4>1. Compact(q, i) = [q |-> split, i |-> i + 1]
          BY <2>3, <3>2, Zenon DEF Compact
        <4> HIDE DEF split
        <4> QED
          BY <2>3, <3>2, <4>1
      <3> QED
        BY <3>1, <3>2
    <2> QED
      BY <2>1, <2>2, <2>3
  <1> QED
    BY <1>4, <1>5, <1>6, <1>7

\* The window of the source is one.
LEMMA WindowNumbers ==
    ASSUME EncoderInvariant
    PROVE  src.have => WindowFrom \in Int /\ WindowTo \in Int
  <1> SUFFICES ASSUME src.have PROVE WindowFrom \in Int /\ WindowTo \in Int
    OBVIOUS
  <1>1. src.base \in Nat /\ src.len \in Int /\ match.min \in Nat /\ match.max \in Nat
    BY EncoderFields DEF SourceGood, MatchType
  <1>2. CASE match.decided
    BY <1>1, <1>2 DEF WindowFrom, WindowTo
  <1>3. CASE ~match.decided
    BY <1>1, <1>3 DEF WindowFrom, WindowTo
  <1> QED
    BY <1>2, <1>3

\* A round of the compaction.
LEMMA CompactStepExact == ASSUME EncoderInvariant, ExactInvariant, CompactStep PROVE ExactInvariant'
  <1> DEFINE c == Compact(iopt.used, iopt.i)
  <1>1. /\ at = "compact" /\ iopt' = [iopt EXCEPT !.used = c.q, !.i = c.i] /\ at' = at
        /\ enc' = enc /\ src' = src /\ match' = match /\ hash' = hash /\ sect' = sect /\ loop' = loop
        /\ IoptType(iopt) /\ Buffer(iopt.used) /\ InOrder(iopt.used) /\ ~CompactionOver
        /\ Len(enc.in) \in Nat /\ (src.have => Len(src.file) \in Nat)
    BY EncoderFields DEF CompactStep, SourceGood, SrcType
  <1>2. PICK i \in Nat \ {0} : i = iopt.i
    BY <1>1 DEF IoptType
  <1>3. Len(iopt.used) \in Nat
    BY <1>1, ElementNumbers
  <1>4. i < Len(iopt.used)
    BY <1>1, <1>2, <1>3 DEF CompactionOver
  <1>5. \A k \in 1..Len(c.q) : Right(c.q[k])
    <2>1. PICK lo \in Int, hi \in Int : \A r : Right(r) <=> RightIn(r, enc.in, src, lo, hi)
      <3>1. CASE src.have
        <4>1. WindowFrom \in Int /\ WindowTo \in Int
          BY <3>1, WindowNumbers
        <4> QED
          BY <4>1 DEF Right
      <3>2. CASE ~src.have
        <4>1. \A r : Right(r) <=> RightIn(r, enc.in, src, 0, 0)
          BY <3>2 DEF Right, RightIn
        <4> QED
          BY <4>1
      <3> QED
        BY <3>1, <3>2
    <2>2. \A k \in 1..Len(iopt.used) : RightIn(iopt.used[k], enc.in, src, lo, hi)
      BY <2>1, ExactFields DEF AllRight
    <2>3. \A k \in 1..Len(c.q) : RightIn(c.q[k], enc.in, src, lo, hi)
      BY <1>1, <1>2, <1>4, <2>2, CompactRight
    <2> QED
      BY <2>1, <2>3
  <1> HIDE DEF c
  <1>6. iopt'.used = c.q /\ iopt'.force = iopt.force /\ iopt'.slots = iopt.slots
    BY <1>1 DEF IoptType
  <1>7. AllRight'
    BY <1>1, <1>5, <1>6 DEF AllRight, Right, WindowFrom, WindowTo
  <1>8. NewRight' /\ MatchRight' /\ EndKnown' /\ AllEncoded'
    BY <1>1, <1>6, ExactFields DEF NewRight, Right, WindowFrom, WindowTo, WantsSlot, MatchRight, EndKnown, AllEncoded
  <1>9. RunRight' /\ SmallRight'
    BY <1>1, <1>6, ExactFields DEF RunRight, SmallRight, AtByte, Extending, WantsSlot, LazyNext
  <1> QED
    BY <1>7, <1>8, <1>9 DEF ExactInvariant

\* The guess at the window, when matches may still come, has room for those there are.
LEMMA GuessedWide ==
    ASSUME EncoderInvariant, EndKnown, src.have
    PROVE  GuessedLen \in Int /\ match.max - match.min <= GuessedLen
  <1>1. /\ src.max \in Nat /\ src.onlast \in Nat /\ match.min \in Nat /\ match.max \in Nat
        /\ Len(enc.in) \in Nat /\ BlkSize \in Nat /\ Len(src.file) \in Nat
    BY EncoderFields, SourceAssumption DEF SourceGood, SrcType, MatchType
  <1>2. SourceEof(src) \in Int
    BY <1>1 DEF SourceEof
  <1>3. Len(enc.in) \div 4 \in Int
    <2>1. \A n \in Nat : n \div 4 \in Int
      OBVIOUS
    <2> QED
      BY <1>1, <2>1
  <1>4. PICK quarter \in Int : quarter = Len(enc.in) \div 4
    BY <1>3
  <1>41. PICK eof \in Int : eof = SourceEof(src)
    BY <1>2
  <1>42. PICK in \in Int : in = Len(enc.in)
    BY <1>1
  <1>5. PICK mn, mx, size \in Int : mn = match.min /\ mx = match.max /\ size = Len(src.file)
    BY <1>1
  <1>6. PICK n \in Int : n = LargerOf(mx - mn, in + quarter) /\ mx - mn <= n
    BY DEF LargerOf
  <1>7. GuessedLen = IF src.eof THEN SmallerOf(n, eof - mn) ELSE n
    BY <1>4, <1>41, <1>42, <1>5, <1>6, Zenon DEF GuessedLen
  <1>8. mx <= size /\ (src.eof => size <= eof)
    BY <1>41, <1>5 DEF EndKnown, EndFound
  <1>9. CASE src.eof
    <2>1. GuessedLen = SmallerOf(n, eof - mn) /\ mx - mn <= eof - mn
      BY <1>7, <1>8, <1>9
    <2>2. SmallerOf(n, eof - mn) \in Int /\ mx - mn <= SmallerOf(n, eof - mn)
      BY <1>6, <2>1 DEF SmallerOf
    <2> QED
      BY <1>5, <2>1, <2>2
  <1>10. CASE ~src.eof
    BY <1>5, <1>6, <1>7, <1>10
  <1> QED
    BY <1>9, <1>10

\* The window that is decided on has what the matches use.
LEMMA DecidedWide ==
    ASSUME EncoderInvariant, EndKnown, src.have
    PROVE  /\ SrcwinDecided.have /\ SrcwinDecided.file = src.file /\ SrcwinDecided.eof = src.eof
           /\ SrcwinDecided.max = src.max /\ SrcwinDecided.onlast = src.onlast
           /\ SrcwinDecided.base \in Int /\ SrcwinDecided.len \in Int
           /\ WindowTo <= 0 \/ (SrcwinDecided.base <= WindowFrom /\ WindowTo <= SrcwinDecided.base + SrcwinDecided.len)
  <1> DEFINE w == SrcwinDecided
  <1>1. /\ src.base \in Nat /\ src.len \in Int /\ match.min \in Nat /\ match.max \in Nat /\ SrcType(src)
    BY EncoderFields DEF SourceGood, MatchType
  <1>2. CASE match.decided
    <2>1. w = src
      BY <1>2, Zenon DEF SrcwinDecided
    <2> HIDE DEF w
    <2>2. WindowFrom = src.base /\ WindowTo = src.base + src.len
      BY <1>2 DEF WindowFrom, WindowTo
    <2>3. src.base <= src.base /\ src.base + src.len <= src.base + src.len
      BY <1>1
    <2> QED
      BY <1>1, <2>1, <2>2, <2>3 DEF w
  <1>3. CASE ~match.decided
    <2> DEFINE base == IF enc.state = "INSTR" /\ match.max = 0 THEN src.base ELSE match.min
               n == SrcwinLen
    <2>1. w = [src EXCEPT !.len = n, !.base = base]
      BY <1>3, Zenon DEF SrcwinDecided
    <2>2. n \in Int /\ (match.max > 0 => match.max - match.min <= n)
      <3>1. GuessedLen \in Int /\ match.max - match.min <= GuessedLen
        BY GuessedWide
      <3>2. CASE enc.state = "INSTR" /\ match.max = 0
        <4>1. ~(match.max > 0)
          BY <1>1, <3>2
        <4>2. n = 0
          BY <3>2, <4>1, Zenon DEF SrcwinLen
        <4> QED
          BY <4>1, <4>2
      <3>3. CASE enc.state = "INSTR" /\ match.max > 0
        <4>1. match.max # 0
          BY <1>1, <3>3
        <4>2. n = match.max - match.min
          BY <3>3, <4>1, Zenon DEF SrcwinLen
        <4> HIDE DEF n
        <4> QED
          BY <1>1, <4>2
      <3>4. CASE ~(enc.state = "INSTR" /\ match.max = 0) /\ ~(enc.state = "INSTR" /\ match.max > 0)
        <4>1. n = GuessedLen
          BY <3>4, Zenon DEF SrcwinLen
        <4> HIDE DEF n
        <4> QED
          BY <3>1, <4>1
      <3> QED
        BY <3>2, <3>3, <3>4
    <2>3. base \in Nat /\ (match.max > 0 => base = match.min)
      BY <1>1
    <2> HIDE DEF n, base, w
    <2>4. /\ w.have = src.have /\ w.file = src.file /\ w.eof = src.eof /\ w.max = src.max /\ w.onlast = src.onlast
          /\ w.base = base /\ w.len = n
      BY <1>1, <2>1 DEF SrcType, SrcFields
    <2>5. WindowFrom = match.min /\ WindowTo = match.max
      BY <1>3 DEF WindowFrom, WindowTo
    <2>6. match.max <= 0 \/ (base <= match.min /\ match.max <= base + n)
      BY <1>1, <2>2, <2>3
    <2> QED
      BY <2>2, <2>3, <2>4, <2>5, <2>6 DEF w
  <1> QED
    BY <1>2, <1>3

\* The front of the buffer is encoded.
LEMMA EncodeFrontExact == ASSUME EncoderInvariant, ExactInvariant, EncodeFront PROVE ExactInvariant'
  <1> DEFINE inst == Head(iopt.used)
             window == IF inst.type = RUN THEN src ELSE SrcwinDecided
  <1>1. /\ at = "pick" /\ iopt.used # <<>>
        /\ src' = window
        /\ match' = [match EXCEPT !.decided = @ \/ (src.have /\ inst.type # RUN)]
        /\ sect' = FinishEncoding(AddUpTo(sect, inst.pos, window), inst, window)
        /\ iopt' = [iopt EXCEPT !.used = Tail(@), !.flushed = @ + 1]
        /\ enc' = enc /\ at' = at /\ hash' = hash /\ loop' = loop
    BY DEF EncodeFront
  <1>2. /\ MatchType(match) /\ IoptType(iopt) /\ SectType(sect) /\ SourceGood /\ InOrder(iopt.used) /\ Buffer(iopt.used)
        /\ match.state \notin {"FORWARD", "BACKWARD"}
    BY <1>1, EncoderFields DEF MatchUnderWay, Extending
  <1>3. /\ match'.state = match.state /\ match'.min = match.min /\ match'.max = match.max
        /\ match'.decided <=> (match.decided \/ (src.have /\ inst.type # RUN))
    BY <1>1, <1>2 DEF MatchType, MatchFields
  <1>4. /\ Len(iopt.used) \in 1..Len(iopt.used) /\ inst = iopt.used[1] /\ IsInst(inst)
        /\ inst.pos \in Nat /\ inst.size \in Nat /\ End(inst) = inst.pos + inst.size /\ Len(iopt.used) \in Nat
    <2>1. Len(iopt.used) \in 1..Len(iopt.used) /\ inst = iopt.used[1]
      BY <1>1, <1>2, LastMatchedType
    <2>2. 1 \in 1..Len(iopt.used)
      BY <2>1
    <2> QED
      BY <1>2, <2>1, <2>2, ElementNumbers
  <1>5. iopt'.used = Tail(iopt.used) /\ iopt'.slots = iopt.slots /\ iopt'.force = iopt.force
    BY <1>1, <1>2 DEF IoptType
  <1>6. \A k \in 1..Len(iopt'.used) : k + 1 \in 1..Len(iopt.used) /\ iopt'.used[k] = iopt.used[k + 1]
    <2>1. PICK Of : iopt.used \in Seq(Of)
      BY <1>2, BufferIn
    <2>2. Len(Tail(iopt.used)) = Len(iopt.used) - 1 /\ \A k \in 1..(Len(iopt.used) - 1) : Tail(iopt.used)[k] = iopt.used[k + 1]
      BY <1>1, <2>1
    <2> QED
      BY <1>4, <1>5, <2>2
  <1>7. EndKnown /\ AllRight /\ NewRight
    BY ExactFields
  <1>8. /\ src'.have = src.have
        /\ src.have => /\ src'.file = src.file /\ src'.eof = src.eof /\ src'.max = src.max /\ src'.onlast = src.onlast
                       /\ WindowFrom \in Int /\ WindowTo \in Int /\ WindowFrom' \in Int /\ WindowTo' \in Int
                       /\ WindowTo <= 0 \/ (WindowFrom' <= WindowFrom /\ WindowTo <= WindowTo')
    <2>1. CASE ~src.have
      <3>1. src' = src
        BY <1>1, <2>1, Zenon DEF SrcwinDecided
      <3> QED
        BY <2>1, <3>1
    <2>2. CASE src.have /\ inst.type = RUN
      <3>1. src' = src /\ (match'.decided <=> match.decided)
        BY <1>1, <1>3, <2>2
      <3>2. WindowFrom' = WindowFrom /\ WindowTo' = WindowTo
        BY <1>3, <3>1 DEF WindowFrom, WindowTo
      <3>3. WindowFrom \in Int /\ WindowTo \in Int
        BY <2>2, WindowNumbers
      <3> QED
        BY <3>1, <3>2, <3>3
    <2>3. CASE src.have /\ inst.type # RUN
      <3>1. src' = SrcwinDecided /\ match'.decided
        BY <1>1, <1>3, <2>3
      <3>2. WindowFrom' = src'.base /\ WindowTo' = src'.base + src'.len
        BY <3>1 DEF WindowFrom, WindowTo
      <3>3. WindowFrom \in Int /\ WindowTo \in Int
        BY <2>3, WindowNumbers
      <3>4. /\ SrcwinDecided.have /\ SrcwinDecided.file = src.file /\ SrcwinDecided.eof = src.eof
            /\ SrcwinDecided.max = src.max /\ SrcwinDecided.onlast = src.onlast
            /\ SrcwinDecided.base \in Int /\ SrcwinDecided.len \in Int
            /\ WindowTo <= 0 \/ (SrcwinDecided.base <= WindowFrom /\ WindowTo <= SrcwinDecided.base + SrcwinDecided.len)
        BY <1>7, <2>3, DecidedWide
      <3>5. src'.base \in Int /\ src'.len \in Int /\ src'.base + src'.len \in Int
        BY <3>1, <3>4
      <3> HIDE DEF inst
      <3>6. src'.have = src.have
        <4>1. src.have \in BOOLEAN /\ SrcwinDecided.have = src.have
          <5>1. SrcwinDecided = src \/ \E b \in Nat, n \in Int : SrcwinDecided = [src EXCEPT !.len = n, !.base = b]
            BY DecidedSource
          <5> QED
            BY <1>2, <2>3, <5>1 DEF SourceGood, SrcType, SrcFields
        <4> QED
          BY <3>1, <4>1
      <3> QED
        BY <3>1, <3>2, <3>3, <3>4, <3>5, <3>6
    <2> QED
      BY <2>1, <2>2, <2>3
  <1> HIDE DEF window
  <1>9. ASSUME NEW r, IsInst(r), Right(r)
        PROVE  Right(r)'
    <2>1. RightIn(r, enc.in, src, WindowFrom, WindowTo)
      BY <1>9 DEF Right
    <2>2. RightIn(r, enc.in, src', WindowFrom', WindowTo')
      BY <1>8, <1>9, <2>1, WiderRight
    <2> QED
      BY <1>1, <2>2 DEF Right
  <1>10. AllRight'
    <2>1. \A k \in 1..Len(iopt.used) : Right(iopt.used[k]) /\ IsInst(iopt.used[k])
      BY <1>2, <1>7, ElementNumbers DEF AllRight
    <2> QED
      BY <1>6, <1>9, <2>1 DEF AllRight
  <1>11. NewRight'
    <2> SUFFICES ASSUME WantsSlot' PROVE Right(loop.new)'
      BY <1>1 DEF NewRight
    <2>1. WantsSlot
      BY <1>1, <1>5 DEF WantsSlot
    <2>2. IsInst(loop.new) /\ Right(loop.new)
      BY <1>7, <2>1, EncoderFields DEF PlaceGood, NewGood, NewRight
    <2>3. RightIn(loop.new, enc.in, src, WindowFrom, WindowTo)
      BY <2>2 DEF Right
    <2>4. RightIn(loop.new, enc.in, src', WindowFrom', WindowTo')
      BY <1>8, <2>2, <2>3, WiderRight
    <2> QED
      BY <1>1, <2>4 DEF Right
  <1> HIDE DEF inst
  <1>12. MatchRight' /\ EndKnown'
    BY <1>2, <1>3, <1>7, <1>8 DEF MatchRight, EndKnown, EndFound, SourceEof
  <1>13. AllEncoded'
    <2>1. inst.pos >= sect.unenc => sect'.unenc = End(inst)
      <3>1. /\ SectType(AddUpTo(sect, inst.pos, window))
            /\ inst.pos >= sect.unenc => AddUpTo(sect, inst.pos, window).unenc = inst.pos
        BY <1>2, <1>4, AddType
      <3> DEFINE s == AddUpTo(sect, inst.pos, window)
      <3> HIDE DEF s
      <3>2. FinishEncoding(s, inst, window).unenc = s.unenc + inst.size
        BY <1>4, <3>1, FinishType DEF s
      <3>3. sect' = FinishEncoding(s, inst, window)
        BY <1>1 DEF s
      <3>4. inst.pos >= sect.unenc => s.unenc = inst.pos
        BY <3>1 DEF s
      <3> QED
        BY <1>4, <3>2, <3>3, <3>4
    <2>2. iopt.slots = 0 => inst.pos >= sect.unenc
      BY <1>1, EncoderFields DEF UnlimitedGood, inst
    <2>3. End(inst) <= Len(enc.in)
      <3>1. 1 \in 1..Len(iopt.used)
        BY <1>4
      <3>2. Right(inst)
        BY <1>4, <1>7, <3>1 DEF AllRight
      <3> QED
        BY <3>2 DEF Right, RightIn
    <2> QED
      BY <1>1, <1>5, <2>1, <2>2, <2>3 DEF AllEncoded
  <1>14. RunRight' /\ SmallRight'
    BY <1>1, <1>5, ExactFields DEF RunRight, SmallRight, AtByte, Extending, WantsSlot, LazyNext
  <1> QED
    BY <1>10, <1>11, <1>12, <1>13, <1>14 DEF ExactInvariant

\* What a look at a string of a list gives: the place of the longest one so far, whether
\* it is the last look, and what the next one is at.
Looks(chains) == (1..chains) \X Nat \X Nat \X Nat

PlaceOf(x) == IF AgreesFrom(x[2]) > x[3] THEN x[2] ELSE x[4]

LastLook(x) ==
    \/ AgreesFrom(x[2]) > x[3] /\ (enc.pos + AgreesFrom(x[2]) = Len(enc.in) \/ AgreesFrom(x[2]) >= LongEnough)
    \/ x[1] = 1 \/ ~HasPrev(x[2])

NextLook(x) == <<x[1] - 1, hash.prev[x[2] % SPrevSize] - 1, LargerOf(AgreesFrom(x[2]), x[3]), PlaceOf(x)>>

Look(f, x) == IF LastLook(x) THEN PlaceOf(x) ELSE f[NextLook(x)]

PrevNumbers == \A i \in DOMAIN hash.prev : hash.prev[i] \in Nat

\* The next look is at a string before this one, and there is one fewer to come.
LEMMA NextLookPlace ==
    ASSUME EncoderInvariant, StringHere, PrevNumbers, NEW chains \in Nat, NEW x \in Looks(chains)
    PROVE  /\ PlaceOf(x) \in Nat /\ PlaceOf(x) \in {x[2], x[4]}
           /\ ~LastLook(x) =>
                /\ NextLook(x) \in Looks(chains) /\ NextLook(x)[1] = x[1] - 1
                /\ NextLook(x)[2] <= x[2] /\ NextLook(x)[4] = PlaceOf(x)
  <1>1. PICK a \in 1..chains, b \in Nat, l \in Nat, p \in Nat : x = <<a, b, l, p>>
    BY DEF Looks
  <1>2. x[1] = a /\ x[2] = b /\ x[3] = l /\ x[4] = p
    BY <1>1
  <1>3. PICK n \in Nat : n = AgreesFrom(b)
    BY AgreesHere
  <1>4. PlaceOf(x) \in Nat /\ PlaceOf(x) \in {b, p}
    BY <1>1, <1>2 DEF PlaceOf
  <1>5. ASSUME ~LastLook(x)
        PROVE  NextLook(x) \in Looks(chains) /\ NextLook(x)[1] = a - 1 /\ NextLook(x)[2] <= b /\ NextLook(x)[4] = PlaceOf(x)
    <2>1. a # 1 /\ HasPrev(b)
      BY <1>2, <1>5 DEF LastLook
    <2>2. PICK prev \in Nat : prev = hash.prev[b % SPrevSize] - 1 /\ prev <= b
      BY <2>1 DEF HasPrev, PrevNumbers
    <2>3. PICK m \in Nat : m = LargerOf(n, l)
      BY <1>1, <1>3 DEF LargerOf
    <2>4. NextLook(x) = <<a - 1, prev, m, PlaceOf(x)>>
      BY <1>2, <1>3, <2>2, <2>3 DEF NextLook
    <2>5. a - 1 \in 1..chains
      BY <1>1, <2>1
    <2> QED
      BY <1>4, <2>2, <2>3, <2>4, <2>5 DEF Looks
  <1> QED
    BY <1>2, <1>4, <1>5

\* f is right for the last n looks.
LooksLast(chains, n, f) ==
    f \in [Looks(chains) -> Nat] /\ \A x \in Looks(chains) : x[1] <= n => f[x] = Look(f, x)

\* There is a function that looks along the list as Longest's recursion says.
LEMMA LooksExist ==
    ASSUME EncoderInvariant, StringHere, PrevNumbers, NEW chains \in Nat
    PROVE  \E f : LooksLast(chains, chains, f)
  <1> DEFINE Bad == {n \in Nat : ~ \E f : LooksLast(chains, n, f)}
  <1>1. SUFFICES ASSUME Bad # {} PROVE FALSE
    OBVIOUS
  <1>2. PICK m \in Bad : \A k \in Bad : m <= k
    <2>1. Bad \in SUBSET Nat
      OBVIOUS
    <2> HIDE DEF Bad
    <2> QED
      BY <1>1, <2>1, LeastNumber
  <1>3. CASE m = 0
    <2> DEFINE f == [x \in Looks(chains) |-> 0]
    <2>1. \A x \in Looks(chains) : ~(x[1] <= 0)
      BY DEF Looks
    <2>2. LooksLast(chains, 0, f)
      BY <2>1 DEF LooksLast
    <2> QED
      BY <1>2, <1>3, <2>2
  <1>4. CASE m # 0
    <2>1. m - 1 \in Nat /\ m \in Nat
      BY <1>2, <1>4
    <2>2. PICK f : LooksLast(chains, m - 1, f)
      <3>1. m - 1 \notin Bad
        BY <1>2, <2>1
      <3> QED
        BY <2>1, <3>1
    <2> DEFINE g == [x \in Looks(chains) |-> IF x[1] <= m THEN Look(f, x) ELSE 0]
    <2>3. f \in [Looks(chains) -> Nat]
      BY <2>2 DEF LooksLast
    <2>4. ASSUME NEW x \in Looks(chains) PROVE Look(f, x) \in Nat
      BY <2>3, NextLookPlace DEF Look
    <2>5. g \in [Looks(chains) -> Nat]
      BY <2>4
    <2>6. ASSUME NEW x \in Looks(chains), x[1] <= m
          PROVE  g[x] = Look(g, x)
      <3>1. g[x] = Look(f, x)
        BY <2>6
      <3>2. CASE LastLook(x)
        BY <3>1, <3>2 DEF Look
      <3>3. CASE ~LastLook(x)
        <4>1. PICK y \in Looks(chains) : y = NextLook(x) /\ y[1] = x[1] - 1
          BY <3>3, NextLookPlace
        <4>2. x[1] \in Nat
          BY DEF Looks
        <4>3. y[1] <= m - 1 /\ y[1] <= m
          BY <2>1, <2>6, <4>1, <4>2
        <4>4. f[y] = Look(f, y)
          BY <2>2, <4>1, <4>3 DEF LooksLast
        <4>5. g[y] = Look(f, y)
          BY <4>1, <4>3
        <4> HIDE DEF g
        <4> QED
          BY <3>1, <3>3, <4>1, <4>4, <4>5 DEF Look
      <3> QED
        BY <3>2, <3>3
    <2>7. LooksLast(chains, m, g)
      <3> HIDE DEF g
      <3> QED
        BY <2>5, <2>6 DEF LooksLast
    <2> QED
      BY <1>2, <2>7
  <1> QED
    BY <1>2, <1>3, <1>4

\* The longest string of a list is at a place that is not behind where the list begins.
LEMMA LongestPlace ==
    ASSUME EncoderInvariant, StringHere, PrevNumbers, NEW base \in Nat
    PROVE  Longest(base) \in 0..base
  <1> DEFINE chains == IF enc.minMatch = MinMatch THEN SChain ELSE SLChain
             Searches(f) == f = [x \in Looks(chains) |-> Look(f, x)]
  <1>1. chains \in Nat \ {0}
    BY EncodeAssumption
  <1>2. Longest(base) = (CHOOSE f : Searches(f))[<<chains, base, 0, base>>]
    BY Zenon DEF Longest, Looks, Look, LastLook, PlaceOf, NextLook
  <1> HIDE DEF chains
  <1>3. \E f : Searches(f)
    <2>1. PICK f : LooksLast(chains, chains, f)
      BY <1>1, LooksExist
    <2>2. f \in [Looks(chains) -> Nat] /\ \A x \in Looks(chains) : f[x] = Look(f, x)
      <3>1. \A x \in Looks(chains) : x[1] <= chains
        BY DEF Looks
      <3> QED
        BY <2>1, <3>1 DEF LooksLast
    <2> QED
      BY <2>2
  <1> DEFINE r == CHOOSE f : Searches(f)
  <1>4. Searches(r)
    <2> HIDE DEF Searches
    <2> QED
      BY <1>3
  <1>5. Longest(base) = r[<<chains, base, 0, base>>]
    BY <1>2
  <1> HIDE DEF r
  <1>6. \A x \in Looks(chains) : r[x] = Look(r, x)
    BY <1>4
  <1> DEFINE Wrong == {n \in Nat : \E x \in Looks(chains) : x[1] = n /\ x[2] <= base /\ x[4] <= base /\ r[x] \notin 0..base}
  <1>7. Wrong = {}
    <2> SUFFICES ASSUME Wrong # {} PROVE FALSE
      OBVIOUS
    <2>1. PICK m \in Wrong : \A k \in Wrong : m <= k
      <3>1. Wrong \in SUBSET Nat
        OBVIOUS
      <3> HIDE DEF Wrong
      <3> QED
        BY <3>1, LeastNumber
    <2>2. PICK x \in Looks(chains) : x[1] = m /\ x[2] <= base /\ x[4] <= base /\ r[x] \notin 0..base
      BY <2>1
    <2>3. /\ PlaceOf(x) \in Nat /\ PlaceOf(x) <= base
          /\ ~LastLook(x) =>
                /\ NextLook(x) \in Looks(chains) /\ NextLook(x)[1] = x[1] - 1
                /\ NextLook(x)[2] <= x[2] /\ NextLook(x)[4] = PlaceOf(x)
      BY <1>1, <2>2, NextLookPlace
    <2>4. ~LastLook(x) /\ r[x] = r[NextLook(x)]
      BY <1>6, <2>2, <2>3 DEF Look
    <2>5. PICK y \in Looks(chains) : y = NextLook(x) /\ y[1] = x[1] - 1 /\ y[2] <= x[2] /\ y[4] <= base
      BY <2>3, <2>4
    <2>6. y[1] \in Nat /\ y[2] \in Nat /\ x[2] \in Nat /\ y[2] <= base /\ x[1] \in Nat
      BY <2>2, <2>5 DEF Looks
    <2>7. y[1] \in Wrong
      BY <2>2, <2>4, <2>5, <2>6
    <2> QED
      BY <2>1, <2>2, <2>5, <2>6, <2>7
  <1>8. <<chains, base, 0, base>> \in Looks(chains)
    BY <1>1 DEF Looks
  <1>9. r[<<chains, base, 0, base>>] \in 0..base
    BY <1>1, <1>7, <1>8
  <1> QED
    BY <1>5, <1>9

\* What agrees with the input here does.
LEMMA AgreesPart ==
    ASSUME EncoderInvariant, StringHere, NEW base
    PROVE  /\ enc.pos + AgreesFrom(base) <= Len(enc.in)
           /\ \A j \in 0..(AgreesFrom(base) - 1) : Input(base + j) = Input(enc.pos + j)
  <1> DEFINE same(k) == Input(base + k) = Input(enc.pos + k)
             left == Len(enc.in) - enc.pos
             G == {k \in 0..left : same(k)}
             A == CHOOSE k \in 0..left : (k = left \/ ~same(k)) /\ \A j \in 0..(k - 1) : same(j)
  <1>1. left \in Nat /\ enc.pos \in Nat /\ Len(enc.in) \in Nat
    BY EncoderFields DEF StringHere, SLook
  <1>2. left = Len(enc.in) - enc.pos
    OBVIOUS
  <1> HIDE DEF left, G
  <1>3. PICK f \in 0..left : (f = left \/ f \notin G) /\ \A j \in 0..(f - 1) : j \in G
    BY <1>1, FirstOf
  <1>4. (f = left \/ ~same(f)) /\ \A j \in 0..(f - 1) : same(j)
    BY <1>1, <1>3 DEF G
  <1>5. A \in 0..left /\ \A j \in 0..(A - 1) : same(j)
    BY <1>3, <1>4
  <1>6. AgreesFrom(base) = A
    BY Zenon DEF AgreesFrom, Agreeing, left
  <1> HIDE DEF A
  <1>7. enc.pos + A <= Len(enc.in)
    BY <1>1, <1>2, <1>5
  <1> QED
    BY <1>5, <1>6, <1>7

\* A copy of earlier input is what the input has here.
LEMMA CopyIsRight ==
    ASSUME NEW pos \in Nat, NEW addr \in Nat, NEW n \in Nat, addr < pos, pos + n <= Len(enc.in), Len(enc.in) \in Nat,
           \A k \in 0..(n - 1) : Input(addr + k) = Input(pos + k)
    PROVE  Right([type |-> CPY, pos |-> pos, size |-> n, addr |-> addr, xtra |-> 0])
  <1> DEFINE r == [type |-> CPY, pos |-> pos, size |-> n, addr |-> addr, xtra |-> 0]
  <1>1. r.type = CPY /\ r.pos = pos /\ r.size = n /\ r.addr = addr /\ r.xtra = 0 /\ End(r) = pos + n
    BY DEF End
  <1> HIDE DEF r
  <1>2. ASSUME NEW i \in (pos + 1)..(pos + n)
        PROVE  enc.in[i] = enc.in[(i - pos) + addr]
    <2>1. PICK k \in 0..(n - 1) : k = i - pos - 1
      <3>1. i - pos - 1 \in 0..(n - 1)
        BY <1>2
      <3> QED
        BY <3>1
    <2>2. (addr + k) + 1 = (i - pos) + addr /\ (pos + k) + 1 = i
      BY <2>1
    <2>3. Input(addr + k) = enc.in[(i - pos) + addr] /\ Input(pos + k) = enc.in[i]
      BY <2>2, Zenon DEF Input
    <2> QED
      BY <2>1, <2>3
  <1>3. ~FromSource(r) /\ r.type # RUN
    BY <1>1 DEF FromSource, RUN, CPY
  <1>4. \A i \in (r.pos + 1)..End(r) : enc.in[i] = enc.in[i - r.pos + r.addr]
    BY <1>1, <1>2
  <1>5. Right(r)
    BY <1>1, <1>3, <1>4 DEF Right, RightIn
  <1> QED
    BY <1>5 DEF r

\* xd3_scksum_insert puts the string here before those that begin before it.
LEMMA InsertedRight ==
    ASSUME NEW b, HashType(hash), enc.pos \in Nat, SmallBefore(hash.small, enc.pos),
           PrevNumbers
    PROVE  /\ SmallBefore(Inserted(b).small, enc.pos + 1)
           /\ \A i \in DOMAIN Inserted(b).prev : Inserted(b).prev[i] \in Nat
  <1> DEFINE old == IF b \in DOMAIN hash.small THEN hash.small[b] ELSE 0
             s == Stored(hash.small, b, enc.pos + 1)
             p == Stored(hash.prev, enc.pos % SPrevSize, old)
  <1>1. /\ Inserted(b).small = s
        /\ Inserted(b).prev = IF SChain = 1 /\ SLChain = 1 THEN hash.prev ELSE p
    <2>1. PICK x, y : x = s /\ y = p
      OBVIOUS
    <2>2. Inserted(b) = [hash EXCEPT !.small = x, !.prev = IF SChain = 1 /\ SLChain = 1 THEN hash.prev ELSE y]
      BY <2>1, Zenon DEF Inserted
    <2> HIDE DEF s, p
    <2> QED
      BY <2>1, <2>2 DEF HashType
  <1>2. SmallBefore(s, enc.pos + 1)
    <2>1. \A x \in DOMAIN s : s[x] = enc.pos + 1 \/ (x \in DOMAIN hash.small /\ s[x] = hash.small[x])
      BY DEF Stored
    <2> HIDE DEF s
    <2> QED
      BY <2>1 DEF SmallBefore
  <1>3. \A i \in DOMAIN p : p[i] \in Nat
    <2>1. old \in Nat
      BY DEF SmallBefore
    <2> HIDE DEF old
    <2>2. \A x \in DOMAIN p : p[x] = old \/ (x \in DOMAIN hash.prev /\ p[x] = hash.prev[x])
      BY DEF Stored
    <2> HIDE DEF p
    <2> QED
      BY <2>1, <2>2 DEF PrevNumbers
  <1> HIDE DEF s, p
  <1> QED
    BY <1>1, <1>2, <1>3 DEF PrevNumbers

\* A copy of earlier input is looked for.
LEMMA TrySmallExact == ASSUME EncoderInvariant, ExactInvariant, TrySmall PROVE ExactInvariant'
  <1> DEFINE b == Bucket(String(enc.pos, SLook))
             m == IF b \in DOMAIN hash.small THEN SMatch(hash.small[b] - 1) ELSE <<0, 0>>
             n == IF Inefficient(m[1], enc.pos - m[2]) THEN 0 ELSE m[1]
             new == [type |-> CPY, pos |-> enc.pos, size |-> n, addr |-> m[2], xtra |-> 0]
             mm == LargerOf(MinMatch, enc.minMatch - 1)
  <1>1. /\ at = "small" /\ src' = src /\ match' = match /\ iopt' = iopt /\ sect' = sect /\ hash' = Inserted(b)
        /\ LoopType(loop) /\ HashType(hash) /\ EncType(enc) /\ StringHere
        /\ enc.pos \in Nat /\ Len(enc.in) \in Nat
        /\ match.state \notin {"FORWARD", "BACKWARD"}
    <2>1. /\ at = "small" /\ src' = src /\ match' = match /\ iopt' = iopt /\ sect' = sect /\ hash' = Inserted(b)
      BY Zenon DEF TrySmall
    <2> HIDE DEF b
    <2>2. StringHere /\ match.state \notin {"FORWARD", "BACKWARD"}
      BY <2>1, EncoderFields DEF PlaceGood, AtByte, MatchUnderWay, Extending
    <2>3. EncType(enc) /\ LoopType(loop) /\ HashType(hash) /\ enc.pos \in Nat /\ Len(enc.in) \in Nat
      BY EncoderFields
    <2> QED
      BY <2>1, <2>2, <2>3
  <1>2. RunAt(loop, enc.in, enc.pos) /\ SmallBefore(hash.small, enc.pos) /\ PrevNumbers
    <2> HIDE DEF b
    <2> QED
      BY <1>1, ExactFields DEF RunRight, SmallRight, AtByte, PrevNumbers
  <1>3. SmallBefore(hash'.small, enc.pos + 1) /\ \A i \in DOMAIN hash'.prev : hash'.prev[i] \in Nat
    <2> HIDE DEF b
    <2> QED
      BY <1>1, <1>2, InsertedRight
  <1>4. ASSUME b \in DOMAIN hash.small
        PROVE  /\ m[1] \in Nat /\ m[2] \in Nat /\ m[2] < enc.pos /\ enc.pos + m[1] <= Len(enc.in)
               /\ \A k \in 0..(m[1] - 1) : Input(m[2] + k) = Input(enc.pos + k)
    <2> HIDE DEF b
    <2>1. PICK base \in Nat : base = hash.small[b] - 1 /\ base < enc.pos
      BY <1>1, <1>2, <1>4 DEF SmallBefore
    <2>2. PICK longest \in 0..base : longest = Longest(base)
      BY <1>1, <1>2, <2>1, LongestPlace
    <2>3. m = <<AgreesFrom(longest), longest>>
      BY <1>4, <2>1, <2>2, Zenon DEF SMatch
    <2>4. m[1] = AgreesFrom(longest) /\ m[2] = longest
      BY <2>3
    <2>5. AgreesFrom(longest) \in Nat
      BY <1>1, AgreesHere
    <2>6. /\ enc.pos + AgreesFrom(longest) <= Len(enc.in)
          /\ \A j \in 0..(AgreesFrom(longest) - 1) : Input(longest + j) = Input(enc.pos + j)
      BY <1>1, AgreesPart
    <2>7. longest \in Nat /\ longest < enc.pos
      BY <1>1, <2>1, <2>2
    <2> HIDE DEF m
    <2> QED
      BY <2>4, <2>5, <2>6, <2>7
  <1>5. b \notin DOMAIN hash.small => m[1] = 0
    <2> HIDE DEF b
    <2> QED
      OBVIOUS
  <1>6. \/ n >= enc.minMatch /\ Found(new, loop) /\ enc' = enc
        \/ enc' = [enc EXCEPT !.minMatch = mm] /\ at' = "update" /\ loop' = loop
    <2>1. CASE n >= enc.minMatch
      BY <2>1, Zenon DEF TrySmall
    <2>2. CASE ~(n >= enc.minMatch)
      BY <2>2, Zenon DEF TrySmall
    <2> QED
      BY <2>1, <2>2
  <1> HIDE DEF b, m, mm
  <1>7. CASE n >= enc.minMatch /\ Found(new, loop) /\ enc' = enc
    <2>0. n = 0 \/ n = m[1]
      OBVIOUS
    <2> HIDE DEF n
    <2>1. m[1] \in Nat /\ n \in Nat
      BY <1>4, <1>5, <2>0
    <2>2. n = m[1] /\ b \in DOMAIN hash.small
      <3>1. n >= 4
        BY <1>7, <2>1, EncoderFields
      <3> QED
        BY <1>5, <2>0, <3>1
    <2>3. PICK base \in Nat : base = m[2] /\ base < enc.pos
      BY <1>4, <2>2
    <2>4. enc.pos + n <= Len(enc.in) /\ \A k \in 0..(n - 1) : Input(base + k) = Input(enc.pos + k)
      BY <1>4, <2>2, <2>3
    <2>5. Right([type |-> CPY, pos |-> enc.pos, size |-> n, addr |-> base, xtra |-> 0])
      BY <1>1, <2>1, <2>3, <2>4, CopyIsRight
    <2>6. Right(new)
      BY <2>3, <2>5, Zenon
    <2>7. loop' = [loop EXCEPT !.new = new, !.len = new.size, !.then = "lazy"] /\ at' = "slot"
      BY <1>7, Zenon DEF Found
    <2> HIDE DEF new
    <2>8. loop'.new = new /\ loop'.then = "lazy" /\ loop'.runL = loop.runL /\ loop'.runC = loop.runC
      BY <1>1, <2>7 DEF LoopType
    <2>9. RunAt(loop', enc.in, enc.pos)
      BY <1>2, <2>8, SameRun
    <2> QED
      BY <1>1, <1>3, <1>7, <2>6, <2>7, <2>8, <2>9, FoundExact
  <1> HIDE DEF n, new
  <1>8. CASE enc' = [enc EXCEPT !.minMatch = mm] /\ at' = "update" /\ loop' = loop
    <2>1. enc'.in = enc.in /\ enc'.pos = enc.pos /\ enc'.state = enc.state
      BY <1>1, <1>8 DEF EncType, EncFields
    <2>2. RunRight' /\ SmallRight' /\ AllEncoded'
      BY <1>1, <1>2, <1>3, <1>8, <2>1 DEF RunRight, SmallRight, AllEncoded, AtByte, Extending, WantsSlot, LazyNext
    <2> QED
      BY <1>1, <1>8, <2>1, <2>2, CalmExact DEF WantsSlot
  <1> QED
    BY <1>6, <1>7, <1>8

\* Every step of the encoder keeps the second invariant.
LEMMA EncodeStepExact == ASSUME EncoderInvariant, ExactInvariant, EncodeStep PROVE ExactInvariant'
  BY StartWindowExact, SearchExact, ExtendBackExact, ExtendForwardExact, MatchExtendedExact, MoveOnExact,
     MovePointExact, PointMovedExact, RestartExact, TryRunExact, TryLargeExact, LookLargeExact, TrySmallExact,
     HandleLazyExact, UpdateOneExact, TakeSlotExact, SlotsFullExact, InputSearchedExact, CompactStepExact,
     CompactedExact, EncodeFrontExact, SlotsEmptiedExact, FinalizeExact, EmitHeaderExact, PostOutExact, PostWinExact
  DEF EncodeStep

\* code() begins where nothing is searched.
LEMMA ExactInit == Init => ExactInvariant
  <1> SUFFICES ASSUME Init PROVE ExactInvariant
    OBVIOUS
  <1>1. PICK c \in Cases : EncodeInit(Opened(c.source, c.opened # "neither"), c.slots)
    BY DEF Init
  <1>2. c.source \in Seq(Byte) /\ (c.opened # "neither") \in BOOLEAN
    BY LoopAssumption
  <1> QED
    BY <1>1, <1>2, EncodeInitExact

\* Every step of the two loops of code() keeps it.
LEMMA ExactNext == JobType(job) /\ EncoderInvariant /\ ExactInvariant /\ [Next]_allVars => ExactInvariant'
  <1> SUFFICES ASSUME JobType(job), EncoderInvariant, ExactInvariant, [Next]_allVars
               PROVE  ExactInvariant'
    OBVIOUS
  <1>1. CASE ReadInput
    BY <1>1, AvailInputExact DEF ReadInput
  <1>2. CASE ReadPatch \/ WriteTarget \/ WriteTargetShort \/ Decode \/ Applied \/ Refuse
    BY <1>2, UnchangedExact DEF ReadPatch, WriteTarget, WriteTargetShort, Decode, Applied, Refuse
  <1>3. CASE WritePatch
    BY <1>3, ConsumeOutputExact DEF WritePatch
  <1>4. CASE LoadBlock
    BY <1>4, UnchangedExact, SupplyBlockExact DEF LoadBlock
  <1>5. CASE GoOn
    BY <1>5, UnchangedExact, GoOnEncodingExact DEF GoOn
  <1>6. CASE Encode
    BY <1>6, EncodeStepExact DEF Encode
  <1>7. CASE Created
    <2>1. EncodeFreed /\ at = "client" /\ enc.ret = "INPUT"
      BY <1>7 DEF Created
    <2>2. enc.state = "INPUT"
      BY <2>1, EncoderFields DEF StateGood
    <2> QED
      BY <2>1, <2>2, EncodeFreedExact
  <1>8. CASE UNCHANGED allVars
    BY <1>8, UnchangedExact DEF allVars
  <1> QED
    BY <1>1, <1>2, <1>3, <1>4, <1>5, <1>6, <1>7, <1>8 DEF Next

\* What is in the instruction buffer, and is on its way to it, writes what the
\* input has there, for every source, target, block size, window size, size of
\* the instruction buffer and way to call xd3_encode_input.
THEOREM ExactSafe == Spec => []ExactInvariant
  <1>1. Spec => [](JobType(job) /\ DecoderInvariant /\ EncoderInvariant /\ ExactInvariant)
    BY DecoderInit, DecoderNext, EncoderInit, EncoderNext, ExactInit, ExactNext, PTL DEF Spec
  <1> QED
    BY <1>1, PTL

\* What an instruction writes is what the input has there.
LEMMA RightStands ==
    ASSUME NEW r, IsInst(r), Right(r)
    PROVE  Stands(r)
  <1>1. r.pos \in Nat /\ r.size \in Nat /\ r.addr \in Nat /\ End(r) = r.pos + r.size
    BY InstNumbers DEF Right, RightIn
  <1>2. PICK pos, n, a \in Nat : pos = r.pos /\ n = r.size /\ a = r.addr
    BY <1>1, Zenon
  <1>3. End(r) = pos + n
    BY <1>1, <1>2
  <1>4. ASSUME NEW k \in 0..(n - 1)
        PROVE  /\ Input(pos + k) = enc.in[pos + k + 1] /\ Input(a + k) = enc.in[a + k + 1]
               /\ SourceByte(src, a + k) = src.file[a + k + 1]
               /\ pos + k + 1 \in (pos + 1)..(pos + n) /\ (pos + k + 1) - pos + a = a + k + 1
    <2>1. /\ Input(pos + k) = enc.in[pos + k + 1] /\ Input(a + k) = enc.in[a + k + 1]
          /\ SourceByte(src, a + k) = src.file[a + k + 1]
      BY Zenon DEF Input, SourceByte
    <2>2. pos + k + 1 \in (pos + 1)..(pos + n) /\ (pos + k + 1) - pos + a = a + k + 1
      BY <1>4
    <2> QED
      BY <2>1, <2>2, Zenon
  <1>5. CASE FromSource(r)
    <2>1. /\ a + n <= Len(src.file)
          /\ \A i \in (pos + 1)..(pos + n) : enc.in[i] = src.file[i - pos + a]
      BY <1>2, <1>3, <1>5 DEF Right, RightIn
    <2>2. ASSUME NEW k \in 0..(n - 1) PROVE Input(pos + k) = SourceByte(src, a + k)
      <3>1. enc.in[pos + k + 1] = src.file[(pos + k + 1) - pos + a]
        BY <1>4, <2>1, Zenon
      <3> QED
        BY <1>4, <3>1, Zenon
    <2>3. r.type # RUN
      BY <1>5 DEF FromSource, RUN, CPY
    <2> QED
      BY <1>2, <1>5, <2>1, <2>2, <2>3, Zenon DEF Stands
  <1>6. CASE r.type = RUN
    <2>1. \A i \in (pos + 1)..(pos + n) : enc.in[i] = r.xtra
      BY <1>2, <1>3, <1>6 DEF Right, RightIn
    <2>2. \A k \in 0..(n - 1) : Input(pos + k) = r.xtra
      BY <1>4, <2>1
    <2>3. ~FromSource(r)
      BY <1>6 DEF FromSource, RUN, CPY
    <2> QED
      BY <1>2, <1>6, <2>2, <2>3, Zenon DEF Stands
  <1>7. CASE ~FromSource(r) /\ r.type # RUN
    <2>1. /\ a < pos
          /\ \A i \in (pos + 1)..(pos + n) : enc.in[i] = enc.in[i - pos + a]
      BY <1>2, <1>3, <1>7 DEF Right, RightIn
    <2>2. \A k \in 0..(n - 1) : Input(pos + k) = Input(a + k)
      BY <1>4, <2>1
    <2> QED
      BY <1>2, <1>7, <2>1, <2>2, Zenon DEF Stands
  <1> QED
    BY <1>5, <1>6, <1>7

\* The two invariants say what EncodedExactly says.
LEMMA InvariantExact == EncoderInvariant /\ ExactInvariant => EncodedExactly
  <1> SUFFICES ASSUME EncoderInvariant, ExactInvariant PROVE EncodedExactly
    OBVIOUS
  <1>1. ASSUME at = "pick", iopt.used # <<>>
        PROVE  LET inst == Head(iopt.used)
               IN  /\ Stands(inst) /\ Within(inst, SrcwinDecided)
                   /\ iopt.slots = 0 => inst.pos >= sect.unenc
    <2>1. PICK inst : inst = Head(iopt.used) /\ inst = iopt.used[1] /\ IsInst(inst) /\ Right(inst)
      <3>1. Buffer(iopt.used) /\ Len(iopt.used) \in Nat /\ 1 \in 1..Len(iopt.used) /\ Head(iopt.used) = iopt.used[1]
        BY <1>1, EncoderFields DEF Buffer
      <3> QED
        BY <3>1, ElementNumbers, ExactFields DEF AllRight
    <2>2. Stands(inst)
      BY <2>1, RightStands
    <2>3. ASSUME FromSource(inst)
          PROVE  SrcwinDecided.base <= inst.addr /\ inst.addr + inst.size <= SrcwinDecided.base + SrcwinDecided.len
      <3>1. /\ src.have /\ WindowFrom <= inst.addr /\ inst.addr + inst.size <= WindowTo /\ inst.addr \in Nat
            /\ inst.size \in Nat /\ inst.size >= 4
        BY <2>1, <2>3, InstNumbers DEF Right, RightIn, MinMatch
      <3>2. /\ SrcwinDecided.base \in Int /\ SrcwinDecided.len \in Int
            /\ WindowTo <= 0 \/ (SrcwinDecided.base <= WindowFrom /\ WindowTo <= SrcwinDecided.base + SrcwinDecided.len)
        BY <3>1, ExactFields, DecidedWide
      <3>3. WindowFrom \in Int /\ WindowTo \in Int
        BY <3>1, WindowNumbers
      <3> QED
        BY <3>1, <3>2, <3>3
    <2>4. iopt.slots = 0 => inst.pos >= sect.unenc
      BY <1>1, <2>1, EncoderFields DEF UnlimitedGood
    <2> QED
      BY <2>1, <2>2, <2>3, <2>4, Zenon DEF Within
  <1>2. at = "header" /\ iopt.slots = 0 => sect.unenc = Len(enc.in)
    BY ExactFields DEF AllEncoded
  <1> QED
    BY <1>1, <1>2 DEF EncodedExactly

\* unencoded_offset == inst->pos, which xd3_iopt_finish_encoding asserts: what is
\* encoded writes the bytes of the input, out of the window that is told the
\* decoder, and with the unlimited buffer code() has every byte goes out once.
THEOREM EncodedSafe == Spec => []EncodedExactly
  <1> QED
    BY EncoderSafe, ExactSafe, InvariantExact, PTL

=============================================================================
