--------------------------- MODULE RUPApply_proofs ---------------------------
(***************************************************************************)
(* rup2_apply, for all files and patches: what the user gets, whatever lies *)
(* in the temporary directory, whenever the process crashed, and whenever  *)
(* the stream's buffer goes out; and what is left of it when rename fails. *)
(***************************************************************************)
EXTENDS RUPApply, SequenceTheorems, TLAPS

-----------------------------------------------------------------------------
(* The invariant.                                                            *)

IsRupPatch(p) ==
    /\ p.ninja2 \in BOOLEAN /\ p.type \in {"raw", "nes", "gb", "lynx"}
    /\ p.smd5 \in File /\ p.mmd5 \in File
    /\ p.ssize = Len(p.smd5) /\ p.msize = Len(p.mmd5)
    /\ p.commands \in Seq(Commands)

Before == {"magic", "convert", "verify"}
Patching == {"command", "truncate", "restore"}
Finishing == {"rename", "removed"}

Types ==
    /\ pc \in {"idle", "returned"} \cup Before \cup Patching \cup Finishing
    /\ IsRupPatch(patch) /\ input \in File
    /\ target \in File \cup {Nothing} /\ ninja \in File \cup {Nothing}
    /\ fo \in {"none", "target", "ninja"}
    /\ buffer.at \in Nat /\ buffer.bytes \in File
    /\ overflow \in File \cup {Nothing} /\ revert \in BOOLEAN /\ next \in Nat \ {0}
    /\ lost \in BOOLEAN
    /\ IF pc = "returned" THEN applied \in Results ELSE applied = Applying

\* A call begins with what the caller gives it, and with a ninja.src at most.
Beginning ==
    /\ pc \in {"idle"} \cup Before =>
          fo = "none" /\ buffer = NoWrite /\ overflow = Nothing /\ next = 1
    /\ pc \in {"idle", "magic", "convert"} => header = Nothing /\ lost = FALSE
    /\ pc \in Before => target = input
    /\ pc \in {"magic", "convert"} /\ clean => ninja = Nothing

\* What the input's reader makes of it.
Dump == Converted(patch.type, input)

\* What the patch is applied to.
From == IF revert THEN patch.mmd5 ELSE patch.smd5

ConvertedThen ==
    /\ pc = "verify" => /\ header = Dump.header
                        /\ patch.type # "raw" => ninja # Nothing
                        /\ patch.type # "raw" /\ ~lost => ninja = Dump.rom
                        /\ patch.type = "raw" /\ clean => ninja = Nothing
    /\ pc \in Patching \cup Finishing \/ applied \in {"ok", "bad_patch"} =>
          (clean /\ ~lost => Dump.rom \in {patch.smd5, patch.mmd5})

\* The stream is open on the conversion if there is one, and on the target otherwise.
Open ==
    /\ fo \in {"target", "ninja"} /\ (fo = "ninja" <=> ninja # Nothing)
    /\ target # Nothing /\ header = Dump.header
    /\ fo = "target" => patch.type = "raw"
    /\ fo = "ninja" => target = input
    /\ patch.type # "raw" /\ ~lost => From = Dump.rom

\* A byte is as the patch wants it once its record is through.
Through(k) == \E c \in 1..(next - 1) : InRecord(patch.commands[c], k)
Patched ==
    /\ Len(Flushed) = Len(From)
    /\ \A k \in 1..Len(From) : Flushed[k] = IF Through(k) THEN Wanted[k] ELSE From[k]

OverflowOf(p) == [k \in 1..(Len(Longer(p)) - Common(p)) |-> Longer(p)[Common(p) + k]]
OverflowSeen ==
    /\ overflow # Nothing => patch.ssize # patch.msize /\ overflow = OverflowOf(patch)
    /\ (\E c \in 1..(next - 1) : patch.commands[c].code = "M") => overflow # Nothing

\* What is said of the bytes, for as long as all that was written got through.
Progress ==
    /\ pc = "command" => next - 1 <= Len(patch.commands)
    /\ pc = "command" /\ ~lost /\ IsDifference(patch) => Patched /\ OverflowSeen
    /\ pc \in {"truncate", "restore"} /\ ~lost /\ IsDifference(patch) /\ ~Shrinks =>
          Flushed = Wanted

Ending ==
    /\ pc = "rename" /\ ~lost /\ IsDifference(patch) /\ ~Shrinks =>
          IF ninja # Nothing THEN ninja = WantedFile ELSE UnifResized \/ target = WantedFile
    /\ pc = "removed" => ninja # Nothing
    /\ pc \in Finishing /\ ~lost /\ ninja # Nothing => target \in {Nothing, input}
    /\ pc = "returned" /\ applied = "bad_patch" /\ patch.type # "raw" => target = input

Inv ==
    /\ Types /\ Beginning /\ ConvertedThen
    /\ pc \in Patching => Open
    /\ Progress /\ Ending
    /\ PatchedExactly /\ ReplacementComplete /\ VerdictExact

-----------------------------------------------------------------------------
(* Bytes and files.                                                          *)

LEMMA XorTwice ==
    ASSUME NEW a \in Byte, NEW b \in Byte
    PROVE  /\ Xor(a, b) \in Byte
           /\ Xor(Xor(a, b), a) = b /\ Xor(Xor(a, b), b) = a
  <1>1. (a = 0 \/ a = 1 \/ a = 2 \/ a = 3) /\ (b = 0 \/ b = 1 \/ b = 2 \/ b = 3)
    BY DEF Byte
  <1> QED
    BY <1>1 DEF Xor, Byte

LEMMA SeqOfFunction ==
    ASSUME NEW n \in Nat, NEW f \in [1..n -> Byte]
    PROVE  f \in File /\ Len(f) = n
  <1>1. f \in Seq(Byte)
    BY SeqDef
  <1>2. Len(f) \in Nat /\ DOMAIN f = 1..Len(f)
    BY <1>1, LenProperties
  <1>3. 1..Len(f) = 1..n
    BY <1>2
  <1> QED
    BY <1>1, <1>2, <1>3 DEF File

LEMMA FileBytes ==
    ASSUME NEW f \in File
    PROVE  /\ Len(f) \in Nat /\ f \in [1..Len(f) -> Byte]
           /\ \A k \in 1..Len(f) : f[k] \in Byte
           /\ f # Nothing
  <1>1. Len(f) \in Nat /\ f \in [1..Len(f) -> Byte] /\ DOMAIN f = 1..Len(f)
    BY LenProperties DEF File
  <1>2. f # Nothing
    <2> SUFFICES ASSUME f = Nothing PROVE FALSE
      OBVIOUS
    <2>1. Len(f) = 1 /\ f[1] = -1
      BY DEF Nothing
    <2>2. f[1] \in Byte
      BY <1>1, <2>1
    <2> QED
      BY <2>1, <2>2 DEF Byte
  <1> QED
    BY <1>1, <1>2

LEMMA SameBytes ==
    ASSUME NEW f \in File, NEW g \in File, Len(f) = Len(g),
           \A k \in 1..Len(f) : f[k] = g[k]
    PROVE  f = g
  BY SeqEqual DEF File

\* What a write leaves.
LEMMA PokeBytes ==
    ASSUME NEW f \in File, NEW at \in Nat, NEW b \in File,
           NEW m \in Nat, m = Len(f), NEW n \in Nat, n = Len(b)
    PROVE  /\ Poke(f, at, b) \in File
           /\ Len(Poke(f, at, b)) = IF n > 0 /\ at + n > m THEN at + n ELSE m
           /\ \A k \in 1..Len(Poke(f, at, b)) :
                 Poke(f, at, b)[k] = IF k > at /\ k <= at + n THEN b[k - at]
                                     ELSE IF k <= m THEN f[k] ELSE 0
  <1> DEFINE size == IF n > 0 /\ at + n > m THEN at + n ELSE m
             g == [k \in 1..size |-> IF k > at /\ k <= at + n THEN b[k - at]
                                     ELSE IF k <= m THEN f[k] ELSE 0]
  <1>1. Poke(f, at, b) = g
    BY DEF Poke
  <1>2. size \in Nat
    OBVIOUS
  <1>3. \A k \in 1..n : b[k] \in Byte
    BY FileBytes
  <1>4. \A k \in 1..m : f[k] \in Byte
    BY FileBytes
  <1>5. g \in [1..size -> Byte]
    <2> SUFFICES ASSUME NEW k \in 1..size
                 PROVE  (IF k > at /\ k <= at + n THEN b[k - at]
                         ELSE IF k <= m THEN f[k] ELSE 0) \in Byte
      OBVIOUS
    <2>1. k \in Nat \ {0}
      BY <1>2
    <2>2. CASE k > at /\ k <= at + n
      <3>1. k - at \in 1..n
        BY <1>2, <2>1, <2>2
      <3> QED
        BY <1>3, <2>2, <3>1
    <2>3. CASE ~(k > at /\ k <= at + n) /\ k <= m
      <3>1. k \in 1..m
        BY <1>2, <2>1, <2>3
      <3> QED
        BY <1>4, <2>3, <3>1
    <2> QED
      BY <2>2, <2>3 DEF Byte
  <1>6. \A k \in 1..size : g[k] = IF k > at /\ k <= at + n THEN b[k - at]
                                  ELSE IF k <= m THEN f[k] ELSE 0
    OBVIOUS
  <1> HIDE DEF g
  <1>7. g \in File /\ Len(g) = size
    <2> HIDE DEF size
    <2> QED
      BY <1>2, <1>5, SeqOfFunction
  <1> QED
    BY <1>1, <1>6, <1>7

LEMMA PokeIsFile ==
    ASSUME NEW f \in File, NEW at \in Nat, NEW b \in File
    PROVE  Poke(f, at, b) \in File
  <1>1. PICK m \in Nat, n \in Nat : m = Len(f) /\ n = Len(b)
    BY FileBytes
  <1> QED
    BY <1>1, PokeBytes

LEMMA PokeNothing == ASSUME NEW f \in File PROVE Poke(f, 0, <<>>) = f
  <1>1. <<>> \in File /\ Len(<<>>) = 0
    BY EmptySeq DEF File
  <1>2. Len(f) \in Nat
    BY FileBytes
  <1>3. Poke(f, 0, <<>>) \in File /\ Len(Poke(f, 0, <<>>)) = Len(f)
    BY <1>1, <1>2, PokeBytes
  <1>4. ASSUME NEW k \in 1..Len(f) PROVE Poke(f, 0, <<>>)[k] = f[k]
    <2>1. PICK m \in Nat : m = Len(f)
      BY <1>2
    <2>2. \A l \in 1..Len(Poke(f, 0, <<>>)) :
             Poke(f, 0, <<>>)[l] = IF l > 0 /\ l <= 0 + 0 THEN <<>>[l - 0]
                                   ELSE IF l <= m THEN f[l] ELSE 0
      BY <1>1, <2>1, PokeBytes
    <2>3. k \in 1..Len(Poke(f, 0, <<>>)) /\ k \in Nat \ {0} /\ k <= m
      BY <1>3, <2>1
    <2> QED
      BY <2>2, <2>3
  <1> QED
    BY <1>3, <1>4, SameBytes

\* The part of a write that goes through and the part that is buffered are the write.
LEMMA PokeSplit ==
    ASSUME NEW f \in File, NEW at \in Nat, NEW b \in File, NEW n \in 0..Len(b)
    PROVE  /\ SubSeq(b, 1, n) \in File /\ SubSeq(b, n + 1, Len(b)) \in File
           /\ Poke(Poke(f, at, SubSeq(b, 1, n)), at + n, SubSeq(b, n + 1, Len(b)))
                = Poke(f, at, b)
  <1> DEFINE x == SubSeq(b, 1, n)
             z == SubSeq(b, n + 1, Len(b))
             g == Poke(f, at, x)
             h == Poke(g, at + n, z)
             w == Poke(f, at, b)
  <1>1. PICK l \in Nat : l = Len(b) /\ n \in Nat /\ n <= l
    BY FileBytes
  <1>2. PICK m \in Nat : m = Len(f)
    BY FileBytes
  <1>3. \A k \in 1..l : b[k] \in Byte
    BY <1>1, FileBytes
  <1>4. /\ x \in File /\ Len(x) = n
        /\ \A k \in 1..n : x[k] = b[k]
    <2>1. \A k \in 1..n : b[k] \in Byte
      BY <1>1, <1>3
    <2> QED
      BY <1>1, <2>1, SubSeqProperties DEF File
  <1>5. /\ z \in File /\ Len(z) = l - n
        /\ \A k \in 1..(l - n) : z[k] = b[n + k]
    <2>1. \A k \in (n + 1)..l : b[k] \in Byte
      BY <1>1, <1>3
    <2>2. n + 1 \in Int /\ l \in Int
      BY <1>1
    <2>3. /\ SubSeq(b, n + 1, l) \in Seq(Byte)
          /\ Len(SubSeq(b, n + 1, l)) = IF n + 1 <= l THEN l - (n + 1) + 1 ELSE 0
          /\ \A k \in 1..(l - (n + 1) + 1) : SubSeq(b, n + 1, l)[k] = b[n + 1 + k - 1]
      BY <2>1, <2>2, SubSeqProperties
    <2> QED
      BY <1>1, <2>3 DEF File
  <1> HIDE DEF x, z
  <1>6. /\ g \in File
        /\ Len(g) = IF n > 0 /\ at + n > m THEN at + n ELSE m
        /\ \A k \in 1..Len(g) : g[k] = IF k > at /\ k <= at + n THEN x[k - at]
                                       ELSE IF k <= m THEN f[k] ELSE 0
    BY <1>2, <1>4, PokeBytes
  <1>7. PICK q \in Nat : q = Len(g)
    BY <1>6, FileBytes
  <1> HIDE DEF g
  <1>8. PICK r \in Nat, e \in Nat :
          /\ r = l - n /\ e = at + n /\ h \in File
          /\ Len(h) = IF r > 0 /\ e + r > q THEN e + r ELSE q
          /\ \A k \in 1..Len(h) : h[k] = IF k > e /\ k <= e + r THEN z[k - e]
                                         ELSE IF k <= q THEN g[k] ELSE 0
    <2>1. l - n \in Nat /\ at + n \in Nat
      BY <1>1
    <2>2. PICK r \in Nat, e \in Nat : r = l - n /\ e = at + n
      BY <2>1
    <2>3. h = Poke(g, e, z) /\ Len(z) = r
      BY <1>5, <2>2
    <2> HIDE DEF h
    <2>4. /\ Poke(g, e, z) \in File
          /\ Len(Poke(g, e, z)) = IF r > 0 /\ e + r > q THEN e + r ELSE q
          /\ \A k \in 1..Len(Poke(g, e, z)) :
                Poke(g, e, z)[k] = IF k > e /\ k <= e + r THEN z[k - e]
                                   ELSE IF k <= q THEN g[k] ELSE 0
      BY <1>5, <1>6, <1>7, <2>3, PokeBytes, SMTT(40)
    <2> QED
      BY <2>2, <2>3, <2>4
  <1>9. /\ w \in File
        /\ Len(w) = IF l > 0 /\ at + l > m THEN at + l ELSE m
        /\ \A k \in 1..Len(w) : w[k] = IF k > at /\ k <= at + l THEN b[k - at]
                                       ELSE IF k <= m THEN f[k] ELSE 0
    BY <1>1, <1>2, PokeBytes
  <1> HIDE DEF h, w
  <1>10. PICK v \in Nat : v = Len(h)
    BY <1>8, FileBytes
  <1>11. q = IF n > 0 /\ at + n > m THEN at + n ELSE m
    BY <1>6, <1>7
  <1>12. Len(h) = Len(w)
    BY <1>1, <1>2, <1>8, <1>9, <1>11
  <1>13. ASSUME NEW k \in 1..v PROVE h[k] = w[k]
    <2>1. k \in Nat \ {0} /\ k \in 1..Len(h) /\ k \in 1..Len(w)
      BY <1>10, <1>12
    <2>2. CASE k > at + n /\ k <= at + l
      <3>1. k - e \in 1..(l - n) /\ n + (k - e) = k - at /\ k > at /\ k > e /\ k <= e + r
        BY <1>1, <1>8, <2>1, <2>2
      <3> QED
        BY <1>5, <1>8, <1>9, <2>1, <2>2, <3>1
    <2>3. CASE ~(k > at + n /\ k <= at + l)
      <3>1. ~(k > e /\ k <= e + r)
        BY <1>1, <1>8, <2>1, <2>3
      <3>2. h[k] = IF k <= q THEN g[k] ELSE 0
        BY <1>8, <2>1, <3>1
      <3>3. CASE k > at /\ k <= at + n
        <4>1. k <= q /\ k - at \in 1..n /\ k <= at + l
          BY <1>1, <1>11, <2>1, <3>3
        <4>2. k \in 1..Len(g)
          BY <1>7, <2>1, <4>1
        <4> QED
          BY <1>4, <1>6, <1>9, <2>1, <3>2, <3>3, <4>1, <4>2
      <3>4. CASE ~(k > at /\ k <= at + n)
        <4>1. w[k] = IF k <= m THEN f[k] ELSE 0
          BY <1>1, <1>9, <2>1, <2>3, <3>4
        <4>2. CASE k <= q
          <5>1. k \in 1..Len(g)
            BY <1>7, <2>1, <4>2
          <5> QED
            BY <1>6, <3>2, <3>4, <4>1, <4>2, <5>1
        <4>3. CASE ~(k <= q)
          <5>1. ~(k <= m)
            BY <1>11, <2>1, <4>3
          <5> QED
            BY <3>2, <4>1, <4>3, <5>1
        <4> QED
          BY <4>2, <4>3
      <3> QED
        BY <3>3, <3>4
    <2> QED
      BY <2>2, <2>3
  <1>14. h = w
    BY <1>8, <1>9, <1>10, <1>12, <1>13, SameBytes
  <1> QED
    BY <1>4, <1>5, <1>14 DEF h, w, g, x, z

LEMMA ResizedIsFile ==
    ASSUME NEW f \in File, NEW n \in Nat
    PROVE  Resized(f, n) \in File
  <1>1. PICK m \in Nat : m = Len(f) /\ \A k \in 1..m : f[k] \in Byte
    BY FileBytes
  <1>2. Resized(f, n) \in [1..n -> Byte]
    BY <1>1 DEF Resized, Byte
  <1> QED
    BY <1>2, SeqOfFunction

\* What the readers deliver.  A UNIF file starts with its mark, and the rest is it.
LEMMA DumpTypes ==
    ASSUME NEW type \in {"raw", "nes", "gb", "lynx"}, NEW f \in File
    PROVE  /\ Converted(type, f).rom \in File
           /\ Converted(type, f).header \in {Nothing, <<HeaderMark>>, <<UnifMark>>}
           /\ type = "raw" => Converted(type, f) = [rom |-> f, header |-> Nothing]
           /\ Converted(type, f).header = <<UnifMark>> =>
                 f # <<>> /\ f[1] = UnifMark /\ Converted(type, f).rom = Tail(f)
  <1> DEFINE rom == Converted(type, f).rom
             h == Converted(type, f).header
  <1>1. <<>> \in File /\ (f # <<>> => Tail(f) \in File)
    BY EmptySeq, HeadTailProperties DEF File
  <1>2. /\ Nothing # <<UnifMark>> /\ <<HeaderMark>> # <<UnifMark>>
        /\ \A x : <<x>> = <<UnifMark>> => x = UnifMark
    BY DEF HeaderMark, UnifMark, Nothing
  <1>3. CASE type = "raw"
    <2>1. Converted(type, f) = [rom |-> f, header |-> Nothing]
      BY <1>3 DEF Converted
    <2>2. rom = f /\ h = Nothing
      BY <2>1
    <2> QED
      BY <1>2, <2>1, <2>2
  <1>4. CASE type = "nes"
    <2>1. Converted(type, f) = NesRead(f)
      BY <1>4 DEF Converted
    <2>2. CASE Starts(f, HeaderMark) \/ Starts(f, UnifMark)
      <3>1. rom = Tail(f) /\ h = <<f[1]>>
        BY <2>1, <2>2 DEF NesRead
      <3>2. f # <<>> /\ (f[1] = HeaderMark \/ f[1] = UnifMark)
        BY <2>2 DEF Starts
      <3>3. h \in {<<HeaderMark>>, <<UnifMark>>} /\ (h = <<UnifMark>> => f[1] = UnifMark)
        BY <1>2, <3>1, <3>2, Zenon
      <3> HIDE DEF rom, h
      <3> QED
        BY <1>1, <1>4, <3>1, <3>2, <3>3 DEF rom, h
    <2>3. CASE ~(Starts(f, HeaderMark) \/ Starts(f, UnifMark))
      <3>1. rom = <<>> /\ h = Nothing
        BY <2>1, <2>3 DEF NesRead
      <3> QED
        BY <1>1, <1>2, <1>4, <3>1
    <2> QED
      BY <2>2, <2>3
  <1>5. CASE type = "gb"
    <2>1. rom = (IF Len(f) % 2 # 0 THEN Tail(f) ELSE f) /\ h = Nothing
      BY <1>5 DEF Converted, GbRead
    <2>2. Len(f) % 2 # 0 => f # <<>>
      BY EmptySeq DEF File
    <2> QED
      BY <1>1, <1>2, <1>5, <2>1, <2>2
  <1>6. CASE type = "lynx"
    <2>1. Starts(f, HeaderMark) => f # <<>>
      BY DEF Starts
    <2>2. /\ rom = (IF Starts(f, HeaderMark) THEN Tail(f) ELSE f)
          /\ h = (IF Starts(f, HeaderMark) THEN <<HeaderMark>> ELSE Nothing)
      BY <1>6 DEF Converted, LynxRead
    <2> QED
      BY <1>1, <1>2, <1>6, <2>1, <2>2
  <1> QED
    BY <1>3, <1>4, <1>5, <1>6

-----------------------------------------------------------------------------
(* The stream.                                                               *)

LEMMA StreamTypes ==
    ASSUME Types, Open
    PROVE  OnDisk \in File /\ Flushed \in File
  <1>1. OnDisk \in File
    BY DEF Types, Open, OnDisk
  <1>2. buffer.at \in Nat /\ buffer.bytes \in File
    BY DEF Types
  <1> QED
    BY <1>1, <1>2, PokeIsFile DEF Flushed

\* The file that is open is replaced by another.
LEMMA SetKeepsOpen ==
    ASSUME Types, Open, NEW f \in File, SetOpenFile(f)
    PROVE  /\ target' \in File /\ ninja' \in File \cup {Nothing}
           /\ target' # Nothing /\ (fo = "ninja" <=> ninja' # Nothing)
           /\ fo = "ninja" => target' = target /\ ninja' = f
           /\ fo = "target" => target' = f /\ ninja' = ninja
  <1>1. f # Nothing
    BY FileBytes
  <1>2. target \in File /\ ninja \in File \cup {Nothing}
    BY DEF Types, Open
  <1>3. fo = "ninja" \/ fo = "target"
    BY DEF Open
  <1> QED
    BY <1>1, <1>2, <1>3 DEF SetOpenFile, Open

\* A write reaches the file as it is, in however many parts.
LEMMA WriteReaches ==
    ASSUME Types, Open, NEW at \in Nat, NEW b \in File, SeekAndWrite(at, b)
    PROVE  /\ lost' \in BOOLEAN /\ (~lost' => ~lost /\ Flushed' = Poke(Flushed, at, b))
           /\ buffer'.at \in Nat /\ buffer'.bytes \in File /\ fo' = fo
           /\ target' \in File /\ ninja' \in File \cup {Nothing}
           /\ target' # Nothing /\ (fo = "ninja" <=> ninja' # Nothing)
           /\ fo = "ninja" => target' = target
           /\ fo = "target" => ninja' = ninja
  <1>1. PICK n \in 0..Len(b) :
          /\ SetOpenFile(Poke(Flushed, at, SubSeq(b, 1, n)))
          /\ \/ /\ buffer' = IF n = Len(b) THEN NoWrite
                            ELSE [at |-> at + n, bytes |-> SubSeq(b, n + 1, Len(b))]
                /\ lost' = lost
             \/ buffer' = NoWrite /\ lost' = TRUE
          /\ fo' = fo
    BY DEF SeekAndWrite
  <1>2. Flushed \in File
    BY StreamTypes
  <1>3. SubSeq(b, 1, n) \in File /\ SubSeq(b, n + 1, Len(b)) \in File
        /\ Poke(Poke(Flushed, at, SubSeq(b, 1, n)), at + n, SubSeq(b, n + 1, Len(b)))
             = Poke(Flushed, at, b)
    BY <1>2, PokeSplit
  <1> DEFINE g == Poke(Flushed, at, SubSeq(b, 1, n))
  <1>4. g \in File
    BY <1>2, <1>3, PokeIsFile
  <1>5. /\ target' \in File /\ ninja' \in File \cup {Nothing}
        /\ target' # Nothing /\ (fo = "ninja" <=> ninja' # Nothing)
        /\ fo = "ninja" => target' = target /\ ninja' = g
        /\ fo = "target" => target' = g /\ ninja' = ninja
    <2> HIDE DEF g
    <2>1. SetOpenFile(g)
      BY <1>1 DEF g
    <2> QED
      BY <1>4, <2>1, SetKeepsOpen
  <1>6. OnDisk' = g
    <2> HIDE DEF g
    <2> QED
      BY <1>1, <1>5 DEF OnDisk, Open
  <1>7. Len(b) \in Nat /\ n \in Nat /\ lost \in BOOLEAN
    BY FileBytes DEF Types
  <1>10. CASE lost' = TRUE /\ buffer' = NoWrite
    <2>1. buffer'.at \in Nat /\ buffer'.bytes \in File
      BY <1>10, EmptySeq DEF NoWrite, File
    <2> HIDE DEF g
    <2> QED
      BY <1>1, <1>5, <1>10, <2>1
  <1>8. CASE lost' = lost /\ n = Len(b) /\ buffer' = NoWrite
    <2>1. buffer' = NoWrite
      BY <1>8
    <2>2. SubSeq(b, 1, n) = b
      BY <1>8, SubSeqFull DEF File
    <2>3. Flushed' = Poke(g, 0, <<>>)
      BY <1>6, <2>1 DEF Flushed, NoWrite
    <2>4. Poke(g, 0, <<>>) = g
      <3> HIDE DEF g
      <3> QED
        BY <1>4, PokeNothing
    <2>5. buffer'.at \in Nat /\ buffer'.bytes \in File
      BY <2>1, EmptySeq DEF NoWrite, File
    <2>6. g = Poke(Flushed, at, b)
      BY <2>2
    <2> HIDE DEF g
    <2> QED
      BY <1>1, <1>5, <1>7, <1>8, <2>3, <2>4, <2>5, <2>6
  <1>9. CASE /\ lost' = lost /\ n # Len(b)
             /\ buffer' = [at |-> at + n, bytes |-> SubSeq(b, n + 1, Len(b))]
    <2>1. buffer' = [at |-> at + n, bytes |-> SubSeq(b, n + 1, Len(b))] /\ at + n \in Nat
      BY <1>1, <1>7, <1>9
    <2>2. Flushed' = Poke(g, at + n, SubSeq(b, n + 1, Len(b)))
      BY <1>6, <2>1 DEF Flushed
    <2>3. buffer'.at \in Nat /\ buffer'.bytes \in File
      BY <1>3, <2>1
    <2>4. Flushed' = Poke(Flushed, at, b)
      BY <1>3, <2>2
    <2> HIDE DEF g
    <2> QED
      BY <1>1, <1>5, <1>7, <1>9, <2>3, <2>4
  <1> QED
    BY <1>1, <1>8, <1>9, <1>10

-----------------------------------------------------------------------------
(* From the call to the verdict.                                             *)

\* A call that has not returned has no result to be judged by.
LEMMA Midway ==
    ASSUME Types', pc' # "returned"
    PROVE  PatchedExactly' /\ VerdictExact' /\ applied' = Applying
  <1>1. applied' = Applying
    BY DEF Types
  <1> QED
    BY <1>1 DEF PatchedExactly, VerdictExact, Applying

LEMMA SameCall ==
    ASSUME UNCHANGED <<patch, input>>
    PROVE  /\ Dump' = Dump
           /\ IsRupPatch(patch)' <=> IsRupPatch(patch)
           /\ IsDifference(patch)' <=> IsDifference(patch)
  <1>1. Dump' = Dump
    BY DEF Dump
  <1>2. IsRupPatch(patch)' <=> IsRupPatch(patch)
    BY Zenon DEF IsRupPatch
  <1>3. IsDifference(patch)' <=> IsDifference(patch)
    OBVIOUS
  <1> QED
    BY <1>1, <1>2, <1>3

LEMMA Start == Init => Inv
  <1> SUFFICES ASSUME Init PROVE Inv
    OBVIOUS
  <1>1. <<>> \in File /\ Len(<<>>) = 0 /\ <<>> \in Seq(Commands)
    BY EmptySeq DEF File
  <1>2. IsRupPatch(patch) /\ buffer.at \in Nat /\ buffer.bytes \in File
    BY <1>1 DEF Init, NoPatch, NoWrite, IsRupPatch
  <1>3. Types
    <2>1. /\ pc = "idle" /\ input = <<>> /\ target = Nothing /\ ninja = Nothing /\ fo = "none"
          /\ overflow = Nothing /\ revert = FALSE /\ next = 1 /\ applied = Applying
          /\ lost = FALSE
      BY DEF Init
    <2>2. input \in File /\ target \in File \cup {Nothing} /\ ninja \in File \cup {Nothing}
          /\ overflow \in File \cup {Nothing}
      BY <1>1, <2>1
    <2>3. pc \in {"idle", "returned"} \cup Before \cup Patching \cup Finishing /\ pc # "returned"
          /\ fo \in {"none", "target", "ninja"} /\ next \in Nat \ {0}
      BY <2>1
    <2>4. revert \in BOOLEAN /\ lost \in BOOLEAN
      BY <2>1, Zenon
    <2> QED
      BY <1>2, <2>1, <2>2, <2>3, <2>4 DEF Types
  <1> QED
    BY <1>3 DEF Init, Inv, Beginning, ConvertedThen, Progress, Ending, Before, Patching, Finishing,
       PatchedExactly, ReplacementComplete, VerdictExact, Applying

LEMMA CopyAndApplyKeepsInv ==
    ASSUME Inv, NEW p, NEW f \in File, IsRupPatch(p), CopyAndApply(p, f)
    PROVE  Inv'
  <1>1. /\ Types /\ Beginning /\ pc = "idle" /\ patch' = p /\ input' = f
        /\ clean' = (ninja = Nothing)
        /\ UNCHANGED <<ninja, fo, buffer, header, overflow, revert, next, lost>>
        /\ applied = Applying
    BY DEF Inv, Types, CopyAndApply, stream, locals
  <1>2. \/ target' = f /\ pc' = "magic" /\ applied' = applied
        \/ target' = target /\ pc' = "returned" /\ applied' = "not_copied"
    BY DEF CopyAndApply, Return
  <1>3. IsRupPatch(patch)'
    <2>1. IsRupPatch(patch)' <=> IsRupPatch(p)
      BY <1>1, Zenon DEF IsRupPatch
    <2> QED
      BY <2>1
  <1>4. Types'
    BY <1>1, <1>2, <1>3 DEF Types, Before, Results
  <1>5. Beginning'
    BY <1>1, <1>2 DEF Beginning, Before
  <1>6. ConvertedThen' /\ Progress' /\ Ending' /\ ReplacementComplete' /\ pc' \notin Patching
    BY <1>1, <1>2
       DEF ConvertedThen, Progress, Ending, ReplacementComplete, Patching, Finishing, Applying
  <1>7. PatchedExactly' /\ VerdictExact'
    BY <1>1, <1>2 DEF PatchedExactly, VerdictExact, Applying
  <1> QED
    BY <1>4, <1>5, <1>6, <1>7 DEF Inv

LEMMA ApplyInPlaceKeepsInv ==
    ASSUME Inv, NEW p, IsRupPatch(p), ApplyInPlace(p)
    PROVE  Inv'
  <1>1. /\ Types /\ Beginning /\ pc = "idle" /\ patch' = p /\ input' = target /\ pc' = "magic"
        /\ clean' = (ninja = Nothing) /\ target # Nothing
        /\ UNCHANGED <<target, ninja, fo, buffer, header, overflow, revert, next, applied, lost>>
        /\ applied = Applying
    BY DEF Inv, Types, ApplyInPlace, stream, locals, files
  <1>2. IsRupPatch(patch)'
    <2>1. IsRupPatch(patch)' <=> IsRupPatch(p)
      BY <1>1, Zenon DEF IsRupPatch
    <2> QED
      BY <2>1
  <1>3. Types'
    BY <1>1, <1>2 DEF Types, Before
  <1>4. Beginning'
    BY <1>1 DEF Beginning, Before
  <1>5. ConvertedThen' /\ Progress' /\ Ending' /\ ReplacementComplete' /\ pc' \notin Patching
    BY <1>1
       DEF ConvertedThen, Progress, Ending, ReplacementComplete, Patching, Finishing, Applying
  <1>6. pc' # "returned"
    BY <1>1
  <1> QED
    BY <1>3, <1>4, <1>5, <1>6, Midway DEF Inv

LEMMA MagicKeepsInv ==
    ASSUME Inv, Magic
    PROVE  Inv'
  <1>1. /\ Types /\ Beginning /\ pc = "magic" /\ applied = Applying /\ target = input
        /\ UNCHANGED <<patch, input, clean, target, ninja, fo, buffer, header, overflow, revert,
                       next, lost>>
    BY DEF Inv, Types, Beginning, Before, Magic, call, files, stream, locals
  <1>2. \/ pc' = "convert" /\ applied' = applied
        \/ pc' = "returned" /\ applied' = "wrong_format"
    BY DEF Magic, Return
  <1>3. Types'
    BY <1>1, <1>2, SameCall DEF Types, Before, Results
  <1>4. Beginning'
    BY <1>1, <1>2 DEF Beginning, Before
  <1>5. ConvertedThen' /\ Progress' /\ Ending' /\ ReplacementComplete' /\ pc' \notin Patching
    BY <1>1, <1>2
       DEF ConvertedThen, Progress, Ending, ReplacementComplete, Patching, Finishing, Applying
  <1>6. PatchedExactly' /\ VerdictExact'
    BY <1>1, <1>2 DEF PatchedExactly, VerdictExact, Applying
  <1> QED
    BY <1>3, <1>4, <1>5, <1>6 DEF Inv

LEMMA ConvertKeepsInv ==
    ASSUME Inv, Convert
    PROVE  Inv'
  <1>1. /\ Types /\ Beginning /\ pc = "convert" /\ applied = Applying /\ target = input
        /\ header = Nothing /\ (clean => ninja = Nothing) /\ pc' = "verify" /\ lost = FALSE
        /\ UNCHANGED <<patch, input, clean, target, fo, buffer, overflow, revert, next, applied>>
    BY DEF Inv, Types, Beginning, Before, Convert, call, files, stream
  <1>2. Dump' = Dump /\ Dump.rom \in File /\ (patch.type = "raw" => Dump.header = Nothing)
    <2>1. patch.type \in {"raw", "nes", "gb", "lynx"} /\ input \in File
      BY <1>1 DEF Types, IsRupPatch
    <2> QED
      BY <1>1, <2>1, SameCall, DumpTypes DEF Dump
  <1>3. IF patch.type = "raw" THEN ninja' = ninja /\ header' = header /\ lost' = lost
        ELSE /\ ninja' \in File /\ header' = Dump.header /\ lost' \in BOOLEAN
             /\ ~lost' => ninja' = Dump.rom
    <2>1. CASE patch.type = "raw"
      BY <1>1, <2>1 DEF Convert
    <2>2. CASE patch.type # "raw"
      <3>1. /\ header' = Dump.header
            /\ \/ ninja' = Dump.rom /\ lost' = lost
               \/ (\E n \in 0..Len(Dump.rom) : ninja' = SubSeq(Dump.rom, 1, n)) /\ lost' = TRUE
        BY <1>1, <2>2 DEF Convert, Dump
      <3>2. \A n \in 0..Len(Dump.rom) : SubSeq(Dump.rom, 1, n) \in File
        BY <1>2, PokeSplit
      <3> QED
        BY <1>1, <1>2, <2>2, <3>1, <3>2
    <2> QED
      BY <2>1, <2>2
  <1>4. Types'
    BY <1>1, <1>2, <1>3, SameCall DEF Types, Before
  <1>5. Beginning'
    BY <1>1 DEF Beginning, Before
  <1>6. ConvertedThen'
    <2>1. patch.type # "raw" => ninja' # Nothing
      BY <1>3, FileBytes
    <2> QED
      BY <1>1, <1>2, <1>3, <2>1 DEF ConvertedThen, Patching, Finishing, Applying
  <1>7. Progress' /\ Ending' /\ ReplacementComplete' /\ pc' \notin Patching /\ pc' # "returned"
    BY <1>1 DEF Progress, Ending, ReplacementComplete, Patching
  <1> QED
    BY <1>4, <1>5, <1>6, <1>7, Midway DEF Inv

\* Without an earlier call's ninja.src the sum is that of the dump; in any case it is
\* that of what the stream is opened on.
LEMMA VerifyKeepsInv ==
    ASSUME Inv, Verify
    PROVE  Inv'
  <1>1. /\ Types /\ Beginning /\ ConvertedThen /\ pc = "verify" /\ applied = Applying
        /\ target = input /\ input \in File /\ buffer = NoWrite /\ overflow = Nothing /\ next = 1
        /\ UNCHANGED <<patch, input, clean, target, ninja, buffer, header, overflow, next, lost>>
    BY DEF Inv, Types, Beginning, Before, Verify, call, files
  <1>2. /\ header = Dump.header
        /\ patch.type # "raw" => ninja # Nothing
        /\ patch.type # "raw" /\ ~lost => ninja = Dump.rom
        /\ patch.type = "raw" /\ clean => ninja = Nothing
        /\ Dump' = Dump /\ Dump.rom \in File
        /\ patch.type = "raw" => Dump.rom = input /\ Dump.header = Nothing
    <2>1. patch.type \in {"raw", "nes", "gb", "lynx"} /\ input \in File
      BY <1>1 DEF Types, IsRupPatch
    <2>2. /\ Dump.rom \in File
          /\ patch.type = "raw" => Dump = [rom |-> input, header |-> Nothing]
      BY <2>1, DumpTypes DEF Dump
    <2>3. patch.type = "raw" => Dump.rom = input /\ Dump.header = Nothing
      BY <2>2
    <2>4. Dump' = Dump
      BY <1>1, SameCall
    <2> QED
      BY <1>1, <2>2, <2>3, <2>4 DEF ConvertedThen
  <1>3. clean /\ ~lost => Summed = Dump.rom
    <2>1. Dump.rom # Nothing
      BY <1>2, FileBytes
    <2> QED
      BY <1>1, <1>2, <2>1 DEF Summed
  <1>4. CASE Summed \in {patch.smd5, patch.mmd5}
    <2>1. /\ revert' = (Summed # patch.smd5) /\ pc' = "command" /\ applied' = applied
          /\ fo' = IF ninja # Nothing THEN "ninja" ELSE "target"
      BY <1>4 DEF Verify
    <2>2. From' = Summed
      BY <1>1, <1>4, <2>1 DEF From
    <2>3. Types'
      BY <1>1, <2>1, SameCall DEF Types, Patching
    <2>4. Beginning' /\ Ending' /\ ReplacementComplete' /\ pc' # "returned"
      BY <2>1 DEF Beginning, Before, Ending, ReplacementComplete, Finishing
    <2>5. ConvertedThen'
      BY <1>1, <1>2, <1>3, <1>4, <2>1 DEF ConvertedThen
    <2>6. target # Nothing
      BY <1>1, FileBytes
    <2>7. Open'
      <3>1. patch.type # "raw" => ninja # Nothing
        BY <1>2
      <3>2. patch.type # "raw" /\ ~lost => Summed = Dump.rom
        BY <1>2, <3>1 DEF Summed
      <3> QED
        BY <1>1, <1>2, <2>1, <2>2, <2>6, <3>1, <3>2 DEF Open
    <2>8. Flushed' = From' /\ From' \in File
      <3>1. OnDisk' = Summed
        BY <1>1, <2>1 DEF OnDisk, Summed
      <3>2. buffer'.at = 0 /\ buffer'.bytes = <<>>
        BY <1>1 DEF NoWrite
      <3>3. Summed \in File
        BY <1>1, <1>4 DEF Types, IsRupPatch
      <3>4. Flushed' = Poke(Summed, 0, <<>>)
        BY <3>1, <3>2 DEF Flushed
      <3> QED
        BY <2>2, <3>3, <3>4, PokeNothing
    <2>9. Progress'
      <3>1. Len(patch'.commands) \in Nat
        BY <2>3, LenProperties DEF Types, IsRupPatch
      <3>2. 1..(next' - 1) = {}
        BY <1>1
      <3>3. Patched'
        BY <2>8, <3>2 DEF Patched, Through
      <3>4. OverflowSeen'
        BY <1>1, <3>2 DEF OverflowSeen
      <3> QED
        BY <1>1, <2>1, <3>1, <3>3, <3>4 DEF Progress
    <2> QED
      BY <2>3, <2>4, <2>5, <2>7, <2>9, Midway DEF Inv
  <1>5. CASE Summed \notin {patch.smd5, patch.mmd5}
    <2>1. /\ revert' = revert /\ fo' = fo /\ pc' = "returned" /\ applied' = "md5_mismatch"
      BY <1>5 DEF Verify, Return
    <2>2. Types'
      BY <1>1, <2>1, SameCall DEF Types, Results
    <2>3. /\ Beginning' /\ Ending' /\ ReplacementComplete' /\ Progress' /\ ConvertedThen'
          /\ pc' \notin Patching
      BY <2>1 DEF Beginning, Before, Ending, ReplacementComplete, Progress, ConvertedThen, Patching,
                  Finishing
    <2>4. PatchedExactly'
      BY <2>1 DEF PatchedExactly
    <2>5. VerdictExact'
      BY <1>1, <1>2, <1>3, <1>5, <2>1 DEF VerdictExact, Dump
    <2> QED
      BY <2>2, <2>3, <2>4, <2>5 DEF Inv
  <1> QED
    BY <1>4, <1>5

-----------------------------------------------------------------------------
(* The commands.                                                             *)

LEMMA CommandTypes ==
    ASSUME Types, next <= Len(patch.commands)
    PROVE  /\ next \in 1..Len(patch.commands) /\ Len(patch.commands) \in Nat
           /\ Command.offset \in Nat /\ Command.bytes \in File
  <1>1. patch.commands \in Seq(Commands) /\ next \in Nat \ {0}
    BY DEF Types, IsRupPatch
  <1>2. Len(patch.commands) \in Nat /\ next \in 1..Len(patch.commands)
    BY <1>1, LenProperties
  <1>3. patch.commands[next] \in Commands
    BY <1>1, <1>2, ElementOfSeq
  <1> QED
    BY <1>2, <1>3 DEF Command, Commands

LEMMA PatchTypes ==
    ASSUME Types
    PROVE  /\ patch.smd5 \in File /\ patch.mmd5 \in File
           /\ patch.ssize = Len(patch.smd5) /\ patch.msize = Len(patch.mmd5)
           /\ patch.ssize \in Nat /\ patch.msize \in Nat
           /\ From \in File /\ Wanted \in File
  <1>1. /\ patch.smd5 \in File /\ patch.mmd5 \in File
        /\ patch.ssize = Len(patch.smd5) /\ patch.msize = Len(patch.mmd5)
    BY DEF Types, IsRupPatch
  <1> QED
    BY <1>1, FileBytes DEF From, Wanted

\* What is written for a record, of a file that may end in the middle of it.
LEMMA XorBytesTypes ==
    ASSUME NEW c, c.offset \in Nat, c.bytes \in File, NEW f \in File,
           NEW heap \in [Beyond(c, f) -> Byte]
    PROVE  /\ XorBytes(c, f, heap) \in File /\ Len(XorBytes(c, f, heap)) = Len(c.bytes)
           /\ \A k \in 1..Len(c.bytes) :
                 c.offset + k <= Len(f) =>
                   XorBytes(c, f, heap)[k] = Xor(c.bytes[k], f[c.offset + k])
  <1>1. PICK n \in Nat, m \in Nat, o \in Nat : n = Len(c.bytes) /\ m = Len(f) /\ o = c.offset
    BY FileBytes
  <1>2. (\A k \in 1..n : c.bytes[k] \in Byte) /\ \A k \in 1..m : f[k] \in Byte
    BY <1>1, FileBytes
  <1>3. ASSUME NEW k \in 1..n
        PROVE  /\ (IF k \in Beyond(c, f) THEN heap[k] ELSE f[c.offset + k]) \in Byte
               /\ o + k <= m => k \notin Beyond(c, f)
    <2>1. k \in Beyond(c, f) <=> o + k > m
      BY <1>1 DEF Beyond
    <2>2. CASE o + k > m
      BY <1>1, <2>1, <2>2
    <2>3. CASE ~(o + k > m)
      <3>1. o + k \in 1..m
        BY <1>1, <2>3
      <3> QED
        BY <1>1, <1>2, <2>1, <2>3, <3>1
    <2> QED
      BY <2>2, <2>3
  <1>4. XorBytes(c, f, heap) \in [1..n -> Byte]
    <2> SUFFICES ASSUME NEW k \in 1..n
                 PROVE  Xor(c.bytes[k], IF k \in Beyond(c, f) THEN heap[k]
                                        ELSE f[c.offset + k]) \in Byte
      BY <1>1 DEF XorBytes
    <2> QED
      BY <1>2, <1>3, XorTwice
  <1>5. \A k \in 1..n : c.offset + k <= Len(f) =>
                          XorBytes(c, f, heap)[k] = Xor(c.bytes[k], f[c.offset + k])
    BY <1>1, <1>3 DEF XorBytes
  <1> QED
    BY <1>1, <1>4, <1>5, SeqOfFunction

\* Overflow bytes are kept with their bits inverted.
LEMMA Inverted ==
    ASSUME NEW b \in File
    PROVE  /\ [k \in 1..Len(b) |-> Xor(b[k], 3)] \in File
           /\ Len([k \in 1..Len(b) |-> Xor(b[k], 3)]) = Len(b)
  <1>1. PICK n \in Nat : n = Len(b) /\ \A k \in 1..n : b[k] \in Byte
    BY FileBytes
  <1>2. [k \in 1..n |-> Xor(b[k], 3)] \in [1..n -> Byte]
    BY <1>1, XorTwice DEF Byte
  <1> QED
    BY <1>1, <1>2, SeqOfFunction

\* The parts of the invariant that only a step of the patch's commands can disturb.
LEMMA StillOpen ==
    ASSUME Inv, pc \in Patching, pc' \in Patching,
           UNCHANGED <<patch, input, clean, header, revert, fo>>,
           Types', target' # Nothing, fo = "ninja" <=> ninja' # Nothing,
           fo = "ninja" => target' = target, Progress', ~lost' => ~lost
    PROVE  Inv'
  <1>1. Open /\ ConvertedThen
    BY DEF Inv
  <1>2. From' = From /\ Dump' = Dump
    BY SameCall DEF From
  <1>3. Open'
    BY <1>1, <1>2 DEF Open
  <1>4. ConvertedThen'
    BY <1>1, <1>2 DEF ConvertedThen, Patching, Finishing
  <1>5. Beginning' /\ Ending' /\ ReplacementComplete' /\ pc' # "returned"
    BY DEF Beginning, Before, Patching, Ending, ReplacementComplete, Finishing
  <1> QED
    BY <1>3, <1>4, <1>5, Midway DEF Inv

LEMMA ReadOverflowKeepsInv ==
    ASSUME Inv, ReadOverflow
    PROVE  Inv'
  <1>1. /\ pc = "command" /\ pc' = pc /\ Types /\ Open /\ Progress
        /\ next <= Len(patch.commands) /\ Command.code = "M" /\ next' = next + 1
        /\ overflow' = [k \in 1..Len(Command.bytes) |-> Xor(Command.bytes[k], 3)]
        /\ UNCHANGED <<patch, input, clean, target, ninja, fo, buffer, header, revert, applied,
                       lost>>
    BY DEF ReadOverflow, MoreCommands, Inv, Patching, call, files, stream
  <1>2. /\ next \in 1..Len(patch.commands) /\ Len(patch.commands) \in Nat
        /\ Command.offset \in Nat /\ Command.bytes \in File
    BY <1>1, CommandTypes
  <1>3. overflow' \in File
    BY <1>1, <1>2, Inverted
  <1>4. Types'
    BY <1>1, <1>2, <1>3, SameCall DEF Types
  <1>5. Flushed' = Flushed /\ From' = From /\ Wanted' = Wanted
    BY <1>1 DEF Flushed, OnDisk, From, Wanted
  <1>6. \A c : c \in 1..(next' - 1) <=> c \in 1..(next - 1) \/ c = next
    BY <1>1, <1>2
  <1>7. ASSUME IsDifference(patch), ~lost PROVE Patched' /\ OverflowSeen'
    <2>1. Patched /\ OverflowSeen
      BY <1>1, <1>7 DEF Progress
    <2>2. ASSUME NEW k PROVE Through(k)' <=> Through(k)
      <3>1. ~InRecord(patch.commands[next], k)
        BY <1>1 DEF InRecord, Command
      <3>2. Through(k)' <=> \E c \in 1..(next' - 1) : InRecord(patch.commands[c], k)
        BY <1>1, Zenon DEF Through, InRecord
      <3> QED
        BY <1>6, <3>1, <3>2, Zenon DEF Through
    <2>3. Patched'
      <3>1. ASSUME NEW k \in 1..Len(From)
            PROVE  Flushed'[k] = IF Through(k)' THEN Wanted'[k] ELSE From'[k]
        BY <1>5, <2>1, <2>2 DEF Patched
      <3> QED
        BY <1>5, <2>1, <3>1 DEF Patched
    <2>4. /\ patch.ssize # patch.msize
          /\ Command.bytes = [k \in 1..(Len(Longer(patch)) - Common(patch)) |->
                                 Xor(Longer(patch)[Common(patch) + k], 3)]
      BY <1>1, <1>2, <1>7 DEF IsDifference, Command
    <2>5. PICK l \in Nat, n \in Nat :
            /\ l = Len(Longer(patch)) /\ n = Common(patch) /\ n <= l
            /\ \A k \in 1..l : Longer(patch)[k] \in Byte
      BY <1>1, PatchTypes, FileBytes, SMTT(40) DEF Longer, Common
    <2>6. overflow' = OverflowOf(patch)
      <3> DEFINE tail == [k \in 1..(l - n) |-> Xor(Longer(patch)[n + k], 3)]
      <3>1. l - n \in Nat
        BY <2>5
      <3>2. ASSUME NEW k \in 1..(l - n)
            PROVE  /\ Longer(patch)[n + k] \in Byte
                   /\ Xor(Xor(Longer(patch)[n + k], 3), 3) = Longer(patch)[n + k]
        <4>1. n + k \in 1..l
          BY <2>5
        <4>2. 3 \in Byte
          BY DEF Byte
        <4> QED
          BY <2>5, <4>1, <4>2, XorTwice
      <3>3. tail \in [1..(l - n) -> Byte]
        BY <3>2, XorTwice DEF Byte
      <3>4. Len(tail) = l - n
        <4> HIDE DEF tail
        <4> QED
          BY <3>1, <3>3, SeqOfFunction
      <3>5. Command.bytes = tail
        BY <2>4, <2>5
      <3>6. overflow' = [k \in 1..(l - n) |-> Xor(tail[k], 3)]
        BY <1>1, <3>4, <3>5
      <3>7. overflow' = [k \in 1..(l - n) |-> Longer(patch)[n + k]]
        BY <3>2, <3>6
      <3> QED
        BY <2>5, <3>7 DEF OverflowOf
    <2>7. overflow' # Nothing
      BY <1>3, FileBytes
    <2>8. OverflowOf(patch)' = OverflowOf(patch)
      BY <1>1 DEF OverflowOf, Longer, Common
    <2>9. OverflowSeen'
      BY <1>1, <2>4, <2>6, <2>7, <2>8 DEF OverflowSeen
    <2> QED
      BY <2>3, <2>9
  <1>8. Progress'
    BY <1>1, <1>2, <1>7, SameCall DEF Progress
  <1>9. pc \in Patching /\ pc' \in Patching
    BY <1>1 DEF Patching
  <1> QED
    BY <1>1, <1>4, <1>8, <1>9, StillOpen DEF Open

\* A record makes its bytes what the patch wants them to be, once.
LEMMA XorPatchKeepsInv ==
    ASSUME Inv, XorPatch
    PROVE  Inv'
  <1>1. /\ pc = "command" /\ pc' = pc /\ Types /\ Open /\ Progress
        /\ next <= Len(patch.commands) /\ Command.code = "2" /\ next' = next + 1
        /\ UNCHANGED <<patch, input, clean, header, overflow, revert, applied>>
    BY DEF XorPatch, MoreCommands, Inv, Patching, call
  <1>2. /\ next \in 1..Len(patch.commands) /\ Len(patch.commands) \in Nat
        /\ Command.offset \in Nat /\ Command.bytes \in File
    BY <1>1, CommandTypes
  <1>3. PICK heap \in [Beyond(Command, Flushed) -> Byte] :
          SeekAndWrite(Command.offset, XorBytes(Command, Flushed, heap))
    BY DEF XorPatch
  <1> DEFINE x == XorBytes(Command, Flushed, heap)
  <1>4. Flushed \in File
    BY <1>1, StreamTypes
  <1>5. /\ x \in File /\ Len(x) = Len(Command.bytes)
        /\ \A k \in 1..Len(Command.bytes) :
              Command.offset + k <= Len(Flushed) =>
                x[k] = Xor(Command.bytes[k], Flushed[Command.offset + k])
    BY <1>2, <1>4, XorBytesTypes
  <1> HIDE DEF x
  <1>6. /\ lost' \in BOOLEAN
        /\ ~lost' => ~lost /\ Flushed' = Poke(Flushed, Command.offset, x)
        /\ buffer'.at \in Nat /\ buffer'.bytes \in File /\ fo' = fo
        /\ target' \in File /\ ninja' \in File \cup {Nothing}
        /\ target' # Nothing /\ (fo = "ninja" <=> ninja' # Nothing)
        /\ fo = "ninja" => target' = target
    <2>1. SeekAndWrite(Command.offset, x)
      BY <1>3 DEF x
    <2> QED
      BY <1>1, <1>2, <1>5, <2>1, WriteReaches
  <1>7. Types'
    BY <1>1, <1>2, <1>6, SameCall DEF Types
  <1>8. From' = From /\ Wanted' = Wanted
    BY <1>1 DEF From, Wanted
  <1>9. \A c : c \in 1..(next' - 1) <=> c \in 1..(next - 1) \/ c = next
    BY <1>1, <1>2
  <1>10. ASSUME IsDifference(patch), ~lost' PROVE Patched' /\ OverflowSeen'
    <2>1. Patched /\ OverflowSeen
      BY <1>1, <1>6, <1>10 DEF Progress
    <2>2. PICK o \in Nat, n \in Nat, m \in Nat, s \in Nat :
            /\ o = Command.offset /\ n = Len(Command.bytes) /\ m = Len(From) /\ m = Len(Flushed)
            /\ s = Common(patch) /\ o + n <= s /\ s <= m
            /\ s <= Len(patch.smd5) /\ s <= Len(patch.mmd5)
      <3>1. Command.offset + Len(Command.bytes) <= Common(patch)
        BY <1>1, <1>2, <1>10 DEF IsDifference, Command
      <3>2. Len(Command.bytes) \in Nat /\ Len(From) \in Nat /\ Len(From) = Len(Flushed)
        BY <1>1, <1>2, <2>1, PatchTypes, FileBytes DEF Patched
      <3>3. /\ Common(patch) \in Nat /\ Common(patch) <= Len(From)
            /\ Common(patch) <= Len(patch.smd5) /\ Common(patch) <= Len(patch.mmd5)
        BY <1>1, PatchTypes DEF Common, From
      <3> QED
        BY <1>2, <3>1, <3>2, <3>3
    <2>3. \A k \in 1..n : Command.bytes[k] = Xor(patch.smd5[o + k], patch.mmd5[o + k])
      BY <1>1, <1>2, <1>10, <2>2 DEF IsDifference, Command
    <2>4. ASSUME NEW k PROVE InRecord(Command, k) <=> o < k /\ k <= o + n
      BY <1>1, <2>2 DEF InRecord
    <2>5. ASSUME NEW k PROVE Through(k)' <=> Through(k) \/ InRecord(Command, k)
      <3>1. Through(k)' <=> \E c \in 1..(next' - 1) : InRecord(patch.commands[c], k)
        BY <1>1, Zenon DEF Through, InRecord
      <3> QED
        BY <1>9, <3>1, Zenon DEF Through, Command
    <2>6. /\ Len(Flushed') = m
          /\ \A k \in 1..m : Flushed'[k] = IF k > o /\ k <= o + n THEN x[k - o] ELSE Flushed[k]
      <3>1. Flushed' = Poke(Flushed, o, x) /\ Len(x) = n
        BY <1>5, <1>6, <1>10, <2>2
      <3>2. /\ Len(Poke(Flushed, o, x)) = IF n > 0 /\ o + n > m THEN o + n ELSE m
            /\ \A k \in 1..Len(Poke(Flushed, o, x)) :
                  Poke(Flushed, o, x)[k] = IF k > o /\ k <= o + n THEN x[k - o]
                                           ELSE IF k <= m THEN Flushed[k] ELSE 0
        <4>1. /\ Flushed \in File /\ o \in Nat /\ x \in File /\ m \in Nat /\ n \in Nat
              /\ m = Len(Flushed) /\ n = Len(x)
          BY <1>4, <1>5, <2>2, <3>1
        <4> QED
          BY <4>1, PokeBytes, SMTT(30)
      <3>3. Len(Poke(Flushed, o, x)) = m
        BY <2>2, <3>2
      <3> QED
        BY <3>1, <3>2, <3>3
    <2>7. ASSUME NEW k \in 1..m
          PROVE  Flushed'[k] = IF Through(k)' THEN Wanted[k] ELSE From[k]
      <3>1. CASE InRecord(Command, k)
        <4>1. k > o /\ k <= o + n
          BY <2>4, <3>1
        <4>2. PICK j \in 1..n : j = k - o /\ o + j = k /\ k \in 1..s /\ k \in 1..m
          <5>1. k \in Nat /\ o \in Nat /\ n \in Nat /\ s \in Nat /\ o + n <= s
            BY <2>2
          <5>2. k - o \in 1..n /\ o + (k - o) = k /\ k \in 1..s
            BY <4>1, <5>1
          <5> QED
            BY <5>2
        <4>3. ~Through(k)
          <5> SUFFICES ASSUME NEW d \in 1..(next - 1), InRecord(patch.commands[d], k)
                       PROVE  FALSE
            BY DEF Through
          <5>1. d \in 1..Len(patch.commands) /\ d # next
            BY <1>2
          <5>2. InRecord(patch.commands[next], k)
            BY <3>1 DEF Command
          <5>3. k \in 1..Common(patch)
            BY <2>2, <4>2
          <5> QED
            BY <1>2, <1>10, <5>1, <5>2, <5>3 DEF IsDifference
        <4>4. Flushed[k] = From[k]
          BY <2>1, <2>2, <4>3 DEF Patched
        <4>5. x[j] = Xor(Command.bytes[j], Flushed[o + j])
          <5>1. Command.offset + j <= Len(Flushed) /\ j \in 1..Len(Command.bytes)
            BY <2>2, <4>2
          <5> QED
            BY <1>5, <2>2, <5>1
        <4>6. x[k - o] = Xor(Xor(patch.smd5[k], patch.mmd5[k]), From[k])
          BY <2>3, <4>2, <4>4, <4>5
        <4>7. patch.smd5[k] \in Byte /\ patch.mmd5[k] \in Byte
          <5>1. k \in 1..Len(patch.smd5) /\ k \in 1..Len(patch.mmd5)
            <6>1. PICK a \in Nat, b \in Nat :
                    a = Len(patch.smd5) /\ b = Len(patch.mmd5) /\ s <= a /\ s <= b
              BY <1>1, <2>2, PatchTypes
            <6>2. k \in 1..a /\ k \in 1..b
              BY <4>2, <6>1
            <6> QED
              BY <6>1, <6>2
          <5> QED
            BY <1>1, <5>1, PatchTypes, FileBytes
        <4>8. x[k - o] = Wanted[k]
          BY <4>6, <4>7, XorTwice DEF From, Wanted
        <4> QED
          BY <2>5, <2>6, <3>1, <4>1, <4>8
      <3>2. CASE ~InRecord(Command, k)
        <4>1. Flushed'[k] = Flushed[k]
          BY <2>4, <2>6, <3>2
        <4> QED
          BY <2>1, <2>2, <2>5, <3>2, <4>1 DEF Patched
      <3> QED
        BY <3>1, <3>2
    <2>8. Patched'
      <3>1. Len(From') = m
        BY <1>8, <2>2
      <3> QED
        BY <1>8, <2>6, <2>7, <3>1 DEF Patched
    <2>9. OverflowSeen'
      <3>1. OverflowOf(patch)' = OverflowOf(patch)
        BY <1>1 DEF OverflowOf, Longer, Common
      <3>2. ASSUME NEW c \in 1..(next' - 1), patch.commands[c].code = "M"
            PROVE  c \in 1..(next - 1)
        BY <1>1, <1>9, <3>2 DEF Command
      <3> QED
        BY <1>1, <2>1, <3>1, <3>2 DEF OverflowSeen
    <2> QED
      BY <2>8, <2>9
  <1>11. Progress'
    BY <1>1, <1>2, <1>10, SameCall DEF Progress
  <1>12. pc \in Patching /\ pc' \in Patching
    BY <1>1 DEF Patching
  <1> QED
    BY <1>1, <1>6, <1>7, <1>11, <1>12, StillOpen

-----------------------------------------------------------------------------
(* The end of the patch.                                                     *)

\* Where every record is through, the front is what the patch wants.
LEMMA FrontDone ==
    ASSUME Inv, pc = "command", PatchEnds, ~lost, IsDifference(patch)
    PROVE  /\ \A k \in 1..Common(patch) : Flushed[k] = Wanted[k]
           /\ overflow = Nothing => patch.ssize = patch.msize
  <1>1. Types /\ Patched /\ OverflowSeen /\ next - 1 <= Len(patch.commands)
    BY DEF Inv, Progress
  <1>2. Len(patch.commands) \in Nat /\ next \in Nat \ {0}
    BY <1>1, LenProperties DEF Types, IsRupPatch
  <1>3. 1..(next - 1) = 1..Len(patch.commands)
    <2>1. next - 1 = Len(patch.commands)
      BY <1>1, <1>2 DEF PatchEnds
    <2> QED
      BY <2>1
  <1>4. ASSUME NEW k \in 1..Common(patch) PROVE Flushed[k] = Wanted[k]
    <2>1. k \in 1..Len(From)
      <3>1. PICK a \in Nat, b \in Nat : a = patch.ssize /\ b = patch.msize
        BY <1>1, PatchTypes
      <3>2. Len(From) \in {a, b}
        BY <1>1, <3>1, PatchTypes DEF From
      <3>3. Common(patch) = IF a < b THEN a ELSE b
        BY <3>1 DEF Common
      <3> QED
        BY <3>1, <3>2, <3>3
    <2>2. Flushed[k] = IF Through(k) THEN Wanted[k] ELSE From[k]
      BY <1>1, <2>1 DEF Patched
    <2>3. patch.smd5[k] # patch.mmd5[k] => Through(k)
      BY <1>3 DEF IsDifference, Through
    <2> QED
      BY <2>2, <2>3 DEF From, Wanted
  <1>5. overflow = Nothing => patch.ssize = patch.msize
    BY <1>1, <1>3 DEF OverflowSeen, IsDifference
  <1> QED
    BY <1>4, <1>5

\* What is appended to a file that grows completes it.
LEMMA EndOfPatchKeepsInv ==
    ASSUME Inv, EndOfPatch
    PROVE  Inv'
  <1>1. /\ pc = "command" /\ PatchEnds /\ Types /\ Open /\ pc' = "truncate"
        /\ overflow' = Nothing
        /\ UNCHANGED <<patch, input, clean, header, revert, next, applied>>
    BY DEF EndOfPatch, Inv, Patching, call
  <1>2. Flushed \in File /\ From \in File /\ Wanted \in File
    BY <1>1, StreamTypes, PatchTypes
  <1>3. Wanted' = Wanted /\ Shrinks' = Shrinks
    BY <1>1 DEF Wanted, Shrinks
  <1>4. pc \in Patching /\ pc' \in Patching
    BY <1>1 DEF Patching
  <1>5. PICK a \in Nat, b \in Nat :
          /\ a = patch.ssize /\ b = patch.msize
          /\ a = Len(patch.smd5) /\ b = Len(patch.mmd5)
    BY <1>1, PatchTypes
  <1>6. Common(patch) = IF a < b THEN a ELSE b
    BY <1>5 DEF Common
  <1>7. CASE overflow = Nothing
    <2>1. UNCHANGED <<target, ninja, fo, buffer, lost>>
      BY <1>7 DEF EndOfPatch, files, stream
    <2>2. Types'
      BY <1>1, <2>1, SameCall DEF Types, Patching
    <2>3. ASSUME IsDifference(patch), ~lost PROVE Flushed' = Wanted
      <3>1. a = b /\ \A k \in 1..Common(patch) : Flushed[k] = Wanted[k]
        BY <1>1, <1>5, <1>7, <2>3, FrontDone
      <3>2. Len(Flushed) = Len(From)
        BY <1>1, <2>3 DEF Inv, Progress, Patched
      <3>3. Len(Flushed) = a /\ Len(Wanted) = a
        BY <1>5, <3>1, <3>2 DEF From, Wanted
      <3>4. Flushed = Wanted
        BY <1>2, <1>6, <3>1, <3>3, SameBytes
      <3> QED
        BY <2>1, <3>4 DEF Flushed, OnDisk
    <2>4. Progress'
      BY <1>1, <1>3, <2>1, <2>3, SameCall DEF Progress
    <2> QED
      BY <1>1, <1>4, <2>1, <2>2, <2>4, StillOpen DEF Open
  <1>8. CASE overflow # Nothing
    <2>1. overflow \in File /\ OverflowAt \in Nat /\ SeekAndWrite(OverflowAt, overflow)
      BY <1>1, <1>5, <1>8 DEF Types, EndOfPatch, OverflowAt
    <2>2. /\ lost' \in BOOLEAN
          /\ ~lost' => ~lost /\ Flushed' = Poke(Flushed, OverflowAt, overflow)
          /\ buffer'.at \in Nat /\ buffer'.bytes \in File /\ fo' = fo
          /\ target' \in File /\ ninja' \in File \cup {Nothing}
          /\ target' # Nothing /\ (fo = "ninja" <=> ninja' # Nothing)
          /\ fo = "ninja" => target' = target
      BY <1>1, <2>1, WriteReaches
    <2>3. Types'
      BY <1>1, <2>2, SameCall DEF Types, Patching
    <2>4. ASSUME IsDifference(patch), ~lost', ~Shrinks PROVE Flushed' = Wanted
      <3>1. a # b /\ overflow = OverflowOf(patch)
        BY <1>1, <1>5, <1>8, <2>2, <2>4 DEF Inv, Progress, OverflowSeen
      <3>2. \A k \in 1..Common(patch) : Flushed[k] = Wanted[k]
        BY <1>1, <2>2, <2>4, FrontDone
      <3>3. PICK n \in Nat, l \in Nat :
              /\ n = Common(patch) /\ l = Len(Wanted) /\ n < l
              /\ Longer(patch) = Wanted /\ OverflowAt = n /\ Len(From) = n
        <4>1. CASE revert
          <5>1. ~(a < b)
            BY <1>5, <2>4, <4>1 DEF Shrinks
          <5> QED
            BY <1>5, <1>6, <3>1, <4>1, <5>1 DEF Wanted, From, Longer, OverflowAt
        <4>2. CASE ~revert
          <5>1. ~(b < a)
            BY <1>5, <2>4, <4>2 DEF Shrinks
          <5> QED
            BY <1>5, <1>6, <3>1, <4>2, <5>1 DEF Wanted, From, Longer, OverflowAt
        <4> QED
          BY <4>1, <4>2
      <3>4. overflow = [k \in 1..(l - n) |-> Wanted[n + k]]
        BY <3>1, <3>3 DEF OverflowOf
      <3>5. PICK d \in Nat : d = l - n /\ d = Len(overflow) /\ n + d = l
        <4>1. l - n \in Nat /\ n + (l - n) = l
          BY <3>3
        <4>2. \A k \in 1..(l - n) : n + k \in 1..Len(Wanted)
          BY <3>3
        <4>3. overflow \in [1..(l - n) -> Byte]
          BY <1>2, <3>4, <4>2, FileBytes
        <4> QED
          BY <4>1, <4>3, SeqOfFunction
      <3>6. Len(Flushed) = n
        BY <1>1, <2>2, <2>4, <3>3 DEF Inv, Progress, Patched
      <3>7. /\ Flushed' \in File
            /\ Len(Flushed') = IF d > 0 /\ n + d > n THEN n + d ELSE n
            /\ \A k \in 1..Len(Flushed') :
                  Flushed'[k] = IF k > n /\ k <= n + d THEN overflow[k - n]
                                ELSE IF k <= n THEN Flushed[k] ELSE 0
        <4>1. Flushed' = Poke(Flushed, n, overflow)
          BY <2>2, <2>4, <3>3
        <4> QED
          BY <1>2, <2>1, <3>5, <3>6, <4>1, PokeBytes
      <3>8. Len(Flushed') = l
        <4>1. n < l /\ n + d = l
          BY <3>3, <3>5
        <4>2. d > 0 /\ n + d > n
          BY <4>1
        <4> QED
          BY <3>7, <4>1, <4>2
      <3>9. ASSUME NEW k \in 1..l PROVE Flushed'[k] = Wanted[k]
        <4>1. CASE k > n
          <5>1. k - n \in 1..(l - n) /\ n + (k - n) = k /\ k <= n + d
            <6>1. n + d = l /\ k \in Nat /\ k <= l
              BY <3>3, <3>5
            <6> QED
              BY <4>1, <6>1
          <5>2. overflow[k - n] = Wanted[k]
            BY <3>4, <5>1
          <5> QED
            BY <3>7, <3>8, <4>1, <5>1, <5>2
        <4>2. CASE ~(k > n)
          <5>1. k \in 1..Common(patch) /\ k <= n
            BY <3>3, <4>2
          <5> QED
            BY <3>2, <3>7, <3>8, <4>2, <5>1
        <4> QED
          BY <4>1, <4>2
      <3> QED
        BY <1>2, <3>3, <3>7, <3>8, <3>9, SameBytes
    <2>5. Progress'
      BY <1>1, <1>3, <2>4, SameCall DEF Progress
    <2> QED
      BY <1>1, <1>4, <2>2, <2>3, <2>5, StillOpen
  <1> QED
    BY <1>7, <1>8

LEMMA TruncateKeepsInv ==
    ASSUME Inv, Truncate
    PROVE  Inv'
  <1>1. /\ pc = "truncate" /\ pc' = "restore" /\ Types /\ Open /\ Progress
        /\ UNCHANGED <<patch, input, clean, fo, buffer, header, overflow, revert, next, applied,
                       lost>>
    BY DEF Truncate, Inv, Patching, call, stream, locals
  <1>2. pc \in Patching /\ pc' \in Patching
    BY <1>1 DEF Patching
  <1>3. PICK a \in Nat, b \in Nat : a = patch.ssize /\ b = patch.msize
    BY <1>1, PatchTypes
  <1>4. CASE Shrinks
    <2>1. \/ \E n \in {a, b} : SetOpenFile(Resized(OnDisk, n))
          \/ target' = target /\ ninja' = ninja
      BY <1>3 DEF Truncate, files
    <2>2. \A n \in {a, b} : Resized(OnDisk, n) \in File
      BY <1>1, <1>3, StreamTypes, ResizedIsFile
    <2>3. /\ target' \in File /\ ninja' \in File \cup {Nothing}
          /\ target' # Nothing /\ (fo = "ninja" <=> ninja' # Nothing)
          /\ fo = "ninja" => target' = target
      <3>1. CASE \E n \in {a, b} : SetOpenFile(Resized(OnDisk, n))
        BY <1>1, <2>2, <3>1, SetKeepsOpen
      <3>2. CASE target' = target /\ ninja' = ninja
        BY <1>1, <3>2 DEF Types, Open
      <3> QED
        BY <2>1, <3>1, <3>2
    <2>4. Types'
      BY <1>1, <2>3, SameCall DEF Types, Patching
    <2>5. Progress'
      <3>1. Shrinks'
        BY <1>1, <1>4 DEF Shrinks
      <3> QED
        BY <1>1, <3>1 DEF Progress
    <2> QED
      BY <1>1, <1>2, <2>3, <2>4, <2>5, StillOpen
  <1>5. CASE ~Shrinks
    <2>1. UNCHANGED <<target, ninja>>
      <3>1. ~(a > b /\ ~revert) /\ ~(a < b /\ revert)
        BY <1>3, <1>5 DEF Shrinks
      <3> QED
        BY <1>3, <3>1 DEF Truncate, files
    <2>2. Types'
      BY <1>1, <2>1, SameCall DEF Types, Patching
    <2>3. Progress'
      <3>1. Flushed' = Flushed /\ Wanted' = Wanted /\ Shrinks' = Shrinks
        BY <1>1, <2>1 DEF Flushed, OnDisk, Wanted, Shrinks
      <3> QED
        BY <1>1, <3>1, SameCall DEF Progress
    <2> QED
      BY <1>1, <1>2, <2>1, <2>2, <2>3, StillOpen DEF Open
  <1> QED
    BY <1>4, <1>5

LEMMA BadCommandKeepsInv ==
    ASSUME Inv, BadCommand
    PROVE  Inv'
  <1>1. /\ pc = "command" /\ Types /\ Open /\ ConvertedThen
        /\ SetOpenFile(Flushed) /\ buffer' = NoWrite /\ fo' = "none"
        /\ pc' = "returned" /\ applied' = "bad_patch"
        /\ UNCHANGED <<patch, input, clean, header, overflow, revert, next, lost>>
    BY DEF BadCommand, MoreCommands, Close, Return, Inv, Patching, call, locals
  <1>2. /\ target' \in File /\ ninja' \in File \cup {Nothing}
        /\ patch.type # "raw" => target' = input
    BY <1>1, StreamTypes, SetKeepsOpen DEF Open
  <1>3. buffer'.at \in Nat /\ buffer'.bytes \in File
    BY <1>1, EmptySeq DEF NoWrite, File
  <1>4. Types'
    BY <1>1, <1>2, <1>3, SameCall DEF Types, Results
  <1>5. /\ Beginning' /\ Progress' /\ Ending' /\ ReplacementComplete' /\ pc' \notin Patching
    BY <1>1, <1>2 DEF Beginning, Before, Progress, Ending, ReplacementComplete, Patching,
                      Finishing
  <1>6. clean /\ ~lost => Dump.rom \in {patch.smd5, patch.mmd5}
    BY <1>1 DEF ConvertedThen, Patching
  <1>7. ConvertedThen'
    BY <1>1, <1>6, SameCall DEF ConvertedThen, Patching, Finishing
  <1>8. PatchedExactly'
    BY <1>1 DEF PatchedExactly
  <1>9. VerdictExact'
    BY <1>1, <1>6 DEF VerdictExact, Dump
  <1> QED
    BY <1>4, <1>5, <1>7, <1>8, <1>9 DEF Inv

-----------------------------------------------------------------------------
(* The file the user gets.                                                   *)

\* A reader's result of one of the types.
LEMMA DumpIs ==
    ASSUME Types
    PROVE  /\ Dump.rom \in File /\ Dump.header \in {Nothing, <<HeaderMark>>, <<UnifMark>>}
           /\ patch.type = "raw" => Dump.header = Nothing
           /\ Dump.header = <<UnifMark>> =>
                 input # <<>> /\ input[1] = UnifMark /\ Dump.rom = Tail(input)
  <1>1. patch.type \in {"raw", "nes", "gb", "lynx"} /\ input \in File
    BY DEF Types, IsRupPatch
  <1> QED
    BY <1>1, DumpTypes DEF Dump

LEMMA MarksDiffer == <<HeaderMark>> # Nothing /\ <<UnifMark>> # Nothing
  BY DEF HeaderMark, UnifMark, Nothing

LEMMA SameGoal ==
    ASSUME UNCHANGED <<patch, input, revert>>
    PROVE  Wanted' = Wanted /\ WantedFile' = WantedFile /\ Shrinks' = Shrinks
           /\ UnifResized' = UnifResized
  BY DEF Wanted, WantedFile, Shrinks, UnifResized

LEMMA GoalByDump ==
    WantedFile = IF Dump.header = Nothing THEN Wanted ELSE Dump.header \o Wanted
  BY DEF WantedFile, Dump

\* The parts of the invariant that a call past its patch keeps.
LEMMA Finished ==
    ASSUME Inv, pc \in {"restore"} \cup Finishing, pc' \in Finishing,
           UNCHANGED <<patch, input, clean, revert>>, Types', Ending', ReplacementComplete',
           ~lost' => ~lost
    PROVE  Inv'
  <1>1. clean /\ ~lost => Dump.rom \in {patch.smd5, patch.mmd5}
    BY DEF Inv, ConvertedThen, Patching
  <1>2. pc' \notin Patching /\ pc' \notin {"idle"} \cup Before /\ pc' # "returned"
    BY DEF Finishing, Patching, Before
  <1>3. ConvertedThen'
    BY <1>1, <1>2, SameCall DEF ConvertedThen, Before
  <1>4. Beginning' /\ Progress'
    BY <1>2 DEF Beginning, Progress, Patching, Before
  <1> QED
    BY <1>2, <1>3, <1>4, Midway DEF Inv

LEMMA RestoreHeaderKeepsInv ==
    ASSUME Inv, RestoreHeader
    PROVE  Inv'
  <1>1. /\ pc = "restore" /\ pc' = "rename" /\ Types /\ Open /\ Progress
        /\ \/ SetOpenFile(WithHeader(Flushed)) /\ lost' = lost
           \/ /\ \E n \in 0..Len(WithHeader(Flushed)) :
                    SetOpenFile(Poke(Flushed, 0, SubSeq(WithHeader(Flushed), 1, n)))
              /\ lost' = TRUE
        /\ fo' = "none" /\ buffer' = NoWrite
        /\ UNCHANGED <<patch, input, clean, overflow, revert, next, applied>>
    BY DEF RestoreHeader, Inv, Patching, call
  <1>2. Flushed \in File /\ header = Dump.header
    BY <1>1, StreamTypes DEF Open
  <1>3. WithHeader(Flushed) \in File
    <2>1. <<HeaderMark>> \in File /\ <<UnifMark>> \in File
      BY DEF File, Byte, HeaderMark, UnifMark
    <2>2. \A h \in File : h \o Flushed \in File
      BY <1>2, ConcatProperties DEF File
    <2> QED
      BY <1>1, <1>2, <2>1, <2>2, DumpIs DEF WithHeader
  <1>4. /\ target' \in File /\ ninja' \in File \cup {Nothing} /\ (fo = "ninja" <=> ninja' # Nothing)
        /\ lost' \in BOOLEAN
        /\ fo = "ninja" => target' = target
        /\ ~lost' => /\ ~lost
                     /\ fo = "ninja" => ninja' = WithHeader(Flushed)
                     /\ fo = "target" => target' = WithHeader(Flushed)
    <2>1. CASE SetOpenFile(WithHeader(Flushed)) /\ lost' = lost
      <3>1. lost' \in BOOLEAN /\ (~lost' => ~lost)
        BY <1>1, <2>1 DEF Types
      <3> QED
        BY <1>1, <1>3, <2>1, <3>1, SetKeepsOpen
    <2>2. CASE /\ \E n \in 0..Len(WithHeader(Flushed)) :
                    SetOpenFile(Poke(Flushed, 0, SubSeq(WithHeader(Flushed), 1, n)))
               /\ lost' = TRUE
      <3>1. PICK n \in 0..Len(WithHeader(Flushed)) :
              SetOpenFile(Poke(Flushed, 0, SubSeq(WithHeader(Flushed), 1, n)))
        BY <2>2
      <3>2. SubSeq(WithHeader(Flushed), 1, n) \in File
        BY <1>2, <1>3, PokeSplit
      <3>3. Poke(Flushed, 0, SubSeq(WithHeader(Flushed), 1, n)) \in File
        BY <1>2, <3>2, PokeIsFile
      <3> QED
        BY <1>1, <2>2, <3>1, <3>3, SetKeepsOpen
    <2> QED
      BY <1>1, <2>1, <2>2
  <1>5. Types'
    <2>1. buffer'.at \in Nat /\ buffer'.bytes \in File
      BY <1>1, EmptySeq DEF NoWrite, File
    <2> QED
      BY <1>1, <1>4, <2>1, SameCall DEF Types, Finishing
  <1>6. Ending'
    <2>1. ASSUME ~lost', IsDifference(patch), ~Shrinks
          PROVE  IF ninja' # Nothing THEN ninja' = WantedFile
                 ELSE UnifResized \/ target' = WantedFile
      <3>1. WithHeader(Flushed) = WantedFile
        BY <1>1, <1>2, <1>4, <2>1, GoalByDump DEF Progress, WithHeader
      <3> QED
        BY <1>1, <1>4, <2>1, <3>1 DEF Open
    <2>2. ~lost' /\ ninja' # Nothing => target' = input
      BY <1>1, <1>4 DEF Open
    <2> QED
      BY <1>1, <2>1, <2>2, SameGoal, SameCall DEF Ending, Finishing
  <1>7. ReplacementComplete' /\ pc' \in Finishing
    BY <1>1 DEF ReplacementComplete, Finishing
  <1> QED
    BY <1>1, <1>4, <1>5, <1>6, <1>7, Finished

\* The banks of a UNIF file are the dump: written back, they are all of what was patched.
LEMMA RebuildUnifKeepsInv ==
    ASSUME Inv, RebuildUnif
    PROVE  Inv'
  <1>1. /\ pc = "restore" /\ pc' = "rename" /\ Types /\ Open /\ Progress
        /\ header = <<UnifMark>> /\ fo' = "none" /\ buffer' = NoWrite
        /\ UNCHANGED <<patch, input, clean, overflow, revert, next, applied>>
    BY DEF RebuildUnif, Inv, Patching, call
  <1>2. /\ Dump.header = <<UnifMark>> /\ Flushed \in File /\ Wanted \in File
        /\ patch.type # "raw" /\ target = input /\ input \in File
        /\ input # <<>> /\ input[1] = UnifMark /\ Dump.rom = Tail(input)
        /\ ~lost => From = Dump.rom
    <2>1. Dump.header = <<UnifMark>> /\ Flushed \in File /\ Wanted \in File /\ input \in File
      BY <1>1, StreamTypes, PatchTypes DEF Open, Types
    <2>2. patch.type # "raw"
      <3>1. Types
        BY <1>1
      <3>2. patch.type = "raw" => Dump.header = Nothing
        BY <3>1, DumpIs, Zenon
      <3>3. Dump.header = <<UnifMark>>
        BY <2>1
      <3>4. <<UnifMark>> # Nothing
        BY MarksDiffer, ZenonT(60)
      <3> QED
        BY <3>2, <3>3, <3>4, Zenon
    <2> QED
      BY <1>1, <2>1, <2>2, DumpIs DEF Open
  <1>3. PICK t \in Nat : /\ Len(target) - 1 = t /\ Len(input) = t + 1
                         /\ ~lost => t = Len(From)
    <2>1. Len(Tail(input)) = Len(input) - 1 /\ Len(input) \in Nat \ {0}
      BY <1>2, HeadTailProperties, EmptySeq DEF File
    <2>2. Len(input) - 1 \in Nat /\ Len(input) = (Len(input) - 1) + 1
      BY <2>1
    <2>3. Len(target) = Len(input) /\ (~lost => Len(From) = Len(Tail(input)))
      BY <1>2
    <2> QED
      BY <2>1, <2>2, <2>3
  <1>4. PICK heap \in [(Len(Flushed) + 1)..(Len(target) - 1) -> Byte] :
          LET banks == [k \in 1..(Len(target) - 1) |->
                          IF k <= Len(Flushed) THEN Flushed[k] ELSE heap[k]]
          IN  \/ target' = Poke(target, 1, banks) /\ ninja' = Nothing /\ lost' = lost
              \/ /\ \E n \in 0..Len(banks) : target' = Poke(target, 1, SubSeq(banks, 1, n))
                 /\ ninja' \in {Flushed, Nothing}
                 /\ lost' = TRUE
    BY DEF RebuildUnif
  <1> DEFINE bytes == [k \in 1..t |-> IF k <= Len(Flushed) THEN Flushed[k] ELSE heap[k]]
  <1>5. bytes \in File /\ Len(bytes) = t
    <2>1. PICK m \in Nat : m = Len(Flushed) /\ \A k \in 1..m : Flushed[k] \in Byte
      BY <1>2, FileBytes
    <2>2. heap \in [(m + 1)..t -> Byte]
      BY <1>3, <1>4, <2>1
    <2>3. ASSUME NEW k \in 1..t
          PROVE  (IF k <= Len(Flushed) THEN Flushed[k] ELSE heap[k]) \in Byte
      <3>1. CASE k <= m
        BY <2>1, <3>1
      <3>2. CASE ~(k <= m)
        <4>1. k \in (m + 1)..t
          BY <2>1, <3>2
        <4> QED
          BY <2>1, <2>2, <3>2, <4>1
      <3> QED
        BY <3>1, <3>2
    <2>4. bytes \in [1..t -> Byte]
      BY <2>3
    <2> HIDE DEF bytes
    <2> QED
      BY <2>4, SeqOfFunction
  <1>6. \/ target' = Poke(input, 1, bytes) /\ ninja' = Nothing /\ lost' = lost
        \/ /\ \E n \in 0..Len(bytes) : target' = Poke(input, 1, SubSeq(bytes, 1, n))
           /\ ninja' \in {Flushed, Nothing}
           /\ lost' = TRUE
    BY <1>2, <1>3, <1>4
  <1>7. target' \in File /\ ninja' \in File \cup {Nothing} /\ lost' \in BOOLEAN /\ (~lost' => ~lost)
    <2> HIDE DEF bytes
    <2>1. lost \in BOOLEAN
      BY <1>1 DEF Types
    <2>2. Poke(input, 1, bytes) \in File
      BY <1>2, <1>5, PokeIsFile
    <2>3. \A n \in 0..Len(bytes) : Poke(input, 1, SubSeq(bytes, 1, n)) \in File
      BY <1>2, <1>5, PokeSplit, PokeIsFile
    <2>4. Flushed \in File
      BY <1>2
    <2>5. CASE target' = Poke(input, 1, bytes) /\ ninja' = Nothing /\ lost' = lost
      BY <2>1, <2>2, <2>5
    <2>6. CASE /\ \E n \in 0..Len(bytes) : target' = Poke(input, 1, SubSeq(bytes, 1, n))
               /\ ninja' \in {Flushed, Nothing}
               /\ lost' = TRUE
      BY <2>3, <2>4, <2>6
    <2> QED
      BY <1>6, <2>5, <2>6
  <1>8. Types'
    <2>1. buffer'.at \in Nat /\ buffer'.bytes \in File
      BY <1>1, EmptySeq DEF NoWrite, File
    <2> QED
      BY <1>1, <1>7, <2>1, SameCall DEF Types, Finishing
  <1>9. Ending'
    <2> SUFFICES ASSUME ~lost', IsDifference(patch), ~Shrinks, ~UnifResized
                 PROVE  target' = WantedFile
      BY <1>1, <1>6, SameGoal, SameCall DEF Ending
    <2>1. /\ patch.ssize = patch.msize /\ ~lost
          /\ target' = Poke(input, 1, bytes)
      BY <1>2, <1>6, <1>7 DEF UnifResized, Dump
    <2>2. Flushed = Wanted /\ Len(Wanted) = t
      <3>1. Len(From) = Len(Wanted)
        BY <1>1, <2>1, PatchTypes DEF From, Wanted
      <3> QED
        BY <1>1, <1>3, <2>1, <3>1 DEF Progress
    <2>3. \A k \in 1..t : bytes[k] = Wanted[k]
      BY <2>2
    <2> HIDE DEF bytes
    <2>4. /\ Len(target') = IF t > 0 /\ 1 + t > t + 1 THEN 1 + t ELSE t + 1
          /\ \A k \in 1..Len(target') :
                target'[k] = IF k > 1 /\ k <= 1 + t THEN bytes[k - 1]
                             ELSE IF k <= t + 1 THEN input[k] ELSE 0
      <3>1. target' = Poke(input, 1, bytes)
        BY <2>1
      <3> QED
        <4>1. /\ input \in File /\ 1 \in Nat /\ bytes \in File /\ t + 1 \in Nat /\ t \in Nat
              /\ t + 1 = Len(input) /\ t = Len(bytes)
          BY <1>2, <1>3, <1>5
        <4>2. /\ Len(Poke(input, 1, bytes)) = IF t > 0 /\ 1 + t > t + 1 THEN 1 + t ELSE t + 1
              /\ \A k \in 1..Len(Poke(input, 1, bytes)) :
                    Poke(input, 1, bytes)[k] = IF k > 1 /\ k <= 1 + t THEN bytes[k - 1]
                                               ELSE IF k <= t + 1 THEN input[k] ELSE 0
          BY <4>1, PokeBytes, SMTT(30)
        <4> QED
          BY <3>1, <4>2
    <2>5. /\ <<UnifMark>> \o Wanted \in File
          /\ Len(<<UnifMark>> \o Wanted) = 1 + t
          /\ \A k \in 1..(1 + t) :
                (<<UnifMark>> \o Wanted)[k] = IF k <= 1 THEN <<UnifMark>>[k] ELSE Wanted[k - 1]
      <3>1. <<UnifMark>> \in Seq(Byte) /\ Len(<<UnifMark>>) = 1
        BY DEF Byte, UnifMark
      <3>2. Wanted \in Seq(Byte)
        BY <1>2 DEF File
      <3> QED
        BY <2>2, <3>1, <3>2, ConcatProperties DEF File
    <2>6. Len(target') = 1 + t
      BY <2>4
    <2>7. ASSUME NEW k \in 1..(1 + t)
          PROVE  target'[k] = (<<UnifMark>> \o Wanted)[k]
      <3>1. CASE k = 1
        BY <1>2, <2>4, <2>5, <2>6, <3>1
      <3>2. CASE k # 1
        <4>1. k - 1 \in 1..t /\ k > 1 /\ k <= 1 + t
          BY <3>2
        <4>2. target'[k] = bytes[k - 1] /\ (<<UnifMark>> \o Wanted)[k] = Wanted[k - 1]
          BY <2>4, <2>5, <2>6, <4>1
        <4> QED
          BY <2>3, <4>1, <4>2
      <3> QED
        BY <3>1, <3>2
    <2>8. target' = <<UnifMark>> \o Wanted
      BY <1>7, <2>5, <2>6, <2>7, SameBytes
    <2> QED
      BY <1>2, <2>8, GoalByDump, MarksDiffer
  <1>10. ReplacementComplete' /\ pc' \in Finishing
    BY <1>1 DEF ReplacementComplete, Finishing
  <1> QED
    BY <1>1, <1>7, <1>8, <1>9, <1>10, Finished

LEMMA RemoveTargetKeepsInv ==
    ASSUME Inv, RemoveTarget
    PROVE  Inv'
  <1>1. /\ pc = "rename" /\ ninja # Nothing /\ pc' = "removed" /\ target' \in {Nothing, target}
        /\ UNCHANGED <<patch, input, clean, ninja, fo, buffer, header, overflow, revert, next,
                       applied, lost>>
        /\ applied = Applying
    BY DEF RemoveTarget, call, stream, locals, Inv, Types
  <1>2. Types'
    BY <1>1, SameCall DEF Inv, Types, Finishing
  <1>3. Ending' /\ pc \in Finishing /\ pc' \in Finishing
    BY <1>1 DEF Inv, Ending, Finishing, Applying
  <1>4. ReplacementComplete'
    BY <1>1, SameCall, SameGoal DEF Inv, Ending, ReplacementComplete
  <1> QED
    BY <1>1, <1>2, <1>3, <1>4, Finished

LEMMA ReturnKeepsInv ==
    ASSUME Inv, Rename \/ NoRename
    PROVE  Inv'
  <1>1. /\ pc \in Finishing /\ pc' = "returned" /\ applied' = "ok"
        /\ target' \in File \cup {Nothing} /\ ninja' \in File \cup {Nothing}
        /\ UNCHANGED <<patch, input, clean, fo, buffer, header, overflow, revert, next, lost>>
    BY DEF Rename, NoRename, Return, Finishing, call, files, stream, locals, Inv, Types
  <1>2. Types'
    BY <1>1, SameCall DEF Inv, Types, Results
  <1>3. clean /\ ~lost => Dump.rom \in {patch.smd5, patch.mmd5}
    BY <1>1 DEF Inv, ConvertedThen
  <1>4. /\ Beginning' /\ Progress' /\ Ending' /\ ReplacementComplete' /\ pc' \notin Patching
    BY <1>1 DEF Beginning, Before, Progress, Ending, ReplacementComplete, Patching, Finishing
  <1>5. ConvertedThen'
    BY <1>1, <1>3, SameCall DEF ConvertedThen
  <1>6. PatchedExactly'
    <2> SUFFICES ASSUME ~lost, IsDifference(patch), ~Shrinks, ~UnifResized
                 PROVE  IF ninja' = Nothing THEN target' = WantedFile
                        ELSE ninja' = WantedFile /\ target' \in {Nothing, input}
      BY <1>1, SameCall, SameGoal DEF PatchedExactly
    <2>1. CASE Rename
      <3>1. ninja = WantedFile /\ ninja # Nothing /\ target \in {Nothing, input}
        BY <1>1, <2>1 DEF Rename, Inv, ReplacementComplete, Ending
      <3>2. \/ target' = ninja /\ ninja' = Nothing
            \/ target' = target /\ ninja' = ninja
        BY <2>1 DEF Rename, files
      <3> QED
        BY <3>1, <3>2
    <2>2. CASE NoRename
      BY <2>2 DEF NoRename, Inv, Ending, files
    <2> QED
      BY <2>1, <2>2
  <1>7. VerdictExact'
    BY <1>1, <1>3 DEF VerdictExact, Dump
  <1> QED
    BY <1>2, <1>4, <1>5, <1>6, <1>7 DEF Inv

\* After a result has been shown, and after a crash, nothing is left but the files.
LEMMA ForgottenKeepsInv ==
    ASSUME Inv, Forgotten, target' \in {target, Nothing}, ninja' = ninja
    PROVE  Inv'
  <1>1. /\ pc' = "idle" /\ applied' = Applying /\ patch' = NoPatch /\ input' = <<>>
        /\ header' = Nothing /\ overflow' = Nothing /\ revert' = FALSE /\ next' = 1
        /\ fo' = "none" /\ buffer' = NoWrite /\ lost' = FALSE
    BY DEF Forgotten
  <1>2. <<>> \in File /\ Len(<<>>) = 0 /\ <<>> \in Seq(Commands)
    BY EmptySeq DEF File
  <1>3. IsRupPatch(patch)' /\ buffer'.at \in Nat /\ buffer'.bytes \in File
    BY <1>1, <1>2 DEF NoPatch, NoWrite, IsRupPatch
  <1>4. Types'
    <2>1. target' \in File \cup {Nothing} /\ ninja' \in File \cup {Nothing} /\ input' \in File
      BY <1>1, <1>2 DEF Inv, Types
    <2>2. revert' \in BOOLEAN /\ lost' \in BOOLEAN
      BY <1>1, Zenon
    <2>3. overflow' \in File \cup {Nothing} /\ next' \in Nat \ {0} /\ pc' # "returned"
          /\ fo' \in {"none", "target", "ninja"}
          /\ pc' \in {"idle", "returned"} \cup Before \cup Patching \cup Finishing
      BY <1>1
    <2> QED
      BY <1>1, <1>3, <2>1, <2>2, <2>3 DEF Types
  <1>5. /\ Beginning' /\ Progress' /\ Ending' /\ ConvertedThen' /\ ReplacementComplete'
        /\ pc' \notin Patching /\ pc' # "returned"
    BY <1>1 DEF Beginning, Before, Progress, Ending, ConvertedThen, ReplacementComplete, Patching,
                Finishing, Applying
  <1> QED
    BY <1>4, <1>5, Midway DEF Inv

LEMMA StutterKeepsInv ==
    ASSUME Inv, UNCHANGED vars
    PROVE  Inv'
  <1>1. UNCHANGED <<pc, patch, input, clean, target, ninja, fo, buffer, header, overflow, revert,
                    next, applied, lost>>
    BY DEF vars, call, files, stream, locals
  <1>2. /\ Dump' = Dump /\ (IsDifference(patch)' <=> IsDifference(patch))
        /\ From' = From /\ Wanted' = Wanted /\ WantedFile' = WantedFile /\ Shrinks' = Shrinks
        /\ UnifResized' = UnifResized /\ Flushed' = Flushed
    BY <1>1, SameCall, SameGoal DEF From, Flushed, OnDisk
  <1>3. Types'
    BY <1>1, SameCall DEF Inv, Types
  <1>4. Beginning' /\ ConvertedThen' /\ (pc' \in Patching => Open')
    BY <1>1, <1>2 DEF Inv, Beginning, ConvertedThen, Open
  <1>5. Progress'
    <2>1. Patched' <=> Patched
      BY <1>1, <1>2, Zenon DEF Patched, Through, InRecord
    <2>2. OverflowSeen' <=> OverflowSeen
      BY <1>1, Zenon DEF OverflowSeen, OverflowOf, Longer, Common
    <2> QED
      BY <1>1, <1>2, <2>1, <2>2 DEF Inv, Progress
  <1>6. /\ Ending' /\ PatchedExactly' /\ ReplacementComplete'
    BY <1>1, <1>2 DEF Inv, Ending, PatchedExactly, ReplacementComplete
  <1>7. VerdictExact'
    BY <1>1 DEF Inv, VerdictExact
  <1> QED
    BY <1>3, <1>4, <1>5, <1>6, <1>7 DEF Inv

-----------------------------------------------------------------------------
(* The theorems.                                                             *)

\* The invariant holds of calls one after the other, with crashes anywhere in them.
THEOREM ApplyInvariant == Spec => []Inv
  <1>1. Init => Inv
    BY Start
  <1>2. Inv /\ [Next]_vars => Inv'
    <2> SUFFICES ASSUME Inv, [Next]_vars
                 PROVE  Inv'
      OBVIOUS
    <2>1. ASSUME NEW p \in Patches, NEW f \in Inputs, CopyAndApply(p, f)
          PROVE  Inv'
      <3>1. IsRupPatch(p) /\ f \in File
        BY PatchesAssumption, InputsAssumption DEF IsRupPatch
      <3> QED
        BY <2>1, <3>1, CopyAndApplyKeepsInv
    <2>2. ASSUME NEW p \in Patches, ApplyInPlace(p)
          PROVE  Inv'
      <3>1. IsRupPatch(p)
        BY PatchesAssumption DEF IsRupPatch
      <3> QED
        BY <2>2, <3>1, ApplyInPlaceKeepsInv
    <2>3. CASE Call
      BY <2>1, <2>2, <2>3 DEF Call
    <2>4. CASE Step
      BY <2>4, MagicKeepsInv, ConvertKeepsInv, VerifyKeepsInv, ReadOverflowKeepsInv,
         XorPatchKeepsInv, BadCommandKeepsInv, EndOfPatchKeepsInv, TruncateKeepsInv,
         RebuildUnifKeepsInv, RestoreHeaderKeepsInv, RemoveTargetKeepsInv, ReturnKeepsInv
      DEF Step
    <2>5. CASE Dismiss
      BY <2>5, ForgottenKeepsInv DEF Dismiss
    <2>6. CASE Crash
      BY <2>6, ForgottenKeepsInv DEF Crash, files
    <2>7. CASE UNCHANGED vars
      BY <2>7, StutterKeepsInv
    <2> QED
      BY <2>3, <2>4, <2>5, <2>6, <2>7 DEF Next
  <1> QED
    BY <1>1, <1>2, PTL DEF Spec

\* A patch that is the difference of two files turns the one into the other, either
\* way, under the input's own header, when it reports success and every write went
\* through: in ninja.src and not in its place if rename failed.
THEOREM PatchedExactlyHolds == Spec => []PatchedExactly
  <1>1. Inv => PatchedExactly
    BY DEF Inv
  <1> QED
    BY <1>1, ApplyInvariant, PTL

\* The target is not removed before all of what replaces it is in ninja.src, if every
\* write went through.
THEOREM ReplacementCompleteHolds == Spec => []ReplacementComplete
  <1>1. Inv => ReplacementComplete
    BY DEF Inv
  <1> QED
    BY <1>1, ApplyInvariant, PTL

\* The verdict is about the input if no ninja.src was left, and a file that is turned
\* down is left as it was.
THEOREM VerdictExactHolds == Spec => []VerdictExact
  <1>1. Inv => VerdictExact
    BY DEF Inv
  <1> QED
    BY <1>1, ApplyInvariant, PTL

\* A dump that is converted before it is patched is not lost, wherever the process stops
\* and whichever of remove and rename fails.
THEOREM DumpSurvivesHolds == Spec => []DumpSurvives
  <1>1. ASSUME Inv PROVE DumpSurvives
    <2> SUFFICES ASSUME pc # "idle", applied # "not_copied", patch.type # "raw", ~lost,
                        IsDifference(patch), ~Shrinks, ~UnifResized
                 PROVE  target = input \/ WantedFile \in {target, ninja}
      BY DEF DumpSurvives
    <2>1. CASE pc \in Before
      BY <1>1, <2>1 DEF Inv, Beginning
    <2>2. CASE pc \in Patching
      BY <1>1, <2>2 DEF Inv, Open
    <2>3. CASE pc \in Finishing
      BY <1>1, <2>3 DEF Inv, Ending, ReplacementComplete, Finishing
    <2>4. CASE pc = "returned"
      <3>1. applied \in Results \ {"not_copied"}
        BY <1>1, <2>4 DEF Inv, Types
      <3>2. applied = "ok" => WantedFile \in {target, ninja}
        BY <1>1 DEF Inv, PatchedExactly
      <3>3. applied \in {"md5_mismatch", "wrong_format", "bad_patch"} => target = input
        BY <1>1, <2>4 DEF Inv, VerdictExact, Ending
      <3> QED
        BY <3>1, <3>2, <3>3 DEF Results
    <2> QED
      BY <1>1, <2>1, <2>2, <2>3, <2>4 DEF Inv, Types
  <1> QED
    BY <1>1, ApplyInvariant, PTL
=============================================================================
