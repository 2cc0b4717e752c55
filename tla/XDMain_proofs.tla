--------------------------- MODULE XDMain_proofs ---------------------------
(***************************************************************************)
(* The xdelta3 command: what success means, when the output is opened, and  *)
(* that the block cache serves what it is asked for; for all files, sizes   *)
(* of window and cache, and orders in which blocks are asked for.           *)
(*                                                                         *)
(* First the input loop (LoopInv), from the accounts of what was read, what *)
(* waits and what windows were made of it.  Then the cache (BlkInv): what   *)
(* each call changes; the ring and the list of recent use between two       *)
(* requests (CacheRests); reading on to a block in a file that cannot be    *)
(* positioned (Skipping); one request (GetBlockKeeps); and the first read.  *)
(***************************************************************************)
EXTENDS XDMain, SequenceTheorems, WellFoundedInduction, TLAPS

\* A set of natural numbers that is not empty has a least element.
LEMMA LeastNumber ==
    ASSUME NEW S \in SUBSET Nat, S # {}
    PROVE  \E m \in S : \A k \in S : m <= k
  <1> DEFINE R == OpToRel(<, Nat)
  <1>1. PICK m \in S : \A k \in S : ~ (<<k, m>> \in R)
    <2>1. IsWellFoundedOn(R, Nat)
      BY NatLessThanWellFounded
    <2> HIDE DEF R
    <2> QED
      BY <2>1, WFMin, Zenon
  <1>2. \A k \in S : <<k, m>> \in R <=> k < m
    BY DEF OpToRel
  <1>3. \A k \in S : ~(k < m)
    BY <1>1, <1>2
  <1> QED
    BY <1>3

-----------------------------------------------------------------------------
(* Sums.                                                                     *)

\* f is the function of partial sums that Total defines by recursion.
SumsOf(sizes, f) ==
    f = [n \in 0..Len(sizes) |-> IF n = 0 THEN 0 ELSE f[n - 1] + sizes[n]]

\* The sums of the first n sizes, for every n: the function that Total is written with exists.
LEMMA SumsExist ==
    ASSUME NEW sizes \in Seq(Nat)
    PROVE  \E f : SumsOf(sizes, f)
  <1> DEFINE Upto(n, f) == f = [k \in 0..n |-> IF k = 0 THEN 0 ELSE f[k - 1] + sizes[k]]
             Bad == {n \in 0..Len(sizes) : ~ \E f : Upto(n, f)}
  <1>0. Len(sizes) \in Nat
    BY LenProperties
  <1>1. SUFFICES ASSUME Bad # {} PROVE FALSE
    BY <1>0 DEF SumsOf
  <1>2. PICK m \in Bad : \A k \in Bad : m <= k
    <2>1. Bad \in SUBSET Nat
      BY <1>0
    <2> HIDE DEF Bad
    <2> QED
      BY <1>1, <2>1, LeastNumber
  <1>3. CASE m = 0
    <2> DEFINE z == [k \in 0..0 |-> 0]
    <2>1. Upto(0, z)
      OBVIOUS
    <2> QED
      BY <1>2, <1>3, <2>1
  <1>4. CASE m # 0
    <2>1. m \in 1..Len(sizes) /\ m - 1 \in 0..Len(sizes) /\ m - 1 \in Nat
      BY <1>0, <1>2, <1>4
    <2>2. m - 1 \notin Bad
      <3> HIDE DEF Bad
      <3>1. m \in Nat /\ ~(m <= m - 1)
        BY <1>0, <2>1
      <3> QED
        BY <1>2, <3>1
    <2>3. PICK f : Upto(m - 1, f)
      BY <2>1, <2>2
    <2> DEFINE h == [k \in 0..m |-> IF k = m THEN f[m - 1] + sizes[m] ELSE f[k]]
    <2>4. ASSUME NEW k \in 0..m
          PROVE  h[k] = IF k = 0 THEN 0 ELSE h[k - 1] + sizes[k]
      <3>1. CASE k = m
        BY <2>1, <3>1
      <3>2. CASE k # m
        <4>1. k \in 0..(m - 1)
          BY <2>1, <3>2
        <4>2. f[k] = IF k = 0 THEN 0 ELSE f[k - 1] + sizes[k]
          BY <2>3, <4>1
        <4>3. k # 0 => k - 1 \in 0..m /\ k - 1 # m
          BY <2>1, <4>1
        <4> QED
          BY <3>2, <4>2, <4>3
      <3> QED
        BY <3>1, <3>2
    <2>5. Upto(m, h)
      BY <2>4
    <2> QED
      BY <1>2, <2>5
  <1> QED
    BY <1>3, <1>4

\* The sum of all, and of all but the last.
LEMMA SumsAgree ==
    ASSUME NEW sizes \in Seq(Nat), NEW longer \in Seq(Nat),
           Len(sizes) <= Len(longer), \A n \in 1..Len(sizes) : longer[n] = sizes[n],
           NEW f, SumsOf(sizes, f), NEW g, SumsOf(longer, g)
    PROVE  \A n \in 0..Len(sizes) : f[n] = g[n] /\ f[n] \in Nat
  <1> DEFINE Bad == {n \in 0..Len(sizes) : ~(f[n] = g[n] /\ f[n] \in Nat)}
  <1>0. Len(sizes) \in Nat /\ Len(longer) \in Nat
    BY LenProperties
  <1>1. SUFFICES ASSUME Bad # {} PROVE FALSE
    OBVIOUS
  <1>2. PICK m \in Bad : \A k \in Bad : m <= k
    <2>1. Bad \in SUBSET Nat
      BY <1>0
    <2> HIDE DEF Bad
    <2> QED
      BY <1>1, <2>1, LeastNumber
  <1>3. /\ \A n \in 0..Len(sizes) : f[n] = IF n = 0 THEN 0 ELSE f[n - 1] + sizes[n]
        /\ \A n \in 0..Len(longer) : g[n] = IF n = 0 THEN 0 ELSE g[n - 1] + longer[n]
    BY DEF SumsOf
  <1>4. m # 0
    BY <1>0, <1>2, <1>3
  <1>5. m \in 1..Len(sizes) /\ m - 1 \in 0..Len(sizes) /\ m \in 0..Len(longer)
    BY <1>0, <1>2, <1>4
  <1>6. m - 1 \notin Bad
    BY <1>2, <1>5
  <1>7. f[m - 1] = g[m - 1] /\ f[m - 1] \in Nat /\ longer[m] = sizes[m] /\ sizes[m] \in Nat
    BY <1>5, <1>6, ElementOfSeq
  <1>8. f[m] = f[m - 1] + sizes[m] /\ g[m] = g[m - 1] + longer[m]
    BY <1>3, <1>4, <1>5
  <1> QED
    BY <1>2, <1>7, <1>8

\* Total is the last of these sums.
LEMMA TotalIs ==
    ASSUME NEW sizes \in Seq(Nat)
    PROVE  \E f : SumsOf(sizes, f) /\ Total(sizes) = f[Len(sizes)]
  <1> DEFINE f == CHOOSE f : SumsOf(sizes, f)
  <1>1. SumsOf(sizes, f)
    BY SumsExist, Zenon
  <1>2. Total(sizes) = f[Len(sizes)]
    BY DEF Total, SumsOf
  <1> QED
    BY <1>1, <1>2

\* Nothing adds up to 0.
LEMMA TotalOfNone == Total(<<>>) = 0
  <1>1. <<>> \in Seq(Nat) /\ Len(<<>>) = 0
    BY EmptySeq
  <1>2. PICK f : SumsOf(<<>>, f) /\ Total(<<>>) = f[Len(<<>>)]
    BY <1>1, TotalIs
  <1>3. 0 \in 0..Len(<<>>)
    BY <1>1
  <1> QED
    BY <1>1, <1>2, <1>3 DEF SumsOf

\* One more window adds its size.
LEMMA TotalOfMore ==
    ASSUME NEW sizes \in Seq(Nat), NEW n \in Nat
    PROVE  Total(sizes) \in Nat /\ Total(Append(sizes, n)) = Total(sizes) + n
  <1> DEFINE longer == Append(sizes, n)
  <1>1. /\ longer \in Seq(Nat) /\ Len(longer) = Len(sizes) + 1 /\ Len(sizes) \in Nat
        /\ \A k \in 1..Len(sizes) : longer[k] = sizes[k]
        /\ longer[Len(sizes) + 1] = n
    BY AppendProperties, LenProperties
  <1>2. PICK f : SumsOf(sizes, f) /\ Total(sizes) = f[Len(sizes)]
    BY TotalIs
  <1>3. PICK g : SumsOf(longer, g) /\ Total(longer) = g[Len(longer)]
    BY <1>1, TotalIs
  <1> HIDE DEF longer
  <1>4. f[Len(sizes)] = g[Len(sizes)] /\ f[Len(sizes)] \in Nat
    <2>1. Len(sizes) <= Len(longer) /\ Len(sizes) \in 0..Len(sizes)
      BY <1>1
    <2> QED
      BY <1>1, <1>2, <1>3, <2>1, SumsAgree
  <1>5. g[Len(longer)] = g[Len(sizes)] + n
    <2>1. Len(longer) \in 0..Len(longer) /\ Len(longer) # 0 /\ Len(longer) - 1 = Len(sizes)
      BY <1>1
    <2> QED
      BY <1>1, <1>3, <2>1 DEF SumsOf
  <1>6. Total(longer) = Total(sizes) + n
    BY <1>2, <1>3, <1>4, <1>5
  <1> QED
    BY <1>2, <1>4, <1>6 DEF longer

-----------------------------------------------------------------------------
(* The input loop.                                                           *)

AllFull == \A n \in 1..Len(windows) : windows[n] = WinSize
AllButLastFull == \A n \in 1..(Len(windows) - 1) : windows[n] = WinSize

LoopTypes ==
    /\ case \in Cases
    /\ pc \in {"start", "read", "input", "window", "finish", "end"}
    /\ nread \in 0..WinSize /\ offset \in 0..case.input.length
    /\ avail \in Nat /\ part \in Nat /\ windows \in Seq(Nat)
    /\ lost \in BOOLEAN

\* What has been read is in windows, in the header, or still to be worked on.
Accounts ==
    offset = avail + Total(windows)
               + (IF Encoding \/ part = 0 THEN 0 ELSE case.parts[1])

\* A read that is not full was the last one.
EndSeen ==
    /\ pc \in {"input", "window", "finish"} /\ nread < WinSize /\ ~lost =>
          offset = case.input.length
    /\ pc = "finish" => nread < WinSize

\* The encoder makes a window of each read.
EncodedInReads ==
    Encoding =>
        /\ AllButLastFull
        /\ pc \in {"start", "read"} => AllFull
        /\ pc \in {"input", "window"} /\ avail > 0 => AllFull
        /\ pc \in {"start", "read", "finish"} => avail = 0
        /\ pc = "input" => avail = nread \/ (avail = 0 /\ windows # <<>>)
        /\ pc = "window" => avail = nread
        /\ pc = "input" /\ avail = 0 /\ windows # <<>> => windows[Len(windows)] = nread
        /\ pc = "window" => avail > 0 \/ windows = <<>>

\* The decoder does not begin a window that is not all there.
DecodedInParts ==
    ~Encoding =>
        /\ pc = "start" => part = 0
        /\ windows # <<>> => part > 0
        /\ pc = "window" => part \in 1..(Len(case.parts) - 1) /\ avail >= case.parts[part + 1]

\* The source is set as soon as it can have a name.
SourceFirst ==
    pc \notin {"start", "end"} /\ sname # "none" /\ (Encoding \/ part > 0) => HaveSource

LoopInv ==
    /\ LoopTypes /\ Accounts /\ EndSeen /\ EncodedInReads /\ DecodedInParts /\ SourceFirst
    /\ pc = "start" => windows = <<>>
    /\ pc # "end" /\ ofile = "open" => windows # <<>>
    /\ pc # "end" => verdict = "none"
    /\ SuccessIsComplete

\* What a read may return: an error, or a number of bytes that the file has there.
LEMMA NreadRange ==
    ASSUME NEW f, IsFile(f), NEW at \in Nat, NEW size \in Nat, NEW first \in BOOLEAN,
           AllocSize \in Nat
    PROVE  \/ Nread(f, at, size, first) = -1
           \/ /\ Nread(f, at, size, first) \in 0..size
              /\ at <= f.length => at + Nread(f, at, size, first) <= f.length
              /\ ~first =>
                   Nread(f, at, size, first) = IF at < f.length THEN AtMost(size, f.length - at) ELSE 0
  BY DEF Nread, AtMost, IsFile

\* What a command is, and that the sizes it comes with are numbers.
LEMMA CaseTypes ==
    ASSUME case \in Cases
    PROVE  /\ WinSize \in Nat /\ WinSize > 0 /\ AllocSize \in Nat
           /\ IsFile(case.input) /\ case.input.length \in Nat
           /\ ~Encoding => /\ case.parts \in Seq(Nat \ {0}) /\ Len(case.parts) \in Nat
                           /\ \A k \in 1..Len(case.parts) : case.parts[k] \in Nat
                           /\ case.parts[1] \in Nat
  <1>1. /\ WinSize \in Nat /\ WinSize > 0 /\ AllocSize \in Nat
        /\ IsFile(case.input) /\ case.input.length \in Nat
    BY CasesAssumption, BlocksAssumption DEF IsFile
  <1>2. ASSUME ~Encoding
        PROVE  /\ case.parts \in Seq(Nat \ {0}) /\ Len(case.parts) \in Nat
               /\ \A k \in 1..Len(case.parts) : case.parts[k] \in Nat
               /\ case.parts[1] \in Nat
    <2>1. case.parts \in Seq(Nat \ {0}) /\ case.parts # <<>>
      BY <1>2, CasesAssumption DEF Encoding
    <2>2. Len(case.parts) \in Nat /\ Len(case.parts) # 0
      BY <2>1, LenProperties, EmptySeq
    <2>3. \A k \in 1..Len(case.parts) : case.parts[k] \in Nat
      BY <2>1, ElementOfSeq
    <2> QED
      BY <2>1, <2>2, <2>3
  <1> QED
    BY <1>1, <1>2

\* The invariant of the input loop holds at the start.
LEMMA LoopStart == Init => LoopInv
  <1> SUFFICES ASSUME Init PROVE LoopInv
    OBVIOUS
  <1>1. <<>> \in Seq(Nat) /\ Len(<<>>) = 0
    BY EmptySeq
  <1>2. WinSize \in Nat /\ WinSize > 0 /\ case.input.length \in Nat
    BY CaseTypes DEF Init
  <1>3. /\ pc = "start" /\ verdict = "none" /\ nread = 0 /\ offset = 0 /\ avail = 0
        /\ part = 0 /\ windows = <<>> /\ ofile # "open" /\ lost = FALSE /\ case \in Cases
    BY DEF Init
  <1>4. LoopTypes /\ Accounts
    <2>1. LoopTypes
      <3>1. windows \in Seq(Nat)
        BY <1>1, <1>3, Zenon
      <3>2. 0 \in 0..WinSize /\ 0 \in 0..case.input.length /\ 0 \in Nat
        BY <1>2
      <3>3. nread \in 0..WinSize /\ offset \in 0..case.input.length /\ avail \in Nat /\ part \in Nat
        BY <1>3, <3>2
      <3> QED
        BY <1>3, <3>1, <3>3 DEF LoopTypes
    <2>2. Total(windows) = 0
      BY <1>3, TotalOfNone, Zenon
    <2>3. Accounts
      BY <1>3, <2>2 DEF Accounts
    <2> QED
      BY <2>1, <2>3
  <1> QED
    BY <1>1, <1>3, <1>4 DEF LoopInv, EndSeen, EncodedInReads, DecodedInParts,
       SourceFirst, SuccessIsComplete, AllFull, AllButLastFull

\* A call that ends badly leaves nothing to show.
LEMMA FailKeepsInv ==
    ASSUME LoopInv, Fail, LoopTypes', Accounts', Encoding => (AllButLastFull)', UNCHANGED case,
           ~Encoding => (windows' # <<>> => part' > 0)
    PROVE  LoopInv'
  <1>1. pc' = "end" /\ verdict' = "failed" /\ Encoding' = Encoding
    BY DEF Fail, Encoding
  <1> QED
    BY <1>1 DEF LoopInv, EndSeen, EncodedInReads, DecodedInParts, SourceFirst,
       SuccessIsComplete

\* Setting the source goes on with it or ends the command; it never mends a lost read.
LEMMA SourcedEffect ==
    ASSUME NEW to, Sourced(to), lost \in BOOLEAN
    PROVE  /\ lost' \in BOOLEAN /\ (lost => lost')
           /\ (pc' = to /\ verdict' = verdict /\ HaveSource') \/ Fail
  <1>1. PICK st : /\ source' = st
                  /\ lost' = (lost \/ (st.ret = "ok" /\ st.offset < AtMost(case.source.length, SrcWinSize)))
                  /\ IF st.ret = "ok" THEN pc' = to /\ UNCHANGED verdict ELSE Fail
    BY DEF Sourced
  <1>2. lost' \in BOOLEAN /\ (lost => lost')
    BY <1>1
  <1>3. CASE st.ret = "ok"
    <2>1. source'.ret = "ok" /\ NoSource.ret = "none"
      BY <1>1, <1>3 DEF NoSource
    <2>2. source' # NoSource
      BY <2>1
    <2> QED
      BY <1>1, <1>2, <1>3, <2>2 DEF HaveSource
  <1>4. CASE st.ret # "ok"
    BY <1>1, <1>2, <1>4
  <1> QED
    BY <1>3, <1>4

\* The start of main_input keeps the invariant.
LEMMA StartKeepsInv ==
    ASSUME LoopInv, Start
    PROVE  LoopInv'
  <1> USE DEF LoopInv
  <1>1. /\ case' = case /\ nread' = nread /\ offset' = offset /\ avail' = avail
        /\ part' = part /\ windows' = windows /\ sname' = sname /\ ofile' = ofile
        /\ pc = "start" /\ lost \in BOOLEAN
    BY DEF Start, LoopTypes
  <1>2. Encoding' = Encoding /\ (AllFull)' = AllFull /\ (AllButLastFull)' = AllButLastFull
    BY <1>1 DEF Encoding, AllFull, AllButLastFull
  <1>3. /\ lost' \in BOOLEAN /\ (lost => lost')
        /\ \/ pc' = "read" /\ verdict' = verdict
              /\ (Encoding /\ sname # "none" => HaveSource')
           \/ Fail
    <2>1. CASE Encoding /\ sname # "none"
      <3>1. Sourced("read")
        BY <2>1 DEF Start
      <3> QED
        BY <1>1, <3>1, SourcedEffect
    <2>2. CASE ~(Encoding /\ sname # "none")
      BY <1>1, <2>2 DEF Start
    <2> QED
      BY <2>1, <2>2
  <1>4. LoopTypes' /\ Accounts'
    BY <1>1, <1>2, <1>3 DEF LoopTypes, Accounts, Fail
  <1>5. CASE Fail
    BY <1>1, <1>2, <1>4, <1>5, FailKeepsInv DEF DecodedInParts, EncodedInReads, AllButLastFull
  <1>6. CASE pc' = "read" /\ verdict' = verdict /\ (Encoding /\ sname # "none" => HaveSource')
    <2>1. EncodedInReads' /\ DecodedInParts'
      BY <1>1, <1>2, <1>6 DEF EncodedInReads, DecodedInParts
    <2>2. EndSeen' /\ SourceFirst' /\ SuccessIsComplete'
      BY <1>1, <1>2, <1>6 DEF EndSeen, SourceFirst, DecodedInParts, SuccessIsComplete
    <2> QED
      BY <1>1, <1>4, <1>6, <2>1, <2>2
  <1> QED
    BY <1>3, <1>5, <1>6

\* A read of the input keeps it: what is read is added to what is there.
LEMMA ReadInputKeepsInv ==
    ASSUME LoopInv, ReadInput
    PROVE  LoopInv'
  <1> USE DEF LoopInv
  <1> DEFINE m == Nread(case.input, offset, WinSize, offset = 0)
  <1>1. /\ case' = case /\ part' = part /\ windows' = windows /\ source' = source
        /\ sname' = sname /\ ofile' = ofile /\ pc = "read" /\ lost \in BOOLEAN
    BY DEF ReadInput, LoopTypes
  <1>2. Encoding' = Encoding /\ (AllFull)' = AllFull /\ (AllButLastFull)' = AllButLastFull
    BY <1>1 DEF Encoding, AllFull, AllButLastFull
  <1>3. /\ WinSize \in Nat /\ WinSize > 0 /\ case.input.length \in Nat
        /\ offset \in 0..case.input.length /\ avail \in Nat
        /\ m = -1 \/ (m \in 0..WinSize /\ offset + m <= case.input.length)
    <2>1. offset \in Nat /\ offset <= case.input.length /\ WinSize \in Nat
      BY CaseTypes DEF LoopTypes
    <2> QED
      BY <2>1, CaseTypes, NreadRange DEF LoopTypes
  <1>4. CASE m = -1
    <2>1. Fail /\ nread' = nread /\ offset' = offset /\ avail' = avail /\ lost' = lost
      BY <1>4 DEF ReadInput
    <2>2. LoopTypes' /\ Accounts'
      BY <1>1, <1>2, <2>1 DEF LoopTypes, Accounts, Fail
    <2> QED
      BY <1>1, <1>2, <2>1, <2>2, FailKeepsInv DEF DecodedInParts, EncodedInReads, AllButLastFull
  <1>5. CASE m # -1
    <2>1. /\ nread' = m /\ offset' = offset + m /\ avail' = avail + m
          /\ lost' = (lost \/ m < AtMost(WinSize, case.input.length - offset))
          /\ pc' = IF m = 0 /\ windows # <<>> THEN "finish" ELSE "input"
          /\ verdict' = verdict
      BY <1>5 DEF ReadInput
    <2> HIDE DEF m
    <2>0. /\ m \in Nat /\ m <= WinSize /\ offset \in Nat /\ offset + m <= case.input.length
          /\ WinSize \in Nat /\ case.input.length \in Nat /\ avail \in Nat
      BY <1>3, <1>5
    <2>2. LoopTypes'
      BY <1>1, <1>3, <1>5, <2>1 DEF LoopTypes
    <2>3. Accounts'
      <3>1. Total(windows) \in Nat
        BY TotalOfMore DEF LoopTypes
      <3>2. Encoding \/ part = 0 \/ case.parts[1] \in Nat
        BY CaseTypes DEF LoopTypes
      <3>3. PICK w \in Nat, h \in Nat :
               /\ w = Total(windows)
               /\ h = IF Encoding \/ part = 0 THEN 0 ELSE case.parts[1]
        BY <3>1, <3>2
      <3>4. offset = avail + w + h
        BY <3>3 DEF Accounts
      <3>5. offset' = avail' + w + h
        BY <2>0, <2>1, <3>4
      <3> QED
        BY <1>1, <1>2, <3>3, <3>5 DEF Accounts
    <2>4. EndSeen'
      <3>1. ~lost' /\ nread' < WinSize => offset' = case.input.length
        <4>1. ASSUME ~lost', nread' < WinSize PROVE offset' = case.input.length
          <5>1. m < WinSize /\ ~(m < AtMost(WinSize, case.input.length - offset))
            BY <2>1, <4>1
          <5>2. case.input.length - offset \in Nat /\ offset + (case.input.length - offset) = case.input.length
            BY <2>0
          <5>3. m >= case.input.length - offset
            BY <2>0, <5>1, <5>2 DEF AtMost
          <5> QED
            BY <2>0, <2>1, <5>2, <5>3
        <4> QED
          BY <4>1
      <3>2. pc' = "finish" => nread' < WinSize
        BY <1>3, <2>1
      <3> QED
        BY <1>1, <3>1, <3>2 DEF EndSeen
    <2>5. EncodedInReads'
      <3>1. Encoding => AllFull /\ AllButLastFull /\ avail' = m
        BY <1>1, <1>3, <1>5, <2>1 DEF EncodedInReads
      <3>2. Encoding /\ avail' = 0 => pc' = "finish" \/ windows' = <<>>
        BY <1>1, <2>1, <3>1
      <3> QED
        BY <1>1, <1>2, <2>1, <3>1, <3>2 DEF EncodedInReads
    <2>6. DecodedInParts' /\ SourceFirst' /\ SuccessIsComplete'
      BY <1>1, <1>2, <2>1 DEF DecodedInParts, SourceFirst, SuccessIsComplete, HaveSource
    <2> QED
      BY <1>1, <2>1, <2>2, <2>3, <2>4, <2>5, <2>6
  <1> QED
    BY <1>4, <1>5

\* The header of the patch keeps it: it is the first part.
LEMMA GotHeaderKeepsInv ==
    ASSUME LoopInv, GotHeader
    PROVE  LoopInv'
  <1> USE DEF LoopInv
  <1>1. /\ case' = case /\ nread' = nread /\ offset' = offset /\ windows' = windows
        /\ ofile' = ofile /\ pc = "input" /\ lost \in BOOLEAN
        /\ part = 0 /\ part' = 1 /\ avail' = avail - case.parts[1] /\ avail >= case.parts[1]
        /\ ~Encoding
    BY DEF GotHeader, HeaderThere, LoopTypes
  <1>2. Encoding' = Encoding /\ (AllFull)' = AllFull /\ (AllButLastFull)' = AllButLastFull
    BY <1>1 DEF Encoding, AllFull, AllButLastFull
  <1>3. /\ lost' \in BOOLEAN /\ (lost => lost')
        /\ \/ pc' = "input" /\ verdict' = verdict /\ (sname' # "none" => HaveSource')
           \/ Fail
    <2>1. PICK s : /\ sname' = s
                   /\ IF s # "none" THEN Sourced("input")
                      ELSE UNCHANGED <<pc, source, lost, seen, asked, verdict>>
      BY DEF GotHeader
    <2>2. CASE s # "none"
      <3>1. Sourced("input")
        BY <2>1, <2>2
      <3> QED
        BY <1>1, <3>1, SourcedEffect
    <2>3. CASE s = "none"
      BY <1>1, <2>1, <2>3
    <2> QED
      BY <2>2, <2>3
  <1>4. LoopTypes' /\ Accounts'
    <2>1. PICK h \in Nat : h = case.parts[1]
      BY <1>1, CaseTypes DEF LoopTypes
    <2>2. PICK w \in Nat : w = Total(windows)
      BY TotalOfMore DEF LoopTypes
    <2>3. LoopTypes'
      BY <1>1, <1>3, <2>1 DEF LoopTypes, Fail
    <2>4. offset = avail + w
      BY <1>1, <2>2 DEF Accounts, LoopTypes
    <2>5. offset' = avail' + w + h
      BY <1>1, <2>1, <2>4 DEF LoopTypes
    <2> QED
      BY <1>1, <1>2, <2>1, <2>2, <2>3, <2>5 DEF Accounts
  <1>5. CASE Fail
    BY <1>1, <1>2, <1>4, <1>5, FailKeepsInv DEF DecodedInParts, EncodedInReads, AllButLastFull
  <1>6. CASE pc' = "input" /\ verdict' = verdict /\ (sname' # "none" => HaveSource')
    <2>1. EncodedInReads' /\ DecodedInParts'
      BY <1>1, <1>2, <1>6 DEF EncodedInReads, DecodedInParts
    <2>2. EndSeen' /\ SourceFirst' /\ SuccessIsComplete'
      BY <1>1, <1>2, <1>3, <1>6 DEF EndSeen, SourceFirst, DecodedInParts, SuccessIsComplete
    <2> QED
      BY <1>1, <1>4, <1>6, <2>1, <2>2
  <1> QED
    BY <1>3, <1>5, <1>6

\* A window that starts keeps it.
LEMMA WindowStartKeepsInv ==
    ASSUME LoopInv, WindowStart
    PROVE  LoopInv'
  <1> USE DEF LoopInv
  <1>1. /\ case' = case /\ nread' = nread /\ offset' = offset /\ windows' = windows
        /\ avail' = avail /\ part' = part /\ source' = source /\ sname' = sname
        /\ ofile' = ofile /\ lost' = lost /\ verdict' = verdict
        /\ pc = "input" /\ pc' = "window" /\ WindowThere
    BY DEF WindowStart
  <1>2. Encoding' = Encoding /\ (AllFull)' = AllFull /\ (AllButLastFull)' = AllButLastFull
    BY <1>1 DEF Encoding, AllFull, AllButLastFull
  <1>3. LoopTypes' /\ Accounts' /\ EndSeen'
    BY <1>1, <1>2 DEF LoopTypes, Accounts, EndSeen
  <1>4. EncodedInReads'
    BY <1>1, <1>2 DEF EncodedInReads, WindowThere
  <1>5. DecodedInParts'
    BY <1>1, <1>2 DEF DecodedInParts, WindowThere
  <1>6. SourceFirst' /\ SuccessIsComplete'
    BY <1>1, <1>2 DEF SourceFirst, SuccessIsComplete, HaveSource
  <1> QED
    BY <1>1, <1>3, <1>4, <1>5, <1>6

\* Asking for more input keeps it: a short read was the last.
LEMMA NeedInputKeepsInv ==
    ASSUME LoopInv, NeedInput
    PROVE  LoopInv'
  <1> USE DEF LoopInv
  <1>1. /\ case' = case /\ nread' = nread /\ offset' = offset /\ windows' = windows
        /\ avail' = avail /\ part' = part /\ source' = source /\ sname' = sname
        /\ ofile' = ofile /\ lost' = lost /\ verdict' = verdict
        /\ pc = "input" /\ ~WindowThere
        /\ pc' = IF nread = WinSize THEN "read" ELSE "finish"
    BY DEF NeedInput, Again
  <1>2. Encoding' = Encoding /\ (AllFull)' = AllFull /\ (AllButLastFull)' = AllButLastFull
    BY <1>1 DEF Encoding, AllFull, AllButLastFull
  <1>3. /\ WinSize \in Nat /\ nread \in Nat /\ nread <= WinSize /\ avail \in Nat
        /\ windows \in Seq(Nat) /\ Len(windows) \in Nat
    BY CaseTypes, LenProperties DEF LoopTypes
  <1>4. LoopTypes' /\ Accounts'
    BY <1>1, <1>2 DEF LoopTypes, Accounts
  <1>5. EndSeen'
    BY <1>1, <1>3 DEF EndSeen
  <1>6. EncodedInReads'
    <2>1. Encoding => avail = 0 /\ windows # <<>>
      BY <1>1, <1>3 DEF WindowThere
    <2>2. Encoding /\ nread = WinSize => AllFull
      <3>1. ASSUME Encoding, nread = WinSize, NEW n \in 1..Len(windows)
            PROVE  windows[n] = WinSize
        <4>1. CASE n = Len(windows)
          BY <1>1, <2>1, <3>1, <4>1 DEF EncodedInReads
        <4>2. CASE n # Len(windows)
          <5>1. n \in 1..(Len(windows) - 1)
            BY <1>3, <4>2
          <5> QED
            BY <3>1, <5>1 DEF EncodedInReads, AllButLastFull
        <4> QED
          BY <4>1, <4>2
      <3> QED
        BY <3>1 DEF AllFull
    <2>3. pc' = "read" => nread = WinSize
      BY <1>1
    <2>4. Encoding => AllButLastFull
      BY DEF EncodedInReads
    <2>5. pc' \in {"read", "finish"}
      BY <1>1
    <2> QED
      BY <1>1, <1>2, <1>3, <2>1, <2>2, <2>3, <2>4, <2>5 DEF EncodedInReads
  <1>7. DecodedInParts' /\ SourceFirst' /\ SuccessIsComplete'
    BY <1>1, <1>2 DEF DecodedInParts, SourceFirst, SuccessIsComplete, HaveSource
  <1> QED
    BY <1>1, <1>4, <1>5, <1>6, <1>7

\* A request for a block of the source keeps it: it goes on or fails.
LEMMA AskBlockKeepsInv ==
    ASSUME LoopInv, AskBlock
    PROVE  LoopInv'
  <1> USE DEF LoopInv
  <1>1. /\ case' = case /\ nread' = nread /\ offset' = offset /\ windows' = windows
        /\ avail' = avail /\ part' = part /\ sname' = sname
        /\ ofile' = ofile /\ lost' = lost /\ pc = "window"
    BY DEF AskBlock
  <1>2. Encoding' = Encoding /\ (AllFull)' = AllFull /\ (AllButLastFull)' = AllButLastFull
    BY <1>1 DEF Encoding, AllFull, AllButLastFull
  <1>3. \/ Fail
        \/ pc' = pc /\ verdict' = verdict /\ HaveSource'
    <2>1. CASE ~HaveSource
      BY <2>1 DEF AskBlock
    <2>2. CASE HaveSource
      <3>1. PICK b \in Askable :
               LET st == GetBlock(source, case.source, b)
               IN  /\ source' = st
                   /\ IF st.ret = "ok" \/ (Encoding /\ st.ret = "TOOFARBACK")
                      THEN UNCHANGED <<pc, verdict>>
                      ELSE Fail
        BY <2>2 DEF AskBlock
      <3>2. CASE source'.ret = "ok" \/ (Encoding /\ source'.ret = "TOOFARBACK")
        <4>1. NoSource.ret = "none"
          BY DEF NoSource
        <4>2. source' # NoSource
          BY <3>2, <4>1
        <4> QED
          BY <3>1, <3>2, <4>2 DEF HaveSource
      <3>3. CASE ~(source'.ret = "ok" \/ (Encoding /\ source'.ret = "TOOFARBACK"))
        BY <3>1, <3>3
      <3> QED
        BY <3>2, <3>3
    <2> QED
      BY <2>1, <2>2
  <1>4. LoopTypes' /\ Accounts'
    BY <1>1, <1>2, <1>3 DEF LoopTypes, Accounts, Fail
  <1>5. CASE Fail
    BY <1>1, <1>2, <1>4, <1>5, FailKeepsInv DEF DecodedInParts, EncodedInReads
  <1>6. CASE pc' = pc /\ verdict' = verdict /\ HaveSource'
    <2>1. EncodedInReads' /\ DecodedInParts'
      BY <1>1, <1>2, <1>6 DEF EncodedInReads, DecodedInParts
    <2>2. EndSeen' /\ SourceFirst' /\ SuccessIsComplete'
      BY <1>1, <1>2, <1>6 DEF EndSeen, SourceFirst, SuccessIsComplete
    <2> QED
      BY <1>1, <1>4, <1>6, <2>1, <2>2
  <1> QED
    BY <1>3, <1>5, <1>6

\* A window that is done keeps it: its bytes go from avail to windows.
LEMMA WindowDoneKeepsInv ==
    ASSUME LoopInv, WindowDone
    PROVE  LoopInv'
  <1> USE DEF LoopInv
  <1> DEFINE n == IF Encoding THEN avail ELSE case.parts[part + 1]
  <1>1. /\ case' = case /\ nread' = nread /\ offset' = offset
        /\ sname' = sname /\ lost' = lost /\ pc = "window" /\ source' = source
    BY DEF WindowDone
  <1>2. Encoding' = Encoding
    BY <1>1 DEF Encoding
  <1>3. /\ windows \in Seq(Nat) /\ Len(windows) \in Nat /\ avail \in Nat /\ n \in Nat /\ n <= avail
        /\ part \in Nat
    <2>1. windows \in Seq(Nat) /\ Len(windows) \in Nat /\ avail \in Nat /\ part \in Nat
      BY LenProperties DEF LoopTypes
    <2>2. CASE Encoding
      BY <2>1, <2>2
    <2>3. CASE ~Encoding
      <3>1. part + 1 \in 1..Len(case.parts) /\ avail >= case.parts[part + 1]
        BY <1>1, <2>1, <2>3, CaseTypes DEF DecodedInParts, LoopTypes
      <3>2. case.parts[part + 1] \in Nat
        BY <2>3, <3>1, CaseTypes DEF LoopTypes
      <3> QED
        BY <2>1, <2>3, <3>1, <3>2
    <2> QED
      BY <2>2, <2>3
  <1>4. CASE Fail /\ windows' = windows /\ avail' = avail /\ part' = part
    <2>1. (AllButLastFull)' = AllButLastFull
      BY <1>1, <1>4 DEF AllButLastFull
    <2>2. LoopTypes' /\ Accounts'
      BY <1>1, <1>2, <1>4 DEF LoopTypes, Accounts, Fail
    <2> QED
      BY <1>1, <1>2, <1>4, <2>1, <2>2, FailKeepsInv DEF DecodedInParts, EncodedInReads
  <1>5. CASE /\ pc' = "input" /\ windows' = Append(windows, n) /\ avail' = avail - n
             /\ part' = part + 1 /\ verdict' = verdict
    <2> HIDE DEF n
    <2>1. /\ windows' \in Seq(Nat) /\ Len(windows') = Len(windows) + 1
          /\ \A k \in 1..Len(windows) : windows'[k] = windows[k]
          /\ windows'[Len(windows')] = n /\ windows' # <<>>
      <3>1. /\ windows' \in Seq(Nat) /\ Len(windows') = Len(windows) + 1
            /\ \A k \in 1..Len(windows) : windows'[k] = windows[k]
            /\ windows'[Len(windows) + 1] = n
        BY <1>3, <1>5, AppendProperties
      <3>2. Len(windows') # 0
        BY <1>3, <3>1
      <3> QED
        BY <3>1, <3>2, EmptySeq
    <2>2. LoopTypes'
      BY <1>1, <1>3, <1>5, <2>1 DEF LoopTypes
    <2>3. Accounts'
      <3>1. Total(windows) \in Nat /\ Total(windows') = Total(windows) + n
        BY <1>3, <1>5, TotalOfMore
      <3>2. PICK h \in Nat :
              /\ h = IF Encoding \/ part = 0 THEN 0 ELSE case.parts[1]
              /\ h = IF Encoding \/ part' = 0 THEN 0 ELSE case.parts[1]
        <4>1. Encoding \/ (part # 0 /\ part' # 0)
          BY <1>1, <1>3, <1>5 DEF DecodedInParts
        <4>2. Encoding \/ case.parts[1] \in Nat
          BY CaseTypes DEF LoopTypes
        <4> QED
          BY <4>1, <4>2
      <3>3. offset = avail + Total(windows) + h
        BY <3>2 DEF Accounts
      <3>4. offset' = avail' + Total(windows') + h
        BY <1>1, <1>3, <1>5, <3>1, <3>3
      <3> QED
        BY <1>1, <1>2, <3>2, <3>4 DEF Accounts
    <2>4. EncodedInReads'
      <3>1. SUFFICES ASSUME Encoding PROVE EncodedInReads'
        BY <1>2 DEF EncodedInReads
      <3>2. n = avail /\ avail' = 0
        BY <1>3, <1>5, <3>1 DEF n
      <3>3. AllFull
        <4>1. windows = <<>> => Len(windows) = 0
          BY EmptySeq
        <4> QED
          BY <1>1, <1>3, <3>1, <4>1 DEF EncodedInReads, AllFull
      <3>4. \A k \in 1..(Len(windows') - 1) : windows'[k] = WinSize
        <4>1. Len(windows') - 1 = Len(windows)
          BY <1>3, <2>1
        <4> QED
          BY <2>1, <3>3, <4>1 DEF AllFull
      <3>5. (AllButLastFull)'
        BY <3>4 DEF AllButLastFull
      <3>6. n = nread
        BY <1>1, <3>1, <3>2 DEF EncodedInReads
      <3> QED
        BY <1>1, <1>2, <1>5, <2>1, <3>2, <3>5, <3>6 DEF EncodedInReads
    <2>5. EndSeen' /\ DecodedInParts' /\ SourceFirst' /\ SuccessIsComplete'
      <3>1. part' > 0
        BY <1>3, <1>5
      <3>2. ~Encoding => part > 0
        BY <1>1, <1>3 DEF DecodedInParts
      <3> QED
        BY <1>1, <1>2, <1>5, <3>1, <3>2 DEF EndSeen, DecodedInParts, SourceFirst, SuccessIsComplete,
           HaveSource
    <2> QED
      BY <1>1, <1>5, <2>1, <2>2, <2>3, <2>4, <2>5
  <1>6. \/ Fail /\ windows' = windows /\ avail' = avail /\ part' = part
        \/ /\ pc' = "input" /\ windows' = Append(windows, n) /\ avail' = avail - n
           /\ part' = part + 1 /\ verdict' = verdict
    BY DEF WindowDone
  <1> QED
    BY <1>4, <1>5, <1>6

\* The end of main_input keeps it, and what it says is true.
LEMMA FinishKeepsInv ==
    ASSUME LoopInv, Finish
    PROVE  LoopInv'
  <1> USE DEF LoopInv
  <1>1. /\ case' = case /\ nread' = nread /\ offset' = offset /\ windows' = windows
        /\ avail' = avail /\ part' = part /\ lost' = lost /\ pc = "finish" /\ pc' = "end"
    BY DEF Finish
  <1>2. Encoding' = Encoding /\ (AllFull)' = AllFull /\ (AllButLastFull)' = AllButLastFull
    BY <1>1 DEF Encoding, AllFull, AllButLastFull
  <1>3. LoopTypes' /\ Accounts' /\ EndSeen' /\ EncodedInReads' /\ DecodedInParts' /\ SourceFirst'
    BY <1>1, <1>2 DEF LoopTypes, Accounts, EndSeen, EncodedInReads, DecodedInParts, SourceFirst
  <1>4. SuccessIsComplete'
    <2>1. SUFFICES ASSUME verdict' = "done", ~lost' PROVE SuccessIsComplete'
      BY DEF SuccessIsComplete
    <2>2. ofile = "open" /\ (Encoding \/ avail = 0)
      BY <2>1 DEF Finish, Closed, AtBoundary
    <2>3. avail = 0 /\ windows # <<>> /\ offset = case.input.length
      BY <1>1, <2>1, <2>2 DEF EndSeen, EncodedInReads
    <2>4. PICK w \in Nat : w = Total(windows)
      BY TotalOfMore DEF LoopTypes
    <2>5. offset = avail + w + (IF Encoding \/ part = 0 THEN 0 ELSE case.parts[1])
      BY <2>4 DEF Accounts
    <2>6. Encoding => w = case.input.length
      BY <2>3, <2>5
    <2>7. ~Encoding => case.parts[1] + w = case.input.length
      <3>1. ~Encoding => part # 0 /\ case.parts[1] \in Nat
        BY <2>3, CaseTypes DEF DecodedInParts, LoopTypes
      <3> QED
        BY <2>3, <2>4, <2>5, <3>1
    <2>8. Encoding => AllButLastFull
      BY DEF EncodedInReads
    <2> QED
      BY <1>1, <1>2, <2>3, <2>4, <2>6, <2>7, <2>8 DEF SuccessIsComplete, AllButLastFull
  <1> QED
    BY <1>1, <1>3, <1>4

\* Nothing happens: nothing is lost.
LEMMA LoopStutter ==
    ASSUME LoopInv, UNCHANGED vars
    PROVE  LoopInv'
  <1>1. /\ case' = case /\ nread' = nread /\ offset' = offset /\ windows' = windows
        /\ avail' = avail /\ part' = part /\ lost' = lost /\ pc' = pc /\ source' = source
        /\ sname' = sname /\ ofile' = ofile /\ verdict' = verdict
    BY DEF vars
  <1>2. Encoding' = Encoding /\ (AllFull)' = AllFull /\ (AllButLastFull)' = AllButLastFull
    BY <1>1 DEF Encoding, AllFull, AllButLastFull
  <1>3. LoopTypes' /\ Accounts' /\ EndSeen' /\ EncodedInReads' /\ DecodedInParts' /\ SourceFirst'
    BY <1>1, <1>2 DEF LoopInv, LoopTypes, Accounts, EndSeen, EncodedInReads, DecodedInParts,
       SourceFirst, HaveSource
  <1>4. SuccessIsComplete'
    BY <1>1, <1>2 DEF LoopInv, SuccessIsComplete, AllButLastFull
  <1> QED
    BY <1>1, <1>3, <1>4 DEF LoopInv

\* The invariant is inductive.
LEMMA LoopStep == LoopInv /\ [Next]_vars => LoopInv'
  <1> SUFFICES ASSUME LoopInv, [Next]_vars PROVE LoopInv'
    OBVIOUS
  <1> QED
    BY StartKeepsInv, ReadInputKeepsInv, GotHeaderKeepsInv, WindowStartKeepsInv,
       NeedInputKeepsInv, AskBlockKeepsInv, WindowDoneKeepsInv, FinishKeepsInv, LoopStutter
       DEF Next

\* The loop over the input of main_input keeps its accounts, whatever the files, the
\* patch, the reads that fail and the blocks the windows ask for.
THEOREM LoopInvariant == Spec => []LoopInv
  BY LoopStart, LoopStep, PTL DEF Spec

\* When xdelta3 says that it succeeded, all of the input went through (main_input).
THEOREM SuccessIsCompleteHolds == Spec => []SuccessIsComplete
  <1>1. LoopInv => SuccessIsComplete
    BY DEF LoopInv
  <1> QED
    BY <1>1, LoopInvariant, PTL

\* The output file is not touched before there is a window to write, with the names known
\* and the source open, nor without -f when it exists (main_open_output).
THEOREM OpenedLateHolds == Spec => OpenedLate
  <1>1. ASSUME LoopInv, [Next]_vars, ofile' = "open", ofile # "open"
        PROVE  /\ oname # "none" /\ ofile = "old" => case.force
               /\ pc = "window" /\ (~Encoding => part > 0)
               /\ sname # "none" => HaveSource
    <2>1. WindowDone
      BY <1>1 DEF Next, Start, ReadInput, GotHeader, WindowStart, NeedInput, AskBlock, Finish, vars
    <2>2. pc = "window" /\ MayOpen
      BY <1>1, <2>1 DEF WindowDone
    <2>3. ~Encoding => part > 0
      BY <1>1, <2>2 DEF LoopInv, LoopTypes, DecodedInParts
    <2>4. sname # "none" => HaveSource
      BY <1>1, <2>2, <2>3 DEF LoopInv, SourceFirst
    <2> QED
      BY <2>2, <2>3, <2>4 DEF MayOpen
  <1>2. LoopInv /\ [Next]_vars =>
           [ofile' = "open" /\ ofile # "open" =>
              /\ oname # "none" /\ ofile = "old" => case.force
              /\ pc = "window" /\ (~Encoding => part > 0)
              /\ sname # "none" => HaveSource]_vars
    BY <1>1
  <1> QED
    BY <1>2, LoopInvariant, PTL DEF Spec, OpenedLate

-----------------------------------------------------------------------------
(* Numbers and lists.                                                        *)

\* Two numbers with the same place in a ring of N are N apart.
LEMMA SameResidue ==
    ASSUME NEW N \in Nat \ {0}, NEW a \in Nat, NEW b \in Nat, a % N = b % N, a < b
    PROVE  b >= a + N
  <1>1. PICK p \in Int, q \in Int, r \in Int : a = p * N + r /\ b = q * N + r
    <2>1. a = (a \div N) * N + (a % N) /\ b = (b \div N) * N + (b % N)
      OBVIOUS
    <2>2. a \div N \in Int /\ b \div N \in Int /\ a % N \in Int
      OBVIOUS
    <2> QED
      BY <2>1, <2>2
  <1>2. q - p >= 1
    <2>1. CASE q <= p
      <3>1. (p - q) * N >= 0
        BY <2>1
      <3>2. p * N - q * N = (p - q) * N
        BY <1>1
      <3> QED
        BY <1>1, <3>1, <3>2
    <2> QED
      BY <1>1, <2>1
  <1>3. (q - p) * N >= N
    <2>1. PICK d \in Nat : q - p = 1 + d
      BY <1>1, <1>2
    <2>2. (1 + d) * N = N + d * N /\ d * N >= 0
      BY <2>1
    <2> QED
      BY <2>1, <2>2
  <1>4. q * N - p * N = (q - p) * N
    BY <1>1
  <1> QED
    BY <1>1, <1>3, <1>4

\* e moved from place p to the end.
LEMMA MovedFound ==
    ASSUME NEW S, NEW s \in Seq(S), NEW p \in 1..Len(s),
           \A k \in 1..Len(s) : s[k] = s[p] => k = p
    PROVE  /\ Moved(s, s[p]) \in Seq(S) /\ Len(Moved(s, s[p])) = Len(s)
           /\ \A k \in 1..Len(s) :
                Moved(s, s[p])[k] = IF k < p THEN s[k] ELSE IF k < Len(s) THEN s[k + 1] ELSE s[p]
  <1> DEFINE e == s[p]
             front == SubSeq(s, 1, p - 1)
             back == SubSeq(s, p + 1, Len(s))
  <1>0. Len(s) \in Nat /\ DOMAIN s = 1..Len(s) /\ e \in S
    BY LenProperties, ElementOfSeq
  <1>1. Place(s, e) = p
    BY <1>0 DEF Place
  <1>2. Moved(s, e) = Append(front \o back, e)
    BY <1>0, <1>1 DEF Moved, RemoveAt
  <1>3. /\ front \in Seq(S) /\ Len(front) = p - 1
        /\ \A k \in 1..(p - 1) : front[k] = s[k]
    <2>1. \A k \in 1..(p - 1) : s[k] \in S
      BY <1>0, ElementOfSeq
    <2>2. 1 \in Int /\ p - 1 \in Int /\ (p - 1) - 1 + 1 = p - 1
      BY <1>0
    <2>3. /\ front \in Seq(S) /\ Len(front) = IF 1 <= p - 1 THEN (p - 1) - 1 + 1 ELSE 0
          /\ \A k \in 1..((p - 1) - 1 + 1) : front[k] = s[1 + k - 1]
      BY <2>1, <2>2, SubSeqProperties
    <2> QED
      BY <1>0, <2>3
  <1>4. /\ back \in Seq(S) /\ Len(back) = Len(s) - p
        /\ \A k \in 1..(Len(s) - p) : back[k] = s[p + k]
    <2>1. \A k \in (p + 1)..Len(s) : s[k] \in S
      BY <1>0, ElementOfSeq
    <2>2. p + 1 \in Int /\ Len(s) \in Int
      BY <1>0
    <2>3. /\ back \in Seq(S) /\ Len(back) = IF p + 1 <= Len(s) THEN Len(s) - (p + 1) + 1 ELSE 0
          /\ \A k \in 1..(Len(s) - (p + 1) + 1) : back[k] = s[p + 1 + k - 1]
      BY <2>1, <2>2, SubSeqProperties
    <2>4. PICK L \in Nat : L = Len(s)
      BY <1>0
    <2>5. (IF p + 1 <= L THEN L - (p + 1) + 1 ELSE 0) = L - p /\ L - (p + 1) + 1 = L - p
      BY <2>4
    <2>6. ASSUME NEW k \in 1..(L - p) PROVE back[k] = s[p + k]
      <3>1. p + 1 + k - 1 = p + k
        BY <2>4
      <3> QED
        BY <2>3, <2>4, <2>5, <3>1
    <2> QED
      BY <2>3, <2>4, <2>5, <2>6
  <1> HIDE DEF front, back, e
  <1> DEFINE rest == front \o back
  <1>5. /\ rest \in Seq(S) /\ Len(rest) = Len(s) - 1
        /\ \A k \in 1..(Len(s) - 1) : rest[k] = IF k < p THEN s[k] ELSE s[k + 1]
    <2>1. /\ rest \in Seq(S) /\ Len(rest) = Len(front) + Len(back)
          /\ \A k \in 1..(Len(front) + Len(back)) :
                rest[k] = IF k <= Len(front) THEN front[k] ELSE back[k - Len(front)]
      BY <1>3, <1>4, ConcatProperties
    <2>2. Len(front) + Len(back) = Len(s) - 1
      BY <1>0, <1>3, <1>4
    <2>3. ASSUME NEW k \in 1..(Len(s) - 1) PROVE rest[k] = IF k < p THEN s[k] ELSE s[k + 1]
      <3>1. CASE k < p
        BY <1>0, <1>3, <2>1, <2>2, <2>3, <3>1
      <3>2. CASE ~(k < p)
        <4>1. rest[k] = back[k - (p - 1)] /\ k - (p - 1) \in 1..(Len(s) - p)
          BY <1>0, <1>3, <2>1, <2>2, <2>3, <3>2
        <4>2. p + (k - (p - 1)) = k + 1
          BY <1>0, <2>3
        <4> QED
          BY <1>4, <3>2, <4>1, <4>2
      <3> QED
        BY <3>1, <3>2
    <2> QED
      BY <2>1, <2>2, <2>3
  <1> HIDE DEF rest
  <1>6. /\ Append(rest, e) \in Seq(S) /\ Len(Append(rest, e)) = Len(rest) + 1
        /\ \A k \in 1..Len(rest) : Append(rest, e)[k] = rest[k]
        /\ Append(rest, e)[Len(rest) + 1] = e
    <2>1. rest \in Seq(S) /\ e \in S
      BY <1>0, <1>5
    <2> QED
      BY <2>1, AppendProperties
  <1>7. Moved(s, e) = Append(rest, e)
    BY <1>2 DEF rest
  <1>8. ASSUME NEW k \in 1..Len(s)
        PROVE  Moved(s, e)[k] = IF k < p THEN s[k] ELSE IF k < Len(s) THEN s[k + 1] ELSE e
    <2>0. PICK L \in Nat : L = Len(s)
      BY <1>0
    <2>1. CASE k = Len(s)
      <3>1. ~(k < p) /\ ~(k < Len(s)) /\ Len(rest) + 1 = k
        BY <1>5, <2>0, <2>1
      <3> QED
        BY <1>6, <1>7, <3>1
    <2>2. CASE k # Len(s)
      <3>1. k \in 1..(Len(s) - 1) /\ k < Len(s)
        BY <2>0, <2>2
      <3> QED
        BY <1>5, <1>6, <1>7, <3>1
    <2> QED
      BY <2>1, <2>2
  <1>9. Len(Moved(s, e)) = Len(s)
    <2>1. PICK L \in Nat : L = Len(s)
      BY <1>0
    <2> QED
      BY <1>5, <1>6, <1>7, <2>1
  <1> QED
    BY <1>6, <1>7, <1>8, <1>9 DEF e

\* e is new.
AtEnd(m, s, e) ==
    /\ Len(m) = Len(s) + 1
    /\ \A k \in 1..Len(s) : m[k] = s[k]
    /\ m[Len(s) + 1] = e

\* What was not in the list is put at its end.
LEMMA MovedNew ==
    ASSUME NEW S, NEW s \in Seq(S), NEW e \in S, ~ \E k \in 1..Len(s) : s[k] = e
    PROVE  Moved(s, e) \in Seq(S) /\ AtEnd(Moved(s, e), s, e)
  <1>1. Moved(s, e) = Append(s, e)
    BY LenProperties DEF Moved
  <1> QED
    BY <1>1, AppendProperties DEF AtEnd

Once(s) == \A j, k \in 1..Len(s) : s[j] = s[k] => j = k

\* All of s is in m, and e is.
HasAll(m, s, e) ==
    /\ \A k \in 1..Len(s) : \E j \in 1..Len(m) : m[j] = s[k]
    /\ \E j \in 1..Len(m) : m[j] = e

\* A list that holds nothing twice holds nothing twice after a move either.
LEMMA MovedOnce ==
    ASSUME NEW S, NEW s \in Seq(S), Once(s), NEW e \in S
    PROVE  /\ Moved(s, e) \in Seq(S) /\ Once(Moved(s, e))
           /\ HasAll(Moved(s, e), s, e) /\ Len(Moved(s, e)) >= Len(s)
  <1>0. Len(s) \in Nat
    BY LenProperties
  <1>1. CASE \E p \in 1..Len(s) : s[p] = e
    <2>1. PICK p \in 1..Len(s) : s[p] = e
      BY <1>1
    <2> DEFINE m == Moved(s, e)
    <2>2. /\ m \in Seq(S) /\ Len(m) = Len(s)
          /\ \A k \in 1..Len(s) :
                m[k] = IF k < p THEN s[k] ELSE IF k < Len(s) THEN s[k + 1] ELSE s[p]
      <3>1. \A k \in 1..Len(s) : s[k] = s[p] => k = p
        BY DEF Once
      <3> QED
        BY <2>1, <3>1, MovedFound
    <2> HIDE DEF m
    <2>3. Once(m)
      <3> SUFFICES ASSUME NEW j \in 1..Len(s), NEW k \in 1..Len(s), m[j] = m[k]
                   PROVE  j = k
        BY <2>2 DEF Once
      <3> DEFINE at(x) == IF x < p THEN x ELSE IF x < Len(s) THEN x + 1 ELSE p
      <3>1. at(j) \in 1..Len(s) /\ at(k) \in 1..Len(s) /\ m[j] = s[at(j)] /\ m[k] = s[at(k)]
        BY <1>0, <2>2
      <3>2. at(j) = at(k)
        BY <3>1 DEF Once
      <3> QED
        BY <1>0, <3>2
    <2>4. ASSUME NEW k \in 1..Len(s) PROVE \E j \in 1..Len(m) : m[j] = s[k]
      <3>1. CASE k < p
        BY <2>2, <3>1
      <3>2. CASE k = p
        <4>1. Len(s) \in 1..Len(s) /\ ~(Len(s) < p) /\ ~(Len(s) < Len(s))
          BY <1>0
        <4> QED
          BY <2>2, <3>2, <4>1
      <3>3. CASE k > p
        <4>1. k - 1 \in 1..Len(s) /\ ~(k - 1 < p) /\ k - 1 < Len(s) /\ (k - 1) + 1 = k
          BY <1>0, <3>3
        <4> QED
          BY <2>2, <4>1
      <3> QED
        BY <1>0, <3>1, <3>2, <3>3
    <2>5. \E j \in 1..Len(m) : m[j] = e
      BY <2>1, <2>4
    <2> QED
      <3>1. HasAll(m, s, e)
        BY <2>4, <2>5 DEF HasAll
      <3> QED
        BY <1>0, <2>2, <2>3, <3>1 DEF m
  <1>2. CASE ~ \E p \in 1..Len(s) : s[p] = e
    <2>1. /\ Moved(s, e) \in Seq(S) /\ Len(Moved(s, e)) = Len(s) + 1
          /\ \A k \in 1..Len(s) : Moved(s, e)[k] = s[k]
          /\ Moved(s, e)[Len(s) + 1] = e
      BY <1>2, MovedNew DEF AtEnd
    <2>2. Once(Moved(s, e))
      BY <1>0, <1>2, <2>1 DEF Once
    <2>3. HasAll(Moved(s, e), s, e)
      <3>1. PICK m : m = Moved(s, e)
        OBVIOUS
      <3>2. Len(m) = Len(s) + 1 /\ (\A k \in 1..Len(s) : m[k] = s[k]) /\ m[Len(s) + 1] = e
        BY <2>1, <3>1
      <3>3. \A k \in 1..Len(s) : k \in 1..Len(m)
        BY <1>0, <3>2
      <3>4. Len(s) + 1 \in 1..Len(m)
        BY <1>0, <3>2
      <3>5. HasAll(m, s, e)
        BY <3>2, <3>3, <3>4 DEF HasAll
      <3> QED
        BY <3>1, <3>5
    <2> QED
      BY <1>0, <2>1, <2>2, <2>3
  <1> QED
    BY <1>1, <1>2

-----------------------------------------------------------------------------
(* What the operations on the cache change.                                  *)

Fields == {"slots", "recent", "fifo", "blksize", "position", "offset", "seek_failed", "first",
           "slot", "new", "known", "size", "cur", "ret"}

Blocks == [blkno : Int, at : Nat, size : Nat]

\* Nothing but the fields named is changed.
Same(r, st, changed) == DOMAIN r = Fields /\ \A x \in Fields \ changed : r[x] = st[x]

Shape(st) ==
    /\ DOMAIN st = Fields
    /\ st.slots \in Seq(Blocks) /\ Len(st.slots) >= 1
    /\ st.recent \in Seq(1..Len(st.slots)) /\ Len(st.recent) >= 1 /\ Once(st.recent)
    /\ st.fifo \in BOOLEAN /\ st.seek_failed \in BOOLEAN
    /\ st.blksize \in Nat /\ st.blksize > 0
    /\ st.position \in Nat /\ st.offset \in Nat
    /\ st.slot \in 1..Len(st.slots) /\ st.new \in BOOLEAN /\ st.first \in BOOLEAN

\* The slot is to be read into.
Freed(slots, i) == [slots EXCEPT ![i] = [slots[i] EXCEPT !.blkno = Invalid]]

\* A return code changes nothing else.
LEMMA ReturnedIs ==
    ASSUME NEW st, DOMAIN st = Fields, NEW code
    PROVE  Same(Returned(st, code), st, {"ret"}) /\ Returned(st, code).ret = code
  BY DEF Returned, Same, Fields

\* What is read into a slot.
Read(r, got, i, n, label) ==
    /\ r.slots = [got.slots EXCEPT ![i] = [blkno |-> label, at |-> got.offset, size |-> n]]
    /\ r.offset = got.offset + n

\* A read changes its slot and the place in the file.
LEMMA FilledAtIs ==
    ASSUME NEW st, DOMAIN st = Fields, NEW i, NEW n, NEW label
    PROVE  /\ Same(FilledAt(st, i, n, label), st, {"slots", "offset"})
           /\ Read(FilledAt(st, i, n, label), st, i, n, label)
  BY DEF FilledAt, Same, Fields, Read

\* Freeing a slot takes its label.
LEMMA EmptiedIs ==
    ASSUME NEW st, DOMAIN st = Fields, NEW i
    PROVE  /\ Same(Emptied(st, i), st, {"slots", "slot", "new"})
           /\ Emptied(st, i).slots = Freed(st.slots, i)
           /\ Emptied(st, i).slot = i /\ Emptied(st, i).new = TRUE
  BY DEF Emptied, Same, Fields, Freed

\* A hit changes the order of use.
LEMMA HitIs ==
    ASSUME NEW st, DOMAIN st = Fields, NEW i
    PROVE  /\ Same(Hit(st, i), st, {"recent", "slot", "new"})
           /\ Hit(st, i).recent = Moved(st.recent, i)
           /\ Hit(st, i).slot = i /\ Hit(st, i).new = FALSE
  BY DEF Hit, Same, Fields

\* A block has its place in the ring.
LEMMA RingSlotIs ==
    ASSUME NEW b \in Nat, NEW N \in Nat, N >= 1
    PROVE  RingSlot(b, N) \in 1..N
  BY DEF RingSlot

\* main_getblk_lru in a ring: the block is there, a later one is, or its slot is free.
RingOutcome(r, st, b, i) ==
    \/ /\ st.slots[i].blkno = b /\ r.ret = "ok"
       /\ Same(r, st, {"slot", "new", "ret"}) /\ r.slot = i /\ r.new = FALSE
    \/ /\ st.slots[i].blkno # Invalid /\ st.slots[i].blkno > b /\ r.ret = "TOOFARBACK"
       /\ Same(r, st, {"ret"})
    \/ /\ st.slots[i].blkno = Invalid \/ st.slots[i].blkno < b
       /\ r.ret = "ok" /\ r.slot = i /\ r.new = TRUE
       /\ Same(r, st, {"slots", "slot", "new", "ret"})
       /\ r.slots = Freed(st.slots, i)

\* The three outcomes are all there are.
LEMMA RingLru ==
    ASSUME NEW st, Shape(st), st.fifo, NEW b \in Nat
    PROVE  RingOutcome(GetLru(st, b), st, b, RingSlot(b, Len(st.slots)))
  <1> SUFFICES ASSUME NEW i, i = RingSlot(b, Len(st.slots)), NEW r, r = GetLru(st, b)
               PROVE  RingOutcome(r, st, b, i)
    OBVIOUS
  <1> USE DEF RingOutcome
  <1> DEFINE t == Returned(st, "ok")
             label == st.slots[i].blkno
  <1>1. Same(t, st, {"ret"}) /\ t.ret = "ok"
    BY ReturnedIs DEF Shape
  <1>2. t.slots = st.slots /\ DOMAIN t = Fields
    BY <1>1 DEF Same, Fields
  <1>3. r = FromRing(t, b)
    BY DEF GetLru
  <1> HIDE DEF t
  <1>4. r = IF label = b THEN [t EXCEPT !.slot = i, !.new = FALSE]
            ELSE IF label # Invalid /\ label > b THEN Returned(t, "TOOFARBACK")
            ELSE Emptied(t, i)
    BY <1>2, <1>3 DEF FromRing
  <1>5. label \in Int
    <2>1. i \in 1..Len(st.slots)
      BY RingSlotIs, LenProperties DEF Shape
    <2>2. st.slots[i] \in Blocks
      BY <2>1, ElementOfSeq DEF Shape
    <2> QED
      BY <2>2 DEF Blocks
  <1>6. CASE label = b
    <2>1. r = [t EXCEPT !.slot = i, !.new = FALSE]
      BY <1>4, <1>6
    <2>2. Same(r, t, {"slot", "new"}) /\ r.slot = i /\ r.new = FALSE
      BY <1>2, <2>1 DEF Same, Fields
    <2>3. r.ret = "ok" /\ Same(r, st, {"slot", "new", "ret"})
      BY <1>1, <2>2 DEF Same, Fields
    <2> QED
      BY <1>6, <2>2, <2>3
  <1>7. CASE label # b /\ label # Invalid /\ label > b
    <2>1. r = Returned(t, "TOOFARBACK")
      BY <1>4, <1>7
    <2>2. Same(r, t, {"ret"}) /\ r.ret = "TOOFARBACK"
      BY <1>2, <2>1, ReturnedIs
    <2>3. Same(r, st, {"ret"})
      BY <1>1, <2>2 DEF Same, Fields
    <2> QED
      BY <1>7, <2>2, <2>3
  <1>8. CASE label # b /\ ~(label # Invalid /\ label > b)
    <2>1. r = Emptied(t, i)
      BY <1>4, <1>8
    <2>2. /\ Same(r, t, {"slots", "slot", "new"}) /\ r.slot = i /\ r.new = TRUE
          /\ r.slots = Freed(t.slots, i)
      <3>1. /\ Same(Emptied(t, i), t, {"slots", "slot", "new"})
            /\ Emptied(t, i).slot = i /\ Emptied(t, i).new = TRUE
            /\ Emptied(t, i).slots = Freed(t.slots, i)
        <4>1. DOMAIN t = Fields
          BY <1>2
        <4> QED
          BY <4>1, EmptiedIs, Zenon
      <3> QED
        BY <2>1, <3>1
    <2>3. r.ret = "ok" /\ Same(r, st, {"slots", "slot", "new", "ret"})
      BY <1>1, <2>2 DEF Same, Fields
    <2>4. label = Invalid \/ label < b
      BY <1>5, <1>8
    <2> QED
      BY <1>2, <2>2, <2>3, <2>4
  <1> QED
    BY <1>6, <1>7, <1>8

\* main_getblk_lru in a list: the block is there, or the one used least recently goes.
ListFound(r, st, b, i) ==
    /\ st.slots[i].blkno = b /\ r.slot = i /\ r.new = FALSE
    /\ Same(r, st, {"recent", "slot", "new", "ret"})
    /\ r.recent = Moved(st.recent, i)

ListFreed(r, st, b) ==
    /\ \A i \in 1..Len(st.slots) : st.slots[i].blkno # b
    /\ r.slot = st.recent[1] /\ r.new = TRUE
    /\ Same(r, st, {"slots", "recent", "slot", "new", "ret"})
    /\ r.recent = Moved(st.recent, st.recent[1])
    /\ r.slots = Freed(st.slots, st.recent[1])

\* In the list there are two, and neither is an error.
LEMMA ListLru ==
    ASSUME NEW st, Shape(st), ~st.fifo, NEW b \in Nat
    PROVE  /\ GetLru(st, b).ret = "ok"
           /\ \/ \E i \in 1..Len(st.slots) : ListFound(GetLru(st, b), st, b, i)
              \/ ListFreed(GetLru(st, b), st, b)
  <1> SUFFICES ASSUME NEW r, r = GetLru(st, b)
               PROVE  /\ r.ret = "ok"
                      /\ \/ \E i \in 1..Len(st.slots) : ListFound(r, st, b, i)
                         \/ ListFreed(r, st, b)
    OBVIOUS
  <1> USE DEF ListFound, ListFreed
  <1> DEFINE t == Returned(st, "ok")
  <1>1. Same(t, st, {"ret"}) /\ t.ret = "ok"
    BY ReturnedIs DEF Shape
  <1>2. t.slots = st.slots /\ t.recent = st.recent /\ DOMAIN t = Fields
    BY <1>1 DEF Same, Fields
  <1>3. r = FromList(t, b)
    BY DEF GetLru
  <1> HIDE DEF t
  <1>4. Labelled(t, b) = {i \in 1..Len(st.slots) : st.slots[i].blkno = b}
    BY <1>2, LenProperties DEF Labelled, Shape
  <1>5. CASE Labelled(t, b) # {}
    <2>1. PICK i \in Labelled(t, b) : r = Hit(t, i)
      <3> DEFINE i == CHOOSE j \in Labelled(t, b) : TRUE
      <3>1. i \in Labelled(t, b)
        BY <1>5
      <3>2. r = Hit(t, i)
        BY <1>3, <1>5 DEF FromList
      <3> QED
        BY <3>1, <3>2
    <2>2. /\ Same(r, t, {"recent", "slot", "new"}) /\ r.recent = Moved(t.recent, i)
          /\ r.slot = i /\ r.new = FALSE
      <3>1. /\ Same(Hit(t, i), t, {"recent", "slot", "new"})
            /\ Hit(t, i).recent = Moved(t.recent, i)
            /\ Hit(t, i).slot = i /\ Hit(t, i).new = FALSE
        BY <1>2, HitIs
      <3> QED
        BY <2>1, <3>1
    <2>3. r.ret = "ok" /\ Same(r, st, {"recent", "slot", "new", "ret"})
      BY <1>1, <2>2 DEF Same, Fields
    <2>4. i \in 1..Len(st.slots) /\ st.slots[i].blkno = b
      BY <1>4, <2>1
    <2> QED
      BY <1>2, <2>2, <2>3, <2>4
  <1>6. CASE Labelled(t, b) = {}
    <2> DEFINE i == Head(t.recent)
               u == [t EXCEPT !.recent = Moved(@, i)]
    <2>1. r = Emptied(u, i)
      BY <1>3, <1>6 DEF FromList
    <2>2. Same(u, t, {"recent"}) /\ u.recent = Moved(t.recent, i)
      BY <1>2 DEF Same, Fields
    <2>3. i = st.recent[1]
      BY <1>2 DEF Shape
    <2> HIDE DEF u, i
    <2>4. DOMAIN u = Fields /\ u.slots = t.slots /\ u.ret = t.ret
      BY <2>2 DEF Same, Fields
    <2>5. /\ Same(r, u, {"slots", "slot", "new"}) /\ r.slot = i /\ r.new = TRUE
          /\ r.slots = Freed(u.slots, i)
      <3>1. /\ Same(Emptied(u, i), u, {"slots", "slot", "new"})
            /\ Emptied(u, i).slot = i /\ Emptied(u, i).new = TRUE
            /\ Emptied(u, i).slots = Freed(u.slots, i)
        BY <2>4, EmptiedIs
      <3> QED
        BY <2>1, <3>1
    <2>6. /\ r.ret = "ok" /\ r.recent = Moved(st.recent, i)
          /\ Same(r, st, {"slots", "recent", "slot", "new", "ret"})
      BY <1>1, <1>2, <2>2, <2>4, <2>5 DEF Same, Fields
    <2>7. \A k \in 1..Len(st.slots) : st.slots[k].blkno # b
      BY <1>4, <1>6
    <2> QED
      BY <1>2, <2>3, <2>4, <2>5, <2>6, <2>7
  <1> QED
    BY <1>5, <1>6

-----------------------------------------------------------------------------
(* Reading on.                                                               *)

NextState(s, f, pos) == IF s.ret # "ok" \/ s.position >= pos THEN s ELSE SkipBlock(s, f)

\* a is the function of states that Skipped defines by recursion.
StatesOf(st, f, pos, a) ==
    a = [k \in 0..pos |-> IF k = 0 THEN st ELSE NextState(a[k - 1], f, pos)]

\* The states on the way exist, for every number of blocks to get over.
LEMMA StatesExist ==
    ASSUME NEW st, NEW f, NEW pos \in Nat
    PROVE  \E a : StatesOf(st, f, pos, a)
  <1> DEFINE Upto(n, a) == a = [k \in 0..n |-> IF k = 0 THEN st ELSE NextState(a[k - 1], f, pos)]
             Bad == {n \in 0..pos : ~ \E a : Upto(n, a)}
  <1>0. pos \in 0..pos
    OBVIOUS
  <1>1. SUFFICES ASSUME Bad # {} PROVE FALSE
    BY <1>0 DEF StatesOf
  <1>2. PICK m \in Bad : \A k \in Bad : m <= k
    <2>1. Bad \in SUBSET Nat
      OBVIOUS
    <2> HIDE DEF Bad
    <2> QED
      BY <1>1, <2>1, LeastNumber
  <1>3. CASE m = 0
    <2> DEFINE z == [k \in 0..0 |-> st]
    <2>1. Upto(0, z)
      OBVIOUS
    <2> QED
      BY <1>2, <1>3, <2>1
  <1>4. CASE m # 0
    <2>1. m \in 1..pos /\ m - 1 \in 0..pos /\ m - 1 \in Nat
      BY <1>2, <1>4
    <2>2. m - 1 \notin Bad
      <3> HIDE DEF Bad
      <3>1. m \in Nat /\ ~(m <= m - 1)
        BY <2>1
      <3> QED
        BY <1>2, <3>1
    <2>3. PICK a : Upto(m - 1, a)
      BY <2>1, <2>2
    <2> DEFINE h == [k \in 0..m |-> IF k = m THEN NextState(a[m - 1], f, pos) ELSE a[k]]
    <2>4. ASSUME NEW k \in 0..m
          PROVE  h[k] = IF k = 0 THEN st ELSE NextState(h[k - 1], f, pos)
      <3>1. CASE k = m
        BY <2>1, <3>1
      <3>2. CASE k # m
        <4>1. k \in 0..(m - 1)
          BY <2>1, <3>2
        <4>2. a[k] = IF k = 0 THEN st ELSE NextState(a[k - 1], f, pos)
          BY <2>3, <4>1
        <4>3. k # 0 => k - 1 \in 0..m /\ k - 1 # m
          BY <2>1, <4>1
        <4> QED
          BY <3>2, <4>2, <4>3
      <3> QED
        BY <3>1, <3>2
    <2>5. Upto(m, h)
      BY <2>4
    <2> QED
      BY <1>2, <2>5
  <1> QED
    BY <1>3, <1>4

\* Skipped is the last of them.
LEMMA SkippedIs ==
    ASSUME NEW st, NEW f, NEW pos \in Nat
    PROVE  \E a : /\ a[0] = st /\ Skipped(st, f, pos) = a[pos]
                  /\ \A k \in 1..pos : a[k] = NextState(a[k - 1], f, pos)
  <1> DEFINE a == CHOOSE a : StatesOf(st, f, pos, a)
  <1>1. StatesOf(st, f, pos, a)
    BY StatesExist, Zenon
  <1>2. Skipped(st, f, pos) = a[pos]
    BY DEF Skipped, StatesOf, NextState
  <1>3. \A k \in 0..pos : a[k] = IF k = 0 THEN st ELSE NextState(a[k - 1], f, pos)
    BY <1>1 DEF StatesOf
  <1>4. 0 \in 0..pos /\ \A k \in 1..pos : k \in 0..pos /\ k # 0
    OBVIOUS
  <1> HIDE DEF a
  <1>5. a[0] = st /\ \A k \in 1..pos : a[k] = NextState(a[k - 1], f, pos)
    BY <1>3, <1>4
  <1> QED
    BY <1>2, <1>5

\* The same cache, with other blocks in it.
Kin(r, st) ==
    /\ Shape(r) /\ Len(r.slots) = Len(st.slots)
    /\ r.fifo = st.fifo /\ r.blksize = st.blksize /\ r.seek_failed = st.seek_failed

\* The other slots are as they were.
LEMMA FreedIs ==
    ASSUME NEW slots \in Seq(Blocks), NEW i \in 1..Len(slots)
    PROVE  /\ Freed(slots, i) \in Seq(Blocks) /\ Len(Freed(slots, i)) = Len(slots)
           /\ Freed(slots, i)[i].blkno = Invalid
           /\ \A j \in 1..Len(slots) : j # i => Freed(slots, i)[j] = slots[j]
  <1> DEFINE e == [slots[i] EXCEPT !.blkno = Invalid]
  <1>1. slots[i] \in Blocks
    BY ElementOfSeq
  <1>2. e \in Blocks /\ e.blkno = Invalid
    <2>1. PICK x \in Blocks : x = slots[i]
      BY <1>1
    <2>2. [x EXCEPT !.blkno = Invalid] \in Blocks /\ [x EXCEPT !.blkno = Invalid].blkno = Invalid
      <3>1. Invalid \in Int /\ x.at \in Nat /\ x.size \in Nat
        BY DEF Blocks, Invalid
      <3>2. [x EXCEPT !.blkno = Invalid] = [blkno |-> Invalid, at |-> x.at, size |-> x.size]
        <4>1. DOMAIN x = {"blkno", "at", "size"}
          BY DEF Blocks
        <4>2. PICK y : y = [x EXCEPT !.blkno = Invalid]
          OBVIOUS
        <4>3. DOMAIN y = {"blkno", "at", "size"} /\ y.blkno = Invalid /\ y.at = x.at /\ y.size = x.size
          BY <4>1, <4>2
        <4>4. y = [k \in {"blkno", "at", "size"} |-> y[k]]
          BY <4>1, <4>2
        <4> QED
          BY <4>2, <4>3, <4>4
      <3> QED
        BY <3>1, <3>2 DEF Blocks
    <2> QED
      BY <2>1, <2>2
  <1>3. Freed(slots, i) = [slots EXCEPT ![i] = e]
    BY DEF Freed
  <1> HIDE DEF e
  <1>4. /\ [slots EXCEPT ![i] = e] \in Seq(Blocks)
        /\ Len([slots EXCEPT ![i] = e]) = Len(slots)
        /\ \A j \in 1..Len(slots) : [slots EXCEPT ![i] = e][j] = IF j = i THEN e ELSE slots[j]
    BY <1>2, ExceptSeq
  <1> QED
    BY <1>2, <1>3, <1>4

\* main_getblk_lru leaves a cache of the same shape, with the file where it was.
LEMMA LruKin ==
    ASSUME NEW st, Shape(st), NEW b \in Nat, NEW r, r = GetLru(st, b)
    PROVE  /\ Kin(r, st) /\ r.ret \in {"ok", "TOOFARBACK"}
           /\ r.position = st.position /\ r.offset = st.offset /\ r.first = st.first
           /\ r.slot \in 1..Len(st.slots)
           /\ r.ret = "TOOFARBACK" => st.fifo
  <1>1. CASE st.fifo
    <2>1. PICK i : i = RingSlot(b, Len(st.slots))
      OBVIOUS
    <2>2. i \in 1..Len(st.slots)
      BY <2>1, RingSlotIs, LenProperties DEF Shape
    <2>3. RingOutcome(r, st, b, i)
      BY <1>1, <2>1, RingLru
    <2>4. CASE r.ret = "ok" /\ Same(r, st, {"slot", "new", "ret"}) /\ r.slot = i /\ r.new = FALSE
      BY <2>2, <2>4, <1>1 DEF Same, Fields, Shape, Kin
    <2>5. CASE r.ret = "TOOFARBACK" /\ Same(r, st, {"ret"})
      BY <2>2, <2>5, <1>1 DEF Same, Fields, Shape, Kin
    <2>6. CASE /\ r.ret = "ok" /\ r.slot = i /\ r.new = TRUE
               /\ Same(r, st, {"slots", "slot", "new", "ret"}) /\ r.slots = Freed(st.slots, i)
      <3>1. r.slots \in Seq(Blocks) /\ Len(r.slots) = Len(st.slots)
        BY <2>2, <2>6, FreedIs DEF Shape
      <3> QED
        BY <2>2, <2>6, <3>1, <1>1 DEF Same, Fields, Shape, Kin
    <2> QED
      BY <2>3, <2>4, <2>5, <2>6 DEF RingOutcome
  <1>2. CASE ~st.fifo
    <2>1. \A i \in 1..Len(st.slots) :
             /\ Moved(st.recent, i) \in Seq(1..Len(st.slots)) /\ Len(Moved(st.recent, i)) >= 1
             /\ Once(Moved(st.recent, i))
      <3> SUFFICES ASSUME NEW i \in 1..Len(st.slots)
                   PROVE  /\ Moved(st.recent, i) \in Seq(1..Len(st.slots))
                          /\ Len(Moved(st.recent, i)) >= 1 /\ Once(Moved(st.recent, i))
        OBVIOUS
      <3>1. /\ Moved(st.recent, i) \in Seq(1..Len(st.slots)) /\ Once(Moved(st.recent, i))
            /\ Len(Moved(st.recent, i)) >= Len(st.recent)
        BY MovedOnce DEF Shape
      <3>2. Len(Moved(st.recent, i)) \in Nat /\ Len(st.recent) \in Nat /\ Len(st.recent) >= 1
        BY <3>1, LenProperties DEF Shape
      <3> QED
        BY <3>1, <3>2
    <2>2. st.recent[1] \in 1..Len(st.slots)
      <3>1. 1 \in 1..Len(st.recent)
        BY LenProperties DEF Shape
      <3> QED
        BY <3>1, ElementOfSeq DEF Shape
    <2>3. /\ r.ret = "ok"
          /\ (\E i \in 1..Len(st.slots) : ListFound(r, st, b, i)) \/ ListFreed(r, st, b)
      BY <1>2, ListLru
    <2>4. CASE \E i \in 1..Len(st.slots) : ListFound(r, st, b, i)
      <3>1. PICK i \in 1..Len(st.slots) : ListFound(r, st, b, i)
        BY <2>4
      <3> QED
        BY <1>2, <2>1, <2>3, <3>1 DEF Same, Fields, Shape, Kin, ListFound
    <2>5. CASE ListFreed(r, st, b)
      <3>1. r.slots \in Seq(Blocks) /\ Len(r.slots) = Len(st.slots)
        BY <2>2, <2>5, FreedIs DEF Shape, ListFreed
      <3> QED
        BY <1>2, <2>1, <2>2, <2>3, <2>5, <3>1 DEF Same, Fields, Shape, Kin, ListFreed
    <2> QED
      BY <2>3, <2>4, <2>5
  <1> QED
    BY <1>1, <1>2 DEF Shape

\* A slot is read into, the others are as they were.
LEMMA SlotFilled ==
    ASSUME NEW slots \in Seq(Blocks), NEW i \in 1..Len(slots),
           NEW label \in Int, NEW at \in Nat, NEW n \in Nat, NEW filled,
           filled = [slots EXCEPT ![i] = [blkno |-> label, at |-> at, size |-> n]]
    PROVE  /\ filled \in Seq(Blocks) /\ Len(filled) = Len(slots)
           /\ filled[i] = [blkno |-> label, at |-> at, size |-> n]
           /\ \A j \in 1..Len(slots) : j # i => filled[j] = slots[j]
  <1> DEFINE e == [blkno |-> label, at |-> at, size |-> n]
  <1>1. e \in Blocks
    BY DEF Blocks
  <1> HIDE DEF e
  <1>2. /\ [slots EXCEPT ![i] = e] \in Seq(Blocks)
        /\ Len([slots EXCEPT ![i] = e]) = Len(slots)
        /\ \A j \in 1..Len(slots) : [slots EXCEPT ![i] = e][j] = IF j = i THEN e ELSE slots[j]
    BY <1>1, ExceptSeq
  <1>3. filled = [slots EXCEPT ![i] = e]
    BY DEF e
  <1>4. filled[i] = e
    BY <1>2, <1>3
  <1> QED
    BY <1>2, <1>3, <1>4 DEF e

\* A cache that is read into is a cache of the same shape.
LEMMA FilledKin ==
    ASSUME NEW st, Shape(st), NEW i \in 1..Len(st.slots), NEW n \in Nat, NEW label \in Int,
           NEW r, r = FilledAt(st, i, n, label)
    PROVE  /\ Kin(r, st) /\ Same(r, st, {"slots", "offset"}) /\ Read(r, st, i, n, label)
  <1>0. DOMAIN st = Fields /\ st.slots \in Seq(Blocks) /\ st.offset \in Nat
    BY DEF Shape
  <1>1. /\ Same(r, st, {"slots", "offset"}) /\ Read(r, st, i, n, label)
    <2>1. /\ Same(FilledAt(st, i, n, label), st, {"slots", "offset"})
          /\ Read(FilledAt(st, i, n, label), st, i, n, label)
      BY <1>0, FilledAtIs, Zenon
    <2> QED
      BY <2>1
  <1>2. r.slots \in Seq(Blocks) /\ Len(r.slots) = Len(st.slots)
    <2>1. PICK filled : filled = [st.slots EXCEPT ![i] =
                                    [blkno |-> label, at |-> st.offset, size |-> n]]
      OBVIOUS
    <2>2. r.slots = filled
      BY <1>1, <2>1 DEF Read
    <2>3. filled \in Seq(Blocks) /\ Len(filled) = Len(st.slots)
      BY <1>0, <2>1, SlotFilled
    <2> QED
      BY <2>2, <2>3
  <1>3. r.offset \in Nat
    BY <1>1 DEF Read, Shape
  <1> QED
    BY <1>1, <1>2, <1>3 DEF Same, Fields, Shape, Kin

\* The block that a byte is in.
LEMMA DivNat ==
    ASSUME NEW p \in Nat, NEW B \in Nat, B > 0
    PROVE  /\ p \div B \in Nat /\ (p \div B) * B <= p /\ p < (p \div B) * B + B
           /\ p = (p \div B) * B + (p % B) /\ p % B \in 0..(B - 1)
  OBVIOUS

\* A block of the file is read on the way.
SkipOutcome(r, st, f, skip, got) ==
    \/ r.ret = "TOOFARBACK" /\ got.ret = "TOOFARBACK"
    \/ r.ret \in {"read error", "INVALID_INPUT"}
    \/ /\ r.ret = "ok" /\ got.ret = "ok"
       /\ Nread(f, st.offset, st.blksize, FALSE) = st.blksize
       /\ Read(r, got, got.slot, st.blksize, skip)
       /\ r.position = st.position + st.blksize

\* A return code makes no other cache of it.
LEMMA ReturnedKin ==
    ASSUME NEW st, NEW u, Kin(u, st), NEW r, Same(r, u, {"ret"})
    PROVE  Kin(r, st) /\ r.first = u.first
  <1>1. /\ DOMAIN r = Fields /\ r.slots = u.slots /\ r.recent = u.recent /\ r.fifo = u.fifo
        /\ r.blksize = u.blksize /\ r.position = u.position /\ r.offset = u.offset
        /\ r.seek_failed = u.seek_failed /\ r.first = u.first /\ r.slot = u.slot /\ r.new = u.new
    BY DEF Same, Fields
  <1>2. Shape(r)
    BY <1>1 DEF Kin, Shape
  <1> QED
    BY <1>1, <1>2 DEF Kin

\* The outcomes of reading over one block.
LEMMA SkipBlockIs ==
    ASSUME NEW st, Shape(st), NEW f, IsFile(f),
           NEW skip, skip = st.position \div st.blksize, NEW got, got = GetLru(st, skip),
           NEW r, r = SkipBlock(st, f)
    PROVE  Kin(r, st) /\ r.first = st.first /\ SkipOutcome(r, st, f, skip, got)
  <1> USE DEF SkipOutcome
  <1>1. skip \in Nat
    BY DivNat DEF Shape
  <1>2. /\ Kin(got, st) /\ got.ret \in {"ok", "TOOFARBACK"}
        /\ got.position = st.position /\ got.offset = st.offset /\ got.first = st.first
        /\ got.slot \in 1..Len(st.slots)
    BY <1>1, LruKin
  <1>3. PICK n : n = Nread(f, got.offset, st.blksize, FALSE)
    OBVIOUS
  <1>4. n = -1 \/ n \in Nat
    <2>1. got.offset \in Nat /\ st.blksize \in Nat /\ AllocSize \in Nat
      BY <1>2, BlocksAssumption DEF Kin, Shape
    <2>2. n = -1 \/ n \in 0..st.blksize
      BY <1>3, <2>1, NreadRange
    <2> QED
      BY <2>1, <2>2
  <1>5. r = IF got.ret # "ok" THEN got
            ELSE IF n = -1 THEN Returned(got, "read error")
            ELSE IF n # st.blksize
                 THEN Returned(FilledAt(got, got.slot, n, skip), "INVALID_INPUT")
            ELSE [FilledAt(got, got.slot, n, skip) EXCEPT !.position = @ + n]
    BY <1>3 DEF SkipBlock
  <1>6. CASE got.ret # "ok"
    BY <1>2, <1>5, <1>6 DEF Kin
  <1>7. CASE got.ret = "ok" /\ n = -1
    <2>1. r = Returned(got, "read error")
      BY <1>5, <1>7
    <2>2. Same(r, got, {"ret"}) /\ r.ret = "read error"
      <3>1. DOMAIN got = Fields
        BY <1>2 DEF Kin, Shape
      <3>2. /\ Same(Returned(got, "read error"), got, {"ret"})
            /\ Returned(got, "read error").ret = "read error"
        BY <3>1, ReturnedIs, Zenon
      <3> QED
        BY <2>1, <3>2
    <2>3. Kin(r, st) /\ r.first = got.first
      BY <1>2, <2>2, ReturnedKin
    <2> QED
      BY <1>2, <2>2, <2>3
  <1>8. CASE got.ret = "ok" /\ n # -1
    <2>1. PICK u : u = FilledAt(got, got.slot, n, skip)
      OBVIOUS
    <2>2. Kin(u, got) /\ Same(u, got, {"slots", "offset"}) /\ Read(u, got, got.slot, n, skip)
      <3>1. Shape(got) /\ got.slot \in 1..Len(got.slots) /\ n \in Nat /\ skip \in Int
        BY <1>1, <1>2, <1>4, <1>8 DEF Kin
      <3> QED
        BY <2>1, <3>1, FilledKin
    <2>3. CASE n # st.blksize
      <3>1. r = Returned(u, "INVALID_INPUT")
        BY <1>5, <1>8, <2>1, <2>3
      <3>2. Same(r, u, {"ret"}) /\ r.ret = "INVALID_INPUT"
        <4>1. DOMAIN u = Fields
          BY <2>2 DEF Same
        <4>2. /\ Same(Returned(u, "INVALID_INPUT"), u, {"ret"})
              /\ Returned(u, "INVALID_INPUT").ret = "INVALID_INPUT"
          BY <4>1, ReturnedIs, Zenon
        <4> QED
          BY <3>1, <4>2
      <3>3. Kin(u, st) /\ u.first = st.first
        BY <1>2, <2>2 DEF Same, Fields, Kin
      <3>4. Kin(r, st) /\ r.first = u.first
        BY <3>2, <3>3, ReturnedKin
      <3> QED
        BY <3>2, <3>3, <3>4
    <2>4. CASE n = st.blksize
      <3>1. r = [u EXCEPT !.position = @ + n]
        BY <1>5, <1>8, <2>1, <2>4
      <3>2. DOMAIN u = Fields
        BY <2>2 DEF Same
      <3>3. Same(r, u, {"position"}) /\ r.position = u.position + n
        BY <3>1, <3>2 DEF Same, Fields
      <3>4. u.position = st.position /\ u.ret = "ok" /\ u.first = st.first
        BY <1>2, <1>8, <2>2 DEF Same, Fields
      <3>5. /\ r.ret = "ok" /\ r.first = st.first /\ r.slots = u.slots /\ r.offset = u.offset
            /\ r.position = st.position + st.blksize
        BY <2>4, <3>3, <3>4 DEF Same, Fields
      <3>6. Read(r, got, got.slot, st.blksize, skip)
        BY <2>2, <2>4, <3>5 DEF Read
      <3>7. r.position \in Nat
        BY <3>5 DEF Shape
      <3>8. Kin(r, st)
        BY <1>2, <2>2, <3>3, <3>7 DEF Same, Fields, Kin, Shape
      <3>9. Nread(f, st.offset, st.blksize, FALSE) = st.blksize
        BY <1>2, <1>3, <2>4
      <3> QED
        BY <1>8, <3>5, <3>6, <3>8, <3>9
    <2> QED
      BY <2>3, <2>4
  <1> QED
    BY <1>2, <1>6, <1>7, <1>8

\* A block ends where the next one starts, or before.
LEMMA TimesMore ==
    ASSUME NEW x \in Int, NEW y \in Int, x < y, NEW B \in Nat
    PROVE  x * B + B <= y * B
  <1>1. PICK d \in Nat : y = x + 1 + d
    <2>1. y - x - 1 \in Nat /\ y = x + 1 + (y - x - 1)
      OBVIOUS
    <2> QED
      BY <2>1
  <1>2. (x + 1 + d) * B = x * B + B + d * B
    OBVIOUS
  <1>3. d * B >= 0
    OBVIOUS
  <1>4. x * B \in Int /\ d * B \in Int
    OBVIOUS
  <1> QED
    BY <1>1, <1>2, <1>3, <1>4

\* Bytes before a block are in earlier blocks; one block on is one block on.
LEMMA DivOf ==
    ASSUME NEW p \in Nat, NEW B \in Nat, B > 0, NEW q \in Int
    PROVE  /\ p < q * B => p \div B < q
           /\ p >= q * B => p \div B >= q
           /\ p = q * B => p \div B = q
           /\ (p + B) \div B = p \div B + 1
  <1>1. ASSUME NEW x \in Nat
        PROVE  /\ x \div B \in Int /\ (x \div B) * B <= x /\ x < (x \div B) * B + B
               /\ (x \div B) * B \in Int
    BY <1>1, DivNat
  <1>2. ASSUME NEW x \in Nat, x < q * B PROVE x \div B < q
    <2>1. CASE x \div B >= q
      <3>1. PICK d \in Int : d = x \div B
        BY <1>1
      <3>2. q * B <= d * B
        <4>1. CASE d = q
          BY <4>1
        <4>2. CASE q < d
          BY <3>1, <4>2, TimesMore
        <4> QED
          BY <2>1, <3>1, <4>1, <4>2
      <3>3. q * B \in Int /\ d * B \in Int /\ d * B <= x
        BY <1>1, <3>1
      <3> QED
        BY <1>2, <3>2, <3>3
    <2> QED
      BY <1>1, <2>1
  <1>3. ASSUME NEW x \in Nat, NEW y \in Int, x >= y * B PROVE x \div B >= y
    <2>1. CASE x \div B < y
      <3>1. PICK d \in Int : d = x \div B
        BY <1>1
      <3>2. d * B + B <= y * B
        BY <2>1, <3>1, TimesMore
      <3>3. y * B \in Int /\ d * B \in Int /\ x < d * B + B
        BY <1>1, <3>1
      <3> QED
        BY <1>3, <3>2, <3>3
    <2> QED
      BY <1>1, <2>1
  <1>4. (p + B) \div B = p \div B + 1
    <2>1. PICK d \in Int, e \in Int : d = p \div B /\ e = (p + B) \div B
      BY <1>1
    <2>2. /\ d * B <= p /\ p < d * B + B /\ d * B \in Int
          /\ e * B <= p + B /\ p + B < e * B + B /\ e * B \in Int
      <3>1. p + B \in Nat
        OBVIOUS
      <3> QED
        BY <1>1, <2>1, <3>1
    <2>3. CASE e > d + 1
      <3>1. (d + 1) * B + B <= e * B /\ (d + 1) * B = d * B + B
        BY <2>3, TimesMore
      <3> QED
        BY <2>2, <3>1
    <2>4. CASE e < d + 1
      <3>1. e * B + B <= (d + 1) * B /\ (d + 1) * B = d * B + B
        BY <2>4, TimesMore
      <3> QED
        BY <2>2, <3>1
    <2> QED
      BY <2>1, <2>3, <2>4
  <1>5. p = q * B => p \div B = q
    <2>1. ASSUME p = q * B PROVE p \div B = q
      <3>1. p \div B >= q
        BY <1>3, <2>1
      <3>2. CASE p \div B > q
        <4>1. PICK d \in Int : d = p \div B
          BY <1>1
        <4>2. q * B + B <= d * B
          BY <3>2, <4>1, TimesMore
        <4>3. q * B \in Int /\ d * B \in Int /\ d * B <= p
          BY <1>1, <4>1
        <4> QED
          BY <2>1, <4>2, <4>3
      <3> QED
        BY <1>1, <3>1, <3>2
    <2> QED
      BY <2>1
  <1> QED
    BY <1>2, <1>3, <1>4, <1>5

-----------------------------------------------------------------------------
(* What holds of the cache between two requests.                             *)

\* The block is the part of the file that its label says.
BlockRight(x, B, f) == x.at = x.blkno * B /\ x.size = AtMost(B, f.length - x.at)

AllRight(st, f) ==
    \A i \in 1..Len(st.slots) :
        st.slots[i].blkno # Invalid => BlockRight(st.slots[i], st.blksize, f)

\* What is in memory is what is in the file, and the file is where it is said to be.
Faithful(st, f) ==
    /\ AllRight(st, f)
    /\ st.offset = st.position /\ st.position <= f.length
    /\ st.position = (st.position \div st.blksize) * st.blksize \/ st.position = f.length

AllRead(st) == \A i \in 1..Len(st.slots) : st.slots[i].blkno \in Nat

\* Each block is where the ring has its place.
RingPlace(st) ==
    \A i \in 1..Len(st.slots) :
        st.slots[i].blkno # Invalid =>
            st.slots[i].blkno \in Nat /\ RingSlot(st.slots[i].blkno, Len(st.slots)) = i

\* The ring holds the blocks before M, and the file is not before the first of them.
InWindow(x, st, M) ==
    x.blkno \in Nat /\ M - Len(st.slots) <= x.blkno /\ x.blkno < M
RingAt(st, M) ==
    /\ \A i \in 1..Len(st.slots) : InWindow(st.slots[i], st, M)
    /\ M - Len(st.slots) <= st.position \div st.blksize
    /\ st.position <= M * st.blksize

LabelsSeen(st, sn) ==
    \A i \in 1..Len(st.slots) : \E n \in 1..Len(sn) : sn[n] >= st.slots[i].blkno

\* The blocks asked for last, in the slots in the order of their use.
RecentRight(st, sn) ==
    /\ Len(st.recent) = Len(st.slots) /\ Len(sn) >= Len(st.slots)
    /\ \A i \in 1..Len(st.slots) : \E j \in 1..Len(st.slots) : st.recent[j] = i
    /\ \A j \in 1..Len(st.slots) :
          st.slots[st.recent[j]].blkno = sn[Len(sn) - Len(st.slots) + j]

CacheRests(st, f, sn, lo) ==
    /\ Shape(st) /\ ~st.first
    /\ sn \in Seq(Nat) /\ Once(sn)
    /\ f.seeks => ~st.seek_failed
    /\ ~lo => Faithful(st, f)
    /\ st.fifo => AllRead(st) /\ RingPlace(st) /\ LabelsSeen(st, sn)
    /\ st.fifo /\ ~f.seeks => \E M \in Nat : RingAt(st, M)
    /\ ~st.fifo /\ f.seeks => RecentRight(st, sn)

-----------------------------------------------------------------------------
(* The slot a block gets.                                                    *)

LruKeeps(r, st, b) ==
    r.ret = "ok" =>
        /\ \A j \in 1..Len(st.slots) : j # r.slot => r.slots[j] = st.slots[j]
        /\ ~r.new => r.slots = st.slots /\ st.slots[r.slot].blkno = b
        /\ r.new => r.slots[r.slot].blkno = Invalid
        /\ r.new /\ st.fifo => st.slots[r.slot].blkno = Invalid \/ st.slots[r.slot].blkno < b
        /\ st.fifo => r.slot = RingSlot(b, Len(st.slots))

\* main_getblk_lru frees one slot at most, and in a ring the one the block belongs in.
LEMMA LruSlots ==
    ASSUME NEW st, Shape(st), NEW b \in Nat, NEW r, r = GetLru(st, b)
    PROVE  LruKeeps(r, st, b)
  <1>0. SUFFICES ASSUME r.ret = "ok" PROVE LruKeeps(r, st, b)
    BY DEF LruKeeps
  <1>1. CASE st.fifo
    <2>1. PICK i : i = RingSlot(b, Len(st.slots))
      OBVIOUS
    <2>2. i \in 1..Len(st.slots)
      BY <2>1, RingSlotIs, LenProperties DEF Shape
    <2>3. RingOutcome(r, st, b, i)
      BY <1>1, <2>1, RingLru
    <2>4. CASE /\ st.slots[i].blkno = b
               /\ Same(r, st, {"slot", "new", "ret"}) /\ r.slot = i /\ r.new = FALSE
      <3>1. r.slots = st.slots
        BY <2>4 DEF Same, Fields
      <3> QED
        BY <2>1, <2>4, <3>1 DEF LruKeeps
    <2>5. CASE /\ st.slots[i].blkno = Invalid \/ st.slots[i].blkno < b
               /\ r.slot = i /\ r.new = TRUE /\ r.slots = Freed(st.slots, i)
      <3>1. /\ r.slots[i].blkno = Invalid
            /\ \A j \in 1..Len(st.slots) : j # i => r.slots[j] = st.slots[j]
        BY <2>2, <2>5, FreedIs DEF Shape
      <3> QED
        BY <2>1, <2>5, <3>1 DEF LruKeeps
    <2> QED
      BY <1>0, <2>3, <2>4, <2>5 DEF RingOutcome
  <1>2. CASE ~st.fifo
    <2>1. (\E i \in 1..Len(st.slots) : ListFound(r, st, b, i)) \/ ListFreed(r, st, b)
      BY <1>2, ListLru
    <2>2. ASSUME NEW i \in 1..Len(st.slots), ListFound(r, st, b, i) PROVE LruKeeps(r, st, b)
      <3>1. r.slots = st.slots
        BY <2>2 DEF Same, Fields, ListFound
      <3> QED
        BY <1>2, <2>2, <3>1 DEF LruKeeps, ListFound
    <2>3. CASE ListFreed(r, st, b)
      <3>1. PICK i : i = st.recent[1]
        OBVIOUS
      <3>2. i \in 1..Len(st.slots)
        <4>1. 1 \in 1..Len(st.recent)
          BY LenProperties DEF Shape
        <4> QED
          BY <3>1, <4>1, ElementOfSeq DEF Shape
      <3>3. r.slot = i /\ r.new = TRUE /\ r.slots = Freed(st.slots, i)
        BY <2>3, <3>1 DEF ListFreed
      <3>4. /\ r.slots[i].blkno = Invalid
            /\ \A j \in 1..Len(st.slots) : j # i => r.slots[j] = st.slots[j]
        BY <3>2, <3>3, FreedIs DEF Shape
      <3> QED
        BY <1>2, <3>3, <3>4 DEF LruKeeps
    <2> QED
      BY <2>1, <2>2, <2>3
  <1> QED
    BY <1>1, <1>2 DEF Shape

\* In the ring, a block that is too far back has made room for a later one.
LEMMA RingBack ==
    ASSUME NEW st, Shape(st), NEW b \in Nat, NEW r, r = GetLru(st, b), r.ret = "TOOFARBACK"
    PROVE  LET i == RingSlot(b, Len(st.slots))
           IN  /\ st.fifo /\ i \in 1..Len(st.slots) /\ Same(r, st, {"ret"})
               /\ st.slots[i].blkno # Invalid /\ st.slots[i].blkno > b
  <1>1. st.fifo
    BY LruKin
  <1>2. PICK i : i = RingSlot(b, Len(st.slots))
    OBVIOUS
  <1>3. i \in 1..Len(st.slots)
    BY <1>2, RingSlotIs, LenProperties DEF Shape
  <1>4. RingOutcome(r, st, b, i)
    BY <1>1, <1>2, RingLru
  <1> QED
    BY <1>1, <1>2, <1>3, <1>4 DEF RingOutcome

\* Two numbers less than N apart that have the same place in the ring are one.
LEMMA OnePlace ==
    ASSUME NEW N \in Nat, N >= 1, NEW a \in Nat, NEW b \in Nat, RingSlot(a, N) = RingSlot(b, N)
    PROVE  /\ a < b => b >= a + N
           /\ b < a => a >= b + N
  <1>1. a % N = b % N
    <2>1. PICK x \in Int, y \in Int : x = a % N /\ y = b % N
      OBVIOUS
    <2>2. x + 1 = y + 1
      BY <2>1 DEF RingSlot
    <2> QED
      BY <2>1, <2>2
  <1>2. N \in Nat \ {0}
    OBVIOUS
  <1>3. ASSUME a < b PROVE b >= a + N
    BY <1>1, <1>2, <1>3, SameResidue
  <1>4. ASSUME b < a PROVE a >= b + N
    BY <1>1, <1>2, <1>4, SameResidue
  <1> QED
    BY <1>3, <1>4

\* N blocks on is the same place in the ring.
LEMMA NextRound ==
    ASSUME NEW N \in Nat, N >= 1, NEW x \in Nat
    PROVE  RingSlot(x + N, N) = RingSlot(x, N)
  <1>0. x \div N \in Int /\ x % N \in Int /\ x + N \in Nat /\ (x + N) % N \in Int
    BY DivNat
  <1>1. PICK d \in Int, e \in Int, q \in Int :
           d = x % N /\ e = (x + N) % N /\ q = x \div N
    BY <1>0
  <1>2. (x + N) \div N = q + 1
    BY <1>1, DivOf
  <1>3. x = q * N + d /\ x + N = (q + 1) * N + e
    BY <1>0, <1>1, <1>2, DivNat
  <1>4. (q + 1) * N = q * N + N /\ q * N \in Int
    BY <1>1
  <1>5. d = e
    BY <1>1, <1>3, <1>4
  <1> QED
    BY <1>1, <1>5 DEF RingSlot

-----------------------------------------------------------------------------
(* The cache while blocks are read to come to block b.                       *)

\* The ring as in RingAt, but that slot i0 may have nothing in it.
SkipRing(s, M, i0) ==
    /\ RingPlace(s)
    /\ \A i \in 1..Len(s.slots) :
          (i = i0 /\ s.slots[i].blkno = Invalid) \/ InWindow(s.slots[i], s, M)
    /\ M - Len(s.slots) <= s.position \div s.blksize
    /\ s.position \div s.blksize <= M

OnTheWay(s, f, b) ==
    /\ Faithful(s, f)
    /\ s.position = (s.position \div s.blksize) * s.blksize /\ s.position <= b * s.blksize

Skipping(s, st, f, lo, b) ==
    /\ Kin(s, st) /\ s.first = st.first
    /\ ~lo => OnTheWay(s, f, b)
    /\ s.fifo => \E M \in Nat : M <= b /\ SkipRing(s, M, RingSlot(b, Len(s.slots)))

\* A slot that has been read into.
LEMMA FillRight ==
    ASSUME NEW s, Shape(s), NEW f, IsFile(f), NEW got, Kin(got, s), got.offset = s.offset,
           NEW i \in 1..Len(s.slots), NEW b \in Nat, NEW n \in Nat, NEW r, Kin(r, s),
           Read(r, got, i, n, b),
           \A j \in 1..Len(s.slots) : j # i => got.slots[j] = s.slots[j]
    PROVE  /\ \A j \in 1..Len(s.slots) : j # i => r.slots[j] = s.slots[j]
           /\ r.slots[i] = [blkno |-> b, at |-> s.offset, size |-> n]
           /\ r.offset = s.offset + n
  <1>1. /\ got.slots \in Seq(Blocks) /\ i \in 1..Len(got.slots) /\ b \in Int /\ s.offset \in Nat
        /\ Len(got.slots) = Len(s.slots)
    BY DEF Kin, Shape
  <1>2. PICK filled : filled = [got.slots EXCEPT ![i] = [blkno |-> b, at |-> s.offset, size |-> n]]
    OBVIOUS
  <1>3. /\ filled[i] = [blkno |-> b, at |-> s.offset, size |-> n]
        /\ \A j \in 1..Len(got.slots) : j # i => filled[j] = got.slots[j]
    BY <1>1, <1>2, SlotFilled
  <1>4. r.slots = filled /\ r.offset = s.offset + n
    BY <1>2 DEF Read
  <1> QED
    BY <1>1, <1>3, <1>4

SkipGood(r, s, st, f, lo, b) ==
    /\ r.ret \in {"ok", "read error", "INVALID_INPUT"}
    /\ r.ret = "ok" => Skipping(r, st, f, lo, b) /\ r.position = s.position + s.blksize

\* Reading over a block keeps the ring in order, or is an error that is told.
LEMMA SkipStep ==
    ASSUME NEW st, NEW f, IsFile(f), NEW lo \in BOOLEAN, NEW b \in Nat,
           NEW s, Skipping(s, st, f, lo, b), s.position < b * s.blksize
    PROVE  SkipGood(SkipBlock(s, f), s, st, f, lo, b)
  <1> SUFFICES ASSUME NEW r, r = SkipBlock(s, f) PROVE SkipGood(r, s, st, f, lo, b)
    OBVIOUS
  <1>0. Shape(s) /\ s.blksize \in Nat /\ s.blksize > 0 /\ s.position \in Nat /\ s.offset \in Nat
    BY DEF Skipping, Kin, Shape
  <1>00. Len(s.slots) \in Nat /\ Len(s.slots) >= 1
    BY <1>0, LenProperties DEF Shape
  <1>01. PICK B \in Nat, N \in Nat, p \in Nat : B = s.blksize /\ N = Len(s.slots) /\ p = s.position
    BY <1>0, <1>00
  <1>02. B > 0 /\ N >= 1 /\ p < b * B
    BY <1>0, <1>00, <1>01
  <1>03. PICK D \in Nat : D = p \div B /\ D * B <= p /\ p < D * B + B
    BY <1>02, DivNat
  <1>04. D < b /\ (p + B) \div B = D + 1
    BY <1>02, <1>03, DivOf
  <1>1. /\ B = s.blksize /\ B > 0 /\ N = Len(s.slots) /\ N >= 1 /\ p = s.position /\ D < b
        /\ B \in Nat /\ N \in Nat /\ p \in Nat /\ D \in Nat
    BY <1>01, <1>02, <1>03, <1>04
  <1>2. PICK got : got = GetLru(s, D)
    OBVIOUS
  <1>3. /\ Kin(got, s) /\ got.ret \in {"ok", "TOOFARBACK"}
        /\ got.position = s.position /\ got.offset = s.offset /\ got.first = s.first
        /\ got.slot \in 1..N
    <2>1. /\ Kin(got, s) /\ got.ret \in {"ok", "TOOFARBACK"}
          /\ got.position = s.position /\ got.offset = s.offset /\ got.first = s.first
          /\ got.slot \in 1..Len(s.slots)
      BY <1>0, <1>2, LruKin
    <2> QED
      BY <1>1, <2>1
  <1>4. Kin(r, s) /\ r.first = s.first /\ SkipOutcome(r, s, f, D, got)
    <2>1. D = s.position \div s.blksize
      BY <1>03, <1>1
    <2> QED
      BY <1>0, <1>2, <2>1, SkipBlockIs
  <1>5. LruKeeps(got, s, D)
    BY <1>0, <1>2, LruSlots
  <1>6. PICK i0 : i0 = RingSlot(b, N)
    OBVIOUS
  <1>7. s.fifo => /\ RingPlace(s)
                  /\ \A i \in 1..N : s.slots[i].blkno # Invalid =>
                       s.slots[i].blkno \in Nat /\ RingSlot(s.slots[i].blkno, N) = i
    BY <1>1 DEF Skipping, SkipRing, RingPlace
  <1>8. got.ret = "ok"
    <2>1. CASE got.ret = "TOOFARBACK"
      <3>1. PICK i \in 1..N : /\ s.fifo /\ i = RingSlot(D, N)
                              /\ s.slots[i].blkno # Invalid /\ s.slots[i].blkno > D
        BY <1>0, <1>1, <1>2, <2>1, RingBack
      <3>2. PICK M \in Nat : SkipRing(s, M, RingSlot(b, Len(s.slots)))
        BY <3>1 DEF Skipping
      <3>3. M - N <= D /\ s.slots[i].blkno < M
        BY <1>03, <1>1, <3>1, <3>2 DEF SkipRing, InWindow
      <3>4. PICK x \in Nat : x = s.slots[i].blkno /\ RingSlot(x, N) = RingSlot(D, N) /\ D < x
        BY <1>7, <3>1
      <3>5. x >= D + N
        BY <1>1, <3>4, OnePlace
      <3> QED
        BY <3>3, <3>4, <3>5
    <2> QED
      BY <1>3, <2>1
  <1>9. r.ret \in {"ok", "read error", "INVALID_INPUT"}
    BY <1>4, <1>8 DEF SkipOutcome
  <1>10. SUFFICES ASSUME r.ret = "ok"
                  PROVE  Skipping(r, st, f, lo, b) /\ r.position = p + B
    BY <1>1, <1>9 DEF SkipGood
  <1>11. /\ Nread(f, s.offset, B, FALSE) = B /\ r.position = p + B
         /\ Read(r, got, got.slot, B, D)
    BY <1>1, <1>4, <1>10 DEF SkipOutcome
  <1>12. PICK i \in 1..N : i = got.slot
    BY <1>3
  <1>13. /\ \A j \in 1..N : j # i => r.slots[j] = s.slots[j]
         /\ r.slots[i] = [blkno |-> D, at |-> s.offset, size |-> B]
         /\ r.offset = s.offset + B
    <2>1. \A j \in 1..Len(s.slots) : j # i => got.slots[j] = s.slots[j]
      BY <1>5, <1>8, <1>12 DEF LruKeeps
    <2>2. Read(r, got, i, B, D) /\ i \in 1..Len(s.slots)
      BY <1>1, <1>11, <1>12
    <2>3. /\ \A j \in 1..Len(s.slots) : j # i => r.slots[j] = s.slots[j]
          /\ r.slots[i] = [blkno |-> D, at |-> s.offset, size |-> B]
          /\ r.offset = s.offset + B
      <3>1. Kin(got, s) /\ Kin(r, s) /\ got.offset = s.offset /\ D \in Nat /\ B \in Nat
        BY <1>1, <1>3, <1>4
      <3> QED
        BY <1>0, <2>1, <2>2, <3>1, FillRight
    <2> QED
      BY <1>1, <2>3
  <1>14. Kin(r, st) /\ r.first = st.first
    BY <1>4 DEF Skipping, Kin
  <1>15. r.blksize = B /\ Len(r.slots) = N /\ r.fifo = s.fifo /\ r.position \div B = D + 1
    BY <1>04, <1>1, <1>4, <1>11 DEF Kin
  <1>16. ~lo => OnTheWay(r, f, b)
    <2> SUFFICES ASSUME ~lo PROVE OnTheWay(r, f, b)
      OBVIOUS
    <2>1. Faithful(s, f) /\ p = D * B /\ D * B \in Nat
      BY <1>03, <1>1 DEF Skipping, OnTheWay
    <2>2. s.offset = p
      BY <1>1, <2>1 DEF Faithful, AllRight
    <2>3. p + B <= f.length
      <3>1. B = IF p < f.length THEN AtMost(B, f.length - p) ELSE 0
        <4>1. AllocSize \in Nat
          BY BlocksAssumption
        <4>2. PICK no \in BOOLEAN : no = FALSE
          OBVIOUS
        <4>3. PICK n : n = Nread(f, p, B, no)
          OBVIOUS
        <4>4. n = B
          BY <1>11, <2>2, <4>2, <4>3
        <4>5. n # -1
          BY <1>1, <4>4
        <4>6. n = IF p < f.length THEN AtMost(B, f.length - p) ELSE 0
          <5>1. B \in Nat /\ p \in Nat /\ ~no
            BY <1>1, <4>2
          <5> QED
            BY <4>1, <4>3, <4>5, <5>1, NreadRange
        <4> QED
          BY <4>4, <4>6
      <3> QED
        BY <1>1, <3>1 DEF AtMost, IsFile
    <2>4. (D + 1) * B = p + B
      <3>1. (D + 1) * B = D * B + B
        <4>1. D \in Nat /\ B \in Nat
          BY <1>1
        <4> QED
          BY <4>1
      <3> QED
        BY <2>1, <3>1
    <2>5. p + B <= b * B
      <3>1. D * B + B <= b * B
        <4>1. D \in Int /\ b \in Int /\ D < b /\ B \in Nat
          BY <1>1
        <4> QED
          BY <4>1, TimesMore
      <3> QED
        BY <2>1, <3>1
    <2>6. BlockRight(r.slots[i], B, f)
      <3>1. AtMost(B, f.length - p) = B
        BY <1>1, <2>3 DEF AtMost, IsFile
      <3> QED
        BY <1>13, <2>1, <2>2, <3>1 DEF BlockRight
    <2>7. \A j \in 1..N : r.slots[j].blkno # Invalid => BlockRight(r.slots[j], B, f)
      <3>1. \A j \in 1..N : s.slots[j].blkno # Invalid => BlockRight(s.slots[j], B, f)
        BY <1>1, <2>1 DEF Faithful, AllRight
      <3> QED
        BY <1>13, <2>6, <3>1
    <2> QED
      BY <1>11, <1>13, <1>15, <2>2, <2>3, <2>4, <2>5, <2>7 DEF OnTheWay, Faithful, AllRight
  <1>17. ASSUME r.fifo PROVE \E M \in Nat : M <= b /\ SkipRing(r, M, RingSlot(b, Len(r.slots)))
    <2>0. s.fifo
      BY <1>15, <1>17
    <2>1. PICK M \in Nat : M <= b /\ SkipRing(s, M, RingSlot(b, Len(s.slots)))
      BY <2>0 DEF Skipping
    <2>2. /\ \A j \in 1..N : (j = i0 /\ s.slots[j].blkno = Invalid) \/ InWindow(s.slots[j], s, M)
          /\ M - N <= D /\ D <= M /\ M \in Nat /\ M <= b
      BY <1>03, <1>1, <1>6, <2>1 DEF SkipRing
    <2>3. i = RingSlot(D, N)
      BY <1>1, <1>5, <1>8, <1>12, <2>0 DEF LruKeeps
    <2>4. RingPlace(r)
      <3>1. \A j \in 1..N : r.slots[j].blkno # Invalid =>
              r.slots[j].blkno \in Nat /\ RingSlot(r.slots[j].blkno, N) = j
        BY <1>1, <1>7, <1>13, <2>0, <2>3
      <3> QED
        BY <1>15, <3>1 DEF RingPlace
    <2>5. CASE D < M
      <3>1. ASSUME NEW j \in 1..N
            PROVE  (j = i0 /\ r.slots[j].blkno = Invalid) \/ InWindow(r.slots[j], r, M)
        <4>1. CASE j = i
          BY <1>1, <1>13, <1>15, <2>2, <2>5, <4>1 DEF InWindow
        <4>2. CASE j # i
          BY <1>1, <1>13, <1>15, <2>2, <4>2 DEF InWindow
        <4> QED
          BY <4>1, <4>2
      <3>2. M - N <= D + 1 /\ D + 1 <= M
        BY <1>1, <2>2, <2>5
      <3>3. SkipRing(r, M, i0)
        BY <1>15, <2>4, <3>1, <3>2 DEF SkipRing
      <3> QED
        BY <1>6, <1>15, <2>1, <3>3
    <2>6. CASE D = M
      <3>0. M \in Nat /\ N \in Nat /\ N >= 1 /\ M - N <= D /\ D \in Nat
        BY <1>1, <2>2
      <3>1. ASSUME NEW j \in 1..N
            PROVE  (j = i0 /\ r.slots[j].blkno = Invalid) \/ InWindow(r.slots[j], r, M + 1)
        <4>1. CASE j = i
          <5>1. r.slots[j].blkno = D
            BY <1>13, <4>1
          <5>2. (M + 1) - N <= D /\ D < M + 1
            BY <2>6, <3>0
          <5> QED
            BY <1>15, <3>0, <5>1, <5>2 DEF InWindow
        <4>2. CASE j # i
          <5>1. r.slots[j] = s.slots[j]
            BY <1>13, <4>2
          <5>2. CASE j = i0 /\ s.slots[j].blkno = Invalid
            BY <5>1, <5>2
          <5>3. CASE ~(j = i0 /\ s.slots[j].blkno = Invalid)
            <6>1. PICK x \in Nat : x = s.slots[j].blkno /\ M - N <= x /\ x < M /\ x \in Nat
              BY <1>1, <2>2, <5>3 DEF InWindow
            <6>2. RingSlot(x, N) = j
              BY <1>7, <2>0, <6>1 DEF Invalid
            <6>3. x # M - N
              <7>1. CASE x = M - N
                <8>1. M = x + N
                  BY <7>1
                <8>2. RingSlot(x, N) = RingSlot(M, N)
                  BY <1>1, <8>1, NextRound
                <8> QED
                  BY <2>3, <2>6, <4>2, <6>2, <8>2
              <7> QED
                BY <7>1
            <6> QED
              <7>1. (M + 1) - N <= x /\ x < M + 1
                BY <3>0, <6>1, <6>3
              <7> QED
                BY <1>15, <5>1, <6>1, <7>1 DEF InWindow
          <5> QED
            BY <5>2, <5>3
        <4> QED
          BY <4>1, <4>2
      <3>2. (M + 1) - N <= D + 1 /\ D + 1 <= M + 1
        BY <2>6, <3>0
      <3>3. SkipRing(r, M + 1, i0)
        BY <1>15, <2>4, <3>1, <3>2 DEF SkipRing
      <3>4. M + 1 \in Nat /\ M + 1 <= b
        BY <1>1, <2>6
      <3> QED
        BY <1>6, <1>15, <3>3, <3>4
    <2> QED
      BY <2>2, <2>5, <2>6
  <1> QED
    BY <1>11, <1>14, <1>16, <1>17 DEF Skipping

SkippedGood(r, st, f, lo, b, pos) ==
    /\ r.ret \in {"ok", "read error", "INVALID_INPUT"}
    /\ r.ret = "ok" => Skipping(r, st, f, lo, b) /\ r.position >= pos

\* When all is read on the way to block b, the file is there.
LEMMA SkippedOnTheWay ==
    ASSUME NEW st, NEW f, IsFile(f), NEW lo \in BOOLEAN, NEW b \in Nat,
           NEW s, Skipping(s, st, f, lo, b), s.ret = "ok",
           NEW pos \in Nat, pos = b * st.blksize
    PROVE  SkippedGood(Skipped(s, f, pos), st, f, lo, b, pos)
  <1> SUFFICES ASSUME NEW r, r = Skipped(s, f, pos) PROVE SkippedGood(r, st, f, lo, b, pos)
    OBVIOUS
  <1>1. PICK a : /\ a[0] = s /\ r = a[pos]
                 /\ \A k \in 1..pos : a[k] = NextState(a[k - 1], f, pos)
    BY SkippedIs
  <1> DEFINE Good(k) == /\ a[k].ret \in {"ok", "read error", "INVALID_INPUT"}
                        /\ a[k].ret = "ok" => /\ Skipping(a[k], st, f, lo, b)
                                              /\ a[k].position >= k \/ a[k].position >= pos
             Bad == {k \in 0..pos : ~Good(k)}
  <1>2. Good(0)
    <2>1. s.position \in Nat
      BY DEF Skipping, Kin, Shape
    <2>2. PICK u : u = a[0]
      OBVIOUS
    <2>3. u = s
      BY <1>1, <2>2
    <2>4. /\ u.ret \in {"ok", "read error", "INVALID_INPUT"}
          /\ u.ret = "ok" => Skipping(u, st, f, lo, b) /\ (u.position >= 0 \/ u.position >= pos)
      <3>1. u.ret = "ok" /\ Skipping(u, st, f, lo, b)
        BY <2>3, Zenon
      <3>2. u.position >= 0
        BY <2>1, <2>3
      <3> QED
        BY <3>1, <3>2
    <2> QED
      BY <2>2, <2>4
  <1>3. ASSUME NEW k \in 1..pos, Good(k - 1) PROVE Good(k)
    <2>1. PICK t : t = a[k - 1]
      OBVIOUS
    <2>2. a[k] = NextState(t, f, pos)
      BY <1>1, <2>1
    <2>3. /\ t.ret \in {"ok", "read error", "INVALID_INPUT"}
          /\ t.ret = "ok" => /\ Skipping(t, st, f, lo, b)
                             /\ t.position >= k - 1 \/ t.position >= pos
      BY <1>3, <2>1
    <2>4. CASE t.ret # "ok" \/ t.position >= pos
      <3>1. a[k] = t
        BY <2>2, <2>4 DEF NextState
      <3> QED
        BY <2>3, <2>4, <3>1
    <2>5. CASE ~(t.ret # "ok" \/ t.position >= pos)
      <3>1. a[k] = SkipBlock(t, f)
        BY <2>2, <2>5 DEF NextState
      <3>2. Skipping(t, st, f, lo, b) /\ t.blksize = st.blksize /\ t.position \in Nat
            /\ t.blksize \in Nat /\ t.blksize > 0
        BY <2>3, <2>5 DEF Skipping, Kin, Shape
      <3>3. t.position < b * t.blksize
        BY <2>5, <3>2
      <3>4. PICK u : u = a[k]
        OBVIOUS
      <3>5. /\ u.ret \in {"ok", "read error", "INVALID_INPUT"}
            /\ u.ret = "ok" => Skipping(u, st, f, lo, b) /\ u.position = t.position + t.blksize
        <4>1. u = SkipBlock(t, f)
          BY <3>1, <3>4
        <4> QED
          <5>1. SkipGood(SkipBlock(t, f), t, st, f, lo, b)
            BY <3>2, <3>3, SkipStep
          <5>2. SkipGood(u, t, st, f, lo, b)
            BY <4>1, <5>1
          <5> QED
            BY <5>2 DEF SkipGood
      <3>6. u.ret = "ok" => u.position >= k
        <4>1. ASSUME u.ret = "ok" PROVE u.position >= k
          <5>1. PICK x \in Nat, B \in Nat : x = t.position /\ B = t.blksize
            BY <3>2
          <5>2. u.position = x + B /\ B > 0 /\ x >= k - 1
            BY <2>3, <2>5, <3>2, <3>5, <4>1, <5>1
          <5> QED
            BY <5>1, <5>2
        <4> QED
          BY <4>1
      <3> QED
        BY <3>4, <3>5, <3>6
    <2> QED
      BY <2>4, <2>5
  <1>4. Bad = {}
    <2>1. SUFFICES ASSUME Bad # {} PROVE FALSE
      OBVIOUS
    <2> HIDE DEF Good
    <2>2. PICK m \in Bad : \A k \in Bad : m <= k
      <3>1. Bad \in SUBSET Nat
        OBVIOUS
      <3> HIDE DEF Bad
      <3> QED
        BY <2>1, <3>1, LeastNumber
    <2>3. m # 0
      BY <1>2, <2>2
    <2>4. m \in 1..pos /\ m - 1 \in 0..pos
      BY <2>2, <2>3
    <2>5. m - 1 \notin Bad
      <3> HIDE DEF Bad
      <3>1. m \in Nat /\ ~(m <= m - 1)
        BY <2>4
      <3> QED
        BY <2>2, <3>1
    <2>6. Good(m - 1)
      BY <2>4, <2>5
    <2>7. Good(m)
      BY <1>3, <2>4, <2>6
    <2> QED
      BY <2>2, <2>7
  <1>5. pos \in 0..pos
    OBVIOUS
  <1>6. Good(pos)
    <2> HIDE DEF Good
    <2> QED
      BY <1>4, <1>5
  <1>7. PICK u : u = a[pos]
    OBVIOUS
  <1>8. /\ u.ret \in {"ok", "read error", "INVALID_INPUT"}
        /\ u.ret = "ok" => Skipping(u, st, f, lo, b) /\ u.position >= pos
    BY <1>6, <1>7
  <1> QED
    BY <1>1, <1>7, <1>8 DEF SkippedGood

-----------------------------------------------------------------------------
(* The list of the slots in the order of their use.                          *)

\* r is st with block b in the slot that was place q in the list, and that is the last one now:
\* it was there, or the slot used least recently has been read into.
Retired(r, st, b, q) ==
    /\ Len(r.slots) = Len(st.slots) /\ r.recent = Moved(st.recent, st.recent[q])
    /\ r.slots[st.recent[q]].blkno = b
    /\ \A j \in 1..Len(st.slots) : j # st.recent[q] => r.slots[j] = st.slots[j]
    /\ \/ st.slots[st.recent[q]].blkno = b
       \/ q = 1 /\ \A j \in 1..Len(st.slots) : st.slots[j].blkno # b

\* The slots stay in the order of use when the least recently used one is taken.
LEMMA RecentMoved ==
    ASSUME NEW st, Shape(st), NEW sn \in Seq(Nat), Once(sn), RecentRight(st, sn),
           NEW b \in Nat, NEW q \in 1..Len(st.slots), NEW r, Retired(r, st, b, q)
    PROVE  RecentRight(r, Moved(sn, b))
  <1> SUFFICES ASSUME NEW i, i = st.recent[q],
                      Len(r.slots) = Len(st.slots), r.recent = Moved(st.recent, i),
                      r.slots[i].blkno = b,
                      \A j \in 1..Len(st.slots) : j # i => r.slots[j] = st.slots[j],
                      \/ st.slots[i].blkno = b
                      \/ q = 1 /\ \A j \in 1..Len(st.slots) : st.slots[j].blkno # b
               PROVE  RecentRight(r, Moved(sn, b))
    BY DEF Retired
  <1>0. Len(st.slots) \in Nat /\ Len(st.slots) >= 1 /\ Len(sn) \in Nat
    BY LenProperties DEF Shape
  <1>1. PICK N \in Nat, L \in Nat : N = Len(st.slots) /\ L = Len(sn)
    BY <1>0
  <1>2. N >= 1 /\ L >= N /\ N \in Nat /\ L \in Nat /\ q \in 1..N
    BY <1>0, <1>1 DEF RecentRight
  <1>3. /\ st.recent \in Seq(1..N) /\ Len(st.recent) = N /\ Once(st.recent)
        /\ \A j \in 1..N : st.recent[j] \in 1..N /\ st.slots[st.recent[j]].blkno = sn[L - N + j]
        /\ \A k \in 1..N : \E j \in 1..N : st.recent[j] = k
    <2>1. st.recent \in Seq(1..N) /\ Len(st.recent) = N /\ Once(st.recent)
      BY <1>1 DEF Shape, RecentRight
    <2>2. \A j \in 1..N : st.recent[j] \in 1..N
      BY <2>1, ElementOfSeq
    <2>3. /\ \A j \in 1..N : st.slots[st.recent[j]].blkno = sn[L - N + j]
          /\ \A k \in 1..N : \E j \in 1..N : st.recent[j] = k
      BY <1>1 DEF RecentRight
    <2> QED
      BY <2>1, <2>2, <2>3
  <1>4. i \in 1..N
    BY <1>2, <1>3
  <1>5. PICK rec, moved : rec = st.recent /\ moved = Moved(sn, b)
    OBVIOUS
  <1>55. /\ rec \in Seq(1..N) /\ Len(rec) = N /\ Once(rec) /\ rec[q] = i
         /\ \A k \in 1..N : \E j \in 1..N : rec[j] = k
         /\ r.recent = Moved(rec, i)
    BY <1>3, <1>5
  <1>6. /\ r.recent \in Seq(1..N) /\ Len(r.recent) = N
        /\ \A k \in 1..N : r.recent[k] = IF k < q THEN rec[k] ELSE IF k < N THEN rec[k + 1] ELSE i
    <2>1. \A k \in 1..Len(rec) : rec[k] = rec[q] => k = q
      BY <1>2, <1>55 DEF Once
    <2>2. q \in 1..Len(rec) /\ rec \in Seq(1..N)
      BY <1>2, <1>55
    <2>3. /\ Moved(rec, rec[q]) \in Seq(1..N)
          /\ Len(Moved(rec, rec[q])) = Len(rec)
          /\ \A k \in 1..Len(rec) : Moved(rec, rec[q])[k] =
                IF k < q THEN rec[k] ELSE IF k < Len(rec) THEN rec[k + 1] ELSE rec[q]
      BY <2>1, <2>2, MovedFound
    <2> QED
      BY <1>55, <2>3
  <1>7. \A k \in 1..N : \E j \in 1..N : r.recent[j] = k
    <2>1. \A k \in 1..Len(rec) : \E j \in 1..Len(Moved(rec, i)) : Moved(rec, i)[j] = rec[k]
      <3>1. rec \in Seq(1..N) /\ Once(rec) /\ i \in 1..N
        BY <1>4, <1>55
      <3>2. HasAll(Moved(rec, i), rec, i)
        BY <3>1, MovedOnce
      <3> QED
        BY <3>2 DEF HasAll
    <2>2. \A k \in 1..N : \E j \in 1..N : r.recent[j] = rec[k]
      <3>1. PICK m : m = Moved(rec, i)
        OBVIOUS
      <3>2. Len(m) = N /\ Len(rec) = N /\ r.recent = m
        BY <1>6, <1>55, <3>1
      <3>3. \A k \in 1..Len(rec) : \E j \in 1..Len(m) : m[j] = rec[k]
        BY <2>1, <3>1
      <3> QED
        BY <3>2, <3>3
    <2>3. ASSUME NEW k \in 1..N PROVE \E j \in 1..N : r.recent[j] = k
      <3>1. PICK m \in 1..N : rec[m] = k
        BY <1>55
      <3> QED
        BY <2>2, <3>1
    <2> QED
      BY <2>3
  <1>8. SUFFICES /\ Len(moved) >= N
                 /\ \A j \in 1..N : r.slots[r.recent[j]].blkno = moved[Len(moved) - N + j]
    <2>1. Len(r.recent) = N /\ Len(r.slots) = N
      BY <1>1, <1>6
    <2>2. PICK ss : ss = r.slots
      OBVIOUS
    <2>3. /\ Len(r.recent) = Len(ss) /\ Len(moved) >= Len(ss)
          /\ \A k \in 1..Len(ss) : \E j \in 1..Len(ss) : r.recent[j] = k
          /\ \A j \in 1..Len(ss) : ss[r.recent[j]].blkno = moved[Len(moved) - Len(ss) + j]
      BY <1>7, <2>1, <2>2
    <2> QED
      BY <1>5, <2>2, <2>3 DEF RecentRight
  <1>9. \A j \in 1..N : rec[j] # i => r.slots[rec[j]].blkno = sn[L - N + j]
    <2> SUFFICES ASSUME NEW j \in 1..N, rec[j] # i
                 PROVE  r.slots[rec[j]].blkno = sn[L - N + j]
      OBVIOUS
    <2>1. rec[j] \in 1..Len(st.slots) /\ st.slots[rec[j]].blkno = sn[L - N + j]
      BY <1>1, <1>3, <1>5
    <2>2. r.slots[rec[j]] = st.slots[rec[j]]
      BY <2>1
    <2> QED
      BY <2>1, <2>2
  <1>10. \A j \in 1..N : j # q => rec[j] # i
    BY <1>2, <1>3, <1>5 DEF Once
  <1>11. ASSUME NEW p \in 1..L, sn[p] = b
         PROVE  /\ Len(moved) = L
                /\ \A k \in 1..L : moved[k] =
                     IF k < p THEN sn[k] ELSE IF k < L THEN sn[k + 1] ELSE b
    <2>1. \A k \in 1..Len(sn) : sn[k] = sn[p] => k = p
      BY <1>1, <1>11 DEF Once
    <2>2. p \in 1..Len(sn)
      BY <1>1, <1>11
    <2>3. /\ Len(Moved(sn, sn[p])) = Len(sn)
          /\ \A k \in 1..Len(sn) : Moved(sn, sn[p])[k] =
                IF k < p THEN sn[k] ELSE IF k < Len(sn) THEN sn[k + 1] ELSE sn[p]
      BY <2>1, <2>2, MovedFound
    <2> QED
      BY <1>1, <1>5, <1>11, <2>3
  <1>12. CASE st.slots[i].blkno = b
    <2>1. PICK p \in 1..L : p = L - N + q
      BY <1>2
    <2>2. sn[p] = b
      BY <1>2, <1>3, <1>12, <2>1
    <2>3. /\ Len(moved) = L
          /\ \A k \in 1..L : moved[k] = IF k < p THEN sn[k] ELSE IF k < L THEN sn[k + 1] ELSE b
      BY <1>11, <2>2
    <2>4. ASSUME NEW j \in 1..N PROVE r.slots[r.recent[j]].blkno = moved[L - N + j]
      <3>1. PICK k \in 1..L : k = L - N + j
        BY <1>2
      <3>2. CASE j < q
        <4>1. r.recent[j] = rec[j] /\ rec[j] # i
          BY <1>2, <1>6, <1>10, <3>2
        <4>2. k < p
          BY <1>2, <2>1, <3>1, <3>2
        <4> QED
          BY <1>9, <2>3, <3>1, <4>1, <4>2
      <3>3. CASE ~(j < q) /\ j < N
        <4>1. j + 1 \in 1..N /\ j + 1 # q /\ ~(k < p) /\ k < L /\ k + 1 = L - N + (j + 1)
          <5>1. /\ N \in Nat /\ L \in Nat /\ L >= N /\ q \in 1..N /\ j \in 1..N
                /\ p = L - N + q /\ k = L - N + j
            BY <1>2, <2>1, <2>4, <3>1
          <5>2. k + 1 = L - N + (j + 1)
            BY <5>1
          <5>3. j + 1 \in 1..N /\ j + 1 # q /\ ~(k < p) /\ k < L
            BY <3>3, <5>1
          <5> QED
            BY <5>2, <5>3
        <4>2. r.recent[j] = rec[j + 1] /\ rec[j + 1] # i
          BY <1>6, <1>10, <3>3, <4>1
        <4>3. moved[k] = sn[k + 1]
          BY <2>3, <4>1
        <4> QED
          BY <1>9, <3>1, <4>1, <4>2, <4>3
      <3>4. CASE ~(j < q) /\ ~(j < N)
        <4>1. ~(k < p) /\ ~(k < L)
          BY <1>2, <2>1, <3>1, <3>4
        <4> QED
          BY <1>6, <2>3, <3>1, <3>4, <4>1
      <3> QED
        BY <3>2, <3>3, <3>4
    <2> QED
      BY <1>2, <2>3, <2>4
  <1>13. CASE q = 1 /\ \A j \in 1..Len(st.slots) : st.slots[j].blkno # b
    <2>1. ASSUME NEW j \in 1..N PROVE sn[L - N + j] # b
      <3>1. st.recent[j] \in 1..Len(st.slots) /\ st.slots[st.recent[j]].blkno = sn[L - N + j]
        BY <1>1, <1>3
      <3> QED
        BY <1>13, <3>1
    <2>2. \A j \in 1..N : r.recent[j] = IF j < N THEN rec[j + 1] ELSE i
      BY <1>2, <1>6, <1>13
    <2>3. ASSUME NEW j \in 1..N, j < N
          PROVE  r.slots[r.recent[j]].blkno = sn[L - N + (j + 1)]
      <3>1. j + 1 \in 1..N /\ j + 1 # q
        BY <1>2, <1>13, <2>3
      <3> QED
        BY <1>9, <1>10, <2>2, <2>3, <3>1
    <2>4. CASE \E p \in 1..L : sn[p] = b
      <3>1. PICK p \in 1..L : sn[p] = b
        BY <2>4
      <3>2. p <= L - N
        <4>1. CASE p > L - N
          <5>1. PICK j \in 1..N : p = L - N + j
            <6>1. p - (L - N) \in 1..N /\ p = L - N + (p - (L - N))
              BY <1>2, <4>1
            <6> QED
              BY <6>1
          <5> QED
            BY <2>1, <3>1, <5>1
        <4> QED
          BY <1>2, <4>1
      <3>3. /\ Len(moved) = L
            /\ \A k \in 1..L : moved[k] = IF k < p THEN sn[k] ELSE IF k < L THEN sn[k + 1] ELSE b
        BY <1>11, <3>1
      <3>4. ASSUME NEW j \in 1..N PROVE r.slots[r.recent[j]].blkno = moved[L - N + j]
        <4>1. PICK k \in 1..L : k = L - N + j /\ ~(k < p)
          BY <1>2, <3>2
        <4>2. CASE j < N
          <5>1. k < L /\ k + 1 = L - N + (j + 1)
            BY <1>2, <4>1, <4>2
          <5>2. moved[k] = sn[k + 1]
            BY <3>3, <4>1, <5>1
          <5> QED
            BY <2>3, <4>1, <4>2, <5>1, <5>2
        <4>3. CASE ~(j < N)
          <5>1. ~(k < L)
            BY <1>2, <4>1, <4>3
          <5> QED
            BY <2>2, <3>3, <4>1, <4>3, <5>1
        <4> QED
          BY <4>2, <4>3
      <3> QED
        BY <1>2, <3>3, <3>4
    <2>5. CASE ~ \E p \in 1..L : sn[p] = b
      <3>1. /\ Len(moved) = L + 1 /\ moved[L + 1] = b
            /\ \A k \in 1..L : moved[k] = sn[k]
        <4>1. ~ \E k \in 1..Len(sn) : sn[k] = b
          BY <1>1, <2>5
        <4>2. AtEnd(Moved(sn, b), sn, b)
          BY <4>1, MovedNew
        <4> QED
          BY <1>1, <1>5, <4>2 DEF AtEnd
      <3>2. ASSUME NEW j \in 1..N PROVE r.slots[r.recent[j]].blkno = moved[(L + 1) - N + j]
        <4>1. CASE j < N
          <5>1. (L + 1) - N + j = L - N + (j + 1) /\ L - N + (j + 1) \in 1..L
            BY <1>2, <4>1
          <5> QED
            BY <2>3, <3>1, <4>1, <5>1
        <4>2. CASE ~(j < N)
          <5>1. PICK k : k = (L + 1) - N + j
            OBVIOUS
          <5>0. k = L + 1
            BY <1>2, <3>2, <4>2, <5>1
          <5>2. moved[(L + 1) - N + j] = b
            BY <3>1, <5>0, <5>1
          <5>3. r.slots[r.recent[j]].blkno = b
            BY <2>2, <4>2
          <5> QED
            BY <5>2, <5>3
        <4> QED
          BY <4>1, <4>2
      <3>3. Len(moved) = L + 1 /\ L + 1 >= N
        BY <1>2, <3>1
      <3> QED
        BY <3>2, <3>3
    <2> QED
      BY <2>4, <2>5
  <1> QED
    BY <1>12, <1>13

-----------------------------------------------------------------------------
(* The file at the block to be read.                                         *)

\* A block that the ring has no place for yet comes after all that it holds.
LEMMA NotYetIn ==
    ASSUME NEW st, Shape(st), st.fifo, AllRead(st), RingPlace(st), NEW M \in Nat, RingAt(st, M),
           NEW b \in Nat, NEW got, got = GetLru(st, b), got.ret = "ok", got.new
    PROVE  M <= b /\ SkipRing(got, M, RingSlot(b, Len(st.slots)))
  <1>0. PICK i : i = RingSlot(b, Len(st.slots))
    OBVIOUS
  <1>1. PICK N \in Nat, B \in Nat : N = Len(st.slots) /\ i = RingSlot(b, N) /\ B = st.blksize
    <2>1. Len(st.slots) \in Nat /\ st.blksize \in Nat
      BY LenProperties DEF Shape
    <2> QED
      BY <1>0, <2>1
  <1>2. N \in Nat /\ N >= 1 /\ B \in Nat /\ B > 0 /\ st.position \in Nat
    BY <1>1 DEF Shape
  <1>3. i \in 1..N
    BY <1>1, <1>2, RingSlotIs
  <1>4. /\ Kin(got, st) /\ got.position = st.position
    BY LruKin
  <1>5. /\ \A j \in 1..N : j # i => got.slots[j] = st.slots[j]
        /\ got.slots[i].blkno = Invalid
        /\ st.slots[i].blkno = Invalid \/ st.slots[i].blkno < b
    <2>1. LruKeeps(got, st, b)
      BY LruSlots
    <2> QED
      BY <1>1, <2>1 DEF LruKeeps
  <1>6. PICK x \in Nat : x = st.slots[i].blkno /\ x # Invalid /\ RingSlot(x, N) = i
                         /\ M - N <= x /\ x < M
    <2>1. st.slots[i].blkno \in Nat /\ st.slots[i].blkno # Invalid
      BY <1>1, <1>3 DEF AllRead, Invalid
    <2>2. RingSlot(st.slots[i].blkno, N) = i
      BY <1>1, <1>3, <2>1 DEF RingPlace
    <2>3. M - N <= st.slots[i].blkno /\ st.slots[i].blkno < M
      BY <1>1, <1>3 DEF RingAt, InWindow
    <2> QED
      BY <2>1, <2>2, <2>3
  <1>7. M <= b
    <2>1. x < b
      BY <1>5, <1>6
    <2>2. b >= x + N
      BY <1>1, <1>2, <1>6, <2>1, OnePlace
    <2> QED
      BY <1>2, <1>6, <2>2
  <1>8. Len(got.slots) = N /\ got.blksize = B /\ Shape(got)
    BY <1>1, <1>4 DEF Kin
  <1>9. RingPlace(got)
    <2>1. \A j \in 1..N : got.slots[j].blkno # Invalid =>
            got.slots[j].blkno \in Nat /\ RingSlot(got.slots[j].blkno, N) = j
      BY <1>1, <1>5 DEF RingPlace
    <2> QED
      BY <1>8, <2>1 DEF RingPlace
  <1>10. \A j \in 1..N : (j = i /\ got.slots[j].blkno = Invalid) \/ InWindow(got.slots[j], got, M)
    <2>1. \A j \in 1..N : InWindow(st.slots[j], st, M)
      BY <1>1 DEF RingAt
    <2> QED
      BY <1>1, <1>5, <1>8, <2>1 DEF InWindow
  <1>11. M - N <= got.position \div B /\ got.position \div B <= M
    <2>1. M - N <= st.position \div B /\ st.position <= M * B
      BY <1>1 DEF RingAt
    <2>2. PICK D \in Nat, p \in Nat : D = st.position \div B /\ p = st.position
                                      /\ D * B <= p /\ p < D * B + B
      <3>1. st.position \div B \in Nat /\ (st.position \div B) * B <= st.position
            /\ st.position < (st.position \div B) * B + B
        BY <1>2, DivNat
      <3> QED
        BY <1>2, <3>1
    <2>3. D <= M
      <3>1. CASE M < D
        <4>1. M * B + B <= D * B
          <5>1. M \in Int /\ D \in Int
            OBVIOUS
          <5> QED
            BY <1>2, <3>1, <5>1, TimesMore
        <4>2. M * B \in Nat /\ D * B \in Nat
          BY <1>2
        <4> QED
          BY <1>2, <2>1, <2>2, <4>1, <4>2
      <3> QED
        BY <2>2, <3>1
    <2> QED
      BY <1>4, <2>1, <2>2, <2>3
  <1>12. SkipRing(got, M, i)
    BY <1>8, <1>9, <1>10, <1>11 DEF SkipRing
  <1> QED
    BY <1>1, <1>7, <1>12

PosGood(p, got, f, lo, b) ==
    /\ p.ret \in {"ok", "TOOFARBACK", "read error", "INVALID_INPUT"}
    /\ p.ret = "TOOFARBACK" => p.fifo = got.fifo /\ ~got.fifo
    /\ p.ret = "ok" =>
          /\ Shape(p) /\ Len(p.slots) = Len(got.slots) /\ p.fifo = got.fifo
          /\ p.blksize = got.blksize /\ p.first = got.first
          /\ f.seeks => /\ p.slots = got.slots /\ p.recent = got.recent
                        /\ p.seek_failed = got.seek_failed
          /\ ~lo => p.offset = b * got.blksize /\ AllRight(p, f)
          /\ p.fifo /\ ~f.seeks => SkipRing(p, b, RingSlot(b, Len(got.slots)))

\* The file is at the block, or the call says why not; a file in a ring got there block by block.
LEMMA PositionedGood ==
    ASSUME NEW st, NEW f, IsFile(f), NEW lo \in BOOLEAN, NEW sn, CacheRests(st, f, sn, lo),
           NEW b \in Nat, b * st.blksize <= f.length,
           NEW got, got = GetLru(st, b), got.ret = "ok", got.new
    PROVE  PosGood(Positioned(got, f, b * got.blksize), got, f, lo, b)
  <1> SUFFICES ASSUME NEW p, p = Positioned(got, f, b * got.blksize)
               PROVE  PosGood(p, got, f, lo, b)
    OBVIOUS
  <1>1. /\ Shape(st) /\ ~st.first /\ (f.seeks => ~st.seek_failed)
        /\ (~lo => Faithful(st, f))
        /\ (st.fifo => AllRead(st) /\ RingPlace(st))
        /\ (st.fifo /\ ~f.seeks => \E M \in Nat : RingAt(st, M))
    BY DEF CacheRests
  <1>2. /\ Kin(got, st) /\ got.position = st.position /\ got.offset = st.offset
        /\ got.first = st.first /\ got.slot \in 1..Len(st.slots)
    BY <1>1, LruKin
  <1>3. LruKeeps(got, st, b)
    BY <1>1, LruSlots
  <1>4. PICK N \in Nat, B \in Nat, pos \in Nat :
          N = Len(st.slots) /\ B = st.blksize /\ pos = b * B
    <2>1. Len(st.slots) \in Nat /\ st.blksize \in Nat
      BY <1>1, LenProperties DEF Shape
    <2>2. b * st.blksize \in Nat
      BY <2>1
    <2> QED
      BY <2>1, <2>2
  <1>5. /\ Shape(got) /\ Len(got.slots) = N /\ got.fifo = st.fifo /\ got.blksize = B
        /\ got.seek_failed = st.seek_failed /\ B > 0 /\ B \in Nat /\ N \in Nat /\ pos \in Nat
        /\ got.position \in Nat /\ f.length \in Nat /\ f.seeks \in BOOLEAN
    BY <1>1, <1>2, <1>4 DEF Kin, Shape, IsFile
  <1>6. p = IF pos # got.position THEN ReadSeek(got, f, pos) ELSE got
    BY <1>4, <1>5 DEF Positioned
  <1>7. ~lo => AllRight(got, f) /\ Faithful(got, f)
    <2> SUFFICES ASSUME ~lo PROVE AllRight(got, f) /\ Faithful(got, f)
      OBVIOUS
    <2>1. Faithful(st, f)
      BY <1>1
    <2>2. \A j \in 1..N : got.slots[j].blkno # Invalid => BlockRight(got.slots[j], B, f)
      <3>1. \A j \in 1..N : st.slots[j].blkno # Invalid => BlockRight(st.slots[j], B, f)
        BY <1>4, <2>1 DEF Faithful, AllRight
      <3>2. /\ got.slots[got.slot].blkno = Invalid
            /\ \A j \in 1..N : j # got.slot => got.slots[j] = st.slots[j]
        BY <1>3, <1>4 DEF LruKeeps
      <3> QED
        BY <3>1, <3>2
    <2>3. AllRight(got, f)
      BY <1>5, <2>2 DEF AllRight
    <2> QED
      BY <1>2, <1>4, <1>5, <2>1, <2>3 DEF Faithful
  <1>8. st.fifo /\ ~f.seeks =>
          \E M \in Nat : RingAt(st, M) /\ M <= b /\ SkipRing(got, M, RingSlot(b, N))
    <2> SUFFICES ASSUME st.fifo, ~f.seeks
                 PROVE  \E M \in Nat : RingAt(st, M) /\ M <= b /\ SkipRing(got, M, RingSlot(b, N))
      OBVIOUS
    <2>1. PICK M \in Nat : RingAt(st, M)
      BY <1>1
    <2>2. M <= b /\ SkipRing(got, M, RingSlot(b, Len(st.slots)))
      BY <1>1, <2>1, NotYetIn
    <2> QED
      BY <1>4, <2>1, <2>2
  <1>9. CASE pos = got.position
    <2>1. p = got
      BY <1>6, <1>9
    <2>2. ~lo => p.offset = b * got.blksize
      BY <1>4, <1>5, <1>7, <1>9, <2>1 DEF Faithful
    <2>3. got.fifo /\ ~f.seeks => SkipRing(got, b, RingSlot(b, N))
      <3> SUFFICES ASSUME got.fifo, ~f.seeks PROVE SkipRing(got, b, RingSlot(b, N))
        OBVIOUS
      <3>1. PICK M \in Nat : M <= b /\ SkipRing(got, M, RingSlot(b, N))
        BY <1>5, <1>8
      <3>2. pos \div B = b
        <4>1. pos = b * B /\ b \in Int
          BY <1>4
        <4> QED
          BY <1>5, <4>1, DivOf
      <3>3. b <= M
        BY <1>5, <1>9, <3>1, <3>2 DEF SkipRing
      <3>4. M = b
        BY <3>1, <3>3
      <3> QED
        BY <3>1, <3>4
    <2> QED
      BY <1>4, <1>5, <1>7, <2>1, <2>2, <2>3 DEF PosGood
  <1>10. CASE pos # got.position /\ ~got.seek_failed /\ f.seeks
    <2>1. p = [got EXCEPT !.offset = pos, !.position = pos]
      BY <1>6, <1>10 DEF ReadSeek
    <2>2. DOMAIN got = Fields
      BY <1>5 DEF Shape
    <2>3. Same(p, got, {"offset", "position"}) /\ p.offset = pos /\ p.position = pos
      BY <2>1, <2>2 DEF Same, Fields
    <2>4. /\ p.slots = got.slots /\ p.recent = got.recent /\ p.seek_failed = got.seek_failed
          /\ p.ret = got.ret /\ p.fifo = got.fifo /\ p.blksize = got.blksize /\ p.first = got.first
      BY <2>3 DEF Same, Fields
    <2>5. Shape(p)
      BY <1>5, <2>3 DEF Same, Fields, Shape
    <2>6. ~lo => AllRight(p, f)
      BY <1>7, <2>4 DEF AllRight
    <2> QED
      BY <1>4, <1>5, <1>10, <2>3, <2>4, <2>5, <2>6 DEF PosGood
  <1>11. CASE pos # got.position /\ ~(~got.seek_failed /\ f.seeks) /\ got.position > pos
    <2>1. p = Returned([got EXCEPT !.seek_failed = TRUE], "TOOFARBACK")
      BY <1>6, <1>11 DEF ReadSeek
    <2>2. p.ret = "TOOFARBACK" /\ p.fifo = got.fifo
      <3>1. PICK u : u = [got EXCEPT !.seek_failed = TRUE]
        OBVIOUS
      <3>2. DOMAIN u = Fields
        BY <1>5, <3>1 DEF Shape
      <3>3. Returned(u, "TOOFARBACK").ret = "TOOFARBACK" /\ Same(Returned(u, "TOOFARBACK"), u, {"ret"})
        BY <3>2, ReturnedIs, Zenon
      <3>4. p.ret = "TOOFARBACK" /\ Same(p, u, {"ret"})
        BY <2>1, <3>1, <3>3
      <3>5. p.fifo = u.fifo
        BY <3>4 DEF Same, Fields
      <3>6. u.fifo = got.fifo
        BY <1>5, <3>1 DEF Shape, Fields
      <3> QED
        BY <3>4, <3>5, <3>6
    <2>3. ~f.seeks
      BY <1>1, <1>5, <1>11
    <2>4. ~st.fifo
      <3>1. CASE st.fifo
        <4>1. PICK M \in Nat : RingAt(st, M) /\ M <= b
          BY <1>8, <2>3, <3>1
        <4>2. got.position <= M * B
          BY <1>2, <1>4, <4>1 DEF RingAt
        <4>3. M * B <= b * B
          <5>1. CASE M = b
            BY <1>5, <5>1
          <5>2. CASE M < b
            <6>1. M \in Int /\ b \in Int /\ M * B \in Nat /\ b * B \in Nat
              BY <1>5
            <6>2. M * B + B <= b * B
              BY <1>5, <5>2, <6>1, TimesMore
            <6> QED
              BY <1>5, <6>1, <6>2
          <5> QED
            BY <4>1, <5>1, <5>2
        <4>4. PICK x \in Nat : x = M * B
          BY <1>5
        <4> QED
          BY <1>4, <1>5, <1>11, <4>2, <4>3, <4>4
      <3> QED
        BY <3>1
    <2> QED
      BY <1>5, <2>2, <2>4 DEF PosGood
  <1>12. CASE pos # got.position /\ ~(~got.seek_failed /\ f.seeks) /\ ~(got.position > pos)
    <2>1. PICK u : u = [got EXCEPT !.seek_failed = TRUE]
      OBVIOUS
    <2>2. p = Skipped(u, f, pos)
      BY <1>6, <1>12, <2>1 DEF ReadSeek
    <2>3. ~f.seeks
      BY <1>1, <1>5, <1>12
    <2>4. Same(u, got, {"seek_failed"}) /\ u.seek_failed = TRUE
      BY <1>5, <2>1 DEF Same, Fields, Shape
    <2>5. /\ u.slots = got.slots /\ u.ret = "ok" /\ u.fifo = got.fifo /\ u.blksize = B
          /\ u.position = got.position /\ u.offset = got.offset /\ u.first = got.first
      BY <1>5, <2>4 DEF Same, Fields
    <2>6. Shape(u)
      BY <1>5, <2>4 DEF Same, Fields, Shape
    <2>7. Kin(u, u) /\ u.first = u.first
      BY <2>6 DEF Kin
    <2>8. ~lo => OnTheWay(u, f, b)
      <3> SUFFICES ASSUME ~lo PROVE OnTheWay(u, f, b)
        OBVIOUS
      <3>1. Faithful(u, f)
        BY <1>5, <1>7, <2>5 DEF Faithful, AllRight
      <3>2. u.position < pos /\ pos <= f.length
        BY <1>4, <1>5, <1>12, <2>5
      <3>3. u.position # f.length
        BY <1>5, <2>5, <3>2
      <3>4. u.position = (u.position \div u.blksize) * u.blksize
        BY <3>1, <3>3 DEF Faithful
      <3>5. u.position <= b * u.blksize
        BY <1>4, <1>5, <2>5, <3>2
      <3> QED
        BY <3>1, <3>4, <3>5 DEF OnTheWay
    <2>9. u.fifo => \E M \in Nat : M <= b /\ SkipRing(u, M, RingSlot(b, Len(u.slots)))
      <3> SUFFICES ASSUME u.fifo
                   PROVE  \E M \in Nat : M <= b /\ SkipRing(u, M, RingSlot(b, Len(u.slots)))
        OBVIOUS
      <3>1. PICK M \in Nat : M <= b /\ SkipRing(got, M, RingSlot(b, N))
        BY <1>5, <1>8, <2>3, <2>5
      <3>2. SkipRing(u, M, RingSlot(b, N))
        BY <1>5, <2>5, <3>1 DEF SkipRing, RingPlace, InWindow
      <3> QED
        BY <1>5, <2>5, <3>1, <3>2
    <2>10. Skipping(u, u, f, lo, b)
      BY <2>7, <2>8, <2>9 DEF Skipping
    <2>11. pos = b * u.blksize
      BY <1>4, <2>5
    <2>12. SkippedGood(p, u, f, lo, b, pos)
      <3>1. SkippedGood(Skipped(u, f, pos), u, f, lo, b, pos)
        BY <1>5, <2>5, <2>10, <2>11, SkippedOnTheWay
      <3> QED
        BY <2>2, <3>1
    <2>13. CASE p.ret # "ok"
      BY <2>12, <2>13 DEF SkippedGood, PosGood
    <2>14. CASE p.ret = "ok"
      <3>1. Skipping(p, u, f, lo, b) /\ p.position >= pos
        BY <2>12, <2>14 DEF SkippedGood
      <3>2. /\ Shape(p) /\ Len(p.slots) = N /\ p.fifo = got.fifo /\ p.blksize = B
            /\ p.first = got.first
        BY <1>5, <2>5, <3>1 DEF Skipping, Kin
      <3>3. p.position \in Nat
        BY <3>2 DEF Shape
      <3>4. ~lo => p.offset = b * got.blksize /\ AllRight(p, f)
        <4> SUFFICES ASSUME ~lo PROVE p.offset = b * got.blksize /\ AllRight(p, f)
          OBVIOUS
        <4>1. OnTheWay(p, f, b)
          BY <3>1 DEF Skipping
        <4>2. p.position <= pos
          BY <1>4, <3>2, <4>1 DEF OnTheWay
        <4>3. p.position = pos
          BY <1>5, <3>1, <3>3, <4>2
        <4> QED
          BY <1>4, <1>5, <4>1, <4>3 DEF OnTheWay, Faithful
      <3>5. p.fifo => SkipRing(p, b, RingSlot(b, N))
        <4> SUFFICES ASSUME p.fifo PROVE SkipRing(p, b, RingSlot(b, N))
          OBVIOUS
        <4>1. PICK M \in Nat : M <= b /\ SkipRing(p, M, RingSlot(b, N))
          BY <3>1, <3>2 DEF Skipping
        <4>2. p.position \div B >= b
          <5>1. PICK x \in Nat : x = p.position
            BY <3>3
          <5>2. x >= b * B /\ b \in Int
            BY <1>4, <3>1, <5>1
          <5>3. x \div B >= b
            BY <1>5, <5>1, <5>2, DivOf
          <5> QED
            BY <5>1, <5>3
        <4>3. PICK D \in Nat : D = p.position \div B
          BY <1>5, <3>3, DivNat
        <4>4. D <= M
          BY <3>2, <4>1, <4>3 DEF SkipRing
        <4>5. M = b
          BY <4>1, <4>2, <4>3, <4>4
        <4> QED
          BY <4>1, <4>5
      <3> QED
        BY <1>5, <2>3, <2>14, <3>2, <3>4, <3>5 DEF PosGood
    <2> QED
      BY <2>13, <2>14
  <1> QED
    BY <1>9, <1>10, <1>11, <1>12

-----------------------------------------------------------------------------
(* A block is asked for.                                                     *)

\* The block is read into slot i.
ReadAt(r, p, i, n, b) ==
    /\ Same(r, p, {"slots", "offset", "first", "position", "cur"})
    /\ Read(r, p, i, n, b) /\ r.first = FALSE /\ r.position = b * p.blksize + n
    /\ r.cur = [blkno |-> b, at |-> p.offset, size |-> n]

\* The block is read, or the error is told.
LEMMA ReadIntoIs ==
    ASSUME NEW p, Shape(p), p.ret = "ok", NEW i \in 1..Len(p.slots), NEW f, NEW b \in Nat
    PROVE  LET n == Nread(f, p.offset, p.blksize, p.first)
           IN  IF n = -1 THEN ReadInto(p, i, f, b).ret = "read error"
               ELSE ReadAt(ReadInto(p, i, f, b), p, i, n, b)
  <1>1. PICK n, r : n = Nread(f, p.offset, p.blksize, p.first) /\ r = ReadInto(p, i, f, b)
    OBVIOUS
  <1>2. DOMAIN p = Fields
    BY DEF Shape
  <1>3. CASE n = -1
    <2>1. r = Returned(p, "read error")
      BY <1>1, <1>3 DEF ReadInto
    <2>2. Returned(p, "read error").ret = "read error"
      BY <1>2, ReturnedIs, Zenon
    <2> QED
      BY <1>1, <1>3, <2>1, <2>2
  <1>4. CASE n # -1
    <2>1. PICK u : u = FilledAt(p, i, n, b)
      OBVIOUS
    <2>2. r = [u EXCEPT !.first = FALSE, !.position = b * p.blksize + n,
                        !.cur = [blkno |-> b, at |-> p.offset, size |-> n]]
      BY <1>1, <1>4, <2>1 DEF ReadInto
    <2>3. Same(u, p, {"slots", "offset"}) /\ Read(u, p, i, n, b)
      <3>1. Same(FilledAt(p, i, n, b), p, {"slots", "offset"}) /\ Read(FilledAt(p, i, n, b), p, i, n, b)
        BY <1>2, FilledAtIs, Zenon
      <3> QED
        BY <2>1, <3>1
    <2>4. DOMAIN u = Fields
      BY <2>3 DEF Same
    <2>5. /\ Same(r, u, {"first", "position", "cur"})
          /\ r.first = FALSE /\ r.position = b * p.blksize + n
          /\ r.cur = [blkno |-> b, at |-> p.offset, size |-> n]
      BY <2>2, <2>4 DEF Same, Fields
    <2>6. r.slots = u.slots /\ r.offset = u.offset
      BY <2>5 DEF Same, Fields
    <2>7. Same(r, p, {"slots", "offset", "first", "position", "cur"})
      BY <2>3, <2>5 DEF Same, Fields
    <2>8. ReadAt(r, p, i, n, b)
      BY <2>3, <2>5, <2>6, <2>7 DEF ReadAt, Read
    <2> QED
      BY <1>1, <1>4, <2>8
  <1> QED
    BY <1>3, <1>4

\* The block in memory is the one asked for.
BlockThere(r, f, b) ==
    /\ r.cur.blkno = b /\ r.cur.at = b * r.blksize
    /\ r.cur.size = AtMost(r.blksize, f.length - r.cur.at)

GetGood(r, st, f, sn, lo, b) ==
    /\ r.ret \in {"ok", "TOOFARBACK", "read error", "INVALID_INPUT"}
    /\ r.ret = "ok" => /\ CacheRests(r, f, Moved(sn, b), lo) /\ r.fifo = st.fifo
                       /\ ~lo => BlockThere(r, f, b)
    /\ r.ret = "TOOFARBACK" => r.fifo = st.fifo
    /\ r.ret = "TOOFARBACK" /\ r.fifo =>
          /\ CacheRests(r, f, sn, lo)
          /\ \E n \in 1..Len(sn) : sn[n] >= b + Len(r.slots)

\* The blocks asked for so far, and the new one as the last.
LEMMA SeenOn ==
    ASSUME NEW sn \in Seq(Nat), Once(sn), NEW b \in Nat
    PROVE  /\ Moved(sn, b) \in Seq(Nat) /\ Once(Moved(sn, b))
           /\ \A n \in 1..Len(sn) : \E m \in 1..Len(Moved(sn, b)) : Moved(sn, b)[m] = sn[n]
           /\ \E m \in 1..Len(Moved(sn, b)) : Moved(sn, b)[m] = b
  <1>1. /\ Moved(sn, b) \in Seq(Nat) /\ Once(Moved(sn, b))
        /\ HasAll(Moved(sn, b), sn, b)
    BY MovedOnce
  <1> QED
    BY <1>1 DEF HasAll

\* What was asked for stays asked for.
LEMMA SeenStays ==
    ASSUME NEW sn \in Seq(Nat), Once(sn), NEW b \in Nat, NEW x \in Nat,
           \E n \in 1..Len(sn) : sn[n] >= x
    PROVE  \E m \in 1..Len(Moved(sn, b)) : Moved(sn, b)[m] >= x
  <1>1. PICK n \in 1..Len(sn) : sn[n] >= x
    OBVIOUS
  <1>2. PICK m \in 1..Len(Moved(sn, b)) : Moved(sn, b)[m] = sn[n]
    BY SeenOn
  <1> QED
    BY <1>1, <1>2

\* The block is in memory already.
LEMMA HitKeeps ==
    ASSUME NEW st, NEW f, IsFile(f), NEW lo \in BOOLEAN, NEW sn, CacheRests(st, f, sn, lo),
           NEW b \in Nat, NEW got, got = GetLru(st, b), got.ret = "ok", ~got.new,
           NEW r, r = [got EXCEPT !.cur = got.slots[got.slot]]
    PROVE  GetGood(r, st, f, sn, lo, b)
  <1>1. /\ Shape(st) /\ ~st.first /\ (f.seeks => ~st.seek_failed)
        /\ sn \in Seq(Nat) /\ Once(sn)
        /\ (~lo => Faithful(st, f))
        /\ (st.fifo => AllRead(st) /\ RingPlace(st) /\ LabelsSeen(st, sn))
        /\ (st.fifo /\ ~f.seeks => \E M \in Nat : RingAt(st, M))
        /\ (~st.fifo /\ f.seeks => RecentRight(st, sn))
    BY DEF CacheRests
  <1>2. /\ Kin(got, st) /\ got.position = st.position /\ got.offset = st.offset
        /\ got.first = st.first /\ got.slot \in 1..Len(st.slots)
    BY <1>1, LruKin
  <1>3. got.slots = st.slots /\ st.slots[got.slot].blkno = b
    <2>1. LruKeeps(got, st, b)
      BY <1>1, LruSlots
    <2> QED
      BY <2>1 DEF LruKeeps
  <1>4. DOMAIN got = Fields
    BY <1>2 DEF Kin, Shape
  <1>5. Same(r, got, {"cur"}) /\ r.cur = st.slots[got.slot]
    BY <1>3, <1>4 DEF Same, Fields
  <1>6. /\ r.slots = st.slots /\ r.recent = got.recent /\ r.fifo = st.fifo /\ r.blksize = st.blksize
        /\ r.position = st.position /\ r.offset = st.offset /\ r.seek_failed = st.seek_failed
        /\ r.first = st.first /\ r.ret = "ok"
    BY <1>2, <1>3, <1>5 DEF Same, Fields, Kin
  <1>7. Shape(r)
    BY <1>2, <1>5 DEF Same, Fields, Kin, Shape
  <1>8. ~lo => Faithful(r, f)
    BY <1>1, <1>6 DEF Faithful, AllRight
  <1>9. PICK moved : moved = Moved(sn, b)
    OBVIOUS
  <1>10. moved \in Seq(Nat) /\ Once(moved)
    BY <1>1, <1>9, SeenOn
  <1>11. st.fifo => AllRead(r) /\ RingPlace(r) /\ LabelsSeen(r, moved)
    <2> SUFFICES ASSUME st.fifo PROVE AllRead(r) /\ RingPlace(r) /\ LabelsSeen(r, moved)
      OBVIOUS
    <2>1. AllRead(r) /\ RingPlace(r)
      BY <1>1, <1>6 DEF AllRead, RingPlace
    <2>2. ASSUME NEW j \in 1..Len(st.slots)
          PROVE  \E m \in 1..Len(moved) : moved[m] >= st.slots[j].blkno
      <3>1. PICK x \in Nat : x = st.slots[j].blkno
        BY <1>1 DEF AllRead
      <3>2. \E n \in 1..Len(sn) : sn[n] >= x
        BY <1>1, <3>1 DEF LabelsSeen
      <3>3. \E m \in 1..Len(Moved(sn, b)) : Moved(sn, b)[m] >= x
        BY <1>1, <3>2, SeenStays
      <3> QED
        BY <1>9, <3>1, <3>3
    <2> QED
      BY <1>6, <2>1, <2>2 DEF LabelsSeen
  <1>12. st.fifo /\ ~f.seeks => \E M \in Nat : RingAt(r, M)
    BY <1>1, <1>6 DEF RingAt, InWindow
  <1>13. ~st.fifo /\ f.seeks => RecentRight(r, moved)
    <2> SUFFICES ASSUME ~st.fifo, f.seeks PROVE RecentRight(r, moved)
      OBVIOUS
    <2>1. RecentRight(st, sn)
      BY <1>1
    <2>2. got.recent = Moved(st.recent, got.slot)
      <3>1. (\E i \in 1..Len(st.slots) : ListFound(got, st, b, i)) \/ ListFreed(got, st, b)
        BY <1>1, ListLru
      <3> QED
        BY <3>1 DEF ListFound, ListFreed
    <2>3. PICK q \in 1..Len(st.slots) : st.recent[q] = got.slot
      BY <1>2, <2>1 DEF RecentRight
    <2>4. RecentRight(r, Moved(sn, b))
      <3>1. Retired(r, st, b, q)
        BY <1>3, <1>6, <2>2, <2>3 DEF Retired
      <3> QED
        BY <1>1, <2>1, <3>1, RecentMoved
    <2> QED
      BY <1>9, <2>4
  <1>14. ~lo => BlockThere(r, f, b)
    <2> SUFFICES ASSUME ~lo PROVE BlockThere(r, f, b)
      OBVIOUS
    <2>1. BlockRight(st.slots[got.slot], st.blksize, f)
      <3>1. b # Invalid
        BY DEF Invalid
      <3> QED
        BY <1>1, <1>2, <1>3, <3>1 DEF Faithful, AllRight
    <2> QED
      BY <1>3, <1>5, <1>6, <2>1 DEF BlockThere, BlockRight
  <1>15. CacheRests(r, f, moved, lo)
    BY <1>1, <1>6, <1>7, <1>8, <1>10, <1>11, <1>12, <1>13 DEF CacheRests
  <1> QED
    BY <1>6, <1>9, <1>14, <1>15 DEF GetGood

\* In the ring, the block has had to make room.
LEMMA BackKeeps ==
    ASSUME NEW st, NEW f, IsFile(f), NEW lo \in BOOLEAN, NEW sn, CacheRests(st, f, sn, lo),
           NEW b \in Nat, NEW r, r = GetLru(st, b), r.ret = "TOOFARBACK"
    PROVE  GetGood(r, st, f, sn, lo, b)
  <1>1. /\ Shape(st) /\ ~st.first /\ (f.seeks => ~st.seek_failed)
        /\ sn \in Seq(Nat) /\ Once(sn)
        /\ (~lo => Faithful(st, f))
        /\ (st.fifo => AllRead(st) /\ RingPlace(st) /\ LabelsSeen(st, sn))
        /\ (st.fifo /\ ~f.seeks => \E M \in Nat : RingAt(st, M))
        /\ (~st.fifo /\ f.seeks => RecentRight(st, sn))
    BY DEF CacheRests
  <1>2. PICK i : i = RingSlot(b, Len(st.slots))
    OBVIOUS
  <1>3. /\ st.fifo /\ i \in 1..Len(st.slots) /\ Same(r, st, {"ret"})
        /\ st.slots[i].blkno # Invalid /\ st.slots[i].blkno > b
    BY <1>1, <1>2, RingBack
  <1>4. /\ r.slots = st.slots /\ r.recent = st.recent /\ r.fifo = st.fifo /\ r.blksize = st.blksize
        /\ r.position = st.position /\ r.offset = st.offset /\ r.seek_failed = st.seek_failed
        /\ r.first = st.first
    BY <1>3 DEF Same, Fields
  <1>5. Shape(r)
    BY <1>1, <1>3 DEF Same, Fields, Shape
  <1>6. ~lo => Faithful(r, f)
    BY <1>1, <1>4 DEF Faithful, AllRight
  <1>7. AllRead(r) /\ RingPlace(r) /\ LabelsSeen(r, sn)
    BY <1>1, <1>3, <1>4 DEF AllRead, RingPlace, LabelsSeen
  <1>8. ~f.seeks => \E M \in Nat : RingAt(r, M)
    BY <1>1, <1>3, <1>4 DEF RingAt, InWindow
  <1>9. CacheRests(r, f, sn, lo)
    BY <1>1, <1>3, <1>4, <1>5, <1>6, <1>7, <1>8 DEF CacheRests
  <1>10. \E n \in 1..Len(sn) : sn[n] >= b + Len(r.slots)
    <2>1. PICK N \in Nat, x \in Nat : N = Len(st.slots) /\ x = st.slots[i].blkno
      BY <1>1, <1>3, LenProperties DEF AllRead, Shape
    <2>2. RingSlot(x, N) = RingSlot(b, N) /\ N >= 1
      BY <1>1, <1>2, <1>3, <2>1 DEF RingPlace, Shape
    <2>3. x >= b + N
      BY <1>3, <2>1, <2>2, OnePlace
    <2>4. PICK n \in 1..Len(sn) : sn[n] >= x
      BY <1>1, <1>3, <2>1 DEF LabelsSeen
    <2>5. sn[n] \in Nat
      BY <1>1, ElementOfSeq
    <2>6. sn[n] >= b + N
      BY <2>3, <2>4, <2>5
    <2> QED
      BY <1>4, <2>1, <2>6
  <1> QED
    BY <1>4, <1>9, <1>10 DEF GetGood

\* The ring goes on by one block.
LEMMA RingGoesOn ==
    ASSUME NEW p, Shape(p), NEW b \in Nat, NEW i, i = RingSlot(b, Len(p.slots)),
           SkipRing(p, b, i),
           NEW r, Shape(r), Len(r.slots) = Len(p.slots), r.blksize = p.blksize,
           r.slots[i].blkno = b,
           \A j \in 1..Len(p.slots) : j # i => r.slots[j] = p.slots[j],
           NEW n \in 0..p.blksize, r.position = b * p.blksize + n
    PROVE  AllRead(r) /\ RingPlace(r) /\ RingAt(r, b + 1)
  <1>0. Len(p.slots) \in Nat /\ p.blksize \in Nat /\ p.blksize > 0 /\ Len(p.slots) >= 1
    BY LenProperties DEF Shape
  <1>1. PICK N \in Nat, B \in Nat : N = Len(p.slots) /\ B = p.blksize
    BY <1>0
  <1>2. N \in Nat /\ N >= 1 /\ B \in Nat /\ B > 0 /\ n \in Nat /\ n <= B /\ b * B \in Nat
    BY <1>0, <1>1
  <1>3. i \in 1..N
    BY <1>1, <1>2, RingSlotIs
  <1>4. ASSUME NEW j \in 1..N
        PROVE  /\ r.slots[j].blkno \in Nat /\ RingSlot(r.slots[j].blkno, N) = j
               /\ (b + 1) - N <= r.slots[j].blkno /\ r.slots[j].blkno < b + 1
    <2>1. CASE j = i
      BY <1>1, <1>2, <2>1
    <2>2. CASE j # i
      <3>1. InWindow(p.slots[j], p, b)
        BY <1>1, <1>4, <2>2 DEF SkipRing
      <3>2. PICK x \in Nat : x = p.slots[j].blkno /\ b - N <= x /\ x < b
        BY <1>1, <3>1 DEF InWindow
      <3>3. RingSlot(x, N) = j
        <4>1. p.slots[j].blkno # Invalid
          BY <3>2 DEF Invalid
        <4> QED
          BY <1>1, <1>4, <3>2, <4>1 DEF SkipRing, RingPlace
      <3>4. x # b - N
        <4>1. CASE x = b - N
          <5>1. b = x + N
            BY <1>2, <3>2, <4>1
          <5>2. RingSlot(b, N) = RingSlot(x, N)
            BY <1>2, <5>1, NextRound
          <5> QED
            BY <1>1, <2>2, <3>3, <5>2
        <4> QED
          BY <4>1
      <3>5. r.slots[j].blkno = x
        BY <1>1, <1>4, <2>2, <3>2
      <3>6. (b + 1) - N <= x /\ x < b + 1 /\ x \in Nat
        <4>1. x \in Nat /\ N \in Nat /\ b \in Nat /\ b - N <= x /\ x < b /\ x # b - N
          BY <1>2, <3>2, <3>4
        <4> QED
          BY <4>1
      <3> QED
        BY <3>3, <3>5, <3>6
    <2> QED
      BY <2>1, <2>2
  <1>5. AllRead(r) /\ RingPlace(r)
    BY <1>1, <1>4 DEF AllRead, RingPlace
  <1>6. (b + 1) * B = b * B + B
    BY <1>2
  <1>7. PICK pos \in Nat, Z \in Nat : pos = r.position /\ Z = b * B /\ pos = Z + n
    BY <1>1, <1>2
  <1>8. pos \div B >= b
    <2>1. pos >= b * B /\ b \in Int
      BY <1>2, <1>7
    <2> QED
      BY <1>2, <2>1, DivOf
  <1>9. PICK D \in Int : D = pos \div B
    BY <1>2, DivNat
  <1>10. (b + 1) - N <= D
    BY <1>2, <1>8, <1>9
  <1>11. pos <= (b + 1) * B
    <2>1. PICK W \in Nat : W = (b + 1) * B /\ W = Z + B
      BY <1>2, <1>6, <1>7
    <2> QED
      BY <1>2, <1>7, <2>1
  <1>12. \A j \in 1..N : InWindow(r.slots[j], r, b + 1)
    <2>1. ASSUME NEW j \in 1..N PROVE InWindow(r.slots[j], r, b + 1)
      <3>1. (b + 1) - Len(r.slots) <= r.slots[j].blkno
        BY <1>1, <1>4
      <3> QED
        BY <1>4, <3>1 DEF InWindow
    <2> QED
      BY <2>1
  <1>13. RingAt(r, b + 1)
    <2>1. Len(r.slots) = N /\ r.blksize = B /\ r.position = pos
      BY <1>1, <1>7
    <2> QED
      BY <1>9, <1>10, <1>11, <1>12, <2>1 DEF RingAt
  <1> QED
    BY <1>5, <1>13

\* The block is read from where it is in the file.
LEMMA ReadRight ==
    ASSUME NEW p, Shape(p), NEW f, IsFile(f), AllRight(p, f), NEW b \in Nat,
           p.offset = b * p.blksize, b * p.blksize <= f.length,
           ~p.first,
           NEW i \in 1..Len(p.slots), NEW n, n = Nread(f, p.offset, p.blksize, p.first), n # -1,
           NEW r, ReadAt(r, p, i, n, b), Len(r.slots) = Len(p.slots),
           r.slots[i] = [blkno |-> b, at |-> p.offset, size |-> n],
           \A j \in 1..Len(p.slots) : j # i => r.slots[j] = p.slots[j]
    PROVE  Faithful(r, f) /\ BlockThere(r, f, b)
  <1>0. /\ p.blksize \in Nat /\ p.blksize > 0 /\ p.offset \in Nat
        /\ f.length \in Nat /\ AllocSize \in Nat
    BY BlocksAssumption DEF Shape, IsFile
  <1>1. PICK B \in Nat, at \in Nat, L \in Nat :
          B = p.blksize /\ at = p.offset /\ L = f.length
    BY <1>0
  <1>2. B \in Nat /\ B > 0 /\ at \in Nat /\ L \in Nat /\ at = b * B /\ at <= L
    BY <1>0, <1>1
  <1>3. n = IF at < L THEN AtMost(B, L - at) ELSE 0
    <2>1. p.first \in BOOLEAN
      BY DEF Shape
    <2>2. n = IF p.offset < f.length THEN AtMost(p.blksize, f.length - p.offset) ELSE 0
      BY <1>0, <2>1, NreadRange
    <2> QED
      BY <1>1, <2>2
  <1>4. n = AtMost(B, L - at) /\ n \in Nat
    <2>1. /\ B \in Nat /\ at \in Nat /\ L \in Nat /\ at <= L
          /\ n = IF at < L THEN AtMost(B, L - at) ELSE 0
      BY <1>2, <1>3
    <2>2. L - at \in Nat
      BY <2>1
    <2>3. CASE at < L
      BY <2>1, <2>2, <2>3 DEF AtMost
    <2>4. CASE ~(at < L)
      BY <2>1, <2>2, <2>4 DEF AtMost
    <2> QED
      BY <2>3, <2>4
  <1>5. /\ r.offset = at + n /\ r.position = b * B + n /\ r.blksize = B
        /\ r.cur = [blkno |-> b, at |-> at, size |-> n]
    BY <1>1 DEF ReadAt, Read, Same, Fields
  <1>6. AllRight(r, f)
    <2>1. ASSUME NEW j \in 1..Len(p.slots), r.slots[j].blkno # Invalid
          PROVE  BlockRight(r.slots[j], B, f)
      <3>1. CASE j = i
        <4>1. r.slots[i] = [blkno |-> b, at |-> at, size |-> n]
          BY <1>1
        <4>2. n = AtMost(B, f.length - at) /\ at = b * B
          BY <1>1, <1>2, <1>4
        <4> QED
          BY <3>1, <4>1, <4>2 DEF BlockRight
      <3>2. CASE j # i
        BY <1>1, <2>1, <3>2 DEF AllRight
      <3> QED
        BY <3>1, <3>2
    <2> QED
      <3>1. Len(r.slots) = Len(p.slots) /\ r.blksize = B
        BY <1>5
      <3> QED
        BY <2>1, <3>1 DEF AllRight
  <1>7. PICK pos \in Nat : pos = r.position /\ pos = at + n
    <2>1. at + n \in Nat
      BY <1>2, <1>4
    <2>2. r.position = at + n
      BY <1>2, <1>5
    <2> QED
      BY <2>1, <2>2
  <1>8. pos <= L /\ (n = B \/ pos = L)
    <2>0. /\ B \in Nat /\ at \in Nat /\ L \in Nat /\ at <= L /\ n = AtMost(B, L - at)
          /\ pos = at + n
      BY <1>2, <1>4, <1>7
    <2>1. CASE B < L - at
      <3>1. n = B
        BY <2>0, <2>1 DEF AtMost
      <3> QED
        BY <2>0, <2>1, <3>1
    <2>2. CASE ~(B < L - at)
      <3>1. n = L - at
        BY <2>0, <2>2 DEF AtMost
      <3> QED
        BY <2>0, <3>1
    <2> QED
      BY <2>1, <2>2
  <1>9. CASE n = B
    <2>1. (b + 1) * B = b * B + B /\ b + 1 \in Int
      BY <1>2
    <2>2. pos = (b + 1) * B
      BY <1>2, <1>7, <1>9, <2>1
    <2>3. pos \div B = b + 1
      BY <1>2, <2>1, <2>2, DivOf
    <2>4. pos = (pos \div B) * B
      BY <2>2, <2>3
    <2>5. r.position = (r.position \div r.blksize) * r.blksize
      BY <1>5, <1>7, <2>4
    <2> QED
      BY <1>1, <1>2, <1>4, <1>5, <1>6, <1>7, <1>8, <2>5 DEF Faithful, BlockThere
  <1>10. CASE pos = L
    BY <1>1, <1>2, <1>4, <1>5, <1>6, <1>7, <1>8, <1>10 DEF Faithful, BlockThere
  <1> QED
    BY <1>8, <1>9, <1>10

\* One slot is written, the others are as they were.
SlotIs(filled, slots, i, e) ==
    /\ filled \in Seq(Blocks) /\ Len(filled) = Len(slots) /\ filled[i] = e
    /\ \A j \in 1..Len(slots) : j # i => filled[j] = slots[j]

\* The sequence with one element replaced.
LEMMA SlotGoes ==
    ASSUME NEW slots \in Seq(Blocks), NEW i \in 1..Len(slots), NEW e \in Blocks
    PROVE  SlotIs([slots EXCEPT ![i] = e], slots, i, e)
  BY ExceptSeq DEF SlotIs

\* The block is read.
LEMMA ReadKeeps ==
    ASSUME NEW st, NEW f, IsFile(f), NEW lo \in BOOLEAN, NEW sn, CacheRests(st, f, sn, lo),
           NEW b \in Nat, b * st.blksize <= f.length,
           NEW got, got = GetLru(st, b), got.ret = "ok", got.new,
           NEW p, PosGood(p, got, f, lo, b), p.ret = "ok",
           NEW r, r = ReadInto(p, got.slot, f, b)
    PROVE  GetGood(r, st, f, sn, lo, b)
  <1>1. /\ Shape(st) /\ ~st.first /\ (f.seeks => ~st.seek_failed)
        /\ sn \in Seq(Nat) /\ Once(sn)
        /\ (st.fifo => AllRead(st) /\ RingPlace(st) /\ LabelsSeen(st, sn))
        /\ (~st.fifo /\ f.seeks => RecentRight(st, sn))
    BY DEF CacheRests
  <1>2. /\ Kin(got, st) /\ got.first = st.first /\ got.slot \in 1..Len(st.slots)
    BY <1>1, LruKin
  <1>3. LruKeeps(got, st, b)
    BY <1>1, LruSlots
  <1>4. PICK i \in 1..Len(st.slots) : i = got.slot
    BY <1>2
  <1>5. /\ Shape(p) /\ Len(p.slots) = Len(st.slots) /\ p.fifo = st.fifo /\ p.blksize = st.blksize
        /\ ~p.first /\ i \in 1..Len(p.slots)
        /\ (f.seeks => p.slots = got.slots /\ p.recent = got.recent /\ ~p.seek_failed)
        /\ (~lo => p.offset = b * p.blksize /\ AllRight(p, f))
        /\ (p.fifo /\ ~f.seeks => SkipRing(p, b, RingSlot(b, Len(p.slots))))
    BY <1>1, <1>2, <1>4 DEF PosGood, Kin
  <1>6. PICK n : n = Nread(f, p.offset, p.blksize, p.first)
    OBVIOUS
  <1>7. IF n = -1 THEN r.ret = "read error" ELSE ReadAt(r, p, i, n, b)
    BY <1>4, <1>5, <1>6, ReadIntoIs
  <1>8. CASE n = -1
    BY <1>7, <1>8 DEF GetGood
  <1>9. CASE n # -1
    <2>1. ReadAt(r, p, i, n, b)
      BY <1>7, <1>9
    <2>2. n \in 0..p.blksize
      <3>1. /\ p.offset \in Nat /\ p.blksize \in Nat /\ p.first \in BOOLEAN /\ AllocSize \in Nat
        BY <1>5, BlocksAssumption DEF Shape
      <3> QED
        BY <1>6, <1>9, <3>1, NreadRange
    <2>3. p.slots \in Seq(Blocks) /\ p.offset \in Nat /\ n \in Nat /\ b \in Int /\ p.blksize \in Nat
      BY <1>5, <2>2 DEF Shape
    <2>4. /\ r.slots \in Seq(Blocks) /\ Len(r.slots) = Len(p.slots)
          /\ r.slots[i] = [blkno |-> b, at |-> p.offset, size |-> n]
          /\ \A j \in 1..Len(p.slots) : j # i => r.slots[j] = p.slots[j]
      <3>1. PICK filled : filled = [p.slots EXCEPT ![i] = [blkno |-> b, at |-> p.offset, size |-> n]]
        OBVIOUS
      <3>2. r.slots = filled
        BY <2>1, <3>1 DEF ReadAt, Read
      <3>3. /\ filled \in Seq(Blocks) /\ Len(filled) = Len(p.slots)
            /\ filled[i] = [blkno |-> b, at |-> p.offset, size |-> n]
            /\ \A j \in 1..Len(p.slots) : j # i => filled[j] = p.slots[j]
        <4>1. PICK e : e = [blkno |-> b, at |-> p.offset, size |-> n]
          OBVIOUS
        <4>2. e \in Blocks /\ i \in 1..Len(p.slots) /\ p.slots \in Seq(Blocks)
          BY <1>5, <2>3, <4>1 DEF Blocks
        <4>3. SlotIs([p.slots EXCEPT ![i] = e], p.slots, i, e)
          BY <4>2, SlotGoes
        <4>4. filled = [p.slots EXCEPT ![i] = e]
          BY <3>1, <4>1
        <4>5. SlotIs(filled, p.slots, i, e)
          BY <4>3, <4>4
        <4> QED
          BY <4>1, <4>5 DEF SlotIs
      <3> QED
        BY <3>2, <3>3
    <2>5. /\ r.first = FALSE /\ r.position = b * p.blksize + n /\ r.offset = p.offset + n
          /\ r.recent = p.recent /\ r.fifo = p.fifo /\ r.blksize = p.blksize
          /\ r.seek_failed = p.seek_failed /\ r.ret = "ok" /\ r.slot = p.slot /\ r.new = p.new
          /\ DOMAIN r = Fields
      BY <2>1 DEF ReadAt, Read, Same, Fields
    <2>6. Shape(r)
      <3>1. b * p.blksize + n \in Nat /\ p.offset + n \in Nat
        <4>1. PICK B \in Nat : B = p.blksize
          BY <2>3
        <4>2. PICK c \in Nat : c = b * B
          BY <4>1
        <4>3. c + n \in Nat /\ p.offset + n \in Nat
          BY <2>3, <4>2
        <4> QED
          BY <4>1, <4>2, <4>3
      <3> QED
        BY <1>5, <2>4, <2>5, <3>1 DEF Shape
    <2>7. ~lo => Faithful(r, f) /\ BlockThere(r, f, b)
      <3> SUFFICES ASSUME ~lo PROVE Faithful(r, f) /\ BlockThere(r, f, b)
        OBVIOUS
      <3>1. p.offset = b * p.blksize /\ AllRight(p, f) /\ b * p.blksize <= f.length
        BY <1>5
      <3> QED
        BY <1>5, <1>6, <1>9, <2>1, <2>4, <3>1, ReadRight
    <2>8. PICK moved : moved = Moved(sn, b)
      OBVIOUS
    <2>9. /\ moved \in Seq(Nat) /\ Once(moved)
          /\ \E m \in 1..Len(moved) : moved[m] = b
      BY <1>1, <2>8, SeenOn
    <2>10. CASE st.fifo /\ ~f.seeks
      <3>1. i = RingSlot(b, Len(p.slots))
        BY <1>3, <1>4, <1>5, <2>10 DEF LruKeeps
      <3>2. SkipRing(p, b, i)
        BY <1>5, <2>10, <3>1
      <3>3. r.slots[i].blkno = b
        BY <2>4
      <3>4. AllRead(r) /\ RingPlace(r) /\ RingAt(r, b + 1)
        BY <1>5, <2>2, <2>4, <2>5, <2>6, <3>1, <3>2, <3>3, RingGoesOn
      <3>5. LabelsSeen(r, moved)
        <4>1. PICK m \in 1..Len(moved) : moved[m] = b
          BY <2>9
        <4>2. ASSUME NEW j \in 1..Len(r.slots) PROVE b >= r.slots[j].blkno
          <5>1. r.slots[j].blkno < b + 1 /\ r.slots[j].blkno \in Nat
            BY <3>4 DEF RingAt, InWindow
          <5> QED
            BY <5>1
        <4> QED
          BY <4>1, <4>2 DEF LabelsSeen
      <3>6. b + 1 \in Nat
        OBVIOUS
      <3>7. CacheRests(r, f, moved, lo)
        BY <1>5, <2>5, <2>6, <2>7, <2>9, <2>10, <3>4, <3>5, <3>6 DEF CacheRests
      <3> QED
        BY <1>5, <2>5, <2>7, <2>8, <3>7 DEF GetGood
    <2>11. CASE f.seeks
      <3>1. \A j \in 1..Len(st.slots) : j # i => r.slots[j] = st.slots[j]
        <4>1. \A j \in 1..Len(st.slots) : j # i => got.slots[j] = st.slots[j]
          BY <1>3, <1>4 DEF LruKeeps
        <4> QED
          BY <1>5, <2>4, <2>11, <4>1
      <3>2. r.slots[i].blkno = b /\ Len(r.slots) = Len(st.slots)
        BY <1>5, <2>4
      <3>3. st.fifo => AllRead(r) /\ RingPlace(r) /\ LabelsSeen(r, moved)
        <4> SUFFICES ASSUME st.fifo PROVE AllRead(r) /\ RingPlace(r) /\ LabelsSeen(r, moved)
          OBVIOUS
        <4>1. i = RingSlot(b, Len(st.slots))
          BY <1>3, <1>4 DEF LruKeeps
        <4>2. AllRead(r)
          BY <1>1, <3>1, <3>2 DEF AllRead
        <4>3. RingPlace(r)
          BY <1>1, <3>1, <3>2, <4>1 DEF RingPlace
        <4>4. ASSUME NEW j \in 1..Len(r.slots)
              PROVE  \E m \in 1..Len(moved) : moved[m] >= r.slots[j].blkno
          <5>1. CASE j = i
            <6>1. PICK m \in 1..Len(moved) : moved[m] = b
              BY <2>9
            <6> QED
              BY <3>2, <5>1, <6>1
          <5>2. CASE j # i
            <6>1. PICK x \in Nat : x = st.slots[j].blkno
              BY <1>1, <3>2 DEF AllRead
            <6>2. \E m \in 1..Len(sn) : sn[m] >= x
              BY <1>1, <3>2, <6>1 DEF LabelsSeen
            <6>3. \E m \in 1..Len(Moved(sn, b)) : Moved(sn, b)[m] >= x
              BY <1>1, <6>2, SeenStays
            <6>4. r.slots[j].blkno = x
              BY <3>1, <3>2, <5>2, <6>1
            <6> QED
              BY <2>8, <6>3, <6>4
          <5> QED
            BY <5>1, <5>2
        <4> QED
          BY <4>2, <4>3, <4>4 DEF LabelsSeen
      <3>4. ~st.fifo => RecentRight(r, moved)
        <4> SUFFICES ASSUME ~st.fifo PROVE RecentRight(r, moved)
          OBVIOUS
        <4>1. RecentRight(st, sn)
          BY <1>1, <2>11
        <4>2. ListFreed(got, st, b)
          <5>1. (\E k \in 1..Len(st.slots) : ListFound(got, st, b, k)) \/ ListFreed(got, st, b)
            BY <1>1, ListLru
          <5> QED
            BY <5>1 DEF ListFound
        <4>3. /\ i = st.recent[1] /\ r.recent = Moved(st.recent, st.recent[1])
              /\ \A j \in 1..Len(st.slots) : st.slots[j].blkno # b
          BY <1>4, <1>5, <2>5, <2>11, <4>2 DEF ListFreed
        <4>4. 1 \in 1..Len(st.slots)
          BY <1>1, LenProperties DEF Shape
        <4>5. Retired(r, st, b, 1)
          BY <3>1, <3>2, <4>3 DEF Retired
        <4>6. RecentRight(r, Moved(sn, b))
          BY <1>1, <4>1, <4>4, <4>5, RecentMoved
        <4> QED
          BY <2>8, <4>6
      <3>5. CacheRests(r, f, moved, lo)
        BY <1>5, <2>5, <2>6, <2>7, <2>9, <2>11, <3>3, <3>4 DEF CacheRests
      <3> QED
        BY <1>5, <2>5, <2>7, <2>8, <3>5 DEF GetGood
    <2>12. CASE ~st.fifo /\ ~f.seeks
      <3>1. CacheRests(r, f, moved, lo)
        BY <1>5, <2>5, <2>6, <2>7, <2>9, <2>12 DEF CacheRests
      <3> QED
        BY <1>5, <2>5, <2>7, <2>8, <3>1 DEF GetGood
    <2> QED
      BY <2>10, <2>11, <2>12
  <1> QED
    BY <1>8, <1>9

\* What the cache owes the library for one block, and what it keeps by (main_getblk_func).
LEMMA GetBlockKeeps ==
    ASSUME NEW st, NEW f, IsFile(f), NEW lo \in BOOLEAN, NEW sn, CacheRests(st, f, sn, lo),
           NEW b \in Nat, b * st.blksize <= f.length
    PROVE  GetGood(GetBlock(st, f, b), st, f, sn, lo, b)
  <1>1. PICK got, r : got = GetLru(st, b) /\ r = GetBlock(st, f, b)
    OBVIOUS
  <1>2. Shape(st)
    BY DEF CacheRests
  <1>3. Kin(got, st) /\ got.ret \in {"ok", "TOOFARBACK"}
    BY <1>1, <1>2, LruKin
  <1>4. r = IF got.ret # "ok" THEN got
            ELSE IF ~got.new THEN [got EXCEPT !.cur = got.slots[got.slot]]
            ELSE ReadInto(Positioned(got, f, b * got.blksize), got.slot, f, b)
    BY <1>1 DEF GetBlock, Fetched
  <1>5. CASE got.ret # "ok"
    <2>1. r = got /\ got.ret = "TOOFARBACK"
      BY <1>3, <1>4, <1>5
    <2>2. GetGood(got, st, f, sn, lo, b)
      BY <1>1, <2>1, BackKeeps
    <2> QED
      BY <1>1, <2>1, <2>2
  <1>6. CASE got.ret = "ok" /\ ~got.new
    <2>1. r = [got EXCEPT !.cur = got.slots[got.slot]]
      BY <1>4, <1>6
    <2>2. GetGood(r, st, f, sn, lo, b)
      BY <1>1, <1>6, <2>1, HitKeeps
    <2> QED
      BY <1>1, <2>2
  <1>7. CASE got.ret = "ok" /\ got.new
    <2>1. PICK p : p = Positioned(got, f, b * got.blksize)
      OBVIOUS
    <2>2. PosGood(p, got, f, lo, b)
      <3>1. PosGood(Positioned(got, f, b * got.blksize), got, f, lo, b)
        BY <1>1, <1>7, PositionedGood
      <3> QED
        BY <2>1, <3>1
    <2>3. r = ReadInto(p, got.slot, f, b)
      BY <1>4, <1>7, <2>1
    <2>4. CASE p.ret = "ok"
      <3>1. GetGood(r, st, f, sn, lo, b)
        BY <1>1, <1>7, <2>2, <2>3, <2>4, ReadKeeps
      <3> QED
        BY <1>1, <3>1
    <2>5. CASE p.ret # "ok"
      <3>1. r = p
        BY <2>3, <2>5 DEF ReadInto
      <3>2. /\ r.ret \in {"ok", "TOOFARBACK", "read error", "INVALID_INPUT"} /\ r.ret # "ok"
            /\ r.ret = "TOOFARBACK" => r.fifo = got.fifo /\ ~got.fifo
        BY <2>2, <2>5, <3>1 DEF PosGood
      <3>3. got.fifo = st.fifo /\ (r.ret = "TOOFARBACK" => r.fifo = got.fifo)
        BY <1>2, <1>3, <2>2, <2>5, <3>1 DEF Kin, PosGood
      <3>4. GetGood(r, st, f, sn, lo, b)
        BY <3>2, <3>3 DEF GetGood
      <3> QED
        BY <1>1, <3>4
    <2> QED
      BY <2>4, <2>5
  <1> QED
    BY <1>3, <1>5, <1>6, <1>7

-----------------------------------------------------------------------------
(* The source is set.                                                        *)

\* One block has been read, n bytes from the start of the file.
OneRead(s, fifo, n) ==
    /\ Shape(s) /\ ~s.first /\ ~s.seek_failed /\ s.fifo = fifo /\ s.blksize = SrcWinSize
    /\ Len(s.slots) = 1 /\ s.slots[1] = [blkno |-> 0, at |-> 0, size |-> n]
    /\ s.cur = [blkno |-> 0, at |-> 0, size |-> n]
    /\ s.offset = n /\ s.position = n /\ s.ret = "ok" /\ Len(s.recent) = 1

\* The cache that main_set_source begins with.
LEMMA OneBlockIs ==
    ASSUME NEW fifo \in BOOLEAN, NEW o, o = OneBlock(fifo)
    PROVE  /\ Shape(o) /\ o.fifo = fifo /\ Len(o.slots) = 1 /\ o.slots[1].blkno = -1
           /\ o.blksize = SrcWinSize /\ ~o.seek_failed /\ o.first = TRUE
           /\ o.position = 0 /\ o.offset = 0
  <1>1. NoBlock \in Blocks /\ NoBlock.blkno = -1
    BY DEF NoBlock, Blocks, Invalid
  <1>2. PICK bs : bs = <<NoBlock>>
    OBVIOUS
  <1>3. bs \in Seq(Blocks) /\ Len(bs) = 1 /\ bs[1] = NoBlock
    BY <1>1, <1>2
  <1>4. PICK rs : rs = <<1>>
    OBVIOUS
  <1>5. rs \in Seq(1..1) /\ Len(rs) = 1 /\ Once(rs)
    BY <1>4 DEF Once
  <1>6. /\ o.slots = bs /\ o.recent = rs /\ o.fifo = fifo /\ o.blksize = SrcWinSize
        /\ o.seek_failed = FALSE /\ o.first = TRUE /\ o.position = 0 /\ o.offset = 0
        /\ o.slot = 1 /\ o.new = FALSE /\ DOMAIN o = Fields
    BY <1>2, <1>4 DEF OneBlock, Fields
  <1>7. SrcWinSize \in Nat /\ SrcWinSize > 0
    BY BlocksAssumption
  <1>8. o.slots \in Seq(Blocks) /\ Len(o.slots) = 1 /\ o.slots[1].blkno = -1
    BY <1>1, <1>3, <1>6
  <1>9. o.recent \in Seq(1..Len(o.slots)) /\ Len(o.recent) = 1 /\ Once(o.recent)
    BY <1>5, <1>6, <1>8
  <1>10. 1 \in 1..Len(o.slots)
    BY <1>8
  <1>11. /\ o.first \in BOOLEAN /\ o.new \in BOOLEAN /\ o.seek_failed \in BOOLEAN
         /\ o.fifo \in BOOLEAN
    BY <1>6, Zenon
  <1>12. Shape(o)
    BY <1>6, <1>7, <1>8, <1>9, <1>10, <1>11 DEF Shape
  <1> QED
    BY <1>6, <1>8, <1>12

\* Its one slot is free for the first block.
LEMMA FirstGot ==
    ASSUME NEW fifo \in BOOLEAN, NEW o, o = OneBlock(fifo), NEW got, got = GetLru(o, 0)
    PROVE  /\ Kin(got, o) /\ got.ret = "ok" /\ got.new /\ got.slot = 1 /\ got.first = TRUE
           /\ got.position = 0 /\ got.offset = 0
  <1>1. /\ Shape(o) /\ o.fifo = fifo /\ Len(o.slots) = 1 /\ o.slots[1].blkno = -1
        /\ o.position = 0 /\ o.offset = 0 /\ o.first = TRUE
    BY OneBlockIs
  <1>2. /\ Kin(got, o) /\ got.slot \in 1..Len(o.slots) /\ got.first = o.first
        /\ got.position = o.position /\ got.offset = o.offset
    <2>1. 0 \in Nat
      OBVIOUS
    <2> QED
      BY <1>1, <2>1, LruKin
  <1>3. CASE o.fifo
    <2>1. PICK i : i = RingSlot(0, Len(o.slots))
      OBVIOUS
    <2>2. RingOutcome(got, o, 0, i)
      <3>1. 0 \in Nat
        OBVIOUS
      <3> QED
        BY <1>1, <1>3, <2>1, <3>1, RingLru
    <2>3. i = 1
      <3>1. RingSlot(0, 1) \in 1..1
        BY RingSlotIs
      <3> QED
        BY <1>1, <2>1, <3>1
    <2>4. got.ret = "ok" /\ got.new = TRUE
      BY <1>1, <2>2, <2>3 DEF RingOutcome, Invalid
    <2> QED
      BY <1>1, <1>2, <2>4
  <1>4. CASE ~o.fifo
    <2>1. got.ret = "ok" /\ ((\E i \in 1..Len(o.slots) : ListFound(got, o, 0, i)) \/ ListFreed(got, o, 0))
      <3>1. 0 \in Nat
        OBVIOUS
      <3> QED
        BY <1>1, <1>4, <3>1, ListLru
    <2>2. got.new = TRUE
      <3>1. \A i \in 1..Len(o.slots) : o.slots[i].blkno # 0
        BY <1>1
      <3> QED
        BY <2>1, <3>1 DEF ListFound, ListFreed
    <2> QED
      BY <1>1, <1>2, <2>1, <2>2
  <1> QED
    BY <1>3, <1>4

\* The first block is read from the start of the file, or the error is told.
LEMMA FirstRead ==
    ASSUME NEW fifo \in BOOLEAN, NEW f, IsFile(f),
           NEW one, one = GetBlock(OneBlock(fifo), f, 0)
    PROVE  \/ one.ret = "read error"
           \/ \E n \in Nat : n <= SrcWinSize /\ n <= f.length /\ OneRead(one, fifo, n)
  <1>1. PICK o, got : o = OneBlock(fifo) /\ got = GetLru(o, 0)
    OBVIOUS
  <1>2. /\ Kin(got, o) /\ got.ret = "ok" /\ got.new /\ got.slot = 1 /\ got.first = TRUE
        /\ got.position = 0 /\ got.offset = 0
    BY <1>1, FirstGot
  <1>3. /\ Shape(o) /\ o.fifo = fifo /\ Len(o.slots) = 1
        /\ o.blksize = SrcWinSize /\ ~o.seek_failed
    BY <1>1, OneBlockIs
  <1>4. SrcWinSize \in Nat /\ SrcWinSize > 0 /\ AllocSize \in Nat
    BY BlocksAssumption
  <1>5. /\ Shape(got) /\ Len(got.slots) = 1 /\ got.fifo = fifo /\ got.blksize = SrcWinSize
        /\ ~got.seek_failed
    BY <1>2, <1>3 DEF Kin
  <1>6. one = ReadInto(Positioned(got, f, 0 * got.blksize), got.slot, f, 0)
    BY <1>1, <1>2 DEF GetBlock, Fetched
  <1>7. one = ReadInto(got, 1, f, 0)
    <2>1. 0 * got.blksize = got.position
      BY <1>2, <1>4, <1>5
    <2> QED
      BY <1>2, <1>6, <2>1 DEF Positioned
  <1>8. PICK n : n = Nread(f, got.offset, got.blksize, got.first)
    OBVIOUS
  <1>9. IF n = -1 THEN one.ret = "read error" ELSE ReadAt(one, got, 1, n, 0)
    <2>1. PICK i \in 1..Len(got.slots), b \in Nat : i = 1 /\ b = 0
      BY <1>5
    <2>2. one = ReadInto(got, i, f, b)
      BY <1>7, <2>1
    <2>3. IF n = -1 THEN one.ret = "read error" ELSE ReadAt(one, got, i, n, b)
      BY <1>2, <1>5, <1>8, <2>1, <2>2, ReadIntoIs
    <2> QED
      BY <2>1, <2>3
  <1>10. CASE n # -1
    <2>1. ReadAt(one, got, 1, n, 0)
      BY <1>9, <1>10
    <2>2. n \in Nat /\ n <= SrcWinSize /\ n <= f.length
      <3>1. got.offset \in Nat /\ got.blksize \in Nat /\ got.first \in BOOLEAN
        BY <1>5 DEF Shape
      <3>2. n \in 0..got.blksize /\ (got.offset <= f.length => got.offset + n <= f.length)
        BY <1>4, <1>8, <1>10, <3>1, NreadRange
      <3>3. f.length \in Nat
        BY DEF IsFile
      <3> QED
        BY <1>2, <1>4, <1>5, <3>2, <3>3
    <2>3. PICK e : e = [blkno |-> 0, at |-> 0, size |-> n]
      OBVIOUS
    <2>4. e \in Blocks
      BY <2>2, <2>3 DEF Blocks
    <2>5. SlotIs([got.slots EXCEPT ![1] = e], got.slots, 1, e)
      <3>1. got.slots \in Seq(Blocks) /\ 1 \in 1..Len(got.slots)
        BY <1>5 DEF Shape
      <3> QED
        BY <2>4, <3>1, SlotGoes
    <2>6. one.slots = [got.slots EXCEPT ![1] = e] /\ one.offset = 0 + n /\ one.cur = e
      BY <1>2, <2>1, <2>3 DEF ReadAt, Read
    <2>7. /\ one.first = FALSE /\ one.position = 0 * got.blksize + n
          /\ one.recent = got.recent /\ one.fifo = got.fifo /\ one.blksize = got.blksize
          /\ one.seek_failed = got.seek_failed /\ one.ret = "ok" /\ one.slot = 1
          /\ one.new = got.new /\ DOMAIN one = Fields
      BY <1>2, <2>1 DEF ReadAt, Same, Fields
    <2>8. one.position = n /\ one.offset = n
      BY <1>4, <1>5, <2>2, <2>6, <2>7
    <2>9. /\ one.slots \in Seq(Blocks) /\ Len(one.slots) = 1 /\ one.slots[1] = e
      BY <1>5, <2>5, <2>6 DEF SlotIs
    <2>10. /\ got.recent \in Seq(1..1) /\ Once(got.recent) /\ Len(got.recent) = 1
      <3>1. got.recent \in Seq(1..1) /\ Once(got.recent) /\ Len(got.recent) >= 1
        BY <1>5 DEF Shape
      <3>2. PICK k \in Nat : k = Len(got.recent) /\ k >= 1
        BY <3>1, LenProperties
      <3>0. k \in Nat /\ k >= 1
        BY <3>2
      <3>3. k <= 1
        <4> SUFFICES ASSUME k > 1 PROVE 1 = 2
          BY <3>2
        <4>1. 1 \in 1..k /\ 2 \in 1..k
          BY <3>2
        <4>2. 1 \in 1..Len(got.recent) /\ 2 \in 1..Len(got.recent)
          BY <3>2, <4>1
        <4>3. got.recent[1] \in 1..1 /\ got.recent[2] \in 1..1
          BY <3>1, <4>2, ElementOfSeq
        <4>4. got.recent[1] = got.recent[2]
          BY <4>3
        <4> QED
          BY <3>1, <4>2, <4>4 DEF Once
      <3>4. k = 1
        BY <3>0, <3>3
      <3>5. Len(got.recent) = 1
        BY <3>2, <3>4
      <3> QED
        BY <3>1, <3>5
    <2>11. Shape(one)
      <3>1. one.recent \in Seq(1..Len(one.slots)) /\ Len(one.recent) = 1 /\ Once(one.recent)
        BY <2>7, <2>9, <2>10
      <3>2. 1 \in 1..Len(one.slots)
        BY <2>9
      <3>3. got.fifo \in BOOLEAN /\ got.seek_failed \in BOOLEAN /\ got.new \in BOOLEAN
        BY <1>5 DEF Shape
      <3> QED
        BY <1>4, <1>5, <2>2, <2>7, <2>8, <2>9, <3>1, <3>2, <3>3 DEF Shape
    <2>12. OneRead(one, fifo, n)
      BY <1>5, <2>3, <2>6, <2>7, <2>8, <2>9, <2>10, <2>11 DEF OneRead
    <2> QED
      BY <2>2, <2>12
  <1> QED
    BY <1>9, <1>10

\* The labels of the slots.
Labels(s) == [i \in DOMAIN s.slots |-> s.slots[i].blkno]

\* What main_set_source leaves, when the file is right (~lo: no error was dropped).
SetGood(r, f, fifo, lo) ==
    /\ CacheRests(r, f, Labels(r), lo) /\ (fifo => r.fifo)
    /\ ~lo => BlockThere(r, f, 0)

\* The one block is as large as the file or larger.
Uncut(r, one, fifo) ==
    /\ r.slots = one.slots /\ r.recent = one.recent /\ r.fifo = fifo
    /\ r.blksize = one.blksize /\ r.position = one.position /\ r.offset = one.offset
    /\ r.seek_failed = one.seek_failed /\ r.first = one.first /\ r.cur = one.cur
    /\ r.slot = one.slot /\ r.new = one.new /\ DOMAIN r = Fields

\* One block serves for a file that is no longer than it.
LEMMA UncutGood ==
    ASSUME NEW f, IsFile(f), NEW lo \in BOOLEAN, NEW fifo \in BOOLEAN,
           NEW n \in Nat, n <= SrcWinSize, n <= f.length,
           NEW one, OneRead(one, fifo, n), NEW r, Uncut(r, one, fifo),
           ~lo => n = AtMost(f.length, SrcWinSize)
    PROVE  SetGood(r, f, fifo, lo)
  <1>1. SrcWinSize \in Nat /\ SrcWinSize > 0 /\ f.length \in Nat
    BY BlocksAssumption DEF IsFile
  <1>2. Shape(r)
    BY DEF OneRead, Uncut, Shape
  <1>3. /\ r.slots \in Seq(Blocks) /\ Len(r.slots) = 1 /\ DOMAIN r.slots = 1..1
        /\ r.slots[1].blkno = 0 /\ r.slots[1].at = 0 /\ r.slots[1].size = n
        /\ r.blksize = SrcWinSize /\ r.position = n /\ r.offset = n /\ r.fifo = fifo
        /\ ~r.first /\ ~r.seek_failed /\ Len(r.recent) = 1 /\ r.recent \in Seq(1..1)
        /\ r.cur.blkno = 0 /\ r.cur.at = 0 /\ r.cur.size = n
    <2>1. r.slots \in Seq(Blocks) /\ Len(r.slots) = 1
      BY DEF OneRead, Uncut, Shape
    <2>2. DOMAIN r.slots = 1..1
      BY <2>1, LenProperties
    <2>3. r.recent \in Seq(1..1)
      BY <1>2, <2>1 DEF Shape
    <2> QED
      BY <2>1, <2>2, <2>3 DEF OneRead, Uncut
  <1>4. PICK sn : sn = Labels(r)
    OBVIOUS
  <1>5. sn \in Seq(Nat) /\ Len(sn) = 1 /\ sn[1] = 0
    <2>1. sn = [i \in 1..1 |-> r.slots[i].blkno]
      BY <1>3, <1>4 DEF Labels
    <2>2. \A i \in 1..1 : r.slots[i].blkno \in Nat
      BY <1>3
    <2>3. 1 \in Nat
      OBVIOUS
    <2> QED
      BY <1>3, <2>1, <2>2, <2>3, LenProperties
  <1>6. Once(sn)
    BY <1>5 DEF Once
  <1>7. ~lo => Faithful(r, f) /\ BlockThere(r, f, 0)
    <2> SUFFICES ASSUME ~lo PROVE Faithful(r, f) /\ BlockThere(r, f, 0)
      OBVIOUS
    <2>1. n = AtMost(f.length, SrcWinSize)
      OBVIOUS
    <2>2. 0 * SrcWinSize = 0 /\ f.length - 0 = f.length
      BY <1>1
    <2>3. n = AtMost(SrcWinSize, f.length)
      BY <1>1, <2>1 DEF AtMost
    <2>4. AllRight(r, f)
      BY <1>3, <2>2, <2>3 DEF AllRight, BlockRight
    <2>5. BlockThere(r, f, 0)
      BY <1>3, <2>2, <2>3 DEF BlockThere
    <2>6. n = (n \div SrcWinSize) * SrcWinSize \/ n = f.length
      <3>1. CASE n = SrcWinSize
        <4>1. n = 1 * SrcWinSize
          BY <1>1, <3>1
        <4>2. n \div SrcWinSize = 1
          BY <1>1, <4>1, DivOf
        <4> QED
          BY <4>1, <4>2
      <3>2. CASE n # SrcWinSize
        BY <2>1, <3>2 DEF AtMost
      <3> QED
        BY <3>1, <3>2
    <2> QED
      BY <1>3, <2>4, <2>5, <2>6 DEF Faithful
  <1>8. AllRead(r)
    BY <1>3 DEF AllRead
  <1>9. RingPlace(r)
    <2>1. RingSlot(0, 1) = 1
      BY DEF RingSlot
    <2> QED
      BY <1>3, <2>1 DEF RingPlace
  <1>10. LabelsSeen(r, sn)
    BY <1>3, <1>5 DEF LabelsSeen
  <1>11. RingAt(r, 1)
    <2>1. n \div SrcWinSize \in Nat /\ 1 * SrcWinSize = SrcWinSize
      BY <1>1, DivNat
    <2>2. \A i \in 1..Len(r.slots) : InWindow(r.slots[i], r, 1)
      BY <1>3 DEF InWindow
    <2>3. 1 - Len(r.slots) = 0
      BY <1>3
    <2> QED
      BY <1>3, <2>1, <2>2, <2>3 DEF RingAt
  <1>12. RecentRight(r, sn)
    <2>1. r.recent[1] = 1
      <3>1. r.recent[1] \in 1..1
        BY <1>3, ElementOfSeq
      <3> QED
        BY <3>1
    <2>2. \A i \in 1..1 : \E j \in 1..1 : r.recent[j] = i
      BY <2>1
    <2>3. \A j \in 1..1 : r.slots[r.recent[j]].blkno = sn[1 - 1 + j]
      BY <1>3, <1>5, <2>1
    <2> QED
      BY <1>3, <1>5, <2>2, <2>3 DEF RecentRight
  <1>13. CacheRests(r, f, sn, lo)
    <2>1. 1 \in Nat
      OBVIOUS
    <2> QED
      BY <1>2, <1>3, <1>5, <1>6, <1>7, <1>8, <1>9, <1>10, <1>11, <1>12, <2>1 DEF CacheRests
  <1> QED
    BY <1>3, <1>4, <1>7, <1>13 DEF SetGood

\* The memory is cut into MaxLru blocks of B bytes.
Cut(r, one, B) ==
    /\ r.slots = [i \in 1..MaxLru |-> [blkno |-> i - 1, at |-> (i - 1) * B, size |-> B]]
    /\ r.recent = [i \in 1..MaxLru |-> i]
    /\ r.blksize = B /\ r.position = one.position /\ r.offset = one.offset
    /\ r.seek_failed = one.seek_failed /\ r.first = one.first
    /\ r.cur.blkno = one.cur.blkno /\ r.cur.at = one.cur.at /\ r.cur.size = B
    /\ r.slot = one.slot /\ r.new = one.new /\ DOMAIN r = Fields /\ r.fifo \in BOOLEAN

\* The blocks are those of the front of the file, in order.
InOrder(r, B) ==
    \A i \in 1..MaxLru :
        /\ r.slots[i].blkno = i - 1 /\ r.slots[i].at = (i - 1) * B /\ r.slots[i].size = B
        /\ r.recent[i] = i

\* The blocks the memory is cut into make a cache.
LEMMA CutShape ==
    ASSUME NEW fifo \in BOOLEAN, NEW n \in Nat, NEW one, OneRead(one, fifo, n),
           NEW B \in Nat, B > 0, NEW r, Cut(r, one, B)
    PROVE  Shape(r) /\ Len(r.slots) = MaxLru /\ Len(r.recent) = MaxLru /\ InOrder(r, B)
  <1>1. MaxLru \in Nat /\ MaxLru >= 1
    BY BlocksAssumption
  <1>2. \A i \in 1..MaxLru : [blkno |-> i - 1, at |-> (i - 1) * B, size |-> B] \in Blocks
    <2>1. ASSUME NEW i \in 1..MaxLru
          PROVE  [blkno |-> i - 1, at |-> (i - 1) * B, size |-> B] \in Blocks
      <3>1. i - 1 \in Nat
        OBVIOUS
      <3>2. PICK d \in Nat : d = i - 1
        BY <3>1
      <3>3. d * B \in Nat
        OBVIOUS
      <3> QED
        BY <3>2, <3>3 DEF Blocks
    <2> QED
      BY <2>1
  <1>3. /\ r.slots \in Seq(Blocks) /\ Len(r.slots) = MaxLru
        /\ \A i \in 1..MaxLru : r.slots[i] = [blkno |-> i - 1, at |-> (i - 1) * B, size |-> B]
    BY <1>1, <1>2, LenProperties DEF Cut
  <1>4. /\ r.recent \in Seq(1..MaxLru) /\ Len(r.recent) = MaxLru
        /\ \A i \in 1..MaxLru : r.recent[i] = i
    BY <1>1, LenProperties DEF Cut
  <1>5. Once(r.recent)
    BY <1>4 DEF Once
  <1>6. r.recent \in Seq(1..Len(r.slots))
    BY <1>3, <1>4
  <1>7. one.slot = 1
    <2>1. one.slot \in 1..Len(one.slots) /\ Len(one.slots) = 1
      BY DEF OneRead, Shape
    <2> QED
      BY <2>1
  <1>8. r.slot \in 1..Len(r.slots)
    BY <1>1, <1>3, <1>7 DEF Cut
  <1>9. Shape(r)
    BY <1>1, <1>3, <1>4, <1>5, <1>6, <1>8 DEF Shape, OneRead, Cut
  <1>10. InOrder(r, B)
    <2>1. ASSUME NEW i \in 1..MaxLru
          PROVE  /\ r.slots[i].blkno = i - 1 /\ r.slots[i].at = (i - 1) * B
                 /\ r.slots[i].size = B /\ r.recent[i] = i
      <3>1. PICK a, d : a = (i - 1) * B /\ d = i - 1
        OBVIOUS
      <3>2. r.slots[i] = [blkno |-> d, at |-> a, size |-> B] /\ r.recent[i] = i
        BY <1>3, <1>4, <3>1
      <3> QED
        BY <3>1, <3>2
    <2> QED
      BY <2>1 DEF InOrder
  <1> QED
    BY <1>3, <1>4, <1>9, <1>10

\* The first read, cut into blocks, is the front of the file, in order and in the ring's places.
LEMMA CutGood ==
    ASSUME NEW f, IsFile(f), NEW lo \in BOOLEAN, NEW fifo \in BOOLEAN,
           NEW n \in Nat, n <= SrcWinSize, n <= f.length,
           NEW one, OneRead(one, fifo, n),
           NEW B \in Nat, B > 0, MaxLru * B = SrcWinSize, NEW r, Cut(r, one, B),
           ~lo => n = SrcWinSize, fifo => r.fifo
    PROVE  SetGood(r, f, fifo, lo)
  <1>1. /\ SrcWinSize \in Nat /\ SrcWinSize > 0 /\ f.length \in Nat
        /\ MaxLru \in Nat /\ MaxLru >= 1
    BY BlocksAssumption DEF IsFile
  <1>0. Shape(r) /\ Len(r.slots) = MaxLru /\ Len(r.recent) = MaxLru /\ InOrder(r, B)
    BY CutShape
  <1>2. /\ Shape(r) /\ Len(r.slots) = MaxLru /\ Len(r.recent) = MaxLru
        /\ \A i \in 1..MaxLru : r.slots[i].blkno = i - 1 /\ r.recent[i] = i
    BY <1>0 DEF InOrder
  <1>3. /\ DOMAIN r.slots = 1..MaxLru /\ r.blksize = B /\ r.position = n /\ r.offset = n
        /\ ~r.first /\ ~r.seek_failed /\ r.cur.blkno = 0 /\ r.cur.at = 0 /\ r.cur.size = B
    <2>1. DOMAIN r.slots = 1..MaxLru
      BY <1>2, LenProperties DEF Shape
    <2> QED
      BY <2>1 DEF OneRead, Cut
  <1>4. PICK sn : sn = Labels(r)
    OBVIOUS
  <1>5. sn \in Seq(Nat) /\ Len(sn) = MaxLru /\ \A i \in 1..MaxLru : sn[i] = i - 1
    <2>1. sn = [i \in 1..MaxLru |-> r.slots[i].blkno]
      BY <1>3, <1>4 DEF Labels
    <2>2. \A i \in 1..MaxLru : r.slots[i].blkno = i - 1
      BY <1>2
    <2>3. \A i \in 1..MaxLru : i - 1 \in Nat
      BY <1>1
    <2> QED
      BY <1>1, <2>1, <2>2, <2>3, LenProperties
  <1>6. Once(sn)
    BY <1>5 DEF Once
  <1>7. ASSUME NEW i \in 1..MaxLru
        PROVE  /\ (i - 1) * B \in Nat /\ (i - 1) * B + B <= SrcWinSize
    <2>1. PICK d \in Nat : d = i - 1 /\ d < MaxLru
      <3>1. i - 1 \in Nat /\ i - 1 < MaxLru
        BY <1>1
      <3> QED
        BY <3>1
    <2>2. d * B + B <= MaxLru * B
      BY <1>1, <2>1, TimesMore
    <2>3. d * B \in Nat
      OBVIOUS
    <2> QED
      BY <2>1, <2>2, <2>3
  <1>8. ~lo => Faithful(r, f) /\ BlockThere(r, f, 0)
    <2> SUFFICES ASSUME ~lo PROVE Faithful(r, f) /\ BlockThere(r, f, 0)
      OBVIOUS
    <2>1. n = SrcWinSize /\ SrcWinSize <= f.length
      OBVIOUS
    <2>2. AllRight(r, f)
      <3>1. ASSUME NEW i \in 1..MaxLru PROVE BlockRight(r.slots[i], B, f)
        <4>1. PICK a \in Nat : a = (i - 1) * B
          BY <1>7
        <4>2. a + B <= SrcWinSize
          BY <1>7, <4>1
        <4>3. B = AtMost(B, f.length - a)
          BY <1>1, <2>1, <4>2 DEF AtMost
        <4>4. r.slots[i].blkno = i - 1 /\ r.slots[i].at = a /\ r.slots[i].size = B
          BY <1>0, <4>1 DEF InOrder
        <4> QED
          BY <4>1, <4>3, <4>4 DEF BlockRight
      <3> QED
        BY <1>2, <1>3, <3>1 DEF AllRight
    <2>3. BlockThere(r, f, 0)
      <3>1. 1 \in 1..MaxLru
        BY <1>1
      <3>2. (1 - 1) * B + B <= SrcWinSize
        BY <1>7, <3>1
      <3>3. B <= SrcWinSize /\ 0 * B = 0
        BY <3>2
      <3>4. B = AtMost(B, f.length - 0)
        BY <1>1, <2>1, <3>3 DEF AtMost
      <3> QED
        BY <1>3, <3>3, <3>4 DEF BlockThere
    <2>4. n = (n \div B) * B
      <3>1. n = MaxLru * B
        BY <2>1
      <3>2. n \div B = MaxLru
        BY <1>1, <3>1, DivOf
      <3> QED
        BY <3>1, <3>2
    <2>5. r.offset = r.position /\ r.position <= f.length
      BY <1>3
    <2>6. r.position = (r.position \div r.blksize) * r.blksize
      BY <1>3, <2>4
    <2> QED
      BY <2>2, <2>3, <2>5, <2>6 DEF Faithful
  <1>9. \A i \in 1..Len(r.slots) : r.slots[i].blkno = i - 1 /\ i - 1 \in Nat
    BY <1>1, <1>2
  <1>10. AllRead(r)
    BY <1>9 DEF AllRead
  <1>11. RingPlace(r)
    <2>1. ASSUME NEW i \in 1..MaxLru PROVE RingSlot(i - 1, MaxLru) = i
      <3>1. PICK d \in Nat : d = i - 1 /\ d < MaxLru
        <4>1. i - 1 \in Nat /\ i - 1 < MaxLru
          BY <1>1
        <4> QED
          BY <4>1
      <3>2. d % MaxLru = d
        BY <1>1, <3>1
      <3> QED
        BY <3>1, <3>2 DEF RingSlot
    <2> QED
      BY <1>2, <1>9, <2>1 DEF RingPlace
  <1>12. LabelsSeen(r, sn)
    <2>1. \A i \in 1..Len(r.slots) : i \in 1..Len(sn) /\ sn[i] >= r.slots[i].blkno
      BY <1>1, <1>2, <1>5, <1>9
    <2> QED
      BY <2>1 DEF LabelsSeen
  <1>13. RingAt(r, MaxLru)
    <2>1. \A i \in 1..Len(r.slots) : InWindow(r.slots[i], r, MaxLru)
      BY <1>1, <1>2, <1>9 DEF InWindow
    <2>2. n \div B \in Nat
      BY DivNat
    <2>3. MaxLru - Len(r.slots) <= n \div B
      BY <1>1, <1>2, <2>2
    <2> QED
      BY <1>3, <2>1, <2>3 DEF RingAt
  <1>14. RecentRight(r, sn)
    <2>1. ASSUME NEW i \in 1..MaxLru PROVE \E j \in 1..MaxLru : r.recent[j] = i
      BY <1>2
    <2>2. ASSUME NEW j \in 1..MaxLru
          PROVE  r.slots[r.recent[j]].blkno = sn[MaxLru - MaxLru + j]
      <3>1. MaxLru - MaxLru + j = j
        BY <1>1
      <3>2. r.recent[j] = j /\ r.slots[j].blkno = j - 1 /\ sn[j] = j - 1
        BY <1>2, <1>5
      <3> QED
        BY <3>1, <3>2
    <2> QED
      BY <1>1, <1>2, <1>5, <2>1, <2>2 DEF RecentRight
  <1>15. CacheRests(r, f, sn, lo)
    BY <1>1, <1>2, <1>3, <1>5, <1>6, <1>8, <1>10, <1>11, <1>12, <1>13, <1>14 DEF CacheRests
  <1> QED
    BY <1>4, <1>8, <1>15 DEF SetGood

\* What main_set_source leaves in the cache.
LEMMA SetSourceGood ==
    ASSUME NEW f, IsFile(f), NEW fifo \in BOOLEAN, NEW lo \in BOOLEAN,
           NEW r, r = SetSource(f, fifo),
           ~lo => ~(r.ret = "ok" /\ r.offset < AtMost(f.length, SrcWinSize))
    PROVE  r.ret = "read error" \/ (r.ret = "ok" /\ SetGood(r, f, fifo, lo))
  <1>1. PICK one : one = GetBlock(OneBlock(fifo), f, 0)
    OBVIOUS
  <1>2. r = Sized(one, f, fifo)
    BY <1>1 DEF SetSource
  <1>3. /\ SrcWinSize \in Nat /\ SrcWinSize > 0 /\ f.length \in Nat /\ f.regular \in BOOLEAN
        /\ MaxLru \in Nat /\ MaxLru >= 1 /\ SrcWinSize % MaxLru = 0
    BY BlocksAssumption DEF IsFile
  <1>4. CASE one.ret = "read error"
    <2>1. r = one
      BY <1>2, <1>4 DEF Sized
    <2> QED
      BY <1>4, <2>1
  <1>5. CASE one.ret # "read error"
    <2>1. PICK n \in Nat : n <= SrcWinSize /\ n <= f.length /\ OneRead(one, fifo, n)
      BY <1>1, <1>5, FirstRead
    <2>2. one.cur.size = n /\ one.ret = "ok" /\ one.offset = n /\ DOMAIN one = Fields
      BY <2>1 DEF OneRead, Shape
    <2>3. PICK short, known, size, st :
             /\ short = (n < SrcWinSize) /\ known = (f.regular \/ short)
             /\ size = IF f.regular THEN f.length ELSE IF short THEN n ELSE 0
             /\ st = [one EXCEPT !.known = known, !.size = size, !.fifo = fifo \/ ~known]
      OBVIOUS
    <2>4. r = IF ~known \/ size > SrcWinSize THEN CutUp(st, SrcWinSize \div MaxLru) ELSE st
      BY <1>2, <2>2, <2>3 DEF Sized
    <2>5. /\ Same(st, one, {"known", "size", "fifo"})
          /\ st.fifo = (fifo \/ ~known)
      BY <2>2, <2>3 DEF Same, Fields
    <2>6. CASE ~known \/ size > SrcWinSize
      <3>1. PICK B \in Nat : /\ B = SrcWinSize \div MaxLru
                             /\ MaxLru * B = SrcWinSize
        <4>1. /\ SrcWinSize \div MaxLru \in Nat
              /\ SrcWinSize = (SrcWinSize \div MaxLru) * MaxLru + (SrcWinSize % MaxLru)
          BY <1>3, DivNat
        <4>2. PICK B \in Nat : B = SrcWinSize \div MaxLru
          BY <4>1
        <4>3. SrcWinSize = B * MaxLru
          BY <1>3, <4>1, <4>2
        <4>4. B * MaxLru = MaxLru * B
          BY <1>3
        <4> QED
          BY <4>2, <4>3, <4>4
      <3>2. B > 0
        <4>1. CASE B = 0
          <5>1. MaxLru * B = 0
            BY <1>3, <4>1
          <5> QED
            BY <1>3, <3>1, <5>1
        <4>2. CASE B # 0
          BY <4>2
        <4> QED
          BY <4>1, <4>2
      <3>3. r = CutUp(st, B)
        BY <2>4, <2>6, <3>1
      <3>4. DOMAIN st = Fields /\ st.cur = one.cur /\ DOMAIN one.cur = {"blkno", "at", "size"}
        BY <2>1, <2>5 DEF Same, Fields, OneRead
      <3>5. /\ Same(r, st, {"blksize", "slots", "recent", "cur"})
            /\ r.slots = [i \in 1..MaxLru |-> [blkno |-> i - 1, at |-> (i - 1) * B, size |-> B]]
            /\ r.recent = [i \in 1..MaxLru |-> i]
            /\ r.blksize = B /\ r.cur = [st.cur EXCEPT !.size = B]
        BY <3>3, <3>4 DEF CutUp, Same, Fields
      <3>6. /\ r.cur.blkno = one.cur.blkno /\ r.cur.at = one.cur.at /\ r.cur.size = B
        BY <3>4, <3>5
      <3>7. /\ r.position = one.position /\ r.offset = one.offset
            /\ r.seek_failed = one.seek_failed /\ r.first = one.first
            /\ r.slot = one.slot /\ r.new = one.new /\ r.ret = one.ret
            /\ r.fifo = st.fifo /\ DOMAIN r = Fields
        BY <2>5, <3>5 DEF Same, Fields
      <3>8. Cut(r, one, B)
        <4>1. r.fifo \in BOOLEAN
          BY <2>3, <2>5, <3>7
        <4> QED
          BY <3>5, <3>6, <3>7, <4>1 DEF Cut
      <3>9. ~lo => n = SrcWinSize
        <4> SUFFICES ASSUME ~lo PROVE n = SrcWinSize
          OBVIOUS
        <4>1. ~(n < AtMost(f.length, SrcWinSize))
          BY <2>2, <3>7
        <4>2. CASE f.regular
          <5>1. f.length > SrcWinSize
            BY <2>3, <2>6, <4>2
          <5> QED
            BY <1>3, <2>1, <4>1, <5>1 DEF AtMost
        <4>3. CASE ~f.regular
          <5>1. ~(n < SrcWinSize)
            <6> SUFFICES ASSUME n < SrcWinSize PROVE FALSE
              OBVIOUS
            <6>1. known = TRUE /\ size = n
              BY <2>3, <4>3
            <6>2. ~(size > SrcWinSize)
              BY <1>3, <2>1, <6>1
            <6> QED
              BY <2>6, <6>1, <6>2
          <5> QED
            BY <1>3, <2>1, <5>1
        <4> QED
          BY <4>2, <4>3
      <3>10. fifo => r.fifo
        BY <2>5, <3>7
      <3>11. SetGood(r, f, fifo, lo)
        BY <2>1, <3>1, <3>2, <3>8, <3>9, <3>10, CutGood
      <3> QED
        BY <2>2, <3>7, <3>11
    <2>7. CASE ~(~known \/ size > SrcWinSize)
      <3>1. r = st /\ known
        BY <2>4, <2>7
      <3>2. Uncut(r, one, fifo) /\ r.ret = one.ret
        BY <2>5, <3>1 DEF Uncut, Same, Fields
      <3>3. ~lo => n = AtMost(f.length, SrcWinSize)
        <4> SUFFICES ASSUME ~lo PROVE n = AtMost(f.length, SrcWinSize)
          OBVIOUS
        <4>1. ~(n < AtMost(f.length, SrcWinSize))
          BY <2>2, <3>2 DEF Uncut
        <4> QED
          BY <1>3, <2>1, <4>1 DEF AtMost
      <3>4. SetGood(r, f, fifo, lo)
        BY <2>1, <3>2, <3>3, UncutGood
      <3> QED
        BY <2>2, <3>2, <3>4
    <2> QED
      BY <2>6, <2>7
  <1> QED
    BY <1>4, <1>5

-----------------------------------------------------------------------------
(* The cache at work: while the command goes on, the cache rests between two *)
(* requests, and the encoder's, which scans, is a ring.                      *)
BlkInv ==
    /\ BlocksServed
    /\ pc # "end" /\ HaveSource =>
          /\ CacheRests(source, case.source, seen, lost)
          /\ Encoding => source.fifo

\* The blocks used last are in memory.
LEMMA RecentThere ==
    ASSUME NEW st, Shape(st), NEW sn \in Seq(Nat), RecentRight(st, sn),
           NEW n \in DOMAIN sn, n > Len(sn) - Len(st.slots)
    PROVE  Labelled(st, sn[n]) # {}
  <1>1. Len(st.slots) \in Nat /\ Len(sn) \in Nat /\ Len(sn) >= Len(st.slots)
    BY LenProperties DEF Shape, RecentRight
  <1>2. PICK N \in Nat, L \in Nat : N = Len(st.slots) /\ L = Len(sn)
    BY <1>1
  <1>3. n \in 1..L
    BY <1>2, LenProperties
  <1>4. n - (L - N) \in 1..N /\ (L - N) + (n - (L - N)) = n
    BY <1>1, <1>2, <1>3
  <1>5. PICK j \in 1..N : L - N + j = n
    BY <1>4
  <1>6. st.slots[st.recent[j]].blkno = sn[n]
    <2>1. st.slots[st.recent[j]].blkno = sn[L - N + j]
      BY <1>2, <1>5 DEF RecentRight
    <2> QED
      BY <1>5, <2>1
  <1>7. st.recent[j] \in 1..N
    <2>1. st.recent \in Seq(1..N) /\ j \in 1..Len(st.recent)
      BY <1>2, <1>5 DEF Shape, RecentRight
    <2> QED
      BY <2>1, ElementOfSeq
  <1>8. DOMAIN st.slots = 1..N
    BY <1>2, LenProperties DEF Shape
  <1>9. st.recent[j] \in Labelled(st, sn[n])
    BY <1>6, <1>7, <1>8 DEF Labelled
  <1> QED
    BY <1>9

\* What the library is served when the cache rests.
Served(r, f, sn, lo, b) ==
    /\ r.ret = "ok" /\ ~lo => BlockThere(r, f, b)
    /\ r.ret = "TOOFARBACK" /\ r.fifo => \E n \in DOMAIN sn : sn[n] >= b + Len(r.slots)
    /\ r.ret = "ok" /\ ~r.fifo /\ f.seeks =>
          \A n \in DOMAIN sn : n > Len(sn) - Len(r.slots) => Labelled(r, sn[n]) # {}

\* A cache that rests has served what it was asked.
LEMMA RestsServed ==
    ASSUME NEW r, NEW f, NEW sn, NEW lo \in BOOLEAN, NEW b, CacheRests(r, f, sn, lo),
           r.ret = "ok", ~lo => BlockThere(r, f, b)
    PROVE  Served(r, f, sn, lo, b)
  <1>1. Shape(r) /\ sn \in Seq(Nat)
    BY DEF CacheRests
  <1>2. ~r.fifo /\ f.seeks => RecentRight(r, sn)
    BY DEF CacheRests
  <1>3. ASSUME ~r.fifo, f.seeks, NEW n \in DOMAIN sn, n > Len(sn) - Len(r.slots)
        PROVE  Labelled(r, sn[n]) # {}
    BY <1>1, <1>2, <1>3, RecentThere
  <1> QED
    BY <1>3 DEF Served

\* What is served is what the property asks for.
LEMMA ServedNext ==
    ASSUME HaveSource' => Served(source', case'.source, seen', lost', asked')
    PROVE  BlocksServed'
  BY DEF Served, BlocksServed, BlockIsAsked, LooksBack, KeepsRecent, Got, BlockThere

\* Setting the source establishes the invariant.
LEMMA SourcedKeeps ==
    ASSUME lost \in BOOLEAN, case \in Cases, NEW to, Sourced(to), UNCHANGED case
    PROVE  BlkInv'
  <1>1. IsFile(case.source)
    BY CasesAssumption
  <1>2. Encoding \in BOOLEAN /\ Encoding' = Encoding
    BY DEF Encoding
  <1>3. PICK r : r = SetSource(case.source, Encoding)
    OBVIOUS
  <1>4. /\ source' = r /\ seen' = Labels(r) /\ asked' = 0
        /\ lost' = (lost \/ (r.ret = "ok" /\ r.offset < AtMost(case.source.length, SrcWinSize)))
        /\ IF r.ret = "ok" THEN pc' = to /\ UNCHANGED verdict ELSE Fail
    BY <1>3 DEF Sourced, Labels
  <1>5. lost' \in BOOLEAN
    BY <1>4
  <1>51. PICK f : f = case.source
    OBVIOUS
  <1>52. PICK fifo \in BOOLEAN : fifo = Encoding
    BY <1>2, Zenon
  <1>53. PICK lo \in BOOLEAN : lo = lost'
    BY <1>5, Zenon
  <1>6. ~lo => ~(r.ret = "ok" /\ r.offset < AtMost(f.length, SrcWinSize))
    BY <1>4, <1>51, <1>53
  <1>7. r.ret = "read error" \/ (r.ret = "ok" /\ SetGood(r, f, fifo, lo))
    BY <1>1, <1>3, <1>51, <1>52, <1>53, <1>6, SetSourceGood
  <1>8. case'.source = f /\ lost' = lo /\ Encoding' = fifo
    BY <1>2, <1>51, <1>52, <1>53
  <1>9. CASE r.ret = "read error"
    <2>1. pc' = "end"
      BY <1>4, <1>9 DEF Fail
    <2>2. Served(r, f, Labels(r), lo, 0)
      BY <1>9 DEF Served
    <2>3. BlocksServed'
      <3>1. Served(source', case'.source, seen', lost', asked')
        BY <1>4, <1>8, <2>2
      <3> QED
        BY <3>1, ServedNext
    <2> QED
      BY <2>1, <2>3 DEF BlkInv
  <1>10. CASE r.ret = "ok" /\ SetGood(r, f, fifo, lo)
    <2>1. /\ CacheRests(r, f, Labels(r), lo) /\ (fifo => r.fifo)
          /\ ~lo => BlockThere(r, f, 0)
      BY <1>10 DEF SetGood
    <2>2. Served(r, f, Labels(r), lo, 0)
      BY <1>10, <2>1, RestsServed
    <2>3. BlocksServed'
      <3>1. Served(source', case'.source, seen', lost', asked')
        BY <1>4, <1>8, <2>2
      <3> QED
        BY <3>1, ServedNext
    <2>4. CacheRests(source', case'.source, seen', lost') /\ (Encoding' => source'.fifo)
      BY <1>4, <1>8, <2>1
    <2> QED
      BY <2>3, <2>4 DEF BlkInv
  <1> QED
    BY <1>7, <1>9, <1>10

\* A step that leaves the cache alone and the file at most worse than it was.
LEMMA CacheAlone ==
    ASSUME BlkInv, lost \in BOOLEAN, lost' \in BOOLEAN, lost => lost',
           UNCHANGED <<case, source, seen, asked>>, pc = "end" => pc' = "end"
    PROVE  BlkInv'
  <1>1. BlocksServed'
    BY DEF BlkInv, BlocksServed, BlockIsAsked, LooksBack, KeepsRecent, Got, HaveSource
  <1>2. Encoding' = Encoding /\ HaveSource' = HaveSource
    BY DEF Encoding, HaveSource
  <1>3. ASSUME CacheRests(source, case.source, seen, lost)
        PROVE  CacheRests(source, case.source, seen, lost')
    BY <1>3 DEF CacheRests
  <1>4. ASSUME pc' # "end", HaveSource'
        PROVE  CacheRests(source', case'.source, seen', lost') /\ (Encoding' => source'.fifo)
    BY <1>2, <1>3, <1>4 DEF BlkInv
  <1> QED
    BY <1>1, <1>4 DEF BlkInv

\* A request keeps the invariant; when it cannot be served the command ends or, encoding, goes on without.
LEMMA AskBlockServed ==
    ASSUME BlkInv, lost \in BOOLEAN, case \in Cases, AskBlock
    PROVE  BlkInv'
  <1>1. /\ case' = case /\ lost' = lost /\ pc = "window" /\ Encoding' = Encoding
        /\ IsFile(case.source)
    BY CasesAssumption DEF AskBlock, Encoding
  <1>2. CASE ~HaveSource
    <2>1. Fail /\ source' = source
      BY <1>2 DEF AskBlock
    <2>2. ~HaveSource' /\ pc' = "end"
      BY <1>2, <2>1 DEF HaveSource, Fail
    <2> QED
      BY <2>2 DEF BlkInv, BlocksServed, BlockIsAsked, LooksBack, KeepsRecent, Got
  <1>3. CASE HaveSource
    <2>1. PICK b \in Askable :
             LET st == GetBlock(source, case.source, b)
             IN  /\ source' = st /\ asked' = b
                 /\ seen' = IF st.ret = "ok" THEN Moved(seen, b) ELSE seen
                 /\ IF st.ret = "ok" \/ (Encoding /\ st.ret = "TOOFARBACK")
                    THEN UNCHANGED <<pc, verdict>>
                    ELSE Fail
      BY <1>3 DEF AskBlock
    <2>2. PICK f, r : f = case.source /\ r = GetBlock(source, f, b)
      OBVIOUS
    <2>3. /\ source' = r /\ asked' = b /\ seen' = (IF r.ret = "ok" THEN Moved(seen, b) ELSE seen)
          /\ IF r.ret = "ok" \/ (Encoding /\ r.ret = "TOOFARBACK")
             THEN UNCHANGED <<pc, verdict>> ELSE Fail
      BY <2>1, <2>2
    <2>4. IsFile(f) /\ CacheRests(source, f, seen, lost) /\ (Encoding => source.fifo)
      BY <1>1, <1>3, <2>2 DEF BlkInv
    <2>5. b \in Nat /\ b * source.blksize <= f.length
      <3>1. f.length \in Nat /\ source.blksize \in Nat /\ source.blksize > 0
        BY <2>4 DEF CacheRests, Shape, IsFile
      <3>2. PICK B, d : B = source.blksize /\ d = f.length \div B
        OBVIOUS
      <3>22. B \in Nat /\ B > 0
        BY <3>1, <3>2
      <3>3. d \in Nat /\ d * B <= f.length /\ d * B \in Nat /\ B > 0
        BY <3>1, <3>2, <3>22, DivNat
      <3>4. b \in 0..d
        BY <2>2, <3>2 DEF Askable
      <3>5. b \in Nat /\ b <= d
        BY <3>3, <3>4
      <3>6. b * B <= d * B /\ b * B \in Nat
        <4>1. CASE b = d
          BY <3>3, <4>1
        <4>2. CASE b < d
          <5>1. b * B + B <= d * B
            BY <3>22, <3>3, <3>5, <4>2, TimesMore
          <5>2. b * B \in Nat
            BY <3>22, <3>5
          <5> QED
            BY <3>3, <3>22, <5>1, <5>2
        <4> QED
          BY <3>3, <3>5, <4>1, <4>2
      <3> QED
        BY <3>1, <3>2, <3>3, <3>5, <3>6
    <2>6. PICK sn, st, lo : sn = seen /\ st = source /\ lo = lost
      OBVIOUS
    <2>66. lo \in BOOLEAN
      BY <2>6
    <2>7. GetGood(r, st, f, sn, lo, b)
      <3>1. GetGood(GetBlock(st, f, b), st, f, sn, lo, b)
        BY <2>4, <2>5, <2>6, <2>66, GetBlockKeeps
      <3> QED
        BY <2>2, <2>6, <3>1
    <2>8. case'.source = f /\ lost' = lo /\ Encoding' = Encoding
      BY <1>1, <2>2, <2>6
    <2>9. CASE r.ret = "ok"
      <3>1. /\ CacheRests(r, f, Moved(sn, b), lo) /\ r.fifo = st.fifo
            /\ ~lo => BlockThere(r, f, b)
        BY <2>7, <2>9 DEF GetGood
      <3>2. PICK moved : moved = Moved(sn, b)
        OBVIOUS
      <3>3. CacheRests(r, f, moved, lo) /\ seen' = moved
        BY <2>3, <2>6, <2>9, <3>1, <3>2
      <3>4. Served(r, f, moved, lo, b)
        BY <2>66, <2>9, <3>1, <3>2, <3>3, RestsServed
      <3>5. BlocksServed'
        <4>1. Served(source', case'.source, seen', lost', asked')
          BY <2>3, <2>8, <3>3, <3>4
        <4> QED
          BY <4>1, ServedNext
      <3>6. CacheRests(source', case'.source, seen', lost') /\ (Encoding' => source'.fifo)
        BY <2>3, <2>4, <2>6, <2>8, <3>1, <3>3
      <3> QED
        BY <3>5, <3>6 DEF BlkInv
    <2>10. CASE r.ret # "ok"
      <3>1. seen' = sn
        BY <2>3, <2>6, <2>10
      <3>2. Served(r, f, sn, lo, b)
        <4>1. sn \in Seq(Nat)
          BY <2>4, <2>6 DEF CacheRests
        <4>2. DOMAIN sn = 1..Len(sn)
          BY <4>1, LenProperties
        <4>3. r.ret = "TOOFARBACK" /\ r.fifo => \E n \in 1..Len(sn) : sn[n] >= b + Len(r.slots)
          BY <2>7 DEF GetGood
        <4> QED
          BY <2>10, <4>2, <4>3 DEF Served
      <3>3. BlocksServed'
        <4>1. Served(source', case'.source, seen', lost', asked')
          BY <2>3, <2>8, <3>1, <3>2
        <4> QED
          BY <4>1, ServedNext
      <3>4. CASE Encoding /\ r.ret = "TOOFARBACK"
        <4>1. r.fifo = st.fifo /\ st.fifo
          BY <2>4, <2>6, <2>7, <3>4 DEF GetGood
        <4>2. CacheRests(r, f, sn, lo)
          BY <2>7, <3>4, <4>1 DEF GetGood
        <4>3. CacheRests(source', case'.source, seen', lost') /\ (Encoding' => source'.fifo)
          BY <2>3, <2>8, <3>1, <4>1, <4>2
        <4> QED
          BY <3>3, <4>3 DEF BlkInv
      <3>5. CASE ~(Encoding /\ r.ret = "TOOFARBACK")
        <4>1. pc' = "end"
          BY <2>3, <2>10, <3>5 DEF Fail
        <4> QED
          BY <3>3, <4>1 DEF BlkInv
      <3> QED
        BY <3>4, <3>5
    <2> QED
      BY <2>9, <2>10
  <1> QED
    BY <1>2, <1>3

\* Without a source there is nothing to serve.
LEMMA CacheStart == Init => BlkInv
  BY DEF Init, BlkInv, BlocksServed, BlockIsAsked, LooksBack, KeepsRecent, Got, HaveSource

\* The invariant is inductive, given the one of the input loop.
LEMMA CacheStep ==
    ASSUME LoopInv, LoopInv', BlkInv, [Next]_vars
    PROVE  BlkInv'
  <1>1. lost \in BOOLEAN /\ lost' \in BOOLEAN /\ case \in Cases
    BY DEF LoopInv, LoopTypes
  <1>2. CASE Start
    <2>1. case' = case /\ pc = "start"
      BY <1>2 DEF Start
    <2>2. CASE Encoding /\ sname # "none"
      <3>1. Sourced("read")
        BY <1>2, <2>2 DEF Start
      <3> QED
        BY <1>1, <2>1, <3>1, SourcedKeeps
    <2>3. CASE ~(Encoding /\ sname # "none")
      <3>1. UNCHANGED <<case, source, seen, asked, lost>>
        BY <1>2, <2>3 DEF Start
      <3> QED
        BY <1>1, <2>1, <3>1, CacheAlone
    <2> QED
      BY <2>2, <2>3
  <1>3. CASE ReadInput
    <2>1. /\ UNCHANGED <<case, source, seen, asked>> /\ pc = "read"
          /\ lost => lost'
      BY <1>1, <1>3 DEF ReadInput
    <2> QED
      BY <1>1, <2>1, CacheAlone
  <1>4. CASE GotHeader
    <2>1. case' = case /\ pc = "input"
      BY <1>4 DEF GotHeader
    <2>2. (\E to : Sourced(to)) \/ UNCHANGED <<pc, source, lost, seen, asked, verdict>>
      BY <1>4 DEF GotHeader
    <2>3. CASE UNCHANGED <<pc, source, lost, seen, asked, verdict>>
      BY <1>1, <2>1, <2>3, CacheAlone
    <2>4. CASE \E to : Sourced(to)
      <3>1. PICK to : Sourced(to)
        BY <2>4
      <3> QED
        BY <1>1, <2>1, <3>1, SourcedKeeps
    <2> QED
      BY <2>2, <2>3, <2>4
  <1>5. CASE WindowStart \/ NeedInput \/ WindowDone \/ Finish \/ UNCHANGED vars
    <2>1. UNCHANGED <<case, source, seen, asked, lost>> /\ (pc = "end" => pc' = "end")
      BY <1>5 DEF WindowStart, NeedInput, WindowDone, Finish, vars
    <2> QED
      BY <1>1, <2>1, CacheAlone
  <1>6. CASE AskBlock
    BY <1>1, <1>6, AskBlockServed
  <1> QED
    BY <1>2, <1>3, <1>4, <1>5, <1>6 DEF Next

\* The library gets the block it asks for, whatever it asked for before: its bytes and all
\* of them; a block is too far back only when one a ring ahead of it was read; and of a
\* source that can be positioned the blocks used last stay in memory (main_getblk_func,
\* main_getblk_lru, main_read_seek_source, main_set_source).
THEOREM BlocksServedHolds == Spec => []BlocksServed
  <1>1. BlkInv => BlocksServed
    BY DEF BlkInv
  <1> QED
    BY <1>1, CacheStart, CacheStep, LoopInvariant, PTL DEF Spec
=============================================================================
