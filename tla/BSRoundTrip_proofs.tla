------------------------- MODULE BSRoundTrip_proofs -------------------------
(***************************************************************************)
(* A patch created by bsdiff_perform and applied by bspatch_perform to the *)
(* file it was made from rebuilds the new file, and is never refused: for  *)
(* all files, whatever matches the scan settles on.                        *)
(***************************************************************************)
EXTENDS BSRoundTrip, BSDiff_proofs

\* The inductive invariant: the creator's own, the chain of triples it leaves,
\* the patcher's place on that chain, and the two promises themselves.
RTInv ==
    /\ DiffInv
    /\ Chain
    /\ Handover
    /\ Follows
    /\ RoundTrip
    /\ NeverRefused

\* The i-th of b bytes from offset a of a block of d bytes.
LEMMA InBlock ==
    ASSUME NEW a \in Nat, NEW b \in Nat, NEW d \in Nat, a + b <= d,
           NEW i \in 0..(b - 1)
    PROVE  a + 1 + i \in 1..d
  OBVIOUS

LEMMA StillInBlock ==
    ASSUME NEW a \in Nat, NEW d \in Nat, NEW more \in Nat, a <= d
    PROVE  a <= d + more
  OBVIOUS

LEMMA LongerRange ==
    ASSUME NEW a \in Int, NEW b \in Int, a <= b, NEW i \in 0..(a - 1)
    PROVE  i \in 0..(b - 1)
  OBVIOUS

\* A triple just cut extends the chain.
LEMMA CutChain ==
    ASSUME DiffInv, Chain, Cut, marks' = Append(marks, Mark')
    PROVE  Chain'
  <1>1. PICK f \in Nat, extra \in Nat, z \in Int : CutBy(f, extra, z)
    BY CutEffect
  <1> DEFINE t == [add |-> f, copy |-> extra, seek |-> z]
  <1>2. /\ lastscan \in Nat /\ lastpos \in Nat
        /\ ctrl \in Seq(Triple)
        /\ Len(db) \in Nat /\ Len(eb) \in Nat /\ Len(ctrl) \in Nat
        /\ new' = new /\ old' = old
    BY FileType, LenProperties DEF DiffInv, DiffTypeOK, Cut, files
  <1>3. t \in Triple /\ t.add = f /\ t.copy = extra /\ t.seek = z
    BY DEF Triple
  <1>4. /\ Len(ctrl') = Len(ctrl) + 1
        /\ \A k \in 1..Len(ctrl) : ctrl'[k] = ctrl[k]
        /\ ctrl'[Len(ctrl) + 1] = t
    BY <1>1, <1>2, <1>3, AppendProperties DEF CutBy
  <1> HIDE DEF t
  <1>5. Mark' \in MarkType
    <2>1. lastscan' \in Nat /\ lastpos' \in Nat /\ Len(db') \in Nat /\ Len(eb') \in Nat
      <3>1. /\ lastscan' = lastscan + f + extra /\ lastpos' \in 0..pos
            /\ Len(db') = Len(db) + f /\ Len(eb') = Len(eb) + extra
        BY <1>1 DEF CutBy
      <3> QED
        BY <1>2, <3>1
    <2> QED
      BY <2>1 DEF Mark, MarkType
  <1>6. /\ marks' \in Seq(MarkType)
        /\ Len(marks') = Len(ctrl') + 1
        /\ \A k \in 1..(Len(ctrl) + 1) : marks'[k] = marks[k]
        /\ marks'[Len(marks')] = Mark'
        /\ marks[Len(ctrl) + 1] = Mark
    <2>1. marks \in Seq(MarkType) /\ Len(marks) = Len(ctrl) + 1 /\ marks[Len(marks)] = Mark
      BY DEF Chain
    <2> QED
      BY <1>2, <1>4, <1>5, <2>1, AppendProperties
  <1>7. marks'[1] = [new |-> 0, old |-> 0, diff |-> 0, extra |-> 0]
    BY <1>2, <1>6 DEF Chain
  <1>8. ASSUME NEW k \in 1..Len(ctrl')
        PROVE  TripleCovers(k)'
    <2>1. CASE k \in 1..Len(ctrl)
      <3>1. TripleCovers(k)
        BY <2>1 DEF Chain
      <3>2. marks'[k] = marks[k] /\ marks'[k + 1] = marks[k + 1] /\ ctrl'[k] = ctrl[k]
        BY <1>2, <1>4, <1>6, <2>1
      <3> DEFINE m == marks[k]
                 n == marks[k + 1]
                 s == ctrl[k]
      <3>3. m \in MarkType /\ n \in MarkType /\ s \in Triple
        BY <1>2, <2>1, ElementOfSeq DEF Chain
      <3>4. /\ n.new = m.new + s.add + s.copy
            /\ n.old = m.old + s.add + s.seek
            /\ n.diff = m.diff + s.add
            /\ n.extra = m.extra + s.copy
            /\ m.old + s.add <= old.size
            /\ n.new <= lastscan /\ n.diff <= Len(db) /\ n.extra <= Len(eb)
        BY <3>1 DEF TripleCovers
      <3>5. /\ m.diff \in Nat /\ m.extra \in Nat /\ n.new \in Nat /\ n.diff \in Nat
            /\ n.extra \in Nat /\ s.add \in Nat /\ s.copy \in Nat
        BY <3>3 DEF MarkType, Triple
      <3> HIDE DEF m, n, s
      <3>9. /\ n.diff = m.diff + s.add /\ n.extra = m.extra + s.copy
            /\ n.new <= lastscan /\ n.diff <= Len(db) /\ n.extra <= Len(eb)
            /\ lastscan \in Nat /\ Len(db) \in Nat /\ Len(eb) \in Nat
        BY <1>2, <3>4
      <3>6. n.new <= lastscan' /\ n.diff <= Len(db') /\ n.extra <= Len(eb')
        <4>1. /\ lastscan' = lastscan + f + extra
              /\ Len(db') = Len(db) + f /\ Len(eb') = Len(eb) + extra
          BY <1>1 DEF CutBy
        <4>2. f + extra \in Nat /\ lastscan + f + extra = lastscan + (f + extra)
          BY <3>9
        <4> QED
          BY <3>5, <3>9, <4>1, <4>2, StillInBlock
      <3>7. ASSUME NEW i \in 0..(s.add - 1)
            PROVE  (db'[m.diff + 1 + i] + old.data[m.old + i]) % 256 = new.data[m.new + i]
        <4>1. m.diff + 1 + i \in 1..Len(db)
          BY <3>5, <3>9, InBlock
        <4>2. db'[m.diff + 1 + i] = db[m.diff + 1 + i]
          BY <1>1, <4>1 DEF CutBy
        <4>3. (db[m.diff + 1 + i] + old.data[m.old + i]) % 256 = new.data[m.new + i]
          BY <3>1 DEF TripleCovers, m, n, s
        <4> QED
          BY <4>2, <4>3
      <3>8. ASSUME NEW i \in 0..(s.copy - 1)
            PROVE  eb'[m.extra + 1 + i] = new.data[m.new + s.add + i]
        <4>1. m.extra + 1 + i \in 1..Len(eb)
          BY <3>5, <3>9, InBlock
        <4>2. eb'[m.extra + 1 + i] = eb[m.extra + 1 + i]
          BY <1>1, <4>1 DEF CutBy
        <4>3. eb[m.extra + 1 + i] = new.data[m.new + s.add + i]
          BY <3>1 DEF TripleCovers, m, n, s
        <4> QED
          BY <4>2, <4>3
      <3> QED
        BY <1>2, <3>2, <3>4, <3>6, <3>7, <3>8 DEF TripleCovers, m, n, s
    <2>2. CASE k = Len(ctrl) + 1
      <3>1. marks'[k] = Mark /\ marks'[k + 1] = Mark' /\ ctrl'[k] = t
        BY <1>2, <1>4, <1>6, <2>2
      <3>2. /\ Mark.new = lastscan /\ Mark.old = lastpos
            /\ Mark.diff = Len(db) /\ Mark.extra = Len(eb)
            /\ Mark'.new = lastscan' /\ Mark'.old = lastpos'
            /\ Mark'.diff = Len(db') /\ Mark'.extra = Len(eb')
        BY DEF Mark
      <3>3. /\ Mark'.new = Mark.new + t.add + t.copy
            /\ Mark'.old = Mark.old + t.add + t.seek
            /\ Mark'.diff = Mark.diff + t.add
            /\ Mark'.extra = Mark.extra + t.copy
            /\ Mark.old + t.add <= old.size
            /\ Mark'.new <= lastscan' /\ Mark'.diff <= Len(db') /\ Mark'.extra <= Len(eb')
        <4>1. /\ lastscan' = lastscan + f + extra /\ lastpos' = lastpos + f + z
              /\ Len(db') = Len(db) + f /\ Len(eb') = Len(eb) + extra
              /\ lastpos + f <= old.size
          BY <1>1 DEF CutBy
        <4> QED
          BY <1>2, <1>3, <3>2, <4>1
      <3>4. /\ \A i \in 0..(t.add - 1) :
                  (db'[Mark.diff + 1 + i] + old.data[Mark.old + i]) % 256
                     = new.data[Mark.new + i]
            /\ \A i \in 0..(t.copy - 1) :
                  eb'[Mark.extra + 1 + i] = new.data[Mark.new + t.add + i]
        BY <1>1, <1>3, <3>2 DEF CutBy
      <3> QED
        BY <1>2, <3>1, <3>3, <3>4 DEF TripleCovers
    <2> QED
      BY <1>2, <1>4, <2>1, <2>2
  <1> QED
    BY <1>6, <1>7, <1>8 DEF Chain
\* While the patch is created, nothing is applied.
LEMMA CreateKeeps ==
    ASSUME RTInv, Create
    PROVE  RTInv'
  <1> USE DEF RTInv
  <1>1. DiffInv'
    BY DiffStep DEF Create
  <1>2. pc # "done" /\ apc = "idle"
    <2>1. pc # "done"
      BY DEF Create, DiffNext, Load, LoadFails, NextMatch, StartSearch, EndOfNew, Narrow,
             Score, Cut, NoCut, Finish, WriteFails
    <2> QED
      BY <2>1 DEF Handover
  <1>3. apc' = "idle" /\ UNCHANGED applyVars
    BY <1>2 DEF Create, applyVars
  <1>4. Chain'
    <2>1. CASE Cut
      <3>1. ctrl \in Seq(Triple)
        BY DEF DiffInv, DiffTypeOK
      <3>2. PICK f \in Nat, extra \in Nat, z \in Int : CutBy(f, extra, z)
        BY <2>1, CutEffect
      <3>3. Len(ctrl') = Len(ctrl) + 1 /\ Len(ctrl) \in Nat
        BY <3>1, <3>2, AppendProperties, LenProperties DEF CutBy, Triple
      <3>4. ctrl' # ctrl
        BY <3>3
      <3>5. marks' = Append(marks, Mark')
        BY <3>4 DEF Create
      <3> QED
        BY <2>1, <3>5, CutChain
    <2>2. CASE ~Cut
      <3>1. UNCHANGED <<files, patchVars>>
        BY <2>2 DEF Create, DiffNext, Load, LoadFails, NextMatch, StartSearch, EndOfNew,
                    Narrow, Score, NoCut, Finish, WriteFails
      <3>2. UNCHANGED <<old, new, lastscan, lastpos, ctrl, db, eb, marks>>
        BY <3>1 DEF Create, files, patchVars
      <3> QED
        BY <3>2 DEF Chain, TripleCovers, Mark
    <2> QED
      BY <2>1, <2>2
  <1>5. Handover'
    <2>1. created' = 0 => pc' = "done"
      BY <1>1 DEF DiffInv, ScanInv, NoResult
    <2> QED
      BY <1>2, <1>3, <2>1 DEF Handover, applyVars, progress
  <1>6. Follows' /\ RoundTrip' /\ NeverRefused'
    BY <1>2, <1>3 DEF Follows, RoundTrip, NeverRefused, Handover, applyVars, NoResult
  <1> QED
    BY <1>1, <1>4, <1>5, <1>6

\* Nothing of the creator changes while a patch is applied.
LEMMA CreatorStill ==
    ASSUME RTInv, UNCHANGED <<diffVars, marks>>
    PROVE  /\ DiffInv' /\ Chain'
           /\ UNCHANGED <<old, new, created, pc, ctrl, db, eb, marks, CreatedPatch>>
  <1>1. UNCHANGED <<old, new, I, pc, scan, len, pos, oldscore, scsc, st, en, lastscan, lastpos,
                    lastoffset, ctrl, db, eb, created, marks>>
    BY DEF diffVars, files, matchVars, scoreVars, bracket, patchVars
  <1>2. Chain'
    BY <1>1 DEF RTInv, Chain, TripleCovers, Mark
  <1>3. DiffInv'
    BY DiffStep DEF RTInv
  <1> QED
    BY <1>1, <1>2, <1>3 DEF CreatedPatch

\* One turn of bspatch_perform's loop moves it one mark on.
LEMMA TurnKeeps ==
    ASSUME RTInv, ApplyTriple, UNCHANGED <<diffVars, marks>>
    PROVE  RTInv'
  <1> USE DEF RTInv
  <1>1. /\ apc = "triples" /\ apc' = "triples"
        /\ cat < Len(patch.ctrl)
        /\ UNCHANGED <<patch, src, target, applied>>
    BY DEF ApplyTriple, patchInput
  <1>2. /\ patch = CreatedPatch /\ created = 0 /\ pc = "done" /\ src \in Files
        /\ applied = NoResult
        /\ patch.ctrl = ctrl /\ patch.diff = db /\ patch.extra = eb /\ patch.newsize = new.size
    BY <1>1 DEF Handover, CreatedPatch
  <1>3. Len(ctrl) \in Nat /\ cat \in 0..Len(ctrl) /\ cat + 1 \in 1..Len(ctrl)
    BY <1>1, <1>2, LenProperties DEF Follows, DiffInv, DiffTypeOK
  <1> DEFINE k == cat + 1
             m == marks[k]
             n == marks[k + 1]
             t == ctrl[k]
  <1>4. TripleCovers(k)
    BY <1>3 DEF Chain
  <1>5. m \in MarkType /\ n \in MarkType /\ t \in Triple
    <2>1. k \in 1..Len(marks) /\ k + 1 \in 1..Len(marks) /\ marks \in Seq(MarkType)
      BY <1>3 DEF Chain
    <2>2. ctrl \in Seq(Triple)
      BY DEF DiffInv, DiffTypeOK
    <2> QED
      BY <1>3, <2>1, <2>2, ElementOfSeq
  <1>6. /\ newpos = m.new /\ oldpos = m.old /\ dat = m.diff /\ eat = m.extra
        /\ out = [i \in 0..(new.size - 1) |-> out[i]]
        /\ src = old => \A i \in 0..(newpos - 1) : out[i] = new.data[i]
    BY <1>1 DEF Follows
  <1>7. /\ out' = [i \in DOMAIN out |->
                        IF i < newpos \/ i >= newpos + t.add + t.copy THEN out[i]
                        ELSE IF i < newpos + t.add
                        THEN (db[dat + 1 + (i - newpos)]
                                + OldByte(oldpos + (i - newpos))) % 256
                        ELSE eb[eat + 1 + (i - newpos - t.add)]]
        /\ newpos' = newpos + t.add + t.copy
        /\ oldpos' = oldpos + t.add + t.seek
        /\ cat' = cat + 1
        /\ dat' = dat + t.add
        /\ eat' = eat + t.copy
    BY <1>2 DEF ApplyTriple
  <1>8. /\ n.new = m.new + t.add + t.copy
        /\ n.old = m.old + t.add + t.seek
        /\ n.diff = m.diff + t.add
        /\ n.extra = m.extra + t.copy
        /\ m.old + t.add <= old.size
        /\ \A i \in 0..(t.add - 1) :
              (db[m.diff + 1 + i] + old.data[m.old + i]) % 256 = new.data[m.new + i]
        /\ \A i \in 0..(t.copy - 1) :
              eb[m.extra + 1 + i] = new.data[m.new + t.add + i]
    BY <1>4 DEF TripleCovers
  <1>9. /\ m.new \in Nat /\ m.old \in Nat /\ m.diff \in Nat /\ m.extra \in Nat
        /\ t.add \in Nat /\ t.copy \in Nat /\ old.size \in Nat
        /\ n.new \in Nat /\ new.size \in Nat
    BY <1>5, FileType DEF MarkType, Triple, DiffInv, DiffTypeOK
  <1> HIDE DEF m, n, t
  <1>10. newpos' = n.new /\ oldpos' = n.old /\ dat' = n.diff /\ eat' = n.extra
    BY <1>6, <1>7, <1>8
  <1>11. DOMAIN out = 0..(new.size - 1)
    BY <1>6
  <1>12. out' = [i \in 0..(new.size - 1) |-> out'[i]]
    BY <1>7, <1>11
  <1>13. ASSUME src = old, NEW i \in 0..(newpos' - 1), i \in 0..(new.size - 1)
         PROVE  out'[i] = new.data[i]
    <2>1. i \in Int /\ 0 <= i /\ i < m.new + t.add + t.copy
      BY <1>6, <1>7, <1>9, <1>13
    <2>2. CASE i < m.new
      <3>1. out'[i] = out[i]
        BY <1>6, <1>7, <1>11, <1>13, <2>2
      <3>2. i \in 0..(newpos - 1)
        BY <1>6, <1>9, <2>1, <2>2
      <3> QED
        BY <1>6, <1>13, <3>1, <3>2
    <2>3. CASE m.new <= i /\ i < m.new + t.add
      <3> DEFINE j == i - m.new
      <3>1. /\ j \in 0..(t.add - 1) /\ m.new + j = i
            /\ m.old + j >= 0 /\ m.old + j < old.size
        BY <1>8, <1>9, <2>1, <2>3
      <3>2. ~(i < m.new) /\ ~(i >= m.new + t.add + t.copy)
        BY <1>9, <2>1, <2>3
      <3>3. out'[i] = (db[m.diff + 1 + j] + OldByte(m.old + j)) % 256
        BY <1>6, <1>7, <1>11, <1>13, <2>3, <3>2
      <3>4. OldByte(m.old + j) = old.data[m.old + j]
        BY <1>13, <3>1 DEF OldByte
      <3>5. (db[m.diff + 1 + j] + old.data[m.old + j]) % 256 = new.data[m.new + j]
        BY <1>8, <3>1
      <3> QED
        BY <3>1, <3>3, <3>4, <3>5
    <2>4. CASE m.new + t.add <= i
      <3> DEFINE j == i - m.new - t.add
      <3>1. j \in 0..(t.copy - 1) /\ m.new + t.add + j = i
        BY <1>9, <2>1, <2>4
      <3>2. ~(i < m.new) /\ ~(i >= m.new + t.add + t.copy) /\ ~(i < m.new + t.add)
        BY <1>9, <2>1, <2>4
      <3>3. out'[i] = eb[m.extra + 1 + j]
        BY <1>6, <1>7, <1>11, <1>13, <3>2
      <3>4. eb[m.extra + 1 + j] = new.data[m.new + t.add + j]
        BY <1>8, <3>1
      <3> QED
        BY <3>1, <3>3, <3>4
    <2> QED
      BY <1>9, <2>1, <2>2, <2>3, <2>4
  <1>14. newpos' <= new.size
    <2>1. n.new <= lastscan
      BY <1>4 DEF TripleCovers, n
    <2>2. lastscan = new.size
      BY <1>2 DEF DiffInv, ScanInv
    <2> QED
      BY <1>10, <2>1, <2>2
  <1>15. src = old => \A i \in 0..(newpos' - 1) : out'[i] = new.data[i]
    <2> SUFFICES ASSUME src = old, NEW i \in 0..(newpos' - 1)
                 PROVE  out'[i] = new.data[i]
      OBVIOUS
    <2>1. newpos' \in Int /\ new.size \in Int
      BY <1>9, <1>10
    <2>2. i \in 0..(new.size - 1)
      BY <1>14, <2>1, LongerRange
    <2> QED
      BY <1>13, <2>2
  <1>16. cat' \in 0..Len(ctrl) /\ cat' + 1 = k + 1
    BY <1>3, <1>7
  <1>17. /\ DiffInv' /\ Chain'
         /\ UNCHANGED <<old, new, created, pc, ctrl, db, eb, marks, CreatedPatch>>
    BY CreatorStill
  <1>18. Follows'
    BY <1>10, <1>12, <1>15, <1>16, <1>17, <1>1 DEF Follows, n
  <1>19. Handover'
    BY <1>1, <1>2, <1>17 DEF Handover
  <1>20. RoundTrip' /\ NeverRefused'
    BY <1>1, <1>2 DEF RoundTrip, NeverRefused, NoResult
  <1> QED
    BY <1>17, <1>18, <1>19, <1>20
\* Every other step of bspatch_perform.
LEMMA ApplyKeeps ==
    ASSUME RTInv, ApplyStep, UNCHANGED <<diffVars, marks>>
    PROVE  RTInv'
  <1> USE DEF RTInv
  <1>1. /\ DiffInv' /\ Chain'
        /\ UNCHANGED <<old, new, created, pc, ctrl, db, eb, marks, CreatedPatch>>
    BY CreatorStill
  <1>2. CASE ApplyTriple
    BY <1>2, TurnKeeps
  <1>3. CASE ReadHeader
    <2>1. /\ apc = "header" /\ apc' = "triples"
          /\ out' = [i \in 0..(patch.newsize - 1) |-> Unset]
          /\ UNCHANGED <<patch, src, oldpos, newpos, cat, dat, eat, target, applied>>
      BY <1>3 DEF ReadHeader, patchInput
    <2>2. /\ newpos = 0 /\ oldpos = 0 /\ cat = 0 /\ dat = 0 /\ eat = 0
          /\ patch = CreatedPatch /\ patch.newsize = new.size /\ applied = NoResult
      BY <2>1 DEF Handover, CreatedPatch
    <2>3. marks'[cat' + 1] = [new |-> 0, old |-> 0, diff |-> 0, extra |-> 0]
      BY <1>1, <2>1, <2>2 DEF Chain
    <2>4. Len(ctrl') \in Nat
      BY <1>1, LenProperties DEF DiffInv, DiffTypeOK
    <2>5. Follows'
      BY <1>1, <2>1, <2>2, <2>3, <2>4 DEF Follows
    <2> QED
      BY <1>1, <2>1, <2>2, <2>5 DEF Handover, RoundTrip, NeverRefused, NoResult
  <1>4. CASE BadHeader
    <2>1. HeaderGood
      <3>1. patch.magic /\ patch.newsize = new.size
        BY <1>4 DEF BadHeader, Handover, CreatedPatch
      <3>2. new.size \in Nat
        BY FileType DEF DiffInv, DiffTypeOK
      <3> QED
        BY <3>1, <3>2 DEF HeaderGood
    <2> QED
      BY <1>4, <2>1 DEF BadHeader
  <1>5. CASE ReadFails \/ NoMemory
    <2>1. /\ apc = "header" /\ apc' = "returned" /\ applied' \in {1, Exited}
          /\ UNCHANGED <<patch, src, oldpos, newpos, cat, dat, eat>>
      BY <1>5 DEF ReadFails, NoMemory, Return, patchInput, progress
    <2> QED
      BY <1>1, <2>1 DEF Handover, Follows, RoundTrip, NeverRefused, Exited
  <1>6. CASE CorruptTriple
    <2>1. /\ patch = CreatedPatch /\ patch.ctrl = ctrl /\ patch.newsize = new.size
          /\ patch.diff = db /\ patch.extra = eb /\ created = 0
      BY <1>6 DEF CorruptTriple, Handover, CreatedPatch
    <2>2. /\ cat \in 0..Len(ctrl) /\ ~(newpos >= new.size) /\ lastscan = new.size
          /\ newpos = marks[cat + 1].new /\ dat = marks[cat + 1].diff
          /\ eat = marks[cat + 1].extra
      BY <1>6, <2>1 DEF CorruptTriple, Filled, Follows, DiffInv, ScanInv
    <2>3. cat # Len(ctrl)
      <3>1. marks[Len(ctrl) + 1] = Mark
        BY DEF Chain
      <3>2. new.size \in Nat
        BY FileType DEF DiffInv, DiffTypeOK
      <3> QED
        BY <2>2, <3>1, <3>2 DEF Mark
    <2>4. Len(ctrl) \in Nat /\ ctrl \in Seq(Triple)
      BY LenProperties DEF DiffInv, DiffTypeOK
    <2>5. cat + 1 \in 1..Len(ctrl) /\ cat < Len(ctrl)
      BY <2>2, <2>3, <2>4
    <2> DEFINE m == marks[cat + 1]
               n == marks[cat + 2]
               t == ctrl[cat + 1]
    <2>6. TripleCovers(cat + 1) /\ cat + 1 + 1 = cat + 2
      BY <2>2, <2>4, <2>5 DEF Chain
    <2>7. /\ n.new = m.new + t.add + t.copy /\ n.diff = m.diff + t.add
          /\ n.extra = m.extra + t.copy
          /\ n.new <= new.size /\ n.diff <= Len(db) /\ n.extra <= Len(eb)
      BY <2>2, <2>6 DEF TripleCovers
    <2>8. m \in MarkType /\ t \in Triple
      <3>1. cat + 1 \in 1..Len(marks) /\ marks \in Seq(MarkType)
        BY <2>4, <2>5 DEF Chain
      <3> QED
        BY <2>4, <2>5, <3>1, ElementOfSeq
    <2>9. /\ m.new \in Nat /\ m.diff \in Nat /\ m.extra \in Nat
          /\ t.add \in Nat /\ t.copy \in Nat /\ new.size \in Nat
      BY <2>8, FileType DEF MarkType, Triple, DiffInv, DiffTypeOK
    <2>10. newpos = m.new /\ dat = m.diff /\ eat = m.extra
      BY <2>2
    <2> HIDE DEF m, n, t
    <2>11. /\ newpos + t.add + t.copy <= new.size /\ newpos + t.add <= new.size
           /\ t.add >= 0 /\ dat + t.add <= Len(db)
           /\ t.copy >= 0 /\ eat + t.copy <= Len(eb)
      BY <2>7, <2>9, <2>10
    <2>12. TripleGood(t)
      BY <2>1, <2>11 DEF TripleGood, CanRead
    <2> QED
      BY <1>6, <2>1, <2>3, <2>12 DEF CorruptTriple, t
  <1>7. CASE WriteNew
    <2>1. /\ apc = "triples" /\ apc' = "returned" /\ newpos >= patch.newsize
          /\ target' = [size |-> patch.newsize, data |-> out] /\ applied' = 0
          /\ UNCHANGED <<patch, src, oldpos, newpos, cat, dat, eat, out>>
      BY <1>7 DEF WriteNew, Filled, patchInput, progress
    <2>2. patch.newsize = new.size
      BY <2>1 DEF Handover, CreatedPatch
    <2>3. RoundTrip'
      <3> SUFFICES ASSUME src' = old' PROVE target' = new'
        BY DEF RoundTrip
      <3>1. /\ new = [size |-> new.size, data |-> new.data]
            /\ new.size \in Nat /\ new.data \in [0..(new.size - 1) -> Byte]
        BY FilesAssumption DEF DiffInv, DiffTypeOK
      <3>2. /\ out = [i \in 0..(new.size - 1) |-> out[i]]
            /\ \A i \in 0..(newpos - 1) : out[i] = new.data[i]
            /\ newpos = marks[cat + 1].new /\ cat \in 0..Len(ctrl)
        BY <1>1, <2>1 DEF Follows
      <3>3. newpos \in Nat
        <4>1. Len(marks) = Len(ctrl) + 1 /\ marks \in Seq(MarkType) /\ Len(ctrl) \in Nat
          BY LenProperties DEF Chain, DiffInv, DiffTypeOK
        <4>2. cat + 1 \in 1..Len(marks)
          BY <3>2, <4>1
        <4>3. marks[cat + 1] \in MarkType
          BY <4>1, <4>2, ElementOfSeq
        <4> QED
          BY <3>2, <4>3 DEF MarkType
      <3>4. \A i \in 0..(new.size - 1) : i \in 0..(newpos - 1)
        BY <2>1, <2>2, <3>1, <3>3
      <3>5. out = new.data
        BY <3>1, <3>2, <3>4
      <3> QED
        BY <1>1, <2>1, <2>2, <3>1, <3>5
    <2> QED
      BY <1>1, <2>1, <2>3 DEF Handover, Follows, NeverRefused
  <1>8. CASE WriteNewFails
    <2>1. /\ apc = "triples" /\ apc' = "returned" /\ applied' = 1
          /\ UNCHANGED <<patch, src, oldpos, newpos, cat, dat, eat>>
      BY <1>8 DEF WriteNewFails, patchInput, progress
    <2> QED
      BY <1>1, <2>1 DEF Handover, Follows, RoundTrip, NeverRefused
  <1> QED
    BY <1>2, <1>3, <1>4, <1>5, <1>6, <1>7, <1>8 DEF ApplyStep

\* The user applies the patch just created.
LEMMA ApplyCreatedKeeps ==
    ASSUME RTInv, ApplyCreated
    PROVE  RTInv'
  <1> USE DEF RTInv
  <1>1. /\ DiffInv' /\ Chain'
        /\ UNCHANGED <<old, new, created, pc, ctrl, db, eb, marks, CreatedPatch>>
    BY CreatorStill DEF ApplyCreated
  <1>2. PICK s \in Files : Begin(CreatedPatch, s)
    BY DEF ApplyCreated
  <1>3. /\ created = 0 /\ apc = "idle" /\ apc' = "header"
        /\ patch' = CreatedPatch /\ src' \in Files
        /\ UNCHANGED <<oldpos, newpos, cat, dat, eat, applied>>
    BY <1>2 DEF Begin, ApplyCreated, progress
  <1> QED
    BY <1>1, <1>3 DEF Handover, Follows, RoundTrip, NeverRefused, NoResult

LEMMA RTStart == Init => RTInv
  <1> SUFFICES ASSUME Init PROVE RTInv
    OBVIOUS
  <1>1. DiffInv
    BY DiffStart DEF Init
  <1>2. Chain
    <2>1. Mark \in MarkType /\ Mark = [new |-> 0, old |-> 0, diff |-> 0, extra |-> 0]
      BY EmptySeq DEF Init, DiffInit, Mark, MarkType
    <2>2. marks = <<Mark>> /\ Len(ctrl) = 0
      BY EmptySeq DEF Init, DiffInit
    <2> QED
      BY <2>1, <2>2 DEF Chain
  <1>3. Handover /\ Follows /\ RoundTrip /\ NeverRefused
    BY DEF Init, DiffInit, ApplyInit, Handover, Follows, RoundTrip, NeverRefused, NoResult
  <1> QED
    BY <1>1, <1>2, <1>3 DEF RTInv

LEMMA RTStep == RTInv /\ [Next]_vars => RTInv'
  <1> SUFFICES ASSUME RTInv, [Next]_vars PROVE RTInv'
    OBVIOUS
  <1>1. CASE Create
    BY <1>1, CreateKeeps
  <1>2. CASE ApplyCreated
    BY <1>2, ApplyCreatedKeeps
  <1>3. CASE ApplyOn
    BY <1>3, ApplyKeeps DEF ApplyOn
  <1>4. CASE UNCHANGED vars
    <2>1. UNCHANGED <<diffVars, marks>> /\ UNCHANGED applyVars
      BY <1>4 DEF vars
    <2>2. /\ DiffInv' /\ Chain'
          /\ UNCHANGED <<old, new, created, pc, ctrl, db, eb, marks, CreatedPatch>>
      BY <2>1, CreatorStill
    <2> QED
      BY <2>1, <2>2 DEF RTInv, Handover, Follows, RoundTrip, NeverRefused, applyVars,
                        patchInput, progress
  <1> QED
    BY <1>1, <1>2, <1>3, <1>4 DEF Next

\* The inductive invariant holds in every run of a creation and an application.
THEOREM RTInvariant == Spec => []RTInv
  BY RTStart, RTStep, PTL DEF Spec

\* bspatch_perform(bsdiff_perform(old, new), old) = new whenever it succeeds.
THEOREM RoundTripHolds == Spec => []RoundTrip
  <1>1. RTInv => RoundTrip
    BY DEF RTInv
  <1> QED
    BY <1>1, RTInvariant, PTL

\* bspatch_perform refuses no patch bsdiff_perform reported as created
\* (bspatch.c:146-178), whatever file it is applied to.
THEOREM NeverRefusedHolds == Spec => []NeverRefused
  <1>1. RTInv => NeverRefused
    BY DEF RTInv
  <1> QED
    BY <1>1, RTInvariant, PTL

-----------------------------------------------------------------------------
(* bspatch_perform on patches nobody made: for all patches and files.       *)

\* What a patch file and an old file are read as, whatever is in them.
IsPatch(p) ==
    /\ p.newsize \in Int
    /\ p.ctrl \in Seq([add : Int, copy : Int, seek : Int])
    /\ p.diff \in Seq(Byte) /\ p.extra \in Seq(Byte)

IsFile(f) == f.size \in Nat /\ f.data \in [0..(f.size - 1) -> Byte]

\* What has been read of the blocks and written of the new file.
Positions == newpos \in Nat /\ oldpos \in Int /\ cat \in Nat /\ dat \in Nat /\ eat \in Nat

\* The malloc'ed memory is filled up to newpos.
FilledUpTo ==
    /\ DOMAIN out = 0..(patch.newsize - 1)
    /\ \A i \in DOMAIN out : i < newpos => out[i] \in Byte

\* The output path is left alone until all of it is.
ApplyInv ==
    /\ apc \in {"idle", "header", "triples", "returned"}
    /\ IsPatch(patch) /\ IsFile(src) /\ Positions
    /\ apc \in {"idle", "header"} => newpos = 0
    /\ apc = "triples" => FilledUpTo
    /\ apc # "returned" => applied = NoResult /\ target = Untouched
    /\ NothingUninitialised
    /\ CorruptLeavesTarget

\* Both halves of the bytes a triple writes are bytes: the sum is taken modulo 256, and
\* a position outside of the old file counts as zero.
LEMMA SumIsByte ==
    ASSUME IsFile(src), NEW d \in Byte, NEW k \in Int
    PROVE  (d + OldByte(k)) % 256 \in Byte
  <1>1. OldByte(k) \in Byte
    <2>1. CASE k >= 0 /\ k < src.size
      <3>1. k \in 0..(src.size - 1)
        BY <2>1 DEF IsFile
      <3> QED
        BY <2>1, <3>1 DEF OldByte, IsFile
    <2>2. CASE ~(k >= 0 /\ k < src.size)
      BY <2>2 DEF OldByte, Byte
    <2> QED
      BY <2>1, <2>2
  <1>2. PICK x \in Nat : x = d + OldByte(k)
    BY <1>1 DEF Byte
  <1>3. x % 256 \in 0..255
    OBVIOUS
  <1> QED
    BY <1>2, <1>3 DEF Byte

\* A triple that passes the checks fills the memory from newpos on, and no byte before.
LEMMA TripleFills ==
    ASSUME ApplyInv, ApplyTriple
    PROVE  Positions' /\ FilledUpTo'
  <1> DEFINE t == patch.ctrl[cat + 1]
  <1>1. /\ apc = "triples" /\ cat < Len(patch.ctrl) /\ TripleGood(t)
        /\ out' = [i \in DOMAIN out |->
                     IF i < newpos \/ i >= newpos + t.add + t.copy THEN out[i]
                     ELSE IF i < newpos + t.add
                     THEN (patch.diff[dat + 1 + (i - newpos)]
                             + OldByte(oldpos + (i - newpos))) % 256
                     ELSE patch.extra[eat + 1 + (i - newpos - t.add)]]
        /\ newpos' = newpos + t.add + t.copy
        /\ oldpos' = oldpos + t.add + t.seek
        /\ cat' = cat + 1 /\ dat' = dat + t.add /\ eat' = eat + t.copy
        /\ patch' = patch
    BY DEF ApplyTriple, patchInput
  <1>2. Positions /\ IsPatch(patch) /\ IsFile(src) /\ FilledUpTo
    BY <1>1 DEF ApplyInv
  <1>3. t.add \in Nat /\ t.copy \in Nat /\ t.seek \in Int
    <2>1. t \in [add : Int, copy : Int, seek : Int]
      <3>1. cat + 1 \in 1..Len(patch.ctrl)
        <4>1. Len(patch.ctrl) \in Nat
          BY <1>2, LenProperties DEF IsPatch
        <4> QED
          BY <1>1, <1>2, <4>1 DEF Positions
      <3> QED
        BY <1>2, <3>1, ElementOfSeq DEF IsPatch
    <2>2. t.add >= 0 /\ t.copy >= 0
      BY <1>1 DEF TripleGood, CanRead
    <2> QED
      BY <2>1, <2>2
  <1>4. dat + t.add <= Len(patch.diff) /\ eat + t.copy <= Len(patch.extra)
    BY <1>1 DEF TripleGood, CanRead
  <1> HIDE DEF t
  <1>5. PICK a \in Nat, b \in Nat, z \in Int : a = t.add /\ b = t.copy /\ z = t.seek
    BY <1>3
  <1> DEFINE m == newpos + a
             e == newpos + a + b
  <1>6. /\ newpos \in Nat /\ oldpos \in Int /\ cat \in Nat /\ dat \in Nat /\ eat \in Nat
        /\ patch.newsize \in Int /\ DOMAIN out = 0..(patch.newsize - 1)
        /\ \A i \in DOMAIN out : i < newpos => out[i] \in Byte
        /\ Len(patch.diff) \in Nat /\ Len(patch.extra) \in Nat
        /\ dat + a <= Len(patch.diff) /\ eat + b <= Len(patch.extra)
        /\ m \in Nat /\ e \in Nat /\ newpos <= m /\ m <= e
    <2>1. Len(patch.diff) \in Nat /\ Len(patch.extra) \in Nat
      BY <1>2, LenProperties DEF IsPatch
    <2>2. /\ newpos \in Nat /\ oldpos \in Int /\ cat \in Nat /\ dat \in Nat /\ eat \in Nat
          /\ patch.newsize \in Int /\ DOMAIN out = 0..(patch.newsize - 1)
          /\ \A i \in DOMAIN out : i < newpos => out[i] \in Byte
      BY <1>2 DEF Positions, IsPatch, FilledUpTo
    <2>3. dat + a <= Len(patch.diff) /\ eat + b <= Len(patch.extra)
      BY <1>4, <1>5
    <2>4. m \in Nat /\ e \in Nat /\ newpos <= m /\ m <= e
      <3>1. newpos \in Nat
        BY <2>2
      <3> QED
        BY <3>1
    <2> QED
      BY <2>1, <2>2, <2>3, <2>4
  <1>7. /\ out' = [i \in DOMAIN out |->
                     IF i < newpos \/ i >= e THEN out[i]
                     ELSE IF i < m
                     THEN (patch.diff[dat + 1 + (i - newpos)]
                             + OldByte(oldpos + (i - newpos))) % 256
                     ELSE patch.extra[eat + 1 + (i - newpos - a)]]
        /\ newpos' = e /\ oldpos' = oldpos + a + z
        /\ cat' = cat + 1 /\ dat' = dat + a /\ eat' = eat + b
    BY <1>1, <1>5
  <1>8. ASSUME NEW i \in DOMAIN out, i < e
        PROVE  out'[i] \in Byte
    <2>1. i \in Int
      BY <1>6
    <2>2. CASE i < newpos
      BY <1>6, <1>7, <2>2
    <2>3. CASE ~(i < newpos) /\ i < m
      <3>1. dat + 1 + (i - newpos) \in 1..Len(patch.diff)
        BY <1>6, <2>1, <2>3
      <3>2. patch.diff[dat + 1 + (i - newpos)] \in Byte
        BY <1>2, <3>1, ElementOfSeq DEF IsPatch
      <3>3. oldpos + (i - newpos) \in Int
        BY <1>6, <2>1
      <3>4. out'[i] = (patch.diff[dat + 1 + (i - newpos)] + OldByte(oldpos + (i - newpos))) % 256
        BY <1>6, <1>7, <1>8, <2>1, <2>3
      <3> QED
        BY <1>2, <3>2, <3>3, <3>4, SumIsByte
    <2>4. CASE ~(i < newpos) /\ ~(i < m)
      <3>1. eat + 1 + (i - newpos - a) \in 1..Len(patch.extra)
        BY <1>6, <1>8, <2>1, <2>4
      <3>2. patch.extra[eat + 1 + (i - newpos - a)] \in Byte
        BY <1>2, <3>1, ElementOfSeq DEF IsPatch
      <3>3. out'[i] = patch.extra[eat + 1 + (i - newpos - a)]
        BY <1>6, <1>7, <1>8, <2>1, <2>4
      <3> QED
        BY <3>2, <3>3
    <2> QED
      BY <2>2, <2>3, <2>4
  <1>9. Positions'
    BY <1>6, <1>7 DEF Positions
  <1>10. FilledUpTo'
    BY <1>1, <1>6, <1>7, <1>8 DEF FilledUpTo
  <1> QED
    BY <1>9, <1>10

LEMMA ApplyStart == ApplyInit => ApplyInv
  <1>1. NoPatch.newsize = 0 /\ NoPatch.ctrl = <<>> /\ NoPatch.diff = <<>> /\ NoPatch.extra = <<>>
    BY DEF NoPatch
  <1>2. IsPatch(NoPatch)
    BY <1>1, EmptySeq DEF IsPatch
  <1>3. IsFile(NoSource)
    <2>1. NoSource.size = 0 /\ NoSource.data = [i \in {} |-> 0] /\ 0..(0 - 1) = {}
      BY DEF NoSource
    <2>2. [i \in {} |-> 0] \in [{} -> Byte]
      OBVIOUS
    <2> QED
      BY <2>1, <2>2 DEF IsFile
  <1> QED
    BY <1>2, <1>3 DEF ApplyInit, ApplyInv, Positions, NothingUninitialised,
                      CorruptLeavesTarget, NoResult

LEMMA ApplyKeepsInv == ApplyInv /\ [ApplyNext]_applyVars => ApplyInv'
  <1> SUFFICES ASSUME ApplyInv, [ApplyNext]_applyVars PROVE ApplyInv'
    OBVIOUS
  <1> USE DEF ApplyInv
  <1>1. CASE Apply
    <2>1. PICK p \in Patches, s \in Files : apc = "idle" /\ Begin(p, s)
      BY <1>1 DEF Apply
    <2>2. IsPatch(p) /\ IsFile(s)
      BY PatchesAssumption, FilesAssumption DEF IsPatch, IsFile
    <2> QED
      BY <2>1, <2>2 DEF Begin, progress, Positions, NothingUninitialised,
                        CorruptLeavesTarget, NoResult
  <1>2. CASE ReadHeader
    <2>1. /\ patch' = patch /\ newpos' = newpos
          /\ out' = [i \in 0..(patch.newsize - 1) |-> Unset] /\ newpos = 0
      BY <1>2 DEF ReadHeader, patchInput
    <2>2. FilledUpTo'
      BY <2>1 DEF FilledUpTo, IsPatch
    <2> QED
      BY <1>2, <2>2 DEF ReadHeader, patchInput, Positions, NothingUninitialised,
                        CorruptLeavesTarget, NoResult
  <1>3. CASE BadHeader \/ ReadFails \/ NoMemory
    BY <1>3 DEF BadHeader, ReadFails, NoMemory, Return, patchInput, progress, Positions,
                Exited, NothingUninitialised, CorruptLeavesTarget
  <1>4. CASE ApplyTriple
    <2>1. Positions' /\ FilledUpTo'
      BY <1>4, TripleFills
    <2> QED
      BY <1>4, <2>1 DEF ApplyTriple, patchInput, NothingUninitialised, CorruptLeavesTarget,
                        NoResult
  <1>5. CASE CorruptTriple
    BY <1>5 DEF CorruptTriple, Return, patchInput, progress, Positions,
                NothingUninitialised, CorruptLeavesTarget
  <1>6. CASE WriteNew
    <2>1. /\ FilledUpTo /\ newpos >= patch.newsize /\ applied' = 0
          /\ target' = [size |-> patch.newsize, data |-> out]
      BY <1>6 DEF WriteNew, Filled
    <2>2. ASSUME NEW i \in DOMAIN out PROVE out[i] # Unset
      <3>1. i \in 0..(patch.newsize - 1) /\ patch.newsize \in Int /\ newpos \in Nat
        BY <2>1 DEF FilledUpTo, IsPatch, Positions
      <3>2. i < newpos
        BY <2>1, <3>1
      <3>3. out[i] \in Byte
        BY <2>1, <3>2 DEF FilledUpTo
      <3> QED
        BY <3>3 DEF Unset, Byte
    <2>3. NothingUninitialised' /\ CorruptLeavesTarget'
      BY <2>1, <2>2 DEF NothingUninitialised, CorruptLeavesTarget
    <2> QED
      BY <1>6, <2>3 DEF WriteNew, patchInput, progress, Positions
  <1>7. CASE WriteNewFails
    BY <1>7 DEF WriteNewFails, patchInput, progress, Positions, NothingUninitialised,
                CorruptLeavesTarget
  <1>8. CASE UNCHANGED applyVars
    BY <1>8 DEF applyVars, patchInput, progress, Positions, FilledUpTo,
                NothingUninitialised, CorruptLeavesTarget
  <1> QED
    BY <1>1, <1>2, <1>3, <1>4, <1>5, <1>6, <1>7, <1>8 DEF ApplyNext, ApplyStep

\* Whatever triples a patch has, the memory is filled from its start, in order, and the
\* output is not touched before it is full.
THEOREM ApplyInvariant == ApplySpec => []ApplyInv
  BY ApplyStart, ApplyKeepsInv, PTL DEF ApplySpec

\* No byte of memory that the patch did not fill gets into a file (bspatch.c:156, 175).
THEOREM NothingUninitialisedHolds == ApplySpec => []NothingUninitialised
  <1>1. ApplyInv => NothingUninitialised
    BY DEF ApplyInv
  <1> QED
    BY <1>1, ApplyInvariant, PTL

\* A patch that is found corrupt has left the file at the output path alone.
THEOREM CorruptLeavesTargetHolds == ApplySpec => []CorruptLeavesTarget
  <1>1. ApplyInv => CorruptLeavesTarget
    BY DEF ApplyInv
  <1> QED
    BY <1>1, ApplyInvariant, PTL
=============================================================================
