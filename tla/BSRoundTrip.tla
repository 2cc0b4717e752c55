---------------------------- MODULE BSRoundTrip ----------------------------
(***************************************************************************)
(* A BSDIFF40 patch is created by bsdiff_perform and then applied by       *)
(* bspatch_perform, to the file it was made from or to another one: what   *)
(* the two functions owe each other, though they share no code.            *)
(*                                                                         *)
(* marks is auxiliary: where each triple starts in the new file, the old   *)
(* file, the diff block and the extra block, when it is written.           *)
(***************************************************************************)
EXTENDS BSDiff, BSPatch

VARIABLES marks

vars == <<diffVars, applyVars, marks>>

Mark == [new |-> lastscan, old |-> lastpos, diff |-> Len(db), extra |-> Len(eb)]

\* The patch file bsdiff_perform has written.
CreatedPatch == [magic |-> TRUE, newsize |-> new.size, ctrl |-> ctrl, diff |-> db, extra |-> eb]

Init == DiffInit /\ ApplyInit /\ marks = <<Mark>>

Create ==
    /\ DiffNext
    /\ marks' = IF ctrl' # ctrl THEN Append(marks, Mark') ELSE marks
    /\ UNCHANGED applyVars

\* The user applies the patch just created to the old file or to a wrong one.
ApplyCreated ==
    /\ created = 0 /\ apc = "idle"
    /\ \E s \in Files : Begin(CreatedPatch, s)
    /\ UNCHANGED <<diffVars, marks>>

ApplyOn == ApplyStep /\ UNCHANGED <<diffVars, marks>>

Next == Create \/ ApplyCreated \/ ApplyOn

Spec == Init /\ [][Next]_vars /\ WF_vars(Create)

-----------------------------------------------------------------------------
\* The promise of the format: a patch created from old and new and applied to
\* old, successfully, gives new, byte for byte.
RoundTrip == applied = 0 /\ src = old => target = new

\* A patch bsdiff_perform reported as created is never refused as corrupt by
\* bspatch_perform (bspatch.c:146-178), whatever file it is applied to.
NeverRefused == applied # 2

\* The chain of triples: each starts where the one before it ended, in all
\* four of new, old, diff and extra block, and carries the bytes of new that
\* it covers.  The inductive reason for both.
TripleCovers(k) ==
    LET m == marks[k]
        n == marks[k + 1]
        t == ctrl[k]
    IN  /\ n.new = m.new + t.add + t.copy
        /\ n.old = m.old + t.add + t.seek
        /\ n.diff = m.diff + t.add
        /\ n.extra = m.extra + t.copy
        /\ m.old + t.add <= old.size
        /\ n.new <= lastscan /\ n.diff <= Len(db) /\ n.extra <= Len(eb)
        /\ \A i \in 0..(t.add - 1) :
              (db[m.diff + 1 + i] + old.data[m.old + i]) % 256 = new.data[m.new + i]
        /\ \A i \in 0..(t.copy - 1) :
              eb[m.extra + 1 + i] = new.data[m.new + t.add + i]

MarkType == [new : Nat, old : Nat, diff : Nat, extra : Nat]

Chain ==
    /\ marks \in Seq(MarkType)
    /\ Len(marks) = Len(ctrl) + 1
    /\ marks[1] = [new |-> 0, old |-> 0, diff |-> 0, extra |-> 0]
    /\ marks[Len(marks)] = Mark
    /\ \A k \in 1..Len(ctrl) : TripleCovers(k)

\* Only a patch that was reported as created is applied, and nothing of it
\* changes any more.
Handover ==
    /\ apc \in {"idle", "header", "triples", "returned"}
    /\ apc # "idle" => /\ created = 0 /\ pc = "done"
                       /\ patch = CreatedPatch /\ src \in Files
    /\ apc \in {"idle", "header"} =>
          newpos = 0 /\ oldpos = 0 /\ cat = 0 /\ dat = 0 /\ eat = 0
    /\ apc # "returned" => applied = NoResult
    /\ created = 0 => pc = "done"

\* bspatch_perform follows the same chain: before its k-th turn it stands at
\* the k-th mark, and what it has rebuilt so far is new.
Follows ==
    apc = "triples" =>
        LET m == marks[cat + 1]
        IN  /\ cat \in 0..Len(ctrl)
            /\ newpos = m.new /\ oldpos = m.old /\ dat = m.diff /\ eat = m.extra
            /\ out = [i \in 0..(new.size - 1) |-> out[i]]
            /\ src = old => \A i \in 0..(newpos - 1) : out[i] = new.data[i]
=============================================================================
