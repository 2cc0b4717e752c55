----------------------------- MODULE MCBSPatch -----------------------------
(* Every patch of at most MaxTriples triples over small, also negative, fields. *)
EXTENDS BSPatch, SequencesExt
CONSTANTS MaxTriples, MaxBlock

Lengths == -1..2
Seeks == {-1, 1}
NewSizes == -1..2

Triples == [add : Lengths, copy : Lengths, seek : Seeks]
Blocks == {[i \in 1..n |-> i] : n \in 0..MaxBlock}

MCPatches ==
    [magic : {TRUE}, newsize : NewSizes, ctrl : BoundedSeq(Triples, MaxTriples),
     diff : Blocks, extra : Blocks]
    \cup {[NoPatch EXCEPT !.newsize = 1]}

MCFiles == {[size |-> n, data |-> [i \in 0..(n - 1) |-> 255]] : n \in {0, 2}}
=============================================================================
