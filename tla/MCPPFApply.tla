---------------------------- MODULE MCPPFApply ----------------------------
(* Patches of every version: without records, overlapping records in both
   orders, a record behind the end, records whose offset is negative; torn; with
   and without undo data, validation block and file_id.diz. *)
EXTENDS PPFApply

MCFiles == {[size |-> n, data |-> [j \in 0..(n - 1) |-> (j + 1) % 2]] : n \in {1, 3}}
MCBlockAt == [t \in 0..1 |-> t]

Rec(at, n, b) == [offset |-> at, data |-> [j \in 1..n |-> (j + b) % 2], old |-> [j \in 1..n |-> 1]]
RecordLists == {<<>>, <<Rec(0, 2, 0), Rec(1, 2, 0)>>, <<Rec(1, 1, 1), Rec(0, 2, 1), Rec(3, 1, 0)>>,
                <<Rec(-1, 1, 0), Rec(1, 1, 1), Rec(-2, 2, 0)>>}
Blocks == {[j \in Block |-> (j + b) % 2] : b \in 0..1}
Kinds == {<<1, 0, 0, 0>>, <<2, 0, 0, 0>>, <<3, 0, 0, 1>>, <<3, 1, 1, 0>>}

MCPatches ==
    {p \in {[version |-> k[1], imagetype |-> k[2], blockcheck |-> k[3], undo |-> k[4],
             block |-> b, binlen |-> 3, records |-> rs, fileid |-> id, torn |-> t] :
               k \in Kinds, b \in Blocks, rs \in RecordLists, id \in {NoFileId, 0, 2}, t \in 0..1} :
       /\ p.version = 1 => p.fileid = NoFileId
       /\ p.torn = 1 => p.fileid = NoFileId /\ p.records # <<>>
       /\ ~Placeable(p) => p.torn = 0 /\ p.fileid \in {NoFileId, 2}}
    \cup {NoPatch}
=============================================================================
