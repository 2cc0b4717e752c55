--------------------------- MODULE MCPPFRoundTrip ---------------------------
(* Files of at most MaxSize bytes of two values; with and without undo data,
   validation block and file_id.diz. *)
EXTENDS PPFRoundTrip
CONSTANT MaxSize

MCFiles == UNION {[size : {n}, data : [0..(n - 1) -> {0, 1}]] : n \in 0..MaxSize}
MCBlockAt == [t \in 0..1 |-> 1 + t]
MCArgs ==
    {[undo |-> 0, blockcheck |-> 1, imagetype |-> 0, fileid |-> NoFileId],
     [undo |-> 1, blockcheck |-> 0, imagetype |-> 1, fileid |-> 3],
     [undo |-> 1, blockcheck |-> 1, imagetype |-> 0, fileid |-> NoFileId]}
=============================================================================
