--------------------------- MODULE MCBSRoundTrip ---------------------------
(* Every short file over two bytes; and a longer file with what an editor
   makes of it: a byte changed, a block moved, bytes inserted and deleted. *)
EXTENDS BSRoundTrip
CONSTANTS MaxSize, Bytes

Short == UNION {[size : {n}, data : [0..(n - 1) -> Bytes]] : n \in 0..MaxSize}

File(s) == [size |-> Len(s), data |-> [i \in 0..(Len(s) - 1) |-> s[i + 1]]]
Run(a, b) == [i \in 1..(b - a + 1) |-> a + i - 1]

Long == {File(s) : s \in {
    Run(1, 24),
    Run(1, 11) \o <<0>> \o Run(13, 24),
    Run(13, 24) \o Run(1, 12),
    Run(1, 12) \o <<255, 255>> \o Run(13, 24),
    Run(1, 6) \o Run(15, 24) \o Run(1, 3) \o <<7>>,
    Run(5, 9) \o Run(5, 9) \o Run(5, 9) \o Run(5, 9)}}

MCFiles == Short \cup Long
=============================================================================
