------------------------------ MODULE MCXDMain ------------------------------
(* Commands for XDMain.  The source buffer is 4 bytes, one block or two of 2: *)
(* sources shorter than it, of just its length and longer, regular files,    *)
(* pipes, files whose seeks fail, and files that can be read only in part.   *)
EXTENDS XDMain

File(length, regular, seeks, good) ==
    [length |-> length, regular |-> regular, seeks |-> seeks, good |-> good]
Good(length) == File(length, TRUE, TRUE, length)

Sources ==
    {File(n, r, s, n) : n \in {1, 4, 5, 9}, r \in BOOLEAN, s \in BOOLEAN} \cup
    {File(n, r, r, g) : n \in {4, 9}, r \in BOOLEAN, g \in {0, 2, 6}}

Decode(i, p, s, sn, on, nm, f, e) ==
    [cmd |-> "decode", input |-> i, parts |-> p, source |-> s, sname |-> sn, oname |-> on,
     named |-> nm, force |-> f, exists |-> e]
Encode(i, s, sn, f, e) ==
    [cmd |-> "encode", input |-> i, parts |-> <<>>, source |-> s, sname |-> sn,
     oname |-> "given", named |-> "none", force |-> f, exists |-> e]

\* Any source, read through a window or two.
Reading ==
    {Decode(Good(3), <<1, 2>>, s, "given", "given", "none", FALSE, FALSE) : s \in Sources} \cup
    {Encode(Good(3), s, "given", FALSE, FALSE) : s \in Sources}

\* Any patch, whole, cut or with a bad spot, and any input to encode.
Patches == {<<1>>, <<1, 1>>, <<1, 3, 2>>, <<2, 2>>, <<1, 1, 2, 3>>}
Looping ==
    UNION {{Decode(File(n, TRUE, TRUE, g), p, Good(1), "given", "given", "none", FALSE, FALSE) :
              n \in 0..Total(p), g \in {Total(p), 2, 3}} : p \in Patches} \cup
    {Encode(File(n, TRUE, TRUE, g), Good(1), s, FALSE, FALSE) :
        n \in 0..8, g \in {9, 1, 2, 6}, s \in {"none", "given"}}

\* Any names and options.
Naming ==
    {Decode(Good(4), <<1, 1, 2>>, s, sn, on, nm, f, e) :
        s \in {Good(3), File(5, FALSE, FALSE, 1)}, sn \in {"none", "given"},
        on \in {"none", "given"}, nm \in {"none", "output", "both"},
        f \in BOOLEAN, e \in BOOLEAN} \cup
    {Encode(Good(2), Good(3), "given", f, e) : f \in BOOLEAN, e \in BOOLEAN}

MCCases == Reading \cup Looping \cup Naming
=============================================================================
