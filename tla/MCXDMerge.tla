----------------------------- MODULE MCXDMerge -----------------------------
(* Chains of up to three deltas of up to two windows: copies of the source *)
(* and of the window, copies that read what they write, and windows that   *)
(* copy from before, across and behind what the delta before them wrote.   *)
EXTENDS XDMerge

MCSource == <<1, 2, 3>>

Add(n)      == [type |-> "add", size |-> n, addr |-> 0, data |-> [i \in 1..n |-> 10 * n + i]]
Run(n)      == [type |-> "run", size |-> n, addr |-> 0, data |-> <<9>>]
Copy(n, at) == [type |-> "cpy", size |-> n, addr |-> at, data |-> <<>>]
Win(off, len, sum, insts) == [cpyoff |-> off, cpylen |-> len, sum |-> sum, insts |-> insts]

MCWindows ==
    << {Win(1, 2, 1, <<Copy(2, 0)>>),           Win(1, 2, 2, <<Add(2), Copy(1, 1)>>),
        Win(1, 2, 3, <<Copy(1, 0), Copy(3, 2)>>), Win(0, 3, 4, <<Run(2), Copy(2, 1), Copy(2, 4)>>),
        Win(1, 2, 5, <<Copy(2, 0), Copy(1, 3)>>), Win(0, 0, 6, <<Add(1), Copy(2, 0)>>)},
       {Win(1, 3, 7, <<Copy(3, 0)>>),           Win(1, 3, 8, <<Copy(2, 1), Copy(2, 0)>>),
        Win(0, 2, 9, <<Add(1), Copy(2, 0), Add(2)>>), Win(1, 2, 10, <<Run(2), Copy(3, 3)>>),
        Win(0, 5, 11, <<Copy(1, 4), Copy(4, 5), Copy(5, 0)>>),
        Win(4, 2, 12, <<Copy(2, 0), Add(1)>>),  Win(0, 0, 13, <<Add(2), Copy(1, 0)>>)},
       {Win(1, 2, 14, <<Copy(2, 0), Copy(2, 3)>>), Win(0, 3, 15, <<Copy(3, 0)>>),
        Win(2, 1, 16, <<Add(1), Copy(1, 0)>>)} >>
MCMaxWindows == <<2, 2, 1>>
=============================================================================
