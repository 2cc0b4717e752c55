------------------------------- MODULE XDFGK -------------------------------
(***************************************************************************)
(* The adaptive Huffman coder of a section (xdelta3-fgk.h), as it is kept  *)
(* from one section to the next.  Nodes are numbers, the symbols first;    *)
(* the nodes of one weight form a block, whose leader is its rightmost.    *)
(* Symbols not seen yet are a list behind one leaf of weight zero.         *)
(***************************************************************************)
EXTENDS Integers, Sequences, FiniteSets, SequencesExt

CONSTANT ASize      \* ALPHABET_SIZE

TotalNodes == 2 * ASize - 1
TotalBlocks == 2 * TotalNodes
Nodes == 0..(TotalNodes - 1)
Nil == -1
None == [x \in Nodes |-> Nil]

\* fgk_factor_remaining: the number of zeros as a power of two and a rest.
Exp(count) == CHOOSE e \in 0..count : 2 ^ e <= count /\ count < 2 ^ (e + 1)
ZeroBits(count) == IF count = 2 ^ Exp(count) THEN Exp(count) ELSE Exp(count) + 1

FgkInit ==
    [root |-> 0, unused |-> ASize, zeros |-> 0, zcount |-> ASize,
     weight |-> [x \in Nodes |-> 0],
     parent |-> None, left |-> None, right |-> None,
     lchild |-> [x \in Nodes |-> IF x \in 1..(ASize - 1) THEN x - 1 ELSE Nil],
     rchild |-> [x \in Nodes |-> IF x \in 0..(ASize - 2) THEN x + 1 ELSE Nil],
     block |-> None, leader |-> [b \in 1..TotalBlocks |-> Nil],
     free |-> [i \in 1..TotalBlocks |-> i]]

-----------------------------------------------------------------------------
(* Blocks *)

MakeBlock(h, lead) ==
    [h EXCEPT !.block[lead] = Head(h.free), !.leader[Head(h.free)] = lead,
              !.free = Tail(@)]

FreeBlock(h, b) == [h EXCEPT !.free = <<b>> \o @]

Join(h, x, next) == [h EXCEPT !.block[x] = h.block[next]]

\* A node about to weigh one joins the block of the weight or begins it.
JoinOnes(h, x) ==
    IF h.weight[h.right[x]] = 1 THEN Join(h, x, h.right[x]) ELSE MakeBlock(h, x)

-----------------------------------------------------------------------------
(* fgk_update_tree: the path of a symbol to the root, one heavier *)

\* A slip: a node beside the root joins the block of the root.
AtNextWeightOfRoot(h, x) == h.weight[x] = h.weight[h.right[x]] - 1

\* The node changes places with the leader of its block.
MoveRight(h, x) ==
    LET lead == h.leader[h.block[x]]
        other(y) == IF y = x THEN lead ELSE IF y = lead THEN x ELSE y
    IN  IF lead = x \/ h.parent[x] = lead \/ h.weight[x] = 0 THEN h
        ELSE [h EXCEPT !.right = [y \in Nodes |-> other(h.right[other(y)])],
                       !.left = [y \in Nodes |-> other(h.left[other(y)])],
                       !.parent[x] = h.parent[lead], !.parent[lead] = h.parent[x],
                       !.lchild = [y \in Nodes |-> other(h.lchild[y])],
                       !.rchild = [y \in Nodes |-> other(h.rchild[y])],
                       !.leader[h.block[x]] = x]

AtNextWeight(h, x) ==
    h.weight[x] = h.weight[h.right[x]] - 1 /\ h.right[x] # h.root

\* The leader leaves its block for the next.  The parent of the zeros takes the
\* sibling of the zeros along.
Promote(h, x) ==
    LET l == h.left[x]
        cur == h.block[x]
        zerosParent == /\ l = h.rchild[x] /\ h.lchild[x] # Nil
                       /\ h.weight[h.lchild[x]] = 0
        out == IF h.block[l] = cur THEN [h EXCEPT !.leader[cur] = l] ELSE FreeBlock(h, cur)
    IN  IF h.weight[x] = 0 THEN h
        ELSE IF zerosParent
        THEN IF AtNextWeight(h, x)
             THEN Join(Join(FreeBlock(h, cur), x, h.right[x]), l, h.right[x])
             ELSE h
        ELSE IF l = h.zeros THEN h
        ELSE IF AtNextWeight(h, x) THEN Join(out, x, h.right[x])
        ELSE MakeBlock(out, x)

\* fgk_eliminate_zero: n is taken out of the list of the zeros.
EliminateZero(h, n) ==
    LET prev == h.lchild[n]
        next == h.rchild[n]
        m == [h EXCEPT !.zcount = @ - 1]
    IN  IF prev = Nil THEN [m EXCEPT !.zeros = h.rchild[h.zeros],
                                     !.lchild[h.rchild[h.zeros]] = Nil]
        ELSE IF next = Nil THEN [m EXCEPT !.rchild[prev] = Nil]
        ELSE [m EXCEPT !.lchild[next] = prev, !.rchild[prev] = next]

\* The first time of n: a new inner node takes the place of the zeros, with the
\* rest of them as its left child and n as its right.
IncreaseZero(h, n) ==
    LET z == h.zeros
        new == h.unused
        top == h.parent[z]
        begun == [h EXCEPT !.unused = @ + 1, !.parent[new] = top,
                           !.right[new] = h.right[z], !.rchild[new] = n, !.left[new] = n]
        hung == IF h.rchild[top] = z THEN [begun EXCEPT !.rchild[top] = new]
                                     ELSE [begun EXCEPT !.lchild[top] = new]
        placed == IF z = h.root
                  THEN MakeBlock(MakeBlock([begun EXCEPT !.root = new], n), new)
                  ELSE LET m == JoinOnes([hung EXCEPT !.left[h.right[z]] = new], new)
                       IN  Join(m, n, new)
        rest == EliminateZero(placed, n)
    IN  IF h.zcount = 1
        THEN JoinOnes([h EXCEPT !.rchild[n] = Nil, !.zeros = Nil], n)
        ELSE [rest EXCEPT !.lchild[new] = rest.zeros,
                          !.right[n] = new, !.left[n] = rest.zeros, !.parent[n] = new,
                          !.lchild[n] = Nil, !.rchild[n] = Nil,
                          !.parent[rest.zeros] = new, !.right[rest.zeros] = n]

Heavier(h, x) == [Promote(MoveRight(h, x), x) EXCEPT !.weight[x] = @ + 1]

RECURSIVE Climb(_, _)
Climb(h, x) ==
    IF x = h.root THEN [h EXCEPT !.weight[x] = @ + 1]
    ELSE LET m == Heavier(h, x) IN Climb(m, m.parent[x])

UpdateTree(h, n) == Climb(IF h.weight[n] = 0 THEN IncreaseZero(h, n) ELSE h, n)

-----------------------------------------------------------------------------
(* The encoder *)

BitsOf(n, v) == [i \in 1..n |-> (v \div 2 ^ (n - i)) % 2]

RECURSIVE Path(_, _)
Path(h, x) ==
    IF x = h.root THEN <<>>
    ELSE Append(Path(h, h.parent[x]), IF h.rchild[h.parent[x]] = x THEN 1 ELSE 0)

RECURSIVE ZeroIndex(_, _, _)
ZeroIndex(h, x, n) == IF x = n THEN 0 ELSE 1 + ZeroIndex(h, h.rchild[x], n)

\* fgk_encode_data: the path of the symbol, or that of the zeros and its index.
CodeOf(h, n) ==
    IF h.weight[n] # 0 THEN Path(h, n)
    ELSE Path(h, h.zeros) \o BitsOf(ZeroBits(h.zcount), ZeroIndex(h, h.zeros, n))

\* xd3_encode_fgk, without the padding of the last byte.
FgkEncoded(h, section) ==
    FoldLeft(LAMBDA st, n : [h |-> UpdateTree(st.h, n), bits |-> st.bits \o CodeOf(st.h, n)],
             [h |-> h, bits |-> <<>>], section)

-----------------------------------------------------------------------------
(* The decoder *)

RECURSIVE NthZero(_, _, _)
NthZero(h, x, n) ==
    IF n = 0 \/ h.rchild[x] = Nil THEN x ELSE NthZero(h, h.rchild[x], n - 1)

\* fgk_decode_bit: one bit down the tree, or one more bit of an index.
DecodeBit(h, st, b) ==
    LET x == IF b = 1 THEN h.rchild[st.ptr] ELSE h.lchild[st.ptr]
    IN  IF h.weight[st.ptr] = 0
        THEN [ptr |-> st.ptr, index |-> Append(st.index, b),
              done |-> Len(st.index) + 1 >= ZeroBits(h.zcount)]
        ELSE [ptr |-> x, index |-> st.index,
              done |-> h.lchild[x] = Nil /\ (h.weight[x] # 0 \/ h.zcount = 1)]

\* fgk_decode_data
Element(h, st) ==
    IF h.weight[st.ptr] # 0 THEN st.ptr
    ELSE NthZero(h, h.zeros, FoldLeft(LAMBDA v, b : 2 * v + b, 0, st.index))

\* xd3_decode_fgk: bits until there are size symbols, whole bytes of them.
FgkDecoded(h, bits, size) ==
    LET start(m) == [ptr |-> m.root, index |-> <<>>, done |-> FALSE]
        bit(st, b) ==
            LET next == DecodeBit(st.h, st.at, b)
                elt == Element(st.h, next)
                after == UpdateTree(st.h, elt)
            IN  IF Len(st.out) = size THEN st
                ELSE IF ~next.done THEN [st EXCEPT !.at = next, !.used = @ + 1]
                ELSE [h |-> after, at |-> start(after), used |-> st.used + 1,
                      out |-> Append(st.out, elt)]
        end == FoldLeft(bit, [h |-> h, at |-> start(h), used |-> 0, out |-> <<>>], bits)
    IN  [h |-> end.h, out |-> end.out, p |-> end.used, ok |-> Len(end.out) = size]
=============================================================================
