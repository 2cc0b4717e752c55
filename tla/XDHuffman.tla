----------------------------- MODULE XDHuffman -----------------------------
(***************************************************************************)
(* The Huffman coder of a section (xdelta3-djw.h): prefix codes limited in *)
(* length, written as move-to-front and run codes, one table for the whole *)
(* section or several of them with a selector per sector.  A section is a  *)
(* sequence of symbols, its code a sequence of bits; a table is a function *)
(* from the symbols to the lengths of their codes, zero for none.          *)
(*                                                                         *)
(* Only TLC's runs use this module: it declares RECURSIVE operators.       *)
(***************************************************************************)
EXTENDS Integers, Sequences, FiniteSets, SequencesExt

CONSTANTS ASize,          \* ALPHABET_SIZE
          Basic, Extra,   \* djw_encode_12basic, djw_encode_12extra
          ExtraCodeBits,  \* DJW_EXTRA_CODE_BITS
          ClcLenBits,     \* DJW_CLCLEN_BITS
          GbcLenBits,     \* DJW_GBCLEN_BITS
          GroupBits,      \* DJW_GROUP_BITS
          SectorMult, SectorBits,
          MaxIter, MinImprovement, EfficiencyBits,
          Thousand        \* the unit of the sizes the numbers of groups go by

MaxCodeLen == Len(Basic) + Len(Extra)
RunCodes == 2
TotalCodes == MaxCodeLen + RunCodes
MaxGroups == 2 ^ GroupBits
SectorMax == (2 ^ SectorBits) * SectorMult

ASSUME CodeLengths ==
    /\ {Basic[i] : i \in DOMAIN Basic} \cup {Extra[i] : i \in DOMAIN Extra} = 1..MaxCodeLen
    /\ Len(Extra) < 2 ^ ExtraCodeBits
    /\ ASize > 1 /\ ASize <= 2 ^ MaxCodeLen
    /\ TotalCodes < 2 ^ (2 ^ ClcLenBits - 1)

Symbols == 0..(ASize - 1)
Total(f) == MapThenSumSet(LAMBDA s : f[s], DOMAIN f)
Count(seq, syms) == [s \in syms |-> Cardinality({i \in DOMAIN seq : seq[i] = s})]
Highest(S) == CHOOSE x \in S : \A y \in S : y <= x
Lowest(S) == CHOOSE x \in S : \A y \in S : x <= y

-----------------------------------------------------------------------------
(* The heap of subtrees: less by frequency, then by depth. *)

Less(a, b) == a.freq < b.freq \/ (a.freq = b.freq /\ a.depth < b.depth)

RECURSIVE Rise(_, _, _, _)
Rise(heap, ents, p, e) ==
    IF p = 1 \/ ~Less(ents[e], ents[heap[p \div 2]])
    THEN [heap EXCEPT ![p] = e]
    ELSE Rise([heap EXCEPT ![p] = heap[p \div 2]], ents, p \div 2, e)

HeapInsert(heap, ents, e) == Rise(Append(heap, e), ents, Len(heap) + 1, e)

RECURSIVE Sink(_, _, _)
Sink(heap, ents, p) ==
    LET kids == {c \in {2 * p, 2 * p + 1} : c <= Len(heap)}
        c == IF 2 * p + 1 \in kids /\ Less(ents[heap[2 * p + 1]], ents[heap[2 * p]])
             THEN 2 * p + 1 ELSE 2 * p
    IN  IF kids = {} \/ ~Less(ents[heap[c]], ents[heap[p]])
        THEN heap
        ELSE Sink([heap EXCEPT ![p] = heap[c], ![c] = heap[p]], ents, c)

\* What is left of the heap once its first entry is taken.
HeapExtract(heap, ents) ==
    IF Len(heap) = 1 THEN <<>>
    ELSE Sink(SubSeq([heap EXCEPT ![1] = heap[Len(heap)]], 1, Len(heap) - 1), ents, 1)

-----------------------------------------------------------------------------
(* djw_build_prefix, djw_build_codes *)

RECURSIVE Grow(_, _)
Grow(heap, ents) ==
    IF Len(heap) = 1 THEN ents
    ELSE LET one == HeapExtract(heap, ents)
             two == HeapExtract(one, ents)
             a == ents[heap[1]]
             b == ents[one[1]]
             new == Len(ents) + 1
             node == [freq |-> a.freq + b.freq, parent |-> 0,
                      depth |-> 1 + (IF a.depth > b.depth THEN a.depth ELSE b.depth)]
             grown == [Append(ents, node) EXCEPT ![heap[1]].parent = new,
                                                 ![one[1]].parent = new]
         IN  Grow(HeapInsert(two, grown, new), grown)

RECURSIVE Parents(_, _)
Parents(ents, p) == IF ents[p].parent = 0 THEN 0 ELSE 1 + Parents(ents, ents[p].parent)

\* The lengths for the weights w; a code too long halves all the weights, the
\* zeros with them, and starts again.
RECURSIVE Limited(_, _, _, _)
Limited(w, first, n, maxlen) ==
    LET used == {s \in 0..(n - 1) : w[s] # 0}
        ents == [i \in 1..n |-> [freq |-> w[i - 1], depth |-> 0, parent |-> 0]]
        heap == FoldLeft(LAMBDA h, s : HeapInsert(h, ents, s + 1), <<>>,
                         SelectSeq([i \in 1..n |-> i - 1], LAMBDA s : s \in used))
        tree == Grow(heap, ents)
        clen == [s \in 0..(n - 1) |-> IF s \in used THEN Parents(tree, s + 1) ELSE 0]
    IN  IF Cardinality(used) = 1
        THEN Limited([w EXCEPT ![IF first # 0 THEN n - 1 ELSE 0] = 1], first, n, maxlen)
        ELSE IF \E s \in used : clen[s] > maxlen
        THEN Limited([s \in 0..(n - 1) |-> w[s] \div 2 + 1], first, n, maxlen)
        ELSE clen

BuildPrefix(freq, n, maxlen) == Limited(freq, freq[0], n, maxlen)

\* The code of s: those of the shorter codes and of the smaller symbols of its
\* length come before it.
CodeOf(clen, s) ==
    Total([t \in {u \in DOMAIN clen : /\ clen[u] > 0
                                      /\ \/ clen[u] < clen[s]
                                         \/ clen[u] = clen[s] /\ u < s}
           |-> 2 ^ (clen[s] - clen[t])])

BitsOf(n, v) == [i \in 1..n |-> (v \div 2 ^ (n - i)) % 2]
Coded(clen, s) == BitsOf(clen[s], CodeOf(clen, s))
CodedAll(clen, seq) == FlattenSeq([i \in DOMAIN seq |-> Coded(clen, seq[i])])

-----------------------------------------------------------------------------
(* Move to front, and runs in a code of two digits *)

ToFront(mtf, i) == <<mtf[i]>> \o SubSeq(mtf, 1, i - 1) \o SubSeq(mtf, i + 1, Len(mtf))

RECURSIVE RunDigits(_)
RunDigits(run) ==
    IF run = 0 THEN <<>> ELSE <<(run - 1) % 2>> \o RunDigits((run - 1) \div 2)

Mtf12(symbols, mtf) ==
    LET step(st, sym) ==
            LET j == CHOOSE i \in DOMAIN st.mtf : st.mtf[i] = sym IN
            IF j = 1 THEN [st EXCEPT !.run = @ + 1]
            ELSE [mtf |-> ToFront(st.mtf, j), run |-> 0,
                  out |-> Append(st.out \o RunDigits(st.run), j)]
        end == FoldLeft(step, [mtf |-> mtf, run |-> 0, out |-> <<>>], symbols)
    IN  end.out \o RunDigits(end.run)

ClenMtf == <<0>> \o Basic \o Extra

-----------------------------------------------------------------------------
(* The encoder *)

\* A slip: the zeros of every group are written.
MultiPrefixWithZeros(clens) ==
    FlattenSeq([g \in 1..Len(clens) |-> [i \in 1..ASize |-> clens[g][i - 1]]])

\* The lengths of all the groups, one after another; the first group says
\* which symbols have none.
MultiPrefix(clens) ==
    LET row(g) == [i \in 1..ASize |-> clens[g][i - 1]]
    IN  row(1) \o FlattenSeq([g \in 1..(Len(clens) - 1) |->
                              SelectSeq(row(g + 1), LAMBDA l : l # 0)])

EncodePrefix(symbols) ==
    LET codes == Mtf12(symbols, ClenMtf)
        clclen == BuildPrefix(Count(codes, 0..(TotalCodes - 1)), TotalCodes, 2 ^ ClcLenBits - 1)
        least == Len(Basic) + RunCodes
        num == Highest({least} \cup {c + 1 : c \in {d \in DOMAIN clclen : clclen[d] # 0}})
    IN  BitsOf(ExtraCodeBits, num - least)
          \o FlattenSeq([i \in 1..num |-> BitsOf(ClcLenBits, clclen[i - 1])])
          \o CodedAll(clclen, codes)

\* How many groups and how long a sector, by the kind and the size of a section.
Suggested(kind, size) ==
    LET row(limits) == Len(SelectSeq(limits, LAMBDA l : size >= l * Thousand)) + 1
        pick(limits, groups, sectors) ==
            [groups |-> groups[row(limits)], sector |-> sectors[row(limits)] * SectorMult]
    IN  CASE kind = "data" -> pick(<<1, 4, 7, 10, 25, 50, 100>>, <<1, 2, 3, 4, 5, 7, 8, 8>>,
                                   <<0, 2, 2, 2, 2, 4, 6, 14>>)
          [] kind = "inst" -> pick(<<7, 10, 25, 50, 100>>, <<1, 2, 3, 6, 8, 8>>,
                                   <<0, 10, 10, 8, 8, 8>>)
          [] kind = "addr" -> pick(<<9, 25, 50, 100>>, <<1, 2, 3, 5, 7>>, <<0, 26, 26, 26, 26>>)

Fallback(kind) ==
    SectorMult * (CASE kind = "data" -> 4 [] kind = "inst" -> 10 [] kind = "addr" -> 26)

Refused(cfg) ==
    \/ cfg.ngroups > MaxGroups
    \/ /\ cfg.sector # 0
       /\ \/ cfg.sector < SectorMult \/ cfg.sector > SectorMax
          \/ cfg.sector % SectorMult # 0

HowMany(cfg, kind, size) ==
    LET groups == IF cfg.ngroups # 0 THEN cfg.ngroups ELSE Suggested(kind, size).groups
        sector == IF cfg.sector # 0 THEN cfg.sector ELSE Suggested(kind, size).sector
    IN  [groups |-> groups,
         sector |-> IF groups # 1 /\ sector = 0 THEN Fallback(kind) ELSE sector]

\* The first guess: symbols in as many runs of about the same frequency.  Some
\* group may be left with none (unless inefficient, when nothing is checked).
InitialTables(freq, size, groups) ==
    LET deal(st, gp) ==
            LET goal == st.left \div (groups - gp)
                sum(k) == Total([s \in st.sym2..(k - 1) |-> freq[s]])
                to == Lowest({k \in st.sym2..ASize : sum(k) >= goal})
            IN  [left |-> st.left - sum(to), sym1 |-> to + 1, sym2 |-> to,
                 empty |-> st.empty \/ goal = 0,
                 clens |-> Append(st.clens, [s \in Symbols |->
                                    IF s \in st.sym1..to THEN 1 ELSE 16])]
    IN  FoldLeft(deal, [left |-> size, sym1 |-> 0, sym2 |-> 0, empty |-> FALSE, clens |-> <<>>],
                 [i \in 1..groups |-> i - 1])

Sectors(size, sector) == 1 + (size - 1) \div sector
Sector(input, sector, k) ==
    SubSeq(input, (k - 1) * sector + 1, Lowest({k * sector, Len(input)}))

Cost(clen, seq) == Total([i \in DOMAIN seq |-> clen[seq[i]]])

\* The cheapest group of every sector, the first of equals.
Selected(input, sector, clens) ==
    [k \in 1..Sectors(Len(input), sector) |->
        LET cost(g) == Cost(clens[g], Sector(input, sector, k))
        IN  Lowest({g \in DOMAIN clens : \A h \in DOMAIN clens : cost(g) <= cost(h)})]

\* A slip: a group has codes for what it has seen only.
EvolvedAsSeen(input, sector, select, groups) ==
    LET of(g) == FlattenSeq([k \in DOMAIN select |->
                               IF select[k] = g THEN Sector(input, sector, k) ELSE <<>>])
    IN  [g \in 1..groups |->
           BuildPrefix(Count(IF of(g) = <<>> THEN input ELSE of(g), Symbols), ASize, MaxCodeLen)]

\* What each group codes, every symbol of the section at least once.
Evolved(input, sector, select, groups) ==
    LET of(g) == FlattenSeq([k \in DOMAIN select |->
                               IF select[k] = g THEN Sector(input, sector, k) ELSE <<>>])
        real == Count(input, Symbols)
        freq(g) == LET c == Count(of(g), Symbols)
                   IN  [s \in Symbols |-> IF c[s] = 0 /\ real[s] # 0 THEN 1 ELSE c[s]]
    IN  [g \in 1..groups |-> BuildPrefix(freq(g), ASize, MaxCodeLen)]

DataBits(input, sector, select, clens) ==
    FlattenSeq([k \in DOMAIN select |->
                  CodedAll(clens[select[k]], Sector(input, sector, k))])

\* Selectors: the lengths of their codes, then the codes.
EncodeSelectors(select, groups) ==
    LET codes == Mtf12([k \in DOMAIN select |-> select[k] - 1],
                       [i \in 1..groups |-> i - 1])
        clen == BuildPrefix(Count(codes, 0..groups), groups + 1, 2 ^ GbcLenBits - 1)
    IN  [head |-> FlattenSeq([i \in 1..(groups + 1) |-> BitsOf(GbcLenBits, clen[i - 1])]),
         codes |-> CodedAll(clen, codes)]

-----------------------------------------------------------------------------
(* The decoder: from bits and how many of them are consumed *)

Value(bits, p, n) == FoldLeft(LAMBDA v, b : 2 * v + b, 0, SubSeq(bits, p + 1, p + n))

\* djw_build_decoder
Decoder(clen, absmax) ==
    LET of(l) == SelectSeq([i \in 1..Cardinality(DOMAIN clen) |-> i - 1],
                           LAMBDA s : clen[s] = l)
        longer(d, l) ==
            LET first == 2 * (d.last + 1)
                syms == of(l)
            IN  [inorder |-> d.inorder \o syms,
                 base |-> Append(d.base, first - Len(d.inorder)),
                 limit |-> Append(d.limit, first + Len(syms) - 1),
                 last |-> first + Len(syms) - 1,
                 max |-> IF syms = <<>> THEN d.max ELSE l]
    IN  FoldLeft(longer, [inorder |-> <<>>, base |-> <<>>, limit |-> <<>>, last |-> -1, max |-> 0],
                 [l \in 1..absmax |-> l])

\* The next symbol, or none: at the end of the input as for a code too long.
DecodeSymbol(bits, p, d) ==
    LET ls == {l \in 1..d.max : p + l <= Len(bits) /\ Value(bits, p, l) <= d.limit[l]}
        l == Lowest(ls)
    IN  IF ls = {} THEN [ok |-> FALSE, p |-> p]
        ELSE [ok |-> TRUE, p |-> p + l, sym |-> d.inorder[Value(bits, p, l) - d.base[l] + 1]]

\* djw_decode_1_2: values until there are elts of them.  After the first group
\* of lengths (skip of them) the zeros are known.
RECURSIVE Decode12(_, _, _, _, _)
Decode12(bits, d, elts, skip, st) ==
    LET n == Len(st.values)
        sym == DecodeSymbol(bits, st.p, d)
    IN  IF n = elts THEN [st EXCEPT !.ok = (st.rep = 0)]
        ELSE IF skip # 0 /\ n >= skip /\ st.values[n - skip + 1] = 0
        THEN Decode12(bits, d, elts, skip, [st EXCEPT !.values = Append(@, 0)])
        ELSE IF st.rep # 0
        THEN Decode12(bits, d, elts, skip, [st EXCEPT !.values = Append(@, st.mtf[1]),
                                                      !.rep = @ - 1])
        ELSE IF ~sym.ok THEN [st EXCEPT !.ok = FALSE]
        ELSE IF sym.sym < RunCodes
        THEN Decode12(bits, d, elts, skip, [st EXCEPT !.p = sym.p, !.s = @ + 1,
                                                      !.rep = (sym.sym + 1) * 2 ^ st.s])
        ELSE Decode12(bits, d, elts, skip,
                      [st EXCEPT !.p = sym.p, !.s = 0, !.mtf = ToFront(@, sym.sym),
                                 !.values = Append(@, st.mtf[sym.sym])])

Values12(bits, p, d, mtf, elts, skip) ==
    Decode12(bits, d, elts, skip,
             [ok |-> TRUE, p |-> p, mtf |-> mtf, rep |-> 0, s |-> 0, values |-> <<>>])
=============================================================================
