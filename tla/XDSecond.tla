----------------------------- MODULE XDSecond ------------------------------
(***************************************************************************)
(* The secondary compression of the sections of a patch, as one kind of    *)
(* section goes through it window after window (xdelta3-second.h): each is *)
(* coded by the Huffman coder or the adaptive one and kept so if that is   *)
(* shorter, or is written as it is; the decoder undoes it.  A bit of what  *)
(* is written may change on its way (flip).                                *)
(***************************************************************************)
EXTENDS XDHuffman

CONSTANTS Cases,        \* [coder, kind, cfg, sections, flip]
          MinInput,     \* SECONDARY_MIN_INPUT
          MinSavings,   \* SECONDARY_MIN_SAVINGS
          SizeBytes,    \* the bytes of the size before a coded section
          FgkSize       \* ALPHABET_SIZE of the adaptive coder, which takes fewer here

VARIABLES case,         \* stream->sec_type, its xd3_sec_cfg and the sections
          pc,           \* where the encoder or the decoder of a section stands
          job,          \* the locals of xd3_encode_huff or xd3_decode_huff
          wire,         \* the sections written: [did_it, size, bits]
          encTree, decTree,  \* the xd3_sec_stream of either side
          out,          \* the sections decoded
          verdict       \* "none", 0 as "ok", "internal" or "invalid"
vars == <<case, pc, job, wire, encTree, decTree, out, verdict>>

F == INSTANCE XDFGK WITH ASize <- FgkSize

input == case.sections[Len(wire) + 1]
cfg == case.cfg
Bytes(bits) == (Len(bits) + 7) \div 8
Padded(bits) == bits \o [i \in 1..(8 * Bytes(bits) - Len(bits)) |-> 0]

\* output->next once the bits are encoded: only whole bytes are in the output.
Next8(bits) == 8 * (SizeBytes + Len(bits) \div 8)

Init ==
    /\ case \in Cases
    /\ pc = "encode" /\ job = <<>> /\ wire = <<>> /\ out = <<>> /\ verdict = "none"
    /\ encTree = F!FgkInit /\ decTree = F!FgkInit

-----------------------------------------------------------------------------
(* xd3_encode_secondary *)

Written(section) ==
    /\ wire' = Append(wire, section)
    /\ pc' = IF Len(wire) + 1 = Len(case.sections) THEN "decode" ELSE "encode"
    /\ job' = <<>>

AsItIs == [did_it |-> FALSE, size |-> Len(input), bits |-> input]

Shorter(bits) ==
    SizeBytes + Bytes(bits) < Len(input) - MinSavings \/ cfg.inefficient

Result(bits) ==
    Written(IF Shorter(bits)
            THEN [did_it |-> TRUE, size |-> Len(input), bits |-> Padded(bits)]
            ELSE AsItIs)

TooShort ==
    /\ pc = "encode" /\ Len(input) < MinInput
    /\ Written(AsItIs)
    /\ UNCHANGED <<case, encTree, decTree, out, verdict>>

EncodeFgk ==
    /\ pc = "encode" /\ Len(input) >= MinInput /\ case.coder = "fgk"
    /\ LET end == F!FgkEncoded(encTree, input)
       IN  Result(end.bits) /\ encTree' = end.h
    /\ UNCHANGED <<case, decTree, out, verdict>>

-----------------------------------------------------------------------------
(* xd3_encode_huff *)

BeginHuff ==
    /\ pc = "encode" /\ Len(input) >= MinInput /\ case.coder = "djw"
    /\ IF Refused(cfg)
       THEN verdict' = "internal" /\ pc' = "stop" /\ UNCHANGED job
       ELSE LET many == HowMany(cfg, case.kind, Len(input)) IN
            /\ job' = [groups |-> many.groups, sector |-> many.sector,
                       clens |-> <<>>, select |-> <<>>, best |-> 0, niter |-> 0]
            /\ pc' = "groups" /\ UNCHANGED verdict
    /\ UNCHANGED <<case, wire, encTree, decTree, out>>

Inefficient(bits) == bits + EfficiencyBits >= 8 * Len(input) /\ ~cfg.inefficient

OneGroup ==
    /\ pc = "groups" /\ job.groups = 1
    /\ LET clen == BuildPrefix(Count(input, Symbols), ASize, MaxCodeLen)
           head == BitsOf(GroupBits, 0) \o EncodePrefix(MultiPrefix(<<clen>>))
           bits == Cost(clen, input)
       IN  IF Inefficient(bits) \/ Inefficient(bits + Next8(head))
           THEN Written(AsItIs)
           ELSE Result(head \o CodedAll(clen, input))
    /\ UNCHANGED <<case, encTree, decTree, out, verdict>>

\* The tables to begin with; with a group that has no symbol, one group fewer.
Deal ==
    /\ pc = "groups" /\ job.groups > 1
    /\ LET first == InitialTables(Count(input, Symbols), Len(input), job.groups)
       IN  IF first.empty /\ ~cfg.inefficient
           THEN job' = [job EXCEPT !.groups = @ - 1] /\ UNCHANGED pc
           ELSE job' = [job EXCEPT !.clens = first.clens] /\ pc' = "evolve"
    /\ UNCHANGED <<case, wire, encTree, decTree, out, verdict>>

OutputBits(select, clens) ==
    Total([k \in DOMAIN select |->
              Cost(clens[select[k]], Sector(input, job.sector, k))])

\* One iteration.  The gain is a number without sign: a loss is a large gain.
Evolve ==
    /\ pc = "evolve"
    /\ LET select == Selected(input, job.sector, job.clens)
           clens == Evolved(input, job.sector, select, job.groups)
           bits == OutputBits(select, clens)
           niter == job.niter + 1
       IN  /\ job' = [job EXCEPT !.select = select, !.clens = clens,
                                 !.best = bits, !.niter = niter]
           /\ pc' = IF \/ niter = 1
                       \/ /\ niter < MaxIter
                          /\ job.best < bits \/ job.best - bits >= MinImprovement
                    THEN "evolve" ELSE "write"
    /\ UNCHANGED <<case, wire, encTree, decTree, out, verdict>>

WriteGroups ==
    /\ pc = "write"
    /\ LET sel == EncodeSelectors(job.select, job.groups)
           head == BitsOf(GroupBits, job.groups - 1)
                     \o BitsOf(SectorBits, job.sector \div SectorMult - 1)
                     \o EncodePrefix(MultiPrefix(job.clens)) \o sel.head \o sel.codes
       IN  IF \/ Inefficient(job.best)
              \/ Inefficient(job.best + Len(sel.codes) + Next8(head))
           THEN Written(AsItIs)
           ELSE Result(head \o DataBits(input, job.sector, job.select, job.clens))
    /\ UNCHANGED <<case, encTree, decTree, out, verdict>>

-----------------------------------------------------------------------------
(* xd3_decode_secondary *)

section == wire[Len(out) + 1]
Flipped(bits, i) == [bits EXCEPT ![i] = 1 - @]
received ==
    IF case.flip \in DOMAIN section.bits THEN Flipped(section.bits, case.flip)
                                         ELSE section.bits

Decoded(data) ==
    /\ out' = Append(out, data)
    /\ job' = <<>>
    /\ IF Len(out) + 1 = Len(wire) THEN pc' = "stop" /\ verdict' = "ok"
                                   ELSE pc' = "decode" /\ UNCHANGED verdict

Fails(why) == verdict' = why /\ pc' = "stop" /\ UNCHANGED <<out, job>>

\* Every byte of the input is used, and the output is full.
Finished(p, data) ==
    IF 8 * ((p + 7) \div 8) = Len(received) THEN Decoded(data) ELSE Fails("internal")

Plain ==
    /\ pc = "decode" /\ ~section.did_it
    /\ Decoded(section.bits)
    /\ UNCHANGED <<case, wire, encTree, decTree>>

DecodeFgk ==
    /\ pc = "decode" /\ section.did_it /\ case.coder = "fgk"
    /\ LET end == F!FgkDecoded(decTree, received, section.size)
       IN  /\ decTree' = end.h
           /\ IF end.ok THEN Finished(end.p, end.out) ELSE Fails("internal")
    /\ UNCHANGED <<case, wire, encTree>>

-----------------------------------------------------------------------------
(* xd3_decode_huff *)

\* Reads n bits into job[field] and goes on; at the end of the input it fails.
Reads(n) == job.p + n <= Len(received)

HuffHead ==
    /\ pc = "decode" /\ section.did_it /\ case.coder = "djw"
    /\ LET groups == Value(received, 0, GroupBits) + 1
           sector == (Value(received, GroupBits, SectorBits) + 1) * SectorMult
       IN  job' = IF groups > 1
                  THEN [p |-> GroupBits + SectorBits, groups |-> groups, sector |-> sector,
                        clens |-> <<>>, select |-> <<>>]
                  ELSE [p |-> GroupBits, groups |-> 1, sector |-> section.size,
                        clens |-> <<>>, select |-> <<>>]
    /\ pc' = "lengths"
    /\ UNCHANGED <<case, wire, encTree, decTree, out, verdict>>

\* djw_decode_clclen and djw_decode_prefix
HuffLengths ==
    /\ pc = "lengths"
    /\ LET num == Value(received, job.p, ExtraCodeBits) + Len(Basic) + RunCodes
           at == job.p + ExtraCodeBits
           clen == [c \in 0..(TotalCodes - 1) |->
                      IF c < num THEN Value(received, at + c * ClcLenBits, ClcLenBits) ELSE 0]
           end == Values12(received, at + num * ClcLenBits, Decoder(clen, 2 ^ ClcLenBits - 1),
                           ClenMtf, ASize * job.groups, ASize)
       IN  IF ~Reads(ExtraCodeBits) \/ at + num * ClcLenBits > Len(received)
           THEN Fails("internal")
           ELSE IF ~end.ok THEN Fails("invalid")
           ELSE /\ job' = [job EXCEPT !.p = end.p, !.clens =
                             [g \in 1..job.groups |->
                                [s \in Symbols |-> end.values[(g - 1) * ASize + s + 1]]]]
                /\ pc' = IF job.groups > 1 THEN "selectors" ELSE "data"
                /\ UNCHANGED <<out, verdict>>
    /\ UNCHANGED <<case, wire, encTree, decTree>>

HuffSelectors ==
    /\ pc = "selectors"
    /\ LET n == job.groups + 1
           at == job.p + n * GbcLenBits
           clen == [c \in 0..(n - 1) |-> Value(received, job.p + c * GbcLenBits, GbcLenBits)]
           end == Values12(received, at, Decoder(clen, 2 ^ GbcLenBits - 1),
                           [i \in 1..n |-> i - 1], Sectors(section.size, job.sector), 0)
       IN  IF ~Reads(n * GbcLenBits) THEN Fails("internal")
           ELSE IF ~end.ok THEN Fails("invalid")
           ELSE /\ job' = [job EXCEPT !.p = end.p, !.select =
                             [k \in DOMAIN end.values |-> end.values[k] + 1]]
                /\ pc' = "data"
                /\ UNCHANGED <<out, verdict>>
    /\ UNCHANGED <<case, wire, encTree, decTree>>

HuffData ==
    /\ pc = "data"
    /\ LET table == [g \in 1..job.groups |-> Decoder(job.clens[g], MaxCodeLen)]
           group(i) == IF job.groups = 1 THEN 1
                       ELSE job.select[1 + (i - 1) \div job.sector]
           symbol(st, i) ==
               LET s == DecodeSymbol(received, st.p, table[group(i)]) IN
               IF ~st.ok \/ ~s.ok THEN [st EXCEPT !.ok = FALSE]
               ELSE [ok |-> TRUE, p |-> s.p, data |-> Append(st.data, s.sym)]
           end == FoldLeft(symbol, [ok |-> TRUE, p |-> job.p, data |-> <<>>],
                           [i \in 1..section.size |-> i])
       IN  IF end.ok THEN Finished(end.p, end.data) ELSE Fails("invalid")
    /\ UNCHANGED <<case, wire, encTree, decTree>>

-----------------------------------------------------------------------------
Encode == TooShort \/ EncodeFgk \/ BeginHuff \/ OneGroup \/ Deal \/ Evolve \/ WriteGroups
Decode == Plain \/ DecodeFgk \/ HuffHead \/ HuffLengths \/ HuffSelectors \/ HuffData
Next == Encode \/ Decode
Spec == Init /\ [][Next]_vars

-----------------------------------------------------------------------------
(* Properties *)

\* What arrives as it was written is the section again: run codes, tables left
\* out after the first, selectors and the adaptive trees of the two sides agree.
SectionsReturn ==
    case.flip = 0 =>
        /\ verdict \in {"none", "ok"} \/ (pc = "stop" /\ Refused(cfg))
        /\ \A k \in DOMAIN out : out[k] = case.sections[k]

\* Where a section is coded with more than one group, every group has a code for
\* every symbol of the section, no longer than allowed and none the beginning of
\* another (Kraft): a length of zero would never end in xd3_encode_bits.  (The code of
\* a single group is looked at by SectionsReturn only.)
CodesArePrefixFree ==
    pc = "write" => \A g \in DOMAIN job.clens :
        LET clen == job.clens[g]
            used == {s \in Symbols : clen[s] # 0} IN
        /\ \A i \in DOMAIN input : input[i] \in used
        /\ \A s \in used : clen[s] <= MaxCodeLen
        /\ Total([s \in used |-> 2 ^ (MaxCodeLen - clen[s])]) <= 2 ^ MaxCodeLen

\* A tree of the adaptive coder gives every symbol a path of its own, nodes are
\* children of their parents, blocks are of one weight, led by their rightmost.
Coherent(h) ==
    LET live == {x \in F!Nodes : h.weight[x] > 0} \ {h.root} IN
    /\ \A x \in live : x \in {h.lchild[h.parent[x]], h.rchild[h.parent[x]]}
    /\ \A x \in live : h.block[x] # F!Nil /\ h.block[x] \notin {h.free[i] : i \in DOMAIN h.free}
    /\ \A x, y \in live : h.block[x] = h.block[y] => h.weight[x] = h.weight[y]
    /\ \A x \in live : h.block[h.leader[h.block[x]]] = h.block[x]

\* The neighbours in the list of nodes do not get lighter as long as a symbol is
\* missing: short codes go to the frequent symbols.
Ordered(h) ==
    \A x \in F!Nodes : h.weight[x] > 0 /\ h.right[x] # F!Nil =>
        h.weight[x] <= h.weight[h.right[x]]
TreesSound ==
    \A h \in {encTree, decTree} : Coherent(h) /\ (h.zeros # F!Nil => Ordered(h))
=============================================================================
