------------------------------ MODULE XDVcdiff ------------------------------
(***************************************************************************)
(* The parts of the VCDIFF format that xdelta3's encoder and decoder       *)
(* share: integers in base 128, the default code table, the choice of an   *)
(* instruction code, and the address cache (xdelta3.c, xdelta3-internal.h).*)
(*                                                                         *)
(* An instruction is [type, size, pos, addr, xtra]; its type is one of     *)
(* NOOP, ADD, RUN and CPY + the address mode.                              *)
(***************************************************************************)
EXTENDS Integers, Sequences, FiniteSets, FiniteSetsExt, SequencesExt

CONSTANTS WordBits      \* the width of usize_t and xoff_t, 64 in this build

Byte == 0..255
Word == 2 ^ WordBits

\* Of the power only that it is a positive number is ever used.
ASSUME WordAssumption == WordBits \in Nat /\ WordBits >= 14 /\ Word \in Nat \ {0}

SmallerOf(a, b) == IF a < b THEN a ELSE b
LargerOf(a, b)  == IF a > b THEN a ELSE b

-----------------------------------------------------------------------------
(* Integers *)

\* The groups of seven bits above the last, each with its top bit on.
Groups[n \in Nat] == IF n = 0 THEN <<>> ELSE Append(Groups[n \div 128], 128 + (n % 128))

EmitSize(n) == Append(Groups[n \div 128], n % 128)

SizeofSize(n) == CHOOSE k \in 1..((WordBits + 6) \div 7) :
                    n < 128 ^ k /\ (k = 1 \/ n >= 128 ^ (k - 1))

\* Is there no room for seven more bits?
Overflows(part) == part >= 2 ^ (WordBits - 7)

\* A size at index i of s: the value, and the index behind it.
ReadSize(s, i) ==
    LET read[at \in (Nat \ {0}) \X Nat] ==
            LET k == at[1]  part == at[2]
            IN  IF k > Len(s) THEN [st |-> "short", val |-> 0, next |-> i]
                ELSE IF Overflows(part) THEN [st |-> "overflow", val |-> 0, next |-> i]
                ELSE IF s[k] >= 128 THEN read[<<k + 1, part * 128 + (s[k] % 128)>>]
                ELSE [st |-> "ok", val |-> part * 128 + s[k], next |-> k + 1]
    IN  read[<<i, 0>>]

\* adler32(1, s), as the four bytes it is stored in.
Adler32(s) ==
    LET a[k \in 0..Len(s)] == IF k = 0 THEN 1 ELSE (a[k - 1] + s[k]) % 65521
        b[k \in 0..Len(s)] == IF k = 0 THEN 0 ELSE (b[k - 1] + a[k]) % 65521
    IN  <<b[Len(s)] \div 256, b[Len(s)] % 256, a[Len(s)] \div 256, a[Len(s)] % 256>>

-----------------------------------------------------------------------------
(* The default code table, __rfc3284_code_table_desc *)

NOOP == 0
ADD  == 1
RUN  == 2
CPY  == 3

MinMatch  == 4
NearModes == 4
SameModes == 3
CpyModes  == 2 + NearModes + SameModes
Modes     == [i \in 1..CpyModes |-> i - 1]

Single(type, size) == [type1 |-> type, size1 |-> size, type2 |-> NOOP, size2 |-> 0]
Double(type1, size1, type2, size2) ==
    [type1 |-> type1, size1 |-> size1, type2 |-> type2, size2 |-> size2]

\* Every pair of the sizes 1..n and MinMatch..max, the first one slower.
Pairs(n, max, entry(_, _)) ==
    FlattenSeq([a \in 1..n |-> [c \in 1..(max - MinMatch + 1) |-> entry(a, MinMatch + c - 1)]])

AddCopyMax(mode) == IF mode < 2 + NearModes THEN 6 ELSE 4

\* xd3_build_code_table; the code of an entry is one less than its index.
CodeTable ==
    <<Single(RUN, 0), Single(ADD, 0)>>
    \o [s \in 1..17 |-> Single(ADD, s)]
    \o FlattenSeq([m \in 1..CpyModes |->
            <<Single(CPY + Modes[m], 0)>>
            \o [c \in 1..15 |-> Single(CPY + Modes[m], MinMatch + c - 1)]])
    \o FlattenSeq([m \in 1..CpyModes |->
            Pairs(4, AddCopyMax(Modes[m]), LAMBDA a, c : Double(ADD, a, CPY + Modes[m], c))])
    \o FlattenSeq([m \in 1..CpyModes |->
            Pairs(1, 4, LAMBDA a, c : Double(CPY + Modes[m], c, ADD, a))])

NoInst == [type |-> NOOP]

\* A slip: one size of ADD more than the table has.
Code1UpTo18(inst) ==
    CASE inst.type = RUN -> 0
      [] inst.type = ADD -> IF inst.size <= 18 THEN 1 + inst.size ELSE 1
      [] inst.type >= CPY ->
            19 + 16 * (inst.type - CPY) + (IF inst.size \in 4..18 THEN inst.size - 3 ELSE 0)

\* xd3_choose_instruction: the code of inst alone.
Code1(inst) ==
    CASE inst.type = RUN -> 0
      [] inst.type = ADD -> IF inst.size <= 17 THEN 1 + inst.size ELSE 1
      [] inst.type >= CPY ->
            19 + 16 * (inst.type - CPY) + (IF inst.size \in 4..18 THEN inst.size - 3 ELSE 0)

\* The code of prev and inst together, 0 if they have none.
PairCode(prev, inst) ==
    LET mode == inst.type - CPY
    IN  CASE inst.type = ADD /\ inst.size = 1 /\ prev.type >= CPY /\ prev.size = 4
                -> 247 + (prev.type - CPY)
          [] inst.type >= CPY /\ prev.type = ADD /\ prev.size <= 4
                /\ inst.size \in 4..6 /\ mode <= 5
                -> 163 + 12 * mode + 3 * (prev.size - 1) + (inst.size - 4)
          [] inst.type >= CPY /\ prev.type = ADD /\ prev.size <= 4
                /\ inst.size = 4 /\ mode >= 6
                -> 235 + 4 * (mode - 6) + (prev.size - 1)
          [] OTHER -> 0

-----------------------------------------------------------------------------
(* The address cache: the last addresses, and by hash the last one of each *)

\* xd3_init_cache; "same" holds the slots that are not zero.
EmptyCache == [near |-> [i \in 0..(NearModes - 1) |-> 0], slot |-> 0, same |-> <<>>]

SameSlot(addr) == addr % (SameModes * 256)
Same(c, slot)  == IF slot \in DOMAIN c.same THEN c.same[slot] ELSE 0

UpdateCache(c, addr) ==
    [near |-> [c.near EXCEPT ![c.slot] = addr],
     slot |-> (c.slot + 1) % NearModes,
     same |-> [k \in DOMAIN c.same \cup {SameSlot(addr)} |-> IF k = SameSlot(addr) THEN addr ELSE c.same[k]]]

\* The ways to write addr as a distance d >= 0, in the order they are tried.
Distances(c, addr, here) ==
    <<[mode |-> 0, d |-> addr], [mode |-> 1, d |-> here - addr]>>
    \o [i \in 1..NearModes |-> [mode |-> i + 1, d |-> addr - c.near[i - 1]]]

\* The first one that fits in a byte ends the search; otherwise the least one.
BestDistance(c, addr, here) ==
    LET ds    == Distances(c, addr, here)
        ways  == {i \in DOMAIN ds : ds[i].d >= 0}
        small == {i \in ways : ds[i].d < 128}
    IN  IF small # {} THEN ds[Min(small)]
        ELSE ds[CHOOSE i \in ways : \A j \in ways : ds[i].d < ds[j].d \/ (ds[i].d = ds[j].d /\ i <= j)]

\* xd3_encode_address: the mode and the bytes.  The same cache is only asked
\* when no distance fits in a byte.
EncodeAddress(c, addr, here) ==
    LET best == BestDistance(c, addr, here)
        slot == SameSlot(addr)
    IN  IF best.d >= 128 /\ Same(c, slot) = addr
        THEN [mode |-> 2 + NearModes + slot \div 256, bytes |-> <<slot % 256>>]
        ELSE [mode |-> best.mode, bytes |-> EmitSize(best.d)]

\* xd3_decode_address at index i of the address section s.
DecodeAddress(c, here, mode, s, i) ==
    LET read == ReadSize(s, i)
    IN  CASE mode >= 2 + NearModes ->
                IF i > Len(s) THEN [ok |-> FALSE]
                ELSE [ok |-> TRUE, next |-> i + 1,
                      addr |-> Same(c, (mode - 2 - NearModes) * 256 + s[i])]
          [] mode < 2 + NearModes /\ read.st # "ok" -> [ok |-> FALSE]
          [] mode = 0 /\ read.st = "ok" -> [ok |-> TRUE, next |-> read.next, addr |-> read.val]
          [] mode = 1 /\ read.st = "ok" -> [ok |-> TRUE, next |-> read.next, addr |-> (here - read.val) % Word]
          [] OTHER    -> [ok |-> TRUE, next |-> read.next,
                          addr |-> (read.val + c.near[mode - 2]) % Word]
=============================================================================
