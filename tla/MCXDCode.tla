------------------------------ MODULE MCXDCode ------------------------------
(* Small files for XDLoop: pieces of a source, runs and repeats in different *)
(* orders, sources shorter than a block, input in odd chunks, few slots, the *)
(* wrong source, and patches cut short or changed on the way.                *)
EXTENDS XDLoop

Long   == [k \in 1..72 |-> (k * k) % 61]
Short  == [k \in 1..10 |-> (3 * k) % 23]
Twin   == [k \in 1..64 |-> (k % 32) + 1]
Other  == [Long EXCEPT ![14] = 99]
Run(n) == [k \in 1..n |-> 7]
New(n) == [k \in 1..n |-> 130 + k]
Bit5(k) == SubSeq(Long, k, k + 4)

Pieces == SubSeq(Long, 3, 30) \o Run(9) \o SubSeq(Long, 40, 66)
Mixed  == New(5) \o SubSeq(Long, 5, 14) \o New(5) \o New(5) \o SubSeq(Long, 9, 17)

Targets == {
    <<>>, Long, Reverse(Long), New(32), Pieces, Mixed,
    SubSeq(Long, 33, 72) \o SubSeq(Long, 1, 24),
    SubSeq(Long, 1, 8) \o SubSeq(Long, 5, 13) \o SubSeq(Long, 10, 18) \o SubSeq(Long, 3, 10),
    Bit5(1) \o Run(1) \o Bit5(3) \o Run(2) \o Bit5(2) \o New(3) \o SubSeq(Long, 1, 7) \o <<7, 8>> \o Bit5(1),
    Short \o Short \o Run(20),
    SubSeq(Long, 4, 7) \o New(2) \o SubSeq(Long, 4, 14) \o SubSeq(Long, 20, 34) \o New(18) \o SubSeq(Long, 6, 16)}

Case(s, t, slots, chunk, applied, damage) ==
    [source |-> s, target |-> t, slots |-> slots, chunk |-> chunk, applied |-> applied,
     nover |-> FALSE, damage |-> damage, opened |-> "both"]

MCCases ==
    {Case(s, t, slots, 32, s, "none") : s \in {Long, Short, Twin}, t \in Targets, slots \in {0, 4}}
    \cup {Case(Long, t, 0, 20, Long, "none") : t \in Targets}
    \cup {[Case(Long, t, 0, 32, Long, "none") EXCEPT !.nover = TRUE] : t \in Targets}
    \cup {Case(Long, t, 0, 32, Other, "none") : t \in Targets}
    \cup {Case(Long, t, 0, 32, Long, d) : t \in {Pieces, Mixed}, d \in {"cut", "byte"}}
    \cup {[Case(Long, t, 0, 32, Long, "none") EXCEPT !.opened = o] : t \in Targets, o \in {"first", "neither"}}

MCDamages(c, p) ==
    CASE c.damage = "none" -> {p}
      [] c.damage = "cut"  -> {SubSeq(p, 1, n) : n \in 0..Len(p)}
      [] OTHER -> {[p EXCEPT ![i] = b] : i \in 1..Len(p), b \in {0, 1, 4, 20, 127, 133, 164, 248}}

MCSpace(n) == ((n + 15) \div 16) * 16
MCExpand(id, bytes, size) == <<>>
=============================================================================
