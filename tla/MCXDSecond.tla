---------------------------- MODULE MCXDSecond -----------------------------
(* Small sections through both coders. *)
EXTENDS XDSecond, SequencesExt

MCBasic == <<2, 3>>
MCExtra == <<1, 4>>

Config(n, s, i) == [ngroups |-> n, sector |-> s, inefficient |-> i]
Case(coder, c, secs, flip) ==
    [coder |-> coder, kind |-> "data", cfg |-> c, sections |-> secs, flip |-> flip]

Rep(n, s) == [i \in 1..n |-> s]
\* Frequencies that make the longest codes.
Fib == Rep(8, 0) \o Rep(5, 1) \o Rep(3, 2) \o Rep(2, 3) \o <<4, 5>>

Halves(s) == {<<SubSeq(s, 1, n), SubSeq(s, n + 1, Len(s))>> : n \in 1..(Len(s) - 1)}

MCCases ==
    \* The adaptive coder, always kept, over two windows.
    UNION {{Case("fgk", Config(0, 0, TRUE), h, 0) : h \in Halves(s)} :
              s \in SeqOf(0..2, 6)}
      \cup {Case("fgk", Config(0, 0, TRUE), <<<<0, 1, 0, 2, 2, 1, 1>>, <<0, 1, 2>>>>, f) :
              f \in 1..16}
      \* The Huffman coder.
      \cup {Case("djw", Config(g, w, TRUE), <<s>>, 0) :
              g \in 1..3, w \in 1..2, s \in BoundedSeq(0..3, 3) \ {<<>>}}
      \cup {Case("djw", Config(g, 4, i), <<Fib, <<0>>, Fib>>, 0) : g \in 0..3, i \in BOOLEAN}
      \cup {Case("djw", Config(g, w, TRUE), <<<<0, 1>>>>, 0) : g \in {1, 9}, w \in {0, 8, 9}}
      \cup {Case("djw", Config(2, 4, TRUE), <<Fib>>, f) : f \in {n \in 1..150 : n % 3 = 0}}
      \cup {Case("djw", Config(g, 1, FALSE), <<s>>, 0) :
              g \in 1..2, s \in {<<0, 1>>, <<0, 0, 0>>, <<0, 1, 2>>, <<5, 5, 0, 5, 5, 5>>}}
      \cup {Case("djw", Config(2, 1, TRUE), <<<<0, 1>>>>, f) : f \in 1..60}

\* Sections that are not always shorter by the adaptive coder.
FgkCases == {Case("fgk", Config(0, 0, FALSE), <<s, t>>, 0) :
               s, t \in {Rep(3, 0), Rep(8, 1), <<0, 1, 2>> \o Rep(5, 0)}}

\* A symbol that no sector has, and another set of frequencies in some of them.
ZeroCases == {Case("djw", Config(2, w, TRUE), <<Fib \o Rep(n, 5)>>, 0) : w \in 4..8, n \in 0..10}
=============================================================================
