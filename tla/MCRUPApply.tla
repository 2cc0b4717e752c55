---------------------------- MODULE MCRUPApply ----------------------------
(* The patches a maker would make between small dumps of two and four bytes, for
   every kind of type; one of two records; one with an unknown code; one whose
   record reaches behind the end; a file that is no patch. *)
EXTENDS RUPApply

Smaller(a, b) == IF a <= b THEN a ELSE b

\* One XOR record over the common length, and the tail of the longer file.
Made(type, s, m) ==
    LET n == Smaller(Len(s), Len(m))
        longer == IF Len(s) > Len(m) THEN s ELSE m
    IN  [ninja2 |-> TRUE, type |-> type, smd5 |-> s, mmd5 |-> m,
         ssize |-> Len(s), msize |-> Len(m),
         commands |->
            <<[code |-> "2", offset |-> 0, bytes |-> [k \in 1..n |-> Xor(s[k], m[k])]]>>
            \o (IF Len(s) = Len(m) THEN <<>>
                ELSE <<[code |-> "M", offset |-> 0,
                        bytes |-> [k \in 1..(Len(longer) - n) |-> Xor(longer[n + k], 3)]]>>)]

A == <<1, 0>>
B == <<0, 3>>
C == <<3, 1, 0, 1>>
D == <<0, 1, 3, 1>>

\* Two records with an equal byte between them.
TwoRecords ==
    [Made("raw", C, D) EXCEPT
       !.commands = <<[code |-> "2", offset |-> 0, bytes |-> <<3>>],
                      [code |-> "2", offset |-> 2, bytes |-> <<3>>]>>]

Marked(f, mark) == <<mark>> \o f

MCInputs == {A, B, C, Marked(A, HeaderMark), Marked(B, UnifMark), Marked(C, UnifMark),
             Marked(C, HeaderMark)}

MCPatches ==
    {Made(type, s, m) : type \in {"raw", "nes", "gb", "lynx"}, s \in {A}, m \in {B, C}}
    \cup {Made("raw", C, B), TwoRecords}
    \cup {[Made("lynx", B, A) EXCEPT !.commands = Append(@, [code |-> "?", offset |-> 0, bytes |-> <<>>])]}
    \cup {[Made("raw", A, B) EXCEPT !.commands = <<[code |-> "2", offset |-> 1, bytes |-> <<1, 2>>]>>]}
    \cup {NoPatch}

ASSUME \A p \in {Made(type, s, m) : type \in {"raw"}, s, m \in {A, B, C}} : IsDifference(p)
ASSUME IsDifference(TwoRecords)
=============================================================================
