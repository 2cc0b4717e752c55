------------------------------ MODULE ByteFiles ------------------------------
(***************************************************************************)
(* Files as the patchers hold them in memory, shared by the modules of all *)
(* formats.                                                                *)
(***************************************************************************)
EXTENDS Integers, Sequences, FiniteSets

CONSTANTS Files     \* the files patches are made from, made to and applied to

Byte == 0..255

\* A file is its size and a 0-based array of its bytes.
ASSUME FilesAssumption ==
    \A f \in Files : /\ f = [size |-> f.size, data |-> f.data]
                     /\ f.size \in Nat
                     /\ f.data \in [0..(f.size - 1) -> Byte]

\* The functions' result before they return.
NoResult == -1

Least(a, b) == IF a <= b THEN a ELSE b
=============================================================================
