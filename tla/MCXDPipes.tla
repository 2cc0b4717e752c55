----------------------------- MODULE MCXDPipes -----------------------------
(* Encode with a compressed source and input, and decode with a compressed *)
(* source and a recompressed output; compressed data that ends before the   *)
(* file does.                                                              *)
EXTENDS XDPipes

MCCommands ==
    {[kind |-> "encode", chains |-> 2, recompress |-> FALSE],
     [kind |-> "decode", chains |-> 1, recompress |-> TRUE],
     [kind |-> "decode", chains |-> 0, recompress |-> TRUE]}
=============================================================================
