---------------------------- MODULE MCMultiPatch ----------------------------
(* Two files and an output; a name that has a suffix already; two patches made  *)
(* elsewhere, one with its suffix in capitals, one to a longer file.            *)
EXTENDS MultiPatch, TLC

MCStems == {<<"p", "ppf">>}
MCTitles == {"Delta BPS", "PPF", "XDelta"}
MCData == {<<"orig">>, <<"mod">>}
StreamSymmetry == Permutations(Streams)
MCOutputs == {<<"out">>}
MCFound == <<"f", "RUP">> :> <<"rup", "orig", "mod">> @@ <<"f", "ppf">> :> <<"ppf", "orig", "long">>
MCSize == [orig |-> 1, mod |-> 1, long |-> 2]
=============================================================================
