------------------------------ MODULE XDContract ------------------------------
(***************************************************************************)
(* What applying a patch promises, whatever the patch is made of: the      *)
(* output is at any time the first part of the file it was made for, it is *)
(* called done only when it is that file, it fails only for a reason, and  *)
(* at some time it is called done or failed.                               *)
(***************************************************************************)
EXTENDS Naturals, Sequences

VARIABLES want, out, verdict,
          sure  \* nothing is wrong with the patch, the files and the disk

contract == <<want, out, verdict>>

Init == out = <<>> /\ verdict = "none"

Upto(n) == SubSeq(want, 1, n)

Deliver ==
    /\ verdict = "none"
    /\ \E n \in (Len(out) + 1)..Len(want) : out' = Upto(n)
    /\ UNCHANGED <<want, verdict>>

Done ==
    /\ verdict = "none" /\ out = want
    /\ verdict' = "done"
    /\ UNCHANGED <<want, out>>

\* A failure may leave the output where it was, or a little further.
Fail ==
    /\ verdict = "none" /\ ~sure'
    /\ verdict' = "failed"
    /\ \E n \in Len(out)..Len(want) : out' = Upto(n)
    /\ UNCHANGED want

Next == Deliver \/ Done \/ Fail

Spec == Init /\ [][Next]_contract

Ends == <>(verdict # "none")
=============================================================================
