------------------------------ MODULE XDPipes ------------------------------
(***************************************************************************)
(* External compression in the xdelta3 command: the processes it forks to   *)
(* decompress its inputs and recompress its output, the pipes between them, *)
(* and how it ends.                                                         *)
(*                                                                         *)
(*     file --copier--> inpipe --decompressor--> outpipe --> xdelta3         *)
(*     xdelta3 --> pipe --recompressor--> output file                        *)
(*                                                                         *)
(* The chains are numbered in the order they are set up: the source, then   *)
(* for encode the input.  A process inherits the descriptors that are open   *)
(* when it is forked: the outpipes of the chains before it.                  *)
(***************************************************************************)
EXTENDS Integers, Sequences, FiniteSets

CONSTANTS
    Commands,  \* the commands, [kind, chains, recompress]
    Blocks,    \* how many blocks a compressed file has
    Stream,    \* Stream \in SUBSET (0..Blocks): where the compressed data may end
    Capacity,  \* how many blocks a pipe holds
    MaxWrites  \* how many blocks of output there are at most

ASSUME PipesAssumption ==
    /\ Blocks \in Nat /\ Capacity \in Nat \ {0} /\ MaxWrites \in Nat
    /\ Stream \in SUBSET (0..Blocks) /\ Stream # {}
    /\ \A c \in Commands : /\ c.kind \in {"encode", "decode"} /\ c.recompress \in BOOLEAN
                          /\ c.chains \in IF c.kind = "encode" THEN 1..2 ELSE 0..1

VARIABLES
    cmd,     \* the command
    ends,    \* where the compressed data of each chain ends
    copier,  \* of each chain: [pc, nread, drain, left]
    decomp,  \* of each chain: [pc, took]
    inpipe, outpipe,   \* of each chain: the blocks in it
    recomp,  \* the recompressor: "none", "run", "ok", "bad" or "killed"
    pipe,    \* the blocks on their way to it
    parent,  \* xdelta3: "run", "read", "write", "close", "wait" or "end"
    on,      \* the chain it reads from
    writes,  \* how much output it may still have
    fds,     \* what xdelta3 has open: outpipes, and the output
    got, eof,\* the blocks of each chain it has read, and whether it saw the end
    waited,  \* how many subprocesses it has waited for
    verdict  \* "none", "done", "failed" or "killed"

vars == <<cmd, ends, copier, decomp, inpipe, outpipe, recomp, pipe, parent, on,
          writes, fds, got, eof, waited, verdict>>
children == <<copier, decomp, inpipe, outpipe, recomp, pipe>>

Chains == 1..cmd.chains
Output == 0    \* the end of the pipe it writes to
Ended == {"ok", "bad", "killed"}
Alive(p) == p \notin Ended \cup {"none"}

\* What xdelta3 waits for, in the order it has forked them.
Subprocs ==
    [n \in 1..(2 * cmd.chains) |->
        IF n % 2 = 1 THEN decomp[(n + 1) \div 2].pc ELSE copier[n \div 2].pc]
    \o IF recomp = "none" THEN <<>> ELSE <<recomp>>

-----------------------------------------------------------------------------
(* Who can read from and write to the pipes.                               *)

InpipeRead(c) == Alive(decomp[c].pc)

InpipeWritten(c) == Alive(copier[c].pc)

\* The processes of later chains and the recompressor have inherited the outpipe.
OutpipeRead(c) ==
    \/ c \in fds
    \/ \E d \in Chains : d > c /\ (Alive(decomp[d].pc) \/ Alive(copier[d].pc))
    \/ Alive(recomp)

-----------------------------------------------------------------------------
\* main_secondary_decompress_check has read the first block of each file.
Init ==
    /\ cmd \in Commands
    /\ ends \in [Chains -> Stream]
    /\ copier = [c \in Chains |-> [pc |-> "write", nread |-> IF Blocks = 0 THEN 0 ELSE 1,
                                   drain |-> FALSE,
                                   left |-> IF Blocks = 0 THEN 0 ELSE Blocks - 1]]
    /\ decomp = [c \in Chains |-> [pc |-> "run", took |-> 0]]
    /\ inpipe = [c \in Chains |-> 0] /\ outpipe = [c \in Chains |-> 0]
    /\ recomp = "none" /\ pipe = 0
    /\ parent = "run" /\ on = 1 /\ writes = MaxWrites /\ fds = Chains /\ verdict = "none"
    /\ got = [c \in Chains |-> 0] /\ eof = [c \in Chains |-> FALSE] /\ waited = 0

UnchangedParent ==
    UNCHANGED <<cmd, ends, parent, on, writes, fds, got, eof, waited, verdict>>

(* main_pipe_copier.  A read that comes short, here of nothing, is the last.  *)

CopierWrite(c) ==
    /\ copier[c].pc = "write"
    /\ \/ /\ copier[c].nread = 0
          /\ copier' = [copier EXCEPT ![c].pc = "next", ![c].drain = FALSE]
          /\ UNCHANGED inpipe
       \/ /\ copier[c].nread = 1 /\ InpipeRead(c) /\ inpipe[c] < Capacity
          /\ copier' = [copier EXCEPT ![c].pc = "next", ![c].drain = FALSE]
          /\ inpipe' = [inpipe EXCEPT ![c] = @ + 1]
       \/ /\ copier[c].nread = 1 /\ ~InpipeRead(c)    \* EPIPE
          /\ copier' = [copier EXCEPT ![c].pc = "next", ![c].drain = TRUE]
          /\ UNCHANGED inpipe
    /\ UnchangedParent /\ UNCHANGED <<decomp, outpipe, recomp, pipe>>

CopierNext(c) ==
    /\ copier[c].pc = "next"
    /\ LET r == copier[c]
       IN  copier' = [copier EXCEPT ![c] =
               IF r.nread = 0 /\ ~r.drain THEN [r EXCEPT !.pc = "ok"]
               ELSE IF r.left = 0 THEN [r EXCEPT !.pc = "write", !.nread = 0]
               ELSE [r EXCEPT !.pc = "write", !.nread = 1, !.left = r.left - 1]]
    /\ UnchangedParent /\ UNCHANGED <<decomp, inpipe, outpipe, recomp, pipe>>

(* The decompressor, an external program.  It stops at the end of the        *)
(* compressed data, which need not be the end of the file ...               *)
Decompress(c) ==
    /\ decomp[c].pc = "run"
    /\ LET stop(how) == decomp' = [decomp EXCEPT ![c].pc = how] /\ UNCHANGED <<inpipe, outpipe>>
       IN  \/ decomp[c].took = ends[c] /\ stop("ok")
           \/ decomp[c].took < ends[c] /\ inpipe[c] = 0 /\ ~InpipeWritten(c) /\ stop("bad")
           \/ /\ decomp[c].took < ends[c] /\ inpipe[c] > 0
              /\ IF OutpipeRead(c)
                 THEN /\ outpipe[c] < Capacity
                      /\ outpipe' = [outpipe EXCEPT ![c] = @ + 1]
                      /\ inpipe' = [inpipe EXCEPT ![c] = @ - 1]
                      /\ decomp' = [decomp EXCEPT ![c].took = @ + 1]
                 ELSE stop("killed")    \* SIGPIPE
    /\ UnchangedParent /\ UNCHANGED <<copier, recomp, pipe>>

(* ... and it may find fault with what it reads.                             *)
DecompressFails(c) ==
    /\ decomp[c].pc = "run"
    /\ decomp' = [decomp EXCEPT ![c].pc = "bad"]
    /\ UnchangedParent /\ UNCHANGED <<copier, inpipe, outpipe, recomp, pipe>>

(* The recompressor reads until its input is closed.                        *)
Recompress ==
    /\ recomp = "run"
    /\ \/ pipe > 0 /\ pipe' = pipe - 1 /\ UNCHANGED recomp
       \/ pipe = 0 /\ Output \notin fds /\ recomp' = "ok" /\ UNCHANGED pipe
    /\ UnchangedParent /\ UNCHANGED <<copier, decomp, inpipe, outpipe>>

RecompressFails ==
    /\ recomp = "run" /\ recomp' = "bad"
    /\ UnchangedParent /\ UNCHANGED <<copier, decomp, inpipe, outpipe, pipe>>

-----------------------------------------------------------------------------
(* xdelta3.                                                                *)

\* It turns to the next block of one file, and then has to wait for it ...
BeginRead ==
    /\ parent = "run" /\ parent' = "read"
    /\ on' \in {c \in Chains : ~eof[c]}
    /\ UNCHANGED <<cmd, ends, children, writes, fds, got, eof, waited, verdict>>

\* ... or for the end, which is when the decompressor has closed the pipe.
EndRead ==
    /\ parent = "read" /\ parent' = "run"
    /\ \/ /\ outpipe[on] > 0
          /\ outpipe' = [outpipe EXCEPT ![on] = @ - 1] /\ got' = [got EXCEPT ![on] = @ + 1]
          /\ UNCHANGED eof
       \/ /\ outpipe[on] = 0 /\ ~Alive(decomp[on].pc)
          /\ eof' = [eof EXCEPT ![on] = TRUE] /\ UNCHANGED <<outpipe, got>>
    /\ UNCHANGED <<cmd, ends, copier, decomp, inpipe, recomp, pipe, on, writes, fds,
                   waited, verdict>>

\* The first output starts the recompressor (main_recompress_output).
BeginWrite ==
    /\ parent = "run" /\ cmd.recompress /\ writes > 0
    /\ parent' = "write" /\ writes' = writes - 1
    /\ recomp' = IF recomp = "none" THEN "run" ELSE recomp
    /\ fds' = fds \cup {Output}
    /\ UNCHANGED <<cmd, ends, copier, decomp, inpipe, outpipe, pipe, on, got, eof,
                   waited, verdict>>

\* Nobody is there to take SIGPIPE for xdelta3 itself.
EndWrite ==
    /\ parent = "write"
    /\ IF Alive(recomp)
       THEN /\ pipe < Capacity /\ pipe' = pipe + 1 /\ parent' = "run"
            /\ UNCHANGED <<fds, verdict>>
       ELSE parent' = "end" /\ fds' = {} /\ verdict' = "killed" /\ UNCHANGED pipe
    /\ UNCHANGED <<cmd, ends, copier, decomp, inpipe, outpipe, recomp, on, writes, got,
                   eof, waited>>

\* main_input leaves its loop: an input to encode has been read to its end, a source
\* only as far as it was needed, and there is always some output.
LeaveLoop ==
    /\ parent = "run"
    /\ cmd.kind = "encode" => eof[cmd.chains]
    /\ cmd.recompress => recomp # "none"
    /\ parent' = "close"
    /\ UNCHANGED <<cmd, ends, children, on, writes, fds, got, eof, waited, verdict>>

\* main_external_compression_cleanup: what still runs is killed, and not waited for.
Killed(p) == IF Alive(p) THEN "killed" ELSE p
Fail ==
    /\ parent' = "end" /\ fds' = {} /\ verdict' = "failed"
    /\ copier' = [c \in Chains |-> [copier[c] EXCEPT !.pc = Killed(@)]]
    /\ decomp' = [c \in Chains |-> [decomp[c] EXCEPT !.pc = Killed(@)]]
    /\ recomp' = Killed(recomp)
    /\ UNCHANGED <<inpipe, outpipe, pipe>>

\* Any other error of main_input.
GiveUp ==
    /\ parent = "run" /\ Fail
    /\ UNCHANGED <<cmd, ends, on, writes, got, eof, waited>>

\* A slip: the output is closed at exit only.
StillOpenOut == {Output}
StillOpen == {}

CloseFiles ==
    /\ parent = "close" /\ parent' = "wait" /\ fds' = fds \cap StillOpen
    /\ UNCHANGED <<cmd, ends, children, on, writes, got, eof, waited, verdict>>

\* A slip: the exit status of a process that ended by itself is not looked at.
WellEnded(p) == p \in Ended
\* main_waitpid_check: a decompressor nobody reads from any more is killed by
\* SIGPIPE, which is normal.
Well(p) == p \in {"ok", "killed"}

\* main_external_compression_finish
WaitNext ==
    /\ parent = "wait" /\ waited < Len(Subprocs)
    /\ LET p == Subprocs[waited + 1]
       IN  /\ ~Alive(p)
           /\ IF Well(p) THEN waited' = waited + 1 /\ UNCHANGED <<parent, fds, verdict, children>>
              ELSE Fail /\ UNCHANGED waited
    /\ UNCHANGED <<cmd, ends, on, writes, got, eof>>

AllWaited ==
    /\ parent = "wait" /\ waited = Len(Subprocs)
    /\ parent' = "end" /\ fds' = {} /\ verdict' = "done"
    /\ UNCHANGED <<cmd, ends, children, on, writes, got, eof, waited>>

Parent == \/ BeginRead \/ EndRead \/ BeginWrite \/ EndWrite \/ LeaveLoop
          \/ CloseFiles \/ WaitNext \/ AllWaited

Next == \/ Parent \/ GiveUp
        \/ \E c \in Chains : \/ CopierWrite(c) \/ CopierNext(c)
                            \/ Decompress(c) \/ DecompressFails(c)
        \/ Recompress \/ RecompressFails

\* Every process that can go on is scheduled in the end; none has to fail.
Fairness ==
    /\ WF_vars(Parent)
    /\ \A c \in 1..2 : /\ WF_vars(c \in Chains /\ (CopierWrite(c) \/ CopierNext(c)))
                       /\ WF_vars(c \in Chains /\ Decompress(c))
    /\ WF_vars(Recompress)

Spec == Init /\ [][Next]_vars /\ Fairness

-----------------------------------------------------------------------------
\* xdelta3 comes to its end: it never waits for a process that waits for it
\* ("Have to close the output before calling main_external_compression_finish,
\* or else it hangs").
Finishes == <>(verdict # "none")

\* So do all the processes it started, whatever became of it: a copier reads on when
\* its decompressor is gone, and a decompressor nobody reads from is told by SIGPIPE,
\* although the processes started later hold its pipe open.
ChildrenEnd ==
    <>[](/\ \A c \in Chains : ~Alive(copier[c].pc) /\ ~Alive(decomp[c].pc)
         /\ ~Alive(recomp))

\* Nobody waits for ever, xdelta3 or a process of its.
AllEnd == Finishes /\ ChildrenEnd

\* After a success what was taken for the end of a file was the end of its data, and
\* all output has gone through the recompressor: a process that fails behind the back
\* of main_input is told in the end.
DoneIsWhole ==
    verdict = "done" =>
        /\ \A c \in Chains : eof[c] => got[c] = ends[c]
        /\ cmd.recompress => recomp = "ok" /\ pipe = 0
=============================================================================
