------------------------------- MODULE XDLoop -------------------------------
(***************************************************************************)
(* The application's use of xdelta3: code() of XDeltaAdapter.m, which      *)
(* makes a patch of a source and a target, and then applies what became    *)
(* of the patch to what the user has for the source.                       *)
(***************************************************************************)
EXTENDS XDEncode, XDDecode

CONSTANTS
    Cases,          \* [source, target, slots, chunk, applied, nover, opened], see MCXDCode
    Damages(_, _)   \* what may become of the patch of a case before it is applied

ASSUME LoopAssumption ==
    \A c \in Cases : {c.source, c.target, c.applied} \subseteq Seq(Byte) /\ c.slots \in Nat /\ c.chunk \in Nat

VARIABLES
    job,    \* the files of the two calls of code(), and where the call is
    saved   \* the patch, and the file it made

loopVars == <<job, saved>>
allVars  == <<encVars, decVars, loopVars>>

\* SrcFile may be NULL.
Opened(file, there) == IF there THEN NewSource(file) ELSE NoSource

\* fopen of the files, with the output emptied, and code() up to its loop.
Init ==
    \E c \in Cases :
        /\ job = [case |-> c, phase |-> "create", in |-> c.target, pos |-> 0, read |-> c.chunk, result |-> 0]
        /\ saved = [patch |-> <<>>, given |-> <<>>, out |-> <<>>, exact |-> TRUE]
        /\ EncodeInit(Opened(c.source, c.opened # "neither"), c.slots)
        /\ DecodeInit(Opened(c.applied, c.opened = "both"), c.nover)

Chunk(file, pos) == SubSeq(file, pos + 1, SmallerOf(pos + job.case.chunk, Len(file)))
NextChunk == Chunk(job.in, job.pos)

\* The fread of a buffer; a short one is the last one.
ReadMore == job' = [job EXCEPT !.pos = @ + Len(NextChunk), !.read = Len(NextChunk)]
MoreToRead == job.read = job.case.chunk

ReadInput ==
    /\ job.phase = "create" /\ MoreToRead
    /\ AvailInput(NextChunk, Len(NextChunk) < job.case.chunk)
    /\ ReadMore
    /\ UNCHANGED <<decVars, saved>>

ReadPatch ==
    /\ job.phase = "apply" /\ MoreToRead
    /\ DecAvailInput(NextChunk)
    /\ ReadMore
    /\ UNCHANGED <<encVars, saved>>

\* fwrite of what there is to write.
WritePatch ==
    /\ job.phase = "create"
    /\ ConsumeOutput
    /\ saved' = [saved EXCEPT !.patch = @ \o Head(enc.out)]
    /\ UNCHANGED <<decVars, job>>

WriteTarget ==
    /\ job.phase = "apply"
    /\ DecConsumeOutput
    /\ saved' = [saved EXCEPT !.out = @ \o tgt]
    /\ UNCHANGED <<encVars, job>>

\* A full disk: fwrite comes short, and its count is what code() returns.
WriteTargetShort ==
    /\ job.phase = "apply" /\ dec.ret = "OUTPUT"
    /\ \E n \in {0, Len(tgt) - 1} :
          /\ 0 <= n /\ n < Len(tgt)
          /\ saved' = [saved EXCEPT !.out = @ \o SubSeq(tgt, 1, n), !.exact = FALSE]
          /\ job' = [job EXCEPT !.phase = "applied", !.result = n]
    /\ UNCHANGED <<encVars, decVars>>

LoadBlock ==
    \/ job.phase = "create" /\ SupplyBlock /\ UNCHANGED <<decVars, loopVars>>
    \/ job.phase = "apply" /\ DecSupplyBlock /\ UNCHANGED <<encVars, loopVars>>

GoOn ==
    \/ job.phase = "create" /\ GoOnEncoding /\ UNCHANGED <<decVars, loopVars>>
    \/ job.phase = "apply" /\ GoOnDecoding /\ UNCHANGED <<encVars, loopVars>>

Encode == job.phase = "create" /\ EncodeStep /\ UNCHANGED <<decVars, loopVars>>
Decode == job.phase = "apply" /\ DecodeStep /\ UNCHANGED <<encVars, loopVars>>

\* The end of the loop: code() returns 0.  The patch is applied some time
\* later, to a source of the user's, and may not be what was made, but it is a
\* file, bytes.
Created ==
    /\ job.phase = "create" /\ at = "client" /\ enc.ret = "INPUT" /\ ~MoreToRead
    /\ \E p \in Damages(job.case, saved.patch) \cap Seq(Byte) :
          /\ saved' = [saved EXCEPT !.given = p, !.exact = (p = saved.patch)]
          /\ job' = [job EXCEPT !.phase = "apply", !.in = p, !.pos = 0, !.read = job.case.chunk]
    /\ EncodeFreed
    /\ UNCHANGED decVars

\* xd3_close_stream's opinion of the end of the patch is not asked for.
Applied ==
    /\ job.phase = "apply" /\ dec.ret = "INPUT" /\ ~MoreToRead
    /\ job' = [job EXCEPT !.phase = "applied", !.result = 0]
    /\ UNCHANGED <<encVars, decVars, saved>>

\* XD3_INVALID_INPUT is what code() returns.
Refuse ==
    /\ job.phase = "apply" /\ dec.ret = "INVALID"
    /\ job' = [job EXCEPT !.phase = "applied", !.result = -17712]
    /\ UNCHANGED <<encVars, decVars, saved>>

Next == ReadInput \/ ReadPatch \/ WritePatch \/ WriteTarget \/ WriteTargetShort \/ LoadBlock \/ GoOn
        \/ Encode \/ Decode \/ Created \/ Applied \/ Refuse

Spec == Init /\ [][Next]_allVars /\ WF_allVars(Next)

-----------------------------------------------------------------------------

\* What code() promises its caller; a patch cut short, or an output cut short
\* by the disk, is no promise's business.
Contract == INSTANCE XDContract WITH
    want <- job.case.target,
    out <- saved.out,
    sure <- /\ saved.exact
            /\ job.case.opened = "neither"
               \/ (job.case.opened = "both" /\ job.case.applied = job.case.source),
    verdict <- IF job.phase # "applied" THEN "none"
               ELSE IF job.result = 0 /\ saved.exact THEN "done" ELSE "failed"

\* The encoder, the decoder and the two loops of code() together keep the
\* contract: every window put out is right, whatever the source it is applied
\* to and whatever has become of the patch, and 0 is returned for the whole
\* file and nothing else; with the right source, the whole patch and room on
\* the disk it does not fail.
KeepsContract == Contract!Spec

\* ... and they end: no source block is asked for for ever, no match is tried
\* again for ever, no call returns for input it has.
Ends == Contract!Ends
=============================================================================
