----------------------------- MODULE PPFStreams -----------------------------
(***************************************************************************)
(* The streams of ppfdev: applyppf3_linux.c and makeppf3_linux.c share the *)
(* globals ppf and bin, and no function sets one back to NULL after        *)
(* fclose.  A sequence of applyPPF and makePPF calls in one process.       *)
(* fileid, which makePPF never opens, is left out.                         *)
(***************************************************************************)
EXTENDS Naturals, FiniteSets, Sequences

CONSTANTS Streams   \* FILE objects: fopen may hand out any one not in use

ASSUME StreamsAssumption == IsFiniteSet(Streams) /\ Cardinality(Streams) >= 3

NULL == "NULL"
Globals == {"ppf", "bin", "mod"}

VARIABLES
    pc,         \* the statement the running function is at
    ptr,        \* the globals
    open,       \* the streams that are open
    closing     \* the globals the running function still calls fclose on

vars == <<pc, ptr, open, closing>>

-----------------------------------------------------------------------------
Init ==
    /\ pc = "idle"
    /\ ptr = [g \in Globals |-> NULL]
    /\ open = {}
    /\ closing = <<>>

\* g = fopen(..) succeeds.
Fopen(g, to) ==
    /\ \E s \in Streams \ open :
          ptr' = [ptr EXCEPT ![g] = s] /\ open' = open \cup {s}
    /\ pc' = to
    /\ UNCHANGED closing

\* g = fopen(..) fails: cleanup is what is closed on the way out.
FopenFails(g, cleanup) ==
    /\ ptr' = [ptr EXCEPT ![g] = NULL]
    /\ closing' = cleanup
    /\ pc' = IF cleanup = <<>> THEN "idle" ELSE "close"
    /\ UNCHANGED open

\* CloseAllFiles: if(ppf) fclose(ppf); if(bin) ...
CloseAllFiles == <<"ppf", "bin", "mod">>

ApplyPPF == pc = "idle" /\ (Fopen("bin", "apply_ppf") \/ FopenFails("bin", <<>>))

\* A slip: bin is not closed when the patch cannot be opened.
PatchMissingLeaves == <<>>
PatchMissing == <<"bin">>

ApplyOpenPatch ==
    pc = "apply_ppf" /\ (Fopen("ppf", "apply") \/ FopenFails("ppf", PatchMissing))

\* A slip: ApplyPPF3Patch closes the file as well.
ApplyClosesTwice ==
    /\ pc = "apply"
    /\ closing' = <<"bin", "bin", "ppf">>
    /\ pc' = "close_apply"
    /\ UNCHANGED <<ptr, open>>

\* The records are written; fclose(bin), fclose(ppf).
ApplyRuns ==
    /\ pc = "apply"
    /\ closing' = <<"bin", "ppf">>
    /\ pc' = "close_apply"
    /\ UNCHANGED <<ptr, open>>

MakePPF == pc = "idle" /\ (Fopen("bin", "make_mod") \/ FopenFails("bin", CloseAllFiles))

\* A slip: a copied line still names bin.
MakeOpenModAsBin ==
    pc = "make_mod" /\ (Fopen("bin", "make_ppf") \/ FopenFails("mod", CloseAllFiles))

MakeOpenMod == pc = "make_mod" /\ (Fopen("mod", "make_ppf") \/ FopenFails("mod", CloseAllFiles))

MakeOpenPatch == pc = "make_ppf" /\ (Fopen("ppf", "make") \/ FopenFails("ppf", CloseAllFiles))

\* PPFCreatePatch, whatever it returns; CloseAllFiles.
MakeRuns ==
    /\ pc = "make"
    /\ closing' = CloseAllFiles
    /\ pc' = "close"
    /\ UNCHANGED <<ptr, open>>

\* The next fclose.  The stream a stale pointer points to may be in use again, or
\* closed: the call is then undefined and taken to do nothing.
Fclose ==
    /\ pc \in {"close", "close_apply"}
    /\ open' = open \ {ptr[Head(closing)]}
    /\ closing' = Tail(closing)
    /\ pc' = IF closing' = <<>> THEN "idle" ELSE pc
    /\ UNCHANGED ptr

Next ==
    \/ ApplyPPF \/ ApplyOpenPatch \/ ApplyRuns
    \/ MakePPF \/ MakeOpenMod \/ MakeOpenPatch \/ MakeRuns
    \/ Fclose

Spec == Init /\ [][Next]_vars

-----------------------------------------------------------------------------
(* Properties. *)

\* Between the calls no stream is open, after errors too and whatever was closed
\* twice on the way.
NoneLeftOpen == pc = "idle" => open = {}

\* While records are written or made, the streams in use are open and different,
\* whatever the globals were left pointing to.
UsedAreOpen ==
    /\ pc = "apply" => ptr["bin"] \in open /\ ptr["ppf"] \in open /\ ptr["bin"] # ptr["ppf"]
    /\ pc = "make" => \A g \in Globals :
                        ptr[g] \in open /\ \A h \in Globals \ {g} : ptr[h] # ptr[g]

\* applyPPF closes only what it opened: pointers an earlier makePPF left are gone.
ApplyClosesOpen == pc = "close_apply" => ptr[Head(closing)] \in open
=============================================================================
