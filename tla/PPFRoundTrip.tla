---------------------------- MODULE PPFRoundTrip ----------------------------
(***************************************************************************)
(* PPF patches made and applied by one process: PPFAdapter's CreatePatch,  *)
(* then ApplyPatch on the original and on other files, repeatedly, and     *)
(* undo in place.  The static validation buffer lives through all of it.   *)
(***************************************************************************)
EXTENDS PPFCreate, PPFApply

Init == MakeInit /\ ApplyInit

\* The patch file makePPF leaves.
CreatedPatch ==
    [version |-> 3, imagetype |-> arg.imagetype, blockcheck |-> arg.blockcheck,
     undo |-> arg.undo, block |-> header, binlen |-> 0, records |-> records,
     fileid |-> fileid, torn |-> 0]

Create == (MakeCall \/ MakeStep) /\ UNCHANGED applyVars

ApplyCreated ==
    /\ made = 0 /\ ppc = "idle"
    /\ \/ \E f \in Files : CopyAndApply(CreatedPatch, f)
       \/ InPlace(CreatedPatch, "UNDO")
    /\ UNCHANGED makeVars

Next ==
    \/ Create
    \/ ApplyCreated
    \/ (ApplyStep \/ Dismiss) /\ UNCHANGED makeVars

vars == <<makeVars, applyVars>>
Spec == Init /\ [][Next]_vars

-----------------------------------------------------------------------------
(* Properties. *)

\* Success, and no byte of the output got lost on the way to it.
Applied(how) == ppc = "returned" /\ applied = 0 /\ ~lost /\ made = 0 /\ mode = how

\* What makePPF recorded and what applyPPF overwrites belong together: applied to
\* the original, a created patch gives every byte the modified file has at the
\* original's length, for all ways the differences fall into chunks and records;
\* for files of one size that is the modified file, which undo data takes back to
\* the original.  (Success is also returned when the output cannot be written: that is
\* excepted.)
RoundTrip ==
    /\ Applied("APPLY") /\ input = bin =>
          /\ output.size = bin.size
          /\ \A p \in 0..(Least(bin.size, mod.size) - 1) : output.data[p] = mod.data[p]
    /\ Applied("UNDO") /\ input = mod /\ bin.size = mod.size => output = bin

\* The chunks, the limit of 255 bytes a record, the stepping back behind a full
\* record and the skipping behind another leave out no byte, record none twice and
\* none that is equal.
RecordsExact == RecordsAreDifferences /\ RecordsInOrder

\* A created patch with records is not turned down by the file it was made of if
\* that file has the whole validation block.
OwnPatchAccepted ==
    /\ ppc = "returned" /\ made = 0 /\ mode = "APPLY" /\ input = bin
    /\ arg.blockcheck = 1 => BlockAt[arg.imagetype] + BlockLen <= bin.size
    => applied \in {0, OPEN_FAILED, NOT_COPIED}
=============================================================================
