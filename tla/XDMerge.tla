------------------------------ MODULE XDMerge ------------------------------
(***************************************************************************)
(* xdelta3 merge -m delta1 -m delta2 delta3: one delta that does what the  *)
(* deltas do one after the other.  Every delta is read into a whole state, *)
(* one list of the instructions of all its windows with addresses from the *)
(* start of the file; the copies of a delta from its source are replaced   *)
(* by the instructions of the delta before it that wrote those bytes; and  *)
(* what comes of it is written in the windows of the last delta.           *)
(*                                                                         *)
(* A window is [cpyoff, cpylen, sum, insts]: the part of the source it     *)
(* copies from, its checksum and its instructions, [type, size, addr,      *)
(* data], whose addresses count from the start of that part, the window    *)
(* itself coming after it.                                                 *)
(***************************************************************************)
EXTENDS Integers, Sequences, SequencesExt

CONSTANTS
    Source,      \* the bytes the first delta is for
    Windows,     \* Windows[k]: the windows the k-th delta may have
    MaxWindows,  \* MaxWindows[k]: how many of them at most
    MaxArgs      \* how many -m arguments at most

VARIABLES
    args,      \* the number of -m arguments
    k,         \* the delta being read
    phase,     \* "reading", "merging", "output" or "end"
    whole,     \* whole_target of the stream that is read
    before,    \* the merged deltas before it: merge_input, then merge_stream
    merged,    \* the output of xd3_merge_inputs, with its return code
    next,      \* input_i
    emitted,   \* the windows written
    inst_pos,  \* the instruction of whole that is written next
    cut,       \* the last delta ends within a window
    verdict,   \* the exit status
    contents   \* what the deltas make of Source, one after the other

vars == <<args, k, phase, whole, before, merged, next, emitted, inst_pos, cut,
          verdict, contents>>

Nothing == [inst |-> <<>>, adds |-> <<>>, wins |-> <<>>, length |-> 0, ret |-> "ok"]
Unfit == <<-1>>   \* no file

Size(insts) == FoldLeft(LAMBDA n, i : n + i.size, 0, insts)
Smaller(a, b) == IF a < b THEN a ELSE b
Larger(a, b) == IF a > b THEN a ELSE b

-----------------------------------------------------------------------------
(* What a delta means: the reference the merged delta is held against.     *)

FromSource(win, i) == i.type = "cpy" /\ i.addr < win.cpylen

\* The copies of the window find all their bytes in file.
Fits(win, file) ==
    \A n \in DOMAIN win.insts :
        FromSource(win, win.insts[n]) =>
            win.cpyoff + win.insts[n].addr + win.insts[n].size <= Len(file)

\* What one instruction appends to the output.  A copy may read what it has
\* just written itself.
Written(win, file, start, out, i) ==
    CASE i.type = "add" -> out \o i.data
      [] i.type = "run" -> out \o [n \in 1..i.size |-> i.data[1]]
      [] FromSource(win, i) ->
            out \o SubSeq(file, win.cpyoff + i.addr + 1, win.cpyoff + i.addr + i.size)
      [] OTHER ->
            FoldLeft(LAMBDA o, n : Append(o, o[start + i.addr - win.cpylen + n]),
                     out, [n \in 1..i.size |-> n])

\* out with the window applied to file.
Applied(out, win, file) ==
    IF out = Unfit \/ file = Unfit \/ ~Fits(win, file) THEN Unfit
    ELSE FoldLeft(LAMBDA o, i : Written(win, file, Len(out), o, i), out, win.insts)

AllApplied(wins, file) == FoldLeft(LAMBDA o, win : Applied(o, win, file), <<>>, wins)

\* What the decoder asks of a window: a copy reads what is there by then, and
\* does not cross from the source into the window.
Decodable(win) ==
    \A n \in DOMAIN win.insts :
        LET i    == win.insts[n]
            here == win.cpylen + Size(SubSeq(win.insts, 1, n - 1))
        IN  i.type = "cpy" =>
                /\ i.addr < here
                /\ FromSource(win, i) => i.addr + i.size <= win.cpylen

-----------------------------------------------------------------------------
(* The whole state.                                                        *)

\* xd3_whole_append_inst.  mode 1 is VCD_SOURCE, mode 0 a copy of the target.
AppendInst(w, win, start, i) ==
    [w EXCEPT
        !.inst = Append(@,
            [type |-> i.type, mode |-> IF FromSource(win, i) THEN 1 ELSE 0,
             size |-> i.size, pos |-> w.length,
             addr |-> CASE i.type # "cpy"     -> Len(w.adds)
                        [] FromSource(win, i) -> win.cpyoff + i.addr
                        [] OTHER              -> start + i.addr - win.cpylen]),
        !.adds = @ \o i.data,
        !.length = @ + i.size]

\* xd3_whole_append_window
AppendWindow(w, win) ==
    LET info == [length |-> Size(win.insts), offset |-> w.length, sum |-> win.sum]
    IN  FoldLeft(LAMBDA a, i : AppendInst(a, win, w.length, i),
                 [w EXCEPT !.wins = Append(@, info)], win.insts)

-----------------------------------------------------------------------------
(* Merging: out is the state under construction.                           *)

\* A RUN or an ADD with its bytes, at the end of out.
AddedTo(out, type, size, pos, data) ==
    [out EXCEPT
        !.inst = Append(@, [type |-> type, mode |-> 0, size |-> size, pos |-> pos,
                            addr |-> Len(out.adds)]),
        !.adds = @ \o data]

CopyTo(out, mode, size, pos, addr) ==
    [out EXCEPT !.inst = Append(@, [type |-> "cpy", mode |-> mode, size |-> size,
                                    pos |-> pos, addr |-> addr])]

\* The bytes of adds that n bytes of instruction i from offset off on stand for.
DataOf(w, i, off, n) ==
    IF i.type = "run" THEN <<w.adds[i.addr + 1]>>
    ELSE SubSeq(w.adds, i.addr + off + 1, i.addr + off + n)

\* The binary search of xd3_merge_find_position, low and high counted from 0.
RECURSIVE Position(_, _, _, _)
Position(inst, addr, low, high) ==
    LET mid == low + (high - low) \div 2
        at  == inst[mid + 1]
    IN  IF low = high THEN Len(inst)
        ELSE IF addr < at.pos THEN Position(inst, addr, low, mid)
        ELSE IF addr >= at.pos + at.size THEN Position(inst, addr, mid + 1, high)
        ELSE mid

Beyond(addr, w) == addr >= w.length

\* A slip: every piece is copied from where its instruction copies from.
PieceFromStart(addr, off) == addr
PieceFrom(addr, off) == addr + off

\* xd3_merge_source_copy: copy i of the input, in the pieces the instructions of
\* source cut it into from the n-th on.  A piece source copied from its own
\* output is looked up in turn.  Nothing but an assertion stops the loop
\* behind the last instruction.
RECURSIVE SourceCopy(_, _, _), Pieces(_, _, _, _)
SourceCopy(out, source, i) ==
    IF Beyond(i.addr, source) THEN [out EXCEPT !.ret = "INVALID_INPUT"]
    ELSE Pieces(out, source, i, Position(source.inst, i.addr, 0, Len(source.inst)))
Pieces(out, source, i, n) ==
    IF i.size = 0 \/ out.ret # "ok" THEN out
    ELSE IF n >= Len(source.inst) THEN [out EXCEPT !.ret = "undefined"]
    ELSE LET sinst == source.inst[n + 1]
             off   == i.addr - sinst.pos
             take  == Smaller(i.size, sinst.size - off)
             from  == PieceFrom(sinst.addr, off)
         IN  Pieces(CASE sinst.type # "cpy" ->
                            AddedTo(out, sinst.type, take, i.pos,
                                    DataOf(source, sinst, off, take))
                      [] sinst.mode # 0 -> CopyTo(out, sinst.mode, take, i.pos, from)
                      [] OTHER -> SourceCopy(out, source,
                                    [type |-> "cpy", mode |-> i.mode, addr |-> from,
                                     size |-> take, pos |-> i.pos]),
                    source,
                    [i EXCEPT !.pos = @ + take, !.addr = @ + take, !.size = @ - take],
                    n + 1)

Counted(out, i) == [out EXCEPT !.length = @ + i.size]

\* One round of the loop of xd3_merge_inputs: instruction i of input.
MergeInst(out, source, input, i) ==
    LET done == CASE i.type # "cpy" ->
                        AddedTo(out, i.type, i.size, out.length, DataOf(input, i, 0, i.size))
                  [] i.mode = 0 -> CopyTo(out, 0, i.size, i.pos, i.addr)
                  [] OTHER -> SourceCopy(out, source, i)
    IN  Counted(done, i)

-----------------------------------------------------------------------------
(* main_merge_output                                                       *)

\* The instructions from inst_pos on that fill a window of size bytes.
WindowInsts(w, from, size) ==
    LET upto == CHOOSE n \in from..(Len(w.inst) + 1) :
                    /\ Size(SubSeq(w.inst, from, n - 1)) >= size
                    /\ \A m \in from..(n - 1) : Size(SubSeq(w.inst, from, m - 1)) < size
    IN  SubSeq(w.inst, from, upto - 1)

\* A slip: the last bytes of the furthest copy are left out of the source window.
SrcMaxOfStarts(copies) == FoldLeft(LAMBDA m, i : Larger(m, i.addr + 1), 0, copies)
SrcMax(copies) == FoldLeft(LAMBDA m, i : Larger(m, i.addr + i.size), 0, copies)
SrcMin(copies) == FoldLeft(LAMBDA m, i : Smaller(m, i.addr), copies[1].addr, copies)

\* The instruction as the encoder writes it, base and length of the source window
\* given.  The bytes of ADDs next to each other become one ADD.
Encoded(done, w, i, base, len, start) ==
    LET data == IF i.type = "cpy" THEN <<>> ELSE DataOf(w, i, 0, i.size)
        addr == CASE i.type # "cpy" -> 0
                  [] i.mode # 0     -> i.addr - base
                  [] OTHER          -> i.addr - start + len
    IN  IF i.type = "add" /\ done # <<>> /\ Last(done).type = "add"
        THEN Append(Front(done), [Last(done) EXCEPT !.size = @ + i.size, !.data = @ \o data])
        ELSE Append(done, [type |-> i.type, size |-> i.size, addr |-> addr, data |-> data])

\* A window of the output.  Its size and checksum are those of the input's window.
OutputWindow(w, info, insts) ==
    LET copies == SelectSeq(insts, LAMBDA i : i.type = "cpy" /\ i.mode # 0)
        base   == IF copies = <<>> THEN 0 ELSE SrcMin(copies)
        len    == IF copies = <<>> THEN 0 ELSE SrcMax(copies) - base
    IN  [cpyoff |-> base, cpylen |-> len, sum |-> info.sum,
         insts |-> FoldLeft(LAMBDA d, i : Encoded(d, w, i, base, len, info.offset),
                            <<>>, insts)]

-----------------------------------------------------------------------------
Init ==
    /\ args \in 0..MaxArgs
    /\ k = 1 /\ phase = "reading" /\ verdict = "none" /\ cut = FALSE
    /\ whole = Nothing /\ before = Nothing /\ merged = Nothing
    /\ next = 1 /\ inst_pos = 1 /\ emitted = <<>>
    /\ contents = <<Source, <<>>>>

\* Only the last delta of the chain is not one of the arguments.
IsLast == k = args + 1

\* XD3_OUTPUT of the decoder: main_merge_func.
ReadWindow ==
    /\ phase = "reading" /\ Len(whole.wins) < MaxWindows[k]
    /\ \E win \in Windows[k] :
        /\ whole' = AppendWindow(whole, win)
        /\ contents' = [contents EXCEPT ![k + 1] = Applied(@, win, contents[k])]
    /\ UNCHANGED <<args, k, phase, before, merged, next, emitted, inst_pos, cut, verdict>>

\* The next delta is read into a new stream.
NextDelta ==
    /\ k' = k + 1 /\ phase' = "reading" /\ whole' = Nothing /\ merged' = Nothing
    /\ next' = 1 /\ contents' = Append(contents, <<>>)
    /\ UNCHANGED <<cut, verdict>>

Merge ==
    /\ phase' = "merging" /\ next' = 1
    /\ merged' = [Nothing EXCEPT !.wins = whole.wins]
    /\ UNCHANGED <<k, whole, before, contents, verdict>>

Fail ==
    /\ phase' = "end" /\ verdict' = "failed"
    /\ UNCHANGED <<k, whole, before, merged, next, contents>>

\* The end of an argument: xd3_close_stream refuses one that ends in a window.
EndArgument ==
    /\ phase = "reading" /\ ~IsLast
    /\ \/ Fail
       \/ /\ k = 1 /\ whole.wins # <<>> /\ before' = whole /\ NextDelta
       \/ /\ k > 1 /\ whole.wins # <<>> /\ Merge
    /\ UNCHANGED <<args, emitted, inst_pos, cut>>

\* The end of the last delta.  It is closed, and found cut, only after the output.
EndInput ==
    /\ phase = "reading" /\ IsLast
    /\ cut' \in {c \in BOOLEAN : whole.wins = <<>> => c}
    /\ IF args = 0
       THEN phase' = "output" /\ UNCHANGED <<k, whole, before, merged, next, contents, verdict>>
       ELSE Merge
    /\ UNCHANGED <<args, emitted, inst_pos>>

MergeNext ==
    /\ phase = "merging" /\ next <= Len(whole.inst)
    /\ LET out == MergeInst(merged, before, whole, whole.inst[next])
       IN  IF out.ret = "ok"
           THEN /\ merged' = out /\ next' = next + 1
                /\ UNCHANGED <<k, phase, whole, before, contents, verdict>>
           ELSE Fail
    /\ UNCHANGED <<args, emitted, inst_pos, cut>>

\* An argument is merged into what comes before the next; the last delta is written.
EndMerge ==
    /\ phase = "merging" /\ next > Len(whole.inst)
    /\ IF IsLast
       THEN /\ phase' = "output" /\ whole' = merged
            /\ UNCHANGED <<k, before, merged, next, contents, cut, verdict>>
       ELSE before' = merged /\ NextDelta
    /\ UNCHANGED <<args, emitted, inst_pos>>

LeftToEmit == inst_pos <= Len(whole.inst) \/ emitted = <<>>

\* Without a window there is nothing but what the memory of wininfo happens to
\* hold, and no output file was opened: the write fails in any case.
EmitWindow ==
    /\ phase = "output" /\ LeftToEmit
    /\ \/ Fail /\ UNCHANGED <<emitted, inst_pos>>
       \/ /\ whole.wins # <<>>
          /\ LET info  == whole.wins[Len(emitted) + 1]
                 insts == WindowInsts(whole, inst_pos, info.length)
             IN  /\ emitted' = Append(emitted, OutputWindow(whole, info, insts))
                 /\ inst_pos' = inst_pos + Len(insts)
          /\ UNCHANGED <<k, phase, whole, before, merged, next, contents, verdict>>
    /\ UNCHANGED <<args, cut>>

\* A slip: the stream is not closed with a look at where it stopped.
CloseUnseen == "done"
Close == IF cut THEN "failed" ELSE "done"

CloseStream ==
    /\ phase = "output" /\ ~LeftToEmit
    /\ phase' = "end" /\ verdict' = Close
    /\ UNCHANGED <<args, k, whole, before, merged, next, emitted, inst_pos, cut, contents>>

Next == \/ ReadWindow \/ EndArgument \/ EndInput \/ MergeNext \/ EndMerge
        \/ EmitWindow \/ CloseStream

Spec == Init /\ [][Next]_vars

-----------------------------------------------------------------------------
Results == {contents[n] : n \in 1..Len(contents)}
Merged == phase = "end" /\ verdict = "done"

\* The merged delta does to the source what the deltas do one after the other
\* (xd3_merge_inputs: "applies *input to *source"); deltas that fit one another
\* are never refused while they are merged, and the search does not run off the
\* end of the instructions.
MergesWhatFits ==
    Unfit \notin Results =>
        /\ Merged => AllApplied(emitted, Source) = Last(contents)
        /\ phase = "merging" /\ next <= Len(whole.inst)
              => MergeInst(merged, before, whole, whole.inst[next]).ret = "ok"

\* Every window of a merged delta is one the decoder takes, of the size and the
\* checksum of the window of the last delta it stands for: the checksum was not
\* computed again, so it must be that of the same bytes.
MergedDecodes ==
    /\ \A n \in DOMAIN emitted : Decodable(emitted[n])
    /\ Merged => \A n \in DOMAIN emitted :
                    /\ emitted[n].sum = whole.wins[n].sum
                    /\ Size(emitted[n].insts) = whole.wins[n].length

\* A merge that succeeds had every byte of every delta: a last delta that was cut
\* is told although its windows have been written out by then.
CutIsTold == Merged => ~cut /\ Len(emitted) = Len(whole.wins)
=============================================================================
