------------------------------- MODULE XDMain -------------------------------
(***************************************************************************)
(* xdelta3 encode and decode: main_input reads its input a window at a     *)
(* time and hands it to the library, which asks for blocks of the source    *)
(* and gives back output.  What the library does within a window is the     *)
(* subject of XDEncode and XDDecode; here a window is a number of bytes of  *)
(* the input that is worked on when all of it is there, and that may ask    *)
(* for any blocks of the source.                                            *)
(***************************************************************************)
EXTENDS XDBlocks, FiniteSets

CONSTANTS
    Cases,    \* the commands: files and options
    WinSize,  \* config.winsize
    MaxAsks   \* how often a window changes to another source block, at most

VARIABLES
    case,     \* the command
    pc,       \* where main_input is
    nread,    \* what the last read returned
    offset,   \* how much of the input has been read
    flush,    \* XD3_FLUSH is set
    avail,    \* the input the library has and has not worked on
    part,     \* the next part of the patch: 0 for its header
    windows,  \* the sizes of the windows done, in bytes of the input
    source,   \* the source blocks, when a source is set
    sname, oname,  \* the names of the source and the output, or "none"
    ofile,    \* the output file: "absent", "old", "open" or "closed"
    asks,     \* how many blocks the window has asked for
    asked,    \* the last block asked for
    seen,     \* the blocks asked for so far, each once and the last one last,
              \* after those of the first read in the order of the file
    lost,     \* the second half of a first read failed
    verdict   \* the exit status

vars == <<case, pc, nread, offset, flush, avail, part, windows, source, sname,
          oname, ofile, asks, asked, seen, lost, verdict>>

NoSource == [ret |-> "none"]
HaveSource == source # NoSource
Total(sizes) ==
    LET sum[n \in 0..Len(sizes)] == IF n = 0 THEN 0 ELSE sum[n - 1] + sizes[n]
    IN  sum[Len(sizes)]

(* A case is [cmd, input, parts, source, sname, oname, named, force, exists]: *)
(* the input file and, for a patch, the sizes of its parts; the source file;  *)
(* the names given and what the header of the patch names; -f; and whether    *)
(* the output file is there already.                                          *)
IsFile(f) ==
    /\ f.length \in Nat /\ f.good \in Int
    /\ f.regular \in BOOLEAN /\ f.seeks \in BOOLEAN

ASSUME CasesAssumption ==
    /\ WinSize \in Nat \ {0} /\ MaxAsks \in Nat
    /\ \A c \in Cases :
          /\ c.cmd \in {"encode", "decode"} /\ IsFile(c.input) /\ IsFile(c.source)
          /\ c.cmd = "decode" => c.parts # <<>> /\ c.parts \in Seq(Nat \ {0})
          /\ c.sname \in {"none", "given"} /\ c.oname \in {"none", "given"}
          /\ c.named \in {"none", "output", "both"}
          /\ c.force \in BOOLEAN /\ c.exists \in BOOLEAN

Encoding == case.cmd = "encode"

Init ==
    /\ case \in Cases
    /\ pc = "start" /\ verdict = "none"
    /\ nread = 0 /\ offset = 0 /\ flush = FALSE /\ avail = 0
    /\ part = 0 /\ windows = <<>> /\ source = NoSource
    /\ sname = case.sname /\ oname = case.oname
    /\ ofile = IF case.exists THEN "old" ELSE "absent"
    /\ asks = 0 /\ asked = 0 /\ seen = <<>> /\ lost = FALSE

Fail ==
    /\ pc' = "end" /\ verdict' = "failed"

\* main_set_source.  lost: the first block is not all the file has.
Sourced(to) ==
    LET st == SetSource(case.source, Encoding)
    IN  /\ source' = st
        /\ lost' = (lost \/ (st.ret = "ok" /\ st.offset < AtMost(case.source.length, SrcWinSize)))
        /\ seen' = [i \in DOMAIN st.slots |-> st.slots[i].blkno] /\ asked' = 0
        /\ IF st.ret = "ok" THEN pc' = to /\ UNCHANGED verdict ELSE Fail

\* The encoder sets its source before it reads.
Start ==
    /\ pc = "start"
    /\ IF Encoding /\ sname # "none"
       THEN Sourced("read")
       ELSE pc' = "read" /\ UNCHANGED <<source, lost, seen, asked, verdict>>
    /\ UNCHANGED <<case, nread, offset, flush, avail, part, windows, sname, oname,
                   ofile, asks>>

-----------------------------------------------------------------------------
\* The head of the input loop.
ReadInput ==
    /\ pc = "read"
    /\ LET n == Nread(case.input, offset, WinSize, offset = 0)
       IN  IF n = -1
           THEN Fail /\ UNCHANGED <<nread, offset, flush, avail, lost>>
           ELSE /\ nread' = n /\ offset' = offset + n
                /\ flush' = (flush \/ n < WinSize)
                /\ avail' = avail + n
                /\ lost' = (lost \/ n < AtMost(WinSize, case.input.length - offset))
                /\ pc' = IF n = 0 /\ windows # <<>> THEN "finish" ELSE "input"
                /\ UNCHANGED verdict
    /\ UNCHANGED <<case, part, windows, source, sname, oname, ofile, asks, asked, seen>>

\* XD3_INPUT: the loop goes on as long as the reads are full.
Again == IF nread = WinSize THEN "read" ELSE "finish"

HeaderThere == ~Encoding /\ part = 0 /\ avail >= case.parts[1]

\* XD3_GOTHEADER: the header may name the files, and now the source is opened.
GotHeader ==
    /\ pc = "input" /\ HeaderThere
    /\ part' = 1 /\ avail' = avail - case.parts[1]
    /\ LET s == IF sname = "none" /\ case.named = "both" THEN "header" ELSE sname
           o == IF oname = "none" /\ case.named # "none" THEN "header" ELSE oname
       IN  /\ sname' = s /\ oname' = o
           /\ IF s # "none" THEN Sourced("input")
              ELSE UNCHANGED <<pc, source, lost, seen, asked, verdict>>
    /\ UNCHANGED <<case, nread, offset, flush, windows, ofile, asks>>

\* The library has all of the next window.  The encoder makes one of what there
\* is, and one of nothing when the input is empty.
WindowThere ==
    IF Encoding THEN avail > 0 \/ windows = <<>>
    ELSE part \in 1..(Len(case.parts) - 1) /\ avail >= case.parts[part + 1]

WindowStart ==
    /\ pc = "input" /\ WindowThere
    /\ pc' = "window" /\ asks' = 0
    /\ UNCHANGED <<case, nread, offset, flush, avail, part, windows, source, sname,
                   oname, ofile, asked, seen, lost, verdict>>

NeedInput ==
    /\ pc = "input" /\ ~WindowThere /\ ~HeaderThere
    /\ pc' = Again
    /\ UNCHANGED <<case, nread, offset, flush, avail, part, windows, source, sname,
                   oname, ofile, asks, asked, seen, lost, verdict>>

\* The blocks a window may ask for.  A patch may copy from anywhere; the encoder
\* goes through the source from its start and knows when it has come to its end.
Askable ==
    {b \in 0..(case.source.length \div source.blksize) :
        Encoding => /\ \E n \in DOMAIN seen : b <= seen[n] + 1
                    /\ source.known => b * source.blksize < source.size}

\* The window asks for a block other than the one in memory (xd3_getblk).  The
\* encoder takes one that is too far back for no match; a decoder that needs a
\* source and has none, or a block that is not there, gives up.
AskBlock ==
    /\ pc = "window" /\ asks < MaxAsks
    /\ asks' = asks + 1
    /\ IF ~HaveSource
       THEN ~Encoding /\ Fail /\ UNCHANGED <<source, asked, seen>>
       ELSE \E b \in Askable :
            LET st == GetBlock(source, case.source, b)
            IN  /\ b # source.cur.blkno
                /\ source' = st /\ asked' = b
                /\ seen' = IF st.ret = "ok" THEN Moved(seen, b) ELSE seen
                /\ IF st.ret = "ok" \/ (Encoding /\ st.ret = "TOOFARBACK")
                   THEN UNCHANGED <<pc, verdict>>
                   ELSE Fail
    /\ UNCHANGED <<case, nread, offset, flush, avail, part, windows, sname, oname,
                   ofile, lost>>

\* main_open_output: an existing file is taken only with -f.  (A slip: always.)
MayOpenAny == TRUE
MayOpen == oname = "none" \/ ofile # "old" \/ case.force

\* The window is done: XD3_OUTPUT, with the output opened for the first one, and
\* XD3_WINFINISH.  Writing may fail.
WindowDone ==
    /\ pc = "window"
    /\ IF ofile # "open" /\ ~MayOpen
       THEN Fail /\ UNCHANGED <<ofile, windows, avail, part>>
       ELSE /\ ofile' = "open"
            /\ \/ Fail /\ UNCHANGED <<windows, avail, part>>
               \/ /\ pc' = "input"
                  /\ LET n == IF Encoding THEN avail ELSE case.parts[part + 1]
                     IN  windows' = Append(windows, n) /\ avail' = avail - n
                  /\ part' = part + 1
                  /\ UNCHANGED verdict
    /\ UNCHANGED <<case, nread, offset, flush, source, sname, oname, asks, asked,
                   seen, lost>>

-----------------------------------------------------------------------------
\* xd3_close_stream of a decoder: the input ended between two windows.
AtBoundary == avail = 0

\* A slip: what xd3_close_stream says is not looked at.
ClosedUnseen == "done"
Closed == IF Encoding \/ AtBoundary THEN "done" ELSE "failed"

\* The end of main_input.  Without a window there was nothing to open the output for.
Finish ==
    /\ pc = "finish" /\ pc' = "end"
    /\ IF ofile # "open"
       THEN verdict' = "failed" /\ UNCHANGED ofile
       ELSE ofile' = "closed" /\ verdict' \in {Closed, "failed"}
    /\ UNCHANGED <<case, nread, offset, flush, avail, part, windows, source, sname,
                   oname, asks, asked, seen, lost>>

Next == \/ Start \/ ReadInput \/ GotHeader \/ WindowStart \/ NeedInput
        \/ AskBlock \/ WindowDone \/ Finish

Spec == Init /\ [][Next]_vars

-----------------------------------------------------------------------------
Got == HaveSource /\ source.ret = "ok" /\ ~lost

\* The block the library gets is the one it asked for: the bytes from its place in
\* the file, and all of them.
BlockIsAsked ==
    Got => /\ source.cur.blkno = asked
           /\ source.cur.at = asked * source.blksize
           /\ source.cur.size = AtMost(source.blksize, case.source.length - source.cur.at)

\* A copy is too far back only in a source that cannot be positioned or is read
\* through the ring, and only when a block as far ahead as the ring is long has
\* been read ("copy is too far back (try raising -B)").
LooksBack ==
    HaveSource /\ source.ret = "TOOFARBACK" /\ source.fifo =>
        \E n \in DOMAIN seen : seen[n] >= asked + Len(source.slots)

\* Of a source that can be positioned, the blocks used last are in memory.
KeepsRecent ==
    Got /\ ~source.fifo /\ case.source.seeks =>
        \A n \in DOMAIN seen :
            n > Len(seen) - Len(source.slots) => Labelled(source, seen[n]) # {}

\* What the block cache owes the library, in whatever order blocks are asked for.
BlocksServed == BlockIsAsked /\ LooksBack /\ KeepsRecent

\* Success means that all of the input went through, in windows that are all full
\* but the last one, or in whole windows of the patch (a patch cut between two
\* windows is a patch).
SuccessIsComplete ==
    verdict = "done" /\ ~lost =>
        /\ offset = case.input.length /\ avail = 0
        /\ windows # <<>>
        /\ Encoding => /\ Total(windows) = case.input.length
                       /\ \A n \in 1..(Len(windows) - 1) : windows[n] = WinSize
        /\ ~Encoding => case.parts[1] + Total(windows) = case.input.length

\* The output file is not touched before the first window is there to be written,
\* with the files named and the source open, and never without -f when it exists
\* ("Defer opening the output file until the stream produces its first output").
OpenedLate ==
    [][ofile' = "open" /\ ofile # "open" =>
          /\ oname # "none" /\ ofile = "old" => case.force
          /\ pc = "window" /\ (~Encoding => part > 0)
          /\ sname # "none" => HaveSource]_vars
=============================================================================
