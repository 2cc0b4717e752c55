------------------------------ MODULE XDEncode ------------------------------
(***************************************************************************)
(* xdelta3's encoder, xd3_encode_input with the default string matcher:    *)
(* it looks for runs, for copies of the source and for copies of earlier   *)
(* input, gathers them in the instruction buffer, and writes each window   *)
(* as a header and three sections.                                         *)
(*                                                                         *)
(* A call runs from state to state ("at") until it returns to the client   *)
(* ("ret") for more input, for a source block, or with output.  What it    *)
(* has in hand when it returns is in the stream; the loop's own state      *)
(* ("loop") is lost.  The checksums are what they are computed from.       *)
(***************************************************************************)
EXTENDS XDIopt, XDSource

CONSTANTS
    WinSize,        \* bytes in a window of the target
    LLook, LStep,   \* the source is indexed in strings of LLook, every LStep
    SChain, SLChain, MaxLazy, LongEnough, SPrevSize,
    Buckets,        \* of each hash table
    PageSize        \* XD3_ALLOCSIZE

ASSUME EncodeAssumption ==
    /\ {WinSize, LLook, LStep, SChain, SLChain, SPrevSize, Buckets, PageSize} \subseteq Nat \ {0}
    /\ {MaxLazy, LongEnough} \subseteq Nat
    /\ LLook <= BlkSize

SLook  == 4
MinRun == 8

VARIABLES
    enc,     \* the stream: its state, its input, and where it is in it
    at,      \* what the running call is about to do, "client" when none is
    src,     \* the source
    match,   \* the source match at hand, and the source's index so far
    hash,    \* the tables of strings seen
    iopt,    \* the instruction buffer
    sect,    \* what of the window is encoded
    loop     \* the locals of the string matcher

encVars == <<enc, at, src, match, hash, iopt, sect, loop>>

-----------------------------------------------------------------------------
(* The stream *)

NoSections == [hdr |-> <<>>, data |-> <<>>, inst |-> <<>>, addr |-> <<>>,
               cache |-> EmptyCache, unenc |-> 0, iout |-> NoInst]

NoMatch == [state |-> "TARGET", srcpos |-> 0, last |-> 0, fwd |-> 0, back |-> 0,
            maxfwd |-> 0, maxback |-> 0, min |-> 0, max |-> 0, maxsrc |-> 0,
            decided |-> FALSE, taroff |-> 0, cksum |-> 0]

NewLoop == [runL |-> 0, runC |-> 0, next |-> 0, target |-> 0, then |-> "client", new |-> NoInst, len |-> 0]

\* xd3_config_stream, for iopt slots; 0 is unlimited.
EncodeInit(file, slots) ==
    /\ enc = [state |-> "INPUT", flush |-> FALSE, in |-> <<>>, buf |-> <<>>, left |-> <<>>,
              out |-> <<>>, ret |-> "INPUT", pos |-> 0, total |-> 0, window |-> 0, minMatch |-> MinMatch]
    /\ at = "client"
    /\ src = file
    /\ match = NoMatch
    /\ hash = [small |-> <<>>, prev |-> <<>>, large |-> <<>>]
    /\ iopt = [used |-> <<>>, slots |-> slots, force |-> FALSE, i |-> 1, flushed |-> 0]
    /\ sect = NoSections
    /\ loop = NewLoop

\* xd3_free_stream
EncodeFreed ==
    /\ enc' = [enc EXCEPT !.ret = "FREED"]
    /\ match' = NoMatch
    /\ hash' = [small |-> <<>>, prev |-> <<>>, large |-> <<>>]
    /\ sect' = NoSections
    /\ loop' = NewLoop
    /\ src' = NoSource
    /\ UNCHANGED <<at, iopt>>

Return(ret) == at' = "client" /\ enc' = [enc EXCEPT !.ret = ret]

\* xd3_avail_input, and XD3_FLUSH when this is the last input.
AvailInput(bytes, last) ==
    /\ at = "client" /\ enc.ret = "INPUT"
    /\ enc' = [enc EXCEPT !.in = bytes, !.flush = @ \/ last, !.ret = "CALL"]
    /\ UNCHANGED <<at, src, match, hash, iopt, sect, loop>>

ConsumeOutput ==
    /\ at = "client" /\ enc.ret = "OUTPUT"
    /\ enc' = [enc EXCEPT !.out = Tail(@), !.ret = "CALL"]
    /\ UNCHANGED <<at, src, match, hash, iopt, sect, loop>>

SupplyBlock ==
    /\ at = "client" /\ enc.ret = "GETSRCBLK"
    /\ src' = Supplied(src)
    /\ enc' = [enc EXCEPT !.ret = "CALL"]
    /\ UNCHANGED <<at, match, hash, iopt, sect, loop>>

GoOnEncoding ==
    /\ at = "client" /\ enc.ret \in {"WINSTART", "WINFINISH"}
    /\ enc' = [enc EXCEPT !.ret = "CALL"]
    /\ UNCHANGED <<at, src, match, hash, iopt, sect, loop>>

Called(state) == at = "client" /\ enc.ret = "CALL" /\ enc.state = state

\* ENC_INPUT with the buffer of xd3_encode_buffer_leftover: a window may be
\* short only at the end, so input is kept until it fills one, and what is
\* left over after that begins the next one.
StartWindow ==
    /\ Called("INPUT")
    /\ LET kept == enc.left \o enc.buf
           all  == kept \o enc.in
           size == IF kept = <<>> THEN Len(all) ELSE SmallerOf(WinSize, Len(all))
       IN  IF Len(all) >= WinSize \/ enc.flush
           THEN /\ enc' = [enc EXCEPT !.in = SubSeq(all, 1, size), !.left = SubSeq(all, size + 1, Len(all)),
                                      !.buf = <<>>, !.pos = 0, !.minMatch = MinMatch,
                                      !.state = "SEARCH", !.ret = "WINSTART"]
                /\ sect' = NoSections
           ELSE /\ enc' = [enc EXCEPT !.buf = all, !.left = <<>>, !.in = <<>>, !.ret = "INPUT"]
                /\ UNCHANGED sect
    /\ UNCHANGED <<at, src, match, hash, iopt, loop>>

-----------------------------------------------------------------------------
(* Source matches *)

\* A slip: the match just tried is tried again.
RejectedOutside(srcpos) ==
    \/ srcpos < match.cksum /\ match.cksum - srcpos > MaxWinSize
    \/ match.decided /\ ~(src.base <= srcpos /\ srcpos <= src.base + src.len)

\* A match at srcpos of the source is no use: it is the one just tried, which
\* would be tried for ever, or it is too far behind the index, or it lies
\* outside the window already decided on.
Rejected(srcpos) ==
    \/ srcpos # 0 /\ srcpos = match.last
    \/ srcpos < match.cksum /\ match.cksum - srcpos > MaxWinSize
    \/ match.decided /\ ~(src.base <= srcpos /\ srcpos <= src.base + src.len)

Unlimited == Word \div 2

\* xd3_source_match_setup
MatchSetup(srcpos) ==
    LET low  == IF match.decided THEN src.base ELSE 0
        high == IF match.decided THEN src.base + src.len
                ELSE IF src.eof THEN SourceEof(src) ELSE Unlimited
    IN  IF Rejected(srcpos)
        THEN [match EXCEPT !.state = "SEARCHING", !.last = srcpos,
                           !.back = 0, !.fwd = 0, !.maxback = 0, !.maxfwd = 0]
        ELSE [match EXCEPT !.state = "BACKWARD", !.srcpos = srcpos, !.last = srcpos,
                           !.back = 0, !.fwd = 0,
                           !.maxback = SmallerOf(enc.pos - sect.unenc, srcpos - low),
                           !.maxfwd = SmallerOf(Len(enc.in) - enc.pos, high - srcpos)]

\* The reentrant part of ENC_SEARCH: go on with the match at hand.
Search ==
    /\ Called("SEARCH")
    /\ loop' = NewLoop
    /\ IF ~src.have \/ Len(enc.in) = 0
       THEN /\ match' = IF src.have /\ match.state = "TARGET"
                        THEN [match EXCEPT !.state = "SEARCHING", !.fwd = 0] ELSE match
            /\ at' = IF Len(enc.in) = 0 THEN "instr" ELSE "restart"
       ELSE \/ /\ match.state = "TARGET"
               /\ match' = [MatchSetup(match.srcpos) EXCEPT !.state = "FORWARD"]
               /\ at' = "extend"
            \/ /\ match.state \in {"FORWARD", "BACKWARD"}
               /\ at' = "extend"
               /\ UNCHANGED match
            \/ /\ match.state = "SEARCHING"
               /\ at' = "restart"
               /\ UNCHANGED match
    /\ UNCHANGED <<enc, src, hash, iopt, sect>>

\* How many of the first n bytes satisfy same(0), same(1), ...?
Agreeing(n, same(_)) == CHOOSE k \in 0..n : (k = n \/ ~same(k)) /\ \A j \in 0..(k - 1) : same(j)

\* Ask the client for block n, and return; match and position stay as they are.
AskFor(n) ==
    /\ ~Loaded(src, n)
    /\ src' = Want(src, n)
    /\ Return("GETSRCBLK")
    /\ UNCHANGED <<match, hash, iopt, sect, loop>>

BackBlock == (match.srcpos - match.back - 1) \div BlkSize
FwdBlock  == (match.srcpos + match.fwd) \div BlkSize

\* xd3_source_extend_match, backward over the block in memory.
ExtendBack ==
    /\ at = "extend" /\ match.state = "BACKWARD"
    /\ IF match.back >= match.maxback
       THEN /\ match' = [match EXCEPT !.state = "FORWARD"]
            /\ UNCHANGED <<enc, at, src, hash, iopt, sect, loop>>
       ELSE \/ AskFor(BackBlock)
            \/ /\ Loaded(src, BackBlock)
               /\ src' = Got(src, BackBlock)
               /\ LET from == match.srcpos - match.back
                      rem  == SmallerOf(from - BackBlock * BlkSize, match.maxback - match.back)
                      n    == Agreeing(rem, LAMBDA k : SourceByte(src, from - k - 1)
                                                        = enc.in[enc.pos - match.back - k])
                  IN  match' = [match EXCEPT !.back = @ + n,
                                             !.state = IF n < rem THEN "FORWARD" ELSE @]
               /\ UNCHANGED <<enc, at, hash, iopt, sect, loop>>

\* ... and forward; the end of the match goes on to MatchExtended.
ExtendForward ==
    /\ at = "extend" /\ match.state = "FORWARD"
    /\ IF match.fwd >= match.maxfwd
       THEN /\ at' = "extended"
            /\ UNCHANGED <<enc, src, match, hash, iopt, sect, loop>>
       ELSE \/ AskFor(FwdBlock)
            \/ /\ Loaded(src, FwdBlock)
               /\ src' = Got(src, FwdBlock)
               /\ LET from == match.srcpos + match.fwd
                      rem  == SmallerOf(match.maxfwd - match.fwd, FwdBlock * BlkSize + src.onblk - from)
                      n    == Agreeing(rem, LAMBDA k : SourceByte(src, from + k)
                                                        = enc.in[enc.pos + match.fwd + k + 1])
                  IN  /\ match' = [match EXCEPT !.fwd = @ + n]
                      /\ at' = IF rem = 0 \/ n < rem THEN "extended" ELSE "extend"
               /\ UNCHANGED <<enc, hash, iopt, sect, loop>>

\* The match begun by the call itself goes on where it ends, even when it is
\* too short; one begun in the loop ends or goes on there.
AfterSource(len) == IF loop.then = "loop" THEN (IF len > 0 THEN "lazy" ELSE "small") ELSE "forward"

\* The match is taken if it is not shorter than min_match.
MatchExtended ==
    /\ at = "extended"
    /\ LET start == enc.pos - match.back
           len   == match.back + match.fwd
           from  == match.srcpos - match.back
           end   == match.srcpos + match.fwd
       IN  IF match.fwd < enc.minMatch
           THEN /\ match' = [match EXCEPT !.fwd = 0, !.state = "SEARCHING"]
                /\ at' = AfterSource(0)
                /\ UNCHANGED <<iopt, loop>>
           ELSE /\ match' = [match EXCEPT
                        !.back = 0,
                        !.min = IF match.max = 0 \/ from < @ THEN from ELSE @,
                        !.max = LargerOf(@, end),
                        !.maxsrc = LargerOf(@, end),
                        !.state = IF start + len = Len(enc.in) THEN "TARGET" ELSE "SEARCHING",
                        !.srcpos = IF start + len = Len(enc.in) THEN end ELSE @]
                /\ iopt' = IF match.back > 0 THEN [iopt EXCEPT !.used = Uncovered(@, start)] ELSE iopt
                /\ loop' = [loop EXCEPT !.new = [type |-> CPY, pos |-> start, size |-> len,
                                                 addr |-> from, xtra |-> 1],
                                        !.len = match.fwd, !.then = AfterSource(match.fwd)]
                /\ at' = "slot"
    /\ UNCHANGED <<enc, src, hash, sect>>

\* ENC_SEARCH behind its own match: the position moves, and matching begins.
MoveOn ==
    /\ at = "forward"
    /\ enc' = [enc EXCEPT !.pos = @ + match.fwd]
    /\ loop' = NewLoop
    /\ at' = "restart"
    /\ UNCHANGED <<src, match, hash, iopt, sect>>
-----------------------------------------------------------------------------
(* The index of the source *)

\* The checksum of a string, in so few buckets that different strings meet.
Bucket(str) ==
    LET h[k \in 0..Len(str)] == IF k = 0 THEN 0 ELSE (2 * h[k - 1] + str[k]) % Buckets
    IN  h[Len(str)]

\* Where xd3_srcwin_move_point indexes a block of which n bytes are there: it
\* goes back from the end to where the index ended.
IndexedAt(n, old) == {p \in 0..(n - LLook) : (n - LLook - p) % LStep = 0 /\ (p >= old \/ p = n - LLook)}

\* The index with the block put in: of two of its strings in one bucket the
\* earlier one is kept, and what was in the bucket is not.  Offset by one.
IndexOf(n, old) ==
    LET base == src.cur * BlkSize
        h(p) == Bucket(SubSeq(src.file, base + p + 1, base + p + LLook))
        ps   == IndexedAt(n, old)
        new  == {h(p) : p \in ps}
    IN  [b \in new \cup DOMAIN hash.large |->
            IF b \in new THEN base + Min({p \in ps : h(p) = b}) + 1 ELSE hash.large[b]]

\* The whole of a small source at once, then ahead of the input.
TargetCksum ==
    LET here == enc.total + enc.pos
        far  == here + MaxWinSize \div 2 + 2 * BlkSize
    IN  IF here < MaxWinSize \div 2 THEN MaxWinSize ELSE far - (far % BlkSize)

BeginMove(l, then) ==
    LET from == LargerOf(match.cksum, match.maxsrc)
    IN  IF src.eof /\ match.cksum = SourceEof(src)
        THEN /\ at' = then
             /\ loop' = [l EXCEPT !.next = Unlimited]
             /\ UNCHANGED match
        ELSE /\ at' = "move"
             /\ loop' = [l EXCEPT !.then = then, !.target = LargerOf(TargetCksum, from)]
             /\ match' = [match EXCEPT !.cksum = from]

NextToIndex == match.cksum \div BlkSize
MoreToIndex == match.cksum < loop.target /\ (~src.eof \/ match.cksum < SourceEof(src))

\* A round of the loop of xd3_srcwin_move_point: one block.
MovePoint ==
    /\ at = "move" /\ MoreToIndex
    /\ \/ AskFor(NextToIndex)
       \/ /\ Loaded(src, NextToIndex)
          /\ src' = Got(src, NextToIndex)
          /\ LET n == BytesOnBlk(src', NextToIndex)
             IN  hash' = IF n < LLook THEN hash
                         ELSE [hash EXCEPT !.large = IndexOf(n, match.cksum % BlkSize)]
          /\ match' = [match EXCEPT !.cksum = (NextToIndex + 1) * BlkSize]
          /\ UNCHANGED <<enc, at, iopt, sect, loop>>

\* The end of that loop: when to come back.
PointMoved ==
    /\ at = "move" /\ ~MoreToIndex
    /\ at' = loop.then
    /\ IF src.eof /\ match.cksum >= SourceEof(src)
       THEN /\ match' = [match EXCEPT !.cksum = SourceEof(src)]
            /\ loop' = [loop EXCEPT !.next = Unlimited]
       ELSE /\ loop' = [loop EXCEPT !.next = enc.pos + BlkSize - ((match.cksum - loop.target) % BlkSize)]
            /\ UNCHANGED match
    /\ UNCHANGED <<enc, src, hash, iopt, sect>>

-----------------------------------------------------------------------------
(* The string matcher *)

Input(i) == enc.in[i + 1]
String(i, n) == SubSeq(enc.in, i + 1, i + n)

\* NEXTRUN
NextRun(l, c) == IF c = l.runC THEN [l EXCEPT !.runL = @ + 1] ELSE [l EXCEPT !.runL = 1, !.runC = c]

\* restartloop: the locals are computed anew.
Restart ==
    /\ at = "restart"
    /\ IF enc.pos + SLook > Len(enc.in)
       THEN /\ at' = "instr"
            /\ UNCHANGED <<enc, match, loop>>
       ELSE LET last == Input(enc.pos + SLook - 1)
                same == Agreeing(SLook - 1, LAMBDA k : Input(enc.pos + SLook - 2 - k) = last)
                ran  == [loop EXCEPT !.runL = 1 + same, !.runC = last]
            IN  /\ enc' = [enc EXCEPT !.minMatch =
                               LargerOf(MinMatch, 1 + LastMatched(iopt.used) - enc.pos)]
                /\ IF src.have /\ enc.pos + LLook <= Len(enc.in)
                   THEN BeginMove(ran, "run")
                   ELSE at' = "run" /\ loop' = ran /\ UNCHANGED match
    /\ UNCHANGED <<src, hash, iopt, sect>>

\* A new instruction waits for a slot of the buffer; then the loop goes on
\* behind it, or one byte further.
Found(inst, l) ==
    /\ loop' = [l EXCEPT !.new = inst, !.len = inst.size, !.then = "lazy"]
    /\ at' = "slot"

TryRun ==
    /\ at = "run"
    /\ LET rem == Len(enc.in) - enc.pos
           n   == SLook + Agreeing(rem - SLook, LAMBDA k : Input(enc.pos + SLook + k) = loop.runC)
       IN  IF loop.runL = SLook /\ n >= enc.minMatch /\ n >= MinRun
           THEN Found([type |-> RUN, pos |-> enc.pos, size |-> n, addr |-> 0, xtra |-> loop.runC],
                      [loop EXCEPT !.runL = n])
           ELSE /\ loop' = IF loop.runL = SLook THEN [loop EXCEPT !.runL = n] ELSE loop
                /\ at' = "large"
    /\ UNCHANGED <<enc, src, match, hash, iopt, sect>>

TryLarge ==
    /\ at = "large"
    /\ IF ~src.have \/ enc.pos + LLook > Len(enc.in)
       THEN at' = "small" /\ UNCHANGED <<match, loop>>
       ELSE IF enc.pos >= loop.next
       THEN BeginMove(loop, "look")
       ELSE at' = "look" /\ UNCHANGED <<match, loop>>
    /\ UNCHANGED <<enc, src, hash, iopt, sect>>

LookLarge ==
    /\ at = "look"
    /\ LET b == Bucket(String(enc.pos, LLook))
       IN  IF b \notin DOMAIN hash.large
           THEN at' = "small" /\ UNCHANGED <<match, loop>>
           ELSE /\ match' = MatchSetup(hash.large[b] - 1)
                /\ at' = IF match'.state = "BACKWARD" THEN "extend" ELSE "small"
                /\ loop' = [loop EXCEPT !.then = "loop"]
    /\ UNCHANGED <<enc, src, hash, iopt, sect>>

\* How far the input at base agrees with the input here.
AgreesFrom(base) == Agreeing(Len(enc.in) - enc.pos, LAMBDA k : Input(base + k) = Input(enc.pos + k))

\* The string before the one at base in its list, if there is one close enough.
HasPrev(base) ==
    /\ base % SPrevSize \in DOMAIN hash.prev
    /\ LET prev == hash.prev[base % SPrevSize] - 1
       IN  prev >= 0 /\ prev <= base /\ enc.pos - prev < SPrevSize

\* xd3_smatch: of the first few in the list that begins at base, the longest.
Longest(base) ==
    LET chains == IF enc.minMatch = MinMatch THEN SChain ELSE SLChain
        search[look \in (1..chains) \X Nat \X Nat \X Nat] ==
            LET chain == look[1]  b == look[2]  n == AgreesFrom(b)
                longer == n > look[3]
                place  == IF longer THEN b ELSE look[4]
            IN  IF \/ longer /\ (enc.pos + n = Len(enc.in) \/ n >= LongEnough)
                   \/ chain = 1 \/ ~HasPrev(b)
                THEN place
                ELSE search[<<chain - 1, hash.prev[b % SPrevSize] - 1, LargerOf(n, look[3]), place>>]
    IN  search[<<chains, base, 0, base>>]

SMatch(base) == LET longest == Longest(base) IN <<AgreesFrom(longest), longest>>

\* Very short and very far back.
Inefficient(n, far) == (n = 4 /\ far >= 2 ^ 14) \/ (n = 5 /\ far >= 2 ^ 21)

\* A table with a slot of it written.
Stored(table, slot, value) ==
    [i \in DOMAIN table \cup {slot} |-> IF i = slot THEN value ELSE table[i]]

\* xd3_scksum_insert
Inserted(b) ==
    [hash EXCEPT !.small = Stored(@, b, enc.pos + 1),
                 !.prev = IF SChain = 1 /\ SLChain = 1 THEN @
                          ELSE Stored(@, enc.pos % SPrevSize, IF b \in DOMAIN hash.small THEN hash.small[b] ELSE 0)]

TrySmall ==
    /\ at = "small"
    /\ LET b == Bucket(String(enc.pos, SLook))
           m == IF b \in DOMAIN hash.small THEN SMatch(hash.small[b] - 1) ELSE <<0, 0>>
           n == IF Inefficient(m[1], enc.pos - m[2]) THEN 0 ELSE m[1]
       IN  /\ hash' = Inserted(b)
           /\ IF n >= enc.minMatch
              THEN /\ Found([type |-> CPY, pos |-> enc.pos, size |-> n, addr |-> m[2], xtra |-> 0], loop)
                   /\ UNCHANGED enc
              ELSE /\ enc' = [enc EXCEPT !.minMatch = LargerOf(MinMatch, @ - 1)]
                   /\ at' = "update"
                   /\ UNCHANGED loop
    /\ UNCHANGED <<src, match, iopt, sect>>

\* HANDLELAZY
TryLazy == 0 < MaxLazy /\ loop.len < MaxLazy /\ enc.pos + loop.len <= Len(enc.in) - 2

HandleLazy ==
    /\ at = "lazy"
    /\ IF TryLazy
       THEN enc' = [enc EXCEPT !.minMatch = loop.len] /\ at' = "update"
       ELSE enc' = [enc EXCEPT !.pos = @ + loop.len] /\ at' = "restart"
    /\ UNCHANGED <<src, match, hash, iopt, sect, loop>>

\* updateone, and the next round of the loop.
UpdateOne ==
    /\ at = "update"
    /\ IF enc.pos + SLook = Len(enc.in)
       THEN at' = "instr" /\ UNCHANGED <<enc, loop>>
       ELSE /\ loop' = NextRun(loop, Input(enc.pos + SLook))
            /\ enc' = [enc EXCEPT !.pos = @ + 1]
            /\ at' = "run"
    /\ UNCHANGED <<src, match, hash, iopt, sect>>

-----------------------------------------------------------------------------
(* From the instruction buffer to the sections *)

\* Slots in use: those of the buffer, and of the instruction held back in the
\* hope of a double code, which is no slot of it when it is an ADD.
SlotsUsed == Len(iopt.used) + (IF sect.iout.type \in {NOOP, ADD} THEN 0 ELSE 1)
FreeSlot  == iopt.slots = 0 \/ SlotsUsed < iopt.slots

\* xd3_iopt_get_slot, for an instruction just found.
TakeSlot ==
    /\ at \in {"slot", "take"} /\ FreeSlot
    /\ iopt' = [iopt EXCEPT !.used = Append(@, loop.new)]
    /\ at' = loop.then
    /\ UNCHANGED <<enc, src, match, hash, sect, loop>>

\* ... and when there is none, xd3_iopt_flush_instructions first.
SlotsFull ==
    /\ at = "slot" /\ ~FreeSlot
    /\ iopt' = [iopt EXCEPT !.force = FALSE, !.i = 1, !.flushed = 0]
    /\ at' = "compact"
    /\ UNCHANGED <<enc, src, match, hash, sect, loop>>

\* ENC_INSTR
InputSearched ==
    /\ at = "instr"
    /\ iopt' = [iopt EXCEPT !.force = TRUE, !.i = 1, !.flushed = 0]
    /\ enc' = [enc EXCEPT !.state = "INSTR"]
    /\ at' = "compact"
    /\ UNCHANGED <<src, match, hash, sect, loop>>

CompactionOver == iopt.i >= Len(iopt.used) \/ Undecided(iopt.used, iopt.i, iopt.force)

CompactStep ==
    /\ at = "compact" /\ ~CompactionOver
    /\ LET c == Compact(iopt.used, iopt.i) IN iopt' = [iopt EXCEPT !.used = c.q, !.i = c.i]
    /\ UNCHANGED <<enc, at, src, match, hash, sect, loop>>

Compacted ==
    /\ at = "compact" /\ CompactionOver
    /\ at' = "pick"
    /\ UNCHANGED <<enc, src, match, hash, iopt, sect, loop>>

\* xd3_emit_single, xd3_emit_double
Emitted(s, code, inst) ==
    [s EXCEPT !.inst = @ \o <<code>> \o (IF CodeTable[code + 1].size1 = 0 THEN EmitSize(inst.size) ELSE <<>>)]

\* xd3_srcwin_setup: the window is what the matches use, when no more of them
\* can come, and a guess otherwise.
GuessedLen ==
    LET n == LargerOf(match.max - match.min, Len(enc.in) + Len(enc.in) \div 4)
    IN  IF src.eof THEN SmallerOf(n, SourceEof(src) - match.min) ELSE n

SrcwinLen == CASE enc.state = "INSTR" /\ match.max = 0 -> 0
               [] enc.state = "INSTR" /\ match.max > 0 -> match.max - match.min
               [] OTHER -> GuessedLen

SrcwinDecided ==
    IF ~src.have \/ match.decided THEN src
    ELSE [src EXCEPT !.len = SrcwinLen,
                     !.base = IF enc.state = "INSTR" /\ match.max = 0 THEN @ ELSE match.min]

\* The bytes an instruction adds to the sections; the type of a copy is its mode.
WithOperands(s, inst, window) ==
    CASE inst.type = RUN -> [s |-> [s EXCEPT !.data = Append(@, inst.xtra)], inst |-> inst]
      [] inst.type = ADD -> [s |-> [s EXCEPT !.data = @ \o String(inst.pos, inst.size)], inst |-> inst]
      [] OTHER ->
            LET taroff == IF window.have THEN window.len ELSE 0
                addr   == IF window.have /\ inst.xtra = 1 THEN inst.addr - window.base
                          ELSE inst.addr + taroff
                e      == EncodeAddress(s.cache, addr, inst.pos + taroff)
            IN  [s |-> [s EXCEPT !.addr = @ \o e.bytes, !.cache = UpdateCache(@, addr)],
                 inst |-> [inst EXCEPT !.type = CPY + e.mode]]

\* xd3_iopt_finish_encoding: the held back instruction goes out, alone or as
\* one code with this one, which is held back otherwise.
FinishEncoding(s, given, window) ==
    LET w    == WithOperands(s, given, window)
        pair == PairCode(s.iout, w.inst)
        next == [w.s EXCEPT !.unenc = @ + given.size]
    IN  CASE s.iout = NoInst -> [next EXCEPT !.iout = w.inst]
          [] s.iout # NoInst /\ pair # 0 -> [Emitted(next, pair, w.inst) EXCEPT !.iout = NoInst]
          [] OTHER -> [Emitted(next, Code1(s.iout), s.iout) EXCEPT !.iout = w.inst]

\* xd3_iopt_add: what no match covers, up to pos.
AddUpTo(s, pos, window) ==
    IF pos > s.unenc
    THEN FinishEncoding(s, [type |-> ADD, pos |-> s.unenc, size |-> pos - s.unenc, addr |-> 0, xtra |-> 0], window)
    ELSE s

\* Without force half of the buffer is emptied, and the last two stay.
FlushedEnough == ~iopt.force /\ iopt.flushed > 0
                 /\ (iopt.flushed > iopt.slots \div 2 \/ Len(iopt.used) <= 2)

\* xd3_iopt_add_encoding of the front of the buffer.
EncodeFront ==
    /\ at = "pick" /\ iopt.used # <<>> /\ ~FlushedEnough
    /\ LET inst   == Head(iopt.used)
           window == IF inst.type = RUN THEN src ELSE SrcwinDecided
       IN  /\ src' = window
           /\ match' = [match EXCEPT !.decided = @ \/ (src.have /\ inst.type # RUN)]
           /\ sect' = FinishEncoding(AddUpTo(sect, inst.pos, window), inst, window)
           /\ iopt' = [iopt EXCEPT !.used = Tail(@), !.flushed = @ + 1]
    /\ UNCHANGED <<enc, at, hash, loop>>

SlotsEmptied ==
    /\ at = "pick" /\ ~iopt.force /\ (FlushedEnough \/ iopt.used = <<>>)
    /\ at' = "take"
    /\ UNCHANGED <<enc, src, match, hash, iopt, sect, loop>>

\* xd3_iopt_add_finalize
Finalize ==
    /\ at = "pick" /\ iopt.force /\ iopt.used = <<>>
    /\ LET s == AddUpTo(sect, Len(enc.in), src)
       IN  sect' = IF s.iout = NoInst THEN s
                   ELSE [Emitted(s, Code1(s.iout), s.iout) EXCEPT !.iout = NoInst]
    /\ at' = "header"
    /\ UNCHANGED <<enc, src, match, hash, iopt, loop>>

-----------------------------------------------------------------------------
(* Output *)

FileHeader == <<214, 195, 196, 0, 0>>
VcdSource  == 1
VcdAdler32 == 4

\* xd3_emit_hdr, without a secondary compressor.
Header ==
    LET used == src.have /\ src.len > 0
        tail == EmitSize(Len(enc.in)) \o <<0>> \o EmitSize(Len(sect.data))
                \o EmitSize(Len(sect.inst)) \o EmitSize(Len(sect.addr)) \o Adler32(enc.in)
    IN  (IF enc.window = 0 THEN FileHeader ELSE <<>>)
        \o <<VcdAdler32 + (IF used THEN VcdSource ELSE 0)>>
        \o (IF used THEN EmitSize(src.len) \o EmitSize(src.base) ELSE <<>>)
        \o EmitSize(Len(tail) + Len(sect.data) + Len(sect.inst) + Len(sect.addr))
        \o tail

\* The pages of a section, as the client gets them.
PagesOf(s) == [k \in 1..((Len(s) + PageSize - 1) \div PageSize) |->
                  SubSeq(s, (k - 1) * PageSize + 1, SmallerOf(k * PageSize, Len(s)))]

EmitHeader ==
    /\ at = "header"
    /\ enc' = [enc EXCEPT !.out = PagesOf(Header) \o PagesOf(sect.data) \o PagesOf(sect.inst) \o PagesOf(sect.addr),
                          !.state = "POSTOUT", !.ret = "OUTPUT"]
    /\ at' = "client"
    /\ UNCHANGED <<src, match, hash, iopt, sect, loop>>

\* ENC_POSTOUT: the next page, or the end of the window.
PostOut ==
    /\ Called("POSTOUT")
    /\ enc' = IF enc.out # <<>> THEN [enc EXCEPT !.ret = "OUTPUT"]
              ELSE [enc EXCEPT !.ret = "WINFINISH", !.total = @ + Len(enc.in), !.state = "POSTWIN"]
    /\ UNCHANGED <<at, src, match, hash, iopt, sect, loop>>

\* ENC_POSTWIN, xd3_encode_reset
PostWin ==
    /\ Called("POSTWIN")
    /\ enc' = [enc EXCEPT !.in = <<>>, !.state = "INPUT", !.window = @ + 1,
                          !.ret = IF enc.left = <<>> THEN "INPUT" ELSE "CALL"]
    /\ src' = IF src.have THEN [src EXCEPT !.base = 0, !.len = 0] ELSE src
    /\ match' = [match EXCEPT !.decided = FALSE, !.min = 0, !.max = 0]
    /\ hash' = [hash EXCEPT !.small = <<>>]
    /\ UNCHANGED <<at, iopt, sect, loop>>

EncodeStep ==
    \/ StartWindow \/ Search \/ ExtendBack \/ ExtendForward \/ MatchExtended \/ MoveOn
    \/ MovePoint \/ PointMoved \/ Restart \/ TryRun \/ TryLarge \/ LookLarge \/ TrySmall
    \/ HandleLazy \/ UpdateOne \/ TakeSlot \/ SlotsFull \/ InputSearched \/ CompactStep
    \/ Compacted \/ EncodeFront \/ SlotsEmptied \/ Finalize \/ EmitHeader \/ PostOut \/ PostWin

-----------------------------------------------------------------------------
(* Properties *)

\* xd3_iopt_check and the assertions of xd3_iopt_erase: every match in the
\* buffer begins and ends behind the one before it, however they were found:
\* lazily, by extending a copy of the source backward, in an earlier call.  And
\* splitting two of them leaves both worth their instruction (the assertions on
\* MIN_MATCH of xd3_iopt_flush_instructions).
BufferInOrder ==
    /\ \A i \in 1..(Len(iopt.used) - 1) :
          iopt.used[i].pos < iopt.used[i + 1].pos /\ End(iopt.used[i]) < End(iopt.used[i + 1])
    /\ \A i \in 1..Len(iopt.used) : iopt.used[i].size >= MinMatch

FromSource(inst) == inst.type = CPY /\ inst.xtra = 1

\* What an instruction writes is what the input has there, whatever has become of
\* the match it was: it was split, or extended backward, or found in an earlier call.
Stands(inst) ==
    CASE FromSource(inst) ->
            /\ inst.addr + inst.size <= Len(src.file)
            /\ \A k \in 0..(inst.size - 1) : Input(inst.pos + k) = SourceByte(src, inst.addr + k)
      [] inst.type = RUN -> \A k \in 0..(inst.size - 1) : Input(inst.pos + k) = inst.xtra
      [] OTHER ->
            /\ inst.addr < inst.pos
            /\ \A k \in 0..(inst.size - 1) : Input(inst.pos + k) = Input(inst.addr + k)

\* A copy of the source is of the window the header tells the decoder.
Within(inst, window) ==
    FromSource(inst) => window.base <= inst.addr /\ inst.addr + inst.size <= window.base + window.len

\* What goes out makes the window: an instruction that is encoded writes the bytes
\* of the input, out of what the decoder has; and with the buffer code() has, an
\* unlimited one, every byte is encoded once.  That is unencoded_offset == inst->pos,
\* which xd3_iopt_finish_encoding asserts; a buffer of few slots may come down to two
\* matches that are still undecided, of which the first is then encoded whole.
EncodedExactly ==
    /\ at = "pick" /\ iopt.used # <<>> =>
            LET inst == Head(iopt.used)
            IN  /\ Stands(inst) /\ Within(inst, SrcwinDecided)
                /\ iopt.slots = 0 => inst.pos >= sect.unenc
    /\ at = "header" /\ iopt.slots = 0 => sect.unenc = Len(enc.in)
=============================================================================
