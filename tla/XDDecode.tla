------------------------------ MODULE XDDecode ------------------------------
(***************************************************************************)
(* xdelta3's decoder, xd3_decode_input: the header and the fields of each  *)
(* window, its three sections, and the instructions that make the target   *)
(* of them.  It returns to its client in the middle of any field for more  *)
(* input, and in the middle of a copy for a block of the source.           *)
(***************************************************************************)
EXTENDS XDSource

CONSTANTS
    HardMaxWinSize,     \* XD3_HARDMAXWINSIZE
    Space(_),           \* bytes allocated for a window of so many
    Expand(_, _, _)     \* what the decompressor of an id makes of a section, asked for a size

ASSUME DecodeAssumption ==
    /\ HardMaxWinSize \in Nat
    /\ \A n \in 0..HardMaxWinSize : Space(n) \in Nat /\ Space(n) >= n

VARIABLES
    dec,    \* the stream: its state, its input, the fields read so far
    body,   \* the sections, where their readers are, the copies under way
    tgt,    \* the window's target so far, next_out[0..avail_out)
    dsrc    \* the source

decVars == <<dec, body, tgt, dsrc>>

Bit(byte, b) == (byte \div b) % 2 = 1

-----------------------------------------------------------------------------
(* The fields, in their order *)

Fields == <<"VCHEAD", "HDRIND", "SECONDID", "TABLEN", "NEAR", "SAME", "APPLEN", "APPDAT",
            "WININD", "CPYLEN", "CPYOFF", "ENCLEN", "TGTLEN", "DELIND",
            "DATALEN", "INSTLEN", "ADDRLEN", "CKSUM">>

Sizes  == {"TABLEN", "APPLEN", "CPYLEN", "CPYOFF", "ENCLEN", "TGTLEN", "DATALEN", "INSTLEN", "ADDRLEN"}
Single1 == {"HDRIND", "SECONDID", "NEAR", "SAME", "WININD", "DELIND"}

\* Is the field there, as the indicators before it say?
Present(field, f) ==
    CASE field = "SECONDID"                    -> Bit(f["HDRIND"], 1)
      [] field \in {"TABLEN", "NEAR", "SAME"}  -> Bit(f["HDRIND"], 2)
      [] field \in {"APPLEN", "APPDAT"}        -> Bit(f["HDRIND"], 4)
      [] field \in {"CPYLEN", "CPYOFF"}        -> f["WININD"] % 4 \in {1, 2}   \* SRCORTGT
      [] field = "CKSUM"                       -> Bit(f["WININD"], 4)
      [] OTHER                                 -> TRUE

\* How many bytes a field has that is neither a byte nor a size.
Width(field, f) == CASE field = "VCHEAD" -> 4 [] field = "CKSUM" -> 4 [] OTHER -> f["APPLEN"]

HeaderFields == {Fields[i] : i \in 1..8}

\* What a window begins with: no copy window.
NewWindow(f) == [f EXCEPT !["CPYLEN"] = 0, !["CPYOFF"] = 0]

\* The length of the encoding is there a second time, in its parts.
EncodingLength(f) ==
    1 + SizeofSize(f["TGTLEN"]) + SizeofSize(f["DATALEN"]) + SizeofSize(f["INSTLEN"]) + SizeofSize(f["ADDRLEN"])
    + f["DATALEN"] + f["INSTLEN"] + f["ADDRLEN"] + (IF Bit(f["WININD"], 4) THEN 4 ELSE 0)

\* What the decoder has to say about a field, once it is past it.
Refused(field, f) ==
    CASE field = "VCHEAD"   -> f["VCHEAD"] # <<214, 195, 196, 0>>
      [] field = "HDRIND"   -> f["HDRIND"] >= 8
      [] field = "SECONDID" -> Bit(f["HDRIND"], 1) /\ f["SECONDID"] \notin {1, 16}
      [] field = "TABLEN"   -> Bit(f["HDRIND"], 2) /\ f["TABLEN"] <= 2
      [] field = "SAME"     -> Bit(f["HDRIND"], 2)
      [] field = "APPDAT"   -> Bit(f["HDRIND"], 4) /\ f["APPLEN"] + 1 >= Word
      [] field = "WININD"   -> f["WININD"] >= 8
      [] field = "CPYOFF"   -> \/ f["CPYOFF"] + f["CPYLEN"] >= Word
                               \/ Bit(f["WININD"], 2) /\ f["CPYOFF"] + f["CPYLEN"] > dec.start
      [] field = "TGTLEN"   -> f["CPYLEN"] + f["TGTLEN"] >= Word \/ f["TGTLEN"] > HardMaxWinSize
      [] field = "DELIND"   -> f["DELIND"] >= 8 \/ (f["DELIND"] # 0 /\ ~Bit(f["HDRIND"], 1))
      [] field = "CKSUM"    -> f["ENCLEN"] # EncodingLength(f)
      [] OTHER              -> FALSE

-----------------------------------------------------------------------------

NoHalf == [type |-> NOOP, size |-> 0, addr |-> 0]

\* The three sections and their readers; pos is dec_position.
NoBody == [DATA |-> <<>>, INST |-> <<>>, ADDR |-> <<>>, d |-> 1, i |-> 1, a |-> 1,
           pos |-> 0, cur1 |-> NoHalf, cur2 |-> NoHalf, cache |-> EmptyCache]

DecodeInit(source, nover) ==
    /\ dec = [field |-> 1, state |-> "FIELD", in |-> <<>>, part |-> <<>>, ret |-> "INPUT", nover |-> nover,
              windows |-> 0, start |-> 0, f |-> [x \in {Fields[i] : i \in 1..Len(Fields)} |->
                                                    IF x \in {"VCHEAD", "APPDAT", "CKSUM"} THEN <<>> ELSE 0]]
    /\ body = NoBody
    /\ tgt = <<>>
    /\ dsrc = source

DecReturn(ret) == dec' = [dec EXCEPT !.ret = ret]
Decoding(state) == dec.ret = "CALL" /\ dec.state = state

DecAvailInput(bytes) ==
    /\ dec.ret = "INPUT"
    /\ dec' = [dec EXCEPT !.in = bytes, !.ret = "CALL"]
    /\ UNCHANGED <<body, tgt, dsrc>>

DecConsumeOutput ==
    /\ dec.ret = "OUTPUT"
    /\ tgt' = <<>>
    /\ DecReturn("CALL")
    /\ UNCHANGED <<body, dsrc>>

DecSupplyBlock ==
    /\ dec.ret = "GETSRCBLK"
    /\ dsrc' = IF dsrc.have THEN Supplied(dsrc) ELSE dsrc
    /\ DecReturn("CALL")
    /\ UNCHANGED <<body, tgt>>

GoOnDecoding ==
    /\ dec.ret \in {"GOTHEADER", "WINSTART", "WINFINISH"}
    /\ DecReturn("CALL")
    /\ UNCHANGED <<body, tgt, dsrc>>

Field == Fields[dec.field]

\* Behind a field: on to the next one, or to the sections.
FieldRead(d, f) ==
    IF Refused(Field, f) THEN [d EXCEPT !.f = f, !.part = <<>>, !.ret = "INVALID"]
    ELSE IF Field = "CKSUM"
    THEN [d EXCEPT !.f = f, !.part = <<>>, !.state = "DATA",
                   !.ret = IF d.windows = 0 THEN "GOTHEADER" ELSE "WINSTART"]
    ELSE [d EXCEPT !.f = f, !.part = <<>>, !.field = @ + 1]

\* One byte goes to a field that is not whole yet; dec_winstart moves with the
\* first byte of a window.
NeedsByte ==
    /\ Present(Field, dec.f)
    /\ CASE Field \in Single1 -> dec.part = <<>>
         [] Field \in Sizes   -> ReadSize(dec.part, 1).st = "short"
         [] OTHER             -> Len(dec.part) < Width(Field, dec.f)

TakeByte ==
    /\ Decoding("FIELD") /\ NeedsByte
    /\ dec' = IF dec.in = <<>> THEN [dec EXCEPT !.ret = "INPUT"]
              ELSE [dec EXCEPT !.in = Tail(@), !.part = Append(@, Head(dec.in)),
                               !.start = IF Field = "WININD" THEN @ + dec.f["TGTLEN"] ELSE @]
    /\ UNCHANGED <<body, tgt, dsrc>>

\* A field that is whole, or not there: its value, and what is said about it.
EndField ==
    /\ Decoding("FIELD") /\ ~NeedsByte
    /\ LET read == ReadSize(dec.part, 1)
           f    == CASE ~Present(Field, dec.f)  -> dec.f
                     [] Field \in Single1 /\ Present(Field, dec.f) -> [dec.f EXCEPT ![Field] = dec.part[1]]
                     [] Field \in Sizes /\ Present(Field, dec.f)   -> [dec.f EXCEPT ![Field] = read.val]
                     [] OTHER                   -> [dec.f EXCEPT ![Field] = dec.part]
       IN  dec' = IF Present(Field, dec.f) /\ Field \in Sizes /\ read.st = "overflow"
                  THEN [dec EXCEPT !.ret = "INVALID"]
                  ELSE FieldRead(dec, IF Field = "WININD" THEN NewWindow(f) ELSE f)
    /\ body' = IF Field = "CPYOFF" THEN [NoBody EXCEPT !.pos = dec.f["CPYLEN"]] ELSE body
    /\ UNCHANGED <<tgt, dsrc>>

-----------------------------------------------------------------------------
(* The sections *)

SectionSize == [DATA |-> "DATALEN", INST |-> "INSTLEN", ADDR |-> "ADDRLEN"]
AfterSection == [DATA |-> "INST", INST |-> "ADDR", ADDR |-> "EMIT"]

\* xd3_decode_section: what there is of it, up to its size.
TakeSection(sec) ==
    /\ Decoding(sec)
    /\ LET need == dec.f[SectionSize[sec]] - Len(body[sec])
           take == SmallerOf(need, Len(dec.in))
       IN  /\ body' = [body EXCEPT ![sec] = @ \o SubSeq(dec.in, 1, take)]
           /\ dec' = IF need = take
                     THEN [dec EXCEPT !.in = SubSeq(@, take + 1, Len(@)), !.state = AfterSection[sec]]
                     ELSE [dec EXCEPT !.in = <<>>, !.ret = "INPUT"]
    /\ UNCHANGED <<tgt, dsrc>>

\* xd3_decode_secondary: the size, and as many bytes, made of all the others;
\* a decompressor that makes fewer of them has failed.
Compressed == [DATA |-> 1, INST |-> 2, ADDR |-> 4]

Decompressed(sec) ==
    LET read == ReadSize(body[sec], 1)
    IN  IF ~Bit(dec.f["DELIND"], Compressed[sec]) THEN [ok |-> TRUE, out |-> body[sec]]
        ELSE IF read.st # "ok" \/ read.val = 0 THEN [ok |-> FALSE, out |-> <<>>]
        ELSE LET out == Expand(dec.f["SECONDID"], SubSeq(body[sec], read.next, Len(body[sec])), read.val)
             IN  [ok |-> out \in [1..read.val -> Byte], out |-> out]

\* The end of xd3_decode_sections, and what the decoder has against the window.
SectionsWhole ==
    /\ Decoding("EMIT")
    /\ LET all == [sec \in {"DATA", "INST", "ADDR"} |-> Decompressed(sec)]
       IN  IF (\E sec \in DOMAIN all : ~all[sec].ok) \/ Bit(dec.f["WININD"], 2)
              \/ (Bit(dec.f["WININD"], 1) /\ ~dsrc.have)
           THEN DecReturn("INVALID") /\ UNCHANGED body
           ELSE /\ body' = [body EXCEPT !.DATA = all["DATA"].out, !.INST = all["INST"].out,
                                        !.ADDR = all["ADDR"].out]
                /\ dec' = [dec EXCEPT !.state = "EMITTING"]
    /\ UNCHANGED <<tgt, dsrc>>

-----------------------------------------------------------------------------
(* The instructions *)

CpyLen == dec.f["CPYLEN"]
MaxPos == CpyLen + dec.f["TGTLEN"]

\* A slip: a copy may begin where it is put.
AddressBadHere(addr, size, pos) == addr > pos \/ (addr < CpyLen /\ (addr + size) % Word > CpyLen)

\* A copy must be of what is there: from before here, and not across the end
\* of the source's window.
AddressBad(addr, size, pos) == addr >= pos \/ (addr < CpyLen /\ (addr + size) % Word > CpyLen)

\* xd3_decode_parse_halfinst, of b with a type and a size, 0 to read one.
ParseHalf(b, type, size0) ==
    LET read == ReadSize(b.INST, b.i)
        size == IF size0 = 0 THEN read.val ELSE size0
        none == size0 = 0 /\ read.st # "ok"
        b1   == IF size0 = 0 THEN [b EXCEPT !.i = read.next] ELSE b
        addr == DecodeAddress(b.cache, b.pos, type - CPY, b.ADDR, b.a)
        bad  == [ok |-> FALSE]
        half(b2, at) ==
            IF (b2.pos + size) % Word > MaxPos THEN bad
            ELSE [ok |-> TRUE, b |-> [b2 EXCEPT !.pos = (@ + size) % Word],
                  half |-> [type |-> type, size |-> size, addr |-> at]]
    IN  CASE type = NOOP                      -> [ok |-> TRUE, b |-> b, half |-> NoHalf]
          [] type # NOOP /\ none              -> bad
          [] type \in {ADD, RUN} /\ ~none     -> half(b1, 0)
          [] OTHER ->
                IF ~addr.ok THEN bad
                ELSE IF AddressBad(addr.addr, size, b.pos) THEN bad
                ELSE half([b1 EXCEPT !.a = addr.next, !.cache = UpdateCache(@, addr.addr)], addr.addr)

Idle == body.cur1.type = NOOP /\ body.cur2.type = NOOP
Finished == Idle /\ body.i > Len(body.INST)

\* xd3_decode_instruction: a code, and the one or two instructions it stands for.
DecodeInstruction ==
    /\ Decoding("EMITTING") /\ Idle /\ body.i <= Len(body.INST)
    /\ LET code == CodeTable[body.INST[body.i] + 1]
           one  == ParseHalf([body EXCEPT !.i = @ + 1], code.type1, code.size1)
       IN  IF ~one.ok THEN DecReturn("INVALID") /\ UNCHANGED body
           ELSE LET two == ParseHalf(one.b, code.type2, code.size2)
                IN  IF ~two.ok THEN DecReturn("INVALID") /\ UNCHANGED body
                    ELSE body' = [two.b EXCEPT !.cur1 = one.half, !.cur2 = two.half] /\ UNCHANGED dec
    /\ UNCHANGED <<tgt, dsrc>>

\* The half instruction whose turn it is.
Turn == IF body.cur1.type # NOOP THEN "cur1" ELSE "cur2"
Half == body[Turn]

NoRoom(take) == Len(tgt) + take >= Word \/ Len(tgt) + take > Space(dec.f["TGTLEN"])

Turned(b, half) == IF Turn = "cur1" THEN [b EXCEPT !.cur1 = half] ELSE [b EXCEPT !.cur2 = half]

\* xd3_decode_output_halfinst of an ADD or a RUN.
OutputData ==
    /\ Decoding("EMITTING") /\ ~Idle /\ Half.type \in {ADD, RUN}
    /\ LET used == IF Half.type = RUN THEN 1 ELSE Half.size
       IN  IF NoRoom(Half.size) \/ body.d + used - 1 > Len(body.DATA)
           THEN DecReturn("INVALID") /\ UNCHANGED <<body, tgt>>
           ELSE /\ tgt' = tgt \o (IF Half.type = ADD THEN SubSeq(body.DATA, body.d, body.d + used - 1)
                                  ELSE [k \in 1..Half.size |-> body.DATA[body.d]])
                /\ body' = Turned([body EXCEPT !.d = @ + used], NoHalf)
                /\ UNCHANGED dec
    /\ UNCHANGED dsrc

\* Of a copy of the target, byte by byte: it may overlap what it writes.
Overlapped(out, from, n) ==
    LET copied[k \in Nat] == IF from + k < Len(out) THEN out[from + k + 1] ELSE copied[from + k - Len(out)]
    IN  out \o [k \in 1..n |-> copied[k - 1]]

OutputTargetCopy ==
    /\ Decoding("EMITTING") /\ ~Idle /\ Half.type >= CPY /\ Half.addr >= CpyLen
    /\ IF NoRoom(Half.size) THEN DecReturn("INVALID") /\ UNCHANGED <<body, tgt>>
       ELSE /\ tgt' = Overlapped(tgt, Half.addr - CpyLen, Half.size)
            /\ body' = Turned(body, NoHalf)
            /\ UNCHANGED dec
    /\ UNCHANGED dsrc

\* Of a copy of the source, as much as the block in memory has of it.
OutputSourceCopy ==
    /\ Decoding("EMITTING") /\ ~Idle /\ Half.type >= CPY /\ Half.addr < CpyLen
    /\ LET at   == dec.f["CPYOFF"] + Half.addr
           b    == at \div BlkSize
           off  == at % BlkSize
           take == SmallerOf(Half.size, BlkSize - off)
           got  == Got(dsrc, b)
       IN  CASE NoRoom(Half.size) -> DecReturn("INVALID") /\ UNCHANGED <<body, tgt, dsrc>>
             [] ~NoRoom(Half.size) /\ ~Loaded(dsrc, b) ->
                    DecReturn("GETSRCBLK") /\ dsrc' = Want(dsrc, b) /\ UNCHANGED <<body, tgt>>
             [] OTHER ->
                    /\ dsrc' = got
                    /\ IF got.onblk # BlkSize /\ off + Half.size > got.onblk
                       THEN DecReturn("INVALID") /\ UNCHANGED <<body, tgt>>
                       ELSE /\ tgt' = tgt \o SubSeq(dsrc.file, at + 1, at + take)
                            /\ body' = Turned(body, IF take = Half.size THEN NoHalf
                                                    ELSE [Half EXCEPT !.size = @ - take, !.addr = @ + take])
                            /\ UNCHANGED dec

\* The window is given out when it is as long as it should be, when nothing of
\* the sections is left over, and when its checksum is right or not looked at.
WindowGood ==
    /\ Len(tgt) = dec.f["TGTLEN"]
    /\ body.d = Len(body.DATA) + 1
    /\ body.a = Len(body.ADDR) + 1
    /\ Bit(dec.f["WININD"], 4) /\ ~dec.nover => Adler32(tgt) = dec.f["CKSUM"]

EmitWindow ==
    /\ Decoding("EMITTING") /\ Finished
    /\ dec' = IF WindowGood THEN [dec EXCEPT !.state = "FINISH", !.ret = "OUTPUT"]
              ELSE [dec EXCEPT !.ret = "INVALID"]
    /\ UNCHANGED <<body, tgt, dsrc>>

\* DEC_FINISH: on to the next window's indicator.
FinishWindow ==
    /\ Decoding("FINISH")
    /\ dec' = [dec EXCEPT !.state = "FIELD", !.field = 9, !.windows = @ + 1, !.ret = "WINFINISH"]
    /\ UNCHANGED <<body, tgt, dsrc>>

DecodeStep ==
    \/ TakeByte \/ EndField \/ (\E sec \in {"DATA", "INST", "ADDR"} : TakeSection(sec))
    \/ SectionsWhole \/ DecodeInstruction \/ OutputData \/ OutputTargetCopy \/ OutputSourceCopy
    \/ EmitWindow \/ FinishWindow

-----------------------------------------------------------------------------
(* Properties *)

\* The window of the source and the room for the target do not come to the
\* width of usize_t together.
SumsFit == CpyLen + Space(dec.f["TGTLEN"]) < Word

\* The copy under way, whatever the patch says, is of bytes that are there: of
\* the window of the source, or of what has been put out already.  A copy that
\* there is no room for is turned down before it is made.
CopiesWhatIsThere ==
    dec.state = "EMITTING" /\ Half.type >= CPY =>
        IF Half.addr < CpyLen
        THEN SumsFit /\ ~NoRoom(Half.size) => Half.addr + Half.size <= CpyLen
        ELSE Half.addr < CpyLen + Len(tgt)
=============================================================================
