# MultiPatch in TLA+

MultiPatch is a macOS program, a window and a command line, that creates and
applies binary patches: BPS, IPS, UPS (by Flips, a submodule that is not in the
repository), XDelta, PPF, BSDiff and RUP. This directory has TLA+ modules of the
patch engines whose source is in the repository, TLC runs that check them on small
instances, and TLAPS proofs of what matters most for every instance.

The application is sequential: one call at a time on the main thread, no locks, no
messages; only the `xdelta3` command, which is in the repository with its library,
starts processes. What makes it hard is elsewhere:

- two functions that share no code have to agree about a format (`bsdiff_perform`
  and `bspatch_perform`, `makePPF` and `applyPPF`), byte by byte;
- the loops live on counters that are corrected as they go (`oldscore`, `lenf` and
  `lenb`, `i--`, `count`) and end only if these are exact;
- patches and files are whatever the user picks: damaged, truncated, for another
  file;
- state outlives a call: static buffers, global `FILE` pointers, `ninja.src` in the
  temporary directory, the trees of an adaptive coder;
- xdelta's encoder and decoder return to their client in the middle of anything, for
  input, output or a block of the source, and must go on where they were;
- a file is patched in place, behind a stream's buffer, and the process may end in
  the middle;
- the results of `fseeko64`, `fwrite`, `fclose`, `ftruncate`, `remove` and `rename` are
  dropped in many places, so that a success may have lost something.

## Inventory

| part | source | state | operations | what makes it correct |
|---|---|---|---|---|
| BSDiff creation | `bsdiff/bsdiff.c` | the scan's positions, the search's bracket, three blocks | load, search, score, cut, finish | buffers never overrun, every byte of the new file accounted for, `oldscore` exact, ends |
| BSDiff application | `bsdiff/bspatch.c` | positions in old, new and three blocks, the output | header, one triple, write | a created patch gives the new file; a corrupt one leaves the output alone and no uninitialised byte gets out |
| PPF creation | `ppfdev/makeppf3_linux.c` | chunk, index, two buffers, the patch | open, header, chunk, record, file_id | the records are exactly the differences |
| PPF application | `ppfdev/applyppf3_linux.c` | `count`, static `binblock`, the file patched in place | open, size, undo and block checks, record | every record, where it belongs if that could be sought and written, or an error and nothing |
| PPF streams | both | globals `ppf`, `bin`, `mod`, `fileid` | `fopen`, `fclose` on every path | nothing leaks, what is used is open |
| RUP application, console readers | `librup/librup.c` | target, `ninja.src`, stream and its buffer, `revert`, header, overflow | convert, sum, XOR, overflow, truncate, restore, rename | the output is the modified, or the original, file; a crash or a rename that fails loses nothing; what is stripped is put back |
| MD5 | `librup/md5.c` | digest state | init, update, final | - |
| XDelta adapter | `XDeltaAdapter.m` | the files, `xd3_stream`, one source block | loop over input, output and source blocks | the output is the target, or a failure is reported |
| xdelta encoder | `xdelta/xdelta3.c` | hash tables, the match at hand, the instruction buffer, three sections | `xd3_encode_input` | every byte encoded once, no match tried for ever |
| xdelta decoder | `xdelta/xdelta3-decode.h` | field, bytes of it read, sections, half an instruction | `xd3_decode_input` | nothing is copied that is not there, a wrong window is not given out |
| secondary compression | `xdelta/xdelta3-second.h`, `-djw.h`, `-fgk.h` | tables of groups; the adaptive tree | encode, decode a section | the section comes back |
| merge | `xdelta/xdelta3-merge.h`, `-main.h` | whole states: instructions and windows of a delta | append, merge, output | the merged delta does what the deltas do in turn |
| block cache | `xdelta/xdelta3-blkcache.h` | blocks with labels, a list by use or a ring | set source, get a block | the block is the one that was asked for |
| xdelta3 command | `xdelta/xdelta3-main.h` | files, names, the library's stream | encode, decode | success means all of the input |
| external compression | `xdelta/xdelta3-main.h` | processes, pipes, who holds which end | fork, copy, wait, kill | nobody waits for ever, failures are told |
| PPF, RUP, BSdiff adapters | `adapters/`, `bsdiff/` | the file at the output path | copy and apply, apply in place, create | success and failure are what happened |
| BPS, IPS, UPS adapters | `adapters/` | none | one call of Flips | - |
| windows, settings, command line | `MP*.mm`, `mbFlipWindow.m`, `MPSettings.m`, `cmdMultiPatch/main.m` | chosen files, remembered format, which window shows, the checksum setting | pick, drop, apply, create, flip | a patch goes to the library that wrote it, the alert is the result |
| xdelta's tests and tools, Sparkle | `xdelta/xdelta3-test.h`, `cpp-btree/`, ... | - | - | not part of the application |

The windows and the command line call the adapters, and these the engines. The
engines share nothing but the file system, except that the two PPF files share
globals with each other. The application uses xdelta's library by
`XDeltaAdapter`; `xdelta3-main.h` is the library's own command, with the block
cache, merging and external compression.

`PROJECT.json` lists, under `hazards`, what is hard to test in this code, at its
line, with the properties that cover it.

## The modules

| module | models |
|---|---|
| `ByteFiles` | a file as a size and a function from offsets to bytes |
| `BSDiff`, `BSPatch` | `bsdiff_perform`; `bspatch_perform`, on any patch |
| `BSRoundTrip` | both: a patch is created and applied |
| `PPFFormat` | PPF patches: header, block, records, sizes |
| `PPFCreate`, `PPFApply` | `makePPF`; `PPFAdapter`'s `ApplyPatch` and `applyPPF`, repeatedly, and undo |
| `PPFRoundTrip` | both: a patch is created and applied, again and again |
| `PPFStreams` | the global `FILE` pointers through any sequence of calls |
| `RUPApply` | `RUPAdapter`'s `ApplyPatch` and `rup2_apply`, repeatedly, with crashes |
| `MultiPatch` | windows, flip, settings, adapters, command line; extends `PPFStreams` |
| `XDVcdiff` | integers, code table, choice of instructions, address cache: what encoder and decoder share |
| `XDIopt` | the instruction buffer: overlapping matches and how they are trimmed |
| `XDSource` | the source, one block at a time |
| `XDEncode`, `XDDecode` | `xd3_encode_input`, `xd3_decode_input` |
| `XDLoop` | `code()` around both; implements `XDContract` |
| `XDContract` | what applying a patch promises |
| `XDHuffman`, `XDFGK` | the two coders of sections, as operators |
| `XDSecond` | `xd3_encode_secondary` and `xd3_decode_secondary` with them, window after window |
| `XDMerge` | `xdelta3 merge` |
| `XDBlocks`, `XDMain` | the block cache; `main_input` with it |
| `XDPipes` | external compression |
| `BSDiff_proofs`, `BSRoundTrip_proofs` | proofs about BSDiff |
| `PPFRoundTrip_proofs` | proofs about PPF |
| `RUPApply_proofs` | proofs about RUP |
| `XDLoop_proofs` | proofs about the xdelta decoder and encoder |
| `XDMain_proofs`, `XDPipes_proofs` | proofs about the `xdelta3` command, its block cache and external compression |
| `MultiPatch_proofs` | proofs about the application and the PPF streams |
| `MC*` | files, patches and constants for TLC |

A variable has its C name where it stands for a C variable; a definition that
translates code has the lines in `PROJECT.json` under `map`. A definition whose
comment begins with "A slip" is no part of the model: it is a plausible mistake in
the definition below it, put in its place to see that a property notices.

**BSDiff.** The new file is scanned from left to right: `search` finds the longest
match in the sorted suffixes of the old file, the loop over `scan` looks for a
match that beats the continuation of the last one by more than 8 bytes, and a cut
writes a triple. `NextMatch`, `StartSearch`, `Narrow` (one turn of the search's
tail recursion) and `Score` are the two loops, `Cut` and `NoCut` their end.
`lenf`, `lenb` and the split of an overlap are chosen by the code as the first
maximum of a running score; the model takes any maximum, so that the properties
do not rest on the first. `qsufsort` is its result, the order of the suffixes.

**BSPatch.** One action per turn of the loop over triples. A patch is any record
with a magic, a length and three blocks, lengths negative or too large
included. `new` is memory nobody wrote until a block fills it (`Unset`). The
output is one of untouched, truncated (`Partial`) or written. `err()` ends the
process (`Exited`).

**PPFCreate.** The files are read in chunks of `ChunkSize`; a run of differing
bytes becomes records of at most `MaxRun` bytes. `y` and the header's `binblock`
start with what memory held (`Junk`), and `fread` overwrites only as much as the
file has. `RunLength` and `After` are the `do..while` and the `i--`.

**PPFApply.** `count` starts as the size of the patch less header and file_id.diz
and is taken down record by record; `LoopOver` is `count = 0` and nothing else. Past
the last whole record the loop reads nothing or part of one and goes on: `RunOn`.
`output` is the file at the output path, `binblock` the static buffer. Prompts
are answered by any of `Answers`: only "n" in a build with `NO_PRINTF`, both in
one without. Calls follow one another (`Dismiss`), and the user may remove the output.
The code looks at no result of `fseeko64`, `fwrite` and `fclose`. `Sought` leaves the stream
where it stands (`place`) when the offset, a signed number of 32 or 64 bits, is negative, or
when bytes written before cannot be flushed; of what is written with `WriteAt`, any number of
bytes may not get through, at once or later, which `lost` remembers, and the file does not grow
beyond `Room`. The call goes on and returns success.

**PPFStreams.** A `FILE` object is a member of `Streams`, and `fopen` returns any
that is not open, the one closed last included: a stale pointer may come to life
again. `fclose` on a stream that is not open is undefined; the model lets it do
nothing. `ApplyClosesOpen` says that `applyPPF` never does it; `CloseAllFiles` does.

**RUPApply.** The adapter copies the input and `rup2_apply` works on the copy.
`fo` is buffered: what `fwrite` is given reaches the file at the next `fseek` or
`fclose`, or a part of it before; `ftruncate` does not go through the buffer.
Any write may lose bytes, which `lost` remembers; `remove` may fail and leave the target,
`rename` may fail (the target is on another volume than the temporary directory) and leave
`ninja.src`: the call goes on and returns success (`RemoveTarget`, `Rename`).
`Crash` ends the process anywhere in a call, loses locals and buffer and leaves
both files as they are. An MD5 sum stands for the bytes it is of. A byte has two
bits, and one byte stands for a header that is stripped.

**MultiPatch.** A path is a stem and its suffixes, a file is absent, data, a patch
by a library from one file to another, whole or damaged, or junk. There are patches made
elsewhere (`Found`; RUP patches, which cannot be made here, among them). A call of Flips,
bsdiff, XDelta or RUP is one step with any of the outcomes the library can have
(`ApplyOutcomes`, `MakeOutcomes`); a call of PPF runs through `PPFStreams`, whose pointers
live as long as the program. The outcomes have what the libraries do not notice: a
success that lost bytes, or the file itself (`Losing`: PPF, XDelta, RUP); a damaged patch taken
for a whole one (`DamagedPatch`); a patch between files of two sizes, which PPF and RUP may
apply without reaching the other file (`Resizes`); a wrong file in a format that has no checksum
(`WrongFile`). Flips is not in the repository and is taken to notice its failures; `bsdiff.c` and
`bspatch.c` check all of their writes. `Restart` ends the program anywhere, also in a call,
whose output is then anything the call may leave.
The command is a process of its own and is one step. An alert is modal: only `Okay`
goes on.

**The xdelta library.** `XDEncode` goes through `xd3_encode_input` by the states of
its loop: `Search` begins a search, `TryRun`, `TryLarge`, `TrySmall` and `UpdateOne` are
the string matcher at one position, `MatchSetup`, `ExtendBack` and `ExtendForward`
work on a match of the source and return to the client where the block that is
needed is not in memory; what is not in `xd3_stream` at that point is lost, as in
the code. `TakeSlot` to `SlotsEmptied` are the instruction buffer, `Finalize` to
`PostWin` the end of a window. A checksum is the bytes it is of, except Adler-32,
which is written to the patch and is the sum it is. `XDDecode` has an action for the
end of a field, one for a section and one for each kind of output. `XDLoop` is
`code()`: `ReadInput` and `WritePatch` while a patch is made, `ReadPatch`, `WriteTarget`
while it is applied; `Damages` may cut or change the patch in between, and the
disk may be full (`WriteTargetShort`).

**XDContract** is the abstract specification: the output is at any time the first
part of the file the patch was made for, is called done only when it is that file,
fails only for a reason, and one of both happens. `XDLoop` instantiates it with a
mapping of its variables; `KeepsContract` is the safety part, `Ends` the liveness
part, both checked as properties of `XDLoop`.

**XDSecond** takes one kind of section through a coder, window after window. The
Huffman coder proceeds by the iterations of its tables (`Evolve`); the gain it tests
is unsigned in the code, so that a loss counts as a large gain, and so it does here.
`XDHuffman` has RECURSIVE operators: it is for TLC only.

**XDMerge** is `main_merge_arguments` and what `main_input` does for the last delta.
Deltas may be cut at any window, and windows may copy from where the delta before
has nothing.

**XDBlocks** keeps the cache in one record; `XDMain` asks it for any block at any
time, in windows that come out of `main_input`'s loop. A file is its length and
what of it can be read; it may be a pipe, and a seek may fail.

**XDPipes.** The parent, the copiers, the decompressors and the recompressor are
processes; a pipe is what is in it and who holds its ends, inherited by a process
forked while they are open. A decompressor may fail at any point, or end before
its input does, and cleaning up kills what is left.

## The runs

Each has a `.cfg`; the numbers are distinct states.

| run | module | shows |
|---|---|---|
| `bsdiff_roundtrip` (450,715) | `MCBSRoundTrip` | creation: buffers, offsets, `oldscore`, completeness, termination; then application: `RoundTrip`, `NeverRefused` |
| `bspatch_any` (375,373) | `MCBSPatch` | patches nobody made: no uninitialised byte gets out, a corrupt patch leaves the output alone |
| `ppf_roundtrip` (6,766,860) | `MCPPFRoundTrip` | the records are the differences; created patches give the modified file and, undone, the original, unless writes are lost; their own file is not turned down |
| `ppf_apply` (1,388,964) | `MCPPFApply` | all versions, whole and odd patches, negative offsets, writes that fail, prompts: success means every record, in its place if it has one and was written; an error means an untouched file |
| `rup_apply` (5,632,522) | `MCRUPApply` | output exact in both directions, replacement complete before the target goes, no dump lost whatever fails of `remove` and `rename`, verdict about the input |
| `shell` (1,387,292) | `MCMultiPatch` | a patch is read by the library that wrote it, Finished! means it with the exceptions the libraries make; no PPF stream leaks, what is used is open |
| `xd_code` (100,798) | `MCXDCode` | encoder, decoder and `code()` keep the contract and end; the buffer of instructions stays in order, and what is encoded is the window |
| `xd_second` (30,220) | `MCXDSecond` | sections come back, codes are prefix free, trees are sound |
| `xd_merge` (160,515) | `MCXDMerge` | a merged delta does what its deltas do, and a cut one is told |
| `xd_main` (29,276) | `MCXDMain` | blocks are those asked for, success is complete, the output is opened late |
| `xd_pipes` (354,755) | `MCXDPipes` | all processes end, a success is of whole data |
| `xd_fgk` | `MCXDSecond` | the finding below |

### Bounds, and why they are enough

- `MCBSRoundTrip`: all files of at most 4 bytes over 0 and 255 (the carry of
  `% 256` in both directions) in all pairs, and six files of 20 to 26 bytes with
  the edits that a patch is for: a byte changed, a block moved, bytes inserted and
  deleted, a repeated block. The 8 of `len>oldscore+8` is the constant `Fuzz`, 2 in
  the run: it is met by short files and by edited ones. Safety is also proved for
  every `Fuzz` and every file.
- `MCBSPatch`: up to two triples with fields from -1 to 2, blocks of up to 2 bytes:
  each test of `bspatch_perform` fails alone and with others, before and after a
  triple that succeeded.
- `MCPPFRoundTrip`: files of at most 4 bytes in all pairs of sizes, chunks of 3,
  records of 2: a run that is cut by the limit, by the end of a chunk, by both, and
  a second chunk that is not full; application to any of those files, three option
  sets; every write may stop after any byte; calls repeat without a bound. `Room` is 4, so
  that no created record is kept from its place.
- `MCPPFApply`: four record lists, none, overlapping, descending and behind the
  end, and one with negative offsets between others; a file shorter than the block and one
  as long; every combination of version, undo, block, file_id.diz (none, empty, text) and a
  torn last byte (for the negative offsets, of file_id.diz none and text). `Room` is 5, one
  byte more than the record behind the end needs.
- `MCRUPApply`: dumps of two and four bytes, patches that keep, grow and shrink
  them, for four types; every write may lose any of its last bytes, every `remove` and `rename`
  may fail; calls and crashes without a bound.
- `MCMultiPatch`: three streams, as many as are ever open at once; two files of one length
  and an output; a name for patches that has its suffix already; two patches
  made elsewhere, a RUP patch with its suffix in capitals and a PPF patch to a longer file; the
  formats that differ in what the model says of them; two calls (`MaxCalls`), the second on
  what the first left. `Streams` is symmetric: a stream is only compared and handed out.
- `MCXDCode`: blocks, windows and pages are scaled down (16 bytes, a window of two
  blocks, a large checksum of 6 bytes, a small one of 4), and files of up to 72 bytes
  are made so that each part has work: copies across blocks and backwards into an
  earlier one, runs cut by a window, lazy matches that overlap, an instruction buffer
  of 4 slots that fills. Integers are of 28 bits (`WordBits`), four groups of seven, so
  that the overflow test is met. Damaged patches: every prefix, and every byte
  replaced by each of eight others, of two patches.
- `MCXDSecond`: alphabets of 3 and 6 symbols, codes of at most 4 bits, 20 in
  the code, with the tables scaled alike; all sections of up to 6 symbols for the adaptive coder and
  up to 3 for the other, a Fibonacci distribution for the longest codes, every single
  bit changed of three examples.
- `MCXDMerge`: up to three deltas of at most two, two and one windows from a menu of
  windows that copy before, across and behind the pieces of the delta before.
- `MCXDMain`: a cache of 4 bytes in one block or two, sources shorter, as long and
  longer, of which part or all can be read; at most five blocks are asked for
  (`MaxAsks`).
- `MCXDPipes`: inputs of two blocks, pipes that hold one, at most two writes
  (`MaxWrites`).

Where `CHECK_DEADLOCK FALSE` stands, the model ends when the call has returned or
the process is over (the BSDiff and the xdelta modules) or when nothing more can be
created (`PPFRoundTrip`). `PPFApply`, `RUPApply` and `MultiPatch` go on forever and are
checked for deadlock.

### Fairness

`DiffTerminates` and `Ends` say that a call that was made returns. The fairness is
weak fairness of the steps of the running call and nothing else: the call runs on
the program's only thread, so that its next statement is executed. `AllEnd` has
weak fairness for each process of `XDPipes` by itself: the system schedules every
process that can go on. The failures of a process have none; neither have the user
and a crash.

## Findings

- `xd_fgk`: `xd3_encode_secondary` (`xdelta3-second.h:247-322`) runs the adaptive coder
  over the section, which updates its tree, and then keeps the section as it is when
  it did not get shorter. The decoder does not decode such a section and its tree stays
  behind: the next compressed section of the same kind comes out wrong. The `xdelta3`
  command, built from these sources, fails so with `-S fgk` and several windows. The
  application does not ask for secondary compression.

### Known disagreements

What the code does here is part of the models; the properties are stated with the
exceptions it makes necessary, and their comments say so.

- `makeppf3_linux.c:611-612` takes both sizes of `bin`: the test "Check if files have
  same size." never fails and a patch of two files of different sizes is made; the
  adapter's message for it is never shown. (`RoundTrip` and `RecordsExact` of
  `PPFRoundTrip` speak of the bytes both files have.)
- `do..while(count!=0)` in `applyppf3_linux.c:428`: a patch of two equal files has no
  record, and applying it never returns (`RunOn`).
- `CloseAllFiles` (`makeppf3_linux.c:649`) closes streams that were closed by an earlier
  call, because no pointer is ever reset. That is undefined in C; `PPFStreams` lets it do
  nothing, and no property forbids it. (`UsedAreOpen` and `NoneLeftOpen` say that, if it does
  nothing, no stream in use is closed by it and none is left over.)
- A call that ends in `RUP_MD5_MISMATCH` (`librup.c:275`) leaves `ninja.src`; the next
  patch for a raw file sums it instead of the target and turns the right file down.
  (`VerdictExact` asks for a `clean` start.)
- `ftruncate` (`librup.c:366`) is called with bytes still in the stream's buffer, which
  `fclose` writes behind the new end: a file that should shrink does not (`Shrinks`).
- `librup.c:415-416` drops what `remove` and `rename` return. With the temporary directory on
  another volume than the target `rename` fails (EXDEV) after the target was removed:
  the call returns success, there is no file at the output path, and the result is in
  `ninja.src`, which the next call then takes for a conversion of its own. (`PatchedExactly`
  says that one of the two is the result, `DumpSurvives` that it is nowhere lost.) The
  results of its `fwrite`, `fclose` and `ftruncate` are dropped as well (`lost`).
- `applyppf3_linux.c` drops the results of `fseeko64` (198, 301, 423), `fwrite` (202, 305, 424)
  and `fclose` (105). An offset is read into a signed `int` (168, 218) or a signed 64-bit number
  (321): a negative one cannot be sought, the record is written where the stream
  stands, and the call returns 0; so it does when the disk is full. (`AppliedInFull` says
  where the records are only if all could be sought and written: `Placeable`, `lost`.)
- `PPFCreateHeader` writes what the stack held to the validation block of a file that
  ends before it (`makeppf3_linux.c:574`): the patch is turned down by the file it was
  made of (`OwnPatchAccepted`).
- `code()` ignores the verdict of `xd3_close_stream` (`XDeltaAdapter.m:175`): a patch that
  was cut between two fields or in one is a success with a shorter output. A `fwrite`
  that writes nothing returns 0, success (`XDeltaAdapter.m:121`). A file that cannot be
  opened goes to `fclose`, and the input to `fseek`, as NULL.
- For these reasons the application says Finished! although a PPF, XDelta or RUP output is
  not whole, or not there: when bytes or the file were lost on the way to the output, when the
  patch is damaged, and, for PPF and RUP, when the patch is between files of two sizes
  (`FinishedIsPatched`: `call.lost`, `IsDamaged`, `Resizes`).
- The command line takes a patch with an unknown suffix for patched
  (`cmdMultiPatch/main.m:86`); `animationDidStop` with `finished` NO leaves no window
  on screen (`mbFlipWindow.m:130`); a Delta BPS whose name has its suffix already is
  made as a linear one (`MPCreationWindow.mm:97`).
- `main_secondary_decompress_check` does not pass on the error of its second read of
  the first block (`SuccessIsComplete`, `lost`).
- With a small buffer of instructions (`xdelta3 -I`), `xd3_iopt_flush_instructions` can be left
  with two matches that overlap and are undecided, and makes room by encoding the first
  whole (`xdelta3.c:2471-2489`). The second then begins before `unencoded_offset`, against the
  assertion of `xdelta3.c:2222`. With `slots` 4 TLC finds it on a window of 64 bytes; with 16 not.
  `code()` has an unlimited buffer, for which that part of `EncodedExactly` is stated.
- `xd3_source_match_setup` can fail where `xdelta3.c:3153` says that it cannot; what
  follows is right in either case.

## What is proved

The theorems hold for every value of the constants that the named assumptions allow, and
these say what the code itself guarantees of its inputs: `FilesAssumption`, a file is
bytes from 0 to its size; `FuzzAssumption`, a natural number; `PatchesAssumption` and
`ApplyAssumption`, a patch is what its fields can be read as, whatever they hold: an offset is
any integer, negative ones included (`Readable`);
`CreateAssumption`, `FormatAssumption`, chunk, record and block have a length, `y` and
the header start as bytes; `InputsAssumption`, `MayCrashAssumption` and RUP's own `PatchesAssumption`, files and XOR
commands are bytes at offsets that are natural numbers; `PipesAssumption`,
a pipe holds at least one block and a command has one or two inputs at most;
`BlocksAssumption`, the cache can be cut into `MaxLru` blocks (a power of two of at least
XD3_MINSRCWINSZ bytes, into 32); `WordAssumption`, `SourceAssumption`, an integer has at
least 14 bits and a block a byte; `DecodeAssumption`, what is allocated for a window is not
less than its size; `EncodeAssumption`, the matcher's numbers are positive and its strings fit in a block; `LoopAssumption`, files are bytes; `CasesAssumption`, files have lengths and the parts of a
patch are not empty;
`StreamsAssumption`, three streams; `ShellAssumption`, names are sequences, a file
of data has no patch's name and a patch made elsewhere has the suffix of its format. None of the invariants below is inductive alone: each
module names the strengthening, one lemma per action shows that it is kept, and the
theorems follow from it.

**The scan of `bsdiff_perform`** (`BSDiff_proofs`). `DiffTypeOK`, `BuffersFit`,
`OffsetReadsInBounds` and `Complete` hold for files of any length. `DiffInv` adds
`ScanInv`: after a search, `scan+len` does not
exceed the new file; `scan+lastoffset` is not negative; and where the scan has come
to the end with nothing left to cut, the last triple ended there. The heart is
`CutEffect` and `TripleBounds`: whatever maxima `lenf`, `lenb` and `lens` are, the
new `lastscan` lies between the old one and `scan`, and the triple's lengths are
not negative and add up to the distance. This part uses nothing of the search
but the range of its result, so it holds also for a suffix sort that is wrong.

`OldscoreExact`, the running count is the count it stands for, needs the search to be
right. `SuffixArraySorted` shows that suffixes are totally ordered and that numbering
them by how many are smaller gives the sorted array the model begins with;
`NarrowKeeps` that the bracket of the binary search keeps the byte looked for
between its ends; `NothingMissed` that a search which finds nothing looked for a byte
the old file does not have. That is what `ScoreExact` needs: where the loop over
`scsc` stops early, the bytes it did not count do not match. Counting is done by
cardinalities of sets and induction by a least counterexample (`LeastMember`).

**`bspatch_perform` on any patch** (`BSRoundTrip_proofs`, its second part). `NothingUninitialised`, no byte of
malloc'ed memory reaches the output, and `CorruptLeavesTarget`, a patch found corrupt has
not touched the output. `TripleFills`: a triple that passes the tests fills the memory
from `newpos` on and writes nothing behind it, so that the loop ends with all of it filled.

**Creation followed by application** (`BSRoundTrip_proofs`). `RoundTrip`, a patch
applied to its old file gives its new file, and `NeverRefused`, no created patch is
found corrupt, whatever file it is applied to. The invariant is a chain (`Chain`):
`marks` records where each triple starts in the new file, the old file and both
blocks, and `TripleCovers` says that a triple leads from one mark to the next and
that its bytes, added to the old file's or literal, are the new file's. `Follows` says
that `bspatch_perform` stands at a mark before each turn and has rebuilt the new
file up to there. A cut extends the chain (`CutChain`), a turn follows it
(`TurnKeeps`), and `Handover` keeps the patch unchanged in between.

**`applyPPF`, call after call** (`PPFRoundTrip_proofs`, its first part). `AppliedInFull`, success means that
every record had its turn, in order, whatever the fields hold, and, if all of them could be
sought and written (`Clean`: `Placeable` and not `lost`), that the file is what they make of it
as it was when the call began;
`RefusedUntouched`, an error means an untouched file; `ValidatedWhatIsThere`, what was
compared of the validation block is what the file has of it, whatever an earlier call
left in the static buffer. The invariant says at each turn of the loop that `count` is
the size of the records that are left (`BytesLeft`, from the recursive size of a list
of records, again by a least counterexample), wherever they went, and, while `Clean`, that the
file holds what the records so far make of it (`WrittenIsFile`, `WrittenByte`: the last record that covers a byte
decides it).

**`makePPF`, then `applyPPF`** (`PPFRoundTrip_proofs`, its second part). `RecordsExact`: records are the
differing bytes, in order, without gaps between adjoining ones unless one is full or
ends a chunk. The invariant keeps that the records are behind what has been compared
(`RecordsBehind`), that one may touch the byte at hand only for one of these reasons
(`LastTouches`), and that `y` is what was read of the modified file. `OwnPatchAccepted`
takes the created patch through applyPPF's tests; `RoundTrip` combines `RecordsExact` with
`AppliedInFull`: what is applied gives the modified file, and undo
the original. A created record's offset is a natural number, so that only `lost` is left of
`Clean`.

**`rup2_apply`, with crashes and failing calls** (`RUPApply_proofs`). `PatchedExactly`,
`ReplacementComplete`, `DumpSurvives` and `VerdictExact`, whatever lies in the
temporary directory, wherever the process ended, however much of the stream's
buffer went out, and whether or not `remove` and `rename` did anything. Once bytes of a write
are `lost` they say nothing. `DumpSurvives` is about a dump that is converted: from the first step of
the call on, the target is the input, or the whole result is at the target or in `ninja.src`; it
needs that the conversion never writes to the target and that `ninja.src` is complete
(`ReplacementComplete`) before the target is touched. The invariant looks at the file as it will be when the buffer is out
(`Flushed`): a byte is the wanted one once its record is through, and the one of the
file the patch is applied to before (`Patched`), which makes XOR run in either direction.
`PokeSplit` says that what reaches the file in two parts reaches it as one.

**The `xdelta3` command** (`XDMain_proofs`, its first part). `SuccessIsComplete`: success
means that all of the input went through, in full windows but the last or in whole
windows of the patch; `OpenedLate`: the output is not touched before a window is there.
`LoopInv` accounts for the input: what was read is what waits (`avail`), the header, and
the windows done (`Accounts`); a read that was not full was the last, unless its error
was dropped (`EndSeen`); and an encoder's windows are full as long as the reads are.

**The block cache** (`XDMain_proofs`, its second part). `BlocksServed`: whatever blocks
were asked for before, the one served is the one asked for and all of it; a block is
refused as too far back only when one a whole ring ahead of it was asked for; and of a
file that can be positioned, the blocks used last are in memory. This is for every file,
every size of cache and every sequence of requests, with reads that fail and a first
read whose error is dropped. `CacheRests` says what holds between two requests. Every
block in memory is the part of the file that its label says, and the file is at a block's
start or at its end (`Faithful`): without that, reading on from where a pipe is would
label blocks wrongly. In a ring every block is in its own place (`RingPlace`) and, when
the file cannot be positioned, the ring holds nothing but the blocks before some `M`,
the file not being before them (`RingAt`): that is why `main_read_seek_source` always
finds the file before the block it looks for, and a slot with an older block for what it
reads over (`SkipStep`), as the code's XD3_ASSERT (is_new) and (skip_offset == 0) expect.
A list of recent use is in the order in which the last blocks were asked for
(`RecentRight`). `SkippedGood` is the induction over the blocks that are read over; the
encoder's cache, which scans, is a ring (`BlkInv`), so that it may go on after a
block that is too far back.

**The xdelta decoder, on any patch** (`XDLoop_proofs`). `CopiesWhatIsThere`: a copy that
`xd3_decode_output_halfinst` is about to make, of the source's window or of the target so
far, is of bytes that are there, whatever the patch says, however it is handed in and
whatever the client does between the calls. A copy is looked at when it is parsed
(`xdelta3-decode.h:273-362`), before the instruction's first half is put out and up to
many calls before its own last byte is: `InstructionsGood` says that `dec_position` is then
never further than the window's start and the output there will be, so that what was
before `dec_position` when the copy was parsed is before the output's end when it is made,
and that what is left of a copy that came back for a block is as good as the whole of it
(`RestOfCopy`, `TakenBytes`). That needs the decoder's place: `CPYLEN` is 0 unless
the window's indicator says otherwise, and not left over from the window before (`Said`);
the sections are taken up to their sizes one after the other (`SectionsGood`); a window of
the source has a source (`SectionsWhole`). The integers come from a recursive reader,
which is shown to return numbers for any bytes (`ReadSizeType`), and the 256 instructions
from the code table (`CodeTableType`), by a least counterexample again. The
addition in the test at parsing wraps at 2^w, where a sum that wrapped may pass; the property is
therefore about copies there is room for, `NoRoom` turning down the others before they are
made, and windows whose sizes add up to less than 2^w (`SumsFit`; the code compares
`CPYLEN` plus the target's length with 2^w, where the space allocated is rounded up).

**The xdelta encoder, on any input** (`XDLoop_proofs`, its second part). `BufferInOrder`: in
the buffer of instructions each match begins and ends behind the one before it and is
worth its instruction, as `xd3_iopt_check` and the assertions of `xd3_iopt_erase` and
`xd3_iopt_flush_instructions` expect; for any files, window, size of buffer and depth of
search, and whatever blocks of the source the client has. `EncodedExactly`: what is
encoded writes the bytes the input has there, from inside the window of the source that the
header tells the decoder, and no byte of a window is encoded twice or left out, with the buffer
`code()` has, an unlimited one. The matches come
from four places (runs, strings of the window, copies of the source in two directions, what
an earlier call left), so that the invariant, `EncoderInvariant`, says at each statement what
a match found there would do to the buffer. `min_match` at a position is what a match there
must have to end behind the last one (`Ready`): it is set to `MIN_MATCH` when nothing is
left over, grows by what is, and shrinks by one with each byte (`UpdateOneKeeps`), and a lazy
match moves it by a whole match. A copy that grows backward over earlier matches takes
them out of the buffer (`UncoveredOrdered`), and `NewGood` keeps what that left true while the copy waits
for a slot, across a flush of the buffer. `MatchUnderWay` and `SourceGood` keep the
copy within the input and within what of the source is known, also when its size turns
out only at its end. `SplitInsts` is the arithmetic of a split, with the rounding of
`front_overlap`; `CompactOrdered` that it leaves the order; `Apart` that compaction
leaves nothing overlapping behind it, so that what is encoded next begins where the last
one ended.

That instructions write the right bytes is a second invariant, `ExactInvariant`, which rests
on the first (`ExactSafe`). An instruction that was found right stays right when it is
cut, split or taken out again (`PartRight`, `CompactRight`, `UncoveredWere`), when the
source's window is decided on in the middle of the encoding (`WiderRight`, `DecidedWide`:
the guess is never narrower than the matches so far, since the encoder knows where the source
ends only when it has seen the end, `EndKnown`), and while it waits for a slot. It was found
right because a match that grows keeps what agrees on both sides, one block of the source
at a time and across calls (`MatchRight`); because `run_l` counts bytes that are equal, also over
`NEXTRUN` and a restart (`RunRight`, `NextRunAt`); and because the table of strings of the window
holds places before this one only (`SmallRight`). `xd3_smatch` goes along a list of such places:
its recursion is bounded by the depth of search, and is shown to have a solution and to end at a
place not behind the first (`LooksExist`, `LongestPlace`), which is the assertion at
`xdelta3.c:4200` that a copy begins before what it writes.

**External compression** (`XDPipes_proofs`). `DoneIsWhole`: success means all input
decompressed and read, all output recompressed and written. What a decompressor wrote
is in its pipe or was read (`Decompressed`); the recompressor ends well only on a closed
and empty pipe; what was waited for ended well (`WaitedFor`), and the verdict comes last.

**The application** (`MultiPatch_proofs`). `SameLibrary`, a patch goes to the library that
wrote it, from both windows and from the command line; `FinishedIsPatched`, Finished! is
true but for the exceptions it names (`Delivered` is what a library's success
delivers); for all names, patches made elsewhere, suffixes, files and sequences of calls, restarts included. The
invariant follows the remembered format through the windows (which format's name, which
suffix), and a call from its button to its alert. `NoneLeftOpen`, `UsedAreOpen` and
`ApplyClosesOpen`, by `OpenInv`: which of the PPF files' pointers are open, and that
nothing else is, at each statement. While `CloseAllFiles` runs it is only an inclusion,
since a stale pointer may have closed a stream before its turn.

## What is only model-checked

- Termination (`DiffTerminates`, `Ends`, `AllEnd`): liveness is out of the prover's reach.
- `XDLoop` against `XDContract` (`KeepsContract`). It is not true of all constants: the
  decoder gives out whatever has the window's Adler-32, so that a damaged patch with
  another window of the same sum is a wrong output; the runs have no such patch. Without
  damage it would need that the decoder reads the bytes which the encoder wrote as the same
  instructions, which is induction over the sections.
- `SectionsReturn`, `CodesArePrefixFree`, `TreesSound`, `MergesWhatFits`, `MergedDecodes` and
  `CutIsTold`: what `XDHuffman`, `XDFGK` and `XDMerge` compute is recursion over data, with
  RECURSIVE operators, and stays with TLC.

## What is not modelled

- bzip2 is transparent, and its `int` lengths are not limited. MD5 has no collisions.
- `qsufsort` is its result. The console formats that reorder bytes (`n64_read`,
  `sms_read`, `mega_read`, `sfam_read`) are left out, and with them the multiplication
  in `librup.c:648`, where the table's entries are the chunk numbers themselves.
- RUP patches of several files and the names in them.
- Writes behind the end of the file while `applyPPF` runs on past its records, and
  in `PPFCreate` the `fwrite`s of `WriteChanges` that may fail (`MultiPatch` has a patch of which
  bytes are lost, as a damaged one that is called a success).
- In `RUPApply`, offsets from 2^63 on and an `fseek` that fails after a write that failed; no
  property says anything of either.
- `makeppf3_main`'s and `applyppf3_main`'s arguments; undo is modelled although only
  `applyppf3_main` offers it.
- xdelta: LZMA, application headers, the matchers other than the one `code()` gets,
  VCD_TARGET (the code refuses it), the printing, recoding and option parsing of the
  command, its tests (`xdelta3-test.h`, `testing/`), `cpp-btree/`, `rcs_junk.cc` and the
  examples, none of which the application calls.
- An XDelta or RUP output that has the name of its input; Flips and Sparkle, whose
  sources are not here.

## Plan

Done, in this order: the BSDiff modules and their proofs; the PPF modules; the streams
and their proofs; RUP; XDelta, from the format to the adapter; the `xdelta3` command
and what it is made of; the application.

Left are proofs: the steps of `XDLoop` against those of `XDContract` for the loop itself,
with what encoder and decoder do to each other as the assumption.
