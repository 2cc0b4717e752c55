-------------------------- MODULE MultiPatch_proofs --------------------------
(***************************************************************************)
(* The windows, the command line and the streams of ppfdev they share: for  *)
(* all names, files, sets of streams and sequences of calls.               *)
(***************************************************************************)
EXTENDS MultiPatch, SequenceTheorems, TLAPS

-----------------------------------------------------------------------------
(* The streams of ppfdev, whoever calls it.                                *)

\* What is open at each statement: exactly what the running function opened,
\* except that CloseAllFiles may close a stream before its turn through a stale
\* pointer that has come to life again.
OpenInv ==
    /\ pc \in {"idle", "apply_ppf", "apply", "make_mod", "make_ppf", "make", "close",
               "close_apply"}
    /\ ptr \in [Globals -> Streams \cup {NULL}]
    /\ open \subseteq Streams
    /\ pc \notin {"close", "close_apply"} => closing = <<>>
    /\ pc = "idle" => open = {}
    /\ pc \in {"apply_ppf", "make_mod"} => open = {ptr["bin"]}
    /\ pc = "apply" => open = {ptr["bin"], ptr["ppf"]} /\ ptr["bin"] # ptr["ppf"]
    /\ pc = "make_ppf" => open = {ptr["bin"], ptr["mod"]} /\ ptr["bin"] # ptr["mod"]
    /\ pc = "make" => /\ open = {ptr["bin"], ptr["mod"], ptr["ppf"]}
                      /\ ptr["bin"] # ptr["mod"] /\ ptr["bin"] # ptr["ppf"]
                      /\ ptr["mod"] # ptr["ppf"]
    /\ pc = "close_apply" =>
          \/ /\ closing = <<"bin", "ppf">>
             /\ open = {ptr["bin"], ptr["ppf"]} /\ ptr["bin"] # ptr["ppf"]
          \/ closing = <<"ppf">> /\ open = {ptr["ppf"]}
    /\ pc = "close" =>
          \/ closing = <<"ppf", "bin", "mod">> /\ open \subseteq {ptr["ppf"], ptr["bin"], ptr["mod"]}
          \/ closing = <<"bin", "mod">> /\ open \subseteq {ptr["bin"], ptr["mod"]}
          \/ closing = <<"mod">> /\ open \subseteq {ptr["mod"]}
          \/ closing = <<"bin">> /\ open \subseteq {ptr["bin"]}

\* The ends of the closing lists, as literal tuples.
LEMMA Tails ==
    /\ Tail(<<"ppf", "bin", "mod">>) = <<"bin", "mod">>
    /\ Tail(<<"bin", "mod">>) = <<"mod">>
    /\ Tail(<<"bin", "ppf">>) = <<"ppf">>
    /\ Tail(<<"mod">>) = <<>> /\ Tail(<<"bin">>) = <<>> /\ Tail(<<"ppf">>) = <<>>
    /\ Head(<<"ppf", "bin", "mod">>) = "ppf" /\ Head(<<"bin", "mod">>) = "bin"
    /\ Head(<<"bin", "ppf">>) = "bin" /\ Head(<<"mod">>) = "mod"
    /\ Head(<<"bin">>) = "bin" /\ Head(<<"ppf">>) = "ppf"
    /\ <<"bin", "mod">> # <<>> /\ <<"mod">> # <<>> /\ <<"ppf">> # <<>> /\ <<"bin">> # <<>>
    /\ <<"ppf", "bin", "mod">> # <<>> /\ <<"bin", "ppf">> # <<>>
  OBVIOUS

-----------------------------------------------------------------------------
(* The windows and the command.                                            *)

Libs == {"flips", "ppf", "xdelta", "bsdiff", "rup"}
Formats == {"ups", "ips", "ppf", "bps", "rup", "xdelta", "bsdiff"}

\* What a file can hold.
Contents ==
    {Absent, Junk} \cup {Holds(d) : d \in Names}
    \cup {<<l, a, b>> : l \in Libs, a \in Names, b \in Names}
    \cup {Damaged(l, a, b) : l \in Libs, a \in Names, b \in Names}

Calls == [at : {"idle", "copy", "lib", "ppf", "alert"}, kind : {"none", "apply", "make"},
          lib : Libs \cup {"none", "unknown"}, by : Contents, from : Contents, to : Contents,
          out : Paths \cup {NoPath}, ran : BOOLEAN, lost : BOOLEAN]

ShellTypes ==
    /\ visible \subseteq {"patch", "creation"} /\ target \in {"patch", "creation", "none"}
    /\ patch \in Paths \cup {NoPath} /\ patchFormat \in Formats \cup {"unknown"}
    /\ made \in Paths \cup {NoPath} /\ madeFormat \in Formats \cup {"bpsdelta", "unknown"}
    /\ ignore \in BOOLEAN /\ files \in [Paths -> Contents] /\ call \in Calls
    /\ told \in {"none", "finished", "warning", "failed"} /\ calls \in 0..MaxCalls

\* A patch is where its name says which library wrote it.
FilesNamed ==
    \A f \in Paths :
        IsPatch(files[f]) => Detect(f) # "unknown" /\ files[f][1] = Library(Detect(f))

\* The format of a window is that of the name in its field.
FieldsNamed ==
    /\ patchFormat # "unknown" => patch \in Paths /\ patchFormat = Detect(patch)
    /\ madeFormat # "unknown" =>
          made \in Paths /\ Detect(made) # "unknown" /\ Library(madeFormat) = Library(Detect(made))

\* What a call that has not returned is going to do to its output.
Pending ==
    /\ call.kind = "none" <=> Idle
    /\ call.kind # "none" => call.out \in Paths
    /\ call.kind = "make" /\ call.at # "alert" =>
          Detect(call.out) # "unknown" /\ call.lib = Library(Detect(call.out))
    /\ call.at = "copy" => call.kind = "apply" /\ ~IsPatch(call.from)
    /\ told # "none" => call.at = "alert"

\* What left stands for when the call c has ended well.
Delivered(c, left, lost) ==
    /\ IsPatch(c.by)
    /\ \/ left = Result(c.lib, c.by, c.from)
       \/ c.lib \notin {"xdelta", "rup"} /\ c.from # Holds(c.by[2])
       \/ Resizes(c.lib, c.by)
       \/ c.lib \in Unnoticing /\ (IsDamaged(c.by) \/ lost)

ShellInv ==
    /\ ShellTypes /\ FilesNamed /\ FieldsNamed /\ Pending /\ OpenInv
    /\ SameLibrary /\ FinishedIsPatched

-----------------------------------------------------------------------------
(* Names and contents.                                                     *)

LEMMA Lengths ==
    /\ Absent \in Contents /\ ~IsPatch(Absent)
    /\ Junk \in Contents /\ ~IsPatch(Junk)
    /\ \A d \in Names : Holds(d) \in Contents /\ ~IsPatch(Holds(d))
    /\ \A l \in Libs, a, b \in Names :
          /\ <<l, a, b>> \in Contents /\ IsPatch(<<l, a, b>>) /\ <<l, a, b>>[1] = l
          /\ Damaged(l, a, b) \in Contents /\ IsPatch(Damaged(l, a, b)) /\ Damaged(l, a, b)[1] = l
  <1>1. ~IsPatch(Absent) /\ ~IsPatch(Junk)
    BY DEF Absent, Junk, IsPatch, IsDamaged
  <1>2. \A d : ~IsPatch(Holds(d))
    BY DEF Holds, IsPatch, IsDamaged
  <1>3. \A l, a, b : IsPatch(<<l, a, b>>) /\ <<l, a, b>>[1] = l
    BY DEF IsPatch
  <1>4. \A l, a, b : IsPatch(Damaged(l, a, b)) /\ Damaged(l, a, b)[1] = l
    BY DEF IsPatch, IsDamaged, Damaged
  <1> QED
    BY <1>1, <1>2, <1>3, <1>4 DEF Contents

LEMMA PatchEntries ==
    ASSUME NEW p \in Contents, IsPatch(p)
    PROVE  p[1] \in Libs /\ p[2] \in Names /\ p[3] \in Names
  <1>1. PICK l \in Libs, a \in Names, b \in Names : p = <<l, a, b>> \/ p = Damaged(l, a, b)
    BY Lengths DEF Contents
  <1> QED
    BY <1>1 DEF Damaged

LEMMA FileEntry ==
    ASSUME NEW a \in Contents, Len(a) = 2
    PROVE  a[2] \in Names
  <1>1. PICK d \in Names : a = Holds(d)
    <2>1. Len(Absent) # 2 /\ Len(Junk) # 2
      BY DEF Absent, Junk
    <2>2. \A l, x, y : Len(<<l, x, y>>) # 2 /\ Len(Damaged(l, x, y)) # 2
      BY DEF Damaged
    <2> QED
      BY <2>1, <2>2 DEF Contents
  <1> QED
    BY <1>1 DEF Holds

LEMMA TitleSuffixes ==
    ASSUME NEW t \in Titles
    PROVE  Appended(t) \in {"bps", "ips", "ppf", "delta", "bdf"}
  <1>1. t \in {"Delta BPS", "Linear BPS", "IPS", "PPF", "XDelta", "BSDiff"}
    BY ShellAssumption
  <1> QED
    BY <1>1 DEF Appended

LEMMA PathNames ==
    /\ Data \subseteq Paths /\ Outputs \subseteq Paths /\ Stems \subseteq Paths
    /\ DOMAIN Found \subseteq Paths
    /\ \A s \in Stems, t \in Titles : Completed(s, t) \in Paths
  BY DEF Completed, Paths

\* What the creation window completes always has a format.
LEMMA CompletedIsKnown ==
    ASSUME NEW s \in Stems, NEW t \in Titles
    PROVE  Detect(Completed(s, t)) # "unknown"
  <1>1. Appended(t) \in {"bps", "ips", "ppf", "delta", "bdf"}
    BY TitleSuffixes
  <1>2. FormatOf(Lower(Appended(t))) # "unknown"
    BY <1>1 DEF FormatOf, Lower
  <1>3. Suffix(Completed(s, t)) = Appended(t)
    <2>1. CASE HasSuffix(s, Appended(t))
      BY <2>1 DEF Completed, HasSuffix
    <2>2. CASE ~HasSuffix(s, Appended(t))
      <3> DEFINE S == {s[i] : i \in 1..Len(s)} \cup {Appended(t)}
      <3>1. s \in Seq(S) /\ s # <<>> /\ Appended(t) \in S
        <4>1. s \in Seq({s[i] : i \in 1..Len(s)}) /\ s # <<>>
          BY ShellAssumption DEF NoPath
        <4> QED
          BY <4>1, SeqMonotonic
      <3> HIDE DEF S
      <3>2. Len(s) \in Nat \ {0}
        BY <3>1, EmptySeq
      <3>3. /\ Len(Append(s, Appended(t))) = Len(s) + 1
            /\ Append(s, Appended(t))[Len(s) + 1] = Appended(t)
        BY <3>1, AppendProperties
      <3>4. Len(s) + 1 > 1
        BY <3>2
      <3> QED
        BY <2>2, <3>3, <3>4 DEF Completed, Suffix
    <2> QED
      BY <2>1, <2>2
  <1> QED
    BY <1>2, <1>3 DEF Detect

LEMMA FormatNames ==
    \A path :
        /\ Detect(path) \in Formats \cup {"unknown"}
        /\ IF Detect(path) = "unknown" THEN Library(Detect(path)) = "unknown"
           ELSE Library(Detect(path)) \in Libs
  <1>1. \A x : FormatOf(x) \in Formats \cup {"unknown"}
    BY DEF FormatOf, Formats
  <1>2. Library("unknown") = "unknown" /\ \A x \in Formats \cup {"bpsdelta"} : Library(x) \in Libs
    BY DEF Library, Libs, Formats
  <1> QED
    BY <1>1, <1>2 DEF Detect

LEMMA Ends ==
    \A code, out : Outcome(code, out).code = code /\ Outcome(code, out).out = out
                     /\ Outcome(code, out).lost = FALSE
  BY DEF Outcome

\* An error leaves what was there, or something that is no patch.
LEMMA Failed ==
    ASSUME NEW before \in Contents, NEW o \in Failures(before)
    PROVE  /\ o.out \in Contents /\ o.code = "error" /\ o.lost \in BOOLEAN
           /\ o.out = before \/ ~IsPatch(o.out)
  <1>1. o = Outcome("error", before) \/ o = Outcome("error", Junk)
    BY DEF Failures
  <1>2. o.code = "error" /\ o.lost = FALSE /\ (o.out = before \/ o.out = Junk)
    <2>1. CASE o = Outcome("error", before)
      <3>1. o.code = "error" /\ o.out = before
        BY <2>1, Ends
      <3>2. o.lost = FALSE
        BY <2>1, Ends, Zenon
      <3> QED
        BY <3>1, <3>2, Zenon
    <2>2. CASE o = Outcome("error", Junk)
      <3>1. o.code = "error" /\ o.out = Junk
        BY <2>2, Ends
      <3>2. o.lost = FALSE
        BY <2>2, Ends, Zenon
      <3> QED
        BY <3>1, <3>2, Zenon
    <2> QED
      BY <1>1, <2>1, <2>2, Zenon
  <1>3. o.lost \in BOOLEAN
    BY <1>2
  <1> QED
    BY <1>2, <1>3, Lengths, Zenon

\* What a library leaves behind when it applies a patch.
LEMMA ApplyOutcome ==
    ASSUME NEW c \in Calls, NEW before \in Contents, NEW ignored \in BOOLEAN,
           NEW o \in ApplyOutcomes(c.lib, c.by, c.from, before, ignored)
    PROVE  /\ o.out \in Contents /\ o.code \in {"ok", "warning", "error"} /\ o.lost \in BOOLEAN
           /\ o.out = before \/ ~IsPatch(o.out)
           /\ o.code = "ok" =>
                 Delivered(c, o.out, o.lost) \/ (c.lib = "xdelta" /\ ignored)
  <1> DEFINE lib == c.lib
             p == c.by
             f == c.from
  <1>0. p \in Contents
    BY DEF Calls
  <1> HIDE DEF lib, p, f
  <1>1. CASE o \in Failures(before)
    BY <1>1, Failed
  <1>2. CASE o \notin Failures(before)
    <2>1. /\ IsPatch(p) /\ p[1] = lib
          /\ \/ o \in Losing(lib, before)
             \/ IsDamaged(p) /\ o \in DamagedPatch(lib, p)
             \/ ~IsDamaged(p) /\ MeantFor(lib, p, f) /\ o \in RightFile(lib, p, f)
             \/ ~IsDamaged(p) /\ ~MeantFor(lib, p, f) /\ o \in WrongFile(lib, p, ignored)
      BY <1>2 DEF ApplyOutcomes, lib, p, f
    <2>2. p[2] \in Names /\ p[3] \in Names
      BY <1>0, <2>1, PatchEntries
    <2>3. /\ Holds(p[2]) \in Contents /\ ~IsPatch(Holds(p[2]))
          /\ Holds(p[3]) \in Contents /\ ~IsPatch(Holds(p[3]))
          /\ Result(lib, p, f) \in {Holds(p[2]), Holds(p[3])}
      BY <2>2, Lengths DEF Result
    <2>4. \A left, lost :
             Delivered(c, left, lost) <=>
                \/ left = Result(lib, p, f)
                \/ lib \notin {"xdelta", "rup"} /\ f # Holds(p[2])
                \/ Resizes(lib, p)
                \/ lib \in Unnoticing /\ (IsDamaged(p) \/ lost)
      BY <2>1 DEF Delivered, lib, p, f
    <2>5. CASE o \in Losing(lib, before)
      <3>1. /\ lib \in Unnoticing /\ o.code = "ok" /\ o.lost = TRUE
            /\ o.out \in {before, Junk, Absent}
        BY <2>5 DEF Losing, Unnoticing
      <3> QED
        BY <2>4, <3>1, Lengths
    <2>6. CASE IsDamaged(p) /\ o \in DamagedPatch(lib, p)
      <3>1. /\ lib \in Unnoticing /\ o.code = "ok" /\ o.lost = FALSE
            /\ o.out \in {Junk, Holds(p[3])}
        BY <2>6 DEF DamagedPatch, Outcome
      <3> QED
        BY <2>3, <2>4, <2>6, <3>1, Lengths
    <2>7. CASE MeantFor(lib, p, f) /\ o \in RightFile(lib, p, f)
      <3>1. /\ o.code = "ok" /\ o.lost = FALSE
            /\ o.out = Result(lib, p, f) \/ (o.out = Junk /\ Resizes(lib, p))
        BY <2>7 DEF RightFile, Outcome
      <3> QED
        BY <2>3, <2>4, <3>1, Lengths
    <2>8. CASE ~MeantFor(lib, p, f) /\ o \in WrongFile(lib, p, ignored)
      <3>1. f # Holds(p[2])
        BY <2>8 DEF MeantFor
      <3>2. CASE lib = "xdelta"
        <4>1. /\ o.code = "ok" /\ o.lost = FALSE
              /\ o.out = Holds(p[3]) \/ (o.out = Junk /\ ignored)
          BY <2>8, <3>2 DEF WrongFile, Outcome
        <4>2. Result(lib, p, f) = Holds(p[3])
          BY <3>2 DEF Result
        <4> QED
          BY <2>3, <2>4, <3>2, <4>1, <4>2, Lengths DEF lib
      <3>3. CASE lib # "xdelta"
        <4>1. /\ lib # "rup" /\ o.code \in {"ok", "warning"} /\ o.lost = FALSE /\ o.out = Junk
          BY <2>8, <3>3 DEF WrongFile, Outcome
        <4> QED
          BY <2>4, <3>1, <3>3, <4>1, Lengths
      <3> QED
        BY <3>2, <3>3
    <2> QED
      BY <2>1, <2>5, <2>6, <2>7, <2>8
  <1> QED
    BY <1>1, <1>2

\* And when it makes one.
LEMMA MakeOutcome ==
    ASSUME NEW lib \in Libs, NEW a \in Contents, NEW b \in Contents, NEW before \in Contents,
           NEW o \in MakeOutcomes(lib, a, b, before)
    PROVE  /\ o.out \in Contents /\ o.code \in {"ok", "warning", "error"} /\ o.lost \in BOOLEAN
           /\ o.out = before \/ ~IsPatch(o.out) \/ o.out[1] = lib
  <1>1. CASE o \in Failures(before)
    BY <1>1, Failed
  <1>2. CASE o \notin Failures(before)
    <2>1. /\ Len(a) = 2 /\ Len(b) = 2
          /\ \/ o = Outcome("error", Damaged(lib, a[2], b[2]))
             \/ \E c \in {"ok", "warning"} : o = Outcome(c, <<lib, a[2], b[2]>>)
             \/ o = [code |-> "ok", out |-> Damaged(lib, a[2], b[2]), lost |-> TRUE]
      BY <1>2 DEF MakeOutcomes
    <2>2. a[2] \in Names /\ b[2] \in Names
      BY <2>1, FileEntry
    <2>3. CASE o = Outcome("error", Damaged(lib, a[2], b[2]))
      <3>1. o.out = Damaged(lib, a[2], b[2]) /\ o.code = "error"
        BY <2>3, Ends
      <3>2. o.lost = FALSE
        BY <2>3, Ends, Zenon
      <3>3. o.lost \in BOOLEAN
        BY <3>2, Zenon
      <3>4. o.out[1] = lib
        BY <3>1 DEF Damaged
      <3>5. o.out \in Contents
        <4>1. Damaged(lib, a[2], b[2]) \in Contents
          BY <2>2, Lengths, Zenon
        <4> QED
          BY <3>1, <4>1, Zenon
      <3> QED
        BY <3>1, <3>3, <3>4, <3>5
    <2>4. CASE \E c \in {"ok", "warning"} : o = Outcome(c, <<lib, a[2], b[2]>>)
      <3>1. PICK c \in {"ok", "warning"} : o = Outcome(c, <<lib, a[2], b[2]>>)
        BY <2>4
      <3>2. o.out = <<lib, a[2], b[2]>> /\ o.code = c
        BY <3>1, Ends
      <3>3. o.lost = FALSE
        BY <3>1, Ends, Zenon
      <3>4. o.lost \in BOOLEAN
        BY <3>3, Zenon
      <3>5. o.code \in {"ok", "warning", "error"}
        BY <3>1, <3>2
      <3> QED
        BY <2>2, <3>2, <3>4, <3>5, Lengths
    <2>5. CASE o = [code |-> "ok", out |-> Damaged(lib, a[2], b[2]), lost |-> TRUE]
      <3>1. o.out = Damaged(lib, a[2], b[2]) /\ o.code = "ok"
        BY <2>5
      <3>2. o.lost \in BOOLEAN
        BY <2>5
      <3>3. o.out[1] = lib
        BY <3>1 DEF Damaged
      <3>4. o.out \in Contents
        <4>1. Damaged(lib, a[2], b[2]) \in Contents
          BY <2>2, Lengths, Zenon
        <4> QED
          BY <3>1, <4>1, Zenon
      <3> QED
        BY <3>1, <3>2, <3>3, <3>4
    <2> QED
      BY <2>1, <2>3, <2>4, <2>5
  <1> QED
    BY <1>1, <1>2

-----------------------------------------------------------------------------
(* The steps of ppfdev.                                                    *)

LEMMA StreamsStep ==
    ASSUME OpenInv, [Next]_vars
    PROVE  OpenInv'
  <1>1. CASE ApplyPPF
    BY <1>1, Tails DEF ApplyPPF, Fopen, FopenFails, OpenInv, Globals
  <1>2. CASE ApplyOpenPatch
    BY <1>2, Tails DEF ApplyOpenPatch, PatchMissing, Fopen, FopenFails, OpenInv, Globals
  <1>3. CASE ApplyRuns
    BY <1>3 DEF ApplyRuns, OpenInv
  <1>4. CASE MakePPF
    BY <1>4, Tails DEF MakePPF, CloseAllFiles, Fopen, FopenFails, OpenInv, Globals
  <1>5. CASE MakeOpenMod
    BY <1>5, Tails DEF MakeOpenMod, CloseAllFiles, Fopen, FopenFails, OpenInv, Globals
  <1>6. CASE MakeOpenPatch
    BY <1>6, Tails DEF MakeOpenPatch, CloseAllFiles, Fopen, FopenFails, OpenInv, Globals
  <1>7. CASE MakeRuns
    BY <1>7 DEF MakeRuns, CloseAllFiles, OpenInv
  <1>8. CASE Fclose
    <2>1. CASE pc = "close_apply"
      BY <1>8, <2>1, Tails DEF Fclose, OpenInv, Globals
    <2>2. CASE pc = "close"
      BY <1>8, <2>2, Tails DEF Fclose, OpenInv, Globals
    <2> QED
      BY <1>8, <2>1, <2>2 DEF Fclose
  <1>9. CASE UNCHANGED vars
    BY <1>9 DEF vars, OpenInv
  <1> QED
    BY <1>1, <1>2, <1>3, <1>4, <1>5, <1>6, <1>7, <1>8, <1>9 DEF Next

LEMMA StreamsStay ==
    ASSUME OpenInv, UNCHANGED streamVars
    PROVE  OpenInv'
  BY StreamsStep DEF streamVars, vars

-----------------------------------------------------------------------------
(* The steps of the windows.                                               *)

LEMMA CallCount ==
    ASSUME calls \in 0..MaxCalls
    PROVE  calls < MaxCalls => calls + 1 \in 0..MaxCalls
  <1>1. MaxCalls \in Nat
    BY ShellAssumption
  <1> QED
    BY <1>1

LEMMA NoCallTypes == NoCall \in Calls
  BY Lengths DEF NoCall, Calls

\* Nothing is known of a file or a call once the program is started.
LEMMA LaunchedInv ==
    ASSUME Launched
    PROVE  FieldsNamed /\ Pending /\ OpenInv /\ SameLibrary /\ FinishedIsPatched
  <1>1. FieldsNamed /\ Pending
    BY DEF Launched, FieldsNamed, Pending, NoCall, Idle
  <1>2. OpenInv
    BY DEF Launched, Init, OpenInv, Globals, NULL
  <1>3. SameLibrary /\ FinishedIsPatched
    BY DEF Launched, SameLibrary, FinishedIsPatched, NoCall
  <1> QED
    BY <1>1, <1>2, <1>3

LEMMA ShellInitInv == ShellInit => ShellInv
  <1> SUFFICES ASSUME ShellInit
               PROVE  ShellInv
    OBVIOUS
  <1>found. ASSUME NEW f \in DOMAIN Found
            PROVE  /\ Found[f] \in Contents /\ Detect(f) # "unknown"
                   /\ Found[f][1] = Library(Detect(f)) /\ f \notin Data
    <2>1. Detect(f) # "unknown" /\ Library(Detect(f)) \in Libs /\ f \notin Data
      BY ShellAssumption, FormatNames
    <2>2. PICK a \in Names, b \in Names : Found[f] = <<Library(Detect(f)), a, b>>
      <3>1. Found[f] \in {Library(Detect(f))} \X Names \X Names
        BY ShellAssumption
      <3> QED
        BY <3>1
    <2> QED
      BY <2>1, <2>2, Lengths
  <1>data. \A f \in Data : Holds(f[1]) \in Contents /\ ~IsPatch(Holds(f[1]))
    BY ShellAssumption, Lengths
  <1>entry. ASSUME NEW f \in Paths
            PROVE  /\ files[f] \in Contents
                   /\ IsPatch(files[f]) =>
                         Detect(f) # "unknown" /\ files[f][1] = Library(Detect(f))
    <2>1. files[f] = IF f \in Data THEN Holds(f[1])
                     ELSE IF f \in DOMAIN Found THEN Found[f] ELSE Absent
      BY DEF ShellInit
    <2>2. CASE f \in Data
      BY <1>data, <2>1, <2>2
    <2>3. CASE f \notin Data /\ f \in DOMAIN Found
      BY <1>found, <2>1, <2>3
    <2>4. CASE f \notin Data /\ f \notin DOMAIN Found
      BY <2>1, <2>4, Lengths
    <2> QED
      BY <2>2, <2>3, <2>4
  <1>1. files \in [Paths -> Contents]
    BY <1>entry DEF ShellInit
  <1>2. ShellTypes
    <2>1. calls \in 0..MaxCalls
      <3>1. MaxCalls \in Nat
        BY ShellAssumption
      <3> QED
        BY <3>1 DEF ShellInit
    <2>2. call \in Calls
      BY NoCallTypes DEF ShellInit, Launched
    <2> QED
      BY <1>1, <2>1, <2>2 DEF ShellInit, Launched, ShellTypes
  <1>3. FilesNamed
    BY <1>entry DEF FilesNamed
  <1> QED
    BY <1>2, <1>3, LaunchedInv DEF ShellInit, ShellInv

\* The steps between calls.
LEMMA QuietKeepsInv ==
    ASSUME ShellInv, ShellTypes', FieldsNamed', UNCHANGED <<files, call, told, streamVars>>
    PROVE  ShellInv'
  <1>1. FilesNamed' /\ Pending' /\ SameLibrary' /\ FinishedIsPatched'
    BY DEF ShellInv, FilesNamed, Pending, Idle, SameLibrary, FinishedIsPatched
  <1>2. OpenInv'
    BY StreamsStay DEF ShellInv
  <1> QED
    BY <1>1, <1>2 DEF ShellInv

LEMMA WindowsKeepInv ==
    ASSUME ShellInv, (\E w \in {"patch", "creation"} : Flip(w)) \/ AnimationDidStop \/ ChkIgnoreXDelta
    PROVE  ShellInv'
  <1>1. UNCHANGED <<files, call, told, streamVars, patch, patchFormat, made, madeFormat, calls>>
    BY DEF Flip, AnimationDidStop, ChkIgnoreXDelta, fieldVars
  <1>2. /\ visible' \subseteq {"patch", "creation"} /\ target' \in {"patch", "creation", "none"}
        /\ ignore' \in BOOLEAN
    <2>1. CASE ChkIgnoreXDelta
      <3>1. ignore' \in BOOLEAN
        BY <2>1 DEF ChkIgnoreXDelta, ShellInv, ShellTypes
      <3> QED
        BY <2>1, <3>1 DEF ChkIgnoreXDelta, windowVars, ShellInv, ShellTypes
    <2>2. CASE (\E w \in {"patch", "creation"} : Flip(w)) \/ AnimationDidStop
      BY <2>2 DEF Flip, AnimationDidStop, fieldVars, ShellInv, ShellTypes
    <2> QED
      BY <2>1, <2>2
  <1>3. ShellTypes'
    BY <1>1, <1>2 DEF ShellInv, ShellTypes
  <1>4. FieldsNamed'
    BY <1>1 DEF ShellInv, FieldsNamed
  <1> QED
    BY <1>1, <1>3, <1>4, QuietKeepsInv

LEMMA SetPatchFileKeepsInv ==
    ASSUME ShellInv, NEW p \in Paths, SetPatchFile(p)
    PROVE  ShellInv'
  <1>1. ShellTypes'
    BY FormatNames DEF ShellInv, ShellTypes, SetPatchFile, windowVars
  <1>2. FieldsNamed'
    BY DEF ShellInv, FieldsNamed, SetPatchFile
  <1> QED
    BY <1>1, <1>2, QuietKeepsInv DEF SetPatchFile

\* A delta and a linear BPS patch are made by one library.
LEMMA SelOutputPanelEndKeepsInv ==
    ASSUME ShellInv, NEW s \in Stems, NEW t \in Titles, SelOutputPanelEnd(s, t)
    PROVE  ShellInv'
  <1>1. made' \in Paths /\ Detect(made') # "unknown"
    BY PathNames, CompletedIsKnown DEF SelOutputPanelEnd
  <1>2. /\ \/ madeFormat' = Detect(made')
           \/ madeFormat' = "bpsdelta" /\ Detect(made') = "bps"
        /\ madeFormat' \in Formats \cup {"bpsdelta", "unknown"}
    BY FormatNames DEF SelOutputPanelEnd
  <1>3. Library(madeFormat') = Library(Detect(made'))
    BY <1>2 DEF Library
  <1>4. ShellTypes'
    BY <1>1, <1>2 DEF ShellInv, ShellTypes, SelOutputPanelEnd, windowVars
  <1>5. FieldsNamed'
    BY <1>1, <1>3 DEF ShellInv, FieldsNamed, SelOutputPanelEnd
  <1> QED
    BY <1>4, <1>5, QuietKeepsInv DEF SelOutputPanelEnd

-----------------------------------------------------------------------------
(* The calls.                                                              *)

\* The button hands the library its files as they are, which is why the format has to be
\* that of the name now in the field.
LEMMA BtnApplyKeepsInv ==
    ASSUME ShellInv, NEW rom \in Data, NEW out \in Outputs \cup Data, BtnApply(rom, out)
    PROVE  ShellInv'
  <1> DEFINE lib == Library(patchFormat)
  <1>1. patch \in Paths /\ patchFormat = Detect(patch) /\ lib \in Libs
    BY FormatNames DEF BtnApply, ShellInv, FieldsNamed
  <1>2. rom \in Paths /\ out \in Paths
    BY PathNames
  <1>3. /\ call'.at \in {"copy", "lib"} /\ call'.kind = "apply" /\ call'.lib = lib
        /\ call'.by = files[patch] /\ call'.from = files[rom] /\ call'.out = out
    BY DEF BtnApply
  <1>4. call' \in Calls
    <2>1. files[patch] \in Contents /\ files[rom] \in Contents /\ Absent \in Contents
      BY <1>1, <1>2, Lengths DEF ShellInv, ShellTypes
    <2> HIDE DEF lib
    <2> QED
      BY <1>1, <1>2, <2>1 DEF BtnApply, Calls, lib
  <1>5. ShellTypes'
    <2>1. calls' \in 0..MaxCalls
      BY CallCount DEF BtnApply, ShellInv, ShellTypes
    <2> QED
      BY <1>4, <2>1 DEF ShellInv, ShellTypes, BtnApply, windowVars, fieldVars
  <1>6. FilesNamed' /\ FieldsNamed'
    BY DEF ShellInv, FilesNamed, FieldsNamed, BtnApply, fieldVars
  <1>7. told' = "none"
    BY DEF BtnApply, ShellInv, Pending, Idle, ShellTypes
  <1>8. Pending'
    <2>1. ~IsPatch(files[rom])
      BY <1>2, ShellAssumption DEF ShellInv, FilesNamed
    <2> QED
      BY <1>2, <1>3, <1>7, <2>1 DEF Pending, Idle
  <1>9. SameLibrary'
    <2>1. IsPatch(files[patch]) => lib = files[patch][1]
      BY <1>1 DEF ShellInv, FilesNamed
    <2> QED
      BY <1>3, <2>1 DEF SameLibrary
  <1>10. FinishedIsPatched'
    BY <1>7 DEF FinishedIsPatched
  <1>11. OpenInv'
    BY StreamsStay DEF BtnApply, ShellInv
  <1> QED
    BY <1>5, <1>6, <1>8, <1>9, <1>10, <1>11 DEF ShellInv

LEMMA BtnCreatePatchKeepsInv ==
    ASSUME ShellInv, NEW orig \in Data, NEW mod \in Data, BtnCreatePatch(orig, mod)
    PROVE  ShellInv'
  <1> DEFINE lib == Library(madeFormat)
  <1>1. /\ made \in Paths /\ Detect(made) # "unknown"
        /\ lib = Library(Detect(made)) /\ lib \in Libs
    BY FormatNames DEF BtnCreatePatch, ShellInv, FieldsNamed
  <1>2. orig \in Paths /\ mod \in Paths
    BY PathNames
  <1>3. /\ call'.at = "lib" /\ call'.kind = "make" /\ call'.lib = lib /\ call'.out = made
    BY DEF BtnCreatePatch
  <1>4. call' \in Calls
    <2>1. files[orig] \in Contents /\ files[mod] \in Contents /\ Absent \in Contents
      BY <1>1, <1>2, Lengths DEF ShellInv, ShellTypes
    <2> HIDE DEF lib
    <2> QED
      BY <1>1, <1>2, <2>1 DEF BtnCreatePatch, Calls, lib
  <1>5. ShellTypes'
    <2>1. calls' \in 0..MaxCalls
      BY CallCount DEF BtnCreatePatch, ShellInv, ShellTypes
    <2> QED
      BY <1>4, <2>1 DEF ShellInv, ShellTypes, BtnCreatePatch, windowVars, fieldVars
  <1>6. FilesNamed' /\ FieldsNamed'
    BY DEF ShellInv, FilesNamed, FieldsNamed, BtnCreatePatch, fieldVars
  <1>7. told' = "none"
    BY DEF BtnCreatePatch, ShellInv, Pending, Idle, ShellTypes
  <1>8. Pending'
    BY <1>1, <1>3, <1>7 DEF Pending, Idle
  <1>9. SameLibrary' /\ FinishedIsPatched'
    BY <1>3 DEF SameLibrary, FinishedIsPatched
  <1>10. OpenInv'
    BY StreamsStay DEF BtnCreatePatch, ShellInv
  <1> QED
    BY <1>5, <1>6, <1>8, <1>9, <1>10 DEF ShellInv

LEMMA OkayKeepsInv ==
    ASSUME ShellInv, Okay
    PROVE  ShellInv'
  <1>1. ShellTypes'
    BY NoCallTypes DEF ShellInv, ShellTypes, Okay, windowVars, fieldVars
  <1>2. FilesNamed' /\ FieldsNamed'
    BY DEF ShellInv, FilesNamed, FieldsNamed, Okay, fieldVars
  <1>3. Pending' /\ SameLibrary' /\ FinishedIsPatched'
    BY DEF Pending, Idle, NoCall, Okay, SameLibrary, FinishedIsPatched
  <1>4. OpenInv'
    BY StreamsStay DEF ShellInv, Okay
  <1> QED
    BY <1>1, <1>2, <1>3, <1>4 DEF ShellInv

\* A file that is written holds no patch then, or what it held before, or a patch of the
\* library its name stands for.
LEMMA Written ==
    ASSUME ShellTypes, FilesNamed, NEW out \in Paths, NEW c \in Contents,
           \/ c = files[out]
           \/ ~IsPatch(c)
           \/ Detect(out) # "unknown" /\ c[1] = Library(Detect(out)),
           files' = [files EXCEPT ![out] = c]
    PROVE  files' \in [Paths -> Contents] /\ FilesNamed' /\ files'[out] = c
  BY DEF ShellTypes, FilesNamed

\* A call c that ends with the verdict told', and has written o.
LEMMA EndedKeepsInv ==
    ASSUME ShellInv, NEW c \in Calls, c.kind \in {"apply", "make"}, c.out \in Paths,
           c.kind = "apply" /\ IsPatch(c.by) => c.lib = c.by[1],
           NEW o \in Contents,
           \/ o = files[c.out]
           \/ ~IsPatch(o)
           \/ Detect(c.out) # "unknown" /\ o[1] = Library(Detect(c.out)),
           files' = [files EXCEPT ![c.out] = o],
           NEW lost \in BOOLEAN, call' = [c EXCEPT !.at = "alert", !.lost = lost],
           told' \in {"finished", "warning", "failed"},
           told' = "finished" /\ c.kind = "apply" /\ c.lib # "unknown" => Delivered(c, o, lost),
           UNCHANGED <<windowVars, fieldVars, streamVars>>, calls' \in 0..MaxCalls
    PROVE  ShellInv'
  <1>1. files' \in [Paths -> Contents] /\ FilesNamed' /\ files'[c.out] = o
    BY Written DEF ShellInv
  <1>2. /\ call' \in Calls /\ call'.at = "alert" /\ call'.kind = c.kind /\ call'.lib = c.lib
        /\ call'.by = c.by /\ call'.from = c.from /\ call'.out = c.out /\ call'.lost = lost
    BY DEF Calls
  <1>3. ShellTypes'
    BY <1>1, <1>2 DEF ShellInv, ShellTypes, windowVars, fieldVars
  <1>4. FieldsNamed'
    BY DEF ShellInv, FieldsNamed, fieldVars
  <1>5. Pending'
    BY <1>2 DEF Pending, Idle
  <1>6. SameLibrary'
    BY <1>2 DEF SameLibrary
  <1>7. FinishedIsPatched'
    BY <1>1, <1>2 DEF FinishedIsPatched, Delivered
  <1>8. OpenInv'
    BY StreamsStay DEF ShellInv
  <1> QED
    BY <1>1, <1>3, <1>4, <1>5, <1>6, <1>7, <1>8 DEF ShellInv

\* What a call of a library may write, and when it may end well.
LEMMA OutcomeFacts ==
    ASSUME NEW c \in Calls, c.kind \in {"apply", "make"},
           c.kind = "make" => Detect(c.out) # "unknown" /\ c.lib = Library(Detect(c.out)),
           NEW before \in Contents, NEW ignored \in BOOLEAN, NEW o \in Outcomes(c, before, ignored)
    PROVE  /\ o.out \in Contents /\ o.code \in {"ok", "warning", "error"} /\ o.lost \in BOOLEAN
           /\ \/ o.out = before
              \/ ~IsPatch(o.out)
              \/ Detect(c.out) # "unknown" /\ o.out[1] = Library(Detect(c.out))
           /\ o.code = "ok" /\ c.kind = "apply" =>
                 Delivered(c, o.out, o.lost) \/ (c.lib = "xdelta" /\ ignored)
  <1>1. c.from \in Contents /\ c.to \in Contents
    BY DEF Calls
  <1>2. CASE c.kind = "apply"
    <2>1. o \in ApplyOutcomes(c.lib, c.by, c.from, before, ignored)
      BY <1>2 DEF Outcomes
    <2> QED
      BY <2>1, ApplyOutcome
  <1>3. CASE c.kind = "make"
    <2>1. o \in MakeOutcomes(c.lib, c.from, c.to, before)
      BY <1>3 DEF Outcomes
    <2>2. c.lib \in Libs
      BY <1>3, FormatNames
    <2> QED
      BY <1>1, <1>3, <2>1, <2>2, MakeOutcome
  <1> QED
    BY <1>2, <1>3

\* Whatever a call that is killed leaves, it is nothing it could not have left by itself.
LEMMA RestartKeepsInv ==
    ASSUME ShellInv, Restart
    PROVE  ShellInv'
  <1>1. files' \in [Paths -> Contents] /\ FilesNamed'
    <2>1. CASE files' = files
      BY <2>1 DEF ShellInv, ShellTypes, FilesNamed
    <2>2. CASE /\ call.at = "lib" \/ (call.at = "ppf" /\ call.ran)
               /\ \E o \in Outcomes(call, files[call.out], ignore) :
                     files' = [files EXCEPT ![call.out] = o.out]
      <3>1. PICK o \in Outcomes(call, files[call.out], ignore) :
               files' = [files EXCEPT ![call.out] = o.out]
        BY <2>2
      <3>2. /\ call \in Calls /\ call.kind \in {"apply", "make"} /\ call.out \in Paths
            /\ call.kind = "make" => Detect(call.out) # "unknown" /\ call.lib = Library(Detect(call.out))
        BY <2>2 DEF ShellInv, ShellTypes, Pending, Idle, Calls
      <3>4. ignore \in BOOLEAN /\ files[call.out] \in Contents
        BY <3>2 DEF ShellInv, ShellTypes
      <3>5. /\ o.out \in Contents
            /\ \/ o.out = files[call.out]
               \/ ~IsPatch(o.out)
               \/ Detect(call.out) # "unknown" /\ o.out[1] = Library(Detect(call.out))
        BY <3>2, <3>4, OutcomeFacts
      <3> QED
        BY <3>1, <3>2, <3>5, Written DEF ShellInv
    <2>3. CASE call.at = "copy" /\ files' = [files EXCEPT ![call.out] = Junk]
      <3>1. call \in Calls /\ call.out \in Paths
        BY <2>3 DEF ShellInv, ShellTypes, Pending, Idle, Calls
      <3> QED
        BY <2>3, <3>1, Lengths, Written DEF ShellInv
    <2> QED
      BY <2>1, <2>2, <2>3 DEF Restart
  <1>2. ShellTypes'
    BY <1>1, NoCallTypes DEF ShellInv, ShellTypes, Restart, IgnoreAtLaunch
  <1>3. FieldsNamed' /\ Pending'
    BY DEF FieldsNamed, Pending, NoCall, Idle, Restart
  <1>4. OpenInv'
    BY DEF OpenInv, Globals, NULL, Restart
  <1>5. SameLibrary' /\ FinishedIsPatched'
    BY DEF SameLibrary, FinishedIsPatched, NoCall, Restart
  <1> QED
    BY <1>1, <1>2, <1>3, <1>4, <1>5 DEF ShellInv

LEMMA ReturnKeepsInv ==
    ASSUME ShellInv, call.at \in {"lib", "ppf"}, NEW o \in Outcomes(call, files[call.out], ignore),
           files' = [files EXCEPT ![call.out] = o.out], Return(Verdict(call, o.code), o.lost),
           UNCHANGED <<windowVars, fieldVars, calls, streamVars>>
    PROVE  ShellInv'
  <1>1. /\ call \in Calls /\ call.kind \in {"apply", "make"} /\ call.out \in Paths
        /\ call.kind = "make" => Detect(call.out) # "unknown" /\ call.lib = Library(Detect(call.out))
    BY DEF ShellInv, ShellTypes, Pending, Idle, Calls
  <1>2. ignore \in BOOLEAN /\ calls' \in 0..MaxCalls /\ files[call.out] \in Contents
    BY <1>1 DEF ShellInv, ShellTypes
  <1>3. /\ o.out \in Contents /\ o.code \in {"ok", "warning", "error"} /\ o.lost \in BOOLEAN
        /\ \/ o.out = files[call.out]
           \/ ~IsPatch(o.out)
           \/ Detect(call.out) # "unknown" /\ o.out[1] = Library(Detect(call.out))
        /\ o.code = "ok" /\ call.kind = "apply" =>
              Delivered(call, o.out, o.lost) \/ (call.lib = "xdelta" /\ ignore)
    BY <1>1, <1>2, OutcomeFacts
  <1>4. /\ told' \in {"finished", "warning", "failed"}
        /\ told' = "finished" /\ call.kind = "apply" =>
              o.code = "ok" /\ ~(call.lib = "xdelta" /\ ignore)
    BY <1>3 DEF Return, Verdict
  <1>5. call' = [call EXCEPT !.at = "alert", !.lost = o.lost]
    BY DEF Return
  <1>6. call.kind = "apply" /\ IsPatch(call.by) => call.lib = call.by[1]
    BY DEF ShellInv, SameLibrary
  <1>7. PICK out \in Contents, lost \in BOOLEAN : out = o.out /\ lost = o.lost
    BY <1>3
  <1>8. told' = "finished" /\ call.kind = "apply" /\ call.lib # "unknown" => Delivered(call, out, lost)
    BY <1>3, <1>4, <1>7
  <1> QED
    BY <1>1, <1>2, <1>3, <1>4, <1>5, <1>6, <1>7, <1>8, EndedKeepsInv

LEMMA CallReturnsKeepsInv ==
    ASSUME ShellInv, CallReturns
    PROVE  ShellInv'
  BY ReturnKeepsInv DEF CallReturns

\* Files it could not open are an error like any other.
LEMMA PPFReturnsKeepsInv ==
    ASSUME ShellInv, PPFReturns
    PROVE  ShellInv'
  <1>1. PICK o \in IF call.ran THEN Outcomes(call, files[call.out], ignore)
                   ELSE {Outcome("error", files[call.out])} :
           files' = [files EXCEPT ![call.out] = o.out] /\ Return(Verdict(call, o.code), o.lost)
    BY DEF PPFReturns
  <1>2. o \in Outcomes(call, files[call.out], ignore)
    BY <1>1 DEF Outcomes, ApplyOutcomes, MakeOutcomes, Failures
  <1> QED
    BY <1>1, <1>2, ReturnKeepsInv DEF PPFReturns

\* RUPAdapter and PPFAdapter copy what they patch.
LEMMA CopyItemKeepsInv ==
    ASSUME ShellInv, CopyItem
    PROVE  ShellInv'
  <1>1. call \in Calls /\ call.kind = "apply" /\ call.out \in Paths /\ ~IsPatch(call.from)
    BY DEF ShellInv, ShellTypes, Pending, CopyItem
  <1>2. CASE CopyFailed /\ UNCHANGED files
    <2>1. /\ call' = [call EXCEPT !.at = "alert", !.lost = FALSE] /\ told' = "failed"
          /\ files[call.out] \in Contents /\ files' = [files EXCEPT ![call.out] = files[call.out]]
          /\ UNCHANGED <<windowVars, fieldVars, streamVars>> /\ calls' \in 0..MaxCalls
      BY <1>1, <1>2 DEF CopyItem, CopyFailed, Return, ShellInv, ShellTypes
    <2>2. call.kind = "apply" /\ IsPatch(call.by) => call.lib = call.by[1]
      BY DEF ShellInv, SameLibrary
    <2> QED
      BY <1>1, <2>1, <2>2, EndedKeepsInv
  <1>3. CASE /\ files' = [files EXCEPT ![call.out] = call.from]
             /\ call' = [call EXCEPT !.at = "lib"] /\ UNCHANGED told
    <2>1. call.from \in Contents
      BY <1>1 DEF Calls
    <2>2. files' \in [Paths -> Contents] /\ FilesNamed'
      BY <1>1, <1>3, <2>1, Written DEF ShellInv
    <2>3. /\ call' \in Calls /\ call'.at = "lib" /\ call'.kind = "apply" /\ call'.lib = call.lib
          /\ call'.by = call.by /\ call'.out = call.out
      BY <1>1, <1>3 DEF Calls
    <2>4. told' = "none"
      BY <1>3 DEF CopyItem, ShellInv, Pending
    <2>5. ShellTypes'
      BY <2>2, <2>3, <2>4 DEF ShellInv, ShellTypes, CopyItem, windowVars, fieldVars
    <2>6. FieldsNamed'
      BY DEF ShellInv, FieldsNamed, CopyItem, fieldVars
    <2>7. Pending'
      BY <1>1, <2>3, <2>4 DEF Pending, Idle
    <2>8. SameLibrary' /\ FinishedIsPatched'
      BY <1>1, <2>3, <2>4 DEF ShellInv, SameLibrary, FinishedIsPatched
    <2>9. OpenInv'
      BY StreamsStay DEF ShellInv, CopyItem
    <2> QED
      BY <2>2, <2>5, <2>6, <2>7, <2>8, <2>9 DEF ShellInv
  <1> QED
    BY <1>2, <1>3 DEF CopyItem

\* The steps of ppfdev under a call.
LEMMA PPFKeepsInv ==
    ASSUME ShellInv, StartPPF \/ RunPPF
    PROVE  ShellInv'
  <1>1. call \in Calls /\ call.kind \in {"apply", "make"} /\ call.at \in {"lib", "ppf"}
    BY DEF ShellInv, ShellTypes, Pending, Idle, Calls, StartPPF, RunPPF
  <1>2. \E r \in BOOLEAN : call' = [call EXCEPT !.at = "ppf", !.ran = r]
    <2>1. CASE StartPPF
      <3>1. call' = [call EXCEPT !.at = "ppf", !.ran = call.ran] /\ call.ran \in BOOLEAN
        BY <1>1, <2>1 DEF StartPPF, Calls
      <3> QED
        BY <3>1
    <2>2. CASE RunPPF
      <3> DEFINE r == call.ran \/ pc' \in {"apply", "make"}
      <3>1. r \in BOOLEAN
        OBVIOUS
      <3>2. call' = [call EXCEPT !.ran = r] /\ call.at = "ppf"
        BY <2>2 DEF RunPPF
      <3> HIDE DEF r
      <3>3. call' = [call EXCEPT !.at = "ppf", !.ran = r]
        BY <1>1, <3>2 DEF Calls
      <3> QED
        BY <3>1, <3>3
    <2> QED
      BY <2>1, <2>2
  <1>3. /\ call' \in Calls /\ call'.at = "ppf" /\ call'.kind = call.kind /\ call'.lib = call.lib
        /\ call'.by = call.by /\ call'.out = call.out
    BY <1>1, <1>2 DEF Calls
  <1>4. UNCHANGED <<windowVars, fieldVars, files, told, calls>>
    BY DEF StartPPF, RunPPF
  <1>5. told = "none"
    BY <1>1 DEF ShellInv, Pending
  <1>6. ShellTypes'
    BY <1>3, <1>4 DEF ShellInv, ShellTypes, windowVars, fieldVars
  <1>7. FilesNamed' /\ FieldsNamed'
    BY <1>4 DEF ShellInv, FilesNamed, FieldsNamed, fieldVars
  <1>8. Pending'
    BY <1>1, <1>3, <1>4, <1>5 DEF ShellInv, Pending, Idle
  <1>9. SameLibrary' /\ FinishedIsPatched'
    BY <1>3, <1>4, <1>5 DEF ShellInv, SameLibrary, FinishedIsPatched
  <1>10. OpenInv'
    <2>1. [Next]_vars
      BY DEF StartPPF, RunPPF, Next
    <2> QED
      BY <2>1, StreamsStep DEF ShellInv
  <1> QED
    BY <1>6, <1>7, <1>8, <1>9, <1>10 DEF ShellInv

\* The command reads a suffix as the windows do, and makes the formats it knows by the
\* library that they are read by.
LEMMA CommandApplyKeepsInv ==
    ASSUME ShellInv, NEW p \in Paths, NEW rom \in Data, NEW out \in Outputs \cup Data,
           CommandApply(p, rom, out)
    PROVE  ShellInv'
  <1> DEFINE c == [NoCall EXCEPT !.kind = "apply", !.lib = Library(CommandReads(p)),
                                 !.by = files[p], !.from = files[rom], !.out = out]
  <1>1. rom \in Paths /\ out \in Paths
    BY PathNames
  <1>2. CommandReads(p) = Detect(p)
    BY DEF CommandReads, Detect
  <1>3. /\ c \in Calls /\ c.kind = "apply" /\ c.lib = Library(Detect(p)) /\ c.by = files[p]
        /\ c.from = files[rom] /\ c.out = out
    <2>1. Library(Detect(p)) \in Libs \cup {"unknown"}
      BY FormatNames
    <2>2. files[p] \in Contents /\ files[rom] \in Contents /\ files[out] \in Contents
      BY <1>1 DEF ShellInv, ShellTypes
    <2> QED
      BY <1>1, <1>2, <2>1, <2>2, NoCallTypes DEF Calls, NoCall
  <1>4. c.kind = "apply" /\ IsPatch(c.by) => c.lib = c.by[1]
    BY <1>3 DEF ShellInv, FilesNamed
  <1> HIDE DEF c
  <1>5. calls' \in 0..MaxCalls
    BY CallCount DEF CommandApply, ShellInv, ShellTypes
  <1>6. \E o : /\ Ran(c, o) /\ o.out \in Contents /\ o.code \in {"ok", "warning", "error"}
               /\ o.lost \in BOOLEAN /\ (o.out = files[out] \/ ~IsPatch(o.out))
               /\ o.code = "ok" /\ c.lib # "unknown" => Delivered(c, o.out, o.lost)
    <2> DEFINE before == IF Copies(c.lib) THEN c.from ELSE files[out]
    <2>1. /\ files[out] \in Contents /\ c.from \in Contents /\ ~IsPatch(c.from)
          /\ before \in Contents /\ (before = files[out] \/ ~IsPatch(before))
      BY <1>1, <1>3, ShellAssumption DEF ShellInv, ShellTypes, FilesNamed
    <2>2. CASE c.lib = "unknown" /\ Ran(c, Outcome("ok", files[out]))
      <3> DEFINE o == Outcome("ok", files[out])
      <3>1. o.out = files[out] /\ o.code = "ok" /\ o.lost \in BOOLEAN
        BY Ends
      <3> HIDE DEF o
      <3>2. Ran(c, o)
        BY <2>2 DEF o
      <3> QED
        BY <2>1, <2>2, <3>1, <3>2
    <2>3. CASE Ran(c, Outcome("error", files[out]))
      <3> DEFINE o == Outcome("error", files[out])
      <3>1. o.out = files[out] /\ o.code = "error" /\ o.lost \in BOOLEAN
        BY Ends
      <3> HIDE DEF o
      <3>2. Ran(c, o)
        BY <2>3 DEF o
      <3> QED
        BY <2>1, <3>1, <3>2
    <2>4. CASE \E o \in Outcomes(c, before, FALSE) : Ran(c, o)
      <3>1. PICK o \in Outcomes(c, before, FALSE) : Ran(c, o)
        BY <2>4
      <3> HIDE DEF before
      <3>2. /\ o.out \in Contents /\ o.code \in {"ok", "warning", "error"} /\ o.lost \in BOOLEAN
            /\ o.out = before \/ ~IsPatch(o.out)
            /\ o.code = "ok" => Delivered(c, o.out, o.lost)
        <4>1. PICK ignored \in BOOLEAN : ignored = FALSE
          OBVIOUS
        <4>2. o \in ApplyOutcomes(c.lib, c.by, c.from, before, ignored)
          BY <1>3, <3>1, <4>1 DEF Outcomes
        <4> QED
          BY <1>3, <2>1, <4>1, <4>2, ApplyOutcome
      <3> QED
        BY <2>1, <3>1, <3>2
    <2> QED
      BY <2>2, <2>3, <2>4 DEF CommandApply, c
  <1>7. PICK o : /\ Ran(c, o) /\ o.out \in Contents /\ o.code \in {"ok", "warning", "error"}
                 /\ o.lost \in BOOLEAN /\ (o.out = files[out] \/ ~IsPatch(o.out))
                 /\ o.code = "ok" /\ c.lib # "unknown" => Delivered(c, o.out, o.lost)
    BY <1>6
  <1>8. /\ told' \in {"finished", "warning", "failed"}
        /\ told' = "finished" => o.code = "ok"
        /\ files' = [files EXCEPT ![c.out] = o.out]
        /\ call' = [c EXCEPT !.at = "alert", !.lost = o.lost]
    BY <1>7 DEF Ran
  <1>9. UNCHANGED <<windowVars, fieldVars, streamVars>>
    BY DEF CommandApply
  <1>10. PICK left \in Contents, lost \in BOOLEAN : left = o.out /\ lost = o.lost
    BY <1>7
  <1>11. told' = "finished" /\ c.kind = "apply" /\ c.lib # "unknown" => Delivered(c, left, lost)
    BY <1>7, <1>8, <1>10
  <1> QED
    BY <1>1, <1>3, <1>4, <1>5, <1>7, <1>8, <1>9, <1>10, <1>11, EndedKeepsInv

LEMMA CommandCreateKeepsInv ==
    ASSUME ShellInv, NEW orig \in Data, NEW mod \in Data, NEW s \in Stems,
           CommandCreate(orig, mod, s)
    PROVE  ShellInv'
  <1> DEFINE c == [NoCall EXCEPT !.kind = "make", !.lib = Library(CommandMakes(s)),
                                 !.from = files[orig], !.to = files[mod], !.out = s]
  <1>1. orig \in Paths /\ mod \in Paths /\ s \in Paths
    BY PathNames
  <1>2. CommandMakes(s) = "unknown" \/ CommandMakes(s) = Detect(s)
    BY DEF CommandMakes, Detect
  <1>3. /\ Library("unknown") = "unknown" /\ Library(CommandMakes(s)) \in Libs \cup {"unknown"}
        /\ Library(CommandMakes(s)) # "unknown" =>
              Detect(s) # "unknown" /\ Library(CommandMakes(s)) = Library(Detect(s))
    <2>1. Library("unknown") = "unknown"
      BY DEF Library
    <2> QED
      BY <1>2, <2>1, FormatNames
  <1>4. files[orig] \in Contents /\ files[mod] \in Contents /\ files[s] \in Contents
    BY <1>1 DEF ShellInv, ShellTypes
  <1>5. /\ c \in Calls /\ c.kind = "make" /\ c.lib = Library(CommandMakes(s))
        /\ c.from = files[orig] /\ c.to = files[mod] /\ c.out = s
    BY <1>1, <1>3, <1>4, NoCallTypes DEF Calls, NoCall
  <1> HIDE DEF c
  <1>6. calls' \in 0..MaxCalls
    BY CallCount DEF CommandCreate, ShellInv, ShellTypes
  <1>7. \E o : /\ Ran(c, o) /\ o.out \in Contents /\ o.code \in {"ok", "warning", "error"}
               /\ o.lost \in BOOLEAN
               /\ \/ o.out = files[s]
                  \/ ~IsPatch(o.out)
                  \/ Detect(s) # "unknown" /\ o.out[1] = Library(Detect(s))
    <2>1. CASE Ran(c, Outcome("error", files[s]))
      <3> DEFINE o == Outcome("error", files[s])
      <3>1. o.out = files[s] /\ o.code = "error" /\ o.lost \in BOOLEAN
        BY Ends
      <3> HIDE DEF o
      <3>2. Ran(c, o)
        BY <2>1 DEF o
      <3> QED
        BY <1>4, <3>1, <3>2
    <2>2. CASE c.lib # "unknown" /\ \E o \in Outcomes(c, files[s], FALSE) : Ran(c, o)
      <3>1. PICK o \in Outcomes(c, files[s], FALSE) : Ran(c, o)
        BY <2>2
      <3>2. PICK ignored \in BOOLEAN : ignored = FALSE
        OBVIOUS
      <3>3. o \in Outcomes(c, files[s], ignored)
        BY <3>1, <3>2
      <3> QED
        BY <1>3, <1>4, <1>5, <2>2, <3>1, <3>3, OutcomeFacts
    <2> QED
      BY <2>1, <2>2 DEF CommandCreate, c
  <1>8. PICK o : /\ Ran(c, o) /\ o.out \in Contents /\ o.code \in {"ok", "warning", "error"}
                 /\ o.lost \in BOOLEAN
                 /\ \/ o.out = files[s]
                    \/ ~IsPatch(o.out)
                    \/ Detect(s) # "unknown" /\ o.out[1] = Library(Detect(s))
    BY <1>7
  <1>9. /\ told' \in {"finished", "warning", "failed"}
        /\ files' = [files EXCEPT ![c.out] = o.out]
        /\ call' = [c EXCEPT !.at = "alert", !.lost = o.lost]
    BY <1>8 DEF Ran
  <1>11. PICK left \in Contents, lost \in BOOLEAN : left = o.out /\ lost = o.lost
    BY <1>8
  <1>10. UNCHANGED <<windowVars, fieldVars, streamVars>>
    BY DEF CommandCreate
  <1> QED
    BY <1>1, <1>5, <1>6, <1>8, <1>9, <1>10, <1>11, EndedKeepsInv

-----------------------------------------------------------------------------
\* Every step of the windows, the command, a restart and ppfdev keeps the invariant, for
\* all names, files, outputs and numbers of calls.
THEOREM ShellInvariant == ShellSpec => []ShellInv
  <1>1. ShellInv /\ [ShellNext]_allVars => ShellInv'
    <2> SUFFICES ASSUME ShellInv, [ShellNext]_allVars
                 PROVE  ShellInv'
      OBVIOUS
    <2>1. CASE Restart
      BY <2>1, RestartKeepsInv
    <2>2. CASE (\E w \in {"patch", "creation"} : Flip(w)) \/ AnimationDidStop \/ ChkIgnoreXDelta
      BY <2>2, WindowsKeepInv
    <2>3. CASE \E p \in Paths : SetPatchFile(p)
      BY <2>3, SetPatchFileKeepsInv
    <2>4. CASE \E s \in Stems, t \in Titles : SelOutputPanelEnd(s, t)
      BY <2>4, SelOutputPanelEndKeepsInv
    <2>5. CASE \E rom \in Data, out \in Outputs \cup Data : BtnApply(rom, out)
      BY <2>5, BtnApplyKeepsInv
    <2>6. CASE \E orig, mod \in Data : BtnCreatePatch(orig, mod)
      BY <2>6, BtnCreatePatchKeepsInv
    <2>7. CASE Okay \/ CopyItem \/ CallReturns
      BY <2>7, OkayKeepsInv, CopyItemKeepsInv, CallReturnsKeepsInv
    <2>8. CASE StartPPF \/ RunPPF \/ PPFReturns
      BY <2>8, PPFKeepsInv, PPFReturnsKeepsInv
    <2>9. CASE \E p \in Paths, rom \in Data, out \in Outputs \cup Data : CommandApply(p, rom, out)
      BY <2>9, CommandApplyKeepsInv
    <2>10. CASE \E orig, mod \in Data, s \in Stems : CommandCreate(orig, mod, s)
      BY <2>10, CommandCreateKeepsInv
    <2>11. CASE UNCHANGED allVars
      <3>1. ShellTypes'
        BY <2>11 DEF ShellInv, ShellTypes, allVars, windowVars, fieldVars
      <3>2. FieldsNamed'
        BY <2>11 DEF ShellInv, FieldsNamed, allVars, fieldVars
      <3> QED
        BY <2>11, <3>1, <3>2, QuietKeepsInv DEF allVars
    <2> QED
      BY <2>1, <2>2, <2>3, <2>4, <2>5, <2>6, <2>7, <2>8, <2>9, <2>10, <2>11 DEF ShellNext
  <1> QED
    BY <1>1, ShellInitInv, PTL DEF ShellSpec

\* The three chains of hasSuffix and the titles of the creation window agree: a patch is
\* handed to the library that wrote it.
THEOREM SameLibraryHolds == ShellSpec => []SameLibrary
  <1>1. ShellInv => SameLibrary
    BY DEF ShellInv
  <1> QED
    BY <1>1, ShellInvariant, PTL

\* "Finished!" after applying a patch means what it says (MPPatchResult), but for what PPF,
\* RUP and XDelta do not notice and for a PPF or RUP patch between files of two sizes.
THEOREM FinishedIsPatchedHolds == ShellSpec => []FinishedIsPatched
  <1>1. ShellInv => FinishedIsPatched
    BY DEF ShellInv
  <1> QED
    BY <1>1, ShellInvariant, PTL

\* After every call of ppfdev, whatever failed in it, no stream of it is open.
THEOREM NoLeak == ShellSpec => []NoneLeftOpen
  <1>1. ShellInv => NoneLeftOpen
    BY DEF ShellInv, OpenInv, NoneLeftOpen
  <1> QED
    BY <1>1, ShellInvariant, PTL

\* While it reads and writes its streams they are open and different.
THEOREM InUseOpen == ShellSpec => []UsedAreOpen
  <1>1. ShellInv => UsedAreOpen
    BY DEF ShellInv, OpenInv, UsedAreOpen, Globals
  <1> QED
    BY <1>1, ShellInvariant, PTL

\* applyPPF never passes fclose a stream that is closed.
THEOREM ApplyCloses == ShellSpec => []ApplyClosesOpen
  <1>1. ShellInv => ApplyClosesOpen
    BY Tails DEF ShellInv, OpenInv, ApplyClosesOpen
  <1> QED
    BY <1>1, ShellInvariant, PTL
=============================================================================
