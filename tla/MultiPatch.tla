----------------------------- MODULE MultiPatch -----------------------------
(***************************************************************************)
(* The application: the patch window, the creation window and the flip from *)
(* one to the other, the formats they tell apart by suffix, the adapters     *)
(* that call the libraries, and the command line.  Calls run on the main     *)
(* thread, so the windows take no event while one runs.  The calls of        *)
(* ppfdev, whose streams outlive them, take the steps of PPFStreams.         *)
(*                                                                         *)
(* A path is a sequence, the stem and then what follows each dot.  The text  *)
(* fields nothing is derived from are chosen when the button is pressed.     *)
(***************************************************************************)
EXTENDS PPFStreams

CONSTANTS
    Stems,     \* the names the user gives to patches
    Titles,    \* the formats of the creation window, as it lists them
    Data,      \* the files there are at first
    Found,     \* patches made elsewhere: what is at which path
    Size,      \* how long the data known by a name is
    Outputs,   \* where patched files go
    MaxCalls   \* how often a button is pressed or the command is run

VARIABLES
    visible,      \* the windows on screen
    target,       \* the window a flip is to end with, or "none"
    patch, patchFormat,     \* patch window: txtPatchPath, currentFormat
    made, madeFormat,       \* creation window: txtPatchFile, currentFormat
    ignore,       \* MPSettings.IgnoreXDeltaChecksum
    files,        \* what each file holds
    call,         \* the call of a library that runs or ran last
    told,         \* what the user is told of it: "finished", "warning" or "failed"
    calls         \* how many there were

windowVars == <<visible, target>>
fieldVars == <<patch, patchFormat, made, madeFormat, ignore>>
streamVars == <<pc, ptr, open, closing>>
allVars == <<windowVars, fieldVars, files, call, told, calls, streamVars>>

-----------------------------------------------------------------------------
(* Paths and formats.                                                      *)

NoPath == <<>>
\* A stem alone has none.  (That a name ends in delta is enough, without a dot: no
\* stem does.)
Suffix(path) == IF Len(path) > 1 THEN path[Len(path)] ELSE ""

\* Of the suffixes in capitals; those in both cases are left out.
Lower(s) ==
    LET small == [UPS |-> "ups", IPS |-> "ips", PPF |-> "ppf", BPS |-> "bps", RUP |-> "rup",
                  DAT |-> "dat", DELTA |-> "delta", XDELTA |-> "xdelta", BDF |-> "bdf",
                  BSDIFF |-> "bsdiff"]
    IN  IF s \in DOMAIN small THEN small[s] ELSE s

FormatOf(s) ==
    IF s \in {"ups", "ips", "ppf", "bps", "rup"} THEN s
    ELSE IF s \in {"dat", "delta", "xdelta"} THEN "xdelta"
    ELSE IF s \in {"bdf", "bsdiff"} THEN "bsdiff" ELSE "unknown"

\* Three chains of hasSuffix: of detectPatchFormat, and of applyPatch and
\* createPatch of the command.
Detect(path) == FormatOf(Lower(Suffix(path)))

\* A slip: the suffix is compared as it is written.
CommandReadsCased(path) == FormatOf(Suffix(path))
CommandReads(path) == FormatOf(Lower(Suffix(path)))

CommandMakes(path) ==
    LET format == FormatOf(Lower(Suffix(path)))
    IN  IF format \in {"ups", "rup"} THEN "unknown" ELSE format

\* What a title of the creation window appends, unless the name has it already.
Appended(t) ==
    CASE t \in {"Delta BPS", "Linear BPS"} -> "bps" [] t = "IPS" -> "ips"
      [] t = "PPF" -> "ppf" [] t = "XDelta" -> "delta" [] t = "BSDiff" -> "bdf"
HasSuffix(path, s) == Suffix(path) = s
Completed(path, t) ==
    IF HasSuffix(path, Appended(t)) THEN path ELSE Append(path, Appended(t))

Paths == Stems \cup {Append(s, Appended(t)) : s \in Stems, t \in Titles} \cup Data \cup Outputs
         \cup DOMAIN Found

\* What a file holds: nothing; the data known by a name; a patch by a library from one
\* to another, whole or damaged; or something wrong.
Names == DOMAIN Size
Absent == <<>>
Junk == <<"junk">>
Holds(d) == <<"data", d>>
Exists(f) == files[f] # Absent
Damaged(lib, a, b) == <<lib, a, b, "damaged">>
IsDamaged(c) == Len(c) = 4
IsPatch(c) == Len(c) = 3 \/ IsDamaged(c)

\* The library that makes and reads a format.
Library(format) == IF format \in {"ups", "ips", "bps", "bpsdelta"} THEN "flips" ELSE format

\* What is patched does not have the name of a patch, and what is found has the suffix
\* of its format.
ASSUME ShellAssumption ==
    /\ \A p \in Stems \cup Data \cup Outputs \cup DOMAIN Found :
          p # NoPath /\ p \in Seq({p[i] : i \in 1..Len(p)})
    /\ \A f \in Data : f[1] \in Names
    /\ \A f \in DOMAIN Found :
          Detect(f) # "unknown" /\ Found[f] \in {Library(Detect(f))} \X Names \X Names
    /\ Titles \subseteq {"Delta BPS", "Linear BPS", "IPS", "PPF", "XDelta", "BSDiff"}
    /\ \A f \in Data \cup Outputs : Detect(f) = "unknown"
    /\ MaxCalls \in Nat

-----------------------------------------------------------------------------
(* How a library may end, and what it leaves in the output that held before.  *)

\* Bytes that cannot be written are not missed by these: makePPF and applyPPF look at
\* no result of fwrite, code() of the XDelta adapter returns the 0 of an fwrite that
\* wrote nothing, rup2_apply looks at no result of fwrite, remove and rename.
\* Nor do they see that a patch has ended early.
Unnoticing == {"ppf", "xdelta", "rup"}

\* lost says that it happened.
Outcome(code, out) == [code |-> code, out |-> out, lost |-> FALSE]
Failures(before) == {Outcome("error", before), Outcome("error", Junk)}

MakeOutcomes(lib, a, b, before) ==
    Failures(before)
    \cup (IF Len(a) # 2 \/ Len(b) # 2 THEN {}
          ELSE {Outcome("error", Damaged(lib, a[2], b[2]))}
               \cup {Outcome(c, <<lib, a[2], b[2]>>) :
                        c \in IF lib = "flips" THEN {"ok", "warning"} ELSE {"ok"}}
               \cup (IF lib \notin Unnoticing THEN {}
                     ELSE {[code |-> "ok", out |-> Damaged(lib, a[2], b[2]), lost |-> TRUE]}))

\* A patch is for one file, those of RUP for either of two.
MeantFor(lib, p, c) == c = Holds(p[2]) \/ (lib = "rup" /\ c = Holds(p[3]))
Result(lib, p, c) == IF lib = "rup" /\ c # Holds(p[2]) THEN Holds(p[2]) ELSE Holds(p[3])

\* PPF leaves the length of the file as it is, RUP may shorten it too much or too little.
Resizes(lib, p) == lib \in {"ppf", "rup"} /\ Size[p[2]] # Size[p[3]]

RightFile(lib, p, c) ==
    {Outcome("ok", Result(lib, p, c))} \cup (IF Resizes(lib, p) THEN {Outcome("ok", Junk)} ELSE {})

\* XDelta and RUP find out that it is the wrong file, XDelta by the checksum of what it
\* writes, unless that is ignored, so that a patch which takes nothing from the file fits
\* all; the others need not find out.
WrongFile(lib, p, ignored) ==
    CASE lib = "xdelta" ->
           {Outcome("ok", Holds(p[3]))} \cup (IF ignored THEN {Outcome("ok", Junk)} ELSE {})
      [] lib = "rup" -> {}
      [] OTHER -> {Outcome(c2, Junk) : c2 \in {"ok", "warning"}}

DamagedPatch(lib, p) ==
    IF lib \in Unnoticing THEN {Outcome("ok", Junk), Outcome("ok", Holds(p[3]))} ELSE {}

\* What a success that lost something leaves: nothing at all if the file that replaces
\* the output of rup2_apply could not be renamed.
Losing(lib, before) ==
    LET Leaving(left) == {[code |-> "ok", out |-> o, lost |-> TRUE] : o \in left}
    IN  CASE lib = "xdelta" -> Leaving({Junk})
          [] lib = "ppf" -> Leaving({before, Junk})
          [] lib = "rup" -> Leaving({before, Junk, Absent})
          [] OTHER -> {}

ApplyOutcomes(lib, p, c, before, ignored) ==
    Failures(before)
    \cup (IF ~IsPatch(p) \/ p[1] # lib THEN {}
          ELSE Losing(lib, before)
               \cup (IF IsDamaged(p) THEN DamagedPatch(lib, p)
                     ELSE IF MeantFor(lib, p, c) THEN RightFile(lib, p, c)
                     ELSE WrongFile(lib, p, ignored)))

\* A slip: nothing reminds of the checksum that was ignored.
VerdictPlain(c, code) ==
    IF code = "error" THEN "failed" ELSE IF code = "warning" THEN "warning" ELSE "finished"
\* The MPPatchResult of the adapter, as the alert tells it.
Verdict(c, code) ==
    IF code = "error" THEN "failed"
    ELSE IF code = "warning" \/ (c.lib = "xdelta" /\ c.kind = "apply" /\ ignore) THEN "warning"
    ELSE "finished"

-----------------------------------------------------------------------------
NoCall == [at |-> "idle", kind |-> "none", lib |-> "none", by |-> Absent, from |-> Absent,
           to |-> Absent, out |-> NoPath, ran |-> FALSE, lost |-> FALSE]
Idle == call.at = "idle"

\* applicationDidFinishLaunching
IgnoreAtLaunch == FALSE

Launched ==
    /\ visible = {"patch"} /\ target = "none"
    /\ patch = NoPath /\ patchFormat = "unknown" /\ made = NoPath /\ madeFormat = "unknown"
    /\ ignore = FALSE /\ call = NoCall /\ told = "none" /\ Init

ShellInit ==
    /\ Launched
    /\ files = [f \in Paths |-> IF f \in Data THEN Holds(f[1])
                                ELSE IF f \in DOMAIN Found THEN Found[f] ELSE Absent]
    /\ calls = 0

Outcomes(c, before, ignored) ==
    IF c.kind = "apply" THEN ApplyOutcomes(c.lib, c.by, c.from, before, ignored)
    ELSE MakeOutcomes(c.lib, c.from, c.to, before)

\* It is quit, or killed whatever it is doing, and started again: the files stay, with
\* the output of a call that ran as it may leave it, or half a copy.
Restart ==
    /\ visible' = {"patch"} /\ target' = "none"
    /\ patch' = NoPath /\ patchFormat' = "unknown" /\ made' = NoPath /\ madeFormat' = "unknown"
    /\ ignore' = IgnoreAtLaunch /\ call' = NoCall /\ told' = "none"
    /\ pc' = "idle" /\ ptr' = [g \in Globals |-> NULL] /\ open' = {} /\ closing' = <<>>
    /\ \/ files' = files
       \/ /\ call.at = "lib" \/ (call.at = "ppf" /\ call.ran)
          /\ \E o \in Outcomes(call, files[call.out], ignore) :
                files' = [files EXCEPT ![call.out] = o.out]
       \/ /\ call.at = "copy" /\ ~Exists(call.out)
          /\ files' = [files EXCEPT ![call.out] = Junk]
    /\ UNCHANGED calls

(* The flip (mbFlipWindow).                                                *)

Flip(w) ==
    /\ Idle /\ visible = {w}
    /\ target' = IF w = "patch" THEN "creation" ELSE "patch"
    /\ visible' = {}
    /\ UNCHANGED <<fieldVars, files, call, told, calls, streamVars>>

AnimationDidStop ==
    /\ target # "none"
    /\ visible' = {target} /\ target' = "none"
    /\ UNCHANGED <<fieldVars, files, call, told, calls, streamVars>>

(* The fields.                                                             *)

\* setPatchFile, from the panel or a drop
SetPatchFile(p) ==
    /\ Idle /\ visible = {"patch"} /\ Exists(p)
    /\ patch' = p /\ patchFormat' = Detect(p)
    /\ UNCHANGED <<windowVars, made, madeFormat, ignore, files, call, told, calls,
                   streamVars>>

\* selOutputPanelEnd: a delta is asked for only where the suffix was missing.
SelOutputPanelEnd(s, t) ==
    /\ Idle /\ visible = {"creation"}
    /\ made' = Completed(s, t)
    /\ madeFormat' =
          LET format == Detect(made')
          IN  IF format = "bps" /\ t = "Delta BPS" /\ made' # s THEN "bpsdelta" ELSE format
    /\ UNCHANGED <<windowVars, patch, patchFormat, ignore, files, call, told, calls, streamVars>>

ChkIgnoreXDelta ==
    /\ Idle /\ ignore' = ~ignore
    /\ UNCHANGED <<windowVars, patch, patchFormat, made, madeFormat, files, call, told,
                   calls, streamVars>>

(* The calls.                                                              *)

\* PPFAdapter and RUPAdapter work on a copy, unless the output is the input.
Copies(lib) == lib \in {"ppf", "rup"}

\* btnApply: the button is enabled when the format is known.
BtnApply(rom, out) ==
    /\ Idle /\ visible = {"patch"} /\ patchFormat # "unknown" /\ Exists(patch)
    /\ calls < MaxCalls /\ calls' = calls + 1
    /\ LET lib == Library(patchFormat)
       IN  call' = [at |-> IF Copies(lib) /\ rom # out THEN "copy" ELSE "lib", kind |-> "apply",
                    lib |-> lib, by |-> files[patch], from |-> files[rom], to |-> Absent,
                    out |-> out, ran |-> FALSE, lost |-> FALSE]
    /\ UNCHANGED <<windowVars, fieldVars, files, told, streamVars>>

\* btnCreatePatch of the creation window
BtnCreatePatch(orig, mod) ==
    /\ Idle /\ visible = {"creation"} /\ madeFormat # "unknown" /\ Exists(orig) /\ Exists(mod)
    /\ calls < MaxCalls /\ calls' = calls + 1
    /\ call' = [at |-> "lib", kind |-> "make", lib |-> Library(madeFormat), by |-> Absent,
                from |-> files[orig], to |-> files[mod], out |-> made,
                ran |-> FALSE, lost |-> FALSE]
    /\ UNCHANGED <<windowVars, fieldVars, files, told, streamVars>>

Return(verdict, lost) ==
    told' = verdict /\ call' = [call EXCEPT !.at = "alert", !.lost = lost]

\* NSRunAlertPanel is modal: nothing happens until it is answered.
Okay ==
    /\ call.at = "alert" /\ call' = NoCall /\ told' = "none"
    /\ UNCHANGED <<windowVars, fieldVars, files, calls, streamVars>>

CopyFailed == Return("failed", FALSE)

\* copyItemAtPath does not replace a file.
CopyItem ==
    /\ call.at = "copy"
    /\ \/ CopyFailed /\ UNCHANGED files
       \/ /\ ~Exists(call.out)
          /\ files' = [files EXCEPT ![call.out] = call.from]
          /\ call' = [call EXCEPT !.at = "lib"] /\ UNCHANGED told
    /\ UNCHANGED <<windowVars, fieldVars, calls, streamVars>>

CallReturns ==
    /\ call.at = "lib" /\ call.lib # "ppf"
    /\ \E o \in Outcomes(call, files[call.out], ignore) :
          files' = [files EXCEPT ![call.out] = o.out] /\ Return(Verdict(call, o.code), o.lost)
    /\ UNCHANGED <<windowVars, fieldVars, calls, streamVars>>

\* applyPPF or makePPF ...
StartPPF ==
    /\ call.at = "lib" /\ call.lib = "ppf"
    /\ \/ call.kind = "apply" /\ ApplyPPF
       \/ call.kind = "make" /\ MakePPF
    /\ call' = [call EXCEPT !.at = "ppf"]
    /\ UNCHANGED <<windowVars, fieldVars, files, told, calls>>

RunPPF ==
    /\ call.at = "ppf" /\ pc # "idle" /\ Next
    /\ call' = [call EXCEPT !.ran = @ \/ pc' \in {"apply", "make"}]
    /\ UNCHANGED <<windowVars, fieldVars, files, told, calls>>

\* ... which can end well only if it could open its files.
PPFReturns ==
    /\ call.at = "ppf" /\ pc = "idle"
    /\ \E o \in IF call.ran THEN Outcomes(call, files[call.out], ignore)
                ELSE {Outcome("error", files[call.out])} :
          files' = [files EXCEPT ![call.out] = o.out] /\ Return(Verdict(call, o.code), o.lost)
    /\ UNCHANGED <<windowVars, fieldVars, calls, streamVars>>

(* The command, a process with statics of its own, here in one step.        *)

Ran(c, o) ==
    /\ files' = [files EXCEPT ![c.out] = o.out]
    /\ call' = [c EXCEPT !.at = "alert", !.lost = o.lost]
    /\ told' = IF o.code = "error" THEN "failed" ELSE IF o.code = "ok" THEN "finished" ELSE o.code

CommandApply(p, rom, out) ==
    /\ Idle /\ calls < MaxCalls /\ calls' = calls + 1 /\ Exists(p) /\ Exists(rom)
    /\ LET c == [NoCall EXCEPT !.kind = "apply", !.lib = Library(CommandReads(p)), !.by = files[p],
                               !.from = files[rom], !.out = out]
           before == IF Copies(c.lib) THEN c.from ELSE files[out]
       IN  IF c.lib = "unknown" THEN Ran(c, Outcome("ok", files[out]))
           ELSE \/ Copies(c.lib) /\ rom # out /\ Ran(c, Outcome("error", files[out]))
                \/ /\ Copies(c.lib) /\ rom # out => ~Exists(out)
                   /\ \E o \in Outcomes(c, before, FALSE) : Ran(c, o)
    /\ UNCHANGED <<windowVars, fieldVars, streamVars>>

CommandCreate(orig, mod, out) ==
    /\ Idle /\ calls < MaxCalls /\ calls' = calls + 1 /\ Exists(orig) /\ Exists(mod)
    /\ LET c == [NoCall EXCEPT !.kind = "make", !.lib = Library(CommandMakes(out)),
                               !.from = files[orig], !.to = files[mod], !.out = out]
       IN  IF c.lib = "unknown" THEN Ran(c, Outcome("error", files[out]))
           ELSE \E o \in Outcomes(c, files[out], FALSE) : Ran(c, o)
    /\ UNCHANGED <<windowVars, fieldVars, streamVars>>

ShellNext ==
    \/ Restart \/ (\E w \in {"patch", "creation"} : Flip(w)) \/ AnimationDidStop
    \/ (\E p \in Paths : SetPatchFile(p)) \/ ChkIgnoreXDelta
    \/ (\E s \in Stems, t \in Titles : SelOutputPanelEnd(s, t))
    \/ (\E rom \in Data, out \in Outputs \cup Data : BtnApply(rom, out))
    \/ (\E orig, mod \in Data : BtnCreatePatch(orig, mod))
    \/ Okay \/ CopyItem \/ CallReturns \/ StartPPF \/ RunPPF \/ PPFReturns
    \/ (\E p \in Paths, rom \in Data, out \in Outputs \cup Data : CommandApply(p, rom, out))
    \/ (\E orig, mod \in Data, s \in Stems : CommandCreate(orig, mod, s))

ShellSpec == ShellInit /\ [][ShellNext]_allVars

-----------------------------------------------------------------------------
\* A patch is read by the library that wrote it: the windows and the command agree on
\* what a name means, whatever names and formats were picked before, and in whatever
\* case the suffix is written.
SameLibrary == call.kind = "apply" /\ IsPatch(call.by) => call.lib = call.by[1]

\* "Finished!" after applying a patch means that the output is what the patch makes of
\* the file, the right file for all formats that tell; a checksum that was ignored never
\* ends in "Finished!", not after a restart either.  Excepted are a PPF or RUP patch
\* between files of two sizes, and what these and XDelta do not notice: a patch that is not
\* whole, and bytes or the file itself lost on the way to the output.
FinishedIsPatched ==
    told = "finished" /\ call.kind = "apply" /\ call.lib # "unknown" =>
        /\ IsPatch(call.by)
        /\ \/ files[call.out] = Result(call.lib, call.by, call.from)
           \/ call.lib \notin {"xdelta", "rup"} /\ call.from # Holds(call.by[2])
           \/ Resizes(call.lib, call.by)
           \/ call.lib \in Unnoticing /\ (IsDamaged(call.by) \/ call.lost)
=============================================================================
