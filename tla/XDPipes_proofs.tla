-------------------------- MODULE XDPipes_proofs --------------------------
(***************************************************************************)
(* The processes around xdelta3: DoneIsWhole for all commands, files, pipe  *)
(* capacities and orders in which the processes run.                       *)
(***************************************************************************)
EXTENDS XDPipes, SequenceTheorems, TLAPS

\* xdelta3 is at work, and has not closed anything.
Working == parent \in {"run", "read", "write", "close"}

Copier == [pc : {"write", "next", "ok", "killed"}, nread : {0, 1}, drain : BOOLEAN, left : Nat]
Decompressor == [pc : {"run", "ok", "bad", "killed"}, took : Nat]

Types ==
    /\ cmd \in Commands
    /\ ends \in [Chains -> 0..Blocks]
    /\ copier \in [Chains -> Copier] /\ decomp \in [Chains -> Decompressor]
    /\ inpipe \in [Chains -> Nat] /\ outpipe \in [Chains -> Nat]
    /\ got \in [Chains -> Nat] /\ eof \in [Chains -> BOOLEAN]
    /\ recomp \in {"none", "run", "ok", "bad", "killed"} /\ pipe \in Nat
    /\ parent \in {"run", "read", "write", "close", "wait", "end"}
    /\ parent = "read" => on \in Chains
    /\ writes \in Nat /\ waited \in Nat

\* The verdict is the last thing xdelta3 comes to, and it waits before it.
Stages ==
    /\ parent # "end" => verdict = "none"
    /\ parent = "end" => verdict \in {"done", "failed", "killed"}
    /\ Working => waited = 0
    /\ verdict = "done" => waited = Len(Subprocs)

\* While it works, everything it reads from and writes to is open.
Open ==
    /\ Working => Chains \subseteq fds
    /\ Working /\ recomp # "none" => Output \in fds
    /\ cmd.recompress /\ (parent \in {"close", "wait"} \/ verdict = "done") => recomp # "none"

\* What a decompressor has written is in its pipe or has been read.  The end of a pipe
\* is not seen before its decompressor has ended, and it has not been killed then.
Decompressed ==
    \A c \in Chains :
        /\ decomp[c].took = got[c] + outpipe[c]
        /\ decomp[c].pc = "ok" => decomp[c].took = ends[c]
        /\ decomp[c].pc = "killed" => ~Working
        /\ eof[c] => decomp[c].pc \in {"ok", "bad"} /\ outpipe[c] = 0

\* The recompressor ends well only when its pipe is closed and empty.
Recompressed ==
    /\ recomp = "ok" => pipe = 0 /\ ~Working
    /\ recomp = "killed" => verdict = "failed"

\* What has been waited for has ended well.
WaitedFor ==
    /\ waited <= Len(Subprocs)
    /\ verdict # "failed" => \A n \in 1..waited : Well(Subprocs[n])

Inv == Types /\ Stages /\ Open /\ Decompressed /\ Recompressed /\ WaitedFor

-----------------------------------------------------------------------------
(* What xdelta3 waits for.                                                 *)

LEMMA CommandTypes ==
    ASSUME Types
    PROVE  cmd.chains \in Nat /\ cmd.recompress \in BOOLEAN /\ Chains = 1..cmd.chains
  BY PipesAssumption DEF Types, Chains

LEMMA Halves ==
    ASSUME NEW m \in Nat, NEW n \in 1..(2 * m)
    PROVE  /\ n % 2 = 1 => (n + 1) \div 2 \in 1..m
           /\ n % 2 # 1 => n \div 2 \in 1..m
  OBVIOUS

\* The decompressors and copiers of the chains in turn, and the recompressor at the end.
SubprocAt(n) ==
    IF n > 2 * cmd.chains THEN recomp
    ELSE IF n % 2 = 1 THEN decomp[(n + 1) \div 2].pc ELSE copier[n \div 2].pc

LEMMA SubprocList ==
    Types =>
        /\ Len(Subprocs) = 2 * cmd.chains + (IF recomp = "none" THEN 0 ELSE 1)
        /\ \A n \in 1..Len(Subprocs) : Subprocs[n] = SubprocAt(n)
  <1> SUFFICES ASSUME Types
               PROVE  /\ Len(Subprocs) = 2 * cmd.chains + (IF recomp = "none" THEN 0 ELSE 1)
                      /\ \A n \in 1..Len(Subprocs) : Subprocs[n] = SubprocAt(n)
    OBVIOUS
  <1> DEFINE States == {"write", "next", "run", "ok", "bad", "killed"}
             front == [n \in 1..(2 * cmd.chains) |->
                          IF n % 2 = 1 THEN decomp[(n + 1) \div 2].pc ELSE copier[n \div 2].pc]
             back == IF recomp = "none" THEN <<>> ELSE <<recomp>>
  <1>1. cmd.chains \in Nat /\ Chains = 1..cmd.chains
    BY CommandTypes
  <1>2. PICK m \in Nat : m = 2 * cmd.chains
    BY <1>1
  <1>3. front \in Seq(States) /\ Len(front) = m
    <2>1. ASSUME NEW n \in 1..m
          PROVE  (IF n % 2 = 1 THEN decomp[(n + 1) \div 2].pc ELSE copier[n \div 2].pc) \in States
      <3>1. /\ n % 2 = 1 => (n + 1) \div 2 \in Chains
            /\ n % 2 # 1 => n \div 2 \in Chains
        BY <1>1, <1>2, Halves
      <3> QED
        BY <3>1 DEF Types, Copier, Decompressor
    <2>2. front \in [1..m -> States]
      BY <2>1, <1>2
    <2> HIDE DEF front, States
    <2>3. front \in Seq(States)
      BY <2>2, SeqDef
    <2> QED
      BY <2>2, <2>3, LenProperties
  <1>4. back \in Seq(States) /\ Len(back) = (IF recomp = "none" THEN 0 ELSE 1)
    <2>1. CASE recomp = "none"
      BY <2>1, EmptySeq
    <2>2. CASE recomp # "none"
      <3>1. recomp \in States
        BY <2>2 DEF Types
      <3> HIDE DEF States
      <3> QED
        BY <2>2, <3>1
    <2> QED
      BY <2>1, <2>2
  <1>5. Subprocs = front \o back
    BY DEF Subprocs
  <1> HIDE DEF States, back
  <1>6. Len(Subprocs) = m + Len(back)
    <2>1. Len(front \o back) = Len(front) + Len(back)
      BY <1>3, <1>4, ConcatProperties
    <2> QED
      BY <2>1, <1>3, <1>5
  <1>7. ASSUME NEW n \in 1..Len(Subprocs)
        PROVE  Subprocs[n] = SubprocAt(n)
    <2>1. CASE n <= m
      <3>1. n \in 1..Len(front)
        BY <2>1, <1>2, <1>3, <1>4, <1>6
      <3> HIDE DEF front
      <3>2. (front \o back)[n] = front[n]
        BY <3>1, <1>3, <1>4, ConcatProperties
      <3>3. n \in 1..(2 * cmd.chains) /\ ~(n > 2 * cmd.chains)
        BY <3>1, <2>1, <1>2, <1>3
      <3> QED
        BY <3>2, <3>3, <1>5 DEF SubprocAt, front
    <2>2. CASE n > m
      <3>1. recomp # "none" /\ n = m + 1
        BY <2>2, <1>2, <1>4, <1>6
      <3>2. back = <<recomp>>
        BY <3>1 DEF back
      <3>3. (front \o back)[n] = back[1]
        <4>1. n > Len(front) /\ n <= Len(front) + Len(back) /\ n \in Nat /\ n - Len(front) = 1
          BY <3>1, <1>2, <1>3, <1>4
        <4> HIDE DEF front
        <4> QED
          BY <4>1, <1>3, <1>4, ConcatProperties
      <3> QED
        BY <3>1, <3>2, <3>3, <2>2, <1>2, <1>5 DEF SubprocAt
    <2> QED
      BY <2>1, <2>2, <1>2
  <1> QED
    BY <1>2, <1>4, <1>6, <1>7

\* A process that has ended stays as it is.
EndedStay ==
    /\ cmd' = cmd
    /\ \A c \in Chains : /\ ~Alive(decomp[c].pc) => decomp'[c].pc = decomp[c].pc
                         /\ ~Alive(copier[c].pc) => copier'[c].pc = copier[c].pc
    /\ recomp' = "none" <=> recomp = "none"
    /\ ~Alive(recomp) => recomp' = recomp

LEMMA SameProcesses ==
    ASSUME Types, Types', EndedStay
    PROVE  /\ Len(Subprocs)' = Len(Subprocs)
           /\ \A n \in 1..Len(Subprocs) : ~Alive(Subprocs[n]) => Subprocs'[n] = Subprocs[n]
  <1>1. (Types => /\ Len(Subprocs) = 2 * cmd.chains + (IF recomp = "none" THEN 0 ELSE 1)
                  /\ \A n \in 1..Len(Subprocs) : Subprocs[n] = SubprocAt(n))'
    BY SubprocList, PTL
  <1>2. Len(Subprocs)' = Len(Subprocs)
    BY <1>1, SubprocList DEF EndedStay
  <1>3. ASSUME NEW n \in 1..Len(Subprocs), ~Alive(Subprocs[n])
        PROVE  Subprocs'[n] = Subprocs[n]
    <2>1. Subprocs[n] = SubprocAt(n) /\ Subprocs'[n] = SubprocAt(n)'
      BY <1>1, <1>2, SubprocList
    <2>2. cmd.chains \in Nat /\ Chains = 1..cmd.chains
      BY CommandTypes
    <2>3. CASE n > 2 * cmd.chains
      BY <1>3, <2>1, <2>3 DEF SubprocAt, EndedStay
    <2>4. CASE n <= 2 * cmd.chains
      <3>1. /\ n % 2 = 1 => (n + 1) \div 2 \in Chains
            /\ n % 2 # 1 => n \div 2 \in Chains
        BY <2>2, <2>4, Halves
      <3>2. ~(n > 2 * cmd.chains)
        BY <2>2, <2>4
      <3> QED
        BY <1>3, <2>1, <3>1, <3>2 DEF SubprocAt, EndedStay
    <2> QED
      BY <2>2, <2>3, <2>4
  <1> QED
    BY <1>2, <1>3

LEMMA WaitedStay ==
    ASSUME Types, Types', EndedStay, WaitedFor, waited' = waited,
           verdict' # "failed" => verdict # "failed"
    PROVE  WaitedFor' /\ Len(Subprocs)' = Len(Subprocs)
  <1>1. Len(Subprocs)' = Len(Subprocs)
    BY SameProcesses
  <1>2. waited' <= Len(Subprocs)'
    BY <1>1 DEF WaitedFor
  <1>3. Len(Subprocs) \in Nat
    BY SubprocList, CommandTypes
  <1>4. ASSUME verdict' # "failed", NEW n \in 1..waited
        PROVE  Well(Subprocs'[n])
    <2>1. n \in 1..Len(Subprocs) /\ Well(Subprocs[n])
      BY <1>3, <1>4 DEF WaitedFor, Types
    <2>2. ~Alive(Subprocs[n])
      BY <2>1 DEF Well, Alive, Ended
    <2> QED
      BY <2>1, <2>2, SameProcesses
  <1>5. (\A n \in 1..waited : Well(Subprocs[n]))' <=> \A n \in 1..waited : Well(Subprocs'[n])
    BY DEF Well
  <1> QED
    BY <1>1, <1>2, <1>4, <1>5 DEF WaitedFor

-----------------------------------------------------------------------------
(* The steps of the processes around xdelta3.                              *)

\* They leave xdelta3 to its own, and what has ended stays ended.
LEMMA ChildKeepsInv ==
    ASSUME Inv, Types', UnchangedParent, EndedStay, Decompressed', Recompressed'
    PROVE  Inv'
  <1>1. WaitedFor' /\ Len(Subprocs)' = Len(Subprocs)
    BY WaitedStay DEF Inv, UnchangedParent
  <1>2. Stages'
    BY <1>1 DEF Inv, Stages, UnchangedParent, Working
  <1>3. Open'
    BY DEF Inv, Open, UnchangedParent, Working, EndedStay, Chains
  <1> QED
    BY <1>1, <1>2, <1>3 DEF Inv

LEMMA CopierWriteKeepsInv ==
    ASSUME Inv, NEW c \in Chains, CopierWrite(c)
    PROVE  Inv'
  <1>1. Chains' = Chains
    BY DEF CopierWrite, UnchangedParent, Chains
  <1>2. Types'
    <2>1. copier[c] \in Copier
      BY DEF Inv, Types
    <2>2. PICK r \in Copier : copier' = [copier EXCEPT ![c] = r]
      <3>1. [copier[c] EXCEPT !.pc = "next", !.drain = FALSE] \in Copier
        BY <2>1 DEF Copier
      <3>2. [copier[c] EXCEPT !.pc = "next", !.drain = TRUE] \in Copier
        BY <2>1 DEF Copier
      <3> QED
        BY <3>1, <3>2 DEF CopierWrite
    <2>3. copier' \in [Chains -> Copier]
      BY <2>2 DEF Inv, Types
    <2>4. inpipe' \in [Chains -> Nat]
      BY DEF Inv, Types, CopierWrite
    <2> QED
      BY <1>1, <2>3, <2>4 DEF Inv, Types, CopierWrite, UnchangedParent
  <1>3. EndedStay
    BY <1>1 DEF Inv, Types, Copier, CopierWrite, UnchangedParent, EndedStay, Alive, Ended
  <1>4. Decompressed' /\ Recompressed'
    BY <1>1 DEF Inv, CopierWrite, UnchangedParent, Decompressed, Recompressed, Working
  <1> QED
    BY <1>2, <1>3, <1>4, ChildKeepsInv DEF CopierWrite

LEMMA CopierNextKeepsInv ==
    ASSUME Inv, NEW c \in Chains, CopierNext(c)
    PROVE  Inv'
  <1>1. Chains' = Chains
    BY DEF CopierNext, UnchangedParent, Chains
  <1>2. Types'
    <2>1. copier[c] \in Copier
      BY DEF Inv, Types
    <2> DEFINE r == IF copier[c].nread = 0 /\ ~copier[c].drain THEN [copier[c] EXCEPT !.pc = "ok"]
                    ELSE IF copier[c].left = 0 THEN [copier[c] EXCEPT !.pc = "write", !.nread = 0]
                    ELSE [copier[c] EXCEPT !.pc = "write", !.nread = 1, !.left = copier[c].left - 1]
    <2>2. copier' = [copier EXCEPT ![c] = r]
      BY Zenon DEF CopierNext
    <2>4. r \in Copier
      <3>1. [copier[c] EXCEPT !.pc = "ok"] \in Copier
        BY <2>1 DEF Copier
      <3>2. [copier[c] EXCEPT !.pc = "write", !.nread = 0] \in Copier
        BY <2>1 DEF Copier
      <3>3. ASSUME copier[c].left # 0
            PROVE  [copier[c] EXCEPT !.pc = "write", !.nread = 1, !.left = copier[c].left - 1]
                       \in Copier
        <4>1. copier[c].left - 1 \in Nat
          BY <2>1, <3>3 DEF Copier
        <4> QED
          BY <2>1, <4>1 DEF Copier
      <3> QED
        BY <3>1, <3>2, <3>3
    <2> HIDE DEF r
    <2>3. copier' \in [Chains -> Copier]
      BY <2>2, <2>4 DEF Inv, Types
    <2> QED
      BY <1>1, <2>3 DEF Inv, Types, CopierNext, UnchangedParent
  <1>3. EndedStay
    BY <1>1 DEF Inv, Types, Copier, CopierNext, UnchangedParent, EndedStay, Alive, Ended
  <1>4. Decompressed' /\ Recompressed'
    BY <1>1 DEF Inv, CopierNext, UnchangedParent, Decompressed, Recompressed, Working
  <1> QED
    BY <1>2, <1>3, <1>4, ChildKeepsInv DEF CopierNext

\* SIGPIPE does not reach it while xdelta3 is at work, which holds its pipe open.
LEMMA DecompressKeepsInv ==
    ASSUME Inv, NEW c \in Chains, Decompress(c)
    PROVE  Inv'
  <1>1. Chains' = Chains
    BY DEF Decompress, UnchangedParent, Chains
  <1>2. Types'
    <2>1. decomp[c] \in Decompressor
      BY DEF Inv, Types
    <2>2. PICK r \in Decompressor : decomp' = [decomp EXCEPT ![c] = r]
      BY <2>1 DEF Decompress, Decompressor
    <2>3. decomp' \in [Chains -> Decompressor]
      BY <2>2 DEF Inv, Types
    <2>4. inpipe' \in [Chains -> Nat] /\ outpipe' \in [Chains -> Nat]
      BY DEF Inv, Types, Decompress
    <2> QED
      BY <1>1, <2>3, <2>4 DEF Inv, Types, Decompress, UnchangedParent
  <1>3. EndedStay
    BY <1>1 DEF Inv, Types, Decompressor, Decompress, UnchangedParent, EndedStay, Alive, Ended
  <1>4. Recompressed'
    BY <1>1 DEF Inv, Decompress, UnchangedParent, Recompressed, Working
  <1>5. ends[c] \in Nat
    BY PipesAssumption DEF Inv, Types
  <1>6. ~eof[c]
    BY DEF Inv, Decompressed, Decompress
  <1>7. Working => OutpipeRead(c)
    BY DEF Inv, Open, OutpipeRead
  <1>8. Decompressed'
    <2>1. CASE decomp' = [decomp EXCEPT ![c].pc = "ok"] /\ decomp[c].took = ends[c]
               /\ UNCHANGED <<inpipe, outpipe>>
      BY <2>1, <1>1, <1>6 DEF Inv, Types, Decompressor, Decompress, UnchangedParent, Decompressed, Working
    <2>2. CASE decomp' = [decomp EXCEPT ![c].pc = "bad"] /\ UNCHANGED <<inpipe, outpipe>>
      BY <2>2, <1>1, <1>6 DEF Inv, Types, Decompressor, Decompress, UnchangedParent, Decompressed, Working
    <2>3. CASE decomp' = [decomp EXCEPT ![c].pc = "killed"] /\ ~OutpipeRead(c)
               /\ UNCHANGED <<inpipe, outpipe>>
      BY <2>3, <1>1, <1>6, <1>7
         DEF Inv, Types, Decompressor, Decompress, UnchangedParent, Decompressed, Working
    <2>4. CASE decomp' = [decomp EXCEPT ![c].took = @ + 1]
               /\ outpipe' = [outpipe EXCEPT ![c] = @ + 1]
      BY <2>4, <1>1, <1>6
         DEF Inv, Types, Decompressor, Decompress, UnchangedParent, Decompressed, Working
    <2> QED
      BY <2>1, <2>2, <2>3, <2>4 DEF Decompress
  <1> QED
    BY <1>2, <1>3, <1>4, <1>8, ChildKeepsInv DEF Decompress

LEMMA DecompressFailsKeepsInv ==
    ASSUME Inv, NEW c \in Chains, DecompressFails(c)
    PROVE  Inv'
  <1>1. Chains' = Chains
    BY DEF DecompressFails, UnchangedParent, Chains
  <1>2. Types'
    BY <1>1 DEF Inv, Types, Decompressor, DecompressFails, UnchangedParent
  <1>3. EndedStay
    BY <1>1 DEF Inv, Types, Decompressor, DecompressFails, UnchangedParent, EndedStay, Alive, Ended
  <1>4. Decompressed' /\ Recompressed'
    BY <1>1 DEF Inv, Types, Decompressor, DecompressFails, UnchangedParent, Decompressed, Recompressed, Working
  <1> QED
    BY <1>2, <1>3, <1>4, ChildKeepsInv DEF DecompressFails

\* It sees the end of its input when xdelta3 has closed it and all of it is read.
LEMMA RecompressKeepsInv ==
    ASSUME Inv, Recompress
    PROVE  Inv'
  <1>1. Chains' = Chains
    BY DEF Recompress, UnchangedParent, Chains
  <1>2. Types'
    BY <1>1 DEF Inv, Types, Recompress, UnchangedParent
  <1>3. EndedStay
    BY <1>1 DEF Inv, Types, Recompress, UnchangedParent, EndedStay, Alive, Ended
  <1>4. Decompressed' /\ Recompressed'
    BY <1>1 DEF Inv, Types, Open, Recompress, UnchangedParent, Decompressed, Recompressed, Working
  <1> QED
    BY <1>2, <1>3, <1>4, ChildKeepsInv DEF Recompress

LEMMA RecompressFailsKeepsInv ==
    ASSUME Inv, RecompressFails
    PROVE  Inv'
  <1>1. Chains' = Chains
    BY DEF RecompressFails, UnchangedParent, Chains
  <1>2. Types'
    BY <1>1 DEF Inv, Types, RecompressFails, UnchangedParent
  <1>3. EndedStay
    BY <1>1 DEF Inv, Types, RecompressFails, UnchangedParent, EndedStay, Alive, Ended
  <1>4. Decompressed' /\ Recompressed'
    BY <1>1 DEF Inv, Types, RecompressFails, UnchangedParent, Decompressed, Recompressed, Working
  <1> QED
    BY <1>2, <1>3, <1>4, ChildKeepsInv DEF RecompressFails

-----------------------------------------------------------------------------
(* The steps of xdelta3.                                                   *)

LEMMA InitInv == Init => Inv
  <1> SUFFICES ASSUME Init
               PROVE  Inv
    OBVIOUS
  <1>1. /\ waited = 0 /\ recomp = "none" /\ parent = "run" /\ verdict = "none"
        /\ fds = Chains /\ cmd \in Commands
    BY DEF Init
  <1>2. cmd.chains \in Nat
    BY <1>1, PipesAssumption
  <1>3. Types
    <2>1. ends \in [Chains -> 0..Blocks]
      BY PipesAssumption DEF Init
    <2>2. copier \in [Chains -> Copier]
      BY PipesAssumption DEF Init, Copier
    <2>3. decomp \in [Chains -> Decompressor]
      BY DEF Init, Decompressor
    <2>4. MaxWrites \in Nat
      BY PipesAssumption
    <2> QED
      BY <2>1, <2>2, <2>3, <2>4 DEF Init, Types
  <1>4. Stages /\ Open
    BY <1>1 DEF Stages, Open, Working
  <1>5. Decompressed /\ Recompressed
    BY DEF Init, Decompressed, Recompressed, Working
  <1>6. WaitedFor
    BY <1>1, <1>2, <1>3, SubprocList DEF WaitedFor
  <1> QED
    BY <1>3, <1>4, <1>5, <1>6 DEF Inv

\* The steps that leave all processes and what has been waited for as they are.
LEMMA QuietKeepsWaited ==
    ASSUME Inv, UNCHANGED <<cmd, copier, recomp, waited>>, Types',
           \A c \in Chains : decomp'[c].pc = decomp[c].pc,
           verdict' # "failed" => verdict # "failed"
    PROVE  WaitedFor' /\ Len(Subprocs)' = Len(Subprocs)
  <1>1. EndedStay
    BY DEF EndedStay
  <1> QED
    BY <1>1, WaitedStay DEF Inv

LEMMA BeginReadKeepsInv ==
    ASSUME Inv, BeginRead
    PROVE  Inv'
  <1>1. Chains' = Chains
    BY DEF BeginRead, Chains
  <1>2. Types'
    BY <1>1 DEF Inv, Types, BeginRead, children
  <1>3. WaitedFor' /\ Len(Subprocs)' = Len(Subprocs)
    BY <1>2, QuietKeepsWaited DEF BeginRead, children
  <1>4. Stages' /\ Open'
    BY <1>1, <1>3 DEF Inv, Stages, Open, Working, BeginRead, children
  <1>5. Decompressed' /\ Recompressed'
    BY <1>1 DEF Inv, Decompressed, Recompressed, Working, BeginRead, children
  <1> QED
    BY <1>2, <1>3, <1>4, <1>5 DEF Inv

\* The end it sees is that of a decompressor that has ended by itself.
LEMMA EndReadKeepsInv ==
    ASSUME Inv, EndRead
    PROVE  Inv'
  <1>1. Chains' = Chains /\ on \in Chains /\ Working /\ Working'
    BY DEF EndRead, Chains, Inv, Types, Working
  <1>2. Types'
    <2>1. outpipe' \in [Chains -> Nat]
      <3>1. outpipe[on] > 0 => outpipe[on] - 1 \in Nat
        BY <1>1 DEF Inv, Types
      <3> QED
        BY <1>1, <3>1 DEF Inv, Types, EndRead
    <2>2. got' \in [Chains -> Nat] /\ eof' \in [Chains -> BOOLEAN]
      <3>1. got[on] + 1 \in Nat
        BY <1>1 DEF Inv, Types
      <3> QED
        BY <1>1, <3>1 DEF Inv, Types, EndRead
    <2> QED
      BY <1>1, <2>1, <2>2 DEF Inv, Types, EndRead
  <1>3. WaitedFor' /\ Len(Subprocs)' = Len(Subprocs)
    BY <1>2, QuietKeepsWaited DEF EndRead
  <1>4. Stages' /\ Open'
    BY <1>1, <1>3 DEF Inv, Stages, Open, Working, EndRead
  <1>5. Recompressed'
    BY <1>1 DEF Inv, Recompressed, Working, EndRead
  <1>6. Decompressed'
    <2>1. CASE /\ outpipe[on] > 0
               /\ outpipe' = [outpipe EXCEPT ![on] = @ - 1] /\ got' = [got EXCEPT ![on] = @ + 1]
               /\ eof' = eof
      <3>1. ~eof[on]
        BY <1>1, <2>1 DEF Inv, Decompressed
      <3>2. ASSUME NEW c \in Chains
            PROVE  /\ decomp[c].took = got'[c] + outpipe'[c]
                   /\ eof[c] => outpipe'[c] = 0
        <4>1. CASE c = on
          <5>1. got'[c] = got[c] + 1 /\ outpipe'[c] = outpipe[c] - 1
            BY <1>1, <2>1, <4>1 DEF Inv, Types
          <5>2. decomp[c].took = got[c] + outpipe[c] /\ got[c] \in Nat /\ outpipe[c] \in Nat
            BY DEF Inv, Types, Decompressed
          <5> QED
            BY <3>1, <4>1, <5>1, <5>2
        <4>2. CASE c # on
          BY <1>1, <2>1, <4>2 DEF Inv, Types, Decompressed
        <4> QED
          BY <4>1, <4>2
      <3> QED
        BY <1>1, <2>1, <3>2 DEF Inv, Decompressed, EndRead
    <2>2. CASE /\ outpipe[on] = 0 /\ ~Alive(decomp[on].pc)
               /\ eof' = [eof EXCEPT ![on] = TRUE] /\ UNCHANGED <<outpipe, got>>
      <3>1. decomp[on].pc \in {"ok", "bad"}
        BY <1>1, <2>2 DEF Inv, Types, Decompressor, Decompressed, Alive, Ended
      <3> QED
        BY <1>1, <2>2, <3>1 DEF Inv, Types, Decompressed, EndRead
    <2> QED
      BY <2>1, <2>2 DEF EndRead
  <1> QED
    BY <1>2, <1>3, <1>4, <1>5, <1>6 DEF Inv

\* Nothing has been waited for yet when the recompressor is added to the list.
LEMMA BeginWriteKeepsInv ==
    ASSUME Inv, BeginWrite
    PROVE  Inv'
  <1>1. Chains' = Chains /\ Working /\ Working'
    BY DEF BeginWrite, Chains, Working
  <1>2. Types'
    BY <1>1 DEF Inv, Types, BeginWrite
  <1>3. waited' = 0 /\ verdict' = "none" /\ verdict = "none" /\ waited = 0
    BY <1>1 DEF Inv, Stages, BeginWrite
  <1>4. WaitedFor'
    <2>1. (Types => /\ Len(Subprocs) = 2 * cmd.chains + (IF recomp = "none" THEN 0 ELSE 1)
                    /\ \A n \in 1..Len(Subprocs) : Subprocs[n] = SubprocAt(n))'
      BY SubprocList, PTL
    <2>2. Len(Subprocs)' \in Nat
      BY <1>2, <2>1, CommandTypes DEF BeginWrite, Inv
    <2> QED
      BY <1>3, <2>2 DEF WaitedFor
  <1>5. Stages' /\ Open'
    BY <1>1, <1>3 DEF Inv, Stages, Open, Working, BeginWrite
  <1>6. Decompressed'
    BY <1>1 DEF Inv, Decompressed, BeginWrite
  <1>7. Recompressed'
    BY <1>1, <1>3 DEF Inv, Recompressed, BeginWrite
  <1> QED
    BY <1>2, <1>4, <1>5, <1>6, <1>7 DEF Inv

LEMMA EndWriteKeepsInv ==
    ASSUME Inv, EndWrite
    PROVE  Inv'
  <1>1. Chains' = Chains /\ Working
    BY DEF EndWrite, Chains, Working
  <1>2. Types'
    BY <1>1 DEF Inv, Types, EndWrite
  <1>3. waited' = 0 /\ waited = 0 /\ verdict = "none"
    BY <1>1 DEF Inv, Stages, EndWrite
  <1>4. WaitedFor' /\ Len(Subprocs)' = Len(Subprocs)
    BY <1>2, <1>3, QuietKeepsWaited DEF EndWrite
  <1>5. Stages' /\ Open'
    BY <1>1, <1>3, <1>4 DEF Inv, Stages, Open, Working, EndWrite
  <1>6. Decompressed'
    BY <1>1 DEF Inv, Decompressed, EndWrite, Working
  <1>7. Recompressed'
    BY <1>1, <1>3 DEF Inv, Recompressed, EndWrite, Alive, Ended, Working
  <1> QED
    BY <1>2, <1>4, <1>5, <1>6, <1>7 DEF Inv

LEMMA LeaveLoopKeepsInv ==
    ASSUME Inv, LeaveLoop
    PROVE  Inv'
  <1>1. Chains' = Chains
    BY DEF LeaveLoop, Chains
  <1>2. Types'
    BY <1>1 DEF Inv, Types, LeaveLoop, children
  <1>3. WaitedFor' /\ Len(Subprocs)' = Len(Subprocs)
    BY <1>2, QuietKeepsWaited DEF LeaveLoop, children
  <1>4. Stages' /\ Open'
    BY <1>1, <1>3 DEF Inv, Stages, Open, Working, LeaveLoop, children
  <1>5. Decompressed' /\ Recompressed'
    BY <1>1 DEF Inv, Decompressed, Recompressed, Working, LeaveLoop, children
  <1> QED
    BY <1>2, <1>3, <1>4, <1>5 DEF Inv

LEMMA CloseFilesKeepsInv ==
    ASSUME Inv, CloseFiles
    PROVE  Inv'
  <1>1. Chains' = Chains
    BY DEF CloseFiles, Chains
  <1>2. Types'
    BY <1>1 DEF Inv, Types, CloseFiles, children
  <1>3. WaitedFor' /\ Len(Subprocs)' = Len(Subprocs)
    BY <1>2, QuietKeepsWaited DEF CloseFiles, children
  <1>4. Stages' /\ Open'
    BY <1>1, <1>3 DEF Inv, Stages, Open, Working, CloseFiles, children
  <1>5. Decompressed' /\ Recompressed'
    BY <1>1 DEF Inv, Decompressed, Recompressed, Working, CloseFiles, children
  <1> QED
    BY <1>2, <1>3, <1>4, <1>5 DEF Inv

\* What still runs is killed, and the verdict says so: nothing that follows from a
\* success has to hold any more.
LEMMA FailKeepsInv ==
    ASSUME Inv, Fail, parent \in {"run", "wait"},
           UNCHANGED <<cmd, ends, on, writes, got, eof, waited>>
    PROVE  Inv'
  <1>1. Chains' = Chains /\ parent' = "end" /\ verdict' = "failed" /\ verdict = "none"
    BY DEF Fail, Chains, Inv, Stages
  <1>2. Types'
    <2>1. ASSUME NEW c \in Chains
          PROVE  /\ [copier[c] EXCEPT !.pc = Killed(@)] \in Copier
                 /\ [decomp[c] EXCEPT !.pc = Killed(@)] \in Decompressor
      <3>1. copier[c] \in Copier /\ decomp[c] \in Decompressor
        BY <2>1 DEF Inv, Types
      <3>2. /\ Killed(copier[c].pc) \in {"write", "next", "ok", "killed"}
            /\ Killed(decomp[c].pc) \in {"run", "ok", "bad", "killed"}
        BY <3>1 DEF Killed, Copier, Decompressor
      <3> HIDE DEF Killed
      <3> QED
        BY <3>1, <3>2 DEF Copier, Decompressor
    <2>2. copier' \in [Chains -> Copier] /\ decomp' \in [Chains -> Decompressor]
      BY <2>1 DEF Fail
    <2>3. recomp' \in {"none", "run", "ok", "bad", "killed"}
      BY DEF Inv, Types, Fail, Killed
    <2> QED
      BY <1>1, <2>2, <2>3 DEF Inv, Types, Fail
  <1>3. EndedStay
    <2>1. ASSUME NEW c \in Chains
          PROVE  /\ ~Alive(decomp[c].pc) => decomp'[c].pc = decomp[c].pc
                 /\ ~Alive(copier[c].pc) => copier'[c].pc = copier[c].pc
      BY <2>1 DEF Inv, Types, Copier, Decompressor, Fail, Killed
    <2>2. (recomp' = "none" <=> recomp = "none") /\ (~Alive(recomp) => recomp' = recomp)
      BY DEF Fail, Killed, Alive, Ended
    <2> QED
      BY <2>1, <2>2 DEF EndedStay
  <1>4. WaitedFor'
    BY <1>1, <1>2, <1>3, WaitedStay DEF Inv
  <1>5. Stages' /\ Open'
    BY <1>1 DEF Stages, Open, Working
  <1>6. Decompressed'
    <2>1. ASSUME NEW c \in Chains
          PROVE  /\ decomp'[c].took = decomp[c].took
                 /\ decomp'[c].pc = "ok" => decomp[c].pc = "ok"
                 /\ decomp[c].pc \in {"ok", "bad"} => decomp'[c].pc = decomp[c].pc
      <3>1. decomp[c] \in Decompressor
        BY DEF Inv, Types
      <3> QED
        BY <3>1 DEF Decompressor, Fail, Killed, Alive, Ended
    <2> QED
      BY <1>1, <2>1 DEF Inv, Decompressed, Working, Fail
  <1>7. Recompressed'
    BY <1>1 DEF Inv, Recompressed, Working, Fail, Killed
  <1> QED
    BY <1>2, <1>4, <1>5, <1>6, <1>7 DEF Inv

LEMMA GiveUpKeepsInv ==
    ASSUME Inv, GiveUp
    PROVE  Inv'
  BY FailKeepsInv DEF GiveUp

LEMMA WaitNextKeepsInv ==
    ASSUME Inv, WaitNext
    PROVE  Inv'
  <1>1. CASE Fail /\ UNCHANGED waited
    BY <1>1, FailKeepsInv DEF WaitNext
  <1>2. CASE /\ Well(Subprocs[waited + 1])
             /\ waited' = waited + 1 /\ UNCHANGED <<parent, fds, verdict, children>>
    <2>1. Chains' = Chains /\ parent = "wait" /\ verdict = "none" /\ Subprocs' = Subprocs
      BY <1>2 DEF WaitNext, Chains, children, Inv, Stages, Subprocs
    <2>2. Types'
      BY <1>2, <2>1 DEF Inv, Types, WaitNext, children
    <2>3. WaitedFor'
      <3>1. waited \in Nat /\ Len(Subprocs) \in Nat /\ waited < Len(Subprocs)
        BY SubprocList, CommandTypes DEF Inv, Types, WaitNext
      <3>2. \A n \in 1..(waited + 1) : Well(Subprocs[n])
        <4>1. \A n \in 1..waited : Well(Subprocs[n])
          BY <2>1 DEF Inv, WaitedFor
        <4> QED
          BY <1>2, <3>1, <4>1
      <3> QED
        BY <1>2, <2>1, <3>1, <3>2 DEF WaitedFor
    <2>4. Stages' /\ Open'
      BY <1>2, <2>1 DEF Inv, Stages, Open, Working, WaitNext, children
    <2>5. Decompressed' /\ Recompressed'
      BY <1>2, <2>1 DEF Inv, Decompressed, Recompressed, Working, WaitNext, children
    <2> QED
      BY <2>2, <2>3, <2>4, <2>5 DEF Inv
  <1> QED
    BY <1>1, <1>2 DEF WaitNext

LEMMA AllWaitedKeepsInv ==
    ASSUME Inv, AllWaited
    PROVE  Inv'
  <1>1. Chains' = Chains
    BY DEF AllWaited, Chains
  <1>2. Types'
    BY <1>1 DEF Inv, Types, AllWaited, children
  <1>3. WaitedFor' /\ Len(Subprocs)' = Len(Subprocs)
    BY <1>2, QuietKeepsWaited DEF AllWaited, children, Inv, Stages
  <1>4. Stages' /\ Open'
    BY <1>1, <1>3 DEF Inv, Stages, Open, Working, AllWaited, children
  <1>5. Decompressed' /\ Recompressed'
    <2>1. verdict = "none" /\ ~Working
      BY DEF Inv, Stages, AllWaited, Working
    <2> QED
      BY <1>1, <2>1 DEF Inv, Decompressed, Recompressed, Working, AllWaited, children
  <1> QED
    BY <1>2, <1>3, <1>4, <1>5 DEF Inv

LEMMA StutterKeepsInv ==
    ASSUME Inv, UNCHANGED vars
    PROVE  Inv'
  <1>1. Chains' = Chains /\ Subprocs' = Subprocs
    BY DEF vars, Chains, Subprocs
  <1>2. Types' /\ Decompressed' /\ Recompressed' /\ Open'
    BY <1>1 DEF vars, Inv, Types, Decompressed, Recompressed, Open, Working
  <1>3. Stages' /\ WaitedFor'
    BY <1>1 DEF vars, Inv, Stages, WaitedFor, Working
  <1> QED
    BY <1>2, <1>3 DEF Inv

-----------------------------------------------------------------------------
\* Every step of xdelta3 and of the processes around it keeps the invariant: for all
\* commands, lengths of the files and of their compressed data, pipe capacities, and
\* amounts of output.
THEOREM PipesInvariant == Spec => []Inv
  <1>1. Inv /\ [Next]_vars => Inv'
    <2> SUFFICES ASSUME Inv, [Next]_vars
                 PROVE  Inv'
      OBVIOUS
    <2>1. CASE Parent
      BY <2>1, BeginReadKeepsInv, EndReadKeepsInv, BeginWriteKeepsInv, EndWriteKeepsInv,
         LeaveLoopKeepsInv, CloseFilesKeepsInv, WaitNextKeepsInv, AllWaitedKeepsInv DEF Parent
    <2>2. CASE \E c \in Chains : \/ CopierWrite(c) \/ CopierNext(c)
                                 \/ Decompress(c) \/ DecompressFails(c)
      BY <2>2, CopierWriteKeepsInv, CopierNextKeepsInv, DecompressKeepsInv,
         DecompressFailsKeepsInv
    <2>3. CASE GiveUp \/ Recompress \/ RecompressFails
      BY <2>3, GiveUpKeepsInv, RecompressKeepsInv, RecompressFailsKeepsInv
    <2>4. CASE UNCHANGED vars
      BY <2>4, StutterKeepsInv
    <2> QED
      BY <2>1, <2>2, <2>3, <2>4 DEF Next
  <1> QED
    BY <1>1, InitInv, PTL DEF Spec

\* When main_external_compression_finish reports no error, every end of file xdelta3 saw
\* was the end of the compressed data and not of a decompressor that failed, and the
\* recompressor has taken and written all of the output (main_waitpid_check).
THEOREM DoneIsWholeHolds == Spec => []DoneIsWhole
  <1>1. Inv => DoneIsWhole
    <2> SUFFICES ASSUME Inv, verdict = "done"
                 PROVE  /\ \A c \in Chains : eof[c] => got[c] = ends[c]
                        /\ cmd.recompress => recomp = "ok" /\ pipe = 0
      BY DEF DoneIsWhole
    <2>1. \A n \in 1..Len(Subprocs) : Well(SubprocAt(n))
      BY SubprocList DEF Inv, Stages, WaitedFor
    <2>2. PICK m \in Nat : m = cmd.chains
      BY CommandTypes DEF Inv
    <2>3. Len(Subprocs) = 2 * m + (IF recomp = "none" THEN 0 ELSE 1) /\ Chains = 1..m
      BY <2>2, SubprocList, CommandTypes DEF Inv
    <2>4. ASSUME NEW c \in Chains, eof[c]
          PROVE  got[c] = ends[c]
      <3>1. 2 * c - 1 \in 1..Len(Subprocs)
        BY <2>3
      <3>2. /\ (2 * c - 1) % 2 = 1 /\ ((2 * c - 1) + 1) \div 2 = c
            /\ ~(2 * c - 1 > 2 * cmd.chains)
        BY <2>2, <2>3
      <3>3. SubprocAt(2 * c - 1) = decomp[c].pc
        BY <3>2 DEF SubprocAt
      <3>4. decomp[c].pc = "ok"
        BY <2>1, <2>4, <3>1, <3>3 DEF Well, Inv, Decompressed
      <3>5. outpipe[c] = 0 /\ ends[c] = got[c] + outpipe[c] /\ got[c] \in Nat
        BY <2>4, <3>4 DEF Inv, Decompressed, Types
      <3> QED
        BY <3>5
    <2>5. ASSUME cmd.recompress
          PROVE  recomp = "ok" /\ pipe = 0
      <3>1. recomp # "none"
        BY <2>5 DEF Inv, Open
      <3>2. 2 * m + 1 \in 1..Len(Subprocs) /\ 2 * m + 1 > 2 * cmd.chains
        BY <2>2, <2>3, <3>1
      <3>3. Well(recomp)
        BY <2>1, <3>2 DEF SubprocAt
      <3> QED
        BY <3>3 DEF Well, Inv, Recompressed
    <2> QED
      BY <2>4, <2>5
  <1> QED
    BY <1>1, PipesInvariant, PTL
=============================================================================
