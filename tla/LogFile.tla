------------------------------ MODULE LogFile ------------------------------
(***************************************************************************)
(* A size-rotated log file (rotate.go): whole lines are appended, a full   *)
(* file is shifted to generation 1 and every generation up by one, one     *)
(* rename at a time, and a goroutine compresses the generations past       *)
(* CompressAfter.  A rename may fail, a compression may fail, a reload may *)
(* replace the logger, and the process may die between any two renames and *)
(* start again on what is on disk.  Lines are numbers, in the order they   *)
(* are written, all of one size; callers are serialised.                   *)
(***************************************************************************)
EXTENDS Naturals, Sequences, FiniteSets, SequencesExt

CONSTANTS
  MaxSize, MaxKeep, CompressAfter,   \* LogConfig; MaxSize in lines
  Absent,                            \* no such file
  MaxLines, MaxLogFaults             \* bounds: lines written, faults and restarts

ASSUME LogFileAssumption ==
  /\ MaxSize \in Nat \ {0} /\ MaxKeep \in Nat /\ CompressAfter \in Nat
  /\ MaxLines \in Nat /\ MaxLogFaults \in Nat /\ Absent \notin Seq(1..MaxLines)

\* The highest generation a rotation looks at: a file that is not kept (max_keep
\* 0) still leaves the place of one.
oldest == IF MaxKeep = 0 THEN 1 ELSE MaxKeep
Generations == 1..oldest

VARIABLES
  live,      \* the lines of the open file
  gens,       \* [Generations -> [plain, gz]]: lines, or Absent
  writer,    \* [pc, n, k, failed]: WriteLine's step, the rename it is at, rotationFailed
  gzip,      \* the compressor: 0, or the generation it is at; and its step
  lines, faults,
  astray     \* lines that went to the fallback instead

logFileVars == <<live, gens, writer, gzip, lines, faults, astray>>
NewWriter == [pc |-> "idle", n |-> 0, k |-> 1, failed |-> FALSE]
NoGzip == [n |-> 0, done |-> FALSE]
Files == Seq(1..MaxLines) \cup {Absent}

LogFileTypeOK ==
  /\ live \in Files /\ gens \in [Generations -> [plain : Files, gz : Files]]
  /\ writer \in [pc : {"idle", "shift", "move", "open"}, n : 0..oldest, k : 1..2, failed : BOOLEAN]
  /\ gzip \in [n : 0..(oldest + 1), done : BOOLEAN]
  /\ lines \in 0..MaxLines /\ faults \in 0..MaxLogFaults /\ astray \subseteq 1..MaxLines

LogFileInit ==
  /\ live = <<>> /\ gens = [n \in Generations |-> [plain |-> Absent, gz |-> Absent]]
  /\ writer = NewWriter /\ gzip = NoGzip /\ lines = 0 /\ faults = 0 /\ astray = {}

-----------------------------------------------------------------------------
(* WriteLine *)

mayRotateAnyway == ~writer.failed           \* mutant: while the compressor is at work
mayRotate == gzip = NoGzip /\ ~writer.failed
rotates == live # Absent /\ Len(live) >= MaxSize /\ mayRotate

WriteLine ==
  /\ writer.pc = "idle" /\ ~rotates /\ lines < MaxLines
  /\ lines' = lines + 1
  /\ \/ live # Absent /\ live' = Append(live, lines') /\ UNCHANGED astray
     \/ live = Absent /\ astray' = astray \cup {lines'} /\ UNCHANGED live
  /\ UNCHANGED <<gens, writer, gzip, faults>>

\* The line that finds the file full rotates first.
Rotate ==
  /\ writer.pc = "idle" /\ rotates /\ lines < MaxLines
  /\ writer' = [writer EXCEPT !.pc = "shift", !.n = oldest, !.k = 1]
  /\ UNCHANGED <<live, gens, gzip, lines, faults, astray>>

-----------------------------------------------------------------------------
(* rotate: generations up, oldest first; then the live file; then a new one *)

file(n, k) == IF k = 1 THEN gens[n].plain ELSE gens[n].gz
putFile(g, n, k, f) == IF k = 1 THEN [g EXCEPT ![n].plain = f] ELSE [g EXCEPT ![n].gz = f]
shiftedUp(n, k) ==
  LET gone == putFile(gens, n, k, Absent)
  IN IF n >= MaxKeep \/ file(n, k) = Absent THEN gone ELSE putFile(gone, n + 1, k, file(n, k))
shiftBack(n, k) == [n |-> IF k = 1 THEN n ELSE n - 1, k |-> 3 - k]
shiftNext(w) == IF w.k = 2 /\ w.n = 1 THEN [w EXCEPT !.pc = "move"]
                ELSE [w EXCEPT !.n = shiftBack(w.n, w.k).n, !.k = shiftBack(w.n, w.k).k]

Shift ==
  /\ writer.pc = "shift"
  /\ gens' = shiftedUp(writer.n, writer.k) /\ writer' = shiftNext(writer)
  /\ UNCHANGED <<live, gzip, lines, faults, astray>>

\* A file of which nothing is kept is removed instead.
MoveLive ==
  /\ writer.pc = "move" /\ live' = Absent
  /\ \/ MaxKeep # 0 /\ gens' = [gens EXCEPT ![1].plain = live]
     \/ MaxKeep = 0 /\ UNCHANGED gens
  /\ writer' = [writer EXCEPT !.pc = "open"]
  /\ UNCHANGED <<gzip, lines, faults, astray>>

\* The new file, the guard and the compressor, and the line.
OpenNew ==
  /\ writer.pc = "open" /\ lines' = lines + 1 /\ live' = <<lines'>>
  /\ writer' = [writer EXCEPT !.pc = "idle"]
  /\ gzip' = IF CompressAfter >= MaxKeep THEN NoGzip ELSE [n |-> CompressAfter + 1, done |-> FALSE]
  /\ UNCHANGED <<gens, faults, astray>>

\* A rename fails, or the new file cannot be opened: the line goes to the
\* fallback, and no rotation is tried again.  Without a file, so do the next.
RotateFails ==
  /\ writer.pc \in {"shift", "move", "open"} /\ faults < MaxLogFaults /\ faults' = faults + 1
  /\ lines' = lines + 1 /\ astray' = astray \cup {lines'}
  /\ writer' = [writer EXCEPT !.pc = "idle", !.failed = TRUE]
  /\ UNCHANGED <<live, gens, gzip>>

-----------------------------------------------------------------------------
(* The compressor; Close and a new logger; the process dies *)

afterGeneration(n) == IF n >= MaxKeep THEN NoGzip ELSE [n |-> n + 1, done |-> FALSE]

Compress ==
  /\ gzip.n > 0 /\ ~gzip.done
  /\ \/ /\ gens[gzip.n].plain # Absent
        /\ gens' = [gens EXCEPT ![gzip.n].gz = gens[gzip.n].plain] /\ gzip' = [gzip EXCEPT !.done = TRUE]
     \/ /\ gens[gzip.n].plain = Absent /\ gzip' = afterGeneration(gzip.n) /\ UNCHANGED gens
  /\ UNCHANGED <<live, writer, lines, faults, astray>>
CompressFails ==
  /\ gzip.n > 0 /\ ~gzip.done /\ faults < MaxLogFaults /\ faults' = faults + 1
  /\ gzip' = afterGeneration(gzip.n) /\ UNCHANGED <<live, gens, writer, lines, astray>>
RemovePlain ==
  /\ gzip.n > 0 /\ gzip.done
  /\ gens' = [gens EXCEPT ![gzip.n].plain = Absent] /\ gzip' = afterGeneration(gzip.n)
  /\ UNCHANGED <<live, writer, lines, faults, astray>>

reopened == IF live = Absent THEN <<>> ELSE live      \* openAppend
\* Close waits for the compressor; the next logger starts on the same files.
NewLogger ==
  /\ writer.pc = "idle" /\ writer.failed /\ gzip = NoGzip /\ writer' = NewWriter
  /\ live' = reopened /\ UNCHANGED <<gens, gzip, lines, faults, astray>>

Dies ==
  /\ faults < MaxLogFaults /\ faults' = faults + 1 /\ writer' = NewWriter /\ gzip' = NoGzip
  /\ live' = reopened /\ UNCHANGED <<gens, lines, astray>>

LogFileNext == \/ WriteLine \/ Rotate \/ Shift \/ MoveLive \/ OpenNew \/ RotateFails
               \/ Compress \/ CompressFails \/ RemovePlain \/ NewLogger \/ Dies
LogFileSpec == LogFileInit /\ [][LogFileNext]_logFileVars

-----------------------------------------------------------------------------
(* Properties *)

inFile(f) == IF f = Absent THEN {} ELSE Range(f)
inGeneration(n) == inFile(gens[n].plain) \cup inFile(gens[n].gz)
onDisk == inFile(live) \cup UNION {inGeneration(n) : n \in Generations}

\* Read from the highest generation down to the live file the lines are in
\* the order they were written, across crashes and failures in the middle of
\* a shift and with a compressor at work.  A crash may leave the two forms of
\* one generation next to each other, so neighbours may share lines.
GenerationsInOrder ==
  /\ \A n \in Generations : \A a \in inFile(live), b \in inGeneration(n) : b < a
  /\ \A m, n \in Generations : m < n =>
       \A f \in {gens[m].plain, gens[m].gz}, g \in {gens[n].plain, gens[n].gz} :
         f # Absent /\ g # Absent => f = g \/ \A a \in Range(f), b \in Range(g) : b < a

\* The file that goes when a line falls off: the oldest generation, or the
\* whole live file at the end of a rotation that keeps none.
fallsOff(l) == \/ MaxKeep # 0 /\ l \in inGeneration(MaxKeep)
               \/ MaxKeep = 0 /\ writer.pc = "move" /\ l \in inFile(live)

\* A line that was written leaves the disk only with the oldest generation:
\* no rename or compression overwrites a file that is still wanted.
LinesOnlyFallOff == [][\A l \in onDisk : l \in onDisk' \/ fallsOff(l)]_logFileVars
=============================================================================
