------------------------------ MODULE Logging ------------------------------
(***************************************************************************)
(* Asynchronous logging (logx.go): callers put lines in a lock-free ring,  *)
(* a goroutine writes them out at ticks and after problems, a reload moves *)
(* the streams to other destinations, and what does not fit is counted.    *)
(* A line is [n, problem], n its place in the order of the calls; all have *)
(* one size.  A push claims its slot and fills it in a later step (module  *)
(* Ring); a pop that meets an unfilled slot finds the ring empty.          *)
(* A destination is a number, the newest the one in use: a file, whose     *)
(* insides are module LogFile, or the fallback (stdout, stderr) alone.     *)
(* Both streams share it.  A line torn by a write that fails half way      *)
(* counts as one the file did not take.                                    *)
(***************************************************************************)
EXTENDS Naturals, Sequences, FiniteSets, SequencesExt

CONSTANTS
  Callers,        \* goroutines that log
  MaxPending,     \* maxPendingLog, in lines
  RingLines,      \* maxPendingLines
  MaxCalls,       \* bound: lines logged
  MaxSinks,       \* bound: destinations configured
  FileSinks       \* those that are files

ASSUME LoggingAssumption ==
  /\ MaxPending \in Nat /\ RingLines \in Nat \ {0} /\ MaxCalls \in Nat \ {0} /\ MaxSinks \in Nat \ {0}
  /\ IsFiniteSet(Callers) /\ FileSinks \subseteq 1..MaxSinks

VARIABLES
  calls,          \* recentNext: lines logged so far
  caller,         \* per caller: [pc, line]
  ring,           \* logQueue: [line, filled]
  pendingBytes, droppedLog, problemQueued, flushNow,
  flusher,        \* [pc, by, buf]: flushLocked, run by the goroutine or by ConfigureLogging
  sink, out,      \* the destination in use; the lines handed over, oldest first: [to, line, file,
                  \* fallback], the two saying who took it
  reported        \* dropped lines a note was handed over for

loggingVars == <<calls, caller, ring, pendingBytes, droppedLog, problemQueued, flushNow, flusher, sink, out, reported>>
Lines == [n : 1..MaxCalls, problem : BOOLEAN]
Quiet == [pc |-> "idle", line |-> [n |-> 1, problem |-> FALSE]]
Asleep == [pc |-> "sleep", by |-> "tick", buf |-> <<>>]

LoggingTypeOK ==
  /\ calls \in 0..MaxCalls
  /\ caller \in [Callers -> [pc : {"idle", "charge", "push", "fill", "full", "wake", "poke"}, line : Lines]]
  /\ ring \in Seq([line : Lines, filled : BOOLEAN]) /\ Len(ring) <= RingLines
  /\ pendingBytes \in 0..(MaxPending + Cardinality(Callers)) /\ droppedLog \in Nat
  /\ problemQueued \in BOOLEAN /\ flushNow \in BOOLEAN
  /\ flusher \in [pc : {"sleep", "clear", "pop", "write", "note", "switch"},
                  by : {"tick", "config"}, buf : Seq(Lines)]
  /\ sink \in 1..MaxSinks /\ reported \in Nat
  /\ out \in Seq([to : 1..MaxSinks, line : Lines, file : BOOLEAN, fallback : BOOLEAN])

LoggingInit ==
  /\ calls = 0 /\ caller = [c \in Callers |-> Quiet] /\ ring = <<>> /\ pendingBytes = 0
  /\ droppedLog = 0 /\ problemQueued = FALSE /\ flushNow = FALSE /\ flusher = Asleep
  /\ sink = 1 /\ out = <<>> /\ reported = 0

-----------------------------------------------------------------------------
(* emit *)

callerAt(c, pc) == caller' = [caller EXCEPT ![c].pc = pc]

Emit(c, problem) ==
  /\ caller[c].pc = "idle" /\ calls < MaxCalls /\ calls' = calls + 1
  /\ caller' = [caller EXCEPT ![c] = [pc |-> "charge", line |-> [n |-> calls', problem |-> problem]]]
  /\ UNCHANGED <<ring, pendingBytes, droppedLog, problemQueued, flushNow, flusher, sink, out, reported>>

Charge(c) ==
  /\ caller[c].pc = "charge" /\ pendingBytes' = pendingBytes + 1
  /\ callerAt(c, IF pendingBytes' > MaxPending THEN "full" ELSE "push")
  /\ UNCHANGED <<calls, ring, droppedLog, problemQueued, flushNow, flusher, sink, out, reported>>

LogPush(c) ==
  /\ caller[c].pc = "push"
  /\ \/ /\ Len(ring) < RingLines /\ callerAt(c, "fill")
        /\ ring' = Append(ring, [line |-> caller[c].line, filled |-> FALSE])
     \/ Len(ring) = RingLines /\ callerAt(c, "full") /\ UNCHANGED ring
  /\ UNCHANGED <<calls, pendingBytes, droppedLog, problemQueued, flushNow, flusher, sink, out, reported>>

Fill(c) ==
  /\ caller[c].pc = "fill" /\ callerAt(c, IF caller[c].line.problem THEN "wake" ELSE "idle")
  /\ ring' = [i \in DOMAIN ring |-> IF ring[i].line = caller[c].line
                                    THEN [ring[i] EXCEPT !.filled = TRUE] ELSE ring[i]]
  /\ UNCHANGED <<calls, pendingBytes, droppedLog, problemQueued, flushNow, flusher, sink, out, reported>>

refundNot == pendingBytes                   \* mutant: a dropped line stays counted
refund == pendingBytes - 1
Drop(c) ==
  /\ caller[c].pc = "full" /\ callerAt(c, "idle")
  /\ pendingBytes' = refund /\ droppedLog' = droppedLog + 1
  /\ UNCHANGED <<calls, ring, problemQueued, flushNow, flusher, sink, out, reported>>

\* One wake-up per flush: the swap, then the send that never blocks.
LogWake(c) ==
  \/ /\ caller[c].pc = "wake" /\ problemQueued' = TRUE
     /\ callerAt(c, IF problemQueued THEN "idle" ELSE "poke")
     /\ UNCHANGED <<calls, ring, pendingBytes, droppedLog, flushNow, flusher, sink, out, reported>>
  \/ /\ caller[c].pc = "poke" /\ flushNow' = TRUE /\ callerAt(c, "idle")
     /\ UNCHANGED <<calls, ring, pendingBytes, droppedLog, problemQueued, flusher, sink, out, reported>>

-----------------------------------------------------------------------------
(* FlushLogs and ConfigureLogging, one at a time under flushMu *)

flushAt(pc) == flusher' = [flusher EXCEPT !.pc = pc]

FlushTick ==
  /\ flusher.pc = "sleep" /\ flusher' = [Asleep EXCEPT !.pc = "clear"] /\ flushNow' = FALSE
  /\ UNCHANGED <<calls, caller, ring, pendingBytes, droppedLog, problemQueued, sink, out, reported>>
ConfigureLogging ==
  /\ flusher.pc = "sleep" /\ sink < MaxSinks
  /\ flusher' = [Asleep EXCEPT !.pc = "clear", !.by = "config"]
  /\ UNCHANGED <<calls, caller, ring, pendingBytes, droppedLog, problemQueued, flushNow, sink, out, reported>>
FlushClear ==
  /\ flusher.pc = "clear" /\ problemQueued' = FALSE /\ flushAt("pop")
  /\ UNCHANGED <<calls, caller, ring, pendingBytes, droppedLog, flushNow, sink, out, reported>>

popped == Head(ring).line
sameStream == \A l \in Range(flusher.buf) : l.problem = popped.problem
canPop == IF ring = <<>> THEN FALSE ELSE Head(ring).filled /\ sameStream
FlushPop ==
  /\ flusher.pc = "pop" /\ canPop
  /\ ring' = Tail(ring) /\ pendingBytes' = pendingBytes - 1
  /\ flusher' = [flusher EXCEPT !.buf = Append(@, popped)]
  /\ UNCHANGED <<calls, caller, droppedLog, problemQueued, flushNow, sink, out, reported>>
\* Nothing more to pop, or a line of the other stream: the buffer goes out.
nothingToPop == \A i \in DOMAIN ring : i = 1 => ~ring[i].filled
\* writeLog: the file took the first k lines, the fallback the first j.  A file
\* that fails on the way leaves the whole batch to the fallback, and how much
\* of it the fallback takes nobody asks.
writeLog(k, j) ==
  \/ sink \in FileSinks /\ k = Len(flusher.buf) /\ j = 0
  \/ sink \in FileSinks /\ k < Len(flusher.buf)
  \/ sink \notin FileSinks /\ k = 0
handed(k, j) ==
  [i \in DOMAIN flusher.buf |-> [to |-> sink, line |-> flusher.buf[i], file |-> i <= k, fallback |-> i <= j]]
FlushWrite ==
  /\ flusher.pc = "pop" /\ ~canPop
  /\ \E k, j \in 0..Len(flusher.buf) : writeLog(k, j) /\ out' = out \o handed(k, j)
  /\ flusher' = [flusher EXCEPT !.buf = <<>>, !.pc = IF nothingToPop THEN "note" ELSE "pop"]
  /\ UNCHANGED <<calls, caller, ring, pendingBytes, droppedLog, problemQueued, flushNow, sink, reported>>
FlushNote ==
  /\ flusher.pc = "note" /\ reported' = reported + droppedLog /\ droppedLog' = 0
  /\ flushAt(IF flusher.by = "config" THEN "switch" ELSE "sleep")
  /\ UNCHANGED <<calls, caller, ring, pendingBytes, problemQueued, flushNow, sink, out>>
\* The new destination opens and takes over, or cannot be opened.
SwitchSinks ==
  /\ flusher.pc = "switch" /\ flushAt("sleep") /\ sink' \in {sink, sink + 1}
  /\ UNCHANGED <<calls, caller, ring, pendingBytes, droppedLog, problemQueued, flushNow, out, reported>>

Logs(c) == Charge(c) \/ LogPush(c) \/ Fill(c) \/ Drop(c) \/ LogWake(c)
Flushing == FlushClear \/ FlushPop \/ FlushWrite \/ FlushNote \/ SwitchSinks
LoggingNext == \/ \E c \in Callers : Logs(c) \/ \E p \in BOOLEAN : Emit(c, p)
               \/ Flushing \/ FlushTick \/ ConfigureLogging

\* The ticker ticks ten times a second; calls and flushes run to their end.
LoggingFairness ==
  /\ \A c \in Callers : WF_loggingVars(Logs(c))
  /\ WF_loggingVars(Flushing \/ FlushTick)
LoggingSpec == LoggingInit /\ [][LoggingNext]_loggingVars /\ LoggingFairness

-----------------------------------------------------------------------------
(* Properties *)

linesOf(s) == [i \in DOMAIN s |-> s[i].line]
everything == linesOf(out)
inHand == {c \in Callers : caller[c].pc \in {"charge", "push", "full"}}
waiting == {ring[i].line.n : i \in DOMAIN ring} \cup {l.n : l \in Range(flusher.buf)}
           \cup {caller[c].line.n : c \in inHand}

twiceAfterRefusal == \A i \in DOMAIN out : out[i].file /\ out[i].fallback => \E j \in DOMAIN out : i < j /\ ~out[j].file

\* No line is lost or doubled on its way to a destination: each one logged is
\* in its caller's hand, in the ring, in the flush's buffer, handed over once, or
\* counted as dropped; and the count of pending bytes is that of the lines still
\* pending.  If it drifted, logging would in the end drop everything.  What a
\* destination then does with a batch is not all or nothing: writeLog writes a
\* line twice, to the file and to the fallback, but only when the file took the
\* line and refused a later one; and what neither takes is lost uncounted.
LinesAccounted ==
  /\ pendingBytes = Len(ring) + Cardinality({c \in inHand : caller[c].pc # "charge"})
  /\ Cardinality(Range(everything)) = Len(everything)
  /\ calls = Len(everything) + Len(flusher.buf) + Len(ring) + droppedLog + reported
             + Cardinality(inHand)
  /\ twiceAfterRefusal

\* What entered the ring keeps its place from there until it is handed over: no
\* line is overtaken or left out, also when a flush stops half way at a slot
\* that is not filled yet, or a reload moves the streams in between.  What a file
\* or the fallback took of a batch are its first lines.
entered == everything \o flusher.buf \o linesOf(ring)
InRingOrder == [][IsPrefix(entered, entered')]_loggingVars

\* Whatever is logged is soon handed over or counted as dropped: also a problem
\* line whose wake-up was used up by a flush that could not reach it.
LinesComeOut == \A n \in 1..MaxCalls : calls >= n ~> n \notin waiting
=============================================================================
