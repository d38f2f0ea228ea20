------------------------------- MODULE Dialer -------------------------------
(***************************************************************************)
(* Connecting to a target (dial.go): the name is resolved through a cache, *)
(* then the family of the first address is dialled and, 300 ms later or as *)
(* soon as it failed, the other one; the first connection wins.  Time is   *)
(* an event: the cached entry expires, the lag passes, an attempt uses up  *)
(* its share of the time, the deadline passes.  Dials come one after the   *)
(* other and share the cache; a goroutine keeps only its own socket, so a  *)
(* straggler cannot touch the next dial's and the next one waits for it.   *)
(***************************************************************************)
EXTENDS Naturals, Sequences, FiniteSets, SequencesExt

CONSTANTS
  Families,   \* the two address families
  AddrLists,  \* what a lookup may give: the family of each address, in order
  NoAddrs     \* nothing cached, no socket, no error yet

ASSUME DialerAssumption ==
  /\ IsFiniteSet(Families) /\ Cardinality(Families) = 2
  /\ AddrLists \subseteq Seq(Families) /\ <<>> \in AddrLists
  /\ NoAddrs \notin AddrLists \cup Families \cup {"open", "closed", "deadline", "lookup", "error"}
  /\ \A f \in Families : f \notin {"deadline", "lookup", "error"}

VARIABLES
  dnsCache,  \* [addrs, fresh]: the cached entry of the name
  dial,      \* Dial's state
  run        \* per family: its goroutine [pc, at (the address tried), conn]

dialVars == <<dnsCache, dial, run>>

NewDial == [pc |-> "resolve", addrs |-> <<>>, lag |-> FALSE, expired |-> FALSE,
            failures |-> 0, firstErr |-> NoAddrs, result |-> NoAddrs]
NewRun == [pc |-> "idle", at |-> 1, conn |-> NoAddrs]

Dials == [pc : {"resolve", "lookup", "race", "done"}, addrs : AddrLists, lag : BOOLEAN, expired : BOOLEAN,
          failures : 0..2, firstErr : Families \cup {NoAddrs, "deadline", "lookup"},
          result : Families \cup {NoAddrs, "error"}]
Runs == [Families -> [pc : {"idle", "dial", "report", "over"}, at : Nat \ {0}, conn : {NoAddrs, "open", "closed"}]]

DialTypeOK ==
  /\ dnsCache \in [addrs : AddrLists \cup {NoAddrs}, fresh : BOOLEAN]
  /\ dial \in Dials /\ run \in Runs

DialInit == /\ dnsCache = [addrs |-> NoAddrs, fresh |-> FALSE] /\ dial = NewDial
            /\ run = [f \in Families |-> NewRun]

primary == dial.addrs[1]
fallback == CHOOSE f \in Families : f # primary
hasFallback == fallback \in Range(dial.addrs)
addrsOf(f, addrs) == SelectSeq(addrs, LAMBDA g : g = f)
targets(f) == Len(addrsOf(f, dial.addrs))
raceDone == dial.expired \/ dial.pc = "done"    \* raceCtx: the deadline, or Dial returned

-----------------------------------------------------------------------------
(* resolve *)

race(addrs) == /\ dial' = [dial EXCEPT !.pc = "race", !.addrs = addrs]
               /\ run' = [run EXCEPT ![addrs[1]].pc = "dial"]
failed(err) == dial' = [dial EXCEPT !.pc = "done", !.result = "error", !.firstErr = err]

Resolve ==
  /\ dial.pc = "resolve" /\ UNCHANGED dnsCache
  /\ \/ dnsCache.fresh /\ race(dnsCache.addrs)
     \/ ~dnsCache.fresh /\ dial' = [dial EXCEPT !.pc = "lookup"] /\ UNCHANGED run

\* Only an answer with addresses is cached.
Lookup ==
  /\ dial.pc = "lookup"
  /\ \/ \E a \in AddrLists \ {<<>>} : race(a) /\ dnsCache' = [addrs |-> a, fresh |-> TRUE]
     \/ failed("lookup") /\ UNCHANGED <<dnsCache, run>>

-----------------------------------------------------------------------------
(* dialSerial and run, in one goroutine per family *)

moreTargets(f) == run[f].at < targets(f)

\* An attempt connects (perhaps just as the context ends), or fails.
Attempt(f) ==
  /\ run[f].pc = "dial" /\ UNCHANGED <<dnsCache, dial>>
  /\ \/ run' = [run EXCEPT ![f].pc = "report", ![f].conn = "open"]
     \/ /\ moreTargets(f) /\ ~raceDone /\ run' = [run EXCEPT ![f].at = @ + 1]
     \/ /\ ~moreTargets(f) \/ raceDone
        /\ run' = [run EXCEPT ![f].pc = "report"]

closeLoserNot(f) == run[f].conn             \* mutant: the loser's socket stays open
closeLoser(f) == IF run[f].conn = "open" THEN "closed" ELSE run[f].conn

\* Nobody takes the result any more.
GiveUp(f) ==
  /\ run[f].pc = "report" /\ hasFallback /\ raceDone
  /\ run' = [run EXCEPT ![f].pc = "over", ![f].conn = closeLoser(f)]
  /\ UNCHANGED <<dnsCache, dial>>

-----------------------------------------------------------------------------
(* Dial's loop *)

Deadline ==
  /\ dial.pc = "race" /\ dial.expired /\ hasFallback
  /\ failed(IF dial.firstErr = NoAddrs THEN "deadline" ELSE dial.firstErr)
  /\ UNCHANGED <<dnsCache, run>>

withFallback(r) == IF r[fallback].pc = "idle" THEN [r EXCEPT ![fallback].pc = "dial"] ELSE r
LagOver ==
  /\ dial.pc = "race" /\ dial.lag /\ hasFallback /\ run[fallback].pc = "idle"
  /\ run' = withFallback(run) /\ UNCHANGED <<dnsCache, dial>>

errorToReport(f) == IF f = primary \/ dial.firstErr = NoAddrs THEN f ELSE dial.firstErr
allFailedOne == dial.failures + 1 >= 1      \* mutant: one failure is enough
allFailed == ~hasFallback \/ dial.failures + 1 = 2

\* The loop and a goroutine meet at the unbuffered channel.  With one family
\* Dial itself runs dialSerial and returns what it got.
TakeResult(f) ==
  /\ dial.pc = "race" /\ run[f].pc = "report" /\ UNCHANGED dnsCache
  /\ LET over == [run EXCEPT ![f].pc = "over"] IN
     \/ /\ run[f].conn = "open" /\ run' = over
        /\ dial' = [dial EXCEPT !.pc = "done", !.result = f]
     \/ /\ run[f].conn # "open" /\ allFailed /\ run' = over /\ failed(errorToReport(f))
     \/ /\ run[f].conn # "open" /\ ~allFailed /\ run' = withFallback(over)
        /\ dial' = [dial EXCEPT !.failures = @ + 1, !.firstErr = errorToReport(f)]

goroutinesOver == \A f \in Families : run[f].pc \in {"idle", "over"}
Redial == /\ dial.pc = "done" /\ goroutinesOver
          /\ dial' = NewDial /\ run' = [f \in Families |-> NewRun] /\ UNCHANGED dnsCache

LagTick == /\ dial.pc = "race" /\ ~dial.lag /\ dial' = [dial EXCEPT !.lag = TRUE]
           /\ UNCHANGED <<dnsCache, run>>
Timeout == /\ dial.pc # "done" /\ ~dial.expired /\ dial' = [dial EXCEPT !.expired = TRUE]
           /\ UNCHANGED <<dnsCache, run>>
Expire == /\ dnsCache.fresh /\ dnsCache' = [dnsCache EXCEPT !.fresh = FALSE]
          /\ UNCHANGED <<dial, run>>

Dialling == Resolve \/ Lookup \/ Deadline \/ LagOver \/ \E f \in Families : TakeResult(f)
Goroutine(f) == Attempt(f) \/ GiveUp(f)
DialNext == Dialling \/ (\E f \in Families : Goroutine(f)) \/ Redial \/ LagTick \/ Timeout \/ Expire

\* Attempts end: each has a share of the time left.  Timers fire.
DialFairness ==
  /\ WF_dialVars(Dialling) /\ WF_dialVars(LagTick)
  /\ \A f \in Families : WF_dialVars(Goroutine(f))

DialSpec == DialInit /\ [][DialNext]_dialVars /\ DialFairness

-----------------------------------------------------------------------------
(* Properties *)

\* The socket Dial returned is open and stays so, and once its goroutines are
\* over no other socket is left open: whoever loses the race closes its own.
OneSocketSurvives ==
  /\ dial.result \in Families => run[dial.result].conn = "open"
  /\ dial.pc = "done" /\ goroutinesOver =>
       \A f \in Families : run[f].conn = "open" => f = dial.result

\* Dial fails within its time only after every address of both families was
\* tried, and then reports the preferred family's error.
FailsOnlyWhenAllFailed ==
  dial.result = "error" /\ ~dial.expired /\ dial.firstErr # "lookup" =>
    /\ dial.firstErr = primary
    /\ \A f \in Range(dial.addrs) : run[f].pc = "over" /\ ~moreTargets(f)

\* What Dial may not get wrong, however its two goroutines, the timers and the
\* deadline interleave.
DialIsRight == OneSocketSurvives /\ FailsOnlyWhenAllFailed

\* Every dial returns, and none of its goroutines stays behind waiting for
\* somebody to take its result.
DialsEnd == dial.pc # "done" ~> dial.pc = "done" /\ goroutinesOver
=============================================================================
