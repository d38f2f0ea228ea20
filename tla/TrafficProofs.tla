---------------------------- MODULE TrafficProofs ----------------------------
(***************************************************************************)
(* Proofs about the parts a connection's bytes and log lines go through.   *)
(*                                                                         *)
(* Connecting (Dialer): a dial in its race has counted the goroutines that *)
(* reported a failure (DialCounted), and while its time lasts a goroutine  *)
(* fails only with no address left (DialTried); a socket is open only with *)
(* a goroutine that has yet to report, or as the result (DialSockets).     *)
(*                                                                         *)
(* Speed limits (Limiter): a bucket stands for one era of a rule or        *)
(* listener, as long as the running configuration or a relay still has it  *)
(* (LimitEras), and its tat is ahead of every charge allowed in that era   *)
(* by what was charged since (LimitTat).                                   *)
(*                                                                         *)
(* Logging: what has entered the ring is one sequence in three pieces, of  *)
(* lines that differ from each other and from those in hand (LogOnce), and *)
(* the counts of lines and of pending bytes are sums over it (LogCounts).  *)
(*                                                                         *)
(* A rotated log file (LogFile): the files are in order, and a generation's*)
(* two forms are the same when both are there (InOrder); the place above   *)
(* the file the writer moves is free (Rotating); the compressor removes a  *)
(* file when the other form holds it (Compressing).                        *)
(*                                                                         *)
(* The buffer pool (BufferPool): ExcessIsOverlap is inductive as it stands.*)
(***************************************************************************)
EXTENDS Dialer, Limiter, Logging, LogFile, BufferPool, TLAPS, FiniteSetTheorems, SequenceTheorems

-----------------------------------------------------------------------------
(* Connecting *)

DialCache == dnsCache.fresh => dnsCache.addrs \in AddrLists \ {<<>>}
DialBefore ==
  dial.pc \in {"resolve", "lookup"} =>
    /\ dial.result = NoAddrs /\ dial.failures = 0 /\ dial.firstErr = NoAddrs
    /\ \A f \in Families : run[f] = NewRun
DialRacing ==
  dial.pc = "race" =>
    /\ dial.addrs # <<>> /\ dial.result = NoAddrs
    /\ \A f \in Families : run[f].pc # "idle" => f \in Range(dial.addrs)
DialSockets ==
  /\ \A f \in Families : run[f].conn = "open" => run[f].pc = "report" \/ (run[f].pc = "over" /\ dial.result = f)
  /\ dial.result \in Families => run[dial.result].pc = "over" /\ run[dial.result].conn = "open"
  /\ dial.result # NoAddrs => dial.pc = "done"
DialTried ==
  dial.pc = "race" /\ ~dial.expired =>
    \A f \in Families : run[f].pc \in {"report", "over"} /\ run[f].conn # "open" => ~moreTargets(f)
DialCounted ==
  dial.pc = "race" =>
    /\ dial.failures \in {0, 1}
    /\ ~dial.expired /\ dial.failures = 0 =>
         dial.firstErr = NoAddrs /\ \A f \in Families : run[f].pc # "over"
    /\ ~dial.expired /\ dial.failures = 1 =>
         /\ hasFallback /\ dial.firstErr \in Families
         /\ \A f \in Families : run[f].pc = "over" <=> f = dial.firstErr
DialIInv == /\ DialTypeOK /\ DialCache /\ DialBefore /\ DialRacing /\ DialSockets /\ DialTried /\ DialCounted
            /\ FailsOnlyWhenAllFailed

\* There is the preferred family and one other.
LEMMA TwoFamilies ==
  ASSUME NEW p \in Families
  PROVE  \E o \in Families : /\ o # p /\ Families = {p, o}
                             /\ o = CHOOSE f \in Families : f # p
<1> DEFINE rest == Families \ {p}
<1>1. IsFiniteSet(Families) /\ Cardinality(Families) = 2
  BY DialerAssumption
<1>2. IsFiniteSet(rest) /\ Cardinality(rest) = 1
  BY <1>1, FS_RemoveElement
<1>3. \E o : rest = {o}
  BY <1>2, FS_Singleton
<1>4. PICK o : rest = {o}
  BY <1>3
<1>5. o \in Families /\ o # p /\ Families = {p, o}
  BY <1>4
<1>6. (CHOOSE f \in Families : f # p) = o
  BY <1>5
<1> QED
  BY <1>5, <1>6

LEMMA AddressesAreOfFamilies ==
  ASSUME dial.addrs \in AddrLists
  PROVE  Range(dial.addrs) \subseteq Families
<1>1. dial.addrs \in Seq(Families)
  BY DialerAssumption
<1> QED
  BY <1>1 DEF Range

\* The two families of a dial that has its addresses.
LEMMA PrimaryAndFallback ==
  ASSUME dial.addrs \in AddrLists, dial.addrs # <<>>
  PROVE  /\ primary \in Families /\ primary \in Range(dial.addrs) /\ Range(dial.addrs) \subseteq Families
         /\ fallback \in Families /\ fallback # primary /\ Families = {primary, fallback}
<1>1. dial.addrs \in Seq(Families)
  BY DialerAssumption
<1>2. 1 \in DOMAIN dial.addrs /\ \A i \in DOMAIN dial.addrs : dial.addrs[i] \in Families
  BY <1>1
<1>3. dial.addrs[1] \in Families /\ dial.addrs[1] \in Range(dial.addrs) /\ Range(dial.addrs) \subseteq Families
  BY <1>2 DEF Range
<1> QED
  BY <1>3, TwoFamilies DEF primary, fallback

\* A goroutine that moves leaves the other alone.
moved(r, f, p) == [r EXCEPT ![f].pc = p]
LEMMA RunMoves ==
  ASSUME NEW r \in Runs, NEW f \in Families, NEW p \in {"idle", "dial", "report", "over"}
  PROVE  /\ moved(r, f, p) \in Runs
         /\ \A g \in Families : g # f => moved(r, f, p)[g] = r[g]
         /\ moved(r, f, p)[f] = [pc |-> p, at |-> r[f].at, conn |-> r[f].conn]
<1>1. r[f] \in [pc : {"idle", "dial", "report", "over"}, at : Nat \ {0}, conn : {NoAddrs, "open", "closed"}]
  BY DEF Runs
<1>2. [r[f] EXCEPT !.pc = p] = [pc |-> p, at |-> r[f].at, conn |-> r[f].conn]
  BY <1>1
<1>3. [pc |-> p, at |-> r[f].at, conn |-> r[f].conn] \in
        [pc : {"idle", "dial", "report", "over"}, at : Nat \ {0}, conn : {NoAddrs, "open", "closed"}]
  BY <1>1
<1> QED
  BY <1>2, <1>3 DEF Runs, moved

LEMMA DialInitInv ==
  ASSUME DialInit
  PROVE  DialIInv
<1>1. DialTypeOK
  BY DialerAssumption DEF DialInit, DialTypeOK, Dials, Runs, NewDial, NewRun
<1>2. DialCache /\ DialBefore /\ DialRacing /\ DialTried /\ DialCounted
  BY DEF DialInit, DialCache, DialBefore, DialRacing, DialTried, DialCounted, NewDial, NewRun
<1>3. DialSockets /\ FailsOnlyWhenAllFailed
  BY DialerAssumption DEF DialInit, DialSockets, FailsOnlyWhenAllFailed, NewDial, NewRun
<1> QED
  BY <1>1, <1>2, <1>3 DEF DialIInv

\* The dial's own actions that leave its goroutines alone, and the clock's.
LEMMA DialQuiet ==
  ASSUME DialIInv, LagTick \/ Timeout \/ Expire
  PROVE  DialIInv'
<1>1. run' = run /\ dial' \in {dial, [dial EXCEPT !.lag = TRUE], [dial EXCEPT !.expired = TRUE]}
  BY DEF LagTick, Timeout, Expire
<1>2. dnsCache' \in {dnsCache, [dnsCache EXCEPT !.fresh = FALSE]}
  BY DEF LagTick, Timeout, Expire
<1>3. /\ dial'.pc = dial.pc /\ dial'.addrs = dial.addrs /\ dial'.failures = dial.failures
      /\ dial'.firstErr = dial.firstErr /\ dial'.result = dial.result /\ (dial.expired => dial'.expired)
      /\ dial.pc = "done" => dial'.expired = dial.expired
  BY DEF DialIInv, DialTypeOK, Dials, Runs, LagTick, Timeout, Expire
<1>4. DialTypeOK'
  BY <1>1, <1>2 DEF DialIInv, DialTypeOK, Dials, Runs
<1>5. DialCache' /\ DialBefore'
  BY <1>1, <1>2, <1>3 DEF DialIInv, DialTypeOK, Dials, Runs, DialCache, DialBefore, NewRun
<1>6. DialRacing' /\ DialSockets'
  BY <1>1, <1>3 DEF DialIInv, DialRacing, DialSockets
<1>7. primary' = primary /\ fallback' = fallback /\ (hasFallback' <=> hasFallback) /\ \A f : moreTargets(f)' <=> moreTargets(f)
  BY <1>1, <1>3 DEF primary, fallback, hasFallback, moreTargets, targets
<1>8. DialTried' /\ DialCounted'
  BY <1>1, <1>3, <1>7 DEF DialIInv, DialTried, DialCounted
<1>9. dial.result = "error" => dial'.expired = dial.expired
  BY <1>3, DialerAssumption DEF DialIInv, DialSockets
<1>10. FailsOnlyWhenAllFailed'
  BY <1>1, <1>3, <1>7, <1>9 DEF DialIInv, FailsOnlyWhenAllFailed
<1> QED
  BY <1>4, <1>5, <1>6, <1>8, <1>10 DEF DialIInv

\* A race starts with the preferred family's goroutine alone.
LEMMA RaceStarts ==
  ASSUME DialIInv, dial.pc \in {"resolve", "lookup"}, NEW a \in AddrLists \ {<<>>}, race(a),
         dnsCache' \in [addrs : AddrLists \cup {NoAddrs}, fresh : BOOLEAN], DialCache'
  PROVE  DialIInv'
<1>1. dial' = [dial EXCEPT !.pc = "race", !.addrs = a] /\ run' = [run EXCEPT ![a[1]].pc = "dial"]
  BY DEF race
<1>2. /\ dial'.pc = "race" /\ dial'.addrs = a /\ dial'.failures = 0 /\ dial'.firstErr = NoAddrs
      /\ dial'.result = NoAddrs
  BY <1>1 DEF DialIInv, DialTypeOK, Dials, Runs, DialBefore
<1>3. a[1] \in Families /\ a[1] \in Range(a)
  <2>1. a \in Seq(Families) /\ a # <<>>
    BY DialerAssumption
  <2> QED
    BY <2>1 DEF Range
<1>4. \A f \in Families : /\ run'[f].conn = NoAddrs /\ run'[f].pc \in {"idle", "dial"}
                          /\ run'[f].pc = "dial" => f = a[1]
  BY <1>1, <1>3 DEF DialIInv, DialTypeOK, Dials, Runs, DialBefore, NewRun
<1>5. DialTypeOK'
  <2>1. dial' \in Dials
    BY <1>1 DEF DialIInv, DialTypeOK, Dials, Runs
  <2>2. run' \in Runs
    <3>1. run \in Runs
      BY DEF DialIInv, DialTypeOK
    <3> QED
      BY <1>1, <1>3, <3>1, RunMoves DEF moved
  <2> QED
    BY <2>1, <2>2 DEF DialIInv, DialTypeOK
<1>6. DialBefore' /\ DialRacing'
  BY <1>2, <1>3, <1>4 DEF DialBefore, DialRacing
<1>7. NoAddrs \notin Families \cup {"open", "error"}
  BY DialerAssumption
<1>8. DialSockets'
  BY <1>2, <1>4, <1>7 DEF DialSockets
<1>9. DialTried'
  BY <1>4 DEF DialTried
<1>10. DialCounted'
  BY <1>2, <1>4 DEF DialCounted
<1>11. FailsOnlyWhenAllFailed'
  BY <1>2, <1>7 DEF FailsOnlyWhenAllFailed
<1> QED
  BY <1>5, <1>6, <1>8, <1>9, <1>10, <1>11 DEF DialIInv

LEMMA ResolveStep ==
  ASSUME DialIInv, Resolve
  PROVE  DialIInv'
<1>1. CASE dnsCache.fresh /\ race(dnsCache.addrs) /\ UNCHANGED dnsCache
  <2>1. dnsCache.addrs \in AddrLists \ {<<>>}
    BY <1>1 DEF DialIInv, DialCache
  <2> QED
    BY <1>1, <2>1, RaceStarts DEF Resolve, DialIInv, DialTypeOK, Dials, Runs, DialCache
<1>2. CASE dial' = [dial EXCEPT !.pc = "lookup"] /\ UNCHANGED <<dnsCache, run>>
  <2>1. dial'.pc = "lookup" /\ dial'.failures = dial.failures /\ dial'.firstErr = dial.firstErr /\ dial'.result = dial.result
    BY <1>2 DEF DialIInv, DialTypeOK, Dials, Runs
  <2>2. DialTypeOK' /\ DialCache' /\ DialBefore'
    BY <1>2, <2>1 DEF Resolve, DialIInv, DialTypeOK, Dials, Runs, DialCache, DialBefore, NewRun
  <2>3. DialRacing' /\ DialSockets' /\ DialTried' /\ DialCounted' /\ FailsOnlyWhenAllFailed'
    BY <1>2, <2>1, DialerAssumption
    DEF Resolve, DialIInv, DialBefore, NewRun, DialRacing, DialSockets, DialTried, DialCounted, FailsOnlyWhenAllFailed
  <2> QED
    BY <2>2, <2>3 DEF DialIInv
<1> QED
  BY <1>1, <1>2 DEF Resolve

LEMMA LookupStep ==
  ASSUME DialIInv, Lookup
  PROVE  DialIInv'
<1>1. ASSUME NEW a \in AddrLists \ {<<>>}, race(a), dnsCache' = [addrs |-> a, fresh |-> TRUE] PROVE DialIInv'
  BY <1>1, RaceStarts DEF Lookup, DialCache
<1>2. CASE failed("lookup") /\ UNCHANGED <<dnsCache, run>>
  <2>1. dial'.pc = "done" /\ dial'.firstErr = "lookup" /\ dial'.result = "error"
    BY <1>2 DEF failed, DialIInv, DialTypeOK, Dials, Runs
  <2>2. DialTypeOK' /\ DialCache' /\ DialBefore'
    BY <1>2, <2>1 DEF failed, DialIInv, DialTypeOK, Dials, Runs, DialCache, DialBefore
  <2>3. \A f \in Families : run[f].conn = NoAddrs
    BY DEF Lookup, DialIInv, DialBefore, NewRun
  <2>4. DialRacing' /\ DialSockets' /\ DialTried' /\ DialCounted' /\ FailsOnlyWhenAllFailed'
    BY <1>2, <2>1, <2>3, DialerAssumption
    DEF DialRacing, DialSockets, DialTried, DialCounted, FailsOnlyWhenAllFailed
  <2> QED
    BY <2>2, <2>4 DEF DialIInv
<1> QED
  BY <1>1, <1>2 DEF Lookup

LEMMA AttemptStep ==
  ASSUME DialIInv, NEW f \in Families, Attempt(f)
  PROVE  DialIInv'
<1>1. run[f].pc = "dial" /\ UNCHANGED <<dnsCache, dial>>
  BY DEF Attempt
<1>2. \/ run' = [run EXCEPT ![f].pc = "report", ![f].conn = "open"]
      \/ run' = [run EXCEPT ![f].at = @ + 1]
      \/ (~moreTargets(f) \/ raceDone) /\ run' = [run EXCEPT ![f].pc = "report"]
  BY DEF Attempt
<1>3. DialTypeOK'
  BY <1>1, <1>2 DEF DialIInv, DialTypeOK, Dials, Runs
<1>4. /\ \A g \in Families : g # f => run'[g] = run[g]
      /\ \/ run'[f].pc = "report" /\ run'[f].conn = "open"
         \/ run'[f].pc = "dial" /\ run'[f].conn = run[f].conn
         \/ /\ run'[f].pc = "report" /\ run'[f].conn = run[f].conn /\ run'[f].at = run[f].at
            /\ ~moreTargets(f) \/ raceDone
  BY <1>1, <1>2 DEF DialIInv, DialTypeOK, Dials, Runs
<1>5. dial.pc \notin {"resolve", "lookup"} /\ run[f].conn # "open"
  BY <1>1 DEF DialIInv, DialBefore, DialSockets, NewRun
<1>6. /\ primary' = primary /\ fallback' = fallback /\ (hasFallback' <=> hasFallback)
      /\ \A g : run'[g].at = run[g].at => (moreTargets(g)' <=> moreTargets(g))
  BY <1>1 DEF primary, fallback, hasFallback, moreTargets, targets
<1>7. DialCache' /\ DialBefore' /\ DialRacing'
  BY <1>1, <1>4, <1>5 DEF DialIInv, DialCache, DialBefore, DialRacing
<1>8. DialSockets' /\ DialCounted'
  BY <1>1, <1>4, <1>5, <1>6 DEF DialIInv, DialSockets, DialCounted
<1>9. DialTried'
  BY <1>1, <1>4, <1>5, <1>6 DEF DialIInv, DialTried, raceDone
<1>10. FailsOnlyWhenAllFailed'
  <2>1. SUFFICES ASSUME dial.result = "error", ~dial.expired, dial.firstErr # "lookup"
                 PROVE  FailsOnlyWhenAllFailed'
    BY <1>1 DEF FailsOnlyWhenAllFailed
  <2>2. f \notin Range(dial.addrs) /\ dial.firstErr = primary
    BY <1>1, <2>1 DEF DialIInv, FailsOnlyWhenAllFailed
  <2>3. \A g \in Range(dial.addrs) : run'[g] = run[g] /\ run[g].pc = "over" /\ ~moreTargets(g)
    BY <1>4, <2>1, <2>2, AddressesAreOfFamilies DEF DialIInv, DialTypeOK, Dials, Runs, FailsOnlyWhenAllFailed
  <2> QED
    BY <1>1, <1>6, <2>2, <2>3 DEF FailsOnlyWhenAllFailed
<1> QED
  BY <1>3, <1>7, <1>8, <1>9, <1>10 DEF DialIInv

\* A goroutine that leaves on its own closes its socket; with the race over
\* nobody counts it.
LEMMA GiveUpStep ==
  ASSUME DialIInv, NEW f \in Families, GiveUp(f)
  PROVE  DialIInv'
<1>1. run[f].pc = "report" /\ raceDone /\ UNCHANGED <<dnsCache, dial>>
  BY DEF GiveUp
<1>2. /\ \A g \in Families : g # f => run'[g] = run[g]
      /\ run'[f].pc = "over" /\ run'[f].conn # "open" /\ run'[f].at = run[f].at
  BY DEF GiveUp, closeLoser, DialIInv, DialTypeOK, Dials, Runs
<1>3. DialTypeOK'
  <2>1. closeLoser(f) \in {NoAddrs, "open", "closed"}
    BY DEF closeLoser, DialIInv, DialTypeOK, Dials, Runs
  <2>2. PICK c \in {NoAddrs, "open", "closed"} : run' = [run EXCEPT ![f].pc = "over", ![f].conn = c]
    BY <2>1 DEF GiveUp
  <2>3. run' \in Runs
    <3>1. run \in Runs
      BY DEF DialIInv, DialTypeOK
    <3>2. [run[f] EXCEPT !.pc = "over", !.conn = c] \in
            [pc : {"idle", "dial", "report", "over"}, at : Nat \ {0}, conn : {NoAddrs, "open", "closed"}]
      BY <3>1 DEF Runs
    <3>3. run' = [run EXCEPT ![f] = [run[f] EXCEPT !.pc = "over", !.conn = c]]
      BY <2>2, <3>1 DEF Runs
    <3> QED
      BY <3>1, <3>2, <3>3 DEF Runs
  <2> QED
    BY <1>1, <2>3 DEF DialIInv, DialTypeOK
<1>4. /\ primary' = primary /\ \A g : run'[g].at = run[g].at => (moreTargets(g)' <=> moreTargets(g))
  BY <1>1 DEF primary, moreTargets, targets
<1>5. dial.pc \notin {"resolve", "lookup"} /\ (dial.pc = "race" => dial.expired)
  BY <1>1 DEF DialIInv, DialTypeOK, Dials, Runs, DialBefore, NewRun, raceDone
<1>6. DialCache' /\ DialBefore' /\ DialRacing'
  BY <1>1, <1>2, <1>5 DEF DialIInv, DialCache, DialBefore, DialRacing
<1>7. DialSockets'
  BY <1>1, <1>2 DEF DialIInv, DialSockets
<1>8. DialTried' /\ DialCounted'
  BY <1>1, <1>5 DEF DialIInv, DialTried, DialCounted
<1>9. FailsOnlyWhenAllFailed'
  BY <1>1, <1>2, <1>4, AddressesAreOfFamilies DEF DialIInv, DialTypeOK, Dials, Runs, FailsOnlyWhenAllFailed
<1> QED
  BY <1>3, <1>6, <1>7, <1>8, <1>9 DEF DialIInv

LEMMA DeadlineStep ==
  ASSUME DialIInv, Deadline
  PROVE  DialIInv'
<1> DEFINE err == IF dial.firstErr = NoAddrs THEN "deadline" ELSE dial.firstErr
<1>1. dial.pc = "race" /\ dial.expired /\ UNCHANGED <<dnsCache, run>>
  BY DEF Deadline
<1>2. dial' = [dial EXCEPT !.pc = "done", !.result = "error", !.firstErr = err]
  BY DEF Deadline, failed
<1>3. dial'.pc = "done" /\ dial'.result = "error" /\ dial'.expired
  BY <1>1, <1>2 DEF DialIInv, DialTypeOK, Dials, Runs
<1>4. DialTypeOK'
  BY <1>1, <1>2 DEF DialIInv, DialTypeOK, Dials, Runs
<1>5. DialCache' /\ DialBefore' /\ DialRacing' /\ DialTried' /\ DialCounted' /\ FailsOnlyWhenAllFailed'
  BY <1>1, <1>3 DEF DialIInv, DialCache, DialBefore, DialRacing, DialTried, DialCounted, FailsOnlyWhenAllFailed
<1>6. DialSockets'
  BY <1>1, <1>3, DialerAssumption DEF DialIInv, DialRacing, DialSockets
<1> QED
  BY <1>4, <1>5, <1>6 DEF DialIInv

\* The other family's goroutine starts, if it has not.
LEMMA FallbackStarts ==
  ASSUME DialIInv, dial.pc = "race", hasFallback, NEW r, DialTypeOK,
         r \in Runs
  PROVE  /\ withFallback(r) \in Runs
         /\ \A f \in Families :
              /\ withFallback(r)[f].conn = r[f].conn /\ withFallback(r)[f].at = r[f].at
              /\ \/ withFallback(r)[f].pc = r[f].pc
                 \/ withFallback(r)[f].pc = "dial" /\ r[f].pc = "idle" /\ f \in Range(dial.addrs)
<1>1. fallback \in Families
  BY PrimaryAndFallback DEF DialIInv, DialTypeOK, Dials, Runs, DialRacing
<1>2. withFallback(r) = r \/ (r[fallback].pc = "idle" /\ withFallback(r) = [r EXCEPT ![fallback].pc = "dial"])
  BY DEF withFallback
<1>3. CASE r[fallback].pc = "idle" /\ withFallback(r) = [r EXCEPT ![fallback].pc = "dial"]
  <2> DEFINE s == moved(r, fallback, "dial")
  <2>1. /\ s \in Runs /\ \A g \in Families : g # fallback => s[g] = r[g]
        /\ s[fallback] = [pc |-> "dial", at |-> r[fallback].at, conn |-> r[fallback].conn]
    BY <1>1, RunMoves
  <2> HIDE DEF s
  <2>2. withFallback(r) = s
    BY <1>3 DEF s, moved
  <2> QED
    <3>1. s[fallback].conn = r[fallback].conn /\ s[fallback].at = r[fallback].at /\ s[fallback].pc = "dial"
      BY <2>1
    <3> QED
      BY <1>3, <2>1, <2>2, <3>1 DEF hasFallback
<1> QED
  BY <1>2, <1>3

LEMMA LagOverStep ==
  ASSUME DialIInv, LagOver
  PROVE  DialIInv'
<1>1. dial.pc = "race" /\ hasFallback /\ run' = withFallback(run) /\ UNCHANGED <<dnsCache, dial>>
  BY DEF LagOver
<1>2. DialTypeOK'
  BY <1>1, FallbackStarts DEF DialIInv, DialTypeOK, Dials, Runs
<1>3. \A f \in Families : /\ run'[f].conn = run[f].conn /\ run'[f].at = run[f].at
                          /\ \/ run'[f].pc = run[f].pc
                             \/ run'[f].pc = "dial" /\ run[f].pc = "idle" /\ f \in Range(dial.addrs)
  BY <1>1, FallbackStarts DEF DialIInv, DialTypeOK, Dials, Runs
<1>4. (hasFallback' <=> hasFallback) /\ \A f \in Families : moreTargets(f)' <=> moreTargets(f)
  BY <1>1, <1>3 DEF primary, fallback, hasFallback, moreTargets, targets
<1>5. DialCache' /\ DialBefore' /\ DialRacing'
  BY <1>1, <1>3 DEF DialIInv, DialCache, DialBefore, DialRacing
<1>6. DialSockets'
  BY <1>1, <1>3 DEF DialIInv, DialSockets
<1>7. DialTried'
  BY <1>1, <1>3, <1>4 DEF DialIInv, DialTried
<1>8. DialCounted'
  BY <1>1, <1>3, <1>4 DEF DialIInv, DialCounted
<1>9. FailsOnlyWhenAllFailed'
  BY <1>1, DialerAssumption DEF DialIInv, DialRacing, FailsOnlyWhenAllFailed
<1> QED
  BY <1>2, <1>5, <1>6, <1>7, <1>8, <1>9 DEF DialIInv

\* TakeResult's three outcomes.
Takes(f) == dial.pc = "race" /\ run[f].pc = "report" /\ UNCHANGED dnsCache
SocketTaken(f) ==
  /\ Takes(f) /\ run[f].conn = "open" /\ run' = [run EXCEPT ![f].pc = "over"]
  /\ dial' = [dial EXCEPT !.pc = "done", !.result = f]
LastFailureTaken(f) ==
  /\ Takes(f) /\ run[f].conn # "open" /\ allFailed /\ run' = [run EXCEPT ![f].pc = "over"]
  /\ dial' = [dial EXCEPT !.pc = "done", !.result = "error", !.firstErr = errorToReport(f)]
FirstFailureTaken(f) ==
  /\ Takes(f) /\ run[f].conn # "open" /\ ~allFailed /\ run' = withFallback([run EXCEPT ![f].pc = "over"])
  /\ dial' = [dial EXCEPT !.failures = @ + 1, !.firstErr = errorToReport(f)]

\* The first socket is the result.
LEMMA TakesSocket ==
  ASSUME DialIInv, NEW f \in Families, SocketTaken(f)
  PROVE  DialIInv'
<1>0. dial.pc = "race" /\ run[f].pc = "report" /\ run[f].conn = "open" /\ UNCHANGED dnsCache
  BY DEF SocketTaken, Takes
<1>1. dial'.pc = "done" /\ dial'.result = f
  BY <1>0 DEF SocketTaken, DialIInv, DialTypeOK, Dials, Runs
<1>2. /\ \A g \in Families : g # f => run'[g] = run[g]
      /\ run'[f].pc = "over" /\ run'[f].conn = "open"
  BY <1>0 DEF SocketTaken, DialIInv, DialTypeOK, Dials, Runs
<1>3. DialTypeOK'
  <2>1. dial' \in Dials
    BY <1>0 DEF SocketTaken, DialIInv, DialTypeOK, Dials, Runs
  <2>2. run' \in Runs
    BY <1>0 DEF SocketTaken, DialIInv, DialTypeOK, Dials, Runs
  <2> QED
    BY <1>0, <2>1, <2>2 DEF DialIInv, DialTypeOK
<1>4. DialCache' /\ DialBefore' /\ DialRacing' /\ DialTried' /\ DialCounted'
  BY <1>0, <1>1 DEF DialIInv, DialCache, DialBefore, DialRacing, DialTried, DialCounted
<1>5. DialSockets'
  <2>1. \A g \in Families : g # f /\ run[g].conn = "open" => run[g].pc = "report"
    BY <1>0, DialerAssumption DEF DialIInv, DialRacing, DialSockets
  <2> QED
    BY <1>0, <1>1, <1>2, <2>1 DEF DialSockets
<1>6. FailsOnlyWhenAllFailed'
  BY <1>0, <1>1, DialerAssumption DEF FailsOnlyWhenAllFailed
<1> QED
  BY <1>0, <1>3, <1>4, <1>5, <1>6 DEF DialIInv

\* The last failure: within the time every address was tried, and the error
\* is the preferred family's, which reported either now or first.
LEMMA TakesLastFailure ==
  ASSUME DialIInv, NEW f \in Families, LastFailureTaken(f)
  PROVE  DialIInv'
<1>0. dial.pc = "race" /\ run[f].pc = "report" /\ run[f].conn # "open" /\ allFailed /\ UNCHANGED dnsCache
  BY DEF LastFailureTaken, Takes
<1>1. dial'.pc = "done" /\ dial'.result = "error" /\ dial'.firstErr = errorToReport(f) /\ dial'.addrs = dial.addrs
      /\ dial'.expired = dial.expired
  BY <1>0 DEF LastFailureTaken, DialIInv, DialTypeOK, Dials, Runs
<1>2. /\ \A g \in Families : g # f => run'[g] = run[g]
      /\ run'[f].pc = "over" /\ run'[f].conn # "open" /\ run'[f].at = run[f].at
  BY <1>0 DEF LastFailureTaken, DialIInv, DialTypeOK, Dials, Runs
<1>3. PICK e \in Families \cup {NoAddrs, "deadline", "lookup"} : e = errorToReport(f)
  BY <1>0 DEF LastFailureTaken, errorToReport, DialIInv, DialTypeOK, Dials, Runs
<1>4. DialTypeOK'
  <2>1. dial' \in Dials
    BY <1>0, <1>3 DEF LastFailureTaken, DialIInv, DialTypeOK, Dials
  <2>2. run' \in Runs
    BY <1>0 DEF LastFailureTaken, DialIInv, DialTypeOK, Dials, Runs
  <2> QED
    BY <1>0, <2>1, <2>2 DEF DialIInv, DialTypeOK
<1>5. DialCache' /\ DialBefore' /\ DialRacing' /\ DialTried' /\ DialCounted'
  BY <1>0, <1>1 DEF DialIInv, DialCache, DialBefore, DialRacing, DialTried, DialCounted
<1>6. DialSockets'
  <2>1. \A g \in Families : g # f /\ run[g].conn = "open" => run[g].pc = "report"
    BY <1>0, DialerAssumption DEF DialIInv, DialRacing, DialSockets
  <2> QED
    BY <1>0, <1>1, <1>2, <2>1, DialerAssumption DEF DialSockets
<1>7. FailsOnlyWhenAllFailed'
  <2>1. SUFFICES ASSUME ~dial.expired
                 PROVE  /\ errorToReport(f) = primary
                        /\ \A g \in Range(dial.addrs) : run'[g].pc = "over" /\ ~moreTargets(g)'
    BY <1>0, <1>1 DEF FailsOnlyWhenAllFailed, primary
  <2>2. \A g \in Families : run'[g].at = run[g].at /\ (moreTargets(g)' <=> moreTargets(g))
    BY <1>0, <1>1, <1>2 DEF moreTargets, targets
  <2>3. /\ primary \in Families /\ primary \in Range(dial.addrs) /\ Range(dial.addrs) \subseteq Families
        /\ fallback \in Families /\ fallback # primary /\ Families = {primary, fallback}
    BY <1>0, PrimaryAndFallback DEF DialIInv, DialTypeOK, Dials, Runs, DialRacing
  <2>4. f \in Range(dial.addrs)
    BY <1>0 DEF LastFailureTaken, DialIInv, DialRacing
  <2>5. \A g \in Families : run[g].pc \in {"report", "over"} /\ run[g].conn # "open" => ~moreTargets(g)
    BY <1>0, <2>1 DEF DialIInv, DialTried
  <2>6. CASE ~hasFallback
    <3>1. Range(dial.addrs) = {f} /\ f = primary
      BY <1>0, <2>3, <2>4, <2>6 DEF hasFallback
    <3> QED
      BY <1>0, <1>2, <2>2, <2>5, <3>1 DEF errorToReport
  <2>7. CASE hasFallback
    <3>1. dial.failures = 1
      BY <1>0, <2>7 DEF allFailed, DialIInv, DialCounted
    <3>2. dial.firstErr \in Families /\ run[dial.firstErr].pc = "over" /\ dial.firstErr # f
      BY <1>0, <2>1, <3>1 DEF DialIInv, DialCounted
    <3>3. Families = {f, dial.firstErr} /\ dial.firstErr # NoAddrs
      BY <1>0, <2>3, <3>2, DialerAssumption
    <3>4. errorToReport(f) = primary
      BY <1>0, <2>3, <3>3 DEF errorToReport
    <3>5. run[dial.firstErr].conn # "open"
      BY <1>0, <3>2, DialerAssumption DEF DialIInv, DialRacing, DialSockets
    <3>6. \A g \in Families : run'[g].pc = "over" /\ ~moreTargets(g)'
      BY <1>0, <1>2, <2>2, <2>5, <3>2, <3>3, <3>5
    <3> QED
      BY <1>0, <2>3, <3>4, <3>6
  <2> QED
    BY <1>0, <2>6, <2>7
<1> QED
  BY <1>0, <1>4, <1>5, <1>6, <1>7 DEF DialIInv

\* The first failure of two: the other family's turn, if it is not dialling.
LEMMA TakesFirstFailure ==
  ASSUME DialIInv, NEW f \in Families, FirstFailureTaken(f)
  PROVE  DialIInv'
<1>0. dial.pc = "race" /\ run[f].pc = "report" /\ run[f].conn # "open" /\ ~allFailed /\ UNCHANGED dnsCache
  BY DEF FirstFailureTaken, Takes
<1> DEFINE over == moved(run, f, "over")
<1>1. dial.failures = 0 /\ hasFallback
  BY <1>0 DEF FirstFailureTaken, allFailed, DialIInv, DialCounted
<1>2. PICK e \in Families \cup {NoAddrs, "deadline", "lookup"} : e = errorToReport(f)
  BY <1>0 DEF errorToReport, DialIInv, DialTypeOK, Dials
<1>d. dial' = [dial EXCEPT !.failures = 1, !.firstErr = e] /\ dial \in Dials
  <2>1. dial' = [dial EXCEPT !.failures = @ + 1, !.firstErr = e] /\ dial \in Dials
    BY <1>2 DEF FirstFailureTaken, DialIInv, DialTypeOK
  <2>2. dial.failures + 1 = 1
    BY <1>1
  <2> QED
    BY <2>1, <2>2
<1>3. /\ dial'.pc = "race" /\ dial'.firstErr = e /\ dial'.addrs = dial.addrs /\ dial'.failures = 1
      /\ dial'.expired = dial.expired /\ dial'.result = dial.result
  BY <1>0, <1>1, <1>d DEF Dials
<1>4. /\ over \in Runs /\ \A g \in Families : g # f => over[g] = run[g]
      /\ over[f] = [pc |-> "over", at |-> run[f].at, conn |-> run[f].conn]
  BY RunMoves DEF DialIInv, DialTypeOK
<1>5. run' = withFallback(over)
  BY DEF FirstFailureTaken, moved
<1> HIDE DEF over
<1>6. /\ run' \in Runs
      /\ \A g \in Families : run'[g].conn = run[g].conn /\ run'[g].at = run[g].at
      /\ \A g \in Families : g # f => \/ run'[g].pc = run[g].pc
                                      \/ run'[g].pc = "dial" /\ run[g].pc = "idle" /\ g \in Range(dial.addrs)
      /\ run'[f].pc = "over"
  <2>1. /\ run' \in Runs
        /\ \A g \in Families : /\ run'[g].conn = over[g].conn /\ run'[g].at = over[g].at
                               /\ \/ run'[g].pc = over[g].pc
                                  \/ run'[g].pc = "dial" /\ over[g].pc = "idle" /\ g \in Range(dial.addrs)
    BY <1>0, <1>1, <1>4, <1>5, FallbackStarts DEF DialIInv
  <2> QED
    BY <1>4, <2>1
<1>7. DialTypeOK'
  <2>1. dial' \in Dials
    <3>1. 1 \in 0..2 /\ e \in Families \cup {NoAddrs, "deadline", "lookup"}
      OBVIOUS
    <3> QED
      BY <1>d, <3>1 DEF Dials
  <2> QED
    BY <1>0, <1>6, <2>1 DEF DialIInv, DialTypeOK
<1>8. DialCache' /\ DialBefore'
  BY <1>0, <1>3 DEF DialIInv, DialCache, DialBefore
<1>9. DialRacing'
  <2>1. f \in Range(dial.addrs)
    BY <1>0 DEF FirstFailureTaken, DialIInv, DialRacing
  <2> QED
    BY <1>0, <1>3, <1>6, <2>1 DEF DialIInv, DialRacing
<1>10. DialSockets'
  <2>1. dial.result = NoAddrs /\ \A g \in Families : run[g].conn = "open" => run[g].pc = "report"
    BY <1>0, DialerAssumption DEF DialIInv, DialRacing, DialSockets
  <2> QED
    BY <1>0, <1>3, <1>6, <2>1, DialerAssumption DEF DialSockets
<1>11. DialTried'
  <2>1. \A g \in Families : moreTargets(g)' <=> moreTargets(g)
    BY <1>0, <1>3, <1>6 DEF moreTargets, targets
  <2>2. SUFFICES ASSUME ~dial.expired, NEW g \in Families, run'[g].pc \in {"report", "over"}, run'[g].conn # "open"
                 PROVE  ~moreTargets(g)
    BY <1>0, <1>3, <2>1 DEF DialTried
  <2>3. run[g].pc \in {"report", "over"} /\ run[g].conn # "open"
    BY <1>0, <1>6, <2>2
  <2> QED
    BY <1>0, <2>2, <2>3 DEF DialIInv, DialTried
<1>12. DialCounted'
  <2>1. hasFallback'
    BY <1>0, <1>1, <1>3 DEF hasFallback, fallback, primary
  <2>2. ASSUME ~dial.expired PROVE e = f /\ \A g \in Families : run'[g].pc = "over" <=> g = f
    <3>1. dial.firstErr = NoAddrs /\ \A g \in Families : run[g].pc # "over"
      BY <1>0, <1>1, <2>2 DEF DialIInv, DialCounted
    <3> QED
      BY <1>0, <1>2, <1>6, <3>1 DEF errorToReport
  <2> QED
    BY <1>0, <1>3, <2>1, <2>2 DEF DialCounted
<1>13. FailsOnlyWhenAllFailed'
  BY <1>0, <1>3, DialerAssumption DEF DialIInv, DialRacing, FailsOnlyWhenAllFailed
<1> QED
  BY <1>0, <1>7, <1>8, <1>9, <1>10, <1>11, <1>12, <1>13 DEF DialIInv

LEMMA TakeResultStep ==
  ASSUME DialIInv, NEW f \in Families, TakeResult(f)
  PROVE  DialIInv'
<1>1. SocketTaken(f) \/ LastFailureTaken(f) \/ FirstFailureTaken(f)
  BY DEF TakeResult, failed, SocketTaken, LastFailureTaken, FirstFailureTaken, Takes
<1> QED
  BY <1>1, TakesSocket, TakesLastFailure, TakesFirstFailure

LEMMA RedialStep ==
  ASSUME DialIInv, Redial
  PROVE  DialIInv'
<1>1. dial' = NewDial /\ run' = [f \in Families |-> NewRun] /\ dnsCache' = dnsCache
  BY DEF Redial
<1>2. DialTypeOK'
  BY <1>1, DialerAssumption DEF DialIInv, DialTypeOK, Dials, Runs, NewDial, NewRun
<1>3. DialCache' /\ DialBefore' /\ DialRacing' /\ DialTried' /\ DialCounted'
  BY <1>1 DEF DialIInv, DialCache, DialBefore, DialRacing, DialTried, DialCounted, NewDial, NewRun
<1>4. DialSockets' /\ FailsOnlyWhenAllFailed'
  BY <1>1, DialerAssumption DEF DialSockets, FailsOnlyWhenAllFailed, NewDial, NewRun
<1> QED
  BY <1>2, <1>3, <1>4 DEF DialIInv

LEMMA DialInductive ==
  DialInit /\ [][DialNext]_dialVars => []DialIInv
<1>1. DialIInv /\ [DialNext]_dialVars => DialIInv'
  <2>1. ASSUME DialIInv, DialNext PROVE DialIInv'
    BY <2>1, DialQuiet, ResolveStep, LookupStep, AttemptStep, GiveUpStep, DeadlineStep, LagOverStep,
       TakeResultStep, RedialStep
    DEF DialNext, Dialling, Goroutine
  <2>2. ASSUME DialIInv, UNCHANGED dialVars PROVE DialIInv'
    <3>1. dnsCache' = dnsCache /\ dial' = dial /\ run' = run
      BY <2>2 DEF dialVars
    <3>2. (hasFallback' <=> hasFallback) /\ primary' = primary /\ \A f : moreTargets(f)' <=> moreTargets(f)
      BY <3>1 DEF hasFallback, fallback, primary, moreTargets, targets
    <3> QED
      BY <2>2, <3>1, <3>2 DEF DialIInv, DialTypeOK, Dials, Runs, DialCache, DialBefore, DialRacing, DialSockets, DialTried,
        DialCounted, FailsOnlyWhenAllFailed
  <2> QED
    BY <2>1, <2>2
<1> QED
  BY <1>1, DialInitInv, PTL

LEMMA DialSafe ==
  DialInit /\ [][DialNext]_dialVars => [](DialTypeOK /\ DialIsRight)
<1>1. ASSUME DialIInv PROVE DialTypeOK /\ DialIsRight
  <2>1. OneSocketSurvives
    BY <1>1 DEF DialIInv, DialSockets, OneSocketSurvives, goroutinesOver
  <2> QED
    BY <1>1, <2>1 DEF DialIInv, DialIsRight
<1> QED
  BY <1>1, DialInductive, PTL

\* Dial's state, its goroutines and the cached entry keep their types.
THEOREM DialTypesHold == DialSpec => []DialTypeOK
  BY DialSafe, PTL DEF DialSpec

\* The socket a dial returns is open and the only one left, and it fails only
\* with every address tried, with the preferred family's error
\* (targetDialer.Dial, dialSerial), for every list of addresses a lookup gives.
THEOREM DialsRightly == DialSpec => []DialIsRight
  BY DialSafe, PTL DEF DialSpec

-----------------------------------------------------------------------------
(* Speed limits *)

\* The running configuration or a relay charges bucket b for era e.
carries(b, e) ==
  \/ current[b[1]] = b /\ era[b[1]] = e
  \/ \E c \in Payers : b \in payer[c].limits /\ payer[c].era[b[1]] = e

LimitCurrent ==
  \A s \in Scopes :
    /\ era[s] <= reloads /\ (current[s] = NoBucket <=> rate[s] = Unlimited)
    /\ current[s] # NoBucket => current[s] \in Buckets /\ current[s][1] = s /\ current[s][2] <= reloads
LimitPayers ==
  \A c \in Payers :
    /\ payer[c].left \subseteq payer[c].limits /\ (payer[c].pc = "swap" => payer[c].left # {})
    /\ payer[c].pc \in {"load", "swap"} => payer[c].cost \in Costs
    /\ \A b \in payer[c].limits : b[2] <= reloads
    /\ \A s \in Scopes : payer[c].era[s] <= era[s]
LimitEras ==
  \A a, b \in Buckets : \A d, e \in 0..MaxReloads :
    a[1] = b[1] /\ carries(a, d) /\ carries(b, e) => (a = b <=> d = e)
LimitFuture == \A s \in Scopes : \A e \in 0..MaxReloads : e > era[s] => allowed[<<s, e>>] = <<>>

\* A history of charges keeps to the rate; a tat is ahead of all of it.
Charges == Seq([at : Nat, cost : Costs, sum : Nat])
keepsRate(h) ==
  \A i, j \in DOMAIN h : i <= j => (h[j].sum - h[i].sum) + h[i].cost <= (h[j].at - h[i].at) + later(Burst, h[i].cost)
atOnce(cost) == IF cost <= Burst THEN cost ELSE Burst   \* the part of a charge the burst covers
ahead(t, h) == \A i \in DOMAIN h : h[i].at + atOnce(h[i].cost) + (h[Len(h)].sum - h[i].sum) <= t
LimitTat == \A b \in Buckets : \A e \in 0..MaxReloads : carries(b, e) => ahead(tat[b], allowed[<<b[1], e>>])
LimitRate == \A b \in Buckets : keepsRate(allowed[b])

LimitIInv == LimitTypeOK /\ LimitCurrent /\ LimitPayers /\ LimitEras /\ LimitFuture /\ LimitTat /\ LimitRate

\* One charge more (limiter.reserve): from a tat ahead of the history, the
\* charge is allowed when the rate and the burst let it, and the new tat is
\* ahead of it too, whatever clock the caller read.
LEMMA ChargeKeepsRate ==
  ASSUME NEW h \in Charges, NEW old \in Nat, NEW now \in Nat, NEW cost \in Costs, ahead(old, h), keepsRate(h)
  PROVE  LET nxt == nextTat(old, now, cost)
             h2 == allow(h, now + waitFor(nxt, now), cost)
         IN /\ nxt \in Nat /\ now + waitFor(nxt, now) \in Nat
            /\ h2 \in Charges /\ ahead(nxt, h2) /\ keepsRate(h2)
<1> DEFINE nxt == nextTat(old, now, cost)
           ready == now + waitFor(nxt, now)
           sum == cost + IF h = <<>> THEN 0 ELSE h[Len(h)].sum
           h2 == allow(h, ready, cost)
<1>1. cost \in Nat /\ Burst \in Nat
  BY LimiterAssumption
<1>2. nxt \in Nat /\ nxt >= old + cost /\ nxt >= now + cost
  BY <1>1 DEF nextTat, later
<1>3. ready \in Nat /\ ready >= now /\ ready >= nxt - Burst /\ ready + atOnce(cost) <= nxt
  BY <1>1, <1>2 DEF waitFor, later, atOnce
<1>4. \A i \in DOMAIN h : h[i].at \in Nat /\ h[i].cost \in Nat /\ h[i].sum \in Nat
  <2>1. SUFFICES ASSUME NEW i \in DOMAIN h PROVE h[i].at \in Nat /\ h[i].cost \in Nat /\ h[i].sum \in Nat
    OBVIOUS
  <2>2. h[i] \in [at : Nat, cost : Costs, sum : Nat]
    <3>1. i \in 1..Len(h)
      BY DEF Charges
    <3> QED
      BY <3>1, ElementOfSeq DEF Charges
  <2>3. Costs \subseteq Nat
    BY LimiterAssumption
  <2> QED
    BY <2>2, <2>3
<1>5. Len(h) \in Nat /\ DOMAIN h = 1..Len(h) /\ (h # <<>> => Len(h) \in DOMAIN h)
  BY DEF Charges
<1>6. sum \in Nat
  BY <1>1, <1>4, <1>5
<1> HIDE DEF nxt, ready, sum
<1>7. h2 = Append(h, [at |-> ready, cost |-> cost, sum |-> sum])
  BY DEF allow, Last, sum
<1>8. h2 \in Charges
  BY <1>3, <1>6, <1>7 DEF Charges
<1>9. /\ DOMAIN h2 = 1..(Len(h) + 1) /\ Len(h2) = Len(h) + 1 /\ \A i \in DOMAIN h : h2[i] = h[i]
      /\ h2[Len(h) + 1] = [at |-> ready, cost |-> cost, sum |-> sum]
  BY <1>5, <1>7 DEF Charges
<1> HIDE DEF h2
<1>10. \A i \in DOMAIN h : sum = cost + h[Len(h)].sum
  BY <1>5 DEF sum
<1>11. \A i \in DOMAIN h : h[i].at + atOnce(h[i].cost) + (sum - h[i].sum) <= nxt
  <2>1. SUFFICES ASSUME NEW i \in DOMAIN h PROVE h[i].at + atOnce(h[i].cost) + (sum - h[i].sum) <= nxt
    OBVIOUS
  <2>2. h[i].at + atOnce(h[i].cost) + (h[Len(h)].sum - h[i].sum) <= old
    BY DEF ahead
  <2>3. PICK at \in Nat, c \in Nat, s \in Nat, l \in Nat :
          at = h[i].at /\ c = atOnce(h[i].cost) /\ s = h[i].sum /\ l = h[Len(h)].sum
    <3>1. \A k \in Nat : atOnce(k) \in Nat
      BY <1>1 DEF atOnce
    <3>2. Len(h) \in DOMAIN h
      BY <1>5, <2>1
    <3>3. atOnce(h[i].cost) \in Nat
      BY <1>4, <2>1, <3>1
    <3>4. h[i].at \in Nat /\ h[i].sum \in Nat /\ h[Len(h)].sum \in Nat
      BY <1>4, <2>1, <3>2
    <3> QED
      BY <3>3, <3>4, Zenon
  <2>4. at + c + (l - s) <= old /\ sum = cost + l
    BY <1>10, <2>2, <2>3
  <2>5. at + c + (sum - s) <= nxt
    BY <1>1, <1>2, <2>4
  <2> QED
    BY <2>3, <2>5
<1>12. ahead(nxt, h2)
  <2>1. SUFFICES ASSUME NEW i \in 1..(Len(h) + 1) PROVE h2[i].at + atOnce(h2[i].cost) + (sum - h2[i].sum) <= nxt
    BY <1>9 DEF ahead
  <2>2. CASE i \in DOMAIN h
    BY <1>9, <1>11, <2>2
  <2>3. CASE i = Len(h) + 1
    <3>1. sum - sum = 0 /\ atOnce(cost) \in Nat /\ ready + atOnce(cost) + 0 <= nxt
      BY <1>1, <1>3, <1>6 DEF atOnce
    <3> QED
      BY <1>9, <2>3, <3>1
  <2> QED
    BY <1>5, <2>2, <2>3
<1>13. keepsRate(h2)
  <2>1. SUFFICES ASSUME NEW i \in 1..(Len(h) + 1), NEW j \in 1..(Len(h) + 1), i <= j
                 PROVE  (h2[j].sum - h2[i].sum) + h2[i].cost <= (h2[j].at - h2[i].at) + later(Burst, h2[i].cost)
    BY <1>9 DEF keepsRate
  <2>2. CASE j \in DOMAIN h
    <3>1. i \in DOMAIN h
      BY <1>5, <2>1, <2>2
    <3> QED
      BY <1>9, <2>1, <2>2, <3>1 DEF keepsRate
  <2>3. CASE j = Len(h) + 1 /\ i \in DOMAIN h
    <3>1. PICK at \in Nat, c \in Nat, s \in Nat : at = h[i].at /\ c = h[i].cost /\ s = h[i].sum
      BY <1>4, <2>3
    <3>2. at + atOnce(c) + (sum - s) <= nxt
      BY <1>11, <2>3, <3>1
    <3>3. (sum - s) + c <= (ready - at) + later(Burst, c)
      BY <1>1, <1>2, <1>3, <1>6, <3>2 DEF atOnce, later
    <3> QED
      BY <1>9, <2>3, <3>1, <3>3
  <2>4. CASE j = Len(h) + 1 /\ i = Len(h) + 1
    BY <1>1, <1>3, <1>6, <1>9, <2>4 DEF later
  <2> QED
    BY <1>5, <2>1, <2>2, <2>3, <2>4
<1> QED
  BY <1>2, <1>3, <1>8, <1>12, <1>13 DEF nxt, ready, h2

LEMMA WithinRateIs == LimitRate <=> WithinRate
  BY DEF LimitRate, keepsRate, WithinRate

LEMMA LimitInitInv ==
  ASSUME LimitInit
  PROVE  LimitIInv
<1>1. \A s \in Scopes, e \in 0..MaxReloads : <<s, e>> \in Buckets /\ <<s, e>> # NoBucket /\ <<s, e>>[1] = s /\ <<s, e>>[2] = e
  BY DEF Buckets, NoBucket
<1>2. 0 \in 0..MaxReloads /\ Unlimited \notin Rates
  BY LimiterAssumption
<1>3. \A s \in Scopes : current[s] = <<s, 0>> /\ rate[s] \in Rates
  BY <1>2 DEF LimitInit, bucketFor
<1>4. LimitCurrent
  BY <1>1, <1>2, <1>3 DEF LimitInit, LimitCurrent
<1>5. LimitPayers
  BY DEF LimitInit, LimitPayers, Idle
<1>6. \A b \in Buckets, e \in 0..MaxReloads : carries(b, e) => e = 0 /\ b = <<b[1], 0>>
  BY <1>3 DEF LimitInit, carries, Idle, Buckets
<1>7. LimitEras
  BY <1>6 DEF LimitEras
<1>8. LimitFuture /\ LimitTat /\ LimitRate
  <2>1. \A b \in Buckets : allowed[b] = <<>>
    BY DEF LimitInit
  <2>2. \A b \in Buckets, e \in 0..MaxReloads : allowed[<<b[1], e>>] = <<>>
    BY <1>1, <2>1 DEF Buckets
  <2> QED
    BY <1>1, <2>1, <2>2 DEF LimitFuture, LimitTat, LimitRate, ahead, keepsRate
<1>9. LimitTypeOK
  BY <1>1, <1>2, <1>3, LimiterAssumption DEF LimitInit, LimitTypeOK, PayerStates, Idle
<1> QED
  BY <1>4, <1>5, <1>7, <1>8, <1>9 DEF LimitIInv

\* Nothing new is carried and nothing charged.
LEMMA LimitKept ==
  ASSUME LimitIInv, UNCHANGED <<tat, era, allowed, rate, current, reloads>>,
         \A b \in Buckets, e \in 0..MaxReloads : carries(b, e)' => carries(b, e)
  PROVE  LimitCurrent' /\ LimitEras' /\ LimitFuture' /\ LimitTat' /\ LimitRate'
<1>1. LimitCurrent' /\ LimitFuture' /\ LimitRate'
  BY DEF LimitIInv, LimitCurrent, LimitFuture, LimitRate
<1>2. LimitEras'
  BY DEF LimitIInv, LimitEras
<1>3. LimitTat'
  BY DEF LimitIInv, LimitTat
<1> QED
  BY <1>1, <1>2, <1>3

LEMMA StartRelayStep ==
  ASSUME LimitIInv, NEW c \in Payers, StartRelay(c)
  PROVE  LimitIInv'
<1> DEFINE mine == Range(current) \ {NoBucket}
           relay == [Idle EXCEPT !.pc = "relay", !.era = era, !.limits = mine]
<1>1. payer' = [payer EXCEPT ![c] = relay] /\ UNCHANGED <<clock, tat, era, allowed, rate, current, reloads, charges>>
  BY DEF StartRelay
<1>i. Idle \in PayerStates /\ Idle.left = {}
  BY LimiterAssumption DEF Idle, PayerStates
<1>2. relay.pc = "relay" /\ relay.limits = mine /\ relay.era = era /\ relay.left = {}
  BY <1>i DEF PayerStates
<1>3. \A b \in mine : /\ b \in Buckets /\ b[1] \in Scopes /\ current[b[1]] = b /\ b[2] <= reloads
  BY DEF LimitIInv, LimitTypeOK, LimitCurrent, Range, Buckets
<1> HIDE DEF mine
<1>4. LimitTypeOK'
  <2>1. mine \in SUBSET Buckets /\ era \in [Scopes -> Nat]
    BY <1>3 DEF LimitIInv, LimitTypeOK
  <2>2. relay \in PayerStates
    BY <1>i, <2>1 DEF PayerStates
  <2> HIDE DEF relay
  <2> QED
    BY <1>1, <2>2 DEF LimitIInv, LimitTypeOK
<1> HIDE DEF relay
<1>5. \A d \in Payers : d # c => payer'[d] = payer[d]
  BY <1>1 DEF LimitIInv, LimitTypeOK
<1>6. payer'[c] = relay
  BY <1>1 DEF LimitIInv, LimitTypeOK
<1>7. LimitPayers'
  <2>1. \A s \in Scopes : era[s] \in Nat
    BY DEF LimitIInv, LimitTypeOK
  <2> QED
    BY <1>1, <1>2, <1>3, <1>5, <1>6, <2>1 DEF LimitIInv, LimitPayers
<1>8. \A b \in Buckets, e \in 0..MaxReloads : carries(b, e)' => carries(b, e)
  BY <1>1, <1>2, <1>3, <1>5, <1>6 DEF carries
<1> QED
  BY <1>1, <1>4, <1>7, <1>8, LimitKept DEF LimitIInv

\* A relay that charges keeps its buckets and their eras.
LEMMA PayerStep ==
  ASSUME LimitIInv, NEW c \in Payers, NEW r, payer' = [payer EXCEPT ![c] = r],
         r \in PayerStates,
         r.limits \in {payer[c].limits, {}}, \A s \in Scopes : r.era[s] \in {payer[c].era[s], 0},
         r.limits = {} \/ r.era = payer[c].era,
         r.left \subseteq r.limits, r.pc = "swap" => r.left # {}, r.pc \in {"load", "swap"} => r.cost \in Costs
  PROVE  /\ payer' \in [Payers -> PayerStates]
         /\ UNCHANGED <<era, reloads>> => LimitPayers'
         /\ UNCHANGED <<era, current>> => \A b \in Buckets, e \in 0..MaxReloads : carries(b, e)' => carries(b, e)
<1>1. payer \in [Payers -> PayerStates]
  BY DEF LimitIInv, LimitTypeOK
<1>2. payer'[c] = r /\ \A d \in Payers : d # c => payer'[d] = payer[d]
  BY <1>1
<1>3. ASSUME UNCHANGED <<era, reloads>> PROVE LimitPayers'
  <2>1. SUFFICES ASSUME NEW d \in Payers
                 PROVE  /\ payer'[d].left \subseteq payer'[d].limits /\ (payer'[d].pc = "swap" => payer'[d].left # {})
                        /\ payer'[d].pc \in {"load", "swap"} => payer'[d].cost \in Costs
                        /\ \A b \in payer'[d].limits : b[2] <= reloads
                        /\ \A s \in Scopes : payer'[d].era[s] <= era[s]
    BY <1>3 DEF LimitPayers
  <2>2. \A s \in Scopes : era[s] \in Nat
    BY DEF LimitIInv, LimitTypeOK
  <2>3. CASE d = c
    BY <1>2, <2>2, <2>3 DEF LimitIInv, LimitPayers
  <2>4. CASE d # c
    BY <1>2, <2>4 DEF LimitIInv, LimitPayers
  <2> QED
    BY <2>3, <2>4
<1>4. ASSUME UNCHANGED <<era, current>> PROVE \A b \in Buckets, e \in 0..MaxReloads : carries(b, e)' => carries(b, e)
  BY <1>2, <1>4 DEF carries
<1> QED
  BY <1>1, <1>3, <1>4

LEMMA WaitAllStep ==
  ASSUME LimitIInv, NEW c \in Payers, NEW cost \in Costs, WaitAll(c, cost)
  PROVE  LimitIInv'
<1> DEFINE p == payer[c]
           r == [p EXCEPT !.pc = "load", !.left = p.limits, !.cost = cost, !.until = clock]
<1>1. /\ p \in PayerStates
      /\ clock \in Nat /\ cost \in Nat
  BY LimiterAssumption DEF LimitIInv, LimitTypeOK
<1>2. payer' = [payer EXCEPT ![c] = r]
  BY Zenon DEF WaitAll
<1>3. UNCHANGED <<clock, tat, era, allowed, rate, current, reloads>> /\ charges' \in 0..MaxCharges
  BY LimiterAssumption DEF WaitAll, LimitIInv, LimitTypeOK
<1>4. r \in PayerStates
  BY <1>1 DEF PayerStates
<1>5. r.limits = p.limits /\ r.era = p.era /\ r.left = r.limits /\ r.pc = "load" /\ r.cost = cost
  BY <1>1 DEF PayerStates
<1> HIDE DEF r
<1>6. /\ LimitPayers' /\ \A b \in Buckets, e \in 0..MaxReloads : carries(b, e)' => carries(b, e)
      /\ payer' \in [Payers -> PayerStates]
  BY <1>2, <1>3, <1>4, <1>5, PayerStep
<1>7. LimitTypeOK'
  BY <1>3, <1>6 DEF LimitIInv, LimitTypeOK
<1> QED
  BY <1>3, <1>6, <1>7, LimitKept DEF LimitIInv

LEMMA ReserveLoadStep ==
  ASSUME LimitIInv, NEW c \in Payers, ReserveLoad(c)
  PROVE  LimitIInv'
<1> DEFINE p == payer[c]
           r == [p EXCEPT !.pc = "swap", !.now = clock, !.old = tat[theBucket(c)]]
<1>1. p \in PayerStates
  BY DEF LimitIInv, LimitTypeOK
<1>2. p.pc = "load" /\ p.left # {} /\ UNCHANGED <<clock, tat, era, allowed, rate, current, reloads, charges>>
  BY DEF ReserveLoad
<1>3. theBucket(c) \in p.left
  BY <1>2 DEF theBucket
<1>4. tat[theBucket(c)] \in Nat /\ clock \in 0..MaxClock
  BY <1>1, <1>3 DEF LimitIInv, LimitTypeOK, PayerStates
<1>5. payer' = [payer EXCEPT ![c] = r]
  BY Zenon DEF ReserveLoad
<1>6. r \in PayerStates
  BY <1>1, <1>4 DEF PayerStates
<1>7. r.limits = p.limits /\ r.era = p.era /\ r.left = p.left /\ r.pc = "swap" /\ r.cost = p.cost
  BY <1>1 DEF PayerStates
<1> HIDE DEF r
<1>8. p.left \subseteq p.limits /\ p.cost \in Costs
  BY <1>2 DEF LimitIInv, LimitPayers
<1>9. /\ LimitPayers' /\ \A b \in Buckets, e \in 0..MaxReloads : carries(b, e)' => carries(b, e)
      /\ payer' \in [Payers -> PayerStates]
  BY <1>2, <1>5, <1>6, <1>7, <1>8, PayerStep
<1>10. LimitTypeOK'
  BY <1>2, <1>9 DEF LimitIInv, LimitTypeOK
<1> QED
  BY <1>2, <1>9, <1>10, LimitKept DEF LimitIInv

\* The compare-and-swap: what it found is what it read, so the tat it moves is
\* ahead of every charge of the era.
LEMMA SwapStep ==
  ASSUME LimitIInv, NEW c \in Payers, payer[c].pc = "swap", swapped(c, payer[c].old), ReserveSwap(c)
  PROVE  LimitIInv'
<1> DEFINE p == payer[c]
           b == theBucket(c)
           nxt == nextTat(p.old, p.now, p.cost)
           ready == p.now + waitFor(nxt, p.now)
           e == p.era[b[1]]
           h == allowed[<<b[1], e>>]
           h2 == allow(h, ready, p.cost)
           r == [p EXCEPT !.left = @ \ {b}, !.until = later(@, ready), !.pc = IF p.left = {b} THEN "sleep" ELSE "load"]
<1>1. p \in PayerStates /\ p.left # {} /\ p.left \subseteq p.limits /\ p.cost \in Costs
  BY DEF LimitIInv, LimitTypeOK, LimitPayers
<1>2. b \in p.left
  BY <1>1 DEF theBucket
<1>3. b \in Buckets /\ b \in p.limits /\ b[1] \in Scopes /\ p.era \in [Scopes -> Nat] /\ p.now \in Nat /\ p.old \in Nat
  BY <1>1, <1>2, LimiterAssumption DEF PayerStates, Buckets
<1>4. e \in 0..MaxReloads /\ <<b[1], e>> \in Buckets
  <2>1. e \in Nat /\ e <= era[b[1]] /\ era[b[1]] <= reloads /\ reloads \in 0..MaxReloads /\ era[b[1]] \in Nat
    BY <1>3 DEF LimitIInv, LimitTypeOK, LimitPayers, LimitCurrent
  <2>2. e \in 0..MaxReloads
    BY <2>1, LimiterAssumption
  <2> QED
    BY <1>3, <2>2 DEF Buckets
<1>5. carries(b, e)
  BY <1>3 DEF carries
<1>6. tat[b] = p.old /\ ahead(p.old, h) /\ keepsRate(h) /\ h \in Charges
  <2>1. tat[b] = p.old
    BY DEF swapped
  <2> QED
    BY <1>3, <1>4, <1>5, <2>1 DEF LimitIInv, LimitTat, LimitRate, LimitTypeOK, Charges
<1>7. nxt \in Nat /\ ready \in Nat /\ h2 \in Charges /\ ahead(nxt, h2) /\ keepsRate(h2)
  BY <1>1, <1>3, <1>6, ChargeKeepsRate
<1>8. /\ tat' = [tat EXCEPT ![b] = nxt] /\ allowed' = [allowed EXCEPT ![<<b[1], e>>] = h2]
      /\ UNCHANGED <<clock, era, rate, current, reloads, charges>>
  BY DEF ReserveSwap
<1>9. payer' = [payer EXCEPT ![c] = r]
  BY Zenon DEF ReserveSwap
<1>10. later(p.until, ready) \in Nat
  BY <1>1, <1>7 DEF later, PayerStates
<1> HIDE DEF nxt, ready, h2
<1>11. r \in PayerStates
  <2>1. p.left \ {b} \in SUBSET Buckets
    BY <1>1 DEF PayerStates
  <2> QED
    BY <1>1, <1>10, <2>1 DEF PayerStates
<1>12. /\ r.limits = p.limits /\ r.era = p.era /\ r.left = p.left \ {b} /\ r.pc \in {"sleep", "load"}
       /\ r.cost = p.cost
  BY <1>1 DEF PayerStates
<1> HIDE DEF r
<1>13. /\ LimitPayers' /\ \A a \in Buckets, d \in 0..MaxReloads : carries(a, d)' => carries(a, d)
       /\ payer' \in [Payers -> PayerStates]
  BY <1>1, <1>8, <1>9, <1>11, <1>12, PayerStep
<1>14. LimitTypeOK'
  <2>1. tat' \in [Buckets -> Nat]
    BY <1>7, <1>8 DEF LimitIInv, LimitTypeOK
  <2>2. allowed' \in [Buckets -> Charges]
    BY <1>7, <1>8 DEF LimitIInv, LimitTypeOK, Charges
  <2> QED
    BY <1>8, <1>13, <2>1, <2>2 DEF LimitIInv, LimitTypeOK, Charges
<1>15. LimitCurrent' /\ LimitEras'
  BY <1>8, <1>13 DEF LimitIInv, LimitCurrent, LimitEras
<1>16. /\ \A a \in Buckets : a # <<b[1], e>> => allowed'[a] = allowed[a]
       /\ allowed'[<<b[1], e>>] = h2 /\ tat'[b] = nxt /\ \A a \in Buckets : a # b => tat'[a] = tat[a]
  BY <1>3, <1>4, <1>8 DEF LimitIInv, LimitTypeOK
<1>17. LimitRate'
  BY <1>7, <1>16 DEF LimitIInv, LimitRate
<1>18. LimitFuture'
  <2>1. SUFFICES ASSUME NEW s \in Scopes, NEW d \in 0..MaxReloads, d > era[s] PROVE allowed'[<<s, d>>] = <<>>
    BY <1>8 DEF LimitFuture
  <2>2. <<s, d>> # <<b[1], e>>
    <3>1. e <= era[b[1]] /\ e \in Nat /\ era[b[1]] \in Nat
      BY <1>3 DEF LimitIInv, LimitPayers, LimitTypeOK
    <3> QED
      BY <2>1, <3>1
  <2>3. <<s, d>> \in Buckets
    BY DEF Buckets
  <2> QED
    BY <1>16, <2>1, <2>2, <2>3 DEF LimitIInv, LimitFuture
<1>19. LimitTat'
  <2>1. SUFFICES ASSUME NEW a \in Buckets, NEW d \in 0..MaxReloads, carries(a, d)
                 PROVE  ahead(tat'[a], allowed'[<<a[1], d>>])
    BY <1>13 DEF LimitTat
  <2>2. ahead(tat[a], allowed[<<a[1], d>>]) /\ <<a[1], d>> \in Buckets
    BY <2>1 DEF LimitIInv, LimitTat, Buckets
  <2>3. CASE a = b
    <3>1. d = e
      BY <1>3, <1>4, <1>5, <2>1, <2>3 DEF LimitIInv, LimitEras
    <3> QED
      BY <1>7, <1>16, <2>3, <3>1
  <2>4. CASE a # b
    <3>1. <<a[1], d>> # <<b[1], e>>
      <4>1. ASSUME a[1] = b[1], d = e PROVE FALSE
        BY <1>3, <1>4, <1>5, <2>1, <2>4, <4>1 DEF LimitIInv, LimitEras
      <4> QED
        BY <4>1
    <3> QED
      BY <1>16, <2>2, <2>4, <3>1
  <2> QED
    BY <2>3, <2>4
<1> QED
  BY <1>13, <1>14, <1>15, <1>17, <1>18, <1>19 DEF LimitIInv

LEMMA ReserveSwapStep ==
  ASSUME LimitIInv, NEW c \in Payers, ReserveSwap(c)
  PROVE  LimitIInv'
<1> DEFINE p == payer[c]
           r == [p EXCEPT !.pc = "load"]
<1>1. p.pc = "swap"
  BY DEF ReserveSwap
<1>2. CASE swapped(c, p.old)
  BY <1>1, <1>2, SwapStep
<1>3. CASE ~swapped(c, p.old)
  <2>1. payer' = [payer EXCEPT ![c] = r] /\ UNCHANGED <<clock, tat, era, allowed, rate, current, reloads, charges>>
    BY <1>3, Zenon DEF ReserveSwap
  <2>2. p \in PayerStates /\ p.left \subseteq p.limits /\ p.cost \in Costs
    BY <1>1 DEF LimitIInv, LimitTypeOK, LimitPayers
  <2>3. r \in PayerStates /\ r.limits = p.limits /\ r.era = p.era /\ r.left = p.left /\ r.pc = "load" /\ r.cost = p.cost
    BY <2>2 DEF PayerStates
  <2> HIDE DEF r
  <2>4. /\ LimitPayers' /\ \A a \in Buckets, d \in 0..MaxReloads : carries(a, d)' => carries(a, d)
        /\ payer' \in [Payers -> PayerStates]
    BY <2>1, <2>2, <2>3, PayerStep
  <2>5. LimitTypeOK'
    BY <2>1, <2>4 DEF LimitIInv, LimitTypeOK
  <2> QED
    BY <2>1, <2>4, <2>5, LimitKept DEF LimitIInv
<1> QED
  BY <1>2, <1>3

LEMMA WokenStep ==
  ASSUME LimitIInv, NEW c \in Payers, Woken(c)
  PROVE  LimitIInv'
<1> DEFINE p == payer[c]
<1>1. UNCHANGED <<clock, tat, era, allowed, rate, current, reloads, charges>> /\ p.pc = "sleep"
  BY DEF Woken
<1>2. p \in PayerStates /\ p.left \subseteq p.limits
  BY DEF LimitIInv, LimitTypeOK, LimitPayers
<1>3. PICK r : /\ payer' = [payer EXCEPT ![c] = r] /\ r \in PayerStates /\ r.left \subseteq r.limits
               /\ r.pc \in {"relay", "idle"}
               /\ \/ r.limits = p.limits /\ r.era = p.era
                  \/ r.limits = {} /\ \A s \in Scopes : r.era[s] = 0
  <2> DEFINE awake == [p EXCEPT !.pc = "relay"]
  <2>1. \/ payer' = [payer EXCEPT ![c] = awake]
        \/ payer' = [payer EXCEPT ![c] = Idle]
    BY Zenon DEF Woken
  <2>2. awake \in PayerStates /\ awake.left = p.left /\ awake.limits = p.limits /\ awake.era = p.era /\ awake.pc = "relay"
    BY <1>2 DEF PayerStates
  <2>3. Idle \in PayerStates /\ Idle.left = {} /\ Idle.limits = {} /\ Idle.pc = "idle" /\ \A s \in Scopes : Idle.era[s] = 0
    BY LimiterAssumption DEF Idle, PayerStates
  <2> HIDE DEF awake
  <2> QED
    BY <1>2, <2>1, <2>2, <2>3
<1>a. /\ r.limits \in {p.limits, {}} /\ \A s \in Scopes : r.era[s] \in {p.era[s], 0}
      /\ r.limits = {} \/ r.era = p.era
  BY <1>3
<1>b. (r.pc = "swap" => r.left # {}) /\ (r.pc \in {"load", "swap"} => r.cost \in Costs)
  BY <1>3
<1>4. /\ LimitPayers' /\ \A a \in Buckets, d \in 0..MaxReloads : carries(a, d)' => carries(a, d)
      /\ payer' \in [Payers -> PayerStates]
  BY <1>1, <1>3, <1>a, <1>b, PayerStep
<1>5. LimitTypeOK'
  BY <1>1, <1>4 DEF LimitIInv, LimitTypeOK
<1> QED
  BY <1>1, <1>4, <1>5, LimitKept DEF LimitIInv

LEMMA ClockTickStep ==
  ASSUME LimitIInv, ClockTick
  PROVE  LimitIInv'
<1>1. UNCHANGED <<tat, era, allowed, rate, current, payer, reloads, charges>>
  BY DEF ClockTick
<1>2. LimitTypeOK'
  <2>1. clock' \in 0..MaxClock
    BY LimiterAssumption DEF ClockTick, LimitIInv, LimitTypeOK
  <2> QED
    BY <1>1, <2>1 DEF LimitIInv, LimitTypeOK
<1>3. LimitPayers' /\ \A a \in Buckets, d \in 0..MaxReloads : carries(a, d)' => carries(a, d)
  BY <1>1 DEF LimitIInv, LimitPayers, carries
<1> QED
  BY <1>1, <1>2, <1>3, LimitKept DEF LimitIInv

\* newRuntime: a rate that did not change keeps its bucket and its era; a rate
\* that did gets an unused bucket, whose tat is now, for an era without charges.
LEMMA ReloadRatesStep ==
  ASSUME LimitIInv, NEW new \in [Scopes -> Rates \cup {Unlimited}], ReloadRates(new)
  PROVE  LimitIInv'
<1>1. /\ reloads \in Nat /\ reloads' = reloads + 1 /\ reloads' \in 0..MaxReloads
      /\ rate' = new /\ UNCHANGED <<clock, allowed, payer, charges>>
      /\ Unlimited \notin Rates
  BY LimiterAssumption DEF ReloadRates, LimitIInv, LimitTypeOK
<1>2. /\ \A b \in Buckets : tat'[b] = IF b[2] = reloads' THEN clock ELSE tat[b]
      /\ tat' \in [Buckets -> Nat]
  BY DEF ReloadRates, LimitIInv, LimitTypeOK
<1>3. /\ \A s \in Scopes : era[s] \in Nat /\ era'[s] = IF new[s] = rate[s] THEN era[s] ELSE era[s] + 1
      /\ era' \in [Scopes -> Nat]
  BY DEF ReloadRates, LimitIInv, LimitTypeOK
<1>4. \A s \in Scopes : <<s, reloads'>> \in Buckets /\ <<s, reloads'>> # NoBucket
  BY <1>1 DEF Buckets, NoBucket
<1>5. /\ \A s \in Scopes :
           current'[s] = IF new[s] = Unlimited THEN NoBucket
                         ELSE IF keepsBucket(s, new) THEN current[s] ELSE <<s, reloads'>>
      /\ current' \in [Scopes -> Buckets \cup {NoBucket}]
  BY <1>4 DEF ReloadRates, LimitIInv, LimitTypeOK
<1>6. \A s \in Scopes : \/ new[s] = Unlimited /\ current'[s] = NoBucket
                        \/ /\ new[s] # Unlimited /\ new[s] = rate[s] /\ era'[s] = era[s] /\ current'[s] = current[s]
                           /\ current[s] # NoBucket
                        \/ /\ new[s] # Unlimited /\ new[s] # rate[s] /\ era'[s] = era[s] + 1
                           /\ current'[s] = <<s, reloads'>>
  BY <1>3, <1>5 DEF keepsBucket, LimitIInv, LimitCurrent
<1>7. LimitCurrent'
  <2>1. SUFFICES ASSUME NEW s \in Scopes
                 PROVE  /\ era'[s] <= reloads' /\ (current'[s] = NoBucket <=> rate'[s] = Unlimited)
                        /\ current'[s] # NoBucket =>
                             current'[s] \in Buckets /\ current'[s][1] = s /\ current'[s][2] <= reloads'
    BY DEF LimitCurrent
  <2>2. era'[s] <= reloads'
    BY <1>1, <1>3 DEF LimitIInv, LimitCurrent
  <2>3. CASE new[s] = Unlimited
    BY <1>1, <1>6, <2>2, <2>3
  <2>4. CASE new[s] # Unlimited /\ current'[s] = current[s] /\ current[s] # NoBucket
    <3>1. current[s] \in Buckets /\ current[s][1] = s /\ current[s][2] <= reloads /\ current[s][2] \in Nat
      BY <2>4 DEF LimitIInv, LimitCurrent, Buckets
    <3> QED
      BY <1>1, <2>2, <2>4, <3>1
  <2>5. CASE new[s] # Unlimited /\ current'[s] = <<s, reloads'>>
    <3>1. reloads' <= reloads'
      BY <1>1
    <3> QED
      BY <1>1, <1>4, <2>2, <2>5, <3>1
  <2> QED
    BY <1>6, <2>3, <2>4, <2>5
<1>8. LimitPayers'
  <2>1. SUFFICES ASSUME NEW c \in Payers
                 PROVE  (\A b \in payer[c].limits : b[2] <= reloads') /\ \A s \in Scopes : payer[c].era[s] <= era'[s]
    BY <1>1 DEF LimitIInv, LimitPayers
  <2>2. payer[c].limits \subseteq Buckets /\ payer[c].era \in [Scopes -> Nat]
    BY DEF LimitIInv, LimitTypeOK, PayerStates
  <2>3. \A b \in payer[c].limits : b[2] \in Nat /\ b[2] <= reloads
    BY <2>2 DEF LimitIInv, LimitPayers, Buckets
  <2>4. \A s \in Scopes : payer[c].era[s] \in Nat /\ payer[c].era[s] <= era[s]
    BY <2>2 DEF LimitIInv, LimitPayers
  <2> QED
    BY <1>1, <1>3, <2>3, <2>4
<1>9. LimitFuture'
  <2>1. SUFFICES ASSUME NEW s \in Scopes, NEW e \in 0..MaxReloads, e > era'[s] PROVE allowed[<<s, e>>] = <<>>
    BY <1>1 DEF LimitFuture
  <2>2. e > era[s]
    BY <1>3, <2>1
  <2> QED
    BY <2>2 DEF LimitIInv, LimitFuture
<1>10. LimitTypeOK'
  BY <1>1, <1>2, <1>3, <1>5 DEF LimitIInv, LimitTypeOK
<1>11. LimitRate'
  BY <1>1 DEF LimitIInv, LimitRate
\* What is carried after a reload was carried before, or is new: an unused bucket
\* for an era that just began.
<1> DEFINE fresh(b, e) == b[2] = reloads' /\ e > era[b[1]] /\ e = era'[b[1]]
<1>12. \A b \in Buckets, e \in 0..MaxReloads : carries(b, e)' => carries(b, e) \/ fresh(b, e)
  <2>1. SUFFICES ASSUME NEW b \in Buckets, NEW e \in 0..MaxReloads, carries(b, e)'
                 PROVE  carries(b, e) \/ fresh(b, e)
    OBVIOUS
  <2>2. CASE \E c \in Payers : b \in payer[c].limits /\ payer[c].era[b[1]] = e
    BY <2>2 DEF carries
  <2>3. CASE current'[b[1]] = b /\ era'[b[1]] = e
    <3>0. b[1] \in Scopes /\ b = <<b[1], b[2]>>
      BY DEF Buckets
    <3>1. b[1] \in Scopes /\ b # NoBucket /\ b = <<b[1], b[2]>>
      <4>1. <<b[1], b[2]>> # <<>>
        OBVIOUS
      <4> QED
        BY <3>0, <4>1 DEF NoBucket
    <3>2. CASE era'[b[1]] = era[b[1]] /\ current'[b[1]] = current[b[1]]
      BY <2>3, <3>2 DEF carries
    <3>3. CASE era'[b[1]] = era[b[1]] + 1 /\ current'[b[1]] = <<b[1], reloads'>>
      BY <1>3, <2>3, <3>1, <3>3
    <3> QED
      BY <1>6, <2>3, <3>1, <3>2, <3>3
  <2> QED
    BY <1>1, <2>1, <2>2, <2>3 DEF carries
<1>13. \A b \in Buckets, e \in 0..MaxReloads : carries(b, e) => b[2] <= reloads /\ b[2] \in Nat /\ e <= era[b[1]] /\ b[1] \in Scopes
  <2>1. SUFFICES ASSUME NEW b \in Buckets, NEW e \in 0..MaxReloads, carries(b, e)
                 PROVE  b[2] <= reloads /\ e <= era[b[1]]
    BY DEF Buckets
  <2>2. b[1] \in Scopes /\ era[b[1]] \in Nat
    BY <1>3 DEF Buckets
  <2>3. CASE current[b[1]] = b /\ era[b[1]] = e
    <3>1. b # NoBucket
      <4>1. b = <<b[1], b[2]>> /\ <<b[1], b[2]>> # <<>>
        BY DEF Buckets
      <4> QED
        BY <4>1 DEF NoBucket
    <3> QED
      BY <2>2, <2>3, <3>1 DEF LimitIInv, LimitCurrent
  <2>4. CASE \E c \in Payers : b \in payer[c].limits /\ payer[c].era[b[1]] = e
    BY <2>2, <2>4 DEF LimitIInv, LimitPayers
  <2> QED
    BY <2>1, <2>3, <2>4 DEF carries
<1>14. LimitEras'
  <2>1. SUFFICES ASSUME NEW a \in Buckets, NEW b \in Buckets, NEW d \in 0..MaxReloads, NEW e \in 0..MaxReloads,
                        a[1] = b[1], carries(a, d)', carries(b, e)'
                 PROVE  a = b <=> d = e
    BY DEF LimitEras
  <2>2. /\ a = <<a[1], a[2]>> /\ b = <<b[1], b[2]>> /\ a[1] \in Scopes /\ d \in Nat /\ e \in Nat
        /\ era[a[1]] \in Nat
    BY <1>3 DEF Buckets
  <2>3. CASE carries(a, d) /\ carries(b, e)
    BY <2>1, <2>3 DEF LimitIInv, LimitEras
  <2>4. CASE carries(a, d) /\ fresh(b, e)
    BY <1>1, <1>13, <2>1, <2>2, <2>4
  <2>5. CASE fresh(a, d) /\ carries(b, e)
    BY <1>1, <1>13, <2>1, <2>2, <2>5
  <2>6. CASE fresh(a, d) /\ fresh(b, e)
    BY <2>1, <2>2, <2>6
  <2> QED
    BY <1>12, <2>1, <2>3, <2>4, <2>5, <2>6
<1>15. LimitTat'
  <2>1. SUFFICES ASSUME NEW b \in Buckets, NEW e \in 0..MaxReloads, carries(b, e)'
                 PROVE  ahead(tat'[b], allowed[<<b[1], e>>])
    BY <1>1 DEF LimitTat
  <2>2. CASE carries(b, e)
    <3>1. b[2] # reloads'
      BY <1>1, <1>13, <2>2
    <3>2. tat'[b] = tat[b]
      BY <1>2, <3>1
    <3> QED
      BY <2>2, <3>2 DEF LimitIInv, LimitTat
  <2>3. CASE fresh(b, e)
    <3>1. allowed[<<b[1], e>>] = <<>>
      BY <2>3 DEF LimitIInv, LimitFuture, Buckets
    <3> QED
      BY <3>1 DEF ahead
  <2> QED
    BY <1>12, <2>1, <2>2, <2>3
<1> QED
  BY <1>7, <1>8, <1>9, <1>10, <1>11, <1>14, <1>15 DEF LimitIInv

LEMMA LimitInductive == LimitSpec => []LimitIInv
<1>1. LimitIInv /\ [LimitNext]_limitVars => LimitIInv'
  <2>1. SUFFICES ASSUME LimitIInv, [LimitNext]_limitVars PROVE LimitIInv'
    OBVIOUS
  <2>2. CASE UNCHANGED limitVars
    <3>1. UNCHANGED <<tat, era, allowed, rate, current, payer, reloads, charges, clock>>
      BY <2>2 DEF limitVars
    <3>2. LimitTypeOK' /\ LimitPayers'
      BY <2>1, <3>1 DEF LimitIInv, LimitTypeOK, LimitPayers
    <3>3. \A b \in Buckets, e \in 0..MaxReloads : carries(b, e)' => carries(b, e)
      BY <3>1 DEF carries
    <3> QED
      BY <2>1, <3>1, <3>2, <3>3, LimitKept DEF LimitIInv
  <2> QED
    BY <2>1, <2>2, StartRelayStep, WaitAllStep, ReserveLoadStep, ReserveSwapStep, WokenStep, ReloadRatesStep,
       ClockTickStep DEF LimitNext
<1> QED
  BY <1>1, LimitInitInv, PTL DEF LimitSpec

\* The clock, the buckets, the eras' charges and the relays keep their types.
THEOREM LimitTypesHold == LimitSpec => []LimitTypeOK
  BY LimitInductive, PTL DEF LimitIInv

\* The relays of a rule or listener whose rate stays the same are allowed, from
\* any charge to any later one, what the rate gives in between plus one burst,
\* or the first charge where it is more than that (limiter.reserve, newRuntime's
\* buckets that outlive a reload), for any number of relays, listeners and
\* reloads, whatever a charge costs, and any burst.
THEOREM ChargesKeepRate == LimitSpec => []WithinRate
<1>1. LimitIInv => WithinRate
  BY WithinRateIs DEF LimitIInv
<1> QED
  BY <1>1, LimitInductive, PTL

-----------------------------------------------------------------------------
(* Logging *)

charged == {c \in inHand : caller[c].pc # "charge"}
refused == {c \in Callers : caller[c].pc = "full"}

LogCounts ==
  /\ pendingBytes = Len(ring) + Cardinality(charged)
  /\ calls = Len(entered) + droppedLog + reported + Cardinality(inHand)
  /\ pendingBytes <= MaxPending + Cardinality(refused)
LogOnce ==
  /\ \A i, j \in DOMAIN entered : entered[i].n = entered[j].n => i = j
  /\ \A i \in DOMAIN entered : entered[i].n <= calls /\ \A c \in inHand : caller[c].line.n # entered[i].n
  /\ \A c \in inHand : caller[c].line.n <= calls
  /\ \A c, d \in inHand : caller[c].line.n = caller[d].line.n => c = d

LogIInv == LoggingTypeOK /\ LogCounts /\ LogOnce

\* Two sets of callers that differ at most in one.
LEMMA CountMoves ==
  ASSUME NEW S \in SUBSET Callers, NEW T \in SUBSET Callers, NEW c \in Callers,
         \A d \in Callers : d # c => (d \in S <=> d \in T)
  PROVE  /\ Cardinality(S) \in Nat /\ Cardinality(T) \in Nat
         /\ Cardinality(T) = Cardinality(S) + (IF c \in T THEN 1 ELSE 0) - (IF c \in S THEN 1 ELSE 0)
<1>1. IsFiniteSet(S) /\ IsFiniteSet(T)
  BY LoggingAssumption, FS_Subset
<1>2. Cardinality(S) \in Nat /\ Cardinality(T) \in Nat
  BY <1>1, FS_CardinalityType
<1>3. CASE c \in S <=> c \in T
  <2>1. S = T
    BY <1>3
  <2> QED
    BY <1>2, <2>1
<1>4. CASE c \in T /\ c \notin S
  <2>1. T = S \cup {c}
    BY <1>4
  <2>2. Cardinality(T) = Cardinality(S) + 1
    BY <1>1, <1>4, <2>1, FS_AddElement
  <2> QED
    BY <1>2, <1>4, <2>2
<1>5. CASE c \in S /\ c \notin T
  <2>1. S = T \cup {c}
    BY <1>5
  <2>2. Cardinality(S) = Cardinality(T) + 1
    BY <1>1, <1>5, <2>1, FS_AddElement
  <2> QED
    BY <1>2, <1>5, <2>2
<1> QED
  BY <1>3, <1>4, <1>5

one(b) == IF b THEN 1 ELSE 0

\* A step of caller c: who has a line in hand, charged, or refused.
LEMMA HandMoves ==
  ASSUME NEW c \in Callers, \A d \in Callers : d # c => caller'[d] = caller[d]
  PROVE  /\ Cardinality(inHand) \in Nat /\ Cardinality(charged) \in Nat /\ Cardinality(refused) \in Nat
         /\ Cardinality(inHand)' = Cardinality(inHand) + one(caller'[c].pc \in {"charge", "push", "full"})
                                                       - one(caller[c].pc \in {"charge", "push", "full"})
         /\ Cardinality(charged)' = Cardinality(charged) + one(caller'[c].pc \in {"push", "full"})
                                                         - one(caller[c].pc \in {"push", "full"})
         /\ Cardinality(refused)' = Cardinality(refused) + one(caller'[c].pc = "full") - one(caller[c].pc = "full")
<1>1. /\ inHand \in SUBSET Callers /\ charged \in SUBSET Callers /\ refused \in SUBSET Callers
      /\ inHand' \in SUBSET Callers /\ charged' \in SUBSET Callers /\ refused' \in SUBSET Callers
  BY DEF inHand, charged, refused
<1>2. \A d \in Callers : d # c => (d \in inHand <=> d \in inHand')
  BY DEF inHand
<1>3. \A d \in Callers : d # c => (d \in charged <=> d \in charged')
  BY DEF inHand, charged
<1>4. \A d \in Callers : d # c => (d \in refused <=> d \in refused')
  BY DEF refused
<1>5. /\ Cardinality(inHand) \in Nat
      /\ Cardinality(inHand') = Cardinality(inHand) + one(c \in inHand') - one(c \in inHand)
  BY <1>1, <1>2, CountMoves DEF one
<1>6. /\ Cardinality(charged) \in Nat
      /\ Cardinality(charged') = Cardinality(charged) + one(c \in charged') - one(c \in charged)
  BY <1>1, <1>3, CountMoves DEF one
<1>7. /\ Cardinality(refused) \in Nat
      /\ Cardinality(refused') = Cardinality(refused) + one(c \in refused') - one(c \in refused)
  BY <1>1, <1>4, CountMoves DEF one
<1>8. /\ (c \in inHand) = (caller[c].pc \in {"charge", "push", "full"})
      /\ (c \in inHand') = (caller'[c].pc \in {"charge", "push", "full"})
      /\ (c \in charged) = (caller[c].pc \in {"push", "full"})
      /\ (c \in charged') = (caller'[c].pc \in {"push", "full"})
      /\ (c \in refused) = (caller[c].pc = "full") /\ (c \in refused') = (caller'[c].pc = "full")
  BY DEF inHand, charged, refused
<1> QED
  BY <1>5, <1>6, <1>7, <1>8

\* The lines of a sequence of records.
LEMMA LinesOfIs ==
  ASSUME NEW A, \A a \in A : a.line \in Lines, NEW s \in Seq(A)
  PROVE  /\ linesOf(s) \in Seq(Lines) /\ Len(linesOf(s)) = Len(s)
         /\ \A i \in 1..Len(s) : linesOf(s)[i] = s[i].line
<1>1. Len(s) \in Nat /\ DOMAIN s = 1..Len(s) /\ \A i \in 1..Len(s) : s[i] \in A
  BY LenProperties, ElementOfSeq
<1>2. linesOf(s) \in [1..Len(s) -> Lines]
  BY <1>1 DEF linesOf
<1>3. linesOf(s) \in Seq(Lines)
  BY <1>1, <1>2, SeqDef
<1>4. Len(linesOf(s)) = Len(s)
  BY <1>1, <1>2, <1>3, LenProperties
<1> QED
  BY <1>1, <1>3, <1>4 DEF linesOf

LEMMA LinesConcat ==
  ASSUME NEW s \in Seq(Lines), NEW t \in Seq(Lines)
  PROVE  /\ s \o t \in Seq(Lines) /\ Len(s \o t) = Len(s) + Len(t)
         /\ \A i \in 1..(Len(s) + Len(t)) : (s \o t)[i] = IF i <= Len(s) THEN s[i] ELSE t[i - Len(s)]
         /\ \A i \in 1..Len(s) : (s \o t)[i] = s[i]
<1>1. Len(s) \in Nat /\ Len(t) \in Nat
  BY LenProperties
<1> QED
  BY <1>1, ConcatProperties

Slots == [line : Lines, filled : BOOLEAN]
Written == [to : 1..MaxSinks, line : Lines, file : BOOLEAN, fallback : BOOLEAN]
LEMMA LineTypes == (\A a \in Slots : a.line \in Lines) /\ (\A a \in Written : a.line \in Lines)
  BY DEF Slots, Written

\* What has entered the ring is one sequence of lines in three pieces.
LEMMA EnteredIs ==
  ASSUME LoggingTypeOK
  PROVE  /\ everything \in Seq(Lines) /\ flusher.buf \in Seq(Lines) /\ linesOf(ring) \in Seq(Lines)
         /\ Len(everything) = Len(out) /\ Len(linesOf(ring)) = Len(ring)
         /\ Len(everything) \in Nat /\ Len(flusher.buf) \in Nat /\ Len(ring) \in Nat
         /\ everything \o flusher.buf \in Seq(Lines) /\ entered \in Seq(Lines)
         /\ Len(entered) = Len(everything) + Len(flusher.buf) + Len(ring)
         /\ \A i \in 1..Len(everything) : entered[i] = everything[i]
<1>1. ring \in Seq(Slots) /\ out \in Seq(Written) /\ flusher.buf \in Seq(Lines)
  <2>1. ring \in Seq(Slots)
    BY Zenon DEF LoggingTypeOK, Slots
  <2>2. out \in Seq(Written)
    BY Zenon DEF LoggingTypeOK, Written
  <2>3. flusher.buf \in Seq(Lines)
    BY DEF LoggingTypeOK
  <2> QED
    BY <2>1, <2>2, <2>3
<1>2. linesOf(ring) \in Seq(Lines) /\ Len(linesOf(ring)) = Len(ring)
  BY <1>1, LineTypes, LinesOfIs
<1>3. everything \in Seq(Lines) /\ Len(everything) = Len(out)
  BY <1>1, LineTypes, LinesOfIs DEF everything
<1>4. Len(everything) \in Nat /\ Len(flusher.buf) \in Nat /\ Len(ring) \in Nat
  BY <1>1, <1>3, LenProperties
<1>5. /\ everything \o flusher.buf \in Seq(Lines)
      /\ Len(everything \o flusher.buf) = Len(everything) + Len(flusher.buf)
      /\ \A i \in 1..Len(everything) : (everything \o flusher.buf)[i] = everything[i]
  BY <1>1, <1>3, <1>4, LinesConcat
<1>6. /\ entered \in Seq(Lines) /\ Len(entered) = Len(everything) + Len(flusher.buf) + Len(ring)
      /\ \A i \in 1..(Len(everything) + Len(flusher.buf)) : entered[i] = (everything \o flusher.buf)[i]
  <2> DEFINE front == everything \o flusher.buf
  <2>1. /\ front \o linesOf(ring) \in Seq(Lines) /\ Len(front \o linesOf(ring)) = Len(front) + Len(linesOf(ring))
        /\ \A i \in 1..(Len(front) + Len(linesOf(ring))) :
             (front \o linesOf(ring))[i] = IF i <= Len(front) THEN front[i] ELSE linesOf(ring)[i - Len(front)]
    BY <1>2, <1>5, LinesConcat
  <2> QED
    BY <1>2, <1>4, <1>5, <2>1 DEF entered
<1>7. \A i \in 1..Len(everything) : entered[i] = everything[i]
  BY <1>4, <1>5, <1>6
<1> QED
  BY <1>1, <1>2, <1>3, <1>4, <1>5, <1>6, <1>7

\* A line appended to the last piece is appended to the whole.
LEMMA AppendsLast ==
  ASSUME NEW s \in Seq(Lines), NEW t \in Seq(Lines), NEW l \in Lines
  PROVE  /\ s \o Append(t, l) = Append(s \o t, l)
         /\ Append(s, l) \o t = s \o (<<l>> \o t)
<1>1. <<l>> \in Seq(Lines) /\ Append(t, l) = t \o <<l>> /\ Append(s, l) = s \o <<l>>
  BY AppendIsConcat
<1>2. s \o t \in Seq(Lines)
  BY ConcatProperties
<1>3. Append(s \o t, l) = (s \o t) \o <<l>>
  BY <1>2, AppendIsConcat
<1>4. (s \o t) \o <<l>> = s \o (t \o <<l>>)
  BY <1>1, ConcatAssociative
<1>5. (s \o <<l>>) \o t = s \o (<<l>> \o t)
  BY <1>1, ConcatAssociative
<1> QED
  BY <1>1, <1>3, <1>4, <1>5

LEMMA FillMoves ==
  ASSUME LoggingTypeOK, NEW c \in Callers, Fill(c)
  PROVE  entered' = entered /\ ring' \in Seq(Slots) /\ Len(ring') = Len(ring)
<1>1. ring \in Seq(Slots)
  BY Zenon DEF LoggingTypeOK, Slots
<1>2. Len(ring) \in Nat /\ DOMAIN ring = 1..Len(ring) /\ \A i \in 1..Len(ring) : ring[i] \in Slots
  BY <1>1, LenProperties, ElementOfSeq
<1>3. \A i \in 1..Len(ring) : [ring[i] EXCEPT !.filled = TRUE] \in Slots /\ [ring[i] EXCEPT !.filled = TRUE].line = ring[i].line
  BY <1>2 DEF Slots
<1>4. /\ ring' \in [1..Len(ring) -> Slots] /\ DOMAIN ring' = DOMAIN ring
      /\ \A i \in 1..Len(ring) : ring'[i].line = ring[i].line
  <2>1. ring' = [i \in 1..Len(ring) |-> IF ring[i].line = caller[c].line THEN [ring[i] EXCEPT !.filled = TRUE] ELSE ring[i]]
    BY <1>2 DEF Fill
  <2> QED
    BY <1>2, <1>3, <2>1
<1>5. ring' \in Seq(Slots)
  BY <1>2, <1>4, SeqDef
<1>6. linesOf(ring)' = linesOf(ring)
  BY <1>2, <1>4 DEF linesOf
<1>7. Len(ring') = Len(ring)
  BY <1>2, <1>4, <1>5, LenProperties
<1>8. entered' = entered
  BY <1>6 DEF Fill, entered, everything
<1> QED
  BY <1>5, <1>7, <1>8

LEMMA PushMoves ==
  ASSUME LoggingTypeOK, NEW c \in Callers,
         ring' = Append(ring, [line |-> caller[c].line, filled |-> FALSE]), UNCHANGED <<out, flusher>>
  PROVE  entered' = Append(entered, caller[c].line) /\ ring' \in Seq(Slots) /\ Len(ring') = Len(ring) + 1
<1> DEFINE l == caller[c].line
           x == [line |-> l, filled |-> FALSE]
<1>1. l \in Lines
  BY DEF LoggingTypeOK
<1>2. x \in Slots /\ x.line = l
  BY <1>1 DEF Slots
<1>3. ring \in Seq(Slots)
  BY Zenon DEF LoggingTypeOK, Slots
<1> HIDE DEF x, l
<1>4. ring' = Append(ring, x)
  BY DEF x, l
<1>5. /\ ring' \in Seq(Slots) /\ Len(ring') = Len(ring) + 1 /\ Len(ring) \in Nat
      /\ \A i \in 1..Len(ring) : ring'[i] = ring[i]
      /\ ring'[Len(ring) + 1] = x
  BY <1>2, <1>3, <1>4, AppendProperties, LenProperties
<1>6. /\ linesOf(ring') \in Seq(Lines) /\ Len(linesOf(ring')) = Len(ring) + 1
      /\ \A i \in 1..(Len(ring) + 1) : linesOf(ring')[i] = ring'[i].line
  BY <1>5, LineTypes, LinesOfIs
<1>7. /\ linesOf(ring) \in Seq(Lines) /\ Len(linesOf(ring)) = Len(ring)
      /\ \A i \in 1..Len(ring) : linesOf(ring)[i] = ring[i].line
  BY <1>3, LineTypes, LinesOfIs
<1>8. /\ Append(linesOf(ring), l) \in Seq(Lines) /\ Len(Append(linesOf(ring), l)) = Len(ring) + 1
      /\ \A i \in 1..Len(ring) : Append(linesOf(ring), l)[i] = linesOf(ring)[i]
      /\ Append(linesOf(ring), l)[Len(ring) + 1] = l
  BY <1>1, <1>7, AppendProperties
<1>9. linesOf(ring') = Append(linesOf(ring), l)
  <2>1. \A i \in 1..(Len(ring) + 1) : linesOf(ring')[i] = Append(linesOf(ring), l)[i]
    <3>1. SUFFICES ASSUME NEW i \in 1..(Len(ring) + 1) PROVE linesOf(ring')[i] = Append(linesOf(ring), l)[i]
      OBVIOUS
    <3>2. CASE i \in 1..Len(ring)
      BY <1>5, <1>6, <1>7, <1>8, <3>2
    <3>3. CASE i = Len(ring) + 1
      BY <1>2, <1>5, <1>6, <1>8, <3>3
    <3>4. Len(ring) \in Nat
      BY <1>5
    <3>5. i \in 1..Len(ring) \/ i = Len(ring) + 1
      BY <3>4
    <3> QED
      BY <3>2, <3>3, <3>5
  <2> QED
    BY <1>6, <1>8, <2>1, SeqEqual
<1>10. (everything \o flusher.buf) \o Append(linesOf(ring), l) = Append(entered, l)
  BY <1>1, <1>7, EnteredIs, AppendsLast DEF entered
<1>11. entered' = (everything \o flusher.buf) \o linesOf(ring')
  BY DEF entered, everything
<1> QED
  BY <1>5, <1>9, <1>10, <1>11 DEF l

LEMMA PopMoves ==
  ASSUME LoggingTypeOK, FlushPop
  PROVE  /\ entered' = entered /\ ring' \in Seq(Slots) /\ Len(ring') = Len(ring) - 1 /\ Len(ring) >= 1
         /\ flusher'.buf \in Seq(Lines)
<1>1. ring \in Seq(Slots) /\ ring # <<>> /\ ring' = Tail(ring)
  <2>1. ring \in Seq(Slots)
    BY Zenon DEF LoggingTypeOK, Slots
  <2> QED
    BY <2>1 DEF FlushPop, canPop
<1>2. /\ ring' \in Seq(Slots) /\ Len(ring') = Len(ring) - 1 /\ Len(ring) \in Nat /\ Len(ring) >= 1
      /\ \A i \in 1..(Len(ring) - 1) : ring'[i] = ring[i + 1]
  BY <1>1, HeadTailProperties, EmptySeq
<1>3. popped = ring[1].line /\ popped \in Lines
  <2>1. popped = ring[1].line
    BY <1>1 DEF popped
  <2>2. ring[1] \in Slots
    BY <1>1, <1>2, ElementOfSeq
  <2> QED
    BY <2>1, <2>2, LineTypes
<1>4. flusher.buf \in Seq(Lines) /\ flusher'.buf = Append(flusher.buf, popped)
  BY DEF LoggingTypeOK, FlushPop
<1> DEFINE rest == linesOf(ring')
           all == linesOf(ring)
<1>5. rest \in Seq(Lines) /\ Len(rest) = Len(ring) - 1 /\ \A i \in 1..(Len(ring) - 1) : rest[i] = ring'[i].line
  BY <1>2, LineTypes, LinesOfIs
<1>6. all \in Seq(Lines) /\ Len(all) = Len(ring) /\ \A i \in 1..Len(ring) : all[i] = ring[i].line
  BY <1>1, LineTypes, LinesOfIs
<1> HIDE DEF rest, all
<1>7. <<popped>> \in Seq(Lines) /\ Len(<<popped>>) = 1 /\ <<popped>>[1] = popped
  BY <1>3
<1>8. <<popped>> \o rest = all
  <2> DEFINE s == <<popped>>
  <2>0. s \in Seq(Lines) /\ Len(s) = 1 /\ s[1] = popped
    BY <1>7
  <2> HIDE DEF s
  <2>1. s \o rest \in Seq(Lines) /\ Len(s \o rest) = Len(ring)
        /\ \A i \in 1..(1 + (Len(ring) - 1)) : (s \o rest)[i] = IF i <= 1 THEN s[i] ELSE rest[i - 1]
    <3>1. s \o rest \in Seq(Lines) /\ Len(s \o rest) = Len(s) + Len(rest)
          /\ \A i \in 1..(Len(s) + Len(rest)) : (s \o rest)[i] = IF i <= Len(s) THEN s[i] ELSE rest[i - Len(s)]
      BY <1>5, <2>0, LinesConcat
    <3>2. Len(s) = 1 /\ Len(rest) = Len(ring) - 1 /\ 1 + (Len(ring) - 1) = Len(ring)
      BY <1>2, <1>5, <2>0
    <3>3. Len(s \o rest) = Len(ring)
      BY <3>1, <3>2
    <3> QED
      BY <3>1, <3>2, <3>3
  <2>2. \A i \in 1..Len(ring) : (s \o rest)[i] = all[i]
    <3>1. SUFFICES ASSUME NEW i \in 1..Len(ring) PROVE (s \o rest)[i] = all[i]
      OBVIOUS
    <3>2. CASE i = 1
      BY <1>2, <1>3, <1>6, <2>0, <2>1, <3>2
    <3>3. CASE i > 1
      <4>1. i - 1 \in 1..(Len(ring) - 1) /\ (i - 1) + 1 = i
        BY <1>2, <3>3
      <4>2. (s \o rest)[i] = rest[i - 1]
        BY <1>2, <2>1, <3>3
      <4>3. rest[i - 1] = ring'[i - 1].line /\ ring'[i - 1] = ring[i] /\ all[i] = ring[i].line
        BY <1>2, <1>5, <1>6, <4>1
      <4> QED
        BY <4>2, <4>3
    <3>4. Len(ring) \in Nat
      BY <1>2
    <3>5. i = 1 \/ i > 1
      BY <3>4
    <3> QED
      BY <3>2, <3>3, <3>5
  <2>3. s \o rest = all
    BY <1>6, <2>1, <2>2, SeqEqual
  <2> QED
    BY <2>3 DEF s
<1>9. entered' = everything \o Append(flusher.buf, popped) \o rest
  BY <1>4 DEF FlushPop, entered, everything, rest
<1>10. everything \in Seq(Lines) /\ everything \o flusher.buf \in Seq(Lines)
  BY EnteredIs
<1>11. everything \o Append(flusher.buf, popped) = Append(everything \o flusher.buf, popped)
  BY <1>3, <1>4, <1>10, AppendsLast
<1>12. Append(everything \o flusher.buf, popped) \o rest = (everything \o flusher.buf) \o (<<popped>> \o rest)
  BY <1>3, <1>5, <1>10, AppendsLast
<1>13. entered' = entered
  BY <1>8, <1>9, <1>11, <1>12 DEF entered, all
<1>14. flusher'.buf \in Seq(Lines)
  BY <1>3, <1>4, AppendProperties
<1> QED
  BY <1>2, <1>13, <1>14

LEMMA WriteMoves ==
  ASSUME LoggingTypeOK, FlushWrite
  PROVE  /\ entered' = entered /\ out' \in Seq(Written) /\ flusher'.buf = <<>>
         /\ twiceAfterRefusal => twiceAfterRefusal'
<1> DEFINE b == flusher.buf
<1>0. PICK k \in 0..Len(b), l \in 0..Len(b) : writeLog(k, l) /\ out' = out \o handed(k, l)
  BY DEF FlushWrite
<1> DEFINE w == [i \in DOMAIN b |-> [to |-> sink, line |-> b[i], file |-> i <= k, fallback |-> i <= l]]
<1>1. b \in Seq(Lines) /\ sink \in 1..MaxSinks
  BY DEF LoggingTypeOK
<1>2. out \in Seq(Written)
  BY Zenon DEF LoggingTypeOK, Written
<1>3. out' = out \o w /\ flusher'.buf = <<>> /\ ring' = ring
  <2>1. out' = out \o w
    BY <1>0 DEF handed
  <2> QED
    BY <2>1 DEF FlushWrite, LoggingTypeOK
<1>4. Len(b) \in Nat /\ DOMAIN b = 1..Len(b) /\ \A i \in 1..Len(b) : b[i] \in Lines
  BY <1>1, LenProperties, ElementOfSeq
<1>5. /\ w \in [1..Len(b) -> Written]
      /\ \A i \in 1..Len(b) : w[i].line = b[i] /\ w[i].file = (i <= k) /\ w[i].fallback = (i <= l)
  BY <1>1, <1>4 DEF Written
<1> HIDE DEF w
<1>6. w \in Seq(Written) /\ Len(w) = Len(b)
  <2>1. w \in Seq(Written)
    BY <1>4, <1>5, SeqDef
  <2> QED
    BY <1>4, <1>5, <2>1, LenProperties
<1>7. /\ out' \in Seq(Written) /\ Len(out') = Len(out) + Len(b) /\ Len(out) \in Nat
      /\ \A i \in 1..(Len(out) + Len(b)) : out'[i] = IF i <= Len(out) THEN out[i] ELSE w[i - Len(out)]
  <2>1. /\ out \o w \in Seq(Written) /\ Len(out \o w) = Len(out) + Len(w)
        /\ \A i \in 1..Len(out) + Len(w) : (out \o w)[i] = IF i <= Len(out) THEN out[i] ELSE w[i - Len(out)]
    BY <1>2, <1>6, ConcatProperties
  <2>2. Len(out) \in Nat
    BY <1>2, LenProperties
  <2> QED
    BY <1>3, <1>6, <2>1, <2>2
<1> DEFINE new == linesOf(out')
<1>8. new \in Seq(Lines) /\ Len(new) = Len(out) + Len(b) /\ \A i \in 1..(Len(out) + Len(b)) : new[i] = out'[i].line
  BY <1>7, LineTypes, LinesOfIs
<1>9. everything \in Seq(Lines) /\ Len(everything) = Len(out) /\ \A i \in 1..Len(out) : everything[i] = out[i].line
  BY <1>2, LineTypes, LinesOfIs DEF everything
<1> HIDE DEF new
<1>10. /\ everything \o b \in Seq(Lines) /\ Len(everything \o b) = Len(out) + Len(b)
       /\ \A i \in 1..(Len(out) + Len(b)) : (everything \o b)[i] = IF i <= Len(out) THEN everything[i] ELSE b[i - Len(out)]
  <2>1. /\ everything \o b \in Seq(Lines) /\ Len(everything \o b) = Len(everything) + Len(b)
        /\ \A i \in 1..(Len(everything) + Len(b)) :
             (everything \o b)[i] = IF i <= Len(everything) THEN everything[i] ELSE b[i - Len(everything)]
    BY <1>1, <1>9, LinesConcat
  <2> QED
    BY <1>9, <2>1
<1>11. \A i \in 1..(Len(out) + Len(b)) : new[i] = (everything \o b)[i]
  <2>1. SUFFICES ASSUME NEW i \in 1..(Len(out) + Len(b)) PROVE new[i] = (everything \o b)[i]
    OBVIOUS
  <2>2. CASE i <= Len(out)
    <3>1. i \in 1..Len(out)
      BY <1>7, <2>2
    <3>2. new[i] = out[i].line
      BY <1>7, <1>8, <2>2
    <3>3. (everything \o b)[i] = out[i].line
      BY <1>9, <1>10, <2>2, <3>1
    <3> QED
      BY <3>2, <3>3
  <2>3. CASE i > Len(out)
    <3>1. i - Len(out) \in 1..Len(b) /\ ~(i <= Len(out))
      BY <1>4, <1>7, <2>3
    <3>2. out'[i] = w[i - Len(out)] /\ (everything \o b)[i] = b[i - Len(out)]
      BY <1>7, <1>10, <3>1
    <3> QED
      BY <1>5, <1>8, <3>1, <3>2
  <2>4. Len(out) \in Nat /\ Len(b) \in Nat
    BY <1>4, <1>7
  <2>5. i <= Len(out) \/ i > Len(out)
    BY <2>4
  <2> QED
    BY <2>2, <2>3, <2>5
<1>12. new = everything \o b
  BY <1>8, <1>10, <1>11, SeqEqual
<1>13. entered' = (new \o <<>>) \o linesOf(ring)
  BY <1>3 DEF entered, everything, new
<1>14. new \o <<>> = new
  BY <1>8, ConcatEmptySeq
<1>15. entered' = entered
  BY <1>12, <1>13, <1>14 DEF entered
<1>16. twiceAfterRefusal => twiceAfterRefusal'
  <2>1. DOMAIN out = 1..Len(out) /\ DOMAIN out' = 1..(Len(out) + Len(b))
    BY <1>2, <1>7, LenProperties
  <2>2. SUFFICES ASSUME twiceAfterRefusal, NEW i \in 1..(Len(out) + Len(b)), out'[i].file, out'[i].fallback
                 PROVE  \E j \in 1..(Len(out) + Len(b)) : i < j /\ ~out'[j].file
    BY <2>1 DEF twiceAfterRefusal
  <2>3. CASE i <= Len(out)
    <3>1. i \in 1..Len(out) /\ out'[i] = out[i]
      BY <1>4, <1>7, <2>3
    <3>2. PICK j \in 1..Len(out) : i < j /\ ~out[j].file
      BY <2>1, <2>2, <3>1 DEF twiceAfterRefusal
    <3>3. j \in 1..(Len(out) + Len(b)) /\ out'[j] = out[j]
      BY <1>4, <1>7, <3>2
    <3> QED
      BY <3>2, <3>3
  <2>4. CASE i > Len(out)
    <3>1. i - Len(out) \in 1..Len(b) /\ ~(i <= Len(out))
      BY <1>4, <1>7, <2>4
    <3>2. out'[i] = w[i - Len(out)]
      BY <1>7, <3>1
    <3>3. i - Len(out) <= k /\ i - Len(out) <= l
      BY <1>5, <2>2, <3>1, <3>2
    <3>4. k < Len(b)
      BY <1>0, <1>4, <3>1, <3>3 DEF writeLog
    <3> DEFINE j == Len(out) + (k + 1)
    <3>5. j \in 1..(Len(out) + Len(b)) /\ i < j /\ ~(j <= Len(out)) /\ j - Len(out) = k + 1 /\ k + 1 \in 1..Len(b)
      BY <1>4, <1>7, <3>3, <3>4
    <3>6. out'[j] = w[k + 1]
      BY <1>7, <3>5
    <3>7. ~w[k + 1].file
      <4>1. ~(k + 1 <= k)
        BY <1>0, <1>4
      <4>2. w[k + 1].file = (k + 1 <= k)
        BY <1>5, <3>5, Zenon
      <4> QED
        BY <4>1, <4>2, Zenon
    <3> QED
      BY <3>5, <3>6, <3>7
  <2> QED
    BY <1>7, <2>3, <2>4
<1> QED
  BY <1>3, <1>7, <1>15, <1>16

CallerStates == [pc : {"idle", "charge", "push", "fill", "full", "wake", "poke"}, line : Lines]
LEMMA CallerTypes == LoggingTypeOK => caller \in [Callers -> CallerStates]
  BY Zenon DEF LoggingTypeOK, CallerStates

\* A caller goes on to another step with the line it has.
LEMMA CallerMoves ==
  ASSUME LoggingTypeOK, NEW c \in Callers, NEW pc \in {"idle", "charge", "push", "fill", "full", "wake", "poke"},
         callerAt(c, pc)
  PROVE  /\ caller' \in [Callers -> CallerStates]
         /\ caller'[c].pc = pc /\ caller'[c].line = caller[c].line
         /\ \A d \in Callers : d # c => caller'[d] = caller[d]
<1>1. caller \in [Callers -> CallerStates]
  BY CallerTypes
<1>2. caller' = [caller EXCEPT ![c].pc = pc]
  BY DEF callerAt
<1>3. caller[c] \in CallerStates
  BY <1>1
<1>4. [caller[c] EXCEPT !.pc = pc] \in CallerStates /\ [caller[c] EXCEPT !.pc = pc].pc = pc /\ [caller[c] EXCEPT !.pc = pc].line = caller[c].line
  BY <1>3 DEF CallerStates
<1> QED
  BY <1>1, <1>2, <1>4

\* What the types ask of a step of a caller; the flush keeps its own.
LEMMA CallersType ==
  ASSUME LoggingTypeOK, UNCHANGED <<flusher, sink, out, reported>>,
         caller' \in [Callers -> CallerStates], calls' \in 0..MaxCalls, ring' \in Seq(Slots), Len(ring') <= RingLines,
         pendingBytes' \in 0..(MaxPending + Cardinality(Callers)), droppedLog' \in Nat,
         problemQueued' \in BOOLEAN, flushNow' \in BOOLEAN
  PROVE  LoggingTypeOK'
<1>1. caller' \in [Callers -> [pc : {"idle", "charge", "push", "fill", "full", "wake", "poke"}, line : Lines]]
  BY Zenon DEF CallerStates
<1>2. ring' \in Seq([line : Lines, filled : BOOLEAN])
  BY Zenon DEF Slots
<1> QED
  BY <1>1, <1>2, Zenon DEF LoggingTypeOK

\* Nothing enters the ring and nobody gets a line in hand.
LEMMA OnceKept ==
  ASSUME LogIInv, entered' = entered, calls' = calls,
         \A c \in Callers : c \in inHand' => c \in inHand /\ caller'[c].line = caller[c].line
  PROVE  LogOnce'
<1>1. inHand' \subseteq Callers /\ inHand \subseteq Callers
  BY DEF inHand
<1> QED
  BY <1>1 DEF LogIInv, LogOnce

LEMMA Refusals ==
  ASSUME LogIInv
  PROVE  /\ Cardinality(refused) <= Cardinality(charged) /\ Cardinality(refused) \in Nat /\ Cardinality(charged) \in Nat
         /\ Cardinality(refused) <= Cardinality(Callers) /\ Cardinality(Callers) \in Nat
<1>1. refused \in SUBSET charged /\ charged \in SUBSET Callers /\ refused \in SUBSET Callers
  BY DEF refused, charged, inHand
<1>2. IsFiniteSet(charged) /\ IsFiniteSet(Callers) /\ IsFiniteSet(refused)
  BY <1>1, LoggingAssumption, FS_Subset
<1> QED
  BY <1>1, <1>2, FS_Subset, FS_CardinalityType

\* The count of pending bytes stays in its range: only a caller that was
\* refused holds bytes beyond the limit.
LEMMA PendingInRange ==
  ASSUME NEW p \in Int, NEW r \in Nat, NEW w \in Nat, NEW k \in SUBSET Callers,
         p = r + w, p <= MaxPending + Cardinality(k)
  PROVE  p \in 0..(MaxPending + Cardinality(Callers))
<1>1. Cardinality(k) <= Cardinality(Callers) /\ Cardinality(Callers) \in Nat /\ Cardinality(k) \in Nat
  BY LoggingAssumption, FS_Subset, FS_CardinalityType
<1> QED
  BY <1>1, LoggingAssumption

LEMMA EmitStep ==
  ASSUME LogIInv, NEW c \in Callers, NEW problem \in BOOLEAN, Emit(c, problem)
  PROVE  LogIInv'
<1> DEFINE r == [pc |-> "charge", line |-> [n |-> calls + 1, problem |-> problem]]
<1>1. caller[c].pc = "idle" /\ calls' = calls + 1 /\ calls \in Nat /\ calls' \in 1..MaxCalls /\ caller' = [caller EXCEPT ![c] = r]
  BY LoggingAssumption DEF Emit, LogIInv, LoggingTypeOK
<1>2. r \in CallerStates /\ r.pc = "charge" /\ r.line.n = calls + 1
  BY <1>1 DEF CallerStates, Lines
<1> HIDE DEF r
<1>3. caller \in [Callers -> CallerStates]
  BY CallerTypes DEF LogIInv
<1>4. /\ caller' \in [Callers -> CallerStates] /\ caller'[c] = r
      /\ \A d \in Callers : d # c => caller'[d] = caller[d]
  BY <1>1, <1>2, <1>3
<1>5. UNCHANGED <<ring, pendingBytes, droppedLog, problemQueued, flushNow, flusher, sink, out, reported>>
  BY DEF Emit
<1>6. entered' = entered
  BY <1>5 DEF entered, everything
<1>7. LoggingTypeOK'
  <2>1. ring' \in Seq(Slots)
    BY <1>5, Zenon DEF LogIInv, LoggingTypeOK, Slots
  <2>2. calls' \in 0..MaxCalls
    BY <1>1
  <2> QED
    BY <1>4, <1>5, <2>1, <2>2, CallersType DEF LogIInv, LoggingTypeOK
<1>8. LogCounts'
  <2>1. /\ Cardinality(inHand)' = Cardinality(inHand) + 1 /\ Cardinality(charged)' = Cardinality(charged)
        /\ Cardinality(refused)' = Cardinality(refused) /\ Cardinality(inHand) \in Nat
        /\ Cardinality(charged) \in Nat /\ Cardinality(refused) \in Nat
    BY <1>1, <1>2, <1>4, HandMoves DEF one
  <2>2. Len(entered) \in Nat /\ droppedLog \in Nat /\ reported \in Nat
    BY EnteredIs DEF LogIInv, LoggingTypeOK
  <2> QED
    BY <1>1, <1>5, <1>6, <2>1, <2>2 DEF LogIInv, LogCounts
<1>9. LogOnce'
  <2>1. \A d \in Callers : d \in inHand' => (d = c /\ caller'[d].line.n = calls + 1) \/ (d # c /\ d \in inHand /\ caller'[d].line = caller[d].line)
    BY <1>2, <1>4 DEF inHand
  <2>2. /\ \A d \in Callers : caller[d].line.n \in Nat
        /\ \A i \in DOMAIN entered : entered[i].n \in Nat
    <3>1. \A d \in Callers : caller[d].line \in Lines
      BY <1>3 DEF CallerStates
    <3>2. \A i \in DOMAIN entered : entered[i] \in Lines
      BY EnteredIs, LenProperties, ElementOfSeq DEF LogIInv
    <3>3. \A l \in Lines : l.n \in Nat
      BY DEF Lines
    <3> QED
      BY <3>1, <3>2, <3>3
  <2>3. inHand' \subseteq Callers /\ inHand \subseteq Callers
    BY DEF inHand
  <2>4. \A i \in DOMAIN entered' : entered'[i].n <= calls' /\ \A d \in inHand' : caller'[d].line.n # entered'[i].n
    BY <1>1, <1>6, <2>1, <2>2, <2>3 DEF LogIInv, LogOnce
  <2>5. \A d \in inHand' : caller'[d].line.n <= calls'
    BY <1>1, <2>1, <2>2, <2>3 DEF LogIInv, LogOnce
  <2>6. \A d, e \in inHand' : caller'[d].line.n = caller'[e].line.n => d = e
    BY <1>1, <2>1, <2>2, <2>3 DEF LogIInv, LogOnce
  <2>7. \A i, j \in DOMAIN entered' : entered'[i].n = entered'[j].n => i = j
    BY <1>6 DEF LogIInv, LogOnce
  <2> QED
    BY <2>4, <2>5, <2>6, <2>7 DEF LogOnce
<1> QED
  BY <1>7, <1>8, <1>9 DEF LogIInv

LEMMA ChargeStep ==
  ASSUME LogIInv, NEW c \in Callers, Charge(c)
  PROVE  LogIInv'
<1> DEFINE pc == IF pendingBytes + 1 > MaxPending THEN "full" ELSE "push"
<1>1. caller[c].pc = "charge" /\ pendingBytes' = pendingBytes + 1 /\ callerAt(c, pc) /\ pc \in {"full", "push"}
  BY DEF Charge
<1>2. UNCHANGED <<calls, ring, droppedLog, problemQueued, flushNow, flusher, sink, out, reported>>
  BY DEF Charge
<1>3. /\ caller' \in [Callers -> CallerStates]
      /\ caller'[c].pc = pc /\ caller'[c].line = caller[c].line
      /\ \A d \in Callers : d # c => caller'[d] = caller[d]
  BY <1>1, CallerMoves DEF LogIInv
<1>4. entered' = entered
  BY <1>2 DEF entered, everything
<1>5. pendingBytes \in Nat /\ Len(ring) \in Nat /\ MaxPending \in Nat
  BY EnteredIs, LoggingAssumption, Refusals DEF LogIInv, LoggingTypeOK
<1>6. /\ Cardinality(inHand)' = Cardinality(inHand) /\ Cardinality(charged)' = Cardinality(charged) + 1
      /\ Cardinality(refused)' = Cardinality(refused) + one(pc = "full") /\ Cardinality(inHand) \in Nat
      /\ Cardinality(charged) \in Nat /\ Cardinality(refused) \in Nat
  BY <1>1, <1>3, HandMoves DEF one
<1>7. LogCounts'
  <2>1. pendingBytes' = Len(ring') + Cardinality(charged)'
    BY <1>1, <1>2, <1>5, <1>6 DEF LogIInv, LogCounts
  <2>2. calls' = (Len(entered) + droppedLog + reported + Cardinality(inHand))'
    BY <1>2, <1>4, <1>6 DEF LogIInv, LogCounts
  <2>3. pendingBytes' <= MaxPending + Cardinality(refused)'
    <3>1. pendingBytes <= MaxPending + Cardinality(refused)
      BY DEF LogIInv, LogCounts
    <3>2. pendingBytes' = pendingBytes + 1 /\ (pendingBytes' > MaxPending => pc = "full")
      BY <1>1
    <3>3. CASE pc = "full"
      <4>1. Cardinality(refused)' = Cardinality(refused) + 1 /\ Cardinality(refused) \in Nat
        BY <1>6, <3>3 DEF one
      <4> QED
        BY <1>5, <3>1, <3>2, <4>1
    <3>4. CASE pc # "full"
      <4>1. Cardinality(refused)' \in Nat
        BY <1>6, <3>4 DEF one
      <4> QED
        BY <1>5, <3>2, <3>4, <4>1
    <3> QED
      BY <3>3, <3>4
  <2> QED
    BY <2>1, <2>2, <2>3 DEF LogCounts
<1>8. LoggingTypeOK'
  <2>1. ring' \in Seq(Slots)
    BY <1>2, Zenon DEF LogIInv, LoggingTypeOK, Slots
  <2>2. refused' \in SUBSET Callers
    BY DEF refused
  <2>3. pendingBytes' \in 0..(MaxPending + Cardinality(Callers))
    <3>1. pendingBytes' \in Int /\ Len(ring') \in Nat /\ Cardinality(charged') \in Nat
      BY <1>1, <1>2, <1>5, <1>6
    <3> QED
      BY <1>7, <2>2, <3>1, PendingInRange DEF LogCounts
  <2> QED
    BY <1>2, <1>3, <2>1, <2>3, CallersType DEF LogIInv, LoggingTypeOK
<1>9. LogOnce'
  <2>1. \A d \in Callers : d \in inHand' => d \in inHand /\ caller'[d].line = caller[d].line
    BY <1>1, <1>3 DEF inHand
  <2> QED
    BY <1>2, <1>4, <2>1, OnceKept
<1> QED
  BY <1>7, <1>8, <1>9 DEF LogIInv

\* A caller that neither charges nor gets a line: the counts that move with it.
LEMMA CallerStep ==
  ASSUME LogIInv, NEW c \in Callers, NEW pc \in {"idle", "charge", "push", "fill", "full", "wake", "poke"},
         callerAt(c, pc), UNCHANGED <<calls, flusher, sink, out, reported>>,
         caller[c].pc \in {"push", "fill", "full", "wake", "poke"},
         pc \in {"push", "full"} => caller[c].pc \in {"push", "full"}, pc # "charge"
  PROVE  /\ caller' \in [Callers -> CallerStates]
         /\ \A d \in Callers : d \in inHand' => d \in inHand /\ caller'[d].line = caller[d].line
         /\ entered' = entered => LogOnce'
         /\ Cardinality(inHand) \in Nat /\ Cardinality(charged) \in Nat /\ Cardinality(refused) \in Nat
         /\ Cardinality(inHand)' = Cardinality(inHand) + one(pc \in {"push", "full"}) - one(caller[c].pc \in {"push", "full"})
         /\ Cardinality(charged)' = Cardinality(charged) + one(pc \in {"push", "full"}) - one(caller[c].pc \in {"push", "full"})
         /\ Cardinality(refused)' = Cardinality(refused) + one(pc = "full") - one(caller[c].pc = "full")
<1>1. /\ caller' \in [Callers -> CallerStates]
      /\ caller'[c].pc = pc /\ caller'[c].line = caller[c].line
      /\ \A d \in Callers : d # c => caller'[d] = caller[d]
  BY CallerMoves DEF LogIInv
<1>2. \A d \in Callers : d \in inHand' => d \in inHand /\ caller'[d].line = caller[d].line
  BY <1>1 DEF inHand
<1>3. entered' = entered => LogOnce'
  BY <1>2, OnceKept
<1>4. /\ Cardinality(inHand) \in Nat /\ Cardinality(charged) \in Nat /\ Cardinality(refused) \in Nat
      /\ Cardinality(inHand)' = Cardinality(inHand) + one(caller'[c].pc \in {"charge", "push", "full"})
                                                    - one(caller[c].pc \in {"charge", "push", "full"})
      /\ Cardinality(charged)' = Cardinality(charged) + one(caller'[c].pc \in {"push", "full"})
                                                      - one(caller[c].pc \in {"push", "full"})
      /\ Cardinality(refused)' = Cardinality(refused) + one(caller'[c].pc = "full") - one(caller[c].pc = "full")
  BY <1>1, HandMoves
<1>5. /\ (caller'[c].pc \in {"charge", "push", "full"}) = (pc \in {"push", "full"})
      /\ (caller[c].pc \in {"charge", "push", "full"}) = (caller[c].pc \in {"push", "full"})
  BY <1>1
<1> QED
  BY <1>1, <1>2, <1>3, <1>4, <1>5

\* The state beside the counts, as numbers.
LEMMA LogNumbers ==
  ASSUME LogIInv
  PROVE  /\ pendingBytes \in Nat /\ Len(ring) \in Nat /\ MaxPending \in Nat /\ RingLines \in Nat
         /\ Len(ring) <= RingLines /\ calls \in 0..MaxCalls /\ Len(entered) \in Nat
         /\ droppedLog \in Nat /\ reported \in Nat /\ problemQueued \in BOOLEAN /\ flushNow \in BOOLEAN
         /\ pendingBytes \in 0..(MaxPending + Cardinality(Callers))
<1>1. pendingBytes \in 0..(MaxPending + Cardinality(Callers)) /\ MaxPending \in Nat /\ Cardinality(Callers) \in Nat
  BY LoggingAssumption, Refusals DEF LogIInv, LoggingTypeOK
<1>2. Len(entered) \in Nat /\ Len(ring) \in Nat
  BY EnteredIs DEF LogIInv
<1> QED
  BY <1>1, <1>2, LoggingAssumption DEF LogIInv, LoggingTypeOK

LEMMA LogSums ==
  ASSUME LogIInv
  PROVE  /\ pendingBytes = Len(ring) + Cardinality(charged)
         /\ calls = Len(entered) + droppedLog + reported + Cardinality(inHand)
         /\ pendingBytes <= MaxPending + Cardinality(refused)
  BY DEF LogIInv, LogCounts

\* A line that goes from one place to another leaves their sum alone.
LEMMA SumMoves ==
  ASSUME NEW n, NEW l \in Int, NEW d \in Int, NEW r \in Int, NEW k \in Int,
         NEW m, NEW i, NEW e, NEW s, NEW j,
         n = l + d + r + k, m = n, s = r,
         \/ i = l + 1 /\ e = d /\ j = k - 1
         \/ i = l /\ e = d + 1 /\ j = k - 1
  PROVE  m = i + e + s + j
  OBVIOUS

LEMMA RingSlots == LoggingTypeOK => ring \in Seq(Slots)
  BY Zenon DEF LoggingTypeOK, Slots

LEMMA LogPushStep ==
  ASSUME LogIInv, NEW c \in Callers, LogPush(c)
  PROVE  LogIInv'
<1>1. caller[c].pc = "push" /\ UNCHANGED <<calls, pendingBytes, droppedLog, problemQueued, flushNow, flusher, sink, out, reported>>
  BY DEF LogPush
<1>2. CASE Len(ring) < RingLines /\ callerAt(c, "fill") /\ ring' = Append(ring, [line |-> caller[c].line, filled |-> FALSE])
  <2>1. entered' = Append(entered, caller[c].line) /\ ring' \in Seq(Slots) /\ Len(ring') = Len(ring) + 1
    BY <1>1, <1>2, PushMoves DEF LogIInv
  <2>2. /\ caller' \in [Callers -> CallerStates]
        /\ \A d \in Callers : d \in inHand' => d \in inHand /\ caller'[d].line = caller[d].line
        /\ Cardinality(inHand) \in Nat /\ Cardinality(charged) \in Nat /\ Cardinality(refused) \in Nat
        /\ Cardinality(inHand)' = Cardinality(inHand) - 1
        /\ Cardinality(charged)' = Cardinality(charged) - 1
        /\ Cardinality(refused)' = Cardinality(refused)
    BY <1>1, <1>2, CallerStep DEF one
  <2>3. /\ entered \in Seq(Lines) /\ caller[c].line \in Lines
        /\ Len(entered') = Len(entered) + 1 /\ Len(entered) \in Nat
        /\ DOMAIN entered = 1..Len(entered) /\ DOMAIN entered' = 1..(Len(entered) + 1)
        /\ \A i \in 1..Len(entered) : entered'[i] = entered[i]
        /\ entered'[Len(entered) + 1] = caller[c].line
    <3>1. entered \in Seq(Lines) /\ caller[c].line \in Lines
      BY EnteredIs DEF LogIInv, LoggingTypeOK
    <3>2. entered' \in Seq(Lines) /\ Len(entered') = Len(entered) + 1
      BY <2>1, <3>1, AppendProperties
    <3> QED
      BY <2>1, <3>1, <3>2, AppendProperties, LenProperties
  <2>4. LoggingTypeOK'
    <3>1. Len(ring') <= RingLines
      BY <1>2, <2>1, LogNumbers
    <3> QED
      BY <1>1, <2>1, <2>2, <3>1, LogNumbers, CallersType DEF LogIInv
  <2>5. LogCounts'
    <3>1. pendingBytes' = Len(ring') + Cardinality(charged)'
      BY <1>1, <2>1, <2>2, LogNumbers, LogSums
    <3>2. calls' = Len(entered') + droppedLog' + reported' + Cardinality(inHand)'
      <4>1. Len(entered') = Len(entered) + 1 /\ Len(entered) \in Nat
        BY <2>3
      <4>2. calls = Len(entered) + droppedLog + reported + Cardinality(inHand)
        BY LogSums
      <4>3. calls' = calls /\ droppedLog' = droppedLog /\ reported' = reported
        BY <1>1
      <4>4. droppedLog \in Nat /\ reported \in Nat
        BY LogNumbers
      <4>5. Cardinality(inHand)' = Cardinality(inHand) - 1 /\ Cardinality(inHand) \in Nat
        BY <2>2
      <4> QED
        BY <4>1, <4>2, <4>3, <4>4, <4>5, SumMoves
    <3>3. pendingBytes' <= MaxPending + Cardinality(refused)'
      BY <1>1, <2>2, LogSums
    <3> QED
      BY <3>1, <3>2, <3>3 DEF LogCounts
  <2>6. LogOnce'
    <3>1. c \in inHand /\ inHand \subseteq Callers /\ inHand' \subseteq Callers
      BY <1>1 DEF inHand
    <3>2. c \notin inHand'
      <4>1. caller'[c].pc = "fill"
        BY <1>2, CallerMoves DEF LogIInv
      <4> QED
        BY <4>1 DEF inHand
    <3> DEFINE l == caller[c].line
               k == Len(entered)
    <3>3. \A i \in 1..k : entered[i].n # l.n /\ entered[i].n <= calls
      BY <2>3, <3>1 DEF LogIInv, LogOnce
    <3>4. l.n <= calls /\ \A d \in inHand' : caller'[d].line.n # l.n /\ caller'[d].line.n <= calls
      BY <2>2, <3>1, <3>2 DEF LogIInv, LogOnce
    <3>5. \A d, e \in inHand' : caller'[d].line.n = caller'[e].line.n => d = e
      BY <2>2, <3>1 DEF LogIInv, LogOnce
    <3>6. \A i \in 1..k, d \in inHand' : caller'[d].line.n # entered[i].n
      BY <2>2, <2>3, <3>1 DEF LogIInv, LogOnce
    <3>7. \A i, j \in 1..k : entered[i].n = entered[j].n => i = j
      BY <2>3 DEF LogIInv, LogOnce
    <3> HIDE DEF l, k
    <3>8. /\ DOMAIN entered' = 1..(k + 1) /\ k \in Nat /\ \A i \in 1..k : entered'[i] = entered[i]
          /\ entered'[k + 1] = l
      BY <2>3 DEF l, k
    <3>9. \A i \in DOMAIN entered' : i \in 1..k \/ i = k + 1
      BY <3>8
    <3>10. \A i, j \in DOMAIN entered' : entered'[i].n = entered'[j].n => i = j
      BY <3>3, <3>7, <3>8, <3>9, Zenon
    <3>11. \A i \in DOMAIN entered' : entered'[i].n <= calls /\ \A d \in inHand' : caller'[d].line.n # entered'[i].n
      BY <3>3, <3>4, <3>6, <3>8, <3>9, Zenon
    <3> QED
      BY <1>1, <3>4, <3>5, <3>10, <3>11 DEF LogOnce
  <2> QED
    BY <2>4, <2>5, <2>6 DEF LogIInv
<1>3. CASE Len(ring) = RingLines /\ callerAt(c, "full") /\ UNCHANGED ring
  <2>1. entered' = entered
    BY <1>1, <1>3 DEF entered, everything
  <2>2. /\ caller' \in [Callers -> CallerStates] /\ LogOnce'
        /\ Cardinality(inHand) \in Nat /\ Cardinality(charged) \in Nat /\ Cardinality(refused) \in Nat
        /\ Cardinality(inHand)' = Cardinality(inHand)
        /\ Cardinality(charged)' = Cardinality(charged)
        /\ Cardinality(refused)' = Cardinality(refused) + 1
    BY <1>1, <1>3, <2>1, CallerStep DEF one
  <2>3. LoggingTypeOK'
    BY <1>1, <1>3, <2>2, LogNumbers, RingSlots, CallersType DEF LogIInv
  <2>4. LogCounts'
    <3>1. pendingBytes' = Len(ring') + Cardinality(charged)'
      BY <1>1, <1>3, <2>2, LogSums
    <3>2. calls' = Len(entered') + droppedLog' + reported' + Cardinality(inHand)'
      BY <1>1, <2>1, <2>2, LogSums
    <3>3. pendingBytes' <= MaxPending + Cardinality(refused)'
      <4>1. pendingBytes' = pendingBytes /\ pendingBytes <= MaxPending + Cardinality(refused)
        BY <1>1, LogSums
      <4>2. pendingBytes \in Nat /\ MaxPending \in Nat
        BY LogNumbers
      <4>3. Cardinality(refused)' = Cardinality(refused) + 1 /\ Cardinality(refused) \in Nat
        BY <2>2
      <4> QED
        BY <4>1, <4>2, <4>3
    <3> QED
      BY <3>1, <3>2, <3>3 DEF LogCounts
  <2> QED
    BY <2>2, <2>3, <2>4 DEF LogIInv
<1> QED
  BY <1>2, <1>3 DEF LogPush

LEMMA FillStep ==
  ASSUME LogIInv, NEW c \in Callers, Fill(c)
  PROVE  LogIInv'
<1> DEFINE pc == IF caller[c].line.problem THEN "wake" ELSE "idle"
<1>1. /\ caller[c].pc = "fill" /\ callerAt(c, pc) /\ pc \in {"wake", "idle"}
      /\ UNCHANGED <<calls, pendingBytes, droppedLog, problemQueued, flushNow, flusher, sink, out, reported>>
  BY DEF Fill
<1> HIDE DEF pc
<1>2. entered' = entered /\ ring' \in Seq(Slots) /\ Len(ring') = Len(ring)
  BY FillMoves DEF LogIInv
<1>3. /\ caller' \in [Callers -> CallerStates] /\ LogOnce'
      /\ Cardinality(inHand) \in Nat /\ Cardinality(charged) \in Nat /\ Cardinality(refused) \in Nat
      /\ Cardinality(inHand)' = Cardinality(inHand)
      /\ Cardinality(charged)' = Cardinality(charged)
      /\ Cardinality(refused)' = Cardinality(refused)
  BY <1>1, <1>2, CallerStep DEF one
<1>4. LoggingTypeOK'
  BY <1>1, <1>2, <1>3, LogNumbers, CallersType DEF LogIInv
<1>5. LogCounts'
  BY <1>1, <1>2, <1>3, LogNumbers DEF LogIInv, LogCounts
<1> QED
  BY <1>3, <1>4, <1>5 DEF LogIInv

LEMMA DropStep ==
  ASSUME LogIInv, NEW c \in Callers, Drop(c)
  PROVE  LogIInv'
<1>1. /\ caller[c].pc = "full" /\ callerAt(c, "idle") /\ pendingBytes' = pendingBytes - 1 /\ droppedLog' = droppedLog + 1
      /\ UNCHANGED <<calls, ring, problemQueued, flushNow, flusher, sink, out, reported>>
  BY DEF Drop, refund
<1>2. entered' = entered
  BY <1>1 DEF entered, everything
<1>3. /\ caller' \in [Callers -> CallerStates] /\ LogOnce'
      /\ Cardinality(inHand) \in Nat /\ Cardinality(charged) \in Nat /\ Cardinality(refused) \in Nat
      /\ Cardinality(inHand)' = Cardinality(inHand) - 1
      /\ Cardinality(charged)' = Cardinality(charged) - 1
      /\ Cardinality(refused)' = Cardinality(refused) - 1
  BY <1>1, <1>2, CallerStep DEF one
<1>4. LogCounts'
  <2>0. /\ Len(entered) \in Nat /\ Len(ring) \in Nat /\ droppedLog \in Nat /\ reported \in Nat
        /\ pendingBytes \in Nat /\ MaxPending \in Nat
    BY LogNumbers
  <2>1. pendingBytes' = Len(ring') + Cardinality(charged)'
    BY <1>1, <1>3, <2>0, LogSums
  <2>2. calls' = Len(entered') + droppedLog' + reported' + Cardinality(inHand)'
    <3>1. calls = Len(entered) + droppedLog + reported + Cardinality(inHand)
      BY LogSums
    <3>2. /\ calls' = calls /\ Len(entered') = Len(entered) /\ droppedLog' = droppedLog + 1
          /\ reported' = reported
      BY <1>1, <1>2
    <3>3. Cardinality(inHand)' = Cardinality(inHand) - 1 /\ Cardinality(inHand) \in Nat
      BY <1>3
    <3> QED
      BY <2>0, <3>1, <3>2, <3>3, SumMoves
  <2>3. pendingBytes' <= MaxPending + Cardinality(refused)'
    <3>1. pendingBytes <= MaxPending + Cardinality(refused)
      BY LogSums
    <3>2. pendingBytes' = pendingBytes - 1
      BY <1>1
    <3>3. Cardinality(refused)' = Cardinality(refused) - 1 /\ Cardinality(refused) \in Nat
      BY <1>3
    <3> QED
      BY <2>0, <3>1, <3>2, <3>3
  <2> QED
    BY <2>1, <2>2, <2>3 DEF LogCounts
<1>5. LoggingTypeOK'
  <2>1. pendingBytes >= 1
    <3>1. Cardinality(charged) >= 1
      <4>1. charged \in SUBSET Callers /\ c \in charged
        BY <1>1 DEF charged, inHand
      <4>2. IsFiniteSet(charged)
        BY <4>1, LoggingAssumption, FS_Subset
      <4>3. Cardinality(charged) # 0
        BY <4>1, <4>2, FS_EmptySet
      <4>4. Cardinality(charged) \in Nat
        BY <1>3
      <4> QED
        BY <4>3, <4>4
    <3>2. pendingBytes = Len(ring) + Cardinality(charged) /\ Len(ring) \in Nat
      BY LogSums, LogNumbers
    <3>3. Cardinality(charged) \in Nat
      BY <1>3
    <3>4. PICK k \in Nat, r \in Nat : k = Cardinality(charged) /\ r = Len(ring)
      BY <3>2, <3>3, Zenon
    <3>5. k >= 1 /\ pendingBytes = r + k
      BY <3>1, <3>2, <3>4, Zenon
    <3> QED
      BY <3>5
  <2>2. pendingBytes' \in 0..(MaxPending + Cardinality(Callers)) /\ droppedLog' \in Nat
    <3>1. pendingBytes' = pendingBytes - 1 /\ droppedLog' = droppedLog + 1
      BY <1>1 DEF refund
    <3>2. /\ pendingBytes \in 0..(MaxPending + Cardinality(Callers)) /\ pendingBytes \in Nat
          /\ droppedLog \in Nat
      BY LogNumbers
    <3>3. PICK m \in Nat : m = MaxPending + Cardinality(Callers)
      BY LogNumbers, Refusals
    <3>4. pendingBytes \in 0..m
      BY <3>2, <3>3, Zenon
    <3>5. pendingBytes' \in 0..m /\ droppedLog' \in Nat
      BY <2>1, <3>1, <3>2, <3>4
    <3> QED
      BY <3>3, <3>5, Zenon
  <2> QED
    BY <1>1, <1>3, <2>2, LogNumbers, RingSlots, CallersType DEF LogIInv
<1> QED
  BY <1>3, <1>4, <1>5 DEF LogIInv

LEMMA LogWakeStep ==
  ASSUME LogIInv, NEW c \in Callers, LogWake(c)
  PROVE  LogIInv'
<1>1. PICK pc \in {"idle", "poke"} : caller[c].pc \in {"wake", "poke"} /\ callerAt(c, pc)
  BY DEF LogWake
<1>2. /\ UNCHANGED <<calls, ring, pendingBytes, droppedLog, flusher, sink, out, reported>>
      /\ problemQueued' \in BOOLEAN /\ flushNow' \in BOOLEAN
  BY LogNumbers DEF LogWake
<1>3. entered' = entered
  BY <1>2 DEF entered, everything
<1>4. /\ caller' \in [Callers -> CallerStates] /\ LogOnce'
      /\ Cardinality(inHand) \in Nat /\ Cardinality(charged) \in Nat /\ Cardinality(refused) \in Nat
      /\ Cardinality(inHand)' = Cardinality(inHand)
      /\ Cardinality(charged)' = Cardinality(charged)
      /\ Cardinality(refused)' = Cardinality(refused)
  BY <1>1, <1>2, <1>3, CallerStep DEF one
<1>5. LoggingTypeOK'
  BY <1>2, <1>4, LogNumbers, RingSlots, CallersType DEF LogIInv
<1>6. LogCounts'
  BY <1>2, <1>3, <1>4, LogNumbers DEF LogIInv, LogCounts
<1> QED
  BY <1>4, <1>5, <1>6 DEF LogIInv

\* A step of the flush: the callers keep what they hold.
FlusherStates == [pc : {"sleep", "clear", "pop", "write", "note", "switch"}, by : {"tick", "config"}, buf : Seq(Lines)]
FlushTypes ==
  /\ flusher' \in FlusherStates /\ out' \in Seq(Written) /\ ring' \in Seq(Slots) /\ Len(ring') <= RingLines
  /\ sink' \in 1..MaxSinks /\ droppedLog' \in Nat /\ reported' \in Nat
  /\ problemQueued' \in BOOLEAN /\ flushNow' \in BOOLEAN
  /\ pendingBytes' \in 0..(MaxPending + Cardinality(Callers))
FlushSums ==
  /\ droppedLog' + reported' = droppedLog + reported
  /\ pendingBytes' <= pendingBytes /\ pendingBytes' - Len(ring') = pendingBytes - Len(ring)

LEMMA FlushStep ==
  ASSUME LogIInv, FlushTypes, FlushSums, UNCHANGED <<calls, caller>>, entered' = entered
  PROVE  LogIInv'
<1>1. calls' = calls /\ caller' = caller
  OBVIOUS
<1>2. inHand' = inHand /\ charged' = charged /\ refused' = refused
  BY <1>1 DEF inHand, charged, refused
<1>3. LogOnce'
  BY <1>1, <1>2 DEF LogIInv, LogOnce
<1>4. LogCounts'
  <2>n. /\ Len(entered) \in Nat /\ Len(ring) \in Nat /\ droppedLog \in Nat /\ reported \in Nat
        /\ pendingBytes \in Nat /\ MaxPending \in Nat
    BY LogNumbers
  <2>0. pendingBytes' \in Nat
    BY LogNumbers, Refusals DEF FlushTypes
  <2>1. Len(ring') \in Nat /\ droppedLog' \in Nat /\ reported' \in Nat
    BY LenProperties DEF FlushTypes
  <2>2. Cardinality(inHand) \in Nat /\ Cardinality(refused) \in Nat /\ Cardinality(charged) \in Nat
    <3>1. inHand \in SUBSET Callers
      BY DEF inHand
    <3> QED
      BY <3>1, LoggingAssumption, FS_Subset, FS_CardinalityType, Refusals
  <2>3. pendingBytes' = Len(ring') + Cardinality(charged)
    <3>1. pendingBytes' - Len(ring') = pendingBytes - Len(ring)
      BY DEF FlushSums
    <3>2. pendingBytes = Len(ring) + Cardinality(charged)
      BY LogSums
    <3>3. PICK p \in Nat, r \in Nat, q \in Nat, t \in Nat, k \in Nat :
            /\ p = pendingBytes /\ r = Len(ring) /\ q = pendingBytes' /\ t = Len(ring')
            /\ k = Cardinality(charged)
      BY <2>0, <2>1, <2>2, <2>n, Zenon
    <3>4. q - t = p - r
      BY <3>1, <3>3, Zenon
    <3>5. p = r + k
      BY <3>2, <3>3, Zenon
    <3>6. q = t + k
      BY <3>4, <3>5
    <3> QED
      BY <3>3, <3>6, Zenon
  <2>4. calls = Len(entered) + droppedLog' + reported' + Cardinality(inHand)
    <3>1. droppedLog' + reported' = droppedLog + reported
      BY DEF FlushSums
    <3>2. calls = Len(entered) + droppedLog + reported + Cardinality(inHand)
      BY LogSums
    <3>3. PICK l \in Nat, d \in Nat, r \in Nat, k \in Nat, e \in Nat, s \in Nat :
            /\ l = Len(entered) /\ d = droppedLog /\ r = reported /\ k = Cardinality(inHand)
            /\ e = droppedLog' /\ s = reported'
      BY <2>1, <2>2, <2>n, Zenon
    <3>a. e + s = d + r
      BY <3>1, <3>3, Zenon
    <3>4. l + e + s + k = l + d + r + k
      BY <3>a
    <3>5. calls = l + d + r + k
      BY <3>2, <3>3, Zenon
    <3>6. Len(entered) + droppedLog' + reported' + Cardinality(inHand) = l + e + s + k
      BY <3>3, Zenon
    <3> QED
      BY <3>4, <3>5, <3>6, Zenon
  <2>5. pendingBytes' <= MaxPending + Cardinality(refused)
    <3>1. pendingBytes' <= pendingBytes
      BY DEF FlushSums
    <3>2. pendingBytes <= MaxPending + Cardinality(refused)
      BY LogSums
    <3>3. PICK p \in Nat, q \in Nat, m \in Nat, k \in Nat :
            p = pendingBytes /\ q = pendingBytes' /\ m = MaxPending /\ k = Cardinality(refused)
      BY <2>0, <2>2, <2>n, Zenon
    <3>4. q <= p /\ p <= m + k
      BY <3>1, <3>2, <3>3, Zenon
    <3>5. q <= m + k
      BY <3>4
    <3> QED
      BY <3>3, <3>5, Zenon
  <2> QED
    <3>1. pendingBytes' = Len(ring') + Cardinality(charged')
      BY <1>2, <2>3
    <3>2. calls' = Len(entered') + droppedLog' + reported' + Cardinality(inHand')
      BY <1>1, <1>2, <2>4
    <3>3. pendingBytes' <= MaxPending + Cardinality(refused')
      BY <1>2, <2>5
    <3> QED
      BY <3>1, <3>2, <3>3 DEF LogCounts
<1>5. LoggingTypeOK'
  <2>1. ring' \in Seq([line : Lines, filled : BOOLEAN])
        /\ out' \in Seq([to : 1..MaxSinks, line : Lines, file : BOOLEAN, fallback : BOOLEAN])
    BY Zenon DEF FlushTypes, Slots, Written
  <2>2. flusher' \in [pc : {"sleep", "clear", "pop", "write", "note", "switch"}, by : {"tick", "config"}, buf : Seq(Lines)]
    BY Zenon DEF FlushTypes, FlusherStates
  <2>3. /\ calls' \in 0..MaxCalls
        /\ caller' \in [Callers -> [pc : {"idle", "charge", "push", "fill", "full", "wake", "poke"}, line : Lines]]
    BY <1>1, Zenon DEF LogIInv, LoggingTypeOK
  <2> QED
    BY <2>1, <2>2, <2>3, Zenon DEF FlushTypes, LoggingTypeOK
<1> QED
  BY <1>3, <1>4, <1>5 DEF LogIInv

FlusherPcs == {"sleep", "clear", "pop", "write", "note", "switch"}
LEMMA FlusherTypes == LoggingTypeOK => flusher \in FlusherStates /\ out \in Seq(Written) /\ sink \in 1..MaxSinks
  BY Zenon DEF LoggingTypeOK, FlusherStates, Written

\* A step that moves the flush on and writes nothing.
LEMMA FlushGoesOn ==
  ASSUME LogIInv, UNCHANGED <<calls, caller, ring, pendingBytes, out>>, flusher' \in FlusherStates,
         flusher'.buf = flusher.buf, problemQueued' \in BOOLEAN, flushNow' \in BOOLEAN, sink' \in 1..MaxSinks,
         droppedLog' \in Nat, reported' \in Nat, droppedLog' + reported' = droppedLog + reported
  PROVE  LogIInv'
<1>1. entered' = entered
  BY DEF entered, everything
<1>2. FlushTypes
  BY LogNumbers, RingSlots, FlusherTypes DEF LogIInv, FlushTypes
<1>3. FlushSums
  BY LogNumbers DEF FlushSums
<1> QED
  BY <1>1, <1>2, <1>3, FlushStep

LEMMA FlushAtStates ==
  ASSUME LoggingTypeOK, NEW pc \in FlusherPcs
  PROVE  /\ [flusher EXCEPT !.pc = pc] \in FlusherStates
         /\ [flusher EXCEPT !.pc = pc].buf = flusher.buf
         /\ [Asleep EXCEPT !.pc = pc] \in FlusherStates /\ [Asleep EXCEPT !.pc = pc].buf = <<>>
         /\ [Asleep EXCEPT !.pc = pc, !.by = "config"] \in FlusherStates
         /\ [Asleep EXCEPT !.pc = pc, !.by = "config"].buf = <<>>
<1>1. flusher \in FlusherStates
  BY FlusherTypes
<1>2. Asleep \in FlusherStates /\ Asleep.buf = <<>>
  BY EmptySeq DEF FlusherStates, Asleep
<1> QED
  BY <1>1, <1>2 DEF FlusherStates, FlusherPcs

LEMMA FlushClearStep ==
  ASSUME LogIInv, FlushClear
  PROVE  LogIInv'
<1>1. flusher' = [flusher EXCEPT !.pc = "pop"] /\ "pop" \in FlusherPcs
  BY DEF FlushClear, flushAt, FlusherPcs
<1>2. problemQueued' \in BOOLEAN /\ UNCHANGED <<calls, caller, ring, pendingBytes, droppedLog, flushNow, sink, out, reported>>
  BY DEF FlushClear
<1>3. flusher' \in FlusherStates /\ flusher'.buf = flusher.buf
  BY <1>1, FlushAtStates DEF LogIInv
<1> QED
  BY <1>2, <1>3, LogNumbers, FlusherTypes, FlushGoesOn DEF LogIInv

LEMMA FlushNoteStep ==
  ASSUME LogIInv, FlushNote
  PROVE  LogIInv'
<1>1. PICK pc \in FlusherPcs : flusher' = [flusher EXCEPT !.pc = pc]
  BY DEF FlushNote, flushAt, FlusherPcs
<1>2. /\ reported' = reported + droppedLog /\ droppedLog' = 0
      /\ UNCHANGED <<calls, caller, ring, pendingBytes, problemQueued, flushNow, sink, out>>
  BY DEF FlushNote
<1>3. flusher' \in FlusherStates /\ flusher'.buf = flusher.buf
  BY <1>1, FlushAtStates DEF LogIInv
<1>4. droppedLog \in Nat /\ reported \in Nat /\ problemQueued \in BOOLEAN /\ flushNow \in BOOLEAN
  BY LogNumbers
<1>5. droppedLog' \in Nat /\ reported' \in Nat /\ droppedLog' + reported' = droppedLog + reported
  BY <1>2, <1>4
<1> QED
  BY <1>2, <1>3, <1>4, <1>5, FlusherTypes, FlushGoesOn DEF LogIInv

\* Outside its loop the flush holds no lines, and the streams move only from a
\* destination after which there is another one.
LogFlush ==
  /\ flusher.pc # "pop" => flusher.buf = <<>>
  /\ flusher.pc = "switch" => flusher.by = "config"
  /\ flusher.pc # "sleep" /\ flusher.by = "config" => sink < MaxSinks

LEMMA LogFlushStep ==
  ASSUME LoggingTypeOK, LogFlush, LoggingNext
  PROVE  LogFlush'
<1>1. flusher \in FlusherStates
  BY FlusherTypes
<1>2. CASE UNCHANGED <<flusher, sink>>
  BY <1>2 DEF LogFlush
<1>3. CASE FlushTick
  BY <1>3 DEF FlushTick, Asleep, LogFlush
<1>4. CASE ConfigureLogging
  BY <1>4 DEF ConfigureLogging, Asleep, LogFlush
<1>5. CASE FlushClear
  BY <1>1, <1>5 DEF FlushClear, flushAt, FlusherStates, LogFlush
<1>6. CASE FlushPop
  BY <1>1, <1>6 DEF FlushPop, FlusherStates, LogFlush
<1>7. CASE FlushWrite
  BY <1>1, <1>7 DEF FlushWrite, FlusherStates, LogFlush
<1>8. CASE FlushNote
  BY <1>1, <1>8 DEF FlushNote, flushAt, FlusherStates, LogFlush
<1>9. CASE SwitchSinks
  BY <1>1, <1>9 DEF SwitchSinks, flushAt, FlusherStates, LogFlush
<1>10. ASSUME NEW c \in Callers, Logs(c) \/ \E p \in BOOLEAN : Emit(c, p)
       PROVE  UNCHANGED <<flusher, sink>>
  BY <1>10 DEF Logs, Emit, Charge, LogPush, Fill, Drop, LogWake
<1> QED
  BY <1>2, <1>3, <1>4, <1>5, <1>6, <1>7, <1>8, <1>9, <1>10 DEF LoggingNext, Flushing

LEMMA SwitchSinksStep ==
  ASSUME LogIInv, LogFlush, SwitchSinks
  PROVE  LogIInv'
<1>1. flusher' = [flusher EXCEPT !.pc = "sleep"] /\ "sleep" \in FlusherPcs
  BY DEF SwitchSinks, flushAt, FlusherPcs
<1>2. UNCHANGED <<calls, caller, ring, pendingBytes, droppedLog, problemQueued, flushNow, out, reported>>
  BY DEF SwitchSinks
<1>3. flusher' \in FlusherStates /\ flusher'.buf = flusher.buf
  BY <1>1, FlushAtStates DEF LogIInv
<1>4. sink' \in 1..MaxSinks
  <2>1. sink \in 1..MaxSinks /\ sink < MaxSinks /\ sink' \in {sink, sink + 1} /\ MaxSinks \in Nat
    BY FlusherTypes, LoggingAssumption DEF SwitchSinks, LogFlush, LogIInv
  <2> QED
    BY <2>1
<1>5. droppedLog \in Nat /\ reported \in Nat /\ problemQueued \in BOOLEAN /\ flushNow \in BOOLEAN
  BY LogNumbers
<1> QED
  BY <1>2, <1>3, <1>4, <1>5, FlushGoesOn

\* FlushTick and ConfigureLogging start a flush.
LEMMA FlushStartStep ==
  ASSUME LogIInv, LogFlush, FlushTick \/ ConfigureLogging
  PROVE  LogIInv'
<1>1. /\ flusher.pc = "sleep"
      /\ \/ flusher' = [Asleep EXCEPT !.pc = "clear"] \/ flusher' = [Asleep EXCEPT !.pc = "clear", !.by = "config"]
      /\ UNCHANGED <<calls, caller, ring, pendingBytes, droppedLog, problemQueued, sink, out, reported>>
      /\ flushNow' \in {FALSE, flushNow} /\ "clear" \in FlusherPcs
  BY DEF FlushTick, ConfigureLogging, FlusherPcs
<1>2. flusher' \in FlusherStates /\ flusher'.buf = <<>> /\ flusher.buf = <<>>
  <2>1. flusher.buf = <<>>
    BY <1>1 DEF LogFlush
  <2> QED
    BY <1>1, <2>1, FlushAtStates DEF LogIInv
<1>3. droppedLog \in Nat /\ reported \in Nat /\ problemQueued \in BOOLEAN /\ flushNow \in BOOLEAN
  BY LogNumbers
<1> QED
  BY <1>1, <1>2, <1>3, FlusherTypes, FlushGoesOn DEF LogIInv

LEMMA FlushPopStep ==
  ASSUME LogIInv, FlushPop
  PROVE  LogIInv'
<1>1. entered' = entered /\ ring' \in Seq(Slots) /\ Len(ring') = Len(ring) - 1 /\ Len(ring) >= 1 /\ flusher'.buf \in Seq(Lines)
  BY PopMoves DEF LogIInv
<1>2. /\ flusher' = [flusher EXCEPT !.buf = Append(@, popped)] /\ pendingBytes' = pendingBytes - 1
      /\ UNCHANGED <<calls, caller, droppedLog, problemQueued, flushNow, sink, out, reported>>
  BY DEF FlushPop
<1>3. flusher \in FlusherStates /\ out \in Seq(Written) /\ sink \in 1..MaxSinks
  BY FlusherTypes DEF LogIInv
<1>4. flusher' \in FlusherStates
  BY <1>1, <1>2, <1>3 DEF FlusherStates
<1>5. /\ pendingBytes \in Nat /\ Len(ring) \in Nat /\ droppedLog \in Nat /\ reported \in Nat /\ RingLines \in Nat
      /\ Len(ring) <= RingLines /\ problemQueued \in BOOLEAN /\ flushNow \in BOOLEAN
      /\ pendingBytes \in 0..(MaxPending + Cardinality(Callers)) /\ MaxPending \in Nat
  BY LogNumbers
<1>6. pendingBytes >= 1
  <2>1. pendingBytes = Len(ring) + Cardinality(charged) /\ Cardinality(charged) \in Nat
    BY LogSums, Refusals
  <2> QED
    BY <1>1, <1>5, <2>1
<1>7. pendingBytes' \in 0..(MaxPending + Cardinality(Callers))
  BY <1>2, <1>5, <1>6, Refusals
<1>8. FlushTypes
  BY <1>1, <1>2, <1>3, <1>4, <1>5, <1>7 DEF FlushTypes
<1>9. FlushSums
  BY <1>1, <1>2, <1>5 DEF FlushSums
<1> QED
  BY <1>1, <1>2, <1>8, <1>9, FlushStep

LEMMA FlushWriteStep ==
  ASSUME LogIInv, FlushWrite
  PROVE  LogIInv'
<1>1. entered' = entered /\ out' \in Seq(Written) /\ flusher'.buf = <<>>
  BY WriteMoves DEF LogIInv
<1>2. PICK pc \in FlusherPcs : flusher' = [flusher EXCEPT !.buf = <<>>, !.pc = pc]
  BY DEF FlushWrite, FlusherPcs
<1>3. UNCHANGED <<calls, caller, ring, pendingBytes, droppedLog, problemQueued, flushNow, sink, reported>>
  BY DEF FlushWrite
<1>4. flusher' \in FlusherStates
  <2>1. flusher \in FlusherStates /\ <<>> \in Seq(Lines)
    BY FlusherTypes, EmptySeq DEF LogIInv
  <2> QED
    BY <1>2, <2>1 DEF FlusherStates, FlusherPcs
<1>5. FlushTypes
  BY <1>1, <1>3, <1>4, LogNumbers, RingSlots, FlusherTypes DEF LogIInv, FlushTypes
<1>6. FlushSums
  BY <1>3, LogNumbers DEF FlushSums
<1> QED
  BY <1>1, <1>3, <1>5, <1>6, FlushStep

LEMMA LogInitInv ==
  ASSUME LoggingInit
  PROVE  LogIInv /\ LogFlush
<1>1. /\ out = <<>> /\ ring = <<>> /\ flusher.buf = <<>> /\ flusher.pc = "sleep"
      /\ calls = 0 /\ pendingBytes = 0 /\ droppedLog = 0 /\ reported = 0 /\ \A c \in Callers : caller[c].pc = "idle"
  BY DEF LoggingInit, Asleep, Quiet
<1>2. inHand = {} /\ charged = {} /\ refused = {}
  BY <1>1 DEF inHand, charged, refused
<1>3. entered = <<>>
  <2>1. linesOf(<<>>) = <<>>
    BY DEF linesOf
  <2> QED
    BY <1>1, <2>1 DEF entered, everything
<1>4. Cardinality({}) = 0
  BY FS_EmptySet
<1>5. LogCounts
  <2>1. MaxPending \in Nat
    BY LoggingAssumption
  <2> QED
    BY <1>1, <1>2, <1>3, <1>4, <2>1 DEF LogCounts
<1>6. LogOnce
  BY <1>2, <1>3 DEF LogOnce
<1>7. LogFlush
  BY <1>1 DEF LogFlush
<1>8. LoggingTypeOK
  <2>1. calls \in 0..MaxCalls /\ sink \in 1..MaxSinks /\ pendingBytes \in 0..(MaxPending + Cardinality(Callers))
    <3>1. Cardinality(Callers) \in Nat
      BY LoggingAssumption, FS_CardinalityType
    <3> QED
      BY <3>1, LoggingAssumption DEF LoggingInit
  <2>2. flusher \in FlusherStates
    BY EmptySeq DEF LoggingInit, Asleep, FlusherStates
  <2>3. caller \in [Callers -> CallerStates]
    <3>1. Quiet \in CallerStates
      BY LoggingAssumption DEF Quiet, CallerStates, Lines
    <3> QED
      BY <3>1 DEF LoggingInit
  <2>4. ring \in Seq([line : Lines, filled : BOOLEAN])
        /\ out \in Seq([to : 1..MaxSinks, line : Lines, file : BOOLEAN, fallback : BOOLEAN])
    BY <1>1, EmptySeq, Zenon
  <2>5. Len(ring) <= RingLines /\ droppedLog \in Nat /\ reported \in Nat
    BY <1>1, LoggingAssumption
  <2>6. problemQueued \in BOOLEAN /\ flushNow \in BOOLEAN
    BY DEF LoggingInit
  <2> QED
    BY <2>1, <2>2, <2>3, <2>4, <2>5, <2>6, Zenon DEF LoggingTypeOK, FlusherStates, CallerStates
<1> QED
  BY <1>5, <1>6, <1>7, <1>8 DEF LogIInv

LEMMA LogInductive ==
  LoggingInit /\ [][LoggingNext]_loggingVars => [](LogIInv /\ LogFlush)
<1>1. LogIInv /\ LogFlush /\ [LoggingNext]_loggingVars => (LogIInv /\ LogFlush)'
  <2>1. SUFFICES ASSUME LogIInv, LogFlush, [LoggingNext]_loggingVars PROVE LogIInv' /\ LogFlush'
    OBVIOUS
  <2>2. CASE UNCHANGED loggingVars
    <3>1. UNCHANGED <<calls, caller, ring, pendingBytes, out, flusher, sink, problemQueued, flushNow, droppedLog, reported>>
      BY <2>2 DEF loggingVars
    <3>2. flusher \in FlusherStates /\ sink \in 1..MaxSinks
      BY <2>1, FlusherTypes DEF LogIInv
    <3>3. droppedLog \in Nat /\ reported \in Nat /\ problemQueued \in BOOLEAN /\ flushNow \in BOOLEAN
      BY <2>1, LogNumbers
    <3>4. LogIInv'
      BY <2>1, <3>1, <3>2, <3>3, FlushGoesOn
    <3> QED
      BY <2>1, <3>1, <3>4 DEF LogFlush
  <2>3. CASE LoggingNext
    <3>1. LogFlush'
      BY <2>1, <2>3, LogFlushStep DEF LogIInv
    <3>2. LogIInv'
      BY <2>1, <2>3, EmitStep, ChargeStep, LogPushStep, FillStep, DropStep, LogWakeStep, FlushStartStep, FlushClearStep,
        FlushPopStep, FlushWriteStep, FlushNoteStep, SwitchSinksStep DEF LoggingNext, Logs, Flushing
    <3> QED
      BY <3>1, <3>2
  <2> QED
    BY <2>1, <2>2, <2>3
<1> QED
  BY <1>1, LogInitInv, PTL

\* The callers, the ring, the flush and what was written keep their types, and
\* pending bytes beyond the limit are those of callers that were refused.
THEOREM LoggingTypesHold == LoggingSpec => []LoggingTypeOK
  BY LogInductive, PTL DEF LogIInv, LoggingSpec

LEMMA EverythingOnce ==
  ASSUME LogIInv
  PROVE  Cardinality(Range(everything)) = Len(everything)
<1>1. /\ everything \in Seq(Lines) /\ Len(everything) \in Nat /\ DOMAIN everything = 1..Len(everything)
      /\ \A i \in 1..Len(everything) : entered[i] = everything[i]
      /\ \A i \in 1..Len(everything) : i \in DOMAIN entered
  <2>1. /\ everything \in Seq(Lines) /\ Len(everything) \in Nat /\ entered \in Seq(Lines)
        /\ Len(entered) = Len(everything) + Len(flusher.buf) + Len(ring)
        /\ Len(flusher.buf) \in Nat /\ Len(ring) \in Nat
        /\ \A i \in 1..Len(everything) : entered[i] = everything[i]
    BY EnteredIs DEF LogIInv
  <2>2. DOMAIN everything = 1..Len(everything) /\ DOMAIN entered = 1..Len(entered)
    BY <2>1, LenProperties
  <2> QED
    BY <2>1, <2>2
<1>2. \A i, j \in 1..Len(everything) : everything[i] = everything[j] => i = j
  BY <1>1 DEF LogIInv, LogOnce
<1>3. everything \in Bijection(1..Len(everything), Range(everything))
  <2> DEFINE n == Len(everything)
             R == Range(everything)
  <2>1. R = {everything[i] : i \in 1..n}
    BY <1>1 DEF Range
  <2>2. everything \in [1..n -> Lines]
    BY <1>1, LenProperties
  <2> HIDE DEF n, R
  <2>3. everything \in [1..n -> R]
    <3>1. \A i \in 1..n : everything[i] \in R
      BY <2>1
    <3>2. everything = [i \in 1..n |-> everything[i]]
      BY <2>2
    <3> QED
      BY <3>1, <3>2, Zenon
  <2>4. everything \in Injection(1..n, R)
    <3>1. \A i, j \in 1..n : everything[i] = everything[j] => i = j
      BY <1>2 DEF n
    <3> QED
      BY <2>3, <3>1 DEF Injection, IsInjective
  <2>5. everything \in Surjection(1..n, R)
    BY <2>1, <2>3 DEF Surjection
  <2> QED
    BY <2>4, <2>5 DEF Bijection, n, R
<1>4. ExistsBijection(1..Len(everything), Range(everything))
  BY <1>3 DEF ExistsBijection
<1>5. IsFiniteSet(1..Len(everything)) /\ Cardinality(1..Len(everything)) = Len(everything)
  <2>1. PICK m \in Nat : m = Len(everything)
    BY <1>1, LenProperties
  <2>2. 1 \in Int /\ m \in Int
    OBVIOUS
  <2>3. IsFiniteSet(1..m) /\ Cardinality(1..m) = IF 1 > m THEN 0 ELSE m - 1 + 1
    BY <2>2, FS_Interval, Zenon
  <2>4. Cardinality(1..m) = m
    BY <2>3
  <2> QED
    BY <2>1, <2>3, <2>4, Zenon
<1> QED
  BY <1>4, <1>5, FS_Bijection

\* Only a write adds to what was handed over.
LEMMA TwiceInductive ==
  LoggingInit /\ [][LoggingNext]_loggingVars => []twiceAfterRefusal
<1>1. LoggingInit => twiceAfterRefusal
  BY DEF LoggingInit, twiceAfterRefusal
<1>2. LogIInv /\ twiceAfterRefusal /\ [LoggingNext]_loggingVars => twiceAfterRefusal'
  <2>1. SUFFICES ASSUME LogIInv, twiceAfterRefusal, [LoggingNext]_loggingVars PROVE twiceAfterRefusal'
    OBVIOUS
  <2>2. CASE FlushWrite
    BY <2>1, <2>2, WriteMoves DEF LogIInv
  <2>3. ASSUME NEW c \in Callers, Logs(c) \/ \E p \in BOOLEAN : Emit(c, p) PROVE UNCHANGED out
    BY <2>3 DEF Logs, Charge, LogPush, Fill, Drop, LogWake, Emit
  <2>4. CASE FlushClear \/ FlushPop \/ FlushNote \/ SwitchSinks \/ FlushTick \/ ConfigureLogging
    BY <2>1, <2>4 DEF FlushClear, FlushPop, FlushNote, SwitchSinks, FlushTick, ConfigureLogging, twiceAfterRefusal
  <2>5. CASE UNCHANGED out
    BY <2>1, <2>5 DEF twiceAfterRefusal
  <2> QED
    BY <2>1, <2>2, <2>3, <2>4, <2>5 DEF LoggingNext, Flushing, loggingVars
<1> QED
  BY <1>1, <1>2, LogInductive, PTL

LEMMA LogSafe ==
  LoggingInit /\ [][LoggingNext]_loggingVars => [](LoggingTypeOK /\ LinesAccounted)
<1>1. ASSUME LogIInv, twiceAfterRefusal PROVE LinesAccounted
  <2>1. charged = {c \in inHand : caller[c].pc # "charge"}
    BY DEF charged
  <2>2. Len(entered) = Len(everything) + Len(flusher.buf) + Len(ring)
    BY <1>1, EnteredIs DEF LogIInv
  <2> QED
    BY <1>1, <2>1, <2>2, LogSums, EverythingOnce DEF LinesAccounted
<1> QED
  BY <1>1, LogInductive, TwiceInductive, PTL DEF LogIInv

\* Every line logged is in its caller's hand, in the ring, in the flush's
\* buffer, handed to its destination exactly once, or counted as dropped, and the
\* count of pending bytes is that of the lines pending; a line is in the file and
\* in the fallback only where the file refused a later one (logx.go).  For any
\* number of callers, lines and destinations, any writes that fail, and any sizes
\* of the ring and of what may wait.
THEOREM EveryLineIsAccounted == LoggingSpec => []LinesAccounted
  BY LogSafe, PTL DEF LoggingSpec

LEMMA PrefixOfAppend ==
  ASSUME NEW s \in Seq(Lines), NEW l \in Lines
  PROVE  IsPrefix(s, s) /\ IsPrefix(s, Append(s, l))
<1>1. /\ Append(s, l) \in Seq(Lines) /\ Len(Append(s, l)) = Len(s) + 1 /\ Len(s) \in Nat
      /\ \A i \in 1..Len(s) : Append(s, l)[i] = s[i]
  BY AppendProperties, LenProperties
<1>2. SubSeq(s, 1, Len(s)) = SubSeq(Append(s, l), 1, Len(s))
  <2> DEFINE t == Append(s, l)
  <2>1. \A i \in 1..Len(s) : s[i] \in Lines /\ t[i] \in Lines /\ t[i] = s[i]
    BY <1>1, ElementOfSeq
  <2> HIDE DEF t
  <2>2. /\ SubSeq(s, 1, Len(s)) \in Seq(Lines) /\ Len(SubSeq(s, 1, Len(s))) = Len(s)
        /\ \A i \in 1..Len(s) : SubSeq(s, 1, Len(s))[i] = s[i]
    BY <1>1, <2>1, SubSeqProperties
  <2>3. /\ SubSeq(t, 1, Len(s)) \in Seq(Lines) /\ Len(SubSeq(t, 1, Len(s))) = Len(s)
        /\ \A i \in 1..Len(s) : SubSeq(t, 1, Len(s))[i] = t[i]
    BY <1>1, <2>1, SubSeqProperties
  <2>4. SubSeq(s, 1, Len(s)) = SubSeq(t, 1, Len(s))
    BY <2>1, <2>2, <2>3, SeqEqual
  <2> QED
    BY <2>4 DEF t
<1> QED
  BY <1>1, <1>2 DEF IsPrefix

LEMMA PlaceKept ==
  LoggingInit /\ [][LoggingNext]_loggingVars => InRingOrder
<1>1. ASSUME LogIInv, LogFlush, [LoggingNext]_loggingVars
      PROVE  IsPrefix(entered, entered') \/ entered' = entered
  <2>1. entered \in Seq(Lines)
    BY <1>1, EnteredIs DEF LogIInv
  <2>2. ASSUME NEW c \in Callers, LogPush(c) PROVE IsPrefix(entered, entered') \/ entered' = entered
    <3>1. CASE ring' = Append(ring, [line |-> caller[c].line, filled |-> FALSE])
      <4>1. UNCHANGED <<out, flusher>> /\ caller[c].line \in Lines
        BY <1>1, <2>2 DEF LogPush, LogIInv, LoggingTypeOK
      <4> QED
        BY <1>1, <2>1, <3>1, <4>1, PushMoves, PrefixOfAppend DEF LogIInv
    <3>2. CASE UNCHANGED ring
      BY <2>2, <3>2 DEF LogPush, entered, everything
    <3> QED
      BY <2>2, <3>1, <3>2 DEF LogPush
  <2>3. ASSUME NEW c \in Callers, Fill(c) PROVE entered' = entered
    BY <1>1, <2>3, FillMoves DEF LogIInv
  <2>4. ASSUME UNCHANGED <<out, flusher, ring>> PROVE entered' = entered
    BY <2>4 DEF entered, everything
  <2>5. ASSUME NEW c \in Callers, Charge(c) \/ Drop(c) \/ LogWake(c) \/ \E p \in BOOLEAN : Emit(c, p)
        PROVE  UNCHANGED <<out, flusher, ring>>
    BY <2>5 DEF Charge, Drop, LogWake, Emit
  <2>6. CASE FlushPop
    BY <1>1, <2>6, PopMoves DEF LogIInv
  <2>7. CASE FlushWrite
    BY <1>1, <2>7, WriteMoves DEF LogIInv
  <2>8. ASSUME UNCHANGED <<out, ring>>, flusher'.buf = flusher.buf PROVE entered' = entered
    BY <2>8 DEF entered, everything
  <2>9. CASE FlushTick \/ ConfigureLogging
    <3>1. flusher.buf = <<>>
      BY <1>1, <2>9 DEF FlushTick, ConfigureLogging, LogFlush
    <3>2. flusher'.buf = <<>> /\ UNCHANGED <<out, ring>>
      BY <2>9 DEF FlushTick, ConfigureLogging, Asleep
    <3> QED
      BY <2>8, <3>1, <3>2
  <2>10. CASE FlushClear \/ FlushNote \/ SwitchSinks
    <3>1. flusher \in FlusherStates
      BY <1>1, FlusherTypes DEF LogIInv
    <3>2. flusher'.buf = flusher.buf /\ UNCHANGED <<out, ring>>
      BY <2>10, <3>1 DEF FlushClear, FlushNote, SwitchSinks, flushAt, FlusherStates
    <3> QED
      BY <2>8, <3>2
  <2>11. CASE UNCHANGED loggingVars
    BY <2>4, <2>11 DEF loggingVars
  <2> QED
    BY <1>1, <2>2, <2>3, <2>4, <2>5, <2>6, <2>7, <2>9, <2>10, <2>11 DEF LoggingNext, Logs, Flushing
<1>2. ASSUME LogIInv, LogFlush, [LoggingNext]_loggingVars PROVE [IsPrefix(entered, entered')]_loggingVars
  <2>1. entered \in Seq(Lines)
    BY <1>2, EnteredIs DEF LogIInv
  <2>2. IsPrefix(entered, entered)
    BY <2>1 DEF IsPrefix
  <2> QED
    BY <1>1, <1>2, <2>2
<1> QED
  BY <1>2, LogInductive, PTL DEF InRingOrder

\* What has entered the ring keeps its place up to its destination: a step adds
\* at most one line, at the end (logQueue's claim of a slot), and neither a
\* flush that stops half way nor a change of destination moves a line.
THEOREM LinesKeepTheirPlace == LoggingSpec => InRingOrder
  BY PlaceKept, PTL DEF LoggingSpec

-----------------------------------------------------------------------------
(* The rotated file *)

Forms == 1..2
FileGens == [Generations -> [plain : Files, gz : Files]]
fileIn(g, n, k) == IF k = 1 THEN g[n].plain ELSE g[n].gz

\* f is of a lower generation than g: the same file, or all of g is older.
Newer(f, g) == f # Absent /\ g # Absent => f = g \/ \A a \in Range(f), b \in Range(g) : b < a

Twins(f, g) == f # Absent /\ g # Absent => f = g

\* The order of the whole: lines so far, the live file, the generations,
\* and the two forms of one.
InOrder(l, lv, g) ==
  /\ \A a \in inFile(lv) : a <= l
  /\ \A n \in Generations, k \in Forms : \A b \in inFile(fileIn(g, n, k)) : b <= l /\ \A a \in inFile(lv) : b < a
  /\ \A m, n \in Generations, j, k \in Forms : m < n => Newer(fileIn(g, m, j), fileIn(g, n, k))
  /\ \A n \in Generations : Twins(fileIn(g, n, 1), fileIn(g, n, 2))

\* Where the writer is: the place above the file it moves is free, and so is
\* what it has moved.
Rotating ==
  /\ writer.pc # "idle" => gzip = NoGzip /\ lines < MaxLines
  /\ writer.pc \in {"shift", "move"} => live # Absent
  /\ writer.pc = "open" => live = Absent
  /\ writer.pc = "shift" =>
       /\ writer.n \in Generations
       /\ writer.n < MaxKeep => fileIn(gens, writer.n + 1, writer.k) = Absent /\ fileIn(gens, writer.n + 1, 2) = Absent
       /\ writer.k = 2 => fileIn(gens, writer.n, 1) = Absent
       /\ writer.k = 2 /\ writer.n < MaxKeep => Twins(fileIn(gens, writer.n + 1, 1), fileIn(gens, writer.n, 2))
  /\ writer.pc = "move" => \A k \in Forms : fileIn(gens, 1, k) = Absent

\* The compressor removes a file when the other form holds it.
Compressing ==
  /\ gzip # NoGzip => gzip.n \in Generations
  /\ gzip.done => gzip.n \in Generations /\ fileIn(gens, gzip.n, 1) # Absent /\ fileIn(gens, gzip.n, 2) = fileIn(gens, gzip.n, 1)

\* Where nothing is kept there is never a generation.
NoneKept == MaxKeep = 0 => \A n \in Generations, k \in Forms : fileIn(gens, n, k) = Absent

FilesInv == LogFileTypeOK /\ InOrder(lines, live, gens) /\ Rotating /\ Compressing
FileIInv == FilesInv /\ NoneKept

\* Nothing written is lost by a step but from the oldest generation, or with
\* the live file when none is kept.
Stays(lv, g, lv2, g2) ==
  /\ \A a \in inFile(lv) : a \in inFile(lv2) \/ (MaxKeep = 0 /\ writer.pc = "move") \/ \E n \in Generations, k \in Forms : a \in inFile(fileIn(g2, n, k))
  /\ \A n \in Generations, k \in Forms :
       (n = MaxKeep /\ MaxKeep # 0) \/ fileIn(g, n, k) = Absent \/ \E m \in Generations, j \in Forms : fileIn(g2, m, j) = fileIn(g, n, k)

LEMMA FileInGens ==
  ASSUME NEW g \in FileGens, NEW n \in Generations, NEW k \in Forms
  PROVE  fileIn(g, n, k) \in Files
  BY DEF FileGens, fileIn

LEMMA PutFileIn ==
  ASSUME NEW g \in FileGens, NEW n \in Generations, NEW k \in Forms, NEW f \in Files
  PROVE  /\ putFile(g, n, k, f) \in FileGens
         /\ \A m \in Generations, j \in Forms :
              fileIn(putFile(g, n, k, f), m, j) = IF m = n /\ j = k THEN f ELSE fileIn(g, m, j)
<1>1. CASE k = 1
  <2>1. putFile(g, n, k, f) = [g EXCEPT ![n].plain = f]
    BY <1>1 DEF putFile
  <2>2. [g EXCEPT ![n].plain = f] \in FileGens
    BY DEF FileGens
  <2>3. ASSUME NEW m \in Generations, NEW j \in Forms
        PROVE  fileIn([g EXCEPT ![n].plain = f], m, j) = IF m = n /\ j = 1 THEN f ELSE fileIn(g, m, j)
    BY DEF FileGens, fileIn
  <2> QED
    BY <1>1, <2>1, <2>2, <2>3
<1>2. CASE k = 2
  <2>1. putFile(g, n, k, f) = [g EXCEPT ![n].gz = f]
    BY <1>2 DEF putFile
  <2>2. [g EXCEPT ![n].gz = f] \in FileGens
    BY DEF FileGens
  <2>3. ASSUME NEW m \in Generations, NEW j \in Forms
        PROVE  fileIn([g EXCEPT ![n].gz = f], m, j) = IF m = n /\ j = 2 THEN f ELSE fileIn(g, m, j)
    <3>1. j = 1 \/ j = 2
      BY DEF Forms
    <3> QED
      BY <3>1 DEF FileGens, fileIn
  <2> QED
    BY <1>2, <2>1, <2>2, <2>3
<1> QED
  BY <1>1, <1>2 DEF Forms

LEMMA LinesOfFile ==
  ASSUME NEW f \in Files
  PROVE  inFile(f) \subseteq 1..MaxLines /\ (f # Absent => f \in Seq(1..MaxLines) /\ inFile(f) = Range(f))
<1>1. CASE f = Absent
  BY <1>1 DEF inFile
<1>2. CASE f # Absent
  <2>1. f \in Seq(1..MaxLines)
    BY <1>2 DEF Files
  <2>3. Range(f) \subseteq 1..MaxLines
    BY <2>1, RangeOfSeq
  <2> QED
    BY <1>2, <2>1, <2>3 DEF inFile
<1> QED
  BY <1>1, <1>2

\* A line appended is the newest of its file.
LEMMA AppendedLine ==
  ASSUME NEW f \in Seq(1..MaxLines), NEW l \in 1..MaxLines
  PROVE  /\ Append(f, l) \in Files /\ Append(f, l) # Absent
         /\ inFile(Append(f, l)) = inFile(f) \cup {l}
<1>1. Append(f, l) \in Seq(1..MaxLines)
  OBVIOUS
<1>2. f # Absent /\ Append(f, l) # Absent
  BY <1>1, LogFileAssumption
<1>3. Range(Append(f, l)) = Range(f) \cup {l}
  BY DEF Range
<1> QED
  BY <1>1, <1>2, <1>3 DEF inFile, Files

LEMMA EmptyFile ==
  <<>> \in Files /\ <<>> # Absent /\ inFile(<<>>) = {}
<1>1. <<>> \in Seq(1..MaxLines)
  OBVIOUS
<1>2. Range(<<>>) = {}
  BY DEF Range
<1> QED
  BY <1>1, <1>2, LogFileAssumption DEF Files, inFile

-----------------------------------------------------------------------------
(* What the steps do to the order *)

\* A file moves up by one generation, to a free place.
-----------------------------------------------------------------------------
(* What the steps do to the order *)

LEMMA EmptiedKeepsOrder ==
  ASSUME NEW l, NEW lv, NEW g, NEW h, NEW n \in Generations, NEW k \in Forms, InOrder(l, lv, g),
         \A m \in Generations, j \in Forms : fileIn(h, m, j) = IF m = n /\ j = k THEN Absent ELSE fileIn(g, m, j)
  PROVE  InOrder(l, lv, h)
<1>1. 1 \in Forms /\ 2 \in Forms /\ inFile(Absent) = {}
  BY DEF Forms, inFile
<1>2. \A m \in Generations, j \in Forms : fileIn(h, m, j) \in {Absent, fileIn(g, m, j)}
  OBVIOUS
<1>3. \A m \in Generations, j \in Forms : \A b \in inFile(fileIn(h, m, j)) : b <= l /\ \A a \in inFile(lv) : b < a
  BY <1>1, <1>2 DEF InOrder
<1>4. \A m, p \in Generations, j, i \in Forms : m < p => Newer(fileIn(h, m, j), fileIn(h, p, i))
  BY <1>2 DEF InOrder, Newer
<1>5. \A m \in Generations : Twins(fileIn(h, m, 1), fileIn(h, m, 2))
  BY <1>1, <1>2 DEF InOrder, Twins
<1> QED
  BY <1>3, <1>4, <1>5 DEF InOrder

\* A file moves up by one generation, to a free place.
LEMMA MovedUpKeepsOrder ==
  ASSUME NEW l, NEW lv, NEW g, NEW h, NEW n \in Generations, NEW k \in Forms, InOrder(l, lv, g),
         n + 1 \in Generations, fileIn(g, n + 1, k) = Absent, fileIn(g, n + 1, 2) = Absent,
         k = 2 => fileIn(g, n, 1) = Absent /\ Twins(fileIn(g, n + 1, 1), fileIn(g, n, 2)),
         \A m \in Generations, j \in Forms :
           fileIn(h, m, j) = IF m = n + 1 /\ j = k THEN fileIn(g, n, k)
                             ELSE IF m = n /\ j = k THEN Absent ELSE fileIn(g, m, j)
  PROVE  InOrder(l, lv, h)
<1>0. 1 \in Forms /\ 2 \in Forms /\ inFile(Absent) = {} /\ n + 1 # n /\ n \in Nat
  BY LogFileAssumption DEF Forms, inFile, Generations
<1>k. k = 1 \/ k = 2
  BY DEF Forms
<1>1. \A m \in Generations, j \in Forms : fileIn(h, m, j) \in {Absent, fileIn(g, m, j), fileIn(g, n, k)}
  OBVIOUS
<1>2. \A m \in Generations, j \in Forms : \A b \in inFile(fileIn(h, m, j)) : b <= l /\ \A a \in inFile(lv) : b < a
  BY <1>0, <1>1 DEF InOrder
<1>3. \A m, p \in Generations, j, i \in Forms : m < p => Newer(fileIn(h, m, j), fileIn(h, p, i))
  <2>1. SUFFICES ASSUME NEW m \in Generations, NEW p \in Generations, NEW j \in Forms, NEW i \in Forms, m < p,
                        fileIn(h, m, j) # Absent, fileIn(h, p, i) # Absent
                 PROVE  Newer(fileIn(h, m, j), fileIn(h, p, i))
    BY DEF Newer
  <2>2. m \in Nat /\ p \in Nat
    BY LogFileAssumption DEF Generations
  <2>3. CASE p = n + 1 /\ i = k
    <3>1. fileIn(h, p, i) = fileIn(g, n, k)
      BY <2>3
    <3>2. m <= n
      BY <1>0, <2>1, <2>2, <2>3
    <3>3. fileIn(h, m, j) = fileIn(g, m, j) /\ (m # n \/ j # k)
      BY <1>0, <2>1, <3>2, <2>2
    <3>4. CASE m = n
      <4>1. j # k
        BY <3>3, <3>4
      <4>2. CASE k = 1
        <5>1. j = 2
          BY <4>1, <4>2 DEF Forms
        <5> QED
          BY <2>1, <3>1, <3>3, <3>4, <4>2, <5>1 DEF InOrder, Twins, Newer
      <4>3. CASE k = 2
        <5>1. j = 1
          BY <4>1, <4>3 DEF Forms
        <5> QED
          BY <2>1, <3>3, <3>4, <4>3, <5>1
      <4> QED
        BY <1>k, <4>2, <4>3
    <3>5. CASE m # n
      BY <1>0, <2>2, <3>1, <3>2, <3>3, <3>5 DEF InOrder
    <3> QED
      BY <3>4, <3>5
  <2>4. CASE m = n + 1 /\ j = k
    <3>1. fileIn(h, m, j) = fileIn(g, n, k)
      BY <2>4
    <3>2. n < p /\ fileIn(h, p, i) = fileIn(g, p, i)
      BY <1>0, <2>1, <2>2, <2>4
    <3> QED
      BY <3>1, <3>2 DEF InOrder
  <2>5. CASE ~(p = n + 1 /\ i = k) /\ ~(m = n + 1 /\ j = k)
    <3>1. fileIn(h, m, j) = fileIn(g, m, j) /\ fileIn(h, p, i) = fileIn(g, p, i)
      BY <2>1, <2>5
    <3> QED
      BY <2>1, <3>1 DEF InOrder
  <2> QED
    BY <2>3, <2>4, <2>5
<1>4. \A m \in Generations : Twins(fileIn(h, m, 1), fileIn(h, m, 2))
  <2>1. SUFFICES ASSUME NEW m \in Generations PROVE Twins(fileIn(h, m, 1), fileIn(h, m, 2))
    OBVIOUS
  <2>2. CASE m = n + 1
    <3>1. CASE k = 1
      <4>1. fileIn(h, m, 2) = Absent
        BY <1>0, <2>2, <3>1
      <4> QED
        BY <4>1 DEF Twins
    <3>2. CASE k = 2
      <4>1. fileIn(h, m, 2) = fileIn(g, n, 2) /\ fileIn(h, m, 1) = fileIn(g, n + 1, 1)
        BY <1>0, <2>2, <3>2
      <4> QED
        BY <3>2, <4>1
    <3> QED
      BY <1>k, <3>1, <3>2
  <2>3. CASE m # n + 1
    <3>1. fileIn(h, m, 1) \in {Absent, fileIn(g, m, 1)} /\ fileIn(h, m, 2) \in {Absent, fileIn(g, m, 2)}
      BY <1>0, <2>3
    <3> QED
      BY <3>1 DEF InOrder, Twins
  <2> QED
    BY <2>2, <2>3
<1> QED
  BY <1>2, <1>3, <1>4 DEF InOrder

\* The live file becomes generation 1.
LEMMA MovedLiveKeepsOrder ==
  ASSUME NEW l, NEW lv, NEW g, NEW h, InOrder(l, lv, g), lv # Absent, inFile(lv) = Range(lv),
         \A k \in Forms : fileIn(g, 1, k) = Absent,
         \A f : f # Absent => inFile(f) = Range(f),
         \A m \in Generations, j \in Forms : fileIn(h, m, j) = IF m = 1 /\ j = 1 THEN lv ELSE fileIn(g, m, j)
  PROVE  InOrder(l, Absent, h)
<1>0. 1 \in Forms /\ 2 \in Forms /\ inFile(Absent) = {} /\ 1 \in Generations
  BY LogFileAssumption DEF Forms, inFile, Generations, oldest
<1>1. \A m \in Generations, j \in Forms : \A b \in inFile(fileIn(h, m, j)) : b <= l
  BY <1>0 DEF InOrder
<1>2. \A m, p \in Generations, j, i \in Forms : m < p => Newer(fileIn(h, m, j), fileIn(h, p, i))
  <2>1. SUFFICES ASSUME NEW m \in Generations, NEW p \in Generations, NEW j \in Forms, NEW i \in Forms, m < p,
                        fileIn(h, m, j) # Absent, fileIn(h, p, i) # Absent
                 PROVE  Newer(fileIn(h, m, j), fileIn(h, p, i))
    BY DEF Newer
  <2>2. p # 1 /\ fileIn(h, p, i) = fileIn(g, p, i)
    BY <2>1, LogFileAssumption DEF Generations
  <2>3. CASE m = 1 /\ j = 1
    BY <2>1, <2>2, <2>3 DEF InOrder, Newer
  <2>4. CASE ~(m = 1 /\ j = 1)
    BY <2>1, <2>2, <2>4 DEF InOrder
  <2> QED
    BY <2>3, <2>4
<1>3. \A m \in Generations : Twins(fileIn(h, m, 1), fileIn(h, m, 2))
  BY <1>0 DEF InOrder, Twins
<1> QED
  BY <1>0, <1>1, <1>2, <1>3 DEF InOrder

\* One form is copied to the other.
LEMMA CopiedKeepsOrder ==
  ASSUME NEW l, NEW lv, NEW g, NEW h, InOrder(l, lv, g), NEW n \in Generations,
         \A m \in Generations, j \in Forms : fileIn(h, m, j) = IF m = n /\ j = 2 THEN fileIn(g, n, 1) ELSE fileIn(g, m, j)
  PROVE  InOrder(l, lv, h)
<1>0. 1 \in Forms /\ 2 \in Forms
  BY DEF Forms
<1>1. \A m \in Generations, j \in Forms : \E i \in Forms : fileIn(h, m, j) = fileIn(g, m, i)
  BY <1>0
<1>2. \A m \in Generations, j \in Forms : \A b \in inFile(fileIn(h, m, j)) : b <= l /\ \A a \in inFile(lv) : b < a
  BY <1>1 DEF InOrder
<1>3. \A m, p \in Generations, j, i \in Forms : m < p => Newer(fileIn(h, m, j), fileIn(h, p, i))
  BY <1>1 DEF InOrder
<1>4. \A m \in Generations : Twins(fileIn(h, m, 1), fileIn(h, m, 2))
  BY <1>0 DEF InOrder, Twins
<1> QED
  BY <1>2, <1>3, <1>4 DEF InOrder

\* A new line, at the end of the live file.
LEMMA NewLineKeepsOrder ==
  ASSUME NEW l \in Nat, NEW lv, NEW lv2, NEW g, InOrder(l, lv, g),
         \A n \in Generations, k \in Forms : inFile(fileIn(g, n, k)) \subseteq Nat,
         inFile(lv) \subseteq Nat, inFile(lv2) \subseteq inFile(lv) \cup {l + 1}
  PROVE  InOrder(l + 1, lv2, g)
<1>1. \A a \in inFile(lv2) : a <= l + 1 /\ (a \in inFile(lv) \/ a = l + 1)
  BY DEF InOrder
<1>2. \A n \in Generations, k \in Forms : \A b \in inFile(fileIn(g, n, k)) : b <= l + 1 /\ b < l + 1
  BY DEF InOrder
<1>3. \A n \in Generations, k \in Forms : \A b \in inFile(fileIn(g, n, k)) : \A a \in inFile(lv2) : b < a
  BY <1>1, <1>2 DEF InOrder
<1> QED
  BY <1>1, <1>2, <1>3 DEF InOrder

-----------------------------------------------------------------------------
(* The steps *)

Writers == [pc : {"idle", "shift", "move", "open"}, n : 0..oldest, k : 1..2, failed : BOOLEAN]
Zips == [n : 0..(oldest + 1), done : BOOLEAN]
Kept == Stays(live, gens, live', gens')
StepHolds == FilesInv' /\ Kept

LEMMA FileTypes ==
  ASSUME FileIInv
  PROVE  /\ gens \in FileGens /\ live \in Files /\ writer \in Writers /\ gzip \in Zips
         /\ lines \in 0..MaxLines /\ lines \in Nat /\ faults \in 0..MaxLogFaults /\ astray \subseteq 1..MaxLines
         /\ MaxKeep \in Nat /\ oldest \in Nat \ {0} /\ oldest >= MaxKeep
         /\ (MaxKeep # 0 => oldest = MaxKeep) /\ (MaxKeep = 0 => \A n \in Generations : n = 1)
         /\ MaxLines \in Nat /\ MaxLogFaults \in Nat
         /\ 1 \in Forms /\ 2 \in Forms /\ 1 \in Generations /\ oldest \in Generations
         /\ inFile(Absent) = {} /\ \A f : f # Absent => inFile(f) = Range(f)
  BY LogFileAssumption DEF FileIInv, FilesInv, LogFileTypeOK, FileGens, Writers, Zips, Forms, Generations, oldest, inFile

LEMMA TypesMake ==
  ASSUME gens' \in FileGens, live' \in Files, writer' \in Writers, gzip' \in Zips, lines' \in 0..MaxLines,
         faults' \in 0..MaxLogFaults, astray' \subseteq 1..MaxLines
  PROVE  LogFileTypeOK'
  BY DEF LogFileTypeOK, FileGens, Writers, Zips

\* What a step that leaves the files alone keeps.
LEMMA SameFilesStay ==
  ASSUME UNCHANGED gens, inFile(live) \subseteq inFile(live')
  PROVE  Kept
  BY DEF Kept, Stays

LEMMA WriteLineStep ==
  ASSUME FileIInv, WriteLine
  PROVE  StepHolds
<1>0. /\ writer.pc = "idle" /\ lines < MaxLines /\ lines' = lines + 1 /\ UNCHANGED <<gens, writer, gzip, faults>>
      /\ \/ live # Absent /\ live' = Append(live, lines + 1) /\ astray' = astray
         \/ live = Absent /\ live' = live /\ astray' = astray \cup {lines + 1}
  BY DEF WriteLine
<1>1. lines + 1 \in 1..MaxLines
  BY <1>0, FileTypes
<1>2. live' \in Files /\ inFile(live) \subseteq inFile(live') /\ inFile(live') \subseteq inFile(live) \cup {lines + 1}
  <2>1. CASE live # Absent /\ live' = Append(live, lines + 1)
    <3>1. live \in Seq(1..MaxLines)
      BY <2>1, FileTypes, LinesOfFile
    <3> QED
      BY <1>1, <2>1, <3>1, AppendedLine
  <2> QED
    BY <1>0, <2>1, FileTypes
<1>3. LogFileTypeOK'
  BY <1>0, <1>1, <1>2, FileTypes, TypesMake
<1>4. InOrder(lines', live', gens')
  <2>1. \A n \in Generations, k \in Forms : inFile(fileIn(gens, n, k)) \subseteq Nat
    BY FileTypes, FileInGens, LinesOfFile
  <2>2. inFile(live) \subseteq Nat
    BY FileTypes, LinesOfFile
  <2>3. InOrder(lines + 1, live', gens)
    BY <1>2, <2>1, <2>2, FileTypes, NewLineKeepsOrder DEF FileIInv, FilesInv
  <2> QED
    BY <1>0, <2>3
<1>5. Rotating' /\ Compressing'
  BY <1>0 DEF FileIInv, FilesInv, Rotating, Compressing
<1> QED
  BY <1>0, <1>2, <1>3, <1>4, <1>5, SameFilesStay DEF FileIInv, FilesInv, StepHolds

LEMMA RotateStep ==
  ASSUME FileIInv, Rotate
  PROVE  StepHolds
<1>0. /\ writer' = [writer EXCEPT !.pc = "shift", !.n = oldest, !.k = 1] /\ lines < MaxLines
      /\ live # Absent /\ gzip = NoGzip /\ UNCHANGED <<live, gens, gzip, lines, faults, astray>>
  BY DEF Rotate, rotates, mayRotate
<1>1. writer' = [pc |-> "shift", n |-> oldest, k |-> 1, failed |-> writer.failed] /\ writer' \in Writers
  <2>1. PICK a \in {"idle", "shift", "move", "open"}, b \in 0..oldest, c \in 1..2, d \in BOOLEAN :
          writer = [pc |-> a, n |-> b, k |-> c, failed |-> d]
    BY FileTypes DEF Writers
  <2>2. writer' = [pc |-> "shift", n |-> oldest, k |-> 1, failed |-> writer.failed]
    BY <1>0, <2>1
  <2> QED
    BY <2>1, <2>2, FileTypes DEF Writers
<1>2. LogFileTypeOK'
  BY <1>0, <1>1, FileTypes, TypesMake
<1>3. Rotating'
  BY <1>0, <1>1, FileTypes DEF Rotating
<1>4. Compressing'
  BY <1>0 DEF FileIInv, FilesInv, Compressing
<1> QED
  BY <1>0, <1>2, <1>3, <1>4, SameFilesStay DEF FileIInv, FilesInv, StepHolds

LEMMA MoveLiveStep ==
  ASSUME FileIInv, MoveLive
  PROVE  StepHolds
<1>0. /\ writer.pc = "move" /\ live' = Absent
      /\ writer' = [writer EXCEPT !.pc = "open"] /\ UNCHANGED <<gzip, lines, faults, astray>>
      /\ \/ MaxKeep # 0 /\ gens' = [gens EXCEPT ![1].plain = live]
         \/ MaxKeep = 0 /\ gens' = gens
  BY DEF MoveLive
<1>1. writer' \in Writers /\ writer'.pc = "open"
  BY <1>0, FileTypes DEF Writers
<1>2. /\ gzip = NoGzip /\ lines < MaxLines /\ live # Absent /\ \A k \in Forms : fileIn(gens, 1, k) = Absent
  BY <1>0 DEF FileIInv, FilesInv, Rotating
<1>3. CASE MaxKeep # 0 /\ gens' = [gens EXCEPT ![1].plain = live]
  <2>1. gens' = putFile(gens, 1, 1, live)
    BY <1>3 DEF putFile
  <2>2. /\ gens' \in FileGens
        /\ \A m \in Generations, j \in Forms : fileIn(gens', m, j) = IF m = 1 /\ j = 1 THEN live ELSE fileIn(gens, m, j)
    BY <2>1, FileTypes, PutFileIn
  <2>3. LogFileTypeOK'
    BY <1>0, <1>1, <2>2, FileTypes, TypesMake DEF Files
  <2>4. InOrder(lines, Absent, gens')
    BY <1>2, <2>2, FileTypes, MovedLiveKeepsOrder DEF FileIInv, FilesInv
  <2>5. Rotating' /\ Compressing'
    BY <1>0, <1>1, <1>2, <1>3 DEF Rotating, Compressing, NoGzip
  <2>6. Kept
    BY <1>0, <1>2, <2>2, FileTypes DEF Kept, Stays
  <2> QED
    BY <1>0, <2>3, <2>4, <2>5, <2>6 DEF FileIInv, FilesInv, StepHolds
<1>4. CASE MaxKeep = 0 /\ gens' = gens
  <2>1. LogFileTypeOK'
    BY <1>0, <1>1, <1>4, FileTypes, TypesMake DEF Files
  <2>2. InOrder(lines, Absent, gens)
    BY FileTypes DEF FileIInv, FilesInv, InOrder
  <2>3. Rotating' /\ Compressing'
    BY <1>0, <1>1, <1>2, <1>4 DEF Rotating, Compressing, NoGzip
  <2>4. Kept
    BY <1>0, <1>4 DEF Kept, Stays
  <2> QED
    BY <1>0, <1>4, <2>1, <2>2, <2>3, <2>4 DEF FileIInv, FilesInv, StepHolds
<1> QED
  BY <1>0, <1>3, <1>4

LEMMA OpenNewStep ==
  ASSUME FileIInv, OpenNew
  PROVE  StepHolds
<1>0. /\ writer.pc = "open" /\ lines' = lines + 1 /\ live' = <<lines + 1>>
      /\ writer' = [writer EXCEPT !.pc = "idle"]
      /\ gzip' = IF CompressAfter >= MaxKeep THEN NoGzip ELSE [n |-> CompressAfter + 1, done |-> FALSE]
      /\ UNCHANGED <<gens, faults, astray>>
  BY DEF OpenNew
<1>1. writer' \in Writers /\ writer'.pc = "idle"
  BY <1>0, FileTypes DEF Writers
<1>2. lines < MaxLines /\ live = Absent
  BY <1>0 DEF FileIInv, FilesInv, Rotating
<1>3. lines + 1 \in 1..MaxLines
  BY <1>2, FileTypes
<1>4. live' \in Files /\ inFile(live') = {lines + 1}
  <2>1. live' = Append(<<>>, lines + 1)
    BY <1>0
  <2>2. <<>> \in Seq(1..MaxLines)
    OBVIOUS
  <2> QED
    BY <1>3, <2>1, <2>2, AppendedLine, EmptyFile
<1>5. gzip' \in Zips /\ (gzip' # NoGzip => gzip'.n \in Generations) /\ ~gzip'.done
  BY <1>0, FileTypes, LogFileAssumption DEF Zips, NoGzip, Generations
<1>6. LogFileTypeOK'
  BY <1>0, <1>1, <1>3, <1>4, <1>5, FileTypes, TypesMake
<1>7. InOrder(lines', live', gens')
  <2>1. \A n \in Generations, k \in Forms : inFile(fileIn(gens, n, k)) \subseteq Nat
    BY FileTypes, FileInGens, LinesOfFile
  <2>2. inFile(live) \subseteq Nat
    BY FileTypes, LinesOfFile
  <2>3. InOrder(lines + 1, live', gens)
    BY <1>4, <2>1, <2>2, FileTypes, NewLineKeepsOrder DEF FileIInv, FilesInv
  <2> QED
    BY <1>0, <2>3
<1>8. Rotating' /\ Compressing'
  BY <1>1, <1>5 DEF Rotating, Compressing
<1>9. Kept
  BY <1>0, <1>2, FileTypes, SameFilesStay
<1> QED
  BY <1>6, <1>7, <1>8, <1>9 DEF FileIInv, FilesInv, StepHolds

LEMMA RotateFailsStep ==
  ASSUME FileIInv, RotateFails
  PROVE  StepHolds
<1>0. /\ writer.pc # "idle" /\ faults < MaxLogFaults /\ faults' = faults + 1
      /\ lines' = lines + 1 /\ astray' = astray \cup {lines + 1}
      /\ writer' = [writer EXCEPT !.pc = "idle", !.failed = TRUE]
      /\ UNCHANGED <<live, gens, gzip>>
  BY DEF RotateFails
<1>1. writer' \in Writers /\ writer'.pc = "idle"
  <2>1. PICK a \in {"idle", "shift", "move", "open"}, b \in 0..oldest, c \in 1..2, d \in BOOLEAN :
          writer = [pc |-> a, n |-> b, k |-> c, failed |-> d]
    BY FileTypes DEF Writers
  <2>2. writer' = [pc |-> "idle", n |-> b, k |-> c, failed |-> TRUE]
    BY <1>0, <2>1
  <2> QED
    BY <2>2 DEF Writers
<1>2. lines < MaxLines
  BY <1>0 DEF FileIInv, FilesInv, Rotating
<1>3. lines + 1 \in 1..MaxLines
  BY <1>2, FileTypes
<1>4. LogFileTypeOK'
  BY <1>0, <1>1, <1>3, FileTypes, TypesMake
<1>5. InOrder(lines', live', gens')
  <2>1. \A n \in Generations, k \in Forms : inFile(fileIn(gens, n, k)) \subseteq Nat
    BY FileTypes, FileInGens, LinesOfFile
  <2>2. inFile(live) \subseteq Nat
    BY FileTypes, LinesOfFile
  <2>3. InOrder(lines + 1, live, gens)
    BY <2>1, <2>2, FileTypes, NewLineKeepsOrder DEF FileIInv, FilesInv
  <2> QED
    BY <1>0, <2>3
<1>6. Rotating' /\ Compressing'
  BY <1>0, <1>1 DEF FileIInv, FilesInv, Rotating, Compressing
<1> QED
  BY <1>0, <1>4, <1>5, <1>6, SameFilesStay DEF FileIInv, FilesInv, StepHolds

LEMMA WriterAt ==
  ASSUME NEW w \in Writers, NEW x, NEW y, NEW v, v = [w EXCEPT !.n = x, !.k = y]
  PROVE  v = [pc |-> w.pc, n |-> x, k |-> y, failed |-> w.failed]
<1>1. PICK a \in {"idle", "shift", "move", "open"}, b \in 0..oldest, c \in 1..2, d \in BOOLEAN :
        w = [pc |-> a, n |-> b, k |-> c, failed |-> d]
  BY DEF Writers
<1>2. v = [pc |-> a, n |-> x, k |-> y, failed |-> d]
  BY <1>1
<1> QED
  BY <1>1, <1>2

\* Where shiftNext goes: from the first form to the second, then down.
LEMMA ShiftGoesDown ==
  ASSUME NEW w \in Writers, w.pc = "shift", w.n \in Generations
  PROVE  /\ shiftNext(w) \in Writers
         /\ w.k = 2 /\ w.n = 1 => shiftNext(w).pc = "move"
         /\ w.k = 1 => shiftNext(w).pc = "shift" /\ shiftNext(w).n = w.n /\ shiftNext(w).k = 2
         /\ w.k = 2 /\ w.n # 1 => /\ shiftNext(w).pc = "shift" /\ shiftNext(w).n = w.n - 1 /\ shiftNext(w).k = 1
                                  /\ w.n - 1 \in Generations
<1>1. PICK b \in Generations, c \in 1..2, d \in BOOLEAN : w = [pc |-> "shift", n |-> b, k |-> c, failed |-> d]
  BY LogFileAssumption DEF Writers, Generations, oldest
<1>2. w.n = b /\ w.k = c /\ w.pc = "shift" /\ w.failed = d /\ b \in 1..oldest /\ oldest \in Nat \ {0}
  BY <1>1, LogFileAssumption DEF Generations, oldest
<1>3. CASE c = 2 /\ b = 1
  <2>1. shiftNext(w) = [pc |-> "move", n |-> b, k |-> c, failed |-> d]
    BY <1>1, <1>3 DEF shiftNext
  <2> QED
    BY <1>2, <1>3, <2>1 DEF Writers
<1>4. CASE c = 1
  <2>1. shiftNext(w) = [pc |-> "shift", n |-> b, k |-> 2, failed |-> d]
    <3>1. shiftBack(b, c) = [n |-> b, k |-> 2]
      BY <1>4 DEF shiftBack
    <3>2. shiftNext(w) = [w EXCEPT !.n = shiftBack(b, c).n, !.k = shiftBack(b, c).k]
      <4>1. ~(w.k = 2 /\ w.n = 1) /\ w.n = b /\ w.k = c
        BY <1>2, <1>4
      <4> QED
        BY <4>1, Zenon DEF shiftNext
    <3>3. shiftNext(w) = [pc |-> w.pc, n |-> shiftBack(b, c).n, k |-> shiftBack(b, c).k, failed |-> w.failed]
      BY <3>2, WriterAt
    <3>4. shiftBack(b, c).n = b /\ shiftBack(b, c).k = 2
      BY <3>1
    <3> QED
      BY <1>2, <3>3, <3>4
  <2> QED
    BY <1>2, <1>4, <2>1 DEF Writers
<1>5. CASE c = 2 /\ b # 1
  <2>1. shiftNext(w) = [pc |-> "shift", n |-> b - 1, k |-> 1, failed |-> d]
    <3>1. shiftBack(b, c) = [n |-> b - 1, k |-> 1]
      BY <1>5 DEF shiftBack
    <3>2. shiftNext(w) = [w EXCEPT !.n = shiftBack(b, c).n, !.k = shiftBack(b, c).k]
      <4>1. ~(w.k = 2 /\ w.n = 1) /\ w.n = b /\ w.k = c
        BY <1>2, <1>5
      <4> QED
        BY <4>1, Zenon DEF shiftNext
    <3>3. shiftNext(w) = [pc |-> w.pc, n |-> shiftBack(b, c).n, k |-> shiftBack(b, c).k, failed |-> w.failed]
      BY <3>2, WriterAt
    <3>4. shiftBack(b, c).n = b - 1 /\ shiftBack(b, c).k = 1
      BY <3>1
    <3> QED
      BY <1>2, <3>3, <3>4
  <2>2. b - 1 \in Generations /\ b - 1 \in 0..oldest
    BY <1>2, <1>5 DEF Generations
  <2> QED
    BY <1>2, <1>5, <2>1, <2>2 DEF Writers
<1> QED
  BY <1>3, <1>4, <1>5

LEMMA ShiftStep ==
  ASSUME FileIInv, Shift
  PROVE  StepHolds
<1> DEFINE n == writer.n
           k == writer.k
           x == fileIn(gens, n, k)
<1>0. /\ writer.pc = "shift" /\ gens' = shiftedUp(n, k) /\ writer' = shiftNext(writer)
      /\ UNCHANGED <<live, gzip, lines, faults, astray>>
  BY DEF Shift
<1>1. /\ gzip = NoGzip /\ lines < MaxLines /\ live # Absent /\ n \in Generations /\ k \in Forms
      /\ n < MaxKeep => fileIn(gens, n + 1, k) = Absent /\ fileIn(gens, n + 1, 2) = Absent
      /\ k = 2 => fileIn(gens, n, 1) = Absent
      /\ k = 2 /\ n < MaxKeep => Twins(fileIn(gens, n + 1, 1), fileIn(gens, n, 2))
  BY <1>0, FileTypes DEF FileIInv, FilesInv, Rotating, Writers, Forms
<1>2. x = file(n, k) /\ x \in Files /\ Absent \in Files
  BY <1>1, FileTypes, FileInGens DEF file, fileIn, Files
<1>3. /\ writer' \in Writers
      /\ k = 2 /\ n = 1 => writer'.pc = "move"
      /\ k = 1 => writer'.pc = "shift" /\ writer'.n = n /\ writer'.k = 2
      /\ k = 2 /\ n # 1 => writer'.pc = "shift" /\ writer'.n = n - 1 /\ writer'.k = 1 /\ n - 1 \in Generations
  BY <1>0, <1>1, FileTypes, ShiftGoesDown
<1>4. k = 1 \/ k = 2
  BY <1>1 DEF Forms
<1>5. n \in Nat /\ n >= 1 /\ n <= oldest /\ MaxKeep \in Nat /\ (n < MaxKeep => oldest = MaxKeep)
  BY <1>1, FileTypes DEF Generations
<1> DEFINE gone == putFile(gens, n, k, Absent)
<1>6. gone \in FileGens /\ \A m \in Generations, j \in Forms : fileIn(gone, m, j) = IF m = n /\ j = k THEN Absent ELSE fileIn(gens, m, j)
  <2>1. gens \in FileGens
    BY FileTypes
  <2> QED
    BY <1>1, <1>2, <2>1, PutFileIn
<1>a. CASE n >= MaxKeep \/ x = Absent
  <2>1. gens' = gone
    BY <1>0, <1>2, <1>a DEF shiftedUp
  <2> HIDE DEF gone
  <2>2. \A m \in Generations, j \in Forms : fileIn(gens', m, j) = IF m = n /\ j = k THEN Absent ELSE fileIn(gens, m, j)
    BY <1>6, <2>1
  <2>3. LogFileTypeOK'
    BY <1>0, <1>3, <1>6, <2>1, FileTypes, TypesMake
  <2>4. InOrder(lines', live', gens')
    BY <1>0, <1>1, <2>2, EmptiedKeepsOrder DEF FileIInv, FilesInv
  <2>5. Rotating'
    <3>1. CASE k = 1
      <4>1. n < MaxKeep => fileIn(gens', n + 1, 2) = Absent /\ fileIn(gens', n + 1, 1) = Absent
        <5>1. n < MaxKeep => n + 1 \in Generations
          BY <1>5 DEF Generations
        <5> QED
          BY <1>1, <1>5, <2>2, <3>1, <5>1, FileTypes
      <4>2. fileIn(gens', n, 1) = Absent
        BY <1>1, <2>2, <3>1, FileTypes
      <4> QED
        BY <1>0, <1>1, <1>3, <3>1, <4>1, <4>2 DEF Rotating, Twins
    <3>2. CASE k = 2
      <4>1. fileIn(gens', n, 1) = Absent /\ fileIn(gens', n, 2) = Absent
        BY <1>1, <2>2, <3>2, FileTypes
      <4>2. CASE n = 1
        <5>1. \A j \in Forms : fileIn(gens', 1, j) = Absent
          BY <4>1, <4>2 DEF Forms
        <5> QED
          BY <1>0, <1>1, <1>3, <3>2, <4>2, <5>1 DEF Rotating
      <4>3. CASE n # 1
        <5>1. n - 1 + 1 = n
          BY <1>5
        <5> QED
          BY <1>0, <1>1, <1>3, <3>2, <4>1, <4>3, <5>1 DEF Rotating
      <4> QED
        BY <4>2, <4>3
    <3> QED
      BY <1>4, <3>1, <3>2
  <2>6. Compressing'
    BY <1>0, <1>1 DEF Compressing, NoGzip
  <2>7. Kept
    <3>1. (n = MaxKeep /\ MaxKeep # 0) \/ x = Absent
      <4>1. CASE MaxKeep = 0
        BY <1>0, <1>1, <4>1, FileTypes DEF FileIInv, NoneKept
      <4>2. CASE MaxKeep # 0
        BY <1>5, <1>a, <4>2, FileTypes
      <4> QED
        BY <4>1, <4>2
    <3> QED
      BY <1>0, <2>2, <3>1 DEF Kept, Stays
  <2> QED
    BY <2>3, <2>4, <2>5, <2>6, <2>7 DEF FileIInv, FilesInv, StepHolds
<1>b. CASE n < MaxKeep /\ x # Absent
  <2>0. n + 1 \in Generations /\ n + 1 # n
    BY <1>5, <1>b DEF Generations
  <2>1. gens' = putFile(gone, n + 1, k, x)
    BY <1>0, <1>2, <1>5, <1>b DEF shiftedUp
  <2> HIDE DEF gone
  <2>2. /\ gens' \in FileGens
        /\ \A m \in Generations, j \in Forms : fileIn(gens', m, j) = IF m = n + 1 /\ j = k THEN x ELSE fileIn(gone, m, j)
    BY <1>1, <1>2, <1>6, <2>0, <2>1, PutFileIn
  <2> HIDE DEF x
  <2>3. \A m \in Generations, j \in Forms :
          fileIn(gens', m, j) = IF m = n + 1 /\ j = k THEN x ELSE IF m = n /\ j = k THEN Absent ELSE fileIn(gens, m, j)
    BY <1>6, <2>2
  <2>4. LogFileTypeOK'
    BY <1>0, <1>3, <2>2, FileTypes, TypesMake
  <2>5. InOrder(lines', live', gens')
    <3>1. InOrder(lines, live, gens) /\ (k = 2 => fileIn(gens, n, 1) = Absent /\ Twins(fileIn(gens, n + 1, 1), fileIn(gens, n, 2)))
          /\ fileIn(gens, n + 1, k) = Absent /\ fileIn(gens, n + 1, 2) = Absent
      BY <1>1, <1>b DEF FileIInv, FilesInv
    <3>2. InOrder(lines, live, gens')
      BY <1>1, <2>0, <2>3, <3>1, MovedUpKeepsOrder DEF x
    <3> QED
      BY <1>0, <3>2
  <2>6. Rotating'
    <3>1. CASE k = 1
      <4>1. fileIn(gens', n + 1, 2) = Absent /\ fileIn(gens', n, 1) = Absent /\ fileIn(gens', n + 1, 1) = x
            /\ fileIn(gens', n, 2) = fileIn(gens, n, 2)
        BY <1>1, <1>b, <2>0, <2>3, <3>1, FileTypes
      <4>2. Twins(x, fileIn(gens, n, 2))
        BY <1>1, <3>1 DEF FileIInv, FilesInv, InOrder, x
      <4> QED
        BY <1>0, <1>1, <1>3, <3>1, <4>1, <4>2 DEF Rotating
    <3>2. CASE k = 2
      <4>1. fileIn(gens', n, 1) = Absent /\ fileIn(gens', n, 2) = Absent
        BY <1>1, <2>0, <2>3, <3>2, FileTypes
      <4>2. CASE n = 1
        <5>1. \A j \in Forms : fileIn(gens', 1, j) = Absent
          BY <4>1, <4>2 DEF Forms
        <5> QED
          BY <1>0, <1>1, <1>3, <3>2, <4>2, <5>1 DEF Rotating
      <4>3. CASE n # 1
        <5>1. n - 1 + 1 = n
          BY <1>5
        <5> QED
          BY <1>0, <1>1, <1>3, <3>2, <4>1, <4>3, <5>1 DEF Rotating
      <4> QED
        BY <4>2, <4>3
    <3> QED
      BY <1>4, <3>1, <3>2
  <2>7. Compressing'
    BY <1>0, <1>1 DEF Compressing, NoGzip
  <2>8. Kept
    <3>1. ASSUME NEW m \in Generations, NEW j \in Forms, fileIn(gens, m, j) # Absent
          PROVE  \E p \in Generations, i \in Forms : fileIn(gens', p, i) = fileIn(gens, m, j)
      <4>1. CASE m = n /\ j = k
        BY <1>1, <2>0, <2>3, <4>1 DEF x
      <4>2. CASE ~(m = n /\ j = k)
        <5>1. ~(m = n + 1 /\ j = k)
          BY <1>1, <1>b, <3>1
        <5> QED
          BY <2>3, <4>2, <5>1
      <4> QED
        BY <4>1, <4>2
    <3> QED
      BY <1>0, <3>1 DEF Kept, Stays
  <2> QED
    BY <2>4, <2>5, <2>6, <2>7, <2>8 DEF FileIInv, FilesInv, StepHolds
<1> QED
  BY <1>5, <1>a, <1>b

\* The compressor goes on to the next generation, or ends.
LEMMA NextGeneration ==
  ASSUME FileIInv, NEW n \in Generations
  PROVE  /\ afterGeneration(n) \in Zips /\ ~afterGeneration(n).done
         /\ afterGeneration(n) # NoGzip => afterGeneration(n).n \in Generations
  BY LogFileAssumption DEF afterGeneration, Zips, NoGzip, Generations, oldest

\* While the compressor is at work no rotation is.
LEMMA NoRotationMeanwhile ==
  ASSUME FileIInv, gzip.n > 0
  PROVE  writer.pc = "idle" /\ gzip # NoGzip /\ gzip.n \in Generations
<1>1. gzip # NoGzip
  BY DEF NoGzip
<1> QED
  BY <1>1 DEF FileIInv, FilesInv, Rotating, Compressing

LEMMA CompressStep ==
  ASSUME FileIInv, Compress
  PROVE  StepHolds
<1> DEFINE n == gzip.n
<1>0. /\ gzip.n > 0 /\ ~gzip.done /\ UNCHANGED <<live, writer, lines, faults, astray>>
      /\ \/ gens[n].plain # Absent /\ gens' = [gens EXCEPT ![n].gz = gens[n].plain] /\ gzip' = [gzip EXCEPT !.done = TRUE]
         \/ gens[n].plain = Absent /\ gzip' = afterGeneration(n) /\ gens' = gens
  BY DEF Compress
<1>1. writer.pc = "idle" /\ gzip # NoGzip /\ n \in Generations
  BY <1>0, NoRotationMeanwhile
<1>2. CASE gens[n].plain # Absent /\ gens' = [gens EXCEPT ![n].gz = gens[n].plain] /\ gzip' = [gzip EXCEPT !.done = TRUE]
  <2>1. gens \in FileGens /\ 1 \in Forms /\ 2 \in Forms /\ gzip \in Zips
    BY FileTypes
  <2>2. gens[n].plain = fileIn(gens, n, 1) /\ fileIn(gens, n, 1) \in Files
    BY <1>1, <2>1, FileInGens DEF fileIn
  <2>3. gens' = putFile(gens, n, 2, fileIn(gens, n, 1))
    BY <1>2, <2>2 DEF putFile
  <2>4. /\ gens' \in FileGens
        /\ \A m \in Generations, j \in Forms : fileIn(gens', m, j) = IF m = n /\ j = 2 THEN fileIn(gens, n, 1) ELSE fileIn(gens, m, j)
    BY <1>1, <2>1, <2>2, <2>3, PutFileIn
  <2>5. gzip' \in Zips /\ gzip'.n = n /\ gzip'.done
    BY <1>2, <2>1 DEF Zips
  <2>6. LogFileTypeOK'
    BY <1>0, <2>4, <2>5, FileTypes, TypesMake
  <2>7. InOrder(lines', live', gens')
    BY <1>0, <1>1, <2>4, CopiedKeepsOrder DEF FileIInv, FilesInv
  <2>8. Rotating'
    BY <1>0, <1>1 DEF Rotating
  <2>9. Compressing'
    <3>1. fileIn(gens', n, 1) # Absent /\ fileIn(gens', n, 2) = fileIn(gens', n, 1)
      BY <1>1, <1>2, <2>1, <2>2, <2>4
    <3> QED
      BY <1>1, <2>5, <3>1 DEF Compressing
  <2>10. Kept
    <3>1. ASSUME NEW m \in Generations, NEW j \in Forms, fileIn(gens, m, j) # Absent
          PROVE  \E p \in Generations, i \in Forms : fileIn(gens', p, i) = fileIn(gens, m, j)
      <4>1. CASE m = n /\ j = 2
        <5>1. fileIn(gens, m, j) = fileIn(gens, n, 1)
          BY <1>2, <2>2, <3>1, <4>1 DEF FileIInv, FilesInv, InOrder, Twins
        <5> QED
          BY <1>1, <2>1, <2>4, <5>1
      <4>2. CASE ~(m = n /\ j = 2)
        BY <2>4, <4>2
      <4> QED
        BY <4>1, <4>2
    <3> QED
      BY <1>0, <3>1 DEF Kept, Stays
  <2> QED
    BY <2>6, <2>7, <2>8, <2>9, <2>10 DEF FileIInv, FilesInv, StepHolds
<1>3. CASE gens[n].plain = Absent /\ gzip' = afterGeneration(n) /\ gens' = gens
  <2>1. gzip' \in Zips /\ ~gzip'.done /\ (gzip' # NoGzip => gzip'.n \in Generations)
    BY <1>1, <1>3, NextGeneration
  <2>2. LogFileTypeOK'
    BY <1>0, <1>3, <2>1, FileTypes, TypesMake
  <2>3. Rotating' /\ Compressing'
    BY <1>0, <1>1, <2>1 DEF Rotating, Compressing
  <2> QED
    BY <1>0, <1>3, <2>2, <2>3, SameFilesStay DEF FileIInv, FilesInv, StepHolds
<1> QED
  BY <1>0, <1>2, <1>3

LEMMA CompressFailsStep ==
  ASSUME FileIInv, CompressFails
  PROVE  StepHolds
<1>0. /\ gzip.n > 0 /\ faults < MaxLogFaults /\ faults' = faults + 1 /\ gzip' = afterGeneration(gzip.n)
      /\ UNCHANGED <<live, gens, writer, lines, astray>>
  BY DEF CompressFails
<1>1. writer.pc = "idle" /\ gzip.n \in Generations
  BY <1>0, NoRotationMeanwhile
<1>2. gzip' \in Zips /\ ~gzip'.done /\ (gzip' # NoGzip => gzip'.n \in Generations)
  BY <1>0, <1>1, NextGeneration
<1>3. LogFileTypeOK'
  BY <1>0, <1>2, FileTypes, TypesMake
<1>4. Rotating' /\ Compressing'
  BY <1>0, <1>1, <1>2 DEF Rotating, Compressing
<1> QED
  BY <1>0, <1>3, <1>4, SameFilesStay DEF FileIInv, FilesInv, StepHolds

LEMMA RemovePlainStep ==
  ASSUME FileIInv, RemovePlain
  PROVE  StepHolds
<1> DEFINE n == gzip.n
<1>0. /\ gzip.n > 0 /\ gzip.done /\ gens' = [gens EXCEPT ![n].plain = Absent] /\ gzip' = afterGeneration(n)
      /\ UNCHANGED <<live, writer, lines, faults, astray>>
  BY DEF RemovePlain
<1>1. writer.pc = "idle" /\ n \in Generations
  BY <1>0, NoRotationMeanwhile
<1>2. gens \in FileGens /\ 1 \in Forms /\ 2 \in Forms /\ Absent \in Files
  BY FileTypes DEF Files
<1>3. gens' = putFile(gens, n, 1, Absent)
  BY <1>0 DEF putFile
<1>4. /\ gens' \in FileGens
      /\ \A m \in Generations, j \in Forms : fileIn(gens', m, j) = IF m = n /\ j = 1 THEN Absent ELSE fileIn(gens, m, j)
  BY <1>1, <1>2, <1>3, PutFileIn
<1>5. gzip' \in Zips /\ ~gzip'.done /\ (gzip' # NoGzip => gzip'.n \in Generations)
  BY <1>0, <1>1, NextGeneration
<1>6. LogFileTypeOK'
  BY <1>0, <1>4, <1>5, FileTypes, TypesMake
<1>7. InOrder(lines', live', gens')
  BY <1>0, <1>1, <1>2, <1>4, EmptiedKeepsOrder DEF FileIInv, FilesInv
<1>8. Rotating' /\ Compressing'
  BY <1>0, <1>1, <1>5 DEF Rotating, Compressing
<1>9. Kept
  <2>1. fileIn(gens, n, 2) = fileIn(gens, n, 1)
    BY <1>0 DEF FileIInv, FilesInv, Compressing
  <2>2. ASSUME NEW m \in Generations, NEW j \in Forms
        PROVE  \E p \in Generations, i \in Forms : fileIn(gens', p, i) = fileIn(gens, m, j)
    <3>1. CASE m = n /\ j = 1
      <4>1. fileIn(gens', n, 2) = fileIn(gens, m, j)
        BY <1>1, <1>2, <1>4, <2>1, <3>1
      <4> QED
        BY <1>1, <1>2, <4>1
    <3>2. CASE ~(m = n /\ j = 1)
      BY <1>4, <3>2
    <3> QED
      BY <3>1, <3>2
  <2> QED
    BY <1>0, <2>2 DEF Kept, Stays
<1> QED
  BY <1>6, <1>7, <1>8, <1>9 DEF FileIInv, FilesInv, StepHolds

\* A new logger, in this process or the next, goes on with the same files.
LEMMA ReopenedStep ==
  ASSUME FileIInv, writer' = NewWriter, gzip' = NoGzip, live' = reopened, faults' \in 0..MaxLogFaults,
         UNCHANGED <<gens, lines, astray>>
  PROVE  StepHolds
<1>1. live' \in Files /\ inFile(live') = inFile(live)
  BY FileTypes, EmptyFile DEF reopened
<1>2. NewWriter \in Writers /\ NewWriter.pc = "idle" /\ NoGzip \in Zips /\ ~NoGzip.done
  BY FileTypes DEF NewWriter, Writers, NoGzip, Zips
<1>3. LogFileTypeOK'
  BY <1>1, <1>2, FileTypes, TypesMake
<1>4. InOrder(lines', live', gens')
  BY <1>1 DEF FileIInv, FilesInv, InOrder
<1>5. Rotating' /\ Compressing'
  BY <1>2 DEF Rotating, Compressing
<1> QED
  BY <1>1, <1>3, <1>4, <1>5, SameFilesStay DEF FileIInv, FilesInv, StepHolds

LEMMA LogFileStep ==
  ASSUME FileIInv, LogFileNext
  PROVE  StepHolds
<1>1. CASE NewLogger
  BY <1>1, ReopenedStep, FileTypes DEF NewLogger
<1>2. CASE Dies
  <2>1. faults' \in 0..MaxLogFaults
    BY <1>2, FileTypes DEF Dies
  <2> QED
    BY <1>2, <2>1, ReopenedStep DEF Dies
<1> QED
  BY <1>1, <1>2, WriteLineStep, RotateStep, ShiftStep, MoveLiveStep, OpenNewStep, RotateFailsStep,
     CompressStep, CompressFailsStep, RemovePlainStep DEF LogFileNext

\* A rotation that keeps nothing makes no generation, and the compressor has
\* none to make.
LEMMA NoneKeptStep ==
  ASSUME FileIInv, LogFileNext
  PROVE  NoneKept'
<1> SUFFICES ASSUME MaxKeep = 0 PROVE \A n \in Generations, k \in Forms : fileIn(gens', n, k) = Absent
  BY DEF NoneKept
<1>1. gens \in FileGens /\ 1 \in Forms /\ 2 \in Forms /\ Absent \in Files /\ \A n \in Generations, k \in Forms : fileIn(gens, n, k) = Absent
  BY FileTypes DEF FileIInv, NoneKept, Files
<1>2. CASE Shift
  <2>1. writer.n \in Generations /\ writer.k \in Forms
    BY <1>2, FileTypes DEF Shift, FileIInv, FilesInv, Rotating, Writers, Forms
  <2>2. gens' = putFile(gens, writer.n, writer.k, Absent)
    <3>1. file(writer.n, writer.k) = Absent
      BY <1>1, <2>1 DEF file, fileIn
    <3> QED
      BY <1>2, <3>1 DEF Shift, shiftedUp
  <2> QED
    BY <1>1, <2>1, <2>2, PutFileIn
<1>3. CASE Compress
  <2>1. gzip.n \in Generations
    BY <1>3, NoRotationMeanwhile DEF Compress
  <2>2. gens[gzip.n].plain = Absent
    BY <1>1, <2>1 DEF fileIn
  <2> QED
    BY <1>1, <1>3, <2>2 DEF Compress
<1>4. CASE RemovePlain
  <2>1. gzip.n \in Generations
    BY <1>4, NoRotationMeanwhile DEF RemovePlain
  <2>2. gens' = putFile(gens, gzip.n, 1, Absent)
    BY <1>4 DEF RemovePlain, putFile
  <2> QED
    BY <1>1, <2>1, <2>2, PutFileIn
<1>5. CASE UNCHANGED gens
  BY <1>1, <1>5
<1> QED
  BY <1>2, <1>3, <1>4, <1>5
  DEF LogFileNext, WriteLine, Rotate, MoveLive, OpenNew, RotateFails, CompressFails, NewLogger, Dies

LEMMA InitLogFile ==
  ASSUME LogFileInit
  PROVE  FileIInv
<1>0. /\ live = <<>> /\ gens = [n \in Generations |-> [plain |-> Absent, gz |-> Absent]]
      /\ writer = NewWriter /\ gzip = NoGzip /\ lines = 0 /\ faults = 0 /\ astray = {}
  BY DEF LogFileInit
<1>1. Absent \in Files /\ live \in Files /\ inFile(live) = {} /\ inFile(Absent) = {}
  BY <1>0, EmptyFile DEF Files, inFile
<1>2. LogFileTypeOK
  BY <1>0, <1>1, LogFileAssumption DEF LogFileTypeOK, NewWriter, NoGzip, oldest
<1>3. \A n \in Generations, k \in Forms : fileIn(gens, n, k) = Absent
  BY <1>0 DEF fileIn
<1>4. InOrder(lines, live, gens)
  <2>1. \A n \in Generations : fileIn(gens, n, 1) = Absent
    BY <1>0 DEF fileIn
  <2> QED
    BY <1>0, <1>1, <1>3, <2>1 DEF InOrder, Newer, Twins
<1>5. Rotating /\ Compressing
  BY <1>0 DEF Rotating, Compressing, NewWriter, NoGzip
<1> QED
  BY <1>2, <1>3, <1>4, <1>5 DEF FileIInv, FilesInv, NoneKept

LEMMA LogFileInductive == LogFileSpec => []FileIInv
<1>1. FileIInv /\ [LogFileNext]_logFileVars => FileIInv'
  <2>1. ASSUME FileIInv, UNCHANGED logFileVars PROVE FileIInv'
    BY <2>1 DEF FileIInv, FilesInv, NoneKept, logFileVars, LogFileTypeOK, Rotating, Compressing
  <2> QED
    BY <2>1, LogFileStep, NoneKeptStep DEF StepHolds, FileIInv
<1> QED
  BY <1>1, InitLogFile, PTL DEF LogFileSpec

\* Read from the oldest generation to the live file the lines are in the
\* order they were written (sizeRotate.rotate, compress), for every number of
\* generations and every mix of renames, failures, deaths and compressions.
THEOREM GenerationsKeepOrder == LogFileSpec => [](LogFileTypeOK /\ GenerationsInOrder)
<1>1. FileIInv => GenerationsInOrder
  <2>1. SUFFICES ASSUME FileIInv PROVE GenerationsInOrder
    OBVIOUS
  <2>2. \A n \in Generations : gens[n].plain = fileIn(gens, n, 1) /\ gens[n].gz = fileIn(gens, n, 2)
    BY DEF fileIn
  <2>3. 1 \in Forms /\ 2 \in Forms
    BY DEF Forms
  <2>4. \A n \in Generations : \A a \in inFile(live), b \in inGeneration(n) : b < a
    BY <2>1, <2>2, <2>3 DEF FileIInv, FilesInv, InOrder, inGeneration
  <2>5. ASSUME NEW m \in Generations, NEW n \in Generations, m < n,
               NEW f \in {gens[m].plain, gens[m].gz}, NEW g \in {gens[n].plain, gens[n].gz}
        PROVE  Newer(f, g)
    BY <2>1, <2>2, <2>3, <2>5 DEF FileIInv, FilesInv, InOrder
  <2> QED
    BY <2>4, <2>5 DEF GenerationsInOrder, Newer
<1> QED
  BY <1>1, LogFileInductive, PTL DEF FileIInv, FilesInv

\* A line that was written leaves the disk only with the oldest generation:
\* no rename, no compression and no failure overwrites a file still wanted.
THEOREM LinesFallOffLast == LogFileSpec => LinesOnlyFallOff
<1>1. ASSUME FileIInv, LogFileNext
      PROVE  \A l \in onDisk : l \in onDisk' \/ fallsOff(l)
  <2>1. Kept
    BY <1>1, LogFileStep DEF StepHolds
  <2>2. \A n \in Generations : /\ inGeneration(n) = inFile(fileIn(gens, n, 1)) \cup inFile(fileIn(gens, n, 2))
                               /\ inGeneration(n)' = inFile(fileIn(gens', n, 1)) \cup inFile(fileIn(gens', n, 2))
    BY DEF inGeneration, fileIn
  <2>3. 1 \in Forms /\ 2 \in Forms /\ \A k \in Forms : k = 1 \/ k = 2
    BY DEF Forms
  <2>4. \A n \in Generations, k \in Forms : inFile(fileIn(gens', n, k)) \subseteq onDisk'
    BY <2>2, <2>3 DEF onDisk
  <2>5. inFile(live)' \subseteq onDisk' /\ inFile(live)' = inFile(live')
    BY DEF onDisk
  <2>6. SUFFICES ASSUME NEW l \in onDisk PROVE l \in onDisk' \/ fallsOff(l)
    OBVIOUS
  <2>7. CASE l \in inFile(live)
    BY <2>1, <2>4, <2>5, <2>7 DEF Kept, Stays, fallsOff
  <2>8. CASE l \notin inFile(live)
    <3>1. PICK n \in Generations, k \in Forms : l \in inFile(fileIn(gens, n, k))
      BY <2>2, <2>3, <2>6, <2>8 DEF onDisk
    <3>2. fileIn(gens, n, k) # Absent
      BY <3>1 DEF inFile
    <3>3. (n = MaxKeep /\ MaxKeep # 0) \/ \E m \in Generations, j \in Forms : fileIn(gens', m, j) = fileIn(gens, n, k)
      BY <2>1, <3>2 DEF Kept, Stays
    <3> QED
      BY <2>2, <2>3, <2>4, <3>1, <3>3 DEF fallsOff
  <2> QED
    BY <2>7, <2>8
<1>2. FileIInv /\ [LogFileNext]_logFileVars => [\A l \in onDisk : l \in onDisk' \/ fallsOff(l)]_logFileVars
  BY <1>1
<1> QED
  BY <1>2, LogFileInductive, PTL DEF LogFileSpec, LinesOnlyFallOff

-----------------------------------------------------------------------------
(* The buffer pool *)

PoolIInv == PoolTypeOK /\ ExcessIsOverlap

LEMMA MaxOfTwo ==
  ASSUME NEW a \in Nat, NEW b \in Nat
  PROVE  Max({a, b}) = IF a >= b THEN a ELSE b
  BY DEF Max

\* The returns between looking and pushing, when one borrower moves on.
LEMMA PushingMoves ==
  ASSUME PoolTypeOK, NEW b \in Borrowers, NEW s, stepTo(b, s)
  PROVE  /\ pushing(step) \in Nat /\ pushing(step') \in 0..Cardinality(Borrowers)
         /\ pushing(step') = IF s = "push" THEN IF step[b] = "push" THEN pushing(step) ELSE pushing(step) + 1
                             ELSE IF step[b] = "push" THEN pushing(step) - 1 ELSE pushing(step)
<1> DEFINE P == {c \in Borrowers : step[c] = "push"}
           Q == {c \in Borrowers : step'[c] = "push"}
<1>1. IsFiniteSet(P) /\ IsFiniteSet(Q) /\ Cardinality(Q) <= Cardinality(Borrowers)
  BY PoolAssumption, FS_Subset
<1>2. Cardinality(P) \in Nat /\ Cardinality(Q) \in Nat /\ Cardinality(Borrowers) \in Nat
  BY <1>1, PoolAssumption, FS_CardinalityType
<1>3. pushing(step) = Cardinality(P) /\ pushing(step') = Cardinality(Q)
  BY DEF pushing
<1>4. Q = IF s = "push" THEN P \cup {b} ELSE P \ {b}
  BY DEF PoolTypeOK, stepTo
<1>5. b \in P <=> step[b] = "push"
  OBVIOUS
<1> HIDE DEF P, Q
<1>6. Cardinality(P \cup {b}) = IF b \in P THEN Cardinality(P) ELSE Cardinality(P) + 1
  BY <1>1, FS_AddElement
<1>7. Cardinality(P \ {b}) = IF b \in P THEN Cardinality(P) - 1 ELSE Cardinality(P)
  BY <1>1, FS_RemoveElement
<1> QED
  BY <1>1, <1>2, <1>3, <1>4, <1>5, <1>6, <1>7

LEMMA ExcessArithmetic ==
  ASSUME NEW f \in Nat, NEW g \in Nat, NEW x \in Nat, NEW y \in Nat, NEW p \in Nat, NEW q \in Nat, NEW m \in Nat,
         f + x <= m - 1 + (IF p >= 1 THEN p ELSE 1),
         (g + y <= f + x /\ q >= p) \/ (g < m /\ q >= y)
  PROVE  g + y <= m - 1 + (IF q >= 1 THEN q ELSE 1)
<1>1. CASE g + y <= f + x /\ q >= p
  <2>1. (IF p >= 1 THEN p ELSE 1) <= (IF q >= 1 THEN q ELSE 1)
    BY <1>1
  <2> QED
    BY <1>1, <2>1
<1>2. CASE g < m /\ q >= y
  BY <1>2
<1> QED
  BY <1>1, <1>2

\* What a step must do to the number parked and the returns under way.
LEMMA ExcessStep ==
  ASSUME PoolIInv, PoolTypeOK', pushing(step) \in Nat, pushing(step') \in Nat,
         \/ free' + pushing(step') <= free + pushing(step) /\ peak' >= peak
         \/ free' < MaxIdle /\ peak' >= pushing(step')
  PROVE  PoolIInv'
<1>1. free \in Nat /\ free' \in Nat /\ peak \in Nat /\ peak' \in Nat /\ MaxIdle \in Nat
  <2>1. Cardinality(Borrowers) \in Nat
    BY PoolAssumption, FS_CardinalityType
  <2> QED
    BY <2>1, PoolAssumption DEF PoolIInv, PoolTypeOK
<1>2. /\ Max({peak, 1}) = IF peak >= 1 THEN peak ELSE 1
      /\ Max({peak', 1}) = IF peak' >= 1 THEN peak' ELSE 1
  BY <1>1, MaxOfTwo
<1>3. free + pushing(step) <= MaxIdle - 1 + (IF peak >= 1 THEN peak ELSE 1)
  BY <1>2 DEF PoolIInv, ExcessIsOverlap
<1>4. PICK x \in Nat, y \in Nat, f \in Nat, g \in Nat, p \in Nat, q \in Nat, m \in Nat :
        x = pushing(step) /\ y = pushing(step') /\ f = free /\ g = free' /\ p = peak /\ q = peak' /\ m = MaxIdle
  BY <1>1
<1>5. (g + y <= f + x /\ q >= p) \/ (g < m /\ q >= y)
  BY <1>4, Zenon
<1>6. f + x <= m - 1 + (IF p >= 1 THEN p ELSE 1)
  BY <1>3, <1>4, Zenon
<1>7. g + y <= m - 1 + (IF q >= 1 THEN q ELSE 1)
  BY <1>5, <1>6, ExcessArithmetic
<1>8. free' + pushing(step') <= MaxIdle - 1 + (IF peak' >= 1 THEN peak' ELSE 1)
  BY <1>4, <1>7, Zenon
<1> QED
  BY <1>2, <1>8 DEF PoolIInv, ExcessIsOverlap

LEMMA PoolStep ==
  ASSUME PoolIInv, PoolNext
  PROVE  PoolIInv'
<1>0. PoolTypeOK /\ Cardinality(Borrowers) \in Nat /\ MaxIdle \in Nat \ {0} /\ RingCap \in Nat /\ RingCap >= MaxIdle
  BY PoolAssumption, FS_CardinalityType DEF PoolIInv
<1>n. free \in 0..RingCap /\ peak \in 0..Cardinality(Borrowers)
  BY <1>0 DEF PoolTypeOK
<1>m. pushing(step) \in Nat
  BY PoolAssumption, FS_Subset, FS_CardinalityType DEF pushing
\* A borrower's step that looks at nothing but the number parked.
<1>b. ASSUME NEW b \in Borrowers, NEW s \in {"idle", "got", "clear", "using", "pushed", "stamp"}, stepTo(b, s),
             free' \in 0..RingCap, free' <= free \/ (step[b] = "push" /\ free' = free + 1),
             peak' = peak, janitor' = janitor, fullSince' \in {"no", "young", "old"}
      PROVE  PoolIInv'
  <2>1. /\ pushing(step') \in Nat
        /\ pushing(step') = IF step[b] = "push" THEN pushing(step) - 1 ELSE pushing(step)
    BY <1>0, <1>b, PushingMoves
  <2>2. PoolTypeOK'
    BY <1>0, <1>b DEF PoolTypeOK, stepTo
  <2>3. free' + pushing(step') <= free + pushing(step) /\ peak' >= peak
    BY <1>b, <1>n, <1>m, <2>1
  <2> QED
    BY <1>m, <2>1, <2>2, <2>3, ExcessStep
<1>1. ASSUME NEW b \in Borrowers, Get(b) PROVE PoolIInv'
  BY <1>0, <1>n, <1>1, <1>b DEF Get, PoolTypeOK
<1>2. ASSUME NEW b \in Borrowers, GetLooks(b) \/ GetClears(b) \/ PutLooks(b) PROVE PoolIInv'
  BY <1>0, <1>n, <1>2, <1>b DEF GetLooks, GetClears, PutLooks, PoolTypeOK
<1>3. ASSUME NEW b \in Borrowers, PutPushes(b) PROVE PoolIInv'
  BY <1>0, <1>n, <1>3, <1>b DEF PutPushes, PoolTypeOK
<1>4. ASSUME NEW b \in Borrowers, PutStamps(b) PROVE PoolIInv'
  BY <1>0, <1>n, <1>4, <1>b DEF PutStamps, PoolTypeOK
<1>5. ASSUME NEW b \in Borrowers, Put(b) PROVE PoolIInv'
  <2> DEFINE s == IF roomFor THEN "push" ELSE "idle"
  <2>1. step[b] = "using" /\ stepTo(b, s) /\ peak' = Max({peak, pushing(step')})
        /\ UNCHANGED <<free, fullSince, janitor>>
    BY <1>5 DEF Put
  <2>2. /\ pushing(step') \in 0..Cardinality(Borrowers)
        /\ pushing(step') = IF s = "push" THEN pushing(step) + 1 ELSE pushing(step)
    BY <1>0, <2>1, PushingMoves
  <2>3. peak' \in 0..Cardinality(Borrowers) /\ peak' >= peak /\ peak' >= pushing(step')
    BY <1>0, <1>n, <2>1, <2>2, MaxOfTwo
  <2>4. PoolTypeOK'
    BY <1>0, <2>1, <2>3 DEF PoolTypeOK, stepTo
  <2>5. \/ free' + pushing(step') <= free + pushing(step) /\ peak' >= peak
        \/ free' < MaxIdle /\ peak' >= pushing(step')
    BY <1>m, <1>n, <2>1, <2>2, <2>3 DEF roomFor
  <2> QED
    BY <1>m, <2>2, <2>4, <2>5, ExcessStep
<1>6. ASSUME MinutePasses \/ Trimming PROVE PoolIInv'
  <2>1. UNCHANGED <<step, peak>> /\ free' <= free /\ PoolTypeOK'
    BY <1>0, <1>n, <1>6 DEF MinutePasses, Trimming, TrimTick, TrimPops, TrimEnds, PoolTypeOK
  <2>2. pushing(step') = pushing(step)
    BY <2>1
  <2>3. free' + pushing(step') <= free + pushing(step) /\ peak' >= peak
    BY <1>m, <1>n, <2>1, <2>2 DEF PoolTypeOK
  <2> QED
    BY <1>m, <2>1, <2>2, <2>3, ExcessStep
<1> QED
  BY <1>1, <1>2, <1>3, <1>4, <1>5, <1>6 DEF PoolNext, Returning

LEMMA InitPool ==
  ASSUME PoolInit
  PROVE  PoolIInv
<1>1. Cardinality(Borrowers) \in Nat
  BY PoolAssumption, FS_CardinalityType
<1>2. PoolTypeOK
  BY <1>1, PoolAssumption DEF PoolInit, PoolTypeOK
<1>3. {b \in Borrowers : step[b] = "push"} = {}
  BY DEF PoolInit
<1>4. Cardinality({}) = 0
  BY FS_EmptySet
<1>5. pushing(step) = 0
  BY <1>3, <1>4 DEF pushing
<1>6. Max({0, 1}) = 1
  BY MaxOfTwo
<1>7. free = 0 /\ peak = 0 /\ MaxIdle \in Nat \ {0}
  BY PoolAssumption DEF PoolInit
<1>8. ExcessIsOverlap
  BY <1>5, <1>6, <1>7 DEF ExcessIsOverlap
<1> QED
  BY <1>2, <1>8 DEF PoolIInv

\* The pool never parks more than maxIdle buffers and one for each return
\* that overlapped another (bufPool.put), for every size and every number of
\* relays.
THEOREM ExcessStaysOverlap == PoolSpec => [](PoolTypeOK /\ ExcessIsOverlap)
<1>1. PoolIInv /\ [PoolNext]_poolVars => PoolIInv'
  <2>1. ASSUME PoolIInv, UNCHANGED poolVars PROVE PoolIInv'
    BY <2>1 DEF PoolIInv, poolVars, PoolTypeOK, ExcessIsOverlap, pushing
  <2> QED
    BY <2>1, PoolStep
<1> QED
  BY <1>1, InitPool, PTL DEF PoolSpec, PoolIInv
=============================================================================
