----------------------------- MODULE RelayProofs -----------------------------
(***************************************************************************)
(* Proofs about Relay, for any amount of data, any timeouts and limits and *)
(* whatever the peers and the console do: no byte is made up, a half-close *)
(* follows all the data, a stream that ends short is on record as such,    *)
(* the record of the end is true, and a stop is not lost.                  *)
(***************************************************************************)
EXTENDS Relay, TLAPS

-----------------------------------------------------------------------------
(* The inductive invariant *)

\* A pump that still moves bytes, and one that has recorded its end.
Moving == {"off", "top", "read", "batch", "limit", "write", "failed"}
Recorded(d) == pc[d] \in {"shut", "over"} /\ dirState[d] = "halfClosed"

\* What a pump holds, and what its error and its forward flag stand for.
PumpsOK ==
  \A d \in Dirs :
    /\ pc[d] \in Moving => delivered[d] + held[d] + unread[d] = sent[d] /\ ~forward[d]
    /\ pc[d] \in {"off", "top", "read", "failed"} => held[d] = 0
    /\ err[d] = "eof" => ending[d] = "fin" /\ unread[d] = 0
    /\ err[d] \in {"reset", "cut"} => ending[d] = err[d]
    /\ err[d] = "closed" => closed
    /\ forward[d] => ending[d] = "fin" /\ delivered[d] = sent[d] /\ pc[d] \in {"store", "record", "shut", "over"}
    /\ pc[d] = "shut" => forward[d]

\* A socket is shut, and a peer's end an answer, only after the end is recorded.
ShutsOK ==
  \A d \in Dirs :
    /\ pc[d] \in Moving \cup {"store"} => dirState[d] = "open"
    /\ pc[d] \in {"record", "shut"} => dirState[d] = "halfClosed"
    /\ shut[To(d)] => forward[d] /\ pc[d] = "over" /\ dirState[d] = "halfClosed"
    /\ answered[d] => shut[From(d)] /\ ending[d] # "open"

\* closeAll's order: a reason, then done, then the sockets.
ClosingOK ==
  /\ closed => closeReason # None
  /\ done => closed
  /\ \A s \in Sides : ~open[s] => closed
  /\ \A a \in Actors :
       /\ pc[a] = "mark" => why[a] # None
       /\ pc[a] \in {"signal", "client", "server"} => closed
       /\ pc[a] \in {"client", "server"} => done
       /\ why[a] # "ends"
       /\ why[a] = "error" => \E d \in Dirs : ending[d] = "reset"
       /\ why[a] = "cut" => \E d \in Dirs : ending[d] = "cut"

\* The record of the first end and of a mutual close.
RecordsOK ==
  /\ (\A d \in Dirs : Recorded(d)) => closed
  /\ closeReason = "ends" => \A d \in Dirs : dirState[d] = "halfClosed"
  /\ \A d \in Dirs :
       /\ pc[d] = "over" => closed \/ dirState[d] = "halfClosed"
       /\ Recorded(d) => closed \/ firstClosed # None
       /\ firstClosed = d => dirState[d] = "halfClosed"
       /\ answered[d] /\ (dirState[d] = "halfClosed" => forward[d]) /\ (firstClosed # None \/ closeReason = "ends")
            => firstClosed = Other(d)

\* A direction that ended by itself is whole, or its receiver refused the rest.
ShortsOK ==
  /\ \A d \in Dirs : ~closed /\ (pc[d] = "store" \/ dirState[d] = "halfClosed") => forward[d] \/ ~accepts[To(d)]
  /\ closeReason = "ends" => \A d \in Dirs : forward[d] \/ ~accepts[To(d)]

\* The handler, and a stop it still has to apply.
HandlerOK ==
  /\ pc["handler"] \notin {"wait", "end", "over"} => \A d \in Dirs : pc[d] = "off"
  /\ pc["handler"] \in Closing => ret["handler"] \in {"recheck", "start"}
  /\ pc["console"] \in Closing => kill
  /\ kill <=> pc["handler"] # "setkill"
  /\ pc["handler"] \in {"end", "over"} => closed
  /\ pc["handler"] = "over" => endReason # None
  /\ pc["console"] = "over" =>
       IF kill THEN (closed /\ done) \/ pc["handler"] \in {"mark", "signal"} ELSE killReason # None

IInv ==
  /\ TypeOK /\ BytesConserved /\ PumpsOK /\ ShutsOK
  /\ ClosingOK /\ ErrorsAreThePeers /\ RecordsOK /\ ShortsOK /\ HandlerOK

-----------------------------------------------------------------------------
(* Lemmas about directions, sides and actors *)

\* Each direction has two ends, which the other one has too, swapped.
LEMMA Ends ==
  /\ \A d \in Dirs : From(d) \in Sides /\ To(d) \in Sides /\ Other(d) \in Dirs /\ d \in Actors /\ Other(d) # d
  /\ \A d \in Dirs : To(Other(d)) = From(d) /\ From(Other(d)) = To(d)
  /\ \A d, e \in Dirs : (To(d) = To(e) => d = e) /\ (d = e \/ e = Other(d))
  /\ \A a \in {"timer", "console", "handler"} : a \in Actors /\ a \notin Dirs
BY DEF From, To, Other, Dirs, Sides, Actors

\* No reason is the name of none.
LEMMA ReasonsAreSome == None \notin Dirs \cup {"ends", "half", "idle", "stalled", "cut", "error", "stop"}
BY RelayAssumption

-----------------------------------------------------------------------------
(* Types, and bytes *)

\* The peers, the sockets and the pumps' buffers.
LEMMA StreamsStep ==
  ASSUME TypeStreams, Next
  PROVE  TypeStreams'
<1>h. TypeStreams
  OBVIOUS
<1>u. ASSUME UNCHANGED <<peers, sockets, buffers, answered>> PROVE TypeStreams'
  BY <1>h, <1>u DEF TypeStreams, peers, sockets, buffers
<1>1. ASSUME Tick \/ (\E a \in Actors : CloseMark(a)) \/ (\E a \in Actors : CloseSignal(a)) \/ (\E d \in Dirs :
            PumpLimitPassed(d)) \/ (\E d \in Dirs : PumpLimitCancelled(d)) \/ (\E d \in Dirs : PumpWoken(d)) \/
            (\E d \in Dirs : PumpKeepsWaiting(d)) \/ (\E d \in Dirs : PumpIdle(d))
     PROVE  UNCHANGED <<peers, sockets, buffers, answered>>
  BY <1>1 DEF Tick, CloseMark, CloseSignal, PumpLimitPassed, PumpLimitCancelled, PumpWoken, PumpKeepsWaiting,
    PumpIdle, goto, callCloseAll, peers, sockets, buffers
<1>2. ASSUME (\E d \in Dirs : PumpCut(d)) \/ (\E d \in Dirs : PumpError(d)) \/ (\E d \in Dirs : EndStore(d)) \/
            (\E d \in Dirs : EndRecord(d)) \/ TimerFires \/ SetKill \/ Recheck \/ StartPumps
     PROVE  UNCHANGED <<peers, sockets, buffers, answered>>
  BY <1>2 DEF PumpCut, PumpError, EndStore, EndRecord, TimerFires, SetKill, Recheck, StartPumps, callCloseAll,
    goto, recordEnd, peers, sockets, buffers
<1>3. ASSUME Finish \/ (\E what \in Stops : ConsoleStops(what)) \/ Stop
     PROVE  UNCHANGED <<peers, sockets, buffers, answered>>
  BY <1>3 DEF Finish, ConsoleStops, Stop, goto, callCloseAll, peers, sockets, buffers
<1>4. ASSUME NEW d \in Dirs, PeerSend(d) PROVE TypeStreams'
  BY <1>h, <1>4, Ends DEF PeerSend, peers, sockets, buffers, TypeStreams
<1>5. ASSUME NEW d \in Dirs, NEW how \in Endings, PeerEnds(d, how) PROVE TypeStreams'
  BY <1>h, <1>5, Ends, RelayAssumption DEF PeerEnds, peers, sockets, buffers, TypeStreams
<1>6. ASSUME NEW s \in Refusers, PeerStopsReading(s) PROVE TypeStreams'
  BY <1>h, <1>6, Ends DEF PeerStopsReading, peers, sockets, buffers, TypeStreams
<1>7. ASSUME NEW a \in Actors, CloseClient(a) PROVE TypeStreams'
  BY <1>h, <1>7, Ends DEF CloseClient, goto, closeSocket, peers, sockets, buffers, TypeStreams
<1>8. ASSUME NEW a \in Actors, CloseServer(a) PROVE TypeStreams'
  BY <1>h, <1>8, Ends DEF CloseServer, closeSocket, peers, sockets, buffers, TypeStreams
<1>9. ASSUME NEW d \in Dirs, PumpDeadline(d) PROVE TypeStreams'
  BY <1>h, <1>9, Ends DEF PumpDeadline, goto, peers, sockets, buffers, TypeStreams
<1>10. ASSUME NEW d \in Dirs, PumpRead(d) PROVE TypeStreams'
  <2>1. PICK n \in 1..unread[d] : take(d, n)
    BY <1>10 DEF PumpRead
  <2>2. unread[d] - n \in Nat /\ held[d] + n \in Nat
    BY <1>h, <2>1 DEF TypeStreams
  <2> QED
    BY <1>h, <1>10, <2>1, <2>2 DEF PumpRead, take, sockets, TypeStreams
<1>11. ASSUME NEW d \in Dirs, PumpReadFails(d) PROVE TypeStreams'
  <2>1. \E e \in {"eof", "cut", "reset", "closed", "timeout"} : err' = [err EXCEPT ![d] = e]
    BY <1>11 DEF PumpReadFails, ReadErrors
  <2> QED
    BY <1>h, <1>11, <2>1 DEF PumpReadFails, peers, sockets, TypeStreams
<1>12. ASSUME NEW d \in Dirs, PumpBatch(d) PROVE TypeStreams'
  <2>1. PICK n \in 0..(IF open[From(d)] THEN unread[d] ELSE 0) :
          take(d, n) /\ \E e \in {"none"} \cup ReadErrors(d, unread[d] - n) : err' = [err EXCEPT ![d] = e]
    BY <1>12 DEF PumpBatch
  <2>2. n \in 0..unread[d] /\ \E e \in {"none", "eof", "cut", "reset", "closed"} : err' = [err EXCEPT ![d] = e]
    <3>1. unread[d] \in Nat
      BY <1>h DEF TypeStreams
    <3>2. \A left : ReadErrors(d, left) \subseteq {"eof", "cut", "reset", "closed"}
      BY DEF ReadErrors
    <3>3. n \in 0..unread[d]
      BY <2>1, <3>1
    <3> QED
      BY <2>1, <3>2, <3>3
  <2>3. unread[d] - n \in Nat /\ held[d] + n \in Nat
    BY <1>h, <2>2 DEF TypeStreams
  <2>4. UNCHANGED <<accepts, sockets, delivered, forward, answered, sent, ending>>
    BY <1>12, <2>1 DEF PumpBatch, take
  <2> QED
    BY <1>h, <2>1, <2>2, <2>3, <2>4 DEF take, sockets, TypeStreams
<1>13. ASSUME NEW d \in Dirs, PumpWrite(d) PROVE TypeStreams'
  <2>1. delivered[d] + held[d] \in Nat
    BY <1>h DEF TypeStreams
  <2> QED
    BY <1>h, <1>13, <2>1 DEF PumpWrite, wrote, peers, sockets, TypeStreams
<1>14. ASSUME NEW d \in Dirs, PumpWriteFails(d) PROVE TypeStreams'
  <2>1. PICK n \in 0..(held[d] - 1) : wrote(d, n)
    BY <1>14 DEF PumpWriteFails
  <2>2. delivered[d] + n \in Nat
    BY <1>h, <2>1 DEF TypeStreams
  <2> QED
    BY <1>h, <1>14, <2>1, <2>2 DEF PumpWriteFails, wrote, peers, sockets, TypeStreams
<1>15. ASSUME NEW d \in Dirs, PumpWriteStalls(d) PROVE TypeStreams'
  <2>1. PICK n \in 0..(held[d] - 1) : wrote(d, n)
    BY <1>15 DEF PumpWriteStalls
  <2>2. delivered[d] + n \in Nat
    BY <1>h, <2>1 DEF TypeStreams
  <2> QED
    BY <1>h, <1>15, <2>1, <2>2 DEF PumpWriteStalls, wrote, peers, sockets, TypeStreams
<1>16. ASSUME NEW d \in Dirs, PumpEOF(d) PROVE TypeStreams'
  BY <1>h, <1>16, Ends DEF PumpEOF, goto, peers, sockets, buffers, TypeStreams
<1>17. ASSUME NEW d \in Dirs, EndShut(d) PROVE TypeStreams'
  BY <1>h, <1>17, Ends DEF EndShut, goto, closeWrite, peers, sockets, buffers, TypeStreams
<1>18. ASSUME SetEnd PROVE TypeStreams'
  BY <1>h, <1>18, Ends DEF SetEnd, goto, peers, sockets, buffers, TypeStreams
<1>19. ASSUME Over PROVE TypeStreams'
  BY <1>u, <1>19 DEF Over, vars, peers, sockets, buffers, clock, record, stopping, control
<1> QED
  BY <1>u, <1>1, <1>2, <1>3, <1>4, <1>5, <1>6, <1>7, <1>8, <1>9, <1>10, <1>11, <1>12, <1>13, <1>14, <1>15,
    <1>16, <1>17, <1>18, <1>19 DEF Next, PeerStep, CloseStep, PumpStep, HandlerStep

\* The deadlines.
LEMMA ClockStep ==
  ASSUME TypeClock, Next
  PROVE  TypeClock'
<1>h. TypeClock
  OBVIOUS
<1>u. ASSUME UNCHANGED <<clock>> PROVE TypeClock'
  BY <1>h, <1>u DEF TypeClock, clock
<1>1. ASSUME (\E d \in Dirs : PeerSend(d)) \/ (\E d \in Dirs, how \in Endings : PeerEnds(d, how)) \/ (\E s \in
            Refusers : PeerStopsReading(s)) \/ (\E a \in Actors : CloseMark(a)) \/ (\E a \in Actors :
            CloseSignal(a)) \/ (\E a \in Actors : CloseClient(a)) \/ (\E a \in Actors : CloseServer(a)) \/ (\E d
            \in Dirs : PumpRead(d))
     PROVE  UNCHANGED <<clock>>
  BY <1>1 DEF PeerSend, PeerEnds, PeerStopsReading, CloseMark, CloseSignal, CloseClient, CloseServer, PumpRead,
    goto, closeSocket, take, clock
<1>2. ASSUME (\E d \in Dirs : PumpReadFails(d)) \/ (\E d \in Dirs : PumpLimitCancelled(d)) \/ (\E d \in Dirs :
            PumpEOF(d)) \/ (\E d \in Dirs : PumpWoken(d)) \/ (\E d \in Dirs : PumpKeepsWaiting(d)) \/ (\E d \in
            Dirs : PumpIdle(d)) \/ (\E d \in Dirs : PumpCut(d)) \/ (\E d \in Dirs : PumpError(d))
     PROVE  UNCHANGED <<clock>>
  BY <1>2 DEF PumpReadFails, PumpLimitCancelled, PumpEOF, PumpWoken, PumpKeepsWaiting, PumpIdle, PumpCut,
    PumpError, goto, callCloseAll, clock
<1>3. ASSUME (\E d \in Dirs : EndStore(d)) \/ (\E d \in Dirs : EndRecord(d)) \/ (\E d \in Dirs : EndShut(d)) \/
            TimerFires \/ SetKill \/ Recheck \/ StartPumps \/ Finish
     PROVE  UNCHANGED <<clock>>
  BY <1>3 DEF EndStore, EndRecord, EndShut, TimerFires, SetKill, Recheck, StartPumps, Finish, goto, recordEnd,
    closeWrite, callCloseAll, clock
<1>4. ASSUME SetEnd \/ (\E what \in Stops : ConsoleStops(what)) \/ Stop
     PROVE  UNCHANGED <<clock>>
  BY <1>4 DEF SetEnd, ConsoleStops, Stop, goto, callCloseAll, clock
<1>5. ASSUME Tick PROVE TypeClock'
  BY <1>h, <1>5, RelayAssumption DEF Tick, down, TypeClock
<1>6. ASSUME NEW d \in Dirs, PumpDeadline(d) PROVE TypeClock'
  BY <1>h, <1>6, RelayAssumption DEF PumpDeadline, goto, clock, TypeClock
<1>7. ASSUME NEW d \in Dirs, PumpBatch(d) PROVE TypeClock'
  BY <1>h, <1>7, RelayAssumption DEF PumpBatch, goto, take, ReadErrors, clock, TypeClock
<1>8. ASSUME NEW d \in Dirs, PumpLimitPassed(d) PROVE TypeClock'
  BY <1>h, <1>8, RelayAssumption DEF PumpLimitPassed, goto, clock, TypeClock
<1>9. ASSUME NEW d \in Dirs, PumpWrite(d) PROVE TypeClock'
  BY <1>h, <1>9, RelayAssumption DEF PumpWrite, goto, wrote, clock, TypeClock
<1>10. ASSUME NEW d \in Dirs, PumpWriteFails(d) PROVE TypeClock'
  BY <1>h, <1>10, RelayAssumption DEF PumpWriteFails, goto, wrote, clock, TypeClock
<1>11. ASSUME NEW d \in Dirs, PumpWriteStalls(d) PROVE TypeClock'
  BY <1>h, <1>11, RelayAssumption DEF PumpWriteStalls, callCloseAll, wrote, clock, TypeClock
<1>12. ASSUME Over PROVE TypeClock'
  BY <1>u, <1>12 DEF Over, vars, peers, sockets, buffers, clock, record, stopping, control
<1> QED
  BY <1>u, <1>1, <1>2, <1>3, <1>4, <1>5, <1>6, <1>7, <1>8, <1>9, <1>10, <1>11, <1>12 DEF Next, PeerStep,
    CloseStep, PumpStep, HandlerStep

\* The connection's record.
LEMMA RecordStep ==
  ASSUME TypeRecord, TypeControl, Next
  PROVE  TypeRecord'
<1>h. TypeRecord /\ TypeControl
  OBVIOUS
<1>u. ASSUME UNCHANGED <<record, stopping, done>> PROVE TypeRecord'
  BY <1>h, <1>u DEF TypeRecord, TypeControl, Reasons, record, stopping
<1>1. ASSUME (\E d \in Dirs : PeerSend(d)) \/ (\E d \in Dirs, how \in Endings : PeerEnds(d, how)) \/ (\E s \in
            Refusers : PeerStopsReading(s)) \/ Tick \/ (\E a \in Actors : CloseClient(a)) \/ (\E a \in Actors :
            CloseServer(a)) \/ (\E d \in Dirs : PumpDeadline(d)) \/ (\E d \in Dirs : PumpRead(d))
     PROVE  UNCHANGED <<record, stopping, done>>
  BY <1>1 DEF PeerSend, PeerEnds, PeerStopsReading, Tick, CloseClient, CloseServer, PumpDeadline, PumpRead,
    goto, closeSocket, take, record, stopping
<1>2. ASSUME (\E d \in Dirs : PumpReadFails(d)) \/ (\E d \in Dirs : PumpBatch(d)) \/ (\E d \in Dirs :
            PumpLimitPassed(d)) \/ (\E d \in Dirs : PumpLimitCancelled(d)) \/ (\E d \in Dirs : PumpWrite(d)) \/
            (\E d \in Dirs : PumpWriteFails(d)) \/ (\E d \in Dirs : PumpWriteStalls(d)) \/ (\E d \in Dirs :
            PumpEOF(d))
     PROVE  UNCHANGED <<record, stopping, done>>
  BY <1>2 DEF PumpReadFails, PumpBatch, PumpLimitPassed, PumpLimitCancelled, PumpWrite, PumpWriteFails,
    PumpWriteStalls, PumpEOF, goto, take, wrote, callCloseAll, record, stopping
<1>3. ASSUME (\E d \in Dirs : PumpWoken(d)) \/ (\E d \in Dirs : PumpKeepsWaiting(d)) \/ (\E d \in Dirs :
            PumpIdle(d)) \/ (\E d \in Dirs : PumpCut(d)) \/ (\E d \in Dirs : PumpError(d)) \/ (\E d \in Dirs :
            EndShut(d)) \/ Recheck \/ StartPumps
     PROVE  UNCHANGED <<record, stopping, done>>
  BY <1>3 DEF PumpWoken, PumpKeepsWaiting, PumpIdle, PumpCut, PumpError, EndShut, Recheck, StartPumps, goto,
    callCloseAll, closeWrite, record, stopping
<1>4. ASSUME NEW a \in Actors, CloseMark(a) PROVE TypeRecord'
  BY <1>h, <1>4, Ends DEF CloseMark, goto, record, stopping, TypeRecord, TypeControl, Reasons
<1>5. ASSUME NEW a \in Actors, CloseSignal(a) PROVE TypeRecord'
  BY <1>h, <1>5, Ends DEF CloseSignal, goto, record, stopping, TypeRecord, TypeControl, Reasons
<1>6. ASSUME NEW d \in Dirs, EndStore(d) PROVE TypeRecord'
  BY <1>h, <1>6, Ends DEF EndStore, goto, record, stopping, TypeRecord, TypeControl, Reasons
<1>7. ASSUME NEW d \in Dirs, EndRecord(d) PROVE TypeRecord'
  <2>1. UNCHANGED <<dirState, stopping, done>> /\ recordEnd(d)
    BY <1>7 DEF EndRecord
  <2>2. closed' \in BOOLEAN /\ closeReason' \in Reasons
    BY <1>h, <2>1 DEF recordEnd, TypeRecord, Reasons
  <2>3. firstClosed' \in Dirs \cup {None} /\ halfCloseTimer' \in {"none", "armed", "fired", "stopped"}
    BY <1>h, <2>1 DEF recordEnd, TypeRecord
  <2> QED
    BY <1>h, <2>1, <2>2, <2>3 DEF stopping, TypeRecord
<1>8. ASSUME TimerFires PROVE TypeRecord'
  BY <1>h, <1>8, Ends DEF TimerFires, callCloseAll, record, stopping, TypeRecord, TypeControl, Reasons
<1>9. ASSUME SetKill PROVE TypeRecord'
  BY <1>h, <1>9, Ends DEF SetKill, goto, callCloseAll, record, stopping, TypeRecord, TypeControl, Reasons
<1>10. ASSUME Finish PROVE TypeRecord'
  BY <1>h, <1>10, Ends DEF Finish, goto, record, stopping, TypeRecord, TypeControl, Reasons
<1>11. ASSUME SetEnd PROVE TypeRecord'
  BY <1>h, <1>11, Ends DEF SetEnd, goto, record, stopping, TypeRecord, TypeControl, Reasons
<1>12. ASSUME NEW what \in Stops, ConsoleStops(what) PROVE TypeRecord'
  BY <1>h, <1>12, Ends DEF ConsoleStops, goto, record, stopping, TypeRecord, TypeControl, Reasons
<1>13. ASSUME Stop PROVE TypeRecord'
  BY <1>h, <1>13, Ends DEF Stop, goto, callCloseAll, record, stopping, TypeRecord, TypeControl, Reasons
<1>14. ASSUME Over PROVE TypeRecord'
  BY <1>u, <1>14 DEF Over, vars, peers, sockets, buffers, clock, record, stopping, control
<1> QED
  BY <1>u, <1>1, <1>2, <1>3, <1>4, <1>5, <1>6, <1>7, <1>8, <1>9, <1>10, <1>11, <1>12, <1>13, <1>14 DEF Next,
    PeerStep, CloseStep, PumpStep, HandlerStep

\* Where every actor is.
LEMMA ControlStep ==
  ASSUME TypeControl, Next
  PROVE  TypeControl'
<1>h. TypeControl
  OBVIOUS
<1>u. ASSUME UNCHANGED <<control>> PROVE TypeControl'
  BY <1>h, <1>u DEF TypeControl, Steps, Closing, PumpSteps, Reasons, control
<1>1. ASSUME (\E d \in Dirs : PeerSend(d)) \/ (\E d \in Dirs, how \in Endings : PeerEnds(d, how)) \/ (\E s \in
            Refusers : PeerStopsReading(s)) \/ Tick
     PROVE  UNCHANGED <<control>>
  BY <1>1 DEF PeerSend, PeerEnds, PeerStopsReading, Tick, control
<1>2. ASSUME NEW a \in Actors, CloseMark(a) PROVE TypeControl'
  BY <1>h, <1>2, Ends DEF CloseMark, goto, control, TypeControl, Steps, Closing, PumpSteps, Reasons
<1>3. ASSUME NEW a \in Actors, CloseSignal(a) PROVE TypeControl'
  BY <1>h, <1>3, Ends DEF CloseSignal, goto, control, TypeControl, Steps, Closing, PumpSteps, Reasons
<1>4. ASSUME NEW a \in Actors, CloseClient(a) PROVE TypeControl'
  BY <1>h, <1>4, Ends DEF CloseClient, goto, closeSocket, control, TypeControl, Steps, Closing, PumpSteps,
    Reasons
<1>5. ASSUME NEW a \in Actors, CloseServer(a) PROVE TypeControl'
  BY <1>h, <1>5, Ends DEF CloseServer, closeSocket, TypeControl, Steps, Closing, PumpSteps, Reasons
<1>6. ASSUME NEW d \in Dirs, PumpDeadline(d) PROVE TypeControl'
  BY <1>h, <1>6, Ends DEF PumpDeadline, goto, control, TypeControl, Steps, Closing, PumpSteps, Reasons
<1>7. ASSUME NEW d \in Dirs, PumpRead(d) PROVE TypeControl'
  BY <1>h, <1>7, Ends DEF PumpRead, goto, take, control, TypeControl, Steps, Closing, PumpSteps, Reasons
<1>8. ASSUME NEW d \in Dirs, PumpReadFails(d) PROVE TypeControl'
  BY <1>h, <1>8, Ends DEF PumpReadFails, goto, ReadErrors, TimedOut, control, TypeControl, Steps, Closing,
    PumpSteps, Reasons
<1>9. ASSUME NEW d \in Dirs, PumpBatch(d) PROVE TypeControl'
  BY <1>h, <1>9, Ends DEF PumpBatch, goto, take, ReadErrors, control, TypeControl, Steps, Closing, PumpSteps,
    Reasons
<1>10. ASSUME NEW d \in Dirs, PumpLimitPassed(d) PROVE TypeControl'
  BY <1>h, <1>10, Ends DEF PumpLimitPassed, goto, control, TypeControl, Steps, Closing, PumpSteps, Reasons
<1>11. ASSUME NEW d \in Dirs, PumpLimitCancelled(d) PROVE TypeControl'
  BY <1>h, <1>11, Ends DEF PumpLimitCancelled, goto, control, TypeControl, Steps, Closing, PumpSteps, Reasons
<1>12. ASSUME NEW d \in Dirs, PumpWrite(d) PROVE TypeControl'
  BY <1>h, <1>12, Ends DEF PumpWrite, goto, wrote, control, TypeControl, Steps, Closing, PumpSteps, Reasons
<1>13. ASSUME NEW d \in Dirs, PumpWriteFails(d) PROVE TypeControl'
  BY <1>h, <1>13, Ends DEF PumpWriteFails, goto, wrote, control, TypeControl, Steps, Closing, PumpSteps, Reasons
<1>14. ASSUME NEW d \in Dirs, PumpWriteStalls(d) PROVE TypeControl'
  BY <1>h, <1>14, Ends DEF PumpWriteStalls, callCloseAll, wrote, TypeControl, Steps, Closing, PumpSteps, Reasons
<1>15. ASSUME NEW d \in Dirs, PumpEOF(d) PROVE TypeControl'
  BY <1>h, <1>15, Ends DEF PumpEOF, goto, control, TypeControl, Steps, Closing, PumpSteps, Reasons
<1>16. ASSUME NEW d \in Dirs, PumpWoken(d) PROVE TypeControl'
  BY <1>h, <1>16, Ends DEF PumpWoken, goto, control, TypeControl, Steps, Closing, PumpSteps, Reasons
<1>17. ASSUME NEW d \in Dirs, PumpKeepsWaiting(d) PROVE TypeControl'
  BY <1>h, <1>17, Ends DEF PumpKeepsWaiting, goto, control, TypeControl, Steps, Closing, PumpSteps, Reasons
<1>18. ASSUME NEW d \in Dirs, PumpIdle(d) PROVE TypeControl'
  BY <1>h, <1>18, Ends DEF PumpIdle, callCloseAll, TypeControl, Steps, Closing, PumpSteps, Reasons
<1>19. ASSUME NEW d \in Dirs, PumpCut(d) PROVE TypeControl'
  BY <1>h, <1>19, Ends DEF PumpCut, callCloseAll, TypeControl, Steps, Closing, PumpSteps, Reasons
<1>20. ASSUME NEW d \in Dirs, PumpError(d) PROVE TypeControl'
  BY <1>h, <1>20, Ends DEF PumpError, callCloseAll, TypeControl, Steps, Closing, PumpSteps, Reasons
<1>21. ASSUME NEW d \in Dirs, EndStore(d) PROVE TypeControl'
  BY <1>h, <1>21, Ends DEF EndStore, goto, control, TypeControl, Steps, Closing, PumpSteps, Reasons
<1>22. ASSUME NEW d \in Dirs, EndRecord(d) PROVE TypeControl'
  BY <1>h, <1>22, Ends DEF EndRecord, goto, recordEnd, control, TypeControl, Steps, Closing, PumpSteps, Reasons
<1>23. ASSUME NEW d \in Dirs, EndShut(d) PROVE TypeControl'
  BY <1>h, <1>23, Ends DEF EndShut, goto, closeWrite, control, TypeControl, Steps, Closing, PumpSteps, Reasons
<1>24. ASSUME TimerFires PROVE TypeControl'
  BY <1>h, <1>24, Ends DEF TimerFires, callCloseAll, TypeControl, Steps, Closing, PumpSteps, Reasons
<1>25. ASSUME SetKill PROVE TypeControl'
  BY <1>h, <1>25, Ends DEF SetKill, goto, callCloseAll, TypeControl, Steps, Closing, PumpSteps, Reasons
<1>26. ASSUME Recheck PROVE TypeControl'
  BY <1>h, <1>26, Ends DEF Recheck, goto, callCloseAll, TypeControl, Steps, Closing, PumpSteps, Reasons
<1>27. ASSUME StartPumps PROVE TypeControl'
  BY <1>h, <1>27, Ends DEF StartPumps, control, TypeControl, Steps, Closing, PumpSteps, Reasons
<1>28. ASSUME Finish PROVE TypeControl'
  BY <1>h, <1>28, Ends DEF Finish, goto, control, TypeControl, Steps, Closing, PumpSteps, Reasons
<1>29. ASSUME SetEnd PROVE TypeControl'
  BY <1>h, <1>29, Ends DEF SetEnd, goto, control, TypeControl, Steps, Closing, PumpSteps, Reasons
<1>30. ASSUME NEW what \in Stops, ConsoleStops(what) PROVE TypeControl'
  BY <1>h, <1>30, Ends DEF ConsoleStops, goto, control, TypeControl, Steps, Closing, PumpSteps, Reasons
<1>31. ASSUME Stop PROVE TypeControl'
  BY <1>h, <1>31, Ends DEF Stop, goto, callCloseAll, TypeControl, Steps, Closing, PumpSteps, Reasons
<1>32. ASSUME Over PROVE TypeControl'
  BY <1>u, <1>32 DEF Over, vars, peers, sockets, buffers, clock, record, stopping, control
<1> QED
  BY <1>u, <1>1, <1>2, <1>3, <1>4, <1>5, <1>6, <1>7, <1>8, <1>9, <1>10, <1>11, <1>12, <1>13, <1>14, <1>15,
    <1>16, <1>17, <1>18, <1>19, <1>20, <1>21, <1>22, <1>23, <1>24, <1>25, <1>26, <1>27, <1>28, <1>29, <1>30,
    <1>31, <1>32 DEF Next, PeerStep, CloseStep, PumpStep, HandlerStep

\* What is delivered, held and unread.
LEMMA BytesStep ==
  ASSUME TypeStreams, BytesConserved, Next
  PROVE  BytesConserved'
<1>h. TypeStreams /\ BytesConserved
  OBVIOUS
<1>u. ASSUME UNCHANGED <<sent, unread, held, delivered>> PROVE BytesConserved'
  BY <1>h, <1>u DEF TypeStreams, BytesConserved
<1>1. ASSUME (\E d \in Dirs, how \in Endings : PeerEnds(d, how)) \/ (\E s \in Refusers : PeerStopsReading(s)) \/
            Tick \/ (\E a \in Actors : CloseMark(a)) \/ (\E a \in Actors : CloseSignal(a)) \/ (\E a \in Actors :
            CloseClient(a)) \/ (\E a \in Actors : CloseServer(a)) \/ (\E d \in Dirs : PumpDeadline(d))
     PROVE  UNCHANGED <<sent, unread, held, delivered>>
  BY <1>1 DEF PeerEnds, PeerStopsReading, Tick, CloseMark, CloseSignal, CloseClient, CloseServer, PumpDeadline,
    goto, closeSocket, peers, buffers
<1>2. ASSUME (\E d \in Dirs : PumpReadFails(d)) \/ (\E d \in Dirs : PumpLimitPassed(d)) \/ (\E d \in Dirs :
            PumpLimitCancelled(d)) \/ (\E d \in Dirs : PumpEOF(d)) \/ (\E d \in Dirs : PumpWoken(d)) \/ (\E d
            \in Dirs : PumpKeepsWaiting(d)) \/ (\E d \in Dirs : PumpIdle(d)) \/ (\E d \in Dirs : PumpCut(d))
     PROVE  UNCHANGED <<sent, unread, held, delivered>>
  BY <1>2 DEF PumpReadFails, PumpLimitPassed, PumpLimitCancelled, PumpEOF, PumpWoken, PumpKeepsWaiting,
    PumpIdle, PumpCut, goto, callCloseAll, peers, buffers
<1>3. ASSUME (\E d \in Dirs : PumpError(d)) \/ (\E d \in Dirs : EndStore(d)) \/ (\E d \in Dirs : EndRecord(d))
            \/ (\E d \in Dirs : EndShut(d)) \/ TimerFires \/ SetKill \/ Recheck \/ StartPumps
     PROVE  UNCHANGED <<sent, unread, held, delivered>>
  BY <1>3 DEF PumpError, EndStore, EndRecord, EndShut, TimerFires, SetKill, Recheck, StartPumps, callCloseAll,
    goto, recordEnd, closeWrite, peers, buffers
<1>4. ASSUME Finish \/ SetEnd \/ (\E what \in Stops : ConsoleStops(what)) \/ Stop
     PROVE  UNCHANGED <<sent, unread, held, delivered>>
  BY <1>4 DEF Finish, SetEnd, ConsoleStops, Stop, goto, callCloseAll, peers, buffers
<1>5. ASSUME NEW d \in Dirs, PeerSend(d) PROVE BytesConserved'
  BY <1>h, <1>5 DEF PeerSend, peers, buffers, TypeStreams, BytesConserved
<1>6. ASSUME NEW d \in Dirs, PumpRead(d) PROVE BytesConserved'
  BY <1>h, <1>6 DEF PumpRead, goto, take, peers, buffers, TypeStreams, BytesConserved
<1>7. ASSUME NEW d \in Dirs, PumpBatch(d) PROVE BytesConserved'
  BY <1>h, <1>7 DEF PumpBatch, goto, take, ReadErrors, peers, buffers, TypeStreams, BytesConserved
<1>8. ASSUME NEW d \in Dirs, PumpWrite(d) PROVE BytesConserved'
  BY <1>h, <1>8 DEF PumpWrite, goto, wrote, peers, buffers, TypeStreams, BytesConserved
<1>9. ASSUME NEW d \in Dirs, PumpWriteFails(d) PROVE BytesConserved'
  BY <1>h, <1>9 DEF PumpWriteFails, goto, wrote, peers, buffers, TypeStreams, BytesConserved
<1>10. ASSUME NEW d \in Dirs, PumpWriteStalls(d) PROVE BytesConserved'
  BY <1>h, <1>10 DEF PumpWriteStalls, callCloseAll, wrote, peers, buffers, TypeStreams, BytesConserved
<1>11. ASSUME Over PROVE BytesConserved'
  BY <1>u, <1>11 DEF Over, vars, peers, sockets, buffers, clock, record, stopping, control
<1> QED
  BY <1>u, <1>1, <1>2, <1>3, <1>4, <1>5, <1>6, <1>7, <1>8, <1>9, <1>10, <1>11 DEF Next, PeerStep, CloseStep,
    PumpStep, HandlerStep

-----------------------------------------------------------------------------
(* The pumps and the record *)

\* The pumps.
LEMMA PumpsStep ==
  ASSUME TypeStreams, TypeControl, PumpsOK, ClosingOK, HandlerOK, Next
  PROVE  PumpsOK'
<1>h. TypeStreams /\ TypeControl /\ PumpsOK /\ ClosingOK /\ HandlerOK
  OBVIOUS
<1>u. ASSUME UNCHANGED <<buffers, pc, unread, sent, ending, closed>> PROVE PumpsOK'
  BY <1>h, <1>u DEF TypeStreams, TypeControl, PumpsOK, Moving, ClosingOK, HandlerOK, buffers
<1>1. ASSUME (\E s \in Refusers : PeerStopsReading(s)) \/ Tick
     PROVE  UNCHANGED <<buffers, pc, unread, sent, ending, closed>>
  BY <1>1 DEF PeerStopsReading, Tick, peers, buffers, record, control
<1>2. ASSUME NEW d \in Dirs, PeerSend(d) PROVE PumpsOK'
  BY <1>h, <1>2, Ends DEF PeerSend, peers, buffers, record, control, TypeStreams, TypeControl, PumpsOK, Moving,
    ClosingOK, HandlerOK
<1>3. ASSUME NEW d \in Dirs, NEW how \in Endings, PeerEnds(d, how) PROVE PumpsOK'
  BY <1>h, <1>3, Ends DEF PeerEnds, peers, buffers, record, control, TypeStreams, TypeControl, PumpsOK, Moving,
    ClosingOK, HandlerOK
<1>4. ASSUME NEW a \in Actors, CloseMark(a) PROVE PumpsOK'
  BY <1>h, <1>4, Ends DEF CloseMark, goto, peers, buffers, record, control, TypeStreams, TypeControl, PumpsOK,
    Moving, ClosingOK, HandlerOK
<1>5. ASSUME NEW a \in Actors, CloseSignal(a) PROVE PumpsOK'
  BY <1>h, <1>5, Ends DEF CloseSignal, goto, peers, buffers, record, control, TypeStreams, TypeControl, PumpsOK,
    Moving, ClosingOK, HandlerOK
<1>6. ASSUME NEW a \in Actors, CloseClient(a) PROVE PumpsOK'
  BY <1>h, <1>6, Ends DEF CloseClient, goto, closeSocket, peers, buffers, record, control, TypeStreams,
    TypeControl, PumpsOK, Moving, ClosingOK, HandlerOK
<1>7. ASSUME NEW a \in Actors, CloseServer(a) PROVE PumpsOK'
  <2>1. pc[a] = "server" /\ pc' = [pc EXCEPT ![a] = ret[a]] /\ ret[a] \in {"over", "recheck", "start"}
    BY <1>h, <1>7 DEF CloseServer, TypeControl
  <2>2. UNCHANGED <<delivered, held, unread, sent, forward, err, ending, closed>>
    BY <1>7 DEF CloseServer, closeSocket, peers, buffers, record, stopping
  <2>3. \A b \in Actors : pc'[b] = pc[b] \/ (b = a /\ pc'[b] \in {"over", "recheck", "start"})
    BY <1>h, <2>1 DEF TypeControl
  <2> QED
    BY <1>h, <2>1, <2>2, <2>3, Ends DEF PumpsOK, Moving
<1>8. ASSUME NEW d \in Dirs, PumpDeadline(d) PROVE PumpsOK'
  BY <1>h, <1>8, Ends DEF PumpDeadline, goto, peers, buffers, record, control, TypeStreams, TypeControl,
    PumpsOK, Moving, ClosingOK, HandlerOK
<1>9. ASSUME NEW d \in Dirs, PumpRead(d) PROVE PumpsOK'
  BY <1>h, <1>9, Ends DEF PumpRead, goto, take, peers, buffers, record, control, TypeStreams, TypeControl,
    PumpsOK, Moving, ClosingOK, HandlerOK
<1>10. ASSUME NEW d \in Dirs, PumpReadFails(d) PROVE PumpsOK'
  <2>1. PICK e \in {"eof", "cut", "reset", "closed", "timeout"} :
          /\ err' = [err EXCEPT ![d] = e]
          /\ e = "eof" => ending[d] = "fin" /\ unread[d] = 0
          /\ e \in {"reset", "cut"} => ending[d] = e
          /\ e = "closed" => ~open[From(d)]
    BY <1>10 DEF PumpReadFails, ReadErrors
  <2>2. pc[d] = "read" /\ pc' = [pc EXCEPT ![d] = "failed"]
        /\ UNCHANGED <<delivered, held, unread, sent, forward, ending, closed>>
    BY <1>10 DEF PumpReadFails, goto, peers, record
  <2>3. e = "closed" => closed
    BY <1>h, <2>1, Ends DEF ClosingOK
  <2> QED
    BY <1>h, <2>1, <2>2, <2>3, Ends DEF TypeStreams, TypeControl, PumpsOK, Moving
<1>11. ASSUME NEW d \in Dirs, PumpBatch(d) PROVE PumpsOK'
  <2>1. PICK n \in 0..(IF open[From(d)] THEN unread[d] ELSE 0) :
          take(d, n) /\ \E e \in {"none"} \cup ReadErrors(d, unread[d] - n) : err' = [err EXCEPT ![d] = e]
    BY <1>11 DEF PumpBatch
  <2>2. n \in 0..unread[d] /\ n \in Nat
    BY <1>h, <2>1 DEF TypeStreams
  <2>3. unread' = [unread EXCEPT ![d] = unread[d] - n] /\ held' = [held EXCEPT ![d] = held[d] + n]
        /\ UNCHANGED <<sent, ending>>
    BY <2>1 DEF take
  <2>4. PICK e \in {"none"} \cup ReadErrors(d, unread[d] - n) : err' = [err EXCEPT ![d] = e]
    BY <2>1
  <2>5. /\ e \in {"none", "eof", "cut", "reset", "closed"}
        /\ e = "eof" => ending[d] = "fin" /\ unread[d] - n = 0
        /\ e \in {"reset", "cut"} => ending[d] = e
        /\ e = "closed" => ~open[From(d)]
    BY DEF ReadErrors
  <2>6. /\ pc[d] = "batch" /\ UNCHANGED <<delivered, forward, closed>>
        /\ \E l \in {"limit", "write"} : pc' = [pc EXCEPT ![d] = l]
    BY <1>11 DEF PumpBatch, goto, record
  <2>7. /\ pc'[d] \in {"limit", "write"} /\ unread'[d] = unread[d] - n /\ held'[d] = held[d] + n /\ err'[d] = e
        /\ \A f \in Dirs : f # d => pc'[f] = pc[f] /\ unread'[f] = unread[f] /\ held'[f] = held[f] /\ err'[f] = err[f]
    BY <1>h, <2>3, <2>4, <2>6, Ends DEF TypeStreams, TypeControl
  <2>8. closed' = closed /\ (e = "closed" => closed)
    BY <1>h, <2>5, <2>6, Ends DEF ClosingOK
  <2>9. /\ delivered[d] + held[d] + unread[d] = sent[d] /\ ~forward[d]
        /\ delivered[d] \in Nat /\ held[d] \in Nat /\ unread[d] \in Nat /\ sent[d] \in Nat
    BY <1>h, <2>6 DEF PumpsOK, Moving, TypeStreams
  <2>10. delivered'[d] + held'[d] + unread'[d] = sent'[d]
    BY <2>2, <2>3, <2>6, <2>7, <2>9
  <2> QED
    BY <1>h, <2>3, <2>5, <2>6, <2>7, <2>8, <2>9, <2>10 DEF PumpsOK, Moving
<1>12. ASSUME NEW d \in Dirs, PumpLimitPassed(d) PROVE PumpsOK'
  BY <1>h, <1>12, Ends DEF PumpLimitPassed, goto, peers, buffers, record, control, TypeStreams, TypeControl,
    PumpsOK, Moving, ClosingOK, HandlerOK
<1>13. ASSUME NEW d \in Dirs, PumpLimitCancelled(d) PROVE PumpsOK'
  BY <1>h, <1>13, Ends DEF PumpLimitCancelled, goto, peers, buffers, record, control, TypeStreams, TypeControl,
    PumpsOK, Moving, ClosingOK, HandlerOK
<1>14. ASSUME NEW d \in Dirs, PumpWrite(d) PROVE PumpsOK'
  BY <1>h, <1>14, Ends DEF PumpWrite, goto, wrote, peers, buffers, record, control, TypeStreams, TypeControl,
    PumpsOK, Moving, ClosingOK, HandlerOK
<1>15. ASSUME NEW d \in Dirs, PumpWriteFails(d) PROVE PumpsOK'
  BY <1>h, <1>15, Ends DEF PumpWriteFails, goto, wrote, peers, buffers, record, control, TypeStreams,
    TypeControl, PumpsOK, Moving, ClosingOK, HandlerOK
<1>16. ASSUME NEW d \in Dirs, PumpWriteStalls(d) PROVE PumpsOK'
  BY <1>h, <1>16, Ends DEF PumpWriteStalls, callCloseAll, wrote, peers, buffers, record, TypeStreams,
    TypeControl, PumpsOK, Moving, ClosingOK, HandlerOK
<1>17. ASSUME NEW d \in Dirs, PumpEOF(d) PROVE PumpsOK'
  BY <1>h, <1>17, Ends DEF PumpEOF, goto, peers, buffers, record, control, TypeStreams, TypeControl, PumpsOK,
    Moving, ClosingOK, HandlerOK
<1>18. ASSUME NEW d \in Dirs, PumpWoken(d) PROVE PumpsOK'
  BY <1>h, <1>18, Ends DEF PumpWoken, goto, peers, buffers, record, control, TypeStreams, TypeControl, PumpsOK,
    Moving, ClosingOK, HandlerOK
<1>19. ASSUME NEW d \in Dirs, PumpKeepsWaiting(d) PROVE PumpsOK'
  BY <1>h, <1>19, Ends DEF PumpKeepsWaiting, goto, peers, buffers, record, control, TypeStreams, TypeControl,
    PumpsOK, Moving, ClosingOK, HandlerOK
<1>20. ASSUME NEW d \in Dirs, PumpIdle(d) PROVE PumpsOK'
  BY <1>h, <1>20, Ends DEF PumpIdle, callCloseAll, peers, buffers, record, TypeStreams, TypeControl, PumpsOK,
    Moving, ClosingOK, HandlerOK
<1>21. ASSUME NEW d \in Dirs, PumpCut(d) PROVE PumpsOK'
  BY <1>h, <1>21, Ends DEF PumpCut, callCloseAll, peers, buffers, record, TypeStreams, TypeControl, PumpsOK,
    Moving, ClosingOK, HandlerOK
<1>22. ASSUME NEW d \in Dirs, PumpError(d) PROVE PumpsOK'
  BY <1>h, <1>22, Ends DEF PumpError, callCloseAll, peers, buffers, record, TypeStreams, TypeControl, PumpsOK,
    Moving, ClosingOK, HandlerOK
<1>23. ASSUME NEW d \in Dirs, EndStore(d) PROVE PumpsOK'
  BY <1>h, <1>23, Ends DEF EndStore, goto, peers, buffers, record, control, TypeStreams, TypeControl, PumpsOK,
    Moving, ClosingOK, HandlerOK
<1>24. ASSUME NEW d \in Dirs, EndRecord(d) PROVE PumpsOK'
  BY <1>h, <1>24, Ends DEF EndRecord, goto, recordEnd, peers, buffers, record, control, TypeStreams,
    TypeControl, PumpsOK, Moving, ClosingOK, HandlerOK
<1>25. ASSUME NEW d \in Dirs, EndShut(d) PROVE PumpsOK'
  BY <1>h, <1>25, Ends DEF EndShut, goto, closeWrite, peers, buffers, record, control, TypeStreams, TypeControl,
    PumpsOK, Moving, ClosingOK, HandlerOK
<1>26. ASSUME TimerFires PROVE PumpsOK'
  BY <1>h, <1>26, Ends DEF TimerFires, callCloseAll, peers, buffers, record, TypeStreams, TypeControl, PumpsOK,
    Moving, ClosingOK, HandlerOK
<1>27. ASSUME SetKill PROVE PumpsOK'
  BY <1>h, <1>27, Ends DEF SetKill, goto, callCloseAll, peers, buffers, record, TypeStreams, TypeControl,
    PumpsOK, Moving, ClosingOK, HandlerOK
<1>28. ASSUME Recheck PROVE PumpsOK'
  BY <1>h, <1>28, Ends DEF Recheck, goto, callCloseAll, peers, buffers, record, TypeStreams, TypeControl,
    PumpsOK, Moving, ClosingOK, HandlerOK
<1>29. ASSUME StartPumps PROVE PumpsOK'
  BY <1>h, <1>29, Ends DEF StartPumps, peers, buffers, record, control, TypeStreams, TypeControl, PumpsOK,
    Moving, ClosingOK, HandlerOK
<1>30. ASSUME Finish PROVE PumpsOK'
  BY <1>h, <1>30, Ends DEF Finish, goto, peers, buffers, record, control, TypeStreams, TypeControl, PumpsOK,
    Moving, ClosingOK, HandlerOK
<1>31. ASSUME SetEnd PROVE PumpsOK'
  BY <1>h, <1>31, Ends DEF SetEnd, goto, peers, buffers, record, control, TypeStreams, TypeControl, PumpsOK,
    Moving, ClosingOK, HandlerOK
<1>32. ASSUME NEW what \in Stops, ConsoleStops(what) PROVE PumpsOK'
  BY <1>h, <1>32, Ends DEF ConsoleStops, goto, peers, buffers, record, control, TypeStreams, TypeControl,
    PumpsOK, Moving, ClosingOK, HandlerOK
<1>33. ASSUME Stop PROVE PumpsOK'
  BY <1>h, <1>33, Ends DEF Stop, goto, callCloseAll, peers, buffers, record, TypeStreams, TypeControl, PumpsOK,
    Moving, ClosingOK, HandlerOK
<1>34. ASSUME Over PROVE PumpsOK'
  BY <1>u, <1>34 DEF Over, vars, peers, sockets, buffers, clock, record, stopping, control
<1> QED
  BY <1>u, <1>1, <1>2, <1>3, <1>4, <1>5, <1>6, <1>7, <1>8, <1>9, <1>10, <1>11, <1>12, <1>13, <1>14, <1>15,
    <1>16, <1>17, <1>18, <1>19, <1>20, <1>21, <1>22, <1>23, <1>24, <1>25, <1>26, <1>27, <1>28, <1>29, <1>30,
    <1>31, <1>32, <1>33, <1>34 DEF Next, PeerStep, CloseStep, PumpStep, HandlerStep

\* What is shut.
LEMMA ShutsStep ==
  ASSUME TypeStreams, TypeRecord, TypeControl, PumpsOK, ShutsOK, HandlerOK, Next
  PROVE  ShutsOK'
<1>h. TypeStreams /\ TypeRecord /\ TypeControl /\ PumpsOK /\ ShutsOK /\ HandlerOK
  OBVIOUS
<1>u. ASSUME UNCHANGED <<pc, dirState, shut, forward, answered, ending>> PROVE ShutsOK'
  BY <1>h, <1>u DEF TypeStreams, TypeRecord, TypeControl, PumpsOK, ShutsOK, Moving, HandlerOK
<1>1. ASSUME (\E d \in Dirs : PeerSend(d)) \/ (\E s \in Refusers : PeerStopsReading(s)) \/ Tick
     PROVE  UNCHANGED <<pc, dirState, shut, forward, answered, ending>>
  BY <1>1 DEF PeerSend, PeerStopsReading, Tick, peers, sockets, buffers, record, control
<1>2. ASSUME NEW d \in Dirs, NEW how \in Endings, PeerEnds(d, how) PROVE ShutsOK'
  <2>1. ending[d] = "open" /\ ending' = [ending EXCEPT ![d] = how] /\ answered' = [answered EXCEPT ![d] = shut[From(d)]]
        /\ how # "open" /\ UNCHANGED <<pc, dirState, shut, forward>>
    BY <1>2, RelayAssumption DEF PeerEnds, sockets, buffers, record, control
  <2> QED
    BY <1>h, <2>1, Ends DEF TypeStreams, ShutsOK, Moving
<1>3. ASSUME NEW a \in Actors, CloseMark(a) PROVE ShutsOK'
  BY <1>h, <1>3, Ends DEF CloseMark, goto, peers, sockets, buffers, record, control, TypeStreams, TypeRecord,
    TypeControl, PumpsOK, ShutsOK, Moving, HandlerOK
<1>4. ASSUME NEW a \in Actors, CloseSignal(a) PROVE ShutsOK'
  BY <1>h, <1>4, Ends DEF CloseSignal, goto, peers, sockets, buffers, record, control, TypeStreams, TypeRecord,
    TypeControl, PumpsOK, ShutsOK, Moving, HandlerOK
<1>5. ASSUME NEW a \in Actors, CloseClient(a) PROVE ShutsOK'
  BY <1>h, <1>5, Ends DEF CloseClient, goto, closeSocket, peers, sockets, buffers, record, control, TypeStreams,
    TypeRecord, TypeControl, PumpsOK, ShutsOK, Moving, HandlerOK
<1>6. ASSUME NEW a \in Actors, CloseServer(a) PROVE ShutsOK'
  <2>1. pc[a] = "server" /\ pc' = [pc EXCEPT ![a] = ret[a]] /\ ret[a] \in {"over", "recheck", "start"}
    BY <1>h, <1>6 DEF CloseServer, TypeControl
  <2>2. UNCHANGED <<dirState, shut, forward, answered, ending>>
    BY <1>6 DEF CloseServer, closeSocket, peers, buffers, record, stopping
  <2>3. \A b \in Actors : pc'[b] = pc[b] \/ (b = a /\ pc'[b] \in {"over", "recheck", "start"})
    BY <1>h, <2>1 DEF TypeControl
  <2> QED
    BY <1>h, <2>1, <2>2, <2>3, Ends DEF ShutsOK, Moving
<1>7. ASSUME NEW d \in Dirs, PumpDeadline(d) PROVE ShutsOK'
  BY <1>h, <1>7, Ends DEF PumpDeadline, goto, peers, sockets, buffers, record, control, TypeStreams, TypeRecord,
    TypeControl, PumpsOK, ShutsOK, Moving, HandlerOK
<1>8. ASSUME NEW d \in Dirs, PumpRead(d) PROVE ShutsOK'
  BY <1>h, <1>8, Ends DEF PumpRead, goto, take, peers, sockets, buffers, record, control, TypeStreams,
    TypeRecord, TypeControl, PumpsOK, ShutsOK, Moving, HandlerOK
<1>9. ASSUME NEW d \in Dirs, PumpReadFails(d) PROVE ShutsOK'
  BY <1>h, <1>9, Ends DEF PumpReadFails, goto, ReadErrors, TimedOut, peers, sockets, buffers, record, control,
    TypeStreams, TypeRecord, TypeControl, PumpsOK, ShutsOK, Moving, HandlerOK
<1>10. ASSUME NEW d \in Dirs, PumpBatch(d) PROVE ShutsOK'
  BY <1>h, <1>10, Ends DEF PumpBatch, goto, take, ReadErrors, peers, sockets, buffers, record, control,
    TypeStreams, TypeRecord, TypeControl, PumpsOK, ShutsOK, Moving, HandlerOK
<1>11. ASSUME NEW d \in Dirs, PumpLimitPassed(d) PROVE ShutsOK'
  BY <1>h, <1>11, Ends DEF PumpLimitPassed, goto, peers, sockets, buffers, record, control, TypeStreams,
    TypeRecord, TypeControl, PumpsOK, ShutsOK, Moving, HandlerOK
<1>12. ASSUME NEW d \in Dirs, PumpLimitCancelled(d) PROVE ShutsOK'
  BY <1>h, <1>12, Ends DEF PumpLimitCancelled, goto, peers, sockets, buffers, record, control, TypeStreams,
    TypeRecord, TypeControl, PumpsOK, ShutsOK, Moving, HandlerOK
<1>13. ASSUME NEW d \in Dirs, PumpWrite(d) PROVE ShutsOK'
  BY <1>h, <1>13, Ends DEF PumpWrite, goto, wrote, peers, sockets, buffers, record, control, TypeStreams,
    TypeRecord, TypeControl, PumpsOK, ShutsOK, Moving, HandlerOK
<1>14. ASSUME NEW d \in Dirs, PumpWriteFails(d) PROVE ShutsOK'
  BY <1>h, <1>14, Ends DEF PumpWriteFails, goto, wrote, peers, sockets, buffers, record, control, TypeStreams,
    TypeRecord, TypeControl, PumpsOK, ShutsOK, Moving, HandlerOK
<1>15. ASSUME NEW d \in Dirs, PumpWriteStalls(d) PROVE ShutsOK'
  BY <1>h, <1>15, Ends DEF PumpWriteStalls, callCloseAll, wrote, peers, sockets, buffers, record, TypeStreams,
    TypeRecord, TypeControl, PumpsOK, ShutsOK, Moving, HandlerOK
<1>16. ASSUME NEW d \in Dirs, PumpEOF(d) PROVE ShutsOK'
  BY <1>h, <1>16, Ends DEF PumpEOF, goto, peers, sockets, buffers, record, control, TypeStreams, TypeRecord,
    TypeControl, PumpsOK, ShutsOK, Moving, HandlerOK
<1>17. ASSUME NEW d \in Dirs, PumpWoken(d) PROVE ShutsOK'
  BY <1>h, <1>17, Ends DEF PumpWoken, goto, peers, sockets, buffers, record, control, TypeStreams, TypeRecord,
    TypeControl, PumpsOK, ShutsOK, Moving, HandlerOK
<1>18. ASSUME NEW d \in Dirs, PumpKeepsWaiting(d) PROVE ShutsOK'
  BY <1>h, <1>18, Ends DEF PumpKeepsWaiting, goto, peers, sockets, buffers, record, control, TypeStreams,
    TypeRecord, TypeControl, PumpsOK, ShutsOK, Moving, HandlerOK
<1>19. ASSUME NEW d \in Dirs, PumpIdle(d) PROVE ShutsOK'
  BY <1>h, <1>19, Ends DEF PumpIdle, callCloseAll, peers, sockets, buffers, record, TypeStreams, TypeRecord,
    TypeControl, PumpsOK, ShutsOK, Moving, HandlerOK
<1>20. ASSUME NEW d \in Dirs, PumpCut(d) PROVE ShutsOK'
  BY <1>h, <1>20, Ends DEF PumpCut, callCloseAll, peers, sockets, buffers, record, TypeStreams, TypeRecord,
    TypeControl, PumpsOK, ShutsOK, Moving, HandlerOK
<1>21. ASSUME NEW d \in Dirs, PumpError(d) PROVE ShutsOK'
  BY <1>h, <1>21, Ends DEF PumpError, callCloseAll, peers, sockets, buffers, record, TypeStreams, TypeRecord,
    TypeControl, PumpsOK, ShutsOK, Moving, HandlerOK
<1>22. ASSUME NEW d \in Dirs, EndStore(d) PROVE ShutsOK'
  BY <1>h, <1>22, Ends DEF EndStore, goto, peers, sockets, buffers, record, control, TypeStreams, TypeRecord,
    TypeControl, PumpsOK, ShutsOK, Moving, HandlerOK
<1>23. ASSUME NEW d \in Dirs, EndRecord(d) PROVE ShutsOK'
  BY <1>h, <1>23, Ends DEF EndRecord, goto, recordEnd, peers, sockets, buffers, record, control, TypeStreams,
    TypeRecord, TypeControl, PumpsOK, ShutsOK, Moving, HandlerOK
<1>24. ASSUME NEW d \in Dirs, EndShut(d) PROVE ShutsOK'
  BY <1>h, <1>24, Ends DEF EndShut, goto, closeWrite, peers, sockets, buffers, record, control, TypeStreams,
    TypeRecord, TypeControl, PumpsOK, ShutsOK, Moving, HandlerOK
<1>25. ASSUME TimerFires PROVE ShutsOK'
  BY <1>h, <1>25, Ends DEF TimerFires, callCloseAll, peers, sockets, buffers, record, TypeStreams, TypeRecord,
    TypeControl, PumpsOK, ShutsOK, Moving, HandlerOK
<1>26. ASSUME SetKill PROVE ShutsOK'
  BY <1>h, <1>26, Ends DEF SetKill, goto, callCloseAll, peers, sockets, buffers, record, TypeStreams,
    TypeRecord, TypeControl, PumpsOK, ShutsOK, Moving, HandlerOK
<1>27. ASSUME Recheck PROVE ShutsOK'
  BY <1>h, <1>27, Ends DEF Recheck, goto, callCloseAll, peers, sockets, buffers, record, TypeStreams,
    TypeRecord, TypeControl, PumpsOK, ShutsOK, Moving, HandlerOK
<1>28. ASSUME StartPumps PROVE ShutsOK'
  BY <1>h, <1>28, Ends DEF StartPumps, peers, sockets, buffers, record, control, TypeStreams, TypeRecord,
    TypeControl, PumpsOK, ShutsOK, Moving, HandlerOK
<1>29. ASSUME Finish PROVE ShutsOK'
  BY <1>h, <1>29, Ends DEF Finish, goto, peers, sockets, buffers, record, control, TypeStreams, TypeRecord,
    TypeControl, PumpsOK, ShutsOK, Moving, HandlerOK
<1>30. ASSUME SetEnd PROVE ShutsOK'
  BY <1>h, <1>30, Ends DEF SetEnd, goto, peers, sockets, buffers, record, control, TypeStreams, TypeRecord,
    TypeControl, PumpsOK, ShutsOK, Moving, HandlerOK
<1>31. ASSUME NEW what \in Stops, ConsoleStops(what) PROVE ShutsOK'
  BY <1>h, <1>31, Ends DEF ConsoleStops, goto, peers, sockets, buffers, record, control, TypeStreams,
    TypeRecord, TypeControl, PumpsOK, ShutsOK, Moving, HandlerOK
<1>32. ASSUME Stop PROVE ShutsOK'
  BY <1>h, <1>32, Ends DEF Stop, goto, callCloseAll, peers, sockets, buffers, record, TypeStreams, TypeRecord,
    TypeControl, PumpsOK, ShutsOK, Moving, HandlerOK
<1>33. ASSUME Over PROVE ShutsOK'
  BY <1>u, <1>33 DEF Over, vars, peers, sockets, buffers, clock, record, stopping, control
<1> QED
  BY <1>u, <1>1, <1>2, <1>3, <1>4, <1>5, <1>6, <1>7, <1>8, <1>9, <1>10, <1>11, <1>12, <1>13, <1>14, <1>15,
    <1>16, <1>17, <1>18, <1>19, <1>20, <1>21, <1>22, <1>23, <1>24, <1>25, <1>26, <1>27, <1>28, <1>29, <1>30,
    <1>31, <1>32, <1>33 DEF Next, PeerStep, CloseStep, PumpStep, HandlerStep

\* closeAll.
LEMMA ClosingStep ==
  ASSUME TypeStreams, TypeRecord, TypeControl, PumpsOK, ClosingOK, RecordsOK, HandlerOK, Next
  PROVE  ClosingOK'
<1>h. TypeStreams /\ TypeRecord /\ TypeControl /\ PumpsOK /\ ClosingOK /\ RecordsOK /\ HandlerOK
  OBVIOUS
<1>u. ASSUME UNCHANGED <<closed, closeReason, done, open, pc, why, ending>> PROVE ClosingOK'
  BY <1>h, <1>u DEF TypeStreams, TypeRecord, TypeControl, Reasons, PumpsOK, ClosingOK, HandlerOK
<1>1. ASSUME (\E d \in Dirs : PeerSend(d)) \/ (\E s \in Refusers : PeerStopsReading(s)) \/ Tick
     PROVE  UNCHANGED <<closed, closeReason, done, open, pc, why, ending>>
  BY <1>1 DEF PeerSend, PeerStopsReading, Tick, peers, sockets, record, control
<1>2. ASSUME NEW d \in Dirs, NEW how \in Endings, PeerEnds(d, how) PROVE ClosingOK'
  BY <1>h, <1>2, Ends, ReasonsAreSome DEF PeerEnds, peers, sockets, record, control, TypeStreams, TypeRecord,
    TypeControl, Reasons, PumpsOK, ClosingOK, HandlerOK
<1>3. ASSUME NEW a \in Actors, CloseMark(a) PROVE ClosingOK'
  BY <1>h, <1>3, Ends, ReasonsAreSome DEF CloseMark, goto, peers, sockets, record, control, TypeStreams,
    TypeRecord, TypeControl, Reasons, PumpsOK, ClosingOK, HandlerOK
<1>4. ASSUME NEW a \in Actors, CloseSignal(a) PROVE ClosingOK'
  BY <1>h, <1>4, Ends, ReasonsAreSome DEF CloseSignal, goto, peers, sockets, record, control, TypeStreams,
    TypeRecord, TypeControl, Reasons, PumpsOK, ClosingOK, HandlerOK
<1>5. ASSUME NEW a \in Actors, CloseClient(a) PROVE ClosingOK'
  BY <1>h, <1>5, Ends, ReasonsAreSome DEF CloseClient, goto, closeSocket, peers, sockets, record, control,
    TypeStreams, TypeRecord, TypeControl, Reasons, PumpsOK, ClosingOK, HandlerOK
<1>6. ASSUME NEW a \in Actors, CloseServer(a) PROVE ClosingOK'
  <2>1. pc[a] = "server" /\ pc' = [pc EXCEPT ![a] = ret[a]] /\ ret[a] \in {"over", "recheck", "start"}
        /\ why' = [why EXCEPT ![a] = None] /\ open' = [open EXCEPT !["server"] = FALSE]
    BY <1>h, <1>6 DEF CloseServer, closeSocket, TypeControl
  <2>2. UNCHANGED <<closed, closeReason, done, ending>>
    BY <1>6 DEF CloseServer, peers, record
  <2>3. closed
    BY <1>h, <2>1 DEF ClosingOK
  <2>4. \A b \in Actors : /\ pc'[b] = pc[b] \/ pc'[b] \in {"over", "recheck", "start"}
                          /\ why'[b] = why[b] \/ why'[b] = None
    BY <1>h, <2>1 DEF TypeControl
  <2> QED
    BY <1>h, <2>1, <2>2, <2>3, <2>4, ReasonsAreSome DEF ClosingOK
<1>7. ASSUME NEW d \in Dirs, PumpDeadline(d) PROVE ClosingOK'
  BY <1>h, <1>7, Ends, ReasonsAreSome DEF PumpDeadline, goto, peers, sockets, record, control, TypeStreams,
    TypeRecord, TypeControl, Reasons, PumpsOK, ClosingOK, HandlerOK
<1>8. ASSUME NEW d \in Dirs, PumpRead(d) PROVE ClosingOK'
  BY <1>h, <1>8, Ends, ReasonsAreSome DEF PumpRead, goto, take, peers, sockets, record, control, TypeStreams,
    TypeRecord, TypeControl, Reasons, PumpsOK, ClosingOK, HandlerOK
<1>9. ASSUME NEW d \in Dirs, PumpReadFails(d) PROVE ClosingOK'
  BY <1>h, <1>9, Ends, ReasonsAreSome DEF PumpReadFails, goto, ReadErrors, TimedOut, peers, sockets, record,
    control, TypeStreams, TypeRecord, TypeControl, Reasons, PumpsOK, ClosingOK, HandlerOK
<1>10. ASSUME NEW d \in Dirs, PumpBatch(d) PROVE ClosingOK'
  BY <1>h, <1>10, Ends, ReasonsAreSome DEF PumpBatch, goto, take, ReadErrors, peers, sockets, record, control,
    TypeStreams, TypeRecord, TypeControl, Reasons, PumpsOK, ClosingOK, HandlerOK
<1>11. ASSUME NEW d \in Dirs, PumpLimitPassed(d) PROVE ClosingOK'
  BY <1>h, <1>11, Ends, ReasonsAreSome DEF PumpLimitPassed, goto, peers, sockets, record, control, TypeStreams,
    TypeRecord, TypeControl, Reasons, PumpsOK, ClosingOK, HandlerOK
<1>12. ASSUME NEW d \in Dirs, PumpLimitCancelled(d) PROVE ClosingOK'
  BY <1>h, <1>12, Ends, ReasonsAreSome DEF PumpLimitCancelled, goto, peers, sockets, record, control,
    TypeStreams, TypeRecord, TypeControl, Reasons, PumpsOK, ClosingOK, HandlerOK
<1>13. ASSUME NEW d \in Dirs, PumpWrite(d) PROVE ClosingOK'
  BY <1>h, <1>13, Ends, ReasonsAreSome DEF PumpWrite, goto, wrote, peers, sockets, record, control, TypeStreams,
    TypeRecord, TypeControl, Reasons, PumpsOK, ClosingOK, HandlerOK
<1>14. ASSUME NEW d \in Dirs, PumpWriteFails(d) PROVE ClosingOK'
  BY <1>h, <1>14, Ends, ReasonsAreSome DEF PumpWriteFails, goto, wrote, peers, sockets, record, control,
    TypeStreams, TypeRecord, TypeControl, Reasons, PumpsOK, ClosingOK, HandlerOK
<1>15. ASSUME NEW d \in Dirs, PumpWriteStalls(d) PROVE ClosingOK'
  BY <1>h, <1>15, Ends, ReasonsAreSome DEF PumpWriteStalls, callCloseAll, wrote, peers, sockets, record,
    TypeStreams, TypeRecord, TypeControl, Reasons, PumpsOK, ClosingOK, HandlerOK
<1>16. ASSUME NEW d \in Dirs, PumpEOF(d) PROVE ClosingOK'
  BY <1>h, <1>16, Ends, ReasonsAreSome DEF PumpEOF, goto, peers, sockets, record, control, TypeStreams,
    TypeRecord, TypeControl, Reasons, PumpsOK, ClosingOK, HandlerOK
<1>17. ASSUME NEW d \in Dirs, PumpWoken(d) PROVE ClosingOK'
  BY <1>h, <1>17, Ends, ReasonsAreSome DEF PumpWoken, goto, peers, sockets, record, control, TypeStreams,
    TypeRecord, TypeControl, Reasons, PumpsOK, ClosingOK, HandlerOK
<1>18. ASSUME NEW d \in Dirs, PumpKeepsWaiting(d) PROVE ClosingOK'
  BY <1>h, <1>18, Ends, ReasonsAreSome DEF PumpKeepsWaiting, goto, peers, sockets, record, control, TypeStreams,
    TypeRecord, TypeControl, Reasons, PumpsOK, ClosingOK, HandlerOK
<1>19. ASSUME NEW d \in Dirs, PumpIdle(d) PROVE ClosingOK'
  BY <1>h, <1>19, Ends, ReasonsAreSome DEF PumpIdle, callCloseAll, peers, sockets, record, TypeStreams,
    TypeRecord, TypeControl, Reasons, PumpsOK, ClosingOK, HandlerOK
<1>20. ASSUME NEW d \in Dirs, PumpCut(d) PROVE ClosingOK'
  BY <1>h, <1>20, Ends, ReasonsAreSome DEF PumpCut, callCloseAll, peers, sockets, record, TypeStreams,
    TypeRecord, TypeControl, Reasons, PumpsOK, ClosingOK, HandlerOK
<1>21. ASSUME NEW d \in Dirs, PumpError(d) PROVE ClosingOK'
  BY <1>h, <1>21, Ends, ReasonsAreSome DEF PumpError, callCloseAll, peers, sockets, record, TypeStreams,
    TypeRecord, TypeControl, Reasons, PumpsOK, ClosingOK, HandlerOK
<1>22. ASSUME NEW d \in Dirs, EndStore(d) PROVE ClosingOK'
  BY <1>h, <1>22, Ends, ReasonsAreSome DEF EndStore, goto, peers, sockets, record, control, TypeStreams,
    TypeRecord, TypeControl, Reasons, PumpsOK, ClosingOK, HandlerOK
<1>23. ASSUME NEW d \in Dirs, EndRecord(d) PROVE ClosingOK'
  BY <1>h, <1>23, Ends, ReasonsAreSome DEF EndRecord, goto, recordEnd, peers, sockets, record, control,
    TypeStreams, TypeRecord, TypeControl, Reasons, PumpsOK, ClosingOK, HandlerOK
<1>24. ASSUME NEW d \in Dirs, EndShut(d) PROVE ClosingOK'
  BY <1>h, <1>24, Ends, ReasonsAreSome DEF EndShut, goto, closeWrite, peers, sockets, record, control,
    TypeStreams, TypeRecord, TypeControl, Reasons, PumpsOK, ClosingOK, HandlerOK
<1>25. ASSUME TimerFires PROVE ClosingOK'
  BY <1>h, <1>25, Ends, ReasonsAreSome DEF TimerFires, callCloseAll, peers, sockets, record, TypeStreams,
    TypeRecord, TypeControl, Reasons, PumpsOK, ClosingOK, HandlerOK
<1>26. ASSUME SetKill PROVE ClosingOK'
  BY <1>h, <1>26, Ends, ReasonsAreSome DEF SetKill, goto, callCloseAll, peers, sockets, record, TypeStreams,
    TypeRecord, TypeControl, Reasons, PumpsOK, ClosingOK, HandlerOK
<1>27. ASSUME Recheck PROVE ClosingOK'
  BY <1>h, <1>27, Ends, ReasonsAreSome DEF Recheck, goto, callCloseAll, peers, sockets, record, TypeStreams,
    TypeRecord, TypeControl, Reasons, PumpsOK, ClosingOK, HandlerOK
<1>28. ASSUME StartPumps PROVE ClosingOK'
  BY <1>h, <1>28, Ends, ReasonsAreSome DEF StartPumps, peers, sockets, record, control, TypeStreams, TypeRecord,
    TypeControl, Reasons, PumpsOK, ClosingOK, HandlerOK
<1>29. ASSUME Finish PROVE ClosingOK'
  <2>1. closed
    BY <1>h, <1>29 DEF Finish, RecordsOK, Recorded
  <2>2. closed' = TRUE /\ pc' = [pc EXCEPT !["handler"] = "end"] /\ UNCHANGED <<closeReason, done, open, why, ending>>
    BY <1>29 DEF Finish, goto, peers, sockets, record
  <2> QED
    BY <1>h, <2>1, <2>2, Ends DEF TypeControl, ClosingOK
<1>30. ASSUME SetEnd PROVE ClosingOK'
  BY <1>h, <1>30, Ends, ReasonsAreSome DEF SetEnd, goto, peers, sockets, record, control, TypeStreams,
    TypeRecord, TypeControl, Reasons, PumpsOK, ClosingOK, HandlerOK
<1>31. ASSUME NEW what \in Stops, ConsoleStops(what) PROVE ClosingOK'
  BY <1>h, <1>31, Ends, ReasonsAreSome DEF ConsoleStops, goto, peers, sockets, record, control, TypeStreams,
    TypeRecord, TypeControl, Reasons, PumpsOK, ClosingOK, HandlerOK
<1>32. ASSUME Stop PROVE ClosingOK'
  BY <1>h, <1>32, Ends, ReasonsAreSome DEF Stop, goto, callCloseAll, peers, sockets, record, TypeStreams,
    TypeRecord, TypeControl, Reasons, PumpsOK, ClosingOK, HandlerOK
<1>33. ASSUME Over PROVE ClosingOK'
  BY <1>u, <1>33 DEF Over, vars, peers, sockets, buffers, clock, record, stopping, control
<1> QED
  BY <1>u, <1>1, <1>2, <1>3, <1>4, <1>5, <1>6, <1>7, <1>8, <1>9, <1>10, <1>11, <1>12, <1>13, <1>14, <1>15,
    <1>16, <1>17, <1>18, <1>19, <1>20, <1>21, <1>22, <1>23, <1>24, <1>25, <1>26, <1>27, <1>28, <1>29, <1>30,
    <1>31, <1>32, <1>33 DEF Next, PeerStep, CloseStep, PumpStep, HandlerStep

\* Whose fault an error is.
LEMMA ErrorsStep ==
  ASSUME TypeStreams, ClosingOK, ErrorsAreThePeers, Next
  PROVE  ErrorsAreThePeers'
<1>h. TypeStreams /\ ClosingOK /\ ErrorsAreThePeers
  OBVIOUS
<1>u. ASSUME UNCHANGED <<closeReason, ending>> PROVE ErrorsAreThePeers'
  BY <1>h, <1>u DEF TypeStreams, ClosingOK, ErrorsAreThePeers
<1>1. ASSUME (\E d \in Dirs : PeerSend(d)) \/ (\E s \in Refusers : PeerStopsReading(s)) \/ Tick \/ (\E a \in
            Actors : CloseSignal(a)) \/ (\E a \in Actors : CloseClient(a)) \/ (\E a \in Actors : CloseServer(a))
            \/ (\E d \in Dirs : PumpDeadline(d)) \/ (\E d \in Dirs : PumpRead(d))
     PROVE  UNCHANGED <<closeReason, ending>>
  BY <1>1 DEF PeerSend, PeerStopsReading, Tick, CloseSignal, CloseClient, CloseServer, PumpDeadline, PumpRead,
    goto, closeSocket, take, peers, record
<1>2. ASSUME (\E d \in Dirs : PumpReadFails(d)) \/ (\E d \in Dirs : PumpBatch(d)) \/ (\E d \in Dirs :
            PumpLimitPassed(d)) \/ (\E d \in Dirs : PumpLimitCancelled(d)) \/ (\E d \in Dirs : PumpWrite(d)) \/
            (\E d \in Dirs : PumpWriteFails(d)) \/ (\E d \in Dirs : PumpWriteStalls(d)) \/ (\E d \in Dirs :
            PumpEOF(d))
     PROVE  UNCHANGED <<closeReason, ending>>
  BY <1>2 DEF PumpReadFails, PumpBatch, PumpLimitPassed, PumpLimitCancelled, PumpWrite, PumpWriteFails,
    PumpWriteStalls, PumpEOF, goto, take, wrote, callCloseAll, peers, record
<1>3. ASSUME (\E d \in Dirs : PumpWoken(d)) \/ (\E d \in Dirs : PumpKeepsWaiting(d)) \/ (\E d \in Dirs :
            PumpIdle(d)) \/ (\E d \in Dirs : PumpCut(d)) \/ (\E d \in Dirs : PumpError(d)) \/ (\E d \in Dirs :
            EndStore(d)) \/ (\E d \in Dirs : EndShut(d)) \/ TimerFires
     PROVE  UNCHANGED <<closeReason, ending>>
  BY <1>3 DEF PumpWoken, PumpKeepsWaiting, PumpIdle, PumpCut, PumpError, EndStore, EndShut, TimerFires, goto,
    callCloseAll, closeWrite, peers, record
<1>4. ASSUME SetKill \/ Recheck \/ StartPumps \/ Finish \/ SetEnd \/ (\E what \in Stops : ConsoleStops(what)) \/
            Stop
     PROVE  UNCHANGED <<closeReason, ending>>
  BY <1>4 DEF SetKill, Recheck, StartPumps, Finish, SetEnd, ConsoleStops, Stop, goto, callCloseAll, peers,
    record
<1>5. ASSUME NEW d \in Dirs, NEW how \in Endings, PeerEnds(d, how) PROVE ErrorsAreThePeers'
  BY <1>h, <1>5, Ends DEF PeerEnds, peers, record, TypeStreams, ClosingOK, ErrorsAreThePeers
<1>6. ASSUME NEW a \in Actors, CloseMark(a) PROVE ErrorsAreThePeers'
  BY <1>h, <1>6, Ends DEF CloseMark, goto, peers, record, TypeStreams, ClosingOK, ErrorsAreThePeers
<1>7. ASSUME NEW d \in Dirs, EndRecord(d) PROVE ErrorsAreThePeers'
  BY <1>h, <1>7, Ends DEF EndRecord, goto, recordEnd, peers, record, TypeStreams, ClosingOK, ErrorsAreThePeers
<1>8. ASSUME Over PROVE ErrorsAreThePeers'
  BY <1>u, <1>8 DEF Over, vars, peers, sockets, buffers, clock, record, stopping, control
<1> QED
  BY <1>u, <1>1, <1>2, <1>3, <1>4, <1>5, <1>6, <1>7, <1>8 DEF Next, PeerStep, CloseStep, PumpStep, HandlerStep

\* First end, mutual close.
LEMMA RecordsStep ==
  ASSUME TypeStreams, TypeRecord, TypeControl, PumpsOK, ShutsOK, ClosingOK, RecordsOK, HandlerOK, Next
  PROVE  RecordsOK'
<1>h. TypeStreams /\ TypeRecord /\ TypeControl /\ PumpsOK /\ ShutsOK /\ ClosingOK /\ RecordsOK /\ HandlerOK
  OBVIOUS
<1>u. ASSUME UNCHANGED <<pc, dirState, closed, closeReason, firstClosed, answered, forward>> PROVE RecordsOK'
  BY <1>h, <1>u DEF TypeStreams, TypeRecord, TypeControl, Reasons, PumpsOK, Moving, ShutsOK, ClosingOK,
    RecordsOK, Recorded, HandlerOK
<1>1. ASSUME (\E d \in Dirs : PeerSend(d)) \/ (\E s \in Refusers : PeerStopsReading(s)) \/ Tick
     PROVE  UNCHANGED <<pc, dirState, closed, closeReason, firstClosed, answered, forward>>
  BY <1>1 DEF PeerSend, PeerStopsReading, Tick, buffers, record, control
<1>2. ASSUME NEW d \in Dirs, NEW how \in Endings, PeerEnds(d, how) PROVE RecordsOK'
  BY <1>h, <1>2, Ends, ReasonsAreSome DEF PeerEnds, buffers, record, control, TypeStreams, TypeRecord,
    TypeControl, Reasons, PumpsOK, Moving, ShutsOK, ClosingOK, RecordsOK, Recorded, HandlerOK
<1>3. ASSUME NEW a \in Actors, CloseMark(a) PROVE RecordsOK'
  BY <1>h, <1>3, Ends, ReasonsAreSome DEF CloseMark, goto, buffers, record, control, TypeStreams, TypeRecord,
    TypeControl, Reasons, PumpsOK, Moving, ShutsOK, ClosingOK, RecordsOK, Recorded, HandlerOK
<1>4. ASSUME NEW a \in Actors, CloseSignal(a) PROVE RecordsOK'
  BY <1>h, <1>4, Ends, ReasonsAreSome DEF CloseSignal, goto, buffers, record, control, TypeStreams, TypeRecord,
    TypeControl, Reasons, PumpsOK, Moving, ShutsOK, ClosingOK, RecordsOK, Recorded, HandlerOK
<1>5. ASSUME NEW a \in Actors, CloseClient(a) PROVE RecordsOK'
  BY <1>h, <1>5, Ends, ReasonsAreSome DEF CloseClient, goto, closeSocket, buffers, record, control, TypeStreams,
    TypeRecord, TypeControl, Reasons, PumpsOK, Moving, ShutsOK, ClosingOK, RecordsOK, Recorded, HandlerOK
<1>6. ASSUME NEW a \in Actors, CloseServer(a) PROVE RecordsOK'
  BY <1>h, <1>6, Ends, ReasonsAreSome DEF CloseServer, closeSocket, buffers, record, TypeStreams, TypeRecord,
    TypeControl, Reasons, PumpsOK, Moving, ShutsOK, ClosingOK, RecordsOK, Recorded, HandlerOK
<1>7. ASSUME NEW d \in Dirs, PumpDeadline(d) PROVE RecordsOK'
  BY <1>h, <1>7, Ends, ReasonsAreSome DEF PumpDeadline, goto, buffers, record, control, TypeStreams, TypeRecord,
    TypeControl, Reasons, PumpsOK, Moving, ShutsOK, ClosingOK, RecordsOK, Recorded, HandlerOK
<1>8. ASSUME NEW d \in Dirs, PumpRead(d) PROVE RecordsOK'
  BY <1>h, <1>8, Ends, ReasonsAreSome DEF PumpRead, goto, take, buffers, record, control, TypeStreams,
    TypeRecord, TypeControl, Reasons, PumpsOK, Moving, ShutsOK, ClosingOK, RecordsOK, Recorded, HandlerOK
<1>9. ASSUME NEW d \in Dirs, PumpReadFails(d) PROVE RecordsOK'
  BY <1>h, <1>9, Ends, ReasonsAreSome DEF PumpReadFails, goto, ReadErrors, TimedOut, buffers, record, control,
    TypeStreams, TypeRecord, TypeControl, Reasons, PumpsOK, Moving, ShutsOK, ClosingOK, RecordsOK, Recorded,
    HandlerOK
<1>10. ASSUME NEW d \in Dirs, PumpBatch(d) PROVE RecordsOK'
  BY <1>h, <1>10, Ends, ReasonsAreSome DEF PumpBatch, goto, take, ReadErrors, buffers, record, control,
    TypeStreams, TypeRecord, TypeControl, Reasons, PumpsOK, Moving, ShutsOK, ClosingOK, RecordsOK, Recorded,
    HandlerOK
<1>11. ASSUME NEW d \in Dirs, PumpLimitPassed(d) PROVE RecordsOK'
  BY <1>h, <1>11, Ends, ReasonsAreSome DEF PumpLimitPassed, goto, buffers, record, control, TypeStreams,
    TypeRecord, TypeControl, Reasons, PumpsOK, Moving, ShutsOK, ClosingOK, RecordsOK, Recorded, HandlerOK
<1>12. ASSUME NEW d \in Dirs, PumpLimitCancelled(d) PROVE RecordsOK'
  BY <1>h, <1>12, Ends, ReasonsAreSome DEF PumpLimitCancelled, goto, buffers, record, control, TypeStreams,
    TypeRecord, TypeControl, Reasons, PumpsOK, Moving, ShutsOK, ClosingOK, RecordsOK, Recorded, HandlerOK
<1>13. ASSUME NEW d \in Dirs, PumpWrite(d) PROVE RecordsOK'
  BY <1>h, <1>13, Ends, ReasonsAreSome DEF PumpWrite, goto, wrote, buffers, record, control, TypeStreams,
    TypeRecord, TypeControl, Reasons, PumpsOK, Moving, ShutsOK, ClosingOK, RecordsOK, Recorded, HandlerOK
<1>14. ASSUME NEW d \in Dirs, PumpWriteFails(d) PROVE RecordsOK'
  BY <1>h, <1>14, Ends, ReasonsAreSome DEF PumpWriteFails, goto, wrote, buffers, record, control, TypeStreams,
    TypeRecord, TypeControl, Reasons, PumpsOK, Moving, ShutsOK, ClosingOK, RecordsOK, Recorded, HandlerOK
<1>15. ASSUME NEW d \in Dirs, PumpWriteStalls(d) PROVE RecordsOK'
  BY <1>h, <1>15, Ends, ReasonsAreSome DEF PumpWriteStalls, callCloseAll, wrote, buffers, record, TypeStreams,
    TypeRecord, TypeControl, Reasons, PumpsOK, Moving, ShutsOK, ClosingOK, RecordsOK, Recorded, HandlerOK
<1>16. ASSUME NEW d \in Dirs, PumpEOF(d) PROVE RecordsOK'
  BY <1>h, <1>16, Ends, ReasonsAreSome DEF PumpEOF, goto, buffers, record, control, TypeStreams, TypeRecord,
    TypeControl, Reasons, PumpsOK, Moving, ShutsOK, ClosingOK, RecordsOK, Recorded, HandlerOK
<1>17. ASSUME NEW d \in Dirs, PumpWoken(d) PROVE RecordsOK'
  BY <1>h, <1>17, Ends, ReasonsAreSome DEF PumpWoken, goto, buffers, record, control, TypeStreams, TypeRecord,
    TypeControl, Reasons, PumpsOK, Moving, ShutsOK, ClosingOK, RecordsOK, Recorded, HandlerOK
<1>18. ASSUME NEW d \in Dirs, PumpKeepsWaiting(d) PROVE RecordsOK'
  BY <1>h, <1>18, Ends, ReasonsAreSome DEF PumpKeepsWaiting, goto, buffers, record, control, TypeStreams,
    TypeRecord, TypeControl, Reasons, PumpsOK, Moving, ShutsOK, ClosingOK, RecordsOK, Recorded, HandlerOK
<1>19. ASSUME NEW d \in Dirs, PumpIdle(d) PROVE RecordsOK'
  BY <1>h, <1>19, Ends, ReasonsAreSome DEF PumpIdle, callCloseAll, buffers, record, TypeStreams, TypeRecord,
    TypeControl, Reasons, PumpsOK, Moving, ShutsOK, ClosingOK, RecordsOK, Recorded, HandlerOK
<1>20. ASSUME NEW d \in Dirs, PumpCut(d) PROVE RecordsOK'
  BY <1>h, <1>20, Ends, ReasonsAreSome DEF PumpCut, callCloseAll, buffers, record, TypeStreams, TypeRecord,
    TypeControl, Reasons, PumpsOK, Moving, ShutsOK, ClosingOK, RecordsOK, Recorded, HandlerOK
<1>21. ASSUME NEW d \in Dirs, PumpError(d) PROVE RecordsOK'
  BY <1>h, <1>21, Ends, ReasonsAreSome DEF PumpError, callCloseAll, buffers, record, TypeStreams, TypeRecord,
    TypeControl, Reasons, PumpsOK, Moving, ShutsOK, ClosingOK, RecordsOK, Recorded, HandlerOK
<1>22. ASSUME NEW d \in Dirs, EndStore(d) PROVE RecordsOK'
  BY <1>h, <1>22, Ends, ReasonsAreSome DEF EndStore, goto, buffers, record, control, TypeStreams, TypeRecord,
    TypeControl, Reasons, PumpsOK, Moving, ShutsOK, ClosingOK, RecordsOK, Recorded, HandlerOK
<1>23. ASSUME NEW d \in Dirs, EndRecord(d) PROVE RecordsOK'
  <2>1. /\ pc[d] = "record" /\ pc' = [pc EXCEPT ![d] = IF forward[d] THEN "shut" ELSE "over"]
        /\ recordEnd(d) /\ UNCHANGED <<dirState, answered, forward>>
    BY <1>23 DEF EndRecord, goto, buffers
  <2>2. /\ dirState[d] = "halfClosed" /\ pc'[d] \in {"shut", "over"} /\ Other(d) \in Dirs /\ Other(d) # d
        /\ pc'[Other(d)] = pc[Other(d)] /\ \A e \in Dirs : e = d \/ e = Other(d)
    BY <1>h, <2>1, Ends DEF TypeControl, ShutsOK
  \* Nobody has answered d's end: its FIN is not sent yet.
  <2>3. ~answered[Other(d)] /\ (answered[d] => Recorded(Other(d)))
    BY <1>h, <2>1, Ends DEF ShutsOK, Recorded
  <2>4. CASE closed
    BY <1>h, <2>1, <2>2, <2>3, <2>4 DEF recordEnd, RecordsOK, Recorded
  <2>5. CASE ~closed /\ dirState[Other(d)] = "halfClosed"
    BY <1>h, <2>1, <2>2, <2>3, <2>5 DEF recordEnd, RecordsOK, Recorded
  <2>6. CASE ~closed /\ dirState[Other(d)] # "halfClosed"
    <3>1. closed' = closed /\ closeReason' = closeReason /\ firstClosed' = d
      BY <2>1, <2>6 DEF recordEnd
    <3>2. ~Recorded(Other(d))' /\ ~answered[d] /\ closeReason # "ends" /\ d # None
      BY <1>h, <2>1, <2>2, <2>3, <2>6, ReasonsAreSome DEF Recorded, RecordsOK
    <3> QED
      BY <1>h, <2>1, <2>2, <2>3, <2>6, <3>1, <3>2 DEF RecordsOK, Recorded
  <2> QED
    BY <2>4, <2>5, <2>6
<1>24. ASSUME NEW d \in Dirs, EndShut(d) PROVE RecordsOK'
  BY <1>h, <1>24, Ends, ReasonsAreSome DEF EndShut, goto, closeWrite, buffers, record, control, TypeStreams,
    TypeRecord, TypeControl, Reasons, PumpsOK, Moving, ShutsOK, ClosingOK, RecordsOK, Recorded, HandlerOK
<1>25. ASSUME TimerFires PROVE RecordsOK'
  BY <1>h, <1>25, Ends, ReasonsAreSome DEF TimerFires, callCloseAll, buffers, record, TypeStreams, TypeRecord,
    TypeControl, Reasons, PumpsOK, Moving, ShutsOK, ClosingOK, RecordsOK, Recorded, HandlerOK
<1>26. ASSUME SetKill PROVE RecordsOK'
  BY <1>h, <1>26, Ends, ReasonsAreSome DEF SetKill, goto, callCloseAll, buffers, record, TypeStreams,
    TypeRecord, TypeControl, Reasons, PumpsOK, Moving, ShutsOK, ClosingOK, RecordsOK, Recorded, HandlerOK
<1>27. ASSUME Recheck PROVE RecordsOK'
  BY <1>h, <1>27, Ends, ReasonsAreSome DEF Recheck, goto, callCloseAll, buffers, record, TypeStreams,
    TypeRecord, TypeControl, Reasons, PumpsOK, Moving, ShutsOK, ClosingOK, RecordsOK, Recorded, HandlerOK
<1>28. ASSUME StartPumps PROVE RecordsOK'
  BY <1>h, <1>28, Ends, ReasonsAreSome DEF StartPumps, buffers, record, control, TypeStreams, TypeRecord,
    TypeControl, Reasons, PumpsOK, Moving, ShutsOK, ClosingOK, RecordsOK, Recorded, HandlerOK
<1>29. ASSUME Finish PROVE RecordsOK'
  BY <1>h, <1>29, Ends, ReasonsAreSome DEF Finish, goto, buffers, record, control, TypeStreams, TypeRecord,
    TypeControl, Reasons, PumpsOK, Moving, ShutsOK, ClosingOK, RecordsOK, Recorded, HandlerOK
<1>30. ASSUME SetEnd PROVE RecordsOK'
  BY <1>h, <1>30, Ends, ReasonsAreSome DEF SetEnd, goto, buffers, record, control, TypeStreams, TypeRecord,
    TypeControl, Reasons, PumpsOK, Moving, ShutsOK, ClosingOK, RecordsOK, Recorded, HandlerOK
<1>31. ASSUME NEW what \in Stops, ConsoleStops(what) PROVE RecordsOK'
  BY <1>h, <1>31, Ends, ReasonsAreSome DEF ConsoleStops, goto, buffers, record, control, TypeStreams,
    TypeRecord, TypeControl, Reasons, PumpsOK, Moving, ShutsOK, ClosingOK, RecordsOK, Recorded, HandlerOK
<1>32. ASSUME Stop PROVE RecordsOK'
  <2>1. /\ UNCHANGED <<dirState, closed, closeReason, firstClosed, answered, forward>>
        /\ \E l \in {"mark", "over"} : pc' = [pc EXCEPT !["console"] = l]
    BY <1>32 DEF Stop, goto, callCloseAll, buffers, record
  <2>2. \A d \in Dirs : pc'[d] = pc[d]
    BY <1>h, <2>1, Ends DEF TypeControl
  <2> QED
    BY <1>h, <2>1, <2>2 DEF RecordsOK, Recorded
<1>33. ASSUME Over PROVE RecordsOK'
  BY <1>u, <1>33 DEF Over, vars, peers, sockets, buffers, clock, record, stopping, control
<1> QED
  BY <1>u, <1>1, <1>2, <1>3, <1>4, <1>5, <1>6, <1>7, <1>8, <1>9, <1>10, <1>11, <1>12, <1>13, <1>14, <1>15,
    <1>16, <1>17, <1>18, <1>19, <1>20, <1>21, <1>22, <1>23, <1>24, <1>25, <1>26, <1>27, <1>28, <1>29, <1>30,
    <1>31, <1>32, <1>33 DEF Next, PeerStep, CloseStep, PumpStep, HandlerStep

\* The handler.
LEMMA HandlerStepOK ==
  ASSUME TypeRecord, TypeControl, ShutsOK, ClosingOK, RecordsOK, HandlerOK, Next
  PROVE  HandlerOK'
<1>h. TypeRecord /\ TypeControl /\ ShutsOK /\ ClosingOK /\ RecordsOK /\ HandlerOK
  OBVIOUS
<1>u. ASSUME UNCHANGED <<pc, ret, kill, killReason, closed, done, endReason>> PROVE HandlerOK'
  BY <1>h, <1>u DEF TypeRecord, TypeControl, ShutsOK, ClosingOK, RecordsOK, Recorded, HandlerOK, Closing
<1>1. ASSUME (\E d \in Dirs : PeerSend(d)) \/ (\E d \in Dirs, how \in Endings : PeerEnds(d, how)) \/ (\E s \in
            Refusers : PeerStopsReading(s)) \/ Tick
     PROVE  UNCHANGED <<pc, ret, kill, killReason, closed, done, endReason>>
  BY <1>1 DEF PeerSend, PeerEnds, PeerStopsReading, Tick, record, stopping, control
<1>2. ASSUME NEW a \in Actors, CloseMark(a) PROVE HandlerOK'
  BY <1>h, <1>2, Ends, ReasonsAreSome DEF CloseMark, goto, record, stopping, control, TypeRecord, TypeControl,
    ShutsOK, ClosingOK, RecordsOK, Recorded, HandlerOK, Closing
<1>3. ASSUME NEW a \in Actors, CloseSignal(a) PROVE HandlerOK'
  BY <1>h, <1>3, Ends, ReasonsAreSome DEF CloseSignal, goto, record, stopping, control, TypeRecord, TypeControl,
    ShutsOK, ClosingOK, RecordsOK, Recorded, HandlerOK, Closing
<1>4. ASSUME NEW a \in Actors, CloseClient(a) PROVE HandlerOK'
  BY <1>h, <1>4, Ends, ReasonsAreSome DEF CloseClient, goto, closeSocket, record, stopping, control, TypeRecord,
    TypeControl, ShutsOK, ClosingOK, RecordsOK, Recorded, HandlerOK, Closing
<1>5. ASSUME NEW a \in Actors, CloseServer(a) PROVE HandlerOK'
  <2>1. /\ pc[a] = "server" /\ pc' = [pc EXCEPT ![a] = ret[a]] /\ ret[a] \in {"over", "recheck", "start"}
        /\ ret' = [ret EXCEPT ![a] = "over"] /\ UNCHANGED <<kill, killReason, closed, done, endReason>>
    BY <1>h, <1>5 DEF CloseServer, record, stopping, TypeControl
  <2>2. closed /\ done
    BY <1>h, <2>1 DEF ClosingOK
  <2>3. CASE a = "handler"
    <3>1. ret[a] \in {"recheck", "start"} /\ kill /\ \A d \in Dirs : pc[d] = "off"
      BY <1>h, <2>1, <2>3 DEF HandlerOK, Closing
    <3>2. pc'["handler"] \in {"recheck", "start"} /\ \A b \in Actors : b # "handler" => pc'[b] = pc[b]
      BY <1>h, <2>1, <2>3, <3>1, Ends DEF TypeControl
    <3> QED
      BY <2>1, <2>2, <3>1, <3>2, Ends DEF HandlerOK, Closing
  <2>4. CASE a # "handler"
    <3>1. pc'["handler"] = pc["handler"] /\ ret'["handler"] = ret["handler"]
          /\ \A d \in Dirs : pc[d] = "off" => pc'[d] = "off"
      BY <1>h, <2>1, <2>4, Ends DEF TypeControl
    <3>2. pc'["console"] = "over" /\ ~kill => pc["console"] = "over"
      BY <1>h, <2>1, <2>2, <2>4, Ends DEF HandlerOK, Closing, TypeControl
    <3>3. pc'["console"] \in Closing => pc["console"] \in Closing
      BY <1>h, <2>1, <2>4, Ends DEF Closing, TypeControl
    <3> QED
      BY <1>h, <2>1, <2>2, <3>1, <3>2, <3>3 DEF HandlerOK
  <2> QED
    BY <2>3, <2>4
<1>6. ASSUME NEW d \in Dirs, PumpDeadline(d) PROVE HandlerOK'
  BY <1>h, <1>6, Ends, ReasonsAreSome DEF PumpDeadline, goto, record, stopping, control, TypeRecord,
    TypeControl, ShutsOK, ClosingOK, RecordsOK, Recorded, HandlerOK, Closing
<1>7. ASSUME NEW d \in Dirs, PumpRead(d) PROVE HandlerOK'
  BY <1>h, <1>7, Ends, ReasonsAreSome DEF PumpRead, goto, take, record, stopping, control, TypeRecord,
    TypeControl, ShutsOK, ClosingOK, RecordsOK, Recorded, HandlerOK, Closing
<1>8. ASSUME NEW d \in Dirs, PumpReadFails(d) PROVE HandlerOK'
  BY <1>h, <1>8, Ends, ReasonsAreSome DEF PumpReadFails, goto, ReadErrors, TimedOut, record, stopping, control,
    TypeRecord, TypeControl, ShutsOK, ClosingOK, RecordsOK, Recorded, HandlerOK, Closing
<1>9. ASSUME NEW d \in Dirs, PumpBatch(d) PROVE HandlerOK'
  BY <1>h, <1>9, Ends, ReasonsAreSome DEF PumpBatch, goto, take, ReadErrors, record, stopping, control,
    TypeRecord, TypeControl, ShutsOK, ClosingOK, RecordsOK, Recorded, HandlerOK, Closing
<1>10. ASSUME NEW d \in Dirs, PumpLimitPassed(d) PROVE HandlerOK'
  BY <1>h, <1>10, Ends, ReasonsAreSome DEF PumpLimitPassed, goto, record, stopping, control, TypeRecord,
    TypeControl, ShutsOK, ClosingOK, RecordsOK, Recorded, HandlerOK, Closing
<1>11. ASSUME NEW d \in Dirs, PumpLimitCancelled(d) PROVE HandlerOK'
  BY <1>h, <1>11, Ends, ReasonsAreSome DEF PumpLimitCancelled, goto, record, stopping, control, TypeRecord,
    TypeControl, ShutsOK, ClosingOK, RecordsOK, Recorded, HandlerOK, Closing
<1>12. ASSUME NEW d \in Dirs, PumpWrite(d) PROVE HandlerOK'
  BY <1>h, <1>12, Ends, ReasonsAreSome DEF PumpWrite, goto, wrote, record, stopping, control, TypeRecord,
    TypeControl, ShutsOK, ClosingOK, RecordsOK, Recorded, HandlerOK, Closing
<1>13. ASSUME NEW d \in Dirs, PumpWriteFails(d) PROVE HandlerOK'
  BY <1>h, <1>13, Ends, ReasonsAreSome DEF PumpWriteFails, goto, wrote, record, stopping, control, TypeRecord,
    TypeControl, ShutsOK, ClosingOK, RecordsOK, Recorded, HandlerOK, Closing
<1>14. ASSUME NEW d \in Dirs, PumpWriteStalls(d) PROVE HandlerOK'
  BY <1>h, <1>14, Ends, ReasonsAreSome DEF PumpWriteStalls, callCloseAll, wrote, record, stopping, TypeRecord,
    TypeControl, ShutsOK, ClosingOK, RecordsOK, Recorded, HandlerOK, Closing
<1>15. ASSUME NEW d \in Dirs, PumpEOF(d) PROVE HandlerOK'
  BY <1>h, <1>15, Ends, ReasonsAreSome DEF PumpEOF, goto, record, stopping, control, TypeRecord, TypeControl,
    ShutsOK, ClosingOK, RecordsOK, Recorded, HandlerOK, Closing
<1>16. ASSUME NEW d \in Dirs, PumpWoken(d) PROVE HandlerOK'
  BY <1>h, <1>16, Ends, ReasonsAreSome DEF PumpWoken, goto, record, stopping, control, TypeRecord, TypeControl,
    ShutsOK, ClosingOK, RecordsOK, Recorded, HandlerOK, Closing
<1>17. ASSUME NEW d \in Dirs, PumpKeepsWaiting(d) PROVE HandlerOK'
  BY <1>h, <1>17, Ends, ReasonsAreSome DEF PumpKeepsWaiting, goto, record, stopping, control, TypeRecord,
    TypeControl, ShutsOK, ClosingOK, RecordsOK, Recorded, HandlerOK, Closing
<1>18. ASSUME NEW d \in Dirs, PumpIdle(d) PROVE HandlerOK'
  BY <1>h, <1>18, Ends, ReasonsAreSome DEF PumpIdle, callCloseAll, record, stopping, TypeRecord, TypeControl,
    ShutsOK, ClosingOK, RecordsOK, Recorded, HandlerOK, Closing
<1>19. ASSUME NEW d \in Dirs, PumpCut(d) PROVE HandlerOK'
  BY <1>h, <1>19, Ends, ReasonsAreSome DEF PumpCut, callCloseAll, record, stopping, TypeRecord, TypeControl,
    ShutsOK, ClosingOK, RecordsOK, Recorded, HandlerOK, Closing
<1>20. ASSUME NEW d \in Dirs, PumpError(d) PROVE HandlerOK'
  BY <1>h, <1>20, Ends, ReasonsAreSome DEF PumpError, callCloseAll, record, stopping, TypeRecord, TypeControl,
    ShutsOK, ClosingOK, RecordsOK, Recorded, HandlerOK, Closing
<1>21. ASSUME NEW d \in Dirs, EndStore(d) PROVE HandlerOK'
  BY <1>h, <1>21, Ends, ReasonsAreSome DEF EndStore, goto, record, stopping, control, TypeRecord, TypeControl,
    ShutsOK, ClosingOK, RecordsOK, Recorded, HandlerOK, Closing
<1>22. ASSUME NEW d \in Dirs, EndRecord(d) PROVE HandlerOK'
  BY <1>h, <1>22, Ends, ReasonsAreSome DEF EndRecord, goto, recordEnd, record, stopping, control, TypeRecord,
    TypeControl, ShutsOK, ClosingOK, RecordsOK, Recorded, HandlerOK, Closing
<1>23. ASSUME NEW d \in Dirs, EndShut(d) PROVE HandlerOK'
  BY <1>h, <1>23, Ends, ReasonsAreSome DEF EndShut, goto, closeWrite, record, stopping, control, TypeRecord,
    TypeControl, ShutsOK, ClosingOK, RecordsOK, Recorded, HandlerOK, Closing
<1>24. ASSUME TimerFires PROVE HandlerOK'
  BY <1>h, <1>24, Ends, ReasonsAreSome DEF TimerFires, callCloseAll, record, stopping, TypeRecord, TypeControl,
    ShutsOK, ClosingOK, RecordsOK, Recorded, HandlerOK, Closing
<1>25. ASSUME SetKill PROVE HandlerOK'
  BY <1>h, <1>25, Ends, ReasonsAreSome DEF SetKill, goto, callCloseAll, record, stopping, TypeRecord,
    TypeControl, ShutsOK, ClosingOK, RecordsOK, Recorded, HandlerOK, Closing
<1>26. ASSUME Recheck PROVE HandlerOK'
  BY <1>h, <1>26, Ends, ReasonsAreSome DEF Recheck, goto, callCloseAll, record, stopping, TypeRecord,
    TypeControl, ShutsOK, ClosingOK, RecordsOK, Recorded, HandlerOK, Closing
<1>27. ASSUME StartPumps PROVE HandlerOK'
  BY <1>h, <1>27, Ends, ReasonsAreSome DEF StartPumps, record, stopping, control, TypeRecord, TypeControl,
    ShutsOK, ClosingOK, RecordsOK, Recorded, HandlerOK, Closing
<1>28. ASSUME Finish PROVE HandlerOK'
  BY <1>h, <1>28, Ends, ReasonsAreSome DEF Finish, goto, record, stopping, control, TypeRecord, TypeControl,
    ShutsOK, ClosingOK, RecordsOK, Recorded, HandlerOK, Closing
<1>29. ASSUME SetEnd PROVE HandlerOK'
  BY <1>h, <1>29, Ends, ReasonsAreSome DEF SetEnd, goto, record, stopping, control, TypeRecord, TypeControl,
    ShutsOK, ClosingOK, RecordsOK, Recorded, HandlerOK, Closing
<1>30. ASSUME NEW what \in Stops, ConsoleStops(what) PROVE HandlerOK'
  BY <1>h, <1>30, Ends, ReasonsAreSome DEF ConsoleStops, goto, record, stopping, control, TypeRecord,
    TypeControl, ShutsOK, ClosingOK, RecordsOK, Recorded, HandlerOK, Closing
<1>31. ASSUME Stop PROVE HandlerOK'
  BY <1>h, <1>31, Ends, ReasonsAreSome DEF Stop, goto, callCloseAll, record, stopping, TypeRecord, TypeControl,
    ShutsOK, ClosingOK, RecordsOK, Recorded, HandlerOK, Closing
<1>32. ASSUME Over PROVE HandlerOK'
  BY <1>u, <1>32 DEF Over, vars, peers, sockets, buffers, clock, record, stopping, control
<1> QED
  BY <1>u, <1>1, <1>2, <1>3, <1>4, <1>5, <1>6, <1>7, <1>8, <1>9, <1>10, <1>11, <1>12, <1>13, <1>14, <1>15,
    <1>16, <1>17, <1>18, <1>19, <1>20, <1>21, <1>22, <1>23, <1>24, <1>25, <1>26, <1>27, <1>28, <1>29, <1>30,
    <1>31, <1>32 DEF Next, PeerStep, CloseStep, PumpStep, HandlerStep

\* What a direction's end leaves out.
LEMMA ShortsStep ==
  ASSUME TypeStreams, TypeRecord, TypeControl, PumpsOK, ShutsOK, ClosingOK, ShortsOK, HandlerOK, Next
  PROVE  ShortsOK'
<1>h. TypeStreams /\ TypeRecord /\ TypeControl /\ PumpsOK /\ ShutsOK /\ ClosingOK /\ ShortsOK /\ HandlerOK
  OBVIOUS
<1> DEFINE same == /\ UNCHANGED <<dirState, forward>> /\ (closed => closed') /\ (closeReason' = closeReason \/ closeReason' # "ends")
                   /\ (\A s \in Sides : accepts'[s] => accepts[s])
                   /\ \A d \in Dirs : pc'[d] = "store" => pc[d] = "store"
<1>u. ASSUME same PROVE ShortsOK'
  BY <1>h, <1>u, Ends DEF ShortsOK
<1>1. ASSUME (\E d \in Dirs : PeerSend(d)) \/ Tick \/ Over PROVE same
  BY <1>1 DEF PeerSend, Tick, Over, vars, peers, sockets, buffers, record, control
<1>2. ASSUME NEW d \in Dirs, NEW how \in Endings, PeerEnds(d, how) PROVE same
  BY <1>h, <1>2, Ends DEF PeerEnds, buffers, record, control, TypeStreams
<1>3. ASSUME NEW s \in Refusers, PeerStopsReading(s) PROVE same
  BY <1>h, <1>3 DEF PeerStopsReading, buffers, record, control, TypeStreams
<1>4. ASSUME NEW a \in Actors, CloseStep(a) PROVE same
  <2>1. CASE CloseMark(a)
    BY <1>h, <2>1, Ends DEF CloseMark, goto, peers, buffers, ClosingOK, TypeControl
  <2>2. CASE CloseSignal(a)
    BY <1>h, <2>2, Ends DEF CloseSignal, goto, peers, buffers, record, TypeControl
  <2>3. CASE CloseClient(a)
    BY <1>h, <2>3, Ends DEF CloseClient, goto, peers, buffers, record, TypeControl
  <2>4. CASE CloseServer(a)
    <3>1. pc' = [pc EXCEPT ![a] = ret[a]] /\ ret[a] # "store" /\ UNCHANGED <<dirState, forward, closed, closeReason, accepts>>
      BY <1>h, <2>4 DEF CloseServer, peers, buffers, record, TypeControl
    <3> QED
      BY <1>h, <3>1, Ends DEF TypeControl
  <2> QED
    BY <1>4, <2>1, <2>2, <2>3, <2>4 DEF CloseStep
<1>5. ASSUME NEW d \in Dirs, PumpDeadline(d) \/ PumpRead(d) \/ PumpReadFails(d) \/ PumpBatch(d) \/ PumpLimitPassed(d)
                              \/ PumpLimitCancelled(d) \/ PumpWrite(d)
      PROVE  same
  BY <1>h, <1>5, Ends DEF PumpDeadline, PumpRead, PumpReadFails, PumpBatch, PumpLimitPassed, PumpLimitCancelled,
    PumpWrite, take, wrote, goto, peers, buffers, record, TypeControl
<1>6. ASSUME NEW d \in Dirs, PumpWriteStalls(d) \/ PumpWoken(d) \/ PumpKeepsWaiting(d) \/ PumpIdle(d) \/ PumpCut(d) \/ PumpError(d)
      PROVE  same
  BY <1>h, <1>6, Ends DEF PumpWriteStalls, PumpWoken, PumpKeepsWaiting, PumpIdle, PumpCut, PumpError, wrote, goto,
    callCloseAll, peers, buffers, record, TypeControl
<1>7. ASSUME NEW d \in Dirs, PumpWriteFails(d) PROVE ShortsOK'
  <2>1. /\ pc[d] = "write" /\ ~(open[To(d)] /\ accepts[To(d)]) /\ forward' = [forward EXCEPT ![d] = FALSE]
        /\ pc' = [pc EXCEPT ![d] = "store"] /\ UNCHANGED <<dirState, closed, closeReason, accepts>>
    BY <1>7 DEF PumpWriteFails, goto, peers, record
  <2>2. closed \/ ~accepts[To(d)]
    BY <1>h, <2>1, Ends DEF ClosingOK
  <2>3. closeReason = "ends" => ~accepts[To(d)]
    BY <1>h, <2>1 DEF ShortsOK, PumpsOK, Moving
  <2> QED
    BY <1>h, <2>1, <2>2, <2>3, Ends DEF ShortsOK, TypeStreams, TypeControl
<1>8. ASSUME NEW d \in Dirs, PumpEOF(d) PROVE ShortsOK'
  BY <1>h, <1>8, Ends DEF PumpEOF, goto, peers, record, ShortsOK, TypeStreams, TypeControl
<1>9. ASSUME NEW d \in Dirs, EndStore(d) PROVE ShortsOK'
  BY <1>h, <1>9, Ends DEF EndStore, goto, peers, buffers, ShortsOK, TypeRecord, TypeControl
<1>10. ASSUME NEW d \in Dirs, EndRecord(d) PROVE ShortsOK'
  <2>1. /\ pc[d] = "record" /\ dirState[d] = "halfClosed" /\ UNCHANGED <<dirState, forward, accepts>>
        /\ \A e \in Dirs : pc'[e] = "store" => pc[e] = "store"
    BY <1>h, <1>10, Ends DEF EndRecord, goto, peers, buffers, TypeControl, ShutsOK
  <2>2. \/ UNCHANGED <<closed, closeReason>>
        \/ ~closed /\ dirState[Other(d)] = "halfClosed" /\ closed' = TRUE /\ closeReason' = "ends"
    BY <1>10 DEF EndRecord, recordEnd
  <2> QED
    BY <1>h, <2>1, <2>2, Ends DEF ShortsOK
<1>11. ASSUME NEW d \in Dirs, EndShut(d) PROVE same
  BY <1>h, <1>11, Ends DEF EndShut, goto, peers, buffers, record, TypeControl
<1>12. ASSUME TimerFires PROVE same
  BY <1>h, <1>12, Ends DEF TimerFires, callCloseAll, peers, buffers, TypeControl
<1>13. ASSUME SetKill \/ Recheck \/ SetEnd PROVE same
  BY <1>h, <1>13, Ends DEF SetKill, Recheck, SetEnd, goto, callCloseAll, peers, buffers, record, TypeControl
<1>14. ASSUME StartPumps PROVE same
  BY <1>h, <1>14, Ends DEF StartPumps, peers, buffers, record, TypeControl
<1>15. ASSUME Finish PROVE same
  BY <1>h, <1>15, Ends DEF Finish, goto, peers, buffers, TypeControl
<1>16. ASSUME Stop \/ \E what \in Stops : ConsoleStops(what) PROVE same
  BY <1>h, <1>16, Ends DEF Stop, ConsoleStops, goto, callCloseAll, peers, buffers, record, TypeControl
<1> HIDE DEF same
<1> QED
  BY <1>u, <1>1, <1>2, <1>3, <1>4, <1>5, <1>6, <1>7, <1>8, <1>9, <1>10, <1>11, <1>12, <1>13, <1>14, <1>15, <1>16
  DEF Next, PeerStep, PumpStep, HandlerStep

-----------------------------------------------------------------------------
(* The invariant, and the theorems *)

LEMMA InitIInv ==
  ASSUME Init
  PROVE  IInv
<1>1. TypeStreams /\ TypeClock
  BY RelayAssumption DEF Init, TypeStreams, TypeClock
<1>2. TypeRecord /\ TypeControl
  <2>1. \A a \in Actors : pc[a] \in {"off", "idle", "setkill"}
    BY DEF Init, Actors, Dirs
  <2> QED
    BY <2>1 DEF Init, TypeRecord, TypeControl, Reasons, Steps, PumpSteps, Closing
<1>3. \A d \in Dirs : pc[d] = "off"
  BY Ends DEF Init
<1>4. pc["handler"] = "setkill" /\ pc["console"] = "idle" /\ \A a \in Actors : pc[a] \in {"off", "idle", "setkill"}
  BY Ends DEF Init, Actors, Dirs
<1>5. BytesConserved /\ PumpsOK /\ ShutsOK
  BY <1>3, Ends DEF Init, BytesConserved, PumpsOK, Moving, ShutsOK
<1>6. ClosingOK /\ ErrorsAreThePeers
  BY <1>4, ReasonsAreSome DEF Init, ClosingOK, ErrorsAreThePeers
<1>7. RecordsOK
  BY <1>3, ReasonsAreSome DEF Init, RecordsOK, Recorded, Dirs
<1>9. ShortsOK
  BY <1>3, ReasonsAreSome DEF Init, ShortsOK
<1>8. HandlerOK
  BY <1>3, <1>4 DEF Init, HandlerOK, Closing
<1> QED
  BY <1>1, <1>2, <1>5, <1>6, <1>7, <1>8, <1>9 DEF IInv, TypeOK

LEMMA NextIInv ==
  ASSUME IInv, [Next]_vars
  PROVE  IInv'
<1>h. /\ TypeStreams /\ TypeClock /\ TypeRecord /\ TypeControl /\ BytesConserved /\ PumpsOK /\ ShutsOK
      /\ ClosingOK /\ ErrorsAreThePeers /\ RecordsOK /\ ShortsOK /\ HandlerOK
  BY DEF IInv, TypeOK
<1>1. CASE Next
  <2>1. TypeStreams' /\ TypeClock' /\ TypeRecord' /\ TypeControl' /\ BytesConserved'
    BY <1>h, <1>1, StreamsStep, ClockStep, RecordStep, ControlStep, BytesStep
  <2>2. PumpsOK' /\ ShutsOK'
    BY <1>h, <1>1, PumpsStep, ShutsStep
  <2>3. ClosingOK' /\ ErrorsAreThePeers'
    BY <1>h, <1>1, ClosingStep, ErrorsStep
  <2>4. RecordsOK' /\ ShortsOK' /\ HandlerOK'
    BY <1>h, <1>1, RecordsStep, ShortsStep, HandlerStepOK
  <2> QED
    BY <2>1, <2>2, <2>3, <2>4 DEF IInv, TypeOK
<1>2. CASE UNCHANGED vars
  <2>1. UNCHANGED <<peers, sockets, buffers, clock, record, stopping, control, done, answered>>
    BY <1>2 DEF vars
  <2>2. TypeStreams' /\ TypeClock' /\ TypeRecord' /\ TypeControl' /\ BytesConserved'
    BY <1>h, <2>1 DEF TypeStreams, TypeClock, TypeRecord, TypeControl, BytesConserved,
      peers, sockets, buffers, clock, record, stopping, control
  <2>3. PumpsOK' /\ ShutsOK' /\ ClosingOK' /\ ErrorsAreThePeers'
    BY <1>h, <2>1 DEF PumpsOK, ShutsOK, ClosingOK, ErrorsAreThePeers, peers, sockets, buffers, record, control
  <2>4. RecordsOK' /\ ShortsOK' /\ HandlerOK'
    BY <1>h, <2>1 DEF RecordsOK, Recorded, ShortsOK, HandlerOK, peers, buffers, record, stopping, control
  <2> QED
    BY <2>2, <2>3, <2>4 DEF IInv, TypeOK
<1> QED
  BY <1>1, <1>2

LEMMA Inductive == Spec => []IInv
<1>1. Init => IInv
  BY InitIInv
<1>2. IInv /\ [Next]_vars => IInv'
  BY NextIInv
<1> QED
  BY <1>1, <1>2, PTL DEF Spec

\* Every variable of a relayed connection stays in its type; no deadline is
\* ever longer than the idle timeout.
THEOREM RelayTypeOK == Spec => []TypeOK
<1>1. IInv => TypeOK
  BY DEF IInv
<1> QED
  BY <1>1, Inductive, PTL

\* Whatever reads, writes and stops fail half-way, in each direction no byte
\* is delivered that the peer did not send, and none twice.
THEOREM RelayBytesConserved == Spec => []BytesConserved
<1>1. IInv => BytesConserved
  BY DEF IInv
<1> QED
  BY <1>1, Inductive, PTL

\* The deferred CloseWrite forwards only a clean end, and only after every
\* byte before it was written; and where Close gives a peer the end of a stream
\* that lacks something, the record of the connection does not say that it
\* ended by itself.
THEOREM RelayFinAfterData == Spec => []FinAfterData
<1>1. IInv => HalfClosesAreWhole
  BY DEF IInv, PumpsOK, ShutsOK, HalfClosesAreWhole, whole
<1>2. IInv => ShortEndIsTold
  <2>1. SUFFICES ASSUME IInv, NEW d \in Dirs, streamEnds(To(d)), accepts[To(d)], ~whole(d)
                 PROVE  closed /\ closeReason \notin {None, "ends"}
    BY DEF ShortEndIsTold
  <2>2. ~forward[d]
    BY <2>1 DEF IInv, PumpsOK, whole
  <2>3. ~open[To(d)]
    BY <2>1, <2>2 DEF IInv, ShutsOK, streamEnds
  <2>4. closed /\ closeReason # None
    BY <2>1, <2>3, Ends DEF IInv, ClosingOK
  <2> QED
    BY <2>1, <2>2, <2>4 DEF IInv, ShortsOK
<1>3. IInv => FinAfterData
  BY <1>1, <1>2 DEF FinAfterData
<1> QED
  BY <1>3, Inductive, PTL

\* What setEnd gives the flow log is there and true: who closed first even
\* when the other peer answers at once, and no error or cut of our own making.
THEOREM RelayEndIsTold == Spec => []EndIsTold
<1>1. IInv => FirstIsFirst
  BY DEF IInv, RecordsOK, FirstIsFirst
<1>2. IInv => EndedHasReason
  BY DEF IInv, HandlerOK, EndedHasReason
<1>3. IInv => EndIsTold
  BY <1>1, <1>2 DEF IInv, EndIsTold
<1> QED
  BY <1>3, Inductive, PTL

\* A stop from the console that came before setKill, or between setKill and
\* the recheck, or later, is carried out: the connection is closed.
THEOREM RelayStopIsKept == Spec => []StopIsKept
<1>1. IInv => StopIsKept
  BY DEF IInv, HandlerOK, StopIsKept
<1> QED
  BY <1>1, Inductive, PTL

===============================================================================
