-------------------------------- MODULE Relay --------------------------------
(***************************************************************************)
(* One proxied connection from the moment its upstream is connected: the   *)
(* two pumps of proxy.go's relay, closeAll with its four callers, the      *)
(* half-close timer, the idle deadlines, speed limits, and a stop from the *)
(* console at any moment (ConnState of stats.go).                          *)
(*                                                                         *)
(* Bytes are counted, not told apart.  Time is kept as what is left of     *)
(* each deadline and as the age of the last activity.                      *)
(***************************************************************************)
EXTENDS Naturals

CONSTANTS
  MaxData,      \* bound: bytes each peer sends, per direction
  IdleTimeout,  \* idle_timeout in ticks, 0 for none
  HalfClose,    \* whether there is a half_close_timeout
  Limited,      \* the directions with a speed limit
  TLSSides,     \* the sides whose TLS is terminated here
  Endings,      \* bound: how the peers may end: "fin", "reset", "cut"
  Refusers,     \* bound: the sides whose peer may refuse further data
  Stops,        \* bound: what the console may stop: "connection", "rule"
  None          \* no reason, no direction

Dirs == {"cToS", "sToC"}
Sides == {"client", "server"}
Actors == Dirs \cup {"timer", "console", "handler"}

ASSUME RelayAssumption ==
  /\ MaxData \in [Dirs -> Nat] /\ IdleTimeout \in Nat /\ HalfClose \in BOOLEAN
  /\ Limited \subseteq Dirs /\ TLSSides \subseteq Sides
  /\ Endings \subseteq {"fin", "reset", "cut"} /\ Stops \subseteq {"connection", "rule"}
  /\ Refusers \subseteq Sides
  /\ None \notin Dirs \cup {"ends", "half", "idle", "stalled", "cut", "error", "stop"}

From(d) == IF d = "cToS" THEN "client" ELSE "server"
To(d) == IF d = "cToS" THEN "server" ELSE "client"
Other(d) == IF d = "cToS" THEN "sToC" ELSE "cToS"

VARIABLES
  \* the peers, per direction and per side
  sent, unread, ending, accepts,
  \* our sockets: still open, CloseWrite done
  open, shut,
  \* pumps: bytes held and delivered, the read's error, forward, deadlines left
  held, delivered, err, forward, readLeft, writeLeft,
  \* ConnState
  dirState, closed, closeReason, firstClosed, halfCloseTimer, kill, killReason, age,
  \* r.done, the rule's stop, what the flow log is told
  done, ruleStopped, endReason,
  \* per actor: where it is, the reason it hands to closeAll, where it goes then
  pc, why, ret,
  \* per direction: its source closed only after it had our FIN
  answered

peers == <<sent, unread, ending, accepts>>
sockets == <<open, shut>>
buffers == <<held, delivered, err, forward>>
clock == <<readLeft, writeLeft, age>>
record == <<dirState, closed, closeReason, firstClosed, halfCloseTimer>>
stopping == <<kill, killReason, ruleStopped, endReason>>
control == <<pc, why, ret>>
vars == <<peers, sockets, buffers, clock, record, stopping, control, done, answered>>

Init ==
  /\ sent = [d \in Dirs |-> 0] /\ unread = [d \in Dirs |-> 0]
  /\ ending = [d \in Dirs |-> "open"] /\ accepts = [s \in Sides |-> TRUE]
  /\ open = [s \in Sides |-> TRUE]
  /\ shut = [s \in Sides |-> FALSE]
  /\ held = [d \in Dirs |-> 0] /\ delivered = [d \in Dirs |-> 0]
  /\ err = [d \in Dirs |-> "none"] /\ forward = [d \in Dirs |-> FALSE]
  /\ readLeft = [d \in Dirs |-> 0] /\ writeLeft = [d \in Dirs |-> 0] /\ age = 0
  /\ dirState = [d \in Dirs |-> "open"]
  /\ closed = FALSE /\ closeReason = None /\ firstClosed = None /\ halfCloseTimer = "none"
  /\ kill = FALSE /\ killReason = None /\ ruleStopped = FALSE /\ endReason = None
  /\ done = FALSE /\ answered = [d \in Dirs |-> FALSE]
  /\ pc = [a \in Actors |-> CASE a \in Dirs \cup {"timer"} -> "off"
                              [] a = "console" -> "idle"
                              [] OTHER -> "setkill"]
  /\ why = [a \in Actors |-> None] /\ ret = [a \in Actors |-> "over"]

goto(a, l) == pc' = [pc EXCEPT ![a] = l] /\ UNCHANGED <<why, ret>>
\* a calls closeAll(reason) and continues at l.
callCloseAll(a, reason, l) ==
  /\ pc' = [pc EXCEPT ![a] = "mark"]
  /\ why' = [why EXCEPT ![a] = reason] /\ ret' = [ret EXCEPT ![a] = l]

-----------------------------------------------------------------------------
\* The peers: they send, end their stream (a FIN or close_notify, a reset, or
\* a TCP end in the middle of a TLS record) and stop taking data at any time.

PeerSend(d) ==
  /\ ending[d] = "open" /\ open[From(d)] /\ sent[d] < MaxData[d]
  /\ sent' = [sent EXCEPT ![d] = @ + 1] /\ unread' = [unread EXCEPT ![d] = @ + 1]
  /\ UNCHANGED <<ending, accepts, sockets, buffers, clock, record, stopping, control, done, answered>>

PeerEnds(d, how) ==
  /\ ending[d] = "open" /\ open[From(d)]
  /\ how = "cut" => From(d) \in TLSSides
  /\ ending' = [ending EXCEPT ![d] = how]
  /\ accepts' = IF how = "reset" THEN [accepts EXCEPT ![From(d)] = FALSE] ELSE accepts
  /\ answered' = [answered EXCEPT ![d] = shut[From(d)]]
  /\ UNCHANGED <<sent, unread, sockets, buffers, clock, record, stopping, control, done>>

PeerStopsReading(s) ==
  /\ accepts[s] /\ open[s]
  /\ accepts' = [accepts EXCEPT ![s] = FALSE]
  /\ UNCHANGED <<sent, unread, ending, sockets, buffers, clock, record, stopping, control, done, answered>>

\* A tick passes: deadlines run down, the last activity gets older.
down(n) == IF n = 0 THEN 0 ELSE n - 1
Tick ==
  /\ age < IdleTimeout \/ \E d \in Dirs : readLeft[d] + writeLeft[d] > 0
  /\ age' = IF age < IdleTimeout THEN age + 1 ELSE age
  /\ readLeft' = [d \in Dirs |-> down(readLeft[d])]
  /\ writeLeft' = [d \in Dirs |-> down(writeLeft[d])]
  /\ UNCHANGED <<peers, sockets, buffers, record, stopping, control, done, answered>>

-----------------------------------------------------------------------------
\* closeAll: the first reason is recorded, then everybody is woken.

CloseMarkLater(a) ==                        \* mutant: a socket is closed before the reason is recorded
  /\ pc[a] = "mark" /\ goto(a, IF open["client"] THEN "mark" ELSE "signal")
  /\ open' = [open EXCEPT !["client"] = FALSE]
  /\ closed' = (closed \/ ~open["client"])
  /\ closeReason' = IF closed \/ open["client"] THEN closeReason ELSE why[a]
  /\ UNCHANGED <<peers, shut, buffers, clock, dirState, firstClosed, halfCloseTimer, stopping, done, answered>>
CloseMark(a) ==
  /\ pc[a] = "mark" /\ goto(a, "signal")
  /\ closed' = TRUE
  /\ closeReason' = IF closed THEN closeReason ELSE why[a]
  /\ UNCHANGED <<peers, sockets, buffers, clock, dirState, firstClosed, halfCloseTimer, stopping, done, answered>>

CloseSignalNever(a) ==                      \* mutant: done is never closed
  /\ pc[a] = "signal" /\ goto(a, "client")
  /\ UNCHANGED <<peers, sockets, buffers, clock, record, stopping, done, answered>>
CloseSignal(a) ==
  /\ pc[a] = "signal" /\ goto(a, "client")
  /\ done' = TRUE
  /\ UNCHANGED <<peers, sockets, buffers, clock, record, stopping, answered>>

\* Close ends the stream of the peer too (a FIN, close_notify before it), also
\* when the stream lacks something: streamEnds, what a peer takes for its end.
streamEnds(s) == shut[s] \/ ~open[s]
closeSocket(s) == open' = [open EXCEPT ![s] = FALSE] /\ UNCHANGED shut

CloseClient(a) ==
  /\ pc[a] = "client" /\ goto(a, "server") /\ closeSocket("client")
  /\ UNCHANGED <<peers, buffers, clock, record, stopping, done, answered>>
CloseServer(a) ==
  /\ pc[a] = "server" /\ closeSocket("server")
  /\ pc' = [pc EXCEPT ![a] = ret[a]]
  /\ why' = [why EXCEPT ![a] = None] /\ ret' = [ret EXCEPT ![a] = "over"]
  /\ UNCHANGED <<peers, buffers, clock, record, stopping, done, answered>>

CloseStep(a) == CloseMark(a) \/ CloseSignal(a) \/ CloseClient(a) \/ CloseServer(a)

-----------------------------------------------------------------------------
\* pump: one direction, a chunk at a time.

\* The read deadline follows the activity of both directions.
PumpDeadline(d) ==
  /\ pc[d] = "top" /\ goto(d, "read")
  /\ readLeft' = [readLeft EXCEPT ![d] = IdleTimeout - age]
  /\ err' = [err EXCEPT ![d] = "none"]
  /\ UNCHANGED <<peers, sockets, held, delivered, forward, writeLeft, age, record, stopping, done, answered>>

take(d, n) ==
  /\ unread' = [unread EXCEPT ![d] = @ - n]
  /\ held' = [held EXCEPT ![d] = @ + n]
  /\ UNCHANGED <<sent, ending, accepts>>

PumpRead(d) ==
  /\ pc[d] = "read" /\ open[From(d)]
  /\ \E n \in 1..unread[d] : take(d, n)
  /\ goto(d, "batch")
  /\ UNCHANGED <<sockets, delivered, err, forward, clock, record, stopping, done, answered>>

\* What a read of direction d can fail with when left bytes are unread.
ReadErrors(d, left) ==
  {e \in {"eof", "cut", "reset", "closed"} :
     CASE e = "closed" -> ~open[From(d)]
       [] e = "eof" -> open[From(d)] /\ ending[d] = "fin" /\ left = 0
       [] e = "cut" -> open[From(d)] /\ ending[d] = "cut" /\ left = 0
       [] e = "reset" -> open[From(d)] /\ ending[d] = "reset"}
TimedOut(d) == IdleTimeout > 0 /\ open[From(d)] /\ readLeft[d] = 0

PumpReadFails(d) ==
  /\ pc[d] = "read"
  /\ \/ \E e \in ReadErrors(d, unread[d]) : err' = [err EXCEPT ![d] = e]
     \/ TimedOut(d) /\ err' = [err EXCEPT ![d] = "timeout"]
  /\ goto(d, "failed")
  /\ UNCHANGED <<peers, sockets, held, delivered, forward, clock, record, stopping, done, answered>>

\* batch: what came meanwhile is added; an error ends the direction only
\* after the bytes held are moved.
PumpBatchDrops(d) ==                        \* mutant: an error overtakes the bytes held
  /\ pc[d] = "batch"
  /\ \E n \in 0..(IF open[From(d)] THEN unread[d] ELSE 0) :
       /\ take(d, n)
       /\ \E e \in {"none"} \cup ReadErrors(d, unread[d] - n) :
            /\ err' = [err EXCEPT ![d] = e]
            /\ goto(d, IF e # "none" THEN "failed" ELSE IF d \in Limited THEN "limit" ELSE "write")
            /\ writeLeft' = [writeLeft EXCEPT ![d] = IdleTimeout]
  /\ UNCHANGED <<sockets, delivered, forward, readLeft, age, record, stopping, done, answered>>
PumpBatch(d) ==
  /\ pc[d] = "batch"
  /\ \E n \in 0..(IF open[From(d)] THEN unread[d] ELSE 0) :
       /\ take(d, n)
       /\ \E e \in {"none"} \cup ReadErrors(d, unread[d] - n) : err' = [err EXCEPT ![d] = e]
  /\ IF d \in Limited
     THEN goto(d, "limit") /\ UNCHANGED writeLeft
     ELSE goto(d, "write") /\ writeLeft' = [writeLeft EXCEPT ![d] = IdleTimeout]
  /\ UNCHANGED <<sockets, delivered, forward, readLeft, age, record, stopping, done, answered>>

\* waitAll: the limit lets the bytes go (not idleness), or closeAll woke us.
PumpLimitPassed(d) ==
  /\ pc[d] = "limit" /\ goto(d, "write")
  /\ age' = 0 /\ writeLeft' = [writeLeft EXCEPT ![d] = IdleTimeout]
  /\ UNCHANGED <<peers, sockets, buffers, readLeft, record, stopping, done, answered>>
PumpLimitCancelled(d) ==
  /\ pc[d] = "limit" /\ done /\ goto(d, "over")
  /\ UNCHANGED <<peers, sockets, buffers, clock, record, stopping, done, answered>>

\* n of the held bytes got through.
wroteTwice(d, n) ==                         \* mutant: a short write is counted whole
  /\ delivered' = [delivered EXCEPT ![d] = @ + n + 1] /\ held' = [held EXCEPT ![d] = 0]
  /\ age' = IF n > 0 THEN 0 ELSE age
  /\ UNCHANGED err
wrote(d, n) ==
  /\ delivered' = [delivered EXCEPT ![d] = @ + n] /\ held' = [held EXCEPT ![d] = 0]
  /\ age' = IF n > 0 THEN 0 ELSE age
  /\ UNCHANGED err

PumpWrite(d) ==
  /\ pc[d] = "write" /\ open[To(d)] /\ accepts[To(d)]
  /\ wrote(d, held[d]) /\ goto(d, IF err[d] = "none" THEN "top" ELSE "failed")
  /\ UNCHANGED <<peers, sockets, forward, readLeft, writeLeft, record, stopping, done, answered>>

\* The receiver won't take more: only this direction is over.
PumpWriteFails(d) ==
  /\ pc[d] = "write" /\ ~(open[To(d)] /\ accepts[To(d)])
  /\ \E n \in 0..(held[d] - 1) : wrote(d, n)
  /\ forward' = [forward EXCEPT ![d] = FALSE] /\ goto(d, "store")
  /\ UNCHANGED <<peers, sockets, readLeft, writeLeft, record, stopping, done, answered>>

PumpWriteStalls(d) ==
  /\ pc[d] = "write" /\ open[To(d)] /\ IdleTimeout > 0 /\ writeLeft[d] = 0
  /\ \E n \in 0..(held[d] - 1) : wrote(d, n)
  /\ callCloseAll(d, "stalled", "over")
  /\ UNCHANGED <<peers, sockets, forward, readLeft, writeLeft, record, stopping, done, answered>>

\* The switch on the read's error.
PumpEOF(d) ==
  /\ pc[d] = "failed" /\ err[d] = "eof"
  /\ forward' = [forward EXCEPT ![d] = TRUE] /\ goto(d, "store")
  /\ UNCHANGED <<peers, sockets, held, delivered, err, clock, record, stopping, done, answered>>
PumpWoken(d) ==
  /\ pc[d] = "failed" /\ err[d] # "eof" /\ closed
  /\ goto(d, "over")
  /\ UNCHANGED <<peers, sockets, buffers, clock, record, stopping, done, answered>>
PumpKeepsWaitingAlways(d) ==                \* mutant: the other direction is always taken for active
  /\ pc[d] = "failed" /\ ~closed /\ err[d] = "timeout"
  /\ goto(d, "top")
  /\ UNCHANGED <<peers, sockets, buffers, clock, record, stopping, done, answered>>
PumpKeepsWaiting(d) ==
  /\ pc[d] = "failed" /\ ~closed /\ err[d] = "timeout" /\ age < IdleTimeout
  /\ goto(d, "top")
  /\ UNCHANGED <<peers, sockets, buffers, clock, record, stopping, done, answered>>
PumpIdle(d) ==
  /\ pc[d] = "failed" /\ ~closed /\ err[d] = "timeout" /\ age = IdleTimeout
  /\ callCloseAll(d, "idle", "over")
  /\ UNCHANGED <<peers, sockets, buffers, clock, record, stopping, done, answered>>
PumpCut(d) ==
  /\ pc[d] = "failed" /\ ~closed /\ err[d] = "cut"
  /\ callCloseAll(d, "cut", "over")
  /\ UNCHANGED <<peers, sockets, buffers, clock, record, stopping, done, answered>>
PumpError(d) ==
  /\ pc[d] = "failed" /\ ~closed /\ err[d] \in {"reset", "closed"}
  /\ callCloseAll(d, "error", "over")
  /\ UNCHANGED <<peers, sockets, buffers, clock, record, stopping, done, answered>>

-----------------------------------------------------------------------------
\* endDirection

EndStoreShutsFirst(d) ==                    \* mutant: CloseWrite is not deferred
  /\ pc[d] = "store" /\ goto(d, "record")
  /\ dirState' = [dirState EXCEPT ![d] = "halfClosed"]
  /\ IF forward[d]
     THEN shut' = [shut EXCEPT ![To(d)] = @ \/ open[To(d)]] /\ UNCHANGED open
     ELSE UNCHANGED sockets
  /\ UNCHANGED <<peers, buffers, clock, closed, closeReason, firstClosed, halfCloseTimer, stopping, done, answered>>
EndStore(d) ==
  /\ pc[d] = "store" /\ goto(d, "record")
  /\ dirState' = [dirState EXCEPT ![d] = "halfClosed"]
  /\ UNCHANGED <<peers, sockets, buffers, clock, closed, closeReason, firstClosed, halfCloseTimer, stopping, done, answered>>

\* Under the lock: nothing if closed already, a mutual close if the other
\* direction has ended, else this one is the first and the timer starts.
recordEndAlone(d) ==                        \* mutant: the mutual close is not noticed
  /\ UNCHANGED <<closed, closeReason>>
  /\ IF ~closed /\ dirState[Other(d)] # "halfClosed"
     THEN /\ firstClosed' = d
          /\ halfCloseTimer' = IF HalfClose THEN "armed" ELSE halfCloseTimer
     ELSE UNCHANGED <<firstClosed, halfCloseTimer>>
recordEnd(d) ==
  /\ IF ~closed /\ dirState[Other(d)] = "halfClosed"
     THEN closed' = TRUE /\ closeReason' = "ends" ELSE UNCHANGED <<closed, closeReason>>
  /\ IF ~closed /\ dirState[Other(d)] # "halfClosed"
     THEN /\ firstClosed' = d
          /\ halfCloseTimer' = IF HalfClose THEN "armed" ELSE halfCloseTimer
     ELSE UNCHANGED <<firstClosed, halfCloseTimer>>

EndRecord(d) ==
  /\ pc[d] = "record" /\ goto(d, IF forward[d] THEN "shut" ELSE "over")
  /\ recordEnd(d)
  /\ UNCHANGED <<peers, sockets, buffers, clock, dirState, stopping, done, answered>>

\* The deferred CloseWrite.
closeWrite(s) == shut' = [shut EXCEPT ![s] = @ \/ open[s]] /\ UNCHANGED open

EndShut(d) ==
  /\ pc[d] = "shut" /\ goto(d, "over") /\ closeWrite(To(d))
  /\ UNCHANGED <<peers, buffers, clock, record, stopping, done, answered>>

TimerFires ==
  /\ halfCloseTimer = "armed" /\ halfCloseTimer' = "fired"
  /\ callCloseAll("timer", "half", "over")
  /\ UNCHANGED <<peers, sockets, buffers, clock, dirState, closed, closeReason, firstClosed, stopping, done, answered>>

-----------------------------------------------------------------------------
\* The handler around the relay, and the console.

\* setKill, applying a stop that was asked for earlier.
SetKillOnly ==                              \* mutant: an earlier stop is forgotten
  /\ pc["handler"] = "setkill" /\ kill' = TRUE /\ goto("handler", "recheck")
  /\ UNCHANGED <<peers, sockets, buffers, clock, record, killReason, ruleStopped, endReason, done, answered>>
SetKill ==
  /\ pc["handler"] = "setkill" /\ kill' = TRUE
  /\ IF killReason # None THEN callCloseAll("handler", "stop", "recheck") ELSE goto("handler", "recheck")
  /\ UNCHANGED <<peers, sockets, buffers, clock, record, killReason, ruleStopped, endReason, done, answered>>

\* The rule may have been stopped since it routed this connection.
Recheck ==
  /\ pc["handler"] = "recheck"
  /\ IF ruleStopped THEN callCloseAll("handler", "stop", "start") ELSE goto("handler", "start")
  /\ UNCHANGED <<peers, sockets, buffers, clock, record, stopping, done, answered>>

StartPumps ==
  /\ pc["handler"] = "start"
  /\ pc' = [a \in Actors |-> IF a \in Dirs THEN "top" ELSE IF a = "handler" THEN "wait" ELSE pc[a]]
  /\ UNCHANGED <<peers, sockets, buffers, clock, record, stopping, why, ret, done, answered>>

Finish ==
  /\ pc["handler"] = "wait" /\ \A d \in Dirs : pc[d] = "over"
  /\ goto("handler", "end") /\ closed' = TRUE
  /\ halfCloseTimer' = IF halfCloseTimer = "armed" THEN "stopped" ELSE halfCloseTimer
  /\ UNCHANGED <<peers, sockets, buffers, clock, dirState, closeReason, firstClosed, stopping, done, answered>>

\* setEnd; then the deferred closes of handle.
SetEnd ==
  /\ pc["handler"] = "end" /\ goto("handler", "over")
  /\ endReason' = closeReason
  /\ open' = [s \in Sides |-> FALSE]
  /\ UNCHANGED <<peers, shut, buffers, clock, record, kill, killReason, ruleStopped, done, answered>>

\* The console stops the connection, or its rule: the rule is marked first,
\* then its connections are stopped.
ConsoleStops(what) ==
  /\ pc["console"] = "idle" /\ goto("console", "stop")
  /\ ruleStopped' = (what = "rule")
  /\ UNCHANGED <<peers, sockets, buffers, clock, record, kill, killReason, endReason, done, answered>>

Stop ==
  /\ pc["console"] = "stop"
  /\ IF kill
     THEN callCloseAll("console", "stop", "over") /\ UNCHANGED killReason
     ELSE goto("console", "over") /\ killReason' = "stop"
  /\ UNCHANGED <<peers, sockets, buffers, clock, record, kill, ruleStopped, endReason, done, answered>>

\* The connection has ended.
Over == pc["handler"] = "over" /\ UNCHANGED vars

-----------------------------------------------------------------------------
\* What a pump does by itself; a write that is taken and a limit that passes
\* also depend on others.
PumpStep(d) ==
  \/ PumpDeadline(d) \/ PumpRead(d) \/ PumpReadFails(d) \/ PumpBatch(d)
  \/ PumpLimitCancelled(d) \/ PumpWriteFails(d) \/ PumpWriteStalls(d)
  \/ PumpEOF(d) \/ PumpWoken(d) \/ PumpKeepsWaiting(d) \/ PumpIdle(d) \/ PumpCut(d) \/ PumpError(d)
  \/ EndStore(d) \/ EndRecord(d) \/ EndShut(d)
HandlerStep == SetKill \/ Recheck \/ StartPumps \/ Finish \/ SetEnd
PeerStep ==
  \/ \E d \in Dirs : PeerSend(d) \/ \E how \in Endings : PeerEnds(d, how)
  \/ \E s \in Refusers : PeerStopsReading(s)

Next ==
  \/ PeerStep \/ Tick
  \/ \E a \in Actors : CloseStep(a)
  \/ \E d \in Dirs : PumpStep(d) \/ PumpLimitPassed(d) \/ PumpWrite(d)
  \/ TimerFires \/ HandlerStep
  \/ (\E what \in Stops : ConsoleStops(what)) \/ Stop
  \/ Over

Spec == Init /\ [][Next]_vars

-----------------------------------------------------------------------------
\* Properties.

Closing == {"mark", "signal", "client", "server"}
Reasons == {None, "ends", "half", "idle", "stalled", "cut", "error", "stop"}

PumpSteps == {"off", "top", "read", "batch", "limit", "write", "failed", "store", "record", "shut", "over"}
Steps == Closing \cup PumpSteps \cup {"idle", "stop", "setkill", "recheck", "start", "wait", "end"}

\* Every variable stays in its type.
TypeStreams ==
  /\ sent \in [Dirs -> Nat] /\ unread \in [Dirs -> Nat]
  /\ ending \in [Dirs -> {"open", "fin", "reset", "cut"}] /\ accepts \in [Sides -> BOOLEAN]
  /\ open \in [Sides -> BOOLEAN] /\ shut \in [Sides -> BOOLEAN]
  /\ held \in [Dirs -> Nat] /\ delivered \in [Dirs -> Nat]
  /\ err \in [Dirs -> {"none", "eof", "cut", "reset", "closed", "timeout"}]
  /\ forward \in [Dirs -> BOOLEAN] /\ answered \in [Dirs -> BOOLEAN]
TypeClock ==
  readLeft \in [Dirs -> 0..IdleTimeout] /\ writeLeft \in [Dirs -> 0..IdleTimeout] /\ age \in 0..IdleTimeout
TypeRecord ==
  /\ dirState \in [Dirs -> {"open", "halfClosed"}]
  /\ closed \in BOOLEAN /\ closeReason \in Reasons /\ firstClosed \in Dirs \cup {None}
  /\ halfCloseTimer \in {"none", "armed", "fired", "stopped"}
  /\ kill \in BOOLEAN /\ killReason \in {None, "stop"} /\ ruleStopped \in BOOLEAN
  /\ endReason \in Reasons /\ done \in BOOLEAN
TypeControl ==
  pc \in [Actors -> Steps] /\ why \in [Actors -> Reasons] /\ ret \in [Actors -> {"over", "recheck", "start"}]
TypeOK == TypeStreams /\ TypeClock /\ TypeRecord /\ TypeControl

\* No byte is delivered twice or made up, whatever fails half-way.
BytesConserved == \A d \in Dirs : delivered[d] + held[d] + unread[d] <= sent[d]

whole(d) == ending[d] = "fin" /\ delivered[d] = sent[d]

\* A half-close is forwarded only for a clean end, and only behind every byte
\* that came before it.
HalfClosesAreWhole == \A d \in Dirs : shut[To(d)] => whole(d)

\* A peer that still takes data and is given the end of a stream that lacks
\* something - a cut, a reset, a timeout, a stop - cannot tell it from a whole
\* one; the flow log can: it never calls that an ordinary end.
ShortEndIsTold ==
  \A d \in Dirs : streamEnds(To(d)) /\ accepts[To(d)] /\ ~whole(d) => closed /\ closeReason \notin {None, "ends"}

\* The ends of the streams: a half-close is a whole stream's, and a short one
\* is on record as such.
FinAfterData == HalfClosesAreWhole /\ ShortEndIsTold

\* "The peer may answer the FIN with its own close at once, and that must not
\* be logged as the first": when a direction ended with a close that came
\* only after our FIN, the other one is on record as the first to end.
FirstIsFirst ==
  \A d \in Dirs : answered[d] /\ forward[d] /\ (firstClosed # None \/ closeReason = "ends") => firstClosed = Other(d)

\* A pump woken by our own Close never reports it: an error on record is one
\* that a peer caused, and a cut is a peer's too.
ErrorsAreThePeers ==
  /\ closeReason = "error" => \E d \in Dirs : ending[d] = "reset"
  /\ closeReason = "cut" => \E d \in Dirs : ending[d] = "cut"

\* Whichever way the two directions end, the flow log gets a reason.
EndedHasReason == pc["handler"] = "over" => endReason # None

\* What the flow log says of the end is true: who closed first, whose fault
\* an error was, and why the connection ended.
EndIsTold == FirstIsFirst /\ ErrorsAreThePeers /\ EndedHasReason

\* A stop that has returned is not lost: once the handler is past setKill,
\* the connection is closed or being closed, whichever of the two came first.
StopIsKept ==
  pc["console"] = "over" /\ pc["handler"] \in {"start", "wait", "end", "over"} => closed /\ done

\* Fairness: goroutines run and timers fire.  Nothing is assumed of the
\* peers, of writes being taken, or of a speed limit letting bytes go.
FairSpec ==
  /\ Spec /\ WF_vars(HandlerStep) /\ WF_vars(TimerFires) /\ WF_vars(Stop)
  /\ \A a \in Actors : WF_vars(CloseStep(a))
  /\ \A d \in Dirs : WF_vars(PumpStep(d))

\* Once one direction has ended, the half-close timeout ends the connection,
\* wherever the other direction is: reading, writing, waiting on a limit.
HalfCloseEnds == firstClosed # None ~> pc["handler"] = "over"

\* A stopped connection ends, whatever it is waiting for.
StopEnds == pc["console"] = "over" ~> pc["handler"] = "over"

\* As long as time passes, the idle timeout reaps every connection in which
\* nothing moves any more, also one with a direction held by its speed limit.
IdleEnds == WF_vars(Tick) => <>(pc["handler"] = "over") \/ []<>(age = 0)
=============================================================================
