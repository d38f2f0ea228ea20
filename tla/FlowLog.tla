------------------------------ MODULE FlowLog ------------------------------
(***************************************************************************)
(* The flow log (flows.go) and the console page that shows it              *)
(* (console/app.js): handlers of connections publish what happens to them, *)
(* a drop-oldest queue carries it to a page, and snapshots of the open     *)
(* connections repair what the queue lost.                                 *)
(*                                                                         *)
(* A view of a connection is its stage (1 open, 2 routed), its number and  *)
(* whether it is the last one.  Numbers are kept per connection, and a     *)
(* view like the one taken before it has its number: pages compare the     *)
(* numbers of one connection only, and views that show the same are the    *)
(* same to them.  A frame written to the WebSocket reaches the page in the *)
(* order of the writes; FLOW_KEEP is more than the connections there are.  *)
(***************************************************************************)
EXTENDS Naturals, Sequences, FiniteSets, SequencesExt

CONSTANTS
  Flows,          \* connections
  Refused,        \* those a limit or a bad PROXY header turns away
  OtherFlows,     \* whether there are any number of connections besides these
  FlowQueue,      \* flowQueueCapacity
  FlowBatch,      \* flowBatch
  FlowHistory,    \* flowHistory
  SnapshotFlows,  \* maxSnapshotFlows
  NoFlow          \* no view, no card

VARIABLES
  stage, number, numbered, \* what a connection is, its views' last number and what that showed
  table, young,            \* Stats.conns; the connections started less than a second ago
  hpc, pending,            \* a handler's step and the view it is about to publish
  history, next,           \* flowLog.closed, and where flowLog.next points in it
  viewers, events,         \* pages watching; what the page's receiver holds
  flowPage, snap, batch,       \* flowSocket: its step, the snapshot it builds, the events it received
  endedSince,                   \* records that ended after the last snapshot's Now
  cards                    \* the page's cards

handlerVars == <<stage, number, numbered, table, young, hpc, pending>>
logVars == <<history, next, viewers, events>>
pageVars == <<flowPage, snap, batch, endedSince, cards>>
flowVars == <<handlerVars, logVars, pageVars>>

Views == [id : Flows, seq : Nat, stage : 0..2, ended : BOOLEAN]
Cards == [view : Views, misses : 0..2]
FirstSnap == [step |-> "idle", full |-> FALSE, list |-> {}, active |-> {}, cut |-> FALSE,
              closed |-> {}, young |-> {}]
Snapshots == [step : {"idle", "start", "view", "write"}, full : BOOLEAN, list : SUBSET Flows,
              active : SUBSET Views, cut : BOOLEAN, closed : SUBSET Views, young : SUBSET Flows]

ASSUME FlowAssumption ==
  /\ Refused \subseteq Flows /\ IsFiniteSet(Flows) /\ NoFlow \notin Flows \cup Views \cup Cards
  /\ FlowQueue \in Nat \ {0} /\ FlowBatch \in Nat \ {0} /\ FlowHistory \in Nat \ {0}
  /\ SnapshotFlows \in Nat \ {0} /\ OtherFlows \in BOOLEAN

FlowTypeOK ==
  /\ stage \in [Flows -> 0..2] /\ number \in [Flows -> Nat] /\ numbered \in [Flows -> 0..2]
  /\ table \subseteq Flows /\ young \subseteq Flows
  /\ hpc \in [Flows -> {"new", "emit", "routing", "send", "relay", "end", "store", "tell", "done"}]
  /\ pending \in [Flows -> Views \cup {NoFlow}]
  /\ history \in [0..(FlowHistory - 1) -> Views \cup {NoFlow}] /\ next \in 0..(FlowHistory - 1)
  /\ viewers \in Nat /\ events \in Seq(Views) /\ Len(events) <= FlowQueue
  /\ flowPage \in {"off", "first", "open"} /\ snap \in Snapshots /\ batch \in Seq(Views)
  /\ endedSince \subseteq Flows /\ cards \in [Flows -> Cards \cup {NoFlow}]

FlowInit ==
  /\ stage = [c \in Flows |-> 0] /\ number = [c \in Flows |-> 0] /\ numbered = [c \in Flows |-> 0]
  /\ table = {} /\ young = Flows /\ hpc = [c \in Flows |-> "new"] /\ pending = [c \in Flows |-> NoFlow]
  /\ history = [i \in 0..(FlowHistory - 1) |-> NoFlow] /\ next = 0
  /\ viewers = 0 /\ events = <<>> /\ flowPage = "off" /\ snap = FirstSnap /\ batch = <<>>
  /\ endedSince = {} /\ cards = [c \in Flows |-> NoFlow]

-----------------------------------------------------------------------------
(* Views and the queue *)

flowSeq(c) == IF numbered[c] = stage[c] THEN number[c] ELSE number[c] + 1
flow(c) == [id |-> c, seq |-> flowSeq(c), stage |-> stage[c], ended |-> FALSE]
takeView(c) == /\ number' = [number EXCEPT ![c] = flowSeq(c)]
               /\ numbered' = [numbered EXCEPT ![c] = stage[c]]

\* Send on the drop-oldest queue; only a page that holds a receiver has one.
publish(v) ==
  events' = IF flowPage = "off" THEN events
            ELSE LET q == Append(events, v)
                 IN IF Len(q) > FlowQueue THEN Tail(q) ELSE q

-----------------------------------------------------------------------------
(* The handler of a connection *)

toStep(c, step) == hpc' = [hpc EXCEPT ![c] = step]

FlowRegister(c) ==
  /\ hpc[c] = "new" /\ c \notin Refused
  /\ stage' = [stage EXCEPT ![c] = 1] /\ table' = table \cup {c} /\ toStep(c, "emit")
  /\ UNCHANGED <<number, numbered, young, pending, logVars, pageVars>>

\* emit looks at viewers, then takes the view, then sends it.
FlowEmit(c) ==
  /\ hpc[c] \in {"emit", "routing"}
  /\ IF viewers = 0
     THEN toStep(c, "relay") /\ UNCHANGED <<number, numbered, pending>>
     ELSE /\ takeView(c) /\ pending' = [pending EXCEPT ![c] = flow(c)] /\ toStep(c, "send")
  /\ UNCHANGED <<stage, table, young, logVars, pageVars>>

FlowSend(c) ==
  /\ hpc[c] = "send" /\ publish(pending[c])
  /\ pending' = [pending EXCEPT ![c] = NoFlow] /\ toStep(c, "relay")
  /\ UNCHANGED <<stage, number, numbered, table, young, history, next, viewers, pageVars>>

FlowRoute(c) ==
  /\ hpc[c] = "relay" /\ stage[c] = 1
  /\ stage' = [stage EXCEPT ![c] = 2] /\ toStep(c, "routing")
  /\ UNCHANGED <<number, numbered, table, young, pending, logVars, pageVars>>

\* unregister: out of the table, then end.
Unregister(c) ==
  /\ hpc[c] = "relay" /\ table' = table \ {c} /\ toStep(c, "end")
  /\ UNCHANGED <<stage, number, numbered, young, pending, logVars, pageVars>>

FlowEnd(c) ==
  /\ hpc[c] = "end" /\ takeView(c)
  /\ pending' = [pending EXCEPT ![c] = [flow(c) EXCEPT !.ended = TRUE]]
  /\ endedSince' = endedSince \cup {c} /\ toStep(c, "store")
  /\ UNCHANGED <<stage, table, young, logVars, flowPage, snap, batch, cards>>

FlowRefused(c) ==
  /\ hpc[c] = "new" /\ c \in Refused
  /\ number' = [number EXCEPT ![c] = @ + 1]
  /\ pending' = [pending EXCEPT ![c] = [flow(c) EXCEPT !.seq = number[c] + 1, !.ended = TRUE]]
  /\ endedSince' = endedSince \cup {c} /\ toStep(c, "store")
  /\ UNCHANGED <<stage, numbered, table, young, logVars, flowPage, snap, batch, cards>>

\* The ring of records: next counts modulo its size.
record(v) == history' = [history EXCEPT ![next] = v] /\ next' = (next + 1) % FlowHistory
FlowRecord(c) ==
  \/ /\ hpc[c] = "store" /\ record(pending[c])
     /\ toStep(c, IF viewers > 0 THEN "tell" ELSE "done")
     /\ UNCHANGED <<stage, number, numbered, table, young, pending, viewers, events, pageVars>>
  \/ /\ hpc[c] = "tell" /\ publish(pending[c]) /\ toStep(c, "done")
     /\ UNCHANGED <<stage, number, numbered, table, young, pending, history, next, viewers, pageVars>>

\* The other connections' records and events take the places of these; their
\* own, which no card here shows, are left out.
OthersEnd ==
  /\ OtherFlows
  /\ \/ history[next] # NoFlow /\ record(NoFlow) /\ UNCHANGED events
     \/ events # <<>> /\ events' = Tail(events) /\ UNCHANGED <<history, next>>
  /\ UNCHANGED <<handlerVars, viewers, pageVars>>

\* A second passes; nothing asks the age of one that was turned away.
Ages(c) ==
  /\ c \in young \ Refused /\ hpc[c] # "new" /\ young' = young \ {c}
  /\ UNCHANGED <<stage, number, numbered, table, hpc, pending, logVars, pageVars>>

-----------------------------------------------------------------------------
(* flowSnapshot: the table, a view of each, the records, Now *)

\* More than fit, these and the others together, and some are left out.
SnapshotList ==
  /\ snap.step = "start"
  /\ \E list \in SUBSET table, cut \in BOOLEAN :
       /\ Cardinality(list) <= SnapshotFlows
       /\ IF cut THEN OtherFlows \/ (Cardinality(list) = SnapshotFlows /\ list # table) ELSE list = table
       /\ snap' = [snap EXCEPT !.step = "view", !.list = list, !.cut = cut]
  /\ UNCHANGED <<handlerVars, logVars, flowPage, batch, endedSince, cards>>

SnapshotView ==
  /\ snap.step = "view" /\ snap.list # {}
  /\ \E c \in snap.list :
       /\ takeView(c)
       /\ snap' = [snap EXCEPT !.list = @ \ {c}, !.active = @ \cup {flow(c)}]
  /\ UNCHANGED <<stage, table, young, hpc, pending, logVars, flowPage, batch, endedSince, cards>>

\* Records from before the last Now are among them if they are of its last
\* second, or of the history the first snapshot was asked for.
SnapshotClosed ==
  /\ snap.step = "view" /\ snap.list = {}
  /\ LET kept == Range(history) \ {NoFlow} IN
     \E older \in SUBSET {v \in kept : v.id \notin endedSince} :
       snap' = [snap EXCEPT !.step = "write", !.young = young,
                            !.closed = {v \in kept : v.id \in endedSince} \cup older]
  /\ endedSince' = {}
  /\ UNCHANGED <<handlerVars, logVars, flowPage, batch, cards>>

-----------------------------------------------------------------------------
(* The page's cards *)

newerAlways(e, v) == ~(e.ended /\ ~v.ended)  \* mutant: numbers are not compared
newer(e, v) == /\ ~(e.ended /\ ~v.ended)
               /\ v.seq > e.seq \/ (v.ended /\ ~e.ended)

\* The card e when the view v reaches the page.
upserted(e, v) ==
  IF e = NoFlow THEN [view |-> v, misses |-> 0]
  ELSE [view |-> IF newer(e.view, v) THEN v ELSE e.view,
        misses |-> IF ~v.ended \/ e.view.ended THEN 0 ELSE e.misses]

flowUpsert(cs, v) == [cs EXCEPT ![v.id] = upserted(@, v)]

\* A list of a snapshot has each connection once.
upsertAll(cs, vs) ==
  [c \in Flows |-> LET of == {v \in vs : v.id = c}
                   IN IF of = {} THEN cs[c] ELSE upserted(cs[c], CHOOSE v \in of : TRUE)]
\* Events one after the other.
upsertEach(cs, vs) ==
  LET after[i \in 0..Len(vs)] == IF i = 0 THEN cs ELSE flowUpsert(after[i - 1], vs[i])
  IN after[Len(vs)]

missed(cs, s) == {c \in Flows : /\ cs[c] # NoFlow /\ ~cs[c].view.ended
                                /\ c \notin {v.id : v \in s.active} \cup s.young}
closedAfterOne == 1                         \* mutant: one missed list is enough
closedAfter == 2
noteMissingNever(cs, s) == cs                \* mutant: snapshots close nothing
noteMissing(cs, s) ==
  [c \in Flows |->
    IF c \notin missed(cs, s) THEN cs[c]
    ELSE IF cs[c].misses + 1 >= closedAfter
         THEN [view |-> [cs[c].view EXCEPT !.ended = TRUE], misses |-> 2]
         ELSE [cs[c] EXCEPT !.misses = @ + 1]]

flowMessage(cs, s) ==
  LET base == IF s.full THEN [c \in Flows |-> NoFlow] ELSE cs
      seen == upsertAll(upsertAll(base, s.closed), s.active)
  IN IF s.cut \/ s.full THEN seen ELSE noteMissing(seen, s)

-----------------------------------------------------------------------------
(* flowSocket: receiver, viewers, first snapshot; then events and snapshots *)

\* The receiver comes before the first snapshot.
FlowSocket == /\ flowPage = "off" /\ flowPage' = "first" /\ viewers' = viewers + 1 /\ events' = <<>>
              /\ snap' = [FirstSnap EXCEPT !.step = "start", !.full = TRUE]
              /\ UNCHANGED <<handlerVars, history, next, batch, endedSince, cards>>
SnapshotTick == /\ flowPage = "open" /\ snap.step = "idle"
                /\ snap' = [FirstSnap EXCEPT !.step = "start"]
                /\ UNCHANGED <<handlerVars, logVars, flowPage, batch, endedSince, cards>>
WriteSnapshot ==
  /\ snap.step = "write" /\ flowPage \in {"first", "open"}
  /\ cards' = flowMessage(cards, snap) /\ snap' = FirstSnap /\ flowPage' = "open"
  /\ UNCHANGED <<handlerVars, logVars, batch, endedSince>>
\* Recv, and what else waits.
ReceiveEvents ==
  /\ flowPage = "open" /\ batch = <<>> /\ events # <<>>
  /\ LET n == IF Len(events) < FlowBatch THEN Len(events) ELSE FlowBatch
     IN batch' = SubSeq(events, 1, n) /\ events' = SubSeq(events, n + 1, Len(events))
  /\ UNCHANGED <<handlerVars, history, next, viewers, flowPage, snap, endedSince, cards>>
WriteEvents ==
  /\ flowPage = "open" /\ batch # <<>>
  /\ cards' = upsertEach(cards, batch) /\ batch' = <<>>
  /\ UNCHANGED <<handlerVars, logVars, flowPage, snap, endedSince>>
\* The page leaves, signs out, or a write fails: the watcher closes the
\* receiver, and the handler's defers run.  The cards stay until it is back.
Leave == /\ flowPage \in {"first", "open"} /\ flowPage' = "off" /\ snap' = FirstSnap /\ batch' = <<>>
         /\ viewers' = viewers - 1 /\ events' = <<>>
         /\ UNCHANGED <<handlerVars, history, next, endedSince, cards>>

FlowRuns(c) == FlowEmit(c) \/ FlowSend(c) \/ FlowEnd(c) \/ FlowRecord(c)
Snapshot == SnapshotTick \/ SnapshotList \/ SnapshotView \/ SnapshotClosed \/ WriteSnapshot
Streaming == ReceiveEvents \/ WriteEvents
FlowNext == \/ \E c \in Flows : \/ FlowRuns(c) \/ Ages(c)
                               \/ FlowRegister(c) \/ FlowRoute(c) \/ Unregister(c) \/ FlowRefused(c)
            \/ Snapshot \/ Streaming \/ FlowSocket \/ Leave \/ OthersEnd

\* A handler runs on, and so do the watcher with its ticker and the loop that
\* sends events.  Nothing makes a connection come, end or be routed, nor a
\* page come or leave.
FlowFairness ==
  /\ \A c \in Flows : WF_flowVars(FlowRuns(c)) /\ WF_flowVars(Ages(c))
  /\ WF_flowVars(Snapshot) /\ WF_flowVars(Streaming)

FlowSpec == FlowInit /\ [][FlowNext]_flowVars /\ FlowFairness

-----------------------------------------------------------------------------
(* Properties *)

\* A card says closed only of a connection that is out of the table: neither
\* a snapshot built while the connection was being registered nor two missed
\* lists in a row call an open connection closed.
ClosedIsClosed ==
  \A c \in Flows : cards[c] # NoFlow /\ cards[c].view.ended => c \notin table /\ hpc[c] # "new"

\* A card never goes back: whatever order events and snapshots reach the page
\* in, a routed connection is not shown as waiting again, nor a closed one as
\* open, until the page starts over with a full snapshot.
CardsOnlyAdvance ==
  [][\A c \in Flows : cards[c] # NoFlow /\ cards'[c] # NoFlow /\ ~(snap.full /\ snap.step = "write") =>
       /\ cards'[c].view.stage >= cards[c].view.stage
       /\ cards[c].view.ended => cards'[c].view.ended]_flowVars

wholeSnapshot == snap.step = "write" /\ ~snap.cut

\* What the drop-oldest queue lost is repaired: a connection that has ended is
\* soon no longer shown as open by a page that stays - as long as snapshots
\* that leave nothing out keep coming.  Truncated ones (more open connections
\* than maxSnapshotFlows) in between close nothing and do no harm; if there
\* are only such, a card whose event and record were lost stays open.
EndedIsShown ==
  \A c \in Flows :
    []<>wholeSnapshot =>
      (hpc[c] = "done" ~> (flowPage # "open" \/ cards[c] = NoFlow \/ cards[c].view.ended))
=============================================================================
