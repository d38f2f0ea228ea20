---------------------------- MODULE BoundedQueue ----------------------------
(***************************************************************************)
(* What the lock-free ring of lockfree.go promises its callers: a bounded  *)
(* first-in first-out queue whose TryPush and TryPop never wait.  An item  *)
(* takes its place in one step and is ready a step later, when its         *)
(* producer is done with it; likewise a consumer takes an item in one step *)
(* and gives its place back in another.  So TryPop may say "empty" while   *)
(* the oldest item is not ready, and TryPush may say "full" while a taken  *)
(* item's place has not been given back.                                   *)
(***************************************************************************)
EXTENDS Naturals, Sequences

CONSTANTS Threads, Values, Size, NoOne, NoValue

VARIABLES
  queue,   \* items, oldest first: [val, by], by = NoOne once the item is ready
  call     \* Threads -> [op, val]: what each thread is doing

qvars == <<queue, call>>

NoCall == [op |-> "none", val |-> NoValue]
Leaving == {t \in Threads : call[t].op = "took"}

QInit == queue = <<>> /\ call = [t \in Threads |-> NoCall]

QCall(t) ==
  /\ call[t] = NoCall
  /\ \/ \E v \in Values : call' = [call EXCEPT ![t] = [op |-> "push", val |-> v]]
     \/ call' = [call EXCEPT ![t] = [op |-> "pop", val |-> NoValue]]
  /\ UNCHANGED queue

\* TryPush takes the place behind the youngest item.
QPut(t) ==
  /\ call[t].op = "push" /\ Len(queue) < Size
  /\ queue' = Append(queue, [val |-> call[t].val, by |-> t])
  /\ call' = [call EXCEPT ![t].op = "put"]

\* ... and returns true, the item being ready.
QReady(t) ==
  /\ call[t].op = "put"
  /\ queue' = [i \in DOMAIN queue |-> IF queue[i].by = t THEN [queue[i] EXCEPT !.by = NoOne] ELSE queue[i]]
  /\ call' = [call EXCEPT ![t] = NoCall]

\* TryPush returns false: every place is taken, or one is being given back.
QFull(t) ==
  /\ call[t].op = "push" /\ (Len(queue) = Size \/ Leaving # {})
  /\ call' = [call EXCEPT ![t] = NoCall]
  /\ UNCHANGED queue

\* TryPop takes the oldest item, which is ready,
QTake(t) ==
  /\ call[t].op = "pop" /\ queue # <<>> /\ Head(queue).by = NoOne
  /\ queue' = Tail(queue)
  /\ call' = [call EXCEPT ![t] = [op |-> "took", val |-> Head(queue).val]]

\* ... and returns it, giving its place back.
QReturn(t) ==
  /\ call[t].op = "took"
  /\ call' = [call EXCEPT ![t] = NoCall]
  /\ UNCHANGED queue

\* TryPop returns false: nothing is queued, or the oldest item is not ready.
QEmpty(t) ==
  /\ call[t].op = "pop" /\ (queue = <<>> \/ Head(queue).by # NoOne)
  /\ call' = [call EXCEPT ![t] = NoCall]
  /\ UNCHANGED queue

QNext ==
  \E t \in Threads :
    QCall(t) \/ QPut(t) \/ QReady(t) \/ QFull(t) \/ QTake(t) \/ QReturn(t) \/ QEmpty(t)

QSpec == QInit /\ [][QNext]_qvars
=============================================================================
