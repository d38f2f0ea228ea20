-------------------------------- MODULE Ring --------------------------------
(***************************************************************************)
(* The lock-free ring of lockfree.go (a bounded multi-producer             *)
(* multi-consumer queue after Dmitry Vyukov), one step per atomic          *)
(* operation and per access to a cell's value.  Positions are uint64 in    *)
(* the code; 2^64 operations are out of reach, so they are naturals here,  *)
(* bounded by MaxPosition for TLC.                                         *)
(***************************************************************************)
EXTENDS Naturals, Sequences

CONSTANTS
  Threads,      \* goroutines that call TryPush and TryPop
  Values,       \* what is queued
  Size,         \* cells: a power of two, at least 2
  NoOne,        \* no thread
  NoValue,      \* the zero value of T
  MaxPosition   \* bound: positions claimed by producers

ASSUME SizeAssumption == Size \in Nat /\ Size >= 2
ASSUME RingAssumption == NoOne \notin Threads /\ NoValue \notin Values /\ MaxPosition \in Nat

VARIABLES
  head, tail,         \* the next position to pop and to push
  seq, val,           \* per cell: whose turn it is, and the item
  pc, pos, item       \* per thread: where it is, its position, its value

vars == <<head, tail, seq, val, pc, pos, item>>

Cells == 0..(Size - 1)
cell(p) == p % Size                             \* pos & mask

\* newRing: cell i waits for the producer of position i.
Init ==
  /\ head = 0 /\ tail = 0
  /\ seq = [i \in Cells |-> i] /\ val = [i \in Cells |-> NoValue]
  /\ pc = [t \in Threads |-> "idle"] /\ pos = [t \in Threads |-> 0]
  /\ item = [t \in Threads |-> NoValue]

goto(t, l) == pc' = [pc EXCEPT ![t] = l]
return(t) ==
  /\ goto(t, "idle")
  /\ pos' = [pos EXCEPT ![t] = 0] /\ item' = [item EXCEPT ![t] = NoValue]

-----------------------------------------------------------------------------
\* TryPush(v)

PushCall(t, v) ==
  /\ pc[t] = "idle" /\ tail < MaxPosition
  /\ goto(t, "pushload") /\ item' = [item EXCEPT ![t] = v]
  /\ UNCHANGED <<head, tail, seq, val, pos>>

PushLoadTail(t) ==
  /\ pc[t] = "pushload"
  /\ pos' = [pos EXCEPT ![t] = tail] /\ goto(t, "pushseq")
  /\ UNCHANGED <<head, tail, seq, val, item>>

\* The cell is free: try to claim it.
PushSeesFree(t) ==
  /\ pc[t] = "pushseq" /\ seq[cell(pos[t])] = pos[t]
  /\ goto(t, "pushcas")
  /\ UNCHANGED <<head, tail, seq, val, pos, item>>

\* It still holds an item from one lap ago: full, false is returned.
PushSeesFullSpin(t) ==                      \* mutant: waits for room
  /\ pc[t] = "pushseq" /\ seq[cell(pos[t])] < pos[t]
  /\ goto(t, "pushload")
  /\ UNCHANGED <<head, tail, seq, val, pos, item>>
PushSeesFull(t) ==
  /\ pc[t] = "pushseq" /\ seq[cell(pos[t])] < pos[t]
  /\ return(t)
  /\ UNCHANGED <<head, tail, seq, val>>

\* Another producer got there first: try the next position.
PushOvertaken(t) ==
  /\ pc[t] = "pushseq" /\ seq[cell(pos[t])] > pos[t]
  /\ goto(t, "pushload")
  /\ UNCHANGED <<head, tail, seq, val, pos, item>>

PushClaim(t) ==
  /\ pc[t] = "pushcas" /\ tail = pos[t]
  /\ tail' = pos[t] + 1 /\ goto(t, "pushval")
  /\ UNCHANGED <<head, seq, val, pos, item>>

PushClaimLost(t) ==
  /\ pc[t] = "pushcas" /\ tail # pos[t]
  /\ goto(t, "pushload")
  /\ UNCHANGED <<head, tail, seq, val, pos, item>>

PushWrite(t) ==
  /\ pc[t] = "pushval"
  /\ val' = [val EXCEPT ![cell(pos[t])] = item[t]] /\ goto(t, "pushdone")
  /\ UNCHANGED <<head, tail, seq, pos, item>>

\* Now a consumer may take it; true is returned.
PushPublishSeq(p) == p + 1
PushPublish(t) ==
  /\ pc[t] = "pushdone"
  /\ seq' = [seq EXCEPT ![cell(pos[t])] = PushPublishSeq(pos[t])] /\ return(t)
  /\ UNCHANGED <<head, tail, val>>

-----------------------------------------------------------------------------
\* TryPop()

PopCall(t) ==
  /\ pc[t] = "idle" /\ goto(t, "popload")
  /\ UNCHANGED <<head, tail, seq, val, pos, item>>

PopLoadHead(t) ==
  /\ pc[t] = "popload"
  /\ pos' = [pos EXCEPT ![t] = head] /\ goto(t, "popseq")
  /\ UNCHANGED <<head, tail, seq, val, item>>

\* The cell is filled: try to claim it.
PopSeesItemEarly(t) ==                      \* mutant: off by one
  /\ pc[t] = "popseq" /\ seq[cell(pos[t])] >= pos[t]
  /\ goto(t, "popcas")
  /\ UNCHANGED <<head, tail, seq, val, pos, item>>
PopSeesItem(t) ==
  /\ pc[t] = "popseq" /\ seq[cell(pos[t])] = pos[t] + 1
  /\ goto(t, "popcas")
  /\ UNCHANGED <<head, tail, seq, val, pos, item>>

\* It is not filled yet: empty, false is returned.
PopSeesEmpty(t) ==
  /\ pc[t] = "popseq" /\ seq[cell(pos[t])] < pos[t] + 1
  /\ return(t)
  /\ UNCHANGED <<head, tail, seq, val>>

PopOvertaken(t) ==
  /\ pc[t] = "popseq" /\ seq[cell(pos[t])] > pos[t] + 1
  /\ goto(t, "popload")
  /\ UNCHANGED <<head, tail, seq, val, pos, item>>

PopClaimAnyway(t) ==                        \* mutant: a store instead of the compare-and-swap
  /\ pc[t] = "popcas"
  /\ head' = pos[t] + 1 /\ goto(t, "popval")
  /\ UNCHANGED <<tail, seq, val, pos, item>>
PopClaim(t) ==
  /\ pc[t] = "popcas" /\ head = pos[t]
  /\ head' = pos[t] + 1 /\ goto(t, "popval")
  /\ UNCHANGED <<tail, seq, val, pos, item>>

PopClaimLost(t) ==
  /\ pc[t] = "popcas" /\ head # pos[t]
  /\ goto(t, "popload")
  /\ UNCHANGED <<head, tail, seq, val, pos, item>>

PopRead(t) ==
  /\ pc[t] = "popval"
  /\ item' = [item EXCEPT ![t] = val[cell(pos[t])]] /\ goto(t, "popzero")
  /\ UNCHANGED <<head, tail, seq, val, pos>>

PopClearHead(t) ==                          \* mutant: clears the cell at head
  /\ pc[t] = "popzero"
  /\ val' = [val EXCEPT ![cell(head)] = NoValue] /\ goto(t, "popdone")
  /\ UNCHANGED <<head, tail, seq, pos, item>>
PopClear(t) ==
  /\ pc[t] = "popzero"
  /\ val' = [val EXCEPT ![cell(pos[t])] = NoValue] /\ goto(t, "popdone")
  /\ UNCHANGED <<head, tail, seq, pos, item>>

\* Free for the producer one lap ahead: pos + mask + 1.
PopReleaseSame(p) == p + 1                  \* mutant: the mask is forgotten
PopReleaseSeq(p) == p + Size
PopRelease(t) ==
  /\ pc[t] = "popdone"
  /\ seq' = [seq EXCEPT ![cell(pos[t])] = PopReleaseSeq(pos[t])] /\ return(t)
  /\ UNCHANGED <<head, tail, val>>

-----------------------------------------------------------------------------
PushStep(t) ==
  \/ PushLoadTail(t) \/ PushSeesFree(t) \/ PushSeesFull(t) \/ PushOvertaken(t)
  \/ PushClaim(t) \/ PushClaimLost(t) \/ PushWrite(t) \/ PushPublish(t)
PopStep(t) ==
  \/ PopLoadHead(t) \/ PopSeesItem(t) \/ PopSeesEmpty(t) \/ PopOvertaken(t)
  \/ PopClaim(t) \/ PopClaimLost(t) \/ PopRead(t) \/ PopClear(t) \/ PopRelease(t)
Next ==
  \E t \in Threads : (\E v \in Values : PushCall(t, v)) \/ PopCall(t) \/ PushStep(t) \/ PopStep(t)

Spec == Init /\ [][Next]_vars

-----------------------------------------------------------------------------
\* Properties.

Pushing == {"pushload", "pushseq", "pushcas", "pushval", "pushdone"}
Popping == {"popload", "popseq", "popcas", "popval", "popzero", "popdone"}
Filling == {t \in Threads : pc[t] \in {"pushval", "pushdone"}}
Emptying == {t \in Threads : pc[t] \in {"popval", "popzero", "popdone"}}
Owners == Filling \cup Emptying

\* Every variable stays in its type.
TypeOK ==
  /\ head \in Nat /\ tail \in Nat
  /\ seq \in [Cells -> Nat] /\ val \in [Cells -> Values \cup {NoValue}]
  /\ pc \in [Threads -> {"idle"} \cup Pushing \cup Popping]
  /\ pos \in [Threads -> Nat] /\ item \in [Threads -> Values \cup {NoValue}]

\* The counters never cross, and at most Size positions are claimed and not
\* yet popped: no item is overwritten, none is taken twice.
WithinLap == head <= tail /\ tail <= head + Size

\* val is a plain field, not an atomic: no two goroutines are ever at work on
\* the same cell, so its accesses do not race.
CellExclusive == \A t, u \in Owners : cell(pos[t]) = cell(pos[u]) => t = u

\* An item that was put is there, whole, until it is taken: a position
\* between head and tail holds a value unless its producer is still at it.
ItemsKept ==
  \A p \in head..(tail - 1) :
    val[cell(p)] \in Values \/ \E t \in Filling : pos[t] = p

\* The inductive strengthening used by the proofs.  The Size positions from
\* head on are those of the Size cells.  A cell's seq says which of four
\* states it is in: filled, being filled, free, being emptied.
SeqOK ==
  /\ \A p \in head..(tail - 1) :
       \/ seq[cell(p)] = p + 1
       \/ seq[cell(p)] = p /\ \E t \in Filling : pos[t] = p
  /\ \A p \in tail..(head + Size - 1) :
       \/ seq[cell(p)] = p
       \/ seq[cell(p)] + Size = p + 1 /\ \E t \in Emptying : pos[t] + Size = p

\* A claimed position belongs to one goroutine, and its cell waits for it.
OwnersOK ==
  /\ \A t \in Filling : head <= pos[t] /\ pos[t] < tail /\ seq[cell(pos[t])] = pos[t]
  /\ \A t \in Emptying : pos[t] < head /\ tail <= pos[t] + Size /\ seq[cell(pos[t])] = pos[t] + 1
  /\ \A t, u \in Threads : /\ (t \in Filling /\ u \in Filling) \/ (t \in Emptying /\ u \in Emptying)
                          /\ pos[t] = pos[u]
                          => t = u

\* What a goroutine loaded is never ahead of what is there now.
LoadsOK ==
  \A t \in Threads :
    /\ pc[t] \in {"pushseq", "pushcas"} => pos[t] <= tail
    /\ pc[t] = "pushcas" \/ (pc[t] = "pushseq" /\ pos[t] < tail) => seq[cell(pos[t])] >= pos[t]
    /\ pc[t] \in {"popseq", "popcas"} => pos[t] <= head
    /\ pc[t] = "popcas" \/ (pc[t] = "popseq" /\ pos[t] < head) => seq[cell(pos[t])] >= pos[t] + 1

ValuesOK ==
  /\ \A t \in Threads : pc[t] \in Pushing => item[t] \in Values
  /\ \A t \in Threads : pc[t] = "pushdone" => val[cell(pos[t])] = item[t]
  /\ \A t \in Threads : pc[t] \in {"idle", "popload", "popseq", "popcas"} => item[t] = NoValue
  /\ \A p \in head..(tail - 1) : seq[cell(p)] = p + 1 => val[cell(p)] \in Values

IInv == TypeOK /\ WithinLap /\ SeqOK /\ OwnersOK /\ LoadsOK /\ ValuesOK

\* The ring implements the bounded queue: an item takes its place when tail
\* is swapped, and leaves it when head is.
itemAt(p) ==
  LET T == {t \in Filling : pos[t] = p} IN
  IF T = {} THEN [val |-> val[cell(p)], by |-> NoOne]
  ELSE LET t == CHOOSE u \in T : TRUE IN [val |-> item[t], by |-> t]
callOf(t) ==
  CASE pc[t] = "idle" -> [op |-> "none", val |-> NoValue]
    [] pc[t] \in {"pushload", "pushseq", "pushcas"} -> [op |-> "push", val |-> item[t]]
    [] pc[t] \in {"pushval", "pushdone"} -> [op |-> "put", val |-> item[t]]
    [] pc[t] \in {"popload", "popseq", "popcas"} -> [op |-> "pop", val |-> NoValue]
    [] pc[t] = "popval" -> [op |-> "took", val |-> val[cell(pos[t])]]
    [] OTHER -> [op |-> "took", val |-> item[t]]

queueOf == [i \in 1..(tail - head) |-> itemAt(head + i - 1)]
calls == [t \in Threads |-> callOf(t)]
Queue == INSTANCE BoundedQueue WITH queue <- queueOf, call <- calls
IsBoundedQueue == Queue!QSpec

\* Fairness: goroutines inside TryPush and TryPop are scheduled.
FairSpec == Spec /\ \A t \in Threads : WF_vars(PushStep(t)) /\ WF_vars(PopStep(t))

\* TryPush and TryPop "never block": every call returns, whatever the others
\* do.  (A call can only be overtaken by one that makes progress, and
\* positions run out at MaxPosition.)
CallsReturn == \A t \in Threads : pc[t] # "idle" ~> pc[t] = "idle"
=============================================================================
