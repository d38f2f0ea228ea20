----------------------------- MODULE RingProofs -----------------------------
(***************************************************************************)
(* Proofs about Ring, for every number of goroutines and every ring size.  *)
(***************************************************************************)
EXTENDS Ring, Integers, TLAPS

\* Division with remainder by the ring's size.
LEMMA DivMod ==
  ASSUME NEW p \in Nat
  PROVE /\ p = Size * (p \div Size) + (p % Size)
        /\ p \div Size \in Nat /\ p % Size \in Nat /\ p % Size < Size
  BY SizeAssumption

\* A multiple of Size that is not the smaller one is at least Size larger.
LEMMA Multiples ==
  ASSUME NEW k \in Nat, NEW m \in Nat, k < m
  PROVE Size * k \in Nat /\ Size * m \in Nat /\ Size * m >= Size * k + Size
<1>1. PICK e \in Nat : m = k + 1 + e
  <2>1. m - k - 1 \in Nat /\ m = k + 1 + (m - k - 1)
    OBVIOUS
  <2> QED
    BY <2>1
<1>2. Size * m = Size * k + Size + Size * e
  BY <1>1, SizeAssumption
<1>3. Size * e \in Nat /\ Size * k \in Nat
  BY SizeAssumption
<1> QED
  BY <1>2, <1>3, SizeAssumption

\* Quotient and remainder are unique.
LEMMA Unique ==
  ASSUME NEW k \in Nat, NEW m \in Nat, NEW r \in Nat, NEW s \in Nat,
         r < Size, s < Size, Size * k + r = Size * m + s
  PROVE k = m /\ r = s
<1>1. Size * k \in Nat /\ Size * m \in Nat
  BY SizeAssumption
<1>2. CASE k < m
  BY <1>1, <1>2, Multiples, SizeAssumption
<1>3. CASE m < k
  BY <1>1, <1>3, Multiples, SizeAssumption
<1>4. CASE m = k
  BY <1>4, <1>1, SizeAssumption
<1> QED
  BY <1>2, <1>3, <1>4

\* Every position has a cell.
LEMMA CellRange == \A p \in Nat : cell(p) \in Cells
  BY SizeAssumption DEF cell, Cells

\* A position and the one a lap ahead share their cell.
LEMMA CellLap == \A p \in Nat : cell(p + Size) = cell(p)
<1> TAKE p \in Nat
<1> DEFINE k == p \div Size
           m == (p + Size) \div Size
<1>1. p = Size * k + (p % Size) /\ k \in Nat /\ p % Size \in Nat /\ p % Size < Size
  BY DivMod
<1>2. /\ p + Size = Size * m + ((p + Size) % Size) /\ m \in Nat
      /\ (p + Size) % Size \in Nat /\ (p + Size) % Size < Size
  BY DivMod, SizeAssumption
<1> HIDE DEF k, m
<1>3. Size * (k + 1) = Size * k + Size
  BY <1>1, SizeAssumption
<1>4. Size * (k + 1) + (p % Size) = Size * m + ((p + Size) % Size)
  BY <1>1, <1>2, <1>3, SizeAssumption
<1>5. p % Size = (p + Size) % Size
  BY <1>1, <1>2, <1>4, Unique
<1> QED
  BY <1>5 DEF cell

\* Less than a lap apart, positions have different cells.
LEMMA CellApart == \A p, q \in Nat : p < q /\ q < p + Size => cell(p) # cell(q)
<1> SUFFICES ASSUME NEW p \in Nat, NEW q \in Nat, p < q, q < p + Size, p % Size = q % Size
             PROVE FALSE
  BY DEF cell
<1> DEFINE k == p \div Size
           m == q \div Size
<1>1. p = Size * k + (p % Size) /\ k \in Nat /\ p % Size \in Nat
  BY DivMod
<1>2. q = Size * m + (q % Size) /\ m \in Nat
  BY DivMod
<1> HIDE DEF k, m
<1>3. CASE k < m
  BY <1>1, <1>2, <1>3, Multiples, SizeAssumption
<1>4. CASE m < k
  BY <1>1, <1>2, <1>4, Multiples, SizeAssumption
<1>5. CASE m = k
  BY <1>1, <1>2, <1>5, SizeAssumption
<1> QED
  BY <1>1, <1>2, <1>3, <1>4, <1>5

\* A producer that wins the compare-and-swap has claimed a free cell.
LEMMA PushClaims ==
  ASSUME IInv, NEW t \in Threads, PushClaim(t)
  PROVE pos[t] = tail /\ tail < head + Size /\ seq[cell(tail)] = tail
<1> USE SizeAssumption DEF IInv, TypeOK, WithinLap, PushClaim
<1>1. pos[t] = tail /\ seq[cell(tail)] >= tail
  BY DEF LoadsOK
<1>2. cell(tail) \in Cells /\ seq[cell(tail)] \in Nat
  BY CellRange
<1>3. tail # head + Size
  <2> SUFFICES ASSUME tail = head + Size PROVE FALSE
    OBVIOUS
  <2>1. cell(tail) = cell(head)
    BY CellLap
  <2>2. head \in head..(tail - 1)
    OBVIOUS
  <2> QED
    BY <1>1, <1>2, <2>1, <2>2 DEF SeqOK
<1>4. tail \in tail..(head + Size - 1)
  BY <1>3
<1> QED
  BY <1>1, <1>2, <1>3, <1>4 DEF SeqOK

\* A consumer that wins it has claimed a filled cell.
LEMMA PopClaims ==
  ASSUME IInv, NEW t \in Threads, PopClaim(t)
  PROVE pos[t] = head /\ head < tail /\ seq[cell(head)] = head + 1
<1> USE SizeAssumption DEF IInv, TypeOK, WithinLap, PopClaim
<1>1. pos[t] = head /\ seq[cell(head)] >= head + 1
  BY DEF LoadsOK
<1>2. cell(head) \in Cells /\ seq[cell(head)] \in Nat
  BY CellRange
<1>3. head # tail
  <2> SUFFICES ASSUME head = tail PROVE FALSE
    OBVIOUS
  <2>1. head \in tail..(head + Size - 1)
    OBVIOUS
  <2> QED
    BY <1>1, <1>2, <2>1 DEF SeqOK
<1>4. head \in head..(tail - 1)
  BY <1>3
<1> QED
  BY <1>1, <1>2, <1>3, <1>4 DEF SeqOK

\* Every step keeps the types.
LEMMA TypeStep == IInv /\ Next => TypeOK'
<1> SUFFICES ASSUME IInv, NEW t \in Threads,
                    (\E v \in Values : PushCall(t, v)) \/ PopCall(t) \/ PushStep(t) \/ PopStep(t)
             PROVE TypeOK'
  BY DEF Next
<1> USE SizeAssumption DEF IInv
<1>1. ASSUME NEW v \in Values, PushCall(t, v) PROVE TypeOK'
  BY <1>1 DEF PushCall, TypeOK, goto, return, Pushing, Popping
<1>2. CASE PushLoadTail(t)
  BY <1>2 DEF PushLoadTail, TypeOK, goto, return, Pushing, Popping
<1>3. CASE PushSeesFree(t)
  BY <1>3 DEF PushSeesFree, TypeOK, goto, return, Pushing, Popping
<1>4. CASE PushSeesFull(t)
  BY <1>4 DEF PushSeesFull, TypeOK, goto, return, Pushing, Popping
<1>5. CASE PushOvertaken(t)
  BY <1>5 DEF PushOvertaken, TypeOK, goto, return, Pushing, Popping
<1>6. CASE PushClaim(t)
  BY <1>6 DEF PushClaim, TypeOK, goto, return, Pushing, Popping
<1>7. CASE PushClaimLost(t)
  BY <1>7 DEF PushClaimLost, TypeOK, goto, return, Pushing, Popping
<1>8. CASE PushWrite(t)
  BY <1>8, CellRange DEF PushWrite, TypeOK, goto, return, Pushing, Popping
<1>9. CASE PushPublish(t)
  BY <1>9, CellRange DEF PushPublish, TypeOK, goto, return, PushPublishSeq, Pushing, Popping
<1>10. CASE PopCall(t)
  BY <1>10 DEF PopCall, TypeOK, goto, return, Pushing, Popping
<1>11. CASE PopLoadHead(t)
  BY <1>11 DEF PopLoadHead, TypeOK, goto, return, Pushing, Popping
<1>12. CASE PopSeesItem(t)
  BY <1>12 DEF PopSeesItem, TypeOK, goto, return, Pushing, Popping
<1>13. CASE PopSeesEmpty(t)
  BY <1>13 DEF PopSeesEmpty, TypeOK, goto, return, Pushing, Popping
<1>14. CASE PopOvertaken(t)
  BY <1>14 DEF PopOvertaken, TypeOK, goto, return, Pushing, Popping
<1>15. CASE PopClaim(t)
  BY <1>15 DEF PopClaim, TypeOK, goto, return, Pushing, Popping
<1>16. CASE PopClaimLost(t)
  BY <1>16 DEF PopClaimLost, TypeOK, goto, return, Pushing, Popping
<1>17. CASE PopRead(t)
  BY <1>17, CellRange DEF PopRead, TypeOK, goto, return, Pushing, Popping
<1>18. CASE PopClear(t)
  BY <1>18, CellRange DEF PopClear, TypeOK, goto, return, Pushing, Popping
<1>19. CASE PopRelease(t)
  BY <1>19, CellRange DEF PopRelease, TypeOK, goto, return, PopReleaseSeq, Pushing, Popping
<1> QED
  BY <1>1, <1>2, <1>3, <1>4, <1>5, <1>6, <1>7, <1>8, <1>9, <1>10, <1>11, <1>12, <1>13, <1>14, <1>15, <1>16, <1>17, <1>18, <1>19 DEF PushStep, PopStep

\* Every step keeps the counters within a lap of each other.
LEMMA LapStep == IInv /\ Next => WithinLap'
<1> SUFFICES ASSUME IInv, NEW t \in Threads,
                    (\E v \in Values : PushCall(t, v)) \/ PopCall(t) \/ PushStep(t) \/ PopStep(t)
             PROVE WithinLap'
  BY DEF Next
<1> USE SizeAssumption DEF IInv
<1>1. ASSUME NEW v \in Values, PushCall(t, v) PROVE WithinLap'
  BY <1>1 DEF PushCall, WithinLap
<1>2. CASE PushLoadTail(t)
  BY <1>2 DEF PushLoadTail, WithinLap
<1>3. CASE PushSeesFree(t)
  BY <1>3 DEF PushSeesFree, WithinLap
<1>4. CASE PushSeesFull(t)
  BY <1>4 DEF PushSeesFull, WithinLap
<1>5. CASE PushOvertaken(t)
  BY <1>5 DEF PushOvertaken, WithinLap
<1>6. CASE PushClaim(t)
  BY <1>6, PushClaims DEF PushClaim, TypeOK, WithinLap
<1>7. CASE PushClaimLost(t)
  BY <1>7 DEF PushClaimLost, WithinLap
<1>8. CASE PushWrite(t)
  BY <1>8 DEF PushWrite, WithinLap
<1>9. CASE PushPublish(t)
  BY <1>9 DEF PushPublish, WithinLap
<1>10. CASE PopCall(t)
  BY <1>10 DEF PopCall, WithinLap
<1>11. CASE PopLoadHead(t)
  BY <1>11 DEF PopLoadHead, WithinLap
<1>12. CASE PopSeesItem(t)
  BY <1>12 DEF PopSeesItem, WithinLap
<1>13. CASE PopSeesEmpty(t)
  BY <1>13 DEF PopSeesEmpty, WithinLap
<1>14. CASE PopOvertaken(t)
  BY <1>14 DEF PopOvertaken, WithinLap
<1>15. CASE PopClaim(t)
  BY <1>15, PopClaims DEF PopClaim, TypeOK, WithinLap
<1>16. CASE PopClaimLost(t)
  BY <1>16 DEF PopClaimLost, WithinLap
<1>17. CASE PopRead(t)
  BY <1>17 DEF PopRead, WithinLap
<1>18. CASE PopClear(t)
  BY <1>18 DEF PopClear, WithinLap
<1>19. CASE PopRelease(t)
  BY <1>19 DEF PopRelease, WithinLap
<1> QED
  BY <1>1, <1>2, <1>3, <1>4, <1>5, <1>6, <1>7, <1>8, <1>9, <1>10, <1>11, <1>12, <1>13, <1>14, <1>15, <1>16, <1>17, <1>18, <1>19 DEF PushStep, PopStep

\* Every step keeps each cell in one of its four states.
LEMMA SeqStep == IInv /\ Next => SeqOK'
<1> SUFFICES ASSUME IInv, NEW t \in Threads,
                    (\E v \in Values : PushCall(t, v)) \/ PopCall(t) \/ PushStep(t) \/ PopStep(t)
             PROVE SeqOK'
  BY DEF Next
<1> USE SizeAssumption DEF IInv
<1>1. ASSUME NEW v \in Values, PushCall(t, v) PROVE SeqOK'
  BY <1>1 DEF PushCall, goto, return, SeqOK, Filling, Emptying, TypeOK
<1>2. CASE PushLoadTail(t)
  BY <1>2 DEF PushLoadTail, goto, return, SeqOK, Filling, Emptying, TypeOK
<1>3. CASE PushSeesFree(t)
  BY <1>3 DEF PushSeesFree, goto, return, SeqOK, Filling, Emptying, TypeOK
<1>4. CASE PushSeesFull(t)
  BY <1>4 DEF PushSeesFull, goto, return, SeqOK, Filling, Emptying, TypeOK
<1>5. CASE PushOvertaken(t)
  BY <1>5 DEF PushOvertaken, goto, return, SeqOK, Filling, Emptying, TypeOK
<1>6. CASE PushClaim(t)
  <2> USE DEF TypeOK, WithinLap, Filling, Emptying
  <2>1. pos[t] = tail /\ tail < head + Size /\ seq[cell(tail)] = tail
    BY <1>6, PushClaims
  <2>2. Filling' = Filling \cup {t} /\ Emptying' = Emptying
    BY <1>6 DEF PushClaim, goto
  <2>3. UNCHANGED <<head, seq, pos>> /\ tail' = tail + 1
    BY <1>6, <2>1 DEF PushClaim
  <2> HIDE DEF Filling, Emptying
  <2>4. \A p \in head..tail : seq[cell(p)] = p + 1 \/ (seq[cell(p)] = p /\ \E u \in Filling' : pos[u] = p)
    BY <2>1, <2>2 DEF SeqOK
  <2>5. \A p \in (tail + 1)..(head + Size - 1) :
          seq[cell(p)] = p \/ (seq[cell(p)] + Size = p + 1 /\ \E u \in Emptying : pos[u] + Size = p)
    BY DEF SeqOK
  <2> QED
    BY <2>2, <2>3, <2>4, <2>5 DEF SeqOK
<1>7. CASE PushClaimLost(t)
  BY <1>7 DEF PushClaimLost, goto, return, SeqOK, Filling, Emptying, TypeOK
<1>8. CASE PushWrite(t)
  BY <1>8 DEF PushWrite, goto, return, SeqOK, Filling, Emptying, TypeOK
<1>9. CASE PushPublish(t)
  <2> USE DEF TypeOK, WithinLap, Filling, Emptying
  <2>1. pos[t] \in Nat /\ head <= pos[t] /\ pos[t] < tail
    BY <1>9 DEF PushPublish, OwnersOK
  <2>2. Filling' = Filling \ {t} /\ Emptying' = Emptying /\ t \notin Emptying
    BY <1>9 DEF PushPublish, goto, return
  <2>3. UNCHANGED <<head, tail>> /\ seq' = [seq EXCEPT ![cell(pos[t])] = pos[t] + 1]
        /\ \A u \in Threads \ {t} : pos'[u] = pos[u]
    BY <1>9 DEF PushPublish, return, PushPublishSeq
  <2>4. \A p \in head..(head + Size - 1) : p # pos[t] => cell(p) # cell(pos[t])
    BY <2>1, CellApart
  <2>5. Filling \subseteq Threads /\ Emptying \subseteq Threads
    OBVIOUS
  <2> HIDE DEF Filling, Emptying
  <2>6. \A p \in head..(head + Size - 1) : seq'[cell(p)] = IF p = pos[t] THEN pos[t] + 1 ELSE seq[cell(p)]
    BY <2>1, <2>3, <2>4, CellRange
  <2>7. \A p \in head..(tail - 1) :
          seq'[cell(p)] = p + 1 \/ (seq'[cell(p)] = p /\ \E u \in Filling' : pos'[u] = p)
    <3> TAKE p \in head..(tail - 1)
    <3>1. CASE p = pos[t]
      BY <2>1, <2>6, <3>1
    <3>2. CASE p # pos[t]
      BY <2>2, <2>3, <2>5, <2>6, <3>2 DEF SeqOK
    <3> QED
      BY <3>1, <3>2
  <2>8. \A p \in tail..(head + Size - 1) :
          seq'[cell(p)] = p \/ (seq'[cell(p)] + Size = p + 1 /\ \E u \in Emptying' : pos'[u] + Size = p)
    BY <2>1, <2>2, <2>3, <2>5, <2>6 DEF SeqOK
  <2> QED
    BY <2>3, <2>7, <2>8 DEF SeqOK
<1>10. CASE PopCall(t)
  BY <1>10 DEF PopCall, goto, return, SeqOK, Filling, Emptying, TypeOK
<1>11. CASE PopLoadHead(t)
  BY <1>11 DEF PopLoadHead, goto, return, SeqOK, Filling, Emptying, TypeOK
<1>12. CASE PopSeesItem(t)
  BY <1>12 DEF PopSeesItem, goto, return, SeqOK, Filling, Emptying, TypeOK
<1>13. CASE PopSeesEmpty(t)
  BY <1>13 DEF PopSeesEmpty, goto, return, SeqOK, Filling, Emptying, TypeOK
<1>14. CASE PopOvertaken(t)
  BY <1>14 DEF PopOvertaken, goto, return, SeqOK, Filling, Emptying, TypeOK
<1>15. CASE PopClaim(t)
  <2> USE DEF TypeOK, WithinLap, Filling, Emptying
  <2>1. pos[t] = head /\ head < tail /\ seq[cell(head)] = head + 1
    BY <1>15, PopClaims
  <2>2. Filling' = Filling /\ Emptying' = Emptying \cup {t}
    BY <1>15 DEF PopClaim, goto
  <2>3. UNCHANGED <<tail, seq, pos>> /\ head' = head + 1
    BY <1>15, <2>1 DEF PopClaim
  <2> HIDE DEF Filling, Emptying
  <2>4. \A p \in (head + 1)..(tail - 1) :
          seq[cell(p)] = p + 1 \/ (seq[cell(p)] = p /\ \E u \in Filling : pos[u] = p)
    BY DEF SeqOK
  <2>5. \A p \in tail..(head + Size) :
          seq[cell(p)] = p \/ (seq[cell(p)] + Size = p + 1 /\ \E u \in Emptying' : pos[u] + Size = p)
    <3> TAKE p \in tail..(head + Size)
    <3>1. CASE p = head + Size
      <4>1. cell(p) = cell(head)
        BY <3>1, CellLap
      <4> QED
        BY <2>1, <2>2, <3>1, <4>1
    <3>2. CASE p # head + Size
      <4>1. p \in tail..(head + Size - 1)
        BY <3>2
      <4> QED
        BY <2>2, <4>1 DEF SeqOK
    <3> QED
      BY <3>1, <3>2
  <2> QED
    BY <2>2, <2>3, <2>4, <2>5 DEF SeqOK
<1>16. CASE PopClaimLost(t)
  BY <1>16 DEF PopClaimLost, goto, return, SeqOK, Filling, Emptying, TypeOK
<1>17. CASE PopRead(t)
  BY <1>17 DEF PopRead, goto, return, SeqOK, Filling, Emptying, TypeOK
<1>18. CASE PopClear(t)
  BY <1>18 DEF PopClear, goto, return, SeqOK, Filling, Emptying, TypeOK
<1>19. CASE PopRelease(t)
  <2> USE DEF TypeOK, WithinLap, Filling, Emptying
  <2> DEFINE q == pos[t] + Size
  <2>1. q \in Nat /\ tail <= q /\ q < head + Size
    BY <1>19 DEF PopRelease, OwnersOK
  <2>2. Filling' = Filling /\ Emptying' = Emptying \ {t} /\ t \notin Filling
    BY <1>19 DEF PopRelease, goto, return
  <2>3. cell(pos[t]) = cell(q)
    BY CellLap
  <2>4. UNCHANGED <<head, tail>> /\ seq' = [seq EXCEPT ![cell(q)] = q]
        /\ \A u \in Threads \ {t} : pos'[u] = pos[u]
    BY <1>19, <2>3 DEF PopRelease, return, PopReleaseSeq
  <2>5. Filling \subseteq Threads /\ Emptying \subseteq Threads /\ \A u \in Threads : pos[u] \in Nat
    OBVIOUS
  <2>6. \A u \in Emptying : pos[u] + Size = q => u = t
    BY <1>19 DEF PopRelease, OwnersOK
  <2> HIDE DEF Filling, Emptying, q
  <2>7. \A p \in head..(head + Size - 1) : p # q => cell(p) # cell(q)
    BY <2>1, CellApart
  <2>8. \A p \in head..(head + Size - 1) : seq'[cell(p)] = IF p = q THEN q ELSE seq[cell(p)]
    BY <2>1, <2>4, <2>7, CellRange
  <2>9. \A p \in head..(tail - 1) :
          seq'[cell(p)] = p + 1 \/ (seq'[cell(p)] = p /\ \E u \in Filling' : pos'[u] = p)
    BY <2>1, <2>2, <2>4, <2>5, <2>8 DEF SeqOK
  <2>10. \A p \in tail..(head + Size - 1) :
          seq'[cell(p)] = p \/ (seq'[cell(p)] + Size = p + 1 /\ \E u \in Emptying' : pos'[u] + Size = p)
    <3> TAKE p \in tail..(head + Size - 1)
    <3>1. CASE p = q
      BY <2>1, <2>8, <3>1
    <3>2. CASE p # q
      <4>1. seq'[cell(p)] = seq[cell(p)]
        BY <2>8, <3>2
      <4>2. \A u \in Emptying : pos[u] + Size = p => u # t
        BY <2>5, <3>2 DEF q
      <4> QED
        BY <2>2, <2>4, <2>5, <4>1, <4>2 DEF SeqOK
    <3> QED
      BY <3>1, <3>2
  <2> QED
    BY <2>4, <2>9, <2>10 DEF SeqOK
<1> QED
  BY <1>1, <1>2, <1>3, <1>4, <1>5, <1>6, <1>7, <1>8, <1>9, <1>10, <1>11, <1>12, <1>13, <1>14, <1>15, <1>16, <1>17, <1>18, <1>19 DEF PushStep, PopStep

\* Every step keeps claimed positions with one goroutine each.
LEMMA OwnersStep == IInv /\ Next => OwnersOK'
<1> SUFFICES ASSUME IInv, NEW t \in Threads,
                    (\E v \in Values : PushCall(t, v)) \/ PopCall(t) \/ PushStep(t) \/ PopStep(t)
             PROVE OwnersOK'
  BY DEF Next
<1> USE SizeAssumption DEF IInv
<1>1. ASSUME NEW v \in Values, PushCall(t, v) PROVE OwnersOK'
  BY <1>1 DEF PushCall, goto, return, OwnersOK, Filling, Emptying, TypeOK
<1>2. CASE PushLoadTail(t)
  BY <1>2 DEF PushLoadTail, goto, return, OwnersOK, Filling, Emptying, TypeOK
<1>3. CASE PushSeesFree(t)
  BY <1>3 DEF PushSeesFree, goto, return, OwnersOK, Filling, Emptying, TypeOK
<1>4. CASE PushSeesFull(t)
  BY <1>4 DEF PushSeesFull, goto, return, OwnersOK, Filling, Emptying, TypeOK
<1>5. CASE PushOvertaken(t)
  BY <1>5 DEF PushOvertaken, goto, return, OwnersOK, Filling, Emptying, TypeOK
<1>6. CASE PushClaim(t)
  <2>1. pos[t] = tail /\ tail < head + Size /\ seq[cell(tail)] = tail
    BY <1>6, PushClaims
  <2>2. Filling' = Filling \cup {t} /\ Emptying' = Emptying /\ t \notin Emptying
    BY <1>6 DEF PushClaim, goto, TypeOK, Filling, Emptying
  <2>3. UNCHANGED <<head, seq, pos>> /\ tail' = tail + 1
    BY <1>6, <2>1 DEF PushClaim
  <2>4. \A u \in Emptying : tail # pos[u] + Size
    <3> SUFFICES ASSUME NEW u \in Emptying, tail = pos[u] + Size PROVE FALSE
      OBVIOUS
    <3>1. pos[u] \in Nat /\ seq[cell(pos[u])] = pos[u] + 1
      BY DEF TypeOK, OwnersOK, Emptying
    <3>2. cell(tail) = cell(pos[u])
      BY <3>1, CellLap
    <3> QED
      BY <2>1, <3>1, <3>2
  <2>5. \A u \in Filling' : head <= pos[u] /\ pos[u] < tail + 1 /\ seq[cell(pos[u])] = pos[u]
    BY <2>1, <2>2 DEF OwnersOK, TypeOK, WithinLap, Filling
  <2>6. \A u \in Emptying : pos[u] < head /\ tail + 1 <= pos[u] + Size /\ seq[cell(pos[u])] = pos[u] + 1
    <3> TAKE u \in Emptying
    <3>1. /\ pos[u] \in Nat /\ pos[u] < head /\ tail <= pos[u] + Size
          /\ seq[cell(pos[u])] = pos[u] + 1 /\ tail # pos[u] + Size
      BY <2>4 DEF OwnersOK, TypeOK, Emptying
    <3> QED
      BY <3>1 DEF TypeOK
  <2>7. \A u \in Filling : pos[u] # tail
    BY DEF OwnersOK, TypeOK, Filling
  <2> QED
    BY <2>1, <2>2, <2>3, <2>5, <2>6, <2>7 DEF OwnersOK
<1>7. CASE PushClaimLost(t)
  BY <1>7 DEF PushClaimLost, goto, return, OwnersOK, Filling, Emptying, TypeOK
<1>8. CASE PushWrite(t)
  BY <1>8 DEF PushWrite, goto, return, OwnersOK, Filling, Emptying, TypeOK
<1>9. CASE PushPublish(t)
  BY <1>9, CellLap, CellApart DEF PushPublish, goto, return, PushPublishSeq, TypeOK, WithinLap, OwnersOK, Filling, Emptying
<1>10. CASE PopCall(t)
  BY <1>10 DEF PopCall, goto, return, OwnersOK, Filling, Emptying, TypeOK
<1>11. CASE PopLoadHead(t)
  BY <1>11 DEF PopLoadHead, goto, return, OwnersOK, Filling, Emptying, TypeOK
<1>12. CASE PopSeesItem(t)
  BY <1>12 DEF PopSeesItem, goto, return, OwnersOK, Filling, Emptying, TypeOK
<1>13. CASE PopSeesEmpty(t)
  BY <1>13 DEF PopSeesEmpty, goto, return, OwnersOK, Filling, Emptying, TypeOK
<1>14. CASE PopOvertaken(t)
  BY <1>14 DEF PopOvertaken, goto, return, OwnersOK, Filling, Emptying, TypeOK
<1>15. CASE PopClaim(t)
  <2>1. pos[t] = head /\ head < tail /\ seq[cell(head)] = head + 1
    BY <1>15, PopClaims
  <2>2. Filling' = Filling /\ Emptying' = Emptying \cup {t} /\ t \notin Filling
    BY <1>15 DEF PopClaim, goto, TypeOK, Filling, Emptying
  <2>3. UNCHANGED <<tail, seq, pos>> /\ head' = head + 1
    BY <1>15, <2>1 DEF PopClaim
  <2>4. \A u \in Filling : head + 1 <= pos[u] /\ pos[u] < tail /\ seq[cell(pos[u])] = pos[u]
    <3> SUFFICES ASSUME NEW u \in Filling
                 PROVE head + 1 <= pos[u] /\ pos[u] < tail /\ seq[cell(pos[u])] = pos[u]
      OBVIOUS
    <3>1. pos[u] \in Nat /\ head <= pos[u] /\ pos[u] < tail /\ seq[cell(pos[u])] = pos[u]
      BY DEF TypeOK, OwnersOK, Filling
    <3>2. pos[u] # head
      BY <2>1, <3>1 DEF TypeOK
    <3> QED
      BY <3>1, <3>2 DEF TypeOK
  <2>5. \A u \in Emptying' : pos[u] < head + 1 /\ tail <= pos[u] + Size /\ seq[cell(pos[u])] = pos[u] + 1
    BY <2>1, <2>2 DEF OwnersOK, TypeOK, WithinLap, Emptying
  <2>6. \A u \in Emptying : pos[u] # head
    BY DEF OwnersOK, TypeOK, Emptying
  <2> QED
    BY <2>1, <2>2, <2>3, <2>4, <2>5, <2>6 DEF OwnersOK
<1>16. CASE PopClaimLost(t)
  BY <1>16 DEF PopClaimLost, goto, return, OwnersOK, Filling, Emptying, TypeOK
<1>17. CASE PopRead(t)
  BY <1>17 DEF PopRead, goto, return, OwnersOK, Filling, Emptying, TypeOK
<1>18. CASE PopClear(t)
  BY <1>18 DEF PopClear, goto, return, OwnersOK, Filling, Emptying, TypeOK
<1>19. CASE PopRelease(t)
  <2> USE DEF TypeOK, WithinLap, Filling, Emptying
  <2>1. pos[t] \in Nat /\ pos[t] < head /\ tail <= pos[t] + Size /\ t \in Emptying
    BY <1>19 DEF PopRelease, OwnersOK
  <2>2. Filling' = Filling /\ Emptying' = Emptying \ {t} /\ t \notin Filling
    BY <1>19 DEF PopRelease, goto, return
  <2>3. UNCHANGED <<head, tail>> /\ seq' = [seq EXCEPT ![cell(pos[t])] = pos[t] + Size]
        /\ \A u \in Threads \ {t} : pos'[u] = pos[u]
    BY <1>19 DEF PopRelease, return, PopReleaseSeq
  <2>4. Filling \subseteq Threads /\ Emptying \subseteq Threads /\ \A u \in Threads : pos[u] \in Nat
    OBVIOUS
  <2>5. \A u \in Filling : cell(pos[u]) # cell(pos[t])
    <3> TAKE u \in Filling
    <3>1. head <= pos[u] /\ pos[u] < tail
      BY DEF OwnersOK
    <3> QED
      BY <2>1, <2>4, <3>1, CellApart
  <2>6. \A u \in Emptying \ {t} : cell(pos[u]) # cell(pos[t])
    <3> TAKE u \in Emptying \ {t}
    <3>1. pos[u] < head /\ tail <= pos[u] + Size /\ pos[u] # pos[t]
      BY <2>1 DEF OwnersOK
    <3>2. pos[u] < pos[t] + Size /\ pos[t] < pos[u] + Size
      BY <2>1, <2>4, <3>1
    <3> QED
      BY <2>1, <2>4, <3>1, <3>2, CellApart
  <2> HIDE DEF Filling, Emptying
  <2>7. \A u \in Filling \cup (Emptying \ {t}) : seq'[cell(pos[u])] = seq[cell(pos[u])] /\ pos'[u] = pos[u]
    BY <2>2, <2>3, <2>4, <2>5, <2>6, CellRange
  <2> QED
    BY <2>2, <2>3, <2>4, <2>7 DEF OwnersOK
<1> QED
  BY <1>1, <1>2, <1>3, <1>4, <1>5, <1>6, <1>7, <1>8, <1>9, <1>10, <1>11, <1>12, <1>13, <1>14, <1>15, <1>16, <1>17, <1>18, <1>19 DEF PushStep, PopStep

\* Every step keeps loaded positions and sequence numbers behind the present ones.
LEMMA LoadsStep == IInv /\ Next => LoadsOK'
<1> SUFFICES ASSUME IInv, NEW t \in Threads,
                    (\E v \in Values : PushCall(t, v)) \/ PopCall(t) \/ PushStep(t) \/ PopStep(t)
             PROVE LoadsOK'
  BY DEF Next
<1> USE SizeAssumption DEF IInv
<1>1. ASSUME NEW v \in Values, PushCall(t, v) PROVE LoadsOK'
  BY <1>1 DEF PushCall, goto, return, LoadsOK, TypeOK
<1>2. CASE PushLoadTail(t)
  BY <1>2 DEF PushLoadTail, goto, return, LoadsOK, TypeOK
<1>3. CASE PushSeesFree(t)
  BY <1>3 DEF PushSeesFree, goto, return, LoadsOK, TypeOK
<1>4. CASE PushSeesFull(t)
  BY <1>4 DEF PushSeesFull, goto, return, LoadsOK, TypeOK
<1>5. CASE PushOvertaken(t)
  BY <1>5 DEF PushOvertaken, goto, return, LoadsOK, TypeOK
<1>6. CASE PushClaim(t)
  BY <1>6, PushClaims DEF PushClaim, goto, LoadsOK, TypeOK
<1>7. CASE PushClaimLost(t)
  BY <1>7 DEF PushClaimLost, goto, return, LoadsOK, TypeOK
<1>8. CASE PushWrite(t)
  BY <1>8 DEF PushWrite, goto, return, LoadsOK, TypeOK
<1>9. CASE PushPublish(t)
  BY <1>9, CellRange DEF PushPublish, goto, return, PushPublishSeq, TypeOK, LoadsOK, OwnersOK, Filling
<1>10. CASE PopCall(t)
  BY <1>10 DEF PopCall, goto, return, LoadsOK, TypeOK
<1>11. CASE PopLoadHead(t)
  BY <1>11 DEF PopLoadHead, goto, return, LoadsOK, TypeOK
<1>12. CASE PopSeesItem(t)
  BY <1>12 DEF PopSeesItem, goto, return, LoadsOK, TypeOK
<1>13. CASE PopSeesEmpty(t)
  BY <1>13 DEF PopSeesEmpty, goto, return, LoadsOK, TypeOK
<1>14. CASE PopOvertaken(t)
  BY <1>14 DEF PopOvertaken, goto, return, LoadsOK, TypeOK
<1>15. CASE PopClaim(t)
  BY <1>15, PopClaims DEF PopClaim, goto, LoadsOK, TypeOK
<1>16. CASE PopClaimLost(t)
  BY <1>16 DEF PopClaimLost, goto, return, LoadsOK, TypeOK
<1>17. CASE PopRead(t)
  BY <1>17 DEF PopRead, goto, return, LoadsOK, TypeOK
<1>18. CASE PopClear(t)
  BY <1>18 DEF PopClear, goto, return, LoadsOK, TypeOK
<1>19. CASE PopRelease(t)
  BY <1>19, CellRange DEF PopRelease, goto, return, PopReleaseSeq, TypeOK, LoadsOK, OwnersOK, Emptying
<1> QED
  BY <1>1, <1>2, <1>3, <1>4, <1>5, <1>6, <1>7, <1>8, <1>9, <1>10, <1>11, <1>12, <1>13, <1>14, <1>15, <1>16, <1>17, <1>18, <1>19 DEF PushStep, PopStep

\* Every step keeps the values of the filled cells.
LEMMA ValuesStep == IInv /\ Next => ValuesOK'
<1> SUFFICES ASSUME IInv, NEW t \in Threads,
                    (\E v \in Values : PushCall(t, v)) \/ PopCall(t) \/ PushStep(t) \/ PopStep(t)
             PROVE ValuesOK'
  BY DEF Next
<1> USE SizeAssumption DEF IInv
<1>1. ASSUME NEW v \in Values, PushCall(t, v) PROVE ValuesOK'
  BY <1>1 DEF PushCall, goto, return, ValuesOK, Pushing, TypeOK
<1>2. CASE PushLoadTail(t)
  BY <1>2 DEF PushLoadTail, goto, return, ValuesOK, Pushing, TypeOK
<1>3. CASE PushSeesFree(t)
  BY <1>3 DEF PushSeesFree, goto, return, ValuesOK, Pushing, TypeOK
<1>4. CASE PushSeesFull(t)
  BY <1>4 DEF PushSeesFull, goto, return, ValuesOK, Pushing, TypeOK
<1>5. CASE PushOvertaken(t)
  BY <1>5 DEF PushOvertaken, goto, return, ValuesOK, Pushing, TypeOK
<1>6. CASE PushClaim(t)
  <2>1. pos[t] = tail /\ seq[cell(tail)] = tail
    BY <1>6, PushClaims
  <2>2. UNCHANGED <<head, seq, val, pos, item>> /\ tail' = tail + 1
    BY <1>6, <2>1 DEF PushClaim
  <2>3. \A p \in head..tail : seq[cell(p)] = p + 1 => val[cell(p)] \in Values
    BY <2>1 DEF ValuesOK, TypeOK
  <2> QED
    BY <1>6, <2>2, <2>3 DEF PushClaim, goto, ValuesOK, TypeOK, Pushing
<1>7. CASE PushClaimLost(t)
  BY <1>7 DEF PushClaimLost, goto, return, ValuesOK, Pushing, TypeOK
<1>8. CASE PushWrite(t)
  <2> USE DEF TypeOK, WithinLap, Filling
  <2>1. pos[t] \in Nat /\ head <= pos[t] /\ pos[t] < tail /\ item[t] \in Values
    BY <1>8 DEF PushWrite, OwnersOK, ValuesOK, Pushing
  <2>2. UNCHANGED <<head, tail, seq, pos, item>> /\ val' = [val EXCEPT ![cell(pos[t])] = item[t]]
    BY <1>8 DEF PushWrite
  <2>3. \A u \in Threads : pc[u] = "pushdone" => pos[u] # pos[t] /\ head <= pos[u] /\ pos[u] < tail
    BY <1>8 DEF PushWrite, OwnersOK
  <2>4. \A p \in head..(tail - 1) : p # pos[t] => cell(p) # cell(pos[t])
    BY <2>1, CellApart
  <2>5. \A p \in head..(tail - 1) : val'[cell(p)] = IF p = pos[t] THEN item[t] ELSE val[cell(p)]
    BY <2>1, <2>2, <2>4, CellRange
  <2>6. \A u \in Threads : pc'[u] = "pushdone" => val'[cell(pos[u])] = item[u]
    <3> SUFFICES ASSUME NEW u \in Threads, pc'[u] = "pushdone" PROVE val'[cell(pos[u])] = item[u]
      OBVIOUS
    <3>1. CASE u = t
      BY <2>1, <2>5, <3>1
    <3>2. CASE u # t
      <4>1. pc[u] = "pushdone"
        BY <1>8, <3>2 DEF PushWrite, goto
      <4>2. pos[u] \in head..(tail - 1) /\ pos[u] # pos[t]
        BY <2>3, <4>1
      <4> QED
        BY <2>5, <4>1, <4>2 DEF ValuesOK
    <3> QED
      BY <3>1, <3>2
  <2>7. \A p \in head..(tail - 1) : seq[cell(p)] = p + 1 => val'[cell(p)] \in Values
    BY <2>1, <2>5 DEF ValuesOK
  <2> QED
    BY <1>8, <2>2, <2>6, <2>7 DEF PushWrite, goto, ValuesOK, Pushing
<1>9. CASE PushPublish(t)
  BY <1>9, CellApart DEF PushPublish, goto, return, PushPublishSeq, ValuesOK, TypeOK, WithinLap, OwnersOK, Filling, Pushing
<1>10. CASE PopCall(t)
  BY <1>10 DEF PopCall, goto, return, ValuesOK, Pushing, TypeOK
<1>11. CASE PopLoadHead(t)
  BY <1>11 DEF PopLoadHead, goto, return, ValuesOK, Pushing, TypeOK
<1>12. CASE PopSeesItem(t)
  BY <1>12 DEF PopSeesItem, goto, return, ValuesOK, Pushing, TypeOK
<1>13. CASE PopSeesEmpty(t)
  BY <1>13 DEF PopSeesEmpty, goto, return, ValuesOK, Pushing, TypeOK
<1>14. CASE PopOvertaken(t)
  BY <1>14 DEF PopOvertaken, goto, return, ValuesOK, Pushing, TypeOK
<1>15. CASE PopClaim(t)
  BY <1>15 DEF PopClaim, goto, return, ValuesOK, Pushing, TypeOK
<1>16. CASE PopClaimLost(t)
  BY <1>16 DEF PopClaimLost, goto, return, ValuesOK, Pushing, TypeOK
<1>17. CASE PopRead(t)
  BY <1>17 DEF PopRead, goto, return, ValuesOK, Pushing, TypeOK
<1>18. CASE PopClear(t)
  BY <1>18, CellApart DEF PopClear, goto, ValuesOK, TypeOK, WithinLap, OwnersOK, Filling, Emptying, Pushing
<1>19. CASE PopRelease(t)
  BY <1>19, CellApart DEF PopRelease, goto, return, PopReleaseSeq, ValuesOK, TypeOK, WithinLap, OwnersOK, Emptying, Pushing
<1> QED
  BY <1>1, <1>2, <1>3, <1>4, <1>5, <1>6, <1>7, <1>8, <1>9, <1>10, <1>11, <1>12, <1>13, <1>14, <1>15, <1>16, <1>17, <1>18, <1>19 DEF PushStep, PopStep

\* The initial state satisfies the invariant.
LEMMA InitIInv == Init => IInv
<1> SUFFICES ASSUME Init PROVE IInv
  OBVIOUS
<1> USE SizeAssumption DEF Init
<1>1. TypeOK
  BY DEF TypeOK, Cells
<1>2. WithinLap
  BY DEF WithinLap
<1>3. \A p \in 0..(Size - 1) : cell(p) = p
  BY DEF cell
<1>4. SeqOK
  BY <1>3 DEF SeqOK, Cells
<1>5. OwnersOK /\ LoadsOK
  BY DEF OwnersOK, LoadsOK, Filling, Emptying
<1>6. ValuesOK
  BY DEF ValuesOK, Pushing
<1> QED
  BY <1>1, <1>2, <1>4, <1>5, <1>6 DEF IInv

\* Every step, and every stuttering step, preserves it.
LEMMA NextIInv == IInv /\ [Next]_vars => IInv'
<1>1. CASE Next
  BY <1>1, TypeStep, LapStep, SeqStep, OwnersStep, LoadsStep, ValuesStep DEF IInv
<1>2. CASE UNCHANGED vars
  BY <1>2 DEF vars, IInv, TypeOK, WithinLap, SeqOK, OwnersOK, LoadsOK, ValuesOK, Filling, Emptying
<1> QED
  BY <1>1, <1>2

\* The four-state description of the cells holds in every reachable state of
\* TryPush and TryPop, for every ring size and number of goroutines.
THEOREM Inductive == Spec => []IInv
  BY InitIInv, NextIInv, PTL DEF Spec

\* Every variable of the ring keeps its type.
THEOREM TypeCorrect == Spec => []TypeOK
<1>1. IInv => TypeOK
  BY DEF IInv
<1> QED
  BY <1>1, Inductive, PTL

\* The two counters of the ring stay within a lap of each other.
THEOREM CountersWithinLap == Spec => []WithinLap
<1>1. IInv => WithinLap
  BY DEF IInv
<1> QED
  BY <1>1, Inductive, PTL

\* Claimed positions are less than a lap apart, so their cells differ.
LEMMA Exclusive == IInv => CellExclusive
<1> SUFFICES ASSUME IInv, NEW t \in Owners, NEW u \in Owners, cell(pos[t]) = cell(pos[u])
             PROVE t = u
  BY DEF CellExclusive
<1> USE SizeAssumption DEF IInv, TypeOK, WithinLap, OwnersOK, Owners
<1>1. t \in Threads /\ u \in Threads /\ pos[t] \in Nat /\ pos[u] \in Nat
  BY DEF Filling, Emptying
<1>2. pos[t] < pos[u] + Size /\ pos[u] < pos[t] + Size
  <2>1. \A x \in Owners : pos[x] < tail /\ tail <= pos[x] + Size
    BY DEF Filling, Emptying
  <2> QED
    BY <1>1, <2>1
<1>3. pos[t] = pos[u]
  BY <1>1, <1>2, CellApart
<1> QED
  BY <1>1, <1>3

\* The plain field val of a cell is never accessed by two goroutines at once:
\* the claim by compare-and-swap makes TryPush and TryPop free of data races.
THEOREM NoDataRace == Spec => []CellExclusive
  BY Exclusive, Inductive, PTL

\* Every queued item is in its cell until a consumer claims it.
THEOREM NoItemLost == Spec => []ItemsKept
<1>1. IInv => ItemsKept
  BY SizeAssumption DEF IInv, SeqOK, ValuesOK, ItemsKept
<1> QED
  BY <1>1, Inductive, PTL

\* The items by position; what the positions of the ring and the queue say.
Line == [p \in Nat |-> itemAt(p)]
FillersSay == \A t \in Filling : Line[pos[t]] = [val |-> item[t], by |-> t]
CellsSay ==
  \A p \in Nat : (\A t \in Filling : pos[t] # p) => Line[p] = [val |-> val[cell(p)], by |-> NoOne]
QueueSays == queueOf = [i \in 1..(tail - head) |-> Line[head + i - 1]]

\* itemAt is well defined: a position has at most one filler.
LEMMA Items == IInv => FillersSay /\ CellsSay /\ QueueSays
<1> SUFFICES ASSUME IInv PROVE FillersSay /\ CellsSay /\ QueueSays
  OBVIOUS
<1>1. ASSUME NEW t \in Filling
      PROVE Line[pos[t]] = [val |-> item[t], by |-> t]
  <2>1. pos[t] \in Nat /\ {u \in Filling : pos[u] = pos[t]} = {t}
    BY <1>1 DEF IInv, TypeOK, OwnersOK, Filling
  <2>2. (CHOOSE u \in {t} : TRUE) = t
    OBVIOUS
  <2>3. itemAt(pos[t]) = [val |-> item[t], by |-> t]
    BY <2>1, <2>2 DEF itemAt
  <2> QED
    BY <2>1, <2>3 DEF Line
<1>2. ASSUME NEW p \in Nat, \A t \in Filling : pos[t] # p
      PROVE Line[p] = [val |-> val[cell(p)], by |-> NoOne]
  <2>1. {u \in Filling : pos[u] = p} = {}
    BY <1>2
  <2> QED
    BY <2>1 DEF itemAt, Line
<1>3. \A i \in 1..(tail - head) : head + i - 1 \in Nat
  BY DEF IInv, TypeOK
<1>4. QueueSays
  BY <1>3 DEF QueueSays, queueOf, Line
<1> QED
  BY <1>1, <1>2, <1>4 DEF FillersSay, CellsSay

\* A step that leaves the counters, the fillers and the filled cells alone
\* leaves the queue alone.
LEMMA SameQueue ==
  ASSUME IInv, IInv', UNCHANGED <<head, tail>>, Filling' = Filling,
         \A u \in Filling : pos'[u] = pos[u] /\ item'[u] = item[u],
         \A p \in head..(tail - 1) : (\A u \in Filling : pos[u] # p) => val'[cell(p)] = val[cell(p)]
  PROVE queueOf' = queueOf
<1>0. FillersSay' /\ CellsSay' /\ QueueSays' /\ FillersSay /\ CellsSay /\ QueueSays
  BY Items, PTL
<1>1. \A p \in head..(tail - 1) : Line'[p] = Line[p]
  <2> TAKE p \in head..(tail - 1)
  <2>0. p \in Nat
    BY DEF IInv, TypeOK
  <2>1. CASE \E u \in Filling : pos[u] = p
    <3>1. PICK u \in Filling : pos[u] = p
      BY <2>1
    <3>2. Line[p] = [val |-> item[u], by |-> u]
      BY <1>0, <2>0, <3>1 DEF FillersSay
    <3>4. Line'[p] = [val |-> item'[u], by |-> u]
      BY <1>0, <2>0, <3>1 DEF FillersSay
    <3> QED
      BY <3>2, <3>4
  <2>2. CASE \A u \in Filling : pos[u] # p
    <3>1. Line[p] = [val |-> val[cell(p)], by |-> NoOne]
      BY <1>0, <2>0, <2>2 DEF CellsSay
    <3>3. Line'[p] = [val |-> val'[cell(p)], by |-> NoOne]
      BY <1>0, <2>0, <2>2 DEF CellsSay
    <3> QED
      BY <2>2, <3>1, <3>3
  <2> QED
    BY <2>1, <2>2
<1>2. head \in Nat /\ tail \in Nat
  BY DEF IInv, TypeOK
<1>3. \A i \in 1..(tail - head) : head + i - 1 \in head..(tail - 1)
  BY <1>2
<1> QED
  BY <1>0, <1>1, <1>3 DEF QueueSays

\* A step of t leaves the other goroutines' calls alone.
LEMMA OtherCalls ==
  ASSUME NEW t \in Threads,
         \A u \in Threads \ {t} :
            /\ pc'[u] = pc[u] /\ item'[u] = item[u] /\ pos'[u] = pos[u]
            /\ pc[u] = "popval" => val'[cell(pos[u])] = val[cell(pos[u])]
  PROVE calls' = [calls EXCEPT ![t] = callOf(t)']
<1>1. \A u \in Threads \ {t} : callOf(u)' = callOf(u)
  BY DEF callOf
<1> QED
  BY <1>1 DEF calls

\* Every step of the ring is a step of the queue, or none.
LEMMA Simulates == IInv /\ IInv' /\ Next => [Queue!QNext]_(Queue!qvars)
<1> SUFFICES ASSUME IInv, IInv', NEW t \in Threads,
                    (\E v \in Values : PushCall(t, v)) \/ PopCall(t) \/ PushStep(t) \/ PopStep(t)
             PROVE [Queue!QNext]_(Queue!qvars)
  BY DEF Next
<1> USE SizeAssumption
<1>q. queueOf' = queueOf /\ calls' = calls => UNCHANGED Queue!qvars
  BY DEF Queue!qvars
<1>t. TypeOK /\ WithinLap /\ Filling \subseteq Threads /\ calls[t] = callOf(t)
      /\ calls \in [Threads -> {callOf(u) : u \in Threads}]
  BY DEF IInv, Filling, calls
<1>s. [calls EXCEPT ![t] = callOf(t)] = calls
  BY <1>t DEF calls
<1>1. CASE PushLoadTail(t)
  <2>1. queueOf' = queueOf
    BY <1>1, <1>t, SameQueue DEF PushLoadTail, goto, TypeOK, Filling
  <2>2. calls' = [calls EXCEPT ![t] = callOf(t)']
    BY <1>1, <1>t, OtherCalls DEF PushLoadTail, goto, TypeOK
  <2>3. callOf(t)' = callOf(t)
    BY <1>1, <1>t DEF PushLoadTail, goto, TypeOK, callOf
  <2> QED
    BY <1>q, <1>s, <2>1, <2>2, <2>3
<1>2. CASE PushSeesFree(t)
  <2>1. queueOf' = queueOf
    BY <1>2, <1>t, SameQueue DEF PushSeesFree, goto, TypeOK, Filling
  <2>2. calls' = [calls EXCEPT ![t] = callOf(t)']
    BY <1>2, <1>t, OtherCalls DEF PushSeesFree, goto, TypeOK
  <2>3. callOf(t)' = callOf(t)
    BY <1>2, <1>t DEF PushSeesFree, goto, TypeOK, callOf
  <2> QED
    BY <1>q, <1>s, <2>1, <2>2, <2>3
<1>3. CASE PushOvertaken(t)
  <2>1. queueOf' = queueOf
    BY <1>3, <1>t, SameQueue DEF PushOvertaken, goto, TypeOK, Filling
  <2>2. calls' = [calls EXCEPT ![t] = callOf(t)']
    BY <1>3, <1>t, OtherCalls DEF PushOvertaken, goto, TypeOK
  <2>3. callOf(t)' = callOf(t)
    BY <1>3, <1>t DEF PushOvertaken, goto, TypeOK, callOf
  <2> QED
    BY <1>q, <1>s, <2>1, <2>2, <2>3
<1>4. CASE PushClaimLost(t)
  <2>1. queueOf' = queueOf
    BY <1>4, <1>t, SameQueue DEF PushClaimLost, goto, TypeOK, Filling
  <2>2. calls' = [calls EXCEPT ![t] = callOf(t)']
    BY <1>4, <1>t, OtherCalls DEF PushClaimLost, goto, TypeOK
  <2>3. callOf(t)' = callOf(t)
    BY <1>4, <1>t DEF PushClaimLost, goto, TypeOK, callOf
  <2> QED
    BY <1>q, <1>s, <2>1, <2>2, <2>3
<1>5. CASE PopLoadHead(t)
  <2>1. queueOf' = queueOf
    BY <1>5, <1>t, SameQueue DEF PopLoadHead, goto, TypeOK, Filling
  <2>2. calls' = [calls EXCEPT ![t] = callOf(t)']
    BY <1>5, <1>t, OtherCalls DEF PopLoadHead, goto, TypeOK
  <2>3. callOf(t)' = callOf(t)
    BY <1>5, <1>t DEF PopLoadHead, goto, TypeOK, callOf
  <2> QED
    BY <1>q, <1>s, <2>1, <2>2, <2>3
<1>6. CASE PopSeesItem(t)
  <2>1. queueOf' = queueOf
    BY <1>6, <1>t, SameQueue DEF PopSeesItem, goto, TypeOK, Filling
  <2>2. calls' = [calls EXCEPT ![t] = callOf(t)']
    BY <1>6, <1>t, OtherCalls DEF PopSeesItem, goto, TypeOK
  <2>3. callOf(t)' = callOf(t)
    BY <1>6, <1>t DEF PopSeesItem, goto, TypeOK, callOf
  <2> QED
    BY <1>q, <1>s, <2>1, <2>2, <2>3
<1>7. CASE PopOvertaken(t)
  <2>1. queueOf' = queueOf
    BY <1>7, <1>t, SameQueue DEF PopOvertaken, goto, TypeOK, Filling
  <2>2. calls' = [calls EXCEPT ![t] = callOf(t)']
    BY <1>7, <1>t, OtherCalls DEF PopOvertaken, goto, TypeOK
  <2>3. callOf(t)' = callOf(t)
    BY <1>7, <1>t DEF PopOvertaken, goto, TypeOK, callOf
  <2> QED
    BY <1>q, <1>s, <2>1, <2>2, <2>3
<1>8. CASE PopClaimLost(t)
  <2>1. queueOf' = queueOf
    BY <1>8, <1>t, SameQueue DEF PopClaimLost, goto, TypeOK, Filling
  <2>2. calls' = [calls EXCEPT ![t] = callOf(t)']
    BY <1>8, <1>t, OtherCalls DEF PopClaimLost, goto, TypeOK
  <2>3. callOf(t)' = callOf(t)
    BY <1>8, <1>t DEF PopClaimLost, goto, TypeOK, callOf
  <2> QED
    BY <1>q, <1>s, <2>1, <2>2, <2>3
<1>9. ASSUME NEW v \in Values, PushCall(t, v) PROVE Queue!QCall(t)
  <2>1. queueOf' = queueOf
    BY <1>9, <1>t, SameQueue DEF PushCall, goto, TypeOK, Filling
  <2>2. calls' = [calls EXCEPT ![t] = callOf(t)']
    BY <1>9, <1>t, OtherCalls DEF PushCall, goto, TypeOK
  <2>3. callOf(t) = [op |-> "none", val |-> NoValue] /\ callOf(t)' = [op |-> "push", val |-> v]
    BY <1>9, <1>t DEF PushCall, goto, TypeOK, callOf
  <2> QED
    BY <1>t, <2>1, <2>2, <2>3 DEF Queue!QCall, Queue!NoCall
<1>10. CASE PopCall(t)
  <2>1. queueOf' = queueOf
    BY <1>10, <1>t, SameQueue DEF PopCall, goto, TypeOK, Filling
  <2>2. calls' = [calls EXCEPT ![t] = callOf(t)']
    BY <1>10, <1>t, OtherCalls DEF PopCall, goto, TypeOK
  <2>3. callOf(t) = [op |-> "none", val |-> NoValue] /\ callOf(t)' = [op |-> "pop", val |-> NoValue]
    BY <1>10, <1>t DEF PopCall, goto, TypeOK, callOf
  <2>4. Queue!QCall(t)
    BY <1>t, <2>1, <2>2, <2>3 DEF Queue!QCall, Queue!NoCall
  <2> QED
    BY <2>4 DEF Queue!QNext
<1>11. CASE PushSeesFull(t)
  <2>1. queueOf' = queueOf
    BY <1>11, <1>t, SameQueue DEF PushSeesFull, return, goto, TypeOK, Filling
  <2>2. calls' = [calls EXCEPT ![t] = callOf(t)']
    BY <1>11, <1>t, OtherCalls DEF PushSeesFull, return, goto, TypeOK
  <2>3. callOf(t) = [op |-> "push", val |-> item[t]] /\ callOf(t)' = [op |-> "none", val |-> NoValue]
    BY <1>11, <1>t DEF PushSeesFull, return, goto, TypeOK, callOf
  <2>4. pos[t] = tail /\ seq[cell(tail)] < tail
    <3>1. pc[t] = "pushseq" /\ seq[cell(pos[t])] < pos[t] /\ pos[t] \in Nat /\ tail \in Nat
      BY <1>11, <1>t DEF PushSeesFull, TypeOK
    <3>2. seq[cell(pos[t])] \in Nat
      BY <1>t, <3>1, CellRange DEF TypeOK
    <3>3. pos[t] <= tail /\ (pos[t] < tail => seq[cell(pos[t])] >= pos[t])
      BY <3>1 DEF IInv, LoadsOK
    <3> QED
      BY <3>1, <3>2, <3>3
  <2>5. Len(queueOf) = tail - head
    BY <1>t DEF queueOf, TypeOK, WithinLap
  <2>6. CASE tail = head + Size
    <3>1. Len(queueOf) = Size
      BY <1>t, <2>5, <2>6 DEF TypeOK
    <3>2. Queue!QFull(t)
      BY <1>t, <2>1, <2>2, <2>3, <3>1 DEF Queue!QFull, Queue!NoCall
    <3> QED
      BY <3>2 DEF Queue!QNext
  <2>7. CASE tail # head + Size
    <3>1. tail \in tail..(head + Size - 1)
      BY <1>t, <2>7 DEF TypeOK, WithinLap
    <3>2. PICK u \in Emptying : pos[u] + Size = tail
      BY <1>t, <2>4, <3>1 DEF IInv, SeqOK, TypeOK
    <3>3. u \in Threads /\ calls[u].op = "took"
      BY DEF Emptying, calls, callOf
    <3>4. Queue!QFull(t)
      BY <1>t, <2>1, <2>2, <2>3, <3>3 DEF Queue!QFull, Queue!Leaving, Queue!NoCall
    <3> QED
      BY <3>4 DEF Queue!QNext
  <2> QED
    BY <2>6, <2>7
<1>12. CASE PopSeesEmpty(t)
  <2>1. queueOf' = queueOf
    BY <1>12, <1>t, SameQueue DEF PopSeesEmpty, return, goto, TypeOK, Filling
  <2>2. calls' = [calls EXCEPT ![t] = callOf(t)']
    BY <1>12, <1>t, OtherCalls DEF PopSeesEmpty, return, goto, TypeOK
  <2>3. callOf(t) = [op |-> "pop", val |-> NoValue] /\ callOf(t)' = [op |-> "none", val |-> NoValue]
    BY <1>12, <1>t DEF PopSeesEmpty, return, goto, TypeOK, callOf
  <2>4. pos[t] = head /\ seq[cell(head)] < head + 1
    <3>1. pc[t] = "popseq" /\ seq[cell(pos[t])] < pos[t] + 1 /\ pos[t] \in Nat /\ head \in Nat
      BY <1>12, <1>t DEF PopSeesEmpty, TypeOK
    <3>2. seq[cell(pos[t])] \in Nat
      BY <1>t, <3>1, CellRange DEF TypeOK
    <3>3. pos[t] <= head /\ (pos[t] < head => seq[cell(pos[t])] >= pos[t] + 1)
      BY <3>1 DEF IInv, LoadsOK
    <3> QED
      BY <3>1, <3>2, <3>3
  <2>5. queueOf = <<>> \/ Head(queueOf).by # NoOne
    <3>1. CASE head = tail
      BY <1>t, <3>1 DEF queueOf, TypeOK
    <3>2. CASE head # tail
      <4>1. head \in head..(tail - 1) /\ 1 \in 1..(tail - head)
        BY <1>t, <3>2 DEF TypeOK, WithinLap
      <4>2. PICK u \in Filling : pos[u] = head
        BY <1>t, <2>4, <4>1 DEF IInv, SeqOK, TypeOK
      <4>3. Line[head] = [val |-> item[u], by |-> u]
        BY <1>t, <4>2, Items DEF FillersSay, TypeOK
      <4>4. Head(queueOf) = Line[head]
        <5>1. queueOf = [i \in 1..(tail - head) |-> Line[head + i - 1]] /\ head + 1 - 1 = head
          BY <1>t, Items DEF QueueSays, TypeOK
        <5>2. Head(queueOf) = queueOf[1]
          BY <4>1, <5>1
        <5> QED
          BY <4>1, <5>1, <5>2
      <4> QED
        BY <1>t, <4>2, <4>3, <4>4, RingAssumption
    <3> QED
      BY <3>1, <3>2
  <2>6. Queue!QEmpty(t)
    BY <1>t, <2>1, <2>2, <2>3, <2>5 DEF Queue!QEmpty, Queue!NoCall
  <2> QED
    BY <2>6 DEF Queue!QNext
<1>13. CASE PushWrite(t)
  <2>1. pos[t] \in Nat /\ t \in Filling /\ UNCHANGED <<head, tail, pos, item>> /\ Filling' = Filling
        /\ val' = [val EXCEPT ![cell(pos[t])] = item[t]]
    BY <1>13, <1>t DEF PushWrite, goto, TypeOK, Filling
  <2>2. \A p \in head..(tail - 1) : (\A u \in Filling : pos[u] # p) => val'[cell(p)] = val[cell(p)]
    <3> TAKE p \in head..(tail - 1)
    <3> HAVE \A u \in Filling : pos[u] # p
    <3>1. p # pos[t] /\ p < pos[t] + Size /\ pos[t] < p + Size /\ p \in Nat
      BY <1>t, <2>1 DEF IInv, OwnersOK, TypeOK, WithinLap
    <3>2. cell(p) # cell(pos[t])
      BY <2>1, <3>1, CellApart
    <3> QED
      BY <2>1, <3>2
  <2>3. queueOf' = queueOf
    BY <2>1, <2>2, SameQueue
  <2>4. \A u \in Threads \ {t} : pc[u] = "popval" => val'[cell(pos[u])] = val[cell(pos[u])]
    <3> SUFFICES ASSUME NEW u \in Threads \ {t}, pc[u] = "popval" PROVE cell(pos[u]) # cell(pos[t])
      BY <2>1
    <3>1. u \in Owners /\ t \in Owners
      BY <2>1 DEF Owners, Emptying
    <3> QED
      BY <3>1, Exclusive DEF CellExclusive
  <2>5. calls' = [calls EXCEPT ![t] = callOf(t)']
    BY <1>13, <1>t, <2>4, OtherCalls DEF PushWrite, goto, TypeOK
  <2>6. callOf(t)' = callOf(t)
    BY <1>13, <1>t DEF PushWrite, goto, TypeOK, callOf
  <2> QED
    BY <1>q, <1>s, <2>3, <2>5, <2>6
<1>14. CASE PopClear(t)
  <2>1. pos[t] \in Nat /\ t \in Emptying /\ UNCHANGED <<head, tail, pos, item>> /\ Filling' = Filling
        /\ val' = [val EXCEPT ![cell(pos[t])] = NoValue]
    BY <1>14, <1>t DEF PopClear, goto, TypeOK, Filling, Emptying
  <2>2. \A p \in head..(tail - 1) : val'[cell(p)] = val[cell(p)]
    <3> TAKE p \in head..(tail - 1)
    <3>1. pos[t] < p /\ p < pos[t] + Size /\ p \in Nat
      BY <1>t, <2>1 DEF IInv, OwnersOK, TypeOK, WithinLap
    <3>2. cell(p) # cell(pos[t])
      BY <2>1, <3>1, CellApart
    <3> QED
      BY <2>1, <3>2
  <2>3. queueOf' = queueOf
    BY <2>1, <2>2, SameQueue
  <2>4. \A u \in Threads \ {t} : pc[u] = "popval" => val'[cell(pos[u])] = val[cell(pos[u])]
    <3> SUFFICES ASSUME NEW u \in Threads \ {t}, pc[u] = "popval" PROVE cell(pos[u]) # cell(pos[t])
      BY <2>1
    <3>1. u \in Owners /\ t \in Owners
      BY <2>1 DEF Owners, Emptying
    <3> QED
      BY <3>1, Exclusive DEF CellExclusive
  <2>5. calls' = [calls EXCEPT ![t] = callOf(t)']
    BY <1>14, <1>t, <2>4, OtherCalls DEF PopClear, goto, TypeOK
  <2>6. callOf(t)' = callOf(t)
    BY <1>14, <1>t DEF PopClear, goto, TypeOK, callOf
  <2> QED
    BY <1>q, <1>s, <2>3, <2>5, <2>6
<1>15. CASE PopRead(t)
  <2>1. queueOf' = queueOf
    BY <1>15, <1>t, SameQueue DEF PopRead, goto, TypeOK, Filling
  <2>2. calls' = [calls EXCEPT ![t] = callOf(t)']
    BY <1>15, <1>t, OtherCalls DEF PopRead, goto, TypeOK
  <2>3. callOf(t)' = callOf(t)
    BY <1>15, <1>t DEF PopRead, goto, TypeOK, callOf
  <2> QED
    BY <1>q, <1>s, <2>1, <2>2, <2>3
<1>16. CASE PopRelease(t)
  <2>1. queueOf' = queueOf
    BY <1>16, <1>t, SameQueue DEF PopRelease, return, goto, TypeOK, Filling
  <2>2. calls' = [calls EXCEPT ![t] = callOf(t)']
    BY <1>16, <1>t, OtherCalls DEF PopRelease, return, goto, TypeOK
  <2>3. callOf(t) = [op |-> "took", val |-> item[t]] /\ callOf(t)' = [op |-> "none", val |-> NoValue]
    BY <1>16, <1>t DEF PopRelease, return, goto, TypeOK, callOf
  <2>4. Queue!QReturn(t)
    BY <1>t, <2>1, <2>2, <2>3 DEF Queue!QReturn, Queue!NoCall
  <2> QED
    BY <2>4 DEF Queue!QNext
<1>17. CASE PushClaim(t)
  <2>1. pos[t] = tail /\ tail < head + Size /\ head \in Nat /\ tail \in Nat
    BY <1>17, <1>t, PushClaims DEF TypeOK
  <2>2. UNCHANGED <<head, val, pos, item>> /\ tail' = tail + 1 /\ Filling' = Filling \cup {t} /\ t \notin Filling
    BY <1>17, <1>t, <2>1 DEF PushClaim, goto, TypeOK, Filling
  <2>3. FillersSay' /\ CellsSay' /\ QueueSays' /\ FillersSay /\ CellsSay /\ QueueSays
    BY Items, PTL
  <2>4. \A p \in head..(tail - 1) : Line'[p] = Line[p]
    <3> TAKE p \in head..(tail - 1)
    <3>1. p \in Nat /\ p # pos[t]
      BY <2>1
    <3>2. CASE \E u \in Filling : pos[u] = p
      <4>1. PICK u \in Filling : pos[u] = p
        BY <3>2
      <4>2. Line[p] = [val |-> item[u], by |-> u]
        BY <2>3, <4>1 DEF FillersSay
      <4>3. Line'[p] = [val |-> item[u], by |-> u]
        BY <2>2, <2>3, <4>1 DEF FillersSay
      <4> QED
        BY <4>2, <4>3
    <3>3. CASE \A u \in Filling : pos[u] # p
      BY <2>2, <2>3, <3>1, <3>3 DEF CellsSay
    <3> QED
      BY <3>2, <3>3
  <2>5. Line'[tail] = [val |-> item[t], by |-> t]
    BY <2>1, <2>2, <2>3 DEF FillersSay
  <2>6. queueOf' = [i \in 1..(tail + 1 - head) |-> Line'[head + i - 1]]
    <3>1. queueOf' = [i \in 1..(tail' - head') |-> Line'[head' + i - 1]]
      BY <2>3 DEF QueueSays
    <3>2. head' = head /\ tail' = tail + 1
      BY <2>2
    <3> DEFINE new(i) == Line'[head' + i - 1]
               old(i) == Line'[head + i - 1]
    <3>3. \A i : new(i) = old(i)
      BY <3>2, Zenon
    <3>4. 1..(tail' - head') = 1..(tail + 1 - head)
      BY <3>2, <2>1
    <3>5. queueOf' = [i \in 1..(tail' - head') |-> new(i)]
      BY <3>1, Zenon
    <3> HIDE DEF new, old
    <3>6. queueOf' = [i \in 1..(tail + 1 - head) |-> old(i)]
      BY <3>3, <3>4, <3>5, Zenon
    <3> QED
      BY <3>6, Zenon DEF old
  <2>7. queueOf' = Append(queueOf, [val |-> item[t], by |-> t])
    <3>0. tail - head \in Nat
      BY <1>t, <2>1 DEF WithinLap
    <3>1. queueOf = [i \in 1..(tail - head) |-> Line[head + i - 1]] /\ Len(queueOf) = tail - head
      BY <2>3, <3>0 DEF QueueSays
    <3>2. \A i \in 1..(tail - head) : head + i - 1 \in head..(tail - 1)
      BY <2>1, <3>0
    <3>3. \A i \in 1..(tail + 1 - head) :
            Line'[head + i - 1] = IF i = tail + 1 - head THEN [val |-> item[t], by |-> t] ELSE queueOf[i]
      <4> TAKE i \in 1..(tail + 1 - head)
      <4>1. CASE i = tail + 1 - head
        <5>1. head + i - 1 = tail
          BY <2>1, <4>1
        <5> QED
          BY <2>5, <4>1, <5>1
      <4>2. CASE i # tail + 1 - head
        <5>1. i \in 1..(tail - head)
          BY <2>1, <3>0, <4>2
        <5> QED
          BY <2>4, <3>1, <3>2, <4>2, <5>1
      <4> QED
        BY <4>1, <4>2
    <3>4. Append(queueOf, [val |-> item[t], by |-> t])
            = [i \in 1..(tail + 1 - head) |-> IF i = tail + 1 - head THEN [val |-> item[t], by |-> t] ELSE queueOf[i]]
      BY <2>1, <3>0, <3>1
    <3> DEFINE one(i) == Line'[head + i - 1]
               two(i) == IF i = tail + 1 - head THEN [val |-> item[t], by |-> t] ELSE queueOf[i]
    <3>5. \A i \in 1..(tail + 1 - head) : one(i) = two(i)
      BY <3>3, Zenon
    <3>6. queueOf' = [i \in 1..(tail + 1 - head) |-> one(i)]
      BY <2>6, Zenon
    <3>7. Append(queueOf, [val |-> item[t], by |-> t]) = [i \in 1..(tail + 1 - head) |-> two(i)]
      BY <3>4, Zenon
    <3> HIDE DEF one, two
    <3> QED
      BY <3>5, <3>6, <3>7, Zenon
  <2>8. calls' = [calls EXCEPT ![t] = callOf(t)']
    BY <1>17, <1>t, OtherCalls DEF PushClaim, goto, TypeOK
  <2>9. callOf(t) = [op |-> "push", val |-> item[t]] /\ callOf(t)' = [op |-> "put", val |-> item[t]]
    BY <1>17, <1>t DEF PushClaim, goto, TypeOK, callOf
  <2>10. Len(queueOf) < Size
    BY <1>t, <2>1 DEF queueOf, WithinLap
  <2>11. Queue!QPut(t)
    <3>1. calls[t].op = "push" /\ calls[t].val = item[t]
      BY <1>t, <2>9
    <3>2. calls' = [calls EXCEPT ![t].op = "put"]
      <4>1. [callOf(t) EXCEPT !.op = "put"] = [op |-> "put", val |-> item[t]]
        BY <2>9
      <4>2. calls[t] = callOf(t)
        BY <1>t
      <4> QED
        BY <2>8, <2>9, <4>1, <4>2, Zenon
    <3> QED
      BY <2>7, <2>10, <3>1, <3>2 DEF Queue!QPut
  <2> QED
    BY <2>11 DEF Queue!QNext
<1>18. CASE PushPublish(t)
  <2>1. pos[t] \in Nat /\ head \in Nat /\ tail \in Nat /\ t \in Filling /\ t # NoOne
    BY <1>18, <1>t, RingAssumption DEF PushPublish, TypeOK, Filling
  <2>2. UNCHANGED <<head, tail, val>> /\ Filling' = Filling \ {t}
        /\ \A u \in Filling \ {t} : pos'[u] = pos[u] /\ item'[u] = item[u]
    BY <1>18, <1>t, <2>1 DEF PushPublish, return, goto, TypeOK, Filling
  <2>3. FillersSay' /\ CellsSay' /\ QueueSays' /\ FillersSay /\ CellsSay /\ QueueSays
    BY Items, PTL
  <2>4. Line[pos[t]] = [val |-> item[t], by |-> t]
    BY <2>1, <2>3 DEF FillersSay
  <2>5. \A u \in Filling \ {t} : pos[u] # pos[t]
    BY <2>1 DEF IInv, OwnersOK, Filling
  <2>6. \A p \in head..(tail - 1) :
          Line'[p] = IF Line[p].by = t THEN [Line[p] EXCEPT !.by = NoOne] ELSE Line[p]
    <3> TAKE p \in head..(tail - 1)
    <3>0. p \in Nat
      BY <2>1
    <3>1. CASE p = pos[t]
      <4>1. Line'[p] = [val |-> val[cell(p)], by |-> NoOne]
        BY <2>2, <2>3, <2>5, <3>0, <3>1 DEF CellsSay
      <4>2. val[cell(p)] = item[t]
        BY <1>18, <3>1 DEF PushPublish, IInv, ValuesOK
      <4> QED
        BY <2>4, <3>1, <4>1, <4>2
    <3>2. CASE p # pos[t] /\ \E u \in Filling : pos[u] = p
      <4>1. PICK u \in Filling \ {t} : pos[u] = p
        BY <3>2
      <4>2. Line[p] = [val |-> item[u], by |-> u]
        BY <2>3, <3>0, <4>1 DEF FillersSay
      <4>3. Line'[p] = [val |-> item[u], by |-> u]
        BY <2>2, <2>3, <3>0, <4>1 DEF FillersSay
      <4> QED
        BY <4>1, <4>2, <4>3
    <3>3. CASE \A u \in Filling : pos[u] # p
      <4>1. Line[p] = [val |-> val[cell(p)], by |-> NoOne]
        BY <2>3, <3>0, <3>3 DEF CellsSay
      <4>2. Line'[p] = [val |-> val[cell(p)], by |-> NoOne]
        BY <2>2, <2>3, <3>0, <3>3 DEF CellsSay
      <4> QED
        BY <2>1, <4>1, <4>2
    <3> QED
      BY <3>1, <3>2, <3>3
  <2>7. \A i \in 1..(tail - head) : head + i - 1 \in head..(tail - 1)
    BY <2>1
  <2>8. queueOf' = [i \in DOMAIN queueOf |->
                      IF queueOf[i].by = t THEN [queueOf[i] EXCEPT !.by = NoOne] ELSE queueOf[i]]
    BY <2>2, <2>3, <2>6, <2>7 DEF QueueSays
  <2>9. calls' = [calls EXCEPT ![t] = callOf(t)']
    BY <1>18, <1>t, OtherCalls DEF PushPublish, return, goto, TypeOK
  <2>10. callOf(t) = [op |-> "put", val |-> item[t]] /\ callOf(t)' = [op |-> "none", val |-> NoValue]
    BY <1>18, <1>t DEF PushPublish, return, goto, TypeOK, callOf
  <2>11. Queue!QReady(t)
    BY <1>t, <2>8, <2>9, <2>10 DEF Queue!QReady, Queue!NoCall
  <2> QED
    BY <2>11 DEF Queue!QNext
<1>19. CASE PopClaim(t)
  <2>1. pos[t] = head /\ head < tail /\ seq[cell(head)] = head + 1 /\ head \in Nat /\ tail \in Nat
    BY <1>19, <1>t, PopClaims DEF TypeOK
  <2>2. UNCHANGED <<tail, val, pos, item>> /\ head' = head + 1 /\ Filling' = Filling
    BY <1>19, <1>t, <2>1 DEF PopClaim, goto, TypeOK, Filling
  <2>3. FillersSay' /\ CellsSay' /\ QueueSays' /\ FillersSay /\ CellsSay /\ QueueSays
    BY Items, PTL
  <2>4. \A u \in Filling : pos[u] # head
    BY <2>1 DEF IInv, OwnersOK
  <2>5. Line[head] = [val |-> val[cell(head)], by |-> NoOne]
    BY <2>1, <2>3, <2>4 DEF CellsSay
  <2>6. \A p \in head..(tail - 1) : Line'[p] = Line[p]
    <3> TAKE p \in head..(tail - 1)
    <3>1. p \in Nat
      BY <2>1
    <3>2. CASE \E u \in Filling : pos[u] = p
      <4>1. PICK u \in Filling : pos[u] = p
        BY <3>2
      <4>2. Line[p] = [val |-> item[u], by |-> u]
        BY <2>3, <4>1 DEF FillersSay
      <4>3. Line'[p] = [val |-> item[u], by |-> u]
        BY <2>2, <2>3, <4>1 DEF FillersSay
      <4> QED
        BY <4>2, <4>3
    <3>3. CASE \A u \in Filling : pos[u] # p
      BY <2>2, <2>3, <3>1, <3>3 DEF CellsSay
    <3> QED
      BY <3>2, <3>3
  <2>7. queueOf # <<>> /\ Head(queueOf) = Line[head] /\ queueOf' = Tail(queueOf)
    <3>0. tail - head \in Nat \ {0} /\ 1 \in 1..(tail - head)
      BY <2>1
    <3>1. queueOf = [i \in 1..(tail - head) |-> Line[head + i - 1]] /\ Len(queueOf) = tail - head
      BY <2>3, <3>0 DEF QueueSays
    <3>2. queueOf[1] = Line[head]
      BY <2>1, <3>0, <3>1
    <3>3. queueOf' = [i \in 1..(tail - (head + 1)) |-> Line'[(head + 1) + i - 1]]
      BY <2>2, <2>3 DEF QueueSays
    <3>4. \A i \in 1..(tail - (head + 1)) : Line'[(head + 1) + i - 1] = queueOf[i + 1]
      <4> TAKE i \in 1..(tail - (head + 1))
      <4>1. (head + 1) + i - 1 \in head..(tail - 1) /\ i + 1 \in 1..(tail - head)
            /\ (head + 1) + i - 1 = head + (i + 1) - 1
        BY <2>1
      <4> QED
        BY <2>6, <3>1, <4>1
    <3>5. Tail(queueOf) = [i \in 1..(tail - (head + 1)) |-> queueOf[i + 1]]
      BY <2>1, <3>0, <3>1
    <3>6. queueOf # <<>> /\ Head(queueOf) = queueOf[1]
      BY <3>0, <3>1
    <3> QED
      BY <3>2, <3>3, <3>4, <3>5, <3>6
  <2>8. calls' = [calls EXCEPT ![t] = callOf(t)']
    BY <1>19, <1>t, OtherCalls DEF PopClaim, goto, TypeOK
  <2>9. callOf(t) = [op |-> "pop", val |-> NoValue] /\ callOf(t)' = [op |-> "took", val |-> val[cell(head)]]
    BY <1>19, <1>t, <2>1, <2>2 DEF PopClaim, goto, TypeOK, callOf
  <2>10. Queue!QTake(t)
    <3>1. calls[t].op = "pop" /\ Head(queueOf).by = NoOne /\ Head(queueOf).val = val[cell(head)]
      BY <1>t, <2>5, <2>7, <2>9
    <3>2. calls' = [calls EXCEPT ![t] = [op |-> "took", val |-> Head(queueOf).val]]
      BY <2>8, <2>9, <3>1
    <3> QED
      BY <2>7, <3>1, <3>2 DEF Queue!QTake
  <2> QED
    BY <2>10 DEF Queue!QNext
<1> QED
  BY <1>1, <1>2, <1>3, <1>4, <1>5, <1>6, <1>7, <1>8, <1>9, <1>10, <1>11, <1>12, <1>13, <1>14, <1>15, <1>16,
     <1>17, <1>18, <1>19 DEF PushStep, PopStep, Queue!QNext

\* TryPush and TryPop implement the bounded first-in first-out queue, items
\* being queued and taken at the compare-and-swaps, for every ring size,
\* every number of goroutines and every interleaving of their steps.
THEOREM RingIsBoundedQueue == Spec => IsBoundedQueue
<1>1. Init => Queue!QInit
  <2> SUFFICES ASSUME Init PROVE Queue!QInit
    OBVIOUS
  <2>1. queueOf = <<>>
    BY DEF Init, queueOf
  <2>2. calls = [t \in Threads |-> [op |-> "none", val |-> NoValue]]
    BY DEF Init, calls, callOf
  <2> QED
    BY <2>1, <2>2 DEF Queue!QInit, Queue!NoCall
<1>2. IInv /\ IInv' /\ [Next]_vars => [Queue!QNext]_(Queue!qvars)
  <2>1. CASE Next
    BY <2>1, Simulates
  <2>2. CASE UNCHANGED vars
    <3>1. queueOf' = queueOf /\ calls' = calls
      BY <2>2 DEF vars, queueOf, calls, callOf, itemAt, Filling
    <3> QED
      BY <3>1 DEF Queue!qvars
  <2> QED
    BY <2>1, <2>2
<1> QED
  BY <1>1, <1>2, Inductive, PTL DEF Spec, IsBoundedQueue, Queue!QSpec

=============================================================================
