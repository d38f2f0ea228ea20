----------------------------- MODULE BufferPool -----------------------------
(***************************************************************************)
(* The pool of relay buffers (pool.go).  Free is the ring the buffers are  *)
(* parked in, here their number: its operations are atomic (module Ring    *)
(* shows that they are), its capacity is maxIdle rounded up to a power of  *)
(* two.  Looking at its length, pushing and stamping fullSince are steps   *)
(* of their own.  A stamp is young until a minute has passed.              *)
(***************************************************************************)
EXTENDS Naturals, FiniteSets, FiniteSetsExt

CONSTANTS
  Borrowers,  \* relays
  MaxIdle,    \* buffer_pool_max_idle
  RingCap     \* what the ring can hold

ASSUME PoolAssumption ==
  MaxIdle \in Nat \ {0} /\ RingCap \in Nat /\ RingCap >= MaxIdle /\ IsFiniteSet(Borrowers)

VARIABLES
  free,       \* buffers parked
  fullSince,  \* "no" (0), or the age of the stamp
  step,       \* per borrower: "idle", the steps of Get, "using", the steps of Put
  janitor,    \* "sleep", "trim"
  peak        \* history: the most returns at once, so far, between looking and pushing

poolVars == <<free, fullSince, step, janitor, peak>>
PoolTypeOK == /\ free \in 0..RingCap /\ fullSince \in {"no", "young", "old"}
              /\ step \in [Borrowers -> {"idle", "got", "clear", "using", "push", "pushed", "stamp"}]
              /\ janitor \in {"sleep", "trim"} /\ peak \in 0..Cardinality(Borrowers)
PoolInit == /\ free = 0 /\ fullSince = "no" /\ step = [b \in Borrowers |-> "idle"]
            /\ janitor = "sleep" /\ peak = 0

stepTo(b, s) == step' = [step EXCEPT ![b] = s]
pushing(st) == Cardinality({b \in Borrowers : st[b] = "push"})

\* Get: an empty pool allocates.
Get(b) == /\ step[b] = "idle" /\ UNCHANGED <<fullSince, janitor, peak>>
          /\ \/ free > 0 /\ free' = free - 1 /\ stepTo(b, "got")
             \/ free = 0 /\ stepTo(b, "using") /\ UNCHANGED free
GetLooks(b) == /\ step[b] = "got" /\ stepTo(b, IF free < MaxIdle THEN "clear" ELSE "using")
               /\ UNCHANGED <<free, fullSince, janitor, peak>>
GetClears(b) == /\ step[b] = "clear" /\ stepTo(b, "using") /\ fullSince' = "no"
                /\ UNCHANGED <<free, janitor, peak>>

\* Put: a full pool drops the buffer.
roomInRing == free < RingCap                \* mutant: as long as the ring has room
roomFor == free < MaxIdle
Put(b) == /\ step[b] = "using" /\ stepTo(b, IF roomFor THEN "push" ELSE "idle")
          /\ peak' = Max({peak, pushing(step')}) /\ UNCHANGED <<free, fullSince, janitor>>
PutPushes(b) == /\ step[b] = "push" /\ UNCHANGED <<fullSince, janitor, peak>>
                /\ \/ free < RingCap /\ free' = free + 1 /\ stepTo(b, "pushed")
                   \/ free = RingCap /\ stepTo(b, "idle") /\ UNCHANGED free
PutLooks(b) == /\ step[b] = "pushed" /\ stepTo(b, IF free >= MaxIdle THEN "stamp" ELSE "idle")
               /\ UNCHANGED <<free, fullSince, janitor, peak>>
PutStamps(b) == /\ step[b] = "stamp" /\ stepTo(b, "idle")
                /\ fullSince' = IF fullSince = "no" THEN "young" ELSE fullSince
                /\ UNCHANGED <<free, janitor, peak>>

MinutePasses == fullSince = "young" /\ fullSince' = "old" /\ UNCHANGED <<free, step, janitor, peak>>

\* trimIdle, at a tick.
TrimTick == /\ janitor = "sleep" /\ fullSince = "old" /\ free > MaxIdle \div 2
            /\ janitor' = "trim" /\ UNCHANGED <<free, fullSince, step, peak>>
TrimPops == /\ janitor = "trim" /\ free > MaxIdle \div 2 /\ free' = free - 1
            /\ UNCHANGED <<fullSince, step, janitor, peak>>
TrimEnds == /\ janitor = "trim" /\ free <= MaxIdle \div 2
            /\ janitor' = "sleep" /\ fullSince' = "no" /\ UNCHANGED <<free, step, peak>>

Trimming == TrimTick \/ TrimPops \/ TrimEnds
Returning(b) == \/ GetLooks(b) \/ GetClears(b) \/ PutPushes(b) \/ PutLooks(b) \/ PutStamps(b)
PoolNext == \/ \E b \in Borrowers : Get(b) \/ Put(b) \/ Returning(b)
            \/ MinutePasses \/ Trimming

PoolSpec == PoolInit /\ [][PoolNext]_poolVars

-----------------------------------------------------------------------------
(* Properties *)

\* Put looks at the length before it pushes, so returns that overlap may park
\* more than maxIdle buffers, but no more than one for each that was under way
\* at the same time as another: the look holds every later return back until
\* the excess is borrowed or trimmed.
ExcessIsOverlap == free + pushing(step) <= MaxIdle - 1 + Max({peak, 1})
=============================================================================
