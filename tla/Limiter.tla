------------------------------ MODULE Limiter ------------------------------
(***************************************************************************)
(* Speed limits (limit.go, newRuntime in proxy.go).  A bucket is one       *)
(* number, tat, moved forward with compare-and-swap by every connection    *)
(* that shares it; time and bytes are in units of what one byte costs.     *)
(* A connection charges the bucket of its rule, then its listener's, and   *)
(* sleeps for the longer wait.  Reloads keep the buckets of a rate that    *)
(* did not change.  For the properties, an era of a rule or listener is    *)
(* the time its rate stays the same, and every charge is recorded under    *)
(* the era its relay started in, with the time it was allowed and the sum  *)
(* of the era's charges up to it.                                          *)
(***************************************************************************)
EXTENDS Integers, Sequences, FiniteSets, SequencesExt, Functions

CONSTANTS
  Payers,      \* relays of connections
  Scopes,      \* the rule and the listener: what a rate is configured for
  Rates,       \* the max_aggregated_speed values a reload may set
  Unlimited,   \* the value for no limit
  Costs,       \* what a charge may cost: a pump charges copies of at most one burst,
               \* served pages the whole buffer they write, which may cost more
  Burst,       \* burstDur
  MaxClock, MaxCharges, MaxReloads   \* bounds

ASSUME LimiterAssumption ==
  /\ Costs \subseteq Nat /\ Burst \in Nat /\ MaxClock \in Nat /\ MaxCharges \in Nat
  /\ Unlimited \notin Rates /\ MaxReloads \in Nat /\ IsFiniteSet(Payers) /\ IsFiniteSet(Scopes)

Buckets == Scopes \X (0..MaxReloads)
NoBucket == <<>>

VARIABLES
  clock,     \* time.Now
  tat,       \* per bucket
  era,       \* per scope: how often its rate has changed
  allowed,   \* per scope and era: the charges so far, [at, cost, sum]
  rate,      \* per scope: as configured
  current,   \* per scope: its bucket in the live runtime, NoBucket without a limit
  payer,     \* per relay: [pc, limits, era, left, cost, now, old, until]
  reloads, charges

limitVars == <<clock, tat, era, allowed, rate, current, payer, reloads, charges>>
Idle == [pc |-> "idle", limits |-> {}, era |-> [s \in Scopes |-> 0], left |-> {}, cost |-> 0, now |-> 0, old |-> 0, until |-> 0]

PayerStates == [pc : {"idle", "relay", "load", "swap", "sleep"}, limits : SUBSET Buckets, era : [Scopes -> Nat],
                left : SUBSET Buckets, cost : Nat, now : 0..MaxClock, old : Nat, until : Nat]

LimitTypeOK ==
  /\ clock \in 0..MaxClock /\ tat \in [Buckets -> Nat] /\ era \in [Scopes -> Nat]
  /\ allowed \in [Buckets -> Seq([at : Nat, cost : Costs, sum : Nat])]
  /\ rate \in [Scopes -> Rates \cup {Unlimited}] /\ current \in [Scopes -> Buckets \cup {NoBucket}]
  /\ payer \in [Payers -> PayerStates]
  /\ reloads \in 0..MaxReloads /\ charges \in 0..MaxCharges

bucketFor(s) == IF rate[s] = Unlimited THEN NoBucket ELSE <<s, 0>>
LimitInit ==
  /\ clock = 0 /\ tat = [b \in Buckets |-> 0] /\ era = [s \in Scopes |-> 0] /\ allowed = [b \in Buckets |-> <<>>]
  /\ rate \in [Scopes -> Rates] /\ current = [s \in Scopes |-> bucketFor(s)]
  /\ payer = [c \in Payers |-> Idle] /\ reloads = 0 /\ charges = 0

-----------------------------------------------------------------------------
(* A relay takes its buckets from the runtime it was routed with *)

StartRelay(c) ==
  /\ payer[c].pc = "idle"
  /\ payer' = [payer EXCEPT ![c] = [Idle EXCEPT !.pc = "relay", !.era = era,
                                          !.limits = Range(current) \ {NoBucket}]]
  /\ UNCHANGED <<clock, tat, era, allowed, rate, current, reloads, charges>>

\* waitAll charges every bucket in turn.
WaitAll(c, cost) ==
  /\ payer[c].pc = "relay" /\ payer[c].limits # {} /\ charges < MaxCharges
  /\ payer' = [payer EXCEPT ![c].pc = "load", ![c].left = payer[c].limits, ![c].cost = cost,
                            ![c].until = clock]
  /\ charges' = charges + 1
  /\ UNCHANGED <<clock, tat, era, allowed, rate, current, reloads>>

theBucket(c) == CHOOSE b \in payer[c].left : TRUE

ReserveLoad(c) ==
  /\ payer[c].pc = "load" /\ payer[c].left # {}
  /\ payer' = [payer EXCEPT ![c].pc = "swap", ![c].now = clock, ![c].old = tat[theBucket(c)]]
  /\ UNCHANGED <<clock, tat, era, allowed, rate, current, reloads, charges>>

nextTatUncapped(old, now, cost) == old + cost  \* mutant: idle time is saved up
later(x, y) == IF x >= y THEN x ELSE y
nextTat(old, now, cost) == later(old, now) + cost
waitFor(nxt, now) == later(0, nxt - now - Burst)
swapped(c, old) == tat[theBucket(c)] = old
allow(charged, at, cost) ==
  Append(charged, [at |-> at, cost |-> cost, sum |-> cost + IF charged = <<>> THEN 0 ELSE Last(charged).sum])

ReserveSwap(c) ==
  LET p == payer[c]
      b == theBucket(c)
      nxt == nextTat(p.old, p.now, p.cost)
      ready == p.now + waitFor(nxt, p.now)
  IN /\ p.pc = "swap"
     /\ \/ /\ swapped(c, p.old) /\ tat' = [tat EXCEPT ![b] = nxt]
           /\ allowed' = [allowed EXCEPT ![<<b[1], p.era[b[1]]>>] = allow(@, ready, p.cost)]
           /\ payer' = [payer EXCEPT ![c].left = @ \ {b}, ![c].until = later(@, ready),
                                     ![c].pc = IF p.left = {b} THEN "sleep" ELSE "load"]
        \/ /\ ~swapped(c, p.old) /\ payer' = [payer EXCEPT ![c].pc = "load"]
           /\ UNCHANGED <<tat, allowed>>
     /\ UNCHANGED <<clock, era, rate, current, reloads, charges>>

\* The timer, or the relay's end: the bytes charged are not forwarded then.
Woken(c) ==
  /\ payer[c].pc = "sleep"
  /\ \/ clock >= payer[c].until /\ payer' = [payer EXCEPT ![c].pc = "relay"]
     \/ payer' = [payer EXCEPT ![c] = Idle]
  /\ UNCHANGED <<clock, tat, era, allowed, rate, current, reloads, charges>>

-----------------------------------------------------------------------------
(* newRuntime *)

keepsBucket(s, new) == current[s] # NoBucket /\ rate[s] = new[s]
ReloadRates(new) ==
  /\ reloads < MaxReloads /\ reloads' = reloads + 1 /\ rate' = new
  /\ current' = [s \in Scopes |-> IF new[s] = Unlimited THEN NoBucket
                                  ELSE IF keepsBucket(s, new) THEN current[s] ELSE <<s, reloads'>>]
  /\ tat' = [b \in Buckets |-> IF b[2] = reloads' THEN clock ELSE tat[b]]
  /\ era' = [s \in Scopes |-> IF new[s] = rate[s] THEN era[s] ELSE era[s] + 1]
  /\ UNCHANGED <<clock, allowed, payer, charges>>

ClockTick == /\ clock < MaxClock /\ clock' = clock + 1
             /\ UNCHANGED <<tat, era, allowed, rate, current, payer, reloads, charges>>

LimitNext == \/ \E c \in Payers : \/ StartRelay(c) \/ ReserveLoad(c) \/ ReserveSwap(c) \/ Woken(c)
                                  \/ \E cost \in Costs : WaitAll(c, cost)
             \/ \E new \in [Scopes -> Rates \cup {Unlimited}] : ReloadRates(new)
             \/ ClockTick
LimitSpec == LimitInit /\ [][LimitNext]_limitVars

-----------------------------------------------------------------------------
(* Properties *)

\* While the rate of a rule or listener stays the same, its relays together are
\* allowed, from any charge to any later one, no more than the rate gives in the
\* time between them plus one burst, or plus the first of the charges where it
\* is a larger one (servedConn charges what it is given to write), and so in
\* every window of time: whoever swaps in between, whatever clock each had read,
\* however long the bucket was idle, and across reloads, which must not hand out
\* the budget twice.
WithinRate ==
  \A b \in Buckets : \A i, j \in DOMAIN allowed[b] :
    LET first == allowed[b][i]
        last == allowed[b][j]
    IN i <= j => (last.sum - first.sum) + first.cost <= (last.at - first.at) + later(Burst, first.cost)
=============================================================================
