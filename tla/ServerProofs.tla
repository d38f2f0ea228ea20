----------------------------- MODULE ServerProofs -----------------------------
(***************************************************************************)
(* Proofs about Server, for every set of connections, listeners, sources   *)
(* and console requests, all limits and all rules: what is counted is what *)
(* holds a count (CountsOK), what was granted is within the limits         *)
(* (LimitsOK), and a connection that relays for a stopped rule is known to *)
(* a stop that has not returned, or killed (StopsOK).                      *)
(***************************************************************************)
EXTENDS Server, FiniteSetTheorems, WellFoundedInduction, TLAPS

-----------------------------------------------------------------------------
(* The inductive invariant *)

Registered == {"hello", "route", "put", "challenge", "connect", "setkill", "recheck", "relay"}

\* What a connection's step says of its locals.
ConnsOK ==
  \A c \in Conns :
    /\ pc[c] \in {"count", "countmine", "admit", "slot", "noslot", "header", "swap", "register", "hello", "route", "put"}
         => rt[c] \in 1..MaxRuntimes
    /\ pc[c] \in {"header", "register", "hello"} => slot[c] = src[c]
    /\ pc[c] = "swap" => slot[c] \in Sources
    /\ pc[c] \notin {"noslot", "header", "swap", "register", "hello", "close"} => slot[c] = None
    /\ pc[c] \in Registered => c \in registered
    /\ c \in registered => pc[c] \in Registered \cup {"close"}
    /\ pc[c] \in {"recheck", "relay"} => c \in kill

\* What a console request's step says of its operation.
ConsolesOK ==
  \A k \in Consoles :
    /\ opc[k] # "idle" => op[k] \in Operations
    /\ opc[k] \in {"mark", "swap"} => op[k].what \in {"stop rule", "start rule"}

\* A counter is the number of connections that hold one of it.
Counted == {c \in Conns : pc[c] \notin {"none", "count", "rejected", "over"}}
CountedOn(l) == {c \in Conns : lis[c] = l /\ pc[c] \notin {"none", "count", "countmine", "uncountall", "over"}}
Holding(s) == {c \in Conns : slot[c] = s}
Asking(s) == {c \in Conns : pc[c] \in {"noslot", "swap"} /\ src[c] = s}
CountsOK ==
  /\ active = Cardinality(Counted)
  /\ mine = [l \in Listeners |-> Cardinality(CountedOn(l))]
  /\ slots = [s \in Sources |-> Cardinality(Holding(s)) + Cardinality(Asking(s))]

\* Connections and sources that are within a limit, or already know they are.
Granted == {c \in Conns : c \in Admitted \/ (pc[c] \in {"countmine", "admit"} /\ seen[c][1] <= MaxConnections)}
GrantedOn(l) ==
  {c \in Conns : lis[c] = l /\ (c \in Admitted \/ (pc[c] = "admit" /\ seen[c][2] <= ListenerMax[l]))}
GrantedSlot(s) == {c \in Conns : slot[c] = s \/ (pc[c] = "swap" /\ src[c] = s)}
LimitsOK ==
  /\ Cardinality(Granted) <= MaxConnections
  /\ \A l \in Listeners : ListenerMax[l] > 0 => Cardinality(GrantedOn(l)) <= ListenerMax[l]
  /\ MaxHandshakes > 0 => \A s \in Sources : Cardinality(GrantedSlot(s)) <= MaxHandshakes

\* Request k will still find c, or has found it.
WillStop(k, c) ==
  /\ op[k].what = "stop rule" /\ op[k].on = key[c]
  /\ opc[k] = "swap" \/ (opc[k] = "scan" /\ c \in left[k] \cup victims[k])
StopsOK ==
  \A c \in Conns : pc[c] = "relay" /\ key[c] \in stopped =>
    c \in killed \/ \E k \in Consoles : WillStop(k, c)

Locals == ConnsOK /\ ConsolesOK
IInv == TypeRouting /\ TypeConns /\ TypeConsoles /\ Locals /\ CountsOK /\ LimitsOK /\ StopsOK

-----------------------------------------------------------------------------
(* Lemmas about finite sets and the operators of Server *)

\* A connection more, or one less, in a set of connections.
LEMMA OneMore ==
  ASSUME NEW S \in SUBSET Conns, NEW c \in Conns, c \notin S
  PROVE  Cardinality(S \cup {c}) = Cardinality(S) + 1 /\ Cardinality(S) \in Nat
<1>1. IsFiniteSet(S)
  BY FS_Subset, ServerAssumption
<1> QED
  BY <1>1, FS_AddElement, FS_CardinalityType

LEMMA OneLess ==
  ASSUME NEW S \in SUBSET Conns, NEW c \in S
  PROVE  Cardinality(S \ {c}) = Cardinality(S) - 1 /\ Cardinality(S) \in Nat /\ Cardinality(S) > 0
<1>1. IsFiniteSet(S) /\ Cardinality(S) \in Nat
  BY FS_Subset, FS_CardinalityType, ServerAssumption
<1>2. Cardinality(S) # 0
  BY <1>1, FS_EmptySet
<1>3. Cardinality(S \ {c}) = Cardinality(S) - 1
  BY <1>1, FS_RemoveElement
<1> QED
  BY <1>1, <1>2, <1>3

LEMMA Fewer ==
  ASSUME NEW T \in SUBSET Conns, NEW S \in SUBSET T
  PROVE  Cardinality(S) <= Cardinality(T) /\ Cardinality(S) \in Nat /\ Cardinality(T) \in Nat
BY FS_Subset, FS_CardinalityType, ServerAssumption

\* What is left of the rules has a first one.
LEMMA RouteType ==
  ASSUME NEW l \in Listeners, NEW except
  PROVE  RouteExcept(l, except) \in RuleSet \cup {Deny}
<1> DEFINE left_ == {i \in DOMAIN Rules[l] : Rules[l][i] \notin except}
<1>1. Rules[l] \in Seq(RuleSet) /\ left_ \subseteq Nat /\ \A i \in left_ : Rules[l][i] \in RuleSet
  BY ServerAssumption
<1>2. ASSUME left_ # {} PROVE \E i \in left_ : \A j \in left_ : i <= j
  <2> DEFINE less == OpToRel(<, Nat)
  <2>1. IsWellFoundedOn(less, Nat)
    BY NatLessThanWellFounded
  <2>2. \A i, j \in Nat : j < i => <<j, i>> \in less
    BY DEF OpToRel
  <2> HIDE DEF less, left_
  <2>3. PICK i \in left_ : \A j \in left_ : ~ (<<j, i>> \in less)
    BY <1>1, <1>2, <2>1, WFMin
  <2>4. i \in Nat /\ \A j \in left_ : j \in Nat
    BY <1>1, <2>3
  <2>5. \A j \in left_ : ~ (j < i)
    BY <2>2, <2>3, <2>4
  <2> QED
    BY <2>3, <2>4, <2>5
<1>3. CASE left_ = {}
  BY <1>3 DEF RouteExcept
<1>4. CASE left_ # {}
  <2>1. PICK i \in left_ : i = CHOOSE i_ \in left_ : \A j \in left_ : i_ <= j
    BY <1>2, <1>4
  <2>2. RouteExcept(l, except) = Rules[l][i]
    BY <1>4, <2>1 DEF RouteExcept
  <2> QED
    BY <1>1, <2>1, <2>2
<1> QED
  BY <1>3, <1>4

\* The counters are numbers.
LEMMA CountsType ==
  ASSUME CountsOK
  PROVE  TypeCounts
<1>1. Cardinality(Counted) \in Nat /\ \A l \in Listeners : Cardinality(CountedOn(l)) \in Nat
  BY Fewer DEF Counted, CountedOn
<1>2. \A s \in Sources : Cardinality(Holding(s)) \in Nat /\ Cardinality(Asking(s)) \in Nat
  BY Fewer DEF Holding, Asking
<1> QED
  BY <1>1, <1>2 DEF CountsOK, TypeCounts

-----------------------------------------------------------------------------
(* Types and locals *)

\* Reloads, caches, stopped rules and ports.
LEMMA TypeRoutingStep ==
  ASSUME TypeRouting, TypeConns, TypeConsoles, Locals, Next
  PROVE  TypeRouting'
<1>h. TypeRouting /\ TypeConns /\ TypeConsoles /\ ConnsOK /\ ConsolesOK
  BY DEF Locals
<1>u. ASSUME UNCHANGED <<routing, ports>> PROVE TypeRouting'
  BY <1>h, <1>u DEF TypeRouting, routing, ports
<1>1. ASSUME NEW c \in Conns,
            Accept(c) \/ CountAll(c) \/ CountListener(c) \/ Reject(c) \/ RejectListener(c) \/ Admit(c) \/
            UncountListener(c) \/ UncountAll(c) \/ BeginHandshake(c) \/ HandshakeRefused(c) \/ SwapSlot(c) \/
            NoHeader(c) \/ BadHeader(c) \/ (\E s \in Sources : ProxyHeader(c, s)) \/ Register(c) \/ Hello(c)
     PROVE  UNCHANGED <<routing, ports>>
  BY <1>1 DEF Accept, CountAll, CountListener, Reject, RejectListener, Admit, UncountListener, UncountAll,
    BeginHandshake, HandshakeRefused, SwapSlot, NoHeader, BadHeader, ProxyHeader, Register, Hello, routing
<1>2. ASSUME NEW c \in Conns,
            RouteHit(c) \/ RouteMiss(c) \/ Challenge(c) \/ RecordRule(c) \/ Connect(c) \/ SetKill(c) \/
            Recheck(c) \/ RelayEnds(c) \/ Close(c)
     PROVE  UNCHANGED <<routing, ports>>
  BY <1>2 DEF RouteHit, RouteMiss, Challenge, RecordRule, Connect, SetKill, Recheck, RelayEnds, Close, routing
<1>3. ASSUME NEW c \in Conns, RoutePut(c) PROVE TypeRouting'
  <2>1. rt[c] \in 1..MaxRuntimes /\ lis[c] \in Listeners /\ dec[c] \in Decisions
    BY <1>h, <1>3 DEF RoutePut, ConnsOK, TypeConns
  <2>2. put(cache[rt[c]][lis[c]], dec[c]) \in RouteCache
    <3>1. cache[rt[c]][lis[c]] \in RouteCache
      BY <1>h, <2>1 DEF TypeRouting
    <3> QED
      BY <2>1, <3>1 DEF put, RouteCache, Decisions
  <2>3. cache' \in [1..MaxRuntimes -> [Listeners -> RouteCache]]
    <3>1. CASE cache' = cache
      BY <1>h, <3>1 DEF TypeRouting
    <3>2. CASE cache' = [cache EXCEPT ![rt[c]][lis[c]] = put(@, dec[c])]
      BY <1>h, <2>1, <2>2, <3>2 DEF TypeRouting
    <3> QED
      BY <1>3, <3>1, <3>2 DEF RoutePut
  <2> QED
    BY <1>h, <1>3, <2>3 DEF RoutePut, TypeRouting, ports
<1>4. ASSUME NEW k \in Consoles, (\E o \in Operations : Begin(k, o)) \/ Done(k) \/
            (\E c \in Conns : Scan(k, c) \/ StopVictim(k, c))
     PROVE  UNCHANGED <<routing, ports>>
  BY <1>4 DEF Begin, Done, Scan, StopVictim, routing
<1>5. ASSUME NEW k \in Consoles, MarkRule(k) PROVE TypeRouting'
  <2>1. op[k].on \in RuleSet
    BY <1>h, <1>5, ServerAssumption DEF MarkRule, ConsolesOK, OperationType
  <2> QED
    BY <1>h, <1>5, <2>1 DEF MarkRule, TypeRouting, ports
<1>6. ASSUME NEW k \in Consoles, SwapCache(k) PROVE TypeRouting'
  <2>1. runtime' = runtime + 1 /\ runtime < MaxRuntimes /\ UNCHANGED <<cache, stopped, port, stoppedListeners>>
    BY <1>6 DEF SwapCache, ports
  <2>2. runtime' \in 1..MaxRuntimes
    BY <1>h, <2>1, ServerAssumption DEF TypeRouting
  <2> QED
    BY <1>h, <2>1, <2>2 DEF TypeRouting
<1>7. ASSUME NEW k \in Consoles, StopPort(k) \/ StartPort(k) PROVE TypeRouting'
  <2>1. op[k].on \in Listeners
    BY <1>h, <1>7, ServerAssumption DEF StopPort, StartPort, ConsolesOK, OperationType
  <2> QED
    BY <1>h, <1>7, <2>1 DEF StopPort, StartPort, TypeRouting, routing, ports
<1>8. ASSUME NEW r \in 1..MaxRuntimes, NEW l \in Listeners, Evict(r, l) PROVE TypeRouting'
  <2>1. cache[r][l] \in RouteCache
    BY <1>h DEF TypeRouting
  <2>2. [cache[r][l] EXCEPT !.allow = None] \in RouteCache /\ [cache[r][l] EXCEPT !.deny = FALSE] \in RouteCache
    BY <2>1 DEF RouteCache
  <2>3. cache' = [cache EXCEPT ![r][l] = [@ EXCEPT !.allow = None]]
        \/ cache' = [cache EXCEPT ![r][l] = [@ EXCEPT !.deny = FALSE]]
    BY <1>8 DEF Evict
  <2>4. \A e \in RouteCache : [cache EXCEPT ![r][l] = e] \in [1..MaxRuntimes -> [Listeners -> RouteCache]]
    BY <1>h DEF TypeRouting
  <2>5. cache' = [cache EXCEPT ![r][l] = [cache[r][l] EXCEPT !.allow = None]]
        \/ cache' = [cache EXCEPT ![r][l] = [cache[r][l] EXCEPT !.deny = FALSE]]
    BY <2>3
  <2>6. cache' \in [1..MaxRuntimes -> [Listeners -> RouteCache]]
    BY <2>2, <2>4, <2>5
  <2> QED
    BY <1>h, <1>8, <2>6 DEF Evict, TypeRouting, ports
<1>9. ASSUME Reload PROVE TypeRouting'
  BY <1>h, <1>9, ServerAssumption DEF Reload, TypeRouting, ports
<1> QED
  BY <1>u, <1>1, <1>2, <1>3, <1>4, <1>5, <1>6, <1>7, <1>8, <1>9 DEF Next, ConnStep, ConsoleStep

\* The console's requests.
LEMMA ConsolesStep ==
  ASSUME TypeConsoles, ConsolesOK, Next
  PROVE  TypeConsoles' /\ ConsolesOK'
<1>u. ASSUME UNCHANGED consoles PROVE TypeConsoles' /\ ConsolesOK'
  BY <1>u DEF TypeConsoles, ConsolesOK, consoles
<1>1. ASSUME NEW c \in Conns,
            Accept(c) \/ CountAll(c) \/ CountListener(c) \/ Reject(c) \/ RejectListener(c) \/ Admit(c) \/
            UncountListener(c) \/ UncountAll(c) \/ BeginHandshake(c) \/ HandshakeRefused(c) \/ SwapSlot(c) \/
            NoHeader(c) \/ BadHeader(c) \/ (\E s \in Sources : ProxyHeader(c, s)) \/ Register(c) \/ Hello(c)
     PROVE  UNCHANGED consoles
  BY <1>1 DEF Accept, CountAll, CountListener, Reject, RejectListener, Admit, UncountListener, UncountAll,
    BeginHandshake, HandshakeRefused, SwapSlot, NoHeader, BadHeader, ProxyHeader, Register, Hello
<1>2. ASSUME NEW c \in Conns,
            RouteHit(c) \/ RouteMiss(c) \/ RoutePut(c) \/ Challenge(c) \/ RecordRule(c) \/ Connect(c) \/
            SetKill(c) \/ Recheck(c) \/ RelayEnds(c) \/ Close(c)
     PROVE  UNCHANGED consoles
  BY <1>2 DEF RouteHit, RouteMiss, RoutePut, Challenge, RecordRule, Connect, SetKill, Recheck, RelayEnds, Close
<1>3. ASSUME (\E r \in 1..MaxRuntimes, l \in Listeners : Evict(r, l)) \/ Reload
     PROVE  UNCHANGED consoles
  BY <1>3 DEF Evict, Reload
<1>4. ASSUME NEW k \in Consoles, NEW o \in Operations, Begin(k, o) PROVE TypeConsoles' /\ ConsolesOK'
  BY <1>4 DEF Begin, opgoto, TypeConsoles, ConsolesOK
<1>5. ASSUME NEW k \in Consoles, MarkRule(k) PROVE TypeConsoles' /\ ConsolesOK'
  BY <1>5 DEF MarkRule, opgoto, TypeConsoles, ConsolesOK
<1>6. ASSUME NEW k \in Consoles, SwapCache(k) PROVE TypeConsoles' /\ ConsolesOK'
  BY <1>6 DEF SwapCache, opgoto, TypeConsoles, ConsolesOK
<1>7. ASSUME NEW k \in Consoles, StopPort(k) \/ StartPort(k) PROVE TypeConsoles' /\ ConsolesOK'
  <2>1. CASE StopPort(k)
    BY <2>1 DEF StopPort, opgoto, TypeConsoles, ConsolesOK
  <2>2. CASE StartPort(k)
    BY <2>2 DEF StartPort, opgoto, TypeConsoles, ConsolesOK
  <2> QED
    BY <1>7, <2>1, <2>2
<1>8. ASSUME NEW k \in Consoles, NEW c \in Conns, Scan(k, c) PROVE TypeConsoles' /\ ConsolesOK'
  BY <1>8 DEF Scan, TypeConsoles, ConsolesOK
<1>9. ASSUME NEW k \in Consoles, NEW c \in Conns, StopVictim(k, c) PROVE TypeConsoles' /\ ConsolesOK'
  BY <1>9 DEF StopVictim, TypeConsoles, ConsolesOK
<1>10. ASSUME NEW k \in Consoles, Done(k) PROVE TypeConsoles' /\ ConsolesOK'
  BY <1>10 DEF Done, opgoto, TypeConsoles, ConsolesOK
<1> QED
  BY <1>u, <1>1, <1>2, <1>3, <1>4, <1>5, <1>6, <1>7, <1>8, <1>9, <1>10 DEF Next, ConnStep, ConsoleStep

\* The connections' variables.
LEMMA TypeConnsStep ==
  ASSUME TypeRouting, TypeConns, Locals, CountsOK, Next
  PROVE  TypeConns'
<1>h. TypeRouting /\ TypeConns /\ ConnsOK /\ TypeCounts
  BY CountsType DEF Locals
<1>m. 0 \in 0..MaxRuntimes /\ runtime \in 0..MaxRuntimes
  BY <1>h, ServerAssumption DEF TypeRouting
<1>n. active + 1 \in Nat /\ \A c \in Conns : mine[lis[c]] + 1 \in Nat
  BY <1>h DEF TypeCounts, TypeConns
<1>u. ASSUME UNCHANGED conns PROVE TypeConns'
  BY <1>h, <1>u DEF conns, TypeConns, ConnSteps
<1>1. ASSUME NEW c \in Conns, Accept(c) PROVE TypeConns'
  BY <1>h, <1>m, <1>1 DEF Accept, goto, TypeConns, ConnSteps
<1>2. ASSUME NEW c \in Conns, CountAll(c) PROVE TypeConns'
  BY <1>h, <1>n, <1>2 DEF CountAll, goto, TypeConns, ConnSteps
<1>3. ASSUME NEW c \in Conns, CountListener(c) PROVE TypeConns'
  BY <1>h, <1>n, <1>3 DEF CountListener, goto, TypeConns, ConnSteps
<1>4. ASSUME NEW c \in Conns, Reject(c) PROVE TypeConns'
  BY <1>h, <1>4 DEF Reject, goto, forgetCounts, TypeConns, ConnSteps
<1>5. ASSUME NEW c \in Conns, RejectListener(c) PROVE TypeConns'
  BY <1>h, <1>5 DEF RejectListener, goto, TypeConns, ConnSteps
<1>6. ASSUME NEW c \in Conns, Admit(c) PROVE TypeConns'
  BY <1>h, <1>6 DEF Admit, goto, forgetCounts, TypeConns, ConnSteps
<1>7. ASSUME NEW c \in Conns, UncountListener(c) PROVE TypeConns'
  BY <1>h, <1>7 DEF UncountListener, goto, TypeConns, ConnSteps
<1>8. ASSUME NEW c \in Conns, UncountAll(c) PROVE TypeConns'
  BY <1>h, <1>8 DEF UncountAll, goto, TypeConns, ConnSteps
<1>9. ASSUME NEW c \in Conns, BeginHandshake(c) PROVE TypeConns'
  BY <1>h, <1>9 DEF BeginHandshake, goto, TypeConns, ConnSteps
<1>10. ASSUME NEW c \in Conns, HandshakeRefused(c) PROVE TypeConns'
  BY <1>h, <1>10 DEF HandshakeRefused, goto, TypeConns, ConnSteps
<1>11. ASSUME NEW c \in Conns, SwapSlot(c) PROVE TypeConns'
  BY <1>h, <1>11 DEF SwapSlot, goto, TypeConns, ConnSteps
<1>12. ASSUME NEW c \in Conns, NoHeader(c) PROVE TypeConns'
  BY <1>h, <1>12 DEF NoHeader, goto, TypeConns, ConnSteps
<1>13. ASSUME NEW c \in Conns, BadHeader(c) PROVE TypeConns'
  BY <1>h, <1>13 DEF BadHeader, goto, TypeConns, ConnSteps
<1>14. ASSUME NEW c \in Conns, NEW s \in Sources, ProxyHeader(c, s) PROVE TypeConns'
  BY <1>h, <1>14 DEF ProxyHeader, goto, TypeConns, ConnSteps
<1>15. ASSUME NEW c \in Conns, Register(c) PROVE TypeConns'
  BY <1>h, <1>15 DEF Register, goto, TypeConns, ConnSteps
<1>16. ASSUME NEW c \in Conns, Hello(c) PROVE TypeConns'
  BY <1>h, <1>16 DEF Hello, goto, TypeConns, ConnSteps
<1>17. ASSUME NEW c \in Conns, RouteHit(c) PROVE TypeConns'
  <2>1. rt[c] \in 1..MaxRuntimes /\ lis[c] \in Listeners
    BY <1>h, <1>17 DEF RouteHit, ConnsOK, TypeConns
  <2>2. cache[rt[c]][lis[c]] \in RouteCache
    BY <1>h, <2>1 DEF TypeRouting
  <2>3. cached(c) \in Decisions
    BY <2>2 DEF cached, RouteCache, Decisions
  <2> QED
    BY <1>h, <1>m, <1>17, <2>3 DEF RouteHit, goto, forgetRuntime, TypeConns, ConnSteps
<1>18. ASSUME NEW c \in Conns, RouteMiss(c) PROVE TypeConns'
  <2>1. RouteExcept(lis[c], stopped) \in Decisions
    BY <1>h, RouteType DEF TypeConns, Decisions
  <2> QED
    BY <1>h, <1>18, <2>1 DEF RouteMiss, goto, TypeConns, ConnSteps
<1>19. ASSUME NEW c \in Conns, RoutePut(c) PROVE TypeConns'
  BY <1>h, <1>m, <1>19 DEF RoutePut, goto, forgetRuntime, TypeConns, ConnSteps
<1>20. ASSUME NEW c \in Conns, Challenge(c) PROVE TypeConns'
  BY <1>h, <1>20 DEF Challenge, goto, TypeConns, ConnSteps
<1>21. ASSUME NEW c \in Conns, RecordRule(c) PROVE TypeConns'
  BY <1>h, <1>21 DEF RecordRule, goto, TypeConns, ConnSteps
<1>22. ASSUME NEW c \in Conns, Connect(c) PROVE TypeConns'
  BY <1>h, <1>22 DEF Connect, goto, TypeConns, ConnSteps
<1>23. ASSUME NEW c \in Conns, SetKill(c) PROVE TypeConns'
  BY <1>h, <1>23 DEF SetKill, goto, TypeConns, ConnSteps
<1>24. ASSUME NEW c \in Conns, Recheck(c) PROVE TypeConns'
  BY <1>h, <1>24 DEF Recheck, goto, TypeConns, ConnSteps
<1>25. ASSUME NEW c \in Conns, RelayEnds(c) PROVE TypeConns'
  BY <1>h, <1>25 DEF RelayEnds, goto, TypeConns, ConnSteps
<1>26. ASSUME NEW c \in Conns, Close(c) PROVE TypeConns'
  BY <1>h, <1>m, <1>26 DEF Close, goto, forgetRuntime, Decisions, TypeConns, ConnSteps
<1>27. ASSUME NEW k \in Consoles, (\E o \in Operations : Begin(k, o)) \/ MarkRule(k) \/ SwapCache(k) \/ StopPort(k) \/
            StartPort(k) \/ (\E c \in Conns : Scan(k, c)) \/ Done(k)
     PROVE  UNCHANGED conns
  BY <1>27 DEF Begin, MarkRule, SwapCache, StopPort, StartPort, Scan, Done
<1>28. ASSUME NEW k \in Consoles, NEW c \in Conns, StopVictim(k, c) PROVE TypeConns'
  BY <1>h, <1>28 DEF StopVictim, TypeConns, ConnSteps
<1>29. ASSUME (\E r \in 1..MaxRuntimes, l \in Listeners : Evict(r, l)) \/ Reload PROVE UNCHANGED conns
  BY <1>29 DEF Evict, Reload
<1> QED
  BY <1>u, <1>1, <1>2, <1>3, <1>4, <1>5, <1>6, <1>7, <1>8, <1>9, <1>10, <1>11, <1>12, <1>13, <1>14, <1>15,
    <1>16, <1>17, <1>18, <1>19, <1>20, <1>21, <1>22, <1>23, <1>24, <1>25, <1>26, <1>27, <1>28, <1>29 DEF Next,
    ConnStep, ConsoleStep

\* The connections' locals.
LEMMA ConnsStep ==
  ASSUME TypeRouting, TypeConns, Locals, Next
  PROVE  ConnsOK'
<1>h. TypeRouting /\ TypeConns /\ ConnsOK /\ ConsolesOK
  BY DEF Locals
<1>u. ASSUME UNCHANGED conns PROVE ConnsOK'
  BY <1>h, <1>u DEF conns, TypeConns, ConnsOK, Registered
<1>1. ASSUME NEW c \in Conns, Accept(c) PROVE ConnsOK'
  BY <1>h, <1>1 DEF Accept, goto, TypeRouting, TypeConns, ConnsOK, Registered
<1>2. ASSUME NEW c \in Conns, CountAll(c) PROVE ConnsOK'
  BY <1>h, <1>2 DEF CountAll, goto, TypeConns, ConnsOK, Registered
<1>3. ASSUME NEW c \in Conns, CountListener(c) PROVE ConnsOK'
  BY <1>h, <1>3 DEF CountListener, goto, TypeConns, ConnsOK, Registered
<1>4. ASSUME NEW c \in Conns, Reject(c) PROVE ConnsOK'
  BY <1>h, <1>4 DEF Reject, goto, forgetCounts, TypeConns, ConnsOK, Registered
<1>5. ASSUME NEW c \in Conns, RejectListener(c) PROVE ConnsOK'
  BY <1>h, <1>5 DEF RejectListener, goto, TypeConns, ConnsOK, Registered
<1>6. ASSUME NEW c \in Conns, Admit(c) PROVE ConnsOK'
  BY <1>h, <1>6 DEF Admit, goto, forgetCounts, TypeConns, ConnsOK, Registered
<1>7. ASSUME NEW c \in Conns, UncountListener(c) PROVE ConnsOK'
  BY <1>h, <1>7 DEF UncountListener, goto, TypeConns, ConnsOK, Registered
<1>8. ASSUME NEW c \in Conns, UncountAll(c) PROVE ConnsOK'
  BY <1>h, <1>8 DEF UncountAll, goto, TypeConns, ConnsOK, Registered
<1>9. ASSUME NEW c \in Conns, BeginHandshake(c) PROVE ConnsOK'
  BY <1>h, <1>9 DEF BeginHandshake, goto, TypeConns, ConnsOK, Registered
<1>10. ASSUME NEW c \in Conns, HandshakeRefused(c) PROVE ConnsOK'
  BY <1>h, <1>10 DEF HandshakeRefused, goto, TypeConns, ConnsOK, Registered
<1>11. ASSUME NEW c \in Conns, SwapSlot(c) PROVE ConnsOK'
  BY <1>h, <1>11 DEF SwapSlot, goto, TypeConns, ConnsOK, Registered
<1>12. ASSUME NEW c \in Conns, NoHeader(c) PROVE ConnsOK'
  BY <1>h, <1>12 DEF NoHeader, goto, TypeConns, ConnsOK, Registered
<1>13. ASSUME NEW c \in Conns, BadHeader(c) PROVE ConnsOK'
  BY <1>h, <1>13 DEF BadHeader, goto, TypeConns, ConnsOK, Registered
<1>14. ASSUME NEW c \in Conns, NEW s \in Sources, ProxyHeader(c, s) PROVE ConnsOK'
  BY <1>h, <1>14 DEF ProxyHeader, goto, TypeConns, ConnsOK, Registered
<1>15. ASSUME NEW c \in Conns, Register(c) PROVE ConnsOK'
  BY <1>h, <1>15 DEF Register, goto, TypeConns, ConnsOK, Registered
<1>16. ASSUME NEW c \in Conns, Hello(c) PROVE ConnsOK'
  BY <1>h, <1>16 DEF Hello, goto, TypeConns, ConnsOK, Registered
<1>17. ASSUME NEW c \in Conns, RouteHit(c) PROVE ConnsOK'
  BY <1>h, <1>17 DEF RouteHit, goto, forgetRuntime, TypeConns, ConnsOK, Registered
<1>18. ASSUME NEW c \in Conns, RouteMiss(c) PROVE ConnsOK'
  BY <1>h, <1>18 DEF RouteMiss, goto, TypeConns, ConnsOK, Registered
<1>19. ASSUME NEW c \in Conns, RoutePut(c) PROVE ConnsOK'
  BY <1>h, <1>19 DEF RoutePut, goto, forgetRuntime, TypeConns, ConnsOK, Registered
<1>20. ASSUME NEW c \in Conns, Challenge(c) PROVE ConnsOK'
  BY <1>h, <1>20 DEF Challenge, goto, TypeConns, ConnsOK, Registered
<1>21. ASSUME NEW c \in Conns, RecordRule(c) PROVE ConnsOK'
  BY <1>h, <1>21 DEF RecordRule, goto, TypeConns, ConnsOK, Registered
<1>22. ASSUME NEW c \in Conns, Connect(c) PROVE ConnsOK'
  BY <1>h, <1>22 DEF Connect, goto, TypeConns, ConnsOK, Registered
<1>23. ASSUME NEW c \in Conns, SetKill(c) PROVE ConnsOK'
  BY <1>h, <1>23 DEF SetKill, goto, TypeConns, ConnsOK, Registered
<1>24. ASSUME NEW c \in Conns, Recheck(c) PROVE ConnsOK'
  BY <1>h, <1>24 DEF Recheck, goto, TypeConns, ConnsOK, Registered
<1>25. ASSUME NEW c \in Conns, RelayEnds(c) PROVE ConnsOK'
  BY <1>h, <1>25 DEF RelayEnds, goto, TypeConns, ConnsOK, Registered
<1>26. ASSUME NEW c \in Conns, Close(c) PROVE ConnsOK'
  BY <1>h, <1>26 DEF Close, goto, forgetRuntime, TypeConns, ConnsOK, Registered
<1>27. ASSUME NEW k \in Consoles, (\E o \in Operations : Begin(k, o)) \/ MarkRule(k) \/ SwapCache(k) \/ StopPort(k) \/
            StartPort(k) \/ (\E c \in Conns : Scan(k, c)) \/ Done(k)
     PROVE  UNCHANGED conns
  BY <1>27 DEF Begin, MarkRule, SwapCache, StopPort, StartPort, Scan, Done
<1>28. ASSUME NEW k \in Consoles, NEW c \in Conns, StopVictim(k, c) PROVE ConnsOK'
  BY <1>h, <1>28 DEF StopVictim, TypeConns, ConnsOK, Registered
<1>29. ASSUME (\E r \in 1..MaxRuntimes, l \in Listeners : Evict(r, l)) \/ Reload PROVE UNCHANGED conns
  BY <1>29 DEF Evict, Reload
<1> QED
  BY <1>u, <1>1, <1>2, <1>3, <1>4, <1>5, <1>6, <1>7, <1>8, <1>9, <1>10, <1>11, <1>12, <1>13, <1>14, <1>15,
    <1>16, <1>17, <1>18, <1>19, <1>20, <1>21, <1>22, <1>23, <1>24, <1>25, <1>26, <1>27, <1>28, <1>29 DEF Next,
    ConnStep, ConsoleStep

-----------------------------------------------------------------------------
(* The counters *)

\* No step of the console, a reload or another name's entry touches them.
LEMMA CountsUnchanged ==
  ASSUME (\E k \in Consoles : ConsoleStep(k)) \/ (\E r \in 1..MaxRuntimes, l \in Listeners : Evict(r, l)) \/ Reload
  PROVE  UNCHANGED <<counts, pc, lis, src, slot, seen>>
<1>1. ASSUME NEW k \in Consoles, ConsoleStep(k) PROVE UNCHANGED <<counts, pc, lis, src, slot, seen>>
  BY <1>1 DEF ConsoleStep, Begin, MarkRule, SwapCache, StopPort, StartPort, Scan, StopVictim, Done, conns
<1>2. ASSUME (\E r \in 1..MaxRuntimes, l \in Listeners : Evict(r, l)) \/ Reload
     PROVE  UNCHANGED <<counts, pc, lis, src, slot, seen>>
  BY <1>2 DEF Evict, Reload, conns
<1> QED
  BY <1>1, <1>2

\* Stats.Active.
LEMMA ActiveStep ==
  ASSUME TypeConns, active = Cardinality(Counted), Next
  PROVE  active' = Cardinality(Counted')
<1>h. TypeConns /\ active = Cardinality(Counted)
  OBVIOUS
<1>1. ASSUME NEW c \in Conns,
            Accept(c) \/ CountListener(c) \/ RejectListener(c) \/ Admit(c) \/ UncountListener(c) \/
            BeginHandshake(c) \/ HandshakeRefused(c) \/ SwapSlot(c) \/ NoHeader(c) \/ BadHeader(c) \/
            (\E s \in Sources : ProxyHeader(c, s)) \/ Register(c) \/ Hello(c)
     PROVE  UNCHANGED active /\ Counted' = Counted
  BY <1>h, <1>1 DEF Accept, CountListener, RejectListener, Admit, UncountListener, BeginHandshake, HandshakeRefused,
    SwapSlot, NoHeader, BadHeader, ProxyHeader, Register, Hello, goto, counts, Counted, TypeConns
<1>2. ASSUME NEW c \in Conns,
            RouteHit(c) \/ RouteMiss(c) \/ RoutePut(c) \/ Challenge(c) \/ RecordRule(c) \/ Connect(c) \/
            SetKill(c) \/ Recheck(c) \/ RelayEnds(c) \/ Close(c)
     PROVE  UNCHANGED active /\ Counted' = Counted
  BY <1>h, <1>2 DEF RouteHit, RouteMiss, RoutePut, Challenge, RecordRule, Connect, SetKill, Recheck, RelayEnds, Close,
    goto, counts, Counted, TypeConns
<1>3. ASSUME NEW c \in Conns, CountAll(c) PROVE active' = Cardinality(Counted')
  <2>1. Counted' = Counted \cup {c} /\ c \notin Counted /\ Counted \subseteq Conns
    BY <1>h, <1>3 DEF CountAll, goto, Counted, TypeConns
  <2>2. active' = active + 1
    BY <1>3 DEF CountAll
  <2> QED
    BY <1>h, <2>1, <2>2, OneMore
<1>4. ASSUME NEW c \in Conns, Reject(c) \/ UncountAll(c) PROVE active' = Cardinality(Counted')
  <2>1. Counted' = Counted \ {c} /\ c \in Counted /\ Counted \subseteq Conns
    BY <1>h, <1>4 DEF Reject, UncountAll, goto, Counted, TypeConns
  <2>2. active' = active - 1
    BY <1>4 DEF Reject, UncountAll
  <2> QED
    BY <1>h, <2>1, <2>2, OneLess
<1>5. ASSUME UNCHANGED <<counts, pc, lis, src, slot, seen>> PROVE UNCHANGED active /\ Counted' = Counted
  BY <1>5 DEF counts, Counted
<1> QED
  BY <1>h, <1>1, <1>2, <1>3, <1>4, <1>5, CountsUnchanged DEF Next, ConnStep

\* ListenerStats.Active.
LEMMA MineStep ==
  ASSUME TypeConns, mine = [l \in Listeners |-> Cardinality(CountedOn(l))], Next
  PROVE  mine' = [l \in Listeners |-> Cardinality(CountedOn(l)')]
<1>h. TypeConns /\ mine = [l \in Listeners |-> Cardinality(CountedOn(l))]
  OBVIOUS
<1>1. ASSUME NEW c \in Conns,
            Accept(c) \/ CountAll(c) \/ Reject(c) \/ Admit(c) \/ UncountAll(c) \/
            BeginHandshake(c) \/ HandshakeRefused(c) \/ SwapSlot(c) \/ NoHeader(c) \/ BadHeader(c) \/
            (\E s \in Sources : ProxyHeader(c, s)) \/ Register(c) \/ Hello(c)
     PROVE  UNCHANGED mine /\ \A l \in Listeners : CountedOn(l)' = CountedOn(l)
  BY <1>h, <1>1 DEF Accept, CountAll, Reject, Admit, UncountAll, BeginHandshake, HandshakeRefused,
    SwapSlot, NoHeader, BadHeader, ProxyHeader, Register, Hello, goto, counts, CountedOn, TypeConns
<1>2. ASSUME NEW c \in Conns,
            RouteHit(c) \/ RouteMiss(c) \/ RoutePut(c) \/ Challenge(c) \/ RecordRule(c) \/ Connect(c) \/
            SetKill(c) \/ Recheck(c) \/ RelayEnds(c) \/ Close(c)
     PROVE  UNCHANGED mine /\ \A l \in Listeners : CountedOn(l)' = CountedOn(l)
  BY <1>h, <1>2 DEF RouteHit, RouteMiss, RoutePut, Challenge, RecordRule, Connect, SetKill, Recheck, RelayEnds, Close,
    goto, counts, CountedOn, TypeConns
<1>3. ASSUME NEW c \in Conns, CountListener(c) PROVE mine' = [l \in Listeners |-> Cardinality(CountedOn(l)')]
  <2>1. \A l \in Listeners :
          /\ CountedOn(l) \subseteq Conns
          /\ l = lis[c] => CountedOn(l)' = CountedOn(l) \cup {c} /\ c \notin CountedOn(l)
          /\ l # lis[c] => CountedOn(l)' = CountedOn(l)
    BY <1>h, <1>3 DEF CountListener, goto, CountedOn, TypeConns
  <2>2. mine' = [mine EXCEPT ![lis[c]] = @ + 1] /\ lis[c] \in Listeners
    BY <1>h, <1>3 DEF CountListener, TypeConns
  <2>3. \A l \in Listeners : l = lis[c] => Cardinality(CountedOn(l)') = Cardinality(CountedOn(l)) + 1
    BY <2>1, OneMore
  <2> QED
    BY <1>h, <2>1, <2>2, <2>3
<1>4. ASSUME NEW c \in Conns, RejectListener(c) \/ UncountListener(c)
     PROVE  mine' = [l \in Listeners |-> Cardinality(CountedOn(l)')]
  <2>1. \A l \in Listeners :
          /\ CountedOn(l) \subseteq Conns
          /\ l = lis[c] => CountedOn(l)' = CountedOn(l) \ {c} /\ c \in CountedOn(l)
          /\ l # lis[c] => CountedOn(l)' = CountedOn(l)
    BY <1>h, <1>4 DEF RejectListener, UncountListener, goto, CountedOn, TypeConns
  <2>2. mine' = [mine EXCEPT ![lis[c]] = @ - 1] /\ lis[c] \in Listeners
    BY <1>h, <1>4 DEF RejectListener, UncountListener, TypeConns
  <2>3. \A l \in Listeners : l = lis[c] => Cardinality(CountedOn(l)') = Cardinality(CountedOn(l)) - 1
    BY <2>1, OneLess
  <2> QED
    BY <1>h, <2>1, <2>2, <2>3
<1>5. ASSUME UNCHANGED <<counts, pc, lis, src, slot, seen>>
     PROVE  UNCHANGED mine /\ \A l \in Listeners : CountedOn(l)' = CountedOn(l)
  BY <1>5 DEF counts, CountedOn
<1>6. ASSUME UNCHANGED mine /\ \A l \in Listeners : CountedOn(l)' = CountedOn(l)
     PROVE  mine' = [l \in Listeners |-> Cardinality(CountedOn(l)')]
  BY <1>h, <1>6
<1> QED
  BY <1>1, <1>2, <1>3, <1>4, <1>5, <1>6, CountsUnchanged DEF Next, ConnStep

\* sourceCounts: the slots a connection has, and the one it asks for.
HeldAndAsked(s) == Cardinality(Holding(s)) + Cardinality(Asking(s))
SlotsOK == slots = [s \in Sources |-> HeldAndAsked(s)]

LEMMA SlotsStep ==
  ASSUME TypeConns, ConnsOK, SlotsOK, Next
  PROVE  SlotsOK'
<1>h. TypeConns /\ ConnsOK /\ SlotsOK
  OBVIOUS
<1>n. None \notin Sources
  BY ServerAssumption
<1>t. \A s \in Sources : Holding(s) \subseteq Conns /\ Asking(s) \subseteq Conns
                         /\ Cardinality(Holding(s)) \in Nat /\ Cardinality(Asking(s)) \in Nat
  BY Fewer DEF Holding, Asking
<1>k. \A s \in Sources : HeldAndAsked(s) \in Nat
  BY <1>t DEF HeldAndAsked
<1>u. ASSUME UNCHANGED slots, \A s \in Sources : Holding(s)' = Holding(s) /\ Asking(s)' = Asking(s)
     PROVE  SlotsOK'
  BY <1>h, <1>u DEF SlotsOK, HeldAndAsked
<1>1. ASSUME NEW c \in Conns,
            Accept(c) \/ CountAll(c) \/ CountListener(c) \/ Reject(c) \/ RejectListener(c) \/ Admit(c) \/
            UncountListener(c) \/ UncountAll(c) \/ NoHeader(c) \/ BadHeader(c) \/ Register(c)
     PROVE  UNCHANGED slots /\ \A s \in Sources : Holding(s)' = Holding(s) /\ Asking(s)' = Asking(s)
  BY <1>h, <1>1 DEF Accept, CountAll, CountListener, Reject, RejectListener, Admit, UncountListener, UncountAll,
    NoHeader, BadHeader, Register, goto, counts, Holding, Asking, TypeConns
<1>2. ASSUME NEW c \in Conns,
            RouteHit(c) \/ RouteMiss(c) \/ RoutePut(c) \/ Challenge(c) \/ RecordRule(c) \/ Connect(c) \/
            SetKill(c) \/ Recheck(c) \/ RelayEnds(c)
     PROVE  UNCHANGED slots /\ \A s \in Sources : Holding(s)' = Holding(s) /\ Asking(s)' = Asking(s)
  BY <1>h, <1>2 DEF RouteHit, RouteMiss, RoutePut, Challenge, RecordRule, Connect, SetKill, Recheck, RelayEnds,
    goto, counts, Holding, Asking, TypeConns
<1>3. ASSUME NEW c \in Conns, BeginHandshake(c) PROVE SlotsOK'
  <2>1. slots' = [slots EXCEPT ![src[c]] = @ + 1] /\ src[c] \in Sources /\ slot[c] = None /\ pc[c] = "slot"
    BY <1>h, <1>3 DEF BeginHandshake, TypeConns, ConnsOK
  <2>2. CASE fitsHandshake(slots'[src[c]])
    <3>1. \A s \in Sources :
            /\ Asking(s)' = Asking(s)
            /\ s = src[c] => Holding(s)' = Holding(s) \cup {c} /\ c \notin Holding(s)
            /\ s # src[c] => Holding(s)' = Holding(s)
      BY <1>h, <1>n, <1>3, <2>1, <2>2 DEF BeginHandshake, goto, TypeConns, Holding, Asking
    <3>2. \A s \in Sources : s = src[c] => Cardinality(Holding(s)') = Cardinality(Holding(s)) + 1
      BY <1>t, <3>1, OneMore
    <3>3. \A s \in Sources : HeldAndAsked(s)' = HeldAndAsked(s) + (IF s = src[c] THEN 1 ELSE 0)
      BY <1>t, <3>1, <3>2 DEF HeldAndAsked
    <3> QED
      BY <1>h, <1>k, <2>1, <3>3 DEF SlotsOK
  <2>3. CASE ~ fitsHandshake(slots'[src[c]])
    <3>1. \A s \in Sources :
            /\ Holding(s)' = Holding(s)
            /\ s = src[c] => Asking(s)' = Asking(s) \cup {c} /\ c \notin Asking(s)
            /\ s # src[c] => Asking(s)' = Asking(s)
      BY <1>h, <1>3, <2>1, <2>3 DEF BeginHandshake, goto, TypeConns, Holding, Asking
    <3>2. \A s \in Sources : s = src[c] => Cardinality(Asking(s)') = Cardinality(Asking(s)) + 1
      BY <1>t, <3>1, OneMore
    <3>3. \A s \in Sources : HeldAndAsked(s)' = HeldAndAsked(s) + (IF s = src[c] THEN 1 ELSE 0)
      BY <1>t, <3>1, <3>2 DEF HeldAndAsked
    <3> QED
      BY <1>h, <1>k, <2>1, <3>3 DEF SlotsOK
  <2> QED
    BY <2>2, <2>3
<1>4. ASSUME NEW c \in Conns, HandshakeRefused(c) PROVE SlotsOK'
  <2>1. slots' = [slots EXCEPT ![src[c]] = @ - 1] /\ src[c] \in Sources
    BY <1>h, <1>4 DEF HandshakeRefused, TypeConns
  <2>2. \A s \in Sources :
          /\ Holding(s)' = Holding(s)
          /\ s = src[c] => Asking(s)' = Asking(s) \ {c} /\ c \in Asking(s)
          /\ s # src[c] => Asking(s)' = Asking(s)
    BY <1>h, <1>4, <2>1 DEF HandshakeRefused, goto, TypeConns, Holding, Asking
  <2>3. \A s \in Sources : s = src[c] => Cardinality(Asking(s)') = Cardinality(Asking(s)) - 1
    BY <1>t, <2>2, OneLess
  <2>4. \A s \in Sources : HeldAndAsked(s)' = HeldAndAsked(s) - (IF s = src[c] THEN 1 ELSE 0)
    BY <1>t, <2>2, <2>3 DEF HeldAndAsked
  <2> QED
    BY <1>h, <1>k, <2>1, <2>4 DEF SlotsOK
<1>5. ASSUME NEW c \in Conns, NEW s \in Sources, ProxyHeader(c, s) PROVE SlotsOK'
  <2>1. slots' = [slots EXCEPT ![s] = @ + 1] /\ UNCHANGED slot /\ pc[c] = "header" /\ src' = [src EXCEPT ![c] = s]
        /\ \E l \in {"swap", "noslot"} : pc' = [pc EXCEPT ![c] = l]
    BY <1>5 DEF ProxyHeader, goto
  <2>2. \A t \in Sources :
          /\ Holding(t)' = Holding(t)
          /\ t = s => Asking(t)' = Asking(t) \cup {c} /\ c \notin Asking(t)
          /\ t # s => Asking(t)' = Asking(t)
    BY <1>h, <2>1 DEF TypeConns, Holding, Asking
  <2>3. \A t \in Sources : t = s => Cardinality(Asking(t)') = Cardinality(Asking(t)) + 1
    BY <1>t, <2>2, OneMore
  <2>4. \A t \in Sources : HeldAndAsked(t)' = HeldAndAsked(t) + (IF t = s THEN 1 ELSE 0)
    BY <1>t, <2>2, <2>3 DEF HeldAndAsked
  <2> QED
    BY <1>h, <1>k, <2>1, <2>4 DEF SlotsOK
<1>6. ASSUME NEW c \in Conns, SwapSlot(c) PROVE SlotsOK'
  <2>1. slots' = [slots EXCEPT ![slot[c]] = @ - 1] /\ slot[c] \in Sources /\ src[c] \in Sources /\ UNCHANGED src
        /\ pc[c] = "swap" /\ pc' = [pc EXCEPT ![c] = "register"] /\ slot' = [slot EXCEPT ![c] = src[c]]
    BY <1>h, <1>6 DEF SwapSlot, goto, TypeConns, ConnsOK
  <2>2. \A t \in Sources :
          /\ t = src[c] => Asking(t)' = Asking(t) \ {c} /\ c \in Asking(t)
          /\ t # src[c] => Asking(t)' = Asking(t)
    BY <1>h, <2>1 DEF TypeConns, Asking
  <2>3. \A t \in Sources :
          /\ t = src[c] /\ t # slot[c] => Holding(t)' = Holding(t) \cup {c} /\ c \notin Holding(t)
          /\ t # src[c] /\ t = slot[c] => Holding(t)' = Holding(t) \ {c} /\ c \in Holding(t)
          /\ (t = src[c] <=> t = slot[c]) => Holding(t)' = Holding(t)
    BY <1>h, <2>1 DEF TypeConns, Holding
  <2>4. \A t \in Sources :
          Cardinality(Asking(t)') = IF t = src[c] THEN Cardinality(Asking(t)) - 1 ELSE Cardinality(Asking(t))
    BY <1>t, <2>2, OneLess
  <2>5. \A t \in Sources : t = src[c] /\ t # slot[c] => Cardinality(Holding(t)') = Cardinality(Holding(t)) + 1
    BY <1>t, <2>3, OneMore
  <2>6. \A t \in Sources : t # src[c] /\ t = slot[c] => Cardinality(Holding(t)') = Cardinality(Holding(t)) - 1
    BY <1>t, <2>3, OneLess
  <2>7. \A t \in Sources : HeldAndAsked(t)' = HeldAndAsked(t) - (IF t = slot[c] THEN 1 ELSE 0)
    BY <1>t, <2>3, <2>4, <2>5, <2>6 DEF HeldAndAsked
  <2> QED
    BY <1>h, <1>k, <2>1, <2>7 DEF SlotsOK
<1>7. ASSUME NEW c \in Conns, Hello(c) \/ Close(c), slot[c] \in Sources PROVE SlotsOK'
  <2>1. slots' = [slots EXCEPT ![slot[c]] = @ - 1] /\ slot' = [slot EXCEPT ![c] = None] /\ UNCHANGED src
        /\ pc[c] \in {"hello", "close"} /\ \E l \in {"route", "close", "uncount"} : pc' = [pc EXCEPT ![c] = l]
    BY <1>n, <1>7 DEF Hello, Close, goto
  <2>2. \A t \in Sources :
          /\ Asking(t)' = Asking(t)
          /\ t = slot[c] => Holding(t)' = Holding(t) \ {c} /\ c \in Holding(t)
          /\ t # slot[c] => Holding(t)' = Holding(t)
    BY <1>h, <1>n, <2>1 DEF TypeConns, Holding, Asking
  <2>3. \A t \in Sources : t = slot[c] => Cardinality(Holding(t)') = Cardinality(Holding(t)) - 1
    BY <1>t, <2>2, OneLess
  <2>4. \A t \in Sources : HeldAndAsked(t)' = HeldAndAsked(t) - (IF t = slot[c] THEN 1 ELSE 0)
    BY <1>t, <2>2, <2>3 DEF HeldAndAsked
  <2> QED
    BY <1>h, <1>k, <1>7, <2>1, <2>4 DEF SlotsOK
<1>8. ASSUME NEW c \in Conns, Close(c), slot[c] = None
     PROVE  UNCHANGED slots /\ \A s \in Sources : Holding(s)' = Holding(s) /\ Asking(s)' = Asking(s)
  BY <1>h, <1>n, <1>8 DEF Close, goto, Holding, Asking, TypeConns
<1>9. ASSUME NEW c \in Conns, Hello(c) \/ Close(c) PROVE SlotsOK'
  <2>1. slot[c] \in Sources \/ (slot[c] = None /\ Close(c))
    BY <1>h, <1>9 DEF Hello, TypeConns, ConnsOK
  <2> QED
    BY <1>u, <1>7, <1>8, <1>9, <2>1
<1>10. ASSUME UNCHANGED <<counts, pc, lis, src, slot, seen>>
     PROVE  UNCHANGED slots /\ \A s \in Sources : Holding(s)' = Holding(s) /\ Asking(s)' = Asking(s)
  BY <1>10 DEF counts, Holding, Asking
<1> QED
  BY <1>u, <1>1, <1>2, <1>3, <1>4, <1>5, <1>6, <1>9, <1>10, CountsUnchanged DEF Next, ConnStep

LEMMA CountsStep ==
  ASSUME TypeConns, ConnsOK, CountsOK, Next
  PROVE  CountsOK'
<1>1. SlotsOK'
  BY SlotsStep DEF CountsOK, SlotsOK, HeldAndAsked
<1> QED
  BY <1>1, ActiveStep, MineStep DEF CountsOK, SlotsOK, HeldAndAsked

-----------------------------------------------------------------------------
(* The limits *)

\* What is a part of two sets is no larger than both together.
LEMMA InBoth ==
  ASSUME NEW A \in SUBSET Conns, NEW B \in SUBSET Conns, NEW S \in SUBSET (A \cup B)
  PROVE  Cardinality(S) <= Cardinality(A) + Cardinality(B) /\ Cardinality(S) \in Nat
<1>1. IsFiniteSet(A) /\ IsFiniteSet(B) /\ IsFiniteSet(A \cup B) /\ IsFiniteSet(A \cap B)
  BY FS_Subset, ServerAssumption
<1>2. Cardinality(A \cup B) = Cardinality(A) + Cardinality(B) - Cardinality(A \cap B)
  BY <1>1, FS_Union
<1>3. Cardinality(A \cap B) \in Nat /\ Cardinality(A) \in Nat /\ Cardinality(B) \in Nat /\ Cardinality(A \cup B) \in Nat
  BY <1>1, FS_CardinalityType
<1>4. Cardinality(S) <= Cardinality(A \cup B) /\ Cardinality(S) \in Nat
  BY <1>1, FS_Subset, FS_CardinalityType
<1> QED
  BY <1>2, <1>3, <1>4

\* max_connections: the counts Add gives back are all different.
LEMMA GrantedStep ==
  ASSUME TypeConns, CountsOK, CountsOK', Cardinality(Granted) <= MaxConnections, Next
  PROVE  Cardinality(Granted') <= MaxConnections
<1>h. TypeConns /\ Cardinality(Granted) <= MaxConnections /\ MaxConnections \in Nat /\ Granted \subseteq Conns
  BY ServerAssumption DEF Granted
<1>u. ASSUME Granted' \subseteq Granted PROVE Cardinality(Granted') <= MaxConnections
  BY <1>h, <1>u, Fewer
<1>1. ASSUME NEW c \in Conns,
            Accept(c) \/ CountListener(c) \/ Reject(c) \/ RejectListener(c) \/ Admit(c) \/
            UncountListener(c) \/ UncountAll(c) \/ BeginHandshake(c) \/ HandshakeRefused(c) \/ SwapSlot(c) \/
            NoHeader(c) \/ BadHeader(c) \/ (\E s \in Sources : ProxyHeader(c, s)) \/ Register(c) \/ Hello(c)
     PROVE  Granted' \subseteq Granted
  BY <1>h, <1>1 DEF Accept, CountListener, Reject, RejectListener, Admit, UncountListener, UncountAll,
    BeginHandshake, HandshakeRefused, SwapSlot, NoHeader, BadHeader, ProxyHeader, Register, Hello,
    goto, forgetCounts, tooMany, Granted, Admitted, TypeConns
<1>2. ASSUME NEW c \in Conns,
            RouteHit(c) \/ RouteMiss(c) \/ RoutePut(c) \/ Challenge(c) \/ RecordRule(c) \/ Connect(c) \/
            SetKill(c) \/ Recheck(c) \/ RelayEnds(c) \/ Close(c)
     PROVE  Granted' \subseteq Granted
  BY <1>h, <1>2 DEF RouteHit, RouteMiss, RoutePut, Challenge, RecordRule, Connect, SetKill, Recheck, RelayEnds, Close,
    goto, Granted, Admitted, TypeConns
<1>3. ASSUME NEW c \in Conns, CountAll(c) PROVE Cardinality(Granted') <= MaxConnections
  <2>1. /\ pc[c] = "count" /\ pc' = [pc EXCEPT ![c] = "countmine"]
        /\ active' = active + 1 /\ seen' = [seen EXCEPT ![c] = <<active + 1, @[2]>>]
    BY <1>3 DEF CountAll, goto
  <2>2. active' = Cardinality(Counted') /\ active \in Nat
    BY CountsType DEF CountsOK, TypeCounts
  <2>3. CASE active + 1 <= MaxConnections
    <3>1. Granted' \subseteq Counted' /\ Counted' \subseteq Conns
      BY DEF Granted, Admitted, Counted
    <3>2. Cardinality(Granted') <= Cardinality(Counted') /\ Cardinality(Granted') \in Nat
      BY <3>1, Fewer
    <3> QED
      BY <1>h, <2>1, <2>2, <2>3, <3>2
  <2>4. CASE ~ (active + 1 <= MaxConnections)
    <3>1. seen'[c][1] = active + 1 /\ \A d \in Conns \ {c} : seen'[d] = seen[d] /\ pc'[d] = pc[d]
      BY <1>h, <2>1 DEF TypeConns
    <3>2. pc'[c] = "countmine"
      BY <1>h, <2>1 DEF TypeConns
    <3> QED
      BY <1>u, <2>4, <3>1, <3>2 DEF Granted, Admitted
  <2> QED
    BY <2>3, <2>4
<1>4. ASSUME UNCHANGED <<counts, pc, lis, src, slot, seen>> PROVE Granted' \subseteq Granted
  BY <1>4 DEF Granted, Admitted
<1> QED
  BY <1>u, <1>1, <1>2, <1>3, <1>4, CountsUnchanged DEF Next, ConnStep

\* A listener's own limit.
OnListeners == \A l \in Listeners : ListenerMax[l] > 0 => Cardinality(GrantedOn(l)) <= ListenerMax[l]

LEMMA GrantedOnStep ==
  ASSUME TypeConns, CountsOK, CountsOK', OnListeners, Next
  PROVE  OnListeners'
<1>h. TypeConns /\ OnListeners /\ \A l \in Listeners : ListenerMax[l] \in Nat /\ GrantedOn(l) \subseteq Conns
  BY ServerAssumption DEF GrantedOn
<1>u. ASSUME \A l \in Listeners : ListenerMax[l] > 0 => GrantedOn(l)' \subseteq GrantedOn(l) PROVE OnListeners'
  <2>1. \A l \in Listeners : ListenerMax[l] > 0 =>
          /\ Cardinality(GrantedOn(l)') <= Cardinality(GrantedOn(l))
          /\ Cardinality(GrantedOn(l)') \in Nat /\ Cardinality(GrantedOn(l)) \in Nat
    BY <1>h, <1>u, Fewer
  <2> QED
    BY <1>h, <2>1 DEF OnListeners
<1>1. ASSUME NEW c \in Conns,
            Accept(c) \/ CountAll(c) \/ Reject(c) \/ RejectListener(c) \/ Admit(c) \/
            UncountListener(c) \/ UncountAll(c) \/ BeginHandshake(c) \/ HandshakeRefused(c) \/ SwapSlot(c) \/
            NoHeader(c) \/ BadHeader(c) \/ (\E s \in Sources : ProxyHeader(c, s)) \/ Register(c) \/ Hello(c)
     PROVE  \A l \in Listeners : ListenerMax[l] > 0 => GrantedOn(l)' \subseteq GrantedOn(l)
  BY <1>h, <1>1 DEF Accept, CountAll, Reject, RejectListener, Admit, UncountListener, UncountAll,
    BeginHandshake, HandshakeRefused, SwapSlot, NoHeader, BadHeader, ProxyHeader, Register, Hello,
    goto, forgetCounts, tooMany, GrantedOn, Admitted, TypeConns
<1>2. ASSUME NEW c \in Conns,
            RouteHit(c) \/ RouteMiss(c) \/ RoutePut(c) \/ Challenge(c) \/ RecordRule(c) \/ Connect(c) \/
            SetKill(c) \/ Recheck(c) \/ RelayEnds(c) \/ Close(c)
     PROVE  \A l \in Listeners : ListenerMax[l] > 0 => GrantedOn(l)' \subseteq GrantedOn(l)
  BY <1>h, <1>2 DEF RouteHit, RouteMiss, RoutePut, Challenge, RecordRule, Connect, SetKill, Recheck, RelayEnds, Close,
    goto, GrantedOn, Admitted, TypeConns
<1>3. ASSUME NEW c \in Conns, CountListener(c) PROVE OnListeners'
  <2>1. /\ pc[c] = "countmine" /\ pc' = [pc EXCEPT ![c] = "admit"] /\ lis[c] \in Listeners /\ UNCHANGED lis
        /\ mine' = [mine EXCEPT ![lis[c]] = @ + 1] /\ seen' = [seen EXCEPT ![c] = <<@[1], mine[lis[c]] + 1>>]
    BY <1>h, <1>3 DEF CountListener, goto, TypeConns
  <2>2. (\A l \in Listeners : mine'[l] = Cardinality(CountedOn(l)')) /\ mine \in [Listeners -> Nat]
    BY CountsType DEF CountsOK, TypeCounts
  <2>3. /\ seen'[c][2] = mine[lis[c]] + 1 /\ pc'[c] = "admit"
        /\ \A d \in Conns \ {c} : seen'[d] = seen[d] /\ pc'[d] = pc[d]
    BY <1>h, <2>1 DEF TypeConns
  <2>4. ASSUME NEW l \in Listeners, ListenerMax[l] > 0 PROVE Cardinality(GrantedOn(l)') <= ListenerMax[l]
    <3>1. CASE l = lis[c] /\ mine[l] + 1 <= ListenerMax[l]
      <4>1. GrantedOn(l)' \subseteq CountedOn(l)' /\ CountedOn(l)' \subseteq Conns
        BY DEF GrantedOn, Admitted, CountedOn
      <4>2. Cardinality(GrantedOn(l)') <= Cardinality(CountedOn(l)') /\ Cardinality(GrantedOn(l)') \in Nat
        BY <4>1, Fewer
      <4>3. Cardinality(CountedOn(l)') = mine[l] + 1 /\ mine[l] \in Nat
        BY <2>1, <2>2, <3>1
      <4> QED
        BY <1>h, <3>1, <4>2, <4>3
    <3>2. CASE ~ (l = lis[c] /\ mine[l] + 1 <= ListenerMax[l])
      <4>1. GrantedOn(l)' \subseteq GrantedOn(l)
        BY <2>1, <2>3, <3>2 DEF GrantedOn, Admitted
      <4>2. Cardinality(GrantedOn(l)') <= Cardinality(GrantedOn(l))
            /\ Cardinality(GrantedOn(l)') \in Nat /\ Cardinality(GrantedOn(l)) \in Nat
        BY <1>h, <4>1, Fewer
      <4> QED
        BY <1>h, <2>4, <4>2 DEF OnListeners
    <3> QED
      BY <3>1, <3>2
  <2> QED
    BY <2>4 DEF OnListeners
<1>4. ASSUME UNCHANGED <<counts, pc, lis, src, slot, seen>> PROVE \A l \in Listeners : GrantedOn(l)' \subseteq GrantedOn(l)
  BY <1>4 DEF GrantedOn, Admitted
<1> QED
  BY <1>u, <1>1, <1>2, <1>3, <1>4, CountsUnchanged DEF Next, ConnStep

\* max_handshakes_per_ip, for the address of a socket and of a PROXY header.
OnSources == MaxHandshakes > 0 => \A s \in Sources : Cardinality(GrantedSlot(s)) <= MaxHandshakes

LEMMA GrantedSlotStep ==
  ASSUME TypeConns, ConnsOK, CountsOK', OnSources, Next
  PROVE  OnSources'
<1>h. TypeConns /\ ConnsOK /\ OnSources /\ MaxHandshakes \in Nat /\ \A s \in Sources : GrantedSlot(s) \subseteq Conns
  BY ServerAssumption DEF GrantedSlot
<1>n. None \notin Sources
  BY ServerAssumption
<1>u. ASSUME \A s \in Sources : GrantedSlot(s)' \subseteq GrantedSlot(s) PROVE OnSources'
  <2>1. \A s \in Sources : /\ Cardinality(GrantedSlot(s)') <= Cardinality(GrantedSlot(s))
                           /\ Cardinality(GrantedSlot(s)') \in Nat /\ Cardinality(GrantedSlot(s)) \in Nat
    BY <1>h, <1>u, Fewer
  <2> QED
    BY <1>h, <2>1 DEF OnSources
<1>a. ASSUME NEW s \in Sources, slots'[s] <= MaxHandshakes PROVE Cardinality(GrantedSlot(s)') <= MaxHandshakes
  <2>1. GrantedSlot(s)' \subseteq Holding(s)' \cup Asking(s)' /\ Holding(s)' \subseteq Conns /\ Asking(s)' \subseteq Conns
    BY DEF GrantedSlot, Holding, Asking
  <2>2. Cardinality(GrantedSlot(s)') <= Cardinality(Holding(s)') + Cardinality(Asking(s)')
        /\ Cardinality(GrantedSlot(s)') \in Nat
    BY <2>1, InBoth
  <2>3. slots'[s] = Cardinality(Holding(s)') + Cardinality(Asking(s)')
    BY DEF CountsOK
  <2>4. Cardinality(Holding(s)') \in Nat /\ Cardinality(Asking(s)') \in Nat
    BY <2>1, Fewer
  <2> QED
    BY <1>h, <1>a, <2>2, <2>3, <2>4
<1>g. ASSUME NEW s \in Sources, \A t \in Sources : t # s => GrantedSlot(t)' \subseteq GrantedSlot(t),
             MaxHandshakes > 0 => slots'[s] <= MaxHandshakes
      PROVE  OnSources'
  <2>1. ASSUME NEW t \in Sources, t # s, MaxHandshakes > 0 PROVE Cardinality(GrantedSlot(t)') <= MaxHandshakes
    <3>1. /\ Cardinality(GrantedSlot(t)') <= Cardinality(GrantedSlot(t))
          /\ Cardinality(GrantedSlot(t)') \in Nat /\ Cardinality(GrantedSlot(t)) \in Nat
      BY <1>h, <1>g, <2>1, Fewer
    <3> QED
      BY <1>h, <2>1, <3>1 DEF OnSources
  <2> QED
    BY <1>a, <1>g, <2>1 DEF OnSources
<1>1. ASSUME NEW c \in Conns,
            Accept(c) \/ CountAll(c) \/ CountListener(c) \/ Reject(c) \/ RejectListener(c) \/ Admit(c) \/
            UncountListener(c) \/ UncountAll(c) \/ HandshakeRefused(c) \/ SwapSlot(c) \/ NoHeader(c) \/ BadHeader(c) \/
            Register(c)
     PROVE  \A s \in Sources : GrantedSlot(s)' \subseteq GrantedSlot(s)
  BY <1>h, <1>1 DEF Accept, CountAll, CountListener, Reject, RejectListener, Admit, UncountListener, UncountAll,
    HandshakeRefused, SwapSlot, NoHeader, BadHeader, Register, goto, GrantedSlot, TypeConns
<1>2. ASSUME NEW c \in Conns,
            RouteHit(c) \/ RouteMiss(c) \/ RoutePut(c) \/ Challenge(c) \/ RecordRule(c) \/ Connect(c) \/
            SetKill(c) \/ Recheck(c) \/ RelayEnds(c)
     PROVE  \A s \in Sources : GrantedSlot(s)' \subseteq GrantedSlot(s)
  BY <1>h, <1>2 DEF RouteHit, RouteMiss, RoutePut, Challenge, RecordRule, Connect, SetKill, Recheck, RelayEnds,
    goto, GrantedSlot, TypeConns
<1>3. ASSUME NEW c \in Conns, Hello(c) \/ Close(c) PROVE \A s \in Sources : GrantedSlot(s)' \subseteq GrantedSlot(s)
  BY <1>h, <1>n, <1>3 DEF Hello, Close, goto, GrantedSlot, TypeConns
<1>4. ASSUME NEW c \in Conns, BeginHandshake(c) PROVE OnSources'
  <2>1. CASE fitsHandshake(slots'[src[c]])
    <3>1. src[c] \in Sources /\ \A t \in Sources : t # src[c] => GrantedSlot(t)' \subseteq GrantedSlot(t)
      BY <1>h, <1>4, <2>1 DEF BeginHandshake, goto, GrantedSlot, TypeConns
    <3>2. MaxHandshakes > 0 => slots'[src[c]] <= MaxHandshakes
      BY <2>1 DEF fitsHandshake
    <3> QED
      BY <1>g, <3>1, <3>2
  <2>2. CASE ~ fitsHandshake(slots'[src[c]])
    BY <1>h, <1>u, <1>4, <2>2 DEF BeginHandshake, goto, GrantedSlot, TypeConns
  <2> QED
    BY <2>1, <2>2
<1>5. ASSUME NEW c \in Conns, NEW s \in Sources, ProxyHeader(c, s) PROVE OnSources'
  <2>1. CASE fitsHandshake(slots'[s])
    <3>1. \A t \in Sources : t # s => GrantedSlot(t)' \subseteq GrantedSlot(t)
      BY <1>h, <1>5, <2>1 DEF ProxyHeader, goto, GrantedSlot, TypeConns
    <3>2. MaxHandshakes > 0 => slots'[s] <= MaxHandshakes
      BY <2>1 DEF fitsHandshake
    <3> QED
      BY <1>g, <3>1, <3>2
  <2>2. CASE ~ fitsHandshake(slots'[s])
    BY <1>h, <1>u, <1>5, <2>2 DEF ProxyHeader, goto, GrantedSlot, TypeConns
  <2> QED
    BY <2>1, <2>2
<1>6. ASSUME UNCHANGED <<counts, pc, lis, src, slot, seen>> PROVE \A s \in Sources : GrantedSlot(s)' \subseteq GrantedSlot(s)
  BY <1>6 DEF GrantedSlot
<1> QED
  BY <1>u, <1>1, <1>2, <1>3, <1>4, <1>5, <1>6, CountsUnchanged DEF Next, ConnStep

LEMMA LimitsStep ==
  ASSUME TypeConns, ConnsOK, CountsOK, CountsOK', LimitsOK, Next
  PROVE  LimitsOK'
BY GrantedStep, GrantedOnStep, GrantedSlotStep DEF LimitsOK, OnListeners, OnSources

-----------------------------------------------------------------------------
(* Stopped rules *)

LEMMA StopsStep ==
  ASSUME TypeConns, TypeConsoles, Locals, StopsOK, Next
  PROVE  StopsOK'
<1>h. TypeConns /\ TypeConsoles /\ ConnsOK /\ ConsolesOK /\ StopsOK
  BY DEF Locals
<1>u. ASSUME UNCHANGED <<stopped, op, opc, left, victims>>,
             \A d \in Conns : pc'[d] = "relay" => pc[d] = "relay" /\ key'[d] = key[d] /\ (d \in killed => d \in killed')
      PROVE  StopsOK'
  <2>1. SUFFICES ASSUME NEW d \in Conns, pc'[d] = "relay", key'[d] \in stopped'
                 PROVE  d \in killed' \/ \E k \in Consoles : WillStop(k, d)'
    BY DEF StopsOK
  <2>2. pc[d] = "relay" /\ key'[d] = key[d] /\ key[d] \in stopped /\ (d \in killed => d \in killed')
    BY <1>u, <2>1
  <2>3. d \in killed \/ \E k \in Consoles : WillStop(k, d)
    BY <1>h, <2>2 DEF StopsOK
  <2>4. \A k \in Consoles : WillStop(k, d) => WillStop(k, d)'
    BY <1>u, <2>2 DEF WillStop
  <2> QED
    BY <2>2, <2>3, <2>4
<1>1. ASSUME NEW c \in Conns,
            Accept(c) \/ CountAll(c) \/ CountListener(c) \/ Reject(c) \/ RejectListener(c) \/ Admit(c) \/
            UncountListener(c) \/ UncountAll(c) \/ BeginHandshake(c) \/ HandshakeRefused(c) \/ SwapSlot(c) \/
            NoHeader(c) \/ BadHeader(c) \/ (\E s \in Sources : ProxyHeader(c, s)) \/ Register(c) \/ Hello(c)
     PROVE  StopsOK'
  <2>1. UNCHANGED <<stopped, key, killed, op, opc, left, victims>>
    BY <1>1 DEF Accept, CountAll, CountListener, Reject, RejectListener, Admit, UncountListener, UncountAll,
      BeginHandshake, HandshakeRefused, SwapSlot, NoHeader, BadHeader, ProxyHeader, Register, Hello, routing, consoles
  <2>2. \A d \in Conns : pc'[d] = "relay" => pc[d] = "relay"
    BY <1>h, <1>1 DEF Accept, CountAll, CountListener, Reject, RejectListener, Admit, UncountListener, UncountAll,
      BeginHandshake, HandshakeRefused, SwapSlot, NoHeader, BadHeader, ProxyHeader, Register, Hello, goto, TypeConns
  <2> QED
    BY <1>u, <2>1, <2>2
<1>2. ASSUME NEW c \in Conns,
            RouteHit(c) \/ RouteMiss(c) \/ RoutePut(c) \/ Challenge(c) \/ RecordRule(c) \/ Connect(c) \/
            SetKill(c) \/ RelayEnds(c) \/ Close(c)
     PROVE  StopsOK'
  <2>1. UNCHANGED <<stopped, op, opc, left, victims>>
    BY <1>2 DEF RouteHit, RouteMiss, RoutePut, Challenge, RecordRule, Connect, SetKill, RelayEnds, Close, routing, consoles
  <2>2. \A d \in Conns : pc'[d] = "relay" => d # c /\ pc[d] = "relay"
    BY <1>h, <1>2 DEF RouteHit, RouteMiss, RoutePut, Challenge, RecordRule, Connect, SetKill, RelayEnds, Close, goto, TypeConns
  <2>3. \A d \in Conns : d # c => key'[d] = key[d] /\ (d \in killed => d \in killed')
    BY <1>h, <1>2 DEF RouteHit, RouteMiss, RoutePut, Challenge, RecordRule, Connect, SetKill, RelayEnds, Close, TypeConns
  <2> QED
    BY <1>u, <2>1, <2>2, <2>3
<1>3. ASSUME NEW c \in Conns, Recheck(c) PROVE StopsOK'
  <2>1. UNCHANGED <<stopped, key, op, opc, left, victims>> /\ killed \subseteq killed'
    BY <1>3 DEF Recheck, routing, consoles
  <2>2. \A d \in Conns : pc'[d] = "relay" => d = c \/ pc[d] = "relay"
    BY <1>h, <1>3 DEF Recheck, goto, TypeConns
  <2>3. key[c] \in stopped => c \in killed'
    BY <1>3 DEF Recheck
  <2> QED
    BY <1>h, <2>1, <2>2, <2>3 DEF StopsOK, WillStop
<1>4. ASSUME NEW k \in Consoles, NEW o \in Operations, Begin(k, o) PROVE StopsOK'
  <2>1. UNCHANGED <<stopped, pc, key, killed>>
    BY <1>4 DEF Begin, routing, conns
  <2>2. \A d \in Conns, j \in Consoles : WillStop(j, d) => WillStop(j, d)'
    BY <1>h, <1>4 DEF Begin, opgoto, WillStop, TypeConsoles, conns
  <2> QED
    BY <1>h, <2>1, <2>2 DEF StopsOK
<1>5. ASSUME NEW k \in Consoles, MarkRule(k) PROVE StopsOK'
  <2>1. UNCHANGED <<pc, key, killed, op>> /\ opc' = [opc EXCEPT ![k] = "swap"] /\ opc[k] = "mark"
    BY <1>5 DEF MarkRule, opgoto, conns
  <2>2. \A d \in Conns, j \in Consoles : WillStop(j, d) => WillStop(j, d)'
    BY <1>h, <1>5 DEF MarkRule, opgoto, WillStop, TypeConsoles, conns
  <2>3. \A d \in Conns : key[d] \in stopped' => key[d] \in stopped \/ WillStop(k, d)'
    BY <1>h, <1>5 DEF MarkRule, opgoto, WillStop, TypeConsoles, conns
  <2> QED
    BY <1>h, <2>1, <2>2, <2>3 DEF StopsOK
<1>6. ASSUME NEW k \in Consoles, SwapCache(k) PROVE StopsOK'
  <2>1. UNCHANGED <<stopped, pc, key, killed>>
    BY <1>6 DEF SwapCache, conns
  <2>2. \A d \in Conns, j \in Consoles : WillStop(j, d) => WillStop(j, d)'
    BY <1>h, <1>6 DEF SwapCache, opgoto, WillStop, TypeConsoles, conns
  <2> QED
    BY <1>h, <2>1, <2>2 DEF StopsOK
<1>7. ASSUME NEW k \in Consoles, StopPort(k) \/ StartPort(k) PROVE StopsOK'
  <2>1. UNCHANGED <<stopped, pc, key, killed>>
    BY <1>7 DEF StopPort, StartPort, routing, conns
  <2>2. \A d \in Conns, j \in Consoles : WillStop(j, d) => WillStop(j, d)'
    BY <1>h, <1>7 DEF StopPort, StartPort, opgoto, WillStop, TypeConsoles, conns
  <2> QED
    BY <1>h, <2>1, <2>2 DEF StopsOK
<1>8. ASSUME NEW k \in Consoles, NEW c \in Conns, Scan(k, c) PROVE StopsOK'
  <2>1. UNCHANGED <<stopped, pc, key, killed>>
    BY <1>8 DEF Scan, routing, conns
  <2>2. \A d \in Conns, j \in Consoles : pc[d] = "relay" /\ WillStop(j, d) => WillStop(j, d)'
    <3>1. pc[c] = "relay" => c \in registered
      BY <1>h DEF ConnsOK, Registered
    <3> QED
      BY <1>h, <1>8, <3>1 DEF Scan, isVictim, WillStop, TypeConsoles, conns
  <2> QED
    BY <1>h, <2>1, <2>2 DEF StopsOK
<1>9. ASSUME NEW k \in Consoles, NEW c \in Conns, StopVictim(k, c) PROVE StopsOK'
  <2>1. UNCHANGED <<stopped, pc, key, op, opc, left>> /\ killed \subseteq killed' /\ victims' = [victims EXCEPT ![k] = @ \ {c}]
    BY <1>9 DEF StopVictim, routing
  <2>2. pc[c] = "relay" => c \in killed'
    BY <1>h, <1>9 DEF StopVictim, ConnsOK
  <2>3. \A d \in Conns, j \in Consoles : d # c /\ WillStop(j, d) => WillStop(j, d)'
    BY <1>h, <2>1 DEF WillStop, TypeConsoles
  <2> QED
    BY <1>h, <2>1, <2>2, <2>3 DEF StopsOK
<1>10. ASSUME NEW k \in Consoles, Done(k) PROVE StopsOK'
  <2>1. UNCHANGED <<stopped, pc, key, killed>>
    BY <1>10 DEF Done, routing, conns
  <2>2. \A d \in Conns, j \in Consoles : WillStop(j, d) => WillStop(j, d)'
    BY <1>h, <1>10 DEF Done, opgoto, WillStop, TypeConsoles, conns
  <2> QED
    BY <1>h, <2>1, <2>2 DEF StopsOK
<1>11. ASSUME (\E r \in 1..MaxRuntimes, l \in Listeners : Evict(r, l)) \/ Reload PROVE StopsOK'
  <2>1. UNCHANGED <<stopped, pc, key, killed, op, opc, left, victims>>
    BY <1>11 DEF Evict, Reload, conns, consoles
  <2> QED
    BY <1>u, <2>1
<1> QED
  BY <1>1, <1>2, <1>3, <1>4, <1>5, <1>6, <1>7, <1>8, <1>9, <1>10, <1>11 DEF Next, ConnStep, ConsoleStep

-----------------------------------------------------------------------------
(* The invariant, and the theorems *)

LEMMA InitIInv ==
  ASSUME Init
  PROVE  IInv
<1>1. TypeRouting
  BY ServerAssumption DEF Init, TypeRouting, NewRouteCache, RouteCache
<1>2. TypeConns
  BY ServerAssumption DEF Init, TypeConns, ConnSteps, Decisions
<1>3. TypeConsoles
  BY DEF Init, TypeConsoles
<1>4. Locals
  BY DEF Init, Locals, ConnsOK, ConsolesOK, Registered
<1>5. CountsOK
  <2>1. Counted = {} /\ \A l \in Listeners : CountedOn(l) = {}
    BY DEF Init, Counted, CountedOn
  <2>2. \A s \in Sources : Holding(s) = {} /\ Asking(s) = {}
    BY ServerAssumption DEF Init, Holding, Asking
  <2>3. Cardinality(Counted) = 0 /\ \A l \in Listeners : Cardinality(CountedOn(l)) = 0
    BY <2>1, FS_EmptySet
  <2>4. \A s \in Sources : Cardinality(Holding(s)) = 0 /\ Cardinality(Asking(s)) = 0
    BY <2>2, FS_EmptySet
  <2> QED
    BY <2>3, <2>4 DEF Init, CountsOK
<1>6. LimitsOK
  <2>1. Granted = {} /\ \A l \in Listeners : GrantedOn(l) = {}
    BY DEF Init, Granted, GrantedOn, Admitted
  <2>2. \A s \in Sources : GrantedSlot(s) = {}
    BY ServerAssumption DEF Init, GrantedSlot
  <2>3. Cardinality(Granted) = 0 /\ \A l \in Listeners : Cardinality(GrantedOn(l)) = 0
    BY <2>1, FS_EmptySet
  <2>4. \A s \in Sources : Cardinality(GrantedSlot(s)) = 0
    BY <2>2, FS_EmptySet
  <2>5. MaxConnections \in Nat /\ MaxHandshakes \in Nat /\ \A l \in Listeners : ListenerMax[l] \in Nat
    BY ServerAssumption
  <2> QED
    BY <2>3, <2>4, <2>5 DEF LimitsOK
<1>7. StopsOK
  BY DEF Init, StopsOK
<1> QED
  BY <1>1, <1>2, <1>3, <1>4, <1>5, <1>6, <1>7 DEF IInv

LEMMA NextIInv ==
  ASSUME IInv, [Next]_vars
  PROVE  IInv'
<1>h. TypeRouting /\ TypeConns /\ TypeConsoles /\ Locals /\ CountsOK /\ LimitsOK /\ StopsOK
  BY DEF IInv
<1>1. CASE Next
  <2>1. TypeRouting' /\ TypeConns' /\ TypeConsoles' /\ ConsolesOK' /\ ConnsOK'
    BY <1>h, <1>1, TypeRoutingStep, TypeConnsStep, ConsolesStep, ConnsStep DEF Locals
  <2>2. CountsOK'
    BY <1>h, <1>1, CountsStep DEF Locals
  <2>3. LimitsOK'
    BY <1>h, <1>1, <2>2, LimitsStep DEF Locals
  <2>4. StopsOK'
    BY <1>h, <1>1, StopsStep
  <2> QED
    BY <2>1, <2>2, <2>3, <2>4 DEF IInv, Locals
<1>2. CASE UNCHANGED vars
  <2>1. UNCHANGED <<counts, routing, ports, conns, consoles>>
    BY <1>2 DEF vars
  <2>2. TypeRouting' /\ TypeConns' /\ TypeConsoles' /\ Locals'
    BY <1>h, <2>1 DEF TypeRouting, TypeConns, TypeConsoles, Locals, ConnsOK, ConsolesOK, routing, ports, conns, consoles
  <2>3. CountsOK' /\ LimitsOK'
    BY <1>h, <2>1 DEF CountsOK, LimitsOK, Counted, CountedOn, Holding, Asking, Granted, GrantedOn, GrantedSlot, Admitted, counts, conns
  <2>4. StopsOK'
    BY <1>h, <2>1 DEF StopsOK, WillStop, routing, conns, consoles
  <2> QED
    BY <2>2, <2>3, <2>4 DEF IInv
<1> QED
  BY <1>1, <1>2

LEMMA Inductive == Spec => []IInv
<1>1. Init => IInv
  BY InitIInv
<1>2. IInv /\ [Next]_vars => IInv'
  BY NextIInv
<1> QED
  BY <1>1, <1>2, PTL DEF Spec

\* Every variable of accepting, routing and the console stays in its type;
\* no counter of active connections or handshake slots goes below zero.
THEOREM ServerTypeOK == Spec => []TypeOK
<1>1. IInv => TypeOK
  BY CountsType DEF IInv, TypeOK
<1> QED
  BY <1>1, Inductive, PTL

\* However accepts, PROXY headers and ends overlap, no more connections are
\* served than max_connections and the listener's own limit allow, and no
\* source holds more handshake slots than max_handshakes_per_ip.
THEOREM ServerWithinLimits == Spec => []WithinLimits
<1>1. ASSUME IInv PROVE WithinLimits
  <2>h. LimitsOK /\ MaxConnections \in Nat /\ MaxHandshakes \in Nat /\ \A l \in Listeners : ListenerMax[l] \in Nat
    BY <1>1, ServerAssumption DEF IInv
  <2>1. Cardinality(Admitted) <= MaxConnections
    <3>1. Admitted \subseteq Granted /\ Granted \subseteq Conns
      BY DEF Admitted, Granted
    <3>2. Cardinality(Admitted) <= Cardinality(Granted) /\ Cardinality(Admitted) \in Nat /\ Cardinality(Granted) \in Nat
      BY <3>1, Fewer
    <3> QED
      BY <2>h, <3>2 DEF LimitsOK
  <2>2. ASSUME NEW l \in Listeners, ListenerMax[l] > 0 PROVE Cardinality({c \in Admitted : lis[c] = l}) <= ListenerMax[l]
    <3> DEFINE on == {c \in Admitted : lis[c] = l}
    <3>1. on \subseteq GrantedOn(l) /\ GrantedOn(l) \subseteq Conns
      BY DEF Admitted, GrantedOn
    <3> HIDE DEF on
    <3>2. Cardinality(on) <= Cardinality(GrantedOn(l)) /\ Cardinality(on) \in Nat /\ Cardinality(GrantedOn(l)) \in Nat
      BY <3>1, Fewer
    <3>3. Cardinality(on) <= ListenerMax[l]
      BY <2>h, <2>2, <3>2 DEF LimitsOK
    <3> QED
      BY <3>3 DEF on
  <2>3. ASSUME NEW s \in Sources, MaxHandshakes > 0 PROVE Cardinality({c \in Conns : slot[c] = s}) <= MaxHandshakes
    <3> DEFINE of == {c \in Conns : slot[c] = s}
    <3>1. of \subseteq GrantedSlot(s) /\ GrantedSlot(s) \subseteq Conns
      BY DEF GrantedSlot
    <3> HIDE DEF of
    <3>2. Cardinality(of) <= Cardinality(GrantedSlot(s)) /\ Cardinality(of) \in Nat /\ Cardinality(GrantedSlot(s)) \in Nat
      BY <3>1, Fewer
    <3>3. Cardinality(of) <= MaxHandshakes
      BY <2>h, <2>3, <3>2 DEF LimitsOK
    <3> QED
      BY <3>3 DEF of
  <2> QED
    BY <2>1, <2>2, <2>3 DEF WithinLimits
<1>2. IInv => WithinLimits
  BY <1>1
<1> QED
  BY <1>2, Inductive, PTL

\* Whatever way each connection ended (rejected, no slot, a bad header, no
\* rule, a relay that ended), it gave back every count and its place in the
\* registry.
THEOREM ServerNothingLeaks == Spec => []NothingLeaks
<1>1. ASSUME IInv, \A c \in Conns : pc[c] \in {"none", "over"}
     PROVE  active = 0 /\ mine = [l \in Listeners |-> 0] /\ slots = [s \in Sources |-> 0] /\ registered = {}
  <2>1. Counted = {} /\ \A l \in Listeners : CountedOn(l) = {}
    BY <1>1 DEF Counted, CountedOn
  <2>2. \A s \in Sources : Holding(s) = {} /\ Asking(s) = {}
    BY <1>1, ServerAssumption DEF IInv, Locals, ConnsOK, Holding, Asking
  <2>3. registered = {}
    BY <1>1 DEF IInv, Locals, ConnsOK, Registered, TypeConns
  <2>4. Cardinality(Counted) = 0 /\ \A l \in Listeners : Cardinality(CountedOn(l)) = 0
    BY <2>1, FS_EmptySet
  <2>5. \A s \in Sources : Cardinality(Holding(s)) = 0 /\ Cardinality(Asking(s)) = 0
    BY <2>2, FS_EmptySet
  <2> QED
    BY <1>1, <2>3, <2>4, <2>5 DEF IInv, CountsOK
<1>2. IInv => NothingLeaks
  BY <1>1 DEF NothingLeaks
<1> QED
  BY <1>2, Inductive, PTL

\* When every stop of a rule has returned, no connection goes on relaying for
\* it: a stop meets each one in its scan, or the connection looks at the
\* stopped rules again after it can be killed (setKill, then the recheck).
THEOREM ServerStoppedRuleIsIdle == Spec => []StoppedRuleIsIdle
<1>1. IInv => StoppedRuleIsIdle
  BY DEF IInv, StopsOK, WillStop, StoppedRuleIsIdle, Busy
<1> QED
  BY <1>1, Inductive, PTL

===============================================================================
