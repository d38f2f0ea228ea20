------------------------------- MODULE Server -------------------------------
(***************************************************************************)
(* Connections from accept to relay, against the console and reloads:      *)
(* acceptLoop and handle (proxy.go), the route cache (cache.go), the       *)
(* registry (stats.go), and stopping or starting a rule (proxy.go) or a    *)
(* listener (listeners.go).  What happens inside a relay is module Relay's.*)
(*                                                                         *)
(* All connections ask for one name, so a route cache is one entry per     *)
(* listener in each of its two halves; Rules lists a listener's rules that *)
(* match the name, the preferred one first.  They lead to an upstream or   *)
(* are served here; a name that meets a deny rule or none is Deny.         *)
(***************************************************************************)
EXTENDS Naturals, Sequences, FiniteSets

CONSTANTS
  Conns, Listeners, Consoles,
  Sources,            \* source addresses
  Trusted,            \* proxy_trust_source: those that may send a PROXY header
  RuleSet,            \* keys of rules
  Rules,              \* Listeners -> Seq(RuleSet): what matches the name, by priority
  Deny,               \* the decision when no rule is left
  None,               \* no decision, no source, no operation
  MaxConnections,     \* max_connections
  ListenerMax,        \* each listener's own max_connections, 0 for none
  MaxHandshakes,      \* max_handshakes_per_ip, 0 for none
  Operations,         \* bound: what the console may do, see OperationType
  MaxRuntimes         \* bound: runtimes made by reloads and cache resets

OperationType ==
  [what : {"stop rule", "start rule"}, on : RuleSet] \cup
  [what : {"stop listener", "start listener"}, on : Listeners]
Decisions == RuleSet \cup {Deny, None}
RouteCache == [allow : RuleSet \cup {None}, deny : BOOLEAN]

ASSUME ServerAssumption ==
  /\ IsFiniteSet(Conns) /\ Rules \in [Listeners -> Seq(RuleSet)] /\ Deny \notin RuleSet
  /\ Trusted \subseteq Sources
  /\ None \notin RuleSet \cup {Deny} \cup Sources \cup Operations
  /\ MaxConnections \in Nat /\ ListenerMax \in [Listeners -> Nat] /\ MaxHandshakes \in Nat
  /\ Operations \subseteq OperationType /\ MaxRuntimes \in Nat \ {0}

VARIABLES
  active, mine, slots,      \* Stats.Active, ListenerStats.Active, sourceCounts
  runtime, cache,           \* Server.runtime (a number), each runtime's RouteCache
  stopped, port, stoppedListeners,   \* stopped rules; open ports
  pc, lis, src, slot,       \* per connection: its listener, address and handshake slot
  seen, rt, dec,            \* the counts Add gave back, the runtime it loaded, the decision
  registered, key,          \* in Stats.conns; RuleKey
  kill, killReason, killed, \* ConnState's kill and killReason; killed once kill ran
  op, opc, left, victims    \* per console: the operation, its step, conns to scan, found

conns == <<pc, lis, src, slot, seen, rt, dec, registered, key, kill, killReason, killed>>
counts == <<active, mine, slots>>
routing == <<runtime, cache, stopped>>
ports == <<port, stoppedListeners>>
consoles == <<op, opc, left, victims>>
vars == <<counts, routing, ports, conns, consoles>>

NewRouteCache == [allow |-> None, deny |-> FALSE]

Init ==
  /\ active = 0 /\ mine = [l \in Listeners |-> 0] /\ slots = [s \in Sources |-> 0]
  /\ runtime = 1 /\ cache = [r \in 1..MaxRuntimes |-> [l \in Listeners |-> NewRouteCache]]
  /\ stopped = {} /\ port = [l \in Listeners |-> TRUE] /\ stoppedListeners = {}
  /\ pc = [c \in Conns |-> "none"] /\ lis \in [Conns -> Listeners] /\ src \in [Conns -> Sources]
  /\ slot = [c \in Conns |-> None]
  /\ seen = [c \in Conns |-> <<0, 0>>] /\ rt = [c \in Conns |-> 0] /\ dec = [c \in Conns |-> None]
  /\ registered = {} /\ key = [c \in Conns |-> None]
  /\ kill = {} /\ killReason = {} /\ killed = {}
  /\ op = [k \in Consoles |-> None] /\ opc = [k \in Consoles |-> "idle"]
  /\ left = [k \in Consoles |-> {}] /\ victims = [k \in Consoles |-> {}]

goto(c, l) == pc' = [pc EXCEPT ![c] = l]
\* What Add gave back is not looked at again.
forgetCounts(c) == seen' = [seen EXCEPT ![c] = <<0, 0>>]
\* Once routed, a connection does not use its runtime's cache again.
forgetRuntime(c) == rt' = [rt EXCEPT ![c] = 0]
opgoto(k, l) == opc' = [opc EXCEPT ![k] = l]

-----------------------------------------------------------------------------
\* acceptLoop: a listener may have several sockets, so accepts may overlap.

Accept(c) ==
  /\ pc[c] = "none" /\ port[lis[c]] /\ goto(c, "count")
  /\ rt' = [rt EXCEPT ![c] = runtime]
  /\ UNCHANGED <<counts, routing, ports, lis, src, slot, seen, dec, registered, key, kill, killReason, killed, consoles>>

CountAll(c) ==
  /\ pc[c] = "count" /\ goto(c, "countmine")
  /\ active' = active + 1 /\ seen' = [seen EXCEPT ![c] = <<active + 1, @[2]>>]
  /\ UNCHANGED <<mine, slots, routing, ports, lis, src, slot, rt, dec, registered, key, kill, killReason, killed, consoles>>
CountListener(c) ==
  /\ pc[c] = "countmine" /\ goto(c, "admit")
  /\ mine' = [mine EXCEPT ![lis[c]] = @ + 1]
  /\ seen' = [seen EXCEPT ![c] = <<@[1], mine[lis[c]] + 1>>]
  /\ UNCHANGED <<active, slots, routing, ports, lis, src, slot, rt, dec, registered, key, kill, killReason, killed, consoles>>

tooManyOffByOne(c) ==                       \* mutant: one connection over the limit gets in
  \/ seen[c][1] > MaxConnections + 1
  \/ ListenerMax[lis[c]] > 0 /\ seen[c][2] > ListenerMax[lis[c]]
tooMany(c) ==
  \/ seen[c][1] > MaxConnections
  \/ ListenerMax[lis[c]] > 0 /\ seen[c][2] > ListenerMax[lis[c]]

\* A rejected connection is uncounted at once, an admitted one when it ends.
Reject(c) ==
  /\ pc[c] = "admit" /\ tooMany(c) /\ goto(c, "rejected")
  /\ active' = active - 1 /\ forgetCounts(c)
  /\ UNCHANGED <<mine, slots, routing, ports, lis, src, slot, rt, dec, registered, key, kill, killReason, killed, consoles>>
RejectListener(c) ==
  /\ pc[c] = "rejected" /\ goto(c, "over")
  /\ mine' = [mine EXCEPT ![lis[c]] = @ - 1]
  /\ UNCHANGED <<active, slots, routing, ports, lis, src, slot, seen, rt, dec, registered, key, kill, killReason, killed, consoles>>
Admit(c) ==
  /\ pc[c] = "admit" /\ ~tooMany(c) /\ goto(c, "slot") /\ forgetCounts(c)
  /\ UNCHANGED <<counts, routing, ports, lis, src, slot, rt, dec, registered, key, kill, killReason, killed, consoles>>

UncountListener(c) ==
  /\ pc[c] = "uncount" /\ goto(c, "uncountall")
  /\ mine' = [mine EXCEPT ![lis[c]] = @ - 1]
  /\ UNCHANGED <<active, slots, routing, ports, lis, src, slot, seen, rt, dec, registered, key, kill, killReason, killed, consoles>>
UncountAll(c) ==
  /\ pc[c] = "uncountall" /\ goto(c, "over")
  /\ active' = active - 1
  /\ UNCHANGED <<mine, slots, routing, ports, lis, src, slot, seen, rt, dec, registered, key, kill, killReason, killed, consoles>>

-----------------------------------------------------------------------------
\* handle, up to the ClientHello: one handshake slot per source.

fitsHandshakeOneMore(n) ==                  \* mutant: off by one
  MaxHandshakes = 0 \/ n <= MaxHandshakes + 1
fitsHandshake(n) == MaxHandshakes = 0 \/ n <= MaxHandshakes

\* beginHandshake counts first and takes the count back when it is too many.
BeginHandshake(c) ==
  /\ pc[c] = "slot"
  /\ slots' = [slots EXCEPT ![src[c]] = @ + 1]
  /\ IF fitsHandshake(slots'[src[c]])
     THEN goto(c, "header") /\ slot' = [slot EXCEPT ![c] = src[c]]
     ELSE goto(c, "noslot") /\ UNCHANGED slot
  /\ UNCHANGED <<active, mine, routing, ports, lis, src, seen, rt, dec, registered, key, kill, killReason, killed, consoles>>
HandshakeRefused(c) ==
  /\ pc[c] = "noslot" /\ goto(c, "close")
  /\ slots' = [slots EXCEPT ![src[c]] = @ - 1]
  /\ UNCHANGED <<active, mine, routing, ports, lis, src, slot, seen, rt, dec, registered, key, kill, killReason, killed, consoles>>

\* A PROXY header names another source: its slot is taken before the first
\* one is given back.
ProxyHeader(c, s) ==
  /\ pc[c] = "header" /\ src[c] \in Trusted /\ s # src[c]
  /\ src' = [src EXCEPT ![c] = s]
  /\ slots' = [slots EXCEPT ![s] = @ + 1]
  /\ goto(c, IF fitsHandshake(slots'[s]) THEN "swap" ELSE "noslot")
  /\ UNCHANGED <<active, mine, routing, ports, lis, slot, seen, rt, dec, registered, key, kill, killReason, killed, consoles>>
SwapSlotForgets(c) ==                       \* mutant: the first slot is kept
  /\ pc[c] = "swap" /\ goto(c, "register")
  /\ slot' = [slot EXCEPT ![c] = src[c]]
  /\ UNCHANGED <<counts, routing, ports, lis, src, seen, rt, dec, registered, key, kill, killReason, killed, consoles>>
SwapSlot(c) ==
  /\ pc[c] = "swap" /\ goto(c, "register")
  /\ slots' = [slots EXCEPT ![slot[c]] = @ - 1] /\ slot' = [slot EXCEPT ![c] = src[c]]
  /\ UNCHANGED <<active, mine, routing, ports, lis, src, seen, rt, dec, registered, key, kill, killReason, killed, consoles>>
\* No header (or an untrusted peer), or one with the same source.
NoHeader(c) ==
  /\ pc[c] = "header" /\ goto(c, "register")
  /\ UNCHANGED <<counts, routing, ports, lis, src, slot, seen, rt, dec, registered, key, kill, killReason, killed, consoles>>
BadHeader(c) ==
  /\ pc[c] = "header" /\ src[c] \in Trusted /\ goto(c, "close")
  /\ UNCHANGED <<counts, routing, ports, lis, src, slot, seen, rt, dec, registered, key, kill, killReason, killed, consoles>>

Register(c) ==
  /\ pc[c] = "register" /\ goto(c, "hello")
  /\ registered' = registered \cup {c}
  /\ UNCHANGED <<counts, routing, ports, lis, src, slot, seen, rt, dec, key, kill, killReason, killed, consoles>>

\* The ClientHello is there; or it did not come in time, made no sense, or is
\* one this proxy sent itself.
Hello(c) ==
  /\ pc[c] = "hello" /\ \E l \in {"route", "close"} : goto(c, l)
  /\ slots' = [slots EXCEPT ![slot[c]] = @ - 1] /\ slot' = [slot EXCEPT ![c] = None]
  /\ UNCHANGED <<active, mine, routing, ports, lis, src, seen, rt, dec, registered, key, kill, killReason, killed, consoles>>

-----------------------------------------------------------------------------
\* Routing, through the cache of the runtime loaded at accept.

\* RouteExcept: the first matching rule that is not stopped.
RouteExcept(l, except) ==
  LET left_ == {i \in DOMAIN Rules[l] : Rules[l][i] \notin except} IN
  IF left_ = {} THEN Deny ELSE Rules[l][CHOOSE i \in left_ : \A j \in left_ : i <= j]

\* The half with the allowed names is looked up first.
cached(c) ==
  LET e == cache[rt[c]][lis[c]] IN
  IF e.allow # None THEN e.allow ELSE IF e.deny THEN Deny ELSE None

RouteHit(c) ==
  /\ pc[c] = "route" /\ cached(c) # None /\ goto(c, "challenge")
  /\ dec' = [dec EXCEPT ![c] = cached(c)] /\ forgetRuntime(c)
  /\ UNCHANGED <<counts, routing, ports, lis, src, slot, seen, registered, key, kill, killReason, killed, consoles>>

\* A miss: computed with the rules stopped now, then put in its half.  A name
\* already there is replaced; a new one is not added when another insert is
\* under way (or the half has no room at all).
RouteMiss(c) ==
  /\ pc[c] = "route" /\ cached(c) = None /\ goto(c, "put")
  /\ dec' = [dec EXCEPT ![c] = RouteExcept(lis[c], stopped)]
  /\ UNCHANGED <<counts, routing, ports, lis, src, slot, seen, rt, registered, key, kill, killReason, killed, consoles>>
put(e, d) == IF d = Deny THEN [e EXCEPT !.deny = TRUE] ELSE [e EXCEPT !.allow = d]
holds(e, d) == IF d = Deny THEN e.deny ELSE e.allow # None
RoutePut(c) ==
  /\ pc[c] = "put" /\ goto(c, "challenge") /\ forgetRuntime(c)
  /\ \/ cache' = [cache EXCEPT ![rt[c]][lis[c]] = put(@, dec[c])]
     \/ ~holds(cache[rt[c]][lis[c]], dec[c]) /\ UNCHANGED cache
  /\ UNCHANGED <<counts, runtime, stopped, ports, lis, src, slot, seen, dec, registered, key, kill, killReason, killed, consoles>>

\* The CA's TLS-ALPN-01 connection is answered here, whatever the decision.
Challenge(c) ==
  /\ pc[c] = "challenge" /\ goto(c, "close")
  /\ UNCHANGED <<counts, routing, ports, lis, src, slot, seen, rt, dec, registered, key, kill, killReason, killed, consoles>>

RecordRule(c) ==
  /\ pc[c] = "challenge" /\ goto(c, IF dec[c] = Deny THEN "close" ELSE "connect")
  /\ key' = [key EXCEPT ![c] = dec[c]]
  /\ UNCHANGED <<counts, routing, ports, lis, src, slot, seen, rt, dec, registered, kill, killReason, killed, consoles>>

\* Another name takes the place of an entry in use.
Evict(r, l) ==
  /\ \/ cache[r][l].allow # None /\ cache' = [cache EXCEPT ![r][l].allow = None]
     \/ cache[r][l].deny /\ cache' = [cache EXCEPT ![r][l].deny = FALSE]
  /\ UNCHANGED <<counts, runtime, stopped, ports, conns, consoles>>

-----------------------------------------------------------------------------
\* Connected to the upstream, or served here; or neither works out.

Connect(c) ==
  /\ pc[c] = "connect" /\ \E l \in {"setkill", "close"} : goto(c, l)
  /\ UNCHANGED <<counts, routing, ports, lis, src, slot, seen, rt, dec, registered, key, kill, killReason, killed, consoles>>

SetKill(c) ==
  /\ pc[c] = "setkill" /\ goto(c, "recheck")
  /\ kill' = kill \cup {c}
  /\ killed' = IF c \in killReason THEN killed \cup {c} ELSE killed
  /\ UNCHANGED <<counts, routing, ports, lis, src, slot, seen, rt, dec, registered, key, killReason, consoles>>

RecheckNot(c) ==                            \* mutant: the rule is not looked at again
  /\ pc[c] = "recheck" /\ goto(c, "relay")
  /\ UNCHANGED <<counts, routing, ports, lis, src, slot, seen, rt, dec, registered, key, kill, killReason, killed, consoles>>
Recheck(c) ==
  /\ pc[c] = "recheck" /\ goto(c, "relay")
  /\ killed' = IF key[c] \in stopped THEN killed \cup {c} ELSE killed
  /\ UNCHANGED <<counts, routing, ports, lis, src, slot, seen, rt, dec, registered, key, kill, killReason, consoles>>

RelayEnds(c) ==
  /\ pc[c] = "relay" /\ goto(c, "close")
  /\ UNCHANGED <<counts, routing, ports, lis, src, slot, seen, rt, dec, registered, key, kill, killReason, killed, consoles>>

\* handle's deferred calls: unregister, then the handshake slot if still held.
\* What handle knew of the connection goes with it.
Close(c) ==
  /\ pc[c] = "close" /\ goto(c, "uncount")
  /\ registered' = registered \ {c}
  /\ slots' = IF slot[c] = None THEN slots ELSE [slots EXCEPT ![slot[c]] = @ - 1]
  /\ slot' = [slot EXCEPT ![c] = None]
  /\ dec' = [dec EXCEPT ![c] = None] /\ key' = [key EXCEPT ![c] = None] /\ forgetRuntime(c)
  /\ kill' = kill \ {c} /\ killReason' = killReason \ {c} /\ killed' = killed \ {c}
  /\ UNCHANGED <<active, mine, routing, ports, lis, src, seen, consoles>>

-----------------------------------------------------------------------------
\* The console.

Begin(k, o) ==
  /\ opc[k] = "idle" /\ op[k] = None
  /\ op' = [op EXCEPT ![k] = o]
  /\ opgoto(k, IF o.what \in {"stop rule", "start rule"} THEN "mark" ELSE "port")
  /\ UNCHANGED <<counts, routing, ports, conns, left, victims>>

\* setRuleStopped: the new set is published first, then the cache replaced.
MarkRule(k) ==
  /\ opc[k] = "mark" /\ opgoto(k, "swap")
  /\ stopped' = IF op[k].what = "stop rule" THEN stopped \cup {op[k].on} ELSE stopped \ {op[k].on}
  /\ UNCHANGED <<counts, runtime, cache, ports, conns, op, left, victims>>
SwapCache(k) ==
  /\ opc[k] = "swap" /\ runtime < MaxRuntimes
  /\ runtime' = runtime + 1
  /\ IF op[k].what = "stop rule"
     THEN opgoto(k, "scan") /\ left' = [left EXCEPT ![k] = Conns]
     ELSE opgoto(k, "idle") /\ UNCHANGED left
  /\ UNCHANGED <<counts, cache, stopped, ports, conns, op, victims>>

\* setListenerStopped: the port first.  A port that cannot be opened leaves
\* the listener as it was.
StopPort(k) ==
  /\ opc[k] = "port" /\ op[k].what = "stop listener" /\ opgoto(k, "scan")
  /\ port' = [port EXCEPT ![op[k].on] = FALSE] /\ stoppedListeners' = stoppedListeners \cup {op[k].on}
  /\ left' = [left EXCEPT ![k] = Conns]
  /\ UNCHANGED <<counts, routing, conns, op, victims>>
StartPort(k) ==
  /\ opc[k] = "port" /\ op[k].what = "start listener" /\ opgoto(k, "idle")
  /\ \/ /\ port' = [port EXCEPT ![op[k].on] = TRUE] /\ stoppedListeners' = stoppedListeners \ {op[k].on}
     \/ ~port[op[k].on] /\ UNCHANGED ports
  /\ UNCHANGED <<counts, routing, conns, op, left, victims>>

\* conns.Range reads one slot after the other, in no particular order.
isVictim(k, c) ==
  /\ c \in registered
  /\ IF op[k].what = "stop rule" THEN key[c] = op[k].on ELSE lis[c] = op[k].on
Scan(k, c) ==
  /\ opc[k] = "scan" /\ c \in left[k]
  /\ left' = [left EXCEPT ![k] = @ \ {c}]
  /\ victims' = IF isVictim(k, c) THEN [victims EXCEPT ![k] = @ \cup {c}] ELSE victims
  /\ UNCHANGED <<counts, routing, ports, conns, op, opc>>

\* c.stop: kill it if it relays, else leave word for setKill.
StopVictim(k, c) ==
  /\ opc[k] = "scan" /\ left[k] = {} /\ c \in victims[k]
  /\ victims' = [victims EXCEPT ![k] = @ \ {c}]
  /\ IF c \in kill
     THEN killed' = killed \cup {c} /\ UNCHANGED killReason
     ELSE killReason' = killReason \cup {c} /\ UNCHANGED killed
  /\ UNCHANGED <<counts, routing, ports, pc, lis, src, slot, seen, rt, dec, registered, key, kill, op, opc, left>>

Done(k) ==
  /\ opc[k] = "scan" /\ left[k] = {} /\ victims[k] = {} /\ opgoto(k, "idle")
  /\ UNCHANGED <<counts, routing, ports, conns, op, left, victims>>

\* reload stores a runtime with an empty cache; connections keep theirs.
Reload ==
  /\ runtime < MaxRuntimes /\ runtime' = runtime + 1
  /\ UNCHANGED <<counts, cache, stopped, ports, conns, consoles>>

-----------------------------------------------------------------------------
ConnStep(c) ==
  \/ Accept(c) \/ CountAll(c) \/ CountListener(c) \/ Reject(c) \/ RejectListener(c) \/ Admit(c)
  \/ UncountListener(c) \/ UncountAll(c)
  \/ BeginHandshake(c) \/ HandshakeRefused(c) \/ SwapSlot(c) \/ NoHeader(c) \/ BadHeader(c)
  \/ (\E s \in Sources : ProxyHeader(c, s)) \/ Register(c) \/ Hello(c)
  \/ RouteHit(c) \/ RouteMiss(c) \/ RoutePut(c) \/ Challenge(c) \/ RecordRule(c)
  \/ Connect(c) \/ SetKill(c) \/ Recheck(c) \/ RelayEnds(c) \/ Close(c)
ConsoleStep(k) ==
  \/ (\E o \in Operations : Begin(k, o)) \/ MarkRule(k) \/ SwapCache(k) \/ StopPort(k) \/ StartPort(k)
  \/ (\E c \in Conns : Scan(k, c) \/ StopVictim(k, c)) \/ Done(k)
Next ==
  \/ \E c \in Conns : ConnStep(c)
  \/ \E k \in Consoles : ConsoleStep(k)
  \/ (\E r \in 1..MaxRuntimes, l \in Listeners : Evict(r, l)) \/ Reload
Spec == Init /\ [][Next]_vars

-----------------------------------------------------------------------------
\* Properties.

\* Where a connection can be, in the order it gets there.
ConnSteps ==
  {"none", "count", "countmine", "admit", "rejected", "slot", "noslot", "header", "swap", "register", "hello",
   "route", "put", "challenge", "connect", "setkill", "recheck", "relay", "close", "uncount", "uncountall", "over"}

\* Every variable stays in its type.
TypeCounts == active \in Nat /\ mine \in [Listeners -> Nat] /\ slots \in [Sources -> Nat]
TypeRouting ==
  /\ runtime \in 1..MaxRuntimes /\ cache \in [1..MaxRuntimes -> [Listeners -> RouteCache]]
  /\ stopped \subseteq RuleSet /\ port \in [Listeners -> BOOLEAN] /\ stoppedListeners \subseteq Listeners
TypeConns ==
  /\ pc \in [Conns -> ConnSteps]
  /\ lis \in [Conns -> Listeners] /\ src \in [Conns -> Sources] /\ slot \in [Conns -> Sources \cup {None}]
  /\ seen \in [Conns -> Nat \X Nat] /\ rt \in [Conns -> 0..MaxRuntimes]
  /\ dec \in [Conns -> Decisions] /\ key \in [Conns -> Decisions]
  /\ registered \subseteq Conns /\ kill \subseteq Conns /\ killReason \subseteq Conns /\ killed \subseteq Conns
TypeConsoles ==
  /\ op \in [Consoles -> Operations \cup {None}]
  /\ opc \in [Consoles -> {"idle", "mark", "swap", "port", "scan"}]
  /\ left \in [Consoles -> SUBSET Conns] /\ victims \in [Consoles -> SUBSET Conns]
TypeOK == TypeCounts /\ TypeRouting /\ TypeConns /\ TypeConsoles

Admitted == {c \in Conns : pc[c] \notin {"none", "count", "countmine", "admit", "rejected", "uncount", "uncountall", "over"}}

\* However accepts overlap, no more connections are served than allowed, in
\* all and per listener, and a source holds at most max_handshakes_per_ip
\* slots, also one that only a PROXY header names.
WithinLimits ==
  /\ Cardinality(Admitted) <= MaxConnections
  /\ \A l \in Listeners :
       ListenerMax[l] > 0 => Cardinality({c \in Admitted : lis[c] = l}) <= ListenerMax[l]
  /\ MaxHandshakes > 0 => \A s \in Sources : Cardinality({c \in Conns : slot[c] = s}) <= MaxHandshakes

\* Every way a connection can end gives back what it had counted: when none
\* is left, no counter is up and the registry is empty.
NothingLeaks ==
  (\A c \in Conns : pc[c] \in {"none", "over"}) =>
    active = 0 /\ mine = [l \in Listeners |-> 0] /\ slots = [s \in Sources |-> 0] /\ registered = {}

\* A rule whose stop has returned (and that nobody is starting or stopping)
\* has no connection that goes on relaying: neither one routed before, nor
\* one that was being routed, by an old cache or a new one.
Busy(r) == \E k \in Consoles : opc[k] # "idle" /\ op[k].on = r
StoppedRuleIsIdle ==
  \A c \in Conns : pc[c] = "relay" /\ key[c] \in stopped /\ ~Busy(key[c]) => c \in killed
=============================================================================
