---------------------------- MODULE ServingProofs ----------------------------
(***************************************************************************)
(* Proofs about how a connection is taken in and answered here: which      *)
(* ports listen (Listeners), which rule it is routed by (RuleTable), what  *)
(* a runtime serves (Serve), and what the connections page shows of it     *)
(* (FlowLog).                                                              *)
(*                                                                         *)
(* Several of these models loop over lists.  A recursive function is one   *)
(* that satisfies its equation once one exists (FoldExists), and what it   *)
(* computes follows by induction over a set of naturals (SetInduction,     *)
(* BoundedInduction).                                                      *)
(*                                                                         *)
(* Listeners: each address is held once and a stopped listener holds none  *)
(* (PortsOK), which each turn of the loops of syncListeners keeps; at      *)
(* their end nothing is left of what the configuration does not name.      *)
(*                                                                         *)
(* RuleTable: the two orders of config.go and console_rules.go rank        *)
(* places, so that "the first in the order" is one place; a file keeps     *)
(* being made of its entries, with one console listener (RulesIInv), and   *)
(* for any such file the rule that findRoute falls on is the first the     *)
(* console shows.  A rule's place in the file stands for the spot of its   *)
(* item and of itself there (RulePlaces); what an edit does not name moves *)
(* from spot to spot in order (Moves), and so it does in the file.         *)
(*                                                                         *)
(* Serve: a password is remembered only with the hash it is of             *)
(* (RememberedOK), a request that was let past basic_auth keeps the        *)
(* configuration that let it (AuthOK), and a state is closed only after    *)
(* its servers were retired, which is after the next runtime was stored    *)
(* (RetiredOK).                                                            *)
(*                                                                         *)
(* FlowLog: a connection has one sequence of views; the events on their    *)
(* way, the snapshot and the card are all views of it no older than the    *)
(* one before (FlowIInv), so that the card only advances.                  *)
(***************************************************************************)
EXTENDS Listeners, RuleTable, Serve, FlowLog, Integers, TLAPS, FiniteSetTheorems, SequenceTheorems

-----------------------------------------------------------------------------
(* Induction *)

\* Induction over the naturals, for a set.
LEMMA SetInduction ==
  ASSUME NEW T, 0 \in T, \A n \in Nat : n \in T => n + 1 \in T
  PROVE  Nat \subseteq T
<1>1. SUFFICES ASSUME NEW n \in Nat, n \notin T PROVE FALSE
  OBVIOUS
<1> DEFINE A == {k \in 0..n : k \in T}
           f == [k \in A |-> k + 1]
<1>2. IsFiniteSet(A)
  <2>1. A \in SUBSET (0..n) /\ IsFiniteSet(0..n)
    BY FS_Interval
  <2> QED
    BY <2>1, FS_Subset
<1>3. IsFiniteSet(A \ {0}) /\ Cardinality(A \ {0}) < Cardinality(A)
  <2>1. 0 \in A
    OBVIOUS
  <2>2. Cardinality(A \ {0}) = Cardinality(A) - 1 /\ IsFiniteSet(A \ {0})
    BY <1>2, <2>1, FS_RemoveElement
  <2> HIDE DEF A
  <2>3. Cardinality(A) \in Nat
    BY <1>2, FS_CardinalityType
  <2> QED
    BY <2>2, <2>3
<1>4. f \in [A -> A \ {0}]
  <2>1. SUFFICES ASSUME NEW k \in A PROVE k + 1 \in A \ {0}
    OBVIOUS
  <2>2. k + 1 \in T
    OBVIOUS
  <2>3. k # n
    BY <1>1
  <2> QED
    BY <2>2, <2>3
<1>5. \A x, y \in A : x # y => f[x] # f[y]
  OBVIOUS
<1> HIDE DEF A, f
<1> QED
  BY <1>2, <1>3, <1>4, <1>5, FS_PigeonHole


LEMMA BoundedInduction ==
  ASSUME NEW N \in Nat, NEW T, 0 \in T, \A n \in 0..(N - 1) : n \in T => n + 1 \in T
  PROVE  0..N \subseteq T
<1> DEFINE U == {n \in Nat : n \in T \/ n > N}
<1>1. 0 \in U
  OBVIOUS
<1>2. \A n \in Nat : n \in U => n + 1 \in U
  OBVIOUS
<1>3. Nat \subseteq U
  BY <1>1, <1>2, SetInduction
<1> QED
  BY <1>3

Folded(f, c, U, n) == f[0] = c /\ \A k \in 1..n : f[k] = U[f[k - 1]][k]
LEMMA FoldExists ==
  ASSUME NEW N \in Nat, NEW D, NEW c \in D, NEW U \in [D -> [1..N -> D]]
  PROVE  \E f \in [0..N -> D] : Folded(f, c, U, N)
<1> DEFINE isFold(f, n) == f[0] = c /\ \A k \in 1..n : f[k] = U[f[k - 1]][k]
           T == {n \in 0..N : \E f \in [0..n -> D] : isFold(f, n)}
<1>1. 0 \in T
  <2> DEFINE f == [k \in 0..0 |-> c]
  <2>1. f \in [0..0 -> D] /\ isFold(f, 0)
    OBVIOUS
  <2> HIDE DEF f, isFold
  <2> QED
    BY <2>1
<1>2. ASSUME NEW n \in 0..(N - 1), n \in T PROVE n + 1 \in T
  <2>1. PICK f \in [0..n -> D] : isFold(f, n)
    BY <1>2
  <2> DEFINE g == [k \in 0..(n + 1) |-> IF k = n + 1 THEN U[f[n]][n + 1] ELSE f[k]]
  <2>2. g \in [0..(n + 1) -> D]
    BY <2>1
  <2>3. g[0] = c /\ g[n + 1] = U[g[n]][n + 1]
    BY <2>1
  <2>4. ASSUME NEW k \in 1..n PROVE g[k] = U[g[k - 1]][k]
    <3>1. g[k] = f[k] /\ g[k - 1] = f[k - 1]
      OBVIOUS
    <3> QED
      BY <2>1, <3>1
  <2> HIDE DEF g
  <2>5. isFold(g, n + 1)
    <3>1. g[0] = c /\ \A k \in 1..(n + 1) : k \in 1..n \/ k = n + 1
      BY <2>3
    <3>2. g[n + 1] = U[g[(n + 1) - 1]][n + 1]
      BY <2>3
    <3> QED
      BY <3>1, <3>2, <2>4, Zenon
  <2> HIDE DEF isFold
  <2> QED
    BY <2>2, <2>5
<1>3. N \in T
  <2> HIDE DEF T
  <2>1. \A n \in 0..(N - 1) : n \in T => n + 1 \in T
    BY <1>2
  <2>2. 0..N \subseteq T
    BY <1>1, <2>1, BoundedInduction, Zenon
  <2> QED
    BY <2>2
<1> QED
  BY <1>3 DEF Folded

-----------------------------------------------------------------------------
(* The listeners *)

PortSockets == {Closed} \cup [addr : Addrs, sock : Addrs \cup {Closed}]
PortStates == [ports : [Ports -> PortSockets], stopped : SUBSET Ports]

\* What syncListeners and the console keep of the ports (listeners.go): each
\* address is held once, and what is stopped is a listener without a socket.
PortsOK(st) ==
  /\ st \in PortStates
  /\ \A n \in st.stopped : st.ports[n] # Closed /\ ~isOpen(st.ports[n])
  /\ \A m, n \in Ports : m # n /\ isOpen(st.ports[m]) /\ isOpen(st.ports[n]) => st.ports[m].sock # st.ports[n].sock

\* A listener is put in place of what was there, shut or with a socket no
\* other one holds.
LEMMA PlacedPort ==
  ASSUME NEW st, PortsOK(st), NEW n \in Ports, NEW addr \in Addrs, NEW sock \in Addrs \cup {Closed},
         NEW stopped \in SUBSET Ports, stopped \subseteq st.stopped \cup {n},
         n \in stopped => sock = Closed,
         \A m \in Ports : m # n /\ isOpen(st.ports[m]) => st.ports[m].sock # sock
  PROVE  PortsOK([ports |-> [st.ports EXCEPT ![n] = [addr |-> addr, sock |-> sock]], stopped |-> stopped])
<1> DEFINE live == [addr |-> addr, sock |-> sock]
           ports == [st.ports EXCEPT ![n] = live]
<1>1. live \in PortSockets /\ live # Closed => (isOpen(live) <=> sock # Closed)
  BY DEF PortSockets, isOpen
<1>q. live \in PortSockets
  BY DEF PortSockets
<1>2. ports \in [Ports -> PortSockets] /\ ports[n] = live /\ \A m \in Ports : m # n => ports[m] = st.ports[m]
  <2> HIDE DEF live
  <2> QED
    BY <1>q DEF PortsOK, PortStates
<1>3. live.sock = sock
  OBVIOUS
<1>4. live # Closed
  BY ListenersAssumption
<1> HIDE DEF live, ports
<1>5. ASSUME NEW m \in stopped PROVE ports[m] # Closed /\ ~isOpen(ports[m])
  <2>1. CASE m = n
    BY <1>2, <1>1, <1>4, <1>5, <2>1
  <2>2. CASE m # n
    BY <1>2, <1>5, <2>2 DEF PortsOK
  <2> QED
    BY <2>1, <2>2
<1>6. ASSUME NEW m \in Ports, NEW k \in Ports, m # k, isOpen(ports[m]), isOpen(ports[k])
      PROVE  ports[m].sock # ports[k].sock
  BY <1>2, <1>3, <1>6 DEF PortsOK
<1> QED
  BY <1>2, <1>5, <1>6 DEF PortsOK, PortStates, live, ports

LEMMA TakenOver ==
  ASSUME NEW st, PortsOK(st), NEW l \in [name : Ports, addr : Addrs], NEW want, l.name \in want
  PROVE  PortsOK(takeOverLocked(st, l, want))
<1>1. CASE st.ports[l.name] # Closed \/ takesOver(st.ports, l, want) = {}
  BY <1>1 DEF takeOverLocked
<1>2. CASE ~(st.ports[l.name] # Closed \/ takesOver(st.ports, l, want) = {})
  <2> DEFINE old == CHOOSE o \in takesOver(st.ports, l, want) : TRUE
  <2>1. old \in Ports \ want /\ isOpen(st.ports[old])
    BY <1>2 DEF takesOver
  <2>2. takeOverLocked(st, l, want) =
          [ports |-> [st.ports EXCEPT ![l.name] = st.ports[old], ![old] = Closed], stopped |-> st.stopped \ {old}]
    BY <1>2 DEF takeOverLocked
  <2> HIDE DEF old
  <2>3. l.name \notin st.stopped
    BY <1>2 DEF PortsOK
  <2> QED
    BY <2>1, <2>2, <2>3 DEF PortsOK, PortStates, PortSockets, isOpen
<1> QED
  BY <1>1, <1>2

LEMMA SyncedOne ==
  ASSUME NEW st0, PortsOK(st0), NEW l \in [name : Ports, addr : Addrs], NEW want, l.name \in want
  PROVE  PortsOK(syncOne(st0, l, want))
<1> DEFINE st == takeOverLocked(st0, l, want)
           shut == [st.ports EXCEPT ![l.name] = Closed]
           sock == IF l.name \in st.stopped THEN Closed ELSE bound(shut, l.addr)
<1>1. PortsOK(st)
  BY TakenOver
<1>2. CASE keptAsIs(st, l)
  BY <1>1, <1>2 DEF syncOne
<1>3. CASE ~keptAsIs(st, l)
  <2>1. syncOne(st0, l, want) = [st EXCEPT !.ports = [shut EXCEPT ![l.name] = [addr |-> l.addr, sock |-> sock]]]
    BY <1>3 DEF syncOne
  <2> HIDE DEF st
  <2>2. [st EXCEPT !.ports = [shut EXCEPT ![l.name] = [addr |-> l.addr, sock |-> sock]]]
          = [ports |-> [st.ports EXCEPT ![l.name] = [addr |-> l.addr, sock |-> sock]], stopped |-> st.stopped]
    BY <1>1 DEF PortsOK, PortStates
  <2>3. sock \in Addrs \cup {Closed}
    BY DEF bound
  <2>4. ASSUME NEW m \in Ports, m # l.name, isOpen(st.ports[m]) PROVE st.ports[m].sock # sock
    <3>1. shut[m] = st.ports[m] /\ st.ports[m].sock \in inUse(shut)
      BY <1>1, <2>4 DEF PortsOK, PortStates, inUse
    <3>2. st.ports[m].sock # Closed
      BY <2>4 DEF isOpen
    <3> QED
      BY <3>1, <3>2 DEF bound
  <2>5. l.name \in st.stopped => sock = Closed
    OBVIOUS
  <2>6. st.stopped \in SUBSET Ports
    BY <1>1 DEF PortsOK, PortStates
  <2> HIDE DEF sock, shut
  <2> QED
    BY <1>1, <2>1, <2>2, <2>3, <2>4, <2>5, <2>6, PlacedPort
<1> QED
  BY <1>2, <1>3

\* syncListeners runs through the listeners of a configuration.
LEMMA SyncedEach ==
  ASSUME NEW st, PortsOK(st), NEW c \in Seq([name : Ports, addr : Addrs])
  PROVE  PortsOK(syncEach(st, c))
<1> DEFINE N == Len(c)
           D == {s \in PortStates : PortsOK(s)}
           U == [s \in D |-> [i \in 1..N |-> syncOne(s, c[i], names(c))]]
           runs(g) == g = [i \in 0..N |-> IF i = 0 THEN st ELSE syncOne(g[i - 1], c[i], names(c))]
<1>1. N \in Nat /\ st \in D
  BY DEF PortsOK
<1>2. ASSUME NEW s \in D, NEW i \in 1..N PROVE syncOne(s, c[i], names(c)) \in D
  <2>1. c[i] \in [name : Ports, addr : Addrs] /\ c[i].name \in names(c)
    <3>1. i \in DOMAIN c
      OBVIOUS
    <3>2. c[i].name \in names(c)
      BY <3>1, Zenon DEF names
    <3>3. c[i] \in [name : Ports, addr : Addrs]
      BY ElementOfSeq
    <3> QED
      BY <3>2, <3>3
  <2>2. PortsOK(s)
    OBVIOUS
  <2>3. PortsOK(syncOne(s, c[i], names(c)))
    BY <2>1, <2>2, SyncedOne
  <2> QED
    BY <2>3 DEF PortsOK
<1>3. U \in [D -> [1..N -> D]]
  BY <1>2
<1>4. PICK f \in [0..N -> D] : Folded(f, st, U, N)
  <2> HIDE DEF U, N, D
  <2> QED
    BY <1>1, <1>3, FoldExists, Zenon
<1>5. \A i \in 1..N : f[i] = syncOne(f[i - 1], c[i], names(c))
  <2>1. SUFFICES ASSUME NEW i \in 1..N PROVE f[i] = syncOne(f[i - 1], c[i], names(c))
    OBVIOUS
  <2>2. f[i - 1] \in D
    OBVIOUS
  <2> QED
    BY <1>4, <2>2 DEF Folded
<1>6. runs(f)
  <2> HIDE DEF D
  <2> QED
    BY <1>4, <1>5 DEF Folded
<1> DEFINE after == CHOOSE g : runs(g)
<1>7. runs(after)
  <2> HIDE DEF runs
  <2> QED
    BY <1>6
<1>8. syncEach(st, c) = after[N]
  BY DEF syncEach
<1> DEFINE T == {i \in 0..N : after[i] \in D}
<1> HIDE DEF after, D
<1>9. 0 \in T
  BY <1>1, <1>7
<1>10. \A i \in 0..(N - 1) : i \in T => i + 1 \in T
  BY <1>2, <1>7
<1>11. 0..N \subseteq T
  <2> HIDE DEF T, N
  <2> QED
    BY <1>1, <1>9, <1>10, BoundedInduction, Zenon
<1> QED
  BY <1>1, <1>8, <1>11 DEF D

LEMMA SyncedAll ==
  ASSUME NEW st, PortsOK(st), NEW c \in Seq([name : Ports, addr : Addrs])
  PROVE  /\ PortsOK(syncListeners(st, c))
         /\ \A n \in Ports : n \notin names(c) =>
              syncListeners(st, c).ports[n] = Closed /\ n \notin syncListeners(st, c).stopped
<1>1. PortsOK(syncEach(st, c))
  BY SyncedEach
<1> QED
  BY <1>1 DEF syncListeners, removeRest, PortsOK, PortStates, PortSockets, isOpen

PortsIInv ==
  /\ ListenersTypeOK /\ PortsOK([ports |-> sockets, stopped |-> stoppedPorts])
  /\ asking # NoAsk => asking.name \in Ports /\ asking.addr \in Addrs
  /\ synced => \A n \in Ports : n \notin names(stored) => sockets[n] = Closed /\ n \notin stoppedPorts

LEMMA PortsImply ==
  ASSUME PortsIInv
  PROVE  ListenersTypeOK /\ PortsFollowConfig
  BY DEF PortsIInv, PortsOK, PortsFollowConfig

LEMMA InitPorts ==
  ASSUME ListenersInit
  PROVE  PortsIInv
<1>0. MaxStores \in Nat
  BY ListenersAssumption
<1>1. ListenersTypeOK
  <2>1. NoAsk \in [stop : BOOLEAN, name : Ports \cup {Closed}, addr : Addrs \cup {Closed}]
    BY DEF NoAsk
  <2>2. sockets \in [Ports -> {Closed} \cup [addr : Addrs, sock : Addrs \cup {Closed}]]
    BY DEF ListenersInit
  <2>3. stores \in 0..MaxStores
    BY <1>0 DEF ListenersInit
  <2>4. stored \in PortConfigs /\ synced \in BOOLEAN /\ stoppedPorts \subseteq Ports /\ taken \subseteq Elsewhere
    BY DEF ListenersInit
  <2>5. asking = NoAsk
    BY DEF ListenersInit
  <2> QED
    BY <2>1, <2>2, <2>3, <2>4, <2>5 DEF ListenersTypeOK
<1>2. PortsOK([ports |-> sockets, stopped |-> stoppedPorts])
  BY DEF ListenersInit, PortsOK, PortStates, PortSockets, isOpen
<1> QED
  BY <1>1, <1>2 DEF ListenersInit, PortsIInv, NoAsk

LEMMA PortsStep ==
  ASSUME PortsIInv, ListenersNext
  PROVE  PortsIInv'
<1> DEFINE st == [ports |-> sockets, stopped |-> stoppedPorts]
<1>t. /\ sockets \in [Ports -> PortSockets] /\ stoppedPorts \in SUBSET Ports
      /\ PortsOK(st) /\ ListenersTypeOK
  BY DEF PortsIInv, ListenersTypeOK, PortSockets
<1>1. ASSUME StoreConfig PROVE PortsIInv'
  <2>1. ListenersTypeOK'
    <3>1. MaxStores \in Nat
      BY ListenersAssumption
    <3>2. stores' \in 0..MaxStores
      BY <1>1, <1>t, <3>1 DEF StoreConfig, ListenersTypeOK
    <3>3. stored' \in PortConfigs /\ synced' \in BOOLEAN /\ UNCHANGED <<sockets, stoppedPorts, taken, asking>>
      BY <1>1 DEF StoreConfig
    <3> QED
      BY <1>t, <3>2, <3>3 DEF ListenersTypeOK
  <2> QED
    BY <1>1, <2>1 DEF StoreConfig, PortsIInv, PortsOK, PortStates, PortSockets, isOpen, NoAsk
<1>2. ASSUME SyncListeners PROVE PortsIInv'
  <2> DEFINE after == syncListeners(st, stored)
  <2>1. stored \in Seq([name : Ports, addr : Addrs])
    BY <1>t, ListenersAssumption DEF ListenersTypeOK
  <2>2. /\ PortsOK(after)
        /\ \A n \in Ports : n \notin names(stored) => after.ports[n] = Closed /\ n \notin after.stopped
    BY <1>t, <2>1, SyncedAll
  <2>3. sockets' = after.ports /\ stoppedPorts' = after.stopped /\ UNCHANGED <<stored, taken, asking, stores>> /\ synced'
    BY <1>2 DEF SyncListeners
  <2> HIDE DEF after
  <2>4. after = [ports |-> sockets', stopped |-> stoppedPorts']
    BY <2>2, <2>3 DEF PortsOK, PortStates
  <2>5. sockets' \in [Ports -> PortSockets] /\ stoppedPorts' \subseteq Ports
    BY <2>2, <2>3 DEF PortsOK, PortStates
  <2>6. ListenersTypeOK'
    BY <1>2, <1>t, <2>3, <2>5 DEF ListenersTypeOK, PortSockets, SyncListeners
  <2>7. PortsOK([ports |-> sockets', stopped |-> stoppedPorts'])
    BY <2>2, <2>4
  <2> QED
    BY <2>2, <2>3, <2>6, <2>7 DEF PortsIInv, PortsOK, PortStates, PortSockets, isOpen, NoAsk, names
<1>3. ASSUME NEW stop \in BOOLEAN, Ask(stop) PROVE PortsIInv'
  <2>1. PICK i \in DOMAIN stored : asking' = [stop |-> stop, name |-> stored[i].name, addr |-> stored[i].addr]
    BY <1>3 DEF Ask
  <2>2. stored \in Seq([name : Ports, addr : Addrs])
    BY <1>t, ListenersAssumption DEF ListenersTypeOK
  <2>3. stored[i].name \in Ports /\ stored[i].addr \in Addrs
    <3>1. i \in 1..Len(stored)
      BY <2>2
    <3>2. stored[i] \in [name : Ports, addr : Addrs]
      BY <2>2, <3>1, ElementOfSeq
    <3> QED
      BY <3>2
  <2> QED
    BY <1>3, <2>1, <2>3 DEF Ask, PortsIInv, ListenersTypeOK, PortsOK, PortStates, PortSockets, isOpen, NoAsk, names
<1>4. ASSUME SetStopped PROVE PortsIInv'
  <2> DEFINE n == asking.name
             sock == bound(sockets, asking.addr)
  <2>1. n \in Ports /\ asking.addr \in Addrs /\ asking' = NoAsk /\ UNCHANGED <<stored, synced, taken, stores>>
    BY <1>4 DEF SetStopped, PortsIInv
  <2>2. NoAsk \in [stop : BOOLEAN, name : Ports \cup {Closed}, addr : Addrs \cup {Closed}]
    BY DEF NoAsk
  <2>3. SUFFICES /\ sockets' \in [Ports -> PortSockets] /\ stoppedPorts' \in SUBSET Ports
                 /\ PortsOK([ports |-> sockets', stopped |-> stoppedPorts'])
                 /\ \A m \in Ports : /\ sockets[m] = Closed => sockets'[m] = Closed
                                     /\ m \in stoppedPorts' => m \in stoppedPorts \/ sockets[m] # Closed
    <3>1. ListenersTypeOK'
      BY <1>t, <2>1, <2>2, <2>3 DEF ListenersTypeOK, PortSockets
    <3>2. synced' => \A m \in Ports : m \notin names(stored)' => sockets'[m] = Closed /\ m \notin stoppedPorts'
      BY <2>1, <2>3 DEF PortsIInv, names
    <3> QED
      BY <2>1, <2>3, <3>1, <3>2 DEF PortsIInv, PortsOK, PortStates, PortSockets, isOpen, NoAsk
  <2>4. CASE sockets[n] = Closed /\ UNCHANGED <<sockets, stoppedPorts>>
    BY <1>t, <2>4 DEF PortsOK, PortStates, PortSockets, isOpen
  <2> DEFINE placed(s) == [st.ports EXCEPT ![n] = [addr |-> sockets[n].addr, sock |-> s]]
  <2>p. sockets[n] # Closed => /\ sockets[n].addr \in Addrs
                               /\ \A s : [sockets EXCEPT ![n].sock = s] = placed(s)
    BY <1>t, <2>1 DEF PortSockets
  <2>5. CASE /\ sockets[n] # Closed /\ stoppedPorts' = stoppedPorts \cup {n}
             /\ sockets' = [sockets EXCEPT ![n].sock = Closed]
    <3>1. sockets' = placed(Closed)
      BY <2>p, <2>5
    <3>2. \A m \in Ports : m # n /\ isOpen(sockets[m]) => sockets[m].sock # Closed
      BY DEF isOpen
    <3>3. PortsOK([ports |-> placed(Closed), stopped |-> stoppedPorts \cup {n}])
      <4>1. /\ Closed \in Addrs \cup {Closed} /\ stoppedPorts \cup {n} \in SUBSET Ports
            /\ stoppedPorts \cup {n} \subseteq st.stopped \cup {n} /\ sockets[n].addr \in Addrs
        BY <1>t, <2>1, <2>5, <2>p
      <4> QED
        BY <1>t, <2>1, <3>2, <4>1, PlacedPort
    <3> QED
      BY <1>t, <2>1, <2>5, <3>1, <3>3 DEF PortsOK, PortStates
  <2>s. sock \in Addrs \cup {Closed} /\ \A m \in Ports : isOpen(sockets[m]) => sockets[m].sock # sock
    BY <2>1 DEF bound, inUse, isOpen
  <2>6. CASE /\ sockets[n] # Closed /\ ~isOpen(sockets[n]) /\ sockets' = [sockets EXCEPT ![n].sock = sock]
             /\ stoppedPorts' = IF sock = Closed THEN stoppedPorts ELSE stoppedPorts \ {n}
    <3> HIDE DEF sock
    <3>1. sockets' = placed(sock)
      BY <2>p, <2>6
    <3>2. stoppedPorts' \in SUBSET Ports /\ stoppedPorts' \subseteq stoppedPorts \cup {n} /\ (n \in stoppedPorts' => sock = Closed)
      BY <1>t, <2>6
    <3>3. PortsOK([ports |-> placed(sock), stopped |-> stoppedPorts'])
      BY <1>t, <2>1, <2>6, <2>p, <2>s, <3>2, PlacedPort
    <3> QED
      BY <1>t, <2>1, <2>6, <3>1, <3>3 DEF PortsOK, PortStates
  <2>7. CASE sockets[n] # Closed /\ stoppedPorts' = stoppedPorts \ {n} /\ UNCHANGED sockets
    BY <1>t, <2>7 DEF PortsOK, PortStates, PortSockets, isOpen
  <2> QED
    BY <1>4, <2>4, <2>5, <2>6, <2>7 DEF SetStopped
<1>5. ASSUME OthersBind PROVE PortsIInv'
  <2>1. taken' \subseteq Elsewhere /\ UNCHANGED <<stored, synced, sockets, stoppedPorts, asking, stores>>
    BY <1>5, <1>t DEF OthersBind, ListenersTypeOK
  <2> QED
    BY <2>1 DEF PortsIInv, ListenersTypeOK, PortsOK, PortStates, PortSockets, isOpen, NoAsk, names
<1> QED
  BY <1>1, <1>2, <1>3, <1>4, <1>5 DEF ListenersNext

\* A stopped listener has no socket, no two hold one address, and once a
\* configuration is in place nothing is left of the listeners it does not name
\* (Server.syncListeners, setListenerStopped), for every set of configurations
\* and whatever other programs hold.
THEOREM PortsAreTheConfig == ListenersSpec => [](ListenersTypeOK /\ PortsFollowConfig)
<1>1. ListenersInit => PortsIInv
  BY InitPorts
<1>2. PortsIInv /\ [ListenersNext]_listenerVars => PortsIInv'
  <2>1. ASSUME PortsIInv, UNCHANGED listenerVars PROVE PortsIInv'
    BY <2>1 DEF listenerVars, PortsIInv, ListenersTypeOK, PortsOK, PortStates, PortSockets, isOpen, NoAsk, names
  <2> QED
    BY <2>1, PortsStep
<1>3. PortsIInv => ListenersTypeOK /\ PortsFollowConfig
  BY PortsImply
<1> QED
  BY <1>1, <1>2, <1>3, PTL DEF ListenersSpec

-----------------------------------------------------------------------------
(* Orders of rules *)

\* A strict order of I in which any two are related.
TotalOrder(I, R) ==
  /\ \A i \in I : <<i, i>> \notin R
  /\ \A i, j \in I : i # j => <<i, j>> \in R \/ <<j, i>> \in R
  /\ \A i, j, k \in I : <<i, j>> \in R /\ <<j, k>> \in R => <<i, k>> \in R

Below(I, R, i) == {j \in I : <<j, i>> \in R}

\* The places of an order of I are numbered from one end to the other.
LEMMA Ranks ==
  ASSUME NEW I, IsFiniteSet(I), NEW R, TotalOrder(I, R)
  PROVE  /\ Cardinality(I) \in Nat
         /\ \A i \in I : Cardinality(Below(I, R, i)) \in 0..(Cardinality(I) - 1)
         /\ \A i, j \in I : <<i, j>> \in R => Cardinality(Below(I, R, i)) < Cardinality(Below(I, R, j))
<1>1. ASSUME NEW i \in I
      PROVE  /\ IsFiniteSet(Below(I, R, i)) /\ Cardinality(Below(I, R, i)) \in Nat
             /\ Below(I, R, i) \cup {i} \in SUBSET I /\ i \notin Below(I, R, i)
             /\ IsFiniteSet(Below(I, R, i) \cup {i})
             /\ Cardinality(Below(I, R, i) \cup {i}) = Cardinality(Below(I, R, i)) + 1
  <2>1. Below(I, R, i) \in SUBSET I /\ i \notin Below(I, R, i)
    BY DEF Below, TotalOrder
  <2>2. IsFiniteSet(Below(I, R, i))
    BY <2>1, FS_Subset
  <2>3. Cardinality(Below(I, R, i)) \in Nat
    BY <2>2, FS_CardinalityType
  <2>4. IsFiniteSet(Below(I, R, i) \cup {i}) /\ Cardinality(Below(I, R, i) \cup {i}) = Cardinality(Below(I, R, i)) + 1
    BY <2>1, <2>2, FS_AddElement
  <2> QED
    BY <2>1, <2>2, <2>3, <2>4
<1>2. Cardinality(I) \in Nat
  BY FS_CardinalityType
<1>3. ASSUME NEW i \in I PROVE Cardinality(Below(I, R, i)) \in 0..(Cardinality(I) - 1)
  <2> DEFINE b == Cardinality(Below(I, R, i))
             N == Cardinality(I)
  <2>1. Cardinality(Below(I, R, i) \cup {i}) <= N
    BY <1>1, FS_Subset
  <2>2. b \in Nat /\ N \in Nat /\ b + 1 <= N
    BY <1>1, <1>2, <2>1
  <2> HIDE DEF b, N
  <2>3. b \in 0..(N - 1)
    BY <2>2
  <2> QED
    BY <2>3 DEF b, N
<1>4. ASSUME NEW i \in I, NEW j \in I, <<i, j>> \in R
      PROVE  Cardinality(Below(I, R, i)) < Cardinality(Below(I, R, j))
  <2>1. Below(I, R, i) \cup {i} \in SUBSET Below(I, R, j)
    BY <1>4 DEF Below, TotalOrder
  <2> DEFINE b == Cardinality(Below(I, R, i))
             c == Cardinality(Below(I, R, j))
  <2>2. Cardinality(Below(I, R, i) \cup {i}) <= c
    BY <1>1, <2>1, FS_Subset
  <2>3. b \in Nat /\ c \in Nat /\ b + 1 <= c
    BY <1>1, <2>2
  <2> HIDE DEF b, c
  <2>4. b < c
    BY <2>3
  <2> QED
    BY <2>4 DEF b, c
<1> QED
  BY <1>2, <1>3, <1>4

\* An order of I has every member of I at its rank, and no other.
LEMMA OrderIsRanked ==
  ASSUME NEW I, IsFiniteSet(I), NEW R, TotalOrder(I, R)
  PROVE  /\ inOrder(I, R) \in [1..Cardinality(I) -> I]
         /\ \A i \in I : inOrder(I, R)[Cardinality(Below(I, R, i)) + 1] = i
         /\ \A n \in 1..Cardinality(I) : Cardinality(Below(I, R, inOrder(I, R)[n])) = n - 1
<1> DEFINE N == Cardinality(I)
           rank(i) == Cardinality(Below(I, R, i))
<1>1. N \in Nat /\ (\A i \in I : rank(i) \in 0..(N - 1)) /\ \A i, j \in I : <<i, j>> \in R => rank(i) < rank(j)
  BY Ranks
<1>2. \A i, j \in I : rank(i) = rank(j) => i = j
  <2> SUFFICES ASSUME NEW i \in I, NEW j \in I, i # j PROVE rank(i) # rank(j)
    OBVIOUS
  <2>1. <<i, j>> \in R \/ <<j, i>> \in R
    BY DEF TotalOrder
  <2>2. rank(i) < rank(j) \/ rank(j) < rank(i)
    BY <1>1, <2>1
  <2>3. rank(i) \in Int /\ rank(j) \in Int
    BY <1>1
  <2> HIDE DEF rank
  <2> QED
    BY <2>2, <2>3
<1>3. inOrder(I, R) = [n \in 1..N |-> CHOOSE i \in I : rank(i) = n - 1]
  BY DEF inOrder, Below
<1>4. ASSUME NEW n \in 1..N PROVE \E i \in I : rank(i) = n - 1
  <2>1. SUFFICES ASSUME \A i \in I : rank(i) # n - 1 PROVE FALSE
    OBVIOUS
  <2> DEFINE T == (0..(N - 1)) \ {n - 1}
             f == [i \in I |-> rank(i)]
  <2>2. f \in [I -> T]
    BY <1>1, <2>1
  <2>3. IsFiniteSet(0..(N - 1)) /\ Cardinality(0..(N - 1)) = N
    <3>1. 0 \in Int /\ N - 1 \in Int /\ ~(0 > N - 1) /\ (N - 1) - 0 + 1 = N
      BY <1>1
    <3> HIDE DEF N
    <3> QED
      BY <3>1, FS_Interval
  <2>4. IsFiniteSet(T) /\ Cardinality(T) = N - 1
    <3> DEFINE S == 0..(N - 1)
               x == n - 1
    <3>1. x \in S /\ IsFiniteSet(S) /\ Cardinality(S) = N
      BY <1>1, <2>3
    <3> HIDE DEF S, x, N
    <3>2. IsFiniteSet(S \ {x}) /\ Cardinality(S \ {x}) = N - 1
      BY <3>1, FS_RemoveElement
    <3> QED
      BY <3>2 DEF S, x
  <2>5. Cardinality(T) < Cardinality(I)
    BY <2>4, <1>1
  <2>6. \A i, j \in I : i # j => f[i] # f[j]
    BY <1>2
  <2> HIDE DEF T, f
  <2> QED
    BY <2>2, <2>4, <2>5, <2>6, FS_PigeonHole
<1> HIDE DEF rank
<1>5. inOrder(I, R) \in [1..N -> I]
  BY <1>3, <1>4
<1>6. ASSUME NEW i \in I PROVE inOrder(I, R)[rank(i) + 1] = i
  <2>1. rank(i) + 1 \in 1..N /\ (rank(i) + 1) - 1 = rank(i)
    BY <1>1
  <2>2. inOrder(I, R)[rank(i) + 1] = CHOOSE j \in I : rank(j) = rank(i)
    BY <1>3, <2>1
  <2> QED
    BY <1>2, <2>2
<1>7. \A n \in 1..N : rank(inOrder(I, R)[n]) = n - 1
  BY <1>3, <1>4
<1> QED
  BY <1>5, <1>6, <1>7 DEF rank

\* What an order has first of T is the least of I's in T.
LEMMA FirstInOrder ==
  ASSUME NEW I, IsFiniteSet(I), NEW R, TotalOrder(I, R), NEW T, NEW f, f = firstIn(inOrder(I, R), T)
  PROVE  /\ I \cap T = {} => f = noRule
         /\ I \cap T # {} => f \in I \cap T /\ \A j \in I \cap T : j # f => <<f, j>> \in R
<1> DEFINE N == Cardinality(I)
           order == inOrder(I, R)
           rank(i) == Cardinality(Below(I, R, i))
           at == {k \in DOMAIN order : order[k] \in T}
           first == CHOOSE k \in at : \A l \in at : k <= l
<1>1. /\ N \in Nat /\ (\A i \in I : rank(i) \in 0..(N - 1)) /\ \A i, j \in I : <<i, j>> \in R => rank(i) < rank(j)
      /\ order \in [1..N -> I] /\ \A i \in I : order[rank(i) + 1] = i
      /\ \A n \in 1..N : rank(order[n]) = n - 1
  BY Ranks, OrderIsRanked
<1>2. f = IF at = {} THEN noRule ELSE order[first]
  BY DEF firstIn
<1> HIDE DEF rank, order, N
<1>3. at \in SUBSET (1..N) /\ \A k \in at : order[k] \in I \cap T
  BY <1>1
<1>4. \A i \in I \cap T : rank(i) + 1 \in at
  BY <1>1
<1>5. CASE at = {}
  BY <1>2, <1>4, <1>5
<1>6. CASE at # {}
  <2>1. \E k \in at : \A l \in at : k <= l
    <3>1. at \subseteq Nat /\ at # {}
      BY <1>3, <1>6
    <3> HIDE DEF at
    <3>2. PICK k0 \in at : TRUE
      BY <1>6
    <3> DEFINE U == {n \in Nat : \A k \in at : k > n}
    <3>3. SUFFICES ASSUME \A k \in at : \E l \in at : l < k PROVE FALSE
      BY <3>1
    <3>4. 0 \in U
      BY <3>1, <3>3
    <3>5. \A n \in Nat : n \in U => n + 1 \in U
      BY <3>1, <3>3
    <3> HIDE DEF U
    <3>6. k0 \in U
      BY <3>1, <3>4, <3>5, SetInduction
    <3> QED
      BY <3>6, <3>1 DEF U
  <2>2. first \in at /\ \A l \in at : first <= l
    BY <2>1
  <2> HIDE DEF first
  <2>3. f = order[first] /\ f \in I \cap T
    BY <1>2, <1>3, <1>6, <2>2
  <2>4. first \in 1..N /\ rank(f) = first - 1
    BY <1>1, <1>3, <2>2, <2>3
  <2>5. ASSUME NEW j \in I \cap T, j # f PROVE <<f, j>> \in R
    <3>1. first <= rank(j) + 1 /\ rank(j) \in 0..(N - 1)
      BY <1>1, <1>4, <2>2
    <3>2. ~(rank(j) < rank(f))
      <4> HIDE DEF at
      <4> QED
        BY <2>4, <3>1, <1>1
    <3>3. <<f, j>> \in R \/ <<j, f>> \in R
      BY <2>3, <2>5 DEF TotalOrder
    <3> HIDE DEF at
    <3> QED
      BY <1>1, <2>3, <3>2, <3>3
  <2> QED
    BY <1>6, <2>3, <2>5
<1> QED
  BY <1>5, <1>6

\* A stable sort by two numbers is by them, then by place.
LEMMA StablyTotal ==
  ASSUME NEW I \in SUBSET Nat, NEW kind \in [I -> Int], NEW chars \in [I -> Int], NEW less,
         \A i, j \in I : <<i, j>> \in less <=> (kind[i] < kind[j] \/ (kind[i] = kind[j] /\ chars[i] > chars[j]))
  PROVE  /\ TotalOrder(I, stably(I, less))
         /\ \A i, j \in I : <<i, j>> \in stably(I, less) <=>
              (kind[i] < kind[j] \/ (kind[i] = kind[j] /\ (chars[i] > chars[j] \/ (chars[i] = chars[j] /\ i < j))))
<1> DEFINE before(i, j) ==
             kind[i] < kind[j] \/ (kind[i] = kind[j] /\ (chars[i] > chars[j] \/ (chars[i] = chars[j] /\ i < j)))
<1>1. ASSUME NEW i \in I, NEW j \in I PROVE <<i, j>> \in stably(I, less) <=> before(i, j)
  <2>1. <<i, j>> \in stably(I, less) <=> <<i, j>> \in less \/ (<<j, i>> \notin less /\ i < j)
    BY DEF stably
  <2>2. kind[i] \in Int /\ kind[j] \in Int /\ chars[i] \in Int /\ chars[j] \in Int
    OBVIOUS
  <2> QED
    BY <2>1, <2>2
<1>2. \A i \in I : kind[i] \in Int /\ chars[i] \in Int /\ i \in Int
  OBVIOUS
<1>3. \A i, j, k \in I : before(i, j) /\ before(j, k) => before(i, k)
  BY <1>2
<1>4. \A i, j \in I : ~before(i, i) /\ (i # j => before(i, j) \/ before(j, i))
  BY <1>2
<1> HIDE DEF before
<1>5. \A i, j \in I : <<i, j>> \in stably(I, less) <=> before(i, j)
  BY <1>1
<1>6. TotalOrder(I, stably(I, less))
  BY <1>3, <1>4, <1>5 DEF TotalOrder
<1> QED
  BY <1>5, <1>6 DEF before

\* What a stable sort has first of T.
LEMMA FirstSorted ==
  ASSUME NEW I \in SUBSET Nat, IsFiniteSet(I), NEW kind \in [I -> Int], NEW chars \in [I -> Int], NEW less,
         \A i, j \in I : <<i, j>> \in less <=> (kind[i] < kind[j] \/ (kind[i] = kind[j] /\ chars[i] > chars[j])),
         NEW T, NEW f, f = firstIn(stableOrder(I, less), T)
  PROVE  /\ I \cap T = {} => f = noRule
         /\ I \cap T # {} => /\ f \in I \cap T
                            /\ \A j \in I \cap T : j # f =>
                                 \/ kind[f] < kind[j]
                                 \/ kind[f] = kind[j] /\ (chars[f] > chars[j] \/ (chars[f] = chars[j] /\ f < j))
<1> DEFINE R == stably(I, less)
           before(i, j) == kind[i] < kind[j] \/ (kind[i] = kind[j] /\ (chars[i] > chars[j] \/ (chars[i] = chars[j] /\ i < j)))
<1>1. TotalOrder(I, R) /\ \A i, j \in I : <<i, j>> \in R <=> before(i, j)
  BY StablyTotal
<1>2. f = firstIn(inOrder(I, R), T)
  BY DEF stableOrder
<1> HIDE DEF R, before
<1>3. I \cap T = {} => f = noRule
  BY <1>1, <1>2, FirstInOrder
<1>4. I \cap T # {} => f \in I \cap T /\ \A j \in I \cap T : j # f => <<f, j>> \in R
  BY <1>1, <1>2, FirstInOrder
<1>5. I \cap T # {} => f \in I \cap T /\ \A j \in I \cap T : j # f => before(f, j)
  BY <1>1, <1>4
<1> QED
  BY <1>3, <1>5 DEF before

-----------------------------------------------------------------------------
(* The rules of a file *)

Labels == DOMAIN LabelChars

\* A domain has a number of literal characters.
LEMMA LiteralCharsInt ==
  ASSUME NEW d \in Seq(Labels)
  PROVE  literalChars(d) \in Int
<1> DEFINE N == Len(d)
           U == [n \in Int |-> [i \in 1..N |-> n + LabelChars[d[i]]]]
           runs(g) == g = [i \in 0..N |-> IF i = 0 THEN N - 1 ELSE g[i - 1] + LabelChars[d[i]]]
<1>1. N \in Nat /\ N - 1 \in Int
  OBVIOUS
<1>2. ASSUME NEW n \in Int, NEW i \in 1..N PROVE n + LabelChars[d[i]] \in Int
  BY RuleTableAssumption, ElementOfSeq DEF Labels
<1>3. U \in [Int -> [1..N -> Int]]
  BY <1>2
<1>4. PICK f \in [0..N -> Int] : Folded(f, N - 1, U, N)
  <2> HIDE DEF U, N
  <2> QED
    BY <1>1, <1>3, FoldExists, Zenon
<1>5. \A i \in 1..N : f[i] = f[i - 1] + LabelChars[d[i]]
  <2>1. SUFFICES ASSUME NEW i \in 1..N PROVE f[i] = f[i - 1] + LabelChars[d[i]]
    OBVIOUS
  <2>2. f[i - 1] \in Int
    OBVIOUS
  <2>3. f[i] = U[f[i - 1]][i]
    BY <1>4 DEF Folded
  <2> QED
    BY <2>2, <2>3
<1>6. runs(f)
  <2>1. f[0] = N - 1
    BY <1>4 DEF Folded
  <2> QED
    BY <2>1, <1>5
<1> DEFINE upTo == CHOOSE g : runs(g)
<1>7. runs(upTo)
  <2> HIDE DEF runs
  <2> QED
    BY <1>6
<1>8. literalChars(d) = upTo[N]
  BY DEF literalChars
<1> DEFINE T == {i \in 0..N : upTo[i] \in Int}
<1> HIDE DEF upTo
<1>9. 0 \in T
  BY <1>1, <1>7
<1>10. \A i \in 0..(N - 1) : i \in T => i + 1 \in T
  <2>1. SUFFICES ASSUME NEW i \in 0..(N - 1), upTo[i] \in Int PROVE upTo[i + 1] \in Int
    OBVIOUS
  <2>2. i + 1 \in 1..N /\ (i + 1) - 1 = i
    OBVIOUS
  <2>3. upTo[i + 1] = upTo[i] + LabelChars[d[i + 1]]
    BY <1>7, <2>2
  <2> QED
    BY <1>2, <2>1, <2>2, <2>3
<1>11. 0..N \subseteq T
  <2> HIDE DEF T, N
  <2> QED
    BY <1>1, <1>9, <1>10, BoundedInduction, Zenon
<1> QED
  BY <1>1, <1>8, <1>11

FileRules == [listener : TableListeners, domain : Domains, target : Targets, auth : GroupNames \cup {""}]

LEMMA ItemRulesTyped ==
  ASSUME NEW item \in RouteItems
  PROVE  itemRules(item) \in Seq(FileRules)
<1>1. item.rules \in Seq(RuleEntries) /\ item.listener \in TableListeners
  BY DEF RouteItems
<1>2. \A k \in 1..Len(item.rules) : [item.rules[k] EXCEPT !.listener = item.listener] \in FileRules
  <2> SUFFICES ASSUME NEW k \in 1..Len(item.rules)
      PROVE [item.rules[k] EXCEPT !.listener = item.listener] \in FileRules
    OBVIOUS
  <2>1. item.rules[k] \in RuleEntries
    BY <1>1, ElementOfSeq
  <2> QED
    BY <1>1, <2>1 DEF RuleEntries, FileRules
<1>3. DOMAIN item.rules = 1..Len(item.rules) /\ Len(item.rules) \in Nat
  BY <1>1
<1> QED
  BY <1>2, <1>3 DEF itemRules

\* The rules one item adds to those of the items before it.
LEMMA RawRulesFold ==
  ASSUME NEW t \in Texts
  PROVE  \E f \in [0..Len(t.groups) -> Seq(FileRules)] :
           /\ f[0] = <<>> /\ rawRules(t) = f[Len(t.groups)]
           /\ \A i \in 1..Len(t.groups) : f[i] = f[i - 1] \o itemRules(t.groups[i])
<1> DEFINE N == Len(t.groups)
           D == Seq(FileRules)
           more(s, i) == s \o itemRules(t.groups[i])
           U == [s \in D |-> [i \in 1..N |-> more(s, i)]]
           runs(g) == g = [i \in 0..N |-> IF i = 0 THEN <<>> ELSE more(g[i - 1], i)]
<1>1. N \in Nat /\ <<>> \in D
  BY DEF Texts
<1>2. ASSUME NEW s \in D, NEW i \in 1..N PROVE more(s, i) \in D
  <2>1. t.groups[i] \in RouteItems
    BY ElementOfSeq DEF Texts
  <2>2. itemRules(t.groups[i]) \in D
    BY <2>1, ItemRulesTyped
  <2> QED
    BY <2>2, ConcatProperties
<1>3. U \in [D -> [1..N -> D]]
  BY <1>2
<1>4. PICK f \in [0..N -> D] : Folded(f, <<>>, U, N)
  <2> HIDE DEF U, N, D
  <2> QED
    BY <1>1, <1>3, FoldExists, Zenon
<1>5. \A i \in 1..N : f[i] = more(f[i - 1], i)
  <2>1. SUFFICES ASSUME NEW i \in 1..N PROVE f[i] = more(f[i - 1], i)
    OBVIOUS
  <2>2. f[i - 1] \in D
    OBVIOUS
  <2>3. f[i] = U[f[i - 1]][i]
    BY <1>4 DEF Folded
  <2> HIDE DEF D
  <2> QED
    BY <2>2, <2>3
<1>6. runs(f)
  <2> HIDE DEF D, more
  <2>1. f[0] = <<>>
    BY <1>4 DEF Folded
  <2> QED
    BY <2>1, <1>5
<1> DEFINE upTo == CHOOSE g : runs(g)
<1>7. runs(upTo)
  <2> HIDE DEF runs
  <2> QED
    BY <1>6
<1>8. rawRules(t) = upTo[N]
  BY DEF rawRules
<1> DEFINE T == {i \in 0..N : upTo[i] \in D}
<1> HIDE DEF upTo, D, more
<1>9. 0 \in T /\ upTo[0] = <<>>
  BY <1>1, <1>7
<1>10. \A i \in 0..(N - 1) : upTo[i + 1] = more(upTo[i], i + 1) /\ (i \in T => i + 1 \in T)
  <2>1. SUFFICES ASSUME NEW i \in 0..(N - 1)
                 PROVE  upTo[i + 1] = more(upTo[i], i + 1) /\ (upTo[i] \in D => upTo[i + 1] \in D)
    OBVIOUS
  <2>2. i + 1 \in 1..N /\ (i + 1) - 1 = i
    OBVIOUS
  <2>3. upTo[i + 1] = more(upTo[i], i + 1)
    BY <1>7, <2>2
  <2> QED
    BY <1>2, <2>2, <2>3
<1>11. 0..N \subseteq T
  <2> HIDE DEF T, N
  <2> QED
    BY <1>1, <1>9, <1>10, BoundedInduction, Zenon
<1>12. upTo \in [0..N -> D]
  <2>1. \A i \in 0..N : upTo[i] \in D
    BY <1>11
  <2>2. upTo = [i \in 0..N |-> upTo[i]]
    BY <1>7
  <2> QED
    BY <2>1, <2>2
<1>13. \A i \in 1..N : upTo[i] = upTo[i - 1] \o itemRules(t.groups[i])
  <2>1. SUFFICES ASSUME NEW i \in 1..N PROVE upTo[i] = more(upTo[i - 1], i)
    BY DEF more
  <2>2. i - 1 \in 0..(N - 1) /\ (i - 1) + 1 = i
    BY <1>1
  <2> QED
    BY <1>10, <2>2
<1> HIDE DEF N
<1> QED
  BY <1>8, <1>9, <1>12, <1>13 DEF D, N

LEMMA RawRulesTyped ==
  ASSUME NEW t \in Texts
  PROVE  rawRules(t) \in Seq(FileRules)
<1>1. Len(t.groups) \in Nat
  BY DEF Texts
<1>2. PICK f \in [0..Len(t.groups) -> Seq(FileRules)] : rawRules(t) = f[Len(t.groups)]
  BY RawRulesFold
<1>3. Len(t.groups) \in 0..Len(t.groups)
  BY <1>1
<1> QED
  BY <1>2, <1>3

-----------------------------------------------------------------------------
(* Routing *)

LEMMA Classes ==
  ASSUME NEW d
  PROVE  /\ classify(d) \in Int
         /\ classify(d) \in {kindNone, kindLiteral, kindWildcard, kindCatchAll}
         /\ classify(d) = kindNone <=> d = NoSNI
         /\ classify(d) = kindCatchAll <=> d = AnythingElse
         /\ classify(d) = kindLiteral => d # NoSNI /\ d # AnythingElse /\ \A i \in DOMAIN d : ~hasStar(d[i])
<1>1. NoSNI # AnythingElse /\ (d = NoSNI \/ d = AnythingElse => \A i \in DOMAIN d : ~hasStar(d[i]))
  BY RuleTableAssumption DEF NoSNI, AnythingElse, hasStar
<1> DEFINE wild == \E i \in DOMAIN d : hasStar(d[i])
<1>2. classify(d) = CASE d = NoSNI -> kindNone [] d = AnythingElse -> kindCatchAll
                      [] wild -> kindWildcard [] OTHER -> kindLiteral
  BY DEF classify
<1>3. ~wild <=> \A i \in DOMAIN d : ~hasStar(d[i])
  OBVIOUS
<1> HIDE DEF wild
<1>4. CASE d = NoSNI
  <2>1. classify(d) = kindNone
    BY <1>1, <1>2, <1>3, <1>4, Zenon
  <2> QED
    BY <1>1, <1>4, <2>1 DEF kindNone, kindLiteral, kindWildcard, kindCatchAll
<1>5. CASE d = AnythingElse
  <2>1. classify(d) = kindCatchAll
    BY <1>1, <1>2, <1>3, <1>5, Zenon
  <2> QED
    BY <1>1, <1>5, <2>1 DEF kindNone, kindLiteral, kindWildcard, kindCatchAll
<1>6. CASE d # NoSNI /\ d # AnythingElse /\ wild
  <2>1. classify(d) = kindWildcard
    BY <1>2, <1>6, Zenon
  <2> QED
    BY <1>6, <2>1 DEF kindNone, kindLiteral, kindWildcard, kindCatchAll
<1>7. CASE d # NoSNI /\ d # AnythingElse /\ ~wild
  <2>1. classify(d) = kindLiteral
    BY <1>2, <1>7, Zenon
  <2> QED
    BY <1>3, <1>7, <2>1 DEF kindNone, kindLiteral, kindWildcard, kindCatchAll
<1> QED
  BY <1>4, <1>5, <1>6, <1>7

\* Domains are sequences of labels, none empty, and none is on a listener twice.
TableOK(rs) ==
  /\ Len(rs) \in Nat /\ DOMAIN rs = 1..Len(rs)
  /\ \A i \in DOMAIN rs : rs[i].domain \in Seq(Labels) /\ rs[i].domain # <<>>
  /\ \A i, j \in DOMAIN rs : rs[i].listener = rs[j].listener /\ rs[i].domain = rs[j].domain => i = j

Fit(rs, n, sni, stopped) == {i \in rulesOf(rs, n) : Key(rs[i]) \notin stopped /\ matches(rs[i].domain, sni)}

\* A literal matches itself only.
LEMMA LiteralMatches ==
  ASSUME NEW d \in Seq(Labels), classify(d) = kindLiteral, NEW sni \in Seq(STRING)
  PROVE  matches(d, sni) <=> d = sni
<1>1. d # NoSNI /\ d # AnythingElse /\ \A i \in DOMAIN d : ~hasStar(d[i])
  BY Classes
<1>2. matches(d, sni) <=> Len(sni) = Len(d) /\ \A i \in DOMAIN d : sni[i] = d[i]
  BY <1>1, Zenon DEF matches
<1>3. ASSUME Len(sni) = Len(d), \A i \in DOMAIN d : sni[i] = d[i] PROVE d = sni
  <2>1. d \in Seq(Labels \cup STRING) /\ sni \in Seq(Labels \cup STRING)
    BY SeqMonotonic
  <2>2. DOMAIN d = 1..Len(d)
    OBVIOUS
  <2> QED
    BY <1>3, <2>1, <2>2, SeqEqual
<1> QED
  BY <1>2, <1>3

\* The rules looked up by name: at most one matches, and nothing but the rules
\* of its listener comes before it.
LEMMA LookUp ==
  ASSUME NEW rs, TableOK(rs), NEW n, NEW sni \in Seq(STRING), NEW stopped
  PROVE  /\ {i \in literals(rs, n, sni) : Key(rs[i]) \notin stopped}
              = {i \in Fit(rs, n, sni, stopped) : classify(rs[i].domain) = kindLiteral}
         /\ \A i, j \in Fit(rs, n, sni, stopped) :
              classify(rs[i].domain) = kindLiteral /\ j # i => classify(rs[i].domain) < classify(rs[j].domain)
<1>1. ASSUME NEW i \in rulesOf(rs, n), classify(rs[i].domain) = kindLiteral
      PROVE  matches(rs[i].domain, sni) <=> rs[i].domain = sni
  <2>1. rs[i].domain \in Seq(Labels)
    BY DEF rulesOf, TableOK
  <2> QED
    BY <1>1, <2>1, LiteralMatches
<1>2. {i \in literals(rs, n, sni) : Key(rs[i]) \notin stopped}
        = {i \in Fit(rs, n, sni, stopped) : classify(rs[i].domain) = kindLiteral}
  BY <1>1 DEF literals, Fit
<1>3. ASSUME NEW i \in Fit(rs, n, sni, stopped), NEW j \in Fit(rs, n, sni, stopped),
             classify(rs[i].domain) = kindLiteral, j # i
      PROVE  classify(rs[i].domain) < classify(rs[j].domain)
  <2>1. i \in rulesOf(rs, n) /\ j \in rulesOf(rs, n) /\ rs[i].domain = sni /\ matches(rs[j].domain, sni)
    BY <1>1, <1>3 DEF Fit
  <2>2. sni # <<>> /\ rs[j].domain # sni
    BY <1>3, <2>1 DEF rulesOf, TableOK
  <2>3. classify(rs[j].domain) # kindLiteral
    BY <1>1, <2>1, <2>2
  <2>4. classify(rs[j].domain) # kindNone
    <3>1. SUFFICES ASSUME rs[j].domain = NoSNI PROVE FALSE
      BY Classes
    <3>2. matches(NoSNI, sni) => sni = <<>>
      BY DEF matches, NoSNI, AnythingElse
    <3> QED
      BY <2>1, <2>2, <3>1, <3>2
  <2> QED
    BY <1>3, <2>3, <2>4, Classes DEF kindNone, kindLiteral, kindWildcard, kindCatchAll
<1> QED
  BY <1>2, <1>3

\* The priority list is sorted by kind, literal characters and place.
LEMMA Priority ==
  ASSUME NEW rs, TableOK(rs), NEW n, NEW T
  PROVE  LET rest == {i \in rulesOf(rs, n) : classify(rs[i].domain) # kindLiteral}
             f == firstIn(byPriority(rs, n), T)
         IN /\ rest \cap T = {} => f = noRule
            /\ rest \cap T # {} => f \in rest \cap T /\ \A j \in rest \cap T : beats(rs, f, j)
<1> DEFINE rest == {i \in rulesOf(rs, n) : classify(rs[i].domain) # kindLiteral}
           kind == [i \in rest |-> classify(rs[i].domain)]
           chars == [i \in rest |-> literalChars(rs[i].domain)]
           less == {p \in rest \X rest : moreSpecific(rs[p[1]], rs[p[2]])}
           f == firstIn(byPriority(rs, n), T)
<1>1. rest \in SUBSET Nat /\ IsFiniteSet(rest)
  <2>1. rest \in SUBSET (1..Len(rs)) /\ 1..Len(rs) \in SUBSET Nat
    BY DEF rulesOf, TableOK
  <2>2. IsFiniteSet(1..Len(rs))
    BY FS_Interval DEF TableOK
  <2> QED
    BY <2>1, <2>2, FS_Subset
<1>2. kind \in [rest -> Int] /\ chars \in [rest -> Int]
  <2>1. \A i \in rest : rs[i].domain \in Seq(Labels)
    BY DEF rulesOf, TableOK
  <2> QED
    BY <2>1, Classes, LiteralCharsInt
<1>3. \A i, j \in rest : <<i, j>> \in less <=> (kind[i] < kind[j] \/ (kind[i] = kind[j] /\ chars[i] > chars[j]))
  BY DEF moreSpecific
<1>4. f = firstIn(stableOrder(rest, less), T)
  BY DEF byPriority
<1>5. ASSUME NEW i \in rest, NEW j \in rest,
             \/ i = j
             \/ kind[i] < kind[j]
             \/ kind[i] = kind[j] /\ (chars[i] > chars[j] \/ (chars[i] = chars[j] /\ i < j))
      PROVE  beats(rs, i, j)
  BY <1>1, <1>2, <1>5 DEF beats
<1> HIDE DEF rest, kind, chars, less, f
<1>6. /\ rest \cap T = {} => f = noRule
      /\ rest \cap T # {} => /\ f \in rest \cap T
                            /\ \A j \in rest \cap T : j # f =>
                                 \/ kind[f] < kind[j]
                                 \/ kind[f] = kind[j] /\ (chars[f] > chars[j] \/ (chars[f] = chars[j] /\ f < j))
  BY <1>1, <1>2, <1>3, <1>4, FirstSorted
<1>7. /\ rest \cap T = {} => f = noRule
      /\ rest \cap T # {} => f \in rest \cap T /\ \A j \in rest \cap T : beats(rs, f, j)
  BY <1>5, <1>6
<1> QED
  BY <1>7 DEF rest, f

\* So is the list the console shows, which counts literal characters of
\* wildcards only.
LEMMA Shown ==
  ASSUME NEW rs, TableOK(rs), NEW T \in SUBSET DOMAIN rs,
         NEW chars, chars = [i \in DOMAIN rs |-> IF classify(rs[i].domain) = kindWildcard THEN literalChars(rs[i].domain) ELSE 0]
  PROVE  LET f == firstIn(evaluationOrder(rs), T)
         IN /\ T = {} => f = noRule
            /\ T # {} => /\ f \in T
                         /\ \A j \in T : j # f =>
                              \/ classify(rs[f].domain) < classify(rs[j].domain)
                              \/ /\ classify(rs[f].domain) = classify(rs[j].domain)
                                 /\ chars[f] > chars[j] \/ (chars[f] = chars[j] /\ f < j)
<1> DEFINE I == DOMAIN rs
           kind == [i \in I |-> classify(rs[i].domain)]
           less == {p \in I \X I : shownBefore(rs[p[1]], rs[p[2]])}
           f == firstIn(evaluationOrder(rs), T)
<1>1. I \in SUBSET Nat /\ IsFiniteSet(I)
  <2>1. I = 1..Len(rs) /\ IsFiniteSet(1..Len(rs))
    BY FS_Interval DEF TableOK
  <2> QED
    BY <2>1 DEF TableOK
<1>2. kind \in [I -> Int] /\ chars \in [I -> Int]
  <2>1. \A i \in I : rs[i].domain \in Seq(Labels)
    BY DEF TableOK
  <2> QED
    BY <2>1, Classes, LiteralCharsInt
<1>3. \A i, j \in I : <<i, j>> \in less <=> (kind[i] < kind[j] \/ (kind[i] = kind[j] /\ chars[i] > chars[j]))
  <2> SUFFICES ASSUME NEW i \in I, NEW j \in I
      PROVE <<i, j>> \in less <=> (kind[i] < kind[j] \/ (kind[i] = kind[j] /\ chars[i] > chars[j]))
    OBVIOUS
  <2>1. <<i, j>> \in less <=> shownBefore(rs[i], rs[j])
    OBVIOUS
  <2>2. kind[i] = classify(rs[i].domain) /\ kind[j] = classify(rs[j].domain)
    OBVIOUS
  <2>3. chars[i] = (IF classify(rs[i].domain) = kindWildcard THEN literalChars(rs[i].domain) ELSE 0)
        /\ chars[j] = (IF classify(rs[j].domain) = kindWildcard THEN literalChars(rs[j].domain) ELSE 0)
    OBVIOUS
  <2> HIDE DEF less, kind
  <2> QED
    BY <2>1, <2>2, <2>3 DEF shownBefore
<1>4. f = firstIn(stableOrder(I, less), T)
  BY DEF evaluationOrder
<1>5. \A i \in I : kind[i] = classify(rs[i].domain)
  OBVIOUS
<1>6. I \cap T = T
  OBVIOUS
<1> HIDE DEF I, kind, less, f
<1>7. /\ I \cap T = {} => f = noRule
      /\ I \cap T # {} => /\ f \in I \cap T
                          /\ \A j \in I \cap T : j # f =>
                               \/ kind[f] < kind[j]
                               \/ kind[f] = kind[j] /\ (chars[f] > chars[j] \/ (chars[f] = chars[j] /\ f < j))
  BY <1>1, <1>2, <1>3, <1>4, FirstSorted
<1>8. /\ T = {} => f = noRule
      /\ T # {} => /\ f \in T
                   /\ \A j \in T : j # f =>
                        \/ classify(rs[f].domain) < classify(rs[j].domain)
                        \/ /\ classify(rs[f].domain) = classify(rs[j].domain)
                           /\ chars[f] > chars[j] \/ (chars[f] = chars[j] /\ f < j)
  <2>1. \A i \in T : i \in I
    BY <1>6
  <2> QED
    BY <1>5, <1>6, <1>7, <2>1
<1> QED
  BY <1>8 DEF f

\* A name goes to the rule of its listener that beats the others that match
\* and run, which is the first of them the console shows.
LEMMA MostSpecific ==
  ASSUME NEW rs, TableOK(rs), NEW n, NEW sni \in Seq(STRING), NEW stopped
  PROVE  LET fit == Fit(rs, n, sni, stopped)
             got == RouteExcept(rs, n, sni, stopped)
         IN /\ IF fit = {} THEN got = noRule ELSE got \in fit /\ \A j \in fit : beats(rs, got, j)
            /\ got = firstIn(evaluationOrder(rs), fit)
<1> DEFINE fit == Fit(rs, n, sni, stopped)
           got == RouteExcept(rs, n, sni, stopped)
           found == {i \in literals(rs, n, sni) : Key(rs[i]) \notin stopped}
           T == {i \in DOMAIN rs : Key(rs[i]) \notin stopped /\ matches(rs[i].domain, sni)}
           rest == {i \in rulesOf(rs, n) : classify(rs[i].domain) # kindLiteral}
<1>1. /\ found = {i \in fit : classify(rs[i].domain) = kindLiteral}
      /\ \A i, j \in fit : classify(rs[i].domain) = kindLiteral /\ j # i => classify(rs[i].domain) < classify(rs[j].domain)
  BY LookUp
<1>2. rest \cap T = {i \in fit : classify(rs[i].domain) # kindLiteral}
  BY DEF Fit, rulesOf
<1>3. got = IF found # {} THEN CHOOSE i \in found : TRUE ELSE firstIn(byPriority(rs, n), T)
  BY DEF RouteExcept
<1>4. \A i \in fit : i \in DOMAIN rs /\ i \in Int /\ rs[i].domain \in Seq(Labels) /\ rs[i].listener = n
  BY DEF Fit, rulesOf, TableOK
<1>5. \A i \in fit : classify(rs[i].domain) \in Int /\ literalChars(rs[i].domain) \in Int
  BY <1>4, Classes, LiteralCharsInt
<1>6. IF fit = {} THEN got = noRule ELSE got \in fit /\ \A j \in fit : beats(rs, got, j)
  <2>1. CASE found # {}
    <3>1. got \in found
      BY <1>3, <2>1
    <3>2. \A j \in fit : beats(rs, got, j)
      <4>1. SUFFICES ASSUME NEW j \in fit PROVE beats(rs, got, j)
        OBVIOUS
      <4>2. got \in fit /\ (j # got => classify(rs[got].domain) < classify(rs[j].domain))
        BY <1>1, <3>1
      <4> HIDE DEF got, fit
      <4> QED
        BY <1>4, <1>5, <4>2 DEF beats
    <3> QED
      BY <1>1, <3>1, <3>2
  <2>2. CASE found = {}
    <3>1. rest \cap T = fit
      BY <1>1, <1>2, <2>2
    <3>2. got = firstIn(byPriority(rs, n), T)
      BY <1>3, <2>2
    <3>3. LET f == firstIn(byPriority(rs, n), T)
          IN /\ rest \cap T = {} => f = noRule
             /\ rest \cap T # {} => f \in rest \cap T /\ \A j \in rest \cap T : beats(rs, f, j)
      <4> HIDE DEF T
      <4> QED
        BY Priority
    <3> HIDE DEF rest, T, fit, got
    <3> QED
      BY <3>1, <3>2, <3>3
  <2> QED
    BY <2>1, <2>2
<1>7. got = firstIn(evaluationOrder(rs), fit)
  <2> DEFINE f == firstIn(evaluationOrder(rs), fit)
             chars == [i \in DOMAIN rs |-> IF classify(rs[i].domain) = kindWildcard THEN literalChars(rs[i].domain) ELSE 0]
  <2>1. /\ fit = {} => f = noRule
        /\ fit # {} => /\ f \in fit
                       /\ \A j \in fit : j # f =>
                            \/ classify(rs[f].domain) < classify(rs[j].domain)
                            \/ /\ classify(rs[f].domain) = classify(rs[j].domain)
                               /\ chars[f] > chars[j] \/ (chars[f] = chars[j] /\ f < j)
    <3>1. fit \in SUBSET DOMAIN rs
      BY <1>4
    <3> HIDE DEF fit, chars
    <3>2. chars = [i \in DOMAIN rs |-> IF classify(rs[i].domain) = kindWildcard THEN literalChars(rs[i].domain) ELSE 0]
      BY DEF chars
    <3> QED
      BY <3>1, <3>2, Shown
  <2>2. CASE fit = {}
    BY <1>6, <2>1, <2>2
  <2>3. CASE fit # {}
    <3>1. f \in fit /\ got \in fit /\ beats(rs, got, f)
      BY <1>6, <2>1, <2>3
    <3>2. SUFFICES ASSUME got # f PROVE FALSE
      OBVIOUS
    <3>3. \/ classify(rs[f].domain) < classify(rs[got].domain)
          \/ /\ classify(rs[f].domain) = classify(rs[got].domain)
             /\ chars[f] > chars[got] \/ (chars[f] = chars[got] /\ f < got)
      BY <2>1, <2>3, <3>1, <3>2
    <3>4. rs[f].domain # rs[got].domain
      BY <1>4, <3>1, <3>2 DEF TableOK
    <3>5. classify(rs[f].domain) = classify(rs[got].domain) => classify(rs[f].domain) = kindWildcard
      <4>1. SUFFICES ASSUME classify(rs[f].domain) = classify(rs[got].domain), classify(rs[f].domain) # kindWildcard
                     PROVE FALSE
        OBVIOUS
      <4>2. classify(rs[f].domain) # kindLiteral
        BY <1>1, <1>5, <3>1, <3>2, <4>1
      <4> QED
        BY <3>4, <4>1, <4>2, Classes
    <3>6. /\ classify(rs[f].domain) = kindWildcard => chars[f] = literalChars(rs[f].domain)
          /\ classify(rs[got].domain) = kindWildcard => chars[got] = literalChars(rs[got].domain)
      BY <1>4, <3>1
    <3>7. f \in Int /\ got \in Int
      BY <1>4, <3>1
    <3>8. /\ classify(rs[f].domain) \in Int /\ literalChars(rs[f].domain) \in Int
          /\ classify(rs[got].domain) \in Int /\ literalChars(rs[got].domain) \in Int
      BY <1>5, <3>1
    <3> HIDE DEF f, got, chars, fit
    <3> QED
      BY <3>1, <3>2, <3>3, <3>5, <3>6, <3>7, <3>8 DEF beats
  <2> QED
    BY <2>2, <2>3
<1> QED
  BY <1>6, <1>7

\* The rules of a file that loads: those of its items, and the console's last.
LEMMA TableRulesOK ==
  ASSUME NEW t \in Texts, LoadConfig(t)
  PROVE  LET rs == TableRules(t)
         IN /\ TableOK(rs)
            /\ Len(rs) \in DOMAIN rs /\ rs[Len(rs)] = consoleRule
            /\ \A i \in DOMAIN rs : i # Len(rs) => rs[i] \in FileRules /\ Key(rs[i]) # Key(consoleRule)
<1> DEFINE raw == rawRules(t)
           rs == TableRules(t)
           S == FileRules \cup {consoleRule}
<1>1. raw \in Seq(FileRules)
  BY RawRulesTyped
<1>2. raw \in Seq(S) /\ consoleRule \in S
  BY <1>1, SeqMonotonic
<1>3. /\ rs \in Seq(S) /\ Len(rs) = Len(raw) + 1 /\ rs[Len(raw) + 1] = consoleRule
      /\ \A i \in 1..Len(raw) : rs[i] = raw[i]
  BY <1>2, AppendProperties DEF TableRules
<1>4. Len(raw) \in Nat /\ DOMAIN rs = 1..Len(rs) /\ DOMAIN raw = 1..Len(raw) /\ \A i \in 1..Len(raw) : raw[i] \in FileRules
  BY <1>1, <1>3, ElementOfSeq
<1>5. /\ \A i \in DOMAIN raw : raw[i].domain # <<>>
      /\ \A i \in DOMAIN raw : raw[i].listener = consoleAlias => raw[i].domain # ConsoleDomain
      /\ \A i, j \in DOMAIN rs : i < j /\ rs[i].listener = rs[j].listener => rs[i].domain # rs[j].domain
  <2>1. \A i \in DOMAIN raw : isPattern(raw[i].domain)
    BY DEF LoadConfig, buildRule
  <2>2. addConsoleRule(raw) /\ noRuleTwice(rs)
    BY DEF LoadConfig, TableRules
  <2> HIDE DEF raw, rs
  <2> QED
    BY <2>1, <2>2 DEF isPattern, addConsoleRule, noRuleTwice
<1>6. consoleRule.domain = ConsoleDomain /\ consoleRule.listener = consoleAlias
  BY DEF consoleRule
<1>7. ConsoleDomain # <<>> /\ ConsoleDomain \in Seq(Labels) /\ Domains \subseteq Seq(Labels)
  BY RuleTableAssumption DEF Labels
<1> HIDE DEF raw, rs, S
<1>8. \A i \in DOMAIN rs : i # Len(rs) => rs[i] \in FileRules /\ i \in DOMAIN raw /\ rs[i] = raw[i]
  BY <1>3, <1>4
<1>9. ASSUME NEW i \in DOMAIN rs PROVE rs[i].domain \in Seq(Labels) /\ rs[i].domain # <<>>
  <2>1. CASE i = Len(rs)
    BY <1>3, <1>4, <1>6, <1>7, <2>1
  <2>2. CASE i # Len(rs)
    BY <1>5, <1>7, <1>8, <2>2 DEF FileRules
  <2> QED
    BY <2>1, <2>2
<1>10. \A i, j \in DOMAIN rs : rs[i].listener = rs[j].listener /\ rs[i].domain = rs[j].domain => i = j
  <2> SUFFICES ASSUME NEW i \in DOMAIN rs, NEW j \in DOMAIN rs, i # j,
                      rs[i].listener = rs[j].listener, rs[i].domain = rs[j].domain
               PROVE  FALSE
    OBVIOUS
  <2>1. i < j \/ j < i
    BY <1>3, <1>4
  <2> QED
    BY <1>5, <2>1
<1>11. TableOK(rs)
  BY <1>3, <1>4, <1>9, <1>10 DEF TableOK
<1>12. Len(rs) \in DOMAIN rs /\ rs[Len(rs)] = consoleRule
  BY <1>3, <1>4
<1>13. \A i \in DOMAIN rs : i # Len(rs) => rs[i] \in FileRules /\ Key(rs[i]) # Key(consoleRule)
  BY <1>5, <1>6, <1>8 DEF Key
<1> QED
  BY <1>11, <1>12, <1>13 DEF rs

-----------------------------------------------------------------------------
(* The rules: the inductive invariant *)

RulesIInv ==
  /\ text \in Texts /\ LoadConfig(text) /\ apart(rawRules(text))
  /\ stoppedRules \subseteq (TableListeners \X Domains)
  /\ Key(consoleRule) \notin stoppedRules
  /\ did.n \in 0..MaxTextEdits

LEMMA RulesTypeCorrect == RulesIInv => RuleTableTypeOK
  BY DEF RulesIInv, RuleTableTypeOK

LEMMA RoutesRight ==
  ASSUME RulesIInv
  PROVE  RoutesBySpecificity
<1> DEFINE rs == TableRules(text)
<1>1. TableOK(rs)
  BY TableRulesOK DEF RulesIInv
<1>2. ASSUME NEW n \in TableListeners, NEW sni \in Snis
      PROVE  LET fit == {i \in rulesOf(rs, n) : Key(rs[i]) \notin stoppedRules /\ matches(rs[i].domain, sni)}
                 got == RouteExcept(rs, n, sni, stoppedRules)
             IN /\ IF fit = {} THEN got = noRule ELSE got \in fit /\ \A j \in fit : beats(rs, got, j)
                /\ got = firstIn(evaluationOrder(rs), fit)
  <2>1. sni \in Seq(STRING)
    BY RuleTableAssumption
  <2>2. Fit(rs, n, sni, stoppedRules) = {i \in rulesOf(rs, n) : Key(rs[i]) \notin stoppedRules /\ matches(rs[i].domain, sni)}
    BY DEF Fit
  <2> HIDE DEF rs
  <2>3. LET fit == Fit(rs, n, sni, stoppedRules)
            got == RouteExcept(rs, n, sni, stoppedRules)
        IN /\ IF fit = {} THEN got = noRule ELSE got \in fit /\ \A j \in fit : beats(rs, got, j)
           /\ got = firstIn(evaluationOrder(rs), fit)
    BY <1>1, <2>1, MostSpecific
  <2> QED
    BY <2>2, <2>3
<1> QED
  BY <1>2 DEF RoutesBySpecificity

\* The console's own rule takes the console's name.
LEMMA ConsoleRuleTakes ==
  ASSUME RulesIInv, NEW sni, sni = IF ConsoleDomain = NoSNI THEN <<>> ELSE ConsoleDomain
  PROVE  RouteExcept(TableRules(text), consoleAlias, sni, stoppedRules) = Len(TableRules(text))
<1> DEFINE rs == TableRules(text)
           own == Len(rs)
           fit == Fit(rs, consoleAlias, sni, stoppedRules)
           got == RouteExcept(rs, consoleAlias, sni, stoppedRules)
<1>1. /\ TableOK(rs) /\ own \in DOMAIN rs /\ rs[own] = consoleRule
      /\ Key(rs[own]) \notin stoppedRules
  BY TableRulesOK DEF RulesIInv
<1>2. /\ ConsoleDomain \in Seq(Labels) /\ ConsoleDomain \in Seq(STRING) /\ ConsoleDomain # <<>>
      /\ ConsoleDomain = NoSNI \/ classify(ConsoleDomain) = kindLiteral
  BY RuleTableAssumption DEF Labels
<1>3. sni \in Seq(STRING)
  BY <1>2, EmptySeq
<1>4. rs[own].listener = consoleAlias /\ rs[own].domain = ConsoleDomain
  <2>1. consoleRule.listener = consoleAlias /\ consoleRule.domain = ConsoleDomain
    BY DEF consoleRule
  <2> HIDE DEF rs, own
  <2> QED
    BY <1>1, <2>1
<1>5. matches(ConsoleDomain, sni)
  <2>1. CASE ConsoleDomain = NoSNI
    BY <2>1 DEF matches, NoSNI, AnythingElse
  <2>2. CASE ConsoleDomain # NoSNI
    BY <1>2, <1>3, <2>2, LiteralMatches
  <2> QED
    BY <2>1, <2>2
<1>6. own \in fit
  BY <1>1, <1>4, <1>5 DEF Fit, rulesOf
<1>7. got \in fit /\ beats(rs, got, own)
  <2> HIDE DEF rs
  <2>1. LET ft == Fit(rs, consoleAlias, sni, stoppedRules)
            gt == RouteExcept(rs, consoleAlias, sni, stoppedRules)
        IN /\ IF ft = {} THEN gt = noRule ELSE gt \in ft /\ \A j \in ft : beats(rs, gt, j)
           /\ gt = firstIn(evaluationOrder(rs), ft)
    BY <1>1, <1>3, MostSpecific
  <2> QED
    BY <1>6, <2>1
<1>8. /\ got \in DOMAIN rs /\ rs[got].listener = consoleAlias
      /\ rs[got].domain \in Seq(Labels) /\ matches(rs[got].domain, sni)
  <2> HIDE DEF got, rs
  <2> QED
    BY <1>1, <1>7 DEF Fit, rulesOf, TableOK
<1>9. rs[got].domain = ConsoleDomain
  <2>1. classify(rs[got].domain) <= classify(ConsoleDomain)
    BY <1>4, <1>7, Classes DEF beats
  <2>2. CASE ConsoleDomain = NoSNI
    <3>1. classify(ConsoleDomain) = kindNone
      BY <2>2, Classes
    <3>2. classify(rs[got].domain) = kindNone
      BY <2>1, <3>1, Classes DEF kindNone, kindLiteral, kindWildcard, kindCatchAll
    <3> QED
      BY <2>2, <3>2, Classes
  <2>3. CASE ConsoleDomain # NoSNI
    <3>1. sni = ConsoleDomain /\ classify(ConsoleDomain) = kindLiteral
      BY <1>2, <2>3
    <3>2. rs[got].domain # NoSNI
      <4>1. matches(NoSNI, sni) => sni = <<>>
        BY DEF matches, NoSNI, AnythingElse
      <4> HIDE DEF got, rs
      <4> QED
        BY <1>2, <1>8, <3>1, <4>1
    <3>3. classify(rs[got].domain) = kindLiteral
      BY <2>1, <3>1, <3>2, Classes DEF kindNone, kindLiteral, kindWildcard, kindCatchAll
    <3> HIDE DEF got, rs
    <3> QED
      BY <1>3, <1>8, <3>1, <3>3, LiteralMatches
  <2> QED
    BY <2>2, <2>3
<1> HIDE DEF got, rs
<1>10. got = own
  BY <1>1, <1>4, <1>8, <1>9 DEF TableOK
<1> QED
  BY <1>10 DEF got, rs

\* The console's listener is in its place: the file's, or one more.
LEMMA ConsoleListenerPlaced ==
  ASSUME NEW t \in Texts, LoadConfig(t)
  PROVE  LET ls == placedListeners(t)
         IN \E i \in DOMAIN ls :
              /\ ls[i] = [name |-> consoleAlias, binds |-> ConsoleBinds, port |-> ConsolePort]
              /\ \A j \in DOMAIN ls \ {i} : <<ls[j].binds, ls[j].port>> # <<ConsoleBinds, ConsolePort>>
<1> DEFINE ls == placedListeners(t)
           own == [name |-> consoleAlias, binds |-> ConsoleBinds, port |-> ConsolePort]
           placed == [i \in DOMAIN t.listeners |-> placedListener(t.listeners[i])]
<1>1. t.listeners \in Seq(ListenerEntries) /\ resolveListeners(ls)
  BY DEF Texts, LoadConfig
<1>2. \E i \in DOMAIN ls : ls[i] = own
  <2>1. CASE \E i \in DOMAIN t.listeners : isConsole(t.listeners[i])
    <3>1. PICK i \in DOMAIN t.listeners : isConsole(t.listeners[i])
      BY <2>1
    <3>2. ls = placed
      BY <2>1 DEF placedListeners
    <3>3. t.listeners[i] \in ListenerEntries
      BY <1>1, <3>1, ElementOfSeq
    <3>4. placedListener(t.listeners[i]) = [t.listeners[i] EXCEPT !.binds = ConsoleBinds, !.port = ConsolePort]
      BY <3>1, Zenon DEF placedListener
    <3>5. [t.listeners[i] EXCEPT !.binds = ConsoleBinds, !.port = ConsolePort] = own
      <4>1. PICK l : l = t.listeners[i]
        OBVIOUS
      <4>2. l \in ListenerEntries /\ l.name = consoleAlias
        BY <3>1, <3>3, <4>1 DEF isConsole
      <4>3. [l EXCEPT !.binds = ConsoleBinds, !.port = ConsolePort] = own
        <5> DEFINE m == [l EXCEPT !.binds = ConsoleBinds, !.port = ConsolePort]
        <5>1. l \in [name : {consoleAlias}, binds : SUBSET Addresses, port : TextPorts \cup {0}]
          BY <4>2 DEF ListenerEntries
        <5>2. m \in [name : {consoleAlias}, binds : {ConsoleBinds}, port : {ConsolePort}]
          BY <5>1
        <5> HIDE DEF m
        <5>3. m = own
          BY <5>2
        <5> QED
          BY <5>3 DEF m
      <4> QED
        BY <4>1, <4>3
    <3> QED
      BY <3>1, <3>2, <3>4, <3>5
  <2>2. CASE ~\E i \in DOMAIN t.listeners : isConsole(t.listeners[i])
    <3>1. ls = Append(placed, own)
      BY <2>2, Zenon DEF placedListeners
    <3>2. DOMAIN placed = 1..Len(t.listeners) /\ Len(t.listeners) \in Nat
      BY <1>1
    <3> DEFINE S == {placed[i] : i \in DOMAIN placed} \cup {own}
    <3>3. placed \in Seq(S) /\ own \in S
      BY <3>2
    <3> HIDE DEF S, placed, own
    <3>4. Append(placed, own) \in Seq(S) /\ Len(Append(placed, own)) = Len(placed) + 1
          /\ Append(placed, own)[Len(placed) + 1] = own
      BY <3>3, AppendProperties
    <3> QED
      BY <3>1, <3>3, <3>4, LenProperties
  <2> QED
    BY <2>1, <2>2
<1>3. PICK i \in DOMAIN ls : ls[i] = own
  BY <1>2
<1>4. DOMAIN ls \subseteq Int
  BY <1>1 DEF placedListeners
<1>5. ASSUME NEW j \in DOMAIN ls \ {i} PROVE <<ls[j].binds, ls[j].port>> # <<ConsoleBinds, ConsolePort>>
  <2>1. SUFFICES ASSUME ls[j].binds = ConsoleBinds, ls[j].port = ConsolePort PROVE FALSE
    OBVIOUS
  <2>2. isConsole(ls[i]) /\ ls[i].binds = ConsoleBinds /\ ls[i].port = ConsolePort
    BY <1>3 DEF isConsole
  <2>3. ~mayBothListen(ls[i], ls[j]) /\ ~mayBothListen(ls[j], ls[i])
    BY <2>1, <2>2 DEF mayBothListen
  <2>4. i < j \/ j < i
    BY <1>4
  <2> HIDE DEF ls
  <2> QED
    BY <1>1, <2>3, <2>4 DEF resolveListeners
<1> QED
  BY <1>3, <1>5

LEMMA ConsoleThere ==
  ASSUME RulesIInv
  PROVE  ConsoleStaysReachable
<1>1. LET ls == placedListeners(text)
      IN \E i \in DOMAIN ls :
           /\ ls[i] = [name |-> consoleAlias, binds |-> ConsoleBinds, port |-> ConsolePort]
           /\ \A j \in DOMAIN ls \ {i} : <<ls[j].binds, ls[j].port>> # <<ConsoleBinds, ConsolePort>>
  BY ConsoleListenerPlaced DEF RulesIInv
<1>2. RouteExcept(TableRules(text), consoleAlias, IF ConsoleDomain = NoSNI THEN <<>> ELSE ConsoleDomain, stoppedRules)
        = Len(TableRules(text))
  BY ConsoleRuleTakes
<1> QED
  BY <1>1, <1>2, Zenon DEF ConsoleStaysReachable

LEMMA InitRules ==
  ASSUME RuleTableInit
  PROVE  RulesIInv
<1>1. text \in Texts /\ LoadConfig(text) /\ apart(rawRules(text))
  BY RuleTableAssumption, FirstTextsAssumption DEF RuleTableInit
<1>2. stoppedRules = {}
  BY DEF RuleTableInit
<1>3. did.n \in 0..MaxTextEdits
  <2>1. did = Did("none", "", "", "", "")
    BY DEF RuleTableInit
  <2>2. did.n = 0
    BY <2>1 DEF Did
  <2>3. MaxTextEdits \in Nat
    BY RuleTableAssumption
  <2> QED
    BY <2>2, <2>3
<1> QED
  BY <1>1, <1>2, <1>3 DEF RulesIInv

-----------------------------------------------------------------------------
(* The edits keep a file made of its entries *)

LEMMA RemovedTyped ==
  ASSUME NEW S, NEW s \in Seq(S), NEW i \in DOMAIN s
  PROVE  RemoveAt(s, i) \in Seq(S)
<1>1. i \in 1..Len(s) /\ Len(s) \in Nat
  OBVIOUS
<1>2. \A k \in 1..(i - 1) : s[k] \in S
  BY <1>1, ElementOfSeq
<1>3. \A k \in (i + 1)..Len(s) : s[k] \in S
  BY <1>1, ElementOfSeq
<1>4. SubSeq(s, 1, i - 1) \in Seq(S)
  BY <1>1, <1>2, SubSeqProperties
<1>5. SubSeq(s, i + 1, Len(s)) \in Seq(S)
  BY <1>1, <1>3, SubSeqProperties
<1> QED
  BY <1>4, <1>5, ConcatProperties DEF RemoveAt

LEMMA ItemTyped ==
  ASSUME NEW gs \in Seq(RouteItems), NEW g \in DOMAIN gs
  PROVE  gs[g] \in RouteItems /\ gs[g].rules \in Seq(RuleEntries) /\ gs[g].listener \in TableListeners
<1>1. gs[g] \in RouteItems
  BY LenProperties, ElementOfSeq
<1> QED
  BY <1>1 DEF RouteItems

LEMMA PutRuleTyped ==
  ASSUME NEW gs \in Seq(RouteItems), NEW l \in TableListeners, NEW r \in RuleEntries
  PROVE  putRule(gs, l, r) \in Seq(RouteItems)
<1> DEFINE new == [listener |-> l, rules |-> <<>>, null |-> FALSE]
           all == groupFor(gs, l)
           first(i) == all[i].listener = l /\ \A j \in 1..(i - 1) : all[j].listener # l
           at == CHOOSE i \in DOMAIN all : first(i)
<1>1. all \in Seq(RouteItems)
  <2>1. new \in RouteItems
    BY EmptySeq DEF RouteItems
  <2> QED
    BY <2>1, AppendProperties DEF groupFor
<1>2. \A i \in DOMAIN all : all[i] \in RouteItems
  BY <1>1
<1>3. \E i \in DOMAIN all : all[i].listener = l
  <2>1. CASE \E i \in DOMAIN gs : gs[i].listener = l
    BY <2>1 DEF groupFor
  <2>2. CASE ~\E i \in DOMAIN gs : gs[i].listener = l
    <3>1. all = Append(gs, new)
      BY <2>2 DEF groupFor
    <3>2. new \in RouteItems
      BY EmptySeq DEF RouteItems
    <3>3. Append(gs, new)[Len(gs) + 1] = new /\ Len(gs) + 1 \in DOMAIN Append(gs, new)
      BY <3>2, AppendProperties
    <3>4. new.listener = l
      OBVIOUS
    <3> HIDE DEF new, all
    <3> QED
      BY <3>1, <3>3, <3>4
  <2> QED
    BY <2>1, <2>2
<1>4. \E i \in DOMAIN all : first(i)
  <2> DEFINE T == {i \in Nat : \A k \in DOMAIN all : k <= i => all[k].listener # l}
  <2>1. SUFFICES ASSUME \A i \in DOMAIN all : ~first(i) PROVE FALSE
    OBVIOUS
  <2>2. DOMAIN all = 1..Len(all) /\ Len(all) \in Nat
    BY <1>1
  <2>3. 0 \in T
    BY <2>2
  <2>4. \A n \in Nat : n \in T => n + 1 \in T
    BY <2>1, <2>2
  <2> HIDE DEF T
  <2>5. Nat \subseteq T
    BY <2>3, <2>4, SetInduction
  <2> HIDE DEF all
  <2> QED
    BY <1>3, <2>2, <2>5 DEF T
<1>5. at \in DOMAIN all
  BY <1>4
<1> HIDE DEF at
<1>6. Append(all[at].rules, r) \in Seq(RuleEntries)
  <2>1. all[at].rules \in Seq(RuleEntries)
    BY <1>2, <1>5 DEF RouteItems
  <2> HIDE DEF all
  <2> QED
    BY <2>1, AppendProperties
<1>7. [all EXCEPT ![at].rules = Append(@, r)] \in Seq(RouteItems)
  <2> DEFINE item == [all[at] EXCEPT !.rules = Append(@, r)]
  <2>1. item \in RouteItems
    BY <1>2, <1>5, <1>6 DEF RouteItems
  <2>2. [all EXCEPT ![at].rules = Append(@, r)] = [all EXCEPT ![at] = item]
    OBVIOUS
  <2> HIDE DEF item, all
  <2>3. at \in 1..Len(all)
    BY <1>1, <1>5, LenProperties
  <2>4. [all EXCEPT ![at] = item] \in Seq(RouteItems)
    BY <1>1, <2>1, <2>3, ExceptSeq
  <2> QED
    BY <2>2, <2>4, Zenon
<1>8. putRule(gs, l, r) = IF all[at].null THEN all ELSE [all EXCEPT ![at].rules = Append(@, r)]
  BY DEF putRule, at
<1> HIDE DEF all
<1> QED
  BY <1>1, <1>7, <1>8

LEMMA TakeRuleTyped ==
  ASSUME NEW gs \in Seq(RouteItems), NEW g \in DOMAIN gs, NEW k \in DOMAIN gs[g].rules
  PROVE  takeRule(gs, g, k) \in Seq(RouteItems)
<1> DEFINE rest == RemoveAt(gs[g].rules, k)
<1>1. gs[g] \in RouteItems /\ gs[g].rules \in Seq(RuleEntries)
  BY ItemTyped
<1>2. rest \in Seq(RuleEntries)
  BY <1>1, RemovedTyped
<1>3. RemoveAt(gs, g) \in Seq(RouteItems)
  BY RemovedTyped
<1> HIDE DEF rest
<1>4. [gs EXCEPT ![g].rules = rest] \in Seq(RouteItems)
  <2>1. [gs[g] EXCEPT !.rules = rest] \in RouteItems
    BY <1>1, <1>2 DEF RouteItems
  <2>2. [gs EXCEPT ![g].rules = rest] = [gs EXCEPT ![g] = [gs[g] EXCEPT !.rules = rest]]
    OBVIOUS
  <2> QED
    BY <2>1, <2>2, ExceptSeq
<1> QED
  BY <1>3, <1>4 DEF takeRule, rest

LEMMA ChangeRuleTyped ==
  ASSUME NEW gs \in Seq(RouteItems), NEW g \in DOMAIN gs, NEW k \in DOMAIN gs[g].rules, NEW r \in RuleEntries,
         r.listener \in TableListeners
  PROVE  changeRule(gs, g, k, r) \in Seq(RouteItems)
<1>1. gs[g] \in RouteItems /\ gs[g].rules \in Seq(RuleEntries)
  BY ItemTyped
<1>2. [gs EXCEPT ![g].rules[k] = r] \in Seq(RouteItems)
  <2> DEFINE changed == [gs[g].rules EXCEPT ![k] = r]
  <2>1. changed \in Seq(RuleEntries)
    BY <1>1, ExceptSeq
  <2>2. [gs EXCEPT ![g].rules[k] = r] = [gs EXCEPT ![g] = [gs[g] EXCEPT !.rules = changed]]
    OBVIOUS
  <2> HIDE DEF changed
  <2>3. [gs[g] EXCEPT !.rules = changed] \in RouteItems
    BY <1>1, <2>1 DEF RouteItems
  <2> QED
    BY <2>2, <2>3, ExceptSeq
<1>3. putRule(takeRule(gs, g, k), r.listener, r) \in Seq(RouteItems)
  BY TakeRuleTyped, PutRuleTyped
<1> QED
  BY <1>2, <1>3 DEF changeRule

LEMMA RenamedGroupsTyped ==
  ASSUME NEW gs \in Seq(RouteItems), NEW from, NEW to \in TableListeners
  PROVE  renamedGroups(gs, from, to) \in Seq(RouteItems)
<1> DEFINE renamed(i) == IF gs[i].listener = from THEN [gs[i] EXCEPT !.listener = to] ELSE gs[i]
<1>1. \A i \in 1..Len(gs) : renamed(i) \in RouteItems
  <2> SUFFICES ASSUME NEW i \in 1..Len(gs) PROVE renamed(i) \in RouteItems
    OBVIOUS
  <2>1. gs[i] \in RouteItems
    OBVIOUS
  <2> QED
    BY <2>1 DEF RouteItems
<1>2. DOMAIN gs = 1..Len(gs) /\ Len(gs) \in Nat
  OBVIOUS
<1>3. renamedGroups(gs, from, to) = [i \in 1..Len(gs) |-> renamed(i)]
  BY <1>2 DEF renamedGroups
<1> HIDE DEF renamed
<1> QED
  BY <1>1, <1>2, <1>3

LEMMA RenamedRefsTyped ==
  ASSUME NEW gs \in Seq(RouteItems), NEW from, NEW to \in GroupNames
  PROVE  renamedRefs(gs, from, to) \in Seq(RouteItems)
<1> DEFINE named(r) == IF r.auth = from THEN [r EXCEPT !.auth = to] ELSE r
           rulesOfItem(i) == [k \in DOMAIN gs[i].rules |-> named(gs[i].rules[k])]
           renamed(i) == [gs[i] EXCEPT !.rules = rulesOfItem(i)]
<1>1. \A r \in RuleEntries : named(r) \in RuleEntries
  BY DEF RuleEntries
<1>2. \A i \in 1..Len(gs) : renamed(i) \in RouteItems
  <2> SUFFICES ASSUME NEW i \in 1..Len(gs) PROVE renamed(i) \in RouteItems
    OBVIOUS
  <2>1. gs[i] \in RouteItems /\ gs[i].rules \in Seq(RuleEntries)
    BY ItemTyped
  <2>2. \A k \in 1..Len(gs[i].rules) : named(gs[i].rules[k]) \in RuleEntries
    BY <1>1, <2>1, ElementOfSeq
  <2>3. rulesOfItem(i) \in Seq(RuleEntries)
    <3> HIDE DEF named
    <3>1. DOMAIN gs[i].rules = 1..Len(gs[i].rules) /\ Len(gs[i].rules) \in Nat
      BY <2>1
    <3> QED
      BY <2>2, <3>1
  <2> HIDE DEF rulesOfItem
  <2> QED
    BY <2>1, <2>3 DEF RouteItems
<1>3. DOMAIN gs = 1..Len(gs) /\ Len(gs) \in Nat
  OBVIOUS
<1>4. renamedRefs(gs, from, to) = [i \in 1..Len(gs) |-> renamed(i)]
  BY <1>3 DEF renamedRefs
<1> HIDE DEF renamed
<1> QED
  BY <1>2, <1>3, <1>4

-----------------------------------------------------------------------------
(* Where a file's rules are *)

\* A rule's spot is its item and its place there.
Spots(gs) == {p \in Nat \X Nat : p[1] \in DOMAIN gs /\ p[2] \in DOMAIN gs[p[1]].rules}
RuleAt(gs, p) == [gs[p[1]].rules[p[2]] EXCEPT !.listener = gs[p[1]].listener]
Before(p, q) == p[1] < q[1] \/ (p[1] = q[1] /\ p[2] < q[2])
RulePlaces(f, rs, gs, n) ==
  LET spots == {p \in Spots(gs) : p[1] <= n} IN
  /\ f \in [DOMAIN rs -> spots]
  /\ \A p \in spots : \E i \in DOMAIN rs : f[i] = p
  /\ \A i \in DOMAIN rs : rs[i] = RuleAt(gs, f[i])
  /\ \A i, j \in DOMAIN rs : i < j => Before(f[i], f[j])

\* One more item.
LEMMA PlaceItem ==
  ASSUME NEW gs \in Seq(RouteItems), NEW n \in 0..(Len(gs) - 1), NEW rs \in Seq(FileRules), NEW f, RulePlaces(f, rs, gs, n)
  PROVE  \E g : RulePlaces(g, rs \o itemRules(gs[n + 1]), gs, n + 1)
<1> DEFINE it == itemRules(gs[n + 1])
           all == rs \o it
           L == Len(rs)
           K == Len(it)
           g == [i \in DOMAIN all |-> IF i <= L THEN f[i] ELSE <<n + 1, i - L>>]
           m == n + 1
<1>1. /\ m \in DOMAIN gs /\ gs[m] \in RouteItems /\ gs[m].rules \in Seq(RuleEntries) /\ it \in Seq(FileRules)
      /\ DOMAIN it = DOMAIN gs[m].rules /\ \A k \in DOMAIN it : it[k] = RuleAt(gs, <<m, k>>)
  <2>1. m \in DOMAIN gs
    OBVIOUS
  <2>2. gs[m] \in RouteItems /\ gs[m].rules \in Seq(RuleEntries)
    BY <2>1, ItemTyped
  <2>3. it \in Seq(FileRules)
    BY <2>2, ItemRulesTyped
  <2>4. DOMAIN it = DOMAIN gs[m].rules
    BY DEF itemRules
  <2>5. \A k \in DOMAIN it : it[k] = RuleAt(gs, <<m, k>>)
    BY DEF itemRules, RuleAt
  <2> HIDE DEF it
  <2> QED
    BY <2>1, <2>2, <2>3, <2>4, <2>5
<1> HIDE DEF it
<1>2. /\ L \in Nat /\ K \in Nat /\ DOMAIN rs = 1..L /\ DOMAIN it = 1..K /\ DOMAIN all = 1..(L + K)
      /\ all \in Seq(FileRules)
      /\ \A i \in 1..L : all[i] = rs[i]
      /\ \A k \in 1..K : all[L + k] = it[k]
  BY <1>1, ConcatProperties
<1>3. \A i \in DOMAIN rs : f[i] \in Spots(gs) /\ f[i] \in Nat \X Nat /\ f[i][1] <= n /\ rs[i] = RuleAt(gs, f[i])
  BY DEF RulePlaces, Spots
<1>4. \A k \in 1..K : <<m, k>> \in Spots(gs)
  <2>1. SUFFICES ASSUME NEW k \in 1..K PROVE <<m, k>> \in Spots(gs)
    OBVIOUS
  <2>2. m \in Nat /\ k \in Nat /\ k \in DOMAIN gs[m].rules
    BY <1>1, <1>2
  <2> HIDE DEF m
  <2>3. <<m, k>> \in Nat \X Nat /\ <<m, k>>[1] = m /\ <<m, k>>[2] = k
    BY <2>2
  <2> QED
    BY <1>1, <2>2, <2>3 DEF Spots
<1> DEFINE spots == {p \in Spots(gs) : p[1] <= m}
<1>5. /\ \A i \in 1..L : i \in DOMAIN all /\ g[i] = f[i]
      /\ \A k \in 1..K : L + k \in DOMAIN all /\ g[L + k] = <<m, k>>
      /\ \A i \in DOMAIN all : i \in 1..L \/ \E k \in 1..K : i = L + k
  <2>1. \A i \in 1..L : i \in DOMAIN all /\ g[i] = f[i]
    BY <1>2
  <2>2. \A k \in 1..K : L + k \in DOMAIN all /\ g[L + k] = <<m, k>>
    BY <1>2
  <2>3. SUFFICES ASSUME NEW i \in DOMAIN all, i \notin 1..L PROVE \E k \in 1..K : i = L + k
    BY <2>1, <2>2
  <2>4. i - L \in 1..K /\ i = L + (i - L)
    BY <1>2, <2>3
  <2> QED
    BY <2>4
<1>6. DOMAIN g = DOMAIN all
  OBVIOUS
<1> HIDE DEF g, all, L, K
<1>7. \A i \in DOMAIN all : g[i] \in spots
  <2>1. \A i \in 1..L : f[i] \in spots
    <3>1. SUFFICES ASSUME NEW i \in 1..L PROVE f[i] \in spots
      OBVIOUS
    <3>2. f[i] \in Spots(gs) /\ f[i][1] \in Nat /\ f[i][1] <= n
      BY <1>2, <1>3
    <3>3. f[i][1] <= m
      BY <3>2
    <3> QED
      BY <3>2, <3>3
  <2>2. \A k \in 1..K : <<m, k>> \in spots
    BY <1>4
  <2> HIDE DEF spots
  <2> QED
    BY <1>5, <2>1, <2>2
<1>8. ASSUME NEW p \in spots PROVE \E i \in DOMAIN all : g[i] = p
  <2>0. p \in Nat \X Nat /\ p = <<p[1], p[2]>>
    BY DEF Spots
  <2>1. CASE p[1] <= n
    <3>1. PICK i \in DOMAIN rs : f[i] = p
      BY <2>1 DEF RulePlaces
    <3> QED
      BY <1>2, <1>5, <3>1
  <2>2. CASE p[1] = m
    <3>1. p[2] \in 1..K
      BY <1>1, <1>2, <2>2 DEF Spots
    <3> QED
      BY <1>5, <2>0, <2>2, <3>1
  <2>3. p[1] <= n \/ p[1] = m
    BY <2>0
  <2> QED
    BY <2>1, <2>2, <2>3
<1>9. \A i \in DOMAIN all : all[i] = RuleAt(gs, g[i])
  <2>1. \A i \in 1..L : all[i] = RuleAt(gs, g[i])
    BY <1>2, <1>3, <1>5
  <2>2. \A k \in 1..K : all[L + k] = RuleAt(gs, g[L + k])
    <3>1. SUFFICES ASSUME NEW k \in 1..K PROVE all[L + k] = RuleAt(gs, g[L + k])
      OBVIOUS
    <3>2. g[L + k] = <<m, k>> /\ all[L + k] = it[k] /\ k \in DOMAIN it
      BY <1>2, <1>5
    <3>3. it[k] = RuleAt(gs, <<m, k>>)
      BY <1>1, <3>2
    <3> HIDE DEF m
    <3> QED
      BY <3>2, <3>3
  <2> QED
    BY <1>5, <2>1, <2>2
<1>10. ASSUME NEW i \in DOMAIN all, NEW j \in DOMAIN all, i < j PROVE Before(g[i], g[j])
  <2>1. CASE i \in 1..L /\ j \in 1..L
    BY <1>2, <1>5, <1>10, <2>1 DEF RulePlaces
  <2>2. CASE i \in 1..L /\ j \notin 1..L
    <3>1. PICK k \in 1..K : j = L + k
      BY <1>5, <2>2
    <3>2. g[i] = f[i] /\ g[j] = <<m, k>> /\ f[i] \in Nat \X Nat /\ f[i][1] <= n
      BY <1>2, <1>3, <1>5, <2>2, <3>1
    <3> QED
      BY <3>2 DEF Before
  <2>3. CASE i \notin 1..L
    <3>1. PICK k \in 1..K : i = L + k
      BY <1>5, <2>3
    <3>2. j \notin 1..L
      BY <1>2, <1>10, <3>1
    <3>3. PICK h \in 1..K : j = L + h
      BY <1>5, <3>2
    <3>4. k < h
      BY <1>2, <1>10, <3>1, <3>3
    <3>5. g[i] = <<m, k>> /\ g[j] = <<m, h>>
      BY <1>5, <3>1, <3>3
    <3> QED
      BY <3>4, <3>5 DEF Before
  <2> QED
    BY <2>1, <2>2, <2>3
<1>11. g \in [DOMAIN all -> spots]
  BY <1>6, <1>7 DEF g
<1>12. RulePlaces(g, all, gs, m)
  BY <1>8, <1>9, <1>10, <1>11 DEF RulePlaces
<1> QED
  BY <1>12 DEF all, it

\* The rules of a file are those at its items' spots, in the spots' order.
LEMMA RulesPlaced ==
  ASSUME NEW t \in Texts
  PROVE  \E f : RulePlaces(f, rawRules(t), t.groups, Len(t.groups))
<1> DEFINE gs == t.groups
           N == Len(gs)
<1>1. gs \in Seq(RouteItems) /\ N \in Nat
  BY DEF Texts
<1>2. PICK u \in [0..N -> Seq(FileRules)] :
        /\ u[0] = <<>> /\ rawRules(t) = u[N]
        /\ \A i \in 1..N : u[i] = u[i - 1] \o itemRules(gs[i])
  BY RawRulesFold
<1> DEFINE T == {n \in 0..N : \E f : RulePlaces(f, u[n], gs, n)}
<1>3. 0 \in T
  <2> DEFINE f == [i \in {} |-> 0]
  <2>1. {p \in Spots(gs) : p[1] <= 0} = {}
    BY <1>1 DEF Spots
  <2>2. DOMAIN u[0] = {}
    BY <1>2
  <2>3. RulePlaces(f, u[0], gs, 0)
    BY <2>1, <2>2 DEF RulePlaces
  <2> QED
    BY <1>1, <2>3
<1>4. ASSUME NEW n \in 0..(N - 1), n \in T PROVE n + 1 \in T
  <2>1. PICK f : RulePlaces(f, u[n], gs, n)
    BY <1>4
  <2>2. n \in 0..N /\ n + 1 \in 1..N /\ n + 1 \in 0..N /\ (n + 1) - 1 = n
    BY <1>1
  <2>3. u[n] \in Seq(FileRules) /\ u[n + 1] = u[n] \o itemRules(gs[n + 1])
    BY <1>2, <2>2
  <2>4. \E g : RulePlaces(g, u[n + 1], gs, n + 1)
    BY <1>1, <2>1, <2>3, PlaceItem
  <2> QED
    BY <2>2, <2>4
<1>5. 0..N \subseteq T
  <2> HIDE DEF T, N
  <2> QED
    BY <1>1, <1>3, <1>4, BoundedInduction, Zenon
<1> QED
  BY <1>1, <1>2, <1>5

\* No two spots are of one rule.
SpotsApart(gs) == \A p, q \in Spots(gs) : RuleAt(gs, p).target = RuleAt(gs, q).target => p = q

LEMMA BeforeIsOrder ==
  ASSUME NEW p \in Nat \X Nat, NEW q \in Nat \X Nat
  PROVE  /\ ~Before(p, p)
         /\ ~(Before(p, q) /\ Before(q, p))
         /\ p = q \/ Before(p, q) \/ Before(q, p)
BY DEF Before

LEMMA SpotTyped ==
  ASSUME NEW gs \in Seq(RouteItems), NEW p \in Spots(gs)
  PROVE  RuleAt(gs, p) \in FileRules /\ RuleAt(gs, p).target = gs[p[1]].rules[p[2]].target
<1>1. p[1] \in DOMAIN gs /\ p[2] \in DOMAIN gs[p[1]].rules
  BY DEF Spots
<1>2. gs[p[1]].rules \in Seq(RuleEntries) /\ gs[p[1]].listener \in TableListeners
  BY <1>1, ItemTyped
<1>3. gs[p[1]].rules[p[2]] \in RuleEntries
  BY <1>1, <1>2, LenProperties, ElementOfSeq
<1> QED
  BY <1>2, <1>3 DEF RuleAt, RuleEntries, FileRules

\* A place's spot is its own.
LEMMA PlacesApart ==
  ASSUME NEW t \in Texts, NEW f, RulePlaces(f, rawRules(t), t.groups, Len(t.groups))
  PROVE  /\ f \in [DOMAIN rawRules(t) -> Spots(t.groups)]
         /\ \A p \in Spots(t.groups) : \E i \in DOMAIN rawRules(t) : f[i] = p
         /\ \A i \in DOMAIN rawRules(t) : rawRules(t)[i] = RuleAt(t.groups, f[i]) /\ f[i] \in Nat \X Nat
         /\ \A i, j \in DOMAIN rawRules(t) : i < j <=> Before(f[i], f[j])
         /\ \A i, j \in DOMAIN rawRules(t) : f[i] = f[j] => i = j
<1> DEFINE rs == rawRules(t)  gs == t.groups
<1>1. gs \in Seq(RouteItems)
  BY DEF Texts
<1>2. {p \in Spots(gs) : p[1] <= Len(gs)} = Spots(gs)
  <2>1. \A p \in Spots(gs) : p[1] \in 1..Len(gs)
    BY <1>1, LenProperties DEF Spots
  <2> QED
    BY <1>1, <2>1
<1>3. /\ f \in [DOMAIN rs -> Spots(gs)]
      /\ \A p \in Spots(gs) : \E i \in DOMAIN rs : f[i] = p
      /\ \A i \in DOMAIN rs : rs[i] = RuleAt(gs, f[i])
      /\ \A i, j \in DOMAIN rs : i < j => Before(f[i], f[j])
  BY <1>2 DEF RulePlaces
<1>4. \A i \in DOMAIN rs : f[i] \in Nat \X Nat
  BY <1>3 DEF Spots
<1>5. DOMAIN rs \subseteq Nat
  BY RawRulesTyped
<1> HIDE DEF rs, gs
<1>6. ASSUME NEW i \in DOMAIN rs, NEW j \in DOMAIN rs PROVE (Before(f[i], f[j]) => i < j) /\ (f[i] = f[j] => i = j)
  <2>1. i < j \/ i = j \/ j < i
    BY <1>5
  <2>2. i < j => Before(f[i], f[j])
    BY <1>3
  <2>3. j < i => Before(f[j], f[i])
    BY <1>3
  <2> QED
    BY <1>4, <2>1, <2>2, <2>3, BeforeIsOrder
<1> QED
  BY <1>3, <1>4, <1>6 DEF rs, gs

LEMMA ApartIs ==
  ASSUME NEW t \in Texts
  PROVE  apart(rawRules(t)) <=> SpotsApart(t.groups)
<1>1. PICK f : RulePlaces(f, rawRules(t), t.groups, Len(t.groups))
  BY RulesPlaced
<1> DEFINE rs == rawRules(t)  gs == t.groups
<1>2. /\ f \in [DOMAIN rs -> Spots(gs)]
      /\ \A p \in Spots(gs) : \E i \in DOMAIN rs : f[i] = p
      /\ \A i \in DOMAIN rs : rs[i] = RuleAt(gs, f[i]) /\ f[i] \in Nat \X Nat
      /\ \A i, j \in DOMAIN rs : i < j <=> Before(f[i], f[j])
      /\ \A i, j \in DOMAIN rs : f[i] = f[j] => i = j
  BY <1>1, PlacesApart
<1> HIDE DEF rs, gs
<1>3. ASSUME apart(rs), NEW p \in Spots(gs), NEW q \in Spots(gs), RuleAt(gs, p).target = RuleAt(gs, q).target PROVE p = q
  BY <1>2, <1>3 DEF apart
<1>4. ASSUME SpotsApart(gs), NEW i \in DOMAIN rs, NEW j \in DOMAIN rs, rs[i].target = rs[j].target PROVE i = j
  BY <1>2, <1>4 DEF SpotsApart
<1> QED
  BY <1>3, <1>4 DEF apart, SpotsApart, rs, gs

-----------------------------------------------------------------------------
(* What an edit moves *)

\* What an edit d does to the items: the rules it does not name move from
\* spot to spot, in order, and come to the spots of all such rules.
OtherSpots(gs, x) == {p \in Spots(gs) : RuleAt(gs, p).target # x}
Moves(M, gs, to, d) ==
  /\ M \in [OtherSpots(gs, d.target) -> OtherSpots(to, d.target)]
  /\ \A q \in OtherSpots(to, d.target) : \E p \in OtherSpots(gs, d.target) : M[p] = q
  /\ \A p \in OtherSpots(gs, d.target) : RuleAt(to, M[p]) = carried(d, RuleAt(gs, p))
  /\ \A p, q \in OtherSpots(gs, d.target) : Before(p, q) => Before(M[p], M[q])

LEMMA CarriedTarget ==
  ASSUME NEW d, NEW r \in FileRules
  PROVE  carried(d, r).target = r.target
BY DEF carried, FileRules

LEMMA MovedApart ==
  ASSUME NEW gs \in Seq(RouteItems), NEW to \in Seq(RouteItems), NEW d, NEW M, Moves(M, gs, to, d), SpotsApart(gs),
         \A p, q \in Spots(to) : RuleAt(to, p).target = d.target /\ RuleAt(to, q).target = d.target => p = q
  PROVE  SpotsApart(to)
<1>1. SUFFICES ASSUME NEW p \in Spots(to), NEW q \in Spots(to), RuleAt(to, p).target = RuleAt(to, q).target,
                      RuleAt(to, p).target # d.target
               PROVE  p = q
  BY DEF SpotsApart
<1>2. p \in OtherSpots(to, d.target) /\ q \in OtherSpots(to, d.target)
  BY <1>1 DEF OtherSpots
<1>3. PICK a \in OtherSpots(gs, d.target), b \in OtherSpots(gs, d.target) : M[a] = p /\ M[b] = q
  BY <1>2 DEF Moves
<1>4. a \in Spots(gs) /\ b \in Spots(gs)
  BY DEF OtherSpots
<1>5. RuleAt(gs, a).target = RuleAt(to, p).target /\ RuleAt(gs, b).target = RuleAt(to, q).target
  BY <1>3, <1>4, SpotTyped, CarriedTarget DEF Moves
<1> QED
  BY <1>1, <1>3, <1>4, <1>5 DEF SpotsApart

LEMMA MovedSame ==
  ASSUME NEW t \in Texts, NEW u \in Texts, NEW d, NEW M, Moves(M, t.groups, u.groups, d),
         SpotsApart(t.groups), SpotsApart(u.groups)
  PROVE  LET old == rawRules(t)
             new == rawRules(u)
             same == sameRules(d, old, new)
         IN /\ \A i \in otherRules(d, old) : \E p \in same : p[1] = i
            /\ \A j \in otherRules(d, new) : \E p \in same : p[2] = j
            /\ \A p, q \in same : p[1] < q[1] <=> p[2] < q[2]
<1> DEFINE old == rawRules(t)
           new == rawRules(u)
           same == sameRules(d, old, new)
           gs == t.groups
           to == u.groups
           x == d.target
<1>0. gs \in Seq(RouteItems) /\ to \in Seq(RouteItems)
  BY DEF Texts
<1>1. PICK f, g : /\ RulePlaces(f, old, gs, Len(gs)) /\ RulePlaces(g, new, to, Len(to))
  BY RulesPlaced
<1>2. /\ f \in [DOMAIN old -> Spots(gs)]
      /\ \A p \in Spots(gs) : \E i \in DOMAIN old : f[i] = p
      /\ \A i \in DOMAIN old : old[i] = RuleAt(gs, f[i]) /\ f[i] \in Nat \X Nat
      /\ \A i, j \in DOMAIN old : i < j <=> Before(f[i], f[j])
      /\ \A i, j \in DOMAIN old : f[i] = f[j] => i = j
  BY <1>1, PlacesApart
<1>3. /\ g \in [DOMAIN new -> Spots(to)]
      /\ \A p \in Spots(to) : \E i \in DOMAIN new : g[i] = p
      /\ \A i \in DOMAIN new : new[i] = RuleAt(to, g[i]) /\ g[i] \in Nat \X Nat
      /\ \A i, j \in DOMAIN new : i < j <=> Before(g[i], g[j])
      /\ \A i, j \in DOMAIN new : g[i] = g[j] => i = j
  BY <1>1, PlacesApart
<1>4. DOMAIN old \subseteq Nat /\ DOMAIN new \subseteq Nat
  BY RawRulesTyped
<1>5. \A p \in Spots(gs) : RuleAt(gs, p) \in FileRules
  BY <1>0, SpotTyped
<1> HIDE DEF old, new, gs, to
<1>6. ASSUME NEW i \in otherRules(d, old), NEW j \in otherRules(d, new)
      PROVE  /\ i \in DOMAIN old /\ j \in DOMAIN new
             /\ f[i] \in OtherSpots(gs, x) /\ g[j] \in OtherSpots(to, x)
             /\ new[j] = carried(d, old[i]) <=> g[j] = M[f[i]]
  <2>1. i \in DOMAIN old /\ j \in DOMAIN new /\ old[i].target # x /\ new[j].target # x
    BY DEF otherRules
  <2>2. f[i] \in OtherSpots(gs, x) /\ g[j] \in OtherSpots(to, x)
    BY <1>2, <1>3, <2>1 DEF OtherSpots
  <2>3. M[f[i]] \in OtherSpots(to, x) /\ RuleAt(to, M[f[i]]) = carried(d, old[i])
    BY <1>2, <2>1, <2>2 DEF Moves, gs, to
  <2>4. ASSUME new[j] = carried(d, old[i]) PROVE g[j] = M[f[i]]
    BY <1>3, <2>1, <2>2, <2>3, <2>4 DEF SpotsApart, OtherSpots, to
  <2>5. ASSUME g[j] = M[f[i]] PROVE new[j] = carried(d, old[i])
    BY <1>3, <2>1, <2>3, <2>5
  <2> QED
    BY <2>1, <2>2, <2>4, <2>5
<1>7. ASSUME NEW i \in DOMAIN old, f[i] \in OtherSpots(gs, x) PROVE i \in otherRules(d, old)
  BY <1>2, <1>7 DEF OtherSpots, otherRules
<1>8. ASSUME NEW j \in DOMAIN new, g[j] \in OtherSpots(to, x) PROVE j \in otherRules(d, new)
  BY <1>3, <1>8 DEF OtherSpots, otherRules
<1>9. ASSUME NEW i \in otherRules(d, old) PROVE \E p \in same : p[1] = i
  <2>1. i \in DOMAIN old /\ f[i] \in OtherSpots(gs, x)
    BY <1>2 DEF otherRules, OtherSpots
  <2>2. M[f[i]] \in OtherSpots(to, x)
    BY <2>1 DEF Moves, gs, to
  <2>3. PICK j \in DOMAIN new : g[j] = M[f[i]]
    BY <1>3, <2>2 DEF OtherSpots
  <2>4. j \in otherRules(d, new)
    BY <1>8, <2>2, <2>3
  <2>5. <<i, j>> \in same
    BY <1>6, <2>3, <2>4 DEF sameRules
  <2> QED
    BY <2>5
<1>10. ASSUME NEW j \in otherRules(d, new) PROVE \E p \in same : p[2] = j
  <2>1. j \in DOMAIN new /\ g[j] \in OtherSpots(to, x)
    BY <1>3 DEF otherRules, OtherSpots
  <2>2. PICK p \in OtherSpots(gs, x) : M[p] = g[j]
    BY <2>1 DEF Moves, gs, to
  <2>3. PICK i \in DOMAIN old : f[i] = p
    BY <1>2, <2>2 DEF OtherSpots
  <2>4. i \in otherRules(d, old)
    BY <1>7, <2>2, <2>3
  <2>5. <<i, j>> \in same
    BY <1>6, <2>2, <2>3, <2>4 DEF sameRules
  <2> QED
    BY <2>5
<1>11. ASSUME NEW p \in same, NEW q \in same PROVE p[1] < q[1] => p[2] < q[2]
  <2>1. /\ p[1] \in otherRules(d, old) /\ p[2] \in otherRules(d, new) /\ new[p[2]] = carried(d, old[p[1]])
        /\ q[1] \in otherRules(d, old) /\ q[2] \in otherRules(d, new) /\ new[q[2]] = carried(d, old[q[1]])
    BY DEF sameRules
  <2>2. ASSUME p[1] < q[1] PROVE Before(M[f[p[1]]], M[f[q[1]]])
    BY <1>2, <1>6, <2>1, <2>2 DEF Moves, gs, to
  <2> QED
    BY <1>3, <1>6, <2>1, <2>2
<1>12. ASSUME NEW p \in same, NEW q \in same, p[1] = q[1] PROVE p[2] = q[2]
  <2>1. /\ p[1] \in otherRules(d, old) /\ p[2] \in otherRules(d, new) /\ new[p[2]] = carried(d, old[p[1]])
        /\ q[1] \in otherRules(d, old) /\ q[2] \in otherRules(d, new) /\ new[q[2]] = carried(d, old[q[1]])
    BY DEF sameRules
  <2> QED
    BY <1>3, <1>6, <1>12, <2>1
<1>13. ASSUME NEW p \in same, NEW q \in same PROVE p[1] < q[1] <=> p[2] < q[2]
  <2>1. p[1] \in Nat /\ q[1] \in Nat /\ p[2] \in Nat /\ q[2] \in Nat
    BY <1>4 DEF sameRules, otherRules
  <2>2. p[1] < q[1] => p[2] < q[2]
    BY <1>11
  <2>3. q[1] < p[1] => q[2] < p[2]
    BY <1>11
  <2>4. p[1] = q[1] => p[2] = q[2]
    BY <1>12
  <2> QED
    BY <2>1, <2>2, <2>3, <2>4
<1> QED
  BY <1>9, <1>10, <1>13 DEF old, new

\* An edit that renames nothing leaves the other rules as they are.
LEMMA CarriedAsIs ==
  ASSUME NEW d, NEW r \in FileRules, d.op \notin {"listener", "auth"} \/ d.from = d.to
  PROVE  carried(d, r) = r
BY DEF carried, renamedAs, FileRules

\* The rules an edit does not name may stay at their spots.
LEMMA StaysPut ==
  ASSUME NEW gs, NEW to, NEW d, OtherSpots(to, d.target) = OtherSpots(gs, d.target),
         \A p \in OtherSpots(gs, d.target) : RuleAt(to, p) = carried(d, RuleAt(gs, p))
  PROVE  \E M : Moves(M, gs, to, d)
<1> DEFINE M == [p \in OtherSpots(gs, d.target) |-> p]
<1>1. Moves(M, gs, to, d)
  BY DEF Moves
<1> QED
  BY <1>1

\* Removing an element moves those behind it forward.
LEMMA RemovedElements ==
  ASSUME NEW S, NEW s \in Seq(S), NEW i \in DOMAIN s
  PROVE  /\ RemoveAt(s, i) \in Seq(S) /\ Len(s) \in Nat /\ DOMAIN s = 1..Len(s)
         /\ Len(RemoveAt(s, i)) = Len(s) - 1 /\ DOMAIN RemoveAt(s, i) = 1..(Len(s) - 1)
         /\ \A k \in 1..(Len(s) - 1) : RemoveAt(s, i)[k] = IF k < i THEN s[k] ELSE s[k + 1]
<1> DEFINE a == SubSeq(s, 1, i - 1)
           b == SubSeq(s, i + 1, Len(s))
<1>1. i \in 1..Len(s) /\ Len(s) \in Nat /\ DOMAIN s = 1..Len(s)
  OBVIOUS
<1>2. a \in Seq(S) /\ Len(a) = i - 1 /\ \A k \in 1..(i - 1) : a[k] = s[k]
  <2>1. \A k \in 1..(i - 1) : s[k] \in S
    BY <1>1, ElementOfSeq
  <2> QED
    BY <1>1, <2>1, SubSeqProperties
<1>3. b \in Seq(S) /\ Len(b) = Len(s) - i /\ \A k \in 1..(Len(s) - i) : b[k] = s[i + k]
  <2>1. \A k \in (i + 1)..Len(s) : s[k] \in S
    BY <1>1, ElementOfSeq
  <2>2. b \in Seq(S)
    BY <1>1, <2>1, SubSeqProperties
  <2>3. Len(b) = Len(s) - i
    BY <1>1
  <2>4. ASSUME NEW k \in 1..(Len(s) - i) PROVE b[k] = s[i + k]
    <3>1. b[k] = s[(i + 1) + k - 1] /\ (i + 1) + k - 1 = i + k
      BY <1>1
    <3> QED
      BY <3>1
  <2> QED
    BY <2>2, <2>3, <2>4
<1>4. RemoveAt(s, i) = a \o b
  BY DEF RemoveAt
<1> HIDE DEF a, b
<1>5. a \o b \in Seq(S) /\ Len(a \o b) = Len(s) - 1 /\ DOMAIN (a \o b) = 1..(Len(s) - 1)
  <2>1. a \in Seq(S) /\ b \in Seq(S)
    BY <1>2, <1>3
  <2>2. a \o b \in Seq(S) /\ Len(a \o b) = Len(a) + Len(b)
    BY <2>1, ConcatProperties
  <2>3. DOMAIN (a \o b) = 1..Len(a \o b)
    BY <2>2, LenProperties
  <2>4. Len(a) + Len(b) = Len(s) - 1
    BY <1>1, <1>2, <1>3
  <2> QED
    BY <2>2, <2>3, <2>4
<1>6. ASSUME NEW k \in 1..(Len(s) - 1) PROVE (a \o b)[k] = IF k < i THEN s[k] ELSE s[k + 1]
  <2>1. CASE k < i
    BY <1>1, <1>2, <1>3, <2>1, ConcatProperties
  <2>2. CASE ~(k < i)
    <3>1. k - (i - 1) \in 1..(Len(s) - i) /\ k \notin 1..Len(a) /\ i + (k - (i - 1)) = k + 1 /\ k \in 1..(Len(a) + Len(b))
      BY <1>1, <1>2, <1>3, <2>2
    <3>2. (a \o b)[k] = b[k - (i - 1)]
      <4>1. a \in Seq(S) /\ b \in Seq(S) /\ Len(a) = i - 1
        BY <1>2, <1>3
      <4>2. (a \o b)[k] = IF k <= Len(a) THEN a[k] ELSE b[k - Len(a)]
        BY <3>1, <4>1, ConcatProperties
      <4>3. ~(k <= Len(a))
        BY <1>1, <2>2, <4>1
      <4> QED
        BY <4>1, <4>2, <4>3
    <3>3. b[k - (i - 1)] = s[k + 1]
      BY <1>3, <3>1
    <3> QED
      BY <2>2, <3>2, <3>3
  <2> QED
    BY <2>1, <2>2
<1> QED
  BY <1>1, <1>4, <1>5, <1>6, Zenon

LEMMA SpotParts ==
  ASSUME NEW gs \in Seq(RouteItems), NEW p
  PROVE  p \in Spots(gs) <=> /\ p = <<p[1], p[2]>> /\ p[1] \in 1..Len(gs) /\ p[2] \in 1..Len(gs[p[1]].rules)
<1>1. DOMAIN gs = 1..Len(gs) /\ Len(gs) \in Nat
  OBVIOUS
<1>2. ASSUME NEW i \in 1..Len(gs) PROVE DOMAIN gs[i].rules = 1..Len(gs[i].rules) /\ Len(gs[i].rules) \in Nat
  BY <1>1, ItemTyped
<1>3. p \in Nat \X Nat <=> p = <<p[1], p[2]>> /\ p[1] \in Nat /\ p[2] \in Nat
  OBVIOUS
<1> QED
  BY <1>1, <1>2, <1>3 DEF Spots

\* A move to all of the spots, in order, of all the rules but one.
LEMMA MovesAll ==
  ASSUME NEW gs \in Seq(RouteItems), NEW to, NEW d, d.op \notin {"listener", "auth"},
         NEW M \in [OtherSpots(gs, d.target) -> Spots(to)],
         \A q \in Spots(to) : \E p \in OtherSpots(gs, d.target) : M[p] = q,
         \A p \in OtherSpots(gs, d.target) : RuleAt(to, M[p]) = RuleAt(gs, p),
         \A p, q \in OtherSpots(gs, d.target) : Before(p, q) => Before(M[p], M[q])
  PROVE  Moves(M, gs, to, d) /\ OtherSpots(to, d.target) = Spots(to)
<1>1. ASSUME NEW q \in Spots(to) PROVE q \in OtherSpots(to, d.target)
  <2>1. PICK p \in OtherSpots(gs, d.target) : M[p] = q
    OBVIOUS
  <2>2. RuleAt(to, q).target # d.target
    BY <2>1 DEF OtherSpots
  <2> QED
    BY <2>2 DEF OtherSpots
<1>2. OtherSpots(to, d.target) = Spots(to)
  BY <1>1 DEF OtherSpots
<1>3. \A p \in OtherSpots(gs, d.target) : carried(d, RuleAt(gs, p)) = RuleAt(gs, p)
  BY SpotTyped, CarriedAsIs DEF OtherSpots
<1> QED
  BY <1>2, <1>3 DEF Moves

LEMMA TakeMoves ==
  ASSUME NEW gs \in Seq(RouteItems), SpotsApart(gs), NEW g \in DOMAIN gs, NEW k \in DOMAIN gs[g].rules,
         NEW d, d.op \notin {"listener", "auth"}, d.target = gs[g].rules[k].target
  PROVE  LET to == takeRule(gs, g, k)
         IN (\E M : Moves(M, gs, to, d)) /\ OtherSpots(to, d.target) = Spots(to)
<1> DEFINE to == takeRule(gs, g, k)
           S == OtherSpots(gs, d.target)
           K == Len(gs[g].rules)
           N == Len(gs)
           rest == RemoveAt(gs[g].rules, k)
<1>1. /\ gs[g].rules \in Seq(RuleEntries) /\ g \in 1..N /\ k \in 1..K /\ N \in Nat /\ K \in Nat
      /\ rest \in Seq(RuleEntries) /\ Len(rest) = K - 1
      /\ \A j \in 1..(K - 1) : rest[j] = IF j < k THEN gs[g].rules[j] ELSE gs[g].rules[j + 1]
  BY ItemTyped, RemovedElements
<1>2. S = Spots(gs) \ {<<g, k>>}
  <2>1. <<g, k>> \in Spots(gs) /\ RuleAt(gs, <<g, k>>).target = d.target
    BY <1>1, SpotParts, SpotTyped
  <2> QED
    BY <2>1 DEF SpotsApart, OtherSpots
<1>3. to \in Seq(RouteItems)
  BY TakeRuleTyped
<1>4. CASE rest # <<>>
  <2> DEFINE M == [p \in S |-> IF p[1] = g /\ p[2] > k THEN <<g, p[2] - 1>> ELSE p]
  <2>1. /\ to = [gs EXCEPT ![g].rules = rest] /\ Len(to) = N
        /\ to[g].rules = rest /\ to[g].listener = gs[g].listener
        /\ \A i \in 1..N : i # g => to[i] = gs[i]
    <3>1. to = [gs EXCEPT ![g].rules = rest]
      BY <1>4 DEF takeRule
    <3>2. gs[g] \in RouteItems
      BY ItemTyped
    <3> HIDE DEF rest, to
    <3>3. DOMAIN gs = 1..N /\ DOMAIN to = 1..N /\ Len(to) = N
      BY <1>1, <1>3, <3>1
    <3>4. to[g] = [gs[g] EXCEPT !.rules = rest] /\ \A i \in 1..N : i # g => to[i] = gs[i]
      BY <1>1, <3>1, <3>3
    <3>5. to[g].rules = rest /\ to[g].listener = gs[g].listener
      BY <3>2, <3>4 DEF RouteItems
    <3> QED
      BY <3>1, <3>3, <3>4, <3>5
  <2> HIDE DEF rest, N, K, to
  <2>2. ASSUME NEW p \in S PROVE M[p] \in Spots(to) /\ RuleAt(to, M[p]) = RuleAt(gs, p)
    <3>1. p = <<p[1], p[2]>> /\ p[1] \in 1..N /\ p[2] \in 1..Len(gs[p[1]].rules) /\ (p[1] = g => p[2] # k)
      BY <1>2, SpotParts DEF N
    <3>2. CASE p[1] # g
      <4>1. M[p] = p
        BY <3>2
      <4> QED
        BY <1>3, <2>1, <3>1, <3>2, <4>1, SpotParts DEF RuleAt
    <3>3. CASE p[1] = g /\ p[2] < k
      <4>1. M[p] = p /\ p[2] \in 1..(K - 1)
        BY <1>1, <3>1, <3>3 DEF K
      <4>2. p \in Spots(to)
        <5>1. p[2] \in 1..Len(to[p[1]].rules) /\ p[1] \in 1..Len(to)
          BY <1>1, <2>1, <3>1, <3>3, <4>1
        <5> QED
          BY <1>3, <3>1, <5>1, SpotParts
      <4>3. RuleAt(to, p) = RuleAt(gs, p)
        <5>1. rest[p[2]] = gs[g].rules[p[2]]
          BY <1>1, <3>3, <4>1
        <5>2. to[p[1]].rules[p[2]] = gs[p[1]].rules[p[2]] /\ to[p[1]].listener = gs[p[1]].listener
          BY <2>1, <3>3, <5>1
        <5> QED
          BY <5>2 DEF RuleAt
      <4> QED
        BY <4>1, <4>2, <4>3
    <3>4. CASE p[1] = g /\ p[2] > k
      <4>1. M[p] = <<g, p[2] - 1>> /\ p[2] - 1 \in 1..(K - 1) /\ ~(p[2] - 1 < k) /\ (p[2] - 1) + 1 = p[2]
        BY <1>1, <3>1, <3>4 DEF K
      <4>2. rest[p[2] - 1] = gs[g].rules[p[2]]
        BY <1>1, <4>1
      <4>3. M[p] \in Spots(to)
        <5> DEFINE q == <<g, p[2] - 1>>
        <5>1. q = <<q[1], q[2]>> /\ q[1] \in 1..Len(to) /\ q[2] \in 1..Len(to[q[1]].rules)
          BY <1>1, <2>1, <4>1
        <5> HIDE DEF q
        <5>2. q \in Spots(to)
          BY <1>3, <5>1, SpotParts
        <5> QED
          BY <4>1, <5>2 DEF q
      <4> QED
        BY <2>1, <3>1, <3>4, <4>1, <4>2, <4>3 DEF RuleAt
    <3> QED
      BY <1>1, <3>1, <3>2, <3>3, <3>4
  <2>3. ASSUME NEW q \in Spots(to) PROVE \E p \in S : M[p] = q
    <3>1. q = <<q[1], q[2]>> /\ q[1] \in 1..N /\ q[2] \in 1..Len(to[q[1]].rules)
      BY <1>3, <2>1, SpotParts
    <3>2. CASE q[1] # g
      <4>1. q \in S /\ M[q] = q
        BY <1>2, <2>1, <3>1, <3>2, SpotParts DEF N
      <4> QED
        BY <4>1
    <3>3. CASE q[1] = g /\ q[2] < k
      <4>1. q[2] \in 1..K
        BY <1>1, <2>1, <3>1, <3>3
      <4>2. q \in S /\ M[q] = q
        BY <1>1, <1>2, <3>1, <3>3, <4>1, SpotParts DEF N, K
      <4> QED
        BY <4>2
    <3>4. CASE q[1] = g /\ ~(q[2] < k)
      <4> DEFINE p == <<g, q[2] + 1>>
      <4>1. q[2] + 1 \in 1..K /\ q[2] + 1 > k /\ (q[2] + 1) - 1 = q[2]
        BY <1>1, <2>1, <3>1, <3>4
      <4>2. p \in S
        <5>1. p = <<p[1], p[2]>> /\ p[1] \in 1..Len(gs) /\ p[2] \in 1..Len(gs[p[1]].rules) /\ p # <<g, k>>
          BY <1>1, <4>1 DEF N, K
        <5> HIDE DEF p
        <5> QED
          BY <1>2, <5>1, SpotParts
      <4>3. M[p] = q
        BY <3>1, <3>4, <4>1, <4>2
      <4> QED
        BY <4>2, <4>3
    <3> QED
      BY <3>2, <3>3, <3>4
  <2>4. ASSUME NEW p \in S, NEW q \in S, Before(p, q) PROVE Before(M[p], M[q])
    <3>1. /\ p[1] \in Nat /\ p[2] \in Nat /\ (p[1] = g => p[2] # k)
          /\ q[1] \in Nat /\ q[2] \in Nat /\ (q[1] = g => q[2] # k) /\ k \in Nat /\ g \in Nat
          /\ p = <<p[1], p[2]>> /\ q = <<q[1], q[2]>>
      BY <1>1, <1>2, SpotParts DEF N
    <3>2. /\ M[p][1] = p[1] /\ M[p][2] = (IF p[1] = g /\ p[2] > k THEN p[2] - 1 ELSE p[2])
          /\ M[q][1] = q[1] /\ M[q][2] = (IF q[1] = g /\ q[2] > k THEN q[2] - 1 ELSE q[2])
      OBVIOUS
    <3> QED
      BY <2>4, <3>1, <3>2 DEF Before
  <2>5. M \in [S -> Spots(to)]
    BY <2>2
  <2> HIDE DEF M
  <2>6. Moves(M, gs, to, d) /\ OtherSpots(to, d.target) = Spots(to)
    BY <2>2, <2>3, <2>4, <2>5, MovesAll
  <2> QED
    BY <2>6 DEF to
<1>5. CASE rest = <<>>
  <2> DEFINE M == [p \in S |-> IF p[1] > g THEN <<p[1] - 1, p[2]>> ELSE p]
  <2>0. K = 1
    BY <1>1, <1>5
  <2>1. /\ to = RemoveAt(gs, g) /\ Len(to) = N - 1
        /\ \A j \in 1..(N - 1) : to[j] = IF j < g THEN gs[j] ELSE gs[j + 1]
    BY <1>5, RemovedElements DEF takeRule
  <2> HIDE DEF rest, N, K, to
  <2>2. ASSUME NEW p \in S
        PROVE  p = <<p[1], p[2]>> /\ p[1] \in 1..N /\ p[2] \in 1..Len(gs[p[1]].rules) /\ p[1] # g
    <3>1. p = <<p[1], p[2]>> /\ p[1] \in 1..N /\ p[2] \in 1..Len(gs[p[1]].rules) /\ p # <<g, k>>
      BY <1>2, SpotParts DEF N
    <3>2. p[1] = g => p[2] = k
      <4>1. p[1] = g => p[2] \in 1..K
        BY <3>1 DEF K
      <4>2. 1..K = {1} /\ k = 1
        BY <1>1, <2>0
      <4> QED
        BY <4>1, <4>2
    <3> QED
      BY <3>1, <3>2
  <2>3. ASSUME NEW p \in S PROVE M[p] \in Spots(to) /\ RuleAt(to, M[p]) = RuleAt(gs, p)
    <3>1. CASE p[1] < g
      <4>1. M[p] = p /\ p[1] \in 1..(N - 1) /\ to[p[1]] = gs[p[1]]
        BY <1>1, <2>1, <2>2, <3>1
      <4> QED
        BY <1>3, <2>1, <2>2, <4>1, SpotParts DEF RuleAt
    <3>2. CASE p[1] > g
      <4>1. M[p] = <<p[1] - 1, p[2]>> /\ p[1] - 1 \in 1..(N - 1) /\ to[p[1] - 1] = gs[p[1]]
        <5>1. p[1] - 1 \in 1..(N - 1) /\ ~(p[1] - 1 < g) /\ (p[1] - 1) + 1 = p[1]
          BY <1>1, <2>2, <3>2
        <5> QED
          BY <2>1, <3>2, <5>1
      <4>2. M[p] \in Spots(to)
        BY <1>3, <2>1, <2>2, <4>1, SpotParts
      <4> QED
        BY <4>1, <4>2 DEF RuleAt
    <3> QED
      BY <1>1, <2>2, <3>1, <3>2
  <2>4. ASSUME NEW q \in Spots(to) PROVE \E p \in S : M[p] = q
    <3>1. q = <<q[1], q[2]>> /\ q[1] \in 1..(N - 1) /\ q[2] \in 1..Len(to[q[1]].rules)
      BY <1>3, <2>1, SpotParts
    <3>2. CASE q[1] < g
      <4>1. q \in S /\ M[q] = q
        <5>1. to[q[1]] = gs[q[1]] /\ q[1] \in 1..N /\ ~(q[1] > g)
          BY <1>1, <2>1, <3>1, <3>2
        <5>2. q \in S
          BY <1>1, <1>2, <3>1, <3>2, <5>1, SpotParts DEF N
        <5> QED
          BY <5>1, <5>2
      <4> QED
        BY <4>1
    <3>3. CASE ~(q[1] < g)
      <4> DEFINE p == <<q[1] + 1, q[2]>>
      <4>1. q[1] + 1 \in 1..N /\ q[1] + 1 > g /\ (q[1] + 1) - 1 = q[1] /\ to[q[1]] = gs[q[1] + 1]
        BY <1>1, <2>1, <3>1, <3>3
      <4>2. p \in S
        <5>1. p = <<p[1], p[2]>> /\ p[1] \in 1..Len(gs) /\ p[2] \in 1..Len(gs[p[1]].rules) /\ p # <<g, k>>
          BY <1>1, <3>1, <4>1 DEF N
        <5> HIDE DEF p
        <5> QED
          BY <1>2, <5>1, SpotParts
      <4>3. M[p] = q
        BY <3>1, <4>1, <4>2
      <4> QED
        BY <4>2, <4>3
    <3> QED
      BY <3>2, <3>3
  <2>5. ASSUME NEW p \in S, NEW q \in S, Before(p, q) PROVE Before(M[p], M[q])
    <3>1. /\ p[1] \in Nat /\ p[2] \in Nat /\ p[1] # g /\ q[1] \in Nat /\ q[2] \in Nat /\ q[1] # g /\ g \in Nat
      BY <1>1, <2>2
    <3>2. /\ M[p][2] = p[2] /\ M[p][1] = (IF p[1] > g THEN p[1] - 1 ELSE p[1])
          /\ M[q][2] = q[2] /\ M[q][1] = (IF q[1] > g THEN q[1] - 1 ELSE q[1])
      OBVIOUS
    <3> QED
      BY <2>5, <3>1, <3>2 DEF Before
  <2>6. M \in [S -> Spots(to)]
    BY <2>3
  <2> HIDE DEF M
  <2>7. Moves(M, gs, to, d) /\ OtherSpots(to, d.target) = Spots(to)
    BY <2>3, <2>4, <2>5, <2>6, MovesAll
  <2> QED
    BY <2>7 DEF to
<1> QED
  BY <1>4, <1>5

\* The listener's first item has an empty rules:.
NoRoom(gs, l) == \E i \in DOMAIN gs : gs[i].listener = l /\ gs[i].null /\ \A j \in 1..(i - 1) : gs[j].listener # l

\* Items may gain one without rules.
LEMMA GroupForSame ==
  ASSUME NEW gs \in Seq(RouteItems), NEW l \in TableListeners
  PROVE  LET all == groupFor(gs, l)
         IN /\ all \in Seq(RouteItems) /\ \E i \in DOMAIN all : all[i].listener = l
            /\ Spots(all) = Spots(gs) /\ \A p \in Spots(gs) : RuleAt(all, p) = RuleAt(gs, p)
            /\ \A i \in DOMAIN all : all[i].listener = l => (i \in DOMAIN gs /\ all = gs) \/ ~all[i].null
<1> DEFINE new == [listener |-> l, rules |-> <<>>, null |-> FALSE]
           all == groupFor(gs, l)
<1>1. CASE \E i \in DOMAIN gs : gs[i].listener = l
  BY <1>1 DEF groupFor
<1>2. CASE ~\E i \in DOMAIN gs : gs[i].listener = l
  <2>1. all = Append(gs, new) /\ new \in RouteItems
    BY <1>2, EmptySeq DEF groupFor, RouteItems
  <2>2. new.listener = l /\ new.rules = <<>> /\ ~new.null /\ DOMAIN new.rules = {}
    OBVIOUS
  <2> HIDE DEF new, all
  <2>3. /\ all \in Seq(RouteItems) /\ DOMAIN gs = 1..Len(gs) /\ Len(gs) \in Nat /\ DOMAIN all = 1..(Len(gs) + 1)
        /\ all[Len(gs) + 1] = new /\ \A i \in DOMAIN gs : all[i] = gs[i]
    BY <2>1, AppendProperties
  <2>4. \A i \in DOMAIN all : i \in DOMAIN gs \/ i = Len(gs) + 1
    BY <2>3
  <2>5. Spots(all) = Spots(gs)
    <3>1. ASSUME NEW p \in Spots(all) PROVE p \in Spots(gs)
      BY <2>2, <2>3, <2>4 DEF Spots
    <3>2. ASSUME NEW p \in Spots(gs) PROVE p \in Spots(all)
      <4>1. p[1] \in DOMAIN gs /\ p[1] \in DOMAIN all
        BY <2>3 DEF Spots
      <4> QED
        BY <2>3, <4>1 DEF Spots
    <3> QED
      BY <3>1, <3>2
  <2>6. \A p \in Spots(gs) : RuleAt(all, p) = RuleAt(gs, p)
    BY <2>3 DEF Spots, RuleAt
  <2>7. \A i \in DOMAIN all : all[i].listener = l => ~all[i].null
    BY <1>2, <2>2, <2>3, <2>4
  <2>8. Len(gs) + 1 \in DOMAIN all /\ all[Len(gs) + 1].listener = l
    BY <2>2, <2>3
  <2> QED
    BY <2>3, <2>5, <2>6, <2>7, <2>8 DEF all
<1> QED
  BY <1>1, <1>2

\* The item a rule is put in is the listener's first.
PutsAt(gs, l, r, all, at) ==
  /\ all[at].listener = l /\ \A j \in 1..(at - 1) : all[j].listener # l
  /\ putRule(gs, l, r) = IF all[at].null THEN all ELSE [all EXCEPT ![at].rules = Append(@, r)]
LEMMA PutPlace ==
  ASSUME NEW gs \in Seq(RouteItems), NEW l \in TableListeners, NEW r, NEW all, all = groupFor(gs, l)
  PROVE  \E at \in DOMAIN all : PutsAt(gs, l, r, all, at)
<1> DEFINE first(i) == all[i].listener = l /\ \A j \in 1..(i - 1) : all[j].listener # l
           at == CHOOSE i \in DOMAIN all : first(i)
<1>1. all \in Seq(RouteItems) /\ \E i \in DOMAIN all : all[i].listener = l
  BY GroupForSame
<1>2. \E i \in DOMAIN all : first(i)
  <2> DEFINE T == {i \in Nat : \A k \in DOMAIN all : k <= i => all[k].listener # l}
  <2>1. SUFFICES ASSUME \A i \in DOMAIN all : ~first(i) PROVE FALSE
    OBVIOUS
  <2>2. DOMAIN all = 1..Len(all) /\ Len(all) \in Nat
    BY <1>1
  <2>3. 0 \in T
    BY <2>2
  <2>4. \A n \in Nat : n \in T => n + 1 \in T
    BY <2>1, <2>2
  <2> HIDE DEF T
  <2>5. Nat \subseteq T
    BY <2>3, <2>4, SetInduction
  <2> QED
    BY <1>1, <2>2, <2>5 DEF T
<1>3. at \in DOMAIN all /\ first(at)
  BY <1>2
<1>4. putRule(gs, l, r) = IF all[at].null THEN all ELSE [all EXCEPT ![at].rules = Append(@, r)]
  BY DEF putRule
<1> HIDE DEF at
<1> QED
  BY <1>3, <1>4 DEF PutsAt

\* A rule put in comes to a spot of its own, and the others stay.
LEMMA PutMoves ==
  ASSUME NEW gs \in Seq(RouteItems), NEW l \in TableListeners, NEW r \in RuleEntries,
         \A p \in Spots(gs) : RuleAt(gs, p).target # r.target
  PROVE  LET to == putRule(gs, l, r)
         IN /\ to \in Seq(RouteItems) /\ OtherSpots(to, r.target) = Spots(gs)
            /\ \A p \in Spots(gs) : RuleAt(to, p) = RuleAt(gs, p)
            /\ \A p, q \in Spots(to) : RuleAt(to, p).target = r.target /\ RuleAt(to, q).target = r.target => p = q
            /\ ~NoRoom(gs, l) => \E p \in Spots(to) : RuleAt(to, p).target = r.target /\ RuleAt(to, p).listener = l
<1> DEFINE all == groupFor(gs, l)
           to == putRule(gs, l, r)
<1>1. /\ all \in Seq(RouteItems) /\ Spots(all) = Spots(gs) /\ \A p \in Spots(gs) : RuleAt(all, p) = RuleAt(gs, p)
      /\ \A i \in DOMAIN all : all[i].listener = l => (i \in DOMAIN gs /\ all = gs) \/ ~all[i].null
  BY GroupForSame
<1>0. all = groupFor(gs, l)
  OBVIOUS
<1> HIDE DEF all
<1>2. PICK at \in DOMAIN all : PutsAt(gs, l, r, all, at)
  BY <1>0, PutPlace
<1>3. to \in Seq(RouteItems)
  BY PutRuleTyped
<1>4. CASE all[at].null
  <2>1. to = all
    BY <1>2, <1>4 DEF PutsAt
  <2>2. NoRoom(gs, l)
    BY <1>1, <1>2, <1>4 DEF NoRoom, PutsAt
  <2> HIDE DEF to
  <2>3. Spots(to) = Spots(gs) /\ \A p \in Spots(gs) : RuleAt(to, p) = RuleAt(gs, p)
    BY <1>1, <2>1
  <2>4. OtherSpots(to, r.target) = Spots(gs)
    BY <2>3 DEF OtherSpots
  <2> QED
    BY <1>3, <2>2, <2>3, <2>4 DEF to
<1>5. CASE ~all[at].null
  <2> DEFINE K == Len(all[at].rules)
             s == <<at, K + 1>>
  <2>1. to = [all EXCEPT ![at].rules = Append(@, r)]
    BY <1>2, <1>5 DEF PutsAt
  <2> HIDE DEF to
  <2>2. /\ all[at] \in RouteItems /\ all[at].rules \in Seq(RuleEntries)
        /\ DOMAIN all = 1..Len(all) /\ Len(all) \in Nat
    BY <1>1, ItemTyped
  <2>3. /\ K \in Nat /\ DOMAIN all[at].rules = 1..K
        /\ Append(all[at].rules, r) \in Seq(RuleEntries) /\ DOMAIN Append(all[at].rules, r) = 1..(K + 1)
        /\ Append(all[at].rules, r)[K + 1] = r /\ \A k \in 1..K : Append(all[at].rules, r)[k] = all[at].rules[k]
    BY <2>2, AppendProperties
  <2>4. /\ DOMAIN to = DOMAIN all /\ to[at].rules = Append(all[at].rules, r) /\ to[at].listener = l
        /\ \A i \in DOMAIN all : i # at => to[i] = all[i]
    <3>1. DOMAIN to = DOMAIN all /\ to[at] = [all[at] EXCEPT !.rules = Append(@, r)] /\ \A i \in DOMAIN all : i # at => to[i] = all[i]
      BY <1>2, <2>1
    <3>2. to[at].rules = Append(all[at].rules, r) /\ to[at].listener = all[at].listener
      BY <2>2, <3>1 DEF RouteItems
    <3> QED
      BY <1>2, <3>1, <3>2 DEF PutsAt
  <2> HIDE DEF K
  <2>5. s[1] = at /\ s[2] = K + 1 /\ s \notin Spots(all) /\ s \in Spots(to)
    <3>1. s[1] = at /\ s[2] = K + 1 /\ s \in Nat \X Nat /\ K + 1 \notin 1..K /\ K + 1 \in 1..(K + 1)
      BY <1>2, <2>2, <2>3
    <3> HIDE DEF s
    <3> QED
      BY <1>2, <2>3, <2>4, <3>1 DEF Spots
  <2>6. ASSUME NEW p \in Spots(all) PROVE p \in Spots(to) /\ RuleAt(to, p) = RuleAt(all, p)
    <3>1. p \in Nat \X Nat /\ p[1] \in DOMAIN all /\ p[2] \in DOMAIN all[p[1]].rules
      BY DEF Spots
    <3>2. CASE p[1] = at
      <4>1. p[2] \in 1..K /\ p[2] \in 1..(K + 1)
        BY <2>3, <3>1, <3>2
      <4>2. to[p[1]].rules[p[2]] = all[p[1]].rules[p[2]] /\ to[p[1]].listener = all[p[1]].listener /\ p[2] \in DOMAIN to[p[1]].rules
        BY <1>2, <2>3, <2>4, <3>2, <4>1 DEF PutsAt
      <4> QED
        BY <2>4, <3>1, <4>2 DEF Spots, RuleAt
    <3>3. CASE p[1] # at
      BY <2>4, <3>1, <3>3 DEF Spots, RuleAt
    <3> QED
      BY <3>2, <3>3
  <2>7. ASSUME NEW p \in Spots(to), p # s PROVE p \in Spots(all)
    <3>1. p \in Nat \X Nat /\ p = <<p[1], p[2]>> /\ p[1] \in DOMAIN all /\ p[2] \in DOMAIN to[p[1]].rules
      BY <2>4 DEF Spots
    <3>2. CASE p[1] = at
      <4>1. p[2] \in 1..(K + 1) /\ p[2] # K + 1
        BY <2>3, <2>4, <2>7, <3>1, <3>2
      <4>2. p[2] \in 1..K
        BY <2>3, <4>1
      <4> QED
        BY <2>3, <3>1, <3>2, <4>2 DEF Spots
    <3>3. CASE p[1] # at
      BY <2>4, <3>1, <3>3 DEF Spots
    <3> QED
      BY <3>2, <3>3
  <2>8. RuleAt(to, s).target = r.target /\ RuleAt(to, s).listener = l
    <3>1. to[s[1]].rules[s[2]] = r /\ to[s[1]].listener = l
      BY <2>3, <2>4, <2>5
    <3>2. RuleAt(to, s) = [r EXCEPT !.listener = l]
      BY <3>1 DEF RuleAt
    <3> QED
      BY <3>2 DEF RuleEntries
  <2> HIDE DEF s
  <2>9. ASSUME NEW p \in Spots(all) PROVE RuleAt(to, p) = RuleAt(gs, p) /\ RuleAt(to, p).target # r.target
    BY <1>1, <2>6
  <2>10. OtherSpots(to, r.target) = Spots(gs)
    BY <1>1, <2>6, <2>7, <2>8, <2>9 DEF OtherSpots
  <2>11. ASSUME NEW p \in Spots(to), RuleAt(to, p).target = r.target PROVE p = s
    BY <2>7, <2>9, <2>11
  <2> QED
    BY <1>1, <1>3, <2>5, <2>8, <2>9, <2>10, <2>11 DEF to
<1> QED
  BY <1>4, <1>5

LEMMA TakenNoRoom ==
  ASSUME NEW gs \in Seq(RouteItems), NEW g \in DOMAIN gs, NEW k \in DOMAIN gs[g].rules, NEW l, l # gs[g].listener,
         NoRoom(takeRule(gs, g, k), l)
  PROVE  NoRoom(gs, l)
<1> DEFINE to == takeRule(gs, g, k)
           N == Len(gs)
           rest == RemoveAt(gs[g].rules, k)
<1>1. DOMAIN gs = 1..N /\ N \in Nat /\ to \in Seq(RouteItems)
  BY TakeRuleTyped
<1>2. PICK i \in DOMAIN to : to[i].listener = l /\ to[i].null /\ \A j \in 1..(i - 1) : to[j].listener # l
  BY Zenon DEF NoRoom
<1>3. CASE rest # <<>>
  <2>1. to = [gs EXCEPT ![g].rules = rest]
    BY <1>3 DEF takeRule
  <2> HIDE DEF to, rest
  <2>2. DOMAIN to = DOMAIN gs /\ \A j \in DOMAIN gs : j # g => to[j] = gs[j]
    BY <2>1
  <2>3. to[g].listener = gs[g].listener
    <3>1. to[g] = [gs[g] EXCEPT !.rules = rest] /\ gs[g] \in RouteItems
      BY <2>1, ItemTyped
    <3> QED
      BY <3>1 DEF RouteItems
  <2>4. \A j \in 1..(i - 1) : j \in DOMAIN gs /\ gs[j].listener # l
    BY <1>1, <1>2, <2>2, <2>3
  <2>5. i # g /\ to[i] = gs[i]
    BY <1>2, <2>2, <2>3
  <2> QED
    BY <1>2, <2>2, <2>4, <2>5 DEF NoRoom
<1>4. CASE rest = <<>>
  <2>1. /\ to = RemoveAt(gs, g) /\ DOMAIN to = 1..(N - 1)
        /\ \A j \in 1..(N - 1) : to[j] = IF j < g THEN gs[j] ELSE gs[j + 1]
    BY <1>4, RemovedElements DEF takeRule
  <2> HIDE DEF to, rest, N
  <2>2. CASE i < g
    <3>1. i \in DOMAIN gs /\ gs[i] = to[i]
      BY <1>1, <1>2, <2>1, <2>2
    <3>2. \A j \in 1..(i - 1) : to[j] = gs[j]
      BY <1>1, <2>1, <2>2, <3>1
    <3> QED
      BY <1>2, <3>1, <3>2 DEF NoRoom
  <2>3. CASE ~(i < g)
    <3>1. i + 1 \in DOMAIN gs /\ gs[i + 1] = to[i] /\ i \in 1..(N - 1) /\ g \in 1..N
      BY <1>1, <1>2, <2>1, <2>3
    <3>2. ASSUME NEW j \in 1..((i + 1) - 1) PROVE gs[j].listener # l
      <4>1. CASE j < g
        <5>1. j \in 1..(i - 1) /\ j \in 1..(N - 1) /\ to[j] = gs[j]
          BY <1>1, <2>1, <2>3, <3>1, <4>1
        <5> QED
          BY <1>2, <5>1
      <4>2. CASE j > g
        <5>1. j - 1 \in 1..(i - 1) /\ j - 1 \in 1..(N - 1) /\ ~(j - 1 < g) /\ (j - 1) + 1 = j
          BY <1>1, <3>1, <4>2
        <5>2. to[j - 1] = gs[j]
          BY <2>1, <5>1
        <5> QED
          BY <1>2, <5>1, <5>2
      <4> QED
        BY <3>1, <4>1, <4>2
    <3> QED
      BY <1>2, <3>1, <3>2 DEF NoRoom
  <2> QED
    BY <2>2, <2>3
<1> QED
  BY <1>3, <1>4

\* An edit does what it says, and the file's rules can be told apart again.
Edits(gs, to, d) ==
  /\ \E M : Moves(M, gs, to, d)
  /\ SpotsApart(to)
  /\ d.op = "set" => NoRoom(gs, d.listener) \/ \E p \in Spots(to) : RuleAt(to, p).target = d.target /\ RuleAt(to, p).listener = d.listener
  /\ d.op = "drop" => \A p \in Spots(to) : RuleAt(to, p).target # d.target

LEMMA PutEdits ==
  ASSUME NEW gs \in Seq(RouteItems), SpotsApart(gs), NEW l \in TableListeners, NEW r \in RuleEntries,
         \A p \in Spots(gs) : RuleAt(gs, p).target # r.target,
         NEW d, d.op = "set", d.target = r.target, d.listener = l
  PROVE  Edits(gs, putRule(gs, l, r), d)
<1> DEFINE to == putRule(gs, l, r)
<1>1. /\ to \in Seq(RouteItems) /\ OtherSpots(to, d.target) = Spots(gs)
      /\ \A p \in Spots(gs) : RuleAt(to, p) = RuleAt(gs, p)
      /\ \A p, q \in Spots(to) : RuleAt(to, p).target = d.target /\ RuleAt(to, q).target = d.target => p = q
      /\ NoRoom(gs, l) \/ \E p \in Spots(to) : RuleAt(to, p).target = d.target /\ RuleAt(to, p).listener = d.listener
  BY PutMoves
<1> HIDE DEF to
<1>2. OtherSpots(gs, d.target) = Spots(gs)
  BY DEF OtherSpots
<1>3. \A p \in Spots(gs) : carried(d, RuleAt(gs, p)) = RuleAt(gs, p)
  BY SpotTyped, CarriedAsIs
<1>4. PICK M : Moves(M, gs, to, d)
  BY <1>1, <1>2, <1>3, StaysPut
<1>5. SpotsApart(to)
  BY <1>1, <1>4, MovedApart
<1> QED
  BY <1>1, <1>4, <1>5 DEF Edits, to

LEMMA TakeEdits ==
  ASSUME NEW gs \in Seq(RouteItems), SpotsApart(gs), NEW g \in DOMAIN gs, NEW k \in DOMAIN gs[g].rules,
         NEW d, d.op = "drop", d.target = gs[g].rules[k].target
  PROVE  Edits(gs, takeRule(gs, g, k), d)
<1> DEFINE to == takeRule(gs, g, k)
<1>1. to \in Seq(RouteItems) /\ (\E M : Moves(M, gs, to, d)) /\ OtherSpots(to, d.target) = Spots(to)
  BY TakeRuleTyped, TakeMoves
<1> HIDE DEF to
<1>2. PICK M : Moves(M, gs, to, d)
  BY <1>1
<1>3. \A p \in Spots(to) : RuleAt(to, p).target # d.target
  BY <1>1 DEF OtherSpots
<1>4. SpotsApart(to)
  BY <1>1, <1>2, <1>3, MovedApart
<1> QED
  BY <1>2, <1>3, <1>4 DEF Edits, to

\* A rule that stays under its listener is changed where it is.
Replaced(gs, g, k, r) == [gs EXCEPT ![g].rules[k] = r]
LEMMA ReplaceEdits ==
  ASSUME NEW gs \in Seq(RouteItems), SpotsApart(gs), NEW g \in DOMAIN gs, NEW k \in DOMAIN gs[g].rules, NEW r \in RuleEntries,
         r.target = gs[g].rules[k].target, r.listener = gs[g].listener,
         NEW d, d.op = "set", d.target = r.target, d.listener = r.listener
  PROVE  Edits(gs, Replaced(gs, g, k, r), d)
<1> DEFINE to == Replaced(gs, g, k, r)
           s == <<g, k>>
<1>1. /\ gs[g] \in RouteItems /\ gs[g].rules \in Seq(RuleEntries) /\ g \in Nat /\ k \in Nat
      /\ DOMAIN gs[g].rules = 1..Len(gs[g].rules)
  BY ItemTyped
<1>2. /\ DOMAIN to = DOMAIN gs /\ to[g].rules = [gs[g].rules EXCEPT ![k] = r] /\ to[g].listener = gs[g].listener
      /\ \A i \in DOMAIN gs : i # g => to[i] = gs[i]
  <2>1. DOMAIN to = DOMAIN gs /\ to[g] = [gs[g] EXCEPT !.rules[k] = r] /\ \A i \in DOMAIN gs : i # g => to[i] = gs[i]
    BY DEF Replaced
  <2>2. to[g].rules = [gs[g].rules EXCEPT ![k] = r] /\ to[g].listener = gs[g].listener
    BY <1>1, <2>1 DEF RouteItems
  <2> QED
    BY <2>1, <2>2
<1> HIDE DEF to
<1>3. Spots(to) = Spots(gs)
  <2>1. DOMAIN to[g].rules = DOMAIN gs[g].rules
    BY <1>2
  <2>2. \A i \in DOMAIN gs : DOMAIN to[i].rules = DOMAIN gs[i].rules
    BY <1>2, <2>1
  <2> QED
    BY <1>2, <2>2 DEF Spots
<1>4. s \in Spots(gs) /\ s[1] = g /\ s[2] = k
  BY <1>1 DEF Spots
<1>5. RuleAt(to, s).target = d.target /\ RuleAt(to, s).listener = d.listener /\ RuleAt(gs, s).target = d.target
  <2>1. RuleAt(to, s) = [r EXCEPT !.listener = gs[g].listener]
    BY <1>1, <1>2, <1>4 DEF RuleAt
  <2>2. RuleAt(gs, s).target = gs[g].rules[k].target
    BY <1>4, SpotTyped
  <2> QED
    BY <2>1, <2>2 DEF RuleEntries
<1> HIDE DEF s
<1>6. ASSUME NEW p \in Spots(gs), p # s PROVE RuleAt(to, p) = RuleAt(gs, p) /\ RuleAt(gs, p).target # d.target
  <2>1. p = <<p[1], p[2]>> /\ p[1] \in DOMAIN gs /\ p[2] \in DOMAIN gs[p[1]].rules
    BY DEF Spots
  <2>2. p[1] = g => p[2] # k
    BY <1>4, <1>6, <2>1 DEF Spots
  <2>3. to[p[1]].rules[p[2]] = gs[p[1]].rules[p[2]] /\ to[p[1]].listener = gs[p[1]].listener
    BY <1>2, <2>1, <2>2
  <2>4. RuleAt(gs, p).target # d.target
    BY <1>4, <1>5, <1>6 DEF SpotsApart
  <2> QED
    BY <2>3, <2>4 DEF RuleAt
<1>7. OtherSpots(gs, d.target) = Spots(gs) \ {s} /\ OtherSpots(to, d.target) = Spots(gs) \ {s}
  BY <1>3, <1>4, <1>5, <1>6 DEF OtherSpots
<1>8. \A p \in Spots(gs) : carried(d, RuleAt(gs, p)) = RuleAt(gs, p)
  BY SpotTyped, CarriedAsIs
<1>9. PICK M : Moves(M, gs, to, d)
  BY <1>6, <1>7, <1>8, StaysPut
<1>10. SpotsApart(to)
  BY <1>3, <1>5, <1>6 DEF SpotsApart
<1> QED
  BY <1>3, <1>4, <1>5, <1>9, <1>10 DEF Edits, to

LEMMA ChangeEdits ==
  ASSUME NEW gs \in Seq(RouteItems), SpotsApart(gs), NEW g \in DOMAIN gs, NEW k \in DOMAIN gs[g].rules, NEW r \in RuleEntries,
         r.target = gs[g].rules[k].target, r.listener \in TableListeners,
         NEW d, d.op = "set", d.target = r.target, d.listener = r.listener
  PROVE  Edits(gs, changeRule(gs, g, k, r), d)
<1>1. CASE gs[g].listener = r.listener
  <2>1. changeRule(gs, g, k, r) = Replaced(gs, g, k, r)
    BY <1>1 DEF changeRule, Replaced
  <2> QED
    BY <1>1, <2>1, ReplaceEdits
<1>2. CASE gs[g].listener # r.listener
  <2> DEFINE mid == takeRule(gs, g, k)
             to == putRule(mid, r.listener, r)
             x == r.target
  <2>1. changeRule(gs, g, k, r) = to
    BY <1>2 DEF changeRule
  <2>2. mid \in Seq(RouteItems) /\ (\E M : Moves(M, gs, mid, d)) /\ OtherSpots(mid, x) = Spots(mid)
    BY TakeRuleTyped, TakeMoves
  <2>3. NoRoom(mid, r.listener) => NoRoom(gs, r.listener)
    BY <1>2, TakenNoRoom
  <2> HIDE DEF mid
  <2>4. \A p \in Spots(mid) : RuleAt(mid, p).target # x
    BY <2>2 DEF OtherSpots
  <2>5. /\ to \in Seq(RouteItems) /\ OtherSpots(to, x) = Spots(mid)
        /\ \A p \in Spots(mid) : RuleAt(to, p) = RuleAt(mid, p)
        /\ \A p, q \in Spots(to) : RuleAt(to, p).target = x /\ RuleAt(to, q).target = x => p = q
        /\ ~NoRoom(mid, r.listener) => \E p \in Spots(to) : RuleAt(to, p).target = x /\ RuleAt(to, p).listener = r.listener
    BY <2>2, <2>4, PutMoves
  <2> HIDE DEF to, x
  <2>6. PICK M : Moves(M, gs, mid, d)
    BY <2>2
  <2>7. Moves(M, gs, to, d)
    BY <2>2, <2>5, <2>6 DEF Moves, x
  <2>8. SpotsApart(to)
    BY <2>5, <2>7, MovedApart DEF x
  <2> QED
    BY <2>1, <2>3, <2>5, <2>7, <2>8 DEF Edits, x
<1> QED
  BY <1>1, <1>2

LEMMA RenamedSpots ==
  ASSUME NEW gs \in Seq(RouteItems), SpotsApart(gs), NEW to, NEW d, d.op \in {"listener", "auth"},
         Spots(to) = Spots(gs), \A p \in Spots(gs) : RuleAt(to, p) = carried(d, RuleAt(gs, p))
  PROVE  Edits(gs, to, d)
<1>1. \A p \in Spots(gs) : RuleAt(to, p).target = RuleAt(gs, p).target
  BY SpotTyped, CarriedTarget
<1>2. OtherSpots(to, d.target) = OtherSpots(gs, d.target) /\ OtherSpots(gs, d.target) \subseteq Spots(gs)
  BY <1>1 DEF OtherSpots
<1>3. \E M : Moves(M, gs, to, d)
  BY <1>2, StaysPut
<1>4. SpotsApart(to)
  BY <1>1 DEF SpotsApart
<1> QED
  BY <1>3, <1>4 DEF Edits

\* An edit of a listener or of a group that renames nothing.
LEMMA SameEdits ==
  ASSUME NEW gs \in Seq(RouteItems), SpotsApart(gs), NEW d, d.op \in {"listener", "auth"}, d.from = d.to
  PROVE  Edits(gs, gs, d)
BY RenamedSpots, SpotTyped, CarriedAsIs

LEMMA RenamedGroupsEdits ==
  ASSUME NEW gs \in Seq(RouteItems), SpotsApart(gs), NEW from, NEW l \in TableListeners,
         NEW d, d.op = "listener", d.from = from, d.to = l
  PROVE  Edits(gs, renamedGroups(gs, from, l), d)
<1> DEFINE to == renamedGroups(gs, from, l)
<1>1. /\ DOMAIN to = DOMAIN gs
      /\ \A i \in DOMAIN gs : to[i] = IF gs[i].listener = from THEN [gs[i] EXCEPT !.listener = l] ELSE gs[i]
  BY DEF renamedGroups
<1> HIDE DEF to
<1>2. ASSUME NEW i \in DOMAIN gs
      PROVE  to[i].rules = gs[i].rules /\ to[i].listener = IF gs[i].listener = from THEN l ELSE gs[i].listener
  <2>1. gs[i] \in RouteItems
    BY ItemTyped
  <2> QED
    BY <1>1, <2>1 DEF RouteItems
<1>3. Spots(to) = Spots(gs)
  BY <1>1, <1>2 DEF Spots
<1>4. ASSUME NEW p \in Spots(gs) PROVE RuleAt(to, p) = carried(d, RuleAt(gs, p))
  <2>1. p[1] \in DOMAIN gs /\ p[2] \in DOMAIN gs[p[1]].rules
    BY DEF Spots
  <2>2. gs[p[1]].rules \in Seq(RuleEntries)
    BY <2>1, ItemTyped
  <2>3. gs[p[1]].rules[p[2]] \in RuleEntries
    BY <2>1, <2>2, LenProperties, ElementOfSeq
  <2>4. PICK q \in RuleEntries : q = gs[p[1]].rules[p[2]]
    BY <2>3
  <2>5. RuleAt(gs, p) = [q EXCEPT !.listener = gs[p[1]].listener]
    BY <2>4 DEF RuleAt
  <2>6. RuleAt(to, p) = [q EXCEPT !.listener = IF gs[p[1]].listener = from THEN l ELSE gs[p[1]].listener]
    BY <1>2, <2>1, <2>4 DEF RuleAt
  <2>7. PICK a \in FileRules : a = RuleAt(gs, p)
    BY SpotTyped
  <2>8. carried(d, a) = [a EXCEPT !.listener = IF a.listener = from THEN l ELSE a.listener]
    BY DEF carried, renamedAs, FileRules
  <2>9. a.listener = gs[p[1]].listener /\ [q EXCEPT !.listener = l] = [a EXCEPT !.listener = l]
    BY <2>5, <2>7 DEF RuleEntries
  <2>10. [a EXCEPT !.listener = a.listener] = a
    BY DEF FileRules
  <2> QED
    BY <2>5, <2>6, <2>7, <2>8, <2>9, <2>10
<1> QED
  BY <1>3, <1>4, RenamedSpots DEF to

LEMMA RenamedRefsEdits ==
  ASSUME NEW gs \in Seq(RouteItems), SpotsApart(gs), NEW from, NEW n,
         NEW d, d.op = "auth", d.from = from, d.to = n
  PROVE  Edits(gs, renamedRefs(gs, from, n), d)
<1> DEFINE to == renamedRefs(gs, from, n)
           named(r) == IF r.auth = from THEN [r EXCEPT !.auth = n] ELSE r
<1>1. /\ DOMAIN to = DOMAIN gs
      /\ \A i \in DOMAIN gs : to[i] = [gs[i] EXCEPT !.rules = [k \in DOMAIN gs[i].rules |-> named(gs[i].rules[k])]]
  BY DEF renamedRefs
<1> HIDE DEF to, named
<1>2. ASSUME NEW i \in DOMAIN gs
      PROVE  to[i].rules = [k \in DOMAIN gs[i].rules |-> named(gs[i].rules[k])] /\ to[i].listener = gs[i].listener
  <2>1. gs[i] \in RouteItems
    BY ItemTyped
  <2> QED
    BY <1>1, <2>1 DEF RouteItems
<1>3. Spots(to) = Spots(gs)
  BY <1>1, <1>2 DEF Spots
<1>4. ASSUME NEW p \in Spots(gs) PROVE RuleAt(to, p) = carried(d, RuleAt(gs, p))
  <2>1. p[1] \in DOMAIN gs /\ p[2] \in DOMAIN gs[p[1]].rules
    BY DEF Spots
  <2>2. gs[p[1]].rules \in Seq(RuleEntries)
    BY <2>1, ItemTyped
  <2>3. gs[p[1]].rules[p[2]] \in RuleEntries
    BY <2>1, <2>2, LenProperties, ElementOfSeq
  <2>4. PICK q \in RuleEntries : q = gs[p[1]].rules[p[2]]
    BY <2>3
  <2> DEFINE l == gs[p[1]].listener
  <2>5. RuleAt(gs, p) = [q EXCEPT !.listener = l]
    BY <2>4 DEF RuleAt
  <2>6. RuleAt(to, p) = [named(q) EXCEPT !.listener = l]
    BY <1>2, <2>1, <2>4 DEF RuleAt
  <2> HIDE DEF l
  <2>7. PICK a \in FileRules : a = RuleAt(gs, p)
    BY SpotTyped
  <2>8. carried(d, a) = [a EXCEPT !.auth = IF a.auth = from THEN n ELSE a.auth]
    BY DEF carried, renamedAs, FileRules
  <2>9. a.auth = q.auth /\ [[q EXCEPT !.auth = n] EXCEPT !.listener = l] = [a EXCEPT !.auth = n]
    BY <2>5, <2>7 DEF RuleEntries
  <2>10. [a EXCEPT !.auth = a.auth] = a
    BY DEF FileRules
  <2>11. RuleAt(to, p) = IF a.auth = from THEN [a EXCEPT !.auth = n] ELSE a
    BY <2>5, <2>6, <2>7, <2>9 DEF named
  <2> QED
    BY <2>7, <2>8, <2>10, <2>11
<1> QED
  BY <1>3, <1>4, RenamedSpots DEF to

\* The rules of a file are those at its spots.
LEMMA SpotsAreRules ==
  ASSUME NEW t \in Texts
  PROVE  /\ \A p \in Spots(t.groups) : \E i \in DOMAIN rawRules(t) : rawRules(t)[i] = RuleAt(t.groups, p)
         /\ \A i \in DOMAIN rawRules(t) : \E p \in Spots(t.groups) : rawRules(t)[i] = RuleAt(t.groups, p)
<1>1. PICK f : RulePlaces(f, rawRules(t), t.groups, Len(t.groups))
  BY RulesPlaced
<1> DEFINE rs == rawRules(t)  gs == t.groups
<1>2. /\ f \in [DOMAIN rs -> Spots(gs)]
      /\ \A p \in Spots(gs) : \E i \in DOMAIN rs : f[i] = p
      /\ \A i \in DOMAIN rs : rs[i] = RuleAt(gs, f[i]) /\ f[i] \in Nat \X Nat
      /\ \A i, j \in DOMAIN rs : i < j <=> Before(f[i], f[j])
      /\ \A i, j \in DOMAIN rs : f[i] = f[j] => i = j
  BY <1>1, PlacesApart
<1> HIDE DEF rs, gs
<1>3. /\ \A p \in Spots(gs) : \E i \in DOMAIN rs : rs[i] = RuleAt(gs, p)
      /\ \A i \in DOMAIN rs : \E p \in Spots(gs) : rs[i] = RuleAt(gs, p)
  BY <1>2
<1> QED
  BY <1>3 DEF rs, gs

\* What EditsTouchOneItem says of an edit.
TouchesOneItem(t, u, d) ==
  ~(d.op = "set" /\ takesNoRule(t, d.listener)) =>
       LET old == rawRules(t)
           new == rawRules(u)
           same == sameRules(d, old, new)
       IN /\ \A i \in otherRules(d, old) : \E p \in same : p[1] = i
          /\ \A j \in otherRules(d, new) : \E p \in same : p[2] = j
          /\ \A p, q \in same : p[1] < q[1] <=> p[2] < q[2]
          /\ d.op = "set" => \E i \in rulesOf(new, d.listener) : new[i].target = d.target
          /\ d.op = "drop" => \A i \in DOMAIN new : new[i].target # d.target

LEMMA EditsTouch ==
  ASSUME NEW t \in Texts, NEW u \in Texts, SpotsApart(t.groups), NEW d, Edits(t.groups, u.groups, d)
  PROVE  TouchesOneItem(t, u, d)
<1> DEFINE old == rawRules(t)
           new == rawRules(u)
           same == sameRules(d, old, new)
<1>1. PICK M : Moves(M, t.groups, u.groups, d)
  BY DEF Edits
<1>2. /\ \A i \in otherRules(d, old) : \E p \in same : p[1] = i
      /\ \A j \in otherRules(d, new) : \E p \in same : p[2] = j
      /\ \A p, q \in same : p[1] < q[1] <=> p[2] < q[2]
  <2>1. SpotsApart(u.groups)
    BY DEF Edits
  <2> QED
    BY <1>1, <2>1, MovedSame
<1>3. ASSUME ~(d.op = "set" /\ takesNoRule(t, d.listener)), d.op = "set"
      PROVE  \E i \in rulesOf(new, d.listener) : new[i].target = d.target
  <2>1. ~NoRoom(t.groups, d.listener)
    BY <1>3 DEF NoRoom, takesNoRule
  <2>2. PICK p \in Spots(u.groups) : RuleAt(u.groups, p).target = d.target /\ RuleAt(u.groups, p).listener = d.listener
    BY <1>3, <2>1 DEF Edits
  <2>3. PICK i \in DOMAIN new : new[i] = RuleAt(u.groups, p)
    BY SpotsAreRules
  <2> QED
    BY <2>2, <2>3 DEF rulesOf
<1>4. ASSUME d.op = "drop", NEW i \in DOMAIN new PROVE new[i].target # d.target
  BY <1>4, SpotsAreRules DEF Edits
<1> HIDE DEF old, new, same
<1> QED
  BY <1>2, <1>3, <1>4 DEF TouchesOneItem, old, new, same

-----------------------------------------------------------------------------
(* The steps of the editor *)

LEMMA GroupsReplaced ==
  ASSUME NEW t \in Texts, NEW gs \in Seq(RouteItems)
  PROVE  [t EXCEPT !.groups = gs] \in Texts /\ [t EXCEPT !.groups = gs].groups = gs
BY DEF Texts

LEMMA ListenersReplaced ==
  ASSUME NEW t \in Texts, NEW ls \in Seq(ListenerEntries)
  PROVE  [t EXCEPT !.listeners = ls] \in Texts /\ [t EXCEPT !.listeners = ls].groups = t.groups
BY DEF Texts

AuthEntries == [name : GroupNames, users : {{"u"}}]
LEMMA AuthsReplaced ==
  ASSUME NEW t \in Texts, NEW as \in Seq(AuthEntries)
  PROVE  [t EXCEPT !.auths = as] \in Texts /\ [t EXCEPT !.auths = as].groups = t.groups
BY DEF Texts, AuthEntries

\* What the editor records of an edit.
Says(d, op, target, listener, from, to) ==
  d.op = op /\ d.target = target /\ d.listener = listener /\ d.from = from /\ d.to = to

LEMMA SameText ==
  ASSUME RulesIInv, text' = text
  PROVE  LoadConfig(text)' /\ apart(rawRules(text))'
<1>1. LoadConfig(text) /\ apart(rawRules(text))
  BY DEF RulesIInv
<1> QED
  BY <1>1

\* A saved edit leaves a file that loads, with the other rules as they were;
\* what is stopped stays.
EditKeeps == RulesIInv' /\ (text' # text => TouchesOneItem(text, text', did'))
LEMMA SavedKeeps ==
  ASSUME RulesIInv, did.n < MaxTextEdits, NEW t \in Texts,
         NEW op, NEW target, NEW listener, NEW from, NEW to, saved(t, Did(op, target, listener, from, to)),
         \A d : Says(d, op, target, listener, from, to) => Edits(text.groups, t.groups, d)
  PROVE  EditKeeps
<1>0. text \in Texts /\ SpotsApart(text.groups)
  BY ApartIs DEF RulesIInv
<1>1. stoppedRules' = stoppedRules
  BY DEF saved
<1>2. CASE LoadConfig(t) /\ t # text
  <2> DEFINE what == [Did(op, target, listener, from, to) EXCEPT !.n = did.n + 1]
  <2>1. text' = t /\ did' = what
    BY <1>2, Zenon DEF saved
  <2>2. what.n = did.n + 1 /\ Says(what, op, target, listener, from, to)
    BY DEF Did, Says
  <2>3. did'.n = did.n + 1
    <3> HIDE DEF what
    <3> QED
      BY <2>1, <2>2
  <2>4. did'.n \in 0..MaxTextEdits
    BY <2>3, RuleTableAssumption DEF RulesIInv
  <2>5. LoadConfig(text)'
    BY <1>2, <2>1
  <2>6. (Key(consoleRule) \notin stoppedRules)'
    BY <1>1 DEF RulesIInv
  <2>7. Edits(text.groups, t.groups, did')
    <3> HIDE DEF what
    <3> QED
      BY <2>1, <2>2
  <2>8. SpotsApart(t.groups)
    BY <2>7 DEF Edits
  <2>9. apart(rawRules(t))
    BY <2>8, ApartIs
  <2>10. TouchesOneItem(text, t, did')
    BY <1>0, <2>7, EditsTouch
  <2> HIDE DEF what
  <2>11. RulesIInv'
    BY <1>1, <2>1, <2>4, <2>5, <2>6, <2>9 DEF RulesIInv
  <2> QED
    BY <2>1, <2>10, <2>11 DEF EditKeeps
<1>3. CASE ~(LoadConfig(t) /\ t # text)
  <2>1. text' = text /\ did' = did
    BY <1>3, Zenon DEF saved
  <2> QED
    BY <1>1, <2>1, SameText DEF RulesIInv, EditKeeps
<1> QED
  BY <1>2, <1>3

LEMMA RuleEditsKeep ==
  ASSUME RulesIInv, did.n < MaxTextEdits, RuleEdits
  PROVE  EditKeeps
<1> DEFINE gs == text.groups
<1>1. /\ text \in Texts /\ gs \in Seq(RouteItems) /\ SpotsApart(gs)
      /\ text.listeners \in Seq(ListenerEntries) /\ text.auths \in Seq(AuthEntries)
  BY ApartIs DEF RulesIInv, Texts, AuthEntries
<1>2. ASSUME NEW l \in TableListeners, NEW d \in Domains, NEW x \in Targets, NEW a \in GroupNames \cup {""},
             AddRule(l, d, x, a)
      PROVE  EditKeeps
  <2> DEFINE r == [listener |-> l, domain |-> d, target |-> x, auth |-> a]
             t == [text EXCEPT !.groups = putRule(@, l, r)]
  <2>1. saved(t, Did("set", x, l, "", ""))
    BY <1>2, Zenon DEF AddRule
  <2>2. r \in RuleEntries
    BY DEF RuleEntries
  <2>3. t \in Texts /\ t.groups = putRule(gs, l, r)
    <3> HIDE DEF r
    <3>1. putRule(gs, l, r) \in Seq(RouteItems)
      BY <1>1, <2>2, PutRuleTyped
    <3> QED
      BY <1>1, <3>1, GroupsReplaced, Zenon
  <2>4. ASSUME NEW p \in Spots(gs) PROVE RuleAt(gs, p).target # r.target
    <3>1. \A i \in DOMAIN rawRules(text) : rawRules(text)[i].target # x
      BY <1>2 DEF AddRule
    <3> QED
      BY <1>1, <3>1, SpotsAreRules
  <2>5. r.target = x
    OBVIOUS
  <2> HIDE DEF t, r
  <2>6. ASSUME NEW e, Says(e, "set", x, l, "", "") PROVE Edits(gs, t.groups, e)
    BY <1>1, <2>2, <2>3, <2>4, <2>5, <2>6, PutEdits DEF Says
  <2> QED
    BY <2>1, <2>3, <2>6, SavedKeeps, Zenon
<1>3. ASSUME NEW g \in DOMAIN text.groups, NEW k \in DOMAIN text.groups[g].rules
      PROVE  /\ DeleteRule(g, k) => EditKeeps
             /\ \A l \in TableListeners, d \in Domains : ChangeRule(g, k, l, d) => EditKeeps
  <2>1. ASSUME DeleteRule(g, k) PROVE EditKeeps
    <3> DEFINE t == [text EXCEPT !.groups = takeRule(@, g, k)]
    <3>1. saved(t, Did("drop", text.groups[g].rules[k].target, "", "", ""))
      BY <2>1, Zenon DEF DeleteRule
    <3>2. takeRule(gs, g, k) \in Seq(RouteItems)
      BY <1>1, TakeRuleTyped, Zenon
    <3>3. t \in Texts /\ t.groups = takeRule(gs, g, k)
      BY <1>1, <3>2, GroupsReplaced, Zenon
    <3> HIDE DEF t
    <3>4. ASSUME NEW e, Says(e, "drop", gs[g].rules[k].target, "", "", "") PROVE Edits(gs, t.groups, e)
      BY <1>1, <3>3, <3>4, TakeEdits DEF Says
    <3> QED
      BY <3>1, <3>3, <3>4, SavedKeeps, Zenon
  <2>2. ASSUME NEW l \in TableListeners, NEW d \in Domains, ChangeRule(g, k, l, d) PROVE EditKeeps
    <3> DEFINE r == [text.groups[g].rules[k] EXCEPT !.listener = l, !.domain = d]
               t == [text EXCEPT !.groups = changeRule(@, g, k, r)]
    <3>1. saved(t, Did("set", r.target, l, "", ""))
      BY <2>2, Zenon DEF ChangeRule
    <3>2. r \in RuleEntries /\ r.listener = l /\ r.target = gs[g].rules[k].target
      <4>1. gs[g].rules \in Seq(RuleEntries)
        BY <1>1, ItemTyped
      <4>2. gs[g].rules[k] \in RuleEntries
        BY <4>1, LenProperties, ElementOfSeq
      <4>3. PICK q \in RuleEntries : q = gs[g].rules[k]
        BY <4>2
      <4>4. [q EXCEPT !.listener = l, !.domain = d] \in RuleEntries
            /\ [q EXCEPT !.listener = l, !.domain = d].listener = l
            /\ [q EXCEPT !.listener = l, !.domain = d].target = q.target
        BY DEF RuleEntries
      <4> QED
        BY <4>3, <4>4
    <3> HIDE DEF r
    <3>3. changeRule(gs, g, k, r) \in Seq(RouteItems)
      BY <1>1, <3>2, ChangeRuleTyped, Zenon
    <3>4. t \in Texts /\ t.groups = changeRule(gs, g, k, r)
      BY <1>1, <3>3, GroupsReplaced, Zenon
    <3> HIDE DEF t
    <3>5. ASSUME NEW e, Says(e, "set", r.target, l, "", "") PROVE Edits(gs, t.groups, e)
      BY <1>1, <3>2, <3>4, <3>5, ChangeEdits DEF Says
    <3> QED
      BY <3>1, <3>4, <3>5, SavedKeeps, Zenon
  <2> QED
    BY <2>1, <2>2
<1>4. ASSUME NEW n \in TableListeners, NEW b \in SUBSET Addresses, NEW p \in TextPorts,
             NEW l, l = [name |-> n, binds |-> b, port |-> p]
      PROVE  /\ AddListener(l) => EditKeeps
             /\ \A i \in DOMAIN text.listeners : ChangeListener(i, l) => EditKeeps
  <2>0. l \in ListenerEntries /\ l.name \in TableListeners
    BY <1>4 DEF ListenerEntries
  <2>1. ASSUME AddListener(l) PROVE EditKeeps
    <3> DEFINE t == [text EXCEPT !.listeners = Append(@, l)]
    <3>1. saved(t, Did("listener", "", "", "", ""))
      BY <2>1, Zenon DEF AddListener
    <3>2. Append(text.listeners, l) \in Seq(ListenerEntries)
      BY <1>1, <2>0, AppendProperties
    <3>3. t \in Texts /\ t.groups = gs
      BY <1>1, <3>2, ListenersReplaced, Zenon
    <3> HIDE DEF t
    <3>4. ASSUME NEW e, Says(e, "listener", "", "", "", "") PROVE Edits(gs, t.groups, e)
      <4>1. e.op \in {"listener", "auth"} /\ e.from = e.to
        BY <3>4, Zenon DEF Says
      <4> QED
        BY <1>1, <3>3, <4>1, SameEdits
    <3> QED
      BY <3>1, <3>3, <3>4, SavedKeeps, Zenon
  <2>2. ASSUME NEW i \in DOMAIN text.listeners, ChangeListener(i, l) PROVE EditKeeps
    <3> DEFINE from == text.listeners[i].name
               ls == [text.listeners EXCEPT ![i] = l]
               t == [text EXCEPT !.listeners[i] = l, !.groups = renamedGroups(@, from, l.name)]
    <3>1. saved(t, Did("listener", "", "", from, l.name))
      BY <2>2, Zenon DEF ChangeListener
    <3>2. ls \in Seq(ListenerEntries)
      BY <1>1, <2>0, LenProperties, ExceptSeq
    <3>3. renamedGroups(gs, from, l.name) \in Seq(RouteItems)
      BY <1>1, <2>0, RenamedGroupsTyped
    <3>4. t = [[text EXCEPT !.listeners = ls] EXCEPT !.groups = renamedGroups(gs, from, l.name)]
      BY <1>1 DEF Texts
    <3> HIDE DEF ls
    <3>5. [text EXCEPT !.listeners = ls] \in Texts
      BY <1>1, <3>2, ListenersReplaced, Zenon
    <3>6. t \in Texts /\ t.groups = renamedGroups(gs, from, l.name)
      <4> HIDE DEF t
      <4> QED
        BY <3>3, <3>4, <3>5, GroupsReplaced
    <3> HIDE DEF t
    <3>7. ASSUME NEW e, Says(e, "listener", "", "", from, l.name) PROVE Edits(gs, t.groups, e)
      BY <1>1, <2>0, <3>6, <3>7, RenamedGroupsEdits DEF Says
    <3> QED
      BY <3>1, <3>6, <3>7, SavedKeeps, Zenon
  <2> QED
    BY <2>1, <2>2
<1>5. ASSUME NEW i \in DOMAIN text.listeners, DeleteListener(i) PROVE EditKeeps
  <2> DEFINE t == [text EXCEPT !.listeners = RemoveAt(@, i)]
  <2>1. saved(t, Did("listener", "", "", "", ""))
    BY <1>5, Zenon DEF DeleteListener
  <2>2. RemoveAt(text.listeners, i) \in Seq(ListenerEntries)
    BY <1>1, RemovedTyped, Zenon
  <2>3. t \in Texts /\ t.groups = gs
    BY <1>1, <2>2, ListenersReplaced, Zenon
  <2> HIDE DEF t
  <2>4. ASSUME NEW e, Says(e, "listener", "", "", "", "") PROVE Edits(gs, t.groups, e)
    <3>1. e.op \in {"listener", "auth"} /\ e.from = e.to
      BY <2>4, Zenon DEF Says
    <3> QED
      BY <1>1, <2>3, <3>1, SameEdits
  <2> QED
    BY <2>1, <2>3, <2>4, SavedKeeps, Zenon
<1>6. ASSUME NEW n \in GroupNames, AddGroup(n) PROVE EditKeeps
  <2> DEFINE new == [name |-> n, users |-> {"u"}]
             t == [text EXCEPT !.auths = Append(@, new)]
  <2>1. saved(t, Did("auth", "", "", "", ""))
    BY <1>6, Zenon DEF AddGroup
  <2>2. new \in AuthEntries
    BY DEF AuthEntries
  <2>3. Append(text.auths, new) \in Seq(AuthEntries)
    <3> HIDE DEF new
    <3> QED
      BY <1>1, <2>2, AppendProperties
  <2>4. t \in Texts /\ t.groups = gs
    BY <1>1, <2>3, AuthsReplaced, Zenon
  <2> HIDE DEF t
  <2>5. ASSUME NEW e, Says(e, "auth", "", "", "", "") PROVE Edits(gs, t.groups, e)
    <3>1. e.op \in {"listener", "auth"} /\ e.from = e.to
      BY <2>5, Zenon DEF Says
    <3> QED
      BY <1>1, <2>4, <3>1, SameEdits
  <2> QED
    BY <2>1, <2>4, <2>5, SavedKeeps, Zenon
<1>7. ASSUME NEW n \in GroupNames, NEW i \in DOMAIN text.auths, RenameGroup(i, n) PROVE EditKeeps
  <2> DEFINE from == text.auths[i].name
             as == [text.auths EXCEPT ![i].name = n]
             t == [text EXCEPT !.auths[i].name = n, !.groups = renamedRefs(@, from, n)]
  <2>1. saved(t, Did("auth", "", "", from, n))
    BY <1>7, Zenon DEF RenameGroup
  <2>2. as \in Seq(AuthEntries)
    <3>1. i \in 1..Len(text.auths) /\ text.auths[i] \in AuthEntries
      BY <1>1, LenProperties, ElementOfSeq
    <3>2. [text.auths[i] EXCEPT !.name = n] \in AuthEntries
      BY <3>1 DEF AuthEntries
    <3>3. as = [text.auths EXCEPT ![i] = [text.auths[i] EXCEPT !.name = n]]
      OBVIOUS
    <3> QED
      BY <1>1, <3>1, <3>2, <3>3, ExceptSeq
  <2>3. renamedRefs(gs, from, n) \in Seq(RouteItems)
    BY <1>1, RenamedRefsTyped, Zenon
  <2>4. t = [[text EXCEPT !.auths = as] EXCEPT !.groups = renamedRefs(gs, from, n)]
    BY <1>1 DEF Texts
  <2> HIDE DEF as
  <2>5. [text EXCEPT !.auths = as] \in Texts
    BY <1>1, <2>2, AuthsReplaced, Zenon
  <2>6. t \in Texts /\ t.groups = renamedRefs(gs, from, n)
    <3> HIDE DEF t
    <3> QED
      BY <2>3, <2>4, <2>5, GroupsReplaced
  <2> HIDE DEF t
  <2>7. ASSUME NEW e, Says(e, "auth", "", "", from, n) PROVE Edits(gs, t.groups, e)
    BY <1>1, <2>6, <2>7, RenamedRefsEdits DEF Says
  <2> QED
    BY <2>1, <2>6, <2>7, SavedKeeps, Zenon
<1>8. ASSUME NEW i \in DOMAIN text.auths, DeleteGroup(i) PROVE EditKeeps
  <2> DEFINE t == [text EXCEPT !.auths = RemoveAt(@, i)]
  <2>1. saved(t, Did("auth", "", "", "", ""))
    BY <1>8, Zenon DEF DeleteGroup
  <2>2. RemoveAt(text.auths, i) \in Seq(AuthEntries)
    BY <1>1, RemovedTyped, Zenon
  <2>3. t \in Texts /\ t.groups = gs
    BY <1>1, <2>2, AuthsReplaced, Zenon
  <2> HIDE DEF t
  <2>4. ASSUME NEW e, Says(e, "auth", "", "", "", "") PROVE Edits(gs, t.groups, e)
    <3>1. e.op \in {"listener", "auth"} /\ e.from = e.to
      BY <2>4, Zenon DEF Says
    <3> QED
      BY <1>1, <2>3, <3>1, SameEdits
  <2> QED
    BY <2>1, <2>3, <2>4, SavedKeeps, Zenon
<1> QED
  BY <1>2, <1>3, <1>4, <1>5, <1>6, <1>7, <1>8, Zenon DEF RuleEdits

LEMMA RulesStep ==
  ASSUME RulesIInv, RuleTableNext
  PROVE  EditKeeps
<1>1. CASE did.n < MaxTextEdits /\ RuleEdits
  BY <1>1, RuleEditsKeep
<1>2. ASSUME NEW i \in DOMAIN TableRules(text), StopRule(TableRules(text)[i]) PROVE EditKeeps
  <2> DEFINE rs == TableRules(text)
  <2>1. /\ rs[Len(rs)] = consoleRule
        /\ i # Len(rs) => rs[i] \in FileRules /\ Key(rs[i]) # Key(consoleRule)
    BY TableRulesOK DEF RulesIInv
  <2> HIDE DEF rs
  <2>2. rs[i].target # "console" /\ stoppedRules' = stoppedRules \cup {Key(rs[i])} /\ text' = text /\ did' = did
    BY <1>2 DEF StopRule, rs
  <2>3. i # Len(rs)
    <3>1. consoleRule.target = "console"
      BY DEF consoleRule
    <3> QED
      BY <2>1, <2>2, <3>1
  <2>4. Key(rs[i]) \in TableListeners \X Domains /\ Key(rs[i]) # Key(consoleRule)
    BY <2>1, <2>3 DEF Key, FileRules
  <2>5. stoppedRules' \subseteq (TableListeners \X Domains) /\ Key(consoleRule) \notin stoppedRules'
    BY <2>2, <2>4 DEF RulesIInv
  <2> QED
    BY <2>2, <2>5, SameText DEF RulesIInv, EditKeeps
<1>3. ASSUME NEW key \in stoppedRules, StartRule(key) PROVE EditKeeps
  <2>1. stoppedRules' \subseteq stoppedRules /\ text' = text /\ did' = did
    BY <1>3 DEF StartRule
  <2> QED
    BY <2>1, SameText DEF RulesIInv, EditKeeps
<1> QED
  BY <1>1, <1>2, <1>3, Zenon DEF RuleTableNext

LEMMA RulesStutter ==
  ASSUME RulesIInv, UNCHANGED ruleVars
  PROVE  EditKeeps
BY SameText DEF RulesIInv, EditKeeps, ruleVars

\* Each reachable file loads, is made of its entries, and its rules stay told
\* apart (console_rules.go ruleEdit, ruleStopStart).
THEOREM RuleTableTypesHold == RuleTableSpec => []RuleTableTypeOK
<1>1. RulesIInv /\ [RuleTableNext]_ruleVars => RulesIInv'
  BY RulesStep, RulesStutter DEF EditKeeps
<1> QED
  BY <1>1, InitRules, RulesTypeCorrect, PTL DEF RuleTableSpec

\* Whatever is edited and stopped, a name goes to the most specific rule of
\* its listener that matches and runs, the first of them in the console's
\* list, and the console is always reached (config.go RouteExcept).
THEOREM RoutingStaysRight == RuleTableSpec => []RoutingIsRight
<1>1. RulesIInv /\ [RuleTableNext]_ruleVars => RulesIInv'
  BY RulesStep, RulesStutter DEF EditKeeps
<1>2. RulesIInv => RoutingIsRight
  BY RoutesRight, ConsoleThere DEF RoutingIsRight
<1> QED
  BY <1>1, <1>2, InitRules, PTL DEF RuleTableSpec

\* A saved edit sets, drops or renames what it names, and the file's other
\* rules stay what they were, in order; only a rule set under a listener whose
\* first item has an empty rules: is lost (console_rules.go ruleEdit,
\* console_config.go ruleNodes).
THEOREM EditsStaySmall == RuleTableSpec => EditsTouchOneItem
<1>1. RulesIInv /\ [RuleTableNext]_ruleVars => RulesIInv'
  BY RulesStep, RulesStutter DEF EditKeeps
<1>2. RulesIInv /\ [RuleTableNext]_ruleVars => (text' # text => TouchesOneItem(text, text', did'))
  BY RulesStep, RulesStutter DEF EditKeeps
<1>3. RuleTableSpec => [][text' # text => TouchesOneItem(text, text', did')]_ruleVars
  BY <1>1, <1>2, InitRules, PTL DEF RuleTableSpec
<1>4. (text' # text => TouchesOneItem(text, text', did')) =>
        (text' # text /\ ~(did'.op = "set" /\ takesNoRule(text, did'.listener)) =>
           LET old == rawRules(text)
               new == rawRules(text')
               same == sameRules(did', old, new)
           IN /\ \A i \in otherRules(did', old) : \E p \in same : p[1] = i
              /\ \A j \in otherRules(did', new) : \E p \in same : p[2] = j
              /\ \A p, q \in same : p[1] < q[1] <=> p[2] < q[2]
              /\ did'.op = "set" => \E i \in rulesOf(new, did'.listener) : new[i].target = did'.target
              /\ did'.op = "drop" => \A i \in DOMAIN new : new[i].target # did'.target)
  BY Zenon DEF TouchesOneItem
<1> QED
  BY <1>3, <1>4, PTL DEF EditsTouchOneItem

-----------------------------------------------------------------------------
(* Serving here: the inductive invariant *)

\* ServeTypeOK, of the runtimes, the connections, the requests and what is remembered.
RuntimesOK ==
  /\ serveGen \in Gens /\ confs \in [Gens -> ServeConfigs] /\ reloading \in {"no", "retire", "sync"}
  /\ retired \subseteq Gens /\ dirs \in [Gens -> [open : BOOLEAN, closed : BOOLEAN]] /\ liveName \in ServeNames
  /\ folder \in BOOLEAN
ConnectionsOK ==
  sconns \in [Served -> [at : {"new", "handshake", "push", "retry", "served", "gone", "panic"},
                         rt : Gens, killed : BOOLEAN]]
RequestsOK ==
  /\ reqs \in [Served -> [at : {"none", "auth", "hash", "remember", "allowed"}, rt : Gens,
                          pw : Passwords, now : 0..MaxAuthClock]]
  /\ authClock \in 0..MaxAuthClock

\* The table is bounded, and every password in it is the one its hash is of.
RememberedOK ==
  /\ good \subseteq [hash : Passwords, pw : Passwords, until : Nat]
  /\ IsFiniteSet(good) /\ Cardinality(good) <= RememberMax
  /\ \A g \in good : g.hash = g.pw

\* Who is past the check of basic_auth is not disabled in the configuration
\* the request began under, and who is let on has its password.
AuthOK ==
  \A c \in Served :
    /\ reqs[c].at \in {"hash", "remember", "allowed"} => ~credOf(c).disabled
    /\ reqs[c].at = "allowed" => reqs[c].pw = credOf(c).hash

\* Only runtimes that were replaced are retired, only retired ones are closed,
\* and a closed one has no folder open.
RetiredOK ==
  /\ reloading = "retire" => serveGen >= 2
  /\ \A g \in retired : g < serveGen
  /\ \A g \in Gens : dirs[g].closed => g \in retired /\ ~dirs[g].open

ServeIInv == RuntimesOK /\ ConnectionsOK /\ RequestsOK /\ RememberedOK /\ AuthOK /\ RetiredOK

-----------------------------------------------------------------------------
(* What the steps leave alone *)

\* One conjunct of the next-state relation, for the case splits below.
LEMMA ServeNextCases ==
  ASSUME ServeNext
  PROVE  \/ \E c \in Served : \/ ConnRuns(c) \/ RouteServed(c) \/ KillServed(c) \/ EndServed(c)
                              \/ CheckAuth(c) \/ TakeSlot(c) \/ HashDone(c) \/ AnswerFile(c)
                              \/ \E pw \in Passwords : Request(c, pw)
         \/ ServeReload \/ RetireServers \/ SyncName \/ MakeFolder \/ AuthTick
         \/ \E g \in Gens : CloseState(g)
BY DEF ServeNext, RequestRuns, ReloadRuns

\* A request that is no more, and the generations there are.
LEMMA RestType ==
  ASSUME RuntimesOK, RequestsOK
  PROVE  /\ NoRequest \in [at : {"none"}, rt : Gens, pw : Passwords, now : 0..MaxAuthClock]
         /\ Gens \subseteq Nat /\ 1 \in Gens /\ MaxGens \in Nat
<1>1. 1 \in Gens /\ Gens \subseteq Nat /\ MaxGens \in Nat /\ 0 \in 0..MaxAuthClock
  BY ServeAssumption DEF Gens
<1>2. confs[1].hash \in Passwords
  BY <1>1, ServeAssumption DEF RuntimesOK
<1>3. (CHOOSE p \in Passwords : TRUE) \in Passwords
  BY <1>2
<1> QED
  BY <1>1, <1>3 DEF NoRequest

-----------------------------------------------------------------------------
(* The parts of the invariant of Serve *)

LEMMA RuntimesStep ==
  ASSUME RuntimesOK, RequestsOK, RetiredOK, ServeNext
  PROVE  RuntimesOK'
<1>h. RuntimesOK /\ RequestsOK /\ RetiredOK
  OBVIOUS
<1>g. Gens \subseteq Nat /\ MaxGens \in Nat /\ Gens = 1..MaxGens /\ \A cf \in ServeConfigs : cf.name \in ServeNames /\ cf.serves \in BOOLEAN
  BY RestType, ServeAssumption DEF Gens
<1>u. ASSUME UNCHANGED <<runtimes, dirs>> PROVE RuntimesOK'
  BY <1>h, <1>u DEF RuntimesOK, runtimes, Gens
<1>1. ASSUME NEW c \in Served,
             ConnRuns(c) \/ RouteServed(c) \/ KillServed(c) \/ EndServed(c) \/ CheckAuth(c) \/ TakeSlot(c)
             \/ HashDone(c) \/ \E pw \in Passwords : Request(c, pw)
      PROVE  UNCHANGED <<runtimes, dirs>>
  BY <1>1 DEF ConnRuns, Handshaken, PushServed, RetryPush, RouteServed, KillServed, EndServed, CheckAuth, TakeSlot,
     HashDone, Request, handingOver, answering
<1>2. ASSUME NEW c \in Served, AnswerFile(c) PROVE RuntimesOK'
  <2>1. reqs[c].rt \in Gens /\ dirs[reqs[c].rt] \in [open : BOOLEAN, closed : BOOLEAN]
    BY <1>h DEF RuntimesOK, RequestsOK
  <2>2. openedDir(dirs[reqs[c].rt]) \in [open : BOOLEAN, closed : BOOLEAN]
    BY <2>1, <1>h DEF openedDir, RuntimesOK
  <2>3. dirs' = [dirs EXCEPT ![reqs[c].rt] = openedDir(dirs[reqs[c].rt])] /\ UNCHANGED runtimes
    BY <1>2 DEF AnswerFile
  <2> QED
    BY <1>h, <2>2, <2>3 DEF RuntimesOK, runtimes, Gens
<1>3. ASSUME ServeReload PROVE RuntimesOK'
  <2>1. serveGen + 1 \in Gens /\ (folder /\ confs[serveGen + 1].serves) \in BOOLEAN
    BY <1>h, <1>g, <1>3 DEF ServeReload, RuntimesOK
  <2> QED
    BY <1>h, <1>3, <2>1 DEF ServeReload, RuntimesOK, Gens
<1>4. ASSUME RetireServers PROVE RuntimesOK'
  <2>1. serveGen - 1 \in Gens
    BY <1>h, <1>g, <1>4 DEF RetireServers, RetiredOK, RuntimesOK
  <2> QED
    BY <1>h, <1>4, <2>1 DEF RetireServers, RuntimesOK, Gens
<1>5. ASSUME SyncName PROVE RuntimesOK'
  BY <1>h, <1>g, <1>5 DEF SyncName, RuntimesOK
<1>6. ASSUME MakeFolder \/ AuthTick PROVE RuntimesOK'
  BY <1>h, <1>6 DEF MakeFolder, AuthTick, runtimes, RuntimesOK, Gens
<1>7. ASSUME NEW g \in Gens, CloseState(g) PROVE RuntimesOK'
  BY <1>h, <1>7 DEF CloseState, runtimes, RuntimesOK
<1> QED
  BY <1>u, <1>1, <1>2, <1>3, <1>4, <1>5, <1>6, <1>7, ServeNextCases

LEMMA ConnectionsStep ==
  ASSUME RuntimesOK, ConnectionsOK, ServeNext
  PROVE  ConnectionsOK'
<1>h. RuntimesOK /\ ConnectionsOK
  OBVIOUS
<1>u. ASSUME UNCHANGED sconns PROVE ConnectionsOK'
  BY <1>h, <1>u DEF ConnectionsOK, Gens
<1>1. ASSUME NEW c \in Served, CheckAuth(c) \/ TakeSlot(c) \/ HashDone(c) \/ AnswerFile(c)
      PROVE  UNCHANGED sconns
  BY <1>1 DEF CheckAuth, TakeSlot, HashDone, AnswerFile, answering
<1>2. ASSUME ServeReload \/ RetireServers \/ SyncName \/ MakeFolder \/ AuthTick \/ \E g \in Gens : CloseState(g)
      PROVE  UNCHANGED sconns
  BY <1>2 DEF ServeReload, RetireServers, SyncName, MakeFolder, AuthTick, CloseState
<1>3. ASSUME NEW c \in Served,
             \/ ConnRuns(c) \/ RouteServed(c) \/ KillServed(c) \/ EndServed(c)
             \/ \E pw \in Passwords : Request(c, pw)
      PROVE  ConnectionsOK'
  <2>1. PICK rec \in [at : {"new", "handshake", "push", "retry", "served", "gone", "panic"},
                      rt : Gens, killed : BOOLEAN] : sconns' = [sconns EXCEPT ![c] = rec] \/ UNCHANGED sconns
    <3>1. CASE Handshaken(c) \/ RouteServed(c) \/ KillServed(c) \/ EndServed(c)
      BY <1>h, <3>1 DEF Handshaken, RouteServed, KillServed, EndServed, setConn, RuntimesOK, ConnectionsOK
    <3>2. CASE PushServed(c)
      <4>1. PICK at \in {"served", "retry", "panic"} :
              setConn(c, [sconns[c] EXCEPT !.at = at, !.rt = IF at = "retry" THEN serveGen ELSE @])
        BY <3>2 DEF PushServed, pushedTo
      <4>2. serveGen \in Gens
        BY <1>h DEF RuntimesOK
      <4> DEFINE after == [sconns[c] EXCEPT !.at = at, !.rt = IF at = "retry" THEN serveGen ELSE @]
      <4>3. sconns[c] \in [at : {"new", "handshake", "push", "retry", "served", "gone", "panic"},
                           rt : Gens, killed : BOOLEAN]
        BY <1>h DEF ConnectionsOK
      <4>4. after \in [at : {"new", "handshake", "push", "retry", "served", "gone", "panic"},
                      rt : Gens, killed : BOOLEAN]
        BY <4>2, <4>3
      <4>5. sconns' = [sconns EXCEPT ![c] = after]
        BY <4>1, Zenon DEF setConn
      <4> QED
        BY <4>4, <4>5, Zenon
    <3>3. CASE RetryPush(c)
      BY <1>h, <3>3 DEF RetryPush, setConn, RuntimesOK, ConnectionsOK
    <3>4. CASE \E pw \in Passwords : Request(c, pw)
      BY <1>h, <3>4 DEF Request, setConn, RuntimesOK, ConnectionsOK
    <3> QED
      BY <1>3, <3>1, <3>2, <3>3, <3>4 DEF ConnRuns
  <2> QED
    BY <1>h, <2>1 DEF ConnectionsOK, Gens
<1> QED
  BY <1>u, <1>1, <1>2, <1>3, ServeNextCases

LEMMA RequestsStep ==
  ASSUME RuntimesOK, RequestsOK, ServeNext
  PROVE  RequestsOK'
<1>h. RuntimesOK /\ RequestsOK
  OBVIOUS
<1>u. ASSUME UNCHANGED <<reqs, authClock>> PROVE RequestsOK'
  BY <1>h, <1>u DEF RequestsOK, Gens
<1>1. ASSUME NEW c \in Served, ConnRuns(c) \/ RouteServed(c) \/ KillServed(c) \/ EndServed(c)
      PROVE  UNCHANGED <<reqs, authClock>>
  BY <1>1 DEF ConnRuns, Handshaken, PushServed, RetryPush, RouteServed, KillServed, EndServed, handingOver
<1>2. ASSUME ServeReload \/ RetireServers \/ SyncName \/ MakeFolder \/ \E g \in Gens : CloseState(g)
      PROVE  UNCHANGED <<reqs, authClock>>
  BY <1>2 DEF ServeReload, RetireServers, SyncName, MakeFolder, CloseState
<1>3. ASSUME AuthTick PROVE RequestsOK'
  BY <1>h, <1>3, ServeAssumption DEF AuthTick, RequestsOK, Gens
<1>4. ASSUME NEW c \in Served,
             \/ CheckAuth(c) \/ TakeSlot(c) \/ HashDone(c) \/ AnswerFile(c)
             \/ \E pw \in Passwords : Request(c, pw)
      PROVE  RequestsOK'
  <2>1. NoRequest \in [at : {"none"}, rt : Gens, pw : Passwords, now : 0..MaxAuthClock]
    BY RestType
  <2>2. PICK rec \in [at : {"none", "auth", "hash", "remember", "allowed"}, rt : Gens,
                      pw : Passwords, now : 0..MaxAuthClock] : reqs' = [reqs EXCEPT ![c] = rec] \/ UNCHANGED reqs
    <3>1. CASE CheckAuth(c) \/ TakeSlot(c)
      BY <1>h, <2>1, <3>1 DEF CheckAuth, TakeSlot, setReq, RequestsOK
    <3>2. CASE HashDone(c) \/ AnswerFile(c)
      BY <1>h, <2>1, <3>2 DEF HashDone, AnswerFile, setReq, RequestsOK
    <3>3. CASE \E pw \in Passwords : Request(c, pw)
      BY <1>h, <2>1, <3>3 DEF Request, setReq, RequestsOK, RuntimesOK
    <3> QED
      BY <1>4, <3>1, <3>2, <3>3
  <2>3. UNCHANGED authClock
    BY <1>4 DEF CheckAuth, TakeSlot, HashDone, AnswerFile, Request, answering
  <2> QED
    BY <1>h, <2>2, <2>3 DEF RequestsOK, Gens
<1> QED
  BY <1>u, <1>1, <1>2, <1>3, <1>4, ServeNextCases

\* The table takes a password in only after its hash was worked out, and
\* starts again when it is full.
LEMMA RememberedStep ==
  ASSUME RuntimesOK, RequestsOK, RememberedOK, ServeNext
  PROVE  RememberedOK'
<1>h. RuntimesOK /\ RequestsOK /\ RememberedOK
  OBVIOUS
<1>u. ASSUME UNCHANGED good PROVE RememberedOK'
  BY <1>h, <1>u DEF RememberedOK
<1>1. ASSUME NEW c \in Served,
             \/ ConnRuns(c) \/ RouteServed(c) \/ KillServed(c) \/ EndServed(c)
             \/ CheckAuth(c) \/ TakeSlot(c) \/ AnswerFile(c) \/ \E pw \in Passwords : Request(c, pw)
      PROVE  UNCHANGED good
  BY <1>1 DEF ConnRuns, Handshaken, PushServed, RetryPush, RouteServed, KillServed, EndServed, CheckAuth, TakeSlot,
     AnswerFile, Request, handingOver
<1>2. ASSUME ServeReload \/ RetireServers \/ SyncName \/ MakeFolder \/ AuthTick \/ \E g \in Gens : CloseState(g)
      PROVE  UNCHANGED good
  BY <1>2 DEF ServeReload, RetireServers, SyncName, MakeFolder, AuthTick, CloseState
<1>3. ASSUME NEW c \in Served, HashDone(c) PROVE RememberedOK'
  <2> DEFINE key == [hash |-> credOf(c).hash, pw |-> reqs[c].pw, until |-> reqs[c].now + RememberFor]
             kept == IF Cardinality(good) >= RememberMax THEN {}
                     ELSE {g \in good : g.hash # key.hash \/ g.pw # key.pw}
  <2>1. CASE credOf(c).hash # reqs[c].pw
    BY <1>u, <1>3, <2>1 DEF HashDone
  <2>2. CASE credOf(c).hash = reqs[c].pw
    <3>1. good' = kept \cup {key}
      BY <1>3, <2>2 DEF HashDone
    <3>2. key \in [hash : Passwords, pw : Passwords, until : Nat] /\ key.hash = key.pw
      <4>1. credOf(c) \in ServeConfigs /\ reqs[c].pw \in Passwords /\ reqs[c].now \in Nat
        BY <1>h DEF RuntimesOK, RequestsOK, credOf
      <4> QED
        BY <4>1, <2>2, ServeAssumption
    <3>3. kept \subseteq good /\ IsFiniteSet(good)
      BY <1>h DEF RememberedOK
    <3>4. IsFiniteSet(kept) /\ Cardinality(kept) <= Cardinality(good) /\ Cardinality(kept) \in Nat
          /\ Cardinality(good) \in Nat
      <4> HIDE DEF kept
      <4> QED
        BY <3>3, FS_Subset, FS_CardinalityType
    <3>5. Cardinality(kept) < RememberMax
      <4>1. Cardinality({}) = 0
        BY FS_EmptySet
      <4>2. CASE Cardinality(good) >= RememberMax
        <5>1. kept = {}
          BY <4>2
        <5> QED
          BY <4>1, <5>1, ServeAssumption
      <4>3. CASE ~(Cardinality(good) >= RememberMax)
        <5> HIDE DEF kept
        <5> QED
          BY <4>3, <3>4, ServeAssumption
      <4> QED
        BY <4>2, <4>3
    <3>6. IsFiniteSet(good') /\ Cardinality(good') <= Cardinality(kept) + 1
      <4> HIDE DEF kept, key
      <4>1. IsFiniteSet(kept \cup {key})
            /\ (Cardinality(kept \cup {key}) = Cardinality(kept) + 1 \/ Cardinality(kept \cup {key}) = Cardinality(kept))
        BY <3>4, FS_AddElement
      <4> QED
        BY <4>1, <3>1, <3>4
    <3>7. IsFiniteSet(good') /\ Cardinality(good') <= RememberMax
      <4>1. Cardinality(good') \in Nat
        BY <3>6, FS_CardinalityType
      <4> HIDE DEF kept
      <4> QED
        BY <4>1, <3>4, <3>5, <3>6, ServeAssumption
    <3>8. good' \subseteq [hash : Passwords, pw : Passwords, until : Nat] /\ \A g \in good' : g.hash = g.pw
      <4> HIDE DEF kept, key
      <4> QED
        BY <1>h, <3>1, <3>2, <3>3 DEF RememberedOK
    <3> QED
      BY <3>7, <3>8 DEF RememberedOK
  <2> QED
    BY <2>1, <2>2
<1> QED
  BY <1>u, <1>1, <1>2, <1>3, ServeNextCases

\* A disabled user is turned away before the table is asked, and what is let
\* on was in the table or worked out just now.
LEMMA AuthStep ==
  ASSUME RuntimesOK, RequestsOK, RememberedOK, AuthOK, ServeNext
  PROVE  AuthOK'
<1>h. RuntimesOK /\ RequestsOK /\ RememberedOK /\ AuthOK
  OBVIOUS
<1>u. ASSUME UNCHANGED <<reqs, confs>> PROVE AuthOK'
  BY <1>h, <1>u DEF AuthOK, credOf
<1>1. ASSUME NEW c \in Served, ConnRuns(c) \/ RouteServed(c) \/ KillServed(c) \/ EndServed(c)
      PROVE  UNCHANGED <<reqs, confs>>
  BY <1>1 DEF ConnRuns, Handshaken, PushServed, RetryPush, RouteServed, KillServed, EndServed, handingOver, runtimes
<1>2. ASSUME ServeReload \/ RetireServers \/ SyncName \/ MakeFolder \/ AuthTick \/ \E g \in Gens : CloseState(g)
      PROVE  UNCHANGED <<reqs, confs>>
  BY <1>2 DEF ServeReload, RetireServers, SyncName, MakeFolder, AuthTick, CloseState, runtimes
<1>3. ASSUME NEW c \in Served,
             \/ CheckAuth(c) \/ TakeSlot(c) \/ HashDone(c) \/ AnswerFile(c)
             \/ \E pw \in Passwords : Request(c, pw)
      PROVE  AuthOK'
  <2>1. UNCHANGED confs
    BY <1>3 DEF CheckAuth, TakeSlot, HashDone, AnswerFile, Request, answering, runtimes
  <2>2. NoRequest \in [at : {"none"}, rt : Gens, pw : Passwords, now : 0..MaxAuthClock]
    BY RestType
  <2>3. \A at \in {"hash", "remember", "allowed"} :
          LET rec == [reqs[c] EXCEPT !.at = at] IN rec.at = at /\ rec.rt = reqs[c].rt /\ rec.pw = reqs[c].pw
    BY <1>h DEF RequestsOK
  <2> DEFINE Good(rec) ==
               /\ rec.at \in {"hash", "remember", "allowed"} => ~confs[rec.rt].disabled
               /\ rec.at = "allowed" => rec.pw = confs[rec.rt].hash
  <2>4. UNCHANGED reqs \/ \E rec : reqs' = [reqs EXCEPT ![c] = rec] /\ Good(rec)
    <3>1. CASE CheckAuth(c)
      <4>1. CASE credOf(c).disabled
        BY <2>2, <3>1, <4>1 DEF CheckAuth, setReq
      <4>2. CASE ~credOf(c).disabled /\ remembered(c)
        <5>1. reqs[c].pw = credOf(c).hash
          BY <1>h, <4>2 DEF remembered, RememberedOK
        <5>2. reqs' = [reqs EXCEPT ![c] = [reqs[c] EXCEPT !.at = "allowed"]]
          BY <3>1, <4>2 DEF CheckAuth, setReq
        <5>3. Good([reqs[c] EXCEPT !.at = "allowed"])
          BY <2>3, <4>2, <5>1 DEF credOf
        <5> QED
          BY <5>2, <5>3
      <4>3. CASE ~credOf(c).disabled /\ ~remembered(c)
        <5>1. reqs' = [reqs EXCEPT ![c] = [reqs[c] EXCEPT !.at = "hash"]]
          BY <3>1, <4>3 DEF CheckAuth, setReq
        <5>2. Good([reqs[c] EXCEPT !.at = "hash"])
          BY <2>3, <4>3 DEF credOf
        <5> QED
          BY <5>1, <5>2
      <4> QED
        BY <4>1, <4>2, <4>3
    <3>2. CASE TakeSlot(c)
      <4>1. reqs' = [reqs EXCEPT ![c] = [reqs[c] EXCEPT !.at = "remember"]] /\ ~credOf(c).disabled
        BY <1>h, <3>2 DEF TakeSlot, setReq, AuthOK
      <4>2. Good([reqs[c] EXCEPT !.at = "remember"])
        BY <2>3, <4>1 DEF credOf
      <4> QED
        BY <4>1, <4>2
    <3>3. CASE HashDone(c)
      <4>1. ~credOf(c).disabled
        BY <1>h, <3>3 DEF HashDone, AuthOK
      <4>2. CASE credOf(c).hash = reqs[c].pw
        <5>1. reqs' = [reqs EXCEPT ![c] = [reqs[c] EXCEPT !.at = "allowed"]]
          BY <3>3, <4>2 DEF HashDone, setReq
        <5>2. Good([reqs[c] EXCEPT !.at = "allowed"])
          BY <2>3, <4>1, <4>2 DEF credOf
        <5> QED
          BY <5>1, <5>2
      <4>3. CASE credOf(c).hash # reqs[c].pw
        BY <2>2, <3>3, <4>3 DEF HashDone, setReq
      <4> QED
        BY <4>2, <4>3
    <3>4. CASE AnswerFile(c)
      BY <2>2, <3>4 DEF AnswerFile, setReq
    <3>5. CASE \E pw \in Passwords : Request(c, pw)
      BY <3>5 DEF Request, setReq
    <3> QED
      BY <1>3, <3>1, <3>2, <3>3, <3>4, <3>5
  <2>5. PICK rec : UNCHANGED reqs \/ (reqs' = [reqs EXCEPT ![c] = rec] /\ Good(rec))
    BY <2>4
  <2>6. \A d \in Served : reqs'[d] = reqs[d] \/ Good(reqs'[d])
    <3> HIDE DEF Good
    <3> QED
      BY <1>h, <2>5 DEF RequestsOK
  <2>7. \A d \in Served : Good(reqs[d])
    BY <1>h DEF AuthOK, credOf
  <2>8. \A d \in Served : Good(reqs'[d])
    <3> HIDE DEF Good
    <3> QED
      BY <2>6, <2>7
  <2> QED
    BY <2>1, <2>8 DEF AuthOK, credOf
<1> QED
  BY <1>u, <1>1, <1>2, <1>3, ServeNextCases

\* A folder is opened late only by a state that is not closed, and a state is
\* closed only when a newer one serves.
LEMMA RetiredStep ==
  ASSUME RuntimesOK, RequestsOK, RetiredOK, ServeNext
  PROVE  RetiredOK'
<1>h. RuntimesOK /\ RequestsOK /\ RetiredOK
  OBVIOUS
<1>g. Gens \subseteq Nat /\ 1 \in Gens /\ Gens' = Gens /\ \A g \in retired : g \in Nat /\ \A g_ \in Gens : g_ >= 1
  <2>1. Gens \subseteq Nat /\ 1 \in Gens
    BY RestType
  <2>2. \A g \in Gens : g >= 1
    BY ServeAssumption DEF Gens
  <2> QED
    BY <1>h, <2>1, <2>2 DEF RuntimesOK, Gens
<1>u. ASSUME UNCHANGED <<serveGen, reloading, retired, dirs>> PROVE RetiredOK'
  BY <1>h, <1>g, <1>u DEF RetiredOK
<1>1. ASSUME NEW c \in Served,
             ConnRuns(c) \/ RouteServed(c) \/ KillServed(c) \/ EndServed(c) \/ CheckAuth(c) \/ TakeSlot(c)
             \/ HashDone(c) \/ \E pw \in Passwords : Request(c, pw)
      PROVE  UNCHANGED <<serveGen, reloading, retired, dirs>>
  BY <1>1 DEF ConnRuns, Handshaken, PushServed, RetryPush, RouteServed, KillServed, EndServed, CheckAuth, TakeSlot,
     HashDone, Request, handingOver, answering, runtimes
<1>2. ASSUME MakeFolder \/ AuthTick PROVE UNCHANGED <<serveGen, reloading, retired, dirs>>
  BY <1>2 DEF MakeFolder, AuthTick, runtimes
<1>3. ASSUME NEW c \in Served, AnswerFile(c) PROVE RetiredOK'
  <2>1. dirs' = [dirs EXCEPT ![reqs[c].rt] = openedDir(dirs[reqs[c].rt])]
        /\ UNCHANGED <<serveGen, reloading, retired>>
    BY <1>3 DEF AnswerFile, runtimes
  <2>2. reqs[c].rt \in Gens
    BY <1>h DEF RequestsOK
  <2>3. openedDir(dirs[reqs[c].rt]).closed = dirs[reqs[c].rt].closed
        /\ (dirs[reqs[c].rt].closed => openedDir(dirs[reqs[c].rt]).open = dirs[reqs[c].rt].open)
    BY <1>h, <2>2 DEF openedDir, RuntimesOK
  <2>4. \A g \in Gens : dirs'[g].closed = dirs[g].closed /\ (dirs[g].closed => dirs'[g].open = dirs[g].open)
    BY <1>h, <2>1, <2>2, <2>3 DEF RuntimesOK
  <2> QED
    BY <1>h, <1>g, <2>1, <2>4 DEF RetiredOK
<1>4. ASSUME ServeReload PROVE RetiredOK'
  <2>1. serveGen \in Nat /\ serveGen >= 1 /\ serveGen + 1 \in Gens /\ serveGen' = serveGen + 1
    BY <1>h, <1>g, <1>4, ServeAssumption DEF ServeReload, RuntimesOK, Gens
  <2>2. ~dirs[serveGen + 1].closed
    BY <1>h, <2>1 DEF RetiredOK
  <2>3. \A g \in Gens : dirs'[g].closed => dirs'[g] = dirs[g] /\ dirs[g].closed
    BY <1>h, <1>4, <2>1, <2>2 DEF ServeReload, RuntimesOK
  <2>4. \A g \in retired : g < serveGen'
    BY <1>h, <1>g, <2>1 DEF RetiredOK
  <2> QED
    BY <1>h, <1>g, <1>4, <2>1, <2>3, <2>4 DEF ServeReload, RetiredOK
<1>5. ASSUME RetireServers PROVE RetiredOK'
  <2>1. serveGen \in Nat /\ serveGen - 1 < serveGen
    BY <1>h, <1>g DEF RuntimesOK
  <2> QED
    BY <1>h, <1>g, <1>5, <2>1 DEF RetireServers, RetiredOK
<1>6. ASSUME SyncName PROVE RetiredOK'
  BY <1>h, <1>g, <1>6 DEF SyncName, RetiredOK
<1>7. ASSUME NEW g \in Gens, CloseState(g) PROVE RetiredOK'
  BY <1>h, <1>g, <1>7 DEF CloseState, runtimes, RetiredOK, RuntimesOK
<1> QED
  BY <1>u, <1>1, <1>2, <1>3, <1>4, <1>5, <1>6, <1>7, ServeNextCases

-----------------------------------------------------------------------------
(* Serve's invariant is inductive, and implies the properties *)

LEMMA ServeInitIInv == ServeInit => ServeIInv
<1> SUFFICES ASSUME ServeInit PROVE ServeIInv
  OBVIOUS
<1>1. 1 \in Gens /\ Gens \subseteq Nat /\ 0 \in 0..MaxAuthClock
  BY ServeAssumption DEF Gens
<1>2. RuntimesOK
  BY <1>1, ServeAssumption DEF ServeInit, RuntimesOK
<1>3. ConnectionsOK
  BY <1>1 DEF ServeInit, ConnectionsOK
<1>4. RequestsOK
  <2>1. confs[1].hash \in Passwords
    BY <1>1, <1>2, ServeAssumption DEF RuntimesOK
  <2>2. (CHOOSE p \in Passwords : TRUE) \in Passwords
    BY <2>1
  <2>3. NoRequest \in [at : {"none"}, rt : Gens, pw : Passwords, now : 0..MaxAuthClock]
    BY <1>1, <2>2 DEF NoRequest
  <2> QED
    BY <1>1, <2>3 DEF ServeInit, RequestsOK
<1>5. RememberedOK
  <2>1. IsFiniteSet({}) /\ Cardinality({}) = 0
    BY FS_EmptySet
  <2> QED
    BY <2>1, ServeAssumption DEF ServeInit, RememberedOK
<1>6. AuthOK
  BY DEF ServeInit, AuthOK, NoRequest
<1>7. RetiredOK
  BY DEF ServeInit, RetiredOK
<1> QED
  BY <1>2, <1>3, <1>4, <1>5, <1>6, <1>7 DEF ServeIInv

LEMMA ServeNextIInv == ServeIInv /\ [ServeNext]_serveVars => ServeIInv'
<1> SUFFICES ASSUME ServeIInv, [ServeNext]_serveVars PROVE ServeIInv'
  OBVIOUS
<1>1. CASE ServeNext
  BY <1>1, RuntimesStep, ConnectionsStep, RequestsStep, RememberedStep, AuthStep, RetiredStep DEF ServeIInv
<1>2. CASE UNCHANGED serveVars
  BY <1>2 DEF ServeIInv, serveVars, RuntimesOK, ConnectionsOK, RequestsOK, RememberedOK, AuthOK, credOf, RetiredOK, Gens
<1> QED
  BY <1>1, <1>2

LEMMA ServeSafe ==
  ServeInit /\ [][ServeNext]_serveVars => [](ServeTypeOK /\ ServedIsCurrent)
<1>1. ServeIInv => ServeTypeOK
  BY DEF ServeIInv, RuntimesOK, ConnectionsOK, RequestsOK, RememberedOK, ServeTypeOK
<1>2. ServeIInv => ServedIsCurrent
  BY DEF ServeIInv, AuthOK, RetiredOK, ServedIsCurrent, RememberedIsCurrent, ClosedStateIsReleased
<1> QED
  BY <1>1, <1>2, ServeInitIInv, ServeNextIInv, PTL

\* Every variable of the web servers has its type, and what authChecker
\* remembers is bounded (remember, serve.go).
THEOREM ServeTypesHold == ServeSpec => []ServeTypeOK
  BY ServeSafe, PTL DEF ServeSpec

\* A request is let on only with the password of the configuration it began
\* under, for a user that is not disabled in it, whatever was remembered
\* before a reload; and a state closed a minute after its reload holds no
\* folder open, whichever old requests still come to it.
THEOREM ServeIsCurrent == ServeSpec => []ServedIsCurrent
  BY ServeSafe, PTL DEF ServeSpec

-----------------------------------------------------------------------------
(* The connections page *)

Open == {"emit", "routing", "send", "relay"}
Over == {"store", "tell", "done"}

\* Where a handler is decides whether its connection is in the table; its
\* numbers start when it shows something, and one that is turned away has one.
HandlerOK(c) ==
  /\ c \in table <=> hpc[c] \in Open
  /\ hpc[c] \in {"send", "store", "tell"} => pending[c] # NoFlow
  /\ pending[c] # NoFlow => pending[c].id = c
  /\ numbered[c] <= stage[c]
  /\ hpc[c] = "new" => number[c] = 0 /\ stage[c] = 0
  /\ c \in Refused => stage[c] = 0 /\ hpc[c] \in {"new"} \cup Over
  /\ c \notin Refused => (number[c] = 0 <=> numbered[c] = 0) /\ (hpc[c] # "new" => stage[c] >= 1)

\* A view of a connection is as far behind in number as in what it shows, so
\* the later of two views never shows less.
ViewOK(v) ==
  /\ hpc[v.id] # "new" /\ number[v.id] >= 1 /\ v.seq <= number[v.id]
  /\ v.seq - v.stage = number[v.id] - numbered[v.id]
SentOK(v) == v # NoFlow => ViewOK(v) /\ (v.ended => hpc[v.id] \in Over /\ v.stage = stage[v.id])

\* The views on their way to the page.
Sent == {pending[c] : c \in Flows} \cup {history[i] : i \in 0..(FlowHistory - 1)}
        \cup {events[i] : i \in 1..Len(events)} \cup {batch[i] : i \in 1..Len(batch)}
        \cup snap.active \cup snap.closed

\* A connection a list has missed once that is still in the table was not there
\* when that list was taken: the next list, if there is one, has it.
Listed(c) == \/ snap.step \in {"idle", "start"} \/ snap.cut \/ snap.full
             \/ c \in snap.list \/ \E v \in snap.active : v.id = c
CardOK(c, k) ==
  k # NoFlow => /\ k.view.id = c /\ ViewOK(k.view)
                /\ k.view.ended => c \notin table
                /\ k.misses >= 1 /\ ~k.view.ended /\ c \in table => Listed(c)

Hands == \A c \in Flows : HandlerOK(c)
PageOK ==
  /\ viewers = IF flowPage = "off" THEN 0 ELSE 1
  /\ snap.step = "write" => snap.list = {}
  /\ \A c \in snap.list : hpc[c] # "new" /\ c \notin Refused
FlowIInv ==
  /\ FlowTypeOK /\ Hands /\ PageOK
  /\ \A v \in Sent : SentOK(v)
  /\ \A c \in Flows : CardOK(c, cards[c])

LEMMA FlowImplies ==
  ASSUME FlowIInv
  PROVE  FlowTypeOK /\ ClosedIsClosed
<1>1. ASSUME NEW c \in Flows, cards[c] # NoFlow, cards[c].view.ended PROVE c \notin table /\ hpc[c] # "new"
  BY <1>1 DEF FlowIInv, CardOK, ViewOK
<1> QED
  BY <1>1 DEF FlowIInv, ClosedIsClosed

LEMMA InitFlow ==
  ASSUME FlowInit
  PROVE  FlowIInv
<1>1. FlowTypeOK
  <2>1. FirstSnap \in Snapshots
    BY DEF FirstSnap, Snapshots
  <2>2. FlowHistory \in Nat \ {0} /\ FlowQueue \in Nat
    BY FlowAssumption
  <2>3. /\ events \in Seq(Views) /\ Len(events) = 0 /\ batch \in Seq(Views)
    BY EmptySeq DEF FlowInit
  <2> QED
    BY <2>1, <2>2, <2>3 DEF FlowInit, FlowTypeOK
<1>2. Hands
  BY FlowAssumption DEF FlowInit, Hands, HandlerOK, Open, Over
<1>3. Sent \subseteq {NoFlow}
  BY DEF FlowInit, Sent, FirstSnap
<1>4. PageOK
  BY DEF FlowInit, PageOK, FirstSnap
<1> QED
  BY <1>1, <1>2, <1>3, <1>4 DEF FlowInit, FlowIInv, SentOK, CardOK

-----------------------------------------------------------------------------
(* What a step does to the views there are *)

\* A connection goes on: what is true of a view of it stays true.
Goes(c) ==
  /\ hpc[c] # "new" => /\ hpc'[c] # "new"
                       /\ c \in table' => c \in table
  /\ hpc[c] # "new" /\ number[c] >= 1 =>
       number'[c] >= number[c] /\ number'[c] - numbered'[c] = number[c] - numbered[c]
  /\ hpc[c] \in Over => hpc'[c] \in Over /\ stage'[c] = stage[c]

LEMMA FlowTypes ==
  ASSUME FlowTypeOK
  PROVE  \A c \in Flows : /\ number[c] \in Nat /\ numbered[c] \in 0..2 /\ stage[c] \in 0..2
                          /\ pending[c] \in Views \cup {NoFlow} /\ cards[c] \in Cards \cup {NoFlow}
  BY DEF FlowTypeOK

LEMMA SentAreViews ==
  ASSUME FlowTypeOK
  PROVE  Sent \subseteq Views \cup {NoFlow}
<1>1. \A i \in 1..Len(events) : events[i] \in Views
  BY ElementOfSeq DEF FlowTypeOK
<1>2. \A i \in 1..Len(batch) : batch[i] \in Views
  BY ElementOfSeq DEF FlowTypeOK
<1> QED
  BY <1>1, <1>2 DEF FlowTypeOK, Sent, Snapshots

LEMMA ViewStays ==
  ASSUME FlowTypeOK, FlowTypeOK', NEW v \in Views, ViewOK(v), Goes(v.id)
  PROVE  ViewOK(v)'
<1>1. v.id \in Flows /\ v.seq \in Nat /\ v.stage \in 0..2
  BY DEF Views
<1>2. /\ number[v.id] \in Nat /\ numbered[v.id] \in 0..2 /\ number'[v.id] \in Nat /\ numbered'[v.id] \in 0..2
  BY <1>1 DEF FlowTypeOK
<1> QED
  BY <1>1, <1>2 DEF ViewOK, Goes

LEMMA SentStays ==
  ASSUME FlowTypeOK, FlowTypeOK', NEW v \in Views \cup {NoFlow}, SentOK(v), \A c \in Flows : Goes(c)
  PROVE  SentOK(v)'
<1>1. CASE v = NoFlow
  BY <1>1 DEF SentOK
<1>2. CASE v # NoFlow
  <2>1. v \in Views /\ v.id \in Flows
    BY <1>2 DEF Views
  <2>2. ViewOK(v)'
    BY <1>2, <2>1, ViewStays DEF SentOK
  <2> QED
    BY <1>2, <2>1, <2>2 DEF SentOK, Goes
<1> QED
  BY <1>1, <1>2

LEMMA CardStays ==
  ASSUME FlowTypeOK, FlowTypeOK', NEW c \in Flows, NEW k \in Cards \cup {NoFlow}, CardOK(c, k), Goes(c),
         c \in table /\ Listed(c) => Listed(c)'
  PROVE  CardOK(c, k)'
<1>1. CASE k = NoFlow
  BY <1>1 DEF CardOK
<1>2. CASE k # NoFlow
  <2>1. k.view \in Views /\ k.view.id = c /\ ViewOK(k.view)
    BY <1>2 DEF CardOK, Cards
  <2>2. ViewOK(k.view)'
    BY <2>1, ViewStays
  <2>3. c \in table' => c \in table
    BY <2>1 DEF ViewOK, Goes
  <2> QED
    BY <1>2, <2>1, <2>2, <2>3 DEF CardOK
<1> QED
  BY <1>1, <1>2

\* A step that keeps the cards: the views sent are old ones or in order.
LEMMA StepKeeps ==
  ASSUME FlowIInv, FlowTypeOK', Hands', PageOK', UNCHANGED cards, \A c \in Flows : Goes(c),
         \A v \in Sent' : v \in Sent \/ SentOK(v)',
         \A c \in Flows : c \in table /\ Listed(c) => Listed(c)'
  PROVE  FlowIInv'
<1>1. ASSUME NEW v \in Sent' PROVE SentOK(v)'
  <2>1. CASE v \in Sent
    BY <2>1, SentAreViews, SentStays DEF FlowIInv
  <2> QED
    BY <1>1, <2>1
<1>2. ASSUME NEW c \in Flows PROVE CardOK(c, cards[c])'
  <2>1. cards[c] \in Cards \cup {NoFlow} /\ CardOK(c, cards[c])
    BY FlowTypes DEF FlowIInv
  <2> QED
    BY <2>1, CardStays DEF FlowIInv
<1> QED
  BY <1>1, <1>2 DEF FlowIInv

-----------------------------------------------------------------------------
(* The handlers *)

\* What takeView leaves: the number goes on if the view shows something else.
LEMMA Took ==
  ASSUME FlowTypeOK, NEW c \in Flows, HandlerOK(c), hpc[c] # "new", c \notin Refused, takeView(c)
  PROVE  /\ number' \in [Flows -> Nat] /\ numbered' \in [Flows -> 0..2]
         /\ \A d \in Flows : d # c => number'[d] = number[d] /\ numbered'[d] = numbered[d]
         /\ numbered'[c] = stage[c] /\ number'[c] >= 1 /\ number'[c] >= number[c]
         /\ number[c] >= 1 => number'[c] - numbered'[c] = number[c] - numbered[c]
         /\ flow(c) \in Views /\ flow(c).id = c /\ flow(c).seq = number'[c] /\ flow(c).stage = stage[c]
         /\ ~flow(c).ended
<1>1. number[c] \in Nat /\ numbered[c] \in 0..2 /\ stage[c] \in 0..2
  BY DEF FlowTypeOK
<1>2. flowSeq(c) \in Nat /\ flowSeq(c) >= 1 /\ flowSeq(c) >= number[c]
  BY <1>1 DEF flowSeq, HandlerOK
<1>3. number' = [number EXCEPT ![c] = flowSeq(c)] /\ numbered' = [numbered EXCEPT ![c] = stage[c]]
  BY DEF takeView
<1>4. number[c] >= 1 => flowSeq(c) - stage[c] = number[c] - numbered[c]
  BY <1>1 DEF flowSeq, HandlerOK
<1>5. /\ number' \in [Flows -> Nat] /\ number'[c] = flowSeq(c)
      /\ \A d \in Flows : d # c => number'[d] = number[d] /\ numbered'[d] = numbered[d]
      /\ numbered' \in [Flows -> 0..2] /\ numbered'[c] = stage[c]
  BY <1>1, <1>2, <1>3 DEF FlowTypeOK
<1>6. /\ flow(c) \in Views /\ flow(c).id = c /\ flow(c).seq = flowSeq(c) /\ flow(c).stage = stage[c]
      /\ ~flow(c).ended
  BY <1>1, <1>2 DEF flow, Views
<1> QED
  BY <1>1, <1>2, <1>4, <1>5, <1>6

\* A view taken now, of a connection that went on as takeView says.
LEMMA TakenIsOK ==
  ASSUME NEW c \in Flows, NEW v \in Views, v.id = c, v.seq = number'[c], v.stage = stage'[c],
         numbered'[c] = stage'[c], number'[c] \in Nat, number'[c] >= 1, hpc'[c] # "new",
         v.ended => hpc'[c] \in Over
  PROVE  SentOK(v)'
  BY DEF SentOK, ViewOK, Views

LEMMA Published ==
  ASSUME FlowTypeOK, NEW v \in Views, publish(v)
  PROVE  /\ events' \in Seq(Views) /\ Len(events') <= FlowQueue
         /\ \A i \in 1..Len(events') : events'[i] = v \/ \E j \in 1..Len(events) : events'[i] = events[j]
<1> DEFINE q == Append(events, v)
<1>0. FlowQueue \in Nat \ {0} /\ events \in Seq(Views) /\ Len(events) \in Nat /\ Len(events) <= FlowQueue
  BY FlowAssumption DEF FlowTypeOK
<1>1. CASE flowPage = "off"
  BY <1>0, <1>1 DEF publish
<1>2. CASE flowPage # "off"
  <2>1. /\ q \in Seq(Views) /\ q # <<>> /\ Len(q) = Len(events) + 1
        /\ \A i \in 1..Len(events) : q[i] = events[i]
        /\ q[Len(events) + 1] = v
    BY <1>0, AppendProperties
  <2>2. events' = IF Len(q) > FlowQueue THEN Tail(q) ELSE q
    BY <1>2 DEF publish
  <2> HIDE DEF q
  <2>3. \A i \in 1..Len(q) : q[i] = v \/ \E j \in 1..Len(events) : q[i] = events[j]
    BY <1>0, <2>1
  <2>4. CASE Len(q) > FlowQueue
    <3>1. Tail(q) \in Seq(Views) /\ Len(Tail(q)) = Len(q) - 1 /\ \A i \in 1..Len(Tail(q)) : Tail(q)[i] = q[i + 1]
      BY <2>1, HeadTailProperties
    <3>2. \A i \in 1..Len(Tail(q)) : i + 1 \in 1..Len(q)
      BY <1>0, <2>1, <3>1
    <3> QED
      BY <1>0, <2>1, <2>2, <2>3, <2>4, <3>1, <3>2
  <2>5. CASE ~(Len(q) > FlowQueue)
    BY <1>0, <2>1, <2>2, <2>3, <2>5
  <2> QED
    BY <2>4, <2>5
<1> QED
  BY <1>1, <1>2

\* Publishing sends no other view.
LEMMA PublishedSent ==
  ASSUME FlowTypeOK, NEW v \in Views, publish(v), UNCHANGED <<history, batch, snap>>,
         \A c \in Flows : pending'[c] \in {pending[c], NoFlow}
  PROVE  \A w \in Sent' : w \in Sent \/ w \in {v, NoFlow}
<1>1. \A i \in 1..Len(events') : events'[i] = v \/ \E j \in 1..Len(events) : events'[i] = events[j]
  BY Published
<1> QED
  BY <1>1 DEF Sent

\* A handler's step is about its own connection.
LEMMA OneHand ==
  ASSUME Hands, NEW c \in Flows, HandlerOK(c)',
         \A d \in Flows : d # c => /\ d \in table' <=> d \in table
                                  /\ hpc'[d] = hpc[d] /\ pending'[d] = pending[d] /\ stage'[d] = stage[d]
                                  /\ number'[d] = number[d] /\ numbered'[d] = numbered[d]
  PROVE  Hands'
<1>1. ASSUME NEW d \in Flows, d # c PROVE HandlerOK(d)'
  BY <1>1 DEF Hands, HandlerOK
<1> QED
  BY <1>1 DEF Hands

LEMMA RegisterStep ==
  ASSUME FlowIInv, NEW c \in Flows, FlowRegister(c)
  PROVE  FlowIInv'
<1> USE DEF FlowIInv
<1>1. FlowTypeOK'
  BY DEF FlowRegister, FlowTypeOK, logVars, pageVars, toStep
<1>2. Hands'
  BY FlowTypes DEF FlowRegister, FlowTypeOK, logVars, pageVars, toStep, Hands, HandlerOK, Open, Over
<1>3. PageOK'
  BY DEF FlowRegister, FlowTypeOK, logVars, pageVars, toStep, PageOK, Snapshots
<1>4. \A d \in Flows : Goes(d)
  BY FlowTypes DEF FlowRegister, FlowTypeOK, toStep, Goes, Over
<1>5. Sent' = Sent /\ UNCHANGED cards /\ \A d \in Flows : Listed(d) = Listed(d)'
  BY DEF FlowRegister, logVars, pageVars, Sent, Listed
<1> QED
  BY <1>1, <1>2, <1>3, <1>4, <1>5, StepKeeps

LEMMA RouteStep ==
  ASSUME FlowIInv, NEW c \in Flows, FlowRoute(c) \/ Unregister(c)
  PROVE  FlowIInv'
<1> USE DEF FlowIInv
<1>0. HandlerOK(c) /\ hpc[c] = "relay" /\ c \notin Refused /\ stage[c] \in 0..2
  BY FlowTypes DEF FlowRoute, Unregister, Hands, HandlerOK, Over
<1>1. /\ UNCHANGED <<number, numbered, young, pending, history, next, viewers, events>>
      /\ UNCHANGED <<flowPage, snap, batch, endedSince, cards>>
  BY DEF FlowRoute, Unregister, logVars, pageVars
<1>2. /\ stage' \in [Flows -> 0..2] /\ stage'[c] >= stage[c] /\ stage'[c] \in 0..2 /\ table' \subseteq table
      /\ hpc' = [hpc EXCEPT ![c] = IF c \in table' THEN "routing" ELSE "end"]
      /\ \A d \in Flows : d # c => stage'[d] = stage[d] /\ (d \in table' <=> d \in table)
  <2>1. CASE FlowRoute(c)
    <3>1. c \in table
      BY <1>0 DEF HandlerOK, Open
    <3> QED
      BY <1>0, <2>1, <3>1 DEF FlowRoute, toStep, FlowTypeOK
  <2>2. CASE Unregister(c)
    BY <1>0, <2>2 DEF Unregister, toStep, FlowTypeOK
  <2> QED
    BY <2>1, <2>2
<1>3. FlowTypeOK'
  <2>1. hpc' \in [Flows -> {"new", "emit", "routing", "send", "relay", "end", "store", "tell", "done"}]
    BY <1>2 DEF FlowTypeOK
  <2> QED
    BY <1>1, <1>2, <2>1 DEF FlowTypeOK
<1>4. hpc'[c] = IF c \in table' THEN "routing" ELSE "end"
  BY <1>2 DEF FlowTypeOK
<1>5. Hands'
  <2>1. HandlerOK(c)'
    BY <1>0, <1>1, <1>2, <1>4, FlowTypes DEF HandlerOK, Open, Over
  <2>2. \A d \in Flows : d # c => hpc'[d] = hpc[d]
    BY <1>2 DEF FlowTypeOK
  <2> QED
    BY <1>1, <1>2, <2>1, <2>2, OneHand
<1>6. PageOK'
  BY <1>0, <1>1, <1>2 DEF FlowTypeOK, PageOK, Snapshots
<1>7. \A d \in Flows : Goes(d)
  BY <1>0, <1>1, <1>2, FlowTypes DEF FlowTypeOK, Goes, Over
<1>8. Sent' = Sent /\ \A d \in Flows : Listed(d) = Listed(d)'
  BY <1>1 DEF Sent, Listed
<1> QED
  BY <1>1, <1>3, <1>5, <1>6, <1>7, <1>8, StepKeeps

LEMMA FlowEmitStep ==
  ASSUME FlowIInv, NEW c \in Flows, FlowEmit(c)
  PROVE  FlowIInv'
<1> USE DEF FlowIInv
<1>0. HandlerOK(c) /\ hpc[c] # "new" /\ c \notin Refused /\ hpc[c] \notin Over /\ hpc[c] \in Open
  BY DEF FlowEmit, Hands, HandlerOK, Open, Over
<1>p. UNCHANGED <<stage, table, young, history, next, viewers, events, flowPage, snap, batch, endedSince, cards>>
  BY DEF FlowEmit, logVars, pageVars
<1>1. CASE viewers = 0
  <2>0. hpc' = [hpc EXCEPT ![c] = "relay"] /\ UNCHANGED <<number, numbered, pending>>
    BY <1>1 DEF FlowEmit, toStep
  <2>1. FlowTypeOK'
    BY <1>p, <2>0 DEF FlowTypeOK
  <2>2. Hands'
    BY <1>0, <1>p, <2>0 DEF FlowTypeOK, Hands, HandlerOK, Open, Over
  <2>3. PageOK'
    BY <1>p, <2>0 DEF FlowTypeOK, PageOK, Snapshots
  <2>4. \A d \in Flows : Goes(d)
    BY <1>0, <1>p, <2>0, FlowTypes DEF FlowTypeOK, Goes, Over
  <2>5. Sent' = Sent /\ \A d \in Flows : Listed(d) = Listed(d)'
    BY <1>p, <2>0 DEF Sent, Listed
  <2> QED
    BY <1>p, <2>1, <2>2, <2>3, <2>4, <2>5, StepKeeps
<1>2. CASE viewers # 0
  <2>0. hpc' = [hpc EXCEPT ![c] = "send"] /\ takeView(c) /\ pending' = [pending EXCEPT ![c] = flow(c)]
    BY <1>2 DEF FlowEmit, toStep
  <2>t. /\ number' \in [Flows -> Nat] /\ numbered' \in [Flows -> 0..2]
        /\ \A d \in Flows : d # c => number'[d] = number[d] /\ numbered'[d] = numbered[d]
        /\ numbered'[c] = stage[c] /\ number'[c] >= 1 /\ number'[c] >= number[c]
        /\ number[c] >= 1 => number'[c] - numbered'[c] = number[c] - numbered[c]
        /\ flow(c) \in Views /\ flow(c).id = c /\ flow(c).seq = number'[c] /\ flow(c).stage = stage[c]
        /\ ~flow(c).ended
    BY <1>0, <2>0, Took
  <2>1. FlowTypeOK'
    BY <1>p, <2>0, <2>t DEF FlowTypeOK
  <2>v. flow(c) # NoFlow
    BY <2>t, FlowAssumption
  <2>2. Hands'
    <3>1. hpc'[c] = "send" /\ pending'[c] = flow(c) /\ c \in table'
      BY <1>0, <1>p, <2>0 DEF FlowTypeOK, HandlerOK
    <3>2. HandlerOK(c)'
      BY <1>0, <1>p, <2>t, <2>v, <3>1 DEF HandlerOK, Open, Over
    <3>3. \A d \in Flows : d # c => hpc'[d] = hpc[d] /\ pending'[d] = pending[d]
      BY <2>0 DEF FlowTypeOK
    <3> QED
      BY <1>p, <2>t, <3>2, <3>3, OneHand
  <2>3. PageOK'
    BY <1>p, <2>0 DEF FlowTypeOK, PageOK, Snapshots
  <2>4. \A d \in Flows : Goes(d)
    BY <1>0, <1>p, <2>0, <2>t, FlowTypes DEF FlowTypeOK, Goes, Over
  <2>5. \A d \in Flows : Listed(d) = Listed(d)'
    BY <1>p DEF Listed
  <2>6. \A v \in Sent' : v \in Sent \/ v = flow(c)
    BY <1>p, <2>0 DEF Sent, FlowTypeOK
  <2>7. \A v : v = flow(c) => SentOK(v)'
    BY <1>0, <1>p, <2>0, <2>t, TakenIsOK DEF FlowTypeOK
  <2> QED
    BY <1>p, <2>1, <2>2, <2>3, <2>4, <2>5, <2>6, <2>7, StepKeeps
<1> QED
  BY <1>1, <1>2

LEMMA SendStep ==
  ASSUME FlowIInv, NEW c \in Flows, FlowSend(c)
  PROVE  FlowIInv'
<1> USE DEF FlowIInv
<1>0. /\ HandlerOK(c) /\ hpc[c] = "send" /\ c \notin Refused /\ pending[c] \in Views /\ pending[c] \in Sent
  BY FlowTypes DEF FlowSend, Hands, HandlerOK, Over, Sent
<1>1. /\ UNCHANGED <<stage, number, numbered, table, young, history, next, viewers>>
      /\ UNCHANGED <<flowPage, snap, batch, endedSince, cards>>
      /\ publish(pending[c]) /\ pending' = [pending EXCEPT ![c] = NoFlow] /\ hpc' = [hpc EXCEPT ![c] = "relay"]
  BY DEF FlowSend, pageVars, toStep
<1>2. events' \in Seq(Views) /\ Len(events') <= FlowQueue
  BY <1>0, <1>1, Published
<1>3. FlowTypeOK'
  BY <1>1, <1>2 DEF FlowTypeOK
<1>4. hpc'[c] = "relay" /\ pending'[c] = NoFlow
  BY <1>1 DEF FlowTypeOK
<1>5. \A d \in Flows : d # c => hpc'[d] = hpc[d] /\ pending'[d] = pending[d]
  BY <1>1 DEF FlowTypeOK
<1>6. Hands'
  <2>1. HandlerOK(c)'
    BY <1>0, <1>1, <1>4 DEF HandlerOK, Open, Over
  <2> QED
    BY <1>1, <1>5, <2>1, OneHand
<1>7. PageOK'
  BY <1>0, <1>1 DEF FlowTypeOK, PageOK, Snapshots
<1>8. \A d \in Flows : Goes(d)
  BY <1>0, <1>1, <1>4, <1>5, FlowTypes DEF Goes, Over
<1>9. \A d \in Flows : Listed(d) = Listed(d)'
  BY <1>1 DEF Listed
<1>10. \A v \in Sent' : v \in Sent \/ v = NoFlow
  BY <1>0, <1>1, <1>4, <1>5, PublishedSent
<1>11. \A v : v = NoFlow => SentOK(v)'
  BY DEF SentOK
<1> QED
  BY <1>1, <1>3, <1>6, <1>7, <1>8, <1>9, <1>10, <1>11, StepKeeps

LEMMA FlowEndStep ==
  ASSUME FlowIInv, NEW c \in Flows, FlowEnd(c)
  PROVE  FlowIInv'
<1> USE DEF FlowIInv
<1> DEFINE last == [flow(c) EXCEPT !.ended = TRUE]
<1>0. HandlerOK(c) /\ hpc[c] = "end" /\ c \notin Refused /\ c \notin table
  BY DEF FlowEnd, Hands, HandlerOK, Over, Open
<1>1. /\ UNCHANGED <<stage, table, young, history, next, viewers, events, flowPage, snap, batch, cards>>
      /\ takeView(c) /\ pending' = [pending EXCEPT ![c] = last] /\ hpc' = [hpc EXCEPT ![c] = "store"]
      /\ endedSince' = endedSince \cup {c}
  BY DEF FlowEnd, logVars, toStep
<1>2. /\ number' \in [Flows -> Nat] /\ numbered' \in [Flows -> 0..2]
      /\ \A d \in Flows : d # c => number'[d] = number[d] /\ numbered'[d] = numbered[d]
      /\ numbered'[c] = stage[c] /\ number'[c] >= 1 /\ number'[c] >= number[c]
      /\ number[c] >= 1 => number'[c] - numbered'[c] = number[c] - numbered[c]
      /\ flow(c) \in Views /\ flow(c).id = c /\ flow(c).seq = number'[c] /\ flow(c).stage = stage[c]
  BY <1>0, <1>1, Took
<1>v. last \in Views /\ last.id = c /\ last.seq = number'[c] /\ last.stage = stage[c] /\ last # NoFlow
  BY <1>2, FlowAssumption DEF Views
<1> HIDE DEF last
<1>3. FlowTypeOK'
  BY <1>1, <1>2, <1>v DEF FlowTypeOK
<1>4. hpc'[c] = "store" /\ pending'[c] = last
  BY <1>1 DEF FlowTypeOK
<1>5. \A d \in Flows : d # c => hpc'[d] = hpc[d] /\ pending'[d] = pending[d]
  BY <1>1 DEF FlowTypeOK
<1>6. Hands'
  <2>1. HandlerOK(c)'
    BY <1>0, <1>1, <1>2, <1>v, <1>4 DEF HandlerOK, Open, Over
  <2> QED
    BY <1>1, <1>2, <1>5, <2>1, OneHand
<1>7. PageOK'
  BY <1>0, <1>1 DEF FlowTypeOK, PageOK, Snapshots
<1>8. \A d \in Flows : Goes(d)
  BY <1>0, <1>1, <1>2, <1>4, <1>5, FlowTypes DEF Goes, Over
<1>9. \A d \in Flows : Listed(d) = Listed(d)'
  BY <1>1 DEF Listed
<1>10. \A v \in Sent' : v \in Sent \/ v = last
  BY <1>1, <1>4, <1>5 DEF Sent
<1>11. \A v : v = last => SentOK(v)'
  BY <1>0, <1>1, <1>2, <1>v, <1>4, TakenIsOK DEF FlowTypeOK, Over
<1> QED
  BY <1>1, <1>3, <1>6, <1>7, <1>8, <1>9, <1>10, <1>11, StepKeeps

LEMMA RefusedStep ==
  ASSUME FlowIInv, NEW c \in Flows, FlowRefused(c)
  PROVE  FlowIInv'
<1> USE DEF FlowIInv
<1> DEFINE last == [flow(c) EXCEPT !.seq = number[c] + 1, !.ended = TRUE]
<1>0. /\ HandlerOK(c) /\ hpc[c] = "new" /\ c \in Refused /\ c \notin table
      /\ number[c] = 0 /\ stage[c] = 0 /\ numbered[c] = 0
  BY FlowTypes DEF FlowRefused, Hands, HandlerOK, Over, Open
<1>1. /\ UNCHANGED <<stage, numbered, table, young, history, next, viewers, events, flowPage, snap, batch, cards>>
      /\ pending' = [pending EXCEPT ![c] = last] /\ hpc' = [hpc EXCEPT ![c] = "store"]
      /\ number' = [number EXCEPT ![c] = number[c] + 1] /\ endedSince' = endedSince \cup {c}
  BY DEF FlowRefused, logVars, toStep
<1>2. /\ number' \in [Flows -> Nat] /\ number'[c] = 1
      /\ \A d \in Flows : d # c => number'[d] = number[d]
  BY <1>0, <1>1 DEF FlowTypeOK
<1>v. last \in Views /\ last.id = c /\ last.seq = 1 /\ last.stage = 0 /\ last # NoFlow
  <2>1. flow(c) \in Views /\ flow(c).id = c /\ flow(c).stage = 0
    BY <1>0 DEF flow, flowSeq, Views
  <2>2. number[c] + 1 = 1
    BY <1>0
  <2>3. \A n \in Nat : LET v == [flow(c) EXCEPT !.seq = n, !.ended = TRUE]
                       IN v \in Views /\ v.id = c /\ v.seq = n /\ v.stage = 0
    BY <2>1 DEF Views
  <2>4. number[c] + 1 \in Nat
    BY <2>2
  <2>5. last \in Views /\ last.id = c /\ last.seq = number[c] + 1 /\ last.stage = 0
    BY <2>3, <2>4, Zenon
  <2> QED
    BY <2>2, <2>5, FlowAssumption
<1> HIDE DEF last
<1>3. FlowTypeOK'
  BY <1>1, <1>2, <1>v DEF FlowTypeOK
<1>4. hpc'[c] = "store" /\ pending'[c] = last
  BY <1>1 DEF FlowTypeOK
<1>5. \A d \in Flows : d # c => hpc'[d] = hpc[d] /\ pending'[d] = pending[d]
  BY <1>1 DEF FlowTypeOK
<1>6. Hands'
  <2>1. HandlerOK(c)'
    BY <1>0, <1>1, <1>2, <1>v, <1>4 DEF HandlerOK, Open, Over
  <2> QED
    BY <1>1, <1>2, <1>5, <2>1, OneHand
<1>7. PageOK'
  BY <1>0, <1>1 DEF FlowTypeOK, PageOK, Snapshots
<1>8. \A d \in Flows : Goes(d)
  BY <1>0, <1>1, <1>2, <1>4, <1>5, FlowTypes DEF Goes, Over
<1>9. \A d \in Flows : Listed(d) = Listed(d)'
  BY <1>1 DEF Listed
<1>10. \A v \in Sent' : v \in Sent \/ v = last
  BY <1>1, <1>4, <1>5 DEF Sent
<1>11. \A v : v = last => SentOK(v)'
  BY <1>0, <1>1, <1>2, <1>v, <1>4 DEF SentOK, ViewOK, Over
<1> QED
  BY <1>1, <1>3, <1>6, <1>7, <1>8, <1>9, <1>10, <1>11, StepKeeps

LEMMA Recorded ==
  ASSUME FlowTypeOK, NEW v \in Views \cup {NoFlow}, record(v)
  PROVE  /\ history' \in [0..(FlowHistory - 1) -> Views \cup {NoFlow}] /\ next' \in 0..(FlowHistory - 1)
         /\ \A i \in 0..(FlowHistory - 1) : history'[i] \in {v, history[i]}
<1>1. FlowHistory \in Nat \ {0}
  BY FlowAssumption
<1> QED
  BY <1>1 DEF FlowTypeOK, record

LEMMA RecordStep ==
  ASSUME FlowIInv, NEW c \in Flows, FlowRecord(c)
  PROVE  FlowIInv'
<1> USE DEF FlowIInv
<1>0. /\ HandlerOK(c) /\ hpc[c] \in {"store", "tell"} /\ c \notin table
      /\ pending[c] \in Views /\ pending[c] \in Sent
  BY FlowTypes DEF FlowRecord, Hands, HandlerOK, Over, Open, Sent
<1>1. /\ UNCHANGED <<stage, number, numbered, table, young, pending, viewers, flowPage, snap, batch, endedSince, cards>>
      /\ \E step \in {"tell", "done"} : hpc' = [hpc EXCEPT ![c] = step]
      /\ \/ record(pending[c]) /\ UNCHANGED events
         \/ publish(pending[c]) /\ UNCHANGED <<history, next>>
  BY DEF FlowRecord, pageVars, toStep
<1>2. FlowTypeOK'
  <2>1. CASE record(pending[c]) /\ UNCHANGED events
    BY <1>0, <1>1, <2>1, Recorded DEF FlowTypeOK
  <2>2. CASE publish(pending[c]) /\ UNCHANGED <<history, next>>
    BY <1>0, <1>1, <2>2, Published DEF FlowTypeOK
  <2> QED
    BY <1>1, <2>1, <2>2
<1>4. hpc'[c] \in {"tell", "done"}
  BY <1>1 DEF FlowTypeOK
<1>5. \A d \in Flows : d # c => hpc'[d] = hpc[d]
  BY <1>1 DEF FlowTypeOK
<1>6. Hands'
  <2>1. HandlerOK(c)'
    BY <1>0, <1>1, <1>4 DEF HandlerOK, Open, Over
  <2> QED
    BY <1>1, <1>5, <2>1, OneHand
<1>7. PageOK'
  BY <1>0, <1>1, <1>4, <1>5 DEF FlowTypeOK, PageOK, Snapshots
<1>8. \A d \in Flows : Goes(d)
  BY <1>0, <1>1, <1>4, <1>5, FlowTypes DEF Goes, Over
<1>9. \A d \in Flows : Listed(d) = Listed(d)'
  BY <1>1 DEF Listed
<1>10. \A v \in Sent' : v \in Sent \/ v = NoFlow
  <2>1. CASE record(pending[c]) /\ UNCHANGED events
    <3>1. \A i \in 0..(FlowHistory - 1) : history'[i] \in {pending[c], history[i]}
      BY <1>0, <2>1, Recorded
    <3> QED
      BY <1>0, <1>1, <2>1, <3>1 DEF Sent
  <2>2. CASE publish(pending[c]) /\ UNCHANGED <<history, next>>
    BY <1>0, <1>1, <2>2, PublishedSent
  <2> QED
    BY <1>1, <2>1, <2>2
<1>11. \A v : v = NoFlow => SentOK(v)'
  BY DEF SentOK
<1> QED
  BY <1>1, <1>2, <1>6, <1>7, <1>8, <1>9, <1>10, <1>11, StepKeeps

\* A step that is no handler's.
LEMMA PageKeeps ==
  ASSUME FlowIInv, FlowTypeOK', PageOK', UNCHANGED <<stage, number, numbered, table, hpc, pending, cards>>,
         Sent' \subseteq Sent \cup {NoFlow}, \A c \in Flows : c \in table /\ Listed(c) => Listed(c)'
  PROVE  FlowIInv'
<1>1. ASSUME NEW c \in Flows PROVE HandlerOK(c)' /\ Goes(c)
  <2>1. HandlerOK(c)'
    BY DEF FlowIInv, Hands, HandlerOK
  <2>2. number[c] \in Nat
    BY FlowTypes DEF FlowIInv
  <2> QED
    BY <2>1, <2>2 DEF Goes
<1>2. \A v : v = NoFlow => SentOK(v)'
  BY DEF SentOK
<1> QED
  BY <1>1, <1>2, StepKeeps DEF Hands

LEMMA OthersStep ==
  ASSUME FlowIInv, OthersEnd
  PROVE  FlowIInv'
<1> USE DEF FlowIInv
<1>1. /\ UNCHANGED <<stage, number, numbered, table, young, hpc, pending, viewers>>
      /\ UNCHANGED <<flowPage, snap, batch, endedSince, cards>>
      /\ \/ record(NoFlow) /\ UNCHANGED events
         \/ events # <<>> /\ events' = Tail(events) /\ UNCHANGED <<history, next>>
  BY DEF OthersEnd, handlerVars, pageVars
<1>2. PageOK' /\ \A c \in Flows : Listed(c) = Listed(c)'
  BY <1>1 DEF PageOK, Listed
<1>3. CASE record(NoFlow) /\ UNCHANGED events
  <2>1. /\ history' \in [0..(FlowHistory - 1) -> Views \cup {NoFlow}] /\ next' \in 0..(FlowHistory - 1)
        /\ \A i \in 0..(FlowHistory - 1) : history'[i] \in {NoFlow, history[i]}
    BY <1>3, Recorded
  <2>2. FlowTypeOK'
    BY <1>1, <1>3, <2>1 DEF FlowTypeOK
  <2>3. Sent' \subseteq Sent \cup {NoFlow}
    BY <1>1, <1>3, <2>1 DEF Sent
  <2> QED
    BY <1>1, <1>2, <2>2, <2>3, PageKeeps
<1>4. CASE events # <<>> /\ events' = Tail(events) /\ UNCHANGED <<history, next>>
  <2>1. /\ events' \in Seq(Views) /\ Len(events') = Len(events) - 1
        /\ \A i \in 1..Len(events') : events'[i] = events[i + 1]
    BY <1>4, HeadTailProperties DEF FlowTypeOK
  <2>2. Len(events) \in Nat /\ Len(events) <= FlowQueue /\ FlowQueue \in Nat
    BY FlowAssumption DEF FlowTypeOK
  <2>3. Len(events') <= FlowQueue
    BY <2>1, <2>2
  <2>4. FlowTypeOK'
    BY <1>1, <1>4, <2>1, <2>3 DEF FlowTypeOK
  <2>5. \A i \in 1..Len(events') : events'[i] \in Sent
    <3>1. \A i \in 1..Len(events') : i + 1 \in 1..Len(events)
      BY <2>1, <2>2
    <3> QED
      BY <2>1, <3>1 DEF Sent
  <2>6. Sent' \subseteq Sent \cup {events'[i] : i \in 1..Len(events')}
    BY <1>1, <1>4 DEF Sent
  <2>7. Sent' \subseteq Sent
    BY <2>5, <2>6
  <2> QED
    BY <1>1, <1>2, <2>4, <2>7, PageKeeps
<1> QED
  BY <1>1, <1>3, <1>4

LEMMA AgesStep ==
  ASSUME FlowIInv, NEW c \in Flows, Ages(c)
  PROVE  FlowIInv'
<1>1. /\ UNCHANGED <<stage, number, numbered, table, hpc, pending, history, next, viewers, events>>
      /\ UNCHANGED <<flowPage, snap, batch, endedSince, cards>> /\ young' \subseteq young
  BY DEF Ages, logVars, pageVars
<1>2. FlowTypeOK'
  BY <1>1 DEF FlowIInv, FlowTypeOK
<1>3. Sent' = Sent /\ PageOK' /\ \A d \in Flows : Listed(d) = Listed(d)'
  BY <1>1 DEF Sent, PageOK, Listed, FlowIInv
<1> QED
  BY <1>1, <1>2, <1>3, PageKeeps

-----------------------------------------------------------------------------
(* The snapshots *)

LEMMA ListStep ==
  ASSUME FlowIInv, SnapshotList
  PROVE  FlowIInv'
<1> USE DEF FlowIInv
<1>1. PICK list \in SUBSET table, cut \in BOOLEAN :
        (~cut => list = table) /\ snap' = [snap EXCEPT !.step = "view", !.list = list, !.cut = cut]
  BY DEF SnapshotList
<1>2. UNCHANGED <<handlerVars, logVars, flowPage, batch, endedSince, cards>>
  BY DEF SnapshotList
<1>3. /\ snap' \in Snapshots /\ snap'.step = "view" /\ snap'.list = list /\ snap'.cut = cut
      /\ snap'.active = snap.active /\ snap'.closed = snap.closed
  BY <1>1 DEF FlowTypeOK, Snapshots
<1>4. FlowTypeOK'
  BY <1>2, <1>3 DEF FlowTypeOK, handlerVars, logVars
<1>5. \A c \in list : hpc[c] # "new" /\ c \notin Refused
  BY DEF FlowTypeOK, Hands, HandlerOK, Open, Over
<1>6. PageOK'
  BY <1>2, <1>3, <1>5 DEF PageOK, handlerVars, logVars
<1>7. Sent' = Sent
  BY <1>2, <1>3 DEF Sent, handlerVars, logVars
<1>8. \A c \in table : Listed(c)'
  BY <1>1, <1>3 DEF Listed
<1> QED
  BY <1>2, <1>4, <1>6, <1>7, <1>8, PageKeeps DEF handlerVars

LEMMA ViewStep ==
  ASSUME FlowIInv, SnapshotView
  PROVE  FlowIInv'
<1> USE DEF FlowIInv
<1>1. PICK c \in snap.list : takeView(c) /\ snap' = [snap EXCEPT !.list = @ \ {c}, !.active = @ \cup {flow(c)}]
  BY DEF SnapshotView
<1>p. UNCHANGED <<stage, table, young, hpc, pending, history, next, viewers, events, flowPage, batch, endedSince, cards>>
  BY DEF SnapshotView, logVars
<1>0. c \in Flows /\ HandlerOK(c) /\ hpc[c] # "new" /\ c \notin Refused
  BY DEF PageOK, FlowTypeOK, Snapshots, Hands
<1>2. /\ number' \in [Flows -> Nat] /\ numbered' \in [Flows -> 0..2]
      /\ \A d \in Flows : d # c => number'[d] = number[d] /\ numbered'[d] = numbered[d]
      /\ numbered'[c] = stage[c] /\ number'[c] >= 1 /\ number'[c] >= number[c]
      /\ number[c] >= 1 => number'[c] - numbered'[c] = number[c] - numbered[c]
      /\ flow(c) \in Views /\ flow(c).id = c /\ flow(c).seq = number'[c] /\ flow(c).stage = stage[c]
      /\ ~flow(c).ended
  BY <1>0, <1>1, Took
<1>3. /\ snap' \in Snapshots /\ snap'.list = snap.list \ {c} /\ snap'.active = snap.active \cup {flow(c)}
      /\ snap'.closed = snap.closed /\ snap'.step = snap.step /\ snap'.cut = snap.cut /\ snap'.full = snap.full
  BY <1>1, <1>2 DEF FlowTypeOK, Snapshots
<1>4. FlowTypeOK'
  BY <1>p, <1>2, <1>3 DEF FlowTypeOK
<1>5. Hands'
  <2>1. HandlerOK(c)'
    BY <1>0, <1>p, <1>2, FlowTypes DEF HandlerOK
  <2> QED
    BY <1>0, <1>p, <1>2, <2>1, OneHand
<1>6. PageOK'
  BY <1>p, <1>3 DEF PageOK
<1>7. \A d \in Flows : Goes(d)
  BY <1>0, <1>p, <1>2, FlowTypes DEF Goes
<1>8. \A d \in Flows : Listed(d) => Listed(d)'
  BY <1>1, <1>2, <1>3 DEF Listed
<1>9. \A v \in Sent' : v \in Sent \/ v = flow(c)
  BY <1>p, <1>3 DEF Sent
<1>10. \A v : v = flow(c) => SentOK(v)'
  BY <1>0, <1>p, <1>2, TakenIsOK DEF FlowTypeOK
<1> QED
  BY <1>p, <1>4, <1>5, <1>6, <1>7, <1>8, <1>9, <1>10, StepKeeps

LEMMA ClosedStep ==
  ASSUME FlowIInv, SnapshotClosed
  PROVE  FlowIInv'
<1> USE DEF FlowIInv
<1> DEFINE kept == Range(history) \ {NoFlow}
<1>1. PICK older \in SUBSET {v \in kept : v.id \notin endedSince} :
        snap' = [snap EXCEPT !.step = "write", !.young = young,
                             !.closed = {v \in kept : v.id \in endedSince} \cup older]
  BY DEF SnapshotClosed
<1>p. UNCHANGED <<handlerVars, logVars, flowPage, batch, cards>> /\ endedSince' = {} /\ snap.step = "view" /\ snap.list = {}
  BY DEF SnapshotClosed
<1>2. kept \subseteq Views /\ kept \subseteq Sent
  BY DEF FlowTypeOK, Range, Sent
<1>3. /\ snap' \in Snapshots /\ snap'.list = snap.list /\ snap'.active = snap.active
      /\ snap'.closed \subseteq kept /\ snap'.cut = snap.cut /\ snap'.full = snap.full
  <2> DEFINE closed == {v \in kept : v.id \in endedSince} \cup older
  <2>1. closed \in SUBSET kept /\ closed \in SUBSET Views
    BY <1>2
  <2>2. snap' = [snap EXCEPT !.step = "write", !.young = young, !.closed = closed]
    BY <1>1
  <2> HIDE DEF closed, kept
  <2> QED
    BY <2>1, <2>2 DEF FlowTypeOK, Snapshots
<1>4. FlowTypeOK'
  BY <1>p, <1>3 DEF FlowTypeOK, handlerVars, logVars
<1>5. PageOK'
  BY <1>p, <1>3 DEF PageOK, handlerVars, logVars
<1>6. Sent' \subseteq Sent
  BY <1>p, <1>2, <1>3 DEF Sent, handlerVars, logVars
<1>7. \A c \in Flows : Listed(c) => Listed(c)'
  BY <1>p, <1>3 DEF Listed
<1> QED
  BY <1>p, <1>4, <1>5, <1>6, <1>7, PageKeeps DEF handlerVars

LEMMA SocketStep ==
  ASSUME FlowIInv, FlowSocket \/ SnapshotTick \/ Leave
  PROVE  FlowIInv'
<1> USE DEF FlowIInv
<1>1. /\ UNCHANGED <<handlerVars, history, next, endedSince, cards>>
      /\ events' \in {events, <<>>} /\ batch' \in {batch, <<>>}
      /\ snap'.step \in {"idle", "start"} /\ snap' \in Snapshots
      /\ snap'.list = {} /\ snap'.active = {} /\ snap'.closed = {}
  <2>1. FirstSnap \in Snapshots /\ FirstSnap.list = {} /\ FirstSnap.active = {} /\ FirstSnap.closed = {}
    BY DEF FirstSnap, Snapshots
  <2>2. \A f \in BOOLEAN, s \in {"idle", "start"} : LET n == [FirstSnap EXCEPT !.step = s, !.full = f] IN
          n \in Snapshots /\ n.step = s /\ n.list = {} /\ n.active = {} /\ n.closed = {}
    BY <2>1 DEF Snapshots
  <2>3. CASE FlowSocket
    BY <2>2, <2>3 DEF FlowSocket
  <2>4. CASE SnapshotTick
    <3>1. snap' = [FirstSnap EXCEPT !.step = "start"]
      BY <2>4 DEF SnapshotTick
    <3>2. snap' \in Snapshots /\ snap'.step = "start" /\ snap'.list = {} /\ snap'.active = {} /\ snap'.closed = {}
      BY <2>1, <3>1 DEF Snapshots
    <3> QED
      BY <2>4, <3>2 DEF SnapshotTick, logVars
  <2>5. CASE Leave
    <3>1. FirstSnap.step = "idle"
      BY DEF FirstSnap
    <3> QED
      BY <2>1, <2>5, <3>1 DEF Leave
  <2> QED
    BY <2>3, <2>4, <2>5
<1>2. /\ flowPage' \in {"off", "first", "open"}
      /\ viewers' = IF flowPage' = "off" THEN 0 ELSE 1
  BY DEF FlowSocket, SnapshotTick, Leave, PageOK, logVars, FlowTypeOK
<1>3. /\ events' \in Seq(Views) /\ Len(events') <= FlowQueue /\ batch' \in Seq(Views)
      /\ \A i \in 1..Len(events') : events'[i] = events[i] /\ i \in 1..Len(events)
      /\ \A i \in 1..Len(batch') : batch'[i] = batch[i] /\ i \in 1..Len(batch)
  <2>1. <<>> \in Seq(Views) /\ Len(<<>>) = 0 /\ FlowQueue \in Nat
    BY EmptySeq, FlowAssumption
  <2>2. /\ events' \in Seq(Views) /\ Len(events') <= FlowQueue
        /\ \A i \in 1..Len(events') : events'[i] = events[i] /\ i \in 1..Len(events)
    <3>1. CASE events' = events
      BY <3>1 DEF FlowTypeOK
    <3>2. CASE events' = <<>>
      BY <2>1, <3>2
    <3> QED
      BY <1>1, <3>1, <3>2
  <2>3. /\ batch' \in Seq(Views)
        /\ \A i \in 1..Len(batch') : batch'[i] = batch[i] /\ i \in 1..Len(batch)
    <3>1. CASE batch' = batch
      BY <3>1 DEF FlowTypeOK
    <3>2. CASE batch' = <<>>
      BY <2>1, <3>2
    <3> QED
      BY <1>1, <3>1, <3>2
  <2> QED
    BY <2>2, <2>3
<1>4. FlowTypeOK'
  BY <1>1, <1>2, <1>3 DEF FlowTypeOK, handlerVars
<1>5. PageOK'
  BY <1>1, <1>2 DEF PageOK
<1>6. Sent' \subseteq Sent
  BY <1>1, <1>3 DEF Sent, handlerVars
<1>7. \A c \in Flows : Listed(c)'
  BY <1>1 DEF Listed
<1> QED
  BY <1>1, <1>4, <1>5, <1>6, <1>7, PageKeeps DEF handlerVars

LEMMA ReceiveStep ==
  ASSUME FlowIInv, ReceiveEvents
  PROVE  FlowIInv'
<1> USE DEF FlowIInv
<1> DEFINE n == IF Len(events) < FlowBatch THEN Len(events) ELSE FlowBatch
<1>1. /\ batch' = SubSeq(events, 1, n) /\ events' = SubSeq(events, n + 1, Len(events))
      /\ UNCHANGED <<handlerVars, history, next, viewers, flowPage, snap, endedSince, cards>>
  BY DEF ReceiveEvents
<1>2. Len(events) \in Nat /\ n \in Nat /\ n <= Len(events) /\ Len(events) <= FlowQueue /\ FlowQueue \in Nat
  BY FlowAssumption DEF FlowTypeOK
<1>3. \A i \in 1..Len(events) : events[i] \in Views
  BY ElementOfSeq DEF FlowTypeOK
<1> HIDE DEF n
<1>4. /\ batch' \in Seq(Views) /\ Len(batch') = n /\ \A i \in 1..n : batch'[i] = events[i]
  <2>1. \A i \in 1..n : events[i] \in Views
    BY <1>2, <1>3
  <2>2. /\ SubSeq(events, 1, n) \in Seq(Views) /\ Len(SubSeq(events, 1, n)) = IF 1 <= n THEN n - 1 + 1 ELSE 0
        /\ \A i \in 1..(n - 1 + 1) : SubSeq(events, 1, n)[i] = events[1 + i - 1]
    BY <1>2, <2>1, SubSeqProperties
  <2> QED
    BY <1>1, <1>2, <2>2
<1>5. /\ events' \in Seq(Views) /\ Len(events') = Len(events) - n
      /\ \A i \in 1..(Len(events) - n) : events'[i] = events[n + i]
  <2>1. \A i \in (n + 1)..Len(events) : events[i] \in Views
    BY <1>2, <1>3
  <2>2. /\ SubSeq(events, n + 1, Len(events)) \in Seq(Views)
        /\ Len(SubSeq(events, n + 1, Len(events))) = IF n + 1 <= Len(events) THEN Len(events) - (n + 1) + 1 ELSE 0
        /\ \A i \in 1..(Len(events) - (n + 1) + 1) :
             SubSeq(events, n + 1, Len(events))[i] = events[(n + 1) + i - 1]
    BY <1>2, <2>1, SubSeqProperties
  <2> QED
    BY <1>1, <1>2, <2>2
<1>6. FlowTypeOK'
  BY <1>1, <1>2, <1>4, <1>5 DEF FlowTypeOK, handlerVars
<1>7. PageOK' /\ \A c \in Flows : Listed(c) = Listed(c)'
  BY <1>1 DEF PageOK, Listed, handlerVars
<1>8. Sent' \subseteq Sent
  <2>1. \A i \in 1..Len(batch') : batch'[i] = events[i] /\ i \in 1..Len(events)
    BY <1>2, <1>4
  <2>2. \A i \in 1..Len(events') : events'[i] = events[n + i] /\ n + i \in 1..Len(events)
    BY <1>2, <1>5
  <2>3. {batch'[i] : i \in 1..Len(batch')} \subseteq Sent
    BY <2>1 DEF Sent
  <2>4. {events'[i] : i \in 1..Len(events')} \subseteq Sent
    BY <2>2 DEF Sent
  <2>5. Sent' \subseteq Sent \cup {batch'[i] : i \in 1..Len(batch')} \cup {events'[i] : i \in 1..Len(events')}
    BY <1>1 DEF Sent, handlerVars
  <2> QED
    BY <2>3, <2>4, <2>5
<1> QED
  BY <1>1, <1>6, <1>7, <1>8, PageKeeps DEF handlerVars

-----------------------------------------------------------------------------
(* The cards *)

\* The card n of a connection shows no less than k did.
Advances(k, n) ==
  k # NoFlow => n # NoFlow /\ n.view.stage >= k.view.stage /\ (k.view.ended => n.view.ended)

\* What a page may show: sound cards, none behind those there were.
CardsOK(old, cs) ==
  /\ cs \in [Flows -> Cards \cup {NoFlow}]
  /\ \A c \in Flows : CardOK(c, cs[c]) /\ Advances(old[c], cs[c])

\* flowUpsert: of two views of a connection the card has the one that shows more.
LEMMA UpsertedOK ==
  ASSUME FlowTypeOK, Hands, NEW c \in Flows, NEW k \in Cards \cup {NoFlow}, CardOK(c, k),
         NEW v \in Views, v.id = c, SentOK(v)
  PROVE  upserted(k, v) \in Cards /\ CardOK(c, upserted(k, v)) /\ Advances(k, upserted(k, v))
<1>1. NoFlow \notin Views /\ NoFlow \notin Cards
  BY FlowAssumption
<1>2. ViewOK(v) /\ (v.ended => c \notin table /\ v.stage = stage[c])
  BY <1>1 DEF SentOK, Hands, HandlerOK, Open, Over
<1>3. CASE k = NoFlow
  <2>1. upserted(k, v) = [view |-> v, misses |-> 0]
    BY <1>3 DEF upserted
  <2> QED
    BY <1>2, <1>3, <2>1 DEF Cards, CardOK, Advances
<1>4. CASE k # NoFlow
  <2> DEFINE w == IF newer(k.view, v) THEN v ELSE k.view
             m == IF ~v.ended \/ k.view.ended THEN 0 ELSE k.misses
             n == upserted(k, v)
  <2>1. /\ k \in Cards /\ k.view \in Views /\ k.misses \in 0..2
        /\ k.view.id = c /\ ViewOK(k.view) /\ (k.view.ended => c \notin table)
    BY <1>4 DEF CardOK, Cards
  <2>2. n = [view |-> w, misses |-> m] /\ w \in Views /\ m \in 0..2
    BY <1>4, <2>1 DEF upserted
  <2>3. n \in Cards /\ n.view = w /\ n.misses = m /\ n # NoFlow
    BY <1>1, <2>2 DEF Cards
  <2>4. w.id = c /\ ViewOK(w) /\ (w.ended => c \notin table)
    BY <1>2, <2>1
  <2>5. k.view.ended => w.ended
    BY DEF newer
  <2>6. w.stage >= k.view.stage
    <3>1. /\ k.view.seq \in Nat /\ k.view.stage \in 0..2 /\ v.seq \in Nat /\ v.stage \in 0..2
          /\ number[c] \in Nat /\ numbered[c] \in 0..2 /\ numbered[c] <= stage[c] /\ stage[c] \in 0..2
      BY <2>1, FlowTypes DEF Views, Hands, HandlerOK
    <3>2. k.view.stage <= numbered[c]
      BY <2>1, <3>1 DEF ViewOK
    <3>3. CASE newer(k.view, v) /\ v.ended
      BY <1>2, <3>1, <3>2, <3>3
    <3>4. CASE newer(k.view, v) /\ ~v.ended
      BY <1>2, <2>1, <3>1, <3>4 DEF newer, ViewOK
    <3>5. CASE ~newer(k.view, v)
      BY <3>1, <3>5
    <3> QED
      BY <3>3, <3>4, <3>5
  <2>7. m >= 1 /\ ~w.ended /\ c \in table => Listed(c)
    <3>1. m >= 1 => m = k.misses
      OBVIOUS
    <3>2. ~w.ended => ~k.view.ended
      BY <2>5
    <3> QED
      BY <1>4, <2>1, <3>1, <3>2 DEF CardOK
  <2> HIDE DEF w, m, n
  <2>8. CardOK(c, n) /\ Advances(k, n)
    BY <2>3, <2>4, <2>5, <2>6, <2>7 DEF CardOK, Advances
  <2> QED
    BY <2>3, <2>8 DEF n
<1> QED
  BY <1>3, <1>4

LEMMA AdvancesAgain ==
  ASSUME NEW k \in Cards \cup {NoFlow}, NEW l \in Cards \cup {NoFlow}, NEW n \in Cards \cup {NoFlow},
         Advances(k, l), Advances(l, n)
  PROVE  Advances(k, n)
<1>1. \A d \in Cards : d.view.stage \in 0..2
  BY DEF Cards, Views
<1> QED
  BY <1>1 DEF Advances

LEMMA AllUpserted ==
  ASSUME FlowTypeOK, Hands, NEW old \in [Flows -> Cards \cup {NoFlow}], NEW cs, CardsOK(old, cs),
         NEW vs \in SUBSET Views, \A v \in vs : SentOK(v)
  PROVE  CardsOK(old, upsertAll(cs, vs))
<1>1. ASSUME NEW c \in Flows
      PROVE  /\ upsertAll(cs, vs)[c] \in Cards \cup {NoFlow}
             /\ CardOK(c, upsertAll(cs, vs)[c]) /\ Advances(old[c], upsertAll(cs, vs)[c])
  <2> DEFINE of == {v \in vs : v.id = c}
             v == CHOOSE w \in of : TRUE
  <2>0. cs[c] \in Cards \cup {NoFlow} /\ CardOK(c, cs[c]) /\ Advances(old[c], cs[c])
    BY DEF CardsOK
  <2>1. upsertAll(cs, vs)[c] = IF of = {} THEN cs[c] ELSE upserted(cs[c], v)
    BY DEF upsertAll
  <2>2. CASE of = {}
    BY <2>0, <2>1, <2>2
  <2>3. CASE of # {}
    <3>1. v \in of
      BY <2>3
    <3>2. v \in Views /\ v.id = c /\ SentOK(v)
      BY <3>1
    <3> HIDE DEF v
    <3>3. upserted(cs[c], v) \in Cards /\ CardOK(c, upserted(cs[c], v)) /\ Advances(cs[c], upserted(cs[c], v))
      BY <2>0, <3>2, UpsertedOK
    <3>4. Advances(old[c], upserted(cs[c], v))
      BY <2>0, <3>3, AdvancesAgain
    <3> QED
      BY <2>1, <2>3, <3>3, <3>4
  <2> QED
    BY <2>2, <2>3
<1>2. upsertAll(cs, vs) \in [Flows -> Cards \cup {NoFlow}]
  <2>1. upsertAll(cs, vs) = [c \in Flows |-> upsertAll(cs, vs)[c]]
    BY DEF upsertAll
  <2> QED
    BY <1>1, <2>1
<1> QED
  BY <1>1, <1>2 DEF CardsOK

\* One event after the other.
LEMMA EachUpserted ==
  ASSUME FlowTypeOK, Hands, NEW old \in [Flows -> Cards \cup {NoFlow}], NEW cs, CardsOK(old, cs),
         NEW vs \in Seq(Views), \A i \in 1..Len(vs) : SentOK(vs[i])
  PROVE  CardsOK(old, upsertEach(cs, vs))
<1> DEFINE N == Len(vs)
           D == {d \in [Flows -> Cards \cup {NoFlow}] : CardsOK(old, d)}
           U == [d \in D |-> [i \in 1..N |-> flowUpsert(d, vs[i])]]
           runs(g) == g = [i \in 0..N |-> IF i = 0 THEN cs ELSE flowUpsert(g[i - 1], vs[i])]
<1>1. N \in Nat /\ cs \in D
  BY DEF CardsOK
<1>2. ASSUME NEW d \in D, NEW i \in 1..N PROVE flowUpsert(d, vs[i]) \in D
  <2>1. vs[i] \in Views /\ SentOK(vs[i])
    BY ElementOfSeq
  <2>2. vs[i].id \in Flows
    BY <2>1 DEF Views
  <2> DEFINE c == vs[i].id
  <2>3. d[c] \in Cards \cup {NoFlow} /\ CardOK(c, d[c]) /\ Advances(old[c], d[c])
    BY <2>2 DEF CardsOK
  <2>4. upserted(d[c], vs[i]) \in Cards /\ CardOK(c, upserted(d[c], vs[i])) /\ Advances(d[c], upserted(d[c], vs[i]))
    BY <2>1, <2>2, <2>3, UpsertedOK
  <2>5. Advances(old[c], upserted(d[c], vs[i]))
    BY <2>2, <2>3, <2>4, AdvancesAgain
  <2>6. flowUpsert(d, vs[i]) = [d EXCEPT ![c] = upserted(d[c], vs[i])]
    BY DEF flowUpsert
  <2> HIDE DEF c
  <2>7. /\ flowUpsert(d, vs[i]) \in [Flows -> Cards \cup {NoFlow}]
        /\ flowUpsert(d, vs[i])[c] = upserted(d[c], vs[i]) /\ \A e \in Flows : e # c => flowUpsert(d, vs[i])[e] = d[e]
    BY <2>2, <2>4, <2>6 DEF c
  <2>8. \A e \in Flows : CardOK(e, flowUpsert(d, vs[i])[e]) /\ Advances(old[e], flowUpsert(d, vs[i])[e])
    BY <2>4, <2>5, <2>7 DEF CardsOK
  <2> QED
    BY <2>7, <2>8 DEF CardsOK
<1>3. U \in [D -> [1..N -> D]]
  <2> QED
    BY <1>2
<1>4. PICK f \in [0..N -> D] : Folded(f, cs, U, N)
  <2> HIDE DEF U, N, D
  <2> QED
    BY <1>1, <1>3, FoldExists, Zenon
<1>5. \A i \in 1..N : f[i] = flowUpsert(f[i - 1], vs[i])
  <2>1. SUFFICES ASSUME NEW i \in 1..N PROVE f[i] = flowUpsert(f[i - 1], vs[i])
    OBVIOUS
  <2>2. f[i - 1] \in D
    OBVIOUS
  <2> QED
    BY <1>4, <2>2 DEF Folded
<1>6. runs(f)
  <2> HIDE DEF D
  <2> QED
    BY <1>4, <1>5 DEF Folded
<1> DEFINE after == CHOOSE g : runs(g)
<1>7. runs(after)
  <2> HIDE DEF runs
  <2> QED
    BY <1>6
<1>8. upsertEach(cs, vs) = after[N]
  BY DEF upsertEach
<1> DEFINE T == {i \in 0..N : after[i] \in D}
<1>r. /\ after[0] = cs /\ \A i \in 0..(N - 1) : after[i + 1] = flowUpsert(after[i], vs[i + 1])
  <2> HIDE DEF after
  <2> QED
    BY <1>1, <1>7
<1> HIDE DEF after, D
<1>9. 0 \in T
  BY <1>1, <1>r
<1>10. \A i \in 0..(N - 1) : i \in T => i + 1 \in T
  BY <1>2, <1>r
<1>11. 0..N \subseteq T
  <2> HIDE DEF T, N
  <2> QED
    BY <1>1, <1>9, <1>10, BoundedInduction, Zenon
<1> QED
  BY <1>1, <1>8, <1>11 DEF D

-----------------------------------------------------------------------------
(* The page *)

LEMMA EventsStep ==
  ASSUME FlowIInv, WriteEvents
  PROVE  FlowIInv' /\ CardsOK(cards, cards')
<1> USE DEF FlowIInv
<1>1. cards' = upsertEach(cards, batch) /\ batch' = <<>>
      /\ UNCHANGED <<stage, number, numbered, table, young, hpc, pending, history, next, viewers, events>>
      /\ UNCHANGED <<flowPage, snap, endedSince>>
  BY DEF WriteEvents, handlerVars, logVars
<1>2. CardsOK(cards, cards)
  <2>1. ASSUME NEW c \in Flows PROVE Advances(cards[c], cards[c])
    <3>1. cards[c] # NoFlow => cards[c].view.stage \in 0..2
      BY FlowTypes DEF Cards, Views
    <3> QED
      BY <3>1 DEF Advances
  <2> QED
    BY <2>1 DEF CardsOK, FlowTypeOK
<1>3. batch \in Seq(Views) /\ cards \in [Flows -> Cards \cup {NoFlow}] /\ \A i \in 1..Len(batch) : SentOK(batch[i])
  BY DEF FlowTypeOK, Sent
<1>4. CardsOK(cards, cards')
  BY <1>1, <1>2, <1>3, EachUpserted
<1>5. FlowTypeOK'
  BY <1>1, <1>4, EmptySeq DEF FlowTypeOK, CardsOK
<1>6. Sent' \subseteq Sent
  BY <1>1, EmptySeq DEF Sent
<1>7. Hands' /\ PageOK' /\ \A c \in Flows : Listed(c) = Listed(c)'
  BY <1>1 DEF Hands, HandlerOK, PageOK, Listed
<1>8. \A c \in Flows : CardOK(c, cards'[c])
  BY <1>4 DEF CardsOK
<1>9. \A v \in Sent' : SentOK(v)'
  BY <1>1, <1>6 DEF SentOK, ViewOK
<1>10. \A c \in Flows : CardOK(c, cards[c])'
  BY <1>1, <1>7, <1>8 DEF CardOK, ViewOK
<1> QED
  BY <1>4, <1>5, <1>7, <1>9, <1>10

\* Two missed lists in a row close a card only of a connection that is out of
\* the table.
Shows(c, k) == k # NoFlow => k.view.id = c /\ ViewOK(k.view) /\ (k.view.ended => c \notin table)
LEMMA MissingOK ==
  ASSUME FlowIInv, snap.step = "write", ~snap.cut, ~snap.full,
         NEW old \in [Flows -> Cards \cup {NoFlow}], NEW cs, CardsOK(old, cs)
  PROVE  /\ noteMissing(cs, snap) \in [Flows -> Cards \cup {NoFlow}]
         /\ \A c \in Flows : Shows(c, noteMissing(cs, snap)[c]) /\ Advances(old[c], noteMissing(cs, snap)[c])
<1> DEFINE after == noteMissing(cs, snap)
<1>1. ASSUME NEW c \in Flows
      PROVE  after[c] \in Cards \cup {NoFlow} /\ Shows(c, after[c]) /\ Advances(old[c], after[c])
  <2> DEFINE k == cs[c]
  <2>0. k \in Cards \cup {NoFlow} /\ CardOK(c, k) /\ Advances(old[c], k) /\ NoFlow \notin Cards
    BY FlowAssumption DEF CardsOK
  <2>1. CASE c \notin missed(cs, snap)
    BY <2>0, <2>1 DEF noteMissing, Shows, CardOK
  <2>2. CASE c \in missed(cs, snap)
    <3>1. k # NoFlow /\ ~k.view.ended /\ c \notin {v.id : v \in snap.active}
      BY <2>2 DEF missed
    <3>2. k \in Cards /\ k.view \in Views /\ k.misses \in 0..2 /\ k.view.id = c /\ ViewOK(k.view)
      BY <2>0, <3>1 DEF Cards, CardOK
    <3>3. ~Listed(c)
      BY <3>1 DEF Listed, FlowIInv, PageOK
    <3>4. k.misses >= 1 => c \notin table
      BY <2>0, <3>1, <3>3 DEF CardOK
    <3>5. CASE k.misses + 1 >= closedAfter
      <4>1. after[c] = [view |-> [k.view EXCEPT !.ended = TRUE], misses |-> 2]
        BY <2>2, <3>5 DEF noteMissing
      <4>2. c \notin table
        BY <3>2, <3>4, <3>5 DEF closedAfter
      <4> DEFINE w == [k.view EXCEPT !.ended = TRUE]
      <4>3. w \in Views /\ w.id = c /\ w.seq = k.view.seq /\ w.stage = k.view.stage /\ w.ended
        BY <3>2 DEF Views
      <4>4. ViewOK(w)
        BY <3>2, <4>3 DEF ViewOK
      <4> HIDE DEF w
      <4>5. after[c] \in Cards /\ after[c].view = w
        BY <4>1, <4>3 DEF Cards, w
      <4> HIDE DEF after
      <4>6. Shows(c, after[c])
        BY <4>2, <4>3, <4>4, <4>5 DEF Shows
      <4>7. Advances(k, after[c])
        BY <2>0, <3>2, <4>3, <4>5 DEF Advances, Views
      <4> QED
        BY <2>0, <4>5, <4>6, <4>7, AdvancesAgain
    <3>6. CASE ~(k.misses + 1 >= closedAfter)
      <4>1. after[c] = [k EXCEPT !.misses = @ + 1]
        BY <2>2, <3>6 DEF noteMissing
      <4>2. k.misses = 0
        BY <3>2, <3>6 DEF closedAfter
      <4>3. after[c] \in Cards /\ after[c].view = k.view
        BY <3>2, <4>1, <4>2 DEF Cards
      <4> HIDE DEF after
      <4> QED
        BY <2>0, <3>1, <3>2, <4>3 DEF Shows, Advances
    <3> QED
      BY <3>5, <3>6
  <2> QED
    BY <2>1, <2>2
<1>2. after \in [Flows -> Cards \cup {NoFlow}]
  <2>1. after = [c \in Flows |-> after[c]]
    BY DEF noteMissing
  <2> QED
    BY <1>1, <2>1
<1> QED
  BY <1>1, <1>2

\* A snapshot starts the cards over or moves them on.
LEMMA FlowWriteStep ==
  ASSUME FlowIInv, WriteSnapshot
  PROVE  /\ FlowIInv'
         /\ ~snap.full => \A c \in Flows : Advances(cards[c], cards'[c])
<1> USE DEF FlowIInv
<1> DEFINE base == IF snap.full THEN [c \in Flows |-> NoFlow] ELSE cards
           seen == upsertAll(upsertAll(base, snap.closed), snap.active)
<1>1. /\ snap.step = "write" /\ snap' = FirstSnap /\ flowPage' = "open" /\ flowPage # "off"
      /\ UNCHANGED <<stage, number, numbered, table, young, hpc, pending, history, next, viewers, events>>
      /\ UNCHANGED <<batch, endedSince>>
      /\ cards' = IF snap.cut \/ snap.full THEN seen ELSE noteMissing(seen, snap)
  BY DEF WriteSnapshot, handlerVars, logVars, flowMessage
<1>2. base \in [Flows -> Cards \cup {NoFlow}] /\ CardsOK(base, base)
  <2>1. base \in [Flows -> Cards \cup {NoFlow}]
    BY DEF FlowTypeOK
  <2>2. ASSUME NEW c \in Flows PROVE CardOK(c, base[c]) /\ Advances(base[c], base[c])
    <3>1. base[c] # NoFlow => base[c] = cards[c] /\ cards[c].view.stage \in 0..2
      BY FlowTypes DEF Cards, Views
    <3>2. base[c] # NoFlow => CardOK(c, base[c])
      BY <3>1
    <3> HIDE DEF base
    <3>3. CardOK(c, base[c])
      BY <3>2 DEF CardOK
    <3> QED
      BY <3>1, <3>3 DEF Advances
  <2> HIDE DEF base
  <2> QED
    BY <2>1, <2>2 DEF CardsOK
<1>3. /\ snap.closed \in SUBSET Views /\ snap.active \in SUBSET Views
      /\ \A v \in snap.closed : SentOK(v)
      /\ \A v \in snap.active : SentOK(v)
  BY DEF FlowTypeOK, Snapshots, Sent
<1> HIDE DEF base
<1>4. CardsOK(base, seen)
  <2>1. CardsOK(base, upsertAll(base, snap.closed))
    BY <1>2, <1>3, AllUpserted
  <2> QED
    BY <1>2, <1>3, <2>1, AllUpserted
<1> HIDE DEF seen
<1>5. /\ cards' \in [Flows -> Cards \cup {NoFlow}]
      /\ \A c \in Flows : Shows(c, cards'[c]) /\ Advances(base[c], cards'[c])
  <2>1. CASE snap.cut \/ snap.full
    BY <1>1, <1>4, <2>1 DEF CardsOK, CardOK, Shows
  <2>2. CASE ~(snap.cut \/ snap.full)
    BY <1>1, <1>2, <1>4, <2>2, MissingOK
  <2> QED
    BY <2>1, <2>2
<1>6. FirstSnap \in Snapshots /\ FirstSnap.step = "idle" /\ FirstSnap.list = {} /\ FirstSnap.active = {} /\ FirstSnap.closed = {}
  BY DEF FirstSnap, Snapshots
<1>7. FlowTypeOK'
  BY <1>1, <1>5, <1>6 DEF FlowTypeOK
<1>8. Hands' /\ PageOK' /\ \A c \in Flows : Listed(c)'
  BY <1>1, <1>6 DEF Hands, HandlerOK, PageOK, Listed
<1>9. Sent' \subseteq Sent
  BY <1>1, <1>6 DEF Sent
<1>10. \A v \in Sent' : SentOK(v)'
  BY <1>1, <1>9 DEF SentOK, ViewOK
<1>11. \A c \in Flows : CardOK(c, cards[c])'
  BY <1>1, <1>5, <1>8 DEF CardOK, Shows, ViewOK
<1> QED
  BY <1>5, <1>7, <1>8, <1>10, <1>11 DEF base

LEMMA FlowStep ==
  ASSUME FlowIInv, FlowNext
  PROVE  FlowIInv'
<1>1. ASSUME NEW c \in Flows, FlowRuns(c) \/ Ages(c) \/ FlowRegister(c) \/ FlowRoute(c) \/ Unregister(c) \/ FlowRefused(c)
      PROVE  FlowIInv'
  BY <1>1, FlowEmitStep, SendStep, FlowEndStep, RecordStep, AgesStep, RegisterStep, RouteStep, RefusedStep DEF FlowRuns
<1>2. ASSUME Snapshot \/ Streaming \/ FlowSocket \/ Leave PROVE FlowIInv'
  BY <1>2, SocketStep, ListStep, ViewStep, ClosedStep, FlowWriteStep, ReceiveStep, EventsStep DEF Snapshot, Streaming
<1> QED
  BY <1>1, <1>2, OthersStep DEF FlowNext

LEMMA FlowStutter ==
  ASSUME FlowIInv, UNCHANGED flowVars
  PROVE  FlowIInv'
<1>1. /\ UNCHANGED <<stage, number, numbered, table, young, hpc, pending, history, next, viewers, events>>
      /\ UNCHANGED <<flowPage, snap, batch, endedSince, cards>>
  BY DEF flowVars, handlerVars, logVars, pageVars
<1>2. FlowTypeOK'
  BY <1>1 DEF FlowIInv, FlowTypeOK
<1>3. Sent' = Sent /\ PageOK' /\ \A d \in Flows : Listed(d) = Listed(d)'
  BY <1>1 DEF Sent, PageOK, Listed, FlowIInv
<1> QED
  BY <1>1, <1>2, <1>3, PageKeeps

LEMMA FlowSafe ==
  FlowInit /\ [][FlowNext]_flowVars => [](FlowTypeOK /\ ClosedIsClosed)
<1>1. FlowInit => FlowIInv
  BY InitFlow
<1>2. FlowIInv /\ [FlowNext]_flowVars => FlowIInv'
  BY FlowStep, FlowStutter
<1>3. FlowIInv => FlowTypeOK /\ ClosedIsClosed
  BY FlowImplies
<1> QED
  BY <1>1, <1>2, <1>3, PTL

\* A card says closed only of a connection that is out of the table (flows.go,
\* flowMessage of app.js), for every number of connections, every length of
\* queue, batch and history, and whatever the queue drops.
THEOREM ClosedStaysClosed == FlowSpec => [](FlowTypeOK /\ ClosedIsClosed)
  BY FlowSafe, PTL DEF FlowSpec

\* No card goes back (flowUpsert): neither a late event nor a snapshot built
\* from older views shows less than the page showed.
LEMMA CardStep ==
  ASSUME FlowIInv, [FlowNext]_flowVars, ~(snap.full /\ snap.step = "write"), NEW c \in Flows
  PROVE  Advances(cards[c], cards'[c])
<1>1. CASE UNCHANGED cards
  <2>1. cards[c] # NoFlow => cards[c].view.stage \in 0..2
    BY FlowTypes DEF FlowIInv, Cards, Views
  <2> QED
    BY <1>1, <2>1 DEF Advances
<1>2. CASE WriteEvents
  BY <1>2, EventsStep DEF CardsOK
<1>3. CASE WriteSnapshot
  BY <1>3, FlowWriteStep DEF WriteSnapshot
<1>4. UNCHANGED cards \/ WriteEvents \/ WriteSnapshot
  <2>1. CASE UNCHANGED flowVars
    BY <2>1 DEF flowVars, pageVars
  <2>2. ASSUME NEW d \in Flows, FlowRuns(d) \/ Ages(d) \/ FlowRegister(d) \/ FlowRoute(d) \/ Unregister(d) \/ FlowRefused(d)
        PROVE  UNCHANGED cards
    BY <2>2 DEF FlowRuns, FlowEmit, FlowSend, FlowEnd, FlowRecord, Ages, FlowRegister, FlowRoute, Unregister,
       FlowRefused, pageVars
  <2>3. ASSUME SnapshotTick \/ SnapshotList \/ SnapshotView \/ SnapshotClosed \/ ReceiveEvents
               \/ FlowSocket \/ Leave \/ OthersEnd
        PROVE  UNCHANGED cards
    BY <2>3 DEF SnapshotTick, SnapshotList, SnapshotView, SnapshotClosed, ReceiveEvents, FlowSocket, Leave,
       OthersEnd, pageVars
  <2> QED
    BY <2>1, <2>2, <2>3 DEF FlowNext, Snapshot, Streaming
<1> QED
  BY <1>1, <1>2, <1>3, <1>4

LEMMA CardsKept ==
  FlowInit /\ [][FlowNext]_flowVars => CardsOnlyAdvance
<1>1. FlowInit => FlowIInv
  BY InitFlow
<1>2. FlowIInv /\ [FlowNext]_flowVars => FlowIInv'
  BY FlowStep, FlowStutter
<1> DEFINE Forward ==
             \A c \in Flows : cards[c] # NoFlow /\ cards'[c] # NoFlow /\ ~(snap.full /\ snap.step = "write") =>
               /\ cards'[c].view.stage >= cards[c].view.stage
               /\ cards[c].view.ended => cards'[c].view.ended
<1>3. FlowIInv /\ [FlowNext]_flowVars => [Forward]_flowVars
  BY CardStep DEF Advances
<1> QED
  BY <1>1, <1>2, <1>3, PTL DEF CardsOnlyAdvance

\* A card of the page never goes back to an earlier state of its connection,
\* whatever order the stream's events and the answer to the page's own
\* request reach it in (FlowLog's events and snapshot, src/flows.go; upsert
\* and applySnapshot, src/console/app.js).
THEOREM CardsNeverGoBack == FlowSpec => CardsOnlyAdvance
  BY CardsKept, PTL DEF FlowSpec
==============================================================================
