----------------------------- MODULE Listeners -----------------------------
(***************************************************************************)
(* Ports (listeners.go): opened and closed to match each configuration a   *)
(* reload stores, taken over by a listener that replaces another one on    *)
(* the same addresses, stopped and started from the console.  A listener's *)
(* addresses are one model value, and two listeners conflict when theirs   *)
(* are equal.  Everything under listenersMu is one step; the console reads *)
(* the running configuration before it takes the lock.  What happens to    *)
(* the connections is module Server's.                                     *)
(***************************************************************************)
EXTENDS Naturals, Sequences, FiniteSets

CONSTANTS
  Ports,       \* names of listeners
  Addrs,       \* what a listener may be bound to
  Closed,      \* no socket, no listener
  PortConfigs, \* configurations: sequences of [name, addr], names and addresses distinct
  Elsewhere,   \* addresses other programs may hold
  MaxStores    \* bound: configurations stored after the first

ASSUME ListenersAssumption ==
  /\ Closed \notin Addrs \cup Ports \cup [addr : Addrs, sock : Addrs \cup {Closed}]
  /\ Elsewhere \subseteq Addrs /\ MaxStores \in Nat
  /\ PortConfigs \subseteq Seq([name : Ports, addr : Addrs])
  /\ \A c \in PortConfigs :
       \A i, j \in DOMAIN c : i # j => c[i].name # c[j].name /\ c[i].addr # c[j].addr

VARIABLES
  stored,   \* the stored runtime's configuration
  synced,    \* whether syncListeners has seen it
  sockets,     \* s.listeners: [addr, sock], or Closed for a name that is not there
  stoppedPorts,   \* s.stoppedListeners
  taken,     \* addresses other programs hold now
  asking,    \* the console's call: [stop, name, addr], addr as the configuration it read says
  stores

listenerVars == <<stored, synced, sockets, stoppedPorts, taken, asking, stores>>
NoAsk == [stop |-> FALSE, name |-> Closed, addr |-> Closed]

ListenersTypeOK ==
  /\ stored \in PortConfigs /\ synced \in BOOLEAN
  /\ sockets \in [Ports -> {Closed} \cup [addr : Addrs, sock : Addrs \cup {Closed}]]
  /\ stoppedPorts \subseteq Ports /\ taken \subseteq Elsewhere
  /\ asking \in [stop : BOOLEAN, name : Ports \cup {Closed}, addr : Addrs \cup {Closed}]
  /\ stores \in 0..MaxStores

ListenersInit ==
  /\ stored \in PortConfigs /\ synced = FALSE /\ sockets = [n \in Ports |-> Closed]
  /\ stoppedPorts = {} /\ taken \in SUBSET Elsewhere /\ asking = NoAsk /\ stores = 0

names(c) == {c[i].name : i \in DOMAIN c}
isOpen(live) == live # Closed /\ live.sock # Closed

-----------------------------------------------------------------------------
(* bindListener *)

inUse(ps) == taken \cup {ps[n].sock : n \in {m \in Ports : isOpen(ps[m])}}
bound(ps, addr) == IF addr \in inUse(ps) THEN Closed ELSE addr

-----------------------------------------------------------------------------
(* syncListeners: each configured listener in turn, then what is left over *)

takesOver(ps, l, want) ==
  {old \in Ports \ want : isOpen(ps[old]) /\ ps[old].addr = l.addr}

takeOverLocked(st, l, want) ==
  IF st.ports[l.name] # Closed \/ takesOver(st.ports, l, want) = {} THEN st
  ELSE LET old == CHOOSE o \in takesOver(st.ports, l, want) : TRUE
       IN [ports |-> [st.ports EXCEPT ![l.name] = st.ports[old], ![old] = Closed],
           stopped |-> st.stopped \ {old}]

keptAsIs(st, l) ==
  LET live == st.ports[l.name]
  IN live # Closed /\ live.addr = l.addr /\ (isOpen(live) \/ l.name \in st.stopped)

syncOne(st0, l, want) ==
  LET st == takeOverLocked(st0, l, want)
      shut == [st.ports EXCEPT ![l.name] = Closed]
      sock == IF l.name \in st.stopped THEN Closed ELSE bound(shut, l.addr)
  IN IF keptAsIs(st, l) THEN st
     ELSE [st EXCEPT !.ports = [shut EXCEPT ![l.name] = [addr |-> l.addr, sock |-> sock]]]

removeRestKeepsStopped(st, want) ==          \* mutant: a listener that is gone stays stopped
  [ports |-> [n \in Ports |-> IF n \in want THEN st.ports[n] ELSE Closed], stopped |-> st.stopped]
removeRest(st, want) ==
  [ports |-> [n \in Ports |-> IF n \in want THEN st.ports[n] ELSE Closed],
   stopped |-> st.stopped \cap want]

syncEach(st, c) ==
  LET after[i \in 0..Len(c)] == IF i = 0 THEN st ELSE syncOne(after[i - 1], c[i], names(c))
  IN after[Len(c)]
syncListeners(st, c) == removeRest(syncEach(st, c), names(c))

\* reload stores the runtime, then syncs.
StoreConfig ==
  /\ synced /\ stores < MaxStores /\ stores' = stores + 1
  /\ stored' \in PortConfigs \ {stored} /\ synced' = FALSE
  /\ UNCHANGED <<sockets, stoppedPorts, taken, asking>>
SyncListeners ==
  /\ ~synced /\ synced' = TRUE
  /\ LET st == syncListeners([ports |-> sockets, stopped |-> stoppedPorts], stored)
     IN sockets' = st.ports /\ stoppedPorts' = st.stopped
  /\ UNCHANGED <<stored, taken, asking, stores>>

-----------------------------------------------------------------------------
(* setListenerStopped *)

Ask(stop) ==
  /\ asking = NoAsk
  /\ \E i \in DOMAIN stored :
       asking' = [stop |-> stop, name |-> stored[i].name, addr |-> stored[i].addr]
  /\ UNCHANGED <<stored, synced, sockets, stoppedPorts, taken, stores>>

SetStopped ==
  LET n == asking.name
      live == sockets[n]
      sock == bound(sockets, asking.addr)
  IN /\ asking # NoAsk /\ asking' = NoAsk
     /\ \/ live = Closed /\ UNCHANGED <<sockets, stoppedPorts>>
        \/ /\ live # Closed /\ asking.stop
           /\ stoppedPorts' = stoppedPorts \cup {n} /\ sockets' = [sockets EXCEPT ![n].sock = Closed]
        \/ /\ live # Closed /\ ~asking.stop /\ ~isOpen(live) /\ sockets' = [sockets EXCEPT ![n].sock = sock]
           /\ stoppedPorts' = IF sock = Closed THEN stoppedPorts ELSE stoppedPorts \ {n}
        \/ /\ live # Closed /\ ~asking.stop /\ isOpen(live) /\ stoppedPorts' = stoppedPorts \ {n}
           /\ UNCHANGED sockets
     /\ UNCHANGED <<stored, synced, taken, stores>>

\* Other programs open and close ports as they like.
OthersBind ==
  /\ \E a \in Elsewhere : \/ a \in taken /\ taken' = taken \ {a}
                          \/ a \notin inUse(sockets) /\ taken' = taken \cup {a}
  /\ UNCHANGED <<stored, synced, sockets, stoppedPorts, asking, stores>>

ListenersNext == \/ StoreConfig \/ SyncListeners \/ SetStopped \/ OthersBind
                 \/ \E stop \in BOOLEAN : Ask(stop)
ListenersSpec == ListenersInit /\ [][ListenersNext]_listenerVars

-----------------------------------------------------------------------------
(* Properties *)

\* Once a configuration is in place, the ports that are open are those of its
\* listeners that are not stopped, each address held once; a listener that is
\* gone leaves neither a socket nor a mark that would keep a later listener of
\* its name shut.
PortsFollowConfig ==
  /\ \A n \in Ports : n \in stoppedPorts => ~isOpen(sockets[n])
  /\ \A m, n \in Ports : m # n /\ isOpen(sockets[m]) /\ isOpen(sockets[n]) => sockets[m].sock # sockets[n].sock
  /\ synced => \A n \in Ports : n \notin names(stored) => sockets[n] = Closed /\ n \notin stoppedPorts
=============================================================================
