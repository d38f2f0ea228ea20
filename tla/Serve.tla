-------------------------------- MODULE Serve --------------------------------
(***************************************************************************)
(* Serving here (serve.go): a connection whose TLS ends in the proxy is    *)
(* handed to the web server of its listener in the configuration it was    *)
(* routed with, while reloads retire those servers and rename the listener *)
(* whose socket it came in on; its requests are answered by the            *)
(* configuration of the moment, after basic_auth, from a folder.           *)
(* One socket, one rule and one route; a hash is the password it is of.    *)
(***************************************************************************)
EXTENDS Naturals, FiniteSets

CONSTANTS
  Served,       \* connections
  ServeNames,
  ServeConfigs, \* [name, serves, hash, disabled]: the socket's listener and its rule
  Passwords,
  RememberFor, RememberMax, HashSlots, \* authRemember, authRememberMax, the sem of newAuthChecker
  MaxGens, MaxAuthClock, MaxRequests   \* bounds

ASSUME ServeAssumption ==
  /\ \A c \in ServeConfigs : c.name \in ServeNames /\ c.serves \in BOOLEAN /\ c.disabled \in BOOLEAN
                             /\ c.hash \in Passwords
  /\ RememberFor \in Nat /\ RememberMax \in Nat \ {0} /\ HashSlots \in Nat \ {0}
  /\ MaxGens \in Nat \ {0} /\ MaxAuthClock \in Nat /\ MaxRequests \in Nat

VARIABLES
  serveGen,        \* the number of the stored runtime
  confs,      \* the configuration of each
  reloading,  \* reload, after the store: "no", "retire", "sync"
  retired,    \* runtimes whose web servers take no more connections
  dirs,       \* each runtime's staticDir: [open, closed]
  folder,     \* whether base_dir exists
  liveName,   \* the name of the socket's listener
  sconns,     \* connections: [at, rt, killed]
  reqs,       \* the request on each: [at, rt, pw, now]
  good,       \* authChecker.good: [hash, pw, until]
  authClock, requests

serveVars == <<serveGen, confs, reloading, retired, dirs, folder, liveName, sconns, reqs, good, authClock, requests>>
runtimes == <<serveGen, confs, reloading, retired, folder, liveName>>

Gens == 1..MaxGens
NoRequest == [at |-> "none", rt |-> 1, pw |-> CHOOSE p \in Passwords : TRUE, now |-> 0]

ServeTypeOK ==
  /\ serveGen \in Gens /\ confs \in [Gens -> ServeConfigs] /\ reloading \in {"no", "retire", "sync"}
  /\ retired \subseteq Gens /\ dirs \in [Gens -> [open : BOOLEAN, closed : BOOLEAN]] /\ liveName \in ServeNames
  /\ sconns \in [Served -> [at : {"new", "handshake", "push", "retry", "served", "gone", "panic"},
                            rt : Gens, killed : BOOLEAN]]
  /\ reqs \in [Served -> [at : {"none", "auth", "hash", "remember", "allowed"}, rt : Gens,
                          pw : Passwords, now : 0..MaxAuthClock]]
  /\ good \subseteq [hash : Passwords, pw : Passwords, until : Nat] /\ Cardinality(good) <= RememberMax

\* The first runtime's folders are opened with it, if they are there.
ServeInit ==
  /\ serveGen = 1 /\ confs \in [Gens -> ServeConfigs] /\ confs[1].serves /\ liveName = confs[1].name
  /\ reloading = "no" /\ retired = {} /\ folder \in BOOLEAN
  /\ dirs = [g \in Gens |-> [open |-> g = 1 /\ folder, closed |-> FALSE]]
  /\ sconns = [c \in Served |-> [at |-> "new", rt |-> 1, killed |-> FALSE]]
  /\ reqs = [c \in Served |-> NoRequest] /\ good = {} /\ authClock = 0 /\ requests = 0

-----------------------------------------------------------------------------
(* reload: newServeState, store, retire, sync; a minute later the state is closed *)

ServeReload ==
  /\ reloading = "no" /\ serveGen < MaxGens /\ serveGen' = serveGen + 1 /\ reloading' = "retire"
  /\ dirs' = [dirs EXCEPT ![serveGen + 1].open = folder /\ confs[serveGen + 1].serves]
  /\ UNCHANGED <<confs, retired, folder, liveName, sconns, reqs, good, authClock, requests>>
RetireServers ==
  /\ reloading = "retire" /\ reloading' = "sync" /\ retired' = retired \cup {serveGen - 1}
  /\ UNCHANGED <<serveGen, confs, dirs, folder, liveName, sconns, reqs, good, authClock, requests>>
\* takeOverLocked renames the listener that holds the socket.
SyncName ==
  /\ reloading = "sync" /\ reloading' = "no" /\ liveName' = confs[serveGen].name
  /\ UNCHANGED <<serveGen, confs, retired, dirs, folder, sconns, reqs, good, authClock, requests>>
CloseState(g) ==
  /\ g \in retired /\ ~dirs[g].closed /\ dirs' = [dirs EXCEPT ![g] = [open |-> FALSE, closed |-> TRUE]]
  /\ UNCHANGED <<runtimes, sconns, reqs, good, authClock, requests>>
MakeFolder ==
  /\ ~folder /\ folder' = TRUE
  /\ UNCHANGED <<serveGen, confs, reloading, retired, dirs, liveName, sconns, reqs, good, authClock, requests>>

-----------------------------------------------------------------------------
(* serveHere *)

webFor(g, name) == confs[g].serves /\ confs[g].name = name
setConn(c, rec) == sconns' = [sconns EXCEPT ![c] = rec]
handingOver == UNCHANGED <<runtimes, dirs, good, authClock, requests>>

\* Routed by the runtime of the moment to its serving rule.
RouteServed(c) ==
  /\ sconns[c].at = "new" /\ webFor(serveGen, liveName)
  /\ setConn(c, [sconns[c] EXCEPT !.at = "handshake", !.rt = serveGen]) /\ handingOver /\ UNCHANGED reqs
\* The handshake takes its time and may fail; then served, setKill, and the stop check.
Handshaken(c) ==
  /\ sconns[c].at = "handshake"
  /\ \E at \in {"push", "gone"} : setConn(c, [sconns[c] EXCEPT !.at = at]) /\ handingOver /\ UNCHANGED reqs
KillServed(c) ==
  /\ sconns[c].at \in {"push", "retry", "served"} /\ ~sconns[c].killed
  /\ setConn(c, [sconns[c] EXCEPT !.killed = TRUE]) /\ handingOver /\ UNCHANGED reqs

\* push to the server of the runtime at hand under the listener's present
\* name; there is none under a new name.  A retired server may still accept.
pushedTo(c) ==
  IF ~webFor(sconns[c].rt, liveName) THEN {"panic"}
  ELSE {"served"} \cup IF sconns[c].rt \in retired THEN {"retry"} ELSE {}
PushServed(c) ==
  /\ sconns[c].at = "push"
  /\ \E at \in pushedTo(c) : setConn(c, [sconns[c] EXCEPT !.at = at, !.rt = IF at = "retry" THEN serveGen ELSE @])
  /\ handingOver /\ UNCHANGED reqs
RetryPush(c) ==
  /\ sconns[c].at = "retry"
  /\ setConn(c, [sconns[c] EXCEPT !.at = IF webFor(sconns[c].rt, liveName) THEN "push" ELSE "gone"])
  /\ handingOver /\ UNCHANGED reqs
\* The web server is done with it, or finds it closed.
EndServed(c) ==
  /\ sconns[c].at = "served" /\ reqs[c].at = "none" /\ setConn(c, [sconns[c] EXCEPT !.at = "gone"])
  /\ handingOver /\ UNCHANGED reqs

-----------------------------------------------------------------------------
(* serveRequest and authChecker.check *)

setReq(c, rec) == reqs' = [reqs EXCEPT ![c] = rec]
answering == UNCHANGED <<runtimes, dirs, sconns, authClock, requests>>

\* The runtime of this moment; 421, and the connection closed, if it does not
\* route the request to this connection's rule.
Request(c, pw) ==
  /\ sconns[c].at = "served" /\ ~sconns[c].killed /\ reqs[c].at = "none" /\ requests < MaxRequests
  /\ requests' = requests + 1
  /\ IF webFor(serveGen, liveName)
     THEN setReq(c, [at |-> "auth", rt |-> serveGen, pw |-> pw, now |-> authClock]) /\ UNCHANGED sconns
     ELSE setConn(c, [sconns[c] EXCEPT !.at = "gone"]) /\ UNCHANGED reqs
  /\ UNCHANGED <<runtimes, dirs, good, authClock>>

credOf(c) == confs[reqs[c].rt]
\* mutant: the hash is not part of what is remembered
rememberedByPassword(c) == \E g \in good : g.pw = reqs[c].pw /\ reqs[c].now < g.until
remembered(c) == \E g \in good : g.hash = credOf(c).hash /\ g.pw = reqs[c].pw /\ reqs[c].now < g.until
CheckAuth(c) ==
  /\ reqs[c].at = "auth"
  /\ setReq(c, IF credOf(c).disabled THEN NoRequest
               ELSE [reqs[c] EXCEPT !.at = IF remembered(c) THEN "allowed" ELSE "hash"])
  /\ answering /\ UNCHANGED good

hashing == {c \in Served : reqs[c].at = "remember"}
\* The hash is worked out between taking the slot and what follows it.
TakeSlot(c) ==
  /\ reqs[c].at = "hash" /\ Cardinality(hashing) < HashSlots
  /\ setReq(c, [reqs[c] EXCEPT !.at = "remember"]) /\ answering /\ UNCHANGED good
HashDone(c) ==
  LET key == [hash |-> credOf(c).hash, pw |-> reqs[c].pw, until |-> reqs[c].now + RememberFor]
      kept == IF Cardinality(good) >= RememberMax THEN {}
              ELSE {g \in good : g.hash # key.hash \/ g.pw # key.pw}
      matches == credOf(c).hash = reqs[c].pw
  IN /\ reqs[c].at = "remember"
     /\ setReq(c, IF matches THEN [reqs[c] EXCEPT !.at = "allowed"] ELSE NoRequest)
     /\ good' = IF matches THEN kept \cup {key} ELSE good
     /\ answering

\* staticDir.open, with the runtime the request began with: 503 without a folder.
openedAlways(d) == [d EXCEPT !.open = @ \/ folder]  \* mutant: also in a closed state
openedDir(d) == [d EXCEPT !.open = @ \/ (folder /\ ~d.closed)]
AnswerFile(c) ==
  /\ reqs[c].at = "allowed" /\ setReq(c, NoRequest)
  /\ dirs' = [dirs EXCEPT ![reqs[c].rt] = openedDir(@)]
  /\ UNCHANGED <<runtimes, sconns, good, authClock, requests>>

AuthTick ==
  /\ authClock < MaxAuthClock /\ authClock' = authClock + 1
  /\ UNCHANGED <<runtimes, dirs, sconns, reqs, good, requests>>

ConnRuns(c) == Handshaken(c) \/ PushServed(c) \/ RetryPush(c)
RequestRuns(c) == CheckAuth(c) \/ TakeSlot(c) \/ HashDone(c) \/ AnswerFile(c)
ReloadRuns == RetireServers \/ SyncName
ServeNext ==
  \/ \E c \in Served : ConnRuns(c) \/ RequestRuns(c) \/ RouteServed(c) \/ KillServed(c) \/ EndServed(c)
                       \/ \E pw \in Passwords : Request(c, pw)
  \/ ServeReload \/ ReloadRuns \/ MakeFolder \/ AuthTick \/ \E g \in Gens : CloseState(g)

\* Handlers, requests and a reload run on; who waits for a hashing slot gets
\* one (channel senders queue), hence strong fairness for requests.
ServeFairness ==
  /\ \A c \in Served : WF_serveVars(ConnRuns(c)) /\ SF_serveVars(RequestRuns(c))
  /\ WF_serveVars(ReloadRuns) /\ \A g \in Gens : WF_serveVars(CloseState(g))
ServeSpec == ServeInit /\ [][ServeNext]_serveVars /\ ServeFairness

-----------------------------------------------------------------------------
(* Properties *)

\* A request is let on only with the password of the configuration it began
\* under, for a user that is not disabled in it: a password remembered before
\* a reload changed it, or disabled its user, opens nothing.
RememberedIsCurrent ==
  \A c \in Served : reqs[c].at = "allowed" => reqs[c].pw = credOf(c).hash /\ ~credOf(c).disabled

\* A state that was closed a minute after its reload holds no folder open,
\* whichever old requests still come to it.
ClosedStateIsReleased == \A g \in Gens : dirs[g].closed => ~dirs[g].open

\* Both: requests under an old configuration neither use a password that is
\* no longer good nor hold its folders open.
ServedIsCurrent == RememberedIsCurrent /\ ClosedStateIsReleased

\* Every connection handed over is served, or closed with its reason, for as
\* long as its listener has the name it was routed under (what a rename does to
\* it is ReloadKeepsServing's), and every request is answered, however reloads
\* and slots for hashing come.
renamedUnder(c) == liveName # confs[sconns[c].rt].name
HandOverEnds ==
  \A c \in Served :
    /\ sconns[c].at \in {"handshake", "push", "retry"} ~> sconns[c].at \in {"served", "gone"} \/ renamedUnder(c)
    /\ reqs[c].at # "none" ~> reqs[c].at = "none"

\* "a reload retired that server an instant ago: the current one serves it"
\* (serve.go:389), for a connection whose port never closed
\* (listeners.go:119-122): no connection finds the web server of its listener missing
\* without being closed for it.
ReloadKeepsServing == \A c \in Served : sconns[c].at # "panic"
=============================================================================
