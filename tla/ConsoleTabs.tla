----------------------------- MODULE ConsoleTabs -----------------------------
(* The console's sign-ins and the pages it keeps up to date: login with its   *)
(* lock-out, sessions and their end (console.go), and the state frames the    *)
(* broadcast goroutine publishes to every page's WebSocket (console_rules.go).*)
(*                                                                            *)
(* What a frame holds is two things: a count that only grows (traffic), and   *)
(* whether a rule is stopped, which a page toggles.  The broadcasting queue   *)
(* (go-named-queue) is a queue per receiver that drops its oldest frame.      *)
EXTENDS Naturals, Sequences, FiniteSets, FiniteSetsExt, SequencesExt

CONSTANTS
  Pages,
  lockAfter,          \* failures in a row before the lock-out (5)
  maxLock,            \* its longest time
  sessionLifetime,
  stateQueueCapacity,
  MaxConsoleClock,    \* bound: ticks of the clock
  MaxGuesses,         \* bound: sign-ins
  MaxTraffic,         \* bound: changes that only grow
  MaxToggles          \* bound: stops and starts of the rule

ASSUME ConsoleTabsAssumption ==
  IsFiniteSet(Pages) /\ stateQueueCapacity \in Nat \ {0} /\ MaxConsoleClock \in Nat \ {0}

NoFrame == [traffic |-> 0, rule |-> "unknown"]

VARIABLES
  world,    \* what state() reads
  gate,     \* [failures, until, verifying, since, guesses]
  session,  \* page -> when its session expires, 0 without one
  now,
  socket,   \* page -> [at, queue, shown]
  stateViewers,  \* rules.count
  caster,   \* the broadcast goroutine: [at, last, frame]
  flips     \* stops and starts so far

tabVars == <<world, gate, session, now, socket, stateViewers, caster, flips>>

noSocket == [at |-> "none", queue |-> <<>>, shown |-> NoFrame]

ConsoleTabsInit ==
  /\ world = [traffic |-> 0, rule |-> "running"]
  /\ gate = [failures |-> 0, until |-> 0, verifying |-> {}, since |-> 0, guesses |-> 0]
  /\ session = [p \in Pages |-> 0]
  /\ now = 1
  /\ socket = [p \in Pages |-> noSocket]
  /\ stateViewers = 0
  /\ caster = [at |-> "sleep", last |-> NoFrame, frame |-> NoFrame]
  /\ flips = 0

(* -------------------------------- Sign-ins -------------------------------- *)

signedIn(p) == session[p] # 0 /\ now <= session[p]

\* 30 s doubling, capped: the shift stops growing before the cap does.
lockFor(failures) == Min({maxLock, 2 ^ Min({failures - lockAfter, 5})})

\* login takes verifyMu, then looks at the lock-out.
\* mutant: sign-ins are checked side by side
verifyAlways == TRUE
verifyFree == gate.verifying = {}
LoginBegin(p) ==
  /\ ~signedIn(p) /\ p \notin gate.verifying
  /\ gate.guesses < MaxGuesses
  /\ verifyFree
  /\ now >= gate.until
  /\ gate' = [gate EXCEPT !.verifying = @ \cup {p}, !.since = now, !.guesses = @ + 1]
  /\ UNCHANGED <<world, session, now, socket, stateViewers, caster, flips>>

\* The password is checked outside c.mu; expired sessions go with a success.
LoginEnd(p) ==
  /\ p \in gate.verifying
  /\ \/ /\ gate' = [gate EXCEPT !.verifying = @ \ {p}, !.failures = 0]
        /\ session' = [q \in Pages |-> IF q = p THEN now + sessionLifetime
                                       ELSE IF now > session[q] THEN 0 ELSE session[q]]
     \/ /\ LET n == gate.failures + 1
           IN gate' = [gate EXCEPT !.verifying = @ \ {p}, !.failures = n,
                                   !.until = IF n >= lockAfter THEN now + lockFor(n) ELSE @]
        /\ UNCHANGED session
  /\ UNCHANGED <<world, now, socket, stateViewers, caster, flips>>

ConsoleLogout(p) ==
  /\ signedIn(p)
  /\ session' = [session EXCEPT ![p] = 0]
  /\ UNCHANGED <<world, gate, now, socket, stateViewers, caster, flips>>

ConsoleTick ==
  /\ now < MaxConsoleClock
  /\ now' = now + 1
  /\ UNCHANGED <<world, gate, session, socket, stateViewers, caster, flips>>

(* ------------------------------- State frames ------------------------------- *)

Traffic ==
  /\ world.traffic < MaxTraffic
  /\ world' = [world EXCEPT !.traffic = @ + 1]
  /\ UNCHANGED <<gate, session, now, socket, stateViewers, caster, flips>>

\* ruleStopStart from a signed-in page.
Toggle(p) ==
  /\ signedIn(p) /\ flips < MaxToggles
  /\ world' = [world EXCEPT !.rule = IF @ = "running" THEN "stopped" ELSE "running"]
  /\ flips' = flips + 1
  /\ UNCHANGED <<gate, session, now, socket, stateViewers, caster>>

\* stateSocket: the receiver is opened at the queue's tail first ...
OpenSocket(p) ==
  /\ signedIn(p) /\ socket[p].at = "none"
  /\ socket' = [socket EXCEPT ![p] = [noSocket EXCEPT !.at = "receiver"]]
  /\ UNCHANGED <<world, gate, session, now, stateViewers, caster, flips>>

\* ... the page is counted ...
Subscribe(p) ==
  /\ socket[p].at = "receiver"
  /\ socket' = [socket EXCEPT ![p].at = "counted"]
  /\ stateViewers' = stateViewers + 1
  /\ UNCHANGED <<world, gate, session, now, caster, flips>>

\* ... and the current state is sent; frames published since follow it.
FirstFrame(p) ==
  /\ socket[p].at = "counted"
  /\ socket' = [socket EXCEPT ![p].at = "open", ![p].shown = world]
  /\ UNCHANGED <<world, gate, session, now, stateViewers, caster, flips>>

RecvFrame(p) ==
  /\ socket[p].at = "open" /\ socket[p].queue # <<>>
  /\ socket' = [socket EXCEPT ![p].shown = Head(socket[p].queue), ![p].queue = Tail(@)]
  /\ UNCHANGED <<world, gate, session, now, stateViewers, caster, flips>>

\* The watcher closes the receiver when the page left, or its session ended.
CutOff(p) ==
  /\ socket[p].at \in {"counted", "open"}
  /\ ~signedIn(p)
  /\ socket' = [socket EXCEPT ![p].at = "closing"]
  /\ session' = [session EXCEPT ![p] = 0]
  /\ UNCHANGED <<world, gate, now, stateViewers, caster, flips>>
PageLeft(p) ==
  /\ socket[p].at \in {"counted", "open"}
  /\ socket' = [socket EXCEPT ![p].at = "closing"]
  /\ UNCHANGED <<world, gate, session, now, stateViewers, caster, flips>>

Unsubscribe(p) ==
  /\ socket[p].at = "closing"
  /\ socket' = [socket EXCEPT ![p] = noSocket]
  /\ stateViewers' = stateViewers - 1
  /\ UNCHANGED <<world, gate, session, now, caster, flips>>

\* broadcast wakes on its ticker, or at once when poked: at any time here.
\* Without viewers it forgets what it published.
Wakes ==
  /\ caster.at = "sleep"
  /\ IF stateViewers = 0 THEN caster' = [caster EXCEPT !.last = NoFrame]
     ELSE caster' = [caster EXCEPT !.at = "build"]
  /\ UNCHANGED <<world, gate, session, now, socket, stateViewers, flips>>

\* frame: nothing is published if nothing changed since the last one.
BuildFrame ==
  /\ caster.at = "build"
  /\ caster' = IF world = caster.last THEN [caster EXCEPT !.at = "sleep"]
               ELSE [at |-> "send", last |-> world, frame |-> world]
  /\ UNCHANGED <<world, gate, session, now, socket, stateViewers, flips>>

\* A full queue drops its oldest frame.
\* mutant: a full queue drops the new frame
enqueueIfRoom(q, f) == IF Len(q) < stateQueueCapacity THEN Append(q, f) ELSE q
enqueue(q, f) == IF Len(q) < stateQueueCapacity THEN Append(q, f) ELSE Append(Tail(q), f)
SendFrame ==
  /\ caster.at = "send"
  /\ socket' = [p \in Pages |->
       IF socket[p].at \in {"receiver", "counted", "open"} THEN [socket[p] EXCEPT !.queue = enqueue(@, caster.frame)]
       ELSE socket[p]]
  /\ caster' = [caster EXCEPT !.at = "sleep"]
  /\ UNCHANGED <<world, gate, session, now, stateViewers, flips>>

SocketRuns(p) == Subscribe(p) \/ FirstFrame(p) \/ RecvFrame(p) \/ Unsubscribe(p)
Broadcasts == Wakes \/ BuildFrame \/ SendFrame
ConsoleTabsNext ==
  \/ \E p \in Pages : \/ LoginBegin(p) \/ LoginEnd(p) \/ ConsoleLogout(p) \/ Toggle(p)
                      \/ OpenSocket(p) \/ SocketRuns(p) \/ CutOff(p) \/ PageLeft(p)
  \/ ConsoleTick \/ Traffic \/ Broadcasts

ConsoleTabsFairness ==
  /\ \A p \in Pages : WF_tabVars(LoginEnd(p)) /\ WF_tabVars(SocketRuns(p)) /\ WF_tabVars(CutOff(p))
  /\ WF_tabVars(Broadcasts)

ConsoleTabsSpec == ConsoleTabsInit /\ [][ConsoleTabsNext]_tabVars /\ ConsoleTabsFairness

(* ------------------------------- Properties ------------------------------- *)

ConsoleTabsTypeOK ==
  /\ now \in 1..MaxConsoleClock
  /\ \A p \in Pages : Len(socket[p].queue) <= stateQueueCapacity
  /\ stateViewers = Cardinality({p \in Pages : socket[p].at \in {"counted", "open", "closing"}})

\* verifyMu: one password is hashed at a time, and none while the lock-out
\* the failures before it set runs, however many sign-ins arrive together.
GuessesAreMetered ==
  /\ Cardinality(gate.verifying) <= 1
  /\ gate.verifying # {} => gate.since >= gate.until

\* A page that shows an old count is brought up to date or closed, however
\* slow it is and whenever it subscribed; one that signed out or expired is
\* cut off.  It is about what only grows: a rule stopped and started again
\* between two frames may leave a page with the state in between.
PagesFollow ==
  \A p \in Pages :
    /\ socket[p].at = "open" /\ socket[p].shown.traffic # world.traffic ~>
         (socket[p].shown.traffic = world.traffic \/ socket[p].at # "open")
    /\ socket[p].at = "open" /\ ~signedIn(p) ~> (socket[p].at # "open" \/ signedIn(p))
==============================================================================
