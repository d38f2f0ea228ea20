---------------------------- MODULE CertManager ----------------------------
(***************************************************************************)
(* The certificate manager of certs.go: automatic certificates for the     *)
(* rules that terminate TLS.                                               *)
(*                                                                         *)
(* Actors: the config watcher (Apply), one background worker, one          *)
(* goroutine per certificate job, handshakes that propose names, the       *)
(* console (RemoveCertificate, RetryNow), time, and a crash of the         *)
(* process.  A step is one critical section of m.mu (its unlock publishes  *)
(* the view handshakes read, so the view always equals the maps), one      *)
(* write to disk, or one answer from the outside.                          *)
(*                                                                         *)
(* A configuration is identified by its place in applied, which stands for *)
(* the *Config pointer: m.cfg is the last one.  Apply cancels the previous *)
(* configuration's context in the section that replaces m.cfg, so the code *)
(* test  m.cfg != cfg || ctx.Err() != nil  is ~Current(i).                 *)
(***************************************************************************)
EXTENDS Naturals, Sequences, FiniteSets

CONSTANTS
  Names,            \* host names
  Configs,          \* contents a configuration file may have
  AutoDomains,      \* Configs -> SUBSET Names: cert_domains of cert: auto rules
  ScriptNames,      \* Configs -> SUBSET Names: names with scriptFor(cfg, d) # ""
  Goroutines,       \* identities of job goroutines
  Handshakes,       \* identities of handshakes about to propose a name
  maxParallelJobs, maxCandidates, maxRejected, certAttempts,
  ProposalCap,      \* what the proposals ring holds
  MaxApplies,       \* bound: configurations applied by one process
  MaxIssued,        \* bound: certificates issued
  MaxCrashes,       \* bound: crashes
  MaxConsole,       \* bound: removals and retries from the console
  None              \* no name

ASSUME ConfigAssumption ==
  /\ AutoDomains \in [Configs -> SUBSET Names]
  /\ ScriptNames \in [Configs -> SUBSET Names]

ASSUME LimitAssumption ==
  /\ maxParallelJobs \in Nat \ {0}
  /\ maxCandidates \in Nat \ {0}
  /\ maxRejected \in Nat \ {0}
  /\ certAttempts \in Nat \ {0}
  /\ ProposalCap \in Nat \ {0}

ASSUME BoundAssumption ==
  /\ MaxApplies \in Nat /\ MaxIssued \in Nat /\ MaxCrashes \in Nat /\ MaxConsole \in Nat

ASSUME NoneAssumption == None \notin Names

VARIABLES
  applied,          \* configurations applied so far; the last one is m.cfg
  auto,             \* Names -> serial of the certificate in use, 0 = none
  challenges,       \* names with a pending TLS-ALPN-01 answer
  waiting,          \* names whose nextTry is still ahead
  lastError,        \* names whose lastError is set
  announced,        \* names whose status was logged
  dynamic,          \* names a script accepted
  candidates,       \* names waiting for a script's answer
  rejected,         \* Names -> "no" | "hot" (before its time) | "cold" (past it)
  inFlight,         \* names with a job running
  proposals,        \* the ring of names handshakes ask about
  wake              \* the one-place wake channel holds a token

VARIABLES           \* on disk, <cert_root>/acme/<name>
  dirs,             \* names whose folder exists
  diskKey,          \* Names -> serial of key.pem, 0 = none
  diskCert          \* Names -> serial of cert.pem, 0 = none

VARIABLES           \* program counters and locals
  apc, aTodo, aRead,                 \* Apply: where, names still to load, <<name, serial>> read
  wpc, wcfg, wJobs,                  \* worker: where, its cfg, the jobs it listed
  hpc, hname,                        \* handshakes: where, the name to push
  jpc, jname, jcfg, jatt, jusable, jserial, jout  \* jobs

VARIABLES           \* certificates, time and bounds
  issued,           \* serials handed out
  age,              \* serial -> "fresh" | "due" | "expired"
  crashes, consoleOps,
  conWake           \* a console operation has yet to signal wake

VARIABLES           \* history, read by properties only
  timeDue           \* names time made due since the worker listed its jobs

maps     == <<auto, challenges, waiting, lastError, announced, dynamic, candidates, rejected, inFlight>>
disk     == <<dirs, diskKey, diskCert>>
applier  == <<apc, aTodo, aRead>>
worker   == <<wpc, wcfg, wJobs>>
shakes   == <<hpc, hname>>
jobs     == <<jpc, jname, jcfg, jatt, jusable, jserial, jout>>
world    == <<issued, age>>
bounds   == <<crashes, consoleOps, conWake>>
history  == <<timeDue>>
vars == <<applied, maps, proposals, wake, disk, applier, worker, shakes, jobs, world, bounds, history>>

Serials == 1..MaxIssued
Installing == {"writekey", "writecert", "commit"}

-----------------------------------------------------------------------------
\* What the code's tests read.

Current(i) == i = Len(applied)                 \* m.cfg == cfg /\ ctx.Err() == nil
Conf(i)    == applied[i]
Managed(i) == AutoDomains[Conf(i)] \cup dynamic             \* managedLocked
Usable(c)  == c # 0 /\ age[c] # "expired"
Missing(c) == c = 0 \/ age[c] = "expired"                   \* an urgent job
Due(c)     == c # 0 /\ age[c] = "due"                       \* past renewAt
Loadable(d) == diskCert[d] # 0 /\ diskKey[d] = diskCert[d]  \* loadDirCert succeeds

\* applyMu is held by a running Apply and by installCertificate.
ApplyMuFreeAnyway == apc = "idle"           \* mutant: installs do not take it
ApplyMuFree == apc = "idle" /\ \A g \in Goroutines : jpc[g] \notin Installing

\* What pendingJobs lists, and in which order: <<d, 1>> a managed name with no
\* usable certificate, <<d, 2>> a candidate, <<d, 3>> and <<d, 4>> the same two
\* for a certificate due for renewal (the code sorts those by due date, here in
\* any order).  A name both managed and a candidate is listed twice.
needsJob(d) == d \notin inFlight /\ d \notin waiting
listedNeverIssued(i) == {<<d, 1>> : d \in {x \in Managed(i) : needsJob(x) /\ auto[x] = 0}}  \* mutant: expired ones forgotten
listed(i) ==
       {<<d, 1>> : d \in {x \in Managed(i) : needsJob(x) /\ Missing(auto[x])}}
  \cup {<<d, 2>> : d \in {x \in candidates : needsJob(x) /\ Missing(auto[x])}}
  \cup {<<d, 3>> : d \in {x \in Managed(i) : needsJob(x) /\ Due(auto[x])}}
  \cup {<<d, 4>> : d \in {x \in candidates : needsJob(x) /\ Due(auto[x])}}
NextListed ==
  {e \in wJobs : \A f \in wJobs : e[2] <= f[2] \/ (e[2] = 4 /\ f[2] = 3)}

Init ==
  /\ applied = <<>>
  /\ auto = [d \in Names |-> 0]
  /\ challenges = {} /\ waiting = {} /\ lastError = {} /\ announced = {}
  /\ dynamic = {} /\ candidates = {} /\ inFlight = {}
  /\ rejected = [d \in Names |-> "no"]
  /\ proposals = <<>> /\ wake = FALSE
  /\ dirs = {} /\ diskKey = [d \in Names |-> 0] /\ diskCert = [d \in Names |-> 0]
  /\ apc = "idle" /\ aTodo = {} /\ aRead = <<None, 0>>
  /\ wpc = "off" /\ wcfg = 0 /\ wJobs = {}
  /\ hpc = [h \in Handshakes |-> "serve"] /\ hname = [h \in Handshakes |-> None]
  /\ jpc = [g \in Goroutines |-> "idle"] /\ jname = [g \in Goroutines |-> None]
  /\ jcfg = [g \in Goroutines |-> 0] /\ jatt = [g \in Goroutines |-> 0]
  /\ jusable = [g \in Goroutines |-> FALSE] /\ jserial = [g \in Goroutines |-> 0]
  /\ jout = [g \in Goroutines |-> "none"]
  /\ issued = 0 /\ age = [s \in Serials |-> "fresh"]
  /\ crashes = 0 /\ consoleOps = 0 /\ conWake = FALSE
  /\ timeDue = {}

-----------------------------------------------------------------------------
\* Apply, called by the config watcher (and once before anything else runs).
\* A configuration whose CAs or scripts cannot be used returns an error before
\* the first assignment and is a stuttering step.

\* The section that makes c current: refusals are forgotten, names no script
\* covers are let go, folders left by earlier runs become candidates.
scriptCoversAnyway(S, c) == S               \* mutant: names are never let go
scriptCovers(S, c) == S \cap ScriptNames[c]

ApplyBegin(c) ==
  /\ ApplyMuFree
  /\ Len(applied) < MaxApplies
  /\ applied' = Append(applied, c)
  /\ rejected' = [d \in Names |-> "no"]
  /\ dynamic' = scriptCovers(dynamic, c)
  /\ candidates' = scriptCovers(candidates, c) \cup ((dirs \cap ScriptNames[c]) \ dynamic')
  /\ apc' = "load" /\ aTodo' = AutoDomains[c]
  /\ UNCHANGED <<auto, challenges, waiting, lastError, announced, inFlight, proposals, wake, disk,
                 aRead, worker, shakes, jobs, world, bounds, history>>

\* loadAutoFromDisk reads the files without m.mu ...
ApplyRead(d) ==
  /\ apc = "load" /\ d \in aTodo
  /\ aTodo' = aTodo \ {d}
  /\ apc' = IF Loadable(d) THEN "store" ELSE "load"
  /\ aRead' = IF Loadable(d) THEN <<d, diskCert[d]>> ELSE aRead
  /\ UNCHANGED <<applied, maps, proposals, wake, disk, worker, shakes, jobs, world, bounds, history>>

\* ... and stores what it parsed in a section of its own.
ApplyStore ==
  /\ apc = "store"
  /\ auto' = [auto EXCEPT ![aRead[1]] = aRead[2]]
  /\ apc' = "load" /\ aRead' = <<None, 0>>
  /\ UNCHANGED <<applied, challenges, waiting, lastError, announced, dynamic, candidates, rejected, inFlight,
                 proposals, wake, disk, aTodo, worker, shakes, jobs, world, bounds, history>>

\* announce: names no longer managed lose their wait and their error.
announceKeepsWait(i) ==                     \* mutant: the wait outlives the name
  /\ announced' = Managed(i)
  /\ lastError' = lastError \ (announced \ Managed(i))
  /\ waiting' = waiting
announce(i) ==
  LET gone == announced \ Managed(i) IN
  /\ announced' = Managed(i)
  /\ waiting' = waiting \ gone
  /\ lastError' = lastError \ gone

ApplyEnd ==
  /\ apc = "load" /\ aTodo = {}
  /\ announce(Len(applied))
  /\ apc' = "wake"
  /\ UNCHANGED <<applied, auto, challenges, dynamic, candidates, rejected, inFlight, proposals, wake, disk,
                 aTodo, aRead, worker, shakes, jobs, world, bounds, history>>

\* The non-blocking send on wake, still under applyMu.
ApplyWake ==
  /\ apc = "wake"
  /\ wake' = TRUE
  /\ apc' = "idle"
  /\ UNCHANGED <<applied, maps, proposals, disk, aTodo, aRead, worker, shakes, jobs, world, bounds, history>>

\* Start launches the worker, once, after the first Apply.
Start ==
  /\ wpc = "off" /\ apc = "idle" /\ applied # <<>>
  /\ wpc' = "take"
  /\ UNCHANGED <<applied, maps, proposals, wake, disk, applier, wcfg, wJobs, shakes, jobs, world, bounds, history>>

-----------------------------------------------------------------------------
\* CertificateForClient: a handshake reads the published view (one load) and
\* decides whether to propose the name.  Its rule comes from the runtime the
\* connection started with, which may be any configuration applied so far.
HandshakeLoad(h, d) ==
  /\ wpc # "off" /\ hpc[h] = "serve"
  /\ \E i \in 1..Len(applied) : d \in ScriptNames[Conf(i)]
  /\ auto[d] = 0 /\ d \notin dynamic \cup candidates /\ rejected[d] # "hot"
  /\ hpc' = [hpc EXCEPT ![h] = "push"]
  /\ hname' = [hname EXCEPT ![h] = d]
  /\ UNCHANGED <<applied, maps, proposals, wake, disk, applier, worker, jobs, world, bounds, history>>

\* proposals.TryPush: a full ring drops the name.
HandshakePush(h) ==
  /\ hpc[h] = "push"
  /\ hname' = [hname EXCEPT ![h] = None]
  /\ IF Len(proposals) < ProposalCap
       THEN proposals' = Append(proposals, hname[h]) /\ hpc' = [hpc EXCEPT ![h] = "wake"]
       ELSE hpc' = [hpc EXCEPT ![h] = "serve"] /\ UNCHANGED proposals
  /\ UNCHANGED <<applied, maps, wake, disk, applier, worker, jobs, world, bounds, history>>

HandshakeWakeLost(h) ==                     \* mutant: no wake-up after the push
  /\ hpc[h] = "wake"
  /\ hpc' = [hpc EXCEPT ![h] = "serve"]
  /\ UNCHANGED <<applied, maps, proposals, wake, disk, applier, worker, hname, jobs, world, bounds, history>>
HandshakeWake(h) ==
  /\ hpc[h] = "wake"
  /\ wake' = TRUE
  /\ hpc' = [hpc EXCEPT ![h] = "serve"]
  /\ UNCHANGED <<applied, maps, proposals, disk, applier, worker, hname, jobs, world, bounds, history>>

-----------------------------------------------------------------------------
\* The worker loop.

\* takeProposals: pop one name and, unless it is known, propose it: a name no
\* script covers, or one too many, is dropped.
TakeProposal ==
  /\ wpc = "take" /\ proposals # <<>>
  /\ LET d == Head(proposals)
         known == d \in candidates \cup dynamic
         queued == /\ ~known
                   /\ d \in ScriptNames[Conf(Len(applied))]
                   /\ Cardinality(candidates) < maxCandidates
     IN /\ candidates' = IF queued THEN candidates \cup {d} ELSE candidates
        /\ wake' = (wake \/ queued)
  /\ proposals' = Tail(proposals)
  /\ UNCHANGED <<applied, auto, challenges, waiting, lastError, announced, dynamic, rejected, inFlight,
                 disk, applier, worker, shakes, jobs, world, bounds, history>>

\* The ring is empty: go on with the configuration current now.
ReadConfig ==
  /\ wpc = "take" /\ proposals = <<>>
  /\ wcfg' = Len(applied) /\ wpc' = "adopt"
  /\ UNCHANGED <<applied, maps, proposals, wake, disk, applier, wJobs, shakes, jobs, world, bounds, history>>

\* adoptCandidates: a candidate whose certificate on disk is still good needs
\* no decision; one no script covers is dropped.
adoptCandidates ==
  /\ wpc = "adopt"
  /\ wpc' = "announce"
  /\ LET S == IF Current(wcfg) THEN candidates ELSE {}
         good == {d \in S : d \in ScriptNames[Conf(wcfg)] /\ Loadable(d) /\ Usable(diskCert[d])}
     IN /\ auto' = [d \in Names |-> IF d \in good THEN diskCert[d] ELSE auto[d]]
        /\ dynamic' = dynamic \cup good
        /\ candidates' = candidates \ (good \cup {d \in S : d \notin ScriptNames[Conf(wcfg)]})
  /\ UNCHANGED <<applied, challenges, waiting, lastError, announced, rejected, inFlight, proposals, wake,
                 disk, applier, wcfg, wJobs, shakes, jobs, world, bounds, history>>

WorkerAnnounce ==
  /\ wpc = "announce"
  /\ wpc' = "list"
  /\ IF Current(wcfg) THEN announce(wcfg) ELSE UNCHANGED <<announced, waiting, lastError>>
  /\ UNCHANGED <<applied, auto, challenges, dynamic, candidates, rejected, inFlight, proposals, wake,
                 disk, applier, wcfg, wJobs, shakes, jobs, world, bounds, history>>

\* pendingJobs lists the names of m.cfg (not of the cfg read above).
pendingJobs ==
  /\ wpc = "list"
  /\ wJobs' = listed(Len(applied))
  /\ wpc' = "start"
  /\ UNCHANGED <<applied, maps, proposals, wake, disk, applier, wcfg, shakes, jobs, world, bounds, history>>

canStartOneMore(d) ==                       \* mutant: one job over the limit
  Current(wcfg) /\ d \notin inFlight /\ Cardinality(inFlight) <= maxParallelJobs
canStart(d) ==
  Current(wcfg) /\ d \notin inFlight /\ Cardinality(inFlight) < maxParallelJobs

\* startJob for the next job of the list: the name is in flight from here on.
startJob(e, g) ==
  /\ wpc = "start" /\ e \in NextListed /\ canStart(e[1])
  /\ jpc[g] = "idle"
  /\ inFlight' = inFlight \cup {e[1]}
  /\ jpc' = [jpc EXCEPT ![g] = "begin"]
  /\ jname' = [jname EXCEPT ![g] = e[1]]
  /\ jcfg' = [jcfg EXCEPT ![g] = wcfg]
  /\ wJobs' = wJobs \ {e}
  /\ UNCHANGED <<applied, auto, challenges, waiting, lastError, announced, dynamic, candidates, rejected,
                 proposals, wake, disk, applier, wpc, wcfg, shakes, jatt, jusable, jserial, jout, world, bounds, history>>

\* The list is done, or startJob refused one of it (a new configuration, the
\* name already in flight, every slot taken), which ends the loop: wait.
WorkerSleep ==
  /\ wpc = "start"
  /\ wJobs = {} \/ \E e \in NextListed : ~canStart(e[1])
  /\ wpc' = "select" /\ wJobs' = {}
  /\ UNCHANGED <<applied, maps, proposals, wake, disk, applier, wcfg, shakes, jobs, world, bounds, history>>

WorkerWoken ==
  /\ wpc = "select" /\ wake
  /\ wake' = FALSE /\ wpc' = "take" /\ timeDue' = {}
  /\ UNCHANGED <<applied, maps, proposals, disk, applier, wcfg, wJobs, shakes, jobs, world, bounds>>

\* checkInterval passed.
WorkerTimer ==
  /\ wpc = "select"
  /\ wpc' = "take" /\ timeDue' = {}
  /\ UNCHANGED <<applied, maps, proposals, wake, disk, applier, wcfg, wJobs, shakes, jobs, world, bounds>>

-----------------------------------------------------------------------------
\* One job: runJobContext, scriptAllows, issue and installCertificate.

\* A configuration replaced since startJob: nothing is done.
JobBegin(g) ==
  /\ jpc[g] = "begin"
  /\ jatt' = [jatt EXCEPT ![g] = 1]
  /\ jusable' = [jusable EXCEPT ![g] = jname[g] \notin AutoDomains[Conf(jcfg[g])] /\ Usable(auto[jname[g]])]
  /\ jpc' = [jpc EXCEPT ![g] = IF ~Current(jcfg[g]) THEN "exit"
                               ELSE IF jname[g] \in AutoDomains[Conf(jcfg[g])] THEN "issue" ELSE "asking"]
  /\ UNCHANGED <<applied, maps, proposals, wake, disk, applier, worker, shakes, jname, jcfg, jserial, jout, world, bounds, history>>

\* scriptAllows, the script's answer: an exit status other than 0, a timeout
\* or no answer is a refusal.  An answer under an old configuration is void.
ScriptStale(g) ==
  /\ jpc[g] = "asking" /\ ~Current(jcfg[g])
  /\ jpc' = [jpc EXCEPT ![g] = "exit"]
  /\ UNCHANGED <<applied, maps, proposals, wake, disk, applier, worker, shakes, jname, jcfg, jatt, jusable, jserial, jout, world, bounds, history>>

ScriptAccepts(g) ==
  /\ jpc[g] = "asking" /\ Current(jcfg[g])
  /\ candidates' = candidates \ {jname[g]}
  /\ dynamic' = dynamic \cup {jname[g]}
  /\ jpc' = [jpc EXCEPT ![g] = "issue"]
  /\ UNCHANGED <<applied, auto, challenges, waiting, lastError, announced, rejected, inFlight, proposals, wake,
                 disk, applier, worker, shakes, jname, jcfg, jatt, jusable, jserial, jout, world, bounds, history>>

keepsCertificateNever(g) == FALSE           \* mutant: a refusal always drops it
keepsCertificate(g) == jusable[g]

\* Refused while the certificate is still good: it is kept, asked again later.
ScriptRefusesRenewal(g) ==
  /\ jpc[g] = "asking" /\ Current(jcfg[g]) /\ keepsCertificate(g)
  /\ waiting' = waiting \cup {jname[g]}
  /\ lastError' = lastError \cup {jname[g]}
  /\ jpc' = [jpc EXCEPT ![g] = "exit"]
  /\ UNCHANGED <<applied, auto, challenges, announced, dynamic, candidates, rejected, inFlight, proposals, wake,
                 disk, applier, worker, shakes, jname, jcfg, jatt, jusable, jserial, jout, world, bounds, history>>

\* Refused with nothing to serve: the name is let go and remembered as refused.
ScriptRefuses(g) ==
  /\ jpc[g] = "asking" /\ Current(jcfg[g]) /\ ~keepsCertificate(g)
  /\ LET d == jname[g]
         full == Cardinality({x \in Names : rejected[x] # "no"}) >= maxRejected
     IN /\ candidates' = candidates \ {d}
        /\ dynamic' = dynamic \ {d}
        /\ auto' = [auto EXCEPT ![d] = 0]
        /\ waiting' = waiting \ {d}
        /\ lastError' = lastError \ {d}
        /\ rejected' = [x \in Names |-> IF x = d THEN "hot" ELSE IF full THEN "no" ELSE rejected[x]]
  /\ jpc' = [jpc EXCEPT ![g] = "exit"]
  /\ UNCHANGED <<applied, challenges, announced, inFlight, proposals, wake,
                 disk, applier, worker, shakes, jname, jcfg, jatt, jusable, jserial, jout, world, bounds, history>>

\* issue and installCertificate: g has nothing more to do in this attempt.
attemptEnds(g, out) ==
  /\ jout' = [jout EXCEPT ![g] = out]
  /\ jpc' = [jpc EXCEPT ![g] = "return"]
  /\ jserial' = [jserial EXCEPT ![g] = 0]

\* An error anywhere before the installation: DNS, the network, the CA, the
\* attempt's timeout, or the configuration's context cancelled.
\* A DNS mismatch and a validation the CA rejected are permanent.
IssueFails(g, out) ==
  /\ \/ jpc[g] \in {"issue", "validating"}
     \/ jpc[g] = "finalize" /\ out = "temp"
  /\ attemptEnds(g, out)
  /\ UNCHANGED <<applied, maps, proposals, wake, disk, applier, worker, shakes, jname, jcfg, jatt, jusable, world, bounds, history>>

\* The TLS-ALPN-01 answer is published, unless the configuration was replaced.
IssueChallenge(g) ==
  /\ jpc[g] = "issue" /\ Current(jcfg[g])
  /\ challenges' = challenges \cup {jname[g]}
  /\ jpc' = [jpc EXCEPT ![g] = "validating"]
  /\ UNCHANGED <<applied, auto, waiting, lastError, announced, dynamic, candidates, rejected, inFlight, proposals,
                 wake, disk, applier, worker, shakes, jname, jcfg, jatt, jusable, jserial, jout, world, bounds, history>>

\* The CA validated the name, or still holds an earlier authorization valid.
IssueAuthorized(g) ==
  /\ jpc[g] \in {"issue", "validating"}
  /\ jpc' = [jpc EXCEPT ![g] = "finalize"]
  /\ UNCHANGED <<applied, maps, proposals, wake, disk, applier, worker, shakes, jname, jcfg, jatt, jusable,
                 jserial, jout, world, bounds, history>>

\* CreateOrderCert: the CA issues certificate and key number issued + 1.
IssueFinalize(g) ==
  /\ jpc[g] = "finalize" /\ issued < MaxIssued
  /\ issued' = issued + 1
  /\ jserial' = [jserial EXCEPT ![g] = issued + 1]
  /\ jpc' = [jpc EXCEPT ![g] = "install"]
  /\ UNCHANGED <<applied, maps, proposals, wake, disk, applier, worker, shakes, jname, jcfg, jatt, jusable,
                 jout, age, bounds, history>>

\* installCertificate takes applyMu and gives up if the configuration changed
\* (or the attempt timed out while it waited for the lock) ...
InstallRefused(g) ==
  /\ jpc[g] = "install" /\ ApplyMuFree
  /\ attemptEnds(g, "temp")
  /\ UNCHANGED <<applied, maps, proposals, wake, disk, applier, worker, shakes, jname, jcfg, jatt, jusable, world, bounds, history>>

mayInstallStale(g) == ApplyMuFree           \* mutant: no look at the configuration
mayInstallMeanwhile(g) == Current(jcfg[g])  \* mutant: applyMu is not taken
mayInstall(g) == ApplyMuFree /\ Current(jcfg[g])

\* ... otherwise it keeps applyMu until it returns: the folder is made,
InstallBegin(g) ==
  /\ jpc[g] = "install" /\ mayInstall(g)
  /\ dirs' = dirs \cup {jname[g]}
  /\ jpc' = [jpc EXCEPT ![g] = "writekey"]
  /\ UNCHANGED <<applied, maps, proposals, wake, diskKey, diskCert, applier, worker, shakes, jname, jcfg, jatt,
                 jusable, jserial, jout, world, bounds, history>>

\* then key.pem, then cert.pem, each replaced atomically,
WriteKeyEager(g) ==                         \* mutant: in use before it is on disk
  /\ jpc[g] = "writekey"
  /\ auto' = [auto EXCEPT ![jname[g]] = jserial[g]]
  /\ diskKey' = [diskKey EXCEPT ![jname[g]] = jserial[g]]
  /\ jpc' = [jpc EXCEPT ![g] = "writecert"]
  /\ UNCHANGED <<applied, challenges, waiting, lastError, announced, dynamic, candidates, rejected, inFlight,
                 proposals, wake, dirs, diskCert, applier, worker, shakes, jname, jcfg, jatt,
                 jusable, jserial, jout, world, bounds, history>>
WriteKey(g) ==
  /\ jpc[g] = "writekey"
  /\ diskKey' = [diskKey EXCEPT ![jname[g]] = jserial[g]]
  /\ jpc' = [jpc EXCEPT ![g] = "writecert"]
  /\ UNCHANGED <<applied, maps, proposals, wake, dirs, diskCert, applier, worker, shakes, jname, jcfg, jatt,
                 jusable, jserial, jout, world, bounds, history>>

WriteCert(g) ==
  /\ jpc[g] = "writecert"
  /\ diskCert' = [diskCert EXCEPT ![jname[g]] = jserial[g]]
  /\ jpc' = [jpc EXCEPT ![g] = "commit"]
  /\ UNCHANGED <<applied, maps, proposals, wake, dirs, diskKey, applier, worker, shakes, jname, jcfg, jatt,
                 jusable, jserial, jout, world, bounds, history>>

\* and what was written is loaded back and put to use.
InstallCommit(g) ==
  /\ jpc[g] = "commit" /\ Loadable(jname[g])
  /\ auto' = [auto EXCEPT ![jname[g]] = diskCert[jname[g]]]
  /\ announced' = announced \cup {jname[g]}
  /\ attemptEnds(g, "ok")
  /\ UNCHANGED <<applied, challenges, waiting, lastError, dynamic, candidates, rejected, inFlight, proposals,
                 wake, disk, applier, worker, shakes, jname, jcfg, jatt, jusable, world, bounds, history>>

\* Any of these file operations may fail.
InstallFails(g) ==
  /\ jpc[g] \in Installing
  /\ attemptEnds(g, "temp")
  /\ UNCHANGED <<applied, maps, proposals, wake, disk, applier, worker, shakes, jname, jcfg, jatt, jusable, world, bounds, history>>

\* Where runJobContext goes when issue has returned.
afterAttemptOneMore(g) ==                   \* mutant: one attempt too many
  IF ~Current(jcfg[g]) THEN "exit"
  ELSE IF jout[g] = "temp" /\ jatt[g] <= certAttempts THEN "backoff" ELSE "finish"
afterAttemptUncounted(g) ==                 \* mutant: attempts are not counted
  IF ~Current(jcfg[g]) THEN "exit" ELSE IF jout[g] = "temp" THEN "issue" ELSE "finish"
afterAttempt(g) ==
  IF ~Current(jcfg[g]) THEN "exit"
  ELSE IF jout[g] = "temp" /\ jatt[g] < certAttempts THEN "backoff" ELSE "finish"

withdrawLate(g) == IF Current(jcfg[g]) THEN challenges \ {jname[g]} ELSE challenges  \* mutant: not on cancellation
withdraw(g) == challenges \ {jname[g]}

\* issue returns: its deferred call withdraws the challenge.  A replaced
\* configuration ends the job, a temporary error is tried again.
IssueReturn(g) ==
  /\ jpc[g] = "return"
  /\ challenges' = withdraw(g)
  /\ jpc' = [jpc EXCEPT ![g] = afterAttempt(g)]
  /\ UNCHANGED <<applied, auto, waiting, lastError, announced, dynamic, candidates, rejected, inFlight, proposals,
                 wake, disk, applier, worker, shakes, jname, jcfg, jatt, jusable, jserial, jout, world, bounds, history>>

\* waitForRetry, and the context test before the next attempt.
Backoff(g) ==
  /\ jpc[g] = "backoff"
  /\ jatt' = [jatt EXCEPT ![g] = @ + 1]
  /\ jout' = [jout EXCEPT ![g] = "none"]
  /\ jpc' = [jpc EXCEPT ![g] = IF Current(jcfg[g]) THEN "issue" ELSE "exit"]
  /\ UNCHANGED <<applied, maps, proposals, wake, disk, applier, worker, shakes, jname, jcfg, jusable, jserial,
                 world, bounds, history>>

\* runJobContext's last section records the outcome, under the job's own
\* configuration only.
JobFinish(g) ==
  /\ jpc[g] = "finish"
  /\ jpc' = [jpc EXCEPT ![g] = "exit"]
  /\ IF ~Current(jcfg[g]) THEN UNCHANGED <<waiting, lastError>>
     ELSE IF jout[g] = "ok"
            THEN waiting' = waiting \ {jname[g]} /\ lastError' = lastError \ {jname[g]}
            ELSE waiting' = waiting \cup {jname[g]} /\ lastError' = lastError \cup {jname[g]}
  /\ UNCHANGED <<applied, auto, challenges, announced, dynamic, candidates, rejected, inFlight, proposals, wake,
                 disk, applier, worker, shakes, jname, jcfg, jatt, jusable, jserial, jout, world, bounds, history>>

\* startJob's deferred function: the name is free again, then the worker is
\* woken.
JobRelease(g) ==
  /\ jpc[g] = "exit"
  /\ inFlight' = inFlight \ {jname[g]}
  /\ jpc' = [jpc EXCEPT ![g] = "wake"]
  /\ jname' = [jname EXCEPT ![g] = None] /\ jcfg' = [jcfg EXCEPT ![g] = 0]
  /\ jatt' = [jatt EXCEPT ![g] = 0] /\ jusable' = [jusable EXCEPT ![g] = FALSE]
  /\ jout' = [jout EXCEPT ![g] = "none"]
  /\ UNCHANGED <<applied, auto, challenges, waiting, lastError, announced, dynamic, candidates, rejected, proposals,
                 wake, disk, applier, worker, shakes, jserial, world, bounds, history>>

JobWakeLost(g) ==                           \* mutant: nobody is told the slot is free
  /\ jpc[g] = "wake"
  /\ jpc' = [jpc EXCEPT ![g] = "idle"]
  /\ UNCHANGED <<applied, maps, proposals, wake, disk, applier, worker, shakes, jname, jcfg, jatt, jusable, jserial,
                 jout, world, bounds, history>>
JobWake(g) ==
  /\ jpc[g] = "wake"
  /\ wake' = TRUE
  /\ jpc' = [jpc EXCEPT ![g] = "idle"]
  /\ UNCHANGED <<applied, maps, proposals, disk, applier, worker, shakes, jname, jcfg, jatt, jusable, jserial,
                 jout, world, bounds, history>>

-----------------------------------------------------------------------------
\* The console.

autoRemovable(d) ==
  IF auto[d] = 0 THEN d \in dirs ELSE d \in lastError \/ age[auto[d]] = "expired"

\* RemoveCertificate: the folder goes to the archive, the name is forgotten.
RemoveCertificate(d) ==
  /\ consoleOps < MaxConsole /\ applied # <<>>
  /\ d \in Managed(Len(applied)) /\ d \notin inFlight /\ autoRemovable(d)
  /\ dirs' = dirs \ {d}
  /\ diskKey' = [diskKey EXCEPT ![d] = 0] /\ diskCert' = [diskCert EXCEPT ![d] = 0]
  /\ auto' = [auto EXCEPT ![d] = 0]
  /\ dynamic' = dynamic \ {d} /\ waiting' = waiting \ {d} /\ lastError' = lastError \ {d}
  /\ conWake' = TRUE /\ consoleOps' = consoleOps + 1
  /\ UNCHANGED <<applied, challenges, announced, candidates, rejected, inFlight, proposals, wake, applier, worker,
                 shakes, jobs, world, crashes, history>>

RetryNow(d) ==
  /\ consoleOps < MaxConsole /\ applied # <<>>
  /\ d \in Managed(Len(applied))
  /\ waiting' = waiting \ {d}
  /\ conWake' = TRUE /\ consoleOps' = consoleOps + 1
  /\ UNCHANGED <<applied, auto, challenges, lastError, announced, dynamic, candidates, rejected, inFlight, proposals,
                 wake, disk, applier, worker, shakes, jobs, world, crashes, history>>

\* Both signal wake after their section.
ConsoleWake ==
  /\ conWake
  /\ conWake' = FALSE /\ wake' = TRUE
  /\ UNCHANGED <<applied, maps, proposals, disk, applier, worker, shakes, jobs, world, crashes, consoleOps, history>>

-----------------------------------------------------------------------------
\* Time and crashes.

noteDue(S) == timeDue' = IF wpc \in {"start", "select"} THEN timeDue \cup S ELSE timeDue

\* A certificate some name has reaches its renewal date, then its end.
Age(s) ==
  /\ \E d \in Names : s \in {auto[d], diskCert[d]}
  /\ age[s] # "expired"
  /\ age' = [age EXCEPT ![s] = IF @ = "fresh" THEN "due" ELSE "expired"]
  /\ noteDue({d \in Names : auto[d] = s})
  /\ UNCHANGED <<applied, maps, proposals, wake, disk, applier, worker, shakes, jobs, issued, bounds>>

\* retryInterval passed.
RetryElapsed(d) ==
  /\ d \in waiting
  /\ waiting' = waiting \ {d}
  /\ noteDue({d})
  /\ UNCHANGED <<applied, auto, challenges, lastError, announced, dynamic, candidates, rejected, inFlight, proposals,
                 wake, disk, applier, worker, shakes, jobs, world, bounds>>

\* validateRejectTTL passed.
RejectElapsed(d) ==
  /\ rejected[d] = "hot"
  /\ rejected' = [rejected EXCEPT ![d] = "cold"]
  /\ UNCHANGED <<applied, auto, challenges, waiting, lastError, announced, dynamic, candidates, inFlight, proposals,
                 wake, disk, applier, worker, shakes, jobs, world, bounds, history>>

\* The process dies: only the files and the certificates' ages are left.
Crash ==
  /\ crashes < MaxCrashes /\ applied # <<>>
  /\ crashes' = crashes + 1
  /\ applied' = <<>>
  /\ auto' = [d \in Names |-> 0]
  /\ challenges' = {} /\ waiting' = {} /\ lastError' = {} /\ announced' = {}
  /\ dynamic' = {} /\ candidates' = {} /\ inFlight' = {}
  /\ rejected' = [d \in Names |-> "no"]
  /\ proposals' = <<>> /\ wake' = FALSE
  /\ apc' = "idle" /\ aTodo' = {} /\ aRead' = <<None, 0>>
  /\ wpc' = "off" /\ wcfg' = 0 /\ wJobs' = {}
  /\ hpc' = [h \in Handshakes |-> "serve"] /\ hname' = [h \in Handshakes |-> None]
  /\ jpc' = [g \in Goroutines |-> "idle"] /\ jname' = [g \in Goroutines |-> None]
  /\ jcfg' = [g \in Goroutines |-> 0] /\ jatt' = [g \in Goroutines |-> 0]
  /\ jusable' = [g \in Goroutines |-> FALSE] /\ jserial' = [g \in Goroutines |-> 0]
  /\ jout' = [g \in Goroutines |-> "none"]
  /\ conWake' = FALSE /\ timeDue' = {}
  /\ UNCHANGED <<disk, world, consoleOps>>

-----------------------------------------------------------------------------
ApplyStep == ApplyStore \/ ApplyEnd \/ ApplyWake \/ \E d \in Names : ApplyRead(d)

HandshakeStep(h) == HandshakePush(h) \/ HandshakeWake(h)

WorkerStep ==
  \/ TakeProposal \/ ReadConfig \/ adoptCandidates \/ WorkerAnnounce \/ pendingJobs
  \/ \E e \in wJobs, g \in Goroutines : startJob(e, g)
  \/ WorkerSleep \/ WorkerWoken \/ WorkerTimer

JobStep(g) ==
  \/ JobBegin(g) \/ ScriptStale(g) \/ ScriptAccepts(g) \/ ScriptRefusesRenewal(g) \/ ScriptRefuses(g)
  \/ \E out \in {"temp", "perm"} : IssueFails(g, out)
  \/ IssueChallenge(g) \/ IssueAuthorized(g) \/ IssueFinalize(g)
  \/ InstallRefused(g) \/ InstallBegin(g) \/ WriteKey(g) \/ WriteCert(g) \/ InstallCommit(g) \/ InstallFails(g)
  \/ IssueReturn(g) \/ Backoff(g) \/ JobFinish(g) \/ JobRelease(g) \/ JobWake(g)

Next ==
  \/ \E c \in Configs : ApplyBegin(c)
  \/ ApplyStep
  \/ Start
  \/ \E h \in Handshakes, d \in Names : HandshakeLoad(h, d)
  \/ \E h \in Handshakes : HandshakeStep(h)
  \/ WorkerStep
  \/ \E g \in Goroutines : JobStep(g)
  \/ \E d \in Names : RemoveCertificate(d) \/ RetryNow(d)
  \/ ConsoleWake
  \/ \E s \in Serials : Age(s)
  \/ \E d \in Names : RetryElapsed(d) \/ RejectElapsed(d)
  \/ Crash

Spec == Init /\ [][Next]_vars

-----------------------------------------------------------------------------
\* Properties.

Active == {g \in Goroutines : jpc[g] \notin {"idle", "wake"}}
HasChallenge == {"validating", "finalize", "install", "return"} \cup Installing

TypeMaps ==
  /\ applied \in Seq(Configs)
  /\ auto \in [Names -> 0..MaxIssued]
  /\ challenges \subseteq Names /\ waiting \subseteq Names /\ lastError \subseteq Names
  /\ announced \subseteq Names /\ dynamic \subseteq Names /\ candidates \subseteq Names
  /\ rejected \in [Names -> {"no", "hot", "cold"}]
  /\ inFlight \subseteq Names
TypeDisk ==
  /\ dirs \subseteq Names
  /\ diskKey \in [Names -> 0..MaxIssued] /\ diskCert \in [Names -> 0..MaxIssued]
  /\ issued \in 0..MaxIssued /\ age \in [Serials -> {"fresh", "due", "expired"}]
TypeActors ==
  /\ apc \in {"idle", "load", "store", "wake"} /\ aTodo \subseteq Names
  /\ aRead \in (Names \cup {None}) \X (0..MaxIssued)
  /\ wpc \in {"off", "take", "adopt", "announce", "list", "start", "select"}
  /\ wcfg \in Nat /\ wJobs \subseteq Names \X (1..4)
  /\ hpc \in [Handshakes -> {"serve", "push", "wake"}]
  /\ hname \in [Handshakes -> Names \cup {None}]
  /\ proposals \in Seq(Names) /\ timeDue \subseteq Names
TypeFlags ==
  /\ wake \in BOOLEAN /\ conWake \in BOOLEAN
  /\ jusable \in [Goroutines -> BOOLEAN]
  /\ crashes \in Nat /\ consoleOps \in Nat
TypeJobs ==
  /\ jpc \in [Goroutines -> {"idle", "begin", "asking", "issue", "backoff", "finish", "exit", "wake"} \cup HasChallenge]
  /\ jname \in [Goroutines -> Names \cup {None}]
  /\ jcfg \in [Goroutines -> Nat] /\ jatt \in [Goroutines -> 0..certAttempts]
  /\ jserial \in [Goroutines -> 0..MaxIssued]
  /\ jout \in [Goroutines -> {"none", "ok", "temp", "perm"}]

\* Every variable stays in its type.
TypeOK == TypeMaps /\ TypeDisk /\ TypeActors /\ TypeFlags /\ TypeJobs

\* The per-name guard inFlight is exactly the set of names with a running job,
\* no name has two jobs, and no more run than there are slots (startJob and its
\* deferred release, across reloads and console operations).
OneJobPerName ==
  /\ inFlight = {jname[g] : g \in Active}
  /\ \A g, h \in Active : jname[g] = jname[h] => g = h
  /\ Cardinality(inFlight) <= maxParallelJobs

\* A pending TLS-ALPN-01 answer always belongs to an issue call still running:
\* none outlives its job, whatever reloads and failures happen in between.
ChallengeOwned ==
  \A d \in challenges : \E g \in Active : jname[g] = d /\ jpc[g] \in HasChallenge

\* applyMu: no configuration change overlaps a certificate commit, and what is
\* being committed belongs to the current configuration.
CommitsAreCurrent ==
  \A g \in Goroutines : jpc[g] \in Installing =>
     /\ apc = "idle" /\ Current(jcfg[g])
     /\ \A h \in Goroutines : jpc[h] \in Installing => h = g

\* Certificate files are written only while the configuration that asked for
\* them is current and still manages the name: a CA response that arrives after
\* a reload, a script's refusal or a removal installs nothing.
StaleNeverInstalls ==
  [][\A d \in Names :
       (diskCert'[d] # diskCert[d] /\ diskCert'[d] # 0) \/ (diskKey'[d] # diskKey[d] /\ diskKey'[d] # 0) =>
         \E g \in Goroutines : jname[g] = d /\ Current(jcfg[g]) /\ d \in Managed(jcfg[g])]_vars

\* What is served is never newer than what is on disk, so a restart does not
\* go back to an older certificate.
DiskNotBehind ==
  \A d \in Names : auto[d] # 0 /\ diskCert[d] # 0 => auto[d] <= diskCert[d]

\* A certificate in use is only ever replaced by one issued later: neither
\* Apply's reading of the files nor adoptCandidates brings an old one back.
NoRollback ==
  [][\A d \in Names : auto[d] # 0 /\ auto'[d] # 0 => auto[d] <= auto'[d]]_vars

\* A certificate that is still valid is taken out of use by nothing but a
\* removal from the console, which needs an error on record (or a crash): a
\* script's refusal never does it (scriptAllows keeps it and asks again).
KeepsUsable ==
  [][\A d \in Names : Usable(auto[d]) /\ auto'[d] = 0 =>
        (consoleOps' # consoleOps /\ d \in lastError) \/ crashes' # crashes]_vars

\* A script is asked only about names its configuration puts in its charge:
\* scriptAllows' branch for script == "" is never taken.
AskHasScript ==
  \A g \in Goroutines : jpc[g] = "asking" => jname[g] \in ScriptNames[Conf(jcfg[g])]

\* A name that waits for its next attempt has the reason on record.
WaitingHasReason == waiting \subseteq lastError

\* The worker never sleeps on work: asleep, with no wake-up pending or about
\* to be sent, it has taken every proposal, and every name that needs a job
\* either came due by the passage of time (checkInterval finds it) or waits
\* for a running job, whose end wakes the worker.
WakeComing ==
  \/ wake \/ conWake \/ apc # "idle"
  \/ \E h \in Handshakes : hpc[h] = "wake"
  \/ \E g \in Goroutines : jpc[g] = "wake"
NoLostWakeup ==
  wpc = "select" /\ ~WakeComing =>
     /\ proposals = <<>>
     /\ inFlight # {} \/ \A e \in listed(Len(applied)) : e[1] \in timeDue

\* The inductive strengthening used by the proofs.
Issuing == {"issue", "backoff"} \cup HasChallenge

LocalsOK ==
  /\ \A g \in Active : jname[g] \in Names /\ jcfg[g] \in 1..Len(applied)
  /\ \A g \in Goroutines : jpc[g] = "backoff" => jatt[g] < certAttempts
  /\ \A h \in Handshakes : hpc[h] = "push" => hname[h] \in Names
  /\ apc # "idle" \/ wpc # "off" => applied # <<>>
  /\ wcfg <= Len(applied)
  /\ wpc # "start" => wJobs = {}
  /\ IsFiniteSet(inFlight)

\* A name has a job, or is waiting for one, only if the configuration lists it
\* or has a script for it; from the script's yes on it is managed.
NamesAllowed ==
  /\ applied # <<>> => dynamic \cup candidates \subseteq ScriptNames[Conf(Len(applied))]
  /\ Current(wcfg) => \A e \in wJobs : e[1] \in AutoDomains[Conf(wcfg)] \cup ScriptNames[Conf(wcfg)]
  /\ \A g \in Active :
       /\ jname[g] \in AutoDomains[Conf(jcfg[g])] \cup ScriptNames[Conf(jcfg[g])]
       /\ jpc[g] = "asking" => jname[g] \notin AutoDomains[Conf(jcfg[g])]
       /\ jpc[g] \in Issuing /\ Current(jcfg[g]) => jname[g] \in Managed(jcfg[g])

IInv ==
  TypeOK /\ LocalsOK /\ OneJobPerName /\ ChallengeOwned /\ CommitsAreCurrent /\ NamesAllowed

\* Serials: what a job is about to install is newer than what its name has in
\* use or on disk, and so than what a running Apply has read.
SerialsOK ==
  /\ DiskNotBehind
  /\ \A d \in Names : auto[d] <= issued /\ diskCert[d] <= issued
  /\ aRead[2] <= issued /\ \A g \in Goroutines : jserial[g] <= issued
  /\ \A g \in Goroutines : jpc[g] \in {"install", "writekey", "writecert"} =>
       auto[jname[g]] < jserial[g] /\ diskCert[jname[g]] < jserial[g]
  /\ \A g \in Goroutines : jpc[g] = "commit" =>
       auto[jname[g]] <= jserial[g] /\ diskCert[jname[g]] = jserial[g]
  /\ apc = "store" =>
       /\ aRead[1] \in Names /\ aRead[2] # 0
       /\ diskCert[aRead[1]] \in {0, aRead[2]} /\ auto[aRead[1]] <= aRead[2]
       /\ \A g \in Goroutines : jpc[g] = "install" /\ jname[g] = aRead[1] => aRead[2] < jserial[g]

\* Wake-ups: with none coming, the worker has read the current configuration
\* and every proposal, and has listed or will find every name that needs a job.
WakesOK ==
  ~WakeComing =>
    /\ wpc \notin {"off", "take"} => proposals = <<>>
    /\ wpc \in {"adopt", "announce", "list", "start"} => Current(wcfg)
    /\ wpc = "start" => \A e \in listed(Len(applied)) : e[1] \in timeDue \/ \E f \in wJobs : f[1] = e[1]
    /\ wpc = "select" => inFlight # {} \/ \A e \in listed(Len(applied)) : e[1] \in timeDue

\* A script's refusal finds nothing usable to drop: what was still good on disk
\* was adopted before the name was listed, and a certificate in use that is
\* good makes the request a renewal.
goodOnDisk(d)  == Loadable(d) /\ Usable(diskCert[d])
byScript(i, d) == d \notin AutoDomains[Conf(i)]
KeptMaps ==
  /\ candidates \cap dynamic = {}
  /\ apc \in {"load", "store"} => aTodo \subseteq AutoDomains[Conf(Len(applied))]
  /\ apc = "store" => aRead[1] \in AutoDomains[Conf(Len(applied))]
KeptLists ==
  /\ wpc \in {"announce", "list"} /\ Current(wcfg) =>
       \A d \in candidates : byScript(wcfg, d) => ~goodOnDisk(d)
  /\ wpc = "start" /\ Current(wcfg) =>
       \A e \in wJobs : byScript(wcfg, e[1]) =>
         /\ e[1] \notin inFlight /\ (e[1] \in dynamic \/ ~goodOnDisk(e[1]))
         /\ \A f \in wJobs : f[1] = e[1] => f = e
KeptJobs ==
  \A g \in Goroutines : jpc[g] \in {"begin", "asking"} /\ Current(jcfg[g]) /\ byScript(jcfg[g], jname[g]) =>
    /\ jname[g] \in dynamic \/ ~goodOnDisk(jname[g])
    /\ jpc[g] = "asking" /\ ~jusable[g] => ~Usable(auto[jname[g]])
KeptOK == KeptMaps /\ KeptLists /\ KeptJobs

CertsOK == SerialsOK /\ WakesOK /\ KeptOK /\ WaitingHasReason

\* Fairness: the worker, a running Apply, a started handshake, the console
\* handler and every job take their steps (script, DNS and CA calls all run
\* under timeouts), and retry times pass.
Fairness ==
  /\ WF_vars(ApplyStep) /\ WF_vars(Start) /\ WF_vars(WorkerStep) /\ WF_vars(ConsoleWake)
  /\ \A h \in Handshakes : WF_vars(HandshakeStep(h))
  /\ \A g \in Goroutines : WF_vars(JobStep(g))
  /\ \A d \in Names : WF_vars(RetryElapsed(d))
FairSpec == Spec /\ Fairness

\* Every job ends and gives its slot back, with all its attempts, whatever
\* reloads, refusals and failures it meets.
JobsEnd == \A d \in Names : d \in inFlight ~> d \notin inFlight

\* A name that needs a certificate gets a job, again and again while it has
\* none: it is never forgotten by the worker.
NeedsJob(d) ==
  /\ wpc # "off" /\ applied # <<>>
  /\ d \in Managed(Len(applied)) \cup candidates /\ Missing(auto[d])
NeverForgotten == \A d \in Names : NeedsJob(d) ~> d \in inFlight \/ ~NeedsJob(d)

\* "Key first: a cert.pem without its key would be unusable after a crash":
\* a process that starts finds no cert.pem without the key it belongs to.
CertHasItsKey ==
  \A d \in Names : applied = <<>> /\ diskCert[d] # 0 => diskKey[d] = diskCert[d]
=============================================================================
