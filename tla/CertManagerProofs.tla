------------------------- MODULE CertManagerProofs -------------------------
(***************************************************************************)
(* Proofs about CertManager, for every set of names, configurations and    *)
(* goroutines and every value of the limits.  IInv is shown inductive one  *)
(* conjunct at a time; in each lemma <1>h collects the hypotheses, <1>u    *)
(* says the conjunct depends only on the variables it lists, and there is  *)
(* one step per action that changes one of them.                           *)
(***************************************************************************)
EXTENDS CertManager, FiniteSetTheorems, TLAPS

\* The names of a configuration that has been applied are names.
LEMMA ManagedNames ==
  ASSUME TypeOK, applied # <<>>
  PROVE  Conf(Len(applied)) \in Configs /\ Managed(Len(applied)) \subseteq Names
  BY ConfigAssumption DEF TypeOK, TypeMaps, Conf, Managed

\* Type correctness, one part at a time.
LEMMA TypeMapsStep ==
  ASSUME TypeOK, LocalsOK, Next
  PROVE  TypeMaps'
<1>h. TypeMaps /\ TypeDisk /\ TypeActors /\ TypeFlags /\ TypeJobs /\ LocalsOK /\ TypeOK
  BY DEF TypeOK
<1>u. ASSUME UNCHANGED <<applied, maps>> PROVE TypeMaps'
  BY <1>h, <1>u DEF TypeMaps, maps
<1>1. ASSUME (\E d \in Names : ApplyRead(d)) \/ ApplyWake \/ Start
     PROVE  UNCHANGED <<applied, maps>>
  BY <1>1 DEF ApplyRead, ApplyWake, Start, maps
<1>2. ASSUME NEW c \in Configs, ApplyBegin(c) PROVE TypeMaps'
  BY <1>h, <1>2, ConfigAssumption DEF ApplyBegin, TypeMaps, scriptCovers
<1>3. ASSUME ApplyStore PROVE TypeMaps'
  BY <1>h, <1>3 DEF ApplyStore, TypeMaps, TypeActors
<1>4. ASSUME ApplyEnd PROVE TypeMaps'
  BY <1>h, <1>4, ManagedNames DEF ApplyEnd, announce, TypeMaps, LocalsOK
<1>5. ASSUME (\E h \in Handshakes, d \in Names : HandshakeLoad(h, d)) \/
            (\E h \in Handshakes : HandshakePush(h)) \/ (\E h \in Handshakes : HandshakeWake(h))
     PROVE  UNCHANGED <<applied, maps>>
  BY <1>5 DEF HandshakeLoad, HandshakePush, HandshakeWake, maps
<1>6. ASSUME ReadConfig \/ pendingJobs \/ WorkerSleep \/ WorkerWoken \/ WorkerTimer
     PROVE  UNCHANGED <<applied, maps>>
  BY <1>6 DEF ReadConfig, pendingJobs, WorkerSleep, WorkerWoken, WorkerTimer, maps
<1>7. ASSUME TakeProposal PROVE TypeMaps'
  <2>1. Head(proposals) \in Names
    BY <1>h, <1>7 DEF TakeProposal, TypeActors
  <2> QED
    BY <1>h, <1>7, <2>1 DEF TakeProposal, TypeMaps
<1>8. ASSUME adoptCandidates PROVE TypeMaps'
  BY <1>h, <1>8 DEF adoptCandidates, TypeMaps, TypeDisk
<1>9. ASSUME WorkerAnnounce PROVE TypeMaps'
  BY <1>h, <1>9, ManagedNames DEF WorkerAnnounce, announce, TypeMaps, Current, LocalsOK, TypeActors
<1>10. ASSUME NEW e \in wJobs, NEW g \in Goroutines, startJob(e, g) PROVE TypeMaps'
  BY <1>h, <1>10 DEF startJob, TypeMaps, TypeActors
<1>11. ASSUME NEW g \in Goroutines,
            JobBegin(g) \/ ScriptStale(g) \/ (\E out \in {"temp", "perm"} : IssueFails(g, out)) \/
            IssueAuthorized(g) \/ IssueFinalize(g) \/ InstallRefused(g) \/ InstallBegin(g) \/ WriteKey(g) \/
            WriteCert(g) \/ InstallFails(g) \/ Backoff(g) \/ JobWake(g)
     PROVE  UNCHANGED <<applied, maps>>
  BY <1>11
  DEF JobBegin, ScriptStale, IssueFails, IssueAuthorized, IssueFinalize, InstallRefused, InstallBegin,
    WriteKey, WriteCert, InstallFails, Backoff, JobWake, maps
<1>12. ASSUME NEW g \in Goroutines, ScriptAccepts(g) PROVE TypeMaps'
  <2>1. jname[g] \in Names
    BY <1>h, <1>12 DEF ScriptAccepts, LocalsOK, Active, Installing
  <2> QED
    BY <1>h, <1>12, <2>1 DEF ScriptAccepts, TypeMaps
<1>13. ASSUME NEW g \in Goroutines, ScriptRefusesRenewal(g) PROVE TypeMaps'
  <2>1. jname[g] \in Names
    BY <1>h, <1>13 DEF ScriptRefusesRenewal, LocalsOK, Active, Installing
  <2> QED
    BY <1>h, <1>13, <2>1 DEF ScriptRefusesRenewal, TypeMaps
<1>14. ASSUME NEW g \in Goroutines, ScriptRefuses(g) PROVE TypeMaps'
  <2>1. jname[g] \in Names
    BY <1>h, <1>14 DEF ScriptRefuses, LocalsOK, Active
  <2>2. rejected' \in [Names -> {"no", "hot", "cold"}]
    BY <1>h, <1>14 DEF ScriptRefuses, TypeMaps
  <2>3. auto' \in [Names -> 0..MaxIssued]
    <3>1. auto' = [auto EXCEPT ![jname[g]] = 0]
      BY <1>14 DEF ScriptRefuses
    <3>2. auto \in [Names -> 0..MaxIssued] /\ 0 \in 0..MaxIssued
      BY <1>h, BoundAssumption DEF TypeMaps
    <3> QED
      BY <3>1, <3>2
  <2> QED
    BY <1>h, <1>14, <2>1, <2>2, <2>3 DEF ScriptRefuses, TypeMaps
<1>15. ASSUME NEW g \in Goroutines, IssueChallenge(g) PROVE TypeMaps'
  <2>1. jname[g] \in Names
    BY <1>h, <1>15 DEF IssueChallenge, LocalsOK, Active, Installing
  <2> QED
    BY <1>h, <1>15, <2>1 DEF IssueChallenge, TypeMaps
<1>16. ASSUME NEW g \in Goroutines, InstallCommit(g) PROVE TypeMaps'
  <2>1. jname[g] \in Names
    BY <1>h, <1>16 DEF InstallCommit, LocalsOK, Active, Installing
  <2> QED
    BY <1>h, <1>16, <2>1, BoundAssumption DEF InstallCommit, attemptEnds, TypeMaps, TypeDisk, Loadable
<1>17. ASSUME NEW g \in Goroutines, IssueReturn(g) PROVE TypeMaps'
  BY <1>h, <1>17 DEF IssueReturn, TypeMaps, withdraw
<1>18. ASSUME NEW g \in Goroutines, JobFinish(g) PROVE TypeMaps'
  <2>1. jname[g] \in Names
    BY <1>h, <1>18 DEF JobFinish, LocalsOK, Active, Installing
  <2> QED
    BY <1>h, <1>18, <2>1 DEF JobFinish, TypeMaps
<1>19. ASSUME NEW g \in Goroutines, JobRelease(g) PROVE TypeMaps'
  BY <1>h, <1>19 DEF JobRelease, TypeMaps
<1>20. ASSUME ConsoleWake \/ (\E s \in Serials : Age(s))
     PROVE  UNCHANGED <<applied, maps>>
  BY <1>20 DEF ConsoleWake, Age, maps
<1>21. ASSUME NEW d \in Names, RemoveCertificate(d) PROVE TypeMaps'
  BY <1>h, <1>21, BoundAssumption DEF RemoveCertificate, TypeMaps
<1>22. ASSUME NEW d \in Names, RetryNow(d) PROVE TypeMaps'
  BY <1>h, <1>22 DEF RetryNow, TypeMaps
<1>23. ASSUME NEW d \in Names, RetryElapsed(d) PROVE TypeMaps'
  BY <1>h, <1>23 DEF RetryElapsed, noteDue, TypeMaps
<1>24. ASSUME NEW d \in Names, RejectElapsed(d) PROVE TypeMaps'
  BY <1>h, <1>24 DEF RejectElapsed, TypeMaps
<1>25. ASSUME Crash PROVE TypeMaps'
  BY <1>h, <1>25, BoundAssumption DEF Crash, TypeMaps
<1> QED
  BY <1>u, <1>1, <1>2, <1>3, <1>4, <1>5, <1>6, <1>7, <1>8, <1>9, <1>10, <1>11, <1>12, <1>13, <1>14,
    <1>15, <1>16, <1>17, <1>18, <1>19, <1>20, <1>21, <1>22, <1>23, <1>24, <1>25
  DEF Next, ApplyStep, HandshakeStep, WorkerStep, JobStep

\* The files, and the certificates issued.
LEMMA TypeDiskStep ==
  ASSUME TypeOK, LocalsOK, Next
  PROVE  TypeDisk'
<1>h. TypeMaps /\ TypeDisk /\ TypeActors /\ TypeFlags /\ TypeJobs /\ LocalsOK /\ TypeOK
  BY DEF TypeOK
<1>u. ASSUME UNCHANGED <<disk, world>> PROVE TypeDisk'
  BY <1>h, <1>u DEF TypeDisk, disk, world
<1>1. ASSUME (\E c \in Configs : ApplyBegin(c)) \/ (\E d \in Names : ApplyRead(d)) \/ ApplyStore \/ ApplyEnd \/
            ApplyWake \/ Start
     PROVE  UNCHANGED <<disk, world>>
  BY <1>1 DEF ApplyBegin, ApplyRead, ApplyStore, ApplyEnd, ApplyWake, Start, disk, world
<1>2. ASSUME (\E h \in Handshakes, d \in Names : HandshakeLoad(h, d)) \/
            (\E h \in Handshakes : HandshakePush(h)) \/ (\E h \in Handshakes : HandshakeWake(h))
     PROVE  UNCHANGED <<disk, world>>
  BY <1>2 DEF HandshakeLoad, HandshakePush, HandshakeWake, disk, world
<1>3. ASSUME TakeProposal \/ ReadConfig \/ adoptCandidates \/ WorkerAnnounce \/ pendingJobs \/
            (\E e \in wJobs, g \in Goroutines : startJob(e, g)) \/ WorkerSleep \/ WorkerWoken \/ WorkerTimer
     PROVE  UNCHANGED <<disk, world>>
  BY <1>3 DEF TakeProposal, ReadConfig, adoptCandidates, WorkerAnnounce, pendingJobs, startJob, WorkerSleep,
    WorkerWoken, WorkerTimer, disk, world
<1>4. ASSUME NEW g \in Goroutines,
            JobBegin(g) \/ ScriptStale(g) \/ ScriptAccepts(g) \/ ScriptRefusesRenewal(g) \/ ScriptRefuses(g) \/
            (\E out \in {"temp", "perm"} : IssueFails(g, out)) \/ IssueChallenge(g) \/ IssueAuthorized(g) \/
            InstallRefused(g) \/ InstallCommit(g) \/ InstallFails(g) \/ IssueReturn(g) \/ Backoff(g) \/
            JobFinish(g) \/ JobRelease(g) \/ JobWake(g)
     PROVE  UNCHANGED <<disk, world>>
  BY <1>4 DEF JobBegin, ScriptStale, ScriptAccepts, ScriptRefusesRenewal, ScriptRefuses, IssueFails,
    IssueChallenge, IssueAuthorized, InstallRefused, InstallCommit, InstallFails, IssueReturn, Backoff,
    JobFinish, JobRelease, JobWake, disk, world
<1>5. ASSUME NEW g \in Goroutines, IssueFinalize(g) PROVE TypeDisk'
  BY <1>h, <1>5, BoundAssumption DEF IssueFinalize, TypeDisk, Serials, disk
<1>6. ASSUME NEW g \in Goroutines, InstallBegin(g) PROVE TypeDisk'
  BY <1>h, <1>6, BoundAssumption DEF InstallBegin, TypeDisk, Serials, world, TypeJobs, LocalsOK, Active
<1>7. ASSUME NEW g \in Goroutines, WriteKey(g) PROVE TypeDisk'
  BY <1>h, <1>7, BoundAssumption DEF WriteKey, TypeDisk, Serials, world, TypeJobs
<1>8. ASSUME NEW g \in Goroutines, WriteCert(g) PROVE TypeDisk'
  BY <1>h, <1>8, BoundAssumption DEF WriteCert, TypeDisk, Serials, world, TypeJobs
<1>9. ASSUME (\E d \in Names : RetryNow(d)) \/ ConsoleWake \/ (\E d \in Names : RetryElapsed(d)) \/
            (\E d \in Names : RejectElapsed(d)) \/ Crash
     PROVE  UNCHANGED <<disk, world>>
  BY <1>9 DEF RetryNow, ConsoleWake, RetryElapsed, RejectElapsed, Crash, disk, world
<1>10. ASSUME NEW d \in Names, RemoveCertificate(d) PROVE TypeDisk'
  BY <1>h, <1>10, BoundAssumption DEF RemoveCertificate, TypeDisk, Serials, world
<1>11. ASSUME NEW s \in Serials, Age(s) PROVE TypeDisk'
  BY <1>h, <1>11, BoundAssumption DEF Age, noteDue, TypeDisk, Serials, disk
<1> QED
  BY <1>u, <1>1, <1>2, <1>3, <1>4, <1>5, <1>6, <1>7, <1>8, <1>9, <1>10, <1>11
  DEF Next, ApplyStep, HandshakeStep, WorkerStep, JobStep

\* Apply, the worker, the handshakes and the ring.
LEMMA TypeActorsStep ==
  ASSUME TypeOK, LocalsOK, Next
  PROVE  TypeActors'
<1>h. TypeMaps /\ TypeDisk /\ TypeActors /\ TypeFlags /\ TypeJobs /\ LocalsOK /\ TypeOK
  BY DEF TypeOK
<1>u. ASSUME UNCHANGED <<applier, worker, shakes, proposals, history>> PROVE TypeActors'
  BY <1>h, <1>u DEF TypeActors, applier, worker, shakes, history
<1>1. ASSUME NEW c \in Configs, ApplyBegin(c) PROVE TypeActors'
  BY <1>h, <1>1, ConfigAssumption DEF ApplyBegin, TypeActors, worker, shakes, history
<1>2. ASSUME NEW d \in Names, ApplyRead(d) PROVE TypeActors'
  BY <1>h, <1>2 DEF ApplyRead, TypeActors, worker, shakes, history, TypeDisk
<1>3. ASSUME ApplyStore PROVE TypeActors'
  BY <1>h, <1>3, BoundAssumption DEF ApplyStore, TypeActors, worker, shakes, history
<1>4. ASSUME ApplyEnd PROVE TypeActors'
  BY <1>h, <1>4 DEF ApplyEnd, announce, TypeActors, worker, shakes, history
<1>5. ASSUME ApplyWake PROVE TypeActors'
  BY <1>h, <1>5 DEF ApplyWake, TypeActors, worker, shakes, history
<1>6. ASSUME Start PROVE TypeActors'
  BY <1>h, <1>6 DEF Start, TypeActors, applier, shakes, history
<1>7. ASSUME NEW h \in Handshakes, NEW d \in Names, HandshakeLoad(h, d) PROVE TypeActors'
  BY <1>h, <1>7 DEF HandshakeLoad, TypeActors, applier, worker, history
<1>8. ASSUME NEW h \in Handshakes, HandshakePush(h) PROVE TypeActors'
  <2>1. hname[h] \in Names /\ proposals \in Seq(Names)
    BY <1>h, <1>8 DEF HandshakePush, LocalsOK, TypeActors
  <2>2. proposals' \in Seq(Names)
    BY <1>8, <2>1, SMTT(30) DEF HandshakePush
  <2> QED
    BY <1>h, <1>8, <2>2 DEF HandshakePush, TypeActors, applier, worker, history
<1>9. ASSUME NEW h \in Handshakes, HandshakeWake(h) PROVE TypeActors'
  BY <1>h, <1>9 DEF HandshakeWake, TypeActors, applier, worker, history
<1>10. ASSUME TakeProposal PROVE TypeActors'
  <2>1. proposals' \in Seq(Names)
    BY <1>h, <1>10 DEF TakeProposal, TypeActors
  <2> QED
    BY <1>h, <1>10, <2>1 DEF TakeProposal, TypeActors, applier, worker, shakes, history
<1>11. ASSUME ReadConfig PROVE TypeActors'
  BY <1>h, <1>11 DEF ReadConfig, TypeActors, applier, shakes, history, TypeMaps
<1>12. ASSUME adoptCandidates PROVE TypeActors'
  BY <1>h, <1>12 DEF adoptCandidates, TypeActors, applier, shakes, history
<1>13. ASSUME WorkerAnnounce PROVE TypeActors'
  BY <1>h, <1>13 DEF WorkerAnnounce, announce, TypeActors, applier, shakes, history
<1>14. ASSUME pendingJobs PROVE TypeActors'
  <2>1. listed(Len(applied)) \subseteq Names \X (1..4)
    BY <1>h, <1>14, ManagedNames DEF pendingJobs, listed, LocalsOK, TypeMaps
  <2> QED
    BY <1>h, <1>14, <2>1 DEF pendingJobs, TypeActors, applier, shakes, history
<1>15. ASSUME NEW e \in wJobs, NEW g \in Goroutines, startJob(e, g) PROVE TypeActors'
  BY <1>h, <1>15 DEF startJob, TypeActors, applier, shakes, history
<1>16. ASSUME WorkerSleep PROVE TypeActors'
  BY <1>h, <1>16 DEF WorkerSleep, TypeActors, applier, shakes, history
<1>17. ASSUME WorkerWoken PROVE TypeActors'
  BY <1>h, <1>17 DEF WorkerWoken, TypeActors, applier, shakes
<1>18. ASSUME WorkerTimer PROVE TypeActors'
  BY <1>h, <1>18 DEF WorkerTimer, TypeActors, applier, shakes
<1>19. ASSUME NEW g \in Goroutines,
            JobBegin(g) \/ ScriptStale(g) \/ ScriptAccepts(g) \/ ScriptRefusesRenewal(g) \/ ScriptRefuses(g) \/
            (\E out \in {"temp", "perm"} : IssueFails(g, out)) \/ IssueChallenge(g) \/ IssueAuthorized(g) \/
            IssueFinalize(g) \/ InstallRefused(g) \/ InstallBegin(g) \/ WriteKey(g) \/ WriteCert(g) \/
            InstallCommit(g) \/ InstallFails(g) \/ IssueReturn(g) \/ Backoff(g) \/ JobFinish(g) \/
            JobRelease(g) \/ JobWake(g)
     PROVE  UNCHANGED <<applier, worker, shakes, proposals, history>>
  BY <1>19 DEF JobBegin, ScriptStale, ScriptAccepts, ScriptRefusesRenewal, ScriptRefuses, IssueFails,
    IssueChallenge, IssueAuthorized, IssueFinalize, InstallRefused, InstallBegin, WriteKey, WriteCert,
    InstallCommit, InstallFails, IssueReturn, Backoff, JobFinish, JobRelease, JobWake, applier, worker,
    shakes, history
<1>20. ASSUME (\E d \in Names : RemoveCertificate(d)) \/ (\E d \in Names : RetryNow(d)) \/ ConsoleWake \/
            (\E d \in Names : RejectElapsed(d))
     PROVE  UNCHANGED <<applier, worker, shakes, proposals, history>>
  BY <1>20 DEF RemoveCertificate, RetryNow, ConsoleWake, RejectElapsed, applier, worker, shakes, history
<1>21. ASSUME NEW s \in Serials, Age(s) PROVE TypeActors'
  BY <1>h, <1>21 DEF Age, noteDue, TypeActors, applier, worker, shakes
<1>22. ASSUME NEW d \in Names, RetryElapsed(d) PROVE TypeActors'
  BY <1>h, <1>22 DEF RetryElapsed, noteDue, TypeActors, applier, worker, shakes
<1>23. ASSUME Crash PROVE TypeActors'
  BY <1>h, <1>23, BoundAssumption DEF Crash, TypeActors
<1> QED
  BY <1>u, <1>1, <1>2, <1>3, <1>4, <1>5, <1>6, <1>7, <1>8, <1>9, <1>10, <1>11, <1>12, <1>13, <1>14,
    <1>15, <1>16, <1>17, <1>18, <1>19, <1>20, <1>21, <1>22, <1>23
  DEF Next, ApplyStep, HandshakeStep, WorkerStep, JobStep

\* Booleans and counters, kept apart: they go to a different prover.
LEMMA TypeFlagsStep ==
  ASSUME TypeOK, LocalsOK, Next
  PROVE  TypeFlags'
<1>h. TypeMaps /\ TypeDisk /\ TypeActors /\ TypeFlags /\ TypeJobs /\ LocalsOK /\ TypeOK
  BY DEF TypeOK
<1>u. ASSUME UNCHANGED <<wake, bounds, jusable>> PROVE TypeFlags'
  BY <1>h, <1>u DEF TypeFlags, bounds
<1>1. ASSUME (\E c \in Configs : ApplyBegin(c)) \/ (\E d \in Names : ApplyRead(d)) \/ ApplyStore \/ ApplyEnd \/
            Start
     PROVE  UNCHANGED <<wake, bounds, jusable>>
  BY <1>1 DEF ApplyBegin, ApplyRead, ApplyStore, ApplyEnd, Start, jobs, bounds
<1>2. ASSUME ApplyWake PROVE TypeFlags'
  BY <1>h, <1>2 DEF ApplyWake, TypeFlags, jobs, bounds
<1>3. ASSUME (\E h \in Handshakes, d \in Names : HandshakeLoad(h, d)) \/ (\E h \in Handshakes : HandshakePush(h))
     PROVE  UNCHANGED <<wake, bounds, jusable>>
  BY <1>3 DEF HandshakeLoad, HandshakePush, jobs, bounds
<1>4. ASSUME NEW h \in Handshakes, HandshakeWake(h) PROVE TypeFlags'
  BY <1>h, <1>4 DEF HandshakeWake, TypeFlags, jobs, bounds
<1>5. ASSUME ReadConfig \/ adoptCandidates \/ WorkerAnnounce \/ pendingJobs \/
            (\E e \in wJobs, g \in Goroutines : startJob(e, g)) \/ WorkerSleep \/ WorkerTimer
     PROVE  UNCHANGED <<wake, bounds, jusable>>
  BY <1>5
  DEF ReadConfig, adoptCandidates, WorkerAnnounce, pendingJobs, startJob, WorkerSleep, WorkerTimer, jobs,
    bounds
<1>6. ASSUME TakeProposal PROVE TypeFlags'
  BY <1>h, <1>6 DEF TakeProposal, TypeFlags, jobs, bounds
<1>7. ASSUME WorkerWoken PROVE TypeFlags'
  BY <1>h, <1>7 DEF WorkerWoken, TypeFlags, jobs, bounds
<1>8. ASSUME NEW g \in Goroutines,
            ScriptStale(g) \/ ScriptAccepts(g) \/ ScriptRefusesRenewal(g) \/ ScriptRefuses(g) \/
            (\E out \in {"temp", "perm"} : IssueFails(g, out)) \/ IssueChallenge(g) \/ IssueAuthorized(g) \/
            IssueFinalize(g) \/ InstallRefused(g) \/ InstallBegin(g) \/ WriteKey(g) \/ WriteCert(g) \/
            InstallCommit(g) \/ InstallFails(g) \/ IssueReturn(g) \/ Backoff(g) \/ JobFinish(g)
     PROVE  UNCHANGED <<wake, bounds, jusable>>
  BY <1>8 DEF ScriptStale, ScriptAccepts, ScriptRefusesRenewal, ScriptRefuses, IssueFails, IssueChallenge,
    IssueAuthorized, IssueFinalize, InstallRefused, InstallBegin, WriteKey, WriteCert, InstallCommit,
    InstallFails, IssueReturn, Backoff, JobFinish, bounds
<1>9. ASSUME NEW g \in Goroutines, JobBegin(g) PROVE TypeFlags'
  BY <1>h, <1>9 DEF JobBegin, TypeFlags, bounds
<1>10. ASSUME NEW g \in Goroutines, JobRelease(g) PROVE TypeFlags'
  BY <1>h, <1>10 DEF JobRelease, TypeFlags, bounds
<1>11. ASSUME NEW g \in Goroutines, JobWake(g) PROVE TypeFlags'
  BY <1>h, <1>11 DEF JobWake, TypeFlags, bounds
<1>12. ASSUME (\E s \in Serials : Age(s)) \/ (\E d \in Names : RetryElapsed(d)) \/
            (\E d \in Names : RejectElapsed(d))
     PROVE  UNCHANGED <<wake, bounds, jusable>>
  BY <1>12 DEF Age, RetryElapsed, RejectElapsed, jobs, bounds
<1>13. ASSUME NEW d \in Names, RemoveCertificate(d) PROVE TypeFlags'
  BY <1>h, <1>13 DEF RemoveCertificate, TypeFlags, jobs
<1>14. ASSUME NEW d \in Names, RetryNow(d) PROVE TypeFlags'
  BY <1>h, <1>14 DEF RetryNow, TypeFlags, jobs
<1>15. ASSUME ConsoleWake PROVE TypeFlags'
  BY <1>h, <1>15 DEF ConsoleWake, TypeFlags, jobs
<1>16. ASSUME Crash PROVE TypeFlags'
  <2>1. wake' \in BOOLEAN /\ conWake' \in BOOLEAN /\ jusable' \in [Goroutines -> BOOLEAN]
    BY <1>16 DEF Crash
  <2>2. crashes' \in Nat /\ consoleOps' \in Nat
    BY <1>h, <1>16 DEF Crash, TypeFlags
  <2> QED
    BY <2>1, <2>2 DEF TypeFlags
<1> QED
  BY <1>u, <1>1, <1>2, <1>3, <1>4, <1>5, <1>6, <1>7, <1>8, <1>9, <1>10, <1>11, <1>12, <1>13, <1>14,
    <1>15, <1>16
  DEF Next, ApplyStep, HandshakeStep, WorkerStep, JobStep

\* The jobs.
LEMMA TypeJobsStep ==
  ASSUME TypeOK, LocalsOK, Next
  PROVE  TypeJobs'
<1>h. TypeMaps /\ TypeDisk /\ TypeActors /\ TypeFlags /\ TypeJobs /\ LocalsOK /\ TypeOK
  BY DEF TypeOK
<1>u. ASSUME UNCHANGED <<jpc, jname, jcfg, jatt, jserial, jout>> PROVE TypeJobs'
  BY <1>h, <1>u DEF TypeJobs
<1>1. ASSUME (\E c \in Configs : ApplyBegin(c)) \/ (\E d \in Names : ApplyRead(d)) \/ ApplyStore \/ ApplyEnd \/
            ApplyWake \/ Start
     PROVE  UNCHANGED <<jpc, jname, jcfg, jatt, jserial, jout>>
  BY <1>1 DEF ApplyBegin, ApplyRead, ApplyStore, ApplyEnd, ApplyWake, Start, jobs
<1>2. ASSUME (\E h \in Handshakes, d \in Names : HandshakeLoad(h, d)) \/
            (\E h \in Handshakes : HandshakePush(h)) \/ (\E h \in Handshakes : HandshakeWake(h))
     PROVE  UNCHANGED <<jpc, jname, jcfg, jatt, jserial, jout>>
  BY <1>2 DEF HandshakeLoad, HandshakePush, HandshakeWake, jobs
<1>3. ASSUME TakeProposal \/ ReadConfig \/ adoptCandidates \/ WorkerAnnounce \/ pendingJobs \/ WorkerSleep \/
            WorkerWoken \/ WorkerTimer
     PROVE  UNCHANGED <<jpc, jname, jcfg, jatt, jserial, jout>>
  BY <1>3
  DEF TakeProposal, ReadConfig, adoptCandidates, WorkerAnnounce, pendingJobs, WorkerSleep, WorkerWoken,
    WorkerTimer, jobs
<1>4. ASSUME NEW e \in wJobs, NEW g \in Goroutines, startJob(e, g) PROVE TypeJobs'
  BY <1>h, <1>4 DEF startJob, TypeJobs, HasChallenge, Installing, TypeActors
<1>5. ASSUME NEW g \in Goroutines, JobBegin(g) PROVE TypeJobs'
  BY <1>h, <1>5, LimitAssumption DEF JobBegin, TypeJobs, HasChallenge, Installing
<1>6. ASSUME NEW g \in Goroutines, ScriptStale(g) PROVE TypeJobs'
  BY <1>h, <1>6 DEF ScriptStale, TypeJobs, HasChallenge, Installing
<1>7. ASSUME NEW g \in Goroutines, ScriptAccepts(g) PROVE TypeJobs'
  BY <1>h, <1>7 DEF ScriptAccepts, TypeJobs, HasChallenge, Installing
<1>8. ASSUME NEW g \in Goroutines, ScriptRefusesRenewal(g) PROVE TypeJobs'
  BY <1>h, <1>8 DEF ScriptRefusesRenewal, TypeJobs, HasChallenge, Installing
<1>9. ASSUME NEW g \in Goroutines, ScriptRefuses(g) PROVE TypeJobs'
  BY <1>h, <1>9 DEF ScriptRefuses, TypeJobs, HasChallenge, Installing
<1>10. ASSUME NEW g \in Goroutines, NEW out \in {"temp", "perm"}, IssueFails(g, out) PROVE TypeJobs'
  BY <1>h, <1>10, BoundAssumption DEF IssueFails, attemptEnds, TypeJobs, HasChallenge, Installing
<1>11. ASSUME NEW g \in Goroutines, IssueChallenge(g) PROVE TypeJobs'
  BY <1>h, <1>11 DEF IssueChallenge, TypeJobs, HasChallenge, Installing
<1>12. ASSUME NEW g \in Goroutines, IssueAuthorized(g) PROVE TypeJobs'
  BY <1>h, <1>12 DEF IssueAuthorized, TypeJobs, HasChallenge, Installing
<1>13. ASSUME NEW g \in Goroutines, IssueFinalize(g) PROVE TypeJobs'
  BY <1>h, <1>13, BoundAssumption DEF IssueFinalize, TypeJobs, HasChallenge, Installing, TypeDisk
<1>14. ASSUME NEW g \in Goroutines, InstallRefused(g) PROVE TypeJobs'
  BY <1>h, <1>14, BoundAssumption DEF InstallRefused, attemptEnds, TypeJobs, HasChallenge, Installing
<1>15. ASSUME NEW g \in Goroutines, InstallBegin(g) PROVE TypeJobs'
  BY <1>h, <1>15 DEF InstallBegin, TypeJobs, HasChallenge, Installing
<1>16. ASSUME NEW g \in Goroutines, WriteKey(g) PROVE TypeJobs'
  BY <1>h, <1>16 DEF WriteKey, TypeJobs, HasChallenge, Installing
<1>17. ASSUME NEW g \in Goroutines, WriteCert(g) PROVE TypeJobs'
  BY <1>h, <1>17 DEF WriteCert, TypeJobs, HasChallenge, Installing
<1>18. ASSUME NEW g \in Goroutines, InstallCommit(g) PROVE TypeJobs'
  BY <1>h, <1>18, BoundAssumption DEF InstallCommit, attemptEnds, TypeJobs, HasChallenge, Installing
<1>19. ASSUME NEW g \in Goroutines, InstallFails(g) PROVE TypeJobs'
  BY <1>h, <1>19, BoundAssumption DEF InstallFails, attemptEnds, TypeJobs, HasChallenge, Installing
<1>20. ASSUME NEW g \in Goroutines, IssueReturn(g) PROVE TypeJobs'
  BY <1>h, <1>20 DEF IssueReturn, TypeJobs, HasChallenge, Installing, afterAttempt
<1>21. ASSUME NEW g \in Goroutines, Backoff(g) PROVE TypeJobs'
  <2>1. jatt[g] \in 0..certAttempts /\ jatt[g] < certAttempts
    BY <1>h, <1>21 DEF Backoff, LocalsOK, TypeJobs
  <2>2. jatt' \in [Goroutines -> 0..certAttempts]
    BY <1>h, <1>21, <2>1, LimitAssumption DEF Backoff, TypeJobs
  <2> QED
    BY <1>h, <1>21, <2>2 DEF Backoff, TypeJobs, jobs
<1>22. ASSUME NEW g \in Goroutines, JobFinish(g) PROVE TypeJobs'
  BY <1>h, <1>22 DEF JobFinish, TypeJobs, HasChallenge, Installing
<1>23. ASSUME NEW g \in Goroutines, JobRelease(g) PROVE TypeJobs'
  BY <1>h, <1>23, LimitAssumption DEF JobRelease, TypeJobs, HasChallenge, Installing
<1>24. ASSUME NEW g \in Goroutines, JobWake(g) PROVE TypeJobs'
  BY <1>h, <1>24 DEF JobWake, TypeJobs, HasChallenge, Installing
<1>25. ASSUME (\E d \in Names : RemoveCertificate(d)) \/ (\E d \in Names : RetryNow(d)) \/ ConsoleWake \/
            (\E s \in Serials : Age(s)) \/ (\E d \in Names : RetryElapsed(d)) \/
            (\E d \in Names : RejectElapsed(d))
     PROVE  UNCHANGED <<jpc, jname, jcfg, jatt, jserial, jout>>
  BY <1>25 DEF RemoveCertificate, RetryNow, ConsoleWake, Age, RetryElapsed, RejectElapsed, jobs
<1>26. ASSUME Crash PROVE TypeJobs'
  BY <1>h, <1>26, LimitAssumption, BoundAssumption DEF Crash, TypeJobs, HasChallenge, Installing
<1> QED
  BY <1>u, <1>1, <1>2, <1>3, <1>4, <1>5, <1>6, <1>7, <1>8, <1>9, <1>10, <1>11, <1>12, <1>13, <1>14,
    <1>15, <1>16, <1>17, <1>18, <1>19, <1>20, <1>21, <1>22, <1>23, <1>24, <1>25, <1>26
  DEF Next, ApplyStep, HandshakeStep, WorkerStep, JobStep

\* What the program counters say about the other locals.
LEMMA LocalsStep ==
  ASSUME TypeOK, LocalsOK, Next
  PROVE  LocalsOK'
<1>h. TypeMaps /\ TypeDisk /\ TypeActors /\ TypeFlags /\ TypeJobs /\ LocalsOK /\ TypeOK
  BY DEF TypeOK
<1>u. ASSUME UNCHANGED <<applied, inFlight, jpc, jname, jcfg, jatt, hpc, hname, apc, wpc, wcfg, wJobs>> PROVE LocalsOK'
  BY <1>h, <1>u DEF LocalsOK, Active
<1>1. ASSUME NEW c \in Configs, ApplyBegin(c) PROVE LocalsOK'
  <2>1. Len(applied') = Len(applied) + 1 /\ applied' # <<>> /\ Len(applied) \in Nat
    BY <1>h, <1>1 DEF ApplyBegin, TypeMaps
  <2>2. UNCHANGED <<jpc, jname, jcfg, jatt, hpc, hname, wpc, wcfg, wJobs, inFlight>>
    BY <1>1 DEF ApplyBegin, shakes, jobs, worker
  <2> QED
    BY <1>h, <2>1, <2>2 DEF LocalsOK, Active, TypeJobs, TypeActors
<1>2. ASSUME NEW d \in Names, ApplyRead(d) PROVE LocalsOK'
  BY <1>h, <1>2 DEF ApplyRead, LocalsOK, Active, TypeJobs, maps, worker, shakes, jobs
<1>3. ASSUME ApplyStore PROVE LocalsOK'
  BY <1>h, <1>3 DEF ApplyStore, LocalsOK, Active, TypeJobs, worker, shakes, jobs
<1>4. ASSUME ApplyEnd PROVE LocalsOK'
  BY <1>h, <1>4 DEF ApplyEnd, announce, LocalsOK, Active, TypeJobs, worker, shakes, jobs
<1>5. ASSUME ApplyWake PROVE LocalsOK'
  BY <1>h, <1>5 DEF ApplyWake, LocalsOK, Active, TypeJobs, maps, worker, shakes, jobs
<1>6. ASSUME Start PROVE LocalsOK'
  BY <1>h, <1>6 DEF Start, LocalsOK, Active, TypeJobs, maps, applier, shakes, jobs
<1>7. ASSUME NEW h \in Handshakes, NEW d \in Names, HandshakeLoad(h, d) PROVE LocalsOK'
  BY <1>h, <1>7 DEF HandshakeLoad, LocalsOK, Active, TypeJobs, maps, applier, worker, jobs, TypeActors
<1>8. ASSUME NEW h \in Handshakes, HandshakePush(h) PROVE LocalsOK'
  BY <1>h, <1>8 DEF HandshakePush, LocalsOK, Active, TypeJobs, maps, applier, worker, jobs, TypeActors
<1>9. ASSUME NEW h \in Handshakes, HandshakeWake(h) PROVE LocalsOK'
  BY <1>h, <1>9 DEF HandshakeWake, LocalsOK, Active, TypeJobs, maps, applier, worker, jobs, TypeActors
<1>10. ASSUME TakeProposal
     PROVE  UNCHANGED <<applied, inFlight, jpc, jname, jcfg, jatt, hpc, hname, apc, wpc, wcfg, wJobs>>
  BY <1>10 DEF TakeProposal, applier, worker, shakes, jobs
<1>11. ASSUME ReadConfig PROVE LocalsOK'
  BY <1>h, <1>11 DEF ReadConfig, LocalsOK, Active, TypeJobs, maps, applier, shakes, jobs, TypeMaps
<1>12. ASSUME adoptCandidates PROVE LocalsOK'
  BY <1>h, <1>12 DEF adoptCandidates, LocalsOK, Active, TypeJobs, applier, shakes, jobs
<1>13. ASSUME WorkerAnnounce PROVE LocalsOK'
  BY <1>h, <1>13 DEF WorkerAnnounce, announce, LocalsOK, Active, TypeJobs, applier, shakes, jobs
<1>14. ASSUME pendingJobs PROVE LocalsOK'
  BY <1>h, <1>14 DEF pendingJobs, LocalsOK, Active, TypeJobs, maps, applier, shakes, jobs
<1>15. ASSUME NEW e \in wJobs, NEW g \in Goroutines, startJob(e, g) PROVE LocalsOK'
  <2>1. e[1] \in Names /\ wcfg \in 1..Len(applied)
    BY <1>h, <1>15 DEF startJob, canStart, Current, LocalsOK, TypeActors, TypeMaps
  <2>2. \A x \in Active' : jname'[x] \in Names /\ jcfg'[x] \in 1..Len(applied')
    BY <1>h, <1>15, <2>1 DEF startJob, LocalsOK, Active, TypeJobs
  <2>3. IsFiniteSet(inFlight')
    BY <1>h, <1>15, FS_AddElement DEF startJob, LocalsOK
  <2> QED
    BY <1>h, <1>15, <2>2, <2>3 DEF startJob, LocalsOK, TypeJobs, shakes, applier
<1>16. ASSUME WorkerSleep PROVE LocalsOK'
  BY <1>h, <1>16 DEF WorkerSleep, LocalsOK, Active, TypeJobs, maps, applier, shakes, jobs
<1>17. ASSUME WorkerWoken PROVE LocalsOK'
  BY <1>h, <1>17 DEF WorkerWoken, LocalsOK, Active, TypeJobs, maps, applier, shakes, jobs
<1>18. ASSUME WorkerTimer PROVE LocalsOK'
  BY <1>h, <1>18 DEF WorkerTimer, LocalsOK, Active, TypeJobs, maps, applier, shakes, jobs
<1>19. ASSUME NEW g \in Goroutines, JobBegin(g) PROVE LocalsOK'
  BY <1>h, <1>19 DEF JobBegin, LocalsOK, Active, TypeJobs, maps, applier, worker, shakes
<1>20. ASSUME NEW g \in Goroutines, ScriptStale(g) PROVE LocalsOK'
  BY <1>h, <1>20 DEF ScriptStale, LocalsOK, Active, TypeJobs, maps, applier, worker, shakes
<1>21. ASSUME NEW g \in Goroutines, ScriptAccepts(g) PROVE LocalsOK'
  BY <1>h, <1>21 DEF ScriptAccepts, LocalsOK, Active, TypeJobs, applier, worker, shakes
<1>22. ASSUME NEW g \in Goroutines, ScriptRefusesRenewal(g) PROVE LocalsOK'
  BY <1>h, <1>22 DEF ScriptRefusesRenewal, LocalsOK, Active, TypeJobs, applier, worker, shakes
<1>23. ASSUME NEW g \in Goroutines, ScriptRefuses(g) PROVE LocalsOK'
  BY <1>h, <1>23 DEF ScriptRefuses, LocalsOK, Active, TypeJobs, applier, worker, shakes
<1>24. ASSUME NEW g \in Goroutines, NEW out \in {"temp", "perm"}, IssueFails(g, out) PROVE LocalsOK'
  BY <1>h, <1>24 DEF IssueFails, attemptEnds, LocalsOK, Active, TypeJobs, maps, applier, worker, shakes
<1>25. ASSUME NEW g \in Goroutines, IssueChallenge(g) PROVE LocalsOK'
  BY <1>h, <1>25 DEF IssueChallenge, LocalsOK, Active, TypeJobs, applier, worker, shakes
<1>26. ASSUME NEW g \in Goroutines, IssueAuthorized(g) PROVE LocalsOK'
  BY <1>h, <1>26 DEF IssueAuthorized, LocalsOK, Active, TypeJobs, maps, applier, worker, shakes
<1>27. ASSUME NEW g \in Goroutines, IssueFinalize(g) PROVE LocalsOK'
  BY <1>h, <1>27 DEF IssueFinalize, LocalsOK, Active, TypeJobs, maps, applier, worker, shakes
<1>28. ASSUME NEW g \in Goroutines, InstallRefused(g) PROVE LocalsOK'
  BY <1>h, <1>28 DEF InstallRefused, attemptEnds, LocalsOK, Active, TypeJobs, maps, applier, worker, shakes
<1>29. ASSUME NEW g \in Goroutines, InstallBegin(g) PROVE LocalsOK'
  BY <1>h, <1>29 DEF InstallBegin, LocalsOK, Active, TypeJobs, maps, applier, worker, shakes
<1>30. ASSUME NEW g \in Goroutines, WriteKey(g) PROVE LocalsOK'
  BY <1>h, <1>30 DEF WriteKey, LocalsOK, Active, TypeJobs, maps, applier, worker, shakes
<1>31. ASSUME NEW g \in Goroutines, WriteCert(g) PROVE LocalsOK'
  BY <1>h, <1>31 DEF WriteCert, LocalsOK, Active, TypeJobs, maps, applier, worker, shakes
<1>32. ASSUME NEW g \in Goroutines, InstallCommit(g) PROVE LocalsOK'
  BY <1>h, <1>32 DEF InstallCommit, attemptEnds, LocalsOK, Active, TypeJobs, applier, worker, shakes
<1>33. ASSUME NEW g \in Goroutines, InstallFails(g) PROVE LocalsOK'
  BY <1>h, <1>33
  DEF InstallFails, attemptEnds, LocalsOK, Active, TypeJobs, maps, applier, worker, shakes, Installing
<1>34. ASSUME NEW g \in Goroutines, IssueReturn(g) PROVE LocalsOK'
  BY <1>h, <1>34 DEF IssueReturn, LocalsOK, Active, TypeJobs, applier, worker, shakes, afterAttempt
<1>35. ASSUME NEW g \in Goroutines, Backoff(g) PROVE LocalsOK'
  BY <1>h, <1>35 DEF Backoff, LocalsOK, Active, TypeJobs, maps, applier, worker, shakes
<1>36. ASSUME NEW g \in Goroutines, JobFinish(g) PROVE LocalsOK'
  BY <1>h, <1>36 DEF JobFinish, LocalsOK, Active, TypeJobs, applier, worker, shakes
<1>37. ASSUME NEW g \in Goroutines, JobRelease(g) PROVE LocalsOK'
  <2>1. IsFiniteSet(inFlight')
    BY <1>h, <1>37, FS_RemoveElement DEF JobRelease, LocalsOK
  <2>2. \A x \in Active' : jname'[x] \in Names /\ jcfg'[x] \in 1..Len(applied')
    BY <1>h, <1>37 DEF JobRelease, LocalsOK, Active, TypeJobs
  <2> QED
    BY <1>h, <1>37, <2>1, <2>2 DEF JobRelease, LocalsOK, TypeJobs, shakes, applier, worker
<1>38. ASSUME NEW g \in Goroutines, JobWake(g) PROVE LocalsOK'
  BY <1>h, <1>38 DEF JobWake, LocalsOK, Active, TypeJobs, maps, applier, worker, shakes
<1>39. ASSUME (\E d \in Names : RemoveCertificate(d)) \/ (\E d \in Names : RetryNow(d)) \/ ConsoleWake \/
            (\E s \in Serials : Age(s)) \/ (\E d \in Names : RetryElapsed(d)) \/
            (\E d \in Names : RejectElapsed(d))
     PROVE  UNCHANGED <<applied, inFlight, jpc, jname, jcfg, jatt, hpc, hname, apc, wpc, wcfg, wJobs>>
  BY <1>39
  DEF RemoveCertificate, RetryNow, ConsoleWake, Age, RetryElapsed, RejectElapsed, applier, worker, shakes,
    jobs, maps
<1>40. ASSUME Crash PROVE LocalsOK'
  <2>1. IsFiniteSet(inFlight')
    BY <1>40, FS_EmptySet DEF Crash
  <2> QED
    BY <1>40, <2>1 DEF Crash, LocalsOK, Active
<1> QED
  BY <1>u, <1>1, <1>2, <1>3, <1>4, <1>5, <1>6, <1>7, <1>8, <1>9, <1>10, <1>11, <1>12, <1>13, <1>14,
    <1>15, <1>16, <1>17, <1>18, <1>19, <1>20, <1>21, <1>22, <1>23, <1>24, <1>25, <1>26, <1>27, <1>28,
    <1>29, <1>30, <1>31, <1>32, <1>33, <1>34, <1>35, <1>36, <1>37, <1>38, <1>39, <1>40
  DEF Next, ApplyStep, HandshakeStep, WorkerStep, JobStep

\* The per-name guard: only startJob and the release of a job touch it.
LEMMA OneJobStep ==
  ASSUME TypeOK, LocalsOK, OneJobPerName, Next
  PROVE  OneJobPerName'
<1>h. TypeOK /\ TypeJobs /\ TypeMaps /\ TypeActors /\ LocalsOK /\ OneJobPerName
  BY DEF TypeOK
<1>u. ASSUME UNCHANGED <<inFlight, jpc, jname>> PROVE OneJobPerName'
  BY <1>h, <1>u DEF OneJobPerName, Active
<1>1. ASSUME (\E c \in Configs : ApplyBegin(c)) \/ (\E d \in Names : ApplyRead(d)) \/ ApplyStore \/ ApplyEnd \/
            ApplyWake \/ Start
     PROVE  UNCHANGED <<inFlight, jpc, jname>>
  BY <1>1 DEF ApplyBegin, ApplyRead, ApplyStore, ApplyEnd, ApplyWake, Start, jobs, maps
<1>2. ASSUME (\E h \in Handshakes, d \in Names : HandshakeLoad(h, d)) \/
            (\E h \in Handshakes : HandshakePush(h)) \/ (\E h \in Handshakes : HandshakeWake(h))
     PROVE  UNCHANGED <<inFlight, jpc, jname>>
  BY <1>2 DEF HandshakeLoad, HandshakePush, HandshakeWake, maps, jobs
<1>3. ASSUME TakeProposal \/ ReadConfig \/ adoptCandidates \/ WorkerAnnounce \/ pendingJobs \/ WorkerSleep \/
            WorkerWoken \/ WorkerTimer
     PROVE  UNCHANGED <<inFlight, jpc, jname>>
  BY <1>3
  DEF TakeProposal, ReadConfig, adoptCandidates, WorkerAnnounce, pendingJobs, WorkerSleep, WorkerWoken,
    WorkerTimer, jobs, maps
<1>4. ASSUME NEW e \in wJobs, NEW g \in Goroutines, startJob(e, g) PROVE OneJobPerName'
  <2>1. Active' = Active \cup {g} /\ g \notin Active
    BY <1>h, <1>4 DEF startJob, Active, TypeJobs
  <2>2. jname'[g] = e[1] /\ \A x \in Active : jname'[x] = jname[x]
    BY <1>h, <1>4, <2>1 DEF startJob, Active, TypeJobs
  <2>3. e[1] \notin inFlight /\ inFlight' = inFlight \cup {e[1]} /\ Cardinality(inFlight) < maxParallelJobs
    BY <1>4 DEF startJob, canStart
  <2>4. inFlight' = {jname'[x] : x \in Active'}
    BY <1>h, <2>1, <2>2, <2>3 DEF OneJobPerName
  <2>5. \A x, y \in Active' : jname'[x] = jname'[y] => x = y
    BY <1>h, <2>1, <2>2, <2>3 DEF OneJobPerName
  <2>6. IsFiniteSet(inFlight)
    BY <1>h DEF LocalsOK
  <2>7. Cardinality(inFlight') = Cardinality(inFlight) + 1 /\ Cardinality(inFlight) \in Nat
    BY <2>3, <2>6, FS_AddElement, FS_CardinalityType
  <2>8. Cardinality(inFlight') <= maxParallelJobs
    BY <2>3, <2>7, LimitAssumption
  <2> QED
    BY <2>4, <2>5, <2>8 DEF OneJobPerName
<1>5. ASSUME NEW g \in Goroutines, JobBegin(g) PROVE OneJobPerName'
  BY <1>h, <1>5 DEF JobBegin, OneJobPerName, Active, TypeJobs, Installing, maps
<1>6. ASSUME NEW g \in Goroutines, ScriptStale(g) PROVE OneJobPerName'
  BY <1>h, <1>6 DEF ScriptStale, OneJobPerName, Active, TypeJobs, Installing, maps
<1>7. ASSUME NEW g \in Goroutines, ScriptAccepts(g) PROVE OneJobPerName'
  BY <1>h, <1>7 DEF ScriptAccepts, OneJobPerName, Active, TypeJobs, Installing
<1>8. ASSUME NEW g \in Goroutines, ScriptRefusesRenewal(g) PROVE OneJobPerName'
  BY <1>h, <1>8 DEF ScriptRefusesRenewal, OneJobPerName, Active, TypeJobs, Installing
<1>9. ASSUME NEW g \in Goroutines, ScriptRefuses(g) PROVE OneJobPerName'
  BY <1>h, <1>9 DEF ScriptRefuses, OneJobPerName, Active, TypeJobs, Installing
<1>10. ASSUME NEW g \in Goroutines, NEW out \in {"temp", "perm"}, IssueFails(g, out) PROVE OneJobPerName'
  BY <1>h, <1>10 DEF IssueFails, attemptEnds, OneJobPerName, Active, TypeJobs, Installing, maps
<1>11. ASSUME NEW g \in Goroutines, IssueChallenge(g) PROVE OneJobPerName'
  BY <1>h, <1>11 DEF IssueChallenge, OneJobPerName, Active, TypeJobs, Installing
<1>12. ASSUME NEW g \in Goroutines, IssueAuthorized(g) PROVE OneJobPerName'
  BY <1>h, <1>12 DEF IssueAuthorized, OneJobPerName, Active, TypeJobs, Installing, maps
<1>13. ASSUME NEW g \in Goroutines, IssueFinalize(g) PROVE OneJobPerName'
  BY <1>h, <1>13 DEF IssueFinalize, OneJobPerName, Active, TypeJobs, Installing, maps
<1>14. ASSUME NEW g \in Goroutines, InstallRefused(g) PROVE OneJobPerName'
  BY <1>h, <1>14 DEF InstallRefused, attemptEnds, OneJobPerName, Active, TypeJobs, Installing, maps
<1>15. ASSUME NEW g \in Goroutines, InstallBegin(g) PROVE OneJobPerName'
  BY <1>h, <1>15 DEF InstallBegin, OneJobPerName, Active, TypeJobs, Installing, maps
<1>16. ASSUME NEW g \in Goroutines, WriteKey(g) PROVE OneJobPerName'
  BY <1>h, <1>16 DEF WriteKey, OneJobPerName, Active, TypeJobs, Installing, maps
<1>17. ASSUME NEW g \in Goroutines, WriteCert(g) PROVE OneJobPerName'
  BY <1>h, <1>17 DEF WriteCert, OneJobPerName, Active, TypeJobs, Installing, maps
<1>18. ASSUME NEW g \in Goroutines, InstallCommit(g) PROVE OneJobPerName'
  BY <1>h, <1>18 DEF InstallCommit, attemptEnds, OneJobPerName, Active, TypeJobs, Installing
<1>19. ASSUME NEW g \in Goroutines, InstallFails(g) PROVE OneJobPerName'
  BY <1>h, <1>19 DEF InstallFails, attemptEnds, OneJobPerName, Active, TypeJobs, Installing, maps
<1>20. ASSUME NEW g \in Goroutines, IssueReturn(g) PROVE OneJobPerName'
  BY <1>h, <1>20 DEF IssueReturn, OneJobPerName, Active, TypeJobs, Installing, afterAttempt
<1>21. ASSUME NEW g \in Goroutines, Backoff(g) PROVE OneJobPerName'
  BY <1>h, <1>21 DEF Backoff, OneJobPerName, Active, TypeJobs, Installing, maps
<1>22. ASSUME NEW g \in Goroutines, JobFinish(g) PROVE OneJobPerName'
  BY <1>h, <1>22 DEF JobFinish, OneJobPerName, Active, TypeJobs, Installing
<1>23. ASSUME NEW g \in Goroutines, JobRelease(g) PROVE OneJobPerName'
  <2>1. Active' = Active \ {g} /\ g \in Active
    BY <1>h, <1>23 DEF JobRelease, Active, TypeJobs
  <2>2. \A x \in Active' : jname'[x] = jname[x]
    BY <1>h, <1>23, <2>1 DEF JobRelease, Active, TypeJobs
  <2>3. inFlight' = inFlight \ {jname[g]}
    BY <1>23 DEF JobRelease
  <2>4. inFlight' = {jname'[x] : x \in Active'}
    BY <1>h, <2>1, <2>2, <2>3 DEF OneJobPerName
  <2>5. \A x, y \in Active' : jname'[x] = jname'[y] => x = y
    BY <1>h, <2>1, <2>2 DEF OneJobPerName
  <2>6. Cardinality(inFlight') <= Cardinality(inFlight)
    BY <1>h, <2>3, FS_Subset DEF LocalsOK
  <2>7. Cardinality(inFlight') \in Nat /\ Cardinality(inFlight) \in Nat
    BY <1>h, <2>3, FS_Subset, FS_CardinalityType DEF LocalsOK
  <2>8. Cardinality(inFlight') <= maxParallelJobs
    BY <1>h, <2>6, <2>7, LimitAssumption DEF OneJobPerName
  <2> QED
    BY <2>4, <2>5, <2>8 DEF OneJobPerName
<1>24. ASSUME NEW g \in Goroutines, JobWake(g) PROVE OneJobPerName'
  BY <1>h, <1>24 DEF JobWake, OneJobPerName, Active, TypeJobs, Installing, maps
<1>25. ASSUME (\E d \in Names : RemoveCertificate(d)) \/ (\E d \in Names : RetryNow(d)) \/ ConsoleWake \/
            (\E s \in Serials : Age(s)) \/ (\E d \in Names : RetryElapsed(d)) \/
            (\E d \in Names : RejectElapsed(d))
     PROVE  UNCHANGED <<inFlight, jpc, jname>>
  BY <1>25 DEF RemoveCertificate, RetryNow, ConsoleWake, Age, RetryElapsed, RejectElapsed, jobs, maps
<1>26. ASSUME Crash PROVE OneJobPerName'
  <2>1. inFlight' = {} /\ Active' = {}
    BY <1>26 DEF Crash, Active
  <2>2. Cardinality(inFlight') <= maxParallelJobs
    BY <2>1, FS_EmptySet, LimitAssumption
  <2> QED
    BY <2>1, <2>2 DEF OneJobPerName
<1> QED
  BY <1>u, <1>1, <1>2, <1>3, <1>4, <1>5, <1>6, <1>7, <1>8, <1>9, <1>10, <1>11, <1>12, <1>13, <1>14,
    <1>15, <1>16, <1>17, <1>18, <1>19, <1>20, <1>21, <1>22, <1>23, <1>24, <1>25, <1>26
  DEF Next, ApplyStep, HandshakeStep, WorkerStep, JobStep

\* Challenges are published and withdrawn by the job they belong to.
LEMMA ChallengeStep ==
  ASSUME TypeOK, LocalsOK, OneJobPerName, ChallengeOwned, Next
  PROVE  ChallengeOwned'
<1>h. TypeOK /\ TypeJobs /\ LocalsOK /\ OneJobPerName /\ ChallengeOwned
  BY DEF TypeOK
<1>u. ASSUME UNCHANGED <<challenges, jpc, jname>> PROVE ChallengeOwned'
  BY <1>h, <1>u DEF ChallengeOwned, Active
<1>1. ASSUME (\E c \in Configs : ApplyBegin(c)) \/ (\E d \in Names : ApplyRead(d)) \/ ApplyStore \/ ApplyEnd \/
            ApplyWake \/ Start
     PROVE  UNCHANGED <<challenges, jpc, jname>>
  BY <1>1 DEF ApplyBegin, ApplyRead, ApplyStore, ApplyEnd, ApplyWake, Start, jobs, maps
<1>2. ASSUME (\E h \in Handshakes, d \in Names : HandshakeLoad(h, d)) \/
            (\E h \in Handshakes : HandshakePush(h)) \/ (\E h \in Handshakes : HandshakeWake(h))
     PROVE  UNCHANGED <<challenges, jpc, jname>>
  BY <1>2 DEF HandshakeLoad, HandshakePush, HandshakeWake, maps, jobs
<1>3. ASSUME TakeProposal \/ ReadConfig \/ adoptCandidates \/ WorkerAnnounce \/ pendingJobs \/ WorkerSleep \/
            WorkerWoken \/ WorkerTimer
     PROVE  UNCHANGED <<challenges, jpc, jname>>
  BY <1>3
  DEF TakeProposal, ReadConfig, adoptCandidates, WorkerAnnounce, pendingJobs, WorkerSleep, WorkerWoken,
    WorkerTimer, jobs, maps
<1>4. ASSUME NEW e \in wJobs, NEW g \in Goroutines, startJob(e, g) PROVE ChallengeOwned'
  BY <1>h, <1>4 DEF startJob, ChallengeOwned, OneJobPerName, Active, TypeJobs, HasChallenge, Installing
<1>5. ASSUME NEW g \in Goroutines, JobBegin(g) PROVE ChallengeOwned'
  BY <1>h, <1>5 DEF JobBegin, ChallengeOwned, OneJobPerName, Active, TypeJobs, HasChallenge, Installing, maps
<1>6. ASSUME NEW g \in Goroutines, ScriptStale(g) PROVE ChallengeOwned'
  BY <1>h, <1>6
  DEF ScriptStale, ChallengeOwned, OneJobPerName, Active, TypeJobs, HasChallenge, Installing, maps
<1>7. ASSUME NEW g \in Goroutines, ScriptAccepts(g) PROVE ChallengeOwned'
  BY <1>h, <1>7 DEF ScriptAccepts, ChallengeOwned, OneJobPerName, Active, TypeJobs, HasChallenge, Installing
<1>8. ASSUME NEW g \in Goroutines, ScriptRefusesRenewal(g) PROVE ChallengeOwned'
  BY <1>h, <1>8
  DEF ScriptRefusesRenewal, ChallengeOwned, OneJobPerName, Active, TypeJobs, HasChallenge, Installing
<1>9. ASSUME NEW g \in Goroutines, ScriptRefuses(g) PROVE ChallengeOwned'
  BY <1>h, <1>9 DEF ScriptRefuses, ChallengeOwned, OneJobPerName, Active, TypeJobs, HasChallenge, Installing
<1>10. ASSUME NEW g \in Goroutines, NEW out \in {"temp", "perm"}, IssueFails(g, out) PROVE ChallengeOwned'
  BY <1>h, <1>10
  DEF IssueFails, attemptEnds, ChallengeOwned, OneJobPerName, Active, TypeJobs, HasChallenge, Installing,
      maps
<1>11. ASSUME NEW g \in Goroutines, IssueChallenge(g) PROVE ChallengeOwned'
  BY <1>h, <1>11 DEF IssueChallenge, ChallengeOwned, OneJobPerName, Active, TypeJobs, HasChallenge, Installing
<1>12. ASSUME NEW g \in Goroutines, IssueAuthorized(g) PROVE ChallengeOwned'
  BY <1>h, <1>12
  DEF IssueAuthorized, ChallengeOwned, OneJobPerName, Active, TypeJobs, HasChallenge, Installing, maps
<1>13. ASSUME NEW g \in Goroutines, IssueFinalize(g) PROVE ChallengeOwned'
  BY <1>h, <1>13
  DEF IssueFinalize, ChallengeOwned, OneJobPerName, Active, TypeJobs, HasChallenge, Installing, maps
<1>14. ASSUME NEW g \in Goroutines, InstallRefused(g) PROVE ChallengeOwned'
  BY <1>h, <1>14
  DEF InstallRefused, attemptEnds, ChallengeOwned, OneJobPerName, Active, TypeJobs, HasChallenge,
      Installing, maps
<1>15. ASSUME NEW g \in Goroutines, InstallBegin(g) PROVE ChallengeOwned'
  BY <1>h, <1>15
  DEF InstallBegin, ChallengeOwned, OneJobPerName, Active, TypeJobs, HasChallenge, Installing, maps
<1>16. ASSUME NEW g \in Goroutines, WriteKey(g) PROVE ChallengeOwned'
  BY <1>h, <1>16 DEF WriteKey, ChallengeOwned, OneJobPerName, Active, TypeJobs, HasChallenge, Installing, maps
<1>17. ASSUME NEW g \in Goroutines, WriteCert(g) PROVE ChallengeOwned'
  BY <1>h, <1>17
  DEF WriteCert, ChallengeOwned, OneJobPerName, Active, TypeJobs, HasChallenge, Installing, maps
<1>18. ASSUME NEW g \in Goroutines, InstallCommit(g) PROVE ChallengeOwned'
  BY <1>h, <1>18
  DEF InstallCommit, attemptEnds, ChallengeOwned, OneJobPerName, Active, TypeJobs, HasChallenge,
      Installing
<1>19. ASSUME NEW g \in Goroutines, InstallFails(g) PROVE ChallengeOwned'
  BY <1>h, <1>19
  DEF InstallFails, attemptEnds, ChallengeOwned, OneJobPerName, Active, TypeJobs, HasChallenge,
      Installing, maps
<1>20. ASSUME NEW g \in Goroutines, IssueReturn(g) PROVE ChallengeOwned'
  BY <1>h, <1>20
  DEF IssueReturn, ChallengeOwned, OneJobPerName, Active, TypeJobs, HasChallenge, Installing,
      afterAttempt, withdraw
<1>21. ASSUME NEW g \in Goroutines, Backoff(g) PROVE ChallengeOwned'
  BY <1>h, <1>21 DEF Backoff, ChallengeOwned, OneJobPerName, Active, TypeJobs, HasChallenge, Installing, maps
<1>22. ASSUME NEW g \in Goroutines, JobFinish(g) PROVE ChallengeOwned'
  BY <1>h, <1>22 DEF JobFinish, ChallengeOwned, OneJobPerName, Active, TypeJobs, HasChallenge, Installing
<1>23. ASSUME NEW g \in Goroutines, JobRelease(g) PROVE ChallengeOwned'
  BY <1>h, <1>23 DEF JobRelease, ChallengeOwned, OneJobPerName, Active, TypeJobs, HasChallenge, Installing
<1>24. ASSUME NEW g \in Goroutines, JobWake(g) PROVE ChallengeOwned'
  BY <1>h, <1>24 DEF JobWake, ChallengeOwned, OneJobPerName, Active, TypeJobs, HasChallenge, Installing, maps
<1>25. ASSUME (\E d \in Names : RemoveCertificate(d)) \/ (\E d \in Names : RetryNow(d)) \/ ConsoleWake \/
            (\E s \in Serials : Age(s)) \/ (\E d \in Names : RetryElapsed(d)) \/
            (\E d \in Names : RejectElapsed(d))
     PROVE  UNCHANGED <<challenges, jpc, jname>>
  BY <1>25 DEF RemoveCertificate, RetryNow, ConsoleWake, Age, RetryElapsed, RejectElapsed, jobs, maps
<1>26. ASSUME Crash PROVE ChallengeOwned'
  BY <1>h, <1>26 DEF Crash, ChallengeOwned, OneJobPerName, Active, TypeJobs, HasChallenge, Installing
<1> QED
  BY <1>u, <1>1, <1>2, <1>3, <1>4, <1>5, <1>6, <1>7, <1>8, <1>9, <1>10, <1>11, <1>12, <1>13, <1>14,
    <1>15, <1>16, <1>17, <1>18, <1>19, <1>20, <1>21, <1>22, <1>23, <1>24, <1>25, <1>26
  DEF Next, ApplyStep, HandshakeStep, WorkerStep, JobStep

\* applyMu keeps configuration changes out of a commit.
LEMMA CommitStep ==
  ASSUME TypeOK, LocalsOK, CommitsAreCurrent, Next
  PROVE  CommitsAreCurrent'
<1>h. TypeOK /\ TypeJobs /\ TypeMaps /\ TypeActors /\ LocalsOK /\ CommitsAreCurrent
  BY DEF TypeOK
<1>u. ASSUME UNCHANGED <<applied, apc, jpc, jcfg>> PROVE CommitsAreCurrent'
  BY <1>h, <1>u DEF CommitsAreCurrent, Current
<1>1. ASSUME Start
     PROVE  UNCHANGED <<applied, apc, jpc, jcfg>>
  BY <1>1 DEF Start, applier, jobs
<1>2. ASSUME NEW c \in Configs, ApplyBegin(c) PROVE CommitsAreCurrent'
  BY <1>h, <1>2
  DEF ApplyBegin, CommitsAreCurrent, Current, TypeJobs, TypeMaps, HasChallenge, Installing, jobs,
      ApplyMuFree
<1>3. ASSUME NEW d \in Names, ApplyRead(d) PROVE CommitsAreCurrent'
  BY <1>h, <1>3 DEF ApplyRead, CommitsAreCurrent, Current, TypeJobs, TypeMaps, HasChallenge, Installing, jobs
<1>4. ASSUME ApplyStore PROVE CommitsAreCurrent'
  BY <1>h, <1>4 DEF ApplyStore, CommitsAreCurrent, Current, TypeJobs, TypeMaps, HasChallenge, Installing, jobs
<1>5. ASSUME ApplyEnd PROVE CommitsAreCurrent'
  BY <1>h, <1>5
  DEF ApplyEnd, announce, CommitsAreCurrent, Current, TypeJobs, TypeMaps, HasChallenge, Installing, jobs
<1>6. ASSUME ApplyWake PROVE CommitsAreCurrent'
  BY <1>h, <1>6 DEF ApplyWake, CommitsAreCurrent, Current, TypeJobs, TypeMaps, HasChallenge, Installing, jobs
<1>7. ASSUME (\E h \in Handshakes, d \in Names : HandshakeLoad(h, d)) \/
            (\E h \in Handshakes : HandshakePush(h)) \/ (\E h \in Handshakes : HandshakeWake(h))
     PROVE  UNCHANGED <<applied, apc, jpc, jcfg>>
  BY <1>7 DEF HandshakeLoad, HandshakePush, HandshakeWake, applier, jobs
<1>8. ASSUME TakeProposal \/ ReadConfig \/ adoptCandidates \/ WorkerAnnounce \/ pendingJobs \/ WorkerSleep \/
            WorkerWoken \/ WorkerTimer
     PROVE  UNCHANGED <<applied, apc, jpc, jcfg>>
  BY <1>8
  DEF TakeProposal, ReadConfig, adoptCandidates, WorkerAnnounce, pendingJobs, WorkerSleep, WorkerWoken,
    WorkerTimer, applier, jobs
<1>9. ASSUME NEW e \in wJobs, NEW g \in Goroutines, startJob(e, g) PROVE CommitsAreCurrent'
  BY <1>h, <1>9
  DEF startJob, CommitsAreCurrent, Current, TypeJobs, TypeMaps, HasChallenge, Installing, applier
<1>10. ASSUME NEW g \in Goroutines, JobBegin(g) PROVE CommitsAreCurrent'
  BY <1>h, <1>10
  DEF JobBegin, CommitsAreCurrent, Current, TypeJobs, TypeMaps, HasChallenge, Installing, applier
<1>11. ASSUME NEW g \in Goroutines, ScriptStale(g) PROVE CommitsAreCurrent'
  BY <1>h, <1>11
  DEF ScriptStale, CommitsAreCurrent, Current, TypeJobs, TypeMaps, HasChallenge, Installing, applier
<1>12. ASSUME NEW g \in Goroutines, ScriptAccepts(g) PROVE CommitsAreCurrent'
  BY <1>h, <1>12
  DEF ScriptAccepts, CommitsAreCurrent, Current, TypeJobs, TypeMaps, HasChallenge, Installing, applier
<1>13. ASSUME NEW g \in Goroutines, ScriptRefusesRenewal(g) PROVE CommitsAreCurrent'
  BY <1>h, <1>13
  DEF ScriptRefusesRenewal, CommitsAreCurrent, Current, TypeJobs, TypeMaps, HasChallenge, Installing,
      applier
<1>14. ASSUME NEW g \in Goroutines, ScriptRefuses(g) PROVE CommitsAreCurrent'
  BY <1>h, <1>14
  DEF ScriptRefuses, CommitsAreCurrent, Current, TypeJobs, TypeMaps, HasChallenge, Installing, applier
<1>15. ASSUME NEW g \in Goroutines, NEW out \in {"temp", "perm"}, IssueFails(g, out) PROVE CommitsAreCurrent'
  BY <1>h, <1>15
  DEF IssueFails, attemptEnds, CommitsAreCurrent, Current, TypeJobs, TypeMaps, HasChallenge, Installing,
      applier
<1>16. ASSUME NEW g \in Goroutines, IssueChallenge(g) PROVE CommitsAreCurrent'
  BY <1>h, <1>16
  DEF IssueChallenge, CommitsAreCurrent, Current, TypeJobs, TypeMaps, HasChallenge, Installing, applier
<1>17. ASSUME NEW g \in Goroutines, IssueAuthorized(g) PROVE CommitsAreCurrent'
  BY <1>h, <1>17
  DEF IssueAuthorized, CommitsAreCurrent, Current, TypeJobs, TypeMaps, HasChallenge, Installing, applier
<1>18. ASSUME NEW g \in Goroutines, IssueFinalize(g) PROVE CommitsAreCurrent'
  BY <1>h, <1>18
  DEF IssueFinalize, CommitsAreCurrent, Current, TypeJobs, TypeMaps, HasChallenge, Installing, applier
<1>19. ASSUME NEW g \in Goroutines, InstallRefused(g) PROVE CommitsAreCurrent'
  BY <1>h, <1>19
  DEF InstallRefused, attemptEnds, CommitsAreCurrent, Current, TypeJobs, TypeMaps, HasChallenge,
      Installing, applier
<1>20. ASSUME NEW g \in Goroutines, InstallBegin(g) PROVE CommitsAreCurrent'
  BY <1>h, <1>20
  DEF InstallBegin, CommitsAreCurrent, Current, TypeJobs, TypeMaps, HasChallenge, Installing, applier,
      mayInstall, ApplyMuFree
<1>21. ASSUME NEW g \in Goroutines, WriteKey(g) PROVE CommitsAreCurrent'
  BY <1>h, <1>21
  DEF WriteKey, CommitsAreCurrent, Current, TypeJobs, TypeMaps, HasChallenge, Installing, applier
<1>22. ASSUME NEW g \in Goroutines, WriteCert(g) PROVE CommitsAreCurrent'
  BY <1>h, <1>22
  DEF WriteCert, CommitsAreCurrent, Current, TypeJobs, TypeMaps, HasChallenge, Installing, applier
<1>23. ASSUME NEW g \in Goroutines, InstallCommit(g) PROVE CommitsAreCurrent'
  BY <1>h, <1>23
  DEF InstallCommit, attemptEnds, CommitsAreCurrent, Current, TypeJobs, TypeMaps, HasChallenge,
      Installing, applier
<1>24. ASSUME NEW g \in Goroutines, InstallFails(g) PROVE CommitsAreCurrent'
  BY <1>h, <1>24
  DEF InstallFails, attemptEnds, CommitsAreCurrent, Current, TypeJobs, TypeMaps, HasChallenge, Installing,
      applier
<1>25. ASSUME NEW g \in Goroutines, IssueReturn(g) PROVE CommitsAreCurrent'
  BY <1>h, <1>25
  DEF IssueReturn, CommitsAreCurrent, Current, TypeJobs, TypeMaps, HasChallenge, Installing, applier,
      afterAttempt
<1>26. ASSUME NEW g \in Goroutines, Backoff(g) PROVE CommitsAreCurrent'
  BY <1>h, <1>26
  DEF Backoff, CommitsAreCurrent, Current, TypeJobs, TypeMaps, HasChallenge, Installing, applier
<1>27. ASSUME NEW g \in Goroutines, JobFinish(g) PROVE CommitsAreCurrent'
  BY <1>h, <1>27
  DEF JobFinish, CommitsAreCurrent, Current, TypeJobs, TypeMaps, HasChallenge, Installing, applier
<1>28. ASSUME NEW g \in Goroutines, JobRelease(g) PROVE CommitsAreCurrent'
  BY <1>h, <1>28
  DEF JobRelease, CommitsAreCurrent, Current, TypeJobs, TypeMaps, HasChallenge, Installing, applier
<1>29. ASSUME NEW g \in Goroutines, JobWake(g) PROVE CommitsAreCurrent'
  BY <1>h, <1>29
  DEF JobWake, CommitsAreCurrent, Current, TypeJobs, TypeMaps, HasChallenge, Installing, applier
<1>30. ASSUME (\E d \in Names : RemoveCertificate(d)) \/ (\E d \in Names : RetryNow(d)) \/ ConsoleWake \/
            (\E s \in Serials : Age(s)) \/ (\E d \in Names : RetryElapsed(d)) \/
            (\E d \in Names : RejectElapsed(d))
     PROVE  UNCHANGED <<applied, apc, jpc, jcfg>>
  BY <1>30 DEF RemoveCertificate, RetryNow, ConsoleWake, Age, RetryElapsed, RejectElapsed, applier, jobs
<1>31. ASSUME Crash PROVE CommitsAreCurrent'
  BY <1>h, <1>31 DEF Crash, CommitsAreCurrent, Current, TypeJobs, TypeMaps, HasChallenge, Installing
<1> QED
  BY <1>u, <1>1, <1>2, <1>3, <1>4, <1>5, <1>6, <1>7, <1>8, <1>9, <1>10, <1>11, <1>12, <1>13, <1>14,
    <1>15, <1>16, <1>17, <1>18, <1>19, <1>20, <1>21, <1>22, <1>23, <1>24, <1>25, <1>26, <1>27, <1>28,
    <1>29, <1>30, <1>31
  DEF Next, ApplyStep, HandshakeStep, WorkerStep, JobStep

\* A job's step to a place it may go from where it is, its name and the
\* configuration's lists left alone, keeps the names allowed.
LEMMA NamesKept ==
  ASSUME TypeJobs, NamesAllowed, NEW g \in Goroutines, NEW to,
         UNCHANGED <<applied, dynamic, candidates, wcfg, wJobs, jname, jcfg>>,
         jpc' = [jpc EXCEPT ![g] = to], jpc[g] \notin {"idle", "wake"},
         to # "asking", to \in Issuing => jpc[g] \in Issuing
  PROVE  NamesAllowed'
<1>1. \A h \in Goroutines : jpc'[h] = IF h = g THEN to ELSE jpc[h]
  BY DEF TypeJobs
<1>2. Active' \subseteq Active
  BY <1>1 DEF Active
<1>3. \A i : Managed(i)' = Managed(i) /\ Conf(i)' = Conf(i) /\ Current(i)' = Current(i)
  BY DEF Managed, Conf, Current
<1>4. \A h \in Goroutines : (jpc'[h] = "asking" => jpc[h] = "asking") /\ (jpc'[h] \in Issuing => jpc[h] \in Issuing)
  BY <1>1
<1>5. \A h \in Active :
        /\ jname[h] \in AutoDomains[Conf(jcfg[h])] \cup ScriptNames[Conf(jcfg[h])]
        /\ jpc'[h] = "asking" => jname[h] \notin AutoDomains[Conf(jcfg[h])]
        /\ jpc'[h] \in Issuing /\ Current(jcfg[h]) => jname[h] \in Managed(jcfg[h])
  BY <1>4, Zenon DEF NamesAllowed, Active
<1> QED
  BY <1>2, <1>3, <1>5, Zenon DEF NamesAllowed, Conf, Current, Managed

\* Names in play are names the configuration allows.
LEMMA NamesStep ==
  ASSUME TypeOK, LocalsOK, OneJobPerName, NamesAllowed, Next
  PROVE  NamesAllowed'
<1>h. TypeOK /\ TypeJobs /\ TypeMaps /\ TypeActors /\ LocalsOK /\ OneJobPerName /\ NamesAllowed
  BY DEF TypeOK
<1>u. ASSUME UNCHANGED <<applied, dynamic, candidates, wcfg, wJobs, jpc, jname, jcfg>> PROVE NamesAllowed'
  BY <1>h, <1>u DEF NamesAllowed, Active, Current, Conf, Managed
<1>1. ASSUME (\E d \in Names : ApplyRead(d)) \/ ApplyStore \/ ApplyEnd \/ ApplyWake \/ Start
     PROVE  UNCHANGED <<applied, dynamic, candidates, wcfg, wJobs, jpc, jname, jcfg>>
  BY <1>1 DEF ApplyRead, ApplyStore, ApplyEnd, ApplyWake, Start, maps, worker, jobs
<1>2. ASSUME NEW c \in Configs, ApplyBegin(c) PROVE NamesAllowed'
  BY <1>h, <1>2, ConfigAssumption
  DEF ApplyBegin, NamesAllowed, Active, Current, Conf, Managed, TypeJobs, TypeMaps, TypeActors, LocalsOK,
      OneJobPerName, HasChallenge, Installing, Issuing, worker, jobs, scriptCovers
<1>3. ASSUME (\E h \in Handshakes, d \in Names : HandshakeLoad(h, d)) \/
            (\E h \in Handshakes : HandshakePush(h)) \/ (\E h \in Handshakes : HandshakeWake(h))
     PROVE  UNCHANGED <<applied, dynamic, candidates, wcfg, wJobs, jpc, jname, jcfg>>
  BY <1>3 DEF HandshakeLoad, HandshakePush, HandshakeWake, maps, worker, jobs
<1>4. ASSUME WorkerAnnounce \/ WorkerWoken \/ WorkerTimer
     PROVE  UNCHANGED <<applied, dynamic, candidates, wcfg, wJobs, jpc, jname, jcfg>>
  BY <1>4 DEF WorkerAnnounce, WorkerWoken, WorkerTimer, jobs, maps
<1>5. ASSUME TakeProposal PROVE NamesAllowed'
  BY <1>h, <1>5, ConfigAssumption
  DEF TakeProposal, NamesAllowed, Active, Current, Conf, Managed, TypeJobs, TypeMaps, TypeActors,
      LocalsOK, OneJobPerName, HasChallenge, Installing, Issuing, worker, jobs
<1>6. ASSUME ReadConfig PROVE NamesAllowed'
  BY <1>h, <1>6, ConfigAssumption
  DEF ReadConfig, NamesAllowed, Active, Current, Conf, Managed, TypeJobs, TypeMaps, TypeActors, LocalsOK,
      OneJobPerName, HasChallenge, Installing, Issuing, maps, jobs
<1>7. ASSUME adoptCandidates PROVE NamesAllowed'
  BY <1>h, <1>7, ConfigAssumption
  DEF adoptCandidates, NamesAllowed, Active, Current, Conf, Managed, TypeJobs, TypeMaps, TypeActors,
      LocalsOK, OneJobPerName, HasChallenge, Installing, Issuing, jobs
<1>8. ASSUME pendingJobs PROVE NamesAllowed'
  BY <1>h, <1>8, ConfigAssumption
  DEF pendingJobs, NamesAllowed, Active, Current, Conf, Managed, TypeJobs, TypeMaps, TypeActors, LocalsOK,
      OneJobPerName, HasChallenge, Installing, Issuing, maps, jobs, listed
<1>9. ASSUME NEW e \in wJobs, NEW g \in Goroutines, startJob(e, g) PROVE NamesAllowed'
  BY <1>h, <1>9, ConfigAssumption
  DEF startJob, NamesAllowed, Active, Current, Conf, Managed, TypeJobs, TypeMaps, TypeActors, LocalsOK,
      OneJobPerName, HasChallenge, Installing, Issuing, canStart, NextListed
<1>10. ASSUME WorkerSleep PROVE NamesAllowed'
  <2>1. wJobs' = {} /\ UNCHANGED <<applied, dynamic, candidates, wcfg, jpc, jname, jcfg>>
    BY <1>10 DEF WorkerSleep, maps, jobs
  <2>2. Active' = Active
    BY <2>1 DEF Active
  <2>3. \A i : Managed(i)' = Managed(i) /\ Conf(i)' = Conf(i) /\ Current(i)' = Current(i)
    BY <2>1 DEF Managed, Conf, Current
  <2> QED
    BY <1>h, <2>1, <2>2, <2>3, Zenon DEF NamesAllowed, Conf
<1>11. ASSUME NEW g \in Goroutines, JobBegin(g) PROVE NamesAllowed'
  BY <1>h, <1>11, ConfigAssumption
  DEF JobBegin, NamesAllowed, Active, Current, Conf, Managed, TypeJobs, TypeMaps, TypeActors, LocalsOK,
      OneJobPerName, HasChallenge, Installing, Issuing, maps, worker
<1>12. ASSUME NEW g \in Goroutines, ScriptStale(g) PROVE NamesAllowed'
  <2>1. jpc[g] = "asking" /\ jpc' = [jpc EXCEPT ![g] = "exit"] /\
        UNCHANGED <<applied, dynamic, candidates, wcfg, wJobs, jname, jcfg>>
    BY <1>12 DEF ScriptStale, maps, worker
  <2> QED
    BY <1>h, <2>1, NamesKept DEF Issuing, HasChallenge, Installing
<1>13. ASSUME NEW g \in Goroutines, ScriptAccepts(g) PROVE NamesAllowed'
  <2>1. /\ jpc[g] = "asking" /\ Current(jcfg[g]) /\ jpc' = [jpc EXCEPT ![g] = "issue"]
        /\ candidates' = candidates \ {jname[g]} /\ dynamic' = dynamic \cup {jname[g]}
        /\ UNCHANGED <<applied, wcfg, wJobs, jname, jcfg>>
    BY <1>13 DEF ScriptAccepts, worker
  <2>2. \A h \in Goroutines : jpc'[h] = IF h = g THEN "issue" ELSE jpc[h]
    BY <1>h, <2>1 DEF TypeJobs
  <2>3. Active' = Active /\ g \in Active
    BY <2>1, <2>2 DEF Active
  <2>4. /\ jname[g] \in ScriptNames[Conf(jcfg[g])] /\ jcfg[g] = Len(applied)
        /\ \A i : Managed(i)' = Managed(i) \cup {jname[g]}
    BY <1>h, <2>1, <2>3 DEF NamesAllowed, Managed, Conf, Current
  <2>5. applied # <<>> => (dynamic \cup candidates)' \subseteq ScriptNames[Conf(Len(applied))]
    BY <1>h, <2>1, <2>4 DEF NamesAllowed
  <2>6. ASSUME NEW h \in Active
        PROVE  /\ jname[h] \in AutoDomains[Conf(jcfg[h])] \cup ScriptNames[Conf(jcfg[h])]
               /\ jpc'[h] = "asking" => jname[h] \notin AutoDomains[Conf(jcfg[h])]
               /\ jpc'[h] \in Issuing /\ Current(jcfg[h]) => jname[h] \in Managed(jcfg[h])'
    <3>1. CASE h = g
      BY <1>h, <2>2, <2>3, <2>4, <3>1 DEF NamesAllowed
    <3>2. CASE h # g
      <4>1. jpc'[h] = jpc[h]
        BY <2>2, <3>2 DEF Active
      <4>2. Managed(jcfg[h]) \subseteq Managed(jcfg[h])'
        BY <2>1 DEF Managed, Conf
      <4> QED
        BY <1>h, <4>1, <4>2 DEF NamesAllowed
    <3> QED
      BY <3>1, <3>2
  <2> QED
    BY <1>h, <2>1, <2>3, <2>5, <2>6 DEF NamesAllowed, Conf, Current, Managed
<1>14. ASSUME NEW g \in Goroutines, ScriptRefusesRenewal(g) PROVE NamesAllowed'
  BY <1>h, <1>14, ConfigAssumption
  DEF ScriptRefusesRenewal, NamesAllowed, Active, Current, Conf, Managed, TypeJobs, TypeMaps, TypeActors,
      LocalsOK, OneJobPerName, HasChallenge, Installing, Issuing, worker
<1>15. ASSUME NEW g \in Goroutines, ScriptRefuses(g) PROVE NamesAllowed'
  BY <1>h, <1>15, ConfigAssumption
  DEF ScriptRefuses, NamesAllowed, Active, Current, Conf, Managed, TypeJobs, TypeMaps, TypeActors,
      LocalsOK, OneJobPerName, HasChallenge, Installing, Issuing, worker
<1>16. ASSUME NEW g \in Goroutines, NEW out \in {"temp", "perm"}, IssueFails(g, out) PROVE NamesAllowed'
  <2>1. jpc[g] \in {"issue", "validating", "finalize"} /\ jpc' = [jpc EXCEPT ![g] = "return"] /\
        UNCHANGED <<applied, dynamic, candidates, wcfg, wJobs, jname, jcfg>>
    BY <1>16 DEF IssueFails, attemptEnds, maps, worker
  <2> QED
    BY <1>h, <2>1, NamesKept DEF Issuing, HasChallenge, Installing
<1>17. ASSUME NEW g \in Goroutines, IssueChallenge(g) PROVE NamesAllowed'
  BY <1>h, <1>17, ConfigAssumption
  DEF IssueChallenge, NamesAllowed, Active, Current, Conf, Managed, TypeJobs, TypeMaps, TypeActors,
      LocalsOK, OneJobPerName, HasChallenge, Installing, Issuing, worker
<1>18. ASSUME NEW g \in Goroutines, IssueAuthorized(g) PROVE NamesAllowed'
  <2>1. jpc[g] \in {"issue", "validating"} /\ jpc' = [jpc EXCEPT ![g] = "finalize"] /\
        UNCHANGED <<applied, dynamic, candidates, wcfg, wJobs, jname, jcfg>>
    BY <1>18 DEF IssueAuthorized, maps, worker
  <2> QED
    BY <1>h, <2>1, NamesKept DEF Issuing, HasChallenge, Installing
<1>19. ASSUME NEW g \in Goroutines, IssueFinalize(g) PROVE NamesAllowed'
  <2>1. jpc[g] = "finalize" /\ jpc' = [jpc EXCEPT ![g] = "install"] /\
        UNCHANGED <<applied, dynamic, candidates, wcfg, wJobs, jname, jcfg>>
    BY <1>19 DEF IssueFinalize, maps, worker
  <2> QED
    BY <1>h, <2>1, NamesKept DEF Issuing, HasChallenge, Installing
<1>20. ASSUME NEW g \in Goroutines, InstallRefused(g) PROVE NamesAllowed'
  <2>1. jpc[g] = "install" /\ jpc' = [jpc EXCEPT ![g] = "return"] /\
        UNCHANGED <<applied, dynamic, candidates, wcfg, wJobs, jname, jcfg>>
    BY <1>20 DEF InstallRefused, attemptEnds, maps, worker
  <2> QED
    BY <1>h, <2>1, NamesKept DEF Issuing, HasChallenge, Installing
<1>21. ASSUME NEW g \in Goroutines, InstallBegin(g) PROVE NamesAllowed'
  <2>1. jpc[g] = "install" /\ jpc' = [jpc EXCEPT ![g] = "writekey"] /\
        UNCHANGED <<applied, dynamic, candidates, wcfg, wJobs, jname, jcfg>>
    BY <1>21 DEF InstallBegin, maps, worker
  <2> QED
    BY <1>h, <2>1, NamesKept DEF Issuing, HasChallenge, Installing
<1>22. ASSUME NEW g \in Goroutines, WriteKey(g) PROVE NamesAllowed'
  <2>1. jpc[g] = "writekey" /\ jpc' = [jpc EXCEPT ![g] = "writecert"] /\
        UNCHANGED <<applied, dynamic, candidates, wcfg, wJobs, jname, jcfg>>
    BY <1>22 DEF WriteKey, maps, worker
  <2> QED
    BY <1>h, <2>1, NamesKept DEF Issuing, HasChallenge, Installing
<1>23. ASSUME NEW g \in Goroutines, WriteCert(g) PROVE NamesAllowed'
  <2>1. jpc[g] = "writecert" /\ jpc' = [jpc EXCEPT ![g] = "commit"] /\
        UNCHANGED <<applied, dynamic, candidates, wcfg, wJobs, jname, jcfg>>
    BY <1>23 DEF WriteCert, maps, worker
  <2> QED
    BY <1>h, <2>1, NamesKept DEF Issuing, HasChallenge, Installing
<1>24. ASSUME NEW g \in Goroutines, InstallCommit(g) PROVE NamesAllowed'
  BY <1>h, <1>24, ConfigAssumption
  DEF InstallCommit, attemptEnds, NamesAllowed, Active, Current, Conf, Managed, TypeJobs, TypeMaps,
      TypeActors, LocalsOK, OneJobPerName, HasChallenge, Installing, Issuing, worker
<1>25. ASSUME NEW g \in Goroutines, InstallFails(g) PROVE NamesAllowed'
  <2>1. jpc[g] \in Installing /\ jpc' = [jpc EXCEPT ![g] = "return"] /\
        UNCHANGED <<applied, dynamic, candidates, wcfg, wJobs, jname, jcfg>>
    BY <1>25 DEF InstallFails, attemptEnds, maps, worker
  <2> QED
    BY <1>h, <2>1, NamesKept DEF Issuing, HasChallenge, Installing
<1>26. ASSUME NEW g \in Goroutines, IssueReturn(g) PROVE NamesAllowed'
  BY <1>h, <1>26, ConfigAssumption
  DEF IssueReturn, NamesAllowed, Active, Current, Conf, Managed, TypeJobs, TypeMaps, TypeActors, LocalsOK,
      OneJobPerName, HasChallenge, Installing, Issuing, worker, afterAttempt
<1>27. ASSUME NEW g \in Goroutines, Backoff(g) PROVE NamesAllowed'
  <2>1. jpc[g] = "backoff" /\ jpc' = [jpc EXCEPT ![g] = IF Current(jcfg[g]) THEN "issue" ELSE "exit"] /\
        UNCHANGED <<applied, dynamic, candidates, wcfg, wJobs, jname, jcfg>>
    BY <1>27 DEF Backoff, maps, worker
  <2> QED
    BY <1>h, <2>1, NamesKept DEF Issuing, HasChallenge, Installing
<1>28. ASSUME NEW g \in Goroutines, JobFinish(g) PROVE NamesAllowed'
  BY <1>h, <1>28, ConfigAssumption
  DEF JobFinish, NamesAllowed, Active, Current, Conf, Managed, TypeJobs, TypeMaps, TypeActors, LocalsOK,
      OneJobPerName, HasChallenge, Installing, Issuing, worker
<1>29. ASSUME NEW g \in Goroutines, JobRelease(g) PROVE NamesAllowed'
  BY <1>h, <1>29, ConfigAssumption
  DEF JobRelease, NamesAllowed, Active, Current, Conf, Managed, TypeJobs, TypeMaps, TypeActors, LocalsOK,
      OneJobPerName, HasChallenge, Installing, Issuing, worker
<1>30. ASSUME NEW g \in Goroutines, JobWake(g) PROVE NamesAllowed'
  BY <1>h, <1>30, ConfigAssumption
  DEF JobWake, NamesAllowed, Active, Current, Conf, Managed, TypeJobs, TypeMaps, TypeActors, LocalsOK,
      OneJobPerName, HasChallenge, Installing, Issuing, maps, worker
<1>31. ASSUME (\E d \in Names : RetryNow(d)) \/ ConsoleWake \/ (\E s \in Serials : Age(s)) \/
            (\E d \in Names : RetryElapsed(d)) \/ (\E d \in Names : RejectElapsed(d))
     PROVE  UNCHANGED <<applied, dynamic, candidates, wcfg, wJobs, jpc, jname, jcfg>>
  BY <1>31 DEF RetryNow, ConsoleWake, Age, RetryElapsed, RejectElapsed, worker, jobs, maps
<1>32. ASSUME NEW d \in Names, RemoveCertificate(d) PROVE NamesAllowed'
  BY <1>h, <1>32, ConfigAssumption
  DEF RemoveCertificate, NamesAllowed, Active, Current, Conf, Managed, TypeJobs, TypeMaps, TypeActors,
      LocalsOK, OneJobPerName, HasChallenge, Installing, Issuing, worker, jobs
<1>33. ASSUME Crash PROVE NamesAllowed'
  BY <1>h, <1>33, ConfigAssumption
  DEF Crash, NamesAllowed, Active, Current, Conf, Managed, TypeJobs, TypeMaps, TypeActors, LocalsOK,
      OneJobPerName, HasChallenge, Installing, Issuing
<1> QED
  BY <1>u, <1>1, <1>2, <1>3, <1>4, <1>5, <1>6, <1>7, <1>8, <1>9, <1>10, <1>11, <1>12, <1>13, <1>14,
    <1>15, <1>16, <1>17, <1>18, <1>19, <1>20, <1>21, <1>22, <1>23, <1>24, <1>25, <1>26, <1>27, <1>28,
    <1>29, <1>30, <1>31, <1>32, <1>33
  DEF Next, ApplyStep, HandshakeStep, WorkerStep, JobStep

\* The initial state satisfies the inductive invariant.
LEMMA InitIInv == Init => IInv
<1> SUFFICES ASSUME Init PROVE IInv
  OBVIOUS
<1>1. TypeMaps /\ TypeDisk /\ TypeActors /\ TypeJobs
  BY LimitAssumption, BoundAssumption
  DEF Init, TypeMaps, TypeDisk, TypeActors, TypeJobs, HasChallenge, Installing, Serials
<1>2. TypeFlags
  BY DEF Init, TypeFlags
<1>3. Active = {} /\ inFlight = {} /\ IsFiniteSet(inFlight) /\ Cardinality(inFlight) = 0
  BY FS_EmptySet DEF Init, Active
<1>4. LocalsOK
  BY <1>3 DEF Init, LocalsOK
<1>5. OneJobPerName /\ ChallengeOwned
  BY <1>3, LimitAssumption DEF Init, OneJobPerName, ChallengeOwned
<1>6. CommitsAreCurrent /\ NamesAllowed
  BY <1>3 DEF Init, CommitsAreCurrent, NamesAllowed, Installing
<1> QED
  BY <1>1, <1>2, <1>4, <1>5, <1>6 DEF IInv, TypeOK

\* Every step preserves the inductive invariant.
LEMMA NextIInv == IInv /\ [Next]_vars => IInv'
<1> SUFFICES ASSUME IInv, [Next]_vars PROVE IInv'
  OBVIOUS
<1>1. CASE Next
  <2>1. TypeOK'
    BY <1>1, TypeMapsStep, TypeDiskStep, TypeActorsStep, TypeFlagsStep, TypeJobsStep DEF IInv, TypeOK
  <2> QED
    BY <1>1, <2>1, LocalsStep, OneJobStep, ChallengeStep, CommitStep, NamesStep DEF IInv
<1>2. CASE UNCHANGED vars
  <2>1. TypeOK'
    BY <1>2
    DEF IInv, TypeOK, TypeMaps, TypeDisk, TypeActors, TypeFlags, TypeJobs, vars, maps, disk, applier,
        worker, shakes, jobs, world, bounds, history
  <2>2. LocalsOK' /\ OneJobPerName' /\ ChallengeOwned'
    BY <1>2
    DEF IInv, LocalsOK, OneJobPerName, ChallengeOwned, Active, vars, maps, disk, applier, worker, shakes,
        jobs, world, bounds, history
  <2>3. CommitsAreCurrent' /\ NamesAllowed'
    BY <1>2
    DEF IInv, CommitsAreCurrent, NamesAllowed, Active, Current, Conf, Managed, vars, maps, disk, applier,
        worker, shakes, jobs, world, bounds, history
  <2> QED
    BY <2>1, <2>2, <2>3 DEF IInv
<1> QED
  BY <1>1, <1>2

\* The invariant the other theorems are read off.
THEOREM Inductive == Spec => []IInv
  BY InitIInv, NextIInv, PTL DEF Spec

\* Type correctness of the certificate manager, for all names, configurations,
\* limits and bounds.
THEOREM TypeCorrect == Spec => []TypeOK
  BY Inductive, PTL DEF IInv

\* The per-name guard and the limit on parallel jobs (startJob) hold whatever
\* reloads, refusals, failures and crashes come in between.
THEOREM JobsAreExclusive == Spec => []OneJobPerName
  BY Inductive, PTL DEF IInv

\* No TLS-ALPN-01 answer outlives the issue call that published it.
THEOREM ChallengesAreOwned == Spec => []ChallengeOwned
  BY Inductive, PTL DEF IInv

\* installCertificate and Apply exclude each other, and what is being
\* committed belongs to the configuration that is current.
THEOREM CommitsStayCurrent == Spec => []CommitsAreCurrent
  BY Inductive, PTL DEF IInv

\* scriptAllows is only ever asked about a name its configuration has a script
\* for.
THEOREM AsksHaveScripts == Spec => []AskHasScript
<1>1. IInv => AskHasScript
  BY DEF IInv, NamesAllowed, AskHasScript, Active
<1> QED
  BY Inductive, <1>1, PTL

\* Certificate files are only written for a name the current configuration
\* manages, by a job of that configuration.
THEOREM NoStaleInstall == Spec => StaleNeverInstalls
<1> DEFINE Good == \A d \in Names :
       (diskCert'[d] # diskCert[d] /\ diskCert'[d] # 0) \/ (diskKey'[d] # diskKey[d] /\ diskKey'[d] # 0) =>
         \E g \in Goroutines : jname[g] = d /\ Current(jcfg[g]) /\ d \in Managed(jcfg[g])
<1>1. ASSUME IInv, Next PROVE Good
  <2>h. TypeJobs /\ TypeDisk /\ LocalsOK /\ CommitsAreCurrent /\ NamesAllowed
    BY <1>1 DEF IInv, TypeOK
  <2>u. ASSUME UNCHANGED <<diskKey, diskCert>> PROVE Good
    BY <2>u
  <2>1. ASSUME (\E c \in Configs : ApplyBegin(c)) \/ (\E d \in Names : ApplyRead(d)) \/ ApplyStore \/ ApplyEnd \/
                  ApplyWake \/ Start
       PROVE  UNCHANGED <<diskKey, diskCert>>
    BY <2>1 DEF ApplyBegin, ApplyRead, ApplyStore, ApplyEnd, ApplyWake, Start, disk, world
  <2>2. ASSUME (\E h \in Handshakes, d \in Names : HandshakeLoad(h, d)) \/
                  (\E h \in Handshakes : HandshakePush(h)) \/ (\E h \in Handshakes : HandshakeWake(h))
       PROVE  UNCHANGED <<diskKey, diskCert>>
    BY <2>2 DEF HandshakeLoad, HandshakePush, HandshakeWake, disk, world
  <2>3. ASSUME TakeProposal \/ ReadConfig \/ adoptCandidates \/ WorkerAnnounce \/ pendingJobs \/
                  (\E e \in wJobs, g \in Goroutines : startJob(e, g)) \/ WorkerSleep \/ WorkerWoken \/ WorkerTimer
       PROVE  UNCHANGED <<diskKey, diskCert>>
    BY <2>3 DEF TakeProposal, ReadConfig, adoptCandidates, WorkerAnnounce, pendingJobs, startJob, WorkerSleep,
      WorkerWoken, WorkerTimer, disk, world
  <2>4. ASSUME (\E g \in Goroutines : JobBegin(g)) \/ (\E g \in Goroutines : ScriptStale(g)) \/
                  (\E g \in Goroutines : ScriptAccepts(g)) \/ (\E g \in Goroutines : ScriptRefusesRenewal(g)) \/
                  (\E g \in Goroutines : ScriptRefuses(g)) \/
                  (\E g \in Goroutines, out \in {"temp", "perm"} : IssueFails(g, out)) \/
                  (\E g \in Goroutines : IssueChallenge(g)) \/ (\E g \in Goroutines : IssueAuthorized(g)) \/
                  (\E g \in Goroutines : IssueFinalize(g)) \/ (\E g \in Goroutines : InstallRefused(g)) \/
                  (\E g \in Goroutines : InstallBegin(g)) \/ (\E g \in Goroutines : InstallCommit(g)) \/
                  (\E g \in Goroutines : InstallFails(g)) \/ (\E g \in Goroutines : IssueReturn(g)) \/
                  (\E g \in Goroutines : Backoff(g)) \/ (\E g \in Goroutines : JobFinish(g)) \/
                  (\E g \in Goroutines : JobRelease(g)) \/ (\E g \in Goroutines : JobWake(g))
       PROVE  UNCHANGED <<diskKey, diskCert>>
    BY <2>4 DEF JobBegin, ScriptStale, ScriptAccepts, ScriptRefusesRenewal, ScriptRefuses, IssueFails,
      IssueChallenge, IssueAuthorized, IssueFinalize, InstallRefused, InstallBegin, InstallCommit,
      InstallFails, IssueReturn, Backoff, JobFinish, JobRelease, JobWake, disk, world
  <2>5. ASSUME (\E d \in Names : RetryNow(d)) \/ ConsoleWake \/ (\E s \in Serials : Age(s)) \/
                  (\E d \in Names : RetryElapsed(d)) \/ (\E d \in Names : RejectElapsed(d)) \/ Crash
       PROVE  UNCHANGED <<diskKey, diskCert>>
    BY <2>5 DEF RetryNow, ConsoleWake, Age, RetryElapsed, RejectElapsed, Crash, disk, world
  <2>6. ASSUME NEW g \in Goroutines, WriteKey(g) PROVE Good
    <3>1. Current(jcfg[g]) /\ g \in Active
      BY <2>h, <2>6 DEF WriteKey, CommitsAreCurrent, Installing, Active
    <3>2. jname[g] \in Managed(jcfg[g])
      BY <2>h, <2>6, <3>1 DEF WriteKey, NamesAllowed, Issuing, HasChallenge, Installing
    <3>3. \A d \in Names : d # jname[g] => diskKey'[d] = diskKey[d] /\ diskCert'[d] = diskCert[d]
      BY <2>h, <2>6 DEF WriteKey, TypeDisk
    <3> QED
      BY <3>1, <3>2, <3>3
  <2>7. ASSUME NEW g \in Goroutines, WriteCert(g) PROVE Good
    <3>1. Current(jcfg[g]) /\ g \in Active
      BY <2>h, <2>7 DEF WriteCert, CommitsAreCurrent, Installing, Active
    <3>2. jname[g] \in Managed(jcfg[g])
      BY <2>h, <2>7, <3>1 DEF WriteCert, NamesAllowed, Issuing, HasChallenge, Installing
    <3>3. \A d \in Names : d # jname[g] => diskKey'[d] = diskKey[d] /\ diskCert'[d] = diskCert[d]
      BY <2>h, <2>7 DEF WriteCert, TypeDisk
    <3> QED
      BY <3>1, <3>2, <3>3
  <2>8. ASSUME NEW d \in Names, RemoveCertificate(d) PROVE Good
    BY <2>h, <2>8 DEF RemoveCertificate, TypeDisk
  <2> QED
    BY <1>1, <2>h, <2>u, <2>1, <2>2, <2>3, <2>4, <2>5, <2>6, <2>7, <2>8
    DEF Next, ApplyStep, HandshakeStep, WorkerStep, JobStep
<1>2. IInv /\ [Next]_vars => [Good]_vars
  BY <1>1
<1> QED
  BY Inductive, <1>2, PTL DEF Spec, StaleNeverInstalls
\* A name waits for its next attempt only with its error on record: the two are
\* set and cleared together by every section that touches either.
LEMMA WaitingStep ==
  ASSUME TypeOK, WaitingHasReason, Next
  PROVE  WaitingHasReason'
<1>u. ASSUME UNCHANGED <<waiting, lastError>> PROVE WaitingHasReason'
  BY <1>u DEF WaitingHasReason
<1>1. ASSUME (\E c \in Configs : ApplyBegin(c)) \/ (\E d \in Names : ApplyRead(d)) \/ ApplyStore \/ ApplyWake \/ Start
     PROVE  UNCHANGED <<waiting, lastError>>
  BY <1>1 DEF ApplyBegin, ApplyRead, ApplyStore, ApplyWake, Start, maps
<1>2. ASSUME (\E h \in Handshakes, d \in Names : HandshakeLoad(h, d)) \/
            (\E h \in Handshakes : HandshakePush(h)) \/ (\E h \in Handshakes : HandshakeWake(h))
     PROVE  UNCHANGED <<waiting, lastError>>
  BY <1>2 DEF HandshakeLoad, HandshakePush, HandshakeWake, maps
<1>3. ASSUME TakeProposal \/ ReadConfig \/ adoptCandidates \/ pendingJobs \/
            (\E e \in wJobs, g \in Goroutines : startJob(e, g)) \/ WorkerSleep \/ WorkerWoken \/ WorkerTimer
     PROVE  UNCHANGED <<waiting, lastError>>
  BY <1>3
  DEF TakeProposal, ReadConfig, adoptCandidates, pendingJobs, startJob, WorkerSleep, WorkerWoken, WorkerTimer, maps
<1>4. ASSUME NEW g \in Goroutines,
            JobBegin(g) \/ ScriptStale(g) \/ ScriptAccepts(g) \/ (\E out \in {"temp", "perm"} : IssueFails(g, out)) \/
            IssueChallenge(g) \/ IssueAuthorized(g) \/ IssueFinalize(g) \/ InstallRefused(g) \/ InstallBegin(g)
     PROVE  UNCHANGED <<waiting, lastError>>
  BY <1>4
  DEF JobBegin, ScriptStale, ScriptAccepts, IssueFails, IssueChallenge, IssueAuthorized, IssueFinalize,
    InstallRefused, InstallBegin, maps
<1>5. ASSUME NEW g \in Goroutines,
            WriteKey(g) \/ WriteCert(g) \/ InstallCommit(g) \/ InstallFails(g) \/ IssueReturn(g) \/ Backoff(g) \/
            JobRelease(g) \/ JobWake(g)
     PROVE  UNCHANGED <<waiting, lastError>>
  BY <1>5
  DEF WriteKey, WriteCert, InstallCommit, InstallFails, IssueReturn, Backoff, JobRelease, JobWake, maps
<1>6. ASSUME ConsoleWake \/ (\E s \in Serials : Age(s)) \/ (\E d \in Names : RejectElapsed(d))
     PROVE  UNCHANGED <<waiting, lastError>>
  BY <1>6 DEF ConsoleWake, Age, RejectElapsed, maps
<1>7. ASSUME ApplyEnd \/ WorkerAnnounce PROVE WaitingHasReason'
  BY <1>7 DEF ApplyEnd, WorkerAnnounce, announce, WaitingHasReason
<1>8. ASSUME NEW g \in Goroutines, ScriptRefusesRenewal(g) \/ ScriptRefuses(g) \/ JobFinish(g) PROVE WaitingHasReason'
  BY <1>8 DEF ScriptRefusesRenewal, ScriptRefuses, JobFinish, WaitingHasReason
<1>9. ASSUME NEW d \in Names, RemoveCertificate(d) \/ RetryNow(d) \/ RetryElapsed(d) PROVE WaitingHasReason'
  BY <1>9 DEF RemoveCertificate, RetryNow, RetryElapsed, WaitingHasReason
<1>10. ASSUME Crash PROVE WaitingHasReason'
  BY <1>10 DEF Crash, WaitingHasReason
<1> QED
  BY <1>u, <1>1, <1>2, <1>3, <1>4, <1>5, <1>6, <1>7, <1>8, <1>9, <1>10
  DEF Next, ApplyStep, HandshakeStep, WorkerStep, JobStep

\* The serials: only installations write a certificate, and each of them brings
\* a serial nobody has seen before.
LEMMA SerialsStep ==
  ASSUME IInv, SerialsOK, Next
  PROVE  SerialsOK'
<1>h. TypeMaps /\ TypeDisk /\ TypeActors /\ TypeJobs /\ LocalsOK /\ OneJobPerName /\ CommitsAreCurrent /\ SerialsOK
  BY DEF IInv, TypeOK
<1>n. /\ \A d \in Names : auto[d] \in Nat /\ diskCert[d] \in Nat
      /\ \A g \in Goroutines : jserial[g] \in Nat
      /\ issued \in Nat /\ aRead[2] \in Nat
  BY <1>h, BoundAssumption DEF TypeMaps, TypeDisk, TypeActors, TypeJobs
\* No other job has the name of one that is installing.
<1>o. ASSUME NEW g \in Goroutines, jpc[g] \in {"install"} \cup Installing
     PROVE  /\ g \in Active /\ jname[g] \in Names /\ jname[g] \in inFlight
            /\ \A x \in Goroutines : x \in Active /\ jname[x] = jname[g] => x = g
  BY <1>h, <1>o DEF LocalsOK, OneJobPerName, Active, Installing
<1> DEFINE Early == {"install", "writekey", "writecert"}
           Stays(g) == /\ jpc'[g] \in Early => jpc[g] \in Early
                       /\ jpc'[g] \in {"install", "commit"} => jpc[g] = jpc'[g]
                       /\ jpc'[g] \in Early \cup {"commit"} => jname'[g] = jname[g] /\ jserial'[g] = jserial[g]
                       /\ jserial'[g] \in {jserial[g], 0}
<1>q. ASSUME UNCHANGED <<auto, diskCert, issued, aRead>>, apc' = "store" => apc = "store",
             \A g \in Goroutines : Stays(g)
     PROVE  SerialsOK'
  <2>1. DiskNotBehind' /\ (\A d \in Names : auto'[d] <= issued' /\ diskCert'[d] <= issued')
    BY <1>h, <1>q DEF SerialsOK, DiskNotBehind
  <2>2. aRead'[2] <= issued' /\ \A g \in Goroutines : jserial'[g] <= issued'
    BY <1>h, <1>n, <1>q DEF SerialsOK
  <2>3. \A g \in Goroutines : jpc'[g] \in Early => auto'[jname'[g]] < jserial'[g] /\ diskCert'[jname'[g]] < jserial'[g]
    BY <1>h, <1>q DEF SerialsOK
  <2>4. \A g \in Goroutines : jpc'[g] = "commit" => auto'[jname'[g]] <= jserial'[g] /\ diskCert'[jname'[g]] = jserial'[g]
    BY <1>h, <1>q DEF SerialsOK
  <2>5. apc' = "store" =>
          /\ aRead'[1] \in Names /\ aRead'[2] # 0
          /\ diskCert'[aRead'[1]] \in {0, aRead'[2]} /\ auto'[aRead'[1]] <= aRead'[2]
          /\ \A g \in Goroutines : jpc'[g] = "install" /\ jname'[g] = aRead'[1] => aRead'[2] < jserial'[g]
    BY <1>h, <1>q DEF SerialsOK
  <2> QED
    BY <2>1, <2>2, <2>3, <2>4, <2>5 DEF SerialsOK
<1>1. ASSUME (\E c \in Configs : ApplyBegin(c)) \/ ApplyEnd \/ ApplyWake \/ Start PROVE SerialsOK'
  <2>1. UNCHANGED <<auto, diskCert, issued, aRead, jpc, jname, jserial>> /\ (apc' = "store" => apc = "store")
    BY <1>1 DEF ApplyBegin, ApplyEnd, ApplyWake, Start, maps, disk, world, jobs, applier
  <2> QED
    BY <2>1, <1>q
<1>2. ASSUME NEW d \in Names, ApplyRead(d) PROVE SerialsOK'
  <2>1. UNCHANGED <<auto, diskCert, issued, jpc, jname, jserial>>
    BY <1>2 DEF ApplyRead, maps, disk, world, jobs
  <2>2. CASE Loadable(d)
    <3>1. aRead' = <<d, diskCert[d]>> /\ aRead'[1] = d /\ aRead'[2] = diskCert[d] /\ diskCert[d] # 0
      BY <1>2, <2>2 DEF ApplyRead, Loadable
    <3>2. auto[d] <= diskCert[d]
      BY <1>h, <1>n, <3>1 DEF SerialsOK, DiskNotBehind
    <3>3. \A g \in Goroutines : jpc'[g] = "install" /\ jname'[g] = aRead'[1] => aRead'[2] < jserial'[g]
      BY <1>h, <2>1, <3>1 DEF SerialsOK
    <3> QED
      BY <1>h, <2>1, <3>1, <3>2, <3>3 DEF SerialsOK, DiskNotBehind
  <2>3. CASE ~Loadable(d)
    BY <1>2, <1>q, <2>1, <2>3 DEF ApplyRead
  <2> QED
    BY <2>2, <2>3
<1>3. ASSUME ApplyStore PROVE SerialsOK'
  <2>1. UNCHANGED <<diskCert, issued, jpc, jname, jserial>> /\ apc' = "load" /\ aRead'[2] = 0
    BY <1>3 DEF ApplyStore, disk, world, jobs
  <2>2. /\ aRead[1] \in Names /\ auto'[aRead[1]] = aRead[2]
        /\ \A d \in Names : d # aRead[1] => auto'[d] = auto[d]
    BY <1>h, <1>3 DEF ApplyStore, SerialsOK, TypeMaps
  <2>3. DiskNotBehind'
    BY <1>h, <1>n, <1>3, <2>1, <2>2 DEF ApplyStore, SerialsOK, DiskNotBehind
  <2>4. \A d \in Names : auto'[d] <= issued' /\ diskCert'[d] <= issued'
    BY <1>h, <2>1, <2>2 DEF SerialsOK
  <2>5. ASSUME NEW g \in Goroutines, jpc'[g] \in Early
       PROVE  auto'[jname'[g]] < jserial'[g] /\ diskCert'[jname'[g]] < jserial'[g]
    <3>1. jpc[g] = "install" /\ jname[g] \in Names
      BY <1>h, <1>o, <1>3, <2>1, <2>5 DEF ApplyStore, CommitsAreCurrent, Installing
    <3> QED
      BY <1>h, <1>3, <2>1, <2>2, <3>1 DEF ApplyStore, SerialsOK
  <2>6. \A g \in Goroutines : jpc'[g] # "commit"
    BY <1>h, <1>3, <2>1 DEF ApplyStore, CommitsAreCurrent, Installing
  <2> QED
    BY <1>h, <1>n, <2>1, <2>3, <2>4, <2>5, <2>6 DEF SerialsOK
<1>4. ASSUME (\E h \in Handshakes, d \in Names : HandshakeLoad(h, d)) \/
            (\E h \in Handshakes : HandshakePush(h)) \/ (\E h \in Handshakes : HandshakeWake(h))
     PROVE  SerialsOK'
  <2>1. UNCHANGED <<auto, diskCert, issued, aRead, jpc, jname, jserial, apc>>
    BY <1>4 DEF HandshakeLoad, HandshakePush, HandshakeWake, maps, disk, world, jobs, applier
  <2> QED
    BY <2>1, <1>q
<1>5. ASSUME TakeProposal \/ ReadConfig \/ WorkerAnnounce \/ pendingJobs \/ WorkerSleep \/ WorkerWoken \/ WorkerTimer
     PROVE  SerialsOK'
  <2>1. UNCHANGED <<auto, diskCert, issued, aRead, jpc, jname, jserial, apc>>
    BY <1>5
    DEF TakeProposal, ReadConfig, WorkerAnnounce, pendingJobs, WorkerSleep, WorkerWoken, WorkerTimer,
        maps, disk, world, jobs, applier
  <2> QED
    BY <2>1, <1>q
<1>6. ASSUME NEW e \in wJobs, NEW g \in Goroutines, startJob(e, g) PROVE SerialsOK'
  <2>1. UNCHANGED <<auto, diskCert, issued, aRead, jserial, apc>> /\ jpc'[g] = "begin"
        /\ \A x \in Goroutines : x # g => jpc'[x] = jpc[x] /\ jname'[x] = jname[x]
    BY <1>h, <1>6 DEF startJob, disk, world, applier, TypeJobs
  <2> QED
    BY <2>1, <1>q
<1>7. ASSUME adoptCandidates PROVE SerialsOK'
  <2>1. UNCHANGED <<diskCert, issued, aRead, jpc, jname, jserial, apc>>
    BY <1>7 DEF adoptCandidates, disk, world, jobs, applier
  <2> DEFINE S == IF Current(wcfg) THEN candidates ELSE {}
             good == {d \in S : d \in ScriptNames[Conf(wcfg)] /\ Loadable(d) /\ Usable(diskCert[d])}
  <2>a. auto' = [d \in Names |-> IF d \in good THEN diskCert[d] ELSE auto[d]]
    BY <1>7 DEF adoptCandidates
  <2>2. \A d \in Names : auto'[d] = auto[d] \/ (auto'[d] = diskCert[d] /\ diskCert[d] # 0)
    BY <2>a DEF Loadable
  <2>3. DiskNotBehind' /\ \A d \in Names : auto'[d] <= issued' /\ diskCert'[d] <= issued'
    BY <1>h, <1>n, <2>1, <2>2 DEF SerialsOK, DiskNotBehind
  <2>4. ASSUME NEW g \in Goroutines, jpc'[g] \in Early
       PROVE  auto'[jname'[g]] < jserial'[g] /\ diskCert'[jname'[g]] < jserial'[g]
    BY <1>h, <1>o, <2>1, <2>2, <2>4 DEF SerialsOK, Installing
  <2>5. ASSUME NEW g \in Goroutines, jpc'[g] = "commit"
       PROVE  auto'[jname'[g]] <= jserial'[g] /\ diskCert'[jname'[g]] = jserial'[g]
    BY <1>h, <1>n, <1>o, <2>1, <2>2, <2>5 DEF SerialsOK, Installing
  <2>6. apc = "store" => auto'[aRead[1]] <= aRead[2]
    BY <1>h, <1>n, <2>2 DEF SerialsOK
  <2> QED
    BY <1>h, <2>1, <2>3, <2>4, <2>5, <2>6 DEF SerialsOK
<1>8. ASSUME NEW g \in Goroutines,
            JobBegin(g) \/ ScriptStale(g) \/ ScriptAccepts(g) \/ ScriptRefusesRenewal(g) \/ IssueChallenge(g) \/
            IssueAuthorized(g) \/ IssueReturn(g) \/ Backoff(g) \/ JobFinish(g) \/ JobWake(g)
     PROVE  SerialsOK'
  <2>1. UNCHANGED <<auto, diskCert, issued, aRead, jname, jserial, apc>>
    <3>1. CASE JobBegin(g) \/ ScriptStale(g) \/ ScriptAccepts(g) \/ ScriptRefusesRenewal(g) \/ IssueChallenge(g)
      BY <3>1
      DEF JobBegin, ScriptStale, ScriptAccepts, ScriptRefusesRenewal, IssueChallenge, maps, disk, world, applier
    <3>2. CASE IssueAuthorized(g) \/ IssueReturn(g) \/ Backoff(g) \/ JobFinish(g) \/ JobWake(g)
      BY <3>2 DEF IssueAuthorized, IssueReturn, Backoff, JobFinish, JobWake, maps, disk, world, applier
    <3> QED
      BY <1>8, <3>1, <3>2
  <2>2. jpc'[g] \notin Early \cup {"commit"} /\ \A x \in Goroutines : x # g => jpc'[x] = jpc[x]
    BY <1>h, <1>8
    DEF JobBegin, ScriptStale, ScriptAccepts, ScriptRefusesRenewal, IssueChallenge, IssueAuthorized, IssueReturn,
        Backoff, JobFinish, JobWake, afterAttempt, TypeJobs
  <2> QED
    BY <2>1, <2>2, <1>q
<1>9. ASSUME NEW g \in Goroutines,
            (\E out \in {"temp", "perm"} : IssueFails(g, out)) \/ InstallRefused(g) \/ InstallFails(g) \/ JobRelease(g)
     PROVE  SerialsOK'
  <2>1. UNCHANGED <<auto, diskCert, issued, aRead, apc>>
    BY <1>9 DEF IssueFails, InstallRefused, InstallFails, JobRelease, maps, disk, world, applier
  <2>2. /\ jpc'[g] \notin Early \cup {"commit"} /\ jserial'[g] \in {jserial[g], 0}
        /\ \A x \in Goroutines : x # g => jpc'[x] = jpc[x] /\ jname'[x] = jname[x] /\ jserial'[x] = jserial[x]
    BY <1>h, <1>9 DEF IssueFails, InstallRefused, InstallFails, JobRelease, attemptEnds, TypeJobs
  <2> QED
    BY <2>1, <2>2, <1>q
<1>10. ASSUME NEW g \in Goroutines, InstallBegin(g) \/ WriteKey(g) PROVE SerialsOK'
  <2>1. UNCHANGED <<auto, diskCert, issued, aRead, jname, jserial, apc>>
    BY <1>10 DEF InstallBegin, WriteKey, maps, disk, world, applier
  <2>2. /\ jpc[g] \in Early /\ jpc'[g] \in {"writekey", "writecert"}
        /\ \A x \in Goroutines : x # g => jpc'[x] = jpc[x]
    BY <1>h, <1>10 DEF InstallBegin, WriteKey, TypeJobs
  <2> QED
    BY <2>1, <2>2, <1>q
<1>11. ASSUME NEW g \in Goroutines, ScriptRefuses(g) PROVE SerialsOK'
  <2>1. UNCHANGED <<diskCert, issued, aRead, jname, jserial, apc>>
    BY <1>11 DEF ScriptRefuses, disk, world, applier
  <2>2. \A d \in Names : auto'[d] \in {auto[d], 0}
    BY <1>h, <1>11 DEF ScriptRefuses, TypeMaps
  <2>3. jpc'[g] = "exit" /\ \A x \in Goroutines : x # g => jpc'[x] = jpc[x]
    BY <1>h, <1>11 DEF ScriptRefuses, TypeJobs
  <2>4. DiskNotBehind' /\ \A d \in Names : auto'[d] <= issued' /\ diskCert'[d] <= issued'
    BY <1>h, <1>n, <2>1, <2>2 DEF SerialsOK, DiskNotBehind
  <2>5. ASSUME NEW x \in Goroutines, jpc'[x] \in Early \cup {"commit"}
       PROVE  jpc[x] = jpc'[x] /\ jname[x] \in Names /\ auto'[jname[x]] <= auto[jname[x]]
    BY <1>n, <1>o, <2>2, <2>3, <2>5 DEF Installing
  <2>6. ASSUME NEW x \in Goroutines, jpc'[x] \in Early
       PROVE  auto'[jname'[x]] < jserial'[x] /\ diskCert'[jname'[x]] < jserial'[x]
    BY <1>h, <1>n, <2>1, <2>2, <2>5, <2>6 DEF SerialsOK
  <2>7. ASSUME NEW x \in Goroutines, jpc'[x] = "commit"
       PROVE  auto'[jname'[x]] <= jserial'[x] /\ diskCert'[jname'[x]] = jserial'[x]
    BY <1>h, <1>n, <2>1, <2>2, <2>5, <2>7 DEF SerialsOK
  <2>8. apc = "store" => auto'[aRead[1]] <= aRead[2]
    BY <1>h, <1>n, <2>2 DEF SerialsOK
  <2>9. \A x \in Goroutines : jpc'[x] = "install" => jpc[x] = "install"
    BY <2>3
  <2> QED
    BY <1>h, <2>1, <2>4, <2>6, <2>7, <2>8, <2>9 DEF SerialsOK
<1>12. ASSUME NEW g \in Goroutines, IssueFinalize(g) PROVE SerialsOK'
  <2>1. UNCHANGED <<auto, diskCert, aRead, jname, apc>> /\ issued' = issued + 1
    BY <1>12 DEF IssueFinalize, maps, disk, applier
  <2>2. /\ jpc'[g] = "install" /\ jserial'[g] = issued + 1
        /\ \A x \in Goroutines : x # g => jpc'[x] = jpc[x] /\ jserial'[x] = jserial[x]
    BY <1>h, <1>12 DEF IssueFinalize, TypeJobs
  <2>3. jname[g] \in Names
    BY <1>h, <1>12 DEF IssueFinalize, LocalsOK, Active
  <2>4. DiskNotBehind' /\ \A d \in Names : auto'[d] <= issued' /\ diskCert'[d] <= issued'
    BY <1>h, <1>n, <2>1 DEF SerialsOK, DiskNotBehind
  <2>5. aRead'[2] <= issued' /\ \A x \in Goroutines : jserial'[x] <= issued'
    BY <1>h, <1>n, <2>1, <2>2 DEF SerialsOK
  <2>6. \A x \in Goroutines : jpc'[x] \in Early => auto'[jname'[x]] < jserial'[x] /\ diskCert'[jname'[x]] < jserial'[x]
    BY <1>h, <1>n, <2>1, <2>2, <2>3 DEF SerialsOK
  <2>7. \A x \in Goroutines : jpc'[x] = "commit" => auto'[jname'[x]] <= jserial'[x] /\ diskCert'[jname'[x]] = jserial'[x]
    BY <1>h, <2>1, <2>2 DEF SerialsOK
  <2>8. apc' = "store" =>
          \A x \in Goroutines : jpc'[x] = "install" /\ jname'[x] = aRead'[1] => aRead'[2] < jserial'[x]
    BY <1>h, <1>n, <2>1, <2>2 DEF SerialsOK
  <2> QED
    BY <1>h, <2>1, <2>4, <2>5, <2>6, <2>7, <2>8 DEF SerialsOK
<1>13. ASSUME NEW g \in Goroutines, WriteCert(g) PROVE SerialsOK'
  <2>1. UNCHANGED <<auto, issued, aRead, jname, jserial, apc>> /\ apc = "idle" /\ jpc[g] = "writecert"
    BY <1>h, <1>13 DEF WriteCert, maps, world, applier, CommitsAreCurrent, Installing
  <2>2. jpc'[g] = "commit" /\ \A x \in Goroutines : x # g => jpc'[x] = jpc[x]
    BY <1>h, <1>13 DEF WriteCert, TypeJobs
  <2>3. jname[g] \in Names /\ \A x \in Goroutines : jpc[x] \in Early \cup {"commit"} /\ x # g =>
          jname[x] # jname[g] /\ jname[x] \in Names
    BY <1>o, <2>1 DEF Installing
  <2>4. diskCert'[jname[g]] = jserial[g] /\ \A d \in Names : d # jname[g] => diskCert'[d] = diskCert[d]
    BY <1>h, <1>13, <2>3 DEF WriteCert, TypeDisk
  <2>5. auto[jname[g]] < jserial[g]
    BY <1>h, <2>1 DEF SerialsOK
  <2>6. DiskNotBehind' /\ \A d \in Names : auto'[d] <= issued' /\ diskCert'[d] <= issued'
    BY <1>h, <1>n, <2>1, <2>3, <2>4, <2>5 DEF SerialsOK, DiskNotBehind
  <2>7. \A x \in Goroutines : jpc'[x] \in Early => auto'[jname'[x]] < jserial'[x] /\ diskCert'[jname'[x]] < jserial'[x]
    BY <1>h, <2>1, <2>2, <2>3, <2>4 DEF SerialsOK
  <2>8. \A x \in Goroutines : jpc'[x] = "commit" => auto'[jname'[x]] <= jserial'[x] /\ diskCert'[jname'[x]] = jserial'[x]
    BY <1>h, <1>n, <2>1, <2>2, <2>3, <2>4, <2>5 DEF SerialsOK
  <2> QED
    BY <1>h, <2>1, <2>6, <2>7, <2>8 DEF SerialsOK
<1>14. ASSUME NEW g \in Goroutines, InstallCommit(g) PROVE SerialsOK'
  <2>1. UNCHANGED <<diskCert, issued, aRead, jname, apc>> /\ apc = "idle" /\ jpc[g] = "commit"
    BY <1>h, <1>14 DEF InstallCommit, disk, world, applier, CommitsAreCurrent, Installing
  <2>2. /\ jpc'[g] = "return" /\ jserial'[g] = 0
        /\ \A x \in Goroutines : x # g => jpc'[x] = jpc[x] /\ jserial'[x] = jserial[x]
    BY <1>h, <1>14 DEF InstallCommit, attemptEnds, TypeJobs
  <2>3. jname[g] \in Names /\ \A x \in Goroutines : jpc[x] \in Early \cup {"commit"} /\ x # g =>
          jname[x] # jname[g] /\ jname[x] \in Names
    BY <1>o, <2>1 DEF Installing
  <2>4. auto'[jname[g]] = diskCert[jname[g]] /\ \A d \in Names : d # jname[g] => auto'[d] = auto[d]
    BY <1>h, <1>14, <2>3 DEF InstallCommit, TypeMaps
  <2>5. DiskNotBehind' /\ \A d \in Names : auto'[d] <= issued' /\ diskCert'[d] <= issued'
    BY <1>h, <1>n, <2>1, <2>3, <2>4 DEF SerialsOK, DiskNotBehind
  <2>6. \A x \in Goroutines : jserial'[x] <= issued'
    BY <1>h, <1>n, <2>1, <2>2 DEF SerialsOK
  <2>7. \A x \in Goroutines : jpc'[x] \in Early => auto'[jname'[x]] < jserial'[x] /\ diskCert'[jname'[x]] < jserial'[x]
    BY <1>h, <2>1, <2>2, <2>3, <2>4 DEF SerialsOK
  <2>8. \A x \in Goroutines : jpc'[x] = "commit" => auto'[jname'[x]] <= jserial'[x] /\ diskCert'[jname'[x]] = jserial'[x]
    BY <1>h, <2>1, <2>2, <2>3, <2>4 DEF SerialsOK
  <2> QED
    BY <1>h, <2>1, <2>5, <2>6, <2>7, <2>8 DEF SerialsOK
<1>15. ASSUME (\E d \in Names : RetryNow(d)) \/ ConsoleWake \/ (\E s \in Serials : Age(s)) \/
            (\E d \in Names : RetryElapsed(d)) \/ (\E d \in Names : RejectElapsed(d))
     PROVE  SerialsOK'
  <2>1. UNCHANGED <<auto, diskCert, issued, aRead, jpc, jname, jserial, apc>>
    BY <1>15 DEF RetryNow, ConsoleWake, Age, RetryElapsed, RejectElapsed, maps, disk, world, jobs, applier
  <2> QED
    BY <2>1, <1>q
<1>16. ASSUME NEW d \in Names, RemoveCertificate(d) PROVE SerialsOK'
  <2>1. UNCHANGED <<issued, aRead, jpc, jname, jserial, apc>> /\ d \notin inFlight
    BY <1>16 DEF RemoveCertificate, world, applier, jobs
  <2>2. \A x \in Names : IF x = d THEN auto'[x] = 0 /\ diskCert'[x] = 0 ELSE auto'[x] = auto[x] /\ diskCert'[x] = diskCert[x]
    BY <1>h, <1>16 DEF RemoveCertificate, TypeMaps, TypeDisk
  <2>3. \A g \in Goroutines : jpc[g] \in Early \cup {"commit"} => jname[g] # d /\ jname[g] \in Names
    BY <1>o, <2>1 DEF Installing
  <2>4. DiskNotBehind' /\ \A x \in Names : auto'[x] <= issued' /\ diskCert'[x] <= issued'
    BY <1>h, <1>n, <2>1, <2>2 DEF SerialsOK, DiskNotBehind
  <2>5. \A g \in Goroutines : jpc'[g] \in Early => auto'[jname'[g]] < jserial'[g] /\ diskCert'[jname'[g]] < jserial'[g]
    BY <1>h, <2>1, <2>2, <2>3 DEF SerialsOK
  <2>6. \A g \in Goroutines : jpc'[g] = "commit" => auto'[jname'[g]] <= jserial'[g] /\ diskCert'[jname'[g]] = jserial'[g]
    BY <1>h, <2>1, <2>2, <2>3 DEF SerialsOK
  <2>7. apc = "store" => diskCert'[aRead[1]] \in {0, aRead[2]} /\ auto'[aRead[1]] <= aRead[2]
    BY <1>h, <1>n, <2>2 DEF SerialsOK
  <2> QED
    BY <1>h, <2>1, <2>4, <2>5, <2>6, <2>7 DEF SerialsOK
<1>17. ASSUME Crash PROVE SerialsOK'
  <2>1. /\ UNCHANGED <<diskCert, issued>> /\ apc' = "idle" /\ aRead'[2] = 0
        /\ \A d \in Names : auto'[d] = 0
        /\ \A g \in Goroutines : jpc'[g] = "idle" /\ jserial'[g] = 0
    BY <1>17 DEF Crash, disk, world
  <2> QED
    BY <1>h, <1>n, <2>1 DEF SerialsOK, DiskNotBehind
<1> QED
  BY <1>1, <1>2, <1>3, <1>4, <1>5, <1>6, <1>7, <1>8, <1>9, <1>10, <1>11, <1>12, <1>13, <1>14, <1>15, <1>16, <1>17
  DEF Next, ApplyStep, HandshakeStep, WorkerStep, JobStep

\* What a step may do to the certificate a name has in use.
LEMMA AutoStep ==
  ASSUME IInv, Next, NEW d \in Names, auto'[d] # auto[d]
  PROVE  \/ apc = "store" /\ d = aRead[1] /\ auto'[d] = aRead[2]
         \/ auto'[d] = diskCert[d] /\ diskCert[d] # 0
         \/ auto'[d] = 0 /\ \E g \in Goroutines : ScriptRefuses(g) /\ jname[g] = d
         \/ auto'[d] = 0 /\ (RemoveCertificate(d) \/ Crash)
<1>h. TypeMaps /\ LocalsOK
  BY DEF IInv, TypeOK
<1>1. ASSUME (\E c \in Configs : ApplyBegin(c)) \/ (\E x \in Names : ApplyRead(x)) \/ ApplyEnd \/ ApplyWake \/ Start
     PROVE  UNCHANGED auto
  BY <1>1 DEF ApplyBegin, ApplyRead, ApplyEnd, ApplyWake, Start, maps
<1>2. ASSUME ApplyStore PROVE apc = "store" /\ d = aRead[1] /\ auto'[d] = aRead[2]
  BY <1>h, <1>2 DEF ApplyStore, TypeMaps
<1>3. ASSUME (\E h \in Handshakes, x \in Names : HandshakeLoad(h, x)) \/
            (\E h \in Handshakes : HandshakePush(h)) \/ (\E h \in Handshakes : HandshakeWake(h))
     PROVE  UNCHANGED auto
  BY <1>3 DEF HandshakeLoad, HandshakePush, HandshakeWake, maps
<1>4. ASSUME TakeProposal \/ ReadConfig \/ WorkerAnnounce \/ pendingJobs \/
            (\E e \in wJobs, g \in Goroutines : startJob(e, g)) \/ WorkerSleep \/ WorkerWoken \/ WorkerTimer
     PROVE  UNCHANGED auto
  BY <1>4
  DEF TakeProposal, ReadConfig, WorkerAnnounce, pendingJobs, startJob, WorkerSleep, WorkerWoken, WorkerTimer, maps
<1>5. ASSUME adoptCandidates PROVE auto'[d] = diskCert[d] /\ diskCert[d] # 0
  <2> DEFINE S == IF Current(wcfg) THEN candidates ELSE {}
             good == {x \in S : x \in ScriptNames[Conf(wcfg)] /\ Loadable(x) /\ Usable(diskCert[x])}
  <2>1. auto' = [x \in Names |-> IF x \in good THEN diskCert[x] ELSE auto[x]]
    BY <1>5 DEF adoptCandidates
  <2> QED
    BY <2>1 DEF Loadable
<1>6. ASSUME NEW g \in Goroutines,
            JobBegin(g) \/ ScriptStale(g) \/ ScriptAccepts(g) \/ ScriptRefusesRenewal(g) \/ IssueChallenge(g) \/
            (\E out \in {"temp", "perm"} : IssueFails(g, out)) \/ IssueAuthorized(g) \/ IssueFinalize(g)
     PROVE  UNCHANGED auto
  BY <1>6
  DEF JobBegin, ScriptStale, ScriptAccepts, ScriptRefusesRenewal, IssueChallenge, IssueFails, IssueAuthorized,
    IssueFinalize, maps
<1>7. ASSUME NEW g \in Goroutines,
            InstallRefused(g) \/ InstallBegin(g) \/ WriteKey(g) \/ WriteCert(g) \/ InstallFails(g) \/
            IssueReturn(g) \/ Backoff(g) \/ JobFinish(g) \/ JobRelease(g) \/ JobWake(g)
     PROVE  UNCHANGED auto
  BY <1>7
  DEF InstallRefused, InstallBegin, WriteKey, WriteCert, InstallFails, IssueReturn, Backoff, JobFinish,
    JobRelease, JobWake, maps
<1>8. ASSUME NEW g \in Goroutines, ScriptRefuses(g) PROVE auto'[d] = 0 /\ jname[g] = d
  BY <1>h, <1>8 DEF ScriptRefuses, TypeMaps
<1>9. ASSUME NEW g \in Goroutines, InstallCommit(g) PROVE auto'[d] = diskCert[d] /\ diskCert[d] # 0
  BY <1>h, <1>9 DEF InstallCommit, TypeMaps, Loadable
<1>10. ASSUME (\E x \in Names : RetryNow(x)) \/ ConsoleWake \/ (\E s \in Serials : Age(s)) \/
            (\E x \in Names : RetryElapsed(x)) \/ (\E x \in Names : RejectElapsed(x))
     PROVE  UNCHANGED auto
  BY <1>10 DEF RetryNow, ConsoleWake, Age, RetryElapsed, RejectElapsed, maps
<1>11. ASSUME NEW x \in Names, RemoveCertificate(x) PROVE auto'[d] = 0 /\ x = d
  BY <1>h, <1>11 DEF RemoveCertificate, TypeMaps
<1>12. ASSUME Crash PROVE auto'[d] = 0
  BY <1>12 DEF Crash
<1> QED
  BY <1>1, <1>2, <1>3, <1>4, <1>5, <1>6, <1>7, <1>8, <1>9, <1>10, <1>11, <1>12
  DEF Next, ApplyStep, HandshakeStep, WorkerStep, JobStep

\* The names pendingJobs would list for configuration i.
Wants(i, d) ==
  needsJob(d) /\ d \in Managed(i) \cup candidates /\ (Missing(auto[d]) \/ Due(auto[d]))

LEMMA ListedWant ==
  ASSUME NEW i
  PROVE  /\ \A e \in listed(i) : Wants(i, e[1])
         /\ \A d : Wants(i, d) => \E e \in listed(i) : e[1] = d
<1>1. \A e \in listed(i) : Wants(i, e[1])
  BY DEF listed, Wants
<1>2. ASSUME NEW d, Wants(i, d) PROVE \E e \in listed(i) : e[1] = d
  <2>1. <<d, 1>> \in listed(i) \/ <<d, 2>> \in listed(i) \/ <<d, 3>> \in listed(i) \/ <<d, 4>> \in listed(i)
    BY <1>2 DEF listed, Wants
  <2> QED
    BY <2>1
<1> QED
  BY <1>1, <1>2

\* Wake-ups: a step that gives a name a reason to be listed either signals the
\* worker, is the passage of time, or is a step of the job the name has.
LEMMA WakesStep ==
  ASSUME IInv, WakesOK, Next
  PROVE  WakesOK'
<1>h. TypeMaps /\ TypeActors /\ TypeJobs /\ TypeDisk /\ LocalsOK /\ OneJobPerName /\ WakesOK
  BY DEF IInv, TypeOK
<1>w. ASSUME WakeComing' PROVE WakesOK'
  BY <1>w DEF WakesOK
<1>r. ASSUME wpc' \in {"off", "take"} PROVE WakesOK'
  BY <1>r DEF WakesOK
<1>f. \A g \in Goroutines : g \in Active => jname[g] \in inFlight
  BY <1>h DEF OneJobPerName
<1>n. applied # <<>> => Managed(Len(applied)) \cup candidates \subseteq Names
  BY <1>h, ManagedNames DEF TypeMaps, IInv
<1>e. \A g \in Goroutines : g \in Active => applied # <<>>
  BY <1>h DEF LocalsOK, TypeMaps
\* What the worker relies on stays true when no name but those time made due
\* starts to need a job.
<1>q. ASSUME UNCHANGED <<wpc, wcfg, applied, proposals, wJobs, inFlight>>, WakeComing => WakeComing',
             timeDue \subseteq timeDue',
             \A d : Wants(Len(applied), d)' => d \in timeDue' \/ Wants(Len(applied), d)
     PROVE  WakesOK'
  <2> SUFFICES ASSUME ~WakeComing'
      PROVE  /\ wpc' \notin {"off", "take"} => proposals' = <<>>
             /\ wpc' \in {"adopt", "announce", "list", "start"} => Current(wcfg)'
             /\ wpc' = "start" => \A e \in listed(Len(applied))' : e[1] \in timeDue' \/ \E f \in wJobs' : f[1] = e[1]
             /\ wpc' = "select" => inFlight' # {} \/ \A e \in listed(Len(applied))' : e[1] \in timeDue'
    BY DEF WakesOK
  <2>1. \A e \in listed(Len(applied))' : Wants(Len(applied), e[1])'
    BY DEF listed, Wants
  <2>2. \A e \in listed(Len(applied))' : e[1] \in timeDue' \/ \E x \in listed(Len(applied)) : x[1] = e[1]
    BY <1>q, <2>1, ListedWant
  <2>3. wpc \notin {"off", "take"} => proposals = <<>>
    BY <1>h, <1>q DEF WakesOK
  <2>4. wpc \in {"adopt", "announce", "list", "start"} => Current(wcfg)
    BY <1>h, <1>q DEF WakesOK
  <2>5. wpc = "start" => \A e \in listed(Len(applied)) : e[1] \in timeDue \/ \E f \in wJobs : f[1] = e[1]
    BY <1>h, <1>q DEF WakesOK
  <2>6. wpc = "select" => inFlight # {} \/ \A e \in listed(Len(applied)) : e[1] \in timeDue
    BY <1>h, <1>q DEF WakesOK
  <2>7. wpc' = "start" => \A e \in listed(Len(applied))' : e[1] \in timeDue' \/ \E f \in wJobs' : f[1] = e[1]
    BY <1>q, <2>2, <2>5
  <2>8. wpc' = "select" => inFlight' # {} \/ \A e \in listed(Len(applied))' : e[1] \in timeDue'
    BY <1>q, <2>2, <2>6
  <2>9. Current(wcfg)' <=> Current(wcfg)
    BY <1>q DEF Current
  <2> QED
    BY <1>q, <2>3, <2>4, <2>7, <2>8, <2>9
\* The steps that signal the worker, or leave it a signal to send.
<1>1. ASSUME (\E c \in Configs : ApplyBegin(c)) \/ (\E d \in Names : ApplyRead(d)) \/ ApplyStore \/ ApplyEnd \/ ApplyWake
     PROVE  WakesOK'
  <2>1. apc' # "idle" \/ wake'
    BY <1>1 DEF ApplyBegin, ApplyRead, ApplyStore, ApplyEnd, ApplyWake
  <2> QED
    BY <1>w, <2>1 DEF WakeComing
<1>2. ASSUME (\E h \in Handshakes : HandshakeWake(h)) \/ (\E g \in Goroutines : JobWake(g)) \/ ConsoleWake \/
            (\E d \in Names : RemoveCertificate(d)) \/ (\E d \in Names : RetryNow(d))
     PROVE  WakesOK'
  <2>1. wake' \/ conWake'
    BY <1>2 DEF HandshakeWake, JobWake, ConsoleWake, RemoveCertificate, RetryNow
  <2> QED
    BY <1>w, <2>1 DEF WakeComing
<1>3. ASSUME NEW g \in Goroutines, JobRelease(g) PROVE WakesOK'
  <2>1. jpc'[g] = "wake"
    BY <1>h, <1>3 DEF JobRelease, TypeJobs
  <2> QED
    BY <1>w, <2>1 DEF WakeComing
<1>4. ASSUME NEW h \in Handshakes, NEW d \in Names, HandshakeLoad(h, d) PROVE WakesOK'
  <2>1. UNCHANGED <<wpc, wcfg, applied, proposals, wJobs, inFlight, candidates, dynamic, waiting, auto, age, timeDue>>
    BY <1>4 DEF HandshakeLoad, maps, worker, world, history
  <2>2. WakeComing => WakeComing'
    BY <1>h, <1>4 DEF HandshakeLoad, WakeComing, TypeActors, applier, jobs, bounds
  <2> QED
    BY <1>q, <2>1, <2>2 DEF Wants, needsJob, Managed, Conf, Missing, Due
<1>5. ASSUME NEW h \in Handshakes, HandshakePush(h) PROVE WakesOK'
  <2>1. CASE Len(proposals) < ProposalCap
    <3>1. hpc'[h] = "wake"
      BY <1>h, <1>5, <2>1 DEF HandshakePush, TypeActors
    <3> QED
      BY <1>w, <3>1 DEF WakeComing
  <2>2. CASE ~(Len(proposals) < ProposalCap)
    <3>1. UNCHANGED <<wpc, wcfg, applied, proposals, wJobs, inFlight, candidates, dynamic, waiting, auto, age, timeDue>>
      BY <1>5, <2>2 DEF HandshakePush, maps, worker, world, history
    <3>2. WakeComing => WakeComing'
      BY <1>h, <1>5, <2>2 DEF HandshakePush, WakeComing, TypeActors, applier, jobs, bounds
    <3> QED
      BY <1>q, <3>1, <3>2 DEF Wants, needsJob, Managed, Conf, Missing, Due
  <2> QED
    BY <2>1, <2>2
\* The worker.
<1>6. ASSUME Start \/ TakeProposal \/ WorkerWoken \/ WorkerTimer \/ Crash PROVE WakesOK'
  BY <1>6, <1>r DEF Start, TakeProposal, WorkerWoken, WorkerTimer, Crash, worker
<1>7. ASSUME ReadConfig PROVE WakesOK'
  BY <1>7 DEF ReadConfig, WakesOK, Current
<1>8. ASSUME adoptCandidates \/ WorkerAnnounce PROVE WakesOK'
  <2>1. UNCHANGED <<wcfg, applied, proposals>> /\ wpc \in {"adopt", "announce"} /\ wpc' \in {"announce", "list"}
    BY <1>8 DEF adoptCandidates, WorkerAnnounce
  <2>2. WakeComing => WakeComing'
    BY <1>8 DEF adoptCandidates, WorkerAnnounce, WakeComing, applier, shakes, jobs, bounds
  <2> QED
    BY <1>h, <2>1, <2>2 DEF WakesOK, Current
<1>9. ASSUME pendingJobs PROVE WakesOK'
  <2>1. UNCHANGED <<wcfg, applied, proposals>> /\ wpc = "list" /\ wpc' = "start" /\ wJobs' = listed(Len(applied))
    BY <1>9 DEF pendingJobs
  <2>2. WakeComing => WakeComing'
    BY <1>9 DEF pendingJobs, WakeComing, applier, shakes, jobs, bounds
  <2>3. listed(Len(applied))' = listed(Len(applied))
    BY <1>9 DEF pendingJobs, listed, Managed, Conf, needsJob, Missing, Due, maps, world
  <2> QED
    BY <1>h, <2>1, <2>2, <2>3 DEF WakesOK, Current
<1>10. ASSUME NEW e \in wJobs, NEW g \in Goroutines, startJob(e, g) PROVE WakesOK'
  <2>1. /\ UNCHANGED <<wcfg, wpc, applied, proposals, candidates, dynamic, waiting, auto, age, timeDue>>
        /\ wpc = "start" /\ wJobs' = wJobs \ {e} /\ inFlight' = inFlight \cup {e[1]}
    BY <1>10 DEF startJob, world, history
  <2>2. WakeComing => WakeComing'
    BY <1>h, <1>10 DEF startJob, WakeComing, TypeJobs, applier, shakes, bounds
  <2>3. \A x \in listed(Len(applied))' : x \in listed(Len(applied)) /\ x[1] # e[1]
    BY <2>1 DEF listed, Managed, Conf, needsJob, Missing, Due
  <2>4. ASSUME ~WakeComing, NEW x \in listed(Len(applied))' PROVE x[1] \in timeDue' \/ \E f \in wJobs' : f[1] = x[1]
    BY <1>h, <2>1, <2>3, <2>4 DEF WakesOK
  <2> QED
    BY <1>h, <2>1, <2>2, <2>4 DEF WakesOK, Current
<1>11. ASSUME WorkerSleep PROVE WakesOK'
  <2>1. /\ UNCHANGED <<wcfg, applied, proposals, inFlight, candidates, dynamic, waiting, auto, age, timeDue>>
        /\ wpc = "start" /\ wpc' = "select"
    BY <1>11 DEF WorkerSleep, maps, world, history
  <2>2. WakeComing => WakeComing'
    BY <1>11 DEF WorkerSleep, WakeComing, applier, shakes, jobs, bounds
  <2>3. listed(Len(applied))' = listed(Len(applied))
    BY <2>1 DEF listed, Managed, Conf, needsJob, Missing, Due
  <2>4. ASSUME ~WakeComing PROVE inFlight # {} \/ \A e \in listed(Len(applied)) : e[1] \in timeDue
    <3>1. CASE wJobs = {}
      BY <1>h, <2>1, <2>4, <3>1 DEF WakesOK
    <3>2. CASE \E e \in NextListed : ~canStart(e[1])
      <4>1. Current(wcfg)
        BY <1>h, <2>1, <2>4 DEF WakesOK
      <4>2. PICK e \in NextListed : e[1] \in inFlight \/ ~(Cardinality(inFlight) < maxParallelJobs)
        BY <3>2, <4>1 DEF canStart
      <4>3. CASE e[1] \in inFlight
        BY <4>3
      <4>4. CASE ~(Cardinality(inFlight) < maxParallelJobs)
        <5>1. Cardinality({}) = 0
          BY FS_EmptySet
        <5>2. inFlight = {} => Cardinality(inFlight) = 0
          BY <5>1
        <5> QED
          BY <4>4, <5>2, LimitAssumption
      <4> QED
        BY <4>2, <4>3, <4>4
    <3> QED
      BY <1>11, <3>1, <3>2 DEF WorkerSleep
  <2> QED
    BY <1>h, <2>1, <2>2, <2>3, <2>4 DEF WakesOK
\* A job's own steps change only what is recorded of the name it has in flight.
<1>12. ASSUME NEW g \in Goroutines,
            JobBegin(g) \/ ScriptStale(g) \/ (\E out \in {"temp", "perm"} : IssueFails(g, out)) \/ IssueChallenge(g) \/
            IssueAuthorized(g) \/ IssueFinalize(g) \/ InstallRefused(g) \/ InstallBegin(g)
     PROVE  WakesOK'
  <2>1. UNCHANGED <<wpc, wcfg, applied, proposals, wJobs, inFlight, candidates, dynamic, waiting, auto, age, timeDue>>
    BY <1>12
    DEF JobBegin, ScriptStale, IssueFails, IssueChallenge, IssueAuthorized, IssueFinalize, InstallRefused,
        InstallBegin, maps, worker, world, history
  <2>2. UNCHANGED <<wake, conWake, apc, hpc>> /\ jpc[g] # "wake" /\ \A x \in Goroutines : x # g => jpc'[x] = jpc[x]
    BY <1>h, <1>12
    DEF JobBegin, ScriptStale, IssueFails, IssueChallenge, IssueAuthorized, IssueFinalize, InstallRefused,
        InstallBegin, attemptEnds, applier, shakes, bounds, TypeJobs
  <2> QED
    BY <1>q, <2>1, <2>2 DEF WakeComing, Wants, needsJob, Managed, Conf, Missing, Due
<1>13. ASSUME NEW g \in Goroutines,
            WriteKey(g) \/ WriteCert(g) \/ InstallFails(g) \/ IssueReturn(g) \/ Backoff(g)
     PROVE  WakesOK'
  <2>1. UNCHANGED <<wpc, wcfg, applied, proposals, wJobs, inFlight, candidates, dynamic, waiting, auto, age, timeDue>>
    BY <1>13 DEF WriteKey, WriteCert, InstallFails, IssueReturn, Backoff, maps, worker, world, history
  <2>2. UNCHANGED <<wake, conWake, apc, hpc>> /\ jpc[g] # "wake" /\ \A x \in Goroutines : x # g => jpc'[x] = jpc[x]
    BY <1>h, <1>13
    DEF WriteKey, WriteCert, InstallFails, IssueReturn, Backoff, attemptEnds, Installing, applier, shakes, bounds, TypeJobs
  <2> QED
    BY <1>q, <2>1, <2>2 DEF WakeComing, Wants, needsJob, Managed, Conf, Missing, Due
<1>14. ASSUME NEW g \in Goroutines,
            ScriptAccepts(g) \/ ScriptRefusesRenewal(g) \/ ScriptRefuses(g) \/ InstallCommit(g) \/ JobFinish(g)
     PROVE  WakesOK'
  <2>1. UNCHANGED <<wpc, wcfg, applied, proposals, wJobs, inFlight, age, timeDue>>
    BY <1>14
    DEF ScriptAccepts, ScriptRefusesRenewal, ScriptRefuses, InstallCommit, JobFinish, worker, world, history
  <2>2. UNCHANGED <<wake, conWake, apc, hpc>> /\ jpc[g] # "wake" /\ \A x \in Goroutines : x # g => jpc'[x] = jpc[x]
    BY <1>h, <1>14
    DEF ScriptAccepts, ScriptRefusesRenewal, ScriptRefuses, InstallCommit, JobFinish, attemptEnds, applier, shakes,
        bounds, TypeJobs
  <2>3. jname[g] \in inFlight
    BY <1>f, <1>14 DEF ScriptAccepts, ScriptRefusesRenewal, ScriptRefuses, InstallCommit, JobFinish, Active
  <2>4. \A d : d # jname[g] =>
          /\ d \in candidates' <=> d \in candidates
          /\ d \in dynamic' <=> d \in dynamic
          /\ d \in waiting' <=> d \in waiting
    BY <1>14 DEF ScriptAccepts, ScriptRefusesRenewal, ScriptRefuses, InstallCommit, JobFinish
  <2>5. \A d \in Names : d # jname[g] => auto'[d] = auto[d]
    BY <1>h, <1>14 DEF ScriptAccepts, ScriptRefusesRenewal, ScriptRefuses, InstallCommit, JobFinish, TypeMaps
  <2>6. ASSUME NEW d, Wants(Len(applied), d)' PROVE Wants(Len(applied), d)
    <3>1. d # jname[g]
      BY <2>1, <2>3, <2>6 DEF Wants, needsJob
    <3>2. d \in Managed(Len(applied)) \cup candidates /\ needsJob(d)
      BY <2>1, <2>4, <2>6, <3>1 DEF Wants, needsJob, Managed, Conf
    <3>3. d \in Names
      BY <1>e, <1>n, <1>14, <3>2
      DEF ScriptAccepts, ScriptRefusesRenewal, ScriptRefuses, InstallCommit, JobFinish, Active
    <3> QED
      BY <2>1, <2>5, <2>6, <3>1, <3>2, <3>3 DEF Wants, Missing, Due
  <2> QED
    BY <1>q, <2>1, <2>2, <2>6 DEF WakeComing
\* Time: what it makes due is remembered as such.
<1>15. ASSUME NEW s \in Serials, Age(s) PROVE WakesOK'
  <2>1. UNCHANGED <<wpc, wcfg, applied, proposals, wJobs, inFlight, candidates, dynamic, waiting, auto>> /\ WakeComing' = WakeComing
    BY <1>15 DEF Age, maps, worker, WakeComing, applier, shakes, jobs, bounds
  <2>2. CASE wpc \in {"start", "select"}
    <3>1. timeDue' = timeDue \cup {d \in Names : auto[d] = s}
      BY <1>15, <2>2 DEF Age, noteDue
    <3>2. \A c : c # s => (Missing(c)' <=> Missing(c)) /\ (Due(c)' <=> Due(c))
      BY <1>15, <1>h DEF Age, Missing, Due, TypeDisk
    <3>3. ASSUME NEW d, Wants(Len(applied), d)' PROVE d \in timeDue' \/ Wants(Len(applied), d)
      <4>1. d \in Managed(Len(applied)) \cup candidates /\ needsJob(d)
        BY <2>1, <3>3 DEF Wants, needsJob, Managed, Conf
      <4>2. d \in Names
        BY <1>h, <1>n, <2>2, <4>1 DEF LocalsOK
      <4>3. CASE auto[d] = s
        BY <3>1, <4>2, <4>3
      <4>4. CASE auto[d] # s
        BY <2>1, <3>2, <3>3, <4>1, <4>4 DEF Wants, Missing, Due
      <4> QED
        BY <4>3, <4>4
    <3> QED
      BY <1>q, <2>1, <3>1, <3>3
  <2>3. CASE wpc \notin {"start", "select"}
    BY <1>h, <2>1, <2>3 DEF WakesOK, Current
  <2> QED
    BY <2>2, <2>3
<1>16. ASSUME NEW d \in Names, RetryElapsed(d) PROVE WakesOK'
  <2>1. UNCHANGED <<wpc, wcfg, applied, proposals, wJobs, inFlight, candidates, dynamic, auto, age>> /\ WakeComing' = WakeComing
    BY <1>16 DEF RetryElapsed, worker, WakeComing, applier, shakes, jobs, bounds, world
  <2>2. CASE wpc \in {"start", "select"}
    <3>1. timeDue' = timeDue \cup {d} /\ waiting' = waiting \ {d}
      BY <1>16, <2>2 DEF RetryElapsed, noteDue
    <3>2. \A x : Wants(Len(applied), x)' => x \in timeDue' \/ Wants(Len(applied), x)
      BY <2>1, <3>1 DEF Wants, needsJob, Managed, Conf, Missing, Due
    <3> QED
      BY <1>q, <2>1, <3>1, <3>2
  <2>3. CASE wpc \notin {"start", "select"}
    BY <1>h, <2>1, <2>3 DEF WakesOK, Current
  <2> QED
    BY <2>2, <2>3
<1>17. ASSUME NEW d \in Names, RejectElapsed(d) PROVE WakesOK'
  <2>1. UNCHANGED <<wpc, wcfg, applied, proposals, wJobs, inFlight, candidates, dynamic, waiting, auto, age, timeDue>> /\ WakeComing' = WakeComing
    BY <1>17 DEF RejectElapsed, worker, WakeComing, applier, shakes, jobs, bounds, world, history
  <2> QED
    BY <1>q, <2>1 DEF Wants, needsJob, Managed, Conf, Missing, Due
<1> QED
  BY <1>1, <1>2, <1>3, <1>4, <1>5, <1>6, <1>7, <1>8, <1>9, <1>10, <1>11, <1>12, <1>13, <1>14, <1>15, <1>16, <1>17
  DEF Next, ApplyStep, HandshakeStep, WorkerStep, JobStep

\* Only the installation of its name makes a certificate on disk usable.
LEMMA GoodStep ==
  ASSUME IInv, Next, NEW d \in Names, goodOnDisk(d)', ~goodOnDisk(d)
  PROVE  \E g \in Goroutines : (WriteKey(g) \/ WriteCert(g)) /\ jname[g] = d
<1>h. TypeDisk
  BY DEF IInv, TypeOK
<1>u. ASSUME UNCHANGED <<diskKey, diskCert, age>> PROVE FALSE
  BY <1>u DEF goodOnDisk, Loadable, Usable
<1>1. ASSUME (\E c \in Configs : ApplyBegin(c)) \/ (\E x \in Names : ApplyRead(x)) \/ ApplyStore \/ ApplyEnd \/
            ApplyWake \/ Start
     PROVE  UNCHANGED <<diskKey, diskCert, age>>
  BY <1>1 DEF ApplyBegin, ApplyRead, ApplyStore, ApplyEnd, ApplyWake, Start, disk, world
<1>2. ASSUME (\E h \in Handshakes, x \in Names : HandshakeLoad(h, x)) \/
            (\E h \in Handshakes : HandshakePush(h)) \/ (\E h \in Handshakes : HandshakeWake(h))
     PROVE  UNCHANGED <<diskKey, diskCert, age>>
  BY <1>2 DEF HandshakeLoad, HandshakePush, HandshakeWake, disk, world
<1>3. ASSUME TakeProposal \/ ReadConfig \/ adoptCandidates \/ WorkerAnnounce \/ pendingJobs \/
            (\E e \in wJobs, g \in Goroutines : startJob(e, g)) \/ WorkerSleep \/ WorkerWoken \/ WorkerTimer
     PROVE  UNCHANGED <<diskKey, diskCert, age>>
  BY <1>3
  DEF TakeProposal, ReadConfig, adoptCandidates, WorkerAnnounce, pendingJobs, startJob, WorkerSleep, WorkerWoken,
    WorkerTimer, disk, world
<1>4. ASSUME NEW g \in Goroutines,
            JobBegin(g) \/ ScriptStale(g) \/ ScriptAccepts(g) \/ ScriptRefusesRenewal(g) \/ ScriptRefuses(g) \/
            (\E out \in {"temp", "perm"} : IssueFails(g, out)) \/ IssueChallenge(g) \/ IssueAuthorized(g) \/
            IssueFinalize(g)
     PROVE  UNCHANGED <<diskKey, diskCert, age>>
  BY <1>4
  DEF JobBegin, ScriptStale, ScriptAccepts, ScriptRefusesRenewal, ScriptRefuses, IssueFails, IssueChallenge,
    IssueAuthorized, IssueFinalize, disk, world
<1>5. ASSUME NEW g \in Goroutines,
            InstallRefused(g) \/ InstallBegin(g) \/ InstallCommit(g) \/ InstallFails(g) \/ IssueReturn(g) \/
            Backoff(g) \/ JobFinish(g) \/ JobRelease(g) \/ JobWake(g)
     PROVE  UNCHANGED <<diskKey, diskCert, age>>
  BY <1>5
  DEF InstallRefused, InstallBegin, InstallCommit, InstallFails, IssueReturn, Backoff, JobFinish, JobRelease,
    JobWake, disk, world
<1>6. ASSUME NEW g \in Goroutines, WriteKey(g) \/ WriteCert(g) PROVE jname[g] = d
  <2>1. CASE WriteKey(g)
    BY <1>h, <2>1 DEF WriteKey, TypeDisk, goodOnDisk, Loadable, Usable, world
  <2>2. CASE WriteCert(g)
    BY <1>h, <2>2 DEF WriteCert, TypeDisk, goodOnDisk, Loadable, Usable, world
  <2> QED
    BY <1>6, <2>1, <2>2
<1>7. ASSUME ConsoleWake \/ (\E x \in Names : RetryNow(x)) \/ (\E x \in Names : RetryElapsed(x)) \/
            (\E x \in Names : RejectElapsed(x)) \/ Crash
     PROVE  UNCHANGED <<diskKey, diskCert, age>>
  BY <1>7 DEF ConsoleWake, RetryNow, RetryElapsed, RejectElapsed, Crash, disk, world
<1>8. ASSUME NEW x \in Names, RemoveCertificate(x) PROVE FALSE
  BY <1>h, <1>8 DEF RemoveCertificate, TypeDisk, goodOnDisk, Loadable, Usable, world
<1>9. ASSUME NEW s \in Serials, Age(s) PROVE FALSE
  <2>1. UNCHANGED <<diskKey, diskCert>>
    BY <1>9 DEF Age, disk
  <2>2. \A c : c # 0 /\ age'[c] # "expired" => age[c] # "expired"
    BY <1>h, <1>9 DEF Age, TypeDisk
  <2> QED
    BY <2>1, <2>2 DEF goodOnDisk, Loadable, Usable
<1> QED
  BY <1>u, <1>1, <1>2, <1>3, <1>4, <1>5, <1>6, <1>7, <1>8, <1>9
  DEF Next, ApplyStep, HandshakeStep, WorkerStep, JobStep

\* The maps: a name is a candidate until it is decided, never both; Apply loads
\* the names its configuration lists.
LEMMA KeptMapsStep ==
  ASSUME IInv, KeptMaps, Next
  PROVE  KeptMaps'
<1>h. TypeMaps /\ TypeActors /\ LocalsOK /\ KeptMaps
  BY DEF IInv, TypeOK
<1>u. ASSUME UNCHANGED <<candidates, dynamic, apc, aTodo, aRead, applied>> PROVE KeptMaps'
  BY <1>h, <1>u DEF KeptMaps, Conf
<1>1. ASSUME NEW c \in Configs, ApplyBegin(c) PROVE KeptMaps'
  <2>1. applied'[Len(applied')] = c
    BY <1>h, <1>1 DEF ApplyBegin, TypeMaps
  <2>2. candidates' \cap dynamic' = {}
    BY <1>h, <1>1 DEF ApplyBegin, KeptMaps, scriptCovers
  <2>3. apc' = "load" /\ aTodo' = AutoDomains[c]
    BY <1>1 DEF ApplyBegin
  <2> QED
    BY <2>1, <2>2, <2>3 DEF KeptMaps, Conf
<1>2. ASSUME NEW d \in Names, ApplyRead(d) PROVE KeptMaps'
  <2>1. UNCHANGED <<candidates, dynamic, applied>> /\ apc = "load" /\ d \in aTodo /\ aTodo' = aTodo \ {d}
    BY <1>2 DEF ApplyRead, maps
  <2>2. (aRead' = aRead /\ apc' = "load") \/ aRead' = <<d, diskCert[d]>>
    BY <1>2 DEF ApplyRead
  <2>3. apc' = "store" => aRead'[1] = d
    BY <2>2
  <2> QED
    BY <1>h, <2>1, <2>3 DEF KeptMaps, Conf
<1>3. ASSUME ApplyStore \/ ApplyEnd \/ ApplyWake \/ Start PROVE KeptMaps'
  <2>1. UNCHANGED <<candidates, dynamic, applied, aTodo>> /\ (apc' \in {"load", "store"} => apc \in {"load", "store"})
    BY <1>3 DEF ApplyStore, ApplyEnd, ApplyWake, Start, maps, applier
  <2>2. apc' = "store" => apc = "store" /\ aRead' = aRead
    BY <1>3 DEF ApplyStore, ApplyEnd, ApplyWake, Start, applier
  <2> QED
    BY <1>h, <2>1, <2>2 DEF KeptMaps, Conf
<1>4. ASSUME (\E h \in Handshakes, d \in Names : HandshakeLoad(h, d)) \/
            (\E h \in Handshakes : HandshakePush(h)) \/ (\E h \in Handshakes : HandshakeWake(h))
     PROVE  UNCHANGED <<candidates, dynamic, apc, aTodo, aRead, applied>>
  BY <1>4 DEF HandshakeLoad, HandshakePush, HandshakeWake, maps, applier
<1>5. ASSUME ReadConfig \/ WorkerAnnounce \/ pendingJobs \/
            (\E e \in wJobs, g \in Goroutines : startJob(e, g)) \/ WorkerSleep \/ WorkerWoken \/ WorkerTimer
     PROVE  UNCHANGED <<candidates, dynamic, apc, aTodo, aRead, applied>>
  BY <1>5 DEF ReadConfig, WorkerAnnounce, pendingJobs, startJob, WorkerSleep, WorkerWoken, WorkerTimer, maps, applier
<1>6. ASSUME TakeProposal PROVE KeptMaps'
  BY <1>h, <1>6 DEF TakeProposal, KeptMaps, applier, Conf
<1>7. ASSUME adoptCandidates PROVE KeptMaps'
  BY <1>h, <1>7 DEF adoptCandidates, KeptMaps, applier, Conf
<1>8. ASSUME NEW g \in Goroutines, ScriptAccepts(g) \/ ScriptRefuses(g) PROVE KeptMaps'
  BY <1>h, <1>8 DEF ScriptAccepts, ScriptRefuses, KeptMaps, applier, Conf
<1>9. ASSUME NEW g \in Goroutines,
            JobBegin(g) \/ ScriptStale(g) \/ ScriptRefusesRenewal(g) \/ IssueChallenge(g) \/
            (\E out \in {"temp", "perm"} : IssueFails(g, out)) \/ IssueAuthorized(g) \/ IssueFinalize(g)
     PROVE  UNCHANGED <<candidates, dynamic, apc, aTodo, aRead, applied>>
  BY <1>9
  DEF JobBegin, ScriptStale, ScriptRefusesRenewal, IssueChallenge, IssueFails, IssueAuthorized, IssueFinalize,
    maps, applier
<1>10. ASSUME NEW g \in Goroutines,
            InstallRefused(g) \/ InstallBegin(g) \/ WriteKey(g) \/ WriteCert(g) \/ InstallCommit(g) \/ InstallFails(g)
     PROVE  UNCHANGED <<candidates, dynamic, apc, aTodo, aRead, applied>>
  BY <1>10
  DEF InstallRefused, InstallBegin, WriteKey, WriteCert, InstallCommit, InstallFails, maps, applier
<1>11. ASSUME NEW g \in Goroutines, IssueReturn(g) \/ Backoff(g) \/ JobFinish(g) \/ JobRelease(g) \/ JobWake(g)
     PROVE  UNCHANGED <<candidates, dynamic, apc, aTodo, aRead, applied>>
  BY <1>11 DEF IssueReturn, Backoff, JobFinish, JobRelease, JobWake, maps, applier
<1>12. ASSUME (\E d \in Names : RetryNow(d)) \/ ConsoleWake \/ (\E s \in Serials : Age(s)) \/
            (\E d \in Names : RetryElapsed(d)) \/ (\E d \in Names : RejectElapsed(d))
     PROVE  UNCHANGED <<candidates, dynamic, apc, aTodo, aRead, applied>>
  BY <1>12 DEF RetryNow, ConsoleWake, Age, RetryElapsed, RejectElapsed, maps, applier
<1>13. ASSUME NEW d \in Names, RemoveCertificate(d) PROVE KeptMaps'
  BY <1>h, <1>13 DEF RemoveCertificate, KeptMaps, applier, Conf
<1>14. ASSUME Crash PROVE KeptMaps'
  BY <1>14 DEF Crash, KeptMaps
<1> QED
  BY <1>u, <1>1, <1>2, <1>3, <1>4, <1>5, <1>6, <1>7, <1>8, <1>9, <1>10, <1>11, <1>12, <1>13, <1>14
  DEF Next, ApplyStep, HandshakeStep, WorkerStep, JobStep

\* What a job is installing is not a candidate of a script.
LEMMA InstallsManaged ==
  ASSUME IInv, KeptMaps, NEW g \in Goroutines, WriteKey(g) \/ WriteCert(g)
  PROVE  /\ Current(jcfg[g]) /\ g \in Active /\ jname[g] \in inFlight
         /\ byScript(Len(applied), jname[g]) => jname[g] \in dynamic /\ jname[g] \notin candidates
         /\ UNCHANGED <<applied, dynamic, candidates, inFlight, auto, age, wpc, wcfg, wJobs, jname, jcfg, jusable>>
         /\ jpc[g] \in Installing /\ jpc'[g] \in Installing /\ \A x \in Goroutines : x # g => jpc'[x] = jpc[x]
<1>h. TypeJobs /\ LocalsOK /\ OneJobPerName /\ CommitsAreCurrent /\ NamesAllowed /\ KeptMaps
  BY DEF IInv, TypeOK
<1>1. jpc[g] \in Installing /\ jpc'[g] \in Installing /\ \A x \in Goroutines : x # g => jpc'[x] = jpc[x]
  BY <1>h DEF WriteKey, WriteCert, Installing, TypeJobs
<1>2. Current(jcfg[g]) /\ g \in Active /\ jname[g] \in inFlight
  BY <1>h, <1>1 DEF CommitsAreCurrent, Active, OneJobPerName, Installing
<1>3. jname[g] \in Managed(jcfg[g])
  BY <1>h, <1>1, <1>2 DEF NamesAllowed, Issuing, HasChallenge
<1>4. byScript(Len(applied), jname[g]) => jname[g] \in dynamic /\ jname[g] \notin candidates
  BY <1>h, <1>2, <1>3 DEF byScript, Managed, Current, KeptMaps
<1>5. UNCHANGED <<applied, dynamic, candidates, inFlight, auto, age, wpc, wcfg, wJobs, jname, jcfg, jusable>>
  BY DEF WriteKey, WriteCert, maps, worker, world
<1> QED
  BY <1>1, <1>2, <1>4, <1>5

\* The worker's list: a name only a script can ask for is listed once, has no
\* job, and has nothing good on disk unless the script has accepted it.
LEMMA KeptListsStep ==
  ASSUME IInv, KeptMaps, KeptLists, Next
  PROVE  KeptLists'
<1>h. TypeMaps /\ TypeActors /\ TypeJobs /\ LocalsOK /\ OneJobPerName /\ NamesAllowed /\ KeptMaps /\ KeptLists
  BY DEF IInv, TypeOK
<1>n. candidates \subseteq Names /\ \A e \in wJobs : e[1] \in Names
  BY <1>h DEF TypeMaps, TypeActors
<1>g. ASSUME ~\E g \in Goroutines : WriteKey(g) \/ WriteCert(g)
     PROVE  \A d \in Names : goodOnDisk(d)' => goodOnDisk(d)
  BY <1>g, GoodStep
<1>f. \A g \in Goroutines : g \in Active => jname[g] \in inFlight
  BY <1>h DEF OneJobPerName
\* The list and what it was made from can only have shrunk.
<1>q. ASSUME UNCHANGED <<wpc, wcfg, applied, wJobs>>, candidates' \subseteq candidates, inFlight' \subseteq inFlight,
             wpc \in {"announce", "list", "start"} => \A d \in Names : goodOnDisk(d)' => goodOnDisk(d),
             \A d \in Names : d \notin inFlight /\ d \in dynamic => d \in dynamic' \/ ~goodOnDisk(d)'
     PROVE  KeptLists'
  <2>1. Current(wcfg)' = Current(wcfg) /\ \A d : byScript(wcfg, d)' = byScript(wcfg, d)
    BY <1>q DEF Current, byScript, Conf
  <2>2. wpc' \in {"announce", "list"} /\ Current(wcfg)' =>
          \A d \in candidates' : byScript(wcfg, d)' => ~goodOnDisk(d)'
    BY <1>h, <1>n, <1>q, <2>1 DEF KeptLists
  <2>3. wpc' = "start" /\ Current(wcfg)' =>
          \A e \in wJobs' : byScript(wcfg, e[1])' =>
            /\ e[1] \notin inFlight' /\ (e[1] \in dynamic' \/ ~goodOnDisk(e[1])')
            /\ \A f \in wJobs' : f[1] = e[1] => f = e
    BY <1>h, <1>n, <1>q, <2>1 DEF KeptLists
  <2> QED
    BY <2>2, <2>3 DEF KeptLists, byScript, Conf
<1>r. ASSUME wpc' \notin {"announce", "list", "start"} PROVE KeptLists'
  BY <1>r DEF KeptLists
<1>w. ASSUME NEW g \in Goroutines, WriteKey(g) \/ WriteCert(g) PROVE KeptLists'
  <2>1. UNCHANGED <<applied, dynamic, candidates, inFlight, wpc, wcfg, wJobs>>
    BY <1>w, InstallsManaged
  <2>3. \A d \in Names : goodOnDisk(d)' /\ ~goodOnDisk(d) =>
          \E x \in Goroutines : (WriteKey(x) \/ WriteCert(x)) /\ jname[x] = d
    BY GoodStep
  <2>4. \A x \in Goroutines : WriteKey(x) \/ WriteCert(x) =>
          jname[x] \in inFlight /\ (byScript(Len(applied), jname[x]) => jname[x] \notin candidates)
    BY InstallsManaged
  <2>5. wpc' \in {"announce", "list"} /\ Current(wcfg)' =>
          \A d \in candidates' : byScript(wcfg, d)' => ~goodOnDisk(d)'
    BY <1>h, <1>n, <2>1, <2>3, <2>4 DEF KeptLists, Current, byScript, Conf
  <2>6. wpc' = "start" /\ Current(wcfg)' =>
          \A e \in wJobs' : byScript(wcfg, e[1])' =>
            /\ e[1] \notin inFlight' /\ (e[1] \in dynamic' \/ ~goodOnDisk(e[1])')
            /\ \A f \in wJobs' : f[1] = e[1] => f = e
    BY <1>h, <1>n, <2>1, <2>3, <2>4 DEF KeptLists, Current, byScript, Conf
  <2> QED
    BY <2>5, <2>6 DEF KeptLists, byScript, Conf
<1> SUFFICES ASSUME \A d \in Names : goodOnDisk(d)' => goodOnDisk(d)
    PROVE  KeptLists'
  BY <1>g, <1>w
<1>1. ASSUME NEW c \in Configs, ApplyBegin(c) PROVE KeptLists'
  <2>1. Len(applied') = Len(applied) + 1 /\ wcfg' = wcfg /\ Len(applied) \in Nat
    BY <1>h, <1>1 DEF ApplyBegin, worker, TypeMaps
  <2>2. ~Current(wcfg)'
    BY <1>h, <2>1 DEF Current, LocalsOK, TypeActors
  <2> QED
    BY <2>2 DEF KeptLists
<1>2. ASSUME (\E d \in Names : ApplyRead(d)) \/ ApplyStore \/ ApplyEnd \/ ApplyWake PROVE KeptLists'
  <2>1. UNCHANGED <<wpc, wcfg, applied, wJobs, candidates, inFlight, dynamic>>
    BY <1>2 DEF ApplyRead, ApplyStore, ApplyEnd, ApplyWake, worker, maps
  <2> QED
    BY <1>q, <2>1
<1>3. ASSUME (\E h \in Handshakes, d \in Names : HandshakeLoad(h, d)) \/
            (\E h \in Handshakes : HandshakePush(h)) \/ (\E h \in Handshakes : HandshakeWake(h))
     PROVE  KeptLists'
  <2>1. UNCHANGED <<wpc, wcfg, applied, wJobs, candidates, inFlight, dynamic>>
    BY <1>3 DEF HandshakeLoad, HandshakePush, HandshakeWake, worker, maps
  <2> QED
    BY <1>q, <2>1
<1>4. ASSUME Start \/ TakeProposal \/ ReadConfig \/ WorkerSleep \/ WorkerWoken \/ WorkerTimer \/ Crash PROVE KeptLists'
  <2>1. wpc' \notin {"announce", "list", "start"}
    BY <1>4 DEF Start, TakeProposal, ReadConfig, WorkerSleep, WorkerWoken, WorkerTimer, Crash, worker
  <2> QED
    BY <1>r, <2>1
<1>5. ASSUME adoptCandidates PROVE KeptLists'
  <2> DEFINE S == IF Current(wcfg) THEN candidates ELSE {}
             good == {d \in S : d \in ScriptNames[Conf(wcfg)] /\ Loadable(d) /\ Usable(diskCert[d])}
  <2>1. candidates' = candidates \ (good \cup {d \in S : d \notin ScriptNames[Conf(wcfg)]})
    BY <1>5 DEF adoptCandidates
  <2>2. wpc' = "announce" /\ UNCHANGED <<wcfg, applied>>
    BY <1>5 DEF adoptCandidates
  <2>3. Current(wcfg) => \A d \in candidates' : ~goodOnDisk(d) /\ d \in Names
    BY <1>n, <2>1 DEF goodOnDisk
  <2> QED
    BY <2>2, <2>3 DEF KeptLists, Current
<1>6. ASSUME WorkerAnnounce PROVE KeptLists'
  <2>1. UNCHANGED <<wcfg, applied, candidates>> /\ wpc = "announce" /\ wpc' = "list"
    BY <1>6 DEF WorkerAnnounce
  <2> QED
    BY <1>h, <1>n, <2>1 DEF KeptLists, Current, byScript, Conf
<1>7. ASSUME pendingJobs PROVE KeptLists'
  <2>1. /\ UNCHANGED <<wcfg, applied, candidates, dynamic, inFlight>>
        /\ wpc = "list" /\ wpc' = "start" /\ wJobs' = listed(Len(applied))
    BY <1>7 DEF pendingJobs, maps
  <2>2. ASSUME Current(wcfg), NEW e \in listed(Len(applied)), byScript(wcfg, e[1])
       PROVE  /\ e[1] \notin inFlight /\ (e[1] \in dynamic \/ ~goodOnDisk(e[1]))
              /\ \A f \in listed(Len(applied)) : f[1] = e[1] => f = e
    <3>1. e[1] \notin inFlight
      BY DEF listed, needsJob
    <3>2. e[1] \notin AutoDomains[Conf(Len(applied))]
      BY <2>2 DEF Current, byScript
    <3>3. e[1] \in dynamic \cup candidates /\ ~(e[1] \in dynamic /\ e[1] \in candidates)
      BY <1>h, <3>2 DEF listed, Managed, KeptMaps
    <3>4. e[1] \in dynamic \/ ~goodOnDisk(e[1])
      BY <1>h, <2>1, <2>2, <3>3 DEF KeptLists
    <3>5. ~(Missing(auto[e[1]]) /\ Due(auto[e[1]]))
      BY DEF Missing, Due
    <3>6. \A f \in listed(Len(applied)) : f[1] = e[1] => f = e
      BY <3>2, <3>3, <3>5 DEF listed, Managed
    <3> QED
      BY <3>1, <3>4, <3>6
  <2>3. \A e \in listed(Len(applied)) : e[1] \in Names
    <3>1. Managed(Len(applied)) \subseteq Names
      BY <1>h, <2>1, ManagedNames DEF IInv, LocalsOK
    <3> QED
      BY <1>n, <3>1 DEF listed
  <2> QED
    BY <2>1, <2>2, <2>3 DEF KeptLists, Current, byScript, Conf
<1>8. ASSUME NEW e \in wJobs, NEW g \in Goroutines, startJob(e, g) PROVE KeptLists'
  <2>1. /\ UNCHANGED <<wcfg, wpc, applied, dynamic>> /\ wpc = "start" /\ Current(wcfg)
        /\ wJobs' = wJobs \ {e} /\ inFlight' = inFlight \cup {e[1]}
    BY <1>8 DEF startJob, canStart
  <2>2. \A f \in wJobs : byScript(wcfg, f[1]) =>
          /\ f[1] \notin inFlight /\ (f[1] \in dynamic \/ ~goodOnDisk(f[1]))
          /\ \A x \in wJobs : x[1] = f[1] => x = f
    BY <1>h, <2>1 DEF KeptLists
  <2> QED
    BY <1>n, <2>1, <2>2 DEF KeptLists, Current, byScript, Conf
<1>9. ASSUME NEW g \in Goroutines, ScriptAccepts(g) \/ ScriptRefuses(g) PROVE KeptLists'
  <2>1. UNCHANGED <<wpc, wcfg, applied, wJobs, inFlight>> /\ candidates' \subseteq candidates
    BY <1>9 DEF ScriptAccepts, ScriptRefuses, worker
  <2>2. jname[g] \in inFlight
    BY <1>f, <1>9 DEF ScriptAccepts, ScriptRefuses, Active
  <2>3. \A d \in Names : d \notin inFlight /\ d \in dynamic => d \in dynamic'
    BY <1>9, <2>2 DEF ScriptAccepts, ScriptRefuses
  <2> QED
    BY <1>q, <2>1, <2>3
<1>10. ASSUME NEW g \in Goroutines,
            JobBegin(g) \/ ScriptStale(g) \/ ScriptRefusesRenewal(g) \/ IssueChallenge(g) \/
            (\E out \in {"temp", "perm"} : IssueFails(g, out)) \/ IssueAuthorized(g) \/ IssueFinalize(g)
     PROVE  KeptLists'
  <2>1. UNCHANGED <<wpc, wcfg, applied, wJobs, candidates, inFlight, dynamic>>
    <3>1. CASE JobBegin(g) \/ ScriptStale(g) \/ ScriptRefusesRenewal(g) \/ IssueChallenge(g)
      BY <3>1 DEF JobBegin, ScriptStale, ScriptRefusesRenewal, IssueChallenge, worker, maps
    <3>2. CASE (\E out \in {"temp", "perm"} : IssueFails(g, out)) \/ IssueAuthorized(g) \/ IssueFinalize(g)
      BY <3>2 DEF IssueFails, IssueAuthorized, IssueFinalize, worker, maps
    <3> QED
      BY <1>10, <3>1, <3>2
  <2> QED
    BY <1>q, <2>1
<1>11. ASSUME NEW g \in Goroutines,
            InstallRefused(g) \/ InstallBegin(g) \/ InstallCommit(g) \/ InstallFails(g) \/ IssueReturn(g) \/
            Backoff(g) \/ JobFinish(g) \/ JobWake(g)
     PROVE  KeptLists'
  <2>1. UNCHANGED <<wpc, wcfg, applied, wJobs, candidates, inFlight, dynamic>>
    BY <1>11
    DEF InstallRefused, InstallBegin, InstallCommit, InstallFails, IssueReturn, Backoff, JobFinish, JobWake,
        worker, maps
  <2> QED
    BY <1>q, <2>1
<1>12. ASSUME NEW g \in Goroutines, JobRelease(g) PROVE KeptLists'
  <2>1. UNCHANGED <<wpc, wcfg, applied, wJobs, candidates, dynamic>> /\ inFlight' \subseteq inFlight
    BY <1>12 DEF JobRelease, worker
  <2> QED
    BY <1>q, <2>1
<1>13. ASSUME (\E d \in Names : RetryNow(d)) \/ ConsoleWake \/ (\E s \in Serials : Age(s)) \/
            (\E d \in Names : RetryElapsed(d)) \/ (\E d \in Names : RejectElapsed(d))
     PROVE  KeptLists'
  <2>1. UNCHANGED <<wpc, wcfg, applied, wJobs, candidates, inFlight, dynamic>>
    BY <1>13 DEF RetryNow, ConsoleWake, Age, RetryElapsed, RejectElapsed, worker, maps
  <2> QED
    BY <1>q, <2>1
<1>14. ASSUME NEW d \in Names, RemoveCertificate(d) PROVE KeptLists'
  <2>1. UNCHANGED <<wpc, wcfg, applied, wJobs, candidates, inFlight>> /\ dynamic' = dynamic \ {d}
    BY <1>14 DEF RemoveCertificate, worker
  <2>2. ~goodOnDisk(d)'
    BY <1>14 DEF RemoveCertificate, IInv, TypeOK, TypeDisk, goodOnDisk, Loadable
  <2> QED
    BY <1>q, <2>1, <2>2
<1> QED
  BY <1>w, <1>1, <1>2, <1>3, <1>4, <1>5, <1>6, <1>7, <1>8, <1>9, <1>10, <1>11, <1>12, <1>13, <1>14
  DEF Next, ApplyStep, HandshakeStep, WorkerStep, JobStep

\* The jobs: one that asks a script for a name has nothing good on disk to fall
\* back on, and one that asks for a first certificate has none in use.
LEMMA KeptJobsStep ==
  ASSUME IInv, SerialsOK, KeptOK, Next
  PROVE  KeptJobs'
<1>h. /\ TypeMaps /\ TypeDisk /\ TypeActors /\ TypeJobs /\ LocalsOK /\ OneJobPerName /\ NamesAllowed
      /\ KeptMaps /\ KeptLists /\ KeptJobs
  BY DEF IInv, TypeOK, KeptOK
<1> DEFINE Asks(g) == jpc[g] \in {"begin", "asking"} /\ Current(jcfg[g]) /\ byScript(jcfg[g], jname[g])
<1>a. ASSUME NEW g \in Goroutines, jpc[g] \in {"begin", "asking"}
     PROVE  /\ g \in Active /\ jname[g] \in Names /\ jname[g] \in inFlight /\ jcfg[g] \in 1..Len(applied)
            /\ \A x \in Goroutines : x \in Active /\ jname[x] = jname[g] => x = g
  BY <1>h, <1>a DEF LocalsOK, OneJobPerName, Active
<1>b. \A g \in Goroutines : Asks(g) =>
        /\ jname[g] \in dynamic \/ ~goodOnDisk(jname[g])
        /\ jpc[g] = "asking" /\ ~jusable[g] => ~Usable(auto[jname[g]])
  BY <1>h DEF KeptJobs
\* The jobs that ask are the same, and nothing got better for their names.
<1>q. ASSUME UNCHANGED applied,
             \A g \in Goroutines : jpc'[g] \in {"begin", "asking"} =>
               /\ jpc'[g] = jpc[g] /\ jname'[g] = jname[g] /\ jcfg'[g] = jcfg[g] /\ jusable'[g] = jusable[g]
               /\ jname[g] \in dynamic => jname[g] \in dynamic' \/ ~goodOnDisk(jname[g])'
               /\ goodOnDisk(jname[g])' => goodOnDisk(jname[g])
               /\ Asks(g) /\ jpc[g] = "asking" /\ Usable(auto[jname[g]])' => Usable(auto[jname[g]])
     PROVE  KeptJobs'
  <2>1. ASSUME NEW g \in Goroutines, jpc'[g] \in {"begin", "asking"}, Current(jcfg[g])', byScript(jcfg[g], jname[g])'
       PROVE  /\ jname'[g] \in dynamic' \/ ~goodOnDisk(jname[g])'
              /\ jpc'[g] = "asking" /\ ~jusable'[g] => ~Usable(auto[jname[g]])'
    <3>1. Asks(g)
      BY <1>q, <2>1 DEF Current, byScript, Conf
    <3> HIDE DEF Asks
    <3>2. /\ jpc'[g] = jpc[g] /\ jname'[g] = jname[g] /\ jusable'[g] = jusable[g]
          /\ jname[g] \in dynamic => jname[g] \in dynamic' \/ ~goodOnDisk(jname[g])'
          /\ goodOnDisk(jname[g])' => goodOnDisk(jname[g])
          /\ Asks(g) /\ jpc[g] = "asking" /\ Usable(auto[jname[g]])' => Usable(auto[jname[g]])
      BY <1>q, <2>1
    <3>3. /\ jname[g] \in dynamic \/ ~goodOnDisk(jname[g])
          /\ jpc[g] = "asking" /\ ~jusable[g] => ~Usable(auto[jname[g]])
      BY <1>b, <3>1
    <3> QED
      BY <3>1, <3>2, <3>3
  <2> QED
    BY <2>1 DEF KeptJobs
<1> HIDE DEF Asks
\* The installations are of other names.
<1>w. ASSUME NEW g \in Goroutines, WriteKey(g) \/ WriteCert(g) PROVE KeptJobs'
  <2>1. UNCHANGED <<applied, dynamic, auto, age, jname, jcfg, jusable>> /\ g \in Active
        /\ jpc[g] \in Installing /\ jpc'[g] \in Installing /\ \A x \in Goroutines : x # g => jpc'[x] = jpc[x]
    BY <1>h, <1>w, InstallsManaged
  <2>2. \A x \in Goroutines : WriteKey(x) \/ WriteCert(x) => x \in Active /\ jpc[x] \in Installing
    BY <1>h, InstallsManaged
  <2>3. ASSUME NEW x \in Goroutines, jpc'[x] \in {"begin", "asking"}
       PROVE  jpc'[x] = jpc[x] /\ (goodOnDisk(jname[x])' => goodOnDisk(jname[x]))
    <3>1. x # g /\ jpc'[x] = jpc[x]
      BY <2>1, <2>3 DEF Installing
    <3>2. jname[x] \in Names /\ \A y \in Goroutines : y \in Active /\ jname[y] = jname[x] => y = x
      BY <1>a, <2>3, <3>1
    <3>3. PICK d \in Names : d = jname[x]
      BY <3>2
    <3>4. goodOnDisk(d)' /\ ~goodOnDisk(d) => \E y \in Goroutines : (WriteKey(y) \/ WriteCert(y)) /\ jname[y] = d
      BY GoodStep
    <3>5. goodOnDisk(d)' => goodOnDisk(d)
      BY <2>2, <2>3, <3>1, <3>2, <3>3, <3>4 DEF Installing
    <3> QED
      BY <2>1, <3>1, <3>3, <3>5
  <2>4. \A x \in Goroutines : Usable(auto[jname[x]])' <=> Usable(auto[jname[x]])
    BY <2>1 DEF Usable
  <2> QED
    BY <1>q, <2>1, <2>3, <2>4
<1> SUFFICES ASSUME \A d \in Names : goodOnDisk(d)' => goodOnDisk(d)
    PROVE  KeptJobs'
  <2>1. ASSUME ~\E g \in Goroutines : WriteKey(g) \/ WriteCert(g)
       PROVE  \A d \in Names : goodOnDisk(d)' => goodOnDisk(d)
    BY <2>1, GoodStep
  <2> QED
    BY <1>w, <2>1
\* The steps that leave every job that asks as it is.
<1>s. ASSUME UNCHANGED <<applied, dynamic, auto, age>>,
             \A x \in Goroutines : jpc'[x] \in {"begin", "asking"} =>
               jpc'[x] = jpc[x] /\ jname'[x] = jname[x] /\ jcfg'[x] = jcfg[x] /\ jusable'[x] = jusable[x]
     PROVE  KeptJobs'
  <2>1. \A x \in Goroutines : jpc'[x] \in {"begin", "asking"} =>
          /\ goodOnDisk(jname[x])' => goodOnDisk(jname[x])
          /\ Usable(auto[jname[x]])' => Usable(auto[jname[x]])
    <3>1. ASSUME NEW x \in Goroutines, jpc'[x] \in {"begin", "asking"}
         PROVE  /\ goodOnDisk(jname[x])' => goodOnDisk(jname[x])
                /\ Usable(auto[jname[x]])' => Usable(auto[jname[x]])
      <4>1. PICK d \in Names : d = jname[x] /\ jname'[x] = d
        BY <1>a, <1>s, <3>1
      <4>2. goodOnDisk(d)' => goodOnDisk(d)
        OBVIOUS
      <4> QED
        BY <1>s, <4>1, <4>2 DEF Usable
    <3> QED
      BY <3>1
  <2> QED
    BY <1>q, <1>s, <2>1
<1>1. ASSUME NEW c \in Configs, ApplyBegin(c) PROVE KeptJobs'
  <2>1. Len(applied') = Len(applied) + 1 /\ Len(applied) \in Nat /\ UNCHANGED <<jpc, jcfg>>
    BY <1>h, <1>1 DEF ApplyBegin, jobs, TypeMaps
  <2>2. \A g \in Goroutines : jpc'[g] \in {"begin", "asking"} => ~Current(jcfg[g])'
    BY <1>a, <2>1 DEF Current
  <2> QED
    BY <2>2 DEF KeptJobs
<1>2. ASSUME (\E d \in Names : ApplyRead(d)) \/ ApplyEnd \/ ApplyWake \/ Start PROVE KeptJobs'
  <2>1. UNCHANGED <<applied, dynamic, auto, age, jpc, jname, jcfg, jusable>>
    BY <1>2 DEF ApplyRead, ApplyEnd, ApplyWake, Start, maps, world, jobs
  <2> QED
    BY <1>s, <2>1
<1>3. ASSUME ApplyStore PROVE KeptJobs'
  <2>1. UNCHANGED <<applied, dynamic, age, jpc, jname, jcfg, jusable, diskKey, diskCert>> /\ apc = "store"
    BY <1>3 DEF ApplyStore, world, jobs, disk
  <2>2. \A d \in Names : d # aRead[1] => auto'[d] = auto[d]
    BY <1>h, <1>3 DEF ApplyStore, TypeMaps
  <2>3. ASSUME NEW g \in Goroutines, jpc[g] \in {"begin", "asking"}
       PROVE  /\ jname[g] \in Names
              /\ Asks(g) /\ jpc[g] = "asking" /\ Usable(auto[jname[g]])' => Usable(auto[jname[g]])
    <3>1. jname[g] \in Names
      BY <1>a, <2>3
    <3>2. Asks(g) => jname[g] # aRead[1]
      BY <1>h, <2>1 DEF Asks, KeptMaps, byScript, Current
    <3> QED
      BY <2>1, <2>2, <3>1, <3>2 DEF Usable
  <2>4. \A d \in Names : goodOnDisk(d)' <=> goodOnDisk(d)
    BY <2>1 DEF goodOnDisk, Loadable, Usable
  <2>5. \A g \in Goroutines : jpc[g] \in {"begin", "asking"} => (goodOnDisk(jname[g])' => goodOnDisk(jname[g]))
    BY <2>1, <2>3, <2>4 DEF goodOnDisk, Loadable, Usable
  <2> QED
    BY <1>q, <2>1, <2>3, <2>5
<1>4. ASSUME (\E h \in Handshakes, d \in Names : HandshakeLoad(h, d)) \/
            (\E h \in Handshakes : HandshakePush(h)) \/ (\E h \in Handshakes : HandshakeWake(h))
     PROVE  KeptJobs'
  <2>1. UNCHANGED <<applied, dynamic, auto, age, jpc, jname, jcfg, jusable>>
    BY <1>4 DEF HandshakeLoad, HandshakePush, HandshakeWake, maps, world, jobs
  <2> QED
    BY <1>s, <2>1
<1>5. ASSUME TakeProposal \/ ReadConfig \/ WorkerAnnounce \/ pendingJobs \/ WorkerSleep \/ WorkerWoken \/ WorkerTimer
     PROVE  KeptJobs'
  <2>1. UNCHANGED <<applied, dynamic, auto, age, jpc, jname, jcfg, jusable>>
    BY <1>5
    DEF TakeProposal, ReadConfig, WorkerAnnounce, pendingJobs, WorkerSleep, WorkerWoken, WorkerTimer, maps, world, jobs
  <2> QED
    BY <1>s, <2>1
<1>6. ASSUME adoptCandidates PROVE KeptJobs'
  <2> DEFINE S == IF Current(wcfg) THEN candidates ELSE {}
             good == {d \in S : d \in ScriptNames[Conf(wcfg)] /\ Loadable(d) /\ Usable(diskCert[d])}
  <2>1. /\ auto' = [d \in Names |-> IF d \in good THEN diskCert[d] ELSE auto[d]]
        /\ dynamic' = dynamic \cup good
    BY <1>6 DEF adoptCandidates
  <2>2. UNCHANGED <<applied, age, jpc, jname, jcfg, jusable, diskKey, diskCert>>
    BY <1>6 DEF adoptCandidates, world, jobs, disk
  <2>3. \A d \in good : d \in candidates /\ d \notin dynamic /\ goodOnDisk(d)
    BY <1>h DEF KeptMaps, goodOnDisk
  <2>4. ASSUME NEW g \in Goroutines, jpc[g] \in {"begin", "asking"}
       PROVE  /\ jname[g] \in Names
              /\ Asks(g) /\ jpc[g] = "asking" /\ Usable(auto[jname[g]])' => Usable(auto[jname[g]])
    <3>1. jname[g] \in Names
      BY <1>a, <2>4
    <3>2. Asks(g) => jname[g] \notin good
      BY <1>b, <2>3
    <3> HIDE DEF good
    <3> QED
      BY <2>1, <2>2, <3>1, <3>2 DEF Usable
  <2>5. \A g \in Goroutines : jpc[g] \in {"begin", "asking"} => (goodOnDisk(jname[g])' => goodOnDisk(jname[g]))
    BY <2>2 DEF goodOnDisk, Loadable, Usable
  <2> HIDE DEF good
  <2> QED
    BY <1>q, <2>1, <2>2, <2>4, <2>5
<1>7. ASSUME NEW e \in wJobs, NEW g \in Goroutines, startJob(e, g) PROVE KeptJobs'
  <2>1. /\ UNCHANGED <<applied, dynamic, auto, age, jusable, diskKey, diskCert>>
        /\ wpc = "start" /\ Current(wcfg)
    BY <1>7 DEF startJob, canStart, world, disk
  <2>2. /\ jpc'[g] = "begin" /\ jname'[g] = e[1] /\ jcfg'[g] = wcfg
        /\ \A x \in Goroutines : x # g => jpc'[x] = jpc[x] /\ jname'[x] = jname[x] /\ jcfg'[x] = jcfg[x]
    BY <1>h, <1>7 DEF startJob, TypeJobs
  <2>3. byScript(wcfg, e[1]) => e[1] \in dynamic \/ ~goodOnDisk(e[1])
    BY <1>h, <2>1 DEF KeptLists
  <2>4. ASSUME NEW x \in Goroutines, jpc'[x] \in {"begin", "asking"}, Current(jcfg[x])', byScript(jcfg[x], jname[x])'
       PROVE  /\ jname'[x] \in dynamic' \/ ~goodOnDisk(jname[x])'
              /\ jpc'[x] = "asking" /\ ~jusable'[x] => ~Usable(auto[jname[x]])'
    <3>1. CASE x = g
      BY <2>1, <2>2, <2>3, <2>4, <3>1 DEF byScript, Conf, goodOnDisk, Loadable, Usable
    <3>2. CASE x # g
      <4>1. Asks(x)
        BY <2>1, <2>2, <2>4, <3>2 DEF Asks, Current, byScript, Conf
      <4> QED
        BY <1>b, <2>1, <2>2, <3>2, <4>1 DEF goodOnDisk, Loadable, Usable
    <3> QED
      BY <3>1, <3>2
  <2> QED
    BY <2>4 DEF KeptJobs
<1>8. ASSUME NEW g \in Goroutines, JobBegin(g) PROVE KeptJobs'
  <2>1. UNCHANGED <<applied, dynamic, auto, age, jname, jcfg, diskKey, diskCert>> /\ jpc[g] = "begin"
    BY <1>8 DEF JobBegin, maps, world, disk
  <2>2. /\ \A x \in Goroutines : x # g => jpc'[x] = jpc[x] /\ jusable'[x] = jusable[x]
        /\ jusable'[g] = (jname[g] \notin AutoDomains[Conf(jcfg[g])] /\ Usable(auto[jname[g]]))
        /\ jpc'[g] = "asking" => jname[g] \notin AutoDomains[Conf(jcfg[g])]
        /\ jpc'[g] # "begin"
    BY <1>h, <1>8 DEF JobBegin, TypeJobs, TypeFlags, IInv, TypeOK
  <2>4. ASSUME NEW x \in Goroutines, jpc'[x] \in {"begin", "asking"}, Current(jcfg[x])', byScript(jcfg[x], jname[x])'
       PROVE  /\ jname'[x] \in dynamic' \/ ~goodOnDisk(jname[x])'
              /\ jpc'[x] = "asking" /\ ~jusable'[x] => ~Usable(auto[jname[x]])'
    <3>1. Asks(x)
      BY <2>1, <2>2, <2>4 DEF Asks, Current, byScript, Conf
    <3>2. CASE x = g
      BY <1>b, <2>1, <2>2, <2>4, <3>1, <3>2 DEF goodOnDisk, Loadable, Usable
    <3>3. CASE x # g
      BY <1>b, <2>1, <2>2, <3>1, <3>3 DEF goodOnDisk, Loadable, Usable
    <3> QED
      BY <3>2, <3>3
  <2> QED
    BY <2>4 DEF KeptJobs
<1>9. ASSUME NEW g \in Goroutines, ScriptAccepts(g) PROVE KeptJobs'
  <2>1. UNCHANGED <<applied, auto, age, jname, jcfg, jusable, diskKey, diskCert>> /\ dynamic' = dynamic \cup {jname[g]}
    BY <1>9 DEF ScriptAccepts, world, disk
  <2>2. \A x \in Goroutines : jpc'[x] \in {"begin", "asking"} => jpc'[x] = jpc[x]
    BY <1>h, <1>9 DEF ScriptAccepts, TypeJobs
  <2>3. \A x \in Goroutines : (goodOnDisk(jname[x])' <=> goodOnDisk(jname[x])) /\
                             (Usable(auto[jname[x]])' <=> Usable(auto[jname[x]]))
    BY <2>1 DEF goodOnDisk, Loadable, Usable
  <2> QED
    BY <1>q, <2>1, <2>2, <2>3
<1>10. ASSUME NEW g \in Goroutines, ScriptRefuses(g) PROVE KeptJobs'
  <2>1. UNCHANGED <<applied, age, jname, jcfg, jusable, diskKey, diskCert>> /\ dynamic' = dynamic \ {jname[g]}
    BY <1>10 DEF ScriptRefuses, world, disk
  <2>2. jpc'[g] = "exit" /\ \A x \in Goroutines : x # g => jpc'[x] = jpc[x]
    BY <1>h, <1>10 DEF ScriptRefuses, TypeJobs
  <2>3. \A d \in Names : auto'[d] \in {auto[d], 0}
    BY <1>h, <1>10 DEF ScriptRefuses, TypeMaps
  <2>4. ASSUME NEW x \in Goroutines, jpc'[x] \in {"begin", "asking"}
       PROVE  jpc'[x] = jpc[x] /\ jname[x] # jname[g] /\ jname[x] \in Names
    <3>1. x # g /\ jpc'[x] = jpc[x] /\ g \in Active
      BY <1>10, <2>2, <2>4 DEF ScriptRefuses, Active
    <3> QED
      BY <1>a, <2>4, <3>1
  <2>5. \A x \in Goroutines : goodOnDisk(jname[x])' <=> goodOnDisk(jname[x])
    BY <2>1 DEF goodOnDisk, Loadable, Usable
  <2>6. \A x \in Goroutines : jname[x] \in Names => (Usable(auto[jname[x]])' => Usable(auto[jname[x]]))
    BY <2>1, <2>3 DEF Usable
  <2> QED
    BY <1>q, <2>1, <2>4, <2>5, <2>6
<1>11. ASSUME NEW g \in Goroutines,
            ScriptStale(g) \/ ScriptRefusesRenewal(g) \/ IssueChallenge(g) \/ IssueAuthorized(g) \/
            IssueFinalize(g) \/ InstallBegin(g)
     PROVE  KeptJobs'
  <2>1. UNCHANGED <<applied, dynamic, auto, age, jname, jcfg, jusable>>
    BY <1>11
    DEF ScriptStale, ScriptRefusesRenewal, IssueChallenge, IssueAuthorized, IssueFinalize, InstallBegin, maps, world
  <2>2. \A x \in Goroutines : jpc'[x] \in {"begin", "asking"} => jpc'[x] = jpc[x]
    BY <1>h, <1>11
    DEF ScriptStale, ScriptRefusesRenewal, IssueChallenge, IssueAuthorized, IssueFinalize, InstallBegin, TypeJobs
  <2> QED
    BY <1>s, <2>1, <2>2
<1>12. ASSUME NEW g \in Goroutines,
            (\E out \in {"temp", "perm"} : IssueFails(g, out)) \/ InstallRefused(g) \/ InstallFails(g) \/
            IssueReturn(g) \/ Backoff(g) \/ JobFinish(g) \/ JobWake(g)
     PROVE  KeptJobs'
  <2>1. UNCHANGED <<applied, dynamic, auto, age, jname, jcfg, jusable>>
    BY <1>12 DEF IssueFails, InstallRefused, InstallFails, IssueReturn, Backoff, JobFinish, JobWake, maps, world
  <2>2. \A x \in Goroutines : jpc'[x] \in {"begin", "asking"} => jpc'[x] = jpc[x]
    BY <1>h, <1>12
    DEF IssueFails, InstallRefused, InstallFails, IssueReturn, Backoff, JobFinish, JobWake, attemptEnds,
        afterAttempt, TypeJobs
  <2> QED
    BY <1>s, <2>1, <2>2
<1>13. ASSUME NEW g \in Goroutines, JobRelease(g) PROVE KeptJobs'
  <2>1. UNCHANGED <<applied, dynamic, auto, age>>
    BY <1>13 DEF JobRelease, world
  <2>2. \A x \in Goroutines : jpc'[x] \in {"begin", "asking"} =>
          jpc'[x] = jpc[x] /\ jname'[x] = jname[x] /\ jcfg'[x] = jcfg[x] /\ jusable'[x] = jusable[x]
    BY <1>h, <1>13 DEF JobRelease, TypeJobs, TypeFlags, IInv, TypeOK
  <2> QED
    BY <1>s, <2>1, <2>2
<1>14. ASSUME NEW g \in Goroutines, InstallCommit(g) PROVE KeptJobs'
  <2>1. UNCHANGED <<applied, dynamic, age, jname, jcfg, jusable, diskKey, diskCert>>
    BY <1>14 DEF InstallCommit, world, disk
  <2>2. jpc'[g] = "return" /\ \A x \in Goroutines : x # g => jpc'[x] = jpc[x]
    BY <1>h, <1>14 DEF InstallCommit, attemptEnds, TypeJobs
  <2>3. \A d \in Names : d # jname[g] => auto'[d] = auto[d]
    BY <1>h, <1>14 DEF InstallCommit, TypeMaps
  <2>4. ASSUME NEW x \in Goroutines, jpc'[x] \in {"begin", "asking"}
       PROVE  jpc'[x] = jpc[x] /\ jname[x] # jname[g] /\ jname[x] \in Names
    <3>1. x # g /\ jpc'[x] = jpc[x] /\ g \in Active
      BY <1>14, <2>2, <2>4 DEF InstallCommit, Active
    <3> QED
      BY <1>a, <2>4, <3>1
  <2>5. \A x \in Goroutines : goodOnDisk(jname[x])' <=> goodOnDisk(jname[x])
    BY <2>1 DEF goodOnDisk, Loadable, Usable
  <2>6. \A x \in Goroutines : jname[x] \in Names /\ jname[x] # jname[g] =>
          (Usable(auto[jname[x]])' => Usable(auto[jname[x]]))
    BY <2>1, <2>3 DEF Usable
  <2> QED
    BY <1>q, <2>1, <2>4, <2>5, <2>6
<1>15. ASSUME (\E d \in Names : RetryNow(d)) \/ ConsoleWake \/ (\E d \in Names : RetryElapsed(d)) \/
            (\E d \in Names : RejectElapsed(d))
     PROVE  KeptJobs'
  <2>1. UNCHANGED <<applied, dynamic, auto, age, jpc, jname, jcfg, jusable>>
    BY <1>15 DEF RetryNow, ConsoleWake, RetryElapsed, RejectElapsed, maps, world, jobs
  <2> QED
    BY <1>s, <2>1
<1>16. ASSUME NEW s \in Serials, Age(s) PROVE KeptJobs'
  <2>1. UNCHANGED <<applied, dynamic, auto, jpc, jname, jcfg, jusable, diskKey, diskCert>>
    BY <1>16 DEF Age, maps, jobs, disk
  <2>2. \A c : c # 0 /\ age'[c] # "expired" => age[c] # "expired"
    BY <1>h, <1>16 DEF Age, TypeDisk
  <2>3. \A g \in Goroutines : (goodOnDisk(jname[g])' => goodOnDisk(jname[g])) /\
                             (Usable(auto[jname[g]])' => Usable(auto[jname[g]]))
    BY <2>1, <2>2 DEF goodOnDisk, Loadable, Usable
  <2> QED
    BY <1>q, <2>1, <2>3
<1>17. ASSUME NEW d \in Names, RemoveCertificate(d) PROVE KeptJobs'
  <2>1. UNCHANGED <<applied, age, jpc, jname, jcfg, jusable>> /\ dynamic' = dynamic \ {d} /\ d \notin inFlight
    BY <1>17 DEF RemoveCertificate, world, jobs
  <2>2. \A x \in Names : x # d => auto'[x] = auto[x] /\ diskKey'[x] = diskKey[x] /\ diskCert'[x] = diskCert[x]
    BY <1>h, <1>17 DEF RemoveCertificate, TypeMaps, TypeDisk
  <2>3. \A g \in Goroutines : jpc[g] \in {"begin", "asking"} => jname[g] \in Names /\ jname[g] # d
    BY <1>a, <2>1
  <2>4. \A g \in Goroutines : jpc[g] \in {"begin", "asking"} =>
          (goodOnDisk(jname[g])' => goodOnDisk(jname[g])) /\ (Usable(auto[jname[g]])' => Usable(auto[jname[g]]))
    BY <2>1, <2>2, <2>3 DEF goodOnDisk, Loadable, Usable
  <2> QED
    BY <1>q, <2>1, <2>3, <2>4
<1>18. ASSUME Crash PROVE KeptJobs'
  BY <1>18 DEF Crash, KeptJobs
<1> QED
  BY <1>w, <1>1, <1>2, <1>3, <1>4, <1>5, <1>6, <1>7, <1>8, <1>9, <1>10, <1>11, <1>12, <1>13, <1>14, <1>15, <1>16,
    <1>17, <1>18
  DEF Next, ApplyStep, HandshakeStep, WorkerStep, JobStep

\* The second invariant: certificates, wake-ups, what scripts may drop.
LEMMA InitCertsOK == Init => CertsOK
<1> SUFFICES ASSUME Init PROVE CertsOK
  OBVIOUS
<1>1. SerialsOK
  BY DEF Init, SerialsOK, DiskNotBehind
<1>2. WakesOK
  BY DEF Init, WakesOK
<1>3. KeptOK
  BY DEF Init, KeptOK, KeptMaps, KeptLists, KeptJobs
<1> QED
  BY <1>1, <1>2, <1>3 DEF CertsOK, WaitingHasReason, Init

LEMMA NextCertsOK == IInv /\ CertsOK /\ [Next]_vars => CertsOK'
<1> SUFFICES ASSUME IInv, CertsOK, [Next]_vars PROVE CertsOK'
  OBVIOUS
<1>1. CASE Next
  <2>1. SerialsOK' /\ WakesOK'
    BY <1>1, SerialsStep, WakesStep DEF CertsOK
  <2>2. KeptMaps' /\ KeptLists' /\ KeptJobs'
    BY <1>1, KeptMapsStep, KeptListsStep, KeptJobsStep DEF CertsOK, KeptOK
  <2>3. WaitingHasReason'
    BY <1>1, WaitingStep DEF CertsOK, IInv
  <2> QED
    BY <2>1, <2>2, <2>3 DEF CertsOK, KeptOK
<1>2. CASE UNCHANGED vars
  <2>1. SerialsOK' /\ WaitingHasReason'
    BY <1>2 DEF CertsOK, SerialsOK, DiskNotBehind, WaitingHasReason, vars, maps, disk, applier, jobs, world
  <2>2. WakesOK'
    BY <1>2
    DEF CertsOK, WakesOK, WakeComing, Current, listed, Managed, Conf, needsJob, Missing, Due, vars, maps, applier,
        worker, shakes, jobs, world, bounds, history
  <2>3. KeptMaps' /\ KeptLists'
    BY <1>2
    DEF CertsOK, KeptOK, KeptMaps, KeptLists, Current, Conf, byScript, goodOnDisk, Loadable, Usable, vars, maps,
        disk, applier, worker, world
  <2>4. KeptJobs'
    BY <1>2
    DEF CertsOK, KeptOK, KeptJobs, Current, Conf, byScript, goodOnDisk, Loadable, Usable, vars, maps, disk, jobs, world
  <2> QED
    BY <2>1, <2>2, <2>3, <2>4 DEF CertsOK, KeptOK
<1> QED
  BY <1>1, <1>2

THEOREM CertsInductive == Spec => []CertsOK
  BY Inductive, InitCertsOK, NextCertsOK, PTL DEF Spec

\* What is served is never newer than the disk: installCertificate writes the
\* files before the map, and Apply never stores what it read too early.
THEOREM DiskKeepsUp == Spec => []DiskNotBehind
<1>1. CertsOK => DiskNotBehind
  BY DEF CertsOK, SerialsOK
<1> QED
  BY CertsInductive, <1>1, PTL

\* nextTry is set and cleared together with lastError.
THEOREM WaitsHaveReasons == Spec => []WaitingHasReason
<1>1. CertsOK => WaitingHasReason
  BY DEF CertsOK
<1> QED
  BY CertsInductive, <1>1, PTL

\* The worker loop of certs.go never goes to sleep on a proposal or a name that
\* needs a job, whatever the order of pushes, reloads, releases and wake-ups.
THEOREM WakesAreNotLost == Spec => []NoLostWakeup
<1>1. CertsOK => NoLostWakeup
  BY DEF CertsOK, WakesOK, NoLostWakeup
<1> QED
  BY CertsInductive, <1>1, PTL

\* No step of Apply, of the worker or of a job replaces the certificate a name
\* has in use by an older one.
THEOREM NothingRollsBack == Spec => NoRollback
<1> DEFINE Good == \A d \in Names : auto[d] # 0 /\ auto'[d] # 0 => auto[d] <= auto'[d]
<1>1. ASSUME IInv, CertsOK, Next PROVE Good
  <2> SUFFICES ASSUME NEW d \in Names, auto[d] # 0, auto'[d] # 0 PROVE auto[d] <= auto'[d]
    OBVIOUS
  <2>1. SerialsOK /\ auto[d] \in Nat
    BY <1>1, BoundAssumption DEF CertsOK, IInv, TypeOK, TypeMaps
  <2>2. CASE auto'[d] = auto[d]
    BY <2>1, <2>2
  <2>3. CASE auto'[d] # auto[d]
    <3>1. (apc = "store" /\ d = aRead[1] /\ auto'[d] = aRead[2]) \/ (auto'[d] = diskCert[d] /\ diskCert[d] # 0)
      BY <1>1, <2>3, AutoStep
    <3> QED
      BY <2>1, <3>1 DEF SerialsOK, DiskNotBehind
  <2> QED
    BY <2>2, <2>3
<1>2. IInv /\ CertsOK /\ [Next]_vars => [Good]_vars
  BY <1>1
<1> QED
  BY Inductive, CertsInductive, <1>2, PTL DEF Spec, NoRollback

\* Only the console, for a name with an error on record, or a crash takes a
\* certificate that is still valid out of use: no refusal of a script does.
THEOREM UsableIsKept == Spec => KeepsUsable
<1> DEFINE Good == \A d \in Names : Usable(auto[d]) /\ auto'[d] = 0 =>
                     (consoleOps' # consoleOps /\ d \in lastError) \/ crashes' # crashes
<1>1. ASSUME IInv, CertsOK, Next PROVE Good
  <2> SUFFICES ASSUME NEW d \in Names, Usable(auto[d]), auto'[d] = 0
      PROVE  (consoleOps' # consoleOps /\ d \in lastError) \/ crashes' # crashes
    OBVIOUS
  <2>1. SerialsOK /\ KeptJobs /\ NamesAllowed /\ consoleOps \in Nat /\ crashes \in Nat
    BY <1>1 DEF CertsOK, KeptOK, IInv, TypeOK, TypeFlags
  <2>2. auto[d] # 0 /\ age[auto[d]] # "expired"
    BY DEF Usable
  <2>3. \/ apc = "store" /\ auto'[d] = aRead[2]
        \/ auto'[d] = diskCert[d] /\ diskCert[d] # 0
        \/ \E g \in Goroutines : ScriptRefuses(g) /\ jname[g] = d
        \/ RemoveCertificate(d) \/ Crash
    BY <1>1, <2>2, AutoStep
  <2>4. ~(apc = "store" /\ auto'[d] = aRead[2]) /\ ~(auto'[d] = diskCert[d] /\ diskCert[d] # 0)
    BY <2>1 DEF SerialsOK
  <2>5. ASSUME NEW g \in Goroutines, ScriptRefuses(g), jname[g] = d PROVE FALSE
    <3>1. jpc[g] = "asking" /\ Current(jcfg[g]) /\ ~jusable[g] /\ g \in Active
      BY <2>5 DEF ScriptRefuses, keepsCertificate, Active
    <3>2. byScript(jcfg[g], jname[g])
      BY <2>1, <3>1 DEF NamesAllowed, byScript
    <3> QED
      BY <2>1, <2>5, <3>1, <3>2 DEF KeptJobs
  <2>6. RemoveCertificate(d) => consoleOps' # consoleOps /\ d \in lastError
    BY <2>1, <2>2 DEF RemoveCertificate, autoRemovable
  <2>7. Crash => crashes' # crashes
    BY <2>1 DEF Crash
  <2> QED
    BY <2>3, <2>4, <2>5, <2>6, <2>7
<1>2. IInv /\ CertsOK /\ [Next]_vars => [Good]_vars
  BY <1>1
<1> QED
  BY Inductive, CertsInductive, <1>2, PTL DEF Spec, KeepsUsable

===============================================================================
