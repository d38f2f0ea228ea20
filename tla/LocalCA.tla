------------------------------ MODULE LocalCA ------------------------------
(***************************************************************************)
(* One CA folder (localca.go, console_ca.go): the CA, made at start-up,    *)
(* renewed with its key or replaced by hand on disk, and the certificates  *)
(* it issues on first use, kept in memory and on disk.  Handshakes and the *)
(* renewal pass call certificate; the console removes certificates and     *)
(* deletes the CA.  A CA certificate is [key, n], the n-th for a key; a    *)
(* leaf is [serial, signer, host, obj], where obj, a ghost, is the open    *)
(* localCA that issued it.  Locks of another localCA for the same folder   *)
(* are other locks.  Each file is written whole (writeFileAtomic0600).     *)
(***************************************************************************)
EXTENDS Naturals, FiniteSets

CONSTANTS
  Askers,    \* handshakes, and the renewal pass
  Hosts,      \* names certificates are for (sanKey)
  NoneYet,    \* no file, no certificate, nobody
  MaxCAKeys, MaxCARenewals, MaxLeaves, MaxOpens, MaxCACrashes \* bounds

ASSUME LocalCAAssumption ==
  /\ NoneYet \notin Askers /\ MaxCAKeys \in Nat \ {0} /\ MaxOpens \in Nat \ {0}
  /\ MaxCARenewals \in Nat /\ MaxLeaves \in Nat /\ MaxCACrashes \in Nat

VARIABLES
  caFiles,   \* [key, cert]: ca_key.pem and ca_cert.pem
  caKeys,    \* how many keys were ever made
  caStep,    \* whoever holds lockCA: [at, key, cert], what it read or made
  caInUse,   \* whether a rule of the running configuration uses the CA
  opens,     \* [last, now]: localCAs opened so far, and the one in m.localCAs (0: none)
  caStates,  \* localCA.ca of each
  leafMem,   \* localLeaf.cur of each and each host: [leaf, ca]
  leafLock,  \* localLeaf.mu
  leafDisk,  \* <host>/: [key, cert], the serial of the key and the leaf
  callers,   \* calls of certificate
  issued, dueLeaves, goneLeaves, \* leaves issued, due for renewal, removed from the console
  caCrashes

caVars == <<caFiles, caKeys, caStep, caInUse, opens, caStates, leafMem, leafLock, leafDisk, callers,
            issued, dueLeaves, goneLeaves, caCrashes>>
authority == <<caFiles, caKeys, caStep, caInUse, opens, caStates, caCrashes>>

Opens == 1..MaxOpens
CACerts == [key : 1..MaxCAKeys, n : 0..MaxCARenewals]
Leaves == [serial : 1..MaxLeaves, signer : 1..MaxCAKeys, host : Hosts, obj : Opens]
ASSUME NoneYetAssumption == NoneYet \notin Nat \cup CACerts \cup Leaves \cup [leaf : Leaves, ca : CACerts]

NoFolder == [key |-> NoneYet, cert |-> NoneYet]
NoCall == [at |-> "idle", host |-> NoneYet, obj |-> NoneYet, ca |-> NoneYet, cur |-> NoneYet,
           new |-> NoneYet, gone |-> {}]
AtRest == [at |-> "free", key |-> NoneYet, cert |-> NoneYet]

LocalCATypeOK ==
  /\ caFiles \in [key : {NoneYet} \cup 1..MaxCAKeys, cert : {NoneYet} \cup CACerts]
  /\ caStep.at \in {"free", "made", "read", "fits", "deleting"} /\ caInUse \in BOOLEAN
  /\ opens \in [last : 0..MaxOpens, now : 0..MaxOpens] /\ caStates \in [Opens -> {NoneYet} \cup CACerts]
  /\ leafMem \in [Opens -> [Hosts -> {NoneYet} \cup [leaf : Leaves, ca : CACerts]]]
  /\ leafLock \in [Opens -> [Hosts -> {NoneYet} \cup Askers]]
  /\ leafDisk \in [Hosts -> [key : {NoneYet} \cup 1..MaxLeaves, cert : {NoneYet} \cup Leaves]]
  /\ issued \subseteq Leaves /\ dueLeaves \subseteq issued /\ goneLeaves \subseteq issued

LocalCAInit ==
  /\ caFiles = NoFolder /\ caKeys = 0 /\ caStep = AtRest /\ caInUse = TRUE
  /\ opens = [last |-> 0, now |-> 0] /\ caStates = [o \in Opens |-> NoneYet]
  /\ leafMem = [o \in Opens |-> [h \in Hosts |-> NoneYet]]
  /\ leafLock = [o \in Opens |-> [h \in Hosts |-> NoneYet]]
  /\ leafDisk = [h \in Hosts |-> NoFolder] /\ callers = [p \in Askers |-> NoCall]
  /\ issued = {} /\ dueLeaves = {} /\ goneLeaves = {} /\ caCrashes = 0

-----------------------------------------------------------------------------
(* The CA: made, opened, renewed, replaced, deleted *)

leavesAlone == UNCHANGED <<leafMem, leafLock, leafDisk, callers, issued, dueLeaves, goneLeaves, caCrashes>>

\* generateCA for the default CA, when ca_key.pem is not there: the key, then
\* the certificate; a failure between them leaves the key.
MakeCAKey ==
  /\ opens.now = 0 /\ opens.last < MaxOpens /\ caStep = AtRest /\ caFiles.key = NoneYet /\ caKeys < MaxCAKeys
  /\ caKeys' = caKeys + 1 /\ caFiles' = [caFiles EXCEPT !.key = caKeys + 1]
  /\ caStep' = [AtRest EXCEPT !.at = "made", !.key = caKeys + 1]
  /\ leavesAlone /\ UNCHANGED <<caInUse, opens, caStates>>
MakeCACert ==
  /\ caStep.at = "made" /\ caStep' = AtRest
  /\ \/ caFiles' = [caFiles EXCEPT !.cert = [key |-> caStep.key, n |-> 0]]
     \/ UNCHANGED caFiles
  /\ leavesAlone /\ UNCHANGED <<caKeys, caInUse, opens, caStates>>

caFits(key, cert) == key # NoneYet /\ cert # NoneYet /\ cert.key = key

\* openLocalCA of what is there; what does not fit together is not opened.
OpenCA ==
  /\ opens.now = 0 /\ opens.last < MaxOpens /\ caStep = AtRest /\ caFits(caFiles.key, caFiles.cert)
  /\ opens' = [last |-> opens.last + 1, now |-> opens.last + 1]
  /\ caStates' = [caStates EXCEPT ![opens.last + 1] = caFiles.cert]
  /\ leavesAlone /\ UNCHANGED <<caFiles, caKeys, caStep, caInUse>>

\* renewCA, every pass: the key is read, then the certificate, which must be
\* of that key; a due one is signed again and written over whatever is there by
\* then (lockCA keeps out the console, not a hand), or could not be written,
\* which leaves all as it was; the state is replaced if it changed.
RenewReadKey ==
  /\ opens.now # 0 /\ caStep = AtRest /\ caFiles.key # NoneYet
  /\ caStep' = [AtRest EXCEPT !.at = "read", !.key = caFiles.key]
  /\ leavesAlone /\ UNCHANGED <<caFiles, caKeys, caInUse, opens, caStates>>
RenewReadCert ==
  /\ caStep.at = "read"
  /\ caStep' = IF caFits(caStep.key, caFiles.cert) THEN [caStep EXCEPT !.at = "fits", !.cert = caFiles.cert] ELSE AtRest
  /\ leavesAlone /\ UNCHANGED <<caFiles, caKeys, caInUse, opens, caStates>>
renewed(cert) == [cert EXCEPT !.n = @ + 1]
RenewCA ==
  /\ caStep.at = "fits" /\ caStep' = AtRest
  /\ \/ UNCHANGED caFiles /\ caStates' = [caStates EXCEPT ![opens.now] = caStep.cert]
     \/ /\ caStep.cert.n < MaxCARenewals /\ caFiles' = [caFiles EXCEPT !.cert = renewed(caStep.cert)]
        /\ caStates' = [caStates EXCEPT ![opens.now] = renewed(caStep.cert)]
     \/ UNCHANGED <<caFiles, caStates>>
  /\ leavesAlone /\ UNCHANGED <<caKeys, caInUse, opens>>

\* Another CA put in its place by hand, file by file, with no lock.
ReplaceCAKey ==
  /\ opens.now # 0 /\ caKeys < MaxCAKeys /\ caFiles.key # NoneYet
  /\ caKeys' = caKeys + 1 /\ caFiles' = [caFiles EXCEPT !.key = caKeys + 1]
  /\ leavesAlone /\ UNCHANGED <<caStep, caInUse, opens, caStates>>
ReplaceCACert ==
  /\ caFiles.key # NoneYet /\ caFiles.cert # NoneYet /\ caFiles.cert.key # caFiles.key
  /\ caFiles' = [caFiles EXCEPT !.cert = [key |-> caFiles.key, n |-> 0]]
  /\ leavesAlone /\ UNCHANGED <<caKeys, caStep, caInUse, opens, caStates>>

UseCA ==
  /\ caInUse' = ~caInUse
  /\ leavesAlone /\ UNCHANGED <<caFiles, caKeys, caStep, opens, caStates>>

\* caDelete: refused while a rule uses it, then under lockCA the whole folder
\* goes to the archive and the CA is forgotten.
CheckDelete ==
  /\ ~caInUse /\ caFiles.key # NoneYet /\ caStep = AtRest /\ caStep' = [AtRest EXCEPT !.at = "deleting"]
  /\ leavesAlone /\ UNCHANGED <<caFiles, caKeys, caInUse, opens, caStates>>
DeleteCA ==
  /\ caStep.at = "deleting" /\ caStep' = AtRest /\ caFiles' = NoFolder
  /\ leafDisk' = [h \in Hosts |-> NoFolder] /\ opens' = [opens EXCEPT !.now = 0]
  /\ UNCHANGED <<caKeys, caInUse, caStates, leafMem, leafLock, callers, issued, dueLeaves, goneLeaves, caCrashes>>

-----------------------------------------------------------------------------
(* certificate *)

callTo(p, rec) == callers' = [callers EXCEPT ![p] = rec]
mem(p) == leafMem[callers[p].obj][callers[p].host]
setMem(p, v) == leafMem' = [leafMem EXCEPT ![callers[p].obj][callers[p].host] = v]
setLock(p, v) == leafLock' = [leafLock EXCEPT ![callers[p].obj][callers[p].host] = v]
isDue(leaf) == leaf \in dueLeaves
done(p, leaf) == [callers[p] EXCEPT !.at = "done", !.new = leaf]

CallCertificate(p, h) ==
  /\ callers[p].at = "idle" /\ caInUse /\ opens.now # 0
  /\ callTo(p, [NoCall EXCEPT !.at = "look", !.host = h, !.obj = opens.now, !.ca = caStates[opens.now],
                          !.gone = goneLeaves])
  /\ UNCHANGED <<authority, leafMem, leafLock, leafDisk, issued, dueLeaves, goneLeaves>>

\* Without a lock: in memory, checked against the CA as it was loaded, not due.
\* mutant: whatever CA it was checked against
usableAnyway(st, ca) == st # NoneYet /\ ~isDue(st.leaf)
usable(st, ca) == st # NoneYet /\ st.ca = ca /\ ~isDue(st.leaf)
LookInTable(p) ==
  /\ callers[p].at = "look"
  /\ callTo(p, IF usable(mem(p), callers[p].ca) THEN done(p, mem(p).leaf) ELSE [callers[p] EXCEPT !.at = "lock"])
  /\ UNCHANGED <<authority, leafMem, leafLock, leafDisk, issued, dueLeaves, goneLeaves>>

\* archive: the folder is moved aside, or it cannot be, and stays.
archive(h) == leafDisk' = [leafDisk EXCEPT ![h] = NoFolder] \/ UNCHANGED leafDisk

\* With the lock: again, and checked against the CA as it is now.
recheckedNot(st, ca) == NoneYet             \* mutant: the table is not looked at again
rechecked(st, ca) == IF st = NoneYet \/ st.leaf.signer # ca.key THEN NoneYet ELSE [leaf |-> st.leaf, ca |-> ca]
LookAgain(p) ==
  LET ca == caStates[callers[p].obj]
      st == rechecked(mem(p), ca)
      foreign == mem(p) # NoneYet /\ st = NoneYet
      c == [callers[p] EXCEPT !.ca = ca, !.cur = IF st = NoneYet THEN NoneYet ELSE st.leaf]
  IN /\ callers[p].at = "lock" /\ leafLock[callers[p].obj][callers[p].host] = NoneYet
     /\ setMem(p, st)
     /\ IF foreign THEN archive(callers[p].host) ELSE UNCHANGED leafDisk
     /\ IF st # NoneYet /\ ~isDue(st.leaf)
        THEN callTo(p, [done(p, st.leaf) EXCEPT !.ca = ca]) /\ UNCHANGED leafLock
        ELSE callTo(p, [c EXCEPT !.at = IF st = NoneYet THEN "disk" ELSE "issue"]) /\ setLock(p, p)
     /\ UNCHANGED <<authority, issued, dueLeaves, goneLeaves>>

\* fromDisk: a folder that holds anything but a pair of this CA's for this
\* name goes to the archive; one that could not be moved is written over.
pairOf(f, ca, h) == f.cert # NoneYet /\ f.key = f.cert.serial /\ f.cert.signer = ca.key /\ f.cert.host = h
FromDisk(p) ==
  LET h == callers[p].host
      f == leafDisk[h]
      ours == pairOf(f, callers[p].ca, h)
  IN /\ callers[p].at = "disk"
     /\ IF ours THEN UNCHANGED leafDisk ELSE archive(h)
     /\ IF ours /\ ~isDue(f.cert)
        THEN /\ setMem(p, [leaf |-> f.cert, ca |-> callers[p].ca]) /\ setLock(p, NoneYet)
             /\ callTo(p, done(p, f.cert))
        ELSE callTo(p, [callers[p] EXCEPT !.at = "issue"]) /\ UNCHANGED <<leafMem, leafLock>>
     /\ UNCHANGED <<authority, issued, dueLeaves, goneLeaves>>

\* issue may fail: the old certificate stays, or the client is refused.
Issue(p) ==
  LET c == callers[p]
      leaf == [serial |-> Cardinality(issued) + 1, signer |-> c.ca.key, host |-> c.host, obj |-> c.obj]
  IN /\ c.at = "issue"
     /\ \/ /\ Cardinality(issued) < MaxLeaves /\ issued' = issued \cup {leaf}
           /\ callTo(p, [c EXCEPT !.at = "savekey", !.new = leaf]) /\ UNCHANGED leafLock
        \/ /\ setLock(p, NoneYet) /\ UNCHANGED issued
           /\ callTo(p, IF c.cur = NoneYet THEN NoCall ELSE done(p, c.cur))
     /\ UNCHANGED <<authority, leafMem, leafDisk, dueLeaves, goneLeaves>>

\* save: the key, then the certificate; either may fail, which only costs the copy on disk.
SaveLeafKey(p) ==
  /\ callers[p].at = "savekey"
  /\ \/ /\ leafDisk' = [leafDisk EXCEPT ![callers[p].host].key = callers[p].new.serial]
        /\ callTo(p, [callers[p] EXCEPT !.at = "savecert"])
     \/ callTo(p, [callers[p] EXCEPT !.at = "publish"]) /\ UNCHANGED leafDisk
  /\ UNCHANGED <<authority, leafMem, leafLock, issued, dueLeaves, goneLeaves>>
SaveLeafCert(p) ==
  /\ callers[p].at = "savecert" /\ callTo(p, [callers[p] EXCEPT !.at = "publish"])
  /\ \/ leafDisk' = [leafDisk EXCEPT ![callers[p].host].cert = callers[p].new]
     \/ UNCHANGED leafDisk
  /\ UNCHANGED <<authority, leafMem, leafLock, issued, dueLeaves, goneLeaves>>
Publish(p) ==
  /\ callers[p].at = "publish" /\ setMem(p, [leaf |-> callers[p].new, ca |-> callers[p].ca])
  /\ setLock(p, NoneYet) /\ callTo(p, done(p, callers[p].new))
  /\ UNCHANGED <<authority, leafDisk, issued, dueLeaves, goneLeaves>>
Answered(p) ==
  /\ callers[p].at = "done" /\ callTo(p, NoCall)
  /\ UNCHANGED <<authority, leafMem, leafLock, leafDisk, issued, dueLeaves, goneLeaves>>

-----------------------------------------------------------------------------
(* Around it *)

LeafDue(l) ==
  /\ l \in issued \ dueLeaves /\ dueLeaves' = dueLeaves \cup {l}
  /\ UNCHANGED <<authority, leafMem, leafLock, leafDisk, callers, issued, goneLeaves>>

\* remove, from the console: to the archive, then forgotten.
RemoveLeaf(h) ==
  LET o == opens.now IN
  /\ o # 0 /\ leafMem[o][h] # NoneYet /\ leafLock[o][h] = NoneYet
  /\ leafMem' = [leafMem EXCEPT ![o][h] = NoneYet] /\ leafDisk' = [leafDisk EXCEPT ![h] = NoFolder]
  /\ goneLeaves' = goneLeaves \cup {leafMem[o][h].leaf}
  /\ UNCHANGED <<authority, leafLock, callers, issued, dueLeaves>>

CACrash ==
  /\ caCrashes < MaxCACrashes /\ caCrashes' = caCrashes + 1
  /\ opens' = [opens EXCEPT !.now = 0] /\ caStep' = AtRest /\ callers' = [p \in Askers |-> NoCall]
  /\ leafMem' = [o \in Opens |-> [h \in Hosts |-> NoneYet]]
  /\ leafLock' = [o \in Opens |-> [h \in Hosts |-> NoneYet]]
  /\ UNCHANGED <<caFiles, caKeys, caInUse, caStates, leafDisk, issued, dueLeaves, goneLeaves>>

CallerRuns(p) == LookInTable(p) \/ LookAgain(p) \/ FromDisk(p) \/ Issue(p) \/ SaveLeafKey(p)
                 \/ SaveLeafCert(p) \/ Publish(p) \/ Answered(p)
CAChanges == MakeCAKey \/ MakeCACert \/ OpenCA \/ RenewReadKey \/ RenewReadCert \/ RenewCA \/ ReplaceCAKey \/ ReplaceCACert
             \/ UseCA \/ CheckDelete \/ DeleteCA \/ CACrash
LocalCANext == \/ \E p \in Askers : CallerRuns(p) \/ \E h \in Hosts : CallCertificate(p, h)
               \/ CAChanges \/ \E h \in Hosts : RemoveLeaf(h) \/ \E l \in Leaves : LeafDue(l)

\* A handshake's goroutine runs on; a lock that is free again and again is got
\* (sync.Mutex hands it over to who waits too long), hence strong fairness.
LocalCAFairness == \A p \in Askers : SF_caVars(CallerRuns(p))
LocalCASpec == LocalCAInit /\ [][LocalCANext]_caVars /\ LocalCAFairness

-----------------------------------------------------------------------------
(* Properties *)

\* What a handshake is given was signed with the key of the CA it was checked
\* against during that handshake and is for the name asked for, also when the
\* CA was replaced meanwhile or a crash left half a pair on disk; and it is not
\* one that had been removed from the console before the handshake began.
GivenLeafIsGood ==
  \A p \in Askers : LET c == callers[p] IN
    c.at = "done" => /\ c.new.signer = c.ca.key /\ c.new.host = c.host
                     /\ c.new \notin c.gone

\* "so only one is ever issued and its files are written once" (certificate,
\* localca.go:392-397), also for clients that race: one open CA issues a second
\* certificate for a name only when the first was due, removed, or signed with
\* another key.  The head of the file still says that "two racing clients may
\* both sign one, and the first to publish wins" (localca.go:34-37), as it was
\* before the name's lock; the code does what certificate's own comment says.
OnlyOneIssued ==
  \A l, m \in issued :
    l.obj = m.obj /\ l.host = m.host /\ l.signer = m.signer /\ l.serial < m.serial =>
      l \in dueLeaves \cup goneLeaves

\* Both, for the certificates of one CA folder.
LeavesAreRight == GivenLeafIsGood /\ OnlyOneIssued

\* A call for a certificate ends, whoever else asks for the same name.
CertificateCallsEnd == \A p \in Askers : callers[p].at # "idle" ~> callers[p].at = "idle"
=============================================================================
