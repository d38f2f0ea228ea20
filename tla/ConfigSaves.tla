----------------------------- MODULE ConfigSaves -----------------------------
(* The config file between the console's writers, whoever else edits it, and  *)
(* the goroutine that reloads it: configSave, ruleEdit, listenerEdit,         *)
(* authSave and oidcSave, which all read, check and commit under              *)
(* configFileMu (console.go, console_rules.go, console_auth.go,               *)
(* console_oidc.go), and watchConfig with reload (proxy.go).                  *)
(*                                                                            *)
(* A text is the set of changes in it, whether it loads, and the credential   *)
(* file its oidc item names; its hash is the text itself.  A new file has a   *)
(* new modification time.                                                     *)
EXTENDS Naturals, Sequences, FiniteSets, SequencesExt

CONSTANTS
  SavingPages,        \* console pages that save
  Watching,     \* the choices of reload_interval > 0: FALSE, only the console reloads
  maxBackups,
  MaxWrites,    \* bound: versions of the file
  MaxOutside,   \* bound: edits by another program
  MaxFaults     \* bound: writes that fail, reloads that are refused

NoFile == 0
NoTab == "none"

ASSUME ConfigSavesAssumption == NoTab \notin SavingPages /\ maxBackups \in Nat \ {0}

VARIABLES
  disk,     \* the file: [text, mtime, by], by whom it was last written
  loaded,     \* tab -> the version it loaded
  req,      \* tab -> its request: [at, old, new, files]
  fileMu,   \* who holds configFileMu
  backups,  \* the texts kept, oldest first
  creds,    \* the credential files that exist
  reloadNow,  \* reloadNow: the replies waited for, at most one buffered
  watcher,  \* watchConfig: [tick, at, reply, read, last]
  runningText,  \* the text the proxy runs
  spent     \* [writes, outside, faults]

saveVars == <<disk, loaded, req, fileMu, backups, creds, reloadNow, watcher, runningText, spent>>

Text(changes, loads, cred) == [changes |-> changes, loads |-> loads, cred |-> cred]
Version(d) == <<d.text, d.mtime>>

\* A text loads if it is well formed and its credential file can be read.
loadConfig(t, files) == t.loads /\ (t.cred = NoFile \/ t.cred \in files)

noReq == [at |-> "idle", old |-> Text({}, TRUE, NoFile), new |-> Text({}, TRUE, NoFile), made |-> NoFile, obsolete |-> NoFile]
onPath(t, at) == req[t].at = at

ConfigSavesInit ==
  /\ \E f \in {NoFile, 1} :
       /\ disk = [text |-> Text({}, TRUE, f), mtime |-> 1, by |-> "outside"]
       /\ creds = {f} \ {NoFile}
       /\ runningText = disk.text
       /\ watcher \in [tick : Watching, at : {"waiting"}, reply : {NoTab}, read : {disk.text}, last : {disk.text}]
  /\ loaded = [t \in SavingPages |-> <<>>]
  /\ req = [t \in SavingPages |-> noReq]
  /\ fileMu = NoTab
  /\ backups = <<>>
  /\ reloadNow = <<>>
  /\ spent = [writes |-> 1, outside |-> 0, faults |-> 0]

(* ------------------------------- The console ------------------------------- *)

\* configGet, and every page that shows the file: read under the lock.
ConfigGet(t) ==
  /\ onPath(t, "idle") /\ fileMu = NoTab
  /\ loaded' = [loaded EXCEPT ![t] = Version(disk)]
  /\ UNCHANGED <<disk, req, fileMu, backups, creds, reloadNow, watcher, runningText, spent>>

Lock(t) ==
  /\ onPath(t, "idle") /\ loaded[t] # <<>> /\ fileMu = NoTab
  /\ spent.writes < MaxWrites
  /\ fileMu' = t
  /\ req' = [req EXCEPT ![t].at = "locked"]
  /\ UNCHANGED <<disk, loaded, backups, creds, reloadNow, watcher, runningText, spent>>

\* The answer: the lock is released, and the page has the version it is
\* given, or what the console shows after a refusal.
answered(t, version) ==
  /\ req' = [req EXCEPT ![t] = noReq]
  /\ fileMu' = NoTab
  /\ loaded' = [loaded EXCEPT ![t] = version]

\* What is saved must build on the version the page loaded.
isBaseAnyway(t, version) == TRUE            \* mutant: the last save wins
isBase(t, version) == loaded[t] = version

\* What a page saves: its own change on the text it loaded (what the editor
\* holds; for the other edits the file, the same once the versions agree),
\* that may not load, and may replace or drop the credential file.
edits(t, old) ==
  LET mine == old.changes \cup {<<t, spent.writes>>}
      file == spent.writes + 1
  IN {[new |-> Text(mine, l, c), made |-> IF c = file THEN file ELSE NoFile,
       obsolete |-> IF c # old.cred THEN old.cred ELSE NoFile] :
        l \in BOOLEAN, c \in {old.cred, NoFile, file}}

\* readConfig, the comparison and the edit.  oidcSave writes the credential
\* file while it edits; if the result does not load, it is removed again.
Edit(t) ==
  /\ onPath(t, "locked")
  /\ IF ~isBase(t, Version(disk)) THEN answered(t, <<>>) /\ UNCHANGED creds
     ELSE \E e \in edits(t, loaded[t][1]) :
            LET files == creds \cup ({e.made} \ {NoFile})
            IN IF loadConfig(e.new, files)
               THEN /\ creds' = files
                    /\ req' = [req EXCEPT ![t] = [at |-> "checked", old |-> disk.text, new |-> e.new,
                                                  made |-> e.made, obsolete |-> e.obsolete]]
                    /\ UNCHANGED <<fileMu, loaded>>
               ELSE answered(t, loaded[t]) /\ UNCHANGED creds
  /\ UNCHANGED <<disk, backups, reloadNow, watcher, runningText, spent>>

\* oidcSave: the files the change leaves unused are removed before it is
\* written.
Forget(t) ==
  /\ onPath(t, "checked")
  /\ creds' = creds \ {req[t].obsolete}
  /\ req' = [req EXCEPT ![t].at = "commit"]
  /\ UNCHANGED <<disk, loaded, fileMu, backups, reloadNow, watcher, runningText, spent>>

fails == spent.faults < MaxFaults /\ spent' = [spent EXCEPT !.faults = @ + 1]

\* commitWith: the old text is kept as a backup, or nothing is written.
Backup(t) ==
  /\ onPath(t, "commit")
  /\ \/ /\ backups' = Append(backups, req[t].old)
        /\ req' = [req EXCEPT ![t].at = "kept"]
        /\ UNCHANGED <<fileMu, loaded, spent>>
     \/ fails /\ answered(t, loaded[t]) /\ UNCHANGED backups
  /\ UNCHANGED <<disk, creds, reloadNow, watcher, runningText>>

\* mutant: the newest go
prunedFromTheEnd(files) == IF Len(files) > maxBackups THEN SubSeq(files, 1, maxBackups) ELSE files
pruned(files) == IF Len(files) > maxBackups THEN SubSeq(files, Len(files) - maxBackups + 1, Len(files)) ELSE files

\* The rename, after which old backups go; the version written is the page's
\* (commitWith stats the file at once), and a reload is asked for.
WriteFile(t) ==
  /\ onPath(t, "kept")
  /\ \/ /\ disk' = [text |-> req[t].new, mtime |-> spent.writes + 1, by |-> "console"]
        /\ backups' = pruned(backups)
        /\ req' = [req EXCEPT ![t].at = "written"]
        /\ spent' = [spent EXCEPT !.writes = @ + 1]
        /\ loaded' = [loaded EXCEPT ![t] = Version(disk')]
        /\ UNCHANGED fileMu
     \/ fails /\ answered(t, loaded[t]) /\ UNCHANGED <<disk, backups>>
  /\ UNCHANGED <<creds, reloadNow, watcher, runningText>>

\* reloadNow has room for one; a request already there reads the file later
\* than this write, so giving up loses nothing.
\* mutant: nobody is told
AskedNoReload(t) ==
  /\ onPath(t, "written") /\ reloadNow = <<>>
  /\ req' = [req EXCEPT ![t].at = "waiting"]
  /\ UNCHANGED <<disk, loaded, fileMu, backups, creds, reloadNow, watcher, runningText, spent>>
AskReload(t) ==
  /\ onPath(t, "written") /\ reloadNow = <<>>
  /\ reloadNow' = <<t>>
  /\ req' = [req EXCEPT ![t].at = "waiting"]
  /\ UNCHANGED <<disk, loaded, fileMu, backups, creds, watcher, runningText, spent>>

\* The reply, or reloadWait: the answer carries the version just written.
Answer(t) ==
  /\ \/ req[t].at \in {"waiting", "replied"}
     \/ req[t].at = "written" /\ reloadNow # <<>>
  /\ answered(t, loaded[t])
  /\ UNCHANGED <<disk, backups, creds, reloadNow, watcher, runningText, spent>>

(* -------------------------------- Outside -------------------------------- *)

\* Another program writes the file whenever it likes: its own change on what
\* is there, possibly a text that does not load.
EditOutside ==
  /\ spent.writes < MaxWrites /\ spent.outside < MaxOutside
  /\ \E l \in BOOLEAN :
       disk' = [text |-> Text(disk.text.changes \cup {<<"outside", spent.writes>>}, l, disk.text.cred),
                mtime |-> spent.writes + 1, by |-> "outside"]
  /\ spent' = [spent EXCEPT !.writes = @ + 1, !.outside = @ + 1]
  /\ UNCHANGED <<loaded, req, fileMu, backups, creds, reloadNow, watcher, runningText>>

(* ------------------------------- watchConfig ------------------------------- *)

WatchWake ==
  /\ watcher.at = "waiting"
  /\ \/ watcher.tick /\ watcher.last # disk.text
        /\ watcher' = [watcher EXCEPT !.at = "awake", !.reply = NoTab]
        /\ UNCHANGED reloadNow
     \/ reloadNow # <<>>
        /\ watcher' = [watcher EXCEPT !.at = "awake", !.reply = Head(reloadNow)]
        /\ reloadNow' = Tail(reloadNow)
  /\ UNCHANGED <<disk, loaded, req, fileMu, backups, creds, runningText, spent>>

\* reload reads the file; the text it read last time is not applied again.
ReadFile ==
  /\ watcher.at = "awake"
  /\ watcher' = [watcher EXCEPT !.read = disk.text, !.last = disk.text,
                                !.at = IF watcher.last = disk.text THEN "reply" ELSE "apply"]
  /\ UNCHANGED <<disk, loaded, req, fileMu, backups, creds, reloadNow, runningText, spent>>

\* A text that does not load, or whose certificates are refused, changes
\* nothing.
ApplyFile ==
  /\ watcher.at = "apply"
  /\ watcher' = [watcher EXCEPT !.at = "reply"]
  /\ runningText' = IF loadConfig(watcher.read, creds) THEN watcher.read ELSE runningText
  /\ UNCHANGED <<disk, loaded, req, fileMu, backups, creds, reloadNow, spent>>

\* The reply channel is buffered: a page that stopped waiting holds nobody up.
Reply ==
  /\ watcher.at = "reply"
  /\ watcher' = [watcher EXCEPT !.at = "waiting", !.reply = NoTab]
  /\ req' = [t \in SavingPages |-> IF t = watcher.reply /\ onPath(t, "waiting") THEN [req[t] EXCEPT !.at = "replied"] ELSE req[t]]
  /\ UNCHANGED <<disk, loaded, fileMu, backups, creds, reloadNow, runningText, spent>>

Saving(t) == Edit(t) \/ Forget(t) \/ Backup(t) \/ WriteFile(t) \/ AskReload(t) \/ Answer(t)
Watch == WatchWake \/ ReadFile \/ ApplyFile \/ Reply
ConfigSavesNext ==
  \/ \E t \in SavingPages : ConfigGet(t) \/ Lock(t) \/ Saving(t)
  \/ EditOutside \/ Watch

\* A request's goroutine runs to its answer and watchConfig keeps running.
ConfigSavesFairness ==
  /\ \A t \in SavingPages : WF_saveVars(Saving(t))
  /\ WF_saveVars(Watch)

ConfigSavesSpec == ConfigSavesInit /\ [][ConfigSavesNext]_saveVars /\ ConfigSavesFairness

(* ------------------------------- Properties ------------------------------- *)

ConfigSavesTypeOK ==
  /\ disk.mtime = spent.writes /\ disk.by \in {"outside", "console"}
  /\ \A t \in SavingPages : req[t].at \in {"idle", "locked", "checked", "commit", "kept", "written", "waiting", "replied"}
  /\ fileMu \in SavingPages \cup {NoTab}
  /\ Len(backups) <= maxBackups + 1 + spent.faults
  /\ Len(reloadNow) <= 1

\* configFileMu and the version check: a save never undoes a change another
\* console page saved, whatever the two loaded and when (console.go: "two
\* writers can never interleave and a save always acts on the state it just
\* checked").
SavesBuildOnSaves ==
  [][disk'.by = "console" /\ disk' # disk /\ disk.by = "console"
       => disk.text.changes \subseteq disk'.text.changes]_saveVars

\* What the last saves replaced can be restored: the text a console save
\* overwrites is the newest backup.
ReplacedIsKept ==
  [][disk'.by = "console" /\ disk' # disk
       => \E t \in SavingPages : req[t].at = "kept" /\ Last(backups') = req[t].old]_saveVars

\* A page that saves is answered, and when nobody writes any more the proxy
\* runs the file the console wrote, unless it does not load; even with
\* reload_interval: 0, and when a page stopped waiting for the reply.
SavesSettle ==
  /\ \A t \in SavingPages : onPath(t, "locked") ~> onPath(t, "idle")
  /\ (\E t \in SavingPages : onPath(t, "written")) ~>
       (runningText = disk.text \/ disk.by = "outside" \/ ~loadConfig(disk.text, creds))

\* oidcSave: as long as every write succeeds, the credential file the saved
\* configuration names is there; the proxy could not load it otherwise.  When
\* a backup or the rename fails after Forget, it is not.
CredentialIsThere ==
  fileMu = NoTab /\ spent.faults = 0 => disk.text.cred = NoFile \/ disk.text.cred \in creds
==============================================================================
