----------------------------- MODULE CaSettings -----------------------------
(***************************************************************************)
(* A CA's config.yaml (caconfig.go, console_ca.go): read again when its    *)
(* time changes, made when there is none, saved from the console, edited   *)
(* by hand at any moment.  A text is good, or broken: what parse, check    *)
(* and the comparison with the CA's own certificate refuse.  Every write   *)
(* has a time of its own.                                                  *)
(***************************************************************************)
EXTENDS Naturals

CONSTANTS
  GoodTexts, BrokenTexts, \* what a config.yaml may hold
  DefaultText,            \* what defaultCAConfig writes
  NoText,                 \* no file
  MaxEdits, MaxSetFaults  \* bounds: edits by hand and saves; calls on the file that fail

ASSUME CaSettingsAssumption ==
  /\ DefaultText \in GoodTexts /\ NoText \notin GoodTexts \cup BrokenTexts
  /\ MaxEdits \in Nat /\ MaxSetFaults \in Nat

VARIABLES
  setFile,   \* [text, mtime]
  setOld,    \* a config.toml from before v1.5.0 is in the folder
  setUse,    \* localCA.conf: [text, broken, mtime]; unread: what the file had at that time was not read
  setLoad,   \* loadConfig, under lockCA: [at, mtime, text, unread]
  setSave,   \* caConfigSave: the text it writes next, or NoText
  setEdits, setFaults

settingsVars == <<setFile, setOld, setUse, setLoad, setSave, setEdits, setFaults>>
NoLoad == [at |-> "idle", mtime |-> 0, text |-> NoText, unread |-> FALSE]
defaults(broken) == [text |-> DefaultText, broken |-> broken, mtime |-> 0, unread |-> FALSE]

SettingsTypeOK ==
  /\ setFile \in [text : GoodTexts \cup BrokenTexts \cup {NoText}, mtime : Nat]
  /\ setUse \in [text : GoodTexts, broken : BOOLEAN, mtime : Nat, unread : BOOLEAN]
  /\ setLoad \in [at : {"idle", "absent", "made", "read", "set"}, mtime : Nat,
                  text : GoodTexts \cup BrokenTexts \cup {NoText}, unread : BOOLEAN]
  /\ setOld \in BOOLEAN /\ setSave \in GoodTexts \cup {NoText}
  /\ setEdits \in 0..MaxEdits /\ setFaults \in 0..MaxSetFaults

SettingsInit ==
  /\ setFile \in {[text |-> NoText, mtime |-> 0]} \cup {[text |-> t, mtime |-> 1] : t \in GoodTexts \cup BrokenTexts}
  /\ setOld \in BOOLEAN /\ setUse = defaults(FALSE)
  /\ setLoad = NoLoad /\ setSave = NoText /\ setEdits = 0 /\ setFaults = 0

written(t) == [text |-> t, mtime |-> setFile.mtime + 1]
setFault == setFaults < MaxSetFaults /\ setFaults' = setFaults + 1

-----------------------------------------------------------------------------
(* loadConfig *)

\* An unchanged time is left alone; a config.toml is reported, not read.
StatSettings ==
  /\ setLoad.at = "idle"
  /\ \/ /\ setFile.text = NoText /\ setOld /\ setUse' = defaults(TRUE) /\ UNCHANGED <<setLoad, setFaults>>
     \/ /\ setFile.text = NoText /\ ~setOld /\ setLoad' = [NoLoad EXCEPT !.at = "absent"]
        /\ UNCHANGED <<setUse, setFaults>>
     \/ /\ setFile.text # NoText /\ setUse.mtime # setFile.mtime
        /\ setLoad' = [NoLoad EXCEPT !.at = "read", !.mtime = setFile.mtime] /\ UNCHANGED <<setUse, setFaults>>
     \/ /\ setFault /\ setUse' = [setUse EXCEPT !.broken = TRUE, !.mtime = 0] /\ UNCHANGED setLoad
  /\ UNCHANGED <<setFile, setOld, setSave, setEdits>>
\* The defaults take the place of whatever was written since.
WriteDefaults ==
  /\ setLoad.at = "absent"
  /\ \/ /\ setFile' = written(DefaultText) /\ setLoad' = [setLoad EXCEPT !.at = "made"]
        /\ UNCHANGED <<setUse, setFaults>>
     \/ setFault /\ setUse' = defaults(TRUE) /\ setLoad' = NoLoad /\ UNCHANGED setFile
  /\ UNCHANGED <<setOld, setSave, setEdits>>
\* The defaults are published under the time of the file that is there now.
\* Without one fi is nil: a page's request ends, or the process dies and starts
\* again.
StatAgain ==
  /\ setLoad.at = "made" /\ setLoad' = NoLoad
  /\ \/ /\ setFile.text # NoText
        /\ setUse' = [defaults(FALSE) EXCEPT !.mtime = setFile.mtime, !.unread = setFile.text # DefaultText]
        /\ UNCHANGED <<setSave, setFaults>>
     \/ /\ IF setFile.text = NoText THEN UNCHANGED setFaults ELSE setFault
        /\ \/ UNCHANGED <<setUse, setSave>>
           \/ setUse' = defaults(FALSE) /\ setSave' = NoText
  /\ UNCHANGED <<setFile, setOld, setEdits>>
ReadSettings ==
  /\ setLoad.at = "read"
  /\ \/ setLoad' = [setLoad EXCEPT !.at = "set", !.text = setFile.text] /\ UNCHANGED setFaults
     \/ setFault /\ setLoad' = [setLoad EXCEPT !.at = "set", !.unread = TRUE]
  /\ UNCHANGED <<setFile, setOld, setUse, setSave, setEdits>>

\* The time published is the one Stat saw, before the text was read.
timeOfFile == setFile.mtime                 \* mutant: the time when it is published
timeOfLoad == setLoad.mtime
\* setConfig: a broken text, or a file gone or unreadable, keeps the settings in use.
SetSettings ==
  /\ setLoad.at = "set" /\ setLoad' = NoLoad
  /\ setUse' = IF setLoad.text \in GoodTexts
               THEN [text |-> setLoad.text, broken |-> FALSE, mtime |-> timeOfLoad, unread |-> FALSE]
               ELSE [setUse EXCEPT !.broken = TRUE, !.mtime = timeOfLoad, !.unread = setLoad.unread]
  /\ UNCHANGED <<setFile, setOld, setSave, setEdits, setFaults>>

-----------------------------------------------------------------------------
(* Saving and editing *)

\* caConfigSave: checked first, written under the lock, then loaded.
AskSave(t) ==
  /\ setSave = NoText /\ t \in GoodTexts /\ setEdits < MaxEdits /\ setEdits' = setEdits + 1
  /\ setSave' = t /\ UNCHANGED <<setFile, setOld, setUse, setLoad, setFaults>>
WriteSave ==
  /\ setSave # NoText /\ setLoad.at = "idle" /\ setSave' = NoText
  /\ \/ setFile' = written(setSave) /\ UNCHANGED setFaults
     \/ setFault /\ UNCHANGED setFile
  /\ UNCHANGED <<setOld, setUse, setLoad, setEdits>>
EditByHand(t) ==
  /\ setEdits < MaxEdits /\ setEdits' = setEdits + 1 /\ setFile' = written(t)
  /\ UNCHANGED <<setOld, setUse, setLoad, setSave, setFaults>>

LoadSettings == StatSettings \/ WriteDefaults \/ StatAgain \/ ReadSettings \/ SetSettings
SettingsNext == \/ LoadSettings \/ WriteSave \/ \E t \in GoodTexts : AskSave(t)
                \/ \E t \in GoodTexts \cup BrokenTexts \cup {NoText} : EditByHand(t)
\* The certificate worker loads the settings at every turn.
SettingsFairness == WF_settingsVars(LoadSettings) /\ WF_settingsVars(WriteSave)
SettingsSpec == SettingsInit /\ [][SettingsNext]_settingsVars /\ SettingsFairness

-----------------------------------------------------------------------------
(* Properties *)

fileInUse ==
  IF setFile.text \in GoodTexts THEN setUse.text = setFile.text /\ ~setUse.broken ELSE setUse.broken

\* Settings that carry the file's time are the file's, for every time at which
\* loadConfig read the file: an edit between the look at the time and the
\* reading is never taken for one already read, and a broken file is reported
\* while the settings before it stay.  The text of a time that went into use
\* without being read is not (unread): a read that failed is not tried again,
\* and an edit between the writing of the defaults and the look at their time
\* passes for the defaults, whatever loadConfig says of reading what changed.
SettingsAreTheFiles ==
  setUse.mtime = setFile.mtime /\ setFile.text # NoText /\ ~setUse.unread => fileInUse

\* When editing ends, the settings in use become those of a good file, and a
\* broken one is reported, as is a config.toml with no config.yaml: through
\* calls that fail and removals that end a load, unless the last edit is one
\* that is never read (unread).
SettingsSettle ==
  setEdits = MaxEdits /\ setSave = NoText ~>
    IF setFile.text = NoText THEN setOld /\ setUse.broken
    ELSE fileInUse \/ (setUse.unread /\ setUse.mtime = setFile.mtime)
=============================================================================
