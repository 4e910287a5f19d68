------------------------------ MODULE Installer ------------------------------
(***************************************************************************)
(* install-on-device.sh, which replaces the files of an installation one   *)
(* by one, with a journal to undo it, and calls the scripts of Launcher    *)
(* before and after, while a user and the boot may run them too.           *)
(*                                                                         *)
(* The files are staged and verified before the first step here.  What     *)
(* fails: a rename or a chmod of the replacement, the agent, the bridge,   *)
(* and the power at any point.  Undoing itself is not checked by the       *)
(* script, and does not fail here.                                         *)
(***************************************************************************)
EXTENDS Launcher, Sequences

CONSTANTS
  InstallShell,   \* the shell that runs the installer
  Manifest,       \* per mode the sequence of files
  NewVersion,     \* the content of those files, but for the mode
  Earlier,        \* the files and backups to start from
  MaxInstalls, MaxFaults, MaxCalls  \* bounds of the instance

ASSUME InstallerAssumption ==
  /\ InstallShell \in Shells \ {BootShell}
  /\ {NewVersion, "homekit", "openmiio"} \subseteq Contents
  /\ Manifest \in [{"homekit", "openmiio"} -> Seq(Files)]
  /\ \A e \in Earlier : {e.files, e.backup} \subseteq [Files -> Contents \cup {Absent}]

VARIABLES
  step,       \* what the installer does next
  mode,       \* the mode that it installs
  previous,   \* the mode that was installed
  position,   \* in the manifest
  journal,    \* changes.txt: the files that were replaced
  backup,     \* per file the one with the backup suffix
  before,     \* history: files and backups before
  outcome,    \* history: of the last installation
  alone,      \* history: no other script has run since it began
  bounds      \* history: what has happened how often

installerVars == <<step, mode, previous, position, journal, backup, before, outcome, alone, bounds>>
vars == <<launcherVars, installerVars>>

Steps == {"idle", "stopping", "replacing", "moving", "agent", "starting", "surviving",
          "giveUp", "restoring", "agentAgain", "startAgain", "discarding"}
Calling == {"stopping", "agent", "starting", "giveUp", "agentAgain", "startAgain"}

New(f) == IF f = "mode" THEN mode ELSE NewVersion
Current == Manifest[mode][position]

(* Any other content of the mode file counts as HomeKit mode.                *)
Previous == IF files["mode"] = "openmiio" THEN "openmiio" ELSE "homekit"
Snapshot == [files |-> files, backup |-> backup]

Init ==
  /\ \E e \in Earlier : files = e.files /\ backup = e.backup
  /\ LauncherInit
  /\ step = "idle" /\ mode = "homekit" /\ previous = "homekit" /\ position = 1
  /\ journal = {}
  /\ before = Snapshot
  /\ outcome = "none" /\ alone = TRUE
  /\ bounds = [installs |-> 0, faults |-> 0, calls |-> 0]

(* The installer has called a script, and sees how it ends.                  *)
Calls(task, next) == Call(InstallShell, task) /\ step' = next
Returned == Finished(InstallShell)
Succeeded == shell[InstallShell].pc = "ok"

(* The next step without a call.                                             *)
Proceed(next) ==
  /\ step' = next
  /\ shell' = [shell EXCEPT ![InstallShell] = Idle]
  /\ UNCHANGED <<process, image, agent, pidFile, files, disturbed, gaveUp>>

Ends(result) == Proceed("idle") /\ outcome' = result

-----------------------------------------------------------------------------
(* The staging is made anew, with it an old journal goes.                    *)
Begin(stops) ==
  /\ step = "idle" /\ bounds.installs < MaxInstalls
  /\ mode' \in {"homekit", "openmiio"}
  /\ previous' = Previous
  /\ position' = 1
  /\ journal' = {}
  /\ before' = Snapshot
  /\ outcome' = "none" /\ alone' = \A s \in Shells : ~Busy(s)
  /\ bounds' = [bounds EXCEPT !.installs = @ + 1]
  /\ IF stops THEN Calls("stop", "stopping") ELSE Proceed("replacing")
  /\ UNCHANGED backup

BeginAnyway == Begin(FALSE)  \* mutant
BeginInstall == Begin(Previous = "homekit" /\ files["stop"] # Absent)

(* Nothing is changed, or started again, when the bridge does not stop.      *)
Stopped ==
  /\ step = "stopping" /\ Returned
  /\ IF Succeeded THEN Proceed("replacing") /\ UNCHANGED outcome
     ELSE Ends("failed")
  /\ UNCHANGED <<mode, previous, position, journal, backup, before, alone, bounds>>

(* The file is the new one already; setting its mode may fail.               *)
SkipFile ==
  /\ step = "replacing" /\ position <= Len(Manifest[mode])
  /\ files[Current] = New(Current)
  /\ \/ Proceed("replacing") /\ position' = position + 1
     \/ Proceed("restoring") /\ UNCHANGED position
  /\ UNCHANGED <<mode, previous, journal, backup, before, outcome, alone, bounds>>

(* The old file is put aside, unless a backup of an earlier installation is  *)
(* in the way, or the rename fails.                                          *)
BackUp ==
  /\ step = "replacing" /\ position <= Len(Manifest[mode])
  /\ files[Current] # New(Current)
  /\ \/ /\ backup[Current] = Absent
        /\ step' = "moving"
        /\ files' = [files EXCEPT ![Current] = Absent]
        /\ backup' = [backup EXCEPT ![Current] = files[Current]]
        /\ UNCHANGED <<process, image, agent, pidFile, shell, disturbed, gaveUp>>
     \/ Proceed("restoring") /\ UNCHANGED backup
  /\ UNCHANGED <<mode, previous, position, journal, before, outcome, alone, bounds>>

(* The new file is written to the journal, renamed and given its mode.       *)
Change(journaled, moved, next) ==
  /\ step = "moving"
  /\ journal' = IF journaled THEN journal \cup {Current} ELSE journal
  /\ files' = IF moved THEN [files EXCEPT ![Current] = New(Current)] ELSE files
  /\ step' = next
  /\ position' = IF next = "replacing" THEN position + 1 ELSE position
  /\ UNCHANGED <<process, image, agent, pidFile, shell, disturbed, gaveUp>>
  /\ UNCHANGED <<mode, previous, backup, before, outcome, alone, bounds>>

(* Mutant: the journal is written once the file is in place.                 *)
MoveFirst ==
  \/ Change(TRUE, TRUE, "replacing")
  \/ \E moved \in BOOLEAN : Change(FALSE, moved, "restoring")
Move ==
  \/ Change(TRUE, TRUE, "replacing")
  \/ \E moved \in BOOLEAN : Change(TRUE, moved, "restoring")

Replaced ==
  /\ step = "replacing" /\ position > Len(Manifest[mode])
  /\ Calls("agent", "agent")
  /\ UNCHANGED <<mode, previous, position, journal, backup, before, outcome, alone, bounds>>

AgentStarted ==
  /\ step = "agent" /\ Returned
  /\ IF ~Succeeded THEN Proceed("restoring")
     ELSE IF mode = "openmiio" THEN Proceed("discarding")
     ELSE Calls("start", "starting")
  /\ UNCHANGED <<mode, previous, position, journal, backup, before, outcome, alone, bounds>>

Started ==
  /\ step = "starting" /\ Returned
  /\ Proceed(IF Succeeded THEN "surviving" ELSE "restoring")
  /\ UNCHANGED <<mode, previous, position, journal, backup, before, outcome, alone, bounds>>

(* Three seconds later a process, any, must have the PID of the file.        *)
Survives ==
  /\ step = "surviving"
  /\ IF pidFile \in Pids /\ process[pidFile] # "none" THEN Proceed("discarding")
     ELSE IF files["stop"] # Absent THEN Calls("stop", "giveUp")
     ELSE Proceed("restoring")
  /\ UNCHANGED <<mode, previous, position, journal, backup, before, outcome, alone, bounds>>

GivenUp ==
  /\ step = "giveUp" /\ Returned
  /\ Proceed("restoring")
  /\ UNCHANGED <<mode, previous, position, journal, backup, before, outcome, alone, bounds>>

-----------------------------------------------------------------------------
(* rollback_changes, a file at a time, then what ran before is started.      *)
Restore ==
  /\ step = "restoring"
  /\ \E f \in journal :
       /\ files' = [files EXCEPT ![f] = backup[f]]
       /\ backup' = [backup EXCEPT ![f] = Absent]
       /\ journal' = journal \ {f}
  /\ UNCHANGED <<process, image, agent, pidFile, shell, disturbed, gaveUp>>
  /\ UNCHANGED <<step, mode, previous, position, before, outcome, alone, bounds>>

Restored ==
  /\ step = "restoring" /\ journal = {}
  /\ Calls("agent", "agentAgain")
  /\ UNCHANGED <<mode, previous, position, journal, backup, before, outcome, alone, bounds>>

AgentAgain ==
  /\ step = "agentAgain" /\ Returned
  /\ IF previous = "homekit" /\ files["start"] # Absent
     THEN Calls("start", "startAgain") /\ UNCHANGED outcome
     ELSE Ends("failed")
  /\ UNCHANGED <<mode, previous, position, journal, backup, before, alone, bounds>>

StartedAgain ==
  /\ step = "startAgain" /\ Returned
  /\ Ends("failed")
  /\ UNCHANGED <<mode, previous, position, journal, backup, before, alone, bounds>>

(* discard_backups, a file at a time; the staging goes last.                 *)
Discard ==
  /\ step = "discarding"
  /\ \/ \E f \in journal :
          /\ backup' = [backup EXCEPT ![f] = Absent]
          /\ journal' = journal \ {f}
          /\ Proceed("discarding") /\ UNCHANGED outcome
     \/ journal = {} /\ Ends("installed") /\ UNCHANGED <<journal, backup>>
  /\ UNCHANGED <<mode, previous, position, before, alone, bounds>>

-----------------------------------------------------------------------------
Install ==
  \/ BeginInstall \/ Stopped \/ SkipFile \/ BackUp \/ Move \/ Replaced
  \/ AgentStarted \/ Started \/ Survives \/ GivenUp
  \/ Restore \/ Restored \/ AgentAgain \/ StartedAgain \/ Discard

(* A user calls a script.                                                    *)
OtherCall ==
  /\ bounds.calls < MaxCalls
  /\ bounds' = [bounds EXCEPT !.calls = @ + 1]
  /\ \E s \in Shells \ {InstallShell, BootShell}, task \in {"start", "stop"} :
       ~Busy(s) /\ files[task] # Absent /\ Call(s, task)
  /\ alone' = (alone /\ step = "idle")
  /\ UNCHANGED <<step, mode, previous, position, journal, backup, before, outcome>>

(* The agent crashes, or the power is cut.                                   *)
Fault ==
  /\ bounds.faults < MaxFaults
  /\ bounds' = [bounds EXCEPT !.faults = @ + 1]
  /\ UNCHANGED <<mode, previous, position, journal, backup, before, alone>>
  /\ \/ AgentDies /\ UNCHANGED <<step, outcome>>
     \/ /\ Reboot
        /\ step' = "idle"
        /\ outcome' = IF step = "idle" THEN outcome ELSE "cut"

Next ==
  \/ Install
  \/ ((\E s \in Shells : ScriptStep(s)) \/ GatewayStep) /\ UNCHANGED installerVars
  \/ OtherCall
  \/ Fault

Spec == Init /\ [][Next]_vars

-----------------------------------------------------------------------------
(* Properties *)

InstallerTypeOK ==
  /\ TypeOK
  /\ step \in Steps
  /\ mode \in {"homekit", "openmiio"}
  /\ position \in Nat \ {0}
  /\ journal \subseteq Files
  /\ backup \in [Files -> Contents \cup {Absent}]
  /\ before \in [files : [Files -> Contents \cup {Absent}], backup : [Files -> Contents \cup {Absent}]]
  /\ step # "idle" => outcome = "none"

(* An installation that is not cut off ends with every file new, or with     *)
(* every file and backup as before: whatever failed, after however many      *)
(* files, with the backups of one that was cut off in the way.               *)
(* install-on-device.sh:53-80, 180-251, INSTALL.en.md:61-63.                 *)
InstalledOrRestored ==
  /\ outcome = "installed" =>
       /\ \A i \in DOMAIN Manifest[mode] : files[Manifest[mode][i]] = New(Manifest[mode][i])
       /\ backup = before.backup
  /\ outcome = "failed" => Snapshot = before

(* Why: the files of the journal, and the one that is being moved, are in    *)
(* their backups, which were not there before, and all others as before ...  *)
Undoable ==
  /\ step \notin {"idle", "discarding"} =>
       \A f \in Files :
         IF f \in journal \/ (step = "moving" /\ f = Current)
         THEN backup[f] = before.files[f] /\ before.backup[f] = Absent
         ELSE files[f] = before.files[f] /\ backup[f] = before.backup[f]
  /\ step \in {"stopping", "agentAgain", "startAgain"} => journal = {}

(* ... the files up to the position in the manifest are new, all of them     *)
(* before the backups go, and no script is running when files change.        *)
Replacing ==
  /\ step \in {"stopping", "replacing", "moving", "agent", "starting", "surviving", "discarding"} =>
       \A i \in DOMAIN Manifest[mode] :
         i < position => files[Manifest[mode][i]] = New(Manifest[mode][i])
  /\ step \in {"replacing", "moving"} => \A f \in journal : files[f] = New(f)
  /\ step = "moving" => position <= Len(Manifest[mode])
  /\ step \in {"agent", "starting", "surviving", "discarding"} => position > Len(Manifest[mode])
  /\ step = "discarding" =>
       \A f \in Files : IF f \in journal THEN before.backup[f] = Absent
                                        ELSE backup[f] = before.backup[f]
  /\ Busy(InstallShell) => step \in Calling

(* The inductive invariant behind it.                                        *)
InstallInv ==
  /\ InstallerTypeOK
  /\ Undoable
  /\ Replacing
  /\ InstalledOrRestored

(* After an installation over one of HomeKit mode, with its stop.sh, the     *)
(* bridge that runs is of the version installed then.  One that failed has   *)
(* restored it, and only a bridge that was told to end, and has not, may be  *)
(* older.  Unless others ran scripts meanwhile, or at once since the boot,   *)
(* or the PID file could not be written since.                               *)
(* install-on-device.sh:167-178, 215-262.                                    *)
Undisturbed ==
  previous = "homekit" /\ before.files["stop"] # Absent /\ alone /\ ~disturbed

Installed(pid) == image[pid] = files["bridge"]
NoBridge == \A pid \in Pids : process[pid] \notin Live
NoneToEnd == \A pid \in Pids : process[pid] # "bridge"
AllInstalled == \A pid \in Pids : process[pid] \in Live => Installed(pid)

RunsWhatIsInstalled ==
  Undisturbed /\ step = "idle" =>
    /\ outcome = "installed" => AllInstalled
    /\ outcome = "failed" =>
         \A pid \in Pids : process[pid] = "bridge" => Installed(pid)

(* Why: no other script runs while the installer does; no bridge is left     *)
(* when it replaces files, nor when it restores them, and one that runs      *)
(* later was launched from the file that is there.                           *)
At(positions) == shell[InstallShell].pc \in positions

Restarting ==
  Undisturbed =>
    /\ step # "idle" => \A s \in Shells \ {InstallShell} : ~Busy(s)
    /\ step = "stopping" =>
         /\ At({"stop", "stopCheck", "stopWait", "ok", "failed"})
         /\ At({"stopWait", "failed"}) => NoneToEnd
         /\ At({"ok"}) => NoBridge
    /\ step \in {"replacing", "moving", "agent", "restoring", "giveUp", "agentAgain"} => NoBridge
    /\ step = "giveUp" => At({"stop", "stopCheck", "stopWait", "ok", "failed"})
    /\ step \in {"agent", "agentAgain"} =>
         At({"agent", "agentWait", "ok", "failed"}) /\ shell[InstallShell].task = "agent"
    /\ step \in {"starting", "startAgain"} =>
         /\ At({"agent", "agentWait", "check", "launch", "write", "settle", "ok", "failed"})
         /\ shell[InstallShell].task = "start"
         /\ ~At({"write", "settle", "ok"}) => NoBridge
    /\ step \in {"starting", "startAgain", "surviving", "discarding"} => AllInstalled

(* INSTALL.en.md:61-63: the installer "atomically replaces runtime files".   *)
(* So, after a power loss too, a file is there if it was before.             *)
ReplacesAtomically ==
  outcome = "cut" =>
    \A f \in Files : before.files[f] # Absent => files[f] # Absent
=============================================================================
