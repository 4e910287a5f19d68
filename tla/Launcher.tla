------------------------------- MODULE Launcher -------------------------------
(***************************************************************************)
(* start.sh, stop.sh, openmiio-start.sh and the boot hook startup.sh, run  *)
(* by any number of shells at once, with the processes of the gateway, the *)
(* PID file and power losses.                                              *)
(*                                                                         *)
(* A PID in the file outlives its process: after a crash of the bridge or  *)
(* a power loss it may be that of any other process.  While a shell knows  *)
(* a PID, a few seconds, it is not given to a new process; PIDs go round.  *)
(***************************************************************************)
EXTENDS Naturals, FiniteSets

CONSTANTS
  Pids,
  Shells,       \* what runs the scripts: the boot, the user, the installer
  BootShell,    \* the one of startup.sh
  Absent,       \* no such file
  Empty,        \* what a power loss, or a full disk, may leave of a file
  Contents,     \* of files: "homekit" or "openmiio" of the mode, else versions
  None          \* no PID

ASSUME LauncherAssumption ==
  /\ BootShell \in Shells
  /\ {Absent, Empty, None} \cap Pids = {} /\ Absent # Empty /\ Absent \notin Contents

(* Installed at their places under /data; "openmiio" is openmiio-start.sh.   *)
Files == {"openmiio", "bridge", "start", "stop", "hook", "mode"}

VARIABLES
  process,     \* per PID what runs under it
  image,       \* per PID the version of the bridge that was launched
  agent,       \* openmiio_agent: "down", "unready" (no MQTT yet) or "ready"
  pidFile,     \* bridge.pid
  files,       \* the content of each file
  shell,       \* per shell its position, the script that goes on, a known PID
  disturbed,   \* history: since the boot two scripts ran at once, or the PID
               \* file could not be written
  gaveUp       \* history: a stop has reported a timeout since the boot

launcherVars == <<process, image, agent, pidFile, files, shell, disturbed, gaveUp>>

(* A bridge that was told to end is "signalled".  One that has ended while   *)
(* start.sh waits stays in the table with its status, 0 ("stopped") or not.  *)
Live == {"bridge", "signalled"}
States == Live \cup {"none", "other", "stopped", "exited"}

Positions == {"idle", "agent", "agentWait", "mode", "check", "launch", "write",
              "settle", "stop", "stopCheck", "stopWait", "ok", "failed"}
Tasks == {"start", "stop", "agent", "boot"}

Idle == [pc |-> "idle", task |-> "start", pid |-> None]
Finished(s) == shell[s].pc \in {"ok", "failed"}
Busy(s) == shell[s].pc \notin {"idle", "ok", "failed"}
Goto(s, pc) == shell' = [shell EXCEPT ![s].pc = pc]
Known(pid) == \E s \in Shells : shell[s].pid = pid
Free(pid) == process[pid] = "none" /\ ~Known(pid)

(* bridge_pid_is_running: by the command line, not by the number only.       *)
RunningByNumber(pid) == pid \in Pids /\ process[pid] # "none"  \* mutant
Running(pid) == pid \in Pids /\ process[pid] \in Live

TypeOK ==
  /\ process \in [Pids -> States]
  /\ image \in [Pids -> Contents \cup {Absent}]
  /\ agent \in {"down", "unready", "ready"}
  /\ pidFile \in Pids \cup {Absent, Empty}
  /\ files \in [Files -> Contents \cup {Absent}]
  /\ shell \in [Shells -> [pc : Positions, task : Tasks, pid : Pids \cup {Absent, Empty, None}]]
  /\ disturbed \in BOOLEAN
  /\ gaveUp \in BOOLEAN

(* The gateway has booted with an installation that it may have run before.  *)
Booted(hook) == [s \in Shells |-> IF s = BootShell THEN hook ELSE Idle]

-----------------------------------------------------------------------------
(* A script is called, or begins another; it ends at once if it misses a     *)
(* file that it needs.                                                       *)
Missing(task) ==
  \/ task # "stop" /\ files["openmiio"] = Absent
  \/ task = "start" /\ files["bridge"] = Absent

Called(task) ==
  [pc |-> IF Missing(task) THEN "failed" ELSE IF task = "stop" THEN "stop" ELSE "agent",
   task |-> task, pid |-> None]

Call(s, task) ==
  /\ shell' = [shell EXCEPT ![s] = Called(task)]
  /\ disturbed' = (disturbed \/ \E t \in Shells \ {s} : Busy(t))
  /\ UNCHANGED <<process, image, agent, pidFile, files, gaveUp>>

(* The caller has seen how the script ended.                                 *)
Finish(s) ==
  /\ ~Busy(s)
  /\ shell' = [shell EXCEPT ![s] = Idle]
  /\ UNCHANGED <<process, image, agent, pidFile, files, disturbed, gaveUp>>

-----------------------------------------------------------------------------
(* openmiio-start.sh, called by start.sh, the boot hook and the installer    *)

AfterAgent(s) ==
  CASE shell[s].task = "start" -> "check"
    [] shell[s].task = "boot" -> "mode"
    [] OTHER -> "ok"

(* It is running: that is all, or it has no MQTT, which is an error.         *)
AgentRuns(s) ==
  /\ shell[s].pc = "agent" /\ agent # "down"
  /\ Goto(s, IF agent = "ready" THEN AfterAgent(s) ELSE "failed")
  /\ UNCHANGED <<process, image, agent, pidFile, files, disturbed, gaveUp>>

AgentLaunch(s) ==
  /\ shell[s].pc = "agent" /\ agent = "down"
  /\ agent' = "unready"
  /\ Goto(s, "agentWait")
  /\ UNCHANGED <<process, image, pidFile, files, disturbed, gaveUp>>

(* It is ready, or has not become so within 20 seconds.                      *)
AgentSettles(s) ==
  /\ shell[s].pc = "agentWait"
  /\ Goto(s, IF agent = "ready" THEN AfterAgent(s) ELSE "failed")
  /\ UNCHANGED <<process, image, agent, pidFile, files, disturbed, gaveUp>>

(* The rest of the boot hook: no mode file means HomeKit.                    *)
Mode == IF files["mode"] = Absent THEN "homekit" ELSE files["mode"]

BootMode(s) ==
  /\ shell[s].pc = "mode"
  /\ IF Mode = "homekit" /\ files["bridge"] # Absent /\ files["start"] # Absent
     THEN shell' = [shell EXCEPT ![s] = Called("start")]
     ELSE Goto(s, "ok")
  /\ UNCHANGED <<process, image, agent, pidFile, files, disturbed, gaveUp>>

-----------------------------------------------------------------------------
(* start.sh, once openmiio_agent is ready *)

CheckPid(s) ==
  /\ shell[s].pc = "check"
  /\ IF Running(pidFile) THEN Goto(s, "ok") /\ UNCHANGED pidFile
     ELSE Goto(s, "launch") /\ pidFile' = Absent
  /\ UNCHANGED <<process, image, agent, files, disturbed, gaveUp>>

(* The shell forks; without a program to run the child ends at once.         *)
Launch(s) ==
  /\ shell[s].pc = "launch"
  /\ \E pid \in Pids :
       /\ Free(pid)
       /\ process' = [process EXCEPT ![pid] = IF files["bridge"] = Absent THEN "exited" ELSE "bridge"]
       /\ image' = [image EXCEPT ![pid] = files["bridge"]]
       /\ shell' = [shell EXCEPT ![s].pc = "write", ![s].pid = pid]
  /\ UNCHANGED <<agent, pidFile, files, disturbed, gaveUp>>

(* Nothing checks that there was room for the file, or for the PID in it.    *)
WritePid(s) ==
  /\ shell[s].pc = "write"
  /\ \/ pidFile' = shell[s].pid /\ UNCHANGED disturbed
     \/ pidFile' \in {Empty, Absent} /\ disturbed' = TRUE
  /\ Goto(s, "settle")
  /\ UNCHANGED <<process, image, agent, files, gaveUp>>

(* Two seconds later: it runs, or its exit status is that of the script.     *)
Settle(s) ==
  /\ shell[s].pc = "settle"
  /\ LET pid == shell[s].pid
     IN IF Running(pid) THEN
          /\ shell' = [shell EXCEPT ![s].pc = "ok", ![s].pid = None]
          /\ UNCHANGED <<process, pidFile>>
        ELSE
          /\ pidFile' = Absent
          /\ process' = [process EXCEPT ![pid] = "none"]
          /\ shell' = [shell EXCEPT ![s].pc = IF process[pid] = "stopped" THEN "ok" ELSE "failed",
                                    ![s].pid = None]
  /\ UNCHANGED <<image, agent, files, disturbed, gaveUp>>

-----------------------------------------------------------------------------
(* stop.sh *)

StopReads(s) ==
  /\ shell[s].pc = "stop"
  /\ IF pidFile = Absent THEN Goto(s, "ok")
     ELSE shell' = [shell EXCEPT ![s].pc = "stopCheck", ![s].pid = pidFile]
  /\ UNCHANGED <<process, image, agent, pidFile, files, disturbed, gaveUp>>

StopKills(s) ==
  /\ shell[s].pc = "stopCheck"
  /\ LET pid == shell[s].pid
     IN IF Running(pid) THEN
          /\ process' = [process EXCEPT ![pid] = "signalled"]
          /\ Goto(s, "stopWait")
          /\ UNCHANGED pidFile
        ELSE
          /\ pidFile' = Absent
          /\ shell' = [shell EXCEPT ![s].pc = "ok", ![s].pid = None]
          /\ UNCHANGED process
  /\ UNCHANGED <<image, agent, files, disturbed, gaveUp>>

StopSees(s) ==
  /\ shell[s].pc = "stopWait" /\ ~Running(shell[s].pid)
  /\ pidFile' = Absent
  /\ shell' = [shell EXCEPT ![s].pc = "ok", ![s].pid = None]
  /\ UNCHANGED <<process, image, agent, files, disturbed, gaveUp>>

(* Mutant: the PID file goes although the bridge has not.                    *)
StopTimesOutAnyway(s) ==
  /\ shell[s].pc = "stopWait" /\ Running(shell[s].pid)
  /\ pidFile' = Absent
  /\ shell' = [shell EXCEPT ![s].pc = "failed", ![s].pid = None]
  /\ gaveUp' = TRUE
  /\ UNCHANGED <<process, image, agent, files, disturbed>>

StopTimesOut(s) ==
  /\ shell[s].pc = "stopWait" /\ Running(shell[s].pid)
  /\ shell' = [shell EXCEPT ![s].pc = "failed", ![s].pid = None]
  /\ gaveUp' = TRUE
  /\ UNCHANGED <<process, image, agent, pidFile, files, disturbed>>

-----------------------------------------------------------------------------
(* The gateway *)

(* A bridge ends, told to or not.  The shell that launched it keeps its      *)
(* status; otherwise the PID is free.                                        *)
BridgeExits(pid) ==
  /\ process[pid] \in Live
  /\ IF \E s \in Shells : shell[s].pc \in {"write", "settle"} /\ shell[s].pid = pid
     THEN \/ process' = [process EXCEPT ![pid] = "exited"]
          \/ process[pid] = "signalled" /\ process' = [process EXCEPT ![pid] = "stopped"]
     ELSE process' = [process EXCEPT ![pid] = "none"]
  /\ UNCHANGED <<image, agent, pidFile, files, shell, disturbed, gaveUp>>

(* Any other process.                                                        *)
OtherStarts(pid) ==
  /\ Free(pid)
  /\ process' = [process EXCEPT ![pid] = "other"]
  /\ UNCHANGED <<image, agent, pidFile, files, shell, disturbed, gaveUp>>

OtherEnds(pid) ==
  /\ process[pid] = "other"
  /\ process' = [process EXCEPT ![pid] = "none"]
  /\ UNCHANGED <<image, agent, pidFile, files, shell, disturbed, gaveUp>>

AgentReady ==
  /\ agent = "unready" /\ agent' = "ready"
  /\ UNCHANGED <<process, image, pidFile, files, shell, disturbed, gaveUp>>

AgentDies ==
  /\ agent # "down" /\ agent' = "down"
  /\ UNCHANGED <<process, image, pidFile, files, shell, disturbed, gaveUp>>

(* A power loss, and the boot.  What was written last may be lost.           *)
Reboot ==
  /\ process' = [pid \in Pids |-> "none"]
  /\ agent' = "down"
  /\ \/ pidFile' = pidFile
     \/ pidFile # Absent /\ pidFile' = Empty
  /\ shell' = Booted(IF files["hook"] = Absent THEN Idle ELSE Called("boot"))
  /\ disturbed' = FALSE /\ gaveUp' = FALSE
  /\ UNCHANGED <<image, files>>

(* The installer replaces a file.                                            *)
FilesChange ==
  /\ files' \in [Files -> Contents \cup {Absent}]
  /\ UNCHANGED <<process, image, agent, pidFile, shell, disturbed, gaveUp>>

-----------------------------------------------------------------------------
LauncherInit ==
  /\ process = [pid \in Pids |-> "none"]
  /\ image = [pid \in Pids |-> Absent]
  /\ agent = "down"
  /\ pidFile = Absent
  /\ files \in [Files -> Contents \cup {Absent}]
  /\ shell = Booted(IF files["hook"] = Absent THEN Idle ELSE Called("boot"))
  /\ disturbed = FALSE /\ gaveUp = FALSE

ScriptStep(s) ==
  \/ AgentRuns(s) \/ AgentLaunch(s) \/ AgentSettles(s) \/ BootMode(s)
  \/ CheckPid(s) \/ Launch(s) \/ WritePid(s) \/ Settle(s)
  \/ StopReads(s) \/ StopKills(s) \/ StopSees(s) \/ StopTimesOut(s)

GatewayStep ==
  \/ \E pid \in Pids : BridgeExits(pid) \/ OtherStarts(pid) \/ OtherEnds(pid)
  \/ AgentReady

(* A script can be called by a shell that runs none.                         *)
LauncherNext ==
  \/ \E s \in Shells, task \in Tasks : ~Busy(s) /\ Call(s, task)
  \/ \E s \in Shells : Finish(s) \/ ScriptStep(s)
  \/ GatewayStep
  \/ AgentDies
  \/ Reboot
  \/ FilesChange

LauncherSpec == LauncherInit /\ [][LauncherNext]_launcherVars

-----------------------------------------------------------------------------
(* Properties *)

(* As long as no two scripts have run at once since the boot, and the PID    *)
(* file could be written, there is at most one bridge, and the file names it *)
(* for stop.sh, except while start.sh is about to write it: whatever crashed,*)
(* was stopped too slowly, was cut off or got its PID again.                 *)
(* start.sh:49-67, stop.sh:23-39.                                            *)
OneBridge ==
  ~disturbed =>
    \A pid \in Pids :
      process[pid] \in Live =>
        \/ pidFile = pid
        \/ pidFile = Absent /\ \E s \in Shells : shell[s].pc = "write" /\ shell[s].pid = pid

(* A start that reports success leaves a bridge that the PID file names; it  *)
(* is one that is ending only when a stop before had given it up.            *)
StartSucceeds(s) ==
  shell[s].pc \in {"check", "settle"} /\ shell'[s].pc = "ok"

StartLeavesBridge ==
  [][\A s \in Shells :
       StartSucceeds(s) /\ ~disturbed =>
         \E pid \in Pids : /\ pidFile' = pid
                           /\ process'[pid] \in Live
                           /\ process'[pid] = "signalled" => gaveUp]_launcherVars

(* Why: one script at a time finds the PID file as it left it ...            *)
OneAtATime == \A s, t \in Shells : Busy(s) /\ Busy(t) => s = t

PidFileKept ==
  \A s \in Shells :
    /\ shell[s].pc \in {"launch", "write"} => pidFile = Absent
    /\ shell[s].pc \in {"settle", "stopCheck", "stopWait"} => pidFile = shell[s].pid

(* ... what it has launched is told to end by no other ...                   *)
ChildRuns ==
  \A s \in Shells :
    shell[s].pc \in {"write", "settle"} => process[shell[s].pid] \in {"bridge", "exited"}

(* ... and what is ending is waited for, or was given up.                    *)
SignalIsPending ==
  \A pid \in Pids :
    process[pid] = "signalled" =>
      gaveUp \/ \E s \in Shells : shell[s].pc = "stopWait" /\ shell[s].pid = pid

KnowsPid ==
  \A s \in Shells : shell[s].pc \in {"write", "settle", "stopWait"} => shell[s].pid \in Pids

(* The inductive invariant behind both.                                      *)
LauncherInv ==
  /\ TypeOK
  /\ KnowsPid
  /\ ~disturbed => OneAtATime /\ PidFileKept /\ ChildRuns /\ SignalIsPending
  /\ OneBridge
=============================================================================
