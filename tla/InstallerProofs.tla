--------------------------- MODULE InstallerProofs ---------------------------
(***************************************************************************)
(* Proofs about Launcher, for any number of shells and PIDs with scripts   *)
(* called at any time, and about Installer: with the installer and its     *)
(* failures the scripts are still those of Launcher, so what is proved of  *)
(* them holds; an installation is done or undone, for every manifest; and  *)
(* the bridge that runs then is the installed one.                         *)
(***************************************************************************)
EXTENDS Installer, TLAPS

-----------------------------------------------------------------------------
(* THE SCRIPTS                                                               *)

Records == [pc : Positions, task : Tasks, pid : Pids \cup {Absent, Empty, None}]

(* What the scripts' positions are, for the provers.                         *)
LEMMA CalledOK ==
  ASSUME NEW task \in Tasks
  PROVE  /\ Called(task) \in Records
         /\ Called(task).pc \in {"failed", "stop", "agent"}
BY DEF Called, Records, Positions, Tasks

LEMMA IdleOK == Idle \in Records /\ Idle.pc = "idle"
BY DEF Idle, Records, Positions, Tasks

LEMMA BootedOK ==
  ASSUME NEW hook \in Records
  PROVE  /\ Booted(hook) \in [Shells -> Records]
         /\ \A s \in Shells : Booted(hook)[s] = IF s = BootShell THEN hook ELSE Idle
BY IdleOK DEF Booted

(* A shell goes on in its record only.                                       *)
LEMMA GotoOK ==
  ASSUME TypeOK, NEW s \in Shells, NEW pc \in Positions, Goto(s, pc)
  PROVE  /\ shell' \in [Shells -> Records]
         /\ shell'[s].pc = pc /\ shell'[s].pid = shell[s].pid /\ shell'[s].task = shell[s].task
         /\ \A t \in Shells \ {s} : shell'[t] = shell[t]
BY DEF TypeOK, Goto, Records

LEMMA GotoPidOK ==
  ASSUME TypeOK, NEW s \in Shells, NEW pc \in Positions,
         NEW pid \in Pids \cup {Absent, Empty, None},
         shell' = [shell EXCEPT ![s].pc = pc, ![s].pid = pid]
  PROVE  /\ shell' \in [Shells -> Records]
         /\ shell'[s].pc = pc /\ shell'[s].pid = pid /\ shell'[s].task = shell[s].task
         /\ \A t \in Shells \ {s} : shell'[t] = shell[t]
BY DEF TypeOK, Records

LEMMA AfterAgentOK ==
  ASSUME NEW s \in Shells
  PROVE  AfterAgent(s) \in {"check", "mode", "ok"} \cap Positions
BY DEF AfterAgent, Positions

-----------------------------------------------------------------------------
(* Types *)

LEMMA LauncherTypes ==
  ASSUME TypeOK, KnowsPid, [LauncherNext]_launcherVars
  PROVE  TypeOK'
<1> USE DEF TypeOK
<1>1. ASSUME NEW s \in Shells, NEW task \in Tasks, Call(s, task) PROVE TypeOK'
  <2>1. shell' \in [Shells -> Records]
    BY <1>1, CalledOK DEF Call, Records
  <2> QED BY <1>1, <2>1 DEF Call, Records
<1>2. ASSUME NEW s \in Shells, Finish(s) PROVE TypeOK'
  BY <1>2, IdleOK DEF Finish, Records
<1>3. ASSUME NEW s \in Shells, AgentRuns(s) \/ AgentLaunch(s) \/ AgentSettles(s) PROVE TypeOK'
  <2>1. shell' \in [Shells -> Records] /\ agent' \in {"down", "unready", "ready"}
    BY <1>3, GotoOK, AfterAgentOK DEF AgentRuns, AgentLaunch, AgentSettles, Positions
  <2> QED BY <1>3, <2>1 DEF AgentRuns, AgentLaunch, AgentSettles, Records
<1>4. ASSUME NEW s \in Shells, BootMode(s) PROVE TypeOK'
  <2>1. shell' \in [Shells -> Records]
    BY <1>4, GotoOK, CalledOK DEF BootMode, Positions, Records, Tasks
  <2> QED BY <1>4, <2>1 DEF BootMode, Records
<1>5. ASSUME NEW s \in Shells, CheckPid(s) PROVE TypeOK'
  <2>1. shell' \in [Shells -> Records]
    BY <1>5, GotoOK DEF CheckPid, Positions
  <2> QED BY <1>5, <2>1 DEF CheckPid, Records
<1>6. ASSUME NEW s \in Shells, Launch(s) PROVE TypeOK'
  <2>1. PICK pid \in Pids :
          /\ process' = [process EXCEPT ![pid] = IF files["bridge"] = Absent THEN "exited" ELSE "bridge"]
          /\ image' = [image EXCEPT ![pid] = files["bridge"]]
          /\ shell' = [shell EXCEPT ![s].pc = "write", ![s].pid = pid]
    BY <1>6 DEF Launch
  <2>2. shell' \in [Shells -> Records]
    <3>1. "write" \in Positions /\ pid \in Pids \cup {Absent, Empty, None}
      BY DEF Positions
    <3> QED BY <2>1, <3>1, GotoPidOK
  <2>3. process' \in [Pids -> States] /\ image' \in [Pids -> Contents \cup {Absent}]
    BY <2>1 DEF States, Live, Files
  <2> QED BY <1>6, <2>2, <2>3 DEF Launch, Records
<1>7. ASSUME NEW s \in Shells, WritePid(s) PROVE TypeOK'
  <2>1. shell' \in [Shells -> Records]
    BY <1>7, GotoOK DEF WritePid, Positions
  <2>2. disturbed' \in BOOLEAN
    BY <1>7, Zenon DEF WritePid
  <2> QED BY <1>7, <2>1, <2>2 DEF WritePid, Records, KnowsPid
<1>8. ASSUME NEW s \in Shells, Settle(s) PROVE TypeOK'
  <2>1. shell' \in [Shells -> Records]
    <3>1. {"ok", "failed"} \subseteq Positions
      BY DEF Positions
    <3> QED BY <1>8, <3>1, GotoPidOK DEF Settle
  <2>2. process' \in [Pids -> States]
    BY <1>8 DEF Settle, States
  <2> QED BY <1>8, <2>1, <2>2 DEF Settle, Records
<1>9. ASSUME NEW s \in Shells, StopReads(s) PROVE TypeOK'
  <2>1. shell' \in [Shells -> Records]
    <3>1. {"ok", "stopCheck"} \subseteq Positions
      BY DEF Positions
    <3>2. CASE pidFile = Absent
      BY <1>9, <3>1, <3>2, GotoOK DEF StopReads
    <3>3. CASE pidFile # Absent
      BY <1>9, <3>1, <3>3, GotoPidOK DEF StopReads
    <3> QED BY <3>2, <3>3
  <2> QED BY <1>9, <2>1 DEF StopReads, Records
<1>10. ASSUME NEW s \in Shells, StopKills(s) PROVE TypeOK'
  <2>1. shell' \in [Shells -> Records]
    BY <1>10, GotoOK, GotoPidOK DEF StopKills, Positions
  <2>2. process' \in [Pids -> States]
    BY <1>10 DEF StopKills, States, Live
  <2> QED BY <1>10, <2>1, <2>2 DEF StopKills, Records
<1>11. ASSUME NEW s \in Shells, StopSees(s) \/ StopTimesOut(s) PROVE TypeOK'
  <2>1. shell' \in [Shells -> Records]
    BY <1>11, GotoPidOK DEF StopSees, StopTimesOut, Positions
  <2> QED BY <1>11, <2>1 DEF StopSees, StopTimesOut, Records
<1>12. ASSUME GatewayStep \/ AgentDies PROVE TypeOK'
  BY <1>12 DEF GatewayStep, BridgeExits, OtherStarts, OtherEnds, AgentReady, AgentDies, States, Live
<1>13. ASSUME Reboot PROVE TypeOK'
  <2>1. shell' \in [Shells -> Records]
    <3>1. (IF files["hook"] = Absent THEN Idle ELSE Called("boot")) \in Records
      BY IdleOK, CalledOK DEF Tasks
    <3> QED BY <1>13, <3>1, BootedOK DEF Reboot
  <2>2. process' \in [Pids -> States]
    BY <1>13 DEF Reboot, States
  <2> QED BY <1>13, <2>1, <2>2 DEF Reboot, Records
<1>14. ASSUME FilesChange PROVE TypeOK'
  BY <1>14 DEF FilesChange
<1>15. CASE UNCHANGED launcherVars
  BY <1>15 DEF launcherVars
<1> QED
  BY <1>1, <1>2, <1>3, <1>4, <1>5, <1>6, <1>7, <1>8, <1>9, <1>10, <1>11, <1>12, <1>13,
     <1>14, <1>15 DEF LauncherNext, ScriptStep

-----------------------------------------------------------------------------
(* The invariant *)

LEMMA LauncherInitial == LauncherInit => LauncherInv
<1> SUFFICES ASSUME LauncherInit PROVE LauncherInv
  OBVIOUS
<1> DEFINE hook == IF files["hook"] = Absent THEN Idle ELSE Called("boot")
<1>1. hook \in Records /\ hook.pc \in {"idle", "failed", "agent"}
  BY IdleOK, CalledOK DEF Tasks, Called
<1>2. shell = Booted(hook)
  BY DEF LauncherInit
<1> HIDE DEF hook
<1>3. /\ shell \in [Shells -> Records]
      /\ \A s \in Shells : shell[s].pc \in {"idle", "failed", "agent"}
      /\ \A s \in Shells : Busy(s) => s = BootShell
  BY <1>1, <1>2, BootedOK, IdleOK DEF Busy
<1>4. TypeOK
  BY <1>3 DEF LauncherInit, TypeOK, Records, States
<1>5. \A pid \in Pids : process[pid] = "none"
  BY DEF LauncherInit
<1>6. KnowsPid /\ OneAtATime /\ PidFileKept /\ ChildRuns /\ SignalIsPending /\ OneBridge
  BY <1>3, <1>5 DEF KnowsPid, OneAtATime, PidFileKept, ChildRuns, SignalIsPending, OneBridge, Live
<1> QED BY <1>4, <1>6 DEF LauncherInv

(* Once scripts have been disturbed only the types matter.                   *)
LEMMA InvHolds ==
  ASSUME TypeOK', KnowsPid',
         ~disturbed' => OneAtATime' /\ PidFileKept' /\ ChildRuns' /\ SignalIsPending' /\ OneBridge'
  PROVE  LauncherInv'
<1>1. CASE disturbed'
  BY <1>1 DEF LauncherInv, OneBridge
<1>2. CASE ~disturbed'
  BY <1>2 DEF LauncherInv
<1> QED BY <1>1, <1>2

(* A step of one script, in a position in which no other script runs.        *)
LEMMA CallStep ==
  ASSUME LauncherInv, NEW s \in Shells, NEW task \in Tasks, ~Busy(s), Call(s, task)
  PROVE  LauncherInv'
<1>1. TypeOK'
  BY LauncherTypes DEF LauncherInv, LauncherNext
<1>2. /\ shell'[s].pc \in {"failed", "stop", "agent"}
      /\ \A t \in Shells \ {s} : shell'[t] = shell[t]
      /\ disturbed' = (disturbed \/ \E t \in Shells \ {s} : Busy(t))
      /\ UNCHANGED <<process, pidFile, gaveUp>>
  BY CalledOK DEF Call, LauncherInv, TypeOK
<1>3. KnowsPid'
  BY <1>2 DEF LauncherInv, KnowsPid
<1>4. ASSUME ~disturbed'
      PROVE  OneAtATime' /\ PidFileKept' /\ ChildRuns' /\ SignalIsPending' /\ OneBridge'
  <2>1. ~disturbed /\ \A t \in Shells \ {s} : ~Busy(t)
    BY <1>2, <1>4
  <2>2. OneAtATime'
    BY <1>2, <2>1 DEF OneAtATime, Busy
  <2>3. PidFileKept' /\ ChildRuns'
    BY <1>2, <2>1 DEF LauncherInv, PidFileKept, ChildRuns
  <2>4. SignalIsPending' /\ OneBridge'
    BY <1>2, <2>1 DEF LauncherInv, SignalIsPending, OneBridge, Busy, Live
  <2> QED BY <2>2, <2>3, <2>4
<1> QED BY <1>1, <1>3, <1>4, InvHolds

(* While no two have run at once, the other shells run nothing.              *)
LEMMA OthersRest ==
  ASSUME LauncherInv, NEW s \in Shells, Busy(s), ~disturbed
  PROVE  /\ \A t \in Shells \ {s} : shell[t].pc \in {"idle", "ok", "failed"}
         /\ OneAtATime /\ PidFileKept /\ ChildRuns /\ SignalIsPending /\ OneBridge
BY DEF LauncherInv, OneAtATime, Busy

(* A step that changes positions only, to one without a known PID.           *)
LEMMA MoveStep ==
  ASSUME LauncherInv, TypeOK', NEW s \in Shells, Busy(s),
         shell[s].pc # "stopWait" \/ gaveUp',
         shell'[s].pc \in {"agent", "agentWait", "mode", "check", "ok", "failed"},
         \A t \in Shells \ {s} : shell'[t] = shell[t],
         shell[s].pc \notin {"write"},
         gaveUp => gaveUp',
         UNCHANGED <<process, pidFile, disturbed>>
  PROVE  LauncherInv'
<1>1. KnowsPid'
  BY DEF LauncherInv, KnowsPid
<1>2. ASSUME ~disturbed
      PROVE  OneAtATime' /\ PidFileKept' /\ ChildRuns' /\ SignalIsPending' /\ OneBridge'
  <2>1. /\ \A t \in Shells \ {s} : shell[t].pc \in {"idle", "ok", "failed"}
        /\ OneAtATime /\ PidFileKept /\ ChildRuns /\ SignalIsPending /\ OneBridge
    BY <1>2, OthersRest
  <2>2. OneAtATime'
    BY <2>1 DEF OneAtATime, Busy
  <2>3. PidFileKept' /\ ChildRuns'
    BY <2>1 DEF PidFileKept, ChildRuns
  <2>4. SignalIsPending'
    BY <2>1 DEF SignalIsPending
  <2>5. OneBridge'
    BY <1>2, <2>1 DEF OneBridge, Live
  <2> QED BY <2>2, <2>3, <2>4, <2>5
<1> QED BY <1>1, <1>2, InvHolds

LEMMA AgentStep ==
  ASSUME LauncherInv, NEW s \in Shells,
         AgentRuns(s) \/ AgentLaunch(s) \/ AgentSettles(s) \/ BootMode(s)
  PROVE  LauncherInv'
<1>1. TypeOK /\ TypeOK'
  BY LauncherTypes DEF LauncherInv, LauncherNext, ScriptStep
<1>2. Busy(s) /\ shell[s].pc \in {"agent", "agentWait", "mode"}
  BY DEF AgentRuns, AgentLaunch, AgentSettles, BootMode, Busy
<1>3. /\ shell'[s].pc \in {"agent", "agentWait", "mode", "check", "ok", "failed"}
      /\ \A t \in Shells \ {s} : shell'[t] = shell[t]
  <2>1. CASE AgentRuns(s) \/ AgentLaunch(s) \/ AgentSettles(s)
    BY <1>1, <2>1, GotoOK, AfterAgentOK DEF AgentRuns, AgentLaunch, AgentSettles, Positions
  <2>2. CASE BootMode(s)
    <3>1. Called("start").pc \in {"failed", "agent"}
      BY DEF Called
    <3> QED BY <1>1, <2>2, <3>1, GotoOK DEF BootMode, Positions, TypeOK
  <2> QED BY <2>1, <2>2
<1>4. UNCHANGED <<process, pidFile, disturbed, gaveUp>>
  BY DEF AgentRuns, AgentLaunch, AgentSettles, BootMode
<1> QED BY <1>1, <1>2, <1>3, <1>4, MoveStep

LEMMA CheckStep ==
  ASSUME LauncherInv, NEW s \in Shells, CheckPid(s)
  PROVE  LauncherInv'
<1>1. TypeOK /\ TypeOK'
  BY LauncherTypes DEF LauncherInv, LauncherNext, ScriptStep
<1>2. Busy(s) /\ shell[s].pc = "check"
  BY DEF CheckPid, Busy
<1>3. UNCHANGED <<process, disturbed, gaveUp>> /\ \A t \in Shells \ {s} : shell'[t] = shell[t]
  BY <1>1, GotoOK DEF CheckPid, Positions
<1>4. CASE Running(pidFile)
  <2>1. shell'[s].pc = "ok" /\ pidFile' = pidFile
    BY <1>1, <1>4, GotoOK DEF CheckPid, Positions
  <2> QED BY <1>1, <1>2, <1>3, <2>1, MoveStep
<1>5. CASE ~Running(pidFile)
  <2>1. shell'[s].pc = "launch" /\ pidFile' = Absent
    BY <1>1, <1>5, GotoOK DEF CheckPid, Positions
  <2>2. KnowsPid'
    BY <1>3, <2>1 DEF LauncherInv, KnowsPid
  <2>3. ASSUME ~disturbed
        PROVE  OneAtATime' /\ PidFileKept' /\ ChildRuns' /\ SignalIsPending' /\ OneBridge'
    <3>1. /\ \A t \in Shells \ {s} : shell[t].pc \in {"idle", "ok", "failed"}
          /\ OneAtATime /\ PidFileKept /\ ChildRuns /\ SignalIsPending /\ OneBridge
      BY <1>2, <2>3, OthersRest
    <3>2. \A pid \in Pids : process[pid] \notin Live
      BY <1>2, <1>5, <2>3, <3>1 DEF OneBridge, Running
    <3> QED BY <1>2, <1>3, <2>1, <3>1, <3>2
            DEF OneAtATime, PidFileKept, ChildRuns, SignalIsPending, OneBridge, Busy, Live
  <2> QED BY <1>1, <1>3, <2>2, <2>3, InvHolds
<1> QED BY <1>4, <1>5

LEMMA LaunchStep ==
  ASSUME LauncherInv, NEW s \in Shells, Launch(s)
  PROVE  LauncherInv'
<1>1. TypeOK /\ TypeOK'
  BY LauncherTypes DEF LauncherInv, LauncherNext, ScriptStep
<1>2. Busy(s) /\ shell[s].pc = "launch" /\ UNCHANGED <<pidFile, disturbed, gaveUp>>
  BY DEF Launch, Busy
<1>3. PICK pid \in Pids :
        /\ Free(pid)
        /\ process' = [process EXCEPT ![pid] = IF files["bridge"] = Absent THEN "exited" ELSE "bridge"]
        /\ shell' = [shell EXCEPT ![s].pc = "write", ![s].pid = pid]
  BY DEF Launch
<1>4. /\ shell'[s].pc = "write" /\ shell'[s].pid = pid
      /\ \A t \in Shells \ {s} : shell'[t] = shell[t]
  <2>1. "write" \in Positions /\ pid \in Pids \cup {Absent, Empty, None}
    BY DEF Positions
  <2>2. shell \in [Shells -> Records]
    BY <1>1 DEF TypeOK, Records
  <2> QED BY <1>3, <2>1, <2>2 DEF Records
<1>5. process'[pid] \in {"bridge", "exited"} /\ \A p \in Pids \ {pid} : process'[p] = process[p]
  <2>1. process \in [Pids -> States]
    BY <1>1 DEF TypeOK
  <2> QED BY <1>3, <2>1
<1>6. KnowsPid'
  <2>1. \A t \in Shells \ {s} : shell[t].pc \in {"write", "settle", "stopWait"} => shell[t].pid \in Pids
    BY DEF LauncherInv, KnowsPid
  <2> QED BY <1>4, <2>1 DEF KnowsPid
<1>7. ASSUME ~disturbed
      PROVE  OneAtATime' /\ PidFileKept' /\ ChildRuns' /\ SignalIsPending' /\ OneBridge'
  <2>1. /\ \A t \in Shells \ {s} : shell[t].pc \in {"idle", "ok", "failed"}
        /\ OneAtATime /\ PidFileKept /\ ChildRuns /\ SignalIsPending /\ OneBridge
    BY <1>2, <1>7, OthersRest
  <2>2. pidFile = Absent
    BY <1>2, <2>1 DEF PidFileKept
  <2>3. \A p \in Pids : process[p] \notin Live
    BY <1>2, <1>7, <2>1, <2>2, LauncherAssumption DEF OneBridge
  <2>4. OneAtATime' /\ PidFileKept' /\ ChildRuns'
    BY <1>2, <1>4, <1>5, <2>1, <2>2 DEF OneAtATime, PidFileKept, ChildRuns, Busy
  <2>5. SignalIsPending' /\ OneBridge'
    BY <1>2, <1>4, <1>5, <2>2, <2>3 DEF SignalIsPending, OneBridge, Live
  <2> QED BY <2>4, <2>5
<1> QED BY <1>1, <1>2, <1>6, <1>7, InvHolds

LEMMA WriteStep ==
  ASSUME LauncherInv, NEW s \in Shells, WritePid(s)
  PROVE  LauncherInv'
<1>1. TypeOK /\ TypeOK'
  BY LauncherTypes DEF LauncherInv, LauncherNext, ScriptStep
<1>2. Busy(s) /\ shell[s].pc = "write" /\ UNCHANGED <<process, gaveUp>> /\ shell[s].pid \in Pids
  BY DEF WritePid, Busy, LauncherInv, KnowsPid
<1>3. /\ shell'[s].pc = "settle" /\ shell'[s].pid = shell[s].pid
      /\ \A t \in Shells \ {s} : shell'[t] = shell[t]
  BY <1>1, GotoOK DEF WritePid, Positions
<1>4. KnowsPid'
  BY <1>2, <1>3 DEF LauncherInv, KnowsPid
<1>5. ASSUME ~disturbed'
      PROVE  OneAtATime' /\ PidFileKept' /\ ChildRuns' /\ SignalIsPending' /\ OneBridge'
  <2>1. ~disturbed /\ pidFile' = shell[s].pid
    <3>1. \/ pidFile' = shell[s].pid /\ UNCHANGED disturbed
          \/ disturbed' = TRUE
      BY DEF WritePid
    <3> QED BY <1>5, <3>1
  <2>2. /\ \A t \in Shells \ {s} : shell[t].pc \in {"idle", "ok", "failed"}
        /\ OneAtATime /\ PidFileKept /\ ChildRuns /\ SignalIsPending /\ OneBridge
    BY <1>2, <2>1, OthersRest
  <2>3. \A p \in Pids : process[p] \in Live => p = shell[s].pid
    <3>1. pidFile = Absent
      BY <1>2, <2>2 DEF PidFileKept
    <3> QED BY <2>1, <2>2, <3>1, LauncherAssumption DEF OneBridge
  <2>4. OneAtATime' /\ PidFileKept' /\ ChildRuns'
    BY <1>2, <1>3, <2>1, <2>2 DEF OneAtATime, PidFileKept, ChildRuns, Busy
  <2>5. SignalIsPending'
    BY <1>2, <1>3, <2>2 DEF SignalIsPending
  <2>6. OneBridge'
    BY <1>2, <2>1, <2>3 DEF OneBridge
  <2> QED BY <2>4, <2>5, <2>6
<1> QED BY <1>1, <1>2, <1>4, <1>5, InvHolds

(* A script that ends with the PID that it knows gone from the file and the  *)
(* process not running.                                                      *)
LEMMA GoneStep ==
  ASSUME LauncherInv, TypeOK', NEW s \in Shells,
         shell[s].pc \in {"settle", "stopCheck", "stopWait"},
         ~Running(shell[s].pid),
         shell'[s].pc \in {"ok", "failed"},
         \A t \in Shells \ {s} : shell'[t] = shell[t],
         pidFile' = Absent,
         \A p \in Pids : process'[p] = process[p] \/ (p = shell[s].pid /\ process'[p] = "none"),
         UNCHANGED <<disturbed, gaveUp>>
  PROVE  LauncherInv'
<1>1. Busy(s)
  BY DEF Busy
<1>2. KnowsPid'
  BY DEF LauncherInv, KnowsPid
<1>3. ASSUME ~disturbed
      PROVE  OneAtATime' /\ PidFileKept' /\ ChildRuns' /\ SignalIsPending' /\ OneBridge'
  <2>1. /\ \A t \in Shells \ {s} : shell[t].pc \in {"idle", "ok", "failed"}
        /\ OneAtATime /\ PidFileKept /\ ChildRuns /\ SignalIsPending /\ OneBridge
    BY <1>1, <1>3, OthersRest
  <2>2. pidFile = shell[s].pid
    BY <2>1 DEF PidFileKept
  <2>3. \A p \in Pids : process[p] \notin Live
    BY <1>3, <2>1, <2>2 DEF OneBridge, Running
  <2>4. \A p \in Pids : process'[p] \notin Live
    BY <2>3 DEF Live
  <2> QED BY <2>1, <2>4 DEF OneAtATime, PidFileKept, ChildRuns, SignalIsPending, OneBridge, Busy, Live
<1> QED BY <1>2, <1>3, InvHolds

LEMMA SettleStep ==
  ASSUME LauncherInv, NEW s \in Shells, Settle(s)
  PROVE  LauncherInv'
<1>1. TypeOK /\ TypeOK'
  BY LauncherTypes DEF LauncherInv, LauncherNext, ScriptStep
<1>2. Busy(s) /\ shell[s].pc = "settle" /\ UNCHANGED <<disturbed, gaveUp>>
  BY DEF Settle, Busy
<1>3. shell'[s].pc \in {"ok", "failed"} /\ \A t \in Shells \ {s} : shell'[t] = shell[t]
  BY <1>1, GotoPidOK DEF Settle, Positions
<1>4. CASE Running(shell[s].pid)
  BY <1>1, <1>2, <1>3, <1>4, MoveStep DEF Settle
<1>5. CASE ~Running(shell[s].pid)
  <2>1. pidFile' = Absent /\ process' = [process EXCEPT ![shell[s].pid] = "none"]
    BY <1>5 DEF Settle
  <2>2. ASSUME NEW p \in Pids
        PROVE  process'[p] = process[p] \/ (p = shell[s].pid /\ process'[p] = "none")
    BY <1>1, <2>1 DEF TypeOK
  <2> QED BY <1>1, <1>2, <1>3, <1>5, <2>1, <2>2, GoneStep
<1> QED BY <1>4, <1>5

LEMMA StopReadsStep ==
  ASSUME LauncherInv, NEW s \in Shells, StopReads(s)
  PROVE  LauncherInv'
<1>1. TypeOK /\ TypeOK'
  BY LauncherTypes DEF LauncherInv, LauncherNext, ScriptStep
<1>2. Busy(s) /\ shell[s].pc = "stop" /\ UNCHANGED <<process, pidFile, disturbed, gaveUp>>
  BY DEF StopReads, Busy
<1>3. CASE pidFile = Absent
  <2>1. shell'[s].pc = "ok" /\ \A t \in Shells \ {s} : shell'[t] = shell[t]
    BY <1>1, <1>3, GotoOK DEF StopReads, Positions
  <2> QED BY <1>1, <1>2, <2>1, MoveStep
<1>4. CASE pidFile # Absent
  <2>1. /\ shell'[s].pc = "stopCheck" /\ shell'[s].pid = pidFile
        /\ \A t \in Shells \ {s} : shell'[t] = shell[t]
    <3>1. shell' = [shell EXCEPT ![s].pc = "stopCheck", ![s].pid = pidFile]
      BY <1>4 DEF StopReads
    <3>2. pidFile \in Pids \cup {Absent, Empty, None}
      BY <1>1 DEF TypeOK
    <3>3. "stopCheck" \in Positions
      BY DEF Positions
    <3>4. shell \in [Shells -> Records]
      BY <1>1 DEF TypeOK, Records
    <3> QED BY <3>1, <3>2, <3>3, <3>4 DEF Records
  <2>2. KnowsPid'
    <3>1. \A t \in Shells \ {s} : shell[t].pc \in {"write", "settle", "stopWait"} => shell[t].pid \in Pids
      BY DEF LauncherInv, KnowsPid
    <3> QED BY <2>1, <3>1 DEF KnowsPid
  <2>3. ASSUME ~disturbed
        PROVE  OneAtATime' /\ PidFileKept' /\ ChildRuns' /\ SignalIsPending' /\ OneBridge'
    <3>1. /\ \A t \in Shells \ {s} : shell[t].pc \in {"idle", "ok", "failed"}
          /\ OneAtATime /\ PidFileKept /\ ChildRuns /\ SignalIsPending /\ OneBridge
      BY <1>2, <2>3, OthersRest
    <3>2. OneAtATime' /\ PidFileKept' /\ ChildRuns'
      BY <1>2, <2>1, <3>1 DEF OneAtATime, PidFileKept, ChildRuns, Busy
    <3>3. SignalIsPending'
      BY <1>2, <2>1, <3>1 DEF SignalIsPending
    <3>4. OneBridge'
      BY <1>2, <2>1, <2>3, <3>1 DEF OneBridge
    <3> QED BY <3>2, <3>3, <3>4
  <2> QED BY <1>1, <1>2, <2>2, <2>3, InvHolds
<1> QED BY <1>3, <1>4

LEMMA StopKillsStep ==
  ASSUME LauncherInv, NEW s \in Shells, StopKills(s)
  PROVE  LauncherInv'
<1>1. TypeOK /\ TypeOK'
  BY LauncherTypes DEF LauncherInv, LauncherNext, ScriptStep
<1>2. Busy(s) /\ shell[s].pc = "stopCheck" /\ UNCHANGED <<disturbed, gaveUp>>
  BY DEF StopKills, Busy
<1>3. CASE ~Running(shell[s].pid)
  <2>1. shell'[s].pc = "ok" /\ (\A t \in Shells \ {s} : shell'[t] = shell[t])
        /\ pidFile' = Absent /\ process' = process
    BY <1>1, <1>3, GotoPidOK DEF StopKills, Positions
  <2>2. \A p \in Pids : process'[p] = process[p]
    BY <2>1
  <2> QED BY <1>1, <1>2, <1>3, <2>1, <2>2, GoneStep
<1>4. CASE Running(shell[s].pid)
  <2> DEFINE pid == shell[s].pid
  <2>1. pid \in Pids /\ process[pid] \in Live
    BY <1>4 DEF Running
  <2>2. /\ process' = [process EXCEPT ![pid] = "signalled"] /\ pidFile' = pidFile
        /\ Goto(s, "stopWait")
    BY <1>4 DEF StopKills
  <2>3. /\ shell'[s].pc = "stopWait" /\ shell'[s].pid = pid
        /\ \A t \in Shells \ {s} : shell'[t] = shell[t]
    BY <1>1, <2>2, GotoOK DEF Positions
  <2>4. process'[pid] = "signalled" /\ \A p \in Pids \ {pid} : process'[p] = process[p]
    BY <1>1, <2>1, <2>2 DEF TypeOK
  <2> HIDE DEF pid
  <2>5. KnowsPid'
    BY <2>1, <2>3 DEF LauncherInv, KnowsPid
  <2>6. ASSUME ~disturbed
        PROVE  OneAtATime' /\ PidFileKept' /\ ChildRuns' /\ SignalIsPending' /\ OneBridge'
    <3>1. /\ \A t \in Shells \ {s} : shell[t].pc \in {"idle", "ok", "failed"}
          /\ OneAtATime /\ PidFileKept /\ ChildRuns /\ SignalIsPending /\ OneBridge
      BY <1>2, <2>6, OthersRest
    <3>2. pidFile = pid
      BY <1>2, <3>1 DEF PidFileKept, pid
    <3>3. OneAtATime' /\ PidFileKept' /\ ChildRuns'
      BY <1>2, <2>2, <2>3, <3>1, <3>2 DEF OneAtATime, PidFileKept, ChildRuns, Busy
    <3>4. SignalIsPending'
      BY <1>2, <2>3, <2>4, <3>1 DEF SignalIsPending
    <3>5. OneBridge'
      BY <1>2, <2>2, <2>3, <2>4, <2>6, <3>1, <3>2 DEF OneBridge
    <3> QED BY <3>3, <3>4, <3>5
  <2> QED BY <1>1, <1>2, <2>5, <2>6, InvHolds
<1> QED BY <1>3, <1>4

LEMMA StopWaitStep ==
  ASSUME LauncherInv, NEW s \in Shells, StopSees(s) \/ StopTimesOut(s)
  PROVE  LauncherInv'
<1>1. TypeOK /\ TypeOK'
  BY LauncherTypes DEF LauncherInv, LauncherNext, ScriptStep
<1>2. Busy(s) /\ shell[s].pc = "stopWait" /\ UNCHANGED <<process, disturbed>>
  BY DEF StopSees, StopTimesOut, Busy
<1>3. shell'[s].pc \in {"ok", "failed"} /\ \A t \in Shells \ {s} : shell'[t] = shell[t]
  BY <1>1, GotoPidOK DEF StopSees, StopTimesOut, Positions
<1>4. CASE StopSees(s)
  <2>1. pidFile' = Absent /\ ~Running(shell[s].pid) /\ gaveUp' = gaveUp
    BY <1>4 DEF StopSees
  <2>2. \A p \in Pids : process'[p] = process[p]
    BY <1>2
  <2> QED BY <1>1, <1>2, <1>3, <2>1, <2>2, GoneStep
<1>5. CASE StopTimesOut(s)
  <2>1. gaveUp' = TRUE /\ pidFile' = pidFile
    BY <1>5 DEF StopTimesOut
  <2> QED BY <1>1, <1>2, <1>3, <2>1, MoveStep
<1> QED BY <1>4, <1>5

(* The gateway's own steps.                                                  *)
LEMMA ProcessStep ==
  ASSUME LauncherInv, GatewayStep \/ AgentDies \/ FilesChange
  PROVE  LauncherInv'
<1>1. TypeOK /\ TypeOK'
  BY LauncherTypes DEF LauncherInv, LauncherNext
<1>2. UNCHANGED <<pidFile, shell, disturbed, gaveUp>>
  BY DEF GatewayStep, BridgeExits, OtherStarts, OtherEnds, AgentReady, AgentDies, FilesChange
<1>3. /\ \A p \in Pids : process'[p] \in Live => process'[p] = process[p]
      /\ ~disturbed => \A s \in Shells :
           shell[s].pc \in {"write", "settle"} => process'[shell[s].pid] \in {"bridge", "exited"}
  <2>1. CASE AgentReady \/ AgentDies \/ FilesChange
    BY <2>1 DEF AgentReady, AgentDies, FilesChange, LauncherInv, ChildRuns
  <2>2. ASSUME NEW pid \in Pids, BridgeExits(pid)
        PROVE  <1>3
    <3>1. CASE \E s \in Shells : shell[s].pc \in {"write", "settle"} /\ shell[s].pid = pid
      BY <1>1, <2>2, <3>1 DEF BridgeExits, TypeOK, LauncherInv, ChildRuns, KnowsPid, Live
    <3>2. CASE ~\E s \in Shells : shell[s].pc \in {"write", "settle"} /\ shell[s].pid = pid
      BY <1>1, <2>2, <3>2 DEF BridgeExits, TypeOK, LauncherInv, ChildRuns, KnowsPid, Live
    <3> QED BY <3>1, <3>2
  <2>3. ASSUME NEW pid \in Pids, OtherStarts(pid) \/ OtherEnds(pid)
        PROVE  <1>3
    BY <1>1, <2>3 DEF OtherStarts, OtherEnds, Free, TypeOK, LauncherInv, ChildRuns, KnowsPid, Live
  <2> QED BY <2>1, <2>2, <2>3 DEF GatewayStep
<1>4. KnowsPid'
  BY <1>2 DEF LauncherInv, KnowsPid
<1>5. ASSUME ~disturbed
      PROVE  OneAtATime' /\ PidFileKept' /\ ChildRuns' /\ SignalIsPending' /\ OneBridge'
  <2>1. OneAtATime' /\ PidFileKept' /\ ChildRuns'
    BY <1>2, <1>3, <1>5 DEF LauncherInv, OneAtATime, PidFileKept, ChildRuns, Busy
  <2>2. SignalIsPending'
    BY <1>2, <1>3, <1>5 DEF LauncherInv, SignalIsPending, Live
  <2>3. OneBridge'
    BY <1>2, <1>3, <1>5 DEF LauncherInv, OneBridge
  <2> QED BY <2>1, <2>2, <2>3
<1> QED BY <1>1, <1>2, <1>4, <1>5, InvHolds

LEMMA RebootStep == ASSUME LauncherInv, Reboot PROVE LauncherInv'
<1>1. TypeOK'
  BY LauncherTypes DEF LauncherInv, LauncherNext
<1> DEFINE hook == IF files["hook"] = Absent THEN Idle ELSE Called("boot")
<1>2. hook \in Records /\ hook.pc \in {"idle", "failed", "agent"}
  BY IdleOK, CalledOK DEF Tasks, Called
<1>3. shell' = Booted(hook)
  BY DEF Reboot
<1> HIDE DEF hook
<1>4. /\ \A s \in Shells : shell'[s].pc \in {"idle", "failed", "agent"}
      /\ \A s \in Shells \ {BootShell} : shell'[s].pc = "idle"
  BY <1>2, <1>3, BootedOK, IdleOK
<1>5. \A pid \in Pids : process'[pid] = "none"
  BY DEF Reboot
<1>6. (KnowsPid /\ OneAtATime /\ PidFileKept /\ ChildRuns /\ SignalIsPending /\ OneBridge)'
  BY <1>4, <1>5 DEF KnowsPid, OneAtATime, PidFileKept, ChildRuns, SignalIsPending, OneBridge, Live, Busy
<1> QED BY <1>1, <1>6 DEF LauncherInv

LEMMA FinishStep ==
  ASSUME LauncherInv, NEW s \in Shells, Finish(s)
  PROVE  LauncherInv'
<1>1. TypeOK /\ TypeOK'
  BY LauncherTypes DEF LauncherInv, LauncherNext
<1>2. /\ shell'[s].pc = "idle" /\ (\A t \in Shells \ {s} : shell'[t] = shell[t])
      /\ UNCHANGED <<process, pidFile, disturbed, gaveUp>>
      /\ shell[s].pc \in {"idle", "ok", "failed"}
  BY <1>1, IdleOK DEF Finish, TypeOK, Busy
<1>3. KnowsPid'
  BY <1>2 DEF LauncherInv, KnowsPid
<1>4. ASSUME ~disturbed
      PROVE  OneAtATime' /\ PidFileKept' /\ ChildRuns' /\ SignalIsPending' /\ OneBridge'
  <2>1. OneAtATime' /\ PidFileKept' /\ ChildRuns'
    BY <1>2, <1>4 DEF LauncherInv, OneAtATime, PidFileKept, ChildRuns, Busy
  <2>2. SignalIsPending' /\ OneBridge'
    BY <1>2, <1>4 DEF LauncherInv, SignalIsPending, OneBridge
  <2> QED BY <2>1, <2>2
<1> QED BY <1>1, <1>2, <1>3, <1>4, InvHolds

LEMMA LauncherStep == LauncherInv /\ [LauncherNext]_launcherVars => LauncherInv'
<1> SUFFICES ASSUME LauncherInv, [LauncherNext]_launcherVars PROVE LauncherInv'
  OBVIOUS
<1>1. ASSUME NEW s \in Shells, ScriptStep(s) PROVE LauncherInv'
  BY <1>1, AgentStep, CheckStep, LaunchStep, WriteStep, SettleStep, StopReadsStep,
     StopKillsStep, StopWaitStep DEF ScriptStep
<1>2. CASE UNCHANGED launcherVars
  BY <1>2 DEF launcherVars, LauncherInv, TypeOK, KnowsPid, OneAtATime, PidFileKept, ChildRuns,
     SignalIsPending, OneBridge, Busy
<1> QED BY <1>1, <1>2, CallStep, FinishStep, ProcessStep, RebootStep DEF LauncherNext

(* For every number of shells and PIDs, whatever the boot, the user and the  *)
(* installer call and whatever fails: the scripts' inductive invariant ...   *)
THEOREM LauncherCorrect == LauncherSpec => []LauncherInv
BY LauncherInitial, LauncherStep, PTL DEF LauncherSpec

(* ... so there is one bridge and the PID file names it ...                  *)
THEOREM OneBridgeAlways == LauncherSpec => []OneBridge
<1>1. LauncherInv => OneBridge
  BY DEF LauncherInv
<1> QED BY <1>1, LauncherCorrect, PTL

(* ... and a start that reports success leaves one.                          *)
LEMMA StartStep ==
  ASSUME LauncherInv, [LauncherNext]_launcherVars,
         NEW s \in Shells, StartSucceeds(s), ~disturbed
  PROVE  \E pid \in Pids : /\ pidFile' = pid
                           /\ process'[pid] \in Live
                           /\ process'[pid] = "signalled" => gaveUp
<1>1. TypeOK
  BY DEF LauncherInv
<1>2. shell[s].pc \in {"check", "settle"} /\ shell'[s].pc = "ok" /\ Busy(s)
  BY DEF StartSucceeds, Busy
<1>3. CheckPid(s) \/ Settle(s)
  <2>1. ASSUME NEW t \in Shells, ScriptStep(t) PROVE CheckPid(s) \/ Settle(s)
    <3>1. \A u \in Shells \ {t} : shell'[u] = shell[u]
      BY <1>1, <2>1 DEF ScriptStep, AgentRuns, AgentLaunch, AgentSettles, BootMode, CheckPid, Launch,
         WritePid, Settle, StopReads, StopKills, StopSees, StopTimesOut, Goto, TypeOK
    <3>2. t = s
      BY <1>2, <3>1
    <3> QED BY <1>2, <2>1, <3>2 DEF ScriptStep, AgentRuns, AgentLaunch, AgentSettles, BootMode, Launch,
         WritePid, StopReads, StopKills, StopSees, StopTimesOut
  <2>2. ASSUME NEW t \in Shells, ~Busy(t), Finish(t) \/ \E task \in Tasks : Call(t, task) PROVE FALSE
    BY <1>1, <1>2, <2>2 DEF Finish, Call, TypeOK
  <2>3. CASE Reboot
    <3>1. Idle.pc = "idle" /\ Called("boot").pc # "ok"
      BY IdleOK DEF Called
    <3> QED BY <1>2, <2>3, <3>1 DEF Reboot, Booted
  <2>4. CASE UNCHANGED shell
    BY <1>2, <2>4
  <2> QED BY <2>1, <2>2, <2>3, <2>4
          DEF LauncherNext, GatewayStep, BridgeExits, OtherStarts, OtherEnds, AgentReady,
              AgentDies, FilesChange, Finish, launcherVars
<1>4. /\ \A t \in Shells \ {s} : shell[t].pc \in {"idle", "ok", "failed"}
      /\ PidFileKept /\ ChildRuns /\ SignalIsPending
  BY <1>2, OthersRest
<1>5. \A pid \in Pids : process[pid] = "signalled" => gaveUp
  BY <1>2, <1>4 DEF SignalIsPending
<1>6. CASE CheckPid(s)
  <2>1. Running(pidFile) /\ UNCHANGED <<process, pidFile>>
    BY <1>1, <1>2, <1>6, GotoOK DEF CheckPid, Positions
  <2> QED BY <1>5, <2>1 DEF Running
<1>7. CASE Settle(s)
  <2>1. pidFile = shell[s].pid /\ process[shell[s].pid] \in {"bridge", "exited"}
    BY <1>4, <1>7 DEF Settle, PidFileKept, ChildRuns
  <2>2. Running(shell[s].pid) /\ UNCHANGED <<process, pidFile>>
    <3>1. ASSUME ~Running(shell[s].pid) PROVE shell'[s].pc = "failed"
      BY <1>1, <1>7, <2>1, <3>1, GotoPidOK DEF Settle, Positions
    <3> QED BY <1>2, <1>7, <3>1 DEF Settle
  <2> QED BY <1>5, <2>1, <2>2 DEF Running
<1> QED BY <1>3, <1>6, <1>7

THEOREM StartLeavesBridgeAlways == LauncherSpec => StartLeavesBridge
<1>1. LauncherInv /\ [LauncherNext]_launcherVars
        => [\A s \in Shells :
              StartSucceeds(s) /\ ~disturbed =>
                \E pid \in Pids : /\ pidFile' = pid
                                  /\ process'[pid] \in Live
                                  /\ process'[pid] = "signalled" => gaveUp]_launcherVars
  BY StartStep
<1> QED BY <1>1, LauncherCorrect, PTL DEF LauncherSpec, StartLeavesBridge

-----------------------------------------------------------------------------
(* THE INSTALLER                                                             *)

Versions == Contents \cup {Absent}

-----------------------------------------------------------------------------
(* The steps of the installer, by what they do to the state of Launcher *)

LEMMA ProceedOK ==
  ASSUME NEW next, Proceed(next)
  PROVE  step' = next /\ (~Busy(InstallShell) => Finish(InstallShell)) /\ files' = files
BY DEF Proceed, Finish

LEMMA CallsOK ==
  ASSUME NEW task, NEW next, Calls(task, next)
  PROVE  step' = next /\ Call(InstallShell, task) /\ files' = files
BY DEF Calls, Call

(* No script of the installer is running when it takes a step.               *)
LEMMA InstallerRests ==
  ASSUME InstallInv, Install
  PROVE  ~Busy(InstallShell)
<1>1. Busy(InstallShell) => step \in Calling
  BY DEF InstallInv, Replacing
<1>2. Returned => ~Busy(InstallShell)
  BY DEF Returned, Finished, Busy
<1> QED
  BY <1>1, <1>2 DEF Install, BeginInstall, Begin, Stopped, SkipFile, BackUp, Move, Change, Replaced,
     AgentStarted, Started, Survives, GivenUp, Restore, Restored, AgentAgain, StartedAgain,
     Discard, Calling

(* While it replaces a file, the file is one of Files.                       *)
LEMMA CurrentOK ==
  ASSUME InstallerTypeOK, position <= Len(Manifest[mode])
  PROVE  /\ Manifest[mode] \in Seq(Files) /\ position \in DOMAIN Manifest[mode]
         /\ Current \in Files
<1>1. Manifest[mode] \in Seq(Files)
  BY InstallerAssumption DEF InstallerTypeOK
<1>2. position \in Nat \ {0}
  BY DEF InstallerTypeOK
<1> QED BY <1>1, <1>2 DEF Current

LEMMA NewOK ==
  ASSUME InstallerTypeOK
  PROVE  \A f \in Files : New(f) \in Contents /\ New(f) # Absent
BY InstallerAssumption, LauncherAssumption DEF InstallerTypeOK, New

(* What the three kinds of steps that change files do to them.               *)
LEMMA BackUpOK ==
  ASSUME InstallInv, BackUp, step' = "moving"
  PROVE  /\ step = "replacing" /\ Current \in Files /\ files[Current] # New(Current)
         /\ position <= Len(Manifest[mode]) /\ backup[Current] = Absent
         /\ files' = [files EXCEPT ![Current] = Absent]
         /\ backup' = [backup EXCEPT ![Current] = files[Current]]
         /\ UNCHANGED <<process, image, agent, pidFile, shell, disturbed, gaveUp>>
<1>1. InstallerTypeOK
  BY DEF InstallInv
<1> QED BY <1>1, CurrentOK, ProceedOK DEF BackUp

LEMMA ChangeOK ==
  ASSUME InstallInv, Move
  PROVE  /\ step = "moving" /\ Current \in Files /\ position <= Len(Manifest[mode])
         /\ journal' = journal \cup {Current}
         /\ \/ files' = files /\ step' = "restoring" /\ position' = position
            \/ /\ files' = [files EXCEPT ![Current] = New(Current)]
               /\ \/ step' = "restoring" /\ position' = position
                  \/ step' = "replacing" /\ position' = position + 1
         /\ UNCHANGED <<mode, previous, backup, before, outcome>>
         /\ UNCHANGED <<process, image, agent, pidFile, shell, disturbed, gaveUp>>
<1>1. InstallerTypeOK /\ (step = "moving" => position <= Len(Manifest[mode]))
  BY DEF InstallInv, Replacing
<1>2. step = "moving"
  BY DEF Move, Change
<1> QED BY <1>1, <1>2, CurrentOK DEF Move, Change

LEMMA FilesOK ==
  ASSUME InstallInv, BackUp \/ Move \/ Restore
  PROVE  files' \in [Files -> Versions]
<1>1. InstallerTypeOK /\ files \in [Files -> Versions] /\ backup \in [Files -> Versions]
  BY DEF InstallInv, InstallerTypeOK, TypeOK, Versions
<1>2. CASE BackUp
  BY <1>1, <1>2, ProceedOK DEF BackUp, Versions
<1>3. CASE Move
  BY <1>1, <1>3, ChangeOK, NewOK DEF Versions
<1>4. CASE Restore
  BY <1>1, <1>4 DEF Restore, InstallerTypeOK
<1> QED BY <1>2, <1>3, <1>4

(* Every step of the installer is one that Launcher allows ...               *)
LEMMA InstallerSteps ==
  ASSUME InstallInv, Install
  PROVE  LauncherNext
<1>1. ~Busy(InstallShell) /\ InstallShell \in Shells
  BY InstallerRests, InstallerAssumption
<1>2. ASSUME NEW next, Proceed(next) PROVE LauncherNext
  BY <1>1, <1>2, ProceedOK DEF LauncherNext
<1>3. ASSUME NEW task \in Tasks, NEW next, Calls(task, next) PROVE LauncherNext
  BY <1>1, <1>3, CallsOK DEF LauncherNext
<1>4. {"stop", "agent", "start"} \subseteq Tasks
  BY DEF Tasks
<1>5. CASE BackUp
  <2>1. CASE step' = "moving"
    BY <1>5, <2>1, BackUpOK, FilesOK DEF LauncherNext, FilesChange, Versions
  <2>2. CASE step' # "moving"
    BY <1>2, <1>5, <2>2 DEF BackUp
  <2> QED BY <2>1, <2>2
<1>6. CASE Move
  BY <1>6, ChangeOK, FilesOK DEF LauncherNext, FilesChange, Versions
<1>7. CASE Restore
  BY <1>7, FilesOK DEF LauncherNext, FilesChange, Restore, Versions
<1>8. CASE BeginInstall \/ Replaced \/ Survives \/ Restored
  BY <1>2, <1>3, <1>4, <1>8 DEF BeginInstall, Begin, Replaced, Survives, Restored
<1>9. CASE AgentStarted \/ AgentAgain
  BY <1>2, <1>3, <1>4, <1>9 DEF AgentStarted, AgentAgain, Ends
<1>10. CASE Stopped \/ SkipFile \/ Started \/ GivenUp \/ StartedAgain \/ Discard
  BY <1>2, <1>10 DEF Stopped, SkipFile, Started, GivenUp, StartedAgain, Discard, Ends
<1> QED BY <1>5, <1>6, <1>7, <1>8, <1>9, <1>10 DEF Install

(* ... and so is every other one.                                            *)
LEMMA StepsOfLauncher ==
  ASSUME InstallInv, [Next]_vars
  PROVE  [LauncherNext]_launcherVars
<1>1. CASE (\E s \in Shells : ScriptStep(s)) \/ GatewayStep
  BY <1>1 DEF LauncherNext
<1>2. CASE OtherCall
  <2>1. PICK s \in Shells, task \in {"start", "stop"} : ~Busy(s) /\ Call(s, task)
    BY <1>2 DEF OtherCall
  <2> QED BY <2>1 DEF LauncherNext, Tasks
<1>3. CASE Fault
  BY <1>3 DEF Fault, LauncherNext
<1>4. CASE UNCHANGED vars
  BY <1>4 DEF vars
<1> QED BY <1>1, <1>2, <1>3, <1>4, InstallerSteps DEF Next

-----------------------------------------------------------------------------
(* The inductive invariant *)

LEMMA InstallInitial == Init => InstallInv
<1> SUFFICES ASSUME Init PROVE InstallInv
  OBVIOUS
<1>1. LauncherInit /\ step = "idle" /\ mode = "homekit" /\ position = 1 /\ journal = {}
      /\ before = Snapshot /\ outcome = "none"
  BY DEF Init
<1>2. TypeOK /\ ~Busy(InstallShell)
  <2>1. LauncherInv
    BY <1>1, LauncherInitial
  <2>2. shell[InstallShell] = Idle
    BY <1>1, InstallerAssumption DEF LauncherInit, Booted
  <2> QED BY <2>1, <2>2, IdleOK DEF LauncherInv, Busy
<1>3. backup \in [Files -> Contents \cup {Absent}]
  <2>1. PICK e \in Earlier : files = e.files /\ backup = e.backup
    BY DEF Init
  <2> QED BY <2>1, InstallerAssumption
<1>4. InstallerTypeOK
  BY <1>1, <1>2, <1>3 DEF InstallerTypeOK, Steps, Snapshot, TypeOK
<1> QED BY <1>1, <1>2, <1>4 DEF InstallInv, Undoable, Replacing, InstalledOrRestored

(* A step of others: the installer and its files stay as they are.           *)
LEMMA OthersStep ==
  ASSUME InstallInv, TypeOK',
         UNCHANGED <<files, step, mode, position, journal, backup, before, outcome>>,
         Busy(InstallShell)' => Busy(InstallShell)
  PROVE  InstallInv'
<1>1. InstallerTypeOK'
  BY DEF InstallInv, InstallerTypeOK
<1>2. Undoable' /\ InstalledOrRestored'
  BY DEF InstallInv, Undoable, InstalledOrRestored, Current, New, Snapshot
<1>3. Replacing'
  BY DEF InstallInv, Replacing, New
<1> QED BY <1>1, <1>2, <1>3 DEF InstallInv

LEMMA RebootKeeps ==
  ASSUME InstallInv, TypeOK', Reboot, step' = "idle",
         outcome' = IF step = "idle" THEN outcome ELSE "cut",
         UNCHANGED <<mode, position, journal, backup, before>>
  PROVE  InstallInv'
<1>1. files' = files /\ shell'[InstallShell] = Idle
  BY InstallerAssumption DEF Reboot, Booted
<1>2. InstallerTypeOK'
  BY <1>1 DEF InstallInv, InstallerTypeOK, Steps
<1>3. Undoable' /\ Replacing'
  BY <1>1, IdleOK DEF Undoable, Replacing, Busy
<1>4. InstalledOrRestored'
  BY <1>1 DEF InstallInv, InstalledOrRestored, New, Snapshot
<1> QED BY <1>2, <1>3, <1>4 DEF InstallInv

(* A script of the installer runs only when it waits for one.                *)
LEMMA CallsInTurn ==
  ASSUME InstallInv, Install
  PROVE  Busy(InstallShell)' => step' \in Calling
<1>1. ~Busy(InstallShell) /\ InstallShell \in Shells
  BY InstallerRests, InstallerAssumption
<1>2. ASSUME NEW next, Proceed(next) PROVE ~Busy(InstallShell)'
  <2>1. shell' = [shell EXCEPT ![InstallShell] = Idle] /\ shell \in [Shells -> Records]
    BY <1>2 DEF Proceed, InstallInv, InstallerTypeOK, TypeOK, Records
  <2> QED BY <1>1, <2>1, IdleOK DEF Busy
<1>3. ASSUME shell' = shell PROVE ~Busy(InstallShell)'
  BY <1>1, <1>3 DEF Busy
<1>4. CASE BackUp \/ Move \/ Restore
  <2>1. shell' = shell \/ \E next : Proceed(next)
    BY <1>4, ChangeOK DEF BackUp, Restore
  <2> QED BY <1>2, <1>3, <2>1
<1>5. CASE BeginInstall \/ Replaced \/ Survives \/ Restored
  BY <1>2, <1>5 DEF BeginInstall, Begin, Replaced, Survives, Restored, Calls, Calling
<1>6. CASE AgentStarted \/ AgentAgain
  BY <1>2, <1>6 DEF AgentStarted, AgentAgain, Ends, Calls, Calling
<1>7. CASE Stopped \/ SkipFile \/ Started \/ GivenUp \/ StartedAgain \/ Discard
  BY <1>2, <1>7 DEF Stopped, SkipFile, Started, GivenUp, StartedAgain, Discard, Ends
<1> QED BY <1>4, <1>5, <1>6, <1>7 DEF Install

(* When nothing is journaled, all is as before.                              *)
LEMMA AllAsBefore ==
  ASSUME InstallInv, step \in {"stopping", "agentAgain", "startAgain"}
  PROVE  Snapshot = before
<1>1. \A f \in Files : files[f] = before.files[f] /\ backup[f] = before.backup[f]
  BY DEF InstallInv, Undoable
<1>2. /\ files \in [Files -> Versions] /\ backup \in [Files -> Versions]
      /\ before \in [files : [Files -> Versions], backup : [Files -> Versions]]
  BY DEF InstallInv, InstallerTypeOK, TypeOK, Versions
<1>3. files = before.files /\ backup = before.backup
  BY <1>1, <1>2
<1> QED BY <1>2, <1>3 DEF Snapshot

(* A step that leaves files, backups and journal alone ...                   *)
Quiet(from, to) ==
  /\ step \in from /\ step' \in to
  /\ UNCHANGED <<files, backup, journal, mode, before>>

LEMMA QuietStep ==
  ASSUME InstallInv, TypeOK', Install, UNCHANGED outcome, UNCHANGED position,
         \/ Quiet({"stopping"}, {"replacing"})
         \/ Quiet({"replacing", "agent", "starting", "surviving", "giveUp"}, {"restoring"})
         \/ Quiet({"replacing"}, {"agent"}) /\ position > Len(Manifest[mode])
         \/ Quiet({"agent"}, {"starting"})
         \/ Quiet({"starting"}, {"surviving"})
         \/ Quiet({"surviving"}, {"giveUp"})
         \/ Quiet({"restoring"}, {"agentAgain"}) /\ journal = {}
         \/ Quiet({"agentAgain"}, {"startAgain"})
  PROVE  InstallInv'
<1>1. InstallerTypeOK'
  BY DEF InstallInv, InstallerTypeOK, Quiet, Steps
<1>2. Undoable'
  BY DEF InstallInv, Undoable, Quiet
<1>3. Replacing'
  <2>1. Busy(InstallShell)' => step' \in Calling
    BY CallsInTurn
  <2>4. CASE step' \in {"restoring", "giveUp", "agentAgain", "startAgain"}
    BY <2>1, <2>4 DEF Replacing
  <2>5. CASE \/ Quiet({"replacing"}, {"agent"}) /\ position > Len(Manifest[mode])
             \/ Quiet({"agent"}, {"starting"}) \/ Quiet({"starting"}, {"surviving"})
    BY <2>1, <2>5 DEF InstallInv, Replacing, Quiet, New
  <2>3. CASE Quiet({"stopping"}, {"replacing"})
    <3>1. journal = {}
      BY <2>3 DEF InstallInv, Undoable, Quiet
    <3> QED BY <2>1, <2>3, <3>1 DEF InstallInv, Replacing, Quiet, New
  <2> QED BY <2>3, <2>4, <2>5 DEF Quiet
<1>4. InstalledOrRestored'
  BY <1>1 DEF InstallInv, InstallerTypeOK, InstalledOrRestored, Quiet
<1> QED BY <1>1, <1>2, <1>3, <1>4 DEF InstallInv

(* ... one that ends the installation as it began ...                        *)
LEMMA FailStep ==
  ASSUME InstallInv, TypeOK', Install, step' = "idle", outcome' = "failed",
         step \in {"stopping", "agentAgain", "startAgain"},
         UNCHANGED <<files, backup, journal, mode, before, position>>
  PROVE  InstallInv'
<1>1. InstallerTypeOK'
  BY DEF InstallInv, InstallerTypeOK, Steps
<1>2. InstalledOrRestored'
  BY AllAsBefore DEF InstalledOrRestored, Snapshot
<1>3. Undoable' /\ Replacing'
  BY CallsInTurn DEF Undoable, Replacing, Calling
<1> QED BY <1>1, <1>2, <1>3 DEF InstallInv

(* ... or leaves the backups to be deleted.                                  *)
LEMMA DoneStep ==
  ASSUME InstallInv, TypeOK', Install, step' = "discarding",
         step \in {"agent", "surviving"},
         UNCHANGED <<files, backup, journal, mode, before, position, outcome>>
  PROVE  InstallInv'
<1>1. InstallerTypeOK'
  BY DEF InstallInv, InstallerTypeOK, Steps
<1>2. Undoable'
  BY DEF Undoable
<1>3. Replacing'
  <2>1. \A f \in Files : IF f \in journal THEN before.backup[f] = Absent
                                         ELSE backup[f] = before.backup[f]
    BY DEF InstallInv, Undoable
  <2> QED BY <2>1, CallsInTurn DEF InstallInv, Replacing, New
<1>4. InstalledOrRestored'
  BY DEF InstallInv, InstallerTypeOK, InstalledOrRestored
<1> QED BY <1>1, <1>2, <1>3, <1>4 DEF InstallInv

LEMMA BeginStep ==
  ASSUME InstallInv, TypeOK', BeginInstall
  PROVE  InstallInv'
<1>1. /\ step' \in {"stopping", "replacing"} /\ mode' \in {"homekit", "openmiio"}
      /\ position' = 1 /\ journal' = {} /\ before' = Snapshot /\ outcome' = "none"
      /\ UNCHANGED <<files, backup>>
  BY ProceedOK, CallsOK DEF BeginInstall, Begin
<1>2. InstallerTypeOK'
  BY <1>1 DEF InstallInv, InstallerTypeOK, TypeOK, Steps, Snapshot
<1>3. Undoable'
  BY <1>1 DEF Undoable, Snapshot
<1>4. Replacing'
  <2>1. Manifest[mode'] \in Seq(Files)
    BY <1>1, InstallerAssumption
  <2>2. Busy(InstallShell)' => step' \in Calling
    BY CallsInTurn DEF Install
  <2> QED BY <1>1, <2>1, <2>2 DEF Replacing
<1>5. InstalledOrRestored'
  BY <1>1 DEF InstalledOrRestored
<1> QED BY <1>2, <1>3, <1>4, <1>5 DEF InstallInv

LEMMA SkipStep ==
  ASSUME InstallInv, TypeOK', SkipFile
  PROVE  InstallInv'
<1>1. /\ step = "replacing" /\ position <= Len(Manifest[mode]) /\ files[Current] = New(Current)
      /\ UNCHANGED <<mode, journal, backup, before, outcome, files>>
      /\ \/ step' = "replacing" /\ position' = position + 1
         \/ step' = "restoring" /\ position' = position
  BY ProceedOK DEF SkipFile
<1>2. CASE step' = "restoring" /\ position' = position
  BY <1>1, <1>2, QuietStep DEF Quiet, Install
<1>3. CASE step' = "replacing" /\ position' = position + 1
  <2>1. InstallerTypeOK /\ Manifest[mode] \in Seq(Files) /\ position \in Nat \ {0}
    BY <1>1, CurrentOK DEF InstallInv, InstallerTypeOK
  <2>2. InstallerTypeOK'
    BY <1>1, <1>3, <2>1 DEF InstallerTypeOK
  <2>3. Undoable' /\ InstalledOrRestored'
    BY <1>1, <1>3, <2>1 DEF InstallInv, Undoable, InstalledOrRestored, InstallerTypeOK
  <2>4. Replacing'
    <3>1. ~Busy(InstallShell)'
      BY <1>3, CallsInTurn DEF Install, Calling
    <3>2. \A i \in DOMAIN Manifest[mode] :
            i < position + 1 => files[Manifest[mode][i]] = New(Manifest[mode][i])
      BY <1>1, <2>1 DEF InstallInv, Replacing, Current
    <3> QED BY <1>1, <1>3, <3>1, <3>2 DEF InstallInv, Replacing, New
  <2> QED BY <2>2, <2>3, <2>4 DEF InstallInv
<1> QED BY <1>1, <1>2, <1>3

LEMMA BackUpStep ==
  ASSUME InstallInv, TypeOK', BackUp
  PROVE  InstallInv'
<1>1. UNCHANGED <<mode, position, journal, before, outcome>> /\ step = "replacing"
  BY DEF BackUp
<1>2. CASE step' # "moving"
  <2>1. UNCHANGED <<files, backup>> /\ step' = "restoring"
    BY <1>2, ProceedOK DEF BackUp
  <2> QED BY <1>1, <2>1, QuietStep DEF Quiet, Install
<1>3. CASE step' = "moving"
  <2> DEFINE c == Current
  <2>1. /\ c \in Files /\ files[c] # New(c) /\ backup[c] = Absent
        /\ position <= Len(Manifest[mode])
        /\ files' = [files EXCEPT ![c] = Absent]
        /\ backup' = [backup EXCEPT ![c] = files[c]]
    BY <1>3, BackUpOK
  <2>2. Current' = c
    BY <1>1 DEF Current
  <2> HIDE DEF c
  <2>3. /\ InstallerTypeOK
        /\ files \in [Files -> Versions] /\ backup \in [Files -> Versions]
        /\ Manifest[mode] \in Seq(Files) /\ c \notin journal
    BY <1>1, <2>1, CurrentOK DEF InstallInv, InstallerTypeOK, TypeOK, Versions, Replacing
  <2>4. InstallerTypeOK'
    BY <1>1, <1>3, <2>1, <2>3 DEF InstallerTypeOK, Steps, Versions
  <2>5. Undoable'
    BY <1>1, <1>3, <2>1, <2>2, <2>3 DEF InstallInv, Undoable
  <2>6. Replacing'
    <3>1. ~Busy(InstallShell)'
      BY <1>3, CallsInTurn DEF Install, Calling
    <3>2. \A i \in DOMAIN Manifest[mode] :
            i < position => files'[Manifest[mode][i]] = New(Manifest[mode][i])
      BY <1>1, <2>1, <2>3 DEF InstallInv, Replacing
    <3>3. \A f \in journal : files'[f] = New(f)
      BY <1>1, <2>1, <2>3 DEF InstallInv, InstallerTypeOK, Replacing
    <3> QED BY <1>1, <1>3, <2>1, <3>1, <3>2, <3>3 DEF Replacing, New
  <2>7. InstalledOrRestored'
    BY <1>1, <2>3 DEF InstalledOrRestored, InstallerTypeOK
  <2> QED BY <2>4, <2>5, <2>6, <2>7 DEF InstallInv
<1> QED BY <1>2, <1>3

LEMMA ReplaceStep ==
  ASSUME InstallInv, TypeOK', Move
  PROVE  InstallInv'
<1> DEFINE c == Current
<1>1. /\ step = "moving" /\ c \in Files /\ position <= Len(Manifest[mode])
      /\ journal' = journal \cup {c}
      /\ \/ files' = files /\ step' = "restoring" /\ position' = position
         \/ /\ files' = [files EXCEPT ![c] = New(c)]
            /\ \/ step' = "restoring" /\ position' = position
               \/ step' = "replacing" /\ position' = position + 1
      /\ UNCHANGED <<mode, backup, before, outcome>>
  BY ChangeOK
<1>2. /\ InstallerTypeOK /\ files \in [Files -> Versions] /\ position \in Nat \ {0}
      /\ Manifest[mode] \in Seq(Files) /\ c = Manifest[mode][position]
  BY <1>1, CurrentOK DEF InstallInv, InstallerTypeOK, TypeOK, Versions, Current
<1>3. InstallerTypeOK'
  BY <1>1, <1>2 DEF InstallerTypeOK, Steps
<1>4. Undoable'
  BY <1>1, <1>2 DEF InstallInv, Undoable
<1> HIDE DEF c
<1>5. Replacing'
  <2>1. ~Busy(InstallShell)'
    BY <1>1, CallsInTurn DEF Install, Calling
  <2>2. CASE step' = "restoring"
    BY <2>1, <2>2 DEF Replacing
  <2>3. CASE step' = "replacing"
    <3>1. files' = [files EXCEPT ![c] = New(c)] /\ position' = position + 1
      BY <1>1, <2>3
    <3>2. \A i \in DOMAIN Manifest[mode] :
            i < position + 1 => files'[Manifest[mode][i]] = New(Manifest[mode][i])
      BY <1>1, <1>2, <3>1 DEF InstallInv, Replacing
    <3>3. \A f \in journal' : files'[f] = New(f)
      BY <1>1, <1>2, <3>1 DEF InstallInv, InstallerTypeOK, Replacing
    <3> QED BY <1>1, <2>1, <2>3, <3>1, <3>2, <3>3 DEF Replacing, New
  <2> QED BY <1>1, <2>2, <2>3
<1>6. InstalledOrRestored'
  BY <1>1, <1>2 DEF InstalledOrRestored, InstallerTypeOK
<1> QED BY <1>3, <1>4, <1>5, <1>6 DEF InstallInv

(* Undoing one file makes it as it was before.                               *)
LEMMA RestoreStep ==
  ASSUME InstallInv, TypeOK', Restore
  PROVE  InstallInv'
<1>1. step = "restoring" /\ UNCHANGED <<step, mode, position, before, outcome>>
  BY DEF Restore
<1>2. PICK f \in journal : /\ files' = [files EXCEPT ![f] = backup[f]]
                           /\ backup' = [backup EXCEPT ![f] = Absent]
                           /\ journal' = journal \ {f}
  BY DEF Restore
<1>3. /\ InstallerTypeOK /\ f \in Files
      /\ files \in [Files -> Versions] /\ backup \in [Files -> Versions]
  BY DEF InstallInv, InstallerTypeOK, TypeOK, Versions
<1>4. InstallerTypeOK'
  BY <1>1, <1>2, <1>3 DEF InstallerTypeOK, Versions
<1>5. Undoable'
  <2>1. \A g \in Files : IF g \in journal
                         THEN backup[g] = before.files[g] /\ before.backup[g] = Absent
                         ELSE files[g] = before.files[g] /\ backup[g] = before.backup[g]
    BY <1>1 DEF InstallInv, Undoable
  <2> QED BY <1>1, <1>2, <1>3, <2>1 DEF Undoable
<1>6. Replacing'
  BY <1>1, CallsInTurn DEF Replacing, Install, Calling
<1>7. InstalledOrRestored'
  BY <1>1, <1>3 DEF InstalledOrRestored, InstallerTypeOK
<1> QED BY <1>4, <1>5, <1>6, <1>7 DEF InstallInv

LEMMA DiscardStep ==
  ASSUME InstallInv, TypeOK', Discard
  PROVE  InstallInv'
<1>1. step = "discarding" /\ UNCHANGED <<mode, position, before, files>>
  BY ProceedOK DEF Discard, Ends
<1>2. /\ InstallerTypeOK /\ backup \in [Files -> Versions] /\ position \in Nat \ {0}
      /\ Manifest[mode] \in Seq(Files) /\ position > Len(Manifest[mode])
      /\ \A i \in DOMAIN Manifest[mode] : files[Manifest[mode][i]] = New(Manifest[mode][i])
      /\ \A f \in Files : IF f \in journal THEN before.backup[f] = Absent
                                          ELSE backup[f] = before.backup[f]
  <2>1. InstallerTypeOK /\ position \in Nat \ {0} /\ Manifest[mode] \in Seq(Files)
    BY InstallerAssumption DEF InstallInv, InstallerTypeOK
  <2> QED BY <1>1, <2>1 DEF InstallInv, InstallerTypeOK, Versions, Replacing
<1>3. CASE \E f \in journal : /\ backup' = [backup EXCEPT ![f] = Absent]
                              /\ journal' = journal \ {f}
                              /\ step' = "discarding" /\ outcome' = outcome
  <2>1. PICK f \in journal : /\ backup' = [backup EXCEPT ![f] = Absent]
                             /\ journal' = journal \ {f}
                             /\ step' = "discarding" /\ outcome' = outcome
    BY <1>3
  <2>2. f \in Files
    BY <1>2 DEF InstallerTypeOK
  <2>3. InstallerTypeOK'
    BY <1>1, <1>2, <2>1, <2>2 DEF InstallerTypeOK, Versions
  <2>4. Undoable' /\ InstalledOrRestored'
    BY <1>1, <1>2, <2>1 DEF Undoable, InstalledOrRestored, InstallerTypeOK
  <2>5. \A g \in Files : IF g \in journal' THEN before.backup[g] = Absent
                                          ELSE backup'[g] = before.backup[g]
    BY <1>2, <2>1, <2>2
  <2>6. Replacing'
    BY <1>1, <1>2, <2>1, <2>5, CallsInTurn DEF Replacing, Install, Calling, New
  <2> QED BY <2>3, <2>4, <2>6 DEF InstallInv
<1>4. CASE journal = {} /\ step' = "idle" /\ outcome' = "installed" /\ UNCHANGED <<journal, backup>>
  <2>1. InstallerTypeOK'
    BY <1>1, <1>2, <1>4 DEF InstallerTypeOK, Steps
  <2>2. Undoable' /\ Replacing'
    BY <1>4, CallsInTurn DEF Undoable, Replacing, Install, Calling
  <2>3. backup = before.backup
    <3>1. before.backup \in [Files -> Versions]
      BY <1>2 DEF InstallerTypeOK, Versions
    <3> QED BY <1>2, <1>4, <3>1
  <2>4. InstalledOrRestored'
    BY <1>1, <1>2, <1>4, <2>3 DEF InstalledOrRestored, New
  <2> QED BY <2>1, <2>2, <2>4 DEF InstallInv
<1> QED BY <1>3, <1>4, ProceedOK DEF Discard, Ends

LEMMA InstallerKeeps ==
  ASSUME InstallInv, TypeOK', Install
  PROVE  InstallInv'
<1>2. CASE Stopped
  <2>1. UNCHANGED <<files, mode, position, journal, backup, before>> /\ step = "stopping"
    BY <1>2, ProceedOK DEF Stopped, Ends
  <2>2. CASE step' = "replacing" /\ outcome' = outcome
    BY <2>1, <2>2, QuietStep DEF Quiet
  <2>3. CASE step' = "idle" /\ outcome' = "failed"
    BY <2>1, <2>3, FailStep
  <2> QED BY <1>2, <2>2, <2>3, ProceedOK DEF Stopped, Ends
<1>3. CASE Replaced
  BY <1>3, CallsOK, QuietStep DEF Replaced, Quiet
<1>4. CASE AgentStarted
  BY <1>4, ProceedOK, CallsOK, QuietStep, DoneStep DEF AgentStarted, Quiet
<1>5. CASE Started \/ GivenUp
  BY <1>5, ProceedOK, QuietStep DEF Started, GivenUp, Quiet
<1>6. CASE Survives
  BY <1>6, ProceedOK, CallsOK, QuietStep, DoneStep DEF Survives, Quiet
<1>7. CASE Restored
  BY <1>7, CallsOK, QuietStep DEF Restored, Quiet
<1>8. CASE AgentAgain
  BY <1>8, ProceedOK, CallsOK, QuietStep, FailStep DEF AgentAgain, Ends, Quiet, InstallInv, Undoable
<1>9. CASE StartedAgain
  BY <1>9, ProceedOK, FailStep DEF StartedAgain, Ends
<1> QED
  BY <1>2, <1>3, <1>4, <1>5, <1>6, <1>7, <1>8, <1>9, BeginStep, SkipStep, BackUpStep, ReplaceStep,
     RestoreStep, DiscardStep DEF Install

(* A step of a script of another shell is not one of the installer's.        *)
LEMMA ScriptsKeep ==
  ASSUME InstallInv, TypeOK', [Next]_vars, ~Install
  PROVE  InstallInv'
<1>1. TypeOK /\ InstallShell \in Shells \ {BootShell}
  BY InstallerAssumption DEF InstallInv, InstallerTypeOK
<1>2. ASSUME NEW s \in Shells, ScriptStep(s), UNCHANGED installerVars
      PROVE  InstallInv'
  <2>1. files' = files /\ Busy(s) /\ \A t \in Shells \ {s} : shell'[t] = shell[t]
    BY <1>1, <1>2 DEF ScriptStep, AgentRuns, AgentLaunch, AgentSettles, BootMode, CheckPid, Launch,
       WritePid, Settle, StopReads, StopKills, StopSees, StopTimesOut, Goto, TypeOK, Busy
  <2>2. Busy(InstallShell)' => Busy(InstallShell)
    BY <1>1, <2>1 DEF Busy
  <2> QED BY <1>2, <2>1, <2>2, OthersStep DEF installerVars
<1>3. ASSUME GatewayStep, UNCHANGED installerVars PROVE InstallInv'
  <2>1. UNCHANGED <<files, shell>>
    BY <1>3 DEF GatewayStep, BridgeExits, OtherStarts, OtherEnds, AgentReady
  <2> QED BY <1>3, <2>1, OthersStep DEF installerVars, Busy
<1>4. CASE OtherCall
  <2>1. PICK s \in Shells \ {InstallShell, BootShell}, task \in {"start", "stop"} : Call(s, task)
    BY <1>4 DEF OtherCall
  <2>2. files' = files /\ (Busy(InstallShell)' => Busy(InstallShell))
    BY <1>1, <2>1 DEF Call, Busy, TypeOK
  <2> QED BY <1>4, <2>2, OthersStep DEF OtherCall
<1>5. CASE Fault
  <2>1. CASE AgentDies /\ UNCHANGED <<step, outcome>>
    BY <1>5, <2>1, OthersStep DEF Fault, AgentDies, Busy
  <2> QED BY <1>5, <2>1, RebootKeeps DEF Fault
<1>6. CASE UNCHANGED vars
  BY <1>6, OthersStep DEF vars, launcherVars, installerVars, Busy
<1> QED BY <1>2, <1>3, <1>4, <1>5, <1>6 DEF Next

LEMMA InstallStep ==
  InstallInv /\ LauncherInv /\ [Next]_vars => InstallInv' /\ LauncherInv'
<1> SUFFICES ASSUME InstallInv, LauncherInv, [Next]_vars PROVE InstallInv' /\ LauncherInv'
  OBVIOUS
<1>1. LauncherInv'
  BY StepsOfLauncher, LauncherStep
<1>2. TypeOK'
  BY <1>1 DEF LauncherInv
<1> QED BY <1>1, <1>2, InstallerKeeps, ScriptsKeep

-----------------------------------------------------------------------------
(* For every manifest, whatever was installed before, whatever fails and     *)
(* whoever runs scripts meanwhile: the inductive invariant ...               *)
THEOREM InstallerCorrect == Spec => [](InstallInv /\ LauncherInv)
<1>1. Init => InstallInv /\ LauncherInv
  BY InstallInitial, LauncherInitial DEF Init
<1> QED BY <1>1, InstallStep, PTL DEF Spec

(* ... so an installation is done, or undone to the last file and backup ... *)
THEOREM DoneOrUndone == Spec => []InstalledOrRestored
<1>1. InstallInv => InstalledOrRestored
  BY DEF InstallInv
<1> QED BY <1>1, InstallerCorrect, PTL

(* ... and the installer, with the files it replaces and the scripts it      *)
(* calls, is one of the shells of Launcher, whose theorems hold.             *)
THEOREM InstallerIsShell == Spec => LauncherSpec
<1>1. Init => LauncherInit
  BY DEF Init
<1>2. InstallInv /\ [Next]_vars => [LauncherNext]_launcherVars
  BY StepsOfLauncher
<1> QED BY <1>1, <1>2, InstallerCorrect, PTL DEF Spec, LauncherSpec

THEOREM InstallerKeepsOneBridge == Spec => []OneBridge /\ StartLeavesBridge
BY InstallerIsShell, OneBridgeAlways, StartLeavesBridgeAlways, PTL

-----------------------------------------------------------------------------
(* WHAT RUNS AFTERWARDS                                                      *)

(* What ran before runs again: with Launcher's invariant, Restarting and     *)
(* RunsWhatIsInstalled are inductive too.                                    *)
RunsInv == InstallInv /\ LauncherInv /\ Restarting /\ RunsWhatIsInstalled

(* A step after which the installation is undisturbed is one of an           *)
(* undisturbed installation, but for the first and for a power loss.         *)
Unbegun ==
  \/ Install /\ step # "idle"
  \/ ((\E s \in Shells : ScriptStep(s)) \/ GatewayStep) /\ UNCHANGED installerVars
  \/ OtherCall
  \/ Fault /\ AgentDies
  \/ UNCHANGED vars

LEMMA NotDisturbedBefore ==
  ASSUME Unbegun, ~disturbed'
  PROVE  ~disturbed
<1>1. ASSUME NEW s, NEW task, Call(s, task) PROVE ~disturbed
  BY <1>1 DEF Call
<1>2. ASSUME NEW next, Proceed(next) PROVE ~disturbed
  BY <1>2 DEF Proceed
<1>3. CASE Install /\ step # "idle"
  <2>1. CASE Stopped \/ SkipFile \/ Replaced \/ AgentStarted \/ Started \/ Survives
    BY <1>1, <1>2, <2>1 DEF Stopped, SkipFile, Replaced, AgentStarted, Started, Survives, Calls, Ends
  <2>2. CASE GivenUp \/ Restored \/ AgentAgain \/ StartedAgain \/ Discard
    BY <1>1, <1>2, <2>2 DEF GivenUp, Restored, AgentAgain, StartedAgain, Discard, Calls, Ends
  <2>3. CASE BackUp \/ Move \/ Restore
    BY <1>2, <2>3 DEF BackUp, Move, Change, Restore
  <2> QED BY <1>3, <2>1, <2>2, <2>3 DEF Install, BeginInstall, Begin
<1>4. CASE \E s \in Shells : ScriptStep(s)
  BY <1>4 DEF ScriptStep, AgentRuns, AgentLaunch, AgentSettles, BootMode, CheckPid, Launch,
     WritePid, Settle, StopReads, StopKills, StopSees, StopTimesOut
<1>5. CASE GatewayStep \/ AgentDies \/ UNCHANGED vars
  BY <1>5 DEF GatewayStep, BridgeExits, OtherStarts, OtherEnds, AgentReady, AgentDies, vars, launcherVars
<1>6. CASE OtherCall
  BY <1>1, <1>6 DEF OtherCall
<1> QED BY <1>3, <1>4, <1>5, <1>6 DEF Unbegun

LEMMA StaysUndisturbed ==
  ASSUME Unbegun, Undisturbed'
  PROVE  Undisturbed
<1>1. previous' = previous /\ before' = before /\ (alone' => alone)
  <2>1. CASE Install /\ step # "idle"
    <3>1. ~BeginInstall
      BY <2>1 DEF BeginInstall, Begin
    <3> QED
      BY <2>1, <3>1 DEF Install, Stopped, SkipFile, BackUp, Move, Change, Replaced, AgentStarted,
         Started, Survives, GivenUp, Restore, Restored, AgentAgain, StartedAgain, Discard
  <2>2. CASE UNCHANGED installerVars
    BY <2>2 DEF installerVars
  <2>3. CASE Fault
    BY <2>3 DEF Fault
  <2>4. CASE UNCHANGED vars
    BY <2>4 DEF vars, installerVars
  <2>5. CASE OtherCall
    <3>1. alone' = (alone /\ step = "idle") /\ UNCHANGED <<previous, before>>
      BY <2>5 DEF OtherCall
    <3>2. alone' => alone
      BY <3>1, Zenon
    <3> QED BY <3>1, <3>2
  <2> QED BY <2>1, <2>2, <2>3, <2>4, <2>5 DEF Unbegun
<1> QED BY <1>1, NotDisturbedBefore DEF Undisturbed

(* While only the installer's script runs, it knows of every bridge.         *)
LEMMA KnownBridge ==
  ASSUME LauncherInv, Undisturbed, \A s \in Shells \ {InstallShell} : ~Busy(s)
  PROVE  /\ \A pid \in Pids : process[pid] \in Live =>
              \/ pidFile = pid
              \/ pidFile = Absent /\ At({"write"}) /\ shell[InstallShell].pid = pid
         /\ At({"settle", "stopCheck", "stopWait"}) => pidFile = shell[InstallShell].pid
         /\ At({"launch", "write"}) => pidFile = Absent
         /\ At({"write", "settle", "stopWait"}) => shell[InstallShell].pid \in Pids
<1>1. \A s \in Shells : shell[s].pc = "write" => s = InstallShell
  BY DEF Busy
<1>2. ~disturbed /\ InstallShell \in Shells
  BY InstallerAssumption DEF Undisturbed
<1>3. OneBridge /\ PidFileKept /\ KnowsPid
  BY <1>2 DEF LauncherInv
<1> QED BY <1>1, <1>2, <1>3 DEF OneBridge, PidFileKept, KnowsPid, At

(* The script of the installer takes a step, of its own shell only.          *)
LEMMA InstallersScript ==
  ASSUME RunsInv, Undisturbed, step # "idle", ScriptStep(InstallShell), UNCHANGED installerVars
  PROVE  Restarting'
<1>0. /\ InstallShell \in Shells /\ shell \in [Shells -> Records]
      /\ \A s \in Shells \ {InstallShell} : ~Busy(s)
      /\ Restarting /\ LauncherInv
  BY InstallerAssumption DEF RunsInv, LauncherInv, TypeOK, Restarting, Records
<1>1. /\ UNCHANGED <<files, step, previous, before>>
      /\ \A s \in Shells \ {InstallShell} : ~Busy(s)'
  <2>1. files' = files /\ \A s \in Shells \ {InstallShell} : shell'[s] = shell[s]
    BY <1>0 DEF ScriptStep, AgentRuns, AgentLaunch, AgentSettles, BootMode, CheckPid, Launch,
         WritePid, Settle, StopReads, StopKills, StopSees, StopTimesOut, Goto
  <2> QED BY <1>0, <2>1 DEF Busy, installerVars
<1> DEFINE S == InstallShell
<1>2. ASSUME NEW pc \in Positions, Goto(S, pc)
      PROVE  shell'[S].pc = pc /\ shell'[S].task = shell[S].task
  BY <1>0, <1>2, GotoOK DEF LauncherInv
<1>3. ASSUME NEW pc \in Positions, shell' = [shell EXCEPT ![S].pc = pc, ![S].pid = None]
      PROVE  shell'[S].pc = pc /\ shell'[S].task = shell[S].task
  BY <1>0, <1>3, GotoPidOK DEF LauncherInv
<1>4. CASE AgentRuns(S) \/ AgentLaunch(S) \/ AgentSettles(S)
  <2>1. /\ UNCHANGED <<process, image>> /\ At({"agent", "agentWait"})
        /\ shell'[S].pc \in {"agentWait", AfterAgent(S), "failed"}
        /\ shell'[S].task = shell[S].task
    BY <1>0, <1>2, <1>4, AfterAgentOK DEF AgentRuns, AgentLaunch, AgentSettles, At, Positions
  <2>2. /\ shell[S].task = "start" => AfterAgent(S) = "check"
        /\ shell[S].task = "agent" => AfterAgent(S) = "ok"
    BY DEF AfterAgent
  <2> QED BY <1>0, <1>1, <2>1, <2>2 DEF Restarting, At, NoBridge, AllInstalled, Installed
<1>5. CASE BootMode(S)
  BY <1>0, <1>5 DEF Restarting, BootMode, At, RunsInv, InstallInv, Replacing, Busy, Calling
<1>6. CASE CheckPid(S)
  <2>1. NoBridge /\ step \in {"starting", "startAgain"}
    BY <1>0, <1>6 DEF Restarting, CheckPid, At, RunsInv, InstallInv, Replacing, Busy, Calling
  <2>2. ~Running(pidFile)
    BY <2>1 DEF NoBridge, Running
  <2>3. UNCHANGED <<process, image>> /\ shell'[S].pc = "launch" /\ shell'[S].task = shell[S].task
    BY <1>2, <1>6, <2>2 DEF CheckPid, Positions
  <2> QED BY <1>0, <1>1, <2>1, <2>3 DEF Restarting, At, NoBridge, AllInstalled, Installed
<1>7. CASE WritePid(S)
  <2>1. /\ UNCHANGED <<process, image>> /\ step \in {"starting", "startAgain"}
        /\ shell'[S].pc = "settle" /\ shell'[S].task = shell[S].task
    BY <1>0, <1>2, <1>7 DEF Restarting, WritePid, At, Positions, RunsInv, InstallInv, Replacing, Busy, Calling
  <2> QED BY <1>0, <1>1, <2>1 DEF Restarting, At, NoBridge, AllInstalled, Installed
<1>8. CASE StopReads(S) \/ StopKills(S) \/ StopSees(S) \/ StopTimesOut(S)
  <2>1. step \in {"stopping", "giveUp"} /\ At({"stop", "stopCheck", "stopWait"})
    BY <1>0, <1>8 DEF Restarting, StopReads, StopKills, StopSees, StopTimesOut, At, RunsInv, InstallInv,
       Replacing, Busy, Calling
  <2>2. UNCHANGED image
    BY <1>8 DEF StopReads, StopKills, StopSees, StopTimesOut
  <2>3. CASE UNCHANGED process /\ shell'[S].pc = "stopCheck"
    BY <1>0, <1>1, <2>1, <2>2, <2>3 DEF Restarting, At, NoBridge
  <2>4. CASE NoBridge' /\ shell'[S].pc = "ok"
    BY <1>0, <1>1, <2>1, <2>2, <2>4 DEF Restarting, At, NoBridge
  <2>5. CASE /\ NoneToEnd' /\ (NoBridge => NoBridge')
             /\ shell'[S].pc \in {"stopWait", "failed"}
    BY <1>0, <1>1, <2>1, <2>2, <2>5 DEF Restarting, At
  <2>6. CASE StopReads(S)
    <3>1. CASE pidFile = Absent
      <4>1. NoBridge /\ UNCHANGED process
        BY <1>0, <1>8, <2>6, <3>1, KnownBridge, LauncherAssumption DEF NoBridge, StopReads, At
      <4>2. shell'[S].pc = "ok"
        BY <1>2, <2>6, <3>1 DEF StopReads, Positions
      <4> QED BY <2>4, <4>1, <4>2 DEF NoBridge
    <3>2. CASE pidFile # Absent
      <4>1. UNCHANGED process /\ shell'[S].pc = "stopCheck"
        BY <1>0, <2>6, <3>2, GotoPidOK DEF StopReads, Positions, LauncherInv, TypeOK
      <4> QED BY <2>3, <4>1
    <3> QED BY <3>1, <3>2
  <2>7. CASE StopKills(S)
    <3>1. /\ \A pid \in Pids : process[pid] \in Live => pid = shell[S].pid
          /\ process \in [Pids -> States]
      BY <1>0, <2>7, KnownBridge DEF StopKills, At, LauncherInv, TypeOK
    <3>2. CASE Running(shell[S].pid)
      <4>1. NoneToEnd' /\ (NoBridge => NoBridge')
        BY <2>7, <3>1, <3>2 DEF StopKills, NoneToEnd, NoBridge, Running, Live
      <4>2. shell'[S].pc = "stopWait"
        BY <1>2, <2>7, <3>2 DEF StopKills, Positions
      <4> QED BY <2>5, <4>1, <4>2
    <3>3. CASE ~Running(shell[S].pid)
      <4>1. NoBridge'
        BY <2>7, <3>1, <3>3 DEF StopKills, NoBridge, Running
      <4>2. shell'[S].pc = "ok"
        BY <1>3, <2>7, <3>3 DEF StopKills, Positions
      <4> QED BY <2>4, <4>1, <4>2
    <3> QED BY <3>2, <3>3
  <2>8. CASE StopSees(S)
    <3>1. NoBridge'
      BY <1>0, <2>8, KnownBridge DEF StopSees, NoBridge, Running, At
    <3>2. shell'[S].pc = "ok"
      BY <1>3, <2>8 DEF StopSees, Positions
    <3> QED BY <2>4, <3>1, <3>2
  <2>9. CASE StopTimesOut(S)
    <3>1. At({"stopWait"}) /\ UNCHANGED process
      BY <2>9 DEF StopTimesOut, At
    <3>2. step = "stopping" => NoneToEnd
      BY <1>0, <3>1 DEF Restarting, At
    <3>3. step = "giveUp" => NoBridge
      BY <1>0 DEF Restarting
    <3>4. NoBridge => NoneToEnd
      BY DEF NoBridge, NoneToEnd, Live
    <3>5. shell'[S].pc = "failed"
      BY <1>3, <2>9 DEF StopTimesOut, Positions
    <3> QED BY <2>1, <2>5, <3>1, <3>2, <3>3, <3>4, <3>5 DEF NoBridge, NoneToEnd
  <2> QED BY <1>8, <2>6, <2>7, <2>8, <2>9
<1>9. CASE Launch(S)
  <2>1. NoBridge /\ step \in {"starting", "startAgain"} /\ shell[S].task = "start"
    BY <1>0, <1>9 DEF Restarting, Launch, At, RunsInv, InstallInv, Replacing, Busy, Calling
  <2>2. PICK pid \in Pids :
          /\ process' = [process EXCEPT ![pid] = IF files["bridge"] = Absent THEN "exited" ELSE "bridge"]
          /\ image' = [image EXCEPT ![pid] = files["bridge"]]
          /\ shell' = [shell EXCEPT ![S].pc = "write", ![S].pid = pid]
    BY <1>9 DEF Launch
  <2>3. shell'[S].pc = "write" /\ shell'[S].task = "start"
    BY <1>0, <2>1, <2>2, GotoPidOK DEF Positions, LauncherInv
  <2>4. AllInstalled'
    BY <1>0, <1>1, <2>1, <2>2 DEF NoBridge, AllInstalled, Installed, LauncherInv, TypeOK
  <2> QED BY <1>0, <1>1, <2>1, <2>3, <2>4 DEF Restarting, At
<1>10. CASE Settle(S)
  <2>1. /\ step \in {"starting", "startAgain"} /\ shell[S].task = "start"
        /\ AllInstalled
    BY <1>0, <1>10 DEF Restarting, Settle, At, RunsInv, InstallInv, Replacing, Busy, Calling
  <2>2. /\ shell'[S].task = "start"
        /\ shell'[S].pc = IF ~Running(shell[S].pid) /\ process[shell[S].pid] # "stopped" THEN "failed" ELSE "ok"
    BY <1>0, <1>3, <1>10, <2>1 DEF Settle, Positions
  <2>3. UNCHANGED image /\ \A pid \in Pids : process'[pid] \in Live => process[pid] \in Live
    BY <1>0, <1>10 DEF Settle, Live, LauncherInv, TypeOK
  <2>4. AllInstalled'
    BY <1>1, <2>1, <2>3 DEF AllInstalled, Installed
  <2>5. ~Running(shell[S].pid) => NoBridge'
    BY <1>0, <1>10, <2>3, KnownBridge DEF Settle, At, NoBridge, Running
  <2> QED BY <1>0, <1>1, <2>1, <2>2, <2>4, <2>5 DEF Restarting, At
<1> QED
  BY <1>4, <1>5, <1>6, <1>7, <1>8, <1>9, <1>10 DEF ScriptStep

(* Any other step of the installer.                                          *)
LEMMA InstallersMove ==
  ASSUME RunsInv, Undisturbed, Install, step # "idle"
  PROVE  Restarting' /\ RunsWhatIsInstalled'
<1> DEFINE S == InstallShell
<1>0. /\ S \in Shells /\ shell \in [Shells -> Records]
      /\ \A s \in Shells \ {S} : ~Busy(s)
      /\ Restarting /\ LauncherInv
  BY InstallerAssumption DEF RunsInv, LauncherInv, TypeOK, Restarting, Records
<1>1. ASSUME NEW next, Proceed(next)
      PROVE  /\ UNCHANGED <<process, image, files>> /\ step' = next
             /\ \A s \in Shells \ {S} : ~Busy(s)'
  BY <1>0, <1>1 DEF Proceed, Busy
<1>2. ASSUME NEW task \in {"start", "stop", "agent"}, NEW next, Calls(task, next)
      PROVE  /\ UNCHANGED <<process, image, files>> /\ step' = next
             /\ \A s \in Shells \ {S} : ~Busy(s)'
             /\ shell'[S].task = task /\ shell'[S].pc \in {"failed", IF task = "stop" THEN "stop" ELSE "agent"}
  BY <1>0, <1>2 DEF Calls, Call, Called, Busy
<1>3. NoBridge => AllInstalled
  BY DEF NoBridge, AllInstalled
<1>4. CASE Stopped
  <2>1. UNCHANGED <<process, image, files>> /\ \A s \in Shells \ {S} : ~Busy(s)'
    BY <1>1, <1>4 DEF Stopped, Ends
  <2>2. CASE step' = "replacing" /\ Succeeded
    BY <1>0, <1>4, <2>1, <2>2 DEF Restarting, Stopped, Succeeded, At, NoBridge, RunsWhatIsInstalled
  <2>3. CASE step' = "idle" /\ outcome' = "failed" /\ ~Succeeded
    <3>1. NoneToEnd
      BY <1>0, <1>4, <2>3 DEF Restarting, Stopped, Succeeded, Returned, Finished, At
    <3> QED BY <2>1, <2>3, <3>1 DEF Restarting, RunsWhatIsInstalled, NoneToEnd
  <2> QED BY <1>1, <1>4, <2>2, <2>3 DEF Stopped, Ends
<1>5. CASE SkipFile \/ Replaced \/ GivenUp \/ Restored
  <2>1. step \in {"replacing", "giveUp", "restoring"} /\ NoBridge
    BY <1>0, <1>5 DEF Restarting, SkipFile, Replaced, GivenUp, Restored
  <2>2. UNCHANGED <<process, image, files>> /\ \A s \in Shells \ {S} : ~Busy(s)'
    BY <1>1, <1>2, <1>5 DEF SkipFile, Replaced, GivenUp, Restored
  <2>3. \/ step' \in {"replacing", "restoring"}
        \/ step' \in {"agent", "agentAgain"} /\ shell'[S].task = "agent" /\ shell'[S].pc \in {"failed", "agent"}
    BY <1>1, <1>2, <1>5 DEF SkipFile, Replaced, GivenUp, Restored
  <2> QED BY <2>1, <2>2, <2>3 DEF Restarting, RunsWhatIsInstalled, At, NoBridge
<1>6. CASE BackUp \/ Move \/ Restore
  <2>1. NoBridge
    BY <1>0, <1>6 DEF Restarting, BackUp, Move, Change, Restore
  <2>2. UNCHANGED process /\ \A s \in Shells \ {S} : ~Busy(s)'
    BY <1>0, <1>1, <1>6 DEF BackUp, Move, Change, Restore, Busy
  <2>3. step' \in {"replacing", "moving", "restoring"}
    BY <1>1, <1>6 DEF BackUp, Move, Change, Restore
  <2> QED BY <2>1, <2>2, <2>3 DEF Restarting, RunsWhatIsInstalled, At, NoBridge
<1>7. CASE AgentStarted \/ AgentAgain
  <2>1. NoBridge
    BY <1>0, <1>7 DEF Restarting, AgentStarted, AgentAgain
  <2>2. UNCHANGED <<process, image, files>> /\ \A s \in Shells \ {S} : ~Busy(s)'
    BY <1>1, <1>2, <1>7 DEF AgentStarted, AgentAgain, Ends
  <2>3. \/ step' \in {"restoring", "discarding", "idle"}
        \/ step' \in {"starting", "startAgain"} /\ shell'[S].task = "start" /\ shell'[S].pc \in {"failed", "agent"}
    BY <1>1, <1>2, <1>7 DEF AgentStarted, AgentAgain, Ends
  <2> QED BY <2>1, <2>2, <2>3 DEF Restarting, RunsWhatIsInstalled, At, NoBridge, AllInstalled, Live
<1>8. CASE Started \/ StartedAgain
  <2>1. UNCHANGED <<process, image, files>> /\ \A s \in Shells \ {S} : ~Busy(s)'
    BY <1>1, <1>8 DEF Started, StartedAgain, Ends
  <2>2. AllInstalled
    BY <1>0, <1>8 DEF Restarting, Started, StartedAgain
  <2>3. \/ step' \in {"surviving", "idle"}
        \/ step' = "restoring" /\ NoBridge
    BY <1>0, <1>1, <1>8 DEF Restarting, Started, StartedAgain, Ends, Returned, Finished, Succeeded, At
  <2> QED BY <2>1, <2>2, <2>3 DEF Restarting, RunsWhatIsInstalled, At, NoBridge, AllInstalled, Installed, Live
<1>9. CASE Survives \/ Discard
  <2>1. UNCHANGED <<process, image, files>> /\ \A s \in Shells \ {S} : ~Busy(s)'
    BY <1>1, <1>2, <1>9 DEF Survives, Discard, Ends
  <2>2. AllInstalled /\ ~Busy(S)
    BY <1>0, <1>9, InstallerRests DEF Restarting, Survives, Discard, RunsInv
  <2>3. \/ step' \in {"discarding", "idle"}
        \/ /\ step' \in {"restoring", "giveUp"} /\ NoBridge
           /\ step' = "giveUp" => shell'[S].pc \in {"stop", "failed"}
    <3>1. CASE Discard
      BY <1>1, <1>9, <3>1 DEF Discard, Ends
    <3>2. CASE Survives /\ pidFile \in Pids /\ process[pidFile] # "none"
      BY <1>1, <3>2 DEF Survives
    <3>3. CASE Survives /\ ~(pidFile \in Pids /\ process[pidFile] # "none")
      <4>1. NoBridge
        BY <1>0, <2>2, <3>3, KnownBridge, LauncherAssumption DEF NoBridge, Live, At, Busy
      <4> QED BY <1>1, <1>2, <3>3, <4>1 DEF Survives
    <3> QED BY <1>9, <3>1, <3>2, <3>3
  <2> QED BY <2>1, <2>2, <2>3 DEF Restarting, RunsWhatIsInstalled, At, NoBridge, AllInstalled, Installed, Live
<1> QED
  BY <1>4, <1>5, <1>6, <1>7, <1>8, <1>9 DEF Install, BeginInstall, Begin

(* The first step: no other script runs, and stop.sh is called.              *)
LEMMA InstallersFirst ==
  ASSUME RunsInv, Undisturbed', BeginInstall
  PROVE  Restarting' /\ RunsWhatIsInstalled'
<1> DEFINE S == InstallShell
<1>1. Previous = "homekit" /\ files["stop"] # Absent
  BY DEF Undisturbed, BeginInstall, Begin, Snapshot
<1>2. Calls("stop", "stopping") /\ alone' = \A s \in Shells : ~Busy(s)
  BY <1>1 DEF BeginInstall, Begin
<1>3. \A s \in Shells : ~Busy(s)
  BY <1>2, Zenon DEF Undisturbed
<1>4. S \in Shells /\ shell \in [Shells -> Records]
  BY InstallerAssumption DEF RunsInv, LauncherInv, TypeOK, Records
<1>5. /\ step' = "stopping" /\ shell'[S].pc = "stop"
      /\ \A s \in Shells \ {S} : ~Busy(s)'
  BY <1>2, <1>3, <1>4 DEF Calls, Call, Called, Missing, Busy
<1> QED BY <1>5 DEF Restarting, RunsWhatIsInstalled, At

(* A step of the gateway, or of an agent, launches no bridge.                *)
LEMMA GatewaysStep ==
  ASSUME RunsInv, Undisturbed, GatewayStep \/ AgentDies,
         UNCHANGED <<step, outcome, previous, before>>
  PROVE  Restarting' /\ RunsWhatIsInstalled'
<1>1. UNCHANGED <<image, files, shell>>
  BY DEF GatewayStep, BridgeExits, OtherStarts, OtherEnds, AgentReady, AgentDies
<1>2. \A pid \in Pids : process'[pid] \in Live => process'[pid] = process[pid]
  BY DEF GatewayStep, BridgeExits, OtherStarts, OtherEnds, AgentReady, AgentDies, Live, RunsInv,
     LauncherInv, TypeOK
<1>3. /\ NoBridge => NoBridge'
      /\ AllInstalled => AllInstalled'
      /\ NoneToEnd => NoneToEnd'
  BY <1>1, <1>2 DEF NoBridge, AllInstalled, NoneToEnd, Installed, Live
<1>4. Restarting'
  BY <1>1, <1>3 DEF RunsInv, Restarting, At, Busy
<1>5. RunsWhatIsInstalled'
  BY <1>1, <1>2, <1>3 DEF RunsInv, RunsWhatIsInstalled, Installed, Live
<1> QED BY <1>4, <1>5

(* When the installer is done, scripts launch what is installed.             *)
LEMMA AfterInstallation ==
  ASSUME RunsInv, Undisturbed, step = "idle", NEW s \in Shells, ScriptStep(s), UNCHANGED installerVars
  PROVE  Restarting' /\ RunsWhatIsInstalled'
<1>1. UNCHANGED <<step, outcome, files>> /\ process \in [Pids -> States]
      /\ image \in [Pids -> Versions]
  BY DEF ScriptStep, AgentRuns, AgentLaunch, AgentSettles, BootMode, CheckPid, Launch,
     WritePid, Settle, StopReads, StopKills, StopSees, StopTimesOut, installerVars,
     RunsInv, LauncherInv, TypeOK, Versions
<1>2. \A pid \in Pids :
        process'[pid] \in Live =>
          \/ Installed(pid)'
          \/ image'[pid] = image[pid] /\ process[pid] \in Live /\ process'[pid] \in {process[pid], "signalled"}
  <2>1. CASE UNCHANGED <<process, image>>
    BY <2>1
  <2>2. CASE Launch(s)
    BY <1>1, <2>2 DEF Launch, Installed
  <2>3. CASE Settle(s) \/ StopKills(s)
    BY <1>1, <2>3 DEF Settle, StopKills, Running, Live
  <2> QED
    BY <2>1, <2>2, <2>3 DEF ScriptStep, AgentRuns, AgentLaunch, AgentSettles, BootMode, CheckPid,
       WritePid, StopReads, StopSees, StopTimesOut
<1> QED
  BY <1>1, <1>2 DEF RunsInv, RunsWhatIsInstalled, Restarting, AllInstalled, Installed, Live

LEMMA RunsStep ==
  ASSUME RunsInv, [Next]_vars
  PROVE  Restarting' /\ RunsWhatIsInstalled'
<1>1. CASE ~Undisturbed'
  BY <1>1 DEF Restarting, RunsWhatIsInstalled
<1>2. CASE Undisturbed' /\ BeginInstall
  BY <1>2, InstallersFirst
<1>3. CASE Undisturbed' /\ Install /\ step # "idle"
  BY <1>3, StaysUndisturbed, InstallersMove DEF Unbegun
<1>4. CASE Undisturbed' /\ (\E s \in Shells : ScriptStep(s)) /\ UNCHANGED installerVars
  <2>1. PICK s \in Shells : ScriptStep(s)
    BY <1>4
  <2>2. Undisturbed /\ UNCHANGED step
    BY <1>4, StaysUndisturbed DEF Unbegun, installerVars
  <2>3. CASE step = "idle"
    BY <1>4, <2>1, <2>2, <2>3, AfterInstallation
  <2>4. CASE step # "idle"
    <3>1. Busy(s)
      BY <2>1 DEF ScriptStep, AgentRuns, AgentLaunch, AgentSettles, BootMode, CheckPid, Launch,
         WritePid, Settle, StopReads, StopKills, StopSees, StopTimesOut, Busy
    <3>2. s = InstallShell
      BY <2>2, <2>4, <3>1 DEF RunsInv, Restarting
    <3> QED BY <1>4, <2>1, <2>2, <2>4, <3>2, InstallersScript DEF RunsWhatIsInstalled
  <2> QED BY <2>3, <2>4
<1>5. CASE Undisturbed' /\ GatewayStep /\ UNCHANGED installerVars
  BY <1>5, StaysUndisturbed, GatewaysStep DEF Unbegun, installerVars
<1>6. CASE Undisturbed' /\ OtherCall
  <2>1. alone' = (alone /\ step = "idle")
    BY <1>6 DEF OtherCall
  <2>2. step = "idle"
    BY <1>6, <2>1, Zenon DEF Undisturbed
  <2>3. UNCHANGED <<step, outcome, process, image, files>>
    BY <1>6 DEF OtherCall, Call
  <2> QED
    BY <1>6, <2>2, <2>3, StaysUndisturbed DEF Unbegun, RunsInv, Restarting, RunsWhatIsInstalled, AllInstalled, Installed
<1>7. CASE Undisturbed' /\ Fault
  <2>1. CASE AgentDies /\ UNCHANGED <<step, outcome>>
    BY <1>7, <2>1, StaysUndisturbed, GatewaysStep DEF Unbegun, Fault
  <2>2. CASE Reboot /\ step' = "idle"
    BY <2>2 DEF Reboot, Restarting, RunsWhatIsInstalled, AllInstalled, Live
  <2> QED BY <1>7, <2>1, <2>2 DEF Fault
<1>8. CASE Undisturbed' /\ UNCHANGED vars
  <2>1. Restarting' = Restarting /\ RunsWhatIsInstalled' = RunsWhatIsInstalled
    BY <1>8 DEF vars, launcherVars, installerVars, Restarting, RunsWhatIsInstalled, Undisturbed,
       At, Busy, NoBridge, NoneToEnd, AllInstalled, Installed
  <2> QED BY <2>1 DEF RunsInv
<1>9. ASSUME Install, step = "idle" PROVE BeginInstall
  <2>1. ~(Stopped \/ SkipFile \/ BackUp \/ Move \/ Replaced \/ AgentStarted \/ Started)
    BY <1>9 DEF Stopped, SkipFile, BackUp, Move, Change, Replaced, AgentStarted, Started
  <2>2. ~(Survives \/ GivenUp \/ Restore \/ Restored \/ AgentAgain \/ StartedAgain \/ Discard)
    BY <1>9 DEF Survives, GivenUp, Restore, Restored, AgentAgain, StartedAgain, Discard
  <2> QED BY <1>9, <2>1, <2>2 DEF Install
<1> QED BY <1>1, <1>2, <1>3, <1>4, <1>5, <1>6, <1>7, <1>8, <1>9 DEF Next

(* For every manifest and any number of shells, installations and faults:    *)
(* an installation over HomeKit mode leaves no bridge of another version     *)
(* running than the one that is installed then, new or restored.             *)
THEOREM RunsInstalledBridge == Spec => []RunsWhatIsInstalled
<1>1. Init => RunsInv
  BY InstallInitial, LauncherInitial DEF Init, RunsInv, Restarting, RunsWhatIsInstalled
<1>2. RunsInv /\ [Next]_vars => RunsInv'
  BY RunsStep, InstallStep DEF RunsInv
<1>3. RunsInv => RunsWhatIsInstalled
  BY DEF RunsInv
<1> QED BY <1>1, <1>2, <1>3, PTL DEF Spec
=============================================================================
