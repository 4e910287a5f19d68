----------------------------- MODULE MCInstaller -----------------------------
(* A small instance of Installer for TLC.                                    *)
EXTENDS Installer, TLC

PidSymmetry == Permutations(Pids)

SmallManifest ==
  [m \in {"homekit", "openmiio"} |->
     IF m = "homekit" THEN <<"mode", "bridge">> ELSE <<"openmiio", "mode">>]

Old(m) == [f \in Files |-> IF f = "mode" THEN m ELSE "old"]
NoBackup == [f \in Files |-> Absent]

(* An earlier version in HomeKit mode, one in openmiio mode, one with a mode *)
(* that nobody knows, and one whose installation was cut off, with the old   *)
(* bridge in a backup.                                                       *)
EarlierInstallations ==
  {[files |-> Old("homekit"), backup |-> NoBackup],
   [files |-> Old("openmiio"), backup |-> NoBackup],
   [files |-> Old("old"), backup |-> NoBackup],
   [files |-> [Old("homekit") EXCEPT !["bridge"] = Absent],
    backup |-> [NoBackup EXCEPT !["bridge"] = "old"]]}
=============================================================================
