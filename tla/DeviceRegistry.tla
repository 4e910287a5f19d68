---------------------------- MODULE DeviceRegistry ----------------------------
(***************************************************************************)
(* Which devices the bridge exposes, and under which accessory ID: the     *)
(* configured devices, the registry file devices.json, and what is         *)
(* discovered at startup or enrolled while the bridge runs.  Models        *)
(* mergeDevices, prepareDevices, appendDeviceWithAID, discoverDevices and  *)
(* the auto-enrolment of processUpdates in main.go, registry.go, and what  *)
(* config.go makes of the file of the user.                                *)
(*                                                                         *)
(* Apple Home keeps rooms, names and automations by accessory ID (AID), so *)
(* an AID must stay with its device over restarts and edits of the         *)
(* configuration.                                                          *)
(***************************************************************************)
EXTENDS Integers, Sequences, FiniteSets, Functions

CONSTANTS
  None,         \* an empty string
  Physical,     \* the BLE devices in range, records of mac and did
  Absent,       \* no config.json
  Files,        \* what config.json may be, Absent or a record
  Pins,         \* what generatePin may return
  DefaultAID,   \* stableID: from a MAC, or from a DID without a MAC, to an AID
  KeyRank,      \* deviceKey: the order of the addresses as strings
  MaxAID,       \* 2147483647
  MaxStarts     \* bound on the number of starts

VARIABLES
  file,      \* config.json
  config,    \* the configuration of the running bridge, None when it is stopped
  disk,      \* the devices of devices.json
  phase,     \* "stopped", "discovering" or "running"
  devices,   \* the devices of the running bridge
  exposed,   \* the devices that have an accessory
  unknown,   \* MACs that were reported and have no accessory
  starts,    \* how often the bridge was started
  identity   \* history: the AID each physical device was exposed with last, 0 before

vars == <<file, config, disk, phase, devices, exposed, unknown, starts, identity>>

-----------------------------------------------------------------------------
(* Data *)

(* config.Device without its name; product stands for the product ID and the *)
(* model, which are None when the user left both out.  AID 0 is not set.     *)
Address(d) == IF d.mac # None THEN d.mac ELSE d.did
FromReport(p) == [mac |-> p.mac, did |-> p.did, aid |-> 0, product |-> "supported"]

(* findDevice, matchAccessory and mergeDevices: the same MAC or the same DID. *)
SameDevice(d, e) ==
  \/ d.mac # None /\ d.mac = e.mac
  \/ d.did # None /\ d.did = e.did

-----------------------------------------------------------------------------
(* config.go *)

(* The settings that the devices do not depend on are "usable" or out of     *)
(* their ranges; a MAC that is no MAC, once normalised, has no default AID.  *)
Defaults(pin) == [settings |-> "usable", pin |-> pin, mode |-> "auto", devices |-> <<>>]

(* Files from before there was a discovery section discover one sensor.      *)
Normalized(c) == [c EXCEPT !.mode = IF @ = "" THEN "first" ELSE @]

ValidDevices(list) ==
  \A i, j \in DOMAIN list :
    /\ Address(list[i]) # None
    /\ list[i].mac \in DOMAIN DefaultAID \cup {None}
    /\ list[i].aid # 1
    /\ i # j => /\ Address(list[i]) # Address(list[j])
                /\ list[i].aid = 0 \/ list[i].aid # list[j].aid

(* NormalizeAndValidate ends without an error.                               *)
Valid(c) ==
  /\ c.settings = "usable"
  /\ c.pin \in Pins
  /\ Normalized(c).mode \in {"first", "auto", "manual"}
  /\ ValidDevices(c.devices)

(* Mutant: the bridge runs although the new file could not be written.       *)
LoadOrCreateUnwritten(c) ==
  \/ file # Absent /\ Valid(file) /\ c = Normalized(file) /\ UNCHANGED file
  \/ file = Absent /\ \E pin \in Pins : c = Normalized(Defaults(pin)) /\ file' \in {file, c}

(* writeJSON ends without an error: a temporary file is renamed.             *)
WriteJSON(c) == file' = c

(* LoadOrCreate returns no error: the file is loaded, or written first.      *)
LoadOrCreate(c) ==
  \/ file # Absent /\ Valid(file) /\ c = Normalized(file) /\ UNCHANGED file
  \/ file = Absent /\ \E pin \in Pins : c = Normalized(Defaults(pin)) /\ WriteJSON(c)

(* What a bridge may run with.                                               *)
Loadable ==
  {Normalized(f) : f \in {f \in Files \ {Absent} : Valid(f)}} \cup {Defaults(pin) : pin \in Pins}

Configured == UNION {Range(c.devices) : c \in Loadable}
Macs == ({p.mac : p \in Physical} \cup {d.mac : d \in Configured}) \ {None}
Dids == ({p.did : p \in Physical} \cup {d.did : d \in Configured}) \ {None}

(* What the hash may return, and what the user may set.                      *)
AIDs == 2..(MaxAID + 2) \cup ({d.aid : d \in Configured} \ {0})

(* No list is longer: a device for each address, and one for each report of  *)
(* a device without an accessory.                                            *)
MostDevices == Cardinality(DOMAIN DefaultAID) + Cardinality({p.mac : p \in Physical})

(* MACs and DIDs are kept apart by a prefix; the reports are of devices with *)
(* a MAC; and there are far fewer devices than AIDs.                         *)
ASSUME RegistryAssumption ==
  /\ MaxAID \in Nat
  /\ IsFiniteSet(DOMAIN DefaultAID)
  /\ MostDevices + 2 <= MaxAID
  /\ \A a \in DOMAIN DefaultAID : DefaultAID[a] \in 2..(MaxAID + 2)
  /\ Macs \cup Dids \subseteq DOMAIN DefaultAID /\ Macs \cap Dids = {}
  /\ \A p \in Physical : p.mac # None
  /\ \A f \in Files \ {Absent} : DOMAIN f = {"settings", "pin", "mode", "devices"}
  /\ \A c \in Loadable : c.devices \in Seq(Configured)
  /\ \A d \in Configured :
       d \in [mac : Macs \cup {None}, did : Dids \cup {None}, aid : Nat \ {1},
              product : {None, "supported", "other"}]
  /\ {None, Absent} \cap Loadable = {} /\ None \notin {"supported", "other"}
  /\ KeyRank \in [DOMAIN DefaultAID -> Nat] /\ IsInjective(KeyRank)
  /\ MaxStarts \in Nat

-----------------------------------------------------------------------------
(* Pure functions of main.go *)

Found(list, d) == \E i \in DOMAIN list : SameDevice(list[i], d)

(* Mutant: saved devices are compared by their MAC only.                     *)
MergeByMac(configured, saved) ==
  LET merged[k \in 0..Len(saved)] ==
        IF k = 0 THEN configured
        ELSE LET earlier == merged[k - 1]
             IN IF \E i \in DOMAIN earlier : earlier[i].mac # None /\ earlier[i].mac = saved[k].mac
                THEN earlier ELSE Append(earlier, saved[k])
  IN merged[Len(saved)]

(* Mutant: the saved devices count only when none is configured.             *)
MergeConfiguredOnly(configured, saved) == IF configured = <<>> THEN saved ELSE configured

(* mergeDevices: the configured devices, then the saved ones that are not    *)
(* among them nor saved twice.                                               *)
MergeDevices(configured, saved) ==
  LET merged[k \in 0..Len(saved)] ==
        IF k = 0 THEN configured
        ELSE LET earlier == merged[k - 1]
             IN IF Found(earlier, saved[k]) THEN earlier ELSE Append(earlier, saved[k])
  IN merged[Len(saved)]

NextAIDUnbounded(aid) == aid + 1  \* mutant: no wrap
NextAID(aid) == IF aid + 1 > MaxAID THEN 2 ELSE aid + 1

(* The first AID from the default one on that is not used.                   *)
FreeAID(d, used) ==
  LET probe[k \in 0..Cardinality(used)] ==
        IF k = 0 THEN DefaultAID[Address(d)] ELSE NextAID(probe[k - 1])
      k == CHOOSE k \in 0..Cardinality(used) :
             probe[k] \notin used /\ \A j \in 0..(k - 1) : probe[j] \in used
  IN probe[k]

(* A device of which the user gave neither product nor model is a sensor.    *)
Identified(d) == IF d.product = None THEN "supported" ELSE d.product

(* Mutant: the default AID is taken without looking whether it is used.      *)
PreparedUnchecked(d, used) ==
  [d EXCEPT !.product = Identified(d),
            !.aid = IF d.aid >= 2 THEN d.aid ELSE DefaultAID[Address(d)]]

(* Mutant: the default AID is that of the DID, for a device that has one.    *)
PreparedByDid(d, used) ==
  LET hashed == IF d.did = None THEN d ELSE [d EXCEPT !.mac = None]
  IN [d EXCEPT !.product = Identified(d),
               !.aid = IF d.aid >= 2 /\ d.aid \notin used THEN d.aid ELSE FreeAID(hashed, used)]

(* A device keeps its AID unless one before it has it.                       *)
Prepared(d, used) ==
  [d EXCEPT !.product = Identified(d),
            !.aid = IF d.aid >= 2 /\ d.aid \notin used THEN d.aid ELSE FreeAID(d, used)]

PrepareDevices(list) ==
  LET new[i \in DOMAIN list] == Prepared(list[i], {new[j].aid : j \in 1..(i - 1)})
  IN [list |-> new, changed |-> new # list]

(* appendDeviceWithAID                                                       *)
AppendDevice(list, p) == PrepareDevices(Append(list, FromReport(p))).list

(* sort.Slice by deviceKey, which leaves devices of one key in any order.    *)
Sorted(list) ==
  {[i \in DOMAIN list |-> list[p[i]]] : p \in
     {p \in Bijection(DOMAIN list, DOMAIN list) :
        \A i, j \in DOMAIN list :
          i < j => KeyRank[Address(list[p[i]])] <= KeyRank[Address(list[p[j]])]}}

-----------------------------------------------------------------------------
Init ==
  /\ file \in Files
  /\ config = None
  /\ disk = <<>>
  /\ phase = "stopped"
  /\ devices = <<>>
  /\ exposed = {}
  /\ unknown = {}
  /\ starts = 0
  /\ identity = [p \in Physical |-> 0]

Stopped ==
  /\ phase' = "stopped"
  /\ config' = None
  /\ devices' = <<>>
  /\ exposed' = {}
  /\ unknown' = {}

(* registry.Save: the temporary file is renamed, or an error and the old file*)
(* remains.                                                                  *)
Save(list, ok) == disk' = IF ok THEN list ELSE disk

(* NewDeviceAccessory knows the product.                                     *)
Supported(d) == d.product = "supported"

(* HomeKit gets an accessory for each supported device of the sorted list;   *)
(* matchAccessory takes the first of them that matches a report.             *)
Expose(sorted) ==
  LET Matches(p) == {i \in DOMAIN sorted : Supported(sorted[i]) /\ SameDevice(sorted[i], p)}
      First(p) == CHOOSE i \in Matches(p) : \A j \in Matches(p) : i <= j
  IN /\ phase' = "running"
     /\ devices' = sorted
     /\ exposed' = {d \in Range(sorted) : Supported(d)}
     /\ identity' = [p \in Physical |->
          IF Matches(p) = {} THEN identity[p] ELSE sorted[First(p)].aid]

(* run, from the merge to the accessories.  When the list is prepared with a *)
(* change, it must be saved first, or the bridge ends with an error.         *)
SaveAndExpose(c, list, changed) ==
  \/ /\ \E sorted \in Sorted(list) : Expose(sorted)
     /\ config' = c
     /\ IF changed THEN Save(list, TRUE) ELSE UNCHANGED disk
     /\ UNCHANGED unknown
  \/ changed /\ Stopped /\ Save(list, FALSE) /\ UNCHANGED identity

(* run with a configuration c.                                               *)
StartWith(c) ==
  LET prepared == PrepareDevices(MergeDevices(c.devices, disk))
  IN IF prepared.list = <<>> /\ c.mode # "manual"
     THEN /\ phase' = "discovering"
          /\ config' = c
          /\ UNCHANGED <<disk, devices, exposed, unknown, identity>>
     ELSE SaveAndExpose(c, prepared.list, prepared.changed)

Start ==
  /\ phase = "stopped"
  /\ starts < MaxStarts
  /\ starts' = starts + 1
  /\ \E c \in Loadable : LoadOrCreate(c) /\ StartWith(c)

(* The configuration is refused, or the registry cannot be read: only a file *)
(* that was missing may have been written.                                   *)
StartFails ==
  /\ phase = "stopped"
  /\ starts < MaxStarts
  /\ starts' = starts + 1
  /\ UNCHANGED file \/ \E c \in Loadable : LoadOrCreate(c)
  /\ UNCHANGED <<config, disk, phase, devices, exposed, unknown, identity>>

(* discoverDevices: an accepted report of a supported device.  In mode       *)
(* "first" it ends the discovery.                                            *)
Discover(p) ==
  LET list == IF Found(devices, p) THEN devices ELSE AppendDevice(devices, p)
  IN /\ phase = "discovering"
     /\ IF config.mode = "first" THEN SaveAndExpose(config, list, TRUE)
        ELSE /\ devices' = list
             /\ UNCHANGED <<config, disk, phase, exposed, unknown, identity>>
     /\ UNCHANGED <<file, starts>>

(* discoverDevices: the window ends, some time after the first device.       *)
WindowEnds ==
  /\ phase = "discovering"
  /\ devices # <<>>
  /\ SaveAndExpose(config, devices, TRUE)
  /\ UNCHANGED <<file, starts>>

(* Mutant: the registry is saved with what is exposed and the new device.    *)
EnrollForgetful(p) ==
  /\ phase = "running"
  /\ ~\E d \in exposed : SameDevice(d, p)
  /\ p.mac \notin unknown
  /\ unknown' = unknown \cup {p.mac}
  /\ LET list == AppendDevice(SelectSeq(devices, LAMBDA d : d \in exposed), p)
     IN disk' = IF config.mode = "auto" THEN list ELSE disk
  /\ UNCHANGED <<file, config, phase, devices, exposed, starts, identity>>

(* processUpdates: an accepted report of a device without an accessory.  It  *)
(* is enrolled once in a run, and exposed after the next start.              *)
Enroll(p) ==
  /\ phase = "running"
  /\ ~\E d \in exposed : SameDevice(d, p)
  /\ p.mac \notin unknown
  /\ unknown' = unknown \cup {p.mac}
  /\ IF config.mode = "auto"
     THEN /\ devices' = AppendDevice(devices, p)
          /\ \E ok \in BOOLEAN : Save(devices', ok)
     ELSE UNCHANGED <<devices, disk>>
  /\ UNCHANGED <<file, config, phase, exposed, starts, identity>>

(* The bridge ends, or crashes.  A signal during the discovery still saves   *)
(* the devices found so far.                                                 *)
Stop ==
  /\ phase # "stopped"
  /\ Stopped
  /\ \/ UNCHANGED disk
     \/ phase = "discovering" /\ devices # <<>> /\ Save(devices, TRUE)
  /\ UNCHANGED <<file, starts, identity>>

(* The user edits the configuration while the bridge is stopped.             *)
Edit ==
  /\ phase = "stopped"
  /\ file' \in Files
  /\ UNCHANGED <<config, disk, phase, devices, exposed, unknown, starts, identity>>

Next ==
  \/ Start \/ StartFails
  \/ \E p \in Physical : Discover(p) \/ Enroll(p)
  \/ WindowEnds
  \/ Stop
  \/ Edit

Spec == Init /\ [][Next]_vars

-----------------------------------------------------------------------------
(* Properties *)

Entry ==
  {d \in [mac : Macs \cup {None}, did : Dids \cup {None}, aid : AIDs,
          product : {"supported", "other"}] : Address(d) # None}

TypeOK ==
  /\ file \in Files \cup {Absent} \cup {Defaults(pin) : pin \in Pins}
  /\ config \in Loadable \cup {None}
  /\ disk \in Seq(Entry)
  /\ phase \in {"stopped", "discovering", "running"}
  /\ phase = "stopped" <=> config = None
  /\ devices \in Seq(Entry)
  /\ exposed \subseteq Entry
  /\ unknown \subseteq {p.mac : p \in Physical}
  /\ starts \in 0..MaxStarts
  /\ identity \in [Physical -> AIDs \cup {0}]

(* A bridge that ends, or crashes, and starts again without an edit runs     *)
(* with the same PIN and mode, and exposes all it exposed, under the same    *)
(* AIDs, the disputed ones included: through a first start that creates the  *)
(* file, discoveries, enrolments and saves of them that fail.                *)
RestartIsAlike ==
  config # None =>
    /\ file # Absent /\ Valid(file) /\ Normalized(file) = config
    /\ exposed \subseteq Range(PrepareDevices(MergeDevices(config.devices, disk)).list)

RegistryInv == TypeOK /\ RestartIsAlike

(* Why: the lists from which a restart begins give each device one AID, and  *)
(* every exposed device is either configured, and found as the configuration *)
(* alone gives it, or like no configured device and like no other.           *)
OneAIDEach(list) == \A i, j \in DOMAIN list : list[i].aid = list[j].aid => i = j
Apart(list) == \A i, j \in DOMAIN list : SameDevice(list[i], list[j]) => i = j

Settled(configured, shown, list) ==
  LET own == Range(PrepareDevices(configured).list)
  IN /\ OneAIDEach(list)
     /\ own \cup shown \subseteq Range(list)
     /\ \A d \in shown \ own :
          /\ ~Found(configured, d)
          /\ \A e \in Range(list) : SameDevice(d, e) => d = e

(* The inductive invariant: also, the AIDs do not run out.                   *)
DeviceInv ==
  /\ RegistryInv
  /\ phase = "stopped" => devices = <<>> /\ exposed = {}
  /\ phase = "discovering" =>
       /\ config.devices = <<>> /\ exposed = {}
       /\ OneAIDEach(devices) /\ Apart(devices)
  /\ phase = "running" =>
       /\ Settled(config.devices, exposed, devices)
       /\ Len(devices) <= Cardinality(DOMAIN DefaultAID) + Cardinality(unknown)

(* HomeKit never gets two accessories with one AID, nor one with the AID of  *)
(* the bridge, which is 1, nor one that neither a hash gives nor the user:   *)
(* whatever the default AIDs collide with, and whatever the configuration    *)
(* sets.  main.go:347-361, sensor.go:69-83.                                  *)
AIDsUnique ==
  /\ \A d \in exposed : d.aid \in AIDs
  /\ \A d, e \in exposed : d.aid = e.aid => d = e

(* The devices of which the configurations leave no doubt: no two devices    *)
(* share an address with such a device and not with each other, whatever     *)
(* configuration they are of, and no configuration has an entry for its MAC  *)
(* and another one for its DID.                                              *)
Unambiguous ==
  LET known == Physical \cup Configured
  IN {p \in Physical :
        /\ \A d, e \in known : SameDevice(d, p) => (SameDevice(e, p) <=> SameDevice(d, e))
        /\ \A c \in Loadable : \A i, j \in DOMAIN c.devices :
             SameDevice(c.devices[i], p) /\ SameDevice(c.devices[j], p) => i = j}

(* No device has two accessories, of which one would show nothing for ever.  *)
OneAccessoryEach ==
  \A p \in Unambiguous : Cardinality({d \in exposed : SameDevice(d, p)}) <= 1

(* A device that is in the registry stays there, through enrolments of       *)
(* others, saves that failed before, restarts and edits.                     *)
RegistryKeeps ==
  [][\A p \in Unambiguous : Found(disk, p) => Found(disk', p)]_vars

(* main.go:221: an enrolled device needs only a restart to be exposed, unless *)
(* the user ever gave it a product that the bridge does not support.         *)
EnrolledIsExposed ==
  [][phase # "running" /\ phase' = "running"
     => \A p \in Unambiguous :
          /\ \A d \in Configured : SameDevice(d, p) => d.product # "other"
          /\ Found(disk, p)
          => \E d \in exposed' : SameDevice(d, p)]_vars

(* The AIDs that the search for a free one may lead to.                      *)
LedTo(aid) ==
  LET probe[k \in 0..MostDevices] == IF k = 0 THEN aid ELSE NextAID(probe[k - 1])
  IN Range(probe)

(* A device that always comes with its MAC, of which no configuration sets   *)
(* the AID, and whose default AID no other device may be led to.             *)
Undisputed ==
  {p \in Unambiguous :
     LET contenders == {DefaultAID[a] : a \in DOMAIN DefaultAID \ {p.mac, p.did}}
                         \cup ({d.aid : d \in Configured} \ {0})
     IN /\ \A d \in Physical \cup Configured : SameDevice(d, p) => d.mac = p.mac
        /\ \A d \in Configured : SameDevice(d, p) => d.aid = 0
        /\ \A aid \in contenders : DefaultAID[p.mac] \notin LedTo(aid)}

(* Such a device keeps its AID through every discovery, enrolment, failed    *)
(* save, restart and edit, whatever becomes of the others.                   *)
UndisputedAIDStable ==
  [][\A p \in Undisputed : identity[p] # 0 => identity'[p] = identity[p]]_vars

(* README.en.md:124-125: each BLE device keeps a stable accessory ID derived *)
(* from its MAC address.                                                     *)
StableAID ==
  [][\A p \in Physical : identity[p] # 0 => identity'[p] = identity[p]]_vars
=============================================================================
