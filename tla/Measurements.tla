----------------------------- MODULE Measurements -----------------------------
(***************************************************************************)
(* The measurement cache, internal/measurements/state.go, and how the      *)
(* update goroutine of main.go uses it: an accepted report is merged into  *)
(* the cache and the file, then applied to the first accessory it matches; *)
(* one that the discovery kept is applied first.  After a restart, with    *)
(* the same accessories or others, the file is loaded and what it restores *)
(* is applied.                                                             *)
(*                                                                         *)
(* A device has a MAC and a DID.  BLE reports carry both, MIoT property    *)
(* reports only the DID, and a configured device may name either or both.  *)
(* Save writes a temporary file and renames it: it happens or it does not. *)
(***************************************************************************)
EXTENDS Integers

CONSTANTS
  None,        \* a nil pointer, or an empty string
  Fields,      \* temperature, humidity, battery
  Values,      \* what a sensor measures
  Installations, \* sets of devices that have accessories, records of mac and did
  Rank,        \* the order of the accessories, that of their deviceKey
  Identities,  \* the identities reports carry, records of mac and did
  MaxReports,  \* bound on the number of reports accepted
  MaxRestarts  \* bound on the number of restarts

ASSUME MeasurementsAssumption ==
  /\ None \notin Values
  /\ \A id \in (UNION Installations) \cup Identities : id.mac # None \/ id.did # None
  /\ \A devs \in Installations : \A d, e \in devs :
       d # e => (d.mac = None \/ d.mac # e.mac) /\ (d.did = None \/ d.did # e.did)
  /\ Rank \in [UNION Installations -> Nat]
  /\ \A devs \in Installations : \A d, e \in devs : d # e => Rank[d] # Rank[e]
  /\ MaxReports \in Nat
  /\ MaxRestarts \in Nat
  /\ None \notin [Fields -> Values \cup {None}]
  /\ None \notin [id : Identities, values : [Fields -> Values \cup {None}]]

VARIABLES
  devices,   \* the devices that have accessories
  cache,     \* s.devices in memory
  disk,      \* the Devices of measurements.json
  pending,   \* the report that is persisted and not yet applied, or None
  unsaved,   \* the report of the discovery that is applied and not yet persisted
  initial,   \* whose reports the discovery kept and nobody has applied yet
  shown,     \* what HomeKit shows for each device, None before the first value
  dirty,     \* history: the last Save failed, or the file could not be loaded
  reports,   \* how many reports were accepted
  restarts   \* how often the bridge was restarted

vars == <<devices, cache, disk, pending, unsaved, initial, shown, dirty, reports, restarts>>

-----------------------------------------------------------------------------
(* Data *)

Reading == [Fields -> Values \cup {None}]
Empty == [f \in Fields |-> None]

(* What a report measures may be nothing that is kept: an event of the       *)
(* toothbrush, or a report of which some events could not be decoded.        *)
Update == [id : Identities, values : Reading]

(* A key is "mac" or "did" and the address; a DID never looks like a MAC.    *)
MacKey(id) == <<"mac", id.mac>>
DidKey(id) == <<"did", id.did>>
Key(id) == IF id.mac # None THEN MacKey(id) ELSE DidKey(id)

Named == (UNION Installations) \cup Identities
Keys == {Key(id) : id \in Named} \cup {DidKey(id) : id \in {i \in Named : i.did # None}}

(* No entry under a key of the map.                                          *)
Absent == None
Cache == [Keys -> Reading \cup {Absent}]
EmptyCache == [k \in Keys |-> Absent]

(* The values a report carries replace those of the reading.                 *)
Overwrite(reading, values) ==
  [f \in Fields |-> IF values[f] # None THEN values[f] ELSE reading[f]]

-----------------------------------------------------------------------------
(* state.go *)

(* A reading stored under the DID is taken over when the MAC gets its first. *)
Migrates(c, id) ==
  /\ c[Key(id)] = Absent
  /\ id.did # None
  /\ c[DidKey(id)] # Absent

Prior(c, id) ==
  IF c[Key(id)] # Absent THEN c[Key(id)]
  ELSE IF Migrates(c, id) THEN c[DidKey(id)]
  ELSE Empty

(* Mutant: moving a reading to the MAC does not count as a change.           *)
ChangedByValue(c, u) == Overwrite(Prior(c, u.id), u.values) # Prior(c, u.id)

(* State.Merge: whether the cache changed and has to be saved.               *)
Changed(c, u) ==
  Migrates(c, u.id) \/ Overwrite(Prior(c, u.id), u.values) # Prior(c, u.id)

WithoutPrior(c, id) ==
  IF Migrates(c, id) THEN [c EXCEPT ![DidKey(id)] = Absent] ELSE c

(* Mutants: the reading of the DID is dropped; so is what a report does not  *)
(* carry.                                                                    *)
MergedForgetful(c, u) ==
  LET prior == IF c[Key(u.id)] # Absent THEN c[Key(u.id)] ELSE Empty
  IN [WithoutPrior(c, u.id) EXCEPT ![Key(u.id)] = Overwrite(prior, u.values)]
MergedReplacing(c, u) == [WithoutPrior(c, u.id) EXCEPT ![Key(u.id)] = u.values]

(* State.Merge: the cache after a report.  The prior entry is deleted at     *)
(* once, the new reading is stored only when something changed.              *)
Merged(c, u) ==
  IF Changed(c, u)
  THEN [WithoutPrior(c, u.id) EXCEPT ![Key(u.id)] = Overwrite(Prior(c, u.id), u.values)]
  ELSE WithoutPrior(c, u.id)

(* Mutant: the entry is not looked for under the DID, nor found missing.     *)
RestoredUnchecked(c, device) == c[Key(device)]

(* State.Restore: the reading of a device, Empty when there is none.         *)
Restored(c, device) ==
  IF c[Key(device)] # Absent THEN c[Key(device)]
  ELSE IF device.did # None /\ c[DidKey(device)] # Absent THEN c[DidKey(device)]
  ELSE Empty

-----------------------------------------------------------------------------
(* main.go *)

(* matchAccessory: by MAC when both have one, or by DID.                     *)
Matches(device, id) ==
  \/ id.mac # None /\ device.mac # None /\ id.mac = device.mac
  \/ id.did # None /\ device.did # None /\ id.did = device.did

(* matchAccessory: of the accessories that match, the first.                 *)
Chosen(device, id) ==
  /\ Matches(device, id)
  /\ \A e \in devices : Matches(e, id) => Rank[device] <= Rank[e]

(* discoverDevices: it keeps nothing when there are devices already.  If not,*)
(* it makes devices of reports with a MAC, and keeps one report of each MAC. *)
Collects(devs, kept) ==
  \/ kept = {}
  \/ /\ devs \subseteq Identities
     /\ \A d \in devs : d.mac # None /\ \E id \in kept : id.mac = d.mac
     /\ \A id \in kept : id.mac # None /\ \E d \in devs : Matches(d, id)
     /\ \A id, j \in kept : id.mac = j.mac => id = j

Init ==
  /\ devices \in Installations
  /\ cache = EmptyCache
  /\ disk = EmptyCache
  /\ pending = None
  /\ unsaved = None
  /\ initial \in SUBSET Identities /\ Collects(devices, initial)
  /\ shown = [d \in devices |-> Empty]
  /\ dirty = FALSE
  /\ reports = 0
  /\ restarts = 0

(* State.Save: the temporary file is renamed, or the old file remains.       *)
Save(ok) == disk' = (IF ok THEN cache' ELSE disk) /\ dirty' = ~ok

(* persistMeasurements: merge, and save when the cache changed.              *)
MergeAndSave(u) ==
  /\ cache' = Merged(cache, u)
  /\ IF Changed(cache, u) THEN \E ok \in BOOLEAN : Save(ok)
     ELSE UNCHANGED <<disk, dirty>>

(* Apply, of the accessory that is chosen.                                   *)
After(d, reading, u) == IF Chosen(d, u.id) THEN Overwrite(reading, u.values) ELSE reading
Show(u) == shown' = [d \in devices |-> After(d, shown[d], u)]

Idle == pending = None /\ unsaved = None

(* processUpdates: an accepted report is merged, then applied, once those    *)
(* of the discovery have been.                                               *)
Persist(u) ==
  /\ Idle /\ initial = {}
  /\ reports < MaxReports
  /\ reports' = reports + 1
  /\ pending' = u
  /\ MergeAndSave(u)
  /\ UNCHANGED <<devices, shown, unsaved, initial, restarts>>

ApplyPending ==
  /\ pending # None
  /\ Show(pending)
  /\ pending' = None
  /\ UNCHANGED <<devices, cache, disk, unsaved, initial, dirty, reports, restarts>>

(* processUpdates: a report that the discovery kept is applied, then merged. *)
ApplyInitial(u) ==
  /\ Idle
  /\ u.id \in initial
  /\ initial' = initial \ {u.id}
  /\ reports < MaxReports
  /\ reports' = reports + 1
  /\ unsaved' = u
  /\ Show(u)
  /\ UNCHANGED <<devices, cache, disk, pending, dirty, restarts>>

PersistInitial ==
  /\ unsaved # None
  /\ MergeAndSave(unsaved)
  /\ unsaved' = None
  /\ UNCHANGED <<devices, pending, initial, shown, reports, restarts>>

(* The bridge stops anywhere and starts again, perhaps with other accessories*)
(* after an edit, an enrolment or a discovery: Load, or an empty cache when  *)
(* the file cannot be read, then restoreCachedMeasurements.                  *)
Restart(readable) ==
  /\ restarts < MaxRestarts
  /\ restarts' = restarts + 1
  /\ devices' \in Installations
  /\ initial' \in SUBSET Identities /\ Collects(devices', initial')
  /\ cache' = IF readable THEN disk ELSE EmptyCache
  /\ dirty' = ~readable
  /\ shown' = [d \in devices' |-> Restored(cache', d)]
  /\ pending' = None
  /\ unsaved' = None
  /\ UNCHANGED <<disk, reports>>

Next ==
  \/ \E u \in Update : Persist(u) \/ ApplyInitial(u)
  \/ ApplyPending
  \/ PersistInitial
  \/ \E readable \in BOOLEAN : Restart(readable)

Spec == Init /\ [][Next]_vars

-----------------------------------------------------------------------------
(* Properties *)

TypeOK ==
  /\ devices \in Installations
  /\ cache \in Cache
  /\ disk \in Cache
  /\ pending \in Update \cup {None}
  /\ unsaved \in Update \cup {None}
  /\ initial \subseteq Identities
  /\ shown \in [devices -> Reading]
  /\ dirty \in BOOLEAN
  /\ reports \in 0..MaxReports
  /\ restarts \in 0..MaxRestarts

(* Memory and file differ only after a Save that failed: no change of the    *)
(* cache, the move of a reading from its DID to its MAC included, is left    *)
(* out of the file until the next value happens to change.                   *)
UnsavedOnlyAfterFailure == cache # disk => dirty

(* A device whose reports with a MAC carry both addresses that the           *)
(* configuration has of it.                                                  *)
NamedAlike(d) ==
  \A id \in Identities :
    id.mac # None /\ Matches(d, id) => id.mac = d.mac /\ d.did \in {id.did, None}

(* While the bridge runs, a value it could restore for such a device is      *)
(* replaced and never lost, in whatever order reports with and without the   *)
(* MAC come.                                                                 *)
Kept(d) ==
  \A f \in Fields : Restored(cache, d)[f] # None => Restored(cache', d)[f] # None

NothingForgotten ==
  [][(\E u \in Update : Persist(u)) \/ PersistInitial =>
       \A d \in devices : NamedAlike(d) => Kept(d)]_vars

(* What would be restored for a device is what HomeKit shows now, whenever   *)
(* nothing is being processed and no save has failed.                        *)
RestoresShown(d) == (Idle /\ ~dirty) => Restored(disk, d) = shown[d]

(* A device of which all reports, those that share a DID with one of them    *)
(* included, are stored under the key that the configuration gives it, and   *)
(* none matches another accessory too.                                       *)
OneName(d) ==
  /\ \A id, j \in Identities :
       Matches(d, id) /\ (j = id \/ (j.did # None /\ j.did = id.did)) => Key(j) = Key(d)
  /\ \A id \in Identities, e \in devices : Matches(d, id) /\ Matches(e, id) => e = d

(* PROTOCOL.en.md:86-90: the bridge stores the last readings and restores    *)
(* those values after a restart.  It does for every device with one name,    *)
(* through restarts and failed saves, whatever is reported of the others.    *)
ShownIsRestorable == \A d \in devices : OneName(d) => RestoresShown(d)

(* Why: but for the report that is being processed, the cache is what        *)
(* HomeKit shows, and entries have the keys of reports.                      *)
CacheIsShown(d) ==
  LET cached == Restored(cache, d)
  IN /\ Idle => cached = shown[d]
     /\ pending # None => unsaved = None /\ cached = After(d, shown[d], pending)
     /\ unsaved # None => pending = None /\ shown[d] = After(d, cached, unsaved)

KeysOfReports ==
  \A k \in Keys : cache[k] # Absent \/ disk[k] # Absent => \E id \in Identities : Key(id) = k

(* The inductive invariant behind the two.                                   *)
CacheInv ==
  /\ TypeOK
  /\ KeysOfReports
  /\ UnsavedOnlyAfterFailure
  /\ \A d \in devices : OneName(d) => CacheIsShown(d)

(* The same for every device, as PROTOCOL.en.md:86-90 says.                  *)
EveryShownIsRestorable == \A d \in devices : RestoresShown(d)
=============================================================================
