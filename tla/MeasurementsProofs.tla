-------------------------- MODULE MeasurementsProofs --------------------------
(***************************************************************************)
(* Proofs about Measurements for every set of devices, fields and values,  *)
(* whatever addresses reports carry, and every number of reports and       *)
(* restarts.                                                               *)
(***************************************************************************)
EXTENDS Measurements, TLAPS

-----------------------------------------------------------------------------
(* Data *)

LEMMA AbsentIsNoReading == Absent \notin Reading /\ Empty \in Reading
BY MeasurementsAssumption DEF Absent, Reading, Empty

LEMMA NoneIsNoUpdate == None \notin Update
BY MeasurementsAssumption DEF Update, Reading

LEMMA OverwriteIsReading ==
  ASSUME NEW reading \in Reading, NEW values \in Reading
  PROVE  /\ Overwrite(reading, values) \in Reading
         /\ \A f \in Fields : reading[f] # None => Overwrite(reading, values)[f] # None
BY DEF Overwrite, Reading

LEMMA DevicesAreNamed ==
  ASSUME TypeOK, NEW d \in devices
  PROVE  d \in Named
BY DEF TypeOK, Named

LEMMA KeysOfNamed ==
  ASSUME NEW id \in Named
  PROVE  Key(id) \in Keys /\ (id.did # None => DidKey(id) \in Keys)
BY DEF Keys

LEMMA UpdateParts ==
  ASSUME NEW u \in Update
  PROVE  /\ u.id \in Named /\ u.id \in Identities
         /\ u.values \in Reading
BY DEF Update, Named

LEMMA ReadingUnderKey ==
  ASSUME NEW c \in Cache, NEW k \in Keys, c[k] # Absent
  PROVE  c[k] \in Reading
BY DEF Cache

(* Two names have a key in common only if they match.                        *)
LEMMA KeysDiffer ==
  ASSUME NEW d \in Named, NEW id \in Named, ~Matches(d, id)
  PROVE  /\ Key(d) # Key(id)
         /\ id.did # None => Key(d) # DidKey(id)
         /\ d.did # None => DidKey(d) # Key(id)
         /\ d.did # None => DidKey(d) # DidKey(id)
<1> USE DEF Key, MacKey, DidKey, Matches
<1>1. d.mac # None \/ d.did # None
  BY MeasurementsAssumption DEF Named
<1>2. id.mac # None \/ id.did # None
  BY MeasurementsAssumption DEF Named
<1> QED BY <1>1, <1>2

LEMMA PriorIsReading ==
  ASSUME NEW c \in Cache, NEW id \in Named
  PROVE  Prior(c, id) \in Reading
BY AbsentIsNoReading, KeysOfNamed, ReadingUnderKey DEF Prior, Migrates

LEMMA RestoredIsReading ==
  ASSUME NEW c \in Cache, NEW d \in Named
  PROVE  Restored(c, d) \in Reading
BY AbsentIsNoReading, KeysOfNamed, ReadingUnderKey DEF Restored

-----------------------------------------------------------------------------
(* Merge *)

(* A report that changes nothing leaves every entry as it is, one that       *)
(* migrated included.                                                        *)
LEMMA UnchangedCache ==
  ASSUME NEW c, NEW u, ~Changed(c, u)
  PROVE  Merged(c, u) = c
BY DEF Merged, Changed, WithoutPrior

(* What Merge leaves under every key when something changed.                 *)
LEMMA MergedIs ==
  ASSUME NEW c \in Cache, NEW u \in Update, Changed(c, u)
  PROVE  /\ Merged(c, u) \in Cache
         /\ \A k \in Keys :
              Merged(c, u)[k] =
                IF k = Key(u.id) THEN Overwrite(Prior(c, u.id), u.values)
                ELSE IF Migrates(c, u.id) /\ k = DidKey(u.id) THEN Absent
                ELSE c[k]
<1> DEFINE id == u.id
           new == Overwrite(Prior(c, id), u.values)
<1>1. /\ id \in Named /\ u.values \in Reading
      /\ Key(id) \in Keys /\ (id.did # None => DidKey(id) \in Keys)
  BY UpdateParts, KeysOfNamed
<1>2. Prior(c, id) \in Reading /\ new \in Reading
  BY <1>1, PriorIsReading, OverwriteIsReading
<1>3. c \in [Keys -> Reading \cup {Absent}]
  BY DEF Cache
<1>4. Merged(c, u) = [WithoutPrior(c, id) EXCEPT ![Key(id)] = new]
  BY DEF Merged
<1>5. CASE Migrates(c, id)
  <2>1. WithoutPrior(c, id) = [c EXCEPT ![DidKey(id)] = Absent] /\ DidKey(id) \in Keys
    BY <1>1, <1>5 DEF WithoutPrior, Migrates
  <2> HIDE DEF id, new
  <2>2. Merged(c, u) = [[c EXCEPT ![DidKey(id)] = Absent] EXCEPT ![Key(id)] = new]
    BY <1>4, <2>1
  <2>3. /\ Merged(c, u) \in [Keys -> Reading \cup {Absent}]
        /\ \A k \in Keys :
             Merged(c, u)[k] = IF k = Key(id) THEN new
                               ELSE IF k = DidKey(id) THEN Absent ELSE c[k]
    BY <1>1, <1>2, <1>3, <2>1, <2>2
  <2> QED BY <1>5, <2>3 DEF Cache, id, new
<1>6. CASE ~Migrates(c, id)
  <2>1. Merged(c, u) = [c EXCEPT ![Key(id)] = new]
    BY <1>4, <1>6 DEF WithoutPrior
  <2> HIDE DEF id, new
  <2>2. /\ Merged(c, u) \in [Keys -> Reading \cup {Absent}]
        /\ \A k \in Keys : Merged(c, u)[k] = IF k = Key(id) THEN new ELSE c[k]
    BY <1>1, <1>2, <1>3, <2>1
  <2> QED BY <1>6, <2>2 DEF Cache, id, new
<1> QED BY <1>5, <1>6

(* Merge makes no entry but the one under the key of the report.             *)
LEMMA MergedIsCache ==
  ASSUME NEW c \in Cache, NEW u \in Update
  PROVE  /\ Merged(c, u) \in Cache
         /\ \A k \in Keys : Merged(c, u)[k] # Absent => c[k] # Absent \/ k = Key(u.id)
<1>1. CASE Changed(c, u)
  BY <1>1, MergedIs
<1>2. CASE ~Changed(c, u)
  BY <1>2, UnchangedCache
<1> QED BY <1>1, <1>2

(* An accessory with one name is chosen for every report that matches it.    *)
LEMMA OnlyChosen ==
  ASSUME TypeOK, NEW d \in devices, OneName(d), NEW id \in Identities, Matches(d, id)
  PROVE  Chosen(d, id)
<1> SUFFICES ASSUME NEW e \in devices, Matches(e, id) PROVE Rank[d] <= Rank[e]
  BY DEF Chosen
<1>1. e = d
  BY DEF OneName
<1>2. Rank[d] \in Nat
  BY MeasurementsAssumption DEF TypeOK
<1> QED BY <1>1, <1>2

(* Merge finds under the name of a report what Restore finds under that of   *)
(* the device.                                                               *)
LEMMA PriorIsRestored ==
  ASSUME NEW c \in Cache, NEW d \in Named, OneName(d),
         NEW id \in Identities, Matches(d, id),
         \A k \in Keys : c[k] # Absent => \E j \in Identities : Key(j) = k
  PROVE  Prior(c, id) = Restored(c, d)
<1>1. id \in Named /\ Key(id) = Key(d)
  BY DEF OneName, Named
<1>2. ASSUME NEW n \in Named, n.did # None, c[DidKey(n)] # Absent
      PROVE  \E j \in Identities : j.did = n.did /\ j.did # None /\ Key(j) = DidKey(n)
  <2>1. PICK j \in Identities : Key(j) = DidKey(n)
    BY <1>2, KeysOfNamed
  <2>2. j.did = n.did
    BY <2>1 DEF Key, MacKey, DidKey
  <2> QED BY <1>2, <2>1, <2>2
<1>3. CASE c[Key(d)] # Absent
  BY <1>1, <1>3 DEF Prior, Restored
<1>4. CASE c[Key(d)] = Absent
  <2>1. ~(d.did # None /\ c[DidKey(d)] # Absent)
    <3> SUFFICES ASSUME d.did # None, c[DidKey(d)] # Absent PROVE FALSE
      OBVIOUS
    <3>1. PICK j \in Identities : j.did = d.did /\ Key(j) = DidKey(d)
      BY <1>2
    <3>2. Matches(d, j)
      BY <3>1 DEF Matches
    <3>3. Key(j) = Key(d)
      BY <3>2 DEF OneName
    <3> QED BY <1>4, <3>1, <3>3
  <2>2. ~Migrates(c, id)
    <3> SUFFICES ASSUME id.did # None, c[DidKey(id)] # Absent PROVE FALSE
      BY DEF Migrates
    <3>1. PICK j \in Identities : j.did = id.did /\ j.did # None /\ Key(j) = DidKey(id)
      BY <1>1, <1>2
    <3>2. Key(j) = Key(d)
      BY <3>1 DEF OneName
    <3> QED BY <1>4, <3>1, <3>2
  <2> QED BY <1>1, <1>4, <2>1, <2>2 DEF Prior, Restored
<1> QED BY <1>3, <1>4

(* What is restored of a device with one name follows what is shown of it.   *)
LEMMA MergeFollowsApply ==
  ASSUME TypeOK, NEW c \in Cache, NEW u \in Update, NEW d \in devices, OneName(d),
         \A k \in Keys : c[k] # Absent => \E id \in Identities : Key(id) = k
  PROVE  Restored(Merged(c, u), d) = After(d, Restored(c, d), u)
<1> DEFINE m == Merged(c, u)
           K == Key(u.id)
           D == DidKey(u.id)
           new == Overwrite(Prior(c, u.id), u.values)
<1>1. /\ d \in Named /\ u.id \in Named /\ u.id \in Identities
      /\ Key(d) \in Keys /\ (d.did # None => DidKey(d) \in Keys)
      /\ K \in Keys /\ (u.id.did # None => D \in Keys)
  BY UpdateParts, DevicesAreNamed, KeysOfNamed
<1>2. Changed(c, u) =>
        \A k \in Keys :
          m[k] = IF k = K THEN new
                 ELSE IF Migrates(c, u.id) /\ k = D THEN Absent ELSE c[k]
  BY MergedIs
<1>3. ~Changed(c, u) => m = c /\ new = Prior(c, u.id)
  BY UnchangedCache DEF Changed
<1>4. new \in Reading /\ new # Absent
  BY <1>1, UpdateParts, PriorIsReading, OverwriteIsReading, AbsentIsNoReading
<1>5. CASE Matches(d, u.id)
  <2>1. K = Key(d)
    BY <1>1, <1>5 DEF OneName
  <2>2. Chosen(d, u.id)
    BY <1>1, <1>5, OnlyChosen
  <2>3. Prior(c, u.id) = Restored(c, d)
    BY <1>1, <1>5, PriorIsRestored
  <2>4. Restored(m, d) = new
    <3>1. CASE Changed(c, u)
      BY <1>1, <1>2, <1>4, <2>1, <3>1 DEF Restored
    <3>2. CASE ~Changed(c, u)
      BY <1>3, <2>3, <3>2
    <3> QED BY <3>1, <3>2
  <2> QED BY <2>2, <2>3, <2>4 DEF After
<1>6. CASE ~Matches(d, u.id)
  <2>1. m[Key(d)] = c[Key(d)]
    BY <1>1, <1>2, <1>3, <1>6, KeysDiffer DEF Migrates
  <2>2. d.did # None => m[DidKey(d)] = c[DidKey(d)]
    BY <1>1, <1>2, <1>3, <1>6, KeysDiffer DEF Migrates
  <2>3. Restored(m, d) = Restored(c, d)
    BY <2>1, <2>2 DEF Restored
  <2> QED BY <1>6, <2>3 DEF After, Chosen
<1> QED BY <1>5, <1>6

(* Merge loses nothing that could be restored of a device.                   *)
LEMMA MergeKeeps ==
  ASSUME NEW c \in Cache, NEW u \in Update, NEW d \in Named, NamedAlike(d),
         NEW f \in Fields, Restored(c, d)[f] # None
  PROVE  Restored(Merged(c, u), d)[f] # None
<1> SUFFICES ASSUME Changed(c, u) PROVE Restored(Merged(c, u), d)[f] # None
  BY UnchangedCache
<1> DEFINE m == Merged(c, u)
           K == Key(u.id)
           D == DidKey(u.id)
           new == Overwrite(Prior(c, u.id), u.values)
<1>1. /\ u.id \in Named /\ u.id \in Identities
      /\ Key(d) \in Keys /\ (d.did # None => DidKey(d) \in Keys)
      /\ K \in Keys /\ (u.id.did # None => D \in Keys)
  BY UpdateParts, KeysOfNamed
<1>2. \A k \in Keys :
        m[k] = IF k = K THEN new
               ELSE IF Migrates(c, u.id) /\ k = D THEN Absent ELSE c[k]
  BY MergedIs
<1>3. new # Absent /\ (Prior(c, u.id)[f] # None => new[f] # None)
  BY <1>1, UpdateParts, PriorIsReading, OverwriteIsReading, AbsentIsNoReading
<1>4. Empty[f] = None
  BY DEF Empty
<1>5. u.id.mac # None /\ Matches(d, u.id) => u.id.mac = d.mac /\ d.did \in {u.id.did, None}
  BY <1>1 DEF NamedAlike
<1>6. Migrates(c, u.id) => u.id.mac # None /\ u.id.did # None /\ K # D
  BY DEF Migrates, Key
<1>7. CASE c[Key(d)] # Absent
  <2>1. Restored(c, d) = c[Key(d)]
    BY <1>7 DEF Restored
  <2>2. CASE Key(d) = K
    <3>1. Prior(c, u.id) = c[K]
      BY <1>7, <2>2 DEF Prior
    <3>2. Restored(m, d) = new
      BY <1>1, <1>2, <1>3, <2>2 DEF Restored
    <3> QED BY <1>3, <2>1, <2>2, <3>1, <3>2
  <2>3. CASE Key(d) # K
    <3>1. ~(Migrates(c, u.id) /\ Key(d) = D)
      BY <1>5, <1>6 DEF Key, MacKey, DidKey, Matches
    <3>2. m[Key(d)] = c[Key(d)]
      BY <1>1, <1>2, <2>3, <3>1
    <3> QED BY <1>7, <2>1, <3>2 DEF Restored
  <2> QED BY <2>2, <2>3
<1>8. CASE c[Key(d)] = Absent
  <2>1. d.did # None /\ c[DidKey(d)] # Absent /\ Restored(c, d) = c[DidKey(d)]
    BY <1>4, <1>8 DEF Restored
  <2>2. d.mac # None
    BY <1>8, <2>1 DEF Key
  <2>3. CASE Key(d) = K
    <3>1. u.id.mac # None /\ u.id.mac = d.mac
      BY <2>2, <2>3 DEF Key, MacKey, DidKey
    <3>2. d.did = u.id.did
      BY <1>5, <2>1, <2>2, <3>1 DEF Matches
    <3>3. DidKey(d) = D /\ Migrates(c, u.id)
      BY <1>8, <2>1, <2>3, <3>2 DEF Migrates, DidKey
    <3>4. Prior(c, u.id) = c[DidKey(d)]
      BY <1>8, <2>3, <3>3 DEF Prior
    <3>5. Restored(m, d) = new
      BY <1>1, <1>2, <1>3, <2>3 DEF Restored
    <3> QED BY <1>3, <2>1, <3>4, <3>5
  <2>4. CASE Key(d) # K
    <3>1. m[Key(d)] = Absent
      BY <1>1, <1>2, <1>8, <2>4
    <3>2. m[DidKey(d)] # Absent => Restored(m, d) = m[DidKey(d)]
      BY <2>1, <3>1 DEF Restored
    <3>3. CASE DidKey(d) = K
      <4>1. Prior(c, u.id) = c[K]
        BY <2>1, <3>3 DEF Prior
      <4>2. m[DidKey(d)] = new
        BY <1>1, <1>2, <3>3
      <4> QED BY <1>3, <2>1, <3>2, <3>3, <4>1, <4>2
    <3>4. CASE DidKey(d) # K
      <4>1. ~(Migrates(c, u.id) /\ DidKey(d) = D)
        <5> SUFFICES ASSUME Migrates(c, u.id), DidKey(d) = D PROVE FALSE
          OBVIOUS
        <5>1. d.did = u.id.did
          BY DEF DidKey
        <5>2. u.id.mac = d.mac
          BY <1>5, <1>6, <2>1, <5>1 DEF Matches
        <5> QED BY <2>2, <2>4, <5>2 DEF Key, MacKey
      <4>2. m[DidKey(d)] = c[DidKey(d)]
        BY <1>1, <1>2, <2>1, <3>4, <4>1
      <4> QED BY <2>1, <3>2, <4>2
    <3> QED BY <3>3, <3>4
  <2> QED BY <2>3, <2>4
<1> QED BY <1>7, <1>8

-----------------------------------------------------------------------------
(* The invariant                                                             *)

LEMMA InitCacheInv == Init => CacheInv
<1> SUFFICES ASSUME Init PROVE CacheInv
  OBVIOUS
<1>1. cache \in Cache /\ disk \in Cache
  BY DEF Init, EmptyCache, Cache
<1>2. shown \in [devices -> Reading]
  BY AbsentIsNoReading DEF Init
<1>3. initial \subseteq Identities /\ dirty \in BOOLEAN
  BY Zenon DEF Init
<1>4. reports \in 0..MaxReports /\ restarts \in 0..MaxRestarts
  BY MeasurementsAssumption DEF Init
<1>5. TypeOK
  BY <1>1, <1>2, <1>3, <1>4 DEF Init, TypeOK
<1>6. \A k \in Keys : cache[k] = Absent /\ disk[k] = Absent
  BY DEF Init, EmptyCache
<1>7. ASSUME NEW d \in devices PROVE CacheIsShown(d)
  <2>1. Restored(cache, d) = Empty
    BY <1>5, <1>6, DevicesAreNamed, KeysOfNamed DEF Restored
  <2> QED BY <1>7, <2>1 DEF Init, CacheIsShown, Idle
<1> QED BY <1>5, <1>6, <1>7 DEF CacheInv, KeysOfReports, UnsavedOnlyAfterFailure, Init

(* What a merge and its save, which may fail, do to the cache and the file.  *)
LEMMA MergeAndSaveCache ==
  ASSUME TypeOK, KeysOfReports, UnsavedOnlyAfterFailure, NEW u \in Update, MergeAndSave(u)
  PROVE  /\ cache' = Merged(cache, u)
         /\ cache' \in Cache /\ disk' \in Cache /\ dirty' \in BOOLEAN
         /\ UnsavedOnlyAfterFailure'
         /\ KeysOfReports'
<1>1. cache' = Merged(cache, u) /\ cache' \in Cache /\ cache \in Cache /\ disk \in Cache
  BY MergedIsCache DEF MergeAndSave, TypeOK
<1>2. \/ disk' = cache' /\ dirty' = FALSE
      \/ disk' = disk /\ dirty' = TRUE
      \/ disk' = disk /\ dirty' = dirty /\ cache' = cache
  <2>1. CASE Changed(cache, u)
    BY <2>1 DEF MergeAndSave, Save
  <2>2. CASE ~Changed(cache, u)
    BY <2>2, UnchangedCache DEF MergeAndSave
  <2> QED BY <2>1, <2>2
<1>3. disk' \in Cache /\ dirty' \in BOOLEAN
  <2>1. disk' \in Cache
    BY <1>1, <1>2
  <2>2. dirty' \in BOOLEAN
    BY <1>2, Zenon DEF TypeOK
  <2> QED BY <2>1, <2>2
<1>4. UnsavedOnlyAfterFailure'
  BY <1>2 DEF UnsavedOnlyAfterFailure
<1>5. KeysOfReports'
  <2>1. u.id \in Identities
    BY UpdateParts
  <2>2. \A k \in Keys : cache'[k] # Absent => cache[k] # Absent \/ k = Key(u.id)
    BY <1>1, MergedIsCache
  <2>3. \A k \in Keys : disk'[k] # Absent => disk[k] # Absent \/ cache'[k] # Absent
    BY <1>2
  <2> QED BY <2>1, <2>2, <2>3 DEF KeysOfReports
<1> QED BY <1>1, <1>3, <1>4, <1>5

LEMMA ShowIsReading ==
  ASSUME TypeOK, NEW u \in Update, Show(u), UNCHANGED devices
  PROVE  /\ shown' \in [devices' -> Reading]
         /\ \A d \in devices : shown'[d] = After(d, shown[d], u)
<1>1. \A d \in devices : After(d, shown[d], u) \in Reading
  BY UpdateParts, OverwriteIsReading DEF After, TypeOK
<1>2. shown' = [d \in devices |-> After(d, shown[d], u)]
  BY DEF Show
<1> QED BY <1>1, <1>2

(* The merge of a report of a device with one name follows its Apply.        *)
LEMMA MergeShows ==
  ASSUME CacheInv, NEW u \in Update, NEW d \in devices, OneName(d)
  PROVE  Restored(Merged(cache, u), d) = After(d, Restored(cache, d), u)
<1>1. TypeOK /\ cache \in Cache
  BY DEF CacheInv, TypeOK
<1>2. \A k \in Keys : cache[k] # Absent => \E id \in Identities : Key(id) = k
  BY DEF CacheInv, KeysOfReports
<1> QED BY <1>1, <1>2, MergeFollowsApply

LEMMA NextCacheInv == CacheInv /\ [Next]_vars => CacheInv'
<1> SUFFICES ASSUME CacheInv, [Next]_vars PROVE CacheInv'
  OBVIOUS
<1>0. /\ TypeOK /\ KeysOfReports /\ UnsavedOnlyAfterFailure
      /\ \A d \in devices : OneName(d) => CacheIsShown(d)
  BY DEF CacheInv
<1>1. ASSUME NEW u \in Update, Persist(u) PROVE CacheInv'
  <2>1. /\ Idle /\ MergeAndSave(u) /\ pending' = u
        /\ reports < MaxReports /\ reports' = reports + 1
        /\ UNCHANGED <<devices, shown, unsaved, initial, restarts>>
    BY <1>1 DEF Persist
  <2>2. /\ cache' = Merged(cache, u)
        /\ cache' \in Cache /\ disk' \in Cache /\ dirty' \in BOOLEAN
        /\ UnsavedOnlyAfterFailure' /\ KeysOfReports'
    BY <1>0, <2>1, MergeAndSaveCache
  <2>3. reports' \in 0..MaxReports
    BY <1>0, <2>1, MeasurementsAssumption DEF TypeOK
  <2>4. TypeOK'
    BY <1>0, <2>1, <2>2, <2>3 DEF TypeOK
  <2>5. ASSUME NEW d \in devices, OneName(d) PROVE CacheIsShown(d)'
    <3>1. Restored(cache', d) = After(d, Restored(cache, d), u)
      BY <2>2, <2>5, MergeShows
    <3>2. Restored(cache, d) = shown[d]
      BY <1>0, <2>1, <2>5 DEF CacheIsShown
    <3> QED BY <2>1, <3>1, <3>2, NoneIsNoUpdate DEF CacheIsShown, Idle, After, Chosen
  <2> QED BY <2>1, <2>2, <2>4, <2>5 DEF CacheInv, OneName
<1>2. ASSUME NEW u \in Update, ApplyInitial(u) PROVE CacheInv'
  <2>1. /\ Idle /\ Show(u) /\ unsaved' = u
        /\ reports < MaxReports /\ reports' = reports + 1
        /\ initial' \subseteq initial
        /\ UNCHANGED <<devices, cache, disk, pending, dirty, restarts>>
    BY <1>2 DEF ApplyInitial
  <2>2. /\ shown' \in [devices' -> Reading]
        /\ \A d \in devices : shown'[d] = After(d, shown[d], u)
    BY <1>0, <2>1, ShowIsReading
  <2>3. reports' \in 0..MaxReports
    BY <1>0, <2>1, MeasurementsAssumption DEF TypeOK
  <2>4. TypeOK'
    BY <1>0, <2>1, <2>2, <2>3 DEF TypeOK
  <2>5. ASSUME NEW d \in devices, OneName(d) PROVE CacheIsShown(d)'
    <3>1. Restored(cache, d) = shown[d]
      BY <1>0, <2>1, <2>5 DEF CacheIsShown
    <3> QED BY <2>1, <2>2, <3>1, NoneIsNoUpdate DEF CacheIsShown, Idle, After, Chosen
  <2> QED BY <1>0, <2>1, <2>4, <2>5 DEF CacheInv, KeysOfReports, UnsavedOnlyAfterFailure,
                                          OneName
<1>3. CASE ApplyPending
  <2>1. /\ pending # None /\ pending \in Update /\ Show(pending) /\ pending' = None
        /\ UNCHANGED <<devices, cache, disk, unsaved, initial, dirty, reports, restarts>>
    BY <1>0, <1>3 DEF ApplyPending, TypeOK
  <2>2. /\ shown' \in [devices' -> Reading]
        /\ \A d \in devices : shown'[d] = After(d, shown[d], pending)
    BY <1>0, <2>1, ShowIsReading
  <2>3. TypeOK'
    BY <1>0, <2>1, <2>2 DEF TypeOK
  <2>4. ASSUME NEW d \in devices, OneName(d) PROVE CacheIsShown(d)'
    BY <1>0, <2>1, <2>2, <2>4 DEF CacheIsShown, Idle, After, Chosen
  <2> QED BY <1>0, <2>1, <2>3, <2>4 DEF CacheInv, KeysOfReports, UnsavedOnlyAfterFailure,
                                          OneName
<1>4. CASE PersistInitial
  <2>1. /\ unsaved # None /\ unsaved \in Update /\ MergeAndSave(unsaved) /\ unsaved' = None
        /\ UNCHANGED <<devices, pending, initial, shown, reports, restarts>>
    BY <1>0, <1>4 DEF PersistInitial, TypeOK
  <2>2. /\ cache' = Merged(cache, unsaved)
        /\ cache' \in Cache /\ disk' \in Cache /\ dirty' \in BOOLEAN
        /\ UnsavedOnlyAfterFailure' /\ KeysOfReports'
    BY <1>0, <2>1, MergeAndSaveCache
  <2>3. TypeOK'
    BY <1>0, <2>1, <2>2 DEF TypeOK
  <2>4. ASSUME NEW d \in devices, OneName(d) PROVE CacheIsShown(d)'
    <3>1. Restored(cache', d) = After(d, Restored(cache, d), unsaved)
      BY <2>1, <2>2, <2>4, MergeShows
    <3> QED BY <1>0, <2>1, <2>4, <3>1 DEF CacheIsShown, Idle, After, Chosen
  <2> QED BY <2>1, <2>2, <2>3, <2>4 DEF CacheInv, OneName
<1>5. ASSUME NEW readable \in BOOLEAN, Restart(readable) PROVE CacheInv'
  <2>1. /\ restarts < MaxRestarts /\ restarts' = restarts + 1
        /\ cache' = IF readable THEN disk ELSE EmptyCache
        /\ dirty' = ~readable
        /\ devices' \in Installations /\ initial' \subseteq Identities
        /\ shown' = [d \in devices' |-> Restored(cache', d)]
        /\ pending' = None /\ unsaved' = None
        /\ UNCHANGED <<disk, reports>>
    BY <1>5 DEF Restart
  <2>2. cache' \in Cache /\ disk \in Cache
    BY <1>0, <2>1 DEF TypeOK, EmptyCache, Cache
  <2>3. \A d \in devices' : Restored(cache', d) \in Reading
    BY <2>1, <2>2, RestoredIsReading DEF Named
  <2>4. restarts' \in 0..MaxRestarts
    BY <1>0, <2>1, MeasurementsAssumption DEF TypeOK
  <2>5. dirty' \in BOOLEAN
    BY <2>1, Zenon
  <2>6. TypeOK'
    BY <1>0, <2>1, <2>2, <2>3, <2>4, <2>5 DEF TypeOK
  <2>7. KeysOfReports'
    <3>1. \A k \in Keys : cache'[k] # Absent => disk[k] # Absent
      BY <2>1 DEF EmptyCache
    <3> QED BY <1>0, <2>1, <3>1 DEF KeysOfReports
  <2>8. UnsavedOnlyAfterFailure'
    BY <2>1 DEF UnsavedOnlyAfterFailure
  <2>9. \A d \in devices' : CacheIsShown(d)'
    BY <2>1 DEF CacheIsShown
  <2> QED BY <2>6, <2>7, <2>8, <2>9 DEF CacheInv
<1>6. CASE UNCHANGED vars
  BY <1>0, <1>6 DEF vars, CacheInv, TypeOK, KeysOfReports, UnsavedOnlyAfterFailure,
                    CacheIsShown, Idle, OneName, After, Chosen
<1> QED BY <1>1, <1>2, <1>3, <1>4, <1>5, <1>6 DEF Next

-----------------------------------------------------------------------------
(* Theorems *)

(* The types, the keys of the entries, when memory and file may differ, and  *)
(* that Merge and Apply, on either side of a restart, agree about a device   *)
(* that has one name.                                                        *)
THEOREM CacheCorrect == Spec => []CacheInv
<1> QED BY InitCacheInv, NextCacheInv, PTL DEF Spec

(* No change of the cache is left out of the file but by a Save that failed. *)
THEOREM SavedUnlessFailed == Spec => []UnsavedOnlyAfterFailure
<1>1. CacheInv => UnsavedOnlyAfterFailure
  BY DEF CacheInv
<1> QED BY <1>1, CacheCorrect, PTL

(* A restart restores what HomeKit shows of every device with one name.      *)
THEOREM ShownSurvives == Spec => []ShownIsRestorable
<1>1. ASSUME CacheInv PROVE ShownIsRestorable
  <2> SUFFICES ASSUME NEW d \in devices, OneName(d), Idle, ~dirty
               PROVE  Restored(disk, d) = shown[d]
    BY DEF ShownIsRestorable, RestoresShown
  <2>1. cache = disk
    BY <1>1 DEF CacheInv, UnsavedOnlyAfterFailure
  <2> QED BY <1>1, <2>1 DEF CacheInv, CacheIsShown
<1> QED BY <1>1, CacheCorrect, PTL

(* While the bridge runs, no value of a device is forgotten, whichever of    *)
(* its two addresses its reports carry, in whatever order.                   *)
THEOREM ValuesAreKept == Spec => NothingForgotten
<1> DEFINE Merging == (\E u \in Update : Persist(u)) \/ PersistInitial
           AllKept == \A d \in devices : NamedAlike(d) => Kept(d)
<1>1. ASSUME CacheInv, Merging PROVE AllKept
  <2>1. PICK u \in Update : cache' = Merged(cache, u)
    BY <1>1 DEF CacheInv, TypeOK, Persist, PersistInitial, MergeAndSave
  <2> SUFFICES ASSUME NEW d \in devices, NamedAlike(d),
                      NEW f \in Fields, Restored(cache, d)[f] # None
               PROVE  Restored(cache', d)[f] # None
    BY DEF Kept
  <2>2. cache \in Cache /\ d \in Named
    BY <1>1, DevicesAreNamed DEF CacheInv, TypeOK
  <2> QED BY <2>1, <2>2, MergeKeeps
<1>2. CacheInv => [Merging => AllKept]_vars
  BY <1>1
<1> QED BY <1>2, CacheCorrect, PTL DEF NothingForgotten
=============================================================================
