# TLA+ models of mgl03-homekit-bridge

The bridge runs on a Xiaomi MGL03 gateway. It subscribes to the gateway's local
MQTT broker, decodes the reports of Bluetooth devices that `openmiio_agent`
publishes there, and shows the devices to Apple Home. This directory holds TLA+
modules of its parts, TLC configurations that check them on small instances, and
theorems about them that the TLA+ proof system has checked for every value of
the constants.

Contents: [1 the system](#1-the-system), [2 the modules](#2-the-modules),
[3 the runs](#3-the-runs), [4 what the runs disagree with](#4-where-code-and-documents-disagree),
[5 the proofs](#5-the-proofs), [6 what is left out](#6-what-is-not-modelled),
[7 the plan](#7-the-plan), [8 how to run it](#8-how-to-run-it).

## 1 The system

### 1.1 Goroutines and the data between them

```
 device --radio--> openmiio_agent --MQTT broker--> mqttmini.Client.Run     (MQTT goroutine)
                                                       | Parse, select: queue of 128, or dropped
                                                       v
                            discoverDevices  <---- updates ---->  processUpdates
                            (main goroutine,                      (update goroutine, after it)
                             before the server)                     |Classify -> Merge, Save -> Apply
                                   |                                v
                              devices.json                   accessories --> HAP server
                                                             (watchdog callbacks of time.AfterFunc)
```

* The *MQTT goroutine* parses each payload and offers each report to the channel
  `updates`; it never blocks on a full channel but drops the report.
* The *main goroutine* merges configuration and registry, may read the channel
  itself to discover devices, saves the registry, makes the accessories, starts
  the update goroutine and serves HomeKit until a signal comes.
* The *update goroutine* applies the reports that the discovery collected, then
  those of the channel.
* The *callbacks* of `time.AfterFunc` end a brushing session that fell silent;
  they share a mutex with `Apply` and `Close`.

### 1.2 Components

| Component | State | Operations | What makes it correct |
| --- | --- | --- | --- |
| Toothbrush accessory, `bridge/toothbrush.go` | session (active, start, last activity), newest completion, watchdog timer and generation | `Apply`, `expireWatchdog`, `Close` | motion agrees with the session; an open accessory in motion is guarded by a timer or callback; a callback that lost the race does nothing |
| Deduplicator, `openmiio/deduplicator.go` | per device the counter and time accepted last | `Classify`, `Accept` | no frame twice or after a newer one; no device silenced for good |
| Measurement cache, `measurements/state.go` | readings by MAC or DID, `measurements.json` | `Merge`, `Restore`, `Save`, `Load` | a restart restores what was shown of an accessory with one name; nothing is forgotten |
| Configuration, `config/config.go` | `config.json` with its PIN | `LoadOrCreate`, `NormalizeAndValidate` | what is refused changes nothing; the PIN HomeKit was paired with is in the file |
| Discovery and registry, `main.go`, `registry/registry.go` | `devices.json`, accessories with their accessory IDs (AIDs) | `mergeDevices`, `prepareDevices`, `discoverDevices`, auto-enrolment, `Save`, `Load` | AIDs are unique and stay with their device; one accessory per device; nothing leaves the registry; a restart runs as before |
| Runtime, `main.go` | the channel, what the discovery collected, the stages of the goroutines | the MQTT callback, `discoverDevices`, `processUpdates`, start and shutdown | of the accepted frames the discovery loses only those that it replaces by newer ones; the others are applied in order; what is shown is on record; a signal ends it |
| MQTT client, `mqttmini/client.go` | connection, deadline, awaited ping, backoff | `Run`, `serve` | a dead connection is left and a live one is not; it reconnects with growing waits; a signal ends it |
| Parser, decoders, products, `openmiio` | what the loop has stored so far | `Parse` and the decoders | a report carries the latest valid value of each field; a wrong BLE event is lost alone, a wrong MIoT property with its whole message |
| Climate sensor, `bridge/sensor.go` | three characteristics | `Apply` | shows each value of a report |
| Start and stop, `scripts/start.sh`, `stop.sh`, `openmiio-start.sh`, `startup.sh` | processes, PID file, `openmiio_agent` | start, stop, boot hook | one bridge, which the PID file names; a start that reports success leaves one |
| Installer, `scripts/install-on-device.sh` | the installed files, their backups, a journal | replace, roll back, discard; calls the scripts | every file new or everything as before; the bridge that runs is the installed one |
| mDNS (`third_party/dnssd`, vendored), HAP library (external) | records, pairings | announce, serve | not of this program |

### 1.3 What is hard to test

`PROJECT.json` lists every hazard at its line. The main ones:

* *interleaving*: a watchdog callback that has started cannot be stopped any
  more and waits for the mutex while a heartbeat or an end is handled; two
  goroutines read one channel after each other, and the first only collects;
* *delivery*: a frame comes on up to three topics, late, out of order or not at
  all; the 8-bit counter wraps; a rebooted device starts over;
* *time*: event timestamps, gateway time and the wall clock are all unreliable;
  keep-alive, ping, backoff and connection loss race each other;
* *failure*: saves fail, the process ends anywhere, files cannot be read;
* *shells*: the boot hook, a user and the installer run the same scripts around
  one PID file, whose number outlives its process;
* *long histories*: accessory IDs must survive collisions of hashes, discovery,
  enrolment, and edits of the configuration between starts.

## 2 The modules

Times are in abstract units. Names follow the source; a definition's lines are
in the `map` of `PROJECT.json`. Definitions marked "Mutant" are deliberately
wrong variants of another one: substituting one shows that a property
detects that mistake. They take no part in any specification.

### Toothbrush, BrushingActivity

`Toothbrush` has one action `Apply(u, wall)` for the whole handler: the battery
first, then by event type and liveness one of four disjuncts, `ApplyNoEvent`,
`ApplyStart`, `ApplyLiveEnd` and `ApplyHistoricalEnd`. `ArmWatchdog` and
`StopWatchdog` are the `...Locked` functions. The Go runtime is explicit:
`armed` holds the timers that `Stop` can still cancel, `TimerFires` moves a due
one into `callbacks`, the goroutines that only wait for `t.mu`, and
`ExpireWatchdog` is the callback's body. `Close` may come between any two of
them, and reports after it. `clock` is the monotonic clock; event, gateway and
wall times are inputs unrelated to it.

`BrushingActivity` is what the accessory promises HomeKit: a motion sensor that
goes on with a live start, off with an end, and off by itself only after
`Watchdog` seconds without a start, which it then must do. `Toothbrush`
implements it under the mapping `silence <- clock - lastActivity`,
`open <- ~closed`; the counter `events` separates an end that was received from
a timeout.

### Deduplicator

`Classify`, with its byte of counter at full width, 256, between an environment
of devices that number frames (`Send`, with `Gaps` for lost frames), restart
(`Reboot`), and copies on several topics that are delivered in any order or
lost. A frame's number is unbounded in the model; the radio carries it modulo
256. Assumptions about the environment, each in a guard: copies are under way
for at most `MaxDelay < ResetAfter`, fewer than 128 numbers of a device are
under way at a time, and a reboot takes longer than a copy is under way.

### OpenmiioParser

One message at a time: the loop over the events of a BLE frame or the
properties of a MIoT message, an item a step. `Skip` is an item that the
product's decoder does not know, `Store` a valid value, `Reject` one that is
malformed or out of range, `Return` what follows the loop. Numbers are in
hundredths, so that the rounding to tenths or whole percents, which comes
before the range check, is what the code does; hex, JSON and the bits of floats
are values or `Malformed`.

### Measurements

`Merge` (`Merged`, `Changed`, with the move of a reading from the DID to the
MAC), `Restore`, `Save` and `Load` as the update goroutine uses them. An
accepted report is merged and then applied (`Persist`, `ApplyPending`); those
that the discovery kept (`initial`, which `Collects` relates to the devices it
made) are applied and then merged before that (`ApplyInitial`,
`PersistInitial`). A report may measure nothing, like a brush's event or one that
could not be decoded, and still move an entry. A restart may come between any two
steps, with other accessories after an edit, an enrolment or a discovery; saves
may fail and the file may be unreadable. `After` is the `Apply` of the accessory
that is `Chosen`, the first that matches in the order of the keys (`Rank`); it
stands for the climate sensor too.

A device has two addresses, and reports and configuration may use different
ones. The properties say what holds of which: `NothingForgotten` of a device
whose reports with a MAC carry the addresses that the configuration has of it
(`NamedAlike`), `ShownIsRestorable` of one of which every report is stored under
the key that the configuration gives it and matches no other accessory
(`OneName`). A report that matches two accessories is merged once and shown by the
first alone, so the second shows less than a restart restores.

### DeviceRegistry

`MergeDevices`, `FreeAID` and `PrepareDevices` are the pure functions of
`main.go`, each loop a recursive function of the number of its iterations;
`Valid`, `Normalized` and
`LoadOrCreate` are those of `config.go`. `Start` loads the configuration, or
creates it with a random PIN, and either exposes the devices or begins the
discovery; `StartFails` is a configuration that is refused or a file that cannot
be read or written; `Discover` and `WindowEnds` are `discoverDevices`; `Enroll`
is the auto-enrolment of `processUpdates`; `Stop` is a shutdown or crash; `Edit`
is the user, who edits or removes `config.json` between two runs. Saves may
fail. `Sorted` leaves open in which order `sort.Slice` puts devices of one key.
The hash behind a default AID is a constant, `DefaultAID`, that the instance
makes collide. Names are left out, product and model are one field,
and the settings that the devices do not depend on are in their ranges or not.

The code knows a device by its MAC or its DID, and a configuration may leave it
open which device it names. So the properties say of which devices they speak:
`AIDsUnique` and `RegistryInv` of all; `OneAccessoryEach`, `RegistryKeeps` and
`EnrolledIsExposed` of one that no configuration leaves in doubt
(`Unambiguous`); `UndisputedAIDStable` of one that, besides, is always named with
its MAC and never given an AID, and to whose default AID no search from another
device's AID leads (`Undisputed`). The code checks neither. With hashes of 31
bits nearly every device is undisputed.

### BridgeRuntime

The composition: the channel with its capacity, the three goroutines' stages,
and per device the frame accepted last, the one the discovery keeps and those
that were applied. Two history variables, `accepted` and `collected`, remember
every frame that the deduplicator accepted. Each part is replaced by what the
pipeline depends on:

* frames have numbers without the wrap, newer, equal or older: this is what
  `Deduplicator!NoReplay` provides;
* a brush's motion goes on and off with live starts and ends, and
  `WatchdogExpires` may end it whenever it is on: `Toothbrush` with its timer;
* the registry is a set of devices (`enrolled`), beside those that the
  configuration knows completely (`fixed`) and the list of the run (`listed`):
  a configured device need not be in the file, and `Start` writes the file only
  when the list has changed. `DeviceRegistry` has the lists and AIDs;
* reports without a counter (MIoT) pass the pipeline as accepted ones do, and
  are in `Measurements`.

`Receive` is the MQTT callback that `MqttClient` calls its handler. With the
signal the select of that callback may drop what it could have queued, and the
select of the update goroutine may take more reports before it returns: both
are choices in the model.

### MqttClient

One goroutine; each step is one blocking call with what follows it up to the
next: the dial, the read of CONNACK (without a deadline), the reads of the loop
(with one), the wait between attempts. The end of the context reaches each wait
in its own way: `DialAborted` is the error of `DialContext`, `WaitAborted` the
select of the backoff, and a read ends only when `CloseWithContext`, the
goroutine of `context.AfterFunc`, has closed the connection (`closed`) and the
read has failed (`ConnectionFails`). No time passes between the signal and
these. The broker is the environment: it answers in order and within `MaxReply`
while it is responsive, and it may publish, close a connection that broke the
keep-alive time, restart, send what the client rejects, hang with the connection
open, and recover. Assumptions: packets arrive whole, and the client runs before
time passes when it can.

### Launcher, Installer

`Launcher` has the processes of the gateway by PID, `bridge.pid`, the agent, and
any number of shells that run `start.sh`, `stop.sh`, `openmiio-start.sh` or the
boot hook, a command at a time. A bridge, the agent or another process may end
at any point and its PID go to another; a power loss empties the process table
and may empty a file that was just written. A bridge that ends while the shell
that launched it waits stays in the table with its exit status. Assumptions: a
PID is not given away while a shell knows it, which is for seconds; a program
that is not the bridge does not have its command line. `WritePid` may fail on a
full disk, which start.sh does not check; the history variable `disturbed` says
that this has happened, or that two scripts have run at once, since the boot.

`Installer` EXTENDS it with `install-on-device.sh`: the staged files replace the
installed ones one by one (`BackUp`, `Move`), each in the journal before it is in
place; then the agent and the bridge are started; what fails leads to `Restore`,
and what succeeds to `Discard`. `Previous` is the mode that was installed, where
any unknown one counts as HomeKit mode. Its calls of the scripts are those of any
shell, and a user and the boot may run them at the same time. `Installer` implements
`LauncherSpec`, with the installer's changes as its `FilesChange`.

## 3 The runs

Every passing run explores its instance completely. `CHECK_DEADLOCK FALSE` is
set throughout because every instance ends: the process stops, or a bounded
counter (clock, frames, starts, reports, faults) is used up.

| Run | Shows |
| --- | --- |
| `toothbrush` | the session, the timers and the characteristic fit together in every interleaving; the accessory implements `BrushingActivity`, safety and liveness |
| `dedup_order` | no frame twice or after a newer one, no device silenced, over wrap, loss, late copies and reboots |
| `parser` | reports are complete, rounded and in range; a wrong event is lost alone, a MIoT message as a whole |
| `measurements` | restarts restore what was shown by every accessory that is always reported under its one name, in reports that match no other; nothing is forgotten, and left unsaved only by a save that failed |
| `registry` | a restart without an edit has the same PIN, mode, accessories and AIDs; AIDs unique, one accessory per device, nothing leaves the registry, the enrolled are exposed, an undisputed AID is stable through edits too |
| `runtime` | of the accepted frames only those are lost that the discovery replaced by newer ones, the others are applied in order; late copies bring no motion back; what is shown is known to the configuration or saved; a signal ends the bridge |
| `mqtt` | silent broker left, live broker kept, waits grow, the client subscribes again, a signal ends it in whichever wait it is |
| `installer` | at most one bridge, which `stop.sh` finds, and a start that succeeds leaves one, while scripts run one at a time and can write the PID file; an installation is done or undone; what runs is what is installed |
| four `violation` runs | section 4 |

Each run checks one invariant that includes the module's types. Those of
`Toothbrush`, `Deduplicator`, `Measurements`, `BridgeRuntime` and `MqttClient` are
the inductive ones of the proofs (`WatchdogInv`, `OrderInv`, `CacheInv`,
`PipelineInv`, `ClientInv`). Those of `OpenmiioParser`, `Launcher`, `Installer`
(with `Restarting`) and `DeviceRegistry` (`DeviceInv`) have been checked on the
same instances before they were proved.

### Bounds, and why they are enough

* `toothbrush`: the live window is 1, the watchdog 2, the longest session 3
  seconds, so that all three limits are crossed in both directions by
  timestamps 0, 1, 3, 6 and receive times 2, 3, 6. Four generations allow a
  start, a heartbeat, an end and a start, each with its own callback late.
  `Horizon` leaves the last watchdog time to expire; reports stop before it so
  that liveness is about the watchdog and not about the bound.
* `dedup_order`: one device, since `frames` has no relation between devices;
  three frames on two topics, from counters before the wrap, with advances of 1
  and 127, the two ends of what is newer. `ResetAfter` 3 against `MaxDelay` 1
  keeps the ratio that matters: a copy cannot outlive a baseline.
* `parser`: messages of up to three items, which allows a wrong value before,
  between and after right ones of the same and of other fields and devices; the
  values are those around each limit, that rounding takes over it or back.
* `measurements`: three devices, one reported in two ways, one with a DID only,
  one in one way; installations that name them as a discovery does, by one of two
  addresses, or one of them twice so that a report matches two accessories, of
  which the one known by its DID comes first; each restart has any of these.
  Three reports, two values (with symmetry, as they are only compared) and two
  fields, as a field that a report does not carry is the interesting case; two
  restarts.
* `registry`: three devices; AIDs wrap after 20, which leaves room for as many
  as can be needed. Two MACs share a default AID beyond the limit, all DIDs
  share one, the configurations take AIDs in their way and name an unsupported
  product; the third device is undisputed. Three starts allow enrol, expose,
  edit. The files include none, old ones without a mode, and one for each reason
  to refuse it. `NoDoubt`, an assumption that TLC evaluates, says that no device
  of the instances is ambiguous: see section 6.
* `runtime`: a brush and a sensor, two frames each, a queue of two, so that it
  is full with another report under way and both devices can be in it; every
  mode, with no device known at the start or with the brush, which the
  configuration, the registry, both or neither knows completely.
* `mqtt`: a unit is 10 seconds: read timeout 3, keep-alive 6, a broker's limit
  9, long session 6; the backoff limit of 3 is crossed from 2 to 4 as in the
  code from 16 to 32 seconds. Three faults of any kind.
* `installer`: two PIDs, so that a bridge, a second one and another process
  compete for them (with symmetry, as PIDs are only compared); the shells of the
  boot, a user and the installer; one installation in either mode over four
  earlier ones, one with an unknown mode and one that was cut off with a backup
  in the way; manifests of
  two files, so that a failure comes before, between and after replacements; one
  power loss or crash of the agent and one call of a user.

### Fairness

* `Toothbrush`: weak fairness of the clock, of due timers and of callbacks that
  wait for the mutex. The Go runtime provides it, as `Apply` and `Close` hold
  the mutex for a moment only. Nothing obliges a brush to send.
* `BridgeRuntime`: the main goroutine's steps after the signal: the discovery's
  select sees the context, `ListenAndServe` returns when its context is done
  (the HAP library's promise), and main returns. No fairness of reports.
* `MqttClient`: the client's steps, the goroutine that closes the connection
  after the signal, and each of the other two ways to see it; time, and the
  answers and accepted dials of a broker while it is responsive. Nothing obliges
  a broker to recover, so `Resubscribes` has that alternative.

## 4 Where code and documents disagree

Each of these runs checks one sentence of the repository's own documents, and
TLC finds a short behaviour of the code that breaks it.

* `measurements_did` (`EveryShownIsRestorable`). PROTOCOL.en.md:86-89 says the
  last readings are restored. A device that the configuration names by its DID
  alone and that reports both addresses is stored under its MAC, where the
  restart does not look for it: nothing of it is restored. In the same way a
  MIoT value is stored under the DID although the device has an entry under its
  MAC, and the restart prefers the older entry.
* `registry_did` (`StableAID`). README.en.md:124-125 promises a stable AID from
  the MAC. Naming a discovered device by its DID in the configuration replaces
  its entry, and the AID is derived anew from the DID.
* `mqtt_keepalive` (`KeepAliveKept`). client.go:157 promises the broker a packet
  every 60 seconds. Pings follow from what is received, so a steady stream of
  messages keeps the client from sending anything; a broker may drop it after
  90 seconds. scripts/mqtt_ble_probe.py:145 pings by the time of the last
  packet sent.
* `installer_atomic` (`ReplacesAtomically`). INSTALL.en.md:61-63 says the
  installer "atomically replaces runtime files". It moves the old file away and
  then the new one in; a power loss between the two leaves no file, and the
  backup that remains makes every later installation of that file fail.

Three more sentences are not true of the code in corner cases; they follow from
reading it and have no run of their own:

* PROTOCOL.en.md:63-64 and CHANGELOG.en.md:86 say an end during a session takes
  effect at once. The start's own timestamp may be up to a minute ahead of the
  gateway; an end with a stale timestamp before that time is not honoured
  (toothbrush.go:106), and the motion stays until the watchdog. `Toothbrush`
  has this behaviour.
* PROTOCOL.en.md:80 lets a duplicate start refresh an active watchdog. One that
  comes after the watchdog ended the session, but within the live window, opens
  another. `BridgeRuntime` has this behaviour.
* ADDING-DEVICES.en.md:66-67 wants enrolment only after a valid decoded report.
  A report whose decoding failed is queued all the same (parser.go:98,
  main.go:66-73) and enrols its device. `OpenmiioParser` returns such reports.

## 5 The proofs

Proofs are in modules of their own and hold for every value of the constants
that satisfies the named assumption in the component's module. Each safety
theorem comes from an inductive invariant, which is also checked by TLC.

* `ToothbrushProofs` (`ToothbrushAssumption`). `WatchdogInv` adds to the
  properties why they are kept: an armed timer is of the current generation, of
  an active session, and due no earlier than its silence is long
  (`ArmedIsCurrent`); a waiting callback is of an earlier generation or finds
  the silence complete (`WaitingIsPast`). Neither `ActiveIsGuarded` nor
  `RearmNeverNeeded` is inductive without them: a callback of the current
  generation with a newer activity could re-arm or be ignored. From it follow
  `SessionCoherent`, `ActiveIsGuarded`, `NoOrphanTimer`, `RearmNeverNeeded`, and
  that every step is one of `BrushingActivity` or a stutter
  (`ImplementsActivitySafety`).
* `DeduplicatorProofs` (`DeduplicatorAssumption`, above all `MaxDelay <
  ResetAfter`). `OrderInv` says that the baseline is that of the frame accepted
  last and that copies under way which are not newer were sent before it was
  accepted. So, when the baseline is reset by silence, no old copy is left; and
  within fewer than 128 numbers the difference modulo 256 tells newer from
  older. `NoReplay` and `SuppressionBounded` follow.
* `OpenmiioParserProofs` (`ParserAssumption`). The invariant of the loop: what is
  stored so far is the latest and nearest value among the items seen, `order`
  lists each device once, and an error means that a wrong item was seen. Then,
  for messages of any length, `ReportsAreComplete`, `WrongEventIsAlone` and
  `MIoTIsWhole`.
* `MeasurementsProofs` (`MeasurementsAssumption`: an identity has an address, no
  two configured devices share one, and the order of the accessories is strict).
  `MergeFollowsApply` is the lemma about one report: for an accessory with one
  name, what is restored after `Merge` is what `Apply` makes of what was
  restored before; the migration from the DID cannot touch it, because entries
  have keys of reports (`KeysOfReports`), and it is the accessory that is
  chosen, because no other matches (`OnlyChosen`). Without that last hypothesis
  the statement is false of a report that matches two accessories. `CacheInv`
  carries this over the two orders of merging and applying, and over restarts;
  neither `ShownIsRestorable` nor the agreement of cache and accessory is
  inductive without the report that is under way. `NothingForgotten` follows
  from `MergeKeeps`, a case analysis of the two keys.
* `BridgeRuntimeProofs` (`RuntimeAssumption`). `PipelineInv` adds that nothing
  is applied before the handover, and that what the discovery keeps is the frame
  accepted last, of an exposed device to which nothing was applied
  (`NothingEarly`, `InitialIsLast`). Without that a kept report could be older
  than one already applied. `OnlyReplacedIsLost`, `MotionIsNewest` and
  `AppliedInOrder` follow, for any number of devices, capacity and frames.
  `OnlyReplacedIsLost` speaks of every accepted frame of an exposed device: it
  was applied, waits to be, or was replaced in `initial` by a newer one of the
  same discovery (main.go:288), which is a loss that the code has and the theorem
  names. `ShownIsRecorded` needs `UnsavedIsNoticed`: what neither the
  configuration nor the registry knows completely has made the list a changed
  one, and only a changed list is saved.
* `MqttClientProofs` (`ClientAssumption`, above all `MaxReply < ReadTimeout`).
  `ClientInv` accounts for the silence: while serving, silence plus the time left
  is one read timeout, or two when a ping is awaited; and for the answers: while
  the broker has not hung, what it owes it has owed at least as long as the
  deadline has run, so an answer comes before it (`AnswersInTime`).
  `SilenceNoticed`, `LeavesForCause` and `RetryPace` follow. For
  `LeavesForCause` a connection is closed under the client only after the signal
  (`ClosedBySignal`), when the client stops and does not wait for another.
* `InstallerProofs` (`LauncherAssumption`, `InstallerAssumption`), about both
  modules. `LauncherInv`: while since the boot no two scripts have run at once
  and the PID file could be written, the PID file is as the running script left
  it (`PidFileKept`), what it has launched is told to end by no other
  (`ChildRuns`), and what is ending is waited for or was given up
  (`SignalIsPending`). `OneBridge` alone is not inductive: a shell between the
  launch and the write of the PID file could launch a second bridge.
  `InstallInv`: each file of the journal is in a backup that was not there
  before, every other file is as before (`Undoable`), and the backups go only
  once every file is new (`Replacing`). `InstalledOrRestored` follows for every
  manifest and every earlier installation. `InstallerIsShell` shows that every
  step of `Installer` is one of `Launcher` or a stutter, so that what is proved
  of `Launcher`, `OneBridge` and `StartLeavesBridge`, holds of it.
  `RunsWhatIsInstalled` needs a third invariant, `Restarting`, on top of those
  two: while the installer runs undisturbed, no other script does; after it has
  stopped the bridge none is left until its own start; and what that start
  launches is the file that is there. The property is only about the time after
  the installer, so it is not inductive by itself.
* `DeviceRegistryProofs` (`RegistryAssumption`). First the loops. A recursive
  function is only the `CHOOSE` of its equation for the prover, and induction
  rules take an operator, so `Induction` is stated for a set of numbers, and
  `Iterates` derives from it that each loop's function exists and satisfies its
  equation. On them rest `MergeOK` (the merged list begins with the configured
  devices, has every saved one or one like it, and no saved one twice), `FreeOK`
  (some AID is free, the search finds it within as many steps as there are
  devices, wrap included, by the pigeonhole principle) and `PrepareOK`
  (prepared devices have one AID each, and a list with one AID each stays as it
  is). `DeviceInv` then explains why a restart finds the same AIDs, which
  `RestartIsAlike` alone does not: what is exposed is what the configuration by
  itself gives, which is prepared before all else, or is like no configured
  device and no other in the list, so that the merge keeps it (`Settled`).
  `RegistryInv` and `AIDsUnique` follow for every configuration and every
  collision. `OriginInv` adds that every saved device was configured or
  reported, and a running bridge has all of them; with it `Unambiguous` devices
  never leave the registry, never have two accessories and are exposed by the
  next start. `Stable` adds that the first entry of an undisputed device has its
  default AID and no entry of another has that (`Owned`), in memory and on
  disk, from which `UndisputedAIDStable` follows.

  `RegistryAssumption` says that there are fewer devices than AIDs, that a MAC is
  no DID (the code hashes them with different prefixes), that reports have a MAC,
  and that the configured addresses have a hash (config.go refuses others). The
  hypotheses of the properties are satisfiable: in the instance of `registry`
  every device is unambiguous, and one is undisputed.

Model-checked only: every liveness property (`GuardEnds`, `ImplementsActivity`,
`SignalEnds`, `Resubscribes`), because liveness under fairness is out of the
prover's reach. Every invariant and every other action property of a passing
run is a theorem. Assumed in the proofs and not shown: the environment
assumptions of section 2.

## 6 What is not modelled

* *Byte formats*: JSON, hex, floats, the MQTT encoding, the spelling of MACs and
  PINs. A payload that is no JSON gives an error and no report. A battery beyond
  the range of an integer is taken to be out of range.
* *A deadline in the middle of an MQTT packet* (client.go:101-115): `readPacket`
  then loses the bytes it has read and the stream is out of step. *A missing
  SUBACK* is not noticed by the client, and the model's broker always sends it.
* *CONNACK* has no deadline: against a broker that stays hung the client waits
  for ever. The model has this wait; no property forbids it, as nothing
  promises otherwise.
* *One device under two names.* When the registry knows a device
  by its DID alone and the configuration names it by its MAC alone, it gets two
  accessories, of which only one is ever fed. Nothing in the data tells that
  they are one device. `Measurements` has such pairs, and promises nothing of
  either. A configuration with two entries of one DID, one of them
  with a MAC, is accepted too (config.go:180-186). `Unambiguous`
  excludes both, and the instances of `DeviceRegistry` have neither.
* *A device with an unsupported product* is enrolled in every run again and
  never exposed. `EnrolledIsExposed` excludes it.
* *Power loss before the data of a rename is on disk* (registry.go:58): saves are
  atomic in `DeviceRegistry`; unreadable files are in `Measurements`.
* *Future completions*: a historical end with a future timestamp hides later
  scores (toothbrush.go:132). The model does this; scores are only logged.
* *Scripts*: two scripts that run at once, as the boot hook and a user might,
  can launch two bridges, and so can two in turn when the first could not write
  the PID file; the properties of `Launcher` exclude both from when they happen
  to the next boot. Two installers at once, a rollback that itself fails, and a
  journal entry lost on a full disk (install-on-device.sh:209, unchecked) are
  left out; the agent's program is taken to be installed with its script.
  cleanup.sh, the download, and the tools for the user's computer change nothing
  that the bridge depends on.
* *mDNS, HAP, build*: vendored, external, or no behaviour at run time; see
  `PROJECT.json`.

## 7 The plan

Written in this order, so that what the user sees comes first:

1. `BrushingActivity`, `Toothbrush`, `ToothbrushProofs`: done.
2. `Deduplicator`, `DeduplicatorProofs`: done.
3. `Measurements`, `MeasurementsProofs`, `DeviceRegistry` with the configuration:
   done, with `DeviceRegistryProofs`.
4. `BridgeRuntime`, `BridgeRuntimeProofs`, which composes the others: done for
   safety; `SignalEnds` is checked.
5. `MqttClient`, `MqttClientProofs`: done.
6. `OpenmiioParser`, `OpenmiioParserProofs`: done.
7. `Launcher`, `Installer`, `InstallerProofs`: done.

Next:

8. An abstract specification of the bridge as a whole, each device shown with
   the newest value accepted, implemented by `BridgeRuntime`.
9. A packet that arrives in parts, with the deadline between them, in
   `MqttClient`; a SUBACK that never comes.

## 8 How to run it

```
tlc -workers 2 -config Toothbrush.cfg MCToothbrush     # likewise each run of PROJECT.json
tlapm ToothbrushProofs.tla                             # likewise the other *Proofs modules
```
