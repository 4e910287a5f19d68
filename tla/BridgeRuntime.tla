----------------------------- MODULE BridgeRuntime -----------------------------
(***************************************************************************)
(* The goroutines of the bridge and the queue between them, main.go.       *)
(*                                                                         *)
(*   MQTT goroutine    parses a payload and offers its report to the queue *)
(*                     of 128; a report that finds the queue full is lost; *)
(*   main goroutine    may read the queue itself, to discover devices, and *)
(*                     then saves the registry and starts the updates;     *)
(*   update goroutine  applies what the discovery collected, then the      *)
(*                     reports of the queue.                               *)
(*                                                                         *)
(* The parts it calls are abstracted to what the pipeline depends on.      *)
(* Deduplicator: a frame is newer than, equal to or older than the one     *)
(* accepted last; the frames of a device are numbered without the wrap,    *)
(* which NoReplay of that module allows.  Toothbrush: the motion of a      *)
(* brush, which its watchdog may end whenever it is on.  DeviceRegistry:   *)
(* which devices the configuration and the registry know completely, with  *)
(* their accessory ID.  Measurements is not seen from here.                *)
(***************************************************************************)
EXTENDS Integers, Sequences, FiniteSets

CONSTANTS
  Devices,      \* supported devices in range, identified by their MAC
  Brushes,      \* those that are toothbrushes
  Installations,\* the sets of devices that configuration and registry list at the start
  Modes,        \* discovery.mode: "first", "auto" or "manual"
  Payloads,     \* what frames carry: "start", "end" or "values"
  Capacity,     \* 128
  MaxFrames     \* bound on the frames a device sends

ASSUME RuntimeAssumption ==
  /\ Brushes \subseteq Devices
  /\ Installations \subseteq SUBSET Devices
  /\ Modes \subseteq {"first", "auto", "manual"}
  /\ Payloads \subseteq {"start", "end", "values"}
  /\ Capacity \in Nat \ {0}
  /\ MaxFrames \in Nat

VARIABLES
  mode,       \* discovery.mode, which does not change while the bridge runs
  sent,       \* what the frames of each device carry, in the order of their numbers
  queue,      \* the channel updates
  stage,      \* where the main goroutine is
  worker,     \* where the update goroutine is
  cancelled,  \* ctx is done: a signal was received
  exposed,    \* the devices that have an accessory, or will have one
  listed,     \* the device list: exposed, and what was enrolled for the next start
  enrolled,   \* the devices that devices.json knows completely
  fixed,      \* the devices that the configuration knows completely
  changed,    \* migrated or discovered: the list differs from what was loaded
  baseline,   \* the number of the frame the deduplicator accepted last, 0 for none
  initial,    \* the frame discovery keeps of a device, 0 for none
  applied,    \* the frames that were applied to the accessory
  motion,     \* the brushes that HomeKit shows in motion
  accepted,   \* history: the frames the deduplicator accepted
  collected   \* history: those of them that the discovery took

registry == <<exposed, listed, enrolled, fixed, changed>>
frames == <<baseline, accepted, collected>>
shown == <<applied, motion>>
vars == <<mode, sent, queue, stage, worker, cancelled, registry, frames, initial, shown>>

-----------------------------------------------------------------------------
(* Data *)

(* A live start, a live end, or measurements: none if the decoder found an   *)
(* error, as the report is queued all the same.                              *)
Kinds(d) == IF d \in Brushes THEN Payloads ELSE Payloads \ {"start", "end"}

Report == [dev : Devices, frame : 1..MaxFrames]

Kind(r) == sent[r.dev][r.frame]

(* Deduplicator.Classify.                                                    *)
Accepted(r) == r.frame > baseline[r.dev]
Duplicate(r) == r.frame = baseline[r.dev]

(* It moves the baseline.                                                    *)
Accept(r) ==
  /\ baseline' = [baseline EXCEPT ![r.dev] = r.frame]
  /\ accepted' = [accepted EXCEPT ![r.dev] = @ \cup {r.frame}]

(* matchAccessory finds one.                                                 *)
HasAccessory(r) == r.dev \in exposed

(* Configuration and registry are merged and prepared.  A configured device  *)
(* need not be in devices.json; what lacks the accessory ID, the product or  *)
(* the model in both is completed, and then the list has changed.            *)
Init ==
  /\ mode \in Modes
  /\ sent = [d \in Devices |-> <<>>]
  /\ queue = <<>>
  /\ exposed \in Installations
  /\ listed = exposed
  /\ enrolled \in SUBSET exposed
  /\ fixed \in SUBSET exposed
  /\ changed \in IF exposed = {} THEN {FALSE} ELSE BOOLEAN
  /\ exposed \subseteq enrolled \cup fixed \/ changed
  /\ stage = IF exposed # {} \/ mode = "manual" THEN "starting" ELSE "discovering"
  /\ worker = "none"
  /\ cancelled = FALSE
  /\ baseline = [d \in Devices |-> 0]
  /\ initial = [d \in Devices |-> 0]
  /\ applied = [d \in Devices |-> {}]
  /\ motion = {}
  /\ accepted = [d \in Devices |-> {}]
  /\ collected = [d \in Devices |-> {}]

-----------------------------------------------------------------------------
(* The environment *)

(* A device sends its next frame.  It is published some time later, or never.*)
Send(d, kind) ==
  /\ Len(sent[d]) < MaxFrames
  /\ sent' = [sent EXCEPT ![d] = Append(@, kind)]
  /\ UNCHANGED <<mode, queue, stage, worker, cancelled, registry, frames, initial, shown>>

(* SIGINT or SIGTERM *)
Signal ==
  /\ ~cancelled /\ stage # "ended"
  /\ cancelled' = TRUE
  /\ UNCHANGED <<mode, sent, queue, stage, worker, registry, frames, initial, shown>>

-----------------------------------------------------------------------------
(* The MQTT goroutine *)

(* Mutant: nothing is ever dropped.                                           *)
ReceiveUnbounded(r) ==
  /\ stage # "ended"
  /\ r.frame <= Len(sent[r.dev])
  /\ Len(queue) <= Capacity /\ queue' = Append(queue, r)
  /\ UNCHANGED <<mode, sent, stage, worker, cancelled, registry, frames, initial, shown>>

(* The callback of mqtt.Run.  A frame comes on several topics, late and out  *)
(* of order.  The select drops it when the queue is full, and after the      *)
(* signal it may do so when the queue is not.                                *)
Receive(r) ==
  /\ stage # "ended"
  /\ r.frame <= Len(sent[r.dev])
  /\ \/ Len(queue) < Capacity /\ queue' = Append(queue, r)
     \/ (Len(queue) = Capacity \/ cancelled) /\ UNCHANGED queue
  /\ UNCHANGED <<mode, sent, stage, worker, cancelled, registry, frames, initial, shown>>

-----------------------------------------------------------------------------
(* The main goroutine *)

(* Mutant: the first report of a device is kept.                             *)
KeepFirst(r) ==
  initial' = [initial EXCEPT ![r.dev] = IF @ = 0 THEN r.frame ELSE @]

(* initial[key] = update: of each device the last report is kept.            *)
Keep(r) == initial' = [initial EXCEPT ![r.dev] = r.frame]

(* discoverDevices: a report of the queue.                                   *)
Discover ==
  LET r == Head(queue)
  IN /\ stage = "discovering" /\ queue # <<>>
     /\ queue' = Tail(queue)
     /\ IF Accepted(r)
        THEN /\ Accept(r)
             /\ collected' = [collected EXCEPT ![r.dev] = @ \cup {r.frame}]
             /\ Keep(r)
             /\ exposed' = exposed \cup {r.dev} /\ listed' = exposed'
             /\ changed' = TRUE
             /\ stage' = IF mode = "first" THEN "starting" ELSE stage
        ELSE UNCHANGED <<frames, initial, exposed, listed, changed, stage>>
     /\ UNCHANGED <<mode, sent, worker, cancelled, enrolled, fixed, shown>>

(* Mutant: the wait for a first device does not end with the signal.         *)
DiscoveryEndsByTimer ==
  /\ stage = "discovering"
  /\ exposed # {}
  /\ stage' = "starting"
  /\ UNCHANGED <<mode, sent, queue, worker, cancelled, registry, frames, initial, shown>>

(* discoverDevices: the window since the first device, or the signal.        *)
DiscoveryEnds ==
  /\ stage = "discovering"
  /\ exposed # {} \/ cancelled
  /\ stage' = "starting"
  /\ UNCHANGED <<mode, sent, queue, worker, cancelled, registry, frames, initial, shown>>

(* Mutant: a changed list is not saved.                                      *)
StartUnsaved ==
  /\ stage = "starting"
  /\ stage' = "serving" /\ worker' = "running"
  /\ UNCHANGED <<mode, sent, queue, cancelled, registry, frames, initial, shown>>

(* run, up to the server: a list that changed is saved, or main returns the  *)
(* error of the save; one that did not change is not written.                *)
Start ==
  /\ stage = "starting"
  /\ \/ /\ stage' = "serving" /\ worker' = "running"
        /\ enrolled' = IF changed THEN listed ELSE enrolled
     \/ /\ changed /\ stage' = "ended"
        /\ UNCHANGED <<enrolled, worker>>
  /\ UNCHANGED <<mode, sent, queue, cancelled, exposed, listed, fixed, changed, frames,
                 initial, shown>>

(* ListenAndServe returns after the signal, or with an error, as making the  *)
(* server may; then Close is called for each accessory.                      *)
Close ==
  /\ stage = "serving"
  /\ stage' = "closing"
  /\ UNCHANGED <<mode, sent, queue, worker, cancelled, registry, frames, initial, shown>>

(* main returns, whatever the other goroutines are doing.                    *)
Exit ==
  /\ stage = "closing"
  /\ stage' = "ended"
  /\ UNCHANGED <<mode, sent, queue, worker, cancelled, registry, frames, initial, shown>>

-----------------------------------------------------------------------------
(* The update goroutine *)

Working == worker = "running" /\ stage \in {"serving", "closing"}

(* Apply of the accessory, the T700i's motion included.                      *)
ApplyReport(r) ==
  /\ applied' = [applied EXCEPT ![r.dev] = @ \cup {r.frame}]
  /\ motion' = CASE Kind(r) = "start" -> motion \cup {r.dev}
                 [] Kind(r) = "end" -> motion \ {r.dev}
                 [] OTHER -> motion

(* processUpdates: the reports of the discovery, in the order of a map.      *)
ApplyInitial(d) ==
  /\ Working
  /\ initial[d] # 0
  /\ IF d \in exposed THEN ApplyReport([dev |-> d, frame |-> initial[d]])
     ELSE UNCHANGED <<applied, motion>>
  /\ initial' = [initial EXCEPT ![d] = 0]
  /\ UNCHANGED <<mode, sent, queue, stage, worker, cancelled, registry, frames>>

(* Mutant: an older start frame also refreshes.                              *)
RefreshesAny(r) == HasAccessory(r) /\ Kind(r) = "start"

(* An exact duplicate of the last frame, if it is a start.                   *)
Refreshes(r) == Duplicate(r) /\ HasAccessory(r) /\ Kind(r) = "start"

(* Mutant: the loop begins while the discovery's reports are being applied.  *)
InitialDoneEarly == TRUE
InitialDone == \A d \in Devices : initial[d] = 0

(* Auto-enrolment, once for each device and run: the list gets the device,   *)
(* the registry the whole list unless the save fails, and the running bridge *)
(* no accessory.  DeviceRegistry!Enroll has the details.                     *)
EnrolReport(r) ==
  IF mode = "auto" /\ r.dev \notin listed
  THEN /\ listed' = listed \cup {r.dev}
       /\ enrolled' = listed' \/ UNCHANGED enrolled
  ELSE UNCHANGED <<listed, enrolled>>

(* processUpdates: a report of the queue.                                    *)
Process ==
  LET r == Head(queue)
  IN /\ Working /\ InitialDone
     /\ queue # <<>>
     /\ queue' = Tail(queue)
     /\ IF Accepted(r)
        THEN /\ Accept(r)
             /\ IF HasAccessory(r) THEN ApplyReport(r) /\ UNCHANGED <<listed, enrolled>>
                ELSE EnrolReport(r) /\ UNCHANGED shown
        ELSE /\ IF Refreshes(r) THEN ApplyReport(r) ELSE UNCHANGED shown
             /\ UNCHANGED <<baseline, accepted, listed, enrolled>>
     /\ UNCHANGED <<mode, sent, stage, worker, cancelled, exposed, fixed, changed,
                    collected, initial>>

(* processUpdates returns after the signal; the select may still take        *)
(* reports before it notices.                                                *)
Return ==
  /\ Working /\ InitialDone
  /\ cancelled
  /\ worker' = "returned"
  /\ UNCHANGED <<mode, sent, queue, stage, cancelled, registry, frames, initial, shown>>

(* A brush was silent for as long as its watchdog is.                        *)
WatchdogExpires(d) ==
  /\ stage = "serving"
  /\ d \in motion
  /\ motion' = motion \ {d}
  /\ UNCHANGED <<mode, sent, queue, stage, worker, cancelled, registry,
                 frames, initial, applied>>

-----------------------------------------------------------------------------
Next ==
  \/ \E d \in Devices : \E kind \in Kinds(d) : Send(d, kind)
  \/ \E r \in Report : Receive(r)
  \/ \E d \in Devices : ApplyInitial(d) \/ WatchdogExpires(d)
  \/ Signal \/ Discover \/ DiscoveryEnds \/ Start \/ Close \/ Exit
  \/ Process \/ Return

Spec == Init /\ [][Next]_vars

(* The goroutines that can run do, and ListenAndServe returns after the      *)
(* signal.                                                                   *)
Fairness ==
  /\ WF_vars(cancelled /\ DiscoveryEnds)
  /\ WF_vars(Start)
  /\ WF_vars(cancelled /\ Close)
  /\ WF_vars(Exit)

FairSpec == Spec /\ Fairness

-----------------------------------------------------------------------------
(* Properties *)

TypeOK ==
  /\ mode \in Modes
  /\ sent \in [Devices -> Seq(Payloads)]
  /\ \A d \in Devices : sent[d] \in Seq(Kinds(d))
  /\ queue \in Seq(Report) /\ Len(queue) <= Capacity
  /\ stage \in {"discovering", "starting", "serving", "closing", "ended"}
  /\ worker \in {"none", "running", "returned"}
  /\ cancelled \in BOOLEAN
  /\ exposed \subseteq Devices
  /\ listed \subseteq Devices /\ enrolled \subseteq Devices
  /\ fixed \subseteq Devices
  /\ changed \in BOOLEAN
  /\ baseline \in [Devices -> 0..MaxFrames]
  /\ initial \in [Devices -> 0..MaxFrames]
  /\ applied \in [Devices -> SUBSET (1..MaxFrames)]
  /\ motion \subseteq Brushes
  /\ accepted \in [Devices -> SUBSET (1..MaxFrames)]
  /\ collected \in [Devices -> SUBSET (1..MaxFrames)]

(* The discovery keeps one report of a device, so it forgets an accepted     *)
(* frame for a newer one of the same discovery.                              *)
Replaced(d, f) == f \in collected[d] /\ \E g \in collected[d] : g > f

(* Of what the deduplicator accepted of an exposed device, only that is ever *)
(* lost: every other frame reached the accessory, or waits to be applied by  *)
(* the update goroutine.  A report that was lost at the full queue was not   *)
(* accepted, so its copy on another topic still can be.                      *)
OnlyReplacedIsLost ==
  \A d \in exposed : \A f \in accepted[d] :
    f \in applied[d] \/ f = initial[d] \/ Replaced(d, f)

(* HomeKit shows motion only when, of the starts and ends that were applied, *)
(* the newest one is a start: no late copy and no report that the discovery  *)
(* kept brings back a session that has ended.                                *)
MotionIsNewest ==
  \A d \in motion :
    \E f \in applied[d] :
      /\ sent[d][f] = "start"
      /\ \A g \in applied[d] : sent[d][g] = "end" => g < f

(* No accessory gets a frame after a newer one, though two goroutines read   *)
(* the queue one after the other and one of them only collects.              *)
InOrder ==
  \A d \in Devices : \A f \in applied'[d] \ applied[d], g \in applied[d] : g < f

AppliedInOrder == [][InOrder]_vars

(* Until the update goroutine runs, the discovery keeps all that is accepted *)
(* and nothing is applied.                                                   *)
NothingEarly ==
  stage \in {"discovering", "starting"} =>
    /\ worker = "none" /\ motion = {} /\ listed = exposed
    /\ accepted = collected
    /\ \A d \in Devices : applied[d] = {} /\ initial[d] = baseline[d]

(* What the discovery keeps is the frame accepted last, of a device that is  *)
(* exposed and to which nothing was applied; later only accepted frames are. *)
InitialIsLast ==
  \A d \in Devices :
    /\ applied[d] \subseteq accepted[d] /\ collected[d] \subseteq accepted[d]
    /\ accepted[d] \subseteq 1..baseline[d] /\ baseline[d] \in accepted[d] \cup {0}
    /\ initial[d] # 0 => initial[d] = baseline[d] /\ d \in exposed /\ applied[d] = {}

(* A frame that is in the queue or was accepted has been sent.               *)
ReportsWereSent ==
  /\ \A i \in DOMAIN queue : queue[i].frame <= Len(sent[queue[i].dev])
  /\ \A d \in Devices : baseline[d] <= Len(sent[d])

(* Every device HomeKit shows is known completely to the configuration or    *)
(* was saved before, so its accessory ID returns with the next start: a list *)
(* that is not written, and one whose save fails, show nothing new.          *)
ShownIsRecorded == stage \in {"serving", "closing"} => exposed \subseteq enrolled \cup fixed

(* Until the start, what only the list knows makes it one that changed; what *)
(* a save leaves out, nobody was shown.                                      *)
UnsavedIsNoticed ==
  /\ exposed \subseteq listed
  /\ stage \in {"discovering", "starting"} => exposed \subseteq enrolled \cup fixed \/ changed

(* The inductive invariant behind the four properties of what is shown.      *)
PipelineInv ==
  /\ TypeOK
  /\ ReportsWereSent
  /\ NothingEarly
  /\ InitialIsLast
  /\ OnlyReplacedIsLost
  /\ MotionIsNewest
  /\ UnsavedIsNoticed
  /\ ShownIsRecorded

(* After the signal the bridge ends: no wait, of the discovery for a first   *)
(* device or of a goroutine for another, is left.                            *)
SignalEnds == cancelled ~> stage = "ended"
=============================================================================
