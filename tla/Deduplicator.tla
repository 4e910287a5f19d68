----------------------------- MODULE Deduplicator -----------------------------
(***************************************************************************)
(* The BLE frame filter, internal/openmiio/deduplicator.go, between the    *)
(* devices that number their frames and the code that applies them.        *)
(*                                                                         *)
(* A device numbers its frames 0, 1, 2, ...; the radio carries the number  *)
(* modulo 256.  The gateway publishes each frame on several MQTT topics,   *)
(* so copies arrive more than once, late and out of order, or not at all.  *)
(* One goroutine classifies them, first in discoverDevices and then in     *)
(* processUpdates, so a step is one whole call of Classify.                *)
(***************************************************************************)
EXTENDS Integers

CONSTANTS
  Devices,     \* identities: the MAC in lower case, or "did:" and the DID
  Topics,      \* MQTT topics a frame is published on
  Counters,    \* counter values a device may start from, first or after a reboot
  Gaps,        \* advance between frames, more than 1 when the radio lost some
  ResetAfter,  \* Deduplicator.ResetAfter, 600 seconds in main.go
  MaxDelay,    \* the longest a copy is under way, in seconds
  MaxFrames,   \* bound on the number of frames sent
  Horizon      \* bound on the clock

Modulus == 256  \* the range of uint8

ASSUME DeduplicatorAssumption ==
  /\ Counters \subseteq 0..(Modulus - 1)
  /\ Gaps \subseteq Nat \ {0}
  /\ ResetAfter \in Nat
  /\ MaxDelay \in Nat
  /\ MaxDelay < ResetAfter
  /\ MaxFrames \in Nat
  /\ Horizon \in Nat

VARIABLES
  clock,     \* the clock d.now() reads
  published, \* how many frames were sent
  sent,      \* frame number each device sent last
  air,       \* copies of frames between the device and the bridge
  frames,    \* d.frames: the baseline of each device
  accepted,  \* history: frame number accepted last, by device
  heard,     \* history: when a counted report arrived last, by device
  admitted   \* history: when one was accepted last, by device

history == <<accepted, heard, admitted>>
vars == <<clock, published, sent, air, frames, history>>

-----------------------------------------------------------------------------
(* Data *)

NoBaseline == [counter |-> 0, seenAt |-> -1]
FrameState == [counter : 0..(Modulus - 1), seenAt : Nat]
Copy == [device : Devices, seq : Nat, at : Nat, topic : Topics]

(* Mutant: the counter is not narrowed to one byte.                          *)
ReportWide(device, seq) == [device |-> device, counter |-> seq]

(* An openmiio.Update as far as Classify reads it.                           *)
Report(device, seq) == [device |-> device, counter |-> seq % Modulus]

Known(device) == frames[device] # NoBaseline
Silent(device) == clock - frames[device].seenAt >= ResetAfter
Delta(report) == (report.counter - frames[report.device].counter) % Modulus

(* Mutant: the delta is compared as a signed number without the wrap.        *)
ClassifyUnwrapped(report) ==
  LET previous == frames[report.device]
  IN IF ~Known(report.device) \/ Silent(report.device) THEN "accepted"
     ELSE IF report.counter = previous.counter THEN "duplicate"
     ELSE IF report.counter < previous.counter THEN "stale"
     ELSE "accepted"

(* Classify of a report that has a counter and an identity.  The code        *)
(* accepts every other report before it reads the map, and leaves no trace   *)
(* of it.  ResetAfter is positive in the program, so the branch for a        *)
(* filter that is switched off is never taken.                               *)
Classify(report) ==
  IF ~Known(report.device) \/ Silent(report.device) THEN "accepted"
  ELSE IF Delta(report) = 0 THEN "duplicate"
  ELSE IF Delta(report) > 127 THEN "stale"
  ELSE "accepted"

(* Mutant: a rejected report refreshes the baseline's time.                  *)
RememberAlways(report) ==
  frames' = [frames EXCEPT ![report.device] =
               [counter |-> IF Classify(report) = "accepted" THEN report.counter ELSE @.counter,
                seenAt |-> clock]]

(* Mutant: the counter is remembered, the time only at first.                *)
RememberCounter(report) ==
  frames' = IF Classify(report) = "accepted"
            THEN [frames EXCEPT ![report.device] =
                    [counter |-> report.counter,
                     seenAt |-> IF Known(report.device) THEN @.seenAt ELSE clock]]
            ELSE frames

(* The baseline moves only when a report is accepted.                        *)
Remember(report) ==
  frames' = IF Classify(report) = "accepted"
            THEN [frames EXCEPT ![report.device] =
                    [counter |-> report.counter, seenAt |-> clock]]
            ELSE frames

-----------------------------------------------------------------------------
Init ==
  /\ clock = 0
  /\ published = 0
  /\ sent \in [Devices -> Counters]
  /\ air = {}
  /\ frames = [d \in Devices |-> NoBaseline]
  /\ accepted = [d \in Devices |-> -1]
  /\ heard = [d \in Devices |-> -1]
  /\ admitted = [d \in Devices |-> -1]

(* The device sends frame n; the gateway publishes it on some topics.        *)
Publish(d, n, topics) ==
  /\ published < MaxFrames
  /\ published' = published + 1
  /\ sent' = [sent EXCEPT ![d] = n]
  /\ air' = air \cup [device : {d}, seq : {n}, at : {clock}, topic : topics]
  /\ UNCHANGED <<clock, frames, history>>

(* The next frame that is not lost.  Fewer than 128 numbers are under way at *)
(* a time: a device sends a few frames a second and copies take seconds.     *)
Send(d, gap, topics) ==
  /\ \A c \in air : c.device = d => sent[d] + gap - c.seq < 128
  /\ Publish(d, sent[d] + gap, topics)

(* The device restarts, numbering from the counter c.  Changing a battery    *)
(* takes longer than a copy is under way.  The frame numbers go on in the    *)
(* next block of 256, so that later frames have greater numbers.             *)
Reboot(d, c, topics) ==
  /\ \A copy \in air : copy.device # d
  /\ Publish(d, (sent[d] \div Modulus + 1) * Modulus + c, topics)

(* A copy reaches Classify.                                                  *)
Deliver(copy) ==
  LET report == Report(copy.device, copy.seq)
  IN /\ copy \in air
     /\ air' = air \ {copy}
     /\ Remember(report)
     /\ heard' = [heard EXCEPT ![copy.device] = clock]
     /\ IF Classify(report) = "accepted"
        THEN /\ accepted' = [accepted EXCEPT ![copy.device] = copy.seq]
             /\ admitted' = [admitted EXCEPT ![copy.device] = clock]
        ELSE UNCHANGED <<accepted, admitted>>
     /\ UNCHANGED <<clock, published, sent>>

(* A copy is lost: the queue was full, or the broker was away.               *)
Lose(copy) ==
  /\ copy \in air
  /\ air' = air \ {copy}
  /\ UNCHANGED <<clock, published, sent, frames, history>>

(* Time passes; no copy is under way for longer than MaxDelay.               *)
Tick ==
  /\ clock < Horizon
  /\ \A copy \in air : clock < copy.at + MaxDelay
  /\ clock' = clock + 1
  /\ UNCHANGED <<published, sent, air, frames, history>>

Next ==
  \/ \E d \in Devices, topics \in (SUBSET Topics) \ {{}} :
       \/ \E gap \in Gaps : Send(d, gap, topics)
       \/ \E c \in Counters : Reboot(d, c, topics)
  \/ \E copy \in air : Deliver(copy) \/ Lose(copy)
  \/ Tick

Spec == Init /\ [][Next]_vars

-----------------------------------------------------------------------------
(* Properties *)

TypeOK ==
  /\ clock \in Nat
  /\ published \in Nat
  /\ sent \in [Devices -> Nat]
  /\ air \subseteq Copy
  /\ frames \in [Devices -> FrameState \cup {NoBaseline}]
  /\ accepted \in [Devices -> Nat \cup {-1}]
  /\ heard \in [Devices -> Nat \cup {-1}]
  /\ admitted \in [Devices -> Nat \cup {-1}]

(* A frame is accepted at most once, and never after a newer one: across the *)
(* wrap of the 8-bit counter, lost frames, late second copies, reboots and   *)
(* the reset of the baseline.                                                *)
NoReplay == [][\A d \in Devices : accepted'[d] = accepted[d] \/ accepted'[d] > accepted[d]]_vars

(* The filter never silences a device for good: whenever a report of it      *)
(* arrives, one was accepted less than ResetAfter before, even when a reboot *)
(* or a long loss put its counter behind the baseline.                       *)
SuppressionBounded ==
  \A d \in Devices : heard[d] >= 0 => admitted[d] >= 0 /\ heard[d] - admitted[d] < ResetAfter

(* A baseline is that of the frame accepted last.                            *)
BaselineIsAccepted ==
  \A d \in Devices :
    /\ accepted[d] <= sent[d]
    /\ IF Known(d)
       THEN /\ frames[d].counter = accepted[d] % Modulus
            /\ frames[d].seenAt = admitted[d]
            /\ frames[d].seenAt <= clock
       ELSE accepted[d] = -1

(* What a copy under way may be: recent, and when it is not newer than the   *)
(* frame accepted last, sent no later than that one was accepted.            *)
AirIsRecent ==
  \A copy \in air :
    /\ copy.seq <= sent[copy.device]
    /\ sent[copy.device] - copy.seq < 128
    /\ copy.at <= clock
    /\ clock <= copy.at + MaxDelay
    /\ copy.seq <= accepted[copy.device] => copy.at <= frames[copy.device].seenAt

(* The inductive invariant behind NoReplay and SuppressionBounded.           *)
OrderInv == TypeOK /\ BaselineIsAccepted /\ AirIsRecent /\ SuppressionBounded
=============================================================================
