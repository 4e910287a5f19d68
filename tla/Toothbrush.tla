------------------------------ MODULE Toothbrush ------------------------------
(***************************************************************************)
(* The T700i toothbrush accessory, internal/bridge/toothbrush.go.          *)
(*                                                                         *)
(* The bridge turns start and end events of a brush into a HomeKit motion  *)
(* sensor.  Two kinds of goroutine touch the accessory, one at a time      *)
(* because each holds t.mu for its whole body:                             *)
(*   - the update goroutine, in Apply, and the main goroutine, in Close;   *)
(*   - the callbacks of time.AfterFunc, in expireWatchdog.                 *)
(* The Go runtime sits in between: Stop prevents a timer from firing, but  *)
(* a timer that already fired has started a goroutine which only waits for *)
(* the mutex, and that goroutine carries the generation it was armed with. *)
(*                                                                         *)
(* Times are whole seconds.  clock is the monotonic clock that timers and  *)
(* t.now().Sub use; event timestamps, gateway times and the wall clock are *)
(* unrelated to it, because all three can be wrong on the device.          *)
(***************************************************************************)
EXTENDS Integers

CONSTANTS
  LiveWindow,    \* toothbrushLiveWindow, 60 in the code
  MaxSession,    \* toothbrushMaxSession, 600
  Watchdog,      \* toothbrushWatchdog, 30
  Timestamps,    \* values of the event's 4-byte timestamp, 0 included
  GatewayTimes,  \* values of gwts; absent or nonsensical when <= 0
  WallTimes,     \* values t.now().Unix() may return
  Scores,        \* brushing scores
  Batteries,     \* battery levels a report may carry, 0..100
  NoValue,       \* a nil pointer in an update
  LastInput,     \* bound: no update is applied after this clock value
  MaxGeneration, \* bound: no update is applied once the watchdog got here
  Horizon        \* bound: the clock stops here

ASSUME ToothbrushAssumption ==
  /\ LiveWindow \in Nat
  /\ MaxSession \in Nat
  /\ Watchdog \in Nat
  /\ Timestamps \subseteq Nat
  /\ GatewayTimes \subseteq Int
  /\ WallTimes \subseteq Int
  /\ Batteries \subseteq Nat
  /\ NoValue \notin Scores
  /\ NoValue \notin Batteries
  /\ LastInput \in Nat
  /\ MaxGeneration \in Nat
  /\ Horizon \in Nat

VARIABLES
  clock,          \* monotonic time
  active,         \* t.active: a brushing session is in progress
  sessionStart,   \* t.sessionStart, 0 when there is none
  lastActivity,   \* t.lastActivity, NoTime for the zero time.Time
  lastCompleted,  \* t.lastCompleted
  lastScore,      \* t.lastScore
  lastDuration,   \* t.lastDuration
  generation,     \* t.watchdogGeneration
  timer,          \* t.timer: the handle of the timer armed last
  armed,          \* timers the Go runtime still holds
  callbacks,      \* generations of fired callbacks that wait for t.mu
  motion,         \* the MotionDetected characteristic HomeKit shows
  battery,        \* the battery service HomeKit shows
  closed,         \* Close has run
  events          \* history: how many live starts and ends were applied

session == <<active, sessionStart, lastActivity>>
completion == <<lastCompleted, lastScore, lastDuration>>
watchdog == <<generation, timer, armed, callbacks>>
vars == <<clock, session, completion, watchdog, motion, battery, closed, events>>

-----------------------------------------------------------------------------
(* Data *)

NoTime == -1
Timer == [gen : Nat, due : Nat]
NoTimer == [gen |-> 0, due |-> 0]

(* openmiio.Update as far as Apply reads it.  Only "type = 0" is told apart  *)
(* from the other event types.                                               *)
ToothbrushEvent ==
  [type : {"start", "end"}, timestamp : Timestamps, score : Scores \cup {NoValue}]

Update ==
  [battery : Batteries \cup {NoValue},
   toothbrush : ToothbrushEvent \cup {NoValue},
   gatewayTime : GatewayTimes]

BatteryService == [level : Nat, low : BOOLEAN]

Carries(u, type) == u.toothbrush # NoValue /\ u.toothbrush.type = type

(* The receive time of a report: gwts, or the wall clock when gwts is absent. *)
Reference(u, wall) == IF u.gatewayTime > 0 THEN u.gatewayTime ELSE wall

Distance(a, b) == IF a < b THEN b - a ELSE a - b

(* The event's own timestamp agrees with the time it was received.           *)
RawLive(event, reference) ==
  event.timestamp > 0 /\ Distance(reference, event.timestamp) <= LiveWindow

(* A start event that belongs to the session already in progress.            *)
ValidCurrentStart(event) ==
  /\ active
  /\ sessionStart > 0
  /\ event.timestamp >= sessionStart
  /\ event.timestamp - sessionStart <= MaxSession

(* An end event whose timestamp is not live but which was received during a  *)
(* session of plausible length: the brush repeated an old timestamp.         *)
ForcedStop(event, reference) ==
  /\ active
  /\ sessionStart > 0
  /\ ~RawLive(event, reference)
  /\ reference >= sessionStart
  /\ reference - sessionStart <= MaxSession

EffectiveTimestamp(event, reference) ==
  IF ForcedStop(event, reference) THEN reference ELSE event.timestamp

LiveEnd(event, reference) ==
  RawLive(event, reference) \/ ForcedStop(event, reference)

(* A duration that is recorded.                                              *)
PlausibleUnbounded(duration) == duration >= 0  \* mutant: no upper limit
Plausible(duration) == duration \in 0..MaxSession

-----------------------------------------------------------------------------
(* Watchdog bookkeeping, always called with t.mu held *)

(* Mutant: the closure captures the counter before it is incremented.        *)
ArmWatchdogStaleGeneration ==
  LET next == [gen |-> generation, due |-> clock + Watchdog]
  IN generation' = generation + 1 /\ armed' = (armed \ {timer}) \cup {next} /\ timer' = next

(* Mutant: the previous timer is overwritten and not stopped.                *)
ArmWatchdogKeepsOld ==
  LET next == [gen |-> generation + 1, due |-> clock + Watchdog]
  IN generation' = generation + 1 /\ armed' = armed \cup {next} /\ timer' = next

(* Mutant: a heartbeat keeps the generation, trusting Stop alone.            *)
ArmWatchdogSameGeneration ==
  LET next == [gen |-> IF active THEN generation ELSE generation + 1,
               due |-> clock + Watchdog]
  IN generation' = next.gen /\ armed' = (armed \ {timer}) \cup {next} /\ timer' = next

(* armWatchdogLocked: a new generation, the old timer stopped, a new one.    *)
ArmWatchdog ==
  LET next == [gen |-> generation + 1, due |-> clock + Watchdog]
  IN /\ generation' = generation + 1
     /\ armed' = (armed \ {timer}) \cup {next}
     /\ timer' = next

(* Mutant: a stopped watchdog keeps its generation.                          *)
StopWatchdogSameGeneration ==
  UNCHANGED generation /\ armed' = armed \ {timer} /\ timer' = NoTimer

(* stopWatchdogLocked: a callback that already fired keeps its generation    *)
(* and finds it outdated.                                                    *)
StopWatchdog ==
  /\ generation' = generation + 1
  /\ armed' = armed \ {timer}
  /\ timer' = NoTimer

-----------------------------------------------------------------------------
(* Init: NewToothbrush *)

Init ==
  /\ clock = 0
  /\ active = FALSE
  /\ sessionStart = 0
  /\ lastActivity = NoTime
  /\ lastCompleted = 0
  /\ lastScore = NoValue
  /\ lastDuration = 0
  /\ generation = 0
  /\ timer = NoTimer
  /\ armed = {}
  /\ callbacks = {}
  /\ motion = FALSE
  /\ battery = [level |-> 0, low |-> FALSE]
  /\ closed = FALSE
  /\ events = 0

-----------------------------------------------------------------------------
(* Apply: one report, under t.mu *)

(* applyBattery, which Apply calls first whatever else the report carries.   *)
ApplyBattery(u) ==
  battery' = IF u.battery = NoValue THEN battery
             ELSE [level |-> u.battery, low |-> u.battery <= 20]

(* Nothing but a battery level, or a start event that is not live.           *)
ApplyNoEvent(u, wall) ==
  /\ ~Carries(u, "end")
  /\ Carries(u, "start") => ~RawLive(u.toothbrush, Reference(u, wall))
  /\ UNCHANGED <<session, completion, generation, timer, armed, motion, events>>

(* A live start opens a session, or keeps the one in progress; either way it *)
(* re-arms the watchdog.  A live start has a positive timestamp, so the      *)
(* code's fallback to the receive time for sessionStart is never taken.      *)
ApplyStart(u, wall) ==
  /\ Carries(u, "start")
  /\ RawLive(u.toothbrush, Reference(u, wall))
  /\ sessionStart' = IF ValidCurrentStart(u.toothbrush)
                     THEN sessionStart ELSE u.toothbrush.timestamp
  /\ active' = TRUE
  /\ lastActivity' = clock
  /\ motion' = TRUE
  /\ ArmWatchdog
  /\ events' = events + 1
  /\ UNCHANGED completion

(* The last part of Apply: remember the newest completion and its score.     *)
RecordCompletion(event, reference) ==
  LET effective == EffectiveTimestamp(event, reference)
      newer == effective > lastCompleted
  IN /\ lastCompleted' = IF newer THEN effective ELSE lastCompleted
     /\ lastScore' = IF newer /\ event.score # NoValue THEN event.score ELSE lastScore

(* A live end, or a forced stop, ends the session and disarms the watchdog.  *)
ApplyLiveEnd(u, wall) ==
  LET event == u.toothbrush
      reference == Reference(u, wall)
      duration == EffectiveTimestamp(event, reference) - sessionStart
  IN /\ Carries(u, "end")
     /\ LiveEnd(event, reference)
     /\ StopWatchdog
     /\ motion' = FALSE
     /\ active' = FALSE
     /\ sessionStart' = 0
     /\ lastActivity' = NoTime
     /\ lastDuration' = IF active /\ sessionStart > 0 /\ Plausible(duration)
                        THEN duration ELSE lastDuration
     /\ RecordCompletion(event, reference)
     /\ events' = events + 1

(* A historical end leaves the motion alone and only updates the metadata.   *)
ApplyHistoricalEnd(u, wall) ==
  LET event == u.toothbrush
      reference == Reference(u, wall)
  IN /\ Carries(u, "end")
     /\ ~LiveEnd(event, reference)
     /\ RecordCompletion(event, reference)
     /\ UNCHANGED <<session, lastDuration, generation, timer, armed, motion, events>>

Apply(u, wall) ==
  /\ clock <= LastInput /\ generation < MaxGeneration
  /\ ApplyBattery(u)
  /\ \/ ApplyNoEvent(u, wall)
     \/ ApplyStart(u, wall)
     \/ ApplyLiveEnd(u, wall)
     \/ ApplyHistoricalEnd(u, wall)
  /\ UNCHANGED <<clock, callbacks, closed>>

-----------------------------------------------------------------------------
(* The other steps *)

(* The Go runtime: a due timer starts its callback, at any later moment.     *)
TimerFires(t) ==
  /\ t \in armed
  /\ clock >= t.due
  /\ armed' = armed \ {t}
  /\ callbacks' = callbacks \cup {t.gen}
  /\ UNCHANGED <<clock, session, completion, generation, timer, motion, battery, closed, events>>

(* expireWatchdog, first return: a callback that is out of date.             *)
Outdated(g) == g # generation \/ ~active \/ lastActivity = NoTime

(* expireWatchdog, second return: activity after the timer was armed.        *)
TooEarly == clock - lastActivity < Watchdog

RearmRemaining(g) ==
  LET next == [gen |-> g, due |-> clock + (Watchdog - (clock - lastActivity))]
  IN /\ timer' = next
     /\ armed' = armed \cup {next}
     /\ UNCHANGED <<generation, session, motion>>

(* Mutants: a field, or the characteristic, is forgotten.                    *)
ForceInactiveKeepsStart ==
  /\ StopWatchdog
  /\ active' = FALSE /\ lastActivity' = NoTime /\ motion' = FALSE
  /\ UNCHANGED sessionStart
ForceInactiveKeepsMotion ==
  /\ StopWatchdog
  /\ active' = FALSE /\ lastActivity' = NoTime /\ sessionStart' = 0
  /\ UNCHANGED motion

ForceInactive ==
  /\ StopWatchdog
  /\ active' = FALSE
  /\ sessionStart' = 0
  /\ lastActivity' = NoTime
  /\ motion' = FALSE

(* Mutant: a callback believes it is current because it was started.         *)
ExpireWatchdogTrusting(g) ==
  /\ g \in callbacks
  /\ callbacks' = callbacks \ {g}
  /\ ForceInactive
  /\ UNCHANGED <<clock, completion, battery, closed, events>>

(* expireWatchdog: the callback has t.mu.                                    *)
ExpireWatchdog(g) ==
  /\ g \in callbacks
  /\ callbacks' = callbacks \ {g}
  /\ IF Outdated(g) THEN UNCHANGED <<session, generation, timer, armed, motion>>
     ELSE IF TooEarly THEN RearmRemaining(g)
     ELSE ForceInactive
  /\ UNCHANGED <<clock, completion, battery, closed, events>>

(* Close, called once by the main goroutine when the bridge shuts down.  The *)
(* update goroutine may still be applying reports.                           *)
Close ==
  /\ ~closed
  /\ closed' = TRUE
  /\ StopWatchdog
  /\ UNCHANGED <<clock, session, completion, callbacks, motion, battery, events>>

Tick ==
  /\ clock < Horizon
  /\ clock' = clock + 1
  /\ UNCHANGED <<session, completion, watchdog, motion, battery, closed, events>>

Next ==
  \/ \E u \in Update, wall \in WallTimes : Apply(u, wall)
  \/ \E t \in armed : TimerFires(t)
  \/ \E g \in callbacks : ExpireWatchdog(g)
  \/ Close
  \/ Tick

Spec == Init /\ [][Next]_vars

(* Time passes, the runtime fires due timers and a callback that waits for   *)
(* the mutex gets it; nothing obliges the brush or the broker to report.     *)
Fairness ==
  /\ WF_vars(Tick)
  /\ WF_vars(\E t \in armed : TimerFires(t))
  /\ WF_vars(\E g \in callbacks : ExpireWatchdog(g))

FairSpec == Spec /\ Fairness

-----------------------------------------------------------------------------
(* Properties *)

(* Every variable has the type of the Go field or runtime object it models.  *)
TypeOK ==
  /\ clock \in Nat
  /\ active \in BOOLEAN
  /\ sessionStart \in Nat
  /\ lastActivity \in Nat \cup {NoTime}
  /\ lastCompleted \in Int
  /\ lastScore \in Scores \cup {NoValue}
  /\ lastDuration \in 0..MaxSession
  /\ generation \in Nat
  /\ timer \in Timer
  /\ armed \subseteq Timer
  /\ callbacks \subseteq Nat
  /\ motion \in BOOLEAN
  /\ battery \in BatteryService
  /\ closed \in BOOLEAN
  /\ events \in Nat

(* The motion HomeKit shows is that of a session with a start and a last     *)
(* activity: no interleaving of reports, fired callbacks and Close leaves    *)
(* the three fields and the characteristic disagreeing.                      *)
SessionCoherent ==
  /\ motion = active
  /\ active <=> sessionStart > 0
  /\ active <=> lastActivity # NoTime

(* As long as the accessory is open, an active session is guarded: the timer *)
(* of the current generation is armed, or its callback has been started.     *)
(* A motion sensor without such a guard stays on for ever after a lost end.  *)
ActiveIsGuarded ==
  active /\ ~closed =>
    \/ \E t \in armed : t.gen = generation
    \/ generation \in callbacks

(* Re-arming never leaves a second timer behind: of the timers the runtime   *)
(* holds, only the one t.timer points to exists, so Close can stop it.       *)
NoOrphanTimer == armed \subseteq {timer}

(* A callback of the current generation finds the silence complete: the      *)
(* branch of expireWatchdog that re-arms for the remaining time is a         *)
(* safeguard no interleaving needs.                                          *)
RearmNeverNeeded ==
  \A g \in callbacks : Outdated(g) \/ ~TooEarly

(* Of the timers the runtime holds, each is of the current generation, which *)
(* an active session owns, and is due no earlier than its silence is long.   *)
ArmedIsCurrent ==
  \A t \in armed :
    t.gen = generation /\ active /\ t.due >= lastActivity + Watchdog

(* Of the callbacks that wait for the mutex, one of the current generation   *)
(* belongs to the active session, whose silence is long enough; every other  *)
(* one is of an earlier generation and will return at once.                  *)
WaitingIsPast ==
  \A g \in callbacks :
    /\ g <= generation
    /\ g = generation => active /\ clock - lastActivity >= Watchdog

(* The inductive invariant: the invariants above, and why they are preserved *)
(* by the two kinds of goroutine in every order.                             *)
WatchdogInv ==
  /\ TypeOK
  /\ SessionCoherent
  /\ ActiveIsGuarded
  /\ NoOrphanTimer
  /\ lastActivity <= clock
  /\ ArmedIsCurrent
  /\ WaitingIsPast

(* Every armed watchdog ends: it is refreshed or stopped (a new generation), *)
(* or the session times out (also a new generation), unless Close came.      *)
GuardEnds ==
  \A g \in 1..MaxGeneration :
    (active /\ generation = g) ~> (generation # g \/ closed)

-----------------------------------------------------------------------------
(* Refinement *)

Activity == INSTANCE BrushingActivity WITH
  silence <- IF lastActivity = NoTime THEN 0 ELSE clock - lastActivity,
  open <- ~closed

(* The accessory with its timers, generations and callbacks implements the   *)
(* motion sensor of BrushingActivity, the timeout included.                  *)
ImplementsActivity == Activity!Spec
ImplementsActivitySafety == Activity!Safety
=============================================================================
