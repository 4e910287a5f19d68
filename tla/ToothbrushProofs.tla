--------------------------- MODULE ToothbrushProofs ---------------------------
(***************************************************************************)
(* Proofs about Toothbrush for every value of its constants: type          *)
(* correctness, the safety of the watchdog and the implementation of       *)
(* BrushingActivity.                                                       *)
(***************************************************************************)
EXTENDS Toothbrush, TLAPS

(* Applying a report preserves the types of all variables.                   *)
LEMMA ApplyTyped ==
  ASSUME TypeOK, NEW u \in Update, NEW wall \in WallTimes, Apply(u, wall)
  PROVE  TypeOK'
<1> USE ToothbrushAssumption DEF TypeOK, NoTime, Timer
<1>1. /\ u.battery \in Batteries \cup {NoValue}
      /\ Reference(u, wall) \in Int
      /\ Carries(u, "start") \/ Carries(u, "end") => u.toothbrush \in ToothbrushEvent
  BY DEF Update, Reference, Carries
<1>2. battery' \in BatteryService
  <2>1. u.battery # NoValue => u.battery \in Nat
    BY <1>1
  <2>2. (u.battery <= 20) \in BOOLEAN
    OBVIOUS
  <2>3. ASSUME NEW level \in Nat, NEW low \in BOOLEAN
        PROVE  [level |-> level, low |-> low] \in BatteryService
    BY Zenon DEF BatteryService
  <2>4. ApplyBattery(u)
    BY DEF Apply
  <2>5. CASE u.battery = NoValue
    BY <2>4, <2>5, Zenon DEF ApplyBattery, TypeOK
  <2>6. CASE u.battery # NoValue
    BY <2>1, <2>2, <2>3, <2>4, <2>6, Zenon DEF ApplyBattery
  <2> QED
    BY <2>5, <2>6
<1>3. CASE ApplyNoEvent(u, wall)
  BY <1>2, <1>3 DEF Apply, ApplyNoEvent, session, completion
<1>4. CASE ApplyStart(u, wall)
  <2>1. u.toothbrush.timestamp \in Nat
    BY <1>1, <1>4 DEF ApplyStart, ToothbrushEvent
  <2>2. generation' \in Nat /\ timer' \in Timer /\ armed' \subseteq Timer
    BY <1>4 DEF ApplyStart, ArmWatchdog
  <2> QED
    BY <1>2, <1>4, <2>1, <2>2 DEF Apply, ApplyStart, completion
<1>5. ASSUME RecordCompletion(u.toothbrush, Reference(u, wall)),
             Carries(u, "end")
      PROVE  lastCompleted' \in Int /\ lastScore' \in Scores \cup {NoValue}
  <2>9. u.toothbrush \in ToothbrushEvent
    BY <1>1, <1>5, Zenon
  <2>1. u.toothbrush.timestamp \in Nat
    BY <2>9 DEF ToothbrushEvent
  <2>2. u.toothbrush.score \in Scores \cup {NoValue}
    BY <2>9 DEF ToothbrushEvent
  <2>3. EffectiveTimestamp(u.toothbrush, Reference(u, wall)) \in Int
    BY <1>1, <2>1 DEF EffectiveTimestamp
  <2> QED
    BY <1>5, <2>1, <2>2, <2>3 DEF RecordCompletion
<1>6. CASE ApplyLiveEnd(u, wall)
  <2>1. generation' \in Nat /\ timer' \in Timer /\ armed' \subseteq Timer
    BY <1>6 DEF ApplyLiveEnd, StopWatchdog, NoTimer
  <2>2. lastDuration' \in 0..MaxSession
    BY <1>6 DEF ApplyLiveEnd, Plausible
  <2>3. lastCompleted' \in Int /\ lastScore' \in Scores \cup {NoValue}
    BY <1>5, <1>6 DEF ApplyLiveEnd
  <2>4. /\ motion' = FALSE /\ active' = FALSE /\ sessionStart' = 0 /\ lastActivity' = NoTime
        /\ events' = events + 1 /\ UNCHANGED <<clock, callbacks, closed>>
    BY <1>6 DEF Apply, ApplyLiveEnd
  <2>5. motion' \in BOOLEAN /\ active' \in BOOLEAN /\ closed' \in BOOLEAN
    BY <2>4, Zenon
  <2>6. /\ clock' \in Nat /\ sessionStart' \in Nat /\ lastActivity' \in Nat \cup {NoTime}
        /\ callbacks' \subseteq Nat /\ events' \in Nat
    BY <2>4
  <2> QED
    BY <1>2, <2>1, <2>2, <2>3, <2>5, <2>6
<1>7. CASE ApplyHistoricalEnd(u, wall)
  BY <1>2, <1>5, <1>7 DEF Apply, ApplyHistoricalEnd, session
<1> QED
  BY <1>3, <1>4, <1>6, <1>7 DEF Apply

(* NewToothbrush sets fields of their types.                                 *)
LEMMA InitTyped == Init => TypeOK
<1> SUFFICES ASSUME Init PROVE TypeOK
  OBVIOUS
<1>1. battery \in BatteryService
  <2>1. 0 \in Nat
    OBVIOUS
  <2> QED
    BY <2>1, Zenon DEF Init, BatteryService
<1>2. timer \in Timer /\ armed \subseteq Timer /\ callbacks \subseteq Nat
  BY DEF Init, Timer, NoTimer
<1>3. lastDuration \in 0..MaxSession
  BY ToothbrushAssumption DEF Init
<1>4. active \in BOOLEAN /\ motion \in BOOLEAN /\ closed \in BOOLEAN
  BY Zenon DEF Init
<1>5. /\ clock \in Nat /\ sessionStart \in Nat /\ lastActivity \in Nat \cup {NoTime}
      /\ lastCompleted \in Int /\ lastScore \in Scores \cup {NoValue} /\ generation \in Nat
      /\ events \in Nat
  BY DEF Init, NoTime
<1> QED
  BY <1>1, <1>2, <1>3, <1>4, <1>5, Zenon DEF TypeOK

(* Every step preserves the types.                                           *)
LEMMA NextTyped == TypeOK /\ [Next]_vars => TypeOK'
<1> SUFFICES ASSUME TypeOK, [Next]_vars PROVE TypeOK'
  OBVIOUS
<1> USE ToothbrushAssumption
<1>1. ASSUME NEW u \in Update, NEW wall \in WallTimes, Apply(u, wall) PROVE TypeOK'
  BY <1>1, ApplyTyped
<1>2. ASSUME NEW t \in armed, TimerFires(t) PROVE TypeOK'
  BY <1>2 DEF TypeOK, TimerFires, Timer, session, completion
<1>3. ASSUME NEW g \in callbacks, ExpireWatchdog(g) PROVE TypeOK'
  <2>1. CASE Outdated(g)
    BY <1>3, <2>1 DEF TypeOK, ExpireWatchdog, session, completion
  <2>2. CASE ~Outdated(g) /\ TooEarly
    <3>1. timer' \in Timer /\ armed' \subseteq Timer
      BY <1>3, <2>2 DEF TypeOK, ExpireWatchdog, RearmRemaining, Outdated, TooEarly, Timer, NoTime
    <3> QED
      BY <1>3, <2>2, <3>1 DEF TypeOK, ExpireWatchdog, RearmRemaining, session, completion
  <2>3. CASE ~Outdated(g) /\ ~TooEarly
    <3>1. ForceInactive /\ callbacks' \subseteq callbacks
      BY <1>3, <2>3 DEF ExpireWatchdog
    <3>2. timer' \in Timer /\ armed' \subseteq armed /\ generation' \in Nat
      BY <3>1 DEF TypeOK, ForceInactive, StopWatchdog, NoTimer, Timer
    <3> QED
      BY <1>3, <3>1, <3>2 DEF TypeOK, ExpireWatchdog, ForceInactive, NoTime, completion
  <2> QED
    BY <2>1, <2>2, <2>3
<1>4. CASE Close
  BY <1>4 DEF TypeOK, Close, StopWatchdog, NoTimer, Timer, session, completion
<1>5. CASE Tick
  BY <1>5 DEF TypeOK, Tick, session, completion, watchdog
<1>6. CASE UNCHANGED vars
  BY <1>6 DEF TypeOK, vars, session, completion, watchdog
<1> QED
  BY <1>1, <1>2, <1>3, <1>4, <1>5, <1>6 DEF Next

(* The accessory's fields, the runtime's timers and the characteristics      *)
(* always have their types.                                                  *)
THEOREM TypeCorrect == Spec => []TypeOK
<1> QED
  BY InitTyped, NextTyped, PTL DEF Spec

-----------------------------------------------------------------------------
(* The watchdog: WatchdogInv is inductive *)

LEMMA WatchdogInit == Init => WatchdogInv
<1> SUFFICES ASSUME Init PROVE WatchdogInv
  OBVIOUS
<1>1. TypeOK
  BY InitTyped
<1>2. SessionCoherent
  <2>1. ~(sessionStart > 0) /\ lastActivity = NoTime
    BY DEF Init
  <2> QED
    BY <2>1, Zenon DEF Init, SessionCoherent
<1>3. ActiveIsGuarded /\ lastActivity <= clock
  BY DEF Init, ActiveIsGuarded, NoTime
<1>4. NoOrphanTimer /\ ArmedIsCurrent /\ WaitingIsPast
  BY DEF Init, NoOrphanTimer, ArmedIsCurrent, WaitingIsPast
<1> QED
  BY <1>1, <1>2, <1>3, <1>4 DEF WatchdogInv

(* The types the arithmetic of the watchdog needs.                           *)
LEMMA WatchdogTypes ==
  ASSUME TypeOK
  PROVE  /\ clock \in Nat /\ sessionStart \in Nat /\ generation \in Nat
         /\ lastActivity \in Int /\ Watchdog \in Nat
         /\ timer \in Timer /\ armed \subseteq Timer /\ callbacks \subseteq Nat
         /\ active \in BOOLEAN /\ motion \in BOOLEAN /\ closed \in BOOLEAN
BY ToothbrushAssumption DEF TypeOK, NoTime

(* A step that leaves the watchdog, the session and the clock alone.         *)
LEMMA WatchdogUntouched ==
  ASSUME WatchdogInv, TypeOK',
         UNCHANGED <<clock, session, generation, timer, armed, callbacks, motion, closed>>
  PROVE  WatchdogInv'
<1>1. SessionCoherent' /\ ActiveIsGuarded' /\ NoOrphanTimer' /\ (lastActivity <= clock)'
  BY DEF WatchdogInv, session, SessionCoherent, ActiveIsGuarded, NoOrphanTimer
<1>2. ArmedIsCurrent' /\ WaitingIsPast'
  BY DEF WatchdogInv, session, ArmedIsCurrent, WaitingIsPast
<1> QED
  BY <1>1, <1>2 DEF WatchdogInv

(* A step that ends the session and stops the watchdog.                      *)
LEMMA WatchdogStopped ==
  ASSUME WatchdogInv, TypeOK', StopWatchdog, callbacks' \subseteq callbacks,
         ~active', ~motion', sessionStart' = 0, lastActivity' = NoTime
  PROVE  WatchdogInv'
<1> USE DEF WatchdogInv
<1>1. generation' > generation /\ armed' = {} /\ generation \in Nat
  BY DEF StopWatchdog, NoOrphanTimer, TypeOK
<1>2. SessionCoherent' /\ ActiveIsGuarded' /\ lastActivity' <= clock'
  BY DEF SessionCoherent, ActiveIsGuarded, NoTime, TypeOK
<1>3. NoOrphanTimer' /\ ArmedIsCurrent'
  BY <1>1 DEF NoOrphanTimer, ArmedIsCurrent
<1>4. WaitingIsPast'
  <2>1. callbacks \subseteq Nat /\ generation' \in Nat
    BY DEF TypeOK
  <2>2. \A g \in callbacks' : g \in Nat /\ g <= generation
    BY <2>1 DEF WaitingIsPast
  <2> QED
    BY <1>1, <2>1, <2>2 DEF WaitingIsPast
<1> QED
  BY <1>2, <1>3, <1>4

(* A live start arms a timer of a new generation, due after the silence it   *)
(* begins.                                                                   *)
LEMMA WatchdogStarted ==
  ASSUME WatchdogInv, TypeOK', NEW u \in Update, NEW wall \in WallTimes,
         Apply(u, wall), ApplyStart(u, wall)
  PROVE  WatchdogInv'
<1>1. /\ generation' = generation + 1
      /\ timer' = [gen |-> generation + 1, due |-> clock + Watchdog]
      /\ armed' = (armed \ {timer}) \cup {timer'}
      /\ active' /\ motion' /\ lastActivity' = clock
      /\ UNCHANGED <<clock, callbacks, closed>>
  BY DEF Apply, ApplyStart, ArmWatchdog
<1>2. armed' = {timer'}
  BY <1>1 DEF WatchdogInv, NoOrphanTimer
<1>3. u.toothbrush.timestamp > 0
  BY DEF ApplyStart, RawLive
<1>4. SessionCoherent'
  <2>1. sessionStart' > 0
    BY <1>3 DEF ApplyStart, ValidCurrentStart
  <2>2. lastActivity' # NoTime
    BY <1>1, WatchdogTypes DEF NoTime, WatchdogInv
  <2>3. active' = TRUE /\ motion' = TRUE
    BY DEF ApplyStart
  <2> QED
    BY <2>1, <2>2, <2>3 DEF SessionCoherent
<1>5. ActiveIsGuarded' /\ NoOrphanTimer' /\ (lastActivity <= clock)'
  BY <1>1, <1>2, WatchdogTypes DEF ActiveIsGuarded, NoOrphanTimer, WatchdogInv
<1>6. ArmedIsCurrent' /\ WaitingIsPast'
  BY <1>1, <1>2, WatchdogTypes DEF ArmedIsCurrent, WaitingIsPast, WatchdogInv
<1> QED
  BY <1>4, <1>5, <1>6 DEF WatchdogInv

(* Every step preserves the invariant.                                       *)
LEMMA WatchdogNext == WatchdogInv /\ [Next]_vars => WatchdogInv'
<1> SUFFICES ASSUME WatchdogInv, [Next]_vars PROVE WatchdogInv'
  OBVIOUS
<1>1. TypeOK' /\ TypeOK
  BY NextTyped DEF WatchdogInv
<1>2. ASSUME NEW u \in Update, NEW wall \in WallTimes, Apply(u, wall) PROVE WatchdogInv'
  <2>1. CASE ApplyNoEvent(u, wall)
    BY <1>1, <1>2, <2>1, WatchdogUntouched DEF Apply, ApplyNoEvent, session
  <2>2. CASE ApplyStart(u, wall)
    BY <1>1, <1>2, <2>2, WatchdogStarted
  <2>3. CASE ApplyLiveEnd(u, wall)
    <3>1. /\ StopWatchdog /\ callbacks' = callbacks
          /\ active' = FALSE /\ motion' = FALSE /\ sessionStart' = 0 /\ lastActivity' = NoTime
      BY <1>2, <2>3 DEF Apply, ApplyLiveEnd
    <3> QED
      BY <1>1, <3>1, WatchdogStopped
  <2>4. CASE ApplyHistoricalEnd(u, wall)
    BY <1>1, <1>2, <2>4, WatchdogUntouched DEF Apply, ApplyHistoricalEnd, session
  <2> QED
    BY <1>2, <2>1, <2>2, <2>3, <2>4 DEF Apply
<1>3. ASSUME NEW t \in armed, TimerFires(t) PROVE WatchdogInv'
  <2>1. /\ armed' = armed \ {t} /\ callbacks' = callbacks \cup {t.gen} /\ clock >= t.due
        /\ UNCHANGED <<clock, session, generation, timer, motion, closed>>
    BY <1>3 DEF TimerFires
  <2>2. t.gen = generation /\ active /\ t.due >= lastActivity + Watchdog /\ t.due \in Nat
    BY <1>1, WatchdogTypes DEF WatchdogInv, ArmedIsCurrent, Timer
  <2>3. clock - lastActivity >= Watchdog
    BY <1>1, <2>1, <2>2, WatchdogTypes
  <2>4. SessionCoherent' /\ ActiveIsGuarded' /\ NoOrphanTimer' /\ (lastActivity <= clock)'
    BY <2>1, <2>2 DEF WatchdogInv, session, SessionCoherent, ActiveIsGuarded, NoOrphanTimer
  <2>5. ArmedIsCurrent'
    BY <2>1 DEF WatchdogInv, session, ArmedIsCurrent
  <2>6. WaitingIsPast'
    BY <1>1, <2>1, <2>2, <2>3, WatchdogTypes DEF WatchdogInv, session, WaitingIsPast
  <2> QED
    BY <1>1, <2>4, <2>5, <2>6 DEF WatchdogInv
<1>4. ASSUME NEW g \in callbacks, ExpireWatchdog(g) PROVE WatchdogInv'
  <2>1. callbacks' = callbacks \ {g} /\ UNCHANGED <<clock, closed>>
    BY <1>4 DEF ExpireWatchdog
  <2>2. CASE Outdated(g)
    <3>1. UNCHANGED <<session, generation, timer, armed, motion>>
      BY <1>4, <2>2 DEF ExpireWatchdog
    <3>2. active => g # generation
      BY <2>2 DEF Outdated, WatchdogInv, SessionCoherent
    <3>3. SessionCoherent' /\ ActiveIsGuarded' /\ NoOrphanTimer' /\ (lastActivity <= clock)'
      BY <2>1, <3>1, <3>2
      DEF WatchdogInv, session, SessionCoherent, ActiveIsGuarded, NoOrphanTimer
    <3>4. ArmedIsCurrent' /\ WaitingIsPast'
      BY <2>1, <3>1 DEF WatchdogInv, session, ArmedIsCurrent, WaitingIsPast
    <3> QED
      BY <1>1, <3>3, <3>4 DEF WatchdogInv
  <2>3. CASE ~Outdated(g)
    <3>1. ~TooEarly
      BY <1>1, <2>3, WatchdogTypes DEF WatchdogInv, WaitingIsPast, Outdated, TooEarly
    <3>2. ForceInactive
      BY <1>4, <2>3, <3>1 DEF ExpireWatchdog
    <3> QED
      BY <1>1, <2>1, <3>2, WatchdogStopped DEF ForceInactive
  <2> QED
    BY <2>2, <2>3
<1>5. CASE Close
  <2>1. /\ generation' = generation + 1 /\ armed' = {} /\ closed'
        /\ UNCHANGED <<clock, session, callbacks, motion>>
    BY <1>5 DEF Close, StopWatchdog, WatchdogInv, NoOrphanTimer
  <2>2. SessionCoherent' /\ ActiveIsGuarded' /\ NoOrphanTimer' /\ (lastActivity <= clock)'
    BY <2>1 DEF WatchdogInv, session, SessionCoherent, ActiveIsGuarded, NoOrphanTimer
  <2>3. ArmedIsCurrent'
    BY <2>1 DEF ArmedIsCurrent
  <2>4. WaitingIsPast'
    BY <1>1, <2>1, WatchdogTypes DEF WatchdogInv, WaitingIsPast
  <2> QED
    BY <1>1, <2>2, <2>3, <2>4 DEF WatchdogInv
<1>6. CASE Tick
  <2>1. /\ clock' = clock + 1
        /\ UNCHANGED <<session, generation, timer, armed, callbacks, motion, closed>>
    BY <1>6 DEF Tick, watchdog
  <2>2. SessionCoherent' /\ ActiveIsGuarded' /\ NoOrphanTimer'
    BY <2>1 DEF WatchdogInv, session, SessionCoherent, ActiveIsGuarded, NoOrphanTimer
  <2>3. ArmedIsCurrent' /\ (lastActivity <= clock)'
    BY <1>1, <2>1, WatchdogTypes DEF WatchdogInv, session, ArmedIsCurrent
  <2>4. WaitingIsPast'
    BY <1>1, <2>1, WatchdogTypes DEF WatchdogInv, session, WaitingIsPast
  <2> QED
    BY <1>1, <2>2, <2>3, <2>4 DEF WatchdogInv
<1>7. CASE UNCHANGED vars
  BY <1>1, <1>7, WatchdogUntouched DEF vars, session, watchdog
<1> QED
  BY <1>2, <1>3, <1>4, <1>5, <1>6, <1>7 DEF Next

(* In every state the session, the characteristic, the timers and the        *)
(* waiting callbacks fit together.                                           *)
THEOREM WatchdogSafe == Spec => []WatchdogInv
<1> QED
  BY WatchdogInit, WatchdogNext, PTL DEF Spec

(* The motion HomeKit shows never disagrees with the session.                *)
THEOREM MotionFollowsSession == Spec => []SessionCoherent
<1>1. WatchdogInv => SessionCoherent
  BY DEF WatchdogInv
<1> QED
  BY <1>1, WatchdogSafe, PTL

(* A session of an open accessory always has a timer or a callback that will *)
(* end it.                                                                   *)
THEOREM SessionGuarded == Spec => []ActiveIsGuarded
<1>1. WatchdogInv => ActiveIsGuarded
  BY DEF WatchdogInv
<1> QED
  BY <1>1, WatchdogSafe, PTL

(* Close and the next start always find the one timer the runtime holds.     *)
THEOREM TimerOwned == Spec => []NoOrphanTimer
<1>1. WatchdogInv => NoOrphanTimer
  BY DEF WatchdogInv
<1> QED
  BY <1>1, WatchdogSafe, PTL

(* A callback that is not outdated finds the silence complete.               *)
THEOREM NoRearm == Spec => []RearmNeverNeeded
<1>1. WatchdogInv => RearmNeverNeeded
  BY WatchdogTypes DEF WatchdogInv, WaitingIsPast, RearmNeverNeeded, Outdated, TooEarly
<1> QED
  BY <1>1, WatchdogSafe, PTL

-----------------------------------------------------------------------------
(* The accessory implements BrushingActivity *)

(* What the refinement mapping calls silence.                                *)
Silence == IF lastActivity = NoTime THEN 0 ELSE clock - lastActivity

LEMMA ActivityInit == Init => Activity!Init
BY DEF Init, Activity!Init

(* A step that changes neither the motion, nor the session, nor the clock.   *)
LEMMA ActivityStutter ==
  ASSUME UNCHANGED <<clock, session, motion, closed, events>>
  PROVE  UNCHANGED Activity!vars
BY DEF Activity!vars, session

(* Every step is one of the motion sensor's, or changes nothing it shows.    *)
LEMMA ActivityNext ==
  WatchdogInv /\ [Next]_vars => [Activity!Next]_(Activity!vars)
<1> SUFFICES ASSUME WatchdogInv, [Next]_vars
             PROVE  Activity!Next \/ UNCHANGED Activity!vars
  OBVIOUS
<1>0. TypeOK /\ SessionCoherent
  BY DEF WatchdogInv
<1>1. ASSUME NEW u \in Update, NEW wall \in WallTimes, Apply(u, wall)
      PROVE  Activity!Next \/ UNCHANGED Activity!vars
  <2>1. UNCHANGED <<clock, closed>>
    BY <1>1 DEF Apply
  <2>2. CASE ApplyNoEvent(u, wall)
    BY <2>1, <2>2, ActivityStutter DEF ApplyNoEvent
  <2>3. CASE ApplyStart(u, wall)
    <3>1. motion' = TRUE /\ Silence' = 0 /\ events' = events + 1
      BY <1>0, <2>1, <2>3, WatchdogTypes DEF ApplyStart, Silence
    <3> QED
      BY <2>1, <3>1 DEF Silence, Activity!Next, Activity!LiveStart
  <2>4. CASE ApplyLiveEnd(u, wall)
    <3>1. motion' = FALSE /\ Silence' = 0 /\ events' = events + 1
      BY <2>4 DEF ApplyLiveEnd, Silence
    <3> QED
      BY <2>1, <3>1 DEF Silence, Activity!Next, Activity!End
  <2>5. CASE ApplyHistoricalEnd(u, wall)
    BY <2>1, <2>5, ActivityStutter DEF ApplyHistoricalEnd
  <2> QED
    BY <1>1, <2>2, <2>3, <2>4, <2>5 DEF Apply
<1>2. ASSUME NEW t \in armed, TimerFires(t) PROVE UNCHANGED Activity!vars
  BY <1>2, ActivityStutter DEF TimerFires
<1>3. ASSUME NEW g \in callbacks, ExpireWatchdog(g)
      PROVE  Activity!Next \/ UNCHANGED Activity!vars
  <2>1. UNCHANGED <<clock, closed, events>>
    BY <1>3 DEF ExpireWatchdog
  <2>2. CASE Outdated(g) \/ TooEarly
    BY <1>3, <2>1, <2>2, ActivityStutter DEF ExpireWatchdog, RearmRemaining
  <2>3. CASE ~Outdated(g) /\ ~TooEarly
    <3>1. motion' = FALSE /\ Silence' = 0
      BY <1>3, <2>3 DEF ExpireWatchdog, ForceInactive, Silence
    <3>2. motion /\ Silence >= Watchdog
      BY <1>0, <2>3, WatchdogTypes DEF Outdated, TooEarly, SessionCoherent, Silence
    <3> QED
      BY <2>1, <3>1, <3>2 DEF Silence, Activity!Next, Activity!Timeout
  <2> QED
    BY <2>2, <2>3
<1>4. CASE Close
  <2>1. ~closed /\ closed' = TRUE /\ UNCHANGED <<clock, session, motion, events>>
    BY <1>4 DEF Close
  <2>2. UNCHANGED <<motion, Silence>>
    BY <2>1 DEF session, Silence
  <2> QED
    BY <2>1, <2>2 DEF Silence, Activity!Next, Activity!Shutdown
<1>5. CASE Tick
  <2>1. clock' = clock + 1 /\ UNCHANGED <<motion, closed, lastActivity, events>>
    BY <1>5 DEF Tick, session
  <2>2. CASE motion
    <3>1. Silence' = Silence + 1
      BY <1>0, <2>1, <2>2, WatchdogTypes DEF SessionCoherent, Silence
    <3> QED
      BY <2>1, <2>2, <3>1 DEF Silence, Activity!Next, Activity!Second
  <2>3. CASE ~motion
    <3>1. Silence' = Silence
      BY <1>0, <2>1, <2>3, WatchdogTypes DEF SessionCoherent, Silence
    <3> QED
      BY <2>1, <3>1 DEF Silence, Activity!vars
  <2> QED
    BY <2>2, <2>3
<1>6. CASE UNCHANGED vars
  BY <1>6, ActivityStutter DEF vars
<1> QED
  BY <1>1, <1>2, <1>3, <1>4, <1>5, <1>6 DEF Next

(* The accessory, with its mutex, its timers and callbacks that come late,   *)
(* is a motion sensor that goes off by itself only after complete silence.   *)
THEOREM ImplementsMotionSensor == Spec => ImplementsActivitySafety
<1> QED
  BY ActivityInit, ActivityNext, WatchdogSafe, PTL
  DEF Spec, ImplementsActivitySafety, Activity!Safety
=============================================================================
