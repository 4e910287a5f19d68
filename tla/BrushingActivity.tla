--------------------------- MODULE BrushingActivity ---------------------------
(***************************************************************************)
(* What the toothbrush accessory promises to HomeKit, without timers,      *)
(* generations or callbacks: the motion sensor goes on with a live start,  *)
(* goes off with an end, and goes off by itself only after Watchdog        *)
(* seconds without a start, which it then must do.                         *)
(***************************************************************************)
EXTENDS Integers

CONSTANT Watchdog   \* seconds of silence after which motion is switched off

VARIABLES
  motion,   \* the MotionDetected characteristic
  silence,  \* seconds since the last live start, 0 while there is no motion
  events,   \* how many live starts and ends were received
  open      \* the accessory has not been closed

vars == <<motion, silence, events, open>>

Init == motion = FALSE /\ silence = 0 /\ events = 0 /\ open = TRUE

(* A start or a heartbeat. *)
LiveStart ==
  motion' = TRUE /\ silence' = 0 /\ events' = events + 1 /\ UNCHANGED open

(* An end that was received. *)
End ==
  motion' = FALSE /\ silence' = 0 /\ events' = events + 1 /\ UNCHANGED open

(* The end was lost: without any event. *)
Timeout ==
  /\ motion /\ silence >= Watchdog
  /\ motion' = FALSE /\ silence' = 0
  /\ UNCHANGED <<events, open>>

(* Time passes during a session. *)
Second == motion /\ silence' = silence + 1 /\ UNCHANGED <<motion, events, open>>

Shutdown == open /\ open' = FALSE /\ UNCHANGED <<motion, silence, events>>

Next == LiveStart \/ End \/ Timeout \/ Second \/ Shutdown

Safety == Init /\ [][Next]_vars

(* While the accessory is open, silence that lasts long enough ends.         *)
Spec == Safety /\ WF_vars(open /\ Timeout)
=============================================================================
