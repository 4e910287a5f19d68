---------------------------- MODULE MqttClientProofs ----------------------------
(***************************************************************************)
(* Proofs about MqttClient for every choice of the time limits.            *)
(***************************************************************************)
EXTENDS MqttClient, TLAPS

LEMMA WaitRange ==
  ASSUME NEW w \in Nat \ {0}, w < FirstBackoff + 2 * BackoffLimit
  PROVE  /\ Doubled(w) \in Nat \ {0}
         /\ Doubled(w) < FirstBackoff + 2 * BackoffLimit
BY ClientAssumption DEF Doubled

LEMMA BackoffAfterRange ==
  ASSUME TypeOK
  PROVE  BackoffAfter \in Nat \ {0} /\ BackoffAfter < FirstBackoff + 2 * BackoffLimit
BY ClientAssumption DEF TypeOK, BackoffAfter

(* What the read of the next packet leaves in the inbox.                     *)
LEMMA TailType ==
  ASSUME TypeOK, inbox # <<>>
  PROVE  Tail(inbox) \in Seq(Packets \cup {"eof"})
BY DEF TypeOK

LEMMA WriteType ==
  ASSUME TypeOK, NEW answer \in Answers, Write(answer)
  PROVE  unsent' \in 0..Grace /\ owed' \in Seq(Answers)
BY ClientAssumption DEF TypeOK, Write

LEMMA SessionInit == Init => SessionInv
<1> SUFFICES ASSUME Init PROVE SessionInv
  OBVIOUS
<1> USE ClientAssumption DEF ending, Connected
<1>1. cancelled \in BOOLEAN /\ closed \in BOOLEAN /\ awaiting \in BOOLEAN
      /\ responsive \in BOOLEAN /\ hung \in BOOLEAN
  BY Zenon DEF Init
<1>2. <<>> \in Seq(Packets \cup {"eof"}) /\ <<>> \in Seq(Answers)
  OBVIOUS
<1>3. 0 \in 0..LongSession /\ 0 \in 0..Grace /\ 0 \in 0..MaxReply /\ 0 \in 0..MaxFaults
      /\ FirstBackoff < FirstBackoff + 2 * BackoffLimit
  OBVIOUS
<1>4. TypeOK
  BY <1>1, <1>2, <1>3 DEF Init, TypeOK, States
<1>5. DeadlineMatches /\ BackoffMatches /\ ClosedBySignal
  BY DEF Init, DeadlineMatches, BackoffMatches, ClosedBySignal
<1> QED
  BY <1>4, <1>5 DEF SessionInv

(* serve returns an error.                                                   *)
LEMMA LeaveInv == ASSUME SessionInv, Leave PROVE SessionInv'
<1> USE ClientAssumption DEF ending, Connected
<1>1. TypeOK /\ BackoffAfter \in Nat \ {0} /\ BackoffAfter < FirstBackoff + 2 * BackoffLimit
  BY BackoffAfterRange DEF SessionInv
<1>2. awaiting' \in BOOLEAN /\ closed' \in BOOLEAN
  BY Zenon DEF Leave
<1>3. TypeOK'
  BY <1>2, <1>1, SMT DEF TypeOK, Leave, States
<1>4. DeadlineMatches' /\ BackoffMatches' /\ ClosedBySignal'
  BY <1>1 DEF Leave, DeadlineMatches, BackoffMatches, ClosedBySignal
<1> QED
  BY <1>3, <1>4 DEF SessionInv

LEMMA SessionStep == SessionInv /\ [Next]_vars => SessionInv'
<1> SUFFICES ASSUME SessionInv, [Next]_vars PROVE SessionInv'
  OBVIOUS
<1> USE ClientAssumption DEF ending, Connected
<1>1. TypeOK /\ DeadlineMatches /\ BackoffMatches /\ ClosedBySignal
  BY DEF SessionInv
<1>2. CASE Connect
  <2>1. TypeOK'
    BY <1>1, <1>2, WriteType, SMT DEF TypeOK, Connect, States, Answers, None, session, retry
  <2>2. DeadlineMatches' /\ BackoffMatches' /\ ClosedBySignal'
    BY <1>1, <1>2 DEF Connect, DeadlineMatches, BackoffMatches, ClosedBySignal, retry
  <2> QED
    BY <2>1, <2>2 DEF SessionInv
<1>3. CASE DialFails
  <2>1. BackoffAfter \in Nat \ {0} /\ BackoffAfter < FirstBackoff + 2 * BackoffLimit
    BY <1>1, BackoffAfterRange
  <2>2. TypeOK'
    BY <1>1, <1>3, <2>1, SMT DEF TypeOK, DialFails, States, session
  <2>3. DeadlineMatches' /\ BackoffMatches' /\ ClosedBySignal'
    BY <1>1, <1>3, <2>1 DEF DialFails, DeadlineMatches, BackoffMatches, ClosedBySignal
  <2> QED
    BY <2>2, <2>3 DEF SessionInv
<1>4. CASE ReadConnack
  <2>1. CASE Head(inbox) # "connack"
    BY <1>4, <2>1, LeaveInv DEF ReadConnack
  <2>2. CASE Head(inbox) = "connack"
    <3>1. awaiting' \in BOOLEAN /\ hung' \in BOOLEAN
      BY <1>4, <2>2, Zenon DEF ReadConnack
    <3>2. inbox # <<>> /\ inbox' = Tail(inbox) /\ Write("suback")
      BY <1>4, <2>2, Zenon DEF ReadConnack
    <3>3. inbox' \in Seq(Packets \cup {"eof"}) /\ owed' \in Seq(Answers)
      BY <1>1, <3>2, TailType, WriteType DEF Answers
    <3>4. /\ pc' \in States /\ timer' \in Nat \cup {None} /\ quiet' \in Nat
          /\ unsent' \in 0..Grace
      BY <1>1, <1>4, <2>2, WriteType, SMT
         DEF TypeOK, ReadConnack, States, Answers, NextDeadline, retry
    <3>5. UNCHANGED <<cancelled, closed, age, backoff, lastWait, late, responsive, faults>>
      BY <1>4, <2>2, Zenon DEF ReadConnack, retry
    <3>6. TypeOK'
      BY <1>1, <3>1, <3>3, <3>4, <3>5, SMT DEF TypeOK
    <3>7. DeadlineMatches' /\ BackoffMatches' /\ ClosedBySignal'
      BY <1>1, <1>4, <2>2
         DEF ReadConnack, NextDeadline, DeadlineMatches, BackoffMatches,
             ClosedBySignal, retry
    <3> QED
      BY <3>6, <3>7 DEF SessionInv
  <2> QED
    BY <2>1, <2>2
<1>5. CASE ReadPacket
  <2>1. CASE Head(inbox) \notin Packets \ {"rejected"}
    BY <1>5, <2>1, LeaveInv DEF ReadPacket
  <2>2. CASE Head(inbox) \in Packets \ {"rejected"}
    <3>1. awaiting' \in BOOLEAN /\ hung' \in BOOLEAN
      BY <1>5, <2>2, Zenon DEF ReadPacket
    <3>2. inbox' \in Seq(Packets \cup {"eof"}) /\ owed' \in Seq(Answers)
      <4>1. inbox # <<>> /\ inbox' = Tail(inbox) /\ owed' = owed
        BY <1>5, <2>2, Zenon DEF ReadPacket
      <4>2. inbox \in Seq(Packets \cup {"eof"}) /\ owed \in Seq(Answers)
        BY <1>1 DEF TypeOK
      <4> QED BY <4>1, <4>2, TailType
    <3>3. /\ pc' \in States /\ timer' \in Nat \cup {None} /\ quiet' \in Nat
          /\ unsent' \in 0..Grace
      BY <1>1, <1>5, <2>2, SMT DEF TypeOK, ReadPacket, NextDeadline, retry, States
    <3>4. UNCHANGED <<cancelled, closed, age, backoff, lastWait, late, responsive, faults>>
      BY <1>5, <2>2, Zenon DEF ReadPacket, retry
    <3>5. TypeOK'
      BY <1>1, <3>1, <3>2, <3>3, <3>4, SMT DEF TypeOK
    <3>6. DeadlineMatches' /\ BackoffMatches' /\ ClosedBySignal'
      BY <1>1, <1>5, <2>2
         DEF ReadPacket, NextDeadline, DeadlineMatches, BackoffMatches,
             ClosedBySignal, retry
    <3> QED
      BY <3>5, <3>6 DEF SessionInv
  <2> QED
    BY <2>1, <2>2
<1>6. CASE ReadTimesOut
  <2>1. CASE awaiting
    BY <1>6, <2>1, LeaveInv DEF ReadTimesOut
  <2>2. CASE ~awaiting
    <3>1. TypeOK'
      BY <1>1, <1>6, <2>2, WriteType, SMT DEF TypeOK, ReadTimesOut, NextDeadline, Answers, retry
    <3>2. DeadlineMatches' /\ BackoffMatches' /\ ClosedBySignal'
      BY <1>1, <1>6, <2>2
         DEF TypeOK, ReadTimesOut, NextDeadline, DeadlineMatches, BackoffMatches,
             ClosedBySignal, retry
    <3> QED
      BY <3>1, <3>2 DEF SessionInv
  <2> QED
    BY <2>1, <2>2
<1>7. CASE ConnectionFails
  BY <1>7, LeaveInv DEF ConnectionFails
<1>8. CASE Wake
  <2>1. Doubled(backoff) \in Nat \ {0} /\ Doubled(backoff) < FirstBackoff + 2 * BackoffLimit
    BY <1>1, WaitRange DEF TypeOK
  <2>2. backoff = lastWait /\ lastWait # 0
    BY <1>1, <1>8 DEF Wake, TypeOK, BackoffMatches
  <2>3. TypeOK'
    BY <1>1, <1>8, <2>1, SMT DEF TypeOK, Wake, States, broker
  <2>4. DeadlineMatches'
    BY <1>8 DEF Wake, DeadlineMatches
  <2>5. BackoffMatches' /\ ClosedBySignal'
    BY <1>1, <1>8, <2>2 DEF Wake, BackoffMatches, ClosedBySignal
  <2> QED
    BY <2>3, <2>4, <2>5 DEF SessionInv
<1>9. CASE DialAborted \/ WaitAborted
  <2>1. TypeOK'
    BY <1>1, <1>9, SMT DEF TypeOK, DialAborted, WaitAborted, States, session, retry, broker
  <2>2. DeadlineMatches' /\ BackoffMatches' /\ ClosedBySignal'
    BY <1>1, <1>9 DEF DialAborted, WaitAborted, DeadlineMatches, BackoffMatches,
                  ClosedBySignal
  <2> QED
    BY <2>1, <2>2 DEF SessionInv
<1>10. CASE CloseWithContext
  <2>1. TypeOK'
    BY <1>1, <1>10, SMT DEF TypeOK, CloseWithContext, session, retry, broker
  <2>2. DeadlineMatches' /\ BackoffMatches' /\ ClosedBySignal'
    BY <1>1, <1>10 DEF CloseWithContext, DeadlineMatches, BackoffMatches, ClosedBySignal,
                   session, retry
  <2> QED
    BY <2>1, <2>2 DEF SessionInv
<1>11. CASE Cancel
  <2>1. TypeOK'
    BY <1>1, <1>11, SMT DEF TypeOK, Cancel, session, retry, broker
  <2>2. DeadlineMatches' /\ BackoffMatches' /\ ClosedBySignal'
    BY <1>1, <1>11 DEF Cancel, DeadlineMatches, BackoffMatches, ClosedBySignal, session, retry
  <2> QED
    BY <2>1, <2>2 DEF SessionInv
<1>12. CASE Answer
  <2>1. /\ Append(inbox, Head(owed)) \in Seq(Packets \cup {"eof"})
        /\ Tail(owed) \in Seq(Answers)
    BY <1>1, <1>12 DEF TypeOK, Answer, Packets
  <2>2. TypeOK'
    BY <1>1, <1>12, <2>1, SMT DEF TypeOK, Answer, session, retry
  <2>3. DeadlineMatches' /\ BackoffMatches' /\ ClosedBySignal'
    BY <1>1, <1>12 DEF Answer, DeadlineMatches, BackoffMatches, ClosedBySignal, session, retry
  <2> QED
    BY <2>2, <2>3 DEF SessionInv
<1>13. ASSUME NEW packet \in Packets \cup {"eof"},
              inbox' = Append(inbox, packet), faults' \in 0..MaxFaults,
              UNCHANGED <<pc, ending, timer, session, retry, owed, late, responsive>>
       PROVE  SessionInv'
  <2>1. TypeOK'
    BY <1>1, <1>13, SMT DEF TypeOK, session, retry
  <2>2. DeadlineMatches' /\ BackoffMatches' /\ ClosedBySignal'
    BY <1>1, <1>13 DEF DeadlineMatches, BackoffMatches, ClosedBySignal, session, retry
  <2> QED
    BY <2>1, <2>2 DEF SessionInv
<1>14. CASE Expire
  BY <1>1, <1>13, <1>14 DEF Expire, TypeOK
<1>15. ASSUME NEW message \in Messages, Publish(message) PROVE SessionInv'
  BY <1>1, <1>13, <1>15 DEF Publish, TypeOK, Packets
<1>16. ASSUME NEW packet \in {"rejected", "eof"}, Misbehave(packet) PROVE SessionInv'
  <2>1. faults' \in 0..MaxFaults
    BY <1>1, <1>16 DEF Misbehave, TypeOK
  <2> QED
    BY <1>13, <1>16, <2>1 DEF Misbehave, Packets
<1>17. CASE Hang
  <2>1. hung' \in BOOLEAN /\ responsive' \in BOOLEAN
    BY <1>17, Zenon DEF Hang
  <2>2. TypeOK'
    BY <1>1, <1>17, <2>1, SMT DEF TypeOK, Hang, retry
  <2>3. DeadlineMatches' /\ BackoffMatches' /\ ClosedBySignal'
    BY <1>1, <1>17 DEF Hang, DeadlineMatches, BackoffMatches, ClosedBySignal, retry
  <2> QED
    BY <2>2, <2>3 DEF SessionInv
<1>18. CASE Recover
  <2>1. TypeOK'
    BY <1>1, <1>18, SMT DEF TypeOK, Recover, session, retry
  <2>2. DeadlineMatches' /\ BackoffMatches' /\ ClosedBySignal'
    BY <1>1, <1>18 DEF Recover, DeadlineMatches, BackoffMatches, ClosedBySignal, session, retry
  <2> QED
    BY <2>1, <2>2 DEF SessionInv
<1>19. CASE Tick
  <2>1. timer' \in Nat \cup {None} /\ (timer # None => timer' = timer - 1)
    BY <1>1, <1>19 DEF TypeOK, Tick, None
  <2>2. age' \in 0..LongSession /\ unsent' \in 0..Grace /\ quiet' \in Nat
    BY <1>1, <1>19 DEF TypeOK, Tick, Least
  <2>3. late' \in 0..MaxReply
    BY <1>1, <1>19 DEF TypeOK, Tick
  <2>4. TypeOK'
    BY <1>1, <1>19, <2>1, <2>2, <2>3, SMT DEF TypeOK, Tick, retry
  <2>5. DeadlineMatches'
    BY <1>1, <1>19, <2>1 DEF TypeOK, Tick, DeadlineMatches, None
  <2>6. BackoffMatches' /\ ClosedBySignal'
    BY <1>1, <1>19 DEF Tick, BackoffMatches, ClosedBySignal, retry
  <2> QED
    BY <2>4, <2>5, <2>6 DEF SessionInv
<1>20. CASE UNCHANGED vars
  <2>1. TypeOK'
    BY <1>1, <1>20, SMT DEF TypeOK, vars, session, retry, broker
  <2>2. DeadlineMatches' /\ BackoffMatches' /\ ClosedBySignal'
    BY <1>1, <1>20
       DEF DeadlineMatches, BackoffMatches, ClosedBySignal, vars, session, retry,
           broker
  <2> QED
    BY <2>1, <2>2 DEF SessionInv
<1> QED
  BY <1>2, <1>3, <1>4, <1>5, <1>6, <1>7, <1>8, <1>9, <1>10, <1>11, <1>12, <1>14, <1>15, <1>16,
     <1>17, <1>18, <1>19, <1>20 DEF Next, Client

(* A packet that is read renews the deadline; every other step of the client *)
(* and the broker keeps the answer to a ping on its way.                     *)
LEMMA AnswersStep == SessionInv /\ AnswersInTime /\ [Next]_vars => AnswersInTime'
<1> SUFFICES ASSUME SessionInv, AnswersInTime, [Next]_vars PROVE AnswersInTime'
  OBVIOUS
<1> USE ClientAssumption DEF ending, Connected
<1>1. TypeOK /\ DeadlineMatches
  BY DEF SessionInv
<1>2. CASE Leave \/ Connect \/ DialFails \/ Wake \/ DialAborted \/ WaitAborted
  BY <1>2 DEF Leave, Connect, DialFails, Wake, DialAborted, WaitAborted, AnswersInTime
<1>3. CASE ReadConnack /\ ~Leave
  <2>1. ~hung' => responsive'
    <3>1. hung' = ~responsive
      BY <1>3, Zenon DEF ReadConnack
    <3>2. responsive' = responsive
      BY <1>3, SMT DEF ReadConnack
    <3> QED
      BY <3>1, <3>2, Zenon
  <2>2. ~awaiting'
    BY <1>3, Zenon DEF ReadConnack
  <2>3. timer' = ReadTimeout /\ late' = late
    BY <1>3 DEF ReadConnack, NextDeadline
  <2> QED
    BY <1>1, <2>1, <2>2, <2>3 DEF AnswersInTime, TypeOK
<1>4. CASE ReadPacket /\ ~Leave
  <2>1. ~hung' => responsive'
    <3>1. hung' = ~responsive
      BY <1>4, Zenon DEF ReadPacket
    <3>2. responsive' = responsive
      BY <1>4, SMT DEF ReadPacket
    <3> QED
      BY <3>1, <3>2, Zenon
  <2>2. ~awaiting'
    BY <1>4, Zenon DEF ReadPacket
  <2>3. timer' = ReadTimeout /\ late' = late
    BY <1>4 DEF ReadPacket, NextDeadline
  <2> QED
    BY <1>1, <2>1, <2>2, <2>3 DEF AnswersInTime, TypeOK
<1>5. CASE ReadTimesOut /\ ~Leave
  <2>1. /\ pc = "serving" /\ Write("pingresp") /\ timer' = ReadTimeout
        /\ UNCHANGED <<hung, inbox, late, responsive>>
    BY <1>5 DEF ReadTimesOut, NextDeadline
  <2>2. Broken' <=> Broken
    BY <2>1 DEF Broken
  <2>3. ~Broken => owed' # <<>>
    BY <1>1, <2>1 DEF Write, TypeOK
  <2> QED
    BY <1>1, <2>1, <2>2, <2>3 DEF AnswersInTime, TypeOK
<1>6. CASE \/ Answer \/ Expire
           \/ \E message \in Messages : Publish(message)
           \/ \E packet \in {"rejected", "eof"} : Misbehave(packet)
  <2>1. /\ ~Broken /\ inbox' # <<>>
        /\ UNCHANGED <<pc, timer, awaiting, hung, responsive>>
    BY <1>1, <1>6 DEF Answer, Expire, Publish, Misbehave, Receivable, TypeOK, session
  <2> QED
    BY <2>1 DEF AnswersInTime
<1>7. CASE Hang
  BY <1>7 DEF Hang, AnswersInTime
<1>8. CASE Recover
  BY <1>8 DEF Recover, AnswersInTime, session
<1>9. CASE Tick
  <2> SUFFICES ASSUME pc' = "serving", ~hung'
               PROVE  /\ responsive'
                      /\ ~Broken' =>
                           /\ inbox' = <<>> /\ owed' # <<>> => ReadTimeout - timer' <= late'
                           /\ awaiting' => timer' > 0 /\ (inbox' # <<>> \/ owed' # <<>>)
    BY DEF AnswersInTime
  <2>1. /\ inbox = <<>> /\ UNCHANGED <<pc, awaiting, hung, inbox, owed, responsive>>
        /\ owed # <<>> /\ responsive => late < MaxReply /\ late' = late + 1
    BY <1>9 DEF Tick
  <2>2. /\ pc = "serving" /\ ~hung /\ responsive /\ ~Broken
        /\ timer \in 1..ReadTimeout /\ timer' = timer - 1
    BY <1>1, <1>9, <2>1 DEF Tick, AnswersInTime, DeadlineMatches, None, Broken
  <2>3. /\ owed # <<>> => ReadTimeout - timer <= late
        /\ awaiting => owed # <<>>
    BY <2>1, <2>2 DEF AnswersInTime
  <2> QED
    BY <1>1, <2>1, <2>2, <2>3 DEF TypeOK
<1>10. CASE Cancel \/ CloseWithContext \/ UNCHANGED vars
  BY <1>10 DEF Cancel, CloseWithContext, AnswersInTime, Broken, vars, session, broker
<1>11. CASE ConnectionFails \/ ReadConnack \/ ReadPacket \/ ReadTimesOut
  <2>1. ConnectionFails => Leave
    BY DEF ConnectionFails
  <2> QED
    BY <1>2, <1>3, <1>4, <1>5, <1>11, <2>1
<1> QED
  BY <1>2, <1>6, <1>7, <1>8, <1>9, <1>10, <1>11 DEF Next, Client

(* The client's deadlines, silence and backoff fit together in every state,  *)
(* whatever the broker does and when.                                        *)
THEOREM ClientCorrect == Spec => []ClientInv
<1>1. Init => AnswersInTime
  BY DEF Init, AnswersInTime
<1> QED
  BY <1>1, SessionInit, SessionStep, AnswersStep, PTL DEF Spec, ClientInv, SessionInv

(* A subscription over which nothing comes is kept for at most two read      *)
(* timeouts.                                                                 *)
THEOREM SilentIsLeft == Spec => []SilenceNoticed
<1>1. ClientInv => SilenceNoticed
  BY ClientAssumption DEF ClientInv, SessionInv, TypeOK, DeadlineMatches, SilenceNoticed
<1> QED
  BY <1>1, ClientCorrect, PTL

(* Every wait follows from the one before and the length of the session      *)
(* between them.                                                             *)
THEOREM WaitsGrow == Spec => RetryPace
<1> DEFINE Paced ==
      pc' = "waiting" /\ pc # "waiting" =>
        timer' = IF lastWait = 0 \/ age >= LongSession THEN FirstBackoff ELSE Doubled(lastWait)
<1>1. ASSUME BackoffMatches, Leave \/ DialFails, pc \in {"dialing", "connecting", "serving"}
      PROVE  Paced
  BY <1>1 DEF Leave, DialFails, BackoffMatches, BackoffAfter
<1>2. ASSUME ClientInv, [Next]_vars PROVE Paced
  <2>1. CASE DialFails
    BY <1>1, <1>2, <2>1 DEF DialFails, ClientInv, SessionInv
  <2>2. CASE ReadConnack
    BY <1>1, <1>2, <2>2 DEF ReadConnack, ClientInv, SessionInv
  <2>3. CASE ReadPacket
    BY <1>1, <1>2, <2>3 DEF ReadPacket, ClientInv, SessionInv
  <2>4. CASE ReadTimesOut
    BY <1>1, <1>2, <2>4 DEF ReadTimesOut, ClientInv, SessionInv
  <2>5. CASE ConnectionFails
    BY <1>1, <1>2, <2>5 DEF ConnectionFails, Connected, ClientInv, SessionInv
  <2>6. CASE Connect \/ Wake \/ DialAborted \/ WaitAborted
    BY <2>6 DEF Connect, Wake, DialAborted, WaitAborted
  <2>7. CASE \/ Cancel \/ CloseWithContext \/ Answer \/ Expire \/ Hang \/ Recover \/ Tick
             \/ UNCHANGED vars
             \/ \E message \in Messages : Publish(message)
             \/ \E packet \in {"rejected", "eof"} : Misbehave(packet)
    BY <2>7
       DEF Cancel, CloseWithContext, Answer, Expire, Hang, Recover, Tick, Publish,
           Misbehave, vars
  <2> QED
    BY <1>2, <2>1, <2>2, <2>3, <2>4, <2>5, <2>6, <2>7 DEF Next, Client
<1> QED
  BY <1>2, ClientCorrect, PTL DEF RetryPace, Spec

(* A broker that answers in time and sends what it may is never left.        *)
THEOREM LeftForCause == Spec => LeavesForCause
<1> DEFINE Cause == Broken \/ (inbox # <<>> /\ Head(inbox) \in {"rejected", "eof"}) \/ hung
           Caused == pc = "serving" /\ pc' = "waiting" => Cause
<1>1. ASSUME ClientInv, [Next]_vars PROVE Caused
  <2> SUFFICES ASSUME pc = "serving", pc' = "waiting" PROVE Cause
    OBVIOUS
  <2>1. TypeOK /\ AnswersInTime /\ ClosedBySignal
    BY <1>1 DEF ClientInv, SessionInv
  <2>2. CASE ReadPacket
    <3>1. inbox # <<>> /\ Head(inbox) \notin Packets \ {"rejected"}
      BY <2>2 DEF ReadPacket
    <3>2. Head(inbox) \in Packets \cup {"eof"}
      BY <2>1, <3>1 DEF TypeOK
    <3> QED
      BY <3>1, <3>2
  <2>3. CASE ReadTimesOut
    <3>1. timer = 0 /\ awaiting
      BY <2>3 DEF ReadTimesOut
    <3> QED
      BY <2>1, <3>1 DEF AnswersInTime
  <2>4. CASE ConnectionFails
    BY <2>1, <2>4 DEF ConnectionFails, Leave, ClosedBySignal
  <2>5. CASE Connect \/ DialFails \/ ReadConnack \/ Wake \/ DialAborted \/ WaitAborted
    BY <2>5 DEF Connect, DialFails, ReadConnack, Wake, DialAborted, WaitAborted
  <2>6. CASE \/ Cancel \/ CloseWithContext \/ Answer \/ Expire \/ Hang \/ Recover \/ Tick
             \/ UNCHANGED vars
             \/ \E message \in Messages : Publish(message)
             \/ \E packet \in {"rejected", "eof"} : Misbehave(packet)
    BY <2>6
       DEF Cancel, CloseWithContext, Answer, Expire, Hang, Recover, Tick, Publish,
           Misbehave, vars
  <2> QED
    BY <1>1, <2>2, <2>3, <2>4, <2>5, <2>6 DEF Next, Client
<1> QED
  BY <1>1, ClientCorrect, PTL DEF LeavesForCause, Spec
=============================================================================
