------------------------------- MODULE MqttClient -------------------------------
(***************************************************************************)
(* The MQTT client, internal/mqttmini/client.go: one goroutine that dials  *)
(* the broker of the gateway, subscribes, reads packets until the          *)
(* connection fails, waits and dials again.                                *)
(*                                                                         *)
(* Every step of the client is one call that blocks, with what follows it  *)
(* up to the next one.  The broker answers what it is sent, in order and   *)
(* within MaxReply, while it is responsive; it may also hang with the      *)
(* connection open, drop it, refuse, or send what the client rejects.      *)
(*                                                                         *)
(* Time is counted down and up in units, 10 seconds in the instance that   *)
(* is checked; the client runs before more time passes when it can.        *)
(* Packets arrive whole: the deadline does not come in the middle of one.  *)
(* What the handler does with a message is BridgeRuntime!Receive.          *)
(***************************************************************************)
EXTENDS Integers, Sequences

CONSTANTS
  DialTimeout,   \* 10 seconds
  ReadTimeout,   \* 30 seconds, for each packet
  LongSession,   \* 1 minute: a session that long resets the backoff
  FirstBackoff,  \* 1 second
  BackoffLimit,  \* 30 seconds: the backoff doubles while it is shorter
  KeepAlive,     \* 60 seconds, what CONNECT promises the broker
  Grace,         \* 90 seconds: the broker gives up a client silent that long
  MaxReply,      \* the longest a responsive broker takes to answer
  InboxSize,     \* bound on the packets that were received and not read
  MaxFaults      \* bound on the faults of the broker

ASSUME ClientAssumption ==
  /\ DialTimeout \in Nat /\ LongSession \in Nat
  /\ FirstBackoff \in Nat \ {0} /\ BackoffLimit \in Nat \ {0}
  /\ ReadTimeout \in Nat /\ MaxReply \in Nat /\ MaxReply < ReadTimeout
  /\ KeepAlive \in Nat /\ Grace \in Nat /\ KeepAlive < Grace
  /\ InboxSize \in Nat \ {0} /\ MaxFaults \in Nat

VARIABLES
  pc,         \* where the client's goroutine blocks
  cancelled,  \* ctx is done
  closed,     \* the connection was closed because ctx is done
  backoff,    \* the next wait
  timer,      \* time left of the deadline or the wait, None when there is none
  age,        \* time since started, up to LongSession
  awaiting,   \* awaitingPing
  unsent,     \* time since the client sent a packet, up to Grace
  inbox,      \* packets received and not read; "eof" when the connection ends
  owed,       \* what the broker has to answer
  late,       \* how long it has been owing the first of them
  responsive, \* the broker runs
  quiet,      \* history: time since a packet was read in this session
  lastWait,   \* history: the length of the last wait, 0 before the first
  hung,       \* history: the broker hung since the last packet was read
  faults      \* history: how often the broker failed

ending == <<cancelled, closed>>
session == <<age, awaiting, unsent, quiet, hung>>
retry == <<backoff, lastWait>>
broker == <<inbox, owed, late, responsive, faults>>
vars == <<pc, ending, timer, session, retry, broker>>

-----------------------------------------------------------------------------
(* Data *)

None == -1

(* What the loop of serve tells apart: messages of QoS 0 and 1, of which     *)
(* only the second is acknowledged, and what it reads and ignores, PINGRESP  *)
(* and messages of other topics among them.                                  *)
Messages == {"qos0", "qos1", "ignored"}
Answers == {"connack", "suback", "pingresp"}

(* A code other than 0 in CONNACK, 0x80 in SUBACK, a PUBLISH that            *)
(* parsePublish rejects, or a packet that is malformed or too long.          *)
Packets == Messages \cup Answers \cup {"rejected"}

Connected == pc \in {"connecting", "serving"}
Broken == inbox # <<>> /\ inbox[Len(inbox)] = "eof"

Least(a, b) == IF a < b THEN a ELSE b

Init ==
  /\ pc = "dialing"
  /\ cancelled = FALSE
  /\ closed = FALSE
  /\ backoff = FirstBackoff
  /\ timer = DialTimeout
  /\ age = 0
  /\ awaiting = FALSE
  /\ unsent = 0
  /\ inbox = <<>>
  /\ owed = <<>>
  /\ late = 0
  /\ responsive = TRUE
  /\ quiet = 0
  /\ lastWait = 0
  /\ hung = FALSE
  /\ faults = 0

-----------------------------------------------------------------------------
(* The client *)

(* The client writes a packet that the broker answers, as long as it gets it.*)
Write(answer) ==
  /\ unsent' = 0
  /\ owed' = IF Broken THEN owed ELSE Append(owed, answer)

(* Mutant: one deadline for the session, renewed only when it has passed.    *)
NextDeadlineOnce == timer' = IF timer > 0 THEN timer ELSE ReadTimeout

(* SetReadDeadline, before every packet.                                     *)
NextDeadline == timer' = ReadTimeout

(* Mutant: the backoff grows without a limit.                                *)
DoubledAlways(wait) == 2 * wait
Doubled(wait) == IF wait < BackoffLimit THEN 2 * wait ELSE wait

(* Mutant: a long session does not reset the backoff.                        *)
BackoffKept == backoff
BackoffAfter == IF age >= LongSession THEN FirstBackoff ELSE backoff

(* serve returns with an error, the connection is closed, and Run waits; or   *)
(* it returns, when ctx is done.                                             *)
Leave ==
  /\ pc' = IF cancelled THEN "stopped" ELSE "waiting"
  /\ backoff' = BackoffAfter
  /\ lastWait' = BackoffAfter
  /\ timer' = BackoffAfter
  /\ awaiting' = FALSE /\ closed' = FALSE
  /\ inbox' = <<>> /\ owed' = <<>> /\ late' = 0
  /\ UNCHANGED <<cancelled, age, unsent, quiet, hung, responsive, faults>>

(* The dial succeeds, and CONNECT is written.  No deadline is set.           *)
Connect ==
  /\ pc = "dialing"
  /\ pc' = "connecting"
  /\ timer' = None
  /\ Write("connack")
  /\ UNCHANGED <<ending, age, awaiting, quiet, hung, retry, inbox, late, responsive, faults>>

(* Nothing listens, or the broker hangs for so long that nobody accepts.     *)
DialFails ==
  /\ pc = "dialing"
  /\ \/ timer = 0 /\ ~responsive /\ UNCHANGED faults
     \/ faults < MaxFaults /\ faults' = faults + 1
  /\ pc' = IF cancelled THEN "stopped" ELSE "waiting"
  /\ backoff' = BackoffAfter /\ lastWait' = BackoffAfter /\ timer' = BackoffAfter
  /\ UNCHANGED <<ending, session, inbox, owed, late, responsive>>

(* Mutant: a refused connection is not tried again.                          *)
ReadConnackFinal ==
  /\ pc = "connecting" /\ ~closed /\ inbox # <<>>
  /\ inbox' = Tail(inbox)
  /\ IF Head(inbox) = "connack"
     THEN /\ pc' = "serving"
          /\ Write("suback")
          /\ awaiting' = FALSE /\ quiet' = 0 /\ hung' = ~responsive
          /\ NextDeadline
     ELSE /\ pc' = "stopped"
          /\ UNCHANGED <<timer, awaiting, unsent, quiet, hung, owed>>
  /\ UNCHANGED <<ending, age, retry, late, responsive, faults>>

(* The first packet: CONNACK, after which SUBSCRIBE is written, or an error. *)
ReadConnack ==
  /\ pc = "connecting" /\ ~closed /\ inbox # <<>>
  /\ IF Head(inbox) = "connack"
     THEN /\ pc' = "serving"
          /\ inbox' = Tail(inbox)
          /\ Write("suback")
          /\ awaiting' = FALSE /\ quiet' = 0 /\ hung' = ~responsive
          /\ NextDeadline
          /\ UNCHANGED <<ending, age, retry, late, responsive, faults>>
     ELSE Leave

(* Mutant: a ping that was answered is still awaited.                        *)
ReadPacketKeepsAwaiting ==
  /\ pc = "serving" /\ ~closed /\ inbox # <<>>
  /\ IF Head(inbox) \in Packets \ {"rejected"}
     THEN /\ inbox' = Tail(inbox)
          /\ quiet' = 0 /\ hung' = ~responsive
          /\ unsent' = IF Head(inbox) = "qos1" THEN 0 ELSE unsent
          /\ NextDeadline
          /\ UNCHANGED <<pc, ending, age, awaiting, retry, owed, late, responsive, faults>>
     ELSE Leave

(* The loop of serve: a message is handed over and, if of QoS 1, acknowledged*)
(* with PUBACK; an answer or another packet changes nothing but the deadline.*)
ReadPacket ==
  /\ pc = "serving" /\ ~closed /\ inbox # <<>>
  /\ IF Head(inbox) \in Packets \ {"rejected"}
     THEN /\ inbox' = Tail(inbox)
          /\ awaiting' = FALSE /\ quiet' = 0 /\ hung' = ~responsive
          /\ unsent' = IF Head(inbox) = "qos1" THEN 0 ELSE unsent
          /\ NextDeadline
          /\ UNCHANGED <<pc, ending, age, retry, owed, late, responsive, faults>>
     ELSE Leave

(* Mutant: another ping is sent, however many were not answered.             *)
ReadTimesOutPatiently ==
  /\ pc = "serving" /\ ~closed /\ timer = 0
  /\ Write("pingresp")
  /\ awaiting' = TRUE
  /\ NextDeadline
  /\ UNCHANGED <<pc, ending, age, quiet, hung, retry, inbox, late, responsive, faults>>

(* No packet for ReadTimeout: PINGREQ, and the second time an error.         *)
ReadTimesOut ==
  /\ pc = "serving" /\ ~closed /\ timer = 0
  /\ IF awaiting THEN Leave
     ELSE /\ Write("pingresp")
          /\ awaiting' = TRUE
          /\ NextDeadline
          /\ UNCHANGED <<pc, ending, age, quiet, hung, retry, inbox, late, responsive, faults>>

(* A read or a write fails, whatever was received before: the connection was *)
(* reset, or was closed under the client.                                    *)
ConnectionFails == Connected /\ (Broken \/ closed) /\ Leave

(* Run: the wait is over.                                                    *)
Wake ==
  /\ pc = "waiting" /\ timer = 0
  /\ backoff' = Doubled(backoff)
  /\ IF cancelled THEN pc' = "stopped" /\ UNCHANGED <<timer, age>>
     ELSE pc' = "dialing" /\ timer' = DialTimeout /\ age' = 0
  /\ UNCHANGED <<ending, awaiting, unsent, quiet, hung, lastWait, broker>>

(* The three waits see the end of ctx each in its own way, and in the loop   *)
(* Run looks at it.  DialContext returns an error, and Run returns.          *)
DialAborted ==
  /\ pc = "dialing" /\ cancelled
  /\ pc' = "stopped"
  /\ UNCHANGED <<ending, timer, session, retry, broker>>

(* Mutant: the function is registered when the session is up.                *)
CloseWhenServing ==
  /\ cancelled /\ pc = "serving" /\ ~closed
  /\ closed' = TRUE
  /\ UNCHANGED <<pc, cancelled, timer, session, retry, broker>>

(* context.AfterFunc: a goroutine of its own closes the connection, also one *)
(* that was made after the signal; the client finds out by ConnectionFails.  *)
CloseWithContext ==
  /\ cancelled /\ Connected /\ ~closed
  /\ closed' = TRUE
  /\ UNCHANGED <<pc, cancelled, timer, session, retry, broker>>

(* The select of Run.                                                        *)
WaitAborted ==
  /\ pc = "waiting" /\ cancelled
  /\ pc' = "stopped"
  /\ UNCHANGED <<ending, timer, session, retry, broker>>

-----------------------------------------------------------------------------
(* The environment *)

Cancel ==
  /\ ~cancelled
  /\ cancelled' = TRUE
  /\ UNCHANGED <<pc, closed, timer, session, retry, broker>>

Receivable == Connected /\ ~Broken /\ Len(inbox) < InboxSize

(* The broker answers the packet that waits longest.                         *)
Answer ==
  /\ Receivable /\ responsive /\ owed # <<>>
  /\ inbox' = Append(inbox, Head(owed))
  /\ owed' = Tail(owed) /\ late' = 0
  /\ UNCHANGED <<pc, ending, timer, session, retry, responsive, faults>>

(* A message, which may come before SUBACK, or a packet without meaning.     *)
Publish(message) ==
  /\ Receivable /\ responsive /\ pc = "serving"
  /\ inbox' = Append(inbox, message)
  /\ UNCHANGED <<pc, ending, timer, session, retry, owed, late, responsive, faults>>

(* The broker closes the connection of a client that was silent for Grace.   *)
Expire ==
  /\ Connected /\ ~Broken /\ responsive
  /\ unsent >= Grace
  /\ inbox' = Append(inbox, "eof")
  /\ UNCHANGED <<pc, ending, timer, session, retry, owed, late, responsive, faults>>

(* The broker restarts, or sends what the client rejects.                    *)
Misbehave(packet) ==
  /\ Connected /\ ~Broken
  /\ faults < MaxFaults /\ faults' = faults + 1
  /\ packet = "eof" \/ responsive
  /\ inbox' = Append(inbox, packet)
  /\ UNCHANGED <<pc, ending, timer, session, retry, owed, late, responsive>>

(* The broker hangs; the system below it keeps its connections open.         *)
Hang ==
  /\ responsive
  /\ faults < MaxFaults /\ faults' = faults + 1
  /\ responsive' = FALSE /\ hung' = TRUE
  /\ UNCHANGED <<pc, ending, timer, age, awaiting, unsent, quiet, retry, inbox, owed, late>>

Recover ==
  /\ ~responsive
  /\ responsive' = TRUE /\ late' = 0
  /\ UNCHANGED <<pc, ending, timer, session, retry, inbox, owed, faults>>

(* Time passes: not while there is a packet to read or a deadline that came, *)
(* nor beyond what the broker may take, nor after the signal, when one of    *)
(* DialAborted, CloseWithContext, ConnectionFails and WaitAborted can run.   *)
Tick ==
  /\ pc # "stopped" /\ ~cancelled
  /\ timer # 0 /\ inbox = <<>>
  /\ responsive /\ owed # <<>> => late < MaxReply
  /\ timer' = IF timer = None THEN None ELSE timer - 1
  /\ age' = Least(age + 1, LongSession)
  /\ unsent' = Least(unsent + 1, Grace)
  /\ quiet' = IF pc = "serving" THEN quiet + 1 ELSE quiet
  /\ late' = IF responsive /\ owed # <<>> THEN late + 1 ELSE late
  /\ UNCHANGED <<pc, ending, awaiting, hung, retry, inbox, owed, responsive, faults>>

Client ==
  \/ Connect \/ DialFails
  \/ ReadConnack \/ ReadPacket \/ ReadTimesOut \/ ConnectionFails
  \/ Wake
  \/ DialAborted \/ CloseWithContext \/ WaitAborted

Next ==
  \/ Client
  \/ Cancel
  \/ Answer \/ Expire \/ Hang \/ Recover
  \/ \E message \in Messages : Publish(message)
  \/ \E packet \in {"rejected", "eof"} : Misbehave(packet)
  \/ Tick

Spec == Init /\ [][Next]_vars

(* The goroutines run when they can, time passes, a responsive broker answers*)
(* and accepts connections.  Nothing obliges a broker to recover.            *)
Fairness ==
  /\ WF_vars(ReadConnack \/ ReadPacket \/ ReadTimesOut \/ ConnectionFails)
  /\ WF_vars(Connect) /\ WF_vars(Wake)
  /\ WF_vars(DialAborted) /\ WF_vars(CloseWithContext) /\ WF_vars(WaitAborted)
  /\ WF_vars(Answer)
  /\ WF_vars(Tick)

FairSpec == Spec /\ Fairness

-----------------------------------------------------------------------------
(* Properties *)

States == {"dialing", "connecting", "serving", "waiting", "stopped"}

TypeOK ==
  /\ pc \in States
  /\ cancelled \in BOOLEAN
  /\ closed \in BOOLEAN
  /\ backoff \in Nat \ {0} /\ backoff < FirstBackoff + 2 * BackoffLimit
  /\ timer \in Nat \cup {None}
  /\ age \in 0..LongSession
  /\ awaiting \in BOOLEAN
  /\ unsent \in 0..Grace
  /\ inbox \in Seq(Packets \cup {"eof"})
  /\ owed \in Seq(Answers)
  /\ late \in 0..MaxReply
  /\ responsive \in BOOLEAN
  /\ quiet \in Nat
  /\ lastWait \in Nat
  /\ hung \in BOOLEAN
  /\ faults \in 0..MaxFaults

(* A subscription to a broker that says nothing any more is kept for two     *)
(* read timeouts at most, whatever was read before, so that the values       *)
(* HomeKit keeps showing are not those of a connection that is dead.         *)
SilenceNoticed == pc = "serving" => quiet <= 2 * ReadTimeout

(* How the deadline, the ping and the silence fit together while serving.    *)
DeadlineMatches ==
  pc = "serving" =>
    /\ timer \in 0..ReadTimeout
    /\ quiet + timer = IF awaiting THEN 2 * ReadTimeout ELSE ReadTimeout

(* The wait that comes next follows from the last one.                       *)
BackoffMatches ==
  /\ pc = "waiting" => backoff = lastWait
  /\ pc \in {"dialing", "connecting", "serving"} =>
       backoff = IF lastWait = 0 THEN FirstBackoff ELSE Doubled(lastWait)

(* While the broker has not hung since the last packet, the answer it owes   *)
(* was not owed for less time than the deadline has run, and the answer to a *)
(* ping comes before the deadline.                                           *)
AnswersInTime ==
  pc = "serving" /\ ~hung =>
    /\ responsive
    /\ ~Broken =>
         /\ inbox = <<>> /\ owed # <<>> => ReadTimeout - timer <= late
         /\ awaiting => timer > 0 /\ (inbox # <<>> \/ owed # <<>>)

(* A connection is closed under the client only after the signal.            *)
ClosedBySignal == closed => cancelled /\ Connected

SessionInv == TypeOK /\ DeadlineMatches /\ BackoffMatches /\ ClosedBySignal

(* The inductive invariant behind SilenceNoticed, RetryPace and              *)
(* LeavesForCause.                                                           *)
ClientInv == SessionInv /\ AnswersInTime

(* A wait is the first one, or twice the one before until the limit is       *)
(* reached, unless the session between them was a long one.                  *)
RetryPace ==
  [][pc' = "waiting" /\ pc # "waiting" =>
       timer' = IF lastWait = 0 \/ age >= LongSession THEN FirstBackoff
                ELSE Doubled(lastWait)]_vars

(* The client leaves a subscription only for a cause: the connection ended,  *)
(* the broker sent what it must not, or it hung since the last packet.  One  *)
(* that answers in time is never left, however little it has to say.         *)
LeavesForCause ==
  [][pc = "serving" /\ pc' = "waiting" =>
       \/ Broken
       \/ inbox # <<>> /\ Head(inbox) \in {"rejected", "eof"}
       \/ hung]_vars

(* After the signal Run returns, wherever it blocks: in a dial, in the wait  *)
(* between two sessions, on a subscription or for a CONNACK that never comes.*)
(* The last two have no deadline that ends Run, only the closed connection.  *)
SignalEnds == cancelled ~> pc = "stopped"

(* README.en.md:108-110: the bridge reconnects in the background.  However   *)
(* the broker failed before, once it is responsive for good the client is    *)
(* subscribed again and again.                                               *)
Resubscribes == []<>(pc = "serving" \/ cancelled \/ ~responsive)

(* client.go:157 promises the broker a packet within the keep-alive time,    *)
(* and a broker may disconnect a client that breaks it.                      *)
KeepAliveKept == pc = "serving" => unsent <= KeepAlive
=============================================================================
