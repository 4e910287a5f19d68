-------------------------- MODULE DeduplicatorProofs --------------------------
(***************************************************************************)
(* Proofs about Deduplicator for every set of devices, every counter to    *)
(* start from and every time limit with MaxDelay < ResetAfter.             *)
(***************************************************************************)
EXTENDS Deduplicator, TLAPS

(* Two numbers of which the first is at most 127 behind the second are       *)
(* recognised as a duplicate or as stale by their 8-bit counters alone.      *)
LEMMA OldFrameDelta ==
  ASSUME NEW n \in Nat, NEW p \in Nat, n <= p, p - n < 128
  PROVE  LET delta == ((n % Modulus) - (p % Modulus)) % Modulus
         IN  delta = 0 \/ delta > 127
BY Z3 DEF Modulus

LEMMA CounterRange ==
  ASSUME NEW n \in Nat
  PROVE  n % Modulus \in 0..(Modulus - 1)
BY Z3 DEF Modulus

(* A baseline is a counter and the time it was accepted.                     *)
LEMMA Baselines ==
  ASSUME TypeOK, NEW d \in Devices
  PROVE  /\ Known(d) => frames[d] \in FrameState
         /\ ~Known(d) => frames[d].seenAt = -1
BY DEF TypeOK, Known, NoBaseline

LEMMA OrderInit == Init => OrderInv
<1> SUFFICES ASSUME Init PROVE OrderInv
  OBVIOUS
<1> USE DeduplicatorAssumption
<1>0. sent \in [Devices -> Nat]
  <2>1. Counters \subseteq Nat
    BY DEF Modulus
  <2> QED
    BY <2>1 DEF Init
<1>1. TypeOK
  BY <1>0 DEF Init, TypeOK
<1>2. BaselineIsAccepted
  <2> SUFFICES ASSUME NEW d \in Devices
               PROVE  accepted[d] <= sent[d] /\ ~Known(d) /\ accepted[d] = -1
    BY DEF BaselineIsAccepted
  <2>1. sent[d] \in Nat /\ accepted[d] = -1
    BY <1>0 DEF Init
  <2> QED
    BY <2>1 DEF Init, Known
<1>3. AirIsRecent /\ SuppressionBounded
  BY DEF Init, AirIsRecent, SuppressionBounded
<1> QED
  BY <1>1, <1>2, <1>3 DEF OrderInv

(* A frame newer than all before it, few numbers ahead of the copies under   *)
(* way, may be published on any topics.                                      *)
LEMMA PublishOrder ==
  ASSUME OrderInv, NEW d \in Devices, NEW n \in Nat, NEW topics \in SUBSET Topics,
         Publish(d, n, topics), n > sent[d],
         \A c \in air : c.device = d => n - c.seq < 128
  PROVE  OrderInv'
<1> USE DeduplicatorAssumption
<1>1. TypeOK /\ BaselineIsAccepted /\ AirIsRecent /\ SuppressionBounded
  BY DEF OrderInv
<1>2. /\ sent' = [sent EXCEPT ![d] = n]
      /\ air' = air \cup [device : {d}, seq : {n}, at : {clock}, topic : topics]
      /\ published' = published + 1
      /\ UNCHANGED <<clock, frames, accepted, heard, admitted>>
  BY DEF Publish, history
<1>3. TypeOK'
  BY <1>1, <1>2 DEF TypeOK, Copy
<1>4. BaselineIsAccepted'
  BY <1>1, <1>2 DEF BaselineIsAccepted, TypeOK, Known
<1>5. SuppressionBounded'
  BY <1>1, <1>2 DEF SuppressionBounded
<1>6. AirIsRecent'
  <2> SUFFICES ASSUME NEW copy \in air'
               PROVE  /\ copy.seq <= sent'[copy.device]
                      /\ sent'[copy.device] - copy.seq < 128
                      /\ copy.at <= clock'
                      /\ clock' <= copy.at + MaxDelay
                      /\ copy.seq <= accepted'[copy.device]
                         => copy.at <= frames'[copy.device].seenAt
    BY DEF AirIsRecent
  <2>1. CASE copy \in air
    BY <1>1, <1>2, <2>1 DEF AirIsRecent, TypeOK, Copy
  <2>2. CASE copy \notin air
    <3>1. copy.device = d /\ copy.seq = n /\ copy.at = clock
      BY <1>2, <2>2
    <3>2. accepted[d] < n /\ accepted[d] \in Int
      BY <1>1 DEF BaselineIsAccepted, TypeOK
    <3> QED
      BY <1>1, <1>2, <3>1, <3>2 DEF TypeOK
  <2> QED
    BY <2>1, <2>2
<1> QED
  BY <1>3, <1>4, <1>5, <1>6 DEF OrderInv

(* A copy that is accepted is newer than every frame accepted before.        *)
LEMMA AcceptedIsNewer ==
  ASSUME OrderInv, NEW copy \in air,
         Classify(Report(copy.device, copy.seq)) = "accepted"
  PROVE  accepted[copy.device] < copy.seq
<1> DEFINE d == copy.device
           n == copy.seq
           p == accepted[d]
<1> USE DeduplicatorAssumption
<1>1. TypeOK /\ BaselineIsAccepted /\ AirIsRecent
  BY DEF OrderInv
<1>2. d \in Devices /\ n \in Nat /\ copy.at \in Nat /\ p \in Nat \cup {-1} /\ sent[d] \in Nat
  BY <1>1 DEF TypeOK, Copy
<1>3. CASE ~Known(d)
  BY <1>1, <1>2, <1>3 DEF BaselineIsAccepted
<1>4. CASE Known(d) /\ Silent(d)
  <2>1. frames[d].seenAt \in Nat /\ clock - frames[d].seenAt >= ResetAfter
    BY <1>2, <1>1, <1>4, Baselines DEF Silent, FrameState
  <2>2. clock <= copy.at + MaxDelay /\ (n <= p => copy.at <= frames[d].seenAt) /\ clock \in Nat
    BY <1>1 DEF AirIsRecent, TypeOK
  <2> QED
    BY <1>2, <2>1, <2>2
<1>5. CASE Known(d) /\ ~Silent(d)
  <2>1. Delta(Report(d, n)) # 0 /\ ~(Delta(Report(d, n)) > 127)
    BY <1>5, Zenon DEF Classify, Report
  <2>2. frames[d].counter = p % Modulus
    BY <1>1, <1>2, <1>5 DEF BaselineIsAccepted
  <2>3. Delta(Report(d, n)) = ((n % Modulus) - (p % Modulus)) % Modulus
    BY <2>2 DEF Delta, Report
  <2>4. sent[d] - n < 128 /\ p <= sent[d]
    BY <1>1, <1>2 DEF AirIsRecent, BaselineIsAccepted
  <2>5. SUFFICES ASSUME n <= p PROVE FALSE
    BY <1>2
  <2>6. p \in Nat /\ p - n < 128
    BY <1>2, <2>4, <2>5
  <2> QED
    BY <1>2, <2>1, <2>3, <2>5, <2>6, OldFrameDelta
<1> QED
  BY <1>3, <1>4, <1>5

(* Delivering a copy, accepted or not.                                       *)
LEMMA DeliverOrder ==
  ASSUME OrderInv, NEW copy \in air, Deliver(copy)
  PROVE  OrderInv'
<1> DEFINE d == copy.device
           report == Report(copy.device, copy.seq)
<1> USE DeduplicatorAssumption
<1>1. TypeOK /\ BaselineIsAccepted /\ AirIsRecent /\ SuppressionBounded
  BY DEF OrderInv
<1>2. d \in Devices /\ copy.seq \in Nat /\ clock \in Nat
  BY <1>1 DEF TypeOK, Copy
<1>3. /\ air' = air \ {copy}
      /\ heard' = [heard EXCEPT ![d] = clock]
      /\ UNCHANGED <<clock, published, sent>>
  BY DEF Deliver
<1>4. CASE Classify(report) = "accepted"
  <2>1. /\ frames' = [frames EXCEPT ![d] = [counter |-> copy.seq % Modulus, seenAt |-> clock]]
        /\ accepted' = [accepted EXCEPT ![d] = copy.seq]
        /\ admitted' = [admitted EXCEPT ![d] = clock]
    BY <1>4 DEF Deliver, Remember, Report
  <2>2. [counter |-> copy.seq % Modulus, seenAt |-> clock] \in FrameState
    BY <1>2, CounterRange DEF FrameState
  <2>3. TypeOK'
    BY <1>1, <1>2, <1>3, <2>1, <2>2 DEF TypeOK
  <2>4. BaselineIsAccepted'
    <3> SUFFICES ASSUME NEW e \in Devices
                 PROVE  /\ accepted'[e] <= sent'[e]
                        /\ IF Known(e)'
                           THEN /\ frames'[e].counter = accepted'[e] % Modulus
                                /\ frames'[e].seenAt = admitted'[e]
                                /\ frames'[e].seenAt <= clock'
                           ELSE accepted'[e] = -1
      BY DEF BaselineIsAccepted
    <3>1. CASE e = d
      <4>1. /\ frames'[e] = [counter |-> copy.seq % Modulus, seenAt |-> clock]
            /\ accepted'[e] = copy.seq /\ admitted'[e] = clock
        BY <1>1, <1>2, <2>1, <3>1 DEF TypeOK
      <4>2. Known(e)'
        BY <1>2, <4>1 DEF Known, NoBaseline
      <4>3. copy.seq <= sent'[e]
        BY <1>1, <1>3, <3>1 DEF AirIsRecent
      <4> QED
        BY <1>2, <1>3, <4>1, <4>2, <4>3
    <3>2. CASE e # d
      <4>1. /\ frames'[e] = frames[e] /\ accepted'[e] = accepted[e] /\ admitted'[e] = admitted[e]
            /\ Known(e)' = Known(e)
        BY <1>1, <2>1, <3>2 DEF TypeOK, Known
      <4> QED
        BY <1>1, <1>3, <4>1 DEF BaselineIsAccepted
    <3> QED
      BY <3>1, <3>2
  <2>5. AirIsRecent'
    BY <1>1, <1>2, <1>3, <2>1 DEF AirIsRecent, TypeOK, Copy
  <2>6. SuppressionBounded'
    BY <1>1, <1>2, <1>3, <2>1 DEF SuppressionBounded, TypeOK
  <2> QED
    BY <2>3, <2>4, <2>5, <2>6 DEF OrderInv
<1>5. CASE Classify(report) # "accepted"
  <2>1. UNCHANGED <<frames, accepted, admitted>>
    BY <1>5 DEF Deliver, Remember
  <2>2. Known(d) /\ ~Silent(d)
    BY <1>5 DEF Classify, Report
  <2>3. TypeOK' /\ BaselineIsAccepted' /\ AirIsRecent'
    BY <1>1, <1>2, <1>3, <2>1 DEF TypeOK, BaselineIsAccepted, AirIsRecent, Known
  <2>4. admitted[d] \in Nat /\ clock - admitted[d] < ResetAfter
    <3>1. frames[d].seenAt \in Nat /\ admitted[d] = frames[d].seenAt
      BY <1>1, <1>2, <2>2, Baselines DEF BaselineIsAccepted, FrameState
    <3> QED
      BY <1>2, <2>2, <3>1 DEF Silent
  <2>5. SuppressionBounded'
    BY <1>1, <1>2, <1>3, <2>1, <2>4 DEF SuppressionBounded, TypeOK
  <2> QED
    BY <2>3, <2>5 DEF OrderInv
<1> QED
  BY <1>4, <1>5

LEMMA OrderNext == OrderInv /\ [Next]_vars => OrderInv'
<1> SUFFICES ASSUME OrderInv, [Next]_vars PROVE OrderInv'
  OBVIOUS
<1> USE DeduplicatorAssumption
<1>1. TypeOK /\ BaselineIsAccepted /\ AirIsRecent /\ SuppressionBounded
  BY DEF OrderInv
<1>2. ASSUME NEW d \in Devices, NEW topics \in SUBSET Topics, NEW gap \in Gaps,
             Send(d, gap, topics)
      PROVE  OrderInv'
  <2>1. sent[d] \in Nat /\ gap \in Nat /\ gap > 0
    BY <1>1 DEF TypeOK
  <2> DEFINE n == sent[d] + gap
  <2>2. Publish(d, n, topics)
    BY <1>2, Zenon DEF Send
  <2>3. \A c \in air : c.device = d => n - c.seq < 128
    BY <1>1, <1>2, <2>1 DEF Send, TypeOK, Copy
  <2>4. n \in Nat /\ n > sent[d]
    BY <2>1
  <2> HIDE DEF n
  <2> QED
    BY <2>2, <2>3, <2>4, PublishOrder
<1>3. ASSUME NEW d \in Devices, NEW topics \in SUBSET Topics, NEW c \in Counters,
             Reboot(d, c, topics)
      PROVE  OrderInv'
  <2>1. sent[d] \in Nat /\ c \in Nat
    BY <1>1 DEF TypeOK, Modulus
  <2> DEFINE n == (sent[d] \div Modulus + 1) * Modulus + c
  <2>2. n \in Nat /\ n > sent[d]
    BY <2>1, Z3 DEF Modulus
  <2>3. Publish(d, n, topics) /\ \A copy \in air : copy.device # d
    BY <1>3 DEF Reboot
  <2> QED
    BY <2>2, <2>3, PublishOrder
<1>4. ASSUME NEW copy \in air, Deliver(copy) PROVE OrderInv'
  BY <1>4, DeliverOrder
<1>5. ASSUME NEW copy \in air, Lose(copy) PROVE OrderInv'
  <2>1. air' \subseteq air /\ UNCHANGED <<clock, published, sent, frames, accepted, heard, admitted>>
    BY <1>5 DEF Lose, history
  <2> QED
    BY <1>1, <2>1
    DEF OrderInv, TypeOK, BaselineIsAccepted, AirIsRecent, SuppressionBounded, Known
<1>6. CASE Tick
  <2>1. /\ clock' = clock + 1 /\ \A copy \in air : clock < copy.at + MaxDelay
        /\ UNCHANGED <<published, sent, air, frames, accepted, heard, admitted>>
    BY <1>6 DEF Tick, history
  <2>2. TypeOK' /\ SuppressionBounded'
    BY <1>1, <2>1 DEF TypeOK, SuppressionBounded
  <2>3. BaselineIsAccepted'
    <3>1. \A d \in Devices : Known(d) => frames[d].seenAt \in Nat
      BY <1>1, Baselines DEF FrameState
    <3> QED
      BY <1>1, <2>1, <3>1 DEF BaselineIsAccepted, Known, TypeOK
  <2>4. AirIsRecent'
    BY <1>1, <2>1 DEF AirIsRecent, TypeOK, Copy
  <2> QED
    BY <2>2, <2>3, <2>4 DEF OrderInv
<1>7. CASE UNCHANGED vars
  BY <1>1, <1>7 DEF vars, history, OrderInv, TypeOK, BaselineIsAccepted, AirIsRecent,
                    SuppressionBounded, Known
<1> QED
  BY <1>2, <1>3, <1>4, <1>5, <1>6, <1>7 DEF Next

(* The baseline, the copies under way and the history fit together.          *)
THEOREM FramesInOrder == Spec => []OrderInv
<1> QED
  BY OrderInit, OrderNext, PTL DEF Spec

(* No device is silenced for ResetAfter or longer while reports of it come.  *)
THEOREM NeverSilenced == Spec => []SuppressionBounded
<1>1. OrderInv => SuppressionBounded
  BY DEF OrderInv
<1> QED
  BY <1>1, FramesInOrder, PTL

(* No frame is applied twice or after a newer one.                           *)
THEOREM EachFrameOnce == Spec => NoReplay
<1> DEFINE Forward == \A d \in Devices : accepted'[d] = accepted[d] \/ accepted'[d] > accepted[d]
<1>1. ASSUME OrderInv, [Next]_vars PROVE Forward
  <2>1. CASE UNCHANGED accepted
    BY <2>1
  <2>2. ASSUME NEW copy \in air, Deliver(copy) PROVE Forward
    <3>1. CASE Classify(Report(copy.device, copy.seq)) = "accepted"
      <4>1. accepted' = [accepted EXCEPT ![copy.device] = copy.seq]
        BY <2>2, <3>1 DEF Deliver
      <4>2. accepted[copy.device] < copy.seq
        BY <1>1, <3>1, AcceptedIsNewer
      <4>3. accepted \in [Devices -> Nat \cup {-1}] /\ copy.seq \in Nat
        BY <1>1 DEF OrderInv, TypeOK, Copy
      <4> QED
        BY <4>1, <4>2, <4>3
    <3>2. CASE Classify(Report(copy.device, copy.seq)) # "accepted"
      BY <2>1, <2>2, <3>2 DEF Deliver
    <3> QED
      BY <3>1, <3>2
  <2>3. UNCHANGED accepted \/ \E copy \in air : Deliver(copy)
    BY <1>1 DEF Next, Send, Reboot, Publish, Lose, Tick, vars, history
  <2> QED
    BY <2>1, <2>2, <2>3
<1> QED
  BY <1>1, FramesInOrder, PTL DEF Spec, NoReplay
=============================================================================
