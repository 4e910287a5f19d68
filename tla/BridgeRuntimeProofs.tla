-------------------------- MODULE BridgeRuntimeProofs --------------------------
(***************************************************************************)
(* Proofs about BridgeRuntime for every set of devices and toothbrushes,   *)
(* every capacity of the queue and every number of frames.                 *)
(***************************************************************************)
EXTENDS BridgeRuntime, TLAPS

LEMMA PipelineInit == Init => PipelineInv
<1> SUFFICES ASSUME Init PROVE PipelineInv
  OBVIOUS
<1> USE RuntimeAssumption DEF registry, frames, shown
<1>1. TypeOK
  <2>1. sent \in [Devices -> Seq(Payloads)]
    BY DEF Init
  <2>2. queue \in Seq(Report) /\ Len(queue) <= Capacity
    BY DEF Init
  <2>3. baseline \in [Devices -> 0..MaxFrames] /\ initial \in [Devices -> 0..MaxFrames]
    BY DEF Init
  <2>4. applied \in [Devices -> SUBSET (1..MaxFrames)]
    BY DEF Init
  <2>5. cancelled \in BOOLEAN /\ changed \in BOOLEAN
    BY Zenon DEF Init
  <2>6. \A d \in Devices : sent[d] \in Seq(Kinds(d))
    BY DEF Init
  <2>7. /\ accepted \in [Devices -> SUBSET (1..MaxFrames)]
        /\ collected \in [Devices -> SUBSET (1..MaxFrames)]
    BY DEF Init
  <2>8. /\ exposed \subseteq Devices /\ listed \subseteq Devices
        /\ enrolled \subseteq Devices /\ fixed \subseteq Devices
    BY DEF Init
  <2> QED
    BY <2>1, <2>2, <2>3, <2>4, <2>5, <2>6, <2>7, <2>8 DEF Init, TypeOK
<1>2. NothingEarly /\ InitialIsLast /\ OnlyReplacedIsLost /\ MotionIsNewest
  <2>1. exposed \subseteq Devices
    BY DEF Init
  <2> QED
    BY <2>1 DEF Init, NothingEarly, InitialIsLast, OnlyReplacedIsLost, MotionIsNewest
<1>3. UnsavedIsNoticed /\ ShownIsRecorded
  BY DEF Init, UnsavedIsNoticed, ShownIsRecorded
<1>4. ReportsWereSent
  BY DEF Init, ReportsWereSent
<1> QED
  BY <1>1, <1>2, <1>4, <1>3 DEF PipelineInv

(* What is known of the report at the head of the queue.                     *)
LEMMA HeadOfQueue ==
  ASSUME TypeOK, ReportsWereSent, queue # <<>>
  PROVE  /\ Head(queue).dev \in Devices
         /\ Head(queue).frame \in 1..MaxFrames
         /\ Head(queue).frame <= Len(sent[Head(queue).dev])
         /\ Kind(Head(queue)) \in Kinds(Head(queue).dev)
         /\ Tail(queue) \in Seq(Report)
         /\ Len(Tail(queue)) = Len(queue) - 1
         /\ \A i \in DOMAIN Tail(queue) : Tail(queue)[i] = queue[i + 1] /\ i + 1 \in DOMAIN queue
<1> USE RuntimeAssumption DEF registry, frames, shown
<1>1. queue \in Seq(Report) /\ Head(queue) = queue[1] /\ 1 \in DOMAIN queue
  BY DEF TypeOK
<1>2. Head(queue) \in Report
  BY <1>1
<1>3. Head(queue).dev \in Devices /\ Head(queue).frame \in 1..MaxFrames
  BY <1>2 DEF Report
<1>4. Head(queue).frame <= Len(sent[Head(queue).dev])
  BY <1>1 DEF ReportsWereSent
<1>5. Kind(Head(queue)) \in Kinds(Head(queue).dev)
  BY <1>3, <1>4 DEF TypeOK, Kind
<1>6. /\ Tail(queue) \in Seq(Report)
      /\ Len(Tail(queue)) = Len(queue) - 1
      /\ \A i \in DOMAIN Tail(queue) : Tail(queue)[i] = queue[i + 1] /\ i + 1 \in DOMAIN queue
  BY <1>1
<1> QED
  BY <1>3, <1>4, <1>5, <1>6

(* A frame that is sent changes nothing of those sent before.                *)
LEMMA SendPipeline ==
  ASSUME PipelineInv, NEW d \in Devices, NEW kind \in Kinds(d), Send(d, kind)
  PROVE  PipelineInv'
<1> USE RuntimeAssumption DEF registry, frames, shown
<1>1. /\ TypeOK /\ ReportsWereSent /\ NothingEarly /\ InitialIsLast
      /\ OnlyReplacedIsLost /\ MotionIsNewest /\ UnsavedIsNoticed /\ ShownIsRecorded
  BY DEF PipelineInv
<1>2. /\ sent' = [sent EXCEPT ![d] = Append(@, kind)]
      /\ UNCHANGED <<mode, queue, stage, worker, cancelled, registry, frames, initial, shown>>
  BY DEF Send
<1>3. kind \in Payloads
  BY DEF Kinds
<1>4. \A e \in Devices : /\ Len(sent[e]) <= Len(sent'[e])
                         /\ Len(sent[e]) \in Nat /\ Len(sent'[e]) \in Nat
                         /\ \A f \in 1..Len(sent[e]) : sent'[e][f] = sent[e][f]
  <2> SUFFICES ASSUME NEW e \in Devices
               PROVE  /\ Len(sent[e]) <= Len(sent'[e])
                      /\ Len(sent[e]) \in Nat /\ Len(sent'[e]) \in Nat
                      /\ \A f \in 1..Len(sent[e]) : sent'[e][f] = sent[e][f]
    OBVIOUS
  <2>1. sent[e] \in Seq(Payloads)
    BY <1>1 DEF TypeOK
  <2>2. sent'[e] = IF e = d THEN Append(sent[e], kind) ELSE sent[e]
    BY <1>1, <1>2 DEF TypeOK
  <2> QED
    BY <1>3, <2>1, <2>2
<1>5. TypeOK'
  <2>1. sent' \in [Devices -> Seq(Payloads)]
    BY <1>1, <1>2, <1>3 DEF TypeOK
  <2>2. \A e \in Devices : sent'[e] \in Seq(Kinds(e))
    BY <1>1, <1>2 DEF TypeOK
  <2> QED
    BY <1>1, <1>2, <2>1, <2>2 DEF TypeOK
<1>6. ReportsWereSent'
  <2>1. \A i \in DOMAIN queue : queue[i].dev \in Devices /\ queue[i].frame \in Nat
    <3> SUFFICES ASSUME NEW i \in DOMAIN queue PROVE queue[i].dev \in Devices /\ queue[i].frame \in Nat
      OBVIOUS
    <3>1. queue[i] \in Report
      BY <1>1 DEF TypeOK
    <3> QED
      BY <3>1 DEF Report
  <2>2. \A e \in Devices : baseline[e] \in Nat
    BY <1>1 DEF TypeOK
  <2> QED
    BY <1>1, <1>2, <1>4, <2>1, <2>2 DEF ReportsWereSent
<1>7. /\ NothingEarly' /\ InitialIsLast'
      /\ OnlyReplacedIsLost' /\ UnsavedIsNoticed' /\ ShownIsRecorded'
  BY <1>1, <1>2 DEF NothingEarly, InitialIsLast, OnlyReplacedIsLost, Replaced,
                   UnsavedIsNoticed, ShownIsRecorded
<1>8. MotionIsNewest'
  <2> SUFFICES ASSUME NEW e \in motion
               PROVE  \E f \in applied[e] : /\ sent'[e][f] = "start"
                                            /\ \A g \in applied[e] : sent'[e][g] = "end" => g < f
    BY <1>2 DEF MotionIsNewest
  <2>1. e \in Devices
    BY <1>1 DEF TypeOK
  <2>2. \A f \in applied[e] : sent'[e][f] = sent[e][f]
    <3>1. applied[e] \subseteq 1..baseline[e] /\ baseline[e] <= Len(sent[e])
      BY <1>1, <2>1 DEF InitialIsLast, ReportsWereSent
    <3>2. baseline[e] \in Nat
      BY <1>1, <2>1 DEF TypeOK
    <3> QED
      BY <1>4, <2>1, <3>1, <3>2
  <2> QED
    BY <1>1, <2>2 DEF MotionIsNewest
<1> QED
  BY <1>5, <1>6, <1>7, <1>8 DEF PipelineInv

LEMMA ReceivePipeline ==
  ASSUME PipelineInv, NEW r \in Report, Receive(r)
  PROVE  PipelineInv'
<1> USE RuntimeAssumption DEF registry, frames, shown
<1>1. /\ TypeOK /\ ReportsWereSent /\ NothingEarly /\ InitialIsLast
      /\ OnlyReplacedIsLost /\ MotionIsNewest /\ UnsavedIsNoticed /\ ShownIsRecorded
  BY DEF PipelineInv
<1>2. /\ UNCHANGED <<mode, sent, stage, worker, cancelled, registry, frames, initial, shown>>
      /\ r.frame <= Len(sent[r.dev])
      /\ queue' = queue \/ (Len(queue) < Capacity /\ queue' = Append(queue, r))
  BY DEF Receive
<1>3. queue \in Seq(Report) /\ Len(queue) <= Capacity /\ Capacity \in Nat
  BY <1>1 DEF TypeOK
<1>4. ASSUME Len(queue) < Capacity, queue' = Append(queue, r)
      PROVE  /\ queue' \in Seq(Report) /\ Len(queue') <= Capacity
             /\ \A i \in DOMAIN queue' : (i \in DOMAIN queue /\ queue'[i] = queue[i]) \/ queue'[i] = r
  BY <1>3, <1>4
<1>5. queue' \in Seq(Report) /\ Len(queue') <= Capacity
  BY <1>2, <1>3, <1>4
<1>6. \A i \in DOMAIN queue' : (i \in DOMAIN queue /\ queue'[i] = queue[i]) \/ queue'[i] = r
  BY <1>2, <1>4
<1>7. TypeOK'
  BY <1>1, <1>2, <1>5 DEF TypeOK
<1>8. ReportsWereSent'
  BY <1>1, <1>2, <1>6 DEF ReportsWereSent
<1>9. /\ NothingEarly' /\ InitialIsLast' /\ OnlyReplacedIsLost'
      /\ MotionIsNewest' /\ UnsavedIsNoticed' /\ ShownIsRecorded'
  BY <1>1, <1>2 DEF NothingEarly, InitialIsLast, OnlyReplacedIsLost, Replaced, MotionIsNewest,
                   UnsavedIsNoticed, ShownIsRecorded
<1> QED
  BY <1>7, <1>8, <1>9 DEF PipelineInv

(* The steps of main that only move it on, and the signal.                   *)
LEMMA StagePipeline ==
  ASSUME PipelineInv, Signal \/ DiscoveryEnds \/ Start \/ Close \/ Exit \/ Return
  PROVE  PipelineInv'
<1> USE RuntimeAssumption DEF registry, frames, shown
<1>1. /\ TypeOK /\ ReportsWereSent /\ NothingEarly /\ InitialIsLast
      /\ OnlyReplacedIsLost /\ MotionIsNewest /\ UnsavedIsNoticed /\ ShownIsRecorded
  BY DEF PipelineInv
<1>2. UNCHANGED <<mode, sent, queue, exposed, listed, fixed, changed, frames, initial, shown>>
  BY DEF Signal, DiscoveryEnds, Start, Close, Exit, Return
<1>3. /\ stage' \in {"discovering", "starting"} => stage \in {"discovering", "starting"} /\ worker' = worker
      /\ stage' \in {"discovering", "starting"} => enrolled' = enrolled
      /\ stage' \in {"serving", "closing"} =>
           \/ enrolled' = enrolled /\ stage \in {"serving", "closing"}
           \/ stage = "starting" /\ enrolled' = IF changed THEN listed ELSE enrolled
  <2>1. CASE Signal \/ DiscoveryEnds \/ Start \/ Close \/ Exit
    BY <2>1 DEF Signal, DiscoveryEnds, Start, Close, Exit
  <2>2. CASE Return
    BY <2>2 DEF Return, Working
  <2> QED
    BY <2>1, <2>2
<1>4. TypeOK'
  <2>1. cancelled' \in BOOLEAN
    BY <1>1, Zenon DEF Signal, DiscoveryEnds, Start, Close, Exit, Return, TypeOK
  <2>2. /\ stage' \in {"discovering", "starting", "serving", "closing", "ended"}
        /\ worker' \in {"none", "running", "returned"}
        /\ enrolled' \subseteq Devices
    BY <1>1 DEF Signal, DiscoveryEnds, Start, Close, Exit, Return, TypeOK
  <2> QED
    BY <1>1, <1>2, <2>1, <2>2 DEF TypeOK
<1>5. ReportsWereSent' /\ InitialIsLast' /\ OnlyReplacedIsLost' /\ MotionIsNewest'
  BY <1>1, <1>2 DEF ReportsWereSent, InitialIsLast, OnlyReplacedIsLost, Replaced, MotionIsNewest
<1>6. NothingEarly' /\ UnsavedIsNoticed' /\ ShownIsRecorded'
  <2>1. NothingEarly' /\ UnsavedIsNoticed'
    BY <1>1, <1>2, <1>3 DEF NothingEarly, UnsavedIsNoticed
  <2>2. ShownIsRecorded'
    BY <1>1, <1>2, <1>3 DEF UnsavedIsNoticed, ShownIsRecorded
  <2> QED
    BY <2>1, <2>2
<1> QED
  BY <1>4, <1>5, <1>6 DEF PipelineInv

LEMMA WatchdogPipeline ==
  ASSUME PipelineInv, NEW d \in Devices, WatchdogExpires(d)
  PROVE  PipelineInv'
<1> USE DEF registry, frames, shown
<1>1. /\ TypeOK /\ ReportsWereSent /\ NothingEarly /\ InitialIsLast
      /\ OnlyReplacedIsLost /\ MotionIsNewest /\ UnsavedIsNoticed /\ ShownIsRecorded
  BY DEF PipelineInv
<1>2. /\ motion' = motion \ {d} /\ stage = "serving"
      /\ UNCHANGED <<mode, sent, queue, stage, worker, cancelled, registry,
                     frames, initial, applied>>
  BY DEF WatchdogExpires
<1>3. TypeOK' /\ ReportsWereSent' /\ InitialIsLast' /\ UnsavedIsNoticed' /\ ShownIsRecorded'
  BY <1>1, <1>2 DEF TypeOK, ReportsWereSent, InitialIsLast, UnsavedIsNoticed, ShownIsRecorded
<1>4. OnlyReplacedIsLost'
  BY <1>1, <1>2 DEF OnlyReplacedIsLost, Replaced
<1>5. NothingEarly' /\ MotionIsNewest'
  BY <1>1, <1>2 DEF NothingEarly, MotionIsNewest
<1> QED
  BY <1>3, <1>4, <1>5 DEF PipelineInv

(* A report the discovery accepts is kept, and nothing was applied before.   *)
LEMMA DiscoverPipeline ==
  ASSUME PipelineInv, Discover
  PROVE  PipelineInv'
<1> USE RuntimeAssumption DEF registry, frames, shown
<1> DEFINE r == Head(queue)
<1>1. /\ TypeOK /\ ReportsWereSent /\ NothingEarly /\ InitialIsLast
      /\ OnlyReplacedIsLost /\ MotionIsNewest /\ UnsavedIsNoticed /\ ShownIsRecorded
  BY DEF PipelineInv
<1>2. /\ stage = "discovering" /\ queue # <<>> /\ queue' = Tail(queue)
      /\ stage' \in {"discovering", "starting"}
      /\ UNCHANGED <<mode, sent, worker, cancelled, enrolled, fixed, shown>>
  BY DEF Discover
<1>3. /\ r.dev \in Devices /\ r.frame \in 1..MaxFrames /\ r.frame <= Len(sent[r.dev])
      /\ Tail(queue) \in Seq(Report) /\ Len(Tail(queue)) = Len(queue) - 1
      /\ \A i \in DOMAIN Tail(queue) : Tail(queue)[i] = queue[i + 1] /\ i + 1 \in DOMAIN queue
  BY <1>1, <1>2, HeadOfQueue
<1>4. \/ UNCHANGED <<frames, initial, exposed, listed, changed>>
      \/ /\ r.frame > baseline[r.dev]
         /\ baseline' = [baseline EXCEPT ![r.dev] = r.frame]
         /\ accepted' = [accepted EXCEPT ![r.dev] = @ \cup {r.frame}]
         /\ collected' = [collected EXCEPT ![r.dev] = @ \cup {r.frame}]
         /\ initial' = [initial EXCEPT ![r.dev] = r.frame]
         /\ exposed' = exposed \cup {r.dev} /\ listed' = exposed'
         /\ changed' = TRUE
  BY DEF Discover, Keep, Accepted, Accept
<1>5. TypeOK'
  <2>1. queue' \in Seq(Report) /\ Len(queue') <= Capacity
    BY <1>1, <1>2, <1>3 DEF TypeOK
  <2>2. r.frame \in 0..MaxFrames
    BY <1>3
  <2>3. baseline' \in [Devices -> 0..MaxFrames] /\ initial' \in [Devices -> 0..MaxFrames]
    BY <1>1, <1>4, <2>2 DEF TypeOK
  <2>4. exposed' \subseteq Devices /\ listed' \subseteq Devices
    BY <1>1, <1>3, <1>4 DEF TypeOK
  <2>5. /\ accepted' \in [Devices -> SUBSET (1..MaxFrames)]
        /\ collected' \in [Devices -> SUBSET (1..MaxFrames)]
    <3>1. /\ accepted \in [Devices -> SUBSET (1..MaxFrames)]
          /\ collected \in [Devices -> SUBSET (1..MaxFrames)]
          /\ r.dev \in Devices /\ r.frame \in 1..MaxFrames
      BY <1>1, <1>3 DEF TypeOK
    <3> HIDE DEF r
    <3>2. CASE UNCHANGED <<accepted, collected>>
      BY <3>1, <3>2
    <3>3. CASE /\ accepted' = [accepted EXCEPT ![r.dev] = @ \cup {r.frame}]
               /\ collected' = [collected EXCEPT ![r.dev] = @ \cup {r.frame}]
      BY <3>1, <3>3
    <3> QED
      BY <1>4, <3>2, <3>3
  <2>6. changed' \in BOOLEAN
    BY <1>1, Zenon DEF Discover, TypeOK
  <2> QED
    BY <1>1, <1>2, <2>1, <2>3, <2>4, <2>5, <2>6 DEF TypeOK
<1>6. ReportsWereSent'
  <2>1. \A i \in DOMAIN queue' : queue'[i].frame <= Len(sent[queue'[i].dev])
    BY <1>1, <1>2, <1>3 DEF ReportsWereSent
  <2>2. \A d \in Devices : baseline'[d] = baseline[d] \/ (d = r.dev /\ baseline'[d] = r.frame)
    <3>1. baseline \in [Devices -> 0..MaxFrames]
      BY <1>1 DEF TypeOK
    <3> QED BY <1>4, <3>1
  <2>3. \A d \in Devices : baseline'[d] <= Len(sent[d])
    <3>1. \A d \in Devices : baseline[d] <= Len(sent[d])
      BY <1>1 DEF ReportsWereSent
    <3> QED BY <1>3, <2>2, <3>1
  <2> QED
    BY <1>2, <2>1, <2>3 DEF ReportsWereSent
<1>7. \A d \in Devices :
        \/ UNCHANGED <<baseline[d], initial[d], accepted[d], collected[d]>>
        \/ /\ d = r.dev /\ r.frame > baseline[d] /\ d \in exposed'
           /\ baseline'[d] = r.frame /\ initial'[d] = r.frame
           /\ accepted'[d] = accepted[d] \cup {r.frame}
           /\ collected'[d] = collected[d] \cup {r.frame}
  <2>1. /\ baseline \in [Devices -> 0..MaxFrames] /\ initial \in [Devices -> 0..MaxFrames]
        /\ accepted \in [Devices -> SUBSET (1..MaxFrames)]
        /\ collected \in [Devices -> SUBSET (1..MaxFrames)]
    BY <1>1 DEF TypeOK
  <2>2. r.dev \in Devices
    BY <1>3
  <2> HIDE DEF r
  <2>3. CASE UNCHANGED <<frames, initial, exposed, listed, changed>>
    BY <2>3
  <2>4. CASE ~UNCHANGED <<frames, initial, exposed, listed, changed>>
    BY <1>4, <2>1, <2>2, <2>4
  <2> QED
    BY <2>3, <2>4
<1>8. /\ \A d \in Devices : applied[d] = {} /\ initial[d] = baseline[d]
      /\ accepted = collected /\ motion = {}
  BY <1>1, <1>2 DEF NothingEarly
<1>9. NothingEarly'
  <2>1. \A d \in Devices : initial'[d] = baseline'[d]
    BY <1>7, <1>8
  <2>2. accepted' = collected'
    BY <1>4, <1>8
  <2>3. worker' = "none" /\ listed' = exposed'
    BY <1>1, <1>2, <1>4 DEF NothingEarly
  <2> QED
    BY <1>2, <1>8, <2>1, <2>2, <2>3 DEF NothingEarly
<1>10. InitialIsLast'
  <2> SUFFICES ASSUME NEW d \in Devices
               PROVE  /\ applied[d] \subseteq accepted'[d] /\ collected'[d] \subseteq accepted'[d]
                      /\ accepted'[d] \subseteq 1..baseline'[d]
                      /\ baseline'[d] \in accepted'[d] \cup {0}
                      /\ initial'[d] # 0 => /\ initial'[d] = baseline'[d] /\ d \in exposed'
                                            /\ applied[d] = {}
    BY <1>2 DEF InitialIsLast
  <2>1. /\ collected[d] \subseteq accepted[d] /\ accepted[d] \subseteq 1..baseline[d]
        /\ baseline[d] \in accepted[d] \cup {0}
        /\ initial[d] # 0 => d \in exposed
        /\ baseline[d] \in Nat
    BY <1>1 DEF InitialIsLast, TypeOK
  <2>2. exposed \subseteq exposed'
    BY <1>4
  <2> QED
    BY <1>3, <1>7, <1>8, <2>1, <2>2
<1>11. OnlyReplacedIsLost'
  <2> SUFFICES ASSUME NEW d \in exposed', NEW f \in accepted'[d]
               PROVE  f = initial'[d] \/ (f \in collected'[d] /\ \E g \in collected'[d] : g > f)
    BY DEF OnlyReplacedIsLost, Replaced
  <2>1. d \in Devices
    BY <1>5 DEF TypeOK
  <2>2. CASE UNCHANGED <<baseline[d], initial[d], accepted[d], collected[d]>>
    <3>1. CASE d \in exposed
      BY <1>1, <1>8, <2>1, <2>2, <3>1 DEF OnlyReplacedIsLost, Replaced
    <3>2. CASE d \notin exposed
      <4>1. baseline[d] = 0
        BY <1>1, <1>8, <2>1, <3>2 DEF InitialIsLast
      <4> QED
        BY <1>1, <2>1, <2>2, <4>1 DEF InitialIsLast
    <3> QED
      BY <3>1, <3>2
  <2>3. CASE baseline'[d] = r.frame /\ d = r.dev /\ r.frame > baseline[d]
             /\ initial'[d] = r.frame /\ accepted'[d] = accepted[d] \cup {r.frame}
             /\ collected'[d] = collected[d] \cup {r.frame}
    <3>1. CASE f = r.frame
      BY <2>3, <3>1
    <3>2. CASE f # r.frame
      <4>1. f \in collected[d] /\ f \in 1..baseline[d] /\ baseline[d] \in Nat
        BY <1>1, <1>8, <2>1, <2>3, <3>2 DEF InitialIsLast, TypeOK
      <4>2. r.frame \in collected'[d] /\ f \in collected'[d]
        BY <2>3, <4>1
      <4>3. r.frame > f
        BY <1>3, <2>3, <4>1
      <4> QED
        BY <4>2, <4>3
    <3> QED
      BY <3>1, <3>2
  <2> QED
    BY <1>7, <2>1, <2>2, <2>3
<1>12. MotionIsNewest' /\ UnsavedIsNoticed' /\ ShownIsRecorded'
  BY <1>1, <1>2, <1>4, <1>8 DEF MotionIsNewest, UnsavedIsNoticed, ShownIsRecorded
<1> QED
  BY <1>5, <1>6, <1>9, <1>10, <1>11, <1>12 DEF PipelineInv

(* What Apply does to the frames of its device, and why the motion remains   *)
(* that of the newest event if no newer frame was applied before.            *)
LEMMA ApplyNewest ==
  ASSUME TypeOK, MotionIsNewest, NEW r,
         r.dev \in Devices, r.frame \in 1..MaxFrames, Kind(r) \in Kinds(r.dev),
         applied[r.dev] \subseteq 1..r.frame,
         ApplyReport(r), sent' = sent
  PROVE  /\ applied' \in [Devices -> SUBSET (1..MaxFrames)]
         /\ motion' \subseteq Brushes
         /\ \A d \in Devices :
              applied'[d] = IF d = r.dev THEN applied[d] \cup {r.frame} ELSE applied[d]
         /\ MotionIsNewest'
<1> USE RuntimeAssumption DEF registry, frames, shown
<1>1. applied' = [applied EXCEPT ![r.dev] = @ \cup {r.frame}]
  BY DEF ApplyReport
<1>2. \A d \in Devices :
        applied'[d] = IF d = r.dev THEN applied[d] \cup {r.frame} ELSE applied[d]
  BY <1>1 DEF TypeOK
<1>3. applied' \in [Devices -> SUBSET (1..MaxFrames)]
  BY <1>1 DEF TypeOK
<1>4. \/ Kind(r) = "start" /\ motion' = motion \cup {r.dev}
      \/ Kind(r) = "end" /\ motion' = motion \ {r.dev}
      \/ Kind(r) # "end" /\ motion' = motion
  BY DEF ApplyReport
<1>5. motion' \subseteq Brushes
  <2>1. Kind(r) = "start" => r.dev \in Brushes
    BY DEF Kinds
  <2> QED
    BY <1>4, <2>1 DEF TypeOK
<1>6. MotionIsNewest'
  <2> SUFFICES ASSUME NEW d \in motion'
               PROVE  \E f \in applied'[d] :
                        /\ sent[d][f] = "start"
                        /\ \A g \in applied'[d] : sent[d][g] = "end" => g < f
    BY DEF MotionIsNewest
  <2>1. d \in Devices
    BY <1>5
  <2>2. CASE d # r.dev
    <3>1. d \in motion /\ applied'[d] = applied[d]
      BY <1>2, <1>4, <2>1, <2>2
    <3> QED
      BY <3>1 DEF MotionIsNewest
  <2>3. CASE d = r.dev /\ Kind(r) = "start"
    <3>1. r.frame \in applied'[d] /\ sent[d][r.frame] = "start"
      BY <1>2, <2>3 DEF Kind
    <3>2. \A g \in applied'[d] : sent[d][g] = "end" => g < r.frame
      <4> SUFFICES ASSUME NEW g \in applied'[d], sent[d][g] = "end" PROVE g < r.frame
        OBVIOUS
      <4>1. g # r.frame
        BY <3>1
      <4>2. g \in applied[r.dev]
        <5>1. applied'[d] = applied[r.dev] \cup {r.frame}
          BY <1>2, <2>1, <2>3
        <5> QED BY <4>1, <5>1
      <4>3. g \in 1..r.frame /\ r.frame \in Nat
        BY <4>2
      <4> QED
        BY <4>1, <4>3
    <3> QED
      BY <3>1, <3>2
  <2>4. CASE d = r.dev /\ Kind(r) # "start"
    <3>1. d \in motion /\ Kind(r) # "end" /\ applied'[d] = applied[d] \cup {r.frame}
      BY <1>2, <1>4, <2>4
    <3>2. PICK f \in applied[d] :
            sent[d][f] = "start" /\ \A g \in applied[d] : sent[d][g] = "end" => g < f
      BY <3>1 DEF MotionIsNewest
    <3>3. sent[d][r.frame] # "end"
      BY <3>1, <2>4 DEF Kind
    <3> QED
      BY <3>1, <3>2, <3>3
  <2> QED
    BY <2>2, <2>3, <2>4
<1> QED
  BY <1>2, <1>3, <1>5, <1>6

(* The discovery's report of a device is the first that is applied to it.    *)
LEMMA InitialPipeline ==
  ASSUME PipelineInv, NEW d \in Devices, ApplyInitial(d)
  PROVE  PipelineInv'
<1> USE RuntimeAssumption DEF registry, frames, shown
<1> DEFINE r == [dev |-> d, frame |-> initial[d]]
<1>1. /\ TypeOK /\ ReportsWereSent /\ NothingEarly /\ InitialIsLast
      /\ OnlyReplacedIsLost /\ MotionIsNewest /\ UnsavedIsNoticed /\ ShownIsRecorded
  BY DEF PipelineInv
<1>2. /\ stage \in {"serving", "closing"} /\ initial[d] # 0
      /\ initial' = [initial EXCEPT ![d] = 0]
      /\ UNCHANGED <<mode, sent, queue, stage, worker, cancelled, registry, frames>>
  BY DEF ApplyInitial, Working
<1>3. initial[d] = baseline[d] /\ d \in exposed /\ applied[d] = {} /\ initial[d] \in 1..MaxFrames
  BY <1>1, <1>2 DEF InitialIsLast, TypeOK
<1>4. ApplyReport(r)
  BY <1>3 DEF ApplyInitial
<1>5. Kind(r) \in Kinds(d)
  BY <1>1, <1>3 DEF Kind, TypeOK, ReportsWereSent
<1>6. /\ applied' \in [Devices -> SUBSET (1..MaxFrames)]
      /\ motion' \subseteq Brushes
      /\ \A e \in Devices : applied'[e] = IF e = d THEN applied[e] \cup {initial[d]} ELSE applied[e]
      /\ MotionIsNewest'
  <2>1. r.dev = d /\ r.frame = initial[d] /\ applied[r.dev] \subseteq 1..r.frame
    BY <1>3
  <2> HIDE DEF r
  <2> QED
    BY <1>1, <1>2, <1>3, <1>4, <1>5, <2>1, ApplyNewest
<1>7. TypeOK' /\ \A e \in Devices : initial'[e] = IF e = d THEN 0 ELSE initial[e]
  <2>1. /\ initial' \in [Devices -> 0..MaxFrames]
        /\ \A e \in Devices : initial'[e] = IF e = d THEN 0 ELSE initial[e]
    BY <1>1, <1>2 DEF TypeOK
  <2>2. UNCHANGED <<mode, sent, queue, stage, worker, cancelled, registry, frames>>
    BY <1>2
  <2> QED
    BY <1>1, <1>6, <2>1, <2>2 DEF TypeOK
<1>8. ReportsWereSent' /\ UnsavedIsNoticed' /\ ShownIsRecorded' /\ NothingEarly'
  BY <1>1, <1>2 DEF ReportsWereSent, UnsavedIsNoticed, ShownIsRecorded, NothingEarly
<1>9. InitialIsLast'
  BY <1>1, <1>2, <1>3, <1>6, <1>7 DEF InitialIsLast, TypeOK
<1>10. OnlyReplacedIsLost'
  BY <1>1, <1>2, <1>3, <1>6, <1>7 DEF OnlyReplacedIsLost, Replaced, TypeOK
<1> QED
  BY <1>6, <1>7, <1>8, <1>9, <1>10 DEF PipelineInv

(* A report of the queue, once the discovery's are applied.                  *)
LEMMA ProcessPipeline ==
  ASSUME PipelineInv, Process
  PROVE  PipelineInv' /\ InOrder
<1> USE RuntimeAssumption DEF registry, frames, shown
<1> DEFINE r == Head(queue)
<1>1. /\ TypeOK /\ ReportsWereSent /\ NothingEarly /\ InitialIsLast
      /\ OnlyReplacedIsLost /\ MotionIsNewest /\ UnsavedIsNoticed /\ ShownIsRecorded
  BY DEF PipelineInv
<1>2. /\ stage \in {"serving", "closing"} /\ queue # <<>> /\ queue' = Tail(queue)
      /\ \A d \in Devices : initial[d] = 0
      /\ UNCHANGED <<mode, sent, stage, worker, cancelled, exposed, fixed, changed, collected,
                     initial>>
  BY DEF Process, Working, InitialDone
<1>3. /\ r.dev \in Devices /\ r.frame \in 1..MaxFrames /\ r.frame <= Len(sent[r.dev])
      /\ Kind(r) \in Kinds(r.dev)
      /\ Tail(queue) \in Seq(Report) /\ Len(Tail(queue)) = Len(queue) - 1
      /\ \A i \in DOMAIN Tail(queue) : Tail(queue)[i] = queue[i + 1] /\ i + 1 \in DOMAIN queue
  BY <1>1, <1>2, HeadOfQueue
<1>4. \/ /\ r.frame > baseline[r.dev] /\ r.dev \in exposed /\ Accept(r) /\ ApplyReport(r)
      \/ r.frame > baseline[r.dev] /\ r.dev \notin exposed /\ Accept(r) /\ UNCHANGED shown
      \/ /\ r.frame = baseline[r.dev] /\ r.dev \in exposed /\ ApplyReport(r)
         /\ UNCHANGED <<baseline, accepted>>
      \/ UNCHANGED <<baseline, accepted, shown>>
  BY DEF Process, Accepted, HasAccessory, Refreshes, Duplicate
<1>5. /\ UNCHANGED listed \/ listed' = listed \cup {r.dev}
      /\ UNCHANGED enrolled \/ enrolled' = listed'
  BY DEF Process, EnrolReport
<1> HIDE DEF r
<1>6. queue' \in Seq(Report) /\ Len(queue') <= Capacity
  BY <1>1, <1>2, <1>3 DEF TypeOK
<1>7. /\ baseline' \in [Devices -> 0..MaxFrames]
      /\ accepted' \in [Devices -> SUBSET (1..MaxFrames)]
      /\ \A d \in Devices :
           \/ baseline'[d] = baseline[d] /\ accepted'[d] = accepted[d]
           \/ /\ d = r.dev /\ r.frame > baseline[d]
              /\ baseline'[d] = r.frame /\ accepted'[d] = accepted[d] \cup {r.frame}
  <2>1. /\ baseline \in [Devices -> 0..MaxFrames] /\ r.frame \in 0..MaxFrames
        /\ accepted \in [Devices -> SUBSET (1..MaxFrames)]
    BY <1>1, <1>3 DEF TypeOK
  <2>2. \/ baseline' = baseline /\ accepted' = accepted
        \/ r.frame > baseline[r.dev] /\ Accept(r)
    BY <1>4
  <2> QED
    BY <1>3, <2>1, <2>2 DEF Accept
<1>8. listed' \subseteq Devices /\ enrolled' \subseteq Devices
  BY <1>1, <1>3, <1>5 DEF TypeOK
<1>9. ReportsWereSent'
  <2>1. \A i \in DOMAIN queue' : queue'[i].frame <= Len(sent[queue'[i].dev])
    BY <1>1, <1>2, <1>3 DEF ReportsWereSent
  <2>2. \A d \in Devices : baseline'[d] <= Len(sent[d])
    BY <1>1, <1>3, <1>7 DEF ReportsWereSent
  <2> QED
    BY <1>2, <2>1, <2>2 DEF ReportsWereSent
<1>10. NothingEarly' /\ UnsavedIsNoticed' /\ ShownIsRecorded'
  BY <1>1, <1>2, <1>5 DEF NothingEarly, UnsavedIsNoticed, ShownIsRecorded
<1>11. CASE UNCHANGED shown /\ (r.dev \notin exposed \/ UNCHANGED <<baseline, accepted>>)
  <2>1. TypeOK'
    BY <1>1, <1>2, <1>6, <1>7, <1>8, <1>11 DEF TypeOK
  <2>2. InitialIsLast'
    <3> SUFFICES ASSUME NEW d \in Devices
                 PROVE  /\ applied[d] \subseteq accepted'[d] /\ collected[d] \subseteq accepted'[d]
                        /\ accepted'[d] \subseteq 1..baseline'[d]
                        /\ baseline'[d] \in accepted'[d] \cup {0}
      BY <1>2, <1>11 DEF InitialIsLast
    <3>1. /\ applied[d] \subseteq accepted[d] /\ collected[d] \subseteq accepted[d]
          /\ accepted[d] \subseteq 1..baseline[d] /\ baseline[d] \in accepted[d] \cup {0}
          /\ baseline[d] \in Nat
      BY <1>1 DEF InitialIsLast, TypeOK
    <3> QED
      BY <1>3, <1>7, <3>1
  <2>3. OnlyReplacedIsLost'
    <3>1. \A d \in exposed : accepted'[d] = accepted[d]
      BY <1>1, <1>7, <1>11 DEF TypeOK
    <3> QED
      BY <1>1, <1>2, <1>11, <3>1 DEF OnlyReplacedIsLost, Replaced
  <2>4. MotionIsNewest' /\ InOrder
    BY <1>1, <1>2, <1>11 DEF MotionIsNewest, InOrder
  <2> QED
    BY <1>9, <1>10, <2>1, <2>2, <2>3, <2>4 DEF PipelineInv
<1>12. CASE /\ ApplyReport(r) /\ r.dev \in exposed /\ baseline'[r.dev] = r.frame
            /\ accepted'[r.dev] = accepted[r.dev] \cup {r.frame}
  <2>1. applied[r.dev] \subseteq 1..r.frame
    <3>1. applied[r.dev] \subseteq 1..baseline[r.dev] /\ baseline[r.dev] \in Nat
      BY <1>1, <1>3 DEF InitialIsLast, TypeOK
    <3>2. baseline[r.dev] <= r.frame
      BY <1>3, <1>7, <1>12, <3>1
    <3> QED
      BY <1>3, <3>1, <3>2
  <2>2. /\ applied' \in [Devices -> SUBSET (1..MaxFrames)]
        /\ motion' \subseteq Brushes
        /\ \A d \in Devices :
             applied'[d] = IF d = r.dev THEN applied[d] \cup {r.frame} ELSE applied[d]
        /\ MotionIsNewest'
    BY <1>1, <1>2, <1>3, <1>12, <2>1, ApplyNewest
  <2>3. TypeOK'
    BY <1>1, <1>2, <1>6, <1>7, <1>8, <2>2 DEF TypeOK
  <2>4. InitialIsLast'
    <3> SUFFICES ASSUME NEW d \in Devices
                 PROVE  /\ applied'[d] \subseteq accepted'[d] /\ collected[d] \subseteq accepted'[d]
                        /\ accepted'[d] \subseteq 1..baseline'[d]
                        /\ baseline'[d] \in accepted'[d] \cup {0}
      BY <1>2 DEF InitialIsLast
    <3>1. /\ applied[d] \subseteq accepted[d] /\ collected[d] \subseteq accepted[d]
          /\ accepted[d] \subseteq 1..baseline[d] /\ baseline[d] \in accepted[d] \cup {0}
          /\ baseline[d] \in Nat
      BY <1>1 DEF InitialIsLast, TypeOK
    <3>2. CASE d = r.dev
      BY <1>3, <1>7, <1>12, <2>2, <3>1, <3>2
    <3>3. CASE d # r.dev
      BY <1>7, <2>2, <3>1, <3>3
    <3> QED
      BY <3>2, <3>3
  <2>5. OnlyReplacedIsLost'
    <3> SUFFICES ASSUME NEW d \in exposed, NEW f \in accepted'[d]
                 PROVE  f \in applied'[d] \/ f = initial[d] \/ Replaced(d, f)'
      BY <1>2 DEF OnlyReplacedIsLost
    <3>1. d \in Devices
      BY <1>1 DEF TypeOK
    <3>2. CASE f \in accepted[d]
      BY <1>1, <1>2, <2>2, <3>1, <3>2 DEF OnlyReplacedIsLost, Replaced
    <3>3. CASE f \notin accepted[d]
      <4>1. d = r.dev /\ f = r.frame
        BY <1>7, <3>1, <3>3
      <4> QED
        BY <2>2, <3>1, <4>1
    <3> QED
      BY <3>2, <3>3
  <2>6. InOrder
    <3> SUFFICES ASSUME NEW d \in Devices, NEW f \in applied'[d] \ applied[d], NEW g \in applied[d]
                 PROVE  g < f
      BY DEF InOrder
    <3>1. d = r.dev /\ f = r.frame
      BY <2>2
    <3>2. g \in 1..r.frame /\ g # f
      BY <2>1, <3>1
    <3> QED
      BY <1>3, <3>1, <3>2
  <2> QED
    BY <1>9, <1>10, <2>2, <2>3, <2>4, <2>5, <2>6 DEF PipelineInv
<1>13. \/ UNCHANGED shown /\ (r.dev \notin exposed \/ UNCHANGED <<baseline, accepted>>)
       \/ /\ ApplyReport(r) /\ r.dev \in exposed /\ baseline'[r.dev] = r.frame
          /\ accepted'[r.dev] = accepted[r.dev] \cup {r.frame}
  <2>1. CASE r.frame = baseline[r.dev] /\ UNCHANGED <<baseline, accepted>>
    <3>1. r.frame \in accepted[r.dev]
      BY <1>1, <1>3, <2>1 DEF InitialIsLast
    <3> QED
      BY <1>4, <2>1, <3>1
  <2>2. CASE Accept(r)
    BY <1>1, <1>3, <1>4, <2>2 DEF Accept, TypeOK
  <2> QED
    BY <1>4, <2>1, <2>2
<1> QED
  BY <1>11, <1>12, <1>13

(* Every step keeps the invariant, and applies in order.                     *)
LEMMA PipelineStep ==
  ASSUME PipelineInv, [Next]_vars
  PROVE  PipelineInv' /\ [InOrder]_vars
<1> USE DEF registry, frames, shown
<1>1. CASE UNCHANGED vars
  <2>1. TypeOK' /\ ReportsWereSent'
    BY <1>1 DEF vars, PipelineInv, TypeOK, ReportsWereSent, Kinds
  <2>2. NothingEarly' /\ InitialIsLast' /\ OnlyReplacedIsLost'
    BY <1>1 DEF vars, PipelineInv, NothingEarly, InitialIsLast, OnlyReplacedIsLost, Replaced
  <2>3. MotionIsNewest' /\ UnsavedIsNoticed' /\ ShownIsRecorded'
    BY <1>1 DEF vars, PipelineInv, MotionIsNewest, UnsavedIsNoticed, ShownIsRecorded
  <2> QED
    BY <1>1, <2>1, <2>2, <2>3 DEF PipelineInv
<1>2. ASSUME NEW d \in Devices, NEW kind \in Kinds(d), Send(d, kind)
      PROVE  PipelineInv' /\ InOrder
  <2>1. applied' = applied
    BY <1>2 DEF Send
  <2> QED
    BY <1>2, <2>1, SendPipeline DEF InOrder
<1>3. ASSUME NEW r \in Report, Receive(r)
      PROVE  PipelineInv' /\ InOrder
  <2>1. applied' = applied
    BY <1>3 DEF Receive
  <2> QED
    BY <1>3, <2>1, ReceivePipeline DEF InOrder
<1>4. ASSUME NEW d \in Devices, ApplyInitial(d)
      PROVE  PipelineInv' /\ InOrder
  <2>1. applied[d] = {} /\ initial[d] # 0
    BY <1>4 DEF ApplyInitial, PipelineInv, InitialIsLast
  <2>2. \A e \in Devices : e # d => applied'[e] = applied[e]
    BY <1>4 DEF ApplyInitial, ApplyReport, PipelineInv, TypeOK
  <2> QED
    BY <1>4, <2>1, <2>2, InitialPipeline DEF InOrder
<1>5. ASSUME NEW d \in Devices, WatchdogExpires(d)
      PROVE  PipelineInv' /\ InOrder
  <2>1. applied' = applied
    BY <1>5 DEF WatchdogExpires
  <2> QED
    BY <1>5, <2>1, WatchdogPipeline DEF InOrder
<1>6. CASE Discover
  <2>1. applied' = applied
    BY <1>6 DEF Discover
  <2> QED
    BY <1>6, <2>1, DiscoverPipeline DEF InOrder
<1>7. CASE Signal \/ DiscoveryEnds \/ Start \/ Close \/ Exit \/ Return
  <2>1. applied' = applied
    BY <1>7 DEF Signal, DiscoveryEnds, Start, Close, Exit, Return
  <2> QED
    BY <1>7, <2>1, StagePipeline DEF InOrder
<1>8. CASE Process
  BY <1>8, ProcessPipeline
<1> QED
  BY <1>1, <1>2, <1>3, <1>4, <1>5, <1>6, <1>7, <1>8 DEF Next

(* The invariant of the pipeline, in every state.                            *)
THEOREM PipelineCorrect == Spec => []PipelineInv
<1>1. Init => PipelineInv
  BY PipelineInit
<1>2. PipelineInv /\ [Next]_vars => PipelineInv'
  BY PipelineStep
<1> QED
  BY <1>1, <1>2, PTL DEF Spec

(* Of the frames the deduplicator accepted of an exposed device, only those  *)
(* are lost which the discovery forgot for a newer one.                      *)
THEOREM LostInDiscoveryOnly == Spec => []OnlyReplacedIsLost
<1>1. PipelineInv => OnlyReplacedIsLost
  BY DEF PipelineInv
<1> QED
  BY <1>1, PipelineCorrect, PTL

(* HomeKit shows motion only when the newest start or end applied is a start.*)
THEOREM MotionIsOfNewestEvent == Spec => []MotionIsNewest
<1>1. PipelineInv => MotionIsNewest
  BY DEF PipelineInv
<1> QED
  BY <1>1, PipelineCorrect, PTL

(* The accessories HomeKit gets are in the configuration or have been saved. *)
THEOREM ShownWasRecorded == Spec => []ShownIsRecorded
<1>1. PipelineInv => ShownIsRecorded
  BY DEF PipelineInv
<1> QED
  BY <1>1, PipelineCorrect, PTL

(* No accessory gets a frame after a newer one, across the handover.         *)
THEOREM FramesAppliedInOrder == Spec => AppliedInOrder
<1>1. PipelineInv /\ [Next]_vars => [InOrder]_vars
  BY PipelineStep
<1> QED
  BY <1>1, PipelineCorrect, PTL DEF Spec, AppliedInOrder
=============================================================================
