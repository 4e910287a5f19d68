------------------------- MODULE OpenmiioParserProofs -------------------------
(***************************************************************************)
(* Proofs about OpenmiioParser, for messages of any length, from any       *)
(* number of devices, with any values.                                     *)
(***************************************************************************)
EXTENDS OpenmiioParser, SequenceTheorems, TLAPS

(* What is stored of a valid value is near what was measured: rounding gives *)
(* the nearest multiple of ten or a hundred.                                 *)
LEMMA StoredIsNear ==
  ASSUME MessageOK(message), NEW i \in DOMAIN message.items, Known(i), Valid(i)
  PROVE  Stored(i) \in Int /\ Near(Stored(i), i) /\ Item(i).field \in Fields
<1>1. Item(i) \in [did : STRING, field : STRING, raw : Int \cup {Malformed}]
  <2>1. message.items \in Seq([did : STRING, field : STRING, raw : Int \cup {Malformed}])
    BY DEF MessageOK
  <2>2. i \in 1..Len(message.items)
    BY <2>1, LenProperties
  <2> QED BY <2>1, <2>2, ElementOfSeq DEF Item
<1>2. Item(i).raw \in Int
  BY <1>1 DEF Valid
<1>3. Item(i).field \in Fields
  <2>1. Decodes(message.source) \subseteq Fields
    BY DEF MessageOK, Sources, Decodes, Fields
  <2> QED BY <2>1 DEF Known
<1>4. CASE Item(i).field = "toothbrush"
  BY <1>2, <1>3, <1>4 DEF Stored, Near
<1>5. CASE Item(i).field # "toothbrush"
  <2> DEFINE unit == Unit(Item(i).field)
             x == Item(i).raw
  <2>1. unit \in {10, 100} /\ x \in Int
    BY <1>2 DEF Unit
  <2>2. Stored(i) = Rounded(x, unit)
    BY <1>5 DEF Stored
  <2>3. Near(Stored(i), i) <=> /\ Stored(i) \in Int
                              /\ Stored(i) % unit = 0
                              /\ 2 * (Stored(i) - x) \in -unit..unit
    BY <1>5, Zenon DEF Near
  <2> HIDE DEF unit, x
  <2>4. /\ Rounded(x, unit) \in Int
        /\ Rounded(x, unit) % unit = 0
        /\ 2 * (Rounded(x, unit) - x) \in -unit..unit
    <3>1. CASE unit = 10
      BY <2>1, <3>1 DEF Rounded
    <3>2. CASE unit = 100
      BY <2>1, <3>2 DEF Rounded
    <3> QED BY <2>1, <3>1, <3>2
  <2> QED BY <1>3, <2>2, <2>3, <2>4
<1> QED BY <1>4, <1>5

(* The latest value stays the latest when the next item gives none ...       *)
LEMMA LatestKept ==
  ASSUME NEW n \in Nat, NEW value, NEW did, NEW field,
         IsLatest(value, n, did, field), ~Gives(n + 1, did, field)
  PROVE  IsLatest(value, n + 1, did, field)
<1>1. CASE value = None /\ \A i \in 1..n : ~Gives(i, did, field)
  BY <1>1 DEF IsLatest
<1>2. CASE \E i \in 1..n :
             /\ Gives(i, did, field) /\ Near(value, i)
             /\ \A j \in (i + 1)..n : ~Gives(j, did, field)
  <2>1. PICK i \in 1..n :
          /\ Gives(i, did, field) /\ Near(value, i)
          /\ \A j \in (i + 1)..n : ~Gives(j, did, field)
    BY <1>2
  <2>2. \A j \in (i + 1)..(n + 1) : ~Gives(j, did, field)
    BY <2>1
  <2> QED BY <2>1, <2>2 DEF IsLatest
<1> QED BY <1>1, <1>2 DEF IsLatest

(* ... and is replaced by the one it gives.                                  *)
LEMMA LatestReplaced ==
  ASSUME NEW n \in Nat, NEW value, NEW did, NEW field,
         Gives(n + 1, did, field), Near(value, n + 1)
  PROVE  IsLatest(value, n + 1, did, field)
<1>1. n + 1 \in 1..(n + 1) /\ \A j \in (n + 2)..(n + 1) : ~Gives(j, did, field)
  OBVIOUS
<1> QED BY <1>1 DEF IsLatest

LEMMA ParserInit == Init => ParserInv
<1> SUFFICES ASSUME Init PROVE ParserInv
  OBVIOUS
<1> USE DEF Init
<1>1. MessageOK(message)
  BY ParserAssumption
<1>2. Len(message.items) \in Nat
  <2>1. message.items \in Seq([did : STRING, field : STRING, raw : Int \cup {Malformed}])
    BY <1>1 DEF MessageOK
  <2> QED BY <2>1, LenProperties
<1>3. TypeOK
  <2>1. Empty \in [Fields -> Int \cup {None}]
    BY DEF Empty
  <2>2. readings \in [DIDs -> [Fields -> Int \cup {None}]]
    BY <2>1
  <2>3. order \in Seq(DIDs)
    BY EmptySeq
  <2>4. next \in 1..(Len(message.items) + 1)
    BY <1>2
  <2> QED BY <1>1, <2>2, <2>3, <2>4 DEF TypeOK
<1>4. ReadingsAreLatest
  BY DEF ReadingsAreLatest, IsLatest, Empty
<1>5. OrderIsSeen
  BY DEF OrderIsSeen
<1>6. FailureIsSeen
  BY DEF FailureIsSeen
<1>7. ReportsAreReadings
  BY DEF ReportsAreReadings, Returned
<1> QED BY <1>3, <1>4, <1>5, <1>6, <1>7 DEF ParserInv

-----------------------------------------------------------------------------
(* The steps *)

(* The items of a message, as the type invariant gives them.                 *)
LEMMA ItemsOK ==
  ASSUME MessageOK(message)
  PROVE  /\ Len(message.items) \in Nat
         /\ DOMAIN message.items = 1..Len(message.items)
         /\ \A i \in DOMAIN message.items : Item(i).did \in DIDs
         /\ message.did \in DIDs
         /\ message.source # "miot" =>
              \A i \in DOMAIN message.items : Item(i).did = message.did
<1>1. message.items \in Seq([did : STRING, field : STRING, raw : Int \cup {Malformed}])
  BY DEF MessageOK
<1> QED BY <1>1, LenProperties DEF DIDs, MessageOK, Item

(* What is said of the items stays, because the message does.                *)
LEMMA MessageStays ==
  ASSUME message' = message
  PROVE  /\ MessageOK(message)' <=> MessageOK(message)
         /\ DIDs' = DIDs
         /\ \A i : Item(i)' = Item(i) /\ Stored(i)' = Stored(i)
         /\ \A i : (Known(i)' <=> Known(i)) /\ (Valid(i)' <=> Valid(i)) /\ (Wrong(i)' <=> Wrong(i))
         /\ \A value, n, did, field :
              IsLatest(value, n, did, field)' <=> IsLatest(value, n, did, field)
<1>1. MessageOK(message)' <=> MessageOK(message)
  BY DEF MessageOK
<1>2. DIDs' = DIDs
  BY DEF DIDs, Item
<1>3. \A i : Item(i)' = Item(i) /\ Stored(i)' = Stored(i)
  BY DEF Item, Stored
<1>4. \A i : (Known(i)' <=> Known(i)) /\ (Valid(i)' <=> Valid(i))
  <2> SUFFICES ASSUME NEW i
               PROVE  (Known(i)' <=> Known(i)) /\ (Valid(i)' <=> Valid(i))
    OBVIOUS
  <2>1. Item(i)' = Item(i) /\ Stored(i)' = Stored(i)
    BY <1>3
  <2>2. Known(i)' <=> Known(i)
    BY <2>1 DEF Known
  <2>3. InRange(i)' <=> InRange(i)
    BY <2>1 DEF InRange
  <2> QED BY <2>1, <2>2, <2>3 DEF Valid
<1>5. \A i : Wrong(i)' <=> Wrong(i)
  BY <1>4 DEF Wrong
<1>6. \A i, did, field : Gives(i, did, field)' <=> Gives(i, did, field)
  BY <1>3, <1>4 DEF Gives
<1>7. \A value, i : Near(value, i)' <=> Near(value, i)
  BY <1>3 DEF Near
<1>8. \A value, n, did, field :
        IsLatest(value, n, did, field)' <=> IsLatest(value, n, did, field)
  BY <1>6, <1>7 DEF IsLatest
<1> QED BY <1>1, <1>2, <1>3, <1>4, <1>5, <1>8

(* An item that gives no value leaves the readings the latest.               *)
LEMMA NothingGiven ==
  ASSUME ParserInv, ~(Known(next) /\ Valid(next))
  PROVE  \A did \in DIDs, f \in Fields : IsLatest(readings[did][f], next, did, f)
<1>1. next - 1 \in Nat /\ (next - 1) + 1 = next
  BY ItemsOK DEF ParserInv, TypeOK
<1>2. \A did, f : ~Gives(next, did, f)
  BY DEF Gives
<1> QED BY <1>1, <1>2, LatestKept DEF ParserInv, ReadingsAreLatest

LEMMA SkipStep == ASSUME ParserInv, Skip PROVE ParserInv'
<1> USE DEF Skip, AtItem
<1>1. MessageOK(message) /\ message' = message
  BY DEF ParserInv, TypeOK
<1>2. next \in Nat \ {0} /\ next <= Len(message.items) /\ Len(message.items) \in Nat
  BY <1>1, ItemsOK DEF ParserInv, TypeOK
<1>3. TypeOK'
  BY <1>1, <1>2, MessageStays DEF ParserInv, TypeOK
<1>4. ReadingsAreLatest'
  <2>1. \A did \in DIDs, f \in Fields : IsLatest(readings[did][f], next, did, f)
    BY NothingGiven
  <2>2. next' - 1 = next
    BY <1>2
  <2> QED BY <1>1, <2>1, <2>2, MessageStays DEF ReadingsAreLatest
<1>5. OrderIsSeen'
  BY <1>1, MessageStays DEF ParserInv, OrderIsSeen
<1>6. FailureIsSeen'
  <2>1. ~Wrong(next) /\ reports = None
    BY DEF Wrong
  <2>2. None # <<>>
    BY ParserAssumption
  <2> QED BY <1>1, <1>2, <2>1, <2>2, MessageStays DEF ParserInv, FailureIsSeen
<1>7. ReportsAreReadings'
  BY DEF ReportsAreReadings, Returned
<1> QED BY <1>3, <1>4, <1>5, <1>6, <1>7 DEF ParserInv

LEMMA StoreStep == ASSUME ParserInv, Store PROVE ParserInv'
<1> USE DEF Store, AtItem
<1> DEFINE did == Item(next).did
           field == Item(next).field
           value == Stored(next)
<1>1. MessageOK(message) /\ message' = message
  BY DEF ParserInv, TypeOK
<1>2. next \in Nat \ {0} /\ next <= Len(message.items) /\ Len(message.items) \in Nat
  BY <1>1, ItemsOK DEF ParserInv, TypeOK
<1>3. next \in DOMAIN message.items
  BY <1>1, <1>2, ItemsOK
<1>4. value \in Int /\ Near(value, next) /\ field \in Fields /\ did \in DIDs
  BY <1>1, <1>3, StoredIsNear, ItemsOK
<1>5. readings \in [DIDs -> [Fields -> Int \cup {None}]] /\ order \in Seq(DIDs)
  BY DEF ParserInv, TypeOK
<1>6. readings' = [readings EXCEPT ![did][field] = value]
  OBVIOUS
<1>7. order' = IF readings[did] = Empty THEN Append(order, did) ELSE order
  OBVIOUS
<1>8. Gives(next, did, field)
  BY DEF Gives
<1>9. \A d, f : Gives(next, d, f) => d = did /\ f = field
  BY DEF Gives
<1>10. readings'[did] # Empty /\ \A d \in DIDs \ {did} : readings'[d] = readings[d]
  <2>1. readings'[did][field] = value /\ value # None
    BY <1>4, <1>5, <1>6, ParserAssumption
  <2>2. Empty[field] = None
    BY <1>4 DEF Empty
  <2> QED BY <1>5, <1>6, <2>1, <2>2
<1> HIDE DEF did, field, value
<1>11. TypeOK'
  <2>1. readings' \in [DIDs -> [Fields -> Int \cup {None}]]
    <3>1. [readings[did] EXCEPT ![field] = value] \in [Fields -> Int \cup {None}]
      BY <1>4, <1>5
    <3>2. readings' = [readings EXCEPT ![did] = [readings[did] EXCEPT ![field] = value]]
      BY <1>6
    <3> QED BY <1>4, <1>5, <3>1, <3>2
  <2>2. order' \in Seq(DIDs)
    BY <1>4, <1>5, <1>7, AppendProperties
  <2> QED BY <1>1, <1>2, <2>1, <2>2, MessageStays DEF ParserInv, TypeOK
<1>12. ReadingsAreLatest'
  <2>1. next - 1 \in Nat /\ (next - 1) + 1 = next /\ next' - 1 = next
    BY <1>2
  <2>2. ASSUME NEW d \in DIDs, NEW f \in Fields
        PROVE  IsLatest(readings'[d][f], next, d, f)
    <3>1. CASE d = did /\ f = field
      <4>1. readings'[d][f] = value
        BY <1>4, <1>5, <1>6, <3>1
      <4> QED BY <1>4, <1>8, <2>1, <3>1, <4>1, LatestReplaced
    <3>2. CASE ~(d = did /\ f = field)
      <4>1. readings'[d][f] = readings[d][f]
        BY <1>4, <1>5, <1>6, <3>2
      <4>2. IsLatest(readings[d][f], next - 1, d, f)
        BY DEF ParserInv, ReadingsAreLatest
      <4>3. ~Gives(next, d, f)
        BY <1>9, <3>2
      <4> QED BY <2>1, <4>1, <4>2, <4>3, LatestKept
    <3> QED BY <3>1, <3>2
  <2> QED BY <1>1, <2>1, <2>2, MessageStays DEF ReadingsAreLatest
<1>13. OrderIsSeen'
  <2>1. CASE readings[did] = Empty
    <3>1. /\ Len(order) \in Nat /\ order' = Append(order, did)
          /\ DOMAIN order = 1..Len(order) /\ DOMAIN order' = 1..(Len(order) + 1)
          /\ order'[Len(order) + 1] = did
          /\ \A k \in 1..Len(order) : order'[k] = order[k]
      BY <1>4, <1>5, <1>7, <2>1, AppendProperties, LenProperties
    <3>2. \A k \in 1..Len(order) : order[k] # did
      BY <1>4, <2>1, <3>1 DEF ParserInv, OrderIsSeen
    <3>3. \A d \in DIDs : readings'[d] # Empty <=> \E k \in DOMAIN order' : order'[k] = d
      BY <1>4, <1>10, <3>1 DEF ParserInv, OrderIsSeen
    <3>4. \A k, l \in DOMAIN order' : order'[k] = order'[l] => k = l
      BY <3>1, <3>2 DEF ParserInv, OrderIsSeen
    <3> QED BY <1>1, <3>3, <3>4, MessageStays DEF OrderIsSeen
  <2>2. CASE readings[did] # Empty
    BY <1>1, <1>4, <1>7, <1>10, <2>2, MessageStays DEF ParserInv, OrderIsSeen
  <2> QED BY <2>1, <2>2
<1>14. FailureIsSeen'
  <2>1. ~Wrong(next) /\ reports = None /\ None # <<>>
    BY ParserAssumption DEF Wrong
  <2> QED BY <1>1, <1>2, <2>1, MessageStays DEF ParserInv, FailureIsSeen
<1>15. ReportsAreReadings'
  BY DEF ReportsAreReadings, Returned
<1> QED BY <1>11, <1>12, <1>13, <1>14, <1>15 DEF ParserInv

LEMMA RejectStep == ASSUME ParserInv, Reject PROVE ParserInv'
<1> USE DEF Reject, AtItem
<1>1. MessageOK(message) /\ message' = message
  BY DEF ParserInv, TypeOK
<1>2. next \in Nat \ {0} /\ next <= Len(message.items) /\ Len(message.items) \in Nat
  BY <1>1, ItemsOK DEF ParserInv, TypeOK
<1>3. Wrong(next) /\ reports = None /\ None # <<>>
  BY ParserAssumption DEF Wrong
<1>4. OrderIsSeen'
  BY <1>1, MessageStays DEF ParserInv, OrderIsSeen
<1>5. CASE message.source = "miot"
  <2>1. reports' = <<>> /\ next' = next /\ failed' = TRUE
    BY <1>5
  <2>2. TypeOK'
    BY <1>1, <1>2, <2>1, EmptySeq, MessageStays DEF ParserInv, TypeOK
  <2>3. ReadingsAreLatest'
    BY <1>1, <2>1, MessageStays DEF ParserInv, ReadingsAreLatest
  <2>4. FailureIsSeen'
    BY <1>1, <1>2, <1>3, <1>5, <2>1, MessageStays DEF FailureIsSeen
  <2>5. ReportsAreReadings'
    BY <1>1, <1>5, <2>1 DEF ReportsAreReadings
  <2> QED BY <1>4, <2>2, <2>3, <2>4, <2>5 DEF ParserInv
<1>6. CASE message.source # "miot"
  <2>1. reports' = reports /\ next' = next + 1 /\ failed' = TRUE
    BY <1>6
  <2>2. TypeOK'
    BY <1>1, <1>2, <2>1, MessageStays DEF ParserInv, TypeOK
  <2>3. ReadingsAreLatest'
    <3>1. \A did \in DIDs, f \in Fields : IsLatest(readings[did][f], next, did, f)
      BY NothingGiven
    <3>2. next' - 1 = next
      BY <1>2, <2>1
    <3> QED BY <1>1, <3>1, <3>2, MessageStays DEF ReadingsAreLatest
  <2>4. FailureIsSeen'
    BY <1>1, <1>2, <1>3, <1>6, <2>1, MessageStays DEF FailureIsSeen
  <2>5. ReportsAreReadings'
    BY <1>3, <2>1 DEF ReportsAreReadings, Returned
  <2> QED BY <1>4, <2>2, <2>3, <2>4, <2>5 DEF ParserInv
<1> QED BY <1>5, <1>6

LEMMA ReturnStep == ASSUME ParserInv, Return PROVE ParserInv'
<1> USE DEF Return
<1>1. MessageOK(message) /\ message' = message
  BY DEF ParserInv, TypeOK
<1>2. next = Len(message.items) + 1 /\ Len(message.items) \in Nat
  BY <1>1, ItemsOK DEF ParserInv, TypeOK
<1>3. readings \in [DIDs -> [Fields -> Int \cup {None}]] /\ order \in Seq(DIDs)
  BY DEF ParserInv, TypeOK
<1>4. TypeOK'
  <2>1. \A did \in DIDs : Report(did) \in [did : DIDs, values : [Fields -> Int \cup {None}]]
    BY <1>3 DEF Report
  <2>2. CASE failed
    BY <1>1, <1>2, <2>1, <2>2, ItemsOK, MessageStays DEF ParserInv, TypeOK
  <2>3. CASE ~failed
    <3>1. \A k \in 1..Len(order) : order[k] \in DIDs
      BY <1>3
    <3>2. Len(order) \in Nat
      BY <1>3
    <3>3. reports' \in Seq([did : DIDs, values : [Fields -> Int \cup {None}]])
      BY <2>1, <2>3, <3>1, <3>2, IsASeq
    <3> QED BY <1>1, <1>2, <3>3, MessageStays DEF ParserInv, TypeOK
  <2> QED BY <2>2, <2>3
<1>5. ReadingsAreLatest'
  BY <1>1, MessageStays DEF ParserInv, ReadingsAreLatest
<1>6. OrderIsSeen'
  BY <1>1, MessageStays DEF ParserInv, OrderIsSeen
<1>7. FailureIsSeen'
  BY <1>1, <1>2, MessageStays DEF ParserInv, FailureIsSeen
<1>8. failed => message.source # "miot"
  BY <1>2 DEF ParserInv, FailureIsSeen
<1>9. ReportsAreReadings'
  BY <1>8 DEF ReportsAreReadings, Report
<1> QED BY <1>4, <1>5, <1>6, <1>7, <1>9 DEF ParserInv

LEMMA ParserStep == ParserInv /\ [Next]_vars => ParserInv'
<1> SUFFICES ASSUME ParserInv, [Next]_vars PROVE ParserInv'
  OBVIOUS
<1>1. CASE Skip
  BY <1>1, SkipStep
<1>2. CASE Store
  BY <1>2, StoreStep
<1>3. CASE Reject
  BY <1>3, RejectStep
<1>4. CASE Return
  BY <1>4, ReturnStep
<1>5. CASE UNCHANGED vars
  <2>1. /\ message' = message /\ next' = next /\ readings' = readings
        /\ order' = order /\ failed' = failed /\ reports' = reports
    BY <1>5 DEF vars
  <2>2. TypeOK'
    BY <2>1, MessageStays DEF ParserInv, TypeOK
  <2>3. ReadingsAreLatest' /\ OrderIsSeen' /\ FailureIsSeen'
    BY <2>1, MessageStays DEF ParserInv, ReadingsAreLatest, OrderIsSeen, FailureIsSeen
  <2>4. ReportsAreReadings'
    BY <2>1 DEF ParserInv, ReportsAreReadings, Returned, Report
  <2> QED BY <2>2, <2>3, <2>4 DEF ParserInv
<1> QED BY <1>1, <1>2, <1>3, <1>4, <1>5 DEF Next

(* The loops of the parser keep what they know of the items they have seen.  *)
THEOREM ParserCorrect == Spec => []ParserInv
BY ParserInit, ParserStep, PTL DEF Spec

-----------------------------------------------------------------------------
(* What is returned *)

LEMMA InvComplete == ParserInv => ReportsAreComplete
<1> SUFFICES ASSUME ParserInv, Returned PROVE ReportsAreComplete
  BY DEF ReportsAreComplete
<1>1. MessageOK(message)
  BY DEF ParserInv, TypeOK
<1>2. CASE reports = <<>>
  BY <1>2 DEF ReportsAreComplete
<1>3. CASE reports # <<>>
  <2>1. next - 1 = Len(message.items)
    BY <1>1, <1>3, ItemsOK DEF ParserInv, FailureIsSeen, Returned
  <2>2. /\ \A i \in DOMAIN reports : reports[i].did \in DIDs /\ reports[i].values = readings[reports[i].did]
        /\ \A i, j \in DOMAIN reports : reports[i].did = reports[j].did => i = j
    <3>1. CASE failed
      BY <1>1, <1>3, <3>1, ItemsOK DEF ParserInv, ReportsAreReadings, Report
    <3>2. CASE ~failed
      <4>1. /\ Len(order) \in Nat /\ DOMAIN order = 1..Len(order)
            /\ \A k \in 1..Len(order) : order[k] \in DIDs
        BY DEF ParserInv, TypeOK
      <4>2. reports = [k \in 1..Len(order) |-> Report(order[k])]
        BY <3>2 DEF ParserInv, ReportsAreReadings
      <4> QED BY <4>1, <4>2 DEF Report, ParserInv, OrderIsSeen
    <3> QED BY <3>1, <3>2 DEF ParserInv, TypeOK
  <2> QED BY <2>1, <2>2 DEF ReportsAreComplete, ParserInv, ReadingsAreLatest
<1> QED BY <1>2, <1>3

(* The values of a report are the latest that the whole message gives its    *)
(* device, to the nearest tenth or percent, in one report per device.        *)
THEOREM ReportsComplete == Spec => []ReportsAreComplete
BY ParserCorrect, InvComplete, PTL

(* Without an error, those are reported that have a reading ...              *)
LEMMA OrderReported ==
  ASSUME ParserInv, Returned, ~failed
  PROVE  Reported = {d \in DIDs : readings[d] # Empty}
<1>1. order \in Seq(DIDs)
  BY DEF ParserInv, TypeOK
<1>2. /\ Len(order) \in Nat /\ DOMAIN order = 1..Len(order)
      /\ \A k \in 1..Len(order) : order[k] \in DIDs
  BY <1>1
<1>3. reports = [k \in 1..Len(order) |-> Report(order[k])]
  BY DEF ParserInv, ReportsAreReadings
<1>4. Reported = {order[k] : k \in DOMAIN order}
  BY <1>2, <1>3 DEF Reported, Report
<1> QED BY <1>2, <1>4 DEF ParserInv, OrderIsSeen

(* ... and, if nothing was wrong, those of which an item is known.           *)
LEMMA KnownRead ==
  ASSUME ParserInv, next - 1 = Len(message.items),
         ~\E i \in DOMAIN message.items : Wrong(i)
  PROVE  {d \in DIDs : readings[d] # Empty}
           = {Item(i).did : i \in {k \in DOMAIN message.items : Known(k)}}
<1> DEFINE items == DOMAIN message.items
<1>1. MessageOK(message)
  BY DEF ParserInv, TypeOK
<1>2. items = 1..(next - 1) /\ \A i \in items : Item(i).did \in DIDs
  BY <1>1, ItemsOK
<1>3. \A i \in items : Known(i) => Valid(i)
  BY DEF Wrong
<1>4. ASSUME NEW i \in items, Known(i) PROVE readings[Item(i).did] # Empty
  <2>1. Gives(i, Item(i).did, Item(i).field)
    BY <1>3, <1>4 DEF Gives
  <2>2. Item(i).field \in Fields
    BY <1>1, <1>3, <1>4, StoredIsNear
  <2>3. IsLatest(readings[Item(i).did][Item(i).field], next - 1, Item(i).did, Item(i).field)
    BY <1>2, <2>2 DEF ParserInv, ReadingsAreLatest
  <2>4. readings[Item(i).did][Item(i).field] # None
    BY <1>2, <2>1, <2>3, ParserAssumption DEF IsLatest, Near
  <2> QED BY <2>2, <2>4 DEF Empty
<1>5. ASSUME NEW d \in DIDs, readings[d] # Empty
      PROVE  \E i \in items : Known(i) /\ Item(i).did = d
  <2>1. PICK f \in Fields : readings[d][f] # None
    BY <1>5 DEF ParserInv, TypeOK, Empty
  <2>2. IsLatest(readings[d][f], next - 1, d, f)
    BY DEF ParserInv, ReadingsAreLatest
  <2> QED BY <1>2, <2>1, <2>2 DEF IsLatest, Gives
<1> QED BY <1>2, <1>4, <1>5

LEMMA InvAlone == ParserInv => WrongEventIsAlone
<1> SUFFICES ASSUME ParserInv, Returned, message.source # "miot" PROVE WrongEventIsAlone
  BY DEF WrongEventIsAlone
<1>1. MessageOK(message)
  BY DEF ParserInv, TypeOK
<1>2. DOMAIN message.items = 1..Len(message.items) /\ Len(message.items) \in Nat
  BY <1>1, ItemsOK
<1>3. /\ next - 1 = Len(message.items)
      /\ failed <=> \E i \in 1..(next - 1) : Wrong(i)
  BY <1>2 DEF ParserInv, FailureIsSeen, Returned
<1>4. failed <=> \E i \in DOMAIN message.items : Wrong(i)
  BY <1>2, <1>3
<1>5. CASE failed
  <2>1. reports = <<Report(message.did)>>
    BY <1>5 DEF ParserInv, ReportsAreReadings
  <2>2. message.did \in Reported
    BY <2>1 DEF Reported, Report
  <2> QED BY <1>4, <1>5, <2>2 DEF WrongEventIsAlone, Wrong
<1>6. CASE ~failed
  <2>1. Reported = {d \in DIDs : readings[d] # Empty}
    BY <1>6, OrderReported
  <2>2. {d \in DIDs : readings[d] # Empty} = {Item(i).did : i \in {k \in DOMAIN message.items : Known(k)}}
    BY <1>3, <1>4, <1>6, KnownRead
  <2>3. message.did \in Reported <=> \E i \in DOMAIN message.items : Known(i)
    BY <1>1, <2>1, <2>2, ItemsOK
  <2> QED BY <1>4, <2>3 DEF WrongEventIsAlone
<1> QED BY <1>5, <1>6

LEMMA InvWhole == ParserInv => MIoTIsWhole
<1> SUFFICES ASSUME ParserInv, Returned, message.source = "miot" PROVE MIoTIsWhole
  BY DEF MIoTIsWhole
<1>1. MessageOK(message)
  BY DEF ParserInv, TypeOK
<1>2. DOMAIN message.items = 1..Len(message.items) /\ Len(message.items) \in Nat
  BY <1>1, ItemsOK
<1>3. CASE failed
  <2>1. next \in 1..Len(message.items) /\ Wrong(next) /\ reports = <<>>
    BY <1>1, <1>2, <1>3 DEF ParserInv, TypeOK, FailureIsSeen
  <2> QED BY <1>2, <1>3, <2>1 DEF MIoTIsWhole
<1>4. CASE ~failed
  <2>1. /\ next - 1 = Len(message.items)
        /\ ~\E i \in DOMAIN message.items : Wrong(i)
    BY <1>2, <1>4 DEF ParserInv, FailureIsSeen, Returned
  <2>2. Reported = {d \in DIDs : readings[d] # Empty}
    BY <1>4, OrderReported
  <2>3. {d \in DIDs : readings[d] # Empty} = {Item(i).did : i \in {k \in DOMAIN message.items : Known(k)}}
    BY <2>1, KnownRead
  <2> QED BY <1>4, <2>1, <2>2, <2>3 DEF MIoTIsWhole
<1> QED BY <1>3, <1>4

(* A BLE event that is wrong is alone in being lost.                         *)
THEOREM WrongEventAlone == Spec => []WrongEventIsAlone
BY ParserCorrect, InvAlone, PTL

(* A MIoT message is reported as a whole, or not at all.                     *)
THEOREM MIoTWhole == Spec => []MIoTIsWhole
BY ParserCorrect, InvWhole, PTL
=============================================================================
