---------------------------- MODULE OpenmiioParser ----------------------------
(***************************************************************************)
(* Parse, internal/openmiio/parser.go, with the decoders and the product   *)
(* table it uses: one message of openmiio_agent becomes the reports that   *)
(* the MQTT callback offers to the queue, and an error that it logs.       *)
(*                                                                         *)
(* A BLE message carries events of one device, of which the product says   *)
(* how they are decoded; a MIoT message carries properties of any number   *)
(* of devices.  Both loops are one here, an item at a time; they differ in *)
(* what a value that is malformed or out of range does to the rest.        *)
(*                                                                         *)
(* Numbers are in hundredths, so that the rounding to tenths and to whole  *)
(* percents can be seen.  A brushing event is a number of its own.         *)
(***************************************************************************)
EXTENDS Integers, Sequences

CONSTANTS
  None,       \* a nil pointer
  Malformed,  \* no hex, too few bytes, not finite; or no JSON number
  Messages    \* records of source, did and items

Fields == {"temperature", "humidity", "battery", "toothbrush"}

(* What a message is: BLE events of a product, or MIoT properties.  All      *)
(* other methods and products are "unknown" and give no report.              *)
Sources == {"sensor", "toothbrush", "unknown", "miot"}

(* The decoders of the product table, and the properties known of MIoT.      *)
Decodes(source) ==
  CASE source = "toothbrush" -> {"toothbrush", "battery"}
    [] source = "unknown" -> {}
    [] OTHER -> {"temperature", "humidity", "battery"}

MessageOK(m) ==
  /\ m.source \in Sources
  /\ m.items \in Seq([did : STRING, field : STRING, raw : Int \cup {Malformed}])
  /\ m.source # "miot" => \A i \in DOMAIN m.items : m.items[i].did = m.did

ASSUME ParserAssumption ==
  /\ None \notin Int /\ None # <<>>
  /\ Malformed \notin Int
  /\ \A m \in Messages : MessageOK(m)

VARIABLES
  message,   \* the payload, which does not change
  next,      \* the item that is looked at next
  readings,  \* per DID what the reports carry so far
  order,     \* the DIDs with a report, by their first value
  failed,    \* an error is returned
  reports    \* what is returned, None before

vars == <<message, next, readings, order, failed, reports>>

-----------------------------------------------------------------------------
(* Data *)

Item(i) == message.items[i]
DIDs == {Item(i).did : i \in DOMAIN message.items} \cup {message.did}

Known(i) == Item(i).field \in Decodes(message.source)

(* A float of BLE and every number of MIoT are rounded, half away from zero. *)
Unit(field) == IF field = "battery" THEN 100 ELSE 10
RoundedDown(x, unit) == (x \div unit) * unit  \* mutant
Rounded(x, unit) ==
  IF x >= 0 THEN ((x + unit \div 2) \div unit) * unit
  ELSE -(((unit \div 2 - x) \div unit) * unit)

(* The bytes of BLE are whole already.                                       *)
Stored(i) ==
  IF Item(i).field = "toothbrush" THEN Item(i).raw
  ELSE Rounded(Item(i).raw, Unit(Item(i).field))

(* -100 to 150 degrees, 0 to 100 percent.                                    *)
InRange(i) ==
  \/ Item(i).field = "toothbrush"
  \/ Stored(i) \in IF Item(i).field = "temperature" THEN -10000..15000 ELSE 0..10000

Valid(i) == Item(i).raw # Malformed /\ InRange(i)

(* The report of a device, as its decoder or the loop left it.               *)
Empty == [f \in Fields |-> None]
Report(did) == [did |-> did, values |-> readings[did]]

Init ==
  /\ message \in Messages
  /\ next = 1
  /\ readings = [did \in DIDs |-> Empty]
  /\ order = <<>>
  /\ failed = FALSE
  /\ reports = None

-----------------------------------------------------------------------------
(* The loops of the decoders and of parseMIoTProperties *)

AtItem == reports = None /\ next <= Len(message.items)

(* An event or a property that is not known.                                 *)
Skip ==
  /\ AtItem /\ ~Known(next)
  /\ next' = next + 1
  /\ UNCHANGED <<message, readings, order, failed, reports>>

Store ==
  /\ AtItem /\ Known(next) /\ Valid(next)
  /\ LET item == Item(next)
     IN /\ readings' = [readings EXCEPT ![item.did][item.field] = Stored(next)]
        /\ order' = IF readings[item.did] = Empty THEN Append(order, item.did) ELSE order
  /\ next' = next + 1
  /\ UNCHANGED <<message, failed, reports>>

(* Mutants: an event that is wrong ends the decoder; a property that is      *)
(* wrong is left out.                                                        *)
RejectAll ==
  /\ AtItem /\ Known(next) /\ ~Valid(next)
  /\ failed' = TRUE
  /\ reports' = <<>>
  /\ UNCHANGED <<message, next, readings, order>>
RejectOne ==
  /\ AtItem /\ Known(next) /\ ~Valid(next)
  /\ failed' = TRUE
  /\ next' = next + 1
  /\ UNCHANGED <<message, readings, order, reports>>

(* A value that is wrong: a decoder notes the error and goes on, while       *)
(* parseMIoTProperties returns nothing but the error.                        *)
Reject ==
  /\ AtItem /\ Known(next) /\ ~Valid(next)
  /\ failed' = TRUE
  /\ IF message.source = "miot" THEN reports' = <<>> /\ UNCHANGED next
     ELSE next' = next + 1 /\ UNCHANGED reports
  /\ UNCHANGED <<message, readings, order>>

(* After the loop.  A BLE report without measurements is returned only with  *)
(* an error; one of MIoT has a measurement.                                  *)
Return ==
  /\ reports = None /\ next > Len(message.items)
  /\ reports' = IF failed THEN <<Report(message.did)>>
                ELSE [i \in 1..Len(order) |-> Report(order[i])]
  /\ UNCHANGED <<message, next, readings, order, failed>>

Next == Skip \/ Store \/ Reject \/ Return

Spec == Init /\ [][Next]_vars

-----------------------------------------------------------------------------
(* Properties *)

(* The item gives a device a value, as far as it can be seen from the item.  *)
Gives(i, did, field) ==
  Item(i).did = did /\ Item(i).field = field /\ Known(i) /\ Valid(i)

(* The number that is nearest to what was measured.                          *)
Near(value, i) ==
  /\ value \in Int
  /\ IF Item(i).field = "toothbrush" THEN value = Item(i).raw
     ELSE LET unit == Unit(Item(i).field)
          IN /\ value % unit = 0
             /\ 2 * (value - Item(i).raw) \in -unit..unit

(* The value is that of the last of the first n items to give one.           *)
IsLatest(value, n, did, field) ==
  \/ value = None /\ \A i \in 1..n : ~Gives(i, did, field)
  \/ \E i \in 1..n :
       /\ Gives(i, did, field) /\ Near(value, i)
       /\ \A j \in (i + 1)..n : ~Gives(j, did, field)

Wrong(i) == Known(i) /\ ~Valid(i)

Returned == reports # None

(* The devices of which something is returned.                               *)
Reported == {reports[i].did : i \in DOMAIN reports}

(* Each report carries what the whole message says of its device, and there  *)
(* is one report of a device at most.                                        *)
ReportsAreComplete ==
  Returned =>
    /\ \A i \in DOMAIN reports, f \in Fields :
         IsLatest(reports[i].values[f], Len(message.items), reports[i].did, f)
    /\ \A i, j \in DOMAIN reports : reports[i].did = reports[j].did => i = j

(* An event of a BLE frame that is wrong hides no other: whatever its        *)
(* position, the device is reported with each value that is right, and the   *)
(* error is returned too.  decoders.go:25-32, parser.go:97-102.              *)
WrongEventIsAlone ==
  Returned /\ message.source # "miot" =>
    /\ failed <=> \E i \in DOMAIN message.items : Wrong(i)
    /\ message.did \in Reported
         <=> \E i \in DOMAIN message.items : Known(i)

(* A MIoT message counts as a whole: a wrong value anywhere in it, of        *)
(* whatever device, and nothing is returned but an error; otherwise every    *)
(* device is reported of which a property is known.  parser.go:138-157.      *)
MIoTIsWhole ==
  Returned /\ message.source = "miot" =>
    IF \E i \in DOMAIN message.items : Wrong(i) THEN failed /\ reports = <<>>
    ELSE /\ ~failed
         /\ Reported = {Item(i).did : i \in {k \in DOMAIN message.items : Known(k)}}

TypeOK ==
  /\ MessageOK(message)
  /\ next \in 1..(Len(message.items) + 1)
  /\ readings \in [DIDs -> [Fields -> Int \cup {None}]]
  /\ order \in Seq(DIDs)
  /\ failed \in BOOLEAN
  /\ reports = None \/ reports \in Seq([did : DIDs, values : [Fields -> Int \cup {None}]])

(* What the loop has seen: the readings are the latest of the items before   *)
(* the next one, and the order lists, once, each device that has a reading.  *)
ReadingsAreLatest ==
  \A did \in DIDs, f \in Fields : IsLatest(readings[did][f], next - 1, did, f)

OrderIsSeen ==
  /\ \A did \in DIDs : readings[did] # Empty <=> \E k \in DOMAIN order : order[k] = did
  /\ \A k, l \in DOMAIN order : order[k] = order[l] => k = l

FailureIsSeen ==
  \/ /\ failed <=> \E i \in 1..(next - 1) : Wrong(i)
     /\ failed => message.source # "miot"
     /\ reports # None => next = Len(message.items) + 1
  \/ /\ failed /\ message.source = "miot" /\ reports = <<>>
     /\ next <= Len(message.items) /\ Wrong(next)

(* How what is returned follows from them.                                   *)
ReportsAreReadings ==
  Returned => reports = IF ~failed THEN [k \in 1..Len(order) |-> Report(order[k])]
                        ELSE IF message.source = "miot" THEN <<>> ELSE <<Report(message.did)>>

(* The inductive invariant behind the three properties.                      *)
ParserInv ==
  /\ TypeOK
  /\ ReadingsAreLatest
  /\ OrderIsSeen
  /\ FailureIsSeen
  /\ ReportsAreReadings
=============================================================================
