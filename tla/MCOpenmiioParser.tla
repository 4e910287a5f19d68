--------------------------- MODULE MCOpenmiioParser ---------------------------
(* Small instances of OpenmiioParser for TLC: messages of up to three items. *)
EXTENDS OpenmiioParser

(* Around each limit, a value that rounding takes over it or back to it, and *)
(* one in the middle.  Humidity and battery are bytes in a BLE frame.        *)
MIoTValues(field) ==
  CASE field = "temperature" -> {-10006, -10004, 15004, Malformed}
    [] field = "humidity" -> {-4, 10006}
    [] field = "battery" -> {-60, 10040, 5050}
    [] OTHER -> {0}

BLEValues(field) ==
  CASE field = "temperature" -> {-10006, -10004, 15006, Malformed}
    [] field = "toothbrush" -> {1, 2, Malformed}
    [] OTHER -> {0, 10000, 10100}

Items(dids, values(_)) ==
  UNION {[did : dids, field : {f}, raw : values(f)] : f \in Fields}

UpTo3(items) == UNION {[1..n -> items] : n \in 0..3}

SmallMessages ==
  [source : {"miot"}, did : {"d1"}, items : UpTo3(Items({"d1", "d2"}, MIoTValues))]
    \cup [source : Sources \ {"miot"}, did : {"d1"}, items : UpTo3(Items({"d1"}, BLEValues))]
=============================================================================
