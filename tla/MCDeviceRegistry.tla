--------------------------- MODULE MCDeviceRegistry ---------------------------
(* Small instances of DeviceRegistry for TLC.                                *)
EXTENDS DeviceRegistry, TLC

CONSTANTS m1, m2, m3, d1, d2, d3, malformed, pin1, pin2, badPin

P(mac, did) == [mac |-> mac, did |-> did]
C(mac, did, aid) == [mac |-> mac, did |-> did, aid |-> aid, product |-> None]
Other(mac) == [mac |-> mac, did |-> None, aid |-> 0, product |-> "other"]

ThreeDevices == {P(m1, d1), P(m2, d2), P(m3, d3)}
Ranks == (m3 :> 1 @@ m1 :> 2 @@ d1 :> 3 @@ d2 :> 4 @@ d3 :> 5 @@ m2 :> 6)

(* The AIDs wrap after 20.  The defaults of two MACs collide and wrap, those *)
(* of the DIDs collide too; the configurations set AIDs that are in the way  *)
(* and name a device whose configured product is not supported.  Nothing is  *)
(* in the way of the third MAC.                                              *)
Colliding == (m1 :> 22 @@ m2 :> 22 @@ m3 :> 16 @@ d1 :> 4 @@ d2 :> 4 @@ d3 :> 4)
CollidingConfigs == {<<>>, <<C(m1, None, 0), Other(m3)>>, <<C(m2, d2, 4)>>, <<C(None, d2, 0)>>,
                     <<C(m3, None, 0), C(m1, None, 2)>>}

File(pin, mode, list) == [settings |-> "usable", pin |-> pin, mode |-> mode, devices |-> list]

(* Each of these is refused for a reason of its own.                         *)
RefusedFiles ==
  {[File(pin1, "auto", <<>>) EXCEPT !.settings = "out of range"],
   File(badPin, "auto", <<>>), File(pin1, "other", <<>>),
   File(pin1, "auto", <<C(None, None, 0)>>), File(pin1, "auto", <<C(malformed, None, 0)>>),
   File(pin1, "auto", <<C(m1, None, 1)>>), File(pin1, "auto", <<C(m1, None, 0), C(m1, d1, 0)>>),
   File(pin1, "auto", <<C(m1, None, 4), C(m2, None, 4)>>)}

CollidingFiles ==
  {Absent} \cup {File(pin1, mode, list) : mode \in {"", "auto", "manual"}, list \in CollidingConfigs}
    \cup {File(pin1, "first", <<>>)} \cup RefusedFiles

(* No device of these instances is left out of the properties of all the     *)
(* devices that are unambiguous.                                             *)
ASSUME NoDoubt == Unambiguous = Physical

(* Hashes of different addresses that differ, as nearly always.              *)
Distinct == (m1 :> 11 @@ m2 :> 12 @@ m3 :> 13 @@ d1 :> 14 @@ d2 :> 15 @@ d3 :> 16)
FilesByDid == {File(pin1, "auto", <<>>), File(pin1, "auto", <<C(None, d1, 0)>>)}
=============================================================================
