---------------------------- MODULE MCMeasurements ----------------------------
(* Small instances of Measurements for TLC: a device of which the            *)
(* configuration knows both addresses and that is reported with both or with *)
(* its DID alone; a second one with a DID only; a third that is always       *)
(* reported with both.  The devices of a discovery have both addresses, and  *)
(* a user may have named each by one, or one of them twice.                  *)
EXTENDS Measurements, Sequences, TLC

CONSTANTS m1, m3, d1, d2, d3

Id(mac, did) == [mac |-> mac, did |-> did]

(* Configured by its DID alone, and reported with both addresses.            *)
ByDID == {{Id(None, d1)}}
BothAddresses == {Id(m1, d1)}

Discovered == {{Id(m1, d1), Id(m3, d3)}}
ByOneAddress == {{Id(None, d1), Id(m3, None)}}
NamedTwice == {{Id(None, d2), Id(m3, None), Id(None, d3)}}
Installed == Discovered \cup ByOneAddress \cup NamedTwice

(* The order of the accessories; one known by its DID comes first.           *)
Ordered == <<Id(None, d1), Id(None, d2), Id(None, d3),
             Id(m1, d1), Id(m3, d3), Id(m3, None)>>
Position == [d \in UNION Installations |-> CHOOSE i \in 1..Len(Ordered) : Ordered[i] = d]

MixedReports == {Id(m1, d1), Id(None, d1)}
AllReports == MixedReports \cup {Id(None, d2), Id(m3, d3)}

(* The values are not told apart.                                            *)
Symmetry == Permutations(Values)
=============================================================================
