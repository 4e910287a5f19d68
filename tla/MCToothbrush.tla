----------------------------- MODULE MCToothbrush -----------------------------
(* Small instances of Toothbrush for TLC.                                    *)
EXTENDS Toothbrush

(* 0 is "no timestamp"; the others straddle the live window and the longest  *)
(* session.                                                                  *)
MCTimestamps == {0, 1, 3, 6}
MCGatewayTimes == {0, 2, 6}
MCWallTimes == {3}
=============================================================================
