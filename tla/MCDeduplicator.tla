---------------------------- MODULE MCDeduplicator ----------------------------
(* Small instances of Deduplicator for TLC.                                  *)
EXTENDS Deduplicator

(* One device starts before the wrap, or is rebooted; 100 is a counter that  *)
(* a fresh 0 is neither newer nor a duplicate of.                            *)
MCCounters == {0, 100, 254}

(* A device that loses no frame and as many as may be lost.            *)
MCGaps == {1, 127}
=============================================================================
