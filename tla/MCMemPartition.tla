--------------------------- MODULE MCMemPartition ---------------------------
(* Instances of MemPartition for TLC: two sub partitions, both backends.   *)
EXTENDS MemPartition, TLC

CONSTANTS f1, f2, f3, f4

\* Sub partition 0 sends reads of both backends and a writeback of HBF, sub
\* partition 1 a read of HBF.
MCSubOf == [f \in Fetch |-> IF f = f4 THEN 1 ELSE 0]
MCKindOf == [f \in Fetch |-> IF f = f3 THEN "wrbk" ELSE "read"]
MCBackendOf == [f \in Fetch |-> IF f = f2 THEN "HBM" ELSE "HBF"]
\* Sub partition 0 can keep HBM busy all the time while sub partition 1 waits
\* for HBF.
MCHbmOfSub0 == [f \in Fetch |-> IF f = f4 THEN "HBF" ELSE "HBM"]
MCLatency == [b \in Backend |-> IF b = "HBF" THEN 1 ELSE 0]
MCSlots == [b \in Backend |-> 1]
=============================================================================
