--------------------------- MODULE MCCoSimBackend ---------------------------
(* Instances of CoSimBackend for TLC: two partitions.                      *)
EXTENDS CoSimBackend, TLC

CONSTANTS p0, p1, f1, f2, f3, f4

\* Partition 0 sends a read, a read and a writeback, partition 1 a write.
MCPartitionOf == [f \in Fetch |-> IF f = f4 THEN p1 ELSE p0]
MCKindOf == [f \in Fetch |-> IF f = f3 THEN "wrbk" ELSE IF f = f4 THEN "write" ELSE "read"]
=============================================================================
