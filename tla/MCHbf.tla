------------------------------- MODULE MCHbf -------------------------------
(* Instances of Hbf for TLC: a channel of two planes.                     *)
EXTENDS Hbf, TLC

CONSTANTS f1, f2, f3, f4, f5, p0, p1

\* Two reads of one plane and one of the other, a write and a writeback that
\* share a plane with the reads.
MCKindOf == [f \in Fetch |-> IF f = f4 THEN "write" ELSE IF f = f5 THEN "wrbk" ELSE "read"]
MCPlaneOf == [f \in Fetch |-> IF f = f3 THEN p1 ELSE p0]
=============================================================================
