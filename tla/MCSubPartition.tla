--------------------------- MODULE MCSubPartition ---------------------------
(* Instances of SubPartition for TLC: one set of two-sector lines.          *)
EXTENDS SubPartition, TLC

CONSTANTS f1, f2, f3, f4, A, B

\* "Mixed": a sector of A is read, written in part and updated by an atomic,
\* and a writeback of another block evicts it.
MixedKind == f1 :> "read" @@ f2 :> "atomic" @@ f3 :> "write" @@ f4 :> "wrbk"
MixedBlock == f1 :> A @@ f2 :> A @@ f3 :> A @@ f4 :> B
MixedBytes == f1 :> Byte @@ f2 :> {0} @@ f3 :> {0} @@ f4 :> Byte
MixedSector == f1 :> 0 @@ f2 :> 0 @@ f3 :> 0 @@ f4 :> 1

\* "Merge": three reads of one sector and a write of a block that evicts it.
MergeKind == f1 :> "read" @@ f2 :> "read" @@ f3 :> "write" @@ f4 :> "read"
MergeBlock == f1 :> A @@ f2 :> A @@ f3 :> B @@ f4 :> A
AllBytes == [f \in Fetch |-> Byte]
FirstSector == [f \in Fetch |-> 0]
=============================================================================
