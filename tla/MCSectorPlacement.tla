------------------------- MODULE MCSectorPlacement -------------------------
(* Instances of SectorPlacement for TLC: every file with a number of lines   *)
(* in Lengths, and among them lines that do not parse.                       *)
EXTENDS SectorPlacement, TLC

CONSTANT Lengths

Written == [parses : {TRUE}, base : Address, size : Address, backend : {"RAMULATOR", "MQSIM"}]
Malformed == [parses |-> FALSE, base |-> 0, size |-> 1, backend |-> "MQSIM"]
MCFiles == UNION {[1 .. n -> Written \cup {Malformed}] : n \in Lengths}
=============================================================================
