------------------------------- MODULE MCDram -------------------------------
(* Instances of Dram for TLC: two banks in one group.                      *)
EXTENDS Dram, TLC

CONSTANTS f1, f2, f3, f4, none

\* Two reads of different rows and a write to the first one's row in bank 0,
\* a writeback of two atoms in bank 1.
MCBankOf == [f \in Fetch |-> IF f = f4 THEN 1 ELSE 0]
MCRowOf == [f \in Fetch |-> IF f = f2 THEN 1 ELSE 0]
MCKindOf == [f \in Fetch |-> CASE f = f3 -> "write" [] f = f4 -> "wrbk" [] OTHER -> "read"]
MCAtomsOf == [f \in Fetch |-> IF f \in {f1, f4} THEN 2 ELSE 1]
MCDelay ==
    [t \in {"CCD", "RRD", "RTW", "WTR", "RCD", "RCDWR", "RAS", "RC", "RP", "WTP", "RTP",
            "CCDL", "RTPL"} |-> IF t \in {"RCD", "RC", "WTR", "CCDL"} THEN 2 ELSE 1]
Conf(fr, write, dual) == [frfcfs |-> fr, writeQueue |-> write, dualBus |-> dual]
MCConfigs == {Conf(TRUE, TRUE, TRUE), Conf(TRUE, FALSE, FALSE), Conf(FALSE, FALSE, TRUE)}
=============================================================================
