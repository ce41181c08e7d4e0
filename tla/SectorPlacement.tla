-------------------------- MODULE SectorPlacement --------------------------
(***************************************************************************)
(* The map of the backends and the sectors of a line together.  A request  *)
(* is placed when its mem_fetch is made (mem_fetch::mem_fetch and          *)
(* memory_config::assign_mem_backend); the sector requests the sub         *)
(* partition makes of it take over its backend, and a writeback of the     *)
(* line is placed by its own address.                                      *)
(*                                                                         *)
(* The map counts in units of Unit sectors, so that its ranges may or may  *)
(* not end at the lines' bounds.                                           *)
(***************************************************************************)
EXTENDS BackendMap

CONSTANTS Lines, Segments, Unit

ASSUME PlacementAssumption ==
    Lines \subseteq Nat /\ Segments \subseteq {1, 2, 4} /\ Unit \in Nat \ {0}

VARIABLES
    stage, line, segment, chunks, req, out,     \* of RequestSplit
    placed,         \* m_mem_backend of the request
    sectors         \* m_mem_backend of the requests in out

Split == INSTANCE RequestSplit

splitVars == <<stage, line, segment, chunks, req, out>>
allVars == <<mapVars, splitVars, placed, sectors>>

PlacementInit ==
    /\ MapInit /\ Split!Init
    /\ placed = "UNSPECIFIED" /\ sectors = <<>>

\* assign_mem_backend of an address in sectors, with a map.
Place(a) == Resolve(a \div Unit)

Load == MapNext /\ UNCHANGED <<splitVars, placed, sectors>>

\* A warp accesses memory after the map is loaded.
Access ==
    /\ loader = "ready" /\ ranges # <<>>
    /\ Split!Access
    /\ placed' = "UNSPECIFIED" /\ sectors' = <<>>
    /\ UNCHANGED mapVars

Send ==
    /\ Split!Send
    /\ placed' = Place(req'.addr)
    /\ UNCHANGED <<mapVars, sectors>>

\* A sector takes its request's backend over, unless that has none.
SendSectors ==
    /\ Split!Split
    /\ sectors' = [k \in DOMAIN out' |->
                      IF placed # "UNSPECIFIED" THEN placed ELSE Place(out'[k].addr)]
    /\ UNCHANGED <<mapVars, placed>>

PlacementNext == Load \/ Access \/ Send \/ SendSectors

PlacementSpec == PlacementInit /\ [][PlacementNext]_allVars

-----------------------------------------------------------------------------
\* See RequestSplit.
SectorsExact == Split!SectorsExact
SmallSegmentsRightLine == Split!SmallSegmentsRightLine

Aligned ==
    \A k \in DOMAIN ranges :
        {ranges[k].base * Unit, ranges[k].end * Unit} \subseteq {Split!SectorsPerLine * n : n \in Address}

\* A sector is fetched from the backend its line will be written back to
\* (evicted.m_block_addr is placed by its own address): all sectors of a line are
\* at one backend, if no range of the map divides a line.  Where the coalescer
\* moves addresses beyond the line (see RightLine) the inherited backend is right.
LineAtOneBackend ==
    Aligned /\ (segment = 1 \/ placed # "UNSPECIFIED") =>
        \A k \in DOMAIN sectors : sectors[k] = Place(line * Split!SectorsPerLine)
=============================================================================
