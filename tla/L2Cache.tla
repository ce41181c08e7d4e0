------------------------------ MODULE L2Cache ------------------------------
(***************************************************************************)
(* One set of the sectored L2 cache (tag_array and sector_cache_block of   *)
(* gpu-cache.h and gpu-cache.cc) under the policy of every tested GPU:     *)
(* write-back, allocate-on-miss, lazy-fetch-on-read, LRU.                  *)
(*                                                                         *)
(* A line is a record.  Its sectors are INVALID "I", VALID "V", MODIFIED   *)
(* "M" or RESERVED "R" for a fetch.  A sector has two bytes, enough to     *)
(* tell a partial write from a full one; the data itself is not simulated  *)
(* by the program either.                                                  *)
(***************************************************************************)
EXTENDS Integers, Sequences, FiniteSets, Functions

CONSTANTS
    Way,            \* the ways of the set, 0 .. m_assoc - 1
    Sector,         \* the sectors of a line
    Block,          \* the block addresses that map to the set
    NoBlock         \* the block of a line that was never allocated

ASSUME L2Assumption ==
    /\ IsFiniteSet(Way) /\ Way = 0 .. Cardinality(Way) - 1
    /\ NoBlock \notin Block

Byte == {0, 1}
NoWay == -1

SectorState == {"I", "V", "M", "R"}

Line == [block      : Block \cup {NoBlock},         \* m_block_addr, m_tag
         st         : [Sector -> SectorState],      \* m_status
         readable   : [Sector -> BOOLEAN],          \* m_readable
         modOnFill  : SUBSET Sector,                \* m_set_modified_on_fill
         readOnFill : SUBSET Sector,                \* m_set_readable_on_fill
         maskOnFill : BOOLEAN,                      \* m_set_byte_mask_on_fill
         bytes      : [Sector -> SUBSET Byte]]      \* m_dirty_byte_mask

EmptyLine ==
    [block |-> NoBlock,
     st |-> [s \in Sector |-> "I"],
     readable |-> [s \in Sector |-> TRUE],
     modOnFill |-> {}, readOnFill |-> {}, maskOnFill |-> FALSE,
     bytes |-> [s \in Sector |-> {}]]

Has(l, state) == \E s \in Sector : l.st[s] = state
IsInvalid(l) == \A s \in Sector : l.st[s] = "I"
IsReserved(l) == Has(l, "R")
IsModified(l) == Has(l, "M")
DirtySectors(l) == {s \in Sector : l.st[s] = "M"}

-----------------------------------------------------------------------------
(* What a probe, an allocation, a write and a fill do to a line *)

\* tag_array::probe on the line that has the block.
HitKind(l, s, isWrite) ==
    CASE l.st[s] = "R" -> "HIT_RESERVED"
      [] l.st[s] = "V" -> "HIT"
      [] l.st[s] = "M" -> IF isWrite \/ l.readable[s] THEN "HIT" ELSE "SECTOR_MISS"
      [] l.st[s] = "I" -> "SECTOR_MISS"

\* allocate_line
Allocated(b, s) == [EmptyLine EXCEPT !.block = b, !.st[s] = "R"]

\* allocate_sector: what was written stays to be written back after the fill.
AllocatedSector(l, s) ==
    [l EXCEPT !.st[s] = "R",
              !.modOnFill = IF l.st[s] = "M" THEN @ \cup {s} ELSE @ \ {s},
              !.readOnFill = @ \ {s},
              !.readable[s] = TRUE]

\* set_status(MODIFIED) and set_byte_mask
MarkModified(l, s, bytes) == [l EXCEPT !.st[s] = "M", !.bytes[s] = @ \cup bytes]

\* update_m_readable: a completely written sector needs no fetch to be read.
UpdateReadable(l, s) == IF l.bytes[s] = Byte THEN [l EXCEPT !.readable[s] = TRUE] ELSE l

WriteHitLine(l, s, bytes) == UpdateReadable(MarkModified(l, s, bytes), s)

\* The write of wr_miss_wa_lazy_fetch_on_read, after the tag array's access;
\* "pending" when a fetch of the sector is under way.
WriteMissLine(l, s, bytes, pending) ==
    LET written == MarkModified(l, s, bytes)
        onFill == IF pending
                  THEN [written EXCEPT
                          !.modOnFill = @ \cup {s}, !.maskOnFill = TRUE,
                          !.readOnFill = IF bytes = Byte THEN @ ELSE @ \cup {s}]
                  ELSE written
    IN  UpdateReadable([onFill EXCEPT !.readable[s] = (bytes = Byte)], s)

\* sector_cache_block::fill, whatever state the sector is in by now.
FillLine(l, s, bytes) ==
    [l EXCEPT !.st[s] = IF s \in l.modOnFill THEN "M" ELSE "V",
              !.readable[s] = @ \/ s \in l.readOnFill,
              !.readOnFill = @ \ {s},
              !.bytes[s] = IF l.maskOnFill THEN @ \cup bytes ELSE @]

Victim_Mutant(lines, lru) ==
    LET invalid == {w \in Way : IsInvalid(lines[w])}
    IN  IF invalid # {} THEN CHOOSE w \in invalid : \A v \in invalid : v <= w ELSE lru[1]

\* The victim: the last invalid way, else the least recently used one that is
\* not reserved.  "lru" lists the ways, the least recently used first.
Victim(lines, lru) ==
    LET free == {w \in Way : ~IsReserved(lines[w])}
        invalid == {w \in free : IsInvalid(lines[w])}
    IN  IF free = {} THEN NoWay
        ELSE IF invalid # {} THEN CHOOSE w \in invalid : \A v \in invalid : v <= w
        ELSE lru[CHOOSE i \in DOMAIN lru :
                    lru[i] \in free /\ \A j \in 1 .. i - 1 : lru[j] \notin free]

\* A way that was accessed becomes the most recently used one.
Touched(lru, w) ==
    LET at == CHOOSE i \in DOMAIN lru : lru[i] = w IN
    [i \in DOMAIN lru |-> IF i < at THEN lru[i] ELSE IF i < Len(lru) THEN lru[i + 1] ELSE w]
=============================================================================
