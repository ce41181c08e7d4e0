---------------------------- MODULE RequestSplit ----------------------------
(***************************************************************************)
(* From a warp's accesses to the 32-byte requests of a sectored L2.  The   *)
(* coalescer (memory_coalescing_arch_reduce_and_send) shrinks a segment to *)
(* the half or the quarter the warp touches; the sub partition             *)
(* (breakdown_request_to_sector_requests) splits what arrives into one     *)
(* request per sector.  Each of the two rewrites the address by its own    *)
(* rules; this module relates them.                                        *)
(*                                                                         *)
(* Addresses are in sectors of 32 bytes: a 128-byte line has 4 of them,    *)
(* and a request of 64 bytes has size 2.                                   *)
(***************************************************************************)
EXTENDS Integers, Sequences, FiniteSets

CONSTANTS
    Lines,      \* the memory lines a warp accesses, natural numbers
    Segments    \* segment sizes the coalescer uses, in sectors (1, 2, 4)

SectorsPerLine == 4                      \* SECTOR_CHUNCK_SIZE
Sector == 0 .. SectorsPerLine - 1

VARIABLES
    stage,      \* "idle", "access", "request" or "sectors"
    line,       \* the line the access touches
    segment,    \* the coalescer's segment, in sectors
    chunks,     \* transaction_info::chunks: the sectors of the line touched
    req,        \* the mem_access_t: addr, size and sector mask
    out         \* the requests pushed into the sub partition

vars == <<stage, line, segment, chunks, req, out>>

NoRequest == [addr |-> 0, size |-> 0, mask |-> {}]

\* The sectors of a line from the x-th on, n of them.
Block(x, n) == x .. x + n - 1

Init ==
    /\ stage = "idle"
    /\ line = 0 /\ segment = 1 /\ chunks = {}
    /\ req = NoRequest
    /\ out = <<>>

-----------------------------------------------------------------------------
(* The coalescer *)

\* The next access of a warp: chunks of one segment of a line.
Access ==
    /\ stage \in {"idle", "sectors"} /\ stage' = "access"
    /\ line' \in Lines
    /\ segment' \in Segments
    /\ \E x \in {y \in Sector : y % segment' = 0} :
         chunks' \in (SUBSET Block(x, segment')) \ {{}}
    /\ req' = NoRequest /\ out' = <<>>

\* The segment's first sector in the line.
SegmentStart == segment * ((CHOOSE c \in chunks : TRUE) \div segment)

\* The block of n sectors is halved when only one half of it is touched.
Half(b) ==
    IF b.n > 1 /\ chunks \subseteq Block(b.x, b.n \div 2)
        THEN [x |-> b.x, n |-> b.n \div 2]
    ELSE IF b.n > 1 /\ chunks \cap Block(b.x, b.n \div 2) = {}
        THEN [x |-> b.x + b.n \div 2, n |-> b.n \div 2]
    ELSE b

\* 128 to 64 bytes, and 64 to 32 bytes; the sector mask stays the line's chunks.
ReduceAndSend ==
    /\ stage = "access" /\ stage' = "request"
    /\ LET b == Half(Half([x |-> SegmentStart, n |-> segment])) IN
       req' = [addr |-> line * SectorsPerLine + b.x, size |-> b.n, mask |-> chunks]
    /\ UNCHANGED <<line, segment, chunks, out>>

\* A miss of a level-1 cache asks for a whole cache line instead: 128 bytes for
\* a data cache ...
MissData ==
    /\ stage = "access" /\ stage' = "request"
    /\ req' = [addr |-> line * SectorsPerLine, size |-> 4, mask |-> chunks]
    /\ UNCHANGED <<line, segment, chunks, out>>

\* ... and 64 bytes, without a sector mask, for a constant cache.
MissConstant ==
    /\ stage = "access" /\ stage' = "request"
    /\ \E x \in {0, 2} :
         /\ chunks \subseteq Block(x, 2)
         /\ req' = [addr |-> line * SectorsPerLine + x, size |-> 2, mask |-> {}]
    /\ UNCHANGED <<line, segment, chunks, out>>

-----------------------------------------------------------------------------
(* The sub partition *)

SectorRequest(a, i) == [addr |-> a, size |-> 1, mask |-> {i}]

\* The k-th member of a set of numbers.
Nth(S, k) == CHOOSE i \in S : Cardinality({j \in S : j < i}) = k - 1

\* Sector requests for the sectors in S, in order, "step" apart from base on.
SplitInto(S, base, step) ==
    [k \in 1 .. Cardinality(S) |-> SectorRequest(base + step * Nth(S, k), Nth(S, k))]

Breakdown_Start_Mutant(r) ==
    IF r.size = 1 /\ Cardinality(r.mask) = 1 THEN <<r>>
    ELSE IF r.size = SectorsPerLine THEN SplitInto(Sector, r.addr, 1)
    ELSE IF r.size = 2 /\ r.mask \in {{}, Sector} THEN SplitInto(Block(0, 2), r.addr, 0)
    ELSE SplitInto(r.mask, r.addr, 1)

Breakdown_Offset_Mutant(r) ==
    IF r.size = 1 /\ Cardinality(r.mask) = 1 THEN <<r>>
    ELSE IF r.size = SectorsPerLine THEN SplitInto(Sector, r.addr, 1)
    ELSE IF r.size = 2 /\ r.mask \in {{}, Sector}
        THEN SplitInto(Block(IF r.addr % SectorsPerLine = 0 THEN 0 ELSE 2, 2), r.addr, 1)
    ELSE SplitInto(r.mask, r.addr, 1)

Breakdown(r) ==
    IF r.size = 1 /\ Cardinality(r.mask) = 1 THEN <<r>>
    ELSE IF r.size = SectorsPerLine THEN SplitInto(Sector, r.addr, 1)
    ELSE IF r.size = 2 /\ r.mask \in {{}, Sector}
        THEN SplitInto(Block(IF r.addr % SectorsPerLine = 0 THEN 0 ELSE 2, 2), r.addr, 0)
    ELSE SplitInto(r.mask, r.addr, 1)

Split ==
    /\ stage = "request" /\ stage' = "sectors"
    /\ out' = Breakdown(req)
    /\ UNCHANGED <<line, segment, chunks, req>>

Send == ReduceAndSend \/ MissData \/ MissConstant

Next == Access \/ Send \/ Split

Spec == Init /\ [][Next]_vars

-----------------------------------------------------------------------------
(* Properties *)

\* The sectors the requests ask for, by their masks.
Asked == UNION {out[k].mask : k \in DOMAIN out}

\* Whatever the coalescer shrinks away and the sub partition splits, every
\* sector the warp touched is requested, and no sector twice: the L2 would count
\* and answer it twice.
SectorsExact ==
    /\ stage = "sectors" => chunks \subseteq Asked
    /\ Cardinality(Asked) = Len(out)

\* The requests stay in the line the warp accessed, where the L2 looks for the
\* sector the mask names.  ("only upper 64 bytes used" of the coalescer moves
\* the address; the breakdown then adds the sector's offset in the line to it.)
RightLine ==
    \A k \in DOMAIN out : out[k].addr \div SectorsPerLine = line

\* With the 32-byte segments of the coalescing architectures from Maxwell on, the
\* two rewrites of the address agree: what the coalescer sends names one sector,
\* and the misses of the level-1 caches stay in their line.
SmallSegmentsRightLine == segment = 1 => RightLine
=============================================================================
