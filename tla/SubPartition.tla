---------------------------- MODULE SubPartition ----------------------------
(***************************************************************************)
(* memory_sub_partition (l2cache.cc): one L2 bank with its four queues,    *)
(* its miss queue and its MSHRs (gpu-cache.cc).  cache_cycle() runs five   *)
(* phases in order, each an action here, with "phase" as program counter:  *)
(* reply to the cores from a ready MSHR, fill the cache from memory, send  *)
(* a miss to memory, access the cache, and let the ROP queue in.           *)
(*                                                                         *)
(* Between two calls the interconnect pushes fetches and pops replies, and *)
(* the memory partition takes misses and writebacks and answers fetches in *)
(* any order, as MemService promises.                                      *)
(*                                                                         *)
(* Writes are acknowledged by the cache; only reads are fetched.  Every    *)
(* fetch is of one sector and its address is in that sector, as            *)
(* RequestSplit leaves the accesses to global memory.  Left out are        *)
(* textures, which bypass the ROP queue, the copy engine, and the 64-byte  *)
(* accesses of constant caches, whose two sector requests carry one        *)
(* address (l2cache.cc:904) and so share an MSHR entry.                    *)
(***************************************************************************)
EXTENDS L2Cache, Queues

CONSTANTS
    Fetch,          \* the mem_fetch objects (a deleted one is allocated again)
    kindOf,         \* "read", "atomic", "write" or "wrbk" (L1_WRBK_ACC)
    blockOf,        \* the block address of a fetch
    sectorOf,       \* its sector
    bytesOf,        \* the bytes of the sector it accesses
    MissQ,          \* m_miss_queue_size
    MshrEntries,    \* m_num_entries
    MaxMerged,      \* m_max_merged
    IcntL2Size,     \* size of the icnt-to-L2 queue
    Reserve,        \* room asked of it before a push: SECTOR_CHUNCK_SIZE
    L2DramSize,     \* size of the L2-to-dram queue
    DramL2Size,     \* size of the dram-to-L2 queue
    L2IcntSize,     \* size of the L2-to-icnt queue
    RopBound,       \* bound of the model: fetches in the ROP queue
    DirtyWidth      \* m_dirty is an unsigned counter of this many values

\* The L2's own writebacks, new objects that memory never answers.
Eviction == [block : Block, sectors : SUBSET Sector]

ASSUME SubPartitionAssumption ==
    /\ IsFiniteSet(Fetch) /\ Fetch \cap Eviction = {}
    /\ kindOf \in [Fetch -> {"read", "atomic", "write", "wrbk"}]
    /\ blockOf \in [Fetch -> Block] /\ sectorOf \in [Fetch -> Sector]
    /\ bytesOf \in [Fetch -> SUBSET Byte]
    /\ {MissQ, MshrEntries, MaxMerged, DirtyWidth, RopBound} \subseteq Nat \ {0}
    /\ {IcntL2Size, L2DramSize, DramL2Size, L2IcntSize} \subseteq Nat \ {0}
    /\ Reserve \in 1 .. IcntL2Size

VARIABLES
    phase,          \* where cache_cycle() stands
    lines, lru,     \* m_lines of the set, and the order of their last accesses
    dirty,          \* m_dirty
    port,           \* m_data_port_occupied_cycles
    mshr,           \* m_data: the fetches merged into the entry of a sector
    ready,          \* m_current_response
    index,          \* m_cache_index of a fetch that will be filled, or NoWay
    missq,          \* m_miss_queue
    rop, icntL2, l2dram, dramL2, l2icnt,    \* m_rop and the four queues
    mem,            \* the fetches the memory partition works on
    raced           \* history: a sector was read and written at the same time

cache == <<lines, lru, dirty, port, mshr, ready, index>>
queues == <<missq, rop, icntL2, l2dram, dramL2, l2icnt, mem>>
vars == <<phase, cache, queues, raced>>

Addr == Block \X Sector                              \* mshr_addr
\* mshr_addr(mf->get_addr()): the address of a fetch is in its own sector.
addrOf(f) == <<blockOf[f], sectorOf[f]>>
IsWrite(f) == kindOf[f] \in {"write", "wrbk"}
IsWriteback(f) == kindOf[f] = "wrbk"

Init ==
    /\ phase = "idle"
    /\ lines = [w \in Way |-> EmptyLine]
    /\ lru = [i \in 1 .. Cardinality(Way) |-> i - 1]
    /\ dirty = 0 /\ port = 0
    /\ mshr = [a \in Addr |-> <<>>]
    /\ ready = <<>>
    /\ index = [f \in Fetch |-> NoWay]
    /\ missq = <<>> /\ rop = <<>> /\ icntL2 = <<>>
    /\ l2dram = <<>> /\ dramL2 = <<>> /\ l2icnt = <<>>
    /\ mem = {}
    /\ raced = FALSE

Here == Range(rop) \cup Range(icntL2) \cup (UNION {Range(mshr[a]) : a \in Addr})
        \cup Range(l2icnt)

-----------------------------------------------------------------------------
(* The interconnect and the memory partition, between two cache cycles *)

\* push(), which the interconnect calls while full(SECTOR_CHUNCK_SIZE) is false.
Arrive(f) ==
    /\ phase = "idle"
    /\ f \notin Here
    /\ Len(icntL2) + Reserve <= IcntL2Size
    /\ Len(rop) < RopBound
    /\ raced' = (raced \/ \E g \in Here : addrOf(g) = addrOf(f) /\ IsWrite(g) # IsWrite(f))
    /\ rop' = Append(rop, f)
    /\ UNCHANGED <<phase, cache, missq, icntL2, l2dram, dramL2, l2icnt, mem>>

\* pop()
IcntPop ==
    /\ phase = "idle"
    /\ l2icnt # <<>>
    /\ l2icnt' = Tail(l2icnt)
    /\ UNCHANGED <<phase, cache, missq, rop, icntL2, l2dram, dramL2, mem>>

\* The memory partition takes the oldest miss or writeback ...
MemTake ==
    /\ phase = "idle"
    /\ l2dram # <<>>
    /\ l2dram' = Tail(l2dram)
    /\ mem' = mem \cup ({Head(l2dram)} \cap Fetch)
    /\ UNCHANGED <<phase, cache, missq, rop, icntL2, dramL2, l2icnt>>

\* ... and answers a fetch.
MemReply(f) ==
    /\ phase = "idle"
    /\ f \in mem
    /\ Len(dramL2) < DramL2Size
    /\ mem' = mem \ {f}
    /\ dramL2' = Append(dramL2, f)
    /\ UNCHANGED <<phase, cache, missq, rop, icntL2, l2dram, l2icnt>>

-----------------------------------------------------------------------------
(* cache_cycle(): reply, fill, miss *)

L2IcntFull == Len(l2icnt) >= L2IcntSize

\* Mutant: the entry leaves m_current_response with the first of its fetches.
MshrNext_Mutant ==
    LET a == Head(ready) IN
    /\ l2icnt' = Append(l2icnt, Head(mshr[a]))
    /\ mshr' = [mshr EXCEPT ![a] = Tail(@)]
    /\ ready' = Tail(ready)

\* mshr_table::next_access: one merged fetch; the last one frees the entry.
MshrNext ==
    LET a == Head(ready) IN
    /\ l2icnt' = Append(l2icnt, Head(mshr[a]))
    /\ mshr' = [mshr EXCEPT ![a] = Tail(@)]
    /\ ready' = IF Len(mshr[a]) = 1 THEN Tail(ready) ELSE ready

Reply ==
    /\ phase = "idle" /\ phase' = "fill"
    /\ IF ready # <<>> /\ ~L2IcntFull
       THEN MshrNext
       ELSE UNCHANGED <<l2icnt, mshr, ready>>
    /\ UNCHANGED <<lines, lru, dirty, port, index, missq, rop, icntL2, l2dram, dramL2, mem>>

B2N(b) == IF b THEN 1 ELSE 0

\* baseline_cache::fill: the fetch fills the way it was given when it missed.
\* The line turns dirty for a write that came meanwhile, or for an atomic.
FillCache(f) ==
    LET w == index[f]  s == sectorOf[f]  a == addrOf(f)
        filled == FillLine(lines[w], s, bytesOf[f])
        atomic == \E g \in Range(mshr[a]) : kindOf[g] = "atomic"
        last == IF atomic THEN MarkModified(filled, s, bytesOf[f]) ELSE filled
    IN  /\ lines' = [lines EXCEPT ![w] = last]
        /\ dirty' = (dirty + B2N(IsModified(filled) /\ ~IsModified(lines[w]))
                           + B2N(atomic /\ ~IsModified(filled))) % DirtyWidth
        /\ ready' = Append(ready, a)
        /\ index' = [index EXCEPT ![f] = NoWay]

\* Every fetch memory answers is waited for; the fill port is free again every
\* cycle.
Fill ==
    /\ phase = "fill" /\ phase' = "miss"
    /\ IF dramL2 # <<>>
       THEN FillCache(Head(dramL2)) /\ dramL2' = Tail(dramL2)
       ELSE UNCHANGED <<lines, dirty, ready, index, dramL2>>
    /\ UNCHANGED <<lru, port, mshr, missq, rop, icntL2, l2dram, l2icnt, mem>>

\* baseline_cache::cycle
Miss ==
    /\ phase = "miss" /\ phase' = "access"
    /\ IF missq # <<>> /\ Len(l2dram) < L2DramSize
       THEN missq' = Tail(missq) /\ l2dram' = Append(l2dram, Head(missq))
       ELSE UNCHANGED <<missq, l2dram>>
    /\ port' = IF port > 0 THEN port - 1 ELSE 0
    /\ UNCHANGED <<lines, lru, dirty, mshr, ready, index, rop, icntL2, dramL2, l2icnt, mem>>

-----------------------------------------------------------------------------
(* cache_cycle(): access *)

\* The way that has the block of f, if any, and tag_array::probe.
WaysOf(f) == {w \in Way : lines[w].block = blockOf[f] /\ ~IsInvalid(lines[w])}
WayOf(f) == IF WaysOf(f) # {} THEN CHOOSE w \in WaysOf(f) : TRUE ELSE Victim(lines, lru)
Probe(f) ==
    IF WaysOf(f) # {} THEN HitKind(lines[WayOf(f)], sectorOf[f], IsWrite(f))
    ELSE IF WayOf(f) = NoWay THEN "RESERVATION_FAIL"
    ELSE "MISS"

CanStart == Len(l2dram) < L2DramSize /\ icntL2 # <<>> /\ ~L2IcntFull /\ port = 0

AnswerNow_Mutant(f) == l2icnt' = Append(l2icnt, f)

\* The L2 answers at once, except a writeback of a level-1 cache.
AnswerNow(f) == l2icnt' = IF IsWriteback(f) THEN l2icnt ELSE Append(l2icnt, f)

Hit(f) ==
    LET w == WayOf(f)  s == sectorOf[f]
        written == WriteHitLine(lines[w], s, bytesOf[f])
    IN  /\ Probe(f) = "HIT"
        /\ lru' = Touched(lru, w)
        /\ lines' = [lines EXCEPT ![w] =
                        IF IsWrite(f) THEN written
                        ELSE IF kindOf[f] = "atomic" THEN MarkModified(@, s, bytesOf[f])
                        ELSE @]
        /\ dirty' = (dirty + B2N(kindOf[f] # "read" /\ ~IsModified(lines[w]))) % DirtyWidth
        /\ port' = port + 1
        /\ AnswerNow(f)
        /\ UNCHANGED <<mshr, index, missq>>

\* The line after tag_array::access of a miss, and the writeback it causes.
AccessedLine(f) ==
    LET l == lines[WayOf(f)]  s == sectorOf[f] IN
    CASE Probe(f) = "HIT_RESERVED" -> l
      [] Probe(f) = "SECTOR_MISS" -> AllocatedSector(l, s)
      [] Probe(f) = "MISS" -> Allocated(blockOf[f], s)
Evicts(f) == Probe(f) = "MISS" /\ IsModified(lines[WayOf(f)])
EvictionOf(f) ==
    IF ~Evicts(f) THEN <<>>
    ELSE LET l == lines[WayOf(f)] IN <<[block |-> l.block, sectors |-> DirtySectors(l)]>>

DirtyAfterAccess_Mutant(f) == dirty
\* m_dirty after tag_array::access, and after a write of the accessed line.
DirtyAfterAccess(f) ==
    dirty - B2N(IsModified(lines[WayOf(f)]) /\ ~IsModified(AccessedLine(f)))

\* wr_miss_wa_lazy_fetch_on_read: no fetch; the sector may be partly written.
WriteMiss(f) ==
    LET w == WayOf(f)  s == sectorOf[f]  l == AccessedLine(f) IN
    /\ IsWrite(f)
    /\ Probe(f) \in {"HIT_RESERVED", "SECTOR_MISS", "MISS"}
    /\ Len(missq) < MissQ
    /\ lines' = [lines EXCEPT ![w] =
                    WriteMissLine(l, s, bytesOf[f], Probe(f) = "HIT_RESERVED")]
    /\ lru' = Touched(lru, w)
    /\ dirty' = (DirtyAfterAccess(f) + B2N(~IsModified(l))) % DirtyWidth
    /\ missq' = missq \o EvictionOf(f)
    /\ port' = port + (IF Evicts(f) THEN Cardinality(DirtySectors(lines[w])) ELSE 0)
    /\ AnswerNow(f)
    /\ UNCHANGED <<mshr, index>>

MshrFull(a) ==
    IF mshr[a] # <<>> THEN Len(mshr[a]) >= MaxMerged
    ELSE Cardinality({b \in Addr : mshr[b] # <<>>}) >= MshrEntries

\* A read miss may need two entries of the miss queue.
MissQueueRoom == Len(missq) + 1 < MissQ

SendRead_Mutant(f) ==
    /\ mshr' = [mshr EXCEPT ![addrOf(f)] = Append(@, f)]
    /\ missq' = Append(missq, f) \o EvictionOf(f)
    /\ index' = [index EXCEPT ![f] = WayOf(f)]

\* send_read_request: join the entry of the sector, or open one and fetch it.
SendRead(f) ==
    /\ mshr' = [mshr EXCEPT ![addrOf(f)] = Append(@, f)]
    /\ IF mshr[addrOf(f)] # <<>>
       THEN missq' = missq \o EvictionOf(f) /\ UNCHANGED index
       ELSE /\ missq' = Append(missq, f) \o EvictionOf(f)
            /\ index' = [index EXCEPT ![f] = WayOf(f)]

ReadMiss(f) ==
    /\ ~IsWrite(f)
    /\ Probe(f) \in {"HIT_RESERVED", "SECTOR_MISS", "MISS"}
    /\ MissQueueRoom
    /\ ~MshrFull(addrOf(f))
    /\ SendRead(f)
    /\ lines' = [lines EXCEPT ![WayOf(f)] = AccessedLine(f)]
    /\ lru' = Touched(lru, WayOf(f))
    /\ dirty' = DirtyAfterAccess(f) % DirtyWidth
    /\ UNCHANGED <<port, l2icnt>>

\* RESERVATION_FAIL: the fetch stays at the head of its queue.
ReservationFails(f) ==
    \/ Probe(f) = "RESERVATION_FAIL"
    \/ Probe(f) # "HIT" /\ IsWrite(f) /\ Len(missq) >= MissQ
    \/ Probe(f) # "HIT" /\ ~IsWrite(f) /\ (~MissQueueRoom \/ MshrFull(addrOf(f)))

Access ==
    /\ phase = "access" /\ phase' = "rop"
    /\ \/ /\ CanStart
          /\ LET f == Head(icntL2) IN Hit(f) \/ WriteMiss(f) \/ ReadMiss(f)
          /\ icntL2' = Tail(icntL2)
       \/ /\ CanStart => ReservationFails(Head(icntL2))
          /\ UNCHANGED <<lines, lru, dirty, port, mshr, index, missq, icntL2, l2icnt>>
    /\ UNCHANGED <<ready, rop, l2dram, dramL2, mem>>

-----------------------------------------------------------------------------
(* cache_cycle(): the ROP queue, whose front leaves after a fixed latency *)

Rop ==
    /\ phase = "rop" /\ phase' = "idle"
    /\ \/ /\ rop # <<>> /\ Len(icntL2) < IcntL2Size
          /\ rop' = Tail(rop)
          /\ icntL2' = Append(icntL2, Head(rop))
       \/ UNCHANGED <<rop, icntL2>>
    /\ UNCHANGED <<cache, missq, l2dram, dramL2, l2icnt, mem>>

CacheCycle == Reply \/ Fill \/ Miss \/ Access \/ Rop

Fixed(A) == A /\ UNCHANGED raced

Next ==
    \/ Fixed(CacheCycle)
    \/ Fixed(IcntPop)
    \/ Fixed(MemTake)
    \/ \E f \in Fetch : Arrive(f) \/ Fixed(MemReply(f))

Spec == Init /\ [][Next]_vars

(* The L2 clock runs, the latency of the ROP queue passes, the interconnect    *)
(* pops its replies and memory takes and answers what it is given.             *)
Fairness ==
    /\ WF_vars(Fixed(CacheCycle))
    /\ SF_vars(Fixed(Rop /\ rop' # rop))
    /\ SF_vars(Fixed(IcntPop))
    /\ SF_vars(Fixed(MemTake))
    /\ \A f \in Fetch : SF_vars(Fixed(MemReply(f)))

FairSpec == Spec /\ Fairness

-----------------------------------------------------------------------------
(* Properties *)

InFlight == (Range(missq) \cup Range(l2dram) \cup Range(dramL2) \cup mem) \cap Fetch
MshrEntry == {a \in Addr : mshr[a] # <<>>}

\* "MSHR should have prevented redundant memory request" (tag_array::fill): an
\* entry has either one fetch on its way, the first one merged into it, or a
\* place among the ready entries, never both; nothing else is on its way.  The
\* table and the miss queue keep their bounds, also when a read miss evicts.
MshrExact ==
    /\ NoRepeat(ready)
    /\ Range(ready) \subseteq MshrEntry
    /\ \A a \in Addr :
         {f \in InFlight : addrOf(f) = a} =
             IF a \in MshrEntry \ Range(ready) THEN {Head(mshr[a])} ELSE {}
    /\ \A f \in Fetch : f \in InFlight <=> index[f] # NoWay
    /\ Cardinality(MshrEntry) <= MshrEntries /\ Len(missq) <= MissQ
    /\ \A a \in Addr : Len(mshr[a]) <= MaxMerged

\* "number of dirty lines / total lines in the cache" (tag_array::probe):
\* m_dirty is the number of modified lines, as long as no sector was read and
\* written at the same time.  (Such a write turns a sector under fetch MODIFIED, the
\* line may be evicted, and the fill then cleans the line that took its place.)
DirtyCount == ~raced => dirty = Cardinality({w \in Way : IsModified(lines[w])}) % DirtyWidth

\* What was written is written back: a sector owed to memory, modified or
\* fetched to be modified again, is owed until its line is evicted into the miss
\* queue; under the same condition.
Owed(l) == {s \in Sector : l.st[s] = "M" \/ (l.st[s] = "R" /\ s \in l.modOnFill)}
DirtyKept ==
    [][~raced => \A w \in Way : \A s \in Owed(lines[w]) :
         \/ lines'[w].block = lines[w].block /\ s \in Owed(lines'[w])
         \/ /\ missq' # missq
            /\ LET e == missq'[Len(missq')] IN
               e \in Eviction /\ e.block = lines[w].block /\ s \in e.sectors]_vars

\* Seen from the cores, a sub partition is a MemService: one answer for each
\* fetch, none for a writeback of a level-1 cache.
ServiceState ==
    [f \in Fetch |-> IF f \in Range(l2icnt) THEN "answered"
                     ELSE IF f \in Here THEN "pending" ELSE "idle"]
Service == INSTANCE MemService WITH
    Writeback <- {f \in Fetch : IsWriteback(f)}, state <- ServiceState
ImplementsService == Service!Spec

\* "check for hit or pending hit" (tag_array::probe): a reserved sector is a
\* pending hit, its fetch is on its way (index[f] is kept as long, see MshrExact)
\* and will release the line.
ReservedIsPending ==
    \A w \in Way, s \in Sector :
        lines[w].st[s] = "R" =>
            \E f \in Fetch : index[f] = w /\ addrOf(f) = <<lines[w].block, s>>

\* "L2 cache lock-up: will try again next cycle" (cache_cycle): a reservation
\* failure does not last, every fetch that arrives is answered or, a writeback,
\* taken.
NoLockUp == \A f \in Fetch : f \in Range(rop) ~> f \in Range(l2icnt) \/ f \notin Here

\* Only a reserved sector that is not pending can keep a fetch from being
\* answered.  (A miss that joins an MSHR entry already answered reserves a sector
\* and sends nothing.)
EventuallyAnswered ==
    \A f \in Fetch :
        f \in Range(rop) ~> f \in Range(l2icnt) \/ f \notin Here \/ ~ReservedIsPending
=============================================================================
