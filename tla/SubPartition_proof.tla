-------------------------- MODULE SubPartition_proof --------------------------
(***************************************************************************)
(* Proofs about SubPartition, for every set of fetches, every number of    *)
(* ways, sectors and blocks and every queue size.                          *)
(***************************************************************************)
EXTENDS SubPartition, Queues_proof

USE L2Assumption, SubPartitionAssumption

LEMMA Constants ==
    /\ \A f \in Fetch : /\ kindOf[f] \in {"read", "atomic", "write", "wrbk"}
                        /\ blockOf[f] \in Block /\ sectorOf[f] \in Sector
                        /\ bytesOf[f] \in SUBSET Byte
                        /\ addrOf(f) \in Addr
                        /\ f \notin Eviction
    /\ MissQ \in Nat \ {0} /\ MshrEntries \in Nat \ {0} /\ MaxMerged \in Nat \ {0}
    /\ DirtyWidth \in Nat \ {0}
    /\ Cardinality(Way) \in Nat /\ Way = 0 .. Cardinality(Way) - 1 /\ NoWay \notin Way
    /\ NoBlock \notin Block
<1>1. Cardinality(Way) \in Nat
  BY FS_CardinalityType
<1>2. \A f \in Fetch : addrOf(f) \in Addr
  BY DEF addrOf, Addr
<1>3. NoWay \notin 0 .. Cardinality(Way) - 1
  BY <1>1 DEF NoWay
<1>4. QED BY <1>1, <1>2, <1>3

-----------------------------------------------------------------------------
(* What the operators of L2Cache do to a line *)

LEMMA AllocatedLine ==
    ASSUME NEW b \in Block, NEW s \in Sector
    PROVE  /\ Allocated(b, s) \in Line
           /\ Allocated(b, s).block = b
           /\ Allocated(b, s).st = [t \in Sector |-> IF t = s THEN "R" ELSE "I"]
BY DEF Allocated, EmptyLine, Line, SectorState

LEMMA AllocatedSectorLine ==
    ASSUME NEW l \in Line, NEW s \in Sector
    PROVE  LET m == AllocatedSector(l, s) IN
           /\ m \in Line /\ m.block = l.block
           /\ m.st = [l.st EXCEPT ![s] = "R"]
           /\ \A t \in Sector : t # s => (t \in m.modOnFill <=> t \in l.modOnFill)
           /\ l.st[s] = "M" => s \in m.modOnFill
BY DEF AllocatedSector, Line, SectorState

LEMMA MarkModifiedLine ==
    ASSUME NEW l \in Line, NEW s \in Sector, NEW bytes \in SUBSET Byte
    PROVE  LET m == MarkModified(l, s, bytes) IN
           /\ m \in Line /\ m.block = l.block
           /\ m.st = [l.st EXCEPT ![s] = "M"]
           /\ m.modOnFill = l.modOnFill
BY DEF MarkModified, Line, SectorState

LEMMA UpdateReadableLine ==
    ASSUME NEW l \in Line, NEW s \in Sector
    PROVE  LET m == UpdateReadable(l, s) IN
           m \in Line /\ m.block = l.block /\ m.st = l.st /\ m.modOnFill = l.modOnFill
BY DEF UpdateReadable, Line

LEMMA WriteHit ==
    ASSUME NEW l \in Line, NEW s \in Sector, NEW bytes \in SUBSET Byte
    PROVE  LET m == WriteHitLine(l, s, bytes) IN
           /\ m \in Line /\ m.block = l.block
           /\ m.st = [l.st EXCEPT ![s] = "M"]
           /\ m.modOnFill = l.modOnFill
<1> DEFINE m == MarkModified(l, s, bytes)
<1>1. m \in Line /\ m.block = l.block /\ m.st = [l.st EXCEPT ![s] = "M"]
      /\ m.modOnFill = l.modOnFill
  BY MarkModifiedLine
<1> HIDE DEF m
<1> DEFINE u == UpdateReadable(m, s)
<1>2. u \in Line /\ u.block = l.block /\ u.st = [l.st EXCEPT ![s] = "M"]
      /\ u.modOnFill = l.modOnFill
  BY <1>1, UpdateReadableLine
<1>3. QED BY <1>2 DEF WriteHitLine, m

LEMMA WriteMissed ==
    ASSUME NEW l \in Line, NEW s \in Sector, NEW bytes \in SUBSET Byte, NEW pending \in BOOLEAN
    PROVE  LET m == WriteMissLine(l, s, bytes, pending) IN
           /\ m \in Line /\ m.block = l.block
           /\ m.st = [l.st EXCEPT ![s] = "M"]
           /\ l.modOnFill \subseteq m.modOnFill
<1> DEFINE written == MarkModified(l, s, bytes)
           onFill == IF pending
                     THEN [written EXCEPT
                             !.modOnFill = @ \cup {s}, !.maskOnFill = TRUE,
                             !.readOnFill = IF bytes = Byte THEN @ ELSE @ \cup {s}]
                     ELSE written
           marked == [onFill EXCEPT !.readable[s] = (bytes = Byte)]
<1>1. /\ written \in Line /\ written.block = l.block
      /\ written.st = [l.st EXCEPT ![s] = "M"] /\ written.modOnFill = l.modOnFill
  BY MarkModifiedLine
<1> HIDE DEF written
<1>2. /\ onFill \in Line /\ onFill.block = l.block
      /\ onFill.st = [l.st EXCEPT ![s] = "M"] /\ l.modOnFill \subseteq onFill.modOnFill
  <2>1. CASE pending
    <3>1. PICK rd \in SUBSET Sector :
            onFill = [written EXCEPT !.modOnFill = written.modOnFill \cup {s},
                                     !.maskOnFill = TRUE, !.readOnFill = rd]
      <4>1. written.readOnFill \in SUBSET Sector
        BY <1>1 DEF Line
      <4>2. QED BY <2>1, <4>1
    <3>2. written.modOnFill \in SUBSET Sector
      BY <1>1 DEF Line
    <3> HIDE DEF onFill
    <3>3. onFill \in Line
      BY <1>1, <3>1, <3>2 DEF Line
    <3>4. QED BY <1>1, <3>1, <3>3 DEF Line
  <2>2. CASE ~pending
    BY <1>1, <2>2
  <2>3. QED BY <2>1, <2>2
<1> HIDE DEF onFill
<1>3. /\ marked \in Line /\ marked.block = l.block
      /\ marked.st = [l.st EXCEPT ![s] = "M"] /\ l.modOnFill \subseteq marked.modOnFill
  BY <1>2 DEF Line
<1> HIDE DEF marked
<1>4. LET m == UpdateReadable(marked, s) IN
      /\ m \in Line /\ m.block = l.block
      /\ m.st = [l.st EXCEPT ![s] = "M"]
      /\ l.modOnFill \subseteq m.modOnFill
  BY <1>3, UpdateReadableLine
<1>5. QED BY <1>4 DEF WriteMissLine, marked, onFill, written

LEMMA Filled ==
    ASSUME NEW l \in Line, NEW s \in Sector, NEW bytes \in SUBSET Byte
    PROVE  LET m == FillLine(l, s, bytes) IN
           /\ m \in Line /\ m.block = l.block
           /\ m.st = [l.st EXCEPT ![s] = IF s \in l.modOnFill THEN "M" ELSE "V"]
           /\ m.modOnFill = l.modOnFill
<1> DEFINE m == FillLine(l, s, bytes)
<1>1. /\ m.block = l.block /\ m.modOnFill = l.modOnFill
      /\ m.st = [l.st EXCEPT ![s] = IF s \in l.modOnFill THEN "M" ELSE "V"]
  BY DEF FillLine, Line
<1>2. /\ m.st \in [Sector -> SectorState] /\ m.readOnFill \subseteq Sector
      /\ m.readable \in [Sector -> BOOLEAN] /\ m.bytes \in [Sector -> SUBSET Byte]
      /\ m = [l EXCEPT !.st = m.st, !.readable = m.readable, !.readOnFill = m.readOnFill,
                       !.bytes = m.bytes]
  BY DEF FillLine, Line, SectorState
<1> HIDE DEF m
<1>3. m \in Line
  BY <1>2 DEF Line
<1>4. QED BY <1>1, <1>3 DEF m

-----------------------------------------------------------------------------
(* The victim *)

\* lru lists every way.
LruOK == lru \in Seq(Way) /\ Range(lru) = Way

LEMMA TouchedListsAll ==
    ASSUME LruOK, NEW w \in Way
    PROVE  Touched(lru, w) \in Seq(Way) /\ Range(Touched(lru, w)) = Way
<1> DEFINE n == Len(lru)
           at == CHOOSE i \in DOMAIN lru : lru[i] = w
           t == [i \in 1 .. n |-> IF i < at THEN lru[i] ELSE IF i < n THEN lru[i + 1] ELSE w]
<1>1. n \in Nat /\ DOMAIN lru = 1 .. n /\ \A i \in 1 .. n : lru[i] \in Way
  BY DEF LruOK
<1>2. \A v \in Way : \E i \in 1 .. n : lru[i] = v
  BY <1>1 DEF LruOK, Range
<1>3. at \in 1 .. n /\ lru[at] = w
  BY <1>1, <1>2
<1>4. Touched(lru, w) = t
  BY <1>1 DEF Touched
<1> HIDE DEF n, at
<1>5. \A i \in 1 .. n : t[i] \in Way
  <2>1. \A i \in 1 .. n : i < n => i + 1 \in 1 .. n
    BY <1>1
  <2>2. QED BY <1>1, <2>1
<1>6. t \in Seq(Way) /\ DOMAIN t = 1 .. n
  <2>1. t \in [1 .. n -> Way]
    BY <1>5
  <2>2. QED BY <1>1, <2>1
<1>7. ASSUME NEW v \in Way PROVE \E i \in 1 .. n : t[i] = v
  <2>1. PICK k \in 1 .. n : lru[k] = v
    BY <1>2
  <2>2. CASE k < at
    BY <2>1, <2>2
  <2>3. CASE k = at
    <3>1. n \in 1 .. n /\ t[n] = w
      BY <1>1, <1>3
    <3>2. QED BY <1>3, <2>1, <2>3, <3>1
  <2>4. CASE k > at
    <3> DEFINE j == k - 1
    <3>1. j \in 1 .. n /\ ~(j < at) /\ j < n /\ j + 1 = k
      <4>1. n \in Nat /\ at \in 1 .. n
        BY <1>1, <1>3
      <4> HIDE DEF t
      <4>2. QED BY <2>4, <4>1
    <3> HIDE DEF j
    <3>2. t[j] = lru[j + 1]
      BY <3>1
    <3> HIDE DEF t
    <3>3. QED BY <2>1, <3>1, <3>2
  <2> HIDE DEF t
  <2>5. QED BY <1>1, <1>3, <2>2, <2>3, <2>4
<1> HIDE DEF t
<1>8. Range(t) = Way
  <2>1. Range(t) = {t[i] : i \in 1 .. n}
    BY <1>6 DEF Range
  <2>2. QED BY <1>5, <1>7, <2>1
<1>9. QED BY <1>4, <1>6, <1>8

\* The victim is a way that is not reserved, or there is none.
LEMMA VictimFree ==
    ASSUME LruOK, Victim(lines, lru) # NoWay
    PROVE  Victim(lines, lru) \in Way /\ ~IsReserved(lines[Victim(lines, lru)])
<1> DEFINE free == {w \in Way : ~IsReserved(lines[w])}
           invalid == {w \in free : IsInvalid(lines[w])}
<1>1. free # {}
  BY DEF Victim
<1>2. CASE invalid # {}
  <2>1. invalid \in SUBSET (0 .. Cardinality(Way)) /\ Cardinality(Way) \in Nat
    <3>1. invalid \subseteq Way
      OBVIOUS
    <3> HIDE DEF invalid
    <3>2. QED BY <3>1, Constants
  <2>2. \E w \in invalid : \A v \in invalid : v <= w
    <3> HIDE DEF invalid
    <3>1. QED BY <1>2, <2>1, LargestOfNats
  <2>3. Victim(lines, lru) \in invalid
    BY <1>1, <1>2, <2>2 DEF Victim
  <2>4. QED BY <2>3
<1>3. CASE invalid = {}
  <2> DEFINE places == {i \in DOMAIN lru : lru[i] \in free}
  <2>1. PICK v \in free : v \in Way
    BY <1>1
  <2>2. PICK k \in DOMAIN lru : lru[k] = v
    BY <2>1 DEF LruOK, Range
  <2>3. places # {} /\ places \in SUBSET Nat
    BY <2>1, <2>2 DEF LruOK
  <2> HIDE DEF places
  <2>4. PICK i \in places : \A j \in places : i <= j
    BY <2>3, LeastOfNats
  <2>5. i \in DOMAIN lru /\ lru[i] \in free /\ \A j \in 1 .. i - 1 : lru[j] \notin free
    <3>1. i \in DOMAIN lru /\ lru[i] \in free /\ DOMAIN lru = 1 .. Len(lru) /\ Len(lru) \in Nat
      BY DEF places, LruOK
    <3>2. ASSUME NEW j \in 1 .. i - 1, lru[j] \in free PROVE FALSE
      <4>1. j \in DOMAIN lru /\ j < i
        BY <3>1, <3>2
      <4>2. j \in places
        BY <3>2, <4>1 DEF places
      <4>3. QED BY <2>3, <2>4, <4>1, <4>2
    <3>3. QED BY <3>1, <3>2
  <2>6. Victim(lines, lru) \in free
    BY <1>1, <1>3, <2>5 DEF Victim
  <2>7. QED BY <2>6
<1>4. QED BY <1>2, <1>3

-----------------------------------------------------------------------------
(* The inductive invariant *)

\* The cache: a line that was never allocated has no sectors and no fetch.
CacheOK ==
    /\ lines \in [Way -> Line]
    /\ \A w \in Way : lines[w].block = NoBlock => IsInvalid(lines[w])
    /\ LruOK
    /\ index \in [Fetch -> Way \cup {NoWay}]
    /\ \A f \in Fetch : index[f] # NoWay => lines[index[f]].block # NoBlock
    /\ dirty \in Nat

QueuesOK ==
    /\ rop \in Seq(Fetch) /\ icntL2 \in Seq(Fetch) /\ l2icnt \in Seq(Fetch)
    /\ dramL2 \in Seq(Fetch)
    /\ missq \in Seq(Fetch \cup Eviction) /\ l2dram \in Seq(Fetch \cup Eviction)
    /\ mem \in SUBSET Fetch
    /\ ready \in Seq(Addr)
    /\ mshr \in [Addr -> Seq(Fetch)]

\* On the cores' side a fetch is in one place: a queue, or the MSHR entry of its
\* sector, where only reads and atomics go.
CoreOnce ==
    /\ NoRepeat(rop) /\ NoRepeat(icntL2) /\ NoRepeat(l2icnt)
    /\ Range(rop) \cap Range(icntL2) = {}
    /\ Range(rop) \cap Range(l2icnt) = {}
    /\ Range(icntL2) \cap Range(l2icnt) = {}
    /\ \A a \in Addr :
         /\ NoRepeat(mshr[a])
         /\ Range(mshr[a]) \cap Range(rop) = {}
         /\ Range(mshr[a]) \cap Range(icntL2) = {}
         /\ Range(mshr[a]) \cap Range(l2icnt) = {}
         /\ \A f \in Range(mshr[a]) : addrOf(f) = a /\ ~IsWrite(f)

\* On the memory's side, among the L2's own writebacks, as well.
MemOnce ==
    /\ OnceIn(Fetch, missq) /\ OnceIn(Fetch, l2dram) /\ NoRepeat(dramL2)
    /\ Range(missq) \cap Range(l2dram) \cap Fetch = {}
    /\ Range(missq) \cap Range(dramL2) = {}
    /\ Range(l2dram) \cap Range(dramL2) = {}
    /\ mem \cap Range(missq) = {} /\ mem \cap Range(l2dram) = {} /\ mem \cap Range(dramL2) = {}

\* The first three conjuncts of MshrExact are about the entries, ...
Entries ==
    /\ NoRepeat(ready)
    /\ Range(ready) \subseteq MshrEntry
    /\ \A a \in Addr :
         {f \in InFlight : addrOf(f) = a} =
             IF a \in MshrEntry \ Range(ready) THEN {Head(mshr[a])} ELSE {}
    /\ \A f \in Fetch : f \in InFlight <=> index[f] # NoWay

\* ... the others about their number.
Bounds ==
    /\ IsFiniteSet(MshrEntry) /\ Cardinality(MshrEntry) <= MshrEntries
    /\ Len(missq) <= MissQ
    /\ \A a \in Addr : Len(mshr[a]) <= MaxMerged

Inv == CacheOK /\ QueuesOK /\ CoreOnce /\ MemOnce /\ Entries /\ Bounds

\* The queues of fetches, one by one.
LEMMA InvQueues ==
    ASSUME Inv
    PROVE  /\ rop \in Seq(Fetch) /\ NoRepeat(rop)
           /\ icntL2 \in Seq(Fetch) /\ NoRepeat(icntL2)
           /\ l2icnt \in Seq(Fetch) /\ NoRepeat(l2icnt)
           /\ dramL2 \in Seq(Fetch) /\ NoRepeat(dramL2)
           /\ missq \in Seq(Fetch \cup Eviction) /\ OnceIn(Fetch, missq)
           /\ l2dram \in Seq(Fetch \cup Eviction) /\ OnceIn(Fetch, l2dram)
           /\ ready \in Seq(Addr) /\ NoRepeat(ready)
           /\ \A a \in Addr : mshr[a] \in Seq(Fetch) /\ NoRepeat(mshr[a])
<1>1. /\ rop \in Seq(Fetch) /\ NoRepeat(rop)
      /\ icntL2 \in Seq(Fetch) /\ NoRepeat(icntL2)
      /\ l2icnt \in Seq(Fetch) /\ NoRepeat(l2icnt)
  BY DEF Inv, QueuesOK, CoreOnce
<1>2. /\ dramL2 \in Seq(Fetch) /\ NoRepeat(dramL2)
      /\ missq \in Seq(Fetch \cup Eviction) /\ OnceIn(Fetch, missq)
      /\ l2dram \in Seq(Fetch \cup Eviction) /\ OnceIn(Fetch, l2dram)
  BY DEF Inv, QueuesOK, MemOnce
<1>3. ready \in Seq(Addr) /\ NoRepeat(ready)
  BY DEF Inv, QueuesOK, Entries
<1>4. \A a \in Addr : mshr[a] \in Seq(Fetch)
  BY DEF Inv, QueuesOK
<1>5. \A a \in Addr : NoRepeat(mshr[a])
  BY DEF Inv, CoreOnce
<1>6. QED BY <1>1, <1>2, <1>3, <1>4, <1>5

-----------------------------------------------------------------------------
(* What a probe finds and what an access makes of the line *)

LEMMA Probed ==
    ASSUME CacheOK, NEW f \in Fetch, Probe(f) # "RESERVATION_FAIL"
    PROVE  LET w == WayOf(f)  l == lines[w]  s == sectorOf[f] IN
           /\ w \in Way
           /\ Probe(f) = "HIT" => l.block = blockOf[f] /\ l.st[s] \in {"V", "M"}
           /\ Probe(f) = "HIT_RESERVED" => l.block = blockOf[f] /\ l.st[s] = "R"
           /\ Probe(f) = "SECTOR_MISS" => l.block = blockOf[f] /\ l.st[s] \in {"I", "M"}
           /\ Probe(f) = "MISS" => ~IsReserved(l)
<1> DEFINE w == WayOf(f)
           l == lines[w]
           s == sectorOf[f]
<1>1. CASE WaysOf(f) # {}
  <2>1. w \in WaysOf(f)
    BY <1>1 DEF WayOf
  <2>2. w \in Way /\ l.block = blockOf[f] /\ l \in Line /\ s \in Sector
    BY <2>1, Constants DEF WaysOf, CacheOK
  <2>3. Probe(f) = HitKind(l, s, IsWrite(f))
    BY <1>1 DEF Probe
  <2>4. l.st[s] \in SectorState
    BY <2>2 DEF Line
  <2> HIDE DEF l, s, w
  <2>5. /\ HitKind(l, s, IsWrite(f)) = "HIT" => l.st[s] \in {"V", "M"}
        /\ HitKind(l, s, IsWrite(f)) = "HIT_RESERVED" => l.st[s] = "R"
        /\ HitKind(l, s, IsWrite(f)) = "SECTOR_MISS" => l.st[s] \in {"I", "M"}
        /\ HitKind(l, s, IsWrite(f)) # "MISS"
    BY <2>4 DEF HitKind, SectorState
  <2>6. QED BY <2>2, <2>3, <2>5 DEF l, s, w
<1>2. CASE WaysOf(f) = {}
  <2>1. w = Victim(lines, lru) /\ Probe(f) = "MISS" /\ w # NoWay
    BY <1>2 DEF WayOf, Probe
  <2>2. w \in Way /\ ~IsReserved(l)
    BY <2>1, VictimFree DEF CacheOK
  <2>3. QED BY <2>1, <2>2
<1>3. QED BY <1>1, <1>2

Misses == {"HIT_RESERVED", "SECTOR_MISS", "MISS"}

\* After a miss the line has the block of the fetch and its sector is reserved.
LEMMA Accessed ==
    ASSUME CacheOK, NEW f \in Fetch, Probe(f) \in Misses
    PROVE  LET l == lines[WayOf(f)]  m == AccessedLine(f)  s == sectorOf[f] IN
           /\ m \in Line /\ m.block = blockOf[f] /\ m.st[s] = "R"
           /\ Probe(f) = "HIT_RESERVED" => m = l
           /\ Probe(f) = "SECTOR_MISS" =>
                /\ m.st = [l.st EXCEPT ![s] = "R"]
                /\ \A t \in Sector : t # s => (t \in m.modOnFill <=> t \in l.modOnFill)
                /\ l.st[s] = "M" => s \in m.modOnFill
           /\ Probe(f) = "MISS" => m.st = [t \in Sector |-> IF t = s THEN "R" ELSE "I"]
           /\ IsModified(m) => IsModified(l)
<1> DEFINE l == lines[WayOf(f)]
           m == AccessedLine(f)
           s == sectorOf[f]
<1>1. l \in Line /\ s \in Sector /\ blockOf[f] \in Block /\ l.st \in [Sector -> SectorState]
  BY Probed, Constants DEF CacheOK, Misses, Line
<1>2. CASE Probe(f) = "HIT_RESERVED"
  <2>1. m = l
    BY <1>2 DEF AccessedLine
  <2>2. QED BY <1>1, <1>2, <2>1, Probed
<1>3. CASE Probe(f) = "SECTOR_MISS"
  <2>1. m = AllocatedSector(l, s)
    BY <1>3 DEF AccessedLine
  <2>2. /\ m \in Line /\ m.block = l.block
        /\ m.st = [l.st EXCEPT ![s] = "R"]
        /\ \A t \in Sector : t # s => (t \in m.modOnFill <=> t \in l.modOnFill)
        /\ l.st[s] = "M" => s \in m.modOnFill
    BY <1>1, <2>1, AllocatedSectorLine
  <2>3. l.block = blockOf[f]
    BY <1>3, Probed
  <2> HIDE DEF m, l, s
  <2>4. m.st[s] = "R" /\ (IsModified(m) => IsModified(l))
    BY <1>1, <2>2 DEF IsModified, Has
  <2>5. QED BY <1>3, <2>2, <2>3, <2>4 DEF m, l, s
<1>4. CASE Probe(f) = "MISS"
  <2>1. m = Allocated(blockOf[f], s)
    BY <1>4 DEF AccessedLine
  <2>2. /\ m \in Line /\ m.block = blockOf[f]
        /\ m.st = [t \in Sector |-> IF t = s THEN "R" ELSE "I"]
    BY <1>1, <2>1, AllocatedLine
  <2> HIDE DEF m, l, s
  <2>3. m.st[s] = "R" /\ ~IsModified(m)
    BY <1>1, <2>2 DEF IsModified, Has
  <2>4. QED BY <1>4, <2>2, <2>3 DEF m, l, s
<1>5. QED BY <1>2, <1>3, <1>4 DEF Misses

\* The writeback of a modified victim: at most one, of a block.
LEMMA Evicted ==
    ASSUME CacheOK, NEW f \in Fetch, Probe(f) \in Misses
    PROVE  LET l == lines[WayOf(f)]  e == [block |-> l.block, sectors |-> DirtySectors(l)] IN
           /\ Evicts(f) => EvictionOf(f) = <<e>> /\ e \in Eviction /\ e \notin Fetch
           /\ ~Evicts(f) => EvictionOf(f) = <<>>
<1> DEFINE l == lines[WayOf(f)]
           e == [block |-> l.block, sectors |-> DirtySectors(l)]
<1>1. WayOf(f) \in Way /\ l \in Line
  BY Probed DEF CacheOK, Misses
<1>2. ASSUME Evicts(f) PROVE e \in Eviction /\ EvictionOf(f) = <<e>>
  <2>1. IsModified(l)
    BY <1>2 DEF Evicts
  <2>2. ~IsInvalid(l)
    BY <2>1 DEF IsModified, Has, IsInvalid
  <2>3. l.block \in Block
    BY <1>1, <2>2 DEF CacheOK, Line
  <2>4. e \in Eviction
    BY <2>3 DEF Eviction, DirtySectors
  <2>5. QED BY <1>2, <2>4 DEF EvictionOf
<1>3. QED BY <1>2, Constants DEF EvictionOf

-----------------------------------------------------------------------------
(* Steps that leave the cache as it is *)

LEMMA CacheFrame ==
    ASSUME CacheOK, UNCHANGED <<lines, lru, index, dirty>> PROVE CacheOK'
BY DEF CacheOK, LruOK, IsInvalid

\* The entries see only which fetches are under way.
LEMMA EntriesFrame ==
    ASSUME Entries, UNCHANGED <<mshr, ready, index>>, InFlight' = InFlight PROVE Entries'
<1>1. MshrEntry' = MshrEntry
  BY DEF MshrEntry
<1>2. QED BY <1>1 DEF Entries

LEMMA BoundsFrame ==
    ASSUME Bounds, UNCHANGED mshr, Len(missq') <= Len(missq), Len(missq) \in Int,
           Len(missq') \in Int
    PROVE  Bounds'
<1>1. MshrEntry' = MshrEntry
  BY DEF MshrEntry
<1>2. Len(missq') <= MissQ
  BY Constants DEF Bounds
<1>3. QED BY <1>1, <1>2 DEF Bounds

LEMMA MemFrame ==
    ASSUME MemOnce, UNCHANGED <<missq, l2dram, dramL2, mem>>
    PROVE  MemOnce' /\ InFlight' = InFlight
BY DEF MemOnce, InFlight

LEMMA ArriveInv == ASSUME Inv, NEW f \in Fetch, Arrive(f) PROVE Inv'
<1>1. UNCHANGED <<lines, lru, index, dirty, mshr, ready, missq, l2dram, dramL2, mem,
                  icntL2, l2icnt>>
  BY DEF Arrive, cache
<1>2. rop' = Append(rop, f) /\ f \notin Here
  BY DEF Arrive
<1>3. /\ f \notin Range(rop) /\ f \notin Range(icntL2) /\ f \notin Range(l2icnt)
      /\ \A a \in Addr : f \notin Range(mshr[a])
  <2> DEFINE M == UNION {Range(mshr[a]) : a \in Addr}
  <2>1. \A b \in Addr : Range(mshr[b]) \subseteq M
    OBVIOUS
  <2>2. Here = Range(rop) \cup Range(icntL2) \cup M \cup Range(l2icnt)
    BY DEF Here
  <2> HIDE DEF M
  <2>3. QED BY <1>2, <2>1, <2>2
<1>4. rop' \in Seq(Fetch) /\ NoRepeat(rop') /\ Range(rop') = Range(rop) \cup {f}
  <2>1. rop \in Seq(Fetch) /\ NoRepeat(rop)
    BY InvQueues
  <2>2. f \notin Range(rop) /\ rop' = Append(rop, f)
    BY <1>2, <1>3
  <2>3. QED BY <2>1, <2>2, Pushed
<1>5. CacheOK' /\ MemOnce' /\ Entries' /\ Bounds'
  BY <1>1, CacheFrame, MemFrame, EntriesFrame, BoundsFrame DEF Inv, QueuesOK
<1>6. QueuesOK'
  BY <1>1, <1>4 DEF Inv, QueuesOK
<1>7. CoreOnce'
  BY <1>1, <1>3, <1>4 DEF Inv, CoreOnce
<1>8. QED BY <1>5, <1>6, <1>7 DEF Inv

LEMMA IcntPopInv == ASSUME Inv, IcntPop PROVE Inv'
<1>1. UNCHANGED <<lines, lru, index, dirty, mshr, ready, missq, l2dram, dramL2, mem, rop,
                  icntL2>>
  BY DEF IcntPop, cache
<1>2. l2icnt' = Tail(l2icnt) /\ l2icnt # <<>>
  BY DEF IcntPop
<1>3. l2icnt' \in Seq(Fetch) /\ NoRepeat(l2icnt') /\ Range(l2icnt') \subseteq Range(l2icnt)
  BY <1>2, InvQueues, Taken
<1>4. CacheOK' /\ MemOnce' /\ Entries' /\ Bounds'
  BY <1>1, CacheFrame, MemFrame, EntriesFrame, BoundsFrame DEF Inv, QueuesOK
<1>5. QueuesOK'
  BY <1>1, <1>3 DEF Inv, QueuesOK
<1>6. CoreOnce'
  BY <1>1, <1>3 DEF Inv, CoreOnce
<1>7. QED BY <1>4, <1>5, <1>6 DEF Inv

LEMMA RopInv == ASSUME Inv, Rop PROVE Inv'
<1>1. UNCHANGED <<lines, lru, index, dirty, mshr, ready, missq, l2dram, dramL2, mem, l2icnt>>
  BY DEF Rop, cache
<1>2. CacheOK' /\ MemOnce' /\ Entries' /\ Bounds'
  BY <1>1, CacheFrame, MemFrame, EntriesFrame, BoundsFrame DEF Inv, QueuesOK
<1>3. CASE rop # <<>> /\ rop' = Tail(rop) /\ icntL2' = Append(icntL2, Head(rop))
  <2> DEFINE f == Head(rop)
  <2>1. /\ f \in Fetch /\ f \in Range(rop) /\ rop' \in Seq(Fetch)
        /\ NoRepeat(rop') /\ Range(rop') = Range(rop) \ {f}
    BY <1>3, InvQueues, Taken
  <2> HIDE DEF f
  <2>2. f \notin Range(icntL2)
    BY <2>1 DEF Inv, CoreOnce
  <2>3. icntL2' = Append(icntL2, f)
    BY <1>3 DEF f
  <2>4. /\ icntL2' \in Seq(Fetch) /\ NoRepeat(icntL2')
        /\ Range(icntL2') = Range(icntL2) \cup {f}
    <3>1. icntL2 \in Seq(Fetch) /\ NoRepeat(icntL2)
      BY InvQueues
    <3>2. f \in Fetch /\ f \notin Range(icntL2) /\ icntL2' = Append(icntL2, f)
      BY <2>1, <2>2, <2>3
    <3>3. QED BY <3>1, <3>2, Pushed
  <2>5. QueuesOK'
    BY <1>1, <2>1, <2>4 DEF Inv, QueuesOK
  <2>6. CoreOnce'
    BY <1>1, <2>1, <2>4 DEF Inv, CoreOnce
  <2>7. QED BY <1>2, <2>5, <2>6 DEF Inv
<1>4. CASE UNCHANGED <<rop, icntL2>>
  <2>1. QueuesOK' /\ CoreOnce'
    BY <1>1, <1>4 DEF Inv, QueuesOK, CoreOnce
  <2>2. QED BY <1>2, <2>1 DEF Inv
<1>5. QED BY <1>3, <1>4 DEF Rop

\* The memory partition takes a fetch over, or one of the L2's writebacks away.
LEMMA MemTakeInv == ASSUME Inv, MemTake PROVE Inv'
<1>1. UNCHANGED <<lines, lru, index, dirty, mshr, ready, missq, dramL2, rop, icntL2, l2icnt>>
  BY DEF MemTake, cache
<1> DEFINE x == Head(l2dram)
<1>2. l2dram # <<>> /\ l2dram' = Tail(l2dram) /\ mem' = mem \cup ({x} \cap Fetch)
  BY DEF MemTake
<1>3. /\ x \in Range(l2dram) /\ l2dram' \in Seq(Fetch \cup Eviction)
      /\ OnceIn(Fetch, l2dram')
      /\ Range(l2dram') \cap Fetch = (Range(l2dram) \cap Fetch) \ {x}
  BY <1>2, HeadTail, TailOnce DEF Inv, QueuesOK, MemOnce
<1> HIDE DEF x
<1>4. InFlight' = InFlight
  BY <1>1, <1>2, <1>3 DEF InFlight
<1>5. QueuesOK'
  BY <1>1, <1>2, <1>3 DEF Inv, QueuesOK
<1>6. Range(dramL2) \subseteq Fetch /\ mem \subseteq Fetch
  BY SeqRange DEF Inv, QueuesOK
<1>7. MemOnce'
  BY <1>1, <1>2, <1>3, <1>6 DEF Inv, MemOnce
<1>8. CoreOnce'
  BY <1>1 DEF Inv, CoreOnce
<1>9. CacheOK' /\ Entries' /\ Bounds'
  BY <1>1, <1>4, CacheFrame, EntriesFrame, BoundsFrame DEF Inv, QueuesOK
<1>10. QED BY <1>5, <1>7, <1>8, <1>9 DEF Inv

LEMMA MemReplyInv == ASSUME Inv, NEW f \in Fetch, MemReply(f) PROVE Inv'
<1>1. UNCHANGED <<lines, lru, index, dirty, mshr, ready, missq, l2dram, rop, icntL2, l2icnt>>
  BY DEF MemReply, cache
<1>2. f \in mem /\ mem' = mem \ {f} /\ dramL2' = Append(dramL2, f)
  BY DEF MemReply
<1>3. f \notin Range(dramL2)
  BY <1>2 DEF Inv, MemOnce
<1>4. dramL2' \in Seq(Fetch) /\ NoRepeat(dramL2') /\ Range(dramL2') = Range(dramL2) \cup {f}
  <2>1. dramL2 \in Seq(Fetch) /\ NoRepeat(dramL2)
    BY InvQueues
  <2>2. f \in Fetch /\ f \notin Range(dramL2) /\ dramL2' = Append(dramL2, f)
    BY <1>2, <1>3
  <2>3. QED BY <2>1, <2>2, Pushed
<1>5. InFlight' = InFlight
  BY <1>1, <1>2, <1>4 DEF InFlight
<1>6. QueuesOK'
  BY <1>1, <1>2, <1>4 DEF Inv, QueuesOK
<1>7. MemOnce'
  BY <1>1, <1>2, <1>4 DEF Inv, MemOnce
<1>8. CoreOnce'
  BY <1>1 DEF Inv, CoreOnce
<1>9. CacheOK' /\ Entries' /\ Bounds'
  BY <1>1, <1>5, CacheFrame, EntriesFrame, BoundsFrame DEF Inv, QueuesOK
<1>10. QED BY <1>6, <1>7, <1>8, <1>9 DEF Inv

LEMMA MissInv == ASSUME Inv, Miss PROVE Inv'
<1>1. UNCHANGED <<lines, lru, index, dirty, mshr, ready, mem, dramL2, rop, icntL2, l2icnt>>
  BY DEF Miss
<1>2. CoreOnce' /\ CacheOK'
  BY <1>1, CacheFrame DEF Inv, CoreOnce
<1>3. CASE missq # <<>> /\ missq' = Tail(missq) /\ l2dram' = Append(l2dram, Head(missq))
  <2> DEFINE x == Head(missq)
  <2>1. /\ x \in Fetch \cup Eviction /\ x \in Range(missq)
        /\ missq' \in Seq(Fetch \cup Eviction) /\ OnceIn(Fetch, missq')
        /\ Range(missq') \cap Fetch = (Range(missq) \cap Fetch) \ {x}
        /\ Len(missq') = Len(missq) - 1
    BY <1>3, InvQueues, HeadTail, TailOnce
  <2>2. l2dram' = Append(l2dram, x)
    BY <1>3
  <2> HIDE DEF x
  <2>3. x \notin Range(l2dram) \cap Fetch
    BY <2>1 DEF Inv, MemOnce
  <2>4. /\ l2dram' \in Seq(Fetch \cup Eviction) /\ OnceIn(Fetch, l2dram')
        /\ Range(l2dram') = Range(l2dram) \cup {x}
    <3>1. l2dram \in Seq(Fetch \cup Eviction) /\ OnceIn(Fetch, l2dram)
      BY InvQueues
    <3>2. l2dram' \in Seq(Fetch \cup Eviction)
      BY <2>1, <2>2, <3>1, AppendType
    <3>3. /\ OnceIn(Fetch, Append(l2dram, x))
          /\ Range(Append(l2dram, x)) = Range(l2dram) \cup {x}
      <4>1. x \in Fetch \cup Eviction
        BY <2>1
      <4>2. QED BY <2>3, <3>1, <4>1, AppendOnce
    <3>4. QED BY <2>2, <3>2, <3>3
  <2>5. InFlight' = InFlight
    BY <1>1, <2>1, <2>4 DEF InFlight
  <2>6. QueuesOK'
    BY <1>1, <2>1, <2>4 DEF Inv, QueuesOK
  <2>7. Range(dramL2) \subseteq Fetch /\ mem \subseteq Fetch
    BY SeqRange DEF Inv, QueuesOK
  <2>8. MemOnce'
    BY <1>1, <2>1, <2>4, <2>7 DEF Inv, MemOnce
  <2>9. Len(missq) \in Int /\ Len(missq') \in Int
    BY <2>6 DEF Inv, QueuesOK
  <2>10. Entries' /\ Bounds'
    BY <1>1, <2>1, <2>5, <2>9, EntriesFrame, BoundsFrame DEF Inv
  <2>11. QED BY <1>2, <2>6, <2>8, <2>10 DEF Inv
<1>4. CASE UNCHANGED <<missq, l2dram>>
  <2>1. QueuesOK'
    BY <1>1, <1>4 DEF Inv, QueuesOK
  <2>2. MemOnce' /\ Entries' /\ Bounds'
    BY <1>1, <1>4, MemFrame, EntriesFrame, BoundsFrame DEF Inv, QueuesOK
  <2>3. QED BY <1>2, <2>1, <2>2 DEF Inv
<1>5. QED BY <1>3, <1>4 DEF Miss
-----------------------------------------------------------------------------
(* Steps of the MSHRs *)

LEMMA EntriesShrink ==
    ASSUME Bounds, MshrEntry' \subseteq MshrEntry, UNCHANGED missq,
           \A a \in Addr : Len(mshr'[a]) <= MaxMerged
    PROVE  Bounds'
<1>1. IsFiniteSet(MshrEntry') /\ Cardinality(MshrEntry') <= Cardinality(MshrEntry)
      /\ IsFiniteSet(MshrEntry)
  BY FS_Subset DEF Bounds
<1>2. Cardinality(MshrEntry) \in Int /\ Cardinality(MshrEntry') \in Int
  BY <1>1, FS_CardinalityType
<1>3. Cardinality(MshrEntry') <= MshrEntries
  BY <1>1, <1>2, Constants DEF Bounds
<1>4. QED BY <1>1, <1>3 DEF Bounds

\* The reply of fetch f, the head of the oldest ready entry, which goes when f
\* was the last of it.
Replies(f) ==
    LET a == Head(ready) IN
    /\ a \in Addr /\ f \in Fetch /\ f = Head(mshr[a]) /\ ~IsWrite(f)
    /\ a \in Range(ready) /\ Tail(ready) \in Seq(Addr)
    /\ NoRepeat(Tail(ready)) /\ Range(Tail(ready)) = Range(ready) \ {a}
    /\ ready' = IF Len(mshr[a]) = 1 THEN Tail(ready) ELSE ready
    /\ l2icnt' \in Seq(Fetch) /\ NoRepeat(l2icnt')
    /\ Range(l2icnt') = Range(l2icnt) \cup {f}
    /\ mshr' \in [Addr -> Seq(Fetch)]
    /\ f \in Range(mshr[a]) /\ Range(mshr'[a]) = Range(mshr[a]) \ {f}
    /\ NoRepeat(mshr'[a]) /\ Len(mshr[a]) \in Nat /\ Len(mshr'[a]) = Len(mshr[a]) - 1
    /\ mshr[a] # <<>> /\ (mshr'[a] = <<>> <=> Len(mshr[a]) = 1)
    /\ \A b \in Addr : b # a => mshr'[b] = mshr[b] /\ f \notin Range(mshr[b])

LEMMA ReplyMoves ==
    ASSUME Inv, ready # <<>>, MshrNext
    PROVE  Replies(Head(mshr[Head(ready)]))
<1> DEFINE a == Head(ready)
           q == mshr[a]
           f == Head(q)
<1>1. /\ a \in Addr /\ a \in Range(ready) /\ Tail(ready) \in Seq(Addr)
      /\ NoRepeat(Tail(ready)) /\ Range(Tail(ready)) = Range(ready) \ {a}
  BY InvQueues, Taken
<1>2. q \in Seq(Fetch) /\ q # <<>> /\ NoRepeat(q)
  BY <1>1 DEF Inv, QueuesOK, Entries, MshrEntry, CoreOnce
<1>3. /\ l2icnt' = Append(l2icnt, f) /\ mshr' = [mshr EXCEPT ![a] = Tail(q)]
      /\ ready' = IF Len(q) = 1 THEN Tail(ready) ELSE ready
  BY DEF MshrNext
<1> HIDE DEF q
<1>4. /\ f \in Fetch /\ f \in Range(q) /\ Tail(q) \in Seq(Fetch)
      /\ Len(q) \in Nat /\ Len(q) > 0 /\ Len(Tail(q)) = Len(q) - 1
      /\ NoRepeat(Tail(q)) /\ Range(Tail(q)) = Range(q) \ {f}
  BY <1>2, HeadTail, TailRange
<1> HIDE DEF f, a
<1>5. q = mshr[a] /\ mshr \in [Addr -> Seq(Fetch)] /\ l2icnt \in Seq(Fetch)
  BY DEF q, Inv, QueuesOK
<1>6. f \notin Range(l2icnt) /\ addrOf(f) = a /\ ~IsWrite(f) /\ NoRepeat(l2icnt)
  BY <1>1, <1>4, <1>5 DEF Inv, CoreOnce
<1>7. /\ l2icnt' \in Seq(Fetch) /\ NoRepeat(l2icnt')
      /\ Range(l2icnt') = Range(l2icnt) \cup {f}
  BY <1>3, <1>4, <1>5, <1>6, AppendRange, AppendType
<1> DEFINE t == Tail(q)
<1>8. /\ mshr' \in [Addr -> Seq(Fetch)] /\ mshr'[a] = t
      /\ \A b \in Addr : b # a => mshr'[b] = mshr[b]
  BY <1>1, <1>3, <1>4, <1>5
<1>9. \A b \in Addr : b # a => f \notin Range(mshr[b])
  BY <1>6 DEF Inv, CoreOnce
<1>10. (t = <<>> <=> Len(t) = 0) /\ Len(t) = Len(q) - 1 /\ NoRepeat(t) /\ Range(t) = Range(q) \ {f}
  BY <1>4, EmptyLength
<1> HIDE DEF t
<1>11. mshr'[a] = <<>> <=> Len(q) = 1
  BY <1>4, <1>8, <1>10
<1>12. a = Head(ready) /\ f = Head(mshr[a])
  BY DEF a, f, q
<1>13. Replies(f)
  BY <1>1, <1>2, <1>3, <1>4, <1>5, <1>6, <1>7, <1>8, <1>9, <1>10, <1>11, <1>12 DEF Replies
<1>14. QED BY <1>13 DEF f, q, a

\* The reply of a merged fetch, which takes its entry along when it was the last.
LEMMA ReplyInv == ASSUME Inv, Reply PROVE Inv'
<1>1. UNCHANGED <<lines, lru, index, dirty, missq, l2dram, dramL2, mem, rop, icntL2>>
  BY DEF Reply
<1>2. CacheOK' /\ MemOnce' /\ InFlight' = InFlight
  BY <1>1, CacheFrame, MemFrame DEF Inv
<1>3. CASE ready # <<>> /\ MshrNext
  <2> DEFINE a == Head(ready)
             q == mshr[a]
             f == Head(q)
  <2>1. Replies(f)
    BY <1>3, ReplyMoves
  <2> HIDE DEF f
  <2>2. a \in Addr /\ a \in Range(ready) /\ Range(Tail(ready)) = Range(ready) \ {a}
        /\ Tail(ready) \in Seq(Addr) /\ NoRepeat(Tail(ready))
        /\ ready' = IF Len(q) = 1 THEN Tail(ready) ELSE ready
    BY <2>1 DEF Replies
  <2>3. /\ l2icnt' \in Seq(Fetch) /\ NoRepeat(l2icnt')
        /\ Range(l2icnt') = Range(l2icnt) \cup {f}
    BY <2>1 DEF Replies
  <2>4. /\ mshr' \in [Addr -> Seq(Fetch)] /\ f \in Range(q) /\ Range(mshr'[a]) = Range(q) \ {f}
        /\ NoRepeat(mshr'[a]) /\ q # <<>> /\ (mshr'[a] = <<>> <=> Len(q) = 1)
        /\ Len(q) \in Nat /\ Len(mshr'[a]) = Len(q) - 1
        /\ \A b \in Addr : b # a => mshr'[b] = mshr[b] /\ f \notin Range(mshr[b])
    BY <2>1 DEF Replies
  <2> HIDE DEF a
  <2>5. q = mshr[a]
    OBVIOUS
  <2> HIDE DEF q
  <2>9. QueuesOK'
    BY <1>1, <2>2, <2>3, <2>4 DEF Inv, QueuesOK
  <2>10. CoreOnce'
    <3>1. ASSUME NEW b \in Addr
          PROVE  /\ NoRepeat(mshr'[b])
                 /\ Range(mshr'[b]) \cap Range(rop') = {}
                 /\ Range(mshr'[b]) \cap Range(icntL2') = {}
                 /\ Range(mshr'[b]) \cap Range(l2icnt') = {}
                 /\ \A g \in Range(mshr'[b]) : addrOf(g) = b /\ ~IsWrite(g)
      <4>1. /\ NoRepeat(mshr[b]) /\ Range(mshr[b]) \cap Range(rop) = {}
            /\ Range(mshr[b]) \cap Range(icntL2) = {}
            /\ Range(mshr[b]) \cap Range(l2icnt) = {}
            /\ \A g \in Range(mshr[b]) : addrOf(g) = b /\ ~IsWrite(g)
        BY DEF Inv, CoreOnce
      <4>2. CASE b = a
        BY <1>1, <2>3, <2>4, <2>5, <4>1, <4>2
      <4>3. CASE b # a
        BY <1>1, <2>3, <2>4, <4>1, <4>3
      <4>4. QED BY <4>2, <4>3
    <3>2. f \notin Range(rop) /\ f \notin Range(icntL2)
      BY <2>2, <2>4, <2>5 DEF Inv, CoreOnce
    <3>3. /\ NoRepeat(rop') /\ NoRepeat(icntL2') /\ NoRepeat(l2icnt')
          /\ Range(rop') \cap Range(icntL2') = {}
          /\ Range(rop') \cap Range(l2icnt') = {}
          /\ Range(icntL2') \cap Range(l2icnt') = {}
      BY <1>1, <2>3, <3>2 DEF Inv, CoreOnce
    <3>4. QED BY <3>1, <3>3 DEF CoreOnce
  <2>11. a \in MshrEntry
    BY <2>2, <2>4, <2>5 DEF MshrEntry
  <2>12. MshrEntry' = IF Len(q) = 1 THEN MshrEntry \ {a} ELSE MshrEntry
    <3>1. MshrEntry' = {b \in Addr : mshr'[b] # <<>>}
      BY DEF MshrEntry
    <3>2. QED BY <2>2, <2>4, <2>11, <3>1 DEF MshrEntry
  <2>13. Entries'
    <3>1. NoRepeat(ready') /\ Range(ready') \subseteq MshrEntry'
      BY <2>2, <2>12 DEF Inv, Entries
    <3>2. MshrEntry' \ Range(ready') = MshrEntry \ Range(ready)
      BY <2>2, <2>12
    <3>3. ASSUME NEW b \in Addr
          PROVE {g \in InFlight' : addrOf(g) = b} =
                  IF b \in MshrEntry' \ Range(ready') THEN {Head(mshr'[b])} ELSE {}
      <4>1. {g \in InFlight : addrOf(g) = b} =
              IF b \in MshrEntry \ Range(ready) THEN {Head(mshr[b])} ELSE {}
        BY DEF Inv, Entries
      <4>2. CASE b = a
        BY <1>2, <2>2, <3>2, <4>1, <4>2
      <4>3. CASE b # a
        BY <1>2, <2>4, <3>2, <4>1, <4>3
      <4>4. QED BY <4>2, <4>3
    <3>4. \A g \in Fetch : g \in InFlight' <=> index'[g] # NoWay
      BY <1>1, <1>2 DEF Inv, Entries
    <3>5. QED BY <3>1, <3>3, <3>4 DEF Entries
  <2>14. Bounds'
    <3>1. \A b \in Addr : Len(mshr'[b]) <= MaxMerged
      <4>1. \A b \in Addr : Len(mshr[b]) <= MaxMerged
        BY DEF Inv, Bounds
      <4>2. Len(mshr'[a]) <= MaxMerged
        <5>1. Len(mshr[a]) <= MaxMerged /\ MaxMerged \in Nat
          BY <2>2, <4>1, Constants
        <5>2. Len(mshr'[a]) = Len(mshr[a]) - 1 /\ Len(mshr[a]) \in Nat
          BY <2>4, <2>5
        <5>3. QED BY <5>1, <5>2
      <4>3. QED BY <2>4, <4>1, <4>2
    <3>2. MshrEntry' \subseteq MshrEntry
      BY <2>12
    <3>3. QED BY <1>1, <3>1, <3>2, EntriesShrink DEF Inv
  <2>15. QED BY <1>2, <2>9, <2>10, <2>13, <2>14 DEF Inv
<1>4. CASE UNCHANGED <<l2icnt, mshr, ready>>
  <2>1. QueuesOK' /\ CoreOnce'
    BY <1>1, <1>4 DEF Inv, QueuesOK, CoreOnce
  <2>2. Entries' /\ Bounds'
    BY <1>1, <1>2, <1>4, EntriesFrame, BoundsFrame DEF Inv, QueuesOK
  <2>3. QED BY <1>2, <2>1, <2>2 DEF Inv
<1>5. QED BY <1>3, <1>4 DEF Reply

-----------------------------------------------------------------------------
(* Steps that rewrite a line *)

LEMMA DirtyType ==
    ASSUME NEW d \in Int PROVE d % DirtyWidth \in Nat
<1>1. DirtyWidth \in Nat \ {0}
  BY Constants
<1> HIDE L2Assumption, SubPartitionAssumption
<1>2. QED BY <1>1

\* Line m takes the place of line w, and m_dirty counts the change.
Rewrites(w, m) ==
    /\ w \in Way /\ m \in Line /\ m.block # NoBlock
    /\ lines' = [lines EXCEPT ![w] = m]
Counts(w, m) ==
    dirty' = (dirty + (B2N(IsModified(m)) - B2N(IsModified(lines[w])))) % DirtyWidth

\* A step of the cache keeps its part of the invariant.
LEMMA CacheStep ==
    ASSUME CacheOK, NEW w, NEW m, Rewrites(w, m), dirty' \in Nat,
           LruOK', index' \in [Fetch -> Way \cup {NoWay}],
           \A f \in Fetch : index'[f] \in {NoWay, w, index[f]}
    PROVE  CacheOK'
<1>1. lines \in [Way -> Line] /\ index \in [Fetch -> Way \cup {NoWay}]
  BY DEF CacheOK
<1>2. /\ lines' \in [Way -> Line] /\ lines'[w] = m
      /\ \A v \in Way : v # w => lines'[v] = lines[v]
  BY <1>1 DEF Rewrites
<1>3. ASSUME NEW v \in Way, lines'[v].block = NoBlock PROVE IsInvalid(lines'[v])
  <2>1. v # w
    BY <1>2, <1>3 DEF Rewrites
  <2>2. QED BY <1>2, <1>3, <2>1 DEF CacheOK
<1>4. ASSUME NEW f \in Fetch, index'[f] # NoWay PROVE lines'[index'[f]].block # NoBlock
  <2>1. CASE index'[f] = w
    BY <1>2, <2>1 DEF Rewrites
  <2>2. CASE index'[f] # w
    <3>1. index'[f] = index[f] /\ index[f] \in Way
      BY <1>1, <1>4, <2>2
    <3>2. lines[index[f]].block # NoBlock
      BY <1>4, <3>1 DEF CacheOK
    <3>3. QED BY <1>2, <2>2, <3>1, <3>2
  <2>3. QED BY <2>1, <2>2
<1>5. QED BY <1>2, <1>3, <1>4 DEF CacheOK, IsInvalid

\* What a fill makes of the line of the fetch: its sector is no longer reserved,
\* and modified when it is owed.
LEMMA FillEffect ==
    ASSUME CacheOK, NEW f \in Fetch, index[f] \in Way, FillCache(f)
    PROVE  LET w == index[f]  l == lines[w]  m == lines'[w]  s == sectorOf[f] IN
           /\ Rewrites(w, m) /\ dirty' \in Nat
           /\ m.block = l.block /\ m.modOnFill = l.modOnFill
           /\ \A t \in Sector : t # s => m.st[t] = l.st[t]
           /\ s \in l.modOnFill => m.st[s] = "M"
           /\ l.st[s] = "R" => Counts(w, m)
<1> DEFINE w == index[f]
           l == lines[w]
           s == sectorOf[f]
           filled == FillLine(l, s, bytesOf[f])
           atomic == \E g \in Range(mshr[addrOf(f)]) : kindOf[g] = "atomic"
           last == IF atomic THEN MarkModified(filled, s, bytesOf[f]) ELSE filled
           m == lines'[w]
<1>1. l \in Line /\ s \in Sector /\ bytesOf[f] \in SUBSET Byte /\ w \in Way
      /\ l.block # NoBlock /\ dirty \in Nat /\ NoWay \notin Way
      /\ l.st \in [Sector -> SectorState]
  BY Constants DEF CacheOK, Line
<1>2. /\ lines' = [lines EXCEPT ![w] = last]
      /\ dirty' = (dirty + B2N(IsModified(filled) /\ ~IsModified(l))
                         + B2N(atomic /\ ~IsModified(filled))) % DirtyWidth
  BY DEF FillCache
<1>3. m = last
  BY <1>1, <1>2 DEF CacheOK
<1>4. /\ filled \in Line /\ filled.block = l.block /\ filled.modOnFill = l.modOnFill
      /\ filled.st = [l.st EXCEPT ![s] = IF s \in l.modOnFill THEN "M" ELSE "V"]
  BY <1>1, Filled
<1> HIDE DEF filled, l, s
<1>5. atomic => /\ last \in Line /\ last.block = l.block /\ last.modOnFill = l.modOnFill
                /\ last.st = [filled.st EXCEPT ![s] = "M"]
  BY <1>1, <1>4, MarkModifiedLine
<1>6. ~atomic => last = filled
  OBVIOUS
<1> HIDE DEF last, atomic
<1>7. /\ last \in Line /\ last.block = l.block /\ last.modOnFill = l.modOnFill
      /\ \A t \in Sector : t # s => last.st[t] = l.st[t] /\ filled.st[t] = l.st[t]
      /\ filled.st[s] \in {"M", "V"} /\ (s \in l.modOnFill => filled.st[s] = "M")
      /\ last.st[s] = IF atomic THEN "M" ELSE filled.st[s]
  <2>1. CASE atomic
    BY <1>1, <1>4, <1>5, <2>1
  <2>2. CASE ~atomic
    BY <1>1, <1>4, <1>6, <2>2
  <2>3. QED BY <2>1, <2>2
<1>8. Rewrites(w, m)
  BY <1>1, <1>2, <1>3, <1>7 DEF Rewrites, l
<1>9. \A b \in BOOLEAN : B2N(b) = (IF b THEN 1 ELSE 0)
  BY DEF B2N
<1>10. dirty' \in Nat
  <2> DEFINE b == B2N(IsModified(filled) /\ ~IsModified(l))
             c == B2N(atomic /\ ~IsModified(filled))
  <2>1. b \in {0, 1} /\ c \in {0, 1} /\ dirty' = (dirty + b + c) % DirtyWidth
    BY <1>2 DEF B2N, l
  <2> HIDE DEF b, c
  <2>2. dirty + b + c \in Int
    BY <1>1, <2>1
  <2>3. QED BY <2>1, <2>2, DirtyType
<1>11. ASSUME l.st[s] = "R" PROVE Counts(w, m)
  <2>1. IsModified(l) => IsModified(filled)
    <3>1. \A t \in Sector : l.st[t] = "M" => filled.st[t] = "M"
      BY <1>7, <1>11
    <3>2. QED BY <3>1 DEF IsModified, Has
  <2>2. IsModified(m) <=> atomic \/ IsModified(filled)
    <3>1. CASE atomic
      <4>1. last.st[s] = "M"
        BY <1>7, <3>1
      <4>2. QED BY <1>1, <1>3, <3>1, <4>1 DEF IsModified, Has
    <3>2. CASE ~atomic
      BY <1>3, <1>6, <3>2
    <3>3. QED BY <3>1, <3>2
  <2> DEFINE il == IsModified(l)
             if == IsModified(filled)
             im == IsModified(m)
             d == B2N(if /\ ~il) + B2N(atomic /\ ~if)
  <2>3. il \in BOOLEAN /\ if \in BOOLEAN /\ im \in BOOLEAN /\ atomic \in BOOLEAN
    BY DEF IsModified, Has, atomic
  <2>4. dirty' = (dirty + B2N(if /\ ~il) + B2N(atomic /\ ~if)) % DirtyWidth
    BY <1>2 DEF l
  <2> HIDE DEF il, if, im
  <2>5. B2N(if /\ ~il) + B2N(atomic /\ ~if) = B2N(im) - B2N(il)
    BY <2>1, <2>2, <2>3 DEF B2N, il, if, im
  <2>6. dirty + B2N(if /\ ~il) + B2N(atomic /\ ~if) = dirty + (B2N(im) - B2N(il))
    <3>1. B2N(if /\ ~il) \in Int /\ B2N(atomic /\ ~if) \in Int
      BY DEF B2N
    <3>2. QED BY <1>1, <2>5, <3>1
  <2>7. QED BY <2>4, <2>6 DEF Counts, im, il, l
<1>12. m.st[s] = IF atomic THEN "M" ELSE filled.st[s]
  BY <1>3, <1>7
<1>13. QED BY <1>3, <1>7, <1>8, <1>10, <1>11, <1>12 DEF l, s

LEMMA FillInv == ASSUME Inv, Fill PROVE Inv'
<1>1. UNCHANGED <<lru, mshr, missq, l2dram, mem, rop, icntL2, l2icnt>>
  BY DEF Fill
<1>2. CoreOnce'
  BY <1>1 DEF Inv, CoreOnce
<1>3. CASE dramL2 # <<>> /\ FillCache(Head(dramL2)) /\ dramL2' = Tail(dramL2)
  <2> DEFINE f == Head(dramL2)
             a == addrOf(f)
  <2>1. /\ f \in Fetch /\ f \in Range(dramL2) /\ dramL2' \in Seq(Fetch)
        /\ NoRepeat(dramL2') /\ Range(dramL2') = Range(dramL2) \ {f}
    BY <1>3, InvQueues, Taken
  <2> HIDE DEF f
  <2>2. f \notin Range(missq) /\ f \notin Range(l2dram) /\ f \notin mem
    BY <2>1 DEF Inv, MemOnce
  <2>3. f \in InFlight /\ InFlight' = InFlight \ {f}
    BY <1>1, <2>1, <2>2 DEF InFlight
  <2>4. a \in Addr
    BY <2>1, Constants
  <2>5. a \in MshrEntry /\ a \notin Range(ready) /\ f = Head(mshr[a])
    <3>1. {g \in InFlight : addrOf(g) = a} =
            IF a \in MshrEntry \ Range(ready) THEN {Head(mshr[a])} ELSE {}
      BY <2>4 DEF Inv, Entries
    <3>2. f \in {g \in InFlight : addrOf(g) = a}
      BY <2>3
    <3>3. QED BY <3>1, <3>2
  <2>6. index[f] \in Way
    BY <2>1, <2>3 DEF Inv, Entries, CacheOK
  <2>7. FillCache(f)
    BY <1>3 DEF f
  <2>8. ready' = Append(ready, a) /\ index' = [index EXCEPT ![f] = NoWay]
    BY <2>7 DEF FillCache
  <2> HIDE DEF a
  <2>9. ready' \in Seq(Addr) /\ NoRepeat(ready') /\ Range(ready') = Range(ready) \cup {a}
    <3>1. ready \in Seq(Addr) /\ NoRepeat(ready)
      BY InvQueues
    <3>2. a \in Addr /\ a \notin Range(ready) /\ ready' = Append(ready, a)
      BY <2>4, <2>5, <2>8
    <3>3. QED BY <3>1, <3>2, Pushed
  <2>10. /\ index' \in [Fetch -> Way \cup {NoWay}] /\ index'[f] = NoWay
         /\ \A g \in Fetch : g # f => index'[g] = index[g]
    BY <2>1, <2>8 DEF Inv, CacheOK
  <2>11. CacheOK'
    <3>1. Rewrites(index[f], lines'[index[f]]) /\ dirty' \in Nat
      BY <2>1, <2>6, <2>7, FillEffect DEF Inv
    <3>2. LruOK'
      BY <1>1 DEF Inv, CacheOK, LruOK
    <3>3. \A g \in Fetch : index'[g] \in {NoWay, index[f], index[g]}
      BY <2>10
    <3>4. QED BY <2>10, <3>1, <3>2, <3>3, CacheStep DEF Inv
  <2>12. QueuesOK'
    BY <1>1, <2>1, <2>9 DEF Inv, QueuesOK
  <2>13. MemOnce'
    BY <1>1, <2>1 DEF Inv, MemOnce
  <2>14. MshrEntry' = MshrEntry
    BY <1>1 DEF MshrEntry
  <2>15. Entries'
    <3>1. Range(ready') \subseteq MshrEntry'
      BY <2>5, <2>9, <2>14 DEF Inv, Entries
    <3>2. ASSUME NEW b \in Addr
          PROVE {g \in InFlight' : addrOf(g) = b} =
                  IF b \in MshrEntry' \ Range(ready') THEN {Head(mshr'[b])} ELSE {}
      <4>1. {g \in InFlight : addrOf(g) = b} =
              IF b \in MshrEntry \ Range(ready) THEN {Head(mshr[b])} ELSE {}
        BY DEF Inv, Entries
      <4>2. CASE b = a
        BY <2>3, <2>5, <2>9, <2>14, <4>1, <4>2
      <4>3. CASE b # a
        <5>1. addrOf(f) # b
          BY <4>3 DEF a
        <5>2. {g \in InFlight' : addrOf(g) = b} = {g \in InFlight : addrOf(g) = b}
          BY <2>3, <5>1
        <5>3. QED BY <1>1, <2>9, <2>14, <4>1, <4>3, <5>2
      <4>4. QED BY <4>2, <4>3
    <3>3. \A g \in Fetch : g \in InFlight' <=> index'[g] # NoWay
      BY <2>1, <2>3, <2>10 DEF Inv, Entries
    <3>4. QED BY <2>9, <3>1, <3>2, <3>3 DEF Entries
  <2>16. Bounds'
    BY <1>1, BoundsFrame DEF Inv, QueuesOK
  <2>17. QED BY <1>2, <2>11, <2>12, <2>13, <2>15, <2>16 DEF Inv
<1>4. CASE UNCHANGED <<lines, dirty, ready, index, dramL2>>
  <2>1. QueuesOK'
    BY <1>1, <1>4 DEF Inv, QueuesOK
  <2>2. CacheOK' /\ MemOnce' /\ InFlight' = InFlight
    BY <1>1, <1>4, CacheFrame, MemFrame DEF Inv
  <2>3. Entries' /\ Bounds'
    BY <1>1, <1>4, <2>2, EntriesFrame, BoundsFrame DEF Inv, QueuesOK
  <2>4. QED BY <1>2, <2>1, <2>2, <2>3 DEF Inv
<1>5. QED BY <1>3, <1>4 DEF Fill

-----------------------------------------------------------------------------
(* Accesses *)

LEMMA Difference ==
    ASSUME NEW old \in BOOLEAN, NEW acc \in BOOLEAN, NEW d \in Int, acc => old
    PROVE  /\ B2N(old) \in Int /\ B2N(acc) \in Int
           /\ d - B2N(old /\ ~acc) = d + (B2N(acc) - B2N(old))
           /\ d - B2N(old /\ ~acc) + B2N(~acc) = d + (B2N(TRUE) - B2N(old))
           /\ d + B2N(~old) = d + (B2N(TRUE) - B2N(old))
           /\ d + B2N(FALSE) = d + (B2N(old) - B2N(old))
<1>1. CASE old /\ acc
  BY <1>1 DEF B2N
<1>2. CASE old /\ ~acc
  BY <1>2 DEF B2N
<1>3. CASE ~old /\ ~acc
  BY <1>3 DEF B2N
<1>4. QED BY <1>1, <1>2, <1>3

LEMMA CountType ==
    ASSUME CacheOK, NEW w, NEW m, Counts(w, m) PROVE dirty' \in Nat
<1> DEFINE d == B2N(IsModified(m)) - B2N(IsModified(lines[w]))
<1>1. d \in Int
  BY DEF B2N
<1>2. dirty' = (dirty + d) % DirtyWidth
  BY DEF Counts
<1> HIDE DEF d
<1>3. dirty + d \in Int
  BY <1>1 DEF CacheOK
<1>4. QED BY <1>2, <1>3, DirtyType

LEMMA ModifiedIsTyped ==
    ASSUME NEW l PROVE IsModified(l) \in BOOLEAN
BY DEF IsModified, Has

\* A sector that is hit is there; it is modified unless it is read.
LEMMA HitEffect ==
    ASSUME CacheOK, NEW f \in Fetch, Hit(f)
    PROVE  LET w == WayOf(f)  l == lines[w]  m == lines'[w]  s == sectorOf[f] IN
           /\ Rewrites(w, m) /\ Counts(w, m) /\ LruOK'
           /\ m.block = l.block /\ m.modOnFill = l.modOnFill
           /\ \A t \in Sector : t # s => m.st[t] = l.st[t]
           /\ l.st[s] \in {"V", "M"}
           /\ l.st[s] = "M" => m.st[s] = "M"
<1> DEFINE w == WayOf(f)
           l == lines[w]
           s == sectorOf[f]
           written == WriteHitLine(l, s, bytesOf[f])
           atomic == MarkModified(l, s, bytesOf[f])
           last == IF IsWrite(f) THEN written ELSE IF kindOf[f] = "atomic" THEN atomic ELSE l
           m == lines'[w]
<1>1. Probe(f) = "HIT" /\ LruOK
  BY DEF Hit, CacheOK
<1>2. /\ w \in Way /\ l \in Line /\ s \in Sector /\ bytesOf[f] \in SUBSET Byte
      /\ l.block = blockOf[f] /\ l.block # NoBlock /\ l.st[s] \in {"V", "M"}
      /\ l.st \in [Sector -> SectorState] /\ dirty \in Int
  BY <1>1, Probed, Constants DEF CacheOK, Line
<1>3. lines' = [lines EXCEPT ![w] = last]
  BY <1>2 DEF Hit, CacheOK
<1>4. m = last
  BY <1>2, <1>3 DEF CacheOK
<1>5. LruOK'
  <2>1. lru' = Touched(lru, w)
    BY DEF Hit
  <2>2. QED BY <1>1, <1>2, <2>1, TouchedListsAll DEF LruOK
<1>6. dirty' = (dirty + B2N(kindOf[f] # "read" /\ ~IsModified(l))) % DirtyWidth
  BY DEF Hit
<1> HIDE DEF l, s
<1>7. /\ written \in Line /\ written.block = l.block
      /\ written.st = [l.st EXCEPT ![s] = "M"] /\ written.modOnFill = l.modOnFill
  BY <1>2, WriteHit
<1>8. /\ atomic \in Line /\ atomic.block = l.block
      /\ atomic.st = [l.st EXCEPT ![s] = "M"] /\ atomic.modOnFill = l.modOnFill
  BY <1>2, MarkModifiedLine
<1> HIDE DEF written, atomic
<1>9. kindOf[f] # "read" => last = written \/ last = atomic
  BY Constants DEF IsWrite
<1>10. kindOf[f] = "read" => last = l
  BY DEF IsWrite
<1> HIDE DEF last
<1>11. /\ last \in Line /\ last.block = l.block /\ last.modOnFill = l.modOnFill
       /\ \A t \in Sector : t # s => last.st[t] = l.st[t]
       /\ l.st[s] = "M" => last.st[s] = "M"
       /\ kindOf[f] # "read" => last.st[s] = "M"
  <2>1. CASE kindOf[f] = "read"
    BY <1>2, <1>10, <2>1
  <2>2. CASE kindOf[f] # "read" /\ last = written
    BY <1>2, <1>7, <2>2
  <2>3. CASE kindOf[f] # "read" /\ last = atomic
    BY <1>2, <1>8, <2>3
  <2>4. QED BY <1>9, <2>1, <2>2, <2>3
<1>12. Counts(w, m)
  <2>1. IsModified(l) \in BOOLEAN
    BY ModifiedIsTyped
  <2>2. CASE kindOf[f] = "read"
    <3>1. dirty' = (dirty + B2N(FALSE)) % DirtyWidth
      BY <1>6, <2>2
    <3>2. dirty' = (dirty + (B2N(IsModified(l)) - B2N(IsModified(l)))) % DirtyWidth
      BY <1>2, <2>1, <3>1, Difference
    <3>3. QED BY <1>4, <1>10, <2>2, <3>2 DEF Counts, l
  <2>3. CASE kindOf[f] # "read"
    <3>1. IsModified(last) = TRUE
      BY <1>2, <1>11, <2>3 DEF IsModified, Has
    <3>2. (kindOf[f] # "read" /\ ~IsModified(l)) = ~IsModified(l)
      BY <2>1, <2>3
    <3>3. dirty' = (dirty + B2N(~IsModified(l))) % DirtyWidth
      BY <1>6, <3>2
    <3>4. dirty + B2N(~IsModified(l)) = dirty + (B2N(TRUE) - B2N(IsModified(l)))
      BY <1>2, <2>1, Difference
    <3>5. dirty' = (dirty + (B2N(IsModified(last)) - B2N(IsModified(l)))) % DirtyWidth
      BY <3>1, <3>3, <3>4
    <3>6. QED BY <1>4, <3>5 DEF Counts, l
  <2>4. QED BY <2>2, <2>3
<1>13. Rewrites(w, m)
  BY <1>2, <1>3, <1>4, <1>11 DEF Rewrites
<1>14. QED BY <1>2, <1>4, <1>5, <1>11, <1>12, <1>13 DEF l, s

\* A write that misses modifies its sector in the line that was made for it.
LEMMA WriteMissEffect ==
    ASSUME CacheOK, NEW f \in Fetch, WriteMiss(f)
    PROVE  LET w == WayOf(f)  m == lines'[w]  acc == AccessedLine(f)  s == sectorOf[f] IN
           /\ Rewrites(w, m) /\ Counts(w, m) /\ LruOK'
           /\ m.block = blockOf[f] /\ acc.modOnFill \subseteq m.modOnFill
           /\ \A t \in Sector : t # s => m.st[t] = acc.st[t]
           /\ m.st[s] = "M"
<1> DEFINE w == WayOf(f)
           l == lines[w]
           s == sectorOf[f]
           acc == AccessedLine(f)
           pending == Probe(f) = "HIT_RESERVED"
           last == WriteMissLine(acc, s, bytesOf[f], pending)
           m == lines'[w]
<1>1. Probe(f) \in Misses /\ LruOK
  BY DEF WriteMiss, Misses, CacheOK
<1>2. /\ w \in Way /\ s \in Sector /\ bytesOf[f] \in SUBSET Byte /\ dirty \in Int
      /\ blockOf[f] # NoBlock
  BY <1>1, Probed, Constants DEF CacheOK, Misses
<1>3. acc \in Line /\ acc.block = blockOf[f] /\ (IsModified(acc) => IsModified(l))
  BY <1>1, Accessed
<1>4. lines' = [lines EXCEPT ![w] = last] /\ lru' = Touched(lru, w)
  BY DEF WriteMiss
<1>5. dirty' = (dirty - B2N(IsModified(l) /\ ~IsModified(acc)) + B2N(~IsModified(acc)))
                 % DirtyWidth
  BY DEF WriteMiss, DirtyAfterAccess
<1>6. m = last
  BY <1>2, <1>4 DEF CacheOK
<1>7. LruOK'
  BY <1>1, <1>2, <1>4, TouchedListsAll DEF LruOK
<1> HIDE DEF acc, s
<1>8. acc.st \in [Sector -> SectorState]
  BY <1>3 DEF Line
<1>9. /\ last \in Line /\ last.block = acc.block
      /\ last.st = [acc.st EXCEPT ![s] = "M"] /\ acc.modOnFill \subseteq last.modOnFill
  <2> DEFINE Made(x) == /\ x \in Line /\ x.block = acc.block
                        /\ x.st = [acc.st EXCEPT ![s] = "M"]
                        /\ acc.modOnFill \subseteq x.modOnFill
             bytes == bytesOf[f]
  <2>1. bytes \in SUBSET Byte
    BY <1>2
  <2> HIDE DEF bytes
  <2>2. Made(WriteMissLine(acc, s, bytes, TRUE))
    BY <1>2, <1>3, <2>1, WriteMissed
  <2>3. Made(WriteMissLine(acc, s, bytes, FALSE))
    BY <1>2, <1>3, <2>1, WriteMissed
  <2> HIDE DEF Made
  <2>4. last = WriteMissLine(acc, s, bytes, TRUE) \/ last = WriteMissLine(acc, s, bytes, FALSE)
    BY DEF bytes
  <2>5. Made(last)
    BY <2>2, <2>3, <2>4
  <2> HIDE DEF last
  <2>6. QED BY <2>5 DEF Made
<1> HIDE DEF last
<1>10. last.st[s] = "M" /\ \A t \in Sector : t # s => last.st[t] = acc.st[t]
  BY <1>2, <1>8, <1>9
<1>11. Counts(w, m)
  <2>1. IsModified(l) \in BOOLEAN /\ IsModified(acc) \in BOOLEAN
    BY ModifiedIsTyped
  <2>2. IsModified(last) = TRUE
    BY <1>2, <1>10 DEF IsModified, Has
  <2>3. dirty - B2N(IsModified(l) /\ ~IsModified(acc)) + B2N(~IsModified(acc))
          = dirty + (B2N(TRUE) - B2N(IsModified(l)))
    BY <1>2, <1>3, <2>1, Difference
  <2>4. dirty' = (dirty + (B2N(IsModified(last)) - B2N(IsModified(l)))) % DirtyWidth
    BY <1>5, <2>2, <2>3
  <2>5. QED BY <1>6, <2>4 DEF Counts
<1>12. Rewrites(w, m)
  BY <1>2, <1>3, <1>4, <1>6, <1>9 DEF Rewrites
<1>13. QED BY <1>3, <1>6, <1>7, <1>9, <1>10, <1>11, <1>12 DEF acc, s

\* A read that misses leaves its sector reserved.
LEMMA ReadMissEffect ==
    ASSUME CacheOK, NEW f \in Fetch, ReadMiss(f)
    PROVE  LET w == WayOf(f)  m == lines'[w] IN
           Rewrites(w, m) /\ Counts(w, m) /\ LruOK' /\ m = AccessedLine(f)
<1> DEFINE w == WayOf(f)
           l == lines[w]
           acc == AccessedLine(f)
           m == lines'[w]
<1>1. Probe(f) \in Misses /\ LruOK
  BY DEF ReadMiss, Misses, CacheOK
<1>2. w \in Way /\ dirty \in Int /\ blockOf[f] # NoBlock
  BY <1>1, Probed, Constants DEF CacheOK, Misses
<1>3. acc \in Line /\ acc.block = blockOf[f] /\ (IsModified(acc) => IsModified(l))
  BY <1>1, Accessed
<1>4. lines' = [lines EXCEPT ![w] = acc] /\ lru' = Touched(lru, w)
  BY DEF ReadMiss
<1>5. dirty' = (dirty - B2N(IsModified(l) /\ ~IsModified(acc))) % DirtyWidth
  BY DEF ReadMiss, DirtyAfterAccess
<1>6. m = acc
  BY <1>2, <1>4 DEF CacheOK
<1>7. LruOK'
  BY <1>1, <1>2, <1>4, TouchedListsAll DEF LruOK
<1> HIDE DEF acc
<1>8. Counts(w, m)
  <2> DEFINE il == IsModified(l)
             ic == IsModified(acc)
  <2>1. il \in BOOLEAN /\ ic \in BOOLEAN /\ (ic => il) /\ dirty \in Int
    BY <1>2, <1>3, ModifiedIsTyped
  <2> HIDE DEF il, ic
  <2>2. dirty - B2N(il /\ ~ic) = dirty + (B2N(ic) - B2N(il))
    BY <2>1 DEF B2N
  <2>3. QED BY <1>5, <1>6, <2>2 DEF Counts, il, ic
<1>9. Rewrites(w, m)
  BY <1>2, <1>3, <1>4, <1>6 DEF Rewrites
<1>10. QED BY <1>6, <1>7, <1>8, <1>9 DEF acc

\* The miss queue takes the writeback of the victim, which is no fetch.
LEMMA WithEviction ==
    ASSUME CacheOK, NEW f \in Fetch, Probe(f) \in Misses,
           NEW q \in Seq(Fetch \cup Eviction), OnceIn(Fetch, q)
    PROVE  LET r == q \o EvictionOf(f) IN
           /\ r \in Seq(Fetch \cup Eviction) /\ OnceIn(Fetch, r)
           /\ Range(r) \cap Fetch = Range(q) \cap Fetch
           /\ Len(q) \in Nat /\ Len(r) \in Nat /\ Len(r) <= Len(q) + 1
<1> DEFINE l == lines[WayOf(f)]
           e == [block |-> l.block, sectors |-> DirtySectors(l)]
<1>1. CASE Evicts(f)
  <2>1. e \in Eviction /\ e \notin Fetch /\ EvictionOf(f) = <<e>>
    BY <1>1, Evicted
  <2> HIDE DEF e
  <2>2. q \o <<e>> = Append(q, e)
    OBVIOUS
  <2>3. Append(q, e) \in Seq(Fetch \cup Eviction) /\ Len(Append(q, e)) = Len(q) + 1
    BY <2>1, AppendType
  <2>4. OnceIn(Fetch, Append(q, e)) /\ Range(Append(q, e)) = Range(q) \cup {e}
    BY <2>1, AppendOnce
  <2>5. q \o EvictionOf(f) = Append(q, e)
    BY <2>1, <2>2
  <2>6. Len(q) \in Nat
    OBVIOUS
  <2> DEFINE r == Append(q, e)
  <2>7. /\ r \in Seq(Fetch \cup Eviction) /\ OnceIn(Fetch, r) /\ Len(r) = Len(q) + 1
        /\ Range(r) \cap Fetch = Range(q) \cap Fetch
    BY <2>1, <2>3, <2>4
  <2> HIDE DEF r
  <2>8. q \o EvictionOf(f) = r
    BY <2>5 DEF r
  <2>9. QED BY <2>6, <2>7, <2>8
<1>2. CASE ~Evicts(f)
  <2>1. q \o EvictionOf(f) = q
    <3>1. EvictionOf(f) = <<>>
      BY <1>2, Evicted
    <3>2. q \o <<>> = q
      BY ConcatEmptySeq
    <3>3. QED BY <3>1, <3>2
  <2>2. Len(q) \in Nat
    OBVIOUS
  <2>3. QED BY <2>1, <2>2
<1>3. QED BY <1>1, <1>2

\* An access that answers: the fetch goes from one queue to the other, or, a
\* writeback of a level-1 cache, is gone.
LEMMA AnsweredOnce ==
    ASSUME Inv, icntL2 # <<>>, icntL2' = Tail(icntL2), AnswerNow(Head(icntL2)),
           UNCHANGED <<rop, mshr>>
    PROVE  /\ l2icnt' \in Seq(Fetch) /\ icntL2' \in Seq(Fetch)
           /\ CoreOnce'
<1> DEFINE f == Head(icntL2)
<1>1. /\ f \in Fetch /\ f \in Range(icntL2) /\ icntL2' \in Seq(Fetch)
      /\ NoRepeat(icntL2') /\ Range(icntL2') = Range(icntL2) \ {f}
  BY InvQueues, Taken
<1>2. l2icnt' \in {l2icnt, Append(l2icnt, f)}
  BY DEF AnswerNow
<1> HIDE DEF f
<1>3. f \notin Range(l2icnt) /\ NoRepeat(l2icnt) /\ l2icnt \in Seq(Fetch)
  BY <1>1 DEF Inv, CoreOnce, QueuesOK
<1>4. /\ l2icnt' \in Seq(Fetch) /\ NoRepeat(l2icnt')
      /\ Range(l2icnt') \subseteq Range(l2icnt) \cup {f}
  <2>1. CASE l2icnt' = l2icnt
    BY <1>3, <2>1
  <2>2. CASE l2icnt' = Append(l2icnt, f)
    BY <1>1, <1>3, <2>2, AppendRange, AppendType
  <2>3. QED BY <1>2, <2>1, <2>2
<1>5. f \notin Range(rop) /\ \A a \in Addr : f \notin Range(mshr[a])
  BY <1>1 DEF Inv, CoreOnce
<1>6. CoreOnce'
  <2>1. /\ NoRepeat(rop') /\ Range(rop') \cap Range(icntL2') = {}
        /\ Range(rop') \cap Range(l2icnt') = {}
        /\ Range(icntL2') \cap Range(l2icnt') = {}
    BY <1>1, <1>4, <1>5 DEF Inv, CoreOnce
  <2>2. ASSUME NEW a \in Addr
        PROVE  /\ NoRepeat(mshr'[a])
               /\ Range(mshr'[a]) \cap Range(rop') = {}
               /\ Range(mshr'[a]) \cap Range(icntL2') = {}
               /\ Range(mshr'[a]) \cap Range(l2icnt') = {}
               /\ \A g \in Range(mshr'[a]) : addrOf(g) = a /\ ~IsWrite(g)
    <3>1. /\ NoRepeat(mshr[a]) /\ Range(mshr[a]) \cap Range(rop) = {}
          /\ Range(mshr[a]) \cap Range(icntL2) = {}
          /\ Range(mshr[a]) \cap Range(l2icnt) = {}
          /\ \A g \in Range(mshr[a]) : addrOf(g) = a /\ ~IsWrite(g)
      BY DEF Inv, CoreOnce
    <3>2. f \notin Range(mshr[a]) /\ mshr' = mshr /\ rop' = rop
      BY <1>5
    <3>3. QED BY <1>1, <1>4, <3>1, <3>2
  <2>3. QED BY <1>1, <1>4, <2>1, <2>2 DEF CoreOnce
<1>7. QED BY <1>1, <1>4, <1>6

LEMMA HitInv ==
    ASSUME Inv, icntL2 # <<>>, icntL2' = Tail(icntL2), Hit(Head(icntL2)),
           UNCHANGED <<ready, rop, l2dram, dramL2, mem>>
    PROVE  Inv'
<1> DEFINE f == Head(icntL2)
<1>1. f \in Fetch
  BY HeadTail DEF Inv, QueuesOK
<1>2. Hit(f) /\ UNCHANGED <<mshr, index, missq>> /\ AnswerNow(f)
  BY DEF Hit
<1>3. l2icnt' \in Seq(Fetch) /\ icntL2' \in Seq(Fetch) /\ CoreOnce'
  BY <1>2, AnsweredOnce
<1> HIDE DEF f
<1>4. CacheOK'
  <2>1. Rewrites(WayOf(f), lines'[WayOf(f)]) /\ dirty' \in Nat /\ LruOK'
    BY <1>1, <1>2, HitEffect, CountType DEF Inv
  <2>2. /\ index' \in [Fetch -> Way \cup {NoWay}]
        /\ \A g \in Fetch : index'[g] \in {NoWay, WayOf(f), index[g]}
    BY <1>2 DEF Inv, CacheOK
  <2>3. QED BY <2>1, <2>2, CacheStep DEF Inv
<1>5. QueuesOK'
  BY <1>2, <1>3 DEF Inv, QueuesOK
<1>6. MemOnce' /\ InFlight' = InFlight
  BY <1>2, MemFrame DEF Inv
<1>7. Entries' /\ Bounds'
  BY <1>2, <1>6, EntriesFrame, BoundsFrame DEF Inv, QueuesOK
<1>8. QED BY <1>3, <1>4, <1>5, <1>6, <1>7 DEF Inv

LEMMA WriteMissInv ==
    ASSUME Inv, icntL2 # <<>>, icntL2' = Tail(icntL2), WriteMiss(Head(icntL2)),
           UNCHANGED <<ready, rop, l2dram, dramL2, mem>>
    PROVE  Inv'
<1> DEFINE f == Head(icntL2)
<1>1. f \in Fetch
  BY HeadTail DEF Inv, QueuesOK
<1>2. /\ WriteMiss(f) /\ UNCHANGED <<mshr, index>> /\ AnswerNow(f)
      /\ Len(missq) < MissQ /\ missq' = missq \o EvictionOf(f) /\ Probe(f) \in Misses
  BY DEF WriteMiss, Misses
<1>3. l2icnt' \in Seq(Fetch) /\ icntL2' \in Seq(Fetch) /\ CoreOnce'
  BY <1>2, AnsweredOnce
<1> HIDE DEF f
<1>4. CacheOK'
  <2>1. Rewrites(WayOf(f), lines'[WayOf(f)]) /\ dirty' \in Nat /\ LruOK'
    BY <1>1, <1>2, WriteMissEffect, CountType DEF Inv
  <2>2. /\ index' \in [Fetch -> Way \cup {NoWay}]
        /\ \A g \in Fetch : index'[g] \in {NoWay, WayOf(f), index[g]}
    BY <1>2 DEF Inv, CacheOK
  <2>3. QED BY <2>1, <2>2, CacheStep DEF Inv
<1>5. /\ missq' \in Seq(Fetch \cup Eviction) /\ OnceIn(Fetch, missq')
      /\ Range(missq') \cap Fetch = Range(missq) \cap Fetch
      /\ Len(missq) \in Nat /\ Len(missq') \in Nat /\ Len(missq') <= Len(missq) + 1
  BY <1>1, <1>2, WithEviction DEF Inv, QueuesOK, MemOnce
<1>6. QueuesOK'
  BY <1>2, <1>3, <1>5 DEF Inv, QueuesOK
<1>7. MemOnce' /\ InFlight' = InFlight
  <2>1. Range(dramL2) \subseteq Fetch /\ mem \subseteq Fetch
    BY SeqRange DEF Inv, QueuesOK
  <2>2. QED BY <1>5, <2>1 DEF Inv, MemOnce, InFlight
<1>8. Entries'
  BY <1>2, <1>7, EntriesFrame DEF Inv
<1>9. Bounds'
  <2>1. Len(missq') <= MissQ
    BY <1>2, <1>5, Constants
  <2>2. MshrEntry' = MshrEntry
    BY <1>2 DEF MshrEntry
  <2>3. QED BY <1>2, <2>1, <2>2 DEF Inv, Bounds
<1>10. QED BY <1>3, <1>4, <1>6, <1>7, <1>8, <1>9 DEF Inv

\* A read that misses joins the entry of its sector, or opens one and is fetched.
LEMMA ReadMissInv ==
    ASSUME Inv, icntL2 # <<>>, icntL2' = Tail(icntL2), ReadMiss(Head(icntL2)),
           UNCHANGED <<ready, rop, l2dram, dramL2, mem>>
    PROVE  Inv'
<1> DEFINE f == Head(icntL2)
           a == addrOf(f)
           q == mshr[a]
<1>1. /\ f \in Fetch /\ f \in Range(icntL2) /\ icntL2' \in Seq(Fetch)
      /\ NoRepeat(icntL2') /\ Range(icntL2') = Range(icntL2) \ {f}
  BY InvQueues, Taken
<1>2. ReadMiss(f)
  OBVIOUS
<1> HIDE DEF f
<1>3. /\ ~IsWrite(f) /\ Probe(f) \in Misses /\ Len(missq) + 1 < MissQ /\ UNCHANGED l2icnt
      /\ mshr' = [mshr EXCEPT ![a] = Append(q, f)] /\ ~MshrFull(a) /\ SendRead(f)
  BY <1>2 DEF ReadMiss, SendRead, Misses, MissQueueRoom
<1>4. a \in Addr
  BY <1>1, Constants
<1>5. WayOf(f) \in Way
  BY <1>1, <1>3, Probed DEF Inv, Misses
<1>6. q \in Seq(Fetch) /\ NoRepeat(q) /\ f \notin Range(q)
  BY <1>1, <1>4 DEF Inv, QueuesOK, CoreOnce
<1>7. /\ q = <<>> => /\ missq' = Append(missq, f) \o EvictionOf(f)
                     /\ index' = [index EXCEPT ![f] = WayOf(f)]
      /\ q # <<>> => missq' = missq \o EvictionOf(f) /\ index' = index
  BY <1>3 DEF SendRead
<1>8. /\ q = <<>> => Cardinality(MshrEntry) < MshrEntries
      /\ q # <<>> => Len(q) < MaxMerged
  <2>1. q # <<>> => ~(Len(q) >= MaxMerged)
    BY <1>3 DEF MshrFull
  <2>2. q = <<>> => ~(Cardinality(MshrEntry) >= MshrEntries)
    BY <1>3 DEF MshrFull, MshrEntry
  <2>3. Cardinality(MshrEntry) \in Int /\ Len(q) \in Int
    <3>1. IsFiniteSet(MshrEntry)
      BY DEF Inv, Bounds
    <3>2. Cardinality(MshrEntry) \in Nat
      BY <3>1, FS_CardinalityType
    <3> HIDE DEF q
    <3>3. QED BY <1>6, <3>2, LenProperties
  <2>4. MshrEntries \in Int /\ MaxMerged \in Int
    BY Constants
  <2> HIDE DEF q
  <2>5. QED BY <2>1, <2>2, <2>3, <2>4
<1> HIDE DEF q
<1>9. /\ Append(q, f) \in Seq(Fetch) /\ Len(Append(q, f)) = Len(q) + 1 /\ Len(q) \in Nat
      /\ NoRepeat(Append(q, f)) /\ Range(Append(q, f)) = Range(q) \cup {f}
      /\ Append(q, f) # <<>>
  <2>1. NoRepeat(Append(q, f)) /\ Range(Append(q, f)) = Range(q) \cup {f}
    BY <1>1, <1>6, AppendRange
  <2>2. Append(q, f) \in Seq(Fetch) /\ Len(Append(q, f)) = Len(q) + 1
    BY <1>1, <1>6, AppendType
  <2>3. Len(q) \in Nat
    BY <1>6
  <2>4. Append(q, f) # <<>>
    <3> DEFINE t == Append(q, f)
    <3>1. t \in Seq(Fetch) /\ Len(t) > 0 /\ Len(t) \in Nat
      BY <2>2, <2>3
    <3> HIDE DEF t
    <3>2. t # <<>>
      BY <3>1, EmptyLength
    <3>3. QED BY <3>2 DEF t
  <2>5. QED BY <2>1, <2>2, <2>3, <2>4
<1> HIDE DEF a
<1>10. /\ mshr' \in [Addr -> Seq(Fetch)] /\ mshr'[a] = Append(q, f)
       /\ \A b \in Addr : b # a => mshr'[b] = mshr[b]
  BY <1>3, <1>4, <1>9 DEF Inv, QueuesOK
<1>11. q = mshr[a] /\ a = addrOf(f)
  BY DEF q, a
<1>12. CoreOnce'
  <2>1. f \notin Range(rop) /\ f \notin Range(l2icnt)
    BY <1>1 DEF Inv, CoreOnce
  <2>2. /\ NoRepeat(rop') /\ NoRepeat(l2icnt')
        /\ Range(rop') \cap Range(icntL2') = {}
        /\ Range(rop') \cap Range(l2icnt') = {}
        /\ Range(icntL2') \cap Range(l2icnt') = {}
    BY <1>1, <1>3 DEF Inv, CoreOnce
  <2>3. ASSUME NEW b \in Addr
        PROVE  /\ NoRepeat(mshr'[b])
               /\ Range(mshr'[b]) \cap Range(rop') = {}
               /\ Range(mshr'[b]) \cap Range(icntL2') = {}
               /\ Range(mshr'[b]) \cap Range(l2icnt') = {}
               /\ \A g \in Range(mshr'[b]) : addrOf(g) = b /\ ~IsWrite(g)
    <3>1. /\ NoRepeat(mshr[b]) /\ Range(mshr[b]) \cap Range(rop) = {}
          /\ Range(mshr[b]) \cap Range(icntL2) = {}
          /\ Range(mshr[b]) \cap Range(l2icnt) = {}
          /\ \A g \in Range(mshr[b]) : addrOf(g) = b /\ ~IsWrite(g)
      BY DEF Inv, CoreOnce
    <3>2. CASE b = a
      <4>1. mshr'[b] = Append(mshr[b], f)
        BY <1>4, <1>10, <1>11, <3>2
      <4>2. NoRepeat(mshr'[b]) /\ Range(mshr'[b]) = Range(mshr[b]) \cup {f}
        BY <1>9, <1>11, <3>2, <4>1
      <4>3. addrOf(f) = b /\ ~IsWrite(f)
        BY <1>3, <1>11, <3>2
      <4>4. QED BY <1>1, <1>3, <2>1, <3>1, <4>2, <4>3
    <3>3. CASE b # a
      BY <1>1, <1>3, <1>10, <3>1, <3>3
    <3>4. QED BY <3>2, <3>3
  <2>4. QED BY <1>1, <2>2, <2>3 DEF CoreOnce
<1>13. /\ index' \in [Fetch -> Way \cup {NoWay}]
       /\ q = <<>> => index'[f] = WayOf(f)
       /\ \A g \in Fetch : (q # <<>> \/ g # f) => index'[g] = index[g]
  <2>1. CASE q = <<>>
    BY <1>1, <1>5, <1>7, <2>1 DEF Inv, CacheOK
  <2>2. CASE q # <<>>
    BY <1>7, <2>2 DEF Inv, CacheOK
  <2>3. QED BY <2>1, <2>2
<1>14. CacheOK'
  <2>1. Rewrites(WayOf(f), lines'[WayOf(f)]) /\ dirty' \in Nat /\ LruOK'
    BY <1>1, <1>2, ReadMissEffect, CountType DEF Inv
  <2>2. \A g \in Fetch : index'[g] \in {NoWay, WayOf(f), index[g]}
    BY <1>13
  <2>3. QED BY <1>13, <2>1, <2>2, CacheStep DEF Inv
<1>15. q = <<>> => a \notin MshrEntry
  BY <1>11 DEF MshrEntry
<1>16. q # <<>> => a \in MshrEntry
  BY <1>4, <1>11 DEF MshrEntry
<1>17. q = <<>> => f \notin InFlight
  <2>1. {g \in InFlight : addrOf(g) = a} =
          IF a \in MshrEntry \ Range(ready) THEN {Head(mshr[a])} ELSE {}
    BY <1>4 DEF Inv, Entries
  <2>2. QED BY <1>11, <1>15, <2>1
<1> DEFINE missed == IF q = <<>> THEN Append(missq, f) ELSE missq
<1>18. /\ missq \in Seq(Fetch \cup Eviction) /\ OnceIn(Fetch, missq) /\ Len(missq) \in Nat
       /\ f \in Fetch \cup Eviction /\ (q = <<>> => f \notin Range(missq) \cap Fetch)
  <2>1. missq \in Seq(Fetch \cup Eviction)
    BY DEF Inv, QueuesOK
  <2>2. OnceIn(Fetch, missq)
    BY DEF Inv, MemOnce
  <2>3. q = <<>> => f \notin Range(missq) \cap Fetch
    BY <1>17 DEF InFlight
  <2> HIDE DEF q
  <2>4. QED BY <1>1, <2>1, <2>2, <2>3, LenProperties
<1>19. /\ missed \in Seq(Fetch \cup Eviction) /\ OnceIn(Fetch, missed)
       /\ Range(missed) = Range(missq) \cup (IF q = <<>> THEN {f} ELSE {})
       /\ Len(missed) <= Len(missq) + 1
  <2>1. CASE q = <<>>
    <3>1. missed = Append(missq, f)
      BY <2>1
    <3>2. Append(missq, f) \in Seq(Fetch \cup Eviction) /\ Len(Append(missq, f)) = Len(missq) + 1
      BY <1>18, AppendType
    <3>3. OnceIn(Fetch, Append(missq, f)) /\ Range(Append(missq, f)) = Range(missq) \cup {f}
      <4>1. f \notin Range(missq) \cap Fetch
        BY <1>18, <2>1
      <4>2. missq \in Seq(Fetch \cup Eviction) /\ f \in Fetch \cup Eviction /\ OnceIn(Fetch, missq)
        BY <1>18
      <4>3. QED BY <4>1, <4>2, AppendOnce
    <3> HIDE DEF missed
    <3>4. QED BY <1>18, <2>1, <3>1, <3>2, <3>3
  <2>2. CASE q # <<>>
    BY <1>18, <2>2
  <2>3. QED BY <2>1, <2>2
<1>20. missq' = missed \o EvictionOf(f)
  BY <1>7
<1> HIDE DEF missed
<1>21. /\ missq' \in Seq(Fetch \cup Eviction) /\ OnceIn(Fetch, missq')
       /\ Range(missq') \cap Fetch = Range(missed) \cap Fetch
       /\ Len(missq') \in Nat /\ Len(missq') <= Len(missed) + 1 /\ Len(missed) \in Nat
  BY <1>1, <1>3, <1>19, <1>20, WithEviction DEF Inv
<1>22. Len(missq') <= MissQ
  BY <1>3, <1>18, <1>19, <1>21, Constants
<1>23. QueuesOK'
  BY <1>1, <1>3, <1>10, <1>21 DEF Inv, QueuesOK
<1>24. InFlight' = InFlight \cup (IF q = <<>> THEN {f} ELSE {})
  BY <1>1, <1>19, <1>21 DEF InFlight
<1>25. MemOnce'
  <2>1. Range(dramL2) \subseteq Fetch /\ mem \subseteq Fetch
    BY SeqRange DEF Inv, QueuesOK
  <2>2. q = <<>> => f \notin Range(l2dram) /\ f \notin Range(dramL2) /\ f \notin mem
    BY <1>1, <1>17 DEF InFlight
  <2>3. Range(missq') \cap Fetch = (Range(missq) \cap Fetch) \cup (IF q = <<>> THEN {f} ELSE {})
    BY <1>1, <1>19, <1>21
  <2>4. QED BY <1>21, <2>1, <2>2, <2>3 DEF Inv, MemOnce
<1>26. MshrEntry' = MshrEntry \cup {a}
  <2>1. MshrEntry' = {b \in Addr : mshr'[b] # <<>>}
    BY DEF MshrEntry
  <2>2. QED BY <1>4, <1>9, <1>10, <2>1 DEF MshrEntry
<1>27. Entries'
  <2>1. NoRepeat(ready') /\ Range(ready') \subseteq MshrEntry'
    BY <1>26 DEF Inv, Entries
  <2>2. ASSUME NEW b \in Addr
        PROVE {g \in InFlight' : addrOf(g) = b} =
                IF b \in MshrEntry' \ Range(ready') THEN {Head(mshr'[b])} ELSE {}
    <3>1. {g \in InFlight : addrOf(g) = b} =
            IF b \in MshrEntry \ Range(ready) THEN {Head(mshr[b])} ELSE {}
      BY DEF Inv, Entries
    <3>2. CASE b # a
      BY <1>10, <1>11, <1>24, <1>26, <3>1, <3>2
    <3>3. CASE b = a /\ q # <<>>
      <4>1. Head(Append(q, f)) = Head(q)
        BY <1>6, <3>3
      <4>2. Head(mshr'[b]) = Head(mshr[b])
        BY <1>10, <1>11, <3>3, <4>1
      <4>3. InFlight' = InFlight /\ MshrEntry' = MshrEntry
        BY <1>16, <1>24, <1>26, <3>3
      <4>4. QED BY <3>1, <4>2, <4>3
    <3>4. CASE b = a /\ q = <<>>
      <4>1. Head(mshr'[b]) = f
        BY <1>10, <3>4
      <4>2. a \notin Range(ready)
        BY <1>15, <3>4 DEF Inv, Entries
      <4>3. {g \in InFlight' : addrOf(g) = b} = {f}
        BY <1>11, <1>15, <1>24, <3>1, <3>4
      <4>4. QED BY <1>26, <3>4, <4>1, <4>2, <4>3
    <3>5. QED BY <3>2, <3>3, <3>4
  <2>3. ASSUME NEW g \in Fetch PROVE g \in InFlight' <=> index'[g] # NoWay
    <3>1. g \in InFlight <=> index[g] # NoWay
      BY DEF Inv, Entries
    <3>2. WayOf(f) # NoWay
      BY <1>5, Constants
    <3>3. QED BY <1>13, <1>24, <3>1, <3>2
  <2>4. QED BY <2>1, <2>2, <2>3 DEF Entries
<1>28. Bounds'
  <2>1. IsFiniteSet(MshrEntry) /\ Cardinality(MshrEntry) \in Int
        /\ Cardinality(MshrEntry) <= MshrEntries
    BY FS_CardinalityType DEF Inv, Bounds
  <2>2. IsFiniteSet(MshrEntry \cup {a}) /\ Cardinality(MshrEntry \cup {a}) =
          IF a \in MshrEntry THEN Cardinality(MshrEntry) ELSE Cardinality(MshrEntry) + 1
    BY <2>1, FS_AddElement
  <2>3. IsFiniteSet(MshrEntry') /\ Cardinality(MshrEntry') <= MshrEntries
    BY <1>8, <1>15, <1>16, <1>26, <2>1, <2>2, Constants
  <2>4. ASSUME NEW b \in Addr PROVE Len(mshr'[b]) <= MaxMerged
    <3>1. CASE b = a /\ q # <<>>
      BY <1>8, <1>9, <1>10, <3>1, Constants
    <3>2. CASE b = a /\ q = <<>>
      <4>1. Len(q) = 0
        BY <1>6, <3>2, EmptyLength
      <4>2. Len(mshr'[b]) = Len(q) + 1
        BY <1>9, <1>10, <3>2
      <4>3. MaxMerged \in Nat /\ MaxMerged > 0
        BY Constants
      <4>4. QED BY <4>1, <4>2, <4>3
    <3>3. CASE b # a
      BY <1>10, <3>3 DEF Inv, Bounds
    <3>4. QED BY <3>1, <3>2, <3>3
  <2>5. QED BY <1>22, <2>3, <2>4 DEF Bounds
<1>29. QED BY <1>12, <1>14, <1>23, <1>25, <1>27, <1>28 DEF Inv

LEMMA AccessInv == ASSUME Inv, Access PROVE Inv'
<1>1. UNCHANGED <<ready, rop, l2dram, dramL2, mem>>
  BY DEF Access
<1>2. CASE /\ CanStart /\ icntL2' = Tail(icntL2)
           /\ LET f == Head(icntL2) IN Hit(f) \/ WriteMiss(f) \/ ReadMiss(f)
  <2>1. icntL2 # <<>>
    BY <1>2 DEF CanStart
  <2>2. QED BY <1>1, <1>2, <2>1, HitInv, WriteMissInv, ReadMissInv
<1>3. CASE UNCHANGED <<lines, lru, dirty, port, mshr, index, missq, icntL2, l2icnt>>
  <2>1. CacheOK' /\ MemOnce' /\ InFlight' = InFlight
    BY <1>1, <1>3, CacheFrame, MemFrame DEF Inv
  <2>2. Entries' /\ Bounds'
    BY <1>1, <1>3, <2>1, EntriesFrame, BoundsFrame DEF Inv, QueuesOK
  <2>3. QueuesOK' /\ CoreOnce'
    BY <1>1, <1>3 DEF Inv, QueuesOK, CoreOnce
  <2>4. QED BY <2>1, <2>2, <2>3 DEF Inv
<1>4. QED BY <1>2, <1>3 DEF Access

-----------------------------------------------------------------------------
(* Invariance *)

LEMMA InitInv == Init => Inv
<1> SUFFICES ASSUME Init PROVE Inv
  OBVIOUS
<1>1. CacheOK
  <2>1. EmptyLine \in Line /\ EmptyLine.block = NoBlock /\ IsInvalid(EmptyLine)
    BY DEF EmptyLine, Line, SectorState, IsInvalid
  <2>2. lines = [w \in Way |-> EmptyLine]
    BY DEF Init
  <2>3. \A w \in Way : lines[w] = EmptyLine
    BY <2>2
  <2> HIDE DEF EmptyLine
  <2>4. lines \in [Way -> Line] /\ \A w \in Way : lines[w].block = NoBlock => IsInvalid(lines[w])
    BY <2>1, <2>2, <2>3
  <2>5. LruOK
    <3> DEFINE n == Cardinality(Way)
    <3>1. n \in Nat /\ Way = 0 .. n - 1 /\ lru = [i \in 1 .. n |-> i - 1]
      BY Constants DEF Init
    <3> HIDE DEF n
    <3>2. \A i \in 1 .. n : i - 1 \in Way
      BY <3>1
    <3>3. lru \in Seq(Way) /\ DOMAIN lru = 1 .. n
      <4>1. lru \in [1 .. n -> Way]
        BY <3>1, <3>2
      <4>2. QED BY <3>1, <4>1
    <3>4. ASSUME NEW w \in Way PROVE w + 1 \in 1 .. n /\ lru[w + 1] = w
      BY <3>1
    <3>5. Range(lru) = Way
      <4>1. DOMAIN lru = 1 .. n /\ \A i \in 1 .. n : lru[i] \in Way
        BY <3>1, <3>2, <3>3
      <4>2. \A w \in Way : \E i \in 1 .. n : lru[i] = w
        BY <3>4
      <4> HIDE L2Assumption, SubPartitionAssumption
      <4>3. QED BY <4>1, <4>2 DEF Range
    <3>6. QED BY <3>3, <3>5 DEF LruOK
  <2>6. index \in [Fetch -> Way \cup {NoWay}] /\ \A f \in Fetch : index[f] = NoWay
    BY DEF Init
  <2>7. dirty \in Nat
    BY DEF Init
  <2>8. QED BY <2>4, <2>5, <2>6, <2>7 DEF CacheOK
<1>2. /\ rop = <<>> /\ icntL2 = <<>> /\ l2icnt = <<>> /\ dramL2 = <<>> /\ missq = <<>>
      /\ l2dram = <<>> /\ ready = <<>> /\ mem = {} /\ mshr = [a \in Addr |-> <<>>]
      /\ \A a \in Addr : mshr[a] = <<>>
  BY DEF Init
<1>3. QueuesOK
  BY <1>2 DEF QueuesOK
<1>4. Range(<<>>) = {} /\ NoRepeat(<<>>) /\ OnceIn(Fetch, <<>>) /\ Len(<<>>) = 0
  BY DEF Range, NoRepeat, OnceIn
<1>5. CoreOnce
  BY <1>2, <1>4 DEF CoreOnce
<1>6. MemOnce
  BY <1>2, <1>4 DEF MemOnce
<1>7. MshrEntry = {} /\ InFlight = {}
  BY <1>2, <1>4 DEF MshrEntry, InFlight
<1>8. Entries
  BY <1>2, <1>4, <1>7 DEF Entries, Init
<1>9. Bounds
  BY <1>2, <1>4, <1>7, FS_EmptySet, Constants DEF Bounds
<1>10. QED BY <1>1, <1>3, <1>5, <1>6, <1>8, <1>9 DEF Inv

LEMMA StutterInv == ASSUME Inv, UNCHANGED vars PROVE Inv'
<1>1. /\ UNCHANGED <<lines, lru, dirty, mshr, ready, index>>
      /\ UNCHANGED <<missq, rop, icntL2, l2dram, dramL2, l2icnt, mem>>
  BY DEF vars, cache, queues
<1>2. CacheOK' /\ MemOnce' /\ InFlight' = InFlight
  BY <1>1, CacheFrame, MemFrame DEF Inv
<1>3. Entries' /\ Bounds'
  BY <1>1, <1>2, EntriesFrame, BoundsFrame DEF Inv, QueuesOK
<1>4. QueuesOK' /\ CoreOnce'
  BY <1>1 DEF Inv, QueuesOK, CoreOnce
<1>5. QED BY <1>2, <1>3, <1>4 DEF Inv

LEMMA NextInv == Inv /\ [Next]_vars => Inv'
<1> SUFFICES ASSUME Inv, [Next]_vars PROVE Inv'
  OBVIOUS
<1>1. CASE CacheCycle
  BY <1>1, ReplyInv, FillInv, MissInv, AccessInv, RopInv DEF CacheCycle
<1>2. CASE IcntPop
  BY <1>2, IcntPopInv
<1>3. CASE MemTake
  BY <1>3, MemTakeInv
<1>4. CASE \E f \in Fetch : Arrive(f) \/ MemReply(f)
  BY <1>4, ArriveInv, MemReplyInv
<1>5. CASE UNCHANGED vars
  BY <1>5, StutterInv
<1>6. QED BY <1>1, <1>2, <1>3, <1>4, <1>5 DEF Next, Fixed

\* Whatever is sent to a bank and in whatever order memory answers, its tag
\* array, MSHR table and queues stay consistent.
THEOREM Invariance == Spec => []Inv
<1>1. QED BY InitInv, NextInv, PTL DEF Spec

\* "MSHR should have prevented redundant memory request" (tag_array::fill).
THEOREM MshrCorrect == Spec => []MshrExact
<1>1. Inv => MshrExact
  BY DEF Inv, Entries, Bounds, MshrExact
<1>2. QED BY <1>1, Invariance, PTL

-----------------------------------------------------------------------------
(* What a step does on the cores' side: which fetches are here, and answered *)

Merged == UNION {Range(mshr[a]) : a \in Addr}

Arrives(f) ==
    /\ f \in Fetch /\ f \notin Here
    /\ Here' = Here \cup {f} /\ Range(l2icnt') = Range(l2icnt)
Popped(f) ==
    /\ f \in Fetch /\ f \in Range(l2icnt)
    /\ Here' = Here \ {f} /\ Range(l2icnt') = Range(l2icnt) \ {f}
Answered(f) ==
    /\ f \in Fetch /\ f \in Here \ Range(l2icnt) /\ ~IsWriteback(f)
    /\ Here' = Here /\ Range(l2icnt') = Range(l2icnt) \cup {f}
Retired(f) ==
    /\ f \in Fetch /\ f \in Here \ Range(l2icnt) /\ IsWriteback(f)
    /\ Here' = Here \ {f} /\ Range(l2icnt') = Range(l2icnt)
Unseen == Here' = Here /\ Range(l2icnt') = Range(l2icnt)

LEMMA HereIs ==
    /\ Here = Range(rop) \cup Range(icntL2) \cup Merged \cup Range(l2icnt)
    /\ Here' = Range(rop') \cup Range(icntL2') \cup Merged' \cup Range(l2icnt')
    /\ \A f : f \in Merged <=> \E a \in Addr : f \in Range(mshr[a])
    /\ \A f : f \in Merged' <=> \E a \in Addr : f \in Range(mshr'[a])
    /\ UNCHANGED mshr => Merged' = Merged
BY DEF Here, Merged

\* On the cores' side a fetch is in one place.
LEMMA Apart ==
    ASSUME Inv
    PROVE  /\ Range(rop) \cap Range(icntL2) = {} /\ Range(rop) \cap Merged = {}
           /\ Range(rop) \cap Range(l2icnt) = {} /\ Range(icntL2) \cap Merged = {}
           /\ Range(icntL2) \cap Range(l2icnt) = {} /\ Merged \cap Range(l2icnt) = {}
           /\ Here \subseteq Fetch
<1>1. \A a \in Addr : /\ Range(mshr[a]) \cap Range(rop) = {}
                      /\ Range(mshr[a]) \cap Range(icntL2) = {}
                      /\ Range(mshr[a]) \cap Range(l2icnt) = {}
  BY DEF Inv, CoreOnce
<1>2. /\ Range(rop) \cap Merged = {} /\ Range(icntL2) \cap Merged = {}
      /\ Merged \cap Range(l2icnt) = {}
  BY <1>1, HereIs
<1>3. \A a \in Addr : Range(mshr[a]) \subseteq Fetch
  BY SeqRange DEF Inv, QueuesOK
<1>4. Range(rop) \subseteq Fetch /\ Range(icntL2) \subseteq Fetch /\ Range(l2icnt) \subseteq Fetch
  BY SeqRange DEF Inv, QueuesOK
<1>5. Here \subseteq Fetch
  BY <1>3, <1>4, HereIs
<1>6. QED BY <1>2, <1>5 DEF Inv, CoreOnce

LEMMA ArriveEffect == ASSUME Inv, NEW f \in Fetch, Arrive(f) PROVE Arrives(f)
<1>1. UNCHANGED <<mshr, icntL2, l2icnt>> /\ f \notin Here /\ rop' = Append(rop, f)
  BY DEF Arrive, cache
<1>2. Range(rop') = Range(rop) \cup {f}
  <2>1. rop \in Seq(Fetch) /\ NoRepeat(rop)
    BY InvQueues
  <2>2. f \in Fetch /\ f \notin Range(rop) /\ rop' = Append(rop, f)
    BY <1>1, HereIs
  <2>3. QED BY <2>1, <2>2, Pushed
<1>3. QED BY <1>1, <1>2, HereIs DEF Arrives

LEMMA IcntPopEffect == ASSUME Inv, IcntPop PROVE \E f \in Fetch : Popped(f)
<1>1. UNCHANGED <<mshr, icntL2, rop>> /\ l2icnt # <<>> /\ l2icnt' = Tail(l2icnt)
  BY DEF IcntPop, cache
<1> DEFINE f == Head(l2icnt)
<1>2. f \in Fetch /\ f \in Range(l2icnt) /\ Range(l2icnt') = Range(l2icnt) \ {f}
  BY <1>1, InvQueues, Taken
<1> HIDE DEF f
<1>3. Here' = Here \ {f}
  BY <1>1, <1>2, HereIs, Apart
<1>4. QED BY <1>2, <1>3 DEF Popped

LEMMA RopEffect == ASSUME Inv, Rop PROVE Unseen
<1>1. UNCHANGED <<mshr, l2icnt>>
  BY DEF Rop, cache
<1>2. CASE rop # <<>> /\ rop' = Tail(rop) /\ icntL2' = Append(icntL2, Head(rop))
  <2> DEFINE f == Head(rop)
  <2>1. f \in Fetch /\ f \in Range(rop) /\ Range(rop') = Range(rop) \ {f}
    BY <1>2, InvQueues, Taken
  <2>2. icntL2' = Append(icntL2, f)
    BY <1>2
  <2> HIDE DEF f
  <2>3. Range(icntL2') = Range(icntL2) \cup {f}
    <3>1. icntL2 \in Seq(Fetch) /\ NoRepeat(icntL2)
      BY InvQueues
    <3>2. f \in Fetch /\ f \notin Range(icntL2) /\ icntL2' = Append(icntL2, f)
      BY <2>1, <2>2, Apart
    <3>3. QED BY <3>1, <3>2, Pushed
  <2>4. QED BY <1>1, <2>1, <2>3, HereIs DEF Unseen
<1>3. CASE UNCHANGED <<rop, icntL2>>
  BY <1>1, <1>3, HereIs DEF Unseen
<1>4. QED BY <1>2, <1>3 DEF Rop

LEMMA ReplyEffect == ASSUME Inv, Reply PROVE Unseen \/ \E f \in Fetch : Answered(f)
<1>1. UNCHANGED <<rop, icntL2>>
  BY DEF Reply
<1>2. CASE ready # <<>> /\ MshrNext
  <2> DEFINE f == Head(mshr[Head(ready)])
  <2>1. Replies(f)
    BY <1>2, ReplyMoves
  <2> HIDE DEF f
  <2>2. PICK a \in Addr :
          /\ f \in Range(mshr[a]) /\ Range(mshr'[a]) = Range(mshr[a]) \ {f}
          /\ \A b \in Addr : b # a => mshr'[b] = mshr[b] /\ f \notin Range(mshr[b])
    BY <2>1 DEF Replies
  <2>3. Merged' = Merged \ {f} /\ f \in Merged
    <3>1. \A g : g \in Merged' <=> g \in Merged /\ g # f
      <4>1. ASSUME NEW g PROVE g \in Merged' <=> g \in Merged /\ g # f
        <5>1. \A b \in Addr : g \in Range(mshr'[b]) <=> g \in Range(mshr[b]) /\ g # f
          BY <2>2
        <5>2. QED BY <5>1, HereIs
      <4>2. QED BY <4>1
    <3>2. QED BY <2>2, <3>1, HereIs
  <2>4. f \in Fetch /\ Range(l2icnt') = Range(l2icnt) \cup {f} /\ ~IsWriteback(f)
    BY <2>1 DEF Replies, IsWrite, IsWriteback
  <2>5. f \notin Range(l2icnt)
    BY <2>3, Apart
  <2>6. QED BY <1>1, <2>3, <2>4, <2>5, HereIs DEF Answered
<1>3. CASE UNCHANGED <<l2icnt, mshr, ready>>
  BY <1>1, <1>3, HereIs DEF Unseen
<1>4. QED BY <1>2, <1>3 DEF Reply

LEMMA AccessEffect ==
    ASSUME Inv, Access PROVE Unseen \/ \E f \in Fetch : Answered(f) \/ Retired(f)
<1>1. UNCHANGED rop
  BY DEF Access
<1>2. CASE /\ CanStart /\ icntL2' = Tail(icntL2)
           /\ LET f == Head(icntL2) IN Hit(f) \/ WriteMiss(f) \/ ReadMiss(f)
  <2> DEFINE f == Head(icntL2)
  <2>1. f \in Fetch /\ f \in Range(icntL2) /\ Range(icntL2') = Range(icntL2) \ {f}
    BY <1>2, InvQueues, Taken DEF CanStart
  <2>2. Hit(f) \/ WriteMiss(f) \/ ReadMiss(f)
    BY <1>2
  <2> HIDE DEF f
  <2>3. f \notin Range(l2icnt) /\ f \notin Range(rop) /\ f \notin Merged
    BY <2>1, Apart
  <2>4. CASE (Hit(f) \/ WriteMiss(f)) /\ IsWriteback(f)
    <3>1. UNCHANGED <<mshr, l2icnt>>
      BY <2>4 DEF Hit, WriteMiss, AnswerNow
    <3>2. QED BY <1>1, <2>1, <2>3, <2>4, <3>1, HereIs DEF Retired
  <2>5. CASE (Hit(f) \/ WriteMiss(f)) /\ ~IsWriteback(f)
    <3>1. UNCHANGED mshr /\ l2icnt' = Append(l2icnt, f)
      BY <2>5 DEF Hit, WriteMiss, AnswerNow
    <3>2. Range(l2icnt') = Range(l2icnt) \cup {f}
      <4>1. l2icnt \in Seq(Fetch) /\ NoRepeat(l2icnt)
        BY InvQueues
      <4>2. f \in Fetch /\ f \notin Range(l2icnt) /\ l2icnt' = Append(l2icnt, f)
        BY <2>1, <2>3, <3>1
      <4>3. QED BY <4>1, <4>2, Pushed
    <3>3. Here' = Here
      BY <1>1, <2>1, <3>1, <3>2, HereIs
    <3>4. f \in Here \ Range(l2icnt)
      BY <2>1, <2>3, HereIs
    <3>5. QED BY <2>1, <2>5, <3>2, <3>3, <3>4 DEF Answered
  <2>6. CASE ReadMiss(f)
    <3> DEFINE a == addrOf(f)
               q == mshr[a]
    <3>1. UNCHANGED l2icnt /\ mshr' = [mshr EXCEPT ![a] = Append(q, f)]
      BY <2>6 DEF ReadMiss, SendRead
    <3>2. a \in Addr
      BY <2>1, Constants
    <3>3. q \in Seq(Fetch) /\ NoRepeat(q) /\ f \notin Range(q)
      BY <2>3, <3>2, HereIs DEF Inv, QueuesOK, CoreOnce
    <3> HIDE DEF a, q
    <3>4. Range(Append(q, f)) = Range(q) \cup {f}
      BY <2>1, <3>3, AppendRange
    <3>5. /\ mshr'[a] = Append(q, f) /\ q = mshr[a]
          /\ \A b \in Addr : b # a => mshr'[b] = mshr[b]
      BY <3>1, <3>2 DEF Inv, QueuesOK, q
    <3>6. Merged' = Merged \cup {f}
      <4>1. ASSUME NEW g PROVE g \in Merged' <=> g \in Merged \/ g = f
        <5>1. \A b \in Addr : g \in Range(mshr'[b]) <=> g \in Range(mshr[b]) \/ (b = a /\ g = f)
          <6>1. \A b \in Addr : b # a => Range(mshr'[b]) = Range(mshr[b])
            BY <3>5
          <6>2. Range(mshr'[a]) = Range(mshr[a]) \cup {f}
            BY <3>4, <3>5
          <6>3. QED BY <6>1, <6>2
        <5>2. QED BY <3>2, <5>1, HereIs
      <4>2. QED BY <4>1
    <3>7. QED BY <1>1, <2>1, <3>1, <3>6, HereIs DEF Unseen
  <2>7. QED BY <2>2, <2>4, <2>5, <2>6
<1>3. CASE UNCHANGED <<lines, lru, dirty, port, mshr, index, missq, icntL2, l2icnt>>
  BY <1>1, <1>3, HereIs DEF Unseen
<1>4. QED BY <1>2, <1>3 DEF Access

\* All the steps: only an arrival can make a race.
LEMMA CoreStep ==
    ASSUME Inv, [Next]_vars
    PROVE  \/ \E f \in Fetch : Arrive(f) /\ Arrives(f)
           \/ /\ raced' = raced
              /\ Unseen \/ \E f \in Fetch : Popped(f) \/ Answered(f) \/ Retired(f)
<1>1. CASE \E f \in Fetch : Arrive(f)
  BY <1>1, ArriveEffect
<1>2. CASE Fixed(CacheCycle)
  <2>1. raced' = raced /\ (Reply \/ Fill \/ Miss \/ Access \/ Rop)
    BY <1>2 DEF Fixed, CacheCycle
  <2>2. Fill \/ Miss => Unseen
    BY HereIs DEF Fill, Miss, Unseen
  <2>3. QED BY <2>1, <2>2, ReplyEffect, AccessEffect, RopEffect
<1>3. CASE Fixed(IcntPop)
  BY <1>3, IcntPopEffect DEF Fixed
<1>4. CASE Fixed(MemTake) \/ \E f \in Fetch : Fixed(MemReply(f))
  BY <1>4, HereIs DEF Fixed, MemTake, MemReply, cache, Unseen
<1>5. CASE UNCHANGED vars
  BY <1>5, HereIs DEF vars, cache, queues, Unseen
<1>6. QED BY <1>1, <1>2, <1>3, <1>4, <1>5 DEF Next

-----------------------------------------------------------------------------
(* Refinement of MemService *)

LEMMA ServiceStep ==
    ASSUME Inv, [Next]_vars PROVE [Service!Next]_ServiceState
<1> DEFINE State(a, h) == [f \in Fetch |-> IF f \in a THEN "answered"
                                           ELSE IF f \in h THEN "pending" ELSE "idle"]
<1>1. /\ ServiceState = State(Range(l2icnt), Here)
      /\ ServiceState' = State(Range(l2icnt'), Here')
  BY DEF ServiceState
<1>2. Range(l2icnt) \subseteq Here
  BY HereIs
<1>3. ASSUME NEW f \in Fetch, Arrives(f) PROVE Service!Accept(f)
  BY <1>1, <1>2, <1>3 DEF Arrives, Service!Accept, Service!Move
<1>4. ASSUME NEW f \in Fetch, Popped(f) PROVE Service!Take(f)
  BY <1>1, <1>2, <1>4 DEF Popped, Service!Take, Service!Move
<1>5. ASSUME NEW f \in Fetch, Answered(f) PROVE Service!Answer(f)
  BY <1>1, <1>2, <1>5 DEF Answered, Service!Answer, Service!Move
<1>6. ASSUME NEW f \in Fetch, Retired(f) PROVE Service!Retire(f)
  BY <1>1, <1>2, <1>6 DEF Retired, Service!Retire, Service!Move
<1>7. ASSUME Unseen PROVE UNCHANGED ServiceState
  BY <1>1, <1>7 DEF Unseen
<1>8. QED BY <1>3, <1>4, <1>5, <1>6, <1>7, CoreStep DEF Service!Next

\* Seen from the cores, a sub partition is a MemService: it answers every fetch
\* at most once and never a writeback (l2cache.cc, cache_cycle and pop).
THEOREM Refinement == Spec => ImplementsService
<1>1. Init => Service!Init
  <2> SUFFICES ASSUME Init PROVE Service!Init
    OBVIOUS
  <2>1. l2icnt = <<>> /\ icntL2 = <<>> /\ rop = <<>> /\ \A a \in Addr : mshr[a] = <<>>
    BY DEF Init
  <2>2. Range(<<>>) = {}
    BY DEF Range
  <2>3. Range(l2icnt) = {} /\ Here = {}
    BY <2>1, <2>2, HereIs
  <2>4. QED BY <2>3 DEF Service!Init, ServiceState
<1>2. Inv /\ [Next]_vars => [Service!Next]_ServiceState
  BY ServiceStep
<1>3. QED BY <1>1, <1>2, Invariance, PTL DEF Spec, ImplementsService, Service!Spec

-----------------------------------------------------------------------------
(* The count of the modified lines.  It is kept as long as no sector was read *)
(* and written at the same time: then a fetch under way finds its sector still *)
(* reserved when it fills it.                                                *)

PendingReserved ==
    \A f \in Fetch : index[f] # NoWay =>
        /\ lines[index[f]].block = blockOf[f]
        /\ lines[index[f]].st[sectorOf[f]] = "R"

OneKind ==
    \A f, g \in Here : addrOf(f) = addrOf(g) => (IsWrite(f) <=> IsWrite(g))

Modified == {w \in Way : IsModified(lines[w])}
Counted == dirty = Cardinality(Modified) % DirtyWidth

CountInv == ~raced => PendingReserved /\ OneKind /\ Counted

LEMMA Recount ==
    ASSUME CacheOK, NEW w, NEW m, Rewrites(w, m), Counts(w, m), Counted
    PROVE  Counted'
<1> DEFINE l == lines[w]
           c == Cardinality(Modified)
           d == B2N(IsModified(m)) - B2N(IsModified(l))
<1>1. /\ w \in Way /\ lines'[w] = m
      /\ \A v \in Way : v # w => lines'[v] = lines[v]
  BY DEF Rewrites, CacheOK
<1>2. IsFiniteSet(Way) /\ Modified \subseteq Way
  BY DEF Modified
<1>3. IsFiniteSet(Modified) /\ c \in Nat
  BY <1>2, FS_Subset, FS_CardinalityType
<1>4. Modified' = {v \in Way : IsModified(lines'[v])}
  BY DEF Modified
<1>5. \A v \in Way : v # w => (v \in Modified' <=> v \in Modified)
  BY <1>1, <1>4 DEF Modified
<1>6. (w \in Modified' <=> IsModified(m)) /\ (w \in Modified <=> IsModified(l))
  BY <1>1, <1>4 DEF Modified
<1>7. Modified' \subseteq Way
  BY <1>4
<1> HIDE DEF l
<1>8. Cardinality(Modified') = c + d
  <2>1. CASE IsModified(m) /\ ~IsModified(l)
    <3>1. Modified' = Modified \cup {w}
      BY <1>1, <1>2, <1>5, <1>6, <1>7, <2>1
    <3>2. w \notin Modified
      BY <1>6, <2>1
    <3>3. d = 1
      BY <2>1 DEF B2N
    <3>4. QED BY <1>3, <3>1, <3>2, <3>3, FS_AddElement
  <2>2. CASE ~IsModified(m) /\ IsModified(l)
    <3>1. Modified' = Modified \ {w}
      BY <1>1, <1>2, <1>5, <1>6, <1>7, <2>2
    <3>2. w \in Modified
      BY <1>6, <2>2
    <3>3. d = -1
      BY <2>2 DEF B2N
    <3>4. QED BY <1>3, <3>1, <3>2, <3>3, FS_RemoveElement
  <2>3. CASE IsModified(m) <=> IsModified(l)
    <3>1. Modified' = Modified
      BY <1>1, <1>2, <1>5, <1>6, <1>7, <2>3
    <3>2. d = 0
      BY <2>3 DEF B2N
    <3>3. QED BY <1>3, <3>1, <3>2
  <2>4. QED BY <2>1, <2>2, <2>3
<1>9. d \in Int
  BY DEF B2N
<1>10. dirty = c % DirtyWidth /\ dirty' = (dirty + d) % DirtyWidth
  BY DEF Counted, Counts, l
<1> HIDE DEF c, d
<1>11. ((c % DirtyWidth) + d) % DirtyWidth = (c + d) % DirtyWidth
  <2>1. DirtyWidth \in Nat \ {0} /\ c \in Int
    BY <1>3, Constants
  <2> HIDE L2Assumption, SubPartitionAssumption
  <2>2. QED BY <1>9, <2>1, CountModulo
<1>12. QED BY <1>8, <1>10, <1>11 DEF Counted, c

\* A fetch under way is the first of its MSHR entry, and the only one of its
\* sector.
LEMMA UnderWay ==
    ASSUME Inv, NEW f \in Fetch, index[f] # NoWay
    PROVE  /\ index[f] \in Way /\ f \in Here /\ ~IsWrite(f)
           /\ \A g \in Fetch : index[g] # NoWay /\ addrOf(g) = addrOf(f) => g = f
<1> DEFINE a == addrOf(f)
           q == mshr[a]
<1>1. a \in Addr /\ f \in InFlight /\ index[f] \in Way
  BY Constants DEF Inv, Entries, CacheOK
<1>2. {g \in InFlight : addrOf(g) = a} =
        IF a \in MshrEntry \ Range(ready) THEN {Head(q)} ELSE {}
  BY <1>1 DEF Inv, Entries
<1>3. f \in {g \in InFlight : addrOf(g) = a}
  BY <1>1
<1>4. a \in MshrEntry /\ f = Head(q) /\ {g \in InFlight : addrOf(g) = a} = {f}
  BY <1>2, <1>3
<1>5. q \in Seq(Fetch) /\ q # <<>>
  BY <1>1, <1>4 DEF Inv, QueuesOK, MshrEntry
<1> HIDE DEF q
<1>6. Head(q) \in Range(q)
  BY <1>5, HeadTail
<1>7. f \in Range(mshr[a])
  BY <1>4, <1>6 DEF q
<1> HIDE DEF a
<1>8. ~IsWrite(f)
  BY <1>1, <1>7 DEF Inv, CoreOnce
<1>9. f \in Here
  BY <1>1, <1>7, HereIs
<1>10. \A g \in Fetch : index[g] # NoWay /\ addrOf(g) = a => g = f
  BY <1>4 DEF Inv, Entries
<1>11. QED BY <1>1, <1>8, <1>9, <1>10 DEF a

\* Rewriting line w keeps what is reserved for the fetches that fill it.
LEMMA StillReserved ==
    ASSUME Inv, PendingReserved, NEW w, NEW m, Rewrites(w, m),
           \A g \in Fetch : index'[g] # NoWay =>
               IF index'[g] = w THEN m.block = blockOf[g] /\ m.st[sectorOf[g]] = "R"
               ELSE index'[g] = index[g]
    PROVE  PendingReserved'
<1>1. lines \in [Way -> Line] /\ index \in [Fetch -> Way \cup {NoWay}]
  BY DEF Inv, CacheOK
<1>2. lines'[w] = m /\ \A v \in Way : v # w => lines'[v] = lines[v]
  BY <1>1 DEF Rewrites
<1>3. ASSUME NEW g \in Fetch, index'[g] # NoWay
      PROVE  lines'[index'[g]].block = blockOf[g] /\ lines'[index'[g]].st[sectorOf[g]] = "R"
  <2>1. CASE index'[g] = w
    BY <1>2, <1>3, <2>1
  <2>2. CASE index'[g] # w
    <3>1. index'[g] = index[g] /\ index[g] \in Way
      BY <1>1, <1>3, <2>2
    <3>2. QED BY <1>2, <1>3, <2>2, <3>1 DEF PendingReserved
  <2>3. QED BY <2>1, <2>2
<1>4. QED BY <1>3 DEF PendingReserved

LEMMA FillCount ==
    ASSUME Inv, PendingReserved, Counted, dramL2 # <<>>, FillCache(Head(dramL2))
    PROVE  PendingReserved' /\ Counted'
<1> DEFINE f == Head(dramL2)
<1>1. f \in Fetch /\ f \in Range(dramL2)
  BY HeadTail DEF Inv, QueuesOK
<1>2. index[f] # NoWay
  BY <1>1 DEF Inv, Entries, InFlight
<1>3. FillCache(f)
  OBVIOUS
<1> HIDE DEF f
<1> DEFINE w == index[f]
           l == lines[w]
           m == lines'[w]
           s == sectorOf[f]
<1>4. w \in Way /\ l.block = blockOf[f] /\ l.st[s] = "R"
  BY <1>1, <1>2, UnderWay DEF PendingReserved
<1>5. /\ Rewrites(w, m) /\ Counts(w, m) /\ m.block = l.block
      /\ \A t \in Sector : t # s => m.st[t] = l.st[t]
  BY <1>1, <1>3, <1>4, FillEffect DEF Inv
<1>6. index'[f] = NoWay /\ \A g \in Fetch : g # f => index'[g] = index[g]
  BY <1>1, <1>3 DEF FillCache, Inv, CacheOK
<1>7. Counted'
  BY <1>5, Recount DEF Inv
<1>8. ASSUME NEW g \in Fetch, index'[g] # NoWay
      PROVE  IF index'[g] = w THEN m.block = blockOf[g] /\ m.st[sectorOf[g]] = "R"
             ELSE index'[g] = index[g]
  <2>1. g # f /\ index'[g] = index[g]
    BY <1>6, <1>8
  <2>2. CASE index[g] = w
    <3>1. l.block = blockOf[g] /\ l.st[sectorOf[g]] = "R"
      BY <1>8, <2>1, <2>2 DEF PendingReserved
    <3>2. sectorOf[g] # s
      <4>1. addrOf(g) # addrOf(f)
        BY <1>1, <1>2, <1>8, <2>1, UnderWay
      <4>2. QED BY <1>4, <3>1, <4>1 DEF addrOf
    <3>3. QED BY <1>5, <2>1, <2>2, <3>1, <3>2, Constants
  <2>3. QED BY <2>1, <2>2
<1> HIDE DEF w, m
<1>9. PendingReserved'
  BY <1>5, <1>8, StillReserved
<1>10. QED BY <1>7, <1>9

LEMMA HitCount ==
    ASSUME Inv, PendingReserved, Counted, NEW f \in Fetch, Hit(f)
    PROVE  PendingReserved' /\ Counted'
<1> DEFINE w == WayOf(f)
           l == lines[w]
           m == lines'[w]
           s == sectorOf[f]
<1>1. /\ Rewrites(w, m) /\ Counts(w, m) /\ m.block = l.block
      /\ \A t \in Sector : t # s => m.st[t] = l.st[t]
      /\ l.st[s] \in {"V", "M"}
  BY HitEffect DEF Inv
<1>2. index' = index
  BY DEF Hit
<1>3. ASSUME NEW g \in Fetch, index'[g] # NoWay
      PROVE  IF index'[g] = w THEN m.block = blockOf[g] /\ m.st[sectorOf[g]] = "R"
             ELSE index'[g] = index[g]
  <2>1. CASE index[g] = w
    <3>1. l.block = blockOf[g] /\ l.st[sectorOf[g]] = "R"
      BY <1>2, <1>3, <2>1 DEF PendingReserved
    <3>2. sectorOf[g] # s
      BY <1>1, <3>1
    <3>3. QED BY <1>1, <1>2, <2>1, <3>1, <3>2, Constants
  <2>2. QED BY <1>2, <2>1
<1> HIDE DEF w, m
<1>4. PendingReserved'
  BY <1>1, <1>3, StillReserved
<1>5. QED BY <1>1, <1>4, Recount DEF Inv

LEMMA WriteMissCount ==
    ASSUME Inv, PendingReserved, OneKind, Counted, NEW f \in Fetch, f \in Here, WriteMiss(f)
    PROVE  PendingReserved' /\ Counted'
<1> DEFINE w == WayOf(f)
           l == lines[w]
           m == lines'[w]
           s == sectorOf[f]
           acc == AccessedLine(f)
<1>1. /\ Rewrites(w, m) /\ Counts(w, m) /\ m.block = blockOf[f]
      /\ \A t \in Sector : t # s => m.st[t] = acc.st[t]
  BY WriteMissEffect DEF Inv
<1>2. index' = index /\ IsWrite(f) /\ Probe(f) \in Misses
  BY DEF WriteMiss, Misses
<1>3. ASSUME NEW g \in Fetch, index'[g] # NoWay
      PROVE  IF index'[g] = w THEN m.block = blockOf[g] /\ m.st[sectorOf[g]] = "R"
             ELSE index'[g] = index[g]
  <2>1. CASE index[g] = w
    <3>1. l.block = blockOf[g] /\ l.st[sectorOf[g]] = "R" /\ sectorOf[g] \in Sector
      BY <1>2, <1>3, <2>1, Constants DEF PendingReserved
    <3>2. IsReserved(l)
      BY <3>1 DEF IsReserved, Has
    <3>3. Probe(f) # "MISS" /\ l.block = blockOf[f]
      BY <1>2, <3>2, Probed DEF Inv, Misses
    <3>4. g \in Here /\ ~IsWrite(g)
      BY <1>2, <1>3, UnderWay
    <3>5. addrOf(g) # addrOf(f)
      BY <1>2, <3>4 DEF OneKind
    <3>6. sectorOf[g] # s
      BY <3>1, <3>3, <3>5 DEF addrOf
    <3>7. acc.st[sectorOf[g]] = "R"
      <4>1. CASE Probe(f) = "HIT_RESERVED"
        BY <1>2, <3>1, <4>1, Accessed DEF Inv
      <4>2. CASE Probe(f) = "SECTOR_MISS"
        <5>1. acc.st = [l.st EXCEPT ![s] = "R"]
          BY <1>2, <4>2, Accessed DEF Inv
        <5>2. QED BY <3>1, <3>6, <5>1
      <4>3. QED BY <1>2, <3>3, <4>1, <4>2 DEF Misses
    <3>8. QED BY <1>1, <1>2, <2>1, <3>1, <3>3, <3>6, <3>7
  <2>2. QED BY <1>2, <2>1
<1> HIDE DEF w, m
<1>4. PendingReserved'
  BY <1>1, <1>3, StillReserved
<1>5. QED BY <1>1, <1>4, Recount DEF Inv

LEMMA ReadMissCount ==
    ASSUME Inv, PendingReserved, Counted, NEW f \in Fetch, ReadMiss(f)
    PROVE  PendingReserved' /\ Counted'
<1> DEFINE w == WayOf(f)
           l == lines[w]
           m == lines'[w]
           s == sectorOf[f]
           acc == AccessedLine(f)
<1>1. Rewrites(w, m) /\ Counts(w, m) /\ m = acc
  BY ReadMissEffect DEF Inv
<1>2. Probe(f) \in Misses /\ SendRead(f)
  BY DEF ReadMiss, Misses
<1>3. acc.block = blockOf[f] /\ acc.st[s] = "R" /\ acc \in Line
  BY <1>2, Accessed DEF Inv
<1>4. \A g \in Fetch : index'[g] = index[g] \/ (g = f /\ index'[g] = w)
  BY <1>2 DEF SendRead, Inv, CacheOK
<1>5. ASSUME NEW g \in Fetch, index'[g] # NoWay
      PROVE  IF index'[g] = w THEN m.block = blockOf[g] /\ m.st[sectorOf[g]] = "R"
             ELSE index'[g] = index[g]
  <2>1. CASE g = f /\ index'[g] = w
    BY <1>1, <1>3, <2>1
  <2>2. CASE index'[g] = index[g] /\ index[g] = w
    <3>1. l.block = blockOf[g] /\ l.st[sectorOf[g]] = "R" /\ sectorOf[g] \in Sector
      BY <1>5, <2>2, Constants DEF PendingReserved
    <3>2. IsReserved(l)
      BY <3>1 DEF IsReserved, Has
    <3>3. Probe(f) # "MISS" /\ l.block = blockOf[f]
      BY <1>2, <3>2, Probed DEF Inv, Misses
    <3>4. acc.st[sectorOf[g]] = "R"
      <4>1. CASE Probe(f) = "HIT_RESERVED"
        BY <1>2, <3>1, <4>1, Accessed DEF Inv
      <4>2. CASE Probe(f) = "SECTOR_MISS"
        <5>1. acc.st = [l.st EXCEPT ![s] = "R"]
          BY <1>2, <4>2, Accessed DEF Inv
        <5>2. CASE sectorOf[g] = s
          BY <1>3, <5>2
        <5>3. CASE sectorOf[g] # s
          BY <3>1, <5>1, <5>3
        <5>4. QED BY <5>2, <5>3
      <4>3. QED BY <1>2, <3>3, <4>1, <4>2 DEF Misses
    <3>5. QED BY <1>1, <1>3, <2>2, <3>1, <3>3, <3>4
  <2>3. QED BY <1>4, <2>1, <2>2
<1> HIDE DEF w, m
<1>6. PendingReserved'
  BY <1>1, <1>5, StillReserved
<1>7. QED BY <1>1, <1>6, Recount DEF Inv

\* The steps that rewrite a line.
LEMMA Rewriting ==
    ASSUME [Next]_vars
    PROVE  \/ UNCHANGED <<lines, index, dirty>>
           \/ dramL2 # <<>> /\ FillCache(Head(dramL2))
           \/ /\ icntL2 # <<>>
              /\ LET f == Head(icntL2) IN Hit(f) \/ WriteMiss(f) \/ ReadMiss(f)
<1>1. CASE CacheCycle
  <2>1. CASE Fill
    BY <2>1 DEF Fill
  <2>2. CASE Access
    BY <2>2 DEF Access, CanStart
  <2>3. CASE Reply \/ Miss
    BY <2>3 DEF Reply, Miss
  <2>4. CASE Rop
    BY <2>4 DEF Rop, cache
  <2>5. QED BY <1>1, <2>1, <2>2, <2>3, <2>4 DEF CacheCycle
<1>2. CASE IcntPop \/ MemTake
  BY <1>2 DEF IcntPop, MemTake, cache
<1>3. CASE \E f \in Fetch : Arrive(f) \/ MemReply(f)
  BY <1>3 DEF Arrive, MemReply, cache
<1>4. CASE UNCHANGED vars
  BY <1>4 DEF vars, cache
<1>5. QED BY <1>1, <1>2, <1>3, <1>4 DEF Next, Fixed

LEMMA OneKindStep ==
    ASSUME Inv, CountInv, [Next]_vars, ~raced' PROVE ~raced /\ OneKind'
<1>1. CASE \E f \in Fetch : Arrive(f) /\ Arrives(f)
  <2>1. PICK f \in Fetch : Arrive(f) /\ Arrives(f)
    BY <1>1
  <2>2. raced' = (raced \/ \E g \in Here : addrOf(g) = addrOf(f) /\ IsWrite(g) # IsWrite(f))
    BY <2>1 DEF Arrive
  <2>3. ~raced /\ \A g \in Here : addrOf(g) = addrOf(f) => IsWrite(g) = IsWrite(f)
    BY <2>2
  <2>4. Here' = Here \cup {f} /\ OneKind
    BY <2>1, <2>3 DEF Arrives, CountInv
  <2>5. QED BY <2>3, <2>4 DEF OneKind
<1>2. CASE raced' = raced /\ Here' \subseteq Here
  BY <1>2 DEF CountInv, OneKind
<1>3. QED BY <1>1, <1>2, CoreStep DEF Unseen, Popped, Answered, Retired

LEMMA CountStep == Inv /\ CountInv /\ [Next]_vars => CountInv'
<1> SUFFICES ASSUME Inv, CountInv, [Next]_vars, ~raced'
             PROVE  PendingReserved' /\ OneKind' /\ Counted'
  BY DEF CountInv
<1>1. ~raced /\ OneKind'
  BY OneKindStep
<1>2. PendingReserved /\ OneKind /\ Counted
  BY <1>1 DEF CountInv
<1>3. CASE UNCHANGED <<lines, index, dirty>>
  <2>1. PendingReserved'
    BY <1>2, <1>3 DEF PendingReserved
  <2>2. Modified' = Modified
    BY <1>3 DEF Modified
  <2>3. QED BY <1>1, <1>2, <1>3, <2>1, <2>2 DEF Counted
<1>4. CASE dramL2 # <<>> /\ FillCache(Head(dramL2))
  BY <1>1, <1>2, <1>4, FillCount
<1>5. CASE /\ icntL2 # <<>>
           /\ LET f == Head(icntL2) IN Hit(f) \/ WriteMiss(f) \/ ReadMiss(f)
  <2> DEFINE f == Head(icntL2)
  <2>1. f \in Fetch /\ f \in Here /\ (Hit(f) \/ WriteMiss(f) \/ ReadMiss(f))
    BY <1>5, HeadTail, HereIs DEF Inv, QueuesOK
  <2> HIDE DEF f
  <2>2. QED BY <1>1, <1>2, <2>1, HitCount, WriteMissCount, ReadMissCount
<1>6. QED BY <1>3, <1>4, <1>5, Rewriting

LEMMA CountInit == Init => CountInv
<1> SUFFICES ASSUME Init PROVE PendingReserved /\ OneKind /\ Counted
  BY DEF CountInv
<1>1. PendingReserved
  BY DEF Init, PendingReserved
<1>2. OneKind
  <2>1. l2icnt = <<>> /\ icntL2 = <<>> /\ rop = <<>> /\ \A a \in Addr : mshr[a] = <<>>
    BY DEF Init
  <2>2. Range(<<>>) = {}
    BY DEF Range
  <2>3. Here = {}
    BY <2>1, <2>2, HereIs
  <2>4. QED BY <2>3 DEF OneKind
<1>3. Counted
  <2>1. Modified = {}
    BY DEF Init, Modified, IsModified, Has, EmptyLine
  <2>2. Cardinality(Modified) = 0 /\ dirty = 0
    BY <2>1, FS_EmptySet DEF Init
  <2>3. DirtyWidth \in Nat \ {0}
    BY Constants
  <2> HIDE L2Assumption, SubPartitionAssumption
  <2>4. 0 % DirtyWidth = 0
    BY <2>3
  <2>5. QED BY <2>2, <2>4 DEF Counted
<1>4. QED BY <1>1, <1>2, <1>3

THEOREM CountInvariance == Spec => []CountInv
BY CountInit, CountStep, Invariance, PTL DEF Spec

\* "number of dirty lines / total lines in the cache" (tag_array::probe).
THEOREM DirtyCountCorrect == Spec => []DirtyCount
<1>1. CountInv => DirtyCount
  BY DEF CountInv, Counted, Modified, DirtyCount
<1>2. QED BY <1>1, CountInvariance, PTL

-----------------------------------------------------------------------------
(* What was written is written back *)

Kept(w, s) ==
    \/ lines'[w].block = lines[w].block /\ s \in Owed(lines'[w])
    \/ /\ missq' # missq
       /\ LET e == missq'[Len(missq')] IN
          e \in Eviction /\ e.block = lines[w].block /\ s \in e.sectors

\* It is enough to look at the line that is rewritten.
LEMMA OthersKept ==
    ASSUME CacheOK, NEW w, NEW m, Rewrites(w, m), \A s \in Owed(lines[w]) : Kept(w, s)
    PROVE  \A v \in Way : \A s \in Owed(lines[v]) : Kept(v, s)
<1>1. \A v \in Way : v # w => lines'[v] = lines[v]
  BY DEF Rewrites, CacheOK
<1>2. QED BY <1>1 DEF Kept

LEMMA FillKept ==
    ASSUME Inv, PendingReserved, dramL2 # <<>>, FillCache(Head(dramL2))
    PROVE  \A w \in Way : \A s \in Owed(lines[w]) : Kept(w, s)
<1> DEFINE f == Head(dramL2)
<1>1. f \in Fetch /\ f \in Range(dramL2)
  BY HeadTail DEF Inv, QueuesOK
<1>2. index[f] # NoWay
  BY <1>1 DEF Inv, Entries, InFlight
<1>3. FillCache(f)
  OBVIOUS
<1> HIDE DEF f
<1> DEFINE w == index[f]
           l == lines[w]
           m == lines'[w]
           s == sectorOf[f]
<1>4. w \in Way /\ l.st[s] = "R" /\ s \in Sector
  BY <1>1, <1>2, UnderWay, Constants DEF PendingReserved
<1>5. /\ Rewrites(w, m) /\ m.block = l.block /\ m.modOnFill = l.modOnFill
      /\ \A t \in Sector : t # s => m.st[t] = l.st[t]
      /\ s \in l.modOnFill => m.st[s] = "M"
  BY <1>1, <1>3, <1>4, FillEffect DEF Inv
<1> HIDE DEF l, m, s
<1>6. \A t \in Owed(l) : t \in Owed(m)
  BY <1>4, <1>5 DEF Owed
<1>7. \A t \in Owed(lines[w]) : Kept(w, t)
  BY <1>5, <1>6 DEF Kept, l, m
<1> HIDE DEF w
<1>8. QED BY <1>5, <1>7, OthersKept DEF Inv

LEMMA HitKept ==
    ASSUME Inv, NEW f \in Fetch, Hit(f)
    PROVE  \A w \in Way : \A s \in Owed(lines[w]) : Kept(w, s)
<1> DEFINE w == WayOf(f)
           l == lines[w]
           m == lines'[w]
           s == sectorOf[f]
<1>1. /\ Rewrites(w, m) /\ m.block = l.block /\ m.modOnFill = l.modOnFill
      /\ \A t \in Sector : t # s => m.st[t] = l.st[t]
      /\ l.st[s] \in {"V", "M"} /\ (l.st[s] = "M" => m.st[s] = "M")
  BY HitEffect DEF Inv
<1> HIDE DEF l, m, s
<1>2. \A t \in Owed(l) : t \in Owed(m)
  BY <1>1 DEF Owed
<1>3. \A t \in Owed(lines[w]) : Kept(w, t)
  BY <1>1, <1>2 DEF Kept, l, m
<1> HIDE DEF w
<1>4. QED BY <1>1, <1>3, OthersKept DEF Inv

\* A victim is not reserved: what it owes is what its writeback carries.
LEMMA VictimWrittenBack ==
    ASSUME Inv, NEW f \in Fetch, Probe(f) = "MISS",
           NEW q \in Seq(Fetch \cup Eviction), Len(q) >= Len(missq),
           missq' = q \o EvictionOf(f)
    PROVE  \A s \in Owed(lines[WayOf(f)]) : Kept(WayOf(f), s)
<1> DEFINE l == lines[WayOf(f)]
           e == [block |-> l.block, sectors |-> DirtySectors(l)]
<1> SUFFICES ASSUME NEW s \in Owed(l)
             PROVE  /\ missq' # missq
                    /\ missq'[Len(missq')] \in Eviction
                    /\ missq'[Len(missq')].block = l.block
                    /\ s \in missq'[Len(missq')].sectors
  BY DEF Kept
<1>1. ~IsReserved(l) /\ s \in Sector
  BY Probed DEF Inv, Owed
<1>2. l.st[s] = "M"
  BY <1>1 DEF Owed, IsReserved, Has
<1>3. Evicts(f)
  BY <1>1, <1>2 DEF Evicts, IsModified, Has
<1>4. EvictionOf(f) = <<e>> /\ e \in Eviction
  BY <1>3, Evicted DEF Misses, Inv
<1>5. e.block = l.block /\ s \in e.sectors
  BY <1>1, <1>2 DEF DirtySectors
<1> HIDE DEF e
<1>6. Len(missq') = Len(q) + 1 /\ missq'[Len(q) + 1] = e
  BY <1>4
<1>7. Len(q) \in Nat /\ Len(missq) \in Nat
  BY LenProperties DEF Inv, QueuesOK
<1>8. Len(missq') # Len(missq)
  BY <1>6, <1>7
<1>9. QED BY <1>4, <1>5, <1>6, <1>8

\* A line that is not evicted owes its sectors after the access of a miss, too.
LEMMA AccessKeeps ==
    ASSUME CacheOK, NEW f \in Fetch, Probe(f) \in {"HIT_RESERVED", "SECTOR_MISS"},
           NEW s \in Owed(lines[WayOf(f)])
    PROVE  /\ lines[WayOf(f)].block = blockOf[f]
           /\ s \in Owed(AccessedLine(f))
           /\ s # sectorOf[f] =>
                /\ AccessedLine(f).st[s] = lines[WayOf(f)].st[s]
<1> DEFINE l == lines[WayOf(f)]
           m == AccessedLine(f)
           u == sectorOf[f]
<1>1. l.block = blockOf[f] /\ u \in Sector /\ l \in Line /\ s \in Sector
      /\ (Probe(f) = "SECTOR_MISS" => l.st[u] \in {"I", "M"})
  BY Probed, Constants DEF CacheOK, Owed
<1>2. CASE Probe(f) = "HIT_RESERVED"
  <2>1. m = l
    BY <1>2, Accessed DEF Misses
  <2>2. QED BY <1>1, <2>1
<1>3. CASE Probe(f) = "SECTOR_MISS"
  <2>1. /\ m.st = [l.st EXCEPT ![u] = "R"]
        /\ \A t \in Sector : t # u => (t \in m.modOnFill <=> t \in l.modOnFill)
        /\ l.st[u] = "M" => u \in m.modOnFill
    BY <1>3, Accessed DEF Misses
  <2>2. l.st \in [Sector -> SectorState]
    BY <1>1 DEF Line
  <2>3. m.st[u] = "R" /\ \A t \in Sector : t # u => m.st[t] = l.st[t]
    BY <1>1, <2>1, <2>2
  <2> HIDE DEF l, m, u
  <2>4. s \in Owed(m)
    <3>1. CASE s = u
      BY <1>1, <1>3, <2>1, <2>3, <3>1 DEF Owed, l
    <3>2. CASE s # u
      BY <1>1, <2>1, <2>3, <3>2 DEF Owed, l
    <3>3. QED BY <3>1, <3>2
  <2>5. QED BY <1>1, <2>3, <2>4 DEF l, m, u
<1>4. QED BY <1>2, <1>3

LEMMA WriteMissKept ==
    ASSUME Inv, NEW f \in Fetch, WriteMiss(f)
    PROVE  \A w \in Way : \A s \in Owed(lines[w]) : Kept(w, s)
<1> DEFINE w == WayOf(f)
           l == lines[w]
           m == lines'[w]
           u == sectorOf[f]
           acc == AccessedLine(f)
<1>1. /\ Rewrites(w, m) /\ m.block = blockOf[f] /\ acc.modOnFill \subseteq m.modOnFill
      /\ \A t \in Sector : t # u => m.st[t] = acc.st[t]
      /\ m.st[u] = "M"
  BY WriteMissEffect DEF Inv
<1>2. Probe(f) \in Misses /\ missq' = missq \o EvictionOf(f)
  BY DEF WriteMiss, Misses
<1>3. ASSUME NEW s \in Owed(l) PROVE Kept(w, s)
  <2>1. CASE Probe(f) = "MISS"
    <3>1. missq \in Seq(Fetch \cup Eviction) /\ Len(missq) >= Len(missq)
      BY DEF Inv, QueuesOK
    <3>2. QED BY <1>2, <1>3, <2>1, <3>1, VictimWrittenBack
  <2>2. CASE Probe(f) \in {"HIT_RESERVED", "SECTOR_MISS"}
    <3>1. l.block = blockOf[f] /\ s \in Owed(acc) /\ s \in Sector
      BY <1>3, <2>2, AccessKeeps DEF Inv, Owed
    <3> HIDE DEF acc, m, u
    <3>2. s \in Owed(m)
      <4>1. CASE s = u
        BY <1>1, <3>1, <4>1 DEF Owed
      <4>2. CASE s # u
        BY <1>1, <3>1, <4>2 DEF Owed
      <4>3. QED BY <4>1, <4>2
    <3>3. QED BY <1>1, <3>1, <3>2 DEF Kept, m
  <2>3. QED BY <1>2, <2>1, <2>2 DEF Misses
<1> HIDE DEF w, m
<1>4. QED BY <1>1, <1>3, OthersKept DEF Inv

LEMMA ReadMissKept ==
    ASSUME Inv, NEW f \in Fetch, ReadMiss(f)
    PROVE  \A w \in Way : \A s \in Owed(lines[w]) : Kept(w, s)
<1> DEFINE w == WayOf(f)
           l == lines[w]
           m == lines'[w]
           acc == AccessedLine(f)
<1>1. Rewrites(w, m) /\ m = acc
  BY ReadMissEffect DEF Inv
<1>2. Probe(f) \in Misses /\ SendRead(f)
  BY DEF ReadMiss, Misses
<1>3. acc.block = blockOf[f]
  BY <1>2, Accessed DEF Inv
<1>4. ASSUME NEW s \in Owed(l) PROVE Kept(w, s)
  <2>1. CASE Probe(f) = "MISS"
    <3>1. missq \in Seq(Fetch \cup Eviction) /\ Len(missq) \in Nat /\ f \in Fetch \cup Eviction
      BY DEF Inv, QueuesOK
    <3>2. Append(missq, f) \in Seq(Fetch \cup Eviction) /\ Len(Append(missq, f)) = Len(missq) + 1
      BY <3>1, AppendType
    <3>3. PICK q \in {missq, Append(missq, f)} : missq' = q \o EvictionOf(f)
      BY <1>2 DEF SendRead
    <3>4. q \in Seq(Fetch \cup Eviction) /\ Len(q) >= Len(missq)
      <4>1. CASE q = missq
        BY <3>1, <4>1
      <4>2. CASE q = Append(missq, f)
        BY <3>1, <3>2, <4>2
      <4>3. QED BY <3>3, <4>1, <4>2
    <3>5. QED BY <1>4, <2>1, <3>3, <3>4, VictimWrittenBack
  <2>2. CASE Probe(f) \in {"HIT_RESERVED", "SECTOR_MISS"}
    <3>1. l.block = blockOf[f] /\ s \in Owed(acc)
      BY <1>4, <2>2, AccessKeeps DEF Inv
    <3>2. QED BY <1>1, <1>3, <3>1 DEF Kept
  <2>3. QED BY <1>2, <2>1, <2>2 DEF Misses
<1> HIDE DEF w, m
<1>5. QED BY <1>1, <1>4, OthersKept DEF Inv

\* The eviction of a modified line writes its sectors back (tag_array::access,
\* data_cache::wr_miss_wa_lazy_fetch_on_read and rd_miss_base).
THEOREM DirtyKeptCorrect == Spec => DirtyKept
<1>1. /\ Inv /\ CountInv /\ [Next]_vars
      => [~raced => \A w \in Way : \A s \in Owed(lines[w]) :
             \/ lines'[w].block = lines[w].block /\ s \in Owed(lines'[w])
             \/ /\ missq' # missq
                /\ LET e == missq'[Len(missq')] IN
                   e \in Eviction /\ e.block = lines[w].block /\ s \in e.sectors]_vars
  <2> SUFFICES ASSUME Inv, CountInv, [Next]_vars, ~raced
               PROVE  \A w \in Way : \A s \in Owed(lines[w]) : Kept(w, s)
    BY DEF Kept
  <2>1. CASE UNCHANGED <<lines, index, dirty>>
    BY <2>1 DEF Kept
  <2>2. CASE dramL2 # <<>> /\ FillCache(Head(dramL2))
    BY <2>2, FillKept DEF CountInv
  <2>3. CASE /\ icntL2 # <<>>
             /\ LET f == Head(icntL2) IN Hit(f) \/ WriteMiss(f) \/ ReadMiss(f)
    <3> DEFINE f == Head(icntL2)
    <3>1. f \in Fetch /\ (Hit(f) \/ WriteMiss(f) \/ ReadMiss(f))
      BY <2>3, HeadTail DEF Inv, QueuesOK
    <3> HIDE DEF f
    <3>2. QED BY <3>1, HitKept, WriteMissKept, ReadMissKept
  <2>4. QED BY <2>1, <2>2, <2>3, Rewriting
<1>2. QED BY <1>1, Invariance, CountInvariance, PTL DEF Spec, DirtyKept
=============================================================================
