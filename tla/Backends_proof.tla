---------------------------- MODULE Backends_proof ----------------------------
(***************************************************************************)
(* Proofs about the two ends of a request's way to a backend: the map that *)
(* chooses it (BackendMap, and SectorPlacement, which builds on it), for   *)
(* every address width, map file, memory, set of segment sizes and unit of *)
(* the map, and the co-simulated backends it chooses from (CoSimBackend),  *)
(* for any number of partitions that share the simulator, every finite set *)
(* of fetches and every bound.                                             *)
(***************************************************************************)
EXTENDS SectorPlacement, CoSimBackend, Queues_proof, FiniteSetTheorems, FunctionTheorems, TLAPS

-----------------------------------------------------------------------------
(* The map *)

\* What holds of every range that was kept: it is not empty.
Nonempty == \A k \in DOMAIN ranges : ranges[k].base < ranges[k].end

\* The ranges compared so far follow each other.
Chained ==
    loader \in {"check", "ready"} =>
        \A j, k \in DOMAIN ranges : j < k /\ k <= i => ranges[j].end <= ranges[k].base

IndexOK ==
    /\ loader = "load" => i = 1
    /\ loader = "ready" => i >= Len(ranges)

Inv == MapTypeOK /\ Nonempty /\ IndexOK /\ Chained

USE MapAssumption

\* A kept line becomes a non-empty range.
LEMMA KeptRange ==
    ASSUME NEW l \in Line, Valid(l)
    PROVE  LET r == [base |-> l.base, end |-> EndOf(l), backend |-> l.backend]
           IN  r \in MemRange /\ r.base < r.end
<1>1. EndOf(l) \in Address
  BY DEF EndOf, Line, Address
<1>2. QED BY <1>1 DEF Valid, Line, MemRange, Address

LEMMA InitInv == MapInit => Inv
<1> SUFFICES ASSUME MapInit PROVE Inv
  OBVIOUS
<1>1. file \in Seq(Line)
  BY DEF MapInit
<1>2. ranges = <<>> /\ DOMAIN ranges = {}
  BY DEF MapInit
<1>3. MapTypeOK
  BY <1>1, <1>2 DEF MapInit, MapTypeOK
<1>4. QED BY <1>2, <1>3 DEF MapInit, Inv, Nonempty, IndexOK, Chained

LEMMA ReadLineInv == Inv /\ ReadLine => Inv'
<1> SUFFICES ASSUME Inv, ReadLine PROVE Inv'
  OBVIOUS
<1> USE DEF Inv
<1> DEFINE l == file[next]
           r == [base |-> l.base, end |-> EndOf(l), backend |-> l.backend]
<1>1. l \in Line
  BY DEF MapTypeOK, ReadLine
<1>2. CASE Abort
  BY <1>2 DEF Abort, MapTypeOK, Nonempty, IndexOK, Chained, ReadLine
<1>3. CASE Valid(l) /\ ranges' = Append(ranges, r) /\ next' = next + 1
           /\ UNCHANGED <<loader, file, i>>
  <2>1. r \in MemRange /\ r.base < r.end
    BY <1>1, <1>3, KeptRange
  <2> HIDE DEF r
  <2>2. ranges' \in Seq(MemRange) /\ Len(ranges') = Len(ranges) + 1
        /\ \A k \in 1 .. Len(ranges) + 1 :
              ranges'[k] = IF k = Len(ranges) + 1 THEN r ELSE ranges[k]
    BY <1>3, <2>1 DEF MapTypeOK
  <2>3. MapTypeOK'
    BY <1>3, <2>2 DEF MapTypeOK, ReadLine
  <2>4. Nonempty'
    <3>1. DOMAIN ranges' = 1 .. Len(ranges) + 1 /\ DOMAIN ranges = 1 .. Len(ranges)
          /\ Len(ranges) \in Nat
      BY <2>2 DEF MapTypeOK
    <3>2. SUFFICES ASSUME NEW k \in 1 .. Len(ranges) + 1
                   PROVE  ranges'[k].base < ranges'[k].end
      BY <3>1 DEF Nonempty
    <3>3. CASE k = Len(ranges) + 1
      <4>1. ranges'[k] = r
        BY <2>2, <3>1, <3>3
      <4>2. QED BY <2>1, <4>1
    <3>4. CASE k # Len(ranges) + 1
      <4>1. k \in 1 .. Len(ranges)
        BY <3>1, <3>2, <3>4
      <4>2. QED BY <2>2, <3>1, <4>1 DEF Nonempty
    <3>5. QED BY <3>3, <3>4
  <2>5. (IndexOK /\ Chained)'
    BY <1>3 DEF IndexOK, Chained, ReadLine
  <2>6. QED BY <2>3, <2>4, <2>5
<1>4. QED BY <1>2, <1>3 DEF ReadLine

\* A permutation keeps the ranges' type and their being non-empty; the chain
\* starts over with one range.
LEMMA SortInv == Inv /\ Sort => Inv'
<1> SUFFICES ASSUME Inv, Sort PROVE Inv'
  OBVIOUS
<1> USE DEF Inv
<1>1. PICK p \in [DOMAIN ranges -> DOMAIN ranges] :
        ranges' = [k \in DOMAIN ranges |-> ranges[p[k]]]
  BY DEF Sort
<1>2. DOMAIN ranges = 1 .. Len(ranges) /\ Len(ranges) \in Nat
  BY DEF MapTypeOK
<1>3. ranges' \in Seq(MemRange) /\ DOMAIN ranges' = DOMAIN ranges
  BY <1>1, <1>2 DEF MapTypeOK
<1>4. MapTypeOK'
  BY <1>3 DEF MapTypeOK, Sort
<1>5. Nonempty'
  BY <1>1, <1>3 DEF Nonempty
<1>6. i' = 1 /\ loader' = "check"
  BY DEF Sort, IndexOK
<1>7. (IndexOK /\ Chained)'
  BY <1>2, <1>3, <1>6 DEF IndexOK, Chained
<1>8. QED BY <1>4, <1>5, <1>7

\* The next range follows the last one of the chain, hence all of them.
LEMMA CheckNextInv == Inv /\ CheckNext => Inv'
<1> SUFFICES ASSUME Inv, CheckNext PROVE Inv'
  OBVIOUS
<1> USE DEF Inv
<1>1. CASE Abort
  BY <1>1 DEF Abort, MapTypeOK, Nonempty, IndexOK, Chained, CheckNext
<1>2. CASE ~Overlap(ranges[i], ranges[i + 1]) /\ i' = i + 1
           /\ UNCHANGED <<loader, file, next, ranges>>
  <2>1. MapTypeOK' /\ Nonempty' /\ IndexOK'
    <3>1. MapTypeOK'
      BY <1>2 DEF MapTypeOK, CheckNext
    <3>2. Nonempty'
      BY <1>2 DEF Nonempty
    <3>3. IndexOK'
      BY <1>2 DEF IndexOK, CheckNext
    <3>4. QED BY <3>1, <3>2, <3>3
  <2>2. i \in DOMAIN ranges /\ i + 1 \in DOMAIN ranges /\ i \in Nat
        /\ DOMAIN ranges \subseteq Nat
    BY DEF CheckNext, MapTypeOK
  <2>3. \A k \in DOMAIN ranges : ranges[k].base \in Int /\ ranges[k].end \in Int
    <3>1. \A k \in DOMAIN ranges : ranges[k] \in MemRange
      BY DEF MapTypeOK
    <3>2. Address \subseteq Int
      BY DEF Address
    <3>3. QED BY <3>1, <3>2 DEF MemRange
  <2>4. ranges[i].end <= ranges[i + 1].base
    BY <1>2, <2>2, <2>3 DEF Overlap
  <2>5. ASSUME NEW j \in DOMAIN ranges, j < i + 1
        PROVE  ranges[j].end <= ranges[i + 1].base
    <3>1. CASE j = i
      BY <2>4, <3>1
    <3>2. CASE j < i
      <4>1. ranges[j].end <= ranges[i].base
        BY <2>2, <3>2 DEF Chained, CheckNext
      <4>2. ranges[i].base < ranges[i].end
        BY <2>2 DEF Nonempty
      <4>3. QED BY <2>2, <2>3, <2>4, <4>1, <4>2
    <3>3. QED BY <2>2, <2>5, <3>1, <3>2
  <2>6. Chained'
    <3>1. SUFFICES ASSUME NEW j \in DOMAIN ranges, NEW k \in DOMAIN ranges,
                          j < k, k <= i + 1
                   PROVE  ranges[j].end <= ranges[k].base
      BY <1>2 DEF Chained
    <3>2. CASE k = i + 1
      BY <2>2, <2>5, <3>1, <3>2
    <3>3. CASE k <= i
      BY <3>1, <3>3 DEF Chained, CheckNext
    <3>4. QED BY <2>2, <3>1, <3>2, <3>3
  <2>7. QED BY <2>1, <2>6
<1>3. QED BY <1>1, <1>2 DEF CheckNext

LEMMA NextInv == Inv /\ [MapNext]_mapVars => Inv'
<1> SUFFICES ASSUME Inv, [MapNext]_mapVars PROVE Inv'
  OBVIOUS
<1>1. CASE Loaded
  BY <1>1 DEF Inv, Loaded, MapTypeOK, Nonempty, IndexOK, Chained
<1>2. CASE UNCHANGED mapVars
  BY <1>2 DEF Inv, mapVars, MapTypeOK, Nonempty, IndexOK, Chained
<1>3. QED
  BY <1>1, <1>2, ReadLineInv, SortInv, CheckNextInv DEF MapNext

LEMMA Invariance == MapSpec => []Inv
  BY InitInv, NextInv, PTL DEF MapSpec

\* Types: reads of the file and of the sorted vector stay inside them, and the
\* ends computed modulo Top are addresses.
THEOREM MapTypeCorrect == MapSpec => []MapTypeOK
<1>1. Inv => MapTypeOK
  BY DEF Inv
<1>2. QED BY <1>1, Invariance, PTL

\* Comparing neighbours is enough: no two ranges of a loaded map overlap.
THEOREM DisjointCorrect == MapSpec => []Disjoint
<1>1. Inv => Disjoint
  <2>1. SUFFICES ASSUME Inv, loader = "ready",
                        NEW j \in DOMAIN ranges, NEW k \in DOMAIN ranges, j < k
                 PROVE  ranges[j].end <= ranges[k].base
    BY DEF Disjoint
  <2>2. k <= Len(ranges) /\ i >= Len(ranges) /\ k \in Int /\ i \in Int
        /\ Len(ranges) \in Int
    BY <2>1 DEF Inv, IndexOK, MapTypeOK
  <2>3. QED BY <2>1, <2>2 DEF Inv, Chained
<1>2. QED BY <1>1, Invariance, PTL

\* In a loaded map at most one range holds an address: "the first match" of
\* resolve_mem_backend is the only one.
THEOREM OneMatch ==
    MapSpec => [](loader = "ready" =>
                 \A a \in Address : \A j, k \in DOMAIN ranges :
                    InRange(ranges[j], a) /\ InRange(ranges[k], a) => j = k)
<1>1. ASSUME Inv, Disjoint, loader = "ready", NEW a \in Address,
             NEW j \in DOMAIN ranges, NEW k \in DOMAIN ranges,
             InRange(ranges[j], a), InRange(ranges[k], a)
      PROVE  j = k
  <2>1. a \in Int /\ j \in Int /\ k \in Int
        /\ ranges[j] \in MemRange /\ ranges[k] \in MemRange
    BY <1>1 DEF Inv, MapTypeOK, Address
  <2>2. ~(j < k)
    BY <1>1, <2>1 DEF Disjoint, InRange, MemRange, Address
  <2>3. ~(k < j)
    BY <1>1, <2>1 DEF Disjoint, InRange, MemRange, Address
  <2>4. QED BY <2>1, <2>2, <2>3
<1>2. Inv /\ Disjoint => (loader = "ready" =>
        \A a \in Address : \A j, k \in DOMAIN ranges :
            InRange(ranges[j], a) /\ InRange(ranges[k], a) => j = k)
  BY <1>1
<1>3. QED BY <1>2, Invariance, DisjointCorrect, PTL

-----------------------------------------------------------------------------
(***************************************************************************)
(* From the ranges back to the file.  The loader forgets which line a range *)
(* came from; Origin recovers it: while the file is read the k-th range is *)
(* that of the k-th line, and after the sort that of the line a            *)
(* permutation names.  With it, what was proved of the ranges is carried   *)
(* to the lines as they are written.                                       *)
(***************************************************************************)
Kept(l) == [base |-> l.base, end |-> EndOf(l), backend |-> l.backend]

\* The lines read so far are valid, and the ranges are theirs in file order.
OriginLoad ==
    loader = "load" =>
        /\ Len(ranges) = next - 1
        /\ \A k \in DOMAIN ranges : Valid(file[k]) /\ ranges[k] = Kept(file[k])

\* The sorted ranges are those of all lines, each of one line.
OriginSorted ==
    loader \in {"check", "ready"} =>
        /\ \A k \in DOMAIN file : Valid(file[k])
        /\ \E p \in [DOMAIN ranges -> DOMAIN file] :
             /\ \A k \in DOMAIN file : \E j \in DOMAIN ranges : p[j] = k
             /\ \A j, k \in DOMAIN ranges : j # k => p[j] # p[k]
             /\ \A k \in DOMAIN ranges : ranges[k] = Kept(file[p[k]])

Sorted ==
    loader \in {"check", "ready"} =>
        \A j, k \in DOMAIN ranges : j < k => ~Before(ranges[k], ranges[j])

Refused == loader = "aborted" => ~Acceptable

FileInv == OriginLoad /\ OriginSorted /\ Sorted /\ Refused

LEMMA WrapsOnce ==
    ASSUME NEW n \in Nat \ {0}, NEW x \in Nat, n <= x, x < 2 * n
    PROVE  x % n = x - n
<1> DEFINE q == x \div n
           r == x % n
<1>1. q \in Int /\ r \in Int /\ x = n * q + r /\ 0 <= r /\ r < n
  OBVIOUS
<1> HIDE DEF q, r
<1>2. q = 1
  <2>1. n * q > 0 /\ n * q < 2 * n
    BY <1>1
  <2>2. q > 0
    BY <1>1, <2>1
  <2>3. q < 2
    BY <1>1, <2>1
  <2>4. QED BY <1>1, <2>2, <2>3
<1>3. r = x - n
  BY <1>1, <1>2
<1>4. QED BY <1>3 DEF r

\* A valid line's end is its base plus its size: the sum did not wrap around.  So
\* its range holds the addresses it claims.
LEMMA ValidLine ==
    ASSUME NEW l \in Line
    PROVE  /\ Valid(l) <=> l.parses /\ l.size # 0 /\ l.base + l.size < Top
           /\ Valid(l) => /\ EndOf(l) = l.base + l.size
                          /\ \A a \in Address : InRange(Kept(l), a) <=> a \in Claimed(l)
<1>1. l.base \in 0 .. Top - 1 /\ l.size \in 0 .. Top - 1 /\ Top \in Nat \ {0}
  BY DEF Line, Address
<1>2. CASE l.base + l.size < Top
  <2>1. EndOf(l) = l.base + l.size
    BY <1>1, <1>2 DEF EndOf
  <2>2. \A a \in Address : InRange(Kept(l), a) <=> a \in Claimed(l)
    BY <1>1, <2>1 DEF InRange, Kept, Claimed, Address
  <2>3. QED BY <1>1, <1>2, <2>1, <2>2 DEF Valid
<1>3. CASE ~(l.base + l.size < Top)
  <2>1. EndOf(l) = l.base + l.size - Top
    BY <1>1, <1>3, WrapsOnce DEF EndOf
  <2>2. ~(EndOf(l) > l.base)
    BY <1>1, <2>1
  <2>3. QED BY <1>3, <2>2 DEF Valid
<1>4. QED BY <1>2, <1>3

\* The sort's permutation is injective: it is onto a finite set from itself.
LEMMA PermutationInjective ==
    ASSUME NEW n \in Nat, NEW p \in [1 .. n -> 1 .. n],
           \A k \in 1 .. n : \E j \in 1 .. n : p[j] = k
    PROVE  \A j, k \in 1 .. n : j # k => p[j] # p[k]
<1>1. IsFiniteSet(1 .. n)
  BY FS_Interval
<1>2. p \in Surjection(1 .. n, 1 .. n)
  BY Fun_IsSurj
<1>3. p \in Injection(1 .. n, 1 .. n)
  BY <1>1, <1>2, FS_SurjSameCardinalityImpliesInj
<1>4. QED BY <1>3 DEF Injection, IsInjective

LEMMA FileInit == MapInit => FileInv
  BY DEF MapInit, FileInv, OriginLoad, OriginSorted, Sorted, Refused

LEMMA FileReadLine == Inv /\ FileInv /\ ReadLine => FileInv'
<1> SUFFICES ASSUME Inv, FileInv, ReadLine PROVE FileInv'
  OBVIOUS
<1> DEFINE l == file[next]
<1>1. l \in Line /\ next \in DOMAIN file
  BY DEF Inv, MapTypeOK, ReadLine
<1>2. CASE ~Valid(l) /\ Abort
  <2>1. ~Acceptable
    BY <1>1, <1>2, ValidLine DEF Acceptable
  <2>2. ~Acceptable'
    BY <1>2, <2>1 DEF Abort, Acceptable
  <2>3. QED BY <1>2, <2>2 DEF FileInv, OriginLoad, OriginSorted, Sorted, Refused, Abort
<1>3. CASE Valid(l) /\ ranges' = Append(ranges, Kept(l)) /\ next' = next + 1
           /\ UNCHANGED <<loader, file, i>>
  <2>1. loader = "load" /\ Len(ranges) = next - 1
    BY DEF ReadLine, FileInv, OriginLoad
  <2>2. Len(ranges') = Len(ranges) + 1 /\ DOMAIN ranges' = 1 .. Len(ranges) + 1
        /\ Len(ranges) \in Nat /\ DOMAIN ranges = 1 .. Len(ranges)
        /\ ranges'[Len(ranges) + 1] = Kept(l)
        /\ \A k \in 1 .. Len(ranges) : ranges'[k] = ranges[k]
    <3> HIDE DEF l
    <3> QED BY <1>3 DEF Inv, MapTypeOK
  <2>3. ASSUME NEW k \in 1 .. Len(ranges) + 1
        PROVE  Valid(file[k]) /\ ranges'[k] = Kept(file[k])
    <3>1. CASE k = Len(ranges) + 1
      <4>1. k = next
        BY <2>1, <3>1 DEF Inv, MapTypeOK
      <4>2. QED BY <1>3, <2>2, <3>1, <4>1
    <3>2. CASE k # Len(ranges) + 1
      <4>1. k \in 1 .. Len(ranges)
        BY <2>2, <3>2
      <4>2. QED BY <2>1, <2>2, <4>1 DEF FileInv, OriginLoad
    <3>3. QED BY <3>1, <3>2
  <2>4. OriginLoad'
    BY <1>3, <2>1, <2>2, <2>3 DEF OriginLoad, Inv, MapTypeOK
  <2>5. QED BY <1>3, <2>1, <2>4 DEF FileInv, OriginSorted, Sorted, Refused
<1>4. QED BY <1>2, <1>3 DEF ReadLine, Kept

LEMMA FileSort == Inv /\ FileInv /\ Sort => FileInv'
<1> SUFFICES ASSUME Inv, FileInv, Sort PROVE FileInv'
  OBVIOUS
<1>1. PICK p \in [DOMAIN ranges -> DOMAIN ranges] :
        /\ Range(p) = DOMAIN ranges
        /\ \A j, k \in DOMAIN ranges : j < k => ~Before(ranges[p[k]], ranges[p[j]])
        /\ ranges' = [k \in DOMAIN ranges |-> ranges[p[k]]]
  BY DEF Sort
<1>2. Len(ranges) \in Nat /\ DOMAIN ranges = 1 .. Len(ranges) /\ DOMAIN file = 1 .. Len(file)
  BY DEF Inv, MapTypeOK
<1>3. loader = "load" /\ loader' = "check" /\ file' = file
  BY DEF Sort
<1>4. DOMAIN ranges = DOMAIN file
  <2>1. next > Len(file) /\ next \in 1 .. Len(file) + 1 /\ Len(file) \in Nat
    BY DEF Sort, Inv, MapTypeOK
  <2>2. Len(ranges) = next - 1
    BY <1>3 DEF FileInv, OriginLoad
  <2>3. Len(ranges) = Len(file)
    BY <2>1, <2>2
  <2>4. QED BY <1>2, <2>3
<1>5. \A k \in DOMAIN ranges : \E j \in DOMAIN ranges : p[j] = k
  BY <1>1 DEF Range
<1>6. \A j, k \in DOMAIN ranges : j # k => p[j] # p[k]
  <2> DEFINE n == Len(ranges)
  <2>1. n \in Nat /\ p \in [1 .. n -> 1 .. n] /\ \A k \in 1 .. n : \E j \in 1 .. n : p[j] = k
    BY <1>2, <1>5
  <2> HIDE DEF n
  <2>2. \A j, k \in 1 .. n : j # k => p[j] # p[k]
    BY <2>1, PermutationInjective
  <2>3. QED BY <1>2, <2>2 DEF n
<1>7. \A k \in DOMAIN ranges : Valid(file[k]) /\ ranges[k] = Kept(file[k])
  BY <1>3 DEF FileInv, OriginLoad
<1>8. DOMAIN ranges' = DOMAIN ranges
      /\ \A k \in DOMAIN ranges : ranges'[k] = Kept(file[p[k]])
  BY <1>1, <1>7
<1>9. OriginSorted'
  <2>1. p \in [DOMAIN ranges' -> DOMAIN file']
    BY <1>3, <1>4, <1>8
  <2>2. QED BY <2>1, <1>3, <1>4, <1>5, <1>6, <1>7, <1>8 DEF OriginSorted
<1>10. Sorted'
  BY <1>1 DEF Sorted
<1>11. QED BY <1>3, <1>9, <1>10 DEF FileInv, OriginLoad, Refused

\* Two neighbours that overlap are the ranges of two lines that claim the later
\* one's first address: the order of the sort is needed here.
LEMMA FileCheckNext == Inv /\ FileInv /\ CheckNext => FileInv'
<1> SUFFICES ASSUME Inv, FileInv, CheckNext PROVE FileInv'
  OBVIOUS
<1>1. CASE Overlap(ranges[i], ranges[i + 1]) /\ Abort
  <2>1. i \in DOMAIN ranges /\ i + 1 \in DOMAIN ranges /\ i < i + 1 /\ i # i + 1
    BY DEF Inv, MapTypeOK, CheckNext
  <2>2. PICK p \in [DOMAIN ranges -> DOMAIN file] :
          /\ \A j, k \in DOMAIN ranges : j # k => p[j] # p[k]
          /\ \A k \in DOMAIN ranges : ranges[k] = Kept(file[p[k]])
    BY DEF CheckNext, FileInv, OriginSorted
  <2>3. p[i] \in DOMAIN file /\ p[i + 1] \in DOMAIN file /\ p[i] # p[i + 1]
    BY <2>1, <2>2
  <2>4. file[p[i]] \in Line /\ file[p[i + 1]] \in Line
        /\ Valid(file[p[i]]) /\ Valid(file[p[i + 1]])
    <3>1. file \in Seq(Line)
      BY DEF Inv, MapTypeOK
    <3>2. \A k \in DOMAIN file : Valid(file[k])
      BY DEF CheckNext, FileInv, OriginSorted
    <3>3. QED BY <2>3, <3>1, <3>2
  <2>5. ~Before(ranges[i + 1], ranges[i])
    BY <2>1 DEF CheckNext, FileInv, Sorted
  <2> DEFINE l == file[p[i]]
             m == file[p[i + 1]]
  <2>6. ranges[i] = Kept(l) /\ ranges[i + 1] = Kept(m)
    BY <2>1, <2>2
  <2> HIDE DEF l, m
  <2>7. l \in Line /\ m \in Line /\ Valid(l) /\ Valid(m)
    BY <2>4 DEF l, m
  <2>8. l.base \in Nat /\ m.base \in Nat /\ l.size \in Nat /\ m.size \in Nat
        /\ EndOf(l) = l.base + l.size /\ EndOf(m) = m.base + m.size /\ m.size # 0
    BY <2>7, ValidLine DEF Line, Address, Valid
  <2>9. l.base <= m.base /\ m.base < l.base + l.size
    BY <1>1, <2>5, <2>6, <2>8 DEF Before, Overlap, Kept
  <2>10. m.base \in Claimed(l) \cap Claimed(m)
    BY <2>8, <2>9 DEF Claimed
  <2>11. ~Acceptable
    BY <2>3, <2>10 DEF Acceptable, l, m
  <2>12. ~Acceptable'
    BY <1>1, <2>11 DEF Abort, Acceptable
  <2>13. QED
    BY <1>1, <2>12 DEF FileInv, OriginLoad, OriginSorted, Sorted, Refused, Abort
<1>2. CASE UNCHANGED <<loader, file, next, ranges>>
  BY <1>2 DEF FileInv, OriginLoad, OriginSorted, Sorted, Refused, CheckNext
<1>3. QED BY <1>1, <1>2 DEF CheckNext

LEMMA FileNext == Inv /\ FileInv /\ [MapNext]_mapVars => FileInv'
<1> SUFFICES ASSUME Inv, FileInv, [MapNext]_mapVars PROVE FileInv'
  OBVIOUS
<1>1. CASE Loaded
  <2>1. loader = "check" /\ loader' = "ready" /\ UNCHANGED <<file, next, ranges, i>>
    BY <1>1 DEF Loaded
  <2>2. OriginSorted' /\ Sorted'
    BY <2>1 DEF FileInv, OriginSorted, Sorted
  <2>3. QED BY <2>1, <2>2 DEF FileInv, OriginLoad, Refused
<1>2. CASE UNCHANGED mapVars
  BY <1>2 DEF mapVars, FileInv, OriginLoad, OriginSorted, Sorted, Refused, Acceptable
<1>3. QED
  BY <1>1, <1>2, FileReadLine, FileSort, FileCheckNext DEF MapNext

LEMMA FileInvariance == MapSpec => []FileInv
<1>1. Inv /\ FileInv /\ [MapNext]_mapVars => FileInv'
  BY FileNext
<1>2. QED BY <1>1, FileInit, Invariance, PTL DEF MapSpec

\* In a loaded map the lines of the file are valid and claim different addresses.
LEMMA ReadyAcceptable ==
    ASSUME Inv, FileInv, Disjoint, loader = "ready" PROVE Acceptable
<1>1. \A k \in DOMAIN file : file[k] \in Line /\ Valid(file[k])
  BY DEF Inv, MapTypeOK, FileInv, OriginSorted
<1>2. PICK p \in [DOMAIN ranges -> DOMAIN file] :
        /\ \A k \in DOMAIN file : \E j \in DOMAIN ranges : p[j] = k
        /\ \A k \in DOMAIN ranges : ranges[k] = Kept(file[p[k]])
  BY DEF FileInv, OriginSorted
<1>3. ASSUME NEW u \in DOMAIN ranges, NEW v \in DOMAIN ranges, u < v
      PROVE  Claimed(file[p[u]]) \cap Claimed(file[p[v]]) = {}
  <2>1. ranges[u].end <= ranges[v].base
    BY <1>3 DEF Disjoint
  <2> DEFINE l == file[p[u]]
             m == file[p[v]]
  <2>2. l \in Line /\ m \in Line /\ Valid(l) /\ Valid(m)
        /\ ranges[u] = Kept(l) /\ ranges[v] = Kept(m)
    BY <1>1, <1>2
  <2> HIDE DEF l, m
  <2>3. l.base \in Nat /\ m.base \in Nat /\ l.size \in Nat /\ m.size \in Nat
        /\ EndOf(l) = l.base + l.size
    BY <2>2, ValidLine DEF Line, Address
  <2>4. l.base + l.size <= m.base
    BY <2>1, <2>2, <2>3 DEF Kept
  <2>5. Claimed(l) \cap Claimed(m) = {}
    BY <2>3, <2>4 DEF Claimed
  <2>6. QED BY <2>5 DEF l, m
<1>4. ASSUME NEW j \in DOMAIN file, NEW k \in DOMAIN file, j # k
      PROVE  Claimed(file[j]) \cap Claimed(file[k]) = {}
  <2>1. PICK u \in DOMAIN ranges, v \in DOMAIN ranges : p[u] = j /\ p[v] = k
    BY <1>2
  <2>2. u < v \/ v < u
    BY <1>4, <2>1 DEF Inv, MapTypeOK
  <2>3. QED BY <1>3, <2>1, <2>2
<1>5. QED BY <1>1, <1>4, ValidLine DEF Acceptable

\* The loader accepts the files whose lines parse, claim something below the top
\* and claim different addresses, and aborts on all others: a base plus size that
\* wraps is always caught, and the neighbour check after the sort is neither too
\* strict nor too weak, for every file and every address width.
THEOREM AcceptsCorrect == MapSpec => []AcceptsExactly
<1>1. Inv /\ FileInv /\ Disjoint => AcceptsExactly
  BY ReadyAcceptable DEF AcceptsExactly, FileInv, Refused
<1>2. QED BY <1>1, Invariance, FileInvariance, DisjointCorrect, PTL

\* The only range that holds an address decides what is resolved.
LEMMA ResolveHit ==
    ASSUME NEW a, NEW j \in DOMAIN ranges, DOMAIN ranges \subseteq Int, InRange(ranges[j], a),
           \A k \in DOMAIN ranges : InRange(ranges[k], a) => k = j
    PROVE  Resolve(a) = ranges[j].backend
<1> DEFINE hits == {k \in DOMAIN ranges : InRange(ranges[k], a)}
<1>1. hits = {j}
  OBVIOUS
<1>2. (CHOOSE k \in hits : \A m \in hits : k <= m) = j
  BY <1>1
<1>3. QED BY <1>1, <1>2 DEF Resolve

\* An address is placed on the backend of the line that claims it, wherever the
\* line stands in the file, and on the default when no line claims it.
THEOREM ResolveCorrect == MapSpec => []ResolvesAsWritten
<1> DEFINE One == loader = "ready" =>
                 \A a \in Address : \A j, k \in DOMAIN ranges :
                    InRange(ranges[j], a) /\ InRange(ranges[k], a) => j = k
<1>1. ASSUME Inv, FileInv, One PROVE ResolvesAsWritten
  <2>1. SUFFICES ASSUME loader = "ready", NEW a \in Address
                 PROVE  /\ {k \in DOMAIN file : a \in Claimed(file[k])} = {} => Resolve(a) = Default
                        /\ \A k \in DOMAIN file :
                             a \in Claimed(file[k]) => Resolve(a) = file[k].backend
    BY DEF ResolvesAsWritten
  <2>2. PICK p \in [DOMAIN ranges -> DOMAIN file] :
          /\ \A k \in DOMAIN file : \E j \in DOMAIN ranges : p[j] = k
          /\ \A k \in DOMAIN ranges : ranges[k] = Kept(file[p[k]])
    BY <1>1, <2>1 DEF FileInv, OriginSorted
  <2>3. \A k \in DOMAIN ranges : InRange(ranges[k], a) <=> a \in Claimed(file[p[k]])
    <3>1. \A k \in DOMAIN ranges : file[p[k]] \in Line /\ Valid(file[p[k]])
      BY <1>1, <2>1 DEF FileInv, OriginSorted, Inv, MapTypeOK
    <3>2. QED BY <2>2, <3>1, ValidLine
  <2>4. ASSUME {k \in DOMAIN file : a \in Claimed(file[k])} = {}
        PROVE  Resolve(a) = Default
    <3>1. {k \in DOMAIN ranges : InRange(ranges[k], a)} = {}
      BY <2>3, <2>4
    <3>2. QED BY <3>1 DEF Resolve
  <2>5. ASSUME NEW k \in DOMAIN file, a \in Claimed(file[k])
        PROVE  Resolve(a) = file[k].backend
    <3>1. PICK j \in DOMAIN ranges : p[j] = k
      BY <2>2
    <3>2. InRange(ranges[j], a)
      BY <2>3, <2>5, <3>1
    <3>3. \A m \in DOMAIN ranges : InRange(ranges[m], a) => m = j
      BY <1>1, <2>1, <3>2
    <3>4. Resolve(a) = ranges[j].backend
      <4>1. DOMAIN ranges \subseteq Int
        BY <1>1 DEF Inv, MapTypeOK
      <4>2. QED BY <3>2, <3>3, <4>1, ResolveHit
    <3>5. QED BY <2>2, <3>1, <3>4 DEF Kept
  <2>6. QED BY <2>4, <2>5
<1>2. Inv /\ FileInv /\ One => ResolvesAsWritten
  BY <1>1
<1>3. QED BY <1>2, Invariance, FileInvariance, OneMatch, PTL

-----------------------------------------------------------------------------
(***************************************************************************)
(* The sectors of a request.  SectorPlacement builds on the map: while it  *)
(* loads the file it does what BackendMap does.                            *)
(***************************************************************************)
USE PlacementAssumption

\* SectorPlacement loads the map as BackendMap does, so the theorems above hold of it.
THEOREM LoadsMap == PlacementSpec => MapSpec
<1>1. PlacementInit => MapInit
  BY DEF PlacementInit
<1>2. [PlacementNext]_allVars => [MapNext]_mapVars
  BY DEF PlacementNext, Load, Access, Send, SendSectors, allVars
<1>3. QED BY <1>1, <1>2, PTL DEF PlacementSpec, MapSpec

LEMMA BlockIs == \A x, n : Split!Block(x, n) = x .. x + n - 1
BY DEF Split!Block

LEMMA Sectors == Split!SectorsPerLine = 4 /\ Split!Sector = 0 .. 3
BY DEF Split!SectorsPerLine, Split!Sector

\* RequestSplit counts as this module does.
LEMMA SameCount == \A S : Split!Cardinality(S) = Cardinality(S)
BY DEF Split!Cardinality, Cardinality

\* The numbers in a finite set have ranks from 0 on, and Nth finds each by its rank.
LEMMA NthOf ==
    ASSUME NEW S \in SUBSET Int, IsFiniteSet(S)
    PROVE  /\ Cardinality(S) \in Nat
           /\ \A k \in 1 .. Cardinality(S) : Split!Nth(S, k) \in S
           /\ \A x \in S : \E k \in 1 .. Cardinality(S) : Split!Nth(S, k) = x
<1> DEFINE below(x) == {j \in S : j < x}
           count(x) == Cardinality(below(x))
           rank == [x \in S |-> count(x) + 1]
<1>1. PICK n \in Nat : n = Cardinality(S)
  BY FS_CardinalityType
<1>2. ASSUME NEW x \in S PROVE IsFiniteSet(below(x)) /\ count(x) \in 0 .. n - 1
  <2>1. below(x) \in SUBSET S /\ below(x) # S
    OBVIOUS
  <2> HIDE DEF below
  <2>2. IsFiniteSet(below(x)) /\ count(x) <= n /\ count(x) # n
    BY <1>1, <2>1, FS_Subset
  <2>3. count(x) \in Nat
    BY <2>2, FS_CardinalityType
  <2> HIDE DEF count
  <2>4. QED BY <2>2, <2>3
<1>3. ASSUME NEW x \in S, NEW y \in S, x < y PROVE count(x) < count(y)
  <2>1. below(x) \in SUBSET below(y) /\ x \in below(y) /\ x \notin below(x)
    <3>1. x \in Int /\ y \in Int /\ \A j \in S : j \in Int
      OBVIOUS
    <3>2. \A j \in S : j < x => j < y
      BY <1>3, <3>1
    <3>3. ~(x < x)
      BY <3>1
    <3>4. QED BY <1>3, <3>2, <3>3
  <2>2. IsFiniteSet(below(y))
    BY <1>2
  <2> HIDE DEF below
  <2>3. below(x) # below(y)
    BY <2>1
  <2>4. count(x) <= count(y) /\ count(x) # count(y)
    BY <2>1, <2>2, <2>3, FS_Subset
  <2>5. count(x) \in 0 .. n - 1 /\ count(y) \in 0 .. n - 1
    BY <1>2
  <2> HIDE DEF count
  <2>6. QED BY <2>4, <2>5
<1>4. ASSUME NEW x \in S, NEW k \in Int, count(x) = k - 1, NEW y, y = Split!Nth(S, k)
      PROVE  y \in S /\ count(y) = k - 1
  <2>1. y = CHOOSE j \in S : Split!Cardinality({l \in S : l < j}) = k - 1
    BY <1>4 DEF Split!Nth
  <2>2. Split!Cardinality({l \in S : l < x}) = k - 1
    BY <1>4, SameCount
  <2>3. y \in S /\ Split!Cardinality({l \in S : l < y}) = k - 1
    BY <2>1, <2>2
  <2>4. QED BY <2>3, SameCount
<1>5. \A x \in S : count(x) \in 0 .. n - 1
  BY <1>2
<1>6. \A x, y \in S : x < y => count(x) < count(y)
  BY <1>3
<1> HIDE DEF count
<1>7. \A x \in S : rank[x] \in 1 .. n /\ rank[x] = count(x) + 1
  BY <1>5
<1>8. rank \in [S -> 1 .. n]
  BY <1>7
<1> HIDE DEF rank
<1>9. \A x, y \in S : rank[x] = rank[y] => x = y
  BY <1>5, <1>6, <1>7
<1>10. rank \in Injection(S, 1 .. n)
  BY <1>8, <1>9 DEF Injection, IsInjective
<1>11. IsFiniteSet(1 .. n) /\ Cardinality(1 .. n) = n
  BY FS_Interval
<1>12. rank \in Surjection(S, 1 .. n)
  BY <1>1, <1>10, <1>11, FS_Injection
<1>13. \A k \in 1 .. n : \E x \in S : rank[x] = k
  BY <1>12 DEF Surjection
<1>14. ASSUME NEW k \in 1 .. n PROVE Split!Nth(S, k) \in S /\ rank[Split!Nth(S, k)] = k
  <2>1. PICK x \in S : rank[x] = k
    BY <1>13
  <2>2. count(x) = k - 1
    BY <1>5, <1>7, <2>1
  <2>3. PICK y : y = Split!Nth(S, k)
    OBVIOUS
  <2>4. y \in S /\ count(y) = k - 1
    BY <1>4, <2>2, <2>3
  <2>5. rank[y] = k
    BY <1>7, <2>4
  <2>6. QED BY <2>3, <2>4, <2>5
<1>15. ASSUME NEW x \in S PROVE \E k \in 1 .. n : Split!Nth(S, k) = x
  <2>1. rank[x] \in 1 .. n
    BY <1>7
  <2>2. Split!Nth(S, rank[x]) = x
    BY <1>9, <1>14, <2>1
  <2>3. QED BY <2>1, <2>2
<1>16. QED BY <1>1, <1>14, <1>15

\* What some sector requests ask for, and where.
Masks(q) == UNION {q[k].mask : k \in DOMAIN q}
Addrs(q) == {q[k].addr : k \in DOMAIN q}

\* One request for each sector of S.
LEMMA SplitsInto ==
    ASSUME NEW S \in SUBSET Split!Sector, NEW base \in Nat, NEW step \in {0, 1},
           NEW q, q = Split!SplitInto(S, base, step)
    PROVE  Len(q) = Cardinality(S) /\ Masks(q) = S /\ Addrs(q) \subseteq base .. base + 3 * step
<1>1. S \in SUBSET Int /\ IsFiniteSet(S)
  <2>1. Split!Sector = 0 .. 3
    BY Sectors
  <2>2. PICK l \in Int, h \in Int : l = 0 /\ h = 3
    OBVIOUS
  <2>3. IsFiniteSet(l .. h) /\ S \in SUBSET (l .. h)
    BY <2>1, <2>2, FS_Interval
  <2>4. IsFiniteSet(S)
    BY <2>3, FS_Subset
  <2>5. QED BY <2>1, <2>4
<1>2. PICK n \in Nat : n = Cardinality(S)
  BY <1>1, NthOf
<1>3. /\ \A k \in 1 .. n : Split!Nth(S, k) \in S
      /\ \A x \in S : \E k \in 1 .. n : Split!Nth(S, k) = x
  BY <1>1, <1>2, NthOf
<1>4. q = [k \in 1 .. n |-> Split!SectorRequest(base + step * Split!Nth(S, k), Split!Nth(S, k))]
  BY <1>2, SameCount DEF Split!SplitInto
<1>5. DOMAIN q = 1 .. n /\ Len(q) = n
  BY <1>4
<1>6. \A k \in 1 .. n : q[k].mask = {Split!Nth(S, k)} /\ q[k].addr = base + step * Split!Nth(S, k)
  BY <1>4 DEF Split!SectorRequest
<1>7. Masks(q) = S
  BY <1>3, <1>5, <1>6 DEF Masks
<1>8. ASSUME NEW k \in 1 .. n PROVE q[k].addr \in base .. base + 3 * step
  <2>1. PICK x \in 0 .. 3 : q[k].addr = base + step * x
    BY <1>3, <1>6, Sectors
  <2>2. CASE step = 0
    BY <2>1, <2>2
  <2>3. CASE step = 1
    BY <2>1, <2>3
  <2>4. QED BY <2>2, <2>3
<1>9. QED BY <1>2, <1>5, <1>7, <1>8 DEF Addrs

-----------------------------------------------------------------------------
(* The requests *)

\* A block of n sectors, from the x-th of the line on, with all that the warp touches.
Covers(x, n) ==
    /\ n \in {1, 2, 4} /\ x \in 0 .. 4 - n /\ x % n = 0
    /\ chunks \subseteq x .. x + n - 1

\* A miss of the level-1 data cache asks for the line, the coalescer for a block
\* no larger than its segment, a miss of the constant cache for a half without a mask.
RequestOf(r) ==
    \/ r = [addr |-> line * 4, size |-> 4, mask |-> chunks]
    \/ \E x, n : Covers(x, n) /\ n <= segment /\ r = [addr |-> line * 4 + x, size |-> n, mask |-> chunks]
    \/ \E x : Covers(x, 2) /\ r = [addr |-> line * 4 + x, size |-> 2, mask |-> {}]

\* Place, with any ranges.
PlacedIn(rs, a) ==
    LET hits == {k \in DOMAIN rs : InRange(rs[k], a \div Unit)} IN
    IF hits = {} THEN Default
    ELSE rs[CHOOSE k \in hits : \A j \in hits : k <= j].backend

AccessOK ==
    /\ line \in Nat /\ segment \in {1, 2, 4} /\ chunks # {}
    /\ \E x : Covers(x, segment)

\* Requests are made once the map is loaded and placed where they are made; the
\* sectors are those of the request.
SectorInv ==
    /\ stage \in {"idle", "access", "request", "sectors"}
    /\ stage # "idle" => loader = "ready" /\ AccessOK
    /\ stage \in {"request", "sectors"} => RequestOf(req) /\ placed = PlacedIn(ranges, req.addr)
    /\ IF stage = "sectors"
         THEN /\ out = Split!Breakdown(req)
              /\ sectors = [k \in DOMAIN out |->
                               IF placed # "UNSPECIFIED" THEN placed ELSE PlacedIn(ranges, out[k].addr)]
         ELSE out = <<>> /\ sectors = <<>>

LEMMA PlaceIs == \A a : Place(a) = PlacedIn(ranges, a)
BY DEF Place, Resolve, PlacedIn

\* Halving keeps what the warp touches.
LEMMA HalfCovers ==
    ASSUME NEW b, NEW x, NEW n, b = [x |-> x, n |-> n], Covers(x, n), NEW h, h = Split!Half(b)
    PROVE  Covers(h.x, h.n) /\ h = [x |-> h.x, n |-> h.n] /\ h.n <= n
<1>1. n \in {1, 2, 4} /\ x \in 0 .. 4 - n /\ x % n = 0 /\ chunks \subseteq x .. x + n - 1
  BY DEF Covers
<1>2. b.x = x /\ b.n = n
  OBVIOUS
<1>3. PICK m \in {0, 1, 2} : m = n \div 2 /\ (n > 1 => n = 2 * m)
  BY <1>1
<1>4. CASE n > 1 /\ chunks \subseteq x .. x + m - 1
  <2>1. h = [x |-> x, n |-> m]
    BY <1>2, <1>3, <1>4, BlockIs DEF Split!Half
  <2>2. Covers(x, m)
    BY <1>1, <1>3, <1>4 DEF Covers
  <2>3. QED BY <1>3, <1>4, <2>1, <2>2
<1>5. CASE n > 1 /\ ~(chunks \subseteq x .. x + m - 1) /\ chunks \cap (x .. x + m - 1) = {}
  <2>1. h = [x |-> x + m, n |-> m]
    BY <1>2, <1>3, <1>5, BlockIs DEF Split!Half
  <2>2. chunks \subseteq x + m .. x + m + m - 1
    BY <1>1, <1>3, <1>5
  <2>3. Covers(x + m, m)
    BY <1>1, <1>3, <1>5, <2>2 DEF Covers
  <2>4. QED BY <1>3, <1>5, <2>1, <2>3
<1>6. CASE ~(n > 1 /\ chunks \subseteq x .. x + m - 1)
           /\ ~(n > 1 /\ chunks \cap (x .. x + m - 1) = {})
  <2>1. h = b
    BY <1>2, <1>3, <1>6, BlockIs DEF Split!Half
  <2>2. QED BY <1>1, <2>1
<1>7. QED BY <1>4, <1>5, <1>6

\* The coalescer finds the segment's first sector from any of those touched.
LEMMA StartCovers ==
    ASSUME AccessOK
    PROVE  Covers(Split!SegmentStart, segment)
<1>1. PICK x : Covers(x, segment)
  BY DEF AccessOK
<1>2. PICK c \in chunks : Split!SegmentStart = segment * (c \div segment)
  BY DEF AccessOK, Split!SegmentStart
<1>3. /\ segment \in {1, 2, 4} /\ x \in 0 .. 4 - segment /\ x % segment = 0
      /\ c \in x .. x + segment - 1
  BY <1>1, <1>2 DEF Covers
<1>4. segment * (c \div segment) = x
  <2>1. CASE segment = 1
    BY <1>3, <2>1
  <2>2. CASE segment = 2
    BY <1>3, <2>2
  <2>3. CASE segment = 4
    BY <1>3, <2>3
  <2>4. QED BY <1>3, <2>1, <2>2, <2>3
<1>5. QED BY <1>1, <1>2, <1>4

\* What the sub partition makes of a request.
LEMMA BreaksDown ==
    ASSUME AccessOK, NEW r, RequestOf(r), NEW q, q = Split!Breakdown(r)
    PROVE  /\ r.addr \in line * 4 .. line * 4 + 3
           /\ chunks \subseteq Masks(q) /\ Cardinality(Masks(q)) = Len(q)
           /\ segment = 1 => Addrs(q) \subseteq line * 4 .. line * 4 + 3
<1>1. line \in Nat /\ segment \in {1, 2, 4} /\ chunks # {} /\ line * 4 \in Nat
  BY DEF AccessOK
<1>2. chunks \subseteq 0 .. 3
  BY DEF AccessOK, Covers
<1>3. PICK x, n, m :
        /\ r = [addr |-> line * 4 + x, size |-> n, mask |-> m]
        /\ Covers(x, n)
        /\ \/ m = chunks /\ (n = 4 \/ n <= segment)
           \/ m = {} /\ n = 2
  <2>1. CASE r = [addr |-> line * 4, size |-> 4, mask |-> chunks]
    <3>1. Covers(0, 4)
      BY <1>2 DEF Covers
    <3>2. line * 4 + 0 = line * 4
      BY <1>1
    <3>3. r = [addr |-> line * 4 + 0, size |-> 4, mask |-> chunks]
      BY <2>1, <3>2
    <3>4. QED BY <3>1, <3>3
  <2>2. QED BY <2>1 DEF RequestOf
<1>4. r.addr = line * 4 + x /\ r.size = n /\ r.mask = m
  BY <1>3
<1>5. n \in {1, 2, 4} /\ x \in 0 .. 4 - n /\ x % n = 0 /\ chunks \subseteq x .. x + n - 1
  BY <1>3 DEF Covers
<1>6. r.addr \in Nat /\ r.addr \in line * 4 .. line * 4 + 3
  BY <1>1, <1>4, <1>5
<1>7. ASSUME NEW S \in SUBSET (0 .. 3), NEW step \in {0, 1}, q = Split!SplitInto(S, r.addr, step)
      PROVE  Len(q) = Cardinality(S) /\ Masks(q) = S /\ Addrs(q) \subseteq r.addr .. r.addr + 3 * step
  BY <1>6, <1>7, Sectors, SplitsInto
<1>8. CASE n = 1
  <2>1. m = {x} /\ chunks = {x}
    <3>1. chunks \subseteq {x}
      BY <1>5, <1>8
    <3>2. QED BY <1>1, <1>3, <1>8, <3>1
  <2>2. Cardinality({x}) = 1
    BY FS_Singleton
  <2>3. q = <<r>>
    BY <1>4, <1>8, <2>1, <2>2, SameCount DEF Split!Breakdown
  <2>4. DOMAIN q = {1} /\ Len(q) = 1 /\ q[1] = r
    BY <2>3
  <2>5. Masks(q) = {x} /\ Addrs(q) = {r.addr}
    BY <1>4, <2>1, <2>4 DEF Masks, Addrs
  <2>6. QED BY <1>6, <2>1, <2>2, <2>4, <2>5
<1>9. CASE n = 4
  <2>1. q = Split!SplitInto(0 .. 3, r.addr, 1)
    BY <1>4, <1>9, Sectors DEF Split!Breakdown
  <2>2. /\ Len(q) = Cardinality(0 .. 3) /\ Masks(q) = 0 .. 3
        /\ Addrs(q) \subseteq r.addr .. r.addr + 3 * 1
    BY <1>7, <2>1
  <2>3. r.addr = line * 4
    BY <1>1, <1>4, <1>5, <1>9
  <2>4. QED BY <1>1, <1>2, <1>6, <2>2, <2>3
<1>10. CASE n = 2 /\ m = {}
  <2>1. r.addr % 4 = x /\ x \in {0, 2}
    BY <1>1, <1>4, <1>5, <1>10
  <2>2. q = Split!SplitInto(x .. x + 1, r.addr, 0)
    <3>1. Split!Block(IF r.addr % 4 = 0 THEN 0 ELSE 2, 2) = x .. x + 1
      BY <2>1, BlockIs
    <3>2. QED BY <1>4, <1>10, <3>1, Sectors DEF Split!Breakdown
  <2>3. x .. x + 1 \in SUBSET (0 .. 3)
    BY <2>1
  <2>4. /\ Len(q) = Cardinality(x .. x + 1) /\ Masks(q) = x .. x + 1
        /\ Addrs(q) \subseteq r.addr .. r.addr + 3 * 0
    BY <1>7, <2>2, <2>3
  <2>5. Addrs(q) \subseteq line * 4 .. line * 4 + 3
    BY <1>1, <1>6, <2>4
  <2>6. chunks \subseteq x .. x + 1
    BY <1>5, <1>10
  <2>7. QED BY <1>6, <2>4, <2>5, <2>6
<1>11. CASE n = 2 /\ m = chunks
  <2>1. chunks # {} /\ chunks # 0 .. 3 /\ segment # 1
    <3>1. ~(0 \in chunks /\ 3 \in chunks)
      BY <1>5, <1>11
    <3>2. chunks # {} /\ chunks # 0 .. 3
      BY <1>1, <3>1
    <3>3. QED BY <1>1, <1>3, <1>11, <3>2
  <2>2. q = Split!SplitInto(chunks, r.addr, 1)
    BY <1>4, <1>11, <2>1, Sectors DEF Split!Breakdown
  <2>3. Len(q) = Cardinality(chunks) /\ Masks(q) = chunks
    BY <1>2, <1>7, <2>2
  <2>4. QED BY <1>6, <2>1, <2>3
<1>12. QED BY <1>3, <1>5, <1>8, <1>9, <1>10, <1>11

\* Rounding down to units keeps the order with respect to a whole number of units.
LEMMA Scaled ==
    ASSUME NEW u \in Nat, u > 0, NEW a \in Nat, NEW b \in Nat
    PROVE  b <= a \div u <=> b * u <= a
<1>1. PICK q \in Nat, d \in Nat : q = a \div u /\ a = q * u + d /\ d < u
  <2>1. a \div u \in Nat /\ a % u \in Nat /\ a = u * (a \div u) + (a % u) /\ a % u < u
    OBVIOUS
  <2>2. PICK q \in Nat, d \in Nat : q = a \div u /\ d = a % u
    BY <2>1
  <2>3. u * q = q * u
    BY <2>2
  <2>4. QED BY <2>1, <2>2, <2>3
<1>2. CASE b <= q
  <2>1. b * u <= q * u
    BY <1>2
  <2>2. b * u \in Nat /\ q * u \in Nat
    OBVIOUS
  <2>3. QED BY <1>1, <1>2, <2>1, <2>2
<1>3. CASE q + 1 <= b
  <2>1. (q + 1) * u <= b * u
    BY <1>3
  <2>2. (q + 1) * u = q * u + u
    OBVIOUS
  <2>3. b * u \in Nat /\ q * u \in Nat
    OBVIOUS
  <2>4. QED BY <1>1, <1>3, <2>1, <2>2, <2>3
<1>4. QED BY <1>2, <1>3

\* If no range divides a line, all of a line is placed alike.
LEMMA LinePlaced ==
    ASSUME ranges \in Seq(MemRange), Aligned, NEW l \in Nat, NEW a \in l * 4 .. l * 4 + 3
    PROVE  Place(a) = Place(l * 4)
<1>1. l * 4 \in Nat /\ a \in Nat /\ l * 4 <= a /\ a < l * 4 + 4
  OBVIOUS
<1>2. ASSUME NEW b \in Nat, NEW n \in Nat, b * Unit = 4 * n
      PROVE  b <= a \div Unit <=> b <= (l * 4) \div Unit
  <2>1. b * Unit <= a <=> b * Unit <= l * 4
    BY <1>1, <1>2
  <2>2. QED BY <1>1, <2>1, Scaled
<1>3. a \div Unit \in Nat /\ (l * 4) \div Unit \in Nat
  BY <1>1
<1>4. ASSUME NEW k \in DOMAIN ranges
      PROVE  InRange(ranges[k], a \div Unit) <=> InRange(ranges[k], (l * 4) \div Unit)
  <2>1. ranges[k] \in MemRange
    OBVIOUS
  <2>2. PICK b \in Nat, e \in Nat : b = ranges[k].base /\ e = ranges[k].end
    BY <2>1 DEF MemRange, Address
  <2>3. PICK m \in Nat, n \in Nat : b * Unit = 4 * m /\ e * Unit = 4 * n
    <3>1. {b * Unit, e * Unit} \subseteq {4 * m : m \in Address}
      BY <2>2, Sectors DEF Aligned
    <3>2. b * Unit \in {4 * m : m \in Address} /\ e * Unit \in {4 * m : m \in Address}
      BY <3>1
    <3>3. Address \subseteq Nat
      BY DEF Address
    <3>4. QED BY <3>2, <3>3
  <2>4. /\ b <= a \div Unit <=> b <= (l * 4) \div Unit
        /\ e <= a \div Unit <=> e <= (l * 4) \div Unit
    BY <1>2, <2>3
  <2>5. QED BY <1>3, <2>2, <2>4 DEF InRange
<1>5. ASSUME NEW c \in Nat, NEW H, H = {k \in DOMAIN ranges : InRange(ranges[k], c \div Unit)}
      PROVE  Place(c) = IF H = {} THEN Default
                        ELSE ranges[CHOOSE k \in H : \A j \in H : k <= j].backend
  BY <1>5 DEF Place, Resolve
<1>6. {k \in DOMAIN ranges : InRange(ranges[k], a \div Unit)} =
        {k \in DOMAIN ranges : InRange(ranges[k], (l * 4) \div Unit)}
  BY <1>4
<1>7. PICK H : /\ H = {k \in DOMAIN ranges : InRange(ranges[k], a \div Unit)}
               /\ H = {k \in DOMAIN ranges : InRange(ranges[k], (l * 4) \div Unit)}
  BY <1>6
<1>8. Place(a) = IF H = {} THEN Default
                 ELSE ranges[CHOOSE k \in H : \A j \in H : k <= j].backend
  BY <1>1, <1>5, <1>7
<1>9. Place(l * 4) = IF H = {} THEN Default
                     ELSE ranges[CHOOSE k \in H : \A j \in H : k <= j].backend
  BY <1>1, <1>5, <1>7
<1>10. QED BY <1>8, <1>9

LEMMA SectorInit == PlacementInit => SectorInv
BY DEF PlacementInit, Split!Init, SectorInv

LEMMA LoadSectors == ASSUME SectorInv, Load PROVE SectorInv'
<1>1. loader # "ready"
  BY DEF Load, MapNext, ReadLine, Sort, CheckNext, Loaded
<1>2. stage = "idle" /\ stage' = "idle" /\ out' = out /\ sectors' = sectors
  BY <1>1 DEF SectorInv, Load, splitVars
<1>3. QED BY <1>2 DEF SectorInv

LEMMA AccessSectors == ASSUME SectorInv, Access PROVE SectorInv'
<1>1. /\ stage' = "access" /\ loader' = "ready" /\ line' \in Nat /\ segment' \in {1, 2, 4}
      /\ out' = <<>> /\ sectors' = <<>>
  BY DEF Access, Split!Access, mapVars
<1>2. PICK x \in 0 .. 3 : x % segment' = 0 /\ chunks' \in (SUBSET (x .. x + segment' - 1)) \ {{}}
  BY Sectors, BlockIs DEF Access, Split!Access
<1>3. x \in 0 .. 4 - segment'
  <2>1. CASE segment' = 1
    BY <1>2, <2>1
  <2>2. CASE segment' = 2
    BY <1>2, <2>2
  <2>3. CASE segment' = 4
    BY <1>2, <2>3
  <2>4. QED BY <1>1, <2>1, <2>2, <2>3
<1>4. Covers(x, segment)' /\ chunks' # {}
  <2>1. PICK n \in {1, 2, 4} : n = segment'
    BY <1>1
  <2>2. x \in 0 .. 4 - n /\ x % n = 0 /\ chunks' \subseteq x .. x + n - 1 /\ chunks' # {}
    <3>1. chunks' \in (SUBSET (x .. x + segment' - 1)) \ {{}}
      BY <1>2
    <3>2. x % segment' = 0
      BY <1>2
    <3>3. chunks' \subseteq x .. x + n - 1 /\ chunks' # {}
      BY <1>3, <2>1, <3>1
    <3>4. x % n = 0
      BY <2>1, <3>2
    <3>5. QED BY <1>3, <2>1, <3>3, <3>4
  <2>3. Covers(x, n)'
    BY <2>2 DEF Covers
  <2>4. QED BY <2>1, <2>2, <2>3 DEF Covers
<1>5. AccessOK'
  BY <1>1, <1>4 DEF AccessOK
<1>6. QED BY <1>1, <1>5 DEF SectorInv

LEMMA SendSectorsOf == ASSUME SectorInv, Send PROVE SectorInv'
<1>1. /\ stage = "access" /\ stage' = "request" /\ placed' = PlacedIn(ranges, req'.addr)
      /\ UNCHANGED <<line, segment, chunks, out, sectors, loader, ranges>>
  BY PlaceIs DEF Send, Split!Send, Split!ReduceAndSend, Split!MissData, Split!MissConstant, mapVars
<1>2. loader = "ready" /\ AccessOK /\ out = <<>> /\ sectors = <<>>
  BY <1>1 DEF SectorInv
<1>3. AccessOK' /\ placed' = PlacedIn(ranges, req.addr)'
  BY <1>1, <1>2 DEF AccessOK, Covers
<1>4. RequestOf(req')
  <2>1. CASE Split!ReduceAndSend
    <3>1. PICK x : x = Split!SegmentStart
      OBVIOUS
    <3>2. PICK h : h = Split!Half([x |-> x, n |-> segment])
      OBVIOUS
    <3>3. PICK g : g = Split!Half(h)
      OBVIOUS
    <3>4. Covers(h.x, h.n) /\ h = [x |-> h.x, n |-> h.n] /\ h.n <= segment
      BY <1>2, <3>1, <3>2, StartCovers, HalfCovers
    <3>5. Covers(g.x, g.n) /\ g.n <= h.n
      BY <3>3, <3>4, HalfCovers
    <3>6. g.n <= segment
      BY <1>2, <3>4, <3>5 DEF Covers, AccessOK
    <3>7. req' = [addr |-> line * 4 + g.x, size |-> g.n, mask |-> chunks]
      BY <2>1, <3>1, <3>2, <3>3, Sectors DEF Split!ReduceAndSend
    <3>8. QED BY <3>5, <3>6, <3>7 DEF RequestOf
  <2>2. CASE Split!MissData
    BY <2>2, Sectors DEF Split!MissData, RequestOf
  <2>3. CASE Split!MissConstant
    <3>1. PICK x \in {0, 2} : /\ chunks \subseteq x .. x + 2 - 1
                              /\ req' = [addr |-> line * 4 + x, size |-> 2, mask |-> {}]
      BY <2>3, Sectors, BlockIs DEF Split!MissConstant
    <3>2. Covers(x, 2)
      BY <3>1 DEF Covers
    <3>3. QED BY <3>1, <3>2 DEF RequestOf
  <2>4. QED BY <2>1, <2>2, <2>3 DEF Send, Split!Send
<1>5. RequestOf(req)'
  BY <1>1, <1>4 DEF RequestOf, Covers
<1>6. QED BY <1>1, <1>2, <1>3, <1>5 DEF SectorInv

LEMMA SplitSectors == ASSUME SectorInv, SendSectors PROVE SectorInv'
<1>1. /\ stage = "request" /\ stage' = "sectors" /\ out' = Split!Breakdown(req)
      /\ sectors' = [k \in DOMAIN out' |->
                        IF placed # "UNSPECIFIED" THEN placed ELSE PlacedIn(ranges, out'[k].addr)]
      /\ UNCHANGED <<line, segment, chunks, req, placed, loader, ranges>>
  BY PlaceIs DEF SendSectors, Split!Split, mapVars
<1>2. loader = "ready" /\ AccessOK /\ RequestOf(req) /\ placed = PlacedIn(ranges, req.addr)
  BY <1>1 DEF SectorInv
<1>3. AccessOK' /\ RequestOf(req)' /\ placed' = PlacedIn(ranges, req.addr)'
  BY <1>1, <1>2 DEF AccessOK, RequestOf, Covers
<1>4. out' = Split!Breakdown(req)'
  BY <1>1
<1>5. QED BY <1>1, <1>2, <1>3, <1>4 DEF SectorInv

LEMMA StutterSectors == ASSUME SectorInv, UNCHANGED allVars PROVE SectorInv'
BY DEF SectorInv, AccessOK, RequestOf, Covers, allVars, mapVars, splitVars

\* Whatever the file, the memory and the segments: what the coalescer and the
\* caches send covers what the warp touched, and is placed where it was made.
THEOREM SectorInvariance == PlacementSpec => []SectorInv
<1>1. SectorInv /\ [PlacementNext]_allVars => SectorInv'
  BY LoadSectors, AccessSectors, SendSectorsOf, SplitSectors, StutterSectors DEF PlacementNext
<1>2. QED BY <1>1, SectorInit, PTL DEF PlacementSpec

\* Every sector the warp touched is asked for, and none twice.
THEOREM SectorsCorrect == PlacementSpec => []SectorsExact
<1>1. SectorInv => SectorsExact
  <2> SUFFICES ASSUME SectorInv PROVE SectorsExact
    OBVIOUS
  <2>1. Split!Asked = Masks(out)
    BY DEF Split!Asked, Masks
  <2>2. CASE stage = "sectors"
    <3>1. AccessOK /\ RequestOf(req) /\ out = Split!Breakdown(req)
      BY <2>2 DEF SectorInv
    <3>2. chunks \subseteq Masks(out) /\ Cardinality(Masks(out)) = Len(out)
      BY <3>1, BreaksDown
    <3>3. QED BY <2>1, <3>2, SameCount DEF SectorsExact, Split!SectorsExact
  <2>3. CASE stage # "sectors"
    <3>1. out = <<>>
      BY <2>3 DEF SectorInv
    <3>2. Masks(out) = {} /\ Len(out) = 0
      BY <3>1 DEF Masks
    <3>3. Cardinality(Masks(out)) = Len(out)
      BY <3>2, FS_EmptySet
    <3>4. QED BY <2>1, <2>3, <3>3, SameCount DEF SectorsExact, Split!SectorsExact
  <2>4. QED BY <2>2, <2>3
<1>2. QED BY <1>1, SectorInvariance, PTL

\* With segments of 32 bytes all sectors asked for are in the line touched.
THEOREM SmallSegmentsCorrect == PlacementSpec => []SmallSegmentsRightLine
<1>1. SectorInv => SmallSegmentsRightLine
  <2> SUFFICES ASSUME SectorInv, segment = 1, NEW k \in DOMAIN out
               PROVE  out[k].addr \div 4 = line
    BY Sectors DEF SmallSegmentsRightLine, Split!SmallSegmentsRightLine, Split!RightLine
  <2>1. stage = "sectors"
    BY DEF SectorInv
  <2>2. AccessOK /\ RequestOf(req) /\ out = Split!Breakdown(req)
    BY <2>1 DEF SectorInv
  <2>3. Addrs(out) \subseteq line * 4 .. line * 4 + 3 /\ line \in Nat
    BY <2>2, BreaksDown DEF AccessOK
  <2>4. out[k].addr \in line * 4 .. line * 4 + 3
    BY <2>3 DEF Addrs
  <2>5. QED BY <2>3, <2>4
<1>2. QED BY <1>1, SectorInvariance, PTL

\* All sectors of a line are asked of the backend its writeback will go to, if no
\* range of the map divides a line.
THEOREM LineCorrect == PlacementSpec => []LineAtOneBackend
<1>1. Inv /\ SectorInv => LineAtOneBackend
  <2> SUFFICES ASSUME Inv, SectorInv, Aligned, segment = 1 \/ placed # "UNSPECIFIED",
                      NEW k \in DOMAIN sectors
               PROVE  sectors[k] = Place(line * 4)
    BY Sectors DEF LineAtOneBackend
  <2>1. stage = "sectors"
    BY DEF SectorInv
  <2>2. /\ AccessOK /\ RequestOf(req) /\ out = Split!Breakdown(req) /\ placed = Place(req.addr)
        /\ k \in DOMAIN out
        /\ sectors[k] = IF placed # "UNSPECIFIED" THEN placed ELSE Place(out[k].addr)
    BY <2>1, PlaceIs DEF SectorInv
  <2>3. line \in Nat /\ ranges \in Seq(MemRange)
    BY <2>2 DEF AccessOK, Inv, MapTypeOK
  <2>4. req.addr \in line * 4 .. line * 4 + 3
    BY <2>2, BreaksDown
  <2>5. placed = Place(line * 4)
    BY <2>2, <2>3, <2>4, LinePlaced
  <2>6. CASE placed = "UNSPECIFIED"
    <3>1. out[k].addr \in line * 4 .. line * 4 + 3
      BY <2>2, <2>6, BreaksDown DEF Addrs
    <3>2. QED BY <2>2, <2>3, <2>6, <3>1, LinePlaced
  <2>7. QED BY <2>2, <2>5, <2>6
<1>2. QED BY <1>1, Invariance, LoadsMap, SectorInvariance, PTL

-----------------------------------------------------------------------------
(* The co-simulated backends *)

USE CoSimAssumption

-----------------------------------------------------------------------------
(* Types *)

\* Every variable keeps its type, so that a partition never has more than
\* max_outstanding_per_part fetches under way.
THEOREM TypeCorrect == Spec => []TypeOK
<1>1. Init => TypeOK
  BY DEF Init, TypeOK, Wrapper, Phase, Status
<1>2. TypeOK /\ [Next]_vars => TypeOK'
  <2> SUFFICES ASSUME TypeOK, [Next]_vars PROVE TypeOK'
    OBVIOUS
  <2>1. ASSUME NEW f \in Fetch, Push(f) PROVE TypeOK'
    <3> DEFINE p == partitionOf[f]
    <3>1. Append(pending, f) \in Seq(Fetch)
      BY AppendType DEF TypeOK
    <3>2. p \in Partition /\ outstanding[p] + 1 \in 0 .. MaxOutstanding
      BY <2>1 DEF Push, Full, TypeOK
    <3>3. QED BY <2>1, <3>1, <3>2 DEF Push, TypeOK, Status
  <2>2. ASSUME NEW p \in Partition, PopReturn(p) PROVE TypeOK'
    <3>1. Head(retq[p]) \in Fetch /\ Tail(retq[p]) \in Seq(Fetch)
      BY <2>2, HeadTail DEF PopReturn, TypeOK
    <3>2. QED BY <2>2, <3>1 DEF PopReturn, TypeOK, Status
  <2>3. CASE InjectHead
    <3> DEFINE f == Head(pending)
    <3>1. f \in Fetch /\ Tail(pending) \in Seq(Fetch)
      BY <2>3, HeadTail DEF InjectHead, TypeOK
    <3>2. Append(completions, f) \in Seq(Fetch)
      BY <3>1, AppendType DEF TypeOK
    <3>3. status' \in [Fetch -> Status] /\ completions' \in Seq(Fetch)
      BY <2>3, <3>1, <3>2 DEF InjectHead, TypeOK, Status
    <3>4. QED BY <2>3, <3>1, <3>3 DEF InjectHead, TypeOK
  <2>4. ASSUME NEW f \in Fetch, FinishRead(f) PROVE TypeOK'
    <3>1. Append(completions, f) \in Seq(Fetch)
      BY AppendType DEF TypeOK
    <3>2. QED BY <2>4, <3>1 DEF FinishRead, TypeOK, Status
  <2>5. CASE PollOne
    <3> DEFINE f == Head(completions)
               p == partitionOf[f]
    <3>1. f \in Fetch /\ Tail(completions) \in Seq(Fetch)
      BY <2>5, HeadTail DEF PollOne, TypeOK
    <3>2. p \in Partition /\ Append(retq[p], f) \in Seq(Fetch)
      BY <3>1, AppendType DEF TypeOK
    <3>3. outstanding' \in [Partition -> 0 .. MaxOutstanding]
      <4>1. (IF outstanding[p] > 0 THEN outstanding[p] - 1 ELSE outstanding[p]) \in 0 .. MaxOutstanding
        BY <3>2 DEF TypeOK
      <4>2. outstanding' = [outstanding EXCEPT ![p] = IF outstanding[p] > 0 THEN outstanding[p] - 1
                                                      ELSE outstanding[p]]
        BY <2>5 DEF PollOne
      <4>3. QED BY <4>1, <4>2 DEF TypeOK
    <3>4. status' \in [Fetch -> Status] /\ retq' \in [Partition -> Seq(Fetch)]
      BY <2>5, <3>1, <3>2 DEF PollOne, TypeOK, Status
    <3>5. QED BY <2>5, <3>1, <3>3, <3>4 DEF PollOne, TypeOK
  <2>6. CASE Begin \/ Inject \/ Settle \/ Poll \/ End
    BY <2>6 DEF Begin, Inject, Settle, Poll, End, Goto, TypeOK, Phase
  <2>7. CASE UNCHANGED vars
    BY <2>7 DEF vars, TypeOK
  <2>8. QED
    BY <2>1, <2>2, <2>3, <2>4, <2>5, <2>6, <2>7 DEF Next, Cycle
<1>3. QED
  BY <1>1, <1>2, PTL DEF Spec

-----------------------------------------------------------------------------
(* Placement *)

Retq(q, sts) == HoldsExactly(q, sts, "RETURNQ", partitionOf)

LEMMA RetqStays ==
    ASSUME TypeOK, Retq(retq, status), NEW f \in Fetch, NEW new,
           status[f] # "RETURNQ", new # "RETURNQ"
    PROVE  Retq(retq, [status EXCEPT ![f] = new])
<1>1. /\ retq \in [Partition -> Seq(Fetch)] /\ status \in [Fetch -> Status]
      /\ partitionOf \in [Fetch -> Partition]
  BY DEF TypeOK
<1>2. QED BY <1>1, Elsewhere DEF Retq

Places ==
    /\ Holds(Fetch, pending, status, "PENDING")
    /\ Holds(Fetch, completions, status, "COMPLETION")
    /\ Retq(retq, status)

LEMMA PlacesIsPlacement == Places <=> Placement
BY DEF Places, Placement, Holds, Retq

\* The steps of the simulator and of the poll loop move the fetch they handle
\* from its queue to the next.
LEMMA PlacesStep ==
    ASSUME TypeOK, Places, [Next]_vars
    PROVE  Places'
<1>0. /\ status \in [Fetch -> Status] /\ pending \in Seq(Fetch) /\ completions \in Seq(Fetch)
      /\ retq \in [Partition -> Seq(Fetch)] /\ partitionOf \in [Fetch -> Partition]
  BY DEF TypeOK
<1>1. ASSUME NEW f \in Fetch, Push(f) PROVE Places'
  <2>1. /\ status[f] = "NONE" /\ status' = [status EXCEPT ![f] = "PENDING"]
        /\ pending' = Append(pending, f) /\ completions' = completions /\ retq' = retq
    BY <1>1 DEF Push
  <2>2. Holds(Fetch, Append(pending, f), [status EXCEPT ![f] = "PENDING"], "PENDING")
    BY <1>0, <2>1, Joins DEF Places
  <2>3. Holds(Fetch, completions, [status EXCEPT ![f] = "PENDING"], "COMPLETION")
    BY <1>0, <2>1, Stays DEF Places
  <2>4. Retq(retq, [status EXCEPT ![f] = "PENDING"])
    BY <2>1, RetqStays DEF Places
  <2>5. QED BY <2>1, <2>2, <2>3, <2>4 DEF Places, Holds, Retq
<1>2. ASSUME NEW p \in Partition, PopReturn(p) PROVE Places'
  <2> DEFINE f == Head(retq[p])
             new == [status EXCEPT ![f] = "NONE"]
  <2>1. f \in Fetch /\ status[f] = "RETURNQ"
    <3>1. f \in Range(retq[p])
      BY <1>0, <1>2, HeadTail DEF PopReturn
    <3>2. QED BY <1>0, <3>1 DEF Places, Retq, HoldsExactly
  <2>2. /\ status' = new /\ pending' = pending /\ completions' = completions
        /\ retq' = [retq EXCEPT ![p] = Tail(retq[p])]
    BY <1>2 DEF PopReturn
  <2>3. HoldsExactly([retq EXCEPT ![p] = Tail(retq[p])], new, "RETURNQ", partitionOf)
    BY <1>0, <1>2, Dequeue DEF PopReturn, Places, Retq
  <2>4. Holds(Fetch, pending, new, "PENDING") /\ Holds(Fetch, completions, new, "COMPLETION")
    BY <1>0, <2>1, Stays DEF Places
  <2> HIDE DEF new
  <2>5. QED BY <2>2, <2>3, <2>4 DEF Places, Holds, Retq
<1>3. CASE InjectHead
  <2> DEFINE f == Head(pending)
  <2>1. f \in Fetch /\ status[f] = "PENDING" /\ pending # <<>>
    BY <1>0, <1>3, HeadHeld DEF InjectHead, Places
  <2>2. pending' = Tail(pending) /\ retq' = retq
    BY <1>3 DEF InjectHead
  <2>3. CASE IsRead(f)
    <3> DEFINE new == [status EXCEPT ![f] = "ENGINE"]
    <3>1. status' = new /\ completions' = completions
      BY <1>3, <2>3 DEF InjectHead
    <3>2. Holds(Fetch, Tail(pending), new, "PENDING")
      BY <1>0, <2>1, Leaves DEF Places
    <3>3. Holds(Fetch, completions, new, "COMPLETION") /\ Retq(retq, new)
      BY <1>0, <2>1, Stays, RetqStays DEF Places
    <3> HIDE DEF new
    <3>4. QED BY <2>2, <3>1, <3>2, <3>3 DEF Places, Holds, Retq
  <2>4. CASE ~IsRead(f)
    <3> DEFINE new == [status EXCEPT ![f] = "COMPLETION"]
    <3>1. status' = new /\ completions' = Append(completions, f)
      BY <1>3, <2>4 DEF InjectHead
    <3>2. Holds(Fetch, Tail(pending), new, "PENDING")
      BY <1>0, <2>1, Leaves DEF Places
    <3>3. Holds(Fetch, Append(completions, f), new, "COMPLETION") /\ Retq(retq, new)
      BY <1>0, <2>1, Joins, RetqStays DEF Places
    <3> HIDE DEF new
    <3>4. QED BY <2>2, <3>1, <3>2, <3>3 DEF Places, Holds, Retq
  <2>5. QED BY <2>3, <2>4
<1>4. ASSUME NEW f \in Fetch, FinishRead(f) PROVE Places'
  <2>1. status[f] = "ENGINE" /\ pending' = pending /\ retq' = retq
    BY <1>4 DEF FinishRead
  <2>2. CASE CompletionHandlers # {}
    <3> DEFINE new == [status EXCEPT ![f] = "COMPLETION"]
    <3>1. status' = new /\ completions' = Append(completions, f)
      BY <1>4, <2>2 DEF FinishRead
    <3>2. Holds(Fetch, pending, new, "PENDING")
      BY <1>0, <2>1, Stays DEF Places
    <3>3. Holds(Fetch, Append(completions, f), new, "COMPLETION") /\ Retq(retq, new)
      BY <1>0, <2>1, Joins, RetqStays DEF Places
    <3> HIDE DEF new
    <3>4. QED BY <2>1, <3>1, <3>2, <3>3 DEF Places, Holds, Retq
  <2>3. CASE ~(CompletionHandlers # {})
    <3> DEFINE new == [status EXCEPT ![f] = "LOST"]
    <3>1. status' = new /\ completions' = completions
      BY <1>4, <2>3 DEF FinishRead
    <3>2. Holds(Fetch, pending, new, "PENDING") /\ Holds(Fetch, completions, new, "COMPLETION")
      BY <1>0, <2>1, Stays DEF Places
    <3>3. Retq(retq, new)
      BY <2>1, RetqStays DEF Places
    <3> HIDE DEF new
    <3>4. QED BY <2>1, <3>1, <3>2, <3>3 DEF Places, Holds, Retq
  <2>4. QED BY <2>2, <2>3
<1>5. CASE PollOne
  <2> DEFINE f == Head(completions)
  <2>1. f \in Fetch /\ status[f] = "COMPLETION" /\ completions # <<>>
    BY <1>0, <1>5, HeadHeld DEF PollOne, Places
  <2>2. completions' = Tail(completions) /\ pending' = pending
    BY <1>5 DEF PollOne
  <2>3. CASE IsWriteback(f)
    <3> DEFINE new == [status EXCEPT ![f] = "NONE"]
    <3>1. status' = new /\ retq' = retq
      BY <1>5, <2>3 DEF PollOne
    <3>2. Holds(Fetch, pending, new, "PENDING") /\ Retq(retq, new)
      BY <1>0, <2>1, Stays, RetqStays DEF Places
    <3>3. Holds(Fetch, Tail(completions), new, "COMPLETION")
      BY <1>0, <2>1, Leaves DEF Places
    <3> HIDE DEF new
    <3>4. QED BY <2>2, <3>1, <3>2, <3>3 DEF Places, Holds, Retq
  <2>4. CASE ~IsWriteback(f)
    <3> DEFINE new == [status EXCEPT ![f] = "RETURNQ"]
               p == partitionOf[f]
    <3>1. status' = new /\ retq' = [retq EXCEPT ![p] = Append(retq[p], f)]
      BY <1>5, <2>4 DEF PollOne
    <3>2. Holds(Fetch, pending, new, "PENDING")
      BY <1>0, <2>1, Stays DEF Places
    <3>3. Holds(Fetch, Tail(completions), new, "COMPLETION")
      BY <1>0, <2>1, Leaves DEF Places
    <3>4. HoldsExactly([retq EXCEPT ![p] = Append(retq[p], f)], new, "RETURNQ", partitionOf)
      BY <1>0, <2>1, Enqueue DEF Places, Retq
    <3> HIDE DEF new
    <3>5. QED BY <2>2, <3>1, <3>2, <3>3, <3>4 DEF Places, Holds, Retq
  <2>5. QED BY <2>3, <2>4
<1>6. CASE \/ UNCHANGED vars
           \/ Begin \/ Inject \/ Settle \/ Poll \/ End
  BY <1>6 DEF vars, Begin, Inject, Settle, Poll, End, Goto, Places, Holds, Retq
<1>7. QED
  BY <1>1, <1>2, <1>3, <1>4, <1>5, <1>6 DEF Next, Cycle

\* Every fetch is in exactly the one queue its status names, and in the return
\* queue of the partition that sent it: although partition 0 takes the
\* completions of all partitions, none is lost, repeated or misrouted.
THEOREM PlacementCorrect == Spec => []Placement
<1>1. Init => Places
  BY DEF Init, Places, Holds, Retq, HoldsExactly, NoRepeat, Range
<1>2. TypeOK /\ Places /\ [Next]_vars => Places'
  BY PlacesStep
<1>3. Places => Placement
  BY PlacesIsPlacement
<1>4. QED
  BY <1>1, <1>2, <1>3, TypeCorrect, PTL DEF Spec
-----------------------------------------------------------------------------
(* Counters *)

\* A fetch of p that is sent, ...
LEMMA OneMore ==
    ASSUME TypeOK, OutstandingExact, NEW f \in Fetch, status[f] = "NONE",
           NEW new \in {"PENDING", "ENGINE", "LOST", "COMPLETION"},
           status' = [status EXCEPT ![f] = new],
           outstanding' = [outstanding EXCEPT ![partitionOf[f]] = outstanding[partitionOf[f]] + 1]
    PROVE  OutstandingExact'
<1> SUFFICES ASSUME NEW p \in Partition PROVE outstanding'[p] = Cardinality(Unpolled(p)')
  BY DEF OutstandingExact
<1>1. /\ outstanding[p] = Cardinality(Unpolled(p)) /\ outstanding[p] \in Nat
      /\ IsFiniteSet(Unpolled(p)) /\ status \in [Fetch -> Status]
  BY FS_Subset DEF OutstandingExact, TypeOK, Unpolled
<1>2. CASE p = partitionOf[f]
  <2>1. Unpolled(p)' = Unpolled(p) \cup {f} /\ f \notin Unpolled(p)
    BY <1>1, <1>2 DEF Unpolled
  <2>2. Cardinality(Unpolled(p)') = Cardinality(Unpolled(p)) + 1
    BY <1>1, <2>1, FS_AddElement
  <2>3. QED BY <1>1, <1>2, <2>2 DEF TypeOK
<1>3. CASE p # partitionOf[f]
  <2>1. Unpolled(p)' = Unpolled(p)
    BY <1>1, <1>3 DEF Unpolled
  <2>2. QED BY <1>1, <1>3, <2>1 DEF TypeOK
<1>4. QED BY <1>2, <1>3

\* ... one that is polled, ...
LEMMA OneLess ==
    ASSUME TypeOK, OutstandingExact, NEW f \in Fetch, status[f] = "COMPLETION",
           NEW new \in {"NONE", "RETURNQ"},
           status' = [status EXCEPT ![f] = new],
           outstanding' = [outstanding EXCEPT ![partitionOf[f]] =
               IF outstanding[partitionOf[f]] > 0 THEN outstanding[partitionOf[f]] - 1
               ELSE outstanding[partitionOf[f]]]
    PROVE  OutstandingExact'
<1> SUFFICES ASSUME NEW p \in Partition PROVE outstanding'[p] = Cardinality(Unpolled(p)')
  BY DEF OutstandingExact
<1>1. /\ outstanding[p] = Cardinality(Unpolled(p)) /\ outstanding[p] \in Nat
      /\ IsFiniteSet(Unpolled(p)) /\ status \in [Fetch -> Status]
  BY FS_Subset DEF OutstandingExact, TypeOK, Unpolled
<1>2. CASE p = partitionOf[f]
  <2>1. Unpolled(p)' = Unpolled(p) \ {f} /\ f \in Unpolled(p)
    BY <1>1, <1>2 DEF Unpolled
  <2>2. Cardinality(Unpolled(p)') = Cardinality(Unpolled(p)) - 1
    BY <1>1, <2>1, FS_RemoveElement
  <2>3. IsFiniteSet(Unpolled(p)') /\ Cardinality(Unpolled(p)') \in Nat
    BY <1>1, <2>1, FS_Subset, FS_CardinalityType
  <2>4. outstanding[p] > 0
    BY <1>1, <2>2, <2>3
  <2>5. QED BY <1>1, <1>2, <2>2, <2>4 DEF TypeOK
<1>3. CASE p # partitionOf[f]
  <2>1. Unpolled(p)' = Unpolled(p)
    BY <1>1, <1>3 DEF Unpolled
  <2>2. QED BY <1>1, <1>3, <2>1 DEF TypeOK
<1>4. QED BY <1>2, <1>3

\* ... and one that moves inside the simulator or outside of it.
LEMMA AsMany ==
    ASSUME TypeOK, OutstandingExact, NEW f \in Fetch, NEW new,
           status' = [status EXCEPT ![f] = new], UNCHANGED outstanding,
           status[f] \in {"NONE", "RETURNQ"} <=> new \in {"NONE", "RETURNQ"}
    PROVE  OutstandingExact'
<1>1. status \in [Fetch -> Status]
  BY DEF TypeOK
<1>2. \A p \in Partition : Unpolled(p)' = Unpolled(p)
  BY <1>1 DEF Unpolled
<1>3. QED BY <1>2 DEF OutstandingExact

\* outstanding[p] is the number of fetches of p that were sent and not polled,
\* so the guard of its decrement never hides an underflow, and full() counts the
\* fetches of its own partition only.
THEOREM OutstandingCorrect == Spec => []OutstandingExact
<1>1. Init => OutstandingExact
  <2> SUFFICES ASSUME Init, NEW p \in Partition PROVE outstanding[p] = Cardinality(Unpolled(p))
    BY DEF OutstandingExact
  <2>1. Unpolled(p) = {}
    BY DEF Init, Unpolled
  <2>2. QED BY <2>1, FS_EmptySet DEF Init
<1>2. TypeOK /\ Places /\ OutstandingExact /\ [Next]_vars => OutstandingExact'
  <2> SUFFICES ASSUME TypeOK, Places, OutstandingExact, [Next]_vars PROVE OutstandingExact'
    OBVIOUS
  <2>0. /\ pending \in Seq(Fetch) /\ completions \in Seq(Fetch)
        /\ retq \in [Partition -> Seq(Fetch)]
    BY DEF TypeOK
  <2>1. ASSUME NEW f \in Fetch, Push(f) PROVE OutstandingExact'
    BY <2>1, OneMore DEF Push
  <2>2. ASSUME NEW p \in Partition, PopReturn(p) PROVE OutstandingExact'
    <3> DEFINE f == Head(retq[p])
    <3>1. f \in Range(retq[p])
      BY <2>0, <2>2, HeadTail DEF PopReturn
    <3>2. f \in Fetch /\ status[f] = "RETURNQ"
      BY <2>0, <3>1 DEF Places, Retq, HoldsExactly
    <3>3. status' = [status EXCEPT ![f] = "NONE"] /\ UNCHANGED outstanding
      BY <2>2 DEF PopReturn
    <3> HIDE DEF f
    <3>4. QED BY <3>2, <3>3, AsMany
  <2>3. CASE InjectHead
    <3> DEFINE f == Head(pending)
    <3>1. f \in Fetch /\ status[f] = "PENDING"
      BY <2>0, <2>3, HeadHeld DEF InjectHead, Places
    <3>2. /\ \/ status' = [status EXCEPT ![f] = "ENGINE"]
             \/ status' = [status EXCEPT ![f] = "COMPLETION"]
          /\ UNCHANGED outstanding
      BY <2>3 DEF InjectHead
    <3> HIDE DEF f
    <3>3. QED BY <3>1, <3>2, AsMany
  <2>4. ASSUME NEW f \in Fetch, FinishRead(f) PROVE OutstandingExact'
    <3>1. /\ \/ status' = [status EXCEPT ![f] = "COMPLETION"]
             \/ status' = [status EXCEPT ![f] = "LOST"]
          /\ UNCHANGED outstanding /\ status[f] = "ENGINE"
      BY <2>4 DEF FinishRead
    <3>2. QED BY <3>1, AsMany
  <2>5. CASE PollOne
    <3> DEFINE f == Head(completions)
    <3>1. f \in Fetch /\ status[f] = "COMPLETION"
      BY <2>0, <2>5, HeadHeld DEF PollOne, Places
    <3>2. /\ \/ status' = [status EXCEPT ![f] = "NONE"]
             \/ status' = [status EXCEPT ![f] = "RETURNQ"]
          /\ outstanding' = [outstanding EXCEPT ![partitionOf[f]] =
                 IF outstanding[partitionOf[f]] > 0 THEN outstanding[partitionOf[f]] - 1
                 ELSE outstanding[partitionOf[f]]]
      BY <2>5 DEF PollOne
    <3> HIDE DEF f
    <3>3. QED BY <3>1, <3>2, OneLess
  <2>6. CASE \/ UNCHANGED vars
             \/ Begin \/ Inject \/ Settle \/ Poll \/ End
    BY <2>6 DEF vars, Begin, Inject, Settle, Poll, End, Goto, OutstandingExact, Unpolled
  <2>7. QED
    BY <2>1, <2>2, <2>3, <2>4, <2>5, <2>6 DEF Next, Cycle
<1>3. QED
  BY <1>1, <1>2, TypeCorrect, PlacementCorrect, PlacesIsPlacement, PTL DEF Spec

-----------------------------------------------------------------------------
(* Sends *)

\* The fetches of a partition that are under way can be numbered from 1 to
\* outstanding.
LEMMA Numbered ==
    ASSUME TypeOK, OutstandingExact, NEW p \in Partition
    PROVE  \E number :
              /\ \A f \in Unpolled(p) : number[f] \in 1 .. outstanding[p]
              /\ \A f, g \in Unpolled(p) : number[f] = number[g] => f = g
<1>1. IsFiniteSet(Unpolled(p)) /\ outstanding[p] = Cardinality(Unpolled(p))
  BY FS_Subset DEF Unpolled, OutstandingExact
<1>2. PICK b \in Bijection(1 .. outstanding[p], Unpolled(p)) : TRUE
  BY <1>1, FS_CardinalityType DEF ExistsBijection
<1>3. \A f \in Unpolled(p) : \E t \in 1 .. outstanding[p] : b[t] = f
  BY <1>2 DEF Bijection, Surjection
<1> DEFINE number == [f \in Unpolled(p) |-> CHOOSE t \in 1 .. outstanding[p] : b[t] = f]
<1>4. \A f \in Unpolled(p) : number[f] \in 1 .. outstanding[p] /\ b[number[f]] = f
  BY <1>3
<1> HIDE DEF number
<1>5. \A f, g \in Unpolled(p) : number[f] = number[g] => f = g
  BY <1>4
<1>6. QED BY <1>4, <1>5

\* So each pending request has a place of its own among the partitions' slots,
\* and one slot of a partition that is not full stays free.
LEMMA PendingBounded ==
    ASSUME TypeOK, Places, OutstandingExact, IsFiniteSet(Partition),
           NEW p \in Partition, ~Full(p)
    PROVE  Len(pending) < Cardinality(Partition) * MaxOutstanding
<1> DEFINE n == Len(pending)
           ok(q, number) ==
              /\ \A f \in Unpolled(q) : number[f] \in 1 .. outstanding[q]
              /\ \A f, g \in Unpolled(q) : number[f] = number[g] => f = g
           numberOf == [q \in Partition |-> CHOOSE number : ok(q, number)]
           slots == Partition \X (1 .. MaxOutstanding)
           last == <<p, MaxOutstanding>>
           place == [t \in 1 .. n |->
                        <<partitionOf[pending[t]], numberOf[partitionOf[pending[t]]][pending[t]]>>]
<1>1. \A q \in Partition : ok(q, numberOf[q])
  BY Numbered
<1>2. /\ n \in Nat
      /\ \A t \in 1 .. n : pending[t] \in Fetch /\ pending[t] \in Range(pending)
      /\ \A t, j \in 1 .. n : pending[t] = pending[j] => t = j
  BY DEF TypeOK, Places, Holds, NoRepeat, Range
<1>3. \A t \in 1 .. n : /\ partitionOf[pending[t]] \in Partition
                        /\ pending[t] \in Unpolled(partitionOf[pending[t]])
  BY <1>2 DEF Places, Holds, Unpolled
<1>4. /\ \A q \in Partition : outstanding[q] \in 0 .. MaxOutstanding
      /\ outstanding[p] < MaxOutstanding
  BY DEF TypeOK, Full
<1> HIDE DEF n, numberOf
<1>5. \A t \in 1 .. n : place[t] \in slots \ {last}
  <2> SUFFICES ASSUME NEW t \in 1 .. n PROVE place[t] \in slots \ {last}
    OBVIOUS
  <2> DEFINE q == partitionOf[pending[t]]
             k == numberOf[q][pending[t]]
  <2>1. q \in Partition /\ k \in 1 .. outstanding[q]
    BY <1>1, <1>3
  <2>2. k \in 1 .. MaxOutstanding /\ (q = p => k # MaxOutstanding)
    BY <1>4, <2>1
  <2>3. place[t] = <<q, k>>
    OBVIOUS
  <2> HIDE DEF q, k, place
  <2>4. QED BY <2>1, <2>2, <2>3
<1>6. \A t, j \in 1 .. n : place[t] = place[j] => t = j
  <2> SUFFICES ASSUME NEW t \in 1 .. n, NEW j \in 1 .. n, place[t] = place[j] PROVE t = j
    OBVIOUS
  <2> DEFINE q == partitionOf[pending[t]]
  <2>1. /\ partitionOf[pending[j]] = q
        /\ numberOf[q][pending[t]] = numberOf[q][pending[j]]
    OBVIOUS
  <2>2. pending[t] = pending[j]
    BY <1>1, <1>3, <2>1
  <2>3. QED BY <1>2, <2>2
<1>7. place \in Injection(1 .. n, slots \ {last})
  <2>1. place \in [1 .. n -> slots \ {last}]
    BY <1>5
  <2> HIDE DEF place, slots, last
  <2>2. QED BY <1>6, <2>1 DEF Injection, IsInjective
<1>8. /\ IsFiniteSet(slots) /\ last \in slots
      /\ Cardinality(slots) = Cardinality(Partition) * MaxOutstanding
      /\ Cardinality(slots) \in Nat
  <2>1. /\ IsFiniteSet(1 .. MaxOutstanding)
        /\ Cardinality(1 .. MaxOutstanding) = MaxOutstanding
    BY FS_Interval
  <2>2. /\ IsFiniteSet(slots)
        /\ Cardinality(slots) = Cardinality(Partition) * MaxOutstanding
    BY <2>1, FS_Product
  <2>3. last \in slots
    BY <1>4
  <2>4. QED BY <2>2, <2>3, FS_CardinalityType
<1> HIDE DEF slots, last, place
<1>9. /\ IsFiniteSet(slots \ {last})
      /\ Cardinality(slots \ {last}) = Cardinality(slots) - 1
  BY <1>8, FS_RemoveElement
<1>10. Cardinality(1 .. n) <= Cardinality(slots \ {last}) /\ Cardinality(1 .. n) = n
  BY <1>2, <1>7, <1>9, FS_Injection, FS_Interval
<1>11. QED BY <1>8, <1>9, <1>10 DEF n

\* With room for the outstanding requests of all partitions in the handle, a
\* send is never refused: the assert(0) after it is not reached.  max_pending is
\* 2^20 and max_outstanding_per_part 2^15 unless configured, which is enough for
\* 32 partitions.
THEOREM SendAcceptedCorrect ==
    ASSUME IsFiniteSet(Partition), MaxPending >= Cardinality(Partition) * MaxOutstanding
    PROVE  Spec => []SendAccepted
<1>1. TypeOK /\ Places /\ OutstandingExact => SendAccepted
  <2> SUFFICES ASSUME TypeOK, Places, OutstandingExact, NEW p \in Partition, ~Full(p)
               PROVE  Len(pending) < MaxPending
    BY DEF SendAccepted
  <2>1. Len(pending) < Cardinality(Partition) * MaxOutstanding /\ Len(pending) \in Nat
    BY PendingBounded DEF TypeOK
  <2>2. Cardinality(Partition) * MaxOutstanding \in Nat
    BY FS_CardinalityType
  <2>3. QED BY <2>1, <2>2
<1>2. QED
  BY <1>1, TypeCorrect, PlacementCorrect, OutstandingCorrect, PlacesIsPlacement, PTL

-----------------------------------------------------------------------------
(* Refinement *)

\* The state of the service that a status stands for.
AbsOf(st) == IF st = "NONE" THEN "idle" ELSE IF st = "RETURNQ" THEN "answered" ELSE "pending"

\* A step that moves one fetch is a step of the service, or none.
LEMMA ServiceMove ==
    ASSUME TypeOK, NEW f \in Fetch, NEW new \in Status,
           status' = [status EXCEPT ![f] = new],
           \/ AbsOf(status[f]) = AbsOf(new)
           \/ status[f] = "NONE" /\ AbsOf(new) = "pending"
           \/ AbsOf(status[f]) = "pending" /\ new = "RETURNQ" /\ ~IsWriteback(f)
           \/ AbsOf(status[f]) = "pending" /\ new = "NONE" /\ IsWriteback(f)
           \/ status[f] = "RETURNQ" /\ new = "NONE"
    PROVE  [Service!Next]_ServiceState
<1>1. /\ ServiceState = [x \in Fetch |-> AbsOf(status[x])]
      /\ ServiceState' = [x \in Fetch |-> AbsOf(status'[x])]
      /\ status \in [Fetch -> Status]
  BY DEF ServiceState, AbsOf, TypeOK
<1>2. ServiceState' = [ServiceState EXCEPT ![f] = AbsOf(new)]
  BY <1>1
<1>3. ServiceState[f] = AbsOf(status[f])
  BY <1>1
<1>4. CASE AbsOf(status[f]) = AbsOf(new)
  BY <1>1, <1>2, <1>3, <1>4
<1>5. CASE status[f] = "NONE" /\ AbsOf(new) = "pending"
  BY <1>2, <1>3, <1>5 DEF AbsOf, Service!Next, Service!Accept, Service!Move
<1>6. CASE AbsOf(status[f]) = "pending" /\ new = "RETURNQ" /\ ~IsWriteback(f)
  BY <1>2, <1>3, <1>6 DEF AbsOf, Service!Next, Service!Answer, Service!Move
<1>7. CASE AbsOf(status[f]) = "pending" /\ new = "NONE" /\ IsWriteback(f)
  BY <1>2, <1>3, <1>7 DEF AbsOf, Service!Next, Service!Retire, Service!Move
<1>8. CASE status[f] = "RETURNQ" /\ new = "NONE"
  BY <1>2, <1>3, <1>8 DEF AbsOf, Service!Next, Service!Take, Service!Move
<1>9. QED BY <1>4, <1>5, <1>6, <1>7, <1>8

\* Seen from the partitions, the shared simulator with its wrapper is a memory
\* service: what was sent is answered at most once, and a writeback never.
THEOREM Refinement == Spec => ImplementsService
<1>1. Init => Service!Init
  BY DEF Init, Service!Init, ServiceState
<1>2. TypeOK /\ Places /\ [Next]_vars => [Service!Next]_ServiceState
  <2> SUFFICES ASSUME TypeOK, Places, [Next]_vars PROVE [Service!Next]_ServiceState
    OBVIOUS
  <2>0. /\ pending \in Seq(Fetch) /\ completions \in Seq(Fetch)
        /\ retq \in [Partition -> Seq(Fetch)]
    BY DEF TypeOK
  <2>1. ASSUME NEW f \in Fetch, Push(f) PROVE [Service!Next]_ServiceState
    BY <2>1, ServiceMove DEF Push, AbsOf, Status
  <2>2. ASSUME NEW p \in Partition, PopReturn(p) PROVE [Service!Next]_ServiceState
    <3> DEFINE f == Head(retq[p])
    <3>1. f \in Range(retq[p])
      BY <2>0, <2>2, HeadTail DEF PopReturn
    <3>2. f \in Fetch /\ status[f] = "RETURNQ"
      BY <2>0, <3>1 DEF Places, Retq, HoldsExactly
    <3>3. status' = [status EXCEPT ![f] = "NONE"]
      BY <2>2 DEF PopReturn
    <3> HIDE DEF f
    <3>4. QED BY <3>2, <3>3, ServiceMove DEF Status
  <2>3. CASE InjectHead
    <3> DEFINE f == Head(pending)
    <3>1. f \in Fetch /\ status[f] = "PENDING"
      BY <2>0, <2>3, HeadHeld DEF InjectHead, Places
    <3>2. \/ status' = [status EXCEPT ![f] = "ENGINE"]
          \/ status' = [status EXCEPT ![f] = "COMPLETION"]
      BY <2>3 DEF InjectHead
    <3> HIDE DEF f
    <3>3. QED BY <3>1, <3>2, ServiceMove DEF AbsOf, Status
  <2>4. ASSUME NEW f \in Fetch, FinishRead(f) PROVE [Service!Next]_ServiceState
    <3>1. /\ \/ status' = [status EXCEPT ![f] = "COMPLETION"]
             \/ status' = [status EXCEPT ![f] = "LOST"]
          /\ status[f] = "ENGINE"
      BY <2>4 DEF FinishRead
    <3>2. QED BY <3>1, ServiceMove DEF AbsOf, Status
  <2>5. CASE PollOne
    <3> DEFINE f == Head(completions)
    <3>1. f \in Fetch /\ status[f] = "COMPLETION"
      BY <2>0, <2>5, HeadHeld DEF PollOne, Places
    <3>2. \/ IsWriteback(f) /\ status' = [status EXCEPT ![f] = "NONE"]
          \/ ~IsWriteback(f) /\ status' = [status EXCEPT ![f] = "RETURNQ"]
      BY <2>5 DEF PollOne
    <3> HIDE DEF f
    <3>3. QED BY <3>1, <3>2, ServiceMove DEF AbsOf, Status
  <2>6. CASE \/ UNCHANGED vars
             \/ Begin \/ Inject \/ Settle \/ Poll \/ End
    BY <2>6 DEF vars, Begin, Inject, Settle, Poll, End, Goto, ServiceState
  <2>7. QED
    BY <2>1, <2>2, <2>3, <2>4, <2>5, <2>6 DEF Next, Cycle
<1>3. QED
  BY <1>1, <1>2, TypeCorrect, PlacementCorrect, PlacesIsPlacement, PTL
  DEF Spec, ImplementsService, Service!Spec
=============================================================================
