----------------------------- MODULE BackendMap -----------------------------
(***************************************************************************)
(* memory_config::load_mem_backend_map and resolve_mem_backend (gpu-sim.cc): *)
(* the file that places address ranges on the HBM or the HBF backend.  The *)
(* loader reads the file line by line, sorts the ranges and compares each  *)
(* with its successor; every mistake aborts the simulator.  A lookup takes *)
(* the first range that holds the address, and else the default.           *)
(*                                                                         *)
(* Addresses are unsigned integers below Top (2^64 in the code), and       *)
(* base + size is computed modulo Top.                                     *)
(***************************************************************************)
EXTENDS Integers, Sequences, FiniteSets, Functions

CONSTANTS
    Top,            \* 2^w for the width w of unsigned long long
    Files,          \* the map files: sequences of lines
    Default         \* mem_backend_default

Address == 0 .. Top - 1
Backend == {"RAMULATOR", "MQSIM", "UNSPECIFIED"}

\* A line gives a base, a size and a backend, unless its fields do not parse or
\* name no backend.
Line == [parses : BOOLEAN, base : Address, size : Address, backend : Backend]

ASSUME MapAssumption ==
    /\ Top \in Nat \ {0}
    /\ Files \subseteq Seq(Line)
    /\ Default \in Backend

VARIABLES
    loader,          \* "load", "check", "ready" or "aborted"
    file,           \* the map file
    next,           \* the line to read next
    ranges,         \* m_mem_backend_ranges
    i               \* the index of the overlap loop, from 1

mapVars == <<loader, file, next, ranges, i>>

MemRange == [base : Address, end : Address, backend : Backend]

MapInit ==
    /\ loader = "load"
    /\ file \in Files
    /\ next = 1
    /\ ranges = <<>>
    /\ i = 1

-----------------------------------------------------------------------------
EndOf(l) == (l.base + l.size) % Top

Valid_Mutant(l) == l.parses /\ l.size # 0

\* The line is kept; otherwise the simulator aborts.
Valid(l) == l.parses /\ l.size # 0 /\ EndOf(l) > l.base

Abort == loader' = "aborted" /\ UNCHANGED <<file, next, ranges, i>>

ReadLine ==
    /\ loader = "load" /\ next <= Len(file)
    /\ LET l == file[next] IN
       \/ ~Valid(l) /\ Abort
       \/ /\ Valid(l)
          /\ ranges' = Append(ranges, [base |-> l.base, end |-> EndOf(l),
                                       backend |-> l.backend])
          /\ next' = next + 1
          /\ UNCHANGED <<loader, file, i>>

Before(r, s) == r.base < s.base \/ (r.base = s.base /\ r.end < s.end)

\* std::sort: a permutation of the ranges in which none is before an earlier one.
Sort ==
    /\ loader = "load" /\ next > Len(file)
    /\ loader' = "check"
    /\ \E p \in [DOMAIN ranges -> DOMAIN ranges] :
         /\ Range(p) = DOMAIN ranges
         /\ \A j, k \in DOMAIN ranges : j < k => ~Before(ranges[p[k]], ranges[p[j]])
         /\ ranges' = [k \in DOMAIN ranges |-> ranges[p[k]]]
    /\ UNCHANGED <<file, next, i>>

Overlap_Mutant(r, s) == r.base = s.base

Overlap(r, s) == r.end > s.base

\* The loop compares neighbours only.
CheckNext ==
    /\ loader = "check" /\ i < Len(ranges)
    /\ \/ Overlap(ranges[i], ranges[i + 1]) /\ Abort
       \/ /\ ~Overlap(ranges[i], ranges[i + 1])
          /\ i' = i + 1
          /\ UNCHANGED <<loader, file, next, ranges>>

Loaded ==
    /\ loader = "check" /\ i >= Len(ranges)
    /\ loader' = "ready"
    /\ UNCHANGED <<file, next, ranges, i>>

MapNext == ReadLine \/ Sort \/ CheckNext \/ Loaded

MapSpec == MapInit /\ [][MapNext]_mapVars

InRange_Mutant(r, a) == r.base <= a /\ a <= r.end

InRange(r, a) == r.base <= a /\ a < r.end

\* resolve_mem_backend: the first range that holds the address.
Resolve(a) ==
    LET hits == {k \in DOMAIN ranges : InRange(ranges[k], a)} IN
    IF hits = {} THEN Default
    ELSE ranges[CHOOSE k \in hits : \A j \in hits : k <= j].backend

-----------------------------------------------------------------------------
(* Properties *)

MapTypeOK ==
    /\ loader \in {"load", "check", "ready", "aborted"}
    /\ file \in Seq(Line)
    /\ next \in 1 .. Len(file) + 1
    /\ ranges \in Seq(MemRange)
    /\ i \in Nat \ {0}

\* The neighbour check is enough: in a loaded map no two ranges overlap, so it
\* never matters which of two matching ranges resolve_mem_backend meets first.
Disjoint ==
    loader = "ready" =>
        \A j, k \in DOMAIN ranges : j < k => ranges[j].end <= ranges[k].base

\* The addresses a line claims, computed without a width.
Claimed(l) == l.base .. l.base + l.size - 1

\* What the loader should accept: lines that parse, claim something, end below
\* the top of the address space, and pairwise claim different addresses.
Acceptable ==
    /\ \A k \in DOMAIN file :
         file[k].parses /\ file[k].size # 0 /\ file[k].base + file[k].size < Top
    /\ \A j, k \in DOMAIN file : j # k => Claimed(file[j]) \cap Claimed(file[k]) = {}

\* The loader aborts on the files that are not acceptable and on no other,
\* although the sum may wrap around and the sort comes before the check.
AcceptsExactly ==
    /\ loader = "ready" => Acceptable
    /\ loader = "aborted" => ~Acceptable

\* After loading, an address is placed where its line of the file says, in
\* whatever order the lines stand there.
ResolvesAsWritten ==
    loader = "ready" =>
        \A a \in Address :
            LET owners == {k \in DOMAIN file : a \in Claimed(file[k])} IN
            /\ owners = {} => Resolve(a) = Default
            /\ \A k \in owners : Resolve(a) = file[k].backend
=============================================================================
