---------------------------- MODULE ShaderCore_proof ----------------------------
(***************************************************************************)
(* Proofs about the core: its scoreboard and counters, its barriers, the   *)
(* exit of its warps and their asynchronous copies, for any warps, CTAs,   *)
(* registers and programs.                                                 *)
(*                                                                         *)
(* Most of the invariant is about one warp.  It is stated over values,     *)
(* which are, throughout this module:                                      *)
(*   p    the program of the warp       s   its first position not issued  *)
(*   X    its positions in the execution units                             *)
(*   M    those issued to memory and not in the dispatch register          *)
(*   D    the one in the dispatch register, with d accesses left           *)
(*   F    for each position its accesses that have to be answered          *)
(*   res  its reserved registers        pw  their pending writes           *)
(***************************************************************************)
EXTENDS ShaderCore, Queues_proof

Positions(p) == 1 .. Len(p)

\* The accesses that instruction i has not seen answered.
Owed(F, D, d, i) == F[i] + (IF i \in D THEN d ELSE 0)

Busy(p, X, M, D, F) == X \cup M \cup D \cup {i \in Positions(p) : F[i] > 0}

\* Where the instructions of a warp are.  Only copies, which nobody waits for at
\* an exit, may have accesses to be answered in another CTA of the same warp.
Places(p, s, X, M, D, d, F) ==
    /\ s \in 1 .. Len(p) + 1
    /\ X \subseteq 1 .. s - 1 /\ M \subseteq 1 .. s - 1 /\ D \subseteq 1 .. s - 1
    /\ M \cap D = {}
    /\ \A i \in X : ~IsMemory(p[i])
    /\ \A i \in M \cup D : IsMemory(p[i])
    /\ d \in Nat /\ F \in [Positions(p) -> Nat]
    /\ \A i \in Positions(p) :
          F[i] > 0 \/ (i \in D /\ d > 0) => p[i].op \in {"load", "store", "ldgsts"}
    /\ \A i \in Positions(p) : p[i].op # "ldgsts" /\ (i \in M \/ i >= s) => F[i] = 0

\* The scoreboard, and the counters by which a load releases its registers.
Registers(p, X, M, D, d, F, res, pw) ==
    /\ res = UNION {p[i].dst : i \in Busy(p, X, M, D, F)}
    /\ \A i, j \in Busy(p, X, M, D, F) : i # j => p[i].dst \cap p[j].dst = {}
    /\ pw \in [Reg -> Int]
    /\ \A i \in Busy(p, X, M, D, F) : \A r \in p[i].dst : pw[r] = Owed(F, D, d, i)
    /\ \A r \in Reg \ res : pw[r] = 0

Stores(p, F) ==
    UNION {({i} \X (1 .. F[i])) : i \in {j \in Positions(p) : p[j].op = "store"}}

-----------------------------------------------------------------------------
(* The invariant of a warp *)

Started(w) == trace[w] - Len(ibuffer[w])
Executing(w) == {i \in Pos(w) : <<w, i>> \in exec}
InMemOut(w) == {i \in Pos(w) : <<w, i>> \in memOut}
Dispatched(w) == {i \in Pos(w) : dispatch # <<>> /\ dispatch[1] = w /\ dispatch[2] = i}
AccessesLeft(w) == IF dispatch # <<>> /\ dispatch[1] = w THEN dispatch[3] ELSE 0

\* The instruction buffer holds the positions before trace[w], and nothing is
\* fetched for a warp that still has some or that is complete.
FrontOK(w) ==
    /\ trace[w] \in Nat /\ ibuffer[w] \in Seq(Nat)
    /\ Started(w) > 0 /\ trace[w] <= Len(program[w]) + 1
    /\ \A k \in 1 .. Len(ibuffer[w]) : ibuffer[w][k] = Started(w) + k - 1
    /\ fetched = w \/ w \in imiss => ibuffer[w] = <<>> /\ w \notin completed
    /\ ~(fetched = w /\ w \in imiss)

PlacesOK(w) ==
    Places(program[w], Started(w), Executing(w), InMemOut(w), Dispatched(w), AccessesLeft(w),
           flight[w])

RegistersOK(w) ==
    Registers(program[w], Executing(w), InMemOut(w), Dispatched(w), AccessesLeft(w), flight[w],
              reserved[w], pendingWrites[w])

CountersOK(w) ==
    /\ inPipe[w] = Len(ibuffer[w]) + Cardinality(InPipeline(w))
    /\ IsFiniteSet(Unacknowledged(w)) /\ stores[w] = Cardinality(Unacknowledged(w))

\* What is left of a warp that is complete.
CompletedOK(w) ==
    w \in completed =>
       /\ ibuffer[w] = <<>> /\ InPipeline(w) = {}
       /\ \A i \in Pos(w) : flight[w][i] > 0 => program[w][i].op = "ldgsts"

WarpOK(w) == FrontOK(w) /\ PlacesOK(w) /\ RegistersOK(w) /\ CountersOK(w) /\ CompletedOK(w)

-----------------------------------------------------------------------------
(* The invariant of the core *)

TypeOK ==
    /\ config \in Configs /\ ctas \in Nat
    /\ status \in [Cta -> Int]
    /\ DOMAIN trace = Warp /\ DOMAIN ibuffer = Warp /\ DOMAIN flight = Warp
    /\ fetched \in Warp \cup {NoWarp} /\ imiss \in SUBSET Warp
    /\ completed \in SUBSET Warp /\ doneExit \in SUBSET Warp /\ membar \in SUBSET Warp
    /\ inPipe \in [Warp -> Int] /\ stores \in [Warp -> Int]
    /\ reserved \in [Warp -> SUBSET Reg]
    /\ active \in SUBSET Warp /\ atBarrier \in SUBSET Warp /\ arrived \in SUBSET Warp
    /\ exec \in SUBSET (Warp \X Nat) /\ memOut \in SUBSET (Warp \X Nat)
    /\ dispatch # <<>> => dispatch \in Warp \X Nat \X Nat /\ dispatch[2] \in Pos(dispatch[1])
    /\ DOMAIN pendingWrites = Warp

\* A context is free when all its warps have exited; a warp exits once it is
\* complete.
StatusOK ==
    /\ doneExit \subseteq completed
    /\ \A c \in Cta : status[c] = Cardinality(warpsOf[c] \ doneExit)

\* The barrier set knows the warps that are not complete, and a warp at the
\* barrier has just issued it.
BarrierSetOK ==
    /\ active = Warp \ completed /\ atBarrier = arrived /\ arrived \subseteq active
    /\ \A w \in arrived : Started(w) > 1 /\ program[w][Started(w) - 1].op = "bar"

\* Of a CTA's warps that are not complete those at the barrier are one barrier
\* ahead of the others, and a complete one is ahead of none.
BarriersOK ==
    \A c \in Cta : \A w, v \in warpsOf[c] : v \notin completed =>
       /\ w \in completed => Barriers(w) <= Barriers(v)
       /\ w \notin completed /\ (w \in arrived <=> v \in arrived) => Barriers(w) = Barriers(v)
       /\ w \notin completed \cup arrived /\ v \in arrived => Barriers(v) = Barriers(w) + 1

Inv == TypeOK /\ (\A w \in Warp : WarpOK(w)) /\ StatusOK /\ BarrierSetOK /\ BarriersOK

-----------------------------------------------------------------------------
(* What the steps of an instruction do to its warp *)

LEMMA TraceFacts ==
    ASSUME NEW p, IsTrace(p)
    PROVE  /\ p \in Seq(Inst) /\ Len(p) \in Nat /\ Len(p) > 0 /\ p[Len(p)].op = "alu"
           /\ \A i \in Positions(p) :
                 /\ p[i].dst \subseteq Reg /\ p[i].acc \in Nat /\ p[i].op \in Op
                 /\ p[i].dst # {} => p[i].op \in {"alu", "load"}
                 /\ p[i].op = "load" => p[i].dst # {}
                 /\ p[i].op \notin {"load", "store", "ldgsts"} => p[i].acc = 0
<1>1. p \in Seq(Inst) /\ p # <<>> /\ Last(p).op = "alu"
  BY DEF IsTrace
<1>2. Len(p) \in Nat /\ Len(p) > 0
  BY <1>1, EmptyLength, LenProperties
<1>3. \A i \in Positions(p) : p[i] \in Inst
  BY <1>1, ElementOfSeq DEF Positions
<1>4. \A i \in Positions(p) : p[i].dst \subseteq Reg /\ p[i].acc \in Nat /\ p[i].op \in Op
  BY <1>3 DEF Inst
<1>5. \A i \in Positions(p) :
         /\ p[i].dst # {} => p[i].op \in {"alu", "load"}
         /\ p[i].op = "load" => p[i].dst # {}
         /\ p[i].op \notin {"load", "store", "ldgsts"} => p[i].acc = 0
  BY DEF IsTrace, Positions
<1>6. QED BY <1>1, <1>2, <1>4, <1>5 DEF Last

LEMMA InPositions ==
    ASSUME NEW p, IsTrace(p), NEW s, NEW X, NEW M, NEW D, NEW d, NEW F,
           Places(p, s, X, M, D, d, F)
    PROVE  /\ s \in Nat /\ s > 0 /\ 1 .. s - 1 \subseteq Positions(p)
           /\ X \subseteq Positions(p) /\ M \subseteq Positions(p) /\ D \subseteq Positions(p)
<1>1. Len(p) \in Nat /\ s \in 1 .. Len(p) + 1
  BY TraceFacts DEF Places
<1>2. s \in Nat /\ s > 0 /\ 1 .. s - 1 \subseteq Positions(p)
  BY <1>1 DEF Positions
<1>3. QED BY <1>2 DEF Places

\* An instruction is issued to an execution unit or to memory.
LEMMA IssuePlaces ==
    ASSUME NEW p, IsTrace(p), NEW s \in Positions(p), NEW X, NEW M, NEW D, NEW d, NEW F,
           Places(p, s, X, M, D, d, F)
    PROVE  /\ ~IsMemory(p[s]) => Places(p, s + 1, X \cup {s}, M, D, d, F)
           /\ IsMemory(p[s]) => Places(p, s + 1, X, M \cup {s}, D, d, F)
<1>1. Len(p) \in Nat /\ s \in 1 .. Len(p)
  BY TraceFacts DEF Positions
<1>2. s + 1 \in 1 .. Len(p) + 1 /\ s \in 1 .. (s + 1) - 1 /\ 1 .. s - 1 \subseteq 1 .. (s + 1) - 1
  BY <1>1
<1>3. s \notin D
  BY <1>1 DEF Places
<1>4. \A i \in Positions(p) : i >= s + 1 => i >= s
  BY <1>1 DEF Positions
<1>5. s >= s
  BY <1>1
<1>6. QED BY <1>2, <1>3, <1>4, <1>5 DEF Places

LEMMA IssueRegisters ==
    ASSUME NEW p, IsTrace(p), NEW s \in Positions(p), NEW X, NEW M, NEW D, NEW d, NEW F,
           Places(p, s, X, M, D, d, F), NEW res, NEW pw, Registers(p, X, M, D, d, F, res, pw),
           p[s].dst \cap res = {}, NEW X1, NEW M1,
           \/ X1 = X \cup {s} /\ M1 = M
           \/ X1 = X /\ M1 = M \cup {s}
    PROVE  Registers(p, X1, M1, D, d, F, res \cup p[s].dst, pw)
<1> DEFINE B == Busy(p, X, M, D, F)
           B1 == Busy(p, X1, M1, D, F)
<1>1. B1 = B \cup {s}
  BY DEF Busy
<1>2. \A i \in B : p[i].dst \subseteq res
  BY DEF Registers
<1>3. p[s].dst # {} => F[s] = 0 /\ s \notin D
  <2>1. p[s].dst # {} => p[s].op # "ldgsts"
    BY TraceFacts
  <2>2. Len(p) \in Nat /\ s \in 1 .. Len(p) /\ s >= s
    BY TraceFacts DEF Positions
  <2>3. QED BY <2>1, <2>2 DEF Places
<1>4. p[s].dst \subseteq Reg
  BY TraceFacts
<1>5. ASSUME NEW r \in p[s].dst PROVE pw[r] = Owed(F, D, d, s)
  BY <1>3, <1>4, <1>5 DEF Registers, Owed
<1> HIDE DEF B, B1
<1>6. res \cup p[s].dst = UNION {p[i].dst : i \in B1}
  BY <1>1 DEF Registers, B
<1>7. \A i, j \in B1 : i # j => p[i].dst \cap p[j].dst = {}
  BY <1>1, <1>2 DEF Registers, B
<1>8. \A i \in B1 : \A r \in p[i].dst : pw[r] = Owed(F, D, d, i)
  BY <1>1, <1>5 DEF Registers, B
<1>9. QED BY <1>6, <1>7, <1>8 DEF Registers, B1

\* An instruction leaves its execution unit.
LEMMA WritebackPlaces ==
    ASSUME NEW p, NEW s, NEW X, NEW M, NEW D, NEW d, NEW F, Places(p, s, X, M, D, d, F), NEW i
    PROVE  Places(p, s, X \ {i}, M, D, d, F)
BY DEF Places

LEMMA WritebackRegisters ==
    ASSUME NEW p, IsTrace(p), NEW s, NEW X, NEW M, NEW D, NEW d, NEW F,
           Places(p, s, X, M, D, d, F), NEW res, NEW pw, Registers(p, X, M, D, d, F, res, pw),
           NEW i \in X, i \in Positions(p)
    PROVE  Registers(p, X \ {i}, M, D, d, F, res \ p[i].dst, pw)
<1> DEFINE B == Busy(p, X, M, D, F)
           B1 == Busy(p, X \ {i}, M, D, F)
<1>1. F[i] = 0 /\ i \notin M /\ i \notin D
  <2>1. ~IsMemory(p[i])
    BY DEF Places
  <2>2. i \notin M /\ i \notin D
    BY <2>1 DEF Places
  <2>3. ~(F[i] > 0) /\ F[i] \in Nat
    BY <2>1 DEF Places, IsMemory
  <2>4. QED BY <2>2, <2>3
<1>2. B1 = B \ {i} /\ i \in B
  BY <1>1 DEF Busy
<1>3. \A r \in p[i].dst : pw[r] = 0
  BY <1>1, <1>2 DEF Registers, Owed
<1> HIDE DEF B, B1
<1>4. res \ p[i].dst = UNION {p[j].dst : j \in B1}
  BY <1>2 DEF Registers, B
<1>5. QED BY <1>2, <1>3, <1>4 DEF Registers, B, B1

\* An instruction comes into the dispatch register, with all its accesses.
LEMMA ToDispatchPlaces ==
    ASSUME NEW p, IsTrace(p), NEW s, NEW X, NEW M, NEW d, NEW F,
           Places(p, s, X, M, {}, d, F), NEW i \in M, i \in Positions(p)
    PROVE  Places(p, s, X, M \ {i}, {i}, p[i].acc, F)
<1>1. p[i].acc \in Nat /\ (p[i].acc > 0 => p[i].op \in {"load", "store", "ldgsts"})
  BY TraceFacts
<1>2. QED BY <1>1 DEF Places

LEMMA ToDispatchRegisters ==
    ASSUME NEW p, IsTrace(p), NEW s, NEW X, NEW M, NEW d, NEW F,
           Places(p, s, X, M, {}, d, F), NEW res, NEW pw, Registers(p, X, M, {}, d, F, res, pw),
           NEW i \in M, i \in Positions(p), NEW pw1,
           pw1 = [r \in Reg |-> IF r \in p[i].dst THEN pw[r] + p[i].acc ELSE pw[r]]
    PROVE  Registers(p, X, M \ {i}, {i}, p[i].acc, F, res, pw1)
<1> DEFINE B == Busy(p, X, M, {}, F)
           B1 == Busy(p, X, M \ {i}, {i}, F)
<1>1. B1 = B /\ i \in B
  BY DEF Busy
<1>2. \A j \in B : p[j].dst \subseteq res
  BY DEF Registers
<1>3. p[i].acc \in Nat /\ p[i].dst \subseteq Reg /\ pw \in [Reg -> Int]
  BY TraceFacts DEF Registers
<1>4. pw1 \in [Reg -> Int]
  BY <1>3
<1>5. ASSUME NEW j \in B, NEW r \in p[j].dst PROVE pw1[r] = Owed(F, {i}, p[i].acc, j)
  <2>1. j \in Positions(p)
    <3>1. X \subseteq Positions(p) /\ M \subseteq Positions(p)
      BY InPositions
    <3>2. QED BY <3>1, <1>5 DEF Busy
  <2>2. pw[r] = F[j] /\ F[j] \in Nat /\ r \in Reg
    <3>1. pw[r] = Owed(F, {}, d, j)
      BY <1>5 DEF Registers
    <3>2. r \in Reg /\ F[j] \in Nat
      BY <1>5, <2>1, TraceFacts DEF Places
    <3>3. QED BY <3>1, <3>2 DEF Owed
  <2>3. CASE j = i
    BY <1>3, <1>5, <2>2, <2>3 DEF Owed
  <2>4. CASE j # i
    <3>1. r \notin p[i].dst
      BY <1>1, <1>5, <2>4 DEF Registers
    <3>2. QED BY <2>2, <2>4, <3>1 DEF Owed
  <2>5. QED BY <2>3, <2>4
<1>6. \A r \in Reg \ res : pw1[r] = 0
  BY <1>1, <1>2 DEF Registers
<1> HIDE DEF B, B1
<1>7. QED BY <1>1, <1>4, <1>5, <1>6 DEF Registers, B, B1

\* An access is sent.
LEMMA AccessPlaces ==
    ASSUME NEW p, NEW s, NEW X, NEW M, NEW d, NEW F, NEW i \in Positions(p),
           Places(p, s, X, M, {i}, d, F), d > 0
    PROVE  Places(p, s, X, M, {i}, d - 1, [F EXCEPT ![i] = @ + 1])
<1> DEFINE G == [F EXCEPT ![i] = @ + 1]
<1>1. d - 1 \in Nat /\ F \in [Positions(p) -> Nat]
  BY DEF Places
<1>2. G \in [Positions(p) -> Nat] /\ \A j \in Positions(p) : j # i => G[j] = F[j]
  BY <1>1
<1>3. p[i].op \in {"load", "store", "ldgsts"} /\ i \notin M /\ ~(i >= s)
  <2>1. s \in Int /\ i \in 1 .. s - 1
    BY DEF Places
  <2>2. ~(i >= s)
    BY <2>1
  <2>3. QED BY <2>2 DEF Places
<1> HIDE DEF G
<1>4. QED BY <1>1, <1>2, <1>3 DEF Places, G

LEMMA AccessRegisters ==
    ASSUME NEW p, IsTrace(p), NEW s, NEW X, NEW M, NEW d, NEW F, NEW i \in Positions(p),
           Places(p, s, X, M, {i}, d, F), d > 0,
           NEW res, NEW pw, Registers(p, X, M, {i}, d, F, res, pw)
    PROVE  Registers(p, X, M, {i}, d - 1, [F EXCEPT ![i] = @ + 1], res, pw)
<1> DEFINE G == [F EXCEPT ![i] = @ + 1]
           B == Busy(p, X, M, {i}, F)
           B1 == Busy(p, X, M, {i}, G)
<1>1. d \in Nat /\ F \in [Positions(p) -> Nat] /\ X \subseteq Positions(p) /\ M \subseteq Positions(p)
  <2>1. X \subseteq Positions(p) /\ M \subseteq Positions(p)
    BY InPositions
  <2>2. QED BY <2>1 DEF Places
<1>2. G[i] = F[i] + 1 /\ \A j \in Positions(p) : j # i => G[j] = F[j]
  BY <1>1
<1> HIDE DEF G
<1>3. B1 = B
  BY <1>2 DEF Busy
<1>4. B \subseteq Positions(p)
  BY <1>1 DEF Busy
<1>5. ASSUME NEW j \in B PROVE Owed(G, {i}, d - 1, j) = Owed(F, {i}, d, j)
  <2>1. F[j] \in Nat
    BY <1>1, <1>4
  <2>2. CASE j = i
    BY <1>1, <1>2, <2>1, <2>2 DEF Owed
  <2>3. CASE j # i
    BY <1>2, <1>4, <1>5, <2>3 DEF Owed
  <2>4. QED BY <2>2, <2>3
<1> HIDE DEF B, B1
<1>6. QED BY <1>3, <1>5 DEF Registers, B, B1, G

\* An access hits.
LEMMA AccessHitsPlaces ==
    ASSUME NEW p, NEW s, NEW X, NEW M, NEW D, NEW d, NEW F, Places(p, s, X, M, D, d, F), d > 0
    PROVE  Places(p, s, X, M, D, d - 1, F)
BY DEF Places

LEMMA AccessHitsRegisters ==
    ASSUME NEW p, IsTrace(p), NEW s, NEW X, NEW M, NEW d, NEW F, NEW i \in Positions(p),
           Places(p, s, X, M, {i}, d, F), d > 0,
           NEW res, NEW pw, Registers(p, X, M, {i}, d, F, res, pw), NEW pw1,
           pw1 = [r \in Reg |-> IF r \in p[i].dst THEN pw[r] - 1 ELSE pw[r]]
    PROVE  Registers(p, X, M, {i}, d - 1, F, res, pw1)
<1> DEFINE B == Busy(p, X, M, {i}, F)
<1>1. i \in B
  BY DEF Busy
<1>2. \A j \in B : p[j].dst \subseteq res
  BY DEF Registers
<1>3. p[i].dst \subseteq Reg /\ pw \in [Reg -> Int] /\ d \in Nat
  BY TraceFacts DEF Registers, Places
<1>4. pw1 \in [Reg -> Int]
  BY <1>3
<1>5. ASSUME NEW j \in B, NEW r \in p[j].dst PROVE pw1[r] = Owed(F, {i}, d - 1, j)
  <2>1. pw[r] = Owed(F, {i}, d, j)
    BY <1>5 DEF Registers
  <2>2. j \in Positions(p)
    BY <1>5, InPositions DEF Busy
  <2>3. r \in Reg /\ F[j] \in Nat
    BY <1>5, <2>2, TraceFacts DEF Places
  <2>4. CASE j = i
    BY <1>3, <1>5, <2>1, <2>3, <2>4 DEF Owed
  <2>5. CASE j # i
    <3>1. r \notin p[i].dst
      BY <1>1, <1>5, <2>5 DEF Registers
    <3>2. QED BY <2>1, <2>3, <2>5, <3>1 DEF Owed
  <2>6. QED BY <2>4, <2>5
<1>6. \A r \in Reg \ res : pw1[r] = 0
  BY <1>1, <1>2 DEF Registers
<1> HIDE DEF B
<1>7. QED BY <1>4, <1>5, <1>6 DEF Registers, B

\* An instruction leaves the load/store unit, with its registers if its
\* accesses have been answered.
LEMMA LeavePlaces ==
    ASSUME NEW p, NEW s, NEW X, NEW M, NEW D, NEW d, NEW F, Places(p, s, X, M, D, d, F)
    PROVE  Places(p, s, X, M, {}, 0, F)
BY DEF Places

LEMMA LeaveRegisters ==
    ASSUME NEW p, IsTrace(p), NEW s, NEW X, NEW M, NEW F, NEW i \in Positions(p),
           Places(p, s, X, M, {i}, 0, F),
           NEW res, NEW pw, Registers(p, X, M, {i}, 0, F, res, pw), NEW res1,
           res1 = IF \A r \in p[i].dst : pw[r] = 0 THEN res \ p[i].dst ELSE res
    PROVE  Registers(p, X, M, {}, 0, F, res1, pw)
<1> DEFINE B == Busy(p, X, M, {i}, F)
           B1 == Busy(p, X, M, {}, F)
<1>1. i \in B /\ F[i] \in Nat
  BY DEF Busy, Places
<1>2. i \notin X /\ i \notin M
  BY DEF Places
<1>3. B1 = IF F[i] = 0 THEN B \ {i} ELSE B
  <2>1. X \subseteq Positions(p) /\ M \subseteq Positions(p)
    BY InPositions
  <2>2. CASE F[i] = 0
    BY <1>2, <2>1, <2>2 DEF Busy
  <2>3. CASE F[i] # 0
    BY <1>1, <2>3 DEF Busy
  <2>4. QED BY <2>2, <2>3
<1>4. \A r \in p[i].dst : pw[r] = F[i]
  <2>1. Owed(F, {i}, 0, i) = F[i]
    BY <1>1 DEF Owed
  <2>2. QED BY <1>1, <2>1 DEF Registers
<1>5. ASSUME NEW j \in B PROVE Owed(F, {}, 0, j) = Owed(F, {i}, 0, j)
  <2>1. (IF j \in {} THEN 0 ELSE 0) = 0 /\ (IF j \in {i} THEN 0 ELSE 0) = 0
    OBVIOUS
  <2>2. QED BY <2>1 DEF Owed
<1>6. CASE F[i] = 0
  <2>1. res1 = res \ p[i].dst /\ B1 = B \ {i}
    BY <1>3, <1>4, <1>6
  <2>2. res1 = UNION {p[j].dst : j \in B1}
    <3>1. /\ res = UNION {p[j].dst : j \in B}
          /\ \A j \in B : j # i => p[j].dst \cap p[i].dst = {}
      BY <1>1 DEF Registers
    <3> HIDE DEF B, B1
    <3>2. QED BY <1>1, <2>1, <3>1
  <2>3. \A r \in Reg \ res1 : pw[r] = 0
    BY <1>4, <1>6, <2>1 DEF Registers
  <2> HIDE DEF B, B1
  <2>4. QED BY <1>5, <2>1, <2>2, <2>3 DEF Registers, B, B1
<1>7. CASE F[i] # 0
  <2>1. B1 = B
    BY <1>3, <1>7
  <2>2. res1 = res
    BY <1>4, <1>7
  <2> HIDE DEF B, B1
  <2>3. QED BY <1>5, <2>1, <2>2 DEF Registers, B, B1
<1>8. QED BY <1>6, <1>7

\* An access is answered.
LEMMA AnswerPlaces ==
    ASSUME NEW p, NEW s, NEW X, NEW M, NEW D, NEW d, NEW F, NEW i \in Positions(p),
           Places(p, s, X, M, D, d, F), F[i] > 0
    PROVE  Places(p, s, X, M, D, d, [F EXCEPT ![i] = @ - 1])
<1> DEFINE G == [F EXCEPT ![i] = @ - 1]
<1>1. F \in [Positions(p) -> Nat]
  BY DEF Places
<1>2. G \in [Positions(p) -> Nat] /\ \A j \in Positions(p) : j # i => G[j] = F[j]
  BY <1>1
<1> HIDE DEF G
<1>3. \A j \in Positions(p) : (G[j] > 0 => F[j] > 0) /\ (F[j] = 0 => G[j] = 0)
  BY <1>1, <1>2
<1>4. QED BY <1>2, <1>3 DEF Places, G

LEMMA AnswerRegisters ==
    ASSUME NEW p, IsTrace(p), NEW s, NEW X, NEW M, NEW D, NEW d, NEW F, NEW i \in Positions(p),
           Places(p, s, X, M, D, d, F), F[i] > 0, ~(i \in D /\ d = 0),
           NEW res, NEW pw, Registers(p, X, M, D, d, F, res, pw), NEW res1, NEW pw1,
           pw1 = [r \in Reg |-> IF r \in p[i].dst THEN pw[r] - 1 ELSE pw[r]],
           res1 = res \ {r \in p[i].dst : pw[r] = 1}
    PROVE  Registers(p, X, M, D, d, [F EXCEPT ![i] = @ - 1], res1, pw1)
<1> DEFINE G == [F EXCEPT ![i] = @ - 1]
           B == Busy(p, X, M, D, F)
           B1 == Busy(p, X, M, D, G)
           o == Owed(F, D, d, i)
<1>1. F \in [Positions(p) -> Nat] /\ d \in Nat /\ i \in B
  BY DEF Places, Busy
<1>2. G \in [Positions(p) -> Nat] /\ G[i] = F[i] - 1
      /\ \A j \in Positions(p) : j # i => G[j] = F[j]
  BY <1>1
<1> HIDE DEF G
<1>3. /\ X \subseteq Positions(p) /\ M \subseteq Positions(p) /\ D \subseteq Positions(p)
      /\ B \subseteq Positions(p)
  <2>1. X \subseteq Positions(p) /\ M \subseteq Positions(p) /\ D \subseteq Positions(p)
    BY InPositions
  <2>2. QED BY <2>1 DEF Busy
<1>4. /\ p[i].dst \subseteq Reg /\ pw \in [Reg -> Int] /\ o \in Nat /\ o > 0
      /\ \A r \in p[i].dst : pw[r] = o
  <2>1. o \in Nat /\ o > 0
    BY <1>1 DEF Owed
  <2>2. QED BY <1>1, <2>1, TraceFacts DEF Registers
\* The instruction is one that reads memory, and it stays unless this was the last access.
<1>5. p[i].dst # {} => B1 = IF o = 1 THEN B \ {i} ELSE B
  <2> SUFFICES ASSUME p[i].dst # {} PROVE B1 = IF o = 1 THEN B \ {i} ELSE B
    OBVIOUS
  <2>1. p[i].op \in {"load", "store", "ldgsts"} /\ p[i].op # "ldgsts"
    BY TraceFacts DEF Places
  <2>2. i \notin X /\ i \notin M
    BY <2>1 DEF Places, IsMemory
  <2>3. CASE i \in D
    <3>1. o = F[i] + d /\ o # 1
      BY <1>1, <2>3 DEF Owed
    <3>2. B1 = B
      BY <1>1, <1>2, <1>3, <2>3 DEF Busy
    <3>3. QED BY <3>1, <3>2
  <2>4. CASE i \notin D
    <3>1. o = F[i]
      BY <1>1, <2>4 DEF Owed
    <3>2. CASE F[i] = 1
      <4>1. G[i] = 0
        BY <1>2, <3>2
      <4>2. B1 = B \ {i}
        BY <1>2, <1>3, <2>2, <2>4, <4>1 DEF Busy
      <4>3. QED BY <3>1, <3>2, <4>2
    <3>3. CASE F[i] # 1
      <4>1. G[i] > 0
        BY <1>1, <1>2, <3>3
      <4>2. B1 = B
        BY <1>2, <1>3, <4>1 DEF Busy
      <4>3. QED BY <3>1, <3>3, <4>2
    <3>4. QED BY <3>2, <3>3
  <2>5. QED BY <2>3, <2>4
<1>6. p[i].dst = {} => \A j \in B1 : j \in B
  BY <1>1, <1>2 DEF Busy
<1>7. \A j \in B : j # i => j \in B1
  BY <1>2 DEF Busy
<1>8. B1 \subseteq B
  BY <1>5, <1>6
<1>9. pw1 \in [Reg -> Int]
  BY <1>4
<1>10. ASSUME NEW j \in B1, NEW r \in p[j].dst PROVE pw1[r] = Owed(G, D, d, j)
  <2>1. j \in B /\ pw[r] = Owed(F, D, d, j)
    BY <1>8, <1>10 DEF Registers
  <2>2. r \in Reg /\ F[j] \in Nat
    BY <1>1, <1>3, <1>10, <2>1, TraceFacts
  <2>3. CASE j = i
    BY <1>1, <1>2, <1>10, <2>1, <2>2, <2>3 DEF Owed
  <2>4. CASE j # i
    <3>1. r \notin p[i].dst
      BY <1>1, <1>10, <2>1, <2>4 DEF Registers
    <3>2. G[j] = F[j]
      BY <1>2, <1>3, <2>1, <2>4
    <3>3. QED BY <2>1, <2>2, <3>1, <3>2 DEF Owed
  <2>5. QED BY <2>3, <2>4
<1>11. res = UNION {p[j].dst : j \in B} /\ \A j \in B : j # i => p[j].dst \cap p[i].dst = {}
  BY <1>1 DEF Registers
<1> HIDE DEF B, B1, o
<1>12. {r \in p[i].dst : pw[r] = 1} = IF o = 1 THEN p[i].dst ELSE {}
  BY <1>4
<1>13. res1 = UNION {p[j].dst : j \in B1}
  <2>1. CASE p[i].dst = {}
    BY <1>1, <1>7, <1>8, <1>11, <2>1
  <2>2. CASE p[i].dst # {} /\ o = 1
    BY <1>1, <1>5, <1>11, <1>12, <2>2
  <2>3. CASE p[i].dst # {} /\ o # 1
    BY <1>5, <1>11, <1>12, <2>3
  <2>4. QED BY <2>1, <2>2, <2>3
<1>14. \A r \in Reg \ res1 : pw1[r] = 0
  <2> TAKE r \in Reg \ res1
  <2>1. CASE r \in p[i].dst
    <3>1. r \in res
      BY <1>1, <1>11, <2>1
    <3>2. pw[r] = 1
      BY <2>1, <3>1
    <3>3. QED BY <2>1, <3>2
  <2>2. CASE r \notin p[i].dst
    BY <2>2 DEF Registers
  <2>3. QED BY <2>1, <2>2
<1>15. \A j, k \in B1 : j # k => p[j].dst \cap p[k].dst = {}
  BY <1>8 DEF Registers, B
<1>16. QED BY <1>9, <1>10, <1>13, <1>14, <1>15 DEF Registers, B1, G

\* The stores counter follows the accesses of stores that are under way.
LEMMA StoresMember ==
    ASSUME NEW p, NEW F, \A i \in Positions(p) : F[i] \in Nat, NEW x
    PROVE  x \in Stores(p, F) <=>
              \E i \in Positions(p), n \in Nat :
                 p[i].op = "store" /\ n > 0 /\ n <= F[i] /\ x = <<i, n>>
<1>1. x \in Stores(p, F) <=>
         \E i \in Positions(p) : p[i].op = "store" /\ \E n \in 1 .. F[i] : x = <<i, n>>
  BY DEF Stores
<1>2. \A i \in Positions(p) : \A n : n \in 1 .. F[i] <=> n \in Nat /\ n > 0 /\ n <= F[i]
  OBVIOUS
<1>3. QED BY <1>1, <1>2

\* One more when an access of a store is sent ...
LEMMA StoreSent ==
    ASSUME NEW p, NEW F \in [Positions(p) -> Nat], NEW i \in Positions(p), IsFiniteSet(Stores(p, F))
    PROVE  LET T == Stores(p, [F EXCEPT ![i] = @ + 1]) IN
           /\ IsFiniteSet(T)
           /\ Cardinality(T) = Cardinality(Stores(p, F)) + (IF p[i].op = "store" THEN 1 ELSE 0)
<1> DEFINE G == [F EXCEPT ![i] = @ + 1]
           x == <<i, F[i] + 1>>
           S == Stores(p, F)
           T == Stores(p, G)
<1>1. /\ F[i] \in Nat /\ G[i] = F[i] + 1 /\ \A j \in Positions(p) : F[j] \in Nat
      /\ \A j \in Positions(p) : j # i => G[j] = F[j]
      /\ \A j \in Positions(p) : G[j] \in Nat
  OBVIOUS
<1> HIDE DEF G
<1>2. CASE p[i].op = "store"
  <2>1. x \notin S
    <3> SUFFICES ASSUME NEW j \in Positions(p), NEW n \in Nat, n <= F[j], x = <<j, n>> PROVE FALSE
      BY <1>1, StoresMember
    <3>1. i = j /\ F[i] + 1 = n
      OBVIOUS
    <3>2. QED BY <1>1, <3>1
  <2>2. ASSUME NEW y PROVE y \in T <=> y \in S \cup {x}
    <3>1. ASSUME y \in T PROVE y \in S \cup {x}
      <4>1. PICK j \in Positions(p), n \in Nat :
                p[j].op = "store" /\ n > 0 /\ n <= G[j] /\ y = <<j, n>>
        BY <1>1, <3>1, StoresMember
      <4>2. CASE n <= F[j]
        BY <1>1, <4>1, <4>2, StoresMember
      <4>3. CASE ~(n <= F[j])
        <5>1. j = i /\ n = F[i] + 1
          BY <1>1, <4>1, <4>3
        <5>2. QED BY <4>1, <5>1
      <4>4. QED BY <4>2, <4>3
    <3>2. ASSUME y \in S PROVE y \in T
      <4>1. PICK j \in Positions(p), n \in Nat :
                p[j].op = "store" /\ n > 0 /\ n <= F[j] /\ y = <<j, n>>
        BY <1>1, <3>2, StoresMember
      <4>2. n <= G[j]
        BY <1>1, <4>1
      <4>3. QED BY <1>1, <4>1, <4>2, StoresMember
    <3>3. x \in T
      <4>1. F[i] + 1 <= G[i] /\ F[i] + 1 > 0 /\ F[i] + 1 \in Nat
        BY <1>1
      <4>2. QED BY <1>1, <1>2, <4>1, StoresMember
    <3>4. QED BY <3>1, <3>2, <3>3
  <2>3. T = S \cup {x}
    BY <2>2
  <2> HIDE DEF S, T, x
  <2>4. IsFiniteSet(S)
    BY DEF S
  <2>5. IsFiniteSet(T) /\ Cardinality(T) = Cardinality(S) + 1
    BY <2>1, <2>3, <2>4, FS_AddElement
  <2>6. QED BY <1>2, <2>5 DEF S, T, G
<1>3. CASE p[i].op # "store"
  <2>1. \A y : y \in T <=> y \in S
    <3>1. ASSUME NEW y PROVE y \in T <=> y \in S
      <4>1. \A j \in Positions(p) : p[j].op = "store" => G[j] = F[j]
        BY <1>1, <1>3
      <4>2. QED BY <1>1, <4>1, StoresMember
    <3>2. QED BY <3>1
  <2>2. T = S
    BY <2>1
  <2>3. Cardinality(S) \in Nat
    BY FS_CardinalityType
  <2> HIDE DEF T
  <2>4. Cardinality(T) = Cardinality(S) + 0
    BY <2>2, <2>3
  <2>5. QED BY <1>3, <2>2, <2>4 DEF T, G
<1>4. QED BY <1>2, <1>3

\* ... and one fewer when it is acknowledged.
LEMMA StoreAcknowledged ==
    ASSUME NEW p, NEW F \in [Positions(p) -> Nat], NEW i \in Positions(p), F[i] > 0,
           IsFiniteSet(Stores(p, F))
    PROVE  LET T == Stores(p, [F EXCEPT ![i] = @ - 1]) IN
           /\ IsFiniteSet(T)
           /\ Cardinality(T) = Cardinality(Stores(p, F)) - (IF p[i].op = "store" THEN 1 ELSE 0)
<1> DEFINE G == [F EXCEPT ![i] = @ - 1]
           x == <<i, F[i]>>
           S == Stores(p, F)
           T == Stores(p, G)
<1>1. /\ F[i] \in Nat /\ G[i] = F[i] - 1 /\ \A j \in Positions(p) : F[j] \in Nat
      /\ \A j \in Positions(p) : j # i => G[j] = F[j]
      /\ \A j \in Positions(p) : G[j] \in Nat
  OBVIOUS
<1> HIDE DEF G
<1>2. CASE p[i].op = "store"
  <2>1. x \in S
    <3>1. F[i] <= F[i] /\ F[i] \in Nat
      BY <1>1
    <3>2. QED BY <1>1, <1>2, <3>1, StoresMember
  <2>2. ASSUME NEW y PROVE y \in T <=> y \in S \ {x}
    <3>1. ASSUME y \in T PROVE y \in S \ {x}
      <4>1. PICK j \in Positions(p), n \in Nat :
                p[j].op = "store" /\ n > 0 /\ n <= G[j] /\ y = <<j, n>>
        BY <1>1, <3>1, StoresMember
      <4>2. n <= F[j] /\ ~(j = i /\ n = F[i])
        BY <1>1, <4>1
      <4>3. y \in S
        BY <1>1, <4>1, <4>2, StoresMember
      <4>4. y # x
        BY <4>1, <4>2
      <4>5. QED BY <4>3, <4>4
    <3>2. ASSUME y \in S, y # x PROVE y \in T
      <4>1. PICK j \in Positions(p), n \in Nat :
                p[j].op = "store" /\ n > 0 /\ n <= F[j] /\ y = <<j, n>>
        BY <1>1, <3>2, StoresMember
      <4>2. n <= G[j]
        BY <1>1, <3>2, <4>1
      <4>3. QED BY <1>1, <4>1, <4>2, StoresMember
    <3>3. QED BY <3>1, <3>2
  <2>3. T = S \ {x}
    BY <2>2
  <2> HIDE DEF S, T, x
  <2>4. IsFiniteSet(S)
    BY DEF S
  <2>5. IsFiniteSet(T) /\ Cardinality(T) = Cardinality(S) - 1
    BY <2>1, <2>3, <2>4, FS_RemoveElement
  <2>6. QED BY <1>2, <2>5 DEF S, T, G
<1>3. CASE p[i].op # "store"
  <2>1. \A y : y \in T <=> y \in S
    <3>1. ASSUME NEW y PROVE y \in T <=> y \in S
      <4>1. \A j \in Positions(p) : p[j].op = "store" => G[j] = F[j]
        BY <1>1, <1>3
      <4>2. QED BY <1>1, <4>1, StoresMember
    <3>2. QED BY <3>1
  <2>2. T = S
    BY <2>1
  <2>3. Cardinality(S) \in Nat
    BY FS_CardinalityType
  <2> HIDE DEF T
  <2>4. Cardinality(T) = Cardinality(S) - 0
    BY <2>2, <2>3
  <2>5. QED BY <1>3, <2>2, <2>4 DEF T, G
<1>4. QED BY <1>2, <1>3

\* The barriers among the instructions before position s.
Bars(p, s) == Cardinality({i \in 1 .. s - 1 : p[i].op = "bar"})

\* It counts one more when a barrier is issued.
LEMMA BarsNext ==
    ASSUME NEW p, NEW s \in Nat, s > 0
    PROVE  /\ Bars(p, s) \in Nat
           /\ Bars(p, s + 1) = Bars(p, s) + (IF p[s].op = "bar" THEN 1 ELSE 0)
<1> DEFINE S == {i \in 1 .. s - 1 : p[i].op = "bar"}
           T == {i \in 1 .. (s + 1) - 1 : p[i].op = "bar"}
<1>1. S \in SUBSET (1 .. s - 1) /\ IsFiniteSet(1 .. s - 1)
  BY FS_Interval
<1>2. IsFiniteSet(S) /\ s \notin S
  BY <1>1, FS_Subset
<1>3. Cardinality(S) \in Nat
  BY <1>2, FS_CardinalityType
<1>4. CASE p[s].op = "bar"
  <2>1. T = S \cup {s}
    BY <1>4
  <2> HIDE DEF S, T
  <2>2. Cardinality(T) = Cardinality(S) + 1
    BY <1>2, <2>1, FS_AddElement
  <2>3. Bars(p, s) = Cardinality(S) /\ Bars(p, s + 1) = Cardinality(T)
    BY DEF Bars, S, T
  <2>4. QED BY <1>3, <1>4, <2>2, <2>3
<1>5. CASE p[s].op # "bar"
  <2>1. T = S
    BY <1>5
  <2> HIDE DEF S, T
  <2>2. Bars(p, s) = Cardinality(S) /\ Bars(p, s + 1) = Cardinality(T)
    BY DEF Bars, S, T
  <2>3. QED BY <1>3, <1>5, <2>1, <2>2
<1>6. QED BY <1>4, <1>5

-----------------------------------------------------------------------------
(* The constants, and what a step leaves alone *)

LEMMA Constants ==
    /\ NoWarp \notin Warp
    /\ \A c \in Cta : warpsOf[c] \subseteq Warp /\ IsFiniteSet(warpsOf[c]) /\ warpsOf[c] # {}
    /\ \A w \in Warp : CtaOf(w) \in Cta /\ w \in warpsOf[CtaOf(w)]
    /\ \A c \in Cta : \A w \in warpsOf[c] : CtaOf(w) = c
<1>1. /\ NoWarp \notin Warp /\ IsFiniteSet(Warp) /\ warpsOf \in [Cta -> SUBSET Warp]
      /\ \A c \in Cta : warpsOf[c] # {}
  BY CoreAssumption
<1>2. \A c \in Cta : warpsOf[c] \subseteq Warp /\ IsFiniteSet(warpsOf[c])
  BY <1>1, FS_Subset
<1>3. \A w \in Warp : \E c \in Cta : w \in warpsOf[c]
  <2>1. UNION Range(warpsOf) = Warp
    BY CoreAssumption
  <2>2. QED BY <1>1, <2>1 DEF Range
<1>4. \A w \in Warp : CtaOf(w) \in Cta /\ w \in warpsOf[CtaOf(w)]
  BY <1>3 DEF CtaOf
<1>5. \A c, d \in Cta : c # d => warpsOf[c] \cap warpsOf[d] = {}
  BY CoreAssumption
<1>6. ASSUME NEW c \in Cta, NEW w \in warpsOf[c] PROVE CtaOf(w) = c
  <2>1. w \in Warp
    BY <1>2
  <2>2. CtaOf(w) \in Cta /\ w \in warpsOf[CtaOf(w)]
    BY <1>4, <2>1
  <2>3. QED BY <1>5, <2>2
<1>7. QED BY <1>1, <1>2, <1>4, <1>6

LEMMA Programs ==
    ASSUME TypeOK, NEW w \in Warp
    PROVE  IsTrace(program[w]) /\ Pos(w) = Positions(program[w]) /\ Len(program[w]) \in Nat
<1>1. config.kernel \in DOMAIN programs
  BY CoreAssumption DEF TypeOK, Config
<1>2. IsTrace(program[w])
  BY <1>1, CoreAssumption DEF program
<1>3. QED BY <1>2, TraceFacts DEF Pos, Positions

LEMMA SamePrograms ==
    ASSUME config' = config
    PROVE  program' = program /\ \A w : Pos(w)' = Pos(w)
BY DEF program, Pos

\* The numbers of a warp.
LEMMA WarpNumbers ==
    ASSUME TypeOK, NEW w \in Warp, WarpOK(w)
    PROVE  /\ trace[w] \in Nat /\ Len(ibuffer[w]) \in Nat /\ ibuffer[w] \in Seq(Nat)
           /\ Started(w) \in Nat /\ Started(w) > 0 /\ Started(w) <= Len(program[w]) + 1
           /\ trace[w] = Started(w) + Len(ibuffer[w])
<1>1. trace[w] \in Nat /\ ibuffer[w] \in Seq(Nat) /\ Started(w) > 0
      /\ trace[w] <= Len(program[w]) + 1
  BY DEF WarpOK, FrontOK
<1>2. Len(ibuffer[w]) \in Nat /\ Len(program[w]) \in Nat
  BY <1>1, LenProperties, Programs
<1>3. Started(w) = trace[w] - Len(ibuffer[w])
  BY DEF Started
<1>4. QED BY <1>1, <1>2, <1>3

\* What InPipeline and Barriers of the model are here.
LEMMA Abbreviations ==
    ASSUME TypeOK, NEW w \in Warp, WarpOK(w)
    PROVE  /\ InPipeline(w) = Executing(w) \cup InMemOut(w) \cup Dispatched(w)
           /\ IsFiniteSet(InPipeline(w))
           /\ Outstanding(w) = Busy(program[w], Executing(w), InMemOut(w), Dispatched(w), flight[w])
           /\ Unacknowledged(w) = Stores(program[w], flight[w])
           /\ Barriers(w) = Bars(program[w], Started(w))
<1>1. InPipeline(w) = Executing(w) \cup InMemOut(w) \cup Dispatched(w)
  BY DEF InPipeline, InLdst, Executing, InMemOut, Dispatched
<1>2. Pos(w) = Positions(program[w]) /\ Len(program[w]) \in Nat
  BY Programs
<1>3. IsFiniteSet(Pos(w))
  BY <1>2, FS_Interval DEF Positions
<1>4. InPipeline(w) \in SUBSET Pos(w)
  BY <1>1 DEF Executing, InMemOut, Dispatched
<1>5. IsFiniteSet(InPipeline(w))
  BY <1>3, <1>4, FS_Subset
<1>6. Outstanding(w) = Busy(program[w], Executing(w), InMemOut(w), Dispatched(w), flight[w])
  BY <1>1, <1>2 DEF Outstanding, Busy
<1>7. Unacknowledged(w) = Stores(program[w], flight[w])
  BY <1>2 DEF Unacknowledged, Stores
<1>8. trace[w] - 1 - Len(ibuffer[w]) = Started(w) - 1
  BY WarpNumbers
<1>9. Barriers(w) = Bars(program[w], Started(w))
  BY <1>8 DEF Barriers, IssuedPos, Bars
<1>10. QED BY <1>1, <1>5, <1>6, <1>7, <1>9

\* A step that leaves the instructions of warp v where they are, and one that
\* does not concern it at all.
Aside(v) ==
    /\ config' = config
    /\ trace'[v] = trace[v] /\ ibuffer'[v] = ibuffer[v]
    /\ v \in completed' <=> v \in completed
    /\ inPipe'[v] = inPipe[v] /\ stores'[v] = stores[v] /\ reserved'[v] = reserved[v]
    /\ pendingWrites'[v] = pendingWrites[v] /\ flight'[v] = flight[v]
    /\ \A i : <<v, i>> \in exec' <=> <<v, i>> \in exec
    /\ \A i : <<v, i>> \in memOut' <=> <<v, i>> \in memOut
    /\ Dispatched(v)' = Dispatched(v) /\ AccessesLeft(v)' = AccessesLeft(v)

Untouched(v) == Aside(v) /\ (fetched' = v => fetched = v) /\ (v \in imiss' => v \in imiss)

LEMMA AsideFrame ==
    ASSUME NEW v \in Warp, WarpOK(v), Aside(v)
    PROVE  /\ PlacesOK(v)' /\ RegistersOK(v)' /\ CountersOK(v)' /\ CompletedOK(v)'
           /\ Started(v)' = Started(v)
<1>1. program' = program /\ Pos(v)' = Pos(v)
  BY SamePrograms DEF Aside
<1>2. Executing(v)' = Executing(v) /\ InMemOut(v)' = InMemOut(v) /\ Started(v)' = Started(v)
  BY <1>1 DEF Aside, Executing, InMemOut, Started
<1>3. InPipeline(v)' = InPipeline(v)
  <2>1. InPipeline(v) = Executing(v) \cup InMemOut(v) \cup Dispatched(v)
    BY DEF InPipeline, InLdst, Executing, InMemOut, Dispatched
  <2>2. InPipeline(v)' = Executing(v)' \cup InMemOut(v)' \cup Dispatched(v)'
    BY DEF InPipeline, InLdst, Executing, InMemOut, Dispatched
  <2>3. QED BY <1>2, <2>1, <2>2 DEF Aside
<1>4. Unacknowledged(v)' = Unacknowledged(v)
  BY <1>1 DEF Aside, Unacknowledged
<1>5. PlacesOK(v)'
  BY <1>1, <1>2 DEF WarpOK, PlacesOK, Aside
<1>6. RegistersOK(v)'
  BY <1>1, <1>2 DEF WarpOK, RegistersOK, Aside
<1>7. CountersOK(v)'
  BY <1>3, <1>4 DEF WarpOK, CountersOK, Aside
<1>8. CompletedOK(v)'
  BY <1>1, <1>3 DEF WarpOK, CompletedOK, Aside
<1>9. QED BY <1>2, <1>5, <1>6, <1>7, <1>8

LEMMA WarpFrame ==
    ASSUME NEW v \in Warp, WarpOK(v), Untouched(v)
    PROVE  WarpOK(v)' /\ Started(v)' = Started(v)
<1>1. /\ PlacesOK(v)' /\ RegistersOK(v)' /\ CountersOK(v)' /\ CompletedOK(v)'
      /\ Started(v)' = Started(v)
  BY AsideFrame DEF Untouched
<1>2. program' = program
  BY SamePrograms DEF Untouched, Aside
<1>3. FrontOK(v)'
  BY <1>1, <1>2 DEF WarpOK, FrontOK, Untouched, Aside
<1>4. QED BY <1>1, <1>3 DEF WarpOK

\* A step that leaves the front of the core alone.
LEMMA FrontFrame ==
    ASSUME NEW v \in Warp, WarpOK(v), UNCHANGED <<config, frontVars, completed>>
    PROVE  FrontOK(v)' /\ Started(v)' = Started(v)
<1>1. program' = program
  BY SamePrograms
<1>2. QED BY <1>1 DEF WarpOK, FrontOK, Started, frontVars

\* The barriers a warp has passed, before and after a step.
LEMMA BarriersStep ==
    ASSUME TypeOK, config' = config, NEW v \in Warp, WarpOK(v), WarpOK(v)'
    PROVE  /\ Barriers(v) = Bars(program[v], Started(v)) /\ Barriers(v) \in Nat
           /\ Barriers(v)' = Bars(program[v], Started(v)')
<1>1. program' = program
  BY SamePrograms
<1>2. Barriers(v) = Bars(program[v], Started(v))
  BY Abbreviations
<1>3. Barriers(v) \in Nat
  BY <1>2, WarpNumbers, BarsNext
<1>4. trace'[v] - 1 - Len(ibuffer'[v]) = Started(v)' - 1
  BY LenProperties DEF WarpOK, FrontOK, Started
<1>5. Barriers(v)' = Bars(program'[v], Started(v)')
  BY <1>4 DEF Barriers, IssuedPos, Bars
<1>6. QED BY <1>1, <1>2, <1>3, <1>5

\* A step that issues nothing and leaves the barrier set alone, ...
LEMMA BarrierFrame ==
    ASSUME Inv, TypeOK', \A v \in Warp : WarpOK(v)' /\ Started(v)' = Started(v),
           UNCHANGED <<config, completed, active, atBarrier, arrived>>
    PROVE  BarrierSetOK' /\ BarriersOK'
<1>1. program' = program
  BY SamePrograms
<1>2. BarrierSetOK'
  BY <1>1 DEF Inv, BarrierSetOK, TypeOK
<1>3. \A v \in Warp : Barriers(v)' = Barriers(v)
  BY BarriersStep DEF Inv
<1>4. BarriersOK'
  BY <1>3, Constants DEF Inv, BarriersOK
<1>5. QED BY <1>2, <1>4

\* ... and the CTAs as well.
LEMMA CoreFrame ==
    ASSUME Inv, TypeOK', \A v \in Warp : WarpOK(v)' /\ Started(v)' = Started(v),
           UNCHANGED <<config, status, completed, doneExit, active, atBarrier, arrived>>
    PROVE  Inv'
<1>1. StatusOK'
  BY DEF Inv, StatusOK
<1>2. BarrierSetOK' /\ BarriersOK'
  BY BarrierFrame
<1>3. QED BY <1>1, <1>2 DEF Inv

-----------------------------------------------------------------------------
(* Every step keeps the invariant *)

LEMMA InitInv ==
    ASSUME Init
    PROVE  Inv
<1>1. /\ config \in Configs /\ ctas = config.ctas /\ status = [c \in Cta |-> 0]
      /\ trace = [w \in Warp |-> 1] /\ ibuffer = [w \in Warp |-> <<>>]
      /\ fetched = NoWarp /\ imiss = {} /\ completed = Warp /\ doneExit = Warp
      /\ inPipe = [w \in Warp |-> 0] /\ stores = [w \in Warp |-> 0]
      /\ reserved = [w \in Warp |-> {}] /\ membar = {}
      /\ active = {} /\ atBarrier = {} /\ arrived = {}
      /\ exec = {} /\ memOut = {} /\ dispatch = <<>>
      /\ pendingWrites = [w \in Warp |-> [r \in Reg |-> 0]]
      /\ flight = [w \in Warp |-> [i \in Pos(w) |-> 0]]
  BY DEF Init
<1>2. TypeOK
  <2>1. config.ctas \in Nat
    BY <1>1, CoreAssumption DEF Config
  <2>2. QED BY <1>1, <2>1 DEF TypeOK
<1>3. ASSUME NEW w \in Warp PROVE WarpOK(w)
  <2>1. IsTrace(program[w]) /\ Pos(w) = Positions(program[w]) /\ Len(program[w]) \in Nat
    BY <1>2, Programs
  <2>2. Len(program[w]) > 0
    BY <2>1, TraceFacts
  <2>3. /\ trace[w] = 1 /\ ibuffer[w] = <<>> /\ Len(ibuffer[w]) = 0 /\ Started(w) = 1
        /\ flight[w] = [i \in Pos(w) |-> 0]
    BY <1>1 DEF Started
  <2>4. /\ Executing(w) = {} /\ InMemOut(w) = {} /\ Dispatched(w) = {} /\ AccessesLeft(w) = 0
    BY <1>1 DEF Executing, InMemOut, Dispatched, AccessesLeft
  <2>5. InPipeline(w) = {}
    BY <1>1 DEF InPipeline, InLdst
  <2>6. FrontOK(w)
    BY <1>1, <2>1, <2>2, <2>3, Constants DEF FrontOK
  <2>7. PlacesOK(w)
    BY <2>1, <2>2, <2>3, <2>4 DEF PlacesOK, Places
  <2>8. RegistersOK(w)
    <3>1. Busy(program[w], {}, {}, {}, flight[w]) = {}
      BY <2>1, <2>3 DEF Busy
    <3>2. reserved[w] = {} /\ pendingWrites[w] = [r \in Reg |-> 0]
      BY <1>1
    <3>3. QED BY <2>4, <3>1, <3>2 DEF RegistersOK, Registers
  <2>9. CountersOK(w)
    <3>1. Unacknowledged(w) = {}
      BY <2>3 DEF Unacknowledged
    <3>2. inPipe[w] = 0 /\ stores[w] = 0
      BY <1>1
    <3>3. QED BY <2>3, <2>5, <3>1, <3>2, FS_EmptySet DEF CountersOK
  <2>10. CompletedOK(w)
    BY <2>3, <2>5 DEF CompletedOK
  <2>11. QED BY <2>6, <2>7, <2>8, <2>9, <2>10 DEF WarpOK
<1>4. StatusOK
  <2>1. \A c \in Cta : warpsOf[c] \ doneExit = {}
    BY <1>1, Constants
  <2>2. QED BY <1>1, <2>1, FS_EmptySet DEF StatusOK
<1>5. BarrierSetOK
  BY <1>1 DEF BarrierSetOK
<1>6. BarriersOK
  BY <1>1, Constants DEF BarriersOK
<1>7. QED BY <1>2, <1>3, <1>4, <1>5, <1>6 DEF Inv

LEMMA FetchInv ==
    ASSUME Inv, NEW w \in Warp, Fetch(w)
    PROVE  Inv'
<1>1. /\ TypeOK /\ \A v \in Warp : WarpOK(v)
      /\ UNCHANGED <<config, ctas, status, trace, ibuffer, warpVars, reserved, barrierVars,
                     depbarVars, exec, ldstVars>>
      /\ fetched = NoWarp /\ w \notin completed \cup imiss /\ ibuffer[w] = <<>>
      /\ \/ fetched' = w /\ imiss' = imiss
         \/ imiss' = imiss \cup {w} /\ fetched' = fetched
  BY DEF Inv, Fetch
<1>2. program' = program /\ \A v : Pos(v)' = Pos(v)
  BY <1>1, SamePrograms
<1>3. TypeOK'
  BY <1>1, <1>2 DEF TypeOK, warpVars, barrierVars, ldstVars
<1>4. ASSUME NEW v \in Warp PROVE WarpOK(v)' /\ Started(v)' = Started(v)
  <2>1. Aside(v)
    BY <1>1, <1>2 DEF Aside, warpVars, ldstVars, Dispatched, AccessesLeft
  <2>2. /\ PlacesOK(v)' /\ RegistersOK(v)' /\ CountersOK(v)' /\ CompletedOK(v)'
        /\ Started(v)' = Started(v)
    BY <1>1, <2>1, AsideFrame
  <2>3. FrontOK(v)'
    <3>1. FrontOK(v) /\ v # NoWarp
      BY <1>1, Constants DEF WarpOK
    <3>2. QED BY <1>1, <1>2, <2>2, <3>1 DEF FrontOK, warpVars
  <2>4. QED BY <2>2, <2>3 DEF WarpOK
<1>5. UNCHANGED <<config, status, completed, doneExit, active, atBarrier, arrived>>
  BY <1>1 DEF warpVars, barrierVars
<1>6. QED BY <1>3, <1>4, <1>5, CoreFrame

LEMMA InstructionArrivesInv ==
    ASSUME Inv, NEW w \in Warp, InstructionArrives(w)
    PROVE  Inv'
<1>1. /\ TypeOK /\ \A v \in Warp : WarpOK(v)
      /\ UNCHANGED <<config, ctas, status, trace, ibuffer, warpVars, reserved, barrierVars,
                     depbarVars, exec, ldstVars>>
      /\ fetched = NoWarp /\ w \in imiss /\ fetched' = w /\ imiss' = imiss \ {w}
  BY DEF Inv, InstructionArrives
<1>2. program' = program /\ \A v : Pos(v)' = Pos(v)
  BY <1>1, SamePrograms
<1>3. TypeOK'
  BY <1>1, <1>2 DEF TypeOK, warpVars, barrierVars, ldstVars
<1>4. ASSUME NEW v \in Warp PROVE WarpOK(v)' /\ Started(v)' = Started(v)
  <2>1. Aside(v)
    BY <1>1, <1>2 DEF Aside, warpVars, ldstVars, Dispatched, AccessesLeft
  <2>2. /\ PlacesOK(v)' /\ RegistersOK(v)' /\ CountersOK(v)' /\ CompletedOK(v)'
        /\ Started(v)' = Started(v)
    BY <1>1, <2>1, AsideFrame
  <2>3. FrontOK(v)'
    <3>1. FrontOK(v)
      BY <1>1 DEF WarpOK
    <3>2. QED BY <1>1, <1>2, <2>2, <3>1 DEF FrontOK, warpVars
  <2>4. QED BY <2>2, <2>3 DEF WarpOK
<1>5. UNCHANGED <<config, status, completed, doneExit, active, atBarrier, arrived>>
  BY <1>1 DEF warpVars, barrierVars
<1>6. QED BY <1>3, <1>4, <1>5, CoreFrame

LEMMA WritebackInv ==
    ASSUME Inv, NEW w \in Warp, NEW i \in Pos(w), Writeback(w, i)
    PROVE  Inv'
<1> DEFINE p == program[w]
           s == Started(w)
           X == Executing(w)
           M == InMemOut(w)
           D == Dispatched(w)
           d == AccessesLeft(w)
           F == flight[w]
           res == reserved[w]
           pw == pendingWrites[w]
<1>1. /\ TypeOK /\ WarpOK(w)
      /\ <<w, i>> \in exec /\ exec' = exec \ {<<w, i>>}
      /\ reserved' = [reserved EXCEPT ![w] = @ \ p[i].dst]
      /\ inPipe' = [inPipe EXCEPT ![w] = @ - 1]
      /\ UNCHANGED <<config, ctas, status, frontVars, completed, doneExit, stores, membar,
                     barrierVars, depbarVars, ldstVars>>
  BY DEF Inv, Writeback
<1>2. program' = program /\ \A v : Pos(v)' = Pos(v)
  BY <1>1, SamePrograms
<1>3. TypeOK'
  <2>1. reserved \in [Warp -> SUBSET Reg] /\ inPipe \in [Warp -> Int] /\ exec \in SUBSET (Warp \X Nat)
    BY <1>1 DEF TypeOK
  <2>2. reserved[w] \ p[i].dst \in SUBSET Reg /\ inPipe[w] - 1 \in Int
    BY <2>1
  <2> HIDE DEF p
  <2>3. /\ reserved' \in [Warp -> SUBSET Reg] /\ inPipe' \in [Warp -> Int]
        /\ exec' \in SUBSET (Warp \X Nat)
    BY <1>1, <2>1, <2>2
  <2>4. QED BY <1>1, <1>2, <2>3 DEF TypeOK, frontVars, barrierVars, ldstVars
<1>4. ASSUME NEW v \in Warp, v # w PROVE WarpOK(v)' /\ Started(v)' = Started(v)
  <2>1. Untouched(v)
    BY <1>1, <1>2, <1>4 DEF Untouched, Aside, frontVars, ldstVars, Dispatched, AccessesLeft, TypeOK
  <2>2. QED BY <2>1, WarpFrame DEF Inv
<1>5. WarpOK(w)' /\ Started(w)' = Started(w)
  <2>1. FrontOK(w)' /\ Started(w)' = Started(w)
    BY <1>1, FrontFrame
  <2>2. /\ IsTrace(p) /\ Pos(w) = Positions(p) /\ i \in X /\ i \in Positions(p)
        /\ Places(p, s, X, M, D, d, F) /\ Registers(p, X, M, D, d, F, res, pw)
    BY <1>1, Programs DEF WarpOK, PlacesOK, RegistersOK, Executing
  <2>3. /\ Executing(w)' = X \ {i} /\ InMemOut(w)' = M /\ Dispatched(w)' = D
        /\ AccessesLeft(w)' = d /\ flight'[w] = F /\ program'[w] = p
        /\ reserved'[w] = res \ p[i].dst /\ pendingWrites'[w] = pw
        /\ inPipe'[w] = inPipe[w] - 1 /\ stores'[w] = stores[w]
    BY <1>1, <1>2 DEF TypeOK, Executing, InMemOut, Dispatched, AccessesLeft, ldstVars
  <2>4. ibuffer'[w] = ibuffer[w] /\ (w \in completed' <=> w \in completed)
    BY <1>1 DEF frontVars
  <2>5. i \notin M /\ i \notin D
    BY <2>2 DEF Places
  <2>6. InPipeline(w) = X \cup M \cup D /\ IsFiniteSet(InPipeline(w)) /\ i \in InPipeline(w)
    BY <1>1, <2>2, Abbreviations
  <2>7. InPipeline(w)' = Executing(w)' \cup InMemOut(w)' \cup Dispatched(w)'
    BY DEF InPipeline, InLdst, Executing, InMemOut, Dispatched
  <2> HIDE DEF p, s, X, M, D, d, F, res, pw
  <2>8. InPipeline(w)' = InPipeline(w) \ {i}
    BY <2>3, <2>5, <2>6, <2>7
  <2>9. PlacesOK(w)'
    <3>1. Places(p, s, X \ {i}, M, D, d, F)
      BY <2>2, WritebackPlaces
    <3>2. Started(w)' = s
      BY <2>1 DEF s
    <3>3. QED BY <2>3, <3>1, <3>2 DEF PlacesOK
  <2>10. RegistersOK(w)'
    <3>1. Registers(p, X \ {i}, M, D, d, F, res \ p[i].dst, pw)
      BY <2>2, WritebackRegisters
    <3>2. QED BY <2>3, <3>1 DEF RegistersOK
  <2>11. CountersOK(w)'
    <3>1. Cardinality(InPipeline(w)') = Cardinality(InPipeline(w)) - 1
      BY <2>6, <2>8, FS_RemoveElement
    <3>2. Unacknowledged(w)' = Unacknowledged(w)
      BY <1>2, <2>3 DEF Unacknowledged, p, F
    <3>3. /\ Cardinality(InPipeline(w)) \in Nat /\ Len(ibuffer[w]) \in Nat
          /\ inPipe[w] = Len(ibuffer[w]) + Cardinality(InPipeline(w))
      BY <1>1, <2>6, FS_CardinalityType, WarpNumbers DEF WarpOK, CountersOK
    <3>4. inPipe'[w] = Len(ibuffer'[w]) + Cardinality(InPipeline(w)')
      BY <2>3, <2>4, <3>1, <3>3
    <3>5. QED BY <1>1, <2>3, <3>2, <3>4 DEF WarpOK, CountersOK
  <2>12. CompletedOK(w)'
    BY <1>1, <2>4, <2>6 DEF WarpOK, CompletedOK
  <2>13. QED BY <2>1, <2>9, <2>10, <2>11, <2>12 DEF WarpOK
<1>6. \A v \in Warp : WarpOK(v)' /\ Started(v)' = Started(v)
  BY <1>4, <1>5
<1>7. UNCHANGED <<config, status, completed, doneExit, active, atBarrier, arrived>>
  BY <1>1 DEF barrierVars
<1>8. QED BY <1>3, <1>6, <1>7, CoreFrame

LEMMA ToDispatchInv ==
    ASSUME Inv, NEW w \in Warp, NEW i \in Pos(w), ToDispatch(w, i)
    PROVE  Inv'
<1> DEFINE p == program[w]
           s == Started(w)
           X == Executing(w)
           M == InMemOut(w)
           d == AccessesLeft(w)
           F == flight[w]
           res == reserved[w]
           pw == pendingWrites[w]
           pw1 == [r \in Reg |-> IF r \in p[i].dst THEN pw[r] + p[i].acc ELSE pw[r]]
<1>1. /\ TypeOK /\ WarpOK(w)
      /\ dispatch = <<>> /\ <<w, i>> \in memOut /\ memOut' = memOut \ {<<w, i>>}
      /\ dispatch' = <<w, i, p[i].acc>>
      /\ pendingWrites' = [pendingWrites EXCEPT ![w] = pw1]
      /\ UNCHANGED <<config, ctas, status, frontVars, warpVars, reserved, barrierVars,
                     depbarVars, exec, flight>>
  BY DEF Inv, ToDispatch
<1>2. program' = program /\ \A v : Pos(v)' = Pos(v)
  BY <1>1, SamePrograms
<1>3. /\ IsTrace(p) /\ Pos(w) = Positions(p) /\ i \in M /\ i \in Positions(p)
      /\ Places(p, s, X, M, {}, d, F) /\ Registers(p, X, M, {}, d, F, res, pw)
  <2>1. Dispatched(w) = {}
    BY <1>1 DEF Dispatched
  <2>2. QED BY <1>1, <2>1, Programs DEF WarpOK, PlacesOK, RegistersOK, InMemOut
<1>4. TypeOK'
  <2>1. p[i].acc \in Nat /\ i \in Nat
    BY <1>3, TraceFacts DEF Positions
  <2>2. /\ DOMAIN pendingWrites' = Warp /\ memOut' \in SUBSET (Warp \X Nat)
        /\ dispatch' \in Warp \X Nat \X Nat /\ (dispatch[2] \in Pos(dispatch[1]))'
    BY <1>1, <1>2, <2>1 DEF TypeOK
  <2> HIDE DEF p, pw1
  <2>3. QED BY <1>1, <1>2, <2>2 DEF TypeOK, frontVars, barrierVars, warpVars
<1>5. ASSUME NEW v \in Warp, v # w PROVE WarpOK(v)' /\ Started(v)' = Started(v)
  <2>1. Untouched(v)
    BY <1>1, <1>2, <1>5 DEF Untouched, Aside, frontVars, warpVars, Dispatched, AccessesLeft, TypeOK
  <2>2. QED BY <2>1, WarpFrame DEF Inv
<1>6. WarpOK(w)' /\ Started(w)' = Started(w)
  <2>1. FrontOK(w)' /\ Started(w)' = Started(w)
    BY <1>1, FrontFrame DEF warpVars
  <2>2. /\ Executing(w)' = X /\ InMemOut(w)' = M \ {i} /\ Dispatched(w)' = {i}
        /\ AccessesLeft(w)' = p[i].acc /\ flight'[w] = F /\ program'[w] = p
        /\ reserved'[w] = res /\ pendingWrites'[w] = pw1
    BY <1>1, <1>2 DEF TypeOK, Executing, InMemOut, Dispatched, AccessesLeft
  <2>3. /\ ibuffer'[w] = ibuffer[w] /\ (w \in completed' <=> w \in completed)
        /\ inPipe'[w] = inPipe[w] /\ stores'[w] = stores[w]
    BY <1>1 DEF frontVars, warpVars
  <2>4. InPipeline(w) = X \cup M
    <3>1. Dispatched(w) = {}
      BY <1>1 DEF Dispatched
    <3>2. QED BY <1>1, <3>1, Abbreviations
  <2>5. InPipeline(w)' = Executing(w)' \cup InMemOut(w)' \cup Dispatched(w)'
    BY DEF InPipeline, InLdst, Executing, InMemOut, Dispatched
  <2> HIDE DEF p, s, X, M, d, F, res, pw, pw1
  <2>6. InPipeline(w)' = InPipeline(w) /\ i \in InPipeline(w)
    BY <1>3, <2>2, <2>4, <2>5
  <2>7. PlacesOK(w)'
    <3>1. Places(p, s, X, M \ {i}, {i}, p[i].acc, F)
      BY <1>3, ToDispatchPlaces
    <3>2. Started(w)' = s
      BY <2>1 DEF s
    <3>3. QED BY <2>2, <3>1, <3>2 DEF PlacesOK
  <2>8. RegistersOK(w)'
    <3>1. pw1 = [r \in Reg |-> IF r \in p[i].dst THEN pw[r] + p[i].acc ELSE pw[r]]
      BY DEF pw1
    <3>2. Registers(p, X, M \ {i}, {i}, p[i].acc, F, res, pw1)
      BY <1>3, <3>1, ToDispatchRegisters
    <3>3. QED BY <2>2, <3>2 DEF RegistersOK
  <2>9. CountersOK(w)'
    <3>1. Unacknowledged(w)' = Unacknowledged(w)
      BY <1>2, <2>2 DEF Unacknowledged, p, F
    <3>2. QED BY <1>1, <2>3, <2>6, <3>1 DEF WarpOK, CountersOK
  <2>10. CompletedOK(w)'
    BY <1>1, <2>3, <2>6 DEF WarpOK, CompletedOK
  <2>11. QED BY <2>1, <2>7, <2>8, <2>9, <2>10 DEF WarpOK
<1>7. \A v \in Warp : WarpOK(v)' /\ Started(v)' = Started(v)
  BY <1>5, <1>6
<1>8. UNCHANGED <<config, status, completed, doneExit, active, atBarrier, arrived>>
  BY <1>1 DEF barrierVars, warpVars
<1>9. QED BY <1>4, <1>7, <1>8, CoreFrame

\* The instruction in the dispatch register.
AtDispatch(w, i) ==
    /\ dispatch[1] = w /\ dispatch[2] = i /\ dispatch[3] \in Nat
    /\ dispatch = <<w, i, dispatch[3]>>
    /\ Dispatched(w) = {i} /\ AccessesLeft(w) = dispatch[3]
    /\ IsTrace(program[w]) /\ Pos(w) = Positions(program[w])
    /\ WarpOK(w) /\ i \in InPipeline(w)
    /\ Places(program[w], Started(w), Executing(w), InMemOut(w), {i}, dispatch[3], flight[w])
    /\ Registers(program[w], Executing(w), InMemOut(w), {i}, dispatch[3], flight[w],
                 reserved[w], pendingWrites[w])

LEMMA InDispatch ==
    ASSUME Inv, dispatch # <<>>
    PROVE  \E w \in Warp : \E i \in Pos(w) : AtDispatch(w, i)
<1>1. dispatch \in Warp \X Nat \X Nat /\ dispatch[2] \in Pos(dispatch[1]) /\ TypeOK
  BY DEF Inv, TypeOK
<1>2. PICK w \in Warp, i \in Pos(dispatch[1]) : dispatch[1] = w /\ dispatch[2] = i
  BY <1>1
<1>3. /\ i \in Pos(w) /\ dispatch[3] \in Nat /\ dispatch = <<w, i, dispatch[3]>>
      /\ Dispatched(w) = {i} /\ AccessesLeft(w) = dispatch[3]
  BY <1>1, <1>2 DEF Dispatched, AccessesLeft
<1>4. IsTrace(program[w]) /\ Pos(w) = Positions(program[w]) /\ WarpOK(w)
  BY <1>1, Programs DEF Inv
<1>5. i \in InPipeline(w)
  BY <1>2, <1>3 DEF InPipeline, InLdst
<1>6. /\ Places(program[w], Started(w), Executing(w), InMemOut(w), {i}, dispatch[3], flight[w])
      /\ Registers(program[w], Executing(w), InMemOut(w), {i}, dispatch[3], flight[w],
                   reserved[w], pendingWrites[w])
  BY <1>3, <1>4 DEF WarpOK, PlacesOK, RegistersOK
<1>7. AtDispatch(w, i)
  BY <1>2, <1>3, <1>4, <1>5, <1>6 DEF AtDispatch
<1>8. QED BY <1>3, <1>7

LEMMA AccessInv ==
    ASSUME Inv, Access
    PROVE  Inv'
<1>1. dispatch # <<>> /\ dispatch[3] > 0
  BY DEF Access
<1>2. PICK w \in Warp : \E i \in Pos(w) : AtDispatch(w, i)
  BY <1>1, InDispatch
<1>3. PICK i \in Pos(w) : AtDispatch(w, i)
  BY <1>2
<1> DEFINE p == program[w]
           s == Started(w)
           X == Executing(w)
           M == InMemOut(w)
           d == dispatch[3]
           F == flight[w]
           G == [F EXCEPT ![i] = @ + 1]
           res == reserved[w]
           pw == pendingWrites[w]
<1>4. /\ TypeOK
      /\ dispatch' = <<w, i, d - 1>>
      /\ flight' = [flight EXCEPT ![w] = G]
      /\ stores' = [stores EXCEPT ![w] = IF p[i].op = "store" THEN @ + 1 ELSE @]
      /\ UNCHANGED <<config, ctas, status, frontVars, completed, doneExit, inPipe, membar,
                     reserved, barrierVars, depbarVars, exec, memOut, pendingWrites, pendingCopies>>
  BY <1>3 DEF Inv, Access, AtDispatch
<1>5. program' = program /\ \A v : Pos(v)' = Pos(v)
  BY <1>4, SamePrograms
<1>6. TypeOK'
  <2>1. d - 1 \in Nat /\ i \in Nat
    BY <1>1, <1>3 DEF Positions, AtDispatch
  <2>2. stores \in [Warp -> Int] /\ stores[w] + 1 \in Int
    BY <1>4 DEF TypeOK
  <2> HIDE DEF p, d, G
  <2>3. /\ DOMAIN flight' = Warp /\ stores' \in [Warp -> Int]
        /\ dispatch' \in Warp \X Nat \X Nat /\ (dispatch[2] \in Pos(dispatch[1]))'
    BY <1>4, <1>5, <2>1, <2>2 DEF TypeOK
  <2>4. QED BY <1>4, <1>5, <2>3 DEF TypeOK, frontVars, barrierVars
<1>7. ASSUME NEW v \in Warp, v # w PROVE WarpOK(v)' /\ Started(v)' = Started(v)
  <2>1. Dispatched(v)' = Dispatched(v) /\ AccessesLeft(v)' = AccessesLeft(v)
    BY <1>3, <1>4, <1>7 DEF Dispatched, AccessesLeft, AtDispatch
  <2> HIDE DEF p, d, G
  <2>2. Untouched(v)
    BY <1>4, <1>7, <2>1 DEF Untouched, Aside, frontVars, TypeOK
  <2>3. QED BY <2>2, WarpFrame DEF Inv
<1>8. WarpOK(w)' /\ Started(w)' = Started(w)
  <2>1. FrontOK(w)' /\ Started(w)' = Started(w)
    BY <1>3, <1>4, FrontFrame DEF AtDispatch
  <2>2. /\ Executing(w)' = X /\ InMemOut(w)' = M /\ Dispatched(w)' = {i}
        /\ AccessesLeft(w)' = d - 1
    BY <1>4, <1>5 DEF Executing, InMemOut, Dispatched, AccessesLeft
  <2>3. /\ ibuffer'[w] = ibuffer[w] /\ (w \in completed' <=> w \in completed)
        /\ inPipe'[w] = inPipe[w] /\ program'[w] = p
        /\ reserved'[w] = res /\ pendingWrites'[w] = pw
    BY <1>4, <1>5 DEF frontVars
  <2>4. flight'[w] = G /\ stores'[w] = stores[w] + (IF p[i].op = "store" THEN 1 ELSE 0)
    <3>1. stores[w] \in Int /\ DOMAIN flight = Warp /\ DOMAIN stores = Warp
      BY <1>4 DEF TypeOK
    <3> HIDE DEF G, p
    <3>2. QED BY <1>4, <3>1
  <2>5. InPipeline(w) = X \cup M \cup {i}
    BY <1>3, <1>4, Abbreviations DEF AtDispatch
  <2>6. InPipeline(w)' = Executing(w)' \cup InMemOut(w)' \cup Dispatched(w)'
    BY DEF InPipeline, InLdst, Executing, InMemOut, Dispatched
  <2>7. /\ i \in Positions(p) /\ IsTrace(p) /\ d > 0
        /\ Places(p, s, X, M, {i}, d, F) /\ Registers(p, X, M, {i}, d, F, res, pw)
    BY <1>1, <1>3 DEF AtDispatch
  <2>8. Unacknowledged(w) = Stores(p, F)
    BY <1>3, <1>4, Abbreviations DEF AtDispatch
  <2>9. Unacknowledged(w)' = Stores(p, G)
    BY <1>3, <1>5, <2>3, <2>4 DEF Unacknowledged, Stores, AtDispatch
  <2> HIDE DEF p, s, X, M, d, F, res, pw
  <2>10. InPipeline(w)' = InPipeline(w)
    BY <2>2, <2>5, <2>6
  <2>11. PlacesOK(w)'
    <3>1. Places(p, s, X, M, {i}, d - 1, G)
      BY <2>7, AccessPlaces
    <3>2. Started(w)' = s
      BY <2>1 DEF s
    <3>3. QED BY <2>2, <2>3, <2>4, <3>1, <3>2 DEF PlacesOK
  <2>12. RegistersOK(w)'
    <3>1. Registers(p, X, M, {i}, d - 1, G, res, pw)
      BY <2>7, AccessRegisters
    <3>2. QED BY <2>2, <2>3, <2>4, <3>1 DEF RegistersOK
  <2>13. CountersOK(w)'
    <3>1. F \in [Positions(p) -> Nat]
      BY <2>7 DEF Places
    <3>2. IsFiniteSet(Stores(p, F)) /\ stores[w] = Cardinality(Stores(p, F))
      BY <1>3, <2>8 DEF WarpOK, CountersOK, AtDispatch
    <3>3. /\ IsFiniteSet(Stores(p, G))
          /\ Cardinality(Stores(p, G)) = Cardinality(Stores(p, F)) + (IF p[i].op = "store" THEN 1 ELSE 0)
      BY <2>7, <3>1, <3>2, StoreSent
    <3> HIDE DEF G
    <3>4. IsFiniteSet(Unacknowledged(w)') /\ stores'[w] = Cardinality(Unacknowledged(w)')
      BY <2>4, <2>9, <3>2, <3>3
    <3>5. QED BY <1>3, <2>3, <2>10, <3>4 DEF WarpOK, CountersOK, AtDispatch
  <2>14. CompletedOK(w)'
    BY <1>3, <2>3 DEF WarpOK, CompletedOK, AtDispatch
  <2>15. QED BY <2>1, <2>11, <2>12, <2>13, <2>14 DEF WarpOK
<1> HIDE DEF p, d, G
<1>9. \A v \in Warp : WarpOK(v)' /\ Started(v)' = Started(v)
  BY <1>7, <1>8
<1>10. UNCHANGED <<config, status, completed, doneExit, active, atBarrier, arrived>>
  BY <1>4 DEF barrierVars
<1>11. QED BY <1>6, <1>9, <1>10, CoreFrame

LEMMA AccessHitsInv ==
    ASSUME Inv, AccessHits
    PROVE  Inv'
<1>1. dispatch # <<>> /\ dispatch[3] > 0
  BY DEF AccessHits
<1>2. PICK w \in Warp : \E i \in Pos(w) : AtDispatch(w, i)
  BY <1>1, InDispatch
<1>3. PICK i \in Pos(w) : AtDispatch(w, i)
  BY <1>2
<1> DEFINE p == program[w]
           s == Started(w)
           X == Executing(w)
           M == InMemOut(w)
           d == dispatch[3]
           F == flight[w]
           res == reserved[w]
           pw == pendingWrites[w]
           pw1 == [r \in Reg |-> IF r \in p[i].dst THEN pw[r] - 1 ELSE pw[r]]
<1>4. /\ TypeOK
      /\ dispatch' = <<w, i, d - 1>>
      /\ pendingWrites' = [pendingWrites EXCEPT ![w] = pw1]
      /\ UNCHANGED <<config, ctas, status, frontVars, warpVars, reserved, barrierVars, exec,
                     memOut, flight>>
  BY <1>3 DEF Inv, AccessHits, Count, AtDispatch
<1>5. program' = program /\ \A v : Pos(v)' = Pos(v)
  BY <1>4, SamePrograms
<1>6. TypeOK'
  <2>1. d - 1 \in Nat /\ i \in Nat
    BY <1>1, <1>3 DEF Positions, AtDispatch
  <2> HIDE DEF p, d, pw1
  <2>2. /\ DOMAIN pendingWrites' = Warp
        /\ dispatch' \in Warp \X Nat \X Nat /\ (dispatch[2] \in Pos(dispatch[1]))'
    BY <1>4, <1>5, <2>1 DEF TypeOK
  <2>3. QED BY <1>4, <1>5, <2>2 DEF TypeOK, frontVars, warpVars, barrierVars
<1>7. ASSUME NEW v \in Warp, v # w PROVE WarpOK(v)' /\ Started(v)' = Started(v)
  <2>1. Dispatched(v)' = Dispatched(v) /\ AccessesLeft(v)' = AccessesLeft(v)
    BY <1>3, <1>4, <1>7 DEF Dispatched, AccessesLeft, AtDispatch
  <2> HIDE DEF p, d, pw1
  <2>2. Untouched(v)
    BY <1>4, <1>7, <2>1 DEF Untouched, Aside, frontVars, warpVars, TypeOK
  <2>3. QED BY <2>2, WarpFrame DEF Inv
<1>8. WarpOK(w)' /\ Started(w)' = Started(w)
  <2>1. FrontOK(w)' /\ Started(w)' = Started(w)
    BY <1>3, <1>4, FrontFrame DEF AtDispatch, warpVars
  <2>2. /\ Executing(w)' = X /\ InMemOut(w)' = M /\ Dispatched(w)' = {i}
        /\ AccessesLeft(w)' = d - 1
    BY <1>4, <1>5 DEF Executing, InMemOut, Dispatched, AccessesLeft
  <2>3. /\ ibuffer'[w] = ibuffer[w] /\ (w \in completed' <=> w \in completed)
        /\ inPipe'[w] = inPipe[w] /\ stores'[w] = stores[w] /\ program'[w] = p
        /\ reserved'[w] = res /\ flight'[w] = F
    BY <1>4, <1>5 DEF frontVars, warpVars
  <2>4. pendingWrites'[w] = pw1
    <3> HIDE DEF pw1
    <3>1. QED BY <1>4 DEF TypeOK
  <2>5. InPipeline(w) = X \cup M \cup {i}
    BY <1>3, <1>4, Abbreviations DEF AtDispatch
  <2>6. InPipeline(w)' = Executing(w)' \cup InMemOut(w)' \cup Dispatched(w)'
    BY DEF InPipeline, InLdst, Executing, InMemOut, Dispatched
  <2>7. /\ i \in Positions(p) /\ IsTrace(p) /\ d > 0
        /\ Places(p, s, X, M, {i}, d, F) /\ Registers(p, X, M, {i}, d, F, res, pw)
    BY <1>1, <1>3 DEF AtDispatch
  <2>8. Unacknowledged(w)' = Unacknowledged(w)
    BY <1>5, <2>3 DEF Unacknowledged
  <2> HIDE DEF p, s, X, M, d, F, res, pw, pw1
  <2>9. InPipeline(w)' = InPipeline(w)
    BY <2>2, <2>5, <2>6
  <2>10. PlacesOK(w)'
    <3>1. Places(p, s, X, M, {i}, d - 1, F)
      BY <2>7, AccessHitsPlaces
    <3>2. Started(w)' = s
      BY <2>1 DEF s
    <3>3. QED BY <2>2, <2>3, <3>1, <3>2 DEF PlacesOK
  <2>11. RegistersOK(w)'
    <3>1. pw1 = [r \in Reg |-> IF r \in p[i].dst THEN pw[r] - 1 ELSE pw[r]]
      BY DEF pw1
    <3>2. Registers(p, X, M, {i}, d - 1, F, res, pw1)
      BY <2>7, <3>1, AccessHitsRegisters
    <3>3. QED BY <2>2, <2>3, <2>4, <3>2 DEF RegistersOK
  <2>12. CountersOK(w)'
    BY <1>3, <2>3, <2>8, <2>9 DEF WarpOK, CountersOK, AtDispatch
  <2>13. CompletedOK(w)'
    BY <1>3, <2>3 DEF WarpOK, CompletedOK, AtDispatch
  <2>14. QED BY <2>1, <2>10, <2>11, <2>12, <2>13 DEF WarpOK
<1> HIDE DEF p, d, pw1
<1>9. \A v \in Warp : WarpOK(v)' /\ Started(v)' = Started(v)
  BY <1>7, <1>8
<1>10. UNCHANGED <<config, status, completed, doneExit, active, atBarrier, arrived>>
  BY <1>4 DEF barrierVars, warpVars
<1>11. QED BY <1>6, <1>9, <1>10, CoreFrame

LEMMA LeaveInv ==
    ASSUME Inv, Leave
    PROVE  Inv'
<1>1. dispatch # <<>> /\ dispatch[3] = 0
  BY DEF Leave, Leaving
<1>2. PICK w \in Warp : \E i \in Pos(w) : AtDispatch(w, i)
  BY <1>1, InDispatch
<1>3. PICK i \in Pos(w) : AtDispatch(w, i)
  BY <1>2
<1> DEFINE p == program[w]
           s == Started(w)
           X == Executing(w)
           M == InMemOut(w)
           F == flight[w]
           res == reserved[w]
           pw == pendingWrites[w]
           res1 == IF \A r \in p[i].dst : pw[r] = 0 THEN res \ p[i].dst ELSE res
<1>4. /\ TypeOK
      /\ dispatch' = <<>>
      /\ inPipe' = [inPipe EXCEPT ![w] = @ - 1]
      /\ reserved' = [reserved EXCEPT ![w] = res1]
      /\ UNCHANGED <<config, ctas, status, frontVars, completed, doneExit, stores, membar,
                     barrierVars, exec, memOut, pendingWrites, pendingCopies, flight>>
  BY <1>3 DEF Inv, Leave, AtDispatch
<1>5. program' = program /\ \A v : Pos(v)' = Pos(v)
  BY <1>4, SamePrograms
<1>6. TypeOK'
  <2>1. reserved \in [Warp -> SUBSET Reg] /\ inPipe \in [Warp -> Int]
    BY <1>4 DEF TypeOK
  <2>2. res1 \in SUBSET Reg /\ inPipe[w] - 1 \in Int
    BY <2>1
  <2> HIDE DEF p, res1
  <2>3. /\ reserved' \in [Warp -> SUBSET Reg] /\ inPipe' \in [Warp -> Int]
    BY <1>4, <2>1, <2>2
  <2>4. QED BY <1>4, <1>5, <2>3 DEF TypeOK, frontVars, barrierVars
<1>7. ASSUME NEW v \in Warp, v # w PROVE WarpOK(v)' /\ Started(v)' = Started(v)
  <2>1. Dispatched(v)' = Dispatched(v) /\ AccessesLeft(v)' = AccessesLeft(v)
    BY <1>3, <1>4, <1>7 DEF Dispatched, AccessesLeft, AtDispatch
  <2> HIDE DEF p, res1
  <2>2. Untouched(v)
    BY <1>4, <1>7, <2>1 DEF Untouched, Aside, frontVars, TypeOK
  <2>3. QED BY <2>2, WarpFrame DEF Inv
<1>8. WarpOK(w)' /\ Started(w)' = Started(w)
  <2>1. FrontOK(w)' /\ Started(w)' = Started(w)
    BY <1>3, <1>4, FrontFrame DEF AtDispatch
  <2>2. /\ Executing(w)' = X /\ InMemOut(w)' = M /\ Dispatched(w)' = {}
        /\ AccessesLeft(w)' = 0
    BY <1>4, <1>5 DEF Executing, InMemOut, Dispatched, AccessesLeft
  <2>3. /\ ibuffer'[w] = ibuffer[w] /\ (w \in completed' <=> w \in completed)
        /\ stores'[w] = stores[w] /\ program'[w] = p
        /\ pendingWrites'[w] = pw /\ flight'[w] = F
    BY <1>4, <1>5 DEF frontVars
  <2>4. reserved'[w] = res1 /\ inPipe'[w] = inPipe[w] - 1
    <3> HIDE DEF res1
    <3>1. QED BY <1>4 DEF TypeOK
  <2>5. InPipeline(w) = X \cup M \cup {i} /\ IsFiniteSet(InPipeline(w)) /\ i \in InPipeline(w)
    BY <1>3, <1>4, Abbreviations DEF AtDispatch
  <2>6. InPipeline(w)' = Executing(w)' \cup InMemOut(w)' \cup Dispatched(w)'
    BY DEF InPipeline, InLdst, Executing, InMemOut, Dispatched
  <2>7. /\ i \in Positions(p) /\ IsTrace(p)
        /\ Places(p, s, X, M, {i}, 0, F) /\ Registers(p, X, M, {i}, 0, F, res, pw)
    BY <1>1, <1>3 DEF AtDispatch
  <2>8. Unacknowledged(w)' = Unacknowledged(w)
    BY <1>5, <2>3 DEF Unacknowledged
  <2>9. i \notin X /\ i \notin M
    BY <2>7 DEF Places
  <2> HIDE DEF p, s, X, M, F, res, pw, res1
  <2>10. InPipeline(w)' = InPipeline(w) \ {i}
    BY <2>2, <2>5, <2>6, <2>9
  <2>11. PlacesOK(w)'
    <3>1. Places(p, s, X, M, {}, 0, F)
      BY <2>7, LeavePlaces
    <3>2. Started(w)' = s
      BY <2>1 DEF s
    <3>3. QED BY <2>2, <2>3, <3>1, <3>2 DEF PlacesOK
  <2>12. RegistersOK(w)'
    <3>1. res1 = IF \A r \in p[i].dst : pw[r] = 0 THEN res \ p[i].dst ELSE res
      BY DEF res1
    <3>2. Registers(p, X, M, {}, 0, F, res1, pw)
      BY <2>7, <3>1, LeaveRegisters
    <3>3. QED BY <2>2, <2>3, <2>4, <3>2 DEF RegistersOK
  <2>13. CountersOK(w)'
    <3>1. Cardinality(InPipeline(w)') = Cardinality(InPipeline(w)) - 1
      BY <2>5, <2>10, FS_RemoveElement
    <3>2. /\ Cardinality(InPipeline(w)) \in Nat /\ Len(ibuffer[w]) \in Nat
          /\ inPipe[w] = Len(ibuffer[w]) + Cardinality(InPipeline(w))
      BY <1>3, <1>4, <2>5, FS_CardinalityType, WarpNumbers DEF WarpOK, CountersOK, AtDispatch
    <3>3. inPipe'[w] = Len(ibuffer'[w]) + Cardinality(InPipeline(w)')
      BY <2>3, <2>4, <3>1, <3>2
    <3>4. QED BY <1>3, <2>3, <2>8, <3>3 DEF WarpOK, CountersOK, AtDispatch
  <2>14. CompletedOK(w)'
    BY <1>3, <2>3 DEF WarpOK, CompletedOK, AtDispatch
  <2>15. QED BY <2>1, <2>11, <2>12, <2>13, <2>14 DEF WarpOK
<1> HIDE DEF p, res1
<1>9. \A v \in Warp : WarpOK(v)' /\ Started(v)' = Started(v)
  BY <1>7, <1>8
<1>10. UNCHANGED <<config, status, completed, doneExit, active, atBarrier, arrived>>
  BY <1>4 DEF barrierVars
<1>11. QED BY <1>6, <1>9, <1>10, CoreFrame

LEMMA AnswerInv ==
    ASSUME Inv, NEW w \in Warp, NEW i \in Pos(w), Answer(w, i)
    PROVE  Inv'
<1> DEFINE p == program[w]
           s == Started(w)
           X == Executing(w)
           M == InMemOut(w)
           D == Dispatched(w)
           d == AccessesLeft(w)
           F == flight[w]
           G == [F EXCEPT ![i] = @ - 1]
           res == reserved[w]
           pw == pendingWrites[w]
           pw1 == [r \in Reg |-> IF r \in p[i].dst THEN pw[r] - 1 ELSE pw[r]]
           res1 == res \ {r \in p[i].dst : pw[r] = 1}
<1>1. /\ TypeOK /\ WarpOK(w) /\ F[i] > 0 /\ ~Leaving
      /\ flight' = [flight EXCEPT ![w] = G]
      /\ stores' = [stores EXCEPT ![w] = IF p[i].op = "store" THEN @ - 1 ELSE @]
      /\ pendingWrites' = [pendingWrites EXCEPT ![w] = pw1]
      /\ reserved' = [reserved EXCEPT ![w] = res1]
      /\ UNCHANGED <<config, ctas, status, frontVars, completed, doneExit, inPipe, membar,
                     barrierVars, exec, memOut, dispatch>>
  BY DEF Inv, Answer, StoreAck, Count
<1>2. program' = program /\ \A v : Pos(v)' = Pos(v)
  BY <1>1, SamePrograms
<1>3. /\ i \in Positions(p) /\ IsTrace(p) /\ Pos(w) = Positions(p) /\ F[i] > 0
      /\ Places(p, s, X, M, D, d, F) /\ Registers(p, X, M, D, d, F, res, pw)
  BY <1>1, Programs DEF WarpOK, PlacesOK, RegistersOK
<1>4. TypeOK'
  <2>1. reserved \in [Warp -> SUBSET Reg] /\ stores \in [Warp -> Int]
    BY <1>1 DEF TypeOK
  <2>2. res1 \in SUBSET Reg /\ stores[w] - 1 \in Int
    BY <2>1
  <2> HIDE DEF p, res1, pw1, G
  <2>3. reserved' \in [Warp -> SUBSET Reg] /\ stores' \in [Warp -> Int]
    BY <1>1, <2>1, <2>2
  <2>4. QED BY <1>1, <1>2, <2>3 DEF TypeOK, frontVars, barrierVars
<1>5. \A v : Dispatched(v)' = Dispatched(v) /\ AccessesLeft(v)' = AccessesLeft(v)
  BY <1>1, <1>2 DEF Dispatched, AccessesLeft
<1>6. ASSUME NEW v \in Warp, v # w PROVE WarpOK(v)' /\ Started(v)' = Started(v)
  <2> HIDE DEF p, res1, pw1, G
  <2>1. Untouched(v)
    BY <1>1, <1>5, <1>6 DEF Untouched, Aside, frontVars, TypeOK
  <2>2. QED BY <2>1, WarpFrame DEF Inv
<1>7. WarpOK(w)' /\ Started(w)' = Started(w)
  <2>1. FrontOK(w)' /\ Started(w)' = Started(w)
    BY <1>1, FrontFrame
  <2>2. Executing(w)' = X /\ InMemOut(w)' = M /\ Dispatched(w)' = D /\ AccessesLeft(w)' = d
    BY <1>1, <1>2, <1>5 DEF Executing, InMemOut
  <2>3. /\ ibuffer'[w] = ibuffer[w] /\ (w \in completed' <=> w \in completed)
        /\ inPipe'[w] = inPipe[w] /\ program'[w] = p
    BY <1>1, <1>2 DEF frontVars
  <2>4. /\ flight'[w] = G /\ reserved'[w] = res1 /\ pendingWrites'[w] = pw1
        /\ stores'[w] = stores[w] - (IF p[i].op = "store" THEN 1 ELSE 0)
    <3>1. /\ stores[w] \in Int /\ DOMAIN flight = Warp /\ DOMAIN stores = Warp
          /\ DOMAIN reserved = Warp /\ DOMAIN pendingWrites = Warp
      BY <1>1 DEF TypeOK
    <3> HIDE DEF G, p, res1, pw1
    <3>2. QED BY <1>1, <3>1
  <2>5. InPipeline(w) = X \cup M \cup D
    BY <1>1, Abbreviations
  <2>6. InPipeline(w)' = Executing(w)' \cup InMemOut(w)' \cup Dispatched(w)'
    BY DEF InPipeline, InLdst, Executing, InMemOut, Dispatched
  <2>7. ~(i \in D /\ d = 0)
    BY <1>1 DEF Leaving, Dispatched, AccessesLeft
  <2>8. Unacknowledged(w) = Stores(p, F)
    BY <1>1, Abbreviations
  <2>9. Unacknowledged(w)' = Stores(p, G)
    BY <1>2, <1>3, <2>3, <2>4 DEF Unacknowledged, Stores
  <2>10. F \in [Positions(p) -> Nat]
    BY <1>3 DEF Places
  <2> HIDE DEF p, s, X, M, D, d, F, res, pw, pw1, res1
  <2>11. InPipeline(w)' = InPipeline(w)
    BY <2>2, <2>5, <2>6
  <2>12. PlacesOK(w)'
    <3>1. Places(p, s, X, M, D, d, G)
      BY <1>3, AnswerPlaces
    <3>2. Started(w)' = s
      BY <2>1 DEF s
    <3>3. QED BY <2>2, <2>3, <2>4, <3>1, <3>2 DEF PlacesOK
  <2>13. RegistersOK(w)'
    <3>1. /\ pw1 = [r \in Reg |-> IF r \in p[i].dst THEN pw[r] - 1 ELSE pw[r]]
          /\ res1 = res \ {r \in p[i].dst : pw[r] = 1}
      BY DEF pw1, res1
    <3>2. Registers(p, X, M, D, d, G, res1, pw1)
      BY <1>3, <2>7, <3>1, AnswerRegisters
    <3>3. QED BY <2>2, <2>3, <2>4, <3>2 DEF RegistersOK
  <2>14. CountersOK(w)'
    <3>1. IsFiniteSet(Stores(p, F)) /\ stores[w] = Cardinality(Stores(p, F))
      BY <1>1, <2>8 DEF WarpOK, CountersOK
    <3>2. /\ IsFiniteSet(Stores(p, G))
          /\ Cardinality(Stores(p, G)) = Cardinality(Stores(p, F)) - (IF p[i].op = "store" THEN 1 ELSE 0)
      BY <1>3, <2>10, <3>1, StoreAcknowledged
    <3> HIDE DEF G
    <3>3. IsFiniteSet(Unacknowledged(w)') /\ stores'[w] = Cardinality(Unacknowledged(w)')
      BY <2>4, <2>9, <3>1, <3>2
    <3>4. QED BY <1>1, <2>3, <2>11, <3>3 DEF WarpOK, CountersOK
  <2>15. CompletedOK(w)'
    <3>1. \A j \in Positions(p) : G[j] > 0 => F[j] > 0
      BY <1>3, <2>10
    <3> HIDE DEF G
    <3>2. \A j \in Pos(w)' : flight'[w][j] > 0 => flight[w][j] > 0 /\ j \in Pos(w)
      BY <1>2, <1>3, <2>4, <3>1 DEF F
    <3>3. QED BY <1>1, <1>2, <2>3, <2>11, <3>2 DEF WarpOK, CompletedOK
  <2>16. QED BY <2>1, <2>12, <2>13, <2>14, <2>15 DEF WarpOK
<1>8. \A v \in Warp : WarpOK(v)' /\ Started(v)' = Started(v)
  BY <1>6, <1>7
<1>9. UNCHANGED <<config, status, completed, doneExit, active, atBarrier, arrived>>
  BY <1>1 DEF barrierVars
<1>10. QED BY <1>4, <1>8, <1>9, CoreFrame

\* A finished warp exits.  If it is the last of its CTA, the barrier set holds
\* none of them any more.
LEMMA ExitInv ==
    ASSUME Inv, NEW w \in Warp, Exit(w)
    PROVE  Inv'
<1> DEFINE c == CtaOf(w)
           warps == IF status[c] = 1 THEN warpsOf[c] ELSE {}
           left == warpsOf[c] \ doneExit
<1>1. /\ TypeOK /\ StatusOK /\ BarrierSetOK
      /\ w \in completed \ doneExit /\ doneExit' = doneExit \cup {w}
      /\ status' = [status EXCEPT ![c] = @ - 1]
      /\ active' = active \ warps /\ atBarrier' = atBarrier \ warps /\ arrived' = arrived \ warps
      /\ UNCHANGED <<config, ctas, frontVars, completed, inPipe, stores, membar, reserved,
                     depbarVars, exec, ldstVars>>
  BY DEF Inv, Exit
<1>2. program' = program /\ \A v : Pos(v)' = Pos(v)
  BY <1>1, SamePrograms
<1>3. c \in Cta /\ w \in left /\ IsFiniteSet(left)
  <2>1. c \in Cta /\ w \in warpsOf[c] /\ IsFiniteSet(warpsOf[c])
    BY Constants
  <2>2. QED BY <1>1, <2>1, FS_Subset
<1>4. status[c] = Cardinality(left) /\ Cardinality(left \ {w}) = Cardinality(left) - 1
  BY <1>1, <1>3, FS_RemoveElement DEF StatusOK
<1>5. warps \subseteq completed
  <2>1. CASE status[c] = 1
    <3>1. Cardinality(left \ {w}) = 0 /\ IsFiniteSet(left \ {w})
      BY <1>3, <1>4, <2>1, FS_RemoveElement
    <3>2. left \ {w} = {}
      BY <3>1, FS_EmptySet
    <3>3. warpsOf[c] \subseteq doneExit \cup {w}
      BY <3>2
    <3>4. QED BY <1>1, <2>1, <3>3 DEF StatusOK
  <2>2. QED BY <2>1
<1>6. UNCHANGED <<active, atBarrier, arrived>>
  BY <1>1, <1>5 DEF BarrierSetOK
<1>7. TypeOK'
  <2>1. status \in [Cta -> Int] /\ status[c] - 1 \in Int
    BY <1>1, <1>3 DEF TypeOK
  <2> HIDE DEF c, warps
  <2>2. status' \in [Cta -> Int] /\ doneExit' \in SUBSET Warp
    BY <1>1, <2>1 DEF TypeOK
  <2>3. QED BY <1>1, <1>2, <1>6, <2>2 DEF TypeOK, frontVars, ldstVars
<1>8. \A v \in Warp : WarpOK(v)' /\ Started(v)' = Started(v)
  <2> TAKE v \in Warp
  <2>1. Untouched(v)
    BY <1>1, <1>2 DEF Untouched, Aside, frontVars, ldstVars, Dispatched, AccessesLeft
  <2>2. QED BY <2>1, WarpFrame DEF Inv
<1>9. StatusOK'
  <2>1. doneExit' \subseteq completed'
    BY <1>1 DEF StatusOK
  <2>2. ASSUME NEW e \in Cta PROVE status'[e] = Cardinality(warpsOf[e] \ doneExit')
    <3>1. CASE e = c
      <4>1. warpsOf[e] \ doneExit' = left \ {w}
        BY <1>1, <3>1
      <4>2. status'[e] = status[c] - 1
        BY <1>1, <1>3, <3>1 DEF TypeOK
      <4>3. QED BY <1>4, <4>1, <4>2
    <3>2. CASE e # c
      <4>1. w \notin warpsOf[e]
        BY <3>2, Constants
      <4>2. warpsOf[e] \ doneExit' = warpsOf[e] \ doneExit
        BY <1>1, <4>1
      <4>3. status'[e] = status[e]
        BY <1>1, <3>2 DEF TypeOK
      <4>4. QED BY <1>1, <4>2, <4>3 DEF StatusOK
    <3>3. QED BY <3>1, <3>2
  <2>3. QED BY <2>1, <2>2 DEF StatusOK
<1>10. BarrierSetOK' /\ BarriersOK'
  BY <1>1, <1>6, <1>7, <1>8, BarrierFrame
<1>11. QED BY <1>7, <1>8, <1>9, <1>10 DEF Inv

\* A CTA comes to a free context, whose warps have all exited.
LEMMA IssueCtaInv ==
    ASSUME Inv, NEW c \in Cta, IssueCta(c)
    PROVE  Inv'
<1> DEFINE warps == warpsOf[c]
<1>1. /\ TypeOK /\ StatusOK /\ BarrierSetOK /\ BarriersOK /\ \A v \in Warp : WarpOK(v)
      /\ ctas > 0 /\ status[c] = 0 /\ ctas' = ctas - 1
      /\ status' = [status EXCEPT ![c] = Cardinality(warps)]
      /\ trace' = [w \in Warp |-> IF w \in warps THEN 1 ELSE trace[w]]
      /\ imiss' = imiss \ warps
      /\ completed' = completed \ warps /\ doneExit' = doneExit \ warps
      /\ membar' = membar \ warps /\ active' = active \cup warps
      /\ atBarrier' = atBarrier \ warps /\ arrived' = arrived \ warps
      /\ UNCHANGED <<config, ibuffer, fetched, inPipe, stores, reserved, exec, ldstVars>>
  BY DEF Inv, IssueCta
<1>2. program' = program /\ \A v : Pos(v)' = Pos(v)
  BY <1>1, SamePrograms
<1>3. warps \subseteq Warp /\ IsFiniteSet(warps) /\ Cardinality(warps) \in Nat
  BY Constants, FS_CardinalityType
<1>4. warps \subseteq completed
  <2>1. Cardinality(warps \ doneExit) = 0 /\ IsFiniteSet(warps \ doneExit)
    BY <1>1, <1>3, FS_Subset DEF StatusOK
  <2>2. warps \ doneExit = {}
    BY <2>1, FS_EmptySet
  <2>3. QED BY <1>1, <2>2 DEF StatusOK
<1>5. TypeOK'
  <2>1. ctas' \in Nat /\ status' \in [Cta -> Int] /\ DOMAIN trace' = Warp
    BY <1>1, <1>3 DEF TypeOK
  <2> HIDE DEF warps
  <2>2. /\ imiss' \in SUBSET Warp /\ completed' \in SUBSET Warp /\ doneExit' \in SUBSET Warp
        /\ membar' \in SUBSET Warp /\ active' \in SUBSET Warp /\ atBarrier' \in SUBSET Warp
        /\ arrived' \in SUBSET Warp
    BY <1>1, <1>3 DEF TypeOK
  <2>3. QED BY <1>1, <1>2, <2>1, <2>2 DEF TypeOK, ldstVars
<1>6. ASSUME NEW v \in Warp, v \notin warps PROVE WarpOK(v)' /\ Started(v)' = Started(v)
  <2>1. Untouched(v)
    BY <1>1, <1>2, <1>6 DEF Untouched, Aside, ldstVars, Dispatched, AccessesLeft
  <2>2. QED BY <2>1, WarpFrame DEF Inv
<1>7. ASSUME NEW v \in Warp, v \in warps PROVE WarpOK(v)' /\ Started(v)' = 1
  <2>1. /\ WarpOK(v) /\ v \in completed /\ v \notin completed'
        /\ ibuffer[v] = <<>> /\ InPipeline(v) = {} /\ Len(ibuffer[v]) = 0
        /\ \A i \in Pos(v) : flight[v][i] > 0 => program[v][i].op = "ldgsts"
    BY <1>1, <1>4, <1>7 DEF WarpOK, CompletedOK
  <2>2. IsTrace(program[v]) /\ Pos(v) = Positions(program[v]) /\ Len(program[v]) \in Nat
    BY <1>1, Programs
  <2>3. Executing(v) = {} /\ InMemOut(v) = {} /\ Dispatched(v) = {}
    BY <1>1, <2>1, Abbreviations
  <2>4. /\ Executing(v)' = {} /\ InMemOut(v)' = {} /\ Dispatched(v)' = {}
        /\ AccessesLeft(v)' = AccessesLeft(v)
    BY <1>1, <1>2, <2>3 DEF Executing, InMemOut, Dispatched, AccessesLeft, ldstVars
  <2>5. /\ trace'[v] = 1 /\ ibuffer'[v] = <<>> /\ Started(v)' = 1
        /\ inPipe'[v] = inPipe[v] /\ stores'[v] = stores[v] /\ reserved'[v] = reserved[v]
        /\ pendingWrites'[v] = pendingWrites[v] /\ flight'[v] = flight[v]
        /\ program'[v] = program[v]
    BY <1>1, <1>2, <1>7, <2>1 DEF Started, ldstVars
  <2>6. FrontOK(v)'
    BY <1>1, <1>7, <2>1, <2>2, <2>5 DEF FrontOK, WarpOK
  <2>7. PlacesOK(v)'
    <3>1. /\ flight[v] \in [Positions(program[v]) -> Nat] /\ AccessesLeft(v) \in Nat
          /\ \A i \in Positions(program[v]) :
                flight[v][i] > 0 => program[v][i].op \in {"load", "store", "ldgsts"}
      BY <2>1 DEF WarpOK, PlacesOK, Places
    <3>2. \A i \in Positions(program[v]) : program[v][i].op # "ldgsts" => flight[v][i] = 0
      BY <2>1, <2>2, <3>1
    <3>3. Places(program[v], 1, {}, {}, {}, AccessesLeft(v), flight[v])
      BY <2>2, <3>1, <3>2 DEF Places
    <3>4. QED BY <2>4, <2>5, <3>3 DEF PlacesOK
  <2>8. RegistersOK(v)'
    BY <2>1, <2>3, <2>4, <2>5 DEF WarpOK, RegistersOK
  <2>9. InPipeline(v)' = InPipeline(v)
    <3>1. InPipeline(v)' = Executing(v)' \cup InMemOut(v)' \cup Dispatched(v)'
      BY DEF InPipeline, InLdst, Executing, InMemOut, Dispatched
    <3>2. QED BY <2>1, <2>4, <3>1
  <2>10. Unacknowledged(v)' = Unacknowledged(v)
    BY <1>2, <2>5 DEF Unacknowledged
  <2>11. CountersOK(v)'
    BY <2>1, <2>5, <2>9, <2>10 DEF WarpOK, CountersOK
  <2>12. CompletedOK(v)'
    BY <2>1 DEF CompletedOK
  <2>13. QED BY <2>5, <2>6, <2>7, <2>8, <2>11, <2>12 DEF WarpOK
<1>8. StatusOK'
  <2>1. doneExit' \subseteq completed'
    BY <1>1 DEF StatusOK
  <2>2. ASSUME NEW e \in Cta PROVE status'[e] = Cardinality(warpsOf[e] \ doneExit')
    <3>1. CASE e = c
      <4>1. warpsOf[e] \ doneExit' = warps
        BY <1>1, <3>1
      <4>2. QED BY <1>1, <3>1, <4>1 DEF TypeOK
    <3>2. CASE e # c
      <4>1. \A v \in warpsOf[e] : v \notin warps
        BY <3>2, Constants
      <4>2. warpsOf[e] \ doneExit' = warpsOf[e] \ doneExit
        BY <1>1, <4>1
      <4>3. status'[e] = status[e]
        BY <1>1, <3>2 DEF TypeOK
      <4>4. QED BY <1>1, <4>2, <4>3 DEF StatusOK
    <3>3. QED BY <3>1, <3>2
  <2>3. QED BY <2>1, <2>2 DEF StatusOK
<1>9. \A v \in Warp : WarpOK(v)'
  BY <1>6, <1>7
<1>10. BarrierSetOK'
  <2>1. active' = Warp \ completed' /\ atBarrier' = arrived' /\ arrived' \subseteq active'
    BY <1>1, <1>3 DEF BarrierSetOK
  <2>2. ASSUME NEW v \in arrived' PROVE Started(v)' > 1 /\ program'[v][Started(v)' - 1].op = "bar"
    <3>1. v \in arrived /\ v \notin warps /\ v \in Warp
      BY <1>1 DEF TypeOK
    <3>2. Started(v)' = Started(v)
      BY <1>6, <3>1
    <3>3. QED BY <1>1, <1>2, <3>1, <3>2 DEF BarrierSetOK
  <2>3. QED BY <2>1, <2>2 DEF BarrierSetOK
<1>11. BarriersOK'
  <2> SUFFICES ASSUME NEW e \in Cta, NEW u \in warpsOf[e], NEW v \in warpsOf[e], v \notin completed'
               PROVE  /\ u \in completed' => Barriers(u)' <= Barriers(v)'
                      /\ u \notin completed' /\ (u \in arrived' <=> v \in arrived') => Barriers(u)' = Barriers(v)'
                      /\ u \notin completed' \cup arrived' /\ v \in arrived' => Barriers(v)' = Barriers(u)' + 1
    BY DEF BarriersOK
  <2>1. u \in Warp /\ v \in Warp
    BY Constants
  <2>2. CASE e = c
    <3>1. Started(u)' = 1 /\ Started(v)' = 1
      BY <1>7, <2>1, <2>2
    <3>2. Barriers(u)' = Bars(program[u], 1) /\ Barriers(v)' = Bars(program[v], 1)
      BY <1>1, <1>9, <2>1, <3>1, BarriersStep
    <3>3. \A p : Bars(p, 1) = Cardinality({})
      BY DEF Bars
    <3>4. Barriers(u)' = Barriers(v)'
      BY <3>2, <3>3
    <3>5. u \notin completed' /\ v \notin arrived'
      BY <1>1, <2>2
    <3>6. QED BY <3>4, <3>5
  <2>3. CASE e # c
    <3>1. u \notin warps /\ v \notin warps
      BY <2>3, Constants
    <3>2. Started(u)' = Started(u) /\ Started(v)' = Started(v)
      BY <1>6, <2>1, <3>1
    <3>3. Barriers(u)' = Barriers(u) /\ Barriers(v)' = Barriers(v)
      BY <1>1, <1>9, <2>1, <3>2, BarriersStep
    <3>4. /\ u \in completed' <=> u \in completed
          /\ v \in completed' <=> v \in completed
          /\ u \in arrived' <=> u \in arrived
          /\ v \in arrived' <=> v \in arrived
      BY <1>1, <3>1
    <3>5. QED BY <1>1, <3>3, <3>4 DEF BarriersOK
  <2>4. QED BY <2>2, <2>3
<1>12. QED BY <1>5, <1>8, <1>9, <1>10, <1>11 DEF Inv

\* What decode reads of the trace of a warp whose buffer is empty: its next two
\* instructions, the last one, or its end.
LEMMA NextInstructions ==
    ASSUME NEW l \in Nat, NEW t \in Nat, t > 0, t <= l + 1
    PROVE  /\ {t, t + 1} \cap 1 .. l = {} => t = l + 1
           /\ \/ {t, t + 1} \cap 1 .. l = {} /\ t + 0 <= l + 1
                    /\ Cardinality({t, t + 1} \cap 1 .. l) = 0
              \/ t + 1 <= l + 1 /\ Cardinality({t, t + 1} \cap 1 .. l) = 1
              \/ t + 2 <= l + 1 /\ Cardinality({t, t + 1} \cap 1 .. l) = 2
<1>1. CASE t = l + 1
  <2>1. {t, t + 1} \cap 1 .. l = {}
    BY <1>1
  <2>2. t + 0 <= l + 1
    BY <1>1
  <2>3. QED BY <1>1, <2>1, <2>2, FS_EmptySet
<1>2. CASE t = l
  <2>1. {t, t + 1} \cap 1 .. l = {t}
    BY <1>2
  <2>2. t + 1 <= l + 1
    BY <1>2
  <2>3. QED BY <2>1, <2>2, FS_Singleton
<1>3. CASE t < l
  <2>1. {t, t + 1} \cap 1 .. l = {t} \cup {t + 1}
    BY <1>3
  <2>2. t + 2 <= l + 1 /\ t + 1 \notin {t}
    BY <1>3
  <2>3. IsFiniteSet({t}) /\ Cardinality({t}) = 1
    BY FS_Singleton
  <2>4. Cardinality({t} \cup {t + 1}) = 2
    BY <2>2, <2>3, FS_AddElement
  <2>5. {t} \cup {t + 1} # {}
    OBVIOUS
  <2>6. QED BY <2>1, <2>2, <2>4, <2>5
<1>4. t = l + 1 \/ t = l \/ t < l
  OBVIOUS
<1>5. QED BY <1>1, <1>2, <1>3, <1>4

\* Nothing but copies is left of a warp whose trace ends.
LEMMA Drained ==
    ASSUME TypeOK, NEW w \in Warp, WarpOK(w), ibuffer[w] = <<>>, TraceExits(w)
    PROVE  InPipeline(w) = {} /\ \A i \in Pos(w) : flight[w][i] > 0 => program[w][i].op = "ldgsts"
<1> DEFINE p == program[w]
           F == flight[w]
<1>1. inPipe[w] = 0 /\ stores[w] = 0 /\ reserved[w] = {}
  BY DEF TraceExits
<1>2. InPipeline(w) = {}
  <2>1. Len(ibuffer[w]) = 0 /\ IsFiniteSet(InPipeline(w))
    BY Abbreviations
  <2>2. Cardinality(InPipeline(w)) \in Nat /\ inPipe[w] = 0 + Cardinality(InPipeline(w))
    BY <2>1, FS_CardinalityType DEF WarpOK, CountersOK
  <2>3. Cardinality(InPipeline(w)) = 0
    BY <1>1, <2>2
  <2>4. QED BY <2>1, <2>3, FS_EmptySet
<1>3. Stores(p, F) = {}
  <2>1. IsFiniteSet(Stores(p, F)) /\ Cardinality(Stores(p, F)) = 0
    BY <1>1, Abbreviations DEF WarpOK, CountersOK
  <2>2. QED BY <2>1, FS_EmptySet
<1>4. IsTrace(p) /\ Pos(w) = Positions(p)
  BY Programs
<1>5. ASSUME NEW i \in Pos(w), F[i] > 0 PROVE p[i].op = "ldgsts"
  <2>1. i \in Positions(p) /\ p[i].op \in {"load", "store", "ldgsts"} /\ F \in [Positions(p) -> Nat]
    BY <1>4, <1>5 DEF WarpOK, PlacesOK, Places
  <2>2. p[i].dst = {}
    <3>1. i \in Busy(p, Executing(w), InMemOut(w), Dispatched(w), F)
      BY <1>5, <2>1 DEF Busy
    <3>2. reserved[w] = UNION {p[j].dst : j \in Busy(p, Executing(w), InMemOut(w), Dispatched(w), F)}
      BY DEF WarpOK, RegistersOK, Registers
    <3> HIDE DEF p, F
    <3>3. p[i].dst \subseteq reserved[w]
      BY <3>1, <3>2
    <3>4. QED BY <1>1, <3>3
  <2>3. p[i].op # "load"
    BY <1>4, <2>1, <2>2, TraceFacts
  <2>4. p[i].op # "store"
    <3>1. 1 \in Nat /\ 1 > 0 /\ 1 <= F[i]
      BY <1>5, <2>1
    <3>2. \A j \in Positions(p) : F[j] \in Nat
      BY <2>1
    <3>3. p[i].op = "store" => <<i, 1>> \in Stores(p, F)
      BY <2>1, <3>1, <3>2, StoresMember
    <3>4. QED BY <1>3, <3>3
  <2>5. QED BY <2>1, <2>3, <2>4
<1>6. QED BY <1>2, <1>5

\* The part of decode that concerns the instructions.
LEMMA DecodeWarps ==
    ASSUME Inv, Decode
    PROVE  \A v \in Warp : WarpOK(v)' /\ Started(v)' = Started(v)
<1>1. fetched \in Warp
  BY DEF Inv, TypeOK, Decode
<1>2. PICK w \in Warp : fetched = w
  BY <1>1
<1> DEFINE next == {trace[w], trace[w] + 1} \cap Pos(w)
           n == Cardinality(next)
           t == trace[w]
           buf == [k \in 1 .. n |-> t + k - 1]
<1>3. /\ TypeOK /\ WarpOK(w) /\ fetched' = NoWarp
      /\ ibuffer' = [ibuffer EXCEPT ![w] = buf]
      /\ inPipe' = [inPipe EXCEPT ![w] = @ + n]
      /\ trace' = [trace EXCEPT ![w] = @ + n]
      /\ \/ next = {} /\ TraceExits(w) /\ completed' = completed \cup {w}
         \/ completed' = completed
      /\ UNCHANGED <<config, ctas, status, imiss, doneExit, stores, membar, reserved, depbarVars,
                     exec, ldstVars>>
  BY <1>2 DEF Inv, Decode
<1>4. program' = program /\ \A v : Pos(v)' = Pos(v)
  BY <1>3, SamePrograms
<1>5. /\ ibuffer[w] = <<>> /\ w \notin completed /\ w \notin imiss /\ w # NoWarp
      /\ Len(ibuffer[w]) = 0 /\ Started(w) = t /\ t \in Nat /\ t > 0 /\ t <= Len(program[w]) + 1
      /\ Len(program[w]) \in Nat /\ Pos(w) = 1 .. Len(program[w])
  <2>1. ibuffer[w] = <<>> /\ w \notin completed /\ w \notin imiss /\ w # NoWarp
    BY <1>2, <1>3, Constants DEF WarpOK, FrontOK
  <2>2. Len(ibuffer[w]) = 0
    BY <2>1
  <2>3. QED BY <1>3, <2>1, <2>2, WarpNumbers, Programs DEF Pos
<1>6. n \in Nat /\ t + n \in Nat /\ t + n <= Len(program[w]) + 1 /\ (next = {} => n = 0)
  BY <1>5, NextInstructions
<1>7. ASSUME NEW v \in Warp, v # w PROVE WarpOK(v)' /\ Started(v)' = Started(v)
  <2> HIDE DEF n, buf
  <2>1. Untouched(v)
    BY <1>3, <1>4, <1>7, Constants DEF Untouched, Aside, ldstVars, Dispatched, AccessesLeft, TypeOK
  <2>2. QED BY <2>1, WarpFrame DEF Inv
<1>8. WarpOK(w)' /\ Started(w)' = Started(w)
  <2>1. buf \in Seq(Nat) /\ Len(buf) = n /\ \A k \in 1 .. n : buf[k] = t + k - 1
    <3> HIDE DEF n, t
    <3>1. n \in Nat /\ t \in Nat /\ t > 0
      BY <1>5, <1>6
    <3>2. \A k \in 1 .. n : t + k - 1 \in Nat
      BY <3>1
    <3>3. QED BY <3>1, <3>2
  <2> HIDE DEF n, buf, next
  <2>2. ibuffer'[w] = buf /\ trace'[w] = t + n /\ inPipe'[w] = inPipe[w] + n
    BY <1>3 DEF TypeOK
  <2>3. /\ reserved'[w] = reserved[w] /\ pendingWrites'[w] = pendingWrites[w]
        /\ flight'[w] = flight[w] /\ stores'[w] = stores[w] /\ program'[w] = program[w]
    BY <1>3, <1>4 DEF ldstVars
  <2>4. Started(w)' = Started(w)
    <3>1. Started(w)' = (t + n) - n
      BY <2>1, <2>2 DEF Started
    <3>2. QED BY <1>5, <1>6, <3>1
  <2>5. FrontOK(w)'
    <3>1. /\ trace'[w] \in Nat /\ ibuffer'[w] \in Seq(Nat) /\ Started(w)' > 0
          /\ trace'[w] <= Len(program'[w]) + 1
      BY <1>5, <1>6, <2>1, <2>2, <2>3, <2>4
    <3>2. \A k \in 1 .. Len(ibuffer'[w]) : ibuffer'[w][k] = Started(w)' + k - 1
      BY <1>5, <2>1, <2>2, <2>4
    <3>3. fetched' # w /\ w \notin imiss'
      BY <1>3, <1>5
    <3>4. QED BY <3>1, <3>2, <3>3 DEF FrontOK
  <2>6. /\ Executing(w)' = Executing(w) /\ InMemOut(w)' = InMemOut(w)
        /\ Dispatched(w)' = Dispatched(w) /\ AccessesLeft(w)' = AccessesLeft(w)
    BY <1>3, <1>4 DEF Executing, InMemOut, Dispatched, AccessesLeft, ldstVars
  <2>7. PlacesOK(w)' /\ RegistersOK(w)'
    BY <1>3, <2>3, <2>4, <2>6 DEF WarpOK, PlacesOK, RegistersOK
  <2>8. InPipeline(w)' = InPipeline(w)
    <3>1. InPipeline(w)' = Executing(w)' \cup InMemOut(w)' \cup Dispatched(w)'
      BY DEF InPipeline, InLdst, Executing, InMemOut, Dispatched
    <3>2. QED BY <1>3, <2>6, <3>1, Abbreviations
  <2>9. CountersOK(w)'
    <3>1. Unacknowledged(w)' = Unacknowledged(w)
      BY <1>4, <2>3 DEF Unacknowledged
    <3>2. /\ Cardinality(InPipeline(w)) \in Nat /\ inPipe[w] = 0 + Cardinality(InPipeline(w))
      BY <1>3, <1>5, Abbreviations, FS_CardinalityType DEF WarpOK, CountersOK
    <3>3. inPipe'[w] = Len(ibuffer'[w]) + Cardinality(InPipeline(w)')
      BY <1>6, <2>1, <2>2, <2>8, <3>2
    <3>4. QED BY <1>3, <2>3, <3>1, <3>3 DEF WarpOK, CountersOK
  <2>10. CompletedOK(w)'
    <3>1. SUFFICES ASSUME w \in completed' PROVE CompletedOK(w)'
      BY DEF CompletedOK
    <3>2. next = {} /\ TraceExits(w)
      BY <1>3, <1>5, <3>1
    <3>3. ibuffer'[w] = <<>>
      <4>1. Len(buf) = 0
        BY <1>6, <2>1, <3>2
      <4>2. QED BY <2>1, <2>2, <4>1, EmptyLength
    <3>4. InPipeline(w) = {} /\ \A i \in Pos(w) : flight[w][i] > 0 => program[w][i].op = "ldgsts"
      BY <1>3, <1>5, <3>2, Drained
    <3>5. QED BY <1>4, <2>3, <2>8, <3>3, <3>4 DEF CompletedOK
  <2>11. QED BY <2>4, <2>5, <2>7, <2>9, <2>10 DEF WarpOK
<1>9. QED BY <1>7, <1>8

LEMMA DecodeInv ==
    ASSUME Inv, Decode
    PROVE  Inv'
<1>1. fetched \in Warp
  BY DEF Inv, TypeOK, Decode
<1>2. PICK w \in Warp : fetched = w
  BY <1>1
<1> DEFINE next == {trace[w], trace[w] + 1} \cap Pos(w)
           n == Cardinality(next)
           c == CtaOf(w)
           warps == warpsOf[c]
           all == warps \cap arrived = (warps \cap active) \ {w}
<1>3. /\ TypeOK /\ StatusOK /\ BarrierSetOK /\ BarriersOK /\ (\A v \in Warp : WarpOK(v))
      /\ fetched' = NoWarp
      /\ ibuffer' = [ibuffer EXCEPT ![w] = [k \in 1 .. n |-> trace[w] + k - 1]]
      /\ inPipe' = [inPipe EXCEPT ![w] = @ + n]
      /\ trace' = [trace EXCEPT ![w] = @ + n]
      /\ \/ next = {} /\ completed' = completed \cup {w} /\ BarrierExit(w)
         \/ UNCHANGED <<completed, barrierVars>>
      /\ UNCHANGED <<config, ctas, status, imiss, doneExit, stores, membar, reserved, depbarVars,
                     exec, ldstVars>>
  BY <1>2 DEF Inv, Decode
<1>4. program' = program /\ \A v : Pos(v)' = Pos(v)
  BY <1>3, SamePrograms
<1>5. \A v \in Warp : WarpOK(v)' /\ Started(v)' = Started(v)
  BY DecodeWarps
<1>6. /\ ibuffer[w] = <<>> /\ w \notin completed /\ Len(ibuffer[w]) = 0 /\ Started(w) = trace[w]
      /\ trace[w] \in Nat /\ trace[w] > 0 /\ trace[w] <= Len(program[w]) + 1
      /\ Len(program[w]) \in Nat /\ Pos(w) = 1 .. Len(program[w])
  <2>1. ibuffer[w] = <<>> /\ w \notin completed
    BY <1>2, <1>3 DEF WarpOK, FrontOK
  <2>2. Len(ibuffer[w]) = 0
    BY <2>1
  <2>3. QED BY <1>3, <2>1, <2>2, WarpNumbers, Programs DEF Pos
<1>7. n \in Nat
  <2> DEFINE l == Len(program[w])
             t == trace[w]
  <2>1. l \in Nat /\ t \in Nat /\ t > 0 /\ t <= l + 1 /\ n = Cardinality({t, t + 1} \cap 1 .. l)
    BY <1>6
  <2> HIDE DEF l, t, n
  <2>2. n = 0 \/ n = 1 \/ n = 2
    BY <2>1, NextInstructions
  <2>3. QED BY <2>2
<1>8. c \in Cta /\ w \in warps /\ warps \subseteq Warp
  BY Constants
<1>9. CASE UNCHANGED <<completed, barrierVars>>
  <2>1. TypeOK'
    <3>1. inPipe' \in [Warp -> Int] /\ DOMAIN ibuffer' = Warp /\ DOMAIN trace' = Warp
      <4>1. inPipe \in [Warp -> Int] /\ inPipe[w] + n \in Int
        BY <1>3, <1>7 DEF TypeOK
      <4> HIDE DEF n
      <4>2. QED BY <1>3, <4>1 DEF TypeOK
    <3> HIDE DEF n
    <3>2. QED BY <1>3, <1>4, <1>9, <3>1 DEF TypeOK, ldstVars, barrierVars
  <2>2. UNCHANGED <<config, status, completed, doneExit, active, atBarrier, arrived>>
    BY <1>3, <1>9 DEF barrierVars
  <2>3. QED BY <1>5, <2>1, <2>2, CoreFrame
<1>10. CASE next = {} /\ completed' = completed \cup {w} /\ BarrierExit(w)
  <2>1. /\ active' = active \ {w}
        /\ arrived' = (IF all THEN arrived \ warps ELSE arrived)
        /\ atBarrier' = (IF all THEN atBarrier \ (warps \cap arrived) ELSE atBarrier)
    BY <1>10 DEF BarrierExit
  <2>2. TypeOK'
    <3>1. inPipe' \in [Warp -> Int] /\ DOMAIN ibuffer' = Warp /\ DOMAIN trace' = Warp
      <4>1. inPipe \in [Warp -> Int] /\ inPipe[w] + n \in Int
        BY <1>3, <1>7 DEF TypeOK
      <4> HIDE DEF n
      <4>2. QED BY <1>3, <4>1 DEF TypeOK
    <3>2. /\ completed' \in SUBSET Warp /\ active' \in SUBSET Warp
          /\ atBarrier' \in SUBSET Warp /\ arrived' \in SUBSET Warp
      <4> HIDE DEF all, warps
      <4>1. QED BY <1>3, <1>10, <2>1 DEF TypeOK
    <3> HIDE DEF n
    <3>3. QED BY <1>3, <1>4, <3>1, <3>2 DEF TypeOK, ldstVars
\* The last instruction of a trace is no barrier.
  <2>3. w \notin arrived
    <3>1. Started(w) - 1 = Len(program[w])
      BY <1>6, <1>10, NextInstructions
    <3>2. program[w][Len(program[w])].op = "alu"
      BY <1>3, Programs, TraceFacts
    <3>3. QED BY <1>3, <3>1, <3>2 DEF BarrierSetOK
  <2>4. StatusOK'
    BY <1>3, <1>10 DEF StatusOK
  <2>5. arrived' \subseteq arrived /\ atBarrier' = arrived'
    <3>1. atBarrier = arrived
      BY <1>3 DEF BarrierSetOK
    <3> HIDE DEF all, warps
    <3>2. QED BY <2>1, <3>1
  <2>6. BarrierSetOK'
    <3>1. active' = Warp \ completed'
      BY <1>3, <1>10, <2>1 DEF BarrierSetOK
    <3>2. arrived' \subseteq active'
      BY <1>3, <2>1, <2>3, <2>5 DEF BarrierSetOK
    <3>3. ASSUME NEW v \in arrived' PROVE Started(v)' > 1 /\ program'[v][Started(v)' - 1].op = "bar"
      <4>1. v \in arrived /\ v \in Warp
        BY <1>3, <2>5 DEF TypeOK
      <4>2. Started(v)' = Started(v)
        BY <1>5, <4>1
      <4>3. QED BY <1>3, <1>4, <4>1, <4>2 DEF BarrierSetOK
    <3>4. QED BY <2>5, <3>1, <3>2, <3>3 DEF BarrierSetOK
  <2>7. ASSUME NEW v \in Warp PROVE Barriers(v)' = Barriers(v) /\ Barriers(v) \in Nat
    BY <1>3, <1>5, BarriersStep
  <2>8. BarriersOK'
    <3> SUFFICES ASSUME NEW e \in Cta, NEW u \in warpsOf[e], NEW v \in warpsOf[e], v \notin completed'
                 PROVE  /\ u \in completed' => Barriers(u)' <= Barriers(v)'
                        /\ u \notin completed' /\ (u \in arrived' <=> v \in arrived') => Barriers(u)' = Barriers(v)'
                        /\ u \notin completed' \cup arrived' /\ v \in arrived' => Barriers(v)' = Barriers(u)' + 1
      BY DEF BarriersOK
    <3>1. /\ u \in Warp /\ v \in Warp /\ v \notin completed /\ v # w
          /\ Barriers(u)' = Barriers(u) /\ Barriers(v)' = Barriers(v)
          /\ Barriers(u) \in Nat /\ Barriers(v) \in Nat
      BY <1>10, <2>7, Constants
    <3>2. /\ u \in completed => Barriers(u) <= Barriers(v)
          /\ u \notin completed /\ (u \in arrived <=> v \in arrived) => Barriers(u) = Barriers(v)
          /\ u \notin completed \cup arrived /\ v \in arrived => Barriers(v) = Barriers(u) + 1
      BY <1>3, <3>1 DEF BarriersOK
    <3>3. u \in completed' => Barriers(u) <= Barriers(v)
      <4>1. CASE u = w
        <5>1. Barriers(v) = Barriers(u) \/ Barriers(v) = Barriers(u) + 1
          BY <1>6, <2>3, <3>2, <4>1
        <5>2. QED BY <3>1, <5>1
      <4>2. CASE u # w
        BY <1>10, <3>2, <4>2
      <4>3. QED BY <4>1, <4>2
    <3>4. CASE e = c /\ all
      <4>1. arrived' = arrived \ warps
        BY <2>1, <3>4
      <4>2. u \notin arrived' /\ v \notin arrived'
        BY <3>4, <4>1
      <4>3. v \in arrived
        BY <1>3, <3>1, <3>4 DEF BarrierSetOK
      <4>4. u \notin completed' => u \in arrived
        BY <1>3, <1>10, <3>1, <3>4 DEF BarrierSetOK
      <4>5. u \notin completed' => Barriers(u) = Barriers(v)
        BY <1>10, <3>2, <4>3, <4>4
      <4>6. QED BY <3>1, <3>3, <4>2, <4>5
    <3>5. CASE ~(e = c /\ all)
      <4>1. (u \in arrived' <=> u \in arrived) /\ (v \in arrived' <=> v \in arrived)
        <5>1. CASE ~all
          BY <2>1, <5>1
        <5>2. CASE e # c
          <6>1. u \notin warps /\ v \notin warps
            BY <5>2, Constants
          <6> HIDE DEF all, warps
          <6>2. QED BY <2>1, <6>1
        <5>3. QED BY <3>5, <5>1, <5>2
      <4>2. u \notin completed' => u \notin completed
        BY <1>10
      <4>3. QED BY <3>1, <3>2, <3>3, <4>1, <4>2
    <3>6. QED BY <3>4, <3>5
  <2>9. QED BY <1>5, <2>2, <2>4, <2>6, <2>8 DEF Inv
<1>11. QED BY <1>3, <1>9, <1>10

\* What issue does with an instruction.
IssueEffect(w, i) ==
    LET inst == program[w][i] IN
    /\ w \notin completed \cup atBarrier /\ inst.dst \cap reserved[w] = {}
    /\ \/ IsMemory(inst) /\ memOut' = memOut \cup {<<w, i>>} /\ exec' = exec
       \/ ~IsMemory(inst) /\ exec' = exec \cup {<<w, i>>} /\ memOut' = memOut
    /\ ibuffer' = [ibuffer EXCEPT ![w] = Tail(@)]
    /\ reserved' = [reserved EXCEPT ![w] = @ \cup inst.dst]
    /\ membar' \in {membar \cup {w}, membar \ {w}}
    /\ \/ inst.op = "bar" /\ BarrierReached(w)
       \/ inst.op # "bar" /\ arrived' = arrived /\ atBarrier' = atBarrier
    /\ UNCHANGED <<config, ctas, status, trace, fetched, imiss, completed, doneExit, inPipe,
                   stores, active, dispatch, pendingWrites, pendingCopies, flight>>

\* It takes the first instruction of the buffer, the first one not issued.
LEMMA IssueHead ==
    ASSUME Inv, NEW w \in Warp, Issue(w)
    PROVE  /\ IssueEffect(w, Started(w)) /\ ibuffer[w] # <<>>
           /\ Started(w) \in Positions(program[w]) /\ Started(w) \in Nat
           /\ Head(ibuffer[w]) = Started(w)
<1>1. TypeOK /\ WarpOK(w) /\ ibuffer[w] # <<>>
  BY DEF Inv, Issue
<1>2. /\ trace[w] \in Nat /\ Len(ibuffer[w]) \in Nat /\ ibuffer[w] \in Seq(Nat)
      /\ Started(w) \in Nat /\ Started(w) > 0 /\ trace[w] = Started(w) + Len(ibuffer[w])
      /\ trace[w] <= Len(program[w]) + 1 /\ Len(program[w]) \in Nat
      /\ \A k \in 1 .. Len(ibuffer[w]) : ibuffer[w][k] = Started(w) + k - 1
  BY <1>1, WarpNumbers, Programs DEF WarpOK, FrontOK
<1>3. Len(ibuffer[w]) > 0
  BY <1>1, <1>2, HeadTail
<1>4. Head(ibuffer[w]) = Started(w)
  <2>1. 1 \in 1 .. Len(ibuffer[w])
    BY <1>2, <1>3
  <2>2. ibuffer[w][1] = Started(w) + 1 - 1
    BY <1>2, <2>1
  <2>3. Head(ibuffer[w]) = ibuffer[w][1]
    BY <1>1, <1>2
  <2>4. QED BY <1>2, <2>2, <2>3
<1>5. Started(w) \in Positions(program[w])
  <2>1. Started(w) <= Len(program[w])
    BY <1>2, <1>3
  <2>2. QED BY <1>2, <2>1 DEF Positions
<1> DEFINE inst == program[w][Started(w)]
<1>6. /\ w \notin completed \cup atBarrier /\ inst.dst \cap reserved[w] = {}
      /\ ibuffer' = [ibuffer EXCEPT ![w] = Tail(@)]
      /\ reserved' = [reserved EXCEPT ![w] = @ \cup inst.dst]
      /\ membar' \in {membar \cup {w}, membar \ {w}}
  BY <1>4 DEF Issue, Waiting, Collides
<1>7. /\ \/ IsMemory(inst) /\ memOut' = memOut \cup {<<w, Started(w)>>} /\ exec' = exec
         \/ ~IsMemory(inst) /\ exec' = exec \cup {<<w, Started(w)>>} /\ memOut' = memOut
      /\ \/ inst.op = "bar" /\ BarrierReached(w)
         \/ inst.op # "bar" /\ arrived' = arrived /\ atBarrier' = atBarrier
      /\ UNCHANGED <<config, ctas, status, trace, fetched, imiss, completed, doneExit, inPipe,
                     stores, active, dispatch, pendingWrites, pendingCopies, flight>>
  BY <1>4 DEF Issue
<1>8. IssueEffect(w, Started(w))
  BY <1>6, <1>7 DEF IssueEffect
<1>9. QED BY <1>1, <1>2, <1>4, <1>5, <1>8

LEMMA IssueWarp ==
    ASSUME Inv, NEW w \in Warp, ibuffer[w] # <<>>, NEW i \in Positions(program[w]), i \in Nat,
           i = Started(w), IssueEffect(w, i)
    PROVE  WarpOK(w)' /\ Started(w)' = i + 1
<1> DEFINE p == program[w]
           X == Executing(w)
           M == InMemOut(w)
           D == Dispatched(w)
           d == AccessesLeft(w)
           F == flight[w]
           res == reserved[w]
           pw == pendingWrites[w]
           X1 == Executing(w)'
           M1 == InMemOut(w)'
<1>1. /\ TypeOK /\ WarpOK(w) /\ w \notin completed /\ p[i].dst \cap res = {}
      /\ \/ IsMemory(p[i]) /\ memOut' = memOut \cup {<<w, i>>} /\ exec' = exec
         \/ ~IsMemory(p[i]) /\ exec' = exec \cup {<<w, i>>} /\ memOut' = memOut
      /\ ibuffer' = [ibuffer EXCEPT ![w] = Tail(@)]
      /\ reserved' = [reserved EXCEPT ![w] = @ \cup p[i].dst]
      /\ UNCHANGED <<config, ctas, status, trace, fetched, imiss, completed, doneExit, inPipe,
                     stores, active, dispatch, pendingWrites, pendingCopies, flight>>
  BY DEF Inv, IssueEffect
<1>2. program' = program /\ \A v : Pos(v)' = Pos(v)
  BY <1>1, SamePrograms
<1>3. /\ IsTrace(p) /\ Pos(w) = Positions(p) /\ Places(p, i, X, M, D, d, F)
      /\ Registers(p, X, M, D, d, F, res, pw)
  BY <1>1, Programs DEF WarpOK, PlacesOK, RegistersOK
<1>4. /\ trace[w] \in Nat /\ Len(ibuffer[w]) \in Nat /\ ibuffer[w] \in Seq(Nat)
      /\ i > 0 /\ trace[w] = i + Len(ibuffer[w]) /\ trace[w] <= Len(p) + 1
      /\ \A k \in 1 .. Len(ibuffer[w]) : ibuffer[w][k] = i + k - 1
  BY <1>1, WarpNumbers DEF WarpOK, FrontOK
<1>5. /\ ibuffer'[w] = Tail(ibuffer[w]) /\ Tail(ibuffer[w]) \in Seq(Nat)
      /\ Len(ibuffer'[w]) = Len(ibuffer[w]) - 1
      /\ \A k \in 1 .. Len(ibuffer[w]) - 1 : ibuffer'[w][k] = ibuffer[w][k + 1]
  <2>1. ibuffer'[w] = Tail(ibuffer[w])
    BY <1>1 DEF TypeOK
  <2> DEFINE q == ibuffer[w]
  <2>2. q \in Seq(Nat) /\ q # <<>>
    BY <1>4
  <2> HIDE DEF q
  <2>3. /\ Tail(q) \in Seq(Nat) /\ Len(Tail(q)) = Len(q) - 1
        /\ \A k \in 1 .. Len(q) - 1 : Tail(q)[k] = q[k + 1]
    BY <2>2
  <2>4. QED BY <2>1, <2>3 DEF q
<1>6. Started(w)' = i + 1
  <2>1. Started(w)' = trace[w] - (Len(ibuffer[w]) - 1)
    BY <1>1, <1>5 DEF Started
  <2>2. QED BY <1>4, <2>1
<1>7. FrontOK(w)'
  <2>1. fetched # w /\ w \notin imiss
    BY <1>1 DEF WarpOK, FrontOK
  <2>2. ASSUME NEW k \in 1 .. Len(ibuffer[w]) - 1 PROVE ibuffer'[w][k] = (i + 1) + k - 1
    <3>1. k + 1 \in 1 .. Len(ibuffer[w]) /\ k \in Nat
      BY <1>4
    <3>2. ibuffer[w][k + 1] = i + (k + 1) - 1
      BY <1>4, <3>1
    <3>3. QED BY <1>5, <3>1, <3>2
  <2>3. i + 1 > 0
    BY <1>4
  <2>4. QED BY <1>1, <1>2, <1>4, <1>5, <1>6, <2>1, <2>2, <2>3 DEF FrontOK
<1>8. \/ ~IsMemory(p[i]) /\ X1 = X \cup {i} /\ M1 = M
      \/ IsMemory(p[i]) /\ X1 = X /\ M1 = M \cup {i}
  BY <1>1, <1>2, <1>3 DEF Executing, InMemOut
<1>9. /\ Dispatched(w)' = D /\ AccessesLeft(w)' = d /\ flight'[w] = F /\ program'[w] = p
      /\ pendingWrites'[w] = pw /\ inPipe'[w] = inPipe[w] /\ stores'[w] = stores[w]
  BY <1>1, <1>2 DEF Dispatched, AccessesLeft
<1>10. reserved'[w] = res \cup p[i].dst
  BY <1>1 DEF TypeOK
<1>11. InPipeline(w) = X \cup M \cup D /\ IsFiniteSet(InPipeline(w))
  BY <1>1, Abbreviations
<1>12. InPipeline(w)' = X1 \cup M1 \cup Dispatched(w)'
  BY DEF InPipeline, InLdst, Executing, InMemOut, Dispatched
<1>13. Unacknowledged(w)' = Unacknowledged(w)
  BY <1>2, <1>9 DEF Unacknowledged
<1> HIDE DEF p, X, M, D, d, F, res, pw, X1, M1
<1>14. PlacesOK(w)'
  <2>1. Places(p, i + 1, X1, M1, D, d, F)
    <3>1. i \in Positions(p)
      BY DEF p
    <3>2. /\ ~IsMemory(p[i]) => Places(p, i + 1, X \cup {i}, M, D, d, F)
          /\ IsMemory(p[i]) => Places(p, i + 1, X, M \cup {i}, D, d, F)
      BY <1>3, <3>1, IssuePlaces
    <3>3. QED BY <1>8, <3>2
  <2>2. QED BY <1>6, <1>9, <2>1 DEF PlacesOK, X1, M1
<1>15. RegistersOK(w)'
  <2>1. i \in Positions(p)
    BY DEF p
  <2>2. \/ X1 = X \cup {i} /\ M1 = M
        \/ X1 = X /\ M1 = M \cup {i}
    BY <1>8
  <2>3. p[i].dst \cap res = {}
    BY <1>1
  <2>4. Registers(p, X1, M1, D, d, F, res \cup p[i].dst, pw)
    BY <1>3, <2>1, <2>2, <2>3, IssueRegisters
  <2>5. QED BY <1>9, <1>10, <2>4 DEF RegistersOK, X1, M1
<1>16. CountersOK(w)'
  <2>1. i \notin InPipeline(w)
    <3>1. \A j \in InPipeline(w) : j \in 1 .. i - 1
      BY <1>3, <1>11 DEF Places
    <3>2. ~(i \in 1 .. i - 1)
      BY <1>4
    <3>3. QED BY <3>1, <3>2
  <2>2. InPipeline(w)' = InPipeline(w) \cup {i}
    BY <1>8, <1>9, <1>11, <1>12
  <2>3. Cardinality(InPipeline(w)') = Cardinality(InPipeline(w)) + 1
    BY <1>11, <2>1, <2>2, FS_AddElement
  <2>4. /\ Cardinality(InPipeline(w)) \in Nat
        /\ inPipe[w] = Len(ibuffer[w]) + Cardinality(InPipeline(w))
    BY <1>1, <1>11, FS_CardinalityType DEF WarpOK, CountersOK
  <2>5. inPipe'[w] = Len(ibuffer'[w]) + Cardinality(InPipeline(w)')
    BY <1>4, <1>5, <1>9, <2>3, <2>4
  <2>6. QED BY <1>1, <1>9, <1>13, <2>5 DEF WarpOK, CountersOK
<1>17. CompletedOK(w)'
  BY <1>1 DEF CompletedOK
<1>18. QED BY <1>6, <1>7, <1>14, <1>15, <1>16, <1>17 DEF WarpOK

LEMMA IssueInv ==
    ASSUME Inv, NEW w \in Warp, Issue(w)
    PROVE  Inv'
<1>1. PICK i \in Positions(program[w]) :
          i \in Nat /\ i = Started(w) /\ IssueEffect(w, i) /\ ibuffer[w] # <<>>
  BY IssueHead
<1> DEFINE inst == program[w][i]
           c == CtaOf(w)
           warps == warpsOf[c]
           here == warps \cap (arrived \cup {w})
           all == here = warps \cap active
<1>2. /\ TypeOK /\ StatusOK /\ BarrierSetOK /\ BarriersOK /\ (\A v \in Warp : WarpOK(v))
      /\ w \notin completed \cup atBarrier
      /\ \/ memOut' = memOut \cup {<<w, i>>} /\ exec' = exec
         \/ exec' = exec \cup {<<w, i>>} /\ memOut' = memOut
      /\ ibuffer' = [ibuffer EXCEPT ![w] = Tail(@)]
      /\ reserved' = [reserved EXCEPT ![w] = @ \cup inst.dst]
      /\ membar' \in {membar \cup {w}, membar \ {w}}
      /\ UNCHANGED <<config, ctas, status, trace, fetched, imiss, completed, doneExit, inPipe,
                     stores, active, dispatch, pendingWrites, pendingCopies, flight>>
  BY <1>1 DEF Inv, IssueEffect
<1>3. \/ inst.op = "bar" /\ all /\ arrived' = arrived \ here /\ atBarrier' = atBarrier \ here
      \/ inst.op = "bar" /\ ~all /\ arrived' = arrived \cup {w} /\ atBarrier' = atBarrier \cup {w}
      \/ inst.op # "bar" /\ arrived' = arrived /\ atBarrier' = atBarrier
  BY <1>1 DEF IssueEffect, BarrierReached
<1>4. program' = program /\ \A v : Pos(v)' = Pos(v)
  BY <1>2, SamePrograms
<1>5. /\ IsTrace(program[w]) /\ inst.dst \subseteq Reg /\ i > 0 /\ i \in Nat
  BY <1>1, <1>2, Programs, TraceFacts DEF Positions
<1>6. c \in Cta /\ w \in warps /\ warps \subseteq Warp
  BY Constants
<1>7. TypeOK'
  <2>1. /\ reserved \in [Warp -> SUBSET Reg] /\ reserved[w] \cup inst.dst \in SUBSET Reg
    BY <1>2, <1>5 DEF TypeOK
  <2> HIDE DEF inst
  <2>2. reserved' \in [Warp -> SUBSET Reg] /\ DOMAIN ibuffer' = Warp
    BY <1>2, <2>1 DEF TypeOK
  <2>3. exec' \in SUBSET (Warp \X Nat) /\ memOut' \in SUBSET (Warp \X Nat)
    BY <1>2, <1>5 DEF TypeOK
  <2> HIDE DEF here, all
  <2>4. arrived' \in SUBSET Warp /\ atBarrier' \in SUBSET Warp /\ membar' \in SUBSET Warp
    BY <1>2, <1>3 DEF TypeOK
  <2>5. QED BY <1>2, <1>4, <2>2, <2>3, <2>4 DEF TypeOK
<1>8. ASSUME NEW v \in Warp, v # w PROVE WarpOK(v)' /\ Started(v)' = Started(v)
  <2>1. Dispatched(v)' = Dispatched(v) /\ AccessesLeft(v)' = AccessesLeft(v)
    BY <1>2, <1>4 DEF Dispatched, AccessesLeft
  <2>2. ibuffer'[v] = ibuffer[v] /\ reserved'[v] = reserved[v]
    BY <1>2, <1>8 DEF TypeOK
  <2>3. /\ \A j : <<v, j>> \in exec' <=> <<v, j>> \in exec
        /\ \A j : <<v, j>> \in memOut' <=> <<v, j>> \in memOut
    BY <1>2, <1>8
  <2>4. Untouched(v)
    BY <1>2, <2>1, <2>2, <2>3 DEF Untouched, Aside
  <2>5. QED BY <2>4, WarpFrame DEF Inv
<1>9. WarpOK(w)' /\ Started(w)' = i + 1
  BY <1>1, IssueWarp
<1>10. \A v \in Warp : WarpOK(v)'
  BY <1>8, <1>9
<1>11. StatusOK'
  BY <1>2 DEF StatusOK
<1>12. BarrierSetOK'
  <2>1. active' = Warp \ completed' /\ w \in active
    BY <1>2 DEF BarrierSetOK
  <2>2. atBarrier' = arrived' /\ arrived' \subseteq arrived \cup {w}
        /\ (w \in arrived' => inst.op = "bar")
    <3>1. atBarrier = arrived /\ w \notin arrived
      BY <1>2 DEF BarrierSetOK
    <3> HIDE DEF here, all, inst
    <3>2. QED BY <1>3, <3>1
  <2>3. arrived' \subseteq active'
    BY <1>2, <2>1, <2>2 DEF BarrierSetOK
  <2>4. ASSUME NEW v \in arrived' PROVE Started(v)' > 1 /\ program'[v][Started(v)' - 1].op = "bar"
    <3>1. CASE v = w
      <4>1. (i + 1) - 1 = i /\ i + 1 > 1
        BY <1>5
      <4>2. QED BY <1>4, <1>9, <2>2, <3>1, <4>1
    <3>2. CASE v # w
      <4>1. v \in arrived /\ v \in Warp
        BY <1>2, <2>2, <3>2 DEF TypeOK
      <4>2. Started(v)' = Started(v)
        BY <1>8, <3>2, <4>1
      <4>3. QED BY <1>2, <1>4, <4>1, <4>2 DEF BarrierSetOK
    <3>3. QED BY <3>1, <3>2
  <2>5. QED BY <2>1, <2>2, <2>3, <2>4 DEF BarrierSetOK
<1>13. ASSUME NEW v \in Warp
       PROVE  /\ Barriers(v) \in Nat
              /\ v # w => Barriers(v)' = Barriers(v)
              /\ v = w => Barriers(v)' = Barriers(v) + (IF inst.op = "bar" THEN 1 ELSE 0)
  <2>1. /\ Barriers(v) = Bars(program[v], Started(v)) /\ Barriers(v) \in Nat
        /\ Barriers(v)' = Bars(program[v], Started(v)')
    BY <1>2, <1>10, BarriersStep
  <2>2. CASE v # w
    BY <1>8, <2>1, <2>2
  <2>3. CASE v = w
    <3>1. Bars(program[w], i + 1) = Bars(program[w], i) + (IF inst.op = "bar" THEN 1 ELSE 0)
      BY <1>5, BarsNext
    <3>2. QED BY <1>1, <1>9, <2>1, <2>3, <3>1
  <2>4. QED BY <2>2, <2>3
<1>14. BarriersOK'
  <2> SUFFICES ASSUME NEW e \in Cta, NEW u \in warpsOf[e], NEW v \in warpsOf[e], v \notin completed'
               PROVE  /\ u \in completed' => Barriers(u)' <= Barriers(v)'
                      /\ u \notin completed' /\ (u \in arrived' <=> v \in arrived') => Barriers(u)' = Barriers(v)'
                      /\ u \notin completed' \cup arrived' /\ v \in arrived' => Barriers(v)' = Barriers(u)' + 1
    BY DEF BarriersOK
  <2>1. /\ u \in Warp /\ v \in Warp /\ v \notin completed
        /\ u \in completed' <=> u \in completed
        /\ Barriers(u) \in Nat /\ Barriers(v) \in Nat
    BY <1>2, <1>13, Constants
  <2>2. /\ u \in completed => Barriers(u) <= Barriers(v)
        /\ u \notin completed /\ (u \in arrived <=> v \in arrived) => Barriers(u) = Barriers(v)
        /\ u \notin completed \cup arrived /\ v \in arrived => Barriers(v) = Barriers(u) + 1
    BY <1>2, <2>1 DEF BarriersOK
  <2>3. v \notin arrived /\ u \in arrived => Barriers(u) = Barriers(v) + 1
    <3>1. u \in arrived => u \notin completed
      BY <1>2 DEF BarrierSetOK
    <3>2. QED BY <1>2, <2>1, <3>1 DEF BarriersOK
  <2>4. w \notin arrived /\ w \notin completed
    BY <1>2 DEF BarrierSetOK
  <2>5. CASE inst.op # "bar" \/ e # c
    <3>1. (u \in arrived' <=> u \in arrived) /\ (v \in arrived' <=> v \in arrived)
      <4>1. CASE inst.op # "bar"
        BY <1>3, <4>1
      <4>2. CASE e # c
        <5>1. u \notin warps /\ v \notin warps
          BY <4>2, Constants
        <5>2. QED BY <1>3, <1>6, <5>1
      <4>3. QED BY <2>5, <4>1, <4>2
    <3>2. Barriers(u)' = Barriers(u) /\ Barriers(v)' = Barriers(v)
      <4>1. CASE inst.op # "bar"
        BY <1>13, <2>1, <4>1
      <4>2. CASE e # c
        <5>1. u # w /\ v # w
          BY <4>2, Constants
        <5>2. QED BY <1>13, <2>1, <5>1
      <4>3. QED BY <2>5, <4>1, <4>2
    <3>3. QED BY <2>1, <2>2, <3>1, <3>2
  <2>6. CASE inst.op = "bar" /\ e = c
    <3>1. /\ u # w => Barriers(u)' = Barriers(u)
          /\ v # w => Barriers(v)' = Barriers(v)
          /\ u = w => Barriers(u)' = Barriers(u) + 1
          /\ v = w => Barriers(v)' = Barriers(v) + 1
      BY <1>13, <2>1, <2>6
    <3>2. CASE all
      \* The warps that are not complete are all at the barrier, and leave it.
      <4>1. arrived' = arrived \ here
        BY <1>3, <2>6, <3>2
      <4>2. u \notin arrived' /\ v \notin arrived'
        BY <2>6, <4>1
      <4>3. (v = w \/ v \in arrived) /\ (u \notin completed => u = w \/ u \in arrived)
        BY <1>2, <2>1, <2>6, <3>2 DEF BarrierSetOK
      <4>4. u \in completed => Barriers(u)' <= Barriers(v)'
        BY <2>1, <2>2, <2>4, <3>1
      <4>5. u \notin completed => Barriers(u)' = Barriers(v)'
        <5>1. CASE u = w /\ v = w
          BY <5>1
        <5>2. CASE u = w /\ v # w
          BY <2>1, <2>2, <2>4, <3>1, <4>3, <5>2
        <5>3. CASE u # w /\ v = w
          BY <2>1, <2>3, <2>4, <3>1, <4>3, <5>3
        <5>4. CASE u # w /\ v # w
          BY <2>1, <2>2, <3>1, <4>3, <5>4
        <5>5. QED BY <5>1, <5>2, <5>3, <5>4
      <4>6. QED BY <2>1, <4>2, <4>4, <4>5
    <3>3. CASE ~all
      <4>1. arrived' = arrived \cup {w}
        BY <1>3, <2>6, <3>3
      <4>2. u \in completed => Barriers(u)' <= Barriers(v)'
        BY <2>1, <2>2, <2>4, <3>1
      <4>3. CASE u = w /\ v = w
        BY <2>1, <2>4, <4>1, <4>3
      <4>4. CASE u = w /\ v # w
        BY <2>1, <2>2, <2>4, <3>1, <4>1, <4>4
      <4>5. CASE u # w /\ v = w
        BY <2>1, <2>2, <2>3, <2>4, <3>1, <4>1, <4>2, <4>5
      <4>6. CASE u # w /\ v # w
        BY <2>1, <2>2, <3>1, <4>1, <4>6
      <4>7. QED BY <4>3, <4>4, <4>5, <4>6
    <3>4. QED BY <3>2, <3>3
  <2>7. QED BY <2>5, <2>6
<1>15. QED BY <1>7, <1>10, <1>11, <1>12, <1>14 DEF Inv

-----------------------------------------------------------------------------
(***************************************************************************)
(* The asynchronous copies of a warp.  Beyond the values above:            *)
(*   O    its awaited copies that have accesses to be answered             *)
(*   g    the groups it has closed         B    its copies, by group       *)
(*   b    the DEPBAR it waits at, if it does                               *)
(***************************************************************************)

\* DEPBAR d waits for copy i, and some DEPBAR of the trace does.
AwaitedBy(p, i, d) ==
    /\ i \in 1 .. d /\ p[d].op = "depbar" /\ p[i].op = "ldgsts"
    /\ Closed(p, i) < Closed(p, d) - p[d].n

Awaited(p, i) == \E d \in Positions(p) : AwaitedBy(p, i, d)

\* The group of copy i in B.
GroupOf(p, i) == Closed(p, i) + 1

\* Every copy that has to be awaited is in its group until it is done, ...
GroupsOK(p, s, O, g, B) ==
    /\ g = Closed(p, s - 1)
    /\ B \in Seq(Seq(Key)) /\ g <= Len(B) /\ Len(B) <= g + 1
    /\ \A i \in O : i < s =>
          GroupOf(p, i) \in 1 .. Len(B) /\ p[i].key \in Range(B[GroupOf(p, i)])

\* ... and those a DEPBAR awaits are done before the warp goes on.
AwaitsOK(p, s, O, g, b) ==
    /\ b \in [start : Int, group : Nat, waiting : BOOLEAN]
    /\ b.waiting => s > 1 /\ p[s - 1].op = "depbar" /\ b.start = g - 1 /\ b.group = p[s - 1].n
    /\ \A d \in 1 .. s - 1 : (b.waiting => d < s - 1) => \A i \in O : ~AwaitedBy(p, i, d)

\* Closed counts one more when a group is closed.
LEMMA ClosedNext ==
    ASSUME NEW p, NEW s \in Nat, s > 0
    PROVE  /\ Closed(p, s - 1) \in Nat /\ Closed(p, s) \in Nat
           /\ Closed(p, s) = Closed(p, s - 1) + (IF p[s].op = "ldgdepbar" THEN 1 ELSE 0)
<1> DEFINE S == {j \in 1 .. s - 1 : p[j].op = "ldgdepbar"}
           T == {j \in 1 .. s : p[j].op = "ldgdepbar"}
<1>1. S \in SUBSET (1 .. s - 1) /\ IsFiniteSet(1 .. s - 1)
  BY FS_Interval
<1>2. IsFiniteSet(S) /\ s \notin S
  BY <1>1, FS_Subset
<1>3. Cardinality(S) \in Nat
  BY <1>2, FS_CardinalityType
<1>4. Closed(p, s - 1) = Cardinality(S) /\ Closed(p, s) = Cardinality(T)
  BY DEF Closed
<1>5. CASE p[s].op = "ldgdepbar"
  <2>1. T = S \cup {s}
    BY <1>5
  <2> HIDE DEF S, T
  <2>2. Cardinality(T) = Cardinality(S) + 1
    BY <1>2, <2>1, FS_AddElement
  <2>3. QED BY <1>3, <1>4, <1>5, <2>2
<1>6. CASE p[s].op # "ldgdepbar"
  <2>1. T = S
    BY <1>6
  <2> HIDE DEF S, T
  <2>2. QED BY <1>3, <1>4, <1>6, <2>1
<1>7. QED BY <1>5, <1>6

LEMMA CopyFacts ==
    ASSUME NEW p, IsTrace(p), NEW i \in Positions(p)
    PROVE  /\ p[i].key \in Key /\ p[i].n \in Nat /\ p[i].acc \in Nat /\ i \in Nat /\ i > 0
           /\ p[i].op = "depbar" => p[i].n <= Closed(p, i)
<1>1. p \in Seq(Inst) /\ Len(p) \in Nat
  BY TraceFacts
<1>2. p[i] \in Inst /\ i \in Nat /\ i > 0
  BY <1>1, ElementOfSeq DEF Positions
<1>3. p[i].op = "depbar" => p[i].n <= Closed(p, i)
  BY DEF IsTrace, Positions
<1>4. QED BY <1>2, <1>3 DEF Inst

\* What is removed from a sequence is one element.
LEMMA RemovedElement ==
    ASSUME NEW S, NEW q \in Seq(S), NEW m \in 1 .. Len(q), NEW r, r = RemoveAt(q, m)
    PROVE  r \in Seq(S) /\ \A j \in 1 .. Len(q) : j # m => q[j] \in Range(r)
<1> DEFINE a == SubSeq(q, 1, m - 1)
           c == SubSeq(q, m + 1, Len(q))
<1>1. a \in Seq(S) /\ Len(a) = m - 1
  OBVIOUS
<1>2. c \in Seq(S) /\ Len(c) = Len(q) - m
  OBVIOUS
<1>3. \A j \in 1 .. m - 1 : a[j] = q[j]
  OBVIOUS
<1>4. ASSUME NEW j \in 1 .. Len(q), j > m PROVE j - m \in 1 .. Len(q) - m /\ c[j - m] = q[j]
  <2>1. j - m \in 1 .. Len(q) - m /\ m + 1 + (j - m) - 1 = j
    BY <1>4
  <2>2. c[j - m] = q[m + 1 + (j - m) - 1]
    BY <2>1
  <2>3. QED BY <2>1, <2>2
<1>5. r = a \o c
  BY DEF RemoveAt
<1> HIDE DEF a, c
<1>6. r \in Seq(S) /\ Len(r) = Len(a) + Len(c) /\ DOMAIN r = 1 .. Len(a) + Len(c)
  <2>1. a \in Seq(S) /\ c \in Seq(S)
    BY <1>1, <1>2
  <2>2. r \in Seq(S) /\ Len(r) = Len(a) + Len(c)
    BY <2>1, <1>5
  <2>3. DOMAIN r = 1 .. Len(r)
    BY <2>2
  <2>4. QED BY <2>2, <2>3
<1>7. \A j \in 1 .. Len(a) : r[j] = a[j]
  BY <1>1, <1>2, <1>5
<1>8. \A j \in 1 .. Len(c) : r[Len(a) + j] = c[j]
  BY <1>1, <1>2, <1>5
<1>9. PICK n \in Nat : n = Len(q)
  OBVIOUS
<1>10. ASSUME NEW j \in 1 .. n, j < m PROVE q[j] \in Range(r)
  <2>1. j \in 1 .. m - 1 /\ j \in DOMAIN r
    BY <1>1, <1>2, <1>6, <1>9, <1>10
  <2>2. r[j] = q[j]
    BY <1>1, <1>3, <1>7, <2>1
  <2>3. QED BY <2>1, <2>2 DEF Range
<1>11. ASSUME NEW j \in 1 .. n, j > m PROVE q[j] \in Range(r)
  <2>1. PICK l \in Nat : l = j - m
    BY <1>9, <1>11
  <2>2. l \in 1 .. Len(c) /\ c[l] = q[j]
    BY <1>2, <1>4, <1>9, <1>11, <2>1
  <2>3. Len(a) + l \in DOMAIN r
    BY <1>1, <1>2, <1>6, <2>2
  <2>4. r[Len(a) + l] = q[j]
    BY <1>8, <2>2
  <2>5. QED BY <2>3, <2>4 DEF Range
<1>12. \A j \in 1 .. n : j # m => j < m \/ j > m
  BY <1>9
<1>13. QED BY <1>6, <1>9, <1>10, <1>11, <1>12

\* A group loses a key and keeps the others.
LEMMA RemovedKey ==
    ASSUME NEW S, NEW q \in Seq(S), NEW k, NEW r, r = RemoveFirst(q, k)
    PROVE  r \in Seq(S) /\ \A x \in Range(q) : x # k => x \in Range(r)
<1> DEFINE places == {j \in 1 .. Len(q) : q[j] = k}
<1>1. CASE places = {}
  BY <1>1 DEF RemoveFirst
<1>2. CASE places # {}
  <2>1. r = RemoveAt(q, Min(places))
    BY <1>2 DEF RemoveFirst, SelectInSeq
  <2>2. Min(places) \in places
    <3>1. places \in SUBSET Nat
      OBVIOUS
    <3> HIDE DEF places
    <3>2. QED BY <1>2, <3>1, LeastOfNats DEF Min
  <2>3. PICK m \in 1 .. Len(q) : m = Min(places) /\ q[m] = k
    BY <2>2
  <2>4. r \in Seq(S) /\ \A j \in 1 .. Len(q) : j # m => q[j] \in Range(r)
    BY <2>1, <2>3, RemovedElement
  <2>5. \A x \in Range(q) : \E j \in 1 .. Len(q) : x = q[j]
    BY DEF Range
  <2>6. QED BY <2>3, <2>4, <2>5
<1>3. QED BY <1>1, <1>2

\* The elements of a sequence that gets one more, and of one that changes one.
LEMMA OneMore ==
    ASSUME NEW S, NEW q \in Seq(S), NEW x \in S, NEW r, r = Append(q, x)
    PROVE  /\ r \in Seq(S) /\ Len(r) = Len(q) + 1 /\ r[Len(q) + 1] = x
           /\ \A h \in 1 .. Len(q) : r[h] = q[h]
OBVIOUS

LEMMA OneOther ==
    ASSUME NEW S, NEW q \in Seq(S), NEW x \in S, NEW m \in 1 .. Len(q), NEW r,
           r = [q EXCEPT ![m] = x]
    PROVE  /\ r \in Seq(S) /\ Len(r) = Len(q) /\ r[m] = x
           /\ \A h \in 1 .. Len(q) : h # m => r[h] = q[h]
OBVIOUS

\* The groups closed before and after an instruction.
LEMMA ClosedBy ==
    ASSUME NEW p, IsTrace(p), NEW s \in Positions(p), NEW g, g = Closed(p, s - 1)
    PROVE  /\ s \in Nat /\ s > 0 /\ g \in Nat /\ (s + 1) - 1 = s
           /\ Closed(p, s) = g + (IF p[s].op = "ldgdepbar" THEN 1 ELSE 0)
<1>1. s \in Nat /\ s > 0
  BY CopyFacts
<1>2. QED BY <1>1, ClosedNext

\* Copies are answered.
LEMMA FewerOpen ==
    ASSUME NEW p, NEW s, NEW O, NEW g, NEW B, NEW b, NEW P \in SUBSET O,
           GroupsOK(p, s, O, g, B), AwaitsOK(p, s, O, g, b)
    PROVE  GroupsOK(p, s, P, g, B) /\ AwaitsOK(p, s, P, g, b)
BY DEF GroupsOK, AwaitsOK

\* What a copy adds to its group.
LEMMA OwnKey ==
    ASSUME NEW p, IsTrace(p), NEW s \in Positions(p), NEW own,
           own = (IF p[s].acc = 0 THEN <<>> ELSE <<p[s].key>>)
    PROVE  own \in Seq(Key) /\ (p[s].acc > 0 => p[s].key \in Range(own))
<1>1. p[s].key \in Key /\ p[s].acc \in Nat
  BY CopyFacts
<1>2. CASE p[s].acc = 0
  BY <1>1, <1>2
<1>3. CASE p[s].acc # 0
  <2>1. PICK k \in Key : k = p[s].key
    BY <1>1
  <2>2. <<k>> \in Seq(Key) /\ DOMAIN <<k>> = {1} /\ <<k>>[1] = k
    BY <2>1
  <2>3. own = <<k>>
    BY <1>3, <2>1
  <2>4. QED BY <2>1, <2>2, <2>3 DEF Range
<1>4. QED BY <1>2, <1>3

\* A copy is issued: it joins the group that is not closed, which it may open.
LEMMA JoinsGroup ==
    ASSUME NEW p, IsTrace(p), NEW s \in Positions(p), p[s].op = "ldgsts",
           NEW O \in SUBSET Nat, NEW g, NEW B, GroupsOK(p, s, O, g, B),
           NEW own \in Seq(Key), p[s].acc > 0 => p[s].key \in Range(own),
           NEW C, C = (IF Len(B) = g + 1 THEN [B EXCEPT ![g + 1] = B[g + 1] \o own] ELSE Append(B, own)),
           NEW P \in SUBSET (O \cup {s}), s \in P => p[s].acc > 0
    PROVE  GroupsOK(p, s + 1, P, g, C)
<1>1. /\ s \in Nat /\ s > 0 /\ p[s].key \in Key /\ p[s].acc \in Nat
      /\ g \in Nat /\ Closed(p, s) = g /\ (s + 1) - 1 = s
  <2>1. g = Closed(p, s - 1)
    BY DEF GroupsOK
  <2>2. s \in Nat /\ s > 0 /\ g \in Nat /\ (s + 1) - 1 = s /\ Closed(p, s) = g + 0
    BY <2>1, ClosedBy
  <2>3. QED BY <2>2, CopyFacts
<1>2. /\ B \in Seq(Seq(Key)) /\ g <= Len(B) /\ Len(B) <= g + 1 /\ Len(B) \in Nat
      /\ \A i \in O : i < s =>
            GroupOf(p, i) \in 1 .. Len(B) /\ p[i].key \in Range(B[GroupOf(p, i)])
  BY DEF GroupsOK
<1>3. /\ C \in Seq(Seq(Key)) /\ Len(C) = g + 1
      /\ \A h \in 1 .. Len(B) : \A k \in Range(B[h]) : k \in Range(C[h])
      /\ \A k \in Range(own) : k \in Range(C[g + 1])
  <2>1. CASE Len(B) = g + 1
    <3>1. g + 1 \in DOMAIN B /\ B[g + 1] \in Seq(Key)
      BY <1>1, <1>2, <2>1
    <3>2. PICK old \in Seq(Key), all \in Seq(Key) :
            /\ old = B[g + 1] /\ all = old \o own
            /\ \A k \in Range(old) : k \in Range(all)
            /\ \A k \in Range(own) : k \in Range(all)
      <4>1. PICK old \in Seq(Key) : old = B[g + 1]
        BY <3>1
      <4>2. PICK all \in Seq(Key) : all = old \o own
        BY <4>1, ConcatProperties
      <4>3. Range(all) = Range(old) \cup Range(own)
        BY <4>1, <4>2, RangeConcatenation
      <4>4. QED BY <4>1, <4>2, <4>3
    <3>3. C = [B EXCEPT ![g + 1] = all]
      BY <2>1, <3>2
    <3>4. PICK m \in 1 .. Len(B) : m = g + 1
      BY <1>1, <1>2, <2>1
    <3>5. /\ C \in Seq(Seq(Key)) /\ Len(C) = Len(B) /\ C[m] = all
          /\ \A h \in 1 .. Len(B) : h # m => C[h] = B[h]
      BY <1>2, <3>2, <3>3, <3>4, OneOther
    <3>6. QED BY <1>2, <2>1, <3>2, <3>4, <3>5
  <2>2. CASE Len(B) = g
    <3>1. C = Append(B, own)
      BY <1>1, <1>2, <2>2
    <3>2. /\ C \in Seq(Seq(Key)) /\ Len(C) = Len(B) + 1 /\ C[Len(B) + 1] = own
          /\ \A h \in 1 .. Len(B) : C[h] = B[h]
      BY <1>2, <3>1, OneMore
    <3>3. QED BY <2>2, <3>2
  <2>3. Len(B) = g + 1 \/ Len(B) = g
    BY <1>1, <1>2
  <2>4. QED BY <2>1, <2>2, <2>3
<1>4. ASSUME NEW i \in P, i < s + 1
      PROVE  GroupOf(p, i) \in 1 .. Len(C) /\ p[i].key \in Range(C[GroupOf(p, i)])
  <2>1. CASE i = s
    <3>1. GroupOf(p, i) = g + 1 /\ p[s].acc > 0
      BY <1>1, <1>4, <2>1 DEF GroupOf
    <3>2. p[i].key \in Range(own) /\ g + 1 \in 1 .. Len(C)
      BY <1>1, <1>3, <2>1, <3>1
    <3>3. QED BY <1>3, <3>1, <3>2
  <2>2. CASE i # s
    <3>1. i \in O /\ i < s
      BY <1>1, <1>4, <2>2
    <3>2. GroupOf(p, i) \in 1 .. Len(B) /\ p[i].key \in Range(B[GroupOf(p, i)])
      BY <1>2, <3>1
    <3>3. 1 .. Len(B) \subseteq 1 .. Len(C)
      BY <1>1, <1>2, <1>3
    <3>4. QED BY <1>3, <3>2, <3>3
  <2>3. QED BY <2>1, <2>2
<1>5. QED BY <1>1, <1>3, <1>4 DEF GroupsOK

\* A group is closed, which may be empty.
LEMMA ClosesGroup ==
    ASSUME NEW p, IsTrace(p), NEW s \in Positions(p), p[s].op = "ldgdepbar",
           NEW O \in SUBSET Nat, NEW g, NEW B, GroupsOK(p, s, O, g, B),
           NEW C, C = (IF Len(B) = g + 1 THEN B ELSE Append(B, <<>>)),
           NEW P \in SUBSET O, s \notin P
    PROVE  GroupsOK(p, s + 1, P, g + 1, C)
<1>1. s \in Nat /\ s > 0 /\ g \in Nat /\ Closed(p, s) = g + 1 /\ (s + 1) - 1 = s
  <2>1. g = Closed(p, s - 1)
    BY DEF GroupsOK
  <2>2. QED BY <2>1, ClosedBy
<1>2. /\ B \in Seq(Seq(Key)) /\ g <= Len(B) /\ Len(B) <= g + 1 /\ Len(B) \in Nat
      /\ \A i \in O : i < s =>
            GroupOf(p, i) \in 1 .. Len(B) /\ p[i].key \in Range(B[GroupOf(p, i)])
  BY DEF GroupsOK
<1>3. C \in Seq(Seq(Key)) /\ Len(C) = g + 1 /\ \A h \in 1 .. Len(B) : C[h] = B[h]
  <2>1. CASE Len(B) = g + 1
    BY <1>2, <2>1
  <2>2. CASE Len(B) = g
    <3>1. C = Append(B, <<>>) /\ <<>> \in Seq(Key)
      BY <1>1, <1>2, <2>2
    <3>2. C \in Seq(Seq(Key)) /\ Len(C) = Len(B) + 1 /\ \A h \in 1 .. Len(B) : C[h] = B[h]
      BY <1>2, <3>1, OneMore
    <3>3. QED BY <2>2, <3>2
  <2>3. Len(B) = g + 1 \/ Len(B) = g
    BY <1>1, <1>2
  <2>4. QED BY <1>2, <2>1, <2>2, <2>3
<1>4. ASSUME NEW i \in P, i < s + 1
      PROVE  GroupOf(p, i) \in 1 .. Len(C) /\ p[i].key \in Range(C[GroupOf(p, i)])
  <2>1. i \in O /\ i < s
    <3>1. i \in Nat /\ i # s /\ i \in O
      OBVIOUS
    <3>2. QED BY <1>1, <1>4, <3>1
  <2>2. GroupOf(p, i) \in 1 .. Len(B) /\ p[i].key \in Range(B[GroupOf(p, i)])
    BY <1>2, <2>1
  <2>3. 1 .. Len(B) \subseteq 1 .. Len(C)
    BY <1>1, <1>2, <1>3
  <2>4. QED BY <1>3, <2>2, <2>3
<1>5. QED BY <1>1, <1>3, <1>4 DEF GroupsOK

\* Anything else is issued.
LEMMA NoGroup ==
    ASSUME NEW p, IsTrace(p), NEW s \in Positions(p), p[s].op # "ldgdepbar",
           NEW O \in SUBSET Nat, NEW g, NEW B, GroupsOK(p, s, O, g, B),
           NEW P \in SUBSET O, s \notin P
    PROVE  GroupsOK(p, s + 1, P, g, B)
<1>1. s \in Nat /\ s > 0 /\ g \in Nat /\ Closed(p, s) = g /\ (s + 1) - 1 = s
  <2>1. g = Closed(p, s - 1)
    BY DEF GroupsOK
  <2>2. s \in Nat /\ s > 0 /\ g \in Nat /\ (s + 1) - 1 = s /\ Closed(p, s) = g + 0
    BY <2>1, ClosedBy
  <2>3. QED BY <2>2
<1>2. \A i \in P : i < s + 1 => i < s
  BY <1>1
<1>3. QED BY <1>1, <1>2 DEF GroupsOK

\* A warp that issues anything but a DEPBAR has nothing more to wait for.
LEMMA StillAwaits ==
    ASSUME NEW p, IsTrace(p), NEW s \in Positions(p), p[s].op # "depbar",
           NEW O, NEW g, NEW h, NEW b, AwaitsOK(p, s, O, g, b), ~b.waiting,
           NEW P \in SUBSET (O \cup {s})
    PROVE  AwaitsOK(p, s + 1, P, h, b)
<1>1. s \in Nat /\ s > 0 /\ (s + 1) - 1 = s
  BY CopyFacts
<1>2. ASSUME NEW d \in 1 .. s, NEW i \in P PROVE ~AwaitedBy(p, i, d)
  <2>1. CASE d = s
    BY <2>1 DEF AwaitedBy
  <2>2. CASE d # s
    <3>1. d \in 1 .. s - 1 /\ s \notin 1 .. d
      BY <1>1, <2>2
    <3>2. CASE i \in O
      BY <3>1, <3>2 DEF AwaitsOK
    <3>3. CASE i = s
      BY <3>1, <3>3 DEF AwaitedBy
    <3>4. QED BY <3>2, <3>3
  <2>3. QED BY <2>1, <2>2
<1>3. QED BY <1>1, <1>2 DEF AwaitsOK

\* No copy is left in groups that are done.
LEMMA DoneGroups ==
    ASSUME NEW p, IsTrace(p), NEW s, NEW O, NEW g, NEW B, GroupsOK(p, s, O, g, B),
           NEW n, GroupsDone(B, n), NEW i \in O, i < s, GroupOf(p, i) <= n, n \in Int
    PROVE  FALSE
<1>1. GroupOf(p, i) \in 1 .. Len(B) /\ p[i].key \in Range(B[GroupOf(p, i)])
  BY DEF GroupsOK
<1>2. GroupOf(p, i) \in 1 .. n
  BY <1>1
<1>3. B[GroupOf(p, i)] = <<>>
  BY <1>2 DEF GroupsDone
<1>4. QED BY <1>1, <1>3 DEF Range

\* A DEPBAR is issued.
LEMMA Awaits ==
    ASSUME NEW p, IsTrace(p), NEW s \in Positions(p), p[s].op = "depbar",
           NEW O \in SUBSET Positions(p), NEW g, NEW B, GroupsOK(p, s, O, g, B),
           NEW b, AwaitsOK(p, s, O, g, b), ~b.waiting,
           NEW c, c = [start |-> g - 1, group |-> p[s].n, waiting |-> ~GroupsDone(B, g - p[s].n)],
           NEW P \in SUBSET O, s \notin P
    PROVE  AwaitsOK(p, s + 1, P, g, c)
<1>1. s \in Nat /\ s > 0 /\ g \in Nat /\ (s + 1) - 1 = s /\ p[s].n \in Nat /\ Closed(p, s) = g
  <2>1. g = Closed(p, s - 1)
    BY DEF GroupsOK
  <2>2. s \in Nat /\ s > 0 /\ g \in Nat /\ (s + 1) - 1 = s /\ Closed(p, s) = g + 0
    BY <2>1, ClosedBy
  <2>3. QED BY <2>2, CopyFacts
<1>2. c.start = g - 1 /\ c.group = p[s].n /\ (~c.waiting => GroupsDone(B, g - p[s].n))
  <2>1. GroupsDone(B, g - p[s].n) \in BOOLEAN
    BY DEF GroupsDone
  <2>2. QED BY <2>1
<1>3. c \in [start : Int, group : Nat, waiting : BOOLEAN]
  <2>1. GroupsDone(B, g - p[s].n) \in BOOLEAN
    BY DEF GroupsDone
  <2>2. QED BY <1>1, <2>1
<1>4. ASSUME NEW d \in 1 .. s, c.waiting => d < s, NEW i \in P PROVE ~AwaitedBy(p, i, d)
  <2> SUFFICES ASSUME AwaitedBy(p, i, d) PROVE FALSE
    OBVIOUS
  <2>1. i \in O /\ i \in Nat /\ i # s /\ i \in 1 .. d /\ i < s
    BY <1>1 DEF AwaitedBy, Positions
  <2>2. CASE d = s
    <3>1. GroupsDone(B, g - p[s].n)
      <4>1. ~c.waiting
        BY <1>1, <1>4, <2>2
      <4>2. QED BY <1>2, <4>1
    <3>2. Closed(p, i) < g - p[s].n
      BY <1>1, <2>2 DEF AwaitedBy
    <3>3. Closed(p, i) \in Nat
      BY ClosedBy
    <3>4. GroupOf(p, i) <= g - p[s].n /\ g - p[s].n \in Int
      BY <1>1, <3>2, <3>3 DEF GroupOf
    <3>5. QED BY <2>1, <3>1, <3>4, DoneGroups
  <2>3. CASE d # s
    <3>1. d \in 1 .. s - 1
      BY <1>1, <2>3
    <3>2. QED BY <2>1, <3>1 DEF AwaitsOK
  <2>4. QED BY <2>2, <2>3
<1>5. c.waiting => s + 1 > 1 /\ p[(s + 1) - 1].op = "depbar" /\ c.group = p[(s + 1) - 1].n
  BY <1>1, <1>2
<1>6. QED BY <1>1, <1>2, <1>3, <1>4, <1>5 DEF AwaitsOK

\* A copy is done: a group that has its key loses it, and a warp goes on
\* if the groups it waits for are empty.
LosesKey(B, C, k) == C = B \/ \E f : C = [B EXCEPT ![f] = RemoveFirst(B[f], k)]

GoesOn(b, C, c) ==
    LET end == IF b.start = 0 THEN Len(C) ELSE b.start - b.group + 1 IN
    /\ c \in [start : Int, group : Nat, waiting : BOOLEAN]
    /\ c.start = b.start /\ c.group = b.group /\ (c.waiting => b.waiting)
    /\ b.waiting => c.waiting \/ GroupsDone(C, end)

LEMMA KeyUnset ==
    ASSUME NEW p, IsTrace(p), NEW s \in 1 .. Len(p) + 1, NEW O \in SUBSET Positions(p),
           NEW g, NEW B, NEW b, GroupsOK(p, s, O, g, B), AwaitsOK(p, s, O, g, b),
           NEW k, NEW P \in SUBSET O, \A i \in P : p[i].key # k,
           NEW C, LosesKey(B, C, k), NEW c, GoesOn(b, C, c)
    PROVE  GroupsOK(p, s, P, g, C) /\ AwaitsOK(p, s, P, g, c)
<1>1. s \in Nat /\ s > 0 /\ Len(p) \in Nat /\ g = Closed(p, s - 1)
  BY TraceFacts DEF GroupsOK
<1>2. /\ B \in Seq(Seq(Key)) /\ g <= Len(B) /\ Len(B) <= g + 1
      /\ \A i \in O : i < s =>
            GroupOf(p, i) \in 1 .. Len(B) /\ p[i].key \in Range(B[GroupOf(p, i)])
  BY DEF GroupsOK
<1>3. /\ C \in Seq(Seq(Key)) /\ Len(C) = Len(B)
      /\ \A h \in 1 .. Len(B) : \A x \in Range(B[h]) : x # k => x \in Range(C[h])
  <2>1. CASE C = B
    BY <1>2, <2>1
  <2>2. ASSUME NEW f \in 1 .. Len(B), C = [B EXCEPT ![f] = RemoveFirst(B[f], k)]
        PROVE  /\ C \in Seq(Seq(Key)) /\ Len(C) = Len(B)
               /\ \A h \in 1 .. Len(B) : \A x \in Range(B[h]) : x # k => x \in Range(C[h])
    <3>1. B[f] \in Seq(Key)
      BY <1>2, <2>2
    <3>2. PICK r : r = RemoveFirst(B[f], k)
      OBVIOUS
    <3>3. r \in Seq(Key) /\ \A x \in Range(B[f]) : x # k => x \in Range(r)
      BY <3>1, <3>2, RemovedKey
    <3>4. C = [B EXCEPT ![f] = r]
      BY <2>2, <3>2
    <3>5. /\ C \in Seq(Seq(Key)) /\ Len(C) = Len(B) /\ C[f] = r
          /\ \A h \in 1 .. Len(B) : h # f => C[h] = B[h]
      BY <1>2, <2>2, <3>3, <3>4, OneOther
    <3>6. QED BY <3>3, <3>5
  <2>3. ASSUME NEW f, f \notin 1 .. Len(B), C = [B EXCEPT ![f] = RemoveFirst(B[f], k)]
        PROVE  C = B
    <3>1. DOMAIN B = 1 .. Len(B)
      BY <1>2
    <3>2. QED BY <1>2, <2>3, <3>1
  <2>4. QED BY <1>2, <2>1, <2>2, <2>3 DEF LosesKey
<1>4. GroupsOK(p, s, P, g, C)
  <2>1. ASSUME NEW i \in P, i < s
        PROVE  GroupOf(p, i) \in 1 .. Len(C) /\ p[i].key \in Range(C[GroupOf(p, i)])
    BY <1>2, <1>3, <2>1
  <2>2. QED BY <1>1, <1>2, <1>3, <2>1 DEF GroupsOK
<1>5. b \in [start : Int, group : Nat, waiting : BOOLEAN]
  BY DEF AwaitsOK
<1> DEFINE end == IF b.start = 0 THEN Len(C) ELSE b.start - b.group + 1
<1>6. /\ c \in [start : Int, group : Nat, waiting : BOOLEAN]
      /\ c.start = b.start /\ c.group = b.group /\ (c.waiting => b.waiting)
      /\ b.waiting => c.waiting \/ GroupsDone(C, end)
  BY DEF GoesOn
<1>7. b.waiting => s > 1 /\ p[s - 1].op = "depbar" /\ b.start = g - 1 /\ b.group = p[s - 1].n
  BY DEF AwaitsOK
<1>8. ASSUME NEW d \in 1 .. s - 1, c.waiting => d < s - 1, NEW i \in P PROVE ~AwaitedBy(p, i, d)
  <2>1. CASE b.waiting => d < s - 1
    BY <2>1 DEF AwaitsOK
  <2>2. CASE b.waiting /\ GroupsDone(C, end) /\ d = s - 1
    <3> SUFFICES ASSUME AwaitedBy(p, i, d) PROVE FALSE
      OBVIOUS
    <3>1. i \in Nat /\ i \in 1 .. s - 1 /\ i < s /\ i \in Positions(p) /\ Closed(p, i) \in Nat
      <4>1. i \in Positions(p) /\ i \in 1 .. s - 1
        BY <2>2 DEF AwaitedBy
      <4>2. Closed(p, i) \in Nat /\ i \in Nat
        BY <4>1, ClosedBy
      <4>3. QED BY <1>1, <4>1, <4>2
    <3>2. b.start = g - 1 /\ b.group = p[s - 1].n /\ b.group \in Nat
      BY <1>5, <1>7, <2>2
    <3>3. Closed(p, i) < g - b.group
      BY <1>1, <2>2, <3>2 DEF AwaitedBy
    <3>4. GroupOf(p, i) \in 1 .. Len(C) /\ Len(C) \in Nat
      BY <1>3, <1>4, <3>1 DEF GroupsOK
    <3>5. g \in Nat
      <4>1. s - 1 \in Positions(p)
        BY <1>1, <1>7, <2>2 DEF Positions
      <4>2. QED BY <1>1, ClosedNext
    <3>6. end \in Int /\ GroupOf(p, i) <= end
      <4>1. CASE b.start = 0
        BY <3>4, <4>1
      <4>2. CASE b.start # 0
        <5>1. end = g - b.group
          BY <3>2, <3>5, <4>2
        <5>2. QED BY <3>1, <3>2, <3>3, <3>5, <5>1 DEF GroupOf
      <4>3. QED BY <4>1, <4>2
    <3>7. QED BY <1>4, <2>2, <3>1, <3>6, DoneGroups
  <2>3. QED BY <1>1, <1>5, <1>6, <1>8, <2>1, <2>2
<1>9. QED BY <1>4, <1>6, <1>7, <1>8 DEF AwaitsOK

-----------------------------------------------------------------------------
(* The invariant of the copies *)

\* The accesses that the instructions of a warp have not seen answered, and
\* those of its copies that are awaited and have some or will.
OwesOf(w) == [i \in Pos(w) |-> Owed(flight[w], Dispatched(w), AccessesLeft(w), i)]

OpenCopies(w) ==
    {i \in Pos(w) : /\ Awaited(program[w], i)
                    /\ OwesOf(w)[i] > 0 \/ (i \in InMemOut(w) /\ program[w][i].acc > 0)}

\* Copies that name one register of the scoreboard of copies are the same.
KeysOnce(p) ==
    \A i, j \in Positions(p) :
       p[i].op = "ldgsts" /\ p[j].op = "ldgsts" /\ p[i].key = p[j].key => i = j

OwnKeys == \A k \in DOMAIN programs : \A w \in Warp : KeysOnce(programs[k][w])

Counted(p, pc, o) ==
    /\ pc \in [Key -> Int]
    /\ \A i \in Positions(p) : p[i].op = "ldgsts" => pc[p[i].key] = o[i]

\* An awaited copy is not answered before it is sent nor after its warp exits.
InTime(w) ==
    \A i \in Pos(w) : Awaited(program[w], i) /\ flight[w][i] > 0 =>
        i < Started(w) /\ i \notin InMemOut(w) /\ w \notin completed

CopiesOK(w) ==
    /\ Counted(program[w], pendingCopies[w], OwesOf(w))
    /\ InTime(w)
    /\ w \notin completed =>
          /\ GroupsOK(program[w], Started(w), OpenCopies(w), group[w], copies[w])
          /\ AwaitsOK(program[w], Started(w), OpenCopies(w), group[w], depbar[w])

CopyInv ==
    /\ DOMAIN pendingCopies = Warp /\ DOMAIN group = Warp
    /\ DOMAIN copies = Warp /\ DOMAIN depbar = Warp
    /\ \A w \in Warp : CopiesOK(w)

\* A step that leaves the copies of warp v alone.
CopiesAside(v) ==
    /\ config' = config
    /\ trace'[v] = trace[v] /\ ibuffer'[v] = ibuffer[v]
    /\ v \in completed' <=> v \in completed
    /\ InMemOut(v)' = InMemOut(v)
    /\ Dispatched(v)' = Dispatched(v) /\ AccessesLeft(v)' = AccessesLeft(v)
    /\ flight'[v] = flight[v] /\ pendingCopies'[v] = pendingCopies[v]
    /\ group'[v] = group[v] /\ copies'[v] = copies[v] /\ depbar'[v] = depbar[v]

LEMMA CopiesFrame ==
    ASSUME NEW v, CopiesOK(v), CopiesAside(v)
    PROVE  CopiesOK(v)'
<1>1. program' = program /\ Pos(v)' = Pos(v)
  BY SamePrograms DEF CopiesAside
<1>2. Started(v)' = Started(v)
  BY DEF CopiesAside, Started
<1>3. OwesOf(v)' = OwesOf(v)
  BY <1>1 DEF OwesOf, CopiesAside
<1>4. OpenCopies(v)' = OpenCopies(v)
  BY <1>1, <1>3 DEF OpenCopies, CopiesAside
<1>5. InTime(v)'
  BY <1>1, <1>2 DEF InTime, CopiesAside, CopiesOK
<1>6. QED BY <1>1, <1>2, <1>3, <1>4, <1>5 DEF CopiesOK, CopiesAside

LEMMA QuietFrame ==
    ASSUME CopyInv,
           UNCHANGED <<config, trace, ibuffer, completed, depbarVars, memOut, dispatch,
                       pendingCopies, flight>>
    PROVE  CopyInv'
<1>1. ASSUME NEW v \in Warp PROVE CopiesOK(v)'
  <2>1. program' = program /\ Pos(v)' = Pos(v)
    BY SamePrograms
  <2>2. CopiesAside(v)
    BY <2>1 DEF CopiesAside, InMemOut, Dispatched, AccessesLeft, depbarVars
  <2>3. QED BY <2>2, CopiesFrame DEF CopyInv
<1>2. QED BY <1>1 DEF CopyInv, depbarVars

\* What a warp owes, and which of its copies are open.
LEMMA OwedBy ==
    ASSUME TypeOK, NEW w \in Warp, WarpOK(w)
    PROVE  /\ IsTrace(program[w]) /\ Pos(w) = Positions(program[w])
           /\ flight[w] \in [Pos(w) -> Nat] /\ AccessesLeft(w) \in Nat
           /\ OwesOf(w) \in [Pos(w) -> Nat]
           /\ \A i \in Pos(w) :
                 OwesOf(w)[i] = flight[w][i] + (IF i \in Dispatched(w) THEN AccessesLeft(w) ELSE 0)
           /\ OpenCopies(w) \in SUBSET Positions(program[w])
           /\ Started(w) \in 1 .. Len(program[w]) + 1
<1>1. IsTrace(program[w]) /\ Pos(w) = Positions(program[w])
  BY Programs
<1>2. /\ flight[w] \in [Pos(w) -> Nat] /\ AccessesLeft(w) \in Nat
      /\ Started(w) \in 1 .. Len(program[w]) + 1
  BY <1>1 DEF WarpOK, PlacesOK, Places
<1>3. \A i \in Pos(w) :
         OwesOf(w)[i] = flight[w][i] + (IF i \in Dispatched(w) THEN AccessesLeft(w) ELSE 0)
  BY DEF OwesOf, Owed
<1>4. OwesOf(w) \in [Pos(w) -> Nat]
  <2>1. \A i \in Pos(w) : flight[w][i] + (IF i \in Dispatched(w) THEN AccessesLeft(w) ELSE 0) \in Nat
    BY <1>2
  <2>2. QED BY <2>1 DEF OwesOf, Owed
<1>5. OpenCopies(w) \in SUBSET Positions(program[w])
  BY <1>1 DEF OpenCopies
<1>6. QED BY <1>1, <1>2, <1>3, <1>4, <1>5

LEMMA InitCopies == Init => CopyInv
<1> SUFFICES ASSUME Init PROVE CopyInv
  OBVIOUS
<1>1. /\ completed = Warp /\ dispatch = <<>>
      /\ pendingCopies = [w \in Warp |-> [k \in Key |-> 0]]
      /\ group = [w \in Warp |-> 0] /\ copies = [w \in Warp |-> <<>>]
      /\ depbar = [w \in Warp |-> NotWaiting]
      /\ flight = [w \in Warp |-> [i \in Pos(w) |-> 0]]
  BY DEF Init
<1>2. ASSUME NEW w \in Warp PROVE CopiesOK(w)
  <2>1. TypeOK /\ WarpOK(w)
    BY InitInv DEF Inv
  <2>2. IsTrace(program[w]) /\ Pos(w) = Positions(program[w])
    BY <2>1, Programs
  <2>3. flight[w] = [i \in Pos(w) |-> 0] /\ pendingCopies[w] = [k \in Key |-> 0]
    BY <1>1
  <2>4. Dispatched(w) = {}
    BY <1>1 DEF Dispatched
  <2>5. \A i \in Pos(w) : OwesOf(w)[i] = 0
    BY <2>3, <2>4 DEF OwesOf, Owed
  <2>6. \A i \in Positions(program[w]) : program[w][i].key \in Key
    BY <2>2, CopyFacts
  <2>7. Counted(program[w], pendingCopies[w], OwesOf(w))
    BY <2>2, <2>3, <2>5, <2>6 DEF Counted
  <2>8. InTime(w)
    BY <2>3 DEF InTime
  <2>9. QED BY <1>1, <2>7, <2>8 DEF CopiesOK
<1>3. QED BY <1>1, <1>2 DEF CopyInv

\* A new CTA gets its warps without copies, and finds none of its traces
\* awaiting one of the last CTA.
LEMMA IssueCtaCopies ==
    ASSUME Inv, CopyInv, NEW c \in Cta, IssueCta(c)
    PROVE  CopyInv'
<1> DEFINE warps == warpsOf[c]
<1>1. /\ TypeOK /\ StatusOK /\ \A v \in Warp : WarpOK(v)
      /\ status[c] = 0 /\ completed' = completed \ warps
      /\ trace' = [w \in Warp |-> IF w \in warps THEN 1 ELSE trace[w]]
      /\ group' = [w \in Warp |-> IF w \in warps THEN 0 ELSE group[w]]
      /\ copies' = [w \in Warp |-> IF w \in warps THEN <<>> ELSE copies[w]]
      /\ depbar' = [w \in Warp |-> IF w \in warps THEN NotWaiting ELSE depbar[w]]
      /\ UNCHANGED <<config, ibuffer, ldstVars>>
  BY DEF Inv, IssueCta
<1>2. program' = program /\ \A v : Pos(v)' = Pos(v)
  BY <1>1, SamePrograms
<1>3. \A v : /\ InMemOut(v)' = InMemOut(v) /\ Dispatched(v)' = Dispatched(v)
             /\ AccessesLeft(v)' = AccessesLeft(v)
             /\ flight'[v] = flight[v] /\ pendingCopies'[v] = pendingCopies[v]
  BY <1>1, <1>2 DEF InMemOut, Dispatched, AccessesLeft, ldstVars
<1>4. warps \subseteq completed
  <2>1. warps \subseteq Warp /\ IsFiniteSet(warps)
    BY Constants
  <2>2. Cardinality(warps \ doneExit) = 0 /\ IsFiniteSet(warps \ doneExit)
    BY <1>1, <2>1, FS_Subset DEF StatusOK
  <2>3. warps \ doneExit = {}
    BY <2>2, FS_EmptySet
  <2>4. QED BY <1>1, <2>3 DEF StatusOK
<1>5. ASSUME NEW v \in Warp, v \notin warps PROVE CopiesOK(v)'
  <2>1. CopiesAside(v)
    BY <1>1, <1>3, <1>5 DEF CopiesAside
  <2>2. QED BY <2>1, CopiesFrame DEF CopyInv
<1>6. ASSUME NEW v \in Warp, v \in warps PROVE CopiesOK(v)'
  <2>1. v \in completed /\ WarpOK(v) /\ CopiesOK(v)
    BY <1>1, <1>4, <1>6 DEF CopyInv
  <2>2. trace'[v] = 1 /\ ibuffer'[v] = <<>> /\ group'[v] = 0 /\ copies'[v] = <<>>
        /\ depbar'[v] = NotWaiting
    BY <1>1, <1>6, <2>1 DEF WarpOK, CompletedOK
  <2>3. Started(v)' = 1
    BY <2>2 DEF Started
  <2>4. OwesOf(v)' = OwesOf(v) /\ Counted(program[v], pendingCopies[v], OwesOf(v))'
    BY <1>2, <1>3, <2>1 DEF OwesOf, CopiesOK
  <2>5. InTime(v)'
    BY <1>2, <1>3, <2>1 DEF InTime, CopiesOK
  <2>6. Closed(program[v], 0) = 0
    BY FS_EmptySet DEF Closed
  <2>7. \A i \in OpenCopies(v)' : i \in Nat /\ i > 0
    BY <1>1, <1>2, Programs DEF OpenCopies, Pos
  <2>8. GroupsOK(program[v], 1, OpenCopies(v)', 0, <<>>)
    BY <2>6, <2>7 DEF GroupsOK
  <2>9. AwaitsOK(program[v], 1, OpenCopies(v)', 0, NotWaiting)
    BY DEF AwaitsOK, NotWaiting
  <2>10. QED BY <1>2, <2>2, <2>3, <2>4, <2>5, <2>8, <2>9 DEF CopiesOK
<1>7. \A v \in Warp : CopiesOK(v)'
  BY <1>5, <1>6
<1>8. QED BY <1>1, <1>7 DEF CopyInv, ldstVars

\* A trace ends with no DEPBAR, so a warp that is complete has its awaited copies.
LEMMA DecodeCopies ==
    ASSUME Inv, CopyInv, Decode
    PROVE  CopyInv'
<1>1. fetched \in Warp /\ TypeOK
  BY DEF Inv, TypeOK, Decode
<1>2. PICK w \in Warp : fetched = w
  BY <1>1
<1> DEFINE next == {trace[w], trace[w] + 1} \cap Pos(w)
<1>3. /\ \/ next = {} /\ completed' = completed \cup {w}
         \/ completed' = completed
      /\ UNCHANGED <<config, depbarVars, ldstVars>>
  BY <1>2 DEF Decode, barrierVars
<1>4. program' = program /\ \A v : Pos(v)' = Pos(v)
  BY <1>3, SamePrograms
<1>5. \A v \in Warp : Started(v)' = Started(v)
  BY DecodeWarps
<1>6. ASSUME NEW v \in Warp
      PROVE  /\ InMemOut(v)' = InMemOut(v) /\ flight'[v] = flight[v]
             /\ OwesOf(v)' = OwesOf(v) /\ OpenCopies(v)' = OpenCopies(v)
             /\ pendingCopies'[v] = pendingCopies[v] /\ group'[v] = group[v]
             /\ copies'[v] = copies[v] /\ depbar'[v] = depbar[v]
  <2>1. /\ InMemOut(v)' = InMemOut(v) /\ flight'[v] = flight[v]
        /\ Dispatched(v)' = Dispatched(v) /\ AccessesLeft(v)' = AccessesLeft(v)
    BY <1>3, <1>4 DEF InMemOut, Dispatched, AccessesLeft, ldstVars
  <2>2. OwesOf(v)' = OwesOf(v)
    BY <1>4, <2>1 DEF OwesOf
  <2>3. OpenCopies(v)' = OpenCopies(v)
    BY <1>4, <2>1, <2>2 DEF OpenCopies
  <2>4. QED BY <1>3, <2>1, <2>2, <2>3 DEF ldstVars, depbarVars
<1>7. ASSUME NEW v \in Warp, v \in completed' => v \in completed PROVE CopiesOK(v)'
  <2>1. CopiesOK(v) /\ Started(v)' = Started(v)
    BY <1>5 DEF CopyInv
  <2>2. InTime(v)'
    BY <1>4, <1>6, <1>7, <2>1 DEF InTime, CopiesOK
  <2>3. v \notin completed' => v \notin completed
    BY <1>3
  <2>4. QED BY <1>4, <1>6, <2>1, <2>2, <2>3 DEF CopiesOK
<1>8. ASSUME w \in completed', w \notin completed PROVE CopiesOK(w)'
  <2>1. WarpOK(w) /\ ibuffer[w] = <<>> /\ next = {} /\ CopiesOK(w)
    BY <1>2, <1>3, <1>8 DEF Inv, WarpOK, FrontOK, CopyInv
  <2>2. /\ trace[w] \in Nat /\ trace[w] > 0 /\ Len(program[w]) \in Nat
        /\ trace[w] <= Len(program[w]) + 1 /\ Started(w) = trace[w]
        /\ Pos(w) = 1 .. Len(program[w]) /\ IsTrace(program[w])
    <3>1. Len(ibuffer[w]) = 0
      BY <2>1
    <3>2. QED BY <1>1, <2>1, <3>1, WarpNumbers, Programs DEF Pos
  <2>3. Started(w) = Len(program[w]) + 1
    BY <2>1, <2>2, NextInstructions
  <2>4. ~depbar[w].waiting
    <3>1. program[w][Len(program[w])].op = "alu" /\ Started(w) - 1 = Len(program[w])
      BY <2>2, <2>3, TraceFacts
    <3>2. depbar[w].waiting => program[w][Started(w) - 1].op = "depbar"
      BY <1>8, <2>1 DEF CopiesOK, AwaitsOK
    <3>3. QED BY <3>1, <3>2
  <2>5. OpenCopies(w) = {}
    <3> SUFFICES ASSUME NEW i \in OpenCopies(w) PROVE FALSE
      OBVIOUS
    <3>1. PICK d \in Positions(program[w]) : AwaitedBy(program[w], i, d)
      BY DEF OpenCopies, Awaited
    <3>2. d \in 1 .. Started(w) - 1
      BY <2>2, <2>3 DEF Positions
    <3>3. QED BY <1>8, <2>1, <2>4, <3>1, <3>2 DEF CopiesOK, AwaitsOK
  <2>6. ASSUME NEW i \in Pos(w), Awaited(program[w], i) PROVE ~(flight[w][i] > 0)
    <3>1. OwesOf(w)[i] = flight[w][i] + (IF i \in Dispatched(w) THEN AccessesLeft(w) ELSE 0)
      BY <1>1, <2>1, OwedBy
    <3>2. flight[w][i] \in Nat /\ AccessesLeft(w) \in Nat
      BY <1>1, <2>1, OwedBy
    <3>3. flight[w][i] > 0 => OwesOf(w)[i] > 0
      BY <3>1, <3>2
    <3>4. QED BY <2>5, <2>6, <3>3 DEF OpenCopies
  <2>7. InTime(w)'
    BY <1>4, <1>6, <2>6 DEF InTime
  <2>8. QED BY <1>4, <1>6, <1>8, <2>1, <2>7 DEF CopiesOK
<1>9. \A v \in Warp : CopiesOK(v)'
  BY <1>3, <1>7, <1>8
<1>10. QED BY <1>3, <1>9 DEF CopyInv, ldstVars, depbarVars

\* A copy joins a group as it is issued, and a DEPBAR holds its warp unless what
\* it awaits is done.
LEMMA IssueCopies ==
    ASSUME Inv, CopyInv, NEW w \in Warp, Issue(w)
    PROVE  CopyInv'
<1>1. PICK i \in Positions(program[w]) : i = Started(w) /\ i = Head(ibuffer[w]) /\ i \in Nat
  BY IssueHead
<1> DEFINE p == program[w]
           O == OpenCopies(w)
           P == OpenCopies(w)'
           g == group[w]
           B == copies[w]
<1>2. /\ TypeOK /\ WarpOK(w) /\ CopiesOK(w) /\ w \notin completed /\ ~depbar[w].waiting
      /\ Started(w)' = i + 1 /\ \A v \in Warp : v # w => ibuffer'[v] = ibuffer[v]
      /\ \/ memOut' = memOut \cup {<<w, i>>}
         \/ memOut' = memOut
      /\ UNCHANGED <<config, trace, completed, dispatch, pendingCopies, flight>>
  <2>1. IssueEffect(w, i) /\ ibuffer[w] # <<>>
    BY <1>1, IssueHead
  <2>2. Started(w)' = i + 1
    BY <1>1, <2>1, IssueWarp
  <2>3. w \notin completed /\ ~depbar[w].waiting
    BY DEF Issue, Waiting
  <2>4. /\ TypeOK /\ WarpOK(w) /\ CopiesOK(w)
        /\ ibuffer' = [ibuffer EXCEPT ![w] = Tail(@)]
        /\ UNCHANGED <<config, trace, completed, dispatch, pendingCopies, flight>>
    BY <2>1 DEF Inv, CopyInv, IssueEffect
  <2>5. \/ memOut' = memOut \cup {<<w, i>>}
        \/ memOut' = memOut
    BY <2>1 DEF IssueEffect
  <2>6. QED BY <2>2, <2>3, <2>4, <2>5 DEF TypeOK
<1>3. \/ /\ p[i].op = "ldgsts" /\ JoinGroup(w, p[i]) /\ UNCHANGED <<group, depbar>>
      \/ p[i].op = "ldgdepbar" /\ CloseGroup(w) /\ depbar' = depbar
      \/ p[i].op = "depbar" /\ WaitForGroups(w, p[i].n) /\ UNCHANGED <<group, copies>>
      \/ p[i].op \notin {"ldgsts", "ldgdepbar", "depbar"} /\ UNCHANGED depbarVars
  BY <1>1 DEF Issue
<1>4. program' = program /\ \A v : Pos(v)' = Pos(v)
  BY <1>2, SamePrograms
<1>5. \A v : Dispatched(v)' = Dispatched(v) /\ AccessesLeft(v)' = AccessesLeft(v)
  BY <1>2, <1>4 DEF Dispatched, AccessesLeft
<1>6. \A v : OwesOf(v)' = OwesOf(v)
  BY <1>2, <1>4, <1>5 DEF OwesOf
<1>7. ASSUME NEW v \in Warp, v # w PROVE CopiesOK(v)'
  <2>1. InMemOut(v)' = InMemOut(v)
    BY <1>2, <1>4, <1>7 DEF InMemOut
  <2>2. group'[v] = group[v] /\ copies'[v] = copies[v] /\ depbar'[v] = depbar[v]
    BY <1>3, <1>7 DEF CopyInv, JoinGroup, CloseGroup, WaitForGroups, depbarVars
  <2>3. CopiesAside(v)
    BY <1>2, <1>5, <1>7, <2>1, <2>2 DEF CopiesAside
  <2>4. QED BY <2>3, CopiesFrame DEF CopyInv
<1>8. /\ IsTrace(p) /\ Pos(w) = Positions(p) /\ O \in SUBSET Positions(p)
      /\ GroupsOK(p, i, O, g, B) /\ AwaitsOK(p, i, O, g, depbar[w])
  BY <1>1, <1>2, OwedBy DEF CopiesOK
<1>9. InMemOut(w)' \subseteq InMemOut(w) \cup {i}
  BY <1>2, <1>4 DEF InMemOut
<1>10. P \subseteq O \cup {i}
  BY <1>4, <1>6, <1>9 DEF OpenCopies
<1>11. i \in P => p[i].op = "ldgsts" /\ p[i].acc > 0
  <2> SUFFICES ASSUME i \in P PROVE p[i].op = "ldgsts" /\ p[i].acc > 0
    OBVIOUS
  <2>1. Awaited(p, i) /\ (OwesOf(w)[i] > 0 \/ p[i].acc > 0)
    BY <1>4, <1>6 DEF OpenCopies
  <2>2. p[i].op = "ldgsts"
    BY <2>1 DEF Awaited, AwaitedBy
  <2>3. flight[w][i] = 0
    <3>1. flight[w][i] \in Nat
      BY <1>2, <1>8, OwedBy
    <3>2. ~(flight[w][i] > 0)
      BY <1>1, <1>2, <1>8, <2>1 DEF CopiesOK, InTime
    <3>3. QED BY <3>1, <3>2
  <2>4. i \notin Dispatched(w)
    BY <1>1, <1>2 DEF WarpOK, PlacesOK, Places
  <2>5. OwesOf(w)[i] = 0
    BY <1>2, <1>8, <2>3, <2>4, OwedBy
  <2>6. QED BY <2>1, <2>2, <2>5
<1>12. O \in SUBSET Nat
  BY <1>8 DEF Positions
<1> HIDE DEF O, P
<1>13. /\ GroupsOK(p, i + 1, P, group'[w], copies'[w])
       /\ AwaitsOK(p, i + 1, P, group'[w], depbar'[w])
  <2>1. CASE p[i].op = "ldgsts" /\ JoinGroup(w, p[i]) /\ UNCHANGED <<group, depbar>>
    <3>1. PICK own : own = IF p[i].acc = 0 THEN <<>> ELSE <<p[i].key>>
      OBVIOUS
    <3>2. copies'[w] = IF Len(B) = g + 1 THEN [B EXCEPT ![g + 1] = B[g + 1] \o own] ELSE Append(B, own)
      BY <2>1, <3>1 DEF JoinGroup, CopyInv
    <3>3. own \in Seq(Key) /\ (p[i].acc > 0 => p[i].key \in Range(own))
      BY <1>8, <3>1, OwnKey
    <3>4. GroupsOK(p, i + 1, P, g, copies'[w])
      BY <1>8, <1>10, <1>11, <1>12, <2>1, <3>2, <3>3, JoinsGroup
    <3>5. AwaitsOK(p, i + 1, P, g, depbar[w])
      BY <1>2, <1>8, <1>10, <2>1, StillAwaits
    <3>6. QED BY <2>1, <3>4, <3>5
  <2>2. CASE p[i].op = "ldgdepbar" /\ CloseGroup(w) /\ depbar' = depbar
    <3>1. P \in SUBSET O /\ i \notin P
      BY <1>10, <1>11, <2>2
    <3>2. group'[w] = g + 1 /\ copies'[w] = IF Len(B) = g + 1 THEN B ELSE Append(B, <<>>)
      BY <2>2 DEF CloseGroup, CopyInv
    <3>3. GroupsOK(p, i + 1, P, g + 1, copies'[w])
      BY <1>8, <1>12, <2>2, <3>1, <3>2, ClosesGroup
    <3>4. AwaitsOK(p, i + 1, P, g + 1, depbar[w])
      BY <1>2, <1>8, <1>10, <2>2, StillAwaits
    <3>5. QED BY <2>2, <3>2, <3>3, <3>4
  <2>3. CASE p[i].op = "depbar" /\ WaitForGroups(w, p[i].n) /\ UNCHANGED <<group, copies>>
    <3>1. P \in SUBSET O /\ i \notin P
      BY <1>10, <1>11, <2>3
    <3>2. depbar'[w] = [start |-> g - 1, group |-> p[i].n, waiting |-> ~GroupsDone(B, g - p[i].n)]
      BY <2>3 DEF WaitForGroups, CopyInv
    <3>3. GroupsOK(p, i + 1, P, g, B)
      BY <1>8, <1>12, <2>3, <3>1, NoGroup
    <3>4. AwaitsOK(p, i + 1, P, g, depbar'[w])
      BY <1>2, <1>8, <2>3, <3>1, <3>2, Awaits
    <3>5. QED BY <2>3, <3>3, <3>4
  <2>4. CASE p[i].op \notin {"ldgsts", "ldgdepbar", "depbar"} /\ UNCHANGED depbarVars
    <3>1. P \in SUBSET O /\ i \notin P
      BY <1>10, <1>11, <2>4
    <3>2. GroupsOK(p, i + 1, P, g, B)
      BY <1>8, <1>12, <2>4, <3>1, NoGroup
    <3>3. AwaitsOK(p, i + 1, P, g, depbar[w])
      BY <1>2, <1>8, <1>10, <2>4, StillAwaits
    <3>4. QED BY <2>4, <3>2, <3>3 DEF depbarVars
  <2>5. QED BY <1>3, <2>1, <2>2, <2>3, <2>4
<1>14. InTime(w)'
  <2> SUFFICES ASSUME NEW j \in Pos(w), Awaited(p, j), flight[w][j] > 0
               PROVE  j < i + 1 /\ j \notin InMemOut(w)' /\ w \notin completed
    BY <1>2, <1>4 DEF InTime
  <2>1. j < i /\ j \notin InMemOut(w)
    BY <1>1, <1>2 DEF CopiesOK, InTime
  <2>2. j \in Nat
    BY <1>8 DEF Positions
  <2>3. QED BY <1>1, <1>2, <1>9, <2>1, <2>2
<1>15. CopiesOK(w)'
  <2>1. Counted(p, pendingCopies'[w], OwesOf(w)')
    BY <1>2, <1>6 DEF CopiesOK
  <2>2. QED BY <1>2, <1>4, <1>13, <1>14, <2>1 DEF CopiesOK, P
<1>16. \A v \in Warp : CopiesOK(v)'
  BY <1>7, <1>15
<1>17. DOMAIN group' = Warp /\ DOMAIN copies' = Warp /\ DOMAIN depbar' = Warp
  BY <1>3 DEF CopyInv, JoinGroup, CloseGroup, WaitForGroups, depbarVars
<1>18. QED BY <1>2, <1>16, <1>17 DEF CopyInv

-----------------------------------------------------------------------------
(* Copies in the ldst_unit *)

\* Two copies of a warp have different keys.
LEMMA OneKey ==
    ASSUME OwnKeys, TypeOK, NEW w \in Warp
    PROVE  KeysOnce(program[w])
<1>1. config.kernel \in DOMAIN programs
  BY CoreAssumption DEF TypeOK, Config
<1>2. QED BY <1>1 DEF OwnKeys, program

\* A copy's counter follows what the copy owes.
LEMMA CountStep ==
    ASSUME NEW p, IsTrace(p), KeysOnce(p), NEW i \in Positions(p),
           NEW pc, NEW o, Counted(p, pc, o), NEW m, m[i] \in Int,
           \A j \in Positions(p) : j # i => m[j] = o[j],
           NEW qc, qc = IF p[i].op = "ldgsts" THEN [pc EXCEPT ![p[i].key] = m[i]] ELSE pc
    PROVE  Counted(p, qc, m)
<1>1. pc \in [Key -> Int] /\ p[i].key \in Key
  BY CopyFacts DEF Counted
<1>2. CASE p[i].op = "ldgsts"
  <2>1. qc = [pc EXCEPT ![p[i].key] = m[i]]
    BY <1>2
  <2>2. qc \in [Key -> Int] /\ qc[p[i].key] = m[i]
    BY <1>1, <2>1
  <2>3. ASSUME NEW j \in Positions(p), p[j].op = "ldgsts", j # i PROVE qc[p[j].key] = m[j]
    <3>1. p[j].key # p[i].key /\ p[j].key \in Key
      BY <1>2, <2>3, CopyFacts DEF KeysOnce
    <3>2. qc[p[j].key] = pc[p[j].key]
      BY <1>1, <2>1, <3>1
    <3>3. QED BY <2>3, <3>2 DEF Counted
  <2>4. QED BY <2>2, <2>3 DEF Counted
<1>3. CASE p[i].op # "ldgsts"
  <2>1. qc = pc
    BY <1>3
  <2>2. QED BY <1>3, <2>1 DEF Counted
<1>4. QED BY <1>2, <1>3

\* unset_depbar in a warp.
LEMMA UnsetWarp ==
    ASSUME CopyInv, NEW w \in Warp, NEW k, Unset(w, k)
    PROVE  /\ group' = group /\ DOMAIN copies' = Warp /\ DOMAIN depbar' = Warp
           /\ \A v \in Warp : v # w => copies'[v] = copies[v] /\ depbar'[v] = depbar[v]
           /\ \E f, C, end :
                 /\ C = copies[w] \/ C = [copies[w] EXCEPT ![f] = RemoveFirst(copies[w][f], k)]
                 /\ end = IF depbar[w].start = 0 THEN Len(C) ELSE depbar[w].start - depbar[w].group + 1
                 /\ copies'[w] = C
                 /\ depbar'[w] = [depbar[w] EXCEPT !.waiting = depbar[w].waiting /\ ~GroupsDone(C, end)]
<1> DEFINE found == {h \in DOMAIN copies[w] : k \in Range(copies[w][h])}
           first == CHOOSE h \in found : \A l \in found : h <= l
           buf == IF found = {} THEN copies[w]
                  ELSE [copies[w] EXCEPT ![first] = RemoveFirst(copies[w][first], k)]
           last == IF depbar[w].start = 0 THEN Len(buf) ELSE depbar[w].start - depbar[w].group + 1
<1>1. /\ copies' = [copies EXCEPT ![w] = buf]
      /\ depbar' = [depbar EXCEPT ![w].waiting = depbar[w].waiting /\ ~GroupsDone(buf, last)]
      /\ group' = group
  BY DEF Unset
<1>2. \/ buf = copies[w]
      \/ buf = [copies[w] EXCEPT ![first] = RemoveFirst(copies[w][first], k)]
  OBVIOUS
<1>3. last = IF depbar[w].start = 0 THEN Len(buf) ELSE depbar[w].start - depbar[w].group + 1
  OBVIOUS
<1> HIDE DEF buf, last
<1>4. DOMAIN copies = Warp /\ DOMAIN depbar = Warp
  BY DEF CopyInv
<1>5. copies'[w] = buf /\ DOMAIN copies' = Warp
  BY <1>1, <1>4
<1>6. /\ depbar'[w] = [depbar[w] EXCEPT !.waiting = depbar[w].waiting /\ ~GroupsDone(buf, last)]
      /\ DOMAIN depbar' = Warp
  BY <1>1, <1>4
<1>7. \A v \in Warp : v # w => copies'[v] = copies[v] /\ depbar'[v] = depbar[v]
  BY <1>1, <1>4
<1> HIDE DEF first
<1>8. \E f, C, end :
         /\ C = copies[w] \/ C = [copies[w] EXCEPT ![f] = RemoveFirst(copies[w][f], k)]
         /\ end = IF depbar[w].start = 0 THEN Len(C) ELSE depbar[w].start - depbar[w].group + 1
         /\ copies'[w] = C
         /\ depbar'[w] = [depbar[w] EXCEPT !.waiting = depbar[w].waiting /\ ~GroupsDone(C, end)]
  BY <1>2, <1>3, <1>5, <1>6
<1>9. QED BY <1>1, <1>5, <1>6, <1>7, <1>8

\* Instruction i of warp w owes m accesses after a step of the ldst_unit, which
\* has done with a copy that owes none.
LEMMA MemoryStep ==
    ASSUME Inv, CopyInv, OwnKeys, NEW w \in Warp, NEW i \in Pos(w), NEW m \in Nat,
           UNCHANGED <<config, trace, ibuffer, completed>>,
           InMemOut(w)' \subseteq InMemOut(w),
           OwesOf(w)'[i] = m, \A j \in Pos(w) : j # i => OwesOf(w)'[j] = OwesOf(w)[j],
           pendingCopies'[w] = (IF program[w][i].op = "ldgsts"
                                THEN [pendingCopies[w] EXCEPT ![program[w][i].key] = m]
                                ELSE pendingCopies[w]),
           i \in OpenCopies(w)' => i \in OpenCopies(w), InTime(w)',
           \/ UNCHANGED depbarVars
           \/ /\ program[w][i].op = "ldgsts" /\ i \notin OpenCopies(w)'
              /\ Unset(w, program[w][i].key)
    PROVE  CopiesOK(w)'
<1> DEFINE p == program[w]
           s == Started(w)
           O == OpenCopies(w)
           P == OpenCopies(w)'
           o1 == OwesOf(w)'
           g == group[w]
           B == copies[w]
           b == depbar[w]
<1>1. program' = program /\ Pos(w)' = Pos(w) /\ Started(w)' = s
  BY SamePrograms DEF Started
<1>2. /\ TypeOK /\ WarpOK(w) /\ CopiesOK(w) /\ IsTrace(p) /\ Pos(w) = Positions(p)
      /\ O \in SUBSET Positions(p) /\ s \in 1 .. Len(p) + 1 /\ KeysOnce(p)
  BY OwedBy, OneKey DEF Inv, CopyInv
<1>3. Counted(p, pendingCopies'[w], o1)
  <2>1. Counted(p, pendingCopies[w], OwesOf(w))
    BY <1>2 DEF CopiesOK
  <2> HIDE DEF p, o1
  <2>2. o1[i] \in Int /\ i \in Positions(p) /\ o1[i] = m
    BY <1>2 DEF o1
  <2>3. \A j \in Positions(p) : j # i => o1[j] = OwesOf(w)[j]
    BY <1>2 DEF o1
  <2>4. pendingCopies'[w] = IF p[i].op = "ldgsts" THEN [pendingCopies[w] EXCEPT ![p[i].key] = o1[i]]
                            ELSE pendingCopies[w]
    BY <2>2 DEF p
  <2>5. QED BY <1>2, <2>1, <2>2, <2>3, <2>4, CountStep
<1>4. P \subseteq O
  BY <1>1 DEF OpenCopies
<1>5. CASE w \in completed
  BY <1>1, <1>3, <1>5 DEF CopiesOK
<1>6. CASE w \notin completed
  <2>1. GroupsOK(p, s, O, g, B) /\ AwaitsOK(p, s, O, g, b)
    BY <1>2, <1>6 DEF CopiesOK
  <2> HIDE DEF O, P
  <2>2. CASE UNCHANGED depbarVars
    <3>1. GroupsOK(p, s, P, g, B) /\ AwaitsOK(p, s, P, g, b)
      BY <1>4, <2>1, FewerOpen
    <3>2. group' = group /\ copies' = copies /\ depbar' = depbar
      BY <2>2 DEF depbarVars
    <3>3. QED BY <1>1, <1>3, <3>1, <3>2 DEF CopiesOK, P
  <2>3. CASE p[i].op = "ldgsts" /\ i \notin P /\ Unset(w, p[i].key)
    <3>1. PICK k : k = p[i].key
      OBVIOUS
    <3>2. Unset(w, k)
      BY <2>3, <3>1
    <3>3. /\ group' = group
          /\ \E f, C, end :
                /\ C = B \/ C = [B EXCEPT ![f] = RemoveFirst(B[f], k)]
                /\ end = IF b.start = 0 THEN Len(C) ELSE b.start - b.group + 1
                /\ copies'[w] = C
                /\ depbar'[w] = [b EXCEPT !.waiting = b.waiting /\ ~GroupsDone(C, end)]
      BY <3>2, UnsetWarp
    <3>4. PICK f, C, end :
             /\ C = B \/ C = [B EXCEPT ![f] = RemoveFirst(B[f], k)]
             /\ end = IF b.start = 0 THEN Len(C) ELSE b.start - b.group + 1
             /\ copies'[w] = C
             /\ depbar'[w] = [b EXCEPT !.waiting = b.waiting /\ ~GroupsDone(C, end)]
      BY <3>3
    <3>5. \A j \in P : p[j].key # k
      <4> SUFFICES ASSUME NEW j \in P, p[j].key = k PROVE FALSE
        OBVIOUS
      <4>1. j \in Positions(p) /\ j # i
        BY <1>2, <1>4, <2>3
      <4>2. p[j].op = "ldgsts"
        BY <1>4 DEF O, OpenCopies, Awaited, AwaitedBy
      <4>3. QED BY <1>2, <2>3, <3>1, <4>1, <4>2 DEF KeysOnce
    <3>6. PICK c : c = [b EXCEPT !.waiting = b.waiting /\ ~GroupsDone(C, end)]
      OBVIOUS
    <3> HIDE DEF p, s, g, B, b
    <3>7. GroupsOK(p, s, P, g, C) /\ AwaitsOK(p, s, P, g, c)
      <4>1. LosesKey(B, C, k)
        BY <3>4 DEF LosesKey
      <4>2. P \in SUBSET O
        BY <1>4
      <4>3. b \in [start : Int, group : Nat, waiting : BOOLEAN]
        BY <2>1 DEF AwaitsOK
      <4>4. GroupsDone(C, end) \in BOOLEAN
        BY DEF GroupsDone
      <4>5. /\ c \in [start : Int, group : Nat, waiting : BOOLEAN]
            /\ c.start = b.start /\ c.group = b.group
            /\ c.waiting = (b.waiting /\ ~GroupsDone(C, end))
        BY <3>6, <4>3, <4>4
      <4>6. (c.waiting => b.waiting) /\ (b.waiting => c.waiting \/ GroupsDone(C, end))
        BY <4>3, <4>4, <4>5
      <4>7. GoesOn(b, C, c)
        BY <3>4, <4>5, <4>6 DEF GoesOn
      <4>8. QED BY <1>2, <2>1, <3>5, <4>1, <4>2, <4>7, KeyUnset
    <3>8. copies'[w] = C /\ depbar'[w] = c /\ group'[w] = g
      BY <3>3, <3>4, <3>6 DEF b, g
    <3>9. QED BY <1>1, <1>3, <3>7, <3>8 DEF CopiesOK, P, p, s
  <2>4. QED BY <2>2, <2>3 DEF P
<1>7. QED BY <1>5, <1>6

\* A step of the ldst_unit for warp w.
LEMMA OtherCopies ==
    ASSUME CopyInv, NEW w \in Warp, CopiesOK(w)',
           UNCHANGED <<config, trace, ibuffer, completed>>,
           \A v \in Warp : v # w =>
              /\ InMemOut(v)' = InMemOut(v)
              /\ Dispatched(v)' = Dispatched(v) /\ AccessesLeft(v)' = AccessesLeft(v)
              /\ flight'[v] = flight[v] /\ pendingCopies'[v] = pendingCopies[v],
           DOMAIN pendingCopies' = Warp,
           UNCHANGED depbarVars \/ \E k : Unset(w, k)
    PROVE  CopyInv'
<1>1. /\ DOMAIN group' = Warp /\ DOMAIN copies' = Warp /\ DOMAIN depbar' = Warp
      /\ \A v \in Warp : v # w =>
            group'[v] = group[v] /\ copies'[v] = copies[v] /\ depbar'[v] = depbar[v]
  <2>1. CASE UNCHANGED depbarVars
    BY <2>1 DEF depbarVars, CopyInv
  <2>2. CASE \E k : Unset(w, k)
    BY <2>2, UnsetWarp DEF CopyInv
  <2>3. QED BY <2>1, <2>2
<1>2. ASSUME NEW v \in Warp, v # w PROVE CopiesOK(v)'
  <2>1. CopiesAside(v)
    BY <1>1, <1>2 DEF CopiesAside
  <2>2. QED BY <2>1, CopiesFrame DEF CopyInv
<1>3. QED BY <1>1, <1>2 DEF CopyInv

LEMMA ToDispatchCopies ==
    ASSUME Inv, CopyInv, OwnKeys, NEW w \in Warp, NEW i \in Pos(w), ToDispatch(w, i)
    PROVE  CopyInv'
<1> DEFINE p == program[w]
           m == flight[w][i] + p[i].acc
<1>1. /\ TypeOK /\ WarpOK(w) /\ CopiesOK(w)
      /\ dispatch = <<>> /\ <<w, i>> \in memOut /\ memOut' = memOut \ {<<w, i>>}
      /\ dispatch' = <<w, i, p[i].acc>>
      /\ pendingCopies' = [pendingCopies EXCEPT ![w][p[i].key] =
                              IF p[i].op = "ldgsts" THEN @ + p[i].acc ELSE @]
      /\ UNCHANGED <<config, trace, ibuffer, completed, depbarVars, flight>>
  BY DEF Inv, CopyInv, ToDispatch, frontVars, warpVars
<1>2. program' = program /\ \A v : Pos(v)' = Pos(v)
  BY <1>1, SamePrograms
<1>3. /\ IsTrace(p) /\ Pos(w) = Positions(p) /\ i \in Positions(p)
      /\ flight[w] \in [Pos(w) -> Nat] /\ p[i].acc \in Nat /\ p[i].key \in Key
  BY <1>1, OwedBy, CopyFacts
<1>4. /\ Dispatched(w) = {} /\ Dispatched(w)' = {i} /\ AccessesLeft(w)' = p[i].acc
      /\ InMemOut(w)' \subseteq InMemOut(w) /\ i \in InMemOut(w)
  BY <1>1, <1>2 DEF Dispatched, AccessesLeft, InMemOut
<1>5. /\ \A j \in Pos(w) : OwesOf(w)[j] = flight[w][j]
      /\ m \in Nat /\ OwesOf(w)'[i] = m
      /\ \A j \in Pos(w) : j # i => OwesOf(w)'[j] = OwesOf(w)[j]
  <2>1. \A j \in Pos(w) : OwesOf(w)[j] = flight[w][j]
    BY <1>3, <1>4 DEF OwesOf, Owed
  <2>2. \A j \in Pos(w) : OwesOf(w)'[j] = flight[w][j] + (IF j \in {i} THEN p[i].acc ELSE 0)
    BY <1>1, <1>2, <1>4 DEF OwesOf, Owed
  <2> HIDE DEF p
  <2>3. QED BY <1>3, <2>1, <2>2
<1>6. /\ DOMAIN pendingCopies' = Warp
      /\ \A v \in Warp : v # w => pendingCopies'[v] = pendingCopies[v]
      /\ pendingCopies'[w] = [pendingCopies[w] EXCEPT ![p[i].key] =
                                 IF p[i].op = "ldgsts" THEN @ + p[i].acc ELSE @]
  <2> HIDE DEF p
  <2>1. QED BY <1>1 DEF CopyInv
<1>7. Counted(p, pendingCopies[w], OwesOf(w))
  BY <1>1 DEF CopiesOK
<1>8. i \in OpenCopies(w)' => i \in OpenCopies(w)
  <2> SUFFICES ASSUME i \in OpenCopies(w)' PROVE i \in OpenCopies(w)
    OBVIOUS
  <2>1. Awaited(p, i) /\ (m > 0 \/ p[i].acc > 0)
    BY <1>2, <1>5 DEF OpenCopies
  <2>2. OwesOf(w)[i] > 0 \/ p[i].acc > 0
    BY <1>3, <1>5, <2>1
  <2>3. QED BY <1>4, <2>1, <2>2 DEF OpenCopies
<1>9. InTime(w)'
  <2>1. Started(w)' = Started(w)
    BY <1>1 DEF Started
  <2>2. QED BY <1>1, <1>2, <1>4, <2>1 DEF InTime, CopiesOK
<1>10. \A v \in Warp : v # w =>
          /\ InMemOut(v)' = InMemOut(v)
          /\ Dispatched(v)' = Dispatched(v) /\ AccessesLeft(v)' = AccessesLeft(v)
  BY <1>1, <1>2 DEF Dispatched, AccessesLeft, InMemOut
<1> HIDE DEF p, m
<1>11. pendingCopies'[w] = IF p[i].op = "ldgsts" THEN [pendingCopies[w] EXCEPT ![p[i].key] = m]
                           ELSE pendingCopies[w]
  <2>1. CASE p[i].op = "ldgsts"
    <3>1. pendingCopies[w][p[i].key] = flight[w][i]
      BY <1>3, <1>5, <1>7, <2>1 DEF Counted
    <3>2. QED BY <1>6, <2>1, <3>1 DEF m
  <2>2. CASE p[i].op # "ldgsts"
    <3>1. pendingCopies[w] \in [Key -> Int]
      BY <1>7 DEF Counted
    <3>2. QED BY <1>6, <2>2, <3>1
  <2>3. QED BY <2>1, <2>2
<1>12. CopiesOK(w)'
  BY <1>1, <1>4, <1>5, <1>8, <1>9, <1>11, MemoryStep DEF p
<1>13. QED BY <1>1, <1>6, <1>10, <1>12, OtherCopies

LEMMA AccessCopies ==
    ASSUME Inv, CopyInv, OwnKeys, Access
    PROVE  CopyInv'
<1>1. dispatch # <<>> /\ dispatch[3] > 0
  BY DEF Access
<1>2. PICK w \in Warp : \E i \in Pos(w) : AtDispatch(w, i)
  BY <1>1, InDispatch
<1>3. PICK i \in Pos(w) : AtDispatch(w, i)
  BY <1>2
<1> DEFINE p == program[w]
           d == dispatch[3]
           F == flight[w]
           G == [F EXCEPT ![i] = @ + 1]
           m == OwesOf(w)[i]
<1>4. /\ TypeOK /\ WarpOK(w) /\ CopiesOK(w)
      /\ dispatch' = <<w, i, d - 1>>
      /\ flight' = [flight EXCEPT ![w] = G]
      /\ UNCHANGED <<config, trace, ibuffer, completed, depbarVars, memOut, pendingCopies>>
  BY <1>3 DEF Inv, CopyInv, Access, AtDispatch, frontVars
<1>5. program' = program /\ \A v : Pos(v)' = Pos(v)
  BY <1>4, SamePrograms
<1>6. /\ IsTrace(p) /\ Pos(w) = Positions(p) /\ i \in Positions(p) /\ F \in [Pos(w) -> Nat]
      /\ OwesOf(w) \in [Pos(w) -> Nat] /\ d \in Nat /\ d > 0
      /\ Dispatched(w) = {i} /\ AccessesLeft(w) = d
  BY <1>1, <1>3, <1>4, OwedBy DEF AtDispatch
<1>7. /\ Dispatched(w)' = {i} /\ AccessesLeft(w)' = d - 1
      /\ \A v \in Warp : /\ InMemOut(v)' = InMemOut(v)
                         /\ v # w => Dispatched(v)' = Dispatched(v) /\ AccessesLeft(v)' = AccessesLeft(v)
  BY <1>3, <1>4, <1>5 DEF Dispatched, AccessesLeft, InMemOut, AtDispatch
<1>8. flight'[w] = G /\ \A v \in Warp : v # w => flight'[v] = flight[v]
  <2> HIDE DEF G
  <2>1. QED BY <1>4 DEF TypeOK
<1>9. \A j \in Pos(w) : OwesOf(w)'[j] = OwesOf(w)[j]
  <2>1. \A j \in Pos(w) : OwesOf(w)[j] = F[j] + (IF j = i THEN d ELSE 0)
    BY <1>6 DEF OwesOf, Owed
  <2>2. \A j \in Pos(w) : OwesOf(w)'[j] = G[j] + (IF j = i THEN d - 1 ELSE 0)
    BY <1>5, <1>7, <1>8 DEF OwesOf, Owed
  <2>3. G[i] = F[i] + 1 /\ \A j \in Pos(w) : j # i => G[j] = F[j]
    BY <1>6
  <2> HIDE DEF d, F, G
  <2>4. QED BY <1>6, <2>1, <2>2, <2>3
<1>10. i \in OpenCopies(w)' => i \in OpenCopies(w)
  BY <1>5, <1>7, <1>9 DEF OpenCopies
<1>11. InTime(w)'
  <2>1. Started(w)' = Started(w)
    BY <1>4 DEF Started
  <2>2. i < Started(w) /\ i \notin InMemOut(w)
    <3>1. i \in 1 .. Started(w) - 1 /\ Started(w) \in Nat /\ i \notin InMemOut(w)
      BY <1>3 DEF AtDispatch, Places
    <3>2. QED BY <3>1
  <2>3. w \notin completed
    BY <1>3 DEF AtDispatch, WarpOK, CompletedOK
  <2>4. \A j \in Pos(w) : j # i => G[j] = F[j]
    BY <1>6
  <2> HIDE DEF p, F, G
  <2>5. ASSUME NEW j \in Pos(w), Awaited(p, j), G[j] > 0
        PROVE  j < Started(w) /\ j \notin InMemOut(w) /\ w \notin completed
    <3>1. CASE j = i
      BY <2>2, <2>3, <3>1
    <3>2. CASE j # i
      BY <1>4, <2>4, <2>5, <3>2 DEF CopiesOK, InTime, F, p
    <3>3. QED BY <3>1, <3>2
  <2>6. QED BY <1>4, <1>5, <1>7, <1>8, <2>1, <2>5 DEF InTime, p
<1> HIDE DEF p, d, F, G
<1>12. pendingCopies'[w] = IF p[i].op = "ldgsts" THEN [pendingCopies[w] EXCEPT ![p[i].key] = m]
                           ELSE pendingCopies[w]
  <2>1. Counted(p, pendingCopies[w], OwesOf(w))
    BY <1>4 DEF CopiesOK, p
  <2>2. p[i].op = "ldgsts" => pendingCopies[w][p[i].key] = m
    BY <1>6, <2>1 DEF Counted
  <2>3. QED BY <1>4, <2>1, <2>2 DEF Counted
<1>13. m \in Nat
  BY <1>6
<1>14. CopiesOK(w)'
  BY <1>4, <1>7, <1>9, <1>10, <1>11, <1>12, <1>13, MemoryStep DEF p
<1>15. QED BY <1>4, <1>7, <1>8, <1>14, OtherCopies DEF CopyInv

\* An access of a copy is answered.
LEMMA AnswerToCopy ==
    ASSUME CopyInv, NEW w \in Warp, NEW i \in Pos(w),
           IF program[w][i].op = "ldgsts" THEN CopyAnswered(w, program[w][i])
           ELSE UNCHANGED <<depbarVars, pendingCopies>>
    PROVE  /\ DOMAIN pendingCopies' = Warp
           /\ \A v \in Warp : v # w => pendingCopies'[v] = pendingCopies[v]
           /\ OwesOf(w)[i] \in Int => pendingCopies'[w] =
                 (IF program[w][i].op = "ldgsts"
                  THEN [pendingCopies[w] EXCEPT ![program[w][i].key] = OwesOf(w)[i] - 1]
                  ELSE pendingCopies[w])
           /\ \/ UNCHANGED depbarVars
              \/ /\ program[w][i].op = "ldgsts" /\ OwesOf(w)[i] = 1
                 /\ Unset(w, program[w][i].key)
<1> DEFINE p == program[w]
<1>1. DOMAIN pendingCopies = Warp /\ Counted(p, pendingCopies[w], OwesOf(w))
  BY DEF CopyInv, CopiesOK
<1>2. CASE p[i].op = "ldgsts"
  <2>1. pendingCopies[w][p[i].key] = OwesOf(w)[i]
    BY <1>1, <1>2 DEF Counted, Pos, Positions
  <2>2. pendingCopies' = [pendingCopies EXCEPT ![w][p[i].key] = @ - 1]
    BY <1>2 DEF CopyAnswered
  <2>3. UNCHANGED depbarVars \/ (OwesOf(w)[i] = 1 /\ Unset(w, p[i].key))
    BY <1>2, <2>1 DEF CopyAnswered
  <2> HIDE DEF p
  <2>4. DOMAIN pendingCopies' = Warp /\ \A v \in Warp : v # w => pendingCopies'[v] = pendingCopies[v]
    BY <1>1, <2>2
  <2>5. pendingCopies'[w] = [pendingCopies[w] EXCEPT ![p[i].key] = OwesOf(w)[i] - 1]
    BY <1>1, <2>1, <2>2
  <2>6. QED BY <1>2, <2>3, <2>4, <2>5 DEF p
<1>3. CASE p[i].op # "ldgsts"
  BY <1>1, <1>3
<1>4. QED BY <1>2, <1>3

LEMMA AccessHitsCopies ==
    ASSUME Inv, CopyInv, OwnKeys, AccessHits
    PROVE  CopyInv'
<1>1. dispatch # <<>> /\ dispatch[3] > 0
  BY DEF AccessHits
<1>2. PICK w \in Warp : \E i \in Pos(w) : AtDispatch(w, i)
  BY <1>1, InDispatch
<1>3. PICK i \in Pos(w) : AtDispatch(w, i)
  BY <1>2
<1> DEFINE p == program[w]
           d == dispatch[3]
           F == flight[w]
           m == OwesOf(w)[i] - 1
<1>4. /\ TypeOK /\ WarpOK(w) /\ CopiesOK(w)
      /\ dispatch' = <<w, i, d - 1>>
      /\ IF p[i].op = "ldgsts" THEN CopyAnswered(w, p[i]) ELSE UNCHANGED <<depbarVars, pendingCopies>>
      /\ UNCHANGED <<config, trace, ibuffer, completed, memOut, flight>>
  BY <1>3 DEF Inv, CopyInv, AccessHits, AtDispatch, frontVars, warpVars
<1>5. program' = program /\ \A v : Pos(v)' = Pos(v)
  BY <1>4, SamePrograms
<1>6. /\ F \in [Pos(w) -> Nat] /\ OwesOf(w) \in [Pos(w) -> Nat] /\ d \in Nat /\ d > 0
      /\ Dispatched(w) = {i} /\ AccessesLeft(w) = d
  BY <1>1, <1>3, <1>4, OwedBy DEF AtDispatch
<1>7. /\ Dispatched(w)' = {i} /\ AccessesLeft(w)' = d - 1
      /\ \A v \in Warp : /\ InMemOut(v)' = InMemOut(v)
                         /\ v # w => Dispatched(v)' = Dispatched(v) /\ AccessesLeft(v)' = AccessesLeft(v)
  BY <1>3, <1>4, <1>5 DEF Dispatched, AccessesLeft, InMemOut, AtDispatch
<1>8. i \notin InMemOut(w)
  BY <1>3 DEF AtDispatch, Places
<1>9. /\ m \in Nat /\ OwesOf(w)'[i] = m /\ OwesOf(w)[i] \in Int
      /\ \A j \in Pos(w) : j # i => OwesOf(w)'[j] = OwesOf(w)[j]
  <2>1. \A j \in Pos(w) : OwesOf(w)[j] = F[j] + (IF j = i THEN d ELSE 0)
    BY <1>6 DEF OwesOf, Owed
  <2>2. \A j \in Pos(w) : OwesOf(w)'[j] = F[j] + (IF j = i THEN d - 1 ELSE 0)
    BY <1>4, <1>5, <1>7 DEF OwesOf, Owed
  <2> HIDE DEF d, F
  <2>3. QED BY <1>6, <2>1, <2>2
<1>10. i \in OpenCopies(w)' => i \in OpenCopies(w) /\ m > 0
  <2>1. m > 0 => OwesOf(w)[i] > 0
    BY <1>9
  <2>2. QED BY <1>5, <1>7, <1>8, <1>9, <2>1 DEF OpenCopies
<1>11. InTime(w)'
  <2>1. Started(w)' = Started(w)
    BY <1>4 DEF Started
  <2>2. QED BY <1>4, <1>5, <1>7, <2>1 DEF InTime, CopiesOK
<1>12. /\ DOMAIN pendingCopies' = Warp
       /\ \A v \in Warp : v # w => pendingCopies'[v] = pendingCopies[v]
       /\ pendingCopies'[w] = IF p[i].op = "ldgsts" THEN [pendingCopies[w] EXCEPT ![p[i].key] = m]
                              ELSE pendingCopies[w]
       /\ \/ UNCHANGED depbarVars
          \/ p[i].op = "ldgsts" /\ OwesOf(w)[i] = 1 /\ Unset(w, p[i].key)
  BY <1>4, <1>9, AnswerToCopy
<1>13. \/ UNCHANGED depbarVars
       \/ p[i].op = "ldgsts" /\ i \notin OpenCopies(w)' /\ Unset(w, p[i].key)
  BY <1>10, <1>12
<1> HIDE DEF m, d, F
<1>14. CopiesOK(w)'
  BY <1>4, <1>7, <1>9, <1>10, <1>11, <1>12, <1>13, MemoryStep
<1>15. QED BY <1>4, <1>7, <1>12, <1>14, OtherCopies

LEMMA LeaveCopies ==
    ASSUME Inv, CopyInv, OwnKeys, Leave
    PROVE  CopyInv'
<1>1. dispatch # <<>> /\ dispatch[3] = 0
  BY DEF Leave, Leaving
<1>2. PICK w \in Warp : \E i \in Pos(w) : AtDispatch(w, i)
  BY <1>1, InDispatch
<1>3. PICK i \in Pos(w) : AtDispatch(w, i)
  BY <1>2
<1> DEFINE p == program[w]
           m == OwesOf(w)[i]
<1>4. /\ TypeOK /\ WarpOK(w) /\ CopiesOK(w)
      /\ dispatch' = <<>>
      /\ \/ UNCHANGED depbarVars
         \/ p[i].op = "ldgsts" /\ pendingCopies[w][p[i].key] = 0 /\ Unset(w, p[i].key)
      /\ UNCHANGED <<config, trace, ibuffer, completed, memOut, pendingCopies, flight>>
  BY <1>3 DEF Inv, CopyInv, Leave, AtDispatch, frontVars
<1>5. program' = program /\ \A v : Pos(v)' = Pos(v)
  BY <1>4, SamePrograms
<1>6. /\ Pos(w) = Positions(p) /\ flight[w] \in [Pos(w) -> Nat] /\ OwesOf(w) \in [Pos(w) -> Nat]
      /\ Dispatched(w) = {i} /\ AccessesLeft(w) = 0
  BY <1>1, <1>3, <1>4, OwedBy DEF AtDispatch
<1>7. /\ Dispatched(w)' = {} /\ AccessesLeft(w)' = 0
      /\ \A v \in Warp : /\ InMemOut(v)' = InMemOut(v)
                         /\ v # w => Dispatched(v)' = Dispatched(v) /\ AccessesLeft(v)' = AccessesLeft(v)
  BY <1>3, <1>4, <1>5 DEF Dispatched, AccessesLeft, InMemOut, AtDispatch
<1>8. i \notin InMemOut(w)
  BY <1>3 DEF AtDispatch, Places
<1>9. m \in Nat /\ \A j \in Pos(w) : OwesOf(w)'[j] = OwesOf(w)[j]
  <2>1. \A j \in Pos(w) : OwesOf(w)[j] = flight[w][j]
    BY <1>6 DEF OwesOf, Owed
  <2>2. \A j \in Pos(w) : OwesOf(w)'[j] = flight[w][j]
    BY <1>4, <1>5, <1>6, <1>7 DEF OwesOf, Owed
  <2>3. QED BY <1>6, <2>1, <2>2
<1>10. i \in OpenCopies(w)' => i \in OpenCopies(w) /\ m > 0
  BY <1>5, <1>7, <1>8, <1>9 DEF OpenCopies
<1>11. InTime(w)'
  <2>1. Started(w)' = Started(w)
    BY <1>4 DEF Started
  <2>2. QED BY <1>4, <1>5, <1>7, <2>1 DEF InTime, CopiesOK
<1>12. Counted(p, pendingCopies[w], OwesOf(w))
  BY <1>4 DEF CopiesOK
<1>13. p[i].op = "ldgsts" => pendingCopies[w][p[i].key] = m
  BY <1>6, <1>12 DEF Counted
<1>14. \/ UNCHANGED depbarVars
       \/ p[i].op = "ldgsts" /\ i \notin OpenCopies(w)' /\ Unset(w, p[i].key)
  BY <1>4, <1>10, <1>13
<1> HIDE DEF m
<1>15. pendingCopies'[w] = IF p[i].op = "ldgsts" THEN [pendingCopies[w] EXCEPT ![p[i].key] = m]
                           ELSE pendingCopies[w]
  <2> HIDE DEF p
  <2>1. QED BY <1>4, <1>12, <1>13 DEF Counted
<1>16. CopiesOK(w)'
  BY <1>4, <1>7, <1>9, <1>10, <1>11, <1>14, <1>15, MemoryStep DEF m
<1>17. QED BY <1>4, <1>7, <1>16, OtherCopies DEF CopyInv

LEMMA AnswerCopies ==
    ASSUME Inv, CopyInv, OwnKeys, NEW w \in Warp, NEW i \in Pos(w), Answer(w, i)
    PROVE  CopyInv'
<1> DEFINE p == program[w]
           F == flight[w]
           G == [F EXCEPT ![i] = @ - 1]
           m == OwesOf(w)[i] - 1
<1>1. /\ TypeOK /\ WarpOK(w) /\ CopiesOK(w) /\ F[i] > 0
      /\ flight' = [flight EXCEPT ![w] = G]
      /\ IF p[i].op = "ldgsts" THEN CopyAnswered(w, p[i]) ELSE UNCHANGED <<depbarVars, pendingCopies>>
      /\ UNCHANGED <<config, trace, ibuffer, completed, memOut, dispatch>>
  BY DEF Inv, CopyInv, Answer, frontVars
<1>2. program' = program /\ \A v : Pos(v)' = Pos(v)
  BY <1>1, SamePrograms
<1>3. /\ F \in [Pos(w) -> Nat] /\ OwesOf(w) \in [Pos(w) -> Nat] /\ AccessesLeft(w) \in Nat
      /\ \A j \in Pos(w) : OwesOf(w)[j] = F[j] + (IF j \in Dispatched(w) THEN AccessesLeft(w) ELSE 0)
  BY <1>1, OwedBy
<1>4. \A v \in Warp : /\ InMemOut(v)' = InMemOut(v) /\ Dispatched(v)' = Dispatched(v)
                      /\ AccessesLeft(v)' = AccessesLeft(v)
  BY <1>1, <1>2 DEF Dispatched, AccessesLeft, InMemOut
<1>5. flight'[w] = G /\ \A v \in Warp : v # w => flight'[v] = flight[v]
  <2> HIDE DEF G
  <2>1. QED BY <1>1 DEF TypeOK
<1>6. G[i] = F[i] - 1 /\ \A j \in Pos(w) : j # i => G[j] = F[j]
  BY <1>3
<1>7. /\ m \in Nat /\ OwesOf(w)'[i] = m /\ OwesOf(w)[i] \in Int
      /\ \A j \in Pos(w) : j # i => OwesOf(w)'[j] = OwesOf(w)[j]
  <2>1. \A j \in Pos(w) : OwesOf(w)'[j] = G[j] + (IF j \in Dispatched(w) THEN AccessesLeft(w) ELSE 0)
    BY <1>2, <1>4, <1>5 DEF OwesOf, Owed
  <2> HIDE DEF F, G
  <2>2. QED BY <1>1, <1>3, <1>6, <2>1
<1> HIDE DEF G
<1>8. i \in OpenCopies(w)' => i \in OpenCopies(w) /\ m > 0
  <2> SUFFICES ASSUME i \in OpenCopies(w)' PROVE i \in OpenCopies(w) /\ m > 0
    OBVIOUS
  <2>1. Awaited(p, i) /\ (m > 0 \/ i \in InMemOut(w))
    BY <1>2, <1>4, <1>7 DEF OpenCopies
  <2>2. i \notin InMemOut(w)
    BY <1>1, <2>1 DEF CopiesOK, InTime
  <2>3. OwesOf(w)[i] > 0
    BY <1>7
  <2>4. QED BY <2>1, <2>2, <2>3 DEF OpenCopies
<1>9. InTime(w)'
  <2>1. Started(w)' = Started(w)
    BY <1>1 DEF Started
  <2>2. \A j \in Pos(w) : G[j] > 0 => F[j] > 0
    BY <1>1, <1>6
  <2>3. QED BY <1>1, <1>2, <1>4, <1>5, <2>1, <2>2 DEF InTime, CopiesOK
<1>10. /\ DOMAIN pendingCopies' = Warp
       /\ \A v \in Warp : v # w => pendingCopies'[v] = pendingCopies[v]
       /\ pendingCopies'[w] = IF p[i].op = "ldgsts" THEN [pendingCopies[w] EXCEPT ![p[i].key] = m]
                              ELSE pendingCopies[w]
       /\ \/ UNCHANGED depbarVars
          \/ p[i].op = "ldgsts" /\ OwesOf(w)[i] = 1 /\ Unset(w, p[i].key)
  BY <1>1, <1>7, AnswerToCopy
<1>11. \/ UNCHANGED depbarVars
       \/ p[i].op = "ldgsts" /\ i \notin OpenCopies(w)' /\ Unset(w, p[i].key)
  BY <1>8, <1>10
<1> HIDE DEF m, F
<1>12. CopiesOK(w)'
  BY <1>1, <1>4, <1>7, <1>8, <1>9, <1>10, <1>11, MemoryStep
<1>13. QED BY <1>1, <1>4, <1>5, <1>10, <1>12, OtherCopies

-----------------------------------------------------------------------------
(* The theorems *)

\* The invariant holds in every run of the core, whatever its warps, CTAs,
\* registers and traces and in whatever order its stages serve them.
THEOREM Invariance == Spec => []Inv
<1>1. Init => Inv
  BY InitInv
<1>2. Inv /\ [Next]_vars => Inv'
  <2> SUFFICES ASSUME Inv, [Next]_vars PROVE Inv'
    OBVIOUS
  <2>1. CASE \E c \in Cta : IssueCta(c)
    BY <2>1, IssueCtaInv
  <2>2. CASE Decode
    BY <2>2, DecodeInv
  <2>3. CASE Dispatch
    BY <2>3, AccessInv, AccessHitsInv, LeaveInv DEF Dispatch
  <2>4. ASSUME NEW w \in Warp, Fetch(w) \/ InstructionArrives(w) \/ Work(w) PROVE Inv'
    BY <2>4, FetchInv, InstructionArrivesInv, ExitInv, IssueInv, WritebackInv, ToDispatchInv,
       AnswerInv DEF Work
  <2>5. CASE UNCHANGED vars
    <3>1. UNCHANGED <<config, ctas, status, frontVars, warpVars, reserved, barrierVars, depbarVars,
                      exec, ldstVars>>
      BY <2>5 DEF vars
    <3>2. program' = program /\ \A v : Pos(v)' = Pos(v)
      BY <3>1, SamePrograms
    <3>3. TypeOK'
      BY <3>1, <3>2 DEF Inv, TypeOK, frontVars, warpVars, barrierVars, ldstVars
    <3>4. \A v \in Warp : WarpOK(v)' /\ Started(v)' = Started(v)
      <4> TAKE v \in Warp
      <4>1. Untouched(v)
        BY <3>1, <3>2 DEF Untouched, Aside, frontVars, warpVars, ldstVars, Dispatched, AccessesLeft
      <4>2. QED BY <4>1, WarpFrame DEF Inv
    <3>5. UNCHANGED <<config, status, completed, doneExit, active, atBarrier, arrived>>
      BY <3>1 DEF warpVars, barrierVars
    <3>6. QED BY <3>3, <3>4, <3>5, CoreFrame
  <2>6. QED BY <2>1, <2>2, <2>3, <2>4, <2>5 DEF Next
<1>3. QED BY <1>1, <1>2, PTL DEF Spec

\* A register is reserved exactly while an instruction that writes it is on its
\* way, no two such instructions write the same register, and the counters of a
\* warp are what they count: Scoreboard::reserveRegister never aborts.
THEOREM PipelineCorrect == Spec => []PipelineExact
<1>1. Inv => PipelineExact
  <2> SUFFICES ASSUME Inv, NEW w \in Warp
               PROVE  /\ reserved[w] = UNION {program[w][i].dst : i \in Outstanding(w)}
                      /\ \A i, j \in Outstanding(w) : i # j => program[w][i].dst \cap program[w][j].dst = {}
                      /\ inPipe[w] = Len(ibuffer[w]) + Cardinality(InPipeline(w))
                      /\ stores[w] = Cardinality(Unacknowledged(w))
    BY DEF PipelineExact
  <2>1. TypeOK /\ WarpOK(w)
    BY DEF Inv
  <2>2. Outstanding(w) = Busy(program[w], Executing(w), InMemOut(w), Dispatched(w), flight[w])
    BY <2>1, Abbreviations
  <2>3. /\ reserved[w] = UNION {program[w][i].dst : i \in Outstanding(w)}
        /\ \A i, j \in Outstanding(w) : i # j => program[w][i].dst \cap program[w][j].dst = {}
    BY <2>1, <2>2 DEF WarpOK, RegistersOK, Registers
  <2>4. QED BY <2>1, <2>3 DEF WarpOK, CountersOK
<1>2. QED BY <1>1, Invariance, PTL

\* No warp comes past a barrier that another warp of its CTA, not yet complete,
\* has not reached.
THEOREM BarrierOrderCorrect == Spec => []BarrierOrder
<1>1. Inv => BarrierOrder
  <2> SUFFICES ASSUME Inv, NEW c \in Cta, NEW w \in warpsOf[c], NEW v \in warpsOf[c],
                      w \notin atBarrier, v \notin completed
               PROVE  Barriers(w) <= Barriers(v)
    BY DEF BarrierOrder
  <2>1. w \in Warp /\ v \in Warp /\ w \notin arrived
    BY Constants DEF Inv, BarrierSetOK
  <2>2. Barriers(w) \in Nat /\ Barriers(v) \in Nat
    BY <2>1, Abbreviations, WarpNumbers, BarsNext DEF Inv
  <2>3. \/ Barriers(w) <= Barriers(v) \/ Barriers(w) = Barriers(v)
        \/ Barriers(v) = Barriers(w) + 1
    BY <2>1 DEF Inv, BarriersOK
  <2>4. QED BY <2>2, <2>3
<1>2. QED BY <1>1, Invariance, PTL

\* A warp exits outside the barrier and after all it has issued is done, save
\* copies nobody waits for.
THEOREM ExitsDrainedCorrect == Spec => []ExitsDrained
<1>1. Inv => ExitsDrained
  <2> SUFFICES ASSUME Inv, NEW w \in completed
               PROVE  /\ w \notin active \cup atBarrier \cup arrived
                      /\ ibuffer[w] = <<>>
                      /\ \A i \in Outstanding(w) : program[w][i].op = "ldgsts"
    BY DEF ExitsDrained
  <2>1. w \in Warp /\ WarpOK(w)
    BY DEF Inv, TypeOK
  <2>2. w \notin active \cup atBarrier \cup arrived
    BY DEF Inv, BarrierSetOK
  <2>3. QED BY <2>1, <2>2 DEF WarpOK, CompletedOK, Outstanding
<1>2. QED BY <1>1, Invariance, PTL

\* A warp that has passed a DEPBAR n has all its copies but those of the last n
\* groups, if no two copies of a trace share a key: the counters of the
\* ldst_unit and the buffers of unset_depbar know a copy by it.
THEOREM CopiesCorrect == ASSUME OwnKeys PROVE Spec => []CopiesAwaited
<1>1. Init => CopyInv
  BY InitCopies
<1>2. Inv /\ CopyInv /\ [Next]_vars => CopyInv'
  <2> SUFFICES ASSUME Inv, CopyInv, [Next]_vars PROVE CopyInv'
    OBVIOUS
  <2>1. CASE \E c \in Cta : IssueCta(c)
    BY <2>1, IssueCtaCopies
  <2>2. CASE Decode
    BY <2>2, DecodeCopies
  <2>3. CASE Dispatch
    BY <2>3, AccessCopies, AccessHitsCopies, LeaveCopies DEF Dispatch
  <2>4. ASSUME NEW w \in Warp, Fetch(w) \/ InstructionArrives(w) \/ Work(w) PROVE CopyInv'
    <3>1. CASE Fetch(w) \/ InstructionArrives(w)
      BY <3>1, QuietFrame DEF Fetch, InstructionArrives, warpVars, ldstVars
    <3>2. CASE Exit(w)
      BY <3>2, QuietFrame DEF Exit, frontVars, ldstVars
    <3>3. CASE \E i \in Pos(w) : Writeback(w, i)
      BY <3>3, QuietFrame DEF Writeback, frontVars, ldstVars
    <3>4. CASE \E i \in Pos(w) : ToDispatch(w, i) \/ Answer(w, i)
      BY <3>4, ToDispatchCopies, AnswerCopies
    <3>5. CASE Issue(w)
      BY <3>5, IssueCopies
    <3>6. QED BY <2>4, <3>1, <3>2, <3>3, <3>4, <3>5 DEF Work
  <2>5. CASE UNCHANGED vars
    BY <2>5, QuietFrame DEF vars, frontVars, warpVars, ldstVars
  <2>6. QED BY <2>1, <2>2, <2>3, <2>4, <2>5 DEF Next
<1>3. Inv /\ CopyInv => CopiesAwaited
  <2> SUFFICES ASSUME Inv, CopyInv, NEW w \in Warp \ completed, ~depbar[w].waiting,
                      NEW d \in IssuedPos(w), program[w][d].op = "depbar",
                      NEW i \in 1 .. d, program[w][i].op = "ldgsts",
                      Closed(program[w], i) < Closed(program[w], d) - program[w][d].n,
                      Unanswered(w, i)
               PROVE  FALSE
    BY DEF CopiesAwaited
  <2> DEFINE p == program[w]
             s == Started(w)
  <2>1. /\ TypeOK /\ WarpOK(w) /\ CopiesOK(w) /\ Pos(w) = Positions(p)
        /\ s \in 1 .. Len(p) + 1 /\ Len(p) \in Nat
    BY OwedBy, Programs DEF Inv, CopyInv
  <2>2. d \in 1 .. s - 1
    <3>1. trace[w] \in Nat /\ Len(ibuffer[w]) \in Nat
      BY <2>1 DEF WarpOK, FrontOK
    <3>2. QED BY <3>1 DEF IssuedPos, Started
  <2>3. d \in Positions(p) /\ i \in Positions(p) /\ AwaitedBy(p, i, d)
    BY <2>1, <2>2 DEF Positions, AwaitedBy
  <2>4. i \notin OpenCopies(w)
    BY <2>1, <2>2, <2>3 DEF CopiesOK, AwaitsOK
  <2>5. Awaited(p, i) /\ i \in Pos(w)
    BY <2>1, <2>3 DEF Awaited
  <2>6. OwesOf(w)[i] = 0 /\ ~(i \in InMemOut(w) /\ p[i].acc > 0)
    <3>1. OwesOf(w)[i] \in Nat
      BY <2>1, <2>5, OwedBy
    <3>2. QED BY <2>4, <2>5, <3>1 DEF OpenCopies
  <2>7. /\ flight[w][i] \in Nat /\ AccessesLeft(w) \in Nat
        /\ OwesOf(w)[i] = flight[w][i] + (IF i \in Dispatched(w) THEN AccessesLeft(w) ELSE 0)
    BY <2>1, <2>5, OwedBy
  <2>8. PICK n \in 1 .. p[i].acc : dispatch = <<w, i, n>>
    <3>1. ~(<<w, i>> \in memOut)
      BY <2>5, <2>6 DEF Unanswered, InMemOut
    <3>2. ~(flight[w][i] > 0)
      BY <2>6, <2>7
    <3>3. QED BY <3>1, <3>2 DEF Unanswered
  <2>9. i \in Dispatched(w) /\ AccessesLeft(w) = n
    BY <2>5, <2>8 DEF Dispatched, AccessesLeft
  <2>10. n > 0
    BY <2>8
  <2>11. QED BY <2>6, <2>7, <2>9, <2>10
<1>4. QED BY <1>1, <1>2, <1>3, Invariance, PTL DEF Spec
=============================================================================
