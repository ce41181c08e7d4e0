------------------------------- MODULE Hbf_proof -------------------------------
(***************************************************************************)
(* Proofs about the HBF controller, for any number of planes, any timing   *)
(* and every size of its buffers.                                          *)
(***************************************************************************)
EXTENDS Hbf, Queues_proof, FiniteSetTheorems

\* The constants, one by one.
LEMMA Constants ==
    /\ TRead \in Nat /\ TProg \in Nat /\ AckLatency \in Nat /\ MaxReads \in Nat /\ RetQ \in Nat
    /\ Subpage \in Nat /\ Subpage > 0 /\ Bandwidth \in Nat /\ Bandwidth > 0
    /\ WriteEntries \in Nat /\ WriteEntries > 0
    /\ kindOf \in [Fetch -> {"read", "write", "wrbk"}] /\ planeOf \in [Fetch -> Plane]
BY HbfAssumption

-----------------------------------------------------------------------------
(* Heaps and times *)

\* The size of a set of places in a sequence.
LEMMA SizeOfPlaces ==
    ASSUME NEW n \in Nat, NEW T \in SUBSET (1 .. n)
    PROVE  Cardinality(T) \in 0 .. n
<1> DEFINE D == 1 .. n
<1> HIDE DEF D
<1>1. IsFiniteSet(D) /\ Cardinality(D) = n /\ T \in SUBSET D
  BY FS_Interval DEF D
<1>2. IsFiniteSet(T) /\ Cardinality(T) <= n
  BY <1>1, FS_Subset
<1>3. Cardinality(T) \in Nat
  BY <1>2, FS_CardinalityType
<1>4. QED BY <1>2, <1>3

\* A place among the elements of a heap.
LEMMA PlaceInHeap ==
    ASSUME NEW n \in Nat, NEW times, DOMAIN times = 1 .. n, NEW x
    PROVE  Earlier(times, x) \in 0 .. n /\ NotLater(times, x) \in 0 .. n
<1>1. /\ {i \in DOMAIN times : times[i] < x} \in SUBSET (1 .. n)
      /\ {i \in DOMAIN times : times[i] <= x} \in SUBSET (1 .. n)
  OBVIOUS
<1>2. QED BY <1>1, SizeOfPlaces DEF Earlier, NotLater

\* What an insertion does to a sequence.
LEMMA Inserted ==
    ASSUME NEW S, NEW s \in Seq(S), NEW x \in S, NEW n \in 0 .. Len(s)
    PROVE  /\ InsertAt(s, n + 1, x) \in Seq(S)
           /\ Len(InsertAt(s, n + 1, x)) = Len(s) + 1
           /\ \A i \in 1 .. n : InsertAt(s, n + 1, x)[i] = s[i]
           /\ InsertAt(s, n + 1, x)[n + 1] = x
           /\ \A i \in n + 1 .. Len(s) : InsertAt(s, n + 1, x)[i + 1] = s[i]
<1> DEFINE a == SubSeq(s, 1, n)
           b == SubSeq(s, n + 1, Len(s))
           h == a \o <<x>>
           t == InsertAt(s, n + 1, x)
<1>0. n \in Nat /\ Len(s) \in Nat /\ n <= Len(s)
  OBVIOUS
<1>1. a \in Seq(S) /\ Len(a) = n /\ \A i \in 1 .. n : a[i] = s[i]
  BY <1>0
<1>2. b \in Seq(S) /\ Len(b) = Len(s) - n /\ \A i \in 1 .. Len(s) - n : b[i] = s[n + i]
  BY <1>0
<1>3. t = h \o b
  <2>1. t = (SubSeq(s, 1, (n + 1) - 1) \o <<x>>) \o b
    BY Zenon DEF InsertAt
  <2>2. (n + 1) - 1 = n
    BY <1>0
  <2>3. QED BY <2>1, <2>2
<1> HIDE DEF a, b, t
<1>4. h \in Seq(S) /\ Len(h) = n + 1 /\ (\A i \in 1 .. n : h[i] = s[i]) /\ h[n + 1] = x
  BY <1>0, <1>1
<1> HIDE DEF h
<1>6. t \in Seq(S) /\ Len(t) = Len(s) + 1
  <2>1. t \in Seq(S) /\ Len(t) = Len(h) + Len(b)
    <3>1. h \in Seq(S) /\ b \in Seq(S)
      BY <1>2, <1>4
    <3>2. h \o b \in Seq(S) /\ Len(h \o b) = Len(h) + Len(b)
      BY <3>1
    <3>3. QED BY <1>3, <3>2
  <2>2. QED BY <1>0, <1>2, <1>4, <2>1
<1>7. \A i \in 1 .. n + 1 : t[i] = h[i]
  BY <1>0, <1>2, <1>3, <1>4
<1>8. \A i \in n + 1 .. Len(s) : t[i + 1] = s[i]
  <2> SUFFICES ASSUME NEW i \in n + 1 .. Len(s) PROVE t[i + 1] = s[i]
    OBVIOUS
  <2>1. i - n \in 1 .. Len(s) - n /\ i \in Int
    BY <1>0
  <2>2. t[i + 1] = b[i - n]
    BY <1>0, <1>2, <1>3, <1>4, <2>1
  <2>3. QED BY <1>0, <1>2, <2>1, <2>2
<1>9. QED BY <1>0, <1>4, <1>6, <1>7, <1>8 DEF t

LEMMA InsertedRange ==
    ASSUME NEW S, NEW s \in Seq(S), NEW x \in S, NEW n \in 0 .. Len(s), NoRepeat(s), x \notin Range(s)
    PROVE  /\ NoRepeat(InsertAt(s, n + 1, x))
           /\ Range(InsertAt(s, n + 1, x)) = Range(s) \cup {x}
<1> DEFINE t == InsertAt(s, n + 1, x)
           m == Len(s)
           \* where an element of t was in s
           from(i) == IF i <= n THEN i ELSE i - 1
           to(i) == IF i <= n THEN i ELSE i + 1
<1>1. /\ m \in Nat /\ n \in 0 .. m /\ DOMAIN s = 1 .. m /\ DOMAIN t = 1 .. m + 1
      /\ \A i \in 1 .. n : t[i] = s[i]
      /\ t[n + 1] = x
      /\ \A i \in n + 1 .. m : t[i + 1] = s[i]
  <2>1. n \in 0 .. Len(s)
    OBVIOUS
  <2>2. t \in Seq(S) /\ Len(t) = m + 1
    BY <2>1, Inserted
  <2>3. \A i \in 1 .. n : t[i] = s[i]
    BY <2>1, Inserted
  <2>4. t[n + 1] = x
    BY <2>1, Inserted
  <2>5. \A i \in n + 1 .. m : t[i + 1] = s[i]
    BY <2>1, Inserted
  <2> HIDE DEF t
  <2>6. m \in Nat /\ n \in 0 .. m /\ DOMAIN s = 1 .. m /\ DOMAIN t = 1 .. Len(t)
    BY <2>2
  <2>7. QED BY <2>6, <2>2, <2>3, <2>4, <2>5
<1>2. /\ \A i, j \in 1 .. m : s[i] = s[j] => i = j
      /\ \A i \in 1 .. m : s[i] # x
  BY <1>1 DEF NoRepeat, Range
<1> HIDE DEF t, m
<1>3. \A i \in 1 .. m + 1 : i # n + 1 => from(i) \in 1 .. m /\ t[i] = s[from(i)]
  <2> SUFFICES ASSUME NEW i \in 1 .. m + 1, i # n + 1
               PROVE  from(i) \in 1 .. m /\ t[i] = s[from(i)]
    OBVIOUS
  <2>1. CASE i <= n
    BY <1>1, <2>1
  <2>2. CASE i > n + 1
    <3>1. i - 1 \in n + 1 .. m /\ (i - 1) + 1 = i
      BY <1>1, <2>2
    <3>2. t[i] = s[i - 1]
      BY <1>1, <3>1
    <3>3. QED BY <1>1, <2>2, <3>1, <3>2
  <2>3. QED BY <1>1, <2>1, <2>2
<1>4. ASSUME NEW i \in 1 .. m PROVE to(i) \in 1 .. m + 1 /\ t[to(i)] = s[i]
  <2>1. CASE i <= n
    <3>1. i \in 1 .. n /\ i \in 1 .. m + 1
      BY <1>1, <2>1
    <3>2. QED BY <1>1, <2>1, <3>1
  <2>2. CASE i > n
    <3>1. i \in n + 1 .. m /\ i + 1 \in 1 .. m + 1 /\ ~(i <= n)
      BY <1>1, <2>2
    <3>2. QED BY <1>1, <3>1
  <2>3. QED BY <1>1, <2>1, <2>2
<1>5. \A i, j \in 1 .. m + 1 : i # n + 1 /\ j # n + 1 /\ from(i) = from(j) => i = j
  BY <1>1
<1>6. n + 1 \in 1 .. m + 1
  BY <1>1
<1> HIDE DEF from, to
<1>7. ASSUME NEW i \in 1 .. m + 1, NEW j \in 1 .. m + 1, t[i] = t[j] PROVE i = j
  <2>1. CASE i = n + 1 \/ j = n + 1
    <3>1. \A k \in 1 .. m + 1 : t[k] = x => k = n + 1
      BY <1>2, <1>3
    <3>2. QED BY <1>1, <1>7, <2>1, <3>1
  <2>2. CASE i # n + 1 /\ j # n + 1
    <3>1. from(i) = from(j)
      BY <1>2, <1>3, <1>7, <2>2
    <3>2. QED BY <1>5, <2>2, <3>1
  <2>3. QED BY <2>1, <2>2
<1>8. NoRepeat(t)
  BY <1>1, <1>7 DEF NoRepeat
<1>9. Range(t) = {t[i] : i \in 1 .. m + 1} /\ Range(s) = {s[i] : i \in 1 .. m}
  BY <1>1 DEF Range
<1>10. ASSUME NEW y \in Range(t) PROVE y \in Range(s) \cup {x}
  <2>1. PICK i \in 1 .. m + 1 : y = t[i]
    BY <1>9
  <2>2. CASE i = n + 1
    BY <1>1, <2>1, <2>2
  <2>3. CASE i # n + 1
    BY <1>3, <1>9, <2>1, <2>3
  <2>4. QED BY <2>2, <2>3
<1>11. ASSUME NEW y \in Range(s) \cup {x} PROVE y \in Range(t)
  <2>1. CASE y = x
    BY <1>1, <1>6, <1>9, <2>1
  <2>2. CASE y \in Range(s)
    BY <1>4, <1>9, <2>2
  <2>3. QED BY <2>1, <2>2
<1>12. Range(t) = Range(s) \cup {x}
  BY <1>10, <1>11
<1>13. QED BY <1>8, <1>12 DEF t

\* The number of cycles in which so many bytes are moved.
LEMMA CyclesOfBytes ==
    ASSUME NEW bytes \in Nat
    PROVE  /\ CyclesOf(bytes) \in Nat
           /\ CyclesOf(bytes) * Bandwidth >= bytes
           /\ CyclesOf(bytes) * Bandwidth < bytes + Bandwidth
BY Constants DEF CyclesOf

LEMMA LinkEndBytes ==
    ASSUME TypeOK, NEW earliest \in Nat
    PROVE  LinkEnd(earliest) \in Nat /\ LinkEnd(earliest) >= linkFree + Subpage
<1> DEFINE moved == earliest * Bandwidth
<1>1. moved \in Nat
  BY Constants
<1> HIDE DEF moved
<1>2. LinkEnd(earliest) = Later(moved, linkFree) + Subpage /\ linkFree \in Nat
  BY DEF LinkEnd, moved, TypeOK
<1>3. QED BY <1>1, <1>2, Constants DEF Later

LEMMA PlaneEndCycles ==
    ASSUME TypeOK, NEW f \in Fetch, NEW latency \in Nat, NEW earliest \in Nat
    PROVE  /\ PlaneEnd(f, latency, earliest) \in Nat
           /\ PlaneEnd(f, latency, earliest) >= planeFree[planeOf[f]] + latency
BY Constants DEF PlaneEnd, Later, TypeOK

-----------------------------------------------------------------------------
(* Types *)

LEMMA EnqueueCompletionType ==
    ASSUME TypeOK, NEW f \in Fetch, NEW t \in Nat, EnqueueCompletion(f, t)
    PROVE  /\ ready' \in [Fetch -> Nat] /\ ready' = [ready EXCEPT ![f] = t]
           /\ \E n \in 0 .. Len(completions) : completions' = InsertAt(completions, n + 1, f)
           /\ completions' \in Seq(Fetch)
<1> DEFINE times == [i \in DOMAIN completions |-> ready[completions[i]]]
<1>1. completions \in Seq(Fetch) /\ DOMAIN times = 1 .. Len(completions) /\ Len(completions) \in Nat
  BY DEF TypeOK
<1>2. PICK n \in Earlier(times, t) .. NotLater(times, t) :
        completions' = InsertAt(completions, n + 1, f)
  BY DEF EnqueueCompletion
<1> HIDE DEF times
<1>3. /\ Earlier(times, t) \in 0 .. Len(completions)
      /\ NotLater(times, t) \in 0 .. Len(completions)
  BY <1>1, PlaceInHeap
<1>4. n \in 0 .. Len(completions) /\ completions' = InsertAt(completions, n + 1, f)
  BY <1>1, <1>2, <1>3
<1>5. completions' \in Seq(Fetch)
  BY <1>1, <1>4, Inserted
<1>6. ready' \in [Fetch -> Nat] /\ ready' = [ready EXCEPT ![f] = t]
  BY DEF EnqueueCompletion, TypeOK
<1>7. QED BY <1>4, <1>5, <1>6

LEMMA EnqueueDrainType ==
    ASSUME TypeOK, NEW f \in Fetch, NEW t \in Nat, EnqueueDrain(f, t)
    PROVE  drains' \in Seq([at : Nat, plane : Plane]) /\ Len(drains') = Len(drains) + 1
<1> DEFINE times == [i \in DOMAIN drains |-> drains[i].at]
           D == [at : Nat, plane : Plane]
           d0 == [at |-> t, plane |-> planeOf[f]]
           n == NotLater(times, t)
<1>1. drains \in Seq(D) /\ d0 \in D /\ DOMAIN times = 1 .. Len(drains) /\ Len(drains) \in Nat
  BY Constants DEF TypeOK
<1>2. drains' = InsertAt(drains, n + 1, d0)
  BY DEF EnqueueDrain
<1> HIDE DEF D, d0, times
<1>3. n \in 0 .. Len(drains)
  BY <1>1, PlaceInHeap
<1> HIDE DEF n
<1>4. drains' \in Seq(D) /\ Len(drains') = Len(drains) + 1
  BY <1>1, <1>2, <1>3, Inserted
<1>5. QED BY <1>4 DEF D

\* What a push reserves.
LEMMA PushReserves ==
    ASSUME TypeOK, NEW f \in Fetch, Push(f)
    PROVE  /\ linkFree' \in Nat /\ linkFree' >= linkFree + Subpage
           /\ planeFree' \in [Plane -> Nat]
           /\ \E t \in Nat :
                 /\ EnqueueCompletion(f, t)
                 /\ IsRead(f) => /\ t * Bandwidth < linkFree' + Bandwidth
                                 /\ t * Bandwidth >= linkFree'
           /\ \A p \in Plane : planeFree'[p] >= planeFree[p]
           /\ IF IsRead(f)
              THEN reads' = reads + 1 /\ UNCHANGED <<drains, occupancy>>
              ELSE /\ occupancy' = occupancy + 1 /\ UNCHANGED reads
                   /\ \E t \in Nat : /\ EnqueueDrain(f, t)
                                     /\ t = planeFree'[planeOf[f]]
                                     /\ t >= planeFree[planeOf[f]] + TProg
<1>1. TRead \in Nat /\ TProg \in Nat /\ AckLatency \in Nat /\ planeFree \in [Plane -> Nat] /\ planeOf[f] \in Plane
  BY Constants DEF TypeOK
<1>2. CASE IsRead(f)
  <2> DEFINE internal == PlaneEnd(f, TRead, 0)
             end == LinkEnd(internal)
  <2>1. internal \in Nat
    BY <1>1, PlaneEndCycles
  <2>2. end \in Nat /\ end >= linkFree + Subpage
    BY <2>1, LinkEndBytes
  <2>3. /\ planeFree' = [planeFree EXCEPT ![planeOf[f]] = internal]
        /\ linkFree' = end
        /\ EnqueueCompletion(f, CyclesOf(end))
        /\ reads' = reads + 1 /\ UNCHANGED <<drains, occupancy>>
    BY <1>2 DEF Push, PushRead
  <2>4. internal >= planeFree[planeOf[f]] + TRead
    BY <1>1, PlaneEndCycles
  <2> HIDE DEF internal, end
  <2>5. /\ planeFree' \in [Plane -> Nat]
        /\ \A p \in Plane : planeFree'[p] >= planeFree[p]
    BY <1>1, <2>1, <2>3, <2>4
  <2>6. \E t \in Nat :
           /\ EnqueueCompletion(f, t)
           /\ IsRead(f) => /\ t * Bandwidth < linkFree' + Bandwidth
                           /\ t * Bandwidth >= linkFree'
    BY <2>2, <2>3, CyclesOfBytes
  <2>7. QED BY <1>2, <2>2, <2>3, <2>5, <2>6
<1>3. CASE ~IsRead(f)
  <2> DEFINE end == LinkEnd(0)
             programmed == PlaneEnd(f, TProg, CyclesOf(end))
  <2>1. end \in Nat /\ end >= linkFree + Subpage /\ CyclesOf(end) \in Nat
    BY LinkEndBytes, CyclesOfBytes
  <2>2. programmed \in Nat /\ programmed >= planeFree[planeOf[f]] + TProg
    BY <1>1, <2>1, PlaneEndCycles
  <2>3. /\ planeFree' = [planeFree EXCEPT ![planeOf[f]] = programmed]
        /\ linkFree' = end
        /\ EnqueueCompletion(f, CyclesOf(end) + AckLatency)
        /\ EnqueueDrain(f, programmed)
        /\ occupancy' = occupancy + 1 /\ UNCHANGED reads
    BY <1>3 DEF Push, PushWrite
  <2> HIDE DEF programmed, end
  <2>4. CyclesOf(end) + AckLatency \in Nat
    BY <1>1, <2>1
  <2>5. /\ planeFree' \in [Plane -> Nat]
        /\ \A p \in Plane : planeFree'[p] >= planeFree[p]
        /\ programmed = planeFree'[planeOf[f]]
    BY <1>1, <2>2, <2>3
  <2>6. QED BY <1>3, <2>1, <2>2, <2>3, <2>4, <2>5
<1>4. QED BY <1>2, <1>3

\* The length of a sequence is known from its domain.
LEMMA LenDomain ==
    ASSUME NEW s, NEW n \in Nat, DOMAIN s = 1 .. n
    PROVE  Len(s) = n
OBVIOUS

\* A function on 1 .. n is a sequence.
LEMMA SequenceOf ==
    ASSUME NEW S, NEW n \in Nat, NEW s, DOMAIN s = 1 .. n, s = [i \in 1 .. n |-> s[i]],
           \A i \in 1 .. n : s[i] \in S
    PROVE  s \in Seq(S)
<1>1. s \in [1 .. n -> S]
  OBVIOUS
<1>2. QED BY <1>1, SeqDef

\* How many writes are programmed.
LEMMA ProgrammedWrites ==
    ASSUME TypeOK PROVE Programmed \in 0 .. Len(drains)
<1>1. {i \in DOMAIN drains : drains[i].at = 0} \in SUBSET (1 .. Len(drains)) /\ Len(drains) \in Nat
  BY DEF TypeOK
<1>2. QED BY <1>1, SizeOfPlaces DEF Programmed

LEMMA DrainsShrink ==
    ASSUME TypeOK
    PROVE  LET d == SubSeq(drains, Programmed + 1, Len(drains)) IN
           d \in Seq([at : Nat, plane : Plane]) /\ Len(d) = Len(drains) - Programmed
<1> DEFINE D == [at : Nat, plane : Plane]
           n == Programmed
<1>1. drains \in Seq(D) /\ n \in Nat /\ n <= Len(drains) /\ Len(drains) \in Nat
  BY ProgrammedWrites DEF TypeOK
<1> HIDE DEF D, n
<1>2. SubSeq(drains, n + 1, Len(drains)) \in Seq(D)
  BY <1>1
<1>3. Len(SubSeq(drains, n + 1, Len(drains))) = Len(drains) - n
  BY <1>1
<1>4. QED BY <1>2, <1>3 DEF D, n

\* Every variable keeps its type; full() keeps the outstanding reads and the
\* write buffer, and returnq_full() the return queue, within their sizes.
THEOREM TypeCorrect == Spec => []TypeOK
<1>1. Init => TypeOK
  BY Constants DEF Init, TypeOK
<1>2. TypeOK /\ [Next]_vars => TypeOK'
  <2> SUFFICES ASSUME TypeOK, [Next]_vars PROVE TypeOK'
    OBVIOUS
  <2>1. ASSUME NEW f \in Fetch, Push(f) PROVE TypeOK'
    <3>1. /\ linkFree' \in Nat /\ planeFree' \in [Plane -> Nat]
          /\ ready' \in [Fetch -> Nat] /\ completions' \in Seq(Fetch)
      BY <2>1, PushReserves, EnqueueCompletionType
    <3>2. /\ drains' \in Seq([at : Nat, plane : Plane])
          /\ reads' \in Nat /\ (MaxReads # 0 => reads' <= MaxReads)
          /\ occupancy' \in 0 .. WriteEntries
      <4>1. CASE IsRead(f)
        <5>1. reads' = reads + 1 /\ UNCHANGED <<drains, occupancy>>
          BY <2>1, <4>1, PushReserves
        <5>2. reads \in Nat /\ (MaxReads # 0 => reads < MaxReads)
          BY <2>1, <4>1, Constants DEF Push, Full, TypeOK
        <5>3. QED BY <5>1, <5>2, Constants DEF TypeOK
      <4>2. CASE ~IsRead(f)
        <5>1. occupancy' = occupancy + 1 /\ reads' = reads /\ \E t \in Nat : EnqueueDrain(f, t)
          BY <2>1, <4>2, PushReserves
        <5>2. occupancy \in Nat /\ occupancy < WriteEntries
          BY <2>1, <4>2, Constants DEF Push, Full, TypeOK
        <5>3. drains' \in Seq([at : Nat, plane : Plane])
          BY <5>1, EnqueueDrainType
        <5>4. reads' \in Nat /\ (MaxReads # 0 => reads' <= MaxReads)
          BY <5>1 DEF TypeOK
        <5>5. QED BY <5>1, <5>2, <5>3, <5>4, Constants
      <4>3. QED BY <4>1, <4>2
    <3>3. /\ status' \in [Fetch -> {"NONE", "PENDING", "RETURNQ"}]
          /\ UNCHANGED <<phase, returnq>>
      BY <2>1 DEF Push, TypeOK
    <3>4. QED BY <3>1, <3>2, <3>3 DEF TypeOK
  <2>2. CASE PopReturn
    <3>1. /\ Head(returnq) \in Fetch /\ Tail(returnq) \in Seq(Fetch)
          /\ Len(Tail(returnq)) = Len(returnq) - 1
      BY <2>2, HeadTail DEF PopReturn, TypeOK
    <3>2. returnq' \in Seq(Fetch) /\ (RetQ # 0 => Len(returnq') <= RetQ)
      BY <2>2, <3>1, Constants DEF PopReturn, TypeOK
    <3>3. status' \in [Fetch -> {"NONE", "PENDING", "RETURNQ"}]
      BY <2>2, <3>1 DEF PopReturn, TypeOK
    <3>4. QED BY <2>2, <3>2, <3>3 DEF PopReturn, TypeOK, flash
  <2>3. CASE CoreTick
    <3>1. \A t \in Nat, n \in Nat : MinusCycles(t, n) \in Nat
      BY DEF MinusCycles
    <3>2. drains' \in Seq([at : Nat, plane : Plane])
      <4>1. \A i \in DOMAIN drains :
              [drains[i] EXCEPT !.at = MinusCycles(drains[i].at, 1)] \in [at : Nat, plane : Plane]
        <5> SUFFICES ASSUME NEW i \in DOMAIN drains
                     PROVE  [drains[i] EXCEPT !.at = MinusCycles(drains[i].at, 1)]
                               \in [at : Nat, plane : Plane]
          OBVIOUS
        <5>1. drains[i] \in [at : Nat, plane : Plane]
          <6> DEFINE D == [at : Nat, plane : Plane]
          <6>1. drains \in Seq(D)
            BY DEF TypeOK
          <6> HIDE DEF D
          <6>2. drains[i] \in D
            BY <6>1
          <6>3. QED BY <6>2 DEF D
        <5>2. MinusCycles(drains[i].at, 1) \in Nat
          BY <3>1, <5>1
        <5>3. QED BY <5>1, <5>2
      <4>2. DOMAIN drains = 1 .. Len(drains) /\ Len(drains) \in Nat
        BY DEF TypeOK
      <4>3. drains' = [i \in 1 .. Len(drains) |->
                          [drains[i] EXCEPT !.at = MinusCycles(drains[i].at, 1)]]
        BY <2>3, <4>2 DEF CoreTick
      <4>4. QED BY <4>1, <4>2, <4>3, SequenceOf
    <3>3. linkFree' \in Nat
      BY <2>3, <3>1, Constants DEF CoreTick, TypeOK
    <3>4. planeFree' \in [Plane -> Nat] /\ ready' \in [Fetch -> Nat]
      BY <2>3, <3>1 DEF CoreTick, TypeOK
    <3>5. QED BY <2>3, <3>2, <3>3, <3>4 DEF CoreTick, TypeOK
  <2>4. CASE DrainWrites
    <3>1. Programmed \in 0 .. Len(drains)
      BY ProgrammedWrites
    <3>2. drains' \in Seq([at : Nat, plane : Plane]) /\ Len(drains') = Len(drains) - Programmed
      BY <2>4, <3>1, DrainsShrink DEF DrainWrites
    <3>3. occupancy' \in 0 .. WriteEntries
      BY <2>4, <3>1, Constants DEF DrainWrites, MinusCycles, TypeOK
    <3>4. QED BY <2>4, <3>2, <3>3 DEF DrainWrites, TypeOK, flash
  <2>5. CASE CompleteOne
    <3> DEFINE f == Head(completions)
    <3>1. f \in Fetch /\ Tail(completions) \in Seq(Fetch)
      BY <2>5, HeadTail DEF CompleteOne, Completable, TypeOK
    <3>2. Append(returnq, f) \in Seq(Fetch) /\ Len(Append(returnq, f)) = Len(returnq) + 1
      BY <3>1, AppendType DEF TypeOK
    <3>3. returnq' \in Seq(Fetch) /\ (RetQ # 0 => Len(returnq') <= RetQ)
      <4>1. returnq \in Seq(Fetch) /\ (RetQ # 0 => Len(returnq) < RetQ)
        BY <2>5, Constants DEF CompleteOne, Completable, ReturnqFull, TypeOK
      <4>2. returnq' = returnq \/ returnq' = Append(returnq, f)
        BY <2>5 DEF CompleteOne
      <4> HIDE DEF f
      <4>3. QED BY <3>2, <4>1, <4>2, Constants
    <3>4. status' \in [Fetch -> {"NONE", "PENDING", "RETURNQ"}]
      <4>1. status' = [status EXCEPT ![f] = "NONE"] \/ status' = [status EXCEPT ![f] = "RETURNQ"]
        BY <2>5 DEF CompleteOne
      <4> HIDE DEF f
      <4>2. QED BY <3>1, <4>1 DEF TypeOK
    <3>5. reads' \in Nat /\ (MaxReads # 0 => reads' <= MaxReads)
      <4>1. reads' = reads \/ (reads > 0 /\ reads' = reads - 1)
        BY <2>5 DEF CompleteOne
      <4>2. QED BY <4>1, Constants DEF TypeOK
    <3>6. QED BY <2>5, <3>1, <3>3, <3>4, <3>5 DEF CompleteOne, TypeOK, flash
  <2>6. CASE EndCycle \/ UNCHANGED vars
    BY <2>6 DEF EndCycle, vars, flash, TypeOK
  <2>7. QED
    BY <2>1, <2>2, <2>3, <2>4, <2>5, <2>6 DEF Next, Cycle
<1>3. QED
  BY <1>1, <1>2, PTL DEF Spec

-----------------------------------------------------------------------------
(* Placement *)

Heap == Holds(Fetch, completions, status, "PENDING")
Ret == Holds(Fetch, returnq, status, "RETURNQ")

LEMMA PlacesArePlacement == Heap /\ Ret <=> Placement
BY DEF Heap, Ret, Placement, Holds

\* Every fetch that was pushed is in exactly one of the heap and the return
\* queue, although a push may insert it anywhere among the completions.
THEOREM PlacementCorrect == Spec => []Placement
<1>1. Init => Heap /\ Ret
  BY DEF Init, Heap, Ret, Holds, NoRepeat, Range
<1>2. TypeOK /\ Heap /\ Ret /\ [Next]_vars => Heap' /\ Ret'
  <2> SUFFICES ASSUME TypeOK, Heap, Ret, [Next]_vars PROVE Heap' /\ Ret'
    OBVIOUS
  <2> DEFINE Status == {"NONE", "PENDING", "RETURNQ"}
  <2>0. /\ completions \in Seq(Fetch) /\ returnq \in Seq(Fetch) /\ status \in [Fetch -> Status]
    BY DEF TypeOK
  <2>1. ASSUME NEW f \in Fetch, Push(f) PROVE Heap' /\ Ret'
    <3>1. /\ status[f] = "NONE" /\ status' = [status EXCEPT ![f] = "PENDING"]
          /\ returnq' = returnq
      BY <2>1 DEF Push
    <3>2. PICK n \in 0 .. Len(completions) : completions' = InsertAt(completions, n + 1, f)
      BY <2>1, PushReserves, EnqueueCompletionType
    <3>3. f \notin Range(completions) /\ NoRepeat(completions)
      BY <3>1 DEF Heap, Holds
    <3>4. NoRepeat(completions') /\ Range(completions') = Range(completions) \cup {f}
      BY <2>0, <3>2, <3>3, InsertedRange
    <3>5. \A x \in Fetch : status'[x] = "PENDING" <=> status[x] = "PENDING" \/ x = f
      BY <2>0, <3>1
    <3>6. Heap'
      BY <3>4, <3>5 DEF Heap, Holds
    <3>7. Ret'
      BY <2>0, <3>1, Stays DEF Ret
    <3>8. QED BY <3>6, <3>7
  <2>2. CASE PopReturn
    <3>1. /\ returnq # <<>> /\ returnq' = Tail(returnq) /\ completions' = completions
          /\ status' = [status EXCEPT ![Head(returnq)] = "NONE"]
      BY <2>2 DEF PopReturn
    <3>2. Head(returnq) \in Fetch /\ status[Head(returnq)] = "RETURNQ"
      BY <2>0, <3>1, HeadHeld DEF Ret
    <3>3. Ret'
      BY <2>0, <3>1, Leaves DEF Ret
    <3>4. Heap'
      BY <2>0, <3>1, <3>2, Stays DEF Heap
    <3>5. QED BY <3>3, <3>4
  <2>3. CASE CompleteOne
    <3> DEFINE f == Head(completions)
    <3>1. completions # <<>> /\ completions' = Tail(completions)
      BY <2>3 DEF CompleteOne, Completable
    <3>2. f \in Fetch /\ status[f] = "PENDING"
      BY <2>0, <3>1, HeadHeld DEF Heap
    <3>3. \/ status' = [status EXCEPT ![f] = "NONE"] /\ returnq' = returnq
          \/ status' = [status EXCEPT ![f] = "RETURNQ"] /\ returnq' = Append(returnq, f)
      BY <2>3 DEF CompleteOne
    <3>4. Heap'
      <4>1. CASE status' = [status EXCEPT ![Head(completions)] = "NONE"]
        BY <2>0, <3>1, <4>1, Leaves DEF Heap
      <4>2. CASE status' = [status EXCEPT ![Head(completions)] = "RETURNQ"]
        BY <2>0, <3>1, <4>2, Leaves DEF Heap
      <4>3. QED BY <3>3, <4>1, <4>2
    <3> HIDE DEF f
    <3>5. CASE status' = [status EXCEPT ![f] = "NONE"] /\ returnq' = returnq
      BY <2>0, <3>2, <3>4, <3>5, Stays DEF Ret
    <3>6. CASE status' = [status EXCEPT ![f] = "RETURNQ"] /\ returnq' = Append(returnq, f)
      BY <2>0, <3>2, <3>4, <3>6, Joins DEF Ret
    <3>7. QED BY <3>3, <3>5, <3>6
  <2>4. CASE CoreTick \/ DrainWrites \/ EndCycle \/ UNCHANGED vars
    BY <2>4 DEF CoreTick, DrainWrites, EndCycle, vars, flash, Heap, Ret
  <2>5. QED
    BY <2>1, <2>2, <2>3, <2>4 DEF Next, Cycle
<1>3. QED
  BY <1>1, <1>2, TypeCorrect, PlacesArePlacement, PTL DEF Spec

-----------------------------------------------------------------------------
(* Counters *)

PendingReads == {f \in Fetch : status[f] = "PENDING" /\ IsRead(f)}

LEMMA PendingReadsFinite ==
    /\ IsFiniteSet(PendingReads) /\ Cardinality(PendingReads) \in Nat
    /\ IsFiniteSet(PendingReads') /\ Cardinality(PendingReads') \in Nat
<1>1. IsFiniteSet(PendingReads) /\ IsFiniteSet(PendingReads')
  BY HbfAssumption, FS_Subset DEF PendingReads
<1>2. QED BY <1>1, FS_CardinalityType

\* The counters that full() tests are exact: the outstanding reads are the reads
\* in the heap, the write buffer holds one entry per unfinished program
\* operation, and neither clamp of cycle() hides a difference.
THEOREM SlotsCorrect == Spec => []SlotsExact
<1>1. Init => SlotsExact
  <2>1. Init => PendingReads = {}
    BY DEF Init, PendingReads
  <2>2. QED BY <2>1, FS_EmptySet DEF Init, SlotsExact, PendingReads
<1>2. TypeOK /\ Heap /\ Ret /\ SlotsExact /\ [Next]_vars => SlotsExact'
  <2> SUFFICES ASSUME TypeOK, Heap, Ret, SlotsExact, [Next]_vars PROVE SlotsExact'
    OBVIOUS
  <2>0. /\ reads = Cardinality(PendingReads) /\ occupancy = Len(drains)
        /\ status \in [Fetch -> {"NONE", "PENDING", "RETURNQ"}]
        /\ completions \in Seq(Fetch) /\ returnq \in Seq(Fetch)
        /\ reads \in Nat
        /\ drains \in Seq([at : Nat, plane : Plane]) /\ Len(drains) \in Nat
    BY DEF SlotsExact, PendingReads, TypeOK
  <2>9. (reads' = Cardinality(PendingReads') /\ occupancy' = Len(drains')) => SlotsExact'
    BY DEF SlotsExact, PendingReads
  <2>1. ASSUME NEW f \in Fetch, Push(f) PROVE SlotsExact'
    <3>1. status[f] = "NONE" /\ status' = [status EXCEPT ![f] = "PENDING"]
      BY <2>1 DEF Push
    <3>2. f \notin PendingReads
      BY <3>1 DEF PendingReads
    <3>3. CASE IsRead(f)
      <4>1. PendingReads' = PendingReads \cup {f}
        BY <2>0, <3>1, <3>3 DEF PendingReads, IsRead
      <4>2. Cardinality(PendingReads') = Cardinality(PendingReads) + 1
        BY <3>2, <4>1, PendingReadsFinite, FS_AddElement
      <4>3. reads' = reads + 1 /\ UNCHANGED <<drains, occupancy>>
        BY <2>1, <3>3, PushReserves
      <4>4. QED BY <2>0, <2>9, <4>2, <4>3
    <3>4. CASE ~IsRead(f)
      <4>1. PendingReads' = PendingReads
        BY <2>0, <3>1, <3>4 DEF PendingReads, IsRead
      <4>2. occupancy' = occupancy + 1 /\ reads' = reads /\ \E t \in Nat : EnqueueDrain(f, t)
        BY <2>1, <3>4, PushReserves
      <4>3. Len(drains') = Len(drains) + 1
        BY <4>2, EnqueueDrainType
      <4>4. QED BY <2>0, <2>9, <4>1, <4>2, <4>3
    <3>5. QED BY <3>3, <3>4
  <2>2. CASE PopReturn
    <3> DEFINE f == Head(returnq)
    <3>1. /\ status' = [status EXCEPT ![f] = "NONE"]
          /\ UNCHANGED <<reads, occupancy, drains>> /\ returnq # <<>>
      BY <2>2 DEF PopReturn
    <3>2. f \in Fetch /\ status[f] = "RETURNQ"
      BY <2>0, <3>1, HeadHeld DEF Ret
    <3> HIDE DEF f
    <3>3. PendingReads' = PendingReads
      BY <2>0, <3>1, <3>2 DEF PendingReads, IsRead
    <3>4. QED BY <2>0, <2>9, <3>1, <3>3
  <2>3. CASE DrainWrites
    <3>1. Programmed \in Nat /\ Programmed <= Len(drains)
      BY <2>0, ProgrammedWrites
    <3>2. Len(drains') = Len(drains) - Programmed
      BY <2>3, DrainsShrink DEF DrainWrites
    <3>3. /\ occupancy' = MinusCycles(occupancy, Programmed)
          /\ UNCHANGED <<status, reads>>
      BY <2>3 DEF DrainWrites
    <3>4. occupancy' = Len(drains) - Programmed
      BY <2>0, <3>1, <3>3 DEF MinusCycles
    <3>5. PendingReads' = PendingReads
      BY <3>3 DEF PendingReads, IsRead
    <3>6. QED BY <2>0, <2>9, <3>2, <3>3, <3>4, <3>5
  <2>4. CASE CompleteOne
    <3> DEFINE f == Head(completions)
    <3>1. /\ completions # <<>> /\ UNCHANGED <<drains, occupancy>>
          /\ reads' = IF IsRead(f) /\ reads > 0 THEN reads - 1 ELSE reads
          /\ \/ status' = [status EXCEPT ![f] = "NONE"]
             \/ status' = [status EXCEPT ![f] = "RETURNQ"]
      BY <2>4 DEF CompleteOne, Completable
    <3>2. f \in Fetch /\ status[f] = "PENDING"
      BY <2>0, <3>1, HeadHeld DEF Heap
    <3> HIDE DEF f
    <3>3. CASE IsRead(f)
      <4>1. PendingReads' = PendingReads \ {f} /\ f \in PendingReads
        BY <2>0, <3>1, <3>2, <3>3 DEF PendingReads, IsRead
      <4>2. Cardinality(PendingReads') = Cardinality(PendingReads) - 1
        BY <4>1, PendingReadsFinite, FS_RemoveElement
      <4>3. QED BY <2>0, <2>9, <3>1, <3>3, <4>2, PendingReadsFinite
    <3>4. CASE ~IsRead(f)
      <4>1. PendingReads' = PendingReads
        BY <2>0, <3>1, <3>2, <3>4 DEF PendingReads, IsRead
      <4>2. QED BY <2>0, <2>9, <3>1, <3>4, <4>1
    <3>5. QED BY <3>3, <3>4
  <2>5. CASE CoreTick
    <3>1. UNCHANGED <<status, reads, occupancy>>
          /\ drains' = [i \in DOMAIN drains |->
                          [drains[i] EXCEPT !.at = MinusCycles(drains[i].at, 1)]]
      BY <2>5 DEF CoreTick
    <3>2. DOMAIN drains' = 1 .. Len(drains)
      BY <2>0, <3>1
    <3>3. Len(drains') = Len(drains)
      BY <2>0, <3>2, LenDomain
    <3>4. PendingReads' = PendingReads
      BY <3>1 DEF PendingReads, IsRead
    <3>5. QED BY <2>0, <2>9, <3>1, <3>3, <3>4
  <2>6. CASE EndCycle \/ UNCHANGED vars
    BY <2>6 DEF EndCycle, vars, flash, SlotsExact, IsRead
  <2>7. QED
    BY <2>1, <2>2, <2>3, <2>4, <2>5, <2>6 DEF Next, Cycle
<1>3. QED
  BY <1>1, <1>2, TypeCorrect, PlacementCorrect, PlacesArePlacement, PTL DEF Spec

-----------------------------------------------------------------------------
(* Planes *)

\* In a sorted heap, the elements that are not later than x come first.
LEMMA NotLaterFirst ==
    ASSUME NEW n \in Nat, NEW times, DOMAIN times = 1 .. n, NEW x \in Nat,
           \A i \in 1 .. n : times[i] \in Nat,
           \A i, j \in 1 .. n : i < j => times[i] <= times[j]
    PROVE  \A i \in 1 .. n : i <= NotLater(times, x) <=> times[i] <= x
<1> DEFINE T == {i \in DOMAIN times : times[i] <= x}
<1>1. T \in SUBSET (1 .. n)
  OBVIOUS
<1>2. NotLater(times, x) = Cardinality(T) /\ IsFiniteSet(1 .. n)
  BY FS_Interval DEF NotLater
<1>3. IsFiniteSet(T) /\ Cardinality(T) \in Nat
  BY <1>1, <1>2, SizeOfPlaces, FS_Subset
<1> SUFFICES ASSUME NEW i \in 1 .. n PROVE i <= Cardinality(T) <=> times[i] <= x
  BY <1>2
<1>4. i \in Nat /\ i - 1 \in Nat
  OBVIOUS
<1>5. CASE times[i] <= x
  <2>1. \A j \in 1 .. i : j \in T
    BY <1>5
  <2> DEFINE D == 1 .. i
  <2>2. D \in SUBSET T /\ Cardinality(D) = i
    <3>1. Cardinality(1 .. i) = i
      BY <1>4, FS_Interval
    <3>2. QED BY <2>1, <3>1
  <2> HIDE DEF D, T
  <2>3. Cardinality(D) <= Cardinality(T)
    BY <1>3, <2>2, FS_Subset
  <2>4. QED BY <1>5, <2>2, <2>3
<1>6. CASE ~(times[i] <= x)
  <2>1. \A j \in T : j \in 1 .. i - 1
    BY <1>6
  <2> DEFINE D == 1 .. i - 1
  <2>2. T \in SUBSET D /\ Cardinality(D) = i - 1 /\ IsFiniteSet(D)
    BY <1>4, <2>1, FS_Interval
  <2> HIDE DEF D, T
  <2>3. Cardinality(T) <= Cardinality(D)
    BY <2>2, FS_Subset
  <2>4. QED BY <1>3, <1>4, <1>6, <2>2, <2>3
<1>7. QED BY <1>5, <1>6

Drain == [at : Nat, plane : Plane]

\* The heap is sorted, and a plane is reserved up to the end of its last write.
Sorted == \A i, j \in 1 .. Len(drains) : i < j => drains[i].at <= drains[j].at
PlaneCovers == \A i \in 1 .. Len(drains) : drains[i].at <= planeFree[drains[i].plane]
Apart ==
    \A i, j \in 1 .. Len(drains) :
        i < j /\ drains[i].plane = drains[j].plane /\ drains[i].at > 0
            => drains[j].at - drains[i].at >= TProg
PlanesInv == Sorted /\ PlaneCovers /\ Apart

LEMMA DrainsAre ==
    ASSUME TypeOK
    PROVE  /\ drains \in Seq(Drain) /\ Len(drains) \in Nat /\ DOMAIN drains = 1 .. Len(drains)
           /\ \A i \in 1 .. Len(drains) :
                /\ drains[i] \in Drain
                /\ drains[i].at \in Nat /\ drains[i].plane \in Plane
                /\ planeFree[drains[i].plane] \in Nat
<1>1. drains \in Seq(Drain) /\ planeFree \in [Plane -> Nat]
  BY DEF TypeOK, Drain
<1>2. Len(drains) \in Nat /\ DOMAIN drains = 1 .. Len(drains)
      /\ \A i \in 1 .. Len(drains) : drains[i] \in Drain
  BY <1>1
<1>3. \A d \in Drain : d.at \in Nat /\ d.plane \in Plane
  BY DEF Drain
<1>4. QED BY <1>1, <1>2, <1>3

\* A write that is pushed comes behind those that are not programmed later.
LEMMA DrainInserted ==
    ASSUME TypeOK, Sorted, NEW f \in Fetch, NEW t \in Nat, EnqueueDrain(f, t)
    PROVE  \E n \in 0 .. Len(drains) :
              /\ drains' = InsertAt(drains, n + 1, [at |-> t, plane |-> planeOf[f]])
              /\ \A i \in 1 .. Len(drains) : i <= n <=> drains[i].at <= t
<1> DEFINE times == [i \in DOMAIN drains |-> drains[i].at]
           m == Len(drains)
<1>1. /\ m \in Nat /\ DOMAIN times = 1 .. m
      /\ \A i \in 1 .. m : times[i] \in Nat /\ times[i] = drains[i].at
  BY DrainsAre
<1>2. \A i, j \in 1 .. m : i < j => times[i] <= times[j]
  BY <1>1 DEF Sorted
<1>3. drains' = InsertAt(drains, NotLater(times, t) + 1, [at |-> t, plane |-> planeOf[f]])
  BY DEF EnqueueDrain
<1> HIDE DEF times, m
<1>4. NotLater(times, t) \in 0 .. m
  BY <1>1, PlaceInHeap
<1>5. \A i \in 1 .. m : i <= NotLater(times, t) <=> times[i] <= t
  BY <1>1, <1>2, NotLaterFirst
<1>6. QED BY <1>1, <1>3, <1>4, <1>5 DEF m

LEMMA PushKeepsPlanes ==
    ASSUME TypeOK, PlanesInv, NEW f \in Fetch, Push(f)
    PROVE  PlanesInv'
<1>1. /\ planeFree' \in [Plane -> Nat] /\ planeFree \in [Plane -> Nat]
      /\ \A p \in Plane : planeFree'[p] >= planeFree[p]
  BY PushReserves DEF TypeOK
<1>2. CASE IsRead(f)
  <2>1. drains' = drains
    BY <1>2, PushReserves
  <2>2. ASSUME NEW i \in 1 .. Len(drains) PROVE drains[i].at <= planeFree'[drains[i].plane]
    <3>1. drains[i].at <= planeFree[drains[i].plane]
      BY DEF PlanesInv, PlaneCovers
    <3>2. drains[i].at \in Nat /\ drains[i].plane \in Plane
      BY DrainsAre
    <3>3. planeFree[drains[i].plane] \in Nat /\ planeFree'[drains[i].plane] \in Nat
          /\ planeFree'[drains[i].plane] >= planeFree[drains[i].plane]
      BY <1>1, <3>2
    <3>4. QED BY <3>1, <3>2, <3>3
  <2>3. QED BY <2>1, <2>2 DEF PlanesInv, Sorted, PlaneCovers, Apart
<1>3. CASE ~IsRead(f)
  <2> DEFINE m == Len(drains)
             p == planeOf[f]
  <2>1. PICK t \in Nat : /\ EnqueueDrain(f, t)
                        /\ t = planeFree'[p] /\ t >= planeFree[p] + TProg
    BY <1>3, PushReserves
  <2> DEFINE d == [at |-> t, plane |-> p]
             r == drains'
  <2>2. PICK n \in 0 .. m : /\ r = InsertAt(drains, n + 1, d)
                           /\ \A i \in 1 .. m : i <= n <=> drains[i].at <= t
    BY <2>1, DrainInserted DEF PlanesInv
  <2>3. p \in Plane /\ d \in Drain /\ planeFree[p] \in Nat /\ TProg \in Nat
    BY <1>1, Constants DEF Drain
  <2>4. /\ Len(r) = m + 1
        /\ \A i \in 1 .. n : r[i] = drains[i]
        /\ r[n + 1] = d
        /\ \A i \in n + 1 .. m : r[i + 1] = drains[i]
    <3>1. drains \in Seq(Drain) /\ n \in 0 .. Len(drains) /\ d \in Drain
      BY <2>3, DrainsAre
    <3> HIDE DEF d, r
    <3>2. /\ Len(InsertAt(drains, n + 1, d)) = m + 1
          /\ \A i \in 1 .. n : InsertAt(drains, n + 1, d)[i] = drains[i]
          /\ InsertAt(drains, n + 1, d)[n + 1] = d
          /\ \A i \in n + 1 .. m : InsertAt(drains, n + 1, d)[i + 1] = drains[i]
      BY <3>1, Inserted
    <3>3. QED BY <2>2, <3>2
  <2>5. d.at = t /\ d.plane = p
    OBVIOUS
  <2>6. /\ m \in Nat /\ n \in Nat /\ n <= m
        /\ \A i \in 1 .. m : drains[i].at \in Nat /\ drains[i].plane \in Plane
    BY DrainsAre
  \* Where the elements of the new heap come from.
  <2> DEFINE from(i) == IF i <= n THEN i ELSE i - 1
  <2>7. \A i \in 1 .. m + 1 : i # n + 1 => from(i) \in 1 .. m /\ r[i] = drains[from(i)]
    <3> SUFFICES ASSUME NEW i \in 1 .. m + 1, i # n + 1
                 PROVE  from(i) \in 1 .. m /\ r[i] = drains[from(i)]
      OBVIOUS
    <3> HIDE DEF r, d, m
    <3>1. CASE i <= n
      BY <2>4, <2>6, <3>1
    <3>2. CASE i > n + 1
      <4>1. i - 1 \in n + 1 .. m /\ (i - 1) + 1 = i
        BY <2>6, <3>2
      <4>2. r[i] = drains[i - 1]
        BY <2>4, <4>1
      <4>3. QED BY <2>6, <3>2, <4>1, <4>2
    <3>3. QED BY <2>6, <3>1, <3>2
  <2>8. /\ \A i \in 1 .. m + 1 : i < n + 1 => from(i) <= n
        /\ \A i \in 1 .. m + 1 : i > n + 1 => from(i) > n
        /\ \A i, j \in 1 .. m + 1 : i # n + 1 /\ j # n + 1 /\ i < j => from(i) < from(j)
    BY <2>6
  <2>9. \A i \in 1 .. m : drains[i].plane = p => drains[i].at + TProg <= t /\ i <= n
    <3> SUFFICES ASSUME NEW i \in 1 .. m, drains[i].plane = p
                 PROVE  drains[i].at + TProg <= t /\ i <= n
      OBVIOUS
    <3>1. drains[i].at <= planeFree[p]
      BY DEF PlanesInv, PlaneCovers
    <3>2. drains[i].at + TProg <= t /\ drains[i].at <= t
      BY <2>1, <2>3, <2>6, <3>1
    <3>3. QED BY <2>2, <3>2
  <2> HIDE DEF r, d, m, from, p
  <2>10. Sorted'
    <3> SUFFICES ASSUME NEW i \in 1 .. m + 1, NEW j \in 1 .. m + 1, i < j
                 PROVE  r[i].at <= r[j].at
      BY <2>4 DEF Sorted, r
    <3>1. CASE i = n + 1
      <4>1. from(j) \in 1 .. m /\ r[j] = drains[from(j)] /\ from(j) > n
        BY <2>6, <2>7, <2>8, <3>1
      <4>2. drains[from(j)].at > t
        BY <2>2, <2>6, <4>1
      <4>3. QED BY <2>4, <2>5, <2>6, <3>1, <4>1, <4>2
    <3>2. CASE j = n + 1
      <4>1. from(i) \in 1 .. m /\ r[i] = drains[from(i)] /\ from(i) <= n
        BY <2>6, <2>7, <2>8, <3>2
      <4>2. QED BY <2>2, <2>4, <2>5, <3>2, <4>1
    <3>3. CASE i # n + 1 /\ j # n + 1
      BY <2>7, <2>8, <3>3 DEF PlanesInv, Sorted, m
    <3>4. QED BY <3>1, <3>2, <3>3
  <2>11. PlaneCovers'
    <3> SUFFICES ASSUME NEW i \in 1 .. m + 1 PROVE r[i].at <= planeFree'[r[i].plane]
      BY <2>4 DEF PlaneCovers, r
    <3>1. CASE i = n + 1
      BY <2>1, <2>4, <2>5, <3>1
    <3>2. CASE i # n + 1
      <4>1. from(i) \in 1 .. m /\ r[i] = drains[from(i)]
        BY <2>7, <3>2
      <4>2. drains[from(i)].at <= planeFree[drains[from(i)].plane]
        BY <4>1 DEF PlanesInv, PlaneCovers, m
      <4>3. drains[from(i)].at \in Nat /\ drains[from(i)].plane \in Plane
        BY <2>6, <4>1
      <4>4. QED BY <1>1, <4>1, <4>2, <4>3
    <3>3. QED BY <3>1, <3>2
  <2>12. Apart'
    <3> SUFFICES ASSUME NEW i \in 1 .. m + 1, NEW j \in 1 .. m + 1,
                        i < j, r[i].plane = r[j].plane, r[i].at > 0
                 PROVE  r[j].at - r[i].at >= TProg
      BY <2>4 DEF Apart, r
    <3>1. CASE i = n + 1
      <4>1. from(j) \in 1 .. m /\ r[j] = drains[from(j)] /\ from(j) > n
        BY <2>6, <2>7, <2>8, <3>1
      <4>2. drains[from(j)].plane = p
        BY <2>4, <2>5, <3>1, <4>1
      <4>3. QED BY <2>6, <2>9, <4>1, <4>2
    <3>2. CASE j = n + 1
      <4>1. from(i) \in 1 .. m /\ r[i] = drains[from(i)]
        BY <2>6, <2>7, <3>2
      <4>2. drains[from(i)].plane = p
        BY <2>4, <2>5, <3>2, <4>1
      <4>3. drains[from(i)].at + TProg <= t /\ drains[from(i)].at \in Nat
        BY <2>6, <2>9, <4>1, <4>2
      <4>4. QED BY <2>3, <2>4, <2>5, <3>2, <4>1, <4>3
    <3>3. CASE i # n + 1 /\ j # n + 1
      BY <2>7, <2>8, <3>3 DEF PlanesInv, Apart, m
    <3>4. QED BY <3>1, <3>2, <3>3
  <2>13. QED BY <2>10, <2>11, <2>12 DEF PlanesInv
<1>4. QED BY <1>2, <1>3

LEMMA TickKeepsPlanes ==
    ASSUME TypeOK, PlanesInv, CoreTick
    PROVE  PlanesInv'
<1> DEFINE m == Len(drains)
           less(t) == MinusCycles(t, 1)
<1>1. /\ m \in Nat /\ planeFree \in [Plane -> Nat] /\ TProg \in Nat
      /\ \A i \in 1 .. m : /\ drains[i] \in Drain /\ drains[i].at \in Nat
                           /\ drains[i].plane \in Plane /\ planeFree[drains[i].plane] \in Nat
  BY DrainsAre, Constants DEF TypeOK
<1>2. /\ drains' = [i \in 1 .. m |-> [drains[i] EXCEPT !.at = less(drains[i].at)]]
      /\ planeFree' = [p \in Plane |-> less(planeFree[p])]
  BY DrainsAre DEF CoreTick
<1>3. /\ \A s, t \in Nat : s <= t => less(s) <= less(t)
      /\ \A s, t \in Nat : less(s) > 0 /\ t >= s => less(t) - less(s) = t - s /\ s > 0
      /\ \A s \in Nat : less(s) \in Nat
  BY DEF MinusCycles
<1> HIDE DEF less, m
<1>4. Len(drains') = m
  <2>1. DOMAIN drains' = 1 .. m
    BY <1>2
  <2>2. QED BY <1>1, <2>1, LenDomain
<1>5. \A i \in 1 .. m : drains'[i].at = less(drains[i].at) /\ drains'[i].plane = drains[i].plane
  <2> SUFFICES ASSUME NEW i \in 1 .. m
               PROVE  drains'[i].at = less(drains[i].at) /\ drains'[i].plane = drains[i].plane
    OBVIOUS
  <2>1. drains'[i] = [drains[i] EXCEPT !.at = less(drains[i].at)] /\ drains[i] \in Drain
    BY <1>1, <1>2
  <2>2. QED BY <2>1 DEF Drain
<1>6. Sorted'
  BY <1>1, <1>3, <1>4, <1>5 DEF PlanesInv, Sorted, m
<1>7. PlaneCovers'
  <2> SUFFICES ASSUME NEW i \in 1 .. m PROVE drains'[i].at <= planeFree'[drains'[i].plane]
    BY <1>4 DEF PlaneCovers
  <2>1. drains[i].at <= planeFree[drains[i].plane]
    BY DEF PlanesInv, PlaneCovers, m
  <2>2. planeFree'[drains[i].plane] = less(planeFree[drains[i].plane])
    BY <1>1, <1>2
  <2>3. QED BY <1>1, <1>3, <1>5, <2>1, <2>2
<1>8. Apart'
  <2> SUFFICES ASSUME NEW i \in 1 .. m, NEW j \in 1 .. m, i < j,
                      drains'[i].plane = drains'[j].plane, drains'[i].at > 0
               PROVE  drains'[j].at - drains'[i].at >= TProg
    BY <1>4 DEF Apart
  <2>1. drains[i].at <= drains[j].at /\ drains[i].plane = drains[j].plane /\ less(drains[i].at) > 0
    BY <1>5 DEF PlanesInv, Sorted, m
  <2>2. drains[i].at > 0
    BY <1>1, <1>3, <2>1
  <2>3. drains[j].at - drains[i].at >= TProg
    BY <2>1, <2>2 DEF PlanesInv, Apart, m
  <2>4. QED BY <1>1, <1>3, <1>5, <2>1, <2>3
<1>9. QED BY <1>6, <1>7, <1>8 DEF PlanesInv

LEMMA DrainKeepsPlanes ==
    ASSUME TypeOK, PlanesInv, DrainWrites
    PROVE  PlanesInv'
<1> DEFINE m == Len(drains)
           n == Programmed
<1>1. m \in Nat /\ n \in Nat /\ n <= m /\ drains \in Seq(Drain)
  BY ProgrammedWrites, DrainsAre
<1>2. drains' = SubSeq(drains, n + 1, m) /\ planeFree' = planeFree
  BY DEF DrainWrites, flash
<1> HIDE DEF n
<1>3. Len(drains') = m - n /\ \A i \in 1 .. m - n : drains'[i] = drains[n + i]
  BY <1>1, <1>2
<1> HIDE DEF m
<1>4. \A i \in 1 .. m - n : n + i \in 1 .. m
  BY <1>1
<1>5. \A i, j \in 1 .. m - n : i < j => n + i < n + j
  BY <1>1
<1>6. Sorted'
  BY <1>3, <1>4, <1>5 DEF PlanesInv, Sorted, m
<1>7. PlaneCovers'
  BY <1>2, <1>3, <1>4 DEF PlanesInv, PlaneCovers, m
<1>8. Apart'
  BY <1>3, <1>4, <1>5 DEF PlanesInv, Apart, m
<1>9. QED BY <1>6, <1>7, <1>8 DEF PlanesInv

\* A plane programs one page at a time, whatever reads and transfers come in
\* between: its buffered writes drain at least hbf_t_prog apart.
THEOREM OneProgramCorrect == Spec => []OneProgramAtATime
<1>1. Init => PlanesInv
  BY DEF Init, PlanesInv, Sorted, PlaneCovers, Apart
<1>2. TypeOK /\ PlanesInv /\ [Next]_vars => PlanesInv'
  <2> SUFFICES ASSUME TypeOK, PlanesInv, [Next]_vars PROVE PlanesInv'
    OBVIOUS
  <2>1. ASSUME NEW f \in Fetch, Push(f) PROVE PlanesInv'
    BY <2>1, PushKeepsPlanes
  <2>2. CASE CoreTick
    BY <2>2, TickKeepsPlanes
  <2>3. CASE DrainWrites
    BY <2>3, DrainKeepsPlanes
  <2>4. CASE PopReturn \/ CompleteOne \/ EndCycle \/ UNCHANGED vars
    <3>1. UNCHANGED <<drains, planeFree>>
      BY <2>4 DEF PopReturn, CompleteOne, EndCycle, vars, flash
    <3>2. QED BY <3>1 DEF PlanesInv, Sorted, PlaneCovers, Apart
  <2>5. QED
    BY <2>1, <2>2, <2>3, <2>4 DEF Next, Cycle
<1>3. TypeOK /\ PlanesInv => OneProgramAtATime
  BY DrainsAre DEF PlanesInv, Apart, OneProgramAtATime
<1>4. QED
  BY <1>1, <1>2, <1>3, TypeCorrect, PTL DEF Spec

-----------------------------------------------------------------------------
(* The order of reads *)

\* The link is reserved up to the end of every read in the heap.
LinkCovers ==
    \A f \in Fetch : status[f] = "PENDING" /\ IsRead(f) =>
        ready[f] * Bandwidth < linkFree + Bandwidth

\* A transfer takes link time.
LEMMA LinkMoves ==
    ASSUME TypeOK, NEW f \in Fetch, Push(f)
    PROVE  linkFree' \in Nat /\ linkFree' > linkFree
<1>1. linkFree \in Nat /\ linkFree' \in Nat /\ linkFree' >= linkFree + Subpage
  BY PushReserves DEF TypeOK
<1>2. QED BY <1>1, Constants

\* One cycle later, the reservation still covers the read.
LEMMA OneCycle ==
    ASSUME NEW t \in Nat, NEW link \in Nat, t * Bandwidth < link + Bandwidth
    PROVE  MinusCycles(t, 1) * Bandwidth < MinusCycles(link, Bandwidth) + Bandwidth
<1>1. CASE t <= 1
  <2>1. MinusCycles(t, 1) = 0 /\ 0 * Bandwidth = 0
    BY <1>1, Constants DEF MinusCycles
  <2>2. MinusCycles(link, Bandwidth) >= 0
    BY Constants DEF MinusCycles
  <2>3. QED BY <2>1, <2>2, Constants DEF MinusCycles
<1>2. CASE t > 1
  <2> DEFINE bytes == t * Bandwidth
             fewer == (t - 1) * Bandwidth
             least == (t - 2) * Bandwidth
  <2>1. bytes \in Nat /\ fewer \in Nat /\ least \in Nat
    BY <1>2, Constants
  <2>2. fewer = bytes - Bandwidth /\ fewer = least + Bandwidth
    BY <1>2, Constants
  <2>3. MinusCycles(t, 1) * Bandwidth = fewer
    BY <1>2 DEF MinusCycles
  <2>4. bytes < link + Bandwidth
    OBVIOUS
  <2> HIDE DEF bytes, fewer, least
  <2>5. link > Bandwidth /\ fewer < link
    BY <2>1, <2>2, <2>4, Constants
  <2>6. MinusCycles(link, Bandwidth) + Bandwidth = link
    BY <2>5, Constants DEF MinusCycles
  <2>7. QED BY <2>3, <2>5, <2>6
<1>3. QED BY <1>1, <1>2

LEMMA LinkCoversCorrect == Spec => []LinkCovers
<1>1. Init => LinkCovers
  BY DEF Init, LinkCovers
<1>2. TypeOK /\ Heap /\ Ret /\ LinkCovers /\ [Next]_vars => LinkCovers'
  <2> SUFFICES ASSUME TypeOK, Heap, Ret, LinkCovers, [Next]_vars,
                      NEW g \in Fetch, status'[g] = "PENDING", IsRead(g)
               PROVE  ready'[g] * Bandwidth < linkFree' + Bandwidth
    BY DEF LinkCovers, IsRead
  <2>0. /\ status \in [Fetch -> {"NONE", "PENDING", "RETURNQ"}] /\ linkFree \in Nat
        /\ ready \in [Fetch -> Nat] /\ ready[g] \in Nat
        /\ completions \in Seq(Fetch) /\ returnq \in Seq(Fetch)
    BY DEF TypeOK
  <2>1. ASSUME NEW f \in Fetch, Push(f) PROVE ready'[g] * Bandwidth < linkFree' + Bandwidth
    <3>1. status[f] = "NONE" /\ status' = [status EXCEPT ![f] = "PENDING"]
      BY <2>1 DEF Push
    <3>2. /\ linkFree' \in Nat /\ linkFree' > linkFree
          /\ \E t \in Nat : /\ EnqueueCompletion(f, t)
                            /\ IsRead(f) => t * Bandwidth < linkFree' + Bandwidth
      BY <2>1, PushReserves, LinkMoves
    <3>3. PICK t \in Nat : /\ ready' = [ready EXCEPT ![f] = t]
                           /\ IsRead(f) => t * Bandwidth < linkFree' + Bandwidth
      BY <3>2, EnqueueCompletionType
    <3>4. CASE g = f
      BY <2>0, <3>3, <3>4
    <3>5. CASE g # f
      <4>1. ready'[g] = ready[g] /\ status[g] = "PENDING"
        BY <2>0, <3>1, <3>3, <3>5
      <4>2. ready[g] * Bandwidth < linkFree + Bandwidth
        BY <4>1 DEF LinkCovers
      <4> DEFINE bytes == ready[g] * Bandwidth
      <4>3. bytes \in Nat /\ ready'[g] * Bandwidth = bytes /\ bytes < linkFree + Bandwidth
        BY <2>0, <4>1, <4>2, Constants
      <4> HIDE DEF bytes
      <4>4. bytes < linkFree' + Bandwidth
        <5>1. \A a, b, c, d \in Int : a < b + d /\ c > b => a < c + d
          OBVIOUS
        <5>2. bytes \in Int /\ linkFree \in Int /\ linkFree' \in Int /\ Bandwidth \in Int
          BY <2>0, <3>2, <4>3, Constants
        <5>3. bytes < linkFree + Bandwidth /\ linkFree' > linkFree
          BY <3>2, <4>3
        <5>4. QED BY <5>1, <5>2, <5>3
      <4>5. QED BY <4>3, <4>4
    <3>6. QED BY <3>4, <3>5
  <2>2. CASE CoreTick
    <3>1. /\ status[g] = "PENDING"
          /\ linkFree' = MinusCycles(linkFree, Bandwidth)
          /\ ready'[g] = MinusCycles(ready[g], 1)
      BY <2>2 DEF CoreTick
    <3>2. ready[g] * Bandwidth < linkFree + Bandwidth
      BY <3>1 DEF LinkCovers
    <3>3. QED BY <2>0, <3>1, <3>2, OneCycle
  <2>3. CASE PopReturn
    <3>1. /\ status' = [status EXCEPT ![Head(returnq)] = "NONE"] /\ UNCHANGED <<ready, linkFree>>
      BY <2>3 DEF PopReturn, flash
    <3>2. status[g] = "PENDING"
      BY <2>0, <3>1
    <3>3. QED BY <3>1, <3>2 DEF LinkCovers
  <2>4. CASE CompleteOne
    <3>1. /\ \/ status' = [status EXCEPT ![Head(completions)] = "NONE"]
             \/ status' = [status EXCEPT ![Head(completions)] = "RETURNQ"]
          /\ UNCHANGED <<ready, linkFree>>
      BY <2>4 DEF CompleteOne, flash
    <3>2. status[g] = "PENDING"
      BY <2>0, <3>1
    <3>3. QED BY <3>1, <3>2 DEF LinkCovers
  <2>5. CASE DrainWrites \/ EndCycle \/ UNCHANGED vars
    BY <2>5 DEF DrainWrites, EndCycle, vars, flash, LinkCovers
  <2>6. QED
    BY <2>1, <2>2, <2>3, <2>4, <2>5 DEF Next, Cycle
<1>3. QED
  BY <1>1, <1>2, TypeCorrect, PlacementCorrect, PlacesArePlacement, PTL DEF Spec

\* A read that ends at least a cycle's worth of bytes later is ready later.
LEMMA CyclesOrder ==
    ASSUME NEW c \in Nat, NEW d \in Nat, NEW bytes \in Nat,
           d * Bandwidth < bytes + Bandwidth, c * Bandwidth >= bytes + Bandwidth
    PROVE  d < c
<1>1. SUFFICES ASSUME d >= c PROVE FALSE
  OBVIOUS
<1>2. \A x, y, z \in Nat : x >= y => x * z >= y * z
  OBVIOUS
<1>3. d * Bandwidth >= c * Bandwidth
  BY <1>1, <1>2, Constants
<1>4. c * Bandwidth \in Nat /\ d * Bandwidth \in Nat
  BY Constants
<1>5. QED BY <1>3, <1>4, Constants

\* The heap is sorted by ready time.
Timed ==
    \A i, j \in 1 .. Len(completions) :
        i < j => ready[completions[i]] <= ready[completions[j]]

\* In a sorted heap, the elements that are earlier than x come first.
LEMMA EarlierFirst ==
    ASSUME NEW n \in Nat, NEW times, DOMAIN times = 1 .. n, NEW x \in Nat,
           \A i \in 1 .. n : times[i] \in Nat,
           \A i, j \in 1 .. n : i < j => times[i] <= times[j]
    PROVE  \A i \in 1 .. n : times[i] < x => i <= Earlier(times, x)
<1> DEFINE T == {i \in DOMAIN times : times[i] < x}
<1>1. T \in SUBSET (1 .. n)
  OBVIOUS
<1>2. Earlier(times, x) = Cardinality(T) /\ IsFiniteSet(1 .. n)
  BY FS_Interval DEF Earlier
<1>3. IsFiniteSet(T)
  BY <1>1, <1>2, FS_Subset
<1> SUFFICES ASSUME NEW i \in 1 .. n, times[i] < x PROVE i <= Cardinality(T)
  BY <1>2
<1>4. \A j \in 1 .. i : j \in T
  OBVIOUS
<1> DEFINE D == 1 .. i
<1>5. D \in SUBSET T /\ Cardinality(D) = i
  <2>1. Cardinality(1 .. i) = i
    BY FS_Interval
  <2>2. QED BY <1>4, <2>1
<1> HIDE DEF D, T
<1>6. Cardinality(D) <= Cardinality(T)
  BY <1>3, <1>5, FS_Subset
<1>7. QED BY <1>5, <1>6

LEMMA CompletionsAre ==
    ASSUME TypeOK
    PROVE  /\ completions \in Seq(Fetch) /\ Len(completions) \in Nat
           /\ DOMAIN completions = 1 .. Len(completions)
           /\ \A i \in 1 .. Len(completions) :
                 completions[i] \in Fetch /\ ready[completions[i]] \in Nat
<1>1. completions \in Seq(Fetch) /\ ready \in [Fetch -> Nat]
  BY DEF TypeOK
<1>2. QED BY <1>1

\* A completion is inserted behind the earlier ones and before the later ones.
LEMMA CompletionInserted ==
    ASSUME TypeOK, Timed, NEW f \in Fetch, NEW t \in Nat, EnqueueCompletion(f, t)
    PROVE  \E n \in 0 .. Len(completions) :
              /\ completions' = InsertAt(completions, n + 1, f)
              /\ \A i \in 1 .. Len(completions) :
                    /\ i <= n => ready[completions[i]] <= t
                    /\ ready[completions[i]] < t => i <= n
<1> DEFINE times == [i \in DOMAIN completions |-> ready[completions[i]]]
           m == Len(completions)
<1>1. /\ m \in Nat /\ DOMAIN times = 1 .. m
      /\ \A i \in 1 .. m : times[i] \in Nat /\ times[i] = ready[completions[i]]
  BY CompletionsAre
<1>2. \A i, j \in 1 .. m : i < j => times[i] <= times[j]
  BY <1>1 DEF Timed
<1>3. PICK n \in Earlier(times, t) .. NotLater(times, t) :
        completions' = InsertAt(completions, n + 1, f)
  BY DEF EnqueueCompletion
<1> HIDE DEF times, m
<1>4. Earlier(times, t) \in 0 .. m /\ NotLater(times, t) \in 0 .. m
  BY <1>1, PlaceInHeap
<1>5. n \in 0 .. m /\ Earlier(times, t) <= n /\ n <= NotLater(times, t)
  BY <1>1, <1>3, <1>4
<1>6. \A i \in 1 .. m : i <= NotLater(times, t) <=> times[i] <= t
  BY <1>1, <1>2, NotLaterFirst
<1>7. \A i \in 1 .. m : times[i] < t => i <= Earlier(times, t)
  BY <1>1, <1>2, EarlierFirst
<1>8. \A i \in 1 .. m : /\ i <= n => ready[completions[i]] <= t
                        /\ ready[completions[i]] < t => i <= n
  BY <1>1, <1>4, <1>5, <1>6, <1>7
<1>9. QED BY <1>3, <1>5, <1>8 DEF m

LEMMA PushKeepsTimed ==
    ASSUME TypeOK, Heap, Timed, NEW f \in Fetch, Push(f)
    PROVE  Timed'
<1> DEFINE m == Len(completions)
           r == completions'
<1>1. PICK t \in Nat : EnqueueCompletion(f, t)
  BY PushReserves
<1>2. PICK n \in 0 .. m : /\ r = InsertAt(completions, n + 1, f)
                         /\ \A i \in 1 .. m : /\ i <= n => ready[completions[i]] <= t
                                              /\ ready[completions[i]] < t => i <= n
  BY <1>1, CompletionInserted
<1>3. /\ Len(r) = m + 1
      /\ \A i \in 1 .. n : r[i] = completions[i]
      /\ r[n + 1] = f
      /\ \A i \in n + 1 .. m : r[i + 1] = completions[i]
  <2>1. completions \in Seq(Fetch) /\ n \in 0 .. Len(completions) /\ f \in Fetch
    BY CompletionsAre
  <2> DEFINE s == InsertAt(completions, n + 1, f)
  <2>2. Len(s) = m + 1
    BY <2>1, Inserted
  <2>3. \A i \in 1 .. n : s[i] = completions[i]
    BY <2>1, Inserted
  <2>4. s[n + 1] = f
    BY <2>1, Inserted
  <2>5. \A i \in n + 1 .. m : s[i + 1] = completions[i]
    BY <2>1, Inserted
  <2>6. r = s
    BY <1>2
  <2> HIDE DEF r, s
  <2>7. QED BY <2>2, <2>3, <2>4, <2>5, <2>6
<1>4. /\ m \in Nat /\ n \in Nat /\ n <= m
      /\ \A i \in 1 .. m : completions[i] \in Fetch /\ ready[completions[i]] \in Nat
  BY CompletionsAre
<1>5. /\ ready'[f] = t
      /\ \A i \in 1 .. m : ready'[completions[i]] = ready[completions[i]]
  <2>1. ready' = [ready EXCEPT ![f] = t] /\ ready \in [Fetch -> Nat]
    BY <1>1, EnqueueCompletionType DEF TypeOK
  <2>2. \A i \in 1 .. m : completions[i] # f
    BY CompletionsAre DEF Push, Heap, Holds, Range
  <2>3. QED BY <1>4, <2>1, <2>2
\* Where the elements of the new heap come from.
<1> DEFINE from(i) == IF i <= n THEN i ELSE i - 1
<1>6. \A i \in 1 .. m + 1 : i # n + 1 => from(i) \in 1 .. m /\ r[i] = completions[from(i)]
  <2> SUFFICES ASSUME NEW i \in 1 .. m + 1, i # n + 1
               PROVE  from(i) \in 1 .. m /\ r[i] = completions[from(i)]
    OBVIOUS
  <2> HIDE DEF r, m
  <2>1. CASE i <= n
    BY <1>3, <1>4, <2>1
  <2>2. CASE i > n + 1
    <3>1. i - 1 \in n + 1 .. m /\ (i - 1) + 1 = i
      BY <1>4, <2>2
    <3>2. r[i] = completions[i - 1]
      BY <1>3, <3>1
    <3>3. QED BY <1>4, <2>2, <3>1, <3>2
  <2>3. QED BY <1>4, <2>1, <2>2
<1>7. /\ \A i \in 1 .. m + 1 : i < n + 1 => from(i) <= n
      /\ \A i \in 1 .. m + 1 : i > n + 1 => from(i) > n
      /\ \A i, j \in 1 .. m + 1 : i # n + 1 /\ j # n + 1 /\ i < j => from(i) < from(j)
  BY <1>4
<1> HIDE DEF r, m, from
<1> SUFFICES ASSUME NEW i \in 1 .. m + 1, NEW j \in 1 .. m + 1, i < j
             PROVE  ready'[r[i]] <= ready'[r[j]]
  BY <1>3 DEF Timed, r
<1>8. CASE i = n + 1
  <2>1. from(j) \in 1 .. m /\ r[j] = completions[from(j)] /\ from(j) > n
    BY <1>4, <1>6, <1>7, <1>8
  <2>2. ready[completions[from(j)]] >= t
    BY <1>2, <1>4, <2>1
  <2>3. QED BY <1>3, <1>5, <1>8, <2>1, <2>2
<1>9. CASE j = n + 1
  <2>1. from(i) \in 1 .. m /\ r[i] = completions[from(i)] /\ from(i) <= n
    BY <1>4, <1>6, <1>7, <1>9
  <2>2. QED BY <1>2, <1>3, <1>5, <1>9, <2>1
<1>10. CASE i # n + 1 /\ j # n + 1
  <2>1. /\ from(i) \in 1 .. m /\ r[i] = completions[from(i)]
        /\ from(j) \in 1 .. m /\ r[j] = completions[from(j)] /\ from(i) < from(j)
    BY <1>6, <1>7, <1>10
  <2>2. ready[completions[from(i)]] <= ready[completions[from(j)]]
    BY <2>1 DEF Timed, m
  <2>3. QED BY <1>5, <2>1, <2>2
<1>11. QED BY <1>8, <1>9, <1>10

LEMMA TimedCorrect == Spec => []Timed
<1>1. Init => Timed
  BY DEF Init, Timed
<1>2. TypeOK /\ Heap /\ Timed /\ [Next]_vars => Timed'
  <2> SUFFICES ASSUME TypeOK, Heap, Timed, [Next]_vars PROVE Timed'
    OBVIOUS
  <2>1. ASSUME NEW f \in Fetch, Push(f) PROVE Timed'
    BY <2>1, PushKeepsTimed
  <2>2. CASE CoreTick
    <3>1. /\ completions' = completions
          /\ \A f \in Fetch : ready'[f] = MinusCycles(ready[f], 1)
      BY <2>2 DEF CoreTick
    <3>2. \A s, t \in Nat : s <= t => MinusCycles(s, 1) <= MinusCycles(t, 1)
      BY DEF MinusCycles
    <3>3. QED BY <3>1, <3>2, CompletionsAre DEF Timed
  <2>3. CASE CompleteOne
    <3> DEFINE n == Len(completions)
               r == Tail(completions)
    <3>1. completions # <<>> /\ completions' = r /\ ready' = ready
      BY <2>3 DEF CompleteOne, Completable
    <3>2. /\ n \in Nat /\ Len(r) = n - 1 /\ \A i \in 1 .. n - 1 : r[i] = completions[i + 1]
      BY <3>1, CompletionsAre
    <3> HIDE DEF r
    <3>3. \A i \in 1 .. n - 1 : i + 1 \in 1 .. n
      BY <3>2
    <3> SUFFICES ASSUME NEW i \in 1 .. n - 1, NEW j \in 1 .. n - 1, i < j
                 PROVE  ready[r[i]] <= ready[r[j]]
      BY <3>1, <3>2 DEF Timed
    <3>4. i + 1 \in 1 .. n /\ j + 1 \in 1 .. n /\ i + 1 < j + 1
      BY <3>2
    <3>5. QED BY <3>2, <3>4 DEF Timed
  <2>4. CASE PopReturn \/ DrainWrites \/ EndCycle \/ UNCHANGED vars
    BY <2>4 DEF PopReturn, DrainWrites, EndCycle, vars, flash, Timed
  <2>5. QED
    BY <2>1, <2>2, <2>3, <2>4 DEF Next, Cycle
<1>3. QED
  BY <1>1, <1>2, TypeCorrect, PlacementCorrect, PlacesArePlacement, PTL DEF Spec

\* One element of a queue is before another.
Before(q, g, f) == \E i, j \in DOMAIN q : i < j /\ q[i] = g /\ q[j] = f

LEMMA BeforeInside ==
    ASSUME NEW q, NEW g, NEW f, Before(q, g, f)
    PROVE  g \in Range(q) /\ f \in Range(q)
BY DEF Before, Range

LEMMA BeforeConcat ==
    ASSUME NEW S, NEW a \in Seq(S), NEW b \in Seq(S), NEW g, NEW f
    PROVE  Before(a \o b, g, f) <=> \/ Before(a, g, f)
                                    \/ Before(b, g, f)
                                    \/ g \in Range(a) /\ f \in Range(b)
<1> DEFINE m == Len(a)
           n == Len(b)
           s == a \o b
<1>1. /\ m \in Nat /\ n \in Nat /\ DOMAIN a = 1 .. m /\ DOMAIN b = 1 .. n
      /\ DOMAIN s = 1 .. m + n
      /\ \A i \in 1 .. m : s[i] = a[i]
      /\ \A i \in 1 .. n : s[m + i] = b[i]
  OBVIOUS
<1> HIDE DEF m, n, s
<1>2. /\ \A i \in 1 .. m : i \in 1 .. m + n
      /\ \A i \in 1 .. n : m + i \in 1 .. m + n
      /\ \A i \in 1 .. m + n : i \notin 1 .. m => i - m \in 1 .. n /\ m + (i - m) = i
  BY <1>1
<1>3. ASSUME Before(s, g, f)
      PROVE  Before(a, g, f) \/ Before(b, g, f) \/ (g \in Range(a) /\ f \in Range(b))
  <2>1. PICK i \in 1 .. m + n, j \in 1 .. m + n : i < j /\ s[i] = g /\ s[j] = f
    BY <1>1, <1>3 DEF Before
  <2>2. CASE i \in 1 .. m /\ j \in 1 .. m
    BY <1>1, <2>1, <2>2 DEF Before
  <2>3. CASE i \in 1 .. m /\ j \notin 1 .. m
    <3>1. j - m \in 1 .. n /\ s[j] = b[j - m]
      BY <1>1, <1>2, <2>3
    <3>2. QED BY <1>1, <2>1, <2>3, <3>1 DEF Range
  <2>4. CASE i \notin 1 .. m
    <3>1. /\ j \notin 1 .. m
          /\ i - m \in 1 .. n /\ j - m \in 1 .. n /\ i - m < j - m
      BY <1>1, <1>2, <2>1, <2>4
    <3>2. s[i] = b[i - m] /\ s[j] = b[j - m]
      BY <1>1, <1>2, <2>4, <3>1
    <3>3. QED BY <1>1, <2>1, <3>1, <3>2 DEF Before
  <2>5. QED BY <2>2, <2>3, <2>4
<1>4. ASSUME Before(a, g, f) PROVE Before(s, g, f)
  BY <1>1, <1>2, <1>4 DEF Before
<1>5. ASSUME Before(b, g, f) PROVE Before(s, g, f)
  <2>1. PICK i \in 1 .. n, j \in 1 .. n : i < j /\ b[i] = g /\ b[j] = f
    BY <1>1, <1>5 DEF Before
  <2>2. m + i \in 1 .. m + n /\ m + j \in 1 .. m + n /\ m + i < m + j
    BY <1>1, <1>2, <2>1
  <2>3. QED BY <1>1, <2>1, <2>2 DEF Before
<1>6. ASSUME g \in Range(a), f \in Range(b) PROVE Before(s, g, f)
  <2>1. PICK i \in 1 .. m, j \in 1 .. n : a[i] = g /\ b[j] = f
    BY <1>1, <1>6 DEF Range
  <2>2. i \in 1 .. m + n /\ m + j \in 1 .. m + n /\ i < m + j
    BY <1>1, <1>2
  <2>3. QED BY <1>1, <2>1, <2>2 DEF Before
<1>7. QED BY <1>3, <1>4, <1>5, <1>6 DEF s

LEMMA BeforeTail ==
    ASSUME NEW S, NEW q \in Seq(S), q # <<>>, NEW g, NEW f, Before(q, g, f)
    PROVE  /\ g # Head(q) => Before(Tail(q), g, f)
           /\ NoRepeat(q) => f # Head(q)
<1> DEFINE n == Len(q)
           t == Tail(q)
<1>1. /\ n \in Nat /\ n > 0 /\ DOMAIN q = 1 .. n /\ DOMAIN t = 1 .. n - 1
      /\ Head(q) = q[1]
      /\ \A i \in 1 .. n - 1 : t[i] = q[i + 1]
  OBVIOUS
<1> HIDE DEF n, t
<1>2. PICK i \in 1 .. n, j \in 1 .. n : i < j /\ q[i] = g /\ q[j] = f
  BY <1>1 DEF Before
<1>3. ASSUME g # Head(q) PROVE Before(t, g, f)
  <2>1. i # 1
    BY <1>1, <1>2, <1>3
  <2>2. i - 1 \in 1 .. n - 1 /\ j - 1 \in 1 .. n - 1 /\ i - 1 < j - 1
    BY <1>1, <1>2, <2>1
  <2>3. (i - 1) + 1 = i /\ (j - 1) + 1 = j
    BY <1>1
  <2>4. t[i - 1] = g /\ t[j - 1] = f
    BY <1>1, <1>2, <2>2, <2>3
  <2>5. QED BY <1>1, <2>2, <2>4 DEF Before
<1>4. ASSUME NoRepeat(q) PROVE f # Head(q)
  <2>1. j # 1 /\ 1 \in 1 .. n
    BY <1>1, <1>2
  <2>2. QED BY <1>1, <1>2, <1>4, <2>1 DEF NoRepeat
<1>5. QED BY <1>3, <1>4 DEF t

LEMMA BeforeAppend ==
    ASSUME NEW S, NEW q \in Seq(S), NEW x \in S
    PROVE  /\ \A g, f : Before(q, g, f) => Before(Append(q, x), g, f)
           /\ \A g \in Range(q) : Before(Append(q, x), g, x)
           /\ Range(q) \subseteq Range(Append(q, x)) /\ x \in Range(Append(q, x))
<1> DEFINE n == Len(q)
           r == Append(q, x)
<1>1. /\ n \in Nat /\ DOMAIN q = 1 .. n /\ DOMAIN r = 1 .. n + 1
      /\ \A i \in 1 .. n : r[i] = q[i]
      /\ r[n + 1] = x
  OBVIOUS
<1> HIDE DEF n, r
<1>2. n + 1 \in 1 .. n + 1 /\ \A i \in 1 .. n : i \in 1 .. n + 1 /\ i < n + 1
  BY <1>1
<1>3. \A g, f : Before(q, g, f) => Before(r, g, f)
  BY <1>1, <1>2 DEF Before
<1>4. \A g \in Range(q) : Before(r, g, x)
  BY <1>1, <1>2 DEF Before, Range
<1>5. Range(q) \subseteq Range(r) /\ x \in Range(r)
  BY <1>1, <1>2 DEF Range
<1>6. QED BY <1>3, <1>4, <1>5 DEF r

LEMMA BeforeInsert ==
    ASSUME NEW S, NEW s \in Seq(S), NEW x \in S, NEW n \in 0 .. Len(s)
    PROVE  /\ \A g, f : Before(s, g, f) => Before(InsertAt(s, n + 1, x), g, f)
           /\ \A i \in 1 .. n : Before(InsertAt(s, n + 1, x), s[i], x)
<1> DEFINE m == Len(s)
           t == InsertAt(s, n + 1, x)
           to(i) == IF i <= n THEN i ELSE i + 1
<1>1. /\ m \in Nat /\ n \in Nat /\ n <= m /\ DOMAIN s = 1 .. m /\ DOMAIN t = 1 .. m + 1
      /\ \A i \in 1 .. n : t[i] = s[i]
      /\ t[n + 1] = x
      /\ \A i \in n + 1 .. m : t[i + 1] = s[i]
  <2>1. n \in 0 .. Len(s)
    OBVIOUS
  <2>2. t \in Seq(S) /\ Len(t) = m + 1
    BY <2>1, Inserted
  <2>3. \A i \in 1 .. n : t[i] = s[i]
    BY <2>1, Inserted
  <2>4. t[n + 1] = x
    BY <2>1, Inserted
  <2>5. \A i \in n + 1 .. m : t[i + 1] = s[i]
    BY <2>1, Inserted
  <2> HIDE DEF t
  <2>6. m \in Nat /\ n \in Nat /\ n <= m /\ DOMAIN s = 1 .. m /\ DOMAIN t = 1 .. Len(t)
    BY <2>2
  <2>7. QED BY <2>6, <2>2, <2>3, <2>4, <2>5
<1> HIDE DEF m, t
<1>2. \A i \in 1 .. m : to(i) \in 1 .. m + 1 /\ t[to(i)] = s[i]
  <2> SUFFICES ASSUME NEW i \in 1 .. m PROVE to(i) \in 1 .. m + 1 /\ t[to(i)] = s[i]
    OBVIOUS
  <2>1. CASE i <= n
    BY <1>1, <2>1
  <2>2. CASE i > n
    <3>1. i \in n + 1 .. m /\ i + 1 \in 1 .. m + 1 /\ ~(i <= n)
      BY <1>1, <2>2
    <3>2. QED BY <1>1, <3>1
  <2>3. QED BY <1>1, <2>1, <2>2
<1>3. \A i, j \in 1 .. m : i < j => to(i) < to(j)
  BY <1>1
<1>4. n + 1 \in 1 .. m + 1 /\ \A i \in 1 .. n : i \in 1 .. m + 1 /\ i < n + 1
  BY <1>1
<1> HIDE DEF to
<1>5. \A g, f : Before(s, g, f) => Before(t, g, f)
  BY <1>1, <1>2, <1>3 DEF Before
<1>6. \A i \in 1 .. n : Before(t, s[i], x)
  BY <1>1, <1>4 DEF Before
<1>7. QED BY <1>5, <1>6 DEF t

\* The order of the fetches inside, by the queue they are in.
LEMMA AheadIs ==
    ASSUME completions \in Seq(Fetch), returnq \in Seq(Fetch), NEW g, NEW f
    PROVE  Ahead(g, f) <=> \/ Before(returnq, g, f)
                           \/ Before(completions, g, f)
                           \/ g \in Range(returnq) /\ f \in Range(completions)
<1>1. Ahead(g, f) <=> Before(returnq \o completions, g, f)
  BY DEF Ahead, Before, Outgoing
<1>2. QED BY <1>1, BeforeConcat

LEMMA AheadNext ==
    ASSUME completions' \in Seq(Fetch), returnq' \in Seq(Fetch), NEW g, NEW f,
           \/ Before(returnq', g, f)
           \/ Before(completions', g, f)
           \/ g \in Range(returnq') /\ f \in Range(completions')
    PROVE  Ahead(g, f)'
<1>1. Ahead(g, f)' <=> Before(returnq' \o completions', g, f)
  BY DEF Ahead, Before, Outgoing
<1>2. QED BY <1>1, BeforeConcat

\* What PushOrder says of a step, for two reads.
Behind(g, f) == ~Inside(f) /\ Inside(f)' => Ahead(g, f)'
Kept(g, f) == Ahead(g, f) => Inside(f)' /\ (Inside(g)' => Ahead(g, f)')

\* A read that is pushed is ready later than all reads in the heap, because its
\* transfer begins after theirs and takes a cycle at least.
LEMMA PushedLater ==
    ASSUME TypeOK, LinkCovers, Subpage >= Bandwidth,
           NEW f \in Fetch, Push(f), IsRead(f), NEW t \in Nat, t * Bandwidth >= linkFree',
           NEW g \in Fetch, IsRead(g), status[g] = "PENDING"
    PROVE  ready[g] < t
<1>1. /\ linkFree \in Nat /\ linkFree' \in Nat /\ linkFree' >= linkFree + Subpage
      /\ ready[g] \in Nat
  BY PushReserves DEF TypeOK
<1>2. ready[g] * Bandwidth < linkFree + Bandwidth
  BY DEF LinkCovers
<1> DEFINE after == t * Bandwidth
<1>3. after \in Nat /\ after >= linkFree'
  BY Constants
<1> HIDE DEF after
<1>4. after >= linkFree + Bandwidth
  BY <1>1, <1>3, Constants
<1>5. t * Bandwidth >= linkFree + Bandwidth
  BY <1>4 DEF after
<1>6. QED BY <1>1, <1>2, <1>5, CyclesOrder

LEMMA PushKeepsOrder ==
    ASSUME TypeOK, Heap, Ret, LinkCovers, Timed, Subpage >= Bandwidth, NEW x \in Fetch, Push(x),
           TypeOK', NEW f \in Fetch, NEW g \in Fetch, IsRead(f), IsRead(g), Inside(g)
    PROVE  Behind(g, f) /\ Kept(g, f)
<1>1. /\ status \in [Fetch -> {"NONE", "PENDING", "RETURNQ"}]
      /\ completions \in Seq(Fetch) /\ returnq \in Seq(Fetch)
      /\ completions' \in Seq(Fetch) /\ returnq' = returnq /\ returnq' \in Seq(Fetch)
      /\ status[x] = "NONE" /\ status' = [status EXCEPT ![x] = "PENDING"]
  BY DEF TypeOK, Push
<1>2. PICK t \in Nat : EnqueueCompletion(x, t) /\ (IsRead(x) => t * Bandwidth >= linkFree')
  BY PushReserves
<1>3. PICK n \in 0 .. Len(completions) :
        /\ completions' = InsertAt(completions, n + 1, x)
        /\ \A i \in 1 .. Len(completions) : ready[completions[i]] < t => i <= n
  BY <1>2, CompletionInserted
<1>4. /\ \A a, b : Before(completions, a, b) => Before(completions', a, b)
      /\ \A i \in 1 .. n : Before(completions', completions[i], x)
  BY <1>1, <1>3, BeforeInsert
<1>5. Range(completions') = Range(completions) \cup {x}
  <2>1. NoRepeat(completions) /\ x \notin Range(completions)
    BY <1>1 DEF Heap, Holds
  <2>2. QED BY <1>1, <1>3, <2>1, InsertedRange
<1>6. Kept(g, f)
  <2> SUFFICES ASSUME Ahead(g, f) PROVE Inside(f)' /\ Ahead(g, f)'
    BY DEF Kept
  <2>1. \/ Before(returnq, g, f)
        \/ Before(completions, g, f)
        \/ g \in Range(returnq) /\ f \in Range(completions)
    BY <1>1, AheadIs
  <2>2. status[f] # "NONE"
    BY <2>1, BeforeInside DEF Heap, Ret, Holds
  <2>3. Inside(f)'
    BY <1>1, <2>2 DEF Inside
  <2>4. \/ Before(returnq', g, f)
        \/ Before(completions', g, f)
        \/ g \in Range(returnq') /\ f \in Range(completions')
    BY <1>1, <1>4, <1>5, <2>1
  <2>5. Ahead(g, f)'
    BY <1>1, <2>4, AheadNext
  <2>6. QED BY <2>3, <2>5
<1>7. Behind(g, f)
  <2> SUFFICES ASSUME ~Inside(f), Inside(f)' PROVE Ahead(g, f)'
    BY DEF Behind
  <2>1. f = x
    BY <1>1 DEF Inside
  <2>2. CASE status[g] = "RETURNQ"
    <3>1. g \in Range(returnq') /\ f \in Range(completions')
      BY <1>1, <1>5, <2>1, <2>2 DEF Ret, Holds
    <3>2. QED BY <1>1, <3>1, AheadNext
  <2>3. CASE status[g] = "PENDING"
    <3>1. PICK i \in 1 .. Len(completions) : completions[i] = g
      BY <1>1, <2>3 DEF Heap, Holds, Range
    <3>2. ready[g] < t
      BY <1>2, <2>1, <2>3, PushedLater
    <3>3. i \in 1 .. n
      BY <1>3, <3>1, <3>2
    <3>4. Before(completions', g, f)
      BY <1>4, <2>1, <3>1, <3>3
    <3>5. QED BY <1>1, <3>4, AheadNext
  <2>4. QED BY <1>1, <2>2, <2>3 DEF Inside
<1>8. QED BY <1>6, <1>7

LEMMA PopKeepsOrder ==
    ASSUME TypeOK, Heap, Ret, PopReturn, TypeOK',
           NEW f \in Fetch, NEW g \in Fetch, Inside(g)
    PROVE  Behind(g, f) /\ Kept(g, f)
<1> DEFINE h == Head(returnq)
<1>1. /\ status \in [Fetch -> {"NONE", "PENDING", "RETURNQ"}]
      /\ completions \in Seq(Fetch) /\ returnq \in Seq(Fetch)
      /\ completions' = completions /\ returnq # <<>> /\ returnq' = Tail(returnq)
      /\ returnq' \in Seq(Fetch) /\ completions' \in Seq(Fetch)
      /\ status' = [status EXCEPT ![h] = "NONE"]
  BY DEF TypeOK, PopReturn
<1>2. h \in Fetch /\ status[h] = "RETURNQ"
  BY <1>1, HeadHeld DEF Ret
<1>3. NoRepeat(returnq) /\ Range(Tail(returnq)) = Range(returnq) \ {h}
  BY <1>1, TailRange DEF Ret, Holds
<1>4. Behind(g, f)
  BY <1>1, <1>2 DEF Behind, Inside
<1>5. Kept(g, f)
  <2> SUFFICES ASSUME Ahead(g, f) PROVE Inside(f)' /\ (Inside(g)' => Ahead(g, f)')
    BY DEF Kept
  <2>1. \/ Before(returnq, g, f)
        \/ Before(completions, g, f)
        \/ g \in Range(returnq) /\ f \in Range(completions)
    BY <1>1, AheadIs
  <2>2. f # h /\ status[f] # "NONE"
    <3>1. CASE Before(returnq, g, f)
      BY <1>1, <1>3, <3>1, BeforeTail, BeforeInside DEF Ret, Holds
    <3>2. CASE f \in Range(completions)
      BY <1>2, <3>2 DEF Heap, Holds
    <3>3. QED BY <2>1, <3>1, <3>2, BeforeInside
  <2>3. Inside(f)'
    BY <1>1, <2>2 DEF Inside
  <2>4. ASSUME Inside(g)' PROVE Ahead(g, f)'
    <3>1. g # h
      BY <1>1, <1>2, <2>4 DEF Inside
    <3>2. \/ Before(returnq', g, f)
          \/ Before(completions', g, f)
          \/ g \in Range(returnq') /\ f \in Range(completions')
      BY <1>1, <1>3, <2>1, <3>1, BeforeTail
    <3>3. QED BY <1>1, <3>2, AheadNext
  <2>5. QED BY <2>3, <2>4
<1>6. QED BY <1>4, <1>5

LEMMA CompleteKeepsOrder ==
    ASSUME TypeOK, Heap, Ret, CompleteOne, TypeOK',
           NEW f \in Fetch, NEW g \in Fetch, IsRead(f), IsRead(g), Inside(g)
    PROVE  Behind(g, f) /\ Kept(g, f)
<1> DEFINE h == Head(completions)
<1>1. /\ status \in [Fetch -> {"NONE", "PENDING", "RETURNQ"}]
      /\ completions \in Seq(Fetch) /\ returnq \in Seq(Fetch)
      /\ completions # <<>> /\ completions' = Tail(completions)
      /\ returnq' \in Seq(Fetch) /\ completions' \in Seq(Fetch)
      /\ IF IsWriteback(h)
         THEN status' = [status EXCEPT ![h] = "NONE"] /\ returnq' = returnq
         ELSE status' = [status EXCEPT ![h] = "RETURNQ"] /\ returnq' = Append(returnq, h)
  BY DEF TypeOK, CompleteOne, Completable
<1>2. h \in Fetch /\ status[h] = "PENDING"
  BY <1>1, HeadHeld DEF Heap
<1>3. NoRepeat(completions) /\ Range(Tail(completions)) = Range(completions) \ {h}
  BY <1>1, TailRange DEF Heap, Holds
\* Reads do not leave here.
<1>4. \A r \in {f, g} : status[r] # "NONE" <=> status'[r] # "NONE"
  BY <1>1, <1>2 DEF IsRead, IsWriteback
<1>5. Behind(g, f)
  BY <1>4 DEF Behind, Inside
<1>6. Kept(g, f)
  <2> SUFFICES ASSUME Ahead(g, f) PROVE Inside(f)' /\ Ahead(g, f)'
    BY DEF Kept
  <2>1. \/ Before(returnq, g, f)
        \/ Before(completions, g, f)
        \/ g \in Range(returnq) /\ f \in Range(completions)
    BY <1>1, AheadIs
  <2>2. Inside(f)'
    <3>1. status[f] # "NONE"
      BY <2>1, BeforeInside DEF Heap, Ret, Holds
    <3>2. QED BY <1>4, <3>1 DEF Inside
  <2>3. \/ Before(returnq', g, f)
        \/ Before(completions', g, f)
        \/ g \in Range(returnq') /\ f \in Range(completions')
    <3>1. CASE IsWriteback(h)
      <4>1. f # h /\ g # h
        BY <3>1 DEF IsRead, IsWriteback
      <4>2. QED BY <1>1, <1>3, <2>1, <3>1, <4>1, BeforeTail
    <3>2. CASE ~IsWriteback(h)
      <4>1. returnq' = Append(returnq, h)
        BY <1>1, <3>2
      <4>2. /\ \A a, b : Before(returnq, a, b) => Before(returnq', a, b)
            /\ \A a \in Range(returnq) : Before(returnq', a, h)
            /\ Range(returnq) \subseteq Range(returnq') /\ h \in Range(returnq')
        BY <1>1, <1>2, <4>1, BeforeAppend
      <4>3. CASE Before(returnq, g, f)
        BY <4>2, <4>3
      <4>4. CASE Before(completions, g, f)
        <5>1. f # h /\ f \in Range(completions) /\ (g # h => Before(Tail(completions), g, f))
          BY <1>1, <1>3, <4>4, BeforeTail, BeforeInside
        <5>2. QED BY <1>1, <1>3, <4>2, <5>1
      <4>5. CASE g \in Range(returnq) /\ f \in Range(completions)
        BY <1>1, <1>3, <4>2, <4>5
      <4>6. QED BY <2>1, <4>3, <4>4, <4>5
    <3>3. QED BY <3>1, <3>2
  <2>4. QED BY <1>1, <2>2, <2>3, AheadNext
<1>7. QED BY <1>5, <1>6

\* The reads leave in the order of their pushes, for any number of planes, any
\* latencies and any traffic of writes between them, if a transfer takes a cycle
\* at least: the link is reserved in push order, so a read is ready later than
\* those pushed before it and is put behind them in the heap.
THEOREM PushOrderCorrect == Spec => PushOrder
<1>1. TypeOK /\ Heap /\ Ret /\ LinkCovers /\ Timed /\ TypeOK' /\ [Next]_vars =>
        [Subpage >= Bandwidth =>
           \A f, g \in Fetch : IsRead(f) /\ IsRead(g) /\ Inside(g) =>
              /\ ~Inside(f) /\ Inside(f)' => Ahead(g, f)'
              /\ Ahead(g, f) => Inside(f)' /\ (Inside(g)' => Ahead(g, f)')]_vars
  <2> SUFFICES ASSUME TypeOK, Heap, Ret, LinkCovers, Timed, TypeOK', Next, Subpage >= Bandwidth,
                      NEW f \in Fetch, NEW g \in Fetch, IsRead(f), IsRead(g), Inside(g)
               PROVE  Behind(g, f) /\ Kept(g, f)
    BY DEF Behind, Kept
  <2>1. ASSUME NEW x \in Fetch, Push(x) PROVE Behind(g, f) /\ Kept(g, f)
    BY <2>1, PushKeepsOrder
  <2>2. CASE PopReturn
    BY <2>2, PopKeepsOrder
  <2>3. CASE CompleteOne
    BY <2>3, CompleteKeepsOrder
  <2>4. CASE CoreTick \/ DrainWrites \/ EndCycle
    <3>1. UNCHANGED <<status, completions, returnq>>
      BY <2>4 DEF CoreTick, DrainWrites, EndCycle
    <3>2. Ahead(g, f)' <=> Ahead(g, f)
      BY <3>1 DEF Ahead, Outgoing
    <3>3. Ahead(g, f) => Inside(f)
      BY AheadIs, BeforeInside DEF TypeOK, Heap, Ret, Holds, Inside
    <3>4. QED BY <3>1, <3>2, <3>3 DEF Behind, Kept, Inside
  <2>5. QED
    BY <2>1, <2>2, <2>3, <2>4 DEF Next, Cycle
<1>2. QED
  BY <1>1, TypeCorrect, PlacementCorrect, PlacesArePlacement, LinkCoversCorrect, TimedCorrect, PTL
  DEF Spec, PushOrder

-----------------------------------------------------------------------------
(* Refinement *)

LEMMA ServiceMove ==
    ASSUME TypeOK, NEW f \in Fetch, NEW from, NEW to,
           status[f] = from, status' = [status EXCEPT ![f] = to],
           \/ from = "NONE" /\ to = "PENDING"
           \/ from = "PENDING" /\ to = "RETURNQ" /\ ~IsWriteback(f)
           \/ from = "PENDING" /\ to = "NONE" /\ IsWriteback(f)
           \/ from = "RETURNQ" /\ to = "NONE"
    PROVE  [Service!Next]_ServiceState
<1> DEFINE abs(st) == CASE st = "NONE" -> "idle" [] st = "RETURNQ" -> "answered" [] OTHER -> "pending"
<1>1. status \in [Fetch -> {"NONE", "PENDING", "RETURNQ"}]
  BY DEF TypeOK
<1>2. ServiceState = [g \in Fetch |-> abs(status[g])] /\ ServiceState' = [g \in Fetch |-> abs(status'[g])]
  BY DEF ServiceState
<1>3. ServiceState[f] = abs(from) /\ ServiceState' = [ServiceState EXCEPT ![f] = abs(to)]
  BY <1>1, <1>2
<1>4. /\ abs("NONE") = "idle" /\ abs("PENDING") = "pending" /\ abs("RETURNQ") = "answered"
  OBVIOUS
<1>5. f \in {g \in Fetch : IsWriteback(g)} <=> IsWriteback(f)
  OBVIOUS
<1> HIDE DEF abs
<1>6. QED
  BY <1>3, <1>4, <1>5 DEF Service!Next, Service!Accept, Service!Answer, Service!Take,
     Service!Retire, Service!Move

\* The controller implements the abstract memory service: one answer for each
\* fetch, none for a writeback.
THEOREM Refinement == Spec => ImplementsService
<1>1. Init => Service!Init
  BY DEF Init, Service!Init, ServiceState
<1>2. TypeOK /\ Heap /\ Ret /\ [Next]_vars => [Service!Next]_ServiceState
  <2> SUFFICES ASSUME TypeOK, Heap, Ret, [Next]_vars PROVE [Service!Next]_ServiceState
    OBVIOUS
  <2>0. /\ completions \in Seq(Fetch) /\ returnq \in Seq(Fetch)
    BY DEF TypeOK
  <2>1. ASSUME NEW f \in Fetch, Push(f) PROVE [Service!Next]_ServiceState
    BY <2>1, ServiceMove DEF Push
  <2>2. CASE PopReturn
    <3> DEFINE f == Head(returnq)
    <3>1. f \in Fetch /\ status[f] = "RETURNQ"
      BY <2>0, <2>2, HeadHeld DEF PopReturn, Ret
    <3>2. status' = [status EXCEPT ![f] = "NONE"]
      BY <2>2 DEF PopReturn
    <3> HIDE DEF f
    <3>3. QED BY <3>1, <3>2, ServiceMove
  <2>3. CASE CompleteOne
    <3> DEFINE f == Head(completions)
    <3>1. f \in Fetch /\ status[f] = "PENDING"
      BY <2>0, <2>3, HeadHeld DEF CompleteOne, Completable, Heap
    <3>2. \/ IsWriteback(f) /\ status' = [status EXCEPT ![f] = "NONE"]
          \/ ~IsWriteback(f) /\ status' = [status EXCEPT ![f] = "RETURNQ"]
      BY <2>3 DEF CompleteOne
    <3> HIDE DEF f
    <3>3. QED BY <3>1, <3>2, ServiceMove
  <2>4. CASE CoreTick \/ DrainWrites \/ EndCycle \/ UNCHANGED vars
    BY <2>4 DEF CoreTick, DrainWrites, EndCycle, vars, flash, ServiceState
  <2>5. QED
    BY <2>1, <2>2, <2>3, <2>4 DEF Next, Cycle
<1>3. QED
  BY <1>1, <1>2, TypeCorrect, PlacementCorrect, PlacesArePlacement, PTL
  DEF Spec, ImplementsService, Service!Spec
=============================================================================
