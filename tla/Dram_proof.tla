------------------------------- MODULE Dram_proof -------------------------------
(***************************************************************************)
(* Proofs about Dram, for any number of banks and groups, every finite set *)
(* of fetches of any size, and every latency, delay and queue size.        *)
(***************************************************************************)
EXTENDS Dram, Queues_proof

-----------------------------------------------------------------------------
(* How often an object is in a sequence *)

Places(x, q) == {i \in DOMAIN q : q[i] = x}

\* The places are a finite set, and empty when the object is not there.
LEMMA OccursType ==
    ASSUME NEW S, NEW q \in Seq(S), NEW x
    PROVE  /\ IsFiniteSet(Places(x, q)) /\ Occurs(x, q) = Cardinality(Places(x, q))
           /\ Occurs(x, q) \in Nat
           /\ Occurs(x, q) = 0 <=> x \notin Range(q)
<1>0. DOMAIN q = 1 .. Len(q) /\ Len(q) \in Nat
  OBVIOUS
<1>1. IsFiniteSet(1 .. Len(q)) /\ Places(x, q) \subseteq 1 .. Len(q)
  BY <1>0, FS_Interval DEF Places
<1>2. IsFiniteSet(Places(x, q)) /\ Occurs(x, q) = Cardinality(Places(x, q))
  BY <1>1, FS_Subset DEF Places, Occurs
<1>3. Cardinality(Places(x, q)) \in Nat /\ (Cardinality(Places(x, q)) = 0 <=> Places(x, q) = {})
  BY <1>2, FS_CardinalityType, FS_EmptySet
<1>4. Places(x, q) = {} <=> x \notin Range(q)
  BY DEF Places, Range
<1>5. QED BY <1>2, <1>3, <1>4

\* Sequences that hold an object at the same places.
LEMMA OccursSame ==
    ASSUME NEW x, NEW q, NEW r, Places(x, q) = Places(x, r)
    PROVE  Occurs(x, q) = Occurs(x, r)
BY DEF Places, Occurs

\* One more place.
LEMMA OccursMore ==
    ASSUME NEW S, NEW q \in Seq(S), NEW r, NEW x, NEW i, i \notin Places(x, q),
           Places(x, r) = Places(x, q) \cup {i}
    PROVE  Occurs(x, r) = Occurs(x, q) + 1
<1>1. IsFiniteSet(Places(x, q)) /\ Occurs(x, q) = Cardinality(Places(x, q))
  BY OccursType
<1>2. Occurs(x, r) = Cardinality(Places(x, r))
  BY DEF Occurs, Places
<1>3. QED BY <1>1, <1>2, FS_AddElement

\* Taking the head, every other object moves up by one place.
LEMMA OccursTail ==
    ASSUME NEW S, NEW q \in Seq(S), q # <<>>, NEW x
    PROVE  Occurs(x, Tail(q)) = Occurs(x, q) - (IF x = Head(q) THEN 1 ELSE 0)
<1> DEFINE P == Places(x, q) \ {1}
           T == Places(x, Tail(q))
           up == [i \in P |-> i - 1]
<1>1. /\ DOMAIN q = 1 .. Len(q) /\ Len(q) \in Nat \ {0}
      /\ DOMAIN Tail(q) = 1 .. Len(q) - 1 /\ Head(q) = q[1]
      /\ \A i \in 1 .. Len(q) - 1 : Tail(q)[i] = q[i + 1]
  BY EmptyLength
<1>2. up \in Bijection(P, T)
  <2>1. \A i \in P : i - 1 \in T
    BY <1>1 DEF Places
  <2>2. \A i, j \in P : i - 1 = j - 1 => i = j
    BY <1>1 DEF Places
  <2>3. \A j \in T : j + 1 \in P /\ (j + 1) - 1 = j
    BY <1>1 DEF Places
  <2> HIDE DEF P, T
  <2>4. up \in [P -> T] /\ \A j \in T : \E i \in P : up[i] = j
    BY <2>1, <2>3
  <2>5. QED BY <2>2, <2>4 DEF Bijection, Injection, Surjection, IsInjective
<1>3. IsFiniteSet(Places(x, q)) /\ Occurs(x, q) = Cardinality(Places(x, q))
  BY OccursType
<1>4. Tail(q) \in Seq(S)
  BY <1>1, HeadTail
<1>5. IsFiniteSet(T) /\ Occurs(x, Tail(q)) = Cardinality(T)
  BY <1>4, OccursType
<1>6. IsFiniteSet(P)
  BY <1>3, FS_Subset
<1>7. Cardinality(P) = Cardinality(T)
  <2> HIDE DEF P, T, up
  <2>1. QED BY <1>2, <1>6, FS_Bijection DEF ExistsBijection
<1>8. CASE x = Head(q)
  <2>1. 1 \in Places(x, q)
    BY <1>1, <1>8 DEF Places
  <2>2. Cardinality(P) = Cardinality(Places(x, q)) - 1
    BY <1>3, <2>1, FS_RemoveElement
  <2>3. QED BY <1>3, <1>5, <1>7, <1>8, <2>2
<1>9. CASE x # Head(q)
  <2>1. P = Places(x, q)
    BY <1>1, <1>9 DEF Places
  <2>2. Cardinality(Places(x, q)) \in Nat
    BY <1>3, FS_CardinalityType
  <2> HIDE DEF P, T, up
  <2>3. QED BY <1>3, <1>5, <1>7, <1>9, <2>1, <2>2
<1>10. QED BY <1>8, <1>9

\* Without repetitions an object is there once or not at all.
LEMMA OccursOnce ==
    ASSUME NEW S, NEW q \in Seq(S), NoRepeat(q), NEW x
    PROVE  Occurs(x, q) = IF x \in Range(q) THEN 1 ELSE 0
<1>1. CASE x \in Range(q)
  <2>1. PICK i \in DOMAIN q : q[i] = x
    BY <1>1 DEF Range
  <2>2. Places(x, q) = {i}
    BY <2>1 DEF Places, NoRepeat
  <2>3. QED BY <1>1, <2>2, OccursType, FS_Singleton
<1>2. CASE x \notin Range(q)
  BY <1>2, OccursType
<1>3. QED BY <1>1, <1>2

\* A sequence without one of its elements.
LEMMA RemovedAt ==
    ASSUME NEW S, NEW q \in Seq(S), NEW m \in 1 .. Len(q)
    PROVE  /\ RemoveAt(q, m) \in Seq(S) /\ Len(RemoveAt(q, m)) = Len(q) - 1
           /\ \A j \in 1 .. m - 1 : RemoveAt(q, m)[j] = q[j]
           /\ \A j \in m .. Len(q) - 1 : RemoveAt(q, m)[j] = q[j + 1]
<1> DEFINE r == RemoveAt(q, m)
           a == SubSeq(q, 1, m - 1)
           c == SubSeq(q, m + 1, Len(q))
<1>0. m \in 1 .. Len(q) /\ Len(q) \in Nat
  OBVIOUS
<1>1. a \in Seq(S) /\ Len(a) = m - 1 /\ \A j \in 1 .. m - 1 : a[j] = q[j]
  BY <1>0
<1>2. c \in Seq(S) /\ Len(c) = Len(q) - m /\ \A j \in 1 .. Len(q) - m : c[j] = q[m + j]
  BY <1>0
<1>3. r = a \o c
  BY DEF RemoveAt
<1> HIDE DEF a, c, r
<1>4. r \in Seq(S) /\ Len(r) = Len(q) - 1
  BY <1>0, <1>1, <1>2, <1>3
<1>5. \A j \in 1 .. m - 1 : r[j] = q[j]
  BY <1>0, <1>1, <1>2, <1>3
<1>6. \A k \in 1 .. Len(q) - m : r[(m - 1) + k] = c[k]
  BY <1>1, <1>2, <1>3
<1>7. ASSUME NEW j \in m .. Len(q) - 1 PROVE r[j] = q[j + 1]
  <2> DEFINE k == j - (m - 1)
  <2>1. k \in 1 .. Len(q) - m /\ (m - 1) + k = j /\ m + k = j + 1
    BY <1>0
  <2> HIDE DEF k
  <2>2. QED BY <1>2, <1>6, <2>1
<1>8. QED BY <1>4, <1>5, <1>7 DEF r

\* Without repetitions it holds all the others.
LEMMA RemovedRange ==
    ASSUME NEW S, NEW q \in Seq(S), NoRepeat(q), NEW m \in 1 .. Len(q)
    PROVE  /\ RemoveAt(q, m) \in Seq(S) /\ NoRepeat(RemoveAt(q, m))
           /\ Range(RemoveAt(q, m)) = Range(q) \ {q[m]}
<1> DEFINE r == RemoveAt(q, m)
           at(j) == IF j < m THEN j ELSE j + 1
<1>0. /\ r \in Seq(S) /\ Len(r) = Len(q) - 1
      /\ \A j \in 1 .. m - 1 : r[j] = q[j]
      /\ \A j \in m .. Len(q) - 1 : r[j] = q[j + 1]
  BY RemovedAt
<1> HIDE DEF r
<1>1. /\ DOMAIN q = 1 .. Len(q) /\ Len(q) \in Nat /\ DOMAIN r = 1 .. Len(q) - 1
      /\ r \in Seq(S) /\ m \in Nat
  BY <1>0
<1>9. ASSUME NEW j \in DOMAIN r PROVE r[j] = q[at(j)]
  <2>1. CASE j < m
    <3>1. j \in 1 .. m - 1
      BY <1>1, <2>1
    <3>2. QED BY <1>0, <2>1, <3>1
  <2>2. CASE ~(j < m)
    <3>1. j \in m .. Len(q) - 1
      BY <1>1, <2>2
    <3>2. QED BY <1>0, <2>2, <3>1
  <2>3. QED BY <2>1, <2>2
<1>2. \A j \in DOMAIN r : at(j) \in DOMAIN q /\ at(j) # m
  BY <1>1
<1>3. \A j, k \in DOMAIN r : at(j) = at(k) => j = k
  BY <1>1
<1>4. \A i \in DOMAIN q : i # m => \E j \in DOMAIN r : at(j) = i
  <2> SUFFICES ASSUME NEW i \in DOMAIN q, i # m PROVE \E j \in DOMAIN r : at(j) = i
    OBVIOUS
  <2>1. CASE i < m
    <3>1. i \in DOMAIN r /\ at(i) = i
      BY <1>1, <2>1
    <3>2. QED BY <3>1
  <2>2. CASE i > m
    <3>1. i - 1 \in DOMAIN r /\ at(i - 1) = i
      BY <1>1, <2>2
    <3>2. QED BY <3>1
  <2>3. QED BY <1>1, <2>1, <2>2
<1> HIDE DEF at
<1>5. NoRepeat(r)
  BY <1>9, <1>2, <1>3 DEF NoRepeat
<1>6. ASSUME NEW x \in Range(r) PROVE x \in Range(q) \ {q[m]}
  BY <1>9, <1>2, <1>6 DEF Range, NoRepeat
<1>7. ASSUME NEW x \in Range(q) \ {q[m]} PROVE x \in Range(r)
  <2>1. PICK i \in DOMAIN q : q[i] = x
    BY <1>7 DEF Range
  <2>2. PICK j \in DOMAIN r : at(j) = i
    BY <1>4, <1>7, <2>1
  <2>3. QED BY <1>9, <2>1, <2>2 DEF Range
<1>10. QED BY <1>1, <1>5, <1>6, <1>7 DEF r

-----------------------------------------------------------------------------
(* The pipeline of the data bus *)

Slot == Fetch \cup {None}

LEMMA NoneIsNoFetch == None \notin Fetch /\ None \notin Row
BY DramAssumption

\* A bubble at the end holds no fetch.
LEMMA BubbleAdded ==
    ASSUME NEW q \in Seq(Slot)
    PROVE  /\ Append(q, None) \in Seq(Slot) /\ Len(Append(q, None)) = Len(q) + 1
           /\ \A f \in Fetch : Occurs(f, Append(q, None)) = Occurs(f, q)
<1>1. Append(q, None) \in Seq(Slot) /\ Len(Append(q, None)) = Len(q) + 1
  BY AppendType DEF Slot
<1>2. ASSUME NEW f \in Fetch PROVE Places(f, Append(q, None)) = Places(f, q)
  BY NoneIsNoFetch DEF Places
<1>3. QED BY <1>1, <1>2, OccursSame

\* pop() takes the head and nothing else, and keeps the minimum length.
LEMMA Popped ==
    ASSUME NEW q \in Seq(Slot), q # <<>>, NEW min \in Nat, Len(q) >= min,
           NEW r, r = Pipe!Pop(q, min)
    PROVE  /\ r \in Seq(Slot) /\ Len(r) >= min
           /\ \A f \in Fetch : Occurs(f, r) = Occurs(f, q) - (IF f = Head(q) THEN 1 ELSE 0)
<1>1. Tail(q) \in Seq(Slot) /\ Len(Tail(q)) = Len(q) - 1 /\ Len(q) \in Nat
  BY HeadTail
<1>2. \A f \in Fetch : Occurs(f, Tail(q)) = Occurs(f, q) - (IF f = Head(q) THEN 1 ELSE 0)
  BY OccursTail
<1>3. CASE Len(q) <= min
  <2>1. r = Append(Tail(q), None)
    BY <1>3 DEF Pipe!Pop
  <2>2. r \in Seq(Slot) /\ Len(r) = Len(Tail(q)) + 1
    BY <1>1, <2>1, BubbleAdded
  <2>3. \A f \in Fetch : Occurs(f, r) = Occurs(f, Tail(q))
    BY <1>1, <2>1, BubbleAdded
  <2>4. QED BY <1>1, <1>2, <2>2, <2>3
<1>4. CASE ~(Len(q) <= min)
  <2>1. r = Tail(q)
    BY <1>4 DEF Pipe!Pop
  <2>2. QED BY <1>1, <1>2, <1>4, <2>1
<1>5. QED BY <1>1, <1>3, <1>4

\* After the last object there are only bubbles.
LEMMA LastObjectIs ==
    ASSUME NEW q \in Seq(Slot)
    PROVE  /\ Pipe!LastObject(q) \in 0 .. Len(q)
           /\ \A i \in Pipe!LastObject(q) + 1 .. Len(q) : q[i] = None
<1> DEFINE after(n) == \A i \in n + 1 .. Len(q) : q[i] = None
           T == {n \in 0 .. Len(q) : after(n)}
<1>1. Len(q) \in Nat /\ Len(q) \in T
  OBVIOUS
<1>2. PICK n \in T : \A k \in T : n <= k
  <2> HIDE DEF T
  <2>1. T \subseteq Nat
    BY <1>1 DEF T
  <2>2. QED BY <1>1, <2>1, LeastOfNats
<1>3. n > 0 => q[n] # None
  <2> SUFFICES ASSUME n > 0, q[n] = None PROVE FALSE
    OBVIOUS
  <2>1. n - 1 \in 0 .. Len(q) /\ n \in 0 .. Len(q) /\ after(n)
    BY <1>1
  <2>2. \A i \in (n - 1) + 1 .. Len(q) : i = n \/ i \in n + 1 .. Len(q)
    BY <1>1, <2>1
  <2>3. n - 1 \in T
    BY <2>1, <2>2
  <2> HIDE DEF T
  <2>4. n <= n - 1
    BY <1>2, <2>3
  <2>5. QED BY <2>1, <2>4
<1>4. \E k \in 0 .. Len(q) : (k > 0 => q[k] # None) /\ after(k)
  BY <1>2, <1>3
<1>5. Pipe!LastObject(q) = CHOOSE k \in 0 .. Len(q) : (k > 0 => q[k] # None) /\ after(k)
  BY DEF Pipe!LastObject
<1> HIDE DEF after
<1>6. Pipe!LastObject(q) \in 0 .. Len(q) /\ after(Pipe!LastObject(q))
  BY <1>4, <1>5
<1>7. QED BY <1>6 DEF after

\* set_min_length() moves no object, and leaves the new minimum length.
LEMMA Relength ==
    ASSUME NEW q \in Seq(Slot), NEW min \in Nat, NEW new \in Nat, Len(q) >= min
    PROVE  /\ Pipe!SetMinLength(q, min, new) \in Seq(Slot)
           /\ Len(Pipe!SetMinLength(q, min, new)) >= new
           /\ \A f \in Fetch : Places(f, Pipe!SetMinLength(q, min, new)) = Places(f, q)
<1> DEFINE r == Pipe!SetMinLength(q, min, new)
           last == Pipe!LastObject(q)
           keep == IF last > new THEN last ELSE new
<1>0. Len(q) \in Nat /\ DOMAIN q = 1 .. Len(q)
  OBVIOUS
<1>1. CASE new >= min /\ Len(q) < new
  <2> DEFINE pad == Pipe!Padding(new - Len(q))
  <2>1. new - Len(q) \in Nat
    BY <1>0, <1>1
  <2>2. pad \in Seq(Slot) /\ Len(pad) = new - Len(q) /\ \A i \in 1 .. new - Len(q) : pad[i] = None
    BY <2>1 DEF Pipe!Padding, Slot
  <2>3. r = q \o pad
    BY <1>1 DEF Pipe!SetMinLength
  <2> HIDE DEF pad, r
  <2>4. /\ r \in Seq(Slot) /\ Len(r) = new
        /\ \A i \in 1 .. Len(q) : r[i] = q[i]
        /\ \A i \in 1 .. new - Len(q) : r[Len(q) + i] = None
    BY <1>0, <2>1, <2>2, <2>3
  <2>5. ASSUME NEW f \in Fetch PROVE Places(f, r) = Places(f, q)
    <3>1. ASSUME NEW i \in DOMAIN r, r[i] = f PROVE i \in 1 .. Len(q)
      <4> SUFFICES ASSUME i > Len(q) PROVE FALSE
        BY <1>0, <2>4
      <4>1. i - Len(q) \in 1 .. new - Len(q) /\ Len(q) + (i - Len(q)) = i
        BY <1>0, <2>4
      <4>2. r[i] = None
        BY <2>4, <4>1
      <4>3. QED BY <3>1, <4>2, NoneIsNoFetch
    <3>2. 1 .. Len(q) \subseteq DOMAIN r
      BY <1>0, <1>1, <2>4
    <3>3. QED BY <1>0, <2>4, <3>1, <3>2 DEF Places
  <2>6. QED BY <2>4, <2>5 DEF r
<1>2. CASE ~(new >= min) /\ Len(q) > keep
  <2>1. last \in 0 .. Len(q) /\ \A i \in last + 1 .. Len(q) : q[i] = None
    BY LastObjectIs
  <2>2. keep \in Nat /\ keep >= new /\ keep >= last /\ keep < Len(q)
    BY <1>0, <1>2, <2>1
  <2>3. r = SubSeq(q, 1, keep)
    BY <1>2 DEF Pipe!SetMinLength
  <2> HIDE DEF r, last, keep
  <2>4. r \in Seq(Slot) /\ Len(r) = keep /\ \A i \in 1 .. keep : r[i] = q[i]
    BY <1>0, <2>2, <2>3
  <2>5. ASSUME NEW f \in Fetch PROVE Places(f, r) = Places(f, q)
    <3>1. ASSUME NEW i \in DOMAIN q, q[i] = f PROVE i \in 1 .. keep
      <4> SUFFICES ASSUME i > keep PROVE FALSE
        BY <1>0, <2>2
      <4>1. i \in last + 1 .. Len(q)
        BY <1>0, <2>1, <2>2
      <4>2. QED BY <2>1, <3>1, <4>1, NoneIsNoFetch
    <3>2. 1 .. keep \subseteq DOMAIN q /\ DOMAIN r = 1 .. keep
      BY <1>0, <2>2, <2>4
    <3>3. QED BY <2>4, <3>1, <3>2 DEF Places
  <2>6. QED BY <2>2, <2>4, <2>5 DEF r
<1>3. CASE ~(new >= min /\ Len(q) < new) /\ ~(~(new >= min) /\ Len(q) > keep)
  <2>1. r = q
    BY <1>3 DEF Pipe!SetMinLength
  <2>2. QED BY <1>0, <1>3, <2>1
<1>4. QED BY <1>1, <1>2, <1>3

\* push() puts the object where no other is, no sooner than the minimum length.
LEMMA Sent ==
    ASSUME NEW q \in Seq(Slot), NEW min \in Nat, Len(q) >= min, NEW f \in Fetch
    PROVE  /\ Pipe!Push(q, min, f) \in Seq(Slot) /\ Len(Pipe!Push(q, min, f)) >= min
           /\ \E i \in DOMAIN Pipe!Push(q, min, f) :
                 /\ i >= min /\ i \notin Places(f, q)
                 /\ Places(f, Pipe!Push(q, min, f)) = Places(f, q) \cup {i}
           /\ \A g \in Fetch : g # f => Places(g, Pipe!Push(q, min, f)) = Places(g, q)
<1> DEFINE r == Pipe!Push(q, min, f)
<1>0. Len(q) \in Nat /\ DOMAIN q = 1 .. Len(q) /\ f \in Slot
  BY DEF Slot
<1>1. CASE q # <<>> /\ q[Len(q)] = None
  <2> DEFINE i == Len(q)
  <2>1. r = [q EXCEPT ![i] = f]
    BY <1>0, <1>1 DEF Pipe!Push
  <2>2. i \in DOMAIN q
    BY <1>0, <1>1, EmptyLength
  <2> HIDE DEF r, i
  <2>3. /\ r \in Seq(Slot) /\ Len(r) = Len(q) /\ DOMAIN r = DOMAIN q
        /\ r[i] = f /\ \A j \in DOMAIN q : j # i => r[j] = q[j]
    BY <1>0, <2>1, <2>2
  <2>4. q[i] = None
    BY <1>1 DEF i
  <2>5. i \notin Places(f, q) /\ Places(f, r) = Places(f, q) \cup {i}
    BY <2>2, <2>3, <2>4, NoneIsNoFetch DEF Places
  <2>6. ASSUME NEW g \in Fetch, g # f PROVE Places(g, r) = Places(g, q)
    BY <2>2, <2>3, <2>4, <2>6, NoneIsNoFetch DEF Places
  <2>7. i >= min
    BY DEF i
  <2>8. QED BY <2>2, <2>3, <2>5, <2>6, <2>7 DEF r
<1>2. CASE ~(q # <<>> /\ q[Len(q)] = None)
  <2> DEFINE i == Len(q) + 1
  <2>1. r = Append(q, f)
    BY <1>2 DEF Pipe!Push
  <2> HIDE DEF r
  <2>2. /\ r \in Seq(Slot) /\ Len(r) = i /\ DOMAIN r = 1 .. i
        /\ r[i] = f /\ \A j \in DOMAIN q : r[j] = q[j]
    BY <1>0, <2>1
  <2>3. /\ i \notin DOMAIN q /\ i \in DOMAIN r /\ DOMAIN r = DOMAIN q \cup {i}
        /\ i >= min
    BY <1>0, <2>2
  <2> HIDE DEF i
  <2>4. i \notin Places(f, q) /\ Places(f, r) = Places(f, q) \cup {i}
    BY <2>2, <2>3 DEF Places
  <2>5. ASSUME NEW g \in Fetch, g # f PROVE Places(g, r) = Places(g, q)
    BY <2>2, <2>3, <2>5 DEF Places
  <2>6. QED BY <2>2, <2>3, <2>4, <2>5 DEF r
<1>3. QED BY <1>1, <1>2

-----------------------------------------------------------------------------
(* Where the fetches are *)

\* The places of a fetch.  A fetch whose last atom has been sent and has not
\* arrived, or that was deleted, is nowhere.
Where == {"none", "mrqq", "queue", "bank", "returnq"}

\* The fetches of a queue of the scheduler.
Of(c, b) == {f \in Fetch : ClassOf(f) = c /\ bankOf[f] = b}

QueuesHold(q, w) == \A c \in Class, b \in Bank : Holds(Of(c, b), q[c][b], w, "queue")
BanksHold(m, w) ==
    /\ \A b \in Bank : m[b] # None => m[b] \in Fetch /\ bankOf[m[b]] = b
    /\ \A f \in Fetch : w[f] = "bank" <=> m[bankOf[f]] = f

\* Each fetch is where w says, once, and nowhere else.
Placed(w) ==
    /\ Holds(Fetch, mrqq, w, "mrqq")
    /\ QueuesHold(queue, w)
    /\ BanksHold(mrq, w)
    /\ Holds(Fetch, returnq, w, "returnq")

\* The constants, one by one.
LEMMA Constants ==
    /\ IsFiniteSet(Fetch) /\ NBank \in Nat \ {0}
    /\ bankOf \in [Fetch -> Bank] /\ rowOf \in [Fetch -> Nat] /\ atomsOf \in [Fetch -> Nat \ {0}]
    /\ CL \in Nat \ {0} /\ WL \in Nat \ {0} /\ SchedQ \in Nat \ {0} /\ WriteQ \in Nat \ {0}
    /\ WL <= CL
    /\ \A f \in Fetch : rowOf[f] \in Row
BY DramAssumption DEF Row

LEMMA ClassOfType == \A f \in Fetch : ClassOf(f) \in Class /\ f \in Of(ClassOf(f), bankOf[f])
BY DEF ClassOf, Class, Of

\* A fetch that moves between two other places leaves the queues as they are.
LEMMA QueuesStay ==
    ASSUME NEW w \in [Fetch -> Where], NEW q, QueuesHold(q, w), NEW f \in Fetch, w[f] # "queue",
           NEW new \in Where, new # "queue"
    PROVE  QueuesHold(q, [w EXCEPT ![f] = new])
<1> SUFFICES ASSUME NEW c \in Class, NEW b \in Bank
             PROVE  Holds(Of(c, b), q[c][b], [w EXCEPT ![f] = new], "queue")
  BY DEF QueuesHold
<1>1. Holds(Of(c, b), q[c][b], w, "queue") /\ Of(c, b) \subseteq Fetch
  BY DEF QueuesHold, Of
<1>2. {x \in Of(c, b) : [w EXCEPT ![f] = new][x] = "queue"} = {x \in Of(c, b) : w[x] = "queue"}
  BY <1>1
<1>3. QED BY <1>1, <1>2 DEF Holds

\* One queue is exchanged for another, and one fetch enters or leaves it.
LEMMA QueuesMove ==
    ASSUME NEW w \in [Fetch -> Where], NEW q \in [Class -> [Bank -> Seq(Fetch)]],
           QueuesHold(q, w), NEW f \in Fetch, NEW new \in Where,
           NEW c \in Class, NEW b \in Bank, f \in Of(c, b),
           NEW s \in Seq(Fetch), Holds(Of(c, b), s, [w EXCEPT ![f] = new], "queue")
    PROVE  /\ QueuesHold([q EXCEPT ![c][b] = s], [w EXCEPT ![f] = new])
           /\ [q EXCEPT ![c][b] = s] \in [Class -> [Bank -> Seq(Fetch)]]
<1> DEFINE r == [q EXCEPT ![c][b] = s]
           v == [w EXCEPT ![f] = new]
<1>1. /\ r \in [Class -> [Bank -> Seq(Fetch)]]
      /\ r[c][b] = s
      /\ \A d \in Class, e \in Bank : d # c \/ e # b => r[d][e] = q[d][e]
  OBVIOUS
<1>2. \A x \in Fetch : x # f => v[x] = w[x]
  OBVIOUS
<1> HIDE DEF r, v
<1>3. ASSUME NEW d \in Class, NEW e \in Bank PROVE Holds(Of(d, e), r[d][e], v, "queue")
  <2>1. CASE d = c /\ e = b
    BY <1>1, <2>1 DEF v
  <2>2. CASE d # c \/ e # b
    <3>1. Holds(Of(d, e), q[d][e], w, "queue") /\ r[d][e] = q[d][e]
      BY <1>1, <2>2 DEF QueuesHold
    <3>2. \A x \in Of(d, e) : x \in Fetch /\ x # f
      BY <2>2 DEF Of
    <3>3. {x \in Of(d, e) : v[x] = "queue"} = {x \in Of(d, e) : w[x] = "queue"}
      BY <1>2, <3>2
    <3>4. QED BY <3>1, <3>3 DEF Holds
  <2>3. QED BY <2>1, <2>2
<1>4. QED BY <1>1, <1>3 DEF QueuesHold, r, v

\* A fetch that moves between two other places leaves the banks as they are.
LEMMA BanksStay ==
    ASSUME NEW w \in [Fetch -> Where], NEW m, BanksHold(m, w), NEW f \in Fetch, w[f] # "bank",
           NEW new \in Where, new # "bank"
    PROVE  BanksHold(m, [w EXCEPT ![f] = new])
BY DEF BanksHold

\* A free bank takes a request of its own.
LEMMA BankTakes ==
    ASSUME NEW w \in [Fetch -> Where], NEW m \in [Bank -> Fetch \cup {None}], BanksHold(m, w),
           NEW f \in Fetch, m[bankOf[f]] = None
    PROVE  /\ BanksHold([m EXCEPT ![bankOf[f]] = f], [w EXCEPT ![f] = "bank"])
           /\ [m EXCEPT ![bankOf[f]] = f] \in [Bank -> Fetch \cup {None}]
<1>1. bankOf \in [Fetch -> Bank] /\ None \notin Fetch
  BY Constants, NoneIsNoFetch
<1>2. \A x \in Fetch : x # f => (w[x] = "bank" => bankOf[x] # bankOf[f])
  BY <1>1 DEF BanksHold
<1>3. QED BY <1>1, <1>2 DEF BanksHold

\* The bank is done with its request.
LEMMA BankDone ==
    ASSUME NEW w \in [Fetch -> Where], NEW m \in [Bank -> Fetch \cup {None}], BanksHold(m, w),
           NEW b \in Bank, m[b] # None
    PROVE  /\ m[b] \in Fetch /\ w[m[b]] = "bank" /\ bankOf[m[b]] = b
           /\ BanksHold([m EXCEPT ![b] = None], [w EXCEPT ![m[b]] = "none"])
           /\ [m EXCEPT ![b] = None] \in [Bank -> Fetch \cup {None}]
<1>1. bankOf \in [Fetch -> Bank] /\ None \notin Fetch
  BY Constants, NoneIsNoFetch
<1>2. m[b] \in Fetch /\ bankOf[m[b]] = b /\ w[m[b]] = "bank"
  BY <1>1 DEF BanksHold
<1>3. \A x \in Fetch : x # m[b] => (w[x] = "bank" => bankOf[x] # b)
  BY <1>1 DEF BanksHold
<1>4. QED BY <1>1, <1>2, <1>3 DEF BanksHold

-----------------------------------------------------------------------------
(* The inductive invariant *)

Types ==
    /\ config \in Configs
    /\ mrqq \in Seq(Fetch) /\ returnq \in Seq(Fetch)
    /\ queue \in [Class -> [Bank -> Seq(Fetch)]]
    /\ lastRow \in [Class -> [Bank -> Row \cup {None}]]
    /\ pending \in [Class -> Nat]
    /\ mode \in Class
    /\ mrq \in [Bank -> Fetch \cup {None}]
    /\ open \in [Bank -> BOOLEAN] /\ row \in [Bank -> Nat]
    /\ tx \in [Fetch -> Nat] /\ dq \in [Fetch -> Nat]
    /\ rwq \in Seq(Slot)
    /\ bus \in Class
    /\ prio \in Bank /\ turn.next \in Nat

\* How far a fetch is, by its place: t atoms were sent and d have arrived.
Counts(w, t, d) ==
    \A f \in Fetch :
        /\ d[f] <= t[f] /\ t[f] <= atomsOf[f]
        /\ w[f] \in {"mrqq", "queue"} => t[f] = 0
        /\ w[f] = "bank" => t[f] < atomsOf[f]
        /\ w[f] = "returnq" => d[f] = atomsOf[f]
        /\ w[f] = "none" => t[f] \in {0, atomsOf[f]}

\* While the data of a bank's request moves its row is open.
RowsOpen ==
    \A b \in Bank : mrq[b] # None /\ tx[mrq[b]] > 0 => open[b] /\ row[b] = rowOf[mrq[b]]

\* The pipeline holds the atoms under way and is as long as its direction asks.
BusInv ==
    /\ minLen = (IF bus = "write" THEN WL ELSE CL)
    /\ Len(rwq) >= minLen
    /\ \A f \in Fetch : Occurs(f, rwq) = tx[f] - dq[f]

\* The counters of the scheduler.
InQueues(w, c) == {f \in Fetch : w[f] = "queue" /\ ClassOf(f) = c}
Books(w) == \A c \in Class : pending[c] = Cardinality(InQueues(w, c))

\* A row that is being served has a request.
RowsHeld ==
    \A c \in Class, b \in Bank : lastRow[c][b] # None => InRow(queue[c][b], lastRow[c][b]) # {}

\* What full() lets in fits.
Room ==
    /\ ~config.frfcfs => Len(mrqq) <= MrqQ
    /\ config.frfcfs =>
         /\ \A c \in Class : pending[c] <= Limit[c]
         /\ mrqq # <<>> =>
              /\ Len(mrqq) = 1 /\ phase \in {"pop", "data", "schedule"}
              /\ pending[ClassOf(Head(mrqq))] < Limit[ClassOf(Head(mrqq))]

Inv(w) ==
    /\ Placed(w) /\ Counts(w, tx, dq) /\ RowsOpen /\ BusInv
    /\ Books(w) /\ RowsHeld /\ Room

\* A fetch moves to a place its atoms allow.
LEMMA CountsMove ==
    ASSUME NEW w \in [Fetch -> Where], NEW t, NEW d, Counts(w, t, d),
           NEW f \in Fetch, NEW new \in Where,
           new \in {"mrqq", "queue"} => t[f] = 0,
           new = "bank" => t[f] < atomsOf[f],
           new = "returnq" => d[f] = atomsOf[f],
           new = "none" => t[f] \in {0, atomsOf[f]}
    PROVE  Counts([w EXCEPT ![f] = new], t, d)
<1> SUFFICES ASSUME NEW x \in Fetch
             PROVE  /\ d[x] <= t[x] /\ t[x] <= atomsOf[x]
                    /\ [w EXCEPT ![f] = new][x] \in {"mrqq", "queue"} => t[x] = 0
                    /\ [w EXCEPT ![f] = new][x] = "bank" => t[x] < atomsOf[x]
                    /\ [w EXCEPT ![f] = new][x] = "returnq" => d[x] = atomsOf[x]
                    /\ [w EXCEPT ![f] = new][x] = "none" => t[x] \in {0, atomsOf[x]}
  BY DEF Counts
<1>1. CASE x = f
  <2>1. [w EXCEPT ![f] = new][x] = new
    BY <1>1
  <2>2. QED BY <1>1, <2>1 DEF Counts
<1>2. CASE x # f
  <2>1. [w EXCEPT ![f] = new][x] = w[x]
    BY <1>2
  <2>2. QED BY <2>1 DEF Counts
<1>3. QED BY <1>1, <1>2

\* The queues as sets.
LEMMA InQueuesFinite ==
    ASSUME NEW w, NEW c
    PROVE  IsFiniteSet(InQueues(w, c)) /\ Cardinality(InQueues(w, c)) \in Nat
<1>1. IsFiniteSet(Fetch) /\ InQueues(w, c) \in SUBSET Fetch
  BY Constants DEF InQueues
<1>2. QED BY <1>1, FS_Subset, FS_CardinalityType

LEMMA InQueuesMore ==
    ASSUME NEW w \in [Fetch -> Where], NEW f \in Fetch, w[f] # "queue", NEW c \in Class
    PROVE  Cardinality(InQueues([w EXCEPT ![f] = "queue"], c)) =
           Cardinality(InQueues(w, c)) + (IF c = ClassOf(f) THEN 1 ELSE 0)
<1> DEFINE v == [w EXCEPT ![f] = "queue"]
<1>1. IsFiniteSet(InQueues(w, c)) /\ Cardinality(InQueues(w, c)) \in Nat
  BY InQueuesFinite
<1>2. v[f] = "queue" /\ \A x \in Fetch : x # f => v[x] = w[x]
  OBVIOUS
<1> HIDE DEF v
<1>3. CASE c = ClassOf(f)
  <2>1. InQueues(v, c) = InQueues(w, c) \cup {f} /\ f \notin InQueues(w, c)
    BY <1>2, <1>3 DEF InQueues
  <2>2. QED BY <1>1, <1>3, <2>1, FS_AddElement DEF v
<1>4. CASE c # ClassOf(f)
  <2>1. InQueues(v, c) = InQueues(w, c)
    BY <1>2, <1>4 DEF InQueues
  <2>2. QED BY <1>1, <1>4, <2>1 DEF v
<1>5. QED BY <1>3, <1>4

LEMMA InQueuesLess ==
    ASSUME NEW w \in [Fetch -> Where], NEW f \in Fetch, w[f] = "queue", NEW new \in Where,
           new # "queue", NEW c \in Class
    PROVE  /\ Cardinality(InQueues(w, c)) =
              Cardinality(InQueues([w EXCEPT ![f] = new], c)) + (IF c = ClassOf(f) THEN 1 ELSE 0)
           /\ Cardinality(InQueues([w EXCEPT ![f] = new], c)) \in Nat
<1> DEFINE v == [w EXCEPT ![f] = new]
<1>1. v \in [Fetch -> Where] /\ v[f] # "queue" /\ [v EXCEPT ![f] = "queue"] = w
  OBVIOUS
<1> HIDE DEF v
<1>2. Cardinality(InQueues([v EXCEPT ![f] = "queue"], c)) =
      Cardinality(InQueues(v, c)) + (IF c = ClassOf(f) THEN 1 ELSE 0)
  BY <1>1, InQueuesMore
<1>3. Cardinality(InQueues(v, c)) \in Nat
  BY InQueuesFinite
<1>4. QED BY <1>1, <1>2, <1>3 DEF v

LEMMA InQueuesSame ==
    ASSUME NEW w \in [Fetch -> Where], NEW f \in Fetch, w[f] # "queue", NEW new \in Where,
           new # "queue", NEW c
    PROVE  Cardinality(InQueues([w EXCEPT ![f] = new], c)) = Cardinality(InQueues(w, c))
<1>1. InQueues([w EXCEPT ![f] = new], c) = InQueues(w, c)
  BY DEF InQueues
<1>2. QED BY <1>1

\* The options never change, nor does then the queue a fetch goes to.
LEMMA PlacedNext ==
    ASSUME UNCHANGED config, NEW v, Holds(Fetch, mrqq', v, "mrqq"), QueuesHold(queue', v),
           BanksHold(mrq', v), Holds(Fetch, returnq', v, "returnq")
    PROVE  Placed(v)'
<1>1. \A c, b : Of(c, b)' = Of(c, b)
  BY DEF Of, ClassOf
<1>2. QED BY <1>1 DEF Placed, QueuesHold, BanksHold, Holds

LEMMA BooksNext ==
    ASSUME UNCHANGED config, NEW v, \A c \in Class : pending'[c] = Cardinality(InQueues(v, c))
    PROVE  Books(v)'
<1>1. \A c : InQueues(v, c)' = InQueues(v, c)
  BY DEF InQueues, ClassOf
<1>2. QED BY <1>1 DEF Books

-----------------------------------------------------------------------------
(* Every step keeps it *)

\* What the memory partition sees of a fetch at place p.
StateOf(p, t, d) ==
    IF p = "none" /\ t = d THEN "idle" ELSE IF p = "returnq" THEN "answered" ELSE "pending"

\* What it may see a step do with a fetch.
Moves(f, s, t) ==
    \/ s = t
    \/ s = "idle" /\ t = "pending"
    \/ s = "pending" /\ t = "answered" /\ ~IsWriteback(f)
    \/ s = "pending" /\ t = "idle" /\ IsWriteback(f)
    \/ s = "answered" /\ t = "idle"

SameState(f, w, v) == StateOf(v[f], tx'[f], dq'[f]) = StateOf(w[f], tx[f], dq[f])

\* It sees nothing of the step, or one fetch move.
Moved(w, v) ==
    \/ \A g \in Fetch : SameState(g, w, v)
    \/ \E f \in Fetch : /\ Moves(f, StateOf(w[f], tx[f], dq[f]), StateOf(v[f], tx'[f], dq'[f]))
                        /\ \A g \in Fetch : g # f => SameState(g, w, v)

Kept(w) == Types' /\ \E v \in [Fetch -> Where] : Inv(v)' /\ Moved(w, v)

LEMMA MovedNot ==
    ASSUME NEW w, UNCHANGED <<tx, dq>>
    PROVE  Moved(w, w)
BY DEF Moved, SameState

LEMMA MovedOne ==
    ASSUME NEW w \in [Fetch -> Where], NEW f \in Fetch, NEW new \in Where,
           \A g \in Fetch : g # f => tx'[g] = tx[g] /\ dq'[g] = dq[g],
           Moves(f, StateOf(w[f], tx[f], dq[f]), StateOf(new, tx'[f], dq'[f]))
    PROVE  Moved(w, [w EXCEPT ![f] = new])
<1> DEFINE v == [w EXCEPT ![f] = new]
<1>1. v[f] = new /\ \A g \in Fetch : g # f => v[g] = w[g]
  OBVIOUS
<1> HIDE DEF v
<1>2. \A g \in Fetch : g # f => SameState(g, w, v)
  BY <1>1 DEF SameState
<1>3. Moved(w, v)
  BY <1>1, <1>2 DEF Moved
<1>4. QED BY <1>3 DEF v

\* A fetch that waits or is worked on is pending wherever it goes next.
LEMMA MovedPending ==
    ASSUME NEW w \in [Fetch -> Where], NEW f \in Fetch, NEW new \in Where,
           UNCHANGED <<tx, dq>>,
           w[f] \in {"mrqq", "queue", "bank"}, new \in {"mrqq", "queue", "bank"}
    PROVE  Moved(w, [w EXCEPT ![f] = new])
BY MovedOne DEF Moves, StateOf

LEMMA PopReplyKeeps ==
    ASSUME Types, NEW w \in [Fetch -> Where], Inv(w), NEW takes, PopReply(takes)
    PROVE  Kept(w)
<1>0. /\ UNCHANGED <<config, mrqq, queue, lastRow, pending, mode, mrq, open, row, tx, dq, rwq,
                     minLen, bus, prio, turn>>
      /\ phase = "pop" /\ phase' = "data"
  BY DEF PopReply, sched, banks, data
<1>1. RowsOpen' /\ BusInv' /\ RowsHeld' /\ Room'
  <2>1. RowsOpen'
    BY <1>0 DEF Inv, RowsOpen
  <2>2. BusInv'
    BY <1>0 DEF Inv, BusInv
  <2>3. RowsHeld'
    BY <1>0 DEF Inv, RowsHeld
  <2>4. Room'
    BY <1>0 DEF Inv, Room, ClassOf
  <2>5. QED BY <2>1, <2>2, <2>3, <2>4
<1>2. CASE takes /\ returnq # <<>>
  <2>1. PICK f : f = Head(returnq)
    OBVIOUS
  <2>2. /\ Tail(returnq) \in Seq(Fetch) /\ f \in Fetch /\ w[f] = "returnq"
        /\ Holds(Fetch, returnq, w, "returnq") /\ returnq' = Tail(returnq)
    BY <1>2, <2>1, HeadTail, HeadHeld DEF Inv, Placed, Types, PopReply
  <2> DEFINE v == [w EXCEPT ![f] = "none"]
  <2>3. v \in [Fetch -> Where] /\ "none" \in Where /\ "none" # "returnq"
    BY <2>2 DEF Where
  <2>4. Holds(Fetch, returnq', v, "returnq")
    BY <1>2, <2>1, <2>2, <2>3, Leaves DEF Types
  <2>5. Holds(Fetch, mrqq', v, "mrqq")
    BY <1>0, <2>2, <2>3, Stays DEF Inv, Placed
  <2>6. QueuesHold(queue', v)
    BY <1>0, <2>2, <2>3, QueuesStay DEF Inv, Placed
  <2>7. BanksHold(mrq', v)
    BY <1>0, <2>2, <2>3, BanksStay DEF Inv, Placed
  <2>8. Counts(v, tx, dq)
    <3>1. dq[f] = atomsOf[f] /\ dq[f] <= tx[f] /\ tx[f] <= atomsOf[f]
      BY <2>2 DEF Inv, Counts
    <3>2. tx[f] \in {0, atomsOf[f]}
      BY <2>2, <3>1, Constants DEF Types
    <3>3. QED BY <2>2, <2>3, <3>2, CountsMove DEF Inv
  <2>9. \A c \in Class : pending'[c] = Cardinality(InQueues(v, c))
    BY <1>0, <2>2, <2>3, InQueuesSame DEF Inv, Books
  <2> HIDE DEF v
  <2>10. Placed(v)' /\ Books(v)'
    BY <1>0, <2>4, <2>5, <2>6, <2>7, <2>9, PlacedNext, BooksNext
  <2>11. Counts(v, tx, dq)'
    BY <1>0, <2>8 DEF Counts
  <2>12. Types'
    BY <1>0, <2>2 DEF Types
  <2>13. Moved(w, v)
    <3>1. tx[f] = dq[f]
      BY <2>2, Constants DEF Inv, Counts, Types
    <3>2. Moves(f, StateOf(w[f], tx[f], dq[f]), StateOf("none", tx[f], dq[f]))
      BY <2>2, <3>1 DEF Moves, StateOf
    <3>3. QED BY <1>0, <2>2, <2>3, <3>2, MovedOne DEF v
  <2>14. QED BY <1>1, <2>3, <2>10, <2>11, <2>12, <2>13 DEF Kept, Inv
<1>3. CASE ~(takes /\ returnq # <<>>)
  <2>1. UNCHANGED returnq
    BY <1>3 DEF PopReply
  <2>2. Placed(w)' /\ Books(w)'
    BY <1>0, <2>1, PlacedNext, BooksNext DEF Inv, Placed, Books
  <2>3. Counts(w, tx, dq)'
    BY <1>0 DEF Counts, Inv
  <2>4. Types'
    BY <1>0, <2>1 DEF Types
  <2>5. QED BY <1>0, <1>1, <2>2, <2>3, <2>4, MovedNot DEF Kept, Inv
<1>4. QED BY <1>2, <1>3

\* A fetch that is not in the channel is nowhere, and has no atoms under way.
LEMMA NotPresent ==
    ASSUME Types, NEW w \in [Fetch -> Where], Inv(w), NEW f \in Fetch
    PROVE  /\ f \notin Present <=> w[f] = "none" /\ f \notin Range(rwq)
           /\ w[f] = "mrqq" <=> f \in Range(mrqq)
           /\ w[f] = "queue" <=> \E c \in Class, b \in Bank : f \in Range(queue[c][b])
           /\ w[f] = "bank" <=> f \in Range(mrq)
           /\ w[f] = "returnq" <=> f \in Range(returnq)
<1>1. bankOf[f] \in Bank /\ ClassOf(f) \in Class /\ f \in Of(ClassOf(f), bankOf[f]) /\ f # None
  BY Constants, ClassOfType, NoneIsNoFetch
<1>2. w[f] = "mrqq" <=> f \in Range(mrqq)
  BY DEF Inv, Placed, Holds
<1>3. w[f] = "returnq" <=> f \in Range(returnq)
  BY DEF Inv, Placed, Holds
<1>4. w[f] = "queue" <=> \E c \in Class, b \in Bank : f \in Range(queue[c][b])
  BY <1>1 DEF Inv, Placed, QueuesHold, Holds
<1>5. w[f] = "bank" <=> f \in Range(mrq)
  BY <1>1 DEF Inv, Placed, BanksHold, Range, Types
<1>6. w[f] \in Where
  OBVIOUS
<1>7. f \in Present <=> \/ f \in Range(mrqq) \/ \E c \in Class, b \in Bank : f \in Range(queue[c][b])
                        \/ f \in Range(mrq) \/ f \in Range(rwq) \/ f \in Range(returnq)
  BY <1>1 DEF Present, Queued, Moving
<1>8. QED BY <1>2, <1>3, <1>4, <1>5, <1>6, <1>7 DEF Where

LEMMA PushKeeps ==
    ASSUME Types, NEW w \in [Fetch -> Where], Inv(w), NEW f \in Fetch, Push(f)
    PROVE  Kept(w)
<1>0. /\ UNCHANGED <<config, queue, lastRow, pending, mode, mrq, open, row, rwq, minLen, bus,
                     returnq, prio, turn>>
      /\ phase = "push" /\ phase' = "pop" /\ ~Full(f)
      /\ mrqq' = Append(mrqq, f)
      /\ tx' = [tx EXCEPT ![f] = 0] /\ dq' = [dq EXCEPT ![f] = 0]
  BY DEF Push, banks
<1> DEFINE v == [w EXCEPT ![f] = "mrqq"]
<1>1. w[f] = "none" /\ f \notin Range(rwq)
  BY NotPresent DEF Push
<1>2. v \in [Fetch -> Where] /\ "mrqq" \in Where /\ v[f] = "mrqq"
  BY DEF Where
<1>3. Holds(Fetch, mrqq', v, "mrqq") /\ mrqq' \in Seq(Fetch) /\ Len(mrqq') = Len(mrqq) + 1
  BY <1>0, <1>1, Joins, AppendType DEF Inv, Placed, Types
<1>4. QueuesHold(queue', v)
  BY <1>0, <1>1, <1>2, QueuesStay DEF Inv, Placed
<1>5. BanksHold(mrq', v)
  BY <1>0, <1>1, <1>2, BanksStay DEF Inv, Placed
<1>6. Holds(Fetch, returnq', v, "returnq")
  BY <1>0, <1>1, <1>2, Stays DEF Inv, Placed
<1>7. \A c \in Class : pending'[c] = Cardinality(InQueues(v, c))
  <2>1. \A c : Cardinality(InQueues(v, c)) = Cardinality(InQueues(w, c))
    BY <1>1, <1>2, InQueuesSame
  <2>2. QED BY <1>0, <2>1 DEF Inv, Books
<1>8. Counts(v, tx', dq')
  <2> SUFFICES ASSUME NEW x \in Fetch
               PROVE  /\ dq'[x] <= tx'[x] /\ tx'[x] <= atomsOf[x]
                      /\ v[x] \in {"mrqq", "queue"} => tx'[x] = 0
                      /\ v[x] = "bank" => tx'[x] < atomsOf[x]
                      /\ v[x] = "returnq" => dq'[x] = atomsOf[x]
                      /\ v[x] = "none" => tx'[x] \in {0, atomsOf[x]}
    BY DEF Counts
  <2>1. CASE x = f
    <3>1. tx'[x] = 0 /\ dq'[x] = 0 /\ v[x] = "mrqq"
      BY <1>0, <1>2, <2>1 DEF Types
    <3>2. atomsOf[x] \in Nat
      BY Constants
    <3>3. QED BY <3>1, <3>2
  <2>2. CASE x # f
    <3>1. v[x] = w[x] /\ tx'[x] = tx[x] /\ dq'[x] = dq[x]
      BY <1>0, <2>2 DEF Types
    <3>2. QED BY <3>1 DEF Inv, Counts
  <2>3. QED BY <2>1, <2>2
<1>9. BusInv'
  <2>1. ASSUME NEW x \in Fetch PROVE Occurs(x, rwq) = tx'[x] - dq'[x]
    <3>1. CASE x = f
      BY <1>0, <1>1, <3>1, OccursType DEF Types
    <3>2. CASE x # f
      BY <1>0, <3>2 DEF Inv, BusInv, Types
    <3>3. QED BY <3>1, <3>2
  <2>2. QED BY <1>0, <2>1 DEF Inv, BusInv
<1>10. RowsOpen'
  BY <1>0 DEF Inv, RowsOpen, Types
<1>11. RowsHeld'
  BY <1>0 DEF Inv, RowsHeld
<1>12. Room'
  <2>1. CASE config.frfcfs
    <3>1. mrqq = <<>> /\ pending[ClassOf(f)] < Limit[ClassOf(f)]
      <4>1. mrqq = <<>>
        BY <1>0, <2>1 DEF Inv, Room
      <4>2. ~(pending[ClassOf(f)] >= Limit[ClassOf(f)])
        BY <1>0, <2>1 DEF Full
      <4>3. pending[ClassOf(f)] \in Nat /\ Limit[ClassOf(f)] \in Nat
        BY ClassOfType, Constants DEF Types, Limit, Class
      <4>4. QED BY <4>1, <4>2, <4>3
    <3>2. mrqq' = <<f>>
      BY <1>0, <3>1
    <3>3. Head(mrqq') = f /\ Len(mrqq') = 1
      BY <3>2
    <3>4. ClassOf(Head(mrqq))' = ClassOf(f)
      BY <1>0, <3>3 DEF ClassOf
    <3>5. QED BY <1>0, <2>1, <3>1, <3>3, <3>4 DEF Inv, Room, Limit
  <2>2. CASE ~config.frfcfs
    <3>1. Len(mrqq) \in Nat /\ ~(Len(mrqq) >= MrqQ)
      BY <1>0, <2>2 DEF Full, Types
    <3>2. QED BY <1>0, <1>3, <2>2, <3>1 DEF Room, MrqQ
  <2>3. QED BY <2>1, <2>2
<1>13. Types'
  BY <1>0, <1>3 DEF Types
<1> HIDE DEF v
<1>14. Placed(v)' /\ Books(v)'
  BY <1>0, <1>3, <1>4, <1>5, <1>6, <1>7, PlacedNext, BooksNext
<1>15. Counts(v, tx, dq)'
  BY <1>8 DEF Counts
<1>16. Moved(w, v)
  <2>1. Occurs(f, rwq) = 0 /\ tx[f] \in Nat /\ dq[f] \in Nat
    BY <1>1, OccursType DEF Types
  <2>2. tx[f] = dq[f]
    BY <2>1 DEF Inv, BusInv
  <2>3. Moves(f, StateOf(w[f], tx[f], dq[f]), StateOf("mrqq", tx'[f], dq'[f]))
    BY <1>1, <2>2 DEF Moves, StateOf
  <2>4. \A g \in Fetch : g # f => tx'[g] = tx[g] /\ dq'[g] = dq[g]
    BY <1>0 DEF Types
  <2>5. QED BY <1>2, <2>3, <2>4, MovedOne DEF v
<1>17. QED BY <1>2, <1>9, <1>10, <1>11, <1>12, <1>13, <1>14, <1>15, <1>16 DEF Kept, Inv

LEMMA DataBusKeeps ==
    ASSUME Types, NEW w \in [Fetch -> Where], Inv(w), DataBus
    PROVE  Kept(w)
<1>0. /\ UNCHANGED <<config, mrqq, queue, lastRow, pending, mode, mrq, open, row, tx, minLen,
                     bus, prio, turn>>
      /\ phase = "data" /\ phase' = "schedule"
  BY DEF DataBus, sched, banks
<1>1. RowsOpen' /\ RowsHeld' /\ Room'
  <2>1. RowsOpen'
    BY <1>0 DEF Inv, RowsOpen
  <2>2. RowsHeld'
    BY <1>0 DEF Inv, RowsHeld
  <2>3. Room'
    BY <1>0 DEF Inv, Room, ClassOf
  <2>4. QED BY <2>1, <2>2, <2>3
\* When the data of the channel stays ...
<1>2. ASSUME UNCHANGED <<returnq, dq>>, rwq' \in Seq(Slot), BusInv' PROVE Kept(w)
  <2>1. Placed(w)' /\ Books(w)'
    BY <1>0, <1>2, PlacedNext, BooksNext DEF Inv, Placed, Books
  <2>2. Counts(w, tx, dq)'
    BY <1>0, <1>2 DEF Counts, Inv
  <2>3. Types'
    BY <1>0, <1>2 DEF Types
  <2>4. QED BY <1>0, <1>1, <1>2, <2>1, <2>2, <2>3, MovedNot DEF Kept, Inv
<1>3. CASE ~(Len(returnq) < RetQ)
  <2>1. UNCHANGED <<rwq, dq, returnq>>
    BY <1>3 DEF DataBus
  <2>2. rwq' \in Seq(Slot) /\ BusInv'
    BY <1>0, <2>1 DEF Types, Inv, BusInv
  <2>3. QED BY <1>2, <2>1, <2>2
<1>4. CASE Len(returnq) < RetQ
  <2>1. minLen \in Nat \ {0} /\ Len(rwq) >= minLen /\ rwq \in Seq(Slot) /\ rwq # <<>>
    <3>1. minLen \in Nat \ {0} /\ Len(rwq) >= minLen /\ rwq \in Seq(Slot)
      BY Constants DEF Inv, BusInv, Types
    <3>2. QED BY <3>1
  <2>2. rwq' = Pipe!Pop(rwq, minLen)
    BY <1>4 DEF DataBus
  <2>3. /\ rwq' \in Seq(Slot) /\ Len(rwq') >= minLen
        /\ \A x \in Fetch : Occurs(x, rwq') = Occurs(x, rwq) - (IF x = Head(rwq) THEN 1 ELSE 0)
    BY <2>1, <2>2, Popped
  <2>4. Head(rwq) \in Slot /\ Head(rwq) \in Range(rwq)
    BY <2>1, HeadTail
  <2>5. \A x \in Fetch : tx[x] \in Nat /\ dq[x] \in Nat /\ Occurs(x, rwq) = tx[x] - dq[x]
    BY DEF Inv, BusInv, Types
  <2>6. CASE Head(rwq) = None
    <3>1. UNCHANGED <<returnq, dq>>
      BY <1>4, <2>6 DEF DataBus
    <3>2. BusInv'
      BY <1>0, <2>3, <2>5, <2>6, <3>1, NoneIsNoFetch DEF Inv, BusInv
    <3>3. QED BY <1>2, <2>3, <3>1, <3>2
  \* ... and when an atom of f arrives.
  <2>7. CASE Head(rwq) # None
    <3>1. PICK f \in Fetch : f = Head(rwq)
      BY <2>4, <2>7 DEF Slot
    <3>2. dq' = [dq EXCEPT ![f] = dq[f] + 1] /\ f # None
      BY <1>4, <2>7, <3>1 DEF DataBus
    <3>3. dq' \in [Fetch -> Nat] /\ dq'[f] = dq[f] + 1 /\ \A x \in Fetch : x # f => dq'[x] = dq[x]
      BY <3>2 DEF Types
    <3>4. BusInv'
      <4>1. ASSUME NEW x \in Fetch PROVE Occurs(x, rwq') = tx[x] - dq'[x]
        <5>1. CASE x = f
          <6>1. Occurs(x, rwq') = Occurs(x, rwq) - 1
            BY <2>3, <3>1, <5>1
          <6>2. QED BY <2>5, <3>3, <5>1, <6>1
        <5>2. CASE x # f
          <6>1. Occurs(x, rwq') = Occurs(x, rwq) - 0
            BY <2>3, <3>1, <5>2
          <6>2. QED BY <2>5, <3>3, <5>2, <6>1
        <5>3. QED BY <5>1, <5>2
      <4>2. QED BY <1>0, <2>3, <4>1 DEF Inv, BusInv
    <3>5. dq[f] < tx[f] /\ tx[f] <= atomsOf[f] /\ atomsOf[f] \in Nat
      <4>1. Occurs(f, rwq) \in Nat /\ Occurs(f, rwq) # 0
        BY <2>1, <2>4, <3>1, OccursType
      <4>2. QED BY <2>5, <4>1, Constants DEF Inv, Counts
    <3>6. w[f] # "returnq" /\ (dq'[f] = atomsOf[f] => w[f] = "none")
      <4>1. w[f] \in Where
        OBVIOUS
      <4>2. QED BY <2>5, <3>3, <3>5, <4>1 DEF Inv, Counts, Where
    <3>7. Counts(w, tx, dq')
      <4> SUFFICES ASSUME NEW x \in Fetch
                   PROVE  /\ dq'[x] <= tx[x] /\ tx[x] <= atomsOf[x]
                          /\ w[x] \in {"mrqq", "queue"} => tx[x] = 0
                          /\ w[x] = "bank" => tx[x] < atomsOf[x]
                          /\ w[x] = "returnq" => dq'[x] = atomsOf[x]
                          /\ w[x] = "none" => tx[x] \in {0, atomsOf[x]}
        BY DEF Counts
      <4>1. CASE x = f
        <5>1. dq'[x] <= tx[x]
          BY <2>5, <3>3, <3>5, <4>1
        <5>2. QED BY <3>6, <4>1, <5>1 DEF Inv, Counts
      <4>2. CASE x # f
        <5>1. dq'[x] = dq[x]
          BY <3>3, <4>2
        <5>2. QED BY <5>1 DEF Inv, Counts
      <4>3. QED BY <4>1, <4>2
    <3>8. CASE Arrived(f) /\ ~IsWriteback(f)
      <4>1. returnq' = Append(returnq, f)
        BY <1>4, <2>7, <3>1, <3>8 DEF DataBus
      <4>2. dq'[f] = atomsOf[f]
        BY <2>5, <3>3, <3>5, <3>8 DEF Arrived
      <4> DEFINE v == [w EXCEPT ![f] = "returnq"]
      <4>3. v \in [Fetch -> Where] /\ "returnq" \in Where /\ w[f] = "none"
        BY <3>6, <4>2 DEF Where
      <4>4. Holds(Fetch, mrqq', v, "mrqq")
        BY <1>0, <4>3, Stays DEF Inv, Placed
      <4>5. QueuesHold(queue', v)
        BY <1>0, <4>3, QueuesStay DEF Inv, Placed
      <4>6. BanksHold(mrq', v)
        BY <1>0, <4>3, BanksStay DEF Inv, Placed
      <4>7. Holds(Fetch, returnq', v, "returnq") /\ returnq' \in Seq(Fetch)
        BY <4>1, <4>3, Joins, AppendType DEF Inv, Placed, Types
      <4>8. \A c \in Class : pending'[c] = Cardinality(InQueues(v, c))
        <5>1. \A c : Cardinality(InQueues(v, c)) = Cardinality(InQueues(w, c))
          BY <4>3, InQueuesSame
        <5>2. QED BY <1>0, <5>1 DEF Inv, Books
      <4>9. Counts(v, tx, dq')
        BY <3>7, <4>2, <4>3, CountsMove
      <4>10. Types'
        BY <1>0, <2>3, <3>3, <4>7 DEF Types
      <4> HIDE DEF v
      <4>11. Placed(v)' /\ Books(v)'
        BY <1>0, <4>4, <4>5, <4>6, <4>7, <4>8, PlacedNext, BooksNext
      <4>12. Counts(v, tx, dq)'
        BY <1>0, <4>9 DEF Counts
      <4>13. Moved(w, v)
        <5>1. Moves(f, StateOf(w[f], tx[f], dq[f]), StateOf("returnq", tx'[f], dq'[f]))
          BY <2>5, <3>5, <3>8, <4>3 DEF Moves, StateOf
        <5>2. \A g \in Fetch : g # f => tx'[g] = tx[g] /\ dq'[g] = dq[g]
          BY <1>0, <3>3
        <5>3. QED BY <4>3, <5>1, <5>2, MovedOne DEF v
      <4>14. QED BY <1>1, <3>4, <4>3, <4>10, <4>11, <4>12, <4>13 DEF Kept, Inv
    <3>9. CASE ~(Arrived(f) /\ ~IsWriteback(f))
      <4>1. UNCHANGED returnq
        BY <1>4, <3>1, <3>9 DEF DataBus
      <4>2. Placed(w)' /\ Books(w)'
        BY <1>0, <4>1, PlacedNext, BooksNext DEF Inv, Placed, Books
      <4>3. Counts(w, tx, dq)'
        BY <1>0, <3>7 DEF Counts
      <4>4. Types'
        BY <1>0, <2>3, <3>3, <4>1 DEF Types
      <4>5. Moved(w, w)
        <5>1. StateOf(w[f], tx[f], dq[f]) = "pending"
          BY <2>5, <3>5, <3>6 DEF StateOf
        <5>2. CASE w[f] = "none" /\ tx[f] = dq'[f]
          <6>1. tx[f] = atomsOf[f]
            BY <2>5, <3>3, <3>5, <5>2 DEF Inv, Counts
          <6>2. IsWriteback(f)
            BY <2>5, <3>3, <3>5, <3>9, <5>2, <6>1 DEF Arrived
          <6>3. Moves(f, StateOf(w[f], tx[f], dq[f]), StateOf(w[f], tx'[f], dq'[f]))
            BY <1>0, <5>1, <5>2, <6>2 DEF Moves, StateOf
          <6>4. QED BY <1>0, <3>3, <6>3 DEF Moved, SameState
        <5>3. CASE ~(w[f] = "none" /\ tx[f] = dq'[f])
          <6>1. StateOf(w[f], tx'[f], dq'[f]) = "pending"
            BY <1>0, <3>6, <5>3 DEF StateOf
          <6>2. \A g \in Fetch : SameState(g, w, w)
            BY <1>0, <3>3, <5>1, <6>1 DEF SameState
          <6>3. QED BY <6>2 DEF Moved
        <5>4. QED BY <5>2, <5>3
      <4>6. QED BY <1>1, <3>4, <4>2, <4>3, <4>4, <4>5 DEF Kept, Inv
    <3>10. QED BY <3>8, <3>9
  <2>8. QED BY <2>6, <2>7
<1>5. QED BY <1>3, <1>4

\* No data of a request moves when its bank takes it.
LEMMA BankTakesClosed ==
    ASSUME Types, RowsOpen, UNCHANGED <<tx, open, row>>, NEW b \in Bank, NEW f \in Fetch,
           mrq' = [mrq EXCEPT ![b] = f], tx[f] = 0
    PROVE  RowsOpen'
<1> SUFFICES ASSUME NEW d \in Bank, mrq'[d] # None, tx[mrq'[d]] > 0
             PROVE  open[d] /\ row[d] = rowOf[mrq'[d]]
  BY DEF RowsOpen
<1>1. CASE d = b
  <2>1. mrq'[d] = f
    BY <1>1 DEF Types
  <2>2. QED BY <2>1
<1>2. CASE d # b
  <2>1. mrq'[d] = mrq[d]
    BY <1>2 DEF Types
  <2>2. QED BY <2>1 DEF RowsOpen
<1>3. QED BY <1>1, <1>2

LEMMA ScheduleFifoKeeps ==
    ASSUME Types, NEW w \in [Fetch -> Where], Inv(w), ScheduleFifo
    PROVE  Kept(w)
<1>0. /\ UNCHANGED <<config, queue, lastRow, pending, mode, open, row, tx, dq, rwq, minLen, bus,
                     returnq, prio, turn>>
      /\ ~config.frfcfs
  BY DEF ScheduleFifo, data
<1>1. BusInv' /\ RowsHeld'
  <2>1. BusInv'
    BY <1>0 DEF Inv, BusInv
  <2>2. RowsHeld'
    BY <1>0 DEF Inv, RowsHeld
  <2>3. QED BY <2>1, <2>2
<1>2. CASE mrqq # <<>> /\ mrq[bankOf[Head(mrqq)]] = None
  <2>1. PICK f : f = Head(mrqq)
    OBVIOUS
  <2> DEFINE v == [w EXCEPT ![f] = "bank"]
             b == bankOf[f]
  <2>2. /\ f \in Fetch /\ w[f] = "mrqq" /\ b \in Bank /\ mrq[b] = None
        /\ mrqq' = Tail(mrqq) /\ mrq' = [mrq EXCEPT ![b] = f]
        /\ Tail(mrqq) \in Seq(Fetch) /\ Len(Tail(mrqq)) = Len(mrqq) - 1
        /\ Holds(Fetch, mrqq, w, "mrqq")
    BY <1>2, <2>1, HeadHeld, HeadTail, Constants DEF ScheduleFifo, Inv, Placed, Types
  <2>3. v \in [Fetch -> Where] /\ "bank" \in Where /\ "bank" # "mrqq"
    BY DEF Where
  <2>4. Holds(Fetch, mrqq', v, "mrqq")
    BY <1>2, <2>1, <2>2, <2>3, Leaves DEF Types
  <2>5. QueuesHold(queue', v)
    BY <1>0, <2>2, <2>3, QueuesStay DEF Inv, Placed
  <2>6. BanksHold(mrq', v) /\ mrq' \in [Bank -> Fetch \cup {None}]
    BY <2>2, BankTakes DEF Inv, Placed, Types
  <2>7. Holds(Fetch, returnq', v, "returnq")
    BY <1>0, <2>2, <2>3, Stays DEF Inv, Placed
  <2>8. \A c \in Class : pending'[c] = Cardinality(InQueues(v, c))
    <3>1. \A c : Cardinality(InQueues(v, c)) = Cardinality(InQueues(w, c))
      BY <2>2, <2>3, InQueuesSame
    <3>2. QED BY <1>0, <3>1 DEF Inv, Books
  <2>9. tx[f] = 0 /\ atomsOf[f] \in Nat \ {0}
    BY <2>2, Constants DEF Inv, Counts
  <2>10. Counts(v, tx, dq)
    <3>1. tx[f] < atomsOf[f] /\ Counts(w, tx, dq)
      BY <2>9 DEF Inv
    <3>2. QED BY <2>2, <2>3, <3>1, CountsMove
  <2>11. RowsOpen'
    BY <1>0, <2>2, <2>9, BankTakesClosed DEF Inv
  <2>12. Room'
    <3>1. Len(mrqq) \in Nat /\ Len(mrqq) <= MrqQ
      BY <1>0 DEF Inv, Room, Types
    <3>2. Len(mrqq') <= MrqQ
      BY <2>2, <3>1 DEF MrqQ
    <3>3. QED BY <1>0, <3>2 DEF Room
  <2>13. Types'
    BY <1>0, <2>2, <2>6 DEF Types
  <2> HIDE DEF v
  <2>14. Placed(v)' /\ Books(v)'
    BY <1>0, <2>4, <2>5, <2>6, <2>7, <2>8, PlacedNext, BooksNext
  <2>15. Counts(v, tx, dq)'
    BY <1>0, <2>10 DEF Counts
  <2>16. Moved(w, v)
    BY <1>0, <2>2, <2>3, MovedPending DEF v
  <2>17. QED BY <1>1, <2>3, <2>11, <2>12, <2>13, <2>14, <2>15, <2>16 DEF Kept, Inv
<1>3. CASE ~(mrqq # <<>> /\ mrq[bankOf[Head(mrqq)]] = None)
  <2>1. UNCHANGED <<mrq, mrqq>>
    BY <1>3 DEF ScheduleFifo
  <2>2. Placed(w)' /\ Books(w)'
    BY <1>0, <2>1, PlacedNext, BooksNext DEF Inv, Placed, Books
  <2>3. Counts(w, tx, dq)' /\ RowsOpen' /\ Room'
    BY <1>0, <2>1 DEF Counts, RowsOpen, Room, Inv
  <2>4. Types'
    BY <1>0, <2>1 DEF Types
  <2>5. QED BY <1>0, <1>1, <2>2, <2>3, <2>4, MovedNot DEF Kept, Inv
<1>4. QED BY <1>2, <1>3

\* What is in a row of a queue stays there when more is appended.
LEMMA InRowAppended ==
    ASSUME NEW q \in Seq(Fetch), NEW f \in Fetch, NEW r, InRow(q, r) # {}
    PROVE  InRow(Append(q, f), r) # {}
BY DEF InRow

LEMMA AddRequestsKeeps ==
    ASSUME Types, NEW w \in [Fetch -> Where], Inv(w), AddRequests
    PROVE  Kept(w)
<1>0. /\ UNCHANGED <<config, lastRow, mode, mrq, open, row, tx, dq, rwq, minLen, bus, returnq,
                     prio, turn>>
      /\ config.frfcfs /\ phase = "schedule"
  BY DEF AddRequests, data, banks
<1>1. RowsOpen' /\ BusInv'
  <2>1. RowsOpen'
    BY <1>0 DEF Inv, RowsOpen
  <2>2. BusInv'
    BY <1>0 DEF Inv, BusInv
  <2>3. QED BY <2>1, <2>2
<1>2. CASE mrqq # <<>>
  <2>1. PICK f, c, b : f = Head(mrqq) /\ c = ClassOf(f) /\ b = bankOf[f]
    OBVIOUS
  <2> DEFINE v == [w EXCEPT ![f] = "queue"]
             s == Append(queue[c][b], f)
  <2>2. /\ f \in Fetch /\ w[f] = "mrqq"
        /\ Tail(mrqq) \in Seq(Fetch) /\ Len(Tail(mrqq)) = Len(mrqq) - 1
        /\ Holds(Fetch, mrqq, w, "mrqq")
    BY <1>2, <2>1, HeadHeld, HeadTail DEF Inv, Placed, Types
  <2>3. /\ b \in Bank /\ c \in Class /\ f \in Of(c, b)
        /\ queue[c][b] \in Seq(Fetch) /\ s \in Seq(Fetch)
    <3>1. b \in Bank /\ c \in Class /\ f \in Of(c, b)
      BY <2>1, <2>2, ClassOfType, Constants
    <3>2. queue[c][b] \in Seq(Fetch)
      BY <3>1 DEF Types
    <3>3. QED BY <2>2, <3>1, <3>2, AppendType
  <2>4. /\ mrqq' = Tail(mrqq)
        /\ queue' = [queue EXCEPT ![c][b] = s]
        /\ pending' = [pending EXCEPT ![c] = pending[c] + 1]
    BY <1>2, <2>1 DEF AddRequests
  <2>5. v \in [Fetch -> Where] /\ "queue" \in Where /\ "queue" # "mrqq"
    BY DEF Where
  <2>6. Holds(Fetch, mrqq', v, "mrqq")
    BY <1>2, <2>1, <2>2, <2>4, <2>5, Leaves DEF Types
  <2>7. Holds(Of(c, b), s, v, "queue")
    <3>1. Holds(Of(c, b), queue[c][b], w, "queue")
      BY <2>3 DEF Inv, Placed, QueuesHold
    <3>2. f \notin Range(queue[c][b]) /\ NoRepeat(queue[c][b])
      BY <2>2, <3>1 DEF Holds
    <3>3. NoRepeat(s) /\ Range(s) = Range(queue[c][b]) \cup {f}
      BY <2>2, <2>3, <3>2, AppendRange
    <3>4. \A x \in Of(c, b) : x \in Fetch
      BY DEF Of
    <3> HIDE DEF s
    <3>5. QED BY <2>2, <2>3, <3>1, <3>3, <3>4 DEF Holds
  <2> HIDE DEF s
  <2>8. QueuesHold(queue', v) /\ queue' \in [Class -> [Bank -> Seq(Fetch)]]
    BY <2>2, <2>3, <2>4, <2>5, <2>7, QueuesMove DEF Inv, Placed, Types
  <2>9. BanksHold(mrq', v)
    BY <1>0, <2>2, <2>5, BanksStay DEF Inv, Placed
  <2>10. Holds(Fetch, returnq', v, "returnq")
    BY <1>0, <2>2, <2>5, Stays DEF Inv, Placed
  <2>11. /\ pending' \in [Class -> Nat] /\ pending'[c] = pending[c] + 1
         /\ \A d \in Class : d # c => pending'[d] = pending[d]
    BY <2>3, <2>4 DEF Types
  <2>12. ASSUME NEW d \in Class PROVE pending'[d] = Cardinality(InQueues(v, d))
    <3>1. Cardinality(InQueues(v, d)) = Cardinality(InQueues(w, d)) + (IF d = c THEN 1 ELSE 0)
      BY <2>1, <2>2, InQueuesMore
    <3>2. pending[d] = Cardinality(InQueues(w, d)) /\ pending[d] \in Nat
      BY DEF Inv, Books, Types
    <3>3. QED BY <2>11, <3>1, <3>2
  <2>13. Counts(v, tx, dq)
    <3>1. tx[f] = 0
      BY <2>2 DEF Inv, Counts
    <3>2. QED BY <2>2, <2>5, <3>1, CountsMove DEF Inv
  <2>14. RowsHeld'
    <3> SUFFICES ASSUME NEW d \in Class, NEW e \in Bank, lastRow[d][e] # None
                 PROVE  InRow(queue'[d][e], lastRow[d][e]) # {}
      BY <1>0 DEF RowsHeld
    <3>1. InRow(queue[d][e], lastRow[d][e]) # {}
      BY DEF Inv, RowsHeld
    <3>2. CASE d = c /\ e = b
      <4>1. queue'[d][e] = s
        BY <2>3, <2>4, <3>2 DEF Types
      <4>2. QED BY <2>2, <2>3, <3>1, <3>2, <4>1, InRowAppended DEF s
    <3>3. CASE d # c \/ e # b
      <4>1. queue'[d][e] = queue[d][e]
        BY <2>3, <2>4, <3>3 DEF Types
      <4>2. QED BY <3>1, <4>1
    <3>4. QED BY <3>2, <3>3
  <2>15. Room'
    <3>1. Len(mrqq) = 1 /\ pending[c] < Limit[c] /\ \A d \in Class : pending[d] <= Limit[d]
      BY <1>0, <1>2, <2>1 DEF Inv, Room
    <3>2. mrqq' = <<>>
      BY <2>2, <2>4, <3>1, EmptyLength
    <3>3. \A d \in Class : pending[d] \in Nat /\ Limit[d] \in Nat
      BY Constants DEF Types, Limit, Class
    <3>4. \A d \in Class : pending'[d] <= Limit[d]
      BY <2>3, <2>11, <3>1, <3>3
    <3>5. QED BY <1>0, <3>2, <3>4 DEF Room, Limit
  <2>16. Types'
    BY <1>0, <2>2, <2>4, <2>8, <2>11 DEF Types
  <2> HIDE DEF v
  <2>17. Placed(v)' /\ Books(v)'
    BY <1>0, <2>6, <2>8, <2>9, <2>10, <2>12, PlacedNext, BooksNext
  <2>18. Counts(v, tx, dq)'
    BY <1>0, <2>13 DEF Counts
  <2>19. Moved(w, v)
    BY <1>0, <2>2, <2>5, MovedPending DEF v
  <2>20. QED BY <1>1, <2>5, <2>14, <2>15, <2>16, <2>17, <2>18, <2>19 DEF Kept, Inv
<1>3. CASE mrqq = <<>>
  <2>1. UNCHANGED <<mrqq, queue, pending>>
    BY <1>3 DEF AddRequests
  <2>2. Placed(w)' /\ Books(w)'
    BY <1>0, <2>1, PlacedNext, BooksNext DEF Inv, Placed, Books
  <2>3. Counts(w, tx, dq)' /\ RowsHeld'
    BY <1>0, <2>1 DEF Counts, RowsHeld, Inv
  <2>4. Room'
    BY <1>0, <1>3, <2>1 DEF Room, Inv
  <2>5. Types'
    BY <1>0, <2>1 DEF Types
  <2>6. QED BY <1>0, <1>1, <2>2, <2>3, <2>4, <2>5, MovedNot DEF Kept, Inv
<1>4. QED BY <1>2, <1>3

LEMMA InTurnType == prio \in Bank => \A i \in Nat : InTurn(i) \in Bank
<1>1. NBank \in Nat \ {0} /\ (prio \in Bank => prio \in Nat)
  BY Constants DEF Bank
<1>2. QED BY <1>1 DEF InTurn, Bank

\* The row served is one of the requests', so the pointer to it stays right.
LEMMA RowServedType ==
    ASSUME Types, NEW c \in Class, NEW b \in Bank, queue[c][b] # <<>>
    PROVE  RowServed(c, b) \in Row \cup {None}
<1>1. queue[c][b] \in Seq(Fetch) /\ lastRow[c][b] \in Row \cup {None}
  BY DEF Types
<1>2. \A f \in Fetch : rowOf[f] \in Row
  BY Constants
<1>3. Head(queue[c][b]) \in Fetch
  BY <1>1, HeadTail
<1>4. InRow(queue[c][b], row[b]) # {} => row[b] \in Row
  BY <1>1, <1>2 DEF InRow
<1>5. QED BY <1>1, <1>2, <1>3, <1>4 DEF RowServed

\* A bank takes a request from a queue.
LEMMA ServeKeeps ==
    ASSUME Types, NEW w \in [Fetch -> Where], Inv(w), phase = "bank",
           UNCHANGED <<config, mrqq, open, row, tx, dq, rwq, minLen, bus, returnq, turn>>,
           mode' \in Class, prio' \in Bank,
           NEW c \in Class, NEW b \in Bank, mrq[b] = None,
           NEW m \in 1 .. Len(queue[c][b]),
           queue' = [queue EXCEPT ![c][b] = RemoveAt(queue[c][b], m)],
           lastRow' = [lastRow EXCEPT ![c][b] = RowKept(c, b, RemoveAt(queue[c][b], m))],
           pending' = [pending EXCEPT ![ClassOf(queue[c][b][m])] = @ - 1],
           mrq' = [mrq EXCEPT ![b] = queue[c][b][m]]
    PROVE  Kept(w)
<1>1. PICK f, q : f = queue[c][b][m] /\ q = RemoveAt(queue[c][b], m)
  OBVIOUS
<1> DEFINE v == [w EXCEPT ![f] = "bank"]
<1>2. queue[c][b] \in Seq(Fetch) /\ queue[c][b] # <<>> /\ m \in DOMAIN queue[c][b]
  <2>1. queue[c][b] \in Seq(Fetch)
    BY DEF Types
  <2>2. QED BY <2>1
<1>3. /\ Holds(Of(c, b), queue[c][b], w, "queue")
      /\ f \in Range(queue[c][b])
  BY <1>1, <1>2 DEF Inv, Placed, QueuesHold, Range
<1>4. f \in Fetch /\ w[f] = "queue" /\ f \in Of(c, b) /\ ClassOf(f) = c /\ bankOf[f] = b
  BY <1>3 DEF Holds, Of
<1>5. q \in Seq(Fetch) /\ NoRepeat(q) /\ Range(q) = Range(queue[c][b]) \ {f}
  <2>1. NoRepeat(queue[c][b])
    BY <1>3 DEF Holds
  <2>2. QED BY <1>1, <1>2, <2>1, RemovedRange
<1>6. v \in [Fetch -> Where] /\ "bank" \in Where /\ "bank" # "queue"
  BY DEF Where
<1>7. Holds(Of(c, b), q, v, "queue")
  <2>1. \A x \in Of(c, b) : x \in Fetch
    BY DEF Of
  <2>2. QED BY <1>3, <1>4, <1>5, <2>1 DEF Holds
<1>8. QueuesHold(queue', v) /\ queue' \in [Class -> [Bank -> Seq(Fetch)]]
  BY <1>1, <1>4, <1>5, <1>6, <1>7, QueuesMove DEF Inv, Placed, Types
<1>9. BanksHold(mrq', v) /\ mrq' \in [Bank -> Fetch \cup {None}]
  BY <1>1, <1>4, BankTakes DEF Inv, Placed, Types
<1>10. Holds(Fetch, mrqq', v, "mrqq") /\ Holds(Fetch, returnq', v, "returnq")
  BY <1>4, <1>6, Stays DEF Inv, Placed
<1>11. \A d \in Class : /\ Cardinality(InQueues(w, d)) =
                              Cardinality(InQueues(v, d)) + (IF d = c THEN 1 ELSE 0)
                        /\ Cardinality(InQueues(v, d)) \in Nat
  <2>1. \A d \in Class : /\ Cardinality(InQueues(w, d)) =
                              Cardinality(InQueues(v, d)) + (IF d = ClassOf(f) THEN 1 ELSE 0)
                          /\ Cardinality(InQueues(v, d)) \in Nat
    BY <1>4, <1>6, InQueuesLess
  <2> HIDE DEF v
  <2>2. QED BY <1>4, <2>1
<1> HIDE DEF v
<1>12. \A d \in Class : pending[d] = Cardinality(InQueues(w, d)) /\ pending[d] \in Nat
  BY DEF Inv, Books, Types
<1>13. /\ pending'[c] = pending[c] - 1
       /\ \A d \in Class : d # c => pending'[d] = pending[d]
  BY <1>1, <1>4 DEF Types
<1>14. ASSUME NEW d \in Class
       PROVE  pending'[d] = Cardinality(InQueues(v, d)) /\ pending'[d] \in Nat
                 /\ pending'[d] <= pending[d]
  <2>1. CASE d = c
    <3>1. Cardinality(InQueues(w, d)) = Cardinality(InQueues(v, d)) + 1
      BY <1>11, <2>1
    <3>2. QED BY <1>11, <1>12, <1>13, <2>1, <3>1
  <2>2. CASE d # c
    <3>1. Cardinality(InQueues(w, d)) = Cardinality(InQueues(v, d)) + 0
      BY <1>11, <2>2
    <3>2. QED BY <1>11, <1>12, <1>13, <2>2, <3>1
  <2>3. QED BY <2>1, <2>2
<1>15. pending' \in [Class -> Nat]
  <2>1. pending' = [pending EXCEPT ![c] = pending[c] - 1] /\ pending \in [Class -> Nat]
    BY <1>1, <1>4 DEF Types
  <2>2. DOMAIN pending' = Class /\ pending' = [d \in DOMAIN pending' |-> pending'[d]]
    BY <2>1
  <2>3. QED BY <1>14, <2>2
<1>16. tx[f] = 0 /\ atomsOf[f] \in Nat \ {0}
  BY <1>4, Constants DEF Inv, Counts
<1>17. Counts(v, tx, dq)
  <2>1. tx[f] < atomsOf[f] /\ Counts(w, tx, dq)
    BY <1>16 DEF Inv
  <2>2. QED BY <1>4, <1>6, <2>1, CountsMove DEF v
<1>18. RowsOpen'
  BY <1>1, <1>4, <1>16, BankTakesClosed DEF Inv
<1>19. BusInv'
  BY DEF Inv, BusInv
<1>20. lastRow' \in [Class -> [Bank -> Row \cup {None}]]
  <2>1. RowKept(c, b, q) \in Row \cup {None}
    BY <1>2, RowServedType DEF RowKept
  <2> HIDE DEF RowKept
  <2>2. QED BY <1>1, <2>1 DEF Types
<1>21. RowsHeld'
  <2> SUFFICES ASSUME NEW d \in Class, NEW e \in Bank, lastRow'[d][e] # None
               PROVE  InRow(queue'[d][e], lastRow'[d][e]) # {}
    BY DEF RowsHeld
  <2>1. CASE d = c /\ e = b
    <3>1. queue'[d][e] = q /\ lastRow'[d][e] = RowKept(c, b, q)
      BY <1>1, <2>1 DEF Types
    <3>2. QED BY <3>1 DEF RowKept
  <2>2. CASE d # c \/ e # b
    <3>1. queue'[d][e] = queue[d][e] /\ lastRow'[d][e] = lastRow[d][e]
      BY <2>2 DEF Types
    <3>2. QED BY <3>1 DEF Inv, RowsHeld
  <2>3. QED BY <2>1, <2>2
<1>22. Room'
  <2>1. config.frfcfs => mrqq = <<>>
    BY DEF Inv, Room
  <2>2. \A d \in Class : Limit[d] \in Nat
    BY Constants DEF Limit, Class
  <2>3. config.frfcfs => \A d \in Class : pending'[d] <= Limit[d]
    BY <1>12, <1>14, <2>2 DEF Inv, Room
  <2>4. QED BY <2>1, <2>3 DEF Inv, Room, Limit
<1>23. Types'
  BY <1>8, <1>9, <1>15, <1>20 DEF Types
<1>24. Placed(v)' /\ Books(v)'
  BY <1>8, <1>9, <1>10, <1>14, PlacedNext, BooksNext
<1>25. Counts(v, tx, dq)'
  BY <1>17 DEF Counts
<1>26. Moved(w, v)
  BY <1>4, <1>6, MovedPending DEF v
<1>27. QED BY <1>6, <1>18, <1>19, <1>21, <1>22, <1>23, <1>24, <1>25, <1>26 DEF Kept, Inv

LEMMA ScheduleBankKeeps ==
    ASSUME Types, NEW w \in [Fetch -> Where], Inv(w), ScheduleBank
    PROVE  Kept(w)
<1>0. /\ UNCHANGED <<config, mrqq, open, row, tx, dq, rwq, minLen, bus, returnq, turn>>
      /\ phase = "bank" /\ phase' = FirstCommand
      /\ mode' = IF \E b \in Bank : mrq[b] = None THEN SwitchedMode ELSE mode
  BY DEF ScheduleBank, data
<1>1. mode' \in Class
  BY <1>0 DEF SwitchedMode, Types, Class
<1> DEFINE able == {i \in Bank : mrq[InTurn(i)] = None /\ queue[mode'][InTurn(i)] # <<>>}
<1>2. CASE able = {} /\ UNCHANGED <<queue, lastRow, pending, mrq, prio>>
  <2>1. Placed(w)' /\ Books(w)'
    BY <1>0, <1>2, PlacedNext, BooksNext DEF Inv, Placed, Books
  <2>2. Counts(w, tx, dq)' /\ RowsOpen' /\ BusInv' /\ RowsHeld'
    BY <1>0, <1>2 DEF Counts, RowsOpen, BusInv, RowsHeld, Inv
  <2>3. Room'
    <3>1. config.frfcfs => mrqq = <<>>
      BY <1>0 DEF Inv, Room
    <3>2. QED BY <1>0, <1>2, <3>1 DEF Inv, Room
  <2>4. Types'
    BY <1>0, <1>1, <1>2 DEF Types
  <2>5. QED BY <1>0, <2>1, <2>2, <2>3, <2>4, MovedNot DEF Kept, Inv
<1>3. CASE ~(able = {} /\ UNCHANGED <<queue, lastRow, pending, mrq, prio>>)
  <2>1. PICK i \in able :
          LET b == InTurn(i)
              bin == InRow(queue[mode'][b], RowServed(mode', b))
          IN
          \E oldest \in bin :
             /\ queue' = [queue EXCEPT ![mode'][b] = RemoveAt(queue[mode'][b], oldest)]
             /\ lastRow' = [lastRow EXCEPT ![mode'][b] =
                              RowKept(mode', b, RemoveAt(queue[mode'][b], oldest))]
             /\ pending' = [pending EXCEPT ![ClassOf(queue[mode'][b][oldest])] = @ - 1]
             /\ mrq' = [mrq EXCEPT ![b] = queue[mode'][b][oldest]]
             /\ prio' = (prio + 1) % NBank
    BY <1>3 DEF ScheduleBank
  <2>2. PICK b \in Bank : b = InTurn(i)
    <3>1. prio \in Bank /\ i \in Nat
      BY DEF Types, Bank
    <3>2. QED BY <3>1, InTurnType
  <2>3. mrq[b] = None
    BY <2>2
  <2>4. PICK c \in Class : c = mode'
    BY <1>1
  <2>5. PICK m \in InRow(queue[c][b], RowServed(c, b)) :
             /\ queue' = [queue EXCEPT ![c][b] = RemoveAt(queue[c][b], m)]
             /\ lastRow' = [lastRow EXCEPT ![c][b] = RowKept(c, b, RemoveAt(queue[c][b], m))]
             /\ pending' = [pending EXCEPT ![ClassOf(queue[c][b][m])] = @ - 1]
             /\ mrq' = [mrq EXCEPT ![b] = queue[c][b][m]]
             /\ prio' = (prio + 1) % NBank
    BY <2>1, <2>2, <2>4
  <2>6. m \in 1 .. Len(queue[c][b])
    <3>1. queue[c][b] \in Seq(Fetch)
      BY DEF Types
    <3>2. QED BY <2>5, <3>1 DEF InRow
  <2>7. prio' \in Bank
    <3>1. prio \in Nat /\ NBank \in Nat \ {0}
      BY Constants DEF Types, Bank
    <3>2. QED BY <2>5, <3>1 DEF Bank
  <2>8. QED BY <1>0, <1>1, <2>3, <2>5, <2>6, <2>7, ServeKeeps
<1>4. QED BY <1>2, <1>3

\* A column command puts one atom of the bank's request into the pipeline, no
\* sooner than its latency.
LEMMA AtomSent ==
    ASSUME Types, BusInv, NEW b \in Bank, NEW f \in Fetch, f = mrq[b], ColumnCommand(b)
    PROVE  /\ rwq' \in Seq(Slot) /\ bus' \in Class /\ Len(rwq') >= minLen'
           /\ minLen' = (IF bus' = "write" THEN WL ELSE CL)
           /\ minLen' = (IF IsWrite(f) THEN WL ELSE CL)
           /\ \E i \in DOMAIN rwq' : i >= minLen' /\ rwq'[i] = f
           /\ \A x \in Fetch : Occurs(x, rwq') = Occurs(x, rwq) + (IF x = f THEN 1 ELSE 0)
<1>1. rwq \in Seq(Slot) /\ minLen \in Nat /\ Len(rwq) >= minLen /\ WL \in Nat /\ CL \in Nat
      /\ bus \in Class
  BY Constants DEF Types, BusInv
<1>2. /\ bus' = (IF IsWrite(f) THEN "write" ELSE "read")
      /\ minLen' = (IF bus = bus' THEN minLen ELSE Latency(IsWrite(f)))
  BY DEF ColumnCommand
<1>3. /\ bus' \in Class /\ minLen' = (IF bus' = "write" THEN WL ELSE CL)
      /\ minLen' = (IF IsWrite(f) THEN WL ELSE CL) /\ minLen' \in Nat
  <2>1. CASE IsWrite(f)
    BY <1>1, <1>2, <2>1 DEF BusInv, Latency, Class
  <2>2. CASE ~IsWrite(f)
    BY <1>1, <1>2, <2>2 DEF BusInv, Latency, Class
  <2>3. QED BY <2>1, <2>2
<1>n. PICK n \in Nat : n = minLen'
  BY <1>3
<1> DEFINE q == Pipe!SetMinLength(rwq, minLen, n)
<1>4. rwq' = Pipe!Push(q, n, f)
  BY <1>n DEF ColumnCommand
<1>5. q \in Seq(Slot) /\ Len(q) >= n /\ \A x \in Fetch : Places(x, q) = Places(x, rwq)
  BY <1>1, Relength
<1> HIDE DEF q
<1>6. /\ rwq' \in Seq(Slot) /\ Len(rwq') >= minLen'
      /\ \E i \in DOMAIN rwq' : /\ i >= minLen' /\ i \notin Places(f, q)
                                /\ Places(f, rwq') = Places(f, q) \cup {i}
      /\ \A x \in Fetch : x # f => Places(x, rwq') = Places(x, q)
  <2> DEFINE r == Pipe!Push(q, n, f)
  <2>1. r \in Seq(Slot) /\ Len(r) >= n
    BY <1>5, Sent
  <2>2. \E i \in DOMAIN r : /\ i >= n /\ i \notin Places(f, q)
                            /\ Places(f, r) = Places(f, q) \cup {i}
    BY <1>5, Sent
  <2>3. \A x \in Fetch : x # f => Places(x, r) = Places(x, q)
    BY <1>5, Sent
  <2>4. r = rwq'
    BY <1>4
  <2> HIDE DEF r
  <2>5. QED BY <1>n, <2>1, <2>2, <2>3, <2>4
<1>7. PICK i \in DOMAIN rwq' : /\ i >= minLen' /\ i \notin Places(f, rwq)
                               /\ Places(f, rwq') = Places(f, rwq) \cup {i}
  BY <1>5, <1>6
<1>8. rwq'[i] = f
  BY <1>7 DEF Places
<1>9. ASSUME NEW x \in Fetch
      PROVE  Occurs(x, rwq') = Occurs(x, rwq) + (IF x = f THEN 1 ELSE 0)
  <2>1. PICK r : r = rwq'
    OBVIOUS
  <2>2. Occurs(x, rwq) \in Nat
    BY <1>1, OccursType
  <2>3. CASE x = f
    <3>1. Places(f, r) = Places(f, rwq) \cup {i} /\ i \notin Places(f, rwq)
      BY <1>7, <2>1
    <3>2. Occurs(f, r) = Occurs(f, rwq) + 1
      BY <1>1, <3>1, OccursMore
    <3>3. QED BY <2>1, <2>3, <3>2
  <2>4. CASE x # f
    <3>1. Places(x, r) = Places(x, rwq)
      BY <1>5, <1>6, <2>1, <2>4
    <3>2. Occurs(x, r) = Occurs(x, rwq)
      BY <3>1, OccursSame
    <3>3. QED BY <2>1, <2>2, <2>4, <3>2
  <2>5. QED BY <2>3, <2>4
<1>10. QED BY <1>3, <1>6, <1>7, <1>8, <1>9

\* A column command, and nothing else of the channel but the program counter.
LEMMA ColumnKeeps ==
    ASSUME Types, NEW w \in [Fetch -> Where], Inv(w), phase \in {"column", "single"},
           UNCHANGED <<config, sched, returnq>>, turn'.next \in Nat,
           NEW b \in Bank, CanColumn(b), ColumnCommand(b)
    PROVE  Kept(w)
<1>0. /\ UNCHANGED <<config, mrqq, queue, lastRow, pending, mode, returnq, open, row, dq, prio>>
      /\ mrq[b] # None
  BY DEF ColumnCommand, CanColumn, sched
<1>1. PICK f \in Fetch : f = mrq[b]
  BY <1>0 DEF Types
<1>2. w[f] = "bank" /\ bankOf[f] = b
  BY <1>0, <1>1 DEF Inv, Placed, BanksHold
<1>3. /\ rwq' \in Seq(Slot) /\ bus' \in Class /\ Len(rwq') >= minLen'
      /\ minLen' = (IF bus' = "write" THEN WL ELSE CL)
      /\ \A x \in Fetch : Occurs(x, rwq') = Occurs(x, rwq) + (IF x = f THEN 1 ELSE 0)
  BY <1>1, AtomSent DEF Inv
<1>4. tx' = [tx EXCEPT ![f] = tx[f] + 1]
  BY <1>1 DEF ColumnCommand
<1>5. /\ tx' \in [Fetch -> Nat] /\ tx'[f] = tx[f] + 1 /\ \A x \in Fetch : x # f => tx'[x] = tx[x]
      /\ \A x \in Fetch : tx[x] \in Nat /\ dq[x] \in Nat
  BY <1>4 DEF Types
<1>6. tx[f] < atomsOf[f] /\ dq[f] <= tx[f] /\ atomsOf[f] \in Nat
  BY <1>2, Constants DEF Inv, Counts
<1>7. BusInv'
  <2>1. ASSUME NEW x \in Fetch PROVE Occurs(x, rwq') = tx'[x] - dq'[x]
    <3>1. Occurs(x, rwq) = tx[x] - dq[x] /\ dq'[x] = dq[x]
      BY <1>0 DEF Inv, BusInv
    <3>2. CASE x = f
      <4>1. Occurs(x, rwq') = Occurs(x, rwq) + 1
        BY <1>3, <3>2
      <4>2. QED BY <1>5, <3>1, <3>2, <4>1
    <3>3. CASE x # f
      <4>1. Occurs(x, rwq') = Occurs(x, rwq) + 0
        BY <1>3, <3>3
      <4>2. QED BY <1>5, <3>1, <3>3, <4>1
    <3>4. QED BY <3>2, <3>3
  <2>2. QED BY <1>3, <2>1 DEF BusInv
<1>8. RowsHeld' /\ Room'
  <2>1. RowsHeld'
    BY <1>0 DEF Inv, RowsHeld
  <2>2. config.frfcfs => mrqq = <<>>
    BY DEF Inv, Room
  <2>3. Room'
    BY <1>0, <2>2 DEF Inv, Room
  <2>4. QED BY <2>1, <2>3
<1>9. ASSUME NEW d \in Bank, mrq[d] # None, tx'[mrq[d]] > 0 PROVE open[d] /\ row[d] = rowOf[mrq[d]]
  <2>1. mrq[d] \in Fetch
    BY <1>9 DEF Types
  <2>2. CASE mrq[d] = f
    <3>1. d = b
      BY <1>2, <1>9, <2>2 DEF Inv, Placed, BanksHold
    <3>2. QED BY <1>1, <3>1 DEF CanColumn
  <2>3. CASE mrq[d] # f
    <3>1. tx[mrq[d]] > 0
      BY <1>5, <1>9, <2>1, <2>3
    <3>2. QED BY <1>9, <3>1 DEF Inv, RowsOpen
  <2>4. QED BY <2>2, <2>3
<1>10. /\ Holds(Fetch, mrqq, w, "mrqq") /\ QueuesHold(queue, w) /\ BanksHold(mrq, w)
       /\ Holds(Fetch, returnq, w, "returnq")
       /\ \A c \in Class : pending[c] = Cardinality(InQueues(w, c))
  BY DEF Inv, Placed, Books
\* The last atom: the bank is free ...
<1>11. CASE tx[f] + 1 >= atomsOf[f]
  <2> DEFINE v == [w EXCEPT ![f] = "none"]
  <2>1. v \in [Fetch -> Where] /\ "none" \in Where /\ v[f] = "none"
        /\ \A x \in Fetch : x # f => v[x] = w[x]
    BY DEF Where
  <2>2. mrq' = [mrq EXCEPT ![b] = None] /\ tx'[f] = atomsOf[f]
    <3>1. mrq' = [mrq EXCEPT ![b] = None]
      BY <1>1, <1>11 DEF ColumnCommand
    <3>2. QED BY <1>5, <1>6, <1>11, <3>1
  <2>3. BanksHold(mrq', v) /\ mrq' \in [Bank -> Fetch \cup {None}]
    BY <1>0, <1>1, <1>10, <2>2, BankDone DEF Types
  <2>4. Holds(Fetch, mrqq', v, "mrqq") /\ Holds(Fetch, returnq', v, "returnq")
    BY <1>0, <1>2, <1>10, <2>1, Stays
  <2>5. QueuesHold(queue', v)
    BY <1>0, <1>2, <1>10, <2>1, QueuesStay
  <2>6. \A c \in Class : pending'[c] = Cardinality(InQueues(v, c))
    <3>1. \A c : Cardinality(InQueues(v, c)) = Cardinality(InQueues(w, c))
      BY <1>2, <2>1, InQueuesSame
    <3>2. QED BY <1>0, <1>10, <3>1
  <2> HIDE DEF v
  <2>7. Counts(v, tx', dq')
    <3> SUFFICES ASSUME NEW x \in Fetch
                 PROVE  /\ dq[x] <= tx'[x] /\ tx'[x] <= atomsOf[x]
                        /\ v[x] \in {"mrqq", "queue"} => tx'[x] = 0
                        /\ v[x] = "bank" => tx'[x] < atomsOf[x]
                        /\ v[x] = "returnq" => dq[x] = atomsOf[x]
                        /\ v[x] = "none" => tx'[x] \in {0, atomsOf[x]}
      BY <1>0 DEF Counts
    <3>1. CASE x = f
      BY <1>5, <1>6, <2>1, <2>2, <3>1
    <3>2. CASE x # f
      <4>1. tx'[x] = tx[x] /\ v[x] = w[x]
        BY <1>5, <2>1, <3>2
      <4>2. QED BY <4>1 DEF Inv, Counts
    <3>3. QED BY <3>1, <3>2
  <2>8. RowsOpen'
    <3> SUFFICES ASSUME NEW d \in Bank, mrq'[d] # None, tx'[mrq'[d]] > 0
                 PROVE  open[d] /\ row[d] = rowOf[mrq'[d]]
      BY <1>0 DEF RowsOpen
    <3>1. mrq'[d] = mrq[d]
      BY <2>2 DEF Types
    <3>2. QED BY <1>9, <3>1
  <2>9. Types'
    BY <1>0, <1>3, <1>5, <2>3 DEF Types
  <2>10. Placed(v)' /\ Books(v)'
    BY <1>0, <2>3, <2>4, <2>5, <2>6, PlacedNext, BooksNext
  <2>11. Counts(v, tx, dq)'
    BY <2>7 DEF Counts
  <2>12. Moved(w, v)
    <3>1. dq'[f] # tx'[f]
      BY <1>0, <1>5, <1>6
    <3>2. Moves(f, StateOf(w[f], tx[f], dq[f]), StateOf("none", tx'[f], dq'[f]))
      BY <1>2, <3>1 DEF Moves, StateOf
    <3>3. QED BY <1>0, <1>5, <2>1, <3>2, MovedOne DEF v
  <2>13. QED BY <1>7, <1>8, <2>1, <2>8, <2>9, <2>10, <2>11, <2>12 DEF Kept, Inv
\* ... or it has more of them to send.
<1>12. CASE ~(tx[f] + 1 >= atomsOf[f])
  <2>1. mrq' = mrq
    BY <1>1, <1>12 DEF ColumnCommand
  <2>2. Counts(w, tx', dq')
    <3> SUFFICES ASSUME NEW x \in Fetch
                 PROVE  /\ dq[x] <= tx'[x] /\ tx'[x] <= atomsOf[x]
                        /\ w[x] \in {"mrqq", "queue"} => tx'[x] = 0
                        /\ w[x] = "bank" => tx'[x] < atomsOf[x]
                        /\ w[x] = "returnq" => dq[x] = atomsOf[x]
                        /\ w[x] = "none" => tx'[x] \in {0, atomsOf[x]}
      BY <1>0 DEF Counts
    <3>1. CASE x = f
      BY <1>2, <1>5, <1>6, <1>12, <3>1
    <3>2. CASE x # f
      <4>1. tx'[x] = tx[x]
        BY <1>5, <3>2
      <4>2. QED BY <4>1 DEF Inv, Counts
    <3>3. QED BY <3>1, <3>2
  <2>3. RowsOpen'
    BY <1>0, <1>9, <2>1 DEF RowsOpen
  <2>4. Types'
    BY <1>0, <1>3, <1>5, <2>1 DEF Types
  <2>5. Placed(w)' /\ Books(w)'
    BY <1>0, <1>10, <2>1, PlacedNext, BooksNext
  <2>6. Counts(w, tx, dq)'
    BY <2>2 DEF Counts
  <2>7. Moved(w, w)
    <3>1. \A g \in Fetch : SameState(g, w, w)
      BY <1>0, <1>2, <1>5 DEF SameState, StateOf
    <3>2. QED BY <3>1 DEF Moved
  <2>8. QED BY <1>7, <1>8, <2>3, <2>4, <2>5, <2>6, <2>7 DEF Kept, Inv
<1>13. QED BY <1>11, <1>12

\* Only the rows, the program counter, prio, turn and the timers change.
LEMMA RestKeeps ==
    ASSUME NEW w \in [Fetch -> Where], Inv(w), UNCHANGED <<config, sched, mrq, data, returnq>>,
           Types', RowsOpen', Room'
    PROVE  Kept(w)
<1>1. UNCHANGED <<config, mrqq, queue, lastRow, pending, mrq, tx, dq, rwq, minLen, bus, returnq>>
  BY DEF sched, data
<1>2. Placed(w)' /\ Books(w)'
  BY <1>1, PlacedNext, BooksNext DEF Inv, Placed, Books
<1>3. Counts(w, tx, dq)' /\ BusInv' /\ RowsHeld'
  BY <1>1 DEF Counts, BusInv, RowsHeld, Inv
<1>4. QED BY <1>1, <1>2, <1>3, MovedNot DEF Kept, Inv

\* Outside the phases in which requests wait in mrqq, Room says nothing of the phase.
LEMMA RoomKept ==
    ASSUME Room, UNCHANGED <<config, sched>>, phase \notin {"pop", "data", "schedule"}
    PROVE  Room'
<1>1. UNCHANGED <<config, mrqq, pending>>
  BY DEF sched
<1>2. config.frfcfs => mrqq = <<>>
  BY DEF Room
<1>3. QED BY <1>1, <1>2 DEF Room

LEMMA RowKeeps ==
    ASSUME Types, NEW w \in [Fetch -> Where], Inv(w), phase \in {"row", "single"},
           UNCHANGED <<config, sched, returnq>>, turn'.next \in Nat,
           NEW b \in Bank, RowCommand(b)
    PROVE  Kept(w)
<1>0. /\ UNCHANGED <<config, mrqq, queue, lastRow, pending, mode, mrq, tx, dq, rwq, minLen, bus,
                     returnq>>
      /\ prio' = (b + 1) % NBank
  BY DEF RowCommand, sched, data
<1>1. prio' \in Bank
  <2>1. b \in Nat /\ NBank \in Nat \ {0}
    BY Constants DEF Bank
  <2>2. QED BY <1>0, <2>1 DEF Bank
<1>2. mrq[b] \in Fetch /\ rowOf[mrq[b]] \in Nat
  <2>1. mrq[b] # None
    BY DEF RowCommand, CanActivate, CanPrecharge
  <2>2. QED BY <2>1, Constants DEF Types
<1>3. /\ open' \in [Bank -> BOOLEAN] /\ row' \in [Bank -> Nat]
      /\ \A d \in Bank : d # b => open'[d] = open[d] /\ row'[d] = row[d]
  BY <1>2 DEF RowCommand, Types
<1>4. ~(open[b] /\ row[b] = rowOf[mrq[b]])
  BY DEF RowCommand, CanActivate, CanPrecharge
<1>5. RowsOpen'
  <2> SUFFICES ASSUME NEW d \in Bank, mrq[d] # None, tx[mrq[d]] > 0
               PROVE  open'[d] /\ row'[d] = rowOf[mrq[d]]
    BY <1>0 DEF RowsOpen
  <2>1. open[d] /\ row[d] = rowOf[mrq[d]]
    BY DEF Inv, RowsOpen
  <2>2. QED BY <1>3, <1>4, <2>1
<1>6. Types'
  BY <1>0, <1>1, <1>3 DEF Types
<1>7. Room'
  BY RoomKept DEF Inv
<1>8. QED BY <1>0, <1>5, <1>6, <1>7, RestKeeps DEF sched, data

\* Nothing but the program counter, turn and the timers changes.
LEMMA NothingKeeps ==
    ASSUME Types, NEW w \in [Fetch -> Where], Inv(w), turn'.next \in Nat, Room',
           UNCHANGED <<config, sched, banks, data, returnq, prio>>
    PROVE  Kept(w)
<1>1. UNCHANGED <<config, mrqq, queue, lastRow, pending, mode, mrq, open, row, tx, dq, rwq,
                  minLen, bus, returnq, prio>>
  BY DEF sched, banks, data
<1>2. Types' /\ RowsOpen'
  BY <1>1 DEF Types, RowsOpen, Inv
<1>3. QED BY <1>1, <1>2, RestKeeps DEF sched, data

\* The banks in turn are banks.
LEMMA TurnKeeps ==
    ASSUME Types, NEW w \in [Fetch -> Where], Inv(w), phase \in {"column", "row", "single"},
           UNCHANGED <<config, sched, returnq>>, turn'.next \in Nat, Nothing
    PROVE  Kept(w)
BY RoomKept, NothingKeeps DEF Inv, Nothing

LEMMA DualColumnKeeps ==
    ASSUME Types, NEW w \in [Fetch -> Where], Inv(w), DualColumn
    PROVE  Kept(w)
<1>1. phase = "column" /\ UNCHANGED <<config, sched, returnq>> /\ turn'.next \in Nat
  BY DEF DualColumn, Types
<1>2. CASE Nothing
  BY <1>1, <1>2, TurnKeeps
<1>3. CASE ~Nothing
  <2>1. PICK i \in Bank : CanColumn(InTurn(i)) /\ ColumnCommand(InTurn(i))
    BY <1>3 DEF DualColumn, FirstInTurn
  <2>2. i \in Nat /\ prio \in Bank
    BY DEF Types, Bank
  <2>3. InTurn(i) \in Bank
    BY <2>2, InTurnType
  <2>4. QED BY <1>1, <2>1, <2>3, ColumnKeeps
<1>4. QED BY <1>2, <1>3

LEMMA DualRowKeeps ==
    ASSUME Types, NEW w \in [Fetch -> Where], Inv(w), DualRow
    PROVE  Kept(w)
<1>1. phase = "row" /\ UNCHANGED <<config, sched, returnq>> /\ turn'.next \in Nat
  BY DEF DualRow, Types
<1>2. CASE Nothing
  BY <1>1, <1>2, TurnKeeps
<1>3. CASE ~Nothing
  <2>1. PICK i \in Bank : RowCommand(InTurn(i))
    BY <1>3 DEF DualRow, FirstInTurn
  <2>2. i \in Nat /\ prio \in Bank
    BY DEF Types, Bank
  <2>3. InTurn(i) \in Bank
    BY <2>2, InTurnType
  <2>4. QED BY <1>1, <2>1, <2>3, RowKeeps
<1>4. QED BY <1>2, <1>3

LEMMA SingleBusKeeps ==
    ASSUME Types, NEW w \in [Fetch -> Where], Inv(w), SingleBus
    PROVE  Kept(w)
<1> DEFINE b == InTurn(turn.next)
<1>1. phase = "single" /\ UNCHANGED <<config, sched, returnq>>
  BY DEF SingleBus
<1>2. turn'.next = turn.next + 1 /\ turn.next \in Nat /\ prio \in Bank
  BY DEF SingleBus, Types
<1>3. b \in Bank /\ turn'.next \in Nat
  BY <1>2, InTurnType
<1>4. (CanColumn(b) /\ ColumnCommand(b)) \/ RowCommand(b) \/ Nothing
  BY DEF SingleBus
<1> HIDE DEF b
<1>5. CASE CanColumn(b) /\ ColumnCommand(b)
  BY <1>1, <1>3, <1>5, ColumnKeeps
<1>6. CASE RowCommand(b)
  BY <1>1, <1>3, <1>6, RowKeeps
<1>7. CASE Nothing
  BY <1>1, <1>3, <1>7, TurnKeeps
<1>8. QED BY <1>4, <1>5, <1>6, <1>7

LEMMA TickKeeps ==
    ASSUME Types, NEW w \in [Fetch -> Where], Inv(w), Tick
    PROVE  Kept(w)
<1>1. UNCHANGED <<config, sched, banks, data, returnq, prio>> /\ phase = "tick" /\ turn' = NewTurn
  BY DEF Tick
<1>2. turn'.next \in Nat
  BY <1>1 DEF NewTurn
<1>3. Room'
  BY <1>1, RoomKept DEF Inv
<1>4. QED BY <1>1, <1>2, <1>3, NothingKeeps

LEMMA NoPushKeeps ==
    ASSUME Types, NEW w \in [Fetch -> Where], Inv(w), NoPush
    PROVE  Kept(w)
<1>1. /\ UNCHANGED <<config, sched, banks, data, returnq, prio, turn>> /\ phase = "push"
      /\ turn'.next \in Nat
  BY DEF NoPush, Types
<1>2. Room'
  BY <1>1, RoomKept DEF Inv
<1>3. QED BY <1>1, <1>2, NothingKeeps

LEMMA StutterKeeps ==
    ASSUME Types, NEW w \in [Fetch -> Where], Inv(w), UNCHANGED vars
    PROVE  Kept(w)
<1>1. /\ UNCHANGED <<config, phase, sched, banks, data, returnq, prio, turn>>
      /\ turn'.next \in Nat
  BY DEF vars, Types
<1>2. Room'
  BY <1>1 DEF Room, Inv, sched, ClassOf
<1>3. QED BY <1>1, <1>2, NothingKeeps

DramInv == Types /\ \E w \in [Fetch -> Where] : Inv(w)

LEMMA InvInit == Init => DramInv
<1> SUFFICES ASSUME Init PROVE DramInv
  OBVIOUS
<1> DEFINE w == [f \in Fetch |-> "none"]
<1>0. /\ CL \in Nat \ {0} /\ WL \in Nat \ {0} /\ SchedQ \in Nat /\ WriteQ \in Nat
      /\ NBank \in Nat \ {0} /\ \A f \in Fetch : atomsOf[f] \in Nat \ {0} /\ bankOf[f] \in Bank
  BY Constants
<1>1. /\ rwq = [i \in 1 .. CL |-> None] /\ rwq \in Seq(Slot) /\ Len(rwq) = CL
      /\ Range(rwq) \subseteq {None}
  <2>1. rwq = [i \in 1 .. CL |-> None]
    BY DEF Init, Pipe!Padding
  <2>2. QED BY <1>0, <2>1 DEF Slot, Range
<1>2. \A f \in Fetch : Occurs(f, rwq) = 0
  BY <1>1, OccursType, NoneIsNoFetch
<1>3. Types
  <2>1. 0 \in Bank /\ NewTurn.next \in Nat
    BY <1>0 DEF Bank, NewTurn
  <2>2. <<>> \in Seq(Fetch)
    OBVIOUS
  <2>3. QED BY <1>1, <2>1, <2>2 DEF Init, Types, Class
<1>4. w \in [Fetch -> Where] /\ \A f \in Fetch : w[f] = "none"
  BY DEF Where
<1> HIDE DEF w
<1>5. Placed(w)
  <2>1. \A S, l : S \subseteq Fetch /\ l # "none" => Holds(S, <<>>, w, l)
    BY <1>4 DEF Holds, NoRepeat, Range
  <2>2. \A c \in Class, b \in Bank : Of(c, b) \subseteq Fetch /\ queue[c][b] = <<>>
    BY DEF Of, Init
  <2>3. \A b \in Bank : mrq[b] = None
    BY DEF Init
  <2>4. BanksHold(mrq, w)
    BY <1>0, <1>4, <2>3, NoneIsNoFetch DEF BanksHold
  <2>5. QED BY <2>1, <2>2, <2>4 DEF Placed, QueuesHold, Init
<1>6. Counts(w, tx, dq)
  BY <1>0, <1>4 DEF Counts, Init
<1>7. RowsOpen /\ RowsHeld
  <2>1. \A b \in Bank : mrq[b] = None
    BY DEF Init
  <2>2. \A c \in Class, b \in Bank : lastRow[c][b] = None
    BY DEF Init
  <2>3. QED BY <2>1, <2>2 DEF RowsOpen, RowsHeld
<1>8. BusInv
  <2>1. minLen = CL /\ bus = "read" /\ \A f \in Fetch : tx[f] = 0 /\ dq[f] = 0
    BY DEF Init
  <2>2. QED BY <1>0, <1>1, <1>2, <2>1 DEF BusInv
<1>9. Books(w)
  <2>1. \A c : InQueues(w, c) = {}
    BY <1>4 DEF InQueues
  <2>2. QED BY <2>1, FS_EmptySet DEF Books, Init
<1>10. Room
  BY <1>0 DEF Room, Init, Limit, Class, MrqQ
<1>11. QED BY <1>3, <1>4, <1>5, <1>6, <1>7, <1>8, <1>9, <1>10 DEF DramInv, Inv

LEMMA StepKeeps ==
    ASSUME Types, NEW w \in [Fetch -> Where], Inv(w), [Next]_vars
    PROVE  Kept(w)
<1>1. CASE DataBus
  BY <1>1, DataBusKeeps
<1>2. CASE ScheduleFifo
  BY <1>2, ScheduleFifoKeeps
<1>3. CASE AddRequests
  BY <1>3, AddRequestsKeeps
<1>4. CASE ScheduleBank
  BY <1>4, ScheduleBankKeeps
<1>5. CASE DualColumn
  BY <1>5, DualColumnKeeps
<1>6. CASE DualRow
  BY <1>6, DualRowKeeps
<1>7. CASE SingleBus
  BY <1>7, SingleBusKeeps
<1>8. CASE Tick
  BY <1>8, TickKeeps
<1>9. CASE NoPush
  BY <1>9, NoPushKeeps
<1>10. ASSUME NEW takes \in BOOLEAN, PopReply(takes) PROVE Kept(w)
  BY <1>10, PopReplyKeeps
<1>11. ASSUME NEW f \in Fetch, Push(f) PROVE Kept(w)
  BY <1>11, PushKeeps
<1>12. CASE UNCHANGED vars
  BY <1>12, StutterKeeps
<1>13. QED BY <1>1, <1>2, <1>3, <1>4, <1>5, <1>6, <1>7, <1>8, <1>9, <1>10, <1>11, <1>12
           DEF Next, Cycle

LEMMA InvNext == DramInv /\ [Next]_vars => DramInv'
<1> SUFFICES ASSUME Types, NEW w \in [Fetch -> Where], Inv(w), [Next]_vars PROVE DramInv'
  BY DEF DramInv
<1>1. Kept(w)
  BY StepKeeps
<1>2. QED BY <1>1 DEF Kept, DramInv

LEMMA InvHolds == Spec => []DramInv
BY InvInit, InvNext, PTL DEF Spec

-----------------------------------------------------------------------------
(* What the properties say *)

LEMMA SchedulerInv ==
    ASSUME Types, NEW w \in [Fetch -> Where], Inv(w)
    PROVE  SchedulerExact
<1>1. mrqq \in Seq(Fetch) /\ Len(mrqq) \in Nat /\ Len(mrqq) <= MrqQ
  <2>1. mrqq \in Seq(Fetch) /\ Len(mrqq) \in Nat /\ (mrqq = <<>> => Len(mrqq) = 0)
    BY DEF Types
  <2>2. Len(mrqq) <= MrqQ \/ mrqq = <<>> \/ Len(mrqq) = 1
    BY DEF Inv, Room
  <2>3. QED BY <2>1, <2>2 DEF MrqQ
<1>2. ASSUME NEW c \in Class, NEW b \in Bank, NEW f \in Range(queue[c][b])
      PROVE  ClassOf(f) = c /\ bankOf[f] = b
  BY <1>2 DEF Inv, Placed, QueuesHold, Holds, Of
<1>3. ASSUME NEW c \in Class
      PROVE  pending[c] = Cardinality(UNION {Range(queue[c][b]) : b \in Bank})
  <2> DEFINE U == UNION {Range(queue[c][b]) : b \in Bank}
  <2>1. ASSUME NEW f PROVE f \in U <=> f \in InQueues(w, c)
    <3>1. \A b \in Bank : Range(queue[c][b]) = {x \in Of(c, b) : w[x] = "queue"}
      BY DEF Inv, Placed, QueuesHold, Holds
    <3>2. f \in Fetch => bankOf[f] \in Bank
      BY Constants
    <3>3. QED BY <3>1, <3>2 DEF InQueues, Of
  <2> HIDE DEF U
  <2>2. U = InQueues(w, c)
    BY <2>1
  <2>3. pending[c] = Cardinality(U)
    BY <2>2 DEF Inv, Books
  <2>4. QED BY <2>3 DEF U
<1>4. ASSUME NEW c \in Class, config.frfcfs
      PROVE  pending[c] + Cardinality({i \in DOMAIN mrqq : ClassOf(mrqq[i]) = c}) <= Limit[c]
  <2> DEFINE A == {i \in DOMAIN mrqq : ClassOf(mrqq[i]) = c}
  <2>1. pending[c] \in Nat /\ Limit[c] \in Nat /\ pending[c] <= Limit[c]
    BY <1>4, Constants DEF Inv, Room, Types, Limit, Class
  <2>2. CASE A = {}
    BY <2>1, <2>2, FS_EmptySet
  <2>3. CASE A # {}
    <3>1. mrqq # <<>>
      BY <1>1, <2>3
    <3>2. Len(mrqq) = 1 /\ pending[ClassOf(Head(mrqq))] < Limit[ClassOf(Head(mrqq))]
      BY <1>4, <3>1 DEF Inv, Room
    <3>3. DOMAIN mrqq = {1} /\ Head(mrqq) = mrqq[1]
      BY <1>1, <3>2
    <3>4. A = {1} /\ ClassOf(Head(mrqq)) = c
      BY <2>3, <3>3
    <3>5. Cardinality(A) = 1
      BY <3>4, FS_Singleton
    <3>6. QED BY <2>1, <3>2, <3>4, <3>5
  <2>4. QED BY <2>2, <2>3
<1>5. \A c \in Class, b \in Bank : lastRow[c][b] # None => InRow(queue[c][b], lastRow[c][b]) # {}
  BY DEF Inv, RowsHeld
<1>6. QED BY <1>1, <1>2, <1>3, <1>4, <1>5 DEF SchedulerExact

\* How often a fetch occurs where it waits.
LEMMA Waits ==
    ASSUME Types, NEW w \in [Fetch -> Where], Inv(w), NEW f \in Fetch
    PROVE  /\ Occurs(f, mrqq) = IF w[f] = "mrqq" THEN 1 ELSE 0
           /\ Occurs(f, returnq) = IF w[f] = "returnq" THEN 1 ELSE 0
           /\ \A c \in Class, b \in Bank : Occurs(f, queue[c][b]) <= 1
           /\ Cardinality({z \in Class \X Bank : Occurs(f, queue[z[1]][z[2]]) = 1}) =
              IF w[f] = "queue" THEN 1 ELSE 0
<1>1. Occurs(f, mrqq) = IF w[f] = "mrqq" THEN 1 ELSE 0
  <2>1. mrqq \in Seq(Fetch) /\ NoRepeat(mrqq) /\ (f \in Range(mrqq) <=> w[f] = "mrqq")
    BY NotPresent DEF Types, Inv, Placed, Holds
  <2>2. QED BY <2>1, OccursOnce
<1>2. Occurs(f, returnq) = IF w[f] = "returnq" THEN 1 ELSE 0
  <2>1. returnq \in Seq(Fetch) /\ NoRepeat(returnq) /\ (f \in Range(returnq) <=> w[f] = "returnq")
    BY NotPresent DEF Types, Inv, Placed, Holds
  <2>2. QED BY <2>1, OccursOnce
<1>3. ASSUME NEW c \in Class, NEW b \in Bank
      PROVE  /\ Occurs(f, queue[c][b]) <= 1
             /\ Occurs(f, queue[c][b]) = 1 <=> w[f] = "queue" /\ f \in Of(c, b)
  <2>1. queue[c][b] \in Seq(Fetch) /\ Holds(Of(c, b), queue[c][b], w, "queue")
    BY DEF Types, Inv, Placed, QueuesHold
  <2>2. Occurs(f, queue[c][b]) = IF f \in Range(queue[c][b]) THEN 1 ELSE 0
    BY <2>1, OccursOnce DEF Holds
  <2>3. f \in Range(queue[c][b]) <=> w[f] = "queue" /\ f \in Of(c, b)
    BY <2>1 DEF Holds
  <2>4. QED BY <2>2, <2>3
<1> DEFINE Z == {z \in Class \X Bank : Occurs(f, queue[z[1]][z[2]]) = 1}
<1>4. \A z \in Class \X Bank : z[1] \in Class /\ z[2] \in Bank /\ z = <<z[1], z[2]>>
  OBVIOUS
<1>5. \A z \in Class \X Bank : z \in Z <=> w[f] = "queue" /\ f \in Of(z[1], z[2])
  BY <1>3, <1>4
<1>6. ClassOf(f) \in Class /\ bankOf[f] \in Bank
  BY ClassOfType, Constants
<1>7. Cardinality(Z) = IF w[f] = "queue" THEN 1 ELSE 0
  <2>1. CASE w[f] = "queue"
    <3> DEFINE home == <<ClassOf(f), bankOf[f]>>
    <3>1. home \in Class \X Bank /\ home[1] = ClassOf(f) /\ home[2] = bankOf[f]
      BY <1>6
    <3>2. \A z \in Z : z \in Class \X Bank
      OBVIOUS
    <3> HIDE DEF Z
    <3>3. home \in Z
      BY <1>5, <2>1, <3>1 DEF Of
    <3>4. \A z \in Z : z = home
      BY <1>4, <1>5, <3>2 DEF Of
    <3> HIDE DEF home
    <3>5. Z = {home}
      BY <3>3, <3>4
    <3>6. QED BY <2>1, <3>5, FS_Singleton
  <2>2. CASE w[f] # "queue"
    <3>1. \A z \in Z : z \in Class \X Bank
      OBVIOUS
    <3> HIDE DEF Z
    <3>2. Z = {}
      BY <1>5, <2>2, <3>1
    <3>3. QED BY <2>2, <3>2, FS_EmptySet
  <2>3. QED BY <2>1, <2>2
<1>8. QED BY <1>1, <1>2, <1>3, <1>7

LEMMA AtomsInv ==
    ASSUME Types, NEW w \in [Fetch -> Where], Inv(w)
    PROVE  AtomsConserved
<1> SUFFICES ASSUME NEW f \in Fetch
    PROVE LET waits == Occurs(f, mrqq)
                       + Cardinality({z \in Class \X Bank : Occurs(f, queue[z[1]][z[2]]) = 1})
              works == mrq[bankOf[f]] = f
              answered == Occurs(f, returnq)
          IN
          /\ Occurs(f, rwq) = tx[f] - dq[f]
          /\ \A c \in Class, b \in Bank : Occurs(f, queue[c][b]) <= 1
          /\ waits + (IF works THEN 1 ELSE 0) + answered <= 1
          /\ waits = 1 => tx[f] = 0
          /\ works => tx[f] < atomsOf[f]
          /\ works /\ tx[f] > 0 => open[bankOf[f]] /\ row[bankOf[f]] = rowOf[f]
          /\ waits + (IF works THEN 1 ELSE 0) = 0 => tx[f] \in {0, atomsOf[f]}
          /\ answered = 1 => dq[f] = atomsOf[f]
          /\ \A b \in Bank : mrq[b] = f => b = bankOf[f]
  BY DEF AtomsConserved
<1> DEFINE waits == Occurs(f, mrqq)
                    + Cardinality({z \in Class \X Bank : Occurs(f, queue[z[1]][z[2]]) = 1})
           works == mrq[bankOf[f]] = f
           answered == Occurs(f, returnq)
<1>1. w[f] \in Where
  OBVIOUS
<1>2. /\ waits = (IF w[f] \in {"mrqq", "queue"} THEN 1 ELSE 0)
      /\ answered = (IF w[f] = "returnq" THEN 1 ELSE 0)
      /\ \A c \in Class, b \in Bank : Occurs(f, queue[c][b]) <= 1
  BY Waits
<1>3. works <=> w[f] = "bank"
  BY DEF Inv, Placed, BanksHold
<1>4. Occurs(f, rwq) = tx[f] - dq[f]
  BY DEF Inv, BusInv
<1>5. \A b \in Bank : mrq[b] = f => b = bankOf[f]
  BY NoneIsNoFetch DEF Inv, Placed, BanksHold
<1>6. works /\ tx[f] > 0 => open[bankOf[f]] /\ row[bankOf[f]] = rowOf[f]
  <2>1. bankOf[f] \in Bank /\ f # None
    BY Constants, NoneIsNoFetch
  <2>2. QED BY <2>1 DEF Inv, RowsOpen
<1> HIDE DEF waits, works, answered
<1>7. waits + (IF works THEN 1 ELSE 0) + answered <= 1
  BY <1>1, <1>2, <1>3 DEF Where
<1>8. /\ waits = 1 => tx[f] = 0
      /\ works => tx[f] < atomsOf[f]
      /\ answered = 1 => dq[f] = atomsOf[f]
  BY <1>2, <1>3 DEF Inv, Counts
<1>9. waits + (IF works THEN 1 ELSE 0) = 0 => tx[f] \in {0, atomsOf[f]}
  <2>1. SUFFICES ASSUME waits + (IF works THEN 1 ELSE 0) = 0 PROVE tx[f] \in {0, atomsOf[f]}
    OBVIOUS
  <2>2. w[f] \notin {"mrqq", "queue", "bank"}
    BY <1>2, <1>3, <2>1
  <2>3. CASE w[f] = "none"
    BY <2>3 DEF Inv, Counts
  <2>4. CASE w[f] = "returnq"
    <3>1. dq[f] = atomsOf[f] /\ dq[f] <= tx[f] /\ tx[f] <= atomsOf[f]
      BY <2>4 DEF Inv, Counts
    <3>2. tx[f] \in Nat /\ dq[f] \in Nat
      BY DEF Types
    <3>3. QED BY <3>1, <3>2
  <2>5. QED BY <1>1, <2>2, <2>3, <2>4 DEF Where
<1>10. QED BY <1>2, <1>4, <1>5, <1>6, <1>7, <1>8, <1>9 DEF waits, works, answered

\* Types of the state, for every length of a run.
THEOREM TypeCorrect == Spec => []Types
<1>1. DramInv => Types
  BY DEF DramInv
<1>2. QED BY <1>1, InvHolds, PTL

\* The books of the scheduler: full() lets in no more than the queues hold, the
\* counters count what is queued, and a row that is served has a request.
THEOREM SchedulerCorrect == Spec => []SchedulerExact
<1>1. DramInv => SchedulerExact
  BY SchedulerInv DEF DramInv
<1>2. QED BY <1>1, InvHolds, PTL

\* Every request waits, is worked on or is answered in one place, and its atoms
\* that were sent and have not arrived are in the data bus pipeline.
THEOREM AtomsCorrect == Spec => []AtomsConserved
<1>1. DramInv => AtomsConserved
  BY AtomsInv DEF DramInv
<1>2. QED BY <1>1, InvHolds, PTL

-----------------------------------------------------------------------------
(* The latency of an atom *)

\* Only a column command of its bank sends an atom of a fetch.
LEMMA SentByColumn ==
    ASSUME Types, [Next]_vars, NEW f \in Fetch, tx'[f] > tx[f]
    PROVE  \E b \in Bank : mrq[b] = f /\ ColumnCommand(b)
<1>1. tx[f] \in Nat
  BY DEF Types
<1>2. UNCHANGED tx => FALSE
  BY <1>1
<1>3. ASSUME NEW i \in Nat, ColumnCommand(InTurn(i))
      PROVE  \E b \in Bank : mrq[b] = f /\ ColumnCommand(b)
  <2>1. InTurn(i) \in Bank
    BY InTurnType DEF Types
  <2>2. tx' = [tx EXCEPT ![mrq[InTurn(i)]] = @ + 1]
    BY <1>3 DEF ColumnCommand
  <2>3. mrq[InTurn(i)] = f
    BY <1>1, <2>2 DEF Types
  <2>4. QED BY <1>3, <2>1, <2>3
<1>4. \A b : RowCommand(b) => UNCHANGED tx
  BY DEF RowCommand, data
<1>5. Nothing => UNCHANGED tx
  BY DEF Nothing, data
<1>6. CASE DualColumn
  <2>1. \E i \in Bank : ColumnCommand(InTurn(i))
    BY <1>2, <1>5, <1>6 DEF DualColumn, FirstInTurn
  <2>2. QED BY <1>3, <2>1 DEF Bank
<1>7. CASE SingleBus
  <2>1. ColumnCommand(InTurn(turn.next))
    BY <1>2, <1>4, <1>5, <1>7 DEF SingleBus
  <2>2. QED BY <1>3, <2>1 DEF Types
<1>8. ~DualRow
  BY <1>2, <1>4, <1>5 DEF DualRow, FirstInTurn
<1>9. ASSUME NEW g \in Fetch, Push(g) PROVE FALSE
  <2>1. tx' = [tx EXCEPT ![g] = 0]
    BY <1>9 DEF Push
  <2>2. QED BY <1>1, <2>1 DEF Types
<1>10. ~(DataBus \/ ScheduleFifo \/ AddRequests \/ ScheduleBank \/ Tick \/ NoPush \/ UNCHANGED vars)
  BY <1>2 DEF DataBus, ScheduleFifo, AddRequests, ScheduleBank, Tick, NoPush, vars, data
<1>11. ASSUME NEW takes, PopReply(takes) PROVE FALSE
  BY <1>2, <1>11 DEF PopReply, data
<1>12. QED BY <1>6, <1>7, <1>8, <1>9, <1>10, <1>11 DEF Next, Cycle

LEMMA LatencyStep ==
    ASSUME DramInv, [Next]_vars, NEW f \in Fetch, tx'[f] > tx[f]
    PROVE  LET last == CHOOSE i \in DOMAIN rwq' :
                          rwq'[i] = f /\ \A j \in DOMAIN rwq' : rwq'[j] = f => j <= i
           IN  last >= (IF IsWrite(f) THEN WL ELSE CL)
<1>1. Types /\ BusInv
  BY DEF DramInv, Inv
<1>2. PICK b \in Bank : mrq[b] = f /\ ColumnCommand(b)
  BY <1>1, SentByColumn
<1>3. PICK q : q = rwq'
  OBVIOUS
<1> DEFINE length == IF IsWrite(f) THEN WL ELSE CL
           P == {j \in DOMAIN q : q[j] = f}
           IsLast(i) == q[i] = f /\ \A j \in DOMAIN q : q[j] = f => j <= i
           last == CHOOSE i \in DOMAIN q : IsLast(i)
<1>4. q \in Seq(Slot) /\ \E i \in DOMAIN q : i >= length /\ q[i] = f
  BY <1>1, <1>2, <1>3, AtomSent
<1>5. length \in Nat
  BY Constants
<1> HIDE DEF length
<1>6. PICK i \in P : i >= length
  BY <1>4
<1>7. DOMAIN q = 1 .. Len(q) /\ Len(q) \in Nat
  BY <1>4
<1>8. PICK m \in P : \A j \in P : j <= m
  <2>1. P \in SUBSET (0 .. Len(q)) /\ P # {}
    BY <1>6, <1>7
  <2> HIDE DEF P
  <2>2. QED BY <1>7, <2>1, LargestOfNats
<1>9. m \in DOMAIN q /\ IsLast(m)
  BY <1>8
<1> HIDE DEF IsLast
<1>10. last \in DOMAIN q /\ IsLast(last)
  BY <1>9
<1>11. i <= last
  BY <1>6, <1>10 DEF IsLast
<1>12. last >= length
  BY <1>5, <1>6, <1>7, <1>10, <1>11
<1>13. QED BY <1>3, <1>12 DEF IsLast, length

\* No atom leaves the data bus pipeline sooner than its latency, also right after
\* the bus turned around.
THEOREM LatencyCorrect == Spec => ColumnLatency
<1>1. DramInv /\ [Next]_vars =>
         [\A f \in Fetch : tx'[f] > tx[f] =>
             LET last == CHOOSE i \in DOMAIN rwq' :
                            rwq'[i] = f /\ \A j \in DOMAIN rwq' : rwq'[j] = f => j <= i
             IN  last >= (IF IsWrite(f) THEN WL ELSE CL)]_vars
  BY LatencyStep
<1>2. QED BY <1>1, InvHolds, PTL DEF Spec, ColumnLatency

-----------------------------------------------------------------------------
(* Refinement *)

\* What the memory partition sees of a fetch follows from its place and atoms.
LEMMA ServiceStateIs ==
    Types => \A w \in [Fetch -> Where] : Inv(w) =>
        ServiceState = [f \in Fetch |-> StateOf(w[f], tx[f], dq[f])]
<1> SUFFICES ASSUME Types, NEW w \in [Fetch -> Where], Inv(w), NEW f \in Fetch
             PROVE  (IF f \notin Present THEN "idle"
                     ELSE IF f \in Range(returnq) THEN "answered" ELSE "pending")
                    = StateOf(w[f], tx[f], dq[f])
  BY DEF ServiceState
<1>1. f \notin Range(rwq) <=> tx[f] = dq[f]
  <2>1. f \notin Range(rwq) <=> Occurs(f, rwq) = 0
    BY OccursType DEF Types
  <2>2. Occurs(f, rwq) = tx[f] - dq[f] /\ tx[f] \in Nat /\ dq[f] \in Nat
    BY DEF Inv, BusInv, Types
  <2>3. QED BY <2>1, <2>2
<1>2. /\ f \notin Present <=> w[f] = "none" /\ f \notin Range(rwq)
      /\ w[f] = "returnq" <=> f \in Range(returnq)
  BY NotPresent
<1>3. QED BY <1>1, <1>2 DEF StateOf

LEMMA ServiceStateNext ==
    (Types => \A w \in [Fetch -> Where] : Inv(w) =>
        ServiceState = [f \in Fetch |-> StateOf(w[f], tx[f], dq[f])])'
BY ServiceStateIs, PTL

\* The channel answers each read and write once and retires a writeback without
\* an answer, whatever the scheduler, the banks and the bus do in between.
THEOREM Refinement == Spec => ImplementsService
<1>1. Init => Service!Init
  <2> SUFFICES ASSUME Init PROVE \A f \in Fetch : f \notin Present
    BY DEF Service!Init, ServiceState
  <2>1. DramInv
    BY InvInit
  <2>2. PICK w \in [Fetch -> Where] : Types /\ Inv(w)
    BY <2>1 DEF DramInv
  <2>3. Range(mrqq) = {} /\ Range(returnq) = {} /\ \A c \in Class, b \in Bank : Range(queue[c][b]) = {}
    BY DEF Init, Range
  <2>4. \A x \in Range(mrq) \cup Range(rwq) : x = None
    BY DEF Init, Range, Pipe!Padding
  <2>5. QED BY <2>3, <2>4 DEF Present, Queued, Moving
<1>2. DramInv /\ [Next]_vars => [Service!Next]_ServiceState
  <2> SUFFICES ASSUME Types, NEW w \in [Fetch -> Where], Inv(w), [Next]_vars
               PROVE  [Service!Next]_ServiceState
    BY DEF DramInv
  <2>1. PICK v \in [Fetch -> Where] : Types' /\ Inv(v)' /\ Moved(w, v)
    BY StepKeeps DEF Kept
  <2>2. PICK s, t : s = ServiceState /\ t = ServiceState'
    OBVIOUS
  <2>3. /\ s = [f \in Fetch |-> StateOf(w[f], tx[f], dq[f])]
        /\ t = [f \in Fetch |-> StateOf(v[f], tx'[f], dq'[f])]
    BY <2>1, <2>2, ServiceStateIs, ServiceStateNext
  <2>4. CASE \A g \in Fetch : SameState(g, w, v)
    <3>1. s = t
      BY <2>3, <2>4 DEF SameState
    <3>2. QED BY <2>2, <3>1
  <2>5. CASE ~(\A g \in Fetch : SameState(g, w, v))
    <3>1. PICK f \in Fetch :
             /\ Moves(f, StateOf(w[f], tx[f], dq[f]), StateOf(v[f], tx'[f], dq'[f]))
             /\ \A g \in Fetch : g # f => SameState(g, w, v)
      BY <2>1, <2>5 DEF Moved
    <3>2. s[f] # t[f] /\ t = [s EXCEPT ![f] = t[f]]
      BY <2>3, <2>5, <3>1 DEF SameState
    <3>3. Moves(f, s[f], t[f])
      BY <2>3, <3>1
    <3>4. f \in {g \in Fetch : IsWriteback(g)} <=> IsWriteback(f)
      OBVIOUS
    <3>5. QED BY <2>2, <3>2, <3>3, <3>4 DEF Moves, Service!Next, Service!Accept, Service!Answer,
                 Service!Take, Service!Retire, Service!Move
  <2>6. QED BY <2>4, <2>5
<1>3. QED BY <1>1, <1>2, InvHolds, PTL DEF Spec, ImplementsService, Service!Spec

=============================================================================
