---------------------------- MODULE Queues_proof ----------------------------
(***************************************************************************)
(* What taking the head of a queue and appending to it do to a family of   *)
(* queues, and facts about numbers and counts that several proofs need.    *)
(***************************************************************************)
EXTENDS Queues, SequenceTheorems, FiniteSetTheorems, WellFoundedInduction, TLAPS

\* Taking the head of a queue leaves a queue of the same kind, one shorter.
LEMMA HeadTail ==
    ASSUME NEW S, NEW q \in Seq(S), q # <<>>
    PROVE  /\ Head(q) \in S /\ Head(q) \in Range(q)
           /\ Tail(q) \in Seq(S)
           /\ Len(q) > 0 /\ Len(Tail(q)) = Len(q) - 1
<1>1. /\ Tail(q) \in Seq(S) /\ Len(q) > 0 /\ Len(Tail(q)) = Len(q) - 1
      /\ Head(q) \in S /\ 1 \in DOMAIN q /\ Head(q) = q[1]
  OBVIOUS
<1>2. QED BY <1>1 DEF Range

\* The empty queue is the one of length 0.
LEMMA EmptyLength ==
    ASSUME NEW S, NEW q \in Seq(S)
    PROVE  q = <<>> <=> Len(q) = 0
BY EmptySeq

\* What is in a queue of a type is of that type.
LEMMA SeqRange ==
    ASSUME NEW S, NEW q \in Seq(S)
    PROVE  Range(q) \subseteq S
BY DEF Range

\* Appending to a queue makes it one longer.
LEMMA AppendType ==
    ASSUME NEW S, NEW q \in Seq(S), NEW x \in S
    PROVE  Append(q, x) \in Seq(S) /\ Len(Append(q, x)) = Len(q) + 1
OBVIOUS

\* Without repetitions, the tail of a queue holds all but the head.
LEMMA TailRange ==
    ASSUME NEW S, NEW q \in Seq(S), q # <<>>, NoRepeat(q)
    PROVE  NoRepeat(Tail(q)) /\ Range(Tail(q)) = Range(q) \ {Head(q)}
<1> DEFINE n == Len(q)
           t == Tail(q)
<1>1. /\ n \in Nat /\ n > 0 /\ DOMAIN q = 1 .. n /\ DOMAIN t = 1 .. n - 1
      /\ Head(q) = q[1]
      /\ \A i \in 1 .. n - 1 : t[i] = q[i + 1]
  OBVIOUS
<1>2. \A i, j \in 1 .. n : q[i] = q[j] => i = j
  BY <1>1 DEF NoRepeat
<1> HIDE DEF n, t
<1>3. \A i \in 1 .. n - 1 : i + 1 \in 1 .. n /\ i + 1 # 1
  BY <1>1
<1>4. \A i \in 1 .. n : i # 1 => i - 1 \in 1 .. n - 1 /\ (i - 1) + 1 = i
  BY <1>1
<1>5. NoRepeat(t)
  <2>1. \A i, j \in 1 .. n - 1 : t[i] = t[j] => i + 1 = j + 1
    BY <1>1, <1>2, <1>3
  <2>2. \A i, j \in 1 .. n - 1 : i + 1 = j + 1 => i = j
    BY <1>1
  <2>3. QED BY <1>1, <2>1, <2>2 DEF NoRepeat
<1>6. ASSUME NEW x \in Range(t) PROVE x \in Range(q) \ {Head(q)}
  <2>1. PICK i \in 1 .. n - 1 : t[i] = x
    BY <1>1, <1>6 DEF Range
  <2>2. q[i + 1] = x /\ i + 1 \in 1 .. n /\ i + 1 # 1 /\ 1 \in 1 .. n
    BY <1>1, <1>3, <2>1
  <2>3. x # q[1]
    BY <1>2, <2>2
  <2>4. QED BY <1>1, <2>2, <2>3 DEF Range
<1>7. ASSUME NEW x \in Range(q), x # Head(q) PROVE x \in Range(t)
  <2>1. PICK i \in 1 .. n : q[i] = x
    BY <1>1, <1>7 DEF Range
  <2>2. i - 1 \in 1 .. n - 1 /\ t[i - 1] = x
    BY <1>1, <1>4, <1>7, <2>1
  <2>3. QED BY <1>1, <2>2 DEF Range
<1>8. QED
  BY <1>5, <1>6, <1>7 DEF t

\* Appending a new object adds it and repeats nothing.
LEMMA AppendRange ==
    ASSUME NEW S, NEW q \in Seq(S), NEW x \in S, x \notin Range(q), NoRepeat(q)
    PROVE  NoRepeat(Append(q, x)) /\ Range(Append(q, x)) = Range(q) \cup {x}
<1> DEFINE n == Len(q)
           r == Append(q, x)
<1>1. /\ n \in Nat /\ DOMAIN q = 1 .. n /\ DOMAIN r = 1 .. n + 1
      /\ \A i \in 1 .. n : r[i] = q[i]
      /\ r[n + 1] = x
  OBVIOUS
<1>2. /\ \A i, j \in 1 .. n : q[i] = q[j] => i = j
      /\ \A i \in 1 .. n : q[i] # x
  BY <1>1 DEF NoRepeat, Range
<1> HIDE DEF n, r
<1>3. \A i \in 1 .. n + 1 : i = n + 1 \/ i \in 1 .. n
  BY <1>1
<1>4. 1 .. n \subseteq 1 .. n + 1 /\ n + 1 \in 1 .. n + 1
  BY <1>1
<1>5. \A i, j \in 1 .. n + 1 : r[i] = r[j] => i = j
  BY <1>1, <1>2, <1>3
<1>6. NoRepeat(r)
  BY <1>1, <1>5 DEF NoRepeat
<1>7. Range(r) = Range(q) \cup {x}
  BY <1>1, <1>3, <1>4 DEF Range
<1>8. QED
  BY <1>6, <1>7 DEF r

\* Appending something new to a queue without repetitions.
LEMMA Pushed ==
    ASSUME NEW S, NEW q \in Seq(S), NoRepeat(q), NEW x \in S, x \notin Range(q)
    PROVE  /\ Append(q, x) \in Seq(S) /\ NoRepeat(Append(q, x))
           /\ Range(Append(q, x)) = Range(q) \cup {x}
           /\ Len(Append(q, x)) = Len(q) + 1
<1>1. Append(q, x) \in Seq(S) /\ Len(Append(q, x)) = Len(q) + 1
  BY AppendType
<1>2. NoRepeat(Append(q, x)) /\ Range(Append(q, x)) = Range(q) \cup {x}
  BY AppendRange
<1>3. QED BY <1>1, <1>2

\* Taking the head of a queue without repetitions.
LEMMA Taken ==
    ASSUME NEW S, NEW q \in Seq(S), NoRepeat(q), q # <<>>
    PROVE  /\ Tail(q) \in Seq(S) /\ NoRepeat(Tail(q))
           /\ Range(Tail(q)) = Range(q) \ {Head(q)}
           /\ Head(q) \in S /\ Head(q) \in Range(q) /\ Len(Tail(q)) = Len(q) - 1
<1>1. /\ Tail(q) \in Seq(S) /\ Len(Tail(q)) = Len(q) - 1
      /\ Head(q) \in S /\ Head(q) \in Range(q)
  BY HeadTail
<1>2. NoRepeat(Tail(q)) /\ Range(Tail(q)) = Range(q) \ {Head(q)}
  BY TailRange
<1>3. QED BY <1>1, <1>2

\* The head of a queue has the status and the key of its queue.
LEMMA HeadOf ==
    ASSUME NEW K, NEW F, NEW q \in [K -> Seq(F)], NEW of \in [F -> K],
           NEW S, NEW sts \in [F -> S], NEW st,
           HoldsExactly(q, sts, st, of), NEW k \in K, q[k] # <<>>
    PROVE  Head(q[k]) \in F /\ sts[Head(q[k])] = st /\ of[Head(q[k])] = k
<1>1. Head(q[k]) \in Range(q[k])
  BY HeadTail
<1>2. QED BY <1>1 DEF HoldsExactly

\* Taking the head out of its queue and giving it another status leaves the
\* queues holding exactly the other objects of the status.
LEMMA Dequeue ==
    ASSUME NEW K, NEW F, NEW q \in [K -> Seq(F)], NEW of \in [F -> K],
           NEW S, NEW sts \in [F -> S], NEW st, NEW new, new # st,
           HoldsExactly(q, sts, st, of), NEW k \in K, q[k] # <<>>
    PROVE  HoldsExactly([q EXCEPT ![k] = Tail(q[k])],
                        [sts EXCEPT ![Head(q[k])] = new], st, of)
<1> DEFINE f == Head(q[k])
           r == [q EXCEPT ![k] = Tail(q[k])]
           new_sts == [sts EXCEPT ![f] = new]
<1>1. f \in F /\ sts[f] = st /\ of[f] = k
  <2>1. f \in Range(q[k])
    BY HeadTail
  <2>2. QED BY <2>1 DEF HoldsExactly
<1>2. NoRepeat(Tail(q[k])) /\ Range(Tail(q[k])) = Range(q[k]) \ {f}
  BY TailRange DEF HoldsExactly
<1>3. \A x \in F : new_sts[x] = st <=> sts[x] = st /\ x # f
  BY <1>1
<1>4. SUFFICES ASSUME NEW j \in K
               PROVE  /\ NoRepeat(r[j])
                      /\ Range(r[j]) = {x \in F : new_sts[x] = st /\ of[x] = j}
  BY DEF HoldsExactly
<1> HIDE DEF new_sts, f
<1>5. NoRepeat(q[j]) /\ Range(q[j]) = {x \in F : sts[x] = st /\ of[x] = j}
  BY DEF HoldsExactly
<1>6. CASE j = k
  <2>1. r[j] = Tail(q[k])
    BY <1>6
  <2> HIDE DEF r
  <2>2. QED BY <1>1, <1>2, <1>3, <1>5, <1>6, <2>1
<1>7. CASE j # k
  <2>1. r[j] = q[j]
    BY <1>7
  <2> HIDE DEF r
  <2>2. QED BY <1>1, <1>3, <1>5, <1>7, <2>1
<1>8. QED BY <1>6, <1>7

\* Appending an object to its queue and giving it the status of the queue.
LEMMA Enqueue ==
    ASSUME NEW K, NEW F, NEW q \in [K -> Seq(F)], NEW of \in [F -> K],
           NEW S, NEW sts \in [F -> S], NEW st,
           HoldsExactly(q, sts, st, of), NEW f \in F, sts[f] # st
    PROVE  HoldsExactly([q EXCEPT ![of[f]] = Append(q[of[f]], f)],
                        [sts EXCEPT ![f] = st], st, of)
<1> DEFINE k == of[f]
           r == [q EXCEPT ![k] = Append(q[k], f)]
           new_sts == [sts EXCEPT ![f] = st]
<1>1. k \in K /\ f \notin Range(q[k]) /\ NoRepeat(q[k])
  BY DEF HoldsExactly
<1>2. NoRepeat(Append(q[k], f)) /\ Range(Append(q[k], f)) = Range(q[k]) \cup {f}
  BY <1>1, AppendRange
<1>3. \A x \in F : new_sts[x] = st <=> sts[x] = st \/ x = f
  OBVIOUS
<1>4. SUFFICES ASSUME NEW j \in K
               PROVE  /\ NoRepeat(r[j])
                      /\ Range(r[j]) = {x \in F : new_sts[x] = st /\ of[x] = j}
  BY DEF HoldsExactly
<1> HIDE DEF new_sts
<1>5. NoRepeat(q[j]) /\ Range(q[j]) = {x \in F : sts[x] = st /\ of[x] = j}
  BY DEF HoldsExactly
<1>6. CASE j = k
  <2>1. r[j] = Append(q[k], f)
    BY <1>1, <1>6
  <2> HIDE DEF r
  <2>2. QED BY <1>2, <1>3, <1>5, <1>6, <2>1
<1>7. CASE j # k
  <2>1. r[j] = q[j]
    BY <1>7
  <2> HIDE DEF r
  <2>2. QED BY <1>3, <1>5, <1>7, <2>1
<1>8. QED BY <1>6, <1>7

\* An object that moves between two other statuses does not concern the queues.
LEMMA Elsewhere ==
    ASSUME NEW K, NEW F, NEW q \in [K -> Seq(F)], NEW of \in [F -> K],
           NEW S, NEW sts \in [F -> S], NEW st, NEW new, new # st,
           HoldsExactly(q, sts, st, of), NEW f \in F, sts[f] # st
    PROVE  HoldsExactly(q, [sts EXCEPT ![f] = new], st, of)
<1>1. \A x \in F : [sts EXCEPT ![f] = new][x] = st <=> sts[x] = st
  OBVIOUS
<1>2. QED BY <1>1 DEF HoldsExactly

\* One queue for all the objects of F with one status.
Holds(F, q, sts, st) == NoRepeat(q) /\ Range(q) = {x \in F : sts[x] = st}

LEMMA HeadHeld ==
    ASSUME NEW F, NEW q \in Seq(F), NEW sts, NEW st, Holds(F, q, sts, st), q # <<>>
    PROVE  Head(q) \in F /\ sts[Head(q)] = st
BY HeadTail DEF Holds

\* The head leaves the queue for another status.
LEMMA Leaves ==
    ASSUME NEW F, NEW S, NEW q \in Seq(F), NEW sts \in [F -> S], NEW st, NEW new, new # st,
           Holds(F, q, sts, st), q # <<>>
    PROVE  Holds(F, Tail(q), [sts EXCEPT ![Head(q)] = new], st)
<1>1. NoRepeat(Tail(q)) /\ Range(Tail(q)) = Range(q) \ {Head(q)}
  BY TailRange DEF Holds
<1>2. Head(q) \in F
  BY HeadHeld
<1>3. \A x \in F : [sts EXCEPT ![Head(q)] = new][x] = st <=> sts[x] = st /\ x # Head(q)
  BY <1>2
<1>4. QED BY <1>1, <1>3 DEF Holds

\* An object joins the queue with its status.
LEMMA Joins ==
    ASSUME NEW F, NEW S, NEW q \in Seq(F), NEW sts \in [F -> S], NEW st,
           Holds(F, q, sts, st), NEW f \in F, sts[f] # st
    PROVE  Holds(F, Append(q, f), [sts EXCEPT ![f] = st], st)
<1>1. f \notin Range(q)
  BY DEF Holds
<1>2. NoRepeat(Append(q, f)) /\ Range(Append(q, f)) = Range(q) \cup {f}
  BY <1>1, AppendRange DEF Holds
<1>3. \A x \in F : [sts EXCEPT ![f] = st][x] = st <=> sts[x] = st \/ x = f
  OBVIOUS
<1>4. QED BY <1>2, <1>3 DEF Holds

\* Other objects come and go.
LEMMA Stays ==
    ASSUME NEW F, NEW S, NEW q, NEW sts \in [F -> S], NEW st, NEW new, new # st,
           Holds(F, q, sts, st), NEW f \in F, sts[f] # st
    PROVE  Holds(F, q, [sts EXCEPT ![f] = new], st)
<1>1. \A x \in F : [sts EXCEPT ![f] = new][x] = st <=> sts[x] = st
  OBVIOUS
<1>2. QED BY <1>1 DEF Holds

-----------------------------------------------------------------------------
\* A queue may also carry other things than the objects of F, like the L2's own
\* writebacks; it holds each object of F at most once.
OnceIn(F, q) == \A i, j \in DOMAIN q : q[i] = q[j] /\ q[i] \in F => i = j

LEMMA TailOnce ==
    ASSUME NEW S, NEW q \in Seq(S), q # <<>>, NEW F, OnceIn(F, q)
    PROVE  /\ OnceIn(F, Tail(q))
           /\ Range(Tail(q)) \cap F = (Range(q) \cap F) \ {Head(q)}
<1> DEFINE n == Len(q)
           t == Tail(q)
<1>1. /\ n \in Nat /\ n > 0 /\ DOMAIN q = 1 .. n /\ DOMAIN t = 1 .. n - 1
      /\ Head(q) = q[1]
      /\ \A i \in 1 .. n - 1 : t[i] = q[i + 1]
  OBVIOUS
<1>2. \A i, j \in 1 .. n : q[i] = q[j] /\ q[i] \in F => i = j
  BY <1>1 DEF OnceIn
<1> HIDE DEF n, t
<1>3. \A i \in 1 .. n - 1 : i + 1 \in 1 .. n /\ i + 1 # 1
  BY <1>1
<1>4. \A i \in 1 .. n : i # 1 => i - 1 \in 1 .. n - 1 /\ (i - 1) + 1 = i
  BY <1>1
<1>5. OnceIn(F, t)
  <2>1. \A i, j \in 1 .. n - 1 : t[i] = t[j] /\ t[i] \in F => i + 1 = j + 1
    BY <1>1, <1>2, <1>3
  <2>2. \A i, j \in 1 .. n - 1 : i + 1 = j + 1 => i = j
    BY <1>1
  <2>3. QED BY <1>1, <2>1, <2>2 DEF OnceIn
<1>6. ASSUME NEW x \in Range(t), x \in F PROVE x \in Range(q) \ {Head(q)}
  <2>1. PICK i \in 1 .. n - 1 : t[i] = x
    BY <1>1, <1>6 DEF Range
  <2>2. q[i + 1] = x /\ i + 1 \in 1 .. n /\ i + 1 # 1 /\ 1 \in 1 .. n
    BY <1>1, <1>3, <2>1
  <2>3. x # q[1]
    BY <1>2, <1>6, <2>2
  <2>4. QED BY <1>1, <2>2, <2>3 DEF Range
<1>7. ASSUME NEW x \in Range(q), x # Head(q) PROVE x \in Range(t)
  <2>1. PICK i \in 1 .. n : q[i] = x
    BY <1>1, <1>7 DEF Range
  <2>2. i - 1 \in 1 .. n - 1 /\ t[i - 1] = x
    BY <1>1, <1>4, <1>7, <2>1
  <2>3. QED BY <1>1, <2>2 DEF Range
<1>8. QED
  BY <1>5, <1>6, <1>7 DEF t

LEMMA AppendOnce ==
    ASSUME NEW S, NEW q \in Seq(S), NEW x \in S, NEW F, OnceIn(F, q), x \notin Range(q) \cap F
    PROVE  OnceIn(F, Append(q, x)) /\ Range(Append(q, x)) = Range(q) \cup {x}
<1> DEFINE n == Len(q)
           r == Append(q, x)
<1>1. /\ n \in Nat /\ DOMAIN q = 1 .. n /\ DOMAIN r = 1 .. n + 1
      /\ \A i \in 1 .. n : r[i] = q[i]
      /\ r[n + 1] = x
  OBVIOUS
<1>2. /\ \A i, j \in 1 .. n : q[i] = q[j] /\ q[i] \in F => i = j
      /\ \A i \in 1 .. n : q[i] = x => x \notin F
  BY <1>1 DEF OnceIn, Range
<1> HIDE DEF n, r
<1>3. \A i \in 1 .. n + 1 : i = n + 1 \/ i \in 1 .. n
  BY <1>1
<1>4. 1 .. n \subseteq 1 .. n + 1 /\ n + 1 \in 1 .. n + 1
  BY <1>1
<1>5. \A i, j \in 1 .. n + 1 : r[i] = r[j] /\ r[i] \in F => i = j
  BY <1>1, <1>2, <1>3
<1>6. OnceIn(F, r)
  BY <1>1, <1>5 DEF OnceIn
<1>7. Range(r) = Range(q) \cup {x}
  BY <1>1, <1>3, <1>4 DEF Range
<1>8. QED
  BY <1>6, <1>7 DEF r

-----------------------------------------------------------------------------
\* A set of naturals that is not empty has a smallest element.
LEMMA LeastOfNats ==
    ASSUME NEW S \in SUBSET Nat, S # {}
    PROVE  \E x \in S : \A y \in S : x <= y
<1> DEFINE Before(x) == 0 .. x - 1
           T == {Before(x) : x \in S}
           R == StrictSubsetOrdering(Nat)
<1>1. T \subseteq FiniteSubsetsOf(Nat) /\ T # {}
  <2>1. ASSUME NEW x \in S PROVE Before(x) \in SUBSET Nat /\ IsFiniteSet(Before(x))
    BY FS_Interval
  <2> HIDE DEF Before
  <2>2. QED BY <2>1 DEF FiniteSubsetsOf
<1>2. IsWellFoundedOn(R, FiniteSubsetsOf(Nat))
  BY FS_StrictSubsetOrderingWellFounded
<1> HIDE DEF R, T
<1>3. PICK D \in T : \A E \in T : ~(<<E, D>> \in R)
  BY <1>1, <1>2, WFMin
<1>4. PICK x \in S : D = Before(x)
  BY <1>3 DEF T
<1>5. ASSUME NEW y \in S, y < x PROVE FALSE
  <2>1. x \in Nat /\ y \in Nat /\ Before(y) \in T
    BY DEF T
  <2>2. Before(y) \subseteq Before(x) /\ y \in Before(x) /\ y \notin Before(y)
    BY <1>5, <2>1
  <2>3. Before(y) \in SUBSET Nat /\ Before(x) \in SUBSET Nat
    BY <2>1
  <2> HIDE DEF Before
  <2>4. <<Before(y), Before(x)>> \in R
    BY <2>2, <2>3 DEF R, StrictSubsetOrdering
  <2>5. QED BY <1>3, <1>4, <2>1, <2>4
<1>6. QED BY <1>5

\* One of naturals below a bound has a largest.
LEMMA LargestOfNats ==
    ASSUME NEW n \in Nat, NEW S \in SUBSET (0 .. n), S # {}
    PROVE  \E x \in S : \A y \in S : y <= x
<1> DEFINE T == {n - y : y \in S}
<1>1. T \in SUBSET Nat /\ T # {}
  <2>1. \A y \in S : y \in 0 .. n /\ n - y \in Nat
    OBVIOUS
  <2>2. QED BY <2>1
<1>2. PICK t \in T : \A u \in T : t <= u
  <2> HIDE DEF T
  <2>1. QED BY <1>1, LeastOfNats
<1>3. PICK x \in S : t = n - x
  OBVIOUS
<1>4. ASSUME NEW y \in S PROVE y <= x
  <2>1. n - y \in T
    OBVIOUS
  <2>2. n - x <= n - y
    BY <1>2, <1>3, <2>1
  <2>3. QED BY <2>2
<1>5. QED BY <1>4

\* A remainder is known by the multiple it leaves.
LEMMA RemainderUnique ==
    ASSUME NEW m \in Nat \ {0}, NEW x \in Int, NEW c \in Int, NEW r \in 0 .. m - 1,
           x = m * c + r
    PROVE  x % m = r
<1> DEFINE d == x \div m
           s == x % m
<1>1. d \in Int /\ s \in Int /\ x = m * d + s /\ 0 <= s /\ s < m
  OBVIOUS
<1> HIDE DEF d, s
<1>2. m * (c - d) = s - r
  BY <1>1
<1>3. c - d < 1
  <2>1. SUFFICES ASSUME c - d >= 1 PROVE FALSE
    BY <1>1
  <2>2. m * (c - d) >= m
    BY <1>1, <2>1
  <2>3. QED BY <1>1, <1>2, <2>2
<1>4. c - d > -1
  <2>1. SUFFICES ASSUME c - d <= -1 PROVE FALSE
    BY <1>1
  <2>2. m * (c - d) <= -m
    BY <1>1, <2>1
  <2>3. QED BY <1>1, <1>2, <2>2
<1>5. c = d
  BY <1>1, <1>3, <1>4
<1>6. QED BY <1>1, <1>5 DEF s

\* Steps of a counter may be taken modulo its width.
LEMMA CountModulo ==
    ASSUME NEW m \in Nat \ {0}, NEW x \in Int, NEW d \in Int
    PROVE  ((x % m) + d) % m = (x + d) % m
<1> DEFINE q == x \div m
           r == x % m
<1>1. q \in Int /\ r \in Int /\ x = m * q + r
  OBVIOUS
<1> HIDE DEF q, r
<1> DEFINE p == (r + d) \div m
           s == (r + d) % m
<1>2. p \in Int /\ s \in 0 .. m - 1 /\ r + d = m * p + s
  BY <1>1
<1> HIDE DEF p, s
<1>3. x + d = m * (q + p) + s
  <2>1. m * (q + p) = m * q + m * p
    BY <1>1, <1>2
  <2> DEFINE u == m * q
             v == m * p
             w == m * (q + p)
  <2>2. u \in Int /\ v \in Int /\ w = u + v /\ x = u + r /\ r + d = v + s /\ s \in Int
    BY <1>1, <1>2, <2>1
  <2> HIDE DEF u, v, w
  <2>3. x + d = w + s
    BY <1>1, <2>2
  <2>4. QED BY <2>3 DEF w
<1>4. (x + d) % m = s
  <2> DEFINE c == q + p
             y == x + d
  <2>1. c \in Int /\ y \in Int /\ y = m * c + s
    BY <1>1, <1>2, <1>3
  <2> HIDE DEF c, y
  <2>2. y % m = s
    BY <1>2, <2>1, RemainderUnique
  <2>3. QED BY <2>2 DEF y
<1>5. s = (r + d) % m
  BY DEF s
<1>6. r = x % m
  BY DEF r
<1> HIDE DEF r, s
<1>7. QED BY <1>4, <1>5, <1>6
=============================================================================
