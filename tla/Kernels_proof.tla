----------------------------- MODULE Kernels_proof -----------------------------
(***************************************************************************)
(* Proofs about the driver and the hand-over of CTAs, for any list of      *)
(* kernels, any number of cores and every size.  First what each step does *)
(* to the types, the window, the counters, the running kernels, what cores *)
(* are bound to and the streams; then the invariant these make up; then    *)
(* what follows: no CTA is lost, the assertions of the code hold, no       *)
(* thread is used twice, and the order of the streams is kept.             *)
(***************************************************************************)
EXTENDS Kernels, Queues_proof

\* The constants, one by one: the sizes, ...
LEMMA Constants ==
    /\ NKernel \in Nat /\ NKernel > 0 /\ MaxConcurrent \in Nat /\ MaxConcurrent > 0
    /\ NCore \in Nat /\ NThread \in Nat /\ NCtaSlot \in Nat /\ MaxPending \in Nat
    /\ \A k \in Kernel : threadsOf[k] \in Nat /\ threadsOf[k] > 0
<1>1. {NKernel, MaxConcurrent, NCore, NThread, NCtaSlot, MaxPending} \subseteq Nat \ {0}
  BY KernelsAssumption
<1>2. threadsOf \in [Kernel -> Nat \ {0}]
  BY KernelsAssumption
<1>3. QED BY <1>1, <1>2

\* ... the kernels ...
LEMMA PerKernel ==
    ASSUME NEW k \in Kernel
    PROVE  /\ k \in Nat /\ k > 0 /\ k <= NKernel /\ k # Null
           /\ ctasOf[k] \in Nat /\ ctasOf[k] > 0
           /\ maxCta[k] \in Nat /\ maxCta[k] > 0 /\ maxCta[k] <= NCtaSlot
           /\ latencyOf[k] \in Nat
<1>1. /\ {ctasOf, threadsOf, maxCta} \subseteq [Kernel -> Nat \ {0}]
      /\ latencyOf \in [Kernel -> Nat]
      /\ \A j \in Kernel : maxCta[j] <= NCtaSlot
  BY KernelsAssumption
<1>2. /\ ctasOf \in [Kernel -> Nat \ {0}] /\ maxCta \in [Kernel -> Nat \ {0}]
  BY <1>1
<1>3. k \in Nat /\ k > 0 /\ k <= NKernel /\ k # Null
  BY Constants DEF Kernel, Null
<1>4. QED BY <1>1, <1>2, <1>3

\* ... and the options.
LEMMA Options ==
    ASSUME NEW g \in Configs
    PROVE  /\ g.concurrent \in BOOLEAN
           /\ g.perCluster \in Nat /\ 0 < g.perCluster /\ g.perCluster <= NCore
           /\ NCore % g.perCluster = 0
BY KernelsAssumption, Constants

\* A set of naturals that is not empty has a smallest element.
LEMMA MinOfNats ==
    ASSUME NEW S \in SUBSET Nat, S # {}
    PROVE  Min(S) \in S /\ \A y \in S : Min(S) <= y
BY LeastOfNats DEF Min

\* The last multiple of a size leaves room for the size, if it divides the total.
LEMMA RoomAtTheEnd ==
    ASSUME NEW n \in Nat, NEW m \in Nat, m > 0, n % m = 0, NEW t \in Nat, t < n, t % m = 0
    PROVE  t + m <= n
<1> DEFINE a == t \div m
           b == n \div m
<1>1. a \in Nat /\ b \in Nat /\ t = a * m /\ n = b * m
  OBVIOUS
<1> HIDE DEF a, b
<1>2. a < b
  <2> SUFFICES ASSUME a >= b PROVE FALSE
    BY <1>1
  <2>1. a * m >= b * m
    BY <1>1
  <2>2. QED BY <1>1, <2>1
<1>3. (a + 1) * m <= b * m
  BY <1>1, <1>2
<1>4. (a + 1) * m = a * m + m
  BY <1>1
<1>5. QED BY <1>1, <1>3, <1>4
-----------------------------------------------------------------------------
(* Types *)

\* The parts of the state that say who holds which threads, and what they
\* are computed from.
CoreTypes ==
    /\ config \in Configs
    /\ at \in Nat
    /\ phase = "launch" => at \in 1 .. Len(window)
    /\ phase = "cleanup" => at > 0
    /\ command \in Nat \ {0} /\ window \in Seq(Kernel)
    /\ running \in [Slot -> Kernel \cup {Null}] /\ last \in Slot
    /\ bound \in [Core -> Kernel \cup {Null}]
    /\ pending \in [Core -> Seq(Kernel)]
    /\ ctas \in [Core -> [CtaSlot -> Kernel \cup {Null}]]
    /\ start \in [Core -> [CtaSlot -> Nat]] /\ DOMAIN occupied = Core

ThreadsOf(c) == UNION {Threads(c, s) : s \in Live(c)}

\* The threads a core books are those of its CTAs, which share none.
BookedAt(c) ==
    /\ \A s, t \in Live(c) : s # t => Threads(c, s) \cap Threads(c, t) = {}
    /\ \A s \in Live(c) : Threads(c, s) \subseteq 0 .. NThread - 1
    /\ occupied[c] = ThreadsOf(c)

\* Cores that run several kernels at a time book threads.
Booked == config.concurrent => \A c \in Core : BookedAt(c)

\* What select_kernel and the kernel of a core are.
LEMMA Selected ==
    ASSUME CoreTypes, NEW c, KernelFor(c) # Null
    PROVE  /\ Selects(c) => SelectSlot \in Slot
           /\ c \in Core => KernelFor(c) \in Kernel
<1> DEFINE after(n) == (n + last + 1) % MaxConcurrent
           ready == {n \in Slot : Ready(after(n))}
<1>1. \A n \in Nat : after(n) \in Slot
  BY Constants DEF CoreTypes, Slot
<1>2. ready \in SUBSET Nat
  BY Constants DEF Slot
<1>3. SelectSlot = IF Ready(last) THEN last ELSE IF ready # {} THEN after(Min(ready)) ELSE NoSlot
  BY DEF SelectSlot
<1> HIDE DEF after, ready
<1>4. SelectSlot \in Slot \cup {NoSlot}
  BY <1>1, <1>2, <1>3, MinOfNats DEF CoreTypes
<1>5. CASE Selects(c)
  BY <1>4, <1>5 DEF KernelFor, CoreTypes
<1>6. CASE ~Selects(c)
  BY <1>6 DEF KernelFor, CoreTypes
<1>7. QED BY <1>5, <1>6

\* A core that can issue has a free context ...
LEMMA FreeContext ==
    ASSUME NEW c \in Core, NEW k \in Kernel, CanIssue(c, k)
    PROVE  /\ FreeCta(c, k) # {} /\ Min(FreeCta(c, k)) \in FreeCta(c, k)
           /\ FreeCta(c, k) \subseteq CtaSlot \ Live(c)
<1> DEFINE n == IF config.concurrent THEN NCtaSlot ELSE maxCta[k]
<1>1. n \in Nat /\ n <= NCtaSlot /\ NCtaSlot \in Nat
  <2>1. NCtaSlot \in Nat
    BY Constants
  <2>2. maxCta[k] \in Nat /\ maxCta[k] <= NCtaSlot
    BY PerKernel
  <2>3. QED BY <2>1, <2>2
<1>2. /\ FreeCta(c, k) = (0 .. n - 1) \ Live(c) /\ Live(c) \subseteq CtaSlot
      /\ Cardinality(Live(c)) < n
  BY DEF FreeCta, Live, CanIssue, CtaSlot
<1> HIDE DEF n
<1>3. /\ IsFiniteSet(CtaSlot) /\ 0 .. n - 1 \subseteq CtaSlot /\ CtaSlot \subseteq Nat
      /\ Cardinality(0 .. n - 1) = n
  <2>1. 0 .. n - 1 \subseteq CtaSlot /\ CtaSlot \subseteq Nat
    BY <1>1 DEF CtaSlot
  <2>2. IsFiniteSet(CtaSlot)
    BY <1>1, FS_Interval DEF CtaSlot
  <2>3. Cardinality(0 .. n - 1) = n
    BY <1>1, FS_Interval
  <2>4. QED BY <2>1, <2>2, <2>3
<1>4. FreeCta(c, k) # {}
  <2> SUFFICES ASSUME 0 .. n - 1 \subseteq Live(c) PROVE FALSE
    BY <1>2
  <2>1. IsFiniteSet(Live(c))
    BY <1>2, <1>3, FS_Subset
  <2>2. Cardinality(Live(c)) \in Nat
    BY <2>1, FS_CardinalityType
  <2>3. 0 .. n - 1 \in SUBSET Live(c)
    OBVIOUS
  <2>4. Cardinality(0 .. n - 1) <= Cardinality(Live(c))
    BY <2>1, <2>3, FS_Subset
  <2>5. QED BY <1>1, <1>2, <1>3, <2>2, <2>4
<1>5. FreeCta(c, k) \in SUBSET Nat /\ FreeCta(c, k) \subseteq CtaSlot \ Live(c)
  BY <1>2, <1>3
<1>6. QED BY <1>4, <1>5, MinOfNats

Divides == \A k \in Kernel : NThread % threadsOf[k] = 0

\* ... and free threads, all of them its own if CTAs divide the core evenly.
LEMMA FreeThreads ==
    ASSUME Divides, CoreTypes, config.concurrent, NEW c \in Core, NEW k \in Kernel, CanIssue(c, k),
           NEW t, t = FindThreads(c, threadsOf[k])
    PROVE  /\ t \in Nat /\ t + threadsOf[k] <= NThread
           /\ occupied[c] \cap (t .. t + threadsOf[k] - 1) = {}
<1> DEFINE n == threadsOf[k]
           fits == {u \in 0 .. NThread - 1 : u % n = 0 /\ occupied[c] \cap (u .. u + n - 1) = {}}
<1>1. n \in Nat /\ n > 0 /\ NThread \in Nat /\ NThread % n = 0
  BY Constants DEF Divides
<1>2. t < NThread
  BY DEF CanIssue
<1>3. t = IF fits = {} THEN NThread ELSE Min(fits)
  BY DEF FindThreads
<1>4. fits \in SUBSET Nat
  OBVIOUS
<1>5. \A u \in fits : u \in Nat /\ u < NThread /\ u % n = 0
                       /\ occupied[c] \cap (u .. u + n - 1) = {}
  BY <1>1
<1> HIDE DEF fits, n
<1>6. t \in fits
  BY <1>1, <1>2, <1>3, <1>4, MinOfNats
<1>7. t + n <= NThread
  BY <1>1, <1>5, <1>6, RoomAtTheEnd
<1>8. QED BY <1>5, <1>6, <1>7 DEF n

-----------------------------------------------------------------------------
(* The threads of a core *)

\* What does not touch a core leaves its books as they are.
LEMMA OtherCore ==
    ASSUME NEW c, ctas'[c] = ctas[c], start'[c] = start[c], occupied'[c] = occupied[c], BookedAt(c)
    PROVE  BookedAt(c)'
<1>1. Live(c)' = Live(c) /\ \A s : Threads(c, s)' = Threads(c, s)
  BY DEF Live, Threads
<1>2. QED BY <1>1 DEF BookedAt, ThreadsOf

\* A CTA that is placed on free threads is booked.
LEMMA PlacedBooks ==
    ASSUME CoreTypes, NEW c \in Core, BookedAt(c), NEW k \in Kernel, NEW s \in CtaSlot \ Live(c),
           NEW first \in Nat, first + threadsOf[k] <= NThread, NEW new,
           new = first .. first + threadsOf[k] - 1, occupied[c] \cap new = {},
           ctas' = [ctas EXCEPT ![c][s] = k], start' = [start EXCEPT ![c][s] = first],
           occupied' = [occupied EXCEPT ![c] = @ \cup new]
    PROVE  BookedAt(c)'
<1>1. threadsOf[k] \in Nat /\ NThread \in Nat /\ k # Null
  BY Constants DEF Kernel, Null
<1>2. new \subseteq 0 .. NThread - 1
  BY <1>1
<1>3. Live(c)' = Live(c) \cup {s}
  BY <1>1 DEF Live, CoreTypes
<1>4. Threads(c, s)' = new
  <2>1. start'[c][s] = first /\ ctas'[c][s] = k
    BY DEF CoreTypes
  <2>2. QED BY <2>1 DEF Threads
<1>5. \A u \in Live(c) : Threads(c, u)' = Threads(c, u)
  BY DEF Threads, Live, CoreTypes
<1>6. \A u \in Live(c) : Threads(c, u) \cap new = {}
  BY DEF BookedAt, ThreadsOf
<1>7. \A u, v \in Live(c)' : u # v => Threads(c, u)' \cap Threads(c, v)' = {}
  <2>1. \A u, v \in Live(c) : u # v => Threads(c, u)' \cap Threads(c, v)' = {}
    BY <1>5 DEF BookedAt
  <2>2. \A u \in Live(c) : Threads(c, u)' \cap Threads(c, s)' = {}
    BY <1>4, <1>5, <1>6
  <2>3. QED BY <1>3, <2>1, <2>2
<1>8. \A u \in Live(c)' : Threads(c, u)' \subseteq 0 .. NThread - 1
  BY <1>2, <1>3, <1>4, <1>5 DEF BookedAt
<1>9. ThreadsOf(c)' = ThreadsOf(c) \cup new
  BY <1>3, <1>4, <1>5 DEF ThreadsOf
<1>10. occupied'[c] = occupied[c] \cup new
  BY DEF CoreTypes
<1>11. QED
  BY <1>7, <1>8, <1>9, <1>10 DEF BookedAt

\* ... which is what issue_block2core does.
LEMMA IssueBooks ==
    ASSUME Divides, CoreTypes, Booked, config.concurrent, NEW c \in Core, pending[c] # <<>>,
           CanIssue(c, Head(pending[c])), IssueBlock(c)
    PROVE  BookedAt(c)'
<1>1. PICK k \in Kernel : k = Head(pending[c])
  BY DEF CoreTypes
<1>2. PICK s \in CtaSlot \ Live(c) : s = Min(FreeCta(c, k))
  BY <1>1, FreeContext
<1>3. PICK first \in Nat : /\ first = FindThreads(c, threadsOf[k])
                           /\ first + threadsOf[k] <= NThread
                           /\ occupied[c] \cap (first .. first + threadsOf[k] - 1) = {}
  BY <1>1, FreeThreads
<1>4. /\ ctas' = [ctas EXCEPT ![c][s] = k]
      /\ start' = [start EXCEPT ![c][s] = first]
      /\ occupied' = [occupied EXCEPT ![c] = @ \cup (first .. first + threadsOf[k] - 1)]
  BY <1>1, <1>2, <1>3 DEF IssueBlock
<1>5. BookedAt(c)
  BY DEF Booked
<1>6. QED
  BY <1>3, <1>4, <1>5, PlacedBooks

\* A CTA that exits gives back its threads, and only those.
LEMMA ExitBooks ==
    ASSUME CoreTypes, Booked, config.concurrent, NEW c \in Core, NEW s \in CtaSlot, CtaExit(c, s)
    PROVE  BookedAt(c)'
<1>1. /\ s \in Live(c)
      /\ ctas' = [ctas EXCEPT ![c][s] = Null]
      /\ start' = start
      /\ occupied' = [occupied EXCEPT ![c] = @ \ Threads(c, s)]
  BY DEF CtaExit
<1>2. Live(c)' = Live(c) \ {s}
  BY <1>1 DEF Live, CoreTypes
<1>3. \A u \in Live(c) \ {s} : Threads(c, u)' = Threads(c, u)
  BY <1>1 DEF Threads, Live, CoreTypes
<1>4. BookedAt(c)
  BY DEF Booked
<1>5. \A u \in Live(c) \ {s} : Threads(c, u) \cap Threads(c, s) = {}
  BY <1>1, <1>4 DEF BookedAt
<1>6. ThreadsOf(c)' = ThreadsOf(c) \ Threads(c, s)
  BY <1>1, <1>2, <1>3, <1>5 DEF ThreadsOf
<1>7. occupied'[c] = occupied[c] \ Threads(c, s)
  BY <1>1 DEF CoreTypes
<1>8. /\ \A u, v \in Live(c)' : u # v => Threads(c, u)' \cap Threads(c, v)' = {}
      /\ \A u \in Live(c)' : Threads(c, u)' \subseteq 0 .. NThread - 1
  BY <1>2, <1>3, <1>4 DEF BookedAt
<1>9. QED
  BY <1>4, <1>6, <1>7, <1>8 DEF BookedAt
-----------------------------------------------------------------------------
(* The steps *)

\* What a step of the command list and of the launch loop keeps.
LEMMA HostTypes ==
    ASSUME CoreTypes, ParseKernel \/ ParseEnds \/ Launch \/ Simulate \/ Cleanup \/ CleanupEnds
    PROVE  CoreTypes'
<1>1. CASE ParseKernel
  <2>0. command \in Kernel
    BY <1>1, Constants DEF ParseKernel, CoreTypes, Kernel
  <2>1. /\ command' = command + 1 /\ window' = Append(window, command)
        /\ phase = "parse" /\ UNCHANGED <<config, phase, at, running, last, pending, ctas, start,
                                           occupied>>
        /\ \E old \in Deleted \cup {Null} :
              bound' = [c \in Core |-> IF old # Null /\ bound[c] = old THEN command ELSE bound[c]]
    BY <1>1 DEF ParseKernel, gpuVars
  <2>2. bound' \in [Core -> Kernel \cup {Null}]
    BY <2>0, <2>1 DEF CoreTypes
  <2>3. window' \in Seq(Kernel) /\ command' \in Nat \ {0}
    BY <2>0, <2>1 DEF CoreTypes
  <2>4. QED BY <2>1, <2>2, <2>3 DEF CoreTypes
<1>2. CASE ParseEnds
  <2>1. window # <<>> => 1 \in 1 .. Len(window)
    BY DEF CoreTypes
  <2>2. QED BY <1>2, <2>1 DEF ParseEnds, CoreTypes, Goto, hostVars, gpuVars, coreVars
<1>3. CASE Launch
  <2>1. /\ phase = "launch" /\ at \in 1 .. Len(window) /\ window[at] \in Kernel
        /\ Len(window) \in Nat
    BY <1>3 DEF Launch, CoreTypes
  <2>2. running' \in [Slot -> Kernel \cup {Null}]
    BY <1>3, <2>1 DEF Launch, CoreTypes
  <2>3. /\ at' \in Nat /\ phase' \in {"launch", "simulate"}
        /\ phase' = "launch" => at' \in 1 .. Len(window)
    BY <1>3, <2>1 DEF Launch, Goto
  <2>4. UNCHANGED <<config, command, window, last, bound, pending, ctas, start, occupied>>
    BY <1>3 DEF Launch, coreVars
  <2>5. QED BY <2>2, <2>3, <2>4 DEF CoreTypes
<1>4. CASE Simulate
  <2>1. /\ UNCHANGED <<config, command, window, running, last, bound, pending, ctas, start,
                       occupied>>
        /\ phase' \in {"cores", "cleanup"} /\ at' \in Nat
        /\ phase' = "cleanup" => at' > 0
    BY <1>4 DEF Simulate, Goto, hostVars, gpuVars, coreVars
  <2>2. QED BY <2>1 DEF CoreTypes
<1>5. CASE Cleanup
  <2>1. /\ at \in 1 .. Len(window) /\ Len(window) \in Nat
        /\ window' = RemoveAt(window, at) \/ window' = window
    BY <1>5 DEF Cleanup, CoreTypes
  <2>2. window' \in Seq(Kernel)
    <3> DEFINE head == SubSeq(window, 1, at - 1)
               tail == SubSeq(window, at + 1, Len(window))
    <3>1. head \in Seq(Kernel) /\ tail \in Seq(Kernel) /\ window \in Seq(Kernel)
      BY <2>1 DEF CoreTypes
    <3>2. window' = head \o tail \/ window' = window
      BY <2>1 DEF RemoveAt
    <3> HIDE DEF head, tail
    <3>3. head \o tail \in Seq(Kernel)
      BY <3>1
    <3>4. QED BY <3>1, <3>2, <3>3
  <2>3. /\ UNCHANGED <<config, command, running, last, bound, pending, ctas, start, occupied>>
        /\ phase' \in {"report", "cleanup"} /\ at' \in {0, at + 1}
        /\ phase' = "cleanup" => at' > 0
    BY <1>5, <2>1 DEF Cleanup, Goto, gpuVars, coreVars
  <2>4. QED BY <2>1, <2>2, <2>3 DEF CoreTypes
<1>6. CASE CleanupEnds
  <2>1. /\ UNCHANGED <<config, command, window, running, last, bound, pending, ctas, start, occupied>>
        /\ phase' = "parse" /\ at' = 0
    BY <1>6 DEF CleanupEnds, Goto, hostVars, coreVars
  <2>2. QED BY <2>1 DEF CoreTypes
<1>7. QED BY <1>1, <1>2, <1>3, <1>4, <1>5, <1>6

\* What a step of the cycle keeps.
LEMMA CycleTypes ==
    ASSUME CoreTypes, CoresDone \/ Allot \/ CycleEnds
    PROVE  CoreTypes'
<1>1. CASE CoresDone
  <2>1. /\ UNCHANGED <<config, command, window, running, last, bound, pending, ctas, start, occupied>>
        /\ phase' = "allot" /\ at' = 0
    BY <1>1 DEF CoresDone, Goto, hostVars, gpuVars, coreVars
  <2>2. QED BY <2>1 DEF CoreTypes
<1>2. CASE CycleEnds
  <2>1. /\ UNCHANGED <<config, command, window, running, last, bound, pending, ctas, start, occupied>>
        /\ phase' \in {"cores", "cleanup"} /\ at' \in {0, 1}
        /\ phase' = "cleanup" => at' > 0
    BY <1>2 DEF CycleEnds, Goto, hostVars, coreVars
  <2>2. QED BY <2>1 DEF CoreTypes
<1>3. CASE Allot
  <2> DEFINE c == Here
             k == KernelFor(c)
  <2>1. /\ UNCHANGED <<config, command, window, running, ctas, start, occupied>>
        /\ phase' \in {"issue", "allot"} /\ at' \in {at, at + 1}
    BY <1>3 DEF Allot, Goto, hostVars
  <2>2. \/ last' = last
        \/ Selects(c) /\ k # Null /\ last' = SelectSlot
    BY <1>3 DEF Allot
  <2>3. \/ bound' = bound
        \/ k # Null /\ bound' = [bound EXCEPT ![c] = k]
    BY <1>3 DEF Allot
  <2>4. \/ pending' = pending
        \/ k # Null /\ pending' = [pending EXCEPT ![c] = Append(@, k)]
    BY <1>3 DEF Allot
  <2> HIDE DEF c
  <2>5. k # Null => (Selects(c) => SelectSlot \in Slot) /\ (c \in Core => k \in Kernel)
    BY Selected
  <2>6. last' \in Slot
    BY <2>2, <2>5 DEF CoreTypes
  <2> HIDE DEF k
  <2>7. bound' \in [Core -> Kernel \cup {Null}]
    BY <2>3, <2>5 DEF CoreTypes
  <2>8. pending' \in [Core -> Seq(Kernel)]
    <3>1. CASE k # Null /\ c \in Core /\ pending' = [pending EXCEPT ![c] = Append(@, k)]
      <4>1. Append(pending[c], k) \in Seq(Kernel)
        BY <2>5, <3>1 DEF CoreTypes
      <4>2. QED BY <3>1, <4>1 DEF CoreTypes
    <3>2. CASE c \notin Core /\ pending' = [pending EXCEPT ![c] = Append(@, k)]
      BY <3>2 DEF CoreTypes
    <3>3. QED BY <2>4, <3>1, <3>2 DEF CoreTypes
  <2>9. QED BY <2>1, <2>6, <2>7, <2>8 DEF CoreTypes
<1>4. QED BY <1>1, <1>2, <1>3

\* What the exit of a CTA keeps.
LEMMA ExitTypes ==
    ASSUME CoreTypes, NEW c \in Core, NEW s \in CtaSlot, CtaExit(c, s)
    PROVE  CoreTypes'
<1>1. /\ UNCHANGED <<config, phase, at, command, window, last, pending, start>>
      /\ ctas' = [ctas EXCEPT ![c][s] = Null]
      /\ \/ occupied' = occupied
         \/ occupied' = [occupied EXCEPT ![c] = @ \ Threads(c, s)]
  BY DEF CtaExit, hostVars
<1>2. running' \in [Slot -> Kernel \cup {Null}]
  BY DEF CtaExit, CoreTypes
<1>3. bound' \in [Core -> Kernel \cup {Null}]
  BY DEF CtaExit, CoreTypes
<1>4. ctas' \in [Core -> [CtaSlot -> Kernel \cup {Null}]] /\ DOMAIN occupied' = Core
  BY <1>1 DEF CoreTypes
<1>5. QED BY <1>1, <1>2, <1>3, <1>4 DEF CoreTypes

\* A CTA that exits leaves the books of every core right.
LEMMA ExitKeepsBooks ==
    ASSUME CoreTypes, Booked, NEW c \in Core, NEW s \in CtaSlot, CtaExit(c, s)
    PROVE  Booked'
<1> SUFFICES ASSUME config.concurrent, NEW d \in Core PROVE BookedAt(d)'
  BY DEF Booked, CtaExit
<1>1. BookedAt(d)
  BY DEF Booked
<1>2. CASE d = c
  BY <1>2, ExitBooks
<1>3. CASE d # c
  <2>1. ctas'[d] = ctas[d] /\ start'[d] = start[d] /\ occupied'[d] = occupied[d]
    BY <1>3 DEF CtaExit, CoreTypes
  <2>2. QED BY <1>1, <2>1, OtherCore
<1>4. QED BY <1>2, <1>3

\* The other steps leave the cores alone.
LEMMA OthersKeepBooks ==
    ASSUME Booked, UNCHANGED <<config, ctas, start, occupied>>
    PROVE  Booked'
<1> SUFFICES ASSUME config.concurrent, NEW d \in Core PROVE BookedAt(d)'
  BY DEF Booked
<1>1. QED BY OtherCore DEF Booked
-----------------------------------------------------------------------------
(* The cores an index of the loops stands for *)

\* The types of what the other parts are computed from.
DriverTypes ==
    /\ phase \in {"parse", "launch", "simulate", "cores", "allot", "issue", "cleanup", "report",
                  "stopped"}
    /\ (phase = "allot" => at <= NCore) /\ (phase = "issue" => at < NCore)
    /\ uid \in Kernel \cup {Null} /\ finished \in Seq(Kernel)
    /\ launched \subseteq Kernel /\ executed \subseteq Kernel
    /\ busy \in Seq({streamOf[k] : k \in Kernel})
    /\ latency \in [Kernel -> Nat] /\ allocated \in [Kernel -> Nat]
    /\ nextCta \in [Kernel -> Nat] /\ resident \in [Kernel -> Nat]
    /\ from \in Nat /\ lastCluster \in Nat
    /\ nextCore \in [0 .. NCluster - 1 -> Nat]

TypeOK == CoreTypes /\ DriverTypes

\* The clusters divide the cores.
LEMMA Clusters ==
    ASSUME NEW p \in Nat, NEW n \in Nat, 0 < p, p <= n, n % p = 0
    PROVE  /\ n \div p \in Nat /\ n \div p > 0
           /\ \A l \in 0 .. (n \div p) - 1, i \in 0 .. p - 1 : l * p + i \in 0 .. n - 1
<1>1. PICK b \in Nat : b = n \div p /\ n = b * p
  OBVIOUS
<1>2. b > 0
  <2>1. b = 0 => n = 0
    BY <1>1
  <2>2. QED BY <1>1, <2>1
<1>3. ASSUME NEW l \in 0 .. b - 1, NEW i \in 0 .. p - 1
      PROVE  l * p + i \in 0 .. n - 1
  <2>1. l \in Nat /\ l + 1 <= b /\ l * p \in Nat /\ i \in Nat /\ i < p
    BY <1>1
  <2>2. (l + 1) * p <= b * p
    BY <1>1, <2>1
  <2>3. (l + 1) * p = l * p + p
    BY <2>1
  <2> DEFINE m == l * p
  <2>4. m + p <= n /\ m \in Nat
    BY <1>1, <2>1, <2>2, <2>3
  <2> HIDE DEF m
  <2>5. m + i \in 0 .. n - 1
    BY <2>1, <2>4
  <2>6. QED BY <2>5 DEF m
<1>4. QED BY <1>1, <1>2, <1>3

\* The loops of issue_block2core only reach cores that exist.
LEMMA CoresReached ==
    ASSUME TypeOK
    PROVE  /\ Cluster \in 0 .. NCluster - 1 /\ NCluster \in Nat
           /\ Here \in Core
           /\ \A i \in Nat : CoreOf((i + nextCore[Cluster] + 1) % config.perCluster) \in Core
           /\ \A i \in Nat : (i + nextCore[Cluster] + 1) % config.perCluster \in Nat
<1>1. PICK p \in Nat : p = config.perCluster /\ 0 < p /\ p <= NCore /\ NCore % p = 0
  BY Options DEF TypeOK, CoreTypes
<1>2. /\ NCore \in Nat /\ at \in Nat /\ from \in Nat /\ NCluster = NCore \div p
      /\ nextCore \in [0 .. NCluster - 1 -> Nat]
  BY <1>1, Constants DEF TypeOK, CoreTypes, DriverTypes, NCluster
<1>3. /\ NCluster \in Nat /\ NCluster > 0
      /\ \A l \in 0 .. NCluster - 1, i \in 0 .. p - 1 : l * p + i \in 0 .. NCore - 1
  <2>1. NCore \in Nat /\ 0 < p /\ p <= NCore /\ NCore % p = 0
    BY <1>1, <1>2
  <2>2. /\ NCore \div p \in Nat /\ NCore \div p > 0
        /\ \A l \in 0 .. (NCore \div p) - 1, i \in 0 .. p - 1 : l * p + i \in 0 .. NCore - 1
    BY <2>1, Clusters
  <2>3. QED BY <1>2, <2>2
<1>4. Cluster \in 0 .. NCluster - 1
  <2>1. at \div p \in Nat
    BY <1>1, <1>2
  <2> DEFINE m == at \div p + from + 1
  <2>2. m \in Nat
    BY <1>2, <2>1
  <2>3. Cluster = m % NCluster
    BY <1>1 DEF Cluster
  <2> HIDE DEF m
  <2>4. QED BY <1>3, <2>2, <2>3
<1>5. \A i \in 0 .. p - 1 : CoreOf(i) \in Core
  BY <1>1, <1>3, <1>4 DEF CoreOf, Core
<1>6. \A x \in Nat : x % p \in 0 .. p - 1 /\ x % p \in Nat
  BY <1>1
<1>7. nextCore[Cluster] \in Nat
  BY <1>2, <1>4
<1>8. Here \in Core
  BY <1>1, <1>2, <1>5, <1>6 DEF Here
<1>9. \A i \in Nat : i + nextCore[Cluster] + 1 \in Nat
  BY <1>7
<1>10. QED BY <1>1, <1>3, <1>4, <1>5, <1>6, <1>8, <1>9
-----------------------------------------------------------------------------
(* Removing from a vector *)

\* Two parts, one after the other.
LEMMA Joined ==
    ASSUME NEW S, NEW a \in Seq(S), NEW b \in Seq(S), NEW r, r = a \o b
    PROVE  /\ r \in Seq(S) /\ Len(r) = Len(a) + Len(b)
           /\ \A j \in 1 .. Len(a) : r[j] = a[j]
           /\ \A j \in 1 .. Len(b) : r[Len(a) + j] = b[j]
<1>1. r \in Seq(S) /\ Len(r) = Len(a) + Len(b)
  OBVIOUS
<1>2. ASSUME NEW j \in 1 .. Len(a) PROVE r[j] = a[j]
  OBVIOUS
<1>3. ASSUME NEW j \in 1 .. Len(b) PROVE r[Len(a) + j] = b[j]
  OBVIOUS
<1>4. QED BY <1>1, <1>2, <1>3

\* A vector from which an element is removed is one shorter.
LEMMA RemovedAt ==
    ASSUME NEW S, NEW q \in Seq(S), NEW i \in 1 .. Len(q), NEW r, r = RemoveAt(q, i)
    PROVE  r \in Seq(S) /\ Len(r) = Len(q) - 1 /\ DOMAIN r = 1 .. Len(q) - 1
<1> DEFINE head == SubSeq(q, 1, i - 1)
           tail == SubSeq(q, i + 1, Len(q))
<1>1. head \in Seq(S) /\ tail \in Seq(S)
  OBVIOUS
<1>2. Len(head) = i - 1 /\ Len(tail) = Len(q) - i
  OBVIOUS
<1>3. r = head \o tail
  BY DEF RemoveAt
<1> HIDE DEF head, tail
<1>4. r \in Seq(S) /\ Len(r) = Len(head) + Len(tail)
  BY <1>1, <1>3, Joined
<1>5. QED BY <1>2, <1>4

\* What comes after that element moves up by one.
LEMMA RemovedElement ==
    ASSUME NEW S, NEW q \in Seq(S), NEW i \in 1 .. Len(q), NEW r, r = RemoveAt(q, i),
           NEW j \in 1 .. Len(q) - 1
    PROVE  (j < i => r[j] = q[j]) /\ (j >= i => r[j] = q[j + 1])
<1> DEFINE head == SubSeq(q, 1, i - 1)
           tail == SubSeq(q, i + 1, Len(q))
<1>1. head \in Seq(S) /\ tail \in Seq(S)
  OBVIOUS
<1>2. Len(head) = i - 1 /\ Len(tail) = Len(q) - i
  OBVIOUS
<1>3. r = head \o tail
  BY DEF RemoveAt
<1>4. ASSUME j < i PROVE r[j] = q[j]
  <2>1. j \in 1 .. i - 1 /\ head[j] = q[j]
    BY <1>4
  <2> HIDE DEF head, tail
  <2>2. j \in 1 .. Len(head)
    BY <1>2, <2>1
  <2>3. r[j] = head[j]
    BY <1>1, <1>3, <2>2, Joined
  <2>4. QED BY <2>1, <2>3
<1>5. ASSUME j >= i PROVE r[j] = q[j + 1]
  <2> DEFINE m == j - (i - 1)
  <2>1. m \in 1 .. Len(q) - i /\ i + 1 + m - 1 = j + 1 /\ (i - 1) + m = j
    BY <1>5
  <2>2. tail[m] = q[i + 1 + m - 1]
    BY <2>1
  <2> HIDE DEF head, tail, m
  <2>3. m \in 1 .. Len(tail)
    BY <1>2, <2>1
  <2>4. r[Len(head) + m] = tail[m]
    BY <1>1, <1>3, <2>3, Joined
  <2>5. QED BY <1>2, <2>1, <2>2, <2>4
<1>6. QED BY <1>4, <1>5

\* Without repetitions, a vector then holds all but that element.
LEMMA RemovedRange ==
    ASSUME NEW S, NEW q \in Seq(S), NoRepeat(q), NEW i \in 1 .. Len(q), NEW r, r = RemoveAt(q, i)
    PROVE  NoRepeat(r) /\ Range(r) = Range(q) \ {q[i]}
<1>1. PICK n \in Nat : n = Len(q) /\ DOMAIN q = 1 .. n /\ i \in 1 .. n
  OBVIOUS
<1>2. DOMAIN r = 1 .. n - 1
  BY <1>1, RemovedAt
<1>3. ASSUME NEW j \in 1 .. n - 1
      PROVE  (j < i => r[j] = q[j]) /\ (j >= i => r[j] = q[j + 1])
  BY <1>1, RemovedElement
<1>4. \A j, k \in 1 .. n : q[j] = q[k] => j = k
  BY <1>1 DEF NoRepeat
<1>5. ASSUME NEW j \in 1 .. n - 1, NEW k \in 1 .. n - 1, r[j] = r[k] PROVE j = k
  <2> DEFINE posOf(x) == IF x < i THEN x ELSE x + 1
  <2>1. posOf(j) \in 1 .. n /\ posOf(k) \in 1 .. n /\ r[j] = q[posOf(j)] /\ r[k] = q[posOf(k)]
    BY <1>1, <1>3
  <2>2. posOf(j) = posOf(k)
    BY <1>4, <1>5, <2>1
  <2>3. QED BY <1>1, <2>2
<1>6. ASSUME NEW j \in 1 .. n - 1 PROVE r[j] \in Range(q) \ {q[i]}
  <2>1. CASE j < i
    <3>1. r[j] = q[j] /\ j \in DOMAIN q /\ q[j] # q[i]
      BY <1>1, <1>3, <1>4, <2>1
    <3>2. QED BY <3>1 DEF Range
  <2>2. CASE j >= i
    <3>1. r[j] = q[j + 1] /\ j + 1 \in DOMAIN q /\ q[j + 1] # q[i]
      BY <1>1, <1>3, <1>4, <2>2
    <3>2. QED BY <3>1 DEF Range
  <2>3. QED BY <1>1, <2>1, <2>2
<1>7. ASSUME NEW j \in 1 .. n, j # i PROVE q[j] \in Range(r)
  <2>1. CASE j < i
    <3>1. j \in 1 .. n - 1
      BY <1>1, <2>1
    <3>2. r[j] = q[j] /\ j \in DOMAIN r
      BY <1>2, <1>3, <2>1, <3>1
    <3>3. QED BY <3>2 DEF Range
  <2>2. CASE j > i
    <3>1. j - 1 \in 1 .. n - 1 /\ j - 1 >= i /\ (j - 1) + 1 = j
      BY <1>1, <2>2
    <3>2. r[j - 1] = q[j] /\ j - 1 \in DOMAIN r
      BY <1>2, <1>3, <3>1
    <3>3. QED BY <3>2 DEF Range
  <2>3. QED BY <1>1, <1>7, <2>1, <2>2
<1>8. Range(q) = {q[j] : j \in 1 .. n} /\ Range(r) = {r[j] : j \in 1 .. n - 1}
  BY <1>1, <1>2 DEF Range
<1>9. NoRepeat(r)
  BY <1>2, <1>5 DEF NoRepeat
<1>10. \A y \in Range(q) \ {q[i]} : y \in Range(r)
  BY <1>7, <1>8
<1>11. \A y \in Range(r) : y \in Range(q) \ {q[i]}
  BY <1>6, <1>8
<1>12. QED BY <1>9, <1>10, <1>11

\* The first of a value that occurs at most once is all of it.
LEMMA RemovedFirst ==
    ASSUME NEW S, NEW q \in Seq(S), NEW e, NEW r, r = RemoveFirst(q, e)
    PROVE  /\ r \in Seq(S)
           /\ NoRepeat(q) => NoRepeat(r) /\ Range(r) = Range(q) \ {e}
<1> DEFINE places == {i \in 1 .. Len(q) : q[i] = e}
<1>1. CASE places = {}
  <2>1. r = q /\ e \notin Range(q)
    BY <1>1 DEF RemoveFirst, Range
  <2>2. QED BY <2>1
<1>2. CASE places # {}
  <2>1. r = RemoveAt(q, Min(places))
    BY <1>2 DEF RemoveFirst, SelectInSeq
  <2> DEFINE i == Min(places)
  <2>2. i \in 1 .. Len(q) /\ q[i] = e
    <3>1. places \in SUBSET Nat
      OBVIOUS
    <3>2. i \in places
      BY <1>2, <3>1, MinOfNats
    <3>3. QED BY <3>2
  <2> HIDE DEF places, i
  <2>3. r \in Seq(S)
    BY <2>1, <2>2, RemovedAt DEF i
  <2>4. NoRepeat(q) => NoRepeat(r) /\ Range(r) = Range(q) \ {q[i]}
    BY <2>1, <2>2, RemovedRange DEF i
  <2>5. QED BY <2>2, <2>3, <2>4
<1>3. QED BY <1>1, <1>2
-----------------------------------------------------------------------------
(* The invariant *)

\* The window holds the youngest kernels of the list, in its order.  It is
\* empty only where kernels are read or have just been retired.
WindowOK ==
    /\ command <= NKernel + 1
    /\ \A i \in DOMAIN window : window[i] < command
    /\ \A i, j \in DOMAIN window : i < j => window[i] < window[j]
    /\ \A k \in launched : k < command
    /\ Len(window) <= WindowSize
    /\ phase \in {"launch", "simulate", "cores", "allot", "issue"} => window # <<>>
    /\ phase = "cleanup" /\ at = 1 => window # <<>>

\* The counters of a kernel are what they are named for.
CountsOK ==
    /\ \A c \in Core : Len(pending[c]) <= MaxPending
    /\ \A k \in Kernel :
          /\ allocated[k] = nextCta[k] + Cardinality(Waiting(k)) /\ allocated[k] <= ctasOf[k]
          /\ resident[k] = Cardinality(Holding(k))

Runs == {k \in Kernel : \E n \in Slot : running[n] = k}

\* A launched kernel is in exactly one slot until its last CTA has exited and
\* never again; until it is launched it has no CTA.
RunningOK ==
    /\ \A k \in Runs : k \in launched \cap Range(window) /\ (MoreCtas(k) \/ resident[k] > 0)
    /\ \A m, n \in Slot : running[m] = running[n] /\ running[m] # Null => m = n
    /\ \A k \in launched \ Runs : KernelDone(k)
    /\ \A k \in Kernel \ launched : allocated[k] = 0 /\ resident[k] = 0
    /\ \A k \in {uid} \cup Range(finished) : k # Null => k \in launched /\ k \notin Runs

\* The busy streams are those of the launched kernels, one each; what was
\* retired had run, the elder ones of a stream before the younger.
StreamsExact ==
    /\ NoRepeat(busy) /\ Range(busy) = {streamOf[k] : k \in launched \cap Range(window)}
    /\ \A j, k \in launched \cap Range(window) : streamOf[j] = streamOf[k] => j = k
    /\ \A k \in Deleted : k \in launched /\ KernelDone(k)
    /\ \A k \in launched : \A j \in Kernel : j < k /\ streamOf[j] = streamOf[k] => j \in Deleted

\* The first kernel of the window is always launched, so that cleanup finds
\* it launched; it looks at the second only when the GPU is not idle.
FirstLaunched ==
    /\ phase = "launch" /\ at > 1 => window[1] \in launched
    /\ phase \in {"simulate", "cores", "allot", "issue"} => window[1] \in launched
    /\ phase = "cleanup" /\ at = 1 => window[1] \in launched
    /\ phase = "cleanup" /\ at > 1 /\ at <= Len(window) => Active

\* This is so in a window of at most two kernels.  In one of three, a kernel
\* that was not launched may be cleaned up when the GPU is idle.
StreamsOK == WindowSize <= 2 => StreamsExact /\ FirstLaunched

\* A core that runs one kernel at a time points to a kernel with CTAs left
\* only if that is the one in the window, although m_kernel may dangle.
BoundOK ==
    \A c \in Core :
       IF config.concurrent THEN bound[c] = Null
       ELSE MoreCtas(bound[c]) => bound[c] \in Range(window)

Inv == TypeOK /\ WindowOK /\ CountsOK /\ RunningOK /\ StreamsOK /\ BoundOK
-----------------------------------------------------------------------------
(* What the invariant says of a state *)

\* A set of places of cores is finite.
LEMMA Places ==
    ASSUME NEW k
    PROVE  /\ IsFiniteSet(Holding(k)) /\ Cardinality(Holding(k)) \in Nat
           /\ Cardinality(Holding(k)) = 0 <=> Holding(k) = {}
           /\ IsFiniteSet(Waiting(k)) /\ Cardinality(Waiting(k)) \in Nat
           /\ Cardinality(Waiting(k)) = 0 <=> Waiting(k) = {}
<1>1. /\ IsFiniteSet(Core) /\ IsFiniteSet(CtaSlot) /\ IsFiniteSet(1 .. MaxPending)
  BY Constants, FS_Interval DEF Core, CtaSlot
<1>2. IsFiniteSet(Core \X CtaSlot) /\ IsFiniteSet(Core \X (1 .. MaxPending))
  BY <1>1, FS_Product
<1>3. /\ Holding(k) \in SUBSET (Core \X CtaSlot)
      /\ Waiting(k) \in SUBSET (Core \X (1 .. MaxPending))
  BY DEF Holding, Waiting
<1>4. IsFiniteSet(Holding(k)) /\ IsFiniteSet(Waiting(k))
  BY <1>2, <1>3, FS_Subset
<1>5. QED BY <1>4, FS_CardinalityType, FS_EmptySet

\* A kernel whose CTAs wait or are on cores runs.
LEMMA AtWork ==
    ASSUME Inv, NEW k \in Kernel, Waiting(k) \cup Holding(k) # {}
    PROVE  k \in Runs
<1>1. /\ allocated[k] = nextCta[k] + Cardinality(Waiting(k)) /\ allocated[k] <= ctasOf[k]
      /\ resident[k] = Cardinality(Holding(k))
      /\ nextCta[k] \in Nat
  BY DEF Inv, CountsOK, TypeOK, DriverTypes
<1>2. Cardinality(Waiting(k)) > 0 \/ resident[k] > 0
  BY <1>1, Places
<1>3. k \in launched
  BY <1>1, <1>2, Places DEF Inv, RunningOK
<1>4. ~KernelDone(k)
  BY <1>1, <1>2, Places, PerKernel DEF KernelDone
<1>5. QED BY <1>3, <1>4 DEF Inv, RunningOK

\* When the GPU is idle no kernel is running.
LEMMA Idle ==
    ASSUME Inv, ~Active
    PROVE  Runs = {}
<1> SUFFICES ASSUME NEW k \in Runs PROVE FALSE
  OBVIOUS
<1>1. k \in Kernel /\ (MoreCtas(k) \/ resident[k] > 0)
  BY DEF Inv, RunningOK, Runs
<1>2. CASE MoreCtas(k)
  BY <1>2 DEF Active, Runs
<1>3. CASE resident[k] > 0
  <2>1. resident[k] = Cardinality(Holding(k))
    BY <1>1 DEF Inv, CountsOK
  <2>2. PICK h \in Holding(k) : TRUE
    BY <1>3, <2>1, Places
  <2>3. h[1] \in Core /\ h[2] \in Live(h[1])
    BY <1>1, <2>2, PerKernel DEF Holding, Live
  <2>4. QED BY <2>3 DEF Active
<1>4. QED BY <1>1, <1>2, <1>3

\* Without concurrent kernels the window has room for one.
LEMMA Alone ==
    ASSUME Inv, ~config.concurrent
    PROVE  /\ WindowSize = 1
           /\ \A k \in Range(window) : k = window[1]
           /\ \A j, k \in Runs : j = k
<1>1. WindowSize = 1 /\ Len(window) <= 1 /\ window \in Seq(Kernel)
  BY DEF Inv, WindowOK, TypeOK, CoreTypes, WindowSize
<1>2. ASSUME NEW k \in Range(window) PROVE k = window[1]
  <2>1. PICK i \in DOMAIN window : window[i] = k
    BY DEF Range
  <2>2. i \in 1 .. Len(window) /\ Len(window) \in Nat
    BY <1>1, <2>1
  <2>3. QED BY <1>1, <2>1, <2>2
<1>3. \A k \in Runs : k \in Range(window)
  BY DEF Inv, RunningOK
<1>4. QED BY <1>1, <1>2, <1>3

\* A core that is not offered another kernel has one that runs, ...
LEMMA BoundRuns ==
    ASSUME Inv, phase \notin {"parse", "launch", "cleanup", "report", "stopped"},
           NEW c \in Core, ~config.concurrent, MoreCtas(bound[c])
    PROVE  bound[c] \in Runs
<1>1. bound[c] \in Range(window) /\ window[1] \in launched
  BY Alone DEF Inv, BoundOK, StreamsOK, FirstLaunched, TypeOK, DriverTypes
<1>2. bound[c] \in launched /\ bound[c] \in Kernel
  BY <1>1, Alone DEF Inv, TypeOK, DriverTypes
<1>3. ~KernelDone(bound[c])
  BY <1>2, PerKernel DEF MoreCtas, KernelDone, Inv, TypeOK, DriverTypes
<1>4. QED BY <1>2, <1>3 DEF Inv, RunningOK

\* ... and so the CTAs a core is given are those of a kernel that runs.
LEMMA GivenRuns ==
    ASSUME Inv, phase = "allot", NEW c \in Core, NEW k, k = KernelFor(c), k # Null,
           Selects(c) \/ allocated[k] < ctasOf[k]
    PROVE  k \in Runs
<1>1. k \in Kernel /\ (Selects(c) => SelectSlot \in Slot)
  BY Selected DEF Inv, TypeOK
<1>2. CASE Selects(c)
  BY <1>1, <1>2 DEF KernelFor, Runs
<1>3. CASE ~Selects(c)
  <2>1. k = bound[c] /\ ~config.concurrent /\ allocated[k] < ctasOf[k]
    BY <1>3 DEF KernelFor, Selects
  <2>2. allocated[k] = nextCta[k] + Cardinality(Waiting(k)) /\ nextCta[k] \in Nat
    BY <1>1 DEF Inv, CountsOK, TypeOK, DriverTypes
  <2>3. MoreCtas(bound[c])
    BY <1>1, <2>1, <2>2, Places, PerKernel DEF MoreCtas
  <2>4. QED BY <2>1, <2>3, BoundRuns
<1>4. QED BY <1>2, <1>3
-----------------------------------------------------------------------------
(* The driver's types *)

\* What issue_block2core does: a CTA on some core, or nothing.
LEMMA IssueStep ==
    ASSUME TypeOK, Issue
    PROVE  /\ UNCHANGED <<allocated, bound>>
           /\ lastCluster' \in Nat /\ nextCore' \in [0 .. NCluster - 1 -> Nat]
           /\ \/ UNCHANGED <<kernelVars, coreVars>>
              \/ \E c \in Core : /\ pending[c] # <<>> /\ CanIssue(c, Head(pending[c]))
                                 /\ IssueBlock(c)
<1> DEFINE after(i) == (i + nextCore[Cluster] + 1) % config.perCluster
           able == {i \in 0 .. config.perCluster - 1 :
                       LET c == CoreOf(after(i))
                       IN  pending[c] # <<>> /\ CanIssue(c, Head(pending[c]))}
           chosen == after(Min(able))
<1>1. \A i \in able : /\ i \in Nat
                     /\ pending[CoreOf(after(i))] # <<>>
                     /\ CanIssue(CoreOf(after(i)), Head(pending[CoreOf(after(i))]))
  OBVIOUS
<1>2. able \in SUBSET Nat
  BY <1>1
<1>3. IF able = {} THEN UNCHANGED <<kernelVars, lastCluster, nextCore, coreVars>>
      ELSE /\ IssueBlock(CoreOf(chosen))
           /\ nextCore' = [nextCore EXCEPT ![Cluster] = chosen]
           /\ lastCluster' = Cluster
           /\ UNCHANGED <<allocated, bound>>
  BY DEF Issue
<1>4. \A i \in Nat : CoreOf(after(i)) \in Core /\ after(i) \in Nat
  BY CoresReached
<1>5. Cluster \in Nat
  BY CoresReached
<1>6. nextCore \in [0 .. NCluster - 1 -> Nat] /\ lastCluster \in Nat
  BY DEF TypeOK, DriverTypes
<1>7. CASE able = {}
  BY <1>3, <1>6, <1>7 DEF kernelVars, coreVars
<1>8. CASE able # {}
  <2>1. Min(able) \in able
    BY <1>2, <1>8, MinOfNats
  <2>2. chosen \in Nat /\ CoreOf(chosen) \in Core
    BY <1>1, <1>4, <2>1
  <2>3. pending[CoreOf(chosen)] # <<>> /\ CanIssue(CoreOf(chosen), Head(pending[CoreOf(chosen)]))
    BY <1>1, <2>1
  <2> HIDE DEF able, chosen
  <2>4. nextCore' \in [0 .. NCluster - 1 -> Nat] /\ lastCluster' \in Nat
    BY <1>3, <1>5, <1>6, <1>8, <2>2
  <2>5. QED BY <1>3, <1>8, <2>2, <2>3, <2>4
<1>9. QED BY <1>7, <1>8

\* It keeps the types, ...
LEMMA IssueTypes ==
    ASSUME TypeOK, Issue
    PROVE  CoreTypes'
<1>1. /\ UNCHANGED <<config, command, window, running, last>>
      /\ phase' = "allot" /\ at' = at + 1
  BY DEF Issue, Goto, hostVars, gpuVars
<1>2. bound' = bound
  BY DEF Issue, coreVars
<1>3. CASE UNCHANGED <<pending, ctas, start, occupied>>
  BY <1>1, <1>2, <1>3 DEF TypeOK, CoreTypes
<1>4. ASSUME NEW c \in Core, pending[c] # <<>>, CanIssue(c, Head(pending[c])), IssueBlock(c)
      PROVE  CoreTypes'
  <2> DEFINE k == Head(pending[c])
             s == Min(FreeCta(c, k))
             first == IF config.concurrent THEN FindThreads(c, threadsOf[k]) ELSE s * threadsOf[k]
             fits == {t \in 0 .. NThread - 1 :
                         t % threadsOf[k] = 0
                         /\ occupied[c] \cap (t .. t + threadsOf[k] - 1) = {}}
  <2>1. /\ ctas' = [ctas EXCEPT ![c][s] = k]
        /\ start' = [start EXCEPT ![c][s] = first]
        /\ pending' = [pending EXCEPT ![c] = Tail(@)]
        /\ \/ occupied' = occupied
           \/ occupied' = [occupied EXCEPT ![c] = @ \cup (first .. first + threadsOf[k] - 1)]
    BY <1>4 DEF IssueBlock
  <2>2. DOMAIN occupied' = Core
    BY <2>1 DEF TypeOK, CoreTypes
  <2>3. fits \in SUBSET Nat /\ NThread \in Nat
    BY Constants
  <2>4. FindThreads(c, threadsOf[k]) = IF fits = {} THEN NThread ELSE Min(fits)
    BY DEF FindThreads
  <2> HIDE DEF fits
  <2>5. FindThreads(c, threadsOf[k]) \in Nat
    BY <2>3, <2>4, MinOfNats
  <2>6. k \in Kernel /\ Tail(pending[c]) \in Seq(Kernel)
    BY <1>4 DEF TypeOK, CoreTypes
  <2>7. s \in CtaSlot => first \in Nat
    BY <2>5, <2>6, Constants DEF CtaSlot
  <2> HIDE DEF k, s, first
  <2>8. ctas' \in [Core -> [CtaSlot -> Kernel \cup {Null}]]
    BY <2>1, <2>6 DEF TypeOK, CoreTypes
  <2>9. start' \in [Core -> [CtaSlot -> Nat]]
    BY <2>1, <2>7 DEF TypeOK, CoreTypes
  <2>10. pending' \in [Core -> Seq(Kernel)]
    BY <2>1, <2>6 DEF TypeOK, CoreTypes
  <2>11. QED BY <1>1, <1>2, <2>2, <2>8, <2>9, <2>10 DEF TypeOK, CoreTypes
<1>5. CASE UNCHANGED <<kernelVars, coreVars>>
  BY <1>3, <1>5 DEF coreVars
<1>6. QED BY <1>4, <1>5, IssueStep

\* ... and a CTA that is placed leaves the books of every core right.
LEMMA IssueKeepsBooks ==
    ASSUME Divides, TypeOK, Booked, Issue
    PROVE  Booked'
<1> SUFFICES ASSUME config.concurrent, NEW d \in Core PROVE BookedAt(d)'
  BY DEF Booked, Issue
<1>1. BookedAt(d)
  BY DEF Booked
<1>2. CASE UNCHANGED <<kernelVars, coreVars>>
  BY <1>1, <1>2, OtherCore DEF coreVars
<1>3. ASSUME NEW c \in Core, pending[c] # <<>>, CanIssue(c, Head(pending[c])), IssueBlock(c)
      PROVE  BookedAt(d)'
  <2>1. CASE d = c
    BY <1>3, <2>1, IssueBooks DEF TypeOK
  <2>2. CASE d # c
    <3>1. ctas'[d] = ctas[d] /\ start'[d] = start[d] /\ occupied'[d] = occupied[d]
      BY <1>3, <2>2 DEF IssueBlock, TypeOK, CoreTypes
    <3>2. QED BY <1>1, <3>1, OtherCore
  <2>3. QED BY <2>1, <2>2
<1>4. QED BY <1>2, <1>3, IssueStep

\* The CTA that exits, its kernel, and what remains of it.
LEMMA ExitStep ==
    ASSUME Inv, NEW c \in Core, NEW s \in CtaSlot, CtaExit(c, s), NEW k, k = ctas[c][s]
    PROVE  /\ k \in Kernel /\ k \in Runs /\ <<c, s>> \in Holding(k)
           /\ resident[k] \in Nat /\ resident[k] > 0 /\ resident' = [resident EXCEPT ![k] = @ - 1]
           /\ ctas' = [ctas EXCEPT ![c][s] = Null]
           /\ \/ /\ ~MoreCtas(k) /\ resident[k] = 1 /\ finished' = Append(finished, k)
                 /\ running' = [n \in Slot |-> IF running[n] = k THEN Null ELSE running[n]]
              \/ /\ MoreCtas(k) \/ resident[k] > 1
                 /\ UNCHANGED <<finished, running>>
<1>1. k \in Kernel /\ k # Null
  BY DEF CtaExit, Live, Inv, TypeOK, CoreTypes
<1>2. <<c, s>> \in Holding(k)
  BY DEF Holding
<1>3. k \in Runs
  BY <1>1, <1>2, AtWork
<1>4. resident[k] \in Nat /\ resident[k] = Cardinality(Holding(k))
  BY <1>1 DEF Inv, CountsOK, TypeOK, DriverTypes
<1>5. resident[k] > 0
  BY <1>2, <1>4, Places
<1>6. /\ resident' = [resident EXCEPT ![k] = @ - 1]
      /\ ctas' = [ctas EXCEPT ![c][s] = Null]
  BY DEF CtaExit
<1>7. running = [n \in Slot |-> running[n]]
  BY DEF Inv, TypeOK, CoreTypes
<1>8. CASE ~MoreCtas(k) /\ resident[k] = 1
  <2>1. finished' = Append(finished, k)
    BY <1>8 DEF CtaExit
  <2>2. running' = [n \in Slot |-> IF running[n] = k THEN Null ELSE running[n]]
    BY <1>8 DEF CtaExit
  <2>3. QED BY <1>1, <1>2, <1>3, <1>4, <1>5, <1>6, <1>8, <2>1, <2>2
<1>9. CASE ~(~MoreCtas(k) /\ resident[k] = 1)
  <2>1. UNCHANGED finished
    BY <1>9 DEF CtaExit
  <2>2. running' = [n \in Slot |-> running[n]]
    BY <1>9 DEF CtaExit
  <2>3. MoreCtas(k) \/ resident[k] > 1
    BY <1>4, <1>5, <1>9
  <2>4. QED BY <1>1, <1>2, <1>3, <1>4, <1>5, <1>6, <1>7, <2>1, <2>2, <2>3
<1>10. QED BY <1>8, <1>9

\* What a step of the command list keeps.
LEMMA HostDriver ==
    ASSUME Inv, ParseKernel \/ ParseEnds \/ Launch \/ Simulate \/ Cleanup \/ CleanupEnds
    PROVE  DriverTypes'
<1> USE DEF TypeOK
<1>0. DriverTypes /\ CoreTypes
  BY DEF Inv
<1>1. CASE ParseKernel \/ ParseEnds \/ Simulate \/ CleanupEnds
  <2>1. /\ UNCHANGED <<config, launched, busy, finished, latency, allocated, nextCta, resident, from,
                       lastCluster, nextCore>>
        /\ executed' \in {executed, {}} /\ uid' \in {uid, Null}
        /\ phase' \in {"parse", "stopped", "launch", "cores", "cleanup"}
    BY <1>1 DEF ParseKernel, ParseEnds, Simulate, CleanupEnds, Goto, hostVars, gpuVars, kernelVars,
                clusterVars
  <2>2. QED BY <1>0, <2>1 DEF DriverTypes, NCluster
<1>2. CASE Launch
  <2>1. window[at] \in Kernel
    <3>1. at \in 1 .. Len(window) /\ window \in Seq(Kernel)
      BY <1>0, <1>2 DEF CoreTypes, Launch
    <3>2. QED BY <3>1
  <2>2. /\ launched' \in {launched, launched \cup {window[at]}}
        /\ busy' \in {busy, Append(busy, streamOf[window[at]])}
        /\ phase' \in {"launch", "simulate"}
        /\ UNCHANGED <<config, uid, executed, finished, latency, allocated, nextCta, resident, from,
                       lastCluster, nextCore>>
    BY <1>2 DEF Launch, Goto, kernelVars, clusterVars
  <2>3. busy' \in Seq({streamOf[k] : k \in Kernel})
    <3>1. streamOf[window[at]] \in {streamOf[k] : k \in Kernel}
      BY <2>1
    <3>2. busy \in Seq({streamOf[k] : k \in Kernel})
      BY <1>0 DEF DriverTypes
    <3>3. Append(busy, streamOf[window[at]]) \in Seq({streamOf[k] : k \in Kernel})
      BY <3>1, <3>2, AppendType
    <3>4. QED BY <2>2, <3>2, <3>3
  <2>4. QED BY <1>0, <2>1, <2>2, <2>3 DEF DriverTypes, NCluster
<1>3. CASE Cleanup
  <2>1. /\ busy' \in {busy, RemoveFirst(busy, streamOf[window[at]])}
        /\ phase' \in {"cleanup", "report"}
        /\ UNCHANGED <<config, uid, launched, executed, finished, latency, allocated, nextCta,
                       resident, from, lastCluster, nextCore>>
    BY <1>3 DEF Cleanup, Goto, gpuVars, kernelVars, clusterVars
  <2>2. busy' \in Seq({streamOf[k] : k \in Kernel})
    BY <1>0, <2>1, RemovedFirst DEF DriverTypes
  <2>3. QED BY <1>0, <2>1, <2>2 DEF DriverTypes, NCluster
<1>4. QED BY <1>1, <1>2, <1>3

\* What a step of the cycle keeps.
LEMMA CycleDriver ==
    ASSUME Inv, CoresDone \/ Allot \/ Issue \/ CycleEnds
    PROVE  DriverTypes'
<1> USE DEF TypeOK
<1>0. DriverTypes /\ CoreTypes /\ TypeOK
  BY DEF Inv
<1>1. CASE CoresDone
  <2>1. /\ UNCHANGED <<config, uid, launched, busy, executed, finished, latency, allocated, nextCta,
                       resident, lastCluster, nextCore>>
        /\ from' = lastCluster /\ phase' = "allot" /\ at' = 0
    BY <1>1 DEF CoresDone, Goto, hostVars, gpuVars, kernelVars
  <2>2. NCore \in Nat
    BY Constants
  <2>3. QED BY <1>0, <2>1, <2>2 DEF DriverTypes, NCluster
<1>2. CASE Allot
  <2>1. PICK k : k = KernelFor(Here)
    OBVIOUS
  <2>2. Here \in Core /\ at \in Nat /\ NCore \in Nat /\ at < NCore
    BY <1>0, <1>2, CoresReached, Constants DEF CoreTypes, Allot
  <2>3. k # Null => k \in Kernel
    BY <1>0, <2>1, <2>2, Selected
  <2>4. /\ UNCHANGED <<config, uid, launched, busy, finished, latency, nextCta, resident, from,
                       lastCluster, nextCore>>
        /\ executed' = executed \/ (k # Null /\ executed' = executed \cup {k})
        /\ \/ allocated' = allocated
           \/ k # Null /\ allocated' = [allocated EXCEPT ![k] = @ + 1]
        /\ (phase' = "issue" /\ at' = at) \/ (phase' = "allot" /\ at' = at + 1)
    BY <1>2, <2>1 DEF Allot, Goto, hostVars, clusterVars
  <2>5. allocated' \in [Kernel -> Nat]
    <3>1. allocated \in [Kernel -> Nat]
      BY <1>0 DEF DriverTypes
    <3>2. k # Null => [allocated EXCEPT ![k] = @ + 1] \in [Kernel -> Nat]
      BY <2>3, <3>1
    <3>3. QED BY <2>4, <3>1, <3>2
  <2>6. executed' \subseteq Kernel /\ (phase' = "allot" => at' <= NCore)
        /\ (phase' = "issue" => at' < NCore) /\ phase' \in {"issue", "allot"}
    BY <1>0, <2>2, <2>3, <2>4 DEF DriverTypes
  <2>7. NCluster' = NCluster
    BY <2>4 DEF NCluster
  <2> HIDE <2>1
  <2>8. QED BY <1>0, <2>4, <2>5, <2>6, <2>7 DEF DriverTypes
<1>3. CASE Issue
  <2>1. /\ UNCHANGED <<config, uid, launched, busy, executed, finished, latency, from>>
        /\ phase' = "allot" /\ at' = at + 1 /\ phase = "issue"
    BY <1>3 DEF Issue, Goto, hostVars, gpuVars
  <2>2. at \in Nat /\ NCore \in Nat /\ at < NCore
    BY <1>0, <2>1, Constants DEF DriverTypes, CoreTypes
  <2>3. /\ allocated' = allocated
        /\ lastCluster' \in Nat /\ nextCore' \in [0 .. NCluster - 1 -> Nat]
    BY <1>0, <1>3, IssueStep
  <2>4. nextCta' \in [Kernel -> Nat] /\ resident' \in [Kernel -> Nat]
    <3>1. CASE UNCHANGED <<kernelVars, coreVars>>
      BY <1>0, <3>1 DEF kernelVars, DriverTypes
    <3>2. ASSUME NEW c \in Core, pending[c] # <<>>, IssueBlock(c)
          PROVE  nextCta' \in [Kernel -> Nat] /\ resident' \in [Kernel -> Nat]
      <4>0. Head(pending[c]) \in Kernel
        BY <1>0, <3>2, HeadTail DEF CoreTypes
      <4>1. PICK k \in Kernel : /\ nextCta' = [nextCta EXCEPT ![k] = @ + 1]
                                /\ resident' = [resident EXCEPT ![k] = @ + 1]
        BY <3>2, <4>0 DEF IssueBlock
      <4>2. nextCta \in [Kernel -> Nat] /\ resident \in [Kernel -> Nat]
        BY <1>0 DEF DriverTypes
      <4>3. QED BY <4>1, <4>2
    <3>3. \/ UNCHANGED <<kernelVars, coreVars>>
          \/ \E c \in Core : pending[c] # <<>> /\ IssueBlock(c)
      BY <1>0, <1>3, IssueStep
    <3>4. QED BY <3>1, <3>2, <3>3
  <2>5. NCluster' = NCluster
    BY <2>1 DEF NCluster
  <2>6. QED BY <1>0, <2>1, <2>2, <2>3, <2>4, <2>5 DEF DriverTypes
<1>4. CASE CycleEnds
  <2>1. /\ UNCHANGED <<config, launched, busy, executed, allocated, nextCta, resident, from,
                       lastCluster, nextCore>>
        /\ phase' \in {"cores", "cleanup"}
    BY <1>4 DEF CycleEnds, Goto, hostVars, kernelVars, clusterVars
  <2>2. latency' \in [Kernel -> Nat]
    <3>1. latency' = [k \in Kernel |-> IF k \in Range(running) /\ latency[k] > 0
                                       THEN latency[k] - 1 ELSE latency[k]]
      BY <1>4 DEF CycleEnds
    <3>2. \A k \in Kernel : latency[k] \in Nat /\ (latency[k] > 0 => latency[k] - 1 \in Nat)
      BY <1>0 DEF DriverTypes
    <3>3. QED BY <3>1, <3>2
  <2>3. uid' \in Kernel \cup {Null} /\ finished' \in Seq(Kernel)
    <3>1. finished \in Seq(Kernel)
      BY <1>0 DEF DriverTypes
    <3>2. CASE finished = <<>>
      BY <1>4, <3>1, <3>2 DEF CycleEnds
    <3>3. CASE finished # <<>>
      BY <1>4, <3>1, <3>3, HeadTail DEF CycleEnds
    <3>4. QED BY <3>2, <3>3
  <2>4. QED BY <1>0, <2>1, <2>2, <2>3 DEF DriverTypes, NCluster
<1>5. QED BY <1>1, <1>2, <1>3, <1>4

\* What the exit of a CTA keeps.
LEMMA ExitDriver ==
    ASSUME Inv, NEW c \in Core, NEW s \in CtaSlot, CtaExit(c, s)
    PROVE  DriverTypes'
<1>0. DriverTypes
  BY DEF Inv, TypeOK
<1>1. PICK k \in Kernel : /\ resident[k] \in Nat /\ resident[k] > 0
                          /\ resident' = [resident EXCEPT ![k] = @ - 1]
                          /\ finished' \in {finished, Append(finished, k)}
  BY ExitStep
<1>2. UNCHANGED <<config, phase, at, uid, launched, busy, executed, latency, allocated, nextCta, from,
                  lastCluster, nextCore>>
  BY DEF CtaExit, hostVars, clusterVars
<1>3. resident' \in [Kernel -> Nat]
  BY <1>0, <1>1 DEF DriverTypes
<1>4. finished' \in Seq(Kernel)
  <2>1. finished \in Seq(Kernel)
    BY <1>0 DEF DriverTypes
  <2>2. Append(finished, k) \in Seq(Kernel)
    BY <2>1, AppendType
  <2>3. QED BY <1>1, <2>1, <2>2
<1>5. NCluster' = NCluster
  BY <1>2 DEF NCluster
<1>6. phase' = "cores"
  BY DEF CtaExit
<1>7. QED BY <1>0, <1>2, <1>3, <1>4, <1>5, <1>6 DEF DriverTypes
-----------------------------------------------------------------------------
(* The window *)

\* Kernels are numbers.
LEMMA KernelNumbers ==
    ASSUME TypeOK
    PROVE  /\ window \in Seq(Kernel) /\ Len(window) \in Nat /\ DOMAIN window = 1 .. Len(window)
           /\ \A i \in DOMAIN window : window[i] \in Kernel /\ window[i] \in Nat
           /\ \A k \in launched : k \in Kernel /\ k \in Nat
<1>1. window \in Seq(Kernel) /\ launched \subseteq Kernel
  BY DEF TypeOK, CoreTypes, DriverTypes
<1>2. \A k \in Kernel : k \in Nat
  BY PerKernel
<1>3. QED BY <1>1, <1>2

\* A kernel of the command list comes to the end of the window.
LEMMA Parsed ==
    ASSUME Inv, ParseKernel
    PROVE  /\ command \in Kernel /\ command \notin launched /\ command \notin Range(window)
           /\ Range(window)' = Range(window) \cup {command} /\ Deleted' = Deleted
           /\ window' \in Seq(Kernel) /\ Len(window') = Len(window) + 1 /\ Len(window') <= WindowSize'
           /\ \A i \in 1 .. Len(window) : window'[i] = window[i]
           /\ window'[Len(window) + 1] = command
<1>1. /\ command \in Nat /\ command > 0 /\ window \in Seq(Kernel)
      /\ \A i \in DOMAIN window : window[i] < command
      /\ \A k \in launched : k < command
  BY DEF Inv, TypeOK, CoreTypes, WindowOK
<1>2. /\ window' = Append(window, command) /\ command' = command + 1 /\ command <= NKernel
      /\ Len(window) < WindowSize /\ config' = config
  BY DEF ParseKernel
<1>3. command \in Kernel
  BY <1>1, <1>2, Constants DEF Kernel
<1>4. command \notin Range(window) /\ command \notin launched
  BY <1>1 DEF Range
<1>5. /\ window' \in Seq(Kernel) /\ Len(window') = Len(window) + 1
      /\ \A i \in 1 .. Len(window) : window'[i] = window[i]
      /\ window'[Len(window) + 1] = command
  BY <1>1, <1>2, <1>3
<1>6. Range(window)' = Range(window) \cup {command}
  <2>1. DOMAIN window = 1 .. Len(window) /\ DOMAIN window' = 1 .. Len(window) + 1
    BY <1>1, <1>5
  <2>2. Len(window) \in Nat
    BY <1>1
  <2>3. \A i \in DOMAIN window' : i \in DOMAIN window \/ i = Len(window) + 1
    BY <2>1, <2>2
  <2>4. \A i \in DOMAIN window : i \in DOMAIN window' /\ window'[i] = window[i]
    BY <1>5, <2>1, <2>2
  <2>5. Len(window) + 1 \in DOMAIN window'
    BY <2>1, <2>2
  <2>6. QED BY <1>5, <2>1, <2>3, <2>4, <2>5 DEF Range
<1>7. Deleted' = Deleted
  <2>1. Deleted' = {k \in 1 .. command : k \notin Range(window)'}
    BY <1>1, <1>2 DEF Deleted
  <2>2. \A k : k \in 1 .. command <=> k \in 1 .. command - 1 \/ k = command
    BY <1>1
  <2>3. QED BY <1>6, <2>1, <2>2 DEF Deleted
<1>8. Len(window') <= WindowSize'
  <2>1. WindowSize' = WindowSize /\ WindowSize \in Nat
    BY <1>2, Constants DEF WindowSize
  <2>2. Len(window) \in Nat
    BY <1>1
  <2>3. QED BY <1>2, <1>5, <2>1, <2>2
<1>9. QED BY <1>3, <1>4, <1>5, <1>6, <1>7, <1>8

\* A kernel is taken out of the window.
LEMMA Cleaned ==
    ASSUME Inv, Cleanup, NEW k, k = window[at], CleansUp(k)
    PROVE  /\ k \in Kernel /\ k \in Range(window) /\ k < command
           /\ Range(window)' = Range(window) \ {k} /\ Deleted' = Deleted \cup {k}
           /\ window' \in Seq(Kernel) /\ Len(window') = Len(window) - 1
           /\ \A j \in 1 .. Len(window) - 1 :
                 (j < at => window'[j] = window[j]) /\ (j >= at => window'[j] = window[j + 1])
           /\ k \notin Runs
<1>1. /\ at \in 1 .. Len(window) /\ window \in Seq(Kernel) /\ Len(window) \in Nat
      /\ \A i, j \in DOMAIN window : i < j => window[i] < window[j]
      /\ \A i \in DOMAIN window : window[i] < command
      /\ command \in Nat
  BY DEF Inv, TypeOK, CoreTypes, WindowOK, Cleanup
<1>2. window' = RemoveAt(window, at) /\ command' = command
  BY DEF Cleanup
<1>3. DOMAIN window = 1 .. Len(window)
  BY <1>1
<1>4. NoRepeat(window)
  <2>1. \A i \in DOMAIN window : i \in Nat /\ window[i] \in Nat
    BY <1>1, <1>3, PerKernel
  <2>2. QED BY <1>1, <2>1 DEF NoRepeat
<1>5. k \in Kernel /\ k \in Range(window) /\ k < command
  BY <1>1, <1>3 DEF Range
<1>6. /\ window' \in Seq(Kernel) /\ Len(window') = Len(window) - 1
      /\ \A j \in 1 .. Len(window) - 1 :
            (j < at => window'[j] = window[j]) /\ (j >= at => window'[j] = window[j + 1])
  <2>1. at \in 1 .. Len(window) /\ window \in Seq(Kernel)
    BY <1>1
  <2>2. PICK r : r = RemoveAt(window, at)
    OBVIOUS
  <2>3. r \in Seq(Kernel) /\ Len(r) = Len(window) - 1
    BY <2>1, <2>2, RemovedAt
  <2>4. ASSUME NEW j \in 1 .. Len(window) - 1
        PROVE  (j < at => r[j] = window[j]) /\ (j >= at => r[j] = window[j + 1])
    BY <2>1, <2>2, RemovedElement
  <2>5. window' = r
    BY <1>2, <2>2
  <2> HIDE <2>2
  <2>6. QED BY <2>3, <2>4, <2>5
<1>7. Range(window)' = Range(window) \ {k}
  <2>1. Range(window') = Range(window) \ {window[at]}
    BY <1>1, <1>2, <1>4, RemovedRange
  <2>2. QED BY <2>1
<1>8. Deleted' = Deleted \cup {k}
  <2>1. k \in 1 .. command - 1
    BY <1>1, <1>5, PerKernel
  <2>2. QED BY <1>2, <1>7, <2>1 DEF Deleted
<1>9. k \notin Runs
  <2>1. CASE k = uid
    BY <1>5, <2>1, PerKernel DEF Inv, RunningOK
  <2>2. CASE ~Active
    BY <2>2, Idle
  <2>3. QED BY <2>1, <2>2 DEF CleansUp
<1>10. QED BY <1>5, <1>6, <1>7, <1>8, <1>9

\* What does not touch the window keeps it as it is.
LEMMA WindowStays ==
    ASSUME Inv, UNCHANGED <<config, command, window>>, launched' \subseteq launched \cup Range(window),
           phase' \in {"launch", "simulate", "cores", "allot", "issue"} \/ (phase' = "cleanup" /\ at' = 1)
              => window # <<>>
    PROVE  WindowOK'
<1>1. \A k \in Range(window) : k < command
  BY DEF Inv, WindowOK, Range
<1>2. WindowSize' = WindowSize
  BY DEF WindowSize
<1>3. QED BY <1>1, <1>2 DEF Inv, WindowOK

LEMMA HostWindow ==
    ASSUME Inv, ParseKernel \/ ParseEnds \/ Launch \/ Simulate \/ Cleanup \/ CleanupEnds
    PROVE  WindowOK'
<1>1. CASE ParseKernel
  <2>1. PICK n \in Nat : n = Len(window) /\ DOMAIN window = 1 .. n
    BY DEF Inv, TypeOK, CoreTypes
  <2>2. /\ command \in Nat /\ command' = command + 1 /\ command <= NKernel /\ NKernel \in Nat
        /\ phase' = "parse" /\ launched' = launched
    BY <1>1, Constants DEF Inv, TypeOK, CoreTypes, ParseKernel
  <2>3. /\ DOMAIN window' = 1 .. n + 1 /\ window'[n + 1] = command
        /\ \A i \in 1 .. n : window'[i] = window[i]
        /\ Len(window') <= WindowSize'
    BY <1>1, <2>1, Parsed
  <2>4. /\ \A i \in 1 .. n : window[i] < command /\ window[i] \in Nat
        /\ \A i, j \in 1 .. n : i < j => window[i] < window[j]
        /\ \A k \in launched : k < command /\ k \in Nat
    BY <2>1, KernelNumbers DEF Inv, WindowOK
  <2>5. \A i \in 1 .. n + 1 : i \in 1 .. n \/ i = n + 1
    OBVIOUS
  <2>6. \A i \in 1 .. n + 1 : window'[i] < command'
    BY <2>2, <2>3, <2>4, <2>5
  <2>7. \A i, j \in 1 .. n + 1 : i < j => window'[i] < window'[j]
    BY <2>2, <2>3, <2>4, <2>5
  <2>8. command' <= NKernel + 1 /\ \A k \in launched' : k < command'
    BY <2>2, <2>4
  <2>9. QED BY <2>2, <2>3, <2>6, <2>7, <2>8 DEF WindowOK
<1>2. CASE ParseEnds
  <2>1. /\ UNCHANGED <<config, command, window, launched>>
        /\ phase' = "launch" => window # <<>>
        /\ phase' \in {"launch", "stopped"}
    BY <1>2 DEF ParseEnds, Goto, hostVars
  <2>2. QED BY <2>1, WindowStays
<1>3. CASE Launch
  <2>1. /\ UNCHANGED <<config, command, window>> /\ phase = "launch"
        /\ launched' \in {launched, launched \cup {window[at]}}
    BY <1>3 DEF Launch
  <2>2. window[at] \in Range(window) /\ window # <<>>
    BY <2>1 DEF Range, Inv, TypeOK, CoreTypes, WindowOK
  <2>3. QED BY <2>1, <2>2, WindowStays
<1>4. CASE Simulate \/ CleanupEnds
  <2>1. /\ UNCHANGED <<config, command, window, launched>>
        /\ phase' # "parse" => phase = "simulate"
    BY <1>4 DEF Simulate, CleanupEnds, Goto, hostVars
  <2>2. phase = "simulate" => window # <<>>
    BY DEF Inv, WindowOK
  <2>3. QED BY <2>1, <2>2, WindowStays
<1>5. CASE Cleanup
  <2>1. /\ UNCHANGED <<config, command, launched>> /\ at > 0 /\ at \in Nat
        /\ phase' = "report" \/ (phase' = "cleanup" /\ at' = at + 1)
    BY <1>5 DEF Cleanup, Goto, Inv, TypeOK, CoreTypes
  <2>2. phase' = "cleanup" => at' # 1
    BY <2>1
  <2>3. CASE ~CleansUp(window[at])
    <3>1. UNCHANGED window
      BY <1>5, <2>3 DEF Cleanup
    <3>2. QED BY <2>1, <2>2, <3>1, WindowStays
  <2>4. CASE CleansUp(window[at])
    <3>1. PICK n \in Nat : n = Len(window) /\ DOMAIN window = 1 .. n
      BY DEF Inv, TypeOK, CoreTypes
    <3>2. /\ DOMAIN window' = 1 .. n - 1 /\ Len(window') = n - 1
          /\ \A j \in 1 .. n - 1 :
                (j < at => window'[j] = window[j]) /\ (j >= at => window'[j] = window[j + 1])
      BY <1>5, <2>4, <3>1, Cleaned
    <3>3. /\ \A i \in 1 .. n : window[i] < command /\ window[i] \in Nat
          /\ \A i, j \in 1 .. n : i < j => window[i] < window[j]
          /\ n <= WindowSize
      BY <3>1, KernelNumbers DEF Inv, WindowOK
    <3>9. WindowSize \in Nat
      BY Constants DEF WindowSize
    <3>4. \A j \in 1 .. n - 1 : j \in 1 .. n /\ j + 1 \in 1 .. n
      BY <3>1
    <3>5. ASSUME NEW j \in 1 .. n - 1 PROVE window'[j] < command
      <4>1. window'[j] \in {window[j], window[j + 1]}
        BY <2>1, <3>2
      <4>2. QED BY <3>3, <3>4, <4>1
    <3>6. \A i, j \in 1 .. n - 1 : i < j => window'[i] < window'[j]
      BY <2>1, <3>2, <3>3, <3>4
    <3>7. WindowSize' = WindowSize
      BY <2>1 DEF WindowSize
    <3>8. n - 1 <= WindowSize
      BY <3>1, <3>3, <3>9
    <3>10. QED BY <2>1, <2>2, <3>2, <3>5, <3>6, <3>7, <3>8 DEF Inv, WindowOK
  <2>5. QED BY <2>3, <2>4
<1>6. QED BY <1>1, <1>2, <1>3, <1>4, <1>5

LEMMA CycleWindow ==
    ASSUME Inv, \/ CoresDone \/ Allot \/ Issue \/ CycleEnds
                \/ \E c \in Core, s \in CtaSlot : CtaExit(c, s)
    PROVE  WindowOK'
<1>1. /\ UNCHANGED <<config, command, window, launched>>
      /\ phase \in {"cores", "allot", "issue"}
  BY DEF CoresDone, Allot, Issue, CycleEnds, CtaExit, hostVars
<1>2. window # <<>>
  BY <1>1 DEF Inv, WindowOK
<1>3. QED BY <1>1, <1>2, WindowStays
-----------------------------------------------------------------------------
(* The CTAs that wait on cores *)

\* Waiting(k), for any contents of the queues.
Waits(p, k) ==
    {w \in Core \X (1 .. MaxPending) : w[2] \in DOMAIN p[w[1]] /\ p[w[1]][w[2]] = k}

\* A CTA is appended to the queue of a core.
LEMMA PastTheEnd ==
    ASSUME NEW p \in [Core -> Seq(Kernel)], NEW c \in Core, NEW k
    PROVE  <<c, Len(p[c]) + 1>> \notin Waits(p, k)
<1>1. PICK n \in Nat : n = Len(p[c]) /\ DOMAIN p[c] = 1 .. n
  OBVIOUS
<1>2. n + 1 \notin 1 .. n
  OBVIOUS
<1>3. <<c, n + 1>> \notin Waits(p, k)
  BY <1>1, <1>2 DEF Waits
<1>4. QED BY <1>1, <1>3

LEMMA OneMoreWaits ==
    ASSUME NEW p \in [Core -> Seq(Kernel)], NEW c \in Core, NEW k \in Kernel,
           Len(p[c]) < MaxPending, NEW q, q[c] = Append(p[c], k),
           \A d \in Core \ {c} : q[d] = p[d],
           NEW j \in Kernel
    PROVE  /\ j = k => Waits(q, j) = Waits(p, j) \cup {<<c, Len(p[c]) + 1>>}
           /\ j # k => Waits(q, j) = Waits(p, j)
<1>0. PICK new : new = <<c, Len(p[c]) + 1>>
  OBVIOUS
<1>1. PICK n \in Nat : n = Len(p[c]) /\ DOMAIN p[c] = 1 .. n /\ n < MaxPending
  OBVIOUS
<1>2. /\ DOMAIN q[c] = 1 .. n + 1 /\ q[c][n + 1] = k
      /\ \A i \in 1 .. n : q[c][i] = p[c][i]
      /\ \A d \in Core \ {c} : q[d] = p[d]
  BY <1>1
<1>3. ASSUME NEW d \in Core, NEW i \in 1 .. MaxPending
      PROVE  <<d, i>> \in Waits(q, j) <=> <<d, i>> \in Waits(p, j) \/ (<<d, i>> = new /\ j = k)
  <2>1. \A r : <<d, i>> \in Waits(r, j) <=> i \in DOMAIN r[d] /\ r[d][i] = j
    BY DEF Waits
  <2>2. CASE d # c
    BY <1>0, <1>2, <2>1, <2>2
  <2>3. CASE d = c
    <3>1. i \in 1 .. n + 1 <=> i \in 1 .. n \/ i = n + 1
      OBVIOUS
    <3>2. <<d, i>> = new <=> i = n + 1
      BY <1>0, <1>1, <2>3
    <3>3. n + 1 \notin 1 .. n
      BY <1>1
    <3>4. QED BY <1>1, <1>2, <2>1, <2>3, <3>1, <3>2, <3>3
  <2>4. QED BY <2>2, <2>3
<1>4. new \in Core \X (1 .. MaxPending)
  <2>1. n + 1 \in 1 .. MaxPending
    BY <1>1, Constants
  <2>2. QED BY <1>0, <1>1, <2>1
<1>5. \A r, l : Waits(r, l) \subseteq Core \X (1 .. MaxPending)
  BY DEF Waits
<1>6. ASSUME NEW w \in Core \X (1 .. MaxPending)
      PROVE  w \in Waits(q, j) <=> w \in Waits(p, j) \/ (w = new /\ j = k)
  <2>1. PICK d \in Core, i \in 1 .. MaxPending : w = <<d, i>>
    OBVIOUS
  <2>2. QED BY <1>3, <2>1
<1>7. ASSUME j = k PROVE Waits(q, j) = Waits(p, j) \cup {new}
  <2>1. \A w \in Core \X (1 .. MaxPending) : w \in Waits(q, j) <=> w \in Waits(p, j) \/ w = new
    BY <1>6, <1>7
  <2>2. QED BY <1>4, <1>5, <2>1
<1>8. ASSUME j # k PROVE Waits(q, j) = Waits(p, j)
  <2>1. \A w \in Core \X (1 .. MaxPending) : w \in Waits(q, j) <=> w \in Waits(p, j)
    BY <1>6, <1>8
  <2>2. QED BY <1>5, <2>1
<1>9. QED BY <1>0, <1>4, <1>7, <1>8

\* The first of a queue waits.
LEMMA FirstWaits ==
    ASSUME NEW p \in [Core -> Seq(Kernel)], NEW c \in Core, p[c] # <<>>, NEW j
    PROVE  <<c, 1>> \in Waits(p, j) <=> j = Head(p[c])
<1>1. p[c] \in Seq(Kernel) /\ 1 \in DOMAIN p[c] /\ Head(p[c]) = p[c][1]
  OBVIOUS
<1>2. 1 \in 1 .. MaxPending
  BY KernelsAssumption
<1>3. QED BY <1>1, <1>2 DEF Waits

\* The first of the queue of c leaves.
ShorterAt(p, c, q) ==
    /\ p \in [Core -> Seq(Kernel)] /\ c \in Core /\ p[c] # <<>> /\ Len(p[c]) <= MaxPending
    /\ q[c] = Tail(p[c])
    /\ \A d \in Core \ {c} : q[d] = p[d]

\* The others move up.
LEMMA OneLessWaits ==
    ASSUME NEW p, NEW c, NEW q, ShorterAt(p, c, q), NEW j \in Kernel
    PROVE  Cardinality(Waits(q, j)) = Cardinality(Waits(p, j) \ {<<c, 1>>})
<1>0. /\ p \in [Core -> Seq(Kernel)] /\ c \in Core /\ p[c] # <<>> /\ Len(p[c]) <= MaxPending
      /\ q[c] = Tail(p[c])
      /\ \A d \in Core \ {c} : q[d] = p[d]
  BY DEF ShorterAt
<1> DEFINE S == Waits(p, j) \ {<<c, 1>>}
           T == Waits(q, j)
<1>1. PICK n \in Nat : /\ n = Len(p[c]) /\ DOMAIN p[c] = 1 .. n /\ n > 0 /\ n <= MaxPending
                       /\ Head(p[c]) = p[c][1]
  <2>1. p[c] \in Seq(Kernel) /\ Len(p[c]) > 0 /\ Len(p[c]) <= MaxPending
    BY <1>0, HeadTail
  <2>2. QED BY <2>1
<1>2. /\ DOMAIN q[c] = 1 .. n - 1
      /\ \A i \in 1 .. n - 1 : q[c][i] = p[c][i + 1]
      /\ \A d \in Core \ {c} : q[d] = p[d]
  BY <1>0, <1>1
<1>3. \A r, d, i : <<d, i>> \in Waits(r, j) <=>
                      /\ d \in Core /\ i \in 1 .. MaxPending
                      /\ i \in DOMAIN r[d] /\ r[d][i] = j
  BY DEF Waits
<1>4. \A r : /\ Waits(r, j) \subseteq Core \X (1 .. MaxPending) /\ IsFiniteSet(Waits(r, j))
  <2>1. IsFiniteSet(Core) /\ IsFiniteSet(1 .. MaxPending)
    BY Constants, FS_Interval DEF Core
  <2>2. IsFiniteSet(Core \X (1 .. MaxPending))
    BY <2>1, FS_Product
  <2>3. QED BY <2>2, FS_Subset DEF Waits
<1> DEFINE f == [w \in S |-> IF w[1] = c THEN <<c, w[2] - 1>> ELSE w]
<1> HIDE DEF S, T
<1>6. ASSUME NEW d \in Core \ {c}, NEW i
      PROVE  <<d, i>> \in S <=> <<d, i>> \in T
  <2>1. <<d, i>> \in S <=> <<d, i>> \in Waits(p, j)
    BY <1>6 DEF S
  <2>2. q[d] = p[d] /\ d \in Core
    BY <1>2, <1>6
  <2>3. <<d, i>> \in Waits(p, j) <=> d \in Core /\ i \in 1 .. MaxPending /\ i \in DOMAIN p[d] /\ p[d][i] = j
    BY <1>3
  <2>4. <<d, i>> \in Waits(q, j) <=> d \in Core /\ i \in 1 .. MaxPending /\ i \in DOMAIN q[d] /\ q[d][i] = j
    BY <1>3
  <2>5. <<d, i>> \in T <=> <<d, i>> \in Waits(q, j)
    BY DEF T
  <2>6. <<d, i>> \in Waits(q, j) <=> <<d, i>> \in Waits(p, j)
    <3>1. DOMAIN q[d] = DOMAIN p[d] /\ q[d][i] = p[d][i]
      BY <2>2, Zenon
    <3> HIDE DEF Core
    <3>2. QED BY <2>3, <2>4, <3>1, Zenon
  <2>7. QED BY <2>1, <2>5, <2>6, Zenon
<1>7. ASSUME NEW i \in 1 .. MaxPending
      PROVE  <<c, i>> \in S <=> <<c, i - 1>> \in T
  <2>1. <<c, i>> \in S <=> i \in 1 .. n /\ p[c][i] = j /\ i # 1
    BY <1>0, <1>1, <1>3 DEF S
  <2>2. <<c, i - 1>> \in T <=> i - 1 \in 1 .. MaxPending /\ i - 1 \in 1 .. n - 1 /\ q[c][i - 1] = j
    <3>1. PICK h : h = i - 1
      OBVIOUS
    <3>2. <<c, h>> \in Waits(q, j) <=> c \in Core /\ h \in 1 .. MaxPending /\ h \in DOMAIN q[c] /\ q[c][h] = j
      BY <1>3
    <3>3. <<c, h>> \in T <=> h \in 1 .. MaxPending /\ h \in 1 .. n - 1 /\ q[c][h] = j
      BY <1>0, <1>2, <3>2 DEF T
    <3>4. QED BY <3>1, <3>3
  <2>3. (i \in 1 .. n /\ i # 1) <=> (i - 1 \in 1 .. MaxPending /\ i - 1 \in 1 .. n - 1)
    <3>1. MaxPending \in Nat /\ i \in Nat /\ i >= 1
      BY Constants
    <3>2. QED BY <1>1, <3>1
  <2>4. i - 1 \in 1 .. n - 1 => q[c][i - 1] = p[c][i]
    BY <1>2
  <2>5. QED BY <2>1, <2>2, <2>3, <2>4
<1>8. \A w \in S : \E d \in Core, i \in 1 .. MaxPending : w = <<d, i>>
  BY <1>4 DEF S
<1>9. \A w \in T : \E d \in Core, i \in 1 .. MaxPending : w = <<d, i>>
  BY <1>4 DEF T
<1>10. ASSUME NEW w \in S PROVE f[w] \in T
  <2>1. PICK d \in Core, i \in 1 .. MaxPending : w = <<d, i>>
    BY <1>8
  <2>2. CASE d = c
    <3>1. f[w] = <<c, i - 1>>
      BY <2>1, <2>2
    <3>2. QED BY <1>7, <2>1, <2>2, <3>1
  <2>3. CASE d # c
    <3>1. f[w] = w
      BY <2>1, <2>3
    <3>2. QED BY <1>6, <2>1, <2>3, <3>1
  <2>4. QED BY <2>2, <2>3
<1>11. ASSUME NEW v \in S, NEW w \in S, f[v] = f[w] PROVE v = w
  <2>1. PICK d \in Core, i \in 1 .. MaxPending : v = <<d, i>>
    BY <1>8
  <2>2. PICK e \in Core, m \in 1 .. MaxPending : w = <<e, m>>
    BY <1>8
  <2>3. /\ d = c => f[v] = <<d, i - 1>>
        /\ d # c => f[v] = <<d, i>>
        /\ e = c => f[w] = <<e, m - 1>>
        /\ e # c => f[w] = <<e, m>>
    BY <2>1, <2>2
  <2> HIDE DEF f
  <2>4. d = e
    <3>1. PICK y : f[v] = <<d, y>>
      BY <2>3
    <3>2. PICK z : f[w] = <<e, z>>
      BY <2>3
    <3>3. <<d, y>> = <<e, z>>
      BY <1>11, <3>1, <3>2
    <3>4. QED BY <3>3
  <2>5. i = m
    <3>1. CASE d = c
      <4>1. <<d, i - 1>> = <<e, m - 1>>
        BY <1>11, <2>3, <2>4, <3>1
      <4>2. i - 1 = m - 1
        BY <4>1
      <4>3. QED BY <4>2
    <3>2. CASE d # c
      <4>1. <<d, i>> = <<e, m>>
        BY <1>11, <2>3, <2>4, <3>2
      <4>2. QED BY <4>1
    <3>3. QED BY <3>1, <3>2
  <2>6. QED BY <2>1, <2>2, <2>4, <2>5
<1>12. ASSUME NEW w \in T PROVE \E v \in S : f[v] = w
  <2>1. PICK d \in Core, i \in 1 .. MaxPending : w = <<d, i>>
    BY <1>9
  <2>2. CASE d = c
    <3>1. i \in 1 .. n - 1
      BY <1>2, <1>3, <2>1, <2>2 DEF T
    <3>2. i + 1 \in 1 .. MaxPending /\ (i + 1) - 1 = i
      BY <1>1, <3>1, Constants
    <3>3. <<c, i + 1>> \in S
      BY <1>7, <2>1, <2>2, <3>2
    <3>4. f[<<c, i + 1>>] = w
      BY <2>1, <2>2, <3>2, <3>3
    <3>5. QED BY <3>3, <3>4
  <2>3. CASE d # c
    <3>1. w \in S
      BY <1>6, <2>1, <2>3
    <3>2. f[w] = w
      BY <2>1, <2>3, <3>1
    <3>3. QED BY <3>1, <3>2
  <2>4. QED BY <2>2, <2>3
<1>13. f \in Bijection(S, T)
  <2>1. DOMAIN f = S /\ f = [w \in S |-> f[w]]
    BY DEF f
  <2> HIDE DEF f
  <2>2. f \in [S -> T]
    BY <1>10, <2>1
  <2>3. \A v, w \in S : f[v] = f[w] => v = w
    BY <1>11
  <2>4. \A w \in T : \E v \in S : f[v] = w
    BY <1>12
  <2>5. f \in Injection(S, T)
    BY <2>2, <2>3 DEF Injection, IsInjective
  <2>6. f \in Surjection(S, T)
    BY <2>2, <2>4 DEF Surjection
  <2>7. QED BY <2>5, <2>6 DEF Bijection
<1>14. IsFiniteSet(S)
  BY <1>4, FS_Difference DEF S
<1>15. Cardinality(T) = Cardinality(S)
  BY <1>13, <1>14, FS_Bijection DEF ExistsBijection
<1>16. QED BY <1>15 DEF S, T
-----------------------------------------------------------------------------
(* The counters *)

LEMMA CountsStay ==
    ASSUME Inv, UNCHANGED <<allocated, nextCta, resident, pending, ctas>>
    PROVE  CountsOK'
<1>1. ASSUME NEW k \in Kernel PROVE Waiting(k)' = Waiting(k) /\ Holding(k)' = Holding(k)
  BY DEF Waiting, Holding
<1>2. QED BY <1>1 DEF Inv, CountsOK

\* Every kernel's waiting CTAs, for any contents of the queues.
LEMMA WaitingWaits ==
    \A k : Waiting(k) = Waits(pending, k) /\ Waiting(k)' = Waits(pending', k)
BY DEF Waiting, Waits

\* A CTA is given to a core.
LEMMA AllotCounts ==
    ASSUME Inv, Allot
    PROVE  CountsOK'
<1>1. PICK c \in Core : c = Here
  BY CoresReached DEF Inv
<1>2. PICK k : k = KernelFor(c)
  OBVIOUS
<1>3. /\ UNCHANGED <<nextCta, resident, ctas>>
      /\ \/ UNCHANGED <<pending, allocated>>
         \/ /\ Len(pending[c]) < MaxPending /\ k # Null /\ allocated[k] < ctasOf[k]
            /\ pending' = [pending EXCEPT ![c] = Append(@, k)]
            /\ allocated' = [allocated EXCEPT ![k] = @ + 1]
  BY <1>1, <1>2 DEF Allot
<1>4. CASE UNCHANGED <<pending, allocated>>
  BY <1>3, <1>4, CountsStay
<1>5. ASSUME Len(pending[c]) < MaxPending, k # Null, allocated[k] < ctasOf[k],
             pending' = [pending EXCEPT ![c] = Append(@, k)],
             allocated' = [allocated EXCEPT ![k] = @ + 1]
      PROVE  CountsOK'
  <2>1. k \in Kernel
    BY <1>2, <1>5, Selected DEF Inv, TypeOK
  <2>2. PICK p \in [Core -> Seq(Kernel)] : p = pending
    BY DEF Inv, TypeOK, CoreTypes
  <2>3. PICK q : q = pending' /\ q[c] = Append(p[c], k) /\ \A d \in Core \ {c} : q[d] = p[d]
    BY <1>5, <2>2
  <2>14. Len(p[c]) < MaxPending
    BY <1>5, <2>2
  <2>15. q[c] = Append(p[c], k)
    BY <2>3
  <2>16. \A d \in Core \ {c} : q[d] = p[d]
    BY <2>3
  <2>5. ASSUME NEW j \in Kernel
        PROVE  /\ j = k => Waits(q, j) = Waits(p, j) \cup {<<c, Len(p[c]) + 1>>}
               /\ j # k => Waits(q, j) = Waits(p, j)
    BY <2>1, <2>14, <2>15, <2>16, OneMoreWaits
  <2>4. PICK new : new = <<c, Len(p[c]) + 1>>
    OBVIOUS
  <2>17. new \notin Waits(p, k)
    BY <2>4, PastTheEnd
  <2>6. /\ new \notin Waiting(k) /\ Waiting(k)' = Waiting(k) \cup {new}
        /\ \A j \in Kernel \ {k} : Waiting(j)' = Waiting(j)
    BY <2>1, <2>2, <2>3, <2>4, <2>5, <2>17, WaitingWaits
  <2>7. /\ allocated \in [Kernel -> Nat] /\ nextCta \in [Kernel -> Nat]
        /\ ctasOf[k] \in Nat
    BY <2>1, PerKernel DEF Inv, TypeOK, DriverTypes
  <2>8. /\ \A j \in Kernel : /\ allocated[j] = nextCta[j] + Cardinality(Waiting(j))
                             /\ allocated[j] <= ctasOf[j] /\ resident[j] = Cardinality(Holding(j))
        /\ \A d \in Core : Len(pending[d]) <= MaxPending
    BY DEF Inv, CountsOK
  <2>9. Cardinality(Waiting(k)') = Cardinality(Waiting(k)) + 1 /\ Cardinality(Waiting(k)) \in Nat
    BY <2>6, Places, FS_AddElement
  <2>10. allocated'[k] = nextCta[k] + Cardinality(Waiting(k)') /\ allocated'[k] <= ctasOf[k]
    <3>1. allocated'[k] = allocated[k] + 1 /\ allocated[k] \in Nat /\ nextCta[k] \in Nat
      BY <1>5, <2>1, <2>7
    <3>2. allocated[k] = nextCta[k] + Cardinality(Waiting(k)) /\ allocated[k] < ctasOf[k]
      BY <1>5, <2>1, <2>8
    <3>3. QED BY <2>7, <2>9, <3>1, <3>2
  <2>11. ASSUME NEW j \in Kernel
         PROVE  /\ allocated'[j] = nextCta'[j] + Cardinality(Waiting(j)') /\ allocated'[j] <= ctasOf[j]
                /\ resident'[j] = Cardinality(Holding(j)')
    <3>1. resident'[j] = Cardinality(Holding(j)')
      BY <1>3, <2>8 DEF Holding
    <3>2. CASE j = k
      BY <1>3, <2>10, <3>1, <3>2
    <3>3. CASE j # k
      <4>1. allocated'[j] = allocated[j] /\ Waiting(j)' = Waiting(j)
        BY <1>5, <2>6, <2>7, <3>3
      <4>2. QED BY <1>3, <2>8, <3>1, <4>1
    <3>4. QED BY <3>2, <3>3
  <2>12. ASSUME NEW d \in Core PROVE Len(pending'[d]) <= MaxPending
    <3>1. PICK n \in Nat : n = Len(pending[c]) /\ n < MaxPending /\ MaxPending \in Nat
      BY <1>5, <2>2, Constants
    <3>2. pending[c] \in Seq(Kernel)
      BY <2>2
    <3>3. Len(Append(pending[c], k)) = n + 1
      BY <2>1, <3>1, <3>2, AppendType
    <3>4. CASE d = c
      <4>1. pending'[d] = Append(pending[c], k)
        BY <1>5, <2>2, <3>4
      <4>2. QED BY <3>1, <3>3, <4>1
    <3>5. CASE d # c
      <4>1. pending'[d] = pending[d]
        BY <1>5, <2>2, <3>5
      <4>2. QED BY <2>8, <4>1
    <3>6. QED BY <3>4, <3>5
  <2>13. QED BY <2>11, <2>12 DEF CountsOK
<1>6. QED BY <1>3, <1>4, <1>5

\* A context gets another kernel, or none.
LEMMA HoldingChanges ==
    ASSUME ctas \in [Core -> [CtaSlot -> Kernel \cup {Null}]], NEW c \in Core, NEW s \in CtaSlot, NEW k,
           NEW j, ctas' = [ctas EXCEPT ![c][s] = k]
    PROVE  /\ Holding(j) \ {<<c, s>>} = Holding(j)' \ {<<c, s>>}
           /\ <<c, s>> \in Holding(j)' <=> j = k
<1>1. \A d \in Core, u \in CtaSlot : ctas'[d][u] = IF d = c /\ u = s THEN k ELSE ctas[d][u]
  OBVIOUS
<1>2. ASSUME NEW d \in Core, NEW u \in CtaSlot
      PROVE  /\ <<d, u>> \in Holding(j) <=> ctas[d][u] = j
             /\ <<d, u>> \in Holding(j)' <=> (IF d = c /\ u = s THEN k ELSE ctas[d][u]) = j
             /\ <<d, u>> = <<c, s>> <=> d = c /\ u = s
  BY <1>1 DEF Holding
<1>3. ASSUME NEW h \in Core \X CtaSlot
      PROVE  /\ h # <<c, s>> => (h \in Holding(j) <=> h \in Holding(j)')
             /\ h = <<c, s>> => (h \in Holding(j)' <=> j = k)
  <2>1. PICK d \in Core, u \in CtaSlot : h = <<d, u>>
    OBVIOUS
  <2>2. QED BY <1>2, <2>1
<1>4. Holding(j) \subseteq Core \X CtaSlot /\ Holding(j)' \subseteq Core \X CtaSlot
  BY DEF Holding
<1>5. <<c, s>> \in Core \X CtaSlot
  OBVIOUS
<1>6. QED BY <1>3, <1>4, <1>5

\* A core begins the CTA it has waited longest for.
LEMMA IssueCounts ==
    ASSUME Inv, Issue
    PROVE  CountsOK'
<1>1. CASE UNCHANGED <<kernelVars, coreVars>>
  BY <1>1, CountsStay DEF kernelVars, coreVars
<1>2. ASSUME NEW c \in Core, pending[c] # <<>>, CanIssue(c, Head(pending[c])), IssueBlock(c),
             UNCHANGED allocated
      PROVE  CountsOK'
  <2>1. PICK k \in Kernel : k = Head(pending[c])
    BY <1>2, HeadTail DEF Inv, TypeOK, CoreTypes
  <2>2. PICK s \in CtaSlot : s = Min(FreeCta(c, k)) /\ s \notin Live(c)
    BY <1>2, <2>1, FreeContext
  <2>3. /\ ctas' = [ctas EXCEPT ![c][s] = k] /\ pending' = [pending EXCEPT ![c] = Tail(@)]
        /\ nextCta' = [nextCta EXCEPT ![k] = @ + 1] /\ resident' = [resident EXCEPT ![k] = @ + 1]
    BY <1>2, <2>1, <2>2 DEF IssueBlock
  <2>4. /\ allocated \in [Kernel -> Nat] /\ nextCta \in [Kernel -> Nat]
        /\ resident \in [Kernel -> Nat] /\ ctas \in [Core -> [CtaSlot -> Kernel \cup {Null}]]
    BY DEF Inv, TypeOK, CoreTypes, DriverTypes
  <2>5. /\ \A j \in Kernel : /\ allocated[j] = nextCta[j] + Cardinality(Waiting(j))
                             /\ allocated[j] <= ctasOf[j] /\ resident[j] = Cardinality(Holding(j))
        /\ \A d \in Core : Len(pending[d]) <= MaxPending
    BY DEF Inv, CountsOK
  <2>6. PICK p \in [Core -> Seq(Kernel)] : p = pending
    BY DEF Inv, TypeOK, CoreTypes
  <2>7. PICK q : q = pending'
    OBVIOUS
  <2>8. q[c] = Tail(p[c]) /\ \A d \in Core \ {c} : q[d] = p[d]
    BY <2>3, <2>6, <2>7
  <2>15. q[c] = Tail(p[c])
    BY <2>8
  <2>16. \A d \in Core \ {c} : q[d] = p[d]
    BY <2>8
  <2>9. p[c] # <<>> /\ Len(p[c]) <= MaxPending
    BY <1>2, <2>5, <2>6
  <2>10. ASSUME NEW j \in Kernel
         PROVE  Cardinality(Waiting(j)') =
                   IF j = k THEN Cardinality(Waiting(j)) - 1 ELSE Cardinality(Waiting(j))
    <3>6. IsFiniteSet(Waits(p, j))
      BY <2>6, Places, WaitingWaits
    <3>7. <<c, 1>> \in Waits(p, j) <=> j = Head(p[c])
      BY <2>9, FirstWaits
    <3>1. Cardinality(Waits(q, j)) = Cardinality(Waits(p, j) \ {<<c, 1>>})
      <4>1. ShorterAt(p, c, q)
        BY <2>9, <2>15, <2>16 DEF ShorterAt
      <4>2. QED BY <4>1, OneLessWaits
    <3>2. Cardinality(Waits(p, j) \ {<<c, 1>>}) =
             IF <<c, 1>> \in Waits(p, j) THEN Cardinality(Waits(p, j)) - 1
             ELSE Cardinality(Waits(p, j))
      BY <3>6, FS_RemoveElement
    <3>3. Waiting(j) = Waits(p, j) /\ Waiting(j)' = Waits(q, j)
      BY <2>6, <2>7, WaitingWaits
    <3>4. j = Head(p[c]) <=> j = k
      BY <2>1, <2>6
    <3>5. QED BY <3>1, <3>2, <3>3, <3>4, <3>7
  <2>11. ASSUME NEW j \in Kernel
         PROVE  Cardinality(Holding(j)') =
                   IF j = k THEN Cardinality(Holding(j)) + 1 ELSE Cardinality(Holding(j))
    <3>1. CASE j = k
      <4>1. <<c, s>> \notin Holding(k)
        <5>1. ctas[c][s] = Null /\ k # Null
          BY <2>2, PerKernel DEF Live
        <5>2. QED BY <5>1 DEF Holding
      <4>2. Holding(k)' = Holding(k) \cup {<<c, s>>}
        <5>1. /\ Holding(k) \ {<<c, s>>} = Holding(k)' \ {<<c, s>>}
              /\ <<c, s>> \in Holding(k)' <=> k = k
          BY <2>3, <2>4, HoldingChanges
        <5>2. QED BY <5>1
      <4>3. IsFiniteSet(Holding(k))
        BY Places
      <4>4. Cardinality(Holding(k) \cup {<<c, s>>}) = Cardinality(Holding(k)) + 1
        BY <4>1, <4>3, FS_AddElement
      <4>5. QED BY <3>1, <4>2, <4>4
    <3>2. CASE j # k
      <4>1. ctas[c][s] = Null
        BY <2>2 DEF Live
      <4>2. j # Null
        BY PerKernel
      <4>3. Holding(j)' = Holding(j)
        <5>1. /\ Holding(j) \ {<<c, s>>} = Holding(j)' \ {<<c, s>>}
              /\ <<c, s>> \in Holding(j)' <=> j = k
          BY <2>3, <2>4, HoldingChanges
        <5>2. <<c, s>> \notin Holding(j)
          BY <4>1, <4>2 DEF Holding
        <5>3. \A h : h \in Holding(j) <=> h \in Holding(j)'
          BY <3>2, <5>1, <5>2
        <5>4. QED BY <5>3
      <4>4. QED BY <3>2, <4>3
    <3>3. QED BY <3>1, <3>2
  <2>12. ASSUME NEW j \in Kernel
         PROVE  /\ allocated'[j] = nextCta'[j] + Cardinality(Waiting(j)') /\ allocated'[j] <= ctasOf[j]
                /\ resident'[j] = Cardinality(Holding(j)')
    <3>1. PICK w, h \in Nat : w = Cardinality(Waiting(j)) /\ h = Cardinality(Holding(j))
      BY Places
    <3>2. allocated'[j] = allocated[j]
      BY <1>2
    <3>3. /\ nextCta'[j] = IF j = k THEN nextCta[j] + 1 ELSE nextCta[j]
          /\ resident'[j] = IF j = k THEN resident[j] + 1 ELSE resident[j]
      BY <2>3, <2>4
    <3>4. /\ Cardinality(Waiting(j)') = IF j = k THEN w - 1 ELSE w
          /\ Cardinality(Holding(j)') = IF j = k THEN h + 1 ELSE h
      BY <2>10, <2>11, <3>1
    <3>5. /\ allocated[j] = nextCta[j] + w /\ allocated[j] <= ctasOf[j] /\ resident[j] = h
          /\ nextCta[j] \in Nat
      BY <2>4, <2>5, <3>1
    <3>6. QED BY <3>1, <3>2, <3>3, <3>4, <3>5
  <2>13. ASSUME NEW d \in Core PROVE Len(pending'[d]) <= MaxPending
    <3>1. Len(p[c]) \in Nat /\ Len(Tail(p[c])) = Len(p[c]) - 1
      BY <2>9, HeadTail
    <3>2. Len(p[c]) <= MaxPending /\ MaxPending \in Nat
      BY <2>9, Constants
    <3>3. CASE d = c
      <4>1. pending'[d] = Tail(p[c])
        BY <2>7, <2>8, <3>3
      <4>2. QED BY <3>1, <3>2, <4>1
    <3>4. CASE d # c
      <4>1. pending'[d] = p[d]
        BY <2>7, <2>8, <3>4
      <4>2. QED BY <2>5, <2>6, <4>1
    <3>5. QED BY <3>3, <3>4
  <2>14. QED BY <2>12, <2>13 DEF CountsOK
<1>3. UNCHANGED allocated
  BY IssueStep DEF Inv
<1>4. \/ UNCHANGED <<kernelVars, coreVars>>
      \/ \E c \in Core : pending[c] # <<>> /\ CanIssue(c, Head(pending[c])) /\ IssueBlock(c)
  BY IssueStep DEF Inv
<1>5. QED BY <1>1, <1>2, <1>3, <1>4

\* A CTA exits.
LEMMA ExitCounts ==
    ASSUME Inv, NEW c \in Core, NEW s \in CtaSlot, CtaExit(c, s)
    PROVE  CountsOK'
<1>1. PICK k \in Kernel : /\ k = ctas[c][s] /\ <<c, s>> \in Holding(k) /\ resident[k] > 0
                          /\ resident' = [resident EXCEPT ![k] = @ - 1]
                          /\ ctas' = [ctas EXCEPT ![c][s] = Null]
  BY ExitStep
<1>2. UNCHANGED <<allocated, nextCta, pending>>
  BY DEF CtaExit
<1>3. /\ resident \in [Kernel -> Nat] /\ ctas \in [Core -> [CtaSlot -> Kernel \cup {Null}]]
  BY DEF Inv, TypeOK, CoreTypes, DriverTypes
<1>4. ASSUME NEW j \in Kernel PROVE resident'[j] = Cardinality(Holding(j)')
  <2>1. resident[j] = Cardinality(Holding(j))
    BY DEF Inv, CountsOK
  <2>2. CASE j = k
    <3>1. Holding(k)' = Holding(k) \ {<<c, s>>}
      <4>1. ctas' = [ctas EXCEPT ![c][s] = Null] /\ ctas \in [Core -> [CtaSlot -> Kernel \cup {Null}]]
        BY <1>1, <1>3
      <4>2. /\ Holding(k) \ {<<c, s>>} = Holding(k)' \ {<<c, s>>}
            /\ <<c, s>> \in Holding(k)' <=> k = Null
        BY <4>1, HoldingChanges
      <4>3. QED BY <4>2, PerKernel
    <3>2. IsFiniteSet(Holding(k))
      BY Places
    <3>3. Cardinality(Holding(k) \ {<<c, s>>}) = Cardinality(Holding(k)) - 1
      BY <1>1, <3>2, FS_RemoveElement
    <3>4. resident'[k] = resident[k] - 1
      BY <1>1, <1>3
    <3>5. QED BY <2>1, <2>2, <3>1, <3>3, <3>4
  <2>3. CASE j # k
    <3>1. Holding(j)' = Holding(j)
      <4>1. ctas' = [ctas EXCEPT ![c][s] = Null] /\ ctas \in [Core -> [CtaSlot -> Kernel \cup {Null}]]
        BY <1>1, <1>3
      <4>2. /\ Holding(j) \ {<<c, s>>} = Holding(j)' \ {<<c, s>>}
            /\ <<c, s>> \in Holding(j)' <=> j = Null
        BY <4>1, HoldingChanges
      <4>3. <<c, s>> \notin Holding(j)
        BY <1>1, <2>3 DEF Holding
      <4>4. QED BY <4>2, <4>3, PerKernel
    <3>2. resident'[j] = resident[j]
      BY <1>1, <1>3, <2>3
    <3>3. QED BY <2>1, <3>1, <3>2
  <2>4. QED BY <2>2, <2>3
<1>5. \A j : Waiting(j)' = Waiting(j)
  BY <1>2 DEF Waiting
<1>6. QED BY <1>2, <1>4, <1>5 DEF Inv, CountsOK
-----------------------------------------------------------------------------
(* The kernels that run *)

\* Steps that neither launch a kernel nor begin or end a CTA.
LEMMA RunningStays ==
    ASSUME Inv, UNCHANGED <<running, launched, nextCta, resident>>,
           \A k \in Kernel \ launched : allocated'[k] = allocated[k],
           \A k \in Runs : k \in Range(window'),
           {uid'} \cup Range(finished') \subseteq {Null, uid} \cup Range(finished)
    PROVE  RunningOK'
<1>1. Runs' = Runs /\ \A k : (MoreCtas(k)' <=> MoreCtas(k)) /\ (KernelDone(k)' <=> KernelDone(k))
  BY DEF Runs, MoreCtas, KernelDone
<1>2. RunningOK
  BY DEF Inv
<1>3. QED BY <1>1, <1>2 DEF RunningOK

\* The first of the finished kernels is taken.
LEMMA TakenFrom ==
    ASSUME NEW S, NEW q \in Seq(S), q # <<>>
    PROVE  {Head(q)} \cup Range(Tail(q)) \subseteq Range(q)
<1>1. PICK n \in Nat : n = Len(q) /\ n > 0 /\ DOMAIN q = 1 .. n
  BY HeadTail
<1>2. /\ DOMAIN Tail(q) = 1 .. n - 1 /\ \A i \in 1 .. n - 1 : Tail(q)[i] = q[i + 1]
  BY <1>1
<1>3. ASSUME NEW i \in 1 .. n - 1 PROVE Tail(q)[i] \in Range(q)
  <2>1. i + 1 \in 1 .. n
    BY <1>1
  <2>2. QED BY <1>1, <1>2, <2>1 DEF Range
<1>4. Range(Tail(q)) \subseteq Range(q)
  BY <1>2, <1>3 DEF Range
<1>5. QED BY <1>4, HeadTail

\* A kernel is added to the finished ones.
LEMMA AddedTo ==
    ASSUME NEW S, NEW q \in Seq(S), NEW x \in S
    PROVE  Range(Append(q, x)) = Range(q) \cup {x}
<1>1. OnceIn({}, q) /\ x \notin Range(q) \cap {}
  BY DEF OnceIn
<1>2. QED BY <1>1, AppendOnce

LEMMA LaunchRunning ==
    ASSUME Inv, Launch
    PROVE  RunningOK'
<1>0. /\ running \in [Slot -> Kernel \cup {Null}] /\ launched \subseteq Kernel
      /\ nextCta \in [Kernel -> Nat] /\ resident \in [Kernel -> Nat] /\ allocated \in [Kernel -> Nat]
  BY DEF Inv, TypeOK, CoreTypes, DriverTypes
<1>1. /\ UNCHANGED <<window, uid, finished, allocated, nextCta, resident>>
      /\ phase = "launch" /\ at \in 1 .. Len(window)
  BY DEF Launch, kernelVars, Inv, TypeOK, CoreTypes
<1>2. PICK k \in Kernel : k = window[at] /\ k \in Range(window)
  BY <1>1, KernelNumbers DEF Inv, Range
<1>3. CASE ~MayLaunch(k)
  <2>1. UNCHANGED <<running, launched>>
    BY <1>2, <1>3 DEF Launch
  <2>2. \A j \in Runs : j \in Range(window')
    BY <1>1 DEF Inv, RunningOK
  <2>3. QED BY <1>1, <2>1, <2>2, RunningStays
<1>4. CASE MayLaunch(k)
  <2>1. PICK n : /\ n = Min(FreeSlot) /\ running' = [running EXCEPT ![n] = k]
                 /\ launched' = launched \cup {k}
    BY <1>2, <1>4 DEF Launch
  <2>2. n \in Slot /\ (running[n] = Null \/ KernelDone(running[n]))
    <3>1. FreeSlot \in SUBSET Nat /\ FreeSlot # {}
      BY <1>4, Constants DEF MayLaunch, FreeSlot, Slot
    <3>2. n \in FreeSlot
      BY <2>1, <3>1, MinOfNats
    <3>3. QED BY <3>2 DEF FreeSlot
  <2>3. running[n] = Null
    <3> SUFFICES ASSUME running[n] # Null PROVE FALSE
      OBVIOUS
    <3>1. running[n] \in Runs
      BY <1>0, <2>2 DEF Runs
    <3>2. MoreCtas(running[n]) \/ resident[running[n]] > 0
      BY <3>1 DEF Inv, RunningOK
    <3>3. PICK j \in Kernel : j = running[n]
      BY <1>0, <2>2
    <3>4. nextCta[j] \in Nat /\ resident[j] \in Nat /\ ctasOf[j] \in Nat
      BY <1>0, PerKernel
    <3>5. QED BY <2>2, <3>2, <3>3, <3>4 DEF MoreCtas, KernelDone
  <2>4. k \notin launched
    BY <1>4 DEF MayLaunch
  <2>5. RunningOK
    BY DEF Inv
  <2>6. k \notin Runs
    BY <2>4, <2>5 DEF RunningOK
  <2>7. \A m \in Slot : running'[m] = IF m = n THEN k ELSE running[m]
    BY <1>0, <2>1
  <2>8. Runs' = Runs \cup {k}
    <3>1. \A j \in Kernel : (\E m \in Slot : running'[m] = j) <=> (\E m \in Slot : running[m] = j) \/ j = k
      BY <2>2, <2>3, <2>7, PerKernel
    <3>2. QED BY <3>1 DEF Runs
  <2>9. MoreCtas(k)'
    <3>1. allocated[k] = nextCta[k] + Cardinality(Waiting(k)) /\ allocated[k] = 0
      BY <2>4, <2>5 DEF RunningOK, Inv, CountsOK
    <3>2. nextCta[k] \in Nat /\ Cardinality(Waiting(k)) \in Nat /\ nextCta'[k] = nextCta[k]
      BY <1>0, <1>1, Places
    <3>3. nextCta'[k] = 0
      BY <3>1, <3>2
    <3>4. QED BY <3>3, PerKernel DEF MoreCtas
  <2>10. \A j : j # k => (MoreCtas(j)' <=> MoreCtas(j)) /\ (KernelDone(j)' <=> KernelDone(j))
    BY <1>1 DEF MoreCtas, KernelDone
  <2>11. \A j \in Runs' : j \in launched' \cap Range(window') /\ (MoreCtas(j)' \/ resident'[j] > 0)
    BY <1>1, <1>2, <2>1, <2>5, <2>8, <2>9, <2>10 DEF RunningOK
  <2>12. \A m, o \in Slot : running'[m] = running'[o] /\ running'[m] # Null => m = o
    <3>1. \A m \in Slot : running[m] # k
      BY <2>6 DEF Runs
    <3>2. QED BY <2>5, <2>7, <3>1 DEF RunningOK
  <2>13. \A j \in launched' \ Runs' : KernelDone(j)'
    BY <2>1, <2>5, <2>8, <2>10 DEF RunningOK
  <2>14. \A j \in Kernel \ launched' : allocated'[j] = 0 /\ resident'[j] = 0
    BY <1>1, <2>1, <2>5 DEF RunningOK
  <2>15. \A j \in {uid'} \cup Range(finished') : j # Null => j \in launched' /\ j \notin Runs'
    BY <1>1, <2>1, <2>4, <2>5, <2>8 DEF RunningOK
  <2>16. QED BY <2>11, <2>12, <2>13, <2>14, <2>15 DEF RunningOK
<1>5. QED BY <1>3, <1>4

LEMMA HostRunning ==
    ASSUME Inv, ParseKernel \/ ParseEnds \/ Launch \/ Simulate \/ Cleanup \/ CleanupEnds
    PROVE  RunningOK'
<1>1. CASE ParseKernel
  <2>1. UNCHANGED <<running, launched, nextCta, resident, allocated, uid, finished>>
    BY <1>1 DEF ParseKernel, gpuVars, kernelVars
  <2>2. \A k \in Runs : k \in Range(window')
    BY <1>1, Parsed DEF Inv, RunningOK
  <2>3. QED BY <2>1, <2>2, RunningStays
<1>2. CASE ParseEnds \/ Simulate \/ CleanupEnds
  <2>1. /\ UNCHANGED <<running, launched, nextCta, resident, allocated, window, finished>>
        /\ uid' \in {uid, Null}
    BY <1>2 DEF ParseEnds, Simulate, CleanupEnds, hostVars, gpuVars, kernelVars
  <2>2. \A k \in Runs : k \in Range(window')
    BY <2>1 DEF Inv, RunningOK
  <2>3. QED BY <2>1, <2>2, RunningStays
<1>3. CASE Cleanup
  <2>1. UNCHANGED <<running, launched, nextCta, resident, allocated, uid, finished>>
    BY <1>3 DEF Cleanup, gpuVars, kernelVars
  <2>2. \A k \in Runs : k \in Range(window')
    <3>1. CASE CleansUp(window[at])
      BY <1>3, <3>1, Cleaned DEF Inv, RunningOK
    <3>2. CASE ~CleansUp(window[at])
      <4>1. UNCHANGED window
        BY <1>3, <3>2 DEF Cleanup
      <4>2. QED BY <4>1 DEF Inv, RunningOK
    <3>3. QED BY <3>1, <3>2
  <2>3. QED BY <2>1, <2>2, RunningStays
<1>4. QED BY <1>1, <1>2, <1>3, LaunchRunning

\* A core begins a CTA.
LEMMA IssueRunning ==
    ASSUME Inv, Issue
    PROVE  RunningOK'
<1>0. UNCHANGED <<running, launched, window, uid, finished, allocated>>
  BY IssueStep DEF Issue, hostVars, gpuVars, Inv
<1>1. RunningOK /\ CountsOK
  BY DEF Inv
<1>2. CASE UNCHANGED <<kernelVars, coreVars>>
  <2>1. UNCHANGED <<nextCta, resident, allocated>>
    BY <1>2 DEF kernelVars
  <2>2. \A k \in Runs : k \in Range(window')
    BY <1>0, <1>1 DEF RunningOK
  <2>3. QED BY <1>0, <2>1, <2>2, RunningStays
<1>3. ASSUME NEW c \in Core, pending[c] # <<>>, IssueBlock(c)
      PROVE  RunningOK'
  <2>1. PICK k \in Kernel : k = Head(pending[c])
    BY <1>3, HeadTail DEF Inv, TypeOK, CoreTypes
  <2>2. /\ nextCta' = [nextCta EXCEPT ![k] = @ + 1] /\ resident' = [resident EXCEPT ![k] = @ + 1]
    BY <1>3, <2>1 DEF IssueBlock
  <2>3. k \in Runs
    <3>1. pending \in [Core -> Seq(Kernel)]
      BY DEF Inv, TypeOK, CoreTypes
    <3>2. <<c, 1>> \in Waits(pending, k)
      BY <1>3, <2>1, <3>1, FirstWaits
    <3>3. Waiting(k) # {}
      BY <3>2, WaitingWaits
    <3>4. QED BY <3>3, AtWork
  <2>4. /\ nextCta \in [Kernel -> Nat] /\ resident \in [Kernel -> Nat]
    BY DEF Inv, TypeOK, DriverTypes
  <2>5. resident'[k] > 0
    BY <2>2, <2>4
  <2>6. \A j \in Kernel : j # k => nextCta'[j] = nextCta[j] /\ resident'[j] = resident[j]
    BY <2>2, <2>4
  <2>7. Runs' = Runs
    BY <1>0 DEF Runs
  <2>8. \A j \in Kernel : j # k => (MoreCtas(j)' <=> MoreCtas(j)) /\ (KernelDone(j)' <=> KernelDone(j))
    BY <2>6 DEF MoreCtas, KernelDone
  <2>9. \A j \in Runs : j \in Kernel
    BY DEF Runs
  <2>10. \A j \in Runs' : j \in launched' \cap Range(window') /\ (MoreCtas(j)' \/ resident'[j] > 0)
    BY <1>0, <1>1, <2>5, <2>6, <2>7, <2>8, <2>9 DEF RunningOK
  <2>11. \A j \in launched' \ Runs' : KernelDone(j)'
    <3>1. launched \subseteq Kernel
      BY DEF Inv, TypeOK, DriverTypes
    <3>2. QED BY <1>0, <1>1, <2>3, <2>7, <2>8, <3>1 DEF RunningOK
  <2>12. \A j \in Kernel \ launched' : allocated'[j] = 0 /\ resident'[j] = 0
    BY <1>0, <1>1, <2>3, <2>6 DEF RunningOK
  <2>13. QED BY <1>0, <1>1, <2>7, <2>10, <2>11, <2>12 DEF RunningOK
<1>4. \/ UNCHANGED <<kernelVars, coreVars>>
      \/ \E c \in Core : pending[c] # <<>> /\ IssueBlock(c)
  BY IssueStep DEF Inv
<1>5. QED BY <1>2, <1>3, <1>4

\* A CTA exits, perhaps the last one of its kernel.
LEMMA ExitRunning ==
    ASSUME Inv, NEW c \in Core, NEW s \in CtaSlot, CtaExit(c, s)
    PROVE  RunningOK'
<1>0. UNCHANGED <<launched, window, uid, allocated, nextCta>>
  BY DEF CtaExit, hostVars
<1>1. RunningOK
  BY DEF Inv
<1>2. PICK k : k = ctas[c][s]
  OBVIOUS
<1>3. /\ k \in Kernel /\ k \in Runs /\ <<c, s>> \in Holding(k)
      /\ resident[k] \in Nat /\ resident[k] > 0 /\ resident' = [resident EXCEPT ![k] = @ - 1]
      /\ ctas' = [ctas EXCEPT ![c][s] = Null]
      /\ \/ /\ ~MoreCtas(k) /\ resident[k] = 1 /\ finished' = Append(finished, k)
            /\ running' = [n \in Slot |-> IF running[n] = k THEN Null ELSE running[n]]
         \/ /\ MoreCtas(k) \/ resident[k] > 1
            /\ UNCHANGED <<finished, running>>
  BY <1>2, ExitStep
<1>4. /\ nextCta \in [Kernel -> Nat] /\ resident \in [Kernel -> Nat] /\ launched \subseteq Kernel
      /\ running \in [Slot -> Kernel \cup {Null}] /\ finished \in Seq(Kernel)
      /\ \A j \in Runs : j \in Kernel
  BY DEF Inv, TypeOK, CoreTypes, DriverTypes, Runs
<1>5. resident'[k] = resident[k] - 1 /\ \A j \in Kernel : j # k => resident'[j] = resident[j]
  BY <1>3, <1>4
<1>6. \A j : MoreCtas(j)' <=> MoreCtas(j)
  BY <1>0 DEF MoreCtas
<1>7. \A j \in Kernel : j # k => (KernelDone(j)' <=> KernelDone(j))
  BY <1>0, <1>5 DEF KernelDone
<1>8. \A j \in Kernel \ launched' : allocated'[j] = 0 /\ resident'[j] = 0
  BY <1>0, <1>1, <1>3, <1>5 DEF RunningOK
<1>9. CASE MoreCtas(k) \/ resident[k] > 1
  <2>1. UNCHANGED <<finished, running>>
    BY <1>3, <1>9
  <2>2. Runs' = Runs
    BY <2>1 DEF Runs
  <2>3. MoreCtas(k)' \/ resident'[k] > 0
    BY <1>3, <1>5, <1>6, <1>9
  <2>4. \A j \in Runs' : j \in launched' \cap Range(window') /\ (MoreCtas(j)' \/ resident'[j] > 0)
    BY <1>0, <1>1, <1>4, <1>5, <1>6, <2>2, <2>3 DEF RunningOK
  <2>5. \A j \in launched' \ Runs' : KernelDone(j)'
    BY <1>0, <1>1, <1>3, <1>4, <1>7, <2>2 DEF RunningOK
  <2>6. QED BY <1>0, <1>1, <1>8, <2>1, <2>2, <2>4, <2>5 DEF RunningOK
<1>10. CASE ~MoreCtas(k) /\ resident[k] = 1
  <2>1. /\ finished' = Append(finished, k)
        /\ running' = [n \in Slot |-> IF running[n] = k THEN Null ELSE running[n]]
    BY <1>3, <1>10
  <2>2. Runs' = Runs \ {k}
    <3>1. \A n \in Slot : running'[n] = IF running[n] = k THEN Null ELSE running[n]
      BY <2>1
    <3>2. \A j \in Kernel : (\E n \in Slot : running'[n] = j) <=> (\E n \in Slot : running[n] = j) /\ j # k
      BY <3>1, PerKernel
    <3>3. QED BY <3>2 DEF Runs
  <2>3. KernelDone(k)'
    <3>1. nextCta[k] \in Nat /\ ctasOf[k] \in Nat /\ k # Null
      BY <1>3, <1>4, PerKernel
    <3>2. nextCta[k] >= ctasOf[k]
      BY <1>10, <3>1 DEF MoreCtas
    <3>3. resident'[k] = 0
      BY <1>5, <1>10
    <3>4. QED BY <1>0, <3>2, <3>3 DEF KernelDone
  <2>4. \A j \in Runs' : j \in launched' \cap Range(window') /\ (MoreCtas(j)' \/ resident'[j] > 0)
    BY <1>0, <1>1, <1>4, <1>5, <1>6, <2>2 DEF RunningOK
  <2>5. \A j \in launched' \ Runs' : KernelDone(j)'
    BY <1>0, <1>1, <1>4, <1>7, <2>2, <2>3 DEF RunningOK
  <2>6. Range(finished') = Range(finished) \cup {k}
    BY <1>3, <1>4, <2>1, AddedTo
  <2>7. \A j \in {uid'} \cup Range(finished') : j # Null => j \in launched' /\ j \notin Runs'
    BY <1>0, <1>1, <1>3, <2>2, <2>6 DEF RunningOK
  <2>8. \A m, n \in Slot : running'[m] = running'[n] /\ running'[m] # Null => m = n
    BY <1>1, <2>1 DEF RunningOK
  <2>9. QED BY <1>8, <2>4, <2>5, <2>7, <2>8 DEF RunningOK
<1>11. QED BY <1>3, <1>9, <1>10

LEMMA CycleRunning ==
    ASSUME Inv, CoresDone \/ Allot \/ Issue \/ CycleEnds
    PROVE  RunningOK'
<1>1. CASE CoresDone
  <2>1. UNCHANGED <<running, launched, window, uid, finished, allocated, nextCta, resident>>
    BY <1>1 DEF CoresDone, hostVars, gpuVars, kernelVars
  <2>2. \A k \in Runs : k \in Range(window')
    BY <2>1 DEF Inv, RunningOK
  <2>3. QED BY <2>1, <2>2, RunningStays
<1>2. CASE Allot
  <2>1. UNCHANGED <<running, launched, window, uid, finished, nextCta, resident>>
    BY <1>2 DEF Allot, hostVars
  <2>2. \A k \in Runs : k \in Range(window')
    BY <2>1 DEF Inv, RunningOK
  <2>3. \A k \in Kernel \ launched : allocated'[k] = allocated[k]
    <3>1. PICK c \in Core : c = Here
      BY CoresReached DEF Inv
    <3>2. PICK k : k = KernelFor(c)
      OBVIOUS
    <3>3. \/ UNCHANGED allocated
          \/ /\ k # Null /\ allocated[k] < ctasOf[k]
             /\ allocated' = [allocated EXCEPT ![k] = @ + 1]
      BY <1>2, <3>1, <3>2 DEF Allot
    <3>4. k # Null /\ allocated[k] < ctasOf[k] => k \in launched
      <4>1. phase = "allot"
        BY <1>2 DEF Allot
      <4>2. k # Null /\ allocated[k] < ctasOf[k] => k \in Runs
        BY <3>2, <4>1, GivenRuns
      <4>3. QED BY <4>2 DEF Inv, RunningOK
    <3>5. allocated \in [Kernel -> Nat]
      BY DEF Inv, TypeOK, DriverTypes
    <3>6. QED BY <3>3, <3>4, <3>5
  <2>4. QED BY <2>1, <2>2, <2>3, RunningStays
<1>3. CASE CycleEnds
  <2>1. UNCHANGED <<running, launched, window, allocated, nextCta, resident>>
    BY <1>3 DEF CycleEnds, hostVars, kernelVars
  <2>2. \A k \in Runs : k \in Range(window')
    BY <2>1 DEF Inv, RunningOK
  <2>3. {uid'} \cup Range(finished') \subseteq {Null, uid} \cup Range(finished)
    <3>1. CASE finished = <<>>
      BY <1>3, <3>1 DEF CycleEnds
    <3>2. CASE finished # <<>>
      <4>1. uid' = Head(finished) /\ finished' = Tail(finished)
        BY <1>3, <3>2 DEF CycleEnds
      <4>2. finished \in Seq(Kernel)
        BY DEF Inv, TypeOK, DriverTypes
      <4>3. {Head(finished)} \cup Range(Tail(finished)) \subseteq Range(finished)
        BY <3>2, <4>2, TakenFrom
      <4>4. QED BY <4>1, <4>3
    <3>3. QED BY <3>1, <3>2
  <2>4. QED BY <2>1, <2>2, <2>3, RunningStays
<1>4. QED BY <1>1, <1>2, <1>3, IssueRunning
-----------------------------------------------------------------------------
(* The kernels the cores point to *)

\* No core is given another kernel, and the kernels the cores point to stay.
LEMMA BoundStays ==
    ASSUME Inv, UNCHANGED config, \A c \in Core : bound'[c] \in {bound[c], Null},
           \A k : MoreCtas(k)' => MoreCtas(k),
           \A c \in Core : ~config.concurrent /\ MoreCtas(bound[c]) => bound[c] \in Range(window')
    PROVE  BoundOK'
<1>1. BoundOK
  BY DEF Inv
<1>2. ASSUME NEW c \in Core, config.concurrent PROVE bound'[c] = Null
  BY <1>1, <1>2 DEF BoundOK
<1>3. ASSUME NEW c \in Core, ~config.concurrent, NEW k, k = bound'[c], MoreCtas(k)'
      PROVE  k \in Range(window')
  <2>1. MoreCtas(k)
    BY <1>3
  <2>2. k # Null
    BY <2>1 DEF MoreCtas
  <2>3. k = bound[c]
    BY <1>3, <2>2
  <2>4. QED BY <1>3, <2>1, <2>3
<1>4. ASSUME NEW c \in Core
      PROVE  IF config.concurrent THEN bound'[c] = Null
             ELSE (MoreCtas(bound[c]) => bound[c] \in Range(window))'
  <2>1. PICK k : k = bound'[c]
    OBVIOUS
  <2>2. MoreCtas(bound[c])' <=> MoreCtas(k)'
    BY <2>1 DEF MoreCtas
  <2>3. QED BY <1>2, <1>3, <2>1, <2>2
<1>5. QED BY <1>4 DEF BoundOK

LEMMA ParseBound ==
    ASSUME Inv, ParseKernel
    PROVE  BoundOK'
<1>1. PICK old : bound' = [c \in Core |-> IF old # Null /\ bound[c] = old THEN command ELSE bound[c]]
  BY DEF ParseKernel
<1>2. UNCHANGED <<config, nextCta>>
  BY DEF ParseKernel, kernelVars
<1>3. Range(window)' = Range(window) \cup {command}
  BY Parsed
<1>4. ASSUME NEW c \in Core
      PROVE  IF config.concurrent THEN bound'[c] = Null
             ELSE (MoreCtas(bound[c]) => bound[c] \in Range(window))'
  <2>1. \/ bound'[c] = bound[c]
        \/ bound'[c] = command /\ bound[c] # Null
    BY <1>1
  <2>2. IF config.concurrent THEN bound[c] = Null ELSE MoreCtas(bound[c]) => bound[c] \in Range(window)
    BY DEF Inv, BoundOK
  <2>3. CASE bound'[c] = bound[c]
    BY <1>2, <1>3, <2>2, <2>3 DEF MoreCtas
  <2>4. CASE bound'[c] = command /\ bound[c] # Null
    BY <1>3, <2>2, <2>4
  <2>5. QED BY <2>1, <2>3, <2>4
<1>5. QED BY <1>2, <1>4 DEF BoundOK

\* Without concurrent kernels, cleanup takes the kernel that was launched.
LEMMA CleanupBound ==
    ASSUME Inv, Cleanup
    PROVE  BoundOK'
<1>1. UNCHANGED <<config, bound, nextCta>>
  BY DEF Cleanup, kernelVars, coreVars
<1>2. \A k : MoreCtas(k)' => MoreCtas(k)
  BY <1>1 DEF MoreCtas
<1>3. PICK k : k = window[at]
  OBVIOUS
<1>4. CASE ~CleansUp(k)
  <2>1. UNCHANGED window
    BY <1>3, <1>4 DEF Cleanup
  <2>2. \A c \in Core : ~config.concurrent /\ MoreCtas(bound[c]) => bound[c] \in Range(window')
    BY <2>1 DEF Inv, BoundOK
  <2>3. QED BY <1>1, <1>2, <2>2, BoundStays
<1>5. CASE CleansUp(k)
  <2>1. k \in Kernel /\ Range(window)' = Range(window) \ {k} /\ k \notin Runs
    BY <1>3, <1>5, Cleaned
  <2>2. ASSUME ~config.concurrent PROVE ~MoreCtas(k)
    <3>1. WindowSize = 1
      BY <2>2, Alone
    <3>2. Len(window) <= 1 /\ at \in Nat /\ at > 0 /\ at <= Len(window) /\ phase = "cleanup"
          /\ Len(window) \in Nat
      BY <3>1 DEF Inv, WindowOK, TypeOK, CoreTypes, Cleanup
    <3>3. at = 1
      BY <3>2
    <3>4. k \in launched
      BY <1>3, <3>1, <3>2, <3>3 DEF Inv, StreamsOK, FirstLaunched
    <3>5. KernelDone(k)
      BY <2>1, <3>4 DEF Inv, RunningOK
    <3>6. nextCta[k] \in Nat /\ ctasOf[k] \in Nat
      BY <2>1, PerKernel DEF Inv, TypeOK, DriverTypes
    <3>7. QED BY <3>5, <3>6 DEF KernelDone, MoreCtas
  <2>3. \A c \in Core : ~config.concurrent /\ MoreCtas(bound[c]) => bound[c] \in Range(window')
    BY <2>1, <2>2 DEF Inv, BoundOK
  <2>4. QED BY <1>1, <1>2, <2>3, BoundStays
<1>6. QED BY <1>4, <1>5

\* A core that selects a kernel takes one that runs.
LEMMA AllotBound ==
    ASSUME Inv, Allot
    PROVE  BoundOK'
<1>1. PICK c \in Core : c = Here
  BY CoresReached DEF Inv
<1>2. PICK k : k = KernelFor(c)
  OBVIOUS
<1>3. /\ UNCHANGED <<config, window, nextCta>>
      /\ phase = "allot"
      /\ \/ UNCHANGED bound
         \/ /\ Selects(c) /\ k # Null /\ ~config.concurrent
            /\ bound' = [bound EXCEPT ![c] = k]
  BY <1>1, <1>2 DEF Allot, hostVars
<1>4. \A j : MoreCtas(j)' => MoreCtas(j)
  BY <1>3 DEF MoreCtas
<1>5. CASE UNCHANGED bound
  <2>1. \A d \in Core : ~config.concurrent /\ MoreCtas(bound[d]) => bound[d] \in Range(window')
    BY <1>3 DEF Inv, BoundOK
  <2>2. QED BY <1>3, <1>4, <1>5, <2>1, BoundStays
<1>6. CASE Selects(c) /\ k # Null /\ ~config.concurrent /\ bound' = [bound EXCEPT ![c] = k]
  <2>1. k \in Runs
    BY <1>2, <1>3, <1>6, GivenRuns
  <2>2. k \in Range(window)
    BY <2>1 DEF Inv, RunningOK
  <2>3. bound \in [Core -> Kernel \cup {Null}]
    BY DEF Inv, TypeOK, CoreTypes
  <2>4. ASSUME NEW d \in Core PROVE (MoreCtas(bound[d]) => bound[d] \in Range(window))'
    <3>1. CASE d = c
      <4>1. bound'[d] = k
        BY <1>6, <2>3, <3>1
      <4>2. QED BY <1>3, <2>2, <4>1
    <3>2. CASE d # c
      <4>1. bound'[d] = bound[d]
        BY <1>6, <2>3, <3>2
      <4>2. MoreCtas(bound[d]) => bound[d] \in Range(window)
        BY <1>6 DEF Inv, BoundOK
      <4>3. QED BY <1>3, <4>1, <4>2 DEF MoreCtas
    <3>3. QED BY <3>1, <3>2
  <2>5. QED BY <1>3, <1>6, <2>4 DEF BoundOK
<1>7. QED BY <1>3, <1>5, <1>6

LEMMA IssueBound ==
    ASSUME Inv, Issue
    PROVE  BoundOK'
<1>1. UNCHANGED <<config, window, bound>>
  BY IssueStep DEF Issue, hostVars, Inv
<1>2. nextCta \in [Kernel -> Nat]
  BY DEF Inv, TypeOK, DriverTypes
<1>3. \A c \in Core : ~config.concurrent /\ MoreCtas(bound[c]) => bound[c] \in Range(window')
  BY <1>1 DEF Inv, BoundOK
<1>4. CASE UNCHANGED <<kernelVars, coreVars>>
  <2>1. \A k : MoreCtas(k)' => MoreCtas(k)
    BY <1>4 DEF MoreCtas, kernelVars
  <2>2. QED BY <1>1, <1>3, <2>1, BoundStays
<1>5. ASSUME NEW c \in Core, pending[c] # <<>>, IssueBlock(c)
      PROVE  BoundOK'
  <2>1. PICK k \in Kernel : k = Head(pending[c])
    BY <1>5, HeadTail DEF Inv, TypeOK, CoreTypes
  <2>2. nextCta' = [nextCta EXCEPT ![k] = @ + 1]
    BY <1>5, <2>1 DEF IssueBlock
  <2>3. ASSUME NEW j, MoreCtas(j)' PROVE MoreCtas(j)
    <3>1. CASE j = k
      <4>1. nextCta'[k] = nextCta[k] + 1 /\ nextCta[k] \in Nat /\ ctasOf[k] \in Nat
        BY <1>2, <2>2, PerKernel
      <4>2. QED BY <2>3, <3>1, <4>1 DEF MoreCtas
    <3>2. CASE j # k
      <4>1. nextCta'[j] = nextCta[j]
        BY <1>2, <2>2, <3>2
      <4>2. QED BY <2>3, <4>1 DEF MoreCtas
    <3>3. QED BY <3>1, <3>2
  <2>4. QED BY <1>1, <1>3, <2>3, BoundStays
<1>6. \/ UNCHANGED <<kernelVars, coreVars>>
      \/ \E c \in Core : pending[c] # <<>> /\ IssueBlock(c)
  BY IssueStep DEF Inv
<1>7. QED BY <1>4, <1>5, <1>6

LEMMA ExitBound ==
    ASSUME Inv, NEW c \in Core, NEW s \in CtaSlot, CtaExit(c, s)
    PROVE  BoundOK'
<1>1. UNCHANGED <<config, window, nextCta>>
  BY DEF CtaExit, hostVars
<1>2. \A d \in Core : bound'[d] \in {bound[d], Null}
  <2>1. bound' = [bound EXCEPT ![c] = Null] \/ bound' = [bound EXCEPT ![c] = @]
    BY DEF CtaExit
  <2>2. bound \in [Core -> Kernel \cup {Null}]
    BY DEF Inv, TypeOK, CoreTypes
  <2>3. QED BY <2>1, <2>2
<1>3. \A k : MoreCtas(k)' => MoreCtas(k)
  BY <1>1 DEF MoreCtas
<1>4. \A d \in Core : ~config.concurrent /\ MoreCtas(bound[d]) => bound[d] \in Range(window')
  BY <1>1 DEF Inv, BoundOK
<1>5. QED BY <1>1, <1>2, <1>3, <1>4, BoundStays

LEMMA OthersBound ==
    ASSUME Inv, ParseEnds \/ Launch \/ Simulate \/ CleanupEnds \/ CoresDone \/ CycleEnds
    PROVE  BoundOK'
<1>1. UNCHANGED <<config, window, nextCta, bound>>
  BY DEF ParseEnds, Launch, Simulate, CleanupEnds, CoresDone, CycleEnds, hostVars, kernelVars, coreVars
<1>2. \A k : MoreCtas(k)' => MoreCtas(k)
  BY <1>1 DEF MoreCtas
<1>3. \A d \in Core : ~config.concurrent /\ MoreCtas(bound[d]) => bound[d] \in Range(window')
  BY <1>1 DEF Inv, BoundOK
<1>4. QED BY <1>1, <1>2, <1>3, BoundStays
-----------------------------------------------------------------------------
(* The streams *)

\* Steps that leave the window and its streams alone.
LEMMA StreamsStay ==
    ASSUME Inv, UNCHANGED <<config, command, window, busy, launched>>,
           \A k \in Deleted : KernelDone(k) => KernelDone(k)',
           WindowSize <= 2 => FirstLaunched'
    PROVE  StreamsOK'
<1>1. WindowSize' = WindowSize /\ Deleted' = Deleted
  BY DEF WindowSize, Deleted
<1>2. WindowSize <= 2 => StreamsExact
  BY DEF Inv, StreamsOK
<1>3. StreamsExact => StreamsExact'
  BY <1>1 DEF StreamsExact
<1>4. QED BY <1>1, <1>2, <1>3 DEF StreamsOK

LEMMA ParseStreams ==
    ASSUME Inv, ParseKernel \/ ParseEnds
    PROVE  StreamsOK'
<1>1. CASE ParseKernel
  <2>1. UNCHANGED <<config, busy, launched, nextCta, resident, phase>> /\ phase = "parse"
    BY <1>1 DEF ParseKernel, kernelVars
  <2>2. /\ command \notin launched /\ Range(window)' = Range(window) \cup {command}
        /\ Deleted' = Deleted
    BY <1>1, Parsed
  <2>3. launched' \cap Range(window)' = launched \cap Range(window)
    BY <2>1, <2>2
  <2>4. \A k : KernelDone(k)' <=> KernelDone(k)
    BY <2>1 DEF KernelDone
  <2>5. StreamsExact => StreamsExact'
    BY <2>1, <2>2, <2>3, <2>4 DEF StreamsExact
  <2>6. FirstLaunched'
    BY <2>1 DEF FirstLaunched
  <2>7. WindowSize' = WindowSize
    BY <2>1 DEF WindowSize
  <2>8. QED BY <2>5, <2>6, <2>7 DEF Inv, StreamsOK
<1>2. CASE ParseEnds
  <2>1. UNCHANGED <<config, command, window, busy, launched, nextCta, resident>>
        /\ (phase' = "stopped" \/ (phase' = "launch" /\ at' = 1))
    BY <1>2 DEF ParseEnds, Goto, hostVars, kernelVars
  <2>2. FirstLaunched'
    BY <2>1 DEF FirstLaunched
  <2>3. \A k \in Deleted : KernelDone(k) => KernelDone(k)'
    BY <2>1 DEF KernelDone
  <2>4. QED BY <2>1, <2>2, <2>3, StreamsStay
<1>3. QED BY <1>1, <1>2

\* While the GPU runs, the first of the window stays launched.
LEMMA CycleStreams ==
    ASSUME Inv, Simulate \/ CleanupEnds \/ CoresDone \/ Allot \/ CycleEnds
    PROVE  StreamsOK'
<1>1. /\ UNCHANGED <<config, command, window, busy, launched, nextCta, resident>>
      /\ phase' # "parse" => phase \in {"simulate", "cores", "allot", "issue"}
      /\ phase' \in {"parse", "cores", "allot", "issue"} \/ (phase' = "cleanup" /\ at' = 1)
  BY DEF Simulate, CleanupEnds, CoresDone, Allot, CycleEnds, Goto, hostVars, kernelVars
<1>2. WindowSize <= 2 => FirstLaunched'
  BY <1>1 DEF FirstLaunched, Inv, StreamsOK
<1>3. \A k \in Deleted : KernelDone(k) => KernelDone(k)'
  BY <1>1 DEF KernelDone
<1>4. QED BY <1>1, <1>2, <1>3, StreamsStay

\* A kernel in the window is not deleted.
LEMMA RunningNotDeleted ==
    ASSUME Inv, NEW k \in Runs
    PROVE  k \notin Deleted
BY DEF Inv, RunningOK, Deleted

LEMMA IssueStreams ==
    ASSUME Inv, Issue
    PROVE  StreamsOK'
<1>1. /\ UNCHANGED <<config, command, window, busy, launched>>
      /\ phase = "issue" /\ phase' = "allot"
  BY DEF Issue, Goto, hostVars
<1>2. WindowSize <= 2 => FirstLaunched'
  BY <1>1 DEF FirstLaunched, Inv, StreamsOK
<1>3. CASE UNCHANGED <<kernelVars, coreVars>>
  <2>1. \A k \in Deleted : KernelDone(k) => KernelDone(k)'
    BY <1>3 DEF KernelDone, kernelVars
  <2>2. QED BY <1>1, <1>2, <2>1, StreamsStay
<1>4. ASSUME NEW c \in Core, pending[c] # <<>>, IssueBlock(c)
      PROVE  StreamsOK'
  <2>1. PICK k \in Kernel : k = Head(pending[c])
    BY <1>4, HeadTail DEF Inv, TypeOK, CoreTypes
  <2>2. /\ nextCta' = [nextCta EXCEPT ![k] = @ + 1] /\ resident' = [resident EXCEPT ![k] = @ + 1]
    BY <1>4, <2>1 DEF IssueBlock
  <2>3. k \in Runs
    <3>1. pending \in [Core -> Seq(Kernel)]
      BY DEF Inv, TypeOK, CoreTypes
    <3>2. <<c, 1>> \in Waits(pending, k)
      BY <1>4, <2>1, <3>1, FirstWaits
    <3>3. Waiting(k) # {}
      BY <3>2, WaitingWaits
    <3>4. QED BY <3>3, AtWork
  <2>4. \A j \in Deleted : j # k
    BY <2>3, RunningNotDeleted
  <2>5. nextCta \in [Kernel -> Nat] /\ resident \in [Kernel -> Nat]
    BY DEF Inv, TypeOK, DriverTypes
  <2>6. \A j : j # k => nextCta'[j] = nextCta[j] /\ resident'[j] = resident[j]
    BY <2>2, <2>5
  <2>7. \A j \in Deleted : KernelDone(j) => KernelDone(j)'
    BY <2>4, <2>6 DEF KernelDone
  <2>8. QED BY <1>1, <1>2, <2>7, StreamsStay
<1>5. \/ UNCHANGED <<kernelVars, coreVars>>
      \/ \E c \in Core : pending[c] # <<>> /\ IssueBlock(c)
  BY IssueStep DEF Inv
<1>6. QED BY <1>3, <1>4, <1>5

LEMMA ExitStreams ==
    ASSUME Inv, NEW c \in Core, NEW s \in CtaSlot, CtaExit(c, s)
    PROVE  StreamsOK'
<1>1. /\ UNCHANGED <<config, command, window, busy, launched, nextCta, phase>>
      /\ phase = "cores"
  BY DEF CtaExit, hostVars
<1>2. WindowSize <= 2 => FirstLaunched'
  BY <1>1 DEF FirstLaunched, Inv, StreamsOK
<1>3. PICK k \in Kernel : k \in Runs /\ resident' = [resident EXCEPT ![k] = @ - 1]
  BY ExitStep
<1>4. resident \in [Kernel -> Nat]
  BY DEF Inv, TypeOK, DriverTypes
<1>5. \A j \in Deleted : j # k
  BY <1>3, RunningNotDeleted
<1>6. \A j : j # k => resident'[j] = resident[j]
  BY <1>3, <1>4
<1>7. \A j \in Deleted : KernelDone(j) => KernelDone(j)'
  BY <1>1, <1>5, <1>6 DEF KernelDone
<1>8. QED BY <1>1, <1>2, <1>7, StreamsStay

\* What a window of at most two kernels holds.
LEMMA FewInWindow ==
    ASSUME Inv, WindowSize <= 2
    PROVE  /\ \A k \in Range(window) : k = window[1] \/ (k = window[2] /\ Len(window) = 2)
           /\ Len(window) \in {0, 1, 2}
           /\ Len(window) = 2 => window[1] < window[2] /\ config.concurrent /\ MaxConcurrent = 2
           /\ window # <<>> => window[1] \in Range(window)
<1>1. PICK n \in Nat : n = Len(window) /\ DOMAIN window = 1 .. n /\ window \in Seq(Kernel)
  BY DEF Inv, TypeOK, CoreTypes
<1>2. n <= WindowSize /\ \A i, j \in DOMAIN window : i < j => window[i] < window[j]
  BY <1>1 DEF Inv, WindowOK
<1>3. WindowSize \in Nat /\ MaxConcurrent \in Nat
  BY Constants DEF WindowSize
<1>4. n \in {0, 1, 2}
  BY <1>1, <1>2, <1>3
<1>5. ASSUME NEW k \in Range(window) PROVE k = window[1] \/ (k = window[2] /\ n = 2)
  <2>1. PICK i \in 1 .. n : window[i] = k
    BY <1>1 DEF Range
  <2>2. i = 1 \/ (i = 2 /\ n = 2)
    BY <1>4
  <2>3. QED BY <2>1, <2>2
<1>6. ASSUME n = 2 PROVE window[1] < window[2] /\ config.concurrent /\ MaxConcurrent = 2
  <2>1. 1 \in DOMAIN window /\ 2 \in DOMAIN window
    BY <1>1, <1>6
  <2>2. window[1] < window[2]
    BY <1>2, <2>1
  <2>3. WindowSize = 2
    BY <1>2, <1>3, <1>6
  <2>4. config.concurrent /\ MaxConcurrent = 2
    BY <2>3 DEF WindowSize
  <2>5. QED BY <2>2, <2>4
<1>7. window # <<>> => window[1] \in Range(window)
  BY <1>1 DEF Range
<1>8. QED BY <1>1, <1>4, <1>5, <1>6, <1>7

\* The first kernel of the window never waits.
LEMMA FirstMayLaunch ==
    ASSUME Inv, WindowSize <= 2, window # <<>>, NEW k, k = window[1], k \notin launched
    PROVE  MayLaunch(k)
<1>1. StreamsExact /\ RunningOK
  BY DEF Inv, StreamsOK
<1>2. /\ k \in Kernel /\ k \in Nat /\ k \in Range(window)
      /\ \A j \in Range(window) : j = k \/ (j = window[2] /\ Len(window) = 2)
      /\ Len(window) = 2 => k < window[2] /\ config.concurrent /\ MaxConcurrent = 2
  <2>1. 1 \in DOMAIN window
    BY KernelNumbers DEF Inv
  <2>2. QED BY <2>1, KernelNumbers, FewInWindow DEF Inv
<1>3. streamOf[k] \notin Range(busy)
  <2> SUFFICES ASSUME streamOf[k] \in Range(busy) PROVE FALSE
    OBVIOUS
  <2>1. PICK j \in launched \cap Range(window) : streamOf[j] = streamOf[k]
    BY <1>1 DEF StreamsExact
  <2>2. j # k /\ k < j
    BY <1>2, <2>1
  <2>3. k \in Deleted
    BY <1>1, <1>2, <2>1, <2>2 DEF StreamsExact
  <2>4. QED BY <1>2, <2>3 DEF Deleted
<1>4. \A j \in Runs : j = window[2] /\ Len(window) = 2
  BY <1>1, <1>2 DEF RunningOK
<1>5. FreeSlot # {}
  <2> SUFFICES ASSUME FreeSlot = {} PROVE FALSE
    OBVIOUS
  <2>1. \A n \in Slot : running[n] \in Runs
    BY DEF FreeSlot, Runs, Inv, TypeOK, CoreTypes
  <2>2. 0 \in Slot
    BY Constants DEF Slot
  <2>3. running[0] = window[2] /\ Len(window) = 2
    BY <1>4, <2>1, <2>2
  <2>4. 1 \in Slot
    BY <1>2, <2>3 DEF Slot
  <2>5. running[1] = window[2]
    BY <1>4, <2>1, <2>4
  <2>6. running[1] # Null
    BY <2>1, <2>4, PerKernel DEF Runs
  <2>7. \A m, n \in Slot : running[m] = running[n] /\ running[m] # Null => m = n
    BY <1>1 DEF RunningOK
  <2>8. 0 = 1
    BY <2>2, <2>3, <2>4, <2>5, <2>6, <2>7
  <2>9. QED BY <2>8
<1>6. QED BY <1>3, <1>5 DEF MayLaunch

LEMMA LaunchStreams ==
    ASSUME Inv, Launch
    PROVE  StreamsOK'
<1>1. /\ UNCHANGED <<config, command, window, nextCta, resident>>
      /\ phase = "launch" /\ at \in 1 .. Len(window) /\ Len(window) \in Nat
      /\ \/ phase' = "launch" /\ at' = at + 1
         \/ phase' = "simulate"
  BY DEF Launch, Goto, kernelVars, Inv, TypeOK, CoreTypes
<1>2. WindowSize' = WindowSize
  BY <1>1 DEF WindowSize
<1> SUFFICES ASSUME WindowSize <= 2 PROVE StreamsExact' /\ FirstLaunched'
  BY <1>2 DEF StreamsOK
<1>3. StreamsExact /\ FirstLaunched /\ RunningOK /\ WindowOK
  BY DEF Inv, StreamsOK
<1>4. PICK k \in Kernel : k = window[at] /\ k \in Range(window) /\ k \in Nat
  BY <1>1, KernelNumbers DEF Inv, Range
<1>5. /\ MayLaunch(k) => launched' = launched \cup {k} /\ busy' = Append(busy, streamOf[k])
      /\ ~MayLaunch(k) => UNCHANGED <<launched, busy>>
  BY <1>4 DEF Launch
<1>6. window # <<>>
  BY <1>1, <1>3 DEF WindowOK
<1>7. window[1] \in launched'
  <2>1. CASE at = 1
    <3>1. k \notin launched => MayLaunch(k)
      BY <1>4, <1>6, <2>1, FirstMayLaunch
    <3>2. QED BY <1>4, <1>5, <2>1, <3>1
  <2>2. CASE at # 1
    <3>1. at > 1
      BY <1>1, <2>2
    <3>2. QED BY <1>1, <1>3, <1>5, <3>1 DEF FirstLaunched
  <2>3. QED BY <2>1, <2>2
<1>8. FirstLaunched'
  BY <1>1, <1>7 DEF FirstLaunched
<1>9. Deleted' = Deleted /\ \A j : KernelDone(j)' <=> KernelDone(j)
  BY <1>1 DEF Deleted, KernelDone
<1>10. CASE ~MayLaunch(k)
  BY <1>1, <1>3, <1>5, <1>8, <1>9, <1>10 DEF StreamsExact
<1>11. CASE MayLaunch(k)
  <2>1. streamOf[k] \notin Range(busy) /\ k \notin launched
    BY <1>11 DEF MayLaunch
  <2>2. launched' \cap Range(window)' = (launched \cap Range(window)) \cup {k}
    BY <1>1, <1>4, <1>5, <1>11
  <2>3. NoRepeat(busy') /\ Range(busy') = Range(busy) \cup {streamOf[k]}
    <3>1. PICK B : B = {streamOf[j] : j \in Kernel} /\ busy \in Seq(B) /\ streamOf[k] \in B
      <4>1. busy \in Seq({streamOf[j] : j \in Kernel})
        BY DEF Inv, TypeOK, DriverTypes
      <4>2. streamOf[k] \in {streamOf[j] : j \in Kernel}
        OBVIOUS
      <4>3. QED BY <4>1, <4>2
    <3>2. NoRepeat(busy)
      BY <1>3 DEF StreamsExact
    <3>3. NoRepeat(Append(busy, streamOf[k])) /\ Range(Append(busy, streamOf[k])) = Range(busy) \cup {streamOf[k]}
      BY <2>1, <3>1, <3>2, AppendRange
    <3>4. QED BY <1>5, <1>11, <3>3
  <2>4. Range(busy) = {streamOf[j] : j \in launched \cap Range(window)}
    BY <1>3 DEF StreamsExact
  <2>5. Range(busy') = {streamOf[j] : j \in (launched \cap Range(window)) \cup {k}}
    BY <2>3, <2>4
  <2>6. \A i, j \in (launched \cap Range(window)) \cup {k} : streamOf[i] = streamOf[j] => i = j
    <3>1. \A i, j \in launched \cap Range(window) : streamOf[i] = streamOf[j] => i = j
      BY <1>3 DEF StreamsExact
    <3>2. \A j \in launched \cap Range(window) : streamOf[j] # streamOf[k]
      BY <2>1, <2>4
    <3>3. QED BY <3>1, <3>2
  <2>7. ASSUME NEW j \in Kernel, j < k, streamOf[j] = streamOf[k] PROVE j \in Deleted
    <3>1. j \in Nat /\ j > 0 /\ k < command /\ command \in Nat
      BY <1>1, <1>3, <1>4, PerKernel, KernelNumbers DEF WindowOK, Inv, TypeOK, CoreTypes
    <3>2. j \in 1 .. command - 1
      BY <1>4, <2>7, <3>1
    <3>3. ASSUME j \in Range(window) PROVE FALSE
      <4>1. j = window[1]
        <5>1. \/ j = window[1]
              \/ j = window[2] /\ Len(window) = 2 /\ window[1] < window[2]
          BY <3>3, FewInWindow
        <5>2. k = window[1] \/ k = window[2]
          BY <1>4, FewInWindow
        <5>3. window[1] \in Nat
          BY <1>4, <1>6, FewInWindow, PerKernel, KernelNumbers DEF Inv, Range
        <5>4. QED BY <1>4, <2>7, <3>1, <5>1, <5>2, <5>3
      <4>2. j \in launched
        <5>1. j # k
          BY <1>4, <2>7
        <5>2. QED BY <1>5, <1>7, <1>11, <4>1, <5>1
      <4>3. streamOf[j] \in Range(busy)
        BY <2>4, <3>3, <4>2
      <4>4. QED BY <2>1, <2>7, <4>3
    <3>4. QED BY <3>2, <3>3 DEF Deleted
  <2>8. \A i \in launched' : \A j \in Kernel : j < i /\ streamOf[j] = streamOf[i] => j \in Deleted
    BY <1>3, <1>5, <1>11, <2>7 DEF StreamsExact
  <2>9. \A j \in Deleted : j \in launched' /\ KernelDone(j)'
    BY <1>3, <1>5, <1>9, <1>11 DEF StreamsExact
  <2>10. StreamsExact'
    BY <1>9, <2>2, <2>3, <2>5, <2>6, <2>8, <2>9 DEF StreamsExact
  <2>11. QED BY <1>8, <2>10
<1>12. QED BY <1>10, <1>11

\* What cleanup takes from a window of at most two kernels has finished.
LEMMA CleanedDone ==
    ASSUME Inv, WindowSize <= 2, Cleanup, NEW k, k = window[at], CleansUp(k)
    PROVE  k \in launched /\ KernelDone(k)
<1>1. k \in Kernel /\ k \notin Runs /\ at \in Nat /\ at > 0 /\ at <= Len(window) /\ phase = "cleanup"
  BY Cleaned DEF Cleanup, Inv, TypeOK, CoreTypes
<1>2. FirstLaunched /\ RunningOK
  BY DEF Inv, StreamsOK
<1>3. k \in launched
  <2>1. CASE at = 1
    BY <1>1, <1>2, <2>1 DEF FirstLaunched
  <2>2. CASE at # 1
    <3>1. Active
      BY <1>1, <1>2, <2>2 DEF FirstLaunched
    <3>2. k = uid /\ k # Null
      BY <1>1, <3>1, PerKernel DEF CleansUp
    <3>3. QED BY <1>2, <3>2 DEF RunningOK
  <2>3. QED BY <2>1, <2>2
<1>4. QED BY <1>1, <1>2, <1>3 DEF RunningOK

LEMMA CleanupStreams ==
    ASSUME Inv, Cleanup
    PROVE  StreamsOK'
<1>1. /\ UNCHANGED <<config, command, launched, nextCta, resident, ctas, traffic, running>>
      /\ phase = "cleanup" /\ at \in Nat /\ at > 0 /\ at <= Len(window) /\ Len(window) \in Nat
  BY DEF Cleanup, gpuVars, kernelVars, coreVars, Inv, TypeOK, CoreTypes
<1>2. WindowSize' = WindowSize /\ (Active' <=> Active) /\ \A j : KernelDone(j)' <=> KernelDone(j)
  BY <1>1 DEF WindowSize, Active, Live, MoreCtas, KernelDone
<1>3. PICK k : k = window[at]
  OBVIOUS
<1> SUFFICES ASSUME WindowSize <= 2 PROVE StreamsExact' /\ FirstLaunched'
  BY <1>2 DEF StreamsOK
<1>4. StreamsExact /\ RunningOK
  BY DEF Inv, StreamsOK
<1>5. CASE ~CleansUp(k)
  <2>1. UNCHANGED <<window, busy>> /\ phase' = "cleanup" /\ at' = at + 1
    BY <1>3, <1>5 DEF Cleanup, Goto
  <2>2. Active
    BY <1>5 DEF CleansUp
  <2>3. Deleted' = Deleted
    BY <1>1, <2>1 DEF Deleted
  <2>4. StreamsExact'
    BY <1>1, <1>2, <1>4, <2>1, <2>3 DEF StreamsExact
  <2>5. at' # 1
    BY <1>1, <2>1
  <2>6. FirstLaunched'
    BY <1>2, <2>1, <2>2, <2>5 DEF FirstLaunched
  <2>7. QED BY <2>4, <2>6
<1>6. CASE CleansUp(k)
  <2>1. /\ k \in Kernel /\ Range(window)' = Range(window) \ {k} /\ Deleted' = Deleted \cup {k}
        /\ k \in Range(window) /\ Len(window') = Len(window) - 1
    BY <1>3, <1>6, Cleaned
  <2>2. k \in launched /\ KernelDone(k)
    BY <1>3, <1>6, CleanedDone
  <2>3. /\ busy' = RemoveFirst(busy, streamOf[k])
        /\ phase' = "cleanup" => at' = at + 1
        /\ phase' \in {"report", "cleanup"}
    BY <1>3, <1>6 DEF Cleanup, Goto
  <2>4. NoRepeat(busy') /\ Range(busy') = Range(busy) \ {streamOf[k]}
    <3>1. PICK B : busy \in Seq(B)
      <4>1. busy \in Seq({streamOf[j] : j \in Kernel})
        BY DEF Inv, TypeOK, DriverTypes
      <4>2. QED BY <4>1
    <3>2. NoRepeat(busy)
      BY <1>4 DEF StreamsExact
    <3>3. QED BY <2>3, <3>1, <3>2, RemovedFirst
  <2>5. launched' \cap Range(window)' = (launched \cap Range(window)) \ {k}
    BY <1>1, <2>1
  <2>6. \A i, j \in launched \cap Range(window) : streamOf[i] = streamOf[j] => i = j
    BY <1>4 DEF StreamsExact
  <2>7. Range(busy') = {streamOf[j] : j \in (launched \cap Range(window)) \ {k}}
    <3>1. Range(busy) = {streamOf[j] : j \in launched \cap Range(window)}
      BY <1>4 DEF StreamsExact
    <3>2. QED BY <2>1, <2>2, <2>4, <2>6, <3>1
  <2>8. \A j \in Deleted' : j \in launched' /\ KernelDone(j)'
    BY <1>1, <1>2, <1>4, <2>1, <2>2 DEF StreamsExact
  <2>9. \A i \in launched' : \A j \in Kernel : j < i /\ streamOf[j] = streamOf[i] => j \in Deleted'
    BY <1>1, <1>4, <2>1 DEF StreamsExact
  <2>10. StreamsExact'
    BY <2>4, <2>5, <2>6, <2>7, <2>8, <2>9 DEF StreamsExact
  <2>11. Len(window) <= 2
    <3>1. Len(window) <= WindowSize
      BY DEF Inv, WindowOK
    <3>2. WindowSize \in Nat
      BY Constants DEF WindowSize
    <3>3. QED BY <1>1, <3>1, <3>2
  <2>12. FirstLaunched'
    <3>1. at' = at + 1 => at' # 1 /\ ~(at' <= Len(window'))
      BY <1>1, <2>1, <2>11
    <3>2. QED BY <2>3, <3>1 DEF FirstLaunched
  <2>13. QED BY <2>10, <2>12
<1>7. QED BY <1>5, <1>6
-----------------------------------------------------------------------------
(* The invariant holds *)

LEMMA InitInv == Init => Inv
<1> SUFFICES ASSUME Init PROVE Inv
  OBVIOUS
<1>1. 0 \in Slot
  BY Constants DEF Slot
<1>2. CoreTypes
  BY <1>1 DEF Init, CoreTypes
<1>3. PICK p \in Nat : p = config.perCluster /\ 0 < p /\ p <= NCore /\ NCore % p = 0
  BY <1>2, Options DEF CoreTypes
<1>4. NCluster \in Nat /\ NCluster > 0
  <2>1. NCore \in Nat
    BY Constants
  <2>2. NCore \div p \in Nat /\ NCore \div p > 0
    BY <1>3, <2>1, Clusters
  <2>3. QED BY <1>3, <2>2 DEF NCluster
<1>5. p - 1 \in Nat /\ NCluster - 1 \in Nat
  BY <1>3, <1>4
<1>6. DriverTypes
  <2>1. latency \in [Kernel -> Nat]
    BY KernelsAssumption DEF Init
  <2>2. nextCore \in [0 .. NCluster - 1 -> Nat] /\ lastCluster \in Nat /\ from \in Nat
    BY <1>3, <1>5 DEF Init
  <2>3. busy \in Seq({streamOf[k] : k \in Kernel}) /\ finished \in Seq(Kernel)
    BY DEF Init
  <2>4. /\ allocated \in [Kernel -> Nat] /\ nextCta \in [Kernel -> Nat] /\ resident \in [Kernel -> Nat]
        /\ launched \subseteq Kernel /\ executed \subseteq Kernel /\ uid = Null /\ phase = "parse"
    BY DEF Init
  <2>5. QED BY <2>1, <2>2, <2>3, <2>4 DEF DriverTypes
<1>7. Range(window) = {} /\ Range(busy) = {} /\ Range(finished) = {} /\ NoRepeat(busy)
  BY DEF Init, Range, NoRepeat
<1>8. WindowOK
  <2>1. WindowSize \in Nat
    BY Constants DEF WindowSize
  <2>2. Len(window) = 0 /\ DOMAIN window = {} /\ command = 1 /\ launched = {} /\ phase = "parse"
    BY DEF Init
  <2>3. command <= NKernel + 1
    BY <2>2, Constants
  <2>4. QED BY <2>1, <2>2, <2>3 DEF WindowOK
<1>9. CountsOK
  <2>1. \A c \in Core : pending[c] = <<>> /\ Len(pending[c]) = 0
    BY DEF Init
  <2>2. ASSUME NEW k \in Kernel PROVE Waiting(k) = {} /\ Holding(k) = {}
    <3>1. Waiting(k) = {}
      BY <2>1 DEF Waiting
    <3>2. k # Null /\ \A c \in Core, s \in CtaSlot : ctas[c][s] = Null
      BY PerKernel DEF Init
    <3>3. QED BY <3>1, <3>2 DEF Holding
  <2>3. ASSUME NEW k \in Kernel
        PROVE  /\ allocated[k] = nextCta[k] + Cardinality(Waiting(k)) /\ allocated[k] <= ctasOf[k]
               /\ resident[k] = Cardinality(Holding(k))
    <3>1. allocated[k] = 0 /\ nextCta[k] = 0 /\ resident[k] = 0
      BY DEF Init
    <3>2. Cardinality(Waiting(k)) = 0 /\ Cardinality(Holding(k)) = 0
      BY <2>2, FS_EmptySet
    <3>3. QED BY <3>1, <3>2, PerKernel
  <2>4. QED BY <2>1, <2>3, Constants DEF CountsOK
<1>10. RunningOK
  <2>1. Runs = {}
    BY PerKernel DEF Runs, Init
  <2>2. QED BY <1>7, <2>1 DEF RunningOK, Init
<1>11. StreamsOK
  <2>1. Deleted = {}
    BY DEF Deleted, Init
  <2>2. StreamsExact
    BY <1>7, <2>1 DEF StreamsExact, Init
  <2>3. QED BY <2>2 DEF StreamsOK, FirstLaunched, Init
<1>12. BoundOK
  BY DEF BoundOK, Init, MoreCtas
<1>13. QED BY <1>2, <1>6, <1>8, <1>9, <1>10, <1>11, <1>12 DEF Inv, TypeOK

\* Nothing happens to a state that stays as it is.
LEMMA Stutters ==
    ASSUME Inv, UNCHANGED vars
    PROVE  Inv'
<1>1. /\ TypeOK'
  BY DEF Inv, TypeOK, CoreTypes, DriverTypes, NCluster, vars, hostVars, gpuVars, kernelVars, clusterVars,
         coreVars
<1>2. /\ UNCHANGED <<config, command, window, launched, phase, at, busy, nextCta, resident, ctas, traffic,
                    running, uid, finished, allocated, pending, bound>>
  BY DEF vars, hostVars, gpuVars, kernelVars, coreVars
<1>3. WindowOK'
  BY <1>2 DEF Inv, WindowOK, WindowSize
<1>4. CountsOK'
  BY <1>2, CountsStay
<1>5. RunningOK'
  <2>1. \A k \in Runs : k \in Range(window')
    BY <1>2 DEF Inv, RunningOK
  <2>2. QED BY <1>2, <2>1, RunningStays
<1>6. Active' <=> Active
  BY <1>2 DEF Active, Live, MoreCtas
<1>7. StreamsOK'
  <2>1. FirstLaunched => FirstLaunched'
    BY <1>2, <1>6 DEF FirstLaunched
  <2>2. \A k \in Deleted : KernelDone(k) => KernelDone(k)'
    BY <1>2 DEF KernelDone
  <2>3. WindowSize <= 2 => FirstLaunched'
    BY <2>1 DEF Inv, StreamsOK
  <2>4. QED BY <1>2, <2>2, <2>3, StreamsStay
<1>8. BoundOK'
  <2>1. \A k : MoreCtas(k)' => MoreCtas(k)
    BY <1>2 DEF MoreCtas
  <2>2. \A d \in Core : ~config.concurrent /\ MoreCtas(bound[d]) => bound[d] \in Range(window')
    BY <1>2 DEF Inv, BoundOK
  <2>3. QED BY <1>2, <2>1, <2>2, BoundStays
<1>9. QED BY <1>1, <1>3, <1>4, <1>5, <1>7, <1>8 DEF Inv

LEMMA NextInv ==
    ASSUME Inv, [Next]_vars
    PROVE  Inv'
<1>0. CoreTypes
  BY DEF Inv, TypeOK
<1>1. CASE ParseKernel \/ ParseEnds \/ Launch \/ Simulate \/ Cleanup \/ CleanupEnds
  <2>1. CoreTypes' /\ DriverTypes'
    BY <1>0, <1>1, HostTypes, HostDriver
  <2>2. WindowOK' /\ RunningOK'
    BY <1>1, HostWindow, HostRunning
  <2>3. CountsOK'
    <3>1. UNCHANGED <<allocated, nextCta, resident, pending, ctas>>
      BY <1>1 DEF ParseKernel, ParseEnds, Launch, Simulate, Cleanup, CleanupEnds, kernelVars, coreVars
    <3>2. QED BY <3>1, CountsStay
  <2>4. StreamsOK'
    BY <1>1, ParseStreams, LaunchStreams, CycleStreams, CleanupStreams
  <2>5. BoundOK'
    BY <1>1, ParseBound, CleanupBound, OthersBound
  <2>6. QED BY <2>1, <2>2, <2>3, <2>4, <2>5 DEF Inv, TypeOK
<1>2. CASE CoresDone \/ Allot \/ CycleEnds
  <2>1. CoreTypes' /\ DriverTypes'
    BY <1>0, <1>2, CycleTypes, CycleDriver
  <2>2. WindowOK' /\ RunningOK'
    BY <1>2, CycleWindow, CycleRunning
  <2>3. CountsOK'
    <3>1. CASE CoresDone \/ CycleEnds
      <4>1. UNCHANGED <<allocated, nextCta, resident, pending, ctas>>
        BY <3>1 DEF CoresDone, CycleEnds, kernelVars, coreVars
      <4>2. QED BY <4>1, CountsStay
    <3>2. CASE Allot
      BY <3>2, AllotCounts
    <3>3. QED BY <1>2, <3>1, <3>2
  <2>4. StreamsOK'
    BY <1>2, CycleStreams
  <2>5. BoundOK'
    BY <1>2, AllotBound, OthersBound
  <2>6. QED BY <2>1, <2>2, <2>3, <2>4, <2>5 DEF Inv, TypeOK
<1>3. CASE Issue
  <2>1. CoreTypes' /\ DriverTypes'
    BY <1>0, <1>3, IssueTypes, CycleDriver DEF Inv, TypeOK
  <2>2. WindowOK' /\ RunningOK'
    BY <1>3, CycleWindow, IssueRunning
  <2>3. CountsOK' /\ StreamsOK' /\ BoundOK'
    BY <1>3, IssueCounts, IssueStreams, IssueBound
  <2>4. QED BY <2>1, <2>2, <2>3 DEF Inv, TypeOK
<1>4. ASSUME NEW c \in Core, NEW s \in CtaSlot, CtaExit(c, s) PROVE Inv'
  <2>1. CoreTypes' /\ DriverTypes'
    BY <1>0, <1>4, ExitTypes, ExitDriver
  <2>2. WindowOK' /\ RunningOK'
    BY <1>4, CycleWindow, ExitRunning
  <2>3. CountsOK' /\ StreamsOK' /\ BoundOK'
    BY <1>4, ExitCounts, ExitStreams, ExitBound
  <2>4. QED BY <2>1, <2>2, <2>3 DEF Inv, TypeOK
<1>5. CASE UNCHANGED vars
  BY <1>5, Stutters
<1>6. QED BY <1>1, <1>2, <1>3, <1>4, <1>5 DEF Next, Step, Stopped

\* The driver and the cores keep their invariant, for any list of kernels.
THEOREM Invariance == Spec => []Inv
<1>1. Inv /\ [Next]_vars => Inv'
  BY NextInv
<1>2. QED BY <1>1, InitInv, PTL DEF Spec

\* Every variable keeps its type, whatever the options.
THEOREM TypeCorrect == Spec => []TypeOK
<1>1. Inv => TypeOK
  BY DEF Inv
<1>2. QED BY <1>1, Invariance, PTL

\* No CTA is handed out twice or lost, the counters of a kernel are exact, and
\* only kernels that run hold or await CTAs.
THEOREM CtasCorrect == Spec => []CtasExact
<1>1. ASSUME Inv PROVE CtasExact
  <2>1. CountsOK /\ RunningOK
    BY <1>1 DEF Inv
  <2>2. \A k \in Kernel : Waiting(k) \cup Holding(k) # {} => k \in Runs
    BY <1>1, AtWork
  <2>3. \A k \in Runs : k \in launched \cap Range(running) /\ k \in Range(window)
    <3>1. DOMAIN running = Slot
      BY <1>1 DEF Inv, TypeOK, CoreTypes
    <3>2. \A k \in Runs : k \in Range(running)
      BY <3>1 DEF Runs, Range
    <3>3. QED BY <2>1, <3>2 DEF RunningOK
  <2>4. ASSUME NEW n \in Slot, running[n] # Null PROVE running[n] \in Range(window)
    <3>1. running[n] \in Runs
      BY <1>1, <2>4 DEF Runs, Inv, TypeOK, CoreTypes
    <3>2. QED BY <2>3, <3>1
  <2>5. QED BY <2>1, <2>2, <2>3, <2>4 DEF CountsOK, CtasExact
<1>2. QED BY <1>1, Invariance, PTL
-----------------------------------------------------------------------------
(* The assertions *)

\* A kernel that select_kernel has taken since the statistics were printed is
\* the one it took last, or has no CTAs left.
SelectOK ==
    \A k \in executed : MoreCtas(k) => k = running[last] /\ latency[k] = 0

\* What select_kernel returns, when it returns a kernel, is ready.
LEMMA SelectedReady ==
    ASSUME TypeOK, NEW n, n = SelectSlot, n # NoSlot
    PROVE  /\ n \in Slot /\ Ready(n)
           /\ Ready(last) => n = last
<1> DEFINE after(m) == (m + last + 1) % MaxConcurrent
           ready == {m \in Slot : Ready(after(m))}
<1>1. \A m \in Nat : after(m) \in Slot
  BY Constants DEF TypeOK, CoreTypes, Slot
<1>2. ready \in SUBSET Nat /\ \A m \in ready : Ready(after(m))
  BY Constants DEF Slot
<1>3. n = IF Ready(last) THEN last ELSE IF ready # {} THEN after(Min(ready)) ELSE NoSlot
  BY DEF SelectSlot
<1> HIDE DEF after, ready
<1>4. CASE Ready(last)
  BY <1>3, <1>4 DEF TypeOK, CoreTypes
<1>5. CASE ~Ready(last)
  <2>1. ready # {} /\ n = after(Min(ready))
    BY <1>3, <1>5
  <2>2. Min(ready) \in ready
    BY <1>2, <2>1, MinOfNats
  <2>3. Min(ready) \in Nat
    BY <1>2, <2>2
  <2>4. n \in Slot /\ Ready(n)
    BY <1>1, <1>2, <2>1, <2>2, <2>3
  <2>5. QED BY <1>5, <2>4
<1>6. QED BY <1>4, <1>5

\* Steps that do not select.
LEMMA SelectStays ==
    ASSUME Inv, SelectOK, executed' \subseteq executed, UNCHANGED last,
           \A k \in Kernel : MoreCtas(k)' => MoreCtas(k),
           \A k \in Kernel : MoreCtas(k) /\ k = running[last] => k = running'[last],
           \A k \in Kernel : latency[k] = 0 => latency'[k] = 0
    PROVE  SelectOK'
<1>1. executed \subseteq Kernel
  BY DEF Inv, TypeOK, DriverTypes
<1>2. ASSUME NEW k \in executed', MoreCtas(k)' PROVE k = running'[last'] /\ latency'[k] = 0
  <2>1. k \in Kernel /\ k \in executed /\ MoreCtas(k)
    BY <1>1, <1>2
  <2>2. k = running[last] /\ latency[k] = 0
    BY <2>1 DEF SelectOK
  <2>3. QED BY <2>1, <2>2
<1>3. QED BY <1>2 DEF SelectOK

LEMMA LaunchSelect ==
    ASSUME Inv, SelectOK, Launch
    PROVE  SelectOK'
<1>1. UNCHANGED <<last, executed, latency, nextCta>>
  BY DEF Launch, kernelVars
<1>2. \A k \in Kernel : MoreCtas(k)' => MoreCtas(k)
  BY <1>1 DEF MoreCtas
<1>3. /\ running \in [Slot -> Kernel \cup {Null}] /\ last \in Slot
  BY DEF Inv, TypeOK, CoreTypes
<1>4. ASSUME NEW k \in Kernel, MoreCtas(k), k = running[last] PROVE k = running'[last]
  <2>1. PICK n : \/ running' = running
                 \/ FreeSlot # {} /\ n = Min(FreeSlot) /\ running' = [running EXCEPT ![n] = window[at]]
    BY DEF Launch, MayLaunch
  <2>2. CASE running' = running
    BY <1>4, <2>2
  <2>3. CASE FreeSlot # {} /\ n = Min(FreeSlot) /\ running' = [running EXCEPT ![n] = window[at]]
    <3>1. FreeSlot \in SUBSET Nat
      BY Constants DEF FreeSlot, Slot
    <3>2. n \in FreeSlot
      BY <2>3, <3>1, MinOfNats
    <3>3. running[n] = Null \/ KernelDone(running[n])
      BY <3>2 DEF FreeSlot
    <3>4. nextCta[k] \in Nat /\ ctasOf[k] \in Nat /\ k # Null
      BY PerKernel DEF Inv, TypeOK, DriverTypes
    <3>5. n # last
      BY <1>4, <3>3, <3>4 DEF MoreCtas, KernelDone
    <3>6. QED BY <1>3, <1>4, <2>3, <3>5
  <2>4. QED BY <2>1, <2>2, <2>3
<1>5. QED BY <1>1, <1>2, <1>4, SelectStays

LEMMA AllotSelect ==
    ASSUME Inv, SelectOK, Allot
    PROVE  SelectOK'
<1>1. UNCHANGED <<running, latency, nextCta>>
  BY DEF Allot
<1>2. \A k : MoreCtas(k)' <=> MoreCtas(k)
  BY <1>1 DEF MoreCtas
<1>3. PICK c \in Core : c = Here
  BY CoresReached DEF Inv
<1>4. PICK k : k = KernelFor(c)
  OBVIOUS
<1>5. \/ UNCHANGED <<last, executed>>
      \/ /\ Selects(c) /\ k # Null
         /\ last' = SelectSlot /\ executed' = executed \cup {k}
  BY <1>3, <1>4 DEF Allot
<1>6. CASE UNCHANGED <<last, executed>>
  BY <1>1, <1>2, <1>6, SelectStays
<1>7. CASE Selects(c) /\ k # Null /\ last' = SelectSlot /\ executed' = executed \cup {k}
  <2>1. PICK n : n = SelectSlot /\ n # NoSlot /\ k = running[n]
    BY <1>4, <1>7 DEF KernelFor
  <2>2. Ready(n) /\ (Ready(last) => n = last)
    BY <2>1, SelectedReady DEF Inv
  <2>3. k = running'[last'] /\ latency'[k] = 0
    BY <1>1, <1>7, <2>1, <2>2 DEF Ready
  <2>4. ASSUME NEW j \in executed, MoreCtas(j) PROVE j = running'[last'] /\ latency'[j] = 0
    <3>1. j = running[last] /\ latency[j] = 0
      BY <2>4 DEF SelectOK
    <3>2. Ready(last)
      BY <2>4, <3>1 DEF Ready
    <3>3. QED BY <1>1, <1>7, <2>1, <2>2, <3>1, <3>2
  <2>5. QED BY <1>2, <1>7, <2>3, <2>4 DEF SelectOK
<1>8. QED BY <1>5, <1>6, <1>7

\* Other steps issue CTAs, end kernels without any left, or count latencies down.
LEMMA OthersSelect ==
    ASSUME Inv, SelectOK,
           \/ ParseKernel \/ ParseEnds \/ Simulate \/ Cleanup \/ CleanupEnds \/ CoresDone \/ Issue
           \/ CycleEnds \/ UNCHANGED vars
           \/ \E c \in Core, s \in CtaSlot : CtaExit(c, s)
    PROVE  SelectOK'
<1>0. nextCta \in [Kernel -> Nat] /\ latency \in [Kernel -> Nat]
  BY DEF Inv, TypeOK, DriverTypes
<1>1. CASE ParseKernel \/ ParseEnds \/ Simulate \/ Cleanup \/ CleanupEnds \/ CoresDone \/ UNCHANGED vars
  <2>1. UNCHANGED <<last, running, latency, nextCta>> /\ executed' \subseteq executed
    BY <1>1 DEF ParseKernel, ParseEnds, Simulate, Cleanup, CleanupEnds, CoresDone, vars, gpuVars,
                kernelVars
  <2>2. \A k \in Kernel : MoreCtas(k)' => MoreCtas(k)
    BY <2>1 DEF MoreCtas
  <2>3. QED BY <2>1, <2>2, SelectStays
<1>2. CASE CycleEnds
  <2>1. UNCHANGED <<last, running, nextCta, executed>>
    BY <1>2 DEF CycleEnds, kernelVars
  <2>2. \A k \in Kernel : latency[k] = 0 => latency'[k] = 0
    BY <1>0, <1>2 DEF CycleEnds
  <2>3. \A k \in Kernel : MoreCtas(k)' => MoreCtas(k)
    BY <2>1 DEF MoreCtas
  <2>4. QED BY <2>1, <2>2, <2>3, SelectStays
<1>3. CASE Issue
  <2>1. UNCHANGED <<last, running, latency, executed>>
    BY <1>3 DEF Issue, gpuVars
  <2>2. \A k \in Kernel : MoreCtas(k)' => MoreCtas(k)
    <3>1. CASE UNCHANGED <<kernelVars, coreVars>>
      BY <3>1 DEF MoreCtas, kernelVars
    <3>2. ASSUME NEW c \in Core, pending[c] # <<>>, IssueBlock(c), NEW j \in Kernel, MoreCtas(j)'
          PROVE  MoreCtas(j)
      <4>1. PICK k : nextCta' = [nextCta EXCEPT ![k] = @ + 1]
        BY <3>2 DEF IssueBlock
      <4>2. nextCta[j] \in Nat /\ ctasOf[j] \in Nat
        BY <1>0, PerKernel
      <4>3. nextCta'[j] = nextCta[j] \/ nextCta'[j] = nextCta[j] + 1
        BY <1>0, <4>1
      <4>4. QED BY <3>2, <4>2, <4>3 DEF MoreCtas
    <3>3. \/ UNCHANGED <<kernelVars, coreVars>>
          \/ \E c \in Core : pending[c] # <<>> /\ IssueBlock(c)
      BY <1>3, IssueStep DEF Inv
    <3>4. QED BY <3>1, <3>2, <3>3
  <2>3. QED BY <2>1, <2>2, SelectStays
<1>4. ASSUME NEW c \in Core, NEW s \in CtaSlot, CtaExit(c, s) PROVE SelectOK'
  <2>1. UNCHANGED <<last, executed, latency, nextCta>>
    BY <1>4 DEF CtaExit
  <2>2. PICK k : k = ctas[c][s]
    OBVIOUS
  <2>7. /\ k \in Kernel /\ k \in Runs /\ <<c, s>> \in Holding(k)
        /\ resident[k] \in Nat /\ resident[k] > 0 /\ resident' = [resident EXCEPT ![k] = @ - 1]
        /\ ctas' = [ctas EXCEPT ![c][s] = Null]
        /\ \/ /\ ~MoreCtas(k) /\ resident[k] = 1 /\ finished' = Append(finished, k)
              /\ running' = [n \in Slot |-> IF running[n] = k THEN Null ELSE running[n]]
           \/ /\ MoreCtas(k) \/ resident[k] > 1
              /\ UNCHANGED <<finished, running>>
    BY <1>4, <2>2, ExitStep
  <2>3. last \in Slot
    BY DEF Inv, TypeOK, CoreTypes
  <2>4. \A j \in Kernel : MoreCtas(j) /\ j = running[last] => j = running'[last]
    BY <2>3, <2>7
  <2>5. \A j \in Kernel : MoreCtas(j)' => MoreCtas(j)
    BY <2>1 DEF MoreCtas
  <2>6. QED BY <2>1, <2>4, <2>5, SelectStays
<1>5. QED BY <1>1, <1>2, <1>3, <1>4

\* The assertions of select_kernel, of the choice of a context, of a core that
\* becomes empty and of cleanup never fail.
THEOREM AssertionsCorrect == Spec => []AssertionsHold
<1>1. Init => SelectOK
  BY DEF Init, SelectOK
<1>2. Inv /\ SelectOK /\ [Next]_vars => SelectOK'
  BY LaunchSelect, AllotSelect, OthersSelect DEF Next, Step, Stopped
<1>3. ASSUME Inv, SelectOK PROVE AssertionsHold
  <2>1. ASSUME SelectSlot \notin {last, NoSlot} PROVE running[SelectSlot] \notin executed
    <3>1. PICK n : n = SelectSlot /\ n # NoSlot /\ n # last
      BY <2>1
    <3>2. Ready(n) /\ ~Ready(last)
      BY <1>3, <3>1, SelectedReady DEF Inv
    <3>3. ASSUME running[n] \in executed PROVE FALSE
      <4>1. running[n] = running[last] /\ latency[running[n]] = 0
        BY <1>3, <3>2, <3>3 DEF SelectOK, Ready
      <4>2. QED BY <3>2, <4>1 DEF Ready
    <3>4. QED BY <3>1, <3>3
  <2>2. ASSUME NEW c \in Core, pending[c] # <<>>, CanIssue(c, Head(pending[c]))
        PROVE  FreeCta(c, Head(pending[c])) # {}
    <3>1. PICK k \in Kernel : k = Head(pending[c])
      BY <1>3, <2>2, HeadTail DEF Inv, TypeOK, CoreTypes
    <3>2. FreeCta(c, k) # {}
      BY <2>2, <3>1, FreeContext
    <3>3. QED BY <3>1, <3>2
  <2>3. ASSUME NEW c \in Core, NEW s \in CtaSlot, phase = "cores", Live(c) = {s},
               bound[c] # ctas[c][s], MoreCtas(bound[c])
        PROVE  FALSE
    <3>1. ~config.concurrent
      BY <1>3, <2>3 DEF Inv, BoundOK, MoreCtas
    <3>2. bound[c] \in Runs
      BY <1>3, <2>3, <3>1, BoundRuns
    <3>3. PICK k \in Kernel : k = ctas[c][s]
      BY <1>3, <2>3 DEF Live, Inv, TypeOK, CoreTypes
    <3>4. Holding(k) # {}
      <4>1. <<c, s>> \in Holding(k)
        BY <3>3 DEF Holding
      <4>2. QED BY <4>1
    <3>5. k \in Runs
      BY <1>3, <3>4, AtWork
    <3>6. QED BY <1>3, <2>3, <3>1, <3>2, <3>3, <3>5, Alone
  <2>4. phase = "cleanup" /\ at = 1 => window # <<>>
    BY <1>3 DEF Inv, WindowOK
  <2>5. QED BY <2>1, <2>2, <2>3, <2>4 DEF AssertionsHold
<1>4. QED BY <1>1, <1>2, <1>3, Invariance, PTL DEF Spec
-----------------------------------------------------------------------------
(* Threads *)

\* A core that runs one kernel at a time numbers the contexts of its kernel
\* from 0, and gives each the threads of its number.
AlignedAt(c) ==
    \A s \in Live(c) : s < maxCta[ctas[c][s]] /\ start[c][s] = s * threadsOf[ctas[c][s]]
Aligned == ~config.concurrent => \A c \in Core : AlignedAt(c)

\* The sizes of the CTAs that cores book threads for divide a core evenly.
SizesFit == (\E g \in Configs : g.concurrent) => Divides

\* What does not touch a core leaves its contexts as they are.
LEMMA AlignedStays ==
    ASSUME NEW c, ctas'[c] = ctas[c], start'[c] = start[c], AlignedAt(c)
    PROVE  AlignedAt(c)'
<1>1. Live(c)' = Live(c)
  BY DEF Live
<1>2. QED BY <1>1 DEF AlignedAt

\* issue_block2core takes the first free context.
LEMMA IssueAligned ==
    ASSUME Inv, Aligned, Issue
    PROVE  Aligned'
<1> SUFFICES ASSUME ~config.concurrent, NEW d \in Core PROVE AlignedAt(d)'
  BY DEF Aligned, Issue
<1>1. AlignedAt(d)
  BY DEF Aligned
<1>2. CASE UNCHANGED <<kernelVars, coreVars>>
  BY <1>1, <1>2, AlignedStays DEF coreVars
<1>3. ASSUME NEW c \in Core, pending[c] # <<>>, CanIssue(c, Head(pending[c])), IssueBlock(c)
      PROVE  AlignedAt(d)'
  <2>1. PICK k \in Kernel : k = Head(pending[c])
    BY <1>3, HeadTail DEF Inv, TypeOK, CoreTypes
  <2>2. PICK s \in CtaSlot \ Live(c) : s = Min(FreeCta(c, k)) /\ s \in FreeCta(c, k)
    BY <1>3, <2>1, FreeContext
  <2>3. s < maxCta[k] /\ k # Null
    BY <2>2, PerKernel DEF FreeCta
  <2>4. /\ ctas' = [ctas EXCEPT ![c][s] = k]
        /\ start' = [start EXCEPT ![c][s] = s * threadsOf[k]]
    BY <1>3, <2>1, <2>2 DEF IssueBlock
  <2>5. /\ ctas \in [Core -> [CtaSlot -> Kernel \cup {Null}]]
        /\ start \in [Core -> [CtaSlot -> Nat]]
    BY DEF Inv, TypeOK, CoreTypes
  <2>6. CASE d # c
    <3>1. ctas'[d] = ctas[d] /\ start'[d] = start[d]
      BY <2>4, <2>5, <2>6
    <3>2. QED BY <1>1, <3>1, AlignedStays
  <2>7. CASE d = c
    <3>1. ctas'[c][s] = k /\ start'[c][s] = s * threadsOf[k]
      BY <2>4, <2>5
    <3>2. \A u \in CtaSlot \ {s} : ctas'[c][u] = ctas[c][u] /\ start'[c][u] = start[c][u]
      BY <2>4, <2>5
    <3>3. Live(c)' = Live(c) \cup {s}
      BY <2>3, <3>1, <3>2 DEF Live
    <3>4. \A u \in Live(c) : u \in CtaSlot \ {s}
      BY <2>2 DEF Live
    <3>5. QED BY <1>1, <2>3, <2>7, <3>1, <3>2, <3>3, <3>4 DEF AlignedAt
  <2>8. QED BY <2>6, <2>7
<1>4. \/ UNCHANGED <<kernelVars, coreVars>>
      \/ \E c \in Core : pending[c] # <<>> /\ CanIssue(c, Head(pending[c])) /\ IssueBlock(c)
  BY IssueStep DEF Inv
<1>5. QED BY <1>2, <1>3, <1>4

LEMMA ExitAligned ==
    ASSUME Inv, Aligned, NEW c \in Core, NEW s \in CtaSlot, CtaExit(c, s)
    PROVE  Aligned'
<1> SUFFICES ASSUME ~config.concurrent, NEW d \in Core PROVE AlignedAt(d)'
  BY DEF Aligned, CtaExit
<1>1. AlignedAt(d)
  BY DEF Aligned
<1>2. ctas' = [ctas EXCEPT ![c][s] = Null] /\ start' = start
  BY DEF CtaExit
<1>3. ctas \in [Core -> [CtaSlot -> Kernel \cup {Null}]]
  BY DEF Inv, TypeOK, CoreTypes
<1>4. \A u \in Live(d)' : u \in Live(d) /\ ctas'[d][u] = ctas[d][u]
  BY <1>2, <1>3 DEF Live
<1>5. QED BY <1>1, <1>2, <1>4 DEF AlignedAt

\* Contexts of one size share no thread, ...
LEMMA ContextsApart ==
    ASSUME NEW n \in Nat, NEW s \in Nat, NEW t \in Nat, s < t
    PROVE  (s * n .. s * n + n - 1) \cap (t * n .. t * n + n - 1) = {}
<1>1. (s + 1) * n <= t * n
  BY SMT
<1>2. (s + 1) * n = s * n + n /\ s * n \in Nat /\ t * n \in Nat
  OBVIOUS
<1>3. QED BY <1>1, <1>2

\* ... and as many as a core takes fit.
LEMMA ContextsFit ==
    ASSUME NEW n \in Nat, NEW m \in Nat, NEW s \in Nat, s < m
    PROVE  s * n + n <= m * n
<1>1. (s + 1) * n <= m * n
  BY SMT
<1>2. (s + 1) * n = s * n + n
  OBVIOUS
<1>3. QED BY <1>1, <1>2

\* The CTAs on a core that runs one kernel at a time are all of that kernel.
LEMMA OneKernel ==
    ASSUME Inv, ~config.concurrent, NEW c \in Core, NEW s \in Live(c), NEW t \in Live(c)
    PROVE  ctas[c][s] = ctas[c][t] /\ ctas[c][s] \in Kernel
<1>1. ASSUME NEW u \in Live(c) PROVE ctas[c][u] \in Runs /\ ctas[c][u] \in Kernel
  <2>1. PICK k \in Kernel : k = ctas[c][u]
    BY DEF Live, Inv, TypeOK, CoreTypes
  <2>2. <<c, u>> \in Holding(k)
    BY <2>1 DEF Holding, Live
  <2>3. k \in Runs
    BY <2>2, AtWork
  <2>4. QED BY <2>1, <2>3
<1>2. QED BY <1>1, Alone

LEMMA AlignedExclusive ==
    ASSUME Inv, ~config.concurrent, Aligned
    PROVE  ThreadsExclusive
<1> SUFFICES ASSUME NEW c \in Core
             PROVE  /\ \A s, t \in Live(c) : s # t => Threads(c, s) \cap Threads(c, t) = {}
                    /\ \A s \in Live(c) : Threads(c, s) \subseteq 0 .. NThread - 1
  BY DEF ThreadsExclusive
<1>1. AlignedAt(c)
  BY DEF Aligned
<1>2. Live(c) \subseteq Nat
  BY Constants DEF Live, CtaSlot
<1>3. ASSUME NEW s \in Live(c), NEW t \in Live(c), s < t
      PROVE  Threads(c, s) \cap Threads(c, t) = {}
  <2>1. PICK k \in Kernel : k = ctas[c][s] /\ k = ctas[c][t]
    BY <1>3, OneKernel
  <2>2. PICK n \in Nat : n = threadsOf[k]
    BY Constants
  <2>3. Threads(c, s) = s * n .. s * n + n - 1 /\ Threads(c, t) = t * n .. t * n + n - 1
    BY <1>1, <2>1, <2>2 DEF AlignedAt, Threads
  <2>4. s \in Nat /\ t \in Nat
    BY <1>2
  <2>5. (s * n .. s * n + n - 1) \cap (t * n .. t * n + n - 1) = {}
    BY <1>3, <2>4, ContextsApart
  <2>6. QED BY <2>3, <2>5
<1>4. \A s, t \in Live(c) : s # t => Threads(c, s) \cap Threads(c, t) = {}
  <2> SUFFICES ASSUME NEW s \in Live(c), NEW t \in Live(c), s # t
               PROVE  Threads(c, s) \cap Threads(c, t) = {}
    OBVIOUS
  <2>1. s < t \/ t < s
    BY <1>2
  <2>2. QED BY <1>3, <2>1
<1>5. ASSUME NEW s \in Live(c) PROVE Threads(c, s) \subseteq 0 .. NThread - 1
  <2>1. PICK k \in Kernel : k = ctas[c][s]
    BY OneKernel
  <2>2. PICK n \in Nat, m \in Nat : n = threadsOf[k] /\ m = maxCta[k] /\ m * n <= NThread
    BY Constants, PerKernel, KernelsAssumption
  <2>3. Threads(c, s) = s * n .. s * n + n - 1 /\ s < m
    BY <1>1, <2>1, <2>2 DEF AlignedAt, Threads
  <2>4. s \in Nat /\ s * n \in Nat /\ m * n \in Nat /\ NThread \in Nat
    BY <1>2, Constants
  <2>5. s * n + n <= m * n
    BY <2>3, <2>4, ContextsFit
  <2>6. PICK first \in Nat : first = s * n
    BY <2>4
  <2>7. first + n <= NThread
    BY <2>2, <2>4, <2>5, <2>6
  <2>8. first .. first + n - 1 \subseteq 0 .. NThread - 1
    BY <2>4, <2>7
  <2>9. QED BY <2>3, <2>6, <2>8
<1>6. QED BY <1>4, <1>5

\* No hardware thread of a core belongs to two CTAs, and the threads marked as
\* occupied are those of its CTAs, if the sizes of the CTAs that cores book
\* threads for divide the number of threads.  (CTAs of 512 and of 1024 threads
\* on a core of 1536 are a case where they do not: the second is placed at 1024
\* and passes the end of the core.)
THEOREM ThreadsCorrect ==
    ASSUME SizesFit
    PROVE  Spec => []ThreadsExclusive
<1>1. Init => Booked /\ Aligned
  <2> SUFFICES ASSUME Init, NEW c \in Core PROVE BookedAt(c) /\ AlignedAt(c)
    BY DEF Booked, Aligned
  <2>1. Live(c) = {} /\ occupied[c] = {}
    BY DEF Init, Live
  <2>2. QED BY <2>1 DEF BookedAt, AlignedAt, ThreadsOf
<1>2. Inv /\ Booked /\ Aligned /\ [Next]_vars => Booked' /\ Aligned'
  <2> SUFFICES ASSUME Inv, Booked, Aligned, [Next]_vars PROVE Booked' /\ Aligned'
    OBVIOUS
  <2>1. CASE ParseKernel \/ ParseEnds \/ Launch \/ Simulate \/ Cleanup \/ CleanupEnds
             \/ CoresDone \/ Allot \/ CycleEnds \/ UNCHANGED vars
    <3>1. UNCHANGED <<config, ctas, start, occupied>>
      BY <2>1 DEF ParseKernel, ParseEnds, Launch, Simulate, Cleanup, CleanupEnds, CoresDone, Allot,
                  CycleEnds, vars, coreVars
    <3>2. QED BY <3>1, OthersKeepBooks, AlignedStays DEF Aligned
  <2>2. CASE Issue
    <3>1. Booked'
      <4>1. CASE config.concurrent
        <5>1. Divides
          BY <4>1 DEF SizesFit, Inv, TypeOK, CoreTypes
        <5>2. QED BY <2>2, <5>1, IssueKeepsBooks DEF Inv
      <4>2. CASE ~config.concurrent
        BY <2>2, <4>2 DEF Issue, Booked
      <4>3. QED BY <4>1, <4>2
    <3>2. QED BY <2>2, <3>1, IssueAligned
  <2>3. ASSUME NEW c \in Core, NEW s \in CtaSlot, CtaExit(c, s) PROVE Booked' /\ Aligned'
    BY <2>3, ExitKeepsBooks, ExitAligned DEF Inv, TypeOK
  <2>4. QED BY <2>1, <2>2, <2>3 DEF Next, Step, Stopped
<1>3. ASSUME Inv, Booked, Aligned PROVE ThreadsExclusive
  <2>1. CASE config.concurrent
    BY <1>3, <2>1 DEF Booked, BookedAt, ThreadsOf, ThreadsExclusive
  <2>2. CASE ~config.concurrent
    BY <1>3, <2>2, AlignedExclusive
  <2>3. QED BY <2>1, <2>2
<1>4. QED BY <1>1, <1>2, <1>3, Invariance, PTL DEF Spec
-----------------------------------------------------------------------------
(* What the driver promises *)

\* The driver runs at most two kernels at a time.
AtMostTwo == (\E g \in Configs : g.concurrent) => MaxConcurrent <= 2

LEMMA SmallWindow ==
    ASSUME AtMostTwo, Inv
    PROVE  WindowSize <= 2 /\ StreamsExact
<1>1. config \in Configs
  BY DEF Inv, TypeOK, CoreTypes
<1>2. WindowSize <= 2
  BY <1>1 DEF AtMostTwo, WindowSize
<1>3. QED BY <1>2 DEF Inv, StreamsOK

\* The CTAs of a kernel that have been issued, of which some have ended.
LEMMA Ended ==
    ASSUME Inv, NEW k \in Kernel
    PROVE  /\ nextCta[k] \in Nat /\ resident[k] \in Nat /\ ctasOf[k] \in Nat
           /\ nextCta[k] <= ctasOf[k]
<1>1. /\ nextCta[k] \in Nat /\ resident[k] \in Nat
      /\ allocated[k] = nextCta[k] + Cardinality(Waiting(k)) /\ allocated[k] <= ctasOf[k]
  BY DEF Inv, TypeOK, DriverTypes, CountsOK
<1>2. QED BY <1>1, Places, PerKernel

\* Steps that neither launch nor retire a kernel nor end a CTA leave that as it is.
EndedOf == [k \in Kernel |-> nextCta[k] - resident[k]]

\* What Streams sees of the driver.
StreamState ==
    <<[k \in Kernel |-> IF k \in Deleted THEN "retired"
                        ELSE IF k \in launched THEN "running" ELSE "waiting"],
      [k \in Kernel |-> ctasOf[k] - (nextCta[k] - resident[k])]>>

LEMMA StreamStateStays ==
    ASSUME Deleted' = Deleted, launched' = launched, EndedOf' = EndedOf
    PROVE  UNCHANGED StreamState
<1> DEFINE now == [k \in Kernel |-> IF k \in Deleted THEN "retired"
                                  ELSE IF k \in launched THEN "running" ELSE "waiting"]
           rest == [k \in Kernel |-> ctasOf[k] - (nextCta[k] - resident[k])]
<1>1. now' = now
  OBVIOUS
<1>2. rest' = rest
  <2>1. rest = [k \in Kernel |-> ctasOf[k] - EndedOf[k]]
    BY DEF EndedOf
  <2>2. rest' = [k \in Kernel |-> ctasOf[k] - EndedOf'[k]]
    BY DEF EndedOf
  <2>3. QED BY <2>1, <2>2
<1>3. StreamState = <<now, rest>> /\ StreamState' = <<now', rest'>>
  BY DEF StreamState
<1> HIDE DEF now, rest
<1>4. QED BY <1>1, <1>2, <1>3

LEMMA OthersRefine ==
    ASSUME Inv,
           \/ ParseKernel \/ ParseEnds \/ Simulate \/ CleanupEnds \/ CoresDone \/ Allot \/ CycleEnds
           \/ Issue \/ UNCHANGED vars
    PROVE  UNCHANGED StreamState
<1>1. CASE ParseKernel
  <2>1. Deleted' = Deleted /\ UNCHANGED <<launched, nextCta, resident>>
    BY <1>1, Parsed DEF ParseKernel, kernelVars
  <2>2. EndedOf' = EndedOf
    BY <2>1 DEF EndedOf
  <2>3. QED BY <2>1, <2>2, StreamStateStays
<1>2. CASE \/ ParseEnds \/ Simulate \/ CleanupEnds \/ CoresDone \/ Allot \/ CycleEnds
           \/ UNCHANGED vars
  <2>1. UNCHANGED <<command, window, launched, nextCta, resident>>
    BY <1>2 DEF ParseEnds, Simulate, CleanupEnds, CoresDone, Allot, CycleEnds, vars, hostVars,
                kernelVars
  <2>2. Deleted' = Deleted
    BY <2>1 DEF Deleted
  <2>3. EndedOf' = EndedOf
    BY <2>1 DEF EndedOf
  <2>4. QED BY <2>1, <2>2, <2>3, StreamStateStays
<1>3. CASE Issue
  <2>1. UNCHANGED <<command, window, launched>>
    BY <1>3 DEF Issue, hostVars
  <2>2. Deleted' = Deleted
    BY <2>1 DEF Deleted
  <2>3. \A k \in Kernel : nextCta'[k] - resident'[k] = nextCta[k] - resident[k]
    <3>1. CASE UNCHANGED <<kernelVars, coreVars>>
      BY <3>1 DEF kernelVars
    <3>2. ASSUME NEW c \in Core, IssueBlock(c), NEW k \in Kernel
          PROVE  nextCta'[k] - resident'[k] = nextCta[k] - resident[k]
      <4>1. PICK h : /\ nextCta' = [nextCta EXCEPT ![h] = @ + 1]
                     /\ resident' = [resident EXCEPT ![h] = @ + 1]
        BY <3>2 DEF IssueBlock
      <4>2. nextCta \in [Kernel -> Nat] /\ resident \in [Kernel -> Nat]
        BY DEF Inv, TypeOK, DriverTypes
      <4>3. QED BY <4>1, <4>2
    <3>3. \/ UNCHANGED <<kernelVars, coreVars>>
          \/ \E c \in Core : IssueBlock(c)
      BY <1>3, IssueStep DEF Inv
    <3>4. QED BY <3>1, <3>2, <3>3
  <2>4. EndedOf' = EndedOf
    BY <2>3 DEF EndedOf
  <2>5. QED BY <2>1, <2>2, <2>4, StreamStateStays
<1>4. QED BY <1>1, <1>2, <1>3

\* A launch starts a kernel after those before it in its stream, ...
LEMMA LaunchRefines ==
    ASSUME AtMostTwo, Inv, Inv', Launch
    PROVE  (\E k \in Kernel : Abstract!Start(k)) \/ UNCHANGED StreamState
<1>1. UNCHANGED <<command, window, nextCta, resident>>
  BY DEF Launch, kernelVars
<1>2. Deleted' = Deleted
  BY <1>1 DEF Deleted
<1>3. PICK k \in Kernel : k = window[at] /\ k \in Range(window)
  <2>1. at \in 1 .. Len(window) /\ window \in Seq(Kernel)
    BY DEF Launch, Inv, TypeOK, CoreTypes
  <2>2. QED BY <2>1 DEF Range
<1>4. CASE ~MayLaunch(k)
  <2>1. UNCHANGED launched
    BY <1>3, <1>4 DEF Launch
  <2>2. EndedOf' = EndedOf
    BY <1>1 DEF EndedOf
  <2>3. QED BY <1>2, <2>1, <2>2, StreamStateStays
<1>5. CASE MayLaunch(k)
  <2>1. launched' = launched \cup {k} /\ k \notin launched /\ k \notin Deleted
    BY <1>3, <1>5 DEF Launch, MayLaunch, Deleted
  <2>2. StreamsExact'
    <3>1. config' = config
      BY DEF Launch
    <3>2. WindowSize' = WindowSize
      BY <3>1 DEF WindowSize
    <3>3. QED BY <3>2, SmallWindow DEF Inv, StreamsOK
  <2>3. \A j \in Kernel : j < k /\ streamOf[j] = streamOf[k] => j \in Deleted
    BY <1>2, <2>1, <2>2 DEF StreamsExact
  <2>4. Abstract!Start(k)
    BY <1>1, <1>2, <2>1, <2>3 DEF Abstract!Start
  <2>5. QED BY <2>4
<1>6. QED BY <1>4, <1>5

\* ... a CTA ends when its last thread exits, ...
LEMMA ExitRefines ==
    ASSUME Inv, NEW c \in Core, NEW s \in CtaSlot, CtaExit(c, s)
    PROVE  \E k \in Kernel : Abstract!CtaEnds(k)
<1>1. UNCHANGED <<command, window, launched, nextCta>>
  BY DEF CtaExit, hostVars
<1>2. PICK k \in Kernel : k \in Runs /\ resident[k] > 0 /\ resident' = [resident EXCEPT ![k] = @ - 1]
  BY ExitStep
<1>3. k \in launched /\ k \notin Deleted /\ Deleted' = Deleted
  BY <1>1, <1>2, RunningNotDeleted DEF Inv, RunningOK, Deleted
<1>4. resident \in [Kernel -> Nat] /\ nextCta \in [Kernel -> Nat]
  BY DEF Inv, TypeOK, DriverTypes
<1>5. ctasOf[k] - (nextCta[k] - resident[k]) > 0
  BY <1>2, Ended
<1>6. \A j \in Kernel : ctasOf[j] - (nextCta'[j] - resident'[j])
                        = IF j = k THEN ctasOf[j] - (nextCta[j] - resident[j]) - 1
                          ELSE ctasOf[j] - (nextCta[j] - resident[j])
  BY <1>1, <1>2, <1>4, Ended
<1>7. Abstract!CtaEnds(k)
  BY <1>1, <1>3, <1>5, <1>6 DEF Abstract!CtaEnds
<1>8. QED BY <1>7

\* ... and cleanup retires a kernel all of whose CTAs have run.
LEMMA CleanupRefines ==
    ASSUME AtMostTwo, Inv, Cleanup
    PROVE  (\E k \in Kernel : Abstract!Retire(k)) \/ UNCHANGED StreamState
<1>1. UNCHANGED <<command, launched, nextCta, resident>>
  BY DEF Cleanup, kernelVars
<1>2. PICK k : k = window[at]
  OBVIOUS
<1>3. CASE ~CleansUp(k)
  <2>1. UNCHANGED window
    BY <1>2, <1>3 DEF Cleanup
  <2>2. Deleted' = Deleted
    BY <1>1, <2>1 DEF Deleted
  <2>3. EndedOf' = EndedOf
    BY <1>1 DEF EndedOf
  <2>4. QED BY <1>1, <2>2, <2>3, StreamStateStays
<1>4. CASE CleansUp(k)
  <2>1. k \in Kernel /\ k \in Range(window) /\ Deleted' = Deleted \cup {k}
    BY <1>2, <1>4, Cleaned
  <2>2. k \in launched /\ KernelDone(k)
    BY <1>2, <1>4, CleanedDone, SmallWindow
  <2>3. k \notin Deleted
    BY <2>1 DEF Deleted
  <2>4. ctasOf[k] - (nextCta[k] - resident[k]) = 0
    BY <2>1, <2>2, Ended DEF KernelDone
  <2>5. Abstract!Retire(k)
    BY <1>1, <2>1, <2>2, <2>3, <2>4 DEF Abstract!Retire
  <2>6. QED BY <2>1, <2>5
<1>5. QED BY <1>3, <1>4

\* The driver launches the kernels of a stream in their order, each after the
\* one before it was retired, and retires a kernel when its last CTA has run,
\* if it runs at most two kernels at a time.  (With three, cleanup may delete a
\* kernel that waits for its stream when the GPU is idle: OnlyFinishedCleaned.)
THEOREM Refinement ==
    ASSUME AtMostTwo
    PROVE  Spec => ImplementsStreams
<1>1. Init => Abstract!Init
  <2> SUFFICES ASSUME Init PROVE Abstract!Init
    OBVIOUS
  <2>1. Deleted = {} /\ launched = {}
    BY DEF Init, Deleted
  <2>2. \A k \in Kernel : ctasOf[k] - (nextCta[k] - resident[k]) = ctasOf[k]
    BY PerKernel DEF Init
  <2>3. ctasOf \in [Kernel -> Nat \ {0}]
    BY KernelsAssumption
  <2>4. QED BY <2>1, <2>2, <2>3 DEF Abstract!Init
<1>2. Inv /\ Inv' /\ [Next]_vars => [Abstract!Next]_StreamState
  <2> SUFFICES ASSUME Inv, Inv', [Next]_vars PROVE Abstract!Next \/ UNCHANGED StreamState
    OBVIOUS
  <2>1. CASE Launch
    BY <2>1, LaunchRefines DEF Abstract!Next
  <2>2. CASE Cleanup
    BY <2>2, CleanupRefines DEF Abstract!Next
  <2>3. ASSUME NEW c \in Core, NEW s \in CtaSlot, CtaExit(c, s) PROVE Abstract!Next
    BY <2>3, ExitRefines DEF Abstract!Next
  <2>4. CASE \/ ParseKernel \/ ParseEnds \/ Simulate \/ CleanupEnds \/ CoresDone \/ Allot \/ CycleEnds
             \/ Issue \/ UNCHANGED vars
    BY <2>4, OthersRefine
  <2>5. QED BY <2>1, <2>2, <2>3, <2>4 DEF Next, Step, Stopped
<1>3. Inv /\ Inv' /\ [Next]_vars => [Abstract!Next]_(Abstract!vars)
  BY <1>2 DEF StreamState, Abstract!vars
<1>4. QED BY <1>1, <1>3, Invariance, PTL DEF Spec, ImplementsStreams, Abstract!Spec

\* With at most two kernels at a time, cleanup takes only kernels from the
\* window that have finished.
THEOREM FinishedCorrect ==
    ASSUME AtMostTwo
    PROVE  Spec => OnlyFinishedCleaned
<1> DEFINE A == \A k \in Range(window) \ Range(window') : k \in launched /\ KernelDone(k)
<1>1. Inv /\ [Next]_vars => A \/ UNCHANGED vars
  <2> SUFFICES ASSUME Inv, [Next]_vars, NEW k \in Range(window) \ Range(window')
               PROVE  k \in launched /\ KernelDone(k)
    OBVIOUS
  <2>1. CASE Cleanup
    <3>1. PICK j : j = window[at]
      OBVIOUS
    <3>2. CleansUp(j)
      BY <2>1, <3>1 DEF Cleanup
    <3>3. k = j
      BY <2>1, <3>1, <3>2, Cleaned
    <3>4. QED BY <2>1, <3>1, <3>2, <3>3, CleanedDone, SmallWindow
  <2>2. CASE ParseKernel
    BY <2>2, Parsed
  <2>3. CASE ~Cleanup /\ ~ParseKernel
    <3>1. UNCHANGED window
      BY <2>3 DEF Next, Step, Stopped, ParseEnds, Launch, Simulate, CleanupEnds, CoresDone, Allot,
                  Issue, CycleEnds, CtaExit, vars, hostVars
    <3>2. QED BY <3>1
  <2>4. QED BY <2>1, <2>2, <2>3
<1> HIDE DEF A
<1>2. Spec => [][A]_vars
  BY <1>1, Invariance, PTL DEF Spec
<1>3. QED BY <1>2 DEF A, OnlyFinishedCleaned
=============================================================================
