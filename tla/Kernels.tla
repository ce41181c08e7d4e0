------------------------------ MODULE Kernels ------------------------------
(***************************************************************************)
(* From the command list to the cores: accel_sim_framework reads kernels   *)
(* into a window, launches those whose stream is free and simulates until  *)
(* one finishes; gpgpu_sim hands the CTAs of the running kernels to the    *)
(* clusters, whose cores hold them until their threads have exited.        *)
(*                                                                         *)
(* The whole is one thread.  "phase" is its program counter, "at" the      *)
(* index of the loop it is in; one iteration of a loop is one action.      *)
(***************************************************************************)
EXTENDS Naturals, Sequences, FiniteSets, SequencesExt, FiniteSetsExt

CONSTANTS
    NKernel,        \* the kernel_launch commands of the list
    streamOf,       \* get_cuda_stream_id
    ctasOf,         \* num_blocks
    threadsOf,      \* threads_per_cta, padded to whole warps
    maxCta,         \* shader_core_config::max_cta: CTAs of the kernel a core holds
    latencyOf,      \* the initial m_kernel_TB_latency
    MaxConcurrent,  \* max_concurrent_kernel, the size of m_running_kernels
    NCore,          \* all the cores
    NThread,        \* n_thread_per_shader
    NCtaSlot,       \* max_cta_per_core
    MaxPending,     \* max_pending_ctas, 4 in the code
    Configs         \* the options a run may start with

Kernel == 1 .. NKernel      \* a kernel is its uid
Null == 0                   \* no kernel: a null pointer, or finished_kernel_uid 0
Core == 0 .. NCore - 1
Slot == 0 .. MaxConcurrent - 1
CtaSlot == 0 .. NCtaSlot - 1

ASSUME KernelsAssumption ==
    /\ {NKernel, MaxConcurrent, NCore, NThread, NCtaSlot, MaxPending} \subseteq Nat \ {0}
    /\ {ctasOf, threadsOf, maxCta} \subseteq [Kernel -> Nat \ {0}]
    /\ latencyOf \in [Kernel -> Nat]
    /\ \A k \in Kernel : maxCta[k] <= NCtaSlot /\ maxCta[k] * threadsOf[k] <= NThread
    /\ Configs \subseteq [concurrent : BOOLEAN, perCluster : 1 .. NCore]
    /\ \A g \in Configs : NCore % g.perCluster = 0

VARIABLES
    config,         \* gpgpu_concurrent_kernel_sm, n_simt_cores_per_cluster
    phase, at,      \* where the thread stands
    uid,            \* finished_kernel_uid
    command,        \* commandlist_index, from 1
    window,         \* kernels_info
    busy,           \* busy_streams
    launched,       \* the kernels with was_launched()
    running,        \* m_running_kernels
    last,           \* m_last_issued_kernel
    executed,       \* m_executed_kernel_uids
    finished,       \* m_finished_kernel
    latency,        \* m_kernel_TB_latency
    allocated,      \* allocated_ctas
    nextCta,        \* m_next_cta, as a number
    resident,       \* m_num_cores_running: the CTAs of the kernel on cores
    from,           \* last_issued: m_last_cluster_issue as the loop found it
    lastCluster,    \* m_last_cluster_issue
    nextCore,       \* m_cta_issue_next_core of each cluster
    bound,          \* m_kernel of each core; may point to a deleted kernel
    pending,        \* pending_ctas of each core
    ctas,           \* m_cta_status, as the kernel of each CTA context
    start,          \* m_occupied_cta_to_hwtid, the first thread of each context
    occupied,       \* m_occupied_hwtid
    traffic         \* a memory partition or the interconnect is busy

hostVars == <<command, window, busy, launched>>
gpuVars == <<running, last, executed, finished, latency>>
kernelVars == <<allocated, nextCta, resident>>
clusterVars == <<from, lastCluster, nextCore>>
coreVars == <<bound, pending, ctas, start, occupied>>
vars == <<config, phase, at, uid, hostVars, gpuVars, kernelVars, clusterVars, coreVars, traffic>>

NCluster == NCore \div config.perCluster
WindowSize == IF config.concurrent THEN MaxConcurrent ELSE 1

Init ==
    /\ config \in Configs
    /\ phase = "parse" /\ at = 0 /\ uid = Null
    /\ command = 1 /\ window = <<>> /\ busy = <<>> /\ launched = {}
    /\ running = [n \in Slot |-> Null] /\ last = 0 /\ executed = {} /\ finished = <<>>
    /\ latency = latencyOf
    /\ allocated = [k \in Kernel |-> 0] /\ nextCta = allocated /\ resident = allocated
    /\ from = 0 /\ lastCluster = NCluster - 1
    /\ nextCore = [l \in 0 .. NCluster - 1 |-> config.perCluster - 1]
    /\ bound = [c \in Core |-> Null]
    /\ pending = [c \in Core |-> <<>>]
    /\ ctas = [c \in Core |-> [s \in CtaSlot |-> Null]]
    /\ start = [c \in Core |-> [s \in CtaSlot |-> 0]]
    /\ occupied = [c \in Core |-> {}]
    /\ traffic = FALSE

(***************************************************************************)
(* The state of kernels and cores                                          *)
(***************************************************************************)
\* no_more_ctas_to_run of a kernel, negated, and kernel_more_cta_left of a
\* pointer.  Deleted kernels keep their last contents.
MoreCtas(k) == k # Null /\ nextCta[k] < ctasOf[k]
KernelDone(k) == nextCta[k] >= ctasOf[k] /\ resident[k] = 0
Deleted == {k \in 1 .. command - 1 : k \notin Range(window)}

Live(c) == {s \in CtaSlot : ctas[c][s] # Null}
Threads(c, s) == start[c][s] .. start[c][s] + threadsOf[ctas[c][s]] - 1

\* gpgpu_sim::active
Active ==
    \/ \E c \in Core : Live(c) # {}
    \/ traffic
    \/ \E n \in Slot : MoreCtas(running[n])

Goto(p, i) == phase' = p /\ at' = i

(***************************************************************************)
(* accel_sim_framework: parse_commandlist and the launch loop              *)
(***************************************************************************)
\* A new kernel object may get the address of a deleted one; a core that
\* still points there then points to the new kernel.
ParseKernel ==
    /\ phase = "parse"
    /\ Len(window) < WindowSize /\ command <= NKernel
    /\ window' = Append(window, command)
    /\ command' = command + 1
    /\ \E old \in Deleted \cup {Null} :
          bound' = [c \in Core |-> IF old # Null /\ bound[c] = old THEN command ELSE bound[c]]
    /\ UNCHANGED <<config, phase, at, uid, busy, launched, gpuVars, kernelVars, clusterVars,
                   pending, ctas, start, occupied, traffic>>

ParseEnds ==
    /\ phase = "parse"
    /\ Len(window) >= WindowSize \/ command > NKernel
    /\ IF window = <<>> THEN Goto("stopped", 0) ELSE Goto("launch", 1)
    /\ UNCHANGED <<config, uid, hostVars, gpuVars, kernelVars, clusterVars, coreVars, traffic>>

\* Mutant: a kernel without CTAs to issue gives up its slot.
FreeSlot_Mutant == {n \in Slot : ~MoreCtas(running[n])}

\* The slots launch may take: can_start_kernel says whether there is one.
FreeSlot == {n \in Slot : running[n] = Null \/ KernelDone(running[n])}

\* Mutant: a kernel does not wait for its stream.
MayLaunch_Mutant(k) == FreeSlot # {} /\ k \notin launched

MayLaunch(k) == streamOf[k] \notin Range(busy) /\ FreeSlot # {} /\ k \notin launched

\* One kernel of the window: gpgpu_sim::launch, or not yet.
Launch ==
    /\ phase = "launch"
    /\ LET k == window[at] IN
          IF MayLaunch(k)
          THEN /\ running' = [running EXCEPT ![Min(FreeSlot)] = k]
               /\ launched' = launched \cup {k}
               /\ busy' = Append(busy, streamOf[k])
          ELSE UNCHANGED <<running, launched, busy>>
    /\ IF at < Len(window) THEN Goto("launch", at + 1) ELSE Goto("simulate", 0)
    /\ UNCHANGED <<config, uid, command, window, last, executed, finished, latency, kernelVars,
                   clusterVars, coreVars, traffic>>

(***************************************************************************)
(* accel_sim_framework: simulate and cleanup                               *)
(***************************************************************************)
Simulate ==
    /\ phase = "simulate"
    /\ IF Active THEN Goto("cores", 0) ELSE Goto("cleanup", 1)
    /\ uid' = Null
    /\ UNCHANGED <<config, hostVars, gpuVars, kernelVars, clusterVars, coreVars, traffic>>

\* The kernel at this place of the window, when it is the finished one or
\* the GPU is idle, is deleted and its stream released.
CleansUp(k) == k = uid \/ ~Active

Cleanup ==
    /\ phase = "cleanup" /\ at <= Len(window)
    /\ LET k == window[at] IN
          IF CleansUp(k)
          THEN /\ window' = RemoveAt(window, at)
               /\ busy' = RemoveFirst(busy, streamOf[k])
               /\ IF Active THEN Goto("report", 0) ELSE Goto("cleanup", at + 1)
          ELSE Goto("cleanup", at + 1) /\ UNCHANGED <<window, busy>>
    /\ UNCHANGED <<config, uid, command, launched, gpuVars, kernelVars, clusterVars, coreVars,
                   traffic>>

\* print_stats, which clears m_executed_kernel_uids.
CleanupEnds ==
    /\ \/ phase = "report"
       \/ phase = "cleanup" /\ at > Len(window)
    /\ executed' = {}
    /\ Goto("parse", 0)
    /\ UNCHANGED <<config, uid, hostVars, running, last, finished, latency, kernelVars,
                   clusterVars, coreVars, traffic>>

(***************************************************************************)
(* gpgpu_sim::cycle: the cores                                             *)
(***************************************************************************)
\* The last thread of a CTA exits: register_cta_thread_exit, with
\* release_shader_resource_1block and set_kernel_done.
CtaExit(c, s) ==
    /\ phase = "cores" /\ s \in Live(c)
    /\ LET k == ctas[c][s]
           empties == Live(c) = {s}
           ends == ~MoreCtas(k) /\ resident[k] = 1
       IN  /\ ctas' = [ctas EXCEPT ![c][s] = Null]
           /\ occupied' = IF config.concurrent
                          THEN [occupied EXCEPT ![c] = @ \ Threads(c, s)]
                          ELSE occupied
           /\ resident' = [resident EXCEPT ![k] = @ - 1]
           /\ bound' = [bound EXCEPT ![c] = IF empties \/ (ends /\ @ = k) THEN Null ELSE @]
           /\ finished' = IF ends THEN Append(finished, k) ELSE finished
           /\ running' = [n \in Slot |-> IF ends /\ running[n] = k THEN Null ELSE running[n]]
    /\ UNCHANGED <<config, phase, at, uid, hostVars, last, executed, latency, allocated, nextCta,
                   clusterVars, pending, start, traffic>>

\* The rest of the cycle before CTAs are issued.  The memory system gets
\* work only from cores that run something, and drains in its own time.
CoresDone ==
    /\ phase = "cores"
    /\ traffic' \in IF \E c \in Core : Live(c) # {} THEN BOOLEAN ELSE {FALSE, traffic}
    /\ from' = lastCluster
    /\ Goto("allot", 0)
    /\ UNCHANGED <<config, uid, hostVars, gpuVars, kernelVars, lastCluster, nextCore, coreVars>>

(***************************************************************************)
(* gpgpu_sim::issue_block2core: for each cluster, the kernels of its       *)
(* cores, then one CTA                                                     *)
(***************************************************************************)
Cluster == (at \div config.perCluster + from + 1) % NCluster
CoreOf(i) == Cluster * config.perCluster + i
Here == CoreOf(at % config.perCluster)

\* Mutant: round robin between the kernels.
ReadyAfterLast == {n \in Slot : MoreCtas(running[(n + last + 1) % MaxConcurrent])}
SelectSlot_Mutant ==
    IF ReadyAfterLast = {} THEN MaxConcurrent ELSE (Min(ReadyAfterLast) + last + 1) % MaxConcurrent

\* select_kernel: the slot of the last kernel while it has CTAs, else the
\* first one after it.
Ready(n) == MoreCtas(running[n]) /\ latency[running[n]] = 0
NoSlot == MaxConcurrent
SelectSlot ==
    LET after(n) == (n + last + 1) % MaxConcurrent
        ready == {n \in Slot : Ready(after(n))}
    IN  IF Ready(last) THEN last
        ELSE IF ready # {} THEN after(Min(ready)) ELSE NoSlot

\* A core takes a new kernel when its own has no more CTAs and it is empty;
\* with concurrent kernels it takes the selected one every time.
Selects(c) == config.concurrent \/ (~MoreCtas(bound[c]) /\ Live(c) = {})

KernelFor(c) ==
    IF Selects(c) THEN IF SelectSlot = NoSlot THEN Null ELSE running[SelectSlot]
    ELSE bound[c]

\* The first loop of simt_core_cluster::issue_block2core, for one core.
Allot ==
    LET k == KernelFor(Here)
        selects == Len(pending[Here]) < MaxPending /\ Selects(Here) /\ k # Null
    IN
    /\ phase = "allot" /\ at < NCore
    /\ IF selects THEN last' = SelectSlot /\ executed' = executed \cup {k}
       ELSE UNCHANGED <<last, executed>>
    /\ bound' = IF selects /\ ~config.concurrent THEN [bound EXCEPT ![Here] = k] ELSE bound
    /\ IF Len(pending[Here]) < MaxPending /\ k # Null /\ allocated[k] < ctasOf[k]
       THEN /\ pending' = [pending EXCEPT ![Here] = Append(@, k)]
            /\ allocated' = [allocated EXCEPT ![k] = @ + 1]
       ELSE UNCHANGED <<pending, allocated>>
    /\ IF (at + 1) % config.perCluster = 0 THEN Goto("issue", at) ELSE Goto("allot", at + 1)
    /\ UNCHANGED <<config, uid, hostVars, running, finished, latency, nextCta, resident,
                   clusterVars, ctas, start, occupied, traffic>>

\* Mutant: only the first thread has to be free.
FindThreads_Mutant(c, size) ==
    Min({t \in 0 .. NThread - 1 : t % size = 0 /\ t \notin occupied[c]} \cup {NThread})

\* find_available_hwtid: the first multiple of the size with free threads
\* after it; NThread when there is none.  The threads may pass the end of the
\* core; MAX_THREAD_PER_SM, the size of the bitset, is taken to be larger.
FindThreads(c, size) ==
    LET fits == {t \in 0 .. NThread - 1 :
                    t % size = 0 /\ occupied[c] \cap (t .. t + size - 1) = {}}
    IN  IF fits = {} THEN NThread ELSE Min(fits)

\* m_occupied_n_threads.
OccupiedThreads(c) == MapThenSumSet(LAMBDA s : threadsOf[ctas[c][s]], Live(c))

\* Mutant: the last threads of a core are never used.
CanIssue_Mutant(c, k) == OccupiedThreads(c) + threadsOf[k] < NThread /\ Cardinality(Live(c)) < maxCta[k]

\* can_issue_1block, with occupy_shader_resource_1block(k, false).
CanIssue(c, k) ==
    IF config.concurrent
    THEN /\ OccupiedThreads(c) + threadsOf[k] <= NThread
         /\ FindThreads(c, threadsOf[k]) < NThread
         /\ Cardinality(Live(c)) < NCtaSlot
    ELSE Cardinality(Live(c)) < maxCta[k]

FreeCta(c, k) == (IF config.concurrent THEN CtaSlot ELSE 0 .. maxCta[k] - 1) \ Live(c)

\* shader_core_ctx::issue_block2core.
IssueBlock(c) ==
    LET k == Head(pending[c])
        s == Min(FreeCta(c, k))
        first == IF config.concurrent THEN FindThreads(c, threadsOf[k]) ELSE s * threadsOf[k]
    IN
    /\ ctas' = [ctas EXCEPT ![c][s] = k]
    /\ start' = [start EXCEPT ![c][s] = first]
    /\ occupied' = IF config.concurrent
                   THEN [occupied EXCEPT ![c] = @ \cup (first .. first + threadsOf[k] - 1)]
                   ELSE occupied
    /\ nextCta' = [nextCta EXCEPT ![k] = @ + 1]
    /\ resident' = [resident EXCEPT ![k] = @ + 1]
    /\ pending' = [pending EXCEPT ![c] = Tail(@)]

\* The second loop: the first core, after the last one served, that can take
\* the CTA it has waited longest for.
Issue ==
    LET after(i) == (i + nextCore[Cluster] + 1) % config.perCluster
        able == {i \in 0 .. config.perCluster - 1 :
                    LET c == CoreOf(after(i))
                    IN  pending[c] # <<>> /\ CanIssue(c, Head(pending[c]))}
        chosen == after(Min(able))
    IN
    /\ phase = "issue"
    /\ IF able = {} THEN UNCHANGED <<kernelVars, lastCluster, nextCore, coreVars>>
       ELSE /\ IssueBlock(CoreOf(chosen))
            /\ nextCore' = [nextCore EXCEPT ![Cluster] = chosen]
            /\ lastCluster' = Cluster
            /\ UNCHANGED <<allocated, bound>>
    /\ Goto("allot", at + 1)
    /\ UNCHANGED <<config, uid, hostVars, gpuVars, from, traffic>>

\* decrement_kernel_latency, the end of the cycle, finished_kernel, and the
\* condition of the loop in simulate.
CycleEnds ==
    /\ phase = "allot" /\ at = NCore
    /\ latency' = [k \in Kernel |->
                      IF k \in Range(running) /\ latency[k] > 0 THEN latency[k] - 1 ELSE latency[k]]
    /\ IF finished = <<>> THEN uid' = Null /\ UNCHANGED finished
       ELSE uid' = Head(finished) /\ finished' = Tail(finished)
    /\ IF Active /\ uid' = Null THEN Goto("cores", 0) ELSE Goto("cleanup", 1)
    /\ UNCHANGED <<config, hostVars, running, last, executed, kernelVars, clusterVars, coreVars,
                   traffic>>

\* Every command has been carried out.
Stopped == phase = "stopped" /\ UNCHANGED vars

Step ==
    \/ ParseKernel \/ ParseEnds \/ Launch \/ Simulate \/ Cleanup \/ CleanupEnds
    \/ CoresDone \/ Allot \/ Issue \/ CycleEnds

Next ==
    \/ Step
    \/ \E c \in Core, s \in CtaSlot : CtaExit(c, s)
    \/ Stopped

Spec == Init /\ [][Next]_vars

\* The thread goes on; a CTA on a core runs to its end if cycles go on; and
\* so does the memory traffic of cores that have become empty.
Fairness ==
    /\ WF_vars(Step)
    /\ \A c \in Core, s \in CtaSlot : SF_vars(CtaExit(c, s))
    /\ SF_vars(CoresDone /\ ~traffic')

FairSpec == Spec /\ Fairness

(***************************************************************************)
(* Correctness                                                             *)
(***************************************************************************)
\* The places where a core waits for a CTA of a kernel, and where one runs.
Waiting(k) ==
    {w \in Core \X (1 .. MaxPending) : w[2] \in DOMAIN pending[w[1]] /\ pending[w[1]][w[2]] = k}
Holding(k) == {h \in Core \X CtaSlot : ctas[h[1]][h[2]] = k}

\* Every CTA is handed out once: those allocated are the ones issued and the
\* ones that wait on cores, a kernel counts the contexts it holds on cores,
\* and only kernels that are launched and not retired hold or await any.
CtasExact ==
    /\ \A c \in Core : Len(pending[c]) <= MaxPending
    /\ \A k \in Kernel :
          /\ allocated[k] = nextCta[k] + Cardinality(Waiting(k)) /\ allocated[k] <= ctasOf[k]
          /\ resident[k] = Cardinality(Holding(k))
          /\ Waiting(k) \cup Holding(k) # {} => k \in launched \cap Range(running)
    /\ \A n \in Slot : running[n] # Null => running[n] \in Range(window)

\* No hardware thread of a core belongs to two CTAs, or does not exist; the
\* threads marked as occupied are those of the CTAs on the core
\* (find_available_hwtid, issue_block2core, release_shader_resource_1block).
ThreadsExclusive ==
    \A c \in Core :
       /\ \A s, t \in Live(c) : s # t => Threads(c, s) \cap Threads(c, t) = {}
       /\ UNION {Threads(c, s) : s \in Live(c)} \subseteq 0 .. NThread - 1
       /\ config.concurrent => occupied[c] = UNION {Threads(c, s) : s \in Live(c)}

\* The assertions on the way: select_kernel switches to a kernel only once, a
\* core that can issue has a free context, one that becomes empty is bound to
\* no kernel with CTAs left other than that of the CTA, cleanup finds a kernel.
AssertionsHold ==
    /\ phase = "allot" /\ at < NCore /\ Selects(Here) /\ SelectSlot \notin {last, NoSlot} =>
          running[SelectSlot] \notin executed
    /\ \A c \in Core : pending[c] # <<>> /\ CanIssue(c, Head(pending[c])) =>
          FreeCta(c, Head(pending[c])) # {}
    /\ \A c \in Core, s \in CtaSlot : phase = "cores" /\ Live(c) = {s} /\ bound[c] # ctas[c][s] =>
          ~MoreCtas(bound[c])
    /\ phase = "cleanup" /\ at = 1 => window # <<>>

Abstract == INSTANCE Streams WITH
    status <- [k \in Kernel |-> IF k \in Deleted THEN "retired"
                                ELSE IF k \in launched THEN "running" ELSE "waiting"],
    left <- [k \in Kernel |-> ctasOf[k] - (nextCta[k] - resident[k])]

\* The driver keeps the promise of Streams: launches respect the order of a
\* stream, and cleanup deletes a kernel only after its last CTA has exited.
ImplementsStreams == Abstract!Spec

\* In the end every kernel of the command list has run and been retired.
AllRetired == <>(\A k \in Kernel : k \in Deleted)

\* accel-sim.cc:71, "cleanup finished kernel": what cleanup takes from the
\* window has finished.
OnlyFinishedCleaned ==
    [][\A k \in Range(window) \ Range(window') : k \in launched /\ KernelDone(k)]_vars
=============================================================================
