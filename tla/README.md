# Verification of Accel-MQ-Ramulator

The repository couples the GPU simulator of Accel-Sim with two memory
simulators: a memory partition of the GPU has an HBM backend (the built-in
`dram_t`, or Ramulator2 through `external_wrappers/ramulator2_wrap`) and an HBF
backend, High Bandwidth Flash (the built-in `hbf_t`, or MQSim through
`external_wrappers/mqsim_wrap`). What the repository adds to its upstream
projects is the path between the L2 cache and these backends, and that is where
this project starts: `src/gpu-simulator/gpgpu-sim/src/gpgpu-sim/` (below:
`gpgpu-sim/`) and `src/external_wrappers/`. From there it has grown upwards,
through the L2 to the cores and the launch of kernels.

The simulator is one thread. What makes it hard is that it simulates concurrent
hardware with bounded queues between clock domains: a fetch object travels
through some ten queues, every one of them can be full, counters in several
classes have to follow it, backends answer in any order, several partitions
share one co-simulator, and kernels, CTAs and warps come and go in slots that are
used again. A test run executes one schedule of all that; the models here leave
the schedule open.

## 1. Inventory

| Component | State it keeps | Operations | Interacts with |
|---|---|---|---|
| Memory partition unit (`l2cache.cc`, `memory_partition_unit`, `arbitration_metadata`) | credits, last borrower, two latency queues | `dram_cycle`, `simple_dram_model_cycle`, `set_done` | sub partitions (queues), backends (`mem_backend.h`, callback `set_done`) |
| HBF controller (`hbf.cc`) | link and plane reservations, heap of completions, write buffer with drains, return queue | `full`, `push`, `cycle`, `return_queue_pop` | its partition |
| Ramulator2 backend (`ramulator2_backend.cc`, `ramulator2_wrap.cpp`) | static shared state: outstanding counters and return queues per partition; pending and completions of the wrapper | `full`, `push`, `cycle` (which works in partition 0 only) | all partitions, Ramulator2 (callbacks) |
| MQSim backend (`mqsim_backend.cc`, `mqsim_wrap.cpp`) | the same | the same | all partitions, MQSim (signals) |
| Memory sub partition and L2 (`l2cache.cc`, `gpu-cache.cc`) | ROP queue, four FIFOs, tags, sectors, MSHRs, miss queue, dirty counter, data port | `push`, `pop`, `cache_cycle` | interconnect, its partition |
| Coalescer and sector breakdown (`abstract_hardware_model.cc`, `l2cache.cc`) | none, two rewrites of an access | `memory_coalescing_arch_reduce_and_send`, `breakdown_request_to_sector_requests` | load/store unit, sub partition |
| Backend placement map (`gpu-sim.cc`) | sorted address ranges | `load_mem_backend_map`, `resolve_mem_backend` | every new `mem_fetch` |
| DRAM model and schedulers (`dram.cc`, `dram_sched.cc`) | banks, timing counters, read and write queues | `cycle`, `push`, FR-FCFS `schedule` | its partition |
| GPU top level (`gpu-sim.cc`) | clocks, running kernels, deadlock check | `cycle`, `launch`, `active` | everything |
| Shader core (`shader.cc`, `scoreboard.cc`, `stack.cc`) | warps, pipeline registers, scoreboard, barriers, operand collector, load/store unit | `cycle` and its stages | interconnect, L1 caches |
| Interconnect (`local_interconnect.cc`) | input and output buffers, arbiter | `Push`, `Pop`, `Advance` | clusters, sub partitions |
| Trace front end (`trace_driven.cc`, `trace_parser.cc`, `accel-sim.cc`) | open kernels, streams | kernel launch window, trace decoding | GPU top level |
| MQSim (`src/MQSim`) | event list, transaction queues, mapping, garbage collection | event handlers | MQSim backend |
| Ramulator2 (`src/ramulator2`) | request buffers, bank state | `send`, `tick` | Ramulator2 backend |

`PROJECT.json` lists these and the remaining parts (functional simulation,
address decoding, statistics, power model, scripts) with the reason for each one
that is not modelled.

### What makes each modelled component correct

- **Partition**: each fetch is answered once, to the sub partition that sent
  it, and each writeback vanishes once; a credit is borrowed and returned exactly
  once on every way through the partition; the credits bound the latency queues,
  which have no size; nobody waits forever behind somebody else's full backend.
- **HBF**: the two occupancies `full()` reads follow the heap and the drains
  exactly; a plane is never used twice at once; reads leave in push order if a
  transfer takes a cycle at least; the
  full return queue never locks the write buffer.
- **DRAM**: the scheduler's counters and the row each bank is serving are right
  although requests come and go in any order; no data atom is lost between a
  bank and the pipeline of the data bus; the latency of a column command also
  holds when the bus turns around; everything drains but what the write queue
  holds back.
- **Co-simulation backends**: completions of all partitions are taken by
  partition 0 and must reach their owner; counters are exact; a send is never
  refused; every read is reported.
- **L2**: a miss, its MSHR entry and its fetch on the way are in step; the dirty
  counter is the number of dirty lines; written data stays owed to memory until
  it is written back; a stalled access is always released.
- **Splitting and placement**: each touched sector is requested once and in its
  own line; a map file is accepted exactly when its ranges are disjoint; what is
  read from a backend is written back to it.
- **Kernels and CTAs**: a stream runs its kernels in order, a kernel is retired
  after its last CTA, every CTA is issued once, threads are never shared.
- **Cores**: a register is reserved exactly while it is being written; no warp
  passes a barrier before the others are there; a warp exits only when drained;
  a DEPBAR waits for its copies; every CTA ends.

"hazards" of `PROJECT.json` points at the source lines where these can go wrong,
with the properties that would notice.

## 2. Modules

| Module | Models | Checked by (runs) | Proofs |
|---|---|---|---|
| `MemService` | abstract: each accepted fetch is answered once, or retired if it is a writeback | target of five refinements | |
| `Queues` | what it means for a family of queues to hold each object once | | `Queues_proof` |
| `MemPartition` | one memory partition unit over any two backends | `partition`, `partition_liveness` | `MemPartition_proof` |
| `Hbf` | the HBF controller | `hbf` | `Hbf_proof` |
| `Dram` over `FifoPipeline` | the built-in DRAM channel, its two schedulers, its banks and its data bus | `dram` | `Dram_proof` |
| `CoSimBackend` | either co-simulation backend with its wrapper | `cosim`, `cosim_mqsim_reads` | `Backends_proof` |
| `SubPartition` over `L2Cache` | a sub partition: L2, MSHRs and queues | `l2`, `l2_lockup` | `SubPartition_proof` |
| `RequestSplit` | from a warp's access to sector requests | `placement` | `Backends_proof` |
| `BackendMap` | loading and reading the placement map | `placement` | `Backends_proof` |
| `SectorPlacement` | the two together: where a request, its sectors and its line's writeback go | `placement` | `Backends_proof` |
| `Streams` | abstract: the kernels of a stream run one after the other, each completely | target of `Kernels` | |
| `Kernels` | the launch window, the running kernels, the issue of CTAs to cores and their end | `kernels`, `kernels_lost` | `Kernels_proof` |
| `ShaderCore` | a core: fetch to exit of the warps of its CTAs | `core` | `ShaderCore_proof` |

`MC*.tla` give the constants their values for TLC. An operator whose name ends
in `_Mutant` is a variant of its neighbour with a plausible bug: each property
of a passing run is violated when one of them replaces the original. They are
not part of any specification. They stand next to the original so that the two can
be compared. The type invariant `TypeOK` of a module (`MapTypeOK` of
`BackendMap`) is in its section "Properties", that of `Dram` is `Types` of its proofs; where there is a `_proof` module it is proved there, and the
runs check the properties that say more.

### How the models compose

```
 Kernels --CTAs--> ShaderCore --accesses--> RequestSplit --> SubPartition --(MemService)--> MemPartition
 (Streams)                                       |             (L2Cache)                         |
                                          SectorPlacement                                 (mem_backend.h)
                                                 |                                               |
                                             BackendMap: which backend ------------>  Hbf | Dram | CoSimBackend
```

`MemService` is the joint. `SubPartition` assumes of the memory below it what
`MemService` states (`MemTake`, `MemReply`: any order, one reply for each fetch,
none for a writeback), and `MemPartition` is proved to implement it. In the same
way `MemPartition` assumes a `mem_backend` that behaves like `MemService` with a
`full()` test (`Complete`, `FreeSlot`); `Hbf` and `CoSimBackend` are proved to
implement it and `Dram` is checked to. `SubPartition` is proved to implement it again
towards the cores. `Kernels` is proved to implement `Streams` for windows of at most
two kernels, and finding 3 shows why not for three. `ShaderCore` assumes of the memory that accesses are answered, in any
order, and of the CTA issue that a CTA arrives in a free context; `Kernels`
assumes of a core that a CTA's threads exit at some time.

### MemPartition and the code

`dram_cycle()` is straight-line code, so its phases are actions that a program
counter (`phase`) puts in the order of the code:

| Action | Code |
|---|---|
| `PopHBM`, `PopHBF` | the return queues are popped towards the dram-to-L2 queue, if it has room |
| `Complete`, `FreeSlot` | `m_dram->cycle()`, `m_hbf->cycle()`: the backend finishes fetches in any order and number |
| `Arbitrate` | the round-robin loop: first sub partition with a fetch and a credit; a full backend ends the loop |
| `PushHBM`, `PushHBF` | the front of a latency queue goes to its backend when its time has come |
| `L2Push`, `L2Pop` | the L2 between two calls |
| `CoreTick` | the core clock, against which latencies are counted |

The variable `simple`, chosen in `Init`, selects `simple_dram_model_cycle()`, where
HBM is the latency queue alone. Room in a backend (`used`) is kept apart from the fetches it holds,
because the backends differ in when they free it: HBF frees a write's entry long
after its acknowledgement.

### Hbf and the code

`Push` reserves plane and link when a fetch comes in; `CoreTick` brings all times
one cycle closer (the code keeps absolute times and compares; a time in the past
is 0); `DrainWrites` and `CompleteOne`...`EndCycle` are the two loops of
`cycle()`. The two heaps are sorted sequences where an element may go anywhere
among those of equal time, as in a `std::priority_queue`. Link time is counted in
bytes, which is exact for the fractional `m_next_link_time`.

`PushOrder` says that reads leave in the order in which they were pushed. It holds
if a transfer takes at least one cycle (`hbf_subpage_bytes >=
hbf_channel_bytes_per_cycle`, equal by default), and says so: with a sub-page of 1
byte over a link of 2 bytes a cycle TLC finds two reads of different planes ready in
one cycle after two pushes, and the heap may return the second first. The L2 takes
replies in any order, so that is a limit of the property and no finding.

### CoSimBackend and the code

`Push` and `PopReturn` are those of any partition. The phases are those of
partition 0's `cycle()`: `run`, `inject`, `settle` and `poll`. The wrappers differ in when the
simulator runs (`Injecting`, `EngineRuns`) and in what is called when a read is
finished (`CompletionHandlers`). The simulators are external. Which wrapper it is
is a variable chosen in `Init`, so one run covers both.

### Dram and the code

`cycle()` of `dram_t` is a sequence of phases again: `DataBus` takes the oldest
entry of `rwq`, the `fifo_pipeline` of the data bus, and answers a fetch whose
last atom has arrived; `ScheduleFifo` or `AddRequests` and one `ScheduleBank` per
bank give the free banks a request; then commands go out, a column command
(read or write) and a row command (activate or precharge), on two buses
(`DualColumn`, `DualRow`) or one (`SingleBus`); `Tick` counts the timers down.
Between two cycles the partition pops (`PopReply`) and pushes (`Push`). Banks are
visited in the turn of `prio`, one action per bank.

- FR-FCFS serves the requests to the row a bank has open first; the code keeps an
  iterator into a list of a row's requests (`m_last_row`), here the row.
- With a write queue of their own, writes are served when `high` of them wait,
  until `low` are left (`SwitchedMode`). Fewer than `high` writes stay for ever
  when nothing else comes, and each keeps a credit of its partition: `Drains`
  says exactly this.
- The comment at `dram.cc:434`, "issue only one row/column command", holds per
  bank: a row command at one bank may be followed by a column command at a later
  bank in the same cycle. `SingleBus` does what the code does.
- `gpu-sim.cc:383` says of the scheduler's queue size "0 = unlimited (default)";
  `full()` agrees, but `add_req` asserts `m_num_pending < size`, which 0 never
  satisfies. `SchedQ` is assumed positive.

`FifoPipeline` has the operators of `delayqueue.h`: a minimum length is a padding
with bubbles, and the latency of a direction is the length the pipeline is set
to, which `ColumnLatency` checks across changes of the direction.

### SubPartition and the code

`cache_cycle()` has five phases, `Reply`, `Fill`, `Miss`, `Access`, `Rop`. Between
two calls the interconnect pushes (`Arrive`, guarded by `full(SECTOR_CHUNCK_SIZE)`)
and pops (`IcntPop`) and the memory works (`MemTake`, `MemReply`). `Access` is one of
`Hit`, `WriteMiss`, `ReadMiss` or a reservation failure that leaves the fetch at
the head. The modelled policy is the one of the tested GPUs' L2: sectored,
write-back, allocate on miss, lazy fetch on read, LRU. The model has one set,
since sets share only the bounded tables. `L2Cache` holds the operations on a line.

Things that surprise when reading it: an MSHR entry is per sector, not per line;
a merged miss sends nothing and keeps the index of the first; a read miss asks
for two free entries of the miss queue (fetch and writeback), a write miss for
one. A line can be evicted while a fetch for one of its sectors is under way if
the sector has been written meanwhile (`gpu-cache.cc:439`): the late fill then
goes, by its saved index, to whatever line has the way now, the dirty counter
drifts and a dirty line may become clean. That takes a read and a write of one
sector at the same time, which the history variable `raced` remembers;
`DirtyCount` and `DirtyKept` are claimed as long as it is false, `MshrExact`,
the refinement and `EventuallyAnswered` without condition.

### RequestSplit, BackendMap and SectorPlacement

The first two are algorithms with an order of steps, so they are small state
machines whose initial states enumerate the inputs. In `RequestSplit` addresses
are counted in 32-byte sectors. In `BackendMap` addresses are unsigned integers
of any width `Top`, with `base + size` computed modulo `Top`, and `std::sort` is
any permutation that its comparison allows. `SectorPlacement` extends the one and
instantiates the other: after a file is loaded, requests are split, the request is
placed by its address, its sectors take over the backend, and the writeback of
the line is placed by its own address.

- With segments of 64 or 128 bytes the coalescer moves the address to the half
  that is used and keeps the mask of the whole line; the last branch of the
  breakdown (`l2cache.cc:921`) adds the sector's offset in the line once more, so
  a sector of the next line may be requested. `SmallSegmentsRightLine` holds
  for the 32-byte segments of the tested configurations only.
- `LineAtOneBackend` needs both its conditions: no range of the map divides a
  line, and the request is in its line. Otherwise a line may be read from one backend
  and written back to the other.
- For 128- and 64-byte requests the breakdown builds `mask` up over its loop
  (`l2cache.cc:876-880`), so later sector requests carry the byte masks of earlier
  ones. (Read, not checked: no property here is about the byte mask of a request.)

### Kernels and the code

The program counter `phase` follows `accel_sim_framework::simulation_loop()`:
`ParseKernel` fills the window, `Launch` gives each kernel whose stream is free to
`gpgpu_sim::launch`, `Simulate` runs cycles until a kernel finishes, `Cleanup`
retires it. A cycle is `CoresDone` (clusters without work), `Allot` for each core
of the cluster whose turn it is (`select_kernel`, up to `MaxPending` CTAs) and
`Issue` (`issue_block2core`: a free context, the first range of free threads).
`CtaExit` is what a core does when the last warp of a CTA exits.

- A core's `m_kernel` may point to a deleted kernel (`shader.cc:4557`, without
  concurrent kernels). The memory may keep its contents or hold another kernel;
  the model leaves both open.
- `find_available_hwtid` tries the multiples of the CTA's size below the number of
  threads, and does not ask whether the CTA ends below it (`gpu-sim.cc:2118`). If the
  size does not divide that number, the last range may reach beyond it: on a core of
  1536 threads with a CTA of 512 at 0, one of 1024 passes the count of occupied threads
  and is placed at 1024, with warps 32 to 63 of a core that has 48. (TLC finds this
  in three cycles when the run counts such threads in units of 512; past
  `MAX_THREAD_PER_SM` the bitset's `test` throws, which the model leaves out.) The sizes
  of the run `kernels` divide the threads; `ThreadsCorrect` proves `ThreadsExclusive`
  under that assumption (`SizesFit`), which only concurrent kernels need: without them
  a context's number times the size gives its threads.

### ShaderCore and the code

One action per stage and warp: `Fetch` and `InstructionArrives`, `Decode`,
`Issue` (collision with the scoreboard, barriers, the groups of asynchronous copies),
`Writeback` of what needs no memory, `ToDispatch`, `Access`/`AccessHits` and `Leave`
of the load/store unit, `Answer` of the memory, `BarrierExit` and `Exit`. Which warp
a scheduler prefers and how long anything takes is open, so the order of actions
covers every scheduler, operand collector and memory.

- Two LDGSTS under way with one pc and one first address share a counter, and
  the answer marks the first of them only (`shader.cc:1878`): a DEPBAR would wait for
  ever, or let its warp go early when the answer to a copy that nobody awaits, left in flight
  by the slot's last CTA, marks a new copy with its key. The programs checked give each
  copy of a trace a key of its own, and the theorem about copies assumes it (`OwnKeys`).
- A DEPBAR with a larger immediate than groups were closed makes `end_group`
  wrap around; one whose `start_id` is 0 awaits also the group that is still open.
- A warp may exit with a copy in flight that no DEPBAR awaits; its answer may
  come when the slot has another CTA. The program `copies` contains this.
- A memory barrier waits for the scoreboard, not for `m_stores_outstanding`.
- `reinit` resets the warps below `end_thread / warp_size` only.

## 3. Runs

| Run | Instance | Distinct states | Shows |
|---|---|---|---|
| `partition` | 4 fetches, 2 sub partitions, queues and slots of 1 or 2, both cycle functions | 80 685 | placement, credits conserved, in-flight bound, implements `MemService` |
| `partition_liveness` | 3 fetches, one sub partition can keep HBM busy | 10 674 | every fetch leaves the partition |
| `hbf` | 3 reads, write, writeback on 2 planes; 2 read slots, 2 buffer entries, return queue of 1 | 29 968 | exact counters, plane and link order, refinement, completion, the buffer drains |
| `dram` | 4 fetches on 2 banks, 3 combinations of scheduler, write queue and buses | 89 947 | exact scheduler, atoms conserved, column latency, refinement, everything drains |
| `cosim` | 4 fetches of 2 partitions, 2 outstanding each, both wrappers | 1 340 | exact counters, refinement, answers |
| `l2` | read, atomic, partial write of one sector and a writeback of another block; 1 way | 47 095 | exact MSHRs and dirty counter, dirty data kept, refinement, answers |
| `placement` | all files of up to 3 lines over 5 addresses; 2 lines of memory, 3 segment sizes | 497 661 | accepted exactly when acceptable, disjoint, resolves as written, every touched sector asked for once and in its line, a line stays at one backend |
| `kernels` | 4 kernels of 2 streams, 2 cores of 4 threads and 3 CTA contexts, 4 configurations | 26 784 | CTAs and threads exact, assertions, streams in order, all kernels retired |
| `core` | 2 warps, a program of copies and barriers for 2 CTAs, one of loads, stores and a memory barrier | 41 231 | scoreboard and counters exact, barriers, drained exits, awaited copies, every CTA ends |
| `cosim_mqsim_reads` | as `cosim` | violated | finding 1 |
| `l2_lockup` | three reads of one sector and a write that evicts it | violated | finding 2 |
| `kernels_lost` | 3 kernels of one stream, a window of 3 | violated | finding 3 |

**Why the bounds are enough to be interesting.** Every queue has one or two
entries, so every "full" branch is taken in combination with every other. There
are more fetches than credits, slots or ways, two sub partitions or partitions so
that round robin and routing matter, and fetches are allocated again after they
were deleted, so that behaviours are unbounded although the fetches are few. In
`partition` the shared limit is 1 with two private credits, so private and
shared credits mix. `DirtyWidth` is larger than the number of lines, as 2^32 is.
In `hbf` the times (read 2, program 3, transfer 1.5 cycles) do not divide each
other. In `dram` one bank has a row conflict and a row hit, the other a fetch of
two atoms, and the read and the write latency differ, so that the pipeline is cut and
padded. Three lines in a map file are the fewest for which comparing neighbours
could miss an overlap. In `kernels` the sizes 1, 2 and 4 of CTAs compete for four
threads, one kernel fills a core alone, a core holds fewer CTAs than the two it may be allotted
(`MaxPending`, 4 in the code: more than a kernel of the run has left for a core)
and a stream's second kernel comes while the first runs. In `core` the warps of a
CTA run different traces, an instruction has two accesses or none, and the
second CTA reuses the slots of the first. `RopBound` (one fetch in the ROP queue
of the L2) is the only bound on a queue the code leaves unbounded, besides those
the number of fetches gives.

**Deadlock** is checked in all runs but `placement`, where the loader aborts on a
bad file. `Kernels` and `ShaderCore` have an explicit step for the regular end
(`Stopped`), so a stop anywhere else would be reported.

`l2` takes two minutes, `partition_liveness` and `core` one and a half, all other
runs take seconds.

### Fairness

- `DramCycle`, `Cycle`, `CacheCycle` are weakly fair: `gpgpu_sim::cycle()` calls
  them for ever while fetches are under way.
- The core clock, the consumers of replies (`L2Pop`, `PopReturn`, `PopReply`,
  `IcntPop`) and the producers between two calls are strongly fair: they are clock
  domains of their own that run between two cycles, which enable and disable them.
- `Complete`, `FreeSlot`, `FinishRead`, `MemReply` are strongly fair for each
  fetch: a backend's timing is finite, and it works off its oldest fetches.
- In `CoSimBackend`, `InjectHead` is strongly fair: a simulator that refuses a
  request is offered it again in each tick and takes it once its buffer drains.
- The fixed ROP latency passes (`Rop`).
- In `Kernels` the thread goes on (`Step` weakly fair), a CTA on a core comes to
  its end (which `ShaderCore` shows in `CtasComplete`), and the memory traffic of
  an empty core ends.
- In `ShaderCore` `Work(w)` and `Fetches(w)` are strongly fair for each warp: fetch
  goes round the warps, schedulers and units take what is ready, and the memory
  answers. The stages that serve all warps are weakly fair.

No fairness is assumed of anything that sends fetches. `Drains` of `Dram` is the
one property with an assumption of its own: it is about behaviours in which no
more fetches come.

## 4. Findings

1. **A finished MQSim read is never reported** (`mqsim_wrap.cpp:290`).
   `tx_serviced_cb` is defined and connected to no signal, against the comment at
   line 668 of that file. Under `hbf_use_mqsim` a read from HBF never returns.
2. **A reservation nobody fills** (`gpu-cache.cc:1364`). A miss that merges into an
   entry which is only being drained, after its line was evicted, reserves a line
   and sends no fetch. A fetch that needs the way fails in every cycle. In a set
   of several ways it takes as many of these to lock it up; the run has one way.
   `EventuallyAnswered` of the run `l2` says that there is no other cause among
   the fetches modelled, whose addresses are in their sectors. A 64-byte access of a
   constant cache, which is not modelled, is another: its two sector requests carry
   the same address (`l2cache.cc:893-909`), so when both miss the second merges with
   the first, reserves its own sector and gets no fill of its own.
3. **Cleanup deletes kernels that were never launched** (`accel-sim.cc:139`). Its
   condition is true for every kernel of the window once the GPU is inactive, and it
   erases while it counts on. With a window of three kernels of one stream the
   third is lost. With two, as in the run `kernels`, the one erased is always the
   finished one: `FinishedCorrect` proves `OnlyFinishedCleaned`, the property this run
   violates, for every window of at most two.

Observations without a run of their own are in the sections of the modules
above (CTAs beyond the end of a core, a sector of the next line under large segments, a fill after an eviction,
writes below the watermark, shared keys of copies).

## 5. Proofs

TLAPS checks these for every value of the constants, under the assumptions named
in the modules: finite sets of fetches, ways and warps, sizes that are natural numbers, and

- `CreditAssumption`, the constructor's `assert(m_shared_credit_limit >= 0)`;
- that the L2's own writebacks are no fetches of the cores (`SubPartitionAssumption`);
- that a trace ends with its EXIT, that only loads and ALU instructions write
  registers, and that a DEPBAR names no more groups than were formed before it
  (`IsTrace` of `ShaderCore`).

A theorem that needs more says so in its `ASSUME`. `Backends_proof` has the proofs
about two components, the map that chooses the backend of a request and the
co-simulated backends it chooses from; the names of `BackendMap` begin with `Map` so
that both can be extended.

| Theorem | Statement |
|---|---|
| `MemPartition_proof!TypeCorrect` | `Spec => []TypeOK`: no queue or slot ever overflows |
| `MemPartition_proof!PlacementCorrect` | `Spec => []Placement` |
| `MemPartition_proof!CreditsCorrect` | `Spec => [](CreditsAccounted /\ NoCreditOverdraw)` |
| `MemPartition_proof!InFlightBoundedCorrect` | `Spec => []InFlightBounded` |
| `MemPartition_proof!Refinement` | `Spec => ImplementsService` |
| `Backends_proof!TypeCorrect` | `Spec => []TypeOK`: no partition exceeds its outstanding limit |
| `Backends_proof!PlacementCorrect` | `Spec => []Placement` |
| `Backends_proof!OutstandingCorrect` | `Spec => []OutstandingExact` |
| `Backends_proof!SendAcceptedCorrect` | `Spec => []SendAccepted`, if `Partition` is finite and `MaxPending >= Cardinality(Partition) * MaxOutstanding` |
| `Backends_proof!Refinement` | `Spec => ImplementsService` |
| `Hbf_proof!TypeCorrect` | `Spec => []TypeOK`: reads, write buffer and return queue keep their sizes |
| `Hbf_proof!PlacementCorrect` | `Spec => []Placement` |
| `Hbf_proof!SlotsCorrect` | `Spec => []SlotsExact` |
| `Hbf_proof!PushOrderCorrect` | `Spec => PushOrder`: reads leave in push order if `Subpage >= Bandwidth`, a condition `PushOrder` contains |
| `Hbf_proof!OneProgramCorrect` | `Spec => []OneProgramAtATime` |
| `Hbf_proof!Refinement` | `Spec => ImplementsService` |
| `Dram_proof!TypeCorrect` | `Spec => []Types` |
| `Dram_proof!SchedulerCorrect` | `Spec => []SchedulerExact` |
| `Dram_proof!AtomsCorrect` | `Spec => []AtomsConserved` |
| `Dram_proof!LatencyCorrect` | `Spec => ColumnLatency` |
| `Dram_proof!Refinement` | `Spec => ImplementsService` |
| `SubPartition_proof!Invariance` | `Spec => []Inv`, see below |
| `SubPartition_proof!MshrCorrect` | `Spec => []MshrExact` |
| `SubPartition_proof!Refinement` | `Spec => ImplementsService` |
| `SubPartition_proof!DirtyCountCorrect` | `Spec => []DirtyCount` |
| `SubPartition_proof!DirtyKeptCorrect` | `Spec => DirtyKept` |
| `Kernels_proof!Invariance`, `TypeCorrect` | `Spec => []Inv`, `Spec => []TypeOK`, see below |
| `Kernels_proof!CtasCorrect` | `Spec => []CtasExact` |
| `Kernels_proof!AssertionsCorrect` | `Spec => []AssertionsHold` |
| `Kernels_proof!ThreadsCorrect` | `Spec => []ThreadsExclusive`, if CTA sizes divide `NThread` or kernels are never concurrent (`SizesFit`) |
| `Kernels_proof!Refinement` | `Spec => ImplementsStreams`, if at most two kernels are concurrent (`AtMostTwo`) |
| `Kernels_proof!FinishedCorrect` | `Spec => []OnlyFinishedCleaned`, under `AtMostTwo` |
| `ShaderCore_proof!Invariance` | `Spec => []Inv`, see below |
| `ShaderCore_proof!PipelineCorrect` | `Spec => []PipelineExact` |
| `ShaderCore_proof!BarrierOrderCorrect` | `Spec => []BarrierOrder` |
| `ShaderCore_proof!ExitsDrainedCorrect` | `Spec => []ExitsDrained` |
| `ShaderCore_proof!CopiesCorrect` | `Spec => []CopiesAwaited`, if the copies of a trace have different keys (`OwnKeys`) |
| `Backends_proof!MapTypeCorrect` | `MapSpec => []MapTypeOK` |
| `Backends_proof!DisjointCorrect` | `MapSpec => []Disjoint` |
| `Backends_proof!AcceptsCorrect` | `MapSpec => []AcceptsExactly` |
| `Backends_proof!ResolveCorrect` | `MapSpec => []ResolvesAsWritten` |
| `Backends_proof!OneMatch` | an address is in at most one range of disjoint ranges |
| `Backends_proof!LoadsMap` | `PlacementSpec => MapSpec`: `SectorPlacement` loads the map as `BackendMap` does |
| `Backends_proof!SectorsCorrect` | `PlacementSpec => []SectorsExact` |
| `Backends_proof!SmallSegmentsCorrect` | `PlacementSpec => []SmallSegmentsRightLine` |
| `Backends_proof!LineCorrect` | `PlacementSpec => []LineAtOneBackend` |

`Queues_proof` has the lemmas they share: what a push and a pop do to
a queue without repetitions, to a queue that holds all objects of one status
(`Holds`: `Joins`, `Leaves`, `Stays`) and to a family of queues (`HoldsExactly`:
`Enqueue`, `Dequeue`, `Elsewhere`).

**MemPartition.** `TypeOK` is inductive: a reply is appended only when
`DramL2Full` is false, and a push happens only when the backend is asked once more
(`MayPush`). `Placement` is inductive relative to it: `Enqueue` and `Dequeue` of
`Queues_proof` say what a push and a pop do to `HoldsExactly`, and
`OtherPlaces` that the queues whose status is not involved keep holding what they
held. `CreditsAccounted` is inductive relative to both: a fetch enters the set
`InFlight` exactly when a credit is borrowed and leaves it when one is returned.
The second conjunct, that a private credit out means a fetch of that sub partition
in flight, is the strengthening the induction needs: it maps the private credits
one to one into the fetches in flight, so that they are never more, which leaves
`shared >= 0`; and when a fetch leaves a sub partition whose private credit is not
out, all private credits belong to other fetches, so there is a shared one to give
back. `InFlightBounded` adds the invariant `SharedWithinLimit`. The
refinement needs `NoWritebackReturns`, that no writeback is in a return queue:
otherwise a step would answer what the service must retire. Its proof maps each
status to a state of the service and each action to one `Accept`, `Answer`,
`Take`, `Retire` or a stutter.

**CoSimBackend.** `TypeOK` contains `outstanding[p] <= MaxOutstanding`, which
`full()` keeps. `Placement` is inductive by the lemmas on `Holds` and, for the
return queues, `HoldsExactly`. `OutstandingExact` follows by the cardinality of
the set of a partition's unpolled fetches, to which every action adds one, from
which it takes one, or which it leaves alone. For `SendAccepted` the fetches of
each partition are numbered from 1 to `outstanding[p]`, which maps those in
`pending` one to one into `Partition \X 1 .. MaxOutstanding`; while some partition
is not full that map is not onto. The assumption is what the configuration has
to satisfy: the defaults, 2^20 pending requests and 2^15 per partition, suffice for
up to 32 partitions, and the code compares the two nowhere.

**Hbf.** `TypeOK` is inductive; that the heap stays a sequence of fetches rests on
lemmas about `InsertAt` (`Inserted`, `InsertedRange`) and about places in a sequence.
`Placement` is inductive by these and the lemmas on `Holds`. `SlotsExact` is
inductive relative to both, again over the cardinality of a set. `PushOrder` needs two
invariants. By `LinkCovers` the link is reserved up to the end of every read in the heap,
`ready[f] * Bandwidth < linkFree + Bandwidth`: a push reserves the link past
everything reserved before, and a cycle moves both sides by `Bandwidth` or clamps them at
0 (`OneCycle`). By `Timed` the heap is sorted by ready time, which an insertion among
the elements of equal time keeps and the clock, being monotone, too. A transfer of a cycle
or more then makes a pushed read ready strictly later than those in the heap
(`CyclesOrder`, `PushedLater`), so that it is inserted behind them; from there on the
order is a fact about queues (`Before` and its lemmas): a read moves from the head of the heap
to the tail of the return queue, a writeback leaves from between, a reply leaves from the
front. `OneProgramAtATime`
needs `PlanesInv`: the heap is sorted (`Sorted`), a plane is reserved up to the end of
its last write (`PlaneCovers`), and two writes of a plane are `TProg` apart unless the
earlier one is due (`Apart`), since the clock clamps what is due at 0.

**Dram.** Nothing in `dram_t` says where a request is: it is a pointer in a list, at a
bank, in the data bus or in the return queue, and leaves the last bank before its data
has arrived. The invariant says it with a witness: `DramInv` is that there is a function
`w` from fetches to places (none, `mrqq`, a list of the scheduler, a bank, the return
queue) with `Inv(w)`. Each queue and bank holds exactly the fetches placed there, once
(`Placed`); no more atoms have arrived than were sent, nor sent than there are, and where a
fetch is restricts which (`Counts`): one that waits has sent none, one in the return
queue has all. `RowsOpen`, that a bank's row stays open while its request's atoms go
out, is what the row commands' guards keep. `BusInv` ties the data bus to the
counters: the atoms of a fetch in the pipeline are those sent and not arrived, and the
pipeline is as long as its direction asks, through every change of direction. `Books`
(the scheduler's counters are the numbers of fetches placed in its lists), `RowsHeld` (a row that
is served has a request) and `Room` (what `full()` lets in fits, also when one
request waits in `mrqq` between the two) are about the schedulers. The lists are taken apart
by position (`RemovedAt` and the lemmas around it), so that no
induction over their length is needed. Each action has one lemma, `...Keeps`, that says two things at
once (`Kept`): `Inv` holds again for some new placement, and seen from the partition at
most one fetch has moved, as `MemService` allows (`Moved`). The first gives `SchedulerExact`
and `AtomsConserved`, the second the refinement, and a column command's effect on the pipeline
`ColumnLatency`. TLC checked `DramInv` on the instance of the run `dram` first.

**SubPartition.** `Inv` follows the two sides of the L2. Towards the cores a fetch is in
one queue or in the MSHR entry of its own sector (`CoreOnce`); towards the memory it
is in one queue among the L2's own writebacks (`MemOnce`). A read that misses is in
both at once, and `Entries` is what ties them: the fetches under way for a sector are
none if its entry is ready or absent and otherwise exactly the head of the entry, and
the fetches under way are those with a saved way. `CacheOK` says that a saved way has
been allocated, so that a late fill writes a line that exists. `MshrExact` follows from
these and `Bounds`. The refinement maps a fetch to one of the service's states by the
side of the cores alone; merged misses need `CoreOnce`, without which the answer to an
entry's head could repeat one given before. Whether a line is dirty is not in `Inv`,
and could not be: a late fill may hit a line that another block has taken over.
`CountInv` says what holds until a sector is read and written at the same time
(`raced`): no address has reads and writes waiting together (`OneKind`), so a fetch
under way still finds its own block and its own sector reserved (`PendingReserved`), so
a fill never changes how many lines are modified (`Counted`). `DirtyKept` needs the
first two.

**Kernels.** `Inv` has the types (`CoreTypes`, `DriverTypes`) and five parts, each there
because another one needs it. `CountsOK`, the counters as cardinalities of the CTAs that
wait and that are on cores, is what `CtasExact` is about, and needs `RunningOK`: a kernel that is
not running hands out nothing. For that a launched kernel must be in one slot until its
last CTA has exited, which needs `BoundOK` where cores keep a pointer to a kernel that is
gone: it may name a kernel with CTAs left only if that is the one in the window. That
in turn needs `WindowOK`: a window holds the youngest kernels, in order. `StreamsOK` is the part that holds
for windows of at most two: the busy streams are those of the launched kernels, one
each, and the first kernel of the window is launched whenever cleanup can delete it.
The proof shows where three differ: in cleanup, when the GPU is idle, the code looks past
the first kernel only if there is a third. Three more invariants rest on `Inv`. The
assertions need `SelectOK`: what `select_kernel` has taken before is the last it took
or has no CTAs left. Threads need `Booked` with concurrent kernels (the marked threads are
those of the CTAs, which share none) and `Aligned` without (contexts are numbered
from 0 below `maxCta`, as `CtasExact` keeps a core with one kernel at a time). A
free range of threads ends within the core because the last multiple of a divisor
leaves room for the divisor (`RoomAtTheEnd`). The refinement maps the driver to the launched, ended and
retired kernels of `Streams`; only `Launch`, `CtaExit` and `Cleanup` change them.

**ShaderCore.** An instruction is in the buffer, on its way or done, and several counters
have to agree on which. `WarpOK` says it for each warp: the buffer holds the positions
before the trace's (`FrontOK`), each stage holds instructions of its kind that were
issued (`PlacesOK`), the scoreboard holds exactly the destinations of what is on its
way and the pending writes of a load are the accesses it is owed, sent or not
(`RegistersOK`), and `inPipe` and `stores` are the sizes of what they count
(`CountersOK`). Places and registers are stated as operators over values
(`Places`, `Registers`), with a lemma for each thing that can happen to an instruction:
issued, passed on, sent, answered, done. So each action proves one such step for its own
warp, and `Untouched` for the others. `CompletedOK` is the strengthening that exits
need: when a warp's slot gets the next CTA, only copies may still be answered, and a
copy writes no register. `BarrierOrder` is not inductive, because it compares the warps
outside the barrier only: `BarriersOK` adds that those at the barrier are exactly one ahead of the
others, so a release brings all of them level, and that a complete warp is ahead of
none, which rests on a trace not ending with a barrier. That warps exit at all while others wait is
in the second of them. `CopiesAwaited` needs `CopyInv` besides `Inv`. The counter of a
copy's key is what the copy owes (`Counted`); an awaited copy owes nothing in flight before it is sent or
after its warp exits (`InTime`), since a trace ends with no DEPBAR; the key of an
awaited copy that owes something is in the buffer of the group it was issued in
(`GroupsOK`); and what the DEPBARs passed so far await owes nothing (`AwaitsOK`), where the
DEPBAR a warp is waiting at is not passed yet. `unset_depbar` removes the first copy with a
key, so the third part fails for two copies with one key: hence `OwnKeys`. Without it
`CopiesAwaited` is false: with `k1` for `k2` in the program `copies` TLC violates it.

**BackendMap.** The inductive invariant `Inv` says that kept ranges are not empty
(`Nonempty`), that the ranges compared so far follow each other (`Chained`) and
where the index of the loop is (`IndexOK`). A successful comparison extends
`Chained` by one because a range between two others is not empty: that is why
comparing neighbours is enough. `AcceptsExactly` and `ResolvesAsWritten` are about the
lines of the file, which the sort has moved: `FileInv` adds where each range comes
from, while loading (`OriginLoad`) by position and after the sort (`OriginSorted`) by a permutation, that the ranges are
`Sorted` by the comparison of the code, and that an abort had a reason (`Refused`). For the
last one: two lines of equal base both are not empty, so they overlap, whichever comes first.

**SectorPlacement.** `SectorInv` says which requests there are (`RequestOf`): the whole
line with the mask of what is touched, a block that covers what is touched and is no
larger than the segment, or half a line without a mask. The coalescer finds the segment
from any of the sectors it holds (`StartCovers`), and halving keeps what is touched
(`HalfCovers`). `BreaksDown` then says for each kind of request what the sub partition
asks for: the ranks of a finite set of numbers are 0, 1, ... without gaps (`NthOf`), so
there is one request for each sector wanted. `LineAtOneBackend` rests on `Scaled`,
that rounding an address down to the map's units keeps its order with respect to a whole
number of units: a range that divides no line holds all of a line or nothing of it
(`LinePlaced`).

**Only model-checked**: all liveness (`EventuallyAnswered`, `EventuallyServed`,
`EventuallyCompleted`, `BufferDrains`, `Drains`, `AllRetired`, `CtasComplete`), as the
prover handles neither fairness nor `ENABLED`, and the three violations, which are
counterexamples. Every invariant and every safety property of a passing run is proved.

No module here has a `RECURSIVE` operator.

## 6. What is not modelled, and what is abstracted

- Data: a fetch is a model value with a kind, an owner and a backend. Statistics,
  latency accounting and traces are left out; nothing reads them back.
- The partition of an address, the plane of a page (`hbf_hash32`), bank and row of
  a fetch and its backend are constant functions.
- The L2: one set, one policy; copy engine, flush and invalidate, textures, the
  64-byte accesses of constant caches and the other write and allocation policies
  are left out. The MSHR is keyed by block and sector, which is the address of a
  fetch in units of a sector (`mshr_addr`, `gpu-cache.h:819`) for all fetches but
  those two of a constant-cache access (finding 2).
- The core: operand collectors, shared memory and its bank conflicts, the L1 caches,
  atomics and the SIMT stack, which a trace-driven core does not use.
- The GPU top level: clock domains, `deadlock_check`, checkpoints.
- The backends' start-up (`dlopen`, XML, YAML), and the simulators behind them.
- The clocks: the DRAM, L2 and core clocks are interleaved freely, which covers
  every ratio of frequencies.
- MQSim and Ramulator2 are complete programs of their own, used here as vendored
  simulators; the models take from them what the wrappers rely on. The functional
  simulator (`cuda-sim`), the CUDA runtime library, the power model and the debugging
  tools inherited from GPGPU-Sim make up most of the lines of the repository; the
  trace-driven flow of this repository does not run them, or they are instruction
  semantics without control to check.
- Whatever else `PROJECT.json` lists as `not_modelled`.

Hazards without a property, each with its reason in `PROJECT.json`: a wrapping
`hbf_addr_range` (`gpu-sim.h:512`), the L2's own writebacks, which `busy()` does
not see (`l2cache.cc:864`), a shared credit limit that comes out as 0 (`l2cache.cc:144`), which
`InFlightBounded` excepts, and the late fill of a line that was evicted
(`gpu-cache.cc:439`), where the code does go wrong and `DirtyCount` and `DirtyKept` end
(`raced`).

## 7. Plan

Done, with proofs: `Queues`, `MemService`, `MemPartition`, `CoSimBackend`, `Hbf`, `Dram` over
`FifoPipeline`, `BackendMap`, `SubPartition` over `L2Cache`, `RequestSplit` and
`SectorPlacement`, `Kernels` over `Streams`, `ShaderCore`.

Next, in this order:

1. **Composition** of `SubPartition` and `MemPartition`: the end-to-end service, and
   the end of a kernel with writebacks under way.
2. **Interconnect** (`local_interconnect.cc`): its arbiter and buffers between
   `ShaderCore` and `SubPartition`.
3. **L1 caches** with the policies the L2 does not have.
4. **MQSim**: event order, transaction queues, garbage collection against user
   writes; then **Ramulator2**'s controller.

Theorems to prove next: that of the composition, from the refinements of its two parts.

## Running

```
tlc -config MemPartition.cfg MCMemPartition.tla
tlapm MemPartition_proof.tla
```
`PROJECT.json` names the module and the configuration of every run.
