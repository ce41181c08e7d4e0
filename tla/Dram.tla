-------------------------------- MODULE Dram --------------------------------
(***************************************************************************)
(* dram_t (dram.cc) and its FR-FCFS scheduler (dram_sched.cc): one HBM     *)
(* channel.  Fetches wait in the scheduler, reads and (with a separate     *)
(* write queue) writes apart; a free bank takes one at a time, opens its   *)
(* row and moves its data in atoms through the pipeline of the data bus,   *)
(* under the timing counters of the bank, its group and the channel.       *)
(*                                                                         *)
(* cycle() is sequential code.  The variable "phase" is its program        *)
(* counter; each phase is one action.  Between two cycles the memory       *)
(* partition pops a reply and pushes a fetch, at most one of each.         *)
(***************************************************************************)
EXTENDS Integers, Sequences, FiniteSets, Functions, SequencesExt

CONSTANTS
    Fetch,          \* the mem_fetch objects (a deleted one is allocated again)
    None,           \* a null pointer: no request, no row, a bubble
    kindOf,         \* "read", "write" or "wrbk" (L1_WRBK_ACC, L2_WRBK_ACC)
    bankOf, rowOf,  \* the bank (after hashing) and the row of a fetch
    atomsOf,        \* its data in dram_atom_size units
    NBank, NGroup,  \* nbk, nbkgrp
    CL, WL,         \* column and write latency
    Delay,          \* what each timing counter is set to
    SchedQ,         \* gpgpu_frfcfs_dram_sched_queue_size
    WriteQ,         \* gpgpu_frfcfs_dram_write_queue_size
    High, Low,      \* write_high_watermark, write_low_watermark
    RetQ,           \* gpgpu_dram_return_queue_size
    Configs         \* the combinations of options a run may start with

Bank == 0 .. NBank - 1
Group == 0 .. NGroup - 1
Row == {rowOf[f] : f \in Fetch}
MrqQ == 2           \* the capacity of mrqq, in the constructor of dram_t

ASSUME DramAssumption ==
    /\ IsFiniteSet(Fetch) /\ None \notin Fetch /\ None \notin Row
    /\ kindOf \in [Fetch -> {"read", "write", "wrbk"}]
    /\ NBank \in Nat \ {0} /\ NGroup \in 1 .. NBank /\ NBank % NGroup = 0
    /\ bankOf \in [Fetch -> Bank]
    /\ rowOf \in [Fetch -> Nat]
    /\ atomsOf \in [Fetch -> Nat \ {0}]
    /\ {CL, WL, SchedQ, WriteQ, RetQ} \subseteq Nat \ {0}
    /\ WL <= CL  \* rwq holds CL + 1: else the push after set_min_length(WL) would assert
    /\ Low \in Nat /\ High \in Nat /\ Low <= High
    /\ Configs \subseteq [frfcfs : BOOLEAN, writeQueue : BOOLEAN, dualBus : BOOLEAN]

ChannelTimer == {"CCD", "RRD", "RTW", "WTR"}
BankTimer == {"RCD", "RCDWR", "RAS", "RC", "RP", "WTP", "RTP"}
GroupTimer == {"CCDL", "RTPL"}
Timer == (ChannelTimer \X {0}) \cup (BankTimer \X Bank) \cup (GroupTimer \X Group)

VARIABLES
    config,         \* the options: scheduler, separate write queue, dual bus
    phase,          \* where cycle() stands
    mrqq,           \* requests the scheduler has not seen
    queue,          \* m_queue and m_write_queue by bank, the oldest first
    lastRow,        \* the row m_last_row and m_last_write_row point to
    pending,        \* m_num_pending, m_num_write_pending
    mode,           \* m_mode of the scheduler
    mrq,            \* the request a bank works on
    open,           \* the bank's state is BANK_ACTIVE
    row,            \* curr_row: of the open row, or the last one
    tx, dq,         \* atoms sent to, and arrived from, the data bus pipeline
    rwq, minLen,    \* the data bus pipeline and its minimum length
    bus,            \* rw: the direction of the data bus
    returnq,        \* answered fetches
    prio,           \* the bank looked at first
    timer,          \* the timing counters
    turn            \* single bus: banks looked at, commands issued this cycle

sched == <<mrqq, queue, lastRow, pending, mode>>
banks == <<mrq, open, row>>
data == <<tx, dq, rwq, minLen, bus>>
vars == <<config, phase, sched, banks, data, returnq, prio, timer, turn>>

Pipe == INSTANCE FifoPipeline WITH Bubble <- None

IsWrite(f) == kindOf[f] # "read"
IsWriteback(f) == kindOf[f] = "wrbk"
Class == {"read", "write"}
\* The queue of the scheduler a fetch goes to.
ClassOf(f) == IF config.writeQueue /\ IsWrite(f) THEN "write" ELSE "read"
Limit == [c \in Class |-> IF c = "write" THEN WriteQ ELSE SchedQ]
GroupOf(b) == b \div (NBank \div NGroup)
\* Round robin: the i-th bank looked at.
InTurn(i) == (i + prio) % NBank
NewTurn == [next |-> 0, col |-> FALSE, row |-> FALSE]

Init ==
    /\ config \in Configs
    /\ phase = "pop"
    /\ mrqq = <<>>
    /\ queue = [c \in Class |-> [b \in Bank |-> <<>>]]
    /\ lastRow = [c \in Class |-> [b \in Bank |-> None]]
    /\ pending = [c \in Class |-> 0]
    /\ mode = "read"
    /\ mrq = [b \in Bank |-> None]
    /\ open = [b \in Bank |-> FALSE]
    /\ row = [b \in Bank |-> 0]
    /\ tx = [f \in Fetch |-> 0]
    /\ dq = [f \in Fetch |-> 0]
    /\ rwq = Pipe!Padding(CL)
    /\ minLen = CL
    /\ bus = "read"
    /\ returnq = <<>>
    /\ prio = 0
    /\ timer = [t \in Timer |-> 0]
    /\ turn = NewTurn

\* The fetches that are somewhere in the channel.
Queued == Range(mrqq) \cup UNION {Range(queue[c][b]) : c \in Class, b \in Bank}
Moving == (Range(mrq) \cup Range(rwq)) \ {None}
Present == Queued \cup Moving \cup Range(returnq)

-----------------------------------------------------------------------------
(* Between two cycles: the memory partition.  An operator whose name ends in   *)
(* _Mutant is a variant with a plausible bug and not part of the model.        *)

Full_Mutant(f) ==
    IF config.frfcfs THEN pending[ClassOf(f)] > Limit[ClassOf(f)]
    ELSE Len(mrqq) >= MrqQ

Full(f) ==
    IF config.frfcfs THEN pending[ClassOf(f)] >= Limit[ClassOf(f)]
    ELSE Len(mrqq) >= MrqQ

\* return_queue_pop(), or nothing: the dram-to-L2 queue may be full.
PopReply(takes) ==
    /\ phase = "pop"
    /\ phase' = "data"
    /\ IF takes /\ returnq # <<>> THEN returnq' = Tail(returnq) ELSE UNCHANGED returnq
    /\ UNCHANGED <<config, sched, banks, data, prio, timer, turn>>

\* push() of a fetch that full() admits ...
Push(f) ==
    /\ phase = "push"
    /\ f \notin Present
    /\ ~Full(f)
    /\ phase' = "pop"
    /\ mrqq' = Append(mrqq, f)
    /\ tx' = [tx EXCEPT ![f] = 0]
    /\ dq' = [dq EXCEPT ![f] = 0]
    /\ UNCHANGED <<config, queue, lastRow, pending, mode, banks, rwq, minLen, bus,
                   returnq, prio, timer, turn>>

\* ... or no push in this cycle.
NoPush ==
    /\ phase = "push"
    /\ phase' = "pop"
    /\ UNCHANGED <<config, sched, banks, data, returnq, prio, timer, turn>>

-----------------------------------------------------------------------------
(* cycle(): the data bus *)

Arrived_Mutant(f) == dq'[f] > 0

\* The last atom of a request has left the pipeline.
Arrived(f) == dq'[f] >= atomsOf[f]

\* A full return queue stops the whole pipeline, whatever its head is.
DataBus ==
    /\ phase = "data"
    /\ phase' = "schedule"
    /\ IF Len(returnq) < RetQ
       THEN /\ rwq' = Pipe!Pop(rwq, minLen)
            /\ LET f == Head(rwq) IN
               /\ dq' = IF f = None THEN dq ELSE [dq EXCEPT ![f] = @ + 1]
               /\ IF f # None /\ Arrived(f) /\ ~IsWriteback(f)
                  THEN returnq' = Append(returnq, f)
                  ELSE UNCHANGED returnq
       ELSE UNCHANGED <<rwq, dq, returnq>>
    /\ UNCHANGED <<config, sched, banks, tx, minLen, bus, prio, timer, turn>>

-----------------------------------------------------------------------------
(* cycle(): the scheduler *)

FirstCommand == IF config.dualBus THEN "column" ELSE "single"

\* scheduler_fifo(): the head goes to its bank, or waits for it.
ScheduleFifo ==
    /\ phase = "schedule" /\ ~config.frfcfs
    /\ phase' = FirstCommand
    /\ IF mrqq # <<>> /\ mrq[bankOf[Head(mrqq)]] = None
       THEN /\ mrq' = [mrq EXCEPT ![bankOf[Head(mrqq)]] = Head(mrqq)]
            /\ mrqq' = Tail(mrqq)
       ELSE UNCHANGED <<mrq, mrqq>>
    /\ UNCHANGED <<config, queue, lastRow, pending, mode, open, row, data, returnq, prio,
                   timer, turn>>

\* add_req() of one request after the other, until mrqq is empty; its asserts
\* are SchedulerExact's.
AddRequests ==
    /\ phase = "schedule" /\ config.frfcfs
    /\ IF mrqq = <<>>
       THEN phase' = "bank" /\ UNCHANGED <<mrqq, queue, pending>>
       ELSE LET f == Head(mrqq)  c == ClassOf(f)  b == bankOf[f] IN
            /\ mrqq' = Tail(mrqq)
            /\ queue' = [queue EXCEPT ![c][b] = Append(queue[c][b], f)]
            /\ pending' = [pending EXCEPT ![c] = @ + 1]
            /\ UNCHANGED phase
    /\ UNCHANGED <<config, lastRow, mode, banks, data, returnq, prio, timer, turn>>

SwitchedMode_Mutant ==
    IF mode = "read" /\ pending["write"] >= High THEN "write" ELSE mode

\* schedule() first moves between reads and writes, by the watermarks.
SwitchedMode ==
    IF ~config.writeQueue THEN mode
    ELSE IF mode = "read" /\ pending["write"] >= High THEN "write"
    ELSE IF mode = "write" /\ pending["write"] < Low THEN "read"
    ELSE mode

\* The places in a queue of the requests of a row: its bin.
InRow(q, r) == {i \in DOMAIN q : rowOf[q[i]] = r}

\* The row schedule() serves in bank b: the one it is serving, else the bank's
\* current row, else that of the oldest request.
RowServed(c, b) ==
    IF lastRow[c][b] # None THEN lastRow[c][b]
    ELSE IF InRow(queue[c][b], row[b]) # {} THEN row[b]
    ELSE rowOf[Head(queue[c][b])]

\* The pointer to the row is kept until the row has no more requests.
RowKept(c, b, q) == IF InRow(q, RowServed(c, b)) = {} THEN None ELSE RowServed(c, b)

\* The first bank in turn that is free and has a request takes the oldest of
\* its row.
ScheduleBank ==
    /\ phase = "bank"
    /\ phase' = FirstCommand
    /\ LET c == mode'
           able == {i \in Bank : mrq[InTurn(i)] = None /\ queue[c][InTurn(i)] # <<>>}
       IN
       /\ mode' = IF \E b \in Bank : mrq[b] = None THEN SwitchedMode ELSE mode
       /\ \/ able = {} /\ UNCHANGED <<queue, lastRow, pending, mrq, prio>>
          \/ \E i \in able :
             LET b == InTurn(i)
                 bin == InRow(queue[c][b], RowServed(c, b))
             IN
             \E oldest \in bin :
             LET f == queue[c][b][oldest]
                 q == RemoveAt(queue[c][b], oldest)
             IN
             /\ (\A j \in able : i <= j) /\ (\A k \in bin : oldest <= k)
             /\ queue' = [queue EXCEPT ![c][b] = q]
             /\ lastRow' = [lastRow EXCEPT ![c][b] = RowKept(c, b, q)]
             /\ pending' = [pending EXCEPT ![ClassOf(f)] = @ - 1]
             /\ mrq' = [mrq EXCEPT ![b] = f]
             /\ prio' = (prio + 1) % NBank
    /\ UNCHANGED <<config, mrqq, open, row, data, returnq, timer, turn>>

-----------------------------------------------------------------------------
(* cycle(): the commands *)

Zero(names, i) == \A n \in names : timer[<<n, i>>] = 0
Started(ts) == [t \in Timer |-> IF t \in ts THEN Delay[t[1]] ELSE timer[t]]

\* issue_col_command: an atom of the bank's request may go to the data bus.
CanColumn(b) ==
    LET f == mrq[b] IN
    /\ f # None /\ open[b] /\ row[b] = rowOf[f]
    /\ Zero({"CCD"}, 0) /\ Zero({"CCDL"}, GroupOf(b))
    /\ Len(rwq) <= CL
    /\ IF IsWrite(f) THEN Zero({"RCDWR"}, b) /\ Zero({"RTW"}, 0)
                     ELSE Zero({"RCD"}, b) /\ Zero({"WTR"}, 0)

ColumnTimers(b) ==
    {<<"CCD", 0>>, <<"CCDL", GroupOf(b)>>} \cup
    (IF IsWrite(mrq[b]) THEN {<<"WTR", 0>>, <<"WTP", b>>}
     ELSE {<<"RTW", 0>>, <<"RTP", b>>, <<"RTPL", GroupOf(b)>>})

Latency_Mutant(w) == IF w THEN WL ELSE minLen
Latency(w) == IF w THEN WL ELSE CL

\* When the bus turns around, the pipeline gets the other latency.
ColumnCommand(b) ==
    LET f == mrq[b]
        direction == IF IsWrite(f) THEN "write" ELSE "read"
        length == IF bus = direction THEN minLen ELSE Latency(IsWrite(f))
    IN
    /\ bus' = direction
    /\ minLen' = length
    /\ rwq' = Pipe!Push(Pipe!SetMinLength(rwq, minLen, length), length, f)
    /\ tx' = [tx EXCEPT ![f] = @ + 1]
    /\ mrq' = IF tx[f] + 1 >= atomsOf[f] THEN [mrq EXCEPT ![b] = None] ELSE mrq
    /\ timer' = Started(ColumnTimers(b))
    /\ UNCHANGED <<open, row, dq, prio>>

CanActivate(b) ==
    /\ mrq[b] # None /\ ~open[b]
    /\ Zero({"RRD"}, 0) /\ Zero({"RP", "RC"}, b)

CanPrecharge_Mutant(b) ==
    /\ mrq[b] # None /\ open[b]
    /\ Zero({"RAS", "WTP", "RTP"}, b) /\ Zero({"RTPL"}, GroupOf(b))

CanPrecharge(b) ==
    /\ mrq[b] # None /\ open[b] /\ row[b] # rowOf[mrq[b]]
    /\ Zero({"RAS", "WTP", "RTP"}, b) /\ Zero({"RTPL"}, GroupOf(b))

\* issue_row_command: open the row of the bank's request, or close another.
RowCommand(b) ==
    /\ \/ /\ CanActivate(b)
          /\ open' = [open EXCEPT ![b] = TRUE]
          /\ row' = [row EXCEPT ![b] = rowOf[mrq[b]]]
          /\ timer' = Started({<<"RRD", 0>>, <<"RCD", b>>, <<"RCDWR", b>>, <<"RAS", b>>,
                               <<"RC", b>>})
       \/ /\ CanPrecharge(b)
          /\ open' = [open EXCEPT ![b] = FALSE]
          /\ timer' = Started({<<"RP", b>>})
          /\ UNCHANGED row
    /\ prio' = (b + 1) % NBank
    /\ UNCHANGED <<mrq, data>>

CanRow(b) == CanActivate(b) \/ CanPrecharge(b)

Nothing == UNCHANGED <<banks, data, prio, timer>>

\* C is issued by the first bank in turn that can, or by none.
FirstInTurn(Can(_), Command(_)) ==
    \/ (\A b \in Bank : ~Can(b)) /\ Nothing
    \/ \E i \in Bank :
         /\ Can(InTurn(i)) /\ \A j \in 0 .. i - 1 : ~Can(InTurn(j))
         /\ Command(InTurn(i))

\* Dual bus: one column command and one row command.
DualColumn ==
    /\ phase = "column"
    /\ phase' = "row"
    /\ FirstInTurn(CanColumn, ColumnCommand)
    /\ UNCHANGED <<config, sched, returnq, turn>>

DualRow ==
    /\ phase = "row"
    /\ phase' = "tick"
    /\ FirstInTurn(CanRow, RowCommand)
    /\ UNCHANGED <<config, sched, returnq, turn>>

\* Single bus, one turn of the loop: a column command ends the commands of the
\* cycle, but a row command leaves the banks after it a column command.  It
\* also moves prio, and with it the bank looked at next.
SingleBus ==
    LET b == InTurn(turn.next)
        column == ~turn.col /\ CanColumn(b)
        rowCommand == ~turn.col /\ ~column /\ ~turn.row /\ CanRow(b)
    IN
    /\ phase = "single"
    /\ turn' = [next |-> turn.next + 1,
                col |-> turn.col \/ column, row |-> turn.row \/ rowCommand]
    /\ phase' = IF turn.next + 1 = NBank THEN "tick" ELSE "single"
    /\ \/ column /\ ColumnCommand(b)
       \/ rowCommand /\ RowCommand(b)
       \/ ~column /\ ~rowCommand /\ Nothing
    /\ UNCHANGED <<config, sched, returnq>>

\* DEC2ZERO of every counter.
Tick ==
    /\ phase = "tick"
    /\ phase' = "push"
    /\ timer' = [t \in Timer |-> IF timer[t] > 0 THEN timer[t] - 1 ELSE 0]
    /\ turn' = NewTurn
    /\ UNCHANGED <<config, sched, banks, data, returnq, prio>>

Cycle ==
    \/ DataBus \/ ScheduleFifo \/ AddRequests \/ ScheduleBank
    \/ DualColumn \/ DualRow \/ SingleBus \/ Tick

Next ==
    \/ Cycle \/ NoPush
    \/ \E takes \in BOOLEAN : PopReply(takes)
    \/ \E f \in Fetch : Push(f)

Spec == Init /\ [][Next]_vars

(* dram_cycle() is called forever, and the dram-to-L2 queues get room again.   *)
Fairness ==
    /\ WF_vars(Cycle \/ PopReply(FALSE) \/ NoPush)
    /\ SF_vars(PopReply(TRUE) /\ returnq # <<>>)

FairSpec == Spec /\ Fairness

-----------------------------------------------------------------------------
(* Properties *)

Occurs(f, q) == Cardinality({i \in DOMAIN q : q[i] = f})

\* The scheduler's books are right, whatever is added and served in which
\* order: the counters full() reads are the lengths of the queues and never
\* pass their limits (the asserts of add_req() and of fifo_pipeline::push), and
\* the row a bank is serving has a request (or schedule() would take the last
\* of an erased list).
SchedulerExact ==
    /\ Len(mrqq) <= MrqQ
    /\ \A c \in Class :
         LET arriving == Cardinality({i \in DOMAIN mrqq : ClassOf(mrqq[i]) = c}) IN
         /\ \A b \in Bank : \A f \in Range(queue[c][b]) : ClassOf(f) = c /\ bankOf[f] = b
         /\ pending[c] = Cardinality(UNION {Range(queue[c][b]) : b \in Bank})
         /\ config.frfcfs => pending[c] + arriving <= Limit[c]
         /\ \A b \in Bank : lastRow[c][b] # None => InRow(queue[c][b], lastRow[c][b]) # {}

\* No request and no atom is lost or served twice between the scheduler, the
\* banks and the data bus: a request waits in one place, is worked on by its
\* bank with its row open once data moves, and what was sent of it and has not
\* arrived is in the pipeline.
AtomsConserved ==
    \A f \in Fetch :
        LET waits == Occurs(f, mrqq)
                     + Cardinality({z \in Class \X Bank : Occurs(f, queue[z[1]][z[2]]) = 1})
            works == mrq[bankOf[f]] = f
            answered == Occurs(f, returnq)
        IN
        /\ Occurs(f, rwq) = tx[f] - dq[f]
        /\ \A c \in Class, b \in Bank : Occurs(f, queue[c][b]) <= 1
        /\ waits + (IF works THEN 1 ELSE 0) + answered <= 1
        /\ waits = 1 => tx[f] = 0
        /\ works => tx[f] < atomsOf[f]
        /\ works /\ tx[f] > 0 => open[bankOf[f]] /\ row[bankOf[f]] = rowOf[f]
        /\ waits + (IF works THEN 1 ELSE 0) = 0 => tx[f] \in {0, atomsOf[f]}
        /\ answered = 1 => dq[f] = atomsOf[f]
        /\ \A b \in Bank : mrq[b] = f => b = bankOf[f]

\* Data leaves the pipeline no sooner than the latency of its direction allows,
\* also right after the bus turned around and the pipeline was cut or padded.
ColumnLatency ==
    [][\A f \in Fetch : tx'[f] > tx[f] =>
           LET last == CHOOSE i \in DOMAIN rwq' :
                           rwq'[i] = f /\ \A j \in DOMAIN rwq' : rwq'[j] = f => j <= i
           IN  last >= (IF IsWrite(f) THEN WL ELSE CL)]_vars

\* Writes that a separate write queue keeps back until more of them come.
HeldBack ==
    /\ config.frfcfs /\ config.writeQueue /\ mode = "read"
    /\ pending["write"] < High
    /\ \A f \in Present : \E b \in Bank : f \in Range(queue["write"][b])

\* Once no more fetches arrive everything is served, whatever rows the banks
\* were serving, except writes below the high watermark of a write queue of
\* their own: those stay.
Drains == <>[][\A f \in Fetch : ~Push(f)]_vars => <>[](Present = {} \/ HeldBack)

\* What the memory partition sees of a fetch.
ServiceState ==
    [f \in Fetch |-> IF f \notin Present THEN "idle"
                     ELSE IF f \in Range(returnq) THEN "answered" ELSE "pending"]

Service == INSTANCE MemService WITH
    Writeback <- {f \in Fetch : IsWriteback(f)}, state <- ServiceState

\* The channel implements MemService: each read and write is answered once and
\* a writeback retired without an answer, in whatever order they are served.
ImplementsService == Service!Spec
=============================================================================
