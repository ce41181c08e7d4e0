---------------------------- MODULE MemPartition ----------------------------
(***************************************************************************)
(* One memory_partition_unit (l2cache.cc): the off-chip side of a GPU      *)
(* memory channel.  Its sub partitions hand L2 misses and writebacks to    *)
(* one of two backends, HBM or HBF.  The unit arbitrates between the sub   *)
(* partitions with a credit scheme, delays each fetch in a fixed-latency   *)
(* queue of its backend, pushes it into the backend and routes the reply   *)
(* back to the sub partition it came from.                                 *)
(*                                                                         *)
(* A backend is modelled by what mem_backend.h promises of any of them:    *)
(* it takes fetches while full() is false, completes the fetches it holds  *)
(* in any order, answers through a return queue and calls set_done for     *)
(* writebacks.  CoSimBackend and Hbf model two of the implementations.     *)
(*                                                                         *)
(* dram_cycle() is sequential code with six phases.  The variable "phase"  *)
(* is its program counter: each phase is one action, the phases run in the *)
(* order of the code, and the sub partitions and the core clock move only  *)
(* between two calls.                                                      *)
(***************************************************************************)
EXTENDS Queues

CONSTANTS
    Fetch,          \* the mem_fetch objects (a deleted one is allocated again)
    NSub,           \* m_n_sub_partition_per_memory_channel
    subOf,          \* the sub partition a fetch belongs to
    kindOf,         \* "read", "write" or "wrbk" (L1_WRBK_ACC, L2_WRBK_ACC)
    backendOf,      \* the backend assign_mem_backend() gives the fetch
    SchedQ,         \* gpgpu_frfcfs_dram_sched_queue_size, 0 = no limit
    WriteQ,         \* gpgpu_frfcfs_dram_write_queue_size, 0 when not separate
    RetQ,           \* gpgpu_dram_return_queue_size, 0 = no limit
    L2DramSize,     \* size of the L2-to-dram queue of a sub partition
    DramL2Size,     \* size of the dram-to-L2 queue of a sub partition
    Latency,        \* dram_latency and hbf_dram_latency, by backend
    Slots           \* fetches of one direction a backend takes before full()

Backend == {"HBM", "HBF"}
Sub == 0 .. NSub - 1

ASSUME NSubAssumption == NSub \in Nat \ {0}
ASSUME FetchAssumption ==
    /\ IsFiniteSet(Fetch)
    /\ subOf \in [Fetch -> Sub]
    /\ kindOf \in [Fetch -> {"read", "write", "wrbk"}]
    /\ backendOf \in [Fetch -> Backend]
ASSUME SizeAssumption ==
    /\ SchedQ \in Nat /\ WriteQ \in Nat /\ RetQ \in Nat
    /\ L2DramSize \in Nat /\ DramL2Size \in Nat
    /\ Latency \in [Backend -> Nat]
    /\ Slots \in [Backend -> Nat]

\* m_private_credit_limit and m_shared_credit_limit; a limit of 0 means that
\* the shared credits have no limit.
PrivateLimit == 1
SharedLimit ==
    IF SchedQ = 0 \/ RetQ = 0 THEN 0 ELSE SchedQ + WriteQ + RetQ - (NSub - 1)

\* The constructor's assert(m_shared_credit_limit >= 0).
ASSUME CreditAssumption == SharedLimit >= 0

VARIABLES
    simple,         \* simple_dram_model: HBM is the latency queue alone
    phase,          \* where dram_cycle() stands
    status,         \* mem_fetch::m_status, "NONE" for an unallocated fetch
    l2dram,         \* m_L2_dram_queue of each sub partition
    latq,           \* m_dram_latency_queue and m_hbf_latency_queue
    wait,           \* cycles until a fetch of a latency queue is ready
    held,           \* the fetches a backend works on
    used,           \* slots in use in a backend, by direction
    retq,           \* the return queue of a backend
    dramL2,         \* m_dram_L2_queue of each sub partition
    priv, shared,   \* m_private_credit, m_shared_credit
    lastBorrower    \* m_last_borrower

queues  == <<l2dram, latq, retq, dramL2>>
backend == <<held, used>>
credits == <<priv, shared, lastBorrower>>
vars == <<simple, phase, status, queues, wait, backend, credits>>

Phase == {"idle", "popHBF", "cycle", "latHBM", "latHBF"}
Status == {"NONE", "L2_TO_DRAM", "LATENCY", "BACKEND", "RETURNQ", "DRAM_TO_L2"}
IsWrite(f) == kindOf[f] # "read"
IsWriteback(f) == kindOf[f] = "wrbk"

Init ==
    /\ simple \in BOOLEAN
    /\ phase = "idle"
    /\ status = [f \in Fetch |-> "NONE"]
    /\ l2dram = [s \in Sub |-> <<>>]
    /\ latq = [b \in Backend |-> <<>>]
    /\ wait = [f \in Fetch |-> 0]
    /\ held = [b \in Backend |-> {}]
    /\ used = [b \in Backend |-> [w \in BOOLEAN |-> 0]]
    /\ retq = [b \in Backend |-> <<>>]
    /\ dramL2 = [s \in Sub |-> <<>>]
    /\ priv = [s \in Sub |-> 0]
    /\ shared = 0
    /\ lastBorrower = NSub - 1

-----------------------------------------------------------------------------
(* arbitration_metadata.  An operator whose name ends in _Mutant is a variant  *)
(* with a plausible bug; it is not part of the specification.                  *)

SharedAvailable_Mutant == SharedLimit = 0 \/ shared <= SharedLimit

SharedAvailable == SharedLimit = 0 \/ shared < SharedLimit

HasCredits(s) == priv[s] < PrivateLimit \/ SharedAvailable

BorrowCredit_NoTurn_Mutant(s) ==
    /\ UNCHANGED lastBorrower
    /\ IF priv[s] < PrivateLimit
       THEN priv' = [priv EXCEPT ![s] = @ + 1] /\ UNCHANGED shared
       ELSE shared' = shared + 1 /\ UNCHANGED priv

\* Private credit first, then a shared one; has_credits() was checked.
BorrowCredit(s) ==
    /\ lastBorrower' = s
    /\ IF priv[s] < PrivateLimit
       THEN priv' = [priv EXCEPT ![s] = @ + 1] /\ UNCHANGED shared
       ELSE shared' = shared + 1 /\ UNCHANGED priv

\* The private credit is given back before a shared one, whichever of the two
\* the fetch had borrowed.
ReturnCredit(s) ==
    /\ UNCHANGED lastBorrower
    /\ IF priv[s] > 0
       THEN priv' = [priv EXCEPT ![s] = @ - 1] /\ UNCHANGED shared
       ELSE shared' = shared - 1 /\ UNCHANGED priv

DramL2Full(s) == Len(dramL2[s]) >= DramL2Size

CanIssue(s) == HasCredits(s) /\ ~DramL2Full(s)

-----------------------------------------------------------------------------
(* The sub partitions and the core clock, between two calls of dram_cycle() *)

\* L2interface::push, behind L2interface::full: a new fetch leaves the L2.
L2Push(f) ==
    /\ phase = "idle"
    /\ status[f] = "NONE"
    /\ Len(l2dram[subOf[f]]) < L2DramSize
    /\ status' = [status EXCEPT ![f] = "L2_TO_DRAM"]
    /\ l2dram' = [l2dram EXCEPT ![subOf[f]] = Append(@, f)]
    /\ UNCHANGED <<phase, latq, retq, dramL2, wait, backend, credits>>

\* cache_cycle() takes the oldest reply: fills the L2 or sends it upstream.
L2Pop(s) ==
    /\ phase = "idle"
    /\ dramL2[s] # <<>>
    /\ status' = [status EXCEPT ![Head(dramL2[s])] = "NONE"]
    /\ dramL2' = [dramL2 EXCEPT ![s] = Tail(@)]
    /\ UNCHANGED <<phase, l2dram, latq, retq, wait, backend, credits>>

\* gpu_sim_cycle advances: every ready_cycle comes one cycle closer.
CoreTick ==
    /\ phase = "idle"
    /\ \E f \in Fetch : wait[f] > 0
    /\ wait' = [f \in Fetch |-> IF wait[f] > 0 THEN wait[f] - 1 ELSE 0]
    /\ UNCHANGED <<phase, status, queues, backend, credits>>

-----------------------------------------------------------------------------
(* The phases of dram_cycle() and simple_dram_model_cycle() *)

NextPhase(p) ==
    CASE p = "idle" -> "popHBF"
      [] p = "popHBF" -> "cycle"
      [] p = "cycle" -> IF simple THEN "latHBF" ELSE "latHBM"
      [] p = "latHBM" -> "latHBF"
      [] p = "latHBF" -> "idle"

\* The reply goes to the sub partition of the fetch, which gets its credit back.
ReplyToL2(f) ==
    /\ status' = [status EXCEPT ![f] = "DRAM_TO_L2"]
    /\ dramL2' = [dramL2 EXCEPT ![subOf[f]] = Append(@, f)]
    /\ ReturnCredit(subOf[f])

SetDone_Mutant(f) ==
    /\ status' = [status EXCEPT ![f] = "NONE"]
    /\ UNCHANGED credits

\* memory_partition_unit::set_done of a writeback, which is then deleted.
SetDone(f) ==
    /\ status' = [status EXCEPT ![f] = "NONE"]
    /\ ReturnCredit(subOf[f])

PopReturn_Mutant(b) ==
    /\ phase' = NextPhase(phase)
    /\ IF retq[b] # <<>> /\ ~DramL2Full(subOf[Head(retq[b])])
       THEN ReplyToL2(Head(retq[b]))
       ELSE UNCHANGED <<status, dramL2, credits>>
    /\ UNCHANGED <<l2dram, latq, retq, wait, backend>>

\* The head of a backend's return queue is held back by a full dram-to-L2 queue.
PopReturn(b) ==
    /\ phase' = NextPhase(phase)
    /\ IF retq[b] # <<>> /\ ~DramL2Full(subOf[Head(retq[b])])
       THEN /\ ReplyToL2(Head(retq[b]))
            /\ retq' = [retq EXCEPT ![b] = Tail(@)]
       ELSE UNCHANGED <<status, dramL2, retq, credits>>
    /\ UNCHANGED <<l2dram, latq, wait, backend>>

\* simple_dram_model_cycle(): HBM replies straight from its latency queue.
PopSimple ==
    /\ phase' = NextPhase(phase)
    /\ LET f == Head(latq["HBM"])
           ready == latq["HBM"] # <<>> /\ wait[f] = 0
       IN  \/ /\ ready /\ IsWriteback(f)
              /\ SetDone(f)
              /\ latq' = [latq EXCEPT !["HBM"] = Tail(@)]
              /\ UNCHANGED dramL2
           \/ /\ ready /\ ~IsWriteback(f) /\ ~DramL2Full(subOf[f])
              /\ ReplyToL2(f)
              /\ latq' = [latq EXCEPT !["HBM"] = Tail(@)]
           \/ /\ ready => ~IsWriteback(f) /\ DramL2Full(subOf[f])
              /\ UNCHANGED <<status, dramL2, latq, credits>>
    /\ UNCHANGED <<l2dram, retq, wait, backend>>

PopHBM == phase = "idle" /\ (IF simple THEN PopSimple ELSE PopReturn("HBM"))
PopHBF == phase = "popHBF" /\ PopReturn("HBF")

\* m_dram->cycle() and m_hbf->cycle(): a backend finishes fetches it holds, in
\* any order and any number of them ...
Complete(b, f) ==
    /\ phase = "cycle"
    /\ f \in held[b]
    /\ held' = [held EXCEPT ![b] = @ \ {f}]
    /\ IF IsWriteback(f)
       THEN SetDone(f) /\ UNCHANGED retq
       ELSE /\ status' = [status EXCEPT ![f] = "RETURNQ"]
            /\ retq' = [retq EXCEPT ![b] = Append(@, f)]
            /\ UNCHANGED credits
    /\ UNCHANGED <<phase, l2dram, latq, dramL2, wait, used>>

\* ... and makes room for new ones, before or after their predecessors answer.
FreeSlot(b, w) ==
    /\ phase = "cycle"
    /\ used[b][w] > 0
    /\ used' = [used EXCEPT ![b][w] = @ - 1]
    /\ UNCHANGED <<phase, status, queues, wait, held, credits>>

BackendFull(b, f) == used[b][IsWrite(f)] >= Slots[b]

\* Round robin from the sub partition after the last borrower.
Distance(s) == (s + NSub - lastBorrower - 1) % NSub
Ready == {s \in Sub : l2dram[s] # <<>> /\ CanIssue(s)}
Chosen(s) == s \in Ready /\ \A t \in Ready : Distance(s) <= Distance(t)

\* The chosen sub partition issues one fetch; when its backend is full, the
\* loop stops there and no other sub partition issues in this cycle.
Arbitrate ==
    /\ phase = "cycle"
    /\ phase' = NextPhase(phase)
    /\ \/ /\ Ready = {}
          /\ UNCHANGED <<status, l2dram, latq, wait, credits>>
       \/ \E s \in Sub :
            LET f == Head(l2dram[s])  b == backendOf[f] IN
            /\ Chosen(s)
            /\ \/ /\ BackendFull(b, f)
                  /\ UNCHANGED <<status, l2dram, latq, wait, credits>>
               \/ /\ ~BackendFull(b, f)
                  /\ l2dram' = [l2dram EXCEPT ![s] = Tail(@)]
                  /\ latq' = [latq EXCEPT ![b] = Append(@, f)]
                  /\ wait' = [wait EXCEPT ![f] = Latency[b]]
                  /\ status' = [status EXCEPT ![f] = "LATENCY"]
                  /\ BorrowCredit(s)
    /\ UNCHANGED <<retq, dramL2, backend>>

\* hbf_t::push ignores a fetch it has no room for; the other backends assert.
BackendPush(b, f) ==
    IF BackendFull(b, f)
    THEN UNCHANGED <<status, backend>>
    ELSE /\ status' = [status EXCEPT ![f] = "BACKEND"]
         /\ held' = [held EXCEPT ![b] = @ \cup {f}]
         /\ used' = [used EXCEPT ![b][IsWrite(f)] = @ + 1]

MayPush_Mutant(b) ==
    /\ latq[b] # <<>>
    /\ wait[Head(latq[b])] = 0

\* full() is asked again here: other fetches were pushed since the arbitration.
MayPush(b) ==
    /\ latq[b] # <<>>
    /\ wait[Head(latq[b])] = 0
    /\ ~BackendFull(b, Head(latq[b]))

PushReady(b) ==
    /\ phase' = NextPhase(phase)
    /\ IF MayPush(b)
       THEN /\ BackendPush(b, Head(latq[b]))
            /\ latq' = [latq EXCEPT ![b] = Tail(@)]
       ELSE UNCHANGED <<status, latq, backend>>
    /\ UNCHANGED <<l2dram, retq, dramL2, wait, credits>>

PushHBM == phase = "latHBM" /\ PushReady("HBM")
PushHBF == phase = "latHBF" /\ PushReady("HBF")

DramCycle == PopHBM \/ PopHBF \/ Arbitrate \/ PushHBM \/ PushHBF

\* The option simple_dram_model is read once and never changes.
Fixed(A) == A /\ UNCHANGED simple

Next ==
    /\ \/ DramCycle
       \/ CoreTick
       \/ \E f \in Fetch : L2Push(f)
       \/ \E s \in Sub : L2Pop(s)
       \/ \E b \in Backend, f \in Fetch : Complete(b, f)
       \/ \E b \in Backend, w \in BOOLEAN : FreeSlot(b, w)
    /\ UNCHANGED simple

Spec == Init /\ [][Next]_vars

(* gpgpu_sim::cycle() calls dram_cycle() and ticks the core clock forever, the *)
(* L2 keeps draining its replies, and each backend's own timing is finite.     *)
Fairness ==
    /\ WF_vars(Fixed(DramCycle))
    /\ SF_vars(Fixed(CoreTick))
    /\ \A s \in Sub : SF_vars(Fixed(L2Pop(s)))
    /\ \A f \in Fetch : SF_vars(Fixed(Complete(backendOf[f], f)))
    /\ \A slot \in {<<backendOf[f], IsWrite(f)>> : f \in Fetch} :
         SF_vars(Fixed(FreeSlot(slot[1], slot[2])))

FairSpec == Spec /\ Fairness

-----------------------------------------------------------------------------
(* Properties *)

TypeOK ==
    /\ simple \in BOOLEAN
    /\ phase \in Phase
    /\ status \in [Fetch -> Status]
    /\ l2dram \in [Sub -> Seq(Fetch)]
    /\ latq \in [Backend -> Seq(Fetch)]
    /\ wait \in [Fetch -> Nat]
    /\ held \in [Backend -> SUBSET Fetch]
    /\ used \in [Backend -> [BOOLEAN -> Nat]]
    /\ retq \in [Backend -> Seq(Fetch)]
    /\ dramL2 \in [Sub -> Seq(Fetch)]
    /\ priv \in [Sub -> 0 .. PrivateLimit]
    /\ shared \in Int
    /\ lastBorrower \in Sub
    /\ \A s \in Sub : Len(l2dram[s]) <= L2DramSize /\ Len(dramL2[s]) <= DramL2Size
    /\ \A b \in Backend, w \in BOOLEAN : used[b][w] <= Slots[b]

\* No fetch is lost, duplicated or sent to the wrong sub partition or backend
\* on its way through the partition: at any time it is in exactly the one queue
\* its status names (the pushes and pops of dram_cycle(), and hbf_t::push, which
\* drops what it cannot take).
Placement ==
    /\ HoldsExactly(l2dram, status, "L2_TO_DRAM", subOf)
    /\ HoldsExactly(latq, status, "LATENCY", backendOf)
    /\ HoldsExactly(retq, status, "RETURNQ", backendOf)
    /\ HoldsExactly(dramL2, status, "DRAM_TO_L2", subOf)
    /\ \A b \in Backend :
         held[b] = {f \in Fetch : status[f] = "BACKEND" /\ backendOf[f] = b}

InFlight == {f \in Fetch : status[f] \in {"LATENCY", "BACKEND", "RETURNQ"}}
PrivateBorrowers == {s \in Sub : priv[s] = 1}

\* Credits are conserved: borrowed private and shared credits are together the
\* fetches between arbitration and reply, whatever mix of private and shared
\* credits return_credit() hands back; a sub partition with a private credit
\* out has a fetch out; the assert of return_credit() ("Returning more than
\* available credits!") never fires.
CreditsAccounted ==
    /\ shared >= 0
    /\ shared + Cardinality(PrivateBorrowers) = Cardinality(InFlight)
    /\ \A s \in PrivateBorrowers : \E f \in InFlight : subOf[f] = s

\* The latency queues are lists without a size: only the credits bound what is
\* between arbitration and reply.
InFlightBounded ==
    SharedLimit > 0 => Cardinality(InFlight) <= NSub * PrivateLimit + SharedLimit

\* Every fetch the L2 hands over leaves the partition again, although a full
\* backend stops the arbitration for everyone and a full dram-to-L2 queue
\* stops a return queue.
EventuallyServed ==
    \A f \in Fetch : status[f] = "L2_TO_DRAM" ~> status[f] = "NONE"

\* What the L2 sees of a fetch: answered when the reply is in its queue.
ServiceState ==
    [f \in Fetch |-> IF \E s \in Sub : f \in Range(dramL2[s]) THEN "answered"
                     ELSE IF status[f] = "NONE" THEN "idle" ELSE "pending"]

Service == INSTANCE MemService WITH
    Writeback <- {f \in Fetch : IsWriteback(f)}, state <- ServiceState

\* The partition implements MemService: one answer for each fetch, none for a
\* writeback.
ImplementsService == Service!Spec
=============================================================================
