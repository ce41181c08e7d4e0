-------------------------------- MODULE Hbf --------------------------------
(***************************************************************************)
(* hbf_t (hbf.cc): the built-in controller of a High Bandwidth Flash       *)
(* channel.  A fetch reserves its plane and the link of the channel when   *)
(* it is pushed; its completion waits in a heap until the reserved time,   *)
(* then moves to a return queue of limited size.  A write is posted: it is *)
(* acknowledged after its transfer, while its buffer entry is freed when   *)
(* the plane has programmed it.                                            *)
(*                                                                         *)
(* The code keeps absolute times.  Here every time is the distance from    *)
(* now(), and a time that has passed is 0: max(cur, t) does not tell them  *)
(* apart.  Link times count bytes: a cycle moves Bandwidth of them, as in  *)
(* the fractional m_next_link_time.  The two heaps are kept sorted by      *)
(* ready time, equal times in any order, because a heap is not stable.     *)
(***************************************************************************)
EXTENDS Queues, SequencesExt

CONSTANTS
    Fetch,          \* the mem_fetch objects (a deleted one is allocated again)
    kindOf,         \* "read", "write" or "wrbk" (L1_WRBK_ACC, L2_WRBK_ACC)
    Plane,          \* the planes of the channel
    planeOf,        \* map_to_plane: the plane of a fetch's page
    TRead, TProg,   \* hbf_t_read, hbf_t_prog
    Subpage,        \* hbf_subpage_bytes
    Bandwidth,      \* hbf_channel_bytes_per_cycle
    AckLatency,     \* hbf_posted_write_ack_latency
    MaxReads,       \* hbf_max_outstanding, 0 = no limit
    WriteEntries,   \* hbf_write_buffer_entries
    RetQ            \* hbf_dram_return_queue_size, 0 = no limit

ASSUME HbfAssumption ==
    /\ IsFiniteSet(Fetch)
    /\ kindOf \in [Fetch -> {"read", "write", "wrbk"}]
    /\ planeOf \in [Fetch -> Plane]
    /\ {TRead, TProg, AckLatency, MaxReads, RetQ} \subseteq Nat
    /\ {Subpage, Bandwidth, WriteEntries} \subseteq Nat \ {0}

VARIABLES
    phase,          \* where cycle() stands
    status,         \* where a fetch is, "NONE" when it is not here
    linkFree,       \* m_next_link_time, in bytes from now
    planeFree,      \* m_plane_next_available_cycle, in cycles from now
    completions,    \* m_completions, sorted by ready time
    ready,          \* ready_cycle of a fetch in completions
    drains,         \* m_write_drains: ready cycle and plane, sorted
    reads,          \* m_outstanding_reads
    occupancy,      \* m_write_buffer_occupancy
    returnq         \* m_returnq

flash == <<linkFree, planeFree>>
vars == <<phase, status, flash, completions, ready, drains, reads, occupancy, returnq>>

IsRead(f) == kindOf[f] = "read"
IsWriteback(f) == kindOf[f] = "wrbk"
Later(x, y) == IF x > y THEN x ELSE y
CyclesOf(bytes) == (bytes + Bandwidth - 1) \div Bandwidth

Init ==
    /\ phase = "idle"
    /\ status = [f \in Fetch |-> "NONE"]
    /\ linkFree = 0
    /\ planeFree = [p \in Plane |-> 0]
    /\ completions = <<>>
    /\ ready = [f \in Fetch |-> 0]
    /\ drains = <<>>
    /\ reads = 0
    /\ occupancy = 0
    /\ returnq = <<>>

-----------------------------------------------------------------------------
(* push() *)

Full(f) ==
    IF IsRead(f) THEN MaxReads # 0 /\ reads >= MaxReads
    ELSE occupancy >= WriteEntries

ReturnqFull == RetQ # 0 /\ Len(returnq) >= RetQ

\* The heaps: an element goes anywhere among those of equal time.
Earlier(times, x) == Cardinality({i \in DOMAIN times : times[i] < x})
NotLater(times, x) == Cardinality({i \in DOMAIN times : times[i] <= x})

EnqueueCompletion(f, t) ==
    LET times == [i \in DOMAIN completions |-> ready[completions[i]]] IN
    /\ ready' = [ready EXCEPT ![f] = t]
    /\ \E n \in Earlier(times, t) .. NotLater(times, t) :
         completions' = InsertAt(completions, n + 1, f)

EnqueueDrain(f, t) ==
    LET times == [i \in DOMAIN drains |-> drains[i].at] IN
    drains' = InsertAt(drains, NotLater(times, t) + 1,
                       [at |-> t, plane |-> planeOf[f]])

\* The end of a transfer that may start in "earliest" cycles, in bytes from now.
LinkEnd_Mutant(earliest) == (earliest * Bandwidth) + Subpage

LinkEnd(earliest) == Later(earliest * Bandwidth, linkFree) + Subpage

\* The end of a plane operation that may start in "earliest" cycles.
PlaneEnd_Mutant(f, latency, earliest) == earliest + latency

PlaneEnd(f, latency, earliest) == Later(earliest, planeFree[planeOf[f]]) + latency

\* A read: the plane first, then the link, which is reserved ahead of time.
PushRead(f) ==
    LET internal == PlaneEnd(f, TRead, 0)
        end == LinkEnd(internal)
    IN  /\ reads' = reads + 1
        /\ planeFree' = [planeFree EXCEPT ![planeOf[f]] = internal]
        /\ linkFree' = end
        /\ EnqueueCompletion(f, CyclesOf(end))
        /\ UNCHANGED <<drains, occupancy>>

\* A write: the link first; the acknowledgement does not wait for the plane.
PushWrite(f) ==
    LET end == LinkEnd(0)
        programmed == PlaneEnd(f, TProg, CyclesOf(end))
    IN  /\ occupancy' = occupancy + 1
        /\ linkFree' = end
        /\ planeFree' = [planeFree EXCEPT ![planeOf[f]] = programmed]
        /\ EnqueueCompletion(f, CyclesOf(end) + AckLatency)
        /\ EnqueueDrain(f, programmed)
        /\ UNCHANGED reads

\* The partition pushes only while full() is false (push() drops the fetch
\* silently otherwise).
Push(f) ==
    /\ phase = "idle"
    /\ status[f] = "NONE"
    /\ ~Full(f)
    /\ status' = [status EXCEPT ![f] = "PENDING"]
    /\ IF IsRead(f) THEN PushRead(f) ELSE PushWrite(f)
    /\ UNCHANGED <<phase, returnq>>

\* return_queue_pop(): the reply leaves for the L2.
PopReturn ==
    /\ phase = "idle"
    /\ returnq # <<>>
    /\ returnq' = Tail(returnq)
    /\ status' = [status EXCEPT ![Head(returnq)] = "NONE"]
    /\ UNCHANGED <<phase, flash, completions, ready, drains, reads, occupancy>>

-----------------------------------------------------------------------------
(* Time and cycle() *)

MinusCycles(t, n) == IF t > n THEN t - n ELSE 0

\* One core clock: every time comes one cycle closer.
CoreTick ==
    /\ phase = "idle"
    /\ linkFree' = MinusCycles(linkFree, Bandwidth)
    /\ planeFree' = [p \in Plane |-> MinusCycles(planeFree[p], 1)]
    /\ ready' = [f \in Fetch |-> MinusCycles(ready[f], 1)]
    /\ drains' = [i \in DOMAIN drains |-> [drains[i] EXCEPT !.at = MinusCycles(@, 1)]]
    /\ UNCHANGED <<phase, status, completions, reads, occupancy, returnq>>

\* The programmed writes, at the front of the sorted heap.
Programmed == Cardinality({i \in DOMAIN drains : drains[i].at = 0})

DrainWrites_Mutant ==
    /\ phase = "idle" /\ phase' = "complete"
    /\ drains' = SubSeq(drains, Programmed + 1, Len(drains))
    /\ occupancy' = IF Programmed > 0 THEN MinusCycles(occupancy, 1) ELSE occupancy
    /\ UNCHANGED <<status, flash, completions, ready, reads, returnq>>

DrainWrites_Keep_Mutant ==
    /\ phase = "idle" /\ phase' = "complete"
    /\ drains' = SubSeq(drains, Programmed + 1, Len(drains))
    /\ UNCHANGED <<status, flash, completions, ready, reads, occupancy, returnq>>

\* The first loop of cycle(): programmed writes leave the heap and the buffer.
DrainWrites ==
    /\ phase = "idle" /\ phase' = "complete"
    /\ drains' = SubSeq(drains, Programmed + 1, Len(drains))
    /\ occupancy' = MinusCycles(occupancy, Programmed)
    /\ UNCHANGED <<status, flash, completions, ready, reads, returnq>>

Completable == completions # <<>> /\ ready[Head(completions)] = 0 /\ ~ReturnqFull

CompleteOne_Mutant ==
    /\ phase = "complete"
    /\ Completable
    /\ completions' = Tail(completions)
    /\ LET f == Head(completions) IN
       /\ reads' = IF IsRead(f) /\ reads > 0 THEN reads - 1 ELSE reads
       /\ status' = [status EXCEPT ![f] = "RETURNQ"]
       /\ returnq' = Append(returnq, f)
    /\ UNCHANGED <<phase, flash, ready, drains, occupancy>>

CompleteOne_NoPop_Mutant ==
    /\ phase = "complete"
    /\ Completable
    /\ LET f == Head(completions) IN
       /\ reads' = IF IsRead(f) /\ reads > 0 THEN reads - 1 ELSE reads
       /\ IF IsWriteback(f)
          THEN /\ status' = [status EXCEPT ![f] = "NONE"]
               /\ UNCHANGED <<completions, returnq>>
          ELSE /\ status' = [status EXCEPT ![f] = "RETURNQ"]
               /\ completions' = Tail(completions)
               /\ returnq' = Append(returnq, f)
    /\ UNCHANGED <<phase, flash, ready, drains, occupancy>>

\* One round of the second loop: a writeback is deleted after set_done.
CompleteOne ==
    /\ phase = "complete"
    /\ Completable
    /\ completions' = Tail(completions)
    /\ LET f == Head(completions) IN
       /\ reads' = IF IsRead(f) /\ reads > 0 THEN reads - 1 ELSE reads
       /\ IF IsWriteback(f)
          THEN /\ status' = [status EXCEPT ![f] = "NONE"]
               /\ UNCHANGED returnq
          ELSE /\ status' = [status EXCEPT ![f] = "RETURNQ"]
               /\ returnq' = Append(returnq, f)
    /\ UNCHANGED <<phase, flash, ready, drains, occupancy>>

EndCycle ==
    /\ phase = "complete" /\ phase' = "idle"
    /\ ~Completable
    /\ UNCHANGED <<status, flash, completions, ready, drains, reads, occupancy, returnq>>

Cycle == DrainWrites \/ CompleteOne \/ EndCycle

Next ==
    \/ Cycle
    \/ CoreTick
    \/ PopReturn
    \/ \E f \in Fetch : Push(f)

Spec == Init /\ [][Next]_vars

(* The clocks run and the partition keeps emptying the return queue. *)
Fairness == WF_vars(Cycle) /\ SF_vars(CoreTick) /\ SF_vars(PopReturn)
FairSpec == Spec /\ Fairness

-----------------------------------------------------------------------------
(* Properties *)

TypeOK ==
    /\ phase \in {"idle", "complete"}
    /\ status \in [Fetch -> {"NONE", "PENDING", "RETURNQ"}]
    /\ linkFree \in Nat
    /\ planeFree \in [Plane -> Nat]
    /\ completions \in Seq(Fetch)
    /\ ready \in [Fetch -> Nat]
    /\ drains \in Seq([at : Nat, plane : Plane])
    /\ reads \in Nat /\ (MaxReads # 0 => reads <= MaxReads)
    /\ occupancy \in 0 .. WriteEntries
    /\ returnq \in Seq(Fetch) /\ (RetQ # 0 => Len(returnq) <= RetQ)

\* Every fetch that was pushed is in exactly one of the heap and the return
\* queue: none is dropped, completed twice or left behind.
Placement ==
    /\ NoRepeat(completions) /\ NoRepeat(returnq)
    /\ Range(completions) = {f \in Fetch : status[f] = "PENDING"}
    /\ Range(returnq) = {f \in Fetch : status[f] = "RETURNQ"}

\* The two counters full() tests are exact, although they are decremented in
\* other places than the completions they count: reads are the reads in the
\* heap, and the write buffer holds one entry per unfinished program operation,
\* whose write may long have been acknowledged.  The clamps at 0 of cycle()
\* never hide a difference.
SlotsExact ==
    /\ reads = Cardinality({f \in Fetch : status[f] = "PENDING" /\ IsRead(f)})
    /\ occupancy = Len(drains)

\* A plane programs one page at a time, also when reads of the plane and a busy
\* link come in between: the buffered writes of a plane drain TProg apart.
OneProgramAtATime ==
    \A i, j \in DOMAIN drains :
        i < j /\ drains[i].plane = drains[j].plane /\ drains[i].at > 0
            => drains[j].at - drains[i].at >= TProg

\* The fetches inside the controller in the order in which they will leave it.
Inside(f) == status[f] # "NONE"
Outgoing == returnq \o completions
Ahead(g, f) ==
    \E i, j \in DOMAIN Outgoing : i < j /\ Outgoing[i] = g /\ Outgoing[j] = f

\* The reads leave in the order of their pushes, whatever their planes: a read
\* is pushed behind every read inside, and as long as a read is ahead of another
\* the other neither leaves nor overtakes it.  A busy plane delays the later
\* reads of all planes, because the link is reserved in push order.  It takes a
\* transfer of at least one cycle (hbf_subpage_bytes is not less than
\* hbf_channel_bytes_per_cycle): with less, two reads may be ready in one cycle,
\* and m_completions returns elements of equal time in any order.
PushOrder ==
    [][Subpage >= Bandwidth =>
         \A f, g \in Fetch : IsRead(f) /\ IsRead(g) /\ Inside(g) =>
            /\ ~Inside(f) /\ Inside(f)' => Ahead(g, f)'
            /\ Ahead(g, f) => Inside(f)' /\ (Inside(g)' => Ahead(g, f)')]_vars

ServiceState ==
    [f \in Fetch |-> CASE status[f] = "NONE" -> "idle"
                       [] status[f] = "RETURNQ" -> "answered"
                       [] OTHER -> "pending"]
Service == INSTANCE MemService WITH
    Writeback <- {f \in Fetch : IsWriteback(f)}, state <- ServiceState

\* Seen from the partition, the controller is a MemService: one answer for each
\* fetch, none for a writeback.
ImplementsService == Service!Spec

\* Every pushed fetch completes, although a full return queue stops the loop
\* for all of them, and the write buffer always gets room again.
EventuallyCompleted == \A f \in Fetch : status[f] = "PENDING" ~> status[f] # "PENDING"
BufferDrains == occupancy = WriteEntries ~> occupancy < WriteEntries
=============================================================================
