---------------------------- MODULE CoSimBackend ----------------------------
(***************************************************************************)
(* A co-simulated memory backend: ramulator2_backend over ramulator2_wrap, *)
(* or mqsim_backend over mqsim_wrap.  All memory partitions share one      *)
(* simulator: every partition sends its fetches to it, but only partition  *)
(* 0's cycle() advances it and hands out the completions of all of them.   *)
(*                                                                         *)
(* The two pairs differ in how a request enters the simulator and in how   *)
(* the simulator reports a finished read.  ramulator2_wrap offers the      *)
(* oldest pending request again and again until it is refused and passes a *)
(* callback with every read; mqsim_wrap injects all pending requests and   *)
(* relies on a handler of MQSim's transaction-serviced signal.             *)
(*                                                                         *)
(* The simulators themselves are external: a read they took is finished    *)
(* after some time, in any order.  The clock is left out: cycle() may run  *)
(* any number of simulator ticks.                                          *)
(***************************************************************************)
EXTENDS Queues

CONSTANTS
    Fetch,          \* the mem_fetch objects (a deleted one is allocated again)
    Partition,      \* the memory partitions, get_tlx_addr().chip of a fetch
    partitionOf,    \* the partition of a fetch
    kindOf,         \* "read", "write" or "wrbk" (L1_WRBK_ACC, L2_WRBK_ACC)
    MaxOutstanding, \* max_outstanding_per_part
    MaxPending      \* max_pending of the wrapper's handle

ASSUME CoSimAssumption ==
    /\ IsFiniteSet(Fetch)
    /\ partitionOf \in [Fetch -> Partition]
    /\ kindOf \in [Fetch -> {"read", "write", "wrbk"}]
    /\ MaxOutstanding \in Nat /\ MaxPending \in Nat

VARIABLES
    wrapper,        \* which of the two pairs this is, never changed
    phase,          \* where partition 0's cycle() stands
    status,         \* where a fetch is, "NONE" when it is not here
    pending,        \* pending of the handle, shared by all partitions
    completions,    \* completions of the handle
    outstanding,    \* outstanding[m_id]
    retq            \* returnq[m_id]

vars == <<wrapper, phase, status, pending, completions, outstanding, retq>>

Wrapper == {"ramulator2_wrap", "mqsim_wrap"}
Phase == {"idle", "run", "inject", "settle", "poll"}
Status == {"NONE", "PENDING", "ENGINE", "LOST", "COMPLETION", "RETURNQ"}
IsRead(f) == kindOf[f] = "read"
IsWriteback(f) == kindOf[f] = "wrbk"

Init ==
    /\ wrapper \in Wrapper
    /\ phase = "idle"
    /\ status = [f \in Fetch |-> "NONE"]
    /\ pending = <<>>
    /\ completions = <<>>
    /\ outstanding = [p \in Partition |-> 0]
    /\ retq = [p \in Partition |-> <<>>]

-----------------------------------------------------------------------------
(* The partitions, between two cycles of partition 0 *)

Full(p) == outstanding[p] >= MaxOutstanding

\* push(), which the partition calls while full() is false.  When the send is
\* refused because MaxPending requests are pending, the process aborts.
Push(f) ==
    LET p == partitionOf[f] IN
    /\ phase = "idle"
    /\ status[f] = "NONE"
    /\ ~Full(p)
    /\ Len(pending) < MaxPending
    /\ pending' = Append(pending, f)
    /\ outstanding' = [outstanding EXCEPT ![p] = @ + 1]
    /\ status' = [status EXCEPT ![f] = "PENDING"]
    /\ UNCHANGED <<wrapper, phase, completions, retq>>

\* return_queue_pop(): the reply leaves for the L2.
PopReturn(p) ==
    /\ phase = "idle"
    /\ retq[p] # <<>>
    /\ retq' = [retq EXCEPT ![p] = Tail(@)]
    /\ status' = [status EXCEPT ![Head(retq[p])] = "NONE"]
    /\ UNCHANGED <<wrapper, phase, pending, completions, outstanding>>

-----------------------------------------------------------------------------
(* cycle() of partition 0: ram2_tick_to or mq_tick_to, then the poll loop *)

Goto(from, to) ==
    /\ phase = from /\ phase' = to
    /\ UNCHANGED <<wrapper, status, pending, completions, outstanding, retq>>

\* mq_tick_to runs MQSim up to now, injects, and runs it again for the events
\* of the injected requests; ram2_tick_to alternates injection and ticks.
Begin == Goto("idle", "run")
Inject == wrapper = "mqsim_wrap" /\ Goto("run", "inject")
Settle == pending = <<>> /\ Goto("inject", "settle")
Poll ==
    \/ wrapper = "ramulator2_wrap" /\ Goto("run", "poll")
    \/ wrapper = "mqsim_wrap" /\ Goto("settle", "poll")
End == completions = <<>> /\ Goto("poll", "idle")

Injecting == phase = (IF wrapper = "mqsim_wrap" THEN "inject" ELSE "run")
EngineRuns == phase \in {"run", "settle"}

InjectHead_NoAck_Mutant ==
    /\ Injecting
    /\ pending # <<>>
    /\ pending' = Tail(pending)
    /\ status' = [status EXCEPT ![Head(pending)] = "ENGINE"]
    /\ UNCHANGED <<wrapper, phase, completions, outstanding, retq>>

\* The simulator takes the oldest pending request.  A write is posted: it
\* completes at once for the GPU, whatever the simulator still does with it.
InjectHead ==
    /\ Injecting
    /\ pending # <<>>
    /\ pending' = Tail(pending)
    /\ LET f == Head(pending) IN
       IF IsRead(f)
       THEN /\ status' = [status EXCEPT ![f] = "ENGINE"]
            /\ UNCHANGED completions
       ELSE /\ status' = [status EXCEPT ![f] = "COMPLETION"]
            /\ completions' = Append(completions, f)
    /\ UNCHANGED <<wrapper, phase, outstanding, retq>>

\* The handlers a finished read is reported to that append to completions:
\* the read's own callback under ramulator2_wrap.  mqsim_wrap defines
\* tx_serviced_cb but connects it to no signal; MQSim's own components
\* handle the signal and know nothing of completions.
CompletionHandlers == IF wrapper = "ramulator2_wrap" THEN {"cb"} ELSE {}

\* The simulator finishes a read.
FinishRead(f) ==
    /\ EngineRuns
    /\ status[f] = "ENGINE"
    /\ IF CompletionHandlers # {}
       THEN /\ status' = [status EXCEPT ![f] = "COMPLETION"]
            /\ completions' = Append(completions, f)
       ELSE /\ status' = [status EXCEPT ![f] = "LOST"]
            /\ UNCHANGED completions
    /\ UNCHANGED <<wrapper, phase, pending, outstanding, retq>>

PollOne_Mutant ==
    /\ phase = "poll"
    /\ completions # <<>>
    /\ completions' = Tail(completions)
    /\ LET f == Head(completions)  p == partitionOf[f] IN
       IF IsWriteback(f)
       THEN /\ status' = [status EXCEPT ![f] = "NONE"]
            /\ UNCHANGED <<retq, outstanding>>
       ELSE /\ status' = [status EXCEPT ![f] = "RETURNQ"]
            /\ retq' = [retq EXCEPT ![p] = Append(@, f)]
            /\ outstanding' = [outstanding EXCEPT ![p] = @ - 1]
    /\ UNCHANGED <<wrapper, phase, pending>>

PollOne_NoDelete_Mutant ==
    /\ phase = "poll"
    /\ completions # <<>>
    /\ completions' = Tail(completions)
    /\ LET f == Head(completions)  p == partitionOf[f] IN
       /\ outstanding' = [outstanding EXCEPT ![p] = @ - 1]
       /\ status' = [status EXCEPT ![f] = "RETURNQ"]
       /\ retq' = [retq EXCEPT ![p] = Append(@, f)]
    /\ UNCHANGED <<wrapper, phase, pending>>

\* One completion: a writeback is deleted after set_done on the partition it
\* belongs to, any other fetch joins the return queue of that partition.
PollOne ==
    /\ phase = "poll"
    /\ completions # <<>>
    /\ completions' = Tail(completions)
    /\ LET f == Head(completions)  p == partitionOf[f] IN
       /\ outstanding' = [outstanding EXCEPT ![p] = IF @ > 0 THEN @ - 1 ELSE @]
       /\ IF IsWriteback(f)
          THEN /\ status' = [status EXCEPT ![f] = "NONE"]
               /\ UNCHANGED retq
          ELSE /\ status' = [status EXCEPT ![f] = "RETURNQ"]
               /\ retq' = [retq EXCEPT ![p] = Append(@, f)]
    /\ UNCHANGED <<wrapper, phase, pending>>

Cycle == Begin \/ Inject \/ Settle \/ Poll \/ End \/ PollOne

Next ==
    \/ Cycle
    \/ InjectHead
    \/ \E f \in Fetch : Push(f) \/ FinishRead(f)
    \/ \E p \in Partition : PopReturn(p)

Spec == Init /\ [][Next]_vars

(* Partition 0 cycles forever, the partitions pop their return queues, the     *)
(* simulator takes a request it is offered again and again and finishes every  *)
(* read it took.                                                               *)
Fairness ==
    /\ WF_vars(Cycle)
    /\ SF_vars(InjectHead)
    /\ \A f \in Fetch : SF_vars(FinishRead(f))
    /\ \A p \in Partition : SF_vars(PopReturn(p))

FairSpec == Spec /\ Fairness

-----------------------------------------------------------------------------
(* Properties *)

TypeOK ==
    /\ wrapper \in Wrapper
    /\ phase \in Phase
    /\ status \in [Fetch -> Status]
    /\ pending \in Seq(Fetch) /\ completions \in Seq(Fetch)
    /\ outstanding \in [Partition -> 0 .. MaxOutstanding]
    /\ retq \in [Partition -> Seq(Fetch)]

\* The objects the queues hold exactly once, where their status says they are:
\* no completion is reported twice and none is handed to a partition that did
\* not send it, although all partitions share pending and completions.
Placement ==
    /\ NoRepeat(pending) /\ Range(pending) = {f \in Fetch : status[f] = "PENDING"}
    /\ NoRepeat(completions)
    /\ Range(completions) = {f \in Fetch : status[f] = "COMPLETION"}
    /\ HoldsExactly(retq, status, "RETURNQ", partitionOf)

\* outstanding[p] counts exactly the fetches of p that were sent and not polled,
\* so that the test "outstanding[pid] > 0" of the poll loop never hides an
\* underflow and full() is about this partition alone.
Unpolled(p) ==
    {f \in Fetch : partitionOf[f] = p /\ status[f] \notin {"NONE", "RETURNQ"}}
OutstandingExact == \A p \in Partition : outstanding[p] = Cardinality(Unpolled(p))

\* The partition relies on full() alone: whenever it is false, the wrapper
\* accepts the request (the assert(0) after a refused send is never reached).
\* It takes MaxPending >= Cardinality(Partition) * MaxOutstanding.
SendAccepted == \A p \in Partition : ~Full(p) => Len(pending) < MaxPending

\* Seen from the partitions, a backend is a MemService.
ServiceState ==
    [f \in Fetch |-> CASE status[f] = "NONE" -> "idle"
                       [] status[f] = "RETURNQ" -> "answered"
                       [] OTHER -> "pending"]
Service == INSTANCE MemService WITH
    Writeback <- {f \in Fetch : IsWriteback(f)}, state <- ServiceState
ImplementsService == Service!Spec

\* Every fetch that was sent is answered or deleted; under mqsim_wrap this holds
\* of the posted writes only, whatever happens to the reads around them.
EventuallyAnswered ==
    \A f \in Fetch :
        status[f] = "PENDING" /\ (wrapper = "mqsim_wrap" => ~IsRead(f))
            ~> status[f] \in {"RETURNQ", "NONE"}

\* mqsim_wrap.cpp: "for a read, rely on MQSim calling tx_serviced_cb after the
\* simulated read latency to notify the GPU".
ReadsNotified ==
    \A f \in Fetch : status[f] = "ENGINE" ~> status[f] \in {"COMPLETION", "RETURNQ"}
=============================================================================
