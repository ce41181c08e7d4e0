----------------------------- MODULE ShaderCore -----------------------------
(***************************************************************************)
(* A trace-driven core, shader_core_ctx and trace_shader_core_ctx: warps   *)
(* of a CTA are fetched, decoded and issued in order, their instructions   *)
(* complete out of order under the scoreboard, warps meet at barriers,     *)
(* wait for asynchronous copies (LDGSTS, LDGDEPBAR, DEPBAR) and exit when  *)
(* their trace has ended and everything they must wait for is done.        *)
(*                                                                         *)
(* One action per stage and warp.  Which warp a scheduler or the fetch     *)
(* stage takes first, how long a unit or the memory needs and how operand  *)
(* collectors reorder instructions is left open: any order may happen.     *)
(***************************************************************************)
EXTENDS Integers, Sequences, FiniteSets, SequencesExt

CONSTANTS
    Warp,           \* the hardware warps
    Cta,            \* the CTA contexts
    warpsOf,        \* the warps a CTA in a context gets
    Reg,            \* registers
    Key,            \* the pc of an LDGSTS with the address of its first lane
    programs,       \* for each kernel the trace of each warp, the same for every CTA
    NoWarp,
    MemOut,         \* registers of the pipeline ID_OC_MEM
    Configs         \* the configurations, see Config

\* An instruction: dst and src are sets of registers, acc the number of its
\* memory accesses, n the immediate of a DEPBAR.
Op == {"alu", "load", "store", "ldgsts", "ldgdepbar", "depbar", "bar", "membar"}
\* l1_latency > 0: the L1 answers no access when it is sent;
\* perfect_inst_const_cache: every instruction fetch hits; a kernel, and
\* how many of its CTAs come to this core.
Config == [l1Latency : BOOLEAN, perfectFetch : BOOLEAN, kernel : DOMAIN programs, ctas : Nat]
Inst == [op : Op, dst : SUBSET Reg, src : SUBSET Reg, acc : Nat, key : Key, n : Nat]

\* The LDGDEPBARs in a trace up to i.
Closed(prog, i) == Cardinality({j \in 1 .. i : prog[j].op = "ldgdepbar"})

\* A trace, which ends with the EXIT of its warp.
IsTrace(prog) ==
    /\ prog \in Seq(Inst) /\ prog # <<>> /\ Last(prog).op = "alu"
    /\ \A i \in 1 .. Len(prog) :
          \* a DEPBAR names no more groups than were formed before it
          /\ prog[i].op = "depbar" => prog[i].n <= Closed(prog, i)
          /\ prog[i].dst # {} => prog[i].op \in {"alu", "load"}
          /\ prog[i].op = "load" => prog[i].dst # {}
          /\ prog[i].op \notin {"load", "store", "ldgsts"} => prog[i].acc = 0

ASSUME CoreAssumption ==
    /\ IsFiniteSet(Warp) /\ NoWarp \notin Warp
    /\ warpsOf \in [Cta -> SUBSET Warp] /\ UNION Range(warpsOf) = Warp
    /\ \A c \in Cta : warpsOf[c] # {}
    /\ \A c, d \in Cta : c # d => warpsOf[c] \cap warpsOf[d] = {}
    /\ \A k \in DOMAIN programs : DOMAIN programs[k] = Warp
    /\ \A k \in DOMAIN programs : \A w \in Warp : IsTrace(programs[k][w])
    /\ MemOut \in Nat \ {0}
    /\ Configs \subseteq Config

VARIABLES
    config,         \* a member of Configs
    ctas,           \* CTAs still to be issued
    status,         \* m_cta_status, in warps; 0 when the context is free
    trace,          \* the trace position of each warp
    ibuffer,        \* m_ibuffer: positions decoded and not issued
    fetched,        \* m_inst_fetch_buffer, the warp or NoWarp
    imiss,          \* the warps with imiss_pending()
    completed,      \* the warps with functional_done()
    doneExit,       \* the warps with done_exit()
    inPipe,         \* m_inst_in_pipeline
    stores,         \* m_stores_outstanding
    reserved,       \* reg_table of the scoreboard
    membar,         \* the warps with m_membar
    active,         \* m_warp_active of the barrier set
    atBarrier,      \* m_warp_at_barrier
    arrived,        \* m_bar_id_to_warps[0]; traces use no other barrier
    group,          \* m_ldgdepbar_id
    copies,         \* m_ldgdepbar_buf: keys of unfinished copies, by group
    depbar,         \* m_depbar_start_id, m_depbar_group, m_waiting_ldgsts
    exec,           \* instructions in execution units, as <<warp, position>>
    memOut,         \* memory instructions issued and not in the dispatch register
    dispatch,       \* m_dispatch_reg of ldst_unit: <<warp, position, accesses>>
    pendingWrites,  \* m_pending_writes
    pendingCopies,  \* m_pending_ldgsts
    flight          \* accesses that the caches or the memory have to answer

frontVars == <<trace, ibuffer, fetched, imiss>>
warpVars == <<completed, doneExit, inPipe, stores, membar>>
barrierVars == <<active, atBarrier, arrived>>
depbarVars == <<group, copies, depbar>>
ldstVars == <<memOut, dispatch, pendingWrites, pendingCopies, flight>>
vars == <<config, ctas, status, frontVars, warpVars, reserved, barrierVars, depbarVars, exec,
          ldstVars>>

program == programs[config.kernel]
Pos(w) == 1 .. Len(program[w])

NotWaiting == [start |-> 0, group |-> 0, waiting |-> FALSE]

Init ==
    /\ config \in Configs
    /\ ctas = config.ctas /\ status = [c \in Cta |-> 0]
    /\ trace = [w \in Warp |-> 1] /\ ibuffer = [w \in Warp |-> <<>>]
    /\ fetched = NoWarp /\ imiss = {}
    /\ completed = Warp /\ doneExit = Warp
    /\ inPipe = [w \in Warp |-> 0] /\ stores = inPipe /\ group = inPipe
    /\ reserved = [w \in Warp |-> {}] /\ membar = {}
    /\ active = {} /\ atBarrier = {} /\ arrived = {}
    /\ copies = [w \in Warp |-> <<>>] /\ depbar = [w \in Warp |-> NotWaiting]
    /\ exec = {} /\ memOut = {} /\ dispatch = <<>>
    /\ pendingWrites = [w \in Warp |-> [r \in Reg |-> 0]]
    /\ pendingCopies = [w \in Warp |-> [k \in Key |-> 0]]
    /\ flight = [w \in Warp |-> [i \in Pos(w) |-> 0]]

CtaOf(w) == CHOOSE c \in Cta : w \in warpsOf[c]

(***************************************************************************)
(* CTAs: issue_block2core with reinit, allocate_barrier and init_warps     *)
(***************************************************************************)
IssueCta(c) ==
    LET warps == warpsOf[c] IN
    /\ ctas > 0 /\ status[c] = 0
    /\ ctas' = ctas - 1
    /\ status' = [status EXCEPT ![c] = Cardinality(warps)]
    /\ trace' = [w \in Warp |-> IF w \in warps THEN 1 ELSE trace[w]]
    /\ imiss' = imiss \ warps
    /\ completed' = completed \ warps /\ doneExit' = doneExit \ warps
    /\ membar' = membar \ warps
    /\ active' = active \cup warps
    /\ atBarrier' = atBarrier \ warps /\ arrived' = arrived \ warps
    /\ group' = [w \in Warp |-> IF w \in warps THEN 0 ELSE group[w]]
    /\ copies' = [w \in Warp |-> IF w \in warps THEN <<>> ELSE copies[w]]
    /\ depbar' = [w \in Warp |-> IF w \in warps THEN NotWaiting ELSE depbar[w]]
    /\ UNCHANGED <<config, ibuffer, fetched, inPipe, stores, reserved, exec, ldstVars>>

(***************************************************************************)
(* fetch and decode                                                        *)
(***************************************************************************)
\* A warp that has finished is found when the fetch stage passes it: its
\* threads exit (register_cta_thread_exit, deallocate_barrier).
Exit(w) ==
    /\ fetched = NoWarp
    /\ w \in completed \ doneExit
    /\ stores[w] = 0 /\ inPipe[w] = 0 /\ reserved[w] = {}
    /\ doneExit' = doneExit \cup {w}
    /\ status' = [status EXCEPT ![CtaOf(w)] = @ - 1]
    /\ LET warps == IF status[CtaOf(w)] = 1 THEN warpsOf[CtaOf(w)] ELSE {} IN
          /\ active' = active \ warps
          /\ atBarrier' = atBarrier \ warps
          /\ arrived' = arrived \ warps
    /\ UNCHANGED <<config, ctas, frontVars, completed, inPipe, stores, membar, reserved,
                   depbarVars, exec, ldstVars>>

\* A warp with an empty buffer reads the instruction cache, which hits or
\* misses.
Fetch(w) ==
    /\ fetched = NoWarp
    /\ w \notin completed \cup imiss /\ ibuffer[w] = <<>>
    /\ \/ fetched' = w /\ UNCHANGED imiss
       \/ ~config.perfectFetch /\ imiss' = imiss \cup {w} /\ UNCHANGED fetched
    /\ UNCHANGED <<config, ctas, status, trace, ibuffer, warpVars, reserved, barrierVars,
                   depbarVars, exec, ldstVars>>

InstructionArrives(w) ==
    /\ fetched = NoWarp /\ w \in imiss
    /\ fetched' = w /\ imiss' = imiss \ {w}
    /\ UNCHANGED <<config, ctas, status, trace, ibuffer, warpVars, reserved, barrierVars,
                   depbarVars, exec, ldstVars>>

\* barrier_set_t::warp_exit: those that wait need not wait for this warp.
BarrierExit(w) ==
    LET warps == warpsOf[CtaOf(w)]
        all == warps \cap arrived = (warps \cap active) \ {w}
    IN  /\ active' = active \ {w}
        /\ arrived' = IF all THEN arrived \ warps ELSE arrived
        /\ atBarrier' = IF all THEN atBarrier \ (warps \cap arrived) ELSE atBarrier

\* Mutant: unacknowledged stores are not asked.
TraceExits_Mutant(w) == inPipe[w] = 0 /\ reserved[w] = {}

\* What get_next_inst asks at the end of a trace before the warp is complete.
TraceExits(w) == inPipe[w] = 0 /\ stores[w] = 0 /\ reserved[w] = {}

\* decode: the next one or two instructions, or the end of the trace.
Decode ==
    LET w == fetched
        next == {trace[w], trace[w] + 1} \cap Pos(w)
    IN
    /\ w # NoWarp
    /\ fetched' = NoWarp
    /\ ibuffer' = [ibuffer EXCEPT ![w] = [k \in 1 .. Cardinality(next) |-> trace[w] + k - 1]]
    /\ inPipe' = [inPipe EXCEPT ![w] = @ + Cardinality(next)]
    /\ trace' = [trace EXCEPT ![w] = @ + Cardinality(next)]
    /\ IF next = {} /\ TraceExits(w)
       THEN completed' = completed \cup {w} /\ BarrierExit(w)
       ELSE UNCHANGED <<completed, barrierVars>>
    /\ UNCHANGED <<config, ctas, status, imiss, doneExit, stores, membar, reserved, depbarVars,
                   exec, ldstVars>>

(***************************************************************************)
(* issue: scheduler_unit::cycle and issue_warp                             *)
(***************************************************************************)
IsMemory(inst) == inst.op \in {"load", "store", "ldgsts", "membar"}

\* shd_warp_t::waiting.  A memory barrier waits for the scoreboard alone.
Waiting(w) ==
    \/ w \in completed
    \/ w \in atBarrier
    \/ w \in membar /\ reserved[w] # {}
    \/ depbar[w].waiting

\* Mutant: registers written twice are not compared.
Collides_Mutant(w, inst) == inst.src \cap reserved[w] # {}

\* Scoreboard::checkCollision.
Collides(w, inst) == (inst.dst \cup inst.src) \cap reserved[w] # {}

\* Mutant: the barrier keeps its arrivals after a release.
BarrierReached_Mutant(w) ==
    LET warps == warpsOf[CtaOf(w)]
        here == warps \cap (arrived \cup {w})
    IN  /\ arrived' = arrived \cup {w}
        /\ atBarrier' = IF here = warps \cap active THEN atBarrier \ here ELSE atBarrier \cup {w}

\* barrier_set_t::warp_reaches_barrier with bar_count -1.
BarrierReached(w) ==
    LET warps == warpsOf[CtaOf(w)]
        here == warps \cap (arrived \cup {w})
    IN  IF here = warps \cap active
        THEN arrived' = arrived \ here /\ atBarrier' = atBarrier \ here
        ELSE arrived' = arrived \cup {w} /\ atBarrier' = atBarrier \cup {w}

\* Mutant: the last of the groups is not asked.
GroupsDone_Mutant(buf, n) == \A g \in 1 .. n - 1 : buf[g] = <<>>

\* The copies of the first n groups are done.
GroupsDone(buf, n) == \A g \in 1 .. n : buf[g] = <<>>

\* An LDGSTS joins the group that the next LDGDEPBAR closes.  One without
\* active lanes counts as done.
JoinGroup(w, inst) ==
    LET own == IF inst.acc = 0 THEN <<>> ELSE <<inst.key>>
        buf == copies[w]
        joined == IF Len(buf) = group[w] + 1
                  THEN [buf EXCEPT ![group[w] + 1] = @ \o own]
                  ELSE Append(buf, own)
    IN  copies' = [copies EXCEPT ![w] = joined]

CloseGroup(w) ==
    /\ group' = [group EXCEPT ![w] = @ + 1]
    /\ copies' = [copies EXCEPT ![w] = IF Len(@) = group[w] + 1 THEN @ ELSE Append(@, <<>>)]

\* DEPBAR n waits for all groups but the last n.
WaitForGroups(w, n) ==
    depbar' = [depbar EXCEPT ![w] =
                  [start |-> group[w] - 1, group |-> n,
                   waiting |-> ~GroupsDone(copies[w], group[w] - n)]]

Issue(w) ==
    LET i == Head(ibuffer[w])
        inst == program[w][i]
    IN
    /\ w \notin doneExit /\ ~Waiting(w) /\ ibuffer[w] # <<>>
    /\ ~Collides(w, inst)
    /\ IF IsMemory(inst)
       THEN /\ Cardinality(memOut) < MemOut
            /\ memOut' = memOut \cup {<<w, i>>} /\ UNCHANGED exec
       ELSE exec' = exec \cup {<<w, i>>} /\ UNCHANGED memOut
    /\ ibuffer' = [ibuffer EXCEPT ![w] = Tail(@)]
    /\ reserved' = [reserved EXCEPT ![w] = @ \cup inst.dst]
    /\ membar' = IF inst.op = "membar" THEN membar \cup {w} ELSE membar \ {w}
    /\ IF inst.op = "bar" THEN BarrierReached(w) ELSE UNCHANGED <<arrived, atBarrier>>
    /\ CASE inst.op = "ldgsts" -> JoinGroup(w, inst) /\ UNCHANGED <<group, depbar>>
         [] inst.op = "ldgdepbar" -> CloseGroup(w) /\ UNCHANGED depbar
         [] inst.op = "depbar" -> WaitForGroups(w, inst.n) /\ UNCHANGED <<group, copies>>
         [] OTHER -> UNCHANGED depbarVars
    /\ UNCHANGED <<config, ctas, status, trace, fetched, imiss, completed, doneExit, inPipe,
                   stores, active, dispatch, pendingWrites, pendingCopies, flight>>

\* An instruction leaves an execution unit: shader_core_ctx::writeback.
Writeback(w, i) ==
    /\ <<w, i>> \in exec
    /\ exec' = exec \ {<<w, i>>}
    /\ reserved' = [reserved EXCEPT ![w] = @ \ program[w][i].dst]
    /\ inPipe' = [inPipe EXCEPT ![w] = @ - 1]
    /\ UNCHANGED <<config, ctas, status, frontVars, completed, doneExit, stores, membar,
                   barrierVars, depbarVars, ldstVars>>

(***************************************************************************)
(* ldst_unit                                                               *)
(***************************************************************************)
\* unset_depbar: the first unfinished copy with this key is done; a warp that
\* waits goes on when the groups its DEPBAR names are.
Unset(w, k) ==
    LET found == {g \in DOMAIN copies[w] : k \in Range(copies[w][g])}
        first == CHOOSE g \in found : \A h \in found : g <= h
        buf == IF found = {} THEN copies[w]
               ELSE [copies[w] EXCEPT ![first] = RemoveFirst(@, k)]
        end == IF depbar[w].start = 0 THEN Len(buf) ELSE depbar[w].start - depbar[w].group + 1
    IN  /\ copies' = [copies EXCEPT ![w] = buf]
        /\ depbar' = [depbar EXCEPT ![w].waiting = @ /\ ~GroupsDone(buf, end)]
        /\ UNCHANGED group

\* An answer to an access: the counters of its registers, or of its copy.
Count(w, inst) == [pendingWrites EXCEPT ![w] = [r \in Reg |-> IF r \in inst.dst THEN @[r] - 1 ELSE @[r]]]

CopyAnswered(w, inst) ==
    /\ pendingCopies' = [pendingCopies EXCEPT ![w][inst.key] = @ - 1]
    /\ IF pendingCopies[w][inst.key] = 1 THEN Unset(w, inst.key) ELSE UNCHANGED depbarVars

\* ldst_unit::issue.
ToDispatch(w, i) ==
    LET inst == program[w][i] IN
    /\ dispatch = <<>> /\ <<w, i>> \in memOut
    /\ memOut' = memOut \ {<<w, i>>}
    /\ dispatch' = <<w, i, inst.acc>>
    /\ pendingWrites' = [pendingWrites EXCEPT ![w] =
                            [r \in Reg |-> IF r \in inst.dst THEN @[r] + inst.acc ELSE @[r]]]
    /\ pendingCopies' = [pendingCopies EXCEPT ![w][inst.key] =
                            IF inst.op = "ldgsts" THEN @ + inst.acc ELSE @]
    /\ UNCHANGED <<config, ctas, status, frontVars, warpVars, reserved, barrierVars, depbarVars,
                   exec, flight>>

\* memory_cycle: the next access of the instruction goes to the L1 or to the
\* interconnect, ...
Access ==
    LET w == dispatch[1]
        i == dispatch[2]
    IN
    /\ dispatch # <<>> /\ dispatch[3] > 0
    /\ dispatch' = <<w, i, dispatch[3] - 1>>
    /\ flight' = [flight EXCEPT ![w][i] = @ + 1]
    /\ stores' = [stores EXCEPT ![w] = IF program[w][i].op = "store" THEN @ + 1 ELSE @]
    /\ UNCHANGED <<config, ctas, status, frontVars, completed, doneExit, inPipe, membar,
                   reserved, barrierVars, depbarVars, exec, memOut, pendingWrites, pendingCopies>>

\* ... or hits an L1 that answers at once: process_cache_access.
AccessHits ==
    LET w == dispatch[1]
        i == dispatch[2]
        inst == program[w][i]
    IN
    /\ ~config.l1Latency
    /\ dispatch # <<>> /\ dispatch[3] > 0
    /\ dispatch' = <<w, i, dispatch[3] - 1>>
    /\ pendingWrites' = Count(w, inst)
    /\ IF inst.op = "ldgsts" THEN CopyAnswered(w, inst) ELSE UNCHANGED <<depbarVars, pendingCopies>>
    /\ UNCHANGED <<config, ctas, status, frontVars, warpVars, reserved, barrierVars, exec,
                   memOut, flight>>

Leaving == dispatch # <<>> /\ dispatch[3] = 0

\* The end of ldst_unit::cycle: an instruction without accesses leaves.
Leave ==
    LET w == dispatch[1]
        inst == program[w][dispatch[2]]
        answered == \A r \in inst.dst : pendingWrites[w][r] = 0
    IN
    /\ Leaving
    /\ dispatch' = <<>>
    /\ inPipe' = [inPipe EXCEPT ![w] = @ - 1]
    /\ reserved' = [reserved EXCEPT ![w] = IF answered THEN @ \ inst.dst ELSE @]
    /\ IF inst.op = "ldgsts" /\ pendingCopies[w][inst.key] = 0
       THEN Unset(w, inst.key) ELSE UNCHANGED depbarVars
    /\ UNCHANGED <<config, ctas, status, frontVars, completed, doneExit, stores, membar,
                   barrierVars, exec, memOut, pendingWrites, pendingCopies, flight>>

\* Mutant: stores are not acknowledged.
StoreAck_Mutant(w, inst) == UNCHANGED stores

\* store_ack
StoreAck(w, inst) == stores' = [stores EXCEPT ![w] = IF inst.op = "store" THEN @ - 1 ELSE @]

\* An access is answered: writeback of a load or a copy, or store_ack.  The
\* last access of an instruction is sent in the cycle in which it leaves.
Answer(w, i) ==
    LET inst == program[w][i] IN
    /\ flight[w][i] > 0
    /\ ~Leaving
    /\ flight' = [flight EXCEPT ![w][i] = @ - 1]
    /\ StoreAck(w, inst)
    /\ pendingWrites' = Count(w, inst)
    /\ reserved' = [reserved EXCEPT ![w] = @ \ {r \in inst.dst : pendingWrites[w][r] = 1}]
    /\ IF inst.op = "ldgsts" THEN CopyAnswered(w, inst) ELSE UNCHANGED <<depbarVars, pendingCopies>>
    /\ UNCHANGED <<config, ctas, status, frontVars, completed, doneExit, inPipe, membar,
                   barrierVars, exec, memOut, dispatch>>

Stopped == ctas = 0 /\ doneExit = Warp

\* What brings a warp on: its instructions issue and complete, it exits ...
Work(w) ==
    \/ Exit(w) \/ Issue(w)
    \/ \E i \in Pos(w) : Writeback(w, i) \/ ToDispatch(w, i) \/ Answer(w, i)

\* ... and its next instructions reach the fetch buffer.
Fetches(w) == (Fetch(w) /\ fetched' = w) \/ InstructionArrives(w)

Dispatch == Access \/ AccessHits \/ Leave

Next ==
    \/ \E c \in Cta : IssueCta(c)
    \/ Decode \/ Dispatch
    \/ \E w \in Warp : Fetch(w) \/ InstructionArrives(w) \/ Work(w)
    \/ Stopped /\ UNCHANGED vars

Spec == Init /\ [][Next]_vars

\* Every stage serves every warp: fetch goes round the warps, schedulers and
\* units take what is ready, and the memory answers.
Fairness ==
    /\ WF_vars(\E c \in Cta : IssueCta(c))
    /\ WF_vars(Decode) /\ WF_vars(Dispatch)
    /\ \A w \in Warp : SF_vars(Work(w)) /\ SF_vars(Fetches(w))

FairSpec == Spec /\ Fairness

(***************************************************************************)
(* Correctness                                                             *)
(***************************************************************************)
IssuedPos(w) == 1 .. trace[w] - 1 - Len(ibuffer[w])

InLdst(w) == {i \in Pos(w) : <<w, i>> \in memOut \/ (dispatch # <<>> /\ dispatch[1] = w /\ dispatch[2] = i)}
InPipeline(w) == {i \in Pos(w) : <<w, i>> \in exec} \cup InLdst(w)
Outstanding(w) == InPipeline(w) \cup {i \in Pos(w) : flight[w][i] > 0}

\* The accesses of stores that have no acknowledgement yet, numbered.
Unacknowledged(w) ==
    UNION {({i} \X (1 .. flight[w][i])) : i \in {j \in Pos(w) : program[w][j].op = "store"}}

\* A register is reserved exactly while an instruction that writes it is on
\* its way, and two such instructions never write one register (reserveRegister
\* aborts); what a warp counts as in the pipeline or as unacknowledged stores is.
PipelineExact ==
    \A w \in Warp :
       /\ reserved[w] = UNION {program[w][i].dst : i \in Outstanding(w)}
       /\ \A i, j \in Outstanding(w) : i # j => program[w][i].dst \cap program[w][j].dst = {}
       /\ inPipe[w] = Len(ibuffer[w]) + Cardinality(InPipeline(w))
       /\ stores[w] = Cardinality(Unacknowledged(w))

\* An access of this instruction has not been answered.
Unanswered(w, i) ==
    /\ program[w][i].acc > 0
    /\ <<w, i>> \in memOut \/ flight[w][i] > 0 \/ (\E n \in 1 .. program[w][i].acc : dispatch = <<w, i, n>>)

Barriers(w) == Cardinality({i \in IssuedPos(w) : program[w][i].op = "bar"})

\* Of the warps of a CTA that have not exited, one that does not wait has
\* never come past a barrier that another one has not reached
\* (warp_reaches_barrier, warp_exit).
BarrierOrder ==
    \A c \in Cta : \A w, v \in warpsOf[c] :
       w \notin atBarrier /\ v \notin completed => Barriers(w) <= Barriers(v)

\* A warp exits after all it has issued is done, save copies nobody waits for,
\* and outside the barrier; so deallocate_barrier finds none of its warps there.
ExitsDrained ==
    \A w \in completed :
       /\ w \notin active \cup atBarrier \cup arrived
       /\ ibuffer[w] = <<>>
       /\ \A i \in Outstanding(w) : program[w][i].op = "ldgsts"

\* trace_driven.cc:400: a warp that has passed a DEPBAR n has all the copies
\* but those of the last n groups.
CopiesAwaited ==
    \A w \in Warp \ completed : ~depbar[w].waiting =>
       \A d \in IssuedPos(w) : program[w][d].op = "depbar" =>
          \A i \in 1 .. d : program[w][i].op = "ldgsts" /\ Closed(program[w], i) < Closed(program[w], d) - program[w][d].n =>
             ~Unanswered(w, i)

\* Every CTA is run to the exit of its last warp: no warp waits for ever at a
\* barrier, for a register, for its stores or for its copies.
CtasComplete == <>Stopped
=============================================================================
