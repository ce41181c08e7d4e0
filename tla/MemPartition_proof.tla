-------------------------- MODULE MemPartition_proof --------------------------
(***************************************************************************)
(* Proofs about MemPartition for every number of sub partitions, every     *)
(* finite set of fetches and every queue size, latency and backend         *)
(* capacity.                                                               *)
(***************************************************************************)
EXTENDS MemPartition, Queues_proof, FiniteSetTheorems

USE NSubAssumption, FetchAssumption, SizeAssumption, CreditAssumption

-----------------------------------------------------------------------------
(* Types *)

\* What a reply, a finished writeback and a credit do to the types.
LEMMA ReturnCreditType ==
    ASSUME TypeOK, NEW s \in Sub, ReturnCredit(s)
    PROVE  /\ priv' \in [Sub -> 0 .. PrivateLimit]
           /\ shared' \in Int
           /\ lastBorrower' \in Sub
<1> USE DEF TypeOK, ReturnCredit, PrivateLimit
<1>1. priv[s] \in 0 .. 1 /\ shared \in Int
  OBVIOUS
<1>2. CASE priv[s] > 0
  <2>1. priv' = [priv EXCEPT ![s] = priv[s] - 1] /\ priv[s] - 1 \in 0 .. 1
    BY <1>1, <1>2
  <2>2. QED BY <2>1, <1>2
<1>3. CASE ~(priv[s] > 0)
  BY <1>1, <1>3
<1>4. QED BY <1>2, <1>3

LEMMA BorrowCreditType ==
    ASSUME TypeOK, NEW s \in Sub, BorrowCredit(s)
    PROVE  /\ priv' \in [Sub -> 0 .. PrivateLimit]
           /\ shared' \in Int
           /\ lastBorrower' \in Sub
<1> USE DEF TypeOK, BorrowCredit, PrivateLimit
<1>1. priv[s] \in 0 .. 1 /\ shared \in Int
  OBVIOUS
<1>2. CASE priv[s] < 1
  <2>1. priv' = [priv EXCEPT ![s] = priv[s] + 1] /\ priv[s] + 1 \in 0 .. 1
    BY <1>1, <1>2
  <2>2. QED BY <2>1, <1>2
<1>3. CASE ~(priv[s] < 1)
  BY <1>1, <1>3
<1>4. QED BY <1>2, <1>3

\* A reply is appended to a dram-to-L2 queue that is not full.
LEMMA ReplyType ==
    ASSUME TypeOK, NEW f \in Fetch, ReplyToL2(f), ~DramL2Full(subOf[f])
    PROVE  /\ status' \in [Fetch -> Status]
           /\ dramL2' \in [Sub -> Seq(Fetch)]
           /\ \A s \in Sub : Len(dramL2'[s]) <= DramL2Size
           /\ priv' \in [Sub -> 0 .. PrivateLimit]
           /\ shared' \in Int
           /\ lastBorrower' \in Sub
<1> DEFINE k == subOf[f]
<1>1. k \in Sub /\ ReturnCredit(k)
  BY DEF ReplyToL2
<1>2. /\ status' = [status EXCEPT ![f] = "DRAM_TO_L2"]
      /\ dramL2' = [dramL2 EXCEPT ![k] = Append(dramL2[k], f)]
  BY DEF ReplyToL2
<1>3. status' \in [Fetch -> Status]
  BY <1>2 DEF TypeOK, Status
<1>4. /\ dramL2[k] \in Seq(Fetch)
      /\ Append(dramL2[k], f) \in Seq(Fetch)
      /\ Len(Append(dramL2[k], f)) = Len(dramL2[k]) + 1
  BY <1>1, AppendType DEF TypeOK
<1>5. Len(Append(dramL2[k], f)) <= DramL2Size
  BY <1>4, <1>1 DEF DramL2Full, TypeOK
<1>6. /\ dramL2' \in [Sub -> Seq(Fetch)]
      /\ \A s \in Sub : Len(dramL2'[s]) <= DramL2Size
  BY <1>1, <1>2, <1>4, <1>5 DEF TypeOK
<1>7. QED
  BY <1>1, <1>3, <1>6, ReturnCreditType

LEMMA SetDoneType ==
    ASSUME TypeOK, NEW f \in Fetch, SetDone(f)
    PROVE  /\ status' \in [Fetch -> Status]
           /\ priv' \in [Sub -> 0 .. PrivateLimit]
           /\ shared' \in Int
           /\ lastBorrower' \in Sub
<1>1. subOf[f] \in Sub /\ ReturnCredit(subOf[f])
  BY DEF SetDone
<1>2. status' \in [Fetch -> Status]
  BY DEF SetDone, TypeOK, Status
<1>3. QED BY <1>1, <1>2, ReturnCreditType

\* Popping the return queue of a backend keeps the types, popped or not.
LEMMA PopReturnType ==
    ASSUME TypeOK, UNCHANGED simple, NEW b \in Backend, PopReturn(b), phase' \in Phase
    PROVE  TypeOK'
<1>1. CASE retq[b] # <<>> /\ ~DramL2Full(subOf[Head(retq[b])])
  <2>1. Head(retq[b]) \in Fetch /\ Tail(retq[b]) \in Seq(Fetch)
    BY <1>1, HeadTail DEF TypeOK
  <2>2. ReplyToL2(Head(retq[b])) /\ retq' = [retq EXCEPT ![b] = Tail(retq[b])]
    BY <1>1 DEF PopReturn
  <2>3. retq' \in [Backend -> Seq(Fetch)]
    BY <2>1, <2>2 DEF TypeOK
  <2>4. QED
    BY <1>1, <2>1, <2>2, <2>3, ReplyType DEF PopReturn, TypeOK, backend
<1>2. CASE ~(retq[b] # <<>> /\ ~DramL2Full(subOf[Head(retq[b])]))
  BY <1>2 DEF PopReturn, TypeOK, backend, credits
<1>3. QED BY <1>1, <1>2

\* The same of the HBM latency queue of the simple model.
LEMMA PopSimpleType ==
    ASSUME TypeOK, UNCHANGED simple, PopSimple, phase' \in Phase
    PROVE  TypeOK'
<1> DEFINE f == Head(latq["HBM"])
           ready == latq["HBM"] # <<>> /\ wait[f] = 0
<1>1. "HBM" \in Backend /\ latq["HBM"] \in Seq(Fetch)
  BY DEF Backend, TypeOK
<1>2. CASE ready /\ (IsWriteback(f) \/ ~DramL2Full(subOf[f]))
  <2>1. f \in Fetch /\ Tail(latq["HBM"]) \in Seq(Fetch)
    BY <1>1, <1>2, HeadTail
  <2>2. latq' = [latq EXCEPT !["HBM"] = Tail(latq["HBM"])]
    BY <1>2 DEF PopSimple
  <2>3. latq' \in [Backend -> Seq(Fetch)]
    BY <1>1, <2>1, <2>2 DEF TypeOK
  <2>4. CASE IsWriteback(f)
    <3>1. SetDone(f) /\ UNCHANGED <<dramL2, l2dram, retq, wait, held, used>>
      BY <1>2, <2>4 DEF PopSimple, backend
    <3>2. QED BY <2>1, <2>3, <3>1, SetDoneType DEF TypeOK
  <2>5. CASE ~IsWriteback(f)
    <3>1. /\ ReplyToL2(f) /\ ~DramL2Full(subOf[f])
          /\ UNCHANGED <<l2dram, retq, wait, held, used>>
      BY <1>2, <2>5 DEF PopSimple, backend
    <3>2. QED BY <2>1, <2>3, <3>1, ReplyType DEF TypeOK
  <2>6. QED BY <2>4, <2>5
<1>3. CASE ~(ready /\ (IsWriteback(f) \/ ~DramL2Full(subOf[f])))
  BY <1>3 DEF PopSimple, TypeOK, backend, credits
<1>4. QED BY <1>2, <1>3

\* Moving the head of a latency queue into its backend keeps the types.
LEMMA PushReadyType ==
    ASSUME TypeOK, UNCHANGED simple, NEW b \in Backend, PushReady(b), phase' \in Phase
    PROVE  TypeOK'
<1> DEFINE f == Head(latq[b])
<1>0. PICK w \in BOOLEAN : w = IsWrite(f)
  BY DEF IsWrite
<1>1. CASE MayPush(b)
  <2>1. f \in Fetch /\ Tail(latq[b]) \in Seq(Fetch)
    BY <1>1, HeadTail DEF MayPush, TypeOK
  <2>2. /\ status' = [status EXCEPT ![f] = "BACKEND"]
        /\ held' = [held EXCEPT ![b] = held[b] \cup {f}]
        /\ used' = [used EXCEPT ![b] = [used[b] EXCEPT ![w] = used[b][w] + 1]]
        /\ latq' = [latq EXCEPT ![b] = Tail(latq[b])]
    BY <1>0, <1>1 DEF PushReady, BackendPush, MayPush
  <2>3. /\ latq' \in [Backend -> Seq(Fetch)]
        /\ held' \in [Backend -> SUBSET Fetch]
        /\ status' \in [Fetch -> Status]
    BY <2>1, <2>2 DEF TypeOK, Status
  <2>4. used[b] \in [BOOLEAN -> Nat] /\ used[b][w] \in Nat /\ Slots[b] \in Nat
    BY DEF TypeOK
  <2>9. used[b][w] + 1 <= Slots[b]
    BY <1>0, <1>1, <2>4 DEF MayPush, BackendFull
  <2>5. [used[b] EXCEPT ![w] = used[b][w] + 1] \in [BOOLEAN -> Nat]
    BY <2>4
  <2>6. used' \in [Backend -> [BOOLEAN -> Nat]]
    BY <2>2, <2>5 DEF TypeOK
  <2>7. \A c \in Backend, x \in BOOLEAN : used'[c][x] <= Slots[c]
    BY <2>2, <2>4, <2>9 DEF TypeOK
  <2>8. QED
    BY <2>3, <2>6, <2>7 DEF PushReady, TypeOK, credits
<1>2. CASE ~MayPush(b)
  BY <1>2 DEF PushReady, TypeOK, backend, credits
<1>3. QED BY <1>1, <1>2

\* Issuing the head of an L2-to-dram queue, or nothing, keeps the types.
LEMMA ArbitrateType ==
    ASSUME TypeOK, UNCHANGED simple, Arbitrate, phase' \in Phase
    PROVE  TypeOK'
<1>1. CASE UNCHANGED <<status, l2dram, latq, wait, credits>>
  BY <1>1 DEF Arbitrate, TypeOK, backend, credits
<1>2. ASSUME NEW s \in Sub, Chosen(s), ~BackendFull(backendOf[Head(l2dram[s])], Head(l2dram[s])),
             l2dram' = [l2dram EXCEPT ![s] = Tail(l2dram[s])],
             latq' = [latq EXCEPT ![backendOf[Head(l2dram[s])]] =
                        Append(latq[backendOf[Head(l2dram[s])]], Head(l2dram[s]))],
             wait' = [wait EXCEPT ![Head(l2dram[s])] = Latency[backendOf[Head(l2dram[s])]]],
             status' = [status EXCEPT ![Head(l2dram[s])] = "LATENCY"],
             BorrowCredit(s)
      PROVE  TypeOK'
  <2> DEFINE f == Head(l2dram[s])
             b == backendOf[f]
  <2>7. /\ l2dram[s] \in Seq(Fetch) /\ l2dram[s] # <<>>
        /\ Len(l2dram[s]) <= L2DramSize
    BY <1>2 DEF Chosen, Ready, TypeOK
  <2>1. /\ f \in Fetch /\ b \in Backend
        /\ Tail(l2dram[s]) \in Seq(Fetch)
        /\ Len(Tail(l2dram[s])) <= L2DramSize
    BY <2>7, HeadTail
  <2>2. Append(latq[b], f) \in Seq(Fetch)
    BY <2>1, AppendType DEF TypeOK
  <2>3. /\ latq' \in [Backend -> Seq(Fetch)]
        /\ l2dram' \in [Sub -> Seq(Fetch)]
        /\ \A t \in Sub : Len(l2dram'[t]) <= L2DramSize
    BY <1>2, <2>1, <2>2 DEF TypeOK
  <2>4. Latency[b] \in Nat
    BY <2>1
  <2>5. wait' \in [Fetch -> Nat] /\ status' \in [Fetch -> Status]
    BY <1>2, <2>1, <2>4 DEF TypeOK, Status
  <2>6. QED
    BY <1>2, <2>3, <2>5, BorrowCreditType DEF Arbitrate, TypeOK, backend
<1>3. QED
  BY <1>1, <1>2 DEF Arbitrate

\* The variables always have their types and no bounded queue overflows: the
\* L2-to-dram and dram-to-L2 queues stay within their sizes and a backend
\* within its slots.
THEOREM TypeCorrect == Spec => []TypeOK
<1>1. Init => TypeOK
  BY DEF Init, TypeOK, Phase, Status, Backend, Sub, PrivateLimit
<1>2. TypeOK /\ [Next]_vars => TypeOK'
  <2> SUFFICES ASSUME TypeOK, [Next]_vars PROVE TypeOK'
    OBVIOUS
  <2>0. UNCHANGED simple
    BY DEF Next, vars
  <2> USE <2>0
  <2>1. ASSUME NEW f \in Fetch, L2Push(f) PROVE TypeOK'
    <3>1. subOf[f] \in Sub /\ l2dram[subOf[f]] \in Seq(Fetch)
      BY DEF TypeOK
    <3>2. /\ Append(l2dram[subOf[f]], f) \in Seq(Fetch)
          /\ Len(Append(l2dram[subOf[f]], f)) <= L2DramSize
      BY <2>1, <3>1, AppendType DEF L2Push
    <3>3. QED
      BY <2>1, <3>1, <3>2
      DEF L2Push, TypeOK, Status, queues, backend, credits
  <2>2. ASSUME NEW s \in Sub, L2Pop(s) PROVE TypeOK'
    <3>1. /\ dramL2[s] \in Seq(Fetch) /\ dramL2[s] # <<>>
          /\ Len(dramL2[s]) <= DramL2Size
      BY <2>2 DEF L2Pop, TypeOK
    <3>2. /\ Head(dramL2[s]) \in Fetch
          /\ Tail(dramL2[s]) \in Seq(Fetch)
          /\ Len(Tail(dramL2[s])) <= DramL2Size
      BY <3>1, HeadTail
    <3>3. QED
      BY <2>2, <3>2 DEF L2Pop, TypeOK, Status, queues, backend, credits
  <2>3. CASE CoreTick
    <3>1. wait' \in [Fetch -> Nat]
      <4>1. \A f \in Fetch : (IF wait[f] > 0 THEN wait[f] - 1 ELSE 0) \in Nat
        BY DEF TypeOK
      <4>2. QED BY <2>3, <4>1 DEF CoreTick
    <3>2. QED BY <2>3, <3>1 DEF CoreTick, TypeOK, queues, backend, credits
  <2>4. ASSUME NEW b \in Backend, NEW f \in Fetch, Complete(b, f) PROVE TypeOK'
    <3>1. held' \in [Backend -> SUBSET Fetch]
      BY <2>4 DEF Complete, TypeOK
    <3>2. CASE IsWriteback(f)
      BY <2>4, <3>1, <3>2, SetDoneType DEF Complete, TypeOK
    <3>3. CASE ~IsWriteback(f)
      <4>1. retq' \in [Backend -> Seq(Fetch)]
        <5>1. Append(retq[b], f) \in Seq(Fetch)
          BY AppendType DEF TypeOK
        <5>2. QED BY <2>4, <3>3, <5>1 DEF Complete, TypeOK
      <4>2. status' \in [Fetch -> Status]
        BY <2>4, <3>3 DEF Complete, TypeOK, Status
      <4>3. QED
        BY <2>4, <3>1, <3>3, <4>1, <4>2 DEF Complete, TypeOK, credits
    <3>4. QED BY <3>2, <3>3
  <2>5. ASSUME NEW b \in Backend, NEW w \in BOOLEAN, FreeSlot(b, w) PROVE TypeOK'
    <3>1. used[b] \in [BOOLEAN -> Nat] /\ used[b][w] \in Nat /\ used[b][w] > 0
      BY <2>5 DEF FreeSlot, TypeOK
    <3>2. used' = [used EXCEPT ![b] = [used[b] EXCEPT ![w] = used[b][w] - 1]]
      BY <2>5 DEF FreeSlot
    <3>3. [used[b] EXCEPT ![w] = used[b][w] - 1] \in [BOOLEAN -> Nat]
      BY <3>1
    <3>4. used' \in [Backend -> [BOOLEAN -> Nat]]
      BY <3>2, <3>3 DEF TypeOK
    <3>5. \A c \in Backend, x \in BOOLEAN : used'[c][x] <= Slots[c]
      BY <3>1, <3>2 DEF TypeOK
    <3>6. QED
      BY <2>5, <3>4, <3>5 DEF FreeSlot, TypeOK, queues, credits
  <2> USE DEF NextPhase, Phase, Backend
  <2>6. CASE PopHBM
    BY <2>6, PopReturnType, PopSimpleType DEF PopHBM, PopReturn, PopSimple
  <2>7. CASE PopHBF
    BY <2>7, PopReturnType DEF PopHBF, PopReturn
  <2>8. CASE Arbitrate
    BY <2>8, ArbitrateType DEF Arbitrate
  <2>9. CASE PushHBM
    BY <2>9, PushReadyType DEF PushHBM, PushReady
  <2>10. CASE PushHBF
    BY <2>10, PushReadyType DEF PushHBF, PushReady
  <2>11. CASE UNCHANGED vars
    BY <2>11 DEF vars, TypeOK, queues, backend, credits
  <2>12. QED
    BY <2>1, <2>2, <2>3, <2>4, <2>5, <2>6, <2>7, <2>8, <2>9, <2>10, <2>11
    DEF Next, DramCycle
<1>3. QED
  BY <1>1, <1>2, PTL DEF Spec

-----------------------------------------------------------------------------
(* Placement *)

HeldExactly ==
    \A b \in Backend :
        held[b] = {f \in Fetch : status[f] = "BACKEND" /\ backendOf[f] = b}

\* When one fetch changes its status, the places of other statuses still hold
\* what they should, if they did not change.
LEMMA OtherPlaces ==
    ASSUME TypeOK, Placement, NEW f \in Fetch, NEW new \in Status,
           status' = [status EXCEPT ![f] = new]
    PROVE  /\ UNCHANGED l2dram /\ status[f] # "L2_TO_DRAM" /\ new # "L2_TO_DRAM"
                => HoldsExactly(l2dram, status, "L2_TO_DRAM", subOf)'
           /\ UNCHANGED latq /\ status[f] # "LATENCY" /\ new # "LATENCY"
                => HoldsExactly(latq, status, "LATENCY", backendOf)'
           /\ UNCHANGED retq /\ status[f] # "RETURNQ" /\ new # "RETURNQ"
                => HoldsExactly(retq, status, "RETURNQ", backendOf)'
           /\ UNCHANGED dramL2 /\ status[f] # "DRAM_TO_L2" /\ new # "DRAM_TO_L2"
                => HoldsExactly(dramL2, status, "DRAM_TO_L2", subOf)'
           /\ UNCHANGED held /\ status[f] # "BACKEND" /\ new # "BACKEND"
                => HeldExactly'
<1>1. status \in [Fetch -> Status]
  BY DEF TypeOK
<1>3. ASSUME UNCHANGED l2dram, status[f] # "L2_TO_DRAM", new # "L2_TO_DRAM"
      PROVE  HoldsExactly(l2dram, status, "L2_TO_DRAM", subOf)'
  <2>1. l2dram \in [Sub -> Seq(Fetch)] /\ subOf \in [Fetch -> Sub]
    BY DEF TypeOK
  <2>2. HoldsExactly(l2dram, status, "L2_TO_DRAM", subOf)
    BY DEF Placement
  <2>3. HoldsExactly(l2dram, [status EXCEPT ![f] = new], "L2_TO_DRAM", subOf)
    BY <1>1, <1>3, <2>1, <2>2, Elsewhere
  <2>4. QED BY <1>3, <2>3
<1>4. ASSUME UNCHANGED latq, status[f] # "LATENCY", new # "LATENCY"
      PROVE  HoldsExactly(latq, status, "LATENCY", backendOf)'
  <2>1. latq \in [Backend -> Seq(Fetch)] /\ backendOf \in [Fetch -> Backend]
    BY DEF TypeOK
  <2>2. HoldsExactly(latq, status, "LATENCY", backendOf)
    BY DEF Placement
  <2>3. HoldsExactly(latq, [status EXCEPT ![f] = new], "LATENCY", backendOf)
    BY <1>1, <1>4, <2>1, <2>2, Elsewhere
  <2>4. QED BY <1>4, <2>3
<1>5. ASSUME UNCHANGED retq, status[f] # "RETURNQ", new # "RETURNQ"
      PROVE  HoldsExactly(retq, status, "RETURNQ", backendOf)'
  <2>1. retq \in [Backend -> Seq(Fetch)] /\ backendOf \in [Fetch -> Backend]
    BY DEF TypeOK
  <2>2. HoldsExactly(retq, status, "RETURNQ", backendOf)
    BY DEF Placement
  <2>3. HoldsExactly(retq, [status EXCEPT ![f] = new], "RETURNQ", backendOf)
    BY <1>1, <1>5, <2>1, <2>2, Elsewhere
  <2>4. QED BY <1>5, <2>3
<1>6. ASSUME UNCHANGED dramL2, status[f] # "DRAM_TO_L2", new # "DRAM_TO_L2"
      PROVE  HoldsExactly(dramL2, status, "DRAM_TO_L2", subOf)'
  <2>1. dramL2 \in [Sub -> Seq(Fetch)] /\ subOf \in [Fetch -> Sub]
    BY DEF TypeOK
  <2>2. HoldsExactly(dramL2, status, "DRAM_TO_L2", subOf)
    BY DEF Placement
  <2>3. HoldsExactly(dramL2, [status EXCEPT ![f] = new], "DRAM_TO_L2", subOf)
    BY <1>1, <1>6, <2>1, <2>2, Elsewhere
  <2>4. QED BY <1>6, <2>3
<1>7. UNCHANGED held /\ status[f] # "BACKEND" /\ new # "BACKEND" => HeldExactly'
  BY <1>1 DEF Placement, HeldExactly
<1>8. QED BY <1>3, <1>4, <1>5, <1>6, <1>7

LEMMA PlacementUnchanged ==
    ASSUME Placement, UNCHANGED <<status, queues, held>>
    PROVE  Placement'
BY DEF Placement, queues

\* A reply enters the dram-to-L2 queue of its sub partition.
LEMMA ReplyPlaced ==
    ASSUME TypeOK, Placement, NEW f \in Fetch, ReplyToL2(f), status[f] # "DRAM_TO_L2"
    PROVE  HoldsExactly(dramL2, status, "DRAM_TO_L2", subOf)'
<1>1. dramL2 \in [Sub -> Seq(Fetch)] /\ subOf \in [Fetch -> Sub] /\ status \in [Fetch -> Status]
  BY DEF TypeOK
<1>2. HoldsExactly(dramL2, status, "DRAM_TO_L2", subOf)
  BY DEF Placement
<1>3. QED BY <1>1, <1>2, Enqueue DEF ReplyToL2

LEMMA PopReturnPlaced ==
    ASSUME TypeOK, Placement, NEW b \in Backend, PopReturn(b)
    PROVE  Placement'
<1> DEFINE f == Head(retq[b])
<1>1. CASE retq[b] # <<>> /\ ~DramL2Full(subOf[f])
  <2>1. /\ retq \in [Backend -> Seq(Fetch)] /\ backendOf \in [Fetch -> Backend]
        /\ status \in [Fetch -> Status]
        /\ HoldsExactly(retq, status, "RETURNQ", backendOf)
    BY DEF TypeOK, Placement
  <2>2. f \in Fetch /\ status[f] = "RETURNQ"
    <3>1. f \in Range(retq[b])
      BY <1>1, <2>1, HeadTail
    <3>2. QED BY <1>1, <2>1, <3>1 DEF HoldsExactly
  <2>3. /\ ReplyToL2(f) /\ status' = [status EXCEPT ![f] = "DRAM_TO_L2"]
        /\ retq' = [retq EXCEPT ![b] = Tail(retq[b])]
        /\ UNCHANGED <<l2dram, latq, held>>
    BY <1>1 DEF PopReturn, ReplyToL2, backend
  <2>4. HoldsExactly(retq, status, "RETURNQ", backendOf)'
    BY <1>1, <2>1, <2>3, Dequeue
  <2>5. HoldsExactly(dramL2, status, "DRAM_TO_L2", subOf)'
    BY <2>2, <2>3, ReplyPlaced
  <2> HIDE DEF f
  <2>6. QED
    BY <2>2, <2>3, <2>4, <2>5, OtherPlaces DEF Placement, HeldExactly, Status
<1>2. CASE ~(retq[b] # <<>> /\ ~DramL2Full(subOf[f]))
  BY <1>2, PlacementUnchanged DEF PopReturn, queues, backend
<1>3. QED BY <1>1, <1>2

LEMMA PopSimplePlaced ==
    ASSUME TypeOK, Placement, PopSimple
    PROVE  Placement'
<1> DEFINE f == Head(latq["HBM"])
           ready == latq["HBM"] # <<>> /\ wait[f] = 0
<1>1. CASE ready /\ (IsWriteback(f) \/ ~DramL2Full(subOf[f]))
  <2>1. /\ latq \in [Backend -> Seq(Fetch)] /\ backendOf \in [Fetch -> Backend]
        /\ status \in [Fetch -> Status] /\ "HBM" \in Backend
        /\ HoldsExactly(latq, status, "LATENCY", backendOf)
    BY DEF TypeOK, Placement, Backend
  <2>2. f \in Fetch /\ status[f] = "LATENCY"
    <3>1. f \in Range(latq["HBM"])
      BY <1>1, <2>1, HeadTail
    <3>2. QED BY <1>1, <2>1, <3>1 DEF HoldsExactly
  <2>3. /\ latq' = [latq EXCEPT !["HBM"] = Tail(latq["HBM"])]
        /\ UNCHANGED <<l2dram, retq, held>>
    BY <1>1 DEF PopSimple, backend
  <2>4. CASE IsWriteback(f)
    <3>1. status' = [status EXCEPT ![f] = "NONE"] /\ UNCHANGED dramL2
      BY <1>1, <2>4 DEF PopSimple, SetDone
    <3>2. HoldsExactly(latq, status, "LATENCY", backendOf)'
      BY <1>1, <2>1, <2>3, <3>1, Dequeue
    <3> HIDE DEF f
    <3>3. QED
      BY <2>2, <2>3, <3>1, <3>2, OtherPlaces DEF Placement, HeldExactly, Status
  <2>5. CASE ~IsWriteback(f)
    <3>1. ReplyToL2(f) /\ status' = [status EXCEPT ![f] = "DRAM_TO_L2"]
      BY <1>1, <2>5 DEF PopSimple, ReplyToL2
    <3>2. HoldsExactly(latq, status, "LATENCY", backendOf)'
      BY <1>1, <2>1, <2>3, <3>1, Dequeue
    <3>3. HoldsExactly(dramL2, status, "DRAM_TO_L2", subOf)'
      BY <2>2, <3>1, ReplyPlaced
    <3> HIDE DEF f
    <3>4. QED
      BY <2>2, <2>3, <3>1, <3>2, <3>3, OtherPlaces DEF Placement, HeldExactly, Status
  <2>6. QED BY <2>4, <2>5
<1>2. CASE ~(ready /\ (IsWriteback(f) \/ ~DramL2Full(subOf[f])))
  BY <1>2, PlacementUnchanged DEF PopSimple, queues, backend
<1>3. QED BY <1>1, <1>2

LEMMA PushReadyPlaced ==
    ASSUME TypeOK, Placement, NEW b \in Backend, PushReady(b)
    PROVE  Placement'
<1> DEFINE f == Head(latq[b])
<1>1. CASE MayPush(b)
  <2>1. /\ latq \in [Backend -> Seq(Fetch)] /\ backendOf \in [Fetch -> Backend]
        /\ status \in [Fetch -> Status] /\ latq[b] # <<>>
        /\ HoldsExactly(latq, status, "LATENCY", backendOf)
    BY <1>1 DEF TypeOK, Placement, MayPush
  <2>2. f \in Fetch /\ status[f] = "LATENCY" /\ backendOf[f] = b
    <3>1. f \in Range(latq[b])
      BY <2>1, HeadTail
    <3>2. QED BY <2>1, <3>1 DEF HoldsExactly
  <2>3. /\ status' = [status EXCEPT ![f] = "BACKEND"]
        /\ held' = [held EXCEPT ![b] = held[b] \cup {f}]
        /\ latq' = [latq EXCEPT ![b] = Tail(latq[b])]
        /\ UNCHANGED <<l2dram, retq, dramL2>>
    BY <1>1 DEF PushReady, BackendPush, MayPush
  <2>4. HoldsExactly(latq, status, "LATENCY", backendOf)'
    BY <2>1, <2>3, Dequeue
  <2> HIDE DEF f
  <2>5. HeldExactly'
    <3>1. /\ held \in [Backend -> SUBSET Fetch]
          /\ \A c \in Backend :
               held[c] = {g \in Fetch : status[g] = "BACKEND" /\ backendOf[g] = c}
      BY DEF TypeOK, Placement
    <3>2. \A g \in Fetch : status'[g] = "BACKEND" <=> status[g] = "BACKEND" \/ g = f
      BY <2>1, <2>3
    <3>3. \A c \in Backend : held'[c] = IF c = b THEN held[b] \cup {f} ELSE held[c]
      BY <2>3, <3>1
    <3>4. QED BY <2>2, <3>1, <3>2, <3>3 DEF HeldExactly
  <2>6. QED
    BY <2>2, <2>3, <2>4, <2>5, OtherPlaces DEF Placement, HeldExactly, Status
<1>2. CASE ~MayPush(b)
  BY <1>2, PlacementUnchanged DEF PushReady, queues, backend
<1>3. QED BY <1>1, <1>2

LEMMA ArbitratePlaced ==
    ASSUME TypeOK, Placement, Arbitrate
    PROVE  Placement'
<1>1. CASE UNCHANGED <<status, l2dram, latq, wait, credits>>
  BY <1>1, PlacementUnchanged DEF Arbitrate, queues, backend
<1>2. ASSUME NEW s \in Sub, NEW f \in Fetch, NEW b \in Backend,
             Chosen(s), f = Head(l2dram[s]), b = backendOf[f],
             l2dram' = [l2dram EXCEPT ![s] = Tail(l2dram[s])],
             latq' = [latq EXCEPT ![b] = Append(latq[b], f)],
             status' = [status EXCEPT ![f] = "LATENCY"]
      PROVE  Placement'
  <2>1. /\ l2dram \in [Sub -> Seq(Fetch)] /\ subOf \in [Fetch -> Sub]
        /\ latq \in [Backend -> Seq(Fetch)] /\ backendOf \in [Fetch -> Backend]
        /\ status \in [Fetch -> Status] /\ l2dram[s] # <<>>
        /\ HoldsExactly(l2dram, status, "L2_TO_DRAM", subOf)
        /\ HoldsExactly(latq, status, "LATENCY", backendOf)
    BY <1>2 DEF TypeOK, Placement, Chosen, Ready
  <2>2. status[f] = "L2_TO_DRAM"
    <3>1. f \in Range(l2dram[s])
      BY <1>2, <2>1, HeadTail
    <3>2. QED BY <1>2, <2>1, <3>1 DEF HoldsExactly
  <2>3. HoldsExactly(l2dram, status, "L2_TO_DRAM", subOf)'
    BY <1>2, <2>1, Dequeue
  <2>4. HoldsExactly(latq, status, "LATENCY", backendOf)'
    BY <1>2, <2>1, <2>2, Enqueue
  <2>5. UNCHANGED <<retq, dramL2, held>>
    BY DEF Arbitrate, backend
  <2>6. QED
    BY <1>2, <2>2, <2>3, <2>4, <2>5, OtherPlaces DEF Placement, HeldExactly, Status
<1>3. \A s \in Sub : Chosen(s) => Head(l2dram[s]) \in Fetch
  BY HeadTail DEF Chosen, Ready, TypeOK
<1>4. QED
  BY <1>1, <1>2, <1>3 DEF Arbitrate

\* Every fetch is in exactly one place, the one its status names.
THEOREM PlacementCorrect == Spec => []Placement
<1>1. Init => Placement
  <2>1. SUFFICES ASSUME Init PROVE Placement
    OBVIOUS
  <2>2. NoRepeat(<<>>) /\ Range(<<>>) = {}
    BY DEF NoRepeat, Range
  <2>3. \A f \in Fetch : status[f] = "NONE"
    BY <2>1 DEF Init
  <2>4. QED
    BY <2>1, <2>2, <2>3 DEF Init, Placement, HoldsExactly, Backend
<1>2. TypeOK /\ Placement /\ [Next]_vars => Placement'
  <2> SUFFICES ASSUME TypeOK, Placement, [Next]_vars PROVE Placement'
    OBVIOUS
  <2>0. /\ l2dram \in [Sub -> Seq(Fetch)] /\ dramL2 \in [Sub -> Seq(Fetch)]
        /\ subOf \in [Fetch -> Sub] /\ status \in [Fetch -> Status]
        /\ retq \in [Backend -> Seq(Fetch)] /\ backendOf \in [Fetch -> Backend]
        /\ held \in [Backend -> SUBSET Fetch]
    BY DEF TypeOK
  <2>1. ASSUME NEW f \in Fetch, L2Push(f) PROVE Placement'
    <3>1. /\ status[f] = "NONE" /\ status' = [status EXCEPT ![f] = "L2_TO_DRAM"]
          /\ l2dram' = [l2dram EXCEPT ![subOf[f]] = Append(l2dram[subOf[f]], f)]
          /\ UNCHANGED <<latq, retq, dramL2, held>>
      BY <2>1 DEF L2Push, backend
    <3>2. HoldsExactly(l2dram, status, "L2_TO_DRAM", subOf)'
      <4>1. HoldsExactly(l2dram, status, "L2_TO_DRAM", subOf)
        BY DEF Placement
      <4>2. QED BY <2>0, <3>1, <4>1, Enqueue
    <3>3. QED
      BY <3>1, <3>2, OtherPlaces DEF Placement, HeldExactly, Status
  <2>2. ASSUME NEW s \in Sub, L2Pop(s) PROVE Placement'
    <3> DEFINE f == Head(dramL2[s])
    <3>1. /\ dramL2[s] # <<>> /\ status' = [status EXCEPT ![f] = "NONE"]
          /\ dramL2' = [dramL2 EXCEPT ![s] = Tail(dramL2[s])]
          /\ UNCHANGED <<l2dram, latq, retq, held>>
      BY <2>2 DEF L2Pop, backend
    <3>2. HoldsExactly(dramL2, status, "DRAM_TO_L2", subOf)
      BY DEF Placement
    <3>3. f \in Fetch /\ status[f] = "DRAM_TO_L2"
      <4>1. f \in Range(dramL2[s])
        BY <2>0, <3>1, HeadTail
      <4>2. QED BY <2>0, <3>2, <4>1 DEF HoldsExactly
    <3>4. HoldsExactly(dramL2, status, "DRAM_TO_L2", subOf)'
      BY <2>0, <3>1, <3>2, Dequeue
    <3> HIDE DEF f
    <3>5. QED
      BY <3>1, <3>3, <3>4, OtherPlaces DEF Placement, HeldExactly, Status
  <2>3. CASE CoreTick
    BY <2>3, PlacementUnchanged DEF CoreTick, backend
  <2>4. ASSUME NEW b \in Backend, NEW f \in Fetch, Complete(b, f) PROVE Placement'
    <3>1. /\ f \in held[b] /\ held' = [held EXCEPT ![b] = held[b] \ {f}]
          /\ UNCHANGED <<l2dram, latq, dramL2>>
      BY <2>4 DEF Complete
    <3>2. \A c \in Backend :
            held[c] = {g \in Fetch : status[g] = "BACKEND" /\ backendOf[g] = c}
      BY DEF Placement
    <3>3. status[f] = "BACKEND" /\ backendOf[f] = b
      BY <3>1, <3>2
    <3>4. ASSUME NEW new \in Status, new # "BACKEND",
                 status' = [status EXCEPT ![f] = new]
          PROVE  HeldExactly'
      <4>1. \A g \in Fetch : status'[g] = "BACKEND" <=> status[g] = "BACKEND" /\ g # f
        BY <2>0, <3>4
      <4>2. \A c \in Backend : held'[c] = IF c = b THEN held[b] \ {f} ELSE held[c]
        BY <2>0, <3>1
      <4>3. QED BY <3>2, <3>3, <4>1, <4>2 DEF HeldExactly
    <3>5. CASE IsWriteback(f)
      <4>1. status' = [status EXCEPT ![f] = "NONE"] /\ UNCHANGED retq
        BY <2>4, <3>5 DEF Complete, SetDone
      <4>2. QED
        BY <3>1, <3>3, <3>4, <4>1, OtherPlaces DEF Placement, HeldExactly, Status
    <3>6. CASE ~IsWriteback(f)
      <4>1. /\ status' = [status EXCEPT ![f] = "RETURNQ"]
            /\ retq' = [retq EXCEPT ![b] = Append(retq[b], f)]
        BY <2>4, <3>6 DEF Complete
      <4>2. HoldsExactly(retq, status, "RETURNQ", backendOf)
        BY DEF Placement
      <4>3. HoldsExactly(retq, status, "RETURNQ", backendOf)'
        BY <2>0, <3>3, <4>1, <4>2, Enqueue
      <4>4. QED
        BY <3>1, <3>3, <3>4, <4>1, <4>3, OtherPlaces DEF Placement, HeldExactly, Status
    <3>7. QED BY <3>5, <3>6
  <2>5. ASSUME NEW b \in Backend, NEW w \in BOOLEAN, FreeSlot(b, w) PROVE Placement'
    BY <2>5, PlacementUnchanged DEF FreeSlot
  <2>6. CASE DramCycle
    BY <2>6, PopReturnPlaced, PopSimplePlaced, ArbitratePlaced, PushReadyPlaced
    DEF DramCycle, PopHBM, PopHBF, PushHBM, PushHBF, Backend
  <2>7. CASE UNCHANGED vars
    BY <2>7, PlacementUnchanged DEF vars, backend
  <2>8. QED
    BY <2>1, <2>2, <2>3, <2>4, <2>5, <2>6, <2>7 DEF Next
<1>3. QED
  BY <1>1, <1>2, TypeCorrect, PTL DEF Spec

-----------------------------------------------------------------------------
(* Credits *)

FlightStatus == {"LATENCY", "BACKEND", "RETURNQ"}

\* CreditsAccounted without its first part, which follows from the others.
Accounted ==
    /\ shared + Cardinality(PrivateBorrowers) = Cardinality(InFlight)
    /\ \A s \in PrivateBorrowers : \E f \in InFlight : subOf[f] = s
NoCreditOverdraw == shared >= 0

LEMMA FiniteSets ==
    ASSUME TypeOK
    PROVE  /\ IsFiniteSet(InFlight) /\ Cardinality(InFlight) \in Nat
           /\ IsFiniteSet(PrivateBorrowers) /\ Cardinality(PrivateBorrowers) \in Nat
           /\ IsFiniteSet(Sub) /\ Cardinality(Sub) = NSub
<1>1. IsFiniteSet(Sub) /\ Cardinality(Sub) = NSub
  BY FS_Interval DEF Sub
<1>2. IsFiniteSet(InFlight) /\ IsFiniteSet(PrivateBorrowers)
  <2>1. InFlight \subseteq Fetch /\ PrivateBorrowers \subseteq Sub
    BY DEF InFlight, PrivateBorrowers
  <2>2. QED BY <1>1, <2>1, FS_Subset
<1>3. QED BY <1>1, <1>2, FS_CardinalityType

\* Private credits are never more than the fetches in flight, so what is left
\* for the shared ones is not negative.
LEMMA EnoughShared ==
    ASSUME TypeOK, Accounted
    PROVE  NoCreditOverdraw
<1> DEFINE Borrowing == {subOf[f] : f \in InFlight}
<1>1. /\ IsFiniteSet(Borrowing) /\ Cardinality(Borrowing) \in Nat
      /\ Cardinality(Borrowing) <= Cardinality(InFlight)
  <2> DEFINE owner == [f \in InFlight |-> subOf[f]]
  <2>1. owner \in Surjection(InFlight, Borrowing)
    BY DEF Surjection
  <2>2. QED BY <2>1, FiniteSets, FS_Surjection, FS_CardinalityType
<1>2. PrivateBorrowers \subseteq Borrowing
  BY DEF Accounted
<1>3. Cardinality(PrivateBorrowers) <= Cardinality(Borrowing)
  BY <1>1, <1>2, FS_Subset
<1>4. QED
  BY <1>1, <1>3, FiniteSets DEF Accounted, NoCreditOverdraw, TypeOK

\* A fetch of sub partition s comes back: one credit less is out.
LEMMA ReturnAccounted ==
    ASSUME TypeOK, Accounted, NEW f \in InFlight, ReturnCredit(subOf[f]),
           InFlight' = InFlight \ {f}
    PROVE  Accounted'
<1> DEFINE s == subOf[f]
<1>0. s \in Sub /\ f \in Fetch /\ priv \in [Sub -> 0 .. 1] /\ shared \in Int
  BY DEF InFlight, TypeOK, PrivateLimit
<1>1. Cardinality(InFlight') = Cardinality(InFlight) - 1
  BY FiniteSets, FS_RemoveElement
<1>2. CASE priv[s] > 0
  <2>1. priv' = [priv EXCEPT ![s] = priv[s] - 1] /\ shared' = shared
    BY <1>2 DEF ReturnCredit
  <2>2. priv[s] = 1
    BY <1>0, <1>2
  <2>3. PrivateBorrowers' = PrivateBorrowers \ {s} /\ s \in PrivateBorrowers
    BY <1>0, <2>1, <2>2 DEF PrivateBorrowers
  <2>4. Cardinality(PrivateBorrowers') = Cardinality(PrivateBorrowers) - 1
    BY <2>3, FiniteSets, FS_RemoveElement
  <2>5. shared' + Cardinality(PrivateBorrowers') = Cardinality(InFlight')
    BY <1>0, <1>1, <2>1, <2>4, FiniteSets DEF Accounted
  <2>6. \A t \in PrivateBorrowers' : \E g \in InFlight' : subOf[g] = t
    BY <2>3 DEF Accounted
  <2>7. QED BY <2>5, <2>6 DEF Accounted
<1>3. CASE ~(priv[s] > 0)
  <2>1. priv' = priv /\ shared' = shared - 1
    BY <1>3 DEF ReturnCredit
  <2>2. PrivateBorrowers' = PrivateBorrowers /\ s \notin PrivateBorrowers
    BY <1>0, <1>3, <2>1 DEF PrivateBorrowers
  <2>3. shared' + Cardinality(PrivateBorrowers') = Cardinality(InFlight')
    BY <1>0, <1>1, <2>1, <2>2, FiniteSets DEF Accounted
  <2>4. \A t \in PrivateBorrowers' : \E g \in InFlight' : subOf[g] = t
    BY <2>2 DEF Accounted
  <2>5. QED BY <2>3, <2>4 DEF Accounted
<1>4. QED BY <1>2, <1>3

\* A fetch of sub partition s is issued: one credit more is out.
LEMMA BorrowAccounted ==
    ASSUME TypeOK, Accounted, NEW f \in Fetch, f \notin InFlight,
           BorrowCredit(subOf[f]), InFlight' = InFlight \cup {f}
    PROVE  Accounted'
<1> DEFINE s == subOf[f]
<1>0. s \in Sub /\ priv \in [Sub -> 0 .. 1] /\ shared \in Int
  BY DEF TypeOK, PrivateLimit
<1>1. Cardinality(InFlight') = Cardinality(InFlight) + 1
  BY FiniteSets, FS_AddElement
<1>2. CASE priv[s] < 1
  <2>1. priv' = [priv EXCEPT ![s] = priv[s] + 1] /\ shared' = shared
    BY <1>2 DEF BorrowCredit, PrivateLimit
  <2>2. priv[s] = 0
    BY <1>0, <1>2
  <2>3. PrivateBorrowers' = PrivateBorrowers \cup {s} /\ s \notin PrivateBorrowers
    BY <1>0, <2>1, <2>2 DEF PrivateBorrowers
  <2>4. Cardinality(PrivateBorrowers') = Cardinality(PrivateBorrowers) + 1
    BY <2>3, FiniteSets, FS_AddElement
  <2>5. shared' + Cardinality(PrivateBorrowers') = Cardinality(InFlight')
    BY <1>0, <1>1, <2>1, <2>4, FiniteSets DEF Accounted
  <2>6. \A t \in PrivateBorrowers' : \E g \in InFlight' : subOf[g] = t
    BY <2>3 DEF Accounted
  <2>7. QED BY <2>5, <2>6 DEF Accounted
<1>3. CASE ~(priv[s] < 1)
  <2>1. priv' = priv /\ shared' = shared + 1
    BY <1>3 DEF BorrowCredit, PrivateLimit
  <2>2. PrivateBorrowers' = PrivateBorrowers
    BY <2>1 DEF PrivateBorrowers
  <2>3. shared' + Cardinality(PrivateBorrowers') = Cardinality(InFlight')
    BY <1>0, <1>1, <2>1, <2>2, FiniteSets DEF Accounted
  <2>4. \A t \in PrivateBorrowers' : \E g \in InFlight' : subOf[g] = t
    BY <2>2 DEF Accounted
  <2>5. QED BY <2>3, <2>4 DEF Accounted
<1>4. QED BY <1>2, <1>3

\* The steps that neither issue a fetch nor bring one back.
LEMMA SameAccounted ==
    ASSUME Accounted, InFlight' = InFlight, UNCHANGED <<priv, shared>>
    PROVE  Accounted'
<1>1. PrivateBorrowers' = PrivateBorrowers
  BY DEF PrivateBorrowers
<1>2. QED BY <1>1 DEF Accounted

\* How the change of one status changes the fetches in flight.
LEMMA MoveInFlight ==
    ASSUME TypeOK, NEW f \in Fetch, NEW new,
           status' = [status EXCEPT ![f] = new]
    PROVE  /\ new \in FlightStatus => InFlight' = InFlight \cup {f}
           /\ new \notin FlightStatus => InFlight' = InFlight \ {f}
           /\ (f \in InFlight <=> new \in FlightStatus) => InFlight' = InFlight
<1>1. /\ status'[f] = new
      /\ \A g \in Fetch : g # f => status'[g] = status[g]
  BY DEF TypeOK
<1>2. /\ new \in FlightStatus => InFlight' = InFlight \cup {f}
      /\ new \notin FlightStatus => InFlight' = InFlight \ {f}
  BY <1>1 DEF InFlight, FlightStatus
<1>3. QED
  BY <1>2

\* A reply, a finished writeback: f is no longer in flight and its credit is back.
LEMMA ComesBack ==
    ASSUME TypeOK, Accounted, NEW f \in InFlight,
           ReplyToL2(f) \/ SetDone(f)
    PROVE  Accounted'
<1>1. /\ f \in Fetch
      /\ \E new \in {"DRAM_TO_L2", "NONE"} : status' = [status EXCEPT ![f] = new]
      /\ ReturnCredit(subOf[f])
  BY DEF InFlight, ReplyToL2, SetDone
<1>2. InFlight' = InFlight \ {f}
  BY <1>1, MoveInFlight DEF FlightStatus
<1>3. QED BY <1>1, <1>2, ReturnAccounted

\* Credit accounting is inductive with the types and the placement.
LEMMA AccountedStep ==
    ASSUME TypeOK, Placement, Accounted, [Next]_vars
    PROVE  Accounted'
<1>0. /\ l2dram \in [Sub -> Seq(Fetch)] /\ dramL2 \in [Sub -> Seq(Fetch)]
      /\ latq \in [Backend -> Seq(Fetch)] /\ retq \in [Backend -> Seq(Fetch)]
      /\ status \in [Fetch -> Status]
  BY DEF TypeOK
<1>1. ASSUME NEW f \in Fetch, L2Push(f) PROVE Accounted'
  <2>1. f \notin InFlight /\ status' = [status EXCEPT ![f] = "L2_TO_DRAM"]
    BY <1>1 DEF L2Push, InFlight
  <2>2. InFlight' = InFlight
    BY <2>1, MoveInFlight DEF FlightStatus
  <2>3. QED BY <1>1, <2>2, SameAccounted DEF L2Push, credits
<1>2. ASSUME NEW s \in Sub, L2Pop(s) PROVE Accounted'
  <2> DEFINE f == Head(dramL2[s])
  <2>1. f \in Range(dramL2[s])
    BY <1>0, <1>2, HeadTail DEF L2Pop
  <2>2. f \in Fetch /\ status[f] = "DRAM_TO_L2"
    BY <1>0, <2>1 DEF Placement, HoldsExactly
  <2>3. f \notin InFlight /\ status' = [status EXCEPT ![f] = "NONE"]
    BY <1>2, <2>2 DEF L2Pop, InFlight
  <2> HIDE DEF f
  <2>4. InFlight' = InFlight
    <3>1. "NONE" \notin FlightStatus
      BY DEF FlightStatus
    <3>2. QED BY <2>2, <2>3, <3>1, MoveInFlight
  <2>5. QED BY <1>2, <2>4, SameAccounted DEF L2Pop, credits
<1>3. ASSUME UNCHANGED <<status, priv, shared>> PROVE Accounted'
  BY <1>3, SameAccounted DEF InFlight
<1>4. ASSUME NEW b \in Backend, NEW f \in Fetch, Complete(b, f) PROVE Accounted'
  <2>1. status[f] = "BACKEND"
    BY <1>4 DEF Complete, Placement
  <2>2. f \in InFlight
    BY <2>1 DEF InFlight
  <2>3. CASE IsWriteback(f)
    BY <1>4, <2>2, <2>3, ComesBack DEF Complete
  <2>4. CASE ~IsWriteback(f)
    <3>1. status' = [status EXCEPT ![f] = "RETURNQ"] /\ UNCHANGED <<priv, shared>>
      BY <1>4, <2>4 DEF Complete, credits
    <3>2. InFlight' = InFlight
      BY <2>2, <3>1, MoveInFlight DEF FlightStatus
    <3>3. QED BY <3>1, <3>2, SameAccounted
  <2>5. QED BY <2>3, <2>4
<1>5. ASSUME NEW b \in Backend, PopReturn(b) PROVE Accounted'
  <2> DEFINE f == Head(retq[b])
  <2>1. CASE retq[b] # <<>> /\ ~DramL2Full(subOf[f])
    <3>1. f \in Range(retq[b])
      BY <1>0, <2>1, HeadTail
    <3>2. f \in InFlight
      BY <1>0, <3>1 DEF Placement, HoldsExactly, InFlight
    <3>3. QED BY <1>5, <2>1, <3>2, ComesBack DEF PopReturn
  <2>2. CASE ~(retq[b] # <<>> /\ ~DramL2Full(subOf[f]))
    BY <1>3, <1>5, <2>2 DEF PopReturn, credits
  <2>3. QED BY <2>1, <2>2
<1>6. ASSUME PopSimple PROVE Accounted'
  <2> DEFINE f == Head(latq["HBM"])
             ready == latq["HBM"] # <<>> /\ wait[f] = 0
  <2>1. CASE ready /\ (IsWriteback(f) \/ ~DramL2Full(subOf[f]))
    <3>1. f \in Range(latq["HBM"]) /\ "HBM" \in Backend
      BY <1>0, <2>1, HeadTail DEF Backend
    <3>2. f \in InFlight
      BY <1>0, <3>1 DEF Placement, HoldsExactly, InFlight
    <3>3. QED BY <1>6, <2>1, <3>2, ComesBack DEF PopSimple
  <2>2. CASE ~(ready /\ (IsWriteback(f) \/ ~DramL2Full(subOf[f])))
    BY <1>3, <1>6, <2>2 DEF PopSimple, credits
  <2>3. QED BY <2>1, <2>2
<1>7. ASSUME NEW b \in Backend, PushReady(b) PROVE Accounted'
  <2> DEFINE f == Head(latq[b])
  <2>1. CASE MayPush(b)
    <3>1. f \in Range(latq[b])
      BY <1>0, <2>1, HeadTail DEF MayPush
    <3>2. f \in Fetch /\ f \in InFlight
      BY <1>0, <3>1 DEF Placement, HoldsExactly, InFlight
    <3>3. status' = [status EXCEPT ![f] = "BACKEND"] /\ UNCHANGED <<priv, shared>>
      BY <1>7, <2>1 DEF PushReady, BackendPush, MayPush, credits
    <3> HIDE DEF f
    <3>4. InFlight' = InFlight
      BY <3>2, <3>3, MoveInFlight DEF FlightStatus
    <3>5. QED BY <3>3, <3>4, SameAccounted
  <2>2. CASE ~MayPush(b)
    BY <1>3, <1>7, <2>2 DEF PushReady, credits
  <2>3. QED BY <2>1, <2>2
<1>8. ASSUME Arbitrate PROVE Accounted'
  <2>1. CASE UNCHANGED <<status, l2dram, latq, wait, credits>>
    BY <1>3, <2>1 DEF credits
  <2>2. ASSUME NEW s \in Sub, Chosen(s), BorrowCredit(s),
               status' = [status EXCEPT ![Head(l2dram[s])] = "LATENCY"]
        PROVE  Accounted'
    <3> DEFINE f == Head(l2dram[s])
    <3>1. f \in Range(l2dram[s])
      BY <1>0, <2>2, HeadTail DEF Chosen, Ready
    <3>2. f \in Fetch /\ f \notin InFlight /\ subOf[f] = s
      BY <1>0, <3>1 DEF Placement, HoldsExactly, InFlight
    <3>3. status' = [status EXCEPT ![f] = "LATENCY"]
      BY <2>2
    <3> HIDE DEF f
    <3>4. InFlight' = InFlight \cup {f}
      BY <3>2, <3>3, MoveInFlight DEF FlightStatus
    <3>5. QED BY <2>2, <3>2, <3>4, BorrowAccounted
  <2>3. QED BY <1>8, <2>1, <2>2 DEF Arbitrate
<1>9. CASE DramCycle
  BY <1>5, <1>6, <1>7, <1>8, <1>9
  DEF DramCycle, PopHBM, PopHBF, PushHBM, PushHBF, Backend
<1>10. QED
  BY <1>1, <1>2, <1>3, <1>4, <1>9 DEF Next, vars, credits, CoreTick, FreeSlot

\* Credits are conserved, for any mix of private and shared credits handed
\* back, and the assert of return_credit() never fires.
THEOREM CreditsCorrect == Spec => []CreditsAccounted
<1>1. Init => Accounted
  <2>1. SUFFICES ASSUME Init PROVE Accounted
    OBVIOUS
  <2>2. InFlight = {} /\ PrivateBorrowers = {} /\ shared = 0
    BY <2>1 DEF Init, InFlight, PrivateBorrowers
  <2>3. QED BY <2>2, FS_EmptySet DEF Accounted
<1>2. TypeOK /\ Placement /\ Accounted /\ [Next]_vars => Accounted'
  BY AccountedStep
<1>3. TypeOK /\ Accounted => CreditsAccounted
  BY EnoughShared DEF Accounted, NoCreditOverdraw, CreditsAccounted
<1>4. QED
  BY <1>1, <1>2, <1>3, TypeCorrect, PlacementCorrect, PTL DEF Spec

\* A limit on the shared credits is never passed.
SharedWithinLimit == SharedLimit > 0 => shared <= SharedLimit

\* With a limit on the credits, the fetches between arbitration and reply (and
\* so both latency queues) never outnumber the credits.
THEOREM InFlightBoundedCorrect == Spec => []InFlightBounded
<1>1. SharedLimit \in Nat
  BY DEF SharedLimit
<1>2. Init => SharedWithinLimit
  BY <1>1 DEF Init, SharedWithinLimit
<1>3. TypeOK /\ SharedWithinLimit /\ [Next]_vars => SharedWithinLimit'
  <2> SUFFICES ASSUME TypeOK, SharedWithinLimit, [Next]_vars, SharedLimit > 0
               PROVE  shared' <= SharedLimit
    BY DEF SharedWithinLimit
  <2>0. shared \in Int /\ shared <= SharedLimit
    BY DEF TypeOK, SharedWithinLimit
  <2>1. ASSUME NEW s \in Sub, ReturnCredit(s) PROVE shared' <= SharedLimit
    BY <1>1, <2>0, <2>1 DEF ReturnCredit
  <2>2. ASSUME UNCHANGED shared PROVE shared' <= SharedLimit
    BY <2>0, <2>2
  <2>3. ASSUME NEW s \in Sub, HasCredits(s), BorrowCredit(s)
        PROVE  shared' <= SharedLimit
    BY <1>1, <2>0, <2>3 DEF HasCredits, SharedAvailable, BorrowCredit
  <2>4. CASE Arbitrate
    BY <2>2, <2>3, <2>4 DEF Arbitrate, Chosen, Ready, CanIssue, credits
  <2>5. ASSUME NEW f \in Fetch, ReplyToL2(f) \/ SetDone(f)
        PROVE  shared' <= SharedLimit
    BY <2>1, <2>5 DEF ReplyToL2, SetDone
  <2>6. ASSUME NEW b \in Backend, PopReturn(b) PROVE shared' <= SharedLimit
    <3>1. retq[b] # <<>> => Head(retq[b]) \in Fetch
      BY HeadTail DEF TypeOK
    <3>2. QED BY <2>2, <2>5, <2>6, <3>1 DEF PopReturn, credits
  <2>7. CASE PopSimple
    <3>1. latq["HBM"] # <<>> => Head(latq["HBM"]) \in Fetch
      BY HeadTail DEF TypeOK, Backend
    <3>2. QED BY <2>2, <2>5, <2>7, <3>1 DEF PopSimple, credits
  <2>8. ASSUME NEW b \in Backend, NEW f \in Fetch, Complete(b, f)
        PROVE  shared' <= SharedLimit
    BY <2>2, <2>5, <2>8 DEF Complete, credits
  <2>9. CASE PushHBM \/ PushHBF
    BY <2>2, <2>9 DEF PushHBM, PushHBF, PushReady, credits
  <2>10. CASE PopHBM \/ PopHBF
    BY <2>6, <2>7, <2>10 DEF PopHBM, PopHBF, Backend
  <2>11. QED
    BY <2>2, <2>4, <2>8, <2>9, <2>10
    DEF Next, DramCycle, vars, credits, CoreTick, FreeSlot, L2Push, L2Pop
<1>4. TypeOK /\ Accounted /\ SharedWithinLimit => InFlightBounded
  <2> SUFFICES ASSUME TypeOK, Accounted, SharedWithinLimit, SharedLimit > 0
               PROVE  Cardinality(InFlight) <= NSub * PrivateLimit + SharedLimit
    BY DEF InFlightBounded
  <2>1. PrivateBorrowers \subseteq Sub
    BY DEF PrivateBorrowers
  <2>2. Cardinality(PrivateBorrowers) <= NSub
    BY <2>1, FiniteSets, FS_Subset
  <2>3. shared \in Int /\ shared <= SharedLimit
    BY DEF SharedWithinLimit, TypeOK
  <2>4. shared + Cardinality(PrivateBorrowers) = Cardinality(InFlight)
    BY DEF Accounted
  <2>5. QED BY <1>1, <2>2, <2>3, <2>4, FiniteSets DEF PrivateLimit
<1>5. QED
  <2>1. CreditsAccounted => Accounted
    BY DEF CreditsAccounted, Accounted
  <2>2. QED
    BY <1>2, <1>3, <1>4, <2>1, TypeCorrect, CreditsCorrect, PTL DEF Spec

-----------------------------------------------------------------------------
(* Refinement of MemService *)

\* The service state of a fetch, read off its status.
AbsOf(st) == IF st = "DRAM_TO_L2" THEN "answered"
             ELSE IF st = "NONE" THEN "idle" ELSE "pending"

Abstract == [f \in Fetch |-> AbsOf(status[f])]

\* Only fetches that expect an answer enter a return queue.
NoWritebackReturns == \A f \in Fetch : status[f] = "RETURNQ" => ~IsWriteback(f)

\* In a placed state the L2 sees what the status says.
LEMMA ServiceStateIsAbstract ==
    ASSUME TypeOK, Placement
    PROVE  ServiceState = Abstract
<1>1. SUFFICES ASSUME NEW f \in Fetch
               PROVE  (\E s \in Sub : f \in Range(dramL2[s])) <=> status[f] = "DRAM_TO_L2"
  BY DEF ServiceState, Abstract, AbsOf
<1>2. \A s \in Sub : Range(dramL2[s]) =
        {g \in Fetch : status[g] = "DRAM_TO_L2" /\ subOf[g] = s}
  BY DEF Placement, HoldsExactly, TypeOK
<1>3. subOf[f] \in Sub
  OBVIOUS
<1>4. QED BY <1>2, <1>3

\* A change of one status changes the service state of that fetch.
LEMMA AbstractMove ==
    ASSUME TypeOK, NEW f \in Fetch, NEW new \in Status,
           status' = [status EXCEPT ![f] = new]
    PROVE  Abstract' = [Abstract EXCEPT ![f] = AbsOf(new)]
<1>1. \A g \in Fetch : status'[g] = IF g = f THEN new ELSE status[g]
  BY DEF TypeOK
<1>2. \A g \in Fetch :
        AbsOf(status'[g]) = IF g = f THEN AbsOf(new) ELSE AbsOf(status[g])
  BY <1>1
<1>3. Abstract' = [g \in Fetch |-> AbsOf(status'[g])]
  BY DEF Abstract
<1>4. [Abstract EXCEPT ![f] = AbsOf(new)] =
        [g \in Fetch |-> IF g = f THEN AbsOf(new) ELSE AbsOf(status[g])]
  BY DEF Abstract
<1>5. QED BY <1>2, <1>3, <1>4

\* The steps of the partition as steps of the service.
AbstractStep(f, from, to) ==
    Abstract[f] = from /\ Abstract' = [Abstract EXCEPT ![f] = to]

AbstractNext ==
    \E f \in Fetch :
        \/ AbstractStep(f, "idle", "pending")
        \/ ~IsWriteback(f) /\ AbstractStep(f, "pending", "answered")
        \/ AbstractStep(f, "answered", "idle")
        \/ IsWriteback(f) /\ AbstractStep(f, "pending", "idle")

\* A fetch in flight is answered, if it expects an answer, or else retired.
LEMMA AnswerSteps ==
    ASSUME TypeOK, NEW f \in InFlight,
           (ReplyToL2(f) /\ ~IsWriteback(f)) \/ (SetDone(f) /\ IsWriteback(f))
    PROVE  AbstractNext
<1>1. f \in Fetch /\ Abstract[f] = "pending"
  BY DEF InFlight, Abstract, AbsOf
<1>2. CASE ReplyToL2(f) /\ ~IsWriteback(f)
  <2>1. Abstract' = [Abstract EXCEPT ![f] = AbsOf("DRAM_TO_L2")]
    BY <1>1, <1>2, AbstractMove DEF ReplyToL2, Status
  <2>2. QED BY <1>1, <1>2, <2>1 DEF AbsOf, AbstractNext, AbstractStep
<1>3. CASE SetDone(f) /\ IsWriteback(f)
  <2>1. Abstract' = [Abstract EXCEPT ![f] = AbsOf("NONE")]
    BY <1>1, <1>3, AbstractMove DEF SetDone, Status
  <2>2. QED BY <1>1, <1>3, <2>1 DEF AbsOf, AbstractNext, AbstractStep
<1>4. QED BY <1>2, <1>3

\* A move between two statuses of a pending fetch is no step of the service.
LEMMA PendingMove ==
    ASSUME TypeOK, NEW f \in Fetch, NEW new \in Status,
           status[f] \notin {"NONE", "DRAM_TO_L2"}, new \notin {"NONE", "DRAM_TO_L2"},
           status' = [status EXCEPT ![f] = new]
    PROVE  Abstract' = Abstract
<1>1. Abstract' = [Abstract EXCEPT ![f] = AbsOf(new)]
  BY AbstractMove
<1>2. AbsOf(new) = "pending" /\ Abstract[f] = "pending"
  BY DEF Abstract, AbsOf
<1>3. QED BY <1>1, <1>2 DEF Abstract

LEMMA RefinementStep ==
    ASSUME TypeOK, Placement, NoWritebackReturns, [Next]_vars
    PROVE  AbstractNext \/ Abstract' = Abstract
<1> DEFINE Goal == AbstractNext \/ Abstract' = Abstract
<1>0. /\ l2dram \in [Sub -> Seq(Fetch)] /\ dramL2 \in [Sub -> Seq(Fetch)]
      /\ latq \in [Backend -> Seq(Fetch)] /\ retq \in [Backend -> Seq(Fetch)]
  BY DEF TypeOK
<1>1. ASSUME NEW f \in Fetch, L2Push(f) PROVE Goal
  <2>1. Abstract' = [Abstract EXCEPT ![f] = AbsOf("L2_TO_DRAM")]
    BY <1>1, AbstractMove DEF L2Push, Status
  <2>2. AbstractStep(f, "idle", "pending")
    BY <1>1, <2>1 DEF L2Push, AbstractStep, AbsOf, Abstract
  <2>3. QED BY <2>2 DEF AbstractNext
<1>2. ASSUME NEW s \in Sub, L2Pop(s) PROVE Goal
  <2> DEFINE f == Head(dramL2[s])
  <2>1. f \in Range(dramL2[s])
    BY <1>0, <1>2, HeadTail DEF L2Pop
  <2>2. f \in Fetch /\ status[f] = "DRAM_TO_L2"
    BY <1>0, <2>1 DEF Placement, HoldsExactly
  <2>3. status' = [status EXCEPT ![f] = "NONE"]
    BY <1>2 DEF L2Pop
  <2> HIDE DEF f
  <2>4. Abstract' = [Abstract EXCEPT ![f] = AbsOf("NONE")]
    BY <2>2, <2>3, AbstractMove DEF Status
  <2>5. AbstractStep(f, "answered", "idle")
    BY <2>2, <2>4 DEF AbstractStep, AbsOf, Abstract
  <2>6. QED BY <2>2, <2>5 DEF AbstractNext
<1>3. ASSUME UNCHANGED status PROVE Goal
  BY <1>3 DEF Abstract
<1>4. ASSUME NEW b \in Backend, NEW f \in Fetch, Complete(b, f) PROVE Goal
  <2>1. status[f] = "BACKEND"
    BY <1>4 DEF Complete, Placement
  <2>2. CASE IsWriteback(f)
    BY <1>4, <2>1, <2>2, AnswerSteps DEF Complete, InFlight
  <2>3. CASE ~IsWriteback(f)
    <3>1. status' = [status EXCEPT ![f] = "RETURNQ"]
      BY <1>4, <2>3 DEF Complete
    <3>2. QED BY <2>1, <3>1, PendingMove DEF Status
  <2>4. QED BY <2>2, <2>3
<1>5. ASSUME NEW b \in Backend, PopReturn(b) PROVE Goal
  <2> DEFINE f == Head(retq[b])
  <2>1. CASE retq[b] # <<>> /\ ~DramL2Full(subOf[f])
    <3>1. f \in Range(retq[b])
      BY <1>0, <2>1, HeadTail
    <3>2. f \in Fetch /\ status[f] = "RETURNQ"
      BY <1>0, <3>1 DEF Placement, HoldsExactly
    <3>3. f \in InFlight /\ ~IsWriteback(f)
      BY <3>2 DEF InFlight, NoWritebackReturns
    <3>4. QED BY <1>5, <2>1, <3>3, AnswerSteps DEF PopReturn
  <2>2. CASE ~(retq[b] # <<>> /\ ~DramL2Full(subOf[f]))
    BY <1>3, <1>5, <2>2 DEF PopReturn
  <2>3. QED BY <2>1, <2>2
<1>6. ASSUME PopSimple PROVE Goal
  <2> DEFINE f == Head(latq["HBM"])
             ready == latq["HBM"] # <<>> /\ wait[f] = 0
  <2>1. CASE ready /\ (IsWriteback(f) \/ ~DramL2Full(subOf[f]))
    <3>1. f \in Range(latq["HBM"]) /\ "HBM" \in Backend
      BY <1>0, <2>1, HeadTail DEF Backend
    <3>2. f \in InFlight
      BY <1>0, <3>1 DEF Placement, HoldsExactly, InFlight
    <3>3. QED BY <1>6, <2>1, <3>2, AnswerSteps DEF PopSimple
  <2>2. CASE ~(ready /\ (IsWriteback(f) \/ ~DramL2Full(subOf[f])))
    BY <1>3, <1>6, <2>2 DEF PopSimple
  <2>3. QED BY <2>1, <2>2
<1>7. ASSUME NEW b \in Backend, PushReady(b) PROVE Goal
  <2> DEFINE f == Head(latq[b])
  <2>1. CASE MayPush(b)
    <3>1. f \in Range(latq[b])
      BY <1>0, <2>1, HeadTail DEF MayPush
    <3>2. f \in Fetch /\ status[f] = "LATENCY"
      BY <1>0, <3>1 DEF Placement, HoldsExactly
    <3>3. status' = [status EXCEPT ![f] = "BACKEND"]
      BY <1>7, <2>1 DEF PushReady, BackendPush, MayPush
    <3> HIDE DEF f
    <3>4. QED BY <3>2, <3>3, PendingMove DEF Status
  <2>2. CASE ~MayPush(b)
    BY <1>3, <1>7, <2>2 DEF PushReady
  <2>3. QED BY <2>1, <2>2
<1>8. ASSUME Arbitrate PROVE Goal
  <2>1. CASE UNCHANGED status
    BY <1>3, <2>1
  <2>2. ASSUME NEW s \in Sub, Chosen(s),
               status' = [status EXCEPT ![Head(l2dram[s])] = "LATENCY"]
        PROVE  Goal
    <3> DEFINE f == Head(l2dram[s])
    <3>1. f \in Range(l2dram[s])
      BY <1>0, <2>2, HeadTail DEF Chosen, Ready
    <3>2. f \in Fetch /\ status[f] = "L2_TO_DRAM"
      BY <1>0, <3>1 DEF Placement, HoldsExactly
    <3>3. status' = [status EXCEPT ![f] = "LATENCY"]
      BY <2>2
    <3> HIDE DEF f
    <3>4. QED BY <3>2, <3>3, PendingMove DEF Status
  <2>3. QED BY <1>8, <2>1, <2>2 DEF Arbitrate
<1>9. CASE DramCycle
  BY <1>5, <1>6, <1>7, <1>8, <1>9
  DEF DramCycle, PopHBM, PopHBF, PushHBM, PushHBF, Backend
<1>10. QED
  BY <1>1, <1>2, <1>3, <1>4, <1>9 DEF Next, vars, CoreTick, FreeSlot

\* Only Complete() fills a return queue, with a fetch that is no writeback.
LEMMA NoWritebackReturnsStep ==
    ASSUME TypeOK, NoWritebackReturns, [Next]_vars
    PROVE  NoWritebackReturns'
<1>1. ASSUME NEW f, NEW new, status' = [status EXCEPT ![f] = new],
             new = "RETURNQ" => ~IsWriteback(f)
      PROVE  NoWritebackReturns'
  BY <1>1 DEF NoWritebackReturns, TypeOK, IsWriteback
<1>2. ASSUME UNCHANGED status PROVE NoWritebackReturns'
  BY <1>2 DEF NoWritebackReturns, IsWriteback
<1>3. CASE \/ \E f \in Fetch : L2Push(f)
           \/ \E s \in Sub : L2Pop(s)
  BY <1>1, <1>3 DEF L2Push, L2Pop
<1>4. CASE \E b \in Backend, f \in Fetch : Complete(b, f)
  BY <1>1, <1>4 DEF Complete, SetDone
<1>5. CASE DramCycle
  <2>1. ASSUME NEW b, PopReturn(b) PROVE NoWritebackReturns'
    BY <1>1, <1>2, <2>1 DEF PopReturn, ReplyToL2
  <2>2. ASSUME PopSimple PROVE NoWritebackReturns'
    BY <1>1, <1>2, <2>2 DEF PopSimple, ReplyToL2, SetDone
  <2>3. ASSUME NEW b, PushReady(b) PROVE NoWritebackReturns'
    BY <1>1, <1>2, <2>3 DEF PushReady, BackendPush
  <2>4. ASSUME Arbitrate PROVE NoWritebackReturns'
    BY <1>1, <1>2, <2>4 DEF Arbitrate
  <2>5. QED
    BY <1>5, <2>1, <2>2, <2>3, <2>4
    DEF DramCycle, PopHBM, PopHBF, PushHBM, PushHBF
<1>6. QED
  BY <1>2, <1>3, <1>4, <1>5 DEF Next, vars, CoreTick, FreeSlot

\* The partition implements the service: one answer for each fetch that expects
\* one, none for a writeback, and no answer that was not asked for.
THEOREM Refinement == Spec => ImplementsService
<1>1. Init => NoWritebackReturns
  BY DEF Init, NoWritebackReturns
<1>2. TypeOK /\ NoWritebackReturns /\ [Next]_vars => NoWritebackReturns'
  BY NoWritebackReturnsStep
<1>3. Init => Service!Init
  <2>1. SUFFICES ASSUME Init PROVE ServiceState = [f \in Fetch |-> "idle"]
    BY DEF Service!Init
  <2>2. \A s \in Sub : Range(dramL2[s]) = {}
    BY <2>1 DEF Init, Range
  <2>3. QED BY <2>1, <2>2 DEF Init, ServiceState
<1>4. /\ TypeOK /\ Placement /\ NoWritebackReturns /\ TypeOK' /\ Placement'
      /\ [Next]_vars
      => [Service!Next]_ServiceState
  <2> SUFFICES ASSUME TypeOK, Placement, NoWritebackReturns, TypeOK', Placement', [Next]_vars
               PROVE  [Service!Next]_ServiceState
    OBVIOUS
  <2>1. ServiceState = Abstract
    BY ServiceStateIsAbstract
  <2>2. (TypeOK /\ Placement => ServiceState = Abstract)'
    BY ServiceStateIsAbstract, PTL
  <2>3. ServiceState' = Abstract'
    BY <2>2
  <2>4. AbstractNext => Service!Next
    BY <2>1, <2>3
    DEF AbstractNext, AbstractStep, Service!Next, Service!Accept, Service!Answer,
        Service!Take, Service!Retire, Service!Move
  <2>5. QED BY <2>1, <2>3, <2>4, RefinementStep
<1>5. QED
  BY <1>1, <1>2, <1>3, <1>4, TypeCorrect, PlacementCorrect, PTL
  DEF Spec, ImplementsService, Service!Spec
=============================================================================
