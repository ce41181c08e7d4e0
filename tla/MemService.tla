----------------------------- MODULE MemService -----------------------------
(***************************************************************************)
(* What a memory partition promises its sub partitions: every fetch it     *)
(* accepts is either answered exactly once (and then taken back by the L2) *)
(* or, when it is a writeback, retired without an answer.                  *)
(***************************************************************************)
CONSTANTS Fetch, Writeback

VARIABLE state      \* "idle", "pending" or "answered", for each fetch

TypeOK == state \in [Fetch -> {"idle", "pending", "answered"}]

Init == state = [f \in Fetch |-> "idle"]

Move(f, from, to) ==
    /\ state[f] = from
    /\ state' = [state EXCEPT ![f] = to]

Accept(f) == Move(f, "idle", "pending")
Answer(f) == f \notin Writeback /\ Move(f, "pending", "answered")
Take(f)   == Move(f, "answered", "idle")
Retire(f) == f \in Writeback /\ Move(f, "pending", "idle")

Next == \E f \in Fetch : Accept(f) \/ Answer(f) \/ Take(f) \/ Retire(f)

Spec == Init /\ [][Next]_state
=============================================================================
