------------------------------- MODULE Queues -------------------------------
(***************************************************************************)
(* Families of queues through which objects travel, and what it means that *)
(* they hold each object exactly once.                                     *)
(***************************************************************************)
EXTENDS Integers, Sequences, FiniteSets, Functions

NoRepeat(q) == \A i, j \in DOMAIN q : q[i] = q[j] => i = j

\* Queue q[k] holds, each exactly once, the objects x with status st (by sts)
\* that belong to k (by of).
HoldsExactly(q, sts, st, of) ==
    \A k \in DOMAIN q :
        /\ NoRepeat(q[k])
        /\ Range(q[k]) = {x \in DOMAIN of : sts[x] = st /\ of[x] = k}
=============================================================================
