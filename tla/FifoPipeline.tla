---------------------------- MODULE FifoPipeline ----------------------------
(***************************************************************************)
(* fifo_pipeline (delayqueue.h): a queue that may be given a minimum       *)
(* length.  It is then padded with bubbles (null entries), so that what is *)
(* pushed leaves after at least that many pops.                            *)
(***************************************************************************)
EXTENDS Integers, Sequences

CONSTANT Bubble         \* a null entry, different from every object

Padding(n) == [i \in 1 .. n |-> Bubble]

\* set_min_length() may only drop bubbles after the last object.
LastObject(q) ==
    CHOOSE n \in 0 .. Len(q) :
        /\ n > 0 => q[n] # Bubble
        /\ \A i \in n + 1 .. Len(q) : q[i] = Bubble

\* push(): a bubble at the tail is overwritten, unless the queue is too short.
Push(q, min, x) ==
    IF q # <<>> /\ q[Len(q)] = Bubble /\ Len(q) >= min
    THEN [q EXCEPT ![Len(q)] = x]
    ELSE Append(q, x)

\* pop() of a non-empty queue pads what is left to the minimum length.
Pop(q, min) == IF Len(q) <= min THEN Append(Tail(q), Bubble) ELSE Tail(q)

\* set_min_length(): padding when it grows; when it shrinks, trailing bubbles
\* above the new length go.
SetMinLength(q, min, new) ==
    IF new >= min
    THEN IF Len(q) < new THEN q \o Padding(new - Len(q)) ELSE q
    ELSE LET keep == IF LastObject(q) > new THEN LastObject(q) ELSE new
         IN  IF Len(q) > keep THEN SubSeq(q, 1, keep) ELSE q
=============================================================================
