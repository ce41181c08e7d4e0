------------------------------ MODULE Streams ------------------------------
(***************************************************************************)
(* What the trace driver promises: the kernels of a CUDA stream run one    *)
(* after the other, in the order of the command list; a kernel is retired  *)
(* when all its CTAs have run, and none is retired without having run.     *)
(***************************************************************************)
EXTENDS Naturals

CONSTANTS
    Kernel,         \* the kernels, numbered in the order of the command list
    streamOf,       \* the stream of each
    ctasOf          \* the CTAs of its grid

VARIABLES
    status,         \* "waiting", "running" or "retired"
    left            \* the CTAs that have not run to their end

vars == <<status, left>>

Init ==
    /\ status = [k \in Kernel |-> "waiting"]
    /\ left = ctasOf

Start(k) ==
    /\ status[k] = "waiting"
    /\ \A j \in Kernel : j < k /\ streamOf[j] = streamOf[k] => status[j] = "retired"
    /\ status' = [status EXCEPT ![k] = "running"]
    /\ UNCHANGED left

CtaEnds(k) ==
    /\ status[k] = "running" /\ left[k] > 0
    /\ left' = [left EXCEPT ![k] = @ - 1]
    /\ UNCHANGED status

Retire(k) ==
    /\ status[k] = "running" /\ left[k] = 0
    /\ status' = [status EXCEPT ![k] = "retired"]
    /\ UNCHANGED left

Next == \E k \in Kernel : Start(k) \/ CtaEnds(k) \/ Retire(k)

Spec == Init /\ [][Next]_vars
=============================================================================
