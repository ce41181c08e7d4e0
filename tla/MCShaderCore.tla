--------------------------- MODULE MCShaderCore ---------------------------
(* Instances of ShaderCore for TLC: two warps of a CTA.                     *)
EXTENDS ShaderCore, TLC

CONSTANTS w0, w1, r1, r2, k1, k2

Plain(op) == [op |-> op, dst |-> {}, src |-> {}, acc |-> 0, key |-> k1, n |-> 0]
Alu(d, s) == [Plain("alu") EXCEPT !.dst = d, !.src = s]
Load(d, n) == [Plain("load") EXCEPT !.dst = d, !.acc = n]
Store(n) == [Plain("store") EXCEPT !.acc = n]
Copy(k, n) == [Plain("ldgsts") EXCEPT !.key = k, !.acc = n]
Wait(n) == [Plain("depbar") EXCEPT !.n = n]
MCWarpsOf == [c \in Cta |-> Warp]

\* copies: a warp copies in two groups and awaits the first; the other one loads
\* and is at a second barrier when it has left.  stores: every other operation.
MCPrograms ==
    [copies |-> w0 :> <<Copy(k1, 1), Plain("ldgdepbar"), Copy(k2, 1), Plain("ldgdepbar"), Wait(1),
                        Plain("bar"), Alu({}, {})>> @@
                w1 :> <<Plain("bar"), Plain("bar"), Alu({}, {})>>,
     stores |-> w0 :> <<Load({r1}, 2), Alu({r1}, {}), Plain("membar"), Plain("bar"), Alu({}, {})>> @@
                w1 :> <<Store(1), Plain("bar"), Copy(k1, 1), Alu({}, {})>>]
MCConfigs == {[l1Latency |-> TRUE, perfectFetch |-> TRUE, kernel |-> "copies", ctas |-> 2],
              [l1Latency |-> FALSE, perfectFetch |-> FALSE, kernel |-> "stores", ctas |-> 1]}
=============================================================================
