----------------------------- MODULE MCKernels -----------------------------
(* Instances of Kernels for TLC: two streams, two cores in one or two       *)
(* clusters.                                                                *)
EXTENDS Kernels, TLC

\* The second and the third kernel share a stream.
MCStreamOf == <<"s1", "s2", "s2", "s1">>
MCCtasOf == <<3, 2, 1, 2>>
MCThreadsOf == <<1, 2, 1, 4>>
MCMaxCta == <<3, 2, 2, 1>>
MCLatencyOf == <<0, 1, 0, 1>>
MCConfigs == [concurrent : BOOLEAN, perCluster : {1, 2}]

\* A single stream of kernels with one CTA of one warp.
OneEach == [k \in Kernel |-> 1]
ConcurrentOnly == [concurrent : {TRUE}, perCluster : {1}]
=============================================================================
