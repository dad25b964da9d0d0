----------------------------- MODULE MCBufCache -----------------------------
(* BufCache for TLC.                                                       *)
EXTENDS BufCache, TLC
CONSTANTS p1, p2, p3, b1, b2, b3, k1, k2, k3, k4, v1, v2
Symmetry == Permutations(Procs) \cup Permutations(Bufs) \cup Permutations(Vals)
            \cup Permutations(Blocks \ Written)
=============================================================================
