----------------------------- MODULE MCBufCache -----------------------------
(* BufCache for TLC: either two processes share more blocks than there are *)
(* buffers, and change one of them; or three processes use a block each,   *)
(* so that the third finds no descriptors.                                 *)
EXTENDS BufCache, TLC

CONSTANTS p1, p2, p3, k1, k2, k3, k4, v1, v2

MCProc == {p1, p2, p3}
MCBlock == {k1, k2, k3, k4}
MCValue == {v1, v2}

MCShare == [uses |-> {p1, p2} \X MCBlock, changes |-> {p1, p2} \X {k1}]
MCSplit(p, q, a, b) == [uses |-> {<<p, k1>>, <<q, a>>, <<p3, b>>}, changes |-> {<<p, k1>>}]

(* All the splits that the symmetry makes equal *)
MCWorkloads ==
  {MCShare} \cup {MCSplit(p, q, a, b) : <<p, q, a, b>> \in
                   {x \in {p1, p2} \X {p1, p2} \X {k2, k3, k4} \X {k2, k3, k4} : x[1] # x[2] /\ x[3] # x[4]}}

Symmetry == Permutations({p1, p2}) \cup Permutations({k2, k3, k4}) \cup Permutations(MCValue)
=============================================================================
