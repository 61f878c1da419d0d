----------------------------- MODULE MCReclaim -----------------------------
(* Instances of Reclaim for TLC. *)
EXTENDS Reclaim, TLC

CONSTANTS r1, r2, f1, f2, w1, w2

Symmetry == Permutations(Res) \cup Permutations(Fds) \cup Permutations(Workers)
=============================================================================
