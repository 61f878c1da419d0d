----------------------------- MODULE MCMemcache -----------------------------
(* Instances of Memcache for TLC. *)
EXTENDS Memcache, TLC

CONSTANTS k1, k2, c1, c2, w1, w2

Symmetry == Permutations(Keys) \cup Permutations(Conns) \cup Permutations(Workers)
=============================================================================
