------------------------------ MODULE MCStores ------------------------------
(* Stores on small instances. *)
EXTENDS Stores, TLC

Symmetry == Permutations(Mem) \cup Permutations(Cand)

=============================================================================
