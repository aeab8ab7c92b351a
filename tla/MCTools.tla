------------------------------ MODULE MCTools ------------------------------
(* Tools on small instances. *)
EXTENDS Tools, TLC

Symmetry == Permutations(Path) \cup Permutations(Txt)

=============================================================================
