------------------------------- MODULE MCTeam -------------------------------
(***************************************************************************)
(* Team with two tasks.                                                    *)
(***************************************************************************)
EXTENDS Team, TLC

Symmetry == Permutations(Task) \union Permutations(Worker)
=============================================================================
