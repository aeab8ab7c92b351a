------------------------------ MODULE MCWorkflow ------------------------------
(* Small instances of Workflow: x and y are actions of the run's tools, c
   stands for an approval a child Agent waits for. *)
EXTENDS Workflow, TLC

CONSTANTS x, y, c, k1, k2

MCOneAction == {x}
MCWithChild == {x, y, c}
MCChild == {c}
MCNone == {}
MCCommands == {k1, k2}

\* Commands are interchangeable, and so are the actions of the run's tools.
MCSymmetry == Permutations({k1, k2}) \cup Permutations({x, y})
=============================================================================
