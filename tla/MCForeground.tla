---------------------------- MODULE MCForeground ----------------------------
(* Small instances of Foreground. *)
EXTENDS Foreground, TLC

CONSTANTS i1, i2, i3

MCItems == {i1, i2, i3}
MCPair == {i1, i2}

\* Items are interchangeable.
MCSymmetry == Permutations({i1, i2, i3})
=============================================================================
