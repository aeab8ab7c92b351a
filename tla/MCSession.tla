----------------------------- MODULE MCSession -----------------------------
(* Session on small instances. *)
EXTENDS Session, TLC

\* A deny rule, and an allow rule with a path pattern.
DenyRule == [behavior |-> "deny", covers |-> {"x"}, glob |-> "none"]
EditRule == [behavior |-> "allow", covers |-> {"x", "y"}, glob |-> "path"]

MCRules == {DenyRule, EditRule}
MCPreset == {EditRule}
MCRoute == <<"first", "second">>

Symmetry == Permutations(Kid) \union Permutations(Path)

=============================================================================
