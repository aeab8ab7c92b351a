------------------------------ MODULE MCMailbox ------------------------------
(* Small instances of Mailbox: a1 and a2 are actionable, p1 only informs, and
   h1 is an actionable receipt that an upgrade moved into run_steps. *)
EXTENDS Mailbox, TLC

CONSTANTS a1, a2, p1, h1

MCMixed == {a1, a2, p1}
MCPair == {a1, a2}
MCUpgraded == {a1, a2, h1}

MCMixedActionable == {a1, a2}

MCNone == {}
MCReceipts == {h1}

\* The two actionable messages are interchangeable.
MCSymmetry == Permutations({a1, a2})
=============================================================================
