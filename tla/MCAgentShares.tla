--------------------------- MODULE MCAgentShares ---------------------------
(* AgentShares with two requests, both of which can be cancelled. *)
EXTENDS AgentShares, TLC

CONSTANTS r1, r2, f1, f2, k1
MCCallers == {r1, r2}
MCFresh == {f1, f2}
MCLinks == {k1}
MCSymmetry == Permutations(MCFresh) \cup Permutations(MCCallers)

=============================================================================
