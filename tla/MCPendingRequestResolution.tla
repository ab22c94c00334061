--------------------- MODULE MCPendingRequestResolution ---------------------
(* Two prompts and one ERC-7715 permission request; two surfaces, two leases. *)
EXTENDS PendingRequestResolution, TLC

CONSTANTS r1, r2, l1, l2, tx, batch, grant

MCRuns == {r1, r2}
MCLeases == {l1, l2}
MCTokens == MCRuns \union MCLeases
MCKeys == {tx, batch, grant}
MCSingleFlightKeys == {grant}

Symmetry == Permutations(MCRuns) \union Permutations(MCLeases) \union Permutations({tx, batch})
=============================================================================
