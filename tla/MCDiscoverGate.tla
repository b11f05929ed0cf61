-------------------------- MODULE MCDiscoverGate --------------------------
(* DiscoverGate with two overlapping renders, for TLC.                     *)
EXTENDS DiscoverGate, TLC

CONSTANTS r1, r2, p1, p2

MCRelays  == {r1, r2}
MCRenders == {p1, p2}

Symmetry == Permutations(MCRelays) \cup Permutations(MCRenders)
=============================================================================
