---------------------------- MODULE MCAggregator ----------------------------
(* Aggregator on small sets of relays, sockets and events, for TLC.        *)
EXTENDS Aggregator, TLC

CONSTANTS r1, r2, s1, s2, s3, s4, t1, i1, v1

MCRelays    == {r1, r2}
MCOneList   == {MCRelays}
MCAnyList   == SUBSET MCRelays \ {{}}
MCIdeaVote  == [v \in {v1} |-> i1]
MCNoVote    == [v \in {} |-> i1]

Symmetry == Permutations(MCRelays)
=============================================================================
