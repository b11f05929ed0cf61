--------------------------- MODULE MCAttestation ---------------------------
(* Attestation on two relays and two boards, for TLC.                      *)
EXTENDS Attestation, TLC

CONSTANTS r1, r2, q1, q2, q3

MCRelays    == {r1, r2}
MCOneRelay  == {r1}
MCCoords    == {"a", "b"}
MCOperators == {"op"}
MCOwner     == [c \in MCCoords |-> IF c = "a" THEN "op" ELSE "alice"]
MCSelfOwned == [c \in MCCoords |-> "op"]

\* An order of event ids that is worst for the carriers: on a created_at tie an
\* attested label beats a delisted one, and a smaller set a larger one.
MCId(e) ==
  IF "coords" \in DOMAIN e
  THEN (IF "a" \in e.coords THEN 1 ELSE 0) + (IF "b" \in e.coords THEN 2 ELSE 0)
  ELSE 2 * e.ver + (IF e.on THEN 0 ELSE 10)

\* MCId is an id: two events of one kind (and, for labels, of one board) that
\* share it are the same event.
ASSUME MCIdAssumption ==
  \A l, m \in [coord : {"a"}, ver : Versions, on : BOOLEAN, at : {1}] : MCId(l) = MCId(m) => l = m

RequestSymmetry == Permutations(Requests)

Symmetry == Permutations(MCRelays) \cup RequestSymmetry
=============================================================================
