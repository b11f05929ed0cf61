----------------------------- MODULE Allowlist -----------------------------
(***************************************************************************)
(* What the attestation service promises a reader of its two carriers:     *)
(* the boards attested by their latest label are the truth, the boards     *)
(* listed for discover are an index derived from it, and a board is never  *)
(* listed without being attested.                                          *)
(***************************************************************************)
CONSTANT Coords

VARIABLES attested, listed

vars == <<attested, listed>>

Init == attested = {} /\ listed = {}

\* A board is attested; discover may not show it yet.
Attest(c) == attested' = attested \cup {c} /\ UNCHANGED listed

\* The index catches up with every attested board.
Relist == listed' = attested /\ UNCHANGED attested

\* A board is withdrawn from the index, which keeps the others.
Withdraw(c) == listed' = attested \ {c} /\ UNCHANGED attested

\* A withdrawn board stops being attested.
Delist(c) ==
  /\ c \notin listed
  /\ attested' = attested \ {c}
  /\ UNCHANGED listed

Next == Relist \/ \E c \in Coords : Attest(c) \/ Withdraw(c) \/ Delist(c)

Spec == Init /\ [][Next]_vars
=============================================================================
