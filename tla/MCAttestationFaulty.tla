------------------------- MODULE MCAttestationFaulty -------------------------
(* Requests that overlap, of which the third may set right what two others *)
(* left, on one relay and with every fault.                                *)
EXTENDS MCAttestation, AttestationHistory

MCWatched == {q1}
=============================================================================
