--------------------------- MODULE MCBoardEditor ---------------------------
(* An instance of BoardEditor for TLC.                                       *)
EXTENDS BoardEditor

\* 0, 2 and 4 seconds.
MCDelays == <<0, 1, 2>>

\* Relays slow enough for one "not found", and one failed publish or request.
MCTroubles == {[lag |-> 1, faults |-> 1]}

\* These delays outlast these troubles.
ASSUME PatienceAssumption ==
  LET t == [k \in 0 .. 3 |-> <<0, 0, 1, 3>>[k + 1]]
  IN t \in Timetables /\ Patient(t)
=============================================================================
