------------------------------ MODULE MCVoting ------------------------------
(* Instances of Voting for TLC.                                            *)
EXTENDS Voting

\* No vote yet; one; and one with the vote it superseded, which was not deleted.
MCPriors ==
  LET up == [dir |-> "up", at |-> 1]  down == [dir |-> "down", at |-> 0]
  IN {{}, {up}, {up, down}}

\* A tie goes to "up" in one second, to "down" in the next.
MCLowId == [at \in 0..MaxAt |-> IF at % 2 = 0 THEN "up" ELSE "down"]
=============================================================================
