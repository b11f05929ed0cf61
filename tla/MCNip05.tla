------------------------------- MODULE MCNip05 -------------------------------
(* Two rows, of two authors who may claim one handle, for TLC.             *)
EXTENDS Nip05

MCAuthor   == [r \in Rows |-> IF r = "row1" THEN "alice" ELSE "bob"]
MCProfiles == [r \in Rows |-> {"none", "malformed", "a"}]
=============================================================================
