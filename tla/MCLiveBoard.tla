----------------------------- MODULE MCLiveBoard -----------------------------
(***************************************************************************)
(* A board with an idea, a reply and a vote that was retracted. During a   *)
(* visit to the board's page or, by the reply's link, to the idea's, the   *)
(* visitor answers the reply and may retract the answer, and the board is  *)
(* edited.                                                                 *)
(***************************************************************************)
EXTENDS LiveBoard

Event(i, k, o, t) == [id |-> i, kind |-> k, of |-> o, at |-> t]

MCPublished == {Event(1, "board", 0, 1), Event(2, "attest", 1, 0), Event(3, "idea", 0, 0),
                Event(4, "reply", 3, 0), Event(5, "vote", 3, 0),
                Event(7, "deletion", 5, 0)}
MCPosts     == {Event(6, "reply", 4, 0)}
MCUniverse  == MCPublished \cup MCPosts
               \cup {Event(8, "deletion", 6, 0), Event(9, "board", 0, 2)}
MCLinks     == {Feed, 4}
=============================================================================
