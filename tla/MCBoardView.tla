----------------------------- MODULE MCBoardView -----------------------------
(* BoardView on one board: an owner o, moderators m and n, and users x and y. *)
EXTENDS BoardView

Label(id, by, at, ns, key, on) ==
  [kind |-> "label", id |-> id, by |-> by, at |-> at, a |-> "ours", ns |-> ns, key |-> key, on |-> on]
Reply(id, by, at, parent) == [kind |-> "reply", id |-> id, by |-> by, at |-> at, parent |-> parent]
Vote(id, by, up)          == [kind |-> "vote", id |-> id, by |-> by, at |-> 2, target |-> 10, up |-> up]
Deletion(id, by, ids)     == [kind |-> "deletion", id |-> id, by |-> by, at |-> 2, ids |-> ids,
                              coords |-> IF ids = {} THEN {"ours"} ELSE {}]
Version(id, at, mods, curated) ==
  [kind |-> "board", id |-> id, by |-> "o", at |-> at, coord |-> "ours", mods |-> mods, curated |-> curated,
   named |-> mods # {}]

MCOpen    == Version(1, 1, {"m", "n"}, FALSE)
MCCurated == Version(2, 1, {"m", "n"}, TRUE)
\* A board of x's, with m as its moderator.
MCOther   == [Version(6, 2, {"m"}, FALSE) EXCEPT !.by = "x", !.coord = "theirs"]
MCIdea    == [kind |-> "idea", id |-> 10, by |-> "x", at |-> 1]
MCReply   == Reply(11, "y", 2, 10)

MCReply2  == Reply(12, "x", 3, 11)
MCLock    == Label(50, "m", 2, "lock", 10, TRUE)
MCBan     == Label(40, "o", 2, "ban", "m", TRUE)
MCUpvote  == Vote(20, "y", TRUE)

\* Readers that come to an open board, to a curated one with a locked thread,
\* and to one that has banned a moderator.
MCSeeds == {<<MCOpen, MCIdea, MCReply, MCReply2, MCUpvote>>,
            <<MCReply, MCCurated, MCIdea, MCLock, MCReply2>>,
            <<MCOpen, MCIdea, MCReply, MCBan, Vote(22, "m", TRUE)>>}

\* Equal times wherever a tie is interesting. The owner dismisses m in a later
\* version of the board, publishes one without a name (the one here without
\* moderators), and deletes the versions up to time 2. A relay may send the board
\* of x too, which is newer than the first version and older than the later ones.
MCUniverse ==
  {MCOpen, MCCurated, MCOther, MCIdea, MCReply, MCReply2, MCLock, MCBan, MCUpvote,
   Version(3, 3, {"n"}, FALSE), Version(5, 3, {}, FALSE),
   Deletion(4, "o", {}),
   Reply(13, "n", 2, 12),
   Vote(21, "y", FALSE), Vote(22, "m", TRUE),
   Deletion(23, "y", {20}),
   Label(30, "m", 2, "hide", 11, TRUE), Label(31, "n", 2, "hide", 11, FALSE),
   [Label(32, "m", 2, "hide", 10, TRUE) EXCEPT !.a = "theirs"],
   Label(33, "n", 2, "pin", 10, TRUE), Label(34, "m", 3, "status", 10, TRUE),
   Label(41, "n", 3, "ban", "m", FALSE),
   Label(42, "m", 2, "ban", "y", TRUE), Label(43, "n", 2, "ban", "o", TRUE),
   [kind |-> "approval", id |-> 60, by |-> "m", at |-> 2, a |-> "ours", post |-> 10],
   Deletion(61, "m", {30, 60}), Deletion(62, "x", {6, 30, 50})}
=============================================================================
