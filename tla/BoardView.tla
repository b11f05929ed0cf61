------------------------------ MODULE BoardView ------------------------------
(***************************************************************************)
(* What a reader makes of a board's events: deriveBoardView of the         *)
(* protocol package, run by the indexer over its events table and by the   *)
(* browser over what its subscriptions sent, and the two counts of replies *)
(* the pages show.                                                         *)
(*                                                                         *)
(* The state is one reader's log: the events in the order they reached it, *)
(* which no two readers share. Everything else is a function of the log,   *)
(* defined the way the code computes it: its loops that keep the newest    *)
(* event per key, or count replies, take the log event by event.           *)
(***************************************************************************)
EXTENDS Integers, Sequences, FiniteSets, SequencesExt

CONSTANTS
  Universe,   \* the signed events that may reach the reader, verified and parsed
  Coords,     \* board coordinates "34550:<owner>:<slug>", this board's and others
  Seeds,      \* the logs a reader starts with (a snapshot of the server's)
  MaxLog,     \* bound of the model: how long the log grows
  MaxDepth    \* MAX_THREAD_DEPTH

-----------------------------------------------------------------------------
(* Parsed events: an id, an author, created_at, and what the kind adds.    *)
(* Those that do not parse are left out, but for a board's version: it is  *)
(* chosen before it is parsed.                                             *)

Users == {e.by : e \in Universe}

BoardEvents == [kind : {"board"}, id : Int, by : Users, at : Int, coord : Coords,
                mods : SUBSET Users, curated : BOOLEAN, named : BOOLEAN]
IdeaEvents  == [kind : {"idea"}, id : Int, by : Users, at : Int]
ReplyEvents == [kind : {"reply"}, id : Int, by : Users, at : Int, parent : Int]
VoteEvents  == [kind : {"vote"}, id : Int, by : Users, at : Int, target : Int, up : BOOLEAN]

\* A label says one thing of an event, or of a user when it is a ban; its a tag
\* names the board it is for.
LabelEvents ==
  [kind : {"label"}, id : Int, by : Users, at : Int, a : Coords,
   ns : {"status", "pin", "hide", "lock"}, key : Int, on : BOOLEAN]
  \cup
  [kind : {"label"}, id : Int, by : Users, at : Int, a : Coords,
   ns : {"ban"}, key : Users, on : BOOLEAN]
ApprovalEvents == [kind : {"approval"}, id : Int, by : Users, at : Int, a : Coords, post : Int]

\* A deletion names events, or boards by their coordinates.
DeletionEvents ==
  [kind : {"deletion"}, id : Int, by : Users, at : Int, ids : SUBSET Int, coords : SUBSET Coords]

ASSUME UniverseAssumption ==
  /\ \A e \in Universe :
       e \in BoardEvents \cup IdeaEvents \cup ReplyEvents \cup VoteEvents \cup LabelEvents
             \cup ApprovalEvents \cup DeletionEvents
  /\ \A e, f \in Universe : e.id = f.id => e = f
  /\ \A b, c \in Universe : b.kind = "board" /\ c.kind = "board" /\ b.coord = c.coord => b.by = c.by
ASSUME SeedsAssumption ==
  \A s \in Seeds : s \in Seq(Universe) /\ \A m, n \in DOMAIN s : s[m] = s[n] => m = n
ASSUME BoundsAssumption == MaxLog \in Nat /\ MaxDepth \in Nat \ {0}

VARIABLE log

-----------------------------------------------------------------------------
(* Newest-wins.                                                            *)

\* NIP-01: on equal created_at the lowest id wins.
Newer(e, f) == e.at > f.at \/ (e.at = f.at /\ e.id < f.id)

\* Mutant of KeepNewest: on equal times the one that came last wins.
KeepLast(latest, key, e) ==
  IF key \in DOMAIN latest /\ latest[key].at > e.at
  THEN latest
  ELSE [k \in DOMAIN latest \cup {key} |-> IF k = key THEN e ELSE latest[k]]

\* One step of the loops of tallyVotes and collapseLatest.
KeepNewest(latest, key, e) ==
  IF key \in DOMAIN latest /\ ~Newer(e, latest[key])
  THEN latest
  ELSE [k \in DOMAIN latest \cup {key} |-> IF k = key THEN e ELSE latest[k]]

\* One vote counts per voter, and one label of a namespace per subject.
Key(e) == IF e.kind = "vote" THEN e.by ELSE e.key

\* Both loops, over the events of the log that are counted.
Collapse(es, counted) ==
  LET latest[n \in 0 .. Len(es)] ==
        IF n = 0 THEN <<>>
        ELSE IF es[n] \in counted THEN KeepNewest(latest[n - 1], Key(es[n]), es[n])
        ELSE latest[n - 1]
  IN latest[Len(es)]

-----------------------------------------------------------------------------
(* Deletions.                                                              *)

Of(kinds, es) == {e \in ToSet(es) : e.kind \in kinds}

\* An author deletes an event of theirs by id, and by coordinate the versions
\* of a board of theirs that are not newer than the deletion.
Deletes(d, e) ==
  /\ d.by = e.by
  /\ e.id \in d.ids \/ (e.kind = "board" /\ e.coord \in d.coords /\ e.at <= d.at)

\* Mutant of DeletedIds: a kind of candidate is left out.
DeletedButLabels(es) ==
  {e.id : e \in {c \in Of({"idea", "reply", "vote", "board"}, es) :
                   \E d \in Of({"deletion"}, es) : Deletes(d, c)}}

\* The ids that deriveBoardView hides; it offers every kind but approvals.
DeletedIds(es) ==
  {e.id : e \in {c \in Of({"idea", "reply", "vote", "label", "board"}, es) :
                   \E d \in Of({"deletion"}, es) : Deletes(d, c)}}

\* The events of some kinds that are not deleted.
Live(kinds, es) ==
  LET deleted == DeletedIds(es) IN {e \in Of(kinds, es) : e.id \notin deleted}

-----------------------------------------------------------------------------
(* The board and its moderation.                                           *)

NoBoard == [kind |-> "none"]

\* The newest board event that is not deleted, whatever its author and
\* coordinate. If that one has no name it does not parse, and there is no board:
\* older ones are not tried.
Board(es) ==
  LET live   == Live({"board"}, es)
      newest == {b \in live : b.named /\ \A c \in live \ {b} : Newer(b, c)}
  IN IF newest = {} THEN NoBoard ELSE CHOOSE b \in newest : TRUE

Moderators(b) == {b.by} \cup b.mods

\* Mutant of Labels: the moderators of every version count, the dismissed too.
LabelsOfAnyVersion(ns, es) ==
  {l \in Live({"label"}, es) :
     /\ l.ns = ns /\ Board(es) # NoBoard
     /\ \E b \in Live({"board"}, es) : l.a = b.coord /\ l.by \in Moderators(b)}

\* The labels of a namespace that count: by the owner or a moderator of the
\* current board, about this board.
Labels(ns, es) ==
  LET b == Board(es) IN
    IF b = NoBoard THEN {}
    ELSE {l \in Live({"label"}, es) : l.ns = ns /\ l.a = b.coord /\ l.by \in Moderators(b)}

Latest(ns, es) == Collapse(es, Labels(ns, es))
On(latest)     == {k \in DOMAIN latest : latest[k].on}

Pinned(es) == On(Latest("pin", es))
Hidden(es) == On(Latest("hide", es))
Status(es) == [k \in DOMAIN Latest("status", es) |-> Latest("status", es)[k].on]
Locks(es)  == [k \in DOMAIN Latest("lock", es) |-> Latest("lock", es)[k].at]

\* The owner cannot be banned, and a moderator only by the owner.
MayBan(b, l) == l.key # b.by /\ (l.key \in b.mods => l.by = b.by)

\* Mutant of Banned: the rule is applied to the label that won.
BannedAfterCollapse(es) ==
  LET latest == Latest("ban", es) IN {s \in On(latest) : MayBan(Board(es), latest[s])}

\* That rule comes before newest-wins.
Banned(es) ==
  LET b == Board(es) IN On(Collapse(es, {l \in Labels("ban", es) : MayBan(b, l)}))

Approved(es) ==
  LET b == Board(es) IN
    IF b = NoBoard THEN {}
    ELSE {a.post : a \in {x \in Live({"approval"}, es) : x.a = b.coord /\ x.by \in Moderators(b)}}

Moderation(es) ==
  <<Board(es), Pinned(es), Hidden(es), Status(es), Locks(es), Banned(es), Approved(es)>>

-----------------------------------------------------------------------------
(* Votes and replies.                                                      *)

\* Mutant of Votes: those of banned users are kept.
VotesOfAll(target, es) == {v \in Live({"vote"}, es) : v.target = target}

Votes(target, es) ==
  LET banned == Banned(es) IN
    {v \in Live({"vote"}, es) : v.target = target /\ v.by \notin banned}

\* The tally of a target: whose vote counts, and which of their votes.
Tally(target, es) == Collapse(es, Votes(target, es))

Score(tally) == Cardinality({p \in DOMAIN tally : tally[p].up})
                - Cardinality({p \in DOMAIN tally : ~tally[p].up})

Replies(es) ==
  {r \in Live({"reply"}, es) : r.id \notin Hidden(es) /\ r.by \notin Banned(es)}

\* The replies of rs below a root, down to a depth.
Below(root, rs, depth) ==
  LET ids[d \in 0..depth] ==
        IF d = 0 THEN {root} ELSE ids[d - 1] \cup {r.id : r \in {x \in rs : x.parent \in ids[d - 1]}}
  IN {r \in rs : r.parent \in ids[depth - 1]}

\* Mutant of InTime: the cutoff is exclusive.
Before(root, locks, r) == root \in DOMAIN locks => r.at < locks[root]

\* A locked thread shows what was posted up to the lock.
InTime(root, locks, r) == root \in DOMAIN locks => r.at <= locks[root]

Ideas(es) == Live({"idea"}, es)

\* The replies found under an idea, in time, but for those found before.
Found(root, seen, es) ==
  LET rs == Replies(es)
  IN Below(root, {r \in rs \ seen : InTime(root, Locks(es), r)}, Cardinality(rs) + 1)

\* replyCountsByRoot: the replies that count for the idea at a place of the log
\* are those that no earlier idea has.
Counted(place, es) ==
  LET ideas == Ideas(es)
      seen[n \in 0 .. Len(es)] ==
        IF n = 0 THEN {}
        ELSE IF es[n] \in ideas THEN seen[n - 1] \cup Found(es[n].id, seen[n - 1], es)
        ELSE seen[n - 1]
  IN Found(es[place].id, seen[place - 1], es)

\* buildThread, then pruneThread: the tree of all replies, cut at MAX_THREAD_DEPTH,
\* without the subtrees that are late.
Thread(root, es) ==
  LET tree == Below(root, Replies(es), MaxDepth)
  IN Below(root, {r \in tree : ~ (root \in DOMAIN Locks(es) /\ r.at > Locks(es)[root])}, MaxDepth)

-----------------------------------------------------------------------------
(* The feed.                                                               *)

\* On a curated board the ideas of others need an approval.
IsApproved(i, es) ==
  LET b == Board(es) IN
    (b # NoBoard /\ b.curated) => i.id \in Approved(es) \/ i.by \in Moderators(b)

Row(i, count, es) ==
  [id |-> i.id, score |-> Score(Tally(i.id, es)), replies |-> count,
   status |-> [s \in {i.id} \cap DOMAIN Status(es) |-> Status(es)[s]], pinned |-> i.id \in Pinned(es)]

\* The rows of the feed. Their order (sortIdeaStats) is left out.
Feed(es) ==
  LET shown == {i \in Ideas(es) : /\ IsApproved(i, es)
                                  /\ i.id \notin Hidden(es)
                                  /\ i.by \notin Banned(es)}
  IN {Row(es[n], Cardinality(Counted(n, es)), es) : n \in {m \in DOMAIN es : es[m] \in shown}}

-----------------------------------------------------------------------------
(* A reader.                                                               *)

\* An event arrives; one that the reader has already is dropped.
Arrive(e) ==
  /\ Len(log) < MaxLog
  /\ e \notin ToSet(log)
  /\ log' = Append(log, e)

Init == log \in Seeds

Next == \E e \in Universe : Arrive(e)

Spec == Init /\ [][Next]_log

-----------------------------------------------------------------------------
(* Properties.                                                             *)

TypeOK ==
  /\ \A n \in DOMAIN log : log[n] \in Universe
  /\ \A m, n \in DOMAIN log : log[m] = log[n] => m = n

NewestOf(S) == CHOOSE e \in S : \A f \in S \ {e} : Newer(e, f)

\* Readers agree: whichever order events came in, the label or vote that a loop
\* keeps for a key is the newest of that key, the lower id on equal times.
ReadersAgree ==
  /\ \A ns \in {"status", "pin", "hide", "lock"} : \A k \in DOMAIN Latest(ns, log) :
       Latest(ns, log)[k] = NewestOf({l \in Labels(ns, log) : l.key = k})
  /\ \A t \in {v.target : v \in Of({"vote"}, log)} : \A p \in DOMAIN Tally(t, log) :
       Tally(t, log)[p] = NewestOf({v \in Votes(t, log) : v.by = p})

\* The owner has the last word on a moderator: nobody bans the owner, and a
\* moderator is banned exactly when the owner's newest ban label on them says
\* so, however new the labels of other moderators are.
OwnerHasTheLastWord ==
  LET b    == Board(log)
      by(s) == {l \in Live({"label"}, log) : l.ns = "ban" /\ l.a = b.coord /\ l.by = b.by /\ l.key = s}
  IN b # NoBoard =>
       /\ b.by \notin Banned(log)
       /\ \A s \in b.mods \ {b.by} :
            s \in Banned(log) <=> (by(s) # {} /\ NewestOf(by(s)).on)

\* The log without some events.
Without(es, gone) ==
  LET rest[n \in 0 .. Len(es)] ==
        IF n = 0 THEN <<>>
        ELSE IF es[n] \in gone THEN rest[n - 1] ELSE Append(rest[n - 1], es[n])
  IN rest[Len(es)]

Retracted(es, kinds) ==
  {e \in ToSet(es) : e.kind \in kinds /\ \E d \in ToSet(es) : d.kind = "deletion" /\ d.by = e.by
                                                               /\ e.id \in d.ids}

\* A retracted event leaves no trace: once its author deleted it, the board
\* looks as if the event had never come, before or after its deletion.
RetractionLeavesNoTrace ==
  LET rest == Without(log, Retracted(log, {"board", "idea", "reply", "vote", "label"}))
  IN Moderation(log) = Moderation(rest) /\ Feed(log) = Feed(rest)

\* The banned have no voice: the feed is the one without any idea, reply or
\* vote of a banned user.
BannedHaveNoVoice ==
  LET silenced == {e \in ToSet(log) : e.kind \in {"idea", "reply", "vote"} /\ e.by \in Banned(log)}
  IN Feed(log) = Feed(Without(log, silenced))

\* The feed and the idea page agree on an idea's replies, although one counts
\* them in a single pass over all ideas and the other builds the tree and prunes
\* it, as long as no thread is deeper than MAX_THREAD_DEPTH.
FeedAgreesWithIdeaPage ==
  \A row \in Feed(log) :
    Below(row.id, Replies(log), MaxDepth + 1) = Below(row.id, Replies(log), MaxDepth)
      => row.replies = Cardinality(Thread(row.id, log))

\* Only the owner and the moderators moderate: nothing that somebody else
\* publishes changes the board's moderation, be it a label, a deletion, or a board
\* of their own, unless it is a board event newer than the one in force: the newest
\* one is taken for the board, whoever signed it (README, section 4).
OnlyModeratorsModerate ==
  [][\A e \in ToSet(log') \ ToSet(log) :
       LET b == Board(log) IN
         (b # NoBoard /\ e.by \notin Moderators(b) /\ ~(e.kind = "board" /\ Newer(e, b))) =>
           Moderation(log') = Moderation(log)]_log
=============================================================================
