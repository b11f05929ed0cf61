------------------------------ MODULE LiveBoard ------------------------------
(***************************************************************************)
(* How a board's events reach a page: the server's snapshot, read in       *)
(* passes while people go on publishing, and the page's subscriptions,     *)
(* which ask for reactions and deletions by the ids they know so far and   *)
(* refresh that list through a debounce. What is derived from the events   *)
(* is module BoardView's; here it matters which of them the page has.      *)
(*                                                                         *)
(* One visit, to a board's page or, through the link of a comment, to an   *)
(* idea's. A tick is the debounce of 250 ms.                               *)
(***************************************************************************)
EXTENDS Integers, Sequences, FiniteSets, FiniteSetsExt

CONSTANTS
  Universe,    \* the events about one board
  Published,   \* those the relays hold when the visit starts
  Links,       \* what is visited: Feed, or the id of a comment
  Feed,        \* the board's page
  Posts,       \* the replies the visitor may post
  MaxHops,     \* MAX_IDEA_RESOLVE_HOPS
  MS, MaxWait, \* the debounce, and the longest it may put a refresh off
  MaxFaults    \* bound of the model: reads that find nothing, and remounts

\* An event and the one it refers to: a reply's parent, the target of a vote, a
\* label or a deletion (by its author), the board version an attestation pins.
\* An id hashes what it refers to, so an event is published after its target.
Kinds  == {"board", "attest", "idea", "reply", "label", "vote", "deletion"}
Ids    == {e.id : e \in Universe}
NoRef  == 0

ASSUME UniverseAssumption ==
  /\ \A e \in Universe : e \in [kind : Kinds, id : Nat \ {0}, of : Nat, at : Nat]
  /\ \A e, f \in Universe : e.id = f.id => e = f
  /\ \A e \in Universe : e.of # NoRef => e.of \in Ids
  /\ \A b, c \in Universe : b.kind = "board" /\ c.kind = "board" /\ b.at = c.at => b = c
  /\ \A e \in Published : e.of # NoRef => \E f \in Published : f.id = e.of
  /\ Published \subseteq Universe /\ Posts \subseteq {e \in Universe : e.kind = "reply"}
  /\ Links \subseteq {Feed} \cup {e.id : e \in {c \in Published : c.kind \in {"idea", "reply"}}}
  /\ Feed \notin Ids
ASSUME BoundsAssumption ==
  MaxHops \in Nat /\ MS \in Nat \ {0} /\ MaxWait \in Nat /\ MS <= MaxWait /\ MaxFaults \in Nat

VARIABLES
  net,      \* the events the relays hold
  link,     \* what is visited
  server,   \* the snapshot: its phase, the queries it awaits, the comment and the
            \* hop its resolution is at, the idea found, what it has read
  page,     \* whether the page and its provider are mounted
  live,     \* the events the page's subscriptions have delivered
  asked,    \* the ids in the filters of the reactions and the deletions subscription
  timers,   \* of each of the two: when its refresh is due, and since when its key holds
  posted,   \* the replies posted, and those deleted, in this visit
  removed,
  faults,
  lost,     \* history: a read of the snapshot found nothing
  lag       \* history: for how long each filter has missed an id the page knows

client == <<live, asked, timers, posted, removed, lag>>
vars   == <<net, link, server, page, client, faults, lost>>

Subs == {"reactions", "deletions"}
Idle == MS + 1        \* no refresh is due
Long == MaxWait + 1   \* bound of the model: what is longer ago counts as this

-----------------------------------------------------------------------------
(* What the page has.                                                      *)

Of(kinds, es) == {e \in es : e.kind \in kinds}
IdsOf(es)     == {e.id : e \in es}
On(kinds, targets, es) == {e \in Of(kinds, es) : e.of \in targets}

Moderation == {"label", "attest"}
Content    == {"idea", "reply", "vote"} \cup Moderation

\* Mutant of Pool: the seeds stand in until something is delivered.
LiveElseSeeds == IF live = {} THEN server.read ELSE live

\* Seeds and live events are united: what came once stays when a source shrinks.
Pool == server.read \cup live

\* The ids each filter should hold.
Known == [s \in Subs |->
            IdsOf(Of(IF s = "reactions" THEN {"idea", "reply"} ELSE Content, Pool))]

Deleted == {e.of : e \in Of({"deletion"}, Pool)}
Shown   == {e \in Of(Content, Pool) : e.id \notin Deleted}

\* buildThread: the replies that hang, through each other, under a comment: the
\* least set that has the replies to the comment and to its own members.
Hangs(root, rs, s) == \A c \in rs : c.of \in {root} \cup IdsOf(s) => c \in s
Under(root, rs)    == {r \in rs : \A s \in SUBSET rs : Hangs(root, rs, s) => r \in s}

\* Mutant of Thread: what was posted is not matched with the deletions.
ThreadOfPosted ==
  Under(server.idea, {r \in Of({"reply"}, Shown) \cup posted : r.id \notin removed})

\* The idea's thread: the view's replies and the posted ones, none suppressed.
Thread ==
  Under(server.idea, {r \in Of({"reply"}, Shown) \cup {p \in posted : p.id \notin Deleted} :
                        r.id \notin removed})

\* The board's newest version; on its own page the live one once there is any.
Newest(boards) == {b \in boards : \A c \in boards : c.at <= b.at}
InitialBoard   == Newest(Of({"board"}, server.read))
DisplayedBoard ==
  IF link = Feed /\ Of({"board"}, live) # {} THEN Newest(Of({"board"}, live)) ELSE InitialBoard

\* The snapshot's flag is about the version it read.
Attested == On({"attest"}, IdsOf(InitialBoard), server.attests) # {}

\* Mutant of Badge: whatever version is displayed.
BadgeOfAny == page.mounted /\ link = Feed /\ Attested /\ DisplayedBoard # {}

Badge == page.mounted /\ link = Feed /\ Attested /\ DisplayedBoard = InitialBoard

-----------------------------------------------------------------------------
(* The server's snapshot.                                                  *)

Phases  == {"resolve", "first", "second", "third", "done"}
Queries == {"board", "comments", "labels", "attests", "votes", "deletions", "retractions"}
NoEvent == 0

\* Mutant of Awaits: the retractions of votes are left to the page.
AwaitsNoRetractions(phase) ==
  CASE phase = "first"  -> {"board", "comments", "labels"} \cup (IF link = Feed THEN {"attests"} ELSE {})
    [] phase = "second" -> {"votes", "deletions"}
    [] OTHER            -> {}

Awaits(phase) ==
  CASE phase = "first"  -> {"board", "comments", "labels"} \cup (IF link = Feed THEN {"attests"} ELSE {})
    [] phase = "second" -> {"votes", "deletions"}
    [] phase = "third"  -> {"retractions"}
    [] OTHER            -> {}

After(phase) ==
  CASE phase = "resolve" -> "first" [] phase = "first" -> "second"
    [] phase = "second" -> "third" [] phase = "third" -> "done"

\* A snapshot nothing was read for: of the board, or of the idea behind a link.
NewSnapshot ==
  [phase |-> IF link = Feed THEN "first" ELSE "resolve",
   await |-> IF link = Feed THEN Awaits("first") ELSE {},
   cursor |-> IF link = Feed THEN NoEvent ELSE link, hops |-> 0,
   idea |-> NoEvent, read |-> {}, attests |-> {}]

\* The comments the votes, and the content the deletions, are asked of: the
\* board's page its ideas and all, the idea's page its idea and every reply.
VotedOn   == IF link = Feed THEN IdsOf(Of({"idea"}, server.read))
             ELSE {server.idea} \cup IdsOf(Of({"reply"}, server.read))
Retracted == IdsOf(Of({"reply"} \cup Moderation, server.read))
             \cup (IF link = Feed THEN IdsOf(Of({"idea"}, server.read)) ELSE {server.idea})

Answer(q) ==
  CASE q = "board"       -> Newest(Of({"board"}, net))
    [] q = "comments"    -> Of({"idea", "reply"}, net)
    [] q = "labels"      -> Of(Moderation, net)
    [] q = "attests"     -> Of({"attest"}, net)
    [] q = "votes"       -> On({"vote"}, VotedOn, net)
    [] q = "deletions"   -> On({"deletion"}, Retracted, net)
    [] q = "retractions" -> On({"deletion"}, IdsOf(Of({"vote"}, server.read)), net)

\* Relays that fail to answer in time leave a query empty.
Loses == faults > 0 /\ faults' = faults - 1 /\ lost' = TRUE
Keeps == UNCHANGED <<faults, lost>>

\* resolveRootIdea, a hop: from a reply to its parent, until an idea is found, or
\* nothing is.
Climb(e) ==
  IF e.kind = "idea"
  THEN [server EXCEPT !.phase = "first", !.await = Awaits("first"), !.idea = e.id]
  ELSE [server EXCEPT !.cursor = e.of, !.hops = @ + 1]

Resolve ==
  LET found == {e \in Of({"idea", "reply"}, net) : e.id = server.cursor}
  IN
  /\ server.phase = "resolve"
  /\ \/ /\ server.hops = MaxHops \/ found = {}
        /\ server' = [server EXCEPT !.phase = "done"] /\ Keeps
     \/ /\ server.hops < MaxHops
        /\ server' = [server EXCEPT !.phase = "done"] /\ Loses
     \/ /\ server.hops < MaxHops /\ Keeps
        /\ \E e \in found : server' = Climb(e)
  /\ UNCHANGED <<net, link, page, client>>

\* One of a pass's queries is answered; they are awaited in any order.
Query(q) ==
  /\ q \in server.await
  /\ \E es \in {Answer(q), {}} :
       /\ IF es = Answer(q) THEN Keeps ELSE Loses
       /\ server' = IF q = "attests"
                    THEN [server EXCEPT !.await = @ \ {q}, !.attests = es]
                    ELSE [server EXCEPT !.await = @ \ {q}, !.read = @ \cup es]
  /\ UNCHANGED <<net, link, page, client>>

NextPass ==
  /\ server.phase \in {"first", "second", "third"} /\ server.await = {}
  /\ server' = [server EXCEPT !.phase = After(@), !.await = Awaits(After(server.phase))]
  /\ UNCHANGED <<net, link, page, client, faults, lost>>

-----------------------------------------------------------------------------
(* The page. Its provider is mounted once there is a board (the board's    *)
(* page), or an idea that names one (the idea's): until then nothing but   *)
(* the board is subscribed to.                                             *)

Provided == IF link = Feed THEN DisplayedBoard # {} ELSE server.idea # NoEvent

\* Mutant of Delay: every change starts the wait again.
DelayUncapped(since) == MS

Delay(since) == Min({MS, Max({0, MaxWait - since})})

\* A provider's first render: the filters hold the seeds' ids, and a refresh is
\* due at once, for no key was applied before.
FirstRender ==
  /\ asked' = Known' /\ timers' = [s \in Subs |-> [due |-> 0, since |-> Long]]
  /\ lag' = [s \in Subs |-> 0]

\* A later one: a list that changed starts its debounce; a filter that was
\* empty opens with it.
Rerender ==
  /\ timers' = [s \in Subs |-> IF Known'[s] = Known[s] THEN timers[s]
                               ELSE [timers[s] EXCEPT !.due = Delay(timers[s].since)]]
  /\ asked' = [s \in Subs |-> IF asked[s] = {} THEN Known'[s] ELSE asked[s]]
  /\ UNCHANGED lag

Mount ==
  /\ server.phase = "done" /\ ~page.mounted
  /\ page' = [mounted |-> TRUE, provided |-> Provided]
  /\ UNCHANGED <<server, live, link, posted, removed>>
  /\ IF Provided THEN FirstRender ELSE UNCHANGED <<asked, timers, lag>>
  /\ UNCHANGED <<net, faults, lost>>

\* What the subscriptions ask for.
Matches(e) ==
  \/ e.kind = "board" /\ link = Feed
  \/ page.provided /\ \/ e.kind \in {"idea", "reply"} \cup Moderation
                      \/ e.kind = "vote" /\ e.of \in asked.reactions
                      \/ e.kind = "deletion" /\ e.of \in asked.deletions

\* A copy of a seed is delivered too, but changes nothing, unless it is a board.
Deliver(e) ==
  /\ page.mounted /\ e \in net /\ Matches(e)
  /\ e \notin live /\ (e.kind = "board" \/ e \notin server.read)
  /\ live' = live \cup {e} /\ UNCHANGED <<server, link, posted, removed>>
  /\ page' = [page EXCEPT !.provided = Provided']
  /\ IF page.provided THEN Rerender
     ELSE IF Provided' THEN FirstRender ELSE UNCHANGED <<asked, timers, lag>>
  /\ UNCHANGED <<net, faults, lost>>

\* useDebounced applies the key, and the subscription is opened anew.
Fire(s) ==
  /\ page.provided /\ timers[s].due = 0
  /\ timers' = [timers EXCEPT ![s] = [due |-> Idle, since |-> 0]]
  /\ asked' = [asked EXCEPT ![s] = Known[s]] /\ lag' = [lag EXCEPT ![s] = 0]
  /\ UNCHANGED <<net, link, server, page, live, posted, removed, faults, lost>>

\* Time passes; a timer that is due fires first.
Tick ==
  /\ page.provided /\ \A s \in Subs : timers[s].due > 0
  /\ timers' = [s \in Subs |->
       [due   |-> IF timers[s].due = Idle THEN Idle ELSE timers[s].due - 1,
        since |-> IF timers[s].since = Long THEN Long ELSE timers[s].since + 1]]
  /\ lag' = [s \in Subs |-> IF Known[s] = asked[s] THEN 0
                            ELSE IF lag[s] = Long THEN Long ELSE lag[s] + 1]
  /\ UNCHANGED <<net, link, server, page, live, asked, posted, removed, faults, lost>>

\* The visitor leaves and comes back: the page is made anew of the same seeds,
\* and its subscriptions start empty.
Remount ==
  /\ page.mounted /\ faults > 0 /\ faults' = faults - 1
  /\ live' = {} /\ posted' = {} /\ removed' = {}
  /\ UNCHANGED <<server, link>>
  /\ page' = [page EXCEPT !.provided = Provided']
  /\ IF Provided' THEN FirstRender ELSE UNCHANGED <<asked, timers, lag>>
  /\ UNCHANGED <<net, lost>>

-----------------------------------------------------------------------------
(* Everyone else, and the visitor.                                         *)

Publishable(e) == e \in Universe \ net /\ (e.of = NoRef \/ e.of \in IdsOf(net))

Publish(e) ==
  /\ Publishable(e) /\ net' = net \cup {e}
  /\ UNCHANGED <<link, server, page, client, faults, lost>>

\* ReplyBox: published, then handed to the thread.
Post(r) ==
  /\ page.mounted /\ server.idea # NoEvent /\ r \in Posts /\ Publishable(r)
  /\ r.of \in {server.idea} \cup IdsOf(Thread)
  /\ net' = net \cup {r} /\ posted' = posted \cup {r}
  /\ UNCHANGED <<link, server, page, live, asked, timers, removed, lag, faults, lost>>

\* DeleteButton on one's own reply: retracted, then taken out of the thread.
Delete(d) ==
  /\ page.mounted /\ d.kind = "deletion" /\ Publishable(d)
  /\ d.of \in IdsOf(Posts \cap Thread)
  /\ net' = net \cup {d} /\ removed' = removed \cup {d.of}
  /\ UNCHANGED <<link, server, page, live, asked, timers, posted, lag, faults, lost>>

-----------------------------------------------------------------------------
Init ==
  /\ net = Published /\ link \in Links
  /\ server = NewSnapshot
  /\ page = [mounted |-> FALSE, provided |-> FALSE]
  /\ live = {} /\ posted = {} /\ removed = {}
  /\ asked = [s \in Subs |-> {}] /\ lag = [s \in Subs |-> 0]
  /\ timers = [s \in Subs |-> [due |-> Idle, since |-> Long]]
  /\ faults = MaxFaults /\ lost = FALSE

Serve == Resolve \/ (\E q \in Queries : Query(q)) \/ NextPass

Next ==
  \/ Serve \/ Mount \/ Tick \/ Remount
  \/ \E s \in Subs : Fire(s)
  \/ \E e \in Universe : Deliver(e) \/ Publish(e) \/ Post(e) \/ Delete(e)

\* A query ends by its deadline, a timer fires, and relays go on delivering what
\* matches. Nobody has to publish anything.
Fairness ==
  /\ WF_vars(Serve \/ Mount) /\ WF_vars(Tick) /\ \A s \in Subs : WF_vars(Fire(s))
  /\ \A e \in Universe : WF_vars(Deliver(e))

Spec == Init /\ [][Next]_vars /\ Fairness

-----------------------------------------------------------------------------
(* Properties.                                                             *)

\* Every variable stays in its type.
TypeOK ==
  /\ net \subseteq Universe /\ link \in Links
  /\ server \in [phase : Phases, await : SUBSET Queries, cursor : Ids \cup {NoEvent},
                 hops : 0 .. MaxHops, idea : Ids \cup {NoEvent},
                 read : SUBSET Universe, attests : SUBSET Universe]
  /\ page \in [mounted : BOOLEAN, provided : BOOLEAN]
  /\ live \subseteq Universe /\ posted \subseteq Posts /\ removed \subseteq Ids
  /\ asked \in [Subs -> SUBSET Ids] /\ lag \in [Subs -> 0 .. Long]
  /\ timers \in [Subs -> [due : 0 .. Idle, since : 0 .. Long]]
  /\ faults \in 0 .. MaxFaults /\ lost \in BOOLEAN

\* However comments stream in, an id the page knows is in the filters of its
\* reactions and deletions within the longest wait (useDebounced's cap).
EveryKnownIdIsAsked == \A s \in Subs : lag[s] <= MaxWait

\* What the page is about: everything, or the one idea and the replies.
Subject(e) == link = Feed \/ e.kind # "idea" \/ e.id = server.idea

\* What was retracted before the page was asked for is on none of its renders,
\* the first included, unless a query failed (the snapshot's second and third
\* passes; everything may be published while they run).
RetractionHolds ==
  page.mounted /\ ~lost =>
    \A d \in Of({"deletion"}, Published) : \A e \in server.read :
      e.id = d.of /\ Subject(e) => e \notin Shown

\* The badge is shown only over a version the service has attested, whatever was
\* edited between the snapshot's reads or since (board-view's re-check).
BadgeIsEarned == Badge => \E a \in Of({"attest"}, net) : a.of \in IdsOf(DisplayedBoard)

\* A reply leaves the thread only when it, or one it hangs under, was retracted:
\* not when it is echoed, nor when deliveries begin.
Over(r, es) == {e \in es : r \in Under(e.id, es) \cup {e}}
ThreadKeepsItsReplies ==
  [][(page.mounted /\ ~Remount) =>
       \A r \in Thread \ Thread' :
         \E e \in Over(r, Of({"reply"}, net)) : On({"deletion"}, {e.id}, net') # {}]_vars

\* What the relays hold about the page's subject.
Truth(kinds) ==
  {e \in Of(kinds, net) : e.id \notin {d.of : d \in Of({"deletion"}, net)} /\ e.kind \in kinds}

\* In the end the page shows what the relays hold, retractions, and on its own page
\* the board's newest version, included; or nothing, for a link without an idea.
CatchesUp ==
  <>[](\/ link # Feed /\ server.idea = NoEvent
       \/ /\ Shown = {e \in Truth(Content) : e.kind = "vote" => e.of \in Known.reactions}
          /\ link # Feed => Thread = Under(server.idea, Truth({"reply"}))
          /\ link = Feed => DisplayedBoard = Newest(Of({"board"}, net)))
=============================================================================
