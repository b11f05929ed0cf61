------------------------------- MODULE Voting -------------------------------
(***************************************************************************)
(* One user votes on one idea in the browser: useVoting, with useMyReactions *)
(* and useDeletedIds under it. Reactions are append-only: a vote is changed *)
(* by a newer reaction and taken back by deleting the one that counts.      *)
(*                                                                         *)
(* Three records of the same vote disagree for a while: the last click      *)
(* (optimistic), the last reaction the page published (published), and those *)
(* the authored subscription has echoed (mine). A pill is disabled while its *)
(* cast is in flight, so casts do not overlap; the clean-up effect's        *)
(* deletions run beside them.                                               *)
(***************************************************************************)
EXTENDS Integers, FiniteSets

CONSTANTS
  Priors,    \* sets of reactions the user may have left in earlier sessions
  Loads,     \* has the subscription echoed them before the first click
  Refusals,  \* publishes that may fail: "vote", "retract", "sweep"; "late" if a vote
             \* or a retraction may be reported as failed although it reached the relays
  LowId,     \* of the two reactions of a second, the direction with the lower id
  MaxTime,   \* bound of the model: the clock
  MaxAt,     \* bound of the model: created_at of a reaction
  Mistakes,  \* bound of the model: the user clicks on until so many things went wrong
  None       \* no reaction

Directions == {"up", "down"}
Votes      == Directions \cup {"none"}

\* A reaction's id is the hash of its contents: direction and created_at are all
\* that tells two of them apart.
Reactions == [dir : Directions, at : 0..MaxAt]

ASSUME BoundsAssumption ==
  MaxTime \in Nat /\ MaxAt \in Nat /\ MaxTime <= MaxAt /\ Mistakes \in Nat
ASSUME PriorsAssumption == \A prior \in Priors : prior \subseteq {e \in Reactions : e.at <= MaxTime}
ASSUME NamesAssumption ==
  /\ None \notin Reactions
  /\ Loads \subseteq BOOLEAN
  /\ Refusals \subseteq {"vote", "retract", "sweep", "late"}
  /\ LowId \in [0..MaxAt -> Directions]

VARIABLES
  loaded,      \* did the page start with its subscription loaded (never changes)
  now,         \* the clock, in seconds
  net,         \* the user's reactions on the relays
  dels,        \* those deleted there
  mine,        \* the reactions the authored subscription has echoed
  hidden,      \* those of them its deletions subscription has hidden
  optimistic,  \* the last click's vote, "unset" before the first
  cast,        \* the cast in flight
  published,   \* the last reaction of this session, None if there is none to retract
  retracted,   \* the reactions claimed for retraction
  sweeps,      \* the clean-up effect's deletions in flight
  kept,        \* history: claimed for retractions that failed
  mistaken     \* history: what the page got wrong (a deletion of a superseded reaction
               \* failed, a publish that reached the relays was reported as failed, or a
               \* vote was no newer than an earlier one)

relays  == <<net, dels>>
echoes  == <<mine, hidden>>
page    == <<optimistic, cast, published>>
history == <<kept, mistaken>>
vars    == <<loaded, now, relays, echoes, page, retracted, sweeps, history>>

-----------------------------------------------------------------------------
(* Which reaction counts.                                                  *)

Newer(e, f) == e.at > f.at \/ (e.at = f.at /\ e # f /\ e.dir = LowId[e.at])

\* The latest that is not deleted, None if all are.
Latest(es, deleted) ==
  IF es \subseteq deleted THEN None
  ELSE CHOOSE e \in es \ deleted : \A f \in (es \ deleted) \ {e} : Newer(e, f)

Direction(e) == IF e = None THEN "none" ELSE e.dir

\* What everybody counts who has all there is.
Counted == Direction(Latest(net, dels))

\* Mutant of Stale: the latest is not told from the others.
StaleAll(es, deleted) == {f \in es \ deleted : \E e \in es \ deleted : e # f}

\* Mutant of Stale: the reactions of one direction only are compared.
StaleSameDirection(es, deleted) == {f \in es \ deleted : \E e \in es \ deleted : e.dir = f.dir /\ Newer(e, f)}

\* useMyReactions: what a newer reaction has superseded.
Stale(es, deleted) == {f \in es \ deleted : \E e \in es \ deleted : Newer(e, f)}

\* The clean-up effect: once the user has clicked, every superseded reaction
\* that shows up is claimed and its deletion sent.
CleanUp(vote, es, deleted, claimed) ==
  LET found == IF vote = "unset" THEN {} ELSE Stale(es, deleted) \ claimed
  IN /\ retracted' = claimed \cup found
     /\ sweeps'    = sweeps \cup found

-----------------------------------------------------------------------------
(* A cast: the click, the publish, and what follows.                       *)

Idle == [step |-> "idle", current |-> "none", next |-> "none", existing |-> None, at |-> 0]

\* ownReaction: the page's own last one before an echoed one.
OwnReaction == IF published # None THEN published ELSE Latest(mine, hidden)

\* The vote a click starts from.
Current == IF optimistic # "unset" THEN optimistic ELSE Direction(Latest(mine, hidden))

\* Strictly newer than the reaction it replaces.
VoteAt(existing) == IF existing # None /\ existing.at >= now THEN existing.at + 1 ELSE now

\* What a click on a direction starts: the direction that is held is taken back.
FirstStep(direction) ==
  CASE Current # direction                        -> "vote"
    [] Current = direction /\ OwnReaction # None  -> "retract"
    [] Current = direction /\ OwnReaction = None  -> "idle"

Cast(direction) ==
  LET step == FirstStep(direction)
      next == IF Current = direction THEN "none" ELSE direction
  IN /\ cast.step = "idle"
     /\ Cardinality(mistaken) < Mistakes
     /\ step = "vote" => VoteAt(OwnReaction) <= MaxAt
     /\ optimistic' = next
     /\ cast' = IF step = "idle" THEN Idle
                ELSE [step |-> step, current |-> Current, next |-> next,
                      existing |-> OwnReaction, at |-> VoteAt(OwnReaction)]
     /\ CleanUp(next, mine, hidden, retracted \cup IF step = "retract" THEN {OwnReaction} ELSE {})
     /\ UNCHANGED <<loaded, now, relays, echoes, published, history>>

TheVote == [dir |-> cast.next, at |-> cast.at]

IsNewest(e) == \A f \in net : e.at > f.at

\* Mutant of VoteReaches: the publish is not awaited, and gets lost.
VoteNotAwaited ==
  /\ cast.step = "vote"
  /\ cast' = [cast EXCEPT !.step = "sent"]
  /\ UNCHANGED <<loaded, now, relays, echoes, optimistic, published, retracted, sweeps, history>>

\* The reaction reaches the relays; if it was deleted there, it stays deleted.
VoteReaches ==
  /\ cast.step = "vote"
  /\ net'      = net \cup {TheVote}
  /\ mistaken' = mistaken \cup IF IsNewest(TheVote) THEN {} ELSE {TheVote}
  /\ cast'     = [cast EXCEPT !.step = "sent"]
  /\ UNCHANGED <<loaded, now, dels, echoes, optimistic, published, retracted, sweeps, kept>>

\* The publish resolves: it is the page's own reaction from now on, and the
\* opposite one it replaces is to be deleted.
VoteSettles ==
  /\ cast.step = "sent"
  /\ published' = TheVote
  /\ IF cast.existing # None /\ cast.existing.dir # cast.next
     THEN /\ retracted' = retracted \cup {cast.existing}
          /\ cast'      = [cast EXCEPT !.step = "supersede"]
     ELSE UNCHANGED retracted /\ cast' = Idle
  /\ UNCHANGED <<loaded, now, relays, echoes, optimistic, sweeps, history>>

Supersede ==
  /\ cast.step = "supersede"
  /\ dels' = dels \cup {cast.existing}
  /\ cast' = Idle
  /\ UNCHANGED <<loaded, now, net, echoes, optimistic, published, retracted, sweeps, history>>

Retract ==
  /\ cast.step = "retract"
  /\ dels'      = dels \cup {cast.existing}
  /\ published' = None
  /\ cast'      = Idle
  /\ UNCHANGED <<loaded, now, net, echoes, optimistic, retracted, sweeps, history>>

\* Mutant of Refused: the failed click stays on the page.
RefusedQuietly ==
  /\ cast.step \in {"vote", "retract"} \cap Refusals
  /\ kept' = kept \cup IF cast.step = "retract" THEN {cast.existing} ELSE {}
  /\ cast' = Idle
  /\ UNCHANGED <<loaded, now, relays, echoes, optimistic, published, retracted, sweeps, mistaken>>

\* The vote or the retraction fails: the click is rolled back, the claim is not.
Refused ==
  /\ cast.step \in {"vote", "retract"} \cap Refusals
  /\ optimistic' = cast.current
  /\ kept'       = kept \cup IF cast.step = "retract" THEN {cast.existing} ELSE {}
  /\ cast'       = Idle
  /\ UNCHANGED <<loaded, now, relays, echoes, published, retracted, sweeps, mistaken>>

\* It fails after it reached the relays: rolled back all the same.
RefusedLate ==
  /\ "late" \in Refusals
  /\ \/ /\ cast.step = "sent"
        /\ mistaken' = mistaken \cup {TheVote}
        /\ UNCHANGED dels
     \/ /\ cast.step = "retract"
        /\ mistaken' = mistaken \cup {cast.existing}
        /\ dels'     = dels \cup {cast.existing}
  /\ optimistic' = cast.current
  /\ cast'       = Idle
  /\ UNCHANGED <<loaded, now, net, echoes, published, retracted, sweeps, kept>>

\* Deleting the superseded reaction fails, which nothing follows.
SupersedeRefused ==
  /\ cast.step = "supersede"
  /\ "sweep" \in Refusals
  /\ mistaken' = mistaken \cup {cast.existing}
  /\ cast'     = Idle
  /\ UNCHANGED <<loaded, now, relays, echoes, optimistic, published, retracted, sweeps, kept>>

-----------------------------------------------------------------------------
(* The effect's deletions, and the subscriptions.                          *)

Swept(e) ==
  /\ e \in sweeps
  /\ dels'   = dels \cup {e}
  /\ sweeps' = sweeps \ {e}
  /\ UNCHANGED <<loaded, now, net, echoes, page, retracted, history>>

SweepRefused(e) ==
  /\ e \in sweeps
  /\ "sweep" \in Refusals
  /\ mistaken' = mistaken \cup {e}
  /\ sweeps'   = sweeps \ {e}
  /\ UNCHANGED <<loaded, now, relays, echoes, page, retracted, kept>>

\* A reaction comes back. It is a new candidate, so the deletions subscription is
\* replaced and knows nothing until its events come again.
Echo(e) ==
  /\ e \in net \ mine
  /\ mine'   = mine \cup {e}
  /\ hidden' = {}
  /\ CleanUp(optimistic, mine', hidden', retracted)
  /\ UNCHANGED <<loaded, now, relays, page, history>>

\* The deletion of one that came back.
EchoDeletion(e) ==
  /\ e \in (mine \cap dels) \ hidden
  /\ hidden' = hidden \cup {e}
  /\ CleanUp(optimistic, mine, hidden', retracted)
  /\ UNCHANGED <<loaded, now, relays, mine, page, history>>

Tick ==
  /\ now < MaxTime
  /\ now' = now + 1
  /\ UNCHANGED <<loaded, relays, echoes, page, retracted, sweeps, history>>

-----------------------------------------------------------------------------
Init ==
  /\ loaded     \in Loads
  /\ net        \in Priors
  /\ now        \in 0..MaxTime
  /\ \A e \in net : e.at <= now
  /\ net = {} => loaded
  /\ dels       = {}
  /\ mine       = IF loaded THEN net ELSE {}
  /\ hidden     = {}
  /\ optimistic = "unset"
  /\ cast       = Idle
  /\ published  = None
  /\ retracted  = {}
  /\ sweeps     = {}
  /\ kept       = {}
  /\ mistaken   = {}

Next ==
  \/ \E d \in Directions : Cast(d)
  \/ VoteReaches \/ VoteSettles \/ Supersede \/ Retract
  \/ Refused \/ RefusedLate \/ SupersedeRefused
  \/ \E e \in Reactions : Swept(e) \/ SweepRefused(e) \/ Echo(e) \/ EchoDeletion(e)
  \/ Tick

Spec == Init /\ [][Next]_vars

\* A publish settles one way or the other, and the relays send what they have.
Fairness ==
  /\ WF_vars(VoteReaches \/ Refused)
  /\ WF_vars(VoteSettles \/ RefusedLate)
  /\ WF_vars(Retract \/ Refused \/ RefusedLate)
  /\ WF_vars(Supersede \/ SupersedeRefused)
  /\ \A e \in Reactions : WF_vars(Swept(e) \/ SweepRefused(e)) /\ WF_vars(Echo(e)) /\ WF_vars(EchoDeletion(e))

FairSpec == Spec /\ Fairness

-----------------------------------------------------------------------------
(* Properties.                                                             *)

\* Types; what is echoed is on the relays, and what is hidden is deleted there.
TypeOK ==
  /\ loaded     \in BOOLEAN
  /\ now        \in 0..MaxTime
  /\ net        \subseteq Reactions
  /\ dels       \subseteq net
  /\ mine       \subseteq net
  /\ hidden     \subseteq mine \cap dels
  /\ optimistic \in Votes \cup {"unset"}
  /\ cast       \in [step : {"idle", "vote", "sent", "supersede", "retract"}, current : Votes,
                     next : Votes, existing : net \cup {None}, at : 0..MaxAt + 1]
  /\ published  \in net \cup {None}
  /\ retracted  \subseteq net
  /\ sweeps     \subseteq retracted
  /\ kept       \subseteq retracted
  /\ mistaken   \subseteq net

\* Nothing is in flight but deletions of what is superseded.
Resting == cast.step \in {"idle", "supersede"}

\* The last click that did not fail counts: between casts the relays count exactly
\* the vote the page shows, through clicks before the echo, ties, failures that
\* are rolled back, a deletions subscription that forgets, and clean-ups;
\* provided the page started loaded and nothing went wrong behind its back.
LastClickCounts ==
  (loaded /\ mistaken = {} /\ Resting /\ sweeps = {} /\ optimistic # "unset") => Counted = optimistic

\* A clean-up never takes away the vote that counts, whatever the page had not
\* loaded when the user clicked: if the relays count the page's vote, they do
\* so after the effect's deletion.
CleanUpIsHarmless ==
  [][(sweeps' # sweeps /\ dels' # dels /\ Resting /\ mistaken = {} /\ Counted = optimistic)
       => Counted' = optimistic]_vars

\* Reactions do not pile up: once the user has clicked, at most one remains of
\* those whose deletion did not fail.
OrphansGo ==
  optimistic # "unset" ~>
    (cast.step = "idle" => Cardinality(net \ (dels \cup kept \cup mistaken)) <= 1)
=============================================================================
