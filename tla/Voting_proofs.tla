---------------------------- MODULE Voting_proofs ----------------------------
(***************************************************************************)
(* Proofs about Voting, for every set of earlier reactions, any length of  *)
(* the clock, any order of the ids of a second, and any publishes that     *)
(* fail.                                                                   *)
(*                                                                         *)
(* CleanUpIsHarmless and LastClickCounts are about a page at rest, and say *)
(* nothing of the casts in flight that lead there. SentStays and           *)
(* OnlySupersededGo add that a deletion under way, or about to be, takes a *)
(* superseded reaction only; PageHolds, that the page holds the newest     *)
(* reaction, as its own, through every step of a cast. Both stop once      *)
(* something went wrong that the page cannot see: mistaken.                *)
(***************************************************************************)
EXTENDS Voting, WellFoundedInduction, TLAPS

\* The vote a cast in flight would be rolled back to, else the one the page shows.
Settled == IF cast.step \in {"vote", "sent", "retract"} THEN cast.current ELSE optimistic

\* What is deleted, or about to be.
Gone == dels \cup sweeps \cup IF cast.step = "supersede" THEN {cast.existing} ELSE {}

\* Before the first click the page has sent nothing.
Untouched ==
  optimistic = "unset" =>
    /\ dels = {} /\ hidden = {} /\ retracted = {} /\ sweeps = {}
    /\ cast.step = "idle" /\ published = None
    /\ loaded => mine = net

\* What the record of a cast holds at each of its steps.
InFlight ==
  /\ cast.step \in {"vote", "sent", "supersede"} =>
       cast.next \in Directions /\ optimistic = cast.next /\ cast.at \in 0..MaxAt
  /\ cast.step = "vote" => cast.current # cast.next
  /\ cast.step = "sent" => TheVote \in net
  /\ cast.step = "retract" =>
       /\ cast.current \in Directions
       /\ optimistic = "none"
       /\ cast.existing \in retracted
  /\ cast.step = "supersede" =>
       /\ cast.existing # None
       /\ cast.existing \in retracted
       /\ cast.existing.dir # cast.next
       /\ published = TheVote

\* The reaction the relays would count, if none were deleted.
Newest(h) == h \in net /\ \A f \in net \ {h} : Newer(h, f)

\* A vote that reached the relays is the newest there, and it stays.
SentStays == (mistaken = {} /\ cast.step = "sent") => Newest(TheVote) /\ TheVote \notin Gone

\* While the page shows a direction, only superseded reactions go.
OnlySupersededGo ==
  (mistaken = {} /\ cast.step # "sent" /\ Settled \in Directions) =>
    \A e \in Gone : \E f \in net : Newer(f, e)

\* The reaction the page shows: the newest, the page's own, and all others go.
Held(h) ==
  /\ Newest(h)
  /\ h \notin Gone
  /\ h.dir = Settled
  /\ net \ {h} \subseteq Gone
  /\ published # None => published = h
  /\ published = None => h \in mine
  /\ cast.step \in {"vote", "retract"} => cast.existing = h

\* What the cast is about to delete once its vote is sent.
Superseded == IF cast.existing # None /\ cast.existing.dir # cast.next THEN {cast.existing} ELSE {}

\* Something is shown exactly when the relays are left with it, and nothing when they
\* are left with nothing.
PageHolds ==
  (loaded /\ mistaken = {} /\ optimistic # "unset") =>
    /\ cast.step = "sent" => net \ {TheVote} \subseteq Gone \cup Superseded
    /\ (cast.step # "sent" /\ Settled = "none") => net \subseteq Gone /\ published = None
    /\ (cast.step # "sent" /\ Settled # "none") => \E h \in net : Held(h)

USE BoundsAssumption, NamesAssumption

-----------------------------------------------------------------------------
(* The order of reactions.                                                 *)

\* Of two reactions one is newer: a tie in time is broken by the ids.
LEMMA NewerOrders ==
  /\ \A e, f \in Reactions : e # f => (Newer(e, f) <=> ~ Newer(f, e))
  /\ \A e \in Reactions : ~ Newer(e, e)
<1> DEFINE R == Reactions
<1>1. \A e \in R : e.at \in Int /\ e.dir \in Directions
  BY DEF Reactions
<1>2. \A e, f \in R : e.at = f.at /\ e.dir = f.dir => e = f
  BY DEF Reactions
<1>3. \A e \in R : LowId[e.at] \in Directions
  BY DEF Reactions
<1> QED
  BY <1>1, <1>2, <1>3, SMTT(30) DEF Newer, Directions

\* Of some reactions one is newer than all others.
LEMMA OneIsNewest ==
  ASSUME NEW es \in SUBSET Reactions, es # {}
  PROVE  \E h \in es : \A f \in es \ {h} : Newer(h, f)
<1> DEFINE R == OpToRel(<, Nat)
           Ages == {MaxAt - e.at : e \in es}
<1>1. \A e \in es : e.at \in 0..MaxAt /\ MaxAt - e.at \in Nat
  BY DEF Reactions
<1>2. Ages \subseteq Nat /\ Ages # {}
  BY <1>1
<1>3. \A i, j \in Nat : <<i, j>> \in R <=> i < j
  BY DEF OpToRel
<1>4. PICK i \in Ages : \A j \in Ages : <<j, i>> \notin R
  <2> HIDE DEF R, Ages
  <2> QED BY <1>2, NatLessThanWellFounded, WFMin DEF R
<1>5. PICK e \in es : i = MaxAt - e.at
  OBVIOUS
<1>6. \A f \in es : f.at <= e.at
  <2> SUFFICES ASSUME NEW f \in es PROVE f.at <= e.at
    OBVIOUS
  <2>1. MaxAt - f.at \in Ages
    OBVIOUS
  <2>2. ~ (MaxAt - f.at < MaxAt - e.at)
    <3> HIDE DEF R, Ages
    <3> QED BY <2>1, <1>1, <1>3, <1>4, <1>5
  <2> QED
    BY <2>2, <1>1
<1>7. PICK h \in es : h.at = e.at /\ \A f \in es : f.at = e.at => f = h \/ h.dir = LowId[h.at]
  <2>1. CASE \E h \in es : h.at = e.at /\ h.dir = LowId[e.at]
    BY <2>1
  <2>2. CASE ~ \E h \in es : h.at = e.at /\ h.dir = LowId[e.at]
    <3>1. \A f \in es : f.at = e.at => f = e
      <4> SUFFICES ASSUME NEW f \in es, f.at = e.at PROVE f = e
        OBVIOUS
      <4>1. LowId[e.at] \in Directions
        BY DEF Reactions
      <4>2. f.dir = e.dir
        BY <2>2, <4>1 DEF Reactions, Directions
      <4> QED
        BY <4>2 DEF Reactions
    <3> QED
      BY <3>1
  <2> QED
    BY <2>1, <2>2
<1>8. \A f \in es \ {h} : Newer(h, f)
  BY <1>1, <1>6, <1>7 DEF Newer
<1> QED
  BY <1>8

\* Latest picks it, from what is left.
LEMMA LatestIsNewest ==
  ASSUME NEW es \in SUBSET Reactions, NEW deleted
  PROVE  /\ es \subseteq deleted => Latest(es, deleted) = None
         /\ ~ es \subseteq deleted =>
              /\ Latest(es, deleted) \in es \ deleted
              /\ \A f \in (es \ deleted) \ {Latest(es, deleted)} : Newer(Latest(es, deleted), f)
<1>1. CASE es \subseteq deleted
  BY <1>1 DEF Latest
<1>2. CASE ~ es \subseteq deleted
  <2>1. \E h \in es \ deleted : \A f \in (es \ deleted) \ {h} : Newer(h, f)
    <3>1. es \ deleted \in SUBSET Reactions /\ es \ deleted # {}
      BY <1>2
    <3> QED
      BY <3>1, OneIsNewest
  <2> QED
    BY <1>2, <2>1 DEF Latest
<1> QED
  BY <1>1, <1>2

\* The newest of all is the latest as long as it is not deleted.
LEMMA NewestIsLatest ==
  ASSUME NEW es \in SUBSET Reactions, NEW deleted,
         NEW h \in es, h \notin deleted, \A f \in es \ {h} : Newer(h, f)
  PROVE  Latest(es, deleted) = h
<1>1. ~ es \subseteq deleted
  OBVIOUS
<1>2. /\ Latest(es, deleted) \in es \ deleted
      /\ \A f \in (es \ deleted) \ {Latest(es, deleted)} : Newer(Latest(es, deleted), f)
  BY <1>1, LatestIsNewest
<1>3. SUFFICES ASSUME Latest(es, deleted) # h PROVE FALSE
  OBVIOUS
<1>4. Newer(Latest(es, deleted), h) /\ Newer(h, Latest(es, deleted))
  BY <1>2, <1>3
<1> QED
  BY <1>2, <1>3, <1>4, NewerOrders

\* What the effect finds stale has a newer reaction beside it.
LEMMA StaleIsSuperseded ==
  ASSUME NEW es, NEW deleted
  PROVE  \A f \in Stale(es, deleted) : f \in es \ deleted /\ \E e \in es : Newer(e, f)
BY DEF Stale

\* The effect claims superseded reactions only, and none before the first click.
LEMMA CleanUpClaims ==
  ASSUME NEW vote, NEW es, NEW deleted, NEW claimed, CleanUp(vote, es, deleted, claimed)
  PROVE  \E found \in SUBSET Stale(es, deleted) :
           /\ retracted' = claimed \cup found
           /\ sweeps' = sweeps \cup found
           /\ vote = "unset" => found = {}
           /\ vote # "unset" => Stale(es, deleted) \subseteq claimed \cup found
<1> DEFINE found == IF vote = "unset" THEN {} ELSE Stale(es, deleted) \ claimed
<1>1. found \in SUBSET Stale(es, deleted)
  OBVIOUS
<1> QED
  BY <1>1 DEF CleanUp

-----------------------------------------------------------------------------
(* Types.                                                                  *)

\* The types and the two invariants they need.
TInv == TypeOK /\ Untouched /\ InFlight

\* What a click reads is well typed.
LEMMA ClickReads ==
  ASSUME TypeOK
  PROVE  /\ OwnReaction \in net \cup {None}
         /\ Current \in Votes
         /\ VoteAt(OwnReaction) \in 0..MaxAt + 1
<1>1. Latest(mine, hidden) \in net \cup {None}
  <2>1. mine \in SUBSET Reactions /\ mine \subseteq net
    BY DEF TypeOK
  <2>2. Latest(mine, hidden) = None \/ Latest(mine, hidden) \in mine \ hidden
    BY <2>1, LatestIsNewest
  <2> QED
    BY <2>1, <2>2
<1>2. OwnReaction \in net \cup {None}
  BY <1>1 DEF OwnReaction, TypeOK
<1>3. Current \in Votes
  BY <1>1 DEF Current, Direction, TypeOK, Votes, Reactions
<1>4. VoteAt(OwnReaction) \in 0..MaxAt + 1
  <2>1. now \in 0..MaxTime
    BY DEF TypeOK
  <2>2. OwnReaction # None => OwnReaction.at \in 0..MaxAt
    BY <1>2 DEF TypeOK, Reactions
  <2> QED
    BY <2>1, <2>2 DEF VoteAt
<1> QED
  BY <1>2, <1>3, <1>4

\* The records fit when the page is loaded.
LEMMA InitTyped == Init => TInv
<1> SUFFICES ASSUME Init PROVE TInv
  OBVIOUS
<1>1. TypeOK
  BY PriorsAssumption DEF Init, TypeOK, Idle, Votes, Directions
<1>2. Untouched /\ InFlight
  BY DEF Init, Untouched, InFlight, Idle
<1> QED
  BY <1>1, <1>2 DEF TInv

\* A click starts a cast with a well-typed record.
LEMMA CastTyped ==
  ASSUME TInv, NEW d \in Directions, Cast(d)
  PROVE  TInv'
<1> USE DEF TInv
<1> DEFINE step == FirstStep(d)
           next == IF Current = d THEN "none" ELSE d
<1>1. /\ OwnReaction \in net \cup {None}
      /\ Current \in Votes
      /\ VoteAt(OwnReaction) \in 0..MaxAt + 1
  BY ClickReads
<1>2. /\ cast.step = "idle"
      /\ step = "vote" => VoteAt(OwnReaction) <= MaxAt
      /\ optimistic' = next
      /\ cast' = IF step = "idle" THEN Idle
                 ELSE [step |-> step, current |-> Current, next |-> next,
                       existing |-> OwnReaction, at |-> VoteAt(OwnReaction)]
      /\ CleanUp(next, mine, hidden, retracted \cup IF step = "retract" THEN {OwnReaction} ELSE {})
      /\ UNCHANGED <<loaded, now, net, dels, mine, hidden, published, kept, mistaken>>
  BY DEF Cast, relays, echoes, history
<1>3. next \in Votes /\ next # "unset"
  BY DEF Votes, Directions
<1>4. /\ step \in {"vote", "retract", "idle"}
      /\ step = "vote" => Current # d /\ next = d
      /\ step = "retract" => Current = d /\ next = "none" /\ OwnReaction # None
  BY DEF FirstStep
<1>5. PICK found \in SUBSET Stale(mine, hidden) :
        /\ retracted' = (retracted \cup IF step = "retract" THEN {OwnReaction} ELSE {}) \cup found
        /\ sweeps' = sweeps \cup found
  <2> HIDE DEF step, next
  <2> QED BY <1>2, CleanUpClaims
<1>6. found \subseteq mine
  BY StaleIsSuperseded
<1> HIDE DEF step, next
<1>7. TypeOK'
  <2>1. cast' \in [step : {"idle", "vote", "sent", "supersede", "retract"}, current : Votes,
                   next : Votes, existing : net \cup {None}, at : 0..MaxAt + 1]
    BY <1>1, <1>2, <1>3, <1>4 DEF Idle, Votes
  <2>2. retracted' \subseteq net /\ sweeps' \subseteq retracted' /\ kept' \subseteq retracted'
    BY <1>1, <1>2, <1>4, <1>5, <1>6 DEF TypeOK
  <2> QED
    BY <1>2, <1>3, <2>1, <2>2 DEF TypeOK
<1>8. Untouched'
  BY <1>2, <1>3 DEF Untouched
<1>9. InFlight'
  BY <1>1, <1>2, <1>4, <1>5 DEF InFlight, Idle, Votes
<1> QED
  BY <1>7, <1>8, <1>9

\* Every step keeps the records fit.
LEMMA NextTyped == TInv /\ [Next]_vars => TInv'
<1> SUFFICES ASSUME TInv, [Next]_vars PROVE TInv'
  OBVIOUS
<1> USE DEF TInv
<1>1. CASE \E d \in Directions : Cast(d)
  BY <1>1, CastTyped
<1>2. CASE VoteReaches
  <2>1. TheVote \in Reactions
    BY <1>2 DEF VoteReaches, InFlight, TheVote, Reactions
  <2>2. TheVote' = TheVote
    BY <1>2 DEF VoteReaches, TheVote, TypeOK
  <2>3. TypeOK'
    BY <1>2, <2>1 DEF VoteReaches, TypeOK, echoes
  <2>4. Untouched' /\ InFlight'
    BY <1>2, <2>2 DEF VoteReaches, Untouched, InFlight, TypeOK, echoes
  <2> QED
    BY <2>3, <2>4
<1>3. CASE VoteSettles
  <2>1. TheVote \in net
    BY <1>3 DEF VoteSettles, InFlight
  <2>2. TypeOK'
    BY <1>3, <2>1 DEF VoteSettles, TypeOK, relays, echoes, history, Idle, Votes
  <2>3. TheVote' = TheVote \/ cast' = Idle
    BY <1>3 DEF VoteSettles, TheVote, TypeOK
  <2>4. Untouched' /\ InFlight'
    BY <1>3, <2>1, <2>3 DEF VoteSettles, Untouched, InFlight, TypeOK, relays, echoes, history, Idle
  <2> QED
    BY <2>2, <2>4
<1>4. CASE Supersede \/ Retract \/ Refused \/ SupersedeRefused
  <2>1. TypeOK'
    BY <1>4 DEF Supersede, Retract, Refused, SupersedeRefused, InFlight, TypeOK, relays, echoes, history, Idle, Votes
  <2>2. InFlight'
    BY <1>4 DEF Supersede, Retract, Refused, SupersedeRefused, InFlight, Idle
  <2>3. Untouched'
    BY <1>4 DEF Supersede, Retract, Refused, SupersedeRefused, Untouched, InFlight, TypeOK, Votes, Directions
  <2> QED
    BY <2>1, <2>2, <2>3
<1>5. CASE RefusedLate
  <2>1. TypeOK'
    BY <1>5 DEF RefusedLate, InFlight, TypeOK, echoes, Idle, Votes
  <2>2. InFlight'
    BY <1>5 DEF RefusedLate, InFlight, Idle
  <2>3. Untouched'
    BY <1>5 DEF RefusedLate, Untouched, InFlight, TypeOK, Votes, Directions
  <2> QED
    BY <2>1, <2>2, <2>3
<1>6. ASSUME NEW e \in Reactions, Swept(e) \/ SweepRefused(e)
      PROVE  TInv'
  <2>1. TypeOK'
    BY <1>6 DEF Swept, SweepRefused, TypeOK, relays, echoes, page, history
  <2>2. InFlight' /\ Untouched'
    BY <1>6 DEF Swept, SweepRefused, InFlight, Untouched, relays, echoes, page, history, TheVote
  <2> QED
    BY <2>1, <2>2
<1>7. ASSUME NEW e \in Reactions, Echo(e) \/ EchoDeletion(e)
      PROVE  TInv'
  <2>1. /\ CleanUp(optimistic, mine', hidden', retracted)
        /\ mine \subseteq mine' /\ mine' \subseteq net /\ hidden' \subseteq mine' \cap dels
        /\ UNCHANGED <<loaded, now, net, dels, optimistic, cast, published, kept, mistaken>>
    BY <1>7 DEF Echo, EchoDeletion, TypeOK, relays, page, history
  <2>2. PICK found \in SUBSET Stale(mine', hidden') :
          /\ retracted' = retracted \cup found
          /\ sweeps' = sweeps \cup found
          /\ optimistic = "unset" => found = {}
    <3> DEFINE found == IF optimistic = "unset" THEN {} ELSE Stale(mine', hidden') \ retracted
    <3>1. retracted' = retracted \cup found /\ sweeps' = sweeps \cup found
      BY <2>1 DEF CleanUp
    <3>2. found \in SUBSET Stale(mine', hidden')
      OBVIOUS
    <3> QED
      BY <3>1, <3>2
  <2>3. found \subseteq net
    BY <2>1, StaleIsSuperseded
  <2>4. TypeOK'
    BY <2>1, <2>2, <2>3 DEF TypeOK
  <2>5. InFlight'
    BY <2>1, <2>2 DEF InFlight, TheVote
  <2>6. Untouched'
    BY <2>1, <2>2 DEF Untouched, TypeOK
  <2> QED
    BY <2>4, <2>5, <2>6
<1>8. CASE Tick
  BY <1>8 DEF Tick, TypeOK, Untouched, InFlight, TheVote, relays, echoes, page, history
<1>9. CASE UNCHANGED vars
  BY <1>9 DEF vars, TypeOK, Untouched, InFlight, TheVote, relays, echoes, page, history
<1> QED
  BY <1>1, <1>2, <1>3, <1>4, <1>5, <1>6, <1>7, <1>8, <1>9 DEF Next

\* Type correctness: the page's, the relays' and the subscriptions' records keep
\* their types, and refer to reactions that reached the relays only.
THEOREM TypeCorrect == Spec => []TypeOK
<1>1. TInv => TypeOK
  BY DEF TInv
<1> QED
  BY <1>1, InitTyped, NextTyped, PTL DEF Spec

-----------------------------------------------------------------------------
(* Clean-ups.                                                              *)

\* The invariant of the clean-ups.
SInv == TInv /\ SentStays /\ OnlySupersededGo

\* The newest reaction is never found stale, whatever the page has loaded.
LEMMA NewestIsNotStale ==
  ASSUME net \subseteq Reactions, NEW es, es \subseteq net, NEW deleted, NEW h, Newest(h)
  PROVE  h \notin Stale(es, deleted)
<1> SUFFICES ASSUME h \in Stale(es, deleted) PROVE FALSE
  OBVIOUS
<1>1. PICK e \in es : Newer(e, h)
  BY StaleIsSuperseded
<1>2. h \in Reactions /\ e \in Reactions /\ (e # h => Newer(h, e))
  BY DEF Newest
<1>3. h \in Reactions /\ ~ Newer(h, h)
  BY <1>2, NewerOrders
<1>4. e # h /\ e \in Reactions /\ Newer(h, e)
  BY <1>1, <1>2, <1>3
<1>5. Newer(e, h) <=> ~ Newer(h, e)
  BY <1>3, <1>4, NewerOrders
<1> QED
  BY <1>1, <1>4, <1>5

\* What a click changes: the sweeps of what it finds superseded, and the record
\* of its cast.
LEMMA CastClaims ==
  ASSUME TInv, NEW d \in Directions, Cast(d)
  PROVE  /\ UNCHANGED <<loaded, net, dels, mine, hidden, published, mistaken>>
         /\ cast.step = "idle" /\ optimistic' # "unset"
         /\ cast'.step \in {"idle", "vote", "retract"}
         /\ cast'.step = "idle" => optimistic' = "none" /\ Current = d /\ OwnReaction = None
         /\ cast'.step # "idle" => cast'.current = Current /\ cast'.existing = OwnReaction
         /\ Current \in Votes /\ (Current = "none" => cast'.step = "vote")
         /\ \E found \in SUBSET Stale(mine, hidden) :
              /\ sweeps' = sweeps \cup found
              /\ Stale(mine, hidden) \subseteq
                   retracted \cup found \cup IF cast'.step = "retract" THEN {OwnReaction} ELSE {}
<1> DEFINE step == FirstStep(d)
           next == IF Current = d THEN "none" ELSE d
<1>1. /\ cast.step = "idle"
      /\ optimistic' = next
      /\ cast' = IF step = "idle" THEN Idle
                 ELSE [step |-> step, current |-> Current, next |-> next,
                       existing |-> OwnReaction, at |-> VoteAt(OwnReaction)]
      /\ CleanUp(next, mine, hidden, retracted \cup IF step = "retract" THEN {OwnReaction} ELSE {})
      /\ UNCHANGED <<loaded, net, dels, mine, hidden, published, mistaken>>
  BY DEF Cast, relays, echoes, history
<1>2. /\ step \in {"vote", "retract", "idle"}
      /\ step = "idle" => Current = d /\ OwnReaction = None
      /\ Current # d => step = "vote"
  BY DEF FirstStep
<1>3. next # "unset" /\ d # "none" /\ (Current = d => next = "none")
  BY DEF Directions
<1>4. Current \in Votes
  BY ClickReads DEF TInv
<1> HIDE DEF step, next
<1>5. cast'.step = step /\ (step # "idle" => cast'.current = Current /\ cast'.existing = OwnReaction)
  BY <1>1, <1>2 DEF Idle
<1>6. \E found \in SUBSET Stale(mine, hidden) :
        /\ sweeps' = sweeps \cup found
        /\ Stale(mine, hidden) \subseteq
             retracted \cup found \cup IF step = "retract" THEN {OwnReaction} ELSE {}
  <2>1. PICK found \in SUBSET Stale(mine, hidden) :
          /\ sweeps' = sweeps \cup found
          /\ next # "unset" =>
               Stale(mine, hidden) \subseteq
                 (retracted \cup IF step = "retract" THEN {OwnReaction} ELSE {}) \cup found
    BY <1>1, CleanUpClaims
  <2> QED
    BY <2>1, <1>3
<1> QED
  BY <1>1, <1>2, <1>3, <1>4, <1>5, <1>6

\* What an echo changes.
LEMMA EchoClaims ==
  ASSUME TInv, NEW e, Echo(e) \/ EchoDeletion(e)
  PROVE  /\ mine \subseteq mine' /\ mine' \subseteq net
         /\ UNCHANGED <<loaded, net, dels, optimistic, cast, published, mistaken>>
         /\ \E found \in SUBSET Stale(mine', hidden') : sweeps' = sweeps \cup found
<1>1. /\ CleanUp(optimistic, mine', hidden', retracted)
      /\ mine \subseteq mine' /\ mine' \subseteq net
      /\ UNCHANGED <<loaded, net, dels, optimistic, cast, published, mistaken>>
  BY DEF Echo, EchoDeletion, TypeOK, TInv, relays, page, history
<1>2. \E found \in SUBSET Stale(mine', hidden') : sweeps' = sweeps \cup found
  <2> DEFINE found == IF optimistic = "unset" THEN {} ELSE Stale(mine', hidden') \ retracted
  <2>1. sweeps' = sweeps \cup found
    BY <1>1 DEF CleanUp
  <2>2. found \in SUBSET Stale(mine', hidden')
    OBVIOUS
  <2> QED
    BY <2>1, <2>2
<1> QED
  BY <1>1, <1>2

\* Nothing goes before the first click.
LEMMA InitStays == Init => SInv
<1> SUFFICES ASSUME Init PROVE SInv
  OBVIOUS
<1>1. SentStays /\ OnlySupersededGo
  BY DEF Init, SentStays, OnlySupersededGo, Gone, Idle
<1> QED
  BY <1>1, InitTyped DEF SInv

\* Every step lets only superseded reactions go.
LEMMA NextStays == SInv /\ [Next]_vars => SInv'
<1> SUFFICES ASSUME SInv, [Next]_vars PROVE SInv'
  OBVIOUS
<1> USE DEF SInv
<1>t. TInv'
  BY NextTyped
<1>n. Gone \subseteq net /\ net \subseteq Reactions
  BY DEF Gone, TInv, TypeOK, InFlight
<1>1. ASSUME NEW d \in Directions, Cast(d)
      PROVE  SentStays' /\ OnlySupersededGo'
  <2>1. /\ UNCHANGED <<net, dels, mine, mistaken>>
        /\ cast.step = "idle"
        /\ cast'.step \in {"idle", "vote", "retract"}
        /\ cast'.step = "idle" => optimistic' = "none"
        /\ cast'.step # "idle" => cast'.current = Current
    BY <1>1, CastClaims
  <2>2. PICK found \in SUBSET Stale(mine, hidden) : sweeps' = sweeps \cup found
    BY <1>1, CastClaims
  <2>3. Gone' = Gone \cup found
    BY <2>1, <2>2 DEF Gone
  <2>4. \A e \in found : \E f \in net : Newer(f, e)
    BY StaleIsSuperseded DEF TInv, TypeOK
  <2>5. (mistaken = {} /\ Settled' \in Directions) => \A e \in Gone : \E f \in net : Newer(f, e)
    <3>1. CASE optimistic = "unset"
      BY <2>1, <3>1 DEF Gone, Untouched, TInv
    <3>2. CASE optimistic # "unset"
      BY <2>1, <3>2 DEF OnlySupersededGo, Settled, Current, Directions
    <3> QED
      BY <3>1, <3>2
  <2> QED
    BY <2>1, <2>3, <2>4, <2>5 DEF SentStays, OnlySupersededGo
<1>2. CASE VoteReaches
  <2>1. /\ cast.step = "vote" /\ cast'.step = "sent" /\ TheVote' = TheVote
        /\ net' = net \cup {TheVote} /\ UNCHANGED <<dels, sweeps>>
        /\ mistaken' = {} => IsNewest(TheVote)
    BY <1>2 DEF VoteReaches, TheVote, TInv, TypeOK
  <2>2. Gone' = Gone
    BY <2>1 DEF Gone
  <2>3. mistaken' = {} => Newest(TheVote)' /\ TheVote \notin Gone
    <3> SUFFICES ASSUME IsNewest(TheVote) PROVE Newest(TheVote)' /\ TheVote \notin Gone
      BY <2>1
    <3>1. TheVote \notin net
      <4>1. ~ (TheVote.at > TheVote.at)
        BY DEF TheVote, TInv, TypeOK
      <4> QED
        BY <4>1 DEF IsNewest
    <3>2. \A f \in net : Newer(TheVote, f)
      BY DEF IsNewest, Newer
    <3>3. Newest(TheVote)'
      BY <2>1, <3>2 DEF Newest
    <3> QED
      BY <3>1, <3>3, <1>n
  <2>4. SentStays'
    BY <2>1, <2>2, <2>3 DEF SentStays
  <2>5. OnlySupersededGo'
    BY <2>1 DEF OnlySupersededGo
  <2> QED
    BY <1>t, <2>4, <2>5
<1>3. CASE VoteSettles
  <2>1. /\ cast.step = "sent" /\ cast'.step \in {"idle", "supersede"}
        /\ UNCHANGED <<net, dels, sweeps, mistaken>>
        /\ cast'.step = "supersede" => /\ cast'.existing = cast.existing
                                       /\ cast.existing \in net
                                       /\ cast.existing # TheVote
    BY <1>3 DEF VoteSettles, TInv, TypeOK, relays, echoes, history, Idle, TheVote
  <2>2. mistaken = {} => Newest(TheVote) /\ TheVote \notin Gone
    BY <2>1 DEF SentStays
  <2>3. \A e \in Gone' : e \in Gone \/ (e = cast.existing /\ cast'.step = "supersede")
    BY <2>1 DEF Gone
  <2>4. mistaken = {} => \A e \in Gone' : e \in net /\ e # TheVote
    BY <1>n, <2>1, <2>2, <2>3
  <2>5. mistaken = {} => \A e \in Gone' : \E f \in net : Newer(f, e)
    BY <2>2, <2>4 DEF Newest
  <2>6. SentStays'
    BY <2>1 DEF SentStays
  <2>7. OnlySupersededGo'
    BY <2>1, <2>5 DEF OnlySupersededGo
  <2> QED
    BY <1>t, <2>6, <2>7
<1>4. CASE Supersede \/ Retract \/ Refused
  <2>1. cast.step # "sent" /\ cast'.step = "idle" /\ UNCHANGED <<net, mistaken>>
    BY <1>4 DEF Supersede, Retract, Refused, relays, echoes, history, Idle
  <2>2. Settled' \in Directions => Settled' = Settled /\ Gone' = Gone
    <3>1. CASE Supersede
      BY <3>1 DEF Supersede, Settled, Gone, Idle
    <3>2. CASE Retract
      BY <3>2 DEF Retract, Settled, Idle, InFlight, TInv, Directions
    <3>3. CASE Refused
      BY <3>3 DEF Refused, Settled, Gone, Idle, relays
    <3> QED
      BY <1>4, <3>1, <3>2, <3>3
  <2> QED
    BY <1>t, <2>1, <2>2 DEF SentStays, OnlySupersededGo
<1>5. CASE RefusedLate \/ SupersedeRefused \/ \E e \in Reactions : SweepRefused(e)
  <2>1. mistaken' # {}
    BY <1>5 DEF RefusedLate, SupersedeRefused, SweepRefused
  <2> QED
    BY <1>t, <2>1 DEF SentStays, OnlySupersededGo
<1>6. ASSUME NEW e \in Reactions, Swept(e)
      PROVE  SentStays' /\ OnlySupersededGo'
  <2>1. Gone' = Gone /\ UNCHANGED <<net, optimistic, cast, mistaken>>
    BY <1>6 DEF Swept, Gone, page, history
  <2>2. SentStays'
    BY <2>1 DEF SentStays, Newest, TheVote
  <2>3. OnlySupersededGo'
    BY <2>1 DEF OnlySupersededGo, Settled
  <2> QED
    BY <2>2, <2>3
<1>7. ASSUME NEW e \in Reactions, Echo(e) \/ EchoDeletion(e)
      PROVE  SentStays' /\ OnlySupersededGo'
  <2>1. /\ mine' \subseteq net
        /\ UNCHANGED <<net, dels, optimistic, cast, mistaken>>
    BY <1>7, EchoClaims
  <2>2. PICK found \in SUBSET Stale(mine', hidden') : sweeps' = sweeps \cup found
    BY <1>7, EchoClaims
  <2>3. Gone' = Gone \cup found
    BY <2>1, <2>2 DEF Gone
  <2>4. \A f \in found : \E g \in net : Newer(g, f)
    BY <2>1, StaleIsSuperseded
  <2>5. Newest(TheVote) => TheVote \notin found
    BY <1>n, <2>1, NewestIsNotStale
  <2> QED
    BY <2>1, <2>3, <2>4, <2>5 DEF SentStays, OnlySupersededGo, Settled, Newest, TheVote
<1>8. CASE Tick \/ UNCHANGED vars
  <2>1. UNCHANGED <<net, dels, sweeps, optimistic, cast, mistaken>>
    BY <1>8 DEF Tick, vars, relays, page, history
  <2>2. Gone' = Gone /\ Settled' = Settled
    BY <2>1 DEF Gone, Settled
  <2>3. SentStays'
    BY <2>1, <2>2 DEF SentStays, Newest, TheVote
  <2>4. OnlySupersededGo'
    BY <2>1, <2>2 DEF OnlySupersededGo
  <2> QED
    BY <1>t, <2>3, <2>4
<1> QED
  BY <1>t, <1>1, <1>2, <1>3, <1>4, <1>5, <1>6, <1>7, <1>8 DEF Next

\* While only superseded reactions go, deleting one of them changes no count.
LEMMA SweepChangesNothing ==
  ASSUME SInv, Resting, mistaken = {}, Counted = optimistic,
         NEW e \in sweeps, Swept(e)
  PROVE  Counted' = optimistic'
<1> USE DEF SInv, TInv
<1>1. /\ UNCHANGED <<net, optimistic>>
      /\ dels' = dels \cup {e}
  BY DEF Swept, relays, page
<1>2. net \in SUBSET Reactions /\ dels' \subseteq net /\ dels' \subseteq Gone
  BY <1>1 DEF TypeOK, Gone
<1>3. optimistic # "unset"
  BY DEF Untouched
<1>4. CASE optimistic = "none"
  <2>1. net \subseteq dels
    <3> SUFFICES ASSUME ~ net \subseteq dels PROVE FALSE
      OBVIOUS
    <3>1. Latest(net, dels) \in Reactions
      BY <1>2, LatestIsNewest
    <3> QED
      BY <1>4, <3>1 DEF Counted, Direction, Reactions, Directions
  <2>2. Latest(net, dels') = None
    <3>1. net \subseteq dels'
      BY <1>1, <2>1
    <3> QED
      BY <3>1 DEF Latest
  <2> QED
    BY <1>1, <1>4, <2>2 DEF Counted, Direction
<1>5. CASE optimistic \in Directions
  <2>1. \A f \in Gone : \E g \in net : Newer(g, f)
    BY <1>5 DEF Resting, Settled, OnlySupersededGo
  <2>2. PICK h \in net : \A f \in net \ {h} : Newer(h, f)
    <3>1. net # {}
      BY DEF TypeOK
    <3> QED
      BY <1>2, <3>1, OneIsNewest
  <2>3. h \notin Gone
    <3> SUFFICES ASSUME NEW g \in net, Newer(g, h) PROVE FALSE
      BY <2>1
    <3>1. h \in Reactions /\ g \in Reactions /\ ~ Newer(h, h)
      BY <1>2, NewerOrders
    <3>2. g # h /\ Newer(h, g)
      BY <2>2, <3>1
    <3> QED
      BY <3>1, <3>2, NewerOrders
  <2>4. Latest(net, dels) = h
    BY <1>2, <2>2, <2>3, NewestIsLatest DEF Gone
  <2>5. Latest(net, dels') = h
    BY <1>2, <2>2, <2>3, NewestIsLatest
  <2> QED
    BY <1>1, <2>4, <2>5 DEF Counted
<1> QED
  BY <1>3, <1>4, <1>5 DEF TypeOK, Votes

\* The clean-up effect never takes the vote that counts: whatever a page had not
\* loaded when the user clicked, and in whichever order echoes, deletions and
\* forgotten deletions come, what it sweeps is superseded by what stays.
THEOREM CleanUpsAreHarmless == Spec => CleanUpIsHarmless
<1> DEFINE A == (sweeps' # sweeps /\ dels' # dels /\ Resting /\ mistaken = {} /\ Counted = optimistic)
                  => Counted' = optimistic
<1>1. SInv /\ [Next]_vars => A
  <2> SUFFICES ASSUME SInv, [Next]_vars, sweeps' # sweeps, dels' # dels,
                      Resting, mistaken = {}, Counted = optimistic
               PROVE  Counted' = optimistic
    OBVIOUS
  <2>1. \E e \in Reactions : Swept(e)
    BY DEF Next, Cast, VoteReaches, VoteSettles, Supersede, Retract, Refused, RefusedLate,
           SupersedeRefused, SweepRefused, Echo, EchoDeletion, Tick, vars, relays
  <2>2. PICK e \in Reactions : Swept(e)
    BY <2>1
  <2>3. e \in sweeps /\ optimistic' = optimistic
    BY <2>2 DEF Swept, page
  <2> QED
    BY <2>2, <2>3, SweepChangesNothing
<1> QED
  BY <1>1, InitStays, NextStays, PTL DEF Spec, CleanUpIsHarmless

-----------------------------------------------------------------------------
(* The page and the relays agree.                                          *)

\* The invariant of the page.
PInv == SInv /\ PageHolds

\* A page without a click claims nothing.
LEMMA InitHolds == Init => PInv
<1>1. Init => PageHolds
  BY DEF Init, PageHolds
<1> QED
  BY <1>1, InitStays DEF PInv

\* What a click on a page that holds a vote takes for its own.
LEMMA OwnIsHeld ==
  ASSUME TInv, NEW h, Held(h)
  PROVE  OwnReaction = h
<1> USE DEF TInv
<1>1. mine \in SUBSET Reactions /\ hidden \subseteq Gone /\ mine \subseteq net
  BY DEF TypeOK, Gone
<1>2. CASE published # None
  BY <1>2 DEF OwnReaction, Held
<1>3. CASE published = None
  <2>1. h \in mine /\ h \notin hidden /\ \A f \in mine \ {h} : Newer(h, f)
    BY <1>1, <1>3 DEF Held, Newest
  <2>2. Latest(mine, hidden) = h
    BY <1>1, <2>1, NewestIsLatest
  <2> QED
    BY <1>3, <2>2 DEF OwnReaction
<1> QED
  BY <1>2, <1>3

\* The first click, on a page that is loaded, finds the newest reaction.
LEMMA FirstCastHolds ==
  ASSUME PInv, NEW d \in Directions, Cast(d), loaded, optimistic = "unset"
  PROVE  PageHolds'
<1> USE DEF PInv, SInv, TInv
<1>1. /\ UNCHANGED <<loaded, net, dels, mine, hidden, published, mistaken>>
      /\ cast'.step \in {"idle", "vote", "retract"}
      /\ cast'.step = "idle" => OwnReaction = None
      /\ cast'.step # "idle" => cast'.current = Current /\ cast'.existing = OwnReaction
      /\ Current = "none" => cast'.step = "vote"
  BY CastClaims
<1>2. PICK found \in SUBSET Stale(mine, hidden) :
        /\ sweeps' = sweeps \cup found
        /\ Stale(mine, hidden) \subseteq
             retracted \cup found \cup IF cast'.step = "retract" THEN {OwnReaction} ELSE {}
  BY CastClaims
<1>3. /\ dels = {} /\ hidden = {} /\ retracted = {} /\ sweeps = {}
      /\ cast.step = "idle" /\ published = None /\ mine = net
  BY DEF Untouched
<1>4. Gone' = found
  BY <1>1, <1>2, <1>3 DEF Gone
<1>5. OwnReaction = Latest(net, {}) /\ Current = Direction(Latest(net, {}))
  BY <1>3 DEF OwnReaction, Current
<1>6. net \in SUBSET Reactions
  BY DEF TypeOK
<1>7. CASE net = {}
  <2>1. Current = "none"
    BY <1>5, <1>6, <1>7, LatestIsNewest DEF Direction
  <2>2. Settled' = "none" /\ cast'.step = "vote"
    BY <1>1, <2>1 DEF Settled
  <2> QED
    BY <1>1, <1>3, <1>7, <2>2 DEF PageHolds
<1>8. CASE net # {}
  <2>1. PICK h \in net : h = Latest(net, {}) /\ \A f \in net \ {h} : Newer(h, f)
    <3>1. ~ net \subseteq {} /\ net \ {} = net
      BY <1>8
    <3>2. /\ Latest(net, {}) \in net \ {}
          /\ \A f \in (net \ {}) \ {Latest(net, {})} : Newer(Latest(net, {}), f)
      BY <1>6, <3>1, LatestIsNewest
    <3> QED
      BY <3>1, <3>2
  <2>2. Newest(h)
    BY <2>1 DEF Newest
  <2>3. h \in Reactions /\ h # None
    BY <1>6, <2>1
  <2>4. OwnReaction = h /\ Current = h.dir
    BY <1>5, <2>1, <2>3 DEF Direction
  <2>5. cast'.step # "idle" /\ Settled' = h.dir /\ cast'.existing = h
    BY <1>1, <2>3, <2>4 DEF Settled
  <2>6. h \notin found
    BY <1>2, <1>3, <1>6, <2>2, NewestIsNotStale
  <2>7. net \ {h} \subseteq found
    <3>1. net \ {h} \subseteq Stale(net, {})
      BY <2>1 DEF Stale
    <3> QED
      BY <1>2, <1>3, <2>4, <3>1
  <2>8. Held(h)'
    BY <1>1, <1>3, <1>4, <2>2, <2>5, <2>6, <2>7 DEF Held, Newest
  <2>9. h.dir # "none"
    BY <2>3 DEF Reactions, Directions
  <2> QED
    BY <1>1, <2>1, <2>5, <2>8, <2>9 DEF PageHolds
<1> QED
  BY <1>7, <1>8

\* A later click finds the reaction the page holds.
LEMMA NextCastHolds ==
  ASSUME PInv, NEW d \in Directions, Cast(d), loaded, mistaken = {}, optimistic # "unset"
  PROVE  PageHolds'
<1> USE DEF PInv, SInv, TInv
<1>1. /\ UNCHANGED <<loaded, net, dels, mine, hidden, published, mistaken>>
      /\ cast.step = "idle"
      /\ cast'.step \in {"idle", "vote", "retract"}
      /\ cast'.step = "idle" => OwnReaction = None
      /\ cast'.step # "idle" => cast'.current = Current /\ cast'.existing = OwnReaction
      /\ Current = "none" => cast'.step = "vote"
  BY CastClaims
<1>2. PICK found \in SUBSET Stale(mine, hidden) : sweeps' = sweeps \cup found
  BY CastClaims
<1>3. Gone' = Gone \cup found
  BY <1>1, <1>2 DEF Gone
<1>4. Settled = optimistic /\ Current = optimistic
  BY <1>1 DEF Settled, Current
<1>5. net \subseteq Reactions /\ mine \subseteq net
  BY DEF TypeOK
<1>6. CASE optimistic = "none"
  <2>1. net \subseteq Gone /\ published = None
    BY <1>1, <1>4, <1>6 DEF PageHolds
  <2>2. Settled' = "none" /\ cast'.step = "vote"
    BY <1>1, <1>4, <1>6 DEF Settled
  <2> QED
    BY <1>1, <1>3, <2>1, <2>2 DEF PageHolds
<1>7. CASE optimistic # "none"
  <2>1. PICK h \in net : Held(h)
    BY <1>1, <1>4, <1>7 DEF PageHolds
  <2>2. OwnReaction = h /\ h # None
    BY <1>5, <2>1, OwnIsHeld
  <2>3. /\ cast'.step \in {"vote", "retract"} /\ cast'.existing = h
        /\ Settled' = Settled
    BY <1>1, <1>4, <2>2 DEF Settled
  <2>4. h \notin found
    BY <1>2, <1>5, <2>1, NewestIsNotStale DEF Held
  <2>5. Held(h)'
    BY <1>1, <1>3, <2>1, <2>3, <2>4 DEF Held, Newest
  <2> QED
    BY <1>1, <1>4, <1>7, <2>1, <2>3, <2>5 DEF PageHolds
<1> QED
  BY <1>6, <1>7

\* The vote reaches the relays: it is newer than what was held.
LEMMA VoteReachesHolds ==
  ASSUME PInv, VoteReaches, loaded, mistaken' = {}
  PROVE  PageHolds'
<1> USE DEF PInv, SInv, TInv
<1>1. /\ cast.step = "vote" /\ cast' = [cast EXCEPT !.step = "sent"]
      /\ net' = net \cup {TheVote} /\ mistaken = {}
      /\ UNCHANGED <<dels, sweeps, optimistic, published, mine>>
  BY DEF VoteReaches, echoes
<1>2. /\ cast'.step = "sent" /\ cast'.existing = cast.existing /\ cast'.next = cast.next
      /\ TheVote' = TheVote
  BY <1>1 DEF TypeOK, TheVote
<1>3. Gone' = Gone /\ Superseded' = Superseded
  BY <1>1, <1>2 DEF Gone, Superseded
<1>4. optimistic # "unset" /\ cast.current # cast.next /\ Settled = cast.current
  BY <1>1 DEF InFlight, Settled, Directions
<1>5. net \subseteq Gone \cup Superseded
  <2>1. CASE Settled = "none"
    BY <1>1, <1>4, <2>1 DEF PageHolds
  <2>2. CASE Settled # "none"
    <3>1. PICK h \in net : Held(h)
      BY <1>1, <1>4, <2>2 DEF PageHolds
    <3>2. h = cast.existing /\ h.dir # cast.next /\ h # None
      BY <1>1, <1>4, <3>1 DEF Held, TypeOK
    <3>3. Superseded = {h}
      BY <3>2 DEF Superseded
    <3> QED
      BY <3>1, <3>3 DEF Held
  <2> QED
    BY <2>1, <2>2
<1> QED
  BY <1>1, <1>2, <1>3, <1>5 DEF PageHolds

\* The publish returns: the vote is the page's own from now on.
LEMMA VoteSettlesHolds ==
  ASSUME PInv, VoteSettles, loaded, mistaken = {}
  PROVE  PageHolds'
<1> USE DEF PInv, SInv, TInv
<1>1. /\ cast.step = "sent" /\ published' = TheVote
      /\ UNCHANGED <<net, dels, sweeps, optimistic, mine>>
      /\ \/ cast.existing # None /\ cast.existing.dir # cast.next
            /\ cast'.step = "supersede" /\ cast'.existing = cast.existing
         \/ ~ (cast.existing # None /\ cast.existing.dir # cast.next) /\ cast'.step = "idle"
  BY DEF VoteSettles, TypeOK, relays, echoes, Idle
<1>2. /\ cast'.step \in {"idle", "supersede"}
      /\ Gone' = Gone \cup Superseded
      /\ TheVote \notin Superseded
  BY <1>1 DEF Gone, Superseded, TheVote
<1>3. /\ TheVote \in net /\ Newest(TheVote) /\ TheVote \notin Gone
      /\ optimistic = cast.next /\ cast.next \in Directions
  BY <1>1 DEF SentStays, InFlight
<1>4. net \ {TheVote} \subseteq Gone \cup Superseded
  BY <1>1, <1>3 DEF PageHolds, Directions
<1>5. PICK h \in net : h = TheVote
  BY <1>3
<1>6. h # None /\ h.dir = Settled'
  BY <1>1, <1>2, <1>3, <1>5 DEF TypeOK, TheVote, Settled
<1>7. Held(h)'
  BY <1>1, <1>2, <1>3, <1>4, <1>5, <1>6 DEF Held, Newest
<1>8. Settled' # "none"
  BY <1>3, <1>5, <1>6 DEF TheVote, Directions
<1> QED
  BY <1>1, <1>2, <1>7, <1>8 DEF PageHolds

\* The deletion that ends a cast, or the rollback of a refused one.
LEMMA CastEndsHolds ==
  ASSUME PInv, Supersede \/ Retract \/ Refused, loaded, mistaken = {}
  PROVE  PageHolds'
<1> USE DEF PInv, SInv, TInv
<1>1. /\ cast.step \in {"supersede", "retract", "vote"} /\ cast'.step = "idle"
      /\ UNCHANGED <<net, sweeps, mine>>
      /\ optimistic # "unset"
  <2>1. cast.step \in {"supersede", "retract", "vote"} /\ cast'.step = "idle"
    <3>1. cast' = Idle
      BY DEF Supersede, Retract, Refused
    <3>2. cast.step \in {"supersede", "retract", "vote"}
      BY DEF Supersede, Retract, Refused
    <3> QED
      BY <3>1, <3>2 DEF Idle
  <2>2. UNCHANGED <<net, sweeps, mine>>
    BY DEF Supersede, Retract, Refused, relays, echoes
  <2>3. optimistic # "unset"
    BY <2>1 DEF InFlight, Directions
  <2> QED
    BY <2>1, <2>2, <2>3
<1>2. Settled' = optimistic'
  BY <1>1 DEF Settled
<1>3. CASE Supersede \/ Refused
  <2>1. Gone' = Gone /\ Settled' = Settled /\ published' = published
    <3>1. CASE Supersede
      BY <1>2, <3>1 DEF Supersede, Gone, Settled, Idle
    <3>2. CASE Refused
      BY <1>2, <3>2 DEF Refused, Gone, Settled, Idle, relays
    <3> QED
      BY <1>3, <3>1, <3>2
  <2>2. CASE Settled = "none"
    BY <1>1, <2>1, <2>2 DEF PageHolds
  <2>3. CASE Settled # "none"
    <3>1. PICK h \in net : Held(h)
      BY <1>1, <2>3 DEF PageHolds
    <3>2. Held(h)'
      BY <1>1, <2>1, <3>1 DEF Held, Newest
    <3> QED
      BY <1>1, <2>1, <2>3, <3>2 DEF PageHolds
  <2> QED
    BY <2>2, <2>3
<1>4. CASE Retract
  <2>1. /\ cast.step = "retract" /\ dels' = dels \cup {cast.existing}
        /\ published' = None /\ optimistic' = "none"
        /\ Settled \in Directions
    BY <1>4 DEF Retract, InFlight, Settled
  <2>2. PICK h \in net : Held(h)
    BY <1>1, <2>1 DEF PageHolds, Directions
  <2>3. Gone \cup {h} \subseteq Gone'
    BY <1>1, <2>1, <2>2 DEF Gone, Held
  <2>4. net \subseteq Gone'
    BY <2>2, <2>3 DEF Held
  <2> QED
    BY <1>1, <1>2, <2>1, <2>4 DEF PageHolds
<1> QED
  BY <1>3, <1>4

\* The subscriptions, the effect's deletions and the clock take nothing that is held.
LEMMA BesideCastHolds ==
  ASSUME PInv, mistaken = {}, loaded,
         UNCHANGED <<loaded, net, optimistic, cast, published>>,
         mine \subseteq mine',
         NEW found \in SUBSET net, Gone' = Gone \cup found,
         \A h : Newest(h) => h \notin found
  PROVE  PageHolds'
<1> USE DEF PInv, SInv, TInv
<1>1. Settled' = Settled /\ Superseded' = Superseded /\ TheVote' = TheVote
  BY DEF Settled, Superseded, TheVote
<1>2. \A h : Held(h) => Held(h)'
  <2> TAKE h
  <2> HAVE Held(h)
  <2>1. Newest(h)' /\ h \notin found
    BY DEF Held, Newest
  <2> QED
    BY <1>1, <2>1 DEF Held
<1>3. CASE cast.step = "sent"
  BY <1>1, <1>3 DEF PageHolds
<1>4. CASE cast.step # "sent" /\ Settled = "none"
  BY <1>1, <1>4 DEF PageHolds
<1>5. CASE cast.step # "sent" /\ Settled # "none"
  BY <1>1, <1>2, <1>5 DEF PageHolds
<1> QED
  BY <1>3, <1>4, <1>5

\* Every step keeps the page and the relays in agreement.
LEMMA NextHolds == PInv /\ [Next]_vars => PInv'
<1> SUFFICES ASSUME PInv, [Next]_vars PROVE PInv'
  OBVIOUS
<1>s. SInv'
  BY NextStays DEF PInv
<1>u. SUFFICES ASSUME loaded, mistaken' = {}, optimistic' # "unset" PROVE PageHolds'
  <2>1. loaded' = loaded
    BY DEF Next, Cast, VoteReaches, VoteSettles, Supersede, Retract, Refused, RefusedLate,
           SupersedeRefused, Swept, SweepRefused, Echo, EchoDeletion, Tick, vars
  <2> QED
    BY <1>s, <2>1 DEF PInv, PageHolds
<1> USE DEF PInv, SInv, TInv
<1>n. net \subseteq Reactions
  BY DEF TypeOK
<1>1. CASE \E d \in Directions : Cast(d)
  <2>1. PICK d \in Directions : Cast(d)
    BY <1>1
  <2>2. mistaken = {}
    BY <1>u, <2>1, CastClaims
  <2> QED
    BY <1>u, <2>1, <2>2, FirstCastHolds, NextCastHolds
<1>2. CASE VoteReaches
  BY <1>u, <1>2, VoteReachesHolds
<1>3. CASE VoteSettles
  <2>1. mistaken = {}
    BY <1>u, <1>3 DEF VoteSettles, history
  <2> QED
    BY <1>u, <1>3, <2>1, VoteSettlesHolds
<1>4. CASE Supersede \/ Retract \/ Refused
  <2>1. mistaken = {}
    BY <1>u, <1>4 DEF Supersede, Retract, Refused, history
  <2> QED
    BY <1>u, <1>4, <2>1, CastEndsHolds
<1>5. CASE RefusedLate \/ SupersedeRefused \/ \E e \in Reactions : SweepRefused(e)
  BY <1>u, <1>5 DEF RefusedLate, SupersedeRefused, SweepRefused
<1>6. CASE (\E e \in Reactions : Swept(e)) \/ Tick \/ UNCHANGED vars
  <2>1. /\ UNCHANGED <<loaded, net, optimistic, cast, published, mine, mistaken>>
        /\ dels' \cup sweeps' = dels \cup sweeps
    BY <1>6 DEF Swept, Tick, vars, relays, echoes, page, history
  <2>2. Gone' = Gone \cup {}
    BY <2>1 DEF Gone
  <2> QED
    BY <1>u, <2>1, <2>2, BesideCastHolds
<1>7. ASSUME NEW e \in Reactions, Echo(e) \/ EchoDeletion(e)
      PROVE  PageHolds'
  <2>1. /\ mine \subseteq mine' /\ mine' \subseteq net
        /\ UNCHANGED <<loaded, net, dels, optimistic, cast, published, mistaken>>
    BY <1>7, EchoClaims
  <2>2. PICK found \in SUBSET Stale(mine', hidden') : sweeps' = sweeps \cup found
    BY <1>7, EchoClaims
  <2>3. Gone' = Gone \cup found /\ found \in SUBSET net
    BY <2>1, <2>2, StaleIsSuperseded DEF Gone
  <2>4. \A h : Newest(h) => h \notin found
    BY <1>n, <2>1, NewestIsNotStale
  <2> QED
    BY <1>u, <2>1, <2>3, <2>4, BesideCastHolds
<1> QED
  BY <1>1, <1>2, <1>3, <1>4, <1>5, <1>6, <1>7 DEF Next

\* The last click that did not fail counts: however clicks, echoes, deletions,
\* clean-ups, ties and rolled-back failures interleave, a page that started loaded
\* and had nothing go wrong behind its back shows what the relays count.
THEOREM TheLastClickCounts == Spec => []LastClickCounts
<1>1. PInv => LastClickCounts
  <2> SUFFICES ASSUME PInv, loaded, mistaken = {}, Resting, sweeps = {}, optimistic # "unset"
               PROVE  Counted = optimistic
    BY DEF LastClickCounts
  <2> USE DEF PInv, SInv, TInv
  <2>1. cast.step # "sent" /\ Settled = optimistic
    BY DEF Resting, Settled
  <2>2. net \in SUBSET Reactions
    BY DEF TypeOK
  <2>3. CASE optimistic = "none"
    <3>1. net \subseteq Gone
      BY <2>1, <2>3 DEF PageHolds
    <3>2. cast.step # "supersede"
      BY <2>3 DEF InFlight, Directions
    <3>3. net \subseteq dels
      BY <3>1, <3>2 DEF Gone
    <3> QED
      BY <2>3, <3>3 DEF Counted, Latest, Direction
  <2>4. CASE optimistic # "none"
    <3>1. PICK h \in net : Held(h)
      BY <2>1, <2>4 DEF PageHolds
    <3>2. h \notin dels /\ \A f \in net \ {h} : Newer(h, f)
      BY <3>1 DEF Held, Newest, Gone
    <3>3. Latest(net, dels) = h
      BY <2>2, <3>1, <3>2, NewestIsLatest
    <3> QED
      BY <2>1, <2>2, <3>1, <3>3 DEF Counted, Direction, Held
  <2> QED
    BY <2>3, <2>4
<1> QED
  BY <1>1, InitHolds, NextHolds, PTL DEF Spec

=============================================================================
