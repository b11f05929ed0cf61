--------------------------- MODULE LiveBoard_proofs ---------------------------
(***************************************************************************)
(* Proofs about LiveBoard, for every universe of events, every link, any   *)
(* debounce and longest wait, and any number of faults.                    *)
(*                                                                         *)
(* EveryKnownIdIsAsked is not inductive: that a filter is not overdue now  *)
(* says nothing of the next tick. Waits adds that a refresh is due         *)
(* whenever a filter misses an id, and due early enough for the time that  *)
(* its key has held; Settled, that the ids the page knows change by        *)
(* deliveries only, for the snapshot is complete once the page is there.   *)
(*                                                                         *)
(* RetractionHolds, BadgeIsEarned and ThreadKeepsItsReplies rest on RInv:  *)
(* what the page has was published (Heard, Withdrawn), and what a pass of  *)
(* the snapshot read is retracted by the time the next one is over         *)
(* (Retractions), unless a read was lost.                                  *)
(***************************************************************************)
EXTENDS LiveBoard, TLAPS

\* The snapshot is complete when the page mounts, and the page is when its
\* provider does.
Settled ==
  /\ page.mounted => server.phase = "done"
  /\ page.provided => page.mounted
  /\ server.phase \in {"resolve", "done"} => server.await = {}

\* A filter that misses an id is to be refreshed, in time.
WaitOK(s) ==
  /\ Known[s] # asked[s] => timers[s].due # Idle
  /\ timers[s].due # Idle => timers[s].due <= MaxWait - timers[s].since \/ timers[s].due = 0
  /\ lag[s] <= timers[s].since

Waits == page.provided => \A s \in Subs : WaitOK(s)

IInv == TypeOK /\ Settled /\ Waits /\ EveryKnownIdIsAsked

\* The parts of the type invariant that the debounce is about.
Filters ==
  /\ asked \in [Subs -> SUBSET Ids] /\ lag \in [Subs -> 0 .. Long]
  /\ timers \in [Subs -> [due : 0 .. Idle, since : 0 .. Long]]

USE BoundsAssumption

-----------------------------------------------------------------------------
LEMMA MaxOfTwo ==
  ASSUME NEW a \in Int, NEW b \in Int
  PROVE  Max({a, b}) \in {a, b} /\ Max({a, b}) >= a /\ Max({a, b}) >= b
<1>1. \E x \in {a, b} : \A y \in {a, b} : x >= y
  OBVIOUS
<1> QED BY <1>1 DEF Max

LEMMA MinOfTwo ==
  ASSUME NEW a \in Int, NEW b \in Int
  PROVE  Min({a, b}) \in {a, b} /\ Min({a, b}) <= a /\ Min({a, b}) <= b
<1>1. \E x \in {a, b} : \A y \in {a, b} : x <= y
  OBVIOUS
<1> QED BY <1>1 DEF Min

\* The delay is never longer than the debounce, nor than what is left of the
\* longest wait.
LEMMA DelayInBounds ==
  ASSUME NEW since \in 0 .. Long
  PROVE  /\ Delay(since) \in 0 .. MS
         /\ Delay(since) <= MaxWait - since \/ Delay(since) = 0
<1>1. DEFINE rest == Max({0, MaxWait - since})
<1>2. rest \in {0, MaxWait - since} /\ rest >= 0
  BY MaxOfTwo DEF Long
<1>3. rest \in Int
  BY <1>2 DEF Long
<1> HIDE DEF rest
<1>4. Min({MS, rest}) \in {MS, rest} /\ Min({MS, rest}) <= MS /\ Min({MS, rest}) <= rest
  <2>1. MS \in Int
    OBVIOUS
  <2> QED BY <1>3, <2>1, MinOfTwo
<1>5. Delay(since) = Min({MS, rest})
  BY DEF Delay, rest
<1> QED BY <1>2, <1>3, <1>4, <1>5 DEF Long

\* What a subscription asks for is ids of events.
LEMMA KnownType ==
  ASSUME server.read \subseteq Universe, live \subseteq Universe
  PROVE  Known \in [Subs -> SUBSET Ids]
BY DEF Known, Pool, IdsOf, Of, Ids

-----------------------------------------------------------------------------
\* A first render leaves every filter complete.
LEMMA FirstRenderKeeps ==
  ASSUME Known' \in [Subs -> SUBSET Ids], FirstRender
  PROVE  Filters' /\ \A s \in Subs : WaitOK(s)' /\ lag'[s] <= MaxWait
BY DEF FirstRender, Filters, WaitOK, Idle, Long

\* A later one leaves a refresh due for every filter that misses an id.
LEMMA RerenderKeeps ==
  ASSUME Filters, Known' \in [Subs -> SUBSET Ids], Known \in [Subs -> SUBSET Ids],
         \A s \in Subs : WaitOK(s), Rerender
  PROVE  Filters' /\ \A s \in Subs : WaitOK(s)'
<1>1. asked' \in [Subs -> SUBSET Ids] /\ lag' \in [Subs -> 0 .. Long] /\ lag' = lag
  BY DEF Rerender, Filters
<1>2. ASSUME NEW s \in Subs
      PROVE  timers'[s] \in [due : 0 .. Idle, since : 0 .. Long] /\ WaitOK(s)'
  <2>1. /\ timers[s].due \in 0 .. Idle /\ timers[s].since \in 0 .. Long
        /\ timers[s] \in [due : 0 .. Idle, since : 0 .. Long] /\ lag[s] \in 0 .. Long
    BY DEF Filters
  <2>2. asked'[s] = IF asked[s] = {} THEN Known'[s] ELSE asked[s]
    BY DEF Rerender
  <2>3. CASE Known'[s] = Known[s]
    <3>1. timers'[s] = timers[s]
      BY <2>3 DEF Rerender
    <3> QED BY <1>1, <2>1, <2>2, <2>3, <3>1 DEF WaitOK
  <2>4. CASE Known'[s] # Known[s]
    <3>1. timers'[s] = [timers[s] EXCEPT !.due = Delay(timers[s].since)]
      BY <2>4 DEF Rerender
    <3>2. timers'[s].due = Delay(timers[s].since) /\ timers'[s].since = timers[s].since
      BY <2>1, <3>1
    <3>3. /\ Delay(timers[s].since) \in 0 .. MS
          /\ Delay(timers[s].since) <= MaxWait - timers[s].since \/ Delay(timers[s].since) = 0
      BY <2>1, DelayInBounds
    <3>4. timers'[s] \in [due : 0 .. Idle, since : 0 .. Long]
      BY <2>1, <3>1, <3>3 DEF Idle
    <3> QED BY <1>1, <3>2, <3>3, <3>4 DEF WaitOK, Idle
  <2> QED BY <2>3, <2>4
<1>3. timers' \in [Subs -> [due : 0 .. Idle, since : 0 .. Long]]
  BY <1>2 DEF Rerender
<1> QED BY <1>1, <1>2, <1>3 DEF Filters

\* Either, whichever the step does; what it does not touch stays.
LEMMA RenderKeeps ==
  ASSUME TypeOK, Waits, EveryKnownIdIsAsked, Known' \in [Subs -> SUBSET Ids],
         Known \in [Subs -> SUBSET Ids],
         \/ FirstRender
         \/ page.provided /\ Rerender
         \/ ~page.provided' /\ UNCHANGED <<asked, timers, lag>>
  PROVE  Filters' /\ Waits' /\ EveryKnownIdIsAsked'
<1>1. Filters /\ \A s \in Subs : lag[s] <= MaxWait
  BY DEF TypeOK, Filters, EveryKnownIdIsAsked
<1>2. CASE FirstRender
  BY <1>2, FirstRenderKeeps DEF Waits, EveryKnownIdIsAsked
<1>3. CASE page.provided /\ Rerender
  <2>1. Filters' /\ \A s \in Subs : WaitOK(s)'
    BY <1>1, <1>3, RerenderKeeps DEF Waits
  <2>2. lag' = lag
    BY <1>3 DEF Rerender
  <2> QED BY <1>1, <2>1, <2>2 DEF Waits, EveryKnownIdIsAsked
<1>4. CASE ~page.provided' /\ UNCHANGED <<asked, timers, lag>>
  BY <1>1, <1>4 DEF Waits, EveryKnownIdIsAsked, Filters
<1> QED BY <1>2, <1>3, <1>4

-----------------------------------------------------------------------------
(* The server's steps happen before there is a page. *)

ServerType ==
  server \in [phase : Phases, await : SUBSET Queries, cursor : Ids \cup {NoEvent},
              hops : 0 .. MaxHops, idea : Ids \cup {NoEvent},
              read : SUBSET Universe, attests : SUBSET Universe]

LEMMA AnswersAreEvents ==
  ASSUME net \subseteq Universe, NEW q \in Queries
  PROVE  Answer(q) \subseteq Universe
BY DEF Answer, Newest, Of, On, Queries

LEMMA EventTypes ==
  ASSUME NEW e \in Universe
  PROVE  e.id \in Ids /\ e.of \in Ids \cup {NoRef}
BY UniverseAssumption DEF Ids, NoRef

LEMMA FaultsKeep ==
  ASSUME faults \in 0 .. MaxFaults, lost \in BOOLEAN, Keeps \/ Loses
  PROVE  faults' \in 0 .. MaxFaults /\ lost' \in BOOLEAN
<1>1. faults' \in 0 .. MaxFaults
  BY DEF Keeps, Loses
<1>2. lost' = lost \/ lost' = TRUE
  BY DEF Keeps, Loses
<1>3. lost' \in BOOLEAN
  BY <1>2, Zenon
<1> QED BY <1>1, <1>3

LEMMA ServeKeeps ==
  ASSUME TypeOK, Settled, Serve
  PROVE  ServerType' /\ Settled' /\ ~page.provided /\ (faults' \in 0 .. MaxFaults /\ lost' \in BOOLEAN)
         /\ UNCHANGED <<net, link, page, client>>
<1> USE DEF NoEvent
<1>0. ServerType /\ net \subseteq Universe /\ faults \in 0 .. MaxFaults /\ lost \in BOOLEAN
  BY DEF TypeOK, ServerType
<1>1. CASE Resolve
  <2>1. server.phase = "resolve" /\ UNCHANGED <<net, link, page, client>>
    BY <1>1 DEF Resolve
  <2>2. ~page.mounted /\ ~page.provided /\ server.await = {}
    BY <2>1 DEF Settled
  <2>3. faults' \in 0 .. MaxFaults /\ lost' \in BOOLEAN
    BY <1>0, <1>1, FaultsKeep DEF Resolve
  <2>4. CASE server' = [server EXCEPT !.phase = "done"]
    BY <1>0, <2>1, <2>2, <2>3, <2>4 DEF ServerType, Settled, Phases
  <2>5. CASE \E e \in Of({"idea", "reply"}, net) : server.hops < MaxHops /\ server' = Climb(e)
    <3>1. PICK e \in Universe : server.hops < MaxHops /\ server' = Climb(e)
      BY <1>0, <2>5 DEF Of
    <3>2. e.id \in Ids /\ e.of \in Ids \cup {NoEvent}
      BY EventTypes DEF NoRef
    <3>3. CASE e.kind = "idea"
      <4>1. Awaits("first") \subseteq Queries
        BY DEF Awaits, Queries
      <4>2. server' = [server EXCEPT !.phase = "first", !.await = Awaits("first"), !.idea = e.id]
        BY <3>1, <3>3 DEF Climb
      <4> QED BY <1>0, <2>1, <2>2, <2>3, <3>2, <4>1, <4>2 DEF ServerType, Settled, Phases
    <3>4. CASE e.kind # "idea"
      <4>1. server' = [server EXCEPT !.cursor = e.of, !.hops = @ + 1]
        BY <3>1, <3>4 DEF Climb
      <4>2. server.hops + 1 \in 0 .. MaxHops
        BY <1>0, <3>1 DEF ServerType
      <4> QED BY <1>0, <2>1, <2>2, <2>3, <3>2, <4>1, <4>2 DEF ServerType, Settled
    <3> QED BY <3>3, <3>4
  <2> QED BY <1>1, <2>4, <2>5 DEF Resolve
<1>2. ASSUME NEW q \in Queries, Query(q)
      PROVE  ServerType' /\ Settled' /\ ~page.provided
             /\ (faults' \in 0 .. MaxFaults /\ lost' \in BOOLEAN)
             /\ UNCHANGED <<net, link, page, client>>
  <2>1. server.await # {} /\ UNCHANGED <<net, link, page, client>>
    BY <1>2 DEF Query
  <2>2. server.phase \notin {"resolve", "done"} /\ ~page.mounted /\ ~page.provided
    BY <2>1 DEF Settled
  <2>3. faults' \in 0 .. MaxFaults /\ lost' \in BOOLEAN
    BY <1>0, <1>2, FaultsKeep DEF Query
  <2>4. PICK es \in {Answer(q), {}} :
          server' = IF q = "attests"
                    THEN [server EXCEPT !.await = @ \ {q}, !.attests = es]
                    ELSE [server EXCEPT !.await = @ \ {q}, !.read = @ \cup es]
    BY <1>2 DEF Query
  <2>5. es \subseteq Universe
    BY <1>0, AnswersAreEvents
  <2>6. ServerType' /\ server'.phase = server.phase
    BY <1>0, <2>4, <2>5 DEF ServerType
  <2> QED BY <2>1, <2>2, <2>3, <2>6 DEF Settled
<1>3. CASE NextPass
  <2>1. server.phase \in {"first", "second", "third"} /\ UNCHANGED <<net, link, page, client, faults, lost>>
    BY <1>3 DEF NextPass
  <2>2. ~page.mounted /\ ~page.provided
    BY <2>1 DEF Settled
  <2>3. /\ After(server.phase) \in Phases \ {"resolve"}
        /\ Awaits(After(server.phase)) \subseteq Queries
        /\ After(server.phase) = "done" => Awaits(After(server.phase)) = {}
    BY <2>1 DEF After, Awaits, Phases, Queries
  <2>4. server' = [server EXCEPT !.phase = After(server.phase), !.await = Awaits(After(server.phase))]
    BY <1>3 DEF NextPass
  <2>5. ServerType' /\ server'.phase = After(server.phase) /\ server'.await = Awaits(After(server.phase))
    BY <1>0, <2>3, <2>4 DEF ServerType
  <2> QED BY <1>0, <2>1, <2>2, <2>3, <2>5 DEF Settled
<1> QED BY <1>1, <1>2, <1>3 DEF Serve
-----------------------------------------------------------------------------
(* The invariant holds at first, and every step keeps it. *)

Pages == page \in [mounted : BOOLEAN, provided : BOOLEAN]

\* What the visitor, and everyone else, has published.
Publications == net \subseteq Universe /\ posted \subseteq Posts /\ removed \subseteq Ids

LEMMA TypeParts ==
  TypeOK <=> /\ ServerType /\ Filters /\ Pages /\ Publications
             /\ link \in Links /\ live \subseteq Universe
             /\ faults \in 0 .. MaxFaults /\ lost \in BOOLEAN
BY DEF TypeOK, ServerType, Filters, Pages, Publications

LEMMA InitInv == Init => IInv
<1> SUFFICES ASSUME Init PROVE IInv
  OBVIOUS
<1>1. ServerType
  <2>1. Awaits("first") \subseteq Queries
    BY DEF Awaits, Queries
  <2>2. link # Feed => link \in Ids
    BY UniverseAssumption DEF Init, Ids
  <2> QED BY <2>1, <2>2 DEF Init, NewSnapshot, ServerType, Phases, NoEvent
<1>2. Filters /\ EveryKnownIdIsAsked
  BY DEF Init, Filters, EveryKnownIdIsAsked, Idle, Long
<1>3. Pages /\ Settled /\ Waits
  BY DEF Init, NewSnapshot, Pages, Settled, Waits
<1>4. Publications /\ live \subseteq Universe
  BY UniverseAssumption DEF Init, Publications
<1>5. link \in Links /\ faults \in 0 .. MaxFaults
  BY DEF Init
<1>6. lost \in BOOLEAN
  BY Zenon DEF Init
<1> QED BY <1>1, <1>2, <1>3, <1>4, <1>5, <1>6, TypeParts DEF IInv

LEMMA NextInv == IInv /\ [Next]_vars => IInv'
<1> SUFFICES ASSUME IInv, [Next]_vars PROVE IInv'
  OBVIOUS
<1> USE DEF IInv
<1>0. /\ ServerType /\ Filters /\ Pages /\ Publications /\ link \in Links
      /\ live \subseteq Universe /\ faults \in 0 .. MaxFaults /\ lost \in BOOLEAN
  BY TypeParts
<1>a. Known \in [Subs -> SUBSET Ids]
  BY <1>0, KnownType DEF ServerType
<1>1. CASE Serve
  <2>1. /\ ServerType' /\ Settled' /\ ~page.provided
        /\ faults' \in 0 .. MaxFaults /\ lost' \in BOOLEAN
        /\ UNCHANGED <<net, link, page, client>>
    BY <1>1, ServeKeeps
  <2>2. Filters' /\ Pages' /\ Publications' /\ link' \in Links /\ live' \subseteq Universe
    BY <1>0, <2>1 DEF client, Filters, Pages, Publications
  <2>3. Waits' /\ EveryKnownIdIsAsked'
    BY <2>1 DEF client, Waits, EveryKnownIdIsAsked
  <2>4. TypeOK'
    BY <2>1, <2>2, TypeParts DEF ServerType, Filters, Pages, Publications, TypeOK
  <2> QED BY <2>1, <2>3, <2>4
\* A step that renders: the types, and which render it is.
<1>2. ASSUME \/ Mount \/ Remount \/ \E e \in Universe : Deliver(e)
      PROVE  IInv'
  <2>1. /\ UNCHANGED <<net, server, link, lost>>
        /\ live' \subseteq Universe /\ posted' \subseteq Posts /\ removed' \subseteq Ids
        /\ faults' \in 0 .. MaxFaults
    BY <1>0, <1>2 DEF Mount, Remount, Deliver, Publications
  <2>2. /\ page'.mounted /\ server.phase = "done" /\ page' \in [mounted : BOOLEAN, provided : BOOLEAN]
        /\ page'.provided = Provided \/ page'.provided = Provided'
    <3>1. CASE Mount
      <4>1. page' = [mounted |-> TRUE, provided |-> Provided] /\ server.phase = "done"
        BY <3>1 DEF Mount
      <4> QED BY <4>1 DEF Provided
    <3>2. CASE Remount \/ \E e \in Universe : Deliver(e)
      <4>1. page' = [page EXCEPT !.provided = Provided'] /\ page.mounted
        BY <3>2 DEF Remount, Deliver
      <4> QED BY <1>0, <4>1 DEF Provided, Pages, Settled
    <3> QED BY <1>2, <3>1, <3>2
  <2>3. \/ FirstRender
        \/ page.provided /\ Rerender
        \/ ~page'.provided /\ UNCHANGED <<asked, timers, lag>>
    <3>1. CASE Mount
      <4>1. page'.provided = Provided
        BY <3>1 DEF Mount
      <4> QED BY <3>1, <4>1 DEF Mount
    <3>2. CASE Remount \/ \E e \in Universe : Deliver(e)
      <4>1. page'.provided = Provided'
        BY <1>0, <3>2 DEF Remount, Deliver, Pages
      <4> QED BY <3>2, <4>1 DEF Remount, Deliver
    <3> QED BY <1>2, <3>1, <3>2
  <2>4. Known' \in [Subs -> SUBSET Ids]
    <3>1. server'.read \subseteq Universe
      BY <1>0, <2>1 DEF ServerType
    <3> QED BY <2>1, <3>1 DEF Known, Pool, IdsOf, Of, Ids
  <2>5. Filters' /\ Waits' /\ EveryKnownIdIsAsked'
    BY <1>a, <2>3, <2>4, RenderKeeps
  <2>6. Settled'
    BY <2>1, <2>2 DEF Settled
  <2>7. TypeOK'
    <3>1. ServerType' /\ Pages' /\ Publications' /\ link' \in Links
      BY <1>0, <2>1, <2>2 DEF ServerType, Pages, Publications
    <3>2. lost' \in BOOLEAN
      BY <1>0, <2>1, Zenon
    <3> QED BY <2>1, <2>5, <3>1, <3>2 DEF TypeOK, ServerType, Filters, Pages, Publications
  <2> QED BY <2>5, <2>6, <2>7
<1>3. ASSUME NEW s \in Subs, Fire(s)
      PROVE  IInv'
  <2>1. /\ UNCHANGED <<net, link, server, page, live, posted, removed, faults, lost>>
        /\ Known' = Known
    BY <1>3 DEF Fire, Known, Pool
  <2>2. Filters'
    BY <1>0, <1>a, <1>3 DEF Fire, Filters, Idle, Long
  <2>3. Waits'
    <3> SUFFICES ASSUME page.provided, NEW t \in Subs PROVE WaitOK(t)'
      BY <2>1 DEF Waits
    <3>1. WaitOK(t)
      BY DEF Waits
    <3>2. CASE t = s
      BY <1>0, <1>3, <2>1, <3>2 DEF Fire, Filters, WaitOK, Idle
    <3>3. CASE t # s
      BY <1>0, <1>3, <2>1, <3>1, <3>3 DEF Fire, Filters, WaitOK
    <3> QED BY <3>2, <3>3
  <2>4. EveryKnownIdIsAsked'
    BY <1>0, <1>3 DEF Fire, Filters, EveryKnownIdIsAsked
  <2>5. Settled' /\ ServerType' /\ Pages' /\ Publications' /\ link' \in Links /\ live' \subseteq Universe
    BY <1>0, <2>1 DEF Settled, ServerType, Pages, Publications
  <2>6. faults' \in 0 .. MaxFaults /\ lost' \in BOOLEAN
    BY <1>0, <2>1, Zenon
  <2> QED BY <2>2, <2>3, <2>4, <2>5, <2>6 DEF TypeOK, ServerType, Filters, Pages, Publications
<1>4. CASE Tick
  <2>1. /\ UNCHANGED <<net, link, server, page, live, asked, posted, removed, faults, lost>>
        /\ Known' = Known /\ page.provided
    BY <1>4 DEF Tick, Known, Pool
  <2>2. ASSUME NEW s \in Subs
        PROVE  /\ timers'[s] \in [due : 0 .. Idle, since : 0 .. Long]
               /\ lag'[s] \in 0 .. MaxWait /\ WaitOK(s)'
    <3>1. /\ WaitOK(s) /\ timers[s].due \in 0 .. Idle /\ timers[s].since \in 0 .. Long
          /\ lag[s] \in 0 .. Long /\ lag[s] <= MaxWait /\ timers[s].due > 0
      BY <1>0, <1>4, <2>1 DEF Waits, Filters, EveryKnownIdIsAsked, Tick
    <3>2. timers'[s] = [due   |-> IF timers[s].due = Idle THEN Idle ELSE timers[s].due - 1,
                        since |-> IF timers[s].since = Long THEN Long ELSE timers[s].since + 1]
      BY <1>4 DEF Tick
    <3>3. lag'[s] = IF Known[s] = asked[s] THEN 0 ELSE IF lag[s] = Long THEN Long ELSE lag[s] + 1
      BY <1>4 DEF Tick
    <3>4. /\ timers'[s].due \in 0 .. Idle /\ timers'[s].since \in 0 .. Long
          /\ timers'[s] \in [due : 0 .. Idle, since : 0 .. Long]
      BY <3>1, <3>2 DEF Idle, Long
    <3>5. CASE Known[s] = asked[s]
      BY <2>1, <3>1, <3>2, <3>3, <3>4, <3>5 DEF WaitOK, Idle, Long
    <3>6. CASE Known[s] # asked[s]
      <4>1. timers[s].due # Idle /\ timers[s].due <= MaxWait - timers[s].since
        BY <3>1, <3>6 DEF WaitOK
      <4>2. timers[s].since < MaxWait /\ lag[s] < MaxWait /\ lag'[s] = lag[s] + 1
        BY <3>1, <3>3, <3>6, <4>1 DEF WaitOK, Long
      <4>3. timers'[s].due = timers[s].due - 1 /\ timers'[s].since = timers[s].since + 1
        BY <3>1, <3>2, <4>1, <4>2 DEF Long
      <4> QED BY <2>1, <3>1, <3>4, <4>1, <4>2, <4>3 DEF WaitOK, Idle, Long
    <3> QED BY <3>5, <3>6
  <2>3. Filters' /\ Waits' /\ EveryKnownIdIsAsked'
    <3>1. timers' \in [Subs -> [due : 0 .. Idle, since : 0 .. Long]]
      BY <1>4, <2>2 DEF Tick
    <3>2. lag' \in [Subs -> 0 .. Long] /\ EveryKnownIdIsAsked'
      BY <1>4, <2>2 DEF Tick, Long, EveryKnownIdIsAsked
    <3> QED BY <1>0, <2>1, <2>2, <3>1, <3>2 DEF Filters, Waits
  <2>4. Settled' /\ ServerType' /\ Pages' /\ Publications' /\ link' \in Links /\ live' \subseteq Universe
    BY <1>0, <2>1 DEF Settled, ServerType, Pages, Publications
  <2>5. faults' \in 0 .. MaxFaults /\ lost' \in BOOLEAN
    BY <1>0, <2>1, Zenon
  <2> QED BY <2>3, <2>4, <2>5 DEF TypeOK, ServerType, Filters, Pages, Publications
\* A step that only publishes, or nothing.
<1>5. ASSUME \/ \E e \in Universe : Publish(e) \/ Post(e) \/ Delete(e)
             \/ UNCHANGED vars
      PROVE  IInv'
  <2>1. /\ UNCHANGED <<link, server, page, live, asked, timers, lag, faults, lost>>
        /\ Known' = Known
    BY <1>5 DEF Publish, Post, Delete, client, vars, Known, Pool
  <2>2. Publications'
    <3>1. \A d \in Universe : d.of \in IdsOf(Posts \cap Thread) => d.of \in Ids
      BY UniverseAssumption DEF IdsOf, Ids
    <3> QED BY <1>0, <1>5, <3>1 DEF Publish, Post, Delete, Publishable, client, vars, Publications
  <2>3. Filters' /\ EveryKnownIdIsAsked'
    BY <1>0, <2>1 DEF Filters, EveryKnownIdIsAsked
  <2>4. Waits'
    BY <2>1 DEF Waits, WaitOK
  <2>5. Settled' /\ ServerType' /\ Pages' /\ link' \in Links /\ live' \subseteq Universe
    BY <1>0, <2>1 DEF Settled, ServerType, Pages
  <2>6. faults' \in 0 .. MaxFaults /\ lost' \in BOOLEAN
    BY <1>0, <2>1, Zenon
  <2> QED BY <2>2, <2>3, <2>4, <2>5, <2>6 DEF TypeOK, ServerType, Filters, Pages, Publications
<1> QED BY <1>1, <1>2, <1>3, <1>4, <1>5 DEF Next

\* The inductive invariant holds of every visit.
THEOREM Invariant == Spec => []IInv
BY InitInv, NextInv, PTL DEF Spec

\* The state of the snapshot, the page and its subscriptions keeps its types.
THEOREM TypeCorrect == Spec => []TypeOK
<1>1. IInv => TypeOK
  BY DEF IInv
<1> QED BY <1>1, Invariant, PTL

\* Whatever streams in, and whatever the debounce's two parameters: an id the page
\* knows is in the filters of both subscriptions within the longest wait.
THEOREM IdsAreAskedInTime == Spec => []EveryKnownIdIsAsked
<1>1. IInv => EveryKnownIdIsAsked
  BY DEF IInv
<1> QED BY <1>1, Invariant, PTL

-----------------------------------------------------------------------------
(* What the page has was published, and what the snapshot's passes brought *)
(* is complete as far as they have got, unless a read was lost.            *)

Heard ==
  /\ server.read \subseteq net /\ server.attests \subseteq net
  /\ live \subseteq net /\ posted \subseteq net /\ Published \subseteq net

\* What the visitor has deleted is retracted on the relays.
Withdrawn == \A i \in removed : On({"deletion"}, {i}, net) # {}

Passes ==
  /\ server.await \subseteq Awaits(server.phase)
  /\ server.phase = "resolve" => server.read = {}

\* The early retractions of what the snapshot has of these kinds are in it.
Covered(kinds) ==
  \A d \in Of({"deletion"}, Published) : \A e \in Of(kinds, server.read) :
    e.id = d.of /\ Subject(e) => d \in server.read

Asked == {"idea", "reply"} \cup Moderation

\* The second pass retracts what the first has read, the third its votes.
Retractions ==
  ~lost => /\ (server.phase \in {"second", "third", "done"} /\ "deletions" \notin server.await)
                => Covered(Asked)
           /\ (server.phase \in {"third", "done"} /\ "retractions" \notin server.await)
                => Covered({"vote"})

RInv == IInv /\ Heard /\ Withdrawn /\ Passes /\ Retractions

-----------------------------------------------------------------------------
(* The comments under another.                                             *)

LEMMA UnderGrows ==
  ASSUME NEW root, NEW rs, NEW ss, rs \subseteq ss
  PROVE  Under(root, rs) \subseteq Under(root, ss)
<1> SUFFICES ASSUME NEW r \in Under(root, rs), NEW S \in SUBSET ss, Hangs(root, ss, S)
             PROVE  r \in S
  BY DEF Under
<1>1. Hangs(root, rs, S \cap rs)
  BY DEF Hangs, IdsOf
<1>2. r \in S \cap rs
  BY <1>1 DEF Under
<1> QED BY <1>2

LEMMA UnderStep ==
  ASSUME NEW root, NEW rs, NEW c \in rs, c.of \in {root} \cup IdsOf(Under(root, rs))
  PROVE  c \in Under(root, rs)
<1> SUFFICES ASSUME NEW S \in SUBSET rs, Hangs(root, rs, S) PROVE c \in S
  BY DEF Under
<1>1. Under(root, rs) \subseteq S
  BY DEF Under
<1>2. c.of \in {root} \cup IdsOf(S)
  BY <1>1 DEF IdsOf
<1> QED BY <1>2 DEF Hangs

\* A reply that is no longer under the comment is gone itself, or hangs under
\* one that is.
LEMMA UnderLost ==
  ASSUME NEW root, NEW rs, NEW ss, NEW r \in Under(root, rs), r \notin Under(root, ss)
  PROVE  \E u \in rs \ ss : r \in Under(u.id, rs) \cup {u}
<1>1. r \in rs
  BY DEF Under
<1>2. CASE r \notin ss
  BY <1>1, <1>2
<1>3. CASE r \in ss
  <2>1. PICK T \in SUBSET ss : Hangs(root, ss, T) /\ r \notin T
    BY <1>3 DEF Under
  <2> DEFINE U == {y \in rs : \E u \in rs \ ss : y \in Under(u.id, rs) \cup {u}}
             S == (T \cap rs) \cup U
  <2>2. Hangs(root, rs, S)
    <3> SUFFICES ASSUME NEW c \in rs, c.of \in {root} \cup IdsOf(S) PROVE c \in S
      BY DEF Hangs
    <3>1. CASE c \notin ss
      BY <3>1
    <3>2. CASE c \in ss /\ c.of \in {root} \cup IdsOf(T)
      BY <2>1, <3>2 DEF Hangs
    <3>3. CASE c.of \in IdsOf(U)
      <4>1. PICK y \in U : y.id = c.of
        BY <3>3 DEF IdsOf
      <4>2. PICK u \in rs \ ss : y \in Under(u.id, rs) \cup {u}
        BY <4>1
      <4>3. c.of \in {u.id} \cup IdsOf(Under(u.id, rs))
        BY <4>1, <4>2 DEF IdsOf
      <4>4. c \in Under(u.id, rs)
        BY <4>3, UnderStep
      <4> QED BY <4>2, <4>4
    <3> QED BY <3>1, <3>2, <3>3 DEF IdsOf
  <2>3. r \in S
    BY <2>2 DEF Under
  <2>4. r \in U
    BY <2>1, <2>3
  <2> QED BY <2>4
<1> QED BY <1>2, <1>3

-----------------------------------------------------------------------------
(* The inductive step, for the server's steps and for the page's.          *)

LEMMA AnswersAreHeard ==
  ASSUME NEW q \in Queries
  PROVE  Answer(q) \subseteq net
BY DEF Answer, Newest, Of, On, Queries

\* A query of a pass: what it adds is of kinds the other passes do not bring.
LEMMA QueryKeeps ==
  ASSUME RInv, NEW q \in Queries, Query(q)
  PROVE  Heard' /\ Withdrawn' /\ Passes' /\ Retractions'
<1>0. /\ ServerType /\ UNCHANGED <<net, link, page, client>> /\ q \in server.await
      /\ server.await \subseteq Awaits(server.phase) /\ Published \subseteq net
  BY DEF RInv, IInv, TypeOK, ServerType, Query, Passes, Heard
<1>1. PICK es \in {Answer(q), {}} :
        /\ IF es = Answer(q) THEN Keeps ELSE Loses
        /\ server' = IF q = "attests"
                     THEN [server EXCEPT !.await = @ \ {q}, !.attests = es]
                     ELSE [server EXCEPT !.await = @ \ {q}, !.read = @ \cup es]
  BY DEF Query
<1>2. es \subseteq net
  BY AnswersAreHeard
<1>3. /\ server'.phase = server.phase /\ server'.await = server.await \ {q}
      /\ server'.idea = server.idea
      /\ server'.read = IF q = "attests" THEN server.read ELSE server.read \cup es
      /\ server'.attests = IF q = "attests" THEN es ELSE server.attests
  BY <1>0, <1>1 DEF ServerType
<1>4. Heard'
  BY <1>0, <1>2, <1>3 DEF RInv, Heard, client
<1>5. Withdrawn'
  BY <1>0 DEF RInv, Withdrawn, client
<1>6. server.phase \in {"first", "second", "third"}
  BY <1>0 DEF Awaits
<1>7. Passes'
  BY <1>0, <1>3, <1>6 DEF Passes, Awaits
<1>8. Retractions'
  <2> SUFFICES ASSUME ~lost' PROVE Retractions'
    BY DEF Retractions
  <2>1. ~lost /\ es = Answer(q)
    BY <1>1 DEF Keeps, Loses
  <2>s. \A e : Subject(e)' <=> Subject(e)
    BY <1>0, <1>3 DEF Subject
  <2>2. CASE server.phase = "first"
    BY <1>3, <2>2 DEF Retractions
  <2>3. CASE server.phase = "second"
    <3>1. q \in {"votes", "deletions"}
      BY <1>0, <2>3 DEF Awaits
    <3>2. \A e \in Of(Asked, server'.read) : e \in Of(Asked, server.read)
      BY <1>3, <2>1, <3>1 DEF Answer, On, Of, Asked, Moderation
    <3>3. CASE q = "votes"
      BY <1>3, <2>1, <2>3, <2>s, <3>2, <3>3 DEF RInv, Retractions, Covered
    <3>4. CASE q = "deletions"
      <4>1. ASSUME NEW d \in Of({"deletion"}, Published), NEW e \in Of(Asked, server'.read),
                   e.id = d.of, Subject(e)
            PROVE  d \in server'.read
        <5>1. e \in Of(Asked, server.read)
          BY <3>2
        <5>2. e.id \in Retracted
          BY <4>1, <5>1 DEF Retracted, IdsOf, Of, Asked, Subject
        <5>3. d \in Answer("deletions")
          BY <1>0, <4>1, <5>2 DEF Answer, On, Of
        <5> QED BY <1>3, <2>1, <3>4, <5>3
      <4>2. Covered(Asked)'
        BY <2>s, <4>1 DEF Covered
      <4> QED BY <1>3, <2>3, <4>2 DEF Retractions
    <3> QED BY <3>1, <3>3, <3>4
  <2>4. CASE server.phase = "third"
    <3>1. q = "retractions" /\ server.await \subseteq {"retractions"}
      BY <1>0, <2>4 DEF Awaits
    <3>2. \A e \in Of(Asked \cup {"vote"}, server'.read) : e \in server.read
      BY <1>3, <2>1, <3>1 DEF Answer, On, Of, Asked, Moderation
    <3>3. Covered(Asked)'
      <4>1. Covered(Asked)
        BY <2>1, <2>4, <3>1 DEF RInv, Retractions
      <4> QED BY <1>3, <2>s, <3>2, <4>1 DEF Covered, Of
    <3>4. ASSUME NEW d \in Of({"deletion"}, Published), NEW e \in Of({"vote"}, server'.read),
                 e.id = d.of
          PROVE  d \in server'.read
      <4>1. e \in Of({"vote"}, server.read)
        BY <3>2 DEF Of
      <4>2. d \in Answer("retractions")
        BY <1>0, <3>4, <4>1 DEF Answer, On, Of, IdsOf
      <4> QED BY <1>3, <2>1, <3>1, <4>2
    <3>5. Covered({"vote"})'
      BY <3>4 DEF Covered
    <3> QED BY <3>3, <3>5 DEF Retractions
  <2> QED BY <1>6, <2>2, <2>3, <2>4
<1> QED BY <1>4, <1>5, <1>7, <1>8

LEMMA ResolveKeeps ==
  ASSUME RInv, Resolve
  PROVE  Heard' /\ Withdrawn' /\ Passes' /\ Retractions'
<1> USE DEF NoEvent
<1>0. /\ ServerType /\ UNCHANGED <<net, link, page, client>>
      /\ server.phase = "resolve" /\ server.read = {} /\ server.await = {}
  BY DEF RInv, IInv, TypeOK, ServerType, Resolve, Passes, Settled
<1>1. /\ server'.read = {} /\ server'.attests = server.attests
      /\ \/ server'.phase \in {"resolve", "done"} /\ server'.await = {}
         \/ server'.phase = "first" /\ server'.await = Awaits("first")'
  <2>1. Awaits("first")' = Awaits("first")
    BY <1>0 DEF Awaits
  <2>2. CASE server' = [server EXCEPT !.phase = "done"]
    BY <1>0, <2>2 DEF ServerType
  <2>3. CASE \E e \in Of({"idea", "reply"}, net) : server' = Climb(e)
    BY <1>0, <2>1, <2>3 DEF ServerType, Climb
  <2> QED BY <2>2, <2>3 DEF Resolve
<1>2. Heard' /\ Withdrawn'
  BY <1>0, <1>1 DEF RInv, Heard, Withdrawn, client
<1>3. Passes'
  BY <1>1 DEF Passes
<1>4. Retractions'
  BY <1>1 DEF Retractions, Covered, Of
<1> QED BY <1>2, <1>3, <1>4

LEMMA NextPassKeeps ==
  ASSUME RInv, NextPass
  PROVE  Heard' /\ Withdrawn' /\ Passes' /\ Retractions'
<1>0. /\ ServerType /\ UNCHANGED <<net, link, page, client, faults, lost>>
      /\ server.phase \in {"first", "second", "third"} /\ server.await = {}
      /\ server' = [server EXCEPT !.phase = After(@), !.await = Awaits(After(server.phase))]
  BY DEF RInv, IInv, TypeOK, ServerType, NextPass
<1>1. /\ server'.phase = After(server.phase) /\ server'.await = Awaits(After(server.phase))
      /\ server'.read = server.read /\ server'.attests = server.attests /\ server'.idea = server.idea
  BY <1>0 DEF ServerType
<1>2. Heard' /\ Withdrawn'
  BY <1>0, <1>1 DEF RInv, Heard, Withdrawn, client
<1>3. Passes'
  <2>1. After(server.phase) \in {"second", "third", "done"}
    BY <1>0 DEF After
  <2> QED BY <1>1, <2>1 DEF Passes, Awaits
<1>4. \A kinds : Covered(kinds) => Covered(kinds)'
  BY <1>0, <1>1 DEF Covered, Subject
<1>5. CASE server.phase = "first"
  <2>1. server'.phase = "second" /\ "deletions" \in server'.await
    BY <1>1, <1>5 DEF After, Awaits
  <2> QED BY <1>2, <1>3, <2>1 DEF Retractions
<1>6. CASE server.phase = "second"
  <2>1. server'.phase = "third" /\ "retractions" \in server'.await
    BY <1>1, <1>6 DEF After, Awaits
  <2> QED BY <1>0, <1>2, <1>3, <1>4, <1>6, <2>1 DEF RInv, Retractions
<1>7. CASE server.phase = "third"
  BY <1>0, <1>2, <1>3, <1>4, <1>7 DEF RInv, Retractions
<1> QED BY <1>0, <1>5, <1>6, <1>7

\* The page's steps change nothing of the snapshot, and only what is on the
\* relays is delivered, posted or deleted.
LEMMA PageKeeps ==
  ASSUME RInv, [Next]_vars, ~Serve
  PROVE  /\ Heard' /\ Withdrawn' /\ Passes' /\ Retractions'
         /\ UNCHANGED <<server, link, lost>>
<1>1. UNCHANGED <<server, link, lost>>
  BY DEF Next, Mount, Tick, Remount, Fire, Deliver, Publish, Post, Delete, vars
<1>2. net \subseteq net'
  BY DEF Next, Mount, Tick, Remount, Fire, Deliver, Publish, Post, Delete, vars
<1>3. live' \subseteq net'
  BY DEF RInv, Heard, Next, Mount, Tick, Remount, Fire, Deliver, Publish, Post, Delete, vars, client
<1>4. posted' \subseteq net'
  BY DEF RInv, Heard, Next, Mount, Tick, Remount, Fire, Deliver, Publish, Post, Delete, vars, client
<1>5. Heard'
  BY <1>1, <1>2, <1>3, <1>4 DEF RInv, Heard
<1>6. Withdrawn'
  <2>1. CASE removed' \subseteq removed
    BY <1>2, <2>1 DEF RInv, Withdrawn, On, Of
  <2>2. CASE \E d \in Universe : Delete(d)
    <3>1. PICK d \in Universe : d.kind = "deletion" /\ net' = net \cup {d}
                                /\ removed' = removed \cup {d.of}
      BY <2>2 DEF Delete
    <3>2. d \in On({"deletion"}, {d.of}, net')
      BY <3>1 DEF On, Of
    <3> QED BY <1>2, <3>1, <3>2 DEF RInv, Withdrawn, On, Of
  <2>3. removed' \subseteq removed \/ \E d \in Universe : Delete(d)
    BY DEF Next, Mount, Tick, Remount, Fire, Deliver, Publish, Post, vars, client
  <2> QED BY <2>1, <2>2, <2>3
<1>7. Passes'
  BY <1>1 DEF RInv, Passes, Awaits
<1>8. Retractions'
  BY <1>1 DEF RInv, Retractions, Covered, Subject
<1> QED BY <1>1, <1>5, <1>6, <1>7, <1>8

LEMMA ReadInv == Spec => []RInv
<1>1. Init => RInv
  <2> SUFFICES ASSUME Init PROVE RInv
    OBVIOUS
  <2>1. /\ server.read = {} /\ server.attests = {}
        /\ server.await = {} \/ (server.phase = "first" /\ server.await = Awaits("first"))
        /\ server.phase \in {"first", "resolve"}
    BY DEF Init, NewSnapshot
  <2>2. Heard /\ Withdrawn
    BY <2>1 DEF Init, Heard, Withdrawn
  <2>3. Passes /\ Retractions
    BY <2>1 DEF Passes, Retractions
  <2> QED BY <2>2, <2>3, InitInv DEF RInv
<1>2. RInv /\ [Next]_vars => RInv'
  <2> SUFFICES ASSUME RInv, [Next]_vars PROVE RInv'
    OBVIOUS
  <2>1. IInv'
    BY NextInv DEF RInv
  <2>2. Heard' /\ Withdrawn' /\ Passes' /\ Retractions'
    <3>1. CASE Serve
      BY <3>1, ResolveKeeps, QueryKeeps, NextPassKeeps DEF Serve
    <3>2. CASE ~Serve
      BY <3>2, PageKeeps
    <3> QED BY <3>1, <3>2
  <2> QED BY <2>1, <2>2 DEF RInv
<1> QED BY <1>1, <1>2, PTL DEF Spec

-----------------------------------------------------------------------------
\* In whatever order the snapshot's queries are answered and whatever is published
\* meanwhile: what was retracted before the page was asked for is never shown,
\* unless a read was lost.
THEOREM RetractedStaysHidden == Spec => []RetractionHolds
<1>1. RInv => RetractionHolds
  <2> SUFFICES ASSUME RInv, page.mounted, ~lost,
                      NEW d \in Of({"deletion"}, Published), NEW e \in server.read,
                      e.id = d.of, Subject(e)
               PROVE  e \notin Shown
    BY DEF RetractionHolds
  <2>1. server.phase = "done" /\ server.await = {}
    BY DEF RInv, IInv, Settled
  <2>2. Covered(Asked) /\ Covered({"vote"})
    BY <2>1 DEF RInv, Retractions
  <2>3. CASE e.kind \in Content
    <3>1. d \in server.read
      BY <2>2, <2>3 DEF Covered, Of, Asked, Content
    <3>2. d.of \in Deleted
      BY <3>1 DEF Deleted, Pool, Of
    <3> QED BY <3>2 DEF Shown
  <2>4. CASE e.kind \notin Content
    BY <2>4 DEF Shown, Of
  <2> QED BY <2>3, <2>4
<1> QED BY <1>1, ReadInv, PTL

\* The badge is over a version that an attestation on the relays pins, whatever
\* is edited between the reads and after them.
THEOREM BadgesAreEarned == Spec => []BadgeIsEarned
<1>1. RInv => BadgeIsEarned
  BY DEF RInv, Heard, BadgeIsEarned, Badge, Attested, On, Of
<1> QED BY <1>1, ReadInv, PTL

\* A reply leaves the thread by a retraction, its own or of a reply it hangs
\* under: never because it arrived twice, or because deliveries have begun.
THEOREM RepliesAreKept == Spec => ThreadKeepsItsReplies
<1> DEFINE Keeping == (page.mounted /\ ~Remount) =>
             \A r \in Thread \ Thread' :
               \E e \in Over(r, Of({"reply"}, net)) : On({"deletion"}, {e.id}, net') # {}
<1>1. RInv /\ RInv' /\ [Next]_vars => [Keeping]_vars
  <2> SUFFICES ASSUME RInv, RInv', [Next]_vars, page.mounted, ~Remount,
                      NEW r \in Thread \ Thread'
               PROVE  \E e \in Over(r, Of({"reply"}, net)) : On({"deletion"}, {e.id}, net') # {}
    OBVIOUS
  <2> DEFINE rs == {x \in Of({"reply"}, Shown) \cup {p \in posted : p.id \notin Deleted} :
                      x.id \notin removed}
             ss == {x \in Of({"reply"}, Shown') \cup {p \in posted' : p.id \notin Deleted'} :
                      x.id \notin removed'}
  <2>1. ~Serve
    BY DEF RInv, IInv, Settled, Serve, Resolve, Query, NextPass
  <2>2. UNCHANGED <<server, link>>
    BY <2>1, PageKeeps
  <2>3. live \subseteq live' /\ posted \subseteq posted'
    BY <2>1 DEF Next, Mount, Tick, Fire, Deliver, Publish, Post, Delete, vars, client
  <2>4. Thread = Under(server.idea, rs) /\ Thread' = Under(server.idea, ss)
    BY <2>2 DEF Thread
  <2>5. rs \subseteq Of({"reply"}, net)
    <3>1. Pool \subseteq net
      BY DEF RInv, Heard, Pool
    <3>2. posted \subseteq Of({"reply"}, net)
      BY UniverseAssumption DEF RInv, IInv, TypeOK, Heard, Of
    <3> QED BY <3>1, <3>2 DEF Shown, Of
  <2>6. PICK u \in rs \ ss : r \in Under(u.id, rs) \cup {u}
    <3> HIDE DEF rs, ss
    <3> QED BY <2>4, UnderLost
  <2>7. u \in Over(r, Of({"reply"}, net))
    <3>1. Under(u.id, rs) \subseteq Under(u.id, Of({"reply"}, net))
      <4> HIDE DEF rs
      <4> QED BY <2>5, UnderGrows
    <3> QED BY <2>5, <2>6, <3>1 DEF Over
  <2>8. Pool \subseteq Pool' /\ Pool' \subseteq net'
    BY <2>2, <2>3 DEF RInv, Heard, Pool
  <2>9. u.id \in Deleted' \/ u.id \in removed'
    BY <2>3, <2>6, <2>8 DEF Shown, Of, Content
  <2>10. On({"deletion"}, {u.id}, net') # {}
    <3>1. CASE u.id \in Deleted'
      BY <2>8, <3>1 DEF Deleted, On, Of
    <3>2. CASE u.id \in removed'
      BY <3>2 DEF RInv, Withdrawn
    <3> QED BY <2>9, <3>1, <3>2
  <2> QED BY <2>7, <2>10
<1> QED BY <1>1, ReadInv, PTL DEF Spec, ThreadKeepsItsReplies
=============================================================================
