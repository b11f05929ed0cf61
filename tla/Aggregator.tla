----------------------------- MODULE Aggregator -----------------------------
(***************************************************************************)
(* The indexer's Durable Object of one board                               *)
(* (apps/indexer/src/board-aggregator.ts): it keeps outbound sockets to    *)
(* the board's relays, subscribes on each to the board and to the votes on *)
(* its ideas, and stores what arrives.                                     *)
(*                                                                         *)
(* Two kinds of handlers connect relays: track calls and the keep-alive    *)
(* alarm. Both await a fetch per relay, and there the other handlers, the  *)
(* relays' messages and the sockets' close events get in. One action is    *)
(* one turn of the event loop, from an await to the next. The meta and     *)
(* events tables survive an eviction; the sockets and voteSubKey do not.   *)
(***************************************************************************)
EXTENDS Integers, FiniteSets

CONSTANTS
  Relays,      \* relays a track call may name
  Cap,         \* most relays of one call (trackSchema)
  Ceiling,     \* most sockets the platform lets an object hold
  Tracks,      \* callers of track
  Overlaps,    \* which schedules to consider: handlers overlap (TRUE) or not (FALSE)
  Lists,       \* the relay lists callers send
  Sockets,     \* bound of the model: sockets open at once
  MaxFaults,   \* bound of the model: dropped sockets, failed dials, evictions
  Ideas,       \* top-level kind-1111 events of the board
  Replies,     \* the other kind-1111 events
  Labels,      \* its labels, approvals and definition
  Votes,       \* kind-7 events
  Deletions,   \* kind-5 events
  Target,      \* Target[v]: the idea or reply that v votes on
  NoRelay, NoSocket

Comments == Ideas \cup Replies
Events   == Comments \cup Labels \cup Votes \cup Deletions
Handlers == Tracks \cup {"alarm"}

ASSUME KindsAssumption ==
  /\ Target \in [Votes -> Comments]
  /\ Ideas \cap (Replies \cup Labels \cup Votes \cup Deletions) = {}
  /\ Replies \cap (Labels \cup Votes \cup Deletions) = {}
  /\ (Labels \cup Deletions) \cap Votes = {} /\ Labels \cap Deletions = {}
ASSUME ListsAssumption ==
  Lists \subseteq {l \in SUBSET Relays : l # {} /\ IsFiniteSet(l) /\ Cardinality(l) <= Cap}
ASSUME NamesAssumption ==
  NoRelay \notin Relays /\ NoSocket \notin Sockets /\ "alarm" \notin Tracks /\ Overlaps \subseteq BOOLEAN
ASSUME BoundsAssumption == Cap \in Nat /\ Ceiling \in Nat /\ MaxFaults \in Nat

VARIABLES
  overlap,     \* may a handler start while another one awaits (never changes)
  configured,  \* meta "relays": the last tracked list, {} if never tracked
  stored,      \* the events table
  alarm,       \* is the alarm scheduled, or its handler running
  sockets,     \* the map from relay to its socket
  voteSubKey,  \* the idea ids ensureVoteSub last subscribed to
  dialing,     \* the relay whose fetch a handler awaits, NoRelay when it is idle
  todo,        \* the rest of its list
  conn,        \* every socket, also those the map forgot
  held,        \* held[r]: the events relay r holds
  faults       \* the environment's faults so far

meta  == <<configured, stored, alarm>>
local == <<sockets, voteSubKey, dialing, todo>>
vars  == <<overlap, meta, local, conn, held, faults>>

-----------------------------------------------------------------------------
(* Sockets and subscriptions.                                              *)

Free == [relay |-> NoRelay, votes |-> {}, state |-> "free"]

StoredIdeas == stored \cap Ideas

\* Mutant of Connected: a new socket waits for the next idea to ask for votes.
ConnectedBlind(r) == [relay |-> r, votes |-> {}, state |-> "open"]

\* A socket just connected: it asks for the board, and for the votes on every
\* idea stored by now.
Connected(r) == [relay |-> r, votes |-> StoredIdeas, state |-> "open"]

\* What a socket's subscriptions ask its relay for.
Matching(c) == Comments \cup Labels \cup {v \in Votes : Target[v] \in c.votes}

Registered(map, s) == \E r \in Relays : map[r] = s

\* ensureVoteSub over the sockets of the map: one that is closing cannot send.
EnsureVoteSub(map, conns, ids) ==
  IF ids \in {{}, voteSubKey}
  THEN conn' = conns /\ UNCHANGED voteSubKey
  ELSE /\ conn' = [s \in Sockets |-> IF Registered(map, s) /\ conns[s].state = "open"
                                     THEN [conns[s] EXCEPT !.votes = ids] ELSE conns[s]]
       /\ voteSubKey' = ids

-----------------------------------------------------------------------------
(* ensureConnections, from one await to the next: relays the map has a     *)
(* socket for are skipped. At the end of its list a handler schedules the  *)
(* alarm, and the alarm's own also refreshes the vote subscription.        *)

Busy == {p \in Handlers : dialing[p] # NoRelay}

Starts(p) == p \notin Busy /\ (overlap \/ Busy = {})

\* Mutant of Missing: a relay that is connected is dialed again.
MissingAll(rest, map) == rest

Missing(rest, map) == {r \in rest : map[r] = NoSocket}

Dial(p, rest, map, conns) ==
  /\ \E r \in Missing(rest, map), skipped \in SUBSET (rest \ Missing(rest, map)) :
       /\ dialing' = [dialing EXCEPT ![p] = r]
       /\ todo'    = [todo EXCEPT ![p] = rest \ (skipped \cup {r})]
  /\ conn' = conns
  /\ UNCHANGED <<alarm, voteSubKey>>

Return(p, rest, map, conns) ==
  /\ Missing(rest, map) = {}
  /\ IF p = "alarm" THEN EnsureVoteSub(map, conns, StoredIdeas)
                    ELSE conn' = conns /\ UNCHANGED voteSubKey
  /\ alarm'   = TRUE
  /\ dialing' = [dialing EXCEPT ![p] = NoRelay]
  /\ todo'    = [todo EXCEPT ![p] = {}]

EnsureConnections(p, rest, map, conns) ==
  Dial(p, rest, map, conns) \/ Return(p, rest, map, conns)

-----------------------------------------------------------------------------
(* The handlers.                                                           *)

\* POST /v1/track: the list replaces the stored one.
Track(p) ==
  /\ Starts(p)
  /\ \E list \in Lists :
       /\ configured' = list
       /\ EnsureConnections(p, list, sockets, conn)
  /\ UNCHANGED <<overlap, stored, sockets, held, faults>>

AlarmFires ==
  /\ Starts("alarm")
  /\ alarm
  /\ EnsureConnections("alarm", configured, sockets, conn)
  /\ UNCHANGED <<overlap, configured, stored, sockets, held, faults>>

\* The name of a new socket: which one is of no consequence.
Fresh == CHOOSE s \in Sockets : conn[s] = Free

\* The fetch a handler awaits gives a socket: it takes the relay's place in the
\* map, whatever is there.
Connect(p) ==
  /\ dialing[p] # NoRelay
  /\ \E s \in Sockets :
       /\ conn[s] = Free /\ s = Fresh
       /\ LET r   == dialing[p]
              map == [sockets EXCEPT ![r] = s]
          IN /\ sockets' = map
             /\ EnsureConnections(p, todo[p], map, [conn EXCEPT ![s] = Connected(r)])
  /\ UNCHANGED <<overlap, configured, stored, held, faults>>

\* It fails, or gives no socket: the error is logged and the next relay tried.
ConnectFails(p) ==
  /\ dialing[p] # NoRelay
  /\ faults < MaxFaults
  /\ faults' = faults + 1
  /\ EnsureConnections(p, todo[p], sockets, conn)
  /\ UNCHANGED <<overlap, configured, stored, sockets, held>>

\* An event arrives and is stored, and a comment refreshes the vote subscription.
\* One that is stored already changes nothing.
Deliver(s, e) ==
  /\ conn[s].state = "open"
  /\ e \in held[conn[s].relay] \cap Matching(conn[s])
  /\ e \notin stored
  /\ stored' = stored \cup {e}
  /\ IF e \in Comments THEN EnsureVoteSub(sockets, conn, StoredIdeas')
                       ELSE UNCHANGED <<conn, voteSubKey>>
  /\ UNCHANGED <<overlap, configured, alarm, sockets, dialing, todo, held, faults>>

\* The relay has sent what it held of the board subscription.
EndOfStored(s) ==
  /\ conn[s].state = "open"
  /\ EnsureVoteSub(sockets, conn, StoredIdeas)
  /\ UNCHANGED <<overlap, meta, sockets, dialing, todo, held, faults>>

\* Mutants of CloseEvent: the listener does not forget its socket, or forgets
\* whichever socket took its place.
CloseEventKeeps(s) ==
  /\ conn[s].state = "closing"
  /\ conn' = [conn EXCEPT ![s] = Free]
  /\ UNCHANGED <<overlap, meta, local, held, faults>>

CloseEventOfAny(s) ==
  /\ conn[s].state = "closing"
  /\ conn' = [conn EXCEPT ![s] = Free]
  /\ sockets' = [sockets EXCEPT ![conn[s].relay] = NoSocket]
  /\ UNCHANGED <<overlap, meta, voteSubKey, dialing, todo, held, faults>>

\* The close or error listener: it forgets its own socket only.
CloseEvent(s) ==
  /\ conn[s].state = "closing"
  /\ conn' = [conn EXCEPT ![s] = Free]
  /\ sockets' = [r \in Relays |-> IF sockets[r] = s THEN NoSocket ELSE sockets[r]]
  /\ UNCHANGED <<overlap, meta, voteSubKey, dialing, todo, held, faults>>

-----------------------------------------------------------------------------
(* The environment.                                                        *)

\* A socket breaks: sends throw from now on, its close event is yet to come.
Break(s) ==
  /\ conn[s].state = "open"
  /\ faults < MaxFaults
  /\ faults' = faults + 1
  /\ conn' = [conn EXCEPT ![s].state = "closing"]
  /\ UNCHANGED <<overlap, meta, local, held>>

\* The object is evicted or crashes. The platform runs an alarm again whose
\* handler did not finish, but not a call.
Evict ==
  /\ Busy # {} \/ \E s \in Sockets : conn[s] # Free
  /\ faults < MaxFaults
  /\ faults'     = faults + 1
  /\ sockets'    = [r \in Relays |-> NoSocket]
  /\ voteSubKey' = {}
  /\ dialing'    = [p \in Handlers |-> NoRelay]
  /\ todo'       = [p \in Handlers |-> {}]
  /\ conn'       = [s \in Sockets |-> Free]
  /\ UNCHANGED <<overlap, meta, held>>

\* Somebody publishes an event to some of the relays.
Publish(e) ==
  /\ \A r \in Relays : e \notin held[r]
  /\ \E rs \in SUBSET Relays \ {{}} :
       held' = [r \in Relays |-> IF r \in rs THEN held[r] \cup {e} ELSE held[r]]
  /\ UNCHANGED <<overlap, meta, local, conn, faults>>

-----------------------------------------------------------------------------
Init ==
  /\ overlap    \in Overlaps
  /\ configured = {}
  /\ stored     = {}
  /\ alarm      = FALSE
  /\ sockets    = [r \in Relays |-> NoSocket]
  /\ voteSubKey = {}
  /\ dialing    = [p \in Handlers |-> NoRelay]
  /\ todo       = [p \in Handlers |-> {}]
  /\ conn       = [s \in Sockets |-> Free]
  /\ held       = [r \in Relays |-> {}]
  /\ faults     = 0

Next ==
  \/ \E p \in Tracks : Track(p)
  \/ AlarmFires
  \/ \E p \in Handlers : Connect(p) \/ ConnectFails(p)
  \/ \E s \in Sockets : EndOfStored(s) \/ CloseEvent(s) \/ Break(s)
  \/ \E s \in Sockets, e \in Events : Deliver(s, e)
  \/ Evict
  \/ \E e \in Events : Publish(e)

Spec == Init /\ [][Next]_vars

\* The alarm fires when it is due, a fetch settles, a broken socket's close
\* event comes, and a relay sends what a subscription on an open socket asks
\* for. Nobody has to track a board or to publish.
Fairness ==
  /\ WF_vars(AlarmFires)
  /\ \A p \in Handlers : WF_vars(Connect(p) \/ ConnectFails(p))
  /\ \A s \in Sockets : WF_vars(CloseEvent(s))
  /\ \A s \in Sockets, e \in Events : WF_vars(Deliver(s, e))

FairSpec == Spec /\ Fairness

-----------------------------------------------------------------------------
(* Properties.                                                             *)

Socket == [relay : Relays \cup {NoRelay}, votes : SUBSET Ideas, state : {"free", "open", "closing"}]

TypeOK ==
  /\ overlap    \in BOOLEAN
  /\ configured \in SUBSET Relays
  /\ stored     \in SUBSET Events
  /\ alarm      \in BOOLEAN
  /\ sockets    \in [Relays -> Sockets \cup {NoSocket}]
  /\ voteSubKey \in SUBSET Ideas
  /\ dialing    \in [Handlers -> Relays \cup {NoRelay}]
  /\ todo       \in [Handlers -> SUBSET Relays]
  /\ conn       \in [Sockets -> Socket]
  /\ held       \in [Relays -> SUBSET Events]
  /\ faults     \in 0..MaxFaults

\* No idea's votes are missed: every live socket of the map asks for the votes
\* on every stored idea, whatever connected, arrived, broke or was evicted in
\* between, though a refresh is skipped whenever voteSubKey says it is not
\* needed.
VoteSubCoversIdeas ==
  \A r \in Relays :
    (sockets[r] # NoSocket /\ conn[sockets[r]].state = "open") =>
      conn[sockets[r]].votes = StoredIdeas

\* Two handlers may dial one relay; the late close event of the socket that
\* lost its place never makes the object forget the one that took it.
ForgetsOnlyTheDead ==
  [][\A r \in Relays :
       (sockets[r] # NoSocket /\ sockets'[r] = NoSocket) => conn'[sockets[r]] = Free]_vars

\* As long as handlers do not overlap, reconnecting never opens a second socket
\* to a relay.
OneSocketPerRelay ==
  ~overlap => \A s, t \in Sockets : (conn[s] # Free /\ conn[s].relay = conn[t].relay) => s = t

\* Events the documentation wants ingested once their targets are known.
Subscribable(e) == e \in Comments \cup Labels \/ (e \in Votes /\ Target[e] \in StoredIdeas)

Reachable(r, e) == alarm /\ r \in configured /\ e \in held[r]

Ingested(r, e) == e \in stored \/ r \notin configured

\* Once a track call was answered the board stays live: every comment, label
\* and vote on a stored idea that a tracked relay holds is stored in the end,
\* through dropped sockets, failed dials and evictions.
StaysLive ==
  \A r \in Relays, e \in Events : Reachable(r, e) /\ Subscribable(e) ~> Ingested(r, e)

\* index.ts: lists are capped so that an object's sockets stay under the
\* platform's ceiling.
ConnectionCeiling == Cardinality({s \in Sockets : conn[s] # Free}) <= Ceiling
=============================================================================
