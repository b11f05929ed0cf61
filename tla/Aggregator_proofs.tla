-------------------------- MODULE Aggregator_proofs --------------------------
(***************************************************************************)
(* Proofs about Aggregator, for every set of relays, sockets and events,   *)
(* any number of track callers, and however handlers overlap.              *)
(*                                                                         *)
(* VoteSubCoversIdeas is not inductive: ensureVoteSub skips its refresh    *)
(* when voteSubKey equals the idea ids, which is only right because the    *)
(* key never runs ahead of the events table (KeyIsStored), and a dial may  *)
(* reuse a socket, which must not be one the map still holds (MapIsSound). *)
(*                                                                         *)
(* OneSocketPerRelay and ForgetsOnlyTheDead rest on OInv: while handlers   *)
(* do not overlap every socket is the one the map holds for its relay, as  *)
(* a relay is dialed only while the map has none for it.                   *)
(***************************************************************************)
EXTENDS Aggregator, TLAPS

\* The map points at sockets of the right relay that are not free.
Sound(map, cs) ==
  \A r \in Relays : map[r] # NoSocket => cs[map[r]].relay = r /\ cs[map[r]].state # "free"

\* Its open sockets ask for the votes on exactly these ideas.
Covers(map, cs, ids) ==
  \A r \in Relays : (map[r] # NoSocket /\ cs[map[r]].state = "open") => cs[map[r]].votes = ids

MapIsSound  == Sound(sockets, conn)
KeyIsStored == voteSubKey \subseteq StoredIdeas

IInv == TypeOK /\ MapIsSound /\ KeyIsStored /\ VoteSubCoversIdeas

-----------------------------------------------------------------------------
\* ensureVoteSub leaves every open socket of the map on "ids", if it already
\* was or if the refresh is not skipped.
LEMMA EnsureVoteSubCovers ==
  ASSUME NEW map \in [Relays -> Sockets \cup {NoSocket}],
         NEW cs \in [Sockets -> Socket],
         NEW ids \in SUBSET Ideas,
         voteSubKey \in SUBSET Ideas,
         Sound(map, cs),
         Covers(map, cs, ids) \/ ids \notin {{}, voteSubKey},
         EnsureVoteSub(map, cs, ids)
  PROVE  /\ conn' \in [Sockets -> Socket]
         /\ voteSubKey' \in {voteSubKey, ids}
         /\ Sound(map, conn')
         /\ Covers(map, conn', ids)
<1>1. CASE ids \in {{}, voteSubKey}
  BY <1>1 DEF EnsureVoteSub
<1>2. CASE ids \notin {{}, voteSubKey}
  <2>1. /\ voteSubKey' = ids
        /\ conn' = [s \in Sockets |-> IF Registered(map, s) /\ cs[s].state = "open"
                                      THEN [cs[s] EXCEPT !.votes = ids] ELSE cs[s]]
    BY <1>2 DEF EnsureVoteSub
  <2>2. ASSUME NEW s \in Sockets
        PROVE  /\ conn'[s] \in Socket
               /\ conn'[s].relay = cs[s].relay /\ conn'[s].state = cs[s].state
               /\ Registered(map, s) /\ cs[s].state = "open" => conn'[s].votes = ids
    BY <2>1 DEF Socket
  <2>3. conn' \in [Sockets -> Socket]
    BY <2>1, <2>2
  <2>4. ASSUME NEW r \in Relays, map[r] # NoSocket
        PROVE  map[r] \in Sockets /\ Registered(map, map[r])
    BY <2>4 DEF Registered
  <2>5. Sound(map, conn')
    BY <2>2, <2>4 DEF Sound
  <2>6. Covers(map, conn', ids)
    BY <2>2, <2>4 DEF Covers
  <2>7. QED
    BY <2>1, <2>3, <2>5, <2>6
<1>3. QED
  BY <1>1, <1>2

\* A turn of ensureConnections, dialing or returning, keeps the sockets typed,
\* sound and covering, and its own variables typed.
LEMMA EnsureConnectionsCovers ==
  ASSUME TypeOK, KeyIsStored,
         NEW p \in Handlers, NEW rest \in SUBSET Relays,
         NEW map \in [Relays -> Sockets \cup {NoSocket}],
         NEW cs \in [Sockets -> Socket],
         Sound(map, cs),
         Covers(map, cs, StoredIdeas),
         EnsureConnections(p, rest, map, cs)
  PROVE  /\ alarm' \in BOOLEAN
         /\ dialing' \in [Handlers -> Relays \cup {NoRelay}]
         /\ todo' \in [Handlers -> SUBSET Relays]
         /\ conn' \in [Sockets -> Socket]
         /\ voteSubKey' \in {voteSubKey, StoredIdeas}
         /\ Sound(map, conn')
         /\ Covers(map, conn', StoredIdeas)
<1>1. StoredIdeas \in SUBSET Ideas /\ voteSubKey \in SUBSET Ideas
  BY DEF StoredIdeas, TypeOK
<1>2. CASE Dial(p, rest, map, cs)
  <2>1. conn' = cs /\ voteSubKey' = voteSubKey /\ alarm' = alarm
    BY <1>2 DEF Dial
  <2>2. PICK r \in Missing(rest, map), skipped \in SUBSET (rest \ Missing(rest, map)) :
          /\ dialing' = [dialing EXCEPT ![p] = r]
          /\ todo'    = [todo EXCEPT ![p] = rest \ (skipped \cup {r})]
    BY <1>2 DEF Dial
  <2>3. r \in Relays
    BY DEF Missing
  <2>4. QED
    BY <2>1, <2>2, <2>3 DEF TypeOK
<1>3. CASE Return(p, rest, map, cs)
  <2>1. /\ alarm' = TRUE
        /\ dialing' = [dialing EXCEPT ![p] = NoRelay]
        /\ todo' = [todo EXCEPT ![p] = {}]
    BY <1>3 DEF Return
  <2>2. CASE p = "alarm"
    <3>1. EnsureVoteSub(map, cs, StoredIdeas)
      BY <1>3, <2>2 DEF Return
    <3>2. QED
      BY <3>1, <2>1, <1>1, EnsureVoteSubCovers DEF TypeOK
  <2>3. CASE p # "alarm"
    <3>1. conn' = cs /\ voteSubKey' = voteSubKey
      BY <1>3, <2>3 DEF Return
    <3>2. QED
      BY <3>1, <2>1 DEF TypeOK
  <2>4. QED
    BY <2>2, <2>3
<1>4. QED
  BY <1>2, <1>3 DEF EnsureConnections

-----------------------------------------------------------------------------
LEMMA InitIInv == Init => IInv
<1> SUFFICES ASSUME Init PROVE IInv
  OBVIOUS
<1>2. TypeOK
  <2>1. Free \in Socket
    BY DEF Free, Socket
  <2>2. faults \in 0..MaxFaults
    BY BoundsAssumption DEF Init
  <2>3. overlap \in BOOLEAN
    BY NamesAssumption DEF Init
  <2>4. QED
    BY <2>1, <2>2, <2>3 DEF Init, TypeOK
<1>3. MapIsSound /\ VoteSubCoversIdeas
  BY DEF Init, MapIsSound, Sound, VoteSubCoversIdeas
<1>4. KeyIsStored
  BY DEF Init, KeyIsStored
<1>5. QED
  BY <1>2, <1>3, <1>4 DEF IInv

\* What is left to show of a turn of ensureConnections after the lemma above.
LEMMA TurnKeepsIInv ==
  ASSUME IInv, NEW p \in Handlers, NEW rest \in SUBSET Relays,
         NEW cs \in [Sockets -> Socket],
         sockets' \in [Relays -> Sockets \cup {NoSocket}],
         Sound(sockets', cs),
         Covers(sockets', cs, StoredIdeas),
         EnsureConnections(p, rest, sockets', cs),
         configured' \in SUBSET Relays, stored' = stored,
         held' = held, faults' \in 0..MaxFaults, overlap' = overlap
  PROVE  IInv'
<1>1. TypeOK /\ KeyIsStored
  BY DEF IInv
<1>2. /\ alarm' \in BOOLEAN
      /\ dialing' \in [Handlers -> Relays \cup {NoRelay}]
      /\ todo' \in [Handlers -> SUBSET Relays]
      /\ conn' \in [Sockets -> Socket]
      /\ voteSubKey' \in {voteSubKey, StoredIdeas}
      /\ Sound(sockets', conn')
      /\ Covers(sockets', conn', StoredIdeas)
  BY <1>1, EnsureConnectionsCovers
<1>3. StoredIdeas' = StoredIdeas
  BY DEF StoredIdeas
<1>4. TypeOK'
  BY <1>1, <1>2 DEF TypeOK, StoredIdeas
<1>5. MapIsSound' /\ VoteSubCoversIdeas'
  BY <1>2, <1>3 DEF MapIsSound, Sound, Covers, VoteSubCoversIdeas
<1>6. KeyIsStored'
  BY <1>1, <1>2, <1>3 DEF KeyIsStored
<1>7. QED
  BY <1>4, <1>5, <1>6 DEF IInv

LEMMA NextIInv == IInv /\ [Next]_vars => IInv'
<1>0. SUFFICES ASSUME IInv, [Next]_vars PROVE IInv'
  OBVIOUS
<1> USE DEF meta, local
<1>t. TypeOK /\ MapIsSound /\ KeyIsStored /\ VoteSubCoversIdeas
  BY <1>0 DEF IInv
<1>c. Sound(sockets, conn) /\ Covers(sockets, conn, StoredIdeas)
  BY <1>t DEF MapIsSound, VoteSubCoversIdeas, Covers
<1>1. ASSUME NEW p \in Tracks, Track(p) PROVE IInv'
  <2>1. PICK list \in Lists : /\ configured' = list
                              /\ EnsureConnections(p, list, sockets, conn)
    BY <1>1 DEF Track
  <2>2. list \in SUBSET Relays /\ p \in Handlers
    BY ListsAssumption DEF Handlers
  <2>3. /\ sockets' = sockets /\ stored' = stored /\ held' = held /\ faults' = faults
        /\ overlap' = overlap
    BY <1>1 DEF Track
  <2>4. /\ sockets \in [Relays -> Sockets \cup {NoSocket}]
        /\ conn \in [Sockets -> Socket] /\ faults \in 0..MaxFaults
    BY <1>t DEF TypeOK
  <2>5. QED
    BY <1>0, <1>c, <2>1, <2>2, <2>3, <2>4, TurnKeepsIInv
<1>2. ASSUME AlarmFires PROVE IInv'
  <2>1. /\ EnsureConnections("alarm", configured, sockets, conn)
        /\ sockets' = sockets /\ stored' = stored /\ held' = held /\ faults' = faults
        /\ overlap' = overlap /\ configured' = configured
    BY <1>2 DEF AlarmFires
  <2>2. /\ sockets \in [Relays -> Sockets \cup {NoSocket}] /\ configured \in SUBSET Relays
        /\ conn \in [Sockets -> Socket] /\ faults \in 0..MaxFaults
    BY <1>t DEF TypeOK
  <2>3. QED
    BY <1>0, <1>c, <2>1, <2>2, TurnKeepsIInv DEF Handlers
<1>3. ASSUME NEW p \in Handlers, Connect(p) PROVE IInv'
  <2>1. dialing[p] \in Relays
    BY <1>3, <1>t DEF Connect, TypeOK
  <2>2. PICK s \in Sockets :
          /\ conn[s] = Free
          /\ sockets' = [sockets EXCEPT ![dialing[p]] = s]
          /\ EnsureConnections(p, todo[p], [sockets EXCEPT ![dialing[p]] = s],
                               [conn EXCEPT ![s] = Connected(dialing[p])])
    BY <1>3 DEF Connect
  <2> DEFINE cs == [conn EXCEPT ![s] = Connected(dialing[p])]
  <2>3. Connected(dialing[p]) \in Socket
    BY <2>1 DEF Connected, Socket, StoredIdeas
  <2>4. cs \in [Sockets -> Socket] /\ sockets' \in [Relays -> Sockets \cup {NoSocket}]
    BY <1>t, <2>1, <2>2, <2>3 DEF TypeOK
  <2>5. ASSUME NEW r \in Relays, sockets[r] # NoSocket PROVE sockets[r] \in Sockets \ {s}
    BY <1>t, <2>2, <2>5 DEF MapIsSound, Sound, Free, TypeOK
  <2>6. ASSUME NEW r \in Relays, sockets'[r] # NoSocket
        PROVE  \/ r = dialing[p] /\ cs[sockets'[r]] = Connected(dialing[p])
               \/ sockets'[r] = sockets[r] /\ cs[sockets'[r]] = conn[sockets[r]]
    BY <1>t, <2>1, <2>2, <2>5, <2>6 DEF TypeOK
  <2>7. Sound(sockets', cs)
    BY <1>c, <2>6 DEF Sound, Connected
  <2>8. Covers(sockets', cs, StoredIdeas)
    BY <1>c, <2>6 DEF Covers, Connected
  <2>9. EnsureConnections(p, todo[p], sockets', cs) /\ todo[p] \in SUBSET Relays
    BY <1>t, <2>2 DEF TypeOK
  <2>10. /\ configured' \in SUBSET Relays /\ stored' = stored
         /\ held' = held /\ faults' \in 0..MaxFaults /\ overlap' = overlap
    BY <1>3, <1>t DEF Connect, TypeOK
  <2> HIDE DEF cs
  <2>11. QED
    BY <1>0, <2>4, <2>7, <2>8, <2>9, <2>10, TurnKeepsIInv
<1>4. ASSUME NEW p \in Handlers, ConnectFails(p) PROVE IInv'
  <2>1. /\ EnsureConnections(p, todo[p], sockets, conn) /\ faults' = faults + 1
        /\ faults < MaxFaults
        /\ sockets' = sockets /\ stored' = stored /\ held' = held
        /\ overlap' = overlap /\ configured' = configured
    BY <1>4 DEF ConnectFails
  <2>2. /\ sockets \in [Relays -> Sockets \cup {NoSocket}] /\ configured \in SUBSET Relays
        /\ conn \in [Sockets -> Socket] /\ faults \in 0..MaxFaults /\ todo[p] \in SUBSET Relays
    BY <1>t DEF TypeOK
  <2>3. faults' \in 0..MaxFaults
    BY <2>1, <2>2, BoundsAssumption
  <2>4. QED
    BY <1>0, <1>c, <2>1, <2>2, <2>3, TurnKeepsIInv
<1>5. ASSUME NEW s \in Sockets, NEW e \in Events, Deliver(s, e) PROVE IInv'
  <2>1. /\ stored' = stored \cup {e} /\ e \notin stored
        /\ UNCHANGED <<overlap, configured, alarm, sockets, dialing, todo, held, faults>>
    BY <1>5 DEF Deliver
  <2>2. StoredIdeas' \in SUBSET Ideas /\ StoredIdeas \subseteq StoredIdeas'
    BY <2>1 DEF StoredIdeas
  <2>3. /\ sockets \in [Relays -> Sockets \cup {NoSocket}] /\ conn \in [Sockets -> Socket]
        /\ voteSubKey \in SUBSET Ideas
    BY <1>t DEF TypeOK
  <2>4. /\ conn' \in [Sockets -> Socket]
        /\ voteSubKey' \in {voteSubKey, StoredIdeas'}
        /\ Sound(sockets, conn')
        /\ Covers(sockets, conn', StoredIdeas')
    <3>1. CASE e \in Comments
      <4>1. EnsureVoteSub(sockets, conn, StoredIdeas')
        BY <1>5, <3>1 DEF Deliver
      <4>2. CASE e \in Ideas
        <5>1. e \in StoredIdeas' /\ e \notin voteSubKey
          BY <1>t, <2>1, <4>2 DEF StoredIdeas, KeyIsStored
        <5>2. QED
          BY <1>c, <2>2, <2>3, <4>1, <5>1, EnsureVoteSubCovers
      <4>3. CASE e \notin Ideas
        <5>1. StoredIdeas' = StoredIdeas
          BY <2>1, <4>3 DEF StoredIdeas
        <5>2. QED
          BY <1>c, <2>2, <2>3, <4>1, <5>1, EnsureVoteSubCovers
      <4>4. QED
        BY <4>2, <4>3
    <3>2. CASE e \notin Comments
      <4>1. StoredIdeas' = StoredIdeas
        BY <2>1, <3>2 DEF StoredIdeas, Comments
      <4>2. conn' = conn /\ voteSubKey' = voteSubKey
        BY <1>5, <3>2 DEF Deliver
      <4>3. QED
        BY <1>c, <2>3, <4>1, <4>2
    <3>3. QED
      BY <3>1, <3>2
  <2>5. TypeOK'
    BY <1>t, <2>1, <2>2, <2>4 DEF TypeOK
  <2>6. KeyIsStored'
    BY <1>t, <2>2, <2>4 DEF KeyIsStored
  <2>7. MapIsSound' /\ VoteSubCoversIdeas'
    BY <2>1, <2>4 DEF MapIsSound, Sound, Covers, VoteSubCoversIdeas
  <2>8. QED
    BY <2>5, <2>6, <2>7 DEF IInv
<1>6. ASSUME NEW s \in Sockets, EndOfStored(s) PROVE IInv'
  <2>1. /\ EnsureVoteSub(sockets, conn, StoredIdeas)
        /\ UNCHANGED <<overlap, configured, stored, alarm, sockets, dialing, todo, held, faults>>
    BY <1>6 DEF EndOfStored
  <2>2. /\ sockets \in [Relays -> Sockets \cup {NoSocket}] /\ conn \in [Sockets -> Socket]
        /\ voteSubKey \in SUBSET Ideas /\ StoredIdeas \in SUBSET Ideas
        /\ StoredIdeas' = StoredIdeas
    BY <1>t, <2>1 DEF TypeOK, StoredIdeas
  <2>3. /\ conn' \in [Sockets -> Socket]
        /\ voteSubKey' \in {voteSubKey, StoredIdeas}
        /\ Sound(sockets, conn')
        /\ Covers(sockets, conn', StoredIdeas)
    BY <1>c, <2>1, <2>2, EnsureVoteSubCovers
  <2>4. TypeOK'
    BY <1>t, <2>1, <2>2, <2>3 DEF TypeOK
  <2>5. KeyIsStored' /\ MapIsSound' /\ VoteSubCoversIdeas'
    BY <1>t, <2>1, <2>2, <2>3 DEF KeyIsStored, MapIsSound, Sound, Covers, VoteSubCoversIdeas
  <2>6. QED
    BY <2>4, <2>5 DEF IInv
<1>7. ASSUME NEW s \in Sockets, CloseEvent(s) PROVE IInv'
  <2>1. /\ conn' = [conn EXCEPT ![s] = Free]
        /\ sockets' = [r \in Relays |-> IF sockets[r] = s THEN NoSocket ELSE sockets[r]]
        /\ UNCHANGED <<overlap, configured, stored, alarm, voteSubKey, dialing, todo, held, faults>>
    BY <1>7 DEF CloseEvent
  <2>2. TypeOK'
    BY <1>t, <2>1 DEF TypeOK, Free, Socket
  <2>3. ASSUME NEW r \in Relays, sockets'[r] # NoSocket
        PROVE  sockets'[r] = sockets[r] /\ conn'[sockets[r]] = conn[sockets[r]]
    BY <1>t, <2>1, <2>3 DEF TypeOK
  <2>4. MapIsSound' /\ VoteSubCoversIdeas' /\ KeyIsStored'
    BY <1>t, <2>1, <2>3 DEF MapIsSound, Sound, VoteSubCoversIdeas, KeyIsStored, StoredIdeas
  <2>5. QED
    BY <2>2, <2>4 DEF IInv
<1>8. ASSUME NEW s \in Sockets, Break(s) PROVE IInv'
  <2>1. /\ conn' = [conn EXCEPT ![s].state = "closing"]
        /\ faults' = faults + 1 /\ faults < MaxFaults
        /\ UNCHANGED <<overlap, configured, stored, alarm, sockets, voteSubKey, dialing, todo, held>>
    BY <1>8 DEF Break
  <2>2. TypeOK'
    BY <1>t, <2>1, BoundsAssumption DEF TypeOK, Socket
  <2>3. ASSUME NEW t \in Sockets
        PROVE  /\ conn'[t].relay = conn[t].relay /\ conn'[t].votes = conn[t].votes
               /\ conn'[t].state \in {conn[t].state, "closing"}
    BY <1>t, <2>1 DEF TypeOK, Socket
  <2>4. \A r \in Relays : sockets[r] # NoSocket => sockets[r] \in Sockets
    BY <1>t DEF TypeOK
  <2>5. MapIsSound' /\ VoteSubCoversIdeas' /\ KeyIsStored'
    BY <1>t, <2>1, <2>3, <2>4 DEF MapIsSound, Sound, VoteSubCoversIdeas, KeyIsStored, StoredIdeas
  <2>6. QED
    BY <2>2, <2>5 DEF IInv
<1>9. ASSUME Evict PROVE IInv'
  <2>1. TypeOK'
    BY <1>t, <1>9, BoundsAssumption DEF Evict, TypeOK, Free, Socket
  <2>2. MapIsSound' /\ VoteSubCoversIdeas' /\ KeyIsStored'
    BY <1>9 DEF Evict, MapIsSound, Sound, VoteSubCoversIdeas, KeyIsStored
  <2>3. QED
    BY <2>1, <2>2 DEF IInv
<1>10. ASSUME NEW e \in Events, Publish(e) PROVE IInv'
  <2>1. held' \in [Relays -> SUBSET Events]
    BY <1>t, <1>10 DEF Publish, TypeOK
  <2>2. TypeOK'
    BY <1>t, <1>10, <2>1 DEF Publish, TypeOK
  <2>3. MapIsSound' /\ VoteSubCoversIdeas' /\ KeyIsStored'
    BY <1>t, <1>10 DEF Publish, MapIsSound, Sound, VoteSubCoversIdeas, KeyIsStored, StoredIdeas
  <2>4. QED
    BY <2>2, <2>3 DEF IInv
<1>11. CASE UNCHANGED vars
  BY <1>t, <1>11 DEF vars, IInv, TypeOK, MapIsSound, Sound, VoteSubCoversIdeas, KeyIsStored, StoredIdeas
<1>12. QED
  BY <1>0, <1>1, <1>2, <1>3, <1>4, <1>5, <1>6, <1>7, <1>8, <1>9, <1>10, <1>11 DEF Next

-----------------------------------------------------------------------------
LEMMA IInvHolds == Spec => []IInv
BY InitIInv, NextIInv, PTL DEF Spec

\* The object's state keeps its types: the map holds sockets of the object, and
\* only ideas are ever in a vote subscription.
THEOREM TypeCorrect == Spec => []TypeOK
<1>1. IInv => TypeOK
  BY DEF IInv
<1>2. QED
  BY <1>1, IInvHolds, PTL

\* For every number of relays, callers and events, however handlers overlap and
\* sockets break: a live socket of the map asks for the votes on every idea of
\* the events table.
THEOREM NoIdeaMissesItsVotes == Spec => []VoteSubCoversIdeas
<1>1. IInv => VoteSubCoversIdeas
  BY DEF IInv
<1>2. QED
  BY <1>1, IInvHolds, PTL

-----------------------------------------------------------------------------
(* Handlers that do not overlap: every socket is the one the map holds for *)
(* its relay, since a relay is dialed only while the map has none for it   *)
(* and nothing but that dial can fill its place.                           *)

OneHandler   == ~overlap => \A p, q \in Busy : p = q
DialsMissing == ~overlap => \A p \in Busy : sockets[dialing[p]] = NoSocket
LiveInMap    == ~overlap => \A s \in Sockets :
                  conn[s] # Free => conn[s].relay \in Relays /\ sockets[conn[s].relay] = s

OInv == IInv /\ OneHandler /\ DialsMissing /\ LiveInMap

\* ensureVoteSub changes what sockets ask for, never which sockets there are.
LEMMA EnsureVoteSubKeepsSockets ==
  ASSUME NEW map, NEW cs \in [Sockets -> Socket], NEW ids \in SUBSET Ideas,
         EnsureVoteSub(map, cs, ids)
  PROVE  \A s \in Sockets : conn'[s] = Free <=> cs[s] = Free
<1>1. CASE ids \in {{}, voteSubKey}
  BY <1>1 DEF EnsureVoteSub
<1>2. CASE ids \notin {{}, voteSubKey}
  <2>1. conn' = [s \in Sockets |-> IF Registered(map, s) /\ cs[s].state = "open"
                                   THEN [cs[s] EXCEPT !.votes = ids] ELSE cs[s]]
    BY <1>2 DEF EnsureVoteSub
  <2>2. \A c \in Socket : c.state = "open" => [c EXCEPT !.votes = ids] # Free /\ c # Free
    BY DEF Socket, Free
  <2>3. QED
    BY <2>1, <2>2
<1>3. QED
  BY <1>1, <1>2

LEMMA EnsureVoteSubKeepsRelays ==
  ASSUME NEW map, NEW cs \in [Sockets -> Socket], NEW ids \in SUBSET Ideas,
         EnsureVoteSub(map, cs, ids)
  PROVE  \A s \in Sockets : conn'[s].relay = cs[s].relay
<1>1. \A c \in Socket : [c EXCEPT !.votes = ids].relay = c.relay
  BY DEF Socket
<1>2. QED
  BY <1>1 DEF EnsureVoteSub

\* A turn of ensureConnections leaves its handler idle or dialing a relay that
\* the map has no socket for, and the sockets where they are.
LEMMA EnsureConnectionsDials ==
  ASSUME TypeOK, NEW p \in Handlers, NEW rest \in SUBSET Relays,
         NEW map \in [Relays -> Sockets \cup {NoSocket}],
         NEW cs \in [Sockets -> Socket],
         EnsureConnections(p, rest, map, cs)
  PROVE  /\ \A q \in Handlers \ {p} : dialing'[q] = dialing[q]
         /\ dialing'[p] = NoRelay \/ (dialing'[p] \in Relays /\ map[dialing'[p]] = NoSocket)
         /\ \A s \in Sockets : (conn'[s] = Free <=> cs[s] = Free) /\ conn'[s].relay = cs[s].relay
<1>1. CASE Dial(p, rest, map, cs)
  BY <1>1 DEF Dial, Missing, TypeOK
<1>2. CASE Return(p, rest, map, cs)
  <2>1. dialing' = [dialing EXCEPT ![p] = NoRelay]
    BY <1>2 DEF Return
  <2>2. EnsureVoteSub(map, cs, StoredIdeas) \/ conn' = cs
    BY <1>2 DEF Return
  <2>3. \A s \in Sockets : (conn'[s] = Free <=> cs[s] = Free) /\ conn'[s].relay = cs[s].relay
    <3>1. StoredIdeas \in SUBSET Ideas
      BY DEF StoredIdeas
    <3>2. QED
      BY <2>2, <3>1, EnsureVoteSubKeepsSockets, EnsureVoteSubKeepsRelays
  <2>4. QED
    BY <2>1, <2>3 DEF TypeOK
<1>3. QED
  BY <1>1, <1>2 DEF EnsureConnections

\* A turn after which every socket is in the map keeps the invariant, if the
\* handler that took it is the only one at work.
LEMMA TurnKeepsOne ==
  ASSUME TypeOK, NEW p \in Handlers, NEW rest \in SUBSET Relays,
         sockets' \in [Relays -> Sockets \cup {NoSocket}],
         NEW cs \in [Sockets -> Socket],
         EnsureConnections(p, rest, sockets', cs),
         overlap' = overlap,
         ~overlap => Busy \subseteq {p},
         ~overlap => \A s \in Sockets :
            cs[s] # Free => cs[s].relay \in Relays /\ sockets'[cs[s].relay] = s
  PROVE  OneHandler' /\ DialsMissing' /\ LiveInMap'
<1>1. /\ \A q \in Handlers \ {p} : dialing'[q] = dialing[q]
      /\ dialing'[p] = NoRelay \/ (dialing'[p] \in Relays /\ sockets'[dialing'[p]] = NoSocket)
      /\ \A s \in Sockets : (conn'[s] = Free <=> cs[s] = Free) /\ conn'[s].relay = cs[s].relay
  BY EnsureConnectionsDials
<1>2. ~overlap => Busy' \subseteq {p}
  BY <1>1 DEF Busy
<1>3. OneHandler' /\ DialsMissing'
  BY <1>1, <1>2 DEF OneHandler, DialsMissing, Busy
<1>4. LiveInMap'
  BY <1>1 DEF LiveInMap
<1>5. QED
  BY <1>3, <1>4

LEMMA NextOne == OInv /\ [Next]_vars => OneHandler' /\ DialsMissing' /\ LiveInMap'
<1>0. SUFFICES ASSUME OInv, [Next]_vars PROVE OneHandler' /\ DialsMissing' /\ LiveInMap'
  OBVIOUS
<1> USE DEF meta, local
<1>t. /\ TypeOK /\ MapIsSound
      /\ sockets \in [Relays -> Sockets \cup {NoSocket}] /\ conn \in [Sockets -> Socket]
      /\ configured \in SUBSET Relays /\ StoredIdeas \in SUBSET Ideas
      /\ todo \in [Handlers -> SUBSET Relays]
  BY <1>0 DEF OInv, IInv, TypeOK, StoredIdeas
<1>o. OneHandler /\ DialsMissing /\ LiveInMap
  BY <1>0 DEF OInv
\* Steps of no handler, which free sockets and forget only those.
<1>f. ASSUME overlap' = overlap,
             dialing' = dialing \/ \A p \in Handlers : dialing'[p] = NoRelay,
             \A r \in Relays : sockets'[r] = sockets[r] \/ sockets'[r] = NoSocket,
             \A s \in Sockets : conn'[s] # Free =>
               /\ conn[s] # Free /\ conn'[s].relay = conn[s].relay
               /\ sockets'[conn[s].relay] = sockets[conn[s].relay]
      PROVE  OneHandler' /\ DialsMissing' /\ LiveInMap'
  <2>1. OneHandler' /\ DialsMissing'
    <3>1. \A p \in Busy' : p \in Busy /\ dialing'[p] = dialing[p]
      BY <1>f DEF Busy
    <3>2. \A p \in Busy : dialing[p] \in Relays
      BY <1>t DEF Busy, TypeOK
    <3>3. QED
      BY <1>f, <1>o, <3>1, <3>2 DEF OneHandler, DialsMissing
  <2>2. LiveInMap'
    BY <1>f, <1>o DEF LiveInMap
  <2>3. QED
    BY <2>1, <2>2
<1>1. ASSUME NEW p \in Handlers, NEW list \in SUBSET Relays, Starts(p),
             EnsureConnections(p, list, sockets, conn), UNCHANGED <<overlap, sockets>>
      PROVE  OneHandler' /\ DialsMissing' /\ LiveInMap'
  <2>1. ~overlap => Busy \subseteq {p}
    BY <1>1 DEF Starts
  <2>2. ~overlap => \A s \in Sockets :
           conn[s] # Free => conn[s].relay \in Relays /\ sockets'[conn[s].relay] = s
    BY <1>1, <1>o DEF LiveInMap
  <2>3. QED
    BY <1>1, <1>t, <2>1, <2>2, TurnKeepsOne
<1>2. ASSUME NEW p \in Tracks, Track(p) PROVE OneHandler' /\ DialsMissing' /\ LiveInMap'
  <2>1. PICK list \in Lists : EnsureConnections(p, list, sockets, conn)
    BY <1>2 DEF Track
  <2>2. list \in SUBSET Relays /\ p \in Handlers
    BY ListsAssumption DEF Handlers
  <2>3. QED
    BY <1>1, <1>2, <2>1, <2>2 DEF Track
<1>3. CASE AlarmFires
  BY <1>1, <1>3, <1>t DEF AlarmFires, Handlers
<1>4. ASSUME NEW p \in Handlers, Connect(p) PROVE OneHandler' /\ DialsMissing' /\ LiveInMap'
  <2>1. dialing[p] \in Relays /\ p \in Busy
    BY <1>4, <1>t DEF Connect, TypeOK, Busy
  <2>2. PICK s \in Sockets :
          /\ conn[s] = Free
          /\ sockets' = [sockets EXCEPT ![dialing[p]] = s]
          /\ EnsureConnections(p, todo[p], [sockets EXCEPT ![dialing[p]] = s],
                               [conn EXCEPT ![s] = Connected(dialing[p])])
    BY <1>4 DEF Connect
  <2> DEFINE cs == [conn EXCEPT ![s] = Connected(dialing[p])]
  <2>3. Connected(dialing[p]) \in Socket /\ Connected(dialing[p]).relay = dialing[p]
    BY <1>t, <2>1 DEF Connected, Socket
  <2>4. cs \in [Sockets -> Socket] /\ sockets' \in [Relays -> Sockets \cup {NoSocket}]
    BY <1>t, <2>1, <2>2, <2>3
  <2>5. ~overlap => Busy \subseteq {p}
    BY <1>o, <2>1 DEF OneHandler
  <2>6. ~overlap => \A t \in Sockets :
           cs[t] # Free => cs[t].relay \in Relays /\ sockets'[cs[t].relay] = t
    <3>1. SUFFICES ASSUME ~overlap, NEW t \in Sockets, cs[t] # Free
                   PROVE  cs[t].relay \in Relays /\ sockets'[cs[t].relay] = t
      OBVIOUS
    <3>2. CASE t = s
      <4>1. cs[t] = Connected(dialing[p])
        BY <1>t, <3>2
      <4>2. QED
        BY <1>t, <2>1, <2>2, <2>3, <3>2, <4>1
    <3>3. CASE t # s
      <4>1. cs[t] = conn[t]
        BY <1>t, <3>3
      <4>2. conn[t].relay \in Relays /\ sockets[conn[t].relay] = t
        BY <1>o, <3>1, <4>1 DEF LiveInMap
      <4>3. conn[t].relay # dialing[p]
        BY <1>o, <3>1, <2>1, <4>2, NamesAssumption DEF DialsMissing
      <4>4. QED
        BY <1>t, <2>2, <4>1, <4>2, <4>3
    <3>4. QED
      BY <3>2, <3>3
  <2>7. EnsureConnections(p, todo[p], sockets', cs) /\ todo[p] \in SUBSET Relays
    BY <1>t, <2>2
  <2>8. overlap' = overlap
    BY <1>4 DEF Connect
  <2> HIDE DEF cs
  <2>9. QED
    BY <1>t, <2>4, <2>5, <2>6, <2>7, <2>8, TurnKeepsOne
<1>5. ASSUME NEW p \in Handlers, ConnectFails(p) PROVE OneHandler' /\ DialsMissing' /\ LiveInMap'
  <2>1. /\ EnsureConnections(p, todo[p], sockets, conn)
        /\ UNCHANGED <<overlap, sockets>> /\ p \in Busy
    BY <1>5 DEF ConnectFails, Busy
  <2>2. ~overlap => Busy \subseteq {p}
    BY <1>o, <2>1 DEF OneHandler
  <2>3. ~overlap => \A s \in Sockets :
           conn[s] # Free => conn[s].relay \in Relays /\ sockets'[conn[s].relay] = s
    BY <1>o, <2>1 DEF LiveInMap
  <2>4. todo[p] \in SUBSET Relays
    BY <1>t
  <2>5. QED
    BY <1>t, <2>1, <2>2, <2>3, <2>4, TurnKeepsOne
<1>6. ASSUME NEW ids \in SUBSET Ideas, EnsureVoteSub(sockets, conn, ids) \/ conn' = conn,
             UNCHANGED <<overlap, sockets, dialing>>
      PROVE  OneHandler' /\ DialsMissing' /\ LiveInMap'
  <2>1. \A s \in Sockets : (conn'[s] = Free <=> conn[s] = Free) /\ conn'[s].relay = conn[s].relay
    BY <1>6, <1>t, EnsureVoteSubKeepsSockets, EnsureVoteSubKeepsRelays
  <2>2. QED
    BY <1>6, <1>f, <2>1
<1>7. ASSUME NEW s \in Sockets, NEW e \in Events, Deliver(s, e)
      PROVE  OneHandler' /\ DialsMissing' /\ LiveInMap'
  <2>1. StoredIdeas' \in SUBSET Ideas
    BY DEF StoredIdeas
  <2>2. EnsureVoteSub(sockets, conn, StoredIdeas') \/ conn' = conn
    BY <1>7 DEF Deliver
  <2>3. UNCHANGED <<overlap, sockets, dialing>>
    BY <1>7 DEF Deliver
  <2>4. QED
    BY <1>6, <2>1, <2>2, <2>3
<1>8. ASSUME NEW s \in Sockets, EndOfStored(s) PROVE OneHandler' /\ DialsMissing' /\ LiveInMap'
  BY <1>6, <1>8, <1>t DEF EndOfStored
<1>9. ASSUME NEW s \in Sockets, CloseEvent(s) PROVE OneHandler' /\ DialsMissing' /\ LiveInMap'
  <2>1. /\ conn' = [conn EXCEPT ![s] = Free]
        /\ sockets' = [r \in Relays |-> IF sockets[r] = s THEN NoSocket ELSE sockets[r]]
        /\ UNCHANGED <<overlap, dialing>>
    BY <1>9 DEF CloseEvent
  <2>2. ASSUME ~overlap, NEW t \in Sockets, conn'[t] # Free
        PROVE  conn'[t] = conn[t] /\ conn[t].relay \in Relays /\ sockets'[conn[t].relay] = t
    <3>1. t # s /\ conn'[t] = conn[t]
      BY <1>t, <2>1, <2>2
    <3>2. conn[t].relay \in Relays /\ sockets[conn[t].relay] = t
      BY <1>o, <2>2, <3>1 DEF LiveInMap
    <3>3. QED
      BY <2>1, <3>1, <3>2
  <2>3. LiveInMap'
    BY <2>1, <2>2 DEF LiveInMap
  <2>4. \A p \in Busy : dialing[p] \in Relays
    BY <1>t DEF Busy, TypeOK
  <2>5. OneHandler' /\ DialsMissing'
    BY <1>o, <2>1, <2>4 DEF OneHandler, DialsMissing, Busy
  <2>6. QED
    BY <2>3, <2>5
<1>10. ASSUME NEW s \in Sockets, Break(s) PROVE OneHandler' /\ DialsMissing' /\ LiveInMap'
  <2>1. /\ conn' = [conn EXCEPT ![s].state = "closing"] /\ conn[s].state = "open"
        /\ UNCHANGED <<overlap, sockets, dialing>>
    BY <1>10 DEF Break
  <2>2. conn[s] # Free
    BY <2>1 DEF Free
  <2>3. ASSUME NEW t \in Sockets, conn'[t] # Free
        PROVE  conn[t] # Free /\ conn'[t].relay = conn[t].relay
    BY <1>t, <2>1, <2>2, <2>3 DEF Socket
  <2>4. QED
    BY <1>f, <2>1, <2>3
<1>11. CASE Evict
  <2>1. /\ overlap' = overlap
        /\ dialing' = [p \in Handlers |-> NoRelay] /\ conn' = [s \in Sockets |-> Free]
    BY <1>11 DEF Evict
  <2>2. QED
    BY <2>1 DEF OneHandler, DialsMissing, LiveInMap, Busy
<1>12. CASE (\E e \in Events : Publish(e)) \/ UNCHANGED vars
  <2>1. UNCHANGED <<overlap, sockets, dialing, conn>>
    BY <1>12 DEF Publish, vars
  <2>2. QED
    BY <1>f, <2>1
<1>13. QED
  BY <1>0, <1>2, <1>3, <1>4, <1>5, <1>7, <1>8, <1>9, <1>10, <1>11, <1>12 DEF Next

LEMMA OInvHolds == Spec => []OInv
<1>1. Init => OInv
  BY InitIInv DEF Init, OInv, OneHandler, DialsMissing, LiveInMap, Busy
<1>2. OInv /\ [Next]_vars => OInv'
  BY NextIInv, NextOne DEF OInv
<1>3. QED
  BY <1>1, <1>2, PTL DEF Spec

\* As long as track calls and the alarm do not overlap, ensureConnections opens
\* no second socket to a relay, whatever breaks, fails or is evicted.
THEOREM OneSocketEach == Spec => []OneSocketPerRelay
<1>1. OInv => OneSocketPerRelay
  <2>1. ASSUME OInv, ~overlap, NEW s \in Sockets, NEW t \in Sockets,
               conn[s] # Free, conn[s].relay = conn[t].relay
        PROVE  s = t
    <3>1. conn[t] # Free
      BY <2>1, NamesAssumption DEF OInv, LiveInMap, Free
    <3>2. QED
      BY <2>1, <3>1 DEF OInv, LiveInMap
  <2>2. QED
    BY <2>1 DEF OneSocketPerRelay
<1>2. QED
  BY <1>1, OInvHolds, PTL

\* However handlers overlap, the map loses a socket only when that socket is
\* gone: the late close event of a replaced socket leaves its successor alone.
THEOREM SuccessorsAreKept == Spec => ForgetsOnlyTheDead
<1>1. IInv /\ [Next]_vars =>
        [\A r \in Relays :
           (sockets[r] # NoSocket /\ sockets'[r] = NoSocket) => conn'[sockets[r]] = Free]_vars
  <2>1. SUFFICES ASSUME IInv, Next, NEW r \in Relays, sockets[r] # NoSocket, sockets'[r] = NoSocket
                 PROVE  conn'[sockets[r]] = Free
    OBVIOUS
  <2>2. sockets[r] \in Sockets /\ TypeOK
    BY <2>1 DEF IInv, TypeOK
  <2>3. CASE Evict
    BY <2>2, <2>3 DEF Evict
  <2>4. ASSUME NEW s \in Sockets, CloseEvent(s) PROVE conn'[sockets[r]] = Free
    BY <2>1, <2>2, <2>4 DEF CloseEvent, TypeOK
  <2>5. ASSUME NEW p \in Handlers, Connect(p) PROVE FALSE
    <3>1. PICK s \in Sockets : sockets' = [sockets EXCEPT ![dialing[p]] = s]
      BY <2>5 DEF Connect
    <3>2. QED
      BY <2>1, <2>2, <3>1, NamesAssumption DEF TypeOK
  <2>6. sockets' = sockets \/ Evict \/ (\E s \in Sockets : CloseEvent(s)) \/ (\E p \in Handlers : Connect(p))
    BY <2>1 DEF Next, Track, AlarmFires, ConnectFails, EndOfStored, Break, Deliver, Publish, local
  <2>7. QED
    BY <2>1, <2>3, <2>4, <2>5, <2>6
<1>2. QED
  BY <1>1, IInvHolds, PTL DEF Spec, ForgetsOnlyTheDead
=============================================================================
