---------------------------- MODULE Attestation ----------------------------
(***************************************************************************)
(* The attestation service (apps/attestation/src): HTTP requests that      *)
(* attest or revoke a board, each one a read-modify-write on two carriers  *)
(* kept on the relays and owned by one issuer key:                         *)
(*                                                                         *)
(*   - the per-board labels (kind 1985), which accumulate; the newest      *)
(*     label of a board says "attested" or "delisted" and pins a version;  *)
(*   - the allowlist set, one addressable event (newest created_at wins)   *)
(*     that the discover page filters by.                                  *)
(*                                                                         *)
(* A request's steps are split where the code awaits a relay, and nothing  *)
(* in server.ts serialises requests: their steps interleave.               *)
(***************************************************************************)
EXTENDS Integers, FiniteSets

CONSTANTS
  Relays,       \* the configured relays
  Coords,       \* board coordinates "34550:<owner>:<slug>", canonical
  Users,        \* pubkeys that may sign a request
  Operators,    \* config.ts operatorPubkeys
  Owner,        \* Owner[c] is the pubkey inside the coordinate c
  Versions,     \* a board's event ids, in created_at order
  Conforming,   \* the versions that parseBoard accepts
  Clock,        \* the values now() may return: any skew, any two in one second
  Requests,     \* the requests of a run: each is served once
  Concurrency,  \* how many requests are in flight at once; 1 = serialised
  Faults,       \* what the environment does wrong, see FaultKinds
  Id(_)         \* an event's id as a number: the lowest wins a created_at tie

\* "blind":   no relay can be reached when a request reads
\* "read":    a query is answered by some of the relays only, or in part
\* "publish": an event is stored by some of the relays only, or its OKs are lost
\* "crash":   the process dies with requests in flight (it keeps no state)
FaultKinds == {"blind", "read", "publish", "crash"}

ASSUME RelaysAssumption   == Relays # {}
ASSUME UsersAssumption    == Operators \subseteq Users /\ Owner \in [Coords -> Users]
ASSUME VersionsAssumption == Versions \subseteq Nat \ {0} /\ Conforming \subseteq Versions
ASSUME ClockAssumption    == Clock \subseteq Nat \ {0}
ASSUME BoundsAssumption   == Concurrency \in Nat \ {0} /\ Faults \subseteq FaultKinds

VARIABLES
  sets,    \* sets[r]: the allowlist set relay r holds (at most one event)
  labels,  \* labels[r]: the labels relay r holds
  boards,  \* boards[r][c]: the version of board c that relay r holds, 0 if none
  pc,      \* where each request is
  req,     \* what each request asked for
  view,    \* what each request read in readState (its local variables)
  reply    \* what each request was answered

vars == <<sets, labels, boards, pc, req, view, reply>>

-----------------------------------------------------------------------------
(* Events, requests and their types.                                       *)

LabelEvent == [coord : Coords, ver : Versions, on : BOOLEAN, at : Nat]
SetEvent   == [coords : SUBSET Coords, at : Nat]

\* ver is, for an attest, the event id the gate pinned; for a revoke, the
\* event id the operator typed, or 0.
Request   == [op : {"attest", "revoke"}, coord : Coords, who : Users, ver : Versions \cup {0}]
NoRequest == [op |-> "none"]

View      == [sets : SUBSET SetEvent, labels : SUBSET LabelEvent]
EmptyView == [sets |-> {}, labels |-> {}]

InFlight == {"read", "label", "set", "delist"}
Replies  == {"none", "ok", "idempotent", "refused", "unavailable", "lost"}

Active == {q \in Requests : pc[q] \in InFlight}

-----------------------------------------------------------------------------
(* Latest-wins selection.                                                  *)

Wins(e, f) == e = f \/ e.at > f.at \/ (e.at = f.at /\ Id(e) < Id(f))

\* The set a reader takes, or {} if there is none (it is a set of at most one).
SelectLatest(events) == {e \in events : \A f \in events : Wins(e, f)}

\* The latest label of every board that has one.
CollapseLabels(events) ==
  {l \in events : \A m \in events : m.coord = l.coord => Wins(l, m)}

SetCoords(v)      == UNION {e.coords : e \in v.sets}
AttestedCoords(v) == {l.coord : l \in {m \in v.labels : m.on}}
Existing(q)       == {l \in view[q].labels : l.coord = req[q].coord}

\* Mutant of SignAt: created_at is just now().
SignNow(now, earlier) == {now}

\* created_at of an event that must be newer than the ones signed at "earlier":
\* max(now, earlier + 1).
SignAt(now, earlier) ==
  {at \in {now} \cup {t + 1 : t \in earlier} : at >= now /\ \A t \in earlier : at > t}

-----------------------------------------------------------------------------
(* The relays.                                                             *)

SetsAt(answered)   == UNION {sets[r] : r \in answered}
AllSets          == SetsAt(Relays)
AllLabels        == UNION {labels[r] : r \in Relays}

\* The relays that may answer a query; the labels that arrive within its
\* maxWait and under LABEL_READ_LIMIT.
Answers    == IF "read" \in Faults THEN SUBSET Relays ELSE {Relays}
LabelReads == IF "read" \in Faults THEN SUBSET AllLabels ELSE {AllLabels}

\* Mutant of Outcomes: a synthesised "connection failure" counts as an OK.
CountedFailures == [stored : SUBSET Relays, ok : BOOLEAN]

\* The relays that store a published event, and whether publishOrThrow counted
\* an OK from one of them.
Outcomes ==
  IF "publish" \in Faults
  THEN {o \in [stored : SUBSET Relays, ok : BOOLEAN] : o.ok => o.stored # {}}
  ELSE {[stored |-> Relays, ok |-> TRUE]}

StoreLabel(l, stored) ==
  labels' = [r \in Relays |-> IF r \in stored THEN labels[r] \cup {l} ELSE labels[r]]

\* An addressable event replaces an older one of its author and identifier.
StoreSet(e, stored) ==
  sets' = [r \in Relays |-> IF r \in stored THEN SelectLatest(sets[r] \cup {e}) ELSE sets[r]]

\* The conforming version of board c among the relays that answered, if the
\* newest one they hold is conforming.
FetchBoard(answered, c) ==
  {v \in Conforming : /\ \E r \in answered : boards[r][c] = v
                      /\ \A r \in answered : boards[r][c] <= v}

-----------------------------------------------------------------------------
(* Ends of a request: the response, after which its locals are gone.       *)

Finish(q, answer) ==
  /\ pc'    = [pc EXCEPT ![q] = "done"]
  /\ reply' = [reply EXCEPT ![q] = answer]
  /\ view'  = [view EXCEPT ![q] = EmptyView]

Goto(q, step) ==
  /\ pc' = [pc EXCEPT ![q] = step]
  /\ UNCHANGED <<reply, view>>

Arrives(q) == pc[q] = "new" /\ Cardinality(Active) < Concurrency

-----------------------------------------------------------------------------
(* Requests arrive.                                                        *)

\* Mutant of Attest: the gate forgets to check the requester.
AttestForAnyone(q) ==
  /\ Arrives(q)
  /\ \E c \in Coords, who \in Users, answered \in Answers :
       \E v \in FetchBoard(answered, c) :
         req' = [req EXCEPT ![q] = [op |-> "attest", coord |-> c, who |-> who, ver |-> v]]
  /\ Goto(q, "read")
  /\ UNCHANGED <<sets, labels, boards>>

\* POST /v1/attest: the gate reads the board and pins its current version for
\* the owner or an operator.
Attest(q) ==
  /\ Arrives(q)
  /\ \E c \in Coords, who \in Users, answered \in Answers :
       \E v \in FetchBoard(answered, c) :
         /\ who = Owner[c] \/ who \in Operators
         /\ req' = [req EXCEPT ![q] = [op |-> "attest", coord |-> c, who |-> who, ver |-> v]]
  /\ Goto(q, "read")
  /\ UNCHANGED <<sets, labels, boards>>

\* POST /v1/revoke: operators only; the body may carry an event id.
Revoke(q) ==
  /\ Arrives(q)
  /\ \E c \in Coords, who \in Operators, v \in Versions \cup {0} :
       req' = [req EXCEPT ![q] = [op |-> "revoke", coord |-> c, who |-> who, ver |-> v]]
  /\ Goto(q, "read")
  /\ UNCHANGED <<sets, labels, boards>>

\* Either request turned away before it touches a carrier: 401 or 400 on its
\* header or body, 403 when the board is missing or not conforming, or when
\* the requester is neither its owner nor an operator.
Refuse(q) ==
  /\ Arrives(q)
  /\ Finish(q, "refused")
  /\ UNCHANGED <<sets, labels, boards, req>>

-----------------------------------------------------------------------------
(* readState: two queries of one pool, joined. Blind when no relay of the  *)
(* pool is connected; a relay may be connected and still not answer.       *)

\* Mutant of Target: it leaves out the boards that only their labels know of.
TargetWithoutLabels(q, v) ==
  IF req[q].op = "attest" THEN SetCoords(v) \cup {req[q].coord}
                          ELSE SetCoords(v) \ {req[q].coord}

\* The membership the request publishes: the union floor, plus or minus its
\* own board.
Target(q, v) ==
  LET floor == SetCoords(v) \cup AttestedCoords(v)
  IN IF req[q].op = "attest" THEN floor \cup {req[q].coord} ELSE floor \ {req[q].coord}

\* Mutant of Republishes: sameMembers stops at comparing lengths.
RepublishesOnLength(q, v) == Cardinality(Target(q, v)) # Cardinality(SetCoords(v))

Republishes(q, v) == Target(q, v) # SetCoords(v)

\* The attest finds its board in the set and the latest label on its version.
AlreadyAttested(q, v) ==
  /\ req[q].op = "attest"
  /\ req[q].coord \in SetCoords(v)
  /\ \E l \in v.labels : l.coord = req[q].coord /\ l.on /\ l.ver = req[q].ver

\* Mutant of AfterRead: an attest publishes its set before its label.
AfterReadSetFirst(q, v) == IF Republishes(q, v) THEN "set" ELSE "delist"

AfterRead(q, v) ==
  IF req[q].op = "attest" THEN "label" ELSE IF Republishes(q, v) THEN "set" ELSE "delist"

ReadBlind(q) ==
  /\ pc[q] = "read"
  /\ "blind" \in Faults
  /\ Finish(q, "unavailable")
  /\ UNCHANGED <<sets, labels, boards, req>>

ReadState(q) ==
  /\ pc[q] = "read"
  /\ \E answered \in Answers, got \in LabelReads :
       LET v == [sets |-> SelectLatest(SetsAt(answered)), labels |-> CollapseLabels(got)]
       IN IF AlreadyAttested(q, v)
          THEN Finish(q, "idempotent")
          ELSE /\ view' = [view EXCEPT ![q] = v]
               /\ pc'   = [pc EXCEPT ![q] = AfterRead(q, v)]
               /\ UNCHANGED reply
  /\ UNCHANGED <<sets, labels, boards, req>>

-----------------------------------------------------------------------------
(* issueAttestation: label first, then the set if membership changed.      *)

\* Mutant of PublishLabel: a publish that no relay accepts starts the request over.
PublishLabelAgain(q) ==
  /\ pc[q] = "label"
  /\ \E now \in Clock, out \in Outcomes :
       \E at \in SignAt(now, {l.at : l \in Existing(q)}) :
         /\ StoreLabel([coord |-> req[q].coord, ver |-> req[q].ver, on |-> TRUE, at |-> at],
                       out.stored)
         /\ CASE ~out.ok -> Goto(q, "read")
              [] out.ok /\ Republishes(q, view[q]) -> Goto(q, "set")
              [] out.ok /\ ~Republishes(q, view[q]) -> Finish(q, "ok")
  /\ UNCHANGED <<sets, boards, req>>

PublishLabel(q) ==
  /\ pc[q] = "label"
  /\ \E now \in Clock, out \in Outcomes :
       \E at \in SignAt(now, {l.at : l \in Existing(q)}) :
         /\ StoreLabel([coord |-> req[q].coord, ver |-> req[q].ver, on |-> TRUE, at |-> at],
                       out.stored)
         /\ CASE ~out.ok -> Finish(q, "unavailable")
              [] out.ok /\ Republishes(q, view[q]) -> Goto(q, "set")
              [] out.ok /\ ~Republishes(q, view[q]) -> Finish(q, "ok")
  /\ UNCHANGED <<sets, boards, req>>

\* The last write of an attest, the first of a revoke.
PublishSet(q) ==
  /\ pc[q] = "set"
  /\ \E now \in Clock, out \in Outcomes :
       \E at \in SignAt(now, {e.at : e \in view[q].sets}) :
         /\ StoreSet([coords |-> Target(q, view[q]), at |-> at], out.stored)
         /\ CASE ~out.ok -> Finish(q, "unavailable")
              [] out.ok /\ req[q].op = "attest" -> Finish(q, "ok")
              [] out.ok /\ req[q].op = "revoke" -> Goto(q, "delist")
  /\ UNCHANGED <<labels, boards, req>>

-----------------------------------------------------------------------------
(* revokeAttestation, after the set: the delist label needs some event id, *)
(* the operator's, else the latest label's, else the board's own.          *)

DelistIds(q, answered) ==
  IF req[q].ver # 0 THEN {req[q].ver}
  ELSE IF Existing(q) # {} THEN {l.ver : l \in Existing(q)}
  ELSE FetchBoard(answered, req[q].coord)

PublishDelist(q) ==
  /\ pc[q] = "delist"
  /\ \E answered \in Answers, now \in Clock, out \in Outcomes :
       \E v \in DelistIds(q, answered), at \in SignAt(now, {l.at : l \in Existing(q)}) :
         /\ StoreLabel([coord |-> req[q].coord, ver |-> v, on |-> FALSE, at |-> at], out.stored)
         /\ IF out.ok THEN Finish(q, "ok") ELSE Finish(q, "unavailable")
  /\ UNCHANGED <<sets, boards, req>>

\* No event id to pin: the revoke succeeds without a label.
SkipDelist(q) ==
  /\ pc[q] = "delist"
  /\ \E answered \in Answers : DelistIds(q, answered) = {}
  /\ Finish(q, "ok")
  /\ UNCHANGED <<sets, labels, boards, req>>

-----------------------------------------------------------------------------
(* The environment.                                                        *)

\* The process dies: every request in flight is lost, its publishes stay.
Crash ==
  /\ "crash" \in Faults
  /\ Active # {}
  /\ pc'    = [q \in Requests |-> IF q \in Active THEN "done" ELSE pc[q]]
  /\ reply' = [q \in Requests |-> IF q \in Active THEN "lost" ELSE reply[q]]
  /\ view'  = [q \in Requests |-> IF q \in Active THEN EmptyView ELSE view[q]]
  /\ UNCHANGED <<sets, labels, boards, req>>

\* The owner publishes a newer version of the board to some of the relays.
EditBoard(c) ==
  /\ \E v \in Versions, stored \in SUBSET Relays \ {{}} :
       /\ \A r \in Relays : boards[r][c] < v
       /\ boards' = [r \in Relays |-> IF r \in stored THEN [boards[r] EXCEPT ![c] = v]
                                                      ELSE boards[r]]
  /\ UNCHANGED <<sets, labels, pc, req, view, reply>>

\* Every request of the run was served: the service waits for another.
Served == (\A q \in Requests : pc[q] = "done") /\ UNCHANGED vars

-----------------------------------------------------------------------------
Init ==
  /\ sets   = [r \in Relays |-> {}]
  /\ labels = [r \in Relays |-> {}]
  /\ \E v \in [Coords -> Versions \cup {0}] : boards = [r \in Relays |-> v]
  /\ pc     = [q \in Requests |-> "new"]
  /\ req    = [q \in Requests |-> NoRequest]
  /\ view   = [q \in Requests |-> EmptyView]
  /\ reply  = [q \in Requests |-> "none"]

\* A step of the service for a request it has accepted.
Serve(q) ==
  \/ ReadBlind(q) \/ ReadState(q) \/ PublishLabel(q)
  \/ PublishSet(q) \/ PublishDelist(q) \/ SkipDelist(q)

Next ==
  \/ \E q \in Requests : Attest(q) \/ Revoke(q) \/ Refuse(q) \/ Serve(q)
  \/ Crash
  \/ \E c \in Coords : EditBoard(c)
  \/ Served

Spec == Init /\ [][Next]_vars

-----------------------------------------------------------------------------
(* Properties.                                                             *)

TypeOK ==
  /\ sets   \in [Relays -> SUBSET SetEvent]
  /\ labels \in [Relays -> SUBSET LabelEvent]
  /\ boards \in [Relays -> [Coords -> Versions \cup {0}]]
  /\ pc     \in [Requests -> {"new", "done"} \cup InFlight]
  /\ req    \in [Requests -> Request \cup {NoRequest}]
  /\ view   \in [Requests -> View]
  /\ reply  \in [Requests -> Replies]

\* What a reader that reaches every relay sees: the discover page's allowlist,
\* and the boards whose latest label says attested.
Listed   == UNION {e.coords : e \in SelectLatest(AllSets)}
Attested == {l.coord : l \in {m \in CollapseLabels(AllLabels) : m.on}}

\* A version of a board that the gate let through for a request of this run.
Admitted(c, v) ==
  \E q \in Requests :
    /\ req[q].op = "attest" /\ req[q].coord = c /\ req[q].ver = v
    /\ req[q].who = Owner[c] \/ req[q].who \in Operators
    /\ v \in Conforming

\* However requests interleave, fail or crash, nothing is on a carrier that no
\* authorised requester asked for: an attested label pins a version the gate
\* saw and accepted, and the set lists only boards that passed the gate.
Provenance ==
  /\ \A l \in AllLabels : l.on => Admitted(l.coord, l.ver)
  /\ \A e \in AllSets : \A c \in e.coords : \E v \in Versions : Admitted(c, v)

\* A success is never reported for a badge that reached no relay: once an
\* attest is answered 200, its label is on some relay, whatever failed.
SuccessIsDurable ==
  \A q \in Requests :
    (req[q].op = "attest" /\ reply[q] \in {"ok", "idempotent"}) =>
      \E l \in AllLabels : l.coord = req[q].coord /\ l.ver = req[q].ver /\ l.on

Answers200(q) == reply[q] = "none" /\ reply'[q] = "ok"

\* The set, the derived index, never lists a board whose latest label is
\* missing or delisted: attest writes the label before the set and revoke the
\* set before the label, so this survives a publish failure or a crash between
\* the two (serialised requests, complete reads).
ListedIsAttested == Listed \subseteq Attested

\* A request that published and was answered 200 leaves both carriers in
\* agreement, repairing what earlier failures left apart.
OkMeansLockstep == [][\A q \in Requests : Answers200(q) => Listed' = Attested']_vars

\* A board whose revoke is answered 200 is off both carriers, however old or
\* skewed the created_at of what it supersedes.
RevokeTakesEffect ==
  [][\A q \in Requests : Answers200(q) /\ req[q].op = "revoke" =>
       req[q].coord \notin Listed' \cup Attested']_vars

Allowlist == INSTANCE Allowlist WITH attested <- Attested, listed <- Listed

\* Serialised over complete reads, the two carriers behave as one register of
\* attested boards with a derived index.
RefinesAllowlist == Allowlist!Spec
=============================================================================
