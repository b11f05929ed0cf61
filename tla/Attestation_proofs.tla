------------------------- MODULE Attestation_proofs -------------------------
(***************************************************************************)
(* What holds of the attestation service for every set of relays, boards,  *)
(* users and requests, every degree of concurrency and every combination   *)
(* of faults: the types, where what is published comes from, and that a    *)
(* success is never reported for a badge that reached no relay.  Then what *)
(* holds when requests are serialised over complete reads: the two         *)
(* carriers stay in step and implement module Allowlist.                   *)
(***************************************************************************)
EXTENDS AttestationHistory, FiniteSetTheorems, TLAPS

-----------------------------------------------------------------------------
(* The inductive invariant.                                                *)

Authorised(r) == (r.who = Owner[r.coord] \/ r.who \in Operators) /\ r.ver \in Conforming

\* What a request is, by where it has got to.
RequestOK ==
  \A q \in Requests :
    /\ pc[q] # "done" => reply[q] = "none"
    /\ pc[q] = "new" => req[q] = NoRequest
    /\ pc[q] \in InFlight => req[q] \in Request
    /\ pc[q] = "label" => req[q].op = "attest"
    /\ pc[q] = "delist" => req[q].op = "revoke"
    /\ req[q].op = "attest" => req[q] \in Request /\ Authorised(req[q])

\* Labels and sets that only carry admitted boards.
AdmittedLabels(ls) == \A l \in ls : l.on => Admitted(l.coord, l.ver)
AdmittedSets(es)   == \A e \in es : \A c \in e.coords : \E v \in Versions : Admitted(c, v)

\* What a request has read is as admitted as what the relays hold.
ViewOK == \A q \in Requests : AdmittedLabels(view[q].labels) /\ AdmittedSets(view[q].sets)

HasBadge(q) == \E l \in AllLabels : l.coord = req[q].coord /\ l.ver = req[q].ver /\ l.on

\* An attest that has got past its label has put it on some relay.
BadgeFirst ==
  \A q \in Requests :
    (req[q].op = "attest" /\ (pc[q] = "set" \/ reply[q] \in {"ok", "idempotent"})) => HasBadge(q)

IInv == TypeOK /\ RequestOK /\ Provenance /\ ViewOK /\ BadgeFirst

-----------------------------------------------------------------------------
(* Selection picks among what it is given.                                 *)

LEMMA SelectLatestSubset == ASSUME NEW S PROVE SelectLatest(S) \subseteq S
  BY DEF SelectLatest

LEMMA CollapseLabelsSubset == ASSUME NEW S PROVE CollapseLabels(S) \subseteq S
  BY DEF CollapseLabels

\* A created_at that SignAt allows is a natural number.
LEMMA SignAtType ==
  ASSUME NEW now \in Clock, NEW earlier \in SUBSET Nat
  PROVE  SignAt(now, earlier) \subseteq Nat
  BY ClockAssumption DEF SignAt

\* A publish that counts an OK was stored somewhere.
LEMMA OutcomeType ==
  ASSUME NEW out \in Outcomes
  PROVE  out.stored \in SUBSET Relays /\ (out.ok => out.stored # {})
<1>1. CASE "publish" \in Faults
  BY <1>1 DEF Outcomes
<1>2. CASE "publish" \notin Faults
  <2>1. out = [stored |-> Relays, ok |-> TRUE]
    BY <1>2 DEF Outcomes
  <2>. QED
    BY <2>1, RelaysAssumption
<1>. QED
  BY <1>1, <1>2

\* Labels only accumulate when a label is stored.
LEMMA StoreLabelGrows ==
  ASSUME TypeOK, NEW l, NEW stored \in SUBSET Relays, StoreLabel(l, stored)
  PROVE  /\ AllLabels \subseteq AllLabels'
         /\ AllLabels' \subseteq AllLabels \cup {l}
         /\ stored # {} => l \in AllLabels'
  BY DEF StoreLabel, AllLabels, TypeOK

\* What the relays hold of the set after a publish is what they held, or it.
LEMMA StoreSetBounds ==
  ASSUME TypeOK, NEW e, NEW stored \in SUBSET Relays, StoreSet(e, stored)
  PROVE  AllSets' \subseteq AllSets \cup {e}
<1> SUFFICES ASSUME NEW r \in Relays, NEW x \in sets'[r]
             PROVE  x \in AllSets \cup {e}
  BY DEF AllSets, SetsAt
<1>1. x \in sets[r] \cup {e}
  BY SelectLatestSubset DEF StoreSet
<1>. QED
  BY <1>1 DEF AllSets, SetsAt

-----------------------------------------------------------------------------
(* The four ends and jumps of a request.                                   *)

LEMMA FinishType ==
  ASSUME TypeOK, NEW q \in Requests, NEW a \in Replies, Finish(q, a)
  PROVE  /\ pc' \in [Requests -> {"new", "done"} \cup InFlight]
         /\ reply' \in [Requests -> Replies]
         /\ view' \in [Requests -> View]
  BY DEF Finish, TypeOK, View, EmptyView, InFlight

LEMMA GotoType ==
  ASSUME TypeOK, NEW q \in Requests, NEW s \in InFlight, Goto(q, s)
  PROVE  /\ pc' \in [Requests -> {"new", "done"} \cup InFlight]
         /\ reply' \in [Requests -> Replies]
         /\ view' \in [Requests -> View]
  BY DEF Goto, TypeOK

-----------------------------------------------------------------------------
(* A board, once admitted, stays admitted: a request is written once.      *)

LEMMA AdmittedStable ==
  ASSUME TypeOK, RequestOK, Next, NEW c, NEW v, Admitted(c, v)
  PROVE  Admitted(c, v)'
<1>1. PICK p \in Requests : /\ req[p].op = "attest" /\ req[p].coord = c /\ req[p].ver = v
                            /\ req[p].who = Owner[c] \/ req[p].who \in Operators
                            /\ v \in Conforming
  BY DEF Admitted
<1>2. pc[p] # "new"
  BY <1>1 DEF RequestOK, NoRequest
<1>3. req'[p] = req[p]
  <2>1. ASSUME NEW q \in Requests, Attest(q) \/ Revoke(q) PROVE req'[p] = req[p]
    BY <2>1, <1>2 DEF Attest, Revoke, Arrives, TypeOK
  <2>2. ASSUME NEW q \in Requests, Refuse(q) \/ Serve(q) PROVE req'[p] = req[p]
    BY <2>2 DEF Refuse, Serve, ReadBlind, ReadState, PublishLabel, PublishSet, PublishDelist,
                SkipDelist
  <2>3. CASE Crash \/ (\E d \in Coords : EditBoard(d)) \/ Served
    BY <2>3 DEF Crash, EditBoard, Served, vars
  <2>. QED
    BY <2>1, <2>2, <2>3 DEF Next
<1>. QED
  BY <1>1, <1>3 DEF Admitted

-----------------------------------------------------------------------------
(* What a read takes in, and what a request then signs, is admitted.       *)

LEMMA TargetAdmitted ==
  ASSUME TypeOK, RequestOK, ViewOK, NEW q \in Requests, pc[q] \in InFlight
  PROVE  \A c \in Target(q, view[q]) : c \in Coords /\ \E v \in Versions : Admitted(c, v)
<1>1. req[q] \in Request /\ view[q] \in View
  BY DEF RequestOK, TypeOK
<1>2. ASSUME NEW c \in SetCoords(view[q])
      PROVE  c \in Coords /\ \E v \in Versions : Admitted(c, v)
  BY <1>1 DEF SetCoords, ViewOK, AdmittedSets, View, SetEvent
<1>3. ASSUME NEW c \in AttestedCoords(view[q])
      PROVE  c \in Coords /\ \E v \in Versions : Admitted(c, v)
  <2>1. PICK l \in view[q].labels : l.on /\ l.coord = c
    BY DEF AttestedCoords
  <2>2. l \in LabelEvent
    BY <1>1 DEF View
  <2>. QED
    BY <2>1, <2>2 DEF ViewOK, AdmittedLabels, LabelEvent
<1>4. CASE req[q].op = "attest"
  <2>1. req[q].coord \in Coords /\ \E v \in Versions : Admitted(req[q].coord, v)
    BY <1>4, <1>1, VersionsAssumption DEF RequestOK, Authorised, Admitted, Request
  <2>. QED
    BY <1>2, <1>3, <1>4, <2>1 DEF Target
<1>5. CASE req[q].op # "attest"
  BY <1>2, <1>3, <1>5 DEF Target
<1>. QED
  BY <1>4, <1>5

LEMMA ReadType ==
  ASSUME TypeOK, Provenance, NEW answered \in Answers, NEW got \in LabelReads
  PROVE  /\ SelectLatest(SetsAt(answered)) \subseteq AllSets
         /\ CollapseLabels(got) \subseteq AllLabels
         /\ [sets |-> SelectLatest(SetsAt(answered)), labels |-> CollapseLabels(got)] \in View
<1>1. answered \subseteq Relays /\ got \subseteq AllLabels
  BY DEF Answers, LabelReads
<1>2. SetsAt(answered) \subseteq AllSets
  BY <1>1 DEF SetsAt, AllSets
<1>3. AllSets \subseteq SetEvent /\ AllLabels \subseteq LabelEvent
  BY DEF TypeOK, AllSets, SetsAt, AllLabels
<1>4. SelectLatest(SetsAt(answered)) \subseteq AllSets /\ CollapseLabels(got) \subseteq AllLabels
  BY <1>1, <1>2, SelectLatestSubset, CollapseLabelsSubset
<1>. QED
  BY <1>3, <1>4 DEF View


-----------------------------------------------------------------------------
(* The inductive step, one part of the invariant at a time.                *)

LEMMA InitInv == Init => IInv
<1> SUFFICES ASSUME Init PROVE IInv
  OBVIOUS
<1>1. TypeOK
  <2>1. PICK v \in [Coords -> Versions \cup {0}] : boards = [r \in Relays |-> v]
    BY DEF Init
  <2>. QED
    BY <2>1 DEF Init, TypeOK, View, EmptyView, Replies
<1>2. RequestOK
  BY DEF Init, RequestOK, NoRequest, InFlight
<1>3. AllSets = {} /\ AllLabels = {}
  BY DEF Init, AllSets, SetsAt, AllLabels
<1>4. ViewOK
  BY DEF Init, ViewOK, EmptyView, AdmittedLabels, AdmittedSets
<1>5. BadgeFirst
  BY DEF Init, BadgeFirst, NoRequest
<1>. QED
  BY <1>1, <1>2, <1>3, <1>4, <1>5 DEF IInv, Provenance

LEMMA TypeNext == IInv /\ [Next]_vars => TypeOK'
<1> SUFFICES ASSUME IInv, [Next]_vars PROVE TypeOK'
  OBVIOUS
<1>. USE DEF IInv
<1>1. ASSUME NEW q \in Requests, Attest(q) PROVE TypeOK'
  <2>1. req' \in [Requests -> Request \cup {NoRequest}]
    BY <1>1, VersionsAssumption DEF Attest, TypeOK, Request, FetchBoard
  <2>2. Goto(q, "read") /\ UNCHANGED <<sets, labels, boards>>
    BY <1>1 DEF Attest
  <2>. QED
    BY <2>1, <2>2, GotoType DEF TypeOK, InFlight
<1>2. ASSUME NEW q \in Requests, Revoke(q) PROVE TypeOK'
  <2>1. req' \in [Requests -> Request \cup {NoRequest}]
    BY <1>2, UsersAssumption DEF Revoke, TypeOK, Request
  <2>2. Goto(q, "read") /\ UNCHANGED <<sets, labels, boards>>
    BY <1>2 DEF Revoke
  <2>. QED
    BY <2>1, <2>2, GotoType DEF TypeOK, InFlight
<1>3. ASSUME NEW q \in Requests, Refuse(q) \/ ReadBlind(q) \/ SkipDelist(q) PROVE TypeOK'
  <2>1. PICK a \in Replies : Finish(q, a)
    BY <1>3 DEF Refuse, ReadBlind, SkipDelist, Replies
  <2>2. UNCHANGED <<sets, labels, boards, req>>
    BY <1>3 DEF Refuse, ReadBlind, SkipDelist
  <2>. QED
    BY <2>1, <2>2, FinishType DEF TypeOK
<1>4. ASSUME NEW q \in Requests, ReadState(q) PROVE TypeOK'
  <2>1. PICK answered \in Answers, got \in LabelReads :
          LET v == [sets |-> SelectLatest(SetsAt(answered)), labels |-> CollapseLabels(got)]
          IN \/ Finish(q, "idempotent")
             \/ /\ view' = [view EXCEPT ![q] = v]
                /\ pc'   = [pc EXCEPT ![q] = AfterRead(q, v)]
                /\ UNCHANGED reply
    BY <1>4, Zenon DEF ReadState
  <2> DEFINE v == [sets |-> SelectLatest(SetsAt(answered)), labels |-> CollapseLabels(got)]
  <2>2. UNCHANGED <<sets, labels, boards, req>>
    BY <1>4 DEF ReadState
  <2>3. CASE Finish(q, "idempotent")
    BY <2>2, <2>3, FinishType DEF TypeOK, Replies
  <2>4. CASE /\ view' = [view EXCEPT ![q] = v]
             /\ pc'   = [pc EXCEPT ![q] = AfterRead(q, v)]
             /\ UNCHANGED reply
    <3>1. v \in View
      BY ReadType
    <3>2. AfterRead(q, v) \in InFlight
      BY DEF AfterRead, InFlight
    <3>. HIDE DEF v
    <3>. QED
      BY <2>2, <2>4, <3>1, <3>2 DEF TypeOK
  <2>. QED
    BY <2>1, <2>3, <2>4
<1>5. ASSUME NEW q \in Requests, PublishLabel(q) PROVE TypeOK'
  <2>1. PICK now \in Clock, out \in Outcomes :
          \E t \in SignAt(now, {l.at : l \in Existing(q)}) :
            /\ StoreLabel([coord |-> req[q].coord, ver |-> req[q].ver, on |-> TRUE, at |-> t],
                          out.stored)
            /\ \/ Finish(q, "unavailable") \/ Finish(q, "ok") \/ Goto(q, "set")
    BY <1>5 DEF PublishLabel
  <2>. PICK at \in SignAt(now, {l.at : l \in Existing(q)}) :
          /\ StoreLabel([coord |-> req[q].coord, ver |-> req[q].ver, on |-> TRUE, at |-> at],
                        out.stored)
          /\ \/ Finish(q, "unavailable") \/ Finish(q, "ok") \/ Goto(q, "set")
    BY <2>1
  <2>2. req[q] \in Request /\ req[q].ver \in Versions
    BY <1>5, VersionsAssumption DEF PublishLabel, RequestOK, InFlight, Authorised
  <2>3. at \in Nat
    <3>1. {l.at : l \in Existing(q)} \subseteq Nat
      BY DEF Existing, TypeOK, View, LabelEvent
    <3>. QED
      BY <3>1, SignAtType
  <2>4. labels' \in [Relays -> SUBSET LabelEvent]
    <3>1. [coord |-> req[q].coord, ver |-> req[q].ver, on |-> TRUE, at |-> at] \in LabelEvent
      BY <2>2, <2>3 DEF LabelEvent, Request
    <3>. QED
      BY <3>1, OutcomeType DEF StoreLabel, TypeOK
  <2>5. UNCHANGED <<sets, boards, req>>
    BY <1>5 DEF PublishLabel
  <2>. QED
    BY <2>4, <2>5, FinishType, GotoType DEF TypeOK, Replies, InFlight
<1>6. ASSUME NEW q \in Requests, PublishSet(q) PROVE TypeOK'
  <2>1. PICK now \in Clock, out \in Outcomes :
          \E t \in SignAt(now, {e.at : e \in view[q].sets}) :
            /\ StoreSet([coords |-> Target(q, view[q]), at |-> t], out.stored)
            /\ \/ Finish(q, "unavailable") \/ Finish(q, "ok") \/ Goto(q, "delist")
    <3>1. req[q].op = "attest" \/ req[q].op = "revoke"
      BY <1>6 DEF PublishSet, RequestOK, InFlight, Request
    <3>. QED
      BY <1>6, <3>1 DEF PublishSet
  <2>. PICK at \in SignAt(now, {e.at : e \in view[q].sets}) :
          /\ StoreSet([coords |-> Target(q, view[q]), at |-> at], out.stored)
          /\ \/ Finish(q, "unavailable") \/ Finish(q, "ok") \/ Goto(q, "delist")
    BY <2>1
  <2>2. Target(q, view[q]) \subseteq Coords
    BY <1>6, TargetAdmitted DEF PublishSet, InFlight
  <2>3. at \in Nat
    <3>1. {e.at : e \in view[q].sets} \subseteq Nat
      BY DEF TypeOK, View, SetEvent
    <3>. QED
      BY <3>1, SignAtType
  <2>4. sets' \in [Relays -> SUBSET SetEvent]
    <3>1. [coords |-> Target(q, view[q]), at |-> at] \in SetEvent
      BY <2>2, <2>3 DEF SetEvent
    <3>. QED
      BY <3>1, SelectLatestSubset DEF StoreSet, TypeOK
  <2>5. UNCHANGED <<labels, boards, req>>
    BY <1>6 DEF PublishSet
  <2>. QED
    BY <2>4, <2>5, FinishType, GotoType DEF TypeOK, Replies, InFlight
<1>7. ASSUME NEW q \in Requests, PublishDelist(q) PROVE TypeOK'
  <2>1. PICK answered \in Answers, now \in Clock, out \in Outcomes :
          \E v \in DelistIds(q, answered), t \in SignAt(now, {l.at : l \in Existing(q)}) :
            /\ StoreLabel([coord |-> req[q].coord, ver |-> v, on |-> FALSE, at |-> t], out.stored)
            /\ \/ Finish(q, "unavailable") \/ Finish(q, "ok")
    BY <1>7 DEF PublishDelist
  <2>. PICK ver \in DelistIds(q, answered), at \in SignAt(now, {l.at : l \in Existing(q)}) :
          /\ StoreLabel([coord |-> req[q].coord, ver |-> ver, on |-> FALSE, at |-> at], out.stored)
          /\ \/ Finish(q, "unavailable") \/ Finish(q, "ok")
    BY <2>1
  <2>2. req[q] \in Request /\ Existing(q) \subseteq LabelEvent
    BY <1>7 DEF PublishDelist, RequestOK, InFlight, Existing, TypeOK, View
  <2>3. at \in Nat
    <3>1. {l.at : l \in Existing(q)} \subseteq Nat
      BY <2>2 DEF LabelEvent
    <3>. QED
      BY <3>1, SignAtType
  <2>4. ver \in Versions
    <3>1. CASE req[q].ver # 0
      BY <2>2, <3>1 DEF DelistIds, Request
    <3>2. CASE req[q].ver = 0 /\ Existing(q) # {}
      BY <2>2, <3>2 DEF DelistIds, LabelEvent
    <3>3. CASE req[q].ver = 0 /\ Existing(q) = {}
      BY <3>3, VersionsAssumption DEF DelistIds, FetchBoard
    <3>. QED
      BY <3>1, <3>2, <3>3
  <2>5. labels' \in [Relays -> SUBSET LabelEvent]
    <3>1. [coord |-> req[q].coord, ver |-> ver, on |-> FALSE, at |-> at] \in LabelEvent
      BY <2>2, <2>3, <2>4 DEF LabelEvent, Request
    <3>. QED
      BY <3>1, OutcomeType DEF StoreLabel, TypeOK
  <2>6. UNCHANGED <<sets, boards, req>>
    BY <1>7 DEF PublishDelist
  <2>. QED
    BY <2>5, <2>6, FinishType DEF TypeOK, Replies
<1>8. CASE Crash
  BY <1>8 DEF Crash, TypeOK, Active, View, EmptyView, Replies, InFlight
<1>9. ASSUME NEW c \in Coords, EditBoard(c) PROVE TypeOK'
  BY <1>9 DEF EditBoard, TypeOK
<1>10. CASE UNCHANGED vars
  BY <1>10 DEF vars, TypeOK
<1>. QED
  BY <1>1, <1>2, <1>3, <1>4, <1>5, <1>6, <1>7, <1>8, <1>9, <1>10 DEF Next, Serve, Served


\* Only an arriving request is written; the others keep what they asked for.
LEMMA RequestNext == IInv /\ [Next]_vars => RequestOK'
<1> SUFFICES ASSUME IInv, [Next]_vars PROVE RequestOK'
  OBVIOUS
<1>. USE DEF IInv, TypeOK
<1>1. ASSUME NEW q \in Requests, Attest(q) PROVE RequestOK'
  <2>1. PICK c \in Coords, who \in Users, v \in Conforming :
          /\ who = Owner[c] \/ who \in Operators
          /\ req' = [req EXCEPT ![q] = [op |-> "attest", coord |-> c, who |-> who, ver |-> v]]
    BY <1>1 DEF Attest, FetchBoard
  <2>2. pc[q] = "new" /\ pc' = [pc EXCEPT ![q] = "read"] /\ UNCHANGED reply
    BY <1>1 DEF Attest, Arrives, Goto
  <2>. QED
    BY <2>1, <2>2, VersionsAssumption DEF RequestOK, Request, Authorised, InFlight
<1>2. ASSUME NEW q \in Requests, Revoke(q) PROVE RequestOK'
  <2>1. PICK c \in Coords, who \in Operators, v \in Versions \cup {0} :
          req' = [req EXCEPT ![q] = [op |-> "revoke", coord |-> c, who |-> who, ver |-> v]]
    BY <1>2 DEF Revoke
  <2>2. pc[q] = "new" /\ pc' = [pc EXCEPT ![q] = "read"] /\ UNCHANGED reply
    BY <1>2 DEF Revoke, Arrives, Goto
  <2>. QED
    BY <2>1, <2>2, UsersAssumption DEF RequestOK, Request, InFlight
<1>3. ASSUME NEW q \in Requests, Refuse(q) PROVE RequestOK'
  BY <1>3 DEF Refuse, Arrives, Finish, RequestOK, NoRequest, InFlight
<1>4. ASSUME NEW q \in Requests, Serve(q) PROVE RequestOK'
  <2>1. req' = req /\ pc[q] \in InFlight
    BY <1>4 DEF Serve, ReadBlind, ReadState, PublishLabel, PublishSet, PublishDelist, SkipDelist,
                InFlight
  <2>2. CASE \E a \in Replies : Finish(q, a)
    BY <2>1, <2>2 DEF Finish, RequestOK, InFlight
  <2> DEFINE Moves(s) == pc' = [pc EXCEPT ![q] = s] /\ UNCHANGED reply
  <2>3. CASE \/ Moves("set")
             \/ Moves("label") /\ req[q].op = "attest"
             \/ Moves("delist") /\ req[q].op = "revoke"
    BY <2>1, <2>3 DEF RequestOK, InFlight
  <2>4. req[q].op = "attest" \/ req[q].op = "revoke"
    BY <2>1 DEF RequestOK, Request
  <2>5. ASSUME ReadBlind(q) \/ SkipDelist(q) \/ PublishDelist(q) PROVE \E a \in Replies : Finish(q, a)
    BY <2>5 DEF ReadBlind, SkipDelist, PublishDelist, Replies
  <2>6. ASSUME ReadState(q)
        PROVE  \/ \E a \in Replies : Finish(q, a)
               \/ Moves("set")
               \/ Moves("label") /\ req[q].op = "attest"
               \/ Moves("delist") /\ req[q].op = "revoke"
    BY <2>6, <2>4 DEF ReadState, AfterRead, Replies
  <2>7. ASSUME PublishLabel(q) \/ PublishSet(q)
        PROVE  \/ \E a \in Replies : Finish(q, a)
               \/ Moves("set")
               \/ Moves("delist") /\ req[q].op = "revoke"
    BY <2>7, <2>4 DEF PublishLabel, PublishSet, Goto, Replies
  <2>. QED
    BY <1>4, <2>2, <2>3, <2>5, <2>6, <2>7 DEF Serve
<1>5. CASE Crash
  BY <1>5 DEF Crash, RequestOK, Active, InFlight
<1>6. CASE (\E c \in Coords : EditBoard(c)) \/ UNCHANGED vars
  BY <1>6 DEF EditBoard, vars, RequestOK
<1>. QED
  BY <1>1, <1>2, <1>3, <1>4, <1>5, <1>6 DEF Next, Served

\* What is admitted stays so: carriers and views are only to be checked for
\* what a step adds to them.
LEMMA ProvenanceNext == IInv /\ [Next]_vars => Provenance' /\ ViewOK'
<1> SUFFICES ASSUME IInv, [Next]_vars PROVE Provenance' /\ ViewOK'
  OBVIOUS
<1>. USE DEF IInv
<1>1. CASE Next
  <2>1. \A c, v : Admitted(c, v) => Admitted(c, v)'
    BY <1>1, AdmittedStable
  <2>2. ASSUME NEW q \in Requests,
               UNCHANGED <<sets, labels>>,
               view' = view \/ view' = [view EXCEPT ![q] = EmptyView]
        PROVE  Provenance' /\ ViewOK'
    <3>1. AllSets' = AllSets /\ AllLabels' = AllLabels
      BY <2>2 DEF AllSets, SetsAt, AllLabels
    <3>2. \A p \in Requests : view'[p] = view[p] \/ view'[p] = EmptyView
      BY <2>2 DEF TypeOK
    <3>. QED
      BY <2>1, <3>1, <3>2 DEF Provenance, ViewOK, AdmittedLabels, AdmittedSets, EmptyView
  <2>3. ASSUME NEW q \in Requests, Attest(q) \/ Revoke(q) \/ Refuse(q) \/ ReadBlind(q) \/ SkipDelist(q)
        PROVE  Provenance' /\ ViewOK'
    BY <2>2, <2>3 DEF Attest, Revoke, Refuse, ReadBlind, SkipDelist, Goto, Finish
  <2>4. ASSUME NEW q \in Requests, ReadState(q) PROVE Provenance' /\ ViewOK'
    <3>1. PICK answered \in Answers, got \in LabelReads :
            LET v == [sets |-> SelectLatest(SetsAt(answered)), labels |-> CollapseLabels(got)]
            IN Finish(q, "idempotent") \/ view' = [view EXCEPT ![q] = v]
      BY <2>4, Zenon DEF ReadState
    <3> DEFINE v == [sets |-> SelectLatest(SetsAt(answered)), labels |-> CollapseLabels(got)]
    <3>2. UNCHANGED <<sets, labels>>
      BY <2>4 DEF ReadState
    <3>3. CASE Finish(q, "idempotent")
      BY <2>2, <3>2, <3>3 DEF Finish
    <3>4. CASE view' = [view EXCEPT ![q] = v]
      <4>1. v.sets \subseteq AllSets /\ v.labels \subseteq AllLabels
        BY ReadType
      <4>. HIDE DEF v
      <4>2. AllSets' = AllSets /\ AllLabels' = AllLabels
        BY <3>2 DEF AllSets, SetsAt, AllLabels
      <4>3. Provenance'
        BY <2>1, <4>2 DEF Provenance
      <4>4. \A p \in Requests : view'[p] = view[p] \/ view'[p] = v
        BY <3>4 DEF TypeOK
      <4>5. ViewOK'
        BY <2>1, <4>1, <4>4 DEF ViewOK, AdmittedLabels, AdmittedSets, Provenance
      <4>. QED
        BY <4>3, <4>5
    <3>. QED
      BY <3>1, <3>3, <3>4
  <2>5. ASSUME NEW q \in Requests, PublishLabel(q) PROVE Provenance' /\ ViewOK'
    <3>. PICK now \in Clock, out \in Outcomes :
           \E t \in SignAt(now, {l.at : l \in Existing(q)}) :
             StoreLabel([coord |-> req[q].coord, ver |-> req[q].ver, on |-> TRUE, at |-> t],
                        out.stored)
      BY <2>5 DEF PublishLabel
    <3>1. PICK at \in SignAt(now, {l.at : l \in Existing(q)}) :
            StoreLabel([coord |-> req[q].coord, ver |-> req[q].ver, on |-> TRUE, at |-> at],
                       out.stored)
      OBVIOUS
    <3>2. UNCHANGED sets /\ (view' = view \/ view' = [view EXCEPT ![q] = EmptyView])
      BY <2>5 DEF PublishLabel, Finish, Goto
    <3>3. AllLabels' \subseteq
            AllLabels \cup {[coord |-> req[q].coord, ver |-> req[q].ver, on |-> TRUE, at |-> at]}
      BY <3>1, OutcomeType, StoreLabelGrows
    <3>4. Admitted(req[q].coord, req[q].ver)
      BY <2>5 DEF PublishLabel, RequestOK, Authorised, Admitted
    <3>5. AllSets' = AllSets
      BY <3>2 DEF AllSets, SetsAt
    <3>6. \A p \in Requests : view'[p] = view[p] \/ view'[p] = EmptyView
      BY <3>2 DEF TypeOK
    <3>. QED
      BY <2>1, <3>3, <3>4, <3>5, <3>6
         DEF Provenance, ViewOK, AdmittedLabels, AdmittedSets, EmptyView
  <2>6. ASSUME NEW q \in Requests, PublishSet(q) PROVE Provenance' /\ ViewOK'
    <3>. PICK now \in Clock, out \in Outcomes :
           \E t \in SignAt(now, {e.at : e \in view[q].sets}) :
             StoreSet([coords |-> Target(q, view[q]), at |-> t], out.stored)
      BY <2>6 DEF PublishSet
    <3>1. PICK at \in SignAt(now, {e.at : e \in view[q].sets}) :
            StoreSet([coords |-> Target(q, view[q]), at |-> at], out.stored)
      OBVIOUS
    <3>2. UNCHANGED labels /\ (view' = view \/ view' = [view EXCEPT ![q] = EmptyView])
      <4>1. req[q].op = "attest" \/ req[q].op = "revoke"
        BY <2>6 DEF PublishSet, RequestOK, InFlight, Request
      <4>. QED
        BY <2>6, <4>1 DEF PublishSet, Finish, Goto
    <3>3. AllSets' \subseteq AllSets \cup {[coords |-> Target(q, view[q]), at |-> at]}
      BY <3>1, OutcomeType, StoreSetBounds
    <3>4. \A c \in Target(q, view[q]) : \E v \in Versions : Admitted(c, v)
      BY <2>6, TargetAdmitted DEF PublishSet, InFlight
    <3>5. AllLabels' = AllLabels
      BY <3>2 DEF AllLabels
    <3>6. \A p \in Requests : view'[p] = view[p] \/ view'[p] = EmptyView
      BY <3>2 DEF TypeOK
    <3>. QED
      BY <2>1, <3>3, <3>4, <3>5, <3>6
         DEF Provenance, ViewOK, AdmittedLabels, AdmittedSets, EmptyView
  <2>7. ASSUME NEW q \in Requests, PublishDelist(q) PROVE Provenance' /\ ViewOK'
    <3>. PICK answered \in Answers, now \in Clock, out \in Outcomes :
           \E w \in DelistIds(q, answered), t \in SignAt(now, {l.at : l \in Existing(q)}) :
             StoreLabel([coord |-> req[q].coord, ver |-> w, on |-> FALSE, at |-> t], out.stored)
      BY <2>7 DEF PublishDelist
    <3>1. PICK v \in DelistIds(q, answered), at \in SignAt(now, {l.at : l \in Existing(q)}) :
            StoreLabel([coord |-> req[q].coord, ver |-> v, on |-> FALSE, at |-> at], out.stored)
      OBVIOUS
    <3>2. UNCHANGED sets /\ view' = [view EXCEPT ![q] = EmptyView]
      BY <2>7 DEF PublishDelist, Finish
    <3>3. AllLabels' \subseteq
            AllLabels \cup {[coord |-> req[q].coord, ver |-> v, on |-> FALSE, at |-> at]}
      BY <3>1, OutcomeType, StoreLabelGrows
    <3>4. AllSets' = AllSets
      BY <3>2 DEF AllSets, SetsAt
    <3>5. \A p \in Requests : view'[p] = view[p] \/ view'[p] = EmptyView
      BY <3>2 DEF TypeOK
    <3>. QED
      BY <2>1, <3>3, <3>4, <3>5 DEF Provenance, ViewOK, AdmittedLabels, AdmittedSets, EmptyView
  <2>8. CASE Crash
    <3>1. AllSets' = AllSets /\ AllLabels' = AllLabels
      BY <2>8 DEF Crash, AllSets, SetsAt, AllLabels
    <3>2. \A p \in Requests : view'[p] = view[p] \/ view'[p] = EmptyView
      BY <2>8 DEF Crash, TypeOK
    <3>. QED
      BY <2>1, <3>1, <3>2 DEF Provenance, ViewOK, AdmittedLabels, AdmittedSets, EmptyView
  <2>9. CASE (\E c \in Coords : EditBoard(c)) \/ Served
    BY <2>9 DEF EditBoard, Served, vars, Provenance, ViewOK, AdmittedLabels, AdmittedSets,
                Admitted, AllSets, SetsAt, AllLabels
  <2>. QED
    BY <1>1, <2>3, <2>4, <2>5, <2>6, <2>7, <2>8, <2>9 DEF Next, Serve
<1>2. CASE UNCHANGED vars
  BY <1>2 DEF vars, Provenance, ViewOK, AdmittedLabels, AdmittedSets, Admitted, AllSets, SetsAt,
              AllLabels
<1>. QED
  BY <1>1, <1>2


\* The badge is written before anything that depends on it, and kept.
LEMMA BadgeNext == IInv /\ [Next]_vars => BadgeFirst'
<1> SUFFICES ASSUME IInv, [Next]_vars PROVE BadgeFirst'
  OBVIOUS
<1>. USE DEF IInv
<1> DEFINE Claims(p) == req[p].op = "attest" /\ (pc[p] = "set" \/ reply[p] \in {"ok", "idempotent"})
\* It is enough that labels are kept and that the one request that moves has
\* its badge if it now claims it.
<1>1. ASSUME NEW q \in Requests,
             AllLabels \subseteq AllLabels',
             \A p \in Requests \ {q} :
               req'[p] = req[p] /\ pc'[p] = pc[p] /\ reply'[p] \in {reply[p], "lost"},
             Claims(q)' => HasBadge(q)'
      PROVE  BadgeFirst'
  BY <1>1 DEF BadgeFirst, HasBadge
<1>2. ASSUME NEW q \in Requests, Attest(q) \/ Revoke(q) \/ Refuse(q) PROVE BadgeFirst'
  <2>1. AllLabels' = AllLabels
    BY <1>2 DEF Attest, Revoke, Refuse, AllLabels
  <2>2. ASSUME NEW p \in Requests \ {q}
        PROVE  req'[p] = req[p] /\ pc'[p] = pc[p] /\ reply'[p] = reply[p]
    BY <1>2 DEF Attest, Revoke, Refuse, Goto, Finish, TypeOK
  <2>3. \/ pc'[q] = "read" /\ reply'[q] = "none"
        \/ pc'[q] = "done" /\ reply'[q] = "refused"
    BY <1>2 DEF Attest, Revoke, Refuse, Arrives, Goto, Finish, TypeOK, RequestOK
  <2>. QED
    BY <2>1, <2>2, <2>3, <1>1
<1>3. ASSUME NEW q \in Requests, Serve(q) PROVE BadgeFirst'
  <2>1. req' = req /\ pc[q] \in InFlight
    BY <1>3 DEF Serve, ReadBlind, ReadState, PublishLabel, PublishSet, PublishDelist, SkipDelist,
                InFlight
  <2>2. req[q].op = "attest" \/ req[q].op = "revoke"
    BY <2>1 DEF RequestOK, Request
  <2>3. ASSUME NEW p \in Requests \ {q} PROVE pc'[p] = pc[p] /\ reply'[p] = reply[p]
    BY <1>3, <2>2 DEF Serve, ReadBlind, ReadState, PublishLabel, PublishSet, PublishDelist,
                      SkipDelist, Goto, Finish, TypeOK
  <2>4. CASE ReadBlind(q) \/ SkipDelist(q) \/ PublishSet(q)
    <3>1. AllLabels' = AllLabels
      BY <2>4 DEF ReadBlind, SkipDelist, PublishSet, AllLabels
    <3>2. Claims(q)' => HasBadge(q)
      BY <2>4, <2>1, <2>2 DEF ReadBlind, SkipDelist, PublishSet, Goto, Finish, TypeOK, RequestOK,
                              InFlight, BadgeFirst
    <3>. QED
      BY <2>1, <2>3, <3>1, <3>2, <1>1 DEF HasBadge
  <2>5. CASE ReadState(q)
    <3>1. AllLabels' = AllLabels
      BY <2>5 DEF ReadState, AllLabels
    <3>2. PICK answered \in Answers, got \in LabelReads :
            LET v == [sets |-> SelectLatest(SetsAt(answered)), labels |-> CollapseLabels(got)]
            IN IF AlreadyAttested(q, v)
               THEN Finish(q, "idempotent")
               ELSE pc' = [pc EXCEPT ![q] = AfterRead(q, v)] /\ UNCHANGED reply
      BY <2>5, Zenon DEF ReadState
    <3> DEFINE v == [sets |-> SelectLatest(SetsAt(answered)), labels |-> CollapseLabels(got)]
    <3>3. v.labels \subseteq AllLabels
      BY ReadType
    <3>. HIDE DEF v
    <3>4. Claims(q)' => HasBadge(q)
      <4>1. CASE AlreadyAttested(q, v)
        BY <3>3, <4>1 DEF AlreadyAttested, HasBadge
      <4>2. CASE ~AlreadyAttested(q, v)
        <5>1. pc' = [pc EXCEPT ![q] = AfterRead(q, v)] /\ UNCHANGED reply
          BY <3>2, <4>2 DEF v
        <5>. QED
          BY <5>1, <2>1, <2>2 DEF AfterRead, TypeOK, RequestOK, InFlight
      <4>. QED
        BY <4>1, <4>2
    <3>. QED
      BY <2>1, <2>3, <3>1, <3>4, <1>1 DEF HasBadge
  <2>6. CASE PublishLabel(q)
    <3>. PICK now \in Clock, out \in Outcomes :
           \E t \in SignAt(now, {l.at : l \in Existing(q)}) :
             /\ StoreLabel([coord |-> req[q].coord, ver |-> req[q].ver, on |-> TRUE, at |-> t],
                           out.stored)
             /\ out.ok \/ Finish(q, "unavailable")
      BY <2>6 DEF PublishLabel
    <3>1. PICK at \in SignAt(now, {l.at : l \in Existing(q)}) :
             /\ StoreLabel([coord |-> req[q].coord, ver |-> req[q].ver, on |-> TRUE, at |-> at],
                           out.stored)
             /\ out.ok \/ Finish(q, "unavailable")
      OBVIOUS
    <3> DEFINE label == [coord |-> req[q].coord, ver |-> req[q].ver, on |-> TRUE, at |-> at]
    <3>2. AllLabels \subseteq AllLabels' /\ (out.ok => label \in AllLabels')
      BY <3>1, OutcomeType, StoreLabelGrows
    <3>3. CASE out.ok
      <4>1. label \in AllLabels'
        BY <3>2, <3>3
      <4>2. HasBadge(q)'
        BY <4>1, <2>1 DEF HasBadge
      <4>. HIDE DEF Claims
      <4>. QED
        BY <4>2, <3>2, <2>1, <2>3, <1>1
    <3>4. CASE ~out.ok
      <4>1. ~Claims(q)'
        BY <3>1, <3>4 DEF Finish, TypeOK
      <4>. HIDE DEF Claims
      <4>. QED
        BY <4>1, <3>2, <2>1, <2>3, <1>1
    <3>. QED
      BY <3>3, <3>4
  <2>7. CASE PublishDelist(q)
    <3>. PICK answered \in Answers, now \in Clock, out \in Outcomes :
           \E w \in DelistIds(q, answered), t \in SignAt(now, {l.at : l \in Existing(q)}) :
             StoreLabel([coord |-> req[q].coord, ver |-> w, on |-> FALSE, at |-> t], out.stored)
      BY <2>7 DEF PublishDelist
    <3>1. AllLabels \subseteq AllLabels'
      BY OutcomeType, StoreLabelGrows
    <3>2. req'[q].op # "attest"
      BY <2>7, <2>1 DEF PublishDelist, RequestOK
    <3>. QED
      BY <2>1, <2>3, <3>1, <3>2, <1>1
  <2>. QED
    BY <1>3, <2>4, <2>5, <2>6, <2>7 DEF Serve
<1>4. CASE Crash \/ (\E c \in Coords : EditBoard(c)) \/ UNCHANGED vars
  <2>1. AllLabels' = AllLabels /\ req' = req
    BY <1>4 DEF Crash, EditBoard, vars, AllLabels
  <2>2. \A p \in Requests : Claims(p)' => Claims(p)
    BY <1>4 DEF Crash, EditBoard, vars, TypeOK
  <2>. QED
    BY <2>1, <2>2 DEF BadgeFirst, HasBadge
<1>. QED
  BY <1>2, <1>3, <1>4 DEF Next, Served

-----------------------------------------------------------------------------
(* The theorems.                                                           *)

LEMMA InvNext == IInv /\ [Next]_vars => IInv'
  BY TypeNext, RequestNext, ProvenanceNext, BadgeNext DEF IInv

LEMMA Invariance == Spec => []IInv
  BY InitInv, InvNext, PTL DEF Spec

\* The types of the model are never left.
THEOREM TypeCorrect == Spec => []TypeOK
<1>1. IInv => TypeOK
  BY DEF IInv
<1>. QED
  BY <1>1, Invariance, PTL

\* Whatever interleaves or fails in issue.ts, an attested label on a relay pins
\* a conforming version that the gate of attest.ts accepted from the board's
\* owner or an operator, and the allowlist lists only such boards.
THEOREM PublishedWasAdmitted == Spec => []Provenance
<1>1. IInv => Provenance
  BY DEF IInv
<1>. QED
  BY <1>1, Invariance, PTL

\* An attest answered 200 has its label on some relay for good: publishOrThrow
\* fails closed, and the idempotent return rests on a label that was read.
THEOREM AnsweredMeansDurable == Spec => []SuccessIsDurable
<1>1. IInv => SuccessIsDurable
  BY DEF IInv, BadgeFirst, HasBadge, SuccessIsDurable
<1>. QED
  BY <1>1, Invariance, PTL

-----------------------------------------------------------------------------
(* Serialised requests over complete reads: what the carriers promise when *)
(* no two requests are in flight and every query is answered in full,      *)
(* whatever else fails (publishes that reach some relays only, lost OKs,   *)
(* crashes, any clock).                                                    *)

Serialised == Concurrency = 1 /\ "read" \notin Faults

OneAtATime == \A p, q \in Active : p = q

\* The newest set and the newest label of each board exist: nothing on the
\* relays was signed at a time that a later event does not exceed.
HasLatest ==
  /\ AllSets # {} => SelectLatest(AllSets) # {}
  /\ \A l \in AllLabels : \E m \in CollapseLabels(AllLabels) : m.coord = l.coord

\* What a request has read is what the carriers still say, but for what it has
\* since published itself.
Current(q) ==
  /\ pc[q] \in {"label", "set"} => view[q].sets = SelectLatest(AllSets)
  /\ pc[q] = "label" \/ (pc[q] \in {"set", "delist"} /\ req[q].op = "revoke")
       => view[q].labels = CollapseLabels(AllLabels)
  /\ (pc[q] = "set" /\ req[q].op = "attest") =>
       Attested = AttestedCoords(view[q]) \cup {req[q].coord}
  /\ pc[q] = "delist" => Listed = Attested \ {req[q].coord}

ViewIsCurrent == \A q \in Requests : Current(q)

SInv == IInv /\ OneAtATime /\ HasLatest /\ ViewIsCurrent /\ ListedIsAttested

-----------------------------------------------------------------------------
(* Selection after a newer event.                                          *)

LEMMA SelectNewest ==
  ASSUME NEW S \in SUBSET SetEvent, NEW e \in SetEvent, \A f \in S : e.at > f.at
  PROVE  SelectLatest(S \cup {e}) = {e}
<1>1. \A f \in S : Wins(e, f) /\ ~Wins(f, e)
  BY DEF Wins, SetEvent
<1>2. Wins(e, e)
  BY DEF Wins
<1>. QED
  BY <1>1, <1>2 DEF SelectLatest

LEMMA CollapseNewest ==
  ASSUME NEW L \in SUBSET LabelEvent, NEW l \in LabelEvent,
         \A m \in L : m.coord = l.coord => l.at > m.at
  PROVE  CollapseLabels(L \cup {l}) = {m \in CollapseLabels(L) : m.coord # l.coord} \cup {l}
<1>1. \A m \in L : m.coord = l.coord => Wins(l, m) /\ ~Wins(m, l)
  BY DEF Wins, LabelEvent
<1>2. Wins(l, l)
  BY DEF Wins
<1>. QED
  BY <1>1, <1>2 DEF CollapseLabels

\* Newer than the latest is newer than all.
LEMMA NewerThanSets ==
  ASSUME NEW S \in SUBSET SetEvent, S # {} => SelectLatest(S) # {}, NEW at \in Nat,
         \A e \in SelectLatest(S) : at > e.at
  PROVE  \A f \in S : at > f.at
<1> SUFFICES ASSUME NEW f \in S PROVE at > f.at
  OBVIOUS
<1>1. PICK e \in SelectLatest(S) : Wins(e, f)
  BY DEF SelectLatest
<1>2. e.at \in Nat /\ f.at \in Nat
  BY SelectLatestSubset DEF SetEvent
<1>3. e.at >= f.at
  BY <1>1, <1>2 DEF Wins
<1>4. at > e.at
  OBVIOUS
<1>. QED
  BY <1>2, <1>3, <1>4

LEMMA NewerThanLabels ==
  ASSUME NEW L \in SUBSET LabelEvent, NEW c, NEW at \in Nat,
         \A l \in L : \E m \in CollapseLabels(L) : m.coord = l.coord,
         \A m \in CollapseLabels(L) : m.coord = c => at > m.at
  PROVE  \A l \in L : l.coord = c => at > l.at
<1> SUFFICES ASSUME NEW l \in L, l.coord = c PROVE at > l.at
  OBVIOUS
<1>1. PICK m \in CollapseLabels(L) : m.coord = c
  OBVIOUS
<1>2. m \in L /\ Wins(m, l)
  BY <1>1 DEF CollapseLabels
<1>3. m.at \in Nat /\ l.at \in Nat
  BY <1>2 DEF LabelEvent
<1>4. m.at >= l.at
  BY <1>2, <1>3 DEF Wins
<1>5. at > m.at
  BY <1>1
<1>. QED
  BY <1>3, <1>4, <1>5

LEMMA CarrierTypes == TypeOK => AllSets \in SUBSET SetEvent /\ AllLabels \in SUBSET LabelEvent
  BY DEF TypeOK, AllSets, SetsAt, AllLabels

-----------------------------------------------------------------------------
(* What publishing the newest event of its kind does to the carriers.      *)

LEMMA StoreSetEffect ==
  ASSUME TypeOK, HasLatest, NEW e \in SetEvent, NEW stored \in SUBSET Relays,
         StoreSet(e, stored), UNCHANGED labels,
         \A f \in SelectLatest(AllSets) : e.at > f.at
  PROVE  /\ HasLatest' /\ Attested' = Attested
         /\ CollapseLabels(AllLabels)' = CollapseLabels(AllLabels)
         /\ stored = {} => SelectLatest(AllSets)' = SelectLatest(AllSets) /\ Listed' = Listed
         /\ stored # {} => Listed' = e.coords
<1>1. \A f \in AllSets : e.at > f.at
  <2>. e.at \in Nat
    BY DEF SetEvent
  <2>. QED
    BY CarrierTypes, NewerThanSets DEF HasLatest
<1>2. AllLabels' = AllLabels
  BY DEF AllLabels
<1>3. \A r \in Relays : sets[r] \in SUBSET SetEvent /\ \A f \in sets[r] : e.at > f.at
  BY <1>1 DEF TypeOK, AllSets, SetsAt
<1>4. \A r \in Relays : SelectLatest(sets[r] \cup {e}) = {e}
  BY <1>3, SelectNewest
<1>5. sets' = [r \in Relays |-> IF r \in stored THEN {e} ELSE sets[r]]
  BY <1>4 DEF StoreSet
<1>6. CASE stored = {}
  <2>1. AllSets' = AllSets
    BY <1>5, <1>6 DEF AllSets, SetsAt, TypeOK
  <2>. QED
    BY <1>2, <1>6, <2>1 DEF HasLatest, Listed, Attested
<1>7. CASE stored # {}
  <2> DEFINE T == UNION {sets[r] : r \in Relays \ stored}
  <2>1. AllSets' = T \cup {e}
    BY <1>5, <1>7 DEF AllSets, SetsAt
  <2>2. T \in SUBSET SetEvent /\ \A f \in T : e.at > f.at
    BY <1>3
  <2>3. SelectLatest(AllSets') = {e}
    BY <2>1, <2>2, SelectNewest
  <2>4. UNION {x.coords : x \in {e}} = e.coords
    OBVIOUS
  <2>. QED
    BY <1>2, <1>7, <2>3, <2>4 DEF HasLatest, Listed, Attested
<1>. QED
  BY <1>6, <1>7

LEMMA StoreLabelEffect ==
  ASSUME TypeOK, HasLatest, NEW l \in LabelEvent, NEW stored \in SUBSET Relays,
         StoreLabel(l, stored), UNCHANGED sets,
         \A m \in CollapseLabels(AllLabels) : m.coord = l.coord => l.at > m.at
  PROVE  /\ HasLatest' /\ Listed' = Listed
         /\ SelectLatest(AllSets)' = SelectLatest(AllSets)
         /\ stored = {} => Attested' = Attested
         /\ stored # {} =>
              Attested' = IF l.on THEN Attested \cup {l.coord} ELSE Attested \ {l.coord}
<1>1. \A m \in AllLabels : m.coord = l.coord => l.at > m.at
  <2>. l.at \in Nat
    BY DEF LabelEvent
  <2>. QED
    BY CarrierTypes, NewerThanLabels DEF HasLatest
<1>2. AllSets' = AllSets
  BY DEF AllSets, SetsAt
<1>3. CASE stored = {}
  <2>1. AllLabels' = AllLabels
    BY <1>3 DEF StoreLabel, AllLabels, TypeOK
  <2>. QED
    BY <1>2, <1>3, <2>1 DEF HasLatest, Listed, Attested
<1>4. CASE stored # {}
  <2>1. AllLabels' = AllLabels \cup {l}
    BY <1>4, StoreLabelGrows
  <2>2. CollapseLabels(AllLabels') =
          {m \in CollapseLabels(AllLabels) : m.coord # l.coord} \cup {l}
    BY <1>1, <2>1, CarrierTypes, CollapseNewest
  <2>3. \A m \in AllLabels' : \E k \in CollapseLabels(AllLabels') : k.coord = m.coord
    BY <2>1, <2>2 DEF HasLatest
  <2>4. Attested' = IF l.on THEN Attested \cup {l.coord} ELSE Attested \ {l.coord}
    BY <2>2 DEF Attested
  <2>. QED
    BY <1>2, <1>4, <2>3, <2>4 DEF HasLatest, Listed
<1>. QED
  BY <1>3, <1>4

-----------------------------------------------------------------------------
(* What a publish step signs, and where it leaves its request.             *)

LEMMA LabelPublished ==
  ASSUME IInv, NEW q \in Requests, PublishLabel(q)
  PROVE  /\ pc[q] = "label" /\ req[q] \in Request /\ req[q].op = "attest"
         /\ UNCHANGED <<sets, boards, req>>
         /\ \E l \in LabelEvent, stored \in SUBSET Relays :
              /\ StoreLabel(l, stored)
              /\ l.on /\ l.coord = req[q].coord
              /\ \A m \in Existing(q) : l.at > m.at
              /\ \/ Finish(q, "unavailable")
                 \/ stored # {} /\ Goto(q, "set")
                 \/ stored # {} /\ ~Republishes(q, view[q]) /\ Finish(q, "ok")
<1>1. PICK now \in Clock, out \in Outcomes :
        \E t \in SignAt(now, {l.at : l \in Existing(q)}) :
          /\ StoreLabel([coord |-> req[q].coord, ver |-> req[q].ver, on |-> TRUE, at |-> t],
                        out.stored)
          /\ \/ Finish(q, "unavailable")
             \/ out.ok /\ Goto(q, "set")
             \/ out.ok /\ ~Republishes(q, view[q]) /\ Finish(q, "ok")
  BY DEF PublishLabel
<1>. PICK at \in SignAt(now, {l.at : l \in Existing(q)}) :
          /\ StoreLabel([coord |-> req[q].coord, ver |-> req[q].ver, on |-> TRUE, at |-> at],
                        out.stored)
          /\ \/ Finish(q, "unavailable")
             \/ out.ok /\ Goto(q, "set")
             \/ out.ok /\ ~Republishes(q, view[q]) /\ Finish(q, "ok")
  BY <1>1
<1> DEFINE l == [coord |-> req[q].coord, ver |-> req[q].ver, on |-> TRUE, at |-> at]
<1>2. pc[q] = "label" /\ UNCHANGED <<sets, boards, req>>
  BY DEF PublishLabel
<1>3. req[q] \in Request /\ req[q].op = "attest" /\ req[q].ver \in Versions
  BY <1>2, VersionsAssumption DEF IInv, RequestOK, InFlight, Authorised
<1>4. at \in Nat /\ \A m \in Existing(q) : at > m.at
  <2>1. {m.at : m \in Existing(q)} \subseteq Nat
    BY DEF Existing, IInv, TypeOK, View, LabelEvent
  <2>. QED
    BY <2>1, SignAtType DEF SignAt
<1>5. l \in LabelEvent
  BY <1>3, <1>4 DEF LabelEvent, Request
<1>6. out.stored \in SUBSET Relays /\ (out.ok => out.stored # {})
  BY OutcomeType
<1>7. StoreLabel(l, out.stored) /\ l.on /\ l.coord = req[q].coord /\ l.at = at
  OBVIOUS
<1>. HIDE DEF l
<1>. QED
  BY <1>2, <1>3, <1>4, <1>5, <1>6, <1>7

LEMMA SetPublished ==
  ASSUME IInv, NEW q \in Requests, PublishSet(q)
  PROVE  /\ pc[q] = "set" /\ req[q] \in Request
         /\ UNCHANGED <<labels, boards, req>>
         /\ \E e \in SetEvent, stored \in SUBSET Relays :
              /\ StoreSet(e, stored)
              /\ e.coords = Target(q, view[q])
              /\ \A f \in view[q].sets : e.at > f.at
              /\ \/ Finish(q, "unavailable")
                 \/ stored # {} /\ req[q].op = "attest" /\ Finish(q, "ok")
                 \/ stored # {} /\ req[q].op = "revoke" /\ Goto(q, "delist")
<1>1. req[q] \in Request /\ (req[q].op = "attest" \/ req[q].op = "revoke")
  BY DEF PublishSet, IInv, RequestOK, InFlight, Request
<1>2. PICK now \in Clock, out \in Outcomes :
        \E t \in SignAt(now, {e.at : e \in view[q].sets}) :
          /\ StoreSet([coords |-> Target(q, view[q]), at |-> t], out.stored)
          /\ \/ Finish(q, "unavailable")
             \/ out.ok /\ req[q].op = "attest" /\ Finish(q, "ok")
             \/ out.ok /\ req[q].op = "revoke" /\ Goto(q, "delist")
  BY <1>1 DEF PublishSet
<1>. PICK at \in SignAt(now, {e.at : e \in view[q].sets}) :
          /\ StoreSet([coords |-> Target(q, view[q]), at |-> at], out.stored)
          /\ \/ Finish(q, "unavailable")
             \/ out.ok /\ req[q].op = "attest" /\ Finish(q, "ok")
             \/ out.ok /\ req[q].op = "revoke" /\ Goto(q, "delist")
  BY <1>2
<1> DEFINE e == [coords |-> Target(q, view[q]), at |-> at]
<1>3. pc[q] = "set" /\ UNCHANGED <<labels, boards, req>>
  BY DEF PublishSet
<1>4. at \in Nat /\ \A f \in view[q].sets : at > f.at
  <2>1. {f.at : f \in view[q].sets} \subseteq Nat
    BY DEF IInv, TypeOK, View, SetEvent
  <2>. QED
    BY <2>1, SignAtType DEF SignAt
<1>5. e \in SetEvent
  <2>1. Target(q, view[q]) \subseteq Coords
    BY <1>3, TargetAdmitted DEF IInv, InFlight
  <2>. QED
    BY <1>4, <2>1 DEF SetEvent
<1>6. out.stored \in SUBSET Relays /\ (out.ok => out.stored # {})
  BY OutcomeType
<1>7. StoreSet(e, out.stored) /\ e.coords = Target(q, view[q]) /\ e.at = at
  OBVIOUS
<1>. HIDE DEF e
<1>. QED
  BY <1>1, <1>3, <1>4, <1>5, <1>6, <1>7

LEMMA DelistPublished ==
  ASSUME IInv, NEW q \in Requests, PublishDelist(q)
  PROVE  /\ pc[q] = "delist" /\ req[q] \in Request /\ req[q].op = "revoke"
         /\ UNCHANGED <<sets, boards, req>>
         /\ \E l \in LabelEvent, stored \in SUBSET Relays :
              /\ StoreLabel(l, stored)
              /\ ~l.on /\ l.coord = req[q].coord
              /\ \A m \in Existing(q) : l.at > m.at
              /\ Finish(q, "unavailable") \/ (stored # {} /\ Finish(q, "ok"))
<1>1. PICK answered \in Answers, now \in Clock, out \in Outcomes :
        \E v \in DelistIds(q, answered), t \in SignAt(now, {l.at : l \in Existing(q)}) :
          /\ StoreLabel([coord |-> req[q].coord, ver |-> v, on |-> FALSE, at |-> t], out.stored)
          /\ Finish(q, "unavailable") \/ (out.ok /\ Finish(q, "ok"))
  BY DEF PublishDelist
<1>. PICK ver \in DelistIds(q, answered), at \in SignAt(now, {l.at : l \in Existing(q)}) :
        /\ StoreLabel([coord |-> req[q].coord, ver |-> ver, on |-> FALSE, at |-> at], out.stored)
        /\ Finish(q, "unavailable") \/ (out.ok /\ Finish(q, "ok"))
  BY <1>1
<1> DEFINE l == [coord |-> req[q].coord, ver |-> ver, on |-> FALSE, at |-> at]
<1>2. pc[q] = "delist" /\ UNCHANGED <<sets, boards, req>>
  BY DEF PublishDelist
<1>3. req[q] \in Request /\ req[q].op = "revoke" /\ Existing(q) \subseteq LabelEvent
  BY <1>2 DEF IInv, RequestOK, InFlight, Existing, TypeOK, View
<1>4. at \in Nat /\ \A m \in Existing(q) : at > m.at
  <2>1. {m.at : m \in Existing(q)} \subseteq Nat
    BY <1>3 DEF LabelEvent
  <2>. QED
    BY <2>1, SignAtType DEF SignAt
<1>5. ver \in Versions
  <2>1. CASE req[q].ver # 0
    BY <1>3, <2>1 DEF DelistIds, Request
  <2>2. CASE req[q].ver = 0 /\ Existing(q) # {}
    BY <1>3, <2>2 DEF DelistIds, LabelEvent
  <2>3. CASE req[q].ver = 0 /\ Existing(q) = {}
    BY <2>3, VersionsAssumption DEF DelistIds, FetchBoard
  <2>. QED
    BY <2>1, <2>2, <2>3
<1>6. l \in LabelEvent
  BY <1>3, <1>4, <1>5 DEF LabelEvent, Request
<1>7. out.stored \in SUBSET Relays /\ (out.ok => out.stored # {})
  BY OutcomeType
<1>8. StoreLabel(l, out.stored) /\ ~l.on /\ l.coord = req[q].coord /\ l.at = at
  OBVIOUS
<1>. HIDE DEF l
<1>. QED
  BY <1>2, <1>3, <1>4, <1>6, <1>7, <1>8

-----------------------------------------------------------------------------
(* What each step of the one request in flight does to the carriers.       *)

LEMMA SerialReads ==
  ASSUME Serialised
  PROVE  Answers = {Relays} /\ LabelReads = {AllLabels}
  BY DEF Serialised, Answers, LabelReads

\* The floor of an up-to-date view is the attested boards, since every listed
\* board is one.
LEMMA FloorIsAttested ==
  ASSUME SInv, NEW q \in Requests, pc[q] \in {"label", "set"}
  PROVE  /\ SetCoords(view[q]) = Listed
         /\ SetCoords(view[q]) \cup AttestedCoords(view[q]) \cup {req[q].coord}
              = Attested \cup {req[q].coord}
         /\ (pc[q] = "label" \/ req[q].op = "revoke") => AttestedCoords(view[q]) = Attested
<1>1. SetCoords(view[q]) = Listed
  BY DEF SInv, ViewIsCurrent, Current, SetCoords, Listed
<1>2. (pc[q] = "label" \/ req[q].op = "revoke") => AttestedCoords(view[q]) = Attested
  BY DEF SInv, ViewIsCurrent, Current, AttestedCoords, Attested
<1>3. pc[q] = "set" /\ req[q].op = "attest" =>
        Attested = AttestedCoords(view[q]) \cup {req[q].coord}
  BY DEF SInv, ViewIsCurrent, Current
<1>4. req[q].op = "attest" \/ req[q].op = "revoke"
  BY DEF SInv, IInv, RequestOK, InFlight, Request
<1>5. Listed \subseteq Attested
  BY DEF SInv, ListedIsAttested
<1>. QED
  BY <1>1, <1>2, <1>3, <1>4, <1>5

\* The label: the board becomes attested, or nothing was stored and the
\* request fails; what is left to do is to list the attested boards.
LEMMA LabelStep ==
  ASSUME SInv, NEW q \in Requests, PublishLabel(q)
  PROVE  /\ HasLatest' /\ Listed' = Listed
         /\ SelectLatest(AllSets)' = SelectLatest(AllSets)
         /\ Attested' = Attested \/ Attested' = Attested \cup {req[q].coord}
         /\ pc'[q] \in {"set", "done"}
         /\ pc'[q] = "set" => /\ view' = view
                              /\ Attested' = AttestedCoords(view[q]) \cup {req[q].coord}
         /\ Answers200(q) => Listed' = Attested'
<1>. USE DEF SInv
<1>1. /\ pc[q] = "label" /\ req[q] \in Request /\ req[q].op = "attest"
      /\ UNCHANGED <<sets, req>>
  BY LabelPublished
<1>2. PICK l \in LabelEvent, stored \in SUBSET Relays :
        /\ StoreLabel(l, stored)
        /\ l.on /\ l.coord = req[q].coord
        /\ \A m \in Existing(q) : l.at > m.at
        /\ \/ Finish(q, "unavailable")
           \/ stored # {} /\ Goto(q, "set")
           \/ stored # {} /\ ~Republishes(q, view[q]) /\ Finish(q, "ok")
  BY LabelPublished
<1>3. \A m \in CollapseLabels(AllLabels) : m.coord = l.coord => l.at > m.at
  BY <1>1, <1>2 DEF ViewIsCurrent, Current, Existing
<1>4. /\ HasLatest' /\ Listed' = Listed
      /\ SelectLatest(AllSets)' = SelectLatest(AllSets)
      /\ stored = {} => Attested' = Attested
      /\ stored # {} => Attested' = Attested \cup {req[q].coord}
  BY <1>1, <1>2, <1>3, StoreLabelEffect DEF IInv
<1>5. pc'[q] \in {"set", "done"} /\ (pc'[q] = "set" => view' = view /\ stored # {})
  BY <1>2 DEF Finish, Goto, IInv, TypeOK
<1>6. Answers200(q) => stored # {} /\ ~Republishes(q, view[q])
  BY <1>2 DEF Answers200, Finish, Goto, IInv, TypeOK
<1>7. ~Republishes(q, view[q]) => Listed = Attested \cup {req[q].coord}
  BY <1>1, FloorIsAttested DEF Republishes, Target
<1>. QED
  BY <1>1, <1>4, <1>5, <1>6, <1>7, FloorIsAttested

\* The set: an attest lists the attested boards, a revoke all of them but its
\* own, or nothing was stored and the request fails.
LEMMA SetStep ==
  ASSUME SInv, NEW q \in Requests, PublishSet(q)
  PROVE  /\ HasLatest' /\ Attested' = Attested
         /\ CollapseLabels(AllLabels)' = CollapseLabels(AllLabels)
         /\ req[q] \in Request
         /\ \/ Listed' = Listed /\ ~Answers200(q) /\ pc'[q] = "done"
            \/ /\ req[q].op = "attest" /\ pc'[q] = "done"
               /\ Listed' = Attested
            \/ /\ req[q].op = "revoke" /\ pc'[q] \in {"delist", "done"}
               /\ pc'[q] = "delist" => view' = view
               /\ ~Answers200(q)
               /\ Listed' = Attested \ {req[q].coord}
<1>. USE DEF SInv
<1>1. pc[q] = "set" /\ req[q] \in Request /\ UNCHANGED <<labels, req>>
  BY SetPublished
<1>2. PICK e \in SetEvent, stored \in SUBSET Relays :
        /\ StoreSet(e, stored)
        /\ e.coords = Target(q, view[q])
        /\ \A f \in view[q].sets : e.at > f.at
        /\ \/ Finish(q, "unavailable")
           \/ stored # {} /\ req[q].op = "attest" /\ Finish(q, "ok")
           \/ stored # {} /\ req[q].op = "revoke" /\ Goto(q, "delist")
  BY SetPublished
<1>3. \A f \in SelectLatest(AllSets) : e.at > f.at
  BY <1>1, <1>2 DEF ViewIsCurrent, Current
<1>4. /\ HasLatest' /\ Attested' = Attested
      /\ CollapseLabels(AllLabels)' = CollapseLabels(AllLabels)
      /\ stored = {} => Listed' = Listed
      /\ stored # {} => Listed' = Target(q, view[q])
  BY <1>1, <1>2, <1>3, StoreSetEffect DEF IInv
<1>5. /\ req[q].op = "attest" => Target(q, view[q]) = Attested
      /\ req[q].op = "revoke" => Target(q, view[q]) = Attested \ {req[q].coord}
  <2>1. CASE req[q].op = "attest"
    <3>1. req[q].coord \in Attested
      BY <1>1, <2>1 DEF ViewIsCurrent, Current
    <3>. QED
      BY <1>1, <2>1, <3>1, FloorIsAttested DEF Target
  <2>2. CASE req[q].op = "revoke"
    BY <1>1, <2>2, FloorIsAttested DEF Target, ListedIsAttested
  <2>. QED
    BY <1>1, <2>1, <2>2 DEF Request
<1>6. CASE Finish(q, "unavailable")
  <2>1. pc'[q] = "done" /\ ~Answers200(q)
    BY <1>6 DEF Finish, Answers200, IInv, TypeOK
  <2>2. req[q].op = "attest" \/ req[q].op = "revoke"
    BY <1>1 DEF Request
  <2>. QED
    BY <1>1, <1>4, <1>5, <2>1, <2>2
<1>7. CASE stored # {} /\ req[q].op = "attest" /\ Finish(q, "ok")
  <2>1. pc'[q] = "done"
    BY <1>7 DEF Finish, IInv, TypeOK
  <2>. QED
    BY <1>1, <1>4, <1>5, <1>7, <2>1
<1>8. CASE stored # {} /\ req[q].op = "revoke" /\ Goto(q, "delist")
  <2>1. pc'[q] = "delist" /\ view' = view /\ ~Answers200(q)
    BY <1>8 DEF Goto, Answers200, IInv, TypeOK
  <2>. QED
    BY <1>1, <1>4, <1>5, <1>8, <2>1
<1>. QED
  BY <1>2, <1>6, <1>7, <1>8

\* The delist label, of a board that is off the set: it is attested no more,
\* or nothing was stored and the request fails.
LEMMA DelistStep ==
  ASSUME SInv, NEW q \in Requests, PublishDelist(q) \/ SkipDelist(q)
  PROVE  /\ HasLatest' /\ Listed' = Listed /\ pc'[q] = "done"
         /\ req[q] \in Request /\ req[q].coord \notin Listed
         /\ \/ Attested' = Attested /\ ~Answers200(q)
            \/ Attested' = Attested \ {req[q].coord} /\ Listed' = Attested'
<1>. USE DEF SInv
<1>1. pc[q] = "delist" /\ UNCHANGED <<sets, req>>
  BY DEF PublishDelist, SkipDelist
<1>2. req[q] \in Request /\ Existing(q) \subseteq LabelEvent
  BY <1>1 DEF IInv, RequestOK, InFlight, Existing, TypeOK, View
<1>3. /\ view[q].labels = CollapseLabels(AllLabels)
      /\ Listed = Attested \ {req[q].coord}
  BY <1>1 DEF ViewIsCurrent, Current, IInv, RequestOK
<1>4. CASE PublishDelist(q)
  <2>1. PICK l \in LabelEvent, stored \in SUBSET Relays :
          /\ StoreLabel(l, stored)
          /\ ~l.on /\ l.coord = req[q].coord
          /\ \A m \in Existing(q) : l.at > m.at
          /\ Finish(q, "unavailable") \/ (stored # {} /\ Finish(q, "ok"))
    BY <1>4, DelistPublished
  <2>2. \A m \in CollapseLabels(AllLabels) : m.coord = l.coord => l.at > m.at
    BY <1>3, <2>1 DEF Existing
  <2>3. /\ HasLatest' /\ Listed' = Listed
        /\ stored = {} => Attested' = Attested
        /\ stored # {} => Attested' = Attested \ {req[q].coord}
    BY <1>1, <2>1, <2>2, StoreLabelEffect DEF IInv
  <2>4. pc'[q] = "done" /\ (Answers200(q) => stored # {})
    BY <2>1 DEF Finish, Answers200, IInv, TypeOK
  <2>. QED
    BY <1>2, <1>3, <2>3, <2>4
<1>5. CASE SkipDelist(q)
  <2>1. UNCHANGED <<sets, labels>> /\ pc'[q] = "done"
    BY <1>5 DEF SkipDelist, Finish, IInv, TypeOK
  <2>2. HasLatest' /\ Listed' = Listed /\ Attested' = Attested
    BY <2>1 DEF HasLatest, Listed, Attested, AllSets, SetsAt, AllLabels
  <2>3. Existing(q) = {}
    BY <1>5 DEF SkipDelist, DelistIds
  <2>4. req[q].coord \notin Attested
    BY <1>3, <2>3 DEF Existing, Attested
  <2>. QED
    BY <1>2, <1>3, <2>1, <2>2, <2>4
<1>. QED
  BY <1>4, <1>5

-----------------------------------------------------------------------------
(* The inductive step.                                                     *)

\* A request is let in only when none is in flight.
LEMMA ArrivesAlone ==
  ASSUME Serialised, OneAtATime, NEW q \in Requests, Arrives(q)
  PROVE  Active = {}
<1> SUFFICES ASSUME NEW p \in Active PROVE FALSE
  OBVIOUS
<1>1. Active = {p}
  BY DEF OneAtATime
<1>2. Cardinality(Active) = 1
  BY <1>1, FS_Singleton
<1>. QED
  BY <1>2 DEF Arrives, Serialised

\* The request in flight moves alone.
LEMMA OthersStill ==
  ASSUME SInv, NEW q \in Requests, Serve(q)
  PROVE  /\ req' = req
         /\ \A p \in Requests \ {q} : pc'[p] = pc[p] /\ pc[p] \notin InFlight /\ reply'[p] = reply[p]
<1>1. req' = req /\ pc[q] \in InFlight
  BY DEF Serve, ReadBlind, ReadState, PublishLabel, PublishSet, PublishDelist, SkipDelist, InFlight
<1>2. req[q].op = "attest" \/ req[q].op = "revoke"
  BY <1>1 DEF SInv, IInv, RequestOK, Request
<1>3. ASSUME NEW p \in Requests \ {q} PROVE pc'[p] = pc[p] /\ reply'[p] = reply[p]
  BY <1>2 DEF SInv, IInv, TypeOK, Serve, ReadBlind, ReadState, PublishLabel, PublishSet,
              PublishDelist, SkipDelist, Goto, Finish
<1>4. ASSUME NEW p \in Requests \ {q} PROVE pc[p] \notin InFlight
  BY <1>1 DEF SInv, OneAtATime, Active
<1>. QED
  BY <1>1, <1>3, <1>4

\* So what is left to show of a step is about that request and the carriers.
LEMMA ServeKeeps ==
  ASSUME SInv, NEW q \in Requests, Serve(q), HasLatest', ListedIsAttested', Current(q)'
  PROVE  OneAtATime' /\ HasLatest' /\ ViewIsCurrent' /\ ListedIsAttested'
<1>1. \A p \in Requests \ {q} : pc'[p] \notin InFlight
  BY OthersStill
<1>2. OneAtATime'
  BY <1>1 DEF OneAtATime, Active
<1>3. \A p \in Requests \ {q} : Current(p)'
  BY <1>1 DEF Current, InFlight
<1>. QED
  BY <1>2, <1>3 DEF ViewIsCurrent

\* A request that reads everything starts from what the carriers say.
LEMMA ReadStep ==
  ASSUME Serialised, SInv, NEW q \in Requests, ReadState(q)
  PROVE  Current(q)' /\ ~Answers200(q) /\ UNCHANGED <<sets, labels>>
<1>. USE DEF SInv
<1> DEFINE v == [sets |-> SelectLatest(AllSets), labels |-> CollapseLabels(AllLabels)]
<1>1. SetsAt(Relays) = AllSets
  BY DEF AllSets
<1>2. \/ Finish(q, "idempotent")
      \/ /\ view' = [view EXCEPT ![q] = v]
         /\ pc'   = [pc EXCEPT ![q] = AfterRead(q, v)]
         /\ UNCHANGED reply
  <2>1. PICK answered \in Answers, got \in LabelReads :
          LET w == [sets |-> SelectLatest(SetsAt(answered)), labels |-> CollapseLabels(got)]
          IN \/ Finish(q, "idempotent")
             \/ /\ view' = [view EXCEPT ![q] = w]
                /\ pc'   = [pc EXCEPT ![q] = AfterRead(q, w)]
                /\ UNCHANGED reply
    BY Zenon DEF ReadState
  <2>2. answered = Relays /\ got = AllLabels
    BY SerialReads
  <2>. QED
    BY <1>1, <2>1, <2>2
<1>3. UNCHANGED <<sets, labels, req>> /\ pc[q] = "read"
  BY DEF ReadState
<1>4. /\ SelectLatest(AllSets)' = v.sets /\ CollapseLabels(AllLabels)' = v.labels
      /\ Listed' = Listed /\ Attested' = Attested
  BY <1>3 DEF AllSets, SetsAt, AllLabels, Listed, Attested
<1>5. CASE Finish(q, "idempotent")
  <2>1. pc'[q] = "done" /\ ~Answers200(q)
    BY <1>5 DEF Finish, Answers200, IInv, TypeOK
  <2>. QED
    BY <1>3, <2>1 DEF Current
<1>6. CASE /\ view' = [view EXCEPT ![q] = v]
           /\ pc'   = [pc EXCEPT ![q] = AfterRead(q, v)]
           /\ UNCHANGED reply
  <2>1. SetCoords(v) = Listed /\ AttestedCoords(v) = Attested
    BY DEF SetCoords, Listed, AttestedCoords, Attested
  <2>2. req[q].op = "attest" \/ req[q].op = "revoke"
    BY <1>3 DEF IInv, RequestOK, InFlight, Request
  <2>. HIDE DEF v
  <2>3. pc'[q] = AfterRead(q, v) /\ view'[q] = v /\ ~Answers200(q)
    BY <1>6 DEF Answers200, IInv, TypeOK
  <2>4. pc'[q] \in {"label", "set", "delist"}
    BY <2>3 DEF AfterRead
  <2>5. pc'[q] = "set" => req[q].op = "revoke"
    BY <2>2, <2>3 DEF AfterRead
  <2>6. pc'[q] = "delist" => Listed = Attested \ {req[q].coord}
    <3>1. pc'[q] = "delist" => Target(q, v) = SetCoords(v) /\ req[q].op = "revoke"
      BY <2>2, <2>3 DEF AfterRead, Republishes
    <3>2. req[q].op = "revoke" =>
            Target(q, v) = (SetCoords(v) \cup AttestedCoords(v)) \ {req[q].coord}
      BY DEF Target
    <3>. QED
      BY <2>1, <3>1, <3>2 DEF ListedIsAttested
  <2>7. req' = req /\ (pc'[q] = "set" => req'[q].op # "attest")
    BY <1>3, <2>2, <2>5
  <2>8. Current(q)'
    BY <1>3, <1>4, <2>3, <2>4, <2>6, <2>7 DEF Current
  <2>. QED
    BY <1>3, <2>3, <2>8
<1>. QED
  BY <1>2, <1>5, <1>6

LEMMA SerialNext ==
  ASSUME Serialised, SInv, [Next]_vars
  PROVE  OneAtATime' /\ HasLatest' /\ ViewIsCurrent' /\ ListedIsAttested'
<1>. USE DEF SInv
<1> DEFINE P == OneAtATime' /\ HasLatest' /\ ViewIsCurrent' /\ ListedIsAttested'
\* Steps that leave the carriers alone and put no request past its read.
<1>1. ASSUME UNCHANGED <<sets, labels>>, OneAtATime',
             \A p \in Requests :
               \/ pc'[p] \notin InFlight \/ pc'[p] = "read"
               \/ UNCHANGED <<pc[p], view[p], req[p]>>
      PROVE  P
  <2>1. AllSets' = AllSets /\ AllLabels' = AllLabels
    BY <1>1 DEF AllSets, SetsAt, AllLabels
  <2>2. Listed' = Listed /\ Attested' = Attested
    BY <2>1 DEF Listed, Attested
  <2>3. HasLatest' /\ ListedIsAttested'
    BY <2>1, <2>2 DEF HasLatest, ListedIsAttested
  <2>4. ASSUME NEW p \in Requests PROVE Current(p)'
    <3>1. CASE pc'[p] \notin InFlight \/ pc'[p] = "read"
      BY <3>1 DEF Current, InFlight
    <3>2. CASE UNCHANGED <<pc[p], view[p], req[p]>>
      <4>1. Current(p)
        BY DEF ViewIsCurrent
      <4>. QED
        BY <2>1, <2>2, <3>2, <4>1 DEF Current
    <3>. QED
      BY <1>1, <3>1, <3>2
  <2>. QED
    BY <1>1, <2>3, <2>4 DEF ViewIsCurrent
<1>2. ASSUME NEW q \in Requests, Attest(q) \/ Revoke(q) \/ Refuse(q) PROVE P
  <2>1. \A p \in Requests : pc[p] \notin InFlight
    BY <1>2, ArrivesAlone DEF Attest, Revoke, Refuse, Active
  <2>2. /\ UNCHANGED <<sets, labels>>
        /\ pc'[q] \in {"read", "done"}
        /\ \A p \in Requests \ {q} : pc'[p] = pc[p]
    BY <1>2 DEF Attest, Revoke, Refuse, Goto, Finish, IInv, TypeOK
  <2>3. OneAtATime'
    BY <2>1, <2>2 DEF OneAtATime, Active
  <2>4. \A p \in Requests : pc'[p] \notin InFlight \/ pc'[p] = "read"
    BY <2>1, <2>2 DEF InFlight
  <2>. QED
    BY <1>1, <2>2, <2>3, <2>4
<1>3. ASSUME NEW q \in Requests, ReadBlind(q) PROVE P
  <2>1. UNCHANGED <<sets, labels>> /\ pc'[q] = "done"
    BY <1>3 DEF ReadBlind, Finish, IInv, TypeOK
  <2>2. \A p \in Requests \ {q} : pc'[p] = pc[p] /\ pc[p] \notin InFlight
    BY <1>3, OthersStill DEF Serve
  <2>3. \A p \in Requests : pc'[p] \notin InFlight
    BY <2>1, <2>2 DEF InFlight
  <2>4. OneAtATime'
    BY <2>3 DEF OneAtATime, Active
  <2>. QED
    BY <1>1, <2>1, <2>3, <2>4
<1>4. ASSUME NEW q \in Requests, ReadState(q) PROVE P
  <2>1. Current(q)' /\ UNCHANGED <<sets, labels>>
    BY <1>4, ReadStep
  <2>2. AllSets' = AllSets /\ AllLabels' = AllLabels
    BY <2>1 DEF AllSets, SetsAt, AllLabels
  <2>3. HasLatest' /\ ListedIsAttested'
    BY <2>2 DEF HasLatest, ListedIsAttested, Listed, Attested
  <2>. QED
    BY <1>4, <2>1, <2>3, ServeKeeps DEF Serve
<1>5. ASSUME NEW q \in Requests, PublishLabel(q) PROVE P
  <2>1. req' = req /\ req[q].op = "attest"
    BY <1>5 DEF PublishLabel, IInv, RequestOK
  <2>2. /\ HasLatest' /\ Listed' = Listed /\ pc'[q] \in {"set", "done"}
        /\ Attested' = Attested \/ Attested' = Attested \cup {req[q].coord}
    BY <1>5, LabelStep
  <2>3. ListedIsAttested'
    BY <2>2 DEF ListedIsAttested
  <2>4. pc[q] = "label"
    BY <1>5 DEF PublishLabel
  <2>5. pc'[q] = "set" => /\ view'[q].sets = SelectLatest(AllSets)'
                          /\ Attested' = AttestedCoords(view'[q]) \cup {req[q].coord}
    BY <1>5, <2>4, LabelStep DEF ViewIsCurrent, Current
  <2>6. Current(q)'
    BY <2>1, <2>2, <2>5 DEF Current
  <2>. QED
    BY <1>5, <2>2, <2>3, <2>6, ServeKeeps DEF Serve
<1>6. ASSUME NEW q \in Requests, PublishSet(q) PROVE P
  <2>1. req' = req /\ pc[q] = "set"
    BY <1>6 DEF PublishSet
  <2>2. /\ HasLatest' /\ Attested' = Attested
        /\ CollapseLabels(AllLabels)' = CollapseLabels(AllLabels)
        /\ Listed' \subseteq Attested
        /\ pc'[q] \in {"delist", "done"}
        /\ pc'[q] = "delist" => /\ view' = view /\ req[q].op = "revoke"
                                /\ Listed' = Attested \ {req[q].coord}
    BY <1>6, SetStep DEF ListedIsAttested
  <2>3. ListedIsAttested'
    BY <2>2 DEF ListedIsAttested
  <2>4. Current(q)'
    <3>1. pc'[q] = "delist" => view'[q].labels = CollapseLabels(AllLabels)'
      BY <2>1, <2>2 DEF ViewIsCurrent, Current
    <3>. QED
      BY <2>1, <2>2, <3>1 DEF Current
  <2>. QED
    BY <1>6, <2>2, <2>3, <2>4, ServeKeeps DEF Serve
<1>7. ASSUME NEW q \in Requests, PublishDelist(q) \/ SkipDelist(q) PROVE P
  <2>1. /\ HasLatest' /\ Listed' = Listed /\ pc'[q] = "done"
        /\ Attested' = Attested \/ Listed' = Attested'
    BY <1>7, DelistStep
  <2>2. ListedIsAttested'
    BY <2>1 DEF ListedIsAttested
  <2>3. Current(q)'
    BY <2>1 DEF Current
  <2>. QED
    BY <1>7, <2>1, <2>2, <2>3, ServeKeeps DEF Serve
<1>8. CASE Crash
  <2>1. \A p \in Requests : pc'[p] \notin InFlight
    BY <1>8 DEF Crash, Active, InFlight
  <2>2. OneAtATime'
    BY <2>1 DEF OneAtATime, Active
  <2>. QED
    BY <1>8, <2>1, <2>2, <1>1 DEF Crash
<1>9. CASE (\E c \in Coords : EditBoard(c)) \/ UNCHANGED vars
  <2>1. UNCHANGED <<sets, labels, pc, view, req>>
    BY <1>9 DEF EditBoard, vars
  <2>2. OneAtATime'
    BY <2>1 DEF OneAtATime, Active
  <2>. QED
    BY <2>1, <2>2, <1>1
<1>. QED
  BY <1>2, <1>3, <1>4, <1>5, <1>6, <1>7, <1>8, <1>9 DEF Next, Serve, Served

LEMMA SerialInit == Init => SInv
<1> SUFFICES ASSUME Init PROVE SInv
  OBVIOUS
<1>1. AllSets = {} /\ AllLabels = {}
  BY DEF Init, AllSets, SetsAt, AllLabels
<1>2. \A q \in Requests : pc[q] = "new"
  BY DEF Init
<1>3. HasLatest /\ ListedIsAttested
  BY <1>1 DEF HasLatest, ListedIsAttested, Listed, SelectLatest
<1>4. OneAtATime /\ ViewIsCurrent
  BY <1>2 DEF OneAtATime, Active, InFlight, ViewIsCurrent, Current
<1>. QED
  BY <1>3, <1>4, InitInv DEF SInv

-----------------------------------------------------------------------------
(* What every step shows a reader of both carriers.                        *)

\* A step leaves the carriers alone or is one of the four abstract ones.
LEMMA StepShows ==
  ASSUME Serialised, SInv, [Next]_vars
  PROVE  /\ [Allowlist!Next]_<<Attested, Listed>>
         /\ \A q \in Requests : Answers200(q) =>
              /\ Listed' = Attested'
              /\ req[q].op = "revoke" => req[q].coord \notin Listed' \cup Attested'
<1>. USE DEF SInv
<1> DEFINE Steps == [Allowlist!Next]_<<Attested, Listed>>
           Agrees(q) == Answers200(q) =>
             /\ Listed' = Attested'
             /\ req[q].op = "revoke" => req[q].coord \notin Listed' \cup Attested'
<1>1. ASSUME UNCHANGED <<sets, labels>>, \A q \in Requests : ~Answers200(q)
      PROVE  Steps /\ (\A q \in Requests : Agrees(q))
  <2>1. AllSets' = AllSets /\ AllLabels' = AllLabels
    BY <1>1 DEF AllSets, SetsAt, AllLabels
  <2>2. Listed' = Listed /\ Attested' = Attested
    BY <2>1 DEF Listed, Attested
  <2>. QED
    BY <1>1, <2>2
<1>2. ASSUME NEW q \in Requests, Serve(q), Steps, Agrees(q)
      PROVE  Steps /\ (\A p \in Requests : Agrees(p))
  <2>1. \A p \in Requests \ {q} : ~Answers200(p)
    BY <1>2, OthersStill DEF Answers200
  <2>2. \A p \in Requests : Agrees(p)
    BY <1>2, <2>1
  <2>. QED
    BY <1>2, <2>2
<1>3. ASSUME NEW q \in Requests, Attest(q) \/ Revoke(q) \/ Refuse(q)
      PROVE  Steps /\ (\A p \in Requests : Agrees(p))
  <2>1. UNCHANGED <<sets, labels>> /\ \A p \in Requests : ~Answers200(p)
    BY <1>3 DEF Attest, Revoke, Refuse, Goto, Finish, Answers200, IInv, TypeOK
  <2>. QED
    BY <2>1, <1>1
<1>4. ASSUME NEW q \in Requests, ReadBlind(q)
      PROVE  Steps /\ (\A p \in Requests : Agrees(p))
  <2>1. UNCHANGED <<sets, labels>> /\ ~Answers200(q)
    BY <1>4 DEF ReadBlind, Finish, Answers200, IInv, TypeOK
  <2>2. \A p \in Requests : ~Answers200(p)
    BY <1>4, <2>1, OthersStill DEF Serve, Answers200
  <2>. QED
    BY <1>1, <2>1, <2>2
<1>5. ASSUME NEW q \in Requests, ReadState(q)
      PROVE  Steps /\ (\A p \in Requests : Agrees(p))
  <2>1. UNCHANGED <<sets, labels>> /\ \A p \in Requests : ~Answers200(p)
    BY <1>5, ReadStep, OthersStill DEF Serve, Answers200
  <2>. QED
    BY <2>1, <1>1
<1>6. ASSUME NEW q \in Requests, PublishLabel(q)
      PROVE  Steps /\ (\A p \in Requests : Agrees(p))
  <2>1. req[q] \in Request /\ req[q].op = "attest"
    BY <1>6 DEF PublishLabel, IInv, RequestOK, InFlight
  <2>2. /\ Listed' = Listed
        /\ Attested' = Attested \/ Attested' = Attested \cup {req[q].coord}
        /\ Answers200(q) => Listed' = Attested'
    BY <1>6, LabelStep
  <2>3. Steps
    BY <2>1, <2>2 DEF Allowlist!Next, Allowlist!Attest, Request
  <2>4. Agrees(q)
    BY <2>1, <2>2
  <2>. QED
    BY <1>2, <1>6, <2>3, <2>4 DEF Serve
<1>7. ASSUME NEW q \in Requests, PublishSet(q)
      PROVE  Steps /\ (\A p \in Requests : Agrees(p))
  <2>2. /\ Attested' = Attested /\ req[q] \in Request
        /\ \/ Listed' = Listed /\ ~Answers200(q)
           \/ Listed' = Attested /\ req[q].op = "attest"
           \/ /\ Listed' = Attested \ {req[q].coord} /\ req[q].op = "revoke"
              /\ ~Answers200(q)
    BY <1>7, SetStep
  <2>3. Steps
    BY <2>2 DEF Allowlist!Next, Allowlist!Relist, Allowlist!Withdraw, Request
  <2>4. Agrees(q)
    BY <2>2
  <2>. QED
    BY <1>2, <1>7, <2>3, <2>4 DEF Serve
<1>8. ASSUME NEW q \in Requests, PublishDelist(q) \/ SkipDelist(q)
      PROVE  Steps /\ (\A p \in Requests : Agrees(p))
  <2>1. /\ Listed' = Listed /\ req[q] \in Request /\ req[q].coord \notin Listed
        /\ \/ Attested' = Attested /\ ~Answers200(q)
           \/ Attested' = Attested \ {req[q].coord} /\ Listed' = Attested'
    BY <1>8, DelistStep
  <2>2. Steps
    BY <2>1 DEF Allowlist!Next, Allowlist!Delist, Request
  <2>3. Agrees(q)
    BY <2>1
  <2>. QED
    BY <1>2, <1>8, <2>2, <2>3 DEF Serve
<1>9. CASE Crash \/ (\E c \in Coords : EditBoard(c)) \/ UNCHANGED vars
  <2>1. UNCHANGED <<sets, labels>> /\ \A p \in Requests : ~Answers200(p)
    BY <1>9 DEF Crash, EditBoard, vars, Answers200, IInv, TypeOK
  <2>. QED
    BY <2>1, <1>1
<1>10. Steps /\ (\A q \in Requests : Agrees(q))
  BY <1>3, <1>4, <1>5, <1>6, <1>7, <1>8, <1>9 DEF Next, Serve, Served
<1>. QED
  BY <1>10

LEMMA SerialInvariance == ASSUME Serialised PROVE Spec => []SInv
<1>1. SInv /\ [Next]_vars => SInv'
  BY SerialNext, InvNext DEF SInv
<1>. QED
  BY <1>1, SerialInit, PTL DEF Spec

\* Requests one at a time over complete reads: issue.ts writes the label before
\* the set and revoke.ts the set before the label, so the set never lists a
\* board that its latest label does not attest, whichever publish fails.
THEOREM ListedAreAttested == ASSUME Serialised PROVE Spec => []ListedIsAttested
<1>1. SInv => ListedIsAttested
  BY DEF SInv
<1>. QED
  BY <1>1, SerialInvariance, PTL

\* A 200 leaves the two carriers in agreement, whatever earlier failures left
\* behind: the union floor of buildSet lists what the labels attest.
THEOREM SuccessRepairs == ASSUME Serialised PROVE Spec => OkMeansLockstep
<1>1. SInv /\ [Next]_vars => [\A q \in Requests : Answers200(q) => Listed' = Attested']_vars
  BY StepShows
<1>. QED
  BY <1>1, SerialInvariance, PTL DEF Spec, OkMeansLockstep

\* A revoke answered 200 has taken its board off both carriers, whatever the
\* clocks that signed them: created_at is bumped past what it supersedes.
THEOREM RevokeIsEffective == ASSUME Serialised PROVE Spec => RevokeTakesEffect
<1>1. SInv /\ [Next]_vars =>
        [\A q \in Requests : Answers200(q) /\ req[q].op = "revoke" =>
           req[q].coord \notin Listed' \cup Attested']_vars
  BY StepShows
<1>. QED
  BY <1>1, SerialInvariance, PTL DEF Spec, RevokeTakesEffect

\* The two carriers on the relays, written by issue.ts and revoke.ts with their
\* retries, failures and skewed clocks, implement one register of attested
\* boards with a derived index (module Allowlist).
THEOREM Refinement == ASSUME Serialised PROVE Spec => RefinesAllowlist
<1>1. Init => Allowlist!Init
  <2> SUFFICES ASSUME Init PROVE Allowlist!Init
    OBVIOUS
  <2>1. AllSets = {} /\ AllLabels = {}
    BY DEF Init, AllSets, SetsAt, AllLabels
  <2>. QED
    BY <2>1 DEF Allowlist!Init, Attested, Listed, CollapseLabels, SelectLatest
<1>2. SInv /\ [Next]_vars => [Allowlist!Next]_(Allowlist!vars)
  BY StepShows DEF Allowlist!vars
<1>. QED
  BY <1>1, <1>2, SerialInvariance, PTL DEF Spec, RefinesAllowlist, Allowlist!Spec

-----------------------------------------------------------------------------
(* Any number of writers, partial reads and every other fault: what a      *)
(* request that reads everything and writes undisturbed leaves behind.     *)

\* Event ids are hashes: two events that tie on created_at differ in theirs.
DistinctIds ==
  /\ \A e, f \in SetEvent : e.at = f.at /\ Id(e) = Id(f) => e = f
  /\ \A l, m \in LabelEvent : l.coord = m.coord /\ l.at = m.at /\ Id(l) = Id(m) => l = m
  /\ \A e \in SetEvent \cup LabelEvent : Id(e) \in Nat

\* What a fresh request has read is what the carriers say, but for what it has
\* since published itself.
Held(q) ==
  /\ pc[q] \in Writing
  /\ pc[q] \in {"label", "set"} => view[q].sets = SelectLatest(AllSets)
  /\ pc[q] = "label" \/ req[q].op = "revoke" => view[q].labels = CollapseLabels(AllLabels)
  /\ pc[q] = "set" /\ req[q].op = "attest" =>
       Attested = AttestedCoords(view[q]) \cup {req[q].coord}
  /\ pc[q] = "delist" => Listed = Target(q, view[q])

HInv == IInv /\ HasLatest /\ fresh \subseteq Requests /\ \A q \in fresh : Held(q)

\* Latest-wins is a total order on the sets, and on the labels of a board.
LEMMA WinsOrder ==
  ASSUME DistinctIds, NEW e, NEW f, NEW g,
         \/ {e, f, g} \subseteq SetEvent
         \/ {e, f, g} \subseteq LabelEvent /\ e.coord = f.coord /\ f.coord = g.coord
  PROVE  /\ Wins(e, f) \/ Wins(f, e)
         /\ Wins(e, f) /\ Wins(f, g) => Wins(e, g)
<1>1. e.at \in Nat /\ f.at \in Nat /\ g.at \in Nat
  BY DEF SetEvent, LabelEvent
<1>2. Id(e) \in Nat /\ Id(f) \in Nat /\ Id(g) \in Nat
  BY DEF DistinctIds
<1>3. e.at = f.at /\ Id(e) = Id(f) => e = f
  BY DEF DistinctIds
<1>. QED
  BY <1>1, <1>2, <1>3 DEF Wins

\* Whatever is stored, old or new, the relays keep a newest set ...
LEMMA SetsKeepLatest ==
  ASSUME TypeOK, HasLatest, DistinctIds, NEW e \in SetEvent, NEW stored \in SUBSET Relays,
         StoreSet(e, stored), UNCHANGED labels
  PROVE  HasLatest'
<1>1. AllLabels' = AllLabels
  BY DEF AllLabels
<1>2. AllSets' \subseteq AllSets \cup {e} /\ AllSets \subseteq SetEvent
  BY StoreSetBounds, CarrierTypes
<1>3. sets' = [r \in Relays |-> IF r \in stored THEN SelectLatest(sets[r] \cup {e}) ELSE sets[r]]
  BY DEF StoreSet
<1>4. ASSUME NEW w \in AllSets' , \A f \in AllSets \cup {e} : Wins(w, f)
      PROVE  HasLatest'
  <2>1. w \in SelectLatest(AllSets')
    BY <1>2, <1>4 DEF SelectLatest
  <2>. QED
    BY <1>1, <2>1 DEF HasLatest
<1>5. CASE stored = {}
  <2>1. AllSets' = AllSets
    BY <1>3, <1>5 DEF AllSets, SetsAt, TypeOK
  <2>. QED
    BY <1>1, <2>1 DEF HasLatest
<1>6. CASE stored # {}
  <2>1. PICK r \in stored : TRUE
    BY <1>6
  <2>2. \A s \in stored : sets[s] \subseteq AllSets /\ sets'[s] = SelectLatest(sets[s] \cup {e})
    BY <1>3 DEF AllSets, SetsAt
  <2>3. \A s \in Relays : sets'[s] \subseteq AllSets'
    BY DEF AllSets, SetsAt
  <2>4. CASE \A f \in AllSets : Wins(e, f)
    <3>1. \A f \in AllSets \cup {e} : Wins(e, f)
      BY <2>4 DEF Wins
    <3>2. e \in sets'[r]
      BY <2>1, <2>2, <3>1 DEF SelectLatest
    <3>. QED
      BY <2>1, <2>3, <3>1, <3>2, <1>4
  <2>5. CASE \E f \in AllSets : ~Wins(e, f)
    <3>1. PICK f \in AllSets : ~Wins(e, f)
      BY <2>5
    <3>2. PICK w \in AllSets : \A g \in AllSets : Wins(w, g)
      BY <3>1 DEF HasLatest, SelectLatest
    <3>3. Wins(w, e)
      <4>1. Wins(w, f)
        BY <3>1, <3>2
      <4>2. Wins(f, e)
        BY <1>2, <3>1, WinsOrder
      <4>. QED
        BY <1>2, <3>1, <3>2, <4>1, <4>2, WinsOrder
    <3>4. \A g \in AllSets \cup {e} : Wins(w, g)
      BY <3>2, <3>3
    <3>5. PICK s \in Relays : w \in sets[s]
      BY <3>2 DEF AllSets, SetsAt
    <3>6. w \in sets'[s]
      BY <1>3, <2>2, <3>4, <3>5 DEF SelectLatest
    <3>. QED
      BY <2>3, <3>4, <3>6, <1>4
  <2>. QED
    BY <2>4, <2>5
<1>. QED
  BY <1>5, <1>6

\* ... and a newest label of every board that has one.
LEMMA LabelsKeepLatest ==
  ASSUME TypeOK, HasLatest, DistinctIds, NEW l \in LabelEvent, NEW stored \in SUBSET Relays,
         StoreLabel(l, stored), UNCHANGED sets
  PROVE  HasLatest'
<1>1. AllSets' = AllSets
  BY DEF AllSets, SetsAt
<1>2. CASE stored = {}
  <2>1. AllLabels' = AllLabels
    BY <1>2 DEF StoreLabel, AllLabels, TypeOK
  <2>. QED
    BY <1>1, <2>1 DEF HasLatest
<1>3. CASE stored # {}
  <2>1. AllLabels' = AllLabels \cup {l} /\ AllLabels \subseteq LabelEvent
    BY <1>3, StoreLabelGrows, CarrierTypes
  <2>2. ASSUME NEW k \in AllLabels'
        PROVE  \E m \in CollapseLabels(AllLabels') : m.coord = k.coord
    <3>1. ASSUME NEW w \in AllLabels', w.coord = k.coord,
                 \A m \in AllLabels' : m.coord = k.coord => Wins(w, m)
          PROVE  \E m \in CollapseLabels(AllLabels') : m.coord = k.coord
      BY <3>1 DEF CollapseLabels
    <3>2. CASE k.coord # l.coord
      <4>1. PICK w \in CollapseLabels(AllLabels) : w.coord = k.coord
        BY <2>1, <3>2 DEF HasLatest
      <4>. QED
        BY <2>1, <3>1, <3>2, <4>1 DEF CollapseLabels
    <3>3. CASE k.coord = l.coord /\ \A m \in AllLabels : m.coord = l.coord => Wins(l, m)
      <4>1. Wins(l, l)
        BY DEF Wins
      <4>. QED
        BY <2>1, <3>1, <3>3, <4>1
    <3>4. CASE k.coord = l.coord /\ \E m \in AllLabels : m.coord = l.coord /\ ~Wins(l, m)
      <4>1. PICK f \in AllLabels : f.coord = l.coord /\ ~Wins(l, f)
        BY <3>4
      <4>2. PICK w \in CollapseLabels(AllLabels) : w.coord = l.coord
        BY <4>1 DEF HasLatest
      <4>3. w \in AllLabels /\ \A m \in AllLabels : m.coord = l.coord => Wins(w, m)
        BY <4>2 DEF CollapseLabels
      <4>4. Wins(f, l)
        BY <2>1, <4>1, WinsOrder
      <4>5. Wins(w, l)
        <5>1. Wins(w, f)
          BY <4>1, <4>3
        <5>. QED
          BY <2>1, <4>1, <4>2, <4>3, <4>4, <5>1, WinsOrder
      <4>. QED
        BY <2>1, <3>1, <3>4, <4>2, <4>3, <4>5
    <3>. QED
      BY <3>2, <3>3, <3>4
  <2>. QED
    BY <1>1, <2>2 DEF HasLatest
<1>. QED
  BY <1>2, <1>3

LEMMA LatestNext ==
  ASSUME IInv, HasLatest, DistinctIds, [Next]_vars
  PROVE  HasLatest'
<1>1. ASSUME NEW q \in Requests, PublishLabel(q) PROVE HasLatest'
  BY <1>1, LabelPublished, LabelsKeepLatest DEF IInv
<1>2. ASSUME NEW q \in Requests, PublishSet(q) PROVE HasLatest'
  BY <1>2, SetPublished, SetsKeepLatest DEF IInv
<1>3. ASSUME NEW q \in Requests, PublishDelist(q) PROVE HasLatest'
  BY <1>3, DelistPublished, LabelsKeepLatest DEF IInv
<1>4. ASSUME UNCHANGED <<sets, labels>> PROVE HasLatest'
  BY <1>4 DEF HasLatest, AllSets, SetsAt, AllLabels
<1>5. ASSUME NEW q \in Requests, \/ Attest(q) \/ Revoke(q) \/ Refuse(q)
                                 \/ ReadBlind(q) \/ ReadState(q) \/ SkipDelist(q)
      PROVE  UNCHANGED <<sets, labels>>
  BY <1>5 DEF Attest, Revoke, Refuse, ReadBlind, ReadState, SkipDelist
<1>6. CASE Crash \/ (\E c \in Coords : EditBoard(c)) \/ UNCHANGED vars
  BY <1>6, <1>4 DEF Crash, EditBoard, vars
<1>. QED
  BY <1>1, <1>2, <1>3, <1>4, <1>5, <1>6 DEF Next, Serve, Served

-----------------------------------------------------------------------------
(* A fresh request, from its read to its answer.                           *)

\* A request moves by a step of its own.
LEMMA MovesAlone ==
  ASSUME IInv, NEW q \in Requests, Attest(q) \/ Revoke(q) \/ Refuse(q) \/ Serve(q)
  PROVE  \A p \in Requests \ {q} :
           UNCHANGED <<pc[p], req[p], view[p], reply[p]>>
<1>1. CASE Attest(q) \/ Revoke(q) \/ Refuse(q)
  BY <1>1 DEF Attest, Revoke, Refuse, Goto, Finish, IInv, TypeOK
<1>2. CASE ReadBlind(q) \/ ReadState(q) \/ SkipDelist(q)
  BY <1>2 DEF ReadBlind, ReadState, SkipDelist, Finish, IInv, TypeOK
<1>3. CASE PublishLabel(q)
  BY <1>3, LabelPublished DEF Goto, Finish, IInv, TypeOK
<1>4. CASE PublishSet(q)
  BY <1>4, SetPublished DEF Goto, Finish, IInv, TypeOK
<1>5. CASE PublishDelist(q)
  BY <1>5, DelistPublished DEF Finish, IInv, TypeOK
<1>. QED
  BY <1>1, <1>2, <1>3, <1>4, <1>5 DEF Serve

LEMMA HeldStill ==
  ASSUME NEW q \in Requests, Held(q), UNCHANGED <<sets, labels, pc[q], req[q], view[q]>>
  PROVE  Held(q)'
<1>1. AllSets' = AllSets /\ AllLabels' = AllLabels
  BY DEF AllSets, SetsAt, AllLabels
<1>2. Listed' = Listed /\ Attested' = Attested
  BY <1>1 DEF Listed, Attested
<1>3. Target(q, view[q])' = Target(q, view[q])
  BY DEF Target
<1>. QED
  BY <1>1, <1>2, <1>3 DEF Held

\* It starts from a read that missed nothing.
LEMMA FreshRead ==
  ASSUME HInv, Remember, NEW q \in Requests, ReadState(q), pc'[q] \in Writing, view'[q] = Everything
  PROVE  Held(q)'
<1>. USE DEF HInv
<1>1. pc[q] = "read" /\ UNCHANGED <<sets, labels, req>>
  BY DEF ReadState
<1>2. AllSets' = AllSets /\ AllLabels' = AllLabels
  BY <1>1 DEF AllSets, SetsAt, AllLabels
<1>3. Listed' = Listed
  BY <1>2 DEF Listed
<1>4. req[q].op = "attest" \/ req[q].op = "revoke"
  BY <1>1 DEF IInv, RequestOK, InFlight, Request
<1>5. pc'[q] = AfterRead(q, view'[q])
  BY DEF ReadState, Finish, Writing, IInv, TypeOK
<1>6. pc'[q] \in {"set", "delist"} => req[q].op = "revoke"
  BY <1>4, <1>5 DEF AfterRead
<1>7. pc'[q] = "delist" => Target(q, view'[q]) = SetCoords(view'[q])
  BY <1>5 DEF AfterRead, Republishes
<1>8. SetCoords(Everything) = Listed
  BY DEF SetCoords, Everything, Listed
<1>9. pc'[q] = "delist" => (Listed = Target(q, view[q]))'
  BY <1>1, <1>3, <1>7, <1>8 DEF Target
<1>. QED
  BY <1>1, <1>2, <1>4, <1>6, <1>9 DEF Held, Everything

\* What it then publishes and answers.
LEMMA FreshLabel ==
  ASSUME HInv, NEW q \in fresh, PublishLabel(q)
  PROVE  /\ pc'[q] \in Writing => Held(q)'
         /\ Answers200(q) => Attested' \subseteq Listed'
<1>. USE DEF HInv
<1>1. /\ pc[q] = "label" /\ req[q] \in Request /\ req[q].op = "attest"
      /\ UNCHANGED <<sets, req>>
  BY LabelPublished
<1>2. PICK l \in LabelEvent, stored \in SUBSET Relays :
        /\ StoreLabel(l, stored)
        /\ l.on /\ l.coord = req[q].coord
        /\ \A m \in Existing(q) : l.at > m.at
        /\ \/ Finish(q, "unavailable")
           \/ stored # {} /\ Goto(q, "set")
           \/ stored # {} /\ ~Republishes(q, view[q]) /\ Finish(q, "ok")
  BY LabelPublished
<1>3. /\ view[q].sets = SelectLatest(AllSets)
      /\ view[q].labels = CollapseLabels(AllLabels)
  BY <1>1 DEF Held
<1>4. /\ Listed' = Listed
      /\ SelectLatest(AllSets)' = SelectLatest(AllSets)
      /\ stored # {} => Attested' = Attested \cup {req[q].coord}
  <2>1. \A m \in CollapseLabels(AllLabels) : m.coord = l.coord => l.at > m.at
    BY <1>2, <1>3 DEF Existing
  <2>. QED
    BY <1>1, <1>2, <2>1, StoreLabelEffect DEF IInv
<1>5. AttestedCoords(view[q]) = Attested /\ SetCoords(view[q]) = Listed
  BY <1>3 DEF AttestedCoords, Attested, SetCoords, Listed
<1>6. pc'[q] \in Writing => pc'[q] = "set" /\ view' = view /\ stored # {}
  BY <1>2 DEF Finish, Goto, Writing, IInv, TypeOK
<1>7. Answers200(q) => stored # {} /\ ~Republishes(q, view[q])
  BY <1>2 DEF Answers200, Finish, Goto, IInv, TypeOK
<1>8. ~Republishes(q, view[q]) => Attested \cup {req[q].coord} \subseteq Listed
  BY <1>1, <1>5 DEF Republishes, Target
<1>. QED
  BY <1>1, <1>3, <1>4, <1>5, <1>6, <1>7, <1>8 DEF Held, Writing

LEMMA FreshSet ==
  ASSUME HInv, NEW q \in fresh, PublishSet(q)
  PROVE  /\ pc'[q] \in Writing => Held(q)'
         /\ Answers200(q) => Attested' \subseteq Listed'
<1>. USE DEF HInv
<1>1. pc[q] = "set" /\ req[q] \in Request /\ UNCHANGED <<labels, req>>
  BY SetPublished
<1>2. PICK e \in SetEvent, stored \in SUBSET Relays :
        /\ StoreSet(e, stored)
        /\ e.coords = Target(q, view[q])
        /\ \A f \in view[q].sets : e.at > f.at
        /\ \/ Finish(q, "unavailable")
           \/ stored # {} /\ req[q].op = "attest" /\ Finish(q, "ok")
           \/ stored # {} /\ req[q].op = "revoke" /\ Goto(q, "delist")
  BY SetPublished
<1>3. /\ view[q].sets = SelectLatest(AllSets)
      /\ req[q].op = "revoke" => view[q].labels = CollapseLabels(AllLabels)
      /\ req[q].op = "attest" => Attested = AttestedCoords(view[q]) \cup {req[q].coord}
  BY <1>1 DEF Held
<1>4. /\ Attested' = Attested /\ CollapseLabels(AllLabels)' = CollapseLabels(AllLabels)
      /\ stored # {} => Listed' = Target(q, view[q])
  BY <1>1, <1>2, <1>3, StoreSetEffect DEF IInv
<1>5. pc'[q] \in Writing =>
        pc'[q] = "delist" /\ view' = view /\ req[q].op = "revoke" /\ stored # {}
  BY <1>2 DEF Finish, Goto, Writing, IInv, TypeOK
<1>6. Answers200(q) => stored # {} /\ req[q].op = "attest"
  BY <1>2 DEF Answers200, Finish, Goto, IInv, TypeOK
<1>7. req[q].op = "attest" => Attested \subseteq Target(q, view[q])
  BY <1>3 DEF Target
<1>8. pc'[q] \in Writing => (Listed = Target(q, view[q]))'
  BY <1>1, <1>4, <1>5 DEF Target
<1>. QED
  BY <1>1, <1>3, <1>4, <1>5, <1>6, <1>7, <1>8 DEF Held, Writing

LEMMA FreshDelist ==
  ASSUME HInv, NEW q \in fresh, PublishDelist(q) \/ SkipDelist(q), Answers200(q)
  PROVE  Attested' \subseteq Listed'
<1>. USE DEF HInv
<1>1. pc[q] = "delist" /\ req[q].op = "revoke"
  BY DEF PublishDelist, SkipDelist, IInv, RequestOK
<1>2. view[q].labels = CollapseLabels(AllLabels) /\ Listed = Target(q, view[q])
  BY <1>1 DEF Held
<1>3. Attested \ {req[q].coord} \subseteq Listed
  BY <1>1, <1>2 DEF Target, AttestedCoords, Attested
<1>4. CASE PublishDelist(q)
  <2>1. PICK l \in LabelEvent, stored \in SUBSET Relays :
          /\ StoreLabel(l, stored)
          /\ ~l.on /\ l.coord = req[q].coord
          /\ \A m \in Existing(q) : l.at > m.at
          /\ Finish(q, "unavailable") \/ (stored # {} /\ Finish(q, "ok"))
    BY <1>4, DelistPublished
  <2>2. stored # {} /\ UNCHANGED sets
    BY <1>4, <2>1 DEF Answers200, Finish, IInv, TypeOK, PublishDelist
  <2>3. \A m \in CollapseLabels(AllLabels) : m.coord = l.coord => l.at > m.at
    BY <1>2, <2>1 DEF Existing
  <2>4. Listed' = Listed /\ Attested' = Attested \ {req[q].coord}
    BY <2>1, <2>2, <2>3, StoreLabelEffect DEF IInv
  <2>. QED
    BY <1>3, <2>4
<1>5. CASE SkipDelist(q)
  <2>1. Listed' = Listed /\ Attested' = Attested
    BY <1>5 DEF SkipDelist, Listed, Attested, AllSets, SetsAt, AllLabels
  <2>2. Existing(q) = {}
    BY <1>5 DEF SkipDelist, DelistIds
  <2>3. req[q].coord \notin Attested
    BY <1>2, <2>2 DEF Existing, Attested
  <2>. QED
    BY <1>3, <2>1, <2>3
<1>. QED
  BY <1>4, <1>5

\* The request that moves is the one that is answered, and it is not
\* disturbed; one that stays is fresh only if the carriers stay too.
LEMMA FreshNext ==
  ASSUME HInv, [HNext]_hvars
  PROVE  /\ \A q \in fresh' : Held(q)'
         /\ \A q \in fresh : Answers200(q) => Attested' \subseteq Listed'
<1>. USE DEF HInv
<1> DEFINE Good(q) == /\ q \in fresh' => Held(q)'
                      /\ q \in fresh /\ Answers200(q) => Attested' \subseteq Listed'
<1>1. CASE UNCHANGED hvars
  <2>1. UNCHANGED <<sets, labels, pc, req, view, reply, fresh>>
    BY <1>1 DEF hvars, vars
  <2>2. \A q \in fresh : Held(q)'
    BY <2>1, HeldStill
  <2>3. \A q \in fresh : ~Answers200(q)
    BY <2>1 DEF Answers200
  <2>. QED
    BY <2>1, <2>2, <2>3
<1>2. CASE HNext
  <2>1. Remember /\ fresh' \subseteq Requests
    BY <1>2 DEF HNext, Remember
  <2>2. ASSUME NEW q \in Requests, UNCHANGED <<pc[q], req[q], view[q], reply[q]>>
        PROVE  Good(q)
    <3>1. ~Answers200(q)
      BY <2>2 DEF Answers200
    <3>2. ASSUME q \in fresh' PROVE Held(q)'
      <4>1. pc[q] \in Writing
        BY <2>1, <2>2, <3>2 DEF Remember
      <4>2. q \in fresh /\ UNCHANGED <<sets, labels>>
        BY <2>1, <2>2, <3>2, <4>1 DEF Remember, Writing
      <4>. QED
        BY <2>2, <4>2, HeldStill
    <3>. QED
      BY <3>1, <3>2
  <2>3. ASSUME NEW q \in Requests, Serve(q) PROVE Good(q)
    <3>1. CASE ReadBlind(q)
      <4>1. pc'[q] = "done" /\ ~Answers200(q)
        BY <3>1 DEF ReadBlind, Finish, Answers200, IInv, TypeOK
      <4>. QED
        BY <2>1, <4>1 DEF Remember, Writing
    <3>2. CASE ReadState(q)
      <4>1. pc[q] = "read" /\ ~Answers200(q)
        BY <3>2 DEF ReadState, Finish, Answers200, IInv, TypeOK
      <4>2. q \in fresh' => pc'[q] \in Writing /\ view'[q] = Everything
        BY <2>1, <4>1 DEF Remember
      <4>. QED
        BY <2>1, <3>2, <4>1, <4>2, FreshRead
    <3>3. ASSUME pc[q] \in Writing, q \in fresh' PROVE q \in fresh /\ pc'[q] \in Writing
      BY <2>1, <3>3 DEF Remember, Writing
    <3>4. CASE PublishLabel(q)
      BY <3>3, <3>4, FreshLabel DEF PublishLabel, Writing
    <3>5. CASE PublishSet(q)
      BY <3>3, <3>5, FreshSet DEF PublishSet, Writing
    <3>6. CASE PublishDelist(q) \/ SkipDelist(q)
      <4>1. pc'[q] = "done"
        BY <3>6, DelistPublished DEF SkipDelist, Finish, IInv, TypeOK
      <4>2. q \notin fresh'
        BY <2>1, <4>1 DEF Remember, Writing
      <4>. QED
        BY <3>6, <4>2, FreshDelist
    <3>. QED
      BY <2>3, <3>1, <3>2, <3>4, <3>5, <3>6 DEF Serve
  <2>4. ASSUME NEW q \in Requests, Attest(q) \/ Revoke(q) \/ Refuse(q) PROVE Good(q)
    <3>1. pc'[q] \in {"read", "done"} /\ ~Answers200(q)
      BY <2>4 DEF Attest, Revoke, Refuse, Goto, Finish, Answers200, IInv, TypeOK
    <3>. QED
      BY <2>1, <3>1 DEF Remember, Writing
  <2>5. ASSUME NEW q \in Requests, Crash PROVE Good(q)
    <3>1. pc'[q] \notin Writing /\ ~Answers200(q)
      BY <2>5 DEF Crash, Active, InFlight, Writing, Answers200, IInv, TypeOK
    <3>. QED
      BY <2>1, <3>1 DEF Remember
  <2>6. ASSUME NEW q \in Requests PROVE Good(q)
    <3>1. CASE (\E c \in Coords : EditBoard(c)) \/ Served
      BY <3>1, <2>2 DEF EditBoard, Served, vars
    <3>2. ASSUME NEW p \in Requests, Attest(p) \/ Revoke(p) \/ Refuse(p) \/ Serve(p)
          PROVE  Good(q)
      <4>1. CASE p = q
        BY <2>3, <2>4, <3>2, <4>1
      <4>2. CASE p # q
        BY <2>2, <3>2, <4>2, MovesAlone
      <4>. QED
        BY <4>1, <4>2
    <3>. HIDE DEF Good
    <3>. QED
      BY <1>2, <2>5, <3>1, <3>2 DEF HNext, Next
  <2>. QED
    BY <2>1, <2>6
<1>. QED
  BY <1>1, <1>2

LEMMA FreshInvariance == ASSUME DistinctIds PROVE HSpec => []HInv
<1>1. HInit => HInv
  BY SerialInit DEF HInit, HInv, SInv
<1>2. HInv /\ [HNext]_hvars => HInv'
  <2> SUFFICES ASSUME HInv, [HNext]_hvars PROVE HInv'
    OBVIOUS
  <2>1. [Next]_vars
    BY DEF HNext, hvars
  <2>2. IInv' /\ HasLatest'
    BY <2>1, InvNext, LatestNext DEF HInv
  <2>3. fresh' \subseteq Requests
    BY DEF HNext, hvars, Remember, HInv
  <2>. QED
    BY <2>2, <2>3, FreshNext DEF HInv
<1>. QED
  BY <1>1, <1>2, PTL DEF HSpec

\* For any number of requests in flight, partial reads, lost OKs, crashes and
\* any clock: a request that read everything, that nobody else wrote under, and
\* that issue.ts or revoke.ts answers 200, lists every board the labels attest,
\* so a lost update of the set lasts no longer than the next such request.
THEOREM NextRequestHeals == ASSUME DistinctIds PROVE HSpec => NextOpHeals
<1>1. HInv /\ [HNext]_hvars =>
        [\A q \in fresh : Answers200(q) => Attested' \subseteq Listed']_hvars
  BY FreshNext
<1>. QED
  BY <1>1, FreshInvariance, PTL DEF HSpec, NextOpHeals
=============================================================================
