------------------------- MODULE DiscoverGate_proofs -------------------------
(***************************************************************************)
(* Proofs about DiscoverGate, for any relays, boards, number of renders    *)
(* and published sets, any TTL and any maxWait.                            *)
(*                                                                         *)
(* A set is out of date since its successor was published. The time bound  *)
(* needs how long ago that can have been at each place a version is kept:  *)
(* in a render's hands, no longer than its query lasts (ReadInTime); in    *)
(* the cache, as long as a query may last before it was stored             *)
(* (StoredInTime). WarmInstanceNeverOpens needs that a render without a    *)
(* fallback began on a cold instance (NoFallbackNoCache).                  *)
(***************************************************************************)
EXTENDS DiscoverGate, SequenceTheorems, WellFoundedInduction, TLAPS

USE DiscoverAssumption

\* Version v is the newest, or it was superseded at t or later.
CurrentAt(v, t) == v = Len(published) \/ published[v + 1].at >= t

\* Times are not in the future, and a query is not over its deadline.
InTime ==
  /\ \A v \in 1 .. Len(published) : published[v].at <= now
  /\ cached.at <= now
  /\ \A p \in Renders : since[p] <= now
  /\ \A p \in Renders : pc[p] \in {"query", "decide", "boards"} => now <= since[p] + MaxWait

\* Reliable relays hold what is published.
HeldAll == ~lossy => \A r \in Relays : held[r] = Len(published)

\* What a render has read was the newest when it asked, or later.
ReadInTime ==
  ~lossy => \A p \in Renders : pc[p] = "decide" =>
    got[p].responded /\ CurrentAt(got[p].version, since[p])

\* What is cached was the newest at most a query before it was stored.
StoredInTime ==
  ~lossy => (cached.version # 0 => CurrentAt(cached.version, cached.at - MaxWait))

\* A render has no fallback only if there was none when it began.
NoFallbackNoCache ==
  /\ cached.version = 0 => cached = NoCache
  /\ \A p \in Renders :
       pc[p] \in {"query", "decide"} /\ fallback[p] = 0 => cached = NoCache \/ cached.at >= since[p]

\* A render that has not decided has no decision.
NotYetDecided ==
  \A p \in Renders : pc[p] \in {"idle", "query", "decide"} => decision[p].source = "none"

IInv == /\ TypeOK /\ InTime /\ HeldAll /\ ReadInTime /\ StoredInTime /\ NoFallbackNoCache
        /\ NotYetDecided /\ RevocationReachesDiscover /\ EmptyMeansEmpty

Decisions == [source : Sources \cup {"none"}, version : Versions]

-----------------------------------------------------------------------------
\* A set of naturals with an upper bound has a greatest member.
LEMMA Greatest ==
  ASSUME NEW n \in Nat, NEW S, S \subseteq 0 .. n, S # {}
  PROVE  \E v \in S : \A w \in S : w <= v
<1> DEFINE R == OpToRel(<, Nat)
           T == {x \in 0 .. n : n - x \in S}
<1>1. IsWellFoundedOn(R, Nat)
  BY NatLessThanWellFounded
<1>2. T \subseteq Nat /\ T # {}
  <2>1. PICK v \in S : v \in 0 .. n
    OBVIOUS
  <2>2. n - v \in T
    BY <2>1
  <2>3. T # {}
    BY <2>2
  <2>4. T \subseteq Nat
    OBVIOUS
  <2> QED BY <2>3, <2>4
<1>3. \A x, y \in Nat : x < y => <<x, y>> \in R
  BY DEF OpToRel
<1> HIDE DEF R, T
<1>4. \E x \in T : \A y \in T : ~ (<<y, x>> \in R)
  BY <1>1, <1>2, WFMin
<1>5. PICK x \in T : \A y \in T : ~ (<<y, x>> \in R)
  BY <1>4
<1>6. ASSUME NEW y \in T PROVE x <= y
  <2>1. x \in Nat /\ y \in Nat
    BY <1>2
  <2>2. ~ (y < x)
    BY <1>3, <1>5, <2>1
  <2> QED BY <2>1, <2>2
<1>7. n - x \in S /\ x \in 0 .. n
  BY <1>5 DEF T
<1>8. ASSUME NEW w \in S PROVE w <= n - x
  <2>1. w \in 0 .. n /\ n - (n - w) = w /\ n - w \in 0 .. n
    OBVIOUS
  <2>2. n - w \in T
    BY <2>1 DEF T
  <2> QED BY <1>6, <1>7, <2>1, <2>2
<1> QED BY <1>7, <1>8
\* Whoever answered, there is a newest set among theirs.
LEMMA LatestType ==
  ASSUME held \in [Relays -> Versions], published \in Seq([coords : SUBSET Boards, at : 0..MaxTime]),
         NEW answered \in SUBSET Relays
  PROVE  Latest(answered) \in Versions
<1> DEFINE S == {0} \cup {held[r] : r \in answered}
<1>1. Len(published) \in Nat
  BY LenProperties
<1>2. S \subseteq 0 .. Len(published) /\ S # {}
  BY <1>1 DEF Versions
<1>3. \E v \in S : \A w \in S : w <= v
  BY <1>1, <1>2, Greatest
<1>4. Latest(answered) \in S
  BY <1>3 DEF Latest
<1> QED BY <1>2, <1>4 DEF Versions

LEMMA LatestOfReliable ==
  ASSUME NEW n \in Nat, \A r \in Relays : held[r] = n
  PROVE  Latest(Relays) = n
<1>1. n \in {0} \cup {held[r] : r \in Relays} /\ \A r \in Relays : held[r] <= n
  OBVIOUS
<1>2. \A v \in {0} \cup {held[r] : r \in Relays} :
        (\A r \in Relays : held[r] <= v) => v = n
  OBVIOUS
<1> QED BY <1>1, <1>2 DEF Latest

LEMMA DecisionType ==
  ASSUME NEW v \in Versions, NEW r \in BOOLEAN, NEW c \in Versions
  PROVE  /\ DecideAllowlist(v, r, c) \in Decisions
         /\ DecideAllowlist(v, r, c).source = "live" =>
              v # 0 /\ DecideAllowlist(v, r, c).version = v
         /\ DecideAllowlist(v, r, c).source = "cache" => ~r
         /\ DecideAllowlist(v, r, c).source = "empty" => v = 0
         /\ DecideAllowlist(v, r, c).source = "open-blind" => c = 0
BY DEF DecideAllowlist, Decisions, Sources, Versions

-----------------------------------------------------------------------------
(* A version stays current as long ago as it was, when sets are published. *)

LEMMA CurrentStays ==
  ASSUME published \in Seq([coords : SUBSET Boards, at : 0..MaxTime]), now \in 0 .. MaxTime, Publish,
         NEW v \in Versions, NEW t \in Int, t <= now, CurrentAt(v, t)
  PROVE  CurrentAt(v, t)'
<1>1. PICK set \in [coords : SUBSET Boards, at : 0..MaxTime] :
        published' = Append(published, set) /\ set.at = now
  BY DEF Publish
<1>2. /\ Len(published') = Len(published) + 1 /\ Len(published) \in Nat
      /\ \A i \in 1 .. Len(published) : published'[i] = published[i]
      /\ published'[Len(published) + 1] = set
  BY <1>1, AppendProperties, LenProperties
<1> QED BY <1>1, <1>2 DEF CurrentAt, Versions

LEMMA InitInv == Init => IInv
<1> SUFFICES ASSUME Init PROVE IInv
  OBVIOUS
<1>1. TypeOK
  BY DEF Init, TypeOK, NoCache, Unread, Undecided, Versions
<1>2. InTime /\ HeldAll /\ ReadInTime
  BY DEF Init, InTime, HeldAll, ReadInTime, NoCache
<1>3. StoredInTime /\ NoFallbackNoCache
  BY DEF Init, StoredInTime, NoFallbackNoCache, NoCache
<1>4. RevocationReachesDiscover /\ EmptyMeansEmpty
  BY DEF Init, RevocationReachesDiscover, EmptyMeansEmpty, Undecided
<1>5. NotYetDecided
  BY DEF Init, NotYetDecided, Undecided
<1> QED BY <1>1, <1>2, <1>3, <1>4, <1>5 DEF IInv

-----------------------------------------------------------------------------
(* Steps of a render: the sets and the relays stay. *)

Sets == published \in Seq([coords : SUBSET Boards, at : 0..MaxTime]) /\ Len(published) \in Nat

LEMMA SetsType == ASSUME TypeOK PROVE Sets /\ \A v \in 1 .. Len(published) : published[v].at \in 0 .. MaxTime
<1>1. published \in Seq([coords : SUBSET Boards, at : 0..MaxTime])
  BY DEF TypeOK
<1>2. \A v \in 1 .. Len(published) : published[v] \in [coords : SUBSET Boards, at : 0..MaxTime]
  BY <1>1, ElementOfSeq
<1> QED BY <1>1, <1>2, LenProperties DEF Sets

\* A decision by version v, made now, is in time if v was current a query and a TTL ago.
LEMMA InTimeToDecide ==
  ASSUME IInv, NEW v \in Versions, NEW t \in Int, CurrentAt(v, t), now < t + TTL + MaxWait
  PROVE  v = Len(published) \/ now < published[v + 1].at + TTL + MaxWait
<1>1. Sets /\ \A w \in 1 .. Len(published) : published[w].at \in 0 .. MaxTime
  BY SetsType DEF IInv
<1>2. v # Len(published) => v + 1 \in 1 .. Len(published)
  BY <1>1 DEF Versions, Sets
<1> QED BY <1>1, <1>2 DEF CurrentAt, IInv, TypeOK

\* A render asks for the boards with decision d.
LEMMA DecidesInv ==
  ASSUME IInv, NEW p \in Renders, NEW d \in Decisions, d.source # "none",
         decision' = [decision EXCEPT ![p] = d], pc' = [pc EXCEPT ![p] = "boards"],
         since' = [since EXCEPT ![p] = now], UNCHANGED <<lossy, now, published>>,
         ~lossy /\ d.source \in {"live", "cache"} =>
           d.version = Len(published) \/ now < published[d.version + 1].at + TTL + MaxWait,
         ~lossy /\ d.source = "empty" => published = <<>> \/ now <= published[1].at + MaxWait
  PROVE  RevocationReachesDiscover' /\ EmptyMeansEmpty' /\ NotYetDecided'
<1>1. decision'[p] = d /\ pc'[p] = "boards" /\ since'[p] = now
  BY DEF IInv, TypeOK
<1>2. ASSUME NEW q \in Renders, q # p
      PROVE  decision'[q] = decision[q] /\ pc'[q] = pc[q] /\ since'[q] = since[q]
  BY <1>2 DEF IInv, TypeOK
<1>3. RevocationReachesDiscover'
  <2> SUFFICES ASSUME ~lossy, NEW q \in Renders, pc'[q] = "boards", decision'[q].source \in {"live", "cache"}
               PROVE  \/ decision'[q].version = Len(published)
                      \/ since'[q] < published[decision'[q].version + 1].at + TTL + MaxWait
    BY DEF RevocationReachesDiscover
  <2>1. CASE q = p
    BY <1>1, <2>1
  <2>2. CASE q # p
    BY <1>2, <2>2 DEF IInv, RevocationReachesDiscover
  <2> QED BY <2>1, <2>2
<1>4. EmptyMeansEmpty'
  <2> SUFFICES ASSUME ~lossy, NEW q \in Renders, decision'[q].source = "empty"
               PROVE  published = <<>> \/ since'[q] <= published[1].at + MaxWait
    BY DEF EmptyMeansEmpty
  <2>1. CASE q = p
    BY <1>1, <2>1
  <2>2. CASE q # p
    BY <1>2, <2>2 DEF IInv, EmptyMeansEmpty
  <2> QED BY <2>1, <2>2
<1>5. NotYetDecided'
  BY <1>1, <1>2 DEF IInv, NotYetDecided
<1> QED BY <1>3, <1>4, <1>5

\* A render that starts a query now leaves what is read and known in time.
LEMMA AsksInTime ==
  ASSUME IInv, NEW p \in Renders, NEW c \in {"boards", "query"}, pc' = [pc EXCEPT ![p] = c],
         since' = [since EXCEPT ![p] = now], UNCHANGED <<lossy, now, published>>,
         cached'.at <= now, \A q \in Renders : q # p => got'[q] = got[q]
  PROVE  InTime' /\ ReadInTime'
<1>1. pc'[p] = c /\ since'[p] = now /\ now \in 0 .. MaxTime
  BY DEF IInv, TypeOK
<1>2. ASSUME NEW q \in Renders, q # p
      PROVE  pc'[q] = pc[q] /\ since'[q] = since[q]
  BY <1>2 DEF IInv, TypeOK
<1>3. InTime'
  <2>1. \A v \in 1 .. Len(published') : published'[v].at <= now'
    BY DEF IInv, InTime
  <2>2. cached'.at <= now'
    BY DEF IInv, InTime
  <2>3. ASSUME NEW q \in Renders
        PROVE  /\ since'[q] <= now'
               /\ pc'[q] \in {"query", "decide", "boards"} => now' <= since'[q] + MaxWait
    <3>1. CASE q = p
      BY <1>1, <3>1
    <3>2. CASE q # p
      BY <1>2, <3>2 DEF IInv, InTime
    <3> QED BY <3>1, <3>2
  <2> QED BY <2>1, <2>2, <2>3 DEF InTime
<1>4. ReadInTime'
  <2> SUFFICES ASSUME ~lossy, NEW q \in Renders, pc'[q] = "decide"
               PROVE  got'[q].responded /\ CurrentAt(got'[q].version, since'[q])
    BY DEF ReadInTime, CurrentAt
  <2>1. q # p
    BY <1>1
  <2> QED BY <1>2, <2>1 DEF IInv, ReadInTime
<1> QED BY <1>3, <1>4

LEMMA BeginInv ==
  ASSUME IInv, NEW p \in Renders, Begin(p)
  PROVE  IInv'
<1>0. /\ UNCHANGED <<lossy, now, published, held, cached, got, page>>
      /\ since' = [since EXCEPT ![p] = now] /\ pc[p] = "idle"
      /\ now \in 0 .. MaxTime /\ cached.version \in Versions /\ 0 \in Versions
  BY SetsType DEF IInv, Begin, TypeOK, Versions, Sets
\* What does not depend on the outcome.
<1>1. HeldAll' /\ StoredInTime'
  BY <1>0 DEF IInv, HeldAll, StoredInTime, CurrentAt
<1>2. InTime' /\ ReadInTime'
  <2>1. PICK c \in {"boards", "query"} : pc' = [pc EXCEPT ![p] = c]
    BY DEF Begin
  <2>2. cached'.at <= now /\ \A q \in Renders : q # p => got'[q] = got[q]
    BY <1>0 DEF IInv, InTime
  <2> QED BY <1>0, <2>1, <2>2, AsksInTime
<1>3. NoFallbackNoCache'
  BY <1>0 DEF IInv, Begin, TypeOK, NoFallbackNoCache
<1>4. CASE ~Configured \/ InTTL
  <2>1. PICK d \in Decisions :
          /\ decision' = [decision EXCEPT ![p] = d]
          /\ d.source \in {"unconfigured", "cache"}
          /\ d.source = "cache" => InTTL /\ d.version = cached.version
    <3>1. CASE ~Configured
      <4>1. DecideAllowlist(0, FALSE, 0) = [source |-> "unconfigured", version |-> 0]
        BY <3>1 DEF DecideAllowlist
      <4>2. [source |-> "unconfigured", version |-> 0] \in Decisions
        BY <1>0 DEF Decisions, Sources
      <4> QED BY <3>1, <4>1, <4>2 DEF Begin
    <3>2. CASE Configured
      <4>1. [source |-> "cache", version |-> cached.version] \in Decisions
        BY <1>0 DEF Decisions, Sources
      <4> QED BY <1>4, <3>2, <4>1 DEF Begin
    <3> QED BY <3>1, <3>2
  <2>2. pc' = [pc EXCEPT ![p] = "boards"] /\ fallback' = fallback
    BY <1>4 DEF Begin
  <2>3. ~lossy /\ d.source = "cache" =>
          d.version = Len(published) \/ now < published[d.version + 1].at + TTL + MaxWait
    <3> SUFFICES ASSUME ~lossy, d.source = "cache"
                 PROVE  d.version = Len(published) \/ now < published[d.version + 1].at + TTL + MaxWait
      OBVIOUS
    <3>1. d.version = cached.version /\ cached.version # 0 /\ now - cached.at < TTL
      BY <2>1 DEF InTTL
    <3>2. CurrentAt(cached.version, cached.at - MaxWait)
      BY <3>1 DEF IInv, StoredInTime
    <3>3. cached.at - MaxWait \in Int /\ now < (cached.at - MaxWait) + TTL + MaxWait
      BY <1>0, <3>1 DEF IInv, TypeOK
    <3> QED BY <1>0, <3>1, <3>2, <3>3, InTimeToDecide
  <2>4. RevocationReachesDiscover' /\ EmptyMeansEmpty' /\ NotYetDecided'
    BY <1>0, <2>1, <2>2, <2>3, DecidesInv
  <2>5. TypeOK'
    BY <1>0, <2>1, <2>2 DEF IInv, TypeOK, Decisions, Versions
  <2> QED BY <1>1, <1>2, <1>3, <2>4, <2>5 DEF IInv
<1>5. CASE Configured /\ ~InTTL
  <2>1. /\ decision' = decision /\ pc' = [pc EXCEPT ![p] = "query"]
        /\ fallback' = [fallback EXCEPT ![p] = cached.version]
    BY <1>5 DEF Begin
  <2>2. decision[p].source = "none"
    BY <1>0 DEF IInv, NotYetDecided
  <2>3. RevocationReachesDiscover' /\ EmptyMeansEmpty' /\ NotYetDecided'
    BY <1>0, <2>1, <2>2 DEF IInv, TypeOK, RevocationReachesDiscover, EmptyMeansEmpty, NotYetDecided
  <2>4. TypeOK'
    BY <1>0, <2>1 DEF IInv, TypeOK, Versions
  <2> QED BY <1>1, <1>2, <1>3, <2>3, <2>4 DEF IInv
<1> QED BY <1>4, <1>5

LEMMA GatherInv ==
  ASSUME IInv, NEW p \in Renders, Gather(p)
  PROVE  IInv'
<1>0. /\ UNCHANGED <<lossy, now, published, held, cached, since, fallback, decision, page>>
      /\ pc[p] = "query" /\ pc' = [pc EXCEPT ![p] = "decide"]
  BY DEF Gather
<1>1. PICK answered \in Answers, responded \in BOOLEAN :
        /\ answered # {} => responded
        /\ got' = [got EXCEPT ![p] = [version |-> Latest(answered), responded |-> responded]]
  BY DEF Gather
<1>2. Latest(answered) \in Versions
  BY LatestType DEF IInv, TypeOK, Answers
<1>3. ~lossy => responded /\ Latest(answered) = Len(published)
  <2> SUFFICES ASSUME ~lossy PROVE responded /\ Latest(answered) = Len(published)
    OBVIOUS
  <2>1. answered = Relays /\ Relays # {} /\ \A r \in Relays : held[r] = Len(published)
    BY DiscoverAssumption DEF Answers, IInv, HeldAll
  <2>2. Len(published) \in Nat
    BY SetsType DEF IInv, Sets
  <2> QED BY <1>1, <2>1, <2>2, LatestOfReliable
<1>4. pc'[p] = "decide" /\ got'[p] = [version |-> Latest(answered), responded |-> responded]
  BY <1>0, <1>1 DEF IInv, TypeOK
<1>5. \A q \in Renders : q # p => pc'[q] = pc[q] /\ got'[q] = got[q]
  BY <1>0, <1>1 DEF IInv, TypeOK
<1>6. TypeOK'
  BY <1>0, <1>1, <1>2 DEF IInv, TypeOK, Versions
<1>7. InTime' /\ HeldAll' /\ StoredInTime'
  BY <1>0, <1>4, <1>5 DEF IInv, InTime, HeldAll, StoredInTime, CurrentAt
<1>8. ReadInTime'
  <2> SUFFICES ASSUME ~lossy, NEW q \in Renders, pc'[q] = "decide"
               PROVE  got'[q].responded /\ CurrentAt(got'[q].version, since[q])
    BY <1>0 DEF ReadInTime, CurrentAt
  <2>1. CASE q = p
    BY <1>3, <1>4, <2>1 DEF CurrentAt
  <2>2. CASE q # p
    BY <1>5, <2>2 DEF IInv, ReadInTime
  <2> QED BY <2>1, <2>2
<1>9. NoFallbackNoCache' /\ NotYetDecided'
  BY <1>0, <1>4, <1>5 DEF IInv, NoFallbackNoCache, NotYetDecided
<1>10. RevocationReachesDiscover' /\ EmptyMeansEmpty'
  BY <1>0, <1>4, <1>5 DEF IInv, RevocationReachesDiscover, EmptyMeansEmpty
<1> QED BY <1>6, <1>7, <1>8, <1>9, <1>10 DEF IInv

LEMMA DecideInv ==
  ASSUME IInv, NEW p \in Renders, Decide(p)
  PROVE  IInv'
<1> DEFINE v == got[p].version
           d == DecideAllowlist(v, got[p].responded, fallback[p])
<1>0. /\ UNCHANGED <<lossy, now, published, held, page>>
      /\ pc[p] = "decide" /\ pc' = [pc EXCEPT ![p] = "boards"]
      /\ since' = [since EXCEPT ![p] = now] /\ got' = [got EXCEPT ![p] = Unread]
      /\ fallback' = [fallback EXCEPT ![p] = 0] /\ decision' = [decision EXCEPT ![p] = d]
      /\ cached' = IF d.source = "live" THEN [version |-> d.version, at |-> now] ELSE cached
  BY DEF Decide
<1>1. /\ v \in Versions /\ got[p].responded \in BOOLEAN /\ fallback[p] \in Versions
      /\ now \in 0 .. MaxTime /\ since[p] \in 0 .. MaxTime /\ now <= since[p] + MaxWait
      /\ 0 \in Versions /\ TTL \in Nat \ {0} /\ MaxWait \in Nat
  BY <1>0, SetsType DEF IInv, TypeOK, InTime, Versions, Sets
<1>2. /\ d \in Decisions /\ d.source # "none"
      /\ d.source = "live" => v # 0 /\ d.version = v
      /\ d.source = "cache" => ~got[p].responded
      /\ d.source = "empty" => v = 0
  <2>1. d.source # "none"
    BY DEF DecideAllowlist
  <2> QED BY <1>1, <2>1, DecisionType
<1>3. ~lossy => got[p].responded /\ CurrentAt(v, since[p])
  BY <1>0 DEF IInv, ReadInTime
<1> HIDE DEF d
<1>4. ~lossy /\ d.source \in {"live", "cache"} =>
        d.version = Len(published) \/ now < published[d.version + 1].at + TTL + MaxWait
  <2> SUFFICES ASSUME ~lossy, d.source \in {"live", "cache"}
               PROVE  d.version = Len(published) \/ now < published[d.version + 1].at + TTL + MaxWait
    OBVIOUS
  <2>1. d.version = v /\ CurrentAt(v, since[p]) /\ now < since[p] + TTL + MaxWait /\ since[p] \in Int
    BY <1>1, <1>2, <1>3
  <2> QED BY <1>1, <2>1, InTimeToDecide
<1>5. ~lossy /\ d.source = "empty" => published = <<>> \/ now <= published[1].at + MaxWait
  <2> SUFFICES ASSUME ~lossy, d.source = "empty", published # <<>>
               PROVE  now <= published[1].at + MaxWait
    OBVIOUS
  <2>1. Len(published) # 0
    BY EmptySeq, SetsType DEF IInv, Sets
  <2>2. CurrentAt(0, since[p]) /\ 1 \in 1 .. Len(published)
    BY <1>2, <1>3, <2>1, SetsType DEF IInv, Sets
  <2>3. published[1].at \in 0 .. MaxTime
    BY <2>2, SetsType DEF IInv
  <2> QED BY <1>1, <2>1, <2>2, <2>3 DEF CurrentAt
<1>6. RevocationReachesDiscover' /\ EmptyMeansEmpty' /\ NotYetDecided'
  BY <1>0, <1>2, <1>4, <1>5, DecidesInv
<1>7. InTime' /\ ReadInTime'
  <2>1. cached'.at <= now
    BY <1>0, <1>1 DEF IInv, InTime
  <2>2. \A q \in Renders : q # p => got'[q] = got[q]
    BY <1>0 DEF IInv, TypeOK
  <2> QED BY <1>0, <2>1, <2>2, AsksInTime
<1>8. HeldAll'
  BY <1>0 DEF IInv, HeldAll
<1>9. StoredInTime'
  <2>1. CASE d.source = "live"
    <3>1. ASSUME ~lossy PROVE CurrentAt(v, now - MaxWait)
      <4>1. CurrentAt(v, since[p]) /\ now - MaxWait <= since[p]
        BY <1>1, <1>3, <3>1
      <4>2. v # Len(published) => published[v + 1].at \in 0 .. MaxTime
        BY <1>1, SetsType DEF IInv, Sets, Versions
      <4> QED BY <1>1, <4>1, <4>2 DEF CurrentAt
    <3>2. cached' = [version |-> v, at |-> now]
      BY <1>0, <1>2, <2>1
    <3> QED BY <1>0, <3>1, <3>2 DEF StoredInTime, CurrentAt
  <2>2. CASE d.source # "live"
    BY <1>0, <2>2 DEF IInv, StoredInTime, CurrentAt
  <2> QED BY <2>1, <2>2
<1>10. NoFallbackNoCache'
  <2>1. /\ pc'[p] = "boards"
        /\ \A q \in Renders : q # p =>
             pc'[q] = pc[q] /\ since'[q] = since[q] /\ fallback'[q] = fallback[q]
    BY <1>0 DEF IInv, TypeOK
  <2>2. CASE d.source = "live"
    <3>1. cached' = [version |-> v, at |-> now] /\ v # 0
      BY <1>0, <1>2, <2>2
    <3>2. \A q \in Renders : since[q] <= now
      BY DEF IInv, InTime
    <3> QED BY <2>1, <3>1, <3>2 DEF NoFallbackNoCache
  <2>3. CASE d.source # "live"
    BY <1>0, <2>1, <2>3 DEF IInv, NoFallbackNoCache
  <2> QED BY <2>2, <2>3
<1>11. TypeOK'
  <2>1. cached' \in [version : Versions, at : 0 .. MaxTime]
    BY <1>0, <1>1, <1>2 DEF IInv, TypeOK
  <2>2. /\ decision' \in [Renders -> Decisions] /\ fallback' \in [Renders -> Versions]
        /\ got' \in [Renders -> [version : Versions, responded : BOOLEAN]]
        /\ since' \in [Renders -> 0 .. MaxTime]
        /\ pc' \in [Renders -> {"idle", "query", "decide", "boards", "shown"}]
    BY <1>0, <1>1, <1>2 DEF IInv, TypeOK, Decisions, Unread
  <2> QED BY <1>0, <2>1, <2>2 DEF IInv, TypeOK, Decisions, Versions
<1> QED BY <1>6, <1>7, <1>8, <1>9, <1>10, <1>11 DEF IInv

LEMMA ShowInv ==
  ASSUME IInv, NEW p \in Renders, Show(p)
  PROVE  IInv'
<1>0. /\ UNCHANGED <<lossy, now, published, held, cached, since, fallback, got, decision>>
      /\ pc[p] = "boards" /\ pc' = [pc EXCEPT ![p] = "shown"]
  BY DEF Show
<1>1. page' \in [Renders -> SUBSET Boards]
  <2>1. PICK found \in SUBSET Boards :
          page' = [page EXCEPT ![p] = IF decision[p].source \in Unfiltered
                                      THEN found ELSE found \cap Coords(decision[p].version)]
    BY DEF Show
  <2>2. (IF decision[p].source \in Unfiltered THEN found ELSE found \cap Coords(decision[p].version))
          \in SUBSET Boards
    OBVIOUS
  <2> QED BY <2>1, <2>2 DEF IInv, TypeOK
<1>2. pc'[p] = "shown" /\ \A q \in Renders : q # p => pc'[q] = pc[q]
  BY <1>0 DEF IInv, TypeOK
<1>3. TypeOK'
  BY <1>0, <1>1 DEF IInv, TypeOK, Versions
<1>4. InTime' /\ HeldAll' /\ ReadInTime' /\ StoredInTime'
  BY <1>0, <1>2 DEF IInv, InTime, HeldAll, ReadInTime, StoredInTime, CurrentAt
<1>5. NoFallbackNoCache' /\ NotYetDecided' /\ RevocationReachesDiscover' /\ EmptyMeansEmpty'
  BY <1>0, <1>2 DEF IInv, NoFallbackNoCache, NotYetDecided, RevocationReachesDiscover, EmptyMeansEmpty
<1> QED BY <1>3, <1>4, <1>5 DEF IInv

LEMMA LeaveInv ==
  ASSUME IInv, NEW p \in Renders, Leave(p)
  PROVE  IInv'
<1>0. /\ UNCHANGED <<lossy, now, published, held, cached, fallback, got>>
      /\ pc' = [pc EXCEPT ![p] = "idle"] /\ since' = [since EXCEPT ![p] = 0]
      /\ decision' = [decision EXCEPT ![p] = Undecided] /\ page' = [page EXCEPT ![p] = {}]
      /\ 0 \in Versions /\ now \in 0 .. MaxTime
  BY SetsType DEF IInv, TypeOK, Leave, Versions, Sets
<1>1. pc'[p] = "idle" /\ since'[p] = 0 /\ decision'[p] = Undecided
  BY <1>0 DEF IInv, TypeOK
<1>2. \A q \in Renders : q # p => pc'[q] = pc[q] /\ since'[q] = since[q] /\ decision'[q] = decision[q]
  BY <1>0 DEF IInv, TypeOK
<1>3. TypeOK'
  BY <1>0 DEF IInv, TypeOK, Undecided, Versions
<1>4. InTime' /\ HeldAll' /\ ReadInTime' /\ StoredInTime'
  BY <1>0, <1>1, <1>2 DEF IInv, InTime, HeldAll, ReadInTime, StoredInTime, CurrentAt
<1>5. NoFallbackNoCache' /\ NotYetDecided' /\ RevocationReachesDiscover' /\ EmptyMeansEmpty'
  BY <1>0, <1>1, <1>2
  DEF IInv, NoFallbackNoCache, NotYetDecided, RevocationReachesDiscover, EmptyMeansEmpty, Undecided
<1> QED BY <1>3, <1>4, <1>5 DEF IInv

-----------------------------------------------------------------------------
(* Steps of the environment. *)

LEMMA PublishInv ==
  ASSUME IInv, Publish
  PROVE  IInv'
<1>0. /\ UNCHANGED <<lossy, now, cached, pc, since, fallback, got, decision, page>>
      /\ now \in 0 .. MaxTime /\ TTL \in Nat \ {0} /\ MaxWait \in Nat
      /\ Sets /\ \A v \in 1 .. Len(published) : published[v].at \in 0 .. MaxTime
  BY SetsType DEF IInv, TypeOK, Publish
<1>1. PICK set \in [coords : SUBSET Boards, at : 0..MaxTime], stored \in SUBSET Relays :
        /\ published' = Append(published, set) /\ set.at = now
        /\ held' = [r \in Relays |-> IF r \in stored THEN Len(published) + 1 ELSE held[r]]
        /\ ~lossy => stored = Relays
  BY <1>0 DEF Publish
<1>2. /\ published' \in Seq([coords : SUBSET Boards, at : 0..MaxTime])
      /\ Len(published') = Len(published) + 1
      /\ \A i \in 1 .. Len(published) : published'[i] = published[i]
      /\ published'[Len(published) + 1] = set
  BY <1>0, <1>1, AppendProperties DEF Sets
<1>3. Versions \subseteq Versions'
  BY <1>0, <1>2 DEF Versions, Sets
<1>4. ASSUME NEW v \in Versions, NEW t \in Int, t <= now, CurrentAt(v, t)
      PROVE  CurrentAt(v, t)'
  BY <1>0, <1>4, CurrentStays DEF Sets
<1>5. TypeOK'
  <2>1. held' \in [Relays -> Versions']
    BY <1>0, <1>1, <1>2 DEF IInv, TypeOK, Versions, Sets
  <2>2. /\ cached' \in [version : Versions', at : 0..MaxTime] /\ fallback' \in [Renders -> Versions']
        /\ got' \in [Renders -> [version : Versions', responded : BOOLEAN]]
        /\ decision' \in [Renders -> [source : Sources \cup {"none"}, version : Versions']]
    BY <1>0, <1>3 DEF IInv, TypeOK
  <2> QED BY <1>0, <1>2, <2>1, <2>2 DEF IInv, TypeOK
<1>6. InTime' /\ HeldAll'
  <2>1. \A v \in 1 .. Len(published') : published'[v].at <= now'
    BY <1>0, <1>1, <1>2 DEF IInv, InTime, Sets
  <2>2. HeldAll'
    BY <1>0, <1>1, <1>2 DEF IInv, HeldAll
  <2> QED BY <1>0, <2>1, <2>2 DEF IInv, InTime
<1>7. ReadInTime'
  <2> SUFFICES ASSUME ~lossy, NEW q \in Renders, pc[q] = "decide"
               PROVE  got[q].responded /\ CurrentAt(got[q].version, since[q])'
    BY <1>0 DEF ReadInTime, CurrentAt
  <2>1. got[q].responded /\ CurrentAt(got[q].version, since[q])
    BY DEF IInv, ReadInTime
  <2>2. got[q].version \in Versions /\ since[q] \in Int /\ since[q] <= now
    BY DEF IInv, TypeOK, InTime
  <2>3. CurrentAt(got[q].version, since[q])'
    <3> DEFINE v == got[q].version
               t == since[q]
    <3>1. CurrentAt(v, t) /\ v' = v /\ t' = t
      BY <1>0, <2>1
    <3> QED BY <1>0, <1>2, <2>1, <2>2, <1>4 DEF CurrentAt
  <2> QED BY <2>1, <2>3
<1>8. StoredInTime'
  <2> SUFFICES ASSUME ~lossy, cached.version # 0
               PROVE  CurrentAt(cached.version, cached.at - MaxWait)'
    BY <1>0 DEF StoredInTime
  <2>1. CurrentAt(cached.version, cached.at - MaxWait)
    BY DEF IInv, StoredInTime
  <2>2. cached.version \in Versions /\ cached.at - MaxWait \in Int /\ cached.at - MaxWait <= now
    BY <1>0 DEF IInv, TypeOK, InTime
  <2> QED BY <1>0, <1>4, <2>1, <2>2 DEF CurrentAt
<1>9. NoFallbackNoCache' /\ NotYetDecided'
  BY <1>0 DEF IInv, NoFallbackNoCache, NotYetDecided
<1>10. RevocationReachesDiscover'
  <2> SUFFICES ASSUME ~lossy, NEW q \in Renders, pc[q] = "boards", decision[q].source \in {"live", "cache"}
               PROVE  \/ decision[q].version = Len(published')
                      \/ since[q] < published'[decision[q].version + 1].at + TTL + MaxWait
    BY <1>0 DEF RevocationReachesDiscover
  <2>1. /\ decision[q].version \in Versions /\ since[q] \in 0 .. MaxTime /\ since[q] <= now
        /\ \/ decision[q].version = Len(published)
           \/ since[q] < published[decision[q].version + 1].at + TTL + MaxWait
    BY DEF IInv, TypeOK, InTime, RevocationReachesDiscover
  <2>2. CASE decision[q].version = Len(published)
    BY <1>0, <1>1, <1>2, <2>1, <2>2
  <2>3. CASE decision[q].version # Len(published)
    <3>1. \A n \in Nat : \A v \in 0 .. n : v # n => v + 1 \in 1 .. n
      OBVIOUS
    <3>2. decision[q].version \in 0 .. Len(published)
      BY <2>1 DEF Versions
    <3>3. Len(published) \in Nat
      BY <1>0 DEF Sets
    <3>4. decision[q].version + 1 \in 1 .. Len(published)
      BY <2>3, <3>1, <3>2, <3>3
    <3>5. published'[decision[q].version + 1] = published[decision[q].version + 1]
      BY <1>2, <3>4
    <3> QED BY <2>1, <2>3, <3>5
  <2> QED BY <2>2, <2>3
<1>11. EmptyMeansEmpty'
  <2> SUFFICES ASSUME ~lossy, NEW q \in Renders, decision[q].source = "empty"
               PROVE  since[q] <= published'[1].at + MaxWait
    BY <1>0 DEF EmptyMeansEmpty
  <2>1. since[q] \in 0 .. MaxTime /\ since[q] <= now
    BY DEF IInv, TypeOK, InTime
  <2>2. CASE Len(published) = 0
    BY <1>0, <1>1, <1>2, <2>1, <2>2
  <2>3. CASE Len(published) # 0
    <3>1. published # <<>> /\ published'[1] = published[1]
      BY <1>0, <1>2, <2>3 DEF Sets
    <3> QED BY <3>1 DEF IInv, EmptyMeansEmpty
  <2> QED BY <2>2, <2>3
<1> QED BY <1>5, <1>6, <1>7, <1>8, <1>9, <1>10, <1>11 DEF IInv

LEMMA TickInv ==
  ASSUME IInv, Tick
  PROVE  IInv'
<1>0. /\ UNCHANGED <<lossy, published, held, cached, pc, since, fallback, got, decision, page>>
      /\ now' = now + 1 /\ now \in 0 .. MaxTime /\ now < MaxTime /\ MaxTime \in Nat
      /\ \A v \in 1 .. Len(published) : published[v].at \in 0 .. MaxTime
      /\ MaxWait \in Nat
  BY SetsType DEF IInv, TypeOK, Tick
<1>1. TypeOK'
  BY <1>0 DEF IInv, TypeOK, Versions
<1>2. InTime'
  <2>1. cached.at \in 0 .. MaxTime /\ since \in [Renders -> 0 .. MaxTime]
    BY DEF IInv, TypeOK
  <2>2. \A q \in Renders : pc[q] \in {"query", "decide", "boards"} => now + 1 <= since[q] + MaxWait
    BY <1>0, <2>1 DEF Tick
  <2> QED BY <1>0, <2>1, <2>2 DEF IInv, InTime
<1>3. HeldAll' /\ ReadInTime' /\ StoredInTime'
  BY <1>0 DEF IInv, HeldAll, ReadInTime, StoredInTime, CurrentAt
<1>4. NoFallbackNoCache' /\ NotYetDecided' /\ RevocationReachesDiscover' /\ EmptyMeansEmpty'
  BY <1>0 DEF IInv, NoFallbackNoCache, NotYetDecided, RevocationReachesDiscover, EmptyMeansEmpty
<1> QED BY <1>1, <1>2, <1>3, <1>4 DEF IInv

LEMMA RestartInv ==
  ASSUME IInv, Restart
  PROVE  IInv'
<1>0. UNCHANGED <<lossy, now, published, held>> /\ 0 \in Versions /\ now \in 0 .. MaxTime
  BY SetsType DEF IInv, TypeOK, Restart, Versions, Sets
<1>1. TypeOK'
  BY <1>0 DEF IInv, TypeOK, Restart, NoCache, Unread, Undecided, Versions
<1>2. InTime' /\ HeldAll' /\ ReadInTime' /\ StoredInTime'
  BY <1>0 DEF IInv, Restart, InTime, HeldAll, ReadInTime, StoredInTime, NoCache
<1>3. NoFallbackNoCache' /\ NotYetDecided' /\ RevocationReachesDiscover' /\ EmptyMeansEmpty'
  BY <1>0
  DEF Restart, NoFallbackNoCache, NotYetDecided, RevocationReachesDiscover, EmptyMeansEmpty, Undecided, NoCache
<1> QED BY <1>1, <1>2, <1>3 DEF IInv

LEMMA NextInv ==
  ASSUME IInv, [Next]_vars
  PROVE  IInv'
<1>1. ASSUME NEW p \in Renders, Render(p) PROVE IInv'
  BY <1>1, BeginInv, GatherInv, DecideInv, ShowInv, LeaveInv DEF Render
<1>2. CASE UNCHANGED vars
  <2>1. TypeOK' /\ InTime' /\ HeldAll' /\ ReadInTime' /\ StoredInTime'
    BY <1>2 DEF vars, IInv, TypeOK, Versions, InTime, HeldAll, ReadInTime, StoredInTime, CurrentAt
  <2>2. NoFallbackNoCache' /\ NotYetDecided' /\ RevocationReachesDiscover' /\ EmptyMeansEmpty'
    BY <1>2
    DEF vars, IInv, NoFallbackNoCache, NotYetDecided, RevocationReachesDiscover, EmptyMeansEmpty
  <2> QED BY <2>1, <2>2 DEF IInv
<1> QED BY <1>1, <1>2, PublishInv, TickInv, RestartInv DEF Next

-----------------------------------------------------------------------------
(* The theorems. *)

\* Every step of any number of overlapping renders, publishes and restarts keeps
\* the invariant.
THEOREM Invariant == Spec => []IInv
<1>1. Init => IInv
  BY InitInv
<1>2. IInv /\ [Next]_vars => IInv'
  BY NextInv
<1> QED BY <1>1, <1>2, PTL DEF Spec

\* The gate's state keeps its type.
THEOREM TypeCorrect == Spec => []TypeOK
<1>1. IInv => TypeOK
  BY DEF IInv
<1> QED BY <1>1, Invariant, PTL

\* A superseded set is out of use TTL + MaxWait later, though slow renders put
\* older sets back over newer ones (fetchAllowlist's cache).
THEOREM RevocationIsTimely == Spec => []RevocationReachesDiscover
<1>1. IInv => RevocationReachesDiscover
  BY DEF IInv
<1> QED BY <1>1, Invariant, PTL

\* Discover is blanked only if nothing was published when the render asked
\* (decideAllowlist's "empty").
THEOREM BlankIsEmpty == Spec => []EmptyMeansEmpty
<1>1. IInv => EmptyMeansEmpty
  BY DEF IInv
<1> QED BY <1>1, Invariant, PTL

\* Only a render that began before anything was stored may decide to show all.
LEMMA OpensOnlyCold ==
  ASSUME IInv, [Next]_vars, NEW p \in Renders, pc[p] = "decide", decision'[p].source = "open-blind"
  PROVE  cached = NoCache \/ cached.at >= since[p]
<1>1. decision[p].source = "none"
  BY DEF IInv, NotYetDecided
<1>2. Decide(p)
  <2>1. decision' # decision
    BY <1>1
  <2>2. PICK q \in Renders : Begin(q) \/ Decide(q) \/ Leave(q)
    <3>1. ~ Restart
      BY DEF Restart, Undecided
    <3> QED BY <2>1, <3>1 DEF Next, Render, Gather, Show, Publish, Tick, vars
  <2>3. q = p
    <3> SUFFICES ASSUME q # p PROVE FALSE
      OBVIOUS
    <3>1. decision'[p] = decision[p]
      BY <2>2 DEF Begin, Decide, Leave, IInv, TypeOK
    <3> QED BY <1>1, <3>1
  <2>4. ~ Begin(p) /\ ~ Leave(p)
    BY DEF Begin, Leave
  <2> QED BY <2>2, <2>3, <2>4
<1>3. DecideAllowlist(got[p].version, got[p].responded, fallback[p]).source = "open-blind"
  BY <1>2 DEF Decide, IInv, TypeOK
<1>4. got[p].version \in Versions /\ got[p].responded \in BOOLEAN /\ fallback[p] \in Versions
  BY DEF IInv, TypeOK
<1>5. fallback[p] = 0
  BY <1>3, <1>4, DecisionType
<1> QED BY <1>5 DEF IInv, NoFallbackNoCache

\* An instance that has a last-known-good set never shows every board, whatever
\* the relays do (fetchAllowlist's fallback).
THEOREM WarmStaysClosed == Spec => WarmInstanceNeverOpens
<1>1. IInv /\ [Next]_vars =>
        [\A p \in Renders : (pc[p] = "decide" /\ decision'[p].source = "open-blind") =>
            cached = NoCache \/ cached.at >= since[p]]_vars
  BY OpensOnlyCold
<1> QED BY <1>1, Invariant, PTL DEF Spec, WarmInstanceNeverOpens
=============================================================================
