---------------------------- MODULE DiscoverGate ----------------------------
(***************************************************************************)
(* The discover page's allowlist gate, on one web-server instance          *)
(* (apps/web/lib/nostr/attestation-gate.ts, fetchDiscoverBoards of         *)
(* server.ts and decideAllowlist of the protocol package).                 *)
(*                                                                         *)
(* Renders run concurrently and share one module variable, `cached`: the   *)
(* last allowlist read live, with the time it was stored. A render reads   *)
(* it before it awaits the relays and writes it after. The issuer          *)
(* republishes the set meanwhile; relays lag, or do not answer. Time is in *)
(* the model because the cache has a TTL and a query a maxWait.            *)
(***************************************************************************)
EXTENDS Integers, Sequences, FiniteSets

CONSTANTS
  Relays,        \* DEFAULT_RELAYS: the one caller passes none of its own
  Boards,        \* the boards the relays hold, attested or not
  Renders,       \* renders in flight at once
  Configured,    \* is an issuer pubkey configured in this deployment
  TTL,           \* ALLOWLIST_TTL_MS
  MaxWait,       \* how long a query lasts at most
  Networks,      \* which networks to consider: lossy (TRUE), reliable (FALSE)
  MaxTime,       \* bound of the model: when time stops
  MaxPublished   \* bound of the model: how many sets the issuer publishes

ASSUME DiscoverAssumption ==
  /\ Relays # {}
  /\ Configured \in BOOLEAN /\ Networks \subseteq BOOLEAN
  /\ TTL \in Nat \ {0} /\ MaxWait \in Nat /\ MaxTime \in Nat /\ MaxPublished \in Nat

VARIABLES
  lossy,      \* may a relay miss a publish or not answer a query (never changes)
  now,        \* Date.now()
  published,  \* the issuer's sets, oldest first: their coordinates and when
  held,       \* held[r]: which of them relay r holds, 0 for none
  cached,     \* the instance's cache: which set, stored when; version 0 is null
  pc,         \* where each render is
  since,      \* when it was last about to await
  fallback,   \* the version it may fall back to, read before the await
  got,        \* what its query gathered: the latest version, any relay connected
  decision,   \* its AllowlistDecision
  page        \* the boards it last showed

vars == <<lossy, now, published, held, cached, pc, since, fallback, got, decision, page>>

-----------------------------------------------------------------------------
NoCache  == [version |-> 0, at |-> 0]
Unread   == [version |-> 0, responded |-> FALSE]
Sources  == {"unconfigured", "live", "empty", "cache", "open-blind"}
Undecided == [source |-> "none", version |-> 0]

\* No filter is applied under these: discover shows whatever the relays return.
Unfiltered == {"unconfigured", "open-blind"}

Coords(v) == IF v = 0 THEN {} ELSE published[v].coords

\* Mutant of DecideAllowlist: a relay that responds is taken for an empty set.
EmptyIfResponded(latest, responded, cache) ==
  CASE ~Configured -> [source |-> "unconfigured", version |-> 0]
    [] Configured /\ responded -> [source |-> "empty", version |-> 0]
    [] Configured /\ ~responded /\ cache # 0 -> [source |-> "cache", version |-> cache]
    [] OTHER -> [source |-> "open-blind", version |-> 0]

\* The fail-mode policy, on which set was read (0 if none), whether any relay
\* was connected, and the fallback.
DecideAllowlist(latest, responded, cache) ==
  CASE ~Configured -> [source |-> "unconfigured", version |-> 0]
    [] Configured /\ latest # 0 -> [source |-> "live", version |-> latest]
    [] Configured /\ latest = 0 /\ responded -> [source |-> "empty", version |-> 0]
    [] Configured /\ latest = 0 /\ ~responded /\ cache # 0 -> [source |-> "cache", version |-> cache]
    [] OTHER -> [source |-> "open-blind", version |-> 0]

Answers == IF lossy THEN SUBSET Relays ELSE {Relays}

\* The newest set among the relays that answered, 0 if they hold none.
Latest(answered) == CHOOSE v \in {0} \cup {held[r] : r \in answered} :
                      \A r \in answered : held[r] <= v

\* Mutant of InTTL: the boundary is inside.
InTTLInclusive == cached.version # 0 /\ now - cached.at <= TTL

InTTL == cached.version # 0 /\ now - cached.at < TTL

-----------------------------------------------------------------------------
(* fetchAllowlist, then the board query of fetchDiscoverBoards.            *)

\* Mutant of Begin: the last-known-good is dropped with its TTL.
BeginDropsExpired(p) ==
  /\ pc[p] = "idle"
  /\ since' = [since EXCEPT ![p] = now]
  /\ decision' = [decision EXCEPT ![p] =
       IF InTTL THEN [source |-> "cache", version |-> cached.version] ELSE Undecided]
  /\ pc' = [pc EXCEPT ![p] = IF InTTL THEN "boards" ELSE "query"]
  /\ UNCHANGED <<lossy, now, published, held, cached, fallback, got, page>>

\* Before any await: nothing to read, or the TTL skip, or the query is sent and
\* the last-known-good is taken along.
Begin(p) ==
  /\ pc[p] = "idle"
  /\ since' = [since EXCEPT ![p] = now]
  /\ IF ~Configured
     THEN /\ decision' = [decision EXCEPT ![p] = DecideAllowlist(0, FALSE, 0)]
          /\ pc' = [pc EXCEPT ![p] = "boards"]
          /\ UNCHANGED fallback
     ELSE IF InTTL
     THEN /\ decision' = [decision EXCEPT ![p] = [source |-> "cache", version |-> cached.version]]
          /\ pc' = [pc EXCEPT ![p] = "boards"]
          /\ UNCHANGED fallback
     ELSE /\ fallback' = [fallback EXCEPT ![p] = cached.version]
          /\ pc' = [pc EXCEPT ![p] = "query"]
          /\ UNCHANGED decision
  /\ UNCHANGED <<lossy, now, published, held, cached, got, page>>

\* The relays answer; the query is not over until all did or maxWait elapsed.
Gather(p) ==
  /\ pc[p] = "query"
  /\ \E answered \in Answers, responded \in BOOLEAN :
       /\ answered # {} => responded
       /\ got' = [got EXCEPT ![p] = [version |-> Latest(answered), responded |-> responded]]
  /\ pc' = [pc EXCEPT ![p] = "decide"]
  /\ UNCHANGED <<lossy, now, published, held, cached, since, fallback, decision, page>>

\* After the await: decide, and cache a live set whatever the cache holds now.
Decide(p) ==
  /\ pc[p] = "decide"
  /\ LET d == DecideAllowlist(got[p].version, got[p].responded, fallback[p]) IN
       /\ decision' = [decision EXCEPT ![p] = d]
       /\ cached' = IF d.source = "live" THEN [version |-> d.version, at |-> now] ELSE cached
  /\ pc' = [pc EXCEPT ![p] = "boards"]
  /\ since' = [since EXCEPT ![p] = now]
  /\ got' = [got EXCEPT ![p] = Unread]
  /\ fallback' = [fallback EXCEPT ![p] = 0]
  /\ UNCHANGED <<lossy, now, published, held, page>>

\* The board query, filtered to the attested coordinates unless the decision
\* is to apply no filter; an empty allowlist shows nothing.
Show(p) ==
  /\ pc[p] = "boards"
  /\ \E found \in IF lossy THEN SUBSET Boards ELSE {Boards} :
       page' = [page EXCEPT ![p] = IF decision[p].source \in Unfiltered
                                   THEN found
                                   ELSE found \cap Coords(decision[p].version)]
  /\ pc' = [pc EXCEPT ![p] = "shown"]
  /\ UNCHANGED <<lossy, now, published, held, cached, since, fallback, got, decision>>

\* The page is sent; the worker is free for another render.
Leave(p) ==
  /\ pc[p] = "shown"
  /\ pc' = [pc EXCEPT ![p] = "idle"]
  /\ decision' = [decision EXCEPT ![p] = Undecided]
  /\ page' = [page EXCEPT ![p] = {}]
  /\ since' = [since EXCEPT ![p] = 0]
  /\ UNCHANGED <<lossy, now, published, held, cached, fallback, got>>

-----------------------------------------------------------------------------
(* The environment.                                                        *)

\* The issuer republishes the allowlist.
Publish ==
  /\ Len(published) < MaxPublished
  /\ \E coords \in SUBSET Boards, stored \in IF lossy THEN SUBSET Relays \ {{}} ELSE {Relays} :
       /\ published' = Append(published, [coords |-> coords, at |-> now])
       /\ held' = [r \in Relays |-> IF r \in stored THEN Len(published) + 1 ELSE held[r]]
  /\ UNCHANGED <<lossy, now, cached, pc, since, fallback, got, decision, page>>

\* Time passes, but no query outlasts its maxWait.
Tick ==
  /\ now < MaxTime
  /\ \A p \in Renders : pc[p] \in {"query", "decide", "boards"} => now - since[p] < MaxWait
  /\ now' = now + 1
  /\ UNCHANGED <<lossy, published, held, cached, pc, since, fallback, got, decision, page>>

\* The instance is recycled: its cache and its renders are gone.
Restart ==
  /\ cached # NoCache
  /\ cached'   = NoCache
  /\ pc'       = [p \in Renders |-> "idle"]
  /\ since'    = [p \in Renders |-> 0]
  /\ fallback' = [p \in Renders |-> 0]
  /\ got'      = [p \in Renders |-> Unread]
  /\ decision' = [p \in Renders |-> Undecided]
  /\ page'     = [p \in Renders |-> {}]
  /\ UNCHANGED <<lossy, now, published, held>>

-----------------------------------------------------------------------------
Init ==
  /\ lossy \in Networks
  /\ now       = 0
  /\ published = <<>>
  /\ held      = [r \in Relays |-> 0]
  /\ cached    = NoCache
  /\ pc        = [p \in Renders |-> "idle"]
  /\ since     = [p \in Renders |-> 0]
  /\ fallback  = [p \in Renders |-> 0]
  /\ got       = [p \in Renders |-> Unread]
  /\ decision  = [p \in Renders |-> Undecided]
  /\ page      = [p \in Renders |-> {}]

Render(p) == Begin(p) \/ Gather(p) \/ Decide(p) \/ Show(p) \/ Leave(p)

Next == (\E p \in Renders : Render(p)) \/ Publish \/ Tick \/ Restart

Spec == Init /\ [][Next]_vars

-----------------------------------------------------------------------------
(* Properties.                                                             *)

Versions == 0..Len(published)

TypeOK ==
  /\ lossy \in Networks
  /\ now \in 0..MaxTime
  /\ published \in Seq([coords : SUBSET Boards, at : 0..MaxTime])
  /\ held     \in [Relays -> Versions]
  /\ cached   \in [version : Versions, at : 0..MaxTime]
  /\ pc       \in [Renders -> {"idle", "query", "decide", "boards", "shown"}]
  /\ since    \in [Renders -> 0..MaxTime]
  /\ fallback \in [Renders -> Versions]
  /\ got      \in [Renders -> [version : Versions, responded : BOOLEAN]]
  /\ decision \in [Renders -> [source : Sources \cup {"none"}, version : Versions]]
  /\ page     \in [Renders -> SUBSET Boards]

\* A set that was superseded (a board was revoked) is out of use everywhere
\* TTL + MaxWait later: however renders overlap, and though a slow render may
\* put an older set back over a newer one, no render decides by it from then
\* on. (Complete reads.)
RevocationReachesDiscover ==
  ~lossy => \A p \in Renders :
    (pc[p] = "boards" /\ decision[p].source \in {"live", "cache"}) =>
      LET v == decision[p].version IN
        v = Len(published) \/ since[p] < published[v + 1].at + TTL + MaxWait

\* Discover is only blanked when there was nothing to show when the render
\* asked: no set published by then. (Complete reads.)
EmptyMeansEmpty ==
  ~lossy => \A p \in Renders :
    decision[p].source = "empty" => published = <<>> \/ since[p] <= published[1].at + MaxWait

\* An instance that has a last-known-good set never shows everything: only a
\* render that began before the first live read was stored may fail open.
WarmInstanceNeverOpens ==
  [][\A p \in Renders :
       (pc[p] = "decide" /\ decision'[p].source = "open-blind") =>
         cached = NoCache \/ cached.at >= since[p]]_vars
=============================================================================
