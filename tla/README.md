# Voxboard in TLA+

Specifications of the parts of Voxboard where steps of several actors, failures and time
decide what is right: TLA+ modules translated from the source, TLC configurations that check
them on small instances, and proofs for every value of the constants. Paths below are
relative to the repository's root.

## 1. The system

Voxboard keeps feedback boards on Nostr: boards, ideas, replies, votes and moderation are
signed events on relays that nobody controls. Three programs and one library work on them.

| Part | Where | State it keeps | Operations |
|---|---|---|---|
| Attestation service | `apps/attestation/src` | none between requests; two carriers on the relays (labels, the allowlist set), owned by one issuer key | `POST /v1/attest`, `POST /v1/revoke` |
| Discover gate | `apps/web/lib/nostr/attestation-gate.ts`, `server.ts` | `cached`: the last allowlist read live, with its time, per server instance | `fetchDiscoverBoards` per page render |
| Board aggregator | `apps/indexer/src` | one Durable Object per board: tables `meta` and `events`, the alarm; in memory the sockets and `voteSubKey` | `track`, the alarm, relay messages, socket close events, the read API |
| Board view | `packages/protocol/src` (`aggregate`, `vote`, `delete`, `moderation`, `approval`, `thread`, `status`) | none: pure functions of a board's events | `deriveBoardView`, `deriveBoardStats`, `visibleIdeas` |
| Event vocabulary | the other files of `packages/protocol/src` | none | builders and parsers, one event each |
| Page snapshots | `apps/web/lib/nostr/server.ts` | none: what one request reads | board, idea thread, resolution of a reply's link |
| Live board | `components/providers/board-subscription-provider.tsx`, `hooks/use-board*`, `components/board` | subscriptions and their debounced filters, the events delivered, replies posted and removed | mount, deliver, refresh, reply, delete |
| Voting client | `hooks/use-voting.ts`, `use-votes.ts` | optimistic votes, claims and clean-ups under way | cast, retract, supersede |
| Zaps | `packages/protocol/src/zap.ts`, `hooks/use-zaps.ts`, `use-lnurl-anchors.ts`, `lib/zap`, `zap-button.tsx` | the retained receipts, the anchors found, the lookup cache, the dialog | validate and total, look up, zap |
| Sign-in and board editor | `hooks/use-auth.ts`, `use-attest.ts`, `components/auth`, `board-dialog.tsx`, `board-feed.tsx` | the session, the stashed click, the dialogs, saves under way | log in and out, click, create, edit, ask for attestation |
| NIP-05 handles | `hooks/use-nip05-verify.ts` | a cache and the lookups in flight, shared by all rows | verify |
| Other client hooks | `hooks/use-moderation.ts`, `use-delete.ts`, `use-notifications.ts` | none, or a list | publish one event, list what is new |

How they interact. The browser publishes to the relays and asks the attestation service to
vouch for a new board. The service reads both carriers from the relays, publishes a label and
then a new set. The discover page reads the set and filters the boards by it. The aggregator
subscribes to a board's relays and stores what they send; web pages and the read API derive
the board view from such events. Only relays are shared: no two programs share memory or a
transaction, so every write that spans two events can be seen, or cut off, in the middle.

Behaviours that are hard, with the module that has them:

- requests that read, modify and rewrite one addressable event, concurrently and on partial
  reads (Attestation);
- two publishes that must stay in step although the process may die, a relay may not store
  an event, or its OK may be lost (Attestation);
- clocks that skew and `created_at` ties (Attestation);
- a cache that is read before an await and written after it (DiscoverGate);
- handlers of one Durable Object that overlap across their awaits, sockets that close late,
  evictions that keep the tables and lose the memory (Aggregator);
- latest-wins collapses, retractions and bans over events that arrive in any order (BoardView);
- optimistic state that races its own echoes and retractions (Voting);
- a snapshot read in passes while people publish, live events that are asked for by the ids
  known so far, and a debounce that a steady stream could starve (LiveBoard);
- receipts that anybody may forge or copy, anchors that are resolved late, and retries that
  must outlast a cached failure (Zaps);
- a click that is stashed across a login, logins and saves that complete after their dialog
  was closed, a form that live updates touch, an attest that is retried (Session, BoardEditor);
- a lookup shared by rows whose claims change while it is awaited (Nip05).

What makes each component correct:

- *Attestation*: nothing is published that the gate did not admit; the set never runs ahead
  of the labels; a 200 leaves both in agreement and on some relay; the next undisturbed request
  heals a set that lost updates; a revoke takes effect whatever the clocks say; every accepted
  request is answered.
- *Discover gate*: a revoked board leaves discover within a bounded time; discover is blanked
  only when there is nothing to show; it opens up only on a cold instance.
- *Aggregator*: no stored idea misses its votes; relays are not dialed twice; a late close
  event does not drop a live socket; everything a tracked relay holds is stored in the end.
- *Board view*: any two readers of the same events see the same board; only the owner and
  the moderators of the board in force moderate it; a retraction is final; a reply counts once.
- *Voting client*: what a user sees is their last click unless it failed, and what the
  network counts is what they see.
- *Live board*: every id the page knows is in its filters within the debounce's longest wait;
  what was retracted is not rendered, a reply does not vanish, the badge is about the version
  on display; the page catches up with the relays.
- *Zaps*: a total is what senders asked and paid, each payment once; a payment starts or stops
  to count only with news about it; and what was paid is shown in the end.
- *Sign-in and board editor*: a click is honoured once and only while it is wanted; a dialog
  never republishes a stale draft; only the owner edits a board; the attempts
  of a request for attestation outlast relays that are slow and requests that fail.
- *NIP-05 handles*: a verdict is one the domain gave, recently, about that handle; whoever
  waits for one gets it.

## 2. The modules

`X.tla` is a component, `MCX.tla` its instance for TLC with the `.cfg` files named after it,
`X_proofs.tla` its theorems.

### Attestation, AttestationHistory, Allowlist

`Attestation` has one state machine per request (`pc`, `req`, `view`, `reply`) and the relays
(`labels`, `sets`, `boards`). An action is one await of the code: the read of both carriers
(`ReadState`, or `ReadBlind` when no relay is connected), then each publish. `view` is what
the request read (`CurrentState`), and everything it publishes is computed from it, however
old it is by then: this is where concurrent requests go wrong.

| Action | Code |
|---|---|
| `Attest`, `Revoke`, `Refuse` | `nodeHandler`, `handleRequest`, `attestBoard` (the gate's board fetch is part of the arrival), `revoke` |
| `ReadState`, `ReadBlind` | `readState` and the blind-read guard |
| `PublishLabel`, `PublishSet` | `issueAttestation`: label first, then the set if the membership changed |
| `PublishSet`, `PublishDelist`, `SkipDelist` | `revokeAttestation`: set first, then the delist label, if there is an event id to pin |
| `Crash`, `EditBoard` | the process dies; an owner publishes a newer board |

`Faults` selects what the environment may do. `"blind"`: no relay can be reached when a request
reads. `"read"`: a query is answered by any subset of
the relays and a label read returns any subset of the labels (slow relays,
`LABEL_READ_LIMIT`). `"publish"`: a publish is stored by any subset of the relays, and its OK
may be lost; an OK without a relay that stored the event does not occur, because `relays.ts`
does not count nostr-tools' synthesised failures. `"crash"`. `Clock` is the set of values
`now()` may return at any time, so clocks skew arbitrarily within it. `Id` orders event ids
for `created_at` ties; `MCId` is the worst order for the carriers. `Concurrency` = 1 is the
"single serialized writer" that `issue.ts` assumes.

`AttestationHistory` adds `fresh`, which restrains no step: the requests that read everything
there was and under which nobody else has written since. `NextOpHeals` is about these, whatever
others did before them. `Watched` are the requests that `WatchedSpec` assumes to keep moving.

`Allowlist` is the abstract specification: a register of attested boards and the listed ones
derived from it, changed by `Attest`, `Delist`, `Relist` and `Withdraw` and never listing a
board that is not attested. `RefinesAllowlist` maps `attested` to the boards whose latest label
says so and `listed` to the newest set.

### DiscoverGate

Renders on one instance share `cached`. `Begin` runs up to the await (the TTL skip, or taking
the last-known-good along), `Gather` is the query, `Decide` the policy and the write to the
cache, `Show` the filtered board query, `Leave` the end of the request. `Publish`, `Tick` and
`Restart` are the issuer, time and the platform. Time is discrete; a render never stays in
its query longer than `MaxWait`, the `maxWait` of the pool. The cache is keyed by relay list
in the code; its one caller passes no list, so there is one key. `lossy` is chosen once per
behaviour: properties about complete reads hold when it is FALSE, the others always.

### Aggregator

One Durable Object. Handlers (track callers and the alarm) run `ensureConnections`, which
awaits a fetch per relay: `dialing` and `todo` are a handler's position, and each action is
one turn of the event loop from one await to the next. `sockets` is the map of the code,
`conn` every socket there is, also those that the map no longer points at. `Deliver`,
`EndOfStored` and `CloseEvent` are the listeners. `Break`, `Evict` and `Publish` are the
environment. `meta` and `events` survive `Evict`, the rest does not. `overlap` is chosen once
per behaviour: may a handler start while another awaits.

Abstractions: a relay list is a set, and the relays a turn skips are any of those that are
connected, so every order of the list is covered; the coordinate of an object is constant;
an event that is invalid or stored already changes nothing and has no action; a relay's CLOSED
message is ignored by the code and has no action either; a new socket takes any unused name
(`Fresh`). A scheduled alarm whose handler was
cut off is run again: that is the platform's promise, not this repository's code.

### BoardView

The state is `log`, the events in the order one reader got them: a snapshot of the server
(`Seeds`) and then any of `Universe`, each once (`Arrive`). Everything else is an operator on
the log with the name of the function it stands for. What the code filters is a set; its loops,
where the order might matter, are recursive functions over the places of the log: `Collapse`
takes one `KeepNewest` per turn, `Counted` what earlier ideas have `Found`. That their results
do not depend on the order is proved, not assumed. `Feed` is what `useBoardData` shows, `Thread`
what the idea page shows of one idea.

Events are parsed: an id (integers in the order of the ids), an author, `created_at`, and
what the kind adds. Those that do not parse are left out, except a board's version, which the
code chooses before it parses it (`named`). A label says one thing; one that declares several
namespaces counts as several, and has its `a` tag. A board event is of any author and
coordinate: `Board` is the newest of them all, as the code has it (section 4), and the labels
that count are those about its coordinate. Not modelled: the
order of the rows (`sortIdeaStats`), the filters by status and tag, the list of pending ideas
(the complement of `IsApproved`), and what the viewer deleted optimistically.

### Voting

One user, one idea, one page. A click (`Cast`) is everything up to the first publish;
`VoteReaches`, `VoteSettles`, `Supersede` and `Retract` are what follows each await, and
`Refused`, `RefusedLate` and `SupersedeRefused` the three ways a publish may fail. The
clean-up effect runs in the same step as what triggers it (`CleanUp` in `Cast`, `Echo` and
`EchoDeletion`); its deletions are `Swept` or `SweepRefused` at any later time. `net` and
`dels` are the relays, `mine` and `hidden` what the page's two subscriptions have brought;
the second one is replaced, and empty for a while, whenever the first brings a new event.

An event's id is the hash of its contents, and a vote's contents are its direction and time:
so a reaction here *is* its direction and time, and voting twice in one second makes one
event. `LowId` says which of two reactions of a second has the lower id. `kept` and
`mistaken` are history: what was claimed for a retraction that failed, and what went wrong
behind the page's back. The code reads neither; the properties say where they need them. Not
modelled: the other voters (the page adds a delta to their tally), logging in and out,
leaving the page while a cast is in flight.

### LiveBoard

One visit to a board's page (`link` = `Feed`) or, by the link of a comment, to an idea's. The
events are abstract: a kind and what they refer to; what is derived from them is BoardView's.
`Resolve` climbs from a reply to its idea. `Query` is the answer to one of a pass's queries,
`NextPass` the `await Promise.all` behind them, `Mount` the hydration. `Deliver` is an event
of a subscription with the render that follows, which starts the debounce (`Rerender`);
`Fire` is the debounce with its cap, `Delay`. `asked` is in the two filters, `Known` what
should be. `Post` and `Delete` are the visitor's own replies. A tick is the debounce of 250 ms.

| Action | Code |
|---|---|
| `Resolve`, `Query`, `NextPass` | `resolveRootIdea`, `fetchBoardSnapshotImpl`, `fetchIdeaThreadSnapshot` |
| `Mount`, `Remount`, `Deliver`, `Fire` | `BoardSubscriptionProvider`, `useDebounced`, `useBoard` |
| `Post`, `Delete` | `ReplyBox`, `DeleteButton` through `IdeaView` |

Not modelled: forged boards and labels, which are dropped where they are verified; boards of
one date; more than one idea page for one idea. A live board that is older than the
snapshot's may displace it until the newest arrives, as in the code (`CatchesUp` says only that
it does). The idea route's board is the snapshot's. Deletions are by the author.

### ZapReceipts, Zaps

`ZapReceipts` is the pure part: the ordered gate (`Valid`) and the three passes of
`zapTotalsByTarget`: a set of what passes (`Validated`), a loop over the list that keeps the
earliest receipt of a payment (`Winners`, by `KeepEarliest`), a sum (`TotalOf`). `Zaps`, with
the specification `ZapsSpec`, puts it behind a page: `Retained` are the buffers `useZaps` keeps
when a subscription starts over, `EffectRuns` the effect of `useLnurlAnchors` whose runs look
up, wait and retry (`LookUp`, `FetchProfile`, `RetryFires`), `Ask` and `FlightEnds` the cache
and the lookups in flight that hook and dialog share (`EffectKey` is what the effect depends
on), `ClickZap`, `Invoiced` and `WalletSettles` the zap under way, which closing the dialog does
not stop; `Offered` is when the dialog shows its button. A provider publishes `ReceiptOf` a
payment; others publish `Forgeries`, which may carry a provider's key only if their invoice is
for another request. A tick is 1.5 s, the step of the backoff. An invoice commits to a request
by being equal to it. A provider's key and bounds are constant: the code holds an old receipt to
today's bounds (`zap.ts:225`), and has no others. `useZaps` is also called with all visible
ideas of a feed, without profiles; a missed profile then leaves 0 until the key of the effect
changes.

### Session, BoardEditor

`Session` is the signed-in side: `Gated` and `Prompt` are `requireLogin` and `promptLogin`,
`LoggedIn` and `LoginFails` the end of a login that may have outlived its dialog, `Restore` the
session monitor. `BoardEditor` extends it with the two dialogs of `BoardDialog` (`Submit`,
`Reaches`, `Settles`, `Fails`), the live board that re-seeds the form (`Displays`), and
`useAttest`'s loop (`Ask`, `Answer`, `TurnsDown`, `FaultAnswer`) against a service that sees a
version only some time after it was published. A signer may refuse at any attempt (`Ask` ends
the loop), and the service may turn down anybody's token with a 401 (`TurnsDown`), the owner's
too. A create dialog is on the discover page, an edit dialog on a board's, while the owner is
signed in. Not modelled: clicks behind the gate on the board's page and in the compose dialog;
the contents of the form beyond their identity.

### Nip05

Rows share `cache` and `lookup`. `Claims` is a row's effect: it ends what the row awaited, and
reads the cache or joins or starts a lookup. `Settle` ends a lookup, which leaves the
in-flight map; the answer is in the cache only after the microtasks behind it ran (`Then`),
and `answer` holds it in between, when another row may start a second fetch. `told` is
history: when a domain last named an owner for a handle. The frame before an effect runs still shows the
last verdict; that one frame is left out. A verdict is not checked again while its row stays.

## 3. The runs

| Run | Question | Result |
|---|---|---|
| `MCAttestationLossy` | Serialised writers, two relays, two boards, reads that reach no relay, publishes that are partial or whose OK is lost: are the carriers safe at every step, does a 200 repair them? | `ListedIsAttested`, `OkMeansLockstep` hold |
| `MCAttestationSkewed` | Serialised writers, skewed clocks, edited boards, crashes: does a revoke always take effect, and do the carriers implement the abstract allowlist? | `RevokeTakesEffect`, `RefinesAllowlist` hold |
| `MCAttestationFaulty` | Three requests, two at a time, every fault: what survives without any assumption on the writer, and does the next request heal what others lost? | `Provenance`, `SuccessIsDurable`, `NextOpHeals`, `EveryRequestAnswered` hold |
| `MCDiscoverGate` | Overlapping renders: how long does a revoked board stay, when is discover blank, when does it open up? | `RevocationReachesDiscover`, `EmptyMeansEmpty`, `WarmInstanceNeverOpens` hold |
| `MCAggregator` | Overlapping handlers, changing lists, broken sockets, evictions: is the vote subscription right, whom does the map forget, when does a relay have two sockets, and does everything a tracked relay holds arrive in the end? | `VoteSubCoversIdeas`, `ForgetsOnlyTheDead`, `OneSocketPerRelay`, `StaysLive` hold |
| `MCAggregatorCeiling` | `index.ts` caps relay lists to stay under the platform's socket ceiling. | violated: overlapping handlers leave sockets that nothing counts or closes |
| `MCBoardView` | Whatever the order of arrival: do readers agree, who decides, does a retraction leave a trace, do bans silence, do the feed and the idea page count alike? | `ReadersAgree`, `OwnerHasTheLastWord`, `RetractionLeavesNoTrace`, `BannedHaveNoVoice`, `FeedAgreesWithIdeaPage`, `OnlyModeratorsModerate` hold |
| `MCVoting` | Clicks before, between and after echoes, on a page that had loaded or not, with publishes that fail: is the last click what counts, is the clean-up harmless, do reactions pile up? | `LastClickCounts`, `CleanUpIsHarmless`, `OrphansGo` hold |
| `MCLiveBoard` | A visit while replies, retractions and an edit are published, with one lost query or one return to the page: is anything flashed, lost, unearned or never asked for, and does the page catch up? | `EveryKnownIdIsAsked`, `RetractionHolds`, `BadgeIsEarned`, `ThreadKeepsItsReplies`, `CatchesUp` hold |
| `MCZaps` | Two zaps, with any two of: a second receipt, a forgery, a retraction, a lost buffer, an expired answer, an outage: is the total what was asked and paid, when does a payment start or stop to count, does it show? | `TotalIsWhatWasPaid`, `OnlyNewsMovesPayments`, `PaidIsShown` hold |
| `MCBoardEditor` | Logins under way, dialogs closed and reopened, saves from elsewhere, refusals, a failure: whose click runs, what is in the form, who signs an edit, do the attempts for a badge outlast slow relays and failures? | `OnlyWantedClicksRun`, `ClosedFormIsTheBoard`, `EditsKeepTheBoard`, `SavedIsAttested` hold |
| `MCNip05` | Two rows of two authors who may claim one handle that changes hands: is a verdict true, and does it come? | `VerdictsWereTrue`, `VerdictComes` hold |

`MCVoting` and `MCZaps` check their type invariants too. They and every property above that
holds are proved, except what must happen in the end (section 5).

Each property of a passing run comes with a mutant of a definition (in the module, next to
the definition it changes) that breaks it, so no property holds for want of behaviour.

### Bounds, and why they are enough

- *Attestation*: two relays suffice for partial publishes and partial reads (one that has an
  event, one that has not); two boards for "another board is dropped"; three serialised requests
  for a half-done operation, its repair and a third party. The run with every fault has one
  relay, which may store a publish or not, and answer a query in part or not at all: two
  requests that overlap lose an update, the third may overlap with either or heal what they
  left. `Clock` has two values where ties and skew matter, one elsewhere: with one value every
  event of one kind ties unless `SignAt` separates them. Each request is served once; when all
  are served the specification stutters (`Served`).
- *DiscoverGate*: two renders, one board, `TTL` = 2, `MaxWait` = 1: the shortest times with
  TTL > MaxWait > 0; five ticks cover a superseded set through a late store, the whole TTL
  and the boundary tick; two published sets are one that is superseded and its successor.
- *Aggregator*: two relays, one of which a new list drops; four sockets: one per relay, one
  that lost its place, and one more, as both faults may cost a socket while others stay open;
  one idea and its vote (`VoteSubCoversIdeas` is proved for any number); two faults, so that
  one may hit the recovery from another.
- *BoardView*: an owner, two moderators (a ban and a label on each other need two) and two
  users (one who writes, one who is banned); times that tie wherever a tie matters; three
  seeds, and every order of three further events out of 27: a property is about a label, a
  later label and a deletion of either. One is a board of somebody else, newer than the
  first version and older than the last. `MaxDepth` = 2 with chains of three replies.
- *Voting*: two seconds on the clock and a third that a vote may be moved to; a slate that is
  clean, or has a vote and the older one it superseded. The user stops clicking after the
  first mistake (`Mistakes`): `LastClickCounts` says nothing from there on. The user may stop
  at any time, so `CHECK_DEADLOCK` is off; so may the visitors of LiveBoard and BoardEditor, and
  the events of BoardView end.
- *LiveBoard*: a board with an idea, a reply, an attestation and a vote that was retracted, and
  what comes during the visit: an answer to the reply, its retraction, an edit. So each filter
  changes by the seeds and by deliveries, and every pass of the snapshot has something to
  miss. `MS` = 1 and `MaxWait` = 2 have the cap bite on the second change. The link is that of
  a reply, so resolving it takes the two hops of `MaxHops`. One query may be lost, or one
  return made.
- *Zaps*: one zap by the user and one from elsewhere, on one idea; two amounts, one of them out
  of the provider's bounds; three forgeries (a foreign signer, no signature, another's request);
  five retries and delays as in the code, in ticks, and an outage of 12 ticks, shorter than they
  last together; two disturbances of any kind, so that one may hit the recovery from another.
  The user opens the dialog as long as a zap is left to make or under way.
- *BoardEditor*: two accounts (the owner and another), two logins, which may both be in flight,
  two clicks, two saves by the dialog or another device, one failed publish or request, and
  relays that are one "not found" slower than the first attempt.
- *Nip05*: one handle, two authors, one reassignment; `OkTTL` = 2, `ErrTTL` = `Timeout` = 1, the
  least times that stand in the code's order; four ticks: an answer that is a timeout old when it is
  cached, used on the last tick of its TTL, and beyond.

### Fairness

Safety is checked without fairness. `EveryRequestAnswered` is about a watched request
(`MCWatched`; which one makes no difference) and assumes that it takes its next step while it is in
flight: a query ends after its `maxWait`, a publish settles on every relay. Nothing is assumed
of the other requests, which may hang.
`StaysLive` assumes that a due alarm fires, that a fetch settles, that a broken socket's close
event comes, and that a relay sends what an open subscription asks for. `OrphansGo`
assumes that a publish settles and that the relays send what the page subscribes to.
`CatchesUp` assumes that a query ends by its deadline, timers fire, the page is mounted and
the relays deliver what matches; `PaidIsShown` that fetches and timers end, profiles come
and the relays deliver genuine receipts; `VerdictComes` that a fetch settles, by
`AbortSignal.timeout` at the latest, and that microtasks run; no domain has to answer. Nobody is
assumed to call `track` or to publish. Faults are bounded, so these say
"once the environment stops failing".

## 4. What disagrees with the documentation

`MCAggregatorCeiling` shows the first of these. The others follow from a few lines of the code each,
and no run shows them.

- `connectRelay` stores its socket without looking again (`board-aggregator.ts:194`): when a
  `track` call and the alarm dial one relay at once, the loser stays open, receives events,
  and is in no map. The sockets of a relay list that was replaced stay open as well. Nothing
  bounds the sockets of an object, although lists are capped for that (`index.ts:29-31`).

Attestation and discover:

- A revoke updates the set and then the label (`issue.ts:204-228`); its header
  (`issue.ts:16-17`) says the delist label is first. The order of the code is the safe one:
  `ListedIsAttested` fails with the other.
- An attest that finds its own board in order returns before it compares the set with the
  labels (`issue.ts:150`), so it does not put back another board whose set publish was lost,
  which `issue.ts:45` promises of "the next op". The next attest of a board that is not yet
  in order does.
- An add over a partial read can drop a board: when neither the set nor the board's label was
  among the answers, the union is without it, and the new set supersedes the one that had it.
  The header says that a partial read "can never DROP a listed board" (`issue.ts:13`) and, in the same
  sentence, that a board seen nowhere is "transiently under-listed". Two requests that overlap
  do the same to each other. What holds is the end of that sentence: it is "healed on the next
  op" (`NextOpHeals`), if that one reads everything, is not idempotent, and writes undisturbed.
- `decideAllowlist` takes any connected relay for an answer (`attestation.ts:312`): a relay
  that is connected but delivers nothing within `maxWait` blanks discover, although a
  last-known-good set is there and `ATTESTATION.md:12` says it never is.

Aggregator:

- `track` stores the board, then awaits its relays, then schedules the alarm
  (`board-aggregator.ts:76-91`): an object that dies in between is tracked but never
  connects. The caller got no answer, so `StaysLive` does not cover it.
- A relay's CLOSED is ignored (`board-aggregator.ts:257`): that subscription is not renewed
  while its socket lives. `StaysLive` assumes that relays keep subscriptions.
- The aggregator never subscribes to kind 5 (`board-aggregator.ts:199-208`), so
  `deriveBoardStats` has no deletion to honour, although `INDEXER.md:37` says it does. Nor
  does it ask for votes on replies, which the table in `INDEXER.md` lists.

Board view and voting:

- `deriveBoardView` takes the newest board event there is, of any author and `d` tag
  (`aggregate.ts:129-132`), and the aggregator stores every verified event a relay sends
  (`board-aggregator.ts:263-273`), although "Relays are untrusted" (`INDEXER.md:37`): a newer
  board event of somebody else takes the board's place, its moderators with it, where the
  function is documented for "the board's events" (`aggregate.ts:106`). The web page passes only
  the board it resolved (`board-subscription-provider.tsx:167`), so this concerns the
  aggregator's view. `OnlyModeratorsModerate` excepts the step in which such an event arrives.
- `deriveBoardView` offers no approvals to `deletedEventIds` (`aggregate.ts:120-125`), so its
  filter on deleted approvals (line 145) is dead: a moderator who retracts an approval leaves
  the idea on the board, although `board-subscription-provider.tsx:146-147` lists approvals.
- Rows of one score and one date have no further order in `sortIdeaStats`: two readers may
  list them differently, by order of arrival, although the aggregator and the clients "can
  never disagree" (`aggregate.ts:4-5`). What is in the rows does agree (`ReadersAgree`).
- After a retraction the page forgets the retracted reaction (`use-voting.ts:127`), so a vote
  in the same second is not "strictly newer than any prior reaction" (line 130). In the same
  direction it is the deleted event again and never counts; in the other one it may lose the
  tie in the page's own eyes, and the clean-up then deletes the vote that counts.
  `LastClickCounts` and `CleanUpIsHarmless` hold of everything else (`Mistakes`).
- A failed retraction keeps its claim in `retracted`: if that reaction is superseded later,
  the clean-up passes it over, and it counts again once the newer one is deleted. `OrphansGo`
  leaves these out (`kept`).
- `useVoting` says a click on the direction you hold retracts it (`use-voting.ts:28`). The
  pill shows the shared tally, but `cast` starts from the authored subscription (line 114):
  while that has not loaded, the click votes again instead.

Live board, zaps and handles:

- `useZaps` retains the last buffer while the new one is empty, so that a total "does not blink
  to 0 (and back)" (`use-zaps.ts:31-34`). The new one fills up one event at a time: with the
  first of them the retained ones are gone, and a total of several receipts drops and comes back.
  Likewise a retracted receipt flashes back (`use-zaps.ts:40-41`) when the first retraction delivered
  again is another's. `OnlyNewsMovesPayments` says that these two moments are the only ones.
- On an idea page whose link the snapshot could not resolve nothing opens the thread's
  subscriptions later, although `board-subscription-provider.tsx:89-90` says that the thread
  loads without its board.
- A failed lookup is kept for 20 s so that "the next resolve attempt retries"
  (`lnurl.ts:26-28`): the first attempts within them are answered by the cached failure.
  `PaidIsShown` holds because the retries of `useLnurlAnchors` last longer.
- The cache of handles has "exactly one fetch" per identity (`use-nip05-verify.ts:20-21`): a row
  that claims the handle between the end of a fetch and the microtask that stores its answer
  starts a second one. The verdicts are right all the same.

Sign-in and board editor:

- The owner's attest ends without a label when its token is turned down, by a clock that is off
  or a request that was long on its way (`server.ts:76`, 401), or when the signer refuses
  (`use-attest.ts:48`, outside the `try`). The loop is said to stop for "a real ownership/conformance
  rejection" only (`use-attest.ts:65`). `SavedIsAttested` promises nothing of these.
- An attest request that the service answers with 200 for an older version, as it has not
  seen the newer, ends the retries: the edit stays without its badge until the next save,
  although the request re-fires on edit so that "the pin tracks the new board version"
  (`board-dialog.tsx:171-173`). `SavedIsAttested` is about the board, not the version.
- A save that completes after its dialog was closed and opened again closes it, and its draft
  is dropped (`board-dialog.tsx:179`).
- A creation whose publish failed although a relay stored it is repeated under another slug
  (`board-dialog.tsx:159`): there are two boards.
- A login that fails after its dialog was closed shows its error in the dialog opened next,
  although closing clears it (`login-dialog.tsx:34-37`).

## 5. Proofs

Checked by TLAPS for every value of the constants. Each proof module proves the type invariant
of its component (`TypeCorrect`; of the zaps, `ZapsTypeCorrect`), and:

| Module | Theorem | Property |
|---|---|---|
| `Attestation_proofs` | `PublishedWasAdmitted` | `Provenance` |
| | `AnsweredMeansDurable` | `SuccessIsDurable` |
| | `ListedAreAttested` (serialised) | `ListedIsAttested` |
| | `SuccessRepairs` (serialised) | `OkMeansLockstep` |
| | `RevokeIsEffective` (serialised) | `RevokeTakesEffect` |
| | `NextRequestHeals` (distinct ids) | `NextOpHeals` |
| | `Refinement` (serialised) | `RefinesAllowlist` |
| `Aggregator_proofs` | `NoIdeaMissesItsVotes` | `VoteSubCoversIdeas` |
| | `OneSocketEach` | `OneSocketPerRelay` |
| | `SuccessorsAreKept` | `ForgetsOnlyTheDead` |
| `Page_proofs` (board) | `ArrivalOrderIsIrrelevant` | what a newest-wins loop keeps depends on the counted events only |
| | `SameEventsSameBoard` | readers with the same events see the same moderation and feed |
| | `ReadersDoAgree` | `ReadersAgree` |
| | `TheOwnerHasTheLastWord` | `OwnerHasTheLastWord` |
| | `ModerationIsReserved` | `OnlyModeratorsModerate` |
| | `RetractionsLeaveNoTrace` | `RetractionLeavesNoTrace` |
| | `TheBannedHaveNoVoice` | `BannedHaveNoVoice` |
| | `TheFeedAgreesWithTheIdeaPage` | `FeedAgreesWithIdeaPage` |
| `Page_proofs` (zaps) | `TotalsArePayments` | `TotalIsWhatWasPaid` |
| | `PaymentsMoveWithNews` | `OnlyNewsMovesPayments` |
| `Voting_proofs` | `CleanUpsAreHarmless` | `CleanUpIsHarmless` |
| | `TheLastClickCounts` | `LastClickCounts` |
| `DiscoverGate_proofs` | `RevocationIsTimely` | `RevocationReachesDiscover` |
| | `BlankIsEmpty` | `EmptyMeansEmpty` |
| | `WarmStaysClosed` | `WarmInstanceNeverOpens` |
| `LiveBoard_proofs` | `IdsAreAskedInTime` | `EveryKnownIdIsAsked` |
| | `RetractedStaysHidden` | `RetractionHolds` |
| | `BadgesAreEarned` | `BadgeIsEarned` |
| | `RepliesAreKept` | `ThreadKeepsItsReplies` |
| `BoardEditor_proofs` | `DialogShowsTheBoard` | `ClosedFormIsTheBoard` |
| | `OnlyTheOwnerEdits` | `EditsKeepTheBoard` |
| | `ClicksAreHonoured` | `OnlyWantedClicksRun` |
| | `SavedGetsAttested` (patient) | `SavedIsAttested` |
| `Nip05_proofs` | `BadgesWereTrue` | `VerdictsWereTrue` |

Three premises stand in front of theorems. *Serialised*: `Concurrency` = 1 and no `"read"` among
the `Faults`, the "single serialized writer" over complete reads that `issue.ts` assumes (a read
that reaches no relay is refused, and may happen); `MCAttestationLossy` and
`MCAttestationSkewed` are instances of it. Without it a request may publish what it read before
another one published; what holds even then is `Provenance`, `SuccessIsDurable` and
`NextOpHeals`, proved without the premise and checked by `MCAttestationFaulty`. *Distinct ids*:
events that tie on `created_at` have different ids, as ids are hashes. *Patient*: the retries
outlast the lag and the faults. With *f* failed requests, attempt number `Len(Delays)` - *f*
starts no earlier than the version is readable. The delays of `use-attest.ts` and the troubles
of `MCBoardEditor` satisfy it, which that module states as an ASSUME for TLC to evaluate.
`Timetables` has the one function that adds up the delays.

The inductive invariants, and why they are needed:

- *Attestation*: for any number of requests, relays and boards, any concurrency, any clock and
  every fault. `Provenance` needs that a request's view holds admitted events only (it publishes
  the union of what it read), that its pinned version was admitted, and that `req` never
  changes once set. `SuccessIsDurable` needs that a request past its label publish has that
  label on a relay, and that relays keep labels.
- *Attestation, serialised* (`SInv`): one request is active, its view is the set and the labels
  on the relays now, except for what it has itself published since (`ViewIsCurrent`). What it
  signs is dated after everything in its view, so it wins wherever the clock stands
  (`StoreSetEffect`, `StoreLabelEffect`); it publishes the label before it lists, and unlists
  before it takes the label back, so that a crash or a lost OK between the two leaves a listed
  board attested. The same facts map each publish to a step of `Allowlist` (`PublishLabel` to
  `Attest`, `PublishSet` to `Relist` or `Withdraw`, `PublishDelist` to `Delist`, or a stutter
  when it wins nowhere new).
- *Attestation, a fresh request* (`HInv`): among any number of requests, what a fresh one has
  read is what the relays say now, but for what it has published since (`Held`): it is the others'
  writes that end freshness, and a request's own writes win (`FreshLabel`, `FreshSet`, `FreshDelist`).
  Under overlaps `created_at` ties occur that serialised writers never have, so that the relays have
  a newest set at all takes distinct ids (`SetsKeepLatest`, `LabelsKeepLatest`).
- *Aggregator*: the map points at live sockets of the right relay (`MapIsSound`), as a dial
  must not reuse a socket that the map still holds, and `voteSubKey` never runs ahead of the
  events table (`KeyIsStored`), which is what makes skipping the refresh sound. While handlers do
  not overlap, the one that dials finds no socket in the map for that relay, and every socket
  is in the map (`OInv`).
- *BoardView*: the invariant is no more than that a log is a sequence of events with each once;
  the rest is about the operators. Their inductions are stated of sets (`Induction`,
  `Recursion`). A loop keeps the newest event of each key (`CollapseKeepsNewest`, by
  `KeepNewestExtends` turn by turn), and there is one such map (`NewestPerKeyIsUnique`): so a
  board depends on what is live only. Ids must be unique: for the order of ties
  (`NewerIsATotalOrder`), and for `LiveAreNotRemoved`, as the code hides by id. A reply has one parent;
  so the trees of two ideas share nothing (`TreesAreDisjoint`), what earlier ideas were
  counted for is never missed by a later one (`CountedIsFound`), and a reply has one depth
  (`OneDepth`). No tree is deeper than it has replies (`LevelsSaturate`, by cardinality): the
  code's unbounded search is a bounded one.
- *Zaps* (`ZapsIInv`; in the module of the board view, whose `Recursion` it shares): money is
  followed from the dialog to the total. What is paid, by the wallet or by hand, has an invoice
  of an amount its provider takes (`PaidWasInvoiced`; an amount is fixed once the provider's
  limits have been read), and what is on the relays is forged or of a payment
  (`ReceiptsAreOfPayments`). A forgery passes no gate (`ForgeriesCountForNothing`), every
  receipt of a payment passes it once the anchor is known (`PaymentsCount`), and the loop leaves
  one receipt of each payment, whatever the order (`WinnersAreOnePerPayment`); so the winners of
  a target correspond to its payments one to one, with the same amounts. For
  `OnlyNewsMovesPayments`: what counts is of payments (`CountingIsOfPayments`), and distinct
  receipts have distinct ids (`IdsDiffer`), so that a retraction hides no other. A payment that
  stops to count had its receipt hidden or its buffer displaced (`GoesWithNews`), one that
  starts had it delivered, its anchor found, or its retraction displaced (`ComesWithNews`),
  where an empty buffer hides nothing and shows nothing twice (`BlinkHidesNothing`).
- *Voting*: both properties are about a page at rest, and the way there goes through casts in
  flight. A vote that has been sent is the newest on the relays (`SentStays`), and what is
  deleted, or about to be, is superseded by a reaction that stays (`OnlySupersededGo`); so a
  clean-up changes no count. The reaction a page shows is the newest, its own, and all others
  are deleted or on their way out (`PageHolds`), at every step of a cast and after a rollback.
  `OneIsNewest`, by a well-founded minimum, is where the order of ties matters.
- *DiscoverGate*: a version is out of date since its successor was published, and that was not
  long ago: at a render, no longer than its query lasts (`ReadInTime`); in the cache, no longer than
  a query before it was stored (`StoredInTime`). A cached decision adds the TTL. A render
  without a fallback began on a cold instance (`NoFallbackNoCache`).
- *LiveBoard*: whenever a filter misses an id its refresh is due, early enough for the time its
  key has held (`Waits`). Ids become known by deliveries only, as the snapshot is complete
  once the page is there (`Settled`). For what is shown (`RInv`): what the page has was
  published (`Heard`), what the visitor deleted is retracted on the relays (`Withdrawn`), and a
  pass of the snapshot that is over has brought the early retractions of what the passes
  before it read (`Retractions`), unless a read was lost. `Under`, the comments below another, is
  a least set, so that a branch grows with the events (`UnderGrows`) without an induction.
- *BoardEditor*: an edit dialog is open only in front of its owner (`OwnerEdits`): without it a
  late login could save under another key. What is stashed is the last act of the logged-out,
  until it ran (`StashIsPromise`). For `SavedIsAttested`: unless it was ended, a loop has more
  attempts left than there are faults, and the time its attempts have taken is gone from the lag
  of its version (`InTime`); a "not found" therefore means that the lag is not over, and that an
  attempt after it is left (`NotFoundIsEarly`).
- *Nip05*: an entry is at most a timeout older than the domain's word (`EntriesSaid`); a row gets
  an entry that was fresh when it claimed its handle, or one made since (`AnswersAreLater`).

Assumptions are the named ASSUMEs of the modules: the event kinds are disjoint, event ids are
unique, a snapshot has each event once, lists are not longer than the cap, names are not members
of the sets they stand apart from, bounds are natural numbers, the debounce is not longer than
its cap; board events of one coordinate have one author; of the zaps, that receipts have ids of
their own (`IdsAssumption`), that a displayed event has one author and an author one provider,
that amounts are positive (`request.ts:40`), and that a provider signs no receipt with an
invoice for its request except for a payment (`ForgeriesAssumption`), which is what the code
trusts a provider with. TLC evaluates them in every run.

Only model-checked is what must happen in the end: `EveryRequestAnswered`, `StaysLive`,
`OrphansGo`, `PaidIsShown`, `CatchesUp` and `VerdictComes`. Liveness rests on fairness and
ENABLED, which are out of the prover's reach.

## 6. Not modelled

- NIP-98 request authentication, the signer, configuration and the operator command line:
  stateless checks and start-up code. Their outcome is `Refuse` and `TurnsDown`, and the set of
  operators.
- Builders of single events, sanitising, URLs: formats. Of the parsers the models have what
  they keep (the event sets of Attestation, BoardView and ZapReceipts), not how they read it.
- `use-moderation.ts`, `use-delete.ts` and `use-notifications.ts`: each publishes one event or keeps a
  list; what such events do to a board is the board view's.
- Pages and components: their snapshots, reply box, delete button and dialogs are actions of
  LiveBoard, BoardEditor and Zaps. The rest is rendering, and forms that publish one event.

## 7. Plan

Done: the core (Attestation with Allowlist, DiscoverGate, Aggregator, BoardView, Voting), the
clients (LiveBoard, ZapReceipts with Zaps, Session with BoardEditor, Nip05), and the proofs of
section 5. What is left, in order:

1. Request authentication as a module of its own, if tokens come to be remembered: as it is,
   a token is valid by its time and contents only.
2. The composition of BoardEditor with Attestation instead of the service's summary
   (`Answer`): the bound of the latter is three requests, and the product is beyond TLC as it is.
