-------------------------------- MODULE Zaps --------------------------------
(***************************************************************************)
(* Zapping an idea and showing what it was zapped: the zap dialog of the   *)
(* page, the invoice it requests, the receipts that reach the page, and    *)
(* the anchors that make them count (useZaps, useLnurlAnchors), with the   *)
(* lnurl cache that dialog and hook share.                                 *)
(*                                                                         *)
(* One browser, the providers, the relays. A tick is 1.5 seconds, the step *)
(* of the hook's backoff.                                                  *)
(***************************************************************************)
EXTENDS ZapReceipts

CONSTANTS
  Author,      \* the author of each event the page shows totals of
  Provider,    \* each author's provider, as a Meta
  Mine,        \* the zaps the user may make
  Others,      \* zaps made elsewhere, and paid
  Sender, Target,  \* of each zap
  Amounts,     \* what may be zapped, in millisats
  Copies,      \* how many receipts a provider may publish for one payment
  Forgeries,   \* the receipts others publish
  Disowned,    \* the retractions of receipts others publish
  MaxAttempts, \* MAX_ATTEMPTS
  MaxDelay,    \* the longest backoff
  NegTTL,      \* how long the cache keeps a failure
  FetchTime,   \* the fetch timeout
  MaxOutage,   \* bound of the model: how long the one outage lasts
  MaxFaults    \* bound of the model: disturbances of all kinds in one behaviour

Authors == {Author[t] : t \in DOMAIN Author}

ASSUME PageAssumption ==
  /\ Author \in [DOMAIN Author -> People] /\ DOMAIN Author \subseteq Events
  /\ IsFiniteSet(DOMAIN Author)
  /\ Provider \in [Authors -> Metas]
  /\ Sender \in [Mine \cup Others -> People] /\ Target \in [Mine \cup Others -> DOMAIN Author]
  /\ Mine \cup Others \subseteq Nat \ {0} /\ Mine \cap Others = {}
  /\ Amounts \subseteq Nat \ {0} /\ Copies \in Nat \ {0}

\* A receipt's id, in place of a hash.
ReceiptId(z, msat, n) == 1000 * z + 10 * msat + n

\* No two receipts have the same.
ASSUME IdsAssumption ==
  /\ \A y, z \in Mine \cup Others, m, k \in Amounts \cup {0}, i, j \in 1 .. Copies :
       ReceiptId(y, m, i) = ReceiptId(z, k, j) => y = z /\ m = k /\ i = j
  /\ \A r \in Forgeries, z \in Mine \cup Others, m \in Amounts \cup {0}, i \in 1 .. Copies :
       r.id # ReceiptId(z, m, i)

\* A provider signs no receipt whose invoice binds to the request, but for a payment.
ASSUME ForgeriesAssumption ==
  /\ Forgeries \subseteq Receipts
  /\ \A r \in Forgeries, a \in Authors : r.sig /\ r.key = Provider[a].key => ~InvoiceBinds(r)
ASSUME TimesAssumption ==
  /\ MaxAttempts \in Nat /\ MaxDelay \in Nat \ {0} /\ FetchTime \in Nat
  /\ NegTTL \in Nat \ {0} /\ MaxOutage \in Nat /\ MaxFaults \in Nat

NoZap == 0

VARIABLES
  dialog,    \* the zap dialog: is it open, its status, the zap whose invoice it holds
  zaps,      \* of each zap the stage of its request, and the amount that was asked
  paid,      \* the zaps whose invoice was paid
  relays,    \* the receipts and retractions published
  buf,       \* the receipts in the buffer of the page's subscription
  dels,      \* the retractions in the buffer of its deletions subscription
  events,    \* lastEvents: the receipts of the last buffer that was not empty
  hidden,    \* lastHidden: what the last retractions that were not empty hide
  anchors,   \* the providers resolved, which totals use
  run,       \* the current run of the hook's effect
  lud16,     \* the authors whose address the page's profiles have
  cache,     \* of each address, the answer kept, and how long a failure still is
  flight,    \* of each address, the fetch in flight: its age, and if the outage hit it
  outage,    \* the one outage: is it on, how much longer it may last
  faults     \* how many disturbances may still come

page  == <<buf, dels, events, hidden>>
hook  == <<anchors, run>>
lnurl == <<cache, flight>>
user  == <<dialog, zaps, paid>>
vars  == <<user, relays, page, hook, lud16, lnurl, outage, faults>>

\* A disturbance: a forgery, a second receipt, a retraction, a lost buffer, an
\* expired answer, the outage.
Disturbs == faults > 0 /\ faults' = faults - 1

-----------------------------------------------------------------------------
(* What the page shows.                                                    *)

LiveReceipts == {r \in ToSet(events) : r.id \notin hidden}

Anchor == [a \in Authors |-> IF a \in anchors THEN Provider[a] ELSE NoAnchor]
Shown  == Totals(events, LiveReceipts, Author, Anchor)

\* The authors that received receipts, valid or not.
Recipients == {Author[r.e] : r \in {s \in LiveReceipts : s.e \in DOMAIN Author}}

\* A receipt is retracted by the key that signed it.
HiddenBy(ds, es) == {r.id : r \in {s \in ToSet(es) : [by |-> s.key, id |-> s.id] \in ds}}

\* Mutant of Retained: what is hidden is what the buffer now says.
RetainedEventsOnly(b, ds) ==
  /\ events' = IF b # <<>> THEN b ELSE events
  /\ hidden' = HiddenBy(ds, events')

\* An empty buffer is taken for a subscription that settles: the page goes on
\* with the last one that was not.
Retained(b, ds) ==
  /\ events' = IF b # <<>> THEN b ELSE events
  /\ hidden' = IF HiddenBy(ds, events') # {} THEN HiddenBy(ds, events') ELSE hidden

-----------------------------------------------------------------------------
(* The effect of useLnurlAnchors.                                          *)

\* What the effect depends on: the recipients, and which addresses are known.
EffectKey == [who |-> Recipients, known |-> Recipients \cap lud16]

Idle == [key |-> [who |-> {}, known |-> {}], phase |-> "over", attempt |-> 0, timer |-> 0,
         have |-> {}, pending |-> <<>>]

\* A run looks up those it does not have. An author whose address is not
\* known needs a profile first.
Start(key, attempt, have) ==
  LET missing == key.who \ have IN
    [key |-> key, phase |-> IF missing = {} THEN "over" ELSE "busy", attempt |-> attempt,
     timer |-> 0, have |-> have,
     pending |-> [a \in missing |-> IF a \in key.known THEN "resolve" ELSE "profile"]]

\* When the key changes the old run is cleaned up and a new one starts from
\* the anchors held.
EffectRuns ==
  run' = IF EffectKey' = run.key THEN run ELSE Start(EffectKey', 0, anchors)

Delay(attempt) == IF attempt < MaxDelay THEN attempt ELSE MaxDelay

\* Mutant of MoreAttempts: the last retry is not made.
OneAttemptLess(attempt) == attempt < MaxAttempts - 1

\* Mutant of MoreAttempts: one retry more.
OneAttemptMore(attempt) == attempt <= MaxAttempts

MoreAttempts(attempt) == attempt < MaxAttempts

\* The run's lookups have ended: found ones are merged, and the others are
\* retried later.
AfterLookups(r) ==
  LET have == r.have \cup {a \in DOMAIN r.pending : r.pending[a] = "found"} IN
    IF r.key.who \subseteq have \/ ~MoreAttempts(r.attempt)
    THEN [r EXCEPT !.phase = "over", !.have = have, !.pending = <<>>]
    ELSE [r EXCEPT !.phase = "waiting", !.have = have, !.pending = <<>>,
                   !.attempt = @ + 1, !.timer = Delay(r.attempt + 1)]

\* One lookup has ended; the run goes on when all have.
Ended(r, a, found) ==
  LET next == [r EXCEPT !.pending[a] = IF found THEN "found" ELSE "missing"] IN
    IF \A b \in DOMAIN next.pending : next.pending[b] \in {"found", "missing"}
    THEN AfterLookups(next) ELSE next

-----------------------------------------------------------------------------
(* resolveLnurlPay.                                                        *)

NoEntry == [answer |-> "none", left |-> 0]
Entry(ok) == IF ok THEN [answer |-> "meta", left |-> 0] ELSE [answer |-> "null", left |-> NegTTL]

Cached(a) == cache[a] # NoEntry

\* An answer comes from the cache, or from a fetch, a running one if any.
Ask(a) ==
  flight' = IF Cached(a) \/ flight[a].on THEN flight
            ELSE [flight EXCEPT ![a] = [on |-> TRUE, age |-> 0, hit |-> outage.on]]

\* What a run found is merged; an anchor is never dropped.
Merge == anchors' = anchors \cup run'.have

\* The hook's run looks an address up.
HookAsks(a, r) ==
  /\ Ask(a)
  /\ run' = IF Cached(a) THEN Ended(r, a, cache[a].answer = "meta")
            ELSE [r EXCEPT !.pending[a] = "flight"]
  /\ Merge

LookUp(a) ==
  /\ run.phase = "busy" /\ a \in DOMAIN run.pending /\ run.pending[a] = "resolve"
  /\ HookAsks(a, run)
  /\ UNCHANGED <<user, relays, page, lud16, cache, outage, faults>>

\* fetchProfile, which may miss.
FetchProfile(a) ==
  /\ run.phase = "busy" /\ a \in DOMAIN run.pending /\ run.pending[a] = "profile"
  /\ \/ HookAsks(a, run)
     \/ /\ run' = Ended(run, a, FALSE)
        /\ Merge
        /\ UNCHANGED flight
  /\ UNCHANGED <<user, relays, page, lud16, cache, outage, faults>>

\* The dialog's zaps that wait for an address.
Resolving(a) == {z \in Mine : zaps[z].stage = "resolving" /\ Author[Target[z]] = a}

Failed == [stage |-> "over", msat |-> 0]

\* A resolved zap calls its provider if the amount is within its bounds.
AfterResolve(z, msat, ok) ==
  LET meta == Provider[Author[Target[z]]]
  IN IF ok /\ msat \in meta.min .. meta.max THEN [stage |-> "calling", msat |-> msat] ELSE Failed

FlightEnds(a) ==
  /\ flight[a].on
  /\ \E ok \in (IF flight[a].hit THEN BOOLEAN ELSE {TRUE}) :
       /\ cache' = [cache EXCEPT ![a] = Entry(ok)]
       /\ flight' = [flight EXCEPT ![a] = [on |-> FALSE, age |-> 0, hit |-> FALSE]]
       /\ run' = IF run.phase = "busy" /\ a \in DOMAIN run.pending /\ run.pending[a] = "flight"
                 THEN Ended(run, a, ok) ELSE run
       /\ Merge
       /\ zaps' = [z \in DOMAIN zaps |->
                     IF z \in Resolving(a)
                     THEN AfterResolve(z, zaps[z].msat, ok) ELSE zaps[z]]
       /\ dialog' = IF \E z \in Resolving(a) : zaps'[z].stage = "over"
                    THEN [dialog EXCEPT !.status = "idle"] ELSE dialog
  /\ UNCHANGED <<paid, relays, page, lud16, outage, faults>>

RetryFires ==
  /\ run.phase = "waiting" /\ run.timer = 0
  /\ run' = Start(run.key, run.attempt, run.have)
  /\ UNCHANGED <<user, relays, page, anchors, lud16, lnurl, outage, faults>>

-----------------------------------------------------------------------------
(* The dialog, and the user's wallet. Closing the dialog resets it and     *)
(* stops nothing.                                                          *)

OpenDialog ==
  /\ ~dialog.open /\ \E z \in Mine : Author[Target[z]] \in lud16 /\ zaps[z].stage # "over"
  /\ dialog' = [dialog EXCEPT !.open = TRUE]
  /\ UNCHANGED <<zaps, paid, relays, page, hook, lud16, lnurl, outage, faults>>

CloseDialog ==
  /\ dialog.open
  /\ dialog' = [open |-> FALSE, status |-> "idle", pr |-> NoZap]
  /\ UNCHANGED <<zaps, paid, relays, page, hook, lud16, lnurl, outage, faults>>

\* The dialog offers its button unless it shows a success or an invoice, and enables
\* it unless it waits. A closed dialog forgot its invoice.
Offered == dialog.status = "idle" \/ (dialog.status = "manual" /\ dialog.pr = NoZap)

ClickZap(z) ==
  /\ dialog.open /\ Offered /\ zaps[z].stage = "new"
  /\ LET a == Author[Target[z]] IN
       /\ Ask(a)
       /\ \E msat \in Amounts :
            LET zap == IF Cached(a) THEN AfterResolve(z, msat, cache[a].answer = "meta")
                       ELSE [stage |-> "resolving", msat |-> msat] IN
              /\ zaps' = [zaps EXCEPT ![z] = zap]
              /\ dialog' = [dialog EXCEPT !.status = IF zap = Failed THEN "idle" ELSE "requesting"]
  /\ UNCHANGED <<paid, relays, page, hook, lud16, cache, outage, faults>>

\* The callback returns an invoice of the amount asked; anything else is an error.
Invoiced(z) ==
  /\ zaps[z].stage = "calling"
  /\ \/ /\ zaps' = [zaps EXCEPT ![z].stage = "paying"]
        /\ dialog' = [dialog EXCEPT !.pr = z]
     \/ /\ zaps' = [zaps EXCEPT ![z] = Failed]
        /\ dialog' = [dialog EXCEPT !.status = "idle"]
  /\ UNCHANGED <<paid, relays, page, hook, lud16, lnurl, outage, faults>>

\* The wallet pays; or there is none, or it gave up, whether or not it had paid.
WalletSettles(z) ==
  /\ zaps[z].stage = "paying"
  /\ zaps' = [zaps EXCEPT ![z].stage = "over"]
  /\ \/ paid' = paid \cup {z} /\ dialog' = [dialog EXCEPT !.status = "success"]
     \/ paid' \in {paid, paid \cup {z}} /\ dialog' = [dialog EXCEPT !.status = "manual"]
  /\ UNCHANGED <<relays, page, hook, lud16, lnurl, outage, faults>>

PayByHand ==
  /\ dialog.open /\ dialog.status = "manual" /\ dialog.pr # NoZap
  /\ paid' = paid \cup {dialog.pr}
  /\ UNCHANGED <<dialog, zaps, relays, page, hook, lud16, lnurl, outage, faults>>

-----------------------------------------------------------------------------
(* The providers and the relays.                                           *)

RequestOf(z, msat) ==
  [by |-> Sender[z], sig |-> TRUE, coherent |-> TRUE, p |-> Author[Target[z]],
   e |-> Target[z], amount |-> msat]

\* The n-th receipt an honest provider publishes for a payment.
ReceiptOf(z, n) ==
  LET request == RequestOf(z, zaps[z].msat) IN
    [id |-> ReceiptId(z, zaps[z].msat, n), key |-> Provider[request.p].key, sig |-> TRUE,
     at |-> n, p |-> request.p, e |-> request.e, req |-> request,
     invoice |-> [hash |-> z, msat |-> zaps[z].msat, desc |-> request]]

PublishReceipt(z, n) ==
  /\ z \in paid /\ ReceiptOf(z, n) \notin relays.receipts
  /\ IF n = 1 THEN UNCHANGED faults ELSE Disturbs
  /\ relays' = [relays EXCEPT !.receipts = @ \cup {ReceiptOf(z, n)}]
  /\ UNCHANGED <<user, page, hook, lud16, lnurl, outage>>

\* A provider retracts a receipt of its own.
Retract(r) ==
  /\ r \in relays.receipts \ Forgeries /\ Disturbs
  /\ relays' = [relays EXCEPT !.dels = @ \cup {[by |-> r.key, id |-> r.id]}]
  /\ relays' # relays
  /\ UNCHANGED <<user, page, hook, lud16, lnurl, outage>>

Deliver(r) ==
  /\ r \in relays.receipts /\ r.e \in DOMAIN Author /\ r \notin ToSet(buf)
  /\ IF r \in Forgeries THEN Disturbs ELSE UNCHANGED faults
  /\ buf' = Append(buf, r) /\ Retained(buf', dels)
  /\ UNCHANGED lud16 /\ EffectRuns
  /\ UNCHANGED <<user, relays, dels, anchors, lnurl, outage>>

DeliverRetraction(d) ==
  /\ d \in relays.dels \ dels /\ \E r \in ToSet(events) : r.id = d.id
  /\ IF d \in Disowned THEN Disturbs ELSE UNCHANGED faults
  /\ dels' = dels \cup {d} /\ Retained(buf, dels')
  /\ UNCHANGED lud16 /\ EffectRuns
  /\ UNCHANGED <<user, relays, buf, anchors, lnurl, outage>>

\* A subscription starts over with an empty buffer.
Blink ==
  /\ Disturbs
  /\ \/ buf # <<>> /\ buf' = <<>> /\ UNCHANGED dels
     \/ dels # {} /\ dels' = {} /\ UNCHANGED buf
  /\ Retained(buf', dels')
  /\ UNCHANGED lud16 /\ EffectRuns
  /\ UNCHANGED <<user, relays, anchors, lnurl, outage>>

ProfileArrives(a) ==
  /\ a \notin lud16 /\ lud16' = lud16 \cup {a}
  /\ UNCHANGED page /\ EffectRuns
  /\ UNCHANGED <<user, relays, anchors, lnurl, outage, faults>>

\* An outage counts from the first fetch it hits.
OutageBegins ==
  /\ ~outage.on /\ outage.left = MaxOutage /\ MaxOutage > 0 /\ Disturbs
  /\ \E a \in Authors : flight[a].on
  /\ outage' = [outage EXCEPT !.on = TRUE]
  /\ flight' = [a \in Authors |-> [flight[a] EXCEPT !.hit = flight[a].on]]
  /\ UNCHANGED <<user, relays, page, hook, lud16, cache>>

OutageEnds ==
  /\ outage.on /\ outage' = [on |-> FALSE, left |-> 0]
  /\ UNCHANGED <<user, relays, page, hook, lud16, lnurl, faults>>

\* A good answer expires after minutes, longer than anything else here takes:
\* at any time.
Expire(a) ==
  /\ cache[a].answer = "meta" /\ cache' = [cache EXCEPT ![a] = NoEntry] /\ Disturbs
  /\ UNCHANGED <<user, relays, page, hook, lud16, flight, outage>>

\* Time passes when nothing is due.
Tick ==
  /\ ~(run.phase = "waiting" /\ run.timer = 0)
  /\ ~(run.phase = "busy" /\ \E a \in DOMAIN run.pending : run.pending[a] = "resolve")
  /\ \A a \in Authors : flight[a].on => flight[a].age < FetchTime
  /\ outage.on => outage.left > 0
  /\ run' = IF run.phase = "waiting" THEN [run EXCEPT !.timer = @ - 1] ELSE run
  /\ cache' = [a \in Authors |->
                 IF cache[a].left > 1 THEN [cache[a] EXCEPT !.left = @ - 1]
                 ELSE IF cache[a].left = 1 THEN NoEntry ELSE cache[a]]
  /\ flight' = [a \in Authors |->
                  IF flight[a].on THEN [flight[a] EXCEPT !.age = @ + 1] ELSE flight[a]]
  /\ outage' = IF outage.on THEN [outage EXCEPT !.left = @ - 1] ELSE outage
  /\ UNCHANGED <<user, relays, page, anchors, lud16, faults>>

-----------------------------------------------------------------------------
ZapsInit ==
  /\ dialog = [open |-> FALSE, status |-> "idle", pr |-> NoZap]
  /\ \E sent \in [Others -> Amounts] :
       /\ \A z \in Others : LET meta == Provider[Author[Target[z]]] IN sent[z] \in meta.min .. meta.max
       /\ zaps = [z \in Mine \cup Others |->
                   IF z \in Mine THEN [stage |-> "new", msat |-> 0]
                   ELSE [stage |-> "over", msat |-> sent[z]]]
  /\ paid = Others
  /\ relays = [receipts |-> Forgeries \cup {ReceiptOf(z, 1) : z \in Others}, dels |-> Disowned]
  /\ buf = <<>> /\ dels = {} /\ events = <<>> /\ hidden = {}
  /\ anchors = {} /\ run = Idle
  /\ lud16 = {}
  /\ cache = [a \in Authors |-> NoEntry]
  /\ flight = [a \in Authors |-> [on |-> FALSE, age |-> 0, hit |-> FALSE]]
  /\ outage = [on |-> FALSE, left |-> MaxOutage]
  /\ faults = MaxFaults

Genuine == {ReceiptOf(z, n) : z \in Mine \cup Others, n \in 1 .. Copies}

\* What happens of itself: timers fire and fetches end, time passes otherwise.
Clock ==
  \/ Tick \/ RetryFires \/ OutageEnds
  \/ \E a \in Authors : LookUp(a) \/ FlightEnds(a)

\* Profiles come, on either way.
Profiles == \E a \in Authors : FetchProfile(a) \/ ProfileArrives(a)

\* The subscriptions deliver what the relays hold.
Delivery(rs, ds) == (\E r \in rs : Deliver(r)) \/ (\E d \in ds : DeliverRetraction(d))

ZapsNext ==
  \/ Clock \/ Profiles \/ Delivery(relays.receipts, relays.dels)
  \/ OpenDialog \/ CloseDialog \/ PayByHand
  \/ \E z \in Mine : ClickZap(z) \/ Invoiced(z) \/ WalletSettles(z)
  \/ \E z \in Mine \cup Others, n \in 1 .. Copies : PublishReceipt(z, n)
  \/ \E r \in relays.receipts : Retract(r)
  \/ \E a \in Authors : Expire(a)
  \/ Blink \/ OutageBegins

ZapsSpec == ZapsInit /\ [][ZapsNext]_vars

\* Timers fire, fetches end, profiles come, relays deliver what is genuine. Forgers
\* need not be heard, and nobody has to zap.
Fairness ==
  WF_vars(Clock \/ Profiles \/ Delivery(relays.receipts \ Forgeries, relays.dels \ Disowned))

FairSpec == ZapsSpec /\ Fairness

-----------------------------------------------------------------------------
(* Properties.                                                             *)

ZapsTypeOK ==
  /\ dialog \in [open : BOOLEAN, status : {"idle", "requesting", "success", "manual"},
                 pr : Mine \cup {NoZap}]
  /\ zaps \in [Mine \cup Others ->
               [stage : {"new", "resolving", "calling", "paying", "over"}, msat : Amounts \cup {0}]]
  /\ paid \subseteq Mine \cup Others
  /\ ToSet(buf) \subseteq relays.receipts /\ dels \subseteq relays.dels
  /\ ToSet(events) \subseteq relays.receipts /\ hidden \subseteq {r.id : r \in relays.receipts}
  /\ anchors \subseteq Authors /\ lud16 \subseteq Authors
  /\ run.phase \in {"busy", "waiting", "over"} /\ run.attempt \in 0 .. MaxAttempts
  /\ run.timer \in 0 .. MaxDelay /\ run.have \subseteq anchors
  /\ DOMAIN run.pending \subseteq Authors
  /\ cache \in [Authors -> [answer : {"none", "null", "meta"}, left : 0 .. NegTTL]]
  /\ flight \in [Authors -> [on : BOOLEAN, age : 0 .. FetchTime, hit : BOOLEAN]]
  /\ outage \in [on : BOOLEAN, left : 0 .. MaxOutage] /\ faults \in 0 .. MaxFaults

Credited(rs, t) ==
  {z \in Mine \cup Others : Target[z] = t /\ \E n \in 1 .. Copies : ReceiptOf(z, n) \in rs}
Asked(zs) == SumFunction([z \in zs |-> zaps[z].msat])

\* The total of an event is the sum of what its senders chose and paid, each
\* payment once, however many receipts it has, in whatever order they came,
\* whatever others publish or retract; or nothing while the anchor is not
\* known (zapTotalsByTarget over what the page holds).
TotalIsWhatWasPaid ==
  \A t \in DOMAIN Author :
    LET zs == Credited(LiveReceipts, t) IN
      /\ zs \subseteq paid
      /\ Shown[t] = IF Author[t] \in anchors THEN Asked(zs) ELSE 0

\* The payments that count, each by its receipt.
Counting == Winners(events, Validated(LiveReceipts, Author, Anchor))

\* A payment starts or stops to count with an event about it, or with its anchor:
\* never with a profile, a retry, an expired answer, an outage, a forgery, another
\* payment's receipt or an empty buffer (the retained buffers of useZaps, the
\* monotonic map of useLnurlAnchors). It stops with a retraction of its receipt,
\* or when the first receipt of a buffer that started over displaces all that was
\* retained. It starts with its receipt; with the anchor; or when a retraction
\* displaces those retained, and the page no longer holds the one of its receipt.
\* What goes on counting counts for as much, towards the same event.
OnlyNewsMovesPayments ==
  [][/\ \A h \in DOMAIN Counting \ DOMAIN Counting' :
          \/ [by |-> Counting[h].key, id |-> Counting[h].id] \in dels' \ dels
          \/ buf = <<>> /\ buf' # <<>>
     /\ \A h \in DOMAIN Counting' \ DOMAIN Counting :
          \/ Counting'[h] \in ToSet(buf') \ ToSet(buf)
          \/ Author[Counting'[h].e] \in anchors' \ anchors
          \/ /\ Counting'[h].id \in hidden \ HiddenBy(dels, events)
             /\ HiddenBy(dels', events') # {}
     /\ \A h \in DOMAIN Counting \cap DOMAIN Counting' :
          /\ Counting'[h].invoice = Counting[h].invoice
          /\ Counting'[h].e = Counting[h].e]_vars

\* What was paid is shown in the end, through one outage no longer than
\* MaxOutage: the retries outlast the cached failure (useLnurlAnchors,
\* NEG_TTL). Until then it may count for nothing.
PaidIsShown ==
  <>[](\A t \in DOMAIN Author :
         LET kept == {r \in relays.receipts : [by |-> r.key, id |-> r.id] \notin relays.dels}
         IN Shown[t] = Asked(Credited(kept, t)))
=============================================================================
