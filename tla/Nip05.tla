-------------------------------- MODULE Nip05 --------------------------------
(***************************************************************************)
(* The verified handles beside the authors' names (useNip05Verify,         *)
(* apps/web/hooks/use-nip05-verify.ts): the rows of a page share a cache   *)
(* of what domains answered and the lookups in flight. A row's claim       *)
(* changes while its lookup is awaited; a domain reassigns a name.         *)
(***************************************************************************)
EXTENDS Integers

CONSTANTS
  Rows, Pubkeys,
  Author,     \* Author[r]: the pubkey row r is about
  Names,      \* the handles, as the keys domain|local
  Profiles,   \* Profiles[r]: what the profile of r's author may name
  Nobody,     \* what an unassigned name maps to
  OkTTL, ErrTTL, Timeout,
  MaxTime,    \* bound of the model: when time stops
  MaxMoves    \* bound of the model: how often a handle changes hands

ASSUME Nip05Assumption ==
  /\ Author \in [Rows -> Pubkeys] /\ Nobody \notin Pubkeys
  /\ Profiles \in [Rows -> SUBSET (Names \cup {"none", "malformed"})]
  /\ Names \cap {"none", "malformed"} = {}
  /\ OkTTL \in Nat \ {0} /\ ErrTTL \in Nat \ {0} /\ Timeout \in Nat /\ MaxTime \in Nat
  /\ MaxMoves \in Nat

VARIABLES
  now,     \* Date.now()
  names,   \* names[n]: whom the domain's nostr.json maps n to
  told,    \* told[n][o]: when it last did so for o (no part of the program)
  cache,   \* cache[n]: the last entry stored
  lookup,  \* lookup[n]: when the fetch in flight was sent
  answer,  \* answer[n]: the entry it returned, until the awaiting effects ran
  rows,    \* what each row claims, since when, what it shows and awaits
  moves    \* how often a handle may still change hands (no part of the program)

vars == <<now, names, told, cache, lookup, answer, rows, moves>>

-----------------------------------------------------------------------------
Owners  == Pubkeys \cup {Nobody}
Never   == -(OkTTL + ErrTTL + Timeout)
NoEntry == [ok |-> FALSE, owner |-> Nobody, at |-> Never]
NoFetch == Never
Unused  == [claim |-> "none", since |-> 0, state |-> "idle", awaits |-> "nothing"]

\* Mutant of Fresh: an answer that turned TTL is fresh.
FreshAtTTL(n) == now - cache[n].at <= IF cache[n].ok THEN OkTTL ELSE ErrTTL

Fresh(n) == now - cache[n].at < IF cache[n].ok THEN OkTTL ELSE ErrTTL

Verdict(r, entry) ==
  CASE ~entry.ok -> "error"
    [] entry.ok /\ entry.owner = Author[r] -> "verified"
    [] OTHER -> "mismatch"

\* resolve: the lookup in flight is joined, or one is started.
Resolve(n) ==
  lookup' = IF lookup[n] = NoFetch THEN [lookup EXCEPT ![n] = now] ELSE lookup

\* The effect of a row that is mounted, unmounted (it claims nothing then) or
\* whose profile names another handle. What it awaited is forgotten.
Claims(r, c) ==
  LET Shows(state, awaits) ==
        rows' = [rows EXCEPT ![r] = [claim |-> c, state |-> state, awaits |-> awaits,
                                     since |-> IF c \in Names THEN now ELSE 0]]
  IN
  /\ \/ c = "none" /\ Shows("idle", "nothing") /\ UNCHANGED lookup
     \/ c = "malformed" /\ Shows("error", "nothing") /\ UNCHANGED lookup
     \/ c \in Names /\ Fresh(c) /\ Shows(Verdict(r, cache[c]), "nothing") /\ UNCHANGED lookup
     \/ c \in Names /\ ~Fresh(c) /\ Shows("verifying", "lookup") /\ Resolve(c)
  /\ UNCHANGED <<now, names, told, cache, answer, moves>>

\* What runs in microtasks is done before another fetch settles, or time passes.
Drained == \A n \in Names : answer[n] = NoEntry

\* Mutant of Settle: a fetch that fails is not caught.
SettleUncaught(n) ==
  /\ lookup[n] # NoFetch /\ Drained
  /\ \/ \E o \in Owners :
          /\ told[n][o] >= lookup[n]
          /\ answer' = [answer EXCEPT ![n] = [ok |-> TRUE, owner |-> o, at |-> now]]
     \/ UNCHANGED answer
  /\ lookup' = [lookup EXCEPT ![n] = NoFetch]
  /\ rows' = [r \in Rows |-> IF rows[r].claim = n /\ rows[r].awaits = "lookup"
                             THEN [rows[r] EXCEPT !.awaits = "answer"] ELSE rows[r]]
  /\ UNCHANGED <<now, names, told, cache, moves>>

\* The fetch returns what the domain said of the name while it was in flight, or
\* fails, or times out; it is no longer in flight, and not in the cache yet.
Settle(n) ==
  /\ lookup[n] # NoFetch /\ Drained
  /\ \/ \E o \in Owners :
          /\ told[n][o] >= lookup[n]
          /\ answer' = [answer EXCEPT ![n] = [ok |-> TRUE, owner |-> o, at |-> now]]
     \/ answer' = [answer EXCEPT ![n] = [ok |-> FALSE, owner |-> Nobody, at |-> now]]
  /\ lookup' = [lookup EXCEPT ![n] = NoFetch]
  /\ rows' = [r \in Rows |-> IF rows[r].claim = n /\ rows[r].awaits = "lookup"
                             THEN [rows[r] EXCEPT !.awaits = "answer"] ELSE rows[r]]
  /\ UNCHANGED <<now, names, told, cache, moves>>

\* The effects that awaited it: each stores it, the active ones show it.
Then(n) ==
  /\ answer[n] # NoEntry
  /\ cache' = [cache EXCEPT ![n] = answer[n]]
  /\ rows' = [r \in Rows |-> IF rows[r].claim = n /\ rows[r].awaits = "answer"
                             THEN [rows[r] EXCEPT !.state = Verdict(r, answer[n]), !.awaits = "nothing"]
                             ELSE rows[r]]
  /\ answer' = [answer EXCEPT ![n] = NoEntry]
  /\ UNCHANGED <<now, names, told, lookup, moves>>

-----------------------------------------------------------------------------
(* The environment.                                                        *)

Reassign(n, o) ==
  /\ moves > 0 /\ o # names[n]
  /\ moves' = moves - 1
  /\ names' = [names EXCEPT ![n] = o]
  /\ told'  = [told EXCEPT ![n][o] = now]
  /\ UNCHANGED <<now, cache, lookup, answer, rows>>

Tick ==
  /\ now < MaxTime /\ Drained
  /\ \A n \in Names : lookup[n] # NoFetch => now - lookup[n] < Timeout
  /\ now'  = now + 1
  /\ told' = [n \in Names |-> [told[n] EXCEPT ![names[n]] = now + 1]]
  /\ UNCHANGED <<names, cache, lookup, answer, rows, moves>>

-----------------------------------------------------------------------------
Init ==
  /\ now    = 0
  /\ names  \in [Names -> Owners]
  /\ told   = [n \in Names |-> [o \in Owners |-> IF o = names[n] THEN 0 ELSE Never]]
  /\ cache  = [n \in Names |-> NoEntry]
  /\ lookup = [n \in Names |-> NoFetch]
  /\ answer = [n \in Names |-> NoEntry]
  /\ rows   = [r \in Rows |-> Unused]
  /\ moves  = MaxMoves

Next ==
  \/ \E r \in Rows : \E c \in Profiles[r] : Claims(r, c)
  \/ \E n \in Names : Settle(n) \/ Then(n)
  \/ \E n \in Names, o \in Owners : Reassign(n, o)
  \/ Tick

\* A fetch settles, by its timeout at the latest, and what awaits it runs. No
\* domain has to answer, and time need not pass.
Fairness == \A n \in Names : WF_vars(Settle(n)) /\ WF_vars(Then(n))

Spec == Init /\ [][Next]_vars /\ Fairness

-----------------------------------------------------------------------------
(* Properties.                                                             *)

\* Every variable stays in its type.
Entry == [ok : BOOLEAN, owner : Owners, at : (0 .. MaxTime) \cup {Never}]

TypeOK ==
  /\ now \in 0 .. MaxTime /\ moves \in 0 .. MaxMoves
  /\ names \in [Names -> Owners]
  /\ told \in [Names -> [Owners -> (0 .. MaxTime) \cup {Never}]]
  /\ cache \in [Names -> Entry] /\ answer \in [Names -> Entry]
  /\ lookup \in [Names -> (0 .. MaxTime) \cup {NoFetch}]
  /\ rows \in [Rows -> [claim : Names \cup {"none", "malformed"}, since : 0 .. MaxTime,
                        state : {"idle", "verifying", "verified", "mismatch", "error"},
                        awaits : {"nothing", "lookup", "answer"}]]

\* A row shows a handle as verified, or as somebody else's, only if the domain said
\* so of that very handle less than the TTL and a timeout before the row claimed it
\* ("Fails CLOSED": whoever awaits what, and however claims change meanwhile).
VerdictsWereTrue ==
  \A r \in Rows :
    LET Since(o) == rows[r].claim \in Names /\
                      told[rows[r].claim][o] > rows[r].since - (OkTTL + Timeout)
    IN  /\ rows[r].state = "verified" => Since(Author[r])
        /\ rows[r].state = "mismatch" => \E o \in Owners \ {Author[r]} : Since(o)

\* A row that waits for a verdict gets one, its lookup shared or its own, answered or
\* not, unless it goes on to another claim, and then about that.
VerdictComes ==
  \A r \in Rows, n \in Names :
    rows[r].claim = n /\ rows[r].state = "verifying" ~> rows[r].claim # n \/ rows[r].state # "verifying"
=============================================================================
