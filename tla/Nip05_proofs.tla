---------------------------- MODULE Nip05_proofs ----------------------------
(***************************************************************************)
(* Proofs about Nip05, for any rows, authors, handles and TTLs, and        *)
(* however often handles change hands.                                     *)
(*                                                                         *)
(* A verdict is as old as the entry it is read off, and that as old as the *)
(* domain's word: at most a timeout when the entry is made (EntriesSaid).  *)
(* A row gets an entry that was fresh when it claimed its handle, or one   *)
(* made since (AnswersAreLater).                                           *)
(***************************************************************************)
EXTENDS Nip05, TLAPS

Claimable == Names \cup {"none", "malformed"}

Row == [claim : Claimable, since : 0 .. MaxTime,
        state : {"idle", "verifying", "verified", "mismatch", "error"},
        awaits : {"nothing", "lookup", "answer"}]

\* An entry tells what the domain said a timeout before it was made, or later.
Said(n, entry) == entry.ok => told[n][entry.owner] >= entry.at - Timeout

EntriesSaid == \A n \in Names : Said(n, cache[n]) /\ Said(n, answer[n])

InTime ==
  /\ \A n \in Names, o \in Owners : told[n][o] <= now
  /\ \A n \in Names : lookup[n] # NoFetch => now <= lookup[n] + Timeout
  /\ \A r \in Rows : rows[r].since <= now

\* The answer a row awaits comes after its claim; until then it shows no verdict.
AnswersAreLater ==
  \A r \in Rows :
    /\ rows[r].awaits # "nothing" => rows[r].state = "verifying" /\ rows[r].claim \in Names
    /\ rows[r].awaits = "answer" => rows[r].since <= answer[rows[r].claim].at

IInv == TypeOK /\ EntriesSaid /\ InTime /\ AnswersAreLater /\ VerdictsWereTrue

-----------------------------------------------------------------------------
\* What the constants are.
LEMMA Numbers ==
  /\ OkTTL \in Nat \ {0} /\ ErrTTL \in Nat \ {0} /\ Timeout \in Nat /\ MaxTime \in Nat
  /\ Never \in Int /\ Never < 0 /\ NoFetch = Never
BY Nip05Assumption DEF Never, NoFetch

\* A verdict is read off an entry, and so is as good as it.
LEMMA VerdictOf ==
  ASSUME NEW r \in Rows, NEW entry \in Entry
  PROVE  /\ Verdict(r, entry) \in {"verified", "mismatch", "error"}
         /\ Verdict(r, entry) = "verified" => entry.ok /\ entry.owner = Author[r]
         /\ Verdict(r, entry) = "mismatch" => entry.ok /\ entry.owner \in Owners \ {Author[r]}
BY DEF Verdict, Entry

\* What row r shows is true of its claim.
TrueOf(r) ==
  LET Since(o) == rows[r].claim \in Names /\
                    told[rows[r].claim][o] > rows[r].since - (OkTTL + Timeout)
  IN  /\ rows[r].state = "verified" => Since(Author[r])
      /\ rows[r].state = "mismatch" => \E o \in Owners \ {Author[r]} : Since(o)

\* A row that is shown the verdict of an entry made less than the TTL before its
\* claim, or since, shows what is true.
LEMMA ShownIsTrue ==
  ASSUME IInv, NEW r \in Rows, NEW n \in Names, NEW entry \in Entry, Said(n, entry),
         told' = told, rows'[r].claim = n, rows'[r].state = Verdict(r, entry),
         rows'[r].since \in Nat, entry.ok => rows'[r].since - OkTTL < entry.at
  PROVE  TrueOf(r)'
<1>1. ASSUME entry.ok
      PROVE  told[n][entry.owner] > rows'[r].since - (OkTTL + Timeout)
  <2>1. entry.owner \in Owners /\ entry.at \in Int /\ told[n][entry.owner] \in Int
    BY Numbers DEF IInv, TypeOK, Entry
  <2> QED BY <1>1, <2>1, Numbers DEF Said
<1> QED BY <1>1, VerdictOf DEF TrueOf

LEMMA InitInv == Init => IInv
<1> SUFFICES ASSUME Init PROVE IInv
  OBVIOUS
<1>1. TypeOK
  <2>1. NoEntry \in Entry /\ Unused \in Row
    BY Numbers DEF NoEntry, Entry, Owners, Unused, Row, Claimable
  <2>2. now \in 0 .. MaxTime /\ moves \in 0 .. MaxMoves
    BY Nip05Assumption DEF Init
  <2>3. told \in [Names -> [Owners -> (0 .. MaxTime) \cup {Never}]]
    BY Numbers DEF Init
  <2> QED BY <2>1, <2>2, <2>3 DEF Init, TypeOK, Row, Claimable
<1>2. EntriesSaid /\ InTime
  BY Numbers DEF Init, EntriesSaid, Said, InTime, NoEntry, Unused
<1>3. AnswersAreLater /\ VerdictsWereTrue
  BY DEF Init, AnswersAreLater, VerdictsWereTrue, Unused
<1> QED BY <1>1, <1>2, <1>3 DEF IInv

LEMMA ClaimsInv ==
  ASSUME IInv, NEW r \in Rows, NEW c \in Profiles[r], Claims(r, c)
  PROVE  IInv'
<1>0. UNCHANGED <<now, names, told, cache, answer, moves>> /\ now \in 0 .. MaxTime /\ c \in Claimable
  BY Nip05Assumption DEF Claims, IInv, TypeOK, Claimable
<1>1. PICK row \in [claim : {c}, since : {IF c \in Names THEN now ELSE 0},
                    state : {"idle", "verifying", "verified", "mismatch", "error"},
                    awaits : {"nothing", "lookup"}] :
        /\ rows' = [rows EXCEPT ![r] = row]
        /\ row.awaits = "lookup" => row.state = "verifying" /\ c \in Names
        /\ \/ row.state \in {"idle", "error", "verifying"}
           \/ c \in Names /\ Fresh(c) /\ row.state = Verdict(r, cache[c])
  <2>1. c \in Names => Verdict(r, cache[c]) \in {"verified", "mismatch", "error"}
    BY VerdictOf DEF IInv, TypeOK
  <2> DEFINE row(state, awaits) == [claim |-> c, state |-> state, awaits |-> awaits,
                                    since |-> IF c \in Names THEN now ELSE 0]
  <2>2. \/ rows' = [rows EXCEPT ![r] = row("idle", "nothing")]
        \/ rows' = [rows EXCEPT ![r] = row("error", "nothing")]
        \/ c \in Names /\ Fresh(c) /\ rows' = [rows EXCEPT ![r] = row(Verdict(r, cache[c]), "nothing")]
        \/ c \in Names /\ rows' = [rows EXCEPT ![r] = row("verifying", "lookup")]
    BY DEF Claims
  <2>3. \A state \in {"idle", "verifying", "verified", "mismatch", "error"}, awaits \in {"nothing", "lookup"} :
          /\ row(state, awaits).state = state /\ row(state, awaits).awaits = awaits
          /\ row(state, awaits) \in [claim : {c}, since : {IF c \in Names THEN now ELSE 0},
                                     state : {"idle", "verifying", "verified", "mismatch", "error"},
                                     awaits : {"nothing", "lookup"}]
    OBVIOUS
  <2> HIDE DEF row
  <2> QED BY <2>1, <2>2, <2>3
<1>2. lookup' = lookup \/ \E n \in Names : lookup' = [lookup EXCEPT ![n] = now] /\ lookup[n] = NoFetch
  BY DEF Claims, Resolve
<1>3. rows'[r] = row /\ \A q \in Rows : q # r => rows'[q] = rows[q]
  BY <1>1 DEF IInv, TypeOK
<1>4. TypeOK'
  <2>1. row \in Row
    BY <1>0, Numbers DEF Row
  <2>2. lookup' \in [Names -> (0 .. MaxTime) \cup {NoFetch}]
    BY <1>0, <1>2 DEF IInv, TypeOK
  <2> QED BY <1>0, <1>1, <2>1, <2>2 DEF IInv, TypeOK, Row, Claimable
<1>5. EntriesSaid'
  BY <1>0 DEF IInv, EntriesSaid, Said
<1>6. InTime'
  <2>1. \A n \in Names : lookup'[n] # NoFetch => now <= lookup'[n] + Timeout
    BY <1>0, <1>2, Numbers DEF IInv, InTime, TypeOK
  <2>2. \A q \in Rows : rows'[q].since <= now
    BY <1>0, <1>3, Numbers DEF IInv, InTime
  <2> QED BY <1>0, <2>1, <2>2 DEF IInv, InTime
<1>7. AnswersAreLater'
  BY <1>0, <1>1, <1>3 DEF IInv, AnswersAreLater
<1>8. ASSUME NEW q \in Rows PROVE TrueOf(q)'
  <2>1. CASE q # r
    BY <1>0, <1>3, <2>1 DEF IInv, VerdictsWereTrue, TrueOf
  <2>2. CASE q = r /\ row.state \in {"idle", "error", "verifying"}
    BY <1>3, <2>2 DEF TrueOf
  <2>3. CASE q = r /\ c \in Names /\ Fresh(c) /\ row.state = Verdict(r, cache[c])
    <3>1. cache[c] \in Entry /\ Said(c, cache[c])
      BY <2>3 DEF IInv, TypeOK, EntriesSaid
    <3>2. row.since = now /\ (cache[c].ok => now - OkTTL < cache[c].at)
      BY <1>0, <2>3, <3>1, Numbers DEF Fresh, Entry
    <3> QED BY <1>0, <1>3, <2>3, <3>1, <3>2, ShownIsTrue
  <2> QED BY <1>1, <2>1, <2>2, <2>3
<1>9. VerdictsWereTrue'
  BY <1>8 DEF TrueOf, VerdictsWereTrue
<1> QED BY <1>4, <1>5, <1>6, <1>7, <1>9 DEF IInv

LEMMA SettleInv ==
  ASSUME IInv, NEW n \in Names, Settle(n)
  PROVE  IInv'
<1>0. UNCHANGED <<now, names, told, cache, moves>> /\ now \in 0 .. MaxTime /\ lookup[n] # NoFetch
  BY DEF Settle, IInv, TypeOK
<1>1. PICK entry \in Entry : answer' = [answer EXCEPT ![n] = entry] /\ entry.at = now /\ Said(n, entry)
  <2>1. CASE answer' = [answer EXCEPT ![n] = [ok |-> FALSE, owner |-> Nobody, at |-> now]]
    <3> DEFINE entry == [ok |-> FALSE, owner |-> Nobody, at |-> now]
    <3>1. entry \in Entry /\ ~entry.ok
      BY <1>0 DEF Entry, Owners
    <3> QED BY <2>1, <3>1 DEF Said
  <2>2. ASSUME NEW o \in Owners, told[n][o] >= lookup[n],
               answer' = [answer EXCEPT ![n] = [ok |-> TRUE, owner |-> o, at |-> now]]
        PROVE  \E entry \in Entry :
                 answer' = [answer EXCEPT ![n] = entry] /\ entry.at = now /\ Said(n, entry)
    <3> DEFINE entry == [ok |-> TRUE, owner |-> o, at |-> now]
    <3>1. entry \in Entry
      BY <1>0 DEF Entry
    <3>2. told[n][o] >= now - Timeout
      BY <1>0, <2>2, Numbers DEF IInv, InTime, TypeOK
    <3> QED BY <2>2, <3>1, <3>2 DEF Said
  <2> QED BY <2>1, <2>2 DEF Settle
<1>2. answer'[n] = entry /\ \A m \in Names : m # n => answer'[m] = answer[m]
  BY <1>1 DEF IInv, TypeOK
<1>3. ASSUME NEW r \in Rows
      PROVE  /\ rows'[r].claim = rows[r].claim /\ rows'[r].since = rows[r].since
             /\ rows'[r].state = rows[r].state
             /\ \/ rows'[r].awaits = rows[r].awaits
                \/ rows[r].claim = n /\ rows[r].awaits = "lookup" /\ rows'[r].awaits = "answer"
  BY DEF Settle, IInv, TypeOK
<1>4. TypeOK'
  <2>1. lookup' \in [Names -> (0 .. MaxTime) \cup {NoFetch}] /\ answer' \in [Names -> Entry]
    BY <1>1 DEF Settle, IInv, TypeOK
  <2>2. rows' \in [Rows -> Row]
    <3>1. rows \in [Rows -> Row]
      BY DEF IInv, TypeOK, Row, Claimable
    <3>2. \A r \in Rows : [rows[r] EXCEPT !.awaits = "answer"] \in Row
      BY <3>1 DEF Row
    <3> QED BY <3>1, <3>2 DEF Settle
  <2> QED BY <1>0, <2>1, <2>2 DEF IInv, TypeOK, Row, Claimable
<1>5. EntriesSaid'
  BY <1>0, <1>1, <1>2 DEF IInv, EntriesSaid, Said
<1>6. InTime'
  <2>1. \A m \in Names : lookup'[m] # NoFetch => now <= lookup'[m] + Timeout
    BY <1>0 DEF Settle, IInv, InTime, TypeOK
  <2> QED BY <1>0, <1>3, <2>1 DEF IInv, InTime
<1>7. AnswersAreLater'
  <2> SUFFICES ASSUME NEW r \in Rows
               PROVE  /\ rows'[r].awaits # "nothing" =>
                           rows'[r].state = "verifying" /\ rows'[r].claim \in Names
                      /\ rows'[r].awaits = "answer" => rows'[r].since <= answer'[rows'[r].claim].at
    BY DEF AnswersAreLater
  <2>1. rows[r].since <= now
    BY DEF IInv, InTime
  <2> QED BY <1>1, <1>2, <1>3, <2>1 DEF IInv, AnswersAreLater
<1>8. VerdictsWereTrue'
  BY <1>0, <1>3 DEF IInv, VerdictsWereTrue
<1> QED BY <1>4, <1>5, <1>6, <1>7, <1>8 DEF IInv

LEMMA ThenInv ==
  ASSUME IInv, NEW n \in Names, Then(n)
  PROVE  IInv'
<1>0. UNCHANGED <<now, names, told, lookup, moves>> /\ answer[n] \in Entry /\ Said(n, answer[n])
  BY DEF Then, IInv, TypeOK, EntriesSaid
<1>1. /\ cache' = [cache EXCEPT ![n] = answer[n]] /\ answer' = [answer EXCEPT ![n] = NoEntry]
      /\ NoEntry \in Entry
  BY DEF Then, NoEntry, Entry, Owners
<1>2. ASSUME NEW r \in Rows
      PROVE  /\ rows'[r].claim = rows[r].claim /\ rows'[r].since = rows[r].since
             /\ \/ /\ rows[r].claim = n /\ rows[r].awaits = "answer" /\ rows'[r].awaits = "nothing"
                   /\ rows'[r].state = Verdict(r, answer[n])
                \/ /\ rows'[r].state = rows[r].state /\ rows'[r].awaits = rows[r].awaits
                   /\ ~(rows[r].claim = n /\ rows[r].awaits = "answer")
  BY DEF Then, IInv, TypeOK
<1>3. TypeOK'
  <2>1. rows' \in [Rows -> Row]
    <3>1. rows \in [Rows -> Row]
      BY DEF IInv, TypeOK, Row, Claimable
    <3>2. \A r \in Rows : [rows[r] EXCEPT !.state = Verdict(r, answer[n]), !.awaits = "nothing"] \in Row
      <4>1. \A r \in Rows : Verdict(r, answer[n]) \in {"verified", "mismatch", "error"}
        BY <1>0, VerdictOf
      <4> QED BY <3>1, <4>1 DEF Row
    <3> QED BY <3>1, <3>2 DEF Then
  <2>2. cache' \in [Names -> Entry] /\ answer' \in [Names -> Entry]
    BY <1>0, <1>1 DEF IInv, TypeOK
  <2> QED BY <1>0, <2>1, <2>2 DEF IInv, TypeOK, Row, Claimable
<1>4. EntriesSaid'
  <2>1. ~NoEntry.ok
    BY DEF NoEntry
  <2> QED BY <1>0, <1>1, <2>1 DEF IInv, TypeOK, EntriesSaid, Said
<1>5. InTime'
  BY <1>0, <1>2 DEF IInv, InTime
<1>6. AnswersAreLater'
  <2>1. \A m \in Names : m # n => answer'[m] = answer[m]
    BY <1>1 DEF IInv, TypeOK
  <2> QED BY <1>2, <2>1 DEF IInv, AnswersAreLater
<1>7. ASSUME NEW r \in Rows PROVE TrueOf(r)'
  <2>1. CASE rows[r].claim = n /\ rows[r].awaits = "answer" /\ rows'[r].state = Verdict(r, answer[n])
    <3>1. rows[r].since \in Nat /\ rows[r].since <= answer[n].at
      BY <2>1, Numbers DEF IInv, TypeOK, AnswersAreLater
    <3>2. rows'[r].since - OkTTL < answer[n].at /\ answer[n].at \in Int
      BY <1>0, <1>2, <3>1, Numbers DEF Entry
    <3> QED BY <1>0, <1>2, <2>1, <3>1, <3>2, ShownIsTrue
  <2>2. CASE rows'[r].state = rows[r].state
    BY <1>0, <1>2, <2>2 DEF IInv, VerdictsWereTrue, TrueOf
  <2> QED BY <1>2, <2>1, <2>2
<1>8. VerdictsWereTrue'
  BY <1>7 DEF TrueOf, VerdictsWereTrue
<1> QED BY <1>3, <1>4, <1>5, <1>6, <1>8 DEF IInv

\* What was told stays told, at that time or later.
LEMMA ToldLaterInv ==
  ASSUME IInv, UNCHANGED <<cache, answer, rows>>, now' \in Int, now <= now',
         \A n \in Names, o \in Owners : told'[n][o] \in Int /\ told[n][o] <= told'[n][o] /\ told'[n][o] <= now'
  PROVE  EntriesSaid' /\ AnswersAreLater' /\ VerdictsWereTrue'
<1>0. /\ \A n \in Names, o \in Owners : told[n][o] \in Int
      /\ Author \in [Rows -> Owners] /\ \A r \in Rows : rows[r].since \in Int
  BY Numbers, Nip05Assumption DEF IInv, TypeOK, Owners
<1>1. ASSUME NEW n \in Names, NEW entry \in Entry, Said(n, entry) PROVE Said(n, entry)'
  <2>1. entry.owner \in Owners /\ entry.at \in Int
    BY Numbers DEF Entry
  <2>2. entry.ok => told[n][entry.owner] >= entry.at - Timeout
    BY <1>1 DEF Said
  <2> QED BY <1>0, <2>1, <2>2, Numbers DEF Said
<1>2. EntriesSaid'
  BY <1>1 DEF IInv, TypeOK, EntriesSaid, Said
<1>3. AnswersAreLater'
  BY DEF IInv, AnswersAreLater
<1>4. ASSUME NEW r \in Rows PROVE TrueOf(r)'
  <2>1. TrueOf(r)
    BY DEF IInv, VerdictsWereTrue, TrueOf
  <2>2. ASSUME rows[r].claim \in Names, NEW o \in Owners,
               told[rows[r].claim][o] > rows[r].since - (OkTTL + Timeout)
        PROVE  told'[rows[r].claim][o] > rows[r].since - (OkTTL + Timeout)
    BY <1>0, <2>2, Numbers
  <2> QED BY <1>0, <2>1, <2>2 DEF TrueOf
<1>5. VerdictsWereTrue'
  BY <1>4 DEF TrueOf, VerdictsWereTrue
<1> QED BY <1>2, <1>3, <1>5

LEMMA ReassignInv ==
  ASSUME IInv, NEW n \in Names, NEW o \in Owners, Reassign(n, o)
  PROVE  IInv'
<1>0. /\ UNCHANGED <<now, cache, lookup, answer, rows>> /\ now \in 0 .. MaxTime
      /\ told' = [told EXCEPT ![n][o] = now] /\ names' = [names EXCEPT ![n] = o]
  BY DEF Reassign, IInv, TypeOK
<1>1. told' \in [Names -> [Owners -> (0 .. MaxTime) \cup {Never}]]
  BY <1>0 DEF IInv, TypeOK
<1>2. \A m \in Names, p \in Owners : told'[m][p] = IF m = n /\ p = o THEN now ELSE told[m][p]
  BY <1>0 DEF IInv, TypeOK
<1>3. /\ now' \in Int /\ now <= now'
      /\ \A m \in Names, p \in Owners :
           told'[m][p] \in Int /\ told[m][p] <= told'[m][p] /\ told'[m][p] <= now'
  BY <1>0, <1>1, <1>2, Numbers DEF IInv, InTime
<1>4. TypeOK'
  <2>1. moves' \in 0 .. MaxMoves
    BY Nip05Assumption DEF Reassign, IInv, TypeOK
  <2>2. names' \in [Names -> Owners]
    BY <1>0 DEF IInv, TypeOK
  <2> QED BY <1>0, <1>1, <2>1, <2>2 DEF IInv, TypeOK
<1>5. InTime'
  BY <1>0, <1>3 DEF IInv, InTime
<1> QED BY <1>0, <1>3, <1>4, <1>5, ToldLaterInv DEF IInv

LEMMA TickInv ==
  ASSUME IInv, Tick
  PROVE  IInv'
<1>0. /\ UNCHANGED <<names, cache, lookup, answer, rows, moves>>
      /\ now \in 0 .. MaxTime /\ now < MaxTime /\ now' = now + 1
      /\ told' = [n \in Names |-> [told[n] EXCEPT ![names[n]] = now + 1]]
  BY DEF Tick, IInv, TypeOK
<1>1. told' \in [Names -> [Owners -> (0 .. MaxTime) \cup {Never}]]
  BY <1>0, Numbers DEF IInv, TypeOK
<1>2. \A m \in Names, p \in Owners : told'[m][p] = IF p = names[m] THEN now + 1 ELSE told[m][p]
  BY <1>0 DEF IInv, TypeOK
<1>3. /\ now' \in Int /\ now <= now'
      /\ \A m \in Names, p \in Owners :
           told'[m][p] \in Int /\ told[m][p] <= told'[m][p] /\ told'[m][p] <= now'
  <2>1. \A m \in Names, p \in Owners : told[m][p] \in Int /\ told[m][p] <= now
    BY Numbers DEF IInv, InTime, TypeOK
  <2> QED BY <1>0, <1>2, <2>1
<1>4. TypeOK'
  BY <1>0, <1>1, Numbers DEF IInv, TypeOK
<1>5. InTime'
  <2>1. \A n \in Names : lookup[n] # NoFetch => now + 1 <= lookup[n] + Timeout
    BY <1>0, Numbers DEF Tick, IInv, TypeOK
  <2>2. \A r \in Rows : rows[r].since <= now + 1
    <3>1. TAKE r \in Rows
    <3>2. rows[r].since \in 0 .. MaxTime /\ now \in 0 .. MaxTime
      BY <1>0 DEF IInv, TypeOK
    <3>3. rows[r].since <= now
      BY <1>0 DEF IInv, InTime
    <3> QED BY <3>2, <3>3
  <2> QED BY <1>0, <1>3, <2>1, <2>2 DEF InTime
<1> QED BY <1>0, <1>3, <1>4, <1>5, ToldLaterInv DEF IInv

LEMMA NextInv ==
  ASSUME IInv, [Next]_vars
  PROVE  IInv'
<1>1. CASE UNCHANGED vars
  BY <1>1
  DEF vars, IInv, TypeOK, EntriesSaid, Said, InTime, AnswersAreLater, VerdictsWereTrue
<1> QED BY <1>1, ClaimsInv, SettleInv, ThenInv, ReassignInv, TickInv DEF Next

-----------------------------------------------------------------------------
(* The theorems. *)

\* Every claim, lookup, answer and change of hands keeps the invariant.
THEOREM Invariant == Spec => []IInv
<1>1. Init => IInv
  BY InitInv
<1>2. IInv /\ [Next]_vars => IInv'
  BY NextInv
<1> QED BY <1>1, <1>2, PTL DEF Spec

\* The cache, the lookups and the rows keep their types.
THEOREM TypeCorrect == Spec => []TypeOK
<1>1. IInv => TypeOK
  BY DEF IInv
<1> QED BY <1>1, Invariant, PTL

\* However rows share lookups and change claims, a handle is shown as verified only
\* if its domain said so less than the TTL and a timeout before (useNip05Verify).
THEOREM BadgesWereTrue == Spec => []VerdictsWereTrue
<1>1. IInv => VerdictsWereTrue
  BY DEF IInv
<1> QED BY <1>1, Invariant, PTL
=============================================================================
