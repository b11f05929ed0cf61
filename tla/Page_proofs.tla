--------------------------- MODULE Page_proofs ---------------------------
(* What TLAPS proves of what a page shows. The board (BoardView): for every     *)
(* universe of events, every snapshot and every MAX_THREAD_DEPTH, the type       *)
(* invariant and all properties that the run checks; everything a reader shows   *)
(* is a function of the log, so each property follows from the invariant by      *)
(* lemmas on those functions: what a newest-wins loop keeps, what is live, and   *)
(* which replies a root reaches. The zap totals (Zaps): for every number of      *)
(* zaps, receipts, retries and faults, the type invariant, what a total is, and  *)
(* what may move it. Both loops keep one event of a key; the lemmas on recursion *)
(* over a list serve both.                                                       *)
EXTENDS BoardView, Zaps, TLAPS, WellFoundedInduction, FiniteSetTheorems

-----------------------------------------------------------------------------
(* Induction and recursion over the naturals, with sets in the place of        *)
(* predicates.                                                                 *)

\* Least-counterexample induction.
LEMMA Induction ==
  ASSUME NEW T, 0 \in T, \A n \in Nat : n \in T => n + 1 \in T
  PROVE  \A n \in Nat : n \in T
<1> DEFINE Out == {n \in Nat : n \notin T}
           R   == OpToRel(<, Nat)
<1> SUFFICES ASSUME Out # {} PROVE FALSE
  OBVIOUS
<1>1. PICK n \in Out : \A m \in Out : <<m, n>> \notin R
  <2> HIDE DEF Out
  <2>1. Out \subseteq Nat
    BY DEF Out
  <2> QED
    BY <2>1, NatLessThanWellFounded, WFMin DEF R
<1>2. n # 0 /\ n - 1 \in Nat /\ n - 1 < n
  OBVIOUS
<1>3. n - 1 \notin Out
  BY <1>1, <1>2 DEF OpToRel
<1> QED
  BY <1>2, <1>3

\* The first values, up to the n-th, of the sequence that starts with s and goes
\* on by the steps.
FirstValues(S, s, step, n) ==
  {g \in [0 .. n -> S] : g[0] = s /\ \A k \in 1 .. n : g[k] = step[k][g[k - 1]]}

\* A step for every number.
Steps(S) == [Nat -> [S -> S]]

\* f is the sequence that starts with s and goes on by the steps.
Iterates(f, S, s, step) ==
  f \in [Nat -> S] /\ f[0] = s /\ \A n \in Nat \ {0} : f[n] = step[n][f[n - 1]]

\* Any start and steps define a sequence.
LEMMA Recursion ==
  ASSUME NEW S, NEW s \in S, NEW step \in Steps(S)
  PROVE  \E f : Iterates(f, S, s, step)
<1> USE DEF Steps
<1> DEFINE Upto(n) == FirstValues(S, s, step, n)
           f == [n \in Nat |-> (CHOOSE g \in Upto(n) : TRUE)[n]]
<1>1. \A n \in Nat : Upto(n) # {}
  <2> DEFINE T == {n \in Nat : Upto(n) # {}}
  <2>1. 0 \in T
    <3>1. [k \in 0 .. 0 |-> s] \in Upto(0)
      BY DEF FirstValues
    <3> QED
      BY <3>1
  <2>2. ASSUME NEW n \in Nat, n \in T
        PROVE  n + 1 \in T
    <3>1. PICK g \in [0 .. n -> S] : g[0] = s /\ \A k \in 1 .. n : g[k] = step[k][g[k - 1]]
      BY <2>2 DEF FirstValues
    <3> DEFINE h == [k \in 0 .. (n + 1) |-> IF k = n + 1 THEN step[n + 1][g[n]] ELSE g[k]]
    <3>2. step[n + 1][g[n]] \in S
      BY <3>1
    <3>3. h \in [0 .. (n + 1) -> S]
      BY <3>1, <3>2
    <3>4. h[0] = s
      BY <3>1
    <3>5. ASSUME NEW k \in 1 .. (n + 1) PROVE h[k] = step[k][h[k - 1]]
      BY <3>1
    <3> HIDE DEF h
    <3>6. h \in Upto(n + 1)
      BY <3>3, <3>4, <3>5 DEF FirstValues
    <3> QED
      BY <3>6
  <2> QED
    <3> HIDE DEF T
    <3>1. \A n \in Nat : n \in T
      BY <2>1, <2>2, Induction
    <3> QED
      BY <3>1 DEF T
<1>2. \A n \in Nat : (CHOOSE g \in Upto(n) : TRUE) \in Upto(n)
  BY <1>1
<1>3. ASSUME NEW n \in Nat, NEW g \in Upto(n), NEW h \in Upto(n + 1)
      PROVE  g[n] = h[n]
  <2> DEFINE T == {k \in Nat : k <= n => g[k] = h[k]}
  <2>1. 0 \in T
    BY DEF FirstValues
  <2>2. ASSUME NEW k \in Nat, k \in T PROVE k + 1 \in T
    <3> SUFFICES ASSUME k + 1 <= n PROVE g[k + 1] = h[k + 1]
      OBVIOUS
    <3>1. g[k + 1] = step[k + 1][g[k]] /\ h[k + 1] = step[k + 1][h[k]]
      <4>1. k + 1 \in 1 .. n /\ k + 1 \in 1 .. (n + 1) /\ (k + 1) - 1 = k
        OBVIOUS
      <4> QED
        BY <4>1 DEF FirstValues
    <3> QED
      BY <3>1, <2>2
  <2> HIDE DEF T
  <2>3. n \in T
    BY <2>1, <2>2, Induction
  <2> QED
    BY <2>3 DEF T
<1>4. f \in [Nat -> S]
  <2>1. ASSUME NEW n \in Nat PROVE (CHOOSE g \in Upto(n) : TRUE)[n] \in S
    <3>1. (CHOOSE g \in Upto(n) : TRUE) \in [0 .. n -> S]
      BY <1>2 DEF FirstValues
    <3> QED
      BY <3>1
  <2> QED
    BY <2>1
<1>5. f[0] = s
  BY <1>2 DEF FirstValues
<1>6. ASSUME NEW n \in Nat \ {0} PROVE f[n] = step[n][f[n - 1]]
  <2> DEFINE h == CHOOSE g \in Upto(n) : TRUE
             g == CHOOSE g \in Upto(n - 1) : TRUE
  <2>1. h \in Upto(n) /\ g \in Upto(n - 1) /\ n - 1 \in Nat /\ (n - 1) + 1 = n
    BY <1>2
  <2>2. f[n] = h[n] /\ f[n - 1] = g[n - 1]
    BY <2>1
  <2> HIDE DEF h, g, f
  <2>3. g[n - 1] = h[n - 1]
    <3> HIDE DEF Upto
    <3> QED
      BY <2>1, <1>3
  <2>4. h[n] = step[n][h[n - 1]]
    BY <2>1 DEF FirstValues
  <2> QED
    BY <2>2, <2>3, <2>4
<1> HIDE DEF f
<1>7. Iterates(f, S, s, step)
  BY <1>4, <1>5, <1>6 DEF Iterates
<1> QED
  BY <1>7

-----------------------------------------------------------------------------
(* Lists and logs.                                                             *)

\* No event twice.
Distinct(es) == \A m, n \in DOMAIN es : es[m] = es[n] => m = n

\* What a list is as a function.
LEMMA Lists ==
  ASSUME NEW R, NEW es \in Seq(R)
  PROVE  /\ Len(es) \in Nat /\ DOMAIN es = 1 .. Len(es)
         /\ \A n \in 1 .. Len(es) : es[n] \in R
         /\ ToSet(es) = {es[n] : n \in 1 .. Len(es)}
         /\ ToSet(es) \subseteq R
  BY DEF ToSet

\* What a log is as a function.
LEMMA Logs ==
  ASSUME NEW es \in Seq(Universe)
  PROVE  /\ Len(es) \in Nat /\ DOMAIN es = 1 .. Len(es)
         /\ \A n \in 1 .. Len(es) : es[n] \in Universe
         /\ ToSet(es) = {es[n] : n \in 1 .. Len(es)}
         /\ ToSet(es) \subseteq Universe
  BY Lists

\* The last place is apart.
LEMMA OneMore == \A n \in Nat : 1 .. (n + 1) = 1 .. n \cup {n + 1}
  OBVIOUS

\* The last of a list is one of it.
LEMMA SetsOfAppended ==
  ASSUME NEW R, NEW es \in Seq(R), NEW e \in R
  PROVE  ToSet(Append(es, e)) = ToSet(es) \cup {e}
<1>1. Append(es, e) \in Seq(R) /\ Len(Append(es, e)) = Len(es) + 1
  OBVIOUS
<1>2. /\ ToSet(es) = {es[n] : n \in 1 .. Len(es)} /\ Len(es) \in Nat
      /\ ToSet(Append(es, e)) = {Append(es, e)[n] : n \in 1 .. Len(es) + 1}
  BY <1>1, Lists
<1>3. /\ \A n \in 1 .. Len(es) : Append(es, e)[n] = es[n]
      /\ Append(es, e)[Len(es) + 1] = e
  OBVIOUS
<1> QED
  BY <1>2, <1>3, OneMore

\* An event that is new leaves each event once.
LEMMA AppendingTheNew ==
  ASSUME NEW r \in Seq(Universe), Distinct(r), NEW e \in Universe, e \notin ToSet(r)
  PROVE  /\ Append(r, e) \in Seq(Universe)
         /\ ToSet(Append(r, e)) = ToSet(r) \cup {e}
         /\ Distinct(Append(r, e))
<1> DEFINE a == Append(r, e)
           N == Len(r)
<1>1. /\ a \in Seq(Universe) /\ N \in Nat /\ DOMAIN r = 1 .. N /\ DOMAIN a = 1 .. (N + 1)
      /\ a[N + 1] = e /\ \A m \in 1 .. N : a[m] = r[m]
  OBVIOUS
<1>2. ToSet(r) = {r[m] : m \in 1 .. N} /\ ToSet(a) = {a[m] : m \in 1 .. (N + 1)}
  BY <1>1 DEF ToSet
<1>3. \A m \in 1 .. N : r[m] # e
  BY <1>2
<1> HIDE DEF a, N
<1>4. 1 .. (N + 1) = 1 .. N \cup {N + 1}
  BY <1>1
<1>5. ToSet(a) = ToSet(r) \cup {e}
  BY <1>1, <1>2, <1>4
<1>6. \A m, n \in 1 .. N : r[m] = r[n] => m = n
  BY <1>1 DEF Distinct
<1>7. \A m, n \in 1 .. (N + 1) : a[m] = a[n] => m = n
  BY <1>1, <1>3, <1>4, <1>6
<1>8. Distinct(a)
  BY <1>1, <1>7 DEF Distinct
<1> QED
  BY <1>1, <1>5, <1>8 DEF a

\* A log is a sequence of events, and has each once.
IInv == log \in Seq(Universe) /\ TypeOK

\* The inductive invariant.
LEMMA Invariant == Spec => []IInv
<1>1. Init => IInv
  BY SeedsAssumption DEF Init, IInv, TypeOK
<1>2. IInv /\ [Next]_log => IInv'
  <2>1. ASSUME IInv, NEW e \in Universe, Arrive(e)
        PROVE  IInv'
    <3>1. log \in Seq(Universe) /\ Distinct(log) /\ e \notin ToSet(log) /\ log' = Append(log, e)
      BY <2>1 DEF IInv, TypeOK, Distinct, Arrive
    <3>2. log' \in Seq(Universe) /\ Distinct(log')
      BY <3>1, AppendingTheNew
    <3>3. \A n \in DOMAIN log' : log'[n] \in Universe
      BY <3>2, Logs
    <3> QED
      BY <3>2, <3>3 DEF IInv, TypeOK, Distinct
  <2>2. ASSUME IInv, UNCHANGED log
        PROVE  IInv'
    BY <2>2 DEF IInv, TypeOK
  <2> QED
    BY <2>1, <2>2 DEF Next
<1> QED
  BY <1>1, <1>2, PTL DEF Spec

\* A reader's log holds events of the universe, and each of them once: what
\* dedupeById promises of the union of a snapshot and a live subscription.
THEOREM TypeCorrect == Spec => []TypeOK
<1>1. IInv => TypeOK
  BY DEF IInv
<1> QED
  BY <1>1, Invariant, PTL

-----------------------------------------------------------------------------
(* What the newest-wins loops keep.                                            *)

LEMMA EventsAreDated == \A e \in Universe : e.id \in Int /\ e.at \in Int
  BY UniverseAssumption
     DEF BoardEvents, IdeaEvents, ReplyEvents, VoteEvents, LabelEvents, ApprovalEvents, DeletionEvents

LEMMA IdsAreUnique == \A e, f \in Universe : e.id = f.id => e = f
  BY UniverseAssumption

\* Of two events exactly one is newer, and newer than newer is newer.
LEMMA NewerIsATotalOrder ==
  /\ \A e, f \in Universe : e # f => (Newer(e, f) <=> ~Newer(f, e))
  /\ \A e \in Universe : ~Newer(e, e)
  /\ \A e, f, g \in Universe : Newer(e, f) /\ Newer(f, g) => Newer(e, g)
  BY EventsAreDated, IdsAreUnique DEF Newer

\* The newer of two events.
Newest(e, f) == IF Newer(e, f) THEN e ELSE f

\* A map from the keys D to the events that are kept for them.
Keeps(latest, D) == latest \in [D -> Universe]

\* What a turn of the loop leaves: the newer of what was there for the key and e.
LEMMA KeepNewestKeeps ==
  ASSUME NEW D, NEW latest, NEW key, NEW e \in Universe, Keeps(latest, D)
  PROVE  /\ Keeps(KeepNewest(latest, key, e), D \cup {key})
         /\ \A k \in D : k # key => KeepNewest(latest, key, e)[k] = latest[k]
         /\ key \in D => KeepNewest(latest, key, e)[key] = Newest(e, latest[key])
         /\ key \notin D => KeepNewest(latest, key, e)[key] = e
<1>1. CASE key \in D /\ ~Newer(e, latest[key])
  <2>1. KeepNewest(latest, key, e) = latest /\ D \cup {key} = D
    BY <1>1 DEF KeepNewest, Keeps
  <2> QED
    BY <1>1, <2>1 DEF Newest, Keeps
<1>2. CASE ~(key \in D /\ ~Newer(e, latest[key]))
  <2>1. KeepNewest(latest, key, e) = [k \in D \cup {key} |-> IF k = key THEN e ELSE latest[k]]
    BY <1>2 DEF KeepNewest, Keeps
  <2> QED
    BY <1>2, <2>1 DEF Newest, Keeps
<1> QED
  BY <1>1, <1>2


\* c holds the newest event of every key of S.
NewestPerKey(c, S) ==
  /\ c \in [{Key(e) : e \in S} -> S]
  /\ \A k \in DOMAIN c : Key(c[k]) = k
  /\ \A e \in S : e = c[Key(e)] \/ Newer(c[Key(e)], e)

\* There is one such map.
LEMMA NewestPerKeyIsUnique ==
  ASSUME NEW S, S \subseteq Universe, NEW c, NewestPerKey(c, S), NEW d, NewestPerKey(d, S)
  PROVE  c = d
<1>1. ASSUME NEW k \in {Key(e) : e \in S} PROVE c[k] = d[k]
  <2>1. c[k] \in S /\ d[k] \in S /\ Key(c[k]) = k /\ Key(d[k]) = k
    BY DEF NewestPerKey
  <2>2. d[k] = c[k] \/ Newer(c[k], d[k])
    BY <2>1 DEF NewestPerKey
  <2>3. c[k] = d[k] \/ Newer(d[k], c[k])
    BY <2>1 DEF NewestPerKey
  <2> QED
    BY <2>1, <2>2, <2>3, NewerIsATotalOrder
<1> QED
  BY <1>1 DEF NewestPerKey

\* A turn of the loop goes from the map of some events to that of one more.
LEMMA KeepNewestExtends ==
  ASSUME NEW S, S \subseteq Universe, NEW c, NewestPerKey(c, S), NEW e \in Universe
  PROVE  NewestPerKey(KeepNewest(c, Key(e), e), S \cup {e})
<1> DEFINE D == {Key(x) : x \in S}
           T == S \cup {e}
           d == KeepNewest(c, Key(e), e)
<1>1. c \in [D -> S] /\ (\A k \in D : Key(c[k]) = k) /\ \A x \in S : x = c[Key(x)] \/ Newer(c[Key(x)], x)
  BY DEF NewestPerKey
<1>2. Keeps(c, D)
  BY <1>1 DEF Keeps
<1> HIDE DEF D
<1>3. /\ d \in [D \cup {Key(e)} -> Universe]
      /\ \A k \in D : k # Key(e) => d[k] = c[k]
      /\ Key(e) \in D => d[Key(e)] = Newest(e, c[Key(e)])
      /\ Key(e) \notin D => d[Key(e)] = e
  <2>1. /\ Keeps(d, D \cup {Key(e)})
        /\ \A k \in D : k # Key(e) => d[k] = c[k]
        /\ Key(e) \in D => d[Key(e)] = Newest(e, c[Key(e)])
        /\ Key(e) \notin D => d[Key(e)] = e
    BY <1>2, KeepNewestKeeps
  <2> HIDE DEF d
  <2> QED
    BY <2>1 DEF Keeps
<1>4. D \cup {Key(e)} = {Key(x) : x \in T}
  BY DEF D
<1> HIDE DEF d
<1>5. ASSUME NEW k \in D \cup {Key(e)} PROVE d[k] \in T /\ Key(d[k]) = k
  BY <1>1, <1>3 DEF Newest
<1>6. ASSUME NEW x \in T PROVE x = d[Key(x)] \/ Newer(d[Key(x)], x)
  <2>1. CASE Key(x) # Key(e)
    <3>1. x \in S /\ Key(x) \in D
      BY <2>1 DEF D
    <3> QED
      BY <2>1, <3>1, <1>1, <1>3
  <2>2. CASE Key(x) = Key(e) /\ Key(e) \notin D
    <3>1. x = e
      BY <2>2 DEF D
    <3> QED
      BY <2>2, <3>1, <1>3
  <2>3. CASE Key(x) = Key(e) /\ Key(e) \in D
    <3>1. d[Key(e)] = Newest(e, c[Key(e)]) /\ c[Key(e)] \in Universe
      BY <2>3, <1>1, <1>3
    <3>2. x = e \/ x = c[Key(e)] \/ Newer(c[Key(e)], x)
      BY <2>3, <1>1
    <3> QED
      BY <3>1, <3>2, <2>3, NewerIsATotalOrder DEF Newest
  <2> QED
    BY <2>1, <2>2, <2>3
<1>7. d \in [{Key(x) : x \in T} -> T]
  BY <1>3, <1>4, <1>5
<1> QED
  BY <1>4, <1>5, <1>6, <1>7 DEF NewestPerKey, d

\* The whole loop leaves the map of the counted events.
LEMMA CollapseKeepsNewest ==
  ASSUME NEW es \in Seq(Universe), NEW counted
  PROVE  NewestPerKey(Collapse(es, counted), ToSet(es) \cap counted)
<1> DEFINE A == UNION {[D -> Universe] : D \in SUBSET {Key(e) : e \in Universe}}
           Turn(n, a) == IF n \in 1 .. Len(es) /\ es[n] \in counted
                         THEN KeepNewest(a, Key(es[n]), es[n]) ELSE a
           step == [n \in Nat |-> [a \in A |-> Turn(n, a)]]
           N == Len(es)
           Body(g) == [n \in 0 .. Len(es) |->
                        IF n = 0 THEN <<>>
                        ELSE IF es[n] \in counted THEN KeepNewest(g[n - 1], Key(es[n]), es[n])
                        ELSE g[n - 1]]
           latest == CHOOSE g : g = Body(g)
<1>1. N \in Nat /\ \A n \in 1 .. N : es[n] \in Universe
  BY Logs
<1>2. <<>> \in A
  <2>1. <<>> \in [{} -> Universe]
    OBVIOUS
  <2> QED
    BY <2>1
<1>3. ASSUME NEW n \in Nat, NEW a \in A PROVE Turn(n, a) \in A
  <2> SUFFICES ASSUME n \in 1 .. N PROVE KeepNewest(a, Key(es[n]), es[n]) \in A
    OBVIOUS
  <2>1. PICK D \in SUBSET {Key(e) : e \in Universe} : Keeps(a, D)
    BY DEF Keeps
  <2>2. es[n] \in Universe /\ D \cup {Key(es[n])} \in SUBSET {Key(e) : e \in Universe}
    BY <1>1
  <2>3. Keeps(KeepNewest(a, Key(es[n]), es[n]), D \cup {Key(es[n])})
    BY <2>1, <2>2, KeepNewestKeeps
  <2> QED
    BY <2>2, <2>3 DEF Keeps
<1>4. PICK f \in [Nat -> A] : f[0] = <<>> /\ \A n \in Nat \ {0} : f[n] = Turn(n, f[n - 1])
  <2> HIDE DEF Turn, A
  <2>1. step \in Steps(A)
    BY <1>3 DEF Steps
  <2>2. \E f : Iterates(f, A, <<>>, step)
    <3> HIDE DEF step
    <3> QED
      BY <1>2, <2>1, Recursion
  <2>3. PICK f \in [Nat -> A] : f[0] = <<>> /\ \A n \in Nat \ {0} : f[n] = step[n][f[n - 1]]
    BY <2>2 DEF Iterates
  <2>4. ASSUME NEW n \in Nat \ {0} PROVE f[n] = Turn(n, f[n - 1])
    <3>1. f[n] = step[n][f[n - 1]] /\ n - 1 \in Nat
      BY <2>3
    <3>2. f[n - 1] \in A
      BY <2>3, <3>1
    <3> QED
      BY <3>1, <3>2
  <2> QED
    BY <2>3, <2>4
<1>5. latest = Body(latest)
  <2> DEFINE h == [n \in 0 .. Len(es) |-> f[n]]
  <2>1. ASSUME NEW n \in 0 .. Len(es) PROVE h[n] = Body(h)[n]
    BY <1>1, <1>4
  <2>2. h = Body(h)
    BY <2>1
  <2> HIDE DEF h
  <2> QED
    BY <2>2
<1>6. Collapse(es, counted) = latest[N]
  BY DEF Collapse
<1> HIDE DEF latest
<1>7. /\ latest[0] = <<>>
      /\ \A n \in Nat : n + 1 \in 1 .. N =>
           latest[n + 1] = IF es[n + 1] \in counted
                           THEN KeepNewest(latest[n], Key(es[n + 1]), es[n + 1]) ELSE latest[n]
  BY <1>1, <1>5
<1> DEFINE S(n) == {es[m] : m \in 1 .. n} \cap counted
           T == {n \in Nat : n <= N => NewestPerKey(latest[n], S(n))}
<1>8. 0 \in T
  <2>1. S(0) = {} /\ <<>> \in [{} -> {}]
    OBVIOUS
  <2>2. {Key(e) : e \in {}} = {}
    OBVIOUS
  <2>3. NewestPerKey(<<>>, {})
    BY <2>1, <2>2 DEF NewestPerKey
  <2> QED
    BY <1>7, <2>1, <2>3
<1>9. ASSUME NEW n \in Nat, n \in T PROVE n + 1 \in T
  <2> SUFFICES ASSUME n + 1 <= N PROVE NewestPerKey(latest[n + 1], S(n + 1))
    OBVIOUS
  <2>1. n + 1 \in 1 .. N /\ es[n + 1] \in Universe
    BY <1>1
  <2>2. NewestPerKey(latest[n], S(n)) /\ S(n) \subseteq Universe
    BY <1>1, <1>9
  <2>3. 1 .. (n + 1) = 1 .. n \cup {n + 1}
    OBVIOUS
  <2>4. CASE es[n + 1] \in counted
    <3>1. S(n + 1) = S(n) \cup {es[n + 1]}
      BY <2>3, <2>4
    <3> HIDE DEF S
    <3> QED
      BY <3>1, <2>1, <2>2, <2>4, <1>7, KeepNewestExtends
  <2>5. CASE es[n + 1] \notin counted
    <3>1. S(n + 1) = S(n)
      BY <2>3, <2>5
    <3> QED
      BY <3>1, <2>1, <2>2, <2>5, <1>7
  <2> QED
    BY <2>4, <2>5
<1>10. N \in T
  <2> HIDE DEF T
  <2> QED
    BY <1>1, <1>8, <1>9, Induction
<1>11. S(N) = ToSet(es) \cap counted
  BY Logs
<1>12. NewestPerKey(latest[N], S(N))
  BY <1>10
<1> HIDE DEF S
<1> QED
  BY <1>6, <1>11, <1>12

\* Readers may get the counted events in any order, among whatever else: the
\* loops of tallyVotes and collapseLatest keep the same for every key.
THEOREM ArrivalOrderIsIrrelevant ==
  ASSUME NEW es \in Seq(Universe), NEW fs \in Seq(Universe), NEW counted,
         counted \subseteq ToSet(es), counted \subseteq ToSet(fs)
  PROVE  Collapse(es, counted) = Collapse(fs, counted)
<1>1. ToSet(es) \cap counted = counted /\ ToSet(fs) \cap counted = counted /\ counted \subseteq Universe
  BY Logs
<1>2. NewestPerKey(Collapse(es, counted), counted) /\ NewestPerKey(Collapse(fs, counted), counted)
  BY <1>1, CollapseKeepsNewest
<1> QED
  BY <1>1, <1>2, NewestPerKeyIsUnique

\* What is newer than the others is the newest.
LEMMA NewestOfIsNewest ==
  ASSUME NEW S, S \subseteq Universe, NEW e \in S, \A f \in S \ {e} : Newer(e, f)
  PROVE  NewestOf(S) = e
<1>1. ASSUME NEW d \in S, \A f \in S \ {d} : Newer(d, f) PROVE d = e
  BY <1>1, NewerIsATotalOrder
<1> QED
  BY <1>1 DEF NewestOf

\* A loop keeps one event for every key of a counted event: the newest of that key.
LEMMA CollapsedIsNewest ==
  ASSUME NEW es \in Seq(Universe), NEW counted, counted \subseteq ToSet(es)
  PROVE  /\ DOMAIN Collapse(es, counted) = {Key(e) : e \in counted}
         /\ \A k \in DOMAIN Collapse(es, counted) :
              /\ Collapse(es, counted)[k] \in counted
              /\ Key(Collapse(es, counted)[k]) = k
              /\ Collapse(es, counted)[k] = NewestOf({e \in counted : Key(e) = k})
<1> DEFINE c == Collapse(es, counted)
<1>1. counted \subseteq Universe /\ ToSet(es) \cap counted = counted
  BY Logs
<1>2. NewestPerKey(c, counted)
  BY <1>1, CollapseKeepsNewest
<1> HIDE DEF c
<1>3. c \in [{Key(e) : e \in counted} -> counted]
  BY <1>2 DEF NewestPerKey
<1>4. ASSUME NEW k \in DOMAIN c
      PROVE  c[k] \in counted /\ Key(c[k]) = k /\ c[k] = NewestOf({e \in counted : Key(e) = k})
  <2> DEFINE S == {e \in counted : Key(e) = k}
  <2>1. c[k] \in counted /\ Key(c[k]) = k
    BY <1>2, <1>3 DEF NewestPerKey
  <2>2. c[k] \in S /\ S \subseteq Universe
    BY <2>1, <1>1
  <2>3. \A f \in S \ {c[k]} : Newer(c[k], f)
    BY <1>2 DEF NewestPerKey
  <2> HIDE DEF S
  <2>4. NewestOf(S) = c[k]
    BY <2>2, <2>3, NewestOfIsNewest
  <2> QED
    BY <2>1, <2>4 DEF S
<1> QED
  BY <1>3, <1>4 DEF c

\* The labels of a namespace are keyed by their subject, votes by the voter.
LEMMA LabelsAreLabels ==
  ASSUME NEW es \in Seq(Universe), NEW ns
  PROVE  /\ Labels(ns, es) \subseteq ToSet(es)
         /\ \A l \in Labels(ns, es) : Key(l) = l.key
  BY DEF Labels, Live, Of, Key

LEMMA VotesAreVotes ==
  ASSUME NEW es \in Seq(Universe), NEW target
  PROVE  /\ Votes(target, es) \subseteq ToSet(es)
         /\ \A v \in Votes(target, es) : Key(v) = v.by
  BY DEF Votes, Live, Of, Key

LEMMA LatestIsNewest ==
  ASSUME NEW es \in Seq(Universe), NEW ns
  PROVE  /\ DOMAIN Latest(ns, es) = {l.key : l \in Labels(ns, es)}
         /\ \A k \in DOMAIN Latest(ns, es) : Latest(ns, es)[k] \in Labels(ns, es)
         /\ \A k \in DOMAIN Latest(ns, es) :
              Latest(ns, es)[k] = NewestOf({l \in Labels(ns, es) : l.key = k})
<1> DEFINE ls == Labels(ns, es)
<1>1. ls \subseteq ToSet(es) /\ \A l \in ls : Key(l) = l.key
  BY LabelsAreLabels
<1> HIDE DEF ls
<1>2. {Key(l) : l \in ls} = {l.key : l \in ls}
  BY <1>1
<1>3. \A k : {l \in ls : Key(l) = k} = {l \in ls : l.key = k}
  BY <1>1
<1>4. Latest(ns, es) = Collapse(es, ls)
  BY DEF Latest, ls
<1>5. /\ DOMAIN Collapse(es, ls) = {Key(l) : l \in ls}
      /\ \A k \in DOMAIN Collapse(es, ls) :
              /\ Collapse(es, ls)[k] \in ls
              /\ Collapse(es, ls)[k] = NewestOf({l \in ls : Key(l) = k})
  BY <1>1, CollapsedIsNewest
<1>6. /\ DOMAIN Collapse(es, ls) = {l.key : l \in ls}
      /\ \A k \in DOMAIN Collapse(es, ls) :
              /\ Collapse(es, ls)[k] \in ls
              /\ Collapse(es, ls)[k] = NewestOf({l \in ls : l.key = k})
  BY <1>2, <1>3, <1>5
<1> QED
  BY <1>4, <1>6 DEF ls

LEMMA TallyIsNewest ==
  ASSUME NEW es \in Seq(Universe), NEW target
  PROVE  \A p \in DOMAIN Tally(target, es) :
           Tally(target, es)[p] = NewestOf({v \in Votes(target, es) : v.by = p})
<1> DEFINE vs == Votes(target, es)
<1>1. vs \subseteq ToSet(es) /\ \A v \in vs : Key(v) = v.by
  BY VotesAreVotes
<1> HIDE DEF vs
<1>2. \A p : {v \in vs : Key(v) = p} = {v \in vs : v.by = p}
  BY <1>1
<1>3. Tally(target, es) = Collapse(es, vs)
  BY DEF Tally, vs
<1>4. \A p \in DOMAIN Collapse(es, vs) : Collapse(es, vs)[p] = NewestOf({v \in vs : Key(v) = p})
  BY <1>1, CollapsedIsNewest
<1> QED
  BY <1>2, <1>3, <1>4 DEF vs

\* ReadersAgree: the label kept for a subject, and the vote kept for a voter, is
\* the newest of theirs that counts, whatever the order in which a relay, the
\* indexer's table or a subscription delivered them.
THEOREM ReadersDoAgree == Spec => []ReadersAgree
<1>1. ASSUME log \in Seq(Universe) PROVE ReadersAgree
  <2>1. ASSUME NEW ns, NEW k \in DOMAIN Latest(ns, log)
        PROVE  Latest(ns, log)[k] = NewestOf({l \in Labels(ns, log) : l.key = k})
    <3>1. log \in Seq(Universe)
      BY <1>1
    <3>2. \A j \in DOMAIN Latest(ns, log) : Latest(ns, log)[j] = NewestOf({l \in Labels(ns, log) : l.key = j})
      BY <3>1, LatestIsNewest
    <3> QED
      BY <3>2
  <2>2. ASSUME NEW t, NEW p \in DOMAIN Tally(t, log)
        PROVE  Tally(t, log)[p] = NewestOf({v \in Votes(t, log) : v.by = p})
    <3>1. \A q \in DOMAIN Tally(t, log) : Tally(t, log)[q] = NewestOf({v \in Votes(t, log) : v.by = q})
      BY <1>1, TallyIsNewest
    <3> QED
      BY <3>1
  <2> QED
    BY <2>1, <2>2 DEF ReadersAgree
<1>2. IInv => ReadersAgree
  BY <1>1 DEF IInv
<1> QED
  BY <1>2, Invariant, PTL

-----------------------------------------------------------------------------
(* The board's moderation.                                                     *)

\* A board is one of its live versions.
LEMMA BoardIsLive ==
  ASSUME NEW es \in Seq(Universe), Board(es) # NoBoard
  PROVE  /\ Board(es) \in Live({"board"}, es) /\ Board(es).named
         /\ \A c \in Live({"board"}, es) \ {Board(es)} : Newer(Board(es), c)
<1> DEFINE newest == {b \in Live({"board"}, es) : b.named /\ \A c \in Live({"board"}, es) \ {b} : Newer(b, c)}
<1>1. newest # {} /\ Board(es) = CHOOSE b \in newest : TRUE
  BY DEF Board
<1> QED
  BY <1>1

\* It is the one with a name that is newer than the others.
LEMMA NewestIsBoard ==
  ASSUME NEW es \in Seq(Universe), NEW b \in Live({"board"}, es), b.named,
         \A c \in Live({"board"}, es) \ {b} : Newer(b, c)
  PROVE  Board(es) = b
<1> DEFINE newest == {x \in Live({"board"}, es) : x.named /\ \A c \in Live({"board"}, es) \ {x} : Newer(x, c)}
<1>1. Live({"board"}, es) \subseteq Universe
  BY Logs DEF Live, Of
<1>2. ASSUME NEW x \in newest PROVE x = b
  BY <1>1, <1>2, NewerIsATotalOrder
<1>3. newest = {b}
  BY <1>2
<1> QED
  BY <1>3 DEF Board

\* OwnerHasTheLastWord: bannedSubjects lets nobody ban the owner, and only the
\* owner's newest label decides on a moderator.
THEOREM TheOwnerHasTheLastWord == Spec => []OwnerHasTheLastWord
<1>1. ASSUME log \in Seq(Universe), Board(log) # NoBoard
      PROVE  /\ Board(log).by \notin Banned(log)
             /\ \A s \in Board(log).mods \ {Board(log).by} :
                  LET by == {l \in Live({"label"}, log) :
                               l.ns = "ban" /\ l.a = Board(log).coord /\ l.by = Board(log).by /\ l.key = s}
                  IN s \in Banned(log) <=> (by # {} /\ NewestOf(by).on)
  <2> DEFINE b  == Board(log)
             bans == {l \in Labels("ban", log) : MayBan(b, l)}
             c  == Collapse(log, bans)
             by(s) == {l \in Live({"label"}, log) : l.ns = "ban" /\ l.a = b.coord /\ l.by = b.by /\ l.key = s}
  <2>1. bans \subseteq ToSet(log) /\ \A l \in bans : Key(l) = l.key
    BY <1>1, LabelsAreLabels
  <2>2. Banned(log) = {k \in DOMAIN c : c[k].on}
    BY DEF Banned, On
  <2>3. bans = {l \in Live({"label"}, log) : l.ns = "ban" /\ l.a = b.coord /\ l.by \in Moderators(b) /\ MayBan(b, l)}
    BY <1>1 DEF Labels
  <2> HIDE DEF bans
  <2>4. /\ DOMAIN c = {Key(l) : l \in bans}
        /\ \A k \in DOMAIN c : c[k] = NewestOf({l \in bans : Key(l) = k})
    BY <1>1, <2>1, CollapsedIsNewest
  <2> HIDE DEF c, b
  <2>5. b.by \notin Banned(log)
    <3>1. \A l \in bans : Key(l) # b.by
      BY <2>1, <2>3 DEF MayBan
    <3> QED
      BY <3>1, <2>2, <2>4
  <2>6. ASSUME NEW s \in b.mods \ {b.by}
        PROVE  s \in Banned(log) <=> (by(s) # {} /\ NewestOf(by(s)).on)
    <3>1. {l \in bans : Key(l) = s} = {l \in bans : l.key = s}
      BY <2>1
    <3>2. {l \in bans : l.key = s} = by(s)
      BY <2>3 DEF MayBan, Moderators
    <3>3. s \in DOMAIN c <=> by(s) # {}
      BY <3>1, <3>2, <2>4
    <3> HIDE DEF by
    <3>4. s \in DOMAIN c => c[s] = NewestOf(by(s))
      BY <3>1, <3>2, <2>4
    <3> QED
      BY <3>3, <3>4, <2>2
  <2> QED
    BY <2>5, <2>6 DEF b
<1>2. IInv => OwnerHasTheLastWord
  BY <1>1 DEF IInv, OwnerHasTheLastWord
<1> QED
  BY <1>2, Invariant, PTL

\* The author of e took it back, and deriveBoardView lets them.
Removed(e, es) ==
  /\ e.kind \in {"idea", "reply", "vote", "label", "board"}
  /\ \E d \in ToSet(es) : d.kind = "deletion" /\ Deletes(d, e)

\* Hiding by id hides what was removed and nothing else.
LEMMA LiveAreNotRemoved ==
  ASSUME NEW es \in Seq(Universe), NEW kinds
  PROVE  Live(kinds, es) = {e \in ToSet(es) : e.kind \in kinds /\ ~Removed(e, es)}
<1>1. ASSUME NEW e \in ToSet(es) PROVE e.id \in DeletedIds(es) <=> Removed(e, es)
  <2>1. \A c \in ToSet(es) : c.id = e.id => c = e
    BY Logs, IdsAreUnique
  <2>2. e.id \in DeletedIds(es) <=>
          \E c \in ToSet(es) : /\ c.id = e.id
                               /\ c.kind \in {"idea", "reply", "vote", "label", "board"}
                               /\ \E d \in ToSet(es) : d.kind = "deletion" /\ Deletes(d, c)
    BY DEF DeletedIds, Of
  <2> QED
    BY <2>1, <2>2 DEF Removed
<1> HIDE DEF Removed
<1> QED
  BY <1>1 DEF Live, Of

\* Two logs with the same board, labels that count and approvals are moderated alike.
LEMMA ModerationIsOfTheLabels ==
  ASSUME NEW es \in Seq(Universe), NEW fs \in Seq(Universe),
         Board(es) = Board(fs), \A ns : Labels(ns, es) = Labels(ns, fs), Approved(es) = Approved(fs)
  PROVE  /\ Moderation(es) = Moderation(fs)
         /\ Pinned(es) = Pinned(fs) /\ Hidden(es) = Hidden(fs) /\ Status(es) = Status(fs)
         /\ Locks(es) = Locks(fs) /\ Banned(es) = Banned(fs)
<1>1. \A ns : Latest(ns, es) = Latest(ns, fs)
  BY LabelsAreLabels, ArrivalOrderIsIrrelevant DEF Latest
<1>2. Pinned(es) = Pinned(fs) /\ Hidden(es) = Hidden(fs)
  BY <1>1 DEF Pinned, Hidden
<1>3. Status(es) = Status(fs) /\ Locks(es) = Locks(fs)
  BY <1>1 DEF Status, Locks
<1>4. Banned(es) = Banned(fs)
  <2> DEFINE bans(gs) == {l \in Labels("ban", gs) : MayBan(Board(gs), l)}
  <2>1. bans(es) = bans(fs) /\ bans(es) \subseteq ToSet(es) /\ bans(fs) \subseteq ToSet(fs)
    BY LabelsAreLabels
  <2> HIDE DEF bans
  <2>2. Collapse(es, bans(es)) = Collapse(fs, bans(fs))
    BY <2>1, ArrivalOrderIsIrrelevant
  <2> QED
    BY <2>2 DEF Banned, bans
<1> QED
  BY <1>2, <1>3, <1>4 DEF Moderation

\* A board depends on its live versions only, labels that count and approvals on
\* the live labels and approvals too.
LEMMA BoardIsOfTheLive ==
  ASSUME NEW es, NEW fs, Live({"board"}, es) = Live({"board"}, fs)
  PROVE  Board(es) = Board(fs)
<1> DEFINE newest(live) == {b \in live : b.named /\ \A c \in live \ {b} : Newer(b, c)}
           board(live)  == IF newest(live) = {} THEN NoBoard ELSE CHOOSE b \in newest(live) : TRUE
<1>1. Board(es) = board(Live({"board"}, es)) /\ Board(fs) = board(Live({"board"}, fs))
  BY DEF Board
<1> HIDE DEF board
<1> QED
  BY <1>1

\* OnlyModeratorsModerate: whatever somebody who is neither owner nor moderator
\* publishes, a deletion or a board of their own included, deriveBoardView's
\* moderation stays as it was, unless it is a newer board event than the one in
\* force.
THEOREM ModerationIsReserved == Spec => OnlyModeratorsModerate
<1> DEFINE Outsider(e) ==
      LET b == Board(log) IN
        b # NoBoard /\ e.by \notin Moderators(b) /\ ~(e.kind = "board" /\ Newer(e, b))
    Reserved ==
      \A e \in ToSet(log') \ ToSet(log) : Outsider(e) => Moderation(log') = Moderation(log)
<1>1. ASSUME IInv, NEW e \in Universe, Arrive(e), Outsider(e)
      PROVE  Moderation(log') = Moderation(log)
  <2> DEFINE b == Board(log)
             boards(es) == Live({"board"}, es)
  <2>0. b # NoBoard /\ e.by \notin Moderators(b) /\ ~(e.kind = "board" /\ Newer(e, b))
    BY <1>1
  <2>1. /\ log \in Seq(Universe) /\ log' \in Seq(Universe)
        /\ ToSet(log') = ToSet(log) \cup {e} /\ e \notin ToSet(log)
    <3>1. log \in Seq(Universe) /\ log' = Append(log, e) /\ e \notin ToSet(log)
      BY <1>1 DEF IInv, Arrive
    <3>2. log' \in Seq(Universe) /\ Len(log') = Len(log) + 1 /\ log'[Len(log) + 1] = e
          /\ \A n \in 1 .. Len(log) : log'[n] = log[n]
      BY <3>1
    <3>3. Len(log) \in Nat /\ ToSet(log) = {log[n] : n \in 1 .. Len(log)}
          /\ ToSet(log') = {log'[n] : n \in 1 .. (Len(log) + 1)}
      BY <3>1, <3>2, Logs
    <3> QED
      BY <3>1, <3>2, <3>3
  <2>2. /\ b \in boards(log) /\ b.named
        /\ \A c \in boards(log) \ {b} : Newer(b, c)
    BY <2>0, <2>1, BoardIsLive
  <2>3. /\ boards(log) = {x \in ToSet(log) : x.kind \in {"board"} /\ ~Removed(x, log)}
        /\ boards(log') = {x \in ToSet(log') : x.kind \in {"board"} /\ ~Removed(x, log')}
    BY <2>1, LiveAreNotRemoved
  <2>4. ASSUME NEW x \in ToSet(log), x.by \in Moderators(b) PROVE Removed(x, log') <=> Removed(x, log)
    BY <2>0, <2>1, <2>4 DEF Removed, Deletes
  <2> HIDE DEF b, boards
  <2>5. \A x : Removed(x, log) => Removed(x, log')
    BY <2>1 DEF Removed
  <2>6. \A c \in boards(log') \ {b} : Newer(b, c)
    <3>1. ASSUME NEW c \in boards(log'), c # b, c # e PROVE Newer(b, c)
      <4>1. c \in boards(log)
        BY <2>1, <2>3, <2>5, <3>1
      <4> QED
        BY <2>2, <3>1, <4>1
    <3>2. ASSUME e \in boards(log') PROVE Newer(b, e)
      <4>1. e.kind = "board" /\ e # b /\ b \in Universe
        BY <2>1, <2>2, <2>3, <3>2, Logs
      <4> QED
        BY <2>0, <4>1, NewerIsATotalOrder
    <3> QED
      BY <3>1, <3>2
  <2>7. b \in boards(log')
    <3>1. b \in ToSet(log) /\ b.kind \in {"board"} /\ ~Removed(b, log)
      BY <2>2, <2>3
    <3>2. b.by \in Moderators(b)
      BY DEF Moderators
    <3> QED
      BY <2>1, <2>3, <2>4, <3>1, <3>2
  <2>8. Board(log') = b
    BY <2>1, <2>2, <2>6, <2>7, NewestIsBoard DEF boards
  <2>9. ASSUME NEW ns PROVE Labels(ns, log') = Labels(ns, log)
    <3>1. Labels(ns, log) = {l \in Live({"label"}, log) : l.ns = ns /\ l.a = b.coord /\ l.by \in Moderators(b)}
      BY <2>0 DEF Labels, b
    <3>2. Labels(ns, log') = {l \in Live({"label"}, log') : l.ns = ns /\ l.a = b.coord /\ l.by \in Moderators(b)}
      BY <2>0, <2>8 DEF Labels, b
    <3>3. \A l : l.by \in Moderators(b) => (l \in Live({"label"}, log) <=> l \in Live({"label"}, log'))
      BY <2>0, <2>1, <2>4, LiveAreNotRemoved
    <3> QED
      BY <3>1, <3>2, <3>3
  <2>10. Approved(log') = Approved(log)
    <3>1. Approved(log) = {a.post : a \in {x \in Live({"approval"}, log) : x.a = b.coord /\ x.by \in Moderators(b)}}
      BY <2>0 DEF Approved, b
    <3>2. Approved(log') = {a.post : a \in {x \in Live({"approval"}, log') : x.a = b.coord /\ x.by \in Moderators(b)}}
      BY <2>0, <2>8 DEF Approved, b
    <3>3. \A l : l.by \in Moderators(b) => (l \in Live({"approval"}, log) <=> l \in Live({"approval"}, log'))
      BY <2>0, <2>1, <2>4, LiveAreNotRemoved
    <3> QED
      BY <3>1, <3>2, <3>3
  <2> QED
    BY <2>1, <2>8, <2>9, <2>10, ModerationIsOfTheLabels DEF b
<1>2. IInv /\ [Next]_log => [Reserved]_log
  <2>1. ASSUME IInv, NEW e \in Universe, Arrive(e) PROVE \A x \in ToSet(log') \ ToSet(log) : x = e
    <3>1. log \in Seq(Universe) /\ log' = Append(log, e)
      BY <2>1 DEF IInv, Arrive
    <3> QED
      BY <3>1 DEF ToSet
  <2> QED
    BY <1>1, <2>1 DEF Next
<1>3. Spec => [][Reserved]_log
  <2> HIDE DEF Reserved
  <2> QED
    BY <1>2, Invariant, PTL DEF Spec
<1> QED
  BY <1>3 DEF OnlyModeratorsModerate

-----------------------------------------------------------------------------
(* Trees of replies.                                                           *)

\* The ids of the replies to some ids.
Children(ids, rs) == {r.id : r \in {x \in rs : x.parent \in ids}}

IsLevel(f, root, rs) ==
  /\ f[0] = {root}
  /\ \A n \in Nat : f[n + 1] = f[n] \cup Children(f[n], rs)
  /\ \A n \in Nat : f[n] \subseteq {root} \cup {r.id : r \in rs}

\* The ids that are reached from a root, by depth.
Level(root, rs) == CHOOSE f : IsLevel(f, root, rs)

\* The levels are well defined.
LEMMA Levels ==
  ASSUME NEW root, NEW rs
  PROVE  /\ Level(root, rs)[0] = {root}
         /\ \A n \in Nat : Level(root, rs)[n + 1] = Level(root, rs)[n] \cup Children(Level(root, rs)[n], rs)
         /\ \A n \in Nat : Level(root, rs)[n] \subseteq {root} \cup {r.id : r \in rs}
<1> DEFINE A == SUBSET ({root} \cup {r.id : r \in rs})
           start == {root}
           step == [n \in Nat |-> [a \in A |-> a \cup Children(a, rs)]]
<1>1. start \in A
  OBVIOUS
<1>2. \A a \in A : a \cup Children(a, rs) \in A
  BY DEF Children
<1>3. step \in Steps(A)
  <2> HIDE DEF A
  <2> QED
    BY <1>2 DEF Steps
<1>4. \E f : Iterates(f, A, start, step)
  <2> HIDE DEF A, start, step
  <2> QED
    BY <1>1, <1>3, Recursion
<1>5. PICK f \in [Nat -> A] : f[0] = start /\ \A n \in Nat \ {0} : f[n] = step[n][f[n - 1]]
  <2> HIDE DEF A, start, step
  <2> QED
    BY <1>4 DEF Iterates
<1>6. ASSUME NEW n \in Nat PROVE f[n + 1] = f[n] \cup Children(f[n], rs) /\ f[n] \in A
  <2>1. n + 1 \in Nat \ {0} /\ (n + 1) - 1 = n
    OBVIOUS
  <2>2. f[n + 1] = step[n + 1][f[n]] /\ f[n] \in A
    <3> HIDE DEF A, step
    <3> QED
      BY <1>5, <2>1
  <2> HIDE DEF A
  <2> QED
    BY <2>1, <2>2
<1>7. IsLevel(f, root, rs)
  BY <1>5, <1>6 DEF IsLevel
<1>8. IsLevel(Level(root, rs), root, rs)
  BY <1>7 DEF Level
<1> QED
  BY <1>8 DEF IsLevel

\* A level holds all earlier ones.
LEMMA LevelsGrow ==
  ASSUME NEW root, NEW rs, NEW m \in Nat
  PROVE  \A n \in Nat : m <= n => Level(root, rs)[m] \subseteq Level(root, rs)[n]
<1> DEFINE f == Level(root, rs)
           T == {n \in Nat : m <= n => f[m] \subseteq f[n]}
<1>1. \A n \in Nat : f[n] \subseteq f[n + 1]
  BY Levels
<1> HIDE DEF f
<1>2. 0 \in T
  OBVIOUS
<1>3. ASSUME NEW n \in Nat, n \in T PROVE n + 1 \in T
  <2>1. m <= n + 1 => m <= n \/ m = n + 1
    OBVIOUS
  <2> QED
    BY <1>1, <1>3, <2>1
<1> HIDE DEF T
<1>4. \A n \in Nat : n \in T
  BY <1>2, <1>3, Induction
<1> QED
  BY <1>4 DEF T, f

\* Below is the replies to what is reached.
LEMMA BelowIsReached ==
  ASSUME NEW root, NEW rs, NEW depth \in Nat \ {0}
  PROVE  Below(root, rs, depth) = {r \in rs : r.parent \in Level(root, rs)[depth - 1]}
<1> DEFINE f == Level(root, rs)
           Body(g) == [d \in 0 .. depth |->
                        IF d = 0 THEN {root}
                        ELSE g[d - 1] \cup {r.id : r \in {x \in rs : x.parent \in g[d - 1]}}]
           ids == CHOOSE g : g = Body(g)
           h   == [d \in 0 .. depth |-> f[d]]
<1>1. f[0] = {root} /\ \A n \in Nat : f[n + 1] = f[n] \cup Children(f[n], rs)
  BY Levels
<1> HIDE DEF f
<1>2. ASSUME NEW d \in 0 .. depth PROVE h[d] = Body(h)[d]
  <2>1. CASE d = 0
    BY <2>1, <1>1
  <2>2. CASE d # 0
    <3>1. d - 1 \in Nat /\ (d - 1) + 1 = d /\ d - 1 \in 0 .. depth
      BY <2>2
    <3>2. f[d] = f[d - 1] \cup Children(f[d - 1], rs)
      BY <1>1, <3>1
    <3>3. h[d] = f[d] /\ h[d - 1] = f[d - 1]
      BY <3>1
    <3>4. Body(h)[d] = h[d - 1] \cup Children(h[d - 1], rs)
      BY <2>2 DEF Children
    <3> QED
      BY <3>2, <3>3, <3>4
  <2> QED
    BY <2>1, <2>2
<1>3. h = Body(h)
  BY <1>2
<1>4. ids = Body(ids)
  <2> HIDE DEF h
  <2> QED
    BY <1>3
<1>5. Below(root, rs, depth) = {r \in rs : r.parent \in ids[depth - 1]}
  BY DEF Below
<1> HIDE DEF ids, h
<1>6. ids[0] = {root} /\ \A n \in Nat : n + 1 <= depth => ids[n + 1] = ids[n] \cup Children(ids[n], rs)
  <2>1. ids[0] = {root}
    BY <1>4
  <2>2. ASSUME NEW n \in Nat, n + 1 <= depth PROVE ids[n + 1] = ids[n] \cup Children(ids[n], rs)
    <3>1. n + 1 \in 0 .. depth /\ n + 1 # 0 /\ (n + 1) - 1 = n
      BY <2>2
    <3>2. ids[n + 1] = Body(ids)[n + 1]
      BY <1>4
    <3> QED
      BY <3>1, <3>2 DEF Children
  <2> QED
    BY <2>1, <2>2
<1> DEFINE T == {n \in Nat : n <= depth => ids[n] = f[n]}
<1>7. 0 \in T
  BY <1>1, <1>6
<1>8. ASSUME NEW n \in Nat, n \in T PROVE n + 1 \in T
  <2> SUFFICES ASSUME n + 1 <= depth PROVE ids[n + 1] = f[n + 1]
    OBVIOUS
  <2>1. ids[n] = f[n]
    BY <1>8
  <2> QED
    BY <2>1, <1>1, <1>6
<1>9. \A n \in Nat : n \in T
  <2> HIDE DEF T
  <2> QED
    BY <1>7, <1>8, Induction
<1>10. ids[depth - 1] = f[depth - 1]
  BY <1>9
<1> QED
  BY <1>5, <1>10 DEF f

\* More replies reach more.
LEMMA LevelsWiden ==
  ASSUME NEW root, NEW ts, NEW rs \in SUBSET ts
  PROVE  \A n \in Nat : Level(root, rs)[n] \subseteq Level(root, ts)[n]
<1> DEFINE f == Level(root, rs)
           g == Level(root, ts)
           T == {n \in Nat : f[n] \subseteq g[n]}
<1>1. f[0] = {root} /\ \A n \in Nat : f[n + 1] = f[n] \cup Children(f[n], rs)
  BY Levels
<1>2. g[0] = {root} /\ \A n \in Nat : g[n + 1] = g[n] \cup Children(g[n], ts)
  BY Levels
<1> HIDE DEF f, g
<1>3. 0 \in T
  BY <1>1, <1>2
<1>4. ASSUME NEW n \in Nat, n \in T PROVE n + 1 \in T
  <2>1. Children(f[n], rs) \subseteq Children(g[n], ts)
    BY <1>4 DEF Children
  <2> QED
    BY <1>1, <1>2, <1>4, <2>1
<1> HIDE DEF T
<1>5. \A n \in Nat : n \in T
  BY <1>3, <1>4, Induction
<1> QED
  BY <1>5 DEF T, f, g

\* What is reached hangs under something that is reached.
LEMMA ReachedFromReached ==
  ASSUME NEW root, NEW rs, NEW x
  PROVE  \A n \in Nat : x \in Level(root, rs)[n] =>
           x = root \/ \E r \in rs : r.id = x /\ r.parent \in Level(root, rs)[n]
<1> DEFINE f == Level(root, rs)
           T == {n \in Nat : x \in f[n] => x = root \/ \E r \in rs : r.id = x /\ r.parent \in f[n]}
<1>1. f[0] = {root} /\ \A n \in Nat : f[n + 1] = f[n] \cup Children(f[n], rs)
  BY Levels
<1> HIDE DEF f
<1>2. 0 \in T
  BY <1>1
<1>3. ASSUME NEW n \in Nat, n \in T PROVE n + 1 \in T
  BY <1>1, <1>3 DEF Children
<1> HIDE DEF T
<1>4. \A n \in Nat : n \in T
  BY <1>2, <1>3, Induction
<1> QED
  BY <1>4 DEF T, f

\* A reply has one parent, so the trees of two roots share nothing.
LEMMA TreesAreDisjoint ==
  ASSUME NEW rs \in SUBSET Universe, NEW a, NEW b, a # b, \A r \in rs : r.id # a /\ r.id # b
  PROVE  \A m \in Nat : \A n \in Nat : Level(a, rs)[m] \cap Level(b, rs)[n] = {}
<1> DEFINE f == Level(a, rs)
           g == Level(b, rs)
           T == {m \in Nat : \A n \in Nat : f[m] \cap g[n] = {}}
<1>1. f[0] = {a} /\ \A n \in Nat : f[n + 1] = f[n] \cup Children(f[n], rs)
  BY Levels
<1>2. ASSUME NEW x, NEW n \in Nat, x \in g[n]
      PROVE  x = b \/ \E r \in rs : r.id = x /\ r.parent \in g[n]
  BY <1>2, ReachedFromReached
<1> HIDE DEF f, g
<1>3. 0 \in T
  BY <1>1, <1>2
<1>4. ASSUME NEW m \in Nat, m \in T PROVE m + 1 \in T
  <2> SUFFICES ASSUME NEW n \in Nat, NEW x \in f[m + 1], x \in g[n] PROVE FALSE
    OBVIOUS
  <2>1. x \notin f[m]
    BY <1>4
  <2>2. PICK r \in rs : r.id = x /\ r.parent \in f[m]
    BY <1>1, <2>1 DEF Children
  <2>3. PICK q \in rs : q.id = x /\ q.parent \in g[n]
    BY <1>2, <2>2
  <2>4. q = r
    BY <2>2, <2>3, IdsAreUnique
  <2> QED
    BY <1>4, <2>2, <2>3, <2>4
<1> HIDE DEF T
<1>5. \A m \in Nat : m \in T
  BY <1>3, <1>4, Induction
<1> QED
  BY <1>5 DEF T, f, g

\* A function maps a finite set to a finite set, no larger.
LEMMA ImagesAreFinite ==
  ASSUME NEW S, IsFiniteSet(S), NEW f, DOMAIN f = S, f = [x \in S |-> f[x]]
  PROVE  LET T == {f[x] : x \in S}
         IN  IsFiniteSet(T) /\ Cardinality(T) <= Cardinality(S) /\ Cardinality(T) \in Nat
<1> DEFINE T == {f[x] : x \in S}
<1>1. f \in Surjection(S, T)
  BY DEF Surjection
<1> HIDE DEF T
<1>2. IsFiniteSet(T) /\ Cardinality(T) <= Cardinality(S)
  BY <1>1, FS_Surjection
<1>3. Cardinality(T) \in Nat
  BY <1>2, FS_CardinalityType
<1> QED
  BY <1>2, <1>3 DEF T

\* A log has finitely many replies.
LEMMA LogsAreFinite ==
  ASSUME NEW es \in Seq(Universe)
  PROVE  /\ Replies(es) \subseteq ToSet(es)
         /\ IsFiniteSet(Replies(es)) /\ Cardinality(Replies(es)) \in Nat
<1>1. Replies(es) \subseteq ToSet(es)
  BY DEF Replies, Live, Of
<1> DEFINE places == 1 .. Len(es)
<1>2. Len(es) \in Nat
  OBVIOUS
<1>3. IsFiniteSet(places)
  BY <1>2, FS_Interval
<1>4. DOMAIN es = places /\ es = [n \in places |-> es[n]]
  OBVIOUS
<1> HIDE DEF places
<1>5. IsFiniteSet({es[n] : n \in places})
  BY <1>3, <1>4, ImagesAreFinite
<1>6. ToSet(es) = {es[n] : n \in places}
  BY Logs DEF places
<1>7. IsFiniteSet(ToSet(es))
  BY <1>5, <1>6
<1> QED
  BY <1>1, <1>7, FS_Subset, FS_CardinalityType

\* Replies that hang under nothing that is reached may be left out.
LEMMA OthersDoNotMatter ==
  ASSUME NEW root, NEW ts, NEW rs \in SUBSET ts,
         \A r \in ts \ rs : \A n \in Nat : r.parent \notin Level(root, ts)[n]
  PROVE  \A n \in Nat : Level(root, rs)[n] = Level(root, ts)[n]
<1> DEFINE f == Level(root, rs)
           g == Level(root, ts)
           T == {n \in Nat : f[n] = g[n]}
<1>1. f[0] = {root} /\ \A n \in Nat : f[n + 1] = f[n] \cup Children(f[n], rs)
  BY Levels
<1>2. g[0] = {root} /\ \A n \in Nat : g[n + 1] = g[n] \cup Children(g[n], ts)
  BY Levels
<1>3. \A r \in ts \ rs : \A n \in Nat : r.parent \notin g[n]
  OBVIOUS
<1> HIDE DEF f, g
<1>4. 0 \in T
  BY <1>1, <1>2
<1>5. ASSUME NEW n \in Nat, n \in T PROVE n + 1 \in T
  <2>1. {x \in rs : x.parent \in f[n]} = {x \in ts : x.parent \in g[n]}
    BY <1>3, <1>5
  <2>2. Children(f[n], rs) = Children(g[n], ts)
    BY <2>1 DEF Children
  <2>3. f[n] = g[n]
    BY <1>5
  <2>4. f[n + 1] = f[n] \cup Children(f[n], rs) /\ g[n + 1] = g[n] \cup Children(g[n], ts)
    BY <1>1, <1>2
  <2>5. f[n + 1] = g[n + 1]
    BY <2>2, <2>3, <2>4
  <2> QED
    BY <2>5
<1> HIDE DEF T
<1>6. \A n \in Nat : n \in T
  BY <1>4, <1>5, Induction
<1> QED
  BY <1>6 DEF T, f, g

\* The replies that may count for a root.
Eligible(root, seen, es) == {r \in Replies(es) \ seen : InTime(root, Locks(es), r)}

\* The search from one root reaches what hangs under it.
LEMMA FoundIsReached ==
  ASSUME NEW es \in Seq(Universe), NEW root, NEW seen
  PROVE  Found(root, seen, es) =
           {r \in Eligible(root, seen, es) :
              r.parent \in Level(root, Eligible(root, seen, es))[Cardinality(Replies(es))]}
<1> DEFINE N == Cardinality(Replies(es))
           X == Eligible(root, seen, es)
<1>1. N + 1 \in Nat \ {0} /\ (N + 1) - 1 = N
  BY LogsAreFinite
<1>2. Found(root, seen, es) = Below(root, X, N + 1)
  BY DEF Found, Eligible
<1> HIDE DEF N, X
<1>3. Below(root, X, N + 1) = {r \in X : r.parent \in Level(root, X)[(N + 1) - 1]}
  BY <1>1, BelowIsReached
<1> QED
  BY <1>1, <1>2, <1>3 DEF N, X

\* However many ideas were counted before, an idea counts its whole tree.
LEMMA CountedIsFound ==
  ASSUME NEW es \in Seq(Universe), Distinct(es), NEW place \in 1 .. Len(es), es[place] \in Ideas(es)
  PROVE  Counted(place, es) = Found(es[place].id, {}, es)
<1> DEFINE rs == Replies(es)
           A == SUBSET rs
           N == Len(es)
           Turn(n, a) == IF n \in 1 .. Len(es) /\ es[n] \in Ideas(es)
                         THEN a \cup Found(es[n].id, a, es) ELSE a
           step == [n \in Nat |-> [a \in A |-> Turn(n, a)]]
           Body(g) == [n \in 0 .. Len(es) |->
                        IF n = 0 THEN {}
                        ELSE IF es[n] \in Ideas(es) THEN g[n - 1] \cup Found(es[n].id, g[n - 1], es)
                        ELSE g[n - 1]]
           seen == CHOOSE g : g = Body(g)
<1>1. N \in Nat /\ DOMAIN es = 1 .. N /\ \A n \in 1 .. N : es[n] \in Universe
  BY Logs
<1>2. {} \in A
  OBVIOUS
<1>3. ASSUME NEW n \in Nat, NEW a \in A PROVE Turn(n, a) \in A
  <2>1. Found(es[n].id, a, es) \subseteq Eligible(es[n].id, a, es)
    BY FoundIsReached
  <2>2. Eligible(es[n].id, a, es) \subseteq rs
    BY DEF Eligible
  <2> HIDE DEF rs
  <2> QED
    BY <2>1, <2>2
<1>4. PICK f \in [Nat -> A] : f[0] = {} /\ \A n \in Nat \ {0} : f[n] = Turn(n, f[n - 1])
  <2> HIDE DEF Turn, A
  <2>1. step \in Steps(A)
    BY <1>3 DEF Steps
  <2>2. \E f : Iterates(f, A, {}, step)
    <3> HIDE DEF step
    <3> QED
      BY <1>2, <2>1, Recursion
  <2>3. PICK f \in [Nat -> A] : f[0] = {} /\ \A n \in Nat \ {0} : f[n] = step[n][f[n - 1]]
    BY <2>2 DEF Iterates
  <2>4. ASSUME NEW n \in Nat \ {0} PROVE f[n] = Turn(n, f[n - 1])
    <3>1. f[n] = step[n][f[n - 1]] /\ n - 1 \in Nat
      BY <2>3
    <3>2. f[n - 1] \in A
      BY <2>3, <3>1
    <3> QED
      BY <3>1, <3>2
  <2> QED
    BY <2>3, <2>4
<1> HIDE DEF A
<1>5. seen = Body(seen)
  <2> DEFINE h == [n \in 0 .. Len(es) |-> f[n]]
  <2>1. ASSUME NEW n \in 0 .. Len(es) PROVE h[n] = Body(h)[n]
    BY <1>1, <1>4
  <2>2. h = Body(h)
    BY <2>1
  <2> HIDE DEF h
  <2> QED
    BY <2>2
<1>6. Counted(place, es) = Found(es[place].id, seen[place - 1], es)
  BY DEF Counted
<1> HIDE DEF seen
<1>7. /\ seen[0] = {}
      /\ \A n \in Nat : n + 1 \in 1 .. N =>
           seen[n + 1] = IF es[n + 1] \in Ideas(es)
                         THEN seen[n] \cup Found(es[n + 1].id, seen[n], es) ELSE seen[n]
  <2>1. seen[0] = {}
    BY <1>1, <1>5
  <2>2. ASSUME NEW n \in Nat, n + 1 \in 1 .. N
        PROVE  seen[n + 1] = IF es[n + 1] \in Ideas(es)
                             THEN seen[n] \cup Found(es[n + 1].id, seen[n], es) ELSE seen[n]
    <3>1. n + 1 \in 0 .. Len(es) /\ n + 1 # 0 /\ (n + 1) - 1 = n
      BY <1>1, <2>2
    <3>2. seen[n + 1] = Body(seen)[n + 1]
      BY <1>5
    <3> QED
      BY <3>1, <3>2
  <2> QED
    BY <2>1, <2>2
<1> HIDE DEF N, rs
<1> DEFINE Hangs(r, m) == es[m] \in Ideas(es) /\ \E k \in Nat : r.parent \in Level(es[m].id, rs)[k]
           Good(n) == \A r \in seen[n] : r \in rs /\ \E m \in 1 .. n : Hangs(r, m)
           T == {n \in Nat : n <= N => Good(n)}
<1>8. Good(0)
  BY <1>7
<1>9. ASSUME NEW n \in Nat, n + 1 <= N, Good(n) PROVE Good(n + 1)
  <2> DEFINE root == es[n + 1].id
  <2>1. n + 1 \in 1 .. N /\ n + 1 \in 1 .. (n + 1) /\ 1 .. n \subseteq 1 .. (n + 1)
    BY <1>1, <1>9
  <2>2. ASSUME es[n + 1] \in Ideas(es), NEW r \in Found(root, seen[n], es)
        PROVE  r \in rs /\ Hangs(r, n + 1)
    <3> DEFINE X == Eligible(root, seen[n], es)
               C == Cardinality(rs)
    <3>1. X \in SUBSET rs /\ C \in Nat
      BY LogsAreFinite DEF Eligible, rs
    <3> HIDE DEF root
    <3>2. r \in X /\ r.parent \in Level(root, X)[C]
      BY <2>2, FoundIsReached DEF rs
    <3> HIDE DEF X, C
    <3>3. r.parent \in Level(root, rs)[C]
      BY <3>1, <3>2, LevelsWiden
    <3> QED
      BY <2>2, <3>1, <3>2, <3>3 DEF root
  <2> HIDE DEF Hangs, root
  <2>3. seen[n + 1] = seen[n] \/ (es[n + 1] \in Ideas(es) /\ seen[n + 1] = seen[n] \cup Found(root, seen[n], es))
    BY <1>7, <2>1 DEF root
  <2> QED
    BY <1>9, <2>1, <2>2, <2>3
<1> HIDE DEF Good
<1>10. Good(place - 1)
  <2>1. 0 \in T
    BY <1>8
  <2>2. ASSUME NEW n \in Nat, n \in T PROVE n + 1 \in T
    BY <2>2, <1>1, <1>9
  <2>3. place - 1 \in Nat /\ place - 1 <= N
    BY <1>1 DEF N
  <2> HIDE DEF T
  <2>4. place - 1 \in T
    BY <2>1, <2>2, <2>3, Induction
  <2> QED
    BY <2>3, <2>4 DEF T
<1> DEFINE root == es[place].id
           before == seen[place - 1]
           X0 == Eligible(root, {}, es)
           X1 == Eligible(root, before, es)
           C  == Cardinality(rs)
<1>11. X0 \in SUBSET rs /\ X1 = X0 \ before /\ C \in Nat /\ rs \in SUBSET Universe
  BY LogsAreFinite, Logs DEF Eligible, rs
<1>12. \A i \in 1 .. N : es[i] \in Ideas(es) => \A r \in rs : r.id # es[i].id
  <2>1. \A i \in 1 .. N : es[i] \in Ideas(es) => es[i].kind = "idea"
    BY DEF Ideas, Live, Of
  <2>2. \A r \in rs : r.kind = "reply"
    BY DEF rs, Replies, Live, Of
  <2> QED
    BY <1>1, <1>11, <2>1, <2>2, IdsAreUnique
<1>13. ASSUME NEW r \in X0 \ X1, NEW n \in Nat PROVE r.parent \notin Level(root, X0)[n]
  <2>1. PICK m \in 1 .. (place - 1) : Hangs(r, m)
    BY <1>10, <1>11, <1>13 DEF Good
  <2>2. PICK k \in Nat : es[m] \in Ideas(es) /\ r.parent \in Level(es[m].id, rs)[k]
    BY <2>1
  <2>3. m \in 1 .. N /\ place \in 1 .. N /\ m # place
    BY <1>1 DEF N
  <2>4. es[m].id # root
    BY <1>1, <2>3, IdsAreUnique DEF Distinct
  <2>5. (\A q \in rs : q.id # es[m].id) /\ \A q \in rs : q.id # root
    BY <1>12, <2>2, <2>3
  <2> HIDE DEF root, X0, X1
  <2>6. Level(es[m].id, rs)[k] \cap Level(root, rs)[n] = {}
    BY <1>11, <2>4, <2>5, TreesAreDisjoint
  <2>7. Level(root, X0)[n] \subseteq Level(root, rs)[n]
    BY <1>11, LevelsWiden
  <2> QED
    BY <2>2, <2>6, <2>7
<1> HIDE DEF root, X0, X1, before, C
<1>14. Level(root, X1)[C] = Level(root, X0)[C]
  BY <1>11, <1>13, OthersDoNotMatter
<1>15. {r \in X1 : r.parent \in Level(root, X1)[C]} = {r \in X0 : r.parent \in Level(root, X0)[C]}
  BY <1>11, <1>13, <1>14
<1>16. /\ Found(root, before, es) = {r \in X1 : r.parent \in Level(root, X1)[C]}
       /\ Found(root, {}, es) = {r \in X0 : r.parent \in Level(root, X0)[C]}
  BY FoundIsReached DEF X0, X1, C, rs
<1> QED
  BY <1>6, <1>15, <1>16 DEF root, before

-----------------------------------------------------------------------------
(* The feed.                                                                   *)

LEMMA BoardAndLabelsAreOfTheLive ==
  ASSUME NEW es \in Seq(Universe), NEW fs \in Seq(Universe),
         Live({"board"}, es) = Live({"board"}, fs), Live({"label"}, es) = Live({"label"}, fs),
         Live({"approval"}, es) = Live({"approval"}, fs)
  PROVE  /\ Board(es) = Board(fs)
         /\ \A ns : Labels(ns, es) = Labels(ns, fs)
         /\ Approved(es) = Approved(fs)
<1>1. Board(es) = Board(fs)
  BY BoardIsOfTheLive
<1>2. \A ns : Labels(ns, es) = Labels(ns, fs)
  BY <1>1 DEF Labels
<1>3. Approved(es) = Approved(fs)
  BY <1>1 DEF Approved
<1> QED
  BY <1>1, <1>2, <1>3

\* The ideas that have a row.
ShownBy(es) == {i \in Ideas(es) : IsApproved(i, es) /\ i.id \notin Hidden(es) /\ i.by \notin Banned(es)}

\* The feed has a row for every idea that is shown, with the idea's whole tree.
LEMMA FeedRows ==
  ASSUME NEW es \in Seq(Universe), Distinct(es)
  PROVE  Feed(es) = {Row(i, Cardinality(Found(i.id, {}, es)), es) : i \in ShownBy(es)}
<1> DEFINE places == {m \in DOMAIN es : es[m] \in ShownBy(es)}
<1>1. Feed(es) = {Row(es[n], Cardinality(Counted(n, es)), es) : n \in places}
  BY DEF Feed, ShownBy
<1>2. ASSUME NEW n \in places PROVE Counted(n, es) = Found(es[n].id, {}, es)
  <2>1. n \in 1 .. Len(es) /\ es[n] \in Ideas(es)
    BY DEF ShownBy
  <2> QED
    BY <2>1, CountedIsFound
<1>3. \A n \in places : es[n] \in ShownBy(es)
  OBVIOUS
<1>4. \A i \in ShownBy(es) : \E n \in places : es[n] = i
  <2>1. ShownBy(es) \subseteq ToSet(es)
    BY DEF ShownBy, Ideas, Live, Of
  <2> QED
    BY <2>1, Logs
<1> HIDE DEF places
<1>5. Feed(es) = {Row(es[n], Cardinality(Found(es[n].id, {}, es)), es) : n \in places}
  BY <1>1, <1>2
<1> QED
  BY <1>3, <1>4, <1>5

\* What the feed depends on.
LEMMA FeedIsOfTheLive ==
  ASSUME NEW es \in Seq(Universe), NEW fs \in Seq(Universe), Distinct(es), Distinct(fs),
         Pinned(es) = Pinned(fs), Status(es) = Status(fs), Locks(es) = Locks(fs),
         ShownBy(es) = ShownBy(fs), Replies(es) = Replies(fs),
         \A target : Votes(target, es) = Votes(target, fs)
  PROVE  Feed(es) = Feed(fs)
<1>1. \A target : Tally(target, es) = Tally(target, fs)
  BY VotesAreVotes, ArrivalOrderIsIrrelevant DEF Tally
<1>2. \A i, count : Row(i, count, es) = Row(i, count, fs)
  BY <1>1 DEF Row
<1>3. \A root : Found(root, {}, es) = Found(root, {}, fs)
  BY DEF Found
<1>4. \A i : Row(i, Cardinality(Found(i.id, {}, es)), es) = Row(i, Cardinality(Found(i.id, {}, fs)), fs)
  BY <1>2, <1>3
<1>5. /\ Feed(es) = {Row(i, Cardinality(Found(i.id, {}, es)), es) : i \in ShownBy(es)}
      /\ Feed(fs) = {Row(i, Cardinality(Found(i.id, {}, fs)), fs) : i \in ShownBy(fs)}
  BY FeedRows
<1> QED
  BY <1>4, <1>5

\* Two readers that have the same events see the same board and the same feed,
\* in whatever order the events came.
THEOREM SameEventsSameBoard ==
  ASSUME NEW es \in Seq(Universe), Distinct(es), NEW fs \in Seq(Universe), Distinct(fs),
         ToSet(es) = ToSet(fs)
  PROVE  Moderation(es) = Moderation(fs) /\ Feed(es) = Feed(fs)
<1>1. \A kinds : Of(kinds, es) = Of(kinds, fs)
  BY DEF Of
<1>2. DeletedIds(es) = DeletedIds(fs)
  BY <1>1 DEF DeletedIds
<1>3. \A kinds : Live(kinds, es) = Live(kinds, fs)
  BY <1>1, <1>2 DEF Live
<1>4. Board(es) = Board(fs) /\ (\A ns : Labels(ns, es) = Labels(ns, fs)) /\ Approved(es) = Approved(fs)
  BY <1>3, BoardAndLabelsAreOfTheLive
<1>5. /\ Moderation(es) = Moderation(fs)
      /\ Pinned(es) = Pinned(fs) /\ Hidden(es) = Hidden(fs) /\ Status(es) = Status(fs)
      /\ Locks(es) = Locks(fs) /\ Banned(es) = Banned(fs)
  BY <1>4, ModerationIsOfTheLabels
<1>6. Replies(es) = Replies(fs) /\ \A target : Votes(target, es) = Votes(target, fs)
  BY <1>3, <1>5 DEF Replies, Votes
<1>7. ShownBy(es) = ShownBy(fs)
  BY <1>3, <1>4, <1>5 DEF ShownBy, Ideas, IsApproved
<1> QED
  BY <1>5, <1>6, <1>7, FeedIsOfTheLive

\* The log without some events holds the others, each once.
LEMMA WithoutLeavesTheRest ==
  ASSUME NEW es \in Seq(Universe), Distinct(es), NEW gone
  PROVE  /\ Without(es, gone) \in Seq(Universe)
         /\ ToSet(Without(es, gone)) = ToSet(es) \ gone
         /\ Distinct(Without(es, gone))
<1> DEFINE A == Seq(Universe)
           N == Len(es)
           Turn(n, a) == IF n \in 1 .. Len(es) /\ es[n] \notin gone THEN Append(a, es[n]) ELSE a
           step == [n \in Nat |-> [a \in A |-> Turn(n, a)]]
           Body(g) == [n \in 0 .. Len(es) |->
                        IF n = 0 THEN <<>>
                        ELSE IF es[n] \in gone THEN g[n - 1] ELSE Append(g[n - 1], es[n])]
           rest == CHOOSE g : g = Body(g)
<1>1. N \in Nat /\ \A n \in 1 .. N : es[n] \in Universe
  BY Logs
<1>2. <<>> \in A
  OBVIOUS
<1>3. ASSUME NEW n \in Nat, NEW a \in A PROVE Turn(n, a) \in A
  BY <1>1
<1>4. PICK f \in [Nat -> A] : f[0] = <<>> /\ \A n \in Nat \ {0} : f[n] = Turn(n, f[n - 1])
  <2> HIDE DEF Turn, A
  <2>1. step \in Steps(A)
    BY <1>3 DEF Steps
  <2>2. \E f : Iterates(f, A, <<>>, step)
    <3> HIDE DEF step
    <3> QED
      BY <1>2, <2>1, Recursion
  <2>3. PICK f \in [Nat -> A] : f[0] = <<>> /\ \A n \in Nat \ {0} : f[n] = step[n][f[n - 1]]
    BY <2>2 DEF Iterates
  <2>4. ASSUME NEW n \in Nat \ {0} PROVE f[n] = Turn(n, f[n - 1])
    <3>1. f[n] = step[n][f[n - 1]] /\ n - 1 \in Nat
      BY <2>3
    <3>2. f[n - 1] \in A
      BY <2>3, <3>1
    <3> QED
      BY <3>1, <3>2
  <2> QED
    BY <2>3, <2>4
<1>5. rest = Body(rest)
  <2> DEFINE h == [n \in 0 .. Len(es) |-> f[n]]
  <2>1. ASSUME NEW n \in 0 .. Len(es) PROVE h[n] = Body(h)[n]
    <3>1. CASE n = 0
      BY <3>1, <1>1, <1>4
    <3>2. CASE n # 0
      <4>1. n \in Nat \ {0} /\ n - 1 \in 0 .. N /\ n \in 1 .. N
        BY <3>2, <1>1
      <4>2. h[n - 1] = f[n - 1] /\ h[n] = f[n]
        BY <4>1
      <4> HIDE DEF h
      <4>3. f[n] = IF es[n] \notin gone THEN Append(f[n - 1], es[n]) ELSE f[n - 1]
        BY <4>1, <1>4
      <4> QED
        BY <3>2, <4>1, <4>2, <4>3
    <3> QED
      BY <3>1, <3>2
  <2>2. h = Body(h)
    BY <2>1
  <2> HIDE DEF h
  <2> QED
    BY <2>2
<1>6. Without(es, gone) = rest[N]
  BY DEF Without
<1> HIDE DEF rest
<1>7. /\ rest[0] = <<>>
      /\ \A n \in Nat : n + 1 \in 1 .. N =>
           rest[n + 1] = IF es[n + 1] \in gone THEN rest[n] ELSE Append(rest[n], es[n + 1])
  <2>1. rest[0] = <<>>
    BY <1>1, <1>5
  <2>2. ASSUME NEW n \in Nat, n + 1 \in 1 .. N
        PROVE  rest[n + 1] = IF es[n + 1] \in gone THEN rest[n] ELSE Append(rest[n], es[n + 1])
    <3>1. n + 1 \in 0 .. Len(es) /\ n + 1 # 0 /\ (n + 1) - 1 = n
      BY <1>1, <2>2
    <3>2. rest[n + 1] = Body(rest)[n + 1]
      BY <1>5
    <3> QED
      BY <3>1, <3>2
  <2> QED
    BY <2>1, <2>2
<1> DEFINE S(n) == {es[m] : m \in 1 .. n} \ gone
           Good(n) == rest[n] \in Seq(Universe) /\ ToSet(rest[n]) = S(n) /\ Distinct(rest[n])
           T == {n \in Nat : n <= N => Good(n)}
<1>8. Good(0)
  <2>1. ToSet(<<>>) = {} /\ Distinct(<<>>)
    BY DEF ToSet, Distinct
  <2>2. S(0) = {} /\ <<>> \in Seq(Universe)
    OBVIOUS
  <2> QED
    BY <1>7, <2>1, <2>2
<1>9. ASSUME NEW n \in Nat, n + 1 <= N, Good(n) PROVE Good(n + 1)
  <2> DEFINE r == rest[n]
             e == es[n + 1]
  <2>1. n + 1 \in 1 .. N /\ e \in Universe
    BY <1>1, <1>9
  <2>2. r \in Seq(Universe) /\ ToSet(r) = S(n) /\ Distinct(r)
    BY <1>9
  <2>3. 1 .. (n + 1) = 1 .. n \cup {n + 1}
    BY OneMore
  <2>4. CASE e \in gone
    <3>1. S(n + 1) = S(n)
      BY <2>3, <2>4
    <3>2. rest[n + 1] = r
      BY <1>7, <2>1, <2>4
    <3> HIDE DEF S, r
    <3> QED
      BY <2>2, <3>1, <3>2
  <2>5. CASE e \notin gone
    <3>1. S(n + 1) = S(n) \cup {e}
      BY <2>3, <2>5
    <3>2. rest[n + 1] = Append(r, e)
      BY <1>7, <2>1, <2>5
    <3>3. e \notin S(n)
      <4>1. \A m \in 1 .. n : m \in DOMAIN es /\ m # n + 1 /\ n + 1 \in DOMAIN es
        <5>1. DOMAIN es = 1 .. N
          OBVIOUS
        <5> HIDE DEF N, T, Good, S
        <5> QED
          BY <5>1, <1>1, <2>1
      <4>2. \A m \in 1 .. n : es[m] # e
        <5> HIDE DEF N, Good
        <5> QED
          BY <4>1 DEF Distinct
      <4> HIDE DEF e
      <4> QED
        BY <4>2
    <3> HIDE DEF S, r, e
    <3>4. e \notin ToSet(r)
      BY <2>2, <3>3
    <3>5. /\ Append(r, e) \in Seq(Universe)
          /\ ToSet(Append(r, e)) = ToSet(r) \cup {e}
          /\ Distinct(Append(r, e))
      BY <2>1, <2>2, <3>4, AppendingTheNew
    <3> QED
      BY <2>2, <3>1, <3>2, <3>5
  <2> QED
    BY <2>4, <2>5
<1> HIDE DEF Good
<1>10. Good(N)
  <2>1. 0 \in T
    BY <1>8
  <2>2. ASSUME NEW n \in Nat, n \in T PROVE n + 1 \in T
    BY <2>2, <1>1, <1>9
  <2> HIDE DEF T
  <2>3. N \in T
    BY <2>1, <2>2, <1>1, Induction
  <2> QED
    BY <2>3, <1>1 DEF T
<1>11. S(N) = ToSet(es) \ gone
  BY Logs
<1> HIDE DEF S
<1> QED
  BY <1>6, <1>10, <1>11 DEF Good

\* The log without events that are no deletions: the others stay live or not.
LEMMA DeletionsStay ==
  ASSUME NEW es \in Seq(Universe), Distinct(es), NEW gone, \A e \in gone : e.kind # "deletion"
  PROVE  /\ Without(es, gone) \in Seq(Universe) /\ Distinct(Without(es, gone))
         /\ \A kinds : Live(kinds, Without(es, gone)) = Live(kinds, es) \ gone
<1> DEFINE fs == Without(es, gone)
<1>1. fs \in Seq(Universe) /\ Distinct(fs) /\ ToSet(fs) = ToSet(es) \ gone
  BY WithoutLeavesTheRest
<1> HIDE DEF fs
<1>2. \A e : Removed(e, fs) <=> Removed(e, es)
  BY <1>1 DEF Removed
<1>3. ASSUME NEW kinds PROVE Live(kinds, fs) = Live(kinds, es) \ gone
  <2>1. Live(kinds, fs) = {e \in ToSet(fs) : e.kind \in kinds /\ ~Removed(e, fs)}
    BY <1>1, LiveAreNotRemoved
  <2>2. Live(kinds, es) = {e \in ToSet(es) : e.kind \in kinds /\ ~Removed(e, es)}
    BY LiveAreNotRemoved
  <2> QED
    BY <1>1, <1>2, <2>1, <2>2
<1> QED
  BY <1>1, <1>3 DEF fs

\* RetractionLeavesNoTrace: deriveBoardView gives what it would if the retracted
\* boards, ideas, replies, votes and labels had never come.
THEOREM RetractionsLeaveNoTrace == Spec => []RetractionLeavesNoTrace
<1>1. ASSUME log \in Seq(Universe), Distinct(log) PROVE RetractionLeavesNoTrace
  <2> DEFINE gone == Retracted(log, {"board", "idea", "reply", "vote", "label"})
             rest == Without(log, gone)
  <2>1. \A e \in gone : e \in ToSet(log) /\ e.kind # "deletion" /\ Removed(e, log)
    BY DEF Retracted, Removed, Deletes
  <2> HIDE DEF gone
  <2>2. rest \in Seq(Universe) /\ Distinct(rest) /\ \A kinds : Live(kinds, rest) = Live(kinds, log) \ gone
    BY <1>1, <2>1, DeletionsStay
  <2> HIDE DEF rest
  <2>3. ASSUME NEW kinds PROVE Live(kinds, rest) = Live(kinds, log)
    <3>1. Live(kinds, log) \cap gone = {}
      BY <1>1, <2>1, LiveAreNotRemoved
    <3> QED
      BY <2>2, <3>1
  <2>4. Board(rest) = Board(log) /\ (\A ns : Labels(ns, rest) = Labels(ns, log)) /\ Approved(rest) = Approved(log)
    BY <1>1, <2>2, <2>3, BoardAndLabelsAreOfTheLive
  <2>5. /\ Moderation(rest) = Moderation(log)
        /\ Pinned(rest) = Pinned(log) /\ Hidden(rest) = Hidden(log) /\ Status(rest) = Status(log)
        /\ Locks(rest) = Locks(log) /\ Banned(rest) = Banned(log)
    BY <1>1, <2>2, <2>4, ModerationIsOfTheLabels
  <2>6. Replies(rest) = Replies(log) /\ \A target : Votes(target, rest) = Votes(target, log)
    BY <2>3, <2>5 DEF Replies, Votes
  <2>7. ShownBy(rest) = ShownBy(log)
    BY <2>3, <2>4, <2>5 DEF ShownBy, Ideas, IsApproved
  <2>8. Feed(rest) = Feed(log)
    BY <1>1, <2>2, <2>5, <2>6, <2>7, FeedIsOfTheLive
  <2> QED
    BY <2>5, <2>8 DEF RetractionLeavesNoTrace, rest, gone
<1>2. IInv => RetractionLeavesNoTrace
  BY <1>1 DEF IInv, TypeOK, Distinct
<1> QED
  BY <1>2, Invariant, PTL

\* BannedHaveNoVoice: the feed is the one without any idea, reply or vote of the
\* banned, in the counts and scores of others' ideas too.
THEOREM TheBannedHaveNoVoice == Spec => []BannedHaveNoVoice
<1>1. ASSUME log \in Seq(Universe), Distinct(log) PROVE BannedHaveNoVoice
  <2> DEFINE gone == {e \in ToSet(log) : e.kind \in {"idea", "reply", "vote"} /\ e.by \in Banned(log)}
             rest == Without(log, gone)
  <2>1. \A e \in gone : e.kind \in {"idea", "reply", "vote"} /\ e.kind # "deletion" /\ e.by \in Banned(log)
    OBVIOUS
  <2>2. \A e \in ToSet(log) : e.kind \in {"idea", "reply", "vote"} /\ e.by \in Banned(log) => e \in gone
    OBVIOUS
  <2> HIDE DEF gone
  <2>3. rest \in Seq(Universe) /\ Distinct(rest) /\ \A kinds : Live(kinds, rest) = Live(kinds, log) \ gone
    BY <1>1, <2>1, DeletionsStay
  <2> HIDE DEF rest
  <2>4. /\ Live({"board"}, rest) = Live({"board"}, log)
        /\ Live({"label"}, rest) = Live({"label"}, log)
        /\ Live({"approval"}, rest) = Live({"approval"}, log)
    <3>1. ASSUME NEW kind \in {"board", "label", "approval"}
          PROVE  Live({kind}, rest) = Live({kind}, log)
      <4>1. \A e \in Live({kind}, log) : e.kind = kind
        BY DEF Live, Of
      <4>2. \A e \in Live({kind}, log) : e \notin gone
        BY <2>1, <4>1
      <4> QED
        BY <2>3, <4>2
    <3> QED
      BY <3>1
  <2>5. Board(rest) = Board(log) /\ (\A ns : Labels(ns, rest) = Labels(ns, log)) /\ Approved(rest) = Approved(log)
    BY <1>1, <2>3, <2>4, BoardAndLabelsAreOfTheLive
  <2>6. /\ Pinned(rest) = Pinned(log) /\ Hidden(rest) = Hidden(log) /\ Status(rest) = Status(log)
        /\ Locks(rest) = Locks(log) /\ Banned(rest) = Banned(log)
    BY <1>1, <2>3, <2>5, ModerationIsOfTheLabels
  <2>7. \A e \in Live({"reply"}, log) : e.by \notin Banned(log) => e \notin gone
    BY <2>1
  <2>8. Replies(rest) = Replies(log)
    BY <2>1, <2>3, <2>6 DEF Replies
  <2>9. ASSUME NEW target PROVE Votes(target, rest) = Votes(target, log)
    BY <2>1, <2>3, <2>6 DEF Votes
  <2>10. ShownBy(rest) = ShownBy(log)
    BY <2>1, <2>3, <2>5, <2>6 DEF ShownBy, Ideas, IsApproved
  <2>11. Feed(log) = Feed(rest)
    BY <1>1, <2>3, <2>6, <2>8, <2>9, <2>10, FeedIsOfTheLive
  <2> QED
    BY <2>11 DEF BannedHaveNoVoice, rest, gone
<1>2. IInv => BannedHaveNoVoice
  BY <1>1 DEF IInv, TypeOK, Distinct
<1> QED
  BY <1>2, Invariant, PTL

-----------------------------------------------------------------------------
(* The idea page.                                                              *)

\* Once a level adds nothing, no later one does.
LEMMA StableLevels ==
  ASSUME NEW root, NEW rs, NEW d \in Nat, Level(root, rs)[d + 1] = Level(root, rs)[d]
  PROVE  \A n \in Nat : Level(root, rs)[n] \subseteq Level(root, rs)[d]
<1> DEFINE f == Level(root, rs)
           T == {n \in Nat : f[n] \subseteq f[d]}
<1>1. f[0] = {root} /\ \A n \in Nat : f[n + 1] = f[n] \cup Children(f[n], rs)
  BY Levels
<1>2. f[0] \subseteq f[d]
  <2>1. 0 \in Nat /\ 0 <= d
    OBVIOUS
  <2> QED
    BY <2>1, LevelsGrow
<1>3. f[d + 1] = f[d]
  OBVIOUS
<1> HIDE DEF f
<1>4. 0 \in T
  BY <1>2
<1>5. ASSUME NEW n \in Nat, n \in T PROVE n + 1 \in T
  <2>1. Children(f[n], rs) \subseteq Children(f[d], rs)
    BY <1>5 DEF Children
  <2>2. Children(f[d], rs) \subseteq f[d]
    BY <1>1, <1>3
  <2>3. f[n + 1] = f[n] \cup Children(f[n], rs) /\ f[n] \subseteq f[d]
    BY <1>1, <1>5
  <2>4. f[n + 1] \subseteq f[d]
    BY <2>1, <2>2, <2>3
  <2> QED
    BY <2>4
<1> HIDE DEF T
<1>6. \A n \in Nat : n \in T
  BY <1>4, <1>5, Induction
<1> QED
  BY <1>6 DEF T, f

\* No tree is deeper than it has replies: every level adds one, or is the last.
LEMMA LevelsSaturate ==
  ASSUME NEW root, NEW rs, IsFiniteSet(rs)
  PROVE  \A n \in Nat : Level(root, rs)[n] \subseteq Level(root, rs)[Cardinality(rs)]
<1> DEFINE f == Level(root, rs)
           C == Cardinality(rs)
           ids == {r.id : r \in rs}
           B == ids \cup {root}
<1>1. C \in Nat
  BY FS_CardinalityType
<1>2. IsFiniteSet(B) /\ Cardinality(B) \in Nat /\ Cardinality(B) <= C + 1
  <2> DEFINE id == [r \in rs |-> r.id]
  <2>1. DOMAIN id = rs /\ id = [r \in rs |-> id[r]]
    OBVIOUS
  <2>2. {id[r] : r \in rs} = ids
    OBVIOUS
  <2> HIDE DEF id
  <2>3. IsFiniteSet(ids) /\ Cardinality(ids) <= C /\ Cardinality(ids) \in Nat
    <3>1. /\ IsFiniteSet({id[r] : r \in rs})
          /\ Cardinality({id[r] : r \in rs}) <= C /\ Cardinality({id[r] : r \in rs}) \in Nat
      BY <2>1, ImagesAreFinite
    <3> QED
      BY <2>2, <3>1
  <2> HIDE DEF ids, C
  <2>4. /\ IsFiniteSet(ids \cup {root})
        /\ Cardinality(ids \cup {root}) = IF root \in ids THEN Cardinality(ids) ELSE Cardinality(ids) + 1
    BY <2>3, FS_AddElement
  <2> QED
    BY <1>1, <2>3, <2>4
<1>3. /\ \A n \in Nat : f[n] \subseteq f[n + 1]
      /\ \A n \in Nat : f[n] \subseteq B
      /\ f[0] = {root}
  BY Levels
<1>4. \A n \in Nat : IsFiniteSet(f[n]) /\ Cardinality(f[n]) \in Nat /\ Cardinality(f[n]) <= C + 1
  <2> SUFFICES ASSUME NEW n \in Nat
               PROVE  IsFiniteSet(f[n]) /\ Cardinality(f[n]) \in Nat /\ Cardinality(f[n]) <= C + 1
    OBVIOUS
  <2>1. f[n] \in SUBSET B
    BY <1>3
  <2> HIDE DEF f, B, C
  <2>2. IsFiniteSet(f[n]) /\ Cardinality(f[n]) <= Cardinality(B)
    BY <1>2, <2>1, FS_Subset
  <2>3. Cardinality(f[n]) \in Nat
    BY <2>2, FS_CardinalityType
  <2> QED
    BY <1>1, <1>2, <2>2, <2>3
<1> DEFINE T == {n \in Nat : Cardinality(f[n]) >= n + 1 \/ \E d \in Nat : d < n /\ f[d + 1] = f[d]}
<1> HIDE DEF f, B, C
<1>5. 0 \in T
  <2>1. Cardinality({root}) = 1
    BY FS_Singleton
  <2> QED
    BY <1>3, <2>1
<1>6. ASSUME NEW n \in Nat, n \in T PROVE n + 1 \in T
  <2>1. CASE \E d \in Nat : d < n /\ f[d + 1] = f[d]
    <3>1. PICK d \in Nat : d < n /\ f[d + 1] = f[d]
      BY <2>1
    <3>2. d < n + 1
      BY <3>1
    <3> QED
      BY <3>1, <3>2
  <2>2. CASE Cardinality(f[n]) >= n + 1 /\ f[n + 1] = f[n]
    <3>1. n < n + 1
      OBVIOUS
    <3> QED
      BY <2>2, <3>1
  <2>3. CASE Cardinality(f[n]) >= n + 1 /\ f[n + 1] # f[n]
    <3>1. f[n] \in SUBSET f[n + 1] /\ n + 1 \in Nat
      BY <1>3
    <3>2. /\ Cardinality(f[n]) <= Cardinality(f[n + 1])
          /\ Cardinality(f[n + 1]) = Cardinality(f[n]) => f[n + 1] = f[n]
      BY <1>4, <3>1, FS_Subset
    <3>3. Cardinality(f[n]) \in Nat /\ Cardinality(f[n + 1]) \in Nat
      BY <1>4, <3>1
    <3>4. Cardinality(f[n + 1]) >= (n + 1) + 1
      BY <2>3, <3>2, <3>3
    <3> QED
      BY <3>4
  <2> QED
    BY <1>6, <2>1, <2>2, <2>3
<1>7. PICK d \in Nat : d <= C /\ f[d + 1] = f[d]
  <2>1. C + 1 \in Nat
    BY <1>1
  <2>2. C + 1 \in T
    <3> HIDE DEF T
    <3> QED
      BY <1>5, <1>6, <2>1, Induction
  <2>3. Cardinality(f[C + 1]) \in Nat /\ Cardinality(f[C + 1]) <= C + 1
    BY <1>4, <2>1
  <2>4. ~(Cardinality(f[C + 1]) >= (C + 1) + 1)
    BY <1>1, <2>3
  <2>5. PICK d \in Nat : d < C + 1 /\ f[d + 1] = f[d]
    BY <2>2, <2>4
  <2>6. d <= C
    BY <1>1, <2>5
  <2> QED
    BY <2>5, <2>6
<1>8. \A n \in Nat : f[n] \subseteq f[d]
  BY <1>7, StableLevels DEF f
<1>9. f[d] \subseteq f[C]
  BY <1>1, <1>7, LevelsGrow DEF f
<1> QED
  BY <1>8, <1>9 DEF f, C

\* A reply has one parent, so it has one depth.
LEMMA OneDepth ==
  ASSUME NEW root, NEW ts \in SUBSET Universe, NEW rs \in SUBSET ts, NEW d \in Nat
  PROVE  \A n \in Nat : Level(root, rs)[d] \cap Level(root, ts)[n] \subseteq Level(root, rs)[n]
<1> DEFINE f == Level(root, rs)
           g == Level(root, ts)
           T == {n \in Nat : f[d] \cap g[n] \subseteq f[n]}
<1>1. f[0] = {root} /\ \A n \in Nat : f[n + 1] = f[n] \cup Children(f[n], rs)
  BY Levels
<1>2. g[0] = {root} /\ \A n \in Nat : g[n + 1] = g[n] \cup Children(g[n], ts)
  BY Levels
<1>3. ASSUME NEW x \in f[d] PROVE x = root \/ \E r \in rs : r.id = x /\ r.parent \in f[d]
  BY <1>3, ReachedFromReached
<1>4. \A n \in Nat : root \in f[n]
  <2>1. ASSUME NEW n \in Nat PROVE f[0] \subseteq f[n]
    <3>1. 0 \in Nat /\ 0 <= n
      OBVIOUS
    <3> QED
      BY <3>1, LevelsGrow
  <2> QED
    BY <1>1, <2>1
<1> HIDE DEF f, g
<1>5. 0 \in T
  BY <1>1, <1>2
<1>6. ASSUME NEW n \in Nat, n \in T PROVE n + 1 \in T
  <2> SUFFICES ASSUME NEW x \in f[d], x \in g[n + 1] PROVE x \in f[n + 1]
    OBVIOUS
  <2>1. CASE x \in g[n]
    BY <1>1, <1>6, <2>1
  <2>2. CASE x = root
    BY <1>4, <2>2
  <2>3. CASE x \notin g[n] /\ x # root
    <3>1. PICK r \in ts : r.id = x /\ r.parent \in g[n]
      BY <1>2, <2>3 DEF Children
    <3>2. PICK q \in rs : q.id = x /\ q.parent \in f[d]
      BY <1>3, <2>3
    <3>3. q = r
      BY <3>1, <3>2, IdsAreUnique
    <3>4. q.parent \in f[n]
      BY <1>6, <3>1, <3>2, <3>3
    <3> QED
      BY <1>1, <3>2, <3>4 DEF Children
  <2> QED
    BY <2>1, <2>2, <2>3
<1> HIDE DEF T
<1>7. \A n \in Nat : n \in T
  BY <1>5, <1>6, Induction
<1> QED
  BY <1>7 DEF T, f, g

\* A lock has a time.
LEMMA LocksAreDated ==
  ASSUME NEW es \in Seq(Universe), NEW k \in DOMAIN Locks(es)
  PROVE  Locks(es)[k] \in Int
<1>1. k \in DOMAIN Latest("lock", es) /\ Locks(es)[k] = Latest("lock", es)[k].at
  BY DEF Locks
<1>2. Latest("lock", es)[k] \in Labels("lock", es)
  BY <1>1, LatestIsNewest
<1> QED
  BY <1>1, <1>2, LabelsAreLabels, Logs, EventsAreDated

\* Where no thread is cut, the tree that is built and pruned is the one that is counted.
LEMMA ThreadIsFound ==
  ASSUME NEW es \in Seq(Universe), NEW root,
         Below(root, Replies(es), MaxDepth + 1) = Below(root, Replies(es), MaxDepth)
  PROVE  Thread(root, es) = Found(root, {}, es)
<1> DEFINE R == Replies(es)
           C == Cardinality(R)
           X == Eligible(root, {}, es)
           g == Level(root, R)
           t == Level(root, X)
           tree == {r \in R : r.parent \in g[MaxDepth - 1]}
           U == {r \in tree : r \in X}
           u == Level(root, U)
           M == MaxDepth
<1>1. M \in Nat \ {0} /\ M - 1 \in Nat /\ M + 1 \in Nat \ {0} /\ (M + 1) - 1 = M /\ (M - 1) + 1 = M
  BY BoundsAssumption
<1>2. R \in SUBSET Universe /\ IsFiniteSet(R) /\ C \in Nat
  BY LogsAreFinite, Logs
<1>3. X \in SUBSET R /\ U \in SUBSET X
  BY DEF Eligible
<1>4. Below(root, R, M) = tree /\ Below(root, R, M + 1) = {r \in R : r.parent \in g[M]}
  BY <1>1, BelowIsReached
<1>5. \A r \in R : r.parent \in g[M] <=> r.parent \in g[M - 1]
  BY <1>4
<1>6. \A n \in Nat : g[n + 1] = g[n] \cup Children(g[n], R)
  BY Levels
<1>7. \A n \in Nat : g[n] \subseteq g[M]
  <2>1. {r \in R : r.parent \in g[M]} = {r \in R : r.parent \in g[M - 1]}
    BY <1>5
  <2>2. Children(g[M], R) = Children(g[M - 1], R)
    BY <2>1 DEF Children
  <2>3. g[M] = g[M - 1] \cup Children(g[M - 1], R) /\ g[M + 1] = g[M] \cup Children(g[M], R)
    BY <1>1, <1>6
  <2>4. g[M + 1] = g[M]
    BY <2>2, <2>3
  <2> QED
    BY <1>1, <2>4, StableLevels
<1>8. Thread(root, es) = {r \in U : r.parent \in u[M - 1]}
  <2> DEFINE late(r) == root \in DOMAIN Locks(es) /\ r.at > Locks(es)[root]
  <2>1. \A r \in R : r \in X <=> ~late(r)
    <3>1. \A r \in R : r.at \in Int
      BY <1>2, EventsAreDated
    <3>2. root \in DOMAIN Locks(es) => Locks(es)[root] \in Int
      BY LocksAreDated
    <3> QED
      BY <3>1, <3>2 DEF Eligible, InTime
  <2>2. {r \in tree : ~late(r)} = U
    BY <2>1
  <2>3. Thread(root, es) = Below(root, {r \in Below(root, R, M) : ~late(r)}, M)
    BY DEF Thread
  <2> HIDE DEF late, tree, U, R, M
  <2>4. Thread(root, es) = Below(root, U, M)
    BY <1>4, <2>2, <2>3
  <2> QED
    BY <1>1, <2>4, BelowIsReached
<1>9. Found(root, {}, es) = {r \in X : r.parent \in t[C]}
  BY FoundIsReached
<1>10. \A n \in Nat : t[n] \subseteq g[n]
  BY <1>3, LevelsWiden
<1>11. \A n \in Nat : u[n] \subseteq t[n]
  BY <1>3, LevelsWiden
<1>12. t[0] = {root} /\ u[0] = {root}
       /\ \A n \in Nat : t[n + 1] = t[n] \cup Children(t[n], X) /\ u[n + 1] = u[n] \cup Children(u[n], U)
  BY Levels
<1>13. \A n \in Nat : n <= M - 1 => g[n] \subseteq g[M - 1]
  BY <1>1, LevelsGrow
<1> DEFINE T == {n \in Nat : n <= M - 1 => t[n] \subseteq u[n]}
<1> HIDE DEF M, g, t, u, X, R, C
<1>14. 0 \in T
  BY <1>12
<1>15. ASSUME NEW n \in Nat, n \in T PROVE n + 1 \in T
  <2> SUFFICES ASSUME n + 1 <= M - 1 PROVE t[n + 1] \subseteq u[n + 1]
    OBVIOUS
  <2>1. n <= M - 1
    BY <1>1
  <2>2. t[n] \subseteq u[n] /\ t[n] \subseteq g[M - 1]
    BY <1>10, <1>13, <1>15, <2>1
  <2>3. {r \in X : r.parent \in t[n]} \subseteq {r \in U : r.parent \in u[n]}
    BY <1>3, <2>2 DEF M
  <2>4. Children(t[n], X) \subseteq Children(u[n], U)
    BY <2>3 DEF Children
  <2> QED
    BY <1>12, <2>2, <2>4
<1>16. t[M - 1] \subseteq u[M - 1]
  <2> HIDE DEF T
  <2>1. M - 1 \in T
    BY <1>1, <1>14, <1>15, Induction
  <2> QED
    BY <1>1, <2>1 DEF T
<1>17. t[M - 1] \subseteq t[C]
  <2>1. IsFiniteSet(X) /\ Cardinality(X) <= C /\ Cardinality(X) \in Nat
    BY <1>2, <1>3, FS_Subset, FS_CardinalityType DEF C
  <2>2. t[M - 1] \subseteq t[Cardinality(X)]
    BY <1>1, <2>1, LevelsSaturate DEF t
  <2>3. t[Cardinality(X)] \subseteq t[C]
    BY <1>2, <2>1, LevelsGrow DEF t
  <2> QED
    BY <2>2, <2>3
<1>18. t[C] \cap g[M - 1] \subseteq t[M - 1]
  BY <1>1, <1>2, <1>3, OneDepth DEF t, g
<1>19. ASSUME NEW r \in X, r.parent \in t[C] PROVE r \in U /\ r.parent \in u[M - 1]
  <2>1. r \in R /\ r.parent \in g[M]
    BY <1>2, <1>3, <1>7, <1>10, <1>19
  <2>2. r.parent \in g[M - 1]
    BY <1>5, <2>1
  <2>3. r \in U
    BY <2>1, <2>2 DEF M
  <2>4. r.parent \in u[M - 1]
    BY <1>16, <1>18, <1>19, <2>2
  <2> QED
    BY <2>3, <2>4
<1>20. ASSUME NEW r \in U, r.parent \in u[M - 1] PROVE r \in X /\ r.parent \in t[C]
  BY <1>1, <1>3, <1>11, <1>17, <1>20
<1> HIDE DEF U
<1> QED
  BY <1>8, <1>9, <1>19, <1>20

\* FeedAgreesWithIdeaPage: replyCountsByRoot, one pass over all ideas that shares
\* what it has seen, counts what buildThread builds and pruneThread leaves.
THEOREM TheFeedAgreesWithTheIdeaPage == Spec => []FeedAgreesWithIdeaPage
<1>1. ASSUME log \in Seq(Universe), Distinct(log), NEW row \in Feed(log),
             Below(row.id, Replies(log), MaxDepth + 1) = Below(row.id, Replies(log), MaxDepth)
      PROVE  row.replies = Cardinality(Thread(row.id, log))
  <2>1. Feed(log) = {Row(i, Cardinality(Found(i.id, {}, log)), log) : i \in ShownBy(log)}
    BY <1>1, FeedRows
  <2>2. PICK i : row = Row(i, Cardinality(Found(i.id, {}, log)), log)
    BY <1>1, <2>1
  <2>3. row.id = i.id /\ row.replies = Cardinality(Found(i.id, {}, log))
    BY <2>2 DEF Row
  <2>4. Thread(row.id, log) = Found(row.id, {}, log)
    BY <1>1, ThreadIsFound
  <2> QED
    BY <2>3, <2>4
<1>2. IInv => FeedAgreesWithIdeaPage
  BY <1>1 DEF IInv, TypeOK, Distinct, FeedAgreesWithIdeaPage
<1> QED
  BY <1>2, Invariant, PTL

-----------------------------------------------------------------------------
(* Zaps. What the loop of zapTotalsByTarget leaves, and what the totals are    *)
(* then.                                                                       *)

\* won holds a receipt of every payment that those of V are about.
OnePerPayment(won, V) ==
  /\ won \in [{r.invoice.hash : r \in V} -> V]
  /\ \A h \in DOMAIN won : won[h].invoice.hash = h

\* A turn of the loop takes in its receipt.
LEMMA KeepEarliestKeeps ==
  ASSUME NEW V, NEW won, OnePerPayment(won, V), NEW r
  PROVE  OnePerPayment(KeepEarliest(won, r), V \cup {r})
<1> DEFINE hash == r.invoice.hash
           more == [h \in DOMAIN won \cup {hash} |-> IF h = hash THEN r ELSE won[h]]
<1>1. /\ won \in [{s.invoice.hash : s \in V} -> V]
      /\ \A h \in DOMAIN won : won[h] \in V /\ won[h].invoice.hash = h
  BY DEF OnePerPayment
<1>2. {s.invoice.hash : s \in V \cup {r}} = DOMAIN won \cup {hash}
  BY <1>1
<1>3. CASE hash \in DOMAIN won /\ ~Earlier(r, won[hash])
  <2>1. KeepEarliest(won, r) = won
    BY <1>3 DEF KeepEarliest
  <2>2. won \in [{s.invoice.hash : s \in V \cup {r}} -> V \cup {r}]
    BY <1>1, <1>2, <1>3
  <2> QED
    BY <1>1, <2>1, <2>2 DEF OnePerPayment
<1>4. CASE ~(hash \in DOMAIN won /\ ~Earlier(r, won[hash]))
  <2>1. KeepEarliest(won, r) = more
    BY <1>4 DEF KeepEarliest
  <2>2. more \in [DOMAIN won \cup {hash} -> V \cup {r}]
    BY <1>1
  <2>3. \A h \in DOMAIN more : more[h].invoice.hash = h
    BY <1>1
  <2> HIDE DEF more, hash
  <2> QED
    BY <1>2, <2>1, <2>2, <2>3 DEF OnePerPayment
<1> QED
  BY <1>3, <1>4

\* The whole loop takes in every receipt that counts, one per payment.
LEMMA WinnersAreOnePerPayment ==
  ASSUME NEW R, NEW es \in Seq(R), NEW counted
  PROVE  OnePerPayment(Winners(es, counted), ToSet(es) \cap counted)
<1> DEFINE A == UNION {[D -> R] : D \in SUBSET {r.invoice.hash : r \in R}}
           Turn(n, a) == IF n \in 1 .. Len(es) /\ es[n] \in counted
                         THEN KeepEarliest(a, es[n]) ELSE a
           step == [n \in Nat |-> [a \in A |-> Turn(n, a)]]
           N == Len(es)
           Body(g) == [n \in 0 .. Len(es) |->
                        IF n = 0 THEN <<>>
                        ELSE IF es[n] \in counted THEN KeepEarliest(g[n - 1], es[n])
                        ELSE g[n - 1]]
           won == CHOOSE g : g = Body(g)
<1>1. N \in Nat /\ \A n \in 1 .. N : es[n] \in R
  BY Lists
<1>2. <<>> \in A
  <2>1. <<>> \in [{} -> R]
    OBVIOUS
  <2> QED
    BY <2>1
<1>3. ASSUME NEW n \in Nat, NEW a \in A PROVE Turn(n, a) \in A
  <2> SUFFICES ASSUME n \in 1 .. N PROVE KeepEarliest(a, es[n]) \in A
    OBVIOUS
  <2>1. PICK D \in SUBSET {r.invoice.hash : r \in R} : a \in [D -> R]
    OBVIOUS
  <2>2. es[n] \in R
    BY <1>1
  <2> DEFINE E == D \cup {es[n].invoice.hash}
  <2>3. E \in SUBSET {r.invoice.hash : r \in R}
    BY <2>2
  <2>4. KeepEarliest(a, es[n]) \in [D -> R] \cup [E -> R]
    BY <2>1, <2>2 DEF KeepEarliest
  <2> QED
    BY <2>1, <2>3, <2>4
<1>4. PICK f \in [Nat -> A] : f[0] = <<>> /\ \A n \in Nat \ {0} : f[n] = Turn(n, f[n - 1])
  <2> HIDE DEF Turn, A
  <2>1. step \in Steps(A)
    BY <1>3 DEF Steps
  <2>2. \E f : Iterates(f, A, <<>>, step)
    <3> HIDE DEF step
    <3> QED
      BY <1>2, <2>1, Recursion
  <2>3. PICK f \in [Nat -> A] : f[0] = <<>> /\ \A n \in Nat \ {0} : f[n] = step[n][f[n - 1]]
    BY <2>2 DEF Iterates
  <2>4. ASSUME NEW n \in Nat \ {0} PROVE f[n] = Turn(n, f[n - 1])
    <3>1. f[n] = step[n][f[n - 1]] /\ n - 1 \in Nat
      BY <2>3
    <3>2. f[n - 1] \in A
      BY <2>3, <3>1
    <3> QED
      BY <3>1, <3>2
  <2> QED
    BY <2>3, <2>4
<1>5. won = Body(won)
  <2> DEFINE h == [n \in 0 .. Len(es) |-> f[n]]
  <2>1. ASSUME NEW n \in 0 .. Len(es) PROVE h[n] = Body(h)[n]
    BY <1>1, <1>4
  <2>2. h = Body(h)
    BY <2>1
  <2> HIDE DEF h
  <2> QED
    BY <2>2
<1>6. Winners(es, counted) = won[N]
  BY DEF Winners
<1> HIDE DEF won
<1>7. /\ won[0] = <<>>
      /\ \A n \in Nat : n + 1 \in 1 .. N =>
           won[n + 1] = IF es[n + 1] \in counted THEN KeepEarliest(won[n], es[n + 1]) ELSE won[n]
  BY <1>1, <1>5
<1> DEFINE S(n) == {es[m] : m \in 1 .. n} \cap counted
           T == {n \in Nat : n <= N => OnePerPayment(won[n], S(n))}
<1>8. 0 \in T
  <2>1. S(0) = {} /\ <<>> \in [{} -> {}]
    OBVIOUS
  <2>2. {r.invoice.hash : r \in {}} = {}
    OBVIOUS
  <2>3. OnePerPayment(<<>>, {})
    BY <2>1, <2>2 DEF OnePerPayment
  <2> QED
    BY <1>7, <2>1, <2>3
<1>9. ASSUME NEW n \in Nat, n \in T PROVE n + 1 \in T
  <2> SUFFICES ASSUME n + 1 <= N PROVE OnePerPayment(won[n + 1], S(n + 1))
    OBVIOUS
  <2>1. n + 1 \in 1 .. N
    BY <1>1
  <2>2. OnePerPayment(won[n], S(n))
    BY <1>1, <1>9
  <2>3. 1 .. (n + 1) = 1 .. n \cup {n + 1}
    OBVIOUS
  <2>4. CASE es[n + 1] \in counted
    <3>1. S(n + 1) = S(n) \cup {es[n + 1]}
      BY <2>3, <2>4
    <3> HIDE DEF S
    <3> QED
      BY <3>1, <2>1, <2>2, <2>4, <1>7, KeepEarliestKeeps
  <2>5. CASE es[n + 1] \notin counted
    <3>1. S(n + 1) = S(n)
      BY <2>3, <2>5
    <3> QED
      BY <3>1, <2>1, <2>2, <2>5, <1>7
  <2> QED
    BY <2>4, <2>5
<1>10. N \in T
  <2> HIDE DEF T
  <2> QED
    BY <1>1, <1>8, <1>9, Induction
<1>11. S(N) = ToSet(es) \cap counted
  BY Lists
<1>12. OnePerPayment(won[N], S(N))
  BY <1>10
<1> HIDE DEF S
<1> QED
  BY <1>6, <1>11, <1>12

\* Nothing sums to nothing.
LEMMA SumOfNothing ==
  ASSUME NEW f, DOMAIN f = {}
  PROVE  SumFunction(f) = 0
<1> DEFINE Body(g) == [s \in SUBSET {} |-> IF s = {} THEN 0
                         ELSE f[CHOOSE x \in s : TRUE] + g[s \ {CHOOSE x \in s : TRUE}]]
           iter == CHOOSE g : g = Body(g)
<1>1. SumFunction(f) = iter[{}]
  BY DEF SumFunction, SumFunctionOnSet, FoldFunctionOnSet, MapThenFoldSet
<1>2. iter = Body(iter)
  <2> DEFINE h == [s \in SUBSET {} |-> 0]
  <2>1. h = Body(h)
    OBVIOUS
  <2> HIDE DEF h
  <2> QED
    BY <2>1
<1> HIDE DEF iter
<1> QED
  BY <1>1, <1>2

-----------------------------------------------------------------------------
(* The invariant of Zaps.                                                      *)

\* The effect's runs.
Pendings ==
  UNION {[D -> {"resolve", "profile", "flight", "found", "missing"}] : D \in SUBSET Authors}
Runs ==
  [key : [who : SUBSET Authors, known : SUBSET Authors], phase : {"busy", "waiting", "over"},
   attempt : 0 .. MaxAttempts, timer : 0 .. MaxDelay, have : SUBSET Authors, pending : Pendings]

\* What is amiss in ZapsTypeOK to know every variable's type.
Shapes ==
  /\ run \in Runs
  /\ relays = [receipts |-> relays.receipts, dels |-> relays.dels]
  /\ buf \in Seq(relays.receipts) /\ events \in Seq(relays.receipts)
  /\ IsFiniteSet(dels)

\* A zap's amount is one that its provider takes.
Payable(z) ==
  zaps[z].msat \in Provider[Author[Target[z]]].min .. Provider[Author[Target[z]]].max

HasInvoice(z) == zaps[z].stage \in {"paying", "over"} /\ Payable(z)

\* What is paid, by the wallet or by hand, was invoiced, and for an amount that
\* its provider takes.
PaidWasInvoiced ==
  /\ \A z \in paid \cup ({dialog.pr} \ {NoZap}) : HasInvoice(z)
  /\ \A z \in Mine : zaps[z].stage \in {"calling", "paying"} => Payable(z)

\* The receipts on the relays are forged or of a payment.
ReceiptsAreOfPayments ==
  \A r \in relays.receipts \ Forgeries : \E z \in paid, n \in 1 .. Copies : r = ReceiptOf(z, n)

\* The page's receipts are those of a buffer that is not empty, and what is
\* hidden is what retractions that hide anything hide.
LastIsKept ==
  /\ buf # <<>> => events = buf
  /\ HiddenBy(dels, events) # {} => hidden = HiddenBy(dels, events)

ZapsIInv == ZapsTypeOK /\ Shapes /\ PaidWasInvoiced /\ ReceiptsAreOfPayments /\ LastIsKept

\* What the constants are.
LEMMA ZapConstants ==
  /\ Mine \cup Others \subseteq Nat \ {0} /\ Mine \cap Others = {}
  /\ NoZap = 0 /\ NoZap \notin Mine \cup Others
  /\ Amounts \subseteq Nat \ {0} /\ Copies \in Nat \ {0}
  /\ MaxAttempts \in Nat /\ MaxDelay \in Nat \ {0} /\ FetchTime \in Nat
  /\ NegTTL \in Nat \ {0} /\ MaxOutage \in Nat /\ MaxFaults \in Nat
BY PageAssumption, TimesAssumption DEF NoZap

\* Whom a zap goes to.
LEMMA TargetsHaveAuthors ==
  ASSUME NEW z \in Mine \cup Others
  PROVE  /\ Target[z] \in DOMAIN Author /\ Author[Target[z]] \in Authors
         /\ Provider[Author[Target[z]]] \in Metas
BY PageAssumption DEF Authors

-----------------------------------------------------------------------------
(* Which steps change what.                                                    *)

LEMMA StepsOfUser ==
  ASSUME [ZapsNext]_vars
  PROVE  \/ UNCHANGED user
         \/ \E a \in Authors : FlightEnds(a)
         \/ OpenDialog \/ CloseDialog \/ PayByHand
         \/ \E z \in Mine : ClickZap(z) \/ Invoiced(z) \/ WalletSettles(z)
BY DEF ZapsNext, vars, Clock, Profiles, Delivery, Tick, RetryFires, OutageEnds, LookUp, FetchProfile,
       ProfileArrives, Deliver, DeliverRetraction, PublishReceipt, Retract, Expire, Blink, OutageBegins

LEMMA StepsOfRelays ==
  ASSUME [ZapsNext]_vars
  PROVE  \/ UNCHANGED relays
         \/ \E z \in Mine \cup Others, n \in 1 .. Copies : PublishReceipt(z, n)
         \/ \E r \in relays.receipts : Retract(r)
BY DEF ZapsNext, vars, Clock, Profiles, Delivery, Tick, RetryFires, OutageEnds, LookUp, FlightEnds,
       FetchProfile, ProfileArrives, Deliver, DeliverRetraction, OpenDialog, CloseDialog, PayByHand,
       ClickZap, Invoiced, WalletSettles, Expire, Blink, OutageBegins

LEMMA StepsOfPage ==
  ASSUME [ZapsNext]_vars
  PROVE  \/ UNCHANGED page
         \/ \E r \in relays.receipts : Deliver(r)
         \/ \E d \in relays.dels : DeliverRetraction(d)
         \/ Blink
BY DEF ZapsNext, vars, Clock, Profiles, Delivery, Tick, RetryFires, OutageEnds, LookUp, FlightEnds,
       FetchProfile, ProfileArrives, OpenDialog, CloseDialog, PayByHand, ClickZap, Invoiced,
       WalletSettles, PublishReceipt, Retract, Expire, OutageBegins

\* Of the hook, the effect's run and the anchors.
LEMMA StepsOfHook ==
  ASSUME [ZapsNext]_vars
  PROVE  \/ UNCHANGED hook
         \/ EffectRuns /\ UNCHANGED anchors
         \/ \E a \in Authors : LookUp(a) \/ FetchProfile(a) \/ FlightEnds(a)
         \/ RetryFires \/ Tick
BY DEF ZapsNext, vars, Clock, Profiles, Delivery, OutageEnds, ProfileArrives, Deliver,
       DeliverRetraction, OpenDialog, CloseDialog, PayByHand, ClickZap, Invoiced,
       WalletSettles, PublishReceipt, Retract, Expire, Blink, OutageBegins

LEMMA StepsOfLnurl ==
  ASSUME [ZapsNext]_vars
  PROVE  \/ UNCHANGED lnurl
         \/ UNCHANGED cache /\ \E a \in Authors : Ask(a)
         \/ \E a \in Authors : FlightEnds(a) \/ Expire(a)
         \/ OutageBegins \/ Tick
<1> USE DEF lnurl
<1>1. CASE \E z \in Mine : ClickZap(z)
  <2>1. PICK z \in Mine : ClickZap(z)
    BY <1>1
  <2>2. UNCHANGED cache /\ Ask(Author[Target[z]])
    BY <2>1 DEF ClickZap
  <2> QED
    BY <2>2, TargetsHaveAuthors
<1>2. CASE \E a \in Authors : LookUp(a) \/ FetchProfile(a)
  <2>1. PICK a \in Authors : LookUp(a) \/ FetchProfile(a)
    BY <1>2
  <2>2. UNCHANGED cache /\ (Ask(a) \/ UNCHANGED flight)
    BY <2>1 DEF LookUp, FetchProfile, HookAsks
  <2> QED
    BY <2>2
<1>3. CASE \/ UNCHANGED vars \/ Tick \/ RetryFires \/ OutageEnds \/ \E a \in Authors : FlightEnds(a)
           \/ \E a \in Authors : ProfileArrives(a)
           \/ Delivery(relays.receipts, relays.dels)
           \/ OpenDialog \/ CloseDialog \/ PayByHand
           \/ \E z \in Mine : Invoiced(z) \/ WalletSettles(z)
           \/ \E z \in Mine \cup Others, n \in 1 .. Copies : PublishReceipt(z, n)
           \/ \E r \in relays.receipts : Retract(r)
           \/ \E a \in Authors : Expire(a)
           \/ Blink \/ OutageBegins
  BY <1>3 DEF vars, Delivery, RetryFires, OutageEnds, ProfileArrives, Deliver,
       DeliverRetraction, OpenDialog, CloseDialog, PayByHand, Invoiced, WalletSettles,
       PublishReceipt, Retract, Blink
<1> QED
  BY <1>1, <1>2, <1>3 DEF ZapsNext, Clock, Profiles

\* Of the rest, the addresses known, the outage and the disturbances.
LEMMA StepsOfTheRest ==
  ASSUME [ZapsNext]_vars
  PROVE  /\ UNCHANGED lud16 \/ \E a \in Authors : lud16' = lud16 \cup {a}
         /\ UNCHANGED faults \/ Disturbs
         /\ UNCHANGED outage \/ OutageBegins \/ OutageEnds \/ Tick
BY DEF ZapsNext, vars, Clock, Profiles, Delivery, Tick, RetryFires, OutageBegins, OutageEnds, LookUp,
       FlightEnds, FetchProfile, ProfileArrives, Deliver, DeliverRetraction, OpenDialog, CloseDialog,
       PayByHand, ClickZap, Invoiced, WalletSettles, PublishReceipt, Retract, Expire, Blink

-----------------------------------------------------------------------------
(* The runs of the effect.                                                     *)

LEMMA StartedRuns ==
  ASSUME NEW key \in [who : SUBSET Authors, known : SUBSET Authors],
         NEW attempt \in 0 .. MaxAttempts, NEW have \in SUBSET Authors
  PROVE  Start(key, attempt, have) \in Runs /\ Start(key, attempt, have).have = have
<1> DEFINE missing == key.who \ have
           pending == [a \in missing |-> IF a \in key.known THEN "resolve" ELSE "profile"]
<1>1. missing \in SUBSET Authors
  OBVIOUS
<1>2. pending \in [missing -> {"resolve", "profile", "flight", "found", "missing"}]
  OBVIOUS
<1>3. pending \in Pendings
  BY <1>1, <1>2 DEF Pendings
<1>4. 0 \in 0 .. MaxDelay
  BY ZapConstants
<1> HIDE DEF pending
<1>5. Start(key, attempt, have) =
        [key |-> key, phase |-> IF missing = {} THEN "over" ELSE "busy", attempt |-> attempt,
         timer |-> 0, have |-> have, pending |-> pending]
  BY DEF Start, pending
<1> QED
  BY <1>3, <1>4, <1>5 DEF Runs

LEMMA PendingsChange ==
  ASSUME NEW r \in Runs, NEW a \in DOMAIN r.pending,
         NEW s \in {"resolve", "profile", "flight", "found", "missing"}
  PROVE  [r EXCEPT !.pending[a] = s] \in Runs
<1>1. PICK D \in SUBSET Authors :
        r.pending \in [D -> {"resolve", "profile", "flight", "found", "missing"}]
  BY DEF Runs, Pendings
<1> DEFINE pending == [r.pending EXCEPT ![a] = s]
<1>2. pending \in [D -> {"resolve", "profile", "flight", "found", "missing"}]
  BY <1>1
<1>3. pending \in Pendings
  BY <1>2 DEF Pendings
<1>4. [r EXCEPT !.pending[a] = s] = [r EXCEPT !.pending = pending]
  BY DEF Runs
<1> HIDE DEF pending
<1> QED
  BY <1>3, <1>4 DEF Runs

LEMMA RunsGoOn ==
  ASSUME NEW r \in Runs
  PROVE  AfterLookups(r) \in Runs
<1> DEFINE have == r.have \cup {a \in DOMAIN r.pending : r.pending[a] = "found"}
<1>1. DOMAIN r.pending \subseteq Authors
  BY DEF Runs, Pendings
<1>2. have \in SUBSET Authors
  BY <1>1 DEF Runs
<1>3. <<>> \in Pendings
  <2>1. <<>> \in [{} -> {"resolve", "profile", "flight", "found", "missing"}]
    OBVIOUS
  <2> QED
    BY <2>1 DEF Pendings
<1>4. CASE r.key.who \subseteq have \/ ~MoreAttempts(r.attempt)
  <2>1. AfterLookups(r) = [r EXCEPT !.phase = "over", !.have = have, !.pending = <<>>]
    BY <1>4 DEF AfterLookups
  <2> HIDE DEF have
  <2> QED
    BY <1>2, <1>3, <2>1 DEF Runs
<1>5. CASE ~(r.key.who \subseteq have \/ ~MoreAttempts(r.attempt))
  <2>1. AfterLookups(r) = [r EXCEPT !.phase = "waiting", !.have = have, !.pending = <<>>,
                                    !.attempt = r.attempt + 1, !.timer = Delay(r.attempt + 1)]
    BY <1>5 DEF AfterLookups
  <2>2. r.attempt + 1 \in 0 .. MaxAttempts /\ Delay(r.attempt + 1) \in 0 .. MaxDelay
    BY <1>5, ZapConstants DEF Runs, MoreAttempts, Delay
  <2> HIDE DEF have
  <2> QED
    BY <1>2, <1>3, <2>1, <2>2 DEF Runs
<1> QED
  BY <1>4, <1>5

LEMMA RunsEnd ==
  ASSUME NEW r \in Runs, NEW a \in DOMAIN r.pending, NEW found \in BOOLEAN
  PROVE  Ended(r, a, found) \in Runs
<1> DEFINE next == [r EXCEPT !.pending[a] = IF found THEN "found" ELSE "missing"]
<1>1. next \in Runs
  BY PendingsChange
<1>2. Ended(r, a, found) \in {AfterLookups(next), next}
  BY DEF Ended
<1> HIDE DEF next
<1> QED
  BY <1>1, <1>2, RunsGoOn

-----------------------------------------------------------------------------
(* Every step keeps the invariant, part by part.                               *)

\* The hook's run is one, and anchors are never dropped.
LEMMA HookIsKept ==
  ASSUME ZapsIInv, [ZapsNext]_vars
  PROVE  /\ run' \in Runs /\ (run.have \subseteq anchors)'
         /\ anchors' \subseteq Authors /\ anchors \subseteq anchors'
<1>1. run \in Runs /\ run.have \subseteq anchors /\ anchors \subseteq Authors
  BY DEF ZapsIInv, ZapsTypeOK, Shapes
<1>2. \A r \in Runs : r.have \subseteq Authors /\ DOMAIN r.pending \subseteq Authors
  BY DEF Runs, Pendings
<1>3. ASSUME run' \in Runs, Merge
      PROVE  /\ run' \in Runs /\ (run.have \subseteq anchors)'
             /\ anchors' \subseteq Authors /\ anchors \subseteq anchors'
  BY <1>1, <1>2, <1>3 DEF Merge
<1>4. CASE UNCHANGED hook
  BY <1>1, <1>4 DEF hook
<1>5. CASE EffectRuns /\ UNCHANGED anchors
  <2>1. CASE run' = run
    BY <1>1, <1>5, <2>1
  <2>2. CASE run' = Start(EffectKey', 0, anchors)
    <3>1. Recipients' \subseteq Authors
      BY DEF Recipients, Authors
    <3>2. EffectKey' \in [who : SUBSET Authors, known : SUBSET Authors]
      BY <3>1 DEF EffectKey
    <3>3. 0 \in 0 .. MaxAttempts
      BY ZapConstants
    <3>4. run' \in Runs /\ run'.have = anchors
      BY <1>1, <2>2, <3>2, <3>3, StartedRuns
    <3> QED
      BY <1>1, <1>5, <3>4
  <2> QED
    BY <1>5, <2>1, <2>2 DEF EffectRuns
<1>6. ASSUME NEW a \in Authors, LookUp(a) PROVE run' \in Runs /\ Merge
  <2>1. a \in DOMAIN run.pending /\ HookAsks(a, run)
    BY <1>6 DEF LookUp
  <2>2. Ended(run, a, cache[a].answer = "meta") \in Runs
    BY <1>1, <2>1, RunsEnd
  <2>3. [run EXCEPT !.pending[a] = "flight"] \in Runs
    BY <1>1, <2>1, PendingsChange
  <2> QED
    BY <2>1, <2>2, <2>3 DEF HookAsks
<1>7. ASSUME NEW a \in Authors, FetchProfile(a) PROVE run' \in Runs /\ Merge
  <2>1. /\ a \in DOMAIN run.pending
        /\ HookAsks(a, run) \/ (run' = Ended(run, a, FALSE) /\ Merge)
    BY <1>7 DEF FetchProfile
  <2>2. /\ Ended(run, a, cache[a].answer = "meta") \in Runs
        /\ Ended(run, a, FALSE) \in Runs
    BY <1>1, <2>1, RunsEnd
  <2>3. [run EXCEPT !.pending[a] = "flight"] \in Runs
    BY <1>1, <2>1, PendingsChange
  <2> QED
    BY <2>1, <2>2, <2>3 DEF HookAsks
<1>8. ASSUME NEW a \in Authors, FlightEnds(a) PROVE run' \in Runs /\ Merge
  <2>1. PICK ok \in BOOLEAN :
          /\ run' = IF run.phase = "busy" /\ a \in DOMAIN run.pending /\ run.pending[a] = "flight"
                    THEN Ended(run, a, ok) ELSE run
          /\ Merge
    BY <1>8 DEF FlightEnds
  <2>2. a \in DOMAIN run.pending => Ended(run, a, ok) \in Runs
    BY <1>1, RunsEnd
  <2> QED
    BY <1>1, <2>1, <2>2
<1>9. CASE RetryFires
  <2>1. run' = Start(run.key, run.attempt, run.have) /\ UNCHANGED anchors
    BY <1>9 DEF RetryFires
  <2>2. /\ run.key \in [who : SUBSET Authors, known : SUBSET Authors]
        /\ run.attempt \in 0 .. MaxAttempts /\ run.have \in SUBSET Authors
    BY <1>1 DEF Runs
  <2>3. run' \in Runs /\ run'.have = run.have
    BY <2>1, <2>2, StartedRuns
  <2> QED
    BY <1>1, <2>1, <2>3
<1>10. CASE Tick
  <2>1. /\ run' = IF run.phase = "waiting" THEN [run EXCEPT !.timer = run.timer - 1] ELSE run
        /\ run.phase = "waiting" => run.timer # 0
        /\ UNCHANGED anchors
    BY <1>10 DEF Tick
  <2>2. run.phase = "waiting" => run.timer - 1 \in 0 .. MaxDelay
    BY <1>1, <2>1, ZapConstants DEF Runs
  <2>3. run' \in Runs /\ run'.have = run.have
    BY <1>1, <2>1, <2>2 DEF Runs
  <2> QED
    BY <1>1, <2>1, <2>3
<1> QED
  BY <1>3, <1>4, <1>5, <1>6, <1>7, <1>8, <1>9, <1>10, StepsOfHook

\* The dialog and the zaps.
Dialogs == [open : BOOLEAN, status : {"idle", "requesting", "success", "manual"},
            pr : Mine \cup {NoZap}]
ZapStates == [stage : {"new", "resolving", "calling", "paying", "over"}, msat : Amounts \cup {0}]

\* What a zap is once its provider is resolved.
LEMMA Resolved ==
  ASSUME NEW z \in Mine, NEW msat \in Amounts \cup {0}, NEW ok
  PROVE  /\ AfterResolve(z, msat, ok) \in ZapStates
         /\ AfterResolve(z, msat, ok).stage \in {"calling", "over"}
         /\ AfterResolve(z, msat, ok).stage = "calling" =>
              AfterResolve(z, msat, ok).msat
                \in Provider[Author[Target[z]]].min .. Provider[Author[Target[z]]].max
BY DEF AfterResolve, Failed, ZapStates

\* A step of the user's from one stage of zap z to the next.
Advances(z) ==
  LET meta == Provider[Author[Target[z]]]
  IN  \/ zaps'[z] = zaps[z]
      \/ /\ zaps[z].stage \in {"new", "resolving"}
         /\ zaps'[z].stage \in {"resolving", "calling", "over"}
         /\ zaps'[z].stage = "calling" => zaps'[z].msat \in meta.min .. meta.max
      \/ zaps[z].stage = "calling" /\ zaps'[z].stage = "over"
      \/ /\ <<zaps[z].stage, zaps'[z].stage>> \in {<<"calling", "paying">>, <<"paying", "over">>}
         /\ zaps'[z].msat = zaps[z].msat

\* What is invoiced when zaps advance stays so.
LEMMA InvoicesStay ==
  ASSUME ZapsIInv, zaps' \in [Mine \cup Others -> ZapStates], \A z \in Mine : Advances(z),
         \A z \in Others : zaps'[z] = zaps[z]
  PROVE  /\ \A z \in Mine \cup Others :
              HasInvoice(z) => HasInvoice(z)' /\ zaps'[z].msat = zaps[z].msat
         /\ \A z \in Mine : zaps'[z].stage \in {"calling", "paying"} => Payable(z)'
<1>1. \A z \in Mine : zaps[z].stage \in {"calling", "paying"} => Payable(z)
  BY DEF ZapsIInv, PaidWasInvoiced
<1>2. ASSUME NEW z \in Mine, HasInvoice(z)
      PROVE  HasInvoice(z)' /\ zaps'[z].msat = zaps[z].msat
  BY <1>2 DEF HasInvoice, Payable, Advances
<1>3. ASSUME NEW z \in Others, HasInvoice(z)
      PROVE  HasInvoice(z)' /\ zaps'[z].msat = zaps[z].msat
  BY <1>3 DEF HasInvoice, Payable
<1>4. ASSUME NEW z \in Mine, zaps'[z].stage \in {"calling", "paying"} PROVE Payable(z)'
  BY <1>1, <1>4 DEF Payable, Advances
<1> QED
  BY <1>2, <1>3, <1>4

UserTypes == dialog \in Dialogs /\ zaps \in [Mine \cup Others -> ZapStates] /\ paid \subseteq Mine \cup Others

\* The dialog, the zaps and what is paid stay what they are; what was paid
\* stays paid, for its amount.
LEMMA UserIsKept ==
  ASSUME ZapsIInv, [ZapsNext]_vars
  PROVE  /\ UserTypes' /\ PaidWasInvoiced'
         /\ paid \subseteq paid' /\ \A z \in paid : zaps'[z].msat = zaps[z].msat
<1>1. UserTypes /\ PaidWasInvoiced
  BY DEF ZapsIInv, ZapsTypeOK, UserTypes, Dialogs, ZapStates
<1>2. NoZap \notin Mine \cup Others /\ Mine \cap Others = {}
  BY ZapConstants
<1> DEFINE Kept == /\ UserTypes' /\ paid \subseteq paid'
                   /\ \A z \in Mine : Advances(z)
                   /\ \A z \in Others : zaps'[z] = zaps[z]
                   /\ \A z \in (paid' \cup {dialog'.pr}) \ (paid \cup {dialog.pr, NoZap}) : HasInvoice(z)'
<1>3. ASSUME Kept
      PROVE  /\ UserTypes' /\ PaidWasInvoiced'
             /\ paid \subseteq paid' /\ \A z \in paid : zaps'[z].msat = zaps[z].msat
  <2>1. /\ \A z \in Mine \cup Others :
              HasInvoice(z) => HasInvoice(z)' /\ zaps'[z].msat = zaps[z].msat
        /\ \A z \in Mine : zaps'[z].stage \in {"calling", "paying"} => Payable(z)'
    BY <1>3, InvoicesStay DEF UserTypes
  <2>2. \A z \in paid \cup ({dialog.pr} \ {NoZap}) : z \in Mine \cup Others /\ HasInvoice(z)
    BY <1>1 DEF UserTypes, PaidWasInvoiced, Dialogs
  <2>3. \A z \in paid \cup ({dialog.pr} \ {NoZap}) : HasInvoice(z)' /\ zaps'[z].msat = zaps[z].msat
    BY <2>1, <2>2
  <2>4. \A z \in paid' \cup ({dialog'.pr} \ {NoZap}) : HasInvoice(z)'
    BY <1>2, <1>3, <2>3 DEF UserTypes, HasInvoice, Payable
  <2> QED
    BY <1>3, <2>1, <2>3, <2>4 DEF PaidWasInvoiced
<1>4. ASSUME NEW a \in Authors, FlightEnds(a) PROVE Kept
  <2>1. PICK ok \in BOOLEAN :
          /\ zaps' = [z \in DOMAIN zaps |->
                        IF z \in Resolving(a) THEN AfterResolve(z, zaps[z].msat, ok) ELSE zaps[z]]
          /\ dialog' \in {dialog, [dialog EXCEPT !.status = "idle"]}
          /\ UNCHANGED paid
    BY <1>4 DEF FlightEnds
  <2>2. \A z \in Resolving(a) : z \in Mine /\ zaps[z].stage = "resolving"
    BY DEF Resolving
  <2>3. \A z \in Resolving(a) : zaps[z].msat \in Amounts \cup {0}
    BY <1>1, <2>2 DEF UserTypes, ZapStates
  <2>4. zaps' \in [Mine \cup Others -> ZapStates]
    BY <1>1, <2>1, <2>2, <2>3, Resolved DEF UserTypes
  <2>5. \A z \in Mine : Advances(z)
    BY <1>1, <2>1, <2>2, <2>3, Resolved DEF UserTypes, Advances
  <2>6. \A z \in Others : zaps'[z] = zaps[z]
    BY <1>1, <1>2, <2>1, <2>2 DEF UserTypes
  <2>7. dialog' \in Dialogs /\ dialog'.pr = dialog.pr
    BY <1>1, <2>1 DEF UserTypes, Dialogs
  <2> QED
    BY <1>1, <2>1, <2>4, <2>5, <2>6, <2>7 DEF UserTypes
<1>5. ASSUME OpenDialog \/ CloseDialog PROVE Kept
  <2>1. /\ \/ dialog' = [dialog EXCEPT !.open = TRUE]
           \/ dialog' = [open |-> FALSE, status |-> "idle", pr |-> NoZap]
        /\ UNCHANGED <<zaps, paid>>
    BY <1>5 DEF OpenDialog, CloseDialog
  <2>2. CASE dialog' = [dialog EXCEPT !.open = TRUE]
    <3>1. dialog' \in Dialogs /\ dialog'.pr = dialog.pr
      BY <1>1, <2>2 DEF UserTypes, Dialogs
    <3> QED
      BY <1>1, <2>1, <3>1 DEF UserTypes, Advances
  <2>3. CASE dialog' = [open |-> FALSE, status |-> "idle", pr |-> NoZap]
    <3>1. dialog' \in Dialogs /\ dialog'.pr = NoZap
      BY <2>3 DEF Dialogs
    <3> QED
      BY <1>1, <2>1, <3>1 DEF UserTypes, Advances
  <2> QED
    BY <2>1, <2>2, <2>3
<1>6. ASSUME PayByHand PROVE Kept
  <2>1. dialog.pr # NoZap /\ paid' = paid \cup {dialog.pr} /\ UNCHANGED <<dialog, zaps>>
    BY <1>6 DEF PayByHand
  <2>2. dialog.pr \in Mine
    BY <1>1, <2>1 DEF UserTypes, Dialogs
  <2>3. UserTypes'
    BY <1>1, <2>1, <2>2 DEF UserTypes
  <2> QED
    BY <2>1, <2>3 DEF Advances
<1>7. ASSUME NEW z \in Mine, ClickZap(z) PROVE Kept
  <2> DEFINE a == Author[Target[z]]
             Zap(msat) == IF Cached(a) THEN AfterResolve(z, msat, cache[a].answer = "meta")
                          ELSE [stage |-> "resolving", msat |-> msat]
  <2>1. PICK msat \in Amounts :
          /\ zaps' = [zaps EXCEPT ![z] = Zap(msat)]
          /\ \E s \in {"idle", "requesting"} : dialog' = [dialog EXCEPT !.status = s]
          /\ zaps[z].stage = "new" /\ UNCHANGED paid
    BY <1>7 DEF ClickZap
  <2> DEFINE zap == Zap(msat)
  <2>2. /\ zap \in ZapStates /\ zap.stage \in {"resolving", "calling", "over"}
        /\ zap.stage = "calling" =>
             zap.msat \in Provider[Author[Target[z]]].min .. Provider[Author[Target[z]]].max
    BY Resolved DEF ZapStates
  <2>3. dialog' \in Dialogs /\ dialog'.pr = dialog.pr
    BY <1>1, <2>1 DEF UserTypes, Dialogs
  <2> HIDE DEF Zap
  <2>4. zaps' \in [Mine \cup Others -> ZapStates] /\ \A y \in Mine : Advances(y)
    BY <1>1, <2>1, <2>2 DEF UserTypes, Advances
  <2> QED
    BY <1>1, <1>2, <2>1, <2>3, <2>4 DEF UserTypes
<1>8. ASSUME NEW z \in Mine, Invoiced(z) PROVE Kept
  <2>1. CASE zaps' = [zaps EXCEPT ![z].stage = "paying"] /\ dialog' = [dialog EXCEPT !.pr = z]
    <3>1. zaps[z].stage = "calling" /\ UNCHANGED paid /\ Payable(z)
      BY <1>1, <1>8 DEF Invoiced, PaidWasInvoiced
    <3>2. zaps' \in [Mine \cup Others -> ZapStates] /\ zaps'[z].stage = "paying" /\ zaps'[z].msat = zaps[z].msat
      BY <1>1, <2>1 DEF UserTypes, ZapStates
    <3>3. dialog' \in Dialogs /\ dialog'.pr = z
      BY <1>1, <2>1 DEF UserTypes, Dialogs
    <3>4. HasInvoice(z)'
      BY <3>1, <3>2 DEF HasInvoice, Payable
    <3>5. \A y \in Mine : Advances(y)
      BY <1>1, <2>1, <3>1, <3>2 DEF UserTypes, Advances
    <3>6. \A y \in Others : zaps'[y] = zaps[y]
      BY <1>1, <1>2, <2>1 DEF UserTypes
    <3> QED
      BY <1>1, <3>1, <3>2, <3>3, <3>4, <3>5, <3>6 DEF UserTypes
  <2>2. CASE zaps' = [zaps EXCEPT ![z] = Failed] /\ dialog' = [dialog EXCEPT !.status = "idle"]
    <3>1. zaps[z].stage = "calling" /\ UNCHANGED paid
      BY <1>8 DEF Invoiced
    <3>2. zaps' \in [Mine \cup Others -> ZapStates] /\ zaps'[z].stage = "over"
      BY <1>1, <2>2 DEF UserTypes, ZapStates, Failed
    <3>3. dialog' \in Dialogs /\ dialog'.pr = dialog.pr
      BY <1>1, <2>2 DEF UserTypes, Dialogs
    <3>4. \A y \in Mine : Advances(y)
      BY <1>1, <2>2, <3>1, <3>2 DEF UserTypes, Advances
    <3>5. \A y \in Others : zaps'[y] = zaps[y]
      BY <1>1, <1>2, <2>2 DEF UserTypes
    <3> QED
      BY <1>1, <3>1, <3>2, <3>3, <3>4, <3>5 DEF UserTypes
  <2> QED
    BY <1>8, <2>1, <2>2 DEF Invoiced
<1>9. ASSUME NEW z \in Mine, WalletSettles(z) PROVE Kept
  <2>1. /\ zaps[z].stage = "paying" /\ zaps' = [zaps EXCEPT ![z].stage = "over"]
        /\ paid' \in {paid, paid \cup {z}}
        /\ \E s \in {"success", "manual"} : dialog' = [dialog EXCEPT !.status = s]
    BY <1>9 DEF WalletSettles
  <2>2. zaps' \in [Mine \cup Others -> ZapStates] /\ zaps'[z].stage = "over" /\ zaps'[z].msat = zaps[z].msat
    BY <1>1, <2>1 DEF UserTypes, ZapStates
  <2>3. dialog' \in Dialogs /\ dialog'.pr = dialog.pr
    BY <1>1, <2>1 DEF UserTypes, Dialogs
  <2>4. Payable(z)
    BY <1>1, <2>1 DEF PaidWasInvoiced
  <2>5. HasInvoice(z)'
    BY <2>2, <2>4 DEF HasInvoice, Payable
  <2>6. \A y \in Mine : Advances(y)
    BY <1>1, <2>1, <2>2 DEF UserTypes, Advances
  <2>7. \A y \in Others : zaps'[y] = zaps[y]
    BY <1>1, <1>2, <2>1 DEF UserTypes
  <2> QED
    BY <1>1, <2>1, <2>2, <2>3, <2>5, <2>6, <2>7 DEF UserTypes
<1> HIDE DEF Kept
<1>10. Kept \/ UNCHANGED user
  BY <1>4, <1>5, <1>6, <1>7, <1>8, <1>9, StepsOfUser
<1>11. CASE UNCHANGED user
  BY <1>1, <1>11 DEF user, UserTypes, PaidWasInvoiced, HasInvoice, Payable
<1> QED
  BY <1>3, <1>10, <1>11

\* A receipt is of one payment, and of its amount, whatever happens next.
LEMMA ReceiptsStay ==
  ASSUME NEW z, NEW n, zaps'[z].msat = zaps[z].msat
  PROVE  ReceiptOf(z, n)' = ReceiptOf(z, n)
BY DEF ReceiptOf, RequestOf

\* What is published is forged or of a payment, and is not taken back.
LEMMA RelaysAreKept ==
  ASSUME ZapsIInv, [ZapsNext]_vars
  PROVE  /\ relays' = [receipts |-> relays.receipts, dels |-> relays.dels]'
         /\ relays.receipts \subseteq relays.receipts' /\ relays.dels \subseteq relays.dels'
         /\ ReceiptsAreOfPayments'
<1>1. relays = [receipts |-> relays.receipts, dels |-> relays.dels] /\ ReceiptsAreOfPayments
  BY DEF ZapsIInv, Shapes
<1>2. paid \subseteq paid' /\ \A z \in paid : zaps'[z].msat = zaps[z].msat
  BY UserIsKept
<1> DEFINE OfPayments(rs) == \A r \in rs : \E z \in paid', n \in 1 .. Copies : r = ReceiptOf(z, n)'
<1>3. OfPayments(relays.receipts \ Forgeries)
  <2> SUFFICES ASSUME NEW r \in relays.receipts \ Forgeries
               PROVE  \E z \in paid', n \in 1 .. Copies : r = ReceiptOf(z, n)'
    OBVIOUS
  <2>1. PICK z \in paid, n \in 1 .. Copies : r = ReceiptOf(z, n)
    BY <1>1 DEF ReceiptsAreOfPayments
  <2>2. z \in paid' /\ ReceiptOf(z, n)' = r
    BY <1>2, <2>1, ReceiptsStay
  <2> QED
    BY <2>2
<1>4. CASE UNCHANGED relays
  BY <1>1, <1>3, <1>4 DEF ReceiptsAreOfPayments
<1>5. CASE \E z \in Mine \cup Others, n \in 1 .. Copies : PublishReceipt(z, n)
  <2>1. PICK z \in Mine \cup Others, n \in 1 .. Copies : PublishReceipt(z, n)
    BY <1>5
  <2>2. /\ z \in paid
        /\ relays' = [relays EXCEPT !.receipts = relays.receipts \cup {ReceiptOf(z, n)}]
    BY <2>1 DEF PublishReceipt
  <2>3. z \in paid' /\ ReceiptOf(z, n)' = ReceiptOf(z, n)
    BY <1>2, <2>2, ReceiptsStay
  <2>4. relays' = [receipts |-> relays.receipts \cup {ReceiptOf(z, n)}, dels |-> relays.dels]
    BY <1>1, <2>2
  <2>5. OfPayments(relays'.receipts \ Forgeries)
    BY <1>3, <2>3, <2>4
  <2> QED
    BY <2>4, <2>5 DEF ReceiptsAreOfPayments
<1>6. CASE \E r \in relays.receipts : Retract(r)
  <2>1. PICK d : relays' = [relays EXCEPT !.dels = relays.dels \cup {d}]
    BY <1>6 DEF Retract
  <2>2. relays' = [receipts |-> relays.receipts, dels |-> relays.dels \cup {d}]
    BY <1>1, <2>1
  <2> QED
    BY <1>3, <2>2 DEF ReceiptsAreOfPayments
<1> QED
  BY <1>4, <1>5, <1>6, StepsOfRelays

\* What is retained is of the receipts that came.
LEMMA RetainedIsOfTheRelays ==
  ASSUME NEW R, NEW b \in Seq(R), NEW ds, events \in Seq(R), hidden \subseteq {r.id : r \in R},
         Retained(b, ds)
  PROVE  /\ events' \in Seq(R) /\ hidden' \subseteq {r.id : r \in R}
         /\ b # <<>> => events' = b
         /\ HiddenBy(ds, events') # {} => hidden' = HiddenBy(ds, events')
<1>1. events' \in Seq(R)
  BY DEF Retained
<1>2. ToSet(events') \subseteq R
  BY <1>1, Lists
<1>3. HiddenBy(ds, events') \subseteq {r.id : r \in R}
  BY <1>2 DEF HiddenBy
<1> QED
  BY <1>1, <1>3 DEF Retained

\* The page holds what the relays sent it.
LEMMA PageIsKept ==
  ASSUME ZapsIInv, [ZapsNext]_vars
  PROVE  /\ buf' \in Seq(relays.receipts) /\ events' \in Seq(relays.receipts)
         /\ dels' \subseteq relays.dels /\ IsFiniteSet(dels')
         /\ hidden' \subseteq {r.id : r \in relays.receipts}
         /\ LastIsKept'
<1> DEFINE R == relays.receipts
<1>1. /\ buf \in Seq(R) /\ events \in Seq(R) /\ dels \subseteq relays.dels /\ IsFiniteSet(dels)
      /\ hidden \subseteq {r.id : r \in R} /\ LastIsKept
  BY DEF ZapsIInv, ZapsTypeOK, Shapes
<1>2. CASE UNCHANGED page
  BY <1>1, <1>2 DEF page, LastIsKept, HiddenBy
<1>3. CASE Retained(buf', dels') /\ buf' \in Seq(R) /\ dels' \subseteq relays.dels /\ IsFiniteSet(dels')
  <2> HIDE DEF R
  <2>1. /\ events' \in Seq(R) /\ hidden' \subseteq {r.id : r \in R}
        /\ buf' # <<>> => events' = buf'
        /\ HiddenBy(dels', events') # {} => hidden' = HiddenBy(dels', events')
    BY <1>1, <1>3, RetainedIsOfTheRelays
  <2>2. HiddenBy(dels, events)' = HiddenBy(dels', events')
    BY DEF HiddenBy
  <2>3. LastIsKept'
    BY <2>1, <2>2 DEF LastIsKept
  <2> QED
    BY <1>3, <2>1, <2>3 DEF R
<1>4. ASSUME NEW r \in relays.receipts, Deliver(r)
      PROVE  Retained(buf', dels') /\ buf' \in Seq(R) /\ dels' \subseteq relays.dels /\ IsFiniteSet(dels')
  <2>1. buf' = Append(buf, r) /\ Retained(buf', dels) /\ dels' = dels
    BY <1>4 DEF Deliver
  <2> QED
    BY <1>1, <2>1
<1>5. ASSUME NEW d \in relays.dels, DeliverRetraction(d)
      PROVE  Retained(buf', dels') /\ buf' \in Seq(R) /\ dels' \subseteq relays.dels /\ IsFiniteSet(dels')
  <2>1. dels' = dels \cup {d} /\ Retained(buf, dels') /\ buf' = buf
    BY <1>5 DEF DeliverRetraction
  <2>2. IsFiniteSet(dels')
    BY <1>1, <2>1, FS_AddElement
  <2> QED
    BY <1>1, <2>1, <2>2
<1>6. ASSUME Blink
      PROVE  Retained(buf', dels') /\ buf' \in Seq(R) /\ dels' \subseteq relays.dels /\ IsFiniteSet(dels')
  <2>1. Retained(buf', dels') /\ buf' \in {buf, <<>>} /\ dels' \in {dels, {}}
    BY <1>6 DEF Blink
  <2>2. <<>> \in Seq(R)
    OBVIOUS
  <2>3. buf' \in Seq(R)
    BY <1>1, <2>1, <2>2
  <2>4. dels' \subseteq relays.dels /\ IsFiniteSet(dels')
    BY <1>1, <2>1, FS_EmptySet
  <2> QED
    BY <2>1, <2>3, <2>4
<1> QED
  BY <1>2, <1>3, <1>4, <1>5, <1>6, StepsOfPage

Answers == [answer : {"none", "null", "meta"}, left : 0 .. NegTTL]
Flights == [on : BOOLEAN, age : 0 .. FetchTime, hit : BOOLEAN]
Outages == [on : BOOLEAN, left : 0 .. MaxOutage]

\* The cache and the fetches, and the outage.
LEMMA LnurlIsKept ==
  ASSUME ZapsIInv, [ZapsNext]_vars
  PROVE  cache' \in [Authors -> Answers] /\ flight' \in [Authors -> Flights] /\ outage' \in Outages
<1>1. cache \in [Authors -> Answers] /\ flight \in [Authors -> Flights] /\ outage \in Outages
  BY DEF ZapsIInv, ZapsTypeOK, Answers, Flights, Outages
<1>2. NegTTL \in Nat \ {0} /\ FetchTime \in Nat /\ MaxOutage \in Nat
  BY ZapConstants
<1>3. outage' \in Outages
  <2>1. CASE OutageBegins
    BY <1>1, <2>1 DEF OutageBegins, Outages
  <2>2. CASE OutageEnds
    BY <1>2, <2>2 DEF OutageEnds, Outages
  <2>3. CASE Tick
    <3>1. /\ outage' = IF outage.on THEN [outage EXCEPT !.left = outage.left - 1] ELSE outage
          /\ outage.on => outage.left > 0
      BY <2>3 DEF Tick
    <3> QED
      BY <1>1, <1>2, <3>1 DEF Outages
  <2> QED
    BY <1>1, <2>1, <2>2, <2>3, StepsOfTheRest
<1>4. CASE UNCHANGED lnurl
  BY <1>1, <1>3, <1>4 DEF lnurl
<1>5. ASSUME NEW a \in Authors, UNCHANGED cache, Ask(a) PROVE flight' \in [Authors -> Flights]
  BY <1>1, <1>2, <1>5 DEF Ask, Flights, Outages
<1>6. ASSUME NEW a \in Authors, FlightEnds(a) \/ Expire(a)
      PROVE  cache' \in [Authors -> Answers] /\ flight' \in [Authors -> Flights]
  <2>1. \A ok : Entry(ok) \in Answers
    BY <1>2 DEF Entry, Answers
  <2>2. NoEntry \in Answers
    BY <1>2 DEF NoEntry, Answers
  <2>3. [on |-> FALSE, age |-> 0, hit |-> FALSE] \in Flights
    BY <1>2 DEF Flights
  <2>4. CASE FlightEnds(a)
    BY <1>1, <2>1, <2>3, <2>4 DEF FlightEnds
  <2>5. CASE Expire(a)
    BY <1>1, <2>2, <2>5 DEF Expire
  <2> QED
    BY <1>6, <2>4, <2>5
<1>7. CASE OutageBegins
  <2>1. UNCHANGED cache /\ flight' = [a \in Authors |-> [flight[a] EXCEPT !.hit = flight[a].on]]
    BY <1>7 DEF OutageBegins
  <2>2. \A a \in Authors : [flight[a] EXCEPT !.hit = flight[a].on] \in Flights
    BY <1>1 DEF Flights
  <2> QED
    BY <1>1, <1>3, <2>1, <2>2
<1>8. CASE Tick
  <2>1. /\ cache' = [a \in Authors |->
                       IF cache[a].left > 1 THEN [cache[a] EXCEPT !.left = cache[a].left - 1]
                       ELSE IF cache[a].left = 1 THEN NoEntry ELSE cache[a]]
        /\ flight' = [a \in Authors |->
                        IF flight[a].on THEN [flight[a] EXCEPT !.age = flight[a].age + 1] ELSE flight[a]]
        /\ \A a \in Authors : flight[a].on => flight[a].age < FetchTime
    BY <1>8 DEF Tick
  <2>2. \A a \in Authors : cache'[a] \in Answers
    BY <1>1, <1>2, <2>1 DEF Answers, NoEntry
  <2>3. \A a \in Authors : flight'[a] \in Flights
    BY <1>1, <1>2, <2>1 DEF Flights
  <2> QED
    BY <1>3, <2>1, <2>2, <2>3
<1> QED
  BY <1>1, <1>3, <1>4, <1>5, <1>6, <1>7, <1>8, StepsOfLnurl

\* The initial states satisfy the invariant.
LEMMA ZapsIInvAtFirst ==
  ASSUME ZapsInit
  PROVE  ZapsIInv
<1>1. PICK sent \in [Others -> Amounts] :
        /\ \A z \in Others : sent[z] \in Provider[Author[Target[z]]].min .. Provider[Author[Target[z]]].max
        /\ zaps = [z \in Mine \cup Others |->
                    IF z \in Mine THEN [stage |-> "new", msat |-> 0]
                    ELSE [stage |-> "over", msat |-> sent[z]]]
  BY DEF ZapsInit
<1>2. /\ dialog = [open |-> FALSE, status |-> "idle", pr |-> NoZap] /\ paid = Others
      /\ relays = [receipts |-> Forgeries \cup {ReceiptOf(z, 1) : z \in Others}, dels |-> Disowned]
      /\ buf = <<>> /\ dels = {} /\ events = <<>> /\ hidden = {}
      /\ anchors = {} /\ run = Idle /\ lud16 = {}
      /\ cache = [a \in Authors |-> NoEntry]
      /\ flight = [a \in Authors |-> [on |-> FALSE, age |-> 0, hit |-> FALSE]]
      /\ outage = [on |-> FALSE, left |-> MaxOutage]
      /\ faults = MaxFaults
  BY DEF ZapsInit
<1>3. UserTypes
  BY <1>1, <1>2 DEF UserTypes, Dialogs, ZapStates
<1>4. \A z \in Others : HasInvoice(z)
  <2>1. \A z \in Others : zaps[z] = [stage |-> "over", msat |-> sent[z]]
    BY <1>1, ZapConstants
  <2> QED
    BY <1>1, <2>1 DEF HasInvoice, Payable
<1>5. PaidWasInvoiced
  <2>1. \A z \in Mine : zaps[z].stage = "new"
    BY <1>1
  <2> QED
    BY <1>2, <1>4, <2>1 DEF PaidWasInvoiced
<1>6. ReceiptsAreOfPayments
  <2>1. 1 \in 1 .. Copies
    BY ZapConstants
  <2>2. \A r \in relays.receipts \ Forgeries : \E z \in Others : r = ReceiptOf(z, 1)
    BY <1>2
  <2> QED
    BY <1>2, <2>1, <2>2 DEF ReceiptsAreOfPayments
<1>7. LastIsKept
  BY <1>2 DEF LastIsKept, HiddenBy
<1>8. Idle \in Runs /\ Idle.have = {} /\ DOMAIN Idle.pending = {}
  <2>1. <<>> \in [{} -> {"resolve", "profile", "flight", "found", "missing"}]
    OBVIOUS
  <2>2. <<>> \in Pendings
    BY <2>1 DEF Pendings
  <2> QED
    BY <2>2, ZapConstants DEF Idle, Runs
<1>9. Shapes
  <2>1. <<>> \in Seq(relays.receipts)
    OBVIOUS
  <2> QED
    BY <1>2, <1>8, <2>1, FS_EmptySet DEF Shapes
<1>10. ToSet(buf) = {} /\ ToSet(events) = {}
  BY <1>2 DEF ToSet
<1>11. cache \in [Authors -> Answers] /\ flight \in [Authors -> Flights] /\ outage \in Outages
  BY <1>2, ZapConstants DEF NoEntry, Answers, Flights, Outages
<1>12. faults \in 0 .. MaxFaults
  BY <1>2, ZapConstants
<1>13. /\ run.phase \in {"busy", "waiting", "over"} /\ run.attempt \in 0 .. MaxAttempts
       /\ run.timer \in 0 .. MaxDelay /\ run.have \subseteq anchors
       /\ DOMAIN run.pending \subseteq Authors
  BY <1>2, <1>8 DEF Runs
<1>14. ZapsTypeOK
  BY <1>2, <1>3, <1>10, <1>11, <1>12, <1>13
     DEF ZapsTypeOK, UserTypes, Dialogs, ZapStates, Answers, Flights, Outages
<1> QED
  BY <1>5, <1>6, <1>7, <1>9, <1>14 DEF ZapsIInv

\* Every step keeps the invariant.
LEMMA ZapsIInvIsKept ==
  ASSUME ZapsIInv, [ZapsNext]_vars
  PROVE  ZapsIInv'
<1>1. UserTypes' /\ PaidWasInvoiced'
  BY UserIsKept
<1>2. /\ relays' = [receipts |-> relays.receipts, dels |-> relays.dels]'
      /\ relays.receipts \subseteq relays.receipts' /\ relays.dels \subseteq relays.dels'
      /\ ReceiptsAreOfPayments'
  BY RelaysAreKept
<1>3. /\ buf' \in Seq(relays.receipts) /\ events' \in Seq(relays.receipts)
      /\ dels' \subseteq relays.dels /\ IsFiniteSet(dels')
      /\ hidden' \subseteq {r.id : r \in relays.receipts}
      /\ LastIsKept'
  BY PageIsKept
<1>4. run' \in Runs /\ (run.have \subseteq anchors)' /\ anchors' \subseteq Authors
  BY HookIsKept
<1>5. cache' \in [Authors -> Answers] /\ flight' \in [Authors -> Flights] /\ outage' \in Outages
  BY LnurlIsKept
<1>6. lud16' \subseteq Authors /\ faults' \in 0 .. MaxFaults
  <2>1. lud16 \subseteq Authors /\ faults \in 0 .. MaxFaults
    BY DEF ZapsIInv, ZapsTypeOK
  <2> QED
    BY <2>1, ZapConstants, StepsOfTheRest DEF Disturbs
<1>8. buf' \in Seq(relays.receipts') /\ events' \in Seq(relays.receipts')
  BY <1>2, <1>3
<1>9. ToSet(buf') \subseteq relays.receipts' /\ ToSet(events') \subseteq relays.receipts'
  BY <1>8, Lists
<1>10. Shapes'
  BY <1>2, <1>3, <1>4, <1>8 DEF Shapes
<1>11. dels' \subseteq relays.dels' /\ hidden' \subseteq {r.id : r \in relays.receipts'}
  BY <1>2, <1>3
<1>12. DOMAIN run'.pending \subseteq Authors
  BY <1>4 DEF Runs, Pendings
<1>13. ZapsTypeOK'
  BY <1>1, <1>4, <1>5, <1>6, <1>9, <1>11, <1>12
     DEF ZapsTypeOK, UserTypes, Dialogs, ZapStates, Answers, Flights, Outages, Runs
<1> QED
  BY <1>1, <1>2, <1>3, <1>10, <1>13 DEF ZapsIInv

LEMMA ZapsInvariant == ZapsSpec => []ZapsIInv
<1>1. ZapsInit => ZapsIInv
  BY ZapsIInvAtFirst
<1>2. ZapsIInv /\ [ZapsNext]_vars => ZapsIInv'
  BY ZapsIInvIsKept
<1> QED
  BY <1>1, <1>2, PTL DEF ZapsSpec

\* The dialog, the receipts, the page and the lookups of the anchors stay in
\* their types, whatever the user zaps, the providers send and the network loses.
THEOREM ZapsTypeCorrect == ZapsSpec => []ZapsTypeOK
<1>1. ZapsIInv => ZapsTypeOK
  BY DEF ZapsIInv
<1> QED
  BY <1>1, ZapsInvariant, PTL

-----------------------------------------------------------------------------
(* The totals.                                                                 *)

\* A forgery is about no genuine payment, and never passes the gate.
LEMMA ForgeriesCountForNothing ==
  ASSUME NEW r \in Forgeries
  PROVE  /\ r.e \in DOMAIN Author => ~Valid(r, Author[r.e], Anchor[Author[r.e]])
         /\ \A z \in Mine \cup Others, n \in 1 .. Copies : zaps[z].msat \in Nat => r # ReceiptOf(z, n)
<1>1. \A a \in Authors : r.sig /\ r.key = Provider[a].key => ~InvoiceBinds(r)
  BY ForgeriesAssumption
<1>2. ASSUME r.e \in DOMAIN Author, Valid(r, Author[r.e], Anchor[Author[r.e]]) PROVE FALSE
  <2>1. Author[r.e] \in Authors
    BY <1>2 DEF Authors
  <2>2. r.sig /\ Anchor[Author[r.e]] # NoAnchor /\ r.key = Anchor[Author[r.e]].key /\ InvoiceBinds(r)
    BY <1>2 DEF Valid, SignedByAnchor
  <2>3. Anchor[Author[r.e]] = Provider[Author[r.e]]
    BY <2>1, <2>2 DEF Anchor
  <2> QED
    BY <1>1, <2>1, <2>2, <2>3
<1>3. ASSUME NEW z \in Mine \cup Others, NEW n \in 1 .. Copies, zaps[z].msat \in Nat, r = ReceiptOf(z, n)
      PROVE  FALSE
  <2>1. r.sig /\ r.key = Provider[Author[Target[z]]].key
    BY <1>3 DEF ReceiptOf, RequestOf
  <2>2. Author[Target[z]] \in Authors
    BY TargetsHaveAuthors
  <2>3. r.invoice = NoInvoice
    <3>1. r.invoice.desc = r.req
      BY <1>3 DEF ReceiptOf
    <3> QED
      BY <1>1, <2>1, <2>2, <3>1 DEF InvoiceBinds
  <2>4. /\ r.invoice = [hash |-> z, msat |-> zaps[z].msat, desc |-> r.req]
        /\ r.req \in Requests
    <3>1. r \in ZapReceipt
      BY ForgeriesAssumption, ReceiptsAssumption
    <3>2. r.req \in Requests
      BY <3>1 DEF ZapReceipt
    <3>3. r.invoice = [hash |-> z, msat |-> zaps[z].msat, desc |-> r.req]
      BY <1>3 DEF ReceiptOf
    <3> QED
      BY <3>2, <3>3
  <2>5. z \in Int
    BY ZapConstants
  <2> QED
    BY <1>3, <2>3, <2>4, <2>5, MarkersAssumption
<1> QED
  BY <1>2, <1>3

\* The receipts of a payment pass the gate once its recipient's anchor is known,
\* and not before.
LEMMA PaymentsCount ==
  ASSUME ZapsIInv, NEW z \in paid, NEW n \in 1 .. Copies
  PROVE  LET r == ReceiptOf(z, n)
         IN  /\ r.e \in DOMAIN Author /\ r.e = Target[z] /\ r.invoice.hash = z
             /\ r.invoice.msat = zaps[z].msat
             /\ Valid(r, Author[r.e], Anchor[Author[r.e]]) <=> Author[Target[z]] \in anchors
<1> DEFINE r == ReceiptOf(z, n)
           a == Author[Target[z]]
           meta == Provider[a]
<1>1. z \in Mine \cup Others /\ zaps[z].msat \in Nat /\ zaps[z].msat \in meta.min .. meta.max
  BY ZapConstants DEF ZapsIInv, ZapsTypeOK, PaidWasInvoiced, HasInvoice, Payable
<1>2. Target[z] \in DOMAIN Author /\ a \in Authors /\ meta \in Metas
  BY <1>1, TargetsHaveAuthors
<1>3. /\ r.sig = TRUE /\ r.key = meta.key /\ r.e = Target[z] /\ r.p = a
      /\ r.req = [by |-> Sender[z], sig |-> TRUE, coherent |-> TRUE, p |-> a, e |-> Target[z],
                  amount |-> zaps[z].msat]
      /\ r.invoice = [hash |-> z, msat |-> zaps[z].msat, desc |-> r.req]
  BY DEF ReceiptOf, RequestOf
<1> HIDE DEF r
<1>4. r.req.sig = TRUE /\ r.req.coherent = TRUE /\ r.req.p = a /\ r.req.e = Target[z]
      /\ r.req.amount = zaps[z].msat
  BY <1>3
<1>5. r.invoice.hash = z /\ r.invoice.msat = zaps[z].msat /\ r.invoice.desc = r.req
  BY <1>3
<1>6. r.invoice # NoInvoice
  <2>1. Sender[z] \in People /\ a \in People /\ Target[z] \in Events
    BY <1>1, <1>2, PageAssumption
  <2>2. r.req \in Requests
    BY <1>1, <1>3, <2>1 DEF Requests
  <2>3. z \in Int
    BY <1>1, ZapConstants
  <2>4. r.invoice \in [hash : Int, msat : Nat, desc : Requests]
    BY <1>1, <1>3, <2>2, <2>3
  <2> QED
    BY <2>4, MarkersAssumption
<1>7. CASE a \in anchors
  <2>1. Anchor[a] = meta
    BY <1>2, <1>7 DEF Anchor
  <2>2. SignedByAnchor(r, Anchor[a])
    BY <1>2, <1>3, <2>1, MarkersAssumption DEF SignedByAnchor
  <2>3. RequestHolds(r) /\ InvoiceBinds(r) /\ AmountAgrees(r) /\ NamesTarget(r, r.e)
        /\ NamesRecipient(r, a) /\ InBounds(r, Anchor[a])
    BY <1>1, <1>3, <1>4, <1>5, <1>6, <2>1
       DEF RequestHolds, InvoiceBinds, AmountAgrees, NamesTarget, NamesRecipient, InBounds
  <2>4. Valid(r, a, Anchor[a])
    BY <2>2, <2>3 DEF Valid
  <2> QED
    BY <1>2, <1>3, <1>5, <1>7, <2>4 DEF r
<1>8. CASE a \notin anchors
  <2>1. Anchor[a] = NoAnchor
    BY <1>2, <1>8 DEF Anchor
  <2>2. ~Valid(r, a, Anchor[a])
    BY <2>1 DEF Valid, SignedByAnchor
  <2> QED
    BY <1>2, <1>3, <1>5, <1>8, <2>2 DEF r
<1> QED
  BY <1>7, <1>8

\* What is live and counts is of payments to those whose anchor is known.
LEMMA WhatCounts ==
  ASSUME ZapsIInv
  PROVE  Validated(LiveReceipts, Author, Anchor) =
           {r \in LiveReceipts : \E z \in paid, n \in 1 .. Copies :
              r = ReceiptOf(z, n) /\ Author[Target[z]] \in anchors}
<1> DEFINE Counts(r) == r.e \in DOMAIN Author /\ Valid(r, Author[r.e], Anchor[Author[r.e]])
<1>1. ASSUME NEW r \in LiveReceipts, Counts(r)
      PROVE  \E z \in paid, n \in 1 .. Copies : r = ReceiptOf(z, n) /\ Author[Target[z]] \in anchors
  <2>1. r \in relays.receipts
    BY DEF LiveReceipts, ZapsIInv, ZapsTypeOK
  <2>2. r \notin Forgeries
    BY <1>1, ForgeriesCountForNothing
  <2>3. PICK z \in paid, n \in 1 .. Copies : r = ReceiptOf(z, n)
    BY <2>1, <2>2 DEF ZapsIInv, ReceiptsAreOfPayments
  <2>4. Valid(r, Author[r.e], Anchor[Author[r.e]]) <=> Author[Target[z]] \in anchors
    BY <2>3, PaymentsCount
  <2> QED
    BY <1>1, <2>3, <2>4
<1>2. ASSUME NEW z \in paid, NEW n \in 1 .. Copies, Author[Target[z]] \in anchors
      PROVE  Counts(ReceiptOf(z, n))
  BY <1>2, PaymentsCount
<1> QED
  BY <1>1, <1>2 DEF Validated

\* The zaps credited to an event are paid.
LEMMA CreditedArePaid ==
  ASSUME ZapsIInv, NEW t, NEW z \in Credited(LiveReceipts, t)
  PROVE  z \in paid
<1>1. z \in Mine \cup Others
  BY DEF Credited
<1>2. PICK n \in 1 .. Copies : ReceiptOf(z, n) \in LiveReceipts
  BY DEF Credited
<1>3. ReceiptOf(z, n) \in relays.receipts
  BY <1>2 DEF LiveReceipts, ZapsIInv, ZapsTypeOK
<1>4. zaps[z].msat \in Nat
  <2>1. zaps \in [Mine \cup Others -> ZapStates]
    BY DEF ZapsIInv, ZapsTypeOK, ZapStates
  <2>2. zaps[z] \in ZapStates
    BY <1>1, <2>1
  <2>3. zaps[z].msat \in Amounts \/ zaps[z].msat = 0
    BY <2>2 DEF ZapStates
  <2>4. Amounts \subseteq Nat /\ 0 \in Nat
    BY ZapConstants
  <2> QED
    BY <2>3, <2>4, Zenon
<1>5. ReceiptOf(z, n) \notin Forgeries
  BY <1>1, <1>4, ForgeriesCountForNothing
<1>6. PICK y \in paid, m \in 1 .. Copies : ReceiptOf(z, n) = ReceiptOf(y, m)
  BY <1>3, <1>5 DEF ZapsIInv, ReceiptsAreOfPayments
<1>7. y = z
  BY <1>6 DEF ReceiptOf
<1> QED
  BY <1>7

\* The total of an event is what was asked and paid for it, once for each
\* payment, or nothing while its author's anchor is not known: however many
\* receipts the payment has, in whatever order they came, and whatever others
\* publish or retract (zapTotalsByTarget over what useZaps holds).
THEOREM TotalsArePayments == ZapsSpec => []TotalIsWhatWasPaid
<1>1. ASSUME ZapsIInv PROVE TotalIsWhatWasPaid
  <2> SUFFICES ASSUME NEW t \in DOMAIN Author
               PROVE  LET zs == Credited(LiveReceipts, t)
                      IN  /\ zs \subseteq paid
                          /\ Shown[t] = IF Author[t] \in anchors THEN Asked(zs) ELSE 0
    BY DEF TotalIsWhatWasPaid
  <2> DEFINE zs == Credited(LiveReceipts, t)
             V == Validated(LiveReceipts, Author, Anchor)
             won == Winners(events, V)
             hashes == {h \in DOMAIN won : won[h].e = t}
             amounts == [h \in hashes |-> won[h].invoice.msat]
  <2>1. zs \subseteq paid
    BY <1>1, CreditedArePaid
  <2>2. Shown[t] = SumFunction(amounts)
    BY DEF Shown, Totals, TotalOf
  <2>3. /\ won \in [{r.invoice.hash : r \in V} -> V]
        /\ \A h \in DOMAIN won : won[h].invoice.hash = h
    <3>1. events \in Seq(relays.receipts)
      BY <1>1 DEF ZapsIInv, Shapes
    <3>2. V \subseteq ToSet(events)
      BY DEF Validated, LiveReceipts
    <3>3. ToSet(events) \cap V = V
      BY <3>2
    <3> HIDE DEF V
    <3>4. OnePerPayment(won, V)
      BY <3>1, <3>3, WinnersAreOnePerPayment
    <3> QED
      BY <3>4 DEF OnePerPayment
  <2>4. V = {r \in LiveReceipts : \E z \in paid, n \in 1 .. Copies :
                r = ReceiptOf(z, n) /\ Author[Target[z]] \in anchors}
    BY <1>1, WhatCounts
  <2>5. \A z \in paid, n \in 1 .. Copies :
          /\ ReceiptOf(z, n).e = Target[z] /\ ReceiptOf(z, n).invoice.hash = z
          /\ ReceiptOf(z, n).invoice.msat = zaps[z].msat
    BY <1>1, PaymentsCount
  <2> HIDE DEF V, won
  <2>6. ASSUME NEW h \in hashes
        PROVE  h \in zs /\ won[h].invoice.msat = zaps[h].msat /\ Author[t] \in anchors
    <3>1. won[h] \in V /\ won[h].invoice.hash = h /\ won[h].e = t
      BY <2>3
    <3>2. PICK z \in paid, n \in 1 .. Copies :
            won[h] = ReceiptOf(z, n) /\ won[h] \in LiveReceipts /\ Author[Target[z]] \in anchors
      BY <2>4, <3>1
    <3>3. z = h /\ Target[z] = t /\ won[h].invoice.msat = zaps[z].msat
      BY <2>5, <3>1, <3>2
    <3>4. z \in Mine \cup Others
      BY <1>1 DEF ZapsIInv, ZapsTypeOK
    <3> QED
      BY <3>2, <3>3, <3>4 DEF Credited
  <2>7. CASE Author[t] \in anchors
    <3>1. ASSUME NEW z \in zs PROVE z \in hashes
      <4>1. z \in paid /\ Target[z] = t
        BY <2>1 DEF Credited
      <4>2. PICK n \in 1 .. Copies : ReceiptOf(z, n) \in LiveReceipts
        BY DEF Credited
      <4>3. ReceiptOf(z, n) \in V
        BY <2>4, <2>7, <4>1, <4>2
      <4>4. z \in DOMAIN won
        BY <2>3, <2>5, <4>1, <4>3
      <4>5. won[z] \in V /\ won[z].invoice.hash = z
        BY <2>3, <4>4
      <4>6. PICK y \in paid, m \in 1 .. Copies : won[z] = ReceiptOf(y, m)
        BY <2>4, <4>5
      <4>7. y = z /\ won[z].e = t
        BY <2>5, <4>1, <4>5, <4>6
      <4> QED
        BY <4>4, <4>7
    <3>2. hashes = zs
      BY <2>6, <3>1
    <3>3. amounts = [z \in zs |-> zaps[z].msat]
      BY <2>6, <3>2
    <3> QED
      BY <2>1, <2>2, <2>7, <3>3 DEF Asked
  <2>8. CASE Author[t] \notin anchors
    <3>1. hashes = {}
      BY <2>6, <2>8
    <3>2. DOMAIN amounts = {}
      BY <3>1
    <3> HIDE DEF amounts
    <3>3. SumFunction(amounts) = 0
      BY <3>2, SumOfNothing
    <3> QED
      BY <2>1, <2>2, <2>8, <3>3
  <2> QED
    BY <2>7, <2>8
<1> QED
  BY <1>1, ZapsInvariant, PTL

\* A subscription that starts over changes nothing of what is live.
LEMMA BlinkHidesNothing ==
  ASSUME ZapsIInv, Blink
  PROVE  UNCHANGED <<events, hidden, anchors>>
<1>1. (buf # <<>> => events = buf) /\ (HiddenBy(dels, events) # {} => hidden = HiddenBy(dels, events))
  BY DEF ZapsIInv, LastIsKept
<1>2. /\ events' = IF buf' # <<>> THEN buf' ELSE events
      /\ hidden' = IF HiddenBy(dels', events') # {} THEN HiddenBy(dels', events') ELSE hidden
      /\ \/ buf' = <<>> /\ dels' = dels
         \/ dels' = {} /\ buf' = buf
      /\ anchors' = anchors
  BY DEF Blink, Retained
<1>3. events' = events
  BY <1>1, <1>2
<1>4. dels' = {} => HiddenBy(dels', events') = {}
  BY DEF HiddenBy
<1> QED
  BY <1>1, <1>2, <1>3, <1>4

\* A receipt of a payment shares its id with no other.
LEMMA IdsDiffer ==
  ASSUME ZapsIInv, NEW r \in relays.receipts \ Forgeries, NEW s \in relays.receipts, r.id = s.id
  PROVE  r = s
<1>1. \A z \in paid : z \in Mine \cup Others /\ zaps[z].msat \in Amounts \cup {0}
  BY DEF ZapsIInv, ZapsTypeOK
<1>2. \A z, n : ReceiptOf(z, n).id = ReceiptId(z, zaps[z].msat, n)
  BY DEF ReceiptOf
<1>3. PICK z \in paid, n \in 1 .. Copies : r = ReceiptOf(z, n)
  BY DEF ZapsIInv, ReceiptsAreOfPayments
<1>4. s \notin Forgeries
  BY <1>1, <1>2, <1>3, IdsAssumption
<1>5. PICK y \in paid, m \in 1 .. Copies : s = ReceiptOf(y, m)
  BY <1>4 DEF ZapsIInv, ReceiptsAreOfPayments
<1>6. z = y /\ n = m
  BY <1>1, <1>2, <1>3, <1>5, IdsAssumption
<1> QED
  BY <1>3, <1>5, <1>6

\* A receipt of a payment stays live but for its retraction, or a buffer that
\* starts over.
LEMMA GoesWithNews ==
  ASSUME ZapsIInv, [ZapsNext]_vars, NEW w \in LiveReceipts, w \notin Forgeries,
         ~(buf = <<>> /\ buf' # <<>>), [by |-> w.key, id |-> w.id] \notin dels' \ dels
  PROVE  w \in LiveReceipts'
<1>1. /\ buf # <<>> => events = buf
      /\ HiddenBy(dels, events) # {} => hidden = HiddenBy(dels, events)
      /\ buf \in Seq(relays.receipts) /\ events \in Seq(relays.receipts)
  BY DEF ZapsIInv, Shapes, LastIsKept
<1>2. w \in ToSet(events) /\ w.id \notin hidden /\ ToSet(events) \subseteq relays.receipts
  BY <1>1, Lists DEF LiveReceipts
<1>3. CASE UNCHANGED page
  BY <1>3 DEF page, LiveReceipts
<1>4. CASE Blink
  BY <1>4, BlinkHidesNothing DEF LiveReceipts
<1>5. ASSUME NEW e \in Seq(relays.receipts), events' = e, ToSet(events) \subseteq ToSet(e),
             hidden' = IF HiddenBy(dels', e) # {} THEN HiddenBy(dels', e) ELSE hidden
      PROVE  w \in LiveReceipts'
  <2>1. ASSUME w.id \in HiddenBy(dels', e) PROVE FALSE
    <3>1. PICK s \in ToSet(e) : s.id = w.id /\ [by |-> s.key, id |-> s.id] \in dels'
      BY <2>1 DEF HiddenBy
    <3>2. s \in relays.receipts
      BY <3>1, <1>5, Lists
    <3>3. s = w
      BY <1>2, <3>1, <3>2, IdsDiffer
    <3>4. [by |-> w.key, id |-> w.id] \in dels
      BY <3>1, <3>3
    <3>5. w.id \in HiddenBy(dels, events)
      BY <1>2, <3>4 DEF HiddenBy
    <3> QED
      BY <1>1, <1>2, <3>5
  <2>2. w.id \notin hidden'
    BY <1>2, <1>5, <2>1
  <2> QED
    BY <1>2, <1>5, <2>2 DEF LiveReceipts
<1>6. ASSUME NEW r \in relays.receipts, Deliver(r) PROVE w \in LiveReceipts'
  <2>1. /\ buf' = Append(buf, r) /\ dels' = dels
        /\ events' = IF buf' # <<>> THEN buf' ELSE events
        /\ hidden' = IF HiddenBy(dels, events') # {} THEN HiddenBy(dels, events') ELSE hidden
    BY <1>6 DEF Deliver, Retained
  <2>2. buf' # <<>> /\ buf # <<>>
    BY <1>1, <2>1
  <2>3. events' = Append(events, r)
    BY <1>1, <2>1, <2>2
  <2>4. Append(events, r) \in Seq(relays.receipts)
    BY <1>1
  <2>5. ToSet(Append(events, r)) = ToSet(events) \cup {r}
    BY <1>1, SetsOfAppended
  <2> QED
    BY <2>1, <2>3, <2>4, <2>5, <1>5
<1>7. ASSUME NEW d \in relays.dels, DeliverRetraction(d) PROVE w \in LiveReceipts'
  <2>1. /\ buf' = buf
        /\ events' = IF buf # <<>> THEN buf ELSE events
        /\ hidden' = IF HiddenBy(dels', events') # {} THEN HiddenBy(dels', events') ELSE hidden
    BY <1>7 DEF DeliverRetraction, Retained
  <2>2. events' = events
    BY <1>1, <2>1
  <2> QED
    BY <1>1, <2>1, <2>2, <1>5
<1> QED
  BY <1>3, <1>4, <1>6, <1>7, StepsOfPage

\* A receipt becomes live when it comes; or when the page learns of a retraction,
\* hid it, and no longer holds its own.
LEMMA ComesWithNews ==
  ASSUME ZapsIInv, [ZapsNext]_vars, NEW w \in LiveReceipts', w \notin LiveReceipts
  PROVE  \/ w \in ToSet(buf') \ ToSet(buf)
         \/ w.id \in hidden \ HiddenBy(dels, events) /\ HiddenBy(dels', events') # {}
<1>1. /\ buf # <<>> => events = buf
      /\ HiddenBy(dels, events) # {} => hidden = HiddenBy(dels, events)
      /\ buf \in Seq(relays.receipts) /\ events \in Seq(relays.receipts)
  BY DEF ZapsIInv, Shapes, LastIsKept
<1>2. w \in ToSet(events') /\ w.id \notin hidden' /\ (w \in ToSet(events) => w.id \in hidden)
  BY DEF LiveReceipts
<1>3. CASE UNCHANGED page
  BY <1>2, <1>3 DEF page
<1>4. CASE Blink
  BY <1>2, <1>4, BlinkHidesNothing
<1>5. ASSUME w \in ToSet(events), ToSet(events) \subseteq ToSet(events'), dels \subseteq dels',
             hidden' = IF HiddenBy(dels', events') # {} THEN HiddenBy(dels', events') ELSE hidden
      PROVE  w.id \in hidden \ HiddenBy(dels, events) /\ HiddenBy(dels', events') # {}
  <2>1. HiddenBy(dels', events') # {} /\ w.id \notin HiddenBy(dels', events')
    BY <1>2, <1>5
  <2>2. HiddenBy(dels, events) \subseteq HiddenBy(dels', events')
    BY <1>5 DEF HiddenBy
  <2> QED
    BY <1>2, <1>5, <2>1, <2>2
<1>6. ASSUME NEW r \in relays.receipts, Deliver(r), w \in ToSet(buf)
      PROVE  w.id \in hidden \ HiddenBy(dels, events) /\ HiddenBy(dels', events') # {}
  <2>1. /\ buf' = Append(buf, r) /\ dels' = dels
        /\ events' = IF buf' # <<>> THEN buf' ELSE events
        /\ hidden' = IF HiddenBy(dels', events') # {} THEN HiddenBy(dels', events') ELSE hidden
    BY <1>6 DEF Deliver, Retained
  <2>2. buf # <<>> /\ buf' # <<>>
    BY <1>1, <1>6, <2>1, Lists
  <2>3. ToSet(Append(buf, r)) = ToSet(buf) \cup {r}
    BY <1>1, SetsOfAppended
  <2>4. w \in ToSet(events) /\ ToSet(events) \subseteq ToSet(events')
    BY <1>1, <1>6, <2>1, <2>2, <2>3
  <2> QED
    BY <1>5, <2>1, <2>4
<1>7. ASSUME NEW r \in relays.receipts, Deliver(r), w \notin ToSet(buf)
      PROVE  w \in ToSet(buf') \ ToSet(buf)
  <2>1. buf' = Append(buf, r) /\ events' = IF buf' # <<>> THEN buf' ELSE events
    BY <1>7 DEF Deliver, Retained
  <2>2. buf' # <<>>
    BY <1>1, <2>1
  <2> QED
    BY <1>2, <1>7, <2>1, <2>2
<1>8. ASSUME NEW d \in relays.dels, DeliverRetraction(d)
      PROVE  w.id \in hidden \ HiddenBy(dels, events) /\ HiddenBy(dels', events') # {}
  <2>1. /\ buf' = buf /\ dels \subseteq dels'
        /\ events' = IF buf # <<>> THEN buf ELSE events
        /\ hidden' = IF HiddenBy(dels', events') # {} THEN HiddenBy(dels', events') ELSE hidden
    BY <1>8 DEF DeliverRetraction, Retained
  <2>2. events' = events
    BY <1>1, <2>1
  <2> QED
    BY <1>2, <1>5, <2>1, <2>2
<1> QED
  BY <1>3, <1>4, <1>6, <1>7, <1>8, StepsOfPage

\* What counts is live, genuine, and of the payment it counts for; and every
\* live receipt of a payment whose anchor is known makes it count.
PaymentsMakeCounting ==
  /\ \A h \in DOMAIN Counting :
       /\ h \in paid /\ \E n \in 1 .. Copies : Counting[h] = ReceiptOf(h, n)
       /\ Counting[h] \in LiveReceipts /\ Counting[h] \notin Forgeries
       /\ Author[Target[h]] \in anchors
  /\ \A z \in paid, n \in 1 .. Copies :
       ReceiptOf(z, n) \in LiveReceipts /\ Author[Target[z]] \in anchors => z \in DOMAIN Counting

LEMMA CountingIsOfPayments == ZapsIInv => PaymentsMakeCounting
<1> SUFFICES ASSUME ZapsIInv PROVE PaymentsMakeCounting
  OBVIOUS
<1> DEFINE V == Validated(LiveReceipts, Author, Anchor)
<1>1. V = {r \in LiveReceipts : \E z \in paid, n \in 1 .. Copies :
             r = ReceiptOf(z, n) /\ Author[Target[z]] \in anchors}
  BY WhatCounts
<1>2. OnePerPayment(Counting, V)
  <2>1. events \in Seq(relays.receipts) /\ ToSet(events) \cap V = V
    BY DEF ZapsIInv, Shapes, Validated, LiveReceipts
  <2> QED
    BY <2>1, WinnersAreOnePerPayment DEF Counting
<1>3. \A z \in paid, n \in 1 .. Copies : ReceiptOf(z, n).invoice.hash = z
  BY DEF ReceiptOf
<1>4. ASSUME NEW r \in V PROVE r \notin Forgeries
  BY ForgeriesCountForNothing DEF Validated
<1> HIDE DEF V
<1>5. ASSUME NEW h \in DOMAIN Counting
      PROVE  /\ h \in paid /\ \E n \in 1 .. Copies : Counting[h] = ReceiptOf(h, n)
             /\ Counting[h] \in LiveReceipts /\ Counting[h] \notin Forgeries
             /\ Author[Target[h]] \in anchors
  <2>1. Counting[h] \in V /\ Counting[h].invoice.hash = h
    BY <1>2 DEF OnePerPayment
  <2>2. PICK z \in paid, n \in 1 .. Copies : Counting[h] = ReceiptOf(z, n) /\ Author[Target[z]] \in anchors
    BY <1>1, <2>1
  <2>3. z = h
    BY <1>3, <2>1, <2>2
  <2> QED
    BY <1>1, <1>4, <2>1, <2>2, <2>3
<1>6. ASSUME NEW z \in paid, NEW n \in 1 .. Copies, ReceiptOf(z, n) \in LiveReceipts,
             Author[Target[z]] \in anchors
      PROVE  z \in DOMAIN Counting
  <2>1. ReceiptOf(z, n) \in V
    BY <1>1, <1>6
  <2> QED
    BY <1>2, <1>3, <2>1 DEF OnePerPayment
<1> QED
  BY <1>5, <1>6 DEF PaymentsMakeCounting

\* A payment starts or stops to count only with an event about it, its anchor, or
\* the first receipt of a buffer that started over, and counts for one amount
\* towards one event: for any payments, providers, copies, forgeries and
\* retractions, and whatever the network loses (useZaps, useLnurlAnchors).
THEOREM PaymentsMoveWithNews == ZapsSpec => OnlyNewsMovesPayments
<1> DEFINE A == /\ \A h \in DOMAIN Counting \ DOMAIN Counting' :
                     \/ [by |-> Counting[h].key, id |-> Counting[h].id] \in dels' \ dels
                     \/ buf = <<>> /\ buf' # <<>>
                /\ \A h \in DOMAIN Counting' \ DOMAIN Counting :
                     \/ Counting'[h] \in ToSet(buf') \ ToSet(buf)
                     \/ Author[Counting'[h].e] \in anchors' \ anchors
                     \/ /\ Counting'[h].id \in hidden \ HiddenBy(dels, events)
                        /\ HiddenBy(dels', events') # {}
                /\ \A h \in DOMAIN Counting \cap DOMAIN Counting' :
                     /\ Counting'[h].invoice = Counting[h].invoice
                     /\ Counting'[h].e = Counting[h].e
<1>1. ZapsIInv' => PaymentsMakeCounting'
  BY CountingIsOfPayments, PTL
<1>2. ASSUME ZapsIInv, [ZapsNext]_vars, PaymentsMakeCounting' PROVE A
  <2>1. PaymentsMakeCounting
    BY <1>2, CountingIsOfPayments
  <2>2. \A h \in DOMAIN Counting' :
          /\ h \in paid' /\ \E n \in 1 .. Copies : Counting'[h] = ReceiptOf(h, n)'
          /\ Counting'[h] \in LiveReceipts' /\ Counting'[h] \notin Forgeries
          /\ Author[Target[h]] \in anchors'
    BY <1>2 DEF PaymentsMakeCounting
  <2>3. /\ paid \subseteq paid' /\ anchors \subseteq anchors'
        /\ \A z \in paid : zaps'[z].msat = zaps[z].msat
    BY <1>2, UserIsKept, HookIsKept
  <2>4. \A z \in paid, n \in 1 .. Copies : ReceiptOf(z, n)' = ReceiptOf(z, n)
    BY <2>3, ReceiptsStay
  <2>5. ASSUME NEW h \in DOMAIN Counting \ DOMAIN Counting'
        PROVE  \/ [by |-> Counting[h].key, id |-> Counting[h].id] \in dels' \ dels
               \/ buf = <<>> /\ buf' # <<>>
    <3>1. PICK n \in 1 .. Copies : Counting[h] = ReceiptOf(h, n)
      BY <2>1 DEF PaymentsMakeCounting
    <3>2. Counting[h] \notin LiveReceipts'
      BY <1>2, <2>1, <2>3, <2>4, <3>1 DEF PaymentsMakeCounting
    <3> QED
      BY <1>2, <2>1, <3>2, GoesWithNews DEF PaymentsMakeCounting
  <2>6. ASSUME NEW h \in DOMAIN Counting' \ DOMAIN Counting
        PROVE  \/ Counting'[h] \in ToSet(buf') \ ToSet(buf)
               \/ Author[Counting'[h].e] \in anchors' \ anchors
               \/ /\ Counting'[h].id \in hidden \ HiddenBy(dels, events)
                  /\ HiddenBy(dels', events') # {}
    <3>1. PICK n \in 1 .. Copies : Counting'[h] = ReceiptOf(h, n)'
      BY <2>2
    <3>2. Counting'[h].e = Target[h] /\ Author[Target[h]] \in anchors'
      BY <2>2, <3>1 DEF ReceiptOf, RequestOf
    <3>3. CASE Counting'[h] \notin LiveReceipts
      BY <1>2, <2>2, <3>3, ComesWithNews
    <3>4. CASE Counting'[h] \in LiveReceipts
      <4>1. Counting'[h] \in relays.receipts
        BY <1>2, <3>4 DEF LiveReceipts, ZapsIInv, ZapsTypeOK
      <4>2. Counting'[h] \notin Forgeries
        BY <2>2
      <4>3. PICK z \in paid, m \in 1 .. Copies : Counting'[h] = ReceiptOf(z, m)
        BY <1>2, <4>1, <4>2 DEF ZapsIInv, ReceiptsAreOfPayments
      <4>4. z = h
        BY <3>1, <4>3 DEF ReceiptOf
      <4> QED
        BY <2>1, <3>2, <3>4, <4>3, <4>4 DEF PaymentsMakeCounting
    <3> QED
      BY <3>3, <3>4
  <2>7. ASSUME NEW h \in DOMAIN Counting \cap DOMAIN Counting'
        PROVE  Counting'[h].invoice = Counting[h].invoice /\ Counting'[h].e = Counting[h].e
    <3>1. PICK n \in 1 .. Copies : Counting[h] = ReceiptOf(h, n)
      BY <2>1 DEF PaymentsMakeCounting
    <3>2. PICK m \in 1 .. Copies : Counting'[h] = ReceiptOf(h, m)'
      BY <2>2
    <3>3. Counting'[h] = ReceiptOf(h, m)
      BY <2>1, <2>4, <3>2 DEF PaymentsMakeCounting
    <3> QED
      BY <3>1, <3>3 DEF ReceiptOf, RequestOf
  <2> QED
    BY <2>5, <2>6, <2>7
<1>3. ZapsSpec => [][A]_vars
  <2>1. ZapsIInv /\ [ZapsNext]_vars /\ PaymentsMakeCounting' => [A]_vars
    BY <1>2
  <2> HIDE DEF A
  <2> QED
    BY <1>1, <2>1, ZapsInvariant, PTL DEF ZapsSpec
<1> QED
  BY <1>3 DEF OnlyNewsMovesPayments
=============================================================================
