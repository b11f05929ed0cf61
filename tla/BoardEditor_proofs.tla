-------------------------- MODULE BoardEditor_proofs --------------------------
(***************************************************************************)
(* Proofs about BoardEditor and the Session it is composed with, for every *)
(* set of accounts and texts, any number of clicks, logins and saves, any  *)
(* retry delays and faults.                                                *)
(*                                                                         *)
(* ClosedFormIsTheBoard and EditsKeepTheBoard need OwnerEdits: an edit     *)
(* dialog is only open in front of the owner. OnlyWantedClicksRun needs    *)
(* StashIsPromise: what is stashed is the last act of the logged-out.      *)
(*                                                                         *)
(* SavedIsAttested holds when the retries outlast the lag and the faults   *)
(* (Patient, which the delays of the code and the troubles of the run      *)
(* satisfy). It is not inductive: that no request gave up yet says nothing *)
(* of the next one. InTime adds that a loop has more attempts left than    *)
(* there are faults, and that the time it took is gone from the lag of its *)
(* version; so the attempt that starts after the lag finds the version.    *)
(***************************************************************************)
EXTENDS BoardEditor, SequenceTheorems, WellFoundedInduction, TLAPS

\* The edit dialog is open only in front of the owner.
OwnerEdits == open /\ shown # 0 => CanEdit(user)

\* What is stashed is the last act of the logged-out, until it ran.
StashIsPromise ==
  /\ stash = IF promised # NoAct /\ ran[promised] = 0 THEN promised ELSE NoAct
  /\ \A n \in Acts : n > acts => ran[n] = 0

IInv == TypeOK /\ ClosedFormIsTheBoard /\ EditsKeepTheBoard /\ OwnerEdits /\ StashIsPromise

USE SessionAssumption, EditorAssumption

-----------------------------------------------------------------------------
\* Running a click that has not run.
LEMMA RunOnce ==
  ASSUME ran \in [Acts -> 0 .. 1], NEW n \in Acts, ran[n] = 0, Run(n)
  PROVE  /\ ran' \in [Acts -> 0 .. 1] /\ ran'[n] = 1
         /\ \A m \in Acts : m # n => ran'[m] = ran[m]
BY DEF Run

\* The session part of the invariant survives every step of the session.
LEMMA SessionKeeps ==
  ASSUME SessionTypeOK, StashIsPromise,
         \/ Gated \/ Prompt \/ CloseLogin \/ Restore \/ LogOut
         \/ \E l \in Logins : StartLogin(l) \/ LoginFails(l)
         \/ \E l \in Logins, account \in Accounts : LoggedIn(l, account)
  PROVE  SessionTypeOK' /\ StashIsPromise'
<1> USE DEF Acts, NoAct
<1>1. CASE Gated
  <2>1. acts' \in Acts /\ acts' > acts /\ acts' \in Nat /\ ran[acts'] = 0
    BY <1>1 DEF Gated, SessionTypeOK, StashIsPromise
  <2>2. CASE user = NoUser
    BY <1>1, <2>1, <2>2 DEF Gated, SessionTypeOK, StashIsPromise
  <2>3. CASE user # NoUser
    <3>1. Run(acts')
      BY <1>1, <2>3 DEF Gated
    <3>2. /\ ran' \in [Acts -> 0 .. 1] /\ ran'[acts'] = 1
          /\ \A m \in Acts : m # acts' => ran'[m] = ran[m]
      BY <2>1, <3>1, RunOnce DEF SessionTypeOK
    <3> QED BY <1>1, <2>1, <2>3, <3>2 DEF Gated, SessionTypeOK, StashIsPromise
  <2> QED BY <2>2, <2>3
<1>2. CASE Prompt
  BY <1>2 DEF Prompt, SessionTypeOK, StashIsPromise
<1>3. CASE CloseLogin
  BY <1>3 DEF CloseLogin, SessionTypeOK, StashIsPromise
<1>4. CASE Restore
  BY <1>4 DEF Restore, SessionTypeOK, StashIsPromise
<1>5. CASE LogOut
  BY <1>5 DEF LogOut, SessionTypeOK, StashIsPromise
<1>6. ASSUME NEW l \in Logins, StartLogin(l) \/ LoginFails(l)
      PROVE  SessionTypeOK' /\ StashIsPromise'
  BY <1>6 DEF StartLogin, LoginFails, SessionTypeOK, StashIsPromise
<1>7. ASSUME NEW l \in Logins, NEW account \in Accounts, LoggedIn(l, account)
      PROVE  SessionTypeOK' /\ StashIsPromise'
  <2>1. /\ logins' \in [Logins -> {"unused", "flying", "over"}]
        /\ user' \in Accounts /\ stash' = NoAct /\ loginOpen' = FALSE /\ busy' = FALSE
        /\ UNCHANGED <<stored, acts, promised>>
    BY <1>7 DEF LoggedIn, SessionTypeOK
  <2>2. CASE stash = NoAct
    BY <1>7, <2>1, <2>2 DEF LoggedIn, SessionTypeOK, StashIsPromise
  <2>3. CASE stash # NoAct
    <3>1. stash \in Acts /\ stash = promised /\ ran[stash] = 0
      BY <2>3 DEF SessionTypeOK, StashIsPromise
    <3>2. /\ ran' \in [Acts -> 0 .. 1] /\ ran'[stash] = 1
          /\ \A m \in Acts : m # stash => ran'[m] = ran[m]
      BY <1>7, <2>3, <3>1, RunOnce DEF LoggedIn, SessionTypeOK
    <3>3. StashIsPromise'
      <4>1. stash' = IF promised' # NoAct /\ ran'[promised'] = 0 THEN promised' ELSE NoAct
        BY <2>1, <3>1, <3>2
      <4>2. \A n \in Acts : n > acts' => ran'[n] = 0
        BY <2>1, <3>1, <3>2 DEF SessionTypeOK, StashIsPromise
      <4> QED BY <4>1, <4>2 DEF StashIsPromise
    <3>4. SessionTypeOK'
      <4>1. /\ user' \in Accounts \cup {NoUser} /\ stored' \in Accounts \cup {NoUser}
            /\ loginOpen' \in BOOLEAN /\ busy' \in BOOLEAN
        BY <2>1 DEF SessionTypeOK
      <4>2. acts' \in 0 .. MaxActs /\ stash' \in 0 .. acts' /\ promised' \in 0 .. acts'
        BY <2>1 DEF SessionTypeOK
      <4> QED BY <2>1, <3>2, <4>1, <4>2, Zenon DEF SessionTypeOK
    <3> QED BY <3>3, <3>4
  <2> QED BY <2>2, <2>3
<1> QED BY <1>1, <1>2, <1>3, <1>4, <1>5, <1>6, <1>7

\* And a step that leaves the session alone.
LEMMA SessionStutters ==
  ASSUME SessionTypeOK, StashIsPromise, UNCHANGED session
  PROVE  SessionTypeOK' /\ StashIsPromise'
BY DEF session, SessionTypeOK, StashIsPromise

-----------------------------------------------------------------------------
(* The editor. *)

\* The parts of the type invariant that are about the editor.
VersionsOK(vs) ==
  /\ vs \in Seq(Version)
  /\ \A v \in 1 .. Len(vs) : vs[v].board \in 1 .. v

SavesOK(ss, n) ==
  /\ ss \in [Saves -> Save]
  /\ \A s \in Saves : /\ ss[s].version \in 0 .. n
                      /\ ss[s].version = 0 => ss[s].step = "none"

EditorTypeOK ==
  /\ VersionsOK(versions) /\ shown \in 0 .. Len(versions)
  /\ open \in BOOLEAN /\ form \in Texts \cup {Blank} /\ pending \in BOOLEAN
  /\ SavesOK(saves, Len(versions)) /\ labels \subseteq 1 .. Len(versions)
  /\ trouble \in [lag : Nat, faults : Nat] /\ others \in Nat

\* The type invariant is that of the session and that of the editor.
LEMMA TypeSplits == TypeOK <=> SessionTypeOK /\ EditorTypeOK
BY DEF TypeOK, EditorTypeOK, VersionsOK, SavesOK

\* What a version says, apart from who can read it, never changes.
SameText(vs, ws) ==
  /\ Len(vs) <= Len(ws)
  /\ \A v \in 1 .. Len(vs) : /\ ws[v].board = vs[v].board
                             /\ ws[v].by = vs[v].by /\ ws[v].text = vs[v].text

\* A version as the sequence holds it.
LEMMA VersionAt ==
  ASSUME EditorTypeOK, NEW v \in 1 .. Len(versions)
  PROVE  /\ versions[v] \in Version /\ versions[v].by \in Accounts
         /\ versions[v].text \in Texts /\ versions[v].board \in 1 .. v
         /\ versions[v].board \in 1 .. Len(versions)
<1>1. versions \in Seq(Version) /\ Len(versions) \in Nat
  BY LenProperties DEF EditorTypeOK, VersionsOK
<1>2. versions[v] \in Version
  BY <1>1, ElementOfSeq
<1>3. versions[v].board \in 1 .. v
  BY DEF EditorTypeOK, VersionsOK
<1> QED BY <1>1, <1>2, <1>3 DEF Version

\* Appending a version of a board that is there, by its owner, or of a new one.
LEMMA Appended ==
  ASSUME EditorTypeOK, EditsKeepTheBoard, NEW new \in Version,
         \/ new.board = Len(versions) + 1
         \/ new.board \in 1 .. Len(versions) /\ new.by = versions[new.board].by,
         versions' = Append(versions, new)
  PROVE  /\ VersionsOK(versions') /\ EditsKeepTheBoard'
         /\ SameText(versions, versions')
         /\ Len(versions') = Len(versions) + 1 /\ Len(versions) \in Nat
<1>1. versions \in Seq(Version) /\ Len(versions) \in Nat
  BY LenProperties DEF EditorTypeOK, VersionsOK
<1>2. /\ versions' \in Seq(Version) /\ Len(versions') = Len(versions) + 1
      /\ versions'[Len(versions) + 1] = new
      /\ \A v \in 1 .. Len(versions) : versions'[v] = versions[v]
  BY <1>1
<1>3. SameText(versions, versions')
  BY <1>1, <1>2 DEF SameText
<1>4. ASSUME NEW v \in 1 .. Len(versions')
      PROVE  /\ versions'[v].board \in 1 .. v
             /\ versions'[v].by = versions'[versions'[v].board].by
  <2>1. CASE v = Len(versions) + 1
    BY <1>1, <1>2, <2>1
  <2>2. CASE v \in 1 .. Len(versions)
    BY <1>1, <1>2, <2>2, VersionAt DEF EditsKeepTheBoard
  <2> QED BY <1>1, <1>2, <2>1, <2>2
<1> QED BY <1>1, <1>2, <1>3, <1>4 DEF VersionsOK, EditsKeepTheBoard

\* Changing who can read a version.
LEMMA Retouched ==
  ASSUME EditorTypeOK, EditsKeepTheBoard, versions' \in Seq(Version),
         Len(versions') = Len(versions), SameText(versions, versions')
  PROVE  VersionsOK(versions') /\ EditsKeepTheBoard'
<1>1. Len(versions) \in Nat
  BY LenProperties DEF EditorTypeOK, VersionsOK
<1>2. ASSUME NEW v \in 1 .. Len(versions')
      PROVE  /\ versions'[v].board \in 1 .. v
             /\ versions'[v].by = versions'[versions'[v].board].by
  BY <1>1, VersionAt DEF SameText, EditsKeepTheBoard
<1> QED BY <1>2 DEF VersionsOK, EditsKeepTheBoard

\* The displayed board is the same after a step that keeps the texts.
LEMMA SameShown ==
  ASSUME EditorTypeOK, SameText(versions, versions'), UNCHANGED <<shown, user>>,
         Len(versions') \in Nat
  PROVE  /\ shown' \in 0 .. Len(versions') /\ Seed(shown)' = Seed(shown)
         /\ CanEdit(user)' <=> CanEdit(user)
<1>1. Len(versions) \in Nat
  BY LenProperties DEF EditorTypeOK, VersionsOK
<1> QED BY <1>1 DEF EditorTypeOK, SameText, Seed, CanEdit

\* What the dialog may hold.
LEMMA SeedTyped ==
  ASSUME EditorTypeOK, NEW v \in 0 .. Len(versions)
  PROVE  Seed(v) \in Texts \cup {Blank}
<1>1. Len(versions) \in Nat
  BY LenProperties DEF EditorTypeOK, VersionsOK
<1> QED BY <1>1, VersionAt DEF Seed

\* The records of a submission.
LEMMA SavesTyped ==
  ASSUME EditorTypeOK, NEW s \in Saves
  PROVE  /\ saves[s] \in Save
         /\ \A step \in Steps : Over(s, step) \in Save
         /\ \A step \in Steps : Over(s, step).version = saves[s].version
         /\ Again(s) \in Save /\ Again(s).version = saves[s].version
<1>1. saves[s] \in Save
  BY DEF EditorTypeOK, SavesOK
<1>2. Len(Delays) \in Nat /\ Len(Delays) >= 1
  BY LenProperties, EmptySeq
<1>3. ASSUME NEW step \in Steps
      PROVE  Over(s, step) \in Save /\ Over(s, step).version = saves[s].version
  <2>1. saves[s].version \in Nat /\ 0 \in 0 .. Len(Delays)
    BY <1>1, <1>2 DEF Save
  <2> QED BY <2>1, <1>3 DEF Over, At, Save
<1>4. ASSUME saves[s].attempt < Len(Delays)
      PROVE  Delays[saves[s].attempt + 1] \in Nat
  <2>1. saves[s].attempt + 1 \in 1 .. Len(Delays)
    BY <1>1, <1>2, <1>4 DEF Save
  <2> QED BY <2>1, ElementOfSeq
<1>5. "waiting" \in Steps /\ "gaveUp" \in Steps
  BY DEF Steps
<1>6. Again(s) \in Save /\ Again(s).version = saves[s].version
  <2>1. CASE saves[s].attempt < Len(Delays)
    <3>1. /\ saves[s].attempt + 1 \in 0 .. Len(Delays)
          /\ Delays[saves[s].attempt + 1] \in Nat
      BY <1>1, <1>2, <1>4, <2>1 DEF Save
    <3>2. Over(s, "waiting") \in Save /\ Over(s, "waiting").version = saves[s].version
      BY <1>3, <1>5
    <3>3. Again(s) = [Over(s, "waiting") EXCEPT !.attempt = saves[s].attempt + 1,
                                                !.wait = Delays[saves[s].attempt + 1]]
      BY <2>1 DEF Again
    <3> QED BY <3>1, <3>2, <3>3 DEF Save
  <2>2. CASE ~(saves[s].attempt < Len(Delays))
    BY <1>3, <1>5, <2>2 DEF Again
  <2> QED BY <2>1, <2>2
<1> QED BY <1>1, <1>3, <1>6

\* One submission goes on.
LEMMA OneGoesOn ==
  ASSUME NEW ss, NEW n \in Nat, SavesOK(ss, n), NEW s \in Saves, ss[s].step # "none",
         NEW new \in Save, new.version = ss[s].version
  PROVE  SavesOK([ss EXCEPT ![s] = new], n)
<1> DEFINE next == [ss EXCEPT ![s] = new]
<1>1. next \in [Saves -> Save]
  BY DEF SavesOK
<1>2. ASSUME NEW r \in Saves
      PROVE  next[r].version \in 0 .. n /\ (next[r].version = 0 => next[r].step = "none")
  <2>1. /\ ss \in [Saves -> Save]
        /\ ss[r].version \in 0 .. n /\ (ss[r].version = 0 => ss[r].step = "none")
        /\ ss[s].version \in 0 .. n /\ (ss[s].version = 0 => ss[s].step = "none")
    BY DEF SavesOK
  <2>2. CASE r = s
    <3>1. next[r] = new
      BY <2>1, <2>2, Zenon
    <3> QED BY <2>1, <3>1
  <2>3. CASE r # s
    <3>1. next[r] = ss[r]
      BY <2>1, <2>3, Zenon
    <3> QED BY <2>1, <3>1
  <2> QED BY <2>2, <2>3
<1> QED BY <1>1, <1>2 DEF SavesOK

\* The dialog is gone for all of them.
LEMMA AllDetached ==
  ASSUME NEW n \in Nat, SavesOK(saves, n)
  PROVE  /\ SavesOK(Detached, n)
         /\ \A s \in Saves : /\ Detached[s].version = saves[s].version
                             /\ Detached[s].step = saves[s].step
<1>1. ASSUME NEW s \in Saves
      PROVE  /\ Detached[s] \in Save /\ Detached[s].version = saves[s].version
             /\ Detached[s].step = saves[s].step
  BY DEF SavesOK, Detached, Save
<1>2. Detached \in [Saves -> Save]
  BY <1>1 DEF Detached
<1> QED BY <1>1, <1>2 DEF SavesOK

-----------------------------------------------------------------------------
\* The part of the invariant that is about the editor.
EditorInv == EditorTypeOK /\ ClosedFormIsTheBoard /\ EditsKeepTheBoard /\ OwnerEdits

\* The users between which a step of the session may switch.
UserOK == user' \in Accounts \cup {NoUser}

\* A step that leaves the editor alone, and a user who may be editing too.
LEMMA EditorStutters ==
  ASSUME EditorInv, UNCHANGED editor, (open /\ shown # 0) => user' = user
  PROVE  EditorInv'
BY DEF EditorInv, EditorTypeOK, ClosedFormIsTheBoard, EditsKeepTheBoard, OwnerEdits,
       CanEdit, Seed, editor

\* The dialog follows the user.
LEMMA FollowingKeeps ==
  ASSUME EditorInv, FollowsUser, UNCHANGED <<versions, shown, labels, trouble, others>>
  PROVE  EditorInv'
<1>1. CASE CanEdit(user) /\ ~CanEdit(user')
  <2>1. Fresh(shown) /\ SavesOK(saves', Len(versions))
    BY <1>1, AllDetached, LenProperties DEF FollowsUser, EditorInv, EditorTypeOK, VersionsOK
  <2>2. Seed(shown) \in Texts \cup {Blank} /\ Seed(shown)' = Seed(shown)
    BY SeedTyped DEF EditorInv, EditorTypeOK, Seed
  <2>3. EditorTypeOK'
    BY <2>1, <2>2 DEF EditorInv, EditorTypeOK, Fresh
  <2> QED BY <2>1, <2>2, <2>3 DEF EditorInv, Fresh, ClosedFormIsTheBoard,
             EditsKeepTheBoard, OwnerEdits
<1>2. CASE ~(CanEdit(user) /\ ~CanEdit(user'))
  <2>1. UNCHANGED <<open, form, pending, saves>>
    BY <1>2 DEF FollowsUser
  <2> QED BY <1>2, <2>1 DEF EditorInv, EditorTypeOK, ClosedFormIsTheBoard,
             EditsKeepTheBoard, OwnerEdits, CanEdit, Seed
<1> QED BY <1>1, <1>2

\* The dialog opens, for the owner on the page of a board.
LEMMA OpeningKeeps ==
  ASSUME EditorInv, Opens, shown # 0 => CanEdit(user'),
         UNCHANGED <<versions, shown, saves, labels, trouble, others>>
  PROVE  EditorInv'
BY DEF EditorInv, EditorTypeOK, Opens, ClosedFormIsTheBoard, EditsKeepTheBoard,
       OwnerEdits, CanEdit, Seed

\* A step of the session, as the editor takes part in it.
LEMMA SessionStepKeeps ==
  ASSUME EditorInv, SessionTypeOK, NewBoard \/ SignIn \/ SignOut \/ SignInSteps
  PROVE  EditorInv'
<1>1. CASE NewBoard
  <2>1. CASE user = NoUser
    BY <1>1, <2>1, EditorStutters DEF NewBoard, editor
  <2>2. CASE user # NoUser
    BY <1>1, <2>2, OpeningKeeps DEF NewBoard
  <2> QED BY <2>1, <2>2
<1>2. CASE SignIn
  <2>1. CASE shown = 0 /\ stash # NoAct
    BY <1>2, <2>1, OpeningKeeps DEF SignIn
  <2>2. CASE ~(shown = 0 /\ stash # NoAct)
    BY <1>2, <2>2, FollowingKeeps DEF SignIn
  <2> QED BY <2>1, <2>2
<1>3. CASE SignOut
  BY <1>3, FollowingKeeps DEF SignOut
<1>4. CASE SignInSteps
  <2>1. open /\ shown # 0 => user \in Accounts
    BY VersionAt DEF EditorInv, EditorTypeOK, OwnerEdits, CanEdit
  <2>2. open /\ shown # 0 => user' = user
    BY <1>4, <2>1 DEF SignInSteps, Prompt, CloseLogin, StartLogin, LoginFails, Restore
  <2> QED BY <1>4, <2>2, EditorStutters DEF SignInSteps
<1> QED BY <1>1, <1>2, <1>3, <1>4

-----------------------------------------------------------------------------
\* A submission goes on, and nothing else changes that the invariant is about.
LEMMA LoopKeeps ==
  ASSUME EditorInv, SavesOK(saves', Len(versions)), labels' \subseteq 1 .. Len(versions),
         trouble' \in [lag : Nat, faults : Nat],
         UNCHANGED <<user, versions, shown, open, form, others>>,
         pending' \in BOOLEAN, ~open => ~pending'
  PROVE  EditorInv'
BY DEF EditorInv, EditorTypeOK, ClosedFormIsTheBoard, EditsKeepTheBoard,
       OwnerEdits, CanEdit, Seed

\* A version is added, the page stays.
LEMMA AddingKeeps ==
  ASSUME EditorInv, NEW new \in Version,
         \/ new.board = Len(versions) + 1
         \/ new.board \in 1 .. Len(versions) /\ new.by = versions[new.board].by,
         versions' = Append(versions, new),
         SavesOK(saves', Len(versions) + 1),
         UNCHANGED <<user, shown, open, form, labels, trouble>>,
         pending' \in BOOLEAN, ~open => ~pending', others' \in Nat
  PROVE  EditorInv'
<1>1. /\ VersionsOK(versions') /\ EditsKeepTheBoard' /\ SameText(versions, versions')
      /\ Len(versions') = Len(versions) + 1 /\ Len(versions) \in Nat
  BY Appended DEF EditorInv
<1>2. /\ shown' \in 0 .. Len(versions') /\ Seed(shown)' = Seed(shown)
      /\ CanEdit(user)' <=> CanEdit(user)
  BY <1>1, SameShown DEF EditorInv
<1>3. EditorTypeOK'
  BY <1>1, <1>2 DEF EditorInv, EditorTypeOK
<1> QED BY <1>1, <1>2, <1>3 DEF EditorInv, ClosedFormIsTheBoard, OwnerEdits

\* Versions get readable, the page stays.
LEMMA SpreadingKeeps ==
  ASSUME EditorInv, versions' \in Seq(Version), Len(versions') = Len(versions),
         SameText(versions, versions'), SavesOK(saves', Len(versions)),
         UNCHANGED <<user, shown, open, form, pending, labels, trouble, others>>
  PROVE  EditorInv'
<1>1. /\ VersionsOK(versions') /\ EditsKeepTheBoard' /\ Len(versions) \in Nat
  BY Retouched, LenProperties DEF EditorInv, EditorTypeOK, VersionsOK
<1>2. /\ shown' \in 0 .. Len(versions') /\ Seed(shown)' = Seed(shown)
      /\ CanEdit(user)' <=> CanEdit(user)
  BY <1>1, SameShown DEF EditorInv
<1>3. EditorTypeOK'
  BY <1>1, <1>2 DEF EditorInv, EditorTypeOK
<1> QED BY <1>1, <1>2, <1>3 DEF EditorInv, ClosedFormIsTheBoard, OwnerEdits

-----------------------------------------------------------------------------
\* A step of the page, of a submission or of the service.
LEMMA OtherStepKeeps ==
  ASSUME EditorInv, SessionTypeOK, Next, ~(NewBoard \/ SignIn \/ SignOut \/ SignInSteps)
  PROVE  EditorInv' /\ UNCHANGED session
<1>t. /\ versions \in Seq(Version) /\ Len(versions) \in Nat
      /\ SavesOK(saves, Len(versions)) /\ shown \in 0 .. Len(versions)
      /\ open \in BOOLEAN /\ form \in Texts \cup {Blank} /\ pending \in BOOLEAN
      /\ labels \subseteq 1 .. Len(versions)
      /\ trouble \in [lag : Nat, faults : Nat] /\ others \in Nat
  BY LenProperties DEF EditorInv, EditorTypeOK, VersionsOK
<1>s. \A s \in Saves : /\ saves[s] \in Save
                       /\ saves[s].step # "none" => saves[s].version \in 1 .. Len(versions)
  BY <1>t DEF SavesOK
<1>u. user \in Accounts \cup {NoUser}
  BY DEF SessionTypeOK
<1>1. CASE OpenEdit
  <2>1. UNCHANGED session
    BY <1>1 DEF OpenEdit
  <2>2. CanEdit(user')
    BY <1>1, <2>1 DEF OpenEdit, session, CanEdit
  <2> QED BY <1>1, <2>1, <2>2, OpeningKeeps DEF OpenEdit
<1>2. CASE Type
  BY <1>2, <1>t DEF Type, session, EditorInv, EditorTypeOK, ClosedFormIsTheBoard,
     EditsKeepTheBoard, OwnerEdits, CanEdit, Seed
<1>3. CASE Cancel
  <2>1. Seed(shown) \in Texts \cup {Blank}
    BY SeedTyped DEF EditorInv, EditorTypeOK
  <2> QED BY <1>3, <1>t, <2>1 DEF Cancel, Closed, session, EditorInv, EditorTypeOK,
             ClosedFormIsTheBoard, EditsKeepTheBoard, OwnerEdits, CanEdit, Seed
<1>4. CASE OtherEdit
  <2>1. PICK text \in Texts : versions' = Append(versions, [versions[shown] EXCEPT
                     !.text = text, !.reached = TRUE, !.left = trouble.lag])
    BY <1>4 DEF OtherEdit
  <2> DEFINE new == [versions[shown] EXCEPT !.text = text, !.reached = TRUE,
                                            !.left = trouble.lag]
  <2>2. shown \in 1 .. Len(versions) /\ trouble.lag \in Nat
    BY <1>4, <1>t DEF OtherEdit
  <2>3. /\ versions[shown] \in Version /\ versions[shown].board \in 1 .. Len(versions)
        /\ versions[shown].by = versions[versions[shown].board].by
    BY <2>2, VersionAt DEF EditorInv, EditsKeepTheBoard
  <2>4. /\ new \in Version /\ new.board = versions[shown].board
        /\ new.by = versions[shown].by
    BY <2>2, <2>3 DEF Version
  <2>5. SavesOK(saves', Len(versions) + 1)
    BY <1>4, <1>t DEF OtherEdit, SavesOK
  <2>a. versions' = Append(versions, new)
    BY <2>1
  <2> HIDE DEF new
  <2>6. /\ UNCHANGED <<user, shown, open, form, labels, trouble>>
        /\ pending' = pending /\ others' \in Nat /\ (~open => ~pending)
    BY <1>4, <1>t DEF OtherEdit, session, EditorInv, ClosedFormIsTheBoard
  <2>7. EditorInv'
    <3>1. new.board \in 1 .. Len(versions) /\ new.by = versions[new.board].by
      BY <2>3, <2>4
    <3>2. pending' \in BOOLEAN /\ (~open => ~pending')
      BY <1>t, <2>6
    <3> QED BY <2>a, <2>4, <2>5, <2>6, <3>1, <3>2, AddingKeeps
  <2> QED BY <1>4, <2>7 DEF OtherEdit
<1>5. CASE Tick
  <2> DEFINE spread(v) == IF versions[v].reached /\ versions[v].left > 0
                          THEN [versions[v] EXCEPT !.left = @ - 1] ELSE versions[v]
             later(s) == IF saves[s].step = "waiting"
                         THEN [saves[s] EXCEPT !.wait = @ - 1] ELSE saves[s]
  <2>1. ASSUME NEW v \in 1 .. Len(versions)
        PROVE  /\ spread(v) \in Version /\ spread(v).board = versions[v].board
               /\ spread(v).by = versions[v].by /\ spread(v).text = versions[v].text
    <3>1. versions[v] \in Version
      BY VersionAt DEF EditorInv
    <3>2. CASE versions[v].reached /\ versions[v].left > 0
      <4>1. versions[v].left - 1 \in Nat
        BY <3>1, <3>2 DEF Version
      <4>2. spread(v) = [versions[v] EXCEPT !.left = versions[v].left - 1]
        BY <3>2
      <4> HIDE DEF spread
      <4> QED BY <3>1, <4>1, <4>2 DEF Version
    <3>3. CASE ~(versions[v].reached /\ versions[v].left > 0)
      BY <3>1, <3>3
    <3> QED BY <3>2, <3>3
  <2>2. /\ versions' \in Seq(Version) /\ Len(versions') = Len(versions)
        /\ SameText(versions, versions')
    <3>1. versions' = [v \in 1 .. Len(versions) |-> spread(v)]
      BY <1>5 DEF Tick
    <3> HIDE DEF spread
    <3>2. versions' \in [1 .. Len(versions) -> Version]
      BY <2>1, <3>1
    <3>3. versions' \in Seq(Version) /\ Len(versions') = Len(versions)
      BY <1>t, <3>2
    <3> QED BY <1>t, <2>1, <3>1, <3>3 DEF SameText
  <2>3. ASSUME NEW s \in Saves
        PROVE  /\ later(s) \in Save /\ later(s).version = saves[s].version
               /\ later(s).step = saves[s].step
    <3>1. CASE saves[s].step = "waiting"
      <4>1. saves[s].wait \in Nat /\ saves[s].wait > 0
        BY <1>5, <1>s, <3>1 DEF Tick, Save
      <4>2. saves[s].wait - 1 \in Nat
        BY <4>1
      <4> QED BY <1>s, <3>1, <4>2 DEF Save
    <3>2. CASE saves[s].step # "waiting"
      BY <1>s, <3>2 DEF Save
    <3> QED BY <3>1, <3>2
  <2>4. SavesOK(saves', Len(versions))
    <3>1. saves' = [s \in Saves |-> later(s)]
      BY <1>5 DEF Tick
    <3> HIDE DEF later
    <3> QED BY <1>t, <2>3, <3>1 DEF SavesOK
  <2>5. UNCHANGED <<user, shown, open, form, pending, labels, trouble, others>>
    BY <1>5 DEF Tick, session
  <2> QED BY <1>5, <2>2, <2>4, <2>5, SpreadingKeeps DEF Tick
<1>6. ASSUME NEW s \in Saves, Submit(s)
      PROVE  EditorInv' /\ UNCHANGED session
  <2> DEFINE board == IF shown = 0 THEN Len(versions) + 1 ELSE versions[shown].board
             new == [board |-> board, by |-> user, text |-> form,
                     reached |-> FALSE, left |-> trouble.lag]
             sent == [saves[s] EXCEPT !.step = "publishing", !.version = Len(versions) + 1,
                                      !.creates = (shown = 0), !.on = TRUE]
  <2>1. /\ versions' = Append(versions, new) /\ saves' = [saves EXCEPT ![s] = sent]
        /\ open /\ form \in Texts /\ user \in Accounts /\ pending' = TRUE
        /\ UNCHANGED <<session, user, shown, open, form, labels, trouble, others>>
    BY <1>6, <1>t, <1>u DEF Submit, session
  <2>2. new \in Version /\ new.board = board /\ new.by = user
    <3>1. board \in Nat /\ trouble.lag \in Nat
      BY <1>t, VersionAt DEF EditorInv
    <3> QED BY <2>1, <3>1 DEF Version
  <2>3. \/ new.board = Len(versions) + 1
        \/ new.board \in 1 .. Len(versions) /\ new.by = versions[new.board].by
    <3>1. CASE shown = 0
      BY <2>2, <3>1
    <3>2. CASE shown # 0
      <4>1. shown \in 1 .. Len(versions) /\ user = versions[shown].by
        BY <1>t, <2>1, <3>2 DEF EditorInv, OwnerEdits, CanEdit
      <4>2. /\ versions[shown].board \in 1 .. Len(versions)
            /\ versions[shown].by = versions[versions[shown].board].by
        BY <4>1, VersionAt DEF EditorInv, EditsKeepTheBoard
      <4> QED BY <2>2, <3>2, <4>1, <4>2
    <3> QED BY <3>1, <3>2
  <2>4. SavesOK(saves', Len(versions) + 1)
    <3>1. sent \in Save /\ sent.version = Len(versions) + 1
      <4>1. /\ saves[s] \in Save /\ Len(versions) + 1 \in Nat /\ (shown = 0) \in BOOLEAN
            /\ "publishing" \in Steps
        BY <1>t, <1>s DEF Steps
      <4> QED BY <4>1 DEF Save
    <3> HIDE DEF sent
    <3>2. saves' \in [Saves -> Save]
      BY <1>t, <2>1, <3>1 DEF SavesOK
    <3>3. ASSUME NEW r \in Saves
          PROVE  /\ saves'[r].version \in 0 .. Len(versions) + 1
                 /\ saves'[r].version = 0 => saves'[r].step = "none"
      <4>1. saves'[r] = IF r = s THEN sent ELSE saves[r]
        BY <1>t, <2>1 DEF SavesOK
      <4> QED BY <1>t, <3>1, <4>1 DEF SavesOK
    <3> QED BY <3>2, <3>3 DEF SavesOK
  <2> HIDE DEF new, sent
  <2> QED BY <1>t, <2>1, <2>2, <2>3, <2>4, AddingKeeps
<1>7. ASSUME NEW s \in Saves, Reaches(s)
      PROVE  EditorInv' /\ UNCHANGED session
  <2> DEFINE v == saves[s].version
             new == [versions[v] EXCEPT !.reached = TRUE]
             sent == [saves[s] EXCEPT !.step = "reached"]
  <2>1. v \in 1 .. Len(versions) /\ saves[s].step # "none"
    BY <1>7, <1>s DEF Reaches
  <2>2. /\ versions' = [versions EXCEPT ![v] = new] /\ saves' = [saves EXCEPT ![s] = sent]
        /\ UNCHANGED <<session, user, shown, open, form, pending, labels, trouble, others>>
    BY <1>7 DEF Reaches, session
  <2>3. /\ new \in Version /\ new.board = versions[v].board
        /\ new.by = versions[v].by /\ new.text = versions[v].text
    <3>1. versions[v] \in Version
      BY <2>1, VersionAt DEF EditorInv
    <3> QED BY <3>1 DEF Version
  <2>4. sent \in Save /\ sent.version = saves[s].version
    BY <1>s DEF Save, Steps
  <2> HIDE DEF v, new, sent
  <2>5. SavesOK(saves', Len(versions))
    BY <1>t, <2>1, <2>2, <2>4, OneGoesOn
  <2>6. /\ versions' \in Seq(Version) /\ Len(versions') = Len(versions)
        /\ \A j \in 1 .. Len(versions) : versions'[j] = IF j = v THEN new ELSE versions[j]
    BY <1>t, <2>1, <2>2, <2>3, ExceptSeq
  <2>7. SameText(versions, versions')
    BY <1>t, <2>3, <2>6 DEF SameText
  <2> QED BY <2>2, <2>5, <2>6, <2>7, SpreadingKeeps
<1>8. ASSUME NEW s \in Saves, Settles(s)
      PROVE  EditorInv' /\ UNCHANGED session
  <2> DEFINE after == [Over(s, "waiting") EXCEPT !.attempt = 1, !.wait = Delays[1]]
             v == saves[s].version
  <2>1. after \in Save /\ after.version = v
    <3>1. /\ Over(s, "waiting") \in Save /\ Over(s, "waiting").version = v
      BY SavesTyped DEF EditorInv, Steps
    <3>2. Delays[1] \in Nat /\ 1 \in 0 .. Len(Delays)
      BY LenProperties, EmptySeq, ElementOfSeq
    <3> QED BY <3>1, <3>2 DEF Save
  <2>2. /\ v \in 1 .. Len(versions) /\ saves[s].step # "none"
        /\ UNCHANGED <<session, user, versions, labels, trouble, others>>
    BY <1>8, <1>s DEF Settles, session
  <2>3. CASE saves[s].creates
    <3>1. shown' = v /\ Fresh(v) /\ saves' = [Detached EXCEPT ![s] = after]
      BY <1>8, <2>3 DEF Settles
    <3>2. SavesOK(saves', Len(versions))
      <4>1. SavesOK(Detached, Len(versions)) /\ Detached[s].step # "none"
            /\ Detached[s].version = v
        BY <1>t, <2>2, AllDetached
      <4> HIDE DEF after, v
      <4> QED BY <1>t, <2>1, <3>1, <4>1, OneGoesOn
    <3>3. Seed(v) \in Texts \cup {Blank} /\ Seed(shown)' = Seed(v)
      <4>1. Seed(v) \in Texts \cup {Blank}
        BY <1>t, <2>2, SeedTyped DEF EditorInv
      <4>2. Seed(shown)' = Seed(v)
        BY <2>2, <3>1 DEF Seed
      <4> QED BY <4>1, <4>2
    <3>4. EditorTypeOK'
      <4>1. VersionsOK(versions') /\ SavesOK(saves', Len(versions'))
        BY <2>2, <3>2 DEF EditorInv, EditorTypeOK
      <4>2. shown' \in 0 .. Len(versions')
        BY <1>t, <2>2, <3>1
      <4>3. open' \in BOOLEAN /\ form' \in Texts \cup {Blank} /\ pending' \in BOOLEAN
        BY <3>1, <3>3 DEF Fresh
      <4> QED BY <1>t, <2>2, <4>1, <4>2, <4>3 DEF EditorTypeOK
    <3> QED BY <2>2, <3>1, <3>3, <3>4 DEF EditorInv, Fresh, ClosedFormIsTheBoard,
               EditsKeepTheBoard, OwnerEdits
  <2>4. CASE ~saves[s].creates
    <3>1. /\ shown' = shown /\ saves' = [saves EXCEPT ![s] = after]
          /\ IF saves[s].on /\ open THEN Closed ELSE UNCHANGED <<open, form, pending>>
      BY <1>8, <2>4 DEF Settles
    <3>2. SavesOK(saves', Len(versions))
      <4> HIDE DEF after
      <4> QED BY <1>t, <2>1, <2>2, <3>1, OneGoesOn
    <3>3. Seed(shown) \in Texts \cup {Blank} /\ Seed(shown)' = Seed(shown)
      <4>1. Seed(shown) \in Texts \cup {Blank}
        BY <1>t, SeedTyped DEF EditorInv
      <4>2. Seed(shown)' = Seed(shown)
        BY <2>2, <3>1 DEF Seed
      <4> QED BY <4>1, <4>2
    <3>4. EditorTypeOK'
      BY <1>t, <2>2, <3>1, <3>2, <3>3 DEF EditorInv, EditorTypeOK, Closed
    <3> QED BY <2>2, <3>1, <3>3, <3>4 DEF EditorInv, Closed, ClosedFormIsTheBoard,
               EditsKeepTheBoard, OwnerEdits, CanEdit
  <2> QED BY <2>2, <2>3, <2>4
<1>9. ASSUME NEW s \in Saves, Fails(s)
      PROVE  EditorInv' /\ UNCHANGED session
  <2>1. Over(s, "refused") \in Save /\ Over(s, "refused").version = saves[s].version
    BY SavesTyped DEF EditorInv, Steps
  <2>2. SavesOK(saves', Len(versions))
    BY <1>9, <1>t, <2>1, OneGoesOn DEF Fails
  <2>3. trouble' \in [lag : Nat, faults : Nat]
    <3>1. trouble.faults - 1 \in Nat /\ trouble' = [trouble EXCEPT !.faults = trouble.faults - 1]
      BY <1>9, <1>t DEF Fails
    <3> QED BY <1>t, <3>1
  <2>4. pending' \in BOOLEAN /\ (~open => ~pending')
    BY <1>9, <1>t DEF Fails, EditorInv, ClosedFormIsTheBoard
  <2>5. UNCHANGED <<session, user, versions, shown, open, form, labels, others>>
    BY <1>9 DEF Fails, session
  <2> QED BY <1>t, <2>2, <2>3, <2>4, <2>5, LoopKeeps
<1>10. ASSUME NEW s \in Saves, Ask(s) \/ Answer(s) \/ TurnsDown(s) \/ FaultAnswer(s)
       PROVE  EditorInv' /\ UNCHANGED session
  <2>1. \A step \in Steps : Over(s, step) \in Save /\ Over(s, step).version = saves[s].version
    BY SavesTyped DEF EditorInv
  <2>2. /\ Again(s) \in Save /\ Again(s).version = saves[s].version
        /\ saves[s] \in Save /\ saves[s].step # "none"
    BY <1>10, SavesTyped DEF EditorInv, Ask, Answer, TurnsDown, FaultAnswer
  <2>3. [saves[s] EXCEPT !.step = "asking", !.signer = user] \in Save
    BY <1>u, <2>2 DEF Save, Steps
  <2>4. PICK new \in Save : new.version = saves[s].version /\ saves' = [saves EXCEPT ![s] = new]
    <3>1. CASE Ask(s)
      <4>1. \/ saves' = [saves EXCEPT ![s] = [saves[s] EXCEPT !.step = "asking", !.signer = user]]
            \/ saves' = [saves EXCEPT ![s] = Over(s, "dropped")]
        BY <3>1 DEF Ask
      <4>2. [saves[s] EXCEPT !.step = "asking", !.signer = user].version = saves[s].version
        BY <2>2 DEF Save
      <4> QED BY <2>1, <2>3, <4>1, <4>2 DEF Steps
    <3>2. CASE Answer(s)
      <4>1. CASE Readable(versions[saves[s].version].board) = {}
        BY <2>2, <3>2, <4>1 DEF Answer
      <4>2. CASE Readable(versions[saves[s].version].board) # {} /\ Attests(s)
        BY <2>1, <3>2, <4>2 DEF Answer, Steps
      <4>3. CASE Readable(versions[saves[s].version].board) # {} /\ ~Attests(s)
        BY <2>1, <3>2, <4>3 DEF Answer, Steps
      <4> QED BY <4>1, <4>2, <4>3
    <3>3. CASE FaultAnswer(s)
      BY <2>2, <3>3 DEF FaultAnswer
    <3>4. CASE TurnsDown(s)
      BY <2>1, <3>4 DEF TurnsDown, Steps
    <3> QED BY <1>10, <3>1, <3>2, <3>3, <3>4
  <2>5. SavesOK(saves', Len(versions))
    BY <1>t, <2>2, <2>4, OneGoesOn
  <2>6. labels' \subseteq 1 .. Len(versions)
    <3>1. Labelled(s) \subseteq 1 .. Len(versions)
      BY <1>t DEF Labelled, Newest, Readable
    <3> QED BY <1>10, <1>t, <3>1 DEF Ask, Answer, TurnsDown, FaultAnswer
  <2>7. trouble' \in [lag : Nat, faults : Nat]
    BY <1>10, <1>t DEF Ask, Answer, TurnsDown, FaultAnswer
  <2>8. UNCHANGED <<session, user, versions, shown, open, form, pending, others>>
    BY <1>10 DEF Ask, Answer, TurnsDown, FaultAnswer, session
  <2>9. pending' \in BOOLEAN /\ (~open => ~pending')
    BY <1>t, <2>8 DEF EditorInv, ClosedFormIsTheBoard
  <2> QED BY <2>5, <2>6, <2>7, <2>8, <2>9, LoopKeeps
<1>11. ASSUME NEW v \in 1 .. Len(versions), Displays(v)
       PROVE  EditorInv' /\ UNCHANGED session
  <2>1. /\ shown \in 1 .. Len(versions) /\ v > shown
        /\ versions[v].board = versions[shown].board /\ shown' = v
        /\ form' = (IF open THEN form ELSE versions[v].text)
        /\ pending' = (IF open THEN pending ELSE FALSE)
        /\ UNCHANGED <<session, user, versions, open, saves, labels, trouble, others>>
    BY <1>11, <1>t DEF Displays, session
  <2>2. versions[v].text \in Texts /\ versions[v].by = versions[shown].by
    BY <2>1, VersionAt DEF EditorInv, EditsKeepTheBoard
  <2>3. Seed(shown)' = versions[v].text
    BY <2>1 DEF Seed
  <2>4. EditorTypeOK'
    <3>1. form' \in Texts \cup {Blank} /\ pending' \in BOOLEAN
      BY <1>t, <2>1, <2>2
    <3>2. UNCHANGED <<versions, open, saves, labels, trouble, others>>
      BY <2>1
    <3>3. VersionsOK(versions') /\ SavesOK(saves', Len(versions'))
      BY <3>2 DEF EditorInv, EditorTypeOK
    <3>4. shown' \in 0 .. Len(versions')
      BY <1>t, <2>1, <3>2
    <3> QED BY <1>t, <3>1, <3>2, <3>3, <3>4 DEF EditorTypeOK
  <2>5. CanEdit(user) => CanEdit(user)'
    BY <2>1, <2>2 DEF CanEdit
  <2> QED BY <2>1, <2>2, <2>3, <2>4, <2>5 DEF EditorInv, ClosedFormIsTheBoard,
             EditsKeepTheBoard, OwnerEdits
<1> QED BY <1>1, <1>2, <1>3, <1>4, <1>5, <1>6, <1>7, <1>8, <1>9, <1>10, <1>11 DEF Next

-----------------------------------------------------------------------------
\* The invariant is that of the session and that of the editor.
LEMMA IInvSplits == IInv <=> SessionTypeOK /\ StashIsPromise /\ EditorInv
BY TypeSplits DEF IInv, EditorInv

\* The steps that are the session's own.
LEMMA SessionSteps ==
  ASSUME NewBoard \/ SignIn \/ SignOut \/ SignInSteps
  PROVE  \/ Gated \/ Prompt \/ CloseLogin \/ Restore \/ LogOut
         \/ \E l \in Logins : StartLogin(l) \/ LoginFails(l)
         \/ \E l \in Logins, account \in Accounts : LoggedIn(l, account)
BY DEF NewBoard, SignIn, SignOut, SignInSteps

\* The same after a step.
LEMMA IInvJoins ==
  ASSUME SessionTypeOK', StashIsPromise', EditorInv'
  PROVE  IInv'
BY DEF IInv, EditorInv, TypeOK, EditorTypeOK, VersionsOK, SavesOK

\* It holds when the page is loaded.
LEMMA Initially ==
  ASSUME Init
  PROVE  IInv
<1>1. SessionTypeOK /\ StashIsPromise
  <2>1. /\ user \in Accounts \cup {NoUser} /\ stored \in Accounts \cup {NoUser}
        /\ loginOpen \in BOOLEAN /\ busy \in BOOLEAN
        /\ acts = 0 /\ stash = 0 /\ promised = 0
    BY DEF Init, SessionInit, NoAct
  <2>2. logins \in [Logins -> {"unused", "flying", "over"}]
    BY DEF Init, SessionInit
  <2>3. ran \in [Acts -> 0 .. 1] /\ \A n \in Acts : ran[n] = 0
    BY DEF Init, SessionInit
  <2>4. SessionTypeOK
    BY <2>1, <2>2, <2>3 DEF SessionTypeOK
  <2> QED BY <2>1, <2>3, <2>4 DEF StashIsPromise, NoAct
<1>2. trouble \in [lag : Nat, faults : Nat]
  BY DEF Init
<1>3. /\ VersionsOK(versions) /\ EditsKeepTheBoard /\ shown \in 0 .. Len(versions)
      /\ Seed(shown) \in Texts \cup {Blank}
  <2>1. CASE shown = 0
    BY <2>1 DEF Init, VersionsOK, EditsKeepTheBoard, Seed
  <2>2. CASE shown = 1
    <3> DEFINE first == [board |-> 1, by |-> Owner, text |-> CHOOSE t \in Texts : TRUE,
                         reached |-> TRUE, left |-> 0]
    <3>1. versions = <<first>>
      BY <2>2 DEF Init
    <3>2. first \in Version /\ first.board = 1 /\ first.text \in Texts
      BY DEF Version
    <3> HIDE DEF first
    <3>3. versions \in Seq(Version) /\ Len(versions) = 1 /\ versions[1] = first
      BY <3>1, <3>2
    <3> QED BY <2>2, <3>2, <3>3 DEF VersionsOK, EditsKeepTheBoard, Seed
  <2> QED BY <2>1, <2>2 DEF Init
<1>4. SavesOK(saves, Len(versions))
  <2>1. Len(Delays) \in Nat /\ Len(versions) \in Nat
    BY <1>3, LenProperties DEF VersionsOK
  <2>2. At("none", 0) \in Save
    BY <2>1 DEF At, Save, Steps
  <2>3. At("none", 0).version = 0 /\ At("none", 0).step = "none"
    BY DEF At
  <2> QED BY <2>1, <2>2, <2>3 DEF Init, SavesOK
<1>5. EditorTypeOK
  BY <1>2, <1>3, <1>4 DEF Init, EditorTypeOK
<1> QED BY <1>1, <1>3, <1>5, IInvSplits DEF Init, EditorInv, ClosedFormIsTheBoard, OwnerEdits

\* Every step keeps it.
LEMMA Inductive ==
  ASSUME IInv, [Next]_vars
  PROVE  IInv'
<1>i. SessionTypeOK /\ StashIsPromise /\ EditorInv
  BY IInvSplits
<1>1. CASE NewBoard \/ SignIn \/ SignOut \/ SignInSteps
  <2>1. SessionTypeOK' /\ StashIsPromise'
    BY <1>i, <1>1, SessionSteps, SessionKeeps
  <2>2. EditorInv'
    BY <1>i, <1>1, SessionStepKeeps
  <2> QED BY <2>1, <2>2, IInvJoins
<1>2. CASE Next /\ ~(NewBoard \/ SignIn \/ SignOut \/ SignInSteps)
  <2>1. EditorInv' /\ UNCHANGED session
    BY <1>i, <1>2, OtherStepKeeps
  <2> QED BY <1>i, <2>1, SessionStutters, IInvJoins
<1>3. CASE UNCHANGED vars
  <2>1. UNCHANGED session /\ UNCHANGED editor /\ user' = user
    BY <1>3 DEF vars, session
  <2> QED BY <1>i, <2>1, SessionStutters, EditorStutters, IInvJoins
<1> QED BY <1>1, <1>2, <1>3

\* The inductive invariant holds.
THEOREM Invariant == Spec => []IInv
<1>1. Init => IInv
  BY Initially
<1>2. IInv /\ [Next]_vars => IInv'
  BY Inductive
<1> QED BY <1>1, <1>2, PTL DEF Spec

\* The session and the editor stay within their types.
THEOREM TypeCorrect == Spec => []TypeOK
<1>1. IInv => TypeOK
  BY DEF IInv
<1> QED BY <1>1, Invariant, PTL

\* No dialog reopens on a stale draft (board-dialog.tsx, seedFromBoard and reset).
THEOREM DialogShowsTheBoard == Spec => []ClosedFormIsTheBoard
<1>1. IInv => ClosedFormIsTheBoard
  BY DEF IInv
<1> QED BY <1>1, Invariant, PTL

\* A board is only edited by its owner, whoever signs in meanwhile (board-feed.tsx, canEdit).
THEOREM OnlyTheOwnerEdits == Spec => []EditsKeepTheBoard
<1>1. IInv => EditsKeepTheBoard
  BY DEF IInv
<1> QED BY <1>1, Invariant, PTL

\* What OnlyWantedClicksRun says of one step.
WantedStep ==
  /\ \A n \in Acts : ran'[n] # ran[n] =>
       /\ ran'[n] = 1 /\ user' # NoUser
       /\ n > acts \/ (n = promised /\ logins' # logins)
  /\ user = NoUser /\ user' # NoUser /\ logins' # logins /\ promised # NoAct
       => ran'[promised] = 1

\* Every step of the session is as the gate promises.
LEMMA EveryStepIsWanted ==
  ASSUME IInv, [Next]_vars
  PROVE  WantedStep \/ UNCHANGED session
<1>i. SessionTypeOK /\ StashIsPromise /\ EditorInv
  BY IInvSplits
<1> USE DEF Acts, NoAct
<1>1. CASE Gated
  <2>1. acts' \in Acts /\ acts' > acts /\ ran[acts'] = 0 /\ logins' = logins
    BY <1>1, <1>i DEF Gated, SessionTypeOK, StashIsPromise
  <2>2. CASE user = NoUser
    BY <1>1, <2>1, <2>2 DEF Gated, WantedStep
  <2>3. CASE user # NoUser
    <3>1. Run(acts') /\ user' = user
      BY <1>1, <2>3 DEF Gated
    <3>2. ran'[acts'] = 1 /\ \A m \in Acts : m # acts' => ran'[m] = ran[m]
      BY <1>i, <2>1, <3>1, RunOnce DEF SessionTypeOK
    <3> QED BY <2>1, <2>3, <3>1, <3>2 DEF WantedStep
  <2> QED BY <2>2, <2>3
<1>2. CASE Prompt \/ CloseLogin \/ Restore \/ LogOut
  BY <1>2 DEF Prompt, CloseLogin, Restore, LogOut, WantedStep
<1>3. ASSUME NEW l \in Logins, StartLogin(l) \/ LoginFails(l)
      PROVE  WantedStep
  BY <1>3 DEF StartLogin, LoginFails, WantedStep
<1>4. ASSUME NEW l \in Logins, NEW account \in Accounts, LoggedIn(l, account)
      PROVE  WantedStep
  <2>1. user' # NoUser /\ logins' # logins
    BY <1>4, <1>i DEF LoggedIn, SessionTypeOK
  <2>2. CASE stash = NoAct
    <3>1. ran' = ran
      BY <1>4, <2>2 DEF LoggedIn
    <3>2. promised # NoAct => ran[promised] = 1
      BY <1>i, <2>2 DEF SessionTypeOK, StashIsPromise
    <3> QED BY <3>1, <3>2 DEF WantedStep
  <2>3. CASE stash # NoAct
    <3>1. stash \in Acts /\ stash = promised /\ ran[stash] = 0 /\ Run(stash)
      BY <1>4, <1>i, <2>3 DEF LoggedIn, SessionTypeOK, StashIsPromise
    <3>2. ran'[stash] = 1 /\ \A m \in Acts : m # stash => ran'[m] = ran[m]
      BY <1>i, <3>1, RunOnce DEF SessionTypeOK
    <3> QED BY <2>1, <3>1, <3>2 DEF WantedStep
  <2> QED BY <2>2, <2>3
<1>5. CASE NewBoard \/ SignIn \/ SignOut \/ SignInSteps
  BY <1>1, <1>2, <1>3, <1>4, <1>5, SessionSteps
<1>6. CASE Next /\ ~(NewBoard \/ SignIn \/ SignOut \/ SignInSteps)
  BY <1>i, <1>6, OtherStepKeeps
<1>7. CASE UNCHANGED vars
  BY <1>7 DEF vars
<1> QED BY <1>5, <1>6, <1>7

\* The gate runs what was asked for, once, for a signed-in user (login-gate.tsx).
THEOREM ClicksAreHonoured == Spec => OnlyWantedClicksRun
<1>1. IInv /\ [Next]_vars => [WantedStep]_session
  BY EveryStepIsWanted
<1>2. Spec => [][WantedStep]_session
  BY <1>1, Invariant, PTL DEF Spec
<1> QED BY <1>2 DEF OnlyWantedClicksRun, WantedStep
-----------------------------------------------------------------------------
(* The request for attestation outlasts the lag and the faults. *)

\* The lag is one there was, and what is left of the faults no more than there were.
Budget ==
  /\ \E trial \in Troubles : trouble.lag = trial.lag /\ trouble.faults <= trial.faults
  /\ \A v \in 1 .. Len(versions) : versions[v].left <= trouble.lag

\* A loop of attempts is ahead of the faults, and the time it has taken is gone
\* from the lag of its version.
InTime(t, s) ==
  /\ saves[s].step \in {"reached", "waiting", "asking"} => versions[saves[s].version].reached
  /\ saves[s].step \in {"waiting", "asking"} =>
       /\ saves[s].attempt \in 1 .. Len(Delays)
       /\ saves[s].attempt + trouble.faults <= Len(Delays)
       /\ LET left == versions[saves[s].version].left
          IN left = 0 \/ left + t[saves[s].attempt] <= trouble.lag + saves[s].wait
  /\ saves[s].step = "asking" => saves[s].wait = 0
  /\ saves[s].step # "gaveUp"

\* A success is one.
Attested(s) ==
  saves[s].step = "attested" =>
    \E v \in labels : versions[v].board = versions[saves[s].version].board

PInv(t) == IInv /\ Budget /\ \A s \in Saves : InTime(t, s) /\ Attested(s)

\* A step never takes back what relays have, what the service can read or said,
\* or what was signed, and adds no fault.
Onward ==
  /\ SameText(versions, versions')
  /\ \A v \in 1 .. Len(versions) : /\ versions[v].reached => versions'[v].reached
                                   /\ versions'[v].left <= versions[v].left
  /\ trouble'.lag = trouble.lag /\ trouble'.faults <= trouble.faults
  /\ labels \subseteq labels'

\* A submission is where it was, its dialog perhaps gone.
Alike(s) ==
  /\ saves'[s].step = saves[s].step /\ saves'[s].version = saves[s].version
  /\ saves'[s].attempt = saves[s].attempt /\ saves'[s].wait = saves[s].wait

\* A timetable adds up the delays.
LEMMA Adds ==
  ASSUME NEW t \in Timetables
  PROVE  /\ Len(Delays) \in Nat /\ 1 \in 1 .. Len(Delays) /\ t[0] = 0
         /\ t \in [0 .. Len(Delays) -> Nat]
         /\ \A k \in 1 .. Len(Delays) : /\ t[k - 1] \in Nat /\ t[k] \in Nat /\ Delays[k] \in Nat
                                       /\ t[k] = t[k - 1] + Delays[k]
<1>1. Len(Delays) \in Nat /\ Len(Delays) # 0
  BY EditorAssumption, LenProperties, EmptySeq
<1>2. \A k \in 1 .. Len(Delays) : Delays[k] \in Nat
  BY EditorAssumption, ElementOfSeq
<1>3. t \in [0 .. Len(Delays) -> Nat]
  BY DEF Timetables
<1>4. \A k \in 1 .. Len(Delays) : k \in 0 .. Len(Delays) /\ k - 1 \in 0 .. Len(Delays)
  BY <1>1
<1>5. t[0] = 0 /\ \A k \in 1 .. Len(Delays) : t[k] = t[k - 1] + Delays[k]
  BY DEF Timetables
<1>6. 1 \in 1 .. Len(Delays)
  BY <1>1
<1>7. \A k \in 1 .. Len(Delays) : t[k - 1] \in Nat /\ t[k] \in Nat
  BY <1>3, <1>4
<1> QED BY <1>1, <1>2, <1>3, <1>5, <1>6, <1>7

\* Attempts do not start before earlier ones.
LEMMA LaterIsLater ==
  ASSUME NEW t \in Timetables, NEW j \in 0 .. Len(Delays), NEW k \in 0 .. Len(Delays), j <= k
  PROVE  t[j] <= t[k]
<1> DEFINE R == OpToRel(<, Nat)
           Early == {i \in Nat : j + i <= Len(Delays) /\ t[j + i] < t[j]}
<1>1. Len(Delays) \in Nat /\ t \in [0 .. Len(Delays) -> Nat]
  BY Adds
<1>2. \A i, n \in Nat : i < n => <<i, n>> \in R
  BY DEF OpToRel
<1> HIDE DEF R
<1>3. \A i \in 1 .. Len(Delays) : t[i - 1] <= t[i]
  <2> TAKE i \in 1 .. Len(Delays)
  <2>1. /\ t[i - 1] \in Nat /\ Delays[i] \in Nat
        /\ t[i] = t[i - 1] + Delays[i]
    BY Adds
  <2> QED BY <2>1
<1>4. Early = {}
  <2> SUFFICES ASSUME Early # {} PROVE FALSE
    OBVIOUS
  <2>1. PICK i \in Early : \A n \in Early : <<n, i>> \notin R
    <3>1. Early \subseteq Nat
      OBVIOUS
    <3> HIDE DEF Early, R
    <3> QED BY <3>1, NatLessThanWellFounded, WFMin DEF R
  <2>2. i \in Nat /\ j + i <= Len(Delays) /\ t[j + i] < t[j]
    OBVIOUS
  <2>3. i # 0
    BY <1>1, <2>2
  <2>4. j + i \in 1 .. Len(Delays) /\ (j + i) - 1 = j + (i - 1) /\ i - 1 \in Nat
    BY <1>1, <2>2, <2>3
  <2>5. t[j + (i - 1)] <= t[j + i]
    BY <1>3, <2>4
  <2>6. t[j + (i - 1)] \in Nat /\ t[j + i] \in Nat /\ t[j] \in Nat
    <3>1. j + (i - 1) \in 0 .. Len(Delays) /\ j + i \in 0 .. Len(Delays)
      BY <1>1, <2>2, <2>4
    <3> QED BY <1>1, <3>1
  <2>7. t[j + (i - 1)] < t[j]
    BY <2>2, <2>5, <2>6
  <2>8. i - 1 \in Early /\ i - 1 < i
    BY <1>1, <2>2, <2>4, <2>7
  <2> QED BY <1>2, <2>1, <2>2, <2>4, <2>8
<1>5. k - j \in Nat /\ j + (k - j) = k
  BY <1>1
<1>6. ~ (t[k] < t[j])
  <2>1. k - j \notin Early
    BY <1>4
  <2> QED BY <1>1, <1>5, <2>1
<1>7. t[k] \in Nat /\ t[j] \in Nat
  BY <1>1
<1> QED BY <1>6, <1>7

\* What the patience of the delays means for a lag and what is left of the faults.
LEMMA LagIsCovered ==
  ASSUME EditorTypeOK, Budget, NEW t \in Timetables, Patient(t)
  PROVE  \E k \in 1 .. Len(Delays) : /\ trouble.lag <= t[k]
                                    /\ k + trouble.faults <= Len(Delays)
<1>1. PICK trial \in Troubles : trouble.lag = trial.lag /\ trouble.faults <= trial.faults
  BY DEF Budget
<1>2. PICK f \in Nat : f = trial.faults
  BY EditorAssumption
<1>3. PICK n \in Nat : n = Len(Delays)
  BY Adds
<1>4. f < n /\ trial.lag <= t[n - f]
  BY <1>2, <1>3 DEF Patient
<1>5. PICK g \in Nat : g = trouble.faults
  BY DEF EditorTypeOK
<1>6. n - f \in 1 .. n /\ (n - f) + g <= n
  BY <1>1, <1>2, <1>4, <1>5
<1> QED BY <1>1, <1>3, <1>4, <1>5, <1>6

\* Of the versions the service can read one is the newest.
LEMMA NewestIsThere ==
  ASSUME NEW n \in Nat, NEW set, set \subseteq 1 .. n, set # {}
  PROVE  Newest(set) # {}
<1> DEFINE R == OpToRel(<, Nat)
           Ages == {n - v : v \in set}
<1> HIDE DEF R
<1>1. Ages \subseteq Nat /\ Ages # {}
  <2>1. \A v \in set : n - v \in Nat
    OBVIOUS
  <2> QED BY <2>1
<1>2. \A i, m \in Nat : i < m => <<i, m>> \in R
  BY DEF OpToRel, R
<1>3. PICK i \in Ages : \A m \in Ages : <<m, i>> \notin R
  <2> HIDE DEF Ages, R
  <2> QED BY <1>1, NatLessThanWellFounded, WFMin DEF R
<1>4. PICK v \in set : i = n - v
  OBVIOUS
<1>5. ASSUME NEW w \in set
      PROVE  w <= v
  <2>1. n - w \in Ages /\ n - w \in Nat /\ i \in Nat
    BY <1>1, <1>3
  <2> HIDE DEF R, Ages
  <2>2. ~ (n - w < i)
    BY <1>2, <1>3, <2>1
  <2> QED BY <1>4, <2>2
<1> QED BY <1>4, <1>5 DEF Newest

\* A version as the request finds it, before and after a step.
LEMMA VersionLasts ==
  ASSUME EditorTypeOK, EditorTypeOK', Onward, NEW v \in 1 .. Len(versions)
  PROVE  /\ v \in 1 .. Len(versions')
         /\ versions[v] \in Version /\ versions'[v] \in Version
         /\ versions'[v].board = versions[v].board /\ versions'[v].by = versions[v].by
         /\ versions[v].reached => versions'[v].reached
         /\ versions[v].left \in Nat /\ versions'[v].left \in Nat
         /\ versions'[v].left <= versions[v].left
<1>1. versions \in Seq(Version) /\ versions' \in Seq(Version)
  BY DEF EditorTypeOK, VersionsOK
<1>2. Len(versions) \in Nat /\ Len(versions') \in Nat
  BY <1>1, LenProperties
<1>3. v \in 1 .. Len(versions')
  BY <1>2 DEF Onward, SameText
<1>4. versions[v] \in Version /\ versions'[v] \in Version
  BY <1>1, <1>3, ElementOfSeq
<1>5. versions[v].left \in Nat /\ versions'[v].left \in Nat
  BY <1>4 DEF Version
<1> QED BY <1>3, <1>4, <1>5 DEF Onward, SameText

\* The records of the loop, of its version and of the faults are typed.
LEMMA LoopTyped ==
  ASSUME EditorTypeOK, NEW s \in Saves
  PROVE  /\ saves[s] \in Save /\ saves[s].attempt \in 0 .. Len(Delays) /\ saves[s].wait \in Nat
         /\ saves[s].step # "none" => saves[s].version \in 1 .. Len(versions)
         /\ Len(versions) \in Nat /\ Len(Delays) \in Nat
         /\ trouble.lag \in Nat /\ trouble.faults \in Nat
<1>1. saves[s] \in Save
  BY DEF EditorTypeOK, SavesOK
<1>2. Len(versions) \in Nat /\ Len(Delays) \in Nat
  BY LenProperties, EditorAssumption DEF EditorTypeOK, VersionsOK
<1>3. saves[s].step # "none" => saves[s].version \in 1 .. Len(versions)
  <2>1. saves[s].version \in 0 .. Len(versions) /\ (saves[s].version = 0 => saves[s].step = "none")
    BY DEF EditorTypeOK, SavesOK
  <2> QED BY <1>2, <2>1
<1> QED BY <1>1, <1>2, <1>3 DEF Save, EditorTypeOK

\* What was attested stays so.
LEMMA AttestedLasts ==
  ASSUME EditorTypeOK, EditorTypeOK', Onward, NEW s \in Saves, Attested(s),
         saves'[s].step = saves[s].step, saves'[s].version = saves[s].version
  PROVE  Attested(s)'
<1>1. CASE saves[s].step = "attested"
  <2>1. saves[s].version \in 1 .. Len(versions)
    BY <1>1, LoopTyped
  <2>2. PICK v \in labels : versions[v].board = versions[saves[s].version].board
    BY <1>1 DEF Attested
  <2>3. v \in labels' /\ v \in 1 .. Len(versions)
    BY DEF Onward, EditorTypeOK
  <2>4. /\ versions'[v].board = versions[v].board
        /\ versions'[saves[s].version].board = versions[saves[s].version].board
    BY <2>1, <2>3, VersionLasts
  <2> QED BY <1>1, <2>2, <2>3, <2>4 DEF Attested
<1>2. CASE saves[s].step # "attested"
  BY <1>2 DEF Attested
<1> QED BY <1>1, <1>2

\* Other submissions, typing, saving elsewhere and signing out disturb no loop.
LEMMA AlikeLasts ==
  ASSUME EditorTypeOK, EditorTypeOK', Onward, NEW t \in Timetables, NEW s \in Saves,
         InTime(t, s), Attested(s), Alike(s)
  PROVE  InTime(t, s)' /\ Attested(s)'
<1>1. Attested(s)'
  BY AttestedLasts DEF Alike
<1>2. CASE saves[s].step \notin {"reached", "waiting", "asking"}
  BY <1>1, <1>2 DEF InTime, Alike
<1>3. CASE saves[s].step \in {"reached", "waiting", "asking"}
  <2> DEFINE v == saves[s].version
  <2>1. /\ saves[s].version \in 1 .. Len(versions) /\ saves[s].attempt \in 0 .. Len(Delays)
        /\ saves[s].wait \in Nat /\ Len(Delays) \in Nat
        /\ trouble.faults \in Nat /\ trouble'.faults \in Nat
    BY <1>3, LoopTyped DEF EditorTypeOK
  <2>2. /\ versions[v].reached => versions'[v].reached
        /\ versions[v].left \in Nat /\ versions'[v].left \in Nat
        /\ versions'[v].left <= versions[v].left
    BY <2>1, VersionLasts
  <2>3. versions'[v].reached
    BY <1>3, <2>2 DEF InTime
  <2>4. ASSUME saves[s].step \in {"waiting", "asking"}
        PROVE  /\ saves'[s].attempt \in 1 .. Len(Delays)
               /\ saves'[s].attempt + trouble'.faults <= Len(Delays)
               /\ versions'[v].left = 0
                    \/ versions'[v].left + t[saves[s].attempt] <= trouble'.lag + saves[s].wait
    <3>1. /\ saves[s].attempt \in 1 .. Len(Delays)
          /\ saves[s].attempt + trouble.faults <= Len(Delays)
          /\ versions[v].left = 0
               \/ versions[v].left + t[saves[s].attempt] <= trouble.lag + saves[s].wait
      BY <2>4 DEF InTime
    <3>2. /\ trouble'.lag = trouble.lag /\ trouble'.faults <= trouble.faults
          /\ saves'[s].attempt = saves[s].attempt
      BY DEF Onward, Alike
    <3>3. t[saves[s].attempt] \in Nat /\ trouble.lag \in Nat
      BY <3>1, Adds, LoopTyped
    <3>4. saves'[s].attempt + trouble'.faults <= Len(Delays)
      BY <2>1, <3>1, <3>2
    <3>5. CASE versions[v].left = 0
      BY <2>2, <3>1, <3>2, <3>4, <3>5
    <3>6. CASE versions[v].left + t[saves[s].attempt] <= trouble.lag + saves[s].wait
      <4> HIDE DEF v
      <4>1. versions'[v].left + t[saves[s].attempt] <= trouble.lag + saves[s].wait
        <5>1. \A a, b, x, y, z \in Nat : b <= a /\ a + x <= y + z => b + x <= y + z
          OBVIOUS
        <5>2. /\ versions[v].left \in Nat /\ versions'[v].left \in Nat
              /\ versions'[v].left <= versions[v].left
          BY <2>2
        <5>3. saves[s].wait \in Nat
          BY <2>1
        <5> QED BY <3>3, <3>6, <5>1, <5>2, <5>3
      <4> QED BY <3>1, <3>2, <3>4, <4>1
    <3> QED BY <3>1, <3>5, <3>6
  <2>5. saves[s].step = "asking" => saves[s].wait = 0
    BY DEF InTime
  <2> QED BY <1>1, <1>3, <2>3, <2>4, <2>5 DEF InTime, Alike
<1> QED BY <1>2, <1>3

\* Versions that stay and labels that are added go on.
LEMMA NothingGoesBack ==
  ASSUME EditorTypeOK, Budget, UNCHANGED versions, labels \subseteq labels',
         trouble'.lag = trouble.lag, trouble'.faults <= trouble.faults, trouble'.faults \in Nat
  PROVE  Onward /\ Budget'
<1>1. Len(versions) \in Nat /\ versions \in Seq(Version)
  BY LenProperties DEF EditorTypeOK, VersionsOK
<1>2. \A v \in 1 .. Len(versions) : versions[v].left \in Nat
  <2> TAKE v \in 1 .. Len(versions)
  <2>1. versions[v] \in Version
    BY <1>1, ElementOfSeq
  <2> QED BY <2>1 DEF Version
<1>3. Onward
  BY <1>1, <1>2 DEF Onward, SameText
<1>4. PICK trial \in Troubles : trouble.lag = trial.lag /\ trouble.faults <= trial.faults
  BY DEF Budget
<1>5. trouble'.faults <= trial.faults
  BY <1>4 DEF EditorTypeOK
<1> QED BY <1>3, <1>4, <1>5 DEF Budget

\* A version more, as far from the service as its relays are slow.
LEMMA OneMoreGoesOn ==
  ASSUME EditorTypeOK, Budget, NEW new \in Version, new.left = trouble.lag,
         versions' = Append(versions, new), UNCHANGED <<labels, trouble>>
  PROVE  Onward /\ Budget'
<1>1. versions \in Seq(Version) /\ Len(versions) \in Nat
  BY LenProperties DEF EditorTypeOK, VersionsOK
<1>2. /\ Len(versions') = Len(versions) + 1
      /\ versions'[Len(versions) + 1] = new
      /\ \A v \in 1 .. Len(versions) : versions'[v] = versions[v]
  BY <1>1
<1>3. \A v \in 1 .. Len(versions) : versions[v].left \in Nat
  <2> TAKE v \in 1 .. Len(versions)
  <2>1. versions[v] \in Version
    BY <1>1, ElementOfSeq
  <2> QED BY <2>1 DEF Version
<1>4. trouble.lag \in Nat /\ trouble.faults \in Nat
  BY DEF EditorTypeOK
<1>5. Onward
  BY <1>1, <1>2, <1>3, <1>4 DEF Onward, SameText
<1>6. \A v \in 1 .. Len(versions') : versions'[v].left <= trouble'.lag
  <2> SUFFICES ASSUME NEW v \in 1 .. Len(versions') PROVE versions'[v].left <= trouble'.lag
    OBVIOUS
  <2>1. CASE v = Len(versions) + 1
    BY <1>2, <1>4, <2>1
  <2>2. CASE v \in 1 .. Len(versions)
    BY <1>2, <2>2 DEF Budget
  <2> QED BY <1>1, <1>2, <2>1, <2>2
<1> QED BY <1>5, <1>6 DEF Budget

\* The versions are passed on: nothing but left and reached changes.
LEMMA PassingOnGoesOn ==
  ASSUME EditorTypeOK, EditorTypeOK', Budget, UNCHANGED <<labels, trouble>>,
         SameText(versions, versions'), Len(versions') = Len(versions),
         \A v \in 1 .. Len(versions) : /\ versions[v].reached => versions'[v].reached
                                       /\ versions'[v].left <= versions[v].left
  PROVE  Onward /\ Budget'
<1>1. trouble.lag \in Nat /\ trouble.faults \in Nat
  BY DEF EditorTypeOK
<1>2. Onward
  BY <1>1 DEF Onward
<1>3. \A v \in 1 .. Len(versions') : versions'[v].left <= trouble'.lag
  <2> TAKE v \in 1 .. Len(versions')
  <2>1. /\ versions[v].left \in Nat /\ versions'[v].left \in Nat
        /\ versions'[v].left <= versions[v].left
    BY <1>2, VersionLasts
  <2>2. versions[v].left <= trouble.lag
    BY DEF Budget
  <2> QED BY <1>1, <2>1, <2>2
<1> QED BY <1>2, <1>3 DEF Budget

\* What Tick does to a version and to a submission.
LEMMA TickPasses ==
  ASSUME EditorTypeOK, Tick
  PROVE  /\ versions' \in Seq(Version) /\ Len(versions') = Len(versions)
         /\ \A v \in 1 .. Len(versions) :
              versions'[v] = IF versions[v].reached /\ versions[v].left > 0
                             THEN [versions[v] EXCEPT !.left = @ - 1] ELSE versions[v]
         /\ \A s \in Saves : saves'[s] = IF saves[s].step = "waiting"
                                         THEN [saves[s] EXCEPT !.wait = @ - 1] ELSE saves[s]
         /\ \A s \in Saves : saves[s].step = "waiting" => saves[s].wait > 0
         /\ UNCHANGED <<labels, trouble>>
<1> DEFINE Passed(v) == IF versions[v].reached /\ versions[v].left > 0
                        THEN [versions[v] EXCEPT !.left = @ - 1] ELSE versions[v]
<1>1. versions \in Seq(Version) /\ Len(versions) \in Nat
  BY LenProperties DEF EditorTypeOK, VersionsOK
<1>2. \A v \in 1 .. Len(versions) : Passed(v) \in Version
  <2> TAKE v \in 1 .. Len(versions)
  <2>1. versions[v] \in Version
    BY <1>1, ElementOfSeq
  <2>2. CASE versions[v].reached /\ versions[v].left > 0
    <3>1. versions[v].left - 1 \in Nat
      BY <2>1, <2>2 DEF Version
    <3>2. Passed(v) = [versions[v] EXCEPT !.left = versions[v].left - 1]
      BY <2>2
    <3> HIDE DEF Passed
    <3> QED BY <2>1, <3>1, <3>2 DEF Version
  <2>3. CASE ~(versions[v].reached /\ versions[v].left > 0)
    BY <2>1, <2>3
  <2> QED BY <2>2, <2>3
<1>3. versions' = [v \in 1 .. Len(versions) |-> Passed(v)]
  BY DEF Tick
<1> HIDE DEF Passed
<1>4. versions' \in Seq(Version) /\ Len(versions') = Len(versions)
  BY <1>1, <1>2, <1>3
<1>5. \A v \in 1 .. Len(versions) : versions'[v] = Passed(v)
  BY <1>3
<1> QED BY <1>4, <1>5 DEF Tick, Passed

\* Time takes from the lag only.
LEMMA TickGoesOn ==
  ASSUME EditorTypeOK, EditorTypeOK', Budget, Tick
  PROVE  Onward /\ Budget'
<1>1. versions \in Seq(Version) /\ Len(versions) \in Nat
  BY LenProperties DEF EditorTypeOK, VersionsOK
<1>2. ASSUME NEW v \in 1 .. Len(versions)
      PROVE  /\ versions'[v].board = versions[v].board /\ versions'[v].by = versions[v].by
             /\ versions'[v].text = versions[v].text
             /\ versions[v].reached => versions'[v].reached
             /\ versions'[v].left <= versions[v].left
  <2>1. versions[v] \in Version
    BY <1>1, ElementOfSeq
  <2>2. versions'[v] = IF versions[v].reached /\ versions[v].left > 0
                       THEN [versions[v] EXCEPT !.left = @ - 1] ELSE versions[v]
    BY TickPasses
  <2> QED BY <2>1, <2>2 DEF Version
<1>3. Len(versions') = Len(versions) /\ UNCHANGED <<labels, trouble>>
  BY TickPasses
<1>4. SameText(versions, versions')
  BY <1>1, <1>2, <1>3 DEF SameText
<1> QED BY <1>2, <1>3, <1>4, PassingOnGoesOn

\* A relay that has the version does not take it back.
LEMMA ReachesGoesOn ==
  ASSUME EditorTypeOK, EditorTypeOK', Budget, NEW s \in Saves, Reaches(s)
  PROVE  /\ Onward /\ Budget'
         /\ versions'[saves[s].version].reached
<1>1. versions \in Seq(Version) /\ Len(versions) \in Nat
  BY LenProperties DEF EditorTypeOK, VersionsOK
<1>2. saves[s].version \in 1 .. Len(versions)
  BY LoopTyped DEF Reaches
<1> DEFINE n == saves[s].version
           new == [versions[n] EXCEPT !.reached = TRUE]
<1>3. versions[n] \in Version
  BY <1>1, <1>2, ElementOfSeq
<1>4. versions' = [versions EXCEPT ![n] = new] /\ UNCHANGED <<labels, trouble>>
  BY DEF Reaches
<1>5. /\ new \in Version /\ new.reached /\ new.left = versions[n].left
      /\ new.board = versions[n].board /\ new.by = versions[n].by /\ new.text = versions[n].text
  BY <1>3 DEF Version
<1>6. \A v \in 1 .. Len(versions) : versions[v].left <= versions[v].left
  <2> TAKE v \in 1 .. Len(versions)
  <2>1. versions[v] \in Version
    BY <1>1, ElementOfSeq
  <2> QED BY <2>1 DEF Version
<1> HIDE DEF new, n
<1>7. /\ Len(versions') = Len(versions)
      /\ \A v \in 1 .. Len(versions) : versions'[v] = IF v = n THEN new ELSE versions[v]
  BY <1>1, <1>2, <1>4, <1>5, ExceptSeq DEF n
<1>8. SameText(versions, versions')
  BY <1>1, <1>5, <1>7 DEF SameText
<1>9. \A v \in 1 .. Len(versions) : /\ versions[v].reached => versions'[v].reached
                                    /\ versions'[v].left <= versions[v].left
  BY <1>5, <1>6, <1>7
<1>10. Onward /\ Budget'
  BY <1>4, <1>7, <1>8, <1>9, PassingOnGoesOn
<1>11. versions'[saves[s].version].reached
  BY <1>2, <1>5, <1>7 DEF n
<1> QED BY <1>10, <1>11

\* A step of one submission: the others stay, or lose their dialog.
LEMMA OthersAreAlike ==
  ASSUME EditorTypeOK, NEW s \in Saves, NEW new,
         saves' = [saves EXCEPT ![s] = new] \/ saves' = [Detached EXCEPT ![s] = new]
  PROVE  saves'[s] = new /\ \A r \in Saves \ {s} : Alike(r)
<1>1. saves \in [Saves -> Save]
  BY DEF EditorTypeOK, SavesOK
<1>2. \A r \in Saves : Detached[r] = [saves[r] EXCEPT !.on = FALSE]
  BY DEF Detached
<1>3. saves'[s] = new
  BY <1>1 DEF Detached
<1>4. ASSUME NEW r \in Saves \ {s}
      PROVE  Alike(r)
  <2>1. saves'[r] = saves[r] \/ saves'[r] = [saves[r] EXCEPT !.on = FALSE]
    BY <1>1, <1>2 DEF Detached
  <2>2. saves[r] \in Save
    BY <1>1
  <2> QED BY <2>1, <2>2 DEF Alike, Save
<1> QED BY <1>3, <1>4

\* A submission that has not asked, or is over, makes no claim.
LEMMA NothingAsked ==
  ASSUME NEW t, NEW s,
         saves'[s].step \notin {"reached", "waiting", "asking", "attested", "gaveUp"}
  PROVE  InTime(t, s)' /\ Attested(s)'
BY DEF InTime, Attested

\* The first attempt.
LEMMA SettlesInTime ==
  ASSUME EditorTypeOK, Budget, NEW t \in Timetables, Patient(t), NEW s \in Saves,
         InTime(t, s), Settles(s)
  PROVE  InTime(t, s)' /\ Attested(s)'
<1> DEFINE after == [Over(s, "waiting") EXCEPT !.attempt = 1, !.wait = Delays[1]]
<1>1. /\ saves[s].step = "reached" /\ UNCHANGED <<versions, trouble>>
      /\ saves' = [saves EXCEPT ![s] = after] \/ saves' = [Detached EXCEPT ![s] = after]
  BY DEF Settles
<1>2. saves'[s] = after
  <2> HIDE DEF after
  <2> QED BY <1>1, OthersAreAlike
<1>3. /\ saves'[s].step = "waiting" /\ saves'[s].version = saves[s].version
      /\ saves'[s].attempt = 1 /\ saves'[s].wait = Delays[1]
  BY <1>2 DEF Over, At
<1>4. /\ saves[s].version \in 1 .. Len(versions)
      /\ Len(Delays) \in Nat /\ trouble.lag \in Nat /\ trouble.faults \in Nat
  BY <1>1, LoopTyped
<1>5. PICK v \in 1 .. Len(versions) : v = saves[s].version
  BY <1>4
<1>6. versions[v].reached /\ versions[v].left <= trouble.lag /\ versions[v].left \in Nat
  <2>1. versions[v] \in Version
    BY VersionAt
  <2> QED BY <1>1, <1>5, <2>1 DEF Version, InTime, Budget
<1>7. 1 \in 1 .. Len(Delays) /\ Delays[1] \in Nat /\ t[1] = Delays[1]
  <2>1. 1 \in 1 .. Len(Delays) /\ t[0] = 0 /\ Delays[1] \in Nat /\ t[1] = t[1 - 1] + Delays[1]
    BY Adds
  <2> QED BY <2>1
<1>8. 1 + trouble.faults <= Len(Delays)
  BY <1>4, LagIsCovered
<1>9. versions[v].left + t[1] <= trouble.lag + Delays[1]
  BY <1>4, <1>6, <1>7
<1>10. /\ versions' = versions /\ trouble' = trouble /\ saves'[s].version = v
  BY <1>1, <1>3, <1>5
<1>11. InTime(t, s)'
  BY <1>3, <1>6, <1>7, <1>8, <1>9, <1>10 DEF InTime
<1> QED BY <1>3, <1>11 DEF Attested

\* Another attempt, as long as there are more of them than of faults.
LEMMA AgainInTime ==
  ASSUME EditorTypeOK, NEW t \in Timetables, NEW s \in Saves,
         InTime(t, s), saves[s].step = "asking", saves'[s] = Again(s), versions' = versions,
         trouble'.lag = trouble.lag, trouble'.faults \in Nat,
         saves[s].attempt + 1 + trouble'.faults <= Len(Delays)
  PROVE  InTime(t, s)' /\ Attested(s)'
<1> DEFINE a == saves[s].attempt
           v == saves[s].version
<1>1. /\ a \in 1 .. Len(Delays) /\ v \in 1 .. Len(versions)
      /\ Len(Delays) \in Nat /\ trouble.lag \in Nat
  BY LoopTyped DEF InTime
<1>2. a < Len(Delays) /\ a + 1 \in 1 .. Len(Delays)
  <2>1. \A n, x, y \in Nat : x >= 1 /\ x + 1 + y <= n => x < n /\ x + 1 \in 1 .. n
    OBVIOUS
  <2>2. a \in Nat /\ a >= 1 /\ a + 1 + trouble'.faults <= Len(Delays)
    BY <1>1
  <2> HIDE DEF a, v
  <2> QED BY <1>1, <2>1, <2>2
<1>3. Again(s) = [Over(s, "waiting") EXCEPT !.attempt = a + 1, !.wait = Delays[a + 1]]
  BY <1>2 DEF Again
<1>4. /\ saves'[s].step = "waiting" /\ saves'[s].version = v
      /\ saves'[s].attempt = a + 1 /\ saves'[s].wait = Delays[a + 1]
  BY <1>3 DEF Over, At
<1>5. /\ versions[v].reached
      /\ versions[v].left = 0 \/ versions[v].left + t[a] <= trouble.lag + saves[s].wait
      /\ saves[s].wait = 0
  BY DEF InTime
<1>6. /\ t[a + 1] = t[a] + Delays[a + 1] /\ t[a] \in Nat /\ Delays[a + 1] \in Nat
  <2> HIDE DEF a
  <2>1. (a + 1) - 1 = a
    BY <1>1
  <2> QED BY <1>2, <2>1, Adds
<1>7. versions[v].left \in Nat
  <2>1. versions[v] \in Version
    BY <1>1, VersionAt
  <2> QED BY <2>1 DEF Version
<1> HIDE DEF a, v
<1>8. versions[v].left = 0 \/ versions[v].left + t[a + 1] <= trouble.lag + Delays[a + 1]
  <2>1. \A l, x, d, y \in Nat : l + x <= y + 0 => l + (x + d) <= y + d
    OBVIOUS
  <2> QED BY <1>1, <1>5, <1>6, <1>7, <2>1
<1>9. a + 1 + trouble'.faults <= Len(Delays)
  BY DEF a
<1>10. InTime(t, s)'
  BY <1>2, <1>4, <1>5, <1>8, <1>9 DEF InTime
<1> QED BY <1>4, <1>10 DEF Attested

\* "Not found" while the version is on its way leaves enough attempts.
LEMMA NotFoundIsEarly ==
  ASSUME EditorTypeOK, Budget, NEW t \in Timetables, Patient(t), NEW s \in Saves,
         InTime(t, s), saves[s].step = "asking",
         versions[saves[s].version].left # 0
  PROVE  saves[s].attempt + 1 + trouble.faults <= Len(Delays)
<1>1. /\ saves[s].attempt \in 1 .. Len(Delays) /\ saves[s].version \in 1 .. Len(versions)
      /\ Len(Delays) \in Nat /\ trouble.lag \in Nat /\ trouble.faults \in Nat
  BY LoopTyped DEF InTime
<1>2. versions[saves[s].version].left \in Nat
  <2>1. versions[saves[s].version] \in Version
    BY <1>1, VersionAt
  <2> QED BY <2>1 DEF Version
<1>3. PICK a \in 1 .. Len(Delays) : a = saves[s].attempt
  BY <1>1
<1>4. PICK k \in 1 .. Len(Delays) : trouble.lag <= t[k] /\ k + trouble.faults <= Len(Delays)
  BY LagIsCovered
<1>5. t[a] \in Nat /\ t[k] \in Nat
  BY Adds
<1>6. t[a] < t[k]
  <2>1. versions[saves[s].version].left + t[a] <= trouble.lag + 0
    BY <1>3 DEF InTime
  <2>2. \A l, x, y, z \in Nat : l # 0 /\ l + x <= y + 0 /\ y <= z => x < z
    OBVIOUS
  <2> QED BY <1>1, <1>2, <1>4, <1>5, <2>1, <2>2
<1>7. ~ (k <= a)
  <2> SUFFICES ASSUME k <= a PROVE FALSE
    OBVIOUS
  <2>1. a \in 0 .. Len(Delays) /\ k \in 0 .. Len(Delays)
    BY <1>1
  <2>2. t[k] <= t[a]
    BY <2>1, LaterIsLater
  <2> QED BY <1>5, <1>6, <2>2
<1>8. \A n, x, y, z \in Nat : ~ (y <= x) /\ y + z <= n => x + 1 + z <= n
  OBVIOUS
<1>9. a \in Nat /\ k \in Nat
  BY <1>1
<1> QED BY <1>1, <1>3, <1>4, <1>7, <1>8, <1>9

\* The answer to a request: not found, turned down, or a label on the newest
\* version that the service can read.
LEMMA AnswerInTime ==
  ASSUME EditorTypeOK, Budget, NEW t \in Timetables, Patient(t), NEW s \in Saves,
         InTime(t, s), Answer(s)
  PROVE  InTime(t, s)' /\ Attested(s)'
<1> DEFINE board == versions[saves[s].version].board
<1>1. saves[s].step = "asking" /\ labels' = Labelled(s) /\ UNCHANGED <<versions, trouble>>
  BY DEF Answer
<1>2. /\ saves[s].version \in 1 .. Len(versions)
      /\ Len(versions) \in Nat /\ trouble.faults \in Nat
  BY <1>1, LoopTyped
<1>3. CASE Readable(board) = {}
  <2>1. saves'[s] = Again(s)
    BY <1>3, OthersAreAlike DEF Answer
  <2>2. versions[saves[s].version].left # 0
    <3>1. saves[s].version \notin Readable(board) /\ versions[saves[s].version].reached
      BY <1>1, <1>3 DEF InTime
    <3> QED BY <1>2, <3>1 DEF Readable
  <2>3. saves[s].attempt + 1 + trouble.faults <= Len(Delays)
    BY <1>1, <2>2, NotFoundIsEarly
  <2> QED BY <1>1, <1>2, <2>1, <2>3, AgainInTime
<1>4. CASE Readable(board) # {} /\ Attests(s)
  <2>1. saves'[s] = Over(s, "attested")
    BY <1>4, OthersAreAlike DEF Answer
  <2>2. saves'[s].step = "attested" /\ saves'[s].version = saves[s].version
    BY <2>1 DEF Over, At
  <2>3. Newest(Readable(board)) # {}
    <3>1. Readable(board) \subseteq 1 .. Len(versions)
      BY DEF Readable
    <3> QED BY <1>2, <1>4, <3>1, NewestIsThere
  <2>4. PICK v \in Readable(board) : v \in labels'
    BY <1>1, <1>4, <2>3 DEF Labelled, Newest
  <2>5. versions'[v].board = versions'[saves'[s].version].board
    BY <1>1, <2>2, <2>4 DEF Readable
  <2> QED BY <2>2, <2>4, <2>5 DEF InTime, Attested
<1>5. CASE Readable(board) # {} /\ ~Attests(s)
  <2>1. saves'[s] = Over(s, "rejected")
    BY <1>5, OthersAreAlike DEF Answer
  <2>2. saves'[s].step = "rejected"
    BY <2>1 DEF Over, At
  <2> QED BY <2>2, NothingAsked
<1> QED BY <1>3, <1>4, <1>5

\* A fault uses up one attempt and one of the faults.
LEMMA FaultInTime ==
  ASSUME EditorTypeOK, NEW t \in Timetables, NEW s \in Saves,
         InTime(t, s), FaultAnswer(s)
  PROVE  InTime(t, s)' /\ Attested(s)'
<1>1. /\ saves[s].step = "asking" /\ trouble.faults > 0 /\ versions' = versions
      /\ trouble' = [trouble EXCEPT !.faults = @ - 1]
      /\ saves'[s] = Again(s)
  BY OthersAreAlike DEF FaultAnswer
<1>2. /\ saves[s].attempt \in 1 .. Len(Delays) /\ Len(Delays) \in Nat
      /\ saves[s].attempt + trouble.faults <= Len(Delays)
      /\ trouble.faults \in Nat
  BY <1>1, LoopTyped DEF InTime
<1>3. trouble'.lag = trouble.lag /\ trouble'.faults = trouble.faults - 1
  BY <1>1 DEF EditorTypeOK
<1>4. /\ trouble'.faults \in Nat
      /\ saves[s].attempt + 1 + trouble'.faults <= Len(Delays)
  <2>1. \A n, x, y \in Nat : y > 0 /\ x + y <= n => y - 1 \in Nat /\ x + 1 + (y - 1) <= n
    OBVIOUS
  <2>2. saves[s].attempt \in Nat
    BY <1>2
  <2> QED BY <1>1, <1>2, <1>3, <2>1, <2>2
<1> QED BY <1>1, <1>3, <1>4, AgainInTime

\* A wait and a lag run down together.
LEMMA TickInTime ==
  ASSUME EditorTypeOK, EditorTypeOK', Onward, NEW t \in Timetables, NEW s \in Saves,
         InTime(t, s), Attested(s), Tick
  PROVE  InTime(t, s)' /\ Attested(s)'
<1>1. CASE saves[s].step # "waiting"
  <2>1. saves'[s] = saves[s]
    BY <1>1, TickPasses
  <2>2. Alike(s)
    BY <2>1 DEF Alike
  <2> QED BY <2>2, AlikeLasts
<1>2. CASE saves[s].step = "waiting"
  <2>1. /\ saves'[s] = [saves[s] EXCEPT !.wait = @ - 1]
        /\ saves[s].wait > 0 /\ trouble' = trouble
    BY <1>2, TickPasses
  <2>2. /\ saves[s] \in Save /\ saves[s].attempt \in 0 .. Len(Delays) /\ saves[s].wait \in Nat
        /\ saves[s].version \in 1 .. Len(versions)
        /\ Len(versions) \in Nat /\ Len(Delays) \in Nat
        /\ trouble.lag \in Nat /\ trouble.faults \in Nat
    BY <1>2, LoopTyped
  <2>3. /\ saves'[s].step = "waiting" /\ saves'[s].version = saves[s].version
        /\ saves'[s].attempt = saves[s].attempt /\ saves'[s].wait = saves[s].wait - 1
    BY <1>2, <2>1, <2>2 DEF Save
  <2>4. PICK v \in 1 .. Len(versions) : v = saves[s].version
    BY <2>2
  <2>5. /\ versions[v].reached /\ saves[s].attempt \in 1 .. Len(Delays)
        /\ saves[s].attempt + trouble.faults <= Len(Delays)
        /\ versions[v].left = 0
             \/ versions[v].left + t[saves[s].attempt] <= trouble.lag + saves[s].wait
    BY <1>2, <2>4 DEF InTime
  <2>6. versions[v] \in Version /\ versions[v].left \in Nat
    <3>1. versions[v] \in Version
      BY VersionAt
    <3> QED BY <3>1 DEF Version
  <2>7. /\ versions'[v].reached
        /\ versions'[v].left = IF versions[v].left > 0 THEN versions[v].left - 1 ELSE 0
    <3>1. versions'[v] = IF versions[v].reached /\ versions[v].left > 0
                         THEN [versions[v] EXCEPT !.left = @ - 1] ELSE versions[v]
      BY TickPasses
    <3>2. CASE versions[v].left > 0
      BY <2>5, <2>6, <3>1, <3>2 DEF Version
    <3>3. CASE ~(versions[v].left > 0)
      BY <2>5, <2>6, <3>1, <3>3
    <3> QED BY <3>2, <3>3
  <2>8. t[saves[s].attempt] \in Nat
    BY <2>5, Adds
  <2>9. versions'[v].left = 0
          \/ versions'[v].left + t[saves[s].attempt] <= trouble.lag + (saves[s].wait - 1)
    <3>1. \A l, x, y, z \in Nat : l > 0 /\ l + x <= y + z => (l - 1) + x <= y + (z - 1)
      OBVIOUS
    <3>2. CASE versions[v].left > 0
      <4>1. versions'[v].left = versions[v].left - 1
        BY <2>7, <3>2
      <4>2. versions[v].left + t[saves[s].attempt] <= trouble.lag + saves[s].wait
        BY <2>5, <2>6, <3>2
      <4> QED BY <2>2, <2>6, <2>8, <3>1, <3>2, <4>1, <4>2
    <3>3. CASE ~(versions[v].left > 0)
      BY <2>7, <3>3
    <3> QED BY <3>2, <3>3
  <2>10. InTime(t, s)'
    BY <2>1, <2>3, <2>4, <2>5, <2>7, <2>9 DEF InTime
  <2> QED BY <2>3, <2>10 DEF Attested
<1> QED BY <1>1, <1>2

-----------------------------------------------------------------------------
\* One submission moves, the others do not.
LEMMA OneLoopMoves ==
  ASSUME EditorTypeOK, EditorTypeOK', Onward, NEW t \in Timetables, NEW s \in Saves, NEW new,
         \A r \in Saves : InTime(t, r) /\ Attested(r),
         saves' = [saves EXCEPT ![s] = new] \/ saves' = [Detached EXCEPT ![s] = new],
         InTime(t, s)' /\ Attested(s)'
  PROVE  \A r \in Saves : InTime(t, r)' /\ Attested(r)'
<1> TAKE r \in Saves
<1>1. CASE r = s
  BY <1>1
<1>2. CASE r # s
  <2>1. Alike(r)
    BY <1>2, OthersAreAlike
  <2> QED BY <2>1, AlikeLasts
<1> QED BY <1>1, <1>2

\* The steps of the page and of the session leave versions and loops alone.
LEMMA PageStepsAreAside ==
  ASSUME EditorTypeOK,
         \/ NewBoard \/ SignIn \/ SignOut \/ SignInSteps
         \/ OpenEdit \/ Type \/ Cancel \/ UNCHANGED vars
         \/ \E v \in 1 .. Len(versions) : Displays(v)
  PROVE  UNCHANGED <<versions, labels, trouble>> /\ \A r \in Saves : Alike(r)
<1>1. /\ UNCHANGED <<versions, labels, trouble>>
      /\ saves' = saves \/ saves' = Detached
  BY DEF NewBoard, SignIn, SignOut, SignInSteps, OpenEdit, Type, Cancel, Displays,
         FollowsUser, vars, editor
<1>2. ASSUME NEW r \in Saves
      PROVE  Alike(r)
  <2>1. saves[r] \in Save
    BY DEF EditorTypeOK, SavesOK
  <2>2. saves'[r] = saves[r] \/ saves'[r] = [saves[r] EXCEPT !.on = FALSE]
    BY <1>1 DEF Detached
  <2> QED BY <2>1, <2>2 DEF Alike, Save
<1> QED BY <1>1, <1>2

\* The loop of a submission starts with its publish: nothing is claimed before.
LEMMA InTimeAtFirst ==
  ASSUME Init, IInv, NEW t
  PROVE  PInv(t)
<1>1. /\ trouble \in Troubles /\ trouble.lag \in Nat /\ trouble.faults \in Nat
  BY DEF Init
<1>2. \A v \in 1 .. Len(versions) : versions[v].left <= trouble.lag
  <2> TAKE v \in 1 .. Len(versions)
  <2>1. versions[v].left = 0
    BY DEF Init
  <2> QED BY <1>1, <2>1
<1>3. Budget
  BY <1>1, <1>2 DEF Budget
<1>4. ASSUME NEW s \in Saves
      PROVE  InTime(t, s) /\ Attested(s)
  <2>1. saves[s].step = "none"
    BY DEF Init, At
  <2> QED BY <2>1 DEF InTime, Attested
<1> QED BY <1>3, <1>4 DEF PInv

\* Every step leaves every loop in time.
LEMMA StaysInTime ==
  ASSUME EditorTypeOK, EditorTypeOK', Budget, NEW t \in Timetables, Patient(t),
         \A r \in Saves : InTime(t, r) /\ Attested(r), SessionTypeOK, [Next]_vars
  PROVE  Budget' /\ \A r \in Saves : InTime(t, r)' /\ Attested(r)'
<1>t. /\ trouble.lag \in Nat /\ trouble.faults \in Nat
      /\ trouble'.lag \in Nat /\ trouble'.faults \in Nat
      /\ Len(versions) \in Nat
  BY LenProperties DEF EditorTypeOK, VersionsOK
<1>1. CASE \/ NewBoard \/ SignIn \/ SignOut \/ SignInSteps
           \/ OpenEdit \/ Type \/ Cancel \/ UNCHANGED vars
           \/ \E v \in 1 .. Len(versions) : Displays(v)
  <2>1. UNCHANGED <<versions, labels, trouble>> /\ \A r \in Saves : Alike(r)
    BY <1>1, PageStepsAreAside
  <2>2. Onward /\ Budget'
    BY <1>t, <2>1, NothingGoesBack
  <2> QED BY <2>1, <2>2, AlikeLasts
<1>2. CASE OtherEdit
  <2>1. PICK text \in Texts : versions' = Append(versions, [versions[shown] EXCEPT
                     !.text = text, !.reached = TRUE, !.left = trouble.lag])
    BY <1>2 DEF OtherEdit
  <2> DEFINE new == [versions[shown] EXCEPT !.text = text, !.reached = TRUE,
                                            !.left = trouble.lag]
  <2>2. new \in Version /\ new.left = trouble.lag
    <3>1. shown \in 1 .. Len(versions)
      BY <1>2, <1>t DEF OtherEdit, EditorTypeOK
    <3>2. versions[shown] \in Version
      BY <3>1, VersionAt
    <3> QED BY <1>t, <3>2 DEF Version
  <2>3. versions' = Append(versions, new) /\ UNCHANGED <<saves, labels, trouble>>
    BY <1>2, <2>1 DEF OtherEdit
  <2> HIDE DEF new
  <2>4. Onward /\ Budget'
    BY <2>2, <2>3, OneMoreGoesOn
  <2>5. \A r \in Saves : Alike(r)
    BY <2>3 DEF Alike
  <2> QED BY <2>4, <2>5, AlikeLasts
<1>3. CASE Tick
  <2>1. Onward /\ Budget'
    BY <1>3, TickGoesOn
  <2> QED BY <1>3, <2>1, TickInTime
<1>4. ASSUME NEW s \in Saves, Submit(s)
      PROVE  Budget' /\ \A r \in Saves : InTime(t, r)' /\ Attested(r)'
  <2> DEFINE board == IF shown = 0 THEN Len(versions) + 1 ELSE versions[shown].board
             new == [board |-> board, by |-> user, text |-> form,
                     reached |-> FALSE, left |-> trouble.lag]
             sent == [saves[s] EXCEPT !.step = "publishing", !.version = Len(versions) + 1,
                                      !.creates = (shown = 0), !.on = TRUE]
  <2>1. /\ versions' = Append(versions, new) /\ saves' = [saves EXCEPT ![s] = sent]
        /\ form # Blank /\ user # NoUser /\ UNCHANGED <<labels, trouble>>
    BY <1>4 DEF Submit
  <2>2. new \in Version /\ new.left = trouble.lag
    <3>1. board \in Nat
      BY <1>t, VersionAt DEF EditorTypeOK
    <3>2. form \in Texts /\ user \in Accounts
      BY <2>1 DEF EditorTypeOK, SessionTypeOK
    <3> QED BY <1>t, <3>1, <3>2 DEF Version
  <2>3. sent.step = "publishing"
    <3>1. saves[s] \in Save
      BY LoopTyped
    <3> QED BY <3>1 DEF Save
  <2> HIDE DEF new, sent
  <2>4. Onward /\ Budget'
    BY <2>1, <2>2, OneMoreGoesOn
  <2>5. InTime(t, s)' /\ Attested(s)'
    <3>1. saves'[s].step = "publishing"
      BY <2>1, <2>3, OthersAreAlike
    <3> QED BY <3>1, NothingAsked
  <2> QED BY <2>1, <2>4, <2>5, OneLoopMoves
<1>5. ASSUME NEW s \in Saves, Reaches(s)
      PROVE  Budget' /\ \A r \in Saves : InTime(t, r)' /\ Attested(r)'
  <2> DEFINE sent == [saves[s] EXCEPT !.step = "reached"]
  <2>1. /\ Onward /\ Budget'
        /\ versions'[saves[s].version].reached
    BY <1>5, ReachesGoesOn
  <2>2. saves' = [saves EXCEPT ![s] = sent]
    BY <1>5 DEF Reaches
  <2>3. sent.step = "reached" /\ sent.version = saves[s].version
    <3>1. saves[s] \in Save
      BY LoopTyped
    <3> QED BY <3>1 DEF Save
  <2> HIDE DEF sent
  <2>4. saves'[s].step = "reached" /\ saves'[s].version = saves[s].version
    BY <2>2, <2>3, OthersAreAlike
  <2>5. InTime(t, s)' /\ Attested(s)'
    BY <2>1, <2>4 DEF InTime, Attested
  <2> QED BY <2>1, <2>2, <2>5, OneLoopMoves
<1>6. ASSUME NEW s \in Saves, Settles(s)
      PROVE  Budget' /\ \A r \in Saves : InTime(t, r)' /\ Attested(r)'
  <2>1. Onward /\ Budget'
    BY <1>6, <1>t, NothingGoesBack DEF Settles
  <2>2. PICK new : saves' = [saves EXCEPT ![s] = new] \/ saves' = [Detached EXCEPT ![s] = new]
    BY <1>6 DEF Settles
  <2>3. InTime(t, s)' /\ Attested(s)'
    BY <1>6, SettlesInTime
  <2> QED BY <2>1, <2>2, <2>3, OneLoopMoves
<1>7. ASSUME NEW s \in Saves, Fails(s)
      PROVE  Budget' /\ \A r \in Saves : InTime(t, r)' /\ Attested(r)'
  <2>1. /\ saves' = [saves EXCEPT ![s] = Over(s, "refused")] /\ UNCHANGED <<versions, labels>>
        /\ trouble.faults > 0 /\ trouble' = [trouble EXCEPT !.faults = @ - 1]
    BY <1>7 DEF Fails
  <2>2. trouble'.lag = trouble.lag /\ trouble'.faults <= trouble.faults
    BY <1>t, <2>1 DEF EditorTypeOK
  <2>3. Onward /\ Budget'
    BY <1>t, <2>1, <2>2, NothingGoesBack
  <2>4. saves'[s] = Over(s, "refused")
    BY <2>1, OthersAreAlike
  <2>5. saves'[s].step = "refused"
    BY <2>4 DEF Over, At
  <2>6. InTime(t, s)' /\ Attested(s)'
    BY <2>5, NothingAsked
  <2> QED BY <2>1, <2>3, <2>6, OneLoopMoves
<1>8. ASSUME NEW s \in Saves, Ask(s)
      PROVE  Budget' /\ \A r \in Saves : InTime(t, r)' /\ Attested(r)'
  <2>1. Onward /\ Budget'
    BY <1>8, <1>t, NothingGoesBack DEF Ask
  <2> DEFINE asking == [saves[s] EXCEPT !.step = "asking", !.signer = user]
  <2>2. CASE saves' = [saves EXCEPT ![s] = Over(s, "dropped")]
    <3>1. saves' = [saves EXCEPT ![s] = Over(s, "dropped")]
      BY <2>2
    <3>2. saves'[s] = Over(s, "dropped")
      BY <3>1, OthersAreAlike
    <3>3. saves'[s].step = "dropped"
      BY <3>2 DEF Over, At
    <3>4. InTime(t, s)' /\ Attested(s)'
      BY <3>3, NothingAsked
    <3> QED BY <2>1, <3>1, <3>4, OneLoopMoves
  <2>3. CASE saves' = [saves EXCEPT ![s] = asking]
    <3>1. saves' = [saves EXCEPT ![s] = asking] /\ UNCHANGED <<versions, trouble>>
      BY <1>8, <2>3 DEF Ask
    <3>2. /\ asking.step = "asking" /\ asking.version = saves[s].version
          /\ asking.attempt = saves[s].attempt /\ asking.wait = saves[s].wait
      <4>1. saves[s] \in Save
        BY LoopTyped
      <4> QED BY <4>1 DEF Save
    <3> HIDE DEF asking
    <3>3. saves'[s] = asking
      BY <3>1, OthersAreAlike
    <3>4. saves[s].step = "waiting" /\ saves[s].wait = 0
      BY <1>8 DEF Ask
    <3>5. InTime(t, s)' /\ Attested(s)'
      BY <3>1, <3>2, <3>3, <3>4 DEF InTime, Attested
    <3> QED BY <2>1, <3>1, <3>5, OneLoopMoves
  <2> QED BY <1>8, <2>2, <2>3 DEF Ask
<1>9. ASSUME NEW s \in Saves, Answer(s)
      PROVE  Budget' /\ \A r \in Saves : InTime(t, r)' /\ Attested(r)'
  <2>1. UNCHANGED <<versions, trouble>> /\ labels \subseteq labels'
    BY <1>9 DEF Answer, Labelled
  <2>2. Onward /\ Budget'
    BY <1>t, <2>1, NothingGoesBack
  <2>3. PICK new : saves' = [saves EXCEPT ![s] = new]
    BY <1>9 DEF Answer
  <2> QED BY <1>9, <2>2, <2>3, AnswerInTime, OneLoopMoves
<1>10. ASSUME NEW s \in Saves, FaultAnswer(s)
       PROVE  Budget' /\ \A r \in Saves : InTime(t, r)' /\ Attested(r)'
  <2>1. /\ saves' = [saves EXCEPT ![s] = Again(s)] /\ UNCHANGED versions
        /\ labels \subseteq labels'
        /\ trouble.faults > 0 /\ trouble' = [trouble EXCEPT !.faults = @ - 1]
    BY <1>10 DEF FaultAnswer, Labelled
  <2>2. trouble'.lag = trouble.lag /\ trouble'.faults <= trouble.faults
    BY <1>t, <2>1 DEF EditorTypeOK
  <2>3. Onward /\ Budget'
    BY <1>t, <2>1, <2>2, NothingGoesBack
  <2> QED BY <1>10, <2>1, <2>3, FaultInTime, OneLoopMoves
<1>11. ASSUME NEW s \in Saves, TurnsDown(s)
       PROVE  Budget' /\ \A r \in Saves : InTime(t, r)' /\ Attested(r)'
  <2>1. Onward /\ Budget'
    BY <1>11, <1>t, NothingGoesBack DEF TurnsDown
  <2>2. saves' = [saves EXCEPT ![s] = Over(s, "rejected")]
    BY <1>11 DEF TurnsDown
  <2>3. saves'[s] = Over(s, "rejected")
    BY <2>2, OthersAreAlike
  <2>4. saves'[s].step = "rejected"
    BY <2>3 DEF Over, At
  <2>5. InTime(t, s)' /\ Attested(s)'
    BY <2>4, NothingAsked
  <2> QED BY <2>1, <2>2, <2>5, OneLoopMoves
<1> QED BY <1>1, <1>2, <1>3, <1>4, <1>5, <1>6, <1>7, <1>8, <1>9, <1>10, <1>11 DEF Next

\* The attempts of a request for attestation never run out before the service has
\* judged it, and what is taken for success left the board attested: for all
\* delays that outlast the lag and the faults (use-attest.ts, RETRY_DELAYS_MS).
THEOREM SavedGetsAttested ==
  ASSUME NEW t \in Timetables, Patient(t)
  PROVE  Spec => []SavedIsAttested
<1>1. Init => PInv(t)
  BY Initially, InTimeAtFirst
<1>2. PInv(t) /\ [Next]_vars => PInv(t)'
  <2> SUFFICES ASSUME PInv(t), [Next]_vars PROVE PInv(t)'
    OBVIOUS
  <2>1. IInv /\ IInv'
    BY Inductive DEF PInv
  <2>2. EditorTypeOK /\ EditorTypeOK' /\ SessionTypeOK
    BY <2>1, TypeSplits DEF IInv, TypeOK, EditorTypeOK, VersionsOK, SavesOK
  <2>3. Budget' /\ \A s \in Saves : InTime(t, s)' /\ Attested(s)'
    BY <2>2, StaysInTime DEF PInv
  <2> QED BY <2>1, <2>3 DEF PInv
<1>3. PInv(t) => SavedIsAttested
  BY DEF PInv, InTime, Attested, SavedIsAttested
<1> QED BY <1>1, <1>2, <1>3, PTL DEF Spec
=============================================================================
