----------------------------- MODULE BoardEditor -----------------------------
(***************************************************************************)
(* Creating and editing a board: the two dialogs of BoardDialog, the login *)
(* gate in front of the first, the publish, and the request for            *)
(* attestation that follows it. Session is the signed-in side.             *)
(*                                                                         *)
(* The page is the discover page, whose dialog creates a board, or the     *)
(* page of a board, whose dialog edits it and exists only while its owner  *)
(* is signed in. A dialog may be closed while its publish is in flight;    *)
(* opened again, it takes another submission.                              *)
(***************************************************************************)
EXTENDS Session, Sequences

CONSTANTS
  Owner,      \* who signed the board the page starts with
  Texts,      \* contents of the form that may be saved
  Delays,     \* RETRY_DELAYS_MS, in units of two seconds
  Troubles,   \* bounds of the model: how long a version takes to the service's
              \* relays, with how many faults
  MaxSaves    \* bound of the model: submissions, and edits from another device

Blank == "blank"
Saves == 1 .. MaxSaves
Steps == {"none", "publishing", "reached", "waiting", "asking",
          "attested", "rejected", "dropped", "gaveUp", "refused"}

ASSUME EditorAssumption ==
  /\ Owner \in Accounts /\ Blank \notin Texts /\ Texts # {}
  /\ Troubles \subseteq [lag : Nat, faults : Nat]
  /\ Delays \in Seq(Nat) /\ Delays # <<>>
  /\ MaxSaves \in Nat

VARIABLES
  versions,   \* the versions signed so far, by date; reached: some relay has it,
              \* left: the time until the service can read it
  shown,      \* the version the board page displays; 0 on the discover page
  open,       \* the dialog of the page
  form,       \* what is in it
  pending,    \* its submit button is disabled
  saves,      \* what has become of every submission
  labels,     \* the versions the service attested
  trouble,    \* what is left of the faults, and the lag
  others      \* edits made elsewhere

editor == <<versions, shown, open, form, pending, saves, labels, trouble, others>>
vars == <<session, editor>>

-----------------------------------------------------------------------------
\* What the dialog of a page starts with, and reverts to.
Seed(v) == IF v = 0 THEN Blank ELSE versions[v].text

CanEdit(account) == shown # 0 /\ account = versions[shown].by

\* The page of version v: its dialog is fresh, those of earlier pages are gone.
Fresh(v) ==
  /\ open' = FALSE /\ form' = Seed(v) /\ pending' = FALSE

\* A submission of which only the version is left, or not even that.
At(step, version) ==
  [step |-> step, version |-> version, creates |-> FALSE, on |-> FALSE,
   attempt |-> 0, wait |-> 0, signer |-> NoUser]

Over(s, step) == At(step, saves[s].version)

Detached == [s \in Saves |-> [saves[s] EXCEPT !.on = FALSE]]

\* Mutant of Closed: reset clears an edit dialog like a create dialog.
ClosedClears ==
  /\ open' = FALSE /\ form' = Blank /\ pending' = FALSE

\* The dialog closes: reset.
Closed ==
  /\ open' = FALSE /\ form' = Seed(shown) /\ pending' = FALSE

\* Mutant of FollowsUser: the edit dialog outlives the session of its owner.
FollowsNobody == UNCHANGED <<open, form, pending, saves>>

\* The edit dialog is there while its owner is the current user.
FollowsUser ==
  IF CanEdit(user) /\ ~CanEdit(user')
  THEN Fresh(shown) /\ saves' = Detached
  ELSE UNCHANGED <<open, form, pending, saves>>

-----------------------------------------------------------------------------
(* The visitor. *)

Opens == open' = TRUE /\ UNCHANGED <<form, pending>>

NewBoard ==
  /\ shown = 0 /\ ~open /\ Gated
  /\ IF user = NoUser THEN UNCHANGED <<open, form, pending>> ELSE Opens
  /\ UNCHANGED <<versions, shown, saves, labels, trouble, others>>

\* The replayed click opens the create dialog, if its page is still there.
SignIn ==
  /\ \E l \in Logins, account \in Accounts : LoggedIn(l, account)
  /\ IF shown = 0 /\ stash # NoAct THEN Opens /\ UNCHANGED saves ELSE FollowsUser
  /\ UNCHANGED <<versions, shown, labels, trouble, others>>

SignOut ==
  /\ ~open /\ LogOut /\ FollowsUser
  /\ UNCHANGED <<versions, shown, labels, trouble, others>>

SignInSteps ==
  /\ \/ ~open /\ Prompt
     \/ CloseLogin
     \/ \E l \in Logins : StartLogin(l) \/ LoginFails(l)
     \/ Restore
  /\ UNCHANGED editor

OpenEdit ==
  /\ CanEdit(user) /\ ~open /\ ~loginOpen /\ Opens
  /\ UNCHANGED <<session, versions, shown, saves, labels, trouble, others>>

Type ==
  /\ open /\ \E text \in Texts \ {form} : form' = text
  /\ UNCHANGED <<session, versions, shown, open, pending, saves, labels, trouble, others>>

Cancel ==
  /\ open /\ Closed
  /\ UNCHANGED <<session, versions, shown, saves, labels, trouble, others>>

Used == Cardinality({s \in Saves : saves[s].step # "none"})

\* submit, up to publish: the board is built and dated. A new one has its own slug.
Submit(s) ==
  /\ open /\ form # Blank /\ ~pending /\ user # NoUser
  /\ saves[s].step = "none" /\ s = Used + 1 /\ s + others <= MaxSaves
  /\ LET v == Len(versions) + 1
         board == IF shown = 0 THEN v ELSE versions[shown].board
     IN /\ versions' = Append(versions,
             [board |-> board, by |-> user, text |-> form, reached |-> FALSE, left |-> trouble.lag])
        /\ saves' = [saves EXCEPT ![s] = [@ EXCEPT
             !.step = "publishing", !.version = v, !.creates = (shown = 0), !.on = TRUE]]
  /\ pending' = TRUE
  /\ UNCHANGED <<session, shown, open, form, labels, trouble, others>>

-----------------------------------------------------------------------------
(* The publish, and what follows it in submit. *)

Reaches(s) ==
  /\ saves[s].step = "publishing"
  /\ saves' = [saves EXCEPT ![s].step = "reached"]
  /\ versions' = [versions EXCEPT ![saves[s].version].reached = TRUE]
  /\ UNCHANGED <<session, shown, open, form, pending, labels, trouble, others>>

\* The publish succeeds: attest is called, the dialog closes, a creation leaves
\* for the page of its board.
Settles(s) ==
  LET after == [Over(s, "waiting") EXCEPT !.attempt = 1, !.wait = Delays[1]]
  IN
  /\ saves[s].step = "reached"
  /\ IF saves[s].creates
     THEN /\ shown' = saves[s].version /\ Fresh(saves[s].version)
          /\ saves' = [Detached EXCEPT ![s] = after]
     ELSE /\ shown' = shown /\ saves' = [saves EXCEPT ![s] = after]
          /\ IF saves[s].on /\ open THEN Closed ELSE UNCHANGED <<open, form, pending>>
  /\ UNCHANGED <<session, versions, labels, trouble, others>>

\* The publish fails, whether or not a relay has the board by then.
Fails(s) ==
  /\ saves[s].step \in {"publishing", "reached"} /\ trouble.faults > 0
  /\ saves' = [saves EXCEPT ![s] = Over(s, "refused")]
  /\ trouble' = [trouble EXCEPT !.faults = @ - 1]
  /\ pending' = IF saves[s].on THEN FALSE ELSE pending
  /\ UNCHANGED <<session, versions, shown, open, form, labels, others>>

\* The owner saves the board from another device.
OtherEdit ==
  /\ shown # 0 /\ Used + others < MaxSaves /\ others' = others + 1
  /\ \E text \in Texts \ {versions[shown].text} :
       versions' = Append(versions, [versions[shown] EXCEPT
                     !.text = text, !.reached = TRUE, !.left = trouble.lag])
  /\ UNCHANGED <<session, shown, open, form, pending, saves, labels, trouble>>

\* The page displays a newer version; the effect seeds the dialog unless it is open.
Displays(v) ==
  /\ shown # 0 /\ v > shown /\ versions[v].reached
  /\ versions[v].board = versions[shown].board /\ shown' = v
  /\ form' = IF open THEN form ELSE versions[v].text
  /\ pending' = IF open THEN pending ELSE FALSE
  /\ UNCHANGED <<session, versions, open, saves, labels, trouble, others>>

-----------------------------------------------------------------------------
(* useAttest, and the service it asks. *)

\* Mutant of Again: one attempt too few.
AgainOnce(s) ==
  IF saves[s].attempt < Len(Delays) - 1
  THEN [Over(s, "waiting") EXCEPT !.attempt = saves[s].attempt + 1,
                                  !.wait = Delays[saves[s].attempt + 1]]
  ELSE Over(s, "gaveUp")

\* An attempt is over without an answer that ends the loop.
Again(s) ==
  IF saves[s].attempt < Len(Delays)
  THEN [Over(s, "waiting") EXCEPT !.attempt = saves[s].attempt + 1,
                                  !.wait = Delays[saves[s].attempt + 1]]
  ELSE Over(s, "gaveUp")

\* The token is signed by whoever is signed in now. When nobody is, or the signer
\* refuses, the loop ends there.
Ask(s) ==
  /\ saves[s].step = "waiting" /\ saves[s].wait = 0
  /\ \/ /\ user # NoUser
        /\ saves' = [saves EXCEPT ![s] = [@ EXCEPT !.step = "asking", !.signer = user]]
     \/ saves' = [saves EXCEPT ![s] = Over(s, "dropped")]
  /\ UNCHANGED <<session, versions, shown, open, form, pending, labels, trouble, others>>

\* The versions of a board the service can read.
Readable(board) ==
  {v \in 1 .. Len(versions) :
     versions[v].board = board /\ versions[v].reached /\ versions[v].left = 0}

Newest(set) == {v \in set : \A w \in set : w <= v}

\* What the service does with a request, and the step the client goes to.
Attests(s) ==
  LET board == versions[saves[s].version].board
  IN Readable(board) # {} /\ saves[s].signer = versions[saves[s].version].by

Labelled(s) ==
  labels \cup IF Attests(s) THEN Newest(Readable(versions[saves[s].version].board)) ELSE {}

Answer(s) ==
  /\ saves[s].step = "asking" /\ labels' = Labelled(s)
  /\ saves' = [saves EXCEPT ![s] =
       IF Readable(versions[saves[s].version].board) = {} THEN Again(s)
       ELSE IF Attests(s) THEN Over(s, "attested") ELSE Over(s, "rejected")]
  /\ UNCHANGED <<session, versions, shown, open, form, pending, trouble, others>>

\* The service takes the token for too old or too new: a 401, to the owner as to
\* anybody, and the loop ends.
TurnsDown(s) ==
  /\ saves[s].step = "asking"
  /\ saves' = [saves EXCEPT ![s] = Over(s, "rejected")]
  /\ UNCHANGED <<session, versions, shown, open, form, pending, labels, trouble, others>>

\* No answer or a 5xx, before or after the service did its part.
FaultAnswer(s) ==
  /\ saves[s].step = "asking" /\ trouble.faults > 0
  /\ labels' \in {labels, Labelled(s)}
  /\ trouble' = [trouble EXCEPT !.faults = @ - 1]
  /\ saves' = [saves EXCEPT ![s] = Again(s)]
  /\ UNCHANGED <<session, versions, shown, open, form, pending, others>>

\* Two seconds pass. What is due is done first.
Tick ==
  /\ \A s \in Saves : saves[s].step = "waiting" => saves[s].wait > 0
  /\ \/ \E s \in Saves : saves[s].step = "waiting"
     \/ \E v \in 1 .. Len(versions) : versions[v].reached /\ versions[v].left > 0
  /\ saves' = [s \in Saves |-> IF saves[s].step = "waiting"
                               THEN [saves[s] EXCEPT !.wait = @ - 1] ELSE saves[s]]
  /\ versions' = [v \in 1 .. Len(versions) |->
       IF versions[v].reached /\ versions[v].left > 0
       THEN [versions[v] EXCEPT !.left = @ - 1] ELSE versions[v]]
  /\ UNCHANGED <<session, shown, open, form, pending, labels, trouble, others>>

-----------------------------------------------------------------------------
Init ==
  /\ SessionInit /\ trouble \in Troubles
  /\ shown \in {0, 1}
  /\ versions = IF shown = 0 THEN <<>> ELSE
       <<[board |-> 1, by |-> Owner, text |-> CHOOSE t \in Texts : TRUE,
          reached |-> TRUE, left |-> 0]>>
  /\ open = FALSE /\ form = Seed(shown) /\ pending = FALSE
  /\ saves = [s \in Saves |-> At("none", 0)]
  /\ labels = {} /\ others = 0

Next ==
  \/ NewBoard \/ SignIn \/ SignOut \/ SignInSteps
  \/ OpenEdit \/ Type \/ Cancel \/ OtherEdit \/ Tick
  \/ \E s \in Saves : Submit(s) \/ Reaches(s) \/ Settles(s) \/ Fails(s)
                      \/ Ask(s) \/ Answer(s) \/ TurnsDown(s) \/ FaultAnswer(s)
  \/ \E v \in 1 .. Len(versions) : Displays(v)

Spec == Init /\ [][Next]_vars

-----------------------------------------------------------------------------
(* Properties. *)

Version ==
  [board : Nat, by : Accounts, text : Texts, reached : BOOLEAN, left : Nat]

Save ==
  [step : Steps, version : Nat, creates : BOOLEAN, on : BOOLEAN,
   attempt : 0 .. Len(Delays), wait : Nat, signer : Accounts \cup {NoUser}]

\* The type invariant of the session and of the editor.
TypeOK ==
  /\ SessionTypeOK
  /\ versions \in Seq(Version) /\ shown \in 0 .. Len(versions)
  /\ open \in BOOLEAN /\ form \in Texts \cup {Blank} /\ pending \in BOOLEAN
  /\ \A v \in 1 .. Len(versions) : versions[v].board \in 1 .. v
  /\ saves \in [Saves -> Save]
  /\ \A s \in Saves : /\ saves[s].version \in 0 .. Len(versions)
                      /\ saves[s].version = 0 => saves[s].step = "none"
  /\ labels \subseteq 1 .. Len(versions)
  /\ trouble \in [lag : Nat, faults : Nat] /\ others \in Nat

\* What login-gate.tsx promises of a stashed click: its action runs at most once
\* and only for a signed-in user; when it is not run by the click itself, it is
\* run by a login completed through the dialog, never by a restored session, and
\* it is the last click of a signed-out visitor. And such a login does run it.
OnlyWantedClicksRun ==
  [][/\ \A n \in Acts : ran'[n] # ran[n] =>
          /\ ran'[n] = 1 /\ user' # NoUser
          /\ n > acts \/ (n = promised /\ logins' # logins)
     /\ user = NoUser /\ user' # NoUser /\ logins' # logins /\ promised # NoAct
          => ran'[promised] = 1]_session

\* A closed dialog holds the board the page displays and takes a submission, after
\* any order of typing, saving, cancelling, changes of user and live updates: it
\* never republishes a stale draft (board-dialog.tsx:110-111).
ClosedFormIsTheBoard == ~open => form = Seed(shown) /\ ~pending

\* Whoever signs in while an edit is under way, a board is only ever edited by
\* its owner: its slug signed by another account would be another board.
EditsKeepTheBoard ==
  \A v \in 1 .. Len(versions) : versions[v].by = versions[versions[v].board].by

\* The attempts of a request for attestation never run out before the service has
\* judged it, in spite of relays that are slow to pass the board on, of failed
\* requests, and of whoever saves it meanwhile (use-attest.ts:33-37); and what the
\* client takes for success left the board attested. A signer that refuses and a
\* token that is turned down end the loop earlier, and promise nothing.
SavedIsAttested ==
  \A s \in Saves :
    /\ saves[s].step # "gaveUp"
    /\ saves[s].step = "attested" =>
         \E v \in labels : versions[v].board = versions[saves[s].version].board

(* What SavedIsAttested takes of Delays and Troubles. *)

\* When an attempt starts, counted from the moment the publish settled.
Timetables ==
  {t \in [0 .. Len(Delays) -> Nat] :
     t[0] = 0 /\ \A k \in 1 .. Len(Delays) : t[k] = t[k - 1] + Delays[k]}

\* The retries outlast the lag and the faults: as many attempts as there may be
\* faults start once the lag is over, and one more.
Patient(t) ==
  \A trial \in Troubles :
    trial.faults < Len(Delays) /\ trial.lag <= t[Len(Delays) - trial.faults]
=============================================================================
