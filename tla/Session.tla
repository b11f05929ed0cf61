------------------------------- MODULE Session -------------------------------
(***************************************************************************)
(* Signing in: useAuth, the one login dialog of the app, and the gate that *)
(* stashes what a logged-out visitor clicked and replays it once a login   *)
(* completes through the dialog.                                           *)
(*                                                                         *)
(* A login takes time (the extension or the remote signer asks its user),  *)
(* and the dialog may be closed meanwhile: the login goes on. Both dialogs *)
(* of the model are modal, nothing behind an open one can be clicked.      *)
(***************************************************************************)
EXTENDS Integers, FiniteSets

CONSTANTS
  Accounts,   \* the accounts somebody may log in with on this machine
  NoUser,
  Stored,     \* sessions the store may hold when the page loads: accounts, NoUser
  MaxActs,    \* bound of the model: gated clicks and login prompts
  MaxLogins   \* bound of the model: attempts to log in

Acts    == 1 .. MaxActs
NoAct   == 0
Logins  == 1 .. MaxLogins

ASSUME SessionAssumption ==
  NoUser \notin Accounts /\ Stored \subseteq Accounts \cup {NoUser}
  /\ MaxActs \in Nat /\ MaxLogins \in Nat

VARIABLES
  user,       \* the current user
  stored,     \* the session the monitor is still to restore
  loginOpen,  \* the login dialog
  busy,       \* its controls are disabled, a method is pending
  logins,     \* the attempts: unused, in flight, or over
  stash,      \* pendingAction
  acts,       \* history: the gated clicks and prompts so far
  promised,   \* history: the last of them made while logged out, if a click
  ran         \* history: how often the action of each click ran

session == <<user, stored, loginOpen, busy, logins, stash, acts, promised, ran>>

-----------------------------------------------------------------------------
Run(n) == ran' = [ran EXCEPT ![n] = @ + 1]

\* requireLogin.
Gated ==
  /\ ~loginOpen /\ acts < MaxActs /\ acts' = acts + 1
  /\ IF user = NoUser
     THEN /\ stash' = acts' /\ loginOpen' = TRUE /\ promised' = acts'
          /\ UNCHANGED ran
     ELSE Run(acts') /\ UNCHANGED <<stash, loginOpen, promised>>
  /\ UNCHANGED <<user, stored, busy, logins>>

\* Mutant of Prompt: an earlier click stays stashed.
PromptKeepsStash ==
  /\ ~loginOpen /\ user = NoUser /\ acts < MaxActs /\ acts' = acts + 1
  /\ loginOpen' = TRUE /\ promised' = NoAct
  /\ UNCHANGED <<user, stored, busy, logins, stash, ran>>

\* promptLogin, which only the logged-out see.
Prompt ==
  /\ ~loginOpen /\ user = NoUser /\ acts < MaxActs /\ acts' = acts + 1
  /\ stash' = NoAct /\ loginOpen' = TRUE /\ promised' = NoAct
  /\ UNCHANGED <<user, stored, busy, logins, ran>>

\* handleClose; the attempt in flight goes on.
CloseLogin ==
  /\ loginOpen /\ loginOpen' = FALSE /\ busy' = FALSE
  /\ UNCHANGED <<user, stored, logins, stash, acts, promised, ran>>

\* One of the three methods is started.
StartLogin(l) ==
  /\ loginOpen /\ ~busy /\ logins[l] = "unused"
  /\ logins' = [logins EXCEPT ![l] = "flying"] /\ busy' = TRUE
  /\ UNCHANGED <<user, stored, loginOpen, stash, acts, promised, ran>>

\* The session is the login's; the dialog closes; what is stashed is replayed.
LoggedIn(l, account) ==
  /\ logins[l] = "flying" /\ logins' = [logins EXCEPT ![l] = "over"]
  /\ user' = account /\ loginOpen' = FALSE /\ busy' = FALSE
  /\ stash' = NoAct
  /\ IF stash = NoAct THEN UNCHANGED ran ELSE Run(stash)
  /\ UNCHANGED <<stored, acts, promised>>

LoginFails(l) ==
  /\ logins[l] = "flying" /\ logins' = [logins EXCEPT ![l] = "over"] /\ busy' = FALSE
  /\ UNCHANGED <<user, stored, loginOpen, stash, acts, promised, ran>>

\* The monitor restores the stored session.
Restore ==
  /\ stored # NoUser /\ stored' = NoUser
  /\ user' = IF user = NoUser THEN stored ELSE user
  /\ UNCHANGED <<loginOpen, busy, logins, stash, acts, promised, ran>>

LogOut ==
  /\ ~loginOpen /\ user # NoUser /\ user' = NoUser /\ stored' = NoUser
  /\ UNCHANGED <<loginOpen, busy, logins, stash, acts, promised, ran>>

SessionInit ==
  /\ user = NoUser /\ stored \in Stored /\ loginOpen = FALSE /\ busy = FALSE
  /\ logins = [l \in Logins |-> "unused"]
  /\ stash = NoAct /\ acts = 0 /\ promised = NoAct /\ ran = [n \in Acts |-> 0]

SessionTypeOK ==
  /\ user \in Accounts \cup {NoUser} /\ stored \in Accounts \cup {NoUser}
  /\ loginOpen \in BOOLEAN /\ busy \in BOOLEAN
  /\ logins \in [Logins -> {"unused", "flying", "over"}]
  /\ acts \in 0 .. MaxActs /\ stash \in 0 .. acts /\ promised \in 0 .. acts
  /\ ran \in [Acts -> 0 .. 1]
=============================================================================
