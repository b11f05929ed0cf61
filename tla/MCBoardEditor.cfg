SPECIFICATION Spec
CONSTANTS
  Accounts = {ann, bob}
  NoUser = NoUser
  Stored = {ann}
  MaxActs = 2
  MaxLogins = 2
  Owner = ann
  Texts = {x, y}
  Delays <- MCDelays
  Troubles <- MCTroubles
  MaxSaves = 2
CHECK_DEADLOCK FALSE
INVARIANTS
  ClosedFormIsTheBoard
  SavedIsAttested
  EditsKeepTheBoard
PROPERTIES
  OnlyWantedClicksRun
