SPECIFICATION FairSpec
CONSTANTS
  Receipts <- MCForgeries
  Events = {"i1", "i2"}
  People = {"me", "zoe", "eve", "ann", "bob"}
  Keys = {"kp", "kx"}
  NoAnchor = NoAnchor
  NoInvoice = NoInvoice
  NoAmount = NoAmount
  Author <- MCAuthor
  Provider <- MCProvider
  Mine = {1}
  Others = {2}
  Sender <- MCSender
  Target <- MCTarget
  Amounts = {1, 3}
  Copies = 2
  Forgeries <- MCForgeries
  Disowned <- MCDisowned
  MaxAttempts = 5
  MaxDelay = 5
  NegTTL = 14
  FetchTime = 2
  MaxOutage = 12
  MaxFaults = 2
INVARIANTS
  ZapsTypeOK
  TotalIsWhatWasPaid
PROPERTIES
  OnlyNewsMovesPayments
  PaidIsShown
