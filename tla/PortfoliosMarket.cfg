CONSTANTS
  MaxAssets      = 1
  MaturityLength = 1
  NumMaturities  = 1
  MaxNotional    = 1
  MaxTime        = 1
  Accounts  <- MCAccounts
  Groups    <- MarketGroup
  AMMGroups <- MarketGroup
  Amounts   <- ZeroAndOne
SPECIFICATION Spec
INVARIANT TypeOK
INVARIANT NoDuplicateEntries
PROPERTY ImplementsLedger
