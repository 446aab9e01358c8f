CONSTANTS
  MaxAssets      = 1
  MaturityLength = 2
  NumMaturities  = 1
  MaxNotional    = 2
  MaxTime        = 2
  Accounts  <- MCAccounts
  Groups    <- PairsGroup
  AMMGroups <- NoGroup
  Amounts   <- UpToTwo
SPECIFICATION Spec
PROPERTY ImplementsLedger
