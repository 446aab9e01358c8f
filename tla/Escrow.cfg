CONSTANTS
  Reserve    = "reserve"
  MarketAccount = "market"
  Ether      = "eth"
  Tokens     = {"eth", "token"}
  MaxBalance = 2
  Accounts <- OneAccount
  Amounts  <- UpToTwo
SPECIFICATION Spec
INVARIANT TypeOK
INVARIANT CustodyBacksBalances
PROPERTY DebtOnlyFromSettlement
