CONSTANTS
  Reserve          = "reserve"
  MarketAccount    = "market"
  Ether            = "eth"
  Local            = "eth"
  Currencies       = {"eth"}
  Decimals         = 2
  SecondsInYear    = 2
  MaturityLength   = 2
  NumMaturities    = 1
  FCashHaircut     = 1
  FCashMaxHaircut  = 2
  LiquidityHaircut = 1
  Buffer           = 3
  TransactionFee   = 2
  MaxAssets        = 2
  MaxTradeSize     = 3
  MaxTotal         = 4
  MaxCustody       = 4
  MaxTime          = 2
  Answers  <- NoAnswers
  Accounts <- MCAccounts
  Amounts  <- UpToThree
SPECIFICATION Spec
INVARIANT TypeOK
INVARIANT fCashNetsToZero
INVARIANT TokensMatchSupply
INVARIANT PoolsHoldTheirCash
INVARIANT Solvent
INVARIANT SettlementNeutral
INVARIANT ReceiversNeverLose
INVARIANT SettlesExactlyMatured
PROPERTY DebtOnlyFromMaturedAssets
