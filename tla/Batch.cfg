CONSTANTS
  Reserve          = "reserve"
  MarketAccount    = "market"
  Ether            = "eth"
  Local            = "dai"
  Currencies       = {"eth", "dai"}
  Decimals         = 2
  SecondsInYear    = 2
  MaturityLength   = 2
  NumMaturities    = 1
  FCashHaircut     = 1
  FCashMaxHaircut  = 2
  LiquidityHaircut = 1
  Buffer           = 3
  TransactionFee   = 2
  MaxAssets        = 2
  MaxTradeSize     = 2
  MaxTotal         = 2
  MaxCustody       = 2
  MaxTime          = 2
  Answers  <- LowAndHigh
  Accounts = {alice, bob}
  Amounts  <- UpToTwo
  EtherSent     <- NoneOrOne
  DepositLists  <- MCDeposits
  TradeLists    <- MCTrades
  WithdrawLists <- MCWithdraws
SPECIFICATION BatchSpec
SYMMETRY Symmetry
INVARIANT Solvent
INVARIANT ResidualsLeaveNothing
PROPERTY OnlyPricesEndanger
