CONSTANTS
  Payer      = "payer"
  Liquidator = "liquidator"
  Others     = "others"
  Reserve    = "reserve"
  Ether      = "eth"
  Decimals            = 100
  Buffer              = 140
  LiquidationDiscount = 106
  SettlementDiscount  = 102
  RepoIncentive       = 110
  LiquidityHaircut    = 80
  FCashHaircut        = 50
  FCashMaxHaircut     = 95
  SecondsInYear  = 8
  MaturityLength = 2
  NumMaturities  = 2
  MaxAssets      = 6
  Now            = 1
  LiquidatorCash = 300
  OthersCash     = 1000
  MaxCalls       = 1
  Currencies    <- MCCurrencies
  GroupCurrency <- MCGroupCurrency
  MarketOf      <- MCMarketOf
  Pools         <- MCPools
  PayerStarts   <- MCStarts
  Kinds         <- OnlyERC777
  Answers       <- MCAnswers
  Values        <- MCValues
  MaxAmounts    <- MCMaxAmounts
SPECIFICATION Spec
CHECK_DEADLOCK FALSE
PROPERTY PaidFromWallet
