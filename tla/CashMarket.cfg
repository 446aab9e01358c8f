CONSTANTS
  MaturityLength = 2
  NumMaturities  = 1
  MaxTradeSize   = 4
  MaxTotal       = 6
  MaxTime        = 3
  Amounts <- MCAmounts
SPECIFICATION Spec
INVARIANT TypeOK
INVARIANT PoolConsistent
INVARIANT RoundTripNoGain
INVARIANT SplitNoGain
INVARIANT RaisesWhatIsRequired
INVARIANT AdvertisedIsTradeable
PROPERTY ProvidersNotDiluted
PROPERTY MaturedPoolOnlyPaysOut
