CONSTANTS
  Kinds <- AllKinds
  Prices <- TwoPrices
  Band = 0
  StaleMarket = 1
  StaleBalance = 2
  StaleAnchor = 2
  MaxAge = 1
  OracleRefresh = 2
  PoolRefresh = 2
  MarketRefresh = 1
  Poll = 1
  Slack = 1
SPECIFICATION FairSpec
INVARIANTS
  TypeOK
  
  
  BandHolds
  RefusalClearsBook
PROPERTIES
  Recovers
