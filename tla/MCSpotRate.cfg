CONSTANTS
  Providers <- AllProviders
  Sources <- TwoSources
  Prices <- FarPrices
  MaxDev = 1
  MaxAge = 2
  Refresh = 2
  Carry = 1
  Failures = 2
  Cooldown = 2
SPECIFICATION FairSpec
INVARIANTS
  ServedInAge
PROPERTIES
  FollowsMarket
