CONSTANTS
  Scale = 4
  Milli = 2
  Listings <- SomeListings
  Sizes <- SomeSizes
  Prices <- SomePrices
  Spots <- SomeSpots
  Fees <- SomeFees
  Bps = 8
  Headroom = 1
  WorstFee = 1
  Drift = 1
  MaxSteps = 4
  Life = 2
  Margin = 1
  Horizon = 3
SPECIFICATION Spec
INVARIANTS
  OrdersAreTaken
  FillsClear
  NoChurn
  ReadsAgree
