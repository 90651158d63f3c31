CONSTANTS
  Ladders <- SomeLadders
  Fees <- TwoFees
  Foreign <- Predecessors
  MaxForeign = 1
  Life = 3
  Margin = 1
  Slack = 1
  Poll = 1
  Refresh = 2
  MaxAge = 2
  Window = 1
  Budget = 1
  Tolerance = 2
  MinMove = 0
  MinLife = 1
  SizeTol = 1
  Faults = {"call", "refuse", "depart", "crash"}
SPECIFICATION Spec
INVARIANTS
  TypeOK
  NoneLapses
  BudgetKept
  StaleTermsGo
  
  RungsStay
  AdoptedIsKept
  
