CONSTANTS
  o1 = o1
  o2 = o2
  h1 = h1
  Orders <- TwoOrders
  Handlers <- NoHandler
  Size = 1
  Faults = {"tape"}
SPECIFICATION Spec
INVARIANTS
  FillsCountOnce
