CONSTANTS
  o1 = o1
  o2 = o2
  h1 = h1
  Orders <- TwoOrders
  Handlers <- OneHandler
  Size = 2
  Faults = {"cancel", "late", "reasons", "venue", "reserve"}
SPECIFICATION Spec
SYMMETRY Symmetry
INVARIANTS
  
  NoFillLost
