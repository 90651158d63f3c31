CONSTANTS
  s1 = s1
  s2 = s2
  Strikes <- TwoStrikes
  RangeWidth = 2
  LastNonce = 10
  Faults = {"crash", "save", "step back", "replace"}
SPECIFICATION StrikesSpec
SYMMETRY Symmetry
INVARIANTS
  StrikesTypeOK
  NoNonceTwice
