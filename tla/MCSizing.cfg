CONSTANTS
  Config <- Markets
  Indices <- TwoIndices
  Books <- SomeBooks
  Overrides <- SomeOverrides
  MaxEvents = 2
SPECIFICATION Spec

  
  
  
  
PROPERTIES
  StableSizing
