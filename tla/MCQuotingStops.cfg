CONSTANTS
  b1 = b1
  h1 = h1
  Bots <- OneBot
  Handlers <- OneHandler
  Levels = 1
  MaxLive = 1
  Stops = {"kill", "buy"}
  Releases = {"clear", "adjust"}
  Faults = {"cancel", "timeout", "replace", "crash", "refuse", "place", "depart", "risk", "suppress", "expiring", "load", "fee", "disk"}
  SharedFile = TRUE
SPECIFICATION BusySpec
INVARIANTS
  OneLatePlacement
  CleanAnswerHolds

  
