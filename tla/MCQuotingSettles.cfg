CONSTANTS
  b1 = b1
  h1 = h1
  Bots <- OneBot
  Handlers <- NoHandler
  Levels = 1
  MaxLive = 2
  Stops = {}
  Releases = {}
  Faults = {"reserve", "timeout", "crash", "cancel", "kill_file"}
  SharedFile = TRUE
SPECIFICATION FairSpec
INVARIANTS
  TypeOK
PROPERTIES
  BookSettles
