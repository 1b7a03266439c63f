SPECIFICATION FairSpec
CONSTANTS
  h1 = h1
  h2 = h2
  Hosts = {h1, h2}
  Loop = Loop
  NoTask = NoTask
  Ops = {"init", "begin", "end", "close"}
  N = 1
  D = 0
  MaxBuffer = 1
  Unstorable = {}
  Outdated = {}
  Faulty = FALSE
  MaxAmbiguous = 0
PROPERTIES
  CloseCompletes
