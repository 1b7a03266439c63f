SPECIFICATION Spec
CONSTANTS
  h1 = h1
  h2 = h2
  Hosts = {h1, h2}
  Loop = Loop
  NoTask = NoTask
  Ops = {"init", "query", "store_many", "evict", "clear", "optimize", "close"}
  N = 3
  D = 1
  MaxBuffer = 2
  Unstorable = {2}
  Outdated = {1, 4}
  Faulty = TRUE
  MaxAmbiguous = 1
SYMMETRY HostSymmetry
INVARIANTS
  BufferBound
  NoSilentLoss
  InOrderOnce
  ReadYourWrites
  CloseFlushes
PROPERTIES
  NoResurrection
  ImplementsWriteBehind
