SPECIFICATION FairSpec
CONSTANTS
  h1 = h1
  h2 = h2
  Hosts = {h1, h2}
  Loop = Loop
  NoTask = NoTask
  Ops = {"init", "flush", "store_many", "evict", "clear", "begin", "end", "close"}
  N = 2
  D = 1
  MaxBuffer = 2
  Unstorable = {2}
  Outdated = {}
  Faulty = TRUE
  MaxAmbiguous = 0
INVARIANTS
  TypeOK
  MutualExclusion
  GateOpenInside
PROPERTIES
  BackupQuiet
  EveryCallEnds
  EventuallyStored
