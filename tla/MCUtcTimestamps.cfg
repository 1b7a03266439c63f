SPECIFICATION Spec
CONSTANTS
  Dests = {d1}
  Zones <- MCZones
  Hour = 2
  Moments <- MCMoments
  Legacy = 3
  Upgrade = 5
  MaxClock = 9
  MaxRow = 4
  Delay = 1
INVARIANTS UtcRowsKept  
PROPERTY QuickWhenPromised
