SPECIFICATION FairSpec
CONSTANTS
  Backends = {"sqlite", "postgres"}
  Processes = {p1, p2}
  Legacy = 2
  MaxRow = 2
INVARIANTS UnwrappedOnce FlagsTell
PROPERTIES QuickWhenPromised BackfillNeverWaits
