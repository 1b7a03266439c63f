SPECIFICATION Spec
CONSTANTS
  Moments <- Instants
  K = 1
  Legacy = 3
  MaxRow = 3
  BatchRows = 2
  ReportRows = 2
  MaxCuts = 0
  ReaderOpen = TRUE
INVARIANT ReadersCarryOn
