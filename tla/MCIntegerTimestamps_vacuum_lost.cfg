SPECIFICATION Spec
CONSTANTS
  Moments <- Instants
  K = 1
  Legacy = 2
  MaxRow = 2
  BatchRows = 1
  ReportRows = 2
  MaxCuts = 1
  ReaderOpen = FALSE
INVARIANT FreedSpaceAccounted
