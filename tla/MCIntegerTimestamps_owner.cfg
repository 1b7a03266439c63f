SPECIFICATION FairSpec
CONSTANTS
  Moments <- Instants
  K = 2
  Legacy = 2
  MaxRow = 2
  BatchRows = 1
  ReportRows = 2
  MaxCuts = 2
  ReaderOpen = TRUE
INVARIANTS TypeOK FormatsFollowFlag ReadyIsComplete LastValueNewest ReaderExact
PROPERTIES QuickWhenPromised ConversionCompletes PendingVacuumRuns
