SPECIFICATION Spec
CONSTANTS
  d1 = d1
  d2 = d2
  Telegrams <- MCTelegrams
  Names = {d1, d2}
  NameOf <- MCNameOf
  TimeOf <- MCTimeOf
  DptOf <- MCDptOf
  MaxTelegrams = 3
  Batches <- MCBatches
  Cutoffs = {2, 3}
  PageSize = 2
  Newest = 3
  Asked <- MCQueries
INVARIANTS BackendsAgree LastValuesAgree PagesCover NothingTwice MigrationComplete
