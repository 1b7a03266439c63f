SPECIFICATION Spec
CONSTANTS
  p1 = p1
  p2 = p2
  d1 = d1
  d2 = d2
  Processes = {p1, p2}
  Names = {d1, d2}
  Telegrams <- MCTelegrams
  NameOf <- MCNameOf
  TimeOf <- MCTimeOf
  Oversized = {3}
  Batches <- MCBatches
  Cutoffs = {2}
SYMMETRY ProcessSymmetry
INVARIANTS TypeOK CacheCommitted RowsNamed LastValueNewest NotifiedOnce
PROPERTY LastValueSurvives
