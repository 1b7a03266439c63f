SPECIFICATION Spec
CONSTANTS
  Backends = {"sqlite"}
  Processes = {p1}
  Legacy = 1
  MaxRow = 2
INVARIANT RowsKept
