\* A built-in question that is not judged, a stored one that is, and another stored one.
CONSTANTS
  Questions = {b, k}
  Stored = {k, m}
  Judged = {k}
  MaxAttempts = 2
  Nowhere = Nowhere
  Dbs = {1, 2}
  MaxRuns = 2
  MaxOthers = 1
SPECIFICATION Spec
CHECK_DEADLOCK FALSE
INVARIANTS RunnerIsConsistent HistoryIsFaithful
PROPERTIES SideEffectsAreContained RunsSettle
