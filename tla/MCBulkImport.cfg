\* Up to five rows, imported twice; statements of two rows, batches of two.
CONSTANTS
  QuestionIds = {q1, q2, q3, q4, q5}
  MaxItems = 5
  MaxImports = 2
  RowsPerStatement = 2
  StatementsPerBatch = 2
  OthersCreate = TRUE
  CallsThrow = TRUE
SPECIFICATION ImportSpec
SYMMETRY Symmetry
CHECK_DEADLOCK FALSE
INVARIANTS QuietImportsAreExact
PROPERTIES NeverOverwritten
