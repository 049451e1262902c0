SPECIFICATION Spec
CONSTANTS
  Cols = 10
  CRLFOut = TRUE
  Alphabet <- MCAlphabet
  Columns = {1, 12}
  MaxOutput = 9
  MaxConns = 2
INVARIANTS
  TypeOK
  ColumnTracked
  AsOnConsole
PROPERTY
  NothingPastMargin
CHECK_DEADLOCK FALSE
