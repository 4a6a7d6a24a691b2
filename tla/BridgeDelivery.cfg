CONSTANTS
  HiCap = 2
  LoCap = 1
  InCap = 1
  NetCap = 1
  MaxOut = 2
  MaxRows = 2
  MaxInputs = 1
  Endless = FALSE
  MaxBreaks = 1
  Setup = {"token", "open", "bad"}
  Stops = {}
SPECIFICATION Spec
CHECK_DEADLOCK FALSE
INVARIANT TypeOK
INVARIANT RowsContiguous
INVARIANT InOrderOnce
INVARIANT Preamble
PROPERTY Delivered
