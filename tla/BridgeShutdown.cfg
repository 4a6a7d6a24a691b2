CONSTANTS
  HiCap = 1
  LoCap = 1
  InCap = 1
  NetCap = 1
  MaxOut = 1
  MaxRows = 0
  MaxInputs = 2
  Endless = TRUE
  MaxBreaks = 0
  Setup = {"token", "bad"}
  Stops = {"kill", "signal", "detach"}
SPECIFICATION Spec
CHECK_DEADLOCK FALSE
PROPERTY NeverStalls
PROPERTY ExitsOnCancel
PROPERTY ExitsWithClient
PROPERTY InputTyped
