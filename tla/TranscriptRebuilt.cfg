CONSTANTS
  fileA = fileA
  fileB = fileB
  none = none
  File = {fileA, fileB}
  NoFile = none
  HiCap = 1
  RefreshCap = 1
  MaxRows = 3
  MaxReplace = 0
  MaxJoins = 1
  Page = TRUE
SPECIFICATION Spec
INVARIANT Rebuilt
