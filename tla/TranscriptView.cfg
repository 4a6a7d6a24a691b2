CONSTANTS
  fileA = fileA
  fileB = fileB
  none = none
  File = {fileA, fileB}
  NoFile = none
  HiCap = 1
  RefreshCap = 1
  MaxRows = 2
  MaxReplace = 1
  MaxJoins = 2
  Page = FALSE
SPECIFICATION FairSpec
INVARIANT TypeOK
INVARIANT CaughtUp
INVARIANT SessionFirst
PROPERTY EventuallyShown
