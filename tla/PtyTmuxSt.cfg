CONSTANTS
  Token <- MCToken
  Item <- TmuxStItem
  Buf = 3
  MaxItems = 1
SPECIFICATION Spec
CHECK_DEADLOCK FALSE
INVARIANT StatusFaithful
