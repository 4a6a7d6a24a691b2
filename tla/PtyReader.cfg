CONSTANTS
  Token <- MCToken
  Item <- MCItem
  Buf = 3
  MaxItems = 3
SPECIFICATION Spec
CHECK_DEADLOCK FALSE
INVARIANT TypeOK
INVARIANT TextFaithful
INVARIANT StatusFaithful
 
INVARIANT BodyOpen
