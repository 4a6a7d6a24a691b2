CONSTANTS
  ctl1 = ctl1
  ctl2 = ctl2
  dash1 = dash1
  dash2 = dash2
  one = one
  two = two
  key1 = key1
  key2 = key2
  room = room
  controllerName = controllerName
  none = none
  CtlConn = {ctl1}
  DashConn = {dash1, dash2}
  Conn = {ctl1, dash1, dash2}
  Room = {room}
  PeerId = {one, two}
  Controller = controllerName
  NoConn = none
  DashName <- OwnNames
  DashKey <- OwnKeys
  Enrolled = {key1}
  AllowEnroll = FALSE
  HalfOpen = {dash1, dash2}
  MaxInput = 0
  MaxOut = 1
  Cap = 8
CHECK_DEADLOCK FALSE
SPECIFICATION FairSpec
INVARIANT TypeOK
INVARIANT ReadyIsAuthentic
INVARIANT EstablishedWhenQuiet
PROPERTY Establishes
PROPERTY SlotFreed
