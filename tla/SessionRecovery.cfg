CONSTANTS
  ctl1 = ctl1
  ctl2 = ctl2
  dash1 = dash1
  dash2 = dash2
  one = one
  two = two
  key1 = key1
  key2 = key2
  room = room
  controllerName = controllerName
  none = none
  CtlConn = {ctl1, ctl2}
  DashConn = {dash1}
  Conn = {ctl1, ctl2, dash1}
  Room = {room}
  PeerId = {one}
  Controller = controllerName
  NoConn = none
  DashName <- SingleName
  DashKey <- SingleKey
  Enrolled = {key1}
  AllowEnroll = FALSE
  HalfOpen = {}
  MaxInput = 0
  MaxOut = 0
  Cap = 8
CHECK_DEADLOCK FALSE
SPECIFICATION Spec
INVARIANT EstablishedWhenQuiet
