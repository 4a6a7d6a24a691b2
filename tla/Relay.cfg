CONSTANTS
  k1 = k1
  k2 = k2
  k3 = k3
  k4 = k4
  ctl = ctl
  none = none
  dash1 = dash1
  dash2 = dash2
  room1 = room1
  room2 = room2
  Conn = {k1, k2, k3}
  Room = {room1, room2}
  PeerId = {dash1, dash2, ctl}
  Controller = ctl
  NoConn = none
  Cap = 3
  MaxMsgs = 1
  MaxBreaks = 1
SYMMETRY Symmetry
SPECIFICATION Spec
CHECK_DEADLOCK FALSE

INVARIANT TypeOK
INVARIANT RegistryConsistent
INVARIANT ReachableUnlessShared
INVARIANT PresenceExact
INVARIANT AckFirst
INVARIANT RoutedFaithfully
INVARIANT DeliveredOnce
INVARIANT AnnouncedBeforeDelivered
