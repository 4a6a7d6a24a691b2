--------------------------- MODULE MCRelaySession ---------------------------
EXTENDS RelaySession, TLC

CONSTANTS ctl1, ctl2, dash1, dash2, one, two, key1, key2, room, controllerName, none

OwnNames    == (dash1 :> one) @@ (dash2 :> two)
OwnKeys     == (dash1 :> key1) @@ (dash2 :> key2)
SingleName  == (dash1 :> one)
SingleKey   == (dash1 :> key1)

=============================================================================
