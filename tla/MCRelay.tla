------------------------------ MODULE MCRelay ------------------------------
EXTENDS Relay, TLC

CONSTANTS k1, k2, k3, k4, ctl, none, dash1, dash2, room1, room2

\* The name that stands for the controller is unlike the others.
Symmetry == Permutations(Conn) \cup Permutations(PeerId \ {Controller}) \cup Permutations(Room)

=============================================================================
