--------------------------- MODULE MCDeviceTable ---------------------------
EXTENDS DeviceTable, TLC

CONSTANTS key1, key2, key3

Symmetry == Permutations(Key)

=============================================================================
