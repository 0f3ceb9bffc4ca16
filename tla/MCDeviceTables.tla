--------------------------- MODULE MCDeviceTables ---------------------------
(* A small instance: two Ethernet designators that can be used, a row        *)
(* between them that cannot, and a table with only the second.               *)
EXTENDS DeviceTables
CONSTANTS A, B, C
TwoRows == {A, B}
ThreeRows == {A, B, C}
OneTable == {<<A, B>>}
BrokenTable == {<<A, C, B>>}
TwoTables == {<<A, B>>, <<B>>}
=============================================================================
