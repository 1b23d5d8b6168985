---------------------------- MODULE MCSwitchTable ----------------------------
(* A small instance of SwitchTable: three addresses, one of them the opaque  *)
(* sentinel, on two ports, with room for two entries.                        *)
EXTENDS SwitchTable, TLC

Addresses == 0 .. 2
Settings == {0, 2}
PortSymmetry == Permutations(Port)
===========================================================================
