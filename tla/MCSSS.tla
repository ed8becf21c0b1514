------------------------------- MODULE MCSSS -------------------------------
(* A small deployment for TLC: device d1 is launched twice, d2 once.       *)
EXTENDS SSS

CONSTANTS d1, d2, a1, a2, b1

MCDevices == {d1, d2}
MCBoots   == {a1, a2, b1}
MCIdOf    == [b \in MCBoots |-> IF b = b1 THEN d2 ELSE d1]
=============================================================================
