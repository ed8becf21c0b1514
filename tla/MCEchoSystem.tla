---------------------------- MODULE MCEchoSystem ----------------------------
(* The echo deployment for TLC: the client is a1 on d1, the server b1 on d2. *)
EXTENDS EchoSystem

CONSTANTS d1, d2, a1, b1, f1

TwoDevices == <<d1, d2>>
MCIdOf == [b \in Boots |-> IF b = b1 THEN d2 ELSE d1]

QuitServer == {[tgt |-> d2, data |-> QUIT]}
=============================================================================
