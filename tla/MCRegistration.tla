--------------------------- MODULE MCRegistration ---------------------------
(* Deployments for TLC: MCOne is device d1 alone, MCTwice launches it a     *)
(* second time; d2 is another SED, on the air only.                         *)
EXTENDS Registration

CONSTANTS d1, d2, a1, a2

OneDevice  == {d1}
TwoDevices == {d1, d2}
MCOne   == {a1}
MCTwice == {a1, a2}

MCIdOf == [b \in Boots |-> d1]

NoMsgs == {}
ToPeer == {[tgt |-> d2, data |-> REG]}
Broadcast == {packet(BRDCST_ID, d2, DEREG)}
FromPeer == {packet(d1, d2, REG), packet(BRDCST_ID, d2, DEREG)}

\* The two launches are alike, so that it does not matter which is the first.
InTurn == link[a1] = "unused" => link[a2] = "unused"

\* The first launch sends nothing to other SEDs: what it leaves to the second is
\* in the SSS.
FirstIsSilent == \A i \in DOMAIN cpuTx[a1] : cpuTx[a1][i].tgt = SSS_ID
=============================================================================
