---------------------------- MODULE MCController ----------------------------
(* One controller, of device d1, among the air's other users.              *)
EXTENDS Controller

CONSTANTS d1, d2, a1

MCIdOf == [b \in Boots |-> d1]
MCCpuMsgs ==
    {[tgt |-> SSS_ID, data |-> op] : op \in Data}
        \cup {[tgt |-> id, data |-> REG] : id \in {d2, BRDCST_ID, FAA_ID}}
MCAirMsgs ==
    {packet(id, d2, REG) : id \in {d1, d2, BRDCST_ID}}
        \cup {packet(d1, FAA_ID, REG), packet(BRDCST_ID, d1, REG)}
=============================================================================
