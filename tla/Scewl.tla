------------------------------- MODULE Scewl -------------------------------
(***************************************************************************)
(* Vocabulary shared by every module of the SCEWL development: identifiers *)
(* of the bus, registration operations, and the launches ("boots") of the  *)
(* devices of a deployment.                                                *)
(*                                                                         *)
(* Identifiers and operations are symbols.  The program compares them for  *)
(* equality only, with one exception that ZeroOp records: a zero-filled    *)
(* scewl_sss_msg_t reads as a registration.                                *)
(***************************************************************************)

CONSTANTS
    Devices,   \* SCEWL IDs of the deployment's SEDs
    Boots,     \* launches of a SED: one CPU process, one controller, one
               \* connection to each server; a relaunched SED is a new boot
    IdOf       \* the SCEWL ID a boot's two programs were compiled with

\* Reserved identifiers (enum scewl_ids).
BRDCST_ID == "BRDCST"
SSS_ID    == "SSS"
FAA_ID    == "FAA"

\* Operations and answers of the SSS (enum scewl_sss_op_t).
REG     == "REG"
DEREG   == "DEREG"
ALREADY == "ALREADY"

\* What the op field of a message of zeroes reads as: SCEWL_SSS_REG is 0.
ZeroOp == REG

None   == "none"     \* no message, no socket, no status
Absent == "absent"   \* no entry in a table

Ids == Devices \cup {BRDCST_ID, SSS_ID, FAA_ID}
Ops == {REG, DEREG}

\* A payload is abstracted to what the bytes of scewl_sss_msg_t.op read as;
\* ALREADY stands for every value that is neither REG nor DEREG.
Data == {REG, DEREG, ALREADY}

\* A SCEWL packet: scewl_hdr_t without the magic and the length, and its data.
Msg == [tgt : Ids, src : Ids, data : Data]

packet(tgt, src, data) == [tgt |-> tgt, src |-> src, data |-> data]
NoMsg == packet(None, None, None)

\* SCEWL IDs are given with START_ID and END_ID, above the reserved ones.
ASSUME ScewlAssumption ==
    /\ Devices \cap {BRDCST_ID, SSS_ID, FAA_ID, None, Absent} = {}
    /\ Boots \cap {None, Absent} = {}
    /\ Devices \cap Boots = {}
    /\ IdOf \in [Boots -> Devices]
=============================================================================
