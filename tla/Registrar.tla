----------------------------- MODULE Registrar ------------------------------
(***************************************************************************)
(* What the SSS promises: a table with one entry per device, and requests  *)
(* that are served one at a time, each completely, in one step: the table  *)
(* is changed and the answer given, and the answer says what was done.     *)
(* An entry is dropped only when the connection that made it has ended.    *)
(***************************************************************************)
EXTENDS Scewl, Naturals

Whole == 2   \* pieces of a request: header and body

\* An entry of the table, and the absence of one.
Device == [status : Ops, csock : Boots]
NoDev  == [status |-> Absent, csock |-> None]

VARIABLES
    link,      \* a connection: "unused", "open", or "closed" by the device
    phase,     \* the device's side: "idle", "half" of a request written, "wait"
    reqOp,     \* what its last request asks for
    arrived,   \* pieces of that request that have not been served
    reply,     \* the answer the device has not read yet
    table,     \* the table of devices
    down       \* the server has gone down

vars == <<link, phase, reqOp, arrived, reply, table, down>>

ClientInit ==
    /\ link = [b \in Boots |-> "unused"]
    /\ phase = [b \in Boots |-> "idle"]
    /\ reqOp = [b \in Boots |-> REG]
    /\ arrived = [b \in Boots |-> 0]
    /\ reply = [b \in Boots |-> None]

TableInit == table = [d \in Devices |-> NoDev] /\ down = FALSE

Init == ClientInit /\ TableInit

-----------------------------------------------------------------------------

\* A repetition changes nothing and is answered as such.
Repeats(b) == table[IdOf[b]].status = reqOp[b]

Record(b) ==
    /\ arrived[b] = Whole
    /\ arrived' = [arrived EXCEPT ![b] = 0]
    /\ table' = IF Repeats(b) THEN table
                ELSE [table EXCEPT ![IdOf[b]] = [status |-> reqOp[b], csock |-> b]]
    /\ ~down

Serve(b) ==
    /\ link[b] = "open"
    /\ Record(b)
    /\ reply' = [reply EXCEPT ![b] = IF Repeats(b) THEN ALREADY ELSE reqOp[b]]
    /\ UNCHANGED <<link, phase, reqOp, down>>

\* The request of a device that has gone is carried out without an answer, or
\* was never completed and is not carried out.
ServeDead(b) ==
    /\ link[b] = "closed"
    /\ Record(b)
    /\ UNCHANGED <<link, phase, reqOp, reply, down>>

Discard(b) ==
    /\ link[b] = "closed"
    /\ arrived[b] < Whole /\ ~down
    /\ arrived' = [arrived EXCEPT ![b] = 0]
    /\ UNCHANGED <<link, phase, reqOp, reply, table, down>>

\* Entries whose connections have ended are dropped, all of them or some.
Forget(D) ==
    /\ \A d \in D : table[d] # NoDev /\ link[table[d].csock] = "closed"
    /\ table' = [d \in Devices |-> IF d \in D THEN NoDev ELSE table[d]]
    /\ ~down
    /\ UNCHANGED <<link, phase, reqOp, arrived, reply, down>>

\* What a launch leaves behind when it ends can bring the server down.
GoDown ==
    /\ \E d \in Devices : table[d] # NoDev /\ link[table[d].csock] = "closed"
    /\ down' = TRUE
    /\ UNCHANGED <<link, phase, reqOp, arrived, reply, table>>

Server ==
    \/ \E b \in Boots : Serve(b) \/ ServeDead(b) \/ Discard(b)
    \/ \E D \in SUBSET Devices : Forget(D)
    \/ GoDown

-----------------------------------------------------------------------------
(* The devices.                                                            *)

Connect(b) ==
    /\ link[b] = "unused"
    /\ link' = [link EXCEPT ![b] = "open"]
    /\ UNCHANGED <<phase, reqOp, arrived, reply, table, down>>

BeginRequest(b, op) ==
    /\ link[b] = "open" /\ phase[b] = "idle"
    /\ phase' = [phase EXCEPT ![b] = "half"]
    /\ reqOp' = [reqOp EXCEPT ![b] = op]
    /\ arrived' = [arrived EXCEPT ![b] = 1]
    /\ UNCHANGED <<link, reply, table, down>>

EndRequest(b) ==
    /\ link[b] = "open" /\ phase[b] = "half"
    /\ phase' = [phase EXCEPT ![b] = "wait"]
    /\ arrived' = [arrived EXCEPT ![b] = Whole]
    /\ UNCHANGED <<link, reqOp, reply, table, down>>

TakeReply(b) ==
    /\ phase[b] = "wait" /\ reply[b] # None
    /\ phase' = [phase EXCEPT ![b] = "idle"]
    /\ reply' = [reply EXCEPT ![b] = None]
    /\ UNCHANGED <<link, reqOp, arrived, table, down>>

Disconnect(b) ==
    /\ link[b] = "open"
    /\ link' = [link EXCEPT ![b] = "closed"]
    /\ phase' = [phase EXCEPT ![b] = "idle"]
    /\ reply' = [reply EXCEPT ![b] = None]
    /\ UNCHANGED <<reqOp, arrived, table, down>>

Client(b) ==
    \/ Connect(b) \/ EndRequest(b) \/ TakeReply(b) \/ Disconnect(b)
    \/ \E op \in Ops : BeginRequest(b, op)

Next == Server \/ \E b \in Boots : Client(b)

Spec == Init /\ [][Next]_vars
=============================================================================
