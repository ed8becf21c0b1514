------------------------------- MODULE Driver -------------------------------
(***************************************************************************)
(* The bus driver that a SED's program is linked with                      *)
(* (cpu/scewl_bus_driver/scewl_bus_driver.c): the calls of scewl_bus.h as  *)
(* a program makes them, one at a time, over the socket to its controller. *)
(* Messages are whole; module Framing models the bytes.                    *)
(*                                                                         *)
(* The peer is seen through the two queues and through `link`: while it is *)
(* "open" the controller's end of the socket exists.                       *)
(*                                                                         *)
(* Operators named X_likeThis are X with a mistake in it (see module SSS). *)
(***************************************************************************)
EXTENDS Scewl, Naturals, Sequences

CONSTANT Cap   \* messages that fit in the socket's buffer

VARIABLES
    cpuPc,          \* which call the program is in, and where in it
    ret,            \* what the last call returned, None during a call
    link,           \* the controller's end: "unused", "open" or "closed"
    cpuTx, cpuRx    \* to and from the controller

drvVars == <<cpuPc, ret>>

Results == {"OK", "ALREADY", "NO_MSG", "MSG", None}

TypeOK ==
    /\ cpuPc \in [Boots -> {"off", "idle", "regSend", "regRecv", "deregSend",
                            "deregRecv", "deregSkip", "recv", "spin", "dead"}]
    /\ ret \in [Boots -> Results]

\* No program runs yet.  One that is launched begins after scewl_init: that it
\* connects, or exits when it cannot, is left out.
Init ==
    /\ cpuPc = [b \in Boots |-> "off"]
    /\ ret = [b \in Boots |-> None]

Goto(b, place) == cpuPc' = [cpuPc EXCEPT ![b] = place] /\ ret' = [ret EXCEPT ![b] = None]
Return(b, value) ==
    cpuPc' = [cpuPc EXCEPT ![b] = "idle"] /\ ret' = [ret EXCEPT ![b] = value]

\* write blocks while the buffer is full.  A write to a controller that is
\* gone raises SIGPIPE, which ends the program.
scewl_send_overruns(b, tgt, data) ==
    /\ link[b] = "open"
    /\ cpuTx' = [cpuTx EXCEPT ![b] = Append(@, packet(tgt, IdOf[b], data))]
    /\ UNCHANGED cpuRx
scewl_send(b, tgt, data) ==
    /\ link[b] = "open"
    /\ Len(cpuTx[b]) < Cap
    /\ cpuTx' = [cpuTx EXCEPT ![b] = Append(@, packet(tgt, IdOf[b], data))]
    /\ UNCHANGED cpuRx

SigPipe(b) ==
    /\ cpuPc[b] \in {"regSend", "deregSend"}
    /\ link[b] = "closed"
    /\ Goto(b, "dead")
    /\ UNCHANGED <<link, cpuTx, cpuRx>>

\* What a blocking read finds: a message, or the end of the stream.
Delivered(b) == cpuRx[b] # <<>>
Eof(b)       == cpuRx[b] = <<>> /\ link[b] = "closed"
Consume(b)   == cpuRx' = [cpuRx EXCEPT ![b] = Tail(@)] /\ UNCHANGED <<link, cpuTx>>

CallRegister(b) ==
    cpuPc[b] = "idle" /\ Goto(b, "regSend") /\ UNCHANGED <<link, cpuTx, cpuRx>>
CallDeregister(b) ==
    cpuPc[b] = "idle" /\ Goto(b, "deregSend") /\ UNCHANGED <<link, cpuTx, cpuRx>>
CallRecv(b) ==
    cpuPc[b] = "idle" /\ Goto(b, "recv") /\ UNCHANGED <<link, cpuTx, cpuRx>>

\* A program's own messages: one write, nothing to wait for.
CallSend(b, tgt, data) ==
    /\ cpuPc[b] = "idle"
    /\ scewl_send(b, tgt, data)
    /\ Return(b, "OK")
    /\ UNCHANGED link

SendRegister(b) ==
    /\ cpuPc[b] = "regSend"
    /\ scewl_send(b, SSS_ID, REG)
    /\ Goto(b, "regRecv")
    /\ UNCHANGED link

\* scewl_register takes the first message that comes for the answer, whoever
\* sent it.  At the end of the stream scewl_recv returns SCEWL_NO_MSG, which
\* is not the SCEWL_ERR that is looked for, and leaves a cleared message.
register_result_anyAnswer(op) == "OK"
register_result(op) == IF op = REG THEN "OK" ELSE "ALREADY"

RecvRegister(b) ==
    /\ cpuPc[b] = "regRecv"
    /\ Delivered(b)
    /\ Return(b, register_result(Head(cpuRx[b]).data))
    /\ Consume(b)

RecvRegisterEof(b) ==
    /\ cpuPc[b] = "regRecv"
    /\ Eof(b)
    /\ Return(b, register_result(ZeroOp))
    /\ UNCHANGED <<link, cpuTx, cpuRx>>

SendDeregister(b) ==
    /\ cpuPc[b] = "deregSend"
    /\ scewl_send(b, SSS_ID, DEREG)
    /\ Goto(b, "deregRecv")
    /\ UNCHANGED link

deregister_result(op) == IF op = DEREG THEN "OK" ELSE "ALREADY"

\* scewl_deregister throws messages away until one is from the SSS.
RecvDeregister_anySource(b) ==
    /\ cpuPc[b] \in {"deregRecv", "deregSkip"}
    /\ Delivered(b)
    /\ Return(b, deregister_result(Head(cpuRx[b]).data))
    /\ Consume(b)
RecvDeregister(b) ==
    /\ cpuPc[b] \in {"deregRecv", "deregSkip"}
    /\ Delivered(b)
    /\ IF Head(cpuRx[b]).src = SSS_ID
       THEN Return(b, deregister_result(Head(cpuRx[b]).data))
       ELSE Goto(b, "deregSkip")
    /\ Consume(b)

\* At the end of the stream src_id is what the last message left in it, or
\* not initialised: the loop never ends, unless the garbage is the SSS's id.
RecvDeregisterEof(b) ==
    /\ cpuPc[b] \in {"deregRecv", "deregSkip"}
    /\ Eof(b)
    /\ \/ Goto(b, "spin")
       \/ cpuPc[b] = "deregRecv" /\ Return(b, deregister_result(ZeroOp))
    /\ UNCHANGED <<link, cpuTx, cpuRx>>

Recv(b) ==
    /\ cpuPc[b] = "recv"
    /\ Delivered(b)
    /\ Return(b, "MSG")
    /\ Consume(b)

RecvEof(b) ==
    /\ cpuPc[b] = "recv"
    /\ Eof(b)
    /\ Return(b, "NO_MSG")
    /\ UNCHANGED <<link, cpuTx, cpuRx>>

\* The calls in progress, all but the calling itself.
Step(b) ==
    \/ SigPipe(b)
    \/ SendRegister(b) \/ RecvRegister(b) \/ RecvRegisterEof(b)
    \/ SendDeregister(b) \/ RecvDeregister(b) \/ RecvDeregisterEof(b)
    \/ Recv(b) \/ RecvEof(b)
=============================================================================
