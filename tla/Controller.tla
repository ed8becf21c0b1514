---------------------------- MODULE Controller ------------------------------
(***************************************************************************)
(* The bus controller of a SED (controller/controller.c): a single loop    *)
(* without interrupts that polls its CPU port and its antenna port, and    *)
(* stops for as long as a registration takes.                              *)
(*                                                                         *)
(* A message is read whole and written whole; Framing models how bytes     *)
(* become messages.  A write blocks while the port's buffer is full, which *)
(* the model places at Cap messages.  The request to the SSS alone is      *)
(* written in its two pieces, as the SSS can block between them (module    *)
(* SSS, whose link, reqOp, arrived and reply these are).                   *)
(*                                                                         *)
(* The module also states the environment a controller works in: a CPU     *)
(* that writes and reads as it likes, the air, and an SSS that gives some  *)
(* answer to each request.                                                 *)
(*                                                                         *)
(* Operators named X_likeThis are X with a mistake in it (see module SSS). *)
(***************************************************************************)
EXTENDS Scewl, Naturals, Sequences

CONSTANTS
    Cap,       \* messages that fit in a port's buffer
    CpuMsgs,   \* what a CPU may write: pairs of a target and data
    AirMsgs    \* what the air may bring

ASSUME ControllerAssumption ==
    /\ Cap \in Nat \ {0}
    /\ CpuMsgs \subseteq [tgt : Ids, data : Data]
    /\ AirMsgs \subseteq Msg

VARIABLES
    ctlPc, registered,
    cmd,       \* the operation handle_registration is carrying out, or None
    held,      \* the message in buf or msg that is to be sent on, or NoMsg
    cpuTx, cpuRx, antRx, antTx,      \* the ports' buffers
    link, reqOp, arrived, reply      \* the connection to the SSS; the
                                     \* controller runs while it is "open"

ctlVars == <<ctlPc, registered, cmd, held>>
ports   == <<cpuTx, cpuRx, antRx, antTx>>
sssLink == <<link, reqOp, arrived, reply>>
vars == <<ctlPc, registered, cmd, held, cpuTx, cpuRx, antRx, antTx,
          link, reqOp, arrived, reply>>

Places == {"outer", "cpu", "radio", "toRadio", "toCpu",
           "sssHdr", "sssBody", "sssWait", "notify"}

Channel == UNION {[1..n -> Msg] : n \in 0..Cap}

TypeOK ==
    /\ ctlPc \in [Boots -> Places]
    /\ registered \in [Boots -> BOOLEAN]
    /\ cmd \in [Boots -> Ops \cup {None}]
    /\ held \in [Boots -> Msg \cup {NoMsg}]
    /\ cpuTx \in [Boots -> Channel] /\ cpuRx \in [Boots -> Channel]
    /\ antRx \in [Boots -> Channel] /\ antTx \in [Boots -> Channel]
    /\ link \in [Boots -> {"unused", "open", "closed"}]
    /\ reqOp \in [Boots -> Ops]
    /\ arrived \in [Boots -> 0..2]
    /\ reply \in [Boots -> Data \cup {None}]

PortsInit ==
    /\ cpuTx = [b \in Boots |-> <<>>] /\ cpuRx = [b \in Boots |-> <<>>]
    /\ antRx = [b \in Boots |-> <<>>] /\ antTx = [b \in Boots |-> <<>>]

LinkInit ==
    /\ link = [b \in Boots |-> "unused"]
    /\ reqOp = [b \in Boots |-> REG]
    /\ arrived = [b \in Boots |-> 0]
    /\ reply = [b \in Boots |-> None]

CtlInit ==
    /\ ctlPc = [b \in Boots |-> "outer"]
    /\ registered = [b \in Boots |-> FALSE]
    /\ cmd = [b \in Boots |-> None]
    /\ held = [b \in Boots |-> NoMsg]

Init == CtlInit /\ PortsInit /\ LinkInit

-----------------------------------------------------------------------------
(* The ports.                                                              *)

avail(chan, b) == chan[b] # <<>>
read_msg(chan, b) == chan' = [chan EXCEPT ![b] = Tail(@)]

\* send_msg blocks until the message fits.
send_msg_overruns(chan, b, m) == chan' = [chan EXCEPT ![b] = Append(@, m)]
send_msg(chan, b, m) ==
    /\ Len(chan[b]) < Cap
    /\ chan' = [chan EXCEPT ![b] = Append(@, m)]

Goto(b, place) == ctlPc' = [ctlPc EXCEPT ![b] = place]

-----------------------------------------------------------------------------
(* The controller.                                                         *)

\* Both branches of handle_registration begin by writing the request.  An
\* operation that is neither leaves the controller where it was.
handle_registration(b, op, back) ==
    IF op \in Ops
    THEN Goto(b, "sssHdr") /\ cmd' = [cmd EXCEPT ![b] = op]
    ELSE Goto(b, back) /\ UNCHANGED cmd

\* Unregistered: wait for the CPU and ignore all but registration.
ReadCommand(b) ==
    /\ ctlPc[b] = "outer"
    /\ avail(cpuTx, b)
    /\ LET m == Head(cpuTx[b]) IN
       IF m.tgt = SSS_ID
       THEN handle_registration(b, m.data, "outer")
       ELSE UNCHANGED <<ctlPc, cmd>>
    /\ read_msg(cpuTx, b)
    /\ UNCHANGED <<registered, held, cpuRx, antRx, antTx, sssLink>>

\* Registered: the CPU's port first.
PollCpu(b) ==
    /\ ctlPc[b] = "cpu"
    /\ avail(cpuTx, b)
    /\ LET m == Head(cpuTx[b]) IN
       IF m.tgt = SSS_ID
       THEN handle_registration(b, m.data, "cpu") /\ UNCHANGED held
       ELSE /\ held' = [held EXCEPT ![b] = m]
            /\ Goto(b, "toRadio")
            /\ UNCHANGED cmd
    /\ read_msg(cpuTx, b)
    /\ UNCHANGED <<registered, cpuRx, antRx, antTx, sssLink>>

CpuQuiet_continues(b) ==
    ctlPc[b] = "cpu" /\ ~avail(cpuTx, b) /\ UNCHANGED vars
CpuQuiet(b) ==
    /\ ctlPc[b] = "cpu"
    /\ ~avail(cpuTx, b)
    /\ Goto(b, "radio")
    /\ UNCHANGED <<registered, cmd, held, ports, sssLink>>

\* handle_scewl_send, handle_brdcst_send and handle_faa_send: all three send
\* to the target the CPU named, from this device.
WriteRadio(b) ==
    /\ ctlPc[b] = "toRadio"
    /\ send_msg(antTx, b, packet(held[b].tgt, IdOf[b], held[b].data))
    /\ held' = [held EXCEPT ![b] = NoMsg]
    /\ Goto(b, "cpu")
    /\ UNCHANGED <<registered, cmd, cpuTx, cpuRx, antRx, sssLink>>

\* Our own transmissions, and those for other devices, are not for the CPU.
accepted_own(b, m) == m.tgt \in {BRDCST_ID, IdOf[b]}
accepted(b, m) == m.src # IdOf[b] /\ m.tgt \in {BRDCST_ID, IdOf[b]}

PollRadio(b) ==
    /\ ctlPc[b] = "radio"
    /\ avail(antRx, b)
    /\ LET m == Head(antRx[b]) IN
       IF accepted(b, m)
       THEN held' = [held EXCEPT ![b] = m] /\ Goto(b, "toCpu")
       ELSE Goto(b, "cpu") /\ UNCHANGED held
    /\ read_msg(antRx, b)
    /\ UNCHANGED <<registered, cmd, cpuTx, cpuRx, antTx, sssLink>>

RadioQuiet(b) ==
    /\ ctlPc[b] = "radio"
    /\ ~avail(antRx, b)
    /\ Goto(b, "cpu")
    /\ UNCHANGED <<registered, cmd, held, ports, sssLink>>

\* handle_brdcst_recv keeps the broadcast target, handle_scewl_recv and
\* handle_faa_recv name this device; handle_faa_recv names the FAA as source.
for_cpu(b, m) ==
    packet(IF m.tgt = BRDCST_ID THEN BRDCST_ID ELSE IdOf[b],
           IF m.src = FAA_ID /\ m.tgt # BRDCST_ID THEN FAA_ID ELSE m.src,
           m.data)

WriteCpu(b) ==
    /\ ctlPc[b] = "toCpu"
    /\ send_msg(cpuRx, b, for_cpu(b, held[b]))
    /\ held' = [held EXCEPT ![b] = NoMsg]
    /\ Goto(b, "cpu")
    /\ UNCHANGED <<registered, cmd, cpuTx, antRx, antTx, sssLink>>

\* sss_register and sss_deregister: the request's header and body, the
\* blocking read of the answer, the notification of the CPU, and what
\* handle_registration makes of the return value.
WriteRequestHeader(b) ==
    /\ ctlPc[b] = "sssHdr"
    /\ reqOp' = [reqOp EXCEPT ![b] = cmd[b]]
    /\ arrived' = [arrived EXCEPT ![b] = @ + 1]
    /\ Goto(b, "sssBody")
    /\ UNCHANGED <<registered, cmd, held, ports, link, reply>>

WriteRequestBody(b) ==
    /\ ctlPc[b] = "sssBody"
    /\ arrived' = [arrived EXCEPT ![b] = @ + 1]
    /\ Goto(b, "sssWait")
    /\ UNCHANGED <<registered, cmd, held, ports, link, reqOp, reply>>

ReadAnswer_nonBlocking(b) ==
    /\ ctlPc[b] = "sssWait"
    /\ held' = [held EXCEPT ![b] = packet(IdOf[b], SSS_ID, REG)]
    /\ Goto(b, "notify")
    /\ UNCHANGED <<registered, cmd, ports, sssLink>>
ReadAnswer(b) ==
    /\ ctlPc[b] = "sssWait"
    /\ reply[b] # None
    /\ held' = [held EXCEPT ![b] = packet(IdOf[b], SSS_ID, reply[b])]
    /\ reply' = [reply EXCEPT ![b] = None]
    /\ Goto(b, "notify")
    /\ UNCHANGED <<registered, cmd, ports, link, reqOp, arrived>>

\* registered after an answer to operation op.
after_anyAnswer(was, op, answer) == op = REG
after(was, op, answer) ==
    IF op = REG /\ answer = REG THEN TRUE
    ELSE IF op = DEREG /\ answer = DEREG THEN FALSE
    ELSE was

NotifyCpu(b) ==
    /\ ctlPc[b] = "notify"
    /\ send_msg(cpuRx, b, held[b])
    /\ registered' = [registered EXCEPT ![b] = after(@, cmd[b], held[b].data)]
    /\ cmd' = [cmd EXCEPT ![b] = None]
    /\ held' = [held EXCEPT ![b] = NoMsg]
    /\ Goto(b, IF registered'[b] THEN "cpu" ELSE "outer")
    /\ UNCHANGED <<cpuTx, antRx, antTx, sssLink>>

Step(b) ==
    /\ link[b] = "open"
    /\ \/ ReadCommand(b)
       \/ PollCpu(b) \/ CpuQuiet(b) \/ WriteRadio(b)
       \/ PollRadio(b) \/ RadioQuiet(b) \/ WriteCpu(b)
       \/ WriteRequestHeader(b) \/ WriteRequestBody(b)
       \/ ReadAnswer(b) \/ NotifyCpu(b)

\* main begins, with the SED's container.
Start(b) ==
    /\ link[b] = "unused"
    /\ link' = [link EXCEPT ![b] = "open"]
    /\ UNCHANGED <<ctlVars, ports, reqOp, arrived, reply>>

\* The container is stopped, at any point of the loop.  What the controller
\* had written can still be read at the other ends.
Stop(b) ==
    /\ link[b] = "open"
    /\ link' = [link EXCEPT ![b] = "closed"]
    /\ Goto(b, "outer")
    /\ registered' = [registered EXCEPT ![b] = FALSE]
    /\ cmd' = [cmd EXCEPT ![b] = None]
    /\ held' = [held EXCEPT ![b] = NoMsg]
    /\ cpuTx' = [cpuTx EXCEPT ![b] = <<>>]
    /\ antRx' = [antRx EXCEPT ![b] = <<>>]
    /\ reply' = [reply EXCEPT ![b] = None]
    /\ UNCHANGED <<cpuRx, antTx, reqOp, arrived>>

-----------------------------------------------------------------------------
(* The environment.                                                        *)

CpuWrites(b, m) ==
    /\ link[b] = "open"
    /\ send_msg(cpuTx, b, packet(m.tgt, IdOf[b], m.data))
    /\ UNCHANGED <<ctlVars, cpuRx, antRx, antTx, sssLink>>

CpuReads(b) ==
    /\ avail(cpuRx, b)
    /\ read_msg(cpuRx, b)
    /\ UNCHANGED <<ctlVars, cpuTx, antRx, antTx, sssLink>>

AirBrings(b, m) ==
    /\ link[b] = "open"
    /\ send_msg(antRx, b, m)
    /\ UNCHANGED <<ctlVars, cpuTx, cpuRx, antTx, sssLink>>

AirTakes(b) ==
    /\ avail(antTx, b)
    /\ read_msg(antTx, b)
    /\ UNCHANGED <<ctlVars, cpuTx, cpuRx, antRx, sssLink>>

\* The SSS grants what a whole request asks for, or says it was so already.
SssReads(b) ==
    /\ arrived[b] > 0
    /\ arrived' = [arrived EXCEPT ![b] = 0]
    /\ UNCHANGED <<ctlVars, ports, link, reqOp, reply>>

SssAnswers(b, answer) ==
    /\ ctlPc[b] = "sssWait" /\ arrived[b] = 0 /\ reply[b] = None
    /\ answer \in {reqOp[b], ALREADY}
    /\ reply' = [reply EXCEPT ![b] = answer]
    /\ UNCHANGED <<ctlVars, ports, link, reqOp, arrived>>

Env(b) ==
    \/ \E m \in CpuMsgs : CpuWrites(b, m)
    \/ \E m \in AirMsgs : AirBrings(b, m)
    \/ CpuReads(b) \/ AirTakes(b) \/ SssReads(b)
    \/ \E answer \in Data : SssAnswers(b, answer)

Next == \E b \in Boots : Step(b) \/ Start(b) \/ Stop(b) \/ Env(b)

Spec == Init /\ [][Next]_vars

\* The controller runs; its CPU keeps reading and the radio keeps taking what
\* it sends.  Nothing is assumed of the SSS: it may leave a request unanswered
\* for ever (module Registration).
Fairness ==
    \A b \in Boots :
        /\ WF_vars(Step(b))
        /\ WF_vars(CpuReads(b)) /\ WF_vars(AirTakes(b))

FairSpec == Spec /\ Fairness

-----------------------------------------------------------------------------
(* Properties.                                                             *)

\* Messages the controller has read and not yet sent on still count as not
\* taken, so that taking and delivering are one step of the relay.
Untaken(chan, place) ==
    [b \in Boots |-> IF ctlPc[b] = place THEN <<held[b]>> \o chan[b] ELSE chan[b]]

Relay == INSTANCE Gateway WITH
    cpuTx <- Untaken(cpuTx, "toRadio"),
    antRx <- Untaken(antRx, "toCpu"),
    asking <- cmd

\* The controller is a lossless, ordered relay that is open exactly while it
\* is registered, whatever the interleaving of its ports and the SSS.
IsRelay == Relay!Spec

\* The loop serves the CPU first.  Once the CPU has fallen silent the antenna
\* of a registered device is polled again and again, unless the controller waits
\* for ever for an answer that the SSS does not give.
AntennaServed ==
    \A b \in Boots :
        <>[](cpuTx[b] = <<>>) =>
            \/ []<>(ctlPc[b] \in {"outer", "radio"})
            \/ <>[](ctlPc[b] = "sssWait" /\ reply[b] = None)
=============================================================================
