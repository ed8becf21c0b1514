---------------------------- MODULE Registration ----------------------------
(***************************************************************************)
(* The deployment as far as registration reaches: every SED is a program   *)
(* on a CPU (module Program), its bus controller (module Controller) and   *)
(* its connection to the one SSS (module SSS).  The three meet in the      *)
(* queues between CPU and controller and in the connection to the SSS; the *)
(* air is still an environment.                                            *)
(*                                                                         *)
(* SEDs are launched again, and both halves of a SED may die at any time,  *)
(* the controller at the latest when tools/launch_sed.sh kills it.         *)
(***************************************************************************)
EXTENDS Scewl, Naturals, Sequences

CONSTANTS
    Cap,       \* messages that fit in a buffer between two processes
    SedMsgs,   \* pairs of a target and data that programs send
    AirMsgs    \* what the air may bring

\* A program speaks to the SSS through the calls for registration only, and a
\* controller or the FAA, which alone send on the air, names itself as source.
ASSUME RegistrationAssumption ==
    /\ Cap \in Nat \ {0}
    /\ SedMsgs \subseteq [tgt : Ids \ {SSS_ID}, data : Data]
    /\ AirMsgs \subseteq [tgt : Ids, src : Ids \ {SSS_ID}, data : Data]

VARIABLES
    app,                                             \* the program's place
    cpuPc, ret,                                      \* Driver
    cpuTx, cpuRx, antRx, antTx,                      \* the controller's ports
    ctlPc, registered, cmd, held,                    \* Controller
    link, reqOp, arrived, reply, backlog,            \* connections to the SSS
    unattr, devs, closed, sssPc, cur, got, todo, oldIds   \* SSS

cpuVars == <<app, cpuPc, ret>>
ports   == <<cpuTx, cpuRx, antRx, antTx>>
ctlVars == <<ctlPc, registered, cmd, held>>
sssVars == <<backlog, unattr, devs, closed, sssPc, cur, got, todo, oldIds>>
vars == <<app, cpuPc, ret, cpuTx, cpuRx, antRx, antTx, ctlPc, registered, cmd,
          held, link, reqOp, arrived, reply, backlog, unattr, devs, closed,
          sssPc, cur, got, todo, oldIds>>

\* What the SSS can tell of a controller's progress with its request.
Phase == [b \in Boots |-> CASE ctlPc[b] = "sssBody" -> "half"
                            [] ctlPc[b] = "sssWait" -> "wait"
                            [] OTHER -> "idle"]

\* What a controller can be sent by its CPU.
CpuMsgs == SedMsgs \cup [tgt : {SSS_ID}, data : Ops]

Sss == INSTANCE SSS WITH phase <- Phase
Ctl == INSTANCE Controller
Prg == INSTANCE Program

Init ==
    /\ Prg!ProgramInit
    /\ Ctl!CtlInit /\ Ctl!PortsInit /\ Ctl!LinkInit
    /\ Sss!ServerInit

-----------------------------------------------------------------------------
(* The programs.                                                           *)

\* A program's work is to exchange messages, in any order.
Exchange(b) ==
    /\ Prg!Working(b)
    /\ \/ Prg!CallRecv(b)
       \/ \E m \in SedMsgs : Prg!CallSend(b, m.tgt, m.data)
    /\ Prg!Move(b, "work")

App(b) == Prg!Frame(b) \/ Exchange(b) \/ Prg!Leave(b)

-----------------------------------------------------------------------------
(* The steps of the deployment.                                            *)

ProgramStep(b) ==
    /\ App(b) \/ Prg!InCall(b)
    /\ UNCHANGED <<ctlVars, antRx, antTx, reqOp, arrived, reply, sssVars>>

ProgramDies(b) ==
    Prg!CpuDies(b) /\ UNCHANGED <<ctlVars, antRx, antTx, reqOp, arrived, reply, sssVars>>

ControllerStep(b) == Ctl!Step(b) /\ UNCHANGED <<cpuVars, sssVars>>

\* QEMU drops what is written to a port that nobody is connected to.
OutputDropped(b) ==
    cpuPc[b] = "dead" /\ Ctl!CpuReads(b) /\ UNCHANGED <<cpuVars, sssVars>>

SssStep == UNCHANGED <<cpuVars, ports, ctlVars>> /\ Sss!Server

\* launch_sed.sh: the controller's container, then the CPU's.  A SED is
\* launched when its last launch is over.
Launch(b) ==
    /\ Ctl!Start(b) /\ Sss!Connect(b)
    /\ cpuPc' = [cpuPc EXCEPT ![b] = "idle"]
    /\ UNCHANGED <<app, ret>>

\* The trap that kills the controller when the CPU's container has ended.
KillController(b) ==
    cpuPc[b] = "dead" /\ Ctl!Stop(b) /\ Sss!Disconnect(b) /\ UNCHANGED cpuVars

\* The controller's container ends by itself.
ControllerDies(b) ==
    cpuPc[b] # "dead" /\ Ctl!Stop(b) /\ Sss!Disconnect(b) /\ UNCHANGED cpuVars

Air(b) ==
    /\ (\E m \in AirMsgs : Ctl!AirBrings(b, m)) \/ Ctl!AirTakes(b)
    /\ UNCHANGED <<cpuVars, sssVars>>

Next ==
    \/ SssStep
    \/ \E b \in Boots :
          \/ Launch(b) \/ KillController(b) \/ ControllerDies(b)
          \/ ProgramStep(b) \/ ProgramDies(b)
          \/ ControllerStep(b) \/ OutputDropped(b) \/ Air(b)

Spec == Init /\ [][Next]_vars

\* Every process that can take a step takes one in the end; nothing forces a
\* launch, a death or a message from the air.
Fairness ==
    /\ WF_vars(SssStep)
    /\ \A b \in Boots :
          /\ WF_vars(ProgramStep(b)) /\ WF_vars(ControllerStep(b))
          /\ WF_vars(OutputDropped(b)) /\ WF_vars(KillController(b))
          /\ WF_vars(Ctl!AirTakes(b) /\ UNCHANGED <<cpuVars, sssVars>>)

FairSpec == Spec /\ Fairness

-----------------------------------------------------------------------------
(* Properties.                                                             *)

\* The variables of the parts have their types in the whole.
TypeOK ==
    /\ app \in [Boots -> Prg!Purposes]
    /\ Prg!TypeOK /\ Ctl!TypeOK /\ Sss!TypeOK

\* The controllers meet the SSS's assumptions about its clients, and the SSS,
\* the programs and the air meet the controllers'.
SssInPlace == Sss!Spec
CtlInPlace == Ctl!Spec

Live(b) == link[b] = "open"

\* A controller relays only for a device that the SSS has as registered
\* through this very connection - except between the SSS's grant of a
\* deregistration and the controller's noticing, and on a doomed entry.
RegisteredIsRecorded ==
    \A b \in Boots :
        LET d == IdOf[b] IN
        Live(b) /\ registered[b] =>
            \/ devs[d] = [status |-> REG, csock |-> b]
            \/ cmd[b] = DEREG /\ ctlPc[b] \in {"sssWait", "notify"}
            \/ Sss!Doomed(d)

\* The reverse: a live device that the SSS has as registered is, or is just
\* becoming, or just ceasing to be, a relay.
RecordedIsRegistered ==
    \A b \in Boots :
        Live(b) /\ devs[IdOf[b]] = [status |-> REG, csock |-> b] =>
            registered[b] \/ (cmd[b] = REG /\ ctlPc[b] \in {"sssWait", "notify"})

\* When scewl_register returns success to a program whose controller is still
\* there, the device is registered on all three sides.
RegisterOkSound ==
    \A b \in Boots :
        Live(b) /\ cpuPc[b] = "idle" /\ app[b] \in {"first", "again"} /\ ret[b] = "OK" =>
            /\ registered[b]
            /\ devs[IdOf[b]] = [status |-> REG, csock |-> b] \/ Sss!Doomed(IdOf[b])

\* When scewl_deregister returns success to a program whose controller is
\* still there, the device is deregistered on all three sides: no message of
\* another SED was taken for the SSS's answer.
DeregisterOkSound ==
    \A b \in Boots :
        Live(b) /\ cpuPc[b] = "idle" /\ app[b] \in {"recover", "leave"} /\ ret[b] = "OK" =>
            /\ ~registered[b]
            /\ devs[IdOf[b]].status # REG \/ Sss!Doomed(IdOf[b])

\* A call of the driver returns, unless the program is killed, spins at the
\* end of the stream, or the SSS has exited - or it waits to write while its
\* controller waits to write to it, both buffers being full - or its controller
\* waits for an answer on a connection that the SSS polls no longer: the entry of
\* an earlier launch had it told ALREADY, and dropped from the unattributed.
InCall(b) == cpuPc[b] \in {"regSend", "regRecv", "deregSend", "deregRecv", "deregSkip"}
BothFull(b) ==
    /\ cpuPc[b] = "deregSend" /\ Len(cpuTx[b]) = Cap
    /\ ctlPc[b] = "toCpu" /\ Len(cpuRx[b]) = Cap
LeftOut(b) ==
    /\ link[b] = "open" /\ ctlPc[b] = "sssWait" /\ reply[b] = None
    /\ b \notin backlog \cup unattr \cup Sss!Recorded /\ cur # b
CallsReturn ==
    \A b \in Boots :
        InCall(b) ~> \/ cpuPc[b] \in {"idle", "dead", "spin"} \/ sssPc = "exited"
                     \/ BothFull(b) \/ LeftOut(b)

\* scewl_bus.h:84, of scewl_deregister: "SCEWL_OK on success, SCEWL_ERR on
\* failure or if already deregistered".  The recovery of the echo programs
\* counts on its returning.
RecoveryReturns ==
    \A b \in Boots :
        app[b] = "recover" /\ cpuPc[b] = "deregRecv"
            ~> cpuPc[b] \in {"idle", "dead", "spin"} \/ sssPc = "exited"

\* scewl_bus.h:73, of scewl_register: "SCEWL_OK on success, SCEWL_ERR on
\* failure or if already registered".  A registration the SSS never answered
\* is no success.
OkOnSuccess ==
    [][\A b \in Boots :
          cpuPc[b] = "regRecv" /\ ret'[b] = "OK" => cpuRx[b] # <<>>]_vars
=============================================================================
