---------------------------- MODULE EchoSystem -----------------------------
(***************************************************************************)
(* The whole system at work: the echo deployment of getting_started.md.    *)
(* The echo server and the echo client (cpu/seds, module Program) run on   *)
(* their CPUs, each behind its bus controller (module Controller) and      *)
(* registered with the SSS; the controllers' antennas and the FAA          *)
(* transceiver (tools/faa.py) meet in the radio waves emulator (module     *)
(* RadioWaves).  Of the SSS only what it promises is here (module          *)
(* Registrar, which SSS implements: SSSProofs).  Nothing is left to an     *)
(* environment but the launches and what the FAA is told to send.          *)
(*                                                                         *)
(* An antenna is a connection of the controller's: the emulator's `up` and *)
(* `down` are the controller's antTx and antRx, and it hangs up when the   *)
(* controller is stopped.                                                  *)
(*                                                                         *)
(* Operators named X_likeThis are X with a mistake in it (see module SSS). *)
(***************************************************************************)
EXTENDS Scewl, Selecting, Naturals, Sequences, SequencesExt

CONSTANTS
    EchoClient, EchoServer,   \* the launches of the two SEDs
    Faa,              \* a run of faa.py
    DevOrder, Cap, RecvMax,
    Orders            \* what the FAA may be told to send: targets and data

HELLO == "hello"      \* "hello world!"
FLAG  == "flag"
QUIT  == "quit"
Texts == {HELLO, FLAG, QUIT}

TGT_ID == IdOf[EchoServer]
Clients == Boots \cup {Faa}

ASSUME EchoAssumption ==
    /\ EchoClient # EchoServer /\ Boots = {EchoClient, EchoServer}
    /\ IdOf[EchoClient] # IdOf[EchoServer]
    /\ Faa \notin Boots \cup {None}
    /\ Cap \in Nat \ {0} /\ RecvMax \in Nat \ {0}
    /\ DevOrder \in Seq(Devices) /\ Devices = {DevOrder[i] : i \in DOMAIN DevOrder}
    /\ \A i, j \in DOMAIN DevOrder : DevOrder[i] = DevOrder[j] => i = j
    /\ Devices \cap {"MITM", "PROBE", "RECVR"} = {}
    /\ Orders \subseteq [tgt : Ids, data : Texts]

VARIABLES
    app, cpuPc, ret,                      \* Program
    cpuTx, cpuRx,                         \* between CPU and controller
    ctlPc, registered, cmd, held,         \* Controller
    reqOp, arrived, reply,                \* between controller and SSS
    table, sssDown,                       \* Registrar
    link,                                 \* connections of each client
    up, down,                             \* antTx and antRx, and the FAA's
    waiting, csock, buf, rfPc, rfTodo, port, msgs, msg, hearers,
    sent, inHand, fwd, recvd, sc,         \* RadioWaves
    stage,     \* a program's place in its work
    data,      \* its data and src_id: the last message received
    orders,    \* what the FAA has not been told to send yet
    shown,     \* messages the FAA has shown
    met        \* the server's antenna was connected when the client said hello

cpuVars == <<app, cpuPc, ret, cpuTx, cpuRx, stage, data, met>>
ctlVars == <<ctlPc, registered, cmd, held>>
reqVars == <<reqOp, arrived, reply>>
sssVars == <<table, sssDown>>
idleVars  == <<sent, inHand, fwd, recvd, sc>>
radioVars == <<waiting, csock, buf, rfPc, rfTodo, port, msgs, msg, hearers, idleVars>>
faaVars == <<orders, shown>>
vars == <<cpuVars, ctlVars, reqVars, sssVars, link, up, down, radioVars, faaVars>>

\* What programs say to each other, and what can come through the air.
Speech  == [tgt : Ids, data : Texts]
Packets == [tgt : Ids, src : Ids, data : Texts]

\* What the SSS can tell of a controller's progress with its request.
Phase == [b \in Boots |-> CASE ctlPc[b] = "sssBody" -> "half"
                            [] ctlPc[b] = "sssWait" -> "wait"
                            [] OTHER -> "idle"]

Prg == INSTANCE Program
Ctl == INSTANCE Controller WITH
    antTx <- up, antRx <- down,
    CpuMsgs <- Speech \cup [tgt : {SSS_ID}, data : Ops], AirMsgs <- Packets
Sss == INSTANCE Registrar WITH phase <- Phase, down <- sssDown

\* No man in the middle and no side channel: idleVars stay as they are.
Rad == INSTANCE RadioWaves WITH
    FaaClients <- {Faa}, MitmClients <- {}, ProbeClients <- {}, RecvrClients <- {},
    SedTargets <- {}, FaaTargets <- {}, MaxSent <- [c \in Clients |-> 0],
    rfLink <- link, pc <- rfPc, todo <- rfTodo

Garbage == packet(None, None, None)    \* data before anything was received

Init ==
    /\ Prg!ProgramInit
    /\ Ctl!CtlInit
    /\ cpuTx = [b \in Boots |-> <<>>] /\ cpuRx = [b \in Boots |-> <<>>]
    /\ reqOp = [b \in Boots |-> REG]
    /\ arrived = [b \in Boots |-> 0]
    /\ reply = [b \in Boots |-> None]
    /\ Sss!TableInit
    /\ Rad!Init
    /\ stage = [b \in Boots |-> IF b = EchoClient THEN "hello" ELSE "test"]
    /\ data = [b \in Boots |-> Garbage]
    /\ orders = Orders
    /\ shown = {}
    /\ met = FALSE

-----------------------------------------------------------------------------
(* The programs.                                                           *)

ToStage(b, s) == stage' = [stage EXCEPT ![b] = s]
At(b, s) == Prg!Working(b) /\ stage[b] = s
Works(b) == Prg!Move(b, "work")

SayHello ==
    /\ At(EchoClient, "hello")
    /\ Prg!CallSend(EchoClient, TGT_ID, HELLO)
    /\ ToStage(EchoClient, "receive")
    /\ met' = (link[EchoServer] = "open")
    /\ Works(EchoClient) /\ UNCHANGED data

Receive(b) ==
    /\ \/ At(b, "receive")
       \/ b = EchoServer /\ At(b, "test") /\ data[b].data # QUIT
    /\ Prg!CallRecv(b)
    /\ ToStage(b, "received")
    /\ Works(b) /\ UNCHANGED <<data, met>>

\* "Congrats on booting the system!" or "Bad response!"
Check ==
    /\ At(EchoClient, "received")
    /\ IF data[EchoClient].data = HELLO
       THEN Prg!CallSend(EchoClient, FAA_ID, FLAG)
       ELSE UNCHANGED <<cpuPc, ret, link, cpuTx, cpuRx>>
    /\ ToStage(EchoClient, "bye")
    /\ Works(EchoClient) /\ UNCHANGED <<data, met>>

Echo_toItself ==
    /\ At(EchoServer, "received")
    /\ Prg!CallSend(EchoServer, data[EchoServer].tgt, data[EchoServer].data)
    /\ ToStage(EchoServer, "test")
    /\ Works(EchoServer) /\ UNCHANGED <<data, met>>
Echo ==
    /\ At(EchoServer, "received")
    /\ Prg!CallSend(EchoServer, data[EchoServer].src, data[EchoServer].data)
    /\ ToStage(EchoServer, "test")
    /\ Works(EchoServer) /\ UNCHANGED <<data, met>>

\* The server leaves when it was told to quit - or at once, if data, which is
\* not initialised, happens to say so.
Bye(b) ==
    /\ \/ At(b, "bye")
       \/ b = EchoServer /\ At(b, "test") /\ data[b].data \in {QUIT, None}
    /\ Prg!Leave(b)
    /\ ToStage(b, "bye")
    /\ UNCHANGED <<data, met>>

Frame(b) ==
    /\ Prg!Frame(b)
    /\ UNCHANGED <<stage, data, met>>

\* A call goes on; scewl_recv fills data and src_id.
InCall(b) ==
    /\ Prg!InCall(b)
    /\ data' = IF cpuPc[b] = "recv" /\ cpuRx[b] # <<>>
               THEN [data EXCEPT ![b] = Head(cpuRx[b])] ELSE data
    /\ UNCHANGED <<stage, met>>

ProgramStep(b) ==
    /\ \/ Frame(b) \/ InCall(b) \/ Receive(b) \/ Bye(b)
       \/ b = EchoClient /\ (SayHello \/ Check)
       \/ b = EchoServer /\ Echo
    /\ UNCHANGED <<ctlVars, reqVars, sssVars, up, down, radioVars, faaVars>>

-----------------------------------------------------------------------------
(* Everything else.                                                        *)

ControllerStep(b) ==
    /\ Ctl!Step(b)
    /\ UNCHANGED <<app, cpuPc, ret, stage, data, met, sssVars, radioVars, faaVars>>

\* The SSS serves, and may drop what a launch that has ended left behind, or
\* end because of it.
SssServes ==
    /\ UNCHANGED <<cpuVars, ctlVars, link, up, down, radioVars, faaVars>>
    /\ \E b \in Boots : Sss!Serve(b) \/ Sss!ServeDead(b) \/ Sss!Discard(b)
SssForgets ==
    /\ UNCHANGED <<cpuVars, ctlVars, link, up, down, radioVars, faaVars>>
    /\ Sss!GoDown \/ \E D \in SUBSET Devices : Sss!Forget(D)

RadioStep ==
    Rad!Emulator /\ UNCHANGED <<cpuVars, ctlVars, reqVars, sssVars, link, faaVars>>

\* The FAA transceiver is started before the SEDs (getting_started.md, 5 and 6).
\* launch_sed.sh: the controller, connected to the SSS and to the air, then
\* the CPU; and its end, the trap that kills the controller.
Launch(b) ==
    /\ link[Faa] = "open"
    /\ Ctl!Start(b)
    /\ waiting' = [waiting EXCEPT ![IdOf[b]] = Append(@, b)]
    /\ cpuPc' = [cpuPc EXCEPT ![b] = "idle"]
    /\ UNCHANGED <<app, ret, stage, data, met, sssVars, faaVars>>
    /\ UNCHANGED <<csock, buf, rfPc, rfTodo, port, msgs, msg, hearers, idleVars>>
KillController(b) ==
    /\ cpuPc[b] = "dead" /\ Ctl!Stop(b)
    /\ UNCHANGED <<app, cpuPc, ret, stage, data, met, sssVars, radioVars, faaVars>>

FaaStarts ==
    Rad!Connect(Faa) /\ UNCHANGED <<cpuVars, ctlVars, reqVars, sssVars, faaVars>>

\* What is sent to an antenna that is not connected is lost (RadioWaves): the
\* FAA sends when both programs have been launched.
FaaSends ==
    \E o \in orders :
        /\ \A b \in Boots : link[b] # "unused"
        /\ Rad!Writes(Faa, packet(o.tgt, FAA_ID, o.data))
        /\ orders' = orders \ {o}
        /\ UNCHANGED <<cpuVars, ctlVars, reqVars, sssVars, sent, inHand, shown>>

\* postcmd shows what has come when a line has been entered.
FaaShows ==
    /\ Rad!Reads(Faa)
    /\ shown' = shown \cup {Head(down[Faa])}
    /\ UNCHANGED <<cpuVars, ctlVars, reqVars, sssVars, sent, inHand, orders>>

Next ==
    \/ SssServes \/ SssForgets \/ RadioStep
    \/ FaaStarts \/ FaaSends \/ FaaShows
    \/ \E b \in Boots :
          \/ Launch(b) \/ KillController(b)
          \/ ProgramStep(b) \/ ControllerStep(b)

Spec == Init /\ [][Next]_vars

\* Everything runs, and somebody presses <enter> again and again.  What comes
\* after a program's end is needed for nothing below.
Fairness ==
    /\ WF_vars(SssServes) /\ WF_vars(RadioStep) /\ WF_vars(FaaShows)
    /\ \A b \in Boots : WF_vars(ProgramStep(b)) /\ WF_vars(ControllerStep(b))

FairSpec == Spec /\ Fairness

-----------------------------------------------------------------------------
(* Properties.                                                             *)

\* Messages on their way from b's program to c's, with those that a controller
\* or the emulator has in hand.
Between(b, c) == [tgt : {IdOf[c]}, src : {IdOf[b]}, data : Texts]
OnTheWay(b, c) ==
    Select(Ctl!Untaken(cpuTx, "toRadio")[b] \o up[b] \o buf[IdOf[b]] \o msgs
               \o (IF IdOf[c] \in ToSet(hearers) THEN <<msg>> ELSE <<>>)
               \o Ctl!Untaken(down, "toCpu")[c] \o cpuRx[c],
           Between(b, c))

Awaiting(b) == stage[b] = "receive" \/ (stage[b] = "received" /\ cpuPc[b] = "recv")
Serving == link[EchoServer] = "open" /\ stage[EchoServer] # "bye"

\* While the client waits for its answer, its hello or the echo of it exists
\* exactly once between the two programs: nothing on the way from one CPU to
\* the other loses or repeats it, alters it, or brings the client anything else
\* of the server's first.
InEcho ==
    /\ stage[EchoServer] = "received" /\ cpuPc[EchoServer] = "idle"
    /\ data[EchoServer].src = IdOf[EchoClient]
HelloConserved ==
    Awaiting(EchoClient) /\ met /\ Serving =>
        LET there == OnTheWay(EchoClient, EchoServer)
            back  == OnTheWay(EchoServer, EchoClient)
        IN  /\ Len(there) + Len(back) + (IF InEcho THEN 1 ELSE 0) = 1
            /\ \A m \in ToSet(there \o back) : m.data = HELLO
            /\ InEcho => data[EchoServer].data = HELLO

\* getting_started.md:212: "After they spin up, if you press <enter> on the FAA
\* transceiver, you should see a new message with your Boot Reference flag."
\* It is so when the client said hello with the server's antenna connected,
\* unless the server leaves; and a server that was told to quit while it was
\* connected ends, off the SSS's table, if the SSS is still there.
Settled ==
    /\ met =>
          packet(FAA_ID, IdOf[EchoClient], FLAG) \in shown \/ stage[EchoServer] = "bye"
    /\ [tgt |-> TGT_ID, data |-> QUIT] \in Orders \ orders =>
          sssDown \/ (cpuPc[EchoServer] = "dead" /\ table[IdOf[EchoServer]].status # REG)
Settles == []<>Settled
=============================================================================
