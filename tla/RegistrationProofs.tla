------------------------- MODULE RegistrationProofs -------------------------
(***************************************************************************)
(* Proofs about registration in a whole deployment, for any devices, any   *)
(* launches of them, any size of the buffers and any messages.             *)
(*                                                                         *)
(* What is proved of the SSS and of a controller alone (SSSProofs,         *)
(* ControllerProofs) was proved for environments; Parts says that the      *)
(* others are such environments, so both invariants hold in the whole.     *)
(* Talk says how far the program, the controller and the SSS have got with *)
(* each other, from which follows that they agree on who is registered.    *)
(***************************************************************************)
EXTENDS Registration, SequenceTheorems, TLAPS

SssP == INSTANCE SSSProofs WITH phase <- Phase
CtlP == INSTANCE ControllerProofs

-----------------------------------------------------------------------------
(* The invariant, launch by launch.                                        *)

\* Before its launch a SED has said nothing, and nothing was said to it.
Fresh(b) ==
    /\ link[b] = "unused" =>
          /\ cpuPc[b] = "off" /\ app[b] = "boot" /\ ctlPc[b] = "outer"
          /\ cpuTx[b] = <<>> /\ cpuRx[b] = <<>>
    /\ Live(b) => cpuPc[b] # "off"

NoneTo(queue, n)   == \A i \in 1..n : queue[i].tgt # SSS_ID
NoneFrom(queue, n) == \A i \in 1..n : queue[i].src # SSS_ID

\* Nobody on the air goes by the name of the SSS.
AirIsNotSss(b) ==
    /\ NoneFrom(antRx[b], Len(antRx[b]))
    /\ ctlPc[b] = "toCpu" => held[b].src # SSS_ID

\* The SSS has b's device in its table as it told b, or will not live to tell
\* anybody anything.
Granted(b, op) ==
    devs[IdOf[b]] = [status |-> op, csock |-> b] \/ Sss!Doomed(IdOf[b])

\* The SSS's answer, from its being sent to its being passed on to the CPU.
Said(b) == IF ctlPc[b] = "notify" THEN held[b].data ELSE reply[b]

\* The table and the controller.
Agreed(b) ==
    Live(b) =>
        /\ ctlPc[b] \in {"sssBody", "sssWait"} => reqOp[b] = cmd[b]
        /\ Said(b) \in {None, cmd[b], ALREADY}
        /\ Said(b) \in Ops => Granted(b, Said(b))
        /\ registered[b] /\ cmd[b] = DEREG => Said(b) # ALREADY
        /\ registered[b] /\ (cmd[b] = DEREG => Said(b) = None) => Granted(b, REG)
        /\ devs[IdOf[b]] = [status |-> REG, csock |-> b] =>
              registered[b] \/ (cmd[b] = REG /\ Said(b) = REG)

\* Nothing is on its way between the program and its controller.
Quiet(b) == ctlPc[b] = "outer" /\ cpuTx[b] = <<>> /\ cpuRx[b] = <<>>

\* Nothing but other SEDs' messages is.
Relayed(b) ==
    /\ registered[b] /\ cmd[b] = None
    /\ NoneTo(cpuTx[b], Len(cpuTx[b])) /\ NoneFrom(cpuRx[b], Len(cpuRx[b]))

\* A request is the last that the program has written, or the controller is
\* carrying it out; the answer to it has not been passed on.
Asked(b, op) ==
    /\ NoneFrom(cpuRx[b], Len(cpuRx[b]))
    /\ \/ /\ cmd[b] = None /\ cpuTx[b] # <<>>
          /\ cpuTx[b][Len(cpuTx[b])] = packet(SSS_ID, IdOf[b], op)
          /\ NoneTo(cpuTx[b], Len(cpuTx[b]) - 1)
       \/ cmd[b] = op /\ cpuTx[b] = <<>>

RegAsked(b) == Asked(b, REG) /\ ~registered[b] /\ cpuRx[b] = <<>>

\* The answer to a registration is the first thing a controller passes on ...
RegTold(b) ==
    /\ cmd[b] = None /\ cpuTx[b] = <<>> /\ cpuRx[b] # <<>>
    /\ registered[b] <=> Head(cpuRx[b]).data = REG
    /\ ~registered[b] => Len(cpuRx[b]) = 1
    /\ NoneFrom(Tail(cpuRx[b]), Len(cpuRx[b]) - 1)

\* ... and the answer to a deregistration the last.
DeregTold(b) ==
    /\ ctlPc[b] = "outer" /\ cpuTx[b] = <<>> /\ cpuRx[b] # <<>>
    /\ cpuRx[b][Len(cpuRx[b])].src = SSS_ID
    /\ cpuRx[b][Len(cpuRx[b])].data = DEREG => Granted(b, DEREG)
    /\ NoneFrom(cpuRx[b], Len(cpuRx[b]) - 1)

\* Which call a program can be in for which purpose.
Places(b) ==
    \/ cpuPc[b] \in {"idle", "dead"}
    \/ cpuPc[b] \in {"regSend", "regRecv"} /\ app[b] \in {"first", "again"}
    \/ cpuPc[b] \in {"deregSend", "deregRecv", "deregSkip"} /\ app[b] \in {"recover", "leave"}
    \/ cpuPc[b] = "recv" /\ app[b] = "work"

\* The controller and the program.
Conversation(b) ==
    Live(b) =>
        /\ Places(b)
        /\ cpuPc[b] = "idle" /\ app[b] = "boot" => Quiet(b)
        /\ cpuPc[b] = "regSend" => Quiet(b)
        /\ cpuPc[b] = "regRecv" => RegAsked(b) \/ RegTold(b)
        /\ cpuPc[b] = "idle" /\ app[b] \in {"first", "again"} =>
              IF ret[b] = "OK" THEN Relayed(b) ELSE Quiet(b)
        /\ cpuPc[b] \in {"idle", "recv"} /\ app[b] = "work" => Relayed(b)
        /\ cpuPc[b] = "deregSend" =>
              IF app[b] = "leave" THEN Relayed(b) ELSE Quiet(b)
        /\ cpuPc[b] \in {"deregRecv", "deregSkip"} => Asked(b, DEREG) \/ DeregTold(b)
        /\ cpuPc[b] = "idle" /\ app[b] \in {"recover", "leave"} /\ ret[b] = "OK" =>
              Quiet(b) /\ Granted(b, DEREG)

Talk(b) == Fresh(b) /\ AirIsNotSss(b) /\ Agreed(b) /\ Conversation(b)

ProgramTypeOK == app \in [Boots -> Prg!Purposes] /\ Prg!TypeOK
Parts == SssP!IInv /\ CtlP!IInv
IInv  == ProgramTypeOK /\ Parts /\ \A b \in Boots : Talk(b)

-----------------------------------------------------------------------------
(* The parts' modules, and the proofs about them, speak of the same things.*)

LEMMA SssWords ==
    /\ Sss!REG = REG /\ SssP!REG = REG /\ Sss!DEREG = DEREG /\ SssP!DEREG = DEREG
    /\ Sss!ALREADY = ALREADY /\ SssP!ALREADY = ALREADY
    /\ Sss!None = None /\ SssP!None = None /\ Sss!Absent = Absent /\ SssP!Absent = Absent
    /\ Sss!Ops = Ops /\ SssP!Ops = Ops /\ Sss!Data = Data /\ SssP!Data = Data
    /\ Sss!Whole = 2 /\ SssP!Whole = 2
    /\ Sss!Device = [status : Ops, csock : Boots] /\ SssP!Device = [status : Ops, csock : Boots]
    /\ Sss!NoDev = [status |-> Absent, csock |-> None]
    /\ SssP!NoDev = [status |-> Absent, csock |-> None]
<1>1. /\ Sss!Ops = Ops /\ SssP!Ops = Ops /\ Sss!Data = Data /\ SssP!Data = Data
      /\ Sss!None = None /\ SssP!None = None /\ Sss!Absent = Absent /\ SssP!Absent = Absent
  BY DEF Sss!REG, SssP!REG, REG, Sss!DEREG, SssP!DEREG, DEREG, Sss!ALREADY, SssP!ALREADY, ALREADY,
         Sss!Ops, SssP!Ops, Ops, Sss!Data, SssP!Data, Data, Sss!None, SssP!None, None,
         Sss!Absent, SssP!Absent, Absent
<1> QED
  BY <1>1 DEF Sss!REG, SssP!REG, REG, Sss!DEREG, SssP!DEREG, DEREG, Sss!ALREADY, SssP!ALREADY,
         ALREADY, Sss!Whole, SssP!Whole, Sss!Device, SssP!Device, Sss!NoDev, SssP!NoDev

LEMMA CtlWords ==
    /\ Ctl!REG = REG /\ CtlP!REG = REG /\ Ctl!DEREG = DEREG /\ CtlP!DEREG = DEREG
    /\ Ctl!ALREADY = ALREADY /\ CtlP!ALREADY = ALREADY
    /\ Ctl!None = None /\ CtlP!None = None
    /\ Ctl!SSS_ID = SSS_ID /\ CtlP!SSS_ID = SSS_ID
    /\ Ctl!BRDCST_ID = BRDCST_ID /\ CtlP!BRDCST_ID = BRDCST_ID
    /\ Ctl!FAA_ID = FAA_ID /\ CtlP!FAA_ID = FAA_ID
    /\ Ctl!Ops = Ops /\ CtlP!Ops = Ops /\ Ctl!Data = Data /\ CtlP!Data = Data
    /\ Ctl!Ids = Ids /\ CtlP!Ids = Ids /\ Ctl!Msg = Msg /\ CtlP!Msg = Msg
    /\ Ctl!NoMsg = NoMsg /\ CtlP!NoMsg = NoMsg
    /\ \A t, f, x : Ctl!packet(t, f, x) = packet(t, f, x) /\ CtlP!packet(t, f, x) = packet(t, f, x)
<1>1. /\ Ctl!REG = REG /\ CtlP!REG = REG /\ Ctl!DEREG = DEREG /\ CtlP!DEREG = DEREG
      /\ Ctl!ALREADY = ALREADY /\ CtlP!ALREADY = ALREADY
      /\ Ctl!None = None /\ CtlP!None = None
      /\ Ctl!SSS_ID = SSS_ID /\ CtlP!SSS_ID = SSS_ID
      /\ Ctl!BRDCST_ID = BRDCST_ID /\ CtlP!BRDCST_ID = BRDCST_ID
      /\ Ctl!FAA_ID = FAA_ID /\ CtlP!FAA_ID = FAA_ID
  BY DEF Ctl!REG, CtlP!REG, REG, Ctl!DEREG, CtlP!DEREG, DEREG, Ctl!ALREADY, CtlP!ALREADY, ALREADY,
         Ctl!None, CtlP!None, None, Ctl!SSS_ID, CtlP!SSS_ID, SSS_ID,
         Ctl!BRDCST_ID, CtlP!BRDCST_ID, BRDCST_ID, Ctl!FAA_ID, CtlP!FAA_ID, FAA_ID
<1>2. \A t, f, x : Ctl!packet(t, f, x) = packet(t, f, x) /\ CtlP!packet(t, f, x) = packet(t, f, x)
  BY DEF Ctl!packet, CtlP!packet, packet
<1>3. Ctl!Ops = Ops /\ CtlP!Ops = Ops /\ Ctl!Data = Data /\ CtlP!Data = Data
  BY <1>1 DEF Ctl!Ops, CtlP!Ops, Ops, Ctl!Data, CtlP!Data, Data
<1>4. Ctl!Ids = Ids /\ CtlP!Ids = Ids BY <1>1 DEF Ctl!Ids, CtlP!Ids, Ids
<1>5. Ctl!Msg = Msg /\ CtlP!Msg = Msg BY <1>3, <1>4 DEF Ctl!Msg, CtlP!Msg, Msg
<1>6. Ctl!NoMsg = NoMsg /\ CtlP!NoMsg = NoMsg BY <1>1, <1>2 DEF Ctl!NoMsg, CtlP!NoMsg, NoMsg
<1> QED BY <1>1, <1>2, <1>3, <1>4, <1>5, <1>6

LEMMA PrgWords ==
    /\ Prg!REG = REG /\ Prg!DEREG = DEREG /\ Prg!ZeroOp = REG /\ Prg!SSS_ID = SSS_ID
    /\ Prg!None = None
    /\ \A t, f, x : Prg!packet(t, f, x) = packet(t, f, x)
BY DEF Prg!REG, REG, Prg!DEREG, DEREG, Prg!ZeroOp, Prg!SSS_ID, SSS_ID, Prg!None, None,
       Prg!packet, packet

\* The assumptions of the proofs about the parts hold in the deployment.
LEMMA SssFits == SssP!ScewlAssumption
BY ScewlAssumption, SssWords
   DEF SssP!ScewlAssumption, SssP!BRDCST_ID, BRDCST_ID, SssP!SSS_ID, SSS_ID, SssP!FAA_ID, FAA_ID

LEMMA ControllerFits == CtlP!ControllerAssumption /\ CtlP!ScewlAssumption
<1>1. CpuMsgs \subseteq [tgt : Ids, data : Data] /\ AirMsgs \subseteq Msg
  BY RegistrationAssumption DEF CpuMsgs, Msg, Ids, Data, Ops
<1>2. CtlP!Absent = Absent BY DEF CtlP!Absent, Absent
<1> QED
  BY <1>1, <1>2, RegistrationAssumption, ScewlAssumption, CtlWords
  DEF CtlP!ControllerAssumption, CtlP!ScewlAssumption

-----------------------------------------------------------------------------
(* The steps of the deployment are steps of its parts.                     *)

\* The steps of the server and of its clients.
LEMMA SameServer == Sss!Server <=> SssP!Server
BY SssWords
   DEF Sss!clientVars, Sss!Server, Sss!AcceptConn, Sss!PollUnattr, Sss!PollAttr, Sss!AcceptNone,
       Sss!UnattrDone, Sss!AttrDone, Sss!Recv, Sss!RecvEof, Sss!Answer, Sss!AnswerBrokenPipe,
       Sss!EnterUnattr, Sss!EnterAttr, Sss!Known, Sss!Leave, Sss!Returned, Sss!Raised,
       Sss!recorded, Sss!repeated, Sss!resp_op, Sss!StartTransaction, Sss!sock_ready,
       SssP!clientVars, SssP!Server, SssP!AcceptConn, SssP!PollUnattr, SssP!PollAttr,
       SssP!AcceptNone, SssP!UnattrDone, SssP!AttrDone, SssP!Recv, SssP!RecvEof, SssP!Answer,
       SssP!AnswerBrokenPipe, SssP!EnterUnattr, SssP!EnterAttr, SssP!Known, SssP!Leave,
       SssP!Returned, SssP!Raised, SssP!recorded, SssP!repeated, SssP!resp_op,
       SssP!StartTransaction, SssP!sock_ready

\* What the parts' invariants say of one launch, in this module's words.
LEMMA TypesInPlace ==
    ASSUME Parts
    PROVE  /\ ctlPc \in [Boots -> {"outer", "cpu", "radio", "toRadio", "toCpu",
                                    "sssHdr", "sssBody", "sssWait", "notify"}]
           /\ registered \in [Boots -> BOOLEAN]
           /\ cmd \in [Boots -> Ops \cup {None}]
           /\ held \in [Boots -> Msg \cup {NoMsg}]
           /\ link \in [Boots -> {"unused", "open", "closed"}]
           /\ reqOp \in [Boots -> Ops]
           /\ arrived \in [Boots -> 0..2]
           /\ reply \in [Boots -> Data \cup {None}]
           /\ devs \in [Devices -> [status : Ops, csock : Boots]
                                      \cup {[status |-> Absent, csock |-> None]}]
BY CtlWords, SssWords
   DEF Parts, CtlP!IInv, CtlP!TypeOK, CtlP!Places, SssP!IInv, SssP!TypeOK

LEMMA QueuesInPlace ==
    ASSUME Parts
    PROVE  /\ cpuTx \in [Boots -> Seq(Msg)] /\ cpuRx \in [Boots -> Seq(Msg)]
           /\ antRx \in [Boots -> Seq(Msg)] /\ antTx \in [Boots -> Seq(Msg)]
<1>1. \A q : q \in CtlP!Channel => q \in Seq(Msg)
  <2>1. CtlP!Msg = Msg BY CtlWords
  <2>2. \A q : q \in CtlP!Channel => q \in Seq(CtlP!Msg) BY CtlP!ChannelIsBounded, ControllerFits
  <2> QED BY <2>1, <2>2
<1> QED BY <1>1 DEF Parts, CtlP!IInv, CtlP!TypeOK

LEMMA ControllerInPlace ==
    ASSUME Parts, NEW b \in Boots
    PROVE  /\ ctlPc[b] \in {"cpu", "radio", "toRadio", "toCpu"} => registered[b] /\ cmd[b] = None
           /\ ctlPc[b] \in {"sssHdr", "sssBody", "sssWait", "notify"} => cmd[b] \in Ops
           /\ ctlPc[b] = "outer" => ~registered[b] /\ cmd[b] = None
           /\ ctlPc[b] \in {"toRadio", "toCpu", "notify"} => held[b] \in Msg
           /\ ctlPc[b] = "notify" => held[b] = packet(IdOf[b], SSS_ID, held[b].data)
           /\ reply[b] # None => ctlPc[b] = "sssWait"
BY CtlWords
   DEF Parts, CtlP!IInv, CtlP!Dialogue, CtlP!Relaying, CtlP!InDialogue, CtlP!InHandOK,
       CtlP!OneRequest

\* The controller's side of a connection, as the SSS has it.
LEMMA PhaseAt ==
    ASSUME NEW b \in Boots
    PROVE  /\ Phase[b] = "half" <=> ctlPc[b] = "sssBody"
           /\ Phase[b] = "wait" <=> ctlPc[b] = "sssWait"
           /\ Phase[b] = "idle" <=> ctlPc[b] \notin {"sssBody", "sssWait"}
BY DEF Phase

LEMMA PhaseMoves ==
    ASSUME NEW b \in Boots, NEW place,
           ctlPc \in [Boots -> {"outer", "cpu", "radio", "toRadio", "toCpu",
                                "sssHdr", "sssBody", "sssWait", "notify"}],
           ctlPc' = [ctlPc EXCEPT ![b] = place]
    PROVE  Phase' = [Phase EXCEPT ![b] = IF place = "sssBody" THEN "half"
                                         ELSE IF place = "sssWait" THEN "wait" ELSE "idle"]
BY DEF Phase

\* What the server does is what a controller expects of it: a request is read,
\* and answered once it has been read to its end.
LEMMA AnswerInPlace ==
    ASSUME Parts, SssP!Answer
    PROVE  /\ cur \in Boots /\ ctlPc[cur] = "sssWait" /\ link[cur] = "open"
           /\ arrived[cur] = 0 /\ reply[cur] = None
           /\ reply' = [reply EXCEPT ![cur] = SssP!resp_op(cur, reqOp[cur])]
           /\ SssP!resp_op(cur, reqOp[cur]) \in {reqOp[cur], ALREADY}
<1>1. SssP!InTransaction /\ sssPc = "answer" /\ link[cur] = "open"
  BY DEF SssP!Answer, SssP!InTransaction
<1>2. cur \in Boots BY <1>1, SssFits, SssP!Serves DEF Parts
<1>3. SssP!InHand(cur) = 2 /\ arrived[cur] \in 0..2
  BY <1>1, <1>2, SssWords DEF Parts, SssP!IInv, SssP!Pieces, SssP!TypeOK, SssP!InHand
<1>4. Phase[cur] = "wait" /\ reply[cur] = None /\ arrived[cur] = 0
  BY <1>1, <1>2, <1>3, SssWords DEF Parts, SssP!IInv, SssP!Pieces
<1> QED
  BY <1>1, <1>2, <1>4, PhaseAt, SssWords DEF SssP!Answer, SssP!resp_op

LEMMA SssStepParts ==
    ASSUME Parts, SssStep
    PROVE  SssP!Server /\ [CtlP!Next]_(CtlP!vars)
<1>1. SssP!Server /\ UNCHANGED <<ports, ctlVars>> BY SameServer DEF SssStep
<1>2. CASE SssP!Answer
  <2>1. UNCHANGED <<link, reqOp, arrived>> BY <1>2 DEF SssP!Answer
  <2>2. reqOp[cur] \in Data BY <1>2, AnswerInPlace, TypesInPlace DEF Ops, Data
  <2>3. CtlP!SssAnswers(cur, SssP!resp_op(cur, reqOp[cur]))
    BY <1>1, <1>2, <2>1, AnswerInPlace, CtlWords
    DEF CtlP!SssAnswers, ctlVars, ports, CtlP!ctlVars, CtlP!ports
  <2>4. SssP!resp_op(cur, reqOp[cur]) \in CtlP!Data
    BY <1>2, <2>2, AnswerInPlace, CtlWords DEF Data
  <2>5. cur \in Boots BY <1>2, AnswerInPlace
  <2> QED BY <1>1, <2>3, <2>4, <2>5 DEF CtlP!Next, CtlP!Env
<1>3. CASE SssP!Recv
  <2>1. cur \in Boots
    BY <1>3, SssFits, SssP!Serves DEF Parts, SssP!Recv, SssP!InTransaction
  <2>2. CtlP!SssReads(cur)
    BY <1>1, <1>3
    DEF SssP!Recv, CtlP!SssReads, ctlVars, ports, CtlP!ctlVars, CtlP!ports
  <2> QED BY <1>1, <2>1, <2>2 DEF CtlP!Next, CtlP!Env
<1>4. CASE ~SssP!Answer /\ ~SssP!Recv
  <2>1. UNCHANGED <<link, reqOp, arrived, reply>>
    BY <1>1, <1>4
    DEF SssP!Server, SssP!AcceptConn, SssP!PollUnattr, SssP!PollAttr, SssP!AcceptNone,
        SssP!UnattrDone, SssP!AttrDone, SssP!RecvEof, SssP!AnswerBrokenPipe, SssP!clientVars
  <2> QED BY <1>1, <2>1 DEF CtlP!vars, ctlVars, ports
<1> QED BY <1>2, <1>3, <1>4

\* A controller's steps: the dialogue with the SSS is a client's, and the rest
\* does not concern the SSS.
LEMMA ControllerStepParts ==
    ASSUME Parts, NEW b \in Boots, ControllerStep(b)
    PROVE  [SssP!Next]_(SssP!vars) /\ CtlP!Step(b)
<1>1. CtlP!Step(b)
  BY CtlWords
  DEF ControllerStep, Ctl!Step, Ctl!ReadCommand, Ctl!PollCpu, Ctl!CpuQuiet, Ctl!WriteRadio,
      Ctl!PollRadio, Ctl!RadioQuiet, Ctl!WriteCpu, Ctl!WriteRequestHeader,
      Ctl!WriteRequestBody, Ctl!ReadAnswer, Ctl!NotifyCpu, Ctl!avail, Ctl!read_msg,
      Ctl!send_msg, Ctl!Goto, Ctl!handle_registration, Ctl!accepted, Ctl!for_cpu, Ctl!after,
      Ctl!ports, Ctl!sssLink,
      CtlP!Step, CtlP!ReadCommand, CtlP!PollCpu, CtlP!CpuQuiet, CtlP!WriteRadio,
      CtlP!PollRadio, CtlP!RadioQuiet, CtlP!WriteCpu, CtlP!WriteRequestHeader,
      CtlP!WriteRequestBody, CtlP!ReadAnswer, CtlP!NotifyCpu, CtlP!avail, CtlP!read_msg,
      CtlP!send_msg, CtlP!Goto, CtlP!handle_registration, CtlP!accepted, CtlP!for_cpu,
      CtlP!after, CtlP!ports, CtlP!sssLink
<1>2. UNCHANGED sssVars /\ link[b] = "open" BY DEF ControllerStep, Ctl!Step
<1>3. [SssP!Next]_(SssP!vars)
  <2> USE TypesInPlace, PhaseAt, PhaseMoves
  <2>1. CASE Ctl!WriteRequestHeader(b)
    <3>1. cmd[b] \in Ops /\ Phase[b] = "idle"
      BY <2>1, ControllerInPlace DEF Ctl!WriteRequestHeader
    <3>2. SssP!BeginRequest(b, cmd[b])
      BY <1>2, <2>1, <3>1
      DEF Ctl!WriteRequestHeader, Ctl!Goto, SssP!BeginRequest, SssP!serverVars, sssVars
    <3> QED BY <3>1, <3>2, SssWords DEF SssP!Next, SssP!Client
  <2>2. CASE Ctl!WriteRequestBody(b)
    <3>1. SssP!EndRequest(b)
      BY <1>2, <2>2
      DEF Ctl!WriteRequestBody, Ctl!Goto, SssP!EndRequest, SssP!serverVars, sssVars
    <3> QED BY <3>1 DEF SssP!Next, SssP!Client
  <2>3. CASE Ctl!ReadAnswer(b)
    <3>1. Phase[b] = "wait" /\ Phase' = [Phase EXCEPT ![b] = "idle"]
      BY <2>3 DEF Ctl!ReadAnswer, Ctl!Goto, Phase
    <3>2. SssP!TakeReply(b)
      BY <1>2, <2>3, <3>1, SssWords, CtlWords
      DEF Ctl!ReadAnswer, SssP!TakeReply, SssP!serverVars, sssVars
    <3> QED BY <3>2 DEF SssP!Next, SssP!Client
  <2>4. CASE ~(Ctl!WriteRequestHeader(b) \/ Ctl!WriteRequestBody(b) \/ Ctl!ReadAnswer(b))
    <3>1. UNCHANGED <<link, reqOp, arrived, reply>>
      BY <2>4
      DEF ControllerStep, Ctl!Step, Ctl!ReadCommand, Ctl!PollCpu, Ctl!CpuQuiet,
          Ctl!WriteRadio, Ctl!PollRadio, Ctl!RadioQuiet, Ctl!WriteCpu, Ctl!NotifyCpu,
          Ctl!sssLink
    <3>2. /\ ctlPc' = [ctlPc EXCEPT ![b] = ctlPc'[b]]
          /\ ctlPc[b] \notin {"sssBody", "sssWait"} /\ ctlPc'[b] \notin {"sssBody", "sssWait"}
      BY <2>4
      DEF ControllerStep, Ctl!Step, Ctl!ReadCommand, Ctl!PollCpu, Ctl!CpuQuiet,
          Ctl!WriteRadio, Ctl!PollRadio, Ctl!RadioQuiet, Ctl!WriteCpu, Ctl!NotifyCpu,
          Ctl!Goto, Ctl!handle_registration
    <3>3. UNCHANGED Phase BY <3>2 DEF Phase
    <3> QED BY <1>2, <3>1, <3>3 DEF SssP!vars, sssVars
  <2> QED BY <2>1, <2>2, <2>3, <2>4
<1> QED BY <1>1, <1>3

\* A launch and an end concern both.
LEMMA LifeParts ==
    ASSUME Parts, NEW b \in Boots, Launch(b) \/ KillController(b) \/ ControllerDies(b)
    PROVE  SssP!Client(b) /\ (CtlP!Start(b) \/ CtlP!Stop(b))
<1>1. CASE Launch(b)
  <2>1. SssP!Connect(b)
    BY <1>1 DEF Launch, Sss!Connect, SssP!Connect, Sss!serverVars, SssP!serverVars
  <2>2. CtlP!Start(b)
    BY <1>1 DEF Launch, Ctl!Start, CtlP!Start, Ctl!ctlVars, CtlP!ctlVars, Ctl!ports, CtlP!ports
  <2> QED BY <2>1, <2>2 DEF SssP!Client
<1>2. CASE KillController(b) \/ ControllerDies(b)
  <2>1. SssP!Disconnect(b)
    BY <1>2, SssWords
    DEF KillController, ControllerDies, Sss!Disconnect, SssP!Disconnect, Sss!serverVars,
        SssP!serverVars
  <2>2. CtlP!Stop(b)
    BY <1>2, CtlWords
    DEF KillController, ControllerDies, Ctl!Stop, CtlP!Stop, Ctl!Goto, CtlP!Goto
  <2> QED BY <2>1, <2>2 DEF SssP!Client
<1> QED BY <1>1, <1>2

\* What a program writes to its controller.
Wrote(b, m) ==
    /\ Live(b) /\ Len(cpuTx[b]) < Cap
    /\ cpuTx' = [cpuTx EXCEPT ![b] = Append(@, packet(m.tgt, IdOf[b], m.data))]
    /\ UNCHANGED cpuRx
ReadOne(b) ==
    cpuRx[b] # <<>> /\ cpuRx' = [cpuRx EXCEPT ![b] = Tail(@)] /\ UNCHANGED cpuTx

\* A program's step writes or reads one message, or none.
LEMMA ProgramAtPorts ==
    ASSUME NEW b \in Boots, ProgramStep(b) \/ ProgramDies(b)
    PROVE  /\ UNCHANGED <<link, ctlVars, antRx, antTx, reqOp, arrived, reply, sssVars>>
           /\ \/ UNCHANGED <<cpuTx, cpuRx>>
              \/ ReadOne(b)
              \/ \E m \in CpuMsgs : Wrote(b, m)
<1>1. UNCHANGED <<ctlVars, antRx, antTx, reqOp, arrived, reply, sssVars>>
  BY DEF ProgramStep, ProgramDies
<1>2. ASSUME ProgramDies(b) \/ Prg!Frame(b) \/ Prg!Leave(b)
      PROVE  UNCHANGED <<link, cpuTx, cpuRx>>
  BY <1>2
  DEF ProgramDies, Prg!CpuDies, Prg!Ends, Prg!Frame, Prg!FirstRegister, Prg!Recover,
      Prg!RegisterAgain, Prg!Exit, Prg!Leave, Prg!CallRegister, Prg!CallDeregister
<1>3. ASSUME Exchange(b)
      PROVE  UNCHANGED link /\ (UNCHANGED <<cpuTx, cpuRx>> \/ \E m \in SedMsgs : Wrote(b, m))
  BY <1>3, PrgWords
  DEF Exchange, Prg!CallRecv, Prg!CallSend, Prg!scewl_send, Wrote, Live
<1>4. ASSUME Prg!SendRegister(b) \/ Prg!SendDeregister(b)
      PROVE  UNCHANGED link /\ \E m \in [tgt : {SSS_ID}, data : Ops] : Wrote(b, m)
  <2>1. PICK op \in Ops : Prg!scewl_send(b, SSS_ID, op) /\ UNCHANGED link
    BY <1>4, PrgWords DEF Prg!SendRegister, Prg!SendDeregister, Ops
  <2>2. Wrote(b, [tgt |-> SSS_ID, data |-> op])
    BY <2>1, PrgWords DEF Prg!scewl_send, Wrote, Live
  <2> QED BY <2>1, <2>2
<1>5. ASSUME Prg!Step(b), ~(Prg!SendRegister(b) \/ Prg!SendDeregister(b))
      PROVE  UNCHANGED link /\ (UNCHANGED <<cpuTx, cpuRx>> \/ ReadOne(b))
  BY <1>5
  DEF Prg!Step, Prg!SigPipe, Prg!RecvRegister, Prg!RecvRegisterEof, Prg!RecvDeregister,
      Prg!RecvDeregisterEof, Prg!Recv, Prg!RecvEof, Prg!Delivered, Prg!Consume, ReadOne
<1> QED
  BY <1>1, <1>2, <1>3, <1>4, <1>5 DEF ProgramStep, App, Prg!InCall, CpuMsgs

LEMMA ProgramParts ==
    ASSUME Parts, NEW b \in Boots, ProgramStep(b) \/ ProgramDies(b)
    PROVE  UNCHANGED SssP!vars /\ [CtlP!Next]_(CtlP!vars)
<1>1. UNCHANGED <<link, ctlVars, antRx, antTx, reqOp, arrived, reply, sssVars>>
  BY ProgramAtPorts
<1>2. UNCHANGED SssP!vars BY <1>1 DEF SssP!vars, sssVars, ctlVars, Phase
<1>3. CASE UNCHANGED <<cpuTx, cpuRx>> BY <1>1, <1>2, <1>3 DEF CtlP!vars, ctlVars
<1>4. CASE ReadOne(b)
  <2>1. CtlP!CpuReads(b)
    BY <1>1, <1>4
    DEF ReadOne, CtlP!CpuReads, CtlP!avail, CtlP!read_msg, ctlVars, CtlP!ctlVars, CtlP!sssLink
  <2> QED BY <1>2, <2>1 DEF CtlP!Next, CtlP!Env
<1>5. ASSUME NEW m \in CpuMsgs, Wrote(b, m) PROVE [CtlP!Next]_(CtlP!vars)
  <2>1. CtlP!CpuWrites(b, m)
    BY <1>1, <1>5, CtlWords
    DEF Wrote, Live, CtlP!CpuWrites, CtlP!send_msg, ctlVars, CtlP!ctlVars, CtlP!sssLink
  <2> QED BY <2>1 DEF CtlP!Next, CtlP!Env
<1> QED BY <1>2, <1>3, <1>4, <1>5, ProgramAtPorts

LEMMA RestParts ==
    ASSUME Parts, NEW b \in Boots, OutputDropped(b) \/ Air(b)
    PROVE  UNCHANGED SssP!vars /\ CtlP!Env(b)
<1>1. CtlP!Env(b)
  BY DEF OutputDropped, Air, CtlP!Env, Ctl!CpuReads, CtlP!CpuReads, Ctl!AirTakes, CtlP!AirTakes,
      Ctl!AirBrings, CtlP!AirBrings, Ctl!avail, CtlP!avail, Ctl!read_msg, CtlP!read_msg,
      Ctl!send_msg, CtlP!send_msg, Ctl!ctlVars, CtlP!ctlVars, Ctl!sssLink, CtlP!sssLink
<1>2. UNCHANGED <<ctlVars, link, reqOp, arrived, reply, sssVars>>
  BY DEF OutputDropped, Air, Ctl!CpuReads, Ctl!AirTakes, Ctl!AirBrings, Ctl!ctlVars, Ctl!sssLink,
      ctlVars
<1>3. UNCHANGED SssP!vars BY <1>2 DEF SssP!vars, sssVars, ctlVars, Phase
<1> QED BY <1>1, <1>3

\* Every step of the deployment is one of the SSS and its clients, and one of
\* the controllers and their environment, or leaves them alone.
LEMMA StepParts ==
    ASSUME Parts, [Next]_vars
    PROVE  [SssP!Next]_(SssP!vars) /\ [CtlP!Next]_(CtlP!vars)
<1>1. CASE UNCHANGED vars
  BY <1>1 DEF vars, SssP!vars, CtlP!vars, Phase
<1>2. CASE SssStep BY <1>2, SssStepParts DEF SssP!Next
<1>3. ASSUME NEW b \in Boots,
             \/ Launch(b) \/ KillController(b) \/ ControllerDies(b)
             \/ ProgramStep(b) \/ ProgramDies(b)
             \/ ControllerStep(b) \/ OutputDropped(b) \/ Air(b)
      PROVE  [SssP!Next]_(SssP!vars) /\ [CtlP!Next]_(CtlP!vars)
  <2>1. CASE Launch(b) \/ KillController(b) \/ ControllerDies(b)
    BY <2>1, LifeParts DEF SssP!Next, CtlP!Next
  <2>2. CASE ProgramStep(b) \/ ProgramDies(b) BY <2>2, ProgramParts
  <2>3. CASE ControllerStep(b) BY <2>3, ControllerStepParts DEF CtlP!Next
  <2>4. CASE OutputDropped(b) \/ Air(b) BY <2>4, RestParts DEF CtlP!Next
  <2> QED BY <1>3, <2>1, <2>2, <2>3, <2>4
<1> QED BY <1>1, <1>2, <1>3 DEF Next

LEMMA InitParts == Init => Parts
<1> SUFFICES ASSUME Init PROVE Parts OBVIOUS
<1>1. Phase = [b \in Boots |-> "idle"] BY DEF Init, Ctl!CtlInit, Phase
<1>2. SssP!Init
  BY <1>1, SssWords, CtlWords
  DEF Init, Ctl!LinkInit, Sss!ServerInit, SssP!Init, SssP!ClientInit, SssP!ServerInit
<1>3. CtlP!Init
  BY CtlWords
  DEF Init, Ctl!CtlInit, Ctl!PortsInit, Ctl!LinkInit, CtlP!Init, CtlP!CtlInit, CtlP!PortsInit,
      CtlP!LinkInit
<1> QED BY <1>2, <1>3, SssFits, ControllerFits, SssP!InitIInv, CtlP!InitIInv DEF Parts

LEMMA NextParts == Parts /\ [Next]_vars => Parts'
BY StepParts, SssFits, ControllerFits, SssP!NextIInv, CtlP!NextIInv DEF Parts

LEMMA SpecParts == Spec => []Parts
BY InitParts, NextParts, PTL DEF Spec

\* The deployment implements the specification of each of its parts, with the
\* environment that was assumed of it.
LEMMA SameSss == [SssP!Next]_(SssP!vars) => [Sss!Next]_(Sss!vars)
<1>1. ASSUME NEW b \in Boots, SssP!Client(b) PROVE Sss!Client(b)
  BY <1>1, SssWords
  DEF Sss!Client, Sss!Connect, Sss!BeginRequest, Sss!EndRequest, Sss!TakeReply, Sss!Disconnect,
      Sss!serverVars, SssP!Client, SssP!Connect, SssP!BeginRequest, SssP!EndRequest,
      SssP!TakeReply, SssP!Disconnect, SssP!serverVars
<1>2. UNCHANGED SssP!vars => UNCHANGED Sss!vars BY DEF SssP!vars, Sss!vars
<1> QED BY <1>1, <1>2, SameServer DEF SssP!Next, Sss!Next

LEMMA SameController == [CtlP!Next]_(CtlP!vars) => [Ctl!Next]_(Ctl!vars)
<1>1. ASSUME NEW b \in Boots, CtlP!Step(b) PROVE Ctl!Step(b)
  BY <1>1, CtlWords
  DEF Ctl!Step, Ctl!ReadCommand, Ctl!PollCpu, Ctl!CpuQuiet, Ctl!WriteRadio,
      Ctl!PollRadio, Ctl!RadioQuiet, Ctl!WriteCpu, Ctl!WriteRequestHeader,
      Ctl!WriteRequestBody, Ctl!ReadAnswer, Ctl!NotifyCpu, Ctl!avail, Ctl!read_msg,
      Ctl!send_msg, Ctl!Goto, Ctl!handle_registration, Ctl!accepted, Ctl!for_cpu, Ctl!after,
      Ctl!ports, Ctl!sssLink,
      CtlP!Step, CtlP!ReadCommand, CtlP!PollCpu, CtlP!CpuQuiet, CtlP!WriteRadio,
      CtlP!PollRadio, CtlP!RadioQuiet, CtlP!WriteCpu, CtlP!WriteRequestHeader,
      CtlP!WriteRequestBody, CtlP!ReadAnswer, CtlP!NotifyCpu, CtlP!avail, CtlP!read_msg,
      CtlP!send_msg, CtlP!Goto, CtlP!handle_registration, CtlP!accepted, CtlP!for_cpu,
      CtlP!after, CtlP!ports, CtlP!sssLink
<1>2. ASSUME NEW b \in Boots, CtlP!Start(b) \/ CtlP!Stop(b) PROVE Ctl!Start(b) \/ Ctl!Stop(b)
  BY <1>2, CtlWords
  DEF Ctl!Start, Ctl!Stop, Ctl!Goto, Ctl!ctlVars, Ctl!ports,
      CtlP!Start, CtlP!Stop, CtlP!Goto, CtlP!ctlVars, CtlP!ports
<1>3. ASSUME NEW b \in Boots, CtlP!Env(b) PROVE Ctl!Env(b)
  BY <1>3, CtlWords
  DEF Ctl!Env, Ctl!CpuWrites, Ctl!CpuReads, Ctl!AirBrings, Ctl!AirTakes, Ctl!SssReads,
      Ctl!SssAnswers, Ctl!avail, Ctl!read_msg, Ctl!send_msg, Ctl!ctlVars, Ctl!ports, Ctl!sssLink,
      CtlP!Env, CtlP!CpuWrites, CtlP!CpuReads, CtlP!AirBrings, CtlP!AirTakes, CtlP!SssReads,
      CtlP!SssAnswers, CtlP!avail, CtlP!read_msg, CtlP!send_msg, CtlP!ctlVars, CtlP!ports,
      CtlP!sssLink
<1>4. UNCHANGED CtlP!vars => UNCHANGED Ctl!vars BY DEF CtlP!vars, Ctl!vars
<1> QED BY <1>1, <1>2, <1>3, <1>4 DEF CtlP!Next, Ctl!Next

\* Whatever the programs, the controllers and the air do, the SSS meets in a
\* deployment only what it was specified and proved for.
THEOREM SssIsInPlace == Spec => SssInPlace
<1>1. Init => Sss!Init
  <2> SUFFICES ASSUME Init PROVE Sss!Init OBVIOUS
  <2>1. Phase = [b \in Boots |-> "idle"] BY DEF Init, Ctl!CtlInit, Phase
  <2> QED BY <2>1, SssWords, CtlWords DEF Init, Ctl!LinkInit, Sss!Init, Sss!ClientInit
<1>2. Parts /\ [Next]_vars => [Sss!Next]_(Sss!vars) BY StepParts, SameSss
<1> QED BY <1>1, <1>2, SpecParts, PTL DEF Spec, SssInPlace, Sss!Spec

\* And so does every controller.
THEOREM ControllerIsInPlace == Spec => CtlInPlace
<1>1. Init => Ctl!Init BY DEF Init, Ctl!Init
<1>2. Parts /\ [Next]_vars => [Ctl!Next]_(Ctl!vars) BY StepParts, SameController
<1> QED BY <1>1, <1>2, SpecParts, PTL DEF Spec, CtlInPlace, Ctl!Spec

-----------------------------------------------------------------------------
(* The three-sided conversation.                                           *)

\* Nothing changes in b's program, controller or connection.
SameAt(b) ==
    /\ link'[b] = link[b] /\ reqOp'[b] = reqOp[b] /\ reply'[b] = reply[b]
    /\ ctlPc'[b] = ctlPc[b] /\ registered'[b] = registered[b]
    /\ cmd'[b] = cmd[b] /\ held'[b] = held[b]
    /\ cpuTx'[b] = cpuTx[b] /\ cpuRx'[b] = cpuRx[b] /\ antRx'[b] = antRx[b]
    /\ cpuPc'[b] = cpuPc[b] /\ app'[b] = app[b] /\ ret'[b] = ret[b]

\* Then it is enough that the table keeps its word.
LEMMA Carried ==
    ASSUME NEW b \in Boots, Talk(b), SameAt(b),
           Live(b) => \A op : Granted(b, op) => Granted(b, op)',
           Live(b) /\ devs'[IdOf[b]] = [status |-> REG, csock |-> b]
               => devs[IdOf[b]] = [status |-> REG, csock |-> b]
    PROVE  Talk(b)'
<1>1. Fresh(b)' BY DEF Talk, Fresh, SameAt, Live
<1>2. AirIsNotSss(b)' BY DEF Talk, AirIsNotSss, NoneFrom, SameAt
<1>3. Agreed(b)' BY DEF Talk, Agreed, Said, SameAt, Live
<1>4. Conversation(b)'
  BY DEF Talk, Conversation, Places, Quiet, Relayed, RegAsked, RegTold, Asked, DeregTold,
         NoneTo, NoneFrom, SameAt, Live
<1> QED BY <1>1, <1>2, <1>3, <1>4 DEF Talk

LEMMA Untouched ==
    ASSUME NEW b \in Boots, Talk(b), SameAt(b), UNCHANGED <<devs, closed, oldIds>>
    PROVE  Talk(b)'
<1>1. \A op : Granted(b, op) => Granted(b, op)' BY DEF Granted, Sss!Doomed
<1> QED BY <1>1, Carried

\* The server's answer to one launch, and its other steps.
LEMMA SssTalk ==
    ASSUME IInv, SssStep, NEW b \in Boots
    PROVE  Talk(b)'
<1> USE DEF IInv
<1>1. SssP!Server /\ UNCHANGED <<cpuVars, ports, ctlVars>> BY SameServer DEF SssStep
<1>2. /\ UNCHANGED <<link, reqOp>>
      /\ ~(SssP!Answer /\ cur = b) => reply'[b] = reply[b]
  BY <1>1, TypesInPlace
  DEF SssP!Server, SssP!AcceptConn, SssP!PollUnattr, SssP!PollAttr, SssP!AcceptNone,
      SssP!UnattrDone, SssP!AttrDone, SssP!Recv, SssP!RecvEof, SssP!Answer,
      SssP!AnswerBrokenPipe, SssP!clientVars
<1>3. SssP!Next /\ SssP!IInv BY <1>1 DEF SssP!Next, Parts
<1>4. CASE ~(SssP!Answer /\ cur = b)
  <2>1. SameAt(b) BY <1>1, <1>2, <1>4 DEF SameAt, cpuVars, ports, ctlVars
  <2>2. ASSUME Live(b), NEW op, Granted(b, op) PROVE Granted(b, op)'
    BY <1>3, <1>4, <2>2, SssFits, SssP!EntryStays DEF Granted, Live, Sss!Doomed, SssP!Doomed
  <2>3. ASSUME Live(b), devs'[IdOf[b]] = [status |-> REG, csock |-> b]
        PROVE  devs[IdOf[b]] = [status |-> REG, csock |-> b]
    BY <1>3, <1>4, <2>3, SssFits, SssP!EntryIsNews DEF Live
  <2> QED BY <2>1, <2>2, <2>3, Carried
<1>5. CASE SssP!Answer /\ cur = b
  <2>1. /\ ctlPc[b] = "sssWait" /\ link[b] = "open" /\ reply[b] = None
        /\ reply'[b] = SssP!resp_op(b, reqOp[b])
    BY <1>5, AnswerInPlace, TypesInPlace
  <2>2. /\ ~SssP!Doomed(IdOf[b])
        /\ \/ devs' = devs /\ devs[IdOf[b]].status = reqOp[b] /\ reply'[b] = ALREADY
           \/ /\ devs[IdOf[b]].status # reqOp[b]
              /\ devs'[IdOf[b]] = [status |-> reqOp[b], csock |-> b]
              /\ reply'[b] = reqOp[b]
    BY <1>3, <1>5, <2>1, SssFits, SssP!AnswerSays, SssWords
  <2>3. Said(b) = None /\ Said(b)' = reply'[b] BY <1>1, <2>1 DEF Said, ctlVars
  <2>4. Agreed(b) /\ reqOp[b] = cmd[b] /\ cmd[b] \in Ops
    BY <2>1, TypesInPlace DEF Talk, Agreed, Live
  <2>5. Agreed(b)'
    BY <1>1, <1>2, <2>1, <2>2, <2>3, <2>4
    DEF Agreed, Live, Granted, Sss!Doomed, SssP!Doomed, ctlVars, Ops, REG, DEREG, ALREADY, None
  <2>6. Fresh(b)' /\ AirIsNotSss(b)'
    BY <1>1, <1>2 DEF Talk, Fresh, AirIsNotSss, NoneFrom, Live, ctlVars, cpuVars, ports
  <2>7. cmd[b] # None BY <2>4 DEF Ops, REG, DEREG, None
  <2>8. Conversation(b)'
    BY <1>1, <1>2, <2>1, <2>7, ControllerInPlace
    DEF Talk, Conversation, Places, Quiet, Relayed, RegAsked, RegTold, Asked, DeregTold,
        NoneTo, NoneFrom, Live, ctlVars, cpuVars, ports
  <2> QED BY <2>5, <2>6, <2>8 DEF Talk
<1> QED BY <1>4, <1>5

\* A SED is launched and ends.
LEMMA LaunchTalk ==
    ASSUME IInv, NEW b \in Boots, Launch(b), NEW c \in Boots
    PROVE  Talk(c)'
<1> USE DEF IInv
<1>1. /\ link[b] = "unused" /\ link' = [link EXCEPT ![b] = "open"]
      /\ cpuPc' = [cpuPc EXCEPT ![b] = "idle"]
      /\ UNCHANGED <<app, ret, ctlVars, ports, reqOp, arrived, reply, devs, closed, oldIds>>
  BY DEF Launch, Ctl!Start, Sss!Connect, Sss!serverVars, Ctl!ctlVars, Ctl!ports, ctlVars, ports
<1>2. CASE c # b
  <2>1. SameAt(c)
    BY <1>1, <1>2, TypesInPlace
    DEF SameAt, ctlVars, ports, ProgramTypeOK, Prg!TypeOK
  <2> QED BY <1>1, <2>1, Untouched
<1>3. CASE c = b
  <2>1. /\ cpuPc'[b] = "idle" /\ link'[b] = "open"
        /\ app[b] = "boot" /\ ctlPc[b] = "outer" /\ cpuTx[b] = <<>> /\ cpuRx[b] = <<>>
    BY <1>1, TypesInPlace DEF Talk, Fresh, ProgramTypeOK, Prg!TypeOK
  <2>2. reply[b] = None /\ ~registered[b] /\ cmd[b] = None
    BY <2>1, ControllerInPlace
  <2>3. devs[IdOf[b]].csock # b
    BY <1>1, ScewlAssumption DEF Parts, SssP!IInv, SssP!Home, SssP!OneHome, SssP!Recorded
  <2>4. Agreed(b)' BY <1>1, <2>1, <2>2, <2>3 DEF Agreed, Said, ctlVars, Ops, REG, DEREG, None
  <2>5. Conversation(b)'
    BY <1>1, <2>1 DEF Conversation, Places, Quiet, ctlVars, ports
  <2>6. AirIsNotSss(b)' BY <1>1 DEF Talk, AirIsNotSss, NoneFrom, ctlVars, ports
  <2> QED BY <1>3, <2>1, <2>4, <2>5, <2>6 DEF Talk, Fresh
<1> QED BY <1>2, <1>3

LEMMA EndTalk ==
    ASSUME IInv, NEW b \in Boots, KillController(b) \/ ControllerDies(b), NEW c \in Boots
    PROVE  Talk(c)'
<1> USE DEF IInv
<1>1. /\ link[b] = "open" /\ link' = [link EXCEPT ![b] = "closed"]
      /\ ctlPc' = [ctlPc EXCEPT ![b] = "outer"]
      /\ registered' = [registered EXCEPT ![b] = FALSE]
      /\ cmd' = [cmd EXCEPT ![b] = None]
      /\ held' = [held EXCEPT ![b] = NoMsg]
      /\ cpuTx' = [cpuTx EXCEPT ![b] = <<>>]
      /\ antRx' = [antRx EXCEPT ![b] = <<>>]
      /\ reply' = [reply EXCEPT ![b] = None]
      /\ UNCHANGED <<cpuVars, cpuRx, reqOp, devs, closed, oldIds>>
  BY CtlWords
  DEF KillController, ControllerDies, Ctl!Stop, Ctl!Goto, Sss!Disconnect, Sss!serverVars
<1>2. CASE c # b
  <2>1. SameAt(c) BY <1>1, <1>2, TypesInPlace, QueuesInPlace DEF SameAt, cpuVars
  <2> QED BY <1>1, <2>1, Untouched
<1>3. CASE c = b
  <2>1. link'[b] = "closed" /\ ctlPc'[b] = "outer" /\ antRx'[b] = <<>>
    BY <1>1, TypesInPlace, QueuesInPlace
  <2>2. AirIsNotSss(b)' BY <2>1 DEF AirIsNotSss, NoneFrom
  <2> QED BY <1>3, <2>1, <2>2 DEF Talk, Fresh, Agreed, Conversation, Live
<1> QED BY <1>2, <1>3

-----------------------------------------------------------------------------
(* Queues.                                                                 *)

LEMMA TakeFirst ==
    ASSUME NEW s \in Seq(Msg), s # <<>>
    PROVE  /\ Len(s) \in Nat \ {0} /\ Head(s) = s[1] /\ Head(s) \in Msg
           /\ Tail(s) \in Seq(Msg) /\ Len(Tail(s)) = Len(s) - 1
           /\ \A i \in 1..(Len(s) - 1) : Tail(s)[i] = s[i + 1]
           /\ Tail(s) = <<>> <=> Len(s) = 1
<1>1. Len(s) \in Nat \ {0} BY EmptySeq
<1>2. /\ Head(s) \in Msg /\ Tail(s) \in Seq(Msg) /\ Len(Tail(s)) = Len(s) - 1
      /\ \A i \in 1..(Len(s) - 1) : Tail(s)[i] = s[i + 1]
  BY HeadTailProperties
<1>3. Head(s) = s[1] OBVIOUS
<1>4. Tail(s) = <<>> <=> Len(Tail(s)) = 0 BY <1>2, EmptySeq
<1>5. Tail(s) = <<>> <=> Len(s) = 1 BY <1>1, <1>2, <1>4
<1> QED BY <1>1, <1>2, <1>3, <1>5

LEMMA PutLast ==
    ASSUME NEW s \in Seq(Msg), NEW m \in Msg
    PROVE  /\ Append(s, m) \in Seq(Msg) /\ Append(s, m) # <<>>
           /\ Len(s) \in Nat /\ Len(Append(s, m)) = Len(s) + 1
           /\ Append(s, m)[Len(s) + 1] = m
           /\ \A i \in 1..Len(s) : Append(s, m)[i] = s[i]
<1>1. /\ Append(s, m) \in Seq(Msg) /\ Len(Append(s, m)) = Len(s) + 1
      /\ Append(s, m)[Len(s) + 1] = m /\ \A i \in 1..Len(s) : Append(s, m)[i] = s[i]
  BY AppendProperties
<1>2. Len(s) \in Nat BY LenProperties
<1>3. Append(s, m) # <<>> BY <1>1, <1>2, EmptySeq
<1> QED BY <1>1, <1>2, <1>3

LEMMA StillNoneTo ==
    ASSUME NEW s \in Seq(Msg), NEW m \in Msg, m.tgt # SSS_ID, NoneTo(s, Len(s))
    PROVE  NoneTo(Append(s, m), Len(Append(s, m)))
<1>1. \A i \in 1..(Len(s) + 1) : i \in 1..Len(s) \/ i = Len(s) + 1 BY LenProperties
<1> QED BY <1>1, PutLast DEF NoneTo

LEMMA StillNoneFrom ==
    ASSUME NEW s \in Seq(Msg), s # <<>>, NoneFrom(s, Len(s))
    PROVE  NoneFrom(Tail(s), Len(Tail(s)))
BY TakeFirst DEF NoneFrom

\* The air, and a dead program's port.
LEMMA AirTalk ==
    ASSUME IInv, NEW b \in Boots, Air(b) \/ OutputDropped(b), NEW c \in Boots
    PROVE  Talk(c)'
<1> USE DEF IInv
<1>1. UNCHANGED <<cpuVars, ctlVars, cpuTx, link, reqOp, arrived, reply, sssVars>>
  BY DEF Air, OutputDropped, Ctl!AirBrings, Ctl!AirTakes, Ctl!CpuReads, Ctl!ctlVars, Ctl!sssLink,
         ctlVars
<1>2. \/ UNCHANGED <<cpuRx, antRx>>
      \/ /\ UNCHANGED cpuRx
         /\ \E m \in AirMsgs : antRx' = [antRx EXCEPT ![b] = Append(@, m)]
      \/ /\ UNCHANGED antRx /\ cpuPc[b] = "dead"
         /\ cpuRx' = [cpuRx EXCEPT ![b] = Tail(@)]
  BY DEF Air, OutputDropped, Ctl!AirBrings, Ctl!AirTakes, Ctl!CpuReads, Ctl!send_msg,
         Ctl!read_msg
<1>3. CASE c # b \/ UNCHANGED <<cpuRx, antRx>>
  <2>1. SameAt(c)
    BY <1>1, <1>2, <1>3, QueuesInPlace DEF SameAt, cpuVars, ctlVars
  <2> QED BY <1>1, <2>1, Untouched DEF sssVars
<1>4. ASSUME c = b, UNCHANGED cpuRx, NEW m \in AirMsgs,
             antRx' = [antRx EXCEPT ![b] = Append(@, m)]
      PROVE  Talk(c)'
  <2>1. m \in Msg /\ m.src # SSS_ID BY RegistrationAssumption DEF Msg
  <2>2. antRx'[b] = Append(antRx[b], m) /\ antRx[b] \in Seq(Msg) BY <1>4, QueuesInPlace
  <2>3. AirIsNotSss(b)'
    BY <1>1, <2>1, <2>2, PutLast DEF Talk, AirIsNotSss, NoneFrom, ctlVars
  <2>4. Fresh(b)' /\ Agreed(b)' /\ Conversation(b)'
    BY <1>1, <1>4
    DEF Talk, Fresh, Agreed, Said, Granted, Sss!Doomed, Conversation, Places, Quiet, Relayed,
        RegAsked, RegTold, Asked, DeregTold, NoneTo, NoneFrom, Live, cpuVars, ctlVars, sssVars
  <2> QED BY <1>4, <2>3, <2>4 DEF Talk
<1>5. CASE c = b /\ UNCHANGED antRx /\ cpuPc[b] = "dead"
  <2>1. Fresh(b)' /\ AirIsNotSss(b)' /\ Agreed(b)' /\ Conversation(b)'
    BY <1>1, <1>5
    DEF Talk, Fresh, AirIsNotSss, NoneFrom, Agreed, Said, Granted, Sss!Doomed, Conversation,
        Places, Live, cpuVars, ctlVars, sssVars
  <2> QED BY <1>5, <2>1 DEF Talk
<1> QED BY <1>2, <1>3, <1>4, <1>5

-----------------------------------------------------------------------------
(* The controllers.                                                        *)

\* A controller's steps do not concern other launches.
LEMMA OneController ==
    ASSUME IInv, NEW b \in Boots, ControllerStep(b)
    PROVE  /\ Live(b)
           /\ UNCHANGED <<cpuVars, link, sssVars>>
           /\ \A c \in Boots : c # b => SameAt(c)
<1> USE DEF IInv
<1>1. Live(b) /\ UNCHANGED <<cpuVars, sssVars>> BY DEF ControllerStep, Ctl!Step, Live
<1>2. UNCHANGED link
  BY DEF ControllerStep, Ctl!Step, Ctl!ReadCommand, Ctl!PollCpu, Ctl!CpuQuiet, Ctl!WriteRadio,
      Ctl!PollRadio, Ctl!RadioQuiet, Ctl!WriteCpu, Ctl!WriteRequestHeader,
      Ctl!WriteRequestBody, Ctl!ReadAnswer, Ctl!NotifyCpu, Ctl!sssLink
<1>3. ASSUME NEW c \in Boots, c # b
      PROVE  /\ ctlPc'[c] = ctlPc[c] /\ registered'[c] = registered[c]
             /\ cmd'[c] = cmd[c] /\ held'[c] = held[c]
             /\ reqOp'[c] = reqOp[c] /\ reply'[c] = reply[c]
             /\ cpuTx'[c] = cpuTx[c] /\ cpuRx'[c] = cpuRx[c] /\ antRx'[c] = antRx[c]
  BY <1>3, TypesInPlace, QueuesInPlace
  DEF ControllerStep, Ctl!Step, Ctl!ReadCommand, Ctl!PollCpu, Ctl!CpuQuiet, Ctl!WriteRadio,
      Ctl!PollRadio, Ctl!RadioQuiet, Ctl!WriteCpu, Ctl!WriteRequestHeader,
      Ctl!WriteRequestBody, Ctl!ReadAnswer, Ctl!NotifyCpu, Ctl!avail, Ctl!read_msg,
      Ctl!send_msg, Ctl!Goto, Ctl!handle_registration, Ctl!ports, Ctl!sssLink
<1> QED BY <1>1, <1>2, <1>3 DEF SameAt, cpuVars

\* The first message of a program that has asked for op: the request itself,
\* when it is the only one, or a message to another SED.
LEMMA AskedTaken ==
    ASSUME IInv, NEW b \in Boots, NEW op \in Ops, Asked(b, op), cpuTx[b] # <<>>
    PROVE  LET m == Head(cpuTx[b])
               rest == Tail(cpuTx[b])
           IN  \/ m.tgt = SSS_ID /\ m.data = op /\ rest = <<>>
               \/ /\ m.tgt # SSS_ID /\ rest # <<>>
                  /\ rest[Len(rest)] = packet(SSS_ID, IdOf[b], op)
                  /\ NoneTo(rest, Len(rest) - 1)
<1> DEFINE s == cpuTx[b]
<1>1. s \in Seq(Msg) /\ s # <<>> BY QueuesInPlace DEF IInv
<1>2. s[Len(s)] = packet(SSS_ID, IdOf[b], op) /\ NoneTo(s, Len(s) - 1) BY DEF Asked
<1>3. /\ Len(s) \in Nat \ {0} /\ Head(s) = s[1]
      /\ Len(Tail(s)) = Len(s) - 1
      /\ \A i \in 1..(Len(s) - 1) : Tail(s)[i] = s[i + 1]
      /\ Tail(s) = <<>> <=> Len(s) = 1
  BY <1>1, TakeFirst
<1> HIDE DEF s
<1>4. CASE Len(s) = 1 BY <1>2, <1>3, <1>4 DEF packet, s
<1>5. CASE Len(s) # 1
  <2>1. Head(s).tgt # SSS_ID BY <1>2, <1>3, <1>5 DEF NoneTo
  <2>2. Tail(s)[Len(s) - 1] = s[Len(s)] BY <1>3, <1>5
  <2>3. NoneTo(Tail(s), Len(s) - 2) BY <1>2, <1>3, <1>5 DEF NoneTo
  <2> QED BY <1>2, <1>3, <1>5, <2>1, <2>2, <2>3 DEF s
<1> QED BY <1>4, <1>5

\* A message is taken from the CPU.
LEMMA TakenTalk ==
    ASSUME IInv, NEW b \in Boots, ControllerStep(b), Ctl!ReadCommand(b) \/ Ctl!PollCpu(b)
    PROVE  Talk(b)'
<1> USE DEF IInv
<1> DEFINE m == Head(cpuTx[b])
<1>1. /\ Live(b) /\ Live(b)' /\ UNCHANGED <<cpuPc, app, ret, link, devs, closed, oldIds>>
      /\ UNCHANGED <<registered, cpuRx, antRx, reqOp, reply>>
  BY OneController
  DEF cpuVars, sssVars, Live, Ctl!ReadCommand, Ctl!PollCpu, Ctl!sssLink
<1>2. /\ ctlPc[b] \in {"outer", "cpu"} /\ cpuTx[b] # <<>> /\ cpuTx'[b] = Tail(cpuTx[b])
      /\ cmd[b] = None /\ reply[b] = None
      /\ ctlPc[b] = "outer" <=> ~registered[b]
  BY TypesInPlace, QueuesInPlace, ControllerInPlace
  DEF Ctl!ReadCommand, Ctl!PollCpu, Ctl!avail, Ctl!read_msg
<1>3. \/ m.tgt = SSS_ID /\ m.data \in Ops /\ ctlPc'[b] = "sssHdr" /\ cmd'[b] = m.data
      \/ /\ m.tgt # SSS_ID \/ m.data \notin Ops
         /\ ctlPc'[b] \in {"outer", "cpu", "toRadio"} /\ cmd'[b] = None
  BY <1>2, TypesInPlace, CtlWords
  DEF Ctl!ReadCommand, Ctl!PollCpu, Ctl!handle_registration, Ctl!Goto
<1> HIDE DEF m
<1>4. Fresh(b)' /\ AirIsNotSss(b)'
  BY <1>1, <1>3 DEF Talk, Fresh, Live, AirIsNotSss, NoneFrom
<1>5. Agreed(b)'
  <2>1. Said(b) = None /\ Said(b)' = None BY <1>1, <1>2, <1>3 DEF Said
  <2>2. cmd'[b] \in Ops \cup {None} BY <1>3
  <2> QED
    BY <1>1, <1>2, <1>3, <2>1, <2>2
    DEF Talk, Agreed, Granted, Sss!Doomed, Ops, REG, DEREG, ALREADY, None
<1>6. ASSUME NEW op \in Ops, Asked(b, op) PROVE Asked(b, op)'
  BY <1>1, <1>2, <1>3, <1>6, AskedTaken DEF Asked, NoneTo, NoneFrom, m
<1>7. ASSUME Relayed(b) PROVE Relayed(b)'
  <2>1. cpuTx[b] \in Seq(Msg) BY QueuesInPlace
  <2>2. NoneTo(cpuTx[b], Len(cpuTx[b])) /\ cmd[b] = None BY <1>7 DEF Relayed
  <2>3. m.tgt # SSS_ID /\ NoneTo(Tail(cpuTx[b]), Len(Tail(cpuTx[b])))
    BY <1>2, <2>1, <2>2, TakeFirst DEF NoneTo, m
  <2> QED BY <1>1, <1>2, <1>3, <1>7, <2>3 DEF Relayed, NoneTo, NoneFrom
<1>8. ~Quiet(b) /\ ~RegTold(b) /\ ~DeregTold(b) BY <1>2 DEF Quiet, RegTold, DeregTold
<1>9. RegAsked(b) => RegAsked(b)' BY <1>1, <1>6 DEF RegAsked, Ops
<1>10. Conversation(b)'
  BY <1>1, <1>6, <1>7, <1>8, <1>9 DEF Talk, Conversation, Places, Ops
<1> QED BY <1>4, <1>5, <1>10 DEF Talk

\* The controller polls, and passes messages on to the radio.
LEMMA PollingTalk ==
    ASSUME IInv, NEW b \in Boots, ControllerStep(b),
           Ctl!CpuQuiet(b) \/ Ctl!PollRadio(b) \/ Ctl!RadioQuiet(b) \/ Ctl!WriteRadio(b)
    PROVE  Talk(b)'
<1> USE DEF IInv
<1>1. /\ Live(b) /\ Live(b)' /\ UNCHANGED <<cpuPc, app, ret, link, devs, closed, oldIds>>
      /\ UNCHANGED <<registered, cmd, cpuTx, cpuRx, reqOp, reply>>
  BY OneController
  DEF cpuVars, sssVars, Live, Ctl!CpuQuiet, Ctl!PollRadio, Ctl!RadioQuiet, Ctl!WriteRadio,
      Ctl!sssLink, Ctl!ports
<1>2. /\ ctlPc[b] \in {"cpu", "radio", "toRadio"} /\ registered[b] /\ cmd[b] = None
      /\ ctlPc'[b] \in {"cpu", "radio", "toCpu"}
  BY TypesInPlace, ControllerInPlace
  DEF Ctl!CpuQuiet, Ctl!PollRadio, Ctl!RadioQuiet, Ctl!WriteRadio, Ctl!Goto
<1>3. \/ antRx'[b] = antRx[b] /\ ctlPc'[b] # "toCpu"
      \/ /\ antRx[b] # <<>> /\ antRx'[b] = Tail(antRx[b])
         /\ ctlPc'[b] = "toCpu" => held'[b] = Head(antRx[b])
  BY TypesInPlace, QueuesInPlace
  DEF Ctl!CpuQuiet, Ctl!PollRadio, Ctl!RadioQuiet, Ctl!WriteRadio, Ctl!Goto, Ctl!ports,
      Ctl!avail, Ctl!read_msg
<1>4. AirIsNotSss(b)'
  <2>1. antRx[b] \in Seq(Msg) /\ NoneFrom(antRx[b], Len(antRx[b]))
    BY QueuesInPlace DEF Talk, AirIsNotSss
  <2>2. antRx[b] # <<>> =>
          NoneFrom(Tail(antRx[b]), Len(Tail(antRx[b]))) /\ Head(antRx[b]).src # SSS_ID
    BY <2>1, TakeFirst DEF NoneFrom
  <2> QED BY <1>3, <2>1, <2>2 DEF AirIsNotSss, NoneFrom
<1>5. Fresh(b)' BY <1>1, <1>2 DEF Talk, Fresh, Live
<1>6. Agreed(b)'
  BY <1>1, <1>2 DEF Talk, Agreed, Said, Granted, Sss!Doomed
<1>7. Conversation(b)'
  BY <1>1, <1>2
  DEF Talk, Conversation, Places, Quiet, Relayed, RegAsked, RegTold, Asked, DeregTold,
      NoneTo, NoneFrom
<1> QED BY <1>4, <1>5, <1>6, <1>7 DEF Talk

\* A message of another SED is passed on to the CPU.
LEMMA PassedOnTalk ==
    ASSUME IInv, NEW b \in Boots, ControllerStep(b), Ctl!WriteCpu(b)
    PROVE  Talk(b)'
<1> USE DEF IInv
<1> DEFINE m == Ctl!for_cpu(b, held[b])
           s == cpuRx[b]
<1>1. /\ Live(b) /\ Live(b)' /\ UNCHANGED <<cpuPc, app, ret, link, devs, closed, oldIds>>
      /\ UNCHANGED <<registered, cmd, cpuTx, antRx, reqOp, reply>>
  BY OneController DEF cpuVars, sssVars, Live, Ctl!WriteCpu, Ctl!sssLink
<1>2. /\ ctlPc[b] = "toCpu" /\ registered[b] /\ cmd[b] = None /\ ctlPc'[b] = "cpu"
      /\ cpuRx'[b] = Append(s, m) /\ held[b] \in Msg /\ held[b].src # SSS_ID
  BY TypesInPlace, QueuesInPlace, ControllerInPlace
  DEF Talk, AirIsNotSss, Ctl!WriteCpu, Ctl!Goto, Ctl!send_msg
<1>3. m \in Msg /\ m.src # SSS_ID
  BY <1>2, ScewlAssumption, CtlWords
  DEF Ctl!for_cpu, packet, Msg, Ids, SSS_ID, FAA_ID, BRDCST_ID
<1>4. s \in Seq(Msg) BY QueuesInPlace
<1> HIDE DEF m
<1>5. Append(s, m) # <<>> /\ (NoneFrom(s, Len(s)) => NoneFrom(Append(s, m), Len(Append(s, m))))
  BY <1>3, <1>4, PutLast DEF NoneFrom
<1>6. ASSUME s # <<>>, NoneFrom(Tail(s), Len(s) - 1)
      PROVE  /\ Head(Append(s, m)) = Head(s)
             /\ NoneFrom(Tail(Append(s, m)), Len(Append(s, m)) - 1)
  <2>1. /\ Len(s) \in Nat \ {0} /\ Head(s) = s[1]
        /\ \A i \in 1..(Len(s) - 1) : Tail(s)[i] = s[i + 1]
    BY <1>4, <1>6, TakeFirst
  <2>2. /\ Append(s, m) \in Seq(Msg) /\ Len(Append(s, m)) = Len(s) + 1
        /\ Append(s, m)[Len(s) + 1] = m
        /\ \A i \in 1..Len(s) : Append(s, m)[i] = s[i]
    BY <1>3, <1>4, PutLast
  <2>3. /\ Head(Append(s, m)) = Append(s, m)[1]
        /\ \A i \in 1..Len(s) : Tail(Append(s, m))[i] = Append(s, m)[i + 1]
    BY <1>5, <2>1, <2>2, TakeFirst
  <2>4. \A i \in 1..(Len(s) - 1) : s[i + 1].src # SSS_ID BY <1>6, <2>1 DEF NoneFrom
  <2>5. ASSUME NEW i \in 1..Len(s) PROVE Tail(Append(s, m))[i].src # SSS_ID
    <3>1. CASE i = Len(s) BY <1>3, <2>2, <2>3, <3>1
    <3>2. CASE i # Len(s)
      <4>1. i \in 1..(Len(s) - 1) /\ i + 1 \in 1..Len(s) BY <2>1, <3>2
      <4> QED BY <2>2, <2>3, <2>4, <4>1
    <3> QED BY <3>1, <3>2
  <2> QED BY <2>1, <2>2, <2>3, <2>5 DEF NoneFrom
<1> HIDE DEF s
<1>7. Fresh(b)' /\ AirIsNotSss(b)'
  BY <1>1, <1>2 DEF Talk, Fresh, Live, AirIsNotSss, NoneFrom
<1>8. Agreed(b)'
  BY <1>1, <1>2 DEF Talk, Agreed, Said, Granted, Sss!Doomed
<1>9. Relayed(b) => Relayed(b)' BY <1>1, <1>2, <1>5 DEF Relayed, NoneTo, NoneFrom, s
<1>10. Asked(b, DEREG) => Asked(b, DEREG)' BY <1>1, <1>2, <1>5 DEF Asked, NoneTo, NoneFrom, s
<1>11. RegTold(b) => RegTold(b)' BY <1>1, <1>2, <1>5, <1>6 DEF RegTold, NoneFrom, s
<1>12. ~Quiet(b) /\ ~RegAsked(b) /\ ~DeregTold(b) BY <1>2 DEF Quiet, RegAsked, DeregTold
<1>13. Conversation(b)'
  BY <1>1, <1>9, <1>10, <1>11, <1>12 DEF Talk, Conversation, Places
<1> QED BY <1>7, <1>8, <1>13 DEF Talk

\* The request is written, and its answer read.
LEMMA DialogueTalk ==
    ASSUME IInv, NEW b \in Boots, ControllerStep(b),
           Ctl!WriteRequestHeader(b) \/ Ctl!WriteRequestBody(b) \/ Ctl!ReadAnswer(b)
    PROVE  Talk(b)'
<1> USE DEF IInv
<1>1. /\ Live(b) /\ Live(b)' /\ UNCHANGED <<cpuPc, app, ret, link, devs, closed, oldIds>>
      /\ UNCHANGED <<registered, cmd, cpuTx, cpuRx, antRx>>
  BY OneController
  DEF cpuVars, sssVars, Live, Ctl!WriteRequestHeader, Ctl!WriteRequestBody, Ctl!ReadAnswer,
      Ctl!ports
<1>2. /\ ctlPc[b] \in {"sssHdr", "sssBody", "sssWait"}
      /\ ctlPc'[b] \in {"sssBody", "sssWait", "notify"}
      /\ cmd[b] \in Ops
  BY TypesInPlace, ControllerInPlace
  DEF Ctl!WriteRequestHeader, Ctl!WriteRequestBody, Ctl!ReadAnswer, Ctl!Goto
<1>3. /\ Said(b)' = Said(b)
      /\ ctlPc'[b] \in {"sssBody", "sssWait"} => reqOp'[b] = cmd[b]
  <2>1. CASE Ctl!WriteRequestHeader(b)
    BY <2>1, TypesInPlace DEF Ctl!WriteRequestHeader, Ctl!Goto, Said
  <2>2. CASE Ctl!WriteRequestBody(b)
    BY <1>1, <2>2, TypesInPlace DEF Ctl!WriteRequestBody, Ctl!Goto, Said, Talk, Agreed
  <2>3. CASE Ctl!ReadAnswer(b)
    BY <2>3, TypesInPlace, CtlWords DEF Ctl!ReadAnswer, Ctl!Goto, Said, packet
  <2> QED BY <2>1, <2>2, <2>3
<1>4. Fresh(b)' /\ AirIsNotSss(b)'
  BY <1>1, <1>2 DEF Talk, Fresh, Live, AirIsNotSss, NoneFrom
<1>5. Agreed(b)'
  BY <1>1, <1>3 DEF Talk, Agreed, Granted, Sss!Doomed
<1>6. cmd[b] # None BY <1>2 DEF Ops, REG, DEREG, None
<1>7. Conversation(b)'
  BY <1>1, <1>2, <1>6
  DEF Talk, Conversation, Places, Quiet, Relayed, RegAsked, RegTold, Asked, DeregTold,
      NoneTo, NoneFrom
<1> QED BY <1>4, <1>5, <1>7 DEF Talk

\* The answer is passed on to the CPU.
LEMMA NotifyTalk ==
    ASSUME IInv, NEW b \in Boots, ControllerStep(b), Ctl!NotifyCpu(b)
    PROVE  Talk(b)'
<1> USE DEF IInv
<1> DEFINE answer == held[b].data
           s == cpuRx[b]
<1>1. /\ Live(b) /\ Live(b)' /\ UNCHANGED <<cpuPc, app, ret, link, devs, closed, oldIds>>
      /\ UNCHANGED <<cpuTx, antRx, reqOp, reply>>
  BY OneController DEF cpuVars, sssVars, Live, Ctl!NotifyCpu, Ctl!sssLink
<1>2. /\ ctlPc[b] = "notify" /\ cmd[b] \in Ops /\ held[b] \in Msg /\ held[b].src = SSS_ID
      /\ reply[b] = None
  BY TypesInPlace, ControllerInPlace DEF Ctl!NotifyCpu, packet
<1>3. /\ cmd'[b] = None /\ cpuRx'[b] = Append(s, held[b])
      /\ registered'[b] = IF cmd[b] = REG /\ answer = REG THEN TRUE
                          ELSE IF cmd[b] = DEREG /\ answer = DEREG THEN FALSE
                          ELSE registered[b]
      /\ ctlPc'[b] = IF registered'[b] THEN "cpu" ELSE "outer"
  BY TypesInPlace, QueuesInPlace, CtlWords
  DEF Ctl!NotifyCpu, Ctl!Goto, Ctl!send_msg, Ctl!after
<1>4. Said(b) = answer /\ Said(b)' = None BY <1>1, <1>2, <1>3 DEF Said
<1>5. /\ answer \in {cmd[b], ALREADY}
      /\ answer \in Ops => Granted(b, answer)
      /\ registered[b] /\ cmd[b] = DEREG => answer # ALREADY
      /\ registered[b] /\ cmd[b] # DEREG => Granted(b, REG)
      /\ devs[IdOf[b]] = [status |-> REG, csock |-> b] => registered[b] \/ (cmd[b] = REG /\ answer = REG)
  <2>1. answer \in Data BY <1>2 DEF Msg
  <2> QED BY <1>1, <1>2, <1>4, <2>1 DEF Talk, Agreed, Data, Ops, REG, DEREG, ALREADY, None
<1>6. \A op : Granted(b, op)' <=> Granted(b, op) BY <1>1 DEF Granted, Sss!Doomed
<1>7. Granted(b, DEREG) => devs[IdOf[b]] # [status |-> REG, csock |-> b]
  <2>1. \A c \in closed : link[c] = "closed"
    BY DEF Parts, SssP!IInv, SssP!Home, SssP!ClosedIsDead
  <2>2. b \notin closed BY <1>1, <2>1 DEF Live
  <2> QED BY <2>2 DEF Granted, Sss!Doomed, REG, DEREG
<1> HIDE DEF answer
<1>8. Fresh(b)' /\ AirIsNotSss(b)'
  BY <1>1, <1>3 DEF Talk, Fresh, Live, AirIsNotSss, NoneFrom
<1>9. Agreed(b)'
  <2>1. registered'[b] => Granted(b, REG)
    BY <1>2, <1>3, <1>5 DEF Ops, REG, DEREG, ALREADY
  <2>2. devs'[IdOf[b]] = [status |-> REG, csock |-> b] => registered'[b]
    BY <1>1, <1>3, <1>5, <1>7 DEF Ops, REG, DEREG
  <2>3. cmd'[b] # DEREG /\ None \notin Ops BY <1>3 DEF Ops, REG, DEREG, None
  <2> QED BY <1>3, <1>4, <1>6, <2>1, <2>2, <2>3 DEF Agreed
<1>10. cmd[b] # None BY <1>2 DEF Ops, REG, DEREG, None
<1>11. s \in Seq(Msg) BY QueuesInPlace
<1>12. /\ Append(s, held[b]) \in Seq(Msg) /\ Append(s, held[b]) # <<>>
       /\ Len(s) \in Nat /\ Len(Append(s, held[b])) = Len(s) + 1
       /\ Append(s, held[b])[Len(s) + 1] = held[b]
       /\ \A i \in 1..Len(s) : Append(s, held[b])[i] = s[i]
  BY <1>2, <1>11, PutLast
<1>13. RegAsked(b) => RegTold(b)'
  <2> SUFFICES ASSUME RegAsked(b) PROVE RegTold(b)' OBVIOUS
  <2>1. cmd[b] = REG /\ cpuTx[b] = <<>> /\ ~registered[b] /\ s = <<>>
    BY <1>10 DEF RegAsked, Asked
  <2>2. Len(s) = 0 /\ Head(Append(s, held[b])) = held[b]
    BY <1>12, <2>1, TakeFirst, EmptySeq
  <2>3. registered'[b] <=> answer = REG BY <1>3, <2>1 DEF REG, DEREG
  <2> QED
    BY <1>1, <1>3, <1>12, <2>1, <2>2, <2>3 DEF RegTold, NoneFrom, answer
<1>14. Asked(b, DEREG) => DeregTold(b)'
  <2> SUFFICES ASSUME Asked(b, DEREG) PROVE DeregTold(b)' OBVIOUS
  <2>1. cmd[b] = DEREG /\ cpuTx[b] = <<>> /\ NoneFrom(s, Len(s)) BY <1>10 DEF Asked
  <2>2. ~registered'[b]
    BY <1>3, <1>5, <2>1, TypesInPlace DEF REG, DEREG, ALREADY
  <2>3. answer = DEREG => Granted(b, DEREG)' BY <1>5, <1>6 DEF Ops
  <2> QED
    BY <1>1, <1>2, <1>3, <1>12, <2>1, <2>2, <2>3 DEF DeregTold, NoneFrom, answer
<1>15. Conversation(b)'
  BY <1>1, <1>2, <1>10, <1>13, <1>14
  DEF Talk, Conversation, Places, Quiet, Relayed, RegTold, DeregTold
<1> QED BY <1>8, <1>9, <1>15 DEF Talk

LEMMA ControllerTalk ==
    ASSUME IInv, NEW b \in Boots, ControllerStep(b), NEW c \in Boots
    PROVE  Talk(c)'
<1>1. CASE c # b
  BY <1>1, OneController, Untouched DEF IInv, sssVars
<1>2. CASE c = b
  BY <1>2, TakenTalk, PollingTalk, PassedOnTalk, DialogueTalk, NotifyTalk
  DEF ControllerStep, Ctl!Step
<1> QED BY <1>1, <1>2

-----------------------------------------------------------------------------
(* The programs.                                                           *)

\* A program's step is its own, and keeps its variables in their types.
LEMMA OneProgram ==
    ASSUME ProgramTypeOK, NEW b \in Boots, ProgramStep(b) \/ ProgramDies(b)
    PROVE  /\ ProgramTypeOK'
           /\ cpuPc[b] \notin {"off", "dead"} /\ cpuPc'[b] # "off"
           /\ \A c \in Boots : c # b =>
                 cpuPc'[c] = cpuPc[c] /\ ret'[c] = ret[c] /\ app'[c] = app[c]
<1> USE DEF ProgramTypeOK, Prg!TypeOK, Prg!Results, Prg!Purposes
<1>1. CASE ProgramDies(b) \/ Prg!Frame(b) \/ Prg!Leave(b)
  BY <1>1, PrgWords
  DEF ProgramDies, Prg!CpuDies, Prg!Ends, Prg!Frame, Prg!FirstRegister, Prg!Recover,
      Prg!RegisterAgain, Prg!Exit, Prg!Leave, Prg!CallRegister, Prg!CallDeregister, Prg!Goto,
      Prg!Move, Prg!At, Prg!Working
<1>2. CASE Exchange(b)
  BY <1>2, PrgWords
  DEF Exchange, Prg!CallRecv, Prg!CallSend, Prg!Goto, Prg!Return, Prg!Move
<1>3. CASE Prg!InCall(b)
  <2>1. UNCHANGED app /\ cpuPc[b] \notin {"off", "dead"} BY <1>3
    DEF Prg!InCall, Prg!Step, Prg!SigPipe, Prg!SendRegister, Prg!RecvRegister,
        Prg!RecvRegisterEof, Prg!SendDeregister, Prg!RecvDeregister, Prg!RecvDeregisterEof,
        Prg!Recv, Prg!RecvEof
  <2>2. \/ \E place \in {"regRecv", "deregRecv", "deregSkip", "spin", "dead"} : Prg!Goto(b, place)
        \/ \E value \in {"OK", "ALREADY", "NO_MSG", "MSG"} : Prg!Return(b, value)
    BY <1>3
    DEF Prg!InCall, Prg!Step, Prg!SigPipe, Prg!SendRegister, Prg!RecvRegister,
        Prg!RecvRegisterEof, Prg!SendDeregister, Prg!RecvDeregister, Prg!RecvDeregisterEof,
        Prg!Recv, Prg!RecvEof, Prg!register_result, Prg!deregister_result
  <2> QED BY <2>1, <2>2, PrgWords DEF Prg!Goto, Prg!Return
<1> QED BY <1>1, <1>2, <1>3 DEF ProgramStep, App

\* It is enough to follow the program's own conversation.
LEMMA OwnConversation ==
    ASSUME IInv, NEW b \in Boots, ProgramStep(b) \/ ProgramDies(b),
           Live(b) => Conversation(b)', NEW c \in Boots
    PROVE  Talk(c)'
<1> USE DEF IInv
<1>1. UNCHANGED <<link, ctlVars, antRx, reqOp, reply, sssVars>> BY ProgramAtPorts
<1>2. CASE c # b
  <2>1. cpuTx'[c] = cpuTx[c] /\ cpuRx'[c] = cpuRx[c]
    BY <1>2, ProgramAtPorts, QueuesInPlace DEF ReadOne, Wrote
  <2>2. SameAt(c) BY <1>1, <1>2, <2>1, OneProgram DEF SameAt, ctlVars
  <2> QED BY <1>1, <2>2, Untouched DEF sssVars
<1>3. CASE c = b
  <2>1. Fresh(b)' BY <1>1, OneProgram DEF Talk, Fresh, Live
  <2>2. AirIsNotSss(b)' /\ Agreed(b)'
    BY <1>1 DEF Talk, AirIsNotSss, NoneFrom, Agreed, Said, Granted, Sss!Doomed, Live, ctlVars, sssVars
  <2>3. Conversation(b)' BY <1>1 DEF Conversation, Live
  <2> QED BY <1>3, <2>1, <2>2, <2>3 DEF Talk
<1> QED BY <1>2, <1>3

\* What a program's step leaves alone at a live launch.
LEMMA ProgramLeaves ==
    ASSUME NEW b \in Boots, ProgramStep(b) \/ ProgramDies(b), Live(b)
    PROVE  /\ Live(b)' /\ UNCHANGED <<link, ctlPc, registered, cmd>>
           /\ \A op : Granted(b, op)' <=> Granted(b, op)
BY ProgramAtPorts DEF Live, Granted, Sss!Doomed, ctlVars, sssVars

\* The program calls, exits or dies.
LEMMA CallsTalk ==
    ASSUME IInv, NEW b \in Boots, ProgramStep(b) \/ ProgramDies(b), Live(b),
           ProgramDies(b) \/ Prg!Frame(b) \/ Prg!Leave(b)
    PROVE  Conversation(b)'
<1> USE DEF IInv
<1>1. UNCHANGED <<ctlPc, registered, cmd>> /\ \A op : Granted(b, op)' <=> Granted(b, op)
  BY ProgramLeaves
<1>2. UNCHANGED <<cpuTx, cpuRx>>
  BY DEF ProgramDies, Prg!CpuDies, Prg!Ends, Prg!Frame, Prg!FirstRegister, Prg!Recover,
      Prg!RegisterAgain, Prg!Exit, Prg!Leave, Prg!CallRegister, Prg!CallDeregister
<1>3. (Quiet(b) => Quiet(b)') /\ (Relayed(b) => Relayed(b)')
  BY <1>1, <1>2 DEF Quiet, Relayed, NoneTo, NoneFrom
<1>4. \/ cpuPc'[b] = "dead"
      \/ cpuPc'[b] = "regSend" /\ app'[b] \in {"first", "again"} /\ Quiet(b)
      \/ cpuPc'[b] = "deregSend" /\ app'[b] = "recover" /\ Quiet(b)
      \/ cpuPc'[b] = "deregSend" /\ app'[b] = "leave" /\ Relayed(b)
  <2>1. CASE ProgramDies(b) \/ Prg!Exit(b)
    BY <2>1 DEF ProgramDies, Prg!CpuDies, Prg!Ends, Prg!Exit, Prg!Goto, ProgramTypeOK, Prg!TypeOK
  <2>2. CASE Prg!FirstRegister(b) \/ Prg!RegisterAgain(b)
    BY <2>2
    DEF Prg!FirstRegister, Prg!RegisterAgain, Prg!CallRegister, Prg!At, Prg!Move, Prg!Goto,
        ProgramTypeOK, Prg!TypeOK, Talk, Conversation
  <2>3. CASE Prg!Recover(b)
    BY <2>3
    DEF Prg!Recover, Prg!CallDeregister, Prg!At, Prg!Move, Prg!Goto, ProgramTypeOK, Prg!TypeOK,
        Talk, Conversation
  <2>4. CASE Prg!Leave(b)
    BY <2>4
    DEF Prg!Leave, Prg!Working, Prg!CallDeregister, Prg!At, Prg!Move, Prg!Goto, ProgramTypeOK,
        Prg!TypeOK, Talk, Conversation
  <2> QED BY <2>1, <2>2, <2>3, <2>4 DEF Prg!Frame
<1> QED BY <1>3, <1>4 DEF Conversation, Places

\* The program exchanges messages with other SEDs.
LEMMA ExchangeTalk ==
    ASSUME IInv, NEW b \in Boots, ProgramStep(b), Live(b), Exchange(b) \/ Prg!Recv(b)
    PROVE  Conversation(b)'
<1> USE DEF IInv
<1>1. UNCHANGED <<ctlPc, registered, cmd>> BY ProgramLeaves
<1>2. cpuTx[b] \in Seq(Msg) /\ cpuRx[b] \in Seq(Msg) BY QueuesInPlace
<1>3. Relayed(b)
  BY DEF Exchange, Prg!Working, Prg!At, Prg!Recv, Talk, Conversation, Places
<1>4. app'[b] = "work" /\ cpuPc'[b] \in {"idle", "recv"} /\ (cpuPc'[b] = "idle" => ret'[b] # None)
  <2>1. CASE Exchange(b)
    BY <2>1, PrgWords
    DEF Exchange, Prg!CallRecv, Prg!CallSend, Prg!Goto, Prg!Return, Prg!Move, ProgramTypeOK,
        Prg!TypeOK, None
  <2>2. CASE Prg!Recv(b) /\ UNCHANGED app
    BY <2>2, PrgWords
    DEF Prg!Recv, Prg!Return, ProgramTypeOK, Prg!TypeOK, Talk, Conversation, Places, None
  <2> QED
    BY <2>1, <2>2
    DEF ProgramStep, App, Prg!InCall, Exchange, Prg!Recv, Prg!Frame, Prg!Leave,
        Prg!Working, Prg!At, Prg!FirstRegister, Prg!Recover, Prg!RegisterAgain, Prg!Exit
<1>5. \/ cpuTx'[b] = cpuTx[b] /\ cpuRx'[b] = cpuRx[b]
      \/ cpuTx'[b] = cpuTx[b] /\ cpuRx[b] # <<>> /\ cpuRx'[b] = Tail(cpuRx[b])
      \/ /\ cpuRx'[b] = cpuRx[b]
         /\ \E m \in SedMsgs : cpuTx'[b] = Append(cpuTx[b], packet(m.tgt, IdOf[b], m.data))
  BY PrgWords, QueuesInPlace
  DEF Exchange, Prg!CallRecv, Prg!CallSend, Prg!scewl_send, Prg!Recv, Prg!Delivered, Prg!Consume
<1>6. ASSUME NEW m \in SedMsgs
      PROVE  /\ packet(m.tgt, IdOf[b], m.data) \in Msg
             /\ packet(m.tgt, IdOf[b], m.data).tgt # SSS_ID
  BY RegistrationAssumption, ScewlAssumption DEF packet, Msg, Ids
<1>7. NoneTo(cpuTx[b], Len(cpuTx[b])) /\ NoneFrom(cpuRx[b], Len(cpuRx[b])) BY <1>3 DEF Relayed
<1>8. NoneTo(cpuTx'[b], Len(cpuTx'[b]))
  BY <1>2, <1>5, <1>6, <1>7, StillNoneTo
<1>9. NoneFrom(cpuRx'[b], Len(cpuRx'[b]))
  BY <1>2, <1>5, <1>7, StillNoneFrom
<1>10. Relayed(b)' BY <1>1, <1>3, <1>8, <1>9 DEF Relayed, NoneTo, NoneFrom
<1> QED BY <1>4, <1>10 DEF Conversation, Places

\* The program registers.
LEMMA RegisterTalk ==
    ASSUME IInv, NEW b \in Boots, ProgramStep(b), Live(b),
           Prg!SendRegister(b) \/ Prg!RecvRegister(b), UNCHANGED app
    PROVE  Conversation(b)'
<1> USE DEF IInv
<1>1. UNCHANGED <<ctlPc, registered, cmd>> BY ProgramLeaves
<1>2. cpuTx[b] \in Seq(Msg) /\ cpuRx[b] \in Seq(Msg) BY QueuesInPlace
<1>3. app'[b] \in {"first", "again"}
  BY DEF Prg!SendRegister, Prg!RecvRegister, Talk, Conversation, Places
<1>4. CASE Prg!SendRegister(b)
  <2>1. /\ Quiet(b) /\ cpuPc'[b] = "regRecv" /\ cpuRx'[b] = cpuRx[b]
        /\ cpuTx'[b] = Append(cpuTx[b], packet(SSS_ID, IdOf[b], REG))
    BY <1>4, PrgWords, QueuesInPlace
    DEF Prg!SendRegister, Prg!scewl_send, Prg!Goto, ProgramTypeOK, Prg!TypeOK, Talk, Conversation
  <2>2. ~registered[b] /\ cmd[b] = None BY <2>1, ControllerInPlace DEF Quiet
  <2>3. packet(SSS_ID, IdOf[b], REG) \in Msg
    BY ScewlAssumption DEF packet, Msg, Ids, Data
  <2>4. /\ cpuTx'[b] # <<>> /\ Len(cpuTx'[b]) = 1
        /\ cpuTx'[b][1] = packet(SSS_ID, IdOf[b], REG)
    BY <1>2, <2>1, <2>3, PutLast, EmptySeq DEF Quiet
  <2>5. Len(cpuRx'[b]) = 0 BY <2>1, EmptySeq DEF Quiet
  <2>6. RegAsked(b)'
    BY <1>1, <2>1, <2>2, <2>4, <2>5 DEF RegAsked, Asked, Quiet, NoneTo, NoneFrom
  <2> QED BY <1>3, <2>1, <2>6 DEF Conversation, Places
<1>5. CASE Prg!RecvRegister(b)
  <2>1. /\ cpuRx[b] # <<>> /\ cpuRx'[b] = Tail(cpuRx[b]) /\ cpuTx'[b] = cpuTx[b]
        /\ cpuPc[b] = "regRecv" /\ cpuPc'[b] = "idle"
        /\ ret'[b] = "OK" <=> Head(cpuRx[b]).data = REG
    BY <1>5, PrgWords, QueuesInPlace
    DEF Prg!RecvRegister, Prg!Return, Prg!Delivered, Prg!Consume, Prg!register_result,
        ProgramTypeOK, Prg!TypeOK
  <2>2. RegTold(b) BY <2>1 DEF Talk, Conversation, RegAsked
  <2>3. ASSUME registered[b] PROVE Relayed(b)' /\ ret'[b] = "OK"
    <3>1. Len(cpuTx[b]) = 0 /\ Len(Tail(cpuRx[b])) = Len(cpuRx[b]) - 1
      BY <1>2, <2>1, <2>2, TakeFirst, EmptySeq DEF RegTold
    <3> QED
      BY <1>1, <2>1, <2>2, <2>3, <3>1 DEF RegTold, Relayed, NoneTo, NoneFrom
  <2>4. ASSUME ~registered[b] PROVE Quiet(b)' /\ ret'[b] # "OK"
    <3>1. ctlPc[b] = "outer"
      BY <2>2, <2>4, TypesInPlace, ControllerInPlace DEF RegTold, Ops, REG, DEREG, None
    <3>2. Tail(cpuRx[b]) = <<>> BY <1>2, <2>1, <2>2, <2>4, TakeFirst DEF RegTold
    <3> QED BY <1>1, <2>1, <2>2, <2>4, <3>1, <3>2 DEF RegTold, Quiet
  <2> QED BY <1>3, <2>1, <2>3, <2>4 DEF Conversation, Places
<1> QED BY <1>4, <1>5

\* The program deregisters.
LEMMA DeregisterTalk ==
    ASSUME IInv, NEW b \in Boots, ProgramStep(b), Live(b),
           Prg!SendDeregister(b) \/ Prg!RecvDeregister(b), UNCHANGED app
    PROVE  Conversation(b)'
<1> USE DEF IInv
<1>1. UNCHANGED <<ctlPc, registered, cmd>> /\ \A op : Granted(b, op)' <=> Granted(b, op)
  BY ProgramLeaves
<1>2. cpuTx[b] \in Seq(Msg) /\ cpuRx[b] \in Seq(Msg) BY QueuesInPlace
<1>3. app'[b] \in {"recover", "leave"}
  BY DEF Prg!SendDeregister, Prg!RecvDeregister, Talk, Conversation, Places
<1>4. CASE Prg!SendDeregister(b)
  <2> DEFINE request == packet(SSS_ID, IdOf[b], DEREG)
  <2>1. /\ Quiet(b) \/ Relayed(b)
        /\ cpuPc'[b] = "deregRecv" /\ cpuRx'[b] = cpuRx[b]
        /\ cpuTx'[b] = Append(cpuTx[b], request)
    BY <1>4, PrgWords, QueuesInPlace
    DEF Prg!SendDeregister, Prg!scewl_send, Prg!Goto, ProgramTypeOK, Prg!TypeOK, Talk, Conversation
  <2>2. /\ cmd[b] = None
        /\ NoneTo(cpuTx[b], Len(cpuTx[b])) /\ NoneFrom(cpuRx[b], Len(cpuRx[b]))
    <3>1. CASE Quiet(b) BY <3>1, ControllerInPlace, EmptySeq DEF Quiet, NoneTo, NoneFrom
    <3>2. CASE Relayed(b) BY <3>2 DEF Relayed
    <3> QED BY <2>1, <3>1, <3>2
  <2>3. request \in Msg BY ScewlAssumption DEF packet, Msg, Ids, Data
  <2> HIDE DEF request
  <2>4. /\ cpuTx'[b] # <<>> /\ Len(cpuTx'[b]) = Len(cpuTx[b]) + 1 /\ Len(cpuTx[b]) \in Nat
        /\ cpuTx'[b][Len(cpuTx[b]) + 1] = request
        /\ \A i \in 1..Len(cpuTx[b]) : cpuTx'[b][i] = cpuTx[b][i]
    BY <1>2, <2>1, <2>3, PutLast
  <2>5. Asked(b, DEREG)'
    BY <1>1, <2>1, <2>2, <2>4 DEF Asked, NoneTo, NoneFrom, request
  <2> QED BY <1>3, <2>1, <2>5 DEF Conversation, Places
<1>5. CASE Prg!RecvDeregister(b)
  <2> DEFINE s == cpuRx[b]
  <2>1. /\ s # <<>> /\ cpuRx'[b] = Tail(s) /\ cpuTx'[b] = cpuTx[b]
        /\ cpuPc[b] \in {"deregRecv", "deregSkip"}
        /\ IF Head(s).src = SSS_ID
           THEN cpuPc'[b] = "idle" /\ (ret'[b] = "OK" <=> Head(s).data = DEREG)
           ELSE cpuPc'[b] = "deregSkip"
    BY <1>5, PrgWords, QueuesInPlace
    DEF Prg!RecvDeregister, Prg!Return, Prg!Goto, Prg!Delivered, Prg!Consume,
        Prg!deregister_result, ProgramTypeOK, Prg!TypeOK
  <2>2. /\ Len(s) \in Nat \ {0} /\ Head(s) = s[1] /\ Len(Tail(s)) = Len(s) - 1
        /\ \A i \in 1..(Len(s) - 1) : Tail(s)[i] = s[i + 1]
        /\ Tail(s) = <<>> <=> Len(s) = 1
    BY <1>2, <2>1, TakeFirst
  <2> HIDE DEF s
  <2>3. CASE Asked(b, DEREG)
    <3>1. NoneFrom(s, Len(s)) BY <2>3 DEF Asked, s
    <3>2. Head(s).src # SSS_ID /\ NoneFrom(Tail(s), Len(Tail(s)))
      BY <2>2, <3>1 DEF NoneFrom
    <3>3. Asked(b, DEREG)' BY <1>1, <2>1, <2>3, <3>2 DEF Asked, NoneTo, NoneFrom
    <3> QED BY <1>3, <2>1, <3>2, <3>3 DEF Conversation, Places
  <2>4. CASE DeregTold(b)
    <3>1. /\ ctlPc[b] = "outer" /\ cpuTx[b] = <<>> /\ s[Len(s)].src = SSS_ID
          /\ s[Len(s)].data = DEREG => Granted(b, DEREG)
          /\ NoneFrom(s, Len(s) - 1)
      BY <2>4 DEF DeregTold, s
    <3>2. CASE Len(s) = 1
      <4>1. Quiet(b)' BY <1>1, <2>1, <2>2, <3>1, <3>2 DEF Quiet
      <4>2. cpuPc'[b] = "idle" /\ (ret'[b] = "OK" => Granted(b, DEREG)')
        BY <1>1, <2>1, <2>2, <3>1, <3>2
      <4> QED BY <1>3, <4>1, <4>2 DEF Conversation, Places
    <3>3. CASE Len(s) # 1
      <4>1. Head(s).src # SSS_ID BY <2>2, <3>1, <3>3 DEF NoneFrom
      <4>2. Tail(s)[Len(s) - 1] = s[Len(s)] /\ NoneFrom(Tail(s), Len(s) - 2)
        BY <2>2, <3>1, <3>3 DEF NoneFrom
      <4>3. DeregTold(b)'
        BY <1>1, <2>1, <2>2, <3>1, <3>3, <4>2 DEF DeregTold, NoneFrom
      <4> QED BY <1>3, <2>1, <4>1, <4>3 DEF Conversation, Places
    <3> QED BY <3>2, <3>3
  <2> QED BY <2>1, <2>3, <2>4 DEF Talk, Conversation
<1> QED BY <1>4, <1>5

LEMMA ProgramTalk ==
    ASSUME IInv, NEW b \in Boots, ProgramStep(b) \/ ProgramDies(b), NEW c \in Boots
    PROVE  Talk(c)'
<1>1. ASSUME Live(b) PROVE Conversation(b)'
  <2>1. CASE ProgramDies(b) \/ Prg!Frame(b) \/ Prg!Leave(b) BY <1>1, <2>1, CallsTalk
  <2>2. CASE ProgramStep(b) /\ Exchange(b) BY <1>1, <2>2, ExchangeTalk
  <2>3. CASE ProgramStep(b) /\ Prg!InCall(b)
    <3>1. UNCHANGED app /\ Prg!Step(b) BY <2>3 DEF Prg!InCall
    <3>2. ~(Prg!SigPipe(b) \/ Prg!RecvRegisterEof(b) \/ Prg!RecvDeregisterEof(b) \/ Prg!RecvEof(b))
      BY <1>1 DEF Live, Prg!SigPipe, Prg!RecvRegisterEof, Prg!RecvDeregisterEof, Prg!RecvEof, Prg!Eof
    <3> QED
      BY <1>1, <2>3, <3>1, <3>2, ExchangeTalk, RegisterTalk, DeregisterTalk DEF Prg!Step
  <2> QED BY <2>1, <2>2, <2>3 DEF ProgramStep, App
<1> QED BY <1>1, OwnConversation

-----------------------------------------------------------------------------
(* The invariant is established and kept.                                  *)

LEMMA InitIInv == Init => IInv
<1> SUFFICES ASSUME Init PROVE IInv OBVIOUS
<1>1. Parts BY InitParts
<1>2. ProgramTypeOK
  BY PrgWords
  DEF Init, Prg!ProgramInit, Prg!Init, ProgramTypeOK, Prg!TypeOK, Prg!Results, Prg!Purposes
<1>3. ASSUME NEW b \in Boots PROVE Talk(b)
  <2>1. /\ link[b] = "unused" /\ cpuPc[b] = "off" /\ app[b] = "boot" /\ ctlPc[b] = "outer"
        /\ cpuTx[b] = <<>> /\ cpuRx[b] = <<>> /\ antRx[b] = <<>>
    BY DEF Init, Prg!ProgramInit, Prg!Init, Ctl!CtlInit, Ctl!PortsInit, Ctl!LinkInit
  <2>2. Len(antRx[b]) = 0 BY <2>1, EmptySeq
  <2> QED
    BY <2>1, <2>2 DEF Talk, Fresh, AirIsNotSss, NoneFrom, Agreed, Conversation, Live
<1> QED BY <1>1, <1>2, <1>3 DEF IInv

LEMMA NextIInv == IInv /\ [Next]_vars => IInv'
<1> SUFFICES ASSUME IInv, [Next]_vars PROVE IInv' OBVIOUS
<1>1. Parts' BY NextParts DEF IInv
<1>2. ProgramTypeOK'
  <2>1. ASSUME NEW b \in Boots, Launch(b) PROVE ProgramTypeOK'
    BY <2>1 DEF IInv, ProgramTypeOK, Prg!TypeOK, Launch
  <2>2. ASSUME NEW b \in Boots, ProgramStep(b) \/ ProgramDies(b) PROVE ProgramTypeOK'
    BY <2>2, OneProgram DEF IInv
  <2>3. ASSUME UNCHANGED cpuVars PROVE ProgramTypeOK'
    BY <2>3 DEF IInv, ProgramTypeOK, Prg!TypeOK, cpuVars
  <2> QED
    BY <2>1, <2>2, <2>3
    DEF Next, vars, cpuVars, SssStep, KillController, ControllerDies, ControllerStep,
        OutputDropped, Air
<1>3. ASSUME NEW c \in Boots PROVE Talk(c)'
  <2>1. CASE UNCHANGED vars BY <2>1, Untouched DEF IInv, vars, SameAt
  <2>2. CASE SssStep BY <2>2, SssTalk
  <2>3. ASSUME NEW b \in Boots,
               \/ Launch(b) \/ KillController(b) \/ ControllerDies(b)
               \/ ProgramStep(b) \/ ProgramDies(b)
               \/ ControllerStep(b) \/ OutputDropped(b) \/ Air(b)
        PROVE  Talk(c)'
    BY <2>3, LaunchTalk, EndTalk, ProgramTalk, ControllerTalk, AirTalk
  <2> QED BY <2>1, <2>2, <2>3 DEF Next
<1> QED BY <1>1, <1>2, <1>3 DEF IInv

LEMMA SpecIInv == Spec => []IInv
BY InitIInv, NextIInv, PTL DEF Spec

-----------------------------------------------------------------------------
(* What follows from it.                                                   *)

\* Every variable of the programs, the controllers and the SSS keeps its type
\* in the whole, and no queue between them is written past its capacity.
THEOREM TypeCorrect == Spec => []TypeOK
<1>1. IInv => TypeOK
  <2> SUFFICES ASSUME IInv PROVE TypeOK OBVIOUS
  <2>1. Ctl!TypeOK
    BY CtlWords
    DEF IInv, Parts, CtlP!IInv, CtlP!TypeOK, CtlP!Places, CtlP!Channel, Ctl!TypeOK, Ctl!Places,
        Ctl!Channel
  <2>2. Sss!TypeOK
    BY SssWords
    DEF IInv, Parts, SssP!IInv, SssP!TypeOK, Sss!TypeOK
  <2> QED BY <2>1, <2>2 DEF IInv, ProgramTypeOK, TypeOK
<1> QED BY <1>1, SpecIInv, PTL

\* The controller's `registered` is never ahead of the SSS's table: a controller
\* relays for a device only while the table has the device registered through
\* this controller's connection, save during a granted deregistration it has
\* not read yet.
THEOREM RelaysAreRecorded == Spec => []RegisteredIsRecorded
<1>1. IInv => RegisteredIsRecorded
  <2> SUFFICES ASSUME IInv, NEW b \in Boots, Live(b), registered[b],
                      ~(cmd[b] = DEREG /\ ctlPc[b] \in {"sssWait", "notify"})
               PROVE  devs[IdOf[b]] = [status |-> REG, csock |-> b] \/ Sss!Doomed(IdOf[b])
    BY DEF RegisteredIsRecorded
  <2>1. Parts /\ Agreed(b) BY DEF IInv, Talk
  <2>2. cmd[b] = DEREG => Said(b) = None BY <2>1, ControllerInPlace DEF Said
  <2> QED BY <2>1, <2>2 DEF Agreed, Granted
<1> QED BY <1>1, SpecIInv, PTL

\* The SSS's table is never ahead of the controller: a live device that it has
\* registered relays, or its controller is about to read that it may.
THEOREM RecordedRelays == Spec => []RecordedIsRegistered
<1>1. IInv => RecordedIsRegistered
  <2> SUFFICES ASSUME IInv, NEW b \in Boots, Live(b), ~registered[b],
                      devs[IdOf[b]] = [status |-> REG, csock |-> b]
               PROVE  cmd[b] = REG /\ ctlPc[b] \in {"sssWait", "notify"}
    BY DEF RecordedIsRegistered
  <2>1. Parts /\ Agreed(b) BY DEF IInv, Talk
  <2>2. cmd[b] = REG /\ Said(b) = REG BY <2>1 DEF Agreed
  <2>3. ctlPc[b] = "notify" \/ reply[b] # None BY <2>2 DEF Said, REG, None
  <2> QED BY <2>1, <2>2, <2>3, ControllerInPlace
<1> QED BY <1>1, SpecIInv, PTL

\* When scewl_register has returned success, no message of another SED and no
\* earlier launch has deceived it: the controller and the SSS agree.
THEOREM RegisterOkIsSound == Spec => []RegisterOkSound
<1>1. IInv => RegisterOkSound
  <2> SUFFICES ASSUME IInv, NEW b \in Boots, Live(b), cpuPc[b] = "idle",
                      app[b] \in {"first", "again"}, ret[b] = "OK"
               PROVE  /\ registered[b]
                      /\ devs[IdOf[b]] = [status |-> REG, csock |-> b] \/ Sss!Doomed(IdOf[b])
    BY DEF RegisterOkSound
  <2>1. Agreed(b) /\ Conversation(b) BY DEF IInv, Talk
  <2>2. registered[b] /\ cmd[b] = None BY <2>1 DEF Conversation, Relayed
  <2> QED BY <2>1, <2>2 DEF Agreed, Granted, DEREG, None
<1> QED BY <1>1, SpecIInv, PTL

\* When scewl_deregister has returned success, it has thrown away every message
\* of other SEDs and taken the SSS's own answer: the controller has stopped
\* relaying and the SSS has the device as deregistered.
THEOREM DeregisterOkIsSound == Spec => []DeregisterOkSound
<1>1. IInv => DeregisterOkSound
  <2> SUFFICES ASSUME IInv, NEW b \in Boots, Live(b), cpuPc[b] = "idle",
                      app[b] \in {"recover", "leave"}, ret[b] = "OK"
               PROVE  ~registered[b] /\ (devs[IdOf[b]].status # REG \/ Sss!Doomed(IdOf[b]))
    BY DEF DeregisterOkSound
  <2>1. Parts /\ Conversation(b) BY DEF IInv, Talk
  <2>2. Quiet(b) /\ Granted(b, DEREG) BY <2>1 DEF Conversation
  <2> QED BY <2>1, <2>2, ControllerInPlace DEF Quiet, Granted, REG, DEREG
<1> QED BY <1>1, SpecIInv, PTL
=============================================================================
