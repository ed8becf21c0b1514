-------------------------- MODULE ControllerProofs --------------------------
(***************************************************************************)
(* Proofs about the bus controller, for any launches, any size of the      *)
(* ports' buffers, and any messages from the CPU and from the air: the     *)
(* controller implements the relay of Gateway.                             *)
(*                                                                         *)
(* That it does rests on what the message in hand is at each place of the  *)
(* loop, that the relaying places are reached only while registered, and   *)
(* that nothing but the answer is in the way of a request: IInv says so.   *)
(***************************************************************************)
EXTENDS Controller, SequenceTheorems, TLAPS

Relaying   == {"cpu", "radio", "toRadio", "toCpu"}
InDialogue == {"sssHdr", "sssBody", "sssWait", "notify"}

\* The relaying places belong to a registered controller, the dialogue with
\* the SSS to an operation.
Dialogue ==
    \A b \in Boots :
        /\ ctlPc[b] \in Relaying => registered[b] /\ cmd[b] = None
        /\ ctlPc[b] \in InDialogue => cmd[b] \in Ops
        /\ ctlPc[b] = "outer" => ~registered[b] /\ cmd[b] = None

\* The message in hand is one that may be sent on to where it is going.
InHandOK ==
    \A b \in Boots :
        /\ ctlPc[b] \in {"toRadio", "toCpu", "notify"} => held[b] \in Msg
        /\ ctlPc[b] = "toRadio" => held[b].tgt # SSS_ID
        /\ ctlPc[b] = "toCpu" => accepted(b, held[b])
        /\ ctlPc[b] = "notify" => held[b] = packet(IdOf[b], SSS_ID, held[b].data)

\* An answer waits only for a controller that reads it, and a request begins
\* when the one before it has been read.
OneRequest ==
    \A b \in Boots :
        /\ reply[b] # None => ctlPc[b] = "sssWait" /\ arrived[b] = 0
        /\ link[b] # "closed" /\ ctlPc[b] \notin {"sssBody", "sssWait"} => arrived[b] = 0
        /\ ctlPc[b] = "sssBody" => arrived[b] < 2

IInv == TypeOK /\ Dialogue /\ InHandOK /\ OneRequest

-----------------------------------------------------------------------------
(* Sequences and ports.                                                    *)

LEMMA ChannelIsBounded ==
    \A s : s \in Channel <=> s \in Seq(Msg) /\ Len(s) <= Cap
<1> USE ControllerAssumption
<1>1. ASSUME NEW s \in Channel PROVE s \in Seq(Msg) /\ Len(s) <= Cap
  BY <1>1 DEF Channel
<1>2. ASSUME NEW s \in Seq(Msg), Len(s) <= Cap PROVE s \in Channel
  <2>1. Len(s) \in 0..Cap /\ s \in [1..Len(s) -> Msg] BY <1>2, LenProperties
  <2> QED BY <2>1 DEF Channel
<1> QED BY <1>1, <1>2

\* A queue with its first message in somebody's hand.
LEMMA InFront ==
    ASSUME NEW S, NEW s \in Seq(S), NEW m
    PROVE  /\ <<m>> \o s # <<>>
           /\ Head(<<m>> \o s) = m /\ Tail(<<m>> \o s) = s
           /\ \A x : Append(<<m>> \o s, x) = <<m>> \o Append(s, x)
OBVIOUS

LEMMA FirstTaken ==
    ASSUME NEW S, NEW s \in Seq(S), s # <<>>
    PROVE  <<Head(s)>> \o Tail(s) = s
OBVIOUS

LEMMA ReadMsg ==
    ASSUME NEW s \in Channel, s # <<>>
    PROVE  Tail(s) \in Channel /\ Head(s) \in Msg
<1>1. s \in Seq(Msg) /\ Len(s) <= Cap BY ChannelIsBounded
<1>2. Tail(s) \in Seq(Msg) /\ Len(Tail(s)) = Len(s) - 1 /\ Head(s) \in Msg /\ Len(s) \in Nat
  BY <1>1, HeadTailProperties, LenProperties
<1>3. Len(Tail(s)) <= Cap BY <1>1, <1>2, ControllerAssumption
<1> QED BY <1>2, <1>3, ChannelIsBounded

LEMMA SendMsg ==
    ASSUME NEW s \in Channel, NEW m \in Msg, Len(s) < Cap
    PROVE  Append(s, m) \in Channel
<1>1. s \in Seq(Msg) BY ChannelIsBounded
<1>2. Append(s, m) \in Seq(Msg) /\ Len(Append(s, m)) = Len(s) + 1 /\ Len(s) \in Nat
  BY <1>1, AppendProperties, LenProperties
<1>3. Len(Append(s, m)) <= Cap BY <1>2, ControllerAssumption
<1> QED BY <1>2, <1>3, ChannelIsBounded

LEMMA EmptyChannel == <<>> \in Channel
<1>1. <<>> \in Seq(Msg) /\ Len(<<>>) = 0 BY EmptySeq
<1>2. 0 <= Cap BY ControllerAssumption
<1> QED BY <1>1, <1>2, ChannelIsBounded

\* What a CPU and a controller put in a header are identifiers.
LEMMA PacketIsMsg ==
    ASSUME NEW b \in Boots, NEW tgt \in Ids, NEW data \in Data
    PROVE  packet(tgt, IdOf[b], data) \in Msg
BY ScewlAssumption DEF packet, Msg, Ids

-----------------------------------------------------------------------------
(* The invariant is established and kept.                                  *)

LEMMA InitIInv == Init => IInv
BY EmptyChannel
   DEF Init, CtlInit, PortsInit, LinkInit, IInv, TypeOK, Dialogue, InHandOK, OneRequest,
       Places, Ops, REG, Relaying, InDialogue

\* The steps that take a message from the CPU.
LEMMA ReadCommandIInv ==
    ASSUME IInv, NEW b \in Boots, ReadCommand(b), link[b] = "open"
    PROVE  IInv'
<1>1. Tail(cpuTx[b]) \in Channel /\ Head(cpuTx[b]) \in Msg
  BY ReadMsg DEF IInv, TypeOK, ReadCommand, avail
<1> QED
  BY <1>1 DEF IInv, TypeOK, Dialogue, InHandOK, OneRequest, ReadCommand, read_msg,
    handle_registration, Goto, sssLink, Places, Relaying, InDialogue, accepted, None,
    Ops, REG, DEREG

LEMMA PollCpuIInv ==
    ASSUME IInv, NEW b \in Boots, PollCpu(b), link[b] = "open"
    PROVE  IInv'
<1>1. Tail(cpuTx[b]) \in Channel /\ Head(cpuTx[b]) \in Msg
  BY ReadMsg DEF IInv, TypeOK, PollCpu, avail
<1> QED
  BY <1>1 DEF IInv, TypeOK, Dialogue, InHandOK, OneRequest, PollCpu, read_msg,
    handle_registration, Goto, sssLink, Places, Relaying, InDialogue, accepted, None,
    Ops, REG, DEREG

LEMMA QuietIInv ==
    ASSUME IInv, NEW b \in Boots, CpuQuiet(b) \/ RadioQuiet(b)
    PROVE  IInv'
BY DEF IInv, TypeOK, Dialogue, InHandOK, OneRequest, CpuQuiet, RadioQuiet, Goto, sssLink, ports,
    Places, Relaying, InDialogue, accepted

LEMMA PollRadioIInv ==
    ASSUME IInv, NEW b \in Boots, PollRadio(b), link[b] = "open"
    PROVE  IInv'
<1>1. Tail(antRx[b]) \in Channel /\ Head(antRx[b]) \in Msg
  BY ReadMsg DEF IInv, TypeOK, PollRadio, avail
<1> QED
  BY <1>1 DEF IInv, TypeOK, Dialogue, InHandOK, OneRequest, PollRadio, read_msg,
    Goto, sssLink, Places, Relaying, InDialogue, accepted

\* The blocking writes.
LEMMA WriteRadioIInv ==
    ASSUME IInv, NEW b \in Boots, WriteRadio(b)
    PROVE  IInv'
<1>1. packet(held[b].tgt, IdOf[b], held[b].data) \in Msg
  BY PacketIsMsg DEF IInv, InHandOK, WriteRadio, Msg
<1>2. Append(antTx[b], packet(held[b].tgt, IdOf[b], held[b].data)) \in Channel
  BY <1>1, SendMsg DEF IInv, TypeOK, WriteRadio, send_msg
<1> QED
  BY <1>2 DEF IInv, TypeOK, Dialogue, InHandOK, OneRequest, WriteRadio, send_msg,
    Goto, sssLink, Places, Relaying, InDialogue, accepted

\* What is accepted is passed on as it came.
LEMMA PassedOnAsIs ==
    ASSUME IInv, NEW b \in Boots, ctlPc[b] = "toCpu"
    PROVE  for_cpu(b, held[b]) = held[b] /\ held[b] \in Msg
<1>1. held[b] \in Msg /\ accepted(b, held[b]) BY DEF IInv, InHandOK
<1>2. packet(held[b].tgt, held[b].src, held[b].data) = held[b] BY <1>1 DEF Msg, packet
<1> QED BY <1>1, <1>2 DEF for_cpu, accepted

LEMMA WriteCpuIInv ==
    ASSUME IInv, NEW b \in Boots, WriteCpu(b)
    PROVE  IInv'
<1>1. for_cpu(b, held[b]) \in Msg BY PassedOnAsIs DEF WriteCpu
<1>2. Append(cpuRx[b], for_cpu(b, held[b])) \in Channel
  BY <1>1, SendMsg DEF IInv, TypeOK, WriteCpu, send_msg
<1> QED
  BY <1>2 DEF IInv, TypeOK, Dialogue, InHandOK, OneRequest, WriteCpu, send_msg,
    Goto, sssLink, Places, Relaying, InDialogue, accepted

\* The dialogue with the SSS.
LEMMA RequestIInv ==
    ASSUME IInv, NEW b \in Boots, WriteRequestHeader(b) \/ WriteRequestBody(b),
           link[b] = "open"
    PROVE  IInv'
<1>1. CASE WriteRequestHeader(b)
  BY <1>1 DEF IInv, TypeOK, Dialogue, InHandOK, OneRequest, WriteRequestHeader, Goto, ports,
    Places, Relaying, InDialogue, accepted, None, Ops
<1>2. CASE WriteRequestBody(b)
  BY <1>2 DEF IInv, TypeOK, Dialogue, InHandOK, OneRequest, WriteRequestBody, Goto, ports,
    Places, Relaying, InDialogue, accepted
<1> QED BY <1>1, <1>2

\* What the SSS may have said fits in a message.
LEMMA AnswerIsMsg ==
    ASSUME NEW b \in Boots, NEW answer \in Data
    PROVE  LET m == packet(IdOf[b], SSS_ID, answer) IN
           m \in Msg /\ m = packet(IdOf[b], SSS_ID, m.data)
BY ScewlAssumption DEF packet, Msg, Ids

LEMMA ReadAnswerIInv ==
    ASSUME IInv, NEW b \in Boots, ReadAnswer(b)
    PROVE  IInv'
<1>1. reply[b] \in Data BY DEF IInv, TypeOK, ReadAnswer
<1>2. /\ packet(IdOf[b], SSS_ID, reply[b]) \in Msg
      /\ packet(IdOf[b], SSS_ID, reply[b])
           = packet(IdOf[b], SSS_ID, packet(IdOf[b], SSS_ID, reply[b]).data)
  BY <1>1, AnswerIsMsg
<1> QED
  BY <1>2 DEF IInv, TypeOK, Dialogue, InHandOK, OneRequest, ReadAnswer, Goto, ports,
    Places, Relaying, InDialogue, accepted

LEMMA NotifyCpuIInv ==
    ASSUME IInv, NEW b \in Boots, NotifyCpu(b)
    PROVE  IInv'
<1>1. held[b] \in Msg BY DEF IInv, InHandOK, NotifyCpu
<1>2. Append(cpuRx[b], held[b]) \in Channel
  BY <1>1, SendMsg DEF IInv, TypeOK, NotifyCpu, send_msg
<1>3. after(registered[b], cmd[b], held[b].data) \in BOOLEAN
  BY DEF after, IInv, TypeOK
<1> QED
  BY <1>2, <1>3 DEF IInv, TypeOK, Dialogue, InHandOK, OneRequest, NotifyCpu, send_msg,
    Goto, sssLink, Places, Relaying, InDialogue, accepted

\* The container starts and stops.
LEMMA ContainerIInv ==
    ASSUME IInv, NEW b \in Boots, Start(b) \/ Stop(b)
    PROVE  IInv'
<1>1. CASE Start(b)
  BY <1>1 DEF IInv, TypeOK, Dialogue, InHandOK, OneRequest, Start, ctlVars, ports, accepted
<1>2. CASE Stop(b)
  BY <1>2, EmptyChannel DEF IInv, TypeOK, Dialogue, InHandOK, OneRequest, Stop, Goto,
    Places, Relaying, InDialogue, accepted
<1> QED BY <1>1, <1>2

\* The other ends of the ports and of the connection.
LEMMA PortsEnvIInv ==
    ASSUME IInv, NEW b \in Boots,
           \/ \E m \in CpuMsgs : CpuWrites(b, m)
           \/ \E m \in AirMsgs : AirBrings(b, m)
           \/ CpuReads(b) \/ AirTakes(b)
    PROVE  IInv'
<1>1. ASSUME NEW m \in CpuMsgs, CpuWrites(b, m) PROVE IInv'
  <2>1. packet(m.tgt, IdOf[b], m.data) \in Msg BY ControllerAssumption, PacketIsMsg
  <2>2. Append(cpuTx[b], packet(m.tgt, IdOf[b], m.data)) \in Channel
    BY <1>1, <2>1, SendMsg DEF IInv, TypeOK, CpuWrites, send_msg
  <2> QED BY <1>1, <2>2 DEF IInv, TypeOK, Dialogue, InHandOK, OneRequest, CpuWrites, send_msg,
        ctlVars, sssLink, accepted
<1>2. ASSUME NEW m \in AirMsgs, AirBrings(b, m) PROVE IInv'
  <2>1. Append(antRx[b], m) \in Channel
    BY <1>2, SendMsg, ControllerAssumption DEF IInv, TypeOK, AirBrings, send_msg
  <2> QED BY <1>2, <2>1 DEF IInv, TypeOK, Dialogue, InHandOK, OneRequest, AirBrings, send_msg,
        ctlVars, sssLink, accepted
<1>3. CASE CpuReads(b)
  <2>1. Tail(cpuRx[b]) \in Channel BY <1>3, ReadMsg DEF IInv, TypeOK, CpuReads, avail
  <2> QED BY <1>3, <2>1 DEF IInv, TypeOK, Dialogue, InHandOK, OneRequest, CpuReads, read_msg,
        ctlVars, sssLink, accepted
<1>4. CASE AirTakes(b)
  <2>1. Tail(antTx[b]) \in Channel BY <1>4, ReadMsg DEF IInv, TypeOK, AirTakes, avail
  <2> QED BY <1>4, <2>1 DEF IInv, TypeOK, Dialogue, InHandOK, OneRequest, AirTakes, read_msg,
        ctlVars, sssLink, accepted
<1> QED BY <1>1, <1>2, <1>3, <1>4

LEMMA SssIInv ==
    ASSUME IInv, NEW b \in Boots,
           SssReads(b) \/ \E answer \in Data : SssAnswers(b, answer)
    PROVE  IInv'
<1>1. CASE SssReads(b)
  BY <1>1 DEF IInv, TypeOK, Dialogue, InHandOK, OneRequest, SssReads, ctlVars, ports, accepted
<1>2. ASSUME NEW answer \in Data, SssAnswers(b, answer) PROVE IInv'
  BY <1>2 DEF IInv, TypeOK, Dialogue, InHandOK, OneRequest, SssAnswers, ctlVars, ports, accepted
<1> QED BY <1>1, <1>2

LEMMA NextIInv == IInv /\ [Next]_vars => IInv'
<1> SUFFICES ASSUME IInv, [Next]_vars PROVE IInv'
  OBVIOUS
<1>1. CASE UNCHANGED vars
  BY <1>1 DEF vars, IInv, TypeOK, Dialogue, InHandOK, OneRequest, accepted
<1>2. ASSUME NEW b \in Boots, Step(b) PROVE IInv'
  BY <1>2, ReadCommandIInv, PollCpuIInv, QuietIInv, WriteRadioIInv, PollRadioIInv, WriteCpuIInv,
     RequestIInv, ReadAnswerIInv, NotifyCpuIInv DEF Step
<1>3. ASSUME NEW b \in Boots, Start(b) \/ Stop(b) PROVE IInv'
  BY <1>3, ContainerIInv
<1>4. ASSUME NEW b \in Boots, Env(b) PROVE IInv'
  BY <1>4, PortsEnvIInv, SssIInv DEF Env
<1> QED BY <1>1, <1>2, <1>3, <1>4 DEF Next

LEMMA SpecIInv == Spec => []IInv
<1>1. Init => IInv BY InitIInv
<1>2. IInv /\ [Next]_vars => IInv' BY NextIInv
<1> QED BY <1>1, <1>2, PTL DEF Spec

\* Every variable of the controller keeps its type, and no port's buffer is
\* ever written past its capacity.
THEOREM TypeCorrect == Spec => []TypeOK
<1>1. IInv => TypeOK BY DEF IInv
<1> QED BY <1>1, SpecIInv, PTL

-----------------------------------------------------------------------------
(* The controller is a relay.                                              *)

\* Both modules speak of the same things.
LEMMA SameWords ==
    /\ Relay!None = None /\ Relay!REG = REG /\ Relay!Ops = Ops
    /\ Relay!SSS_ID = SSS_ID /\ Relay!BRDCST_ID = BRDCST_ID
    /\ Relay!Data = Data /\ Relay!Msg = Msg
    /\ \A t, f, x : Relay!packet(t, f, x) = packet(t, f, x)
<1>1. Relay!REG = REG /\ Relay!DEREG = DEREG /\ Relay!ALREADY = ALREADY
  BY DEF Relay!REG, REG, Relay!DEREG, DEREG, Relay!ALREADY, ALREADY
<1>2. Relay!SSS_ID = SSS_ID /\ Relay!BRDCST_ID = BRDCST_ID /\ Relay!FAA_ID = FAA_ID
  BY DEF Relay!SSS_ID, SSS_ID, Relay!BRDCST_ID, BRDCST_ID, Relay!FAA_ID, FAA_ID
<1>3. Relay!None = None BY DEF Relay!None, None
<1>4. Relay!Ops = Ops /\ Relay!Data = Data BY <1>1 DEF Relay!Ops, Ops, Relay!Data, Data
<1>5. Relay!Ids = Ids BY <1>2 DEF Relay!Ids, Ids
<1>6. Relay!Msg = Msg BY <1>4, <1>5 DEF Relay!Msg, Msg
<1>7. \A t, f, x : Relay!packet(t, f, x) = packet(t, f, x) BY DEF Relay!packet, packet
<1> QED BY <1>1, <1>2, <1>3, <1>4, <1>6, <1>7

\* The relay's two inner queues.
Up   == Untaken(cpuTx, "toRadio")
Down == Untaken(antRx, "toCpu")

LEMMA RelayVars ==
    UNCHANGED <<Up, cpuRx, Down, antTx, registered, cmd>> => UNCHANGED Relay!vars
BY DEF Relay!vars, Up, Down

\* A step that takes nothing, and leaves the messages in hand where they are,
\* is not seen.
LEMMA NotSeen ==
    ASSUME UNCHANGED <<ports, registered, cmd>>,
           \A c \in Boots : \A place \in {"toRadio", "toCpu"} :
               /\ ctlPc'[c] = place <=> ctlPc[c] = place
               /\ ctlPc[c] = place => held'[c] = held[c]
    PROVE  UNCHANGED Relay!vars
<1>1. UNCHANGED <<Up, Down>> BY DEF Up, Down, Untaken, ports
<1> QED BY <1>1, RelayVars DEF ports

LEMMA QuietSteps ==
    ASSUME IInv, NEW b \in Boots,
           \/ CpuQuiet(b) \/ RadioQuiet(b) \/ WriteRequestHeader(b) \/ WriteRequestBody(b)
           \/ ReadAnswer(b) \/ Start(b) \/ SssReads(b)
           \/ \E answer \in Data : SssAnswers(b, answer)
    PROVE  UNCHANGED Relay!vars
<1>1. UNCHANGED <<ports, registered, cmd>>
  BY DEF CpuQuiet, RadioQuiet, WriteRequestHeader, WriteRequestBody, ReadAnswer, Start, SssReads,
         SssAnswers, ctlVars
<1>2. ASSUME NEW c \in Boots, NEW place \in {"toRadio", "toCpu"}
      PROVE  /\ ctlPc'[c] = place <=> ctlPc[c] = place
             /\ ctlPc[c] = place => held'[c] = held[c]
  BY DEF CpuQuiet, RadioQuiet, WriteRequestHeader, WriteRequestBody, ReadAnswer, Start, SssReads,
         SssAnswers, ctlVars, Goto, IInv, TypeOK
<1> QED BY <1>1, <1>2, NotSeen

\* A message of the CPU that is taken and answered for at once.
LEMMA TakenUp ==
    ASSUME IInv, NEW b \in Boots, ctlPc[b] \notin {"toRadio", "toCpu"},
           ctlPc'[b] \notin {"toRadio", "toCpu"},
           ctlPc' = [ctlPc EXCEPT ![b] = ctlPc'[b]], read_msg(cpuTx, b),
           UNCHANGED <<held, antRx>>
    PROVE  Up' = [Up EXCEPT ![b] = Tail(@)] /\ Up[b] = cpuTx[b] /\ Down' = Down
<1>1. ASSUME NEW c \in Boots
      PROVE  /\ Up'[c] = IF c = b THEN Tail(cpuTx[b]) ELSE Up[c]
             /\ Down'[c] = Down[c]
  BY DEF Up, Down, Untaken, read_msg, IInv, TypeOK
<1>2. Up[b] = cpuTx[b] BY DEF Up, Untaken
<1>3. /\ Up = [c \in Boots |-> Up[c]] /\ Up' = [c \in Boots |-> Up'[c]]
      /\ Down = [c \in Boots |-> Down[c]] /\ Down' = [c \in Boots |-> Down'[c]]
  BY DEF Up, Down, Untaken
<1> QED BY <1>1, <1>2, <1>3

LEMMA CommandRefines ==
    ASSUME IInv, NEW b \in Boots, ReadCommand(b) \/ PollCpu(b)
    PROVE  Relay!Ask(b) \/ Relay!Reject(b) \/ UNCHANGED Relay!vars
<1> DEFINE m == Head(cpuTx[b])
<1>1. cpuTx[b] # <<>> /\ cmd[b] = None /\ cpuTx[b] \in Channel
      /\ ctlPc[b] \in {"outer", "cpu"} /\ (ctlPc[b] = "cpu" <=> registered[b])
  BY DEF ReadCommand, PollCpu, avail, IInv, Dialogue, Relaying, TypeOK
<1>2. CASE ctlPc[b] = "outer" \/ m.tgt = SSS_ID
  <2>1. /\ UNCHANGED <<registered, held, cpuRx, antRx, antTx>> /\ read_msg(cpuTx, b)
        /\ ctlPc' = [ctlPc EXCEPT ![b] = ctlPc'[b]]
        /\ ctlPc'[b] \notin {"toRadio", "toCpu"}
        /\ cmd' = IF m.tgt = SSS_ID /\ m.data \in Ops
                  THEN [cmd EXCEPT ![b] = m.data] ELSE cmd
    BY <1>1, <1>2 DEF ReadCommand, PollCpu, handle_registration, Goto, IInv, TypeOK
  <2>2. Up' = [Up EXCEPT ![b] = Tail(@)] /\ Up[b] = cpuTx[b] /\ Down' = Down
    BY <1>1, <2>1, TakenUp
  <2>3. CASE m.tgt = SSS_ID /\ m.data \in Ops
    BY <1>1, <2>1, <2>2, <2>3, SameWords
    DEF Relay!Ask, Relay!Ready, Relay!IsCommand, Relay!Pop, Up, Down
  <2>4. CASE ~(m.tgt = SSS_ID /\ m.data \in Ops)
    BY <1>1, <1>2, <2>1, <2>2, <2>4, SameWords
    DEF Relay!Reject, Relay!Ready, Relay!IsCommand, Relay!IsOutgoing, Relay!Pop, Up, Down
  <2> QED BY <2>3, <2>4
<1>3. CASE ctlPc[b] = "cpu" /\ m.tgt # SSS_ID
  <2>1. PollCpu(b) BY <1>3 DEF ReadCommand
  <2>2. <<m>> \o Tail(cpuTx[b]) = cpuTx[b] BY <1>1, FirstTaken, ChannelIsBounded
  <2>3. ASSUME NEW c \in Boots PROVE Up'[c] = Up[c] /\ Down'[c] = Down[c]
    BY <1>3, <2>1, <2>2 DEF Up, Down, Untaken, PollCpu, read_msg, Goto, IInv, TypeOK
  <2>4. UNCHANGED <<Up, Down>> BY <2>3 DEF Up, Down, Untaken
  <2> QED BY <1>3, <2>1, <2>4, RelayVars DEF PollCpu
<1> QED BY <1>1, <1>2, <1>3

\* A message that has been taken is sent on: one step of the relay.
LEMMA WriteRadioRefines ==
    ASSUME IInv, NEW b \in Boots, WriteRadio(b)
    PROVE  Relay!Uplink(b)
<1>1. /\ registered[b] /\ cmd[b] = None /\ held[b] \in Msg /\ held[b].tgt # SSS_ID
      /\ cpuTx[b] \in Seq(Msg)
  BY ChannelIsBounded DEF WriteRadio, IInv, Dialogue, InHandOK, Relaying, TypeOK
<1>2. Up[b] = <<held[b]>> \o cpuTx[b] BY DEF WriteRadio, Up, Untaken
<1>3. Up[b] # <<>> /\ Head(Up[b]) = held[b] /\ Tail(Up[b]) = cpuTx[b]
  BY <1>1, <1>2, InFront
<1>4. ASSUME NEW c \in Boots
      PROVE  Up'[c] = IF c = b THEN cpuTx[b] ELSE Up[c]
  BY DEF Up, Untaken, WriteRadio, Goto, IInv, TypeOK
<1>5. ASSUME NEW c \in Boots PROVE Down'[c] = Down[c]
  BY DEF Down, Untaken, WriteRadio, Goto, IInv, TypeOK
<1>6. Up' = [Up EXCEPT ![b] = Tail(@)] BY <1>3, <1>4 DEF Up, Untaken
<1>7. Down' = Down BY <1>5 DEF Down, Untaken
<1> QED
  BY <1>1, <1>3, <1>6, <1>7, SameWords
  DEF WriteRadio, send_msg, Relay!Uplink, Relay!Ready, Relay!IsOutgoing, Relay!Pop, Relay!Push,
      Up, Down

LEMMA WriteCpuRefines ==
    ASSUME IInv, NEW b \in Boots, WriteCpu(b)
    PROVE  Relay!Downlink(b)
<1>1. /\ registered[b] /\ cmd[b] = None /\ accepted(b, held[b])
      /\ antRx[b] \in Seq(Msg)
  BY ChannelIsBounded DEF WriteCpu, IInv, Dialogue, InHandOK, Relaying, TypeOK
<1>2. for_cpu(b, held[b]) = held[b] BY PassedOnAsIs DEF WriteCpu
<1>3. Down[b] = <<held[b]>> \o antRx[b] BY DEF WriteCpu, Down, Untaken
<1>4. Down[b] # <<>> /\ Head(Down[b]) = held[b] /\ Tail(Down[b]) = antRx[b]
  BY <1>1, <1>3, InFront
<1>5. ASSUME NEW c \in Boots
      PROVE  Down'[c] = IF c = b THEN antRx[b] ELSE Down[c]
  BY DEF Down, Untaken, WriteCpu, Goto, IInv, TypeOK
<1>6. ASSUME NEW c \in Boots PROVE Up'[c] = Up[c]
  BY DEF Up, Untaken, WriteCpu, Goto, IInv, TypeOK
<1>7. Down' = [Down EXCEPT ![b] = Tail(@)] BY <1>4, <1>5 DEF Down, Untaken
<1>8. Up' = Up BY <1>6 DEF Up, Untaken
<1> QED
  BY <1>1, <1>2, <1>4, <1>7, <1>8, SameWords
  DEF WriteCpu, send_msg, accepted, Relay!Downlink, Relay!Ready, Relay!IsForMe, Relay!Pop,
      Relay!Push, Up, Down

\* A poll of the antenna finds a message for this device, which is not seen
\* before it is delivered, or one that is dropped.
LEMMA PollRadioRefines ==
    ASSUME IInv, NEW b \in Boots, PollRadio(b)
    PROVE  Relay!Overhear(b) \/ UNCHANGED Relay!vars
<1> DEFINE m == Head(antRx[b])
<1>1. /\ registered[b] /\ cmd[b] = None /\ antRx[b] # <<>> /\ antRx[b] \in Seq(Msg)
      /\ UNCHANGED <<registered, cmd, cpuTx, cpuRx, antTx>>
  BY ChannelIsBounded DEF PollRadio, avail, IInv, Dialogue, Relaying, TypeOK
<1>2. ASSUME NEW c \in Boots PROVE Up'[c] = Up[c]
  BY DEF Up, Untaken, PollRadio, Goto, IInv, TypeOK
<1>3. Up' = Up BY <1>2 DEF Up, Untaken
<1>4. CASE accepted(b, m)
  <2>1. <<m>> \o Tail(antRx[b]) = antRx[b] BY <1>1, FirstTaken
  <2>2. ASSUME NEW c \in Boots PROVE Down'[c] = Down[c]
    BY <1>4, <2>1 DEF Down, Untaken, PollRadio, read_msg, Goto, IInv, TypeOK
  <2>3. Down' = Down BY <2>2 DEF Down, Untaken
  <2> QED BY <1>1, <1>3, <2>3, RelayVars
<1>5. CASE ~accepted(b, m)
  <2>1. ASSUME NEW c \in Boots
        PROVE  Down'[c] = IF c = b THEN Tail(antRx[b]) ELSE Down[c]
    BY <1>5 DEF Down, Untaken, PollRadio, read_msg, Goto, IInv, TypeOK
  <2>2. Down[b] = antRx[b] BY DEF Down, Untaken, PollRadio
  <2>3. Down' = [Down EXCEPT ![b] = Tail(@)] BY <2>1, <2>2 DEF Down, Untaken
  <2> QED
    BY <1>1, <1>3, <1>5, <2>2, <2>3, SameWords
    DEF accepted, Relay!Overhear, Relay!Ready, Relay!IsForMe, Relay!Pop, Up, Down
<1> QED BY <1>4, <1>5

\* The answer of the SSS reaches the CPU and decides whether the relay opens.
LEMMA NotifyCpuRefines ==
    ASSUME IInv, NEW b \in Boots, NotifyCpu(b)
    PROVE  \E answer \in Data : Relay!Told(b, answer)
<1> DEFINE answer == held[b].data
<1>1. /\ cmd[b] \in Ops /\ held[b] \in Msg /\ held[b] = packet(IdOf[b], SSS_ID, answer)
      /\ registered[b] \in BOOLEAN
  BY DEF NotifyCpu, IInv, Dialogue, InHandOK, InDialogue, TypeOK
<1>2. answer \in Data BY <1>1 DEF Msg
<1>3. after(registered[b], cmd[b], answer)
        = IF answer = cmd[b] THEN answer = REG ELSE registered[b]
  BY <1>1, <1>2 DEF after, Ops, Data, REG, DEREG, ALREADY
<1>4. ASSUME NEW c \in Boots PROVE Up'[c] = Up[c] /\ Down'[c] = Down[c]
  BY DEF Up, Down, Untaken, NotifyCpu, Goto, IInv, TypeOK
<1>5. UNCHANGED <<Up, Down>> BY <1>4 DEF Up, Down, Untaken
<1>6. cmd[b] # None BY <1>1 DEF Ops, REG, DEREG, None
<1>7. Relay!Told(b, answer)
  BY <1>1, <1>3, <1>5, <1>6, SameWords
  DEF NotifyCpu, send_msg, Relay!Told, Relay!Push, Up, Down
<1> QED BY <1>2, <1>7

LEMMA StopRefines ==
    ASSUME IInv, NEW b \in Boots, Stop(b)
    PROVE  Relay!Cut(b)
<1>1. ASSUME NEW c \in Boots
      PROVE  /\ Up'[c] = IF c = b THEN <<>> ELSE Up[c]
             /\ Down'[c] = IF c = b THEN <<>> ELSE Down[c]
  BY DEF Up, Down, Untaken, Stop, Goto, IInv, TypeOK
<1>2. Up' = [Up EXCEPT ![b] = <<>>] /\ Down' = [Down EXCEPT ![b] = <<>>]
  BY <1>1 DEF Up, Down, Untaken
<1> QED BY <1>2, SameWords DEF Stop, Relay!Cut, Up, Down

\* The other ends of the ports write behind what is in the controller's hands.
LEMMA EnvRefines ==
    ASSUME IInv, NEW b \in Boots,
           \/ \E m \in CpuMsgs : CpuWrites(b, m)
           \/ \E m \in AirMsgs : AirBrings(b, m)
           \/ CpuReads(b) \/ AirTakes(b)
    PROVE  \/ \E m \in Msg : Relay!CpuWrites(b, m) \/ Relay!AirBrings(b, m)
           \/ Relay!CpuReads(b) \/ Relay!AirTakes(b)
<1>1. \A c \in Boots : /\ cpuTx[c] \in Seq(Msg) /\ antRx[c] \in Seq(Msg)
                       /\ ctlPc[c] \in {"toRadio", "toCpu"} => held[c] \in Msg
  BY ChannelIsBounded DEF IInv, InHandOK, TypeOK
<1>2. ASSUME NEW n \in CpuMsgs, CpuWrites(b, n)
      PROVE  \E m \in Msg : Relay!CpuWrites(b, m)
  <2> DEFINE m == packet(n.tgt, IdOf[b], n.data)
  <2>1. m \in Msg BY ControllerAssumption, PacketIsMsg
  <2>2. ctlPc[b] = "toRadio" => Append(Up[b], m) = <<held[b]>> \o Append(cpuTx[b], m)
    BY <1>1, InFront DEF Up, Untaken
  <2>3. ASSUME NEW c \in Boots
        PROVE  /\ Up'[c] = IF c = b THEN Append(Up[b], m) ELSE Up[c]
               /\ Down'[c] = Down[c]
    BY <1>2, <2>2 DEF Up, Down, Untaken, CpuWrites, send_msg, ctlVars, IInv, TypeOK
  <2>4. Up' = [Up EXCEPT ![b] = Append(@, m)] /\ Down' = Down
    BY <2>3 DEF Up, Down, Untaken
  <2>5. Relay!CpuWrites(b, m)
    BY <1>2, <2>4 DEF CpuWrites, ctlVars, Relay!CpuWrites, Relay!Push, Up, Down
  <2> QED BY <2>1, <2>5
<1>3. ASSUME NEW m \in AirMsgs, AirBrings(b, m)
      PROVE  m \in Msg /\ Relay!AirBrings(b, m)
  <2>1. m \in Msg BY ControllerAssumption
  <2>2. ctlPc[b] = "toCpu" => Append(Down[b], m) = <<held[b]>> \o Append(antRx[b], m)
    BY <1>1, InFront DEF Down, Untaken
  <2>3. ASSUME NEW c \in Boots
        PROVE  /\ Down'[c] = IF c = b THEN Append(Down[b], m) ELSE Down[c]
               /\ Up'[c] = Up[c]
    BY <1>3, <2>2 DEF Up, Down, Untaken, AirBrings, send_msg, ctlVars, IInv, TypeOK
  <2>4. Down' = [Down EXCEPT ![b] = Append(@, m)] /\ Up' = Up
    BY <2>3 DEF Up, Down, Untaken
  <2> QED BY <1>3, <2>1, <2>4 DEF AirBrings, ctlVars, Relay!AirBrings, Relay!Push, Up, Down
<1>4. ASSUME CpuReads(b) \/ AirTakes(b) PROVE Relay!CpuReads(b) \/ Relay!AirTakes(b)
  <2>1. UNCHANGED <<Up, Down>> BY <1>4 DEF Up, Down, Untaken, CpuReads, AirTakes, ctlVars
  <2> QED BY <1>4, <2>1 DEF CpuReads, AirTakes, ctlVars, avail, read_msg, Relay!CpuReads,
        Relay!AirTakes, Relay!Pop, Up, Down
<1> QED BY <1>2, <1>3, <1>4, SameWords

\* Every step is one of the relay's, or is not seen.
LEMMA StepRefines ==
    ASSUME IInv, [Next]_vars
    PROVE  [Relay!Next]_(Relay!vars)
<1>1. CASE UNCHANGED vars
  <2>1. UNCHANGED <<Up, Down>> BY <1>1 DEF vars, Up, Down, Untaken
  <2> QED BY <1>1, <2>1, RelayVars DEF vars
<1>2. ASSUME NEW b \in Boots, ReadCommand(b) \/ PollCpu(b)
      PROVE  [Relay!Next]_(Relay!vars)
  BY <1>2, CommandRefines DEF Relay!Next
<1>3. ASSUME NEW b \in Boots, PollRadio(b) PROVE [Relay!Next]_(Relay!vars)
  BY <1>3, PollRadioRefines DEF Relay!Next
<1>4. ASSUME NEW b \in Boots, WriteRadio(b) \/ WriteCpu(b) \/ Stop(b)
      PROVE  Relay!Next
  BY <1>4, WriteRadioRefines, WriteCpuRefines, StopRefines DEF Relay!Next
<1>5. ASSUME NEW b \in Boots, NotifyCpu(b) PROVE Relay!Next
  BY <1>5, NotifyCpuRefines, SameWords DEF Relay!Next
<1>6. ASSUME NEW b \in Boots,
             \/ CpuQuiet(b) \/ RadioQuiet(b) \/ WriteRequestHeader(b) \/ WriteRequestBody(b)
             \/ ReadAnswer(b) \/ Start(b) \/ SssReads(b)
             \/ \E answer \in Data : SssAnswers(b, answer)
      PROVE  UNCHANGED Relay!vars
  BY <1>6, QuietSteps
<1>7. ASSUME NEW b \in Boots,
             \/ \E m \in CpuMsgs : CpuWrites(b, m)
             \/ \E m \in AirMsgs : AirBrings(b, m)
             \/ CpuReads(b) \/ AirTakes(b)
      PROVE  Relay!Next
  BY <1>7, EnvRefines, SameWords DEF Relay!Next
<1>8. ASSUME NEW b \in Boots, Step(b) PROVE [Relay!Next]_(Relay!vars)
  BY <1>2, <1>3, <1>4, <1>5, <1>6, <1>8 DEF Step
<1>9. ASSUME NEW b \in Boots, Env(b) PROVE [Relay!Next]_(Relay!vars)
  BY <1>6, <1>7, <1>9 DEF Env
<1> QED BY <1>1, <1>4, <1>6, <1>8, <1>9 DEF Next

\* For any launches, any size of the buffers and any traffic, the controller is
\* a first-in first-out relay that is open exactly while it is registered:
\* each message it takes is delivered, unaltered and in order, or dropped for
\* one of the reasons the relay states.
THEOREM ControllerIsRelay == Spec => IsRelay
<1>1. Init => Relay!Init
  BY SameWords DEF Init, CtlInit, PortsInit, LinkInit, Relay!Init, Untaken
<1>2. IInv /\ [Next]_vars => [Relay!Next]_(Relay!vars) BY StepRefines
<1> QED BY <1>1, <1>2, SpecIInv, PTL DEF Spec, IsRelay, Relay!Spec
=============================================================================
