-------------------------- MODULE EchoSystemProofs --------------------------
(***************************************************************************)
(* Proof that the echo deployment, whatever the sizes of its buffers and   *)
(* whatever the FAA is told to send, neither loses nor repeats the client's *)
(* hello and the echo of it on the way from CPU to CPU.                    *)
(***************************************************************************)
EXTENDS EchoSystem, SelectingProofs

-----------------------------------------------------------------------------
(* Who is where, and what is said.                                         *)

\* The port of the emulator that a client connects to.
Home(c) == IF c \in Boots THEN IdOf[c] ELSE FAA_ID

Peer(b) == IF b = EchoClient THEN EchoServer ELSE EchoClient

\* What a client puts on the air until the echo client has its answer.
Said(c) ==
    IF c = Faa THEN [tgt : Ids, src : {FAA_ID}, data : Texts]
    ELSE {packet(IdOf[Peer(c)], IdOf[c], HELLO)}
            \cup (IF c = EchoServer THEN [tgt : {FAA_ID}, src : {TGT_ID}, data : Texts] ELSE {})
Air == UNION {Said(c) : c \in Clients}

\* What a controller passes on to its CPU of it.
Heard(b) == {m \in Air : m.tgt \in {BRDCST_ID, IdOf[b]} /\ m.src # IdOf[b]}

Request(b) == packet(SSS_ID, IdOf[b], REG)
Answer(b)  == packet(IdOf[b], SSS_ID, REG)

\* All messages that are anywhere until then.
AnyMsg == Air \cup {Request(b) : b \in Boots} \cup {Answer(b) : b \in Boots}

LEMMA Constants ==
    /\ EchoClient \in Boots /\ EchoServer \in Boots /\ EchoClient # EchoServer
    /\ \A b \in Boots : b = EchoClient \/ b = EchoServer
    /\ \A b \in Boots : Peer(b) \in Boots /\ Peer(b) # b
    /\ \A b, c \in Boots : b # c => c = Peer(b)
    /\ Peer(EchoClient) = EchoServer /\ Peer(EchoServer) = EchoClient
    /\ IdOf \in [Boots -> Devices] /\ TGT_ID = IdOf[EchoServer]
    /\ \A b, c \in Boots : IdOf[b] = IdOf[c] => b = c
    /\ {BRDCST_ID, SSS_ID, FAA_ID, None} \cap Devices = {}
    /\ BRDCST_ID # SSS_ID /\ BRDCST_ID # FAA_ID /\ SSS_ID # FAA_ID
    /\ Faa \notin Boots
BY EchoAssumption, ScewlAssumption DEF Peer, TGT_ID, BRDCST_ID, SSS_ID, FAA_ID, None

LEMMA Homes ==
    /\ \A c \in Clients : Home(c) \in Rad!socks
    /\ \A c, d \in Clients : Home(c) = Home(d) => c = d
    /\ \A b \in Boots : b \in Clients /\ Home(b) = IdOf[b] /\ Home(b) \in Devices
    /\ Faa \in Clients /\ Home(Faa) = FAA_ID
    /\ \A c \in Clients : c \in Boots \/ c = Faa
    /\ None \notin Clients
    /\ Rad!socks \subseteq Rad!Ports /\ {Rad!MITM, Rad!PROBE, Rad!RECVR} \subseteq Rad!Ports
    /\ Rad!socks \cap {Rad!MITM, Rad!PROBE, Rad!RECVR} = {}
    /\ Rad!socks = Devices \cup {FAA_ID}
<1>1. FAA_ID \notin {Rad!MITM, Rad!PROBE, Rad!RECVR}
  BY DEF FAA_ID, Rad!MITM, Rad!PROBE, Rad!RECVR
<1>2. Devices \cap {Rad!MITM, Rad!PROBE, Rad!RECVR} = {}
  BY EchoAssumption DEF Rad!MITM, Rad!PROBE, Rad!RECVR
<1>3. Rad!FAA_ID = FAA_ID BY DEF FAA_ID, Rad!FAA_ID
<1>4. \A b \in Boots : IdOf[b] \in Devices /\ FAA_ID # IdOf[b] BY Constants
<1>5. None \notin Clients BY EchoAssumption, ScewlAssumption DEF Clients
<1> QED BY <1>1, <1>2, <1>3, <1>4, <1>5, Constants DEF Clients, Home, Rad!socks, Rad!Ports

LEMMA SaidIs ==
    /\ \A c \in Clients : \A m \in Said(c) :
          /\ m \in Air /\ m = packet(m.tgt, Home(c), m.data)
          /\ m.src = Home(c) /\ m.tgt \in Ids /\ m.data \in Texts
    /\ \A b \in Boots : \A m \in Said(b) :
          m.tgt # SSS_ID /\ m = packet(m.tgt, IdOf[b], m.data)
    /\ \A m \in Air : \E c \in Clients : m \in Said(c)
<1>1. \A c \in Clients : \A m \in Said(c) : m \in Air BY DEF Air
<1>2. \A m \in Air : \E c \in Clients : m \in Said(c) BY DEF Air
<1>3. HELLO \in Texts BY DEF Texts
<1>4. ASSUME NEW b \in Boots, NEW m \in Said(b)
      PROVE  /\ m = packet(m.tgt, IdOf[b], m.data) /\ m.src = IdOf[b]
             /\ m.tgt \in Ids /\ m.tgt # SSS_ID /\ m.data \in Texts
  <2>1. \/ m = packet(IdOf[Peer(b)], IdOf[b], HELLO)
        \/ m \in [tgt : {FAA_ID}, src : {TGT_ID}, data : Texts] /\ IdOf[b] = TGT_ID
    BY Constants DEF Said
  <2>2. IdOf[Peer(b)] \in Devices /\ IdOf[Peer(b)] # SSS_ID BY Constants
  <2> QED BY <1>3, <2>1, <2>2, Constants DEF packet, Ids
<1>5. ASSUME NEW m \in Said(Faa)
      PROVE  /\ m = packet(m.tgt, FAA_ID, m.data) /\ m.src = FAA_ID
             /\ m.tgt \in Ids /\ m.data \in Texts
  BY DEF Said, packet
<1> QED BY <1>1, <1>2, <1>4, <1>5, Homes

\* The one message that a program sends the other.
Word(b) == packet(IdOf[Peer(b)], IdOf[b], HELLO)

LEMMA WordIs ==
    \A b \in Boots :
        /\ Word(b) \in Said(b) /\ Word(b) \in Air /\ Word(b) \in Heard(Peer(b))
        /\ Word(b) \in Between(b, Peer(b)) /\ ~Rad!direct(Word(b))
        /\ Word(b).data = HELLO /\ Word(b).src = IdOf[b] /\ Word(b).tgt = IdOf[Peer(b)]
        /\ \A m \in Air \cap Between(b, Peer(b)) : m = Word(b)
        /\ \A e \in Boots : Request(e) \notin Between(b, Peer(b)) /\ Answer(e) \notin Between(b, Peer(b))
<1> SUFFICES ASSUME NEW b \in Boots
    PROVE /\ Word(b) \in Said(b) /\ Word(b) \in Air /\ Word(b) \in Heard(Peer(b))
          /\ Word(b) \in Between(b, Peer(b)) /\ ~Rad!direct(Word(b))
          /\ Word(b).data = HELLO /\ Word(b).src = IdOf[b] /\ Word(b).tgt = IdOf[Peer(b)]
          /\ \A m \in Air \cap Between(b, Peer(b)) : m = Word(b)
          /\ \A e \in Boots : Request(e) \notin Between(b, Peer(b)) /\ Answer(e) \notin Between(b, Peer(b))
    OBVIOUS
<1>1. Word(b).data = HELLO /\ Word(b).src = IdOf[b] /\ Word(b).tgt = IdOf[Peer(b)]
  BY DEF Word, packet
<1>2. Word(b) \in Said(b) /\ Word(b) \in Air BY Constants, Homes, SaidIs DEF Said, Word
<1>3. Peer(b) \in Boots /\ IdOf[b] # IdOf[Peer(b)] /\ IdOf[b] # FAA_ID /\ IdOf[Peer(b)] # FAA_ID
      /\ IdOf[b] # SSS_ID /\ IdOf[Peer(b)] # SSS_ID
  BY Constants
<1>4. Word(b) \in Heard(Peer(b)) BY <1>1, <1>2, <1>3 DEF Heard
<1>5. Word(b) \in Between(b, Peer(b)) BY DEF Word, packet, Between, Texts
<1>6. ~Rad!direct(Word(b)) BY <1>1, <1>3 DEF Rad!direct, Rad!FAA_ID, FAA_ID
<1>7. ASSUME NEW m \in Air \cap Between(b, Peer(b)) PROVE m = Word(b)
  <2>1. m.src = IdOf[b] /\ m.tgt = IdOf[Peer(b)] BY DEF Between
  <2>2. PICK c \in Clients : m \in Said(c) BY SaidIs
  <2>3. Home(c) = Home(b) BY <2>1, <2>2, SaidIs, Homes
  <2>4. c = b BY <2>3, Homes
  <2>5. \/ m = Word(b) \/ m \in [tgt : {FAA_ID}, src : {TGT_ID}, data : Texts]
    BY <2>2, <2>4, Constants DEF Said, Word
  <2> QED BY <1>3, <2>1, <2>5
<1>8. ASSUME NEW e \in Boots
      PROVE  Request(e) \notin Between(b, Peer(b)) /\ Answer(e) \notin Between(b, Peer(b))
  <2>1. Request(e).tgt = SSS_ID /\ Answer(e).src = SSS_ID BY DEF Request, Answer, packet
  <2> QED BY <1>3, <2>1 DEF Between
<1> QED BY <1>1, <1>2, <1>4, <1>5, <1>6, <1>7, <1>8

\* What a controller accepts, and leaves as it is.
LEMMA HeardIs ==
    \A b \in Boots :
        /\ \A m \in Air : Ctl!accepted(b, m) <=> m \in Heard(b)
        /\ \A m \in Heard(b) : Ctl!for_cpu(b, m) = m
<1> SUFFICES ASSUME NEW b \in Boots
             PROVE /\ \A m \in Air : Ctl!accepted(b, m) <=> m \in Heard(b)
                   /\ \A m \in Heard(b) : Ctl!for_cpu(b, m) = m
    OBVIOUS
<1>1. Ctl!BRDCST_ID = BRDCST_ID /\ Ctl!FAA_ID = FAA_ID
  BY DEF BRDCST_ID, FAA_ID, Ctl!BRDCST_ID, Ctl!FAA_ID
<1>2. \A m \in Air : Ctl!accepted(b, m) <=> m \in Heard(b) BY <1>1 DEF Ctl!accepted, Heard
<1>3. ASSUME NEW m \in Heard(b) PROVE Ctl!for_cpu(b, m) = m
  <2>1. PICK c \in Clients : m \in Said(c) BY SaidIs DEF Heard
  <2>2. m = packet(m.tgt, m.src, m.data) BY <2>1, SaidIs
  <2> QED BY <1>1, <2>2 DEF Ctl!for_cpu, Ctl!packet, packet, Heard
<1> QED BY <1>2, <1>3

\* The server echoes the hello to the client, and all else to the FAA.
LEMMA EchoIs ==
    \A m \in Heard(EchoServer) :
        /\ packet(m.src, TGT_ID, m.data) \in Said(EchoServer)
        /\ m.src = IdOf[EchoClient] <=> m = Word(EchoClient)
        /\ m.src = IdOf[EchoClient] => packet(m.src, TGT_ID, m.data) = Word(EchoServer)
        /\ m.src # IdOf[EchoClient]
              => packet(m.src, TGT_ID, m.data) \notin Between(EchoServer, EchoClient)
<1> SUFFICES ASSUME NEW m \in Heard(EchoServer)
    PROVE /\ packet(m.src, TGT_ID, m.data) \in Said(EchoServer)
          /\ m.src = IdOf[EchoClient] <=> m = Word(EchoClient)
          /\ m.src = IdOf[EchoClient] => packet(m.src, TGT_ID, m.data) = Word(EchoServer)
          /\ m.src # IdOf[EchoClient]
                => packet(m.src, TGT_ID, m.data) \notin Between(EchoServer, EchoClient)
    OBVIOUS
<1>1. PICK c \in Clients : m \in Said(c) BY SaidIs DEF Heard
<1>2. m.src = Home(c) /\ m.data \in Texts /\ m.src # IdOf[EchoServer] BY <1>1, SaidIs DEF Heard
<1>3. c # EchoServer BY <1>2, Homes, Constants
<1>4. CASE c = EchoClient
  <2>1. m = Word(EchoClient) BY <1>1, <1>4, Constants DEF Said, Word
  <2>2. m.src = IdOf[EchoClient] /\ m.data = HELLO BY <2>1, WordIs, Constants
  <2>3. packet(m.src, TGT_ID, m.data) = Word(EchoServer) BY <2>2, Constants DEF Word
  <2> QED BY <2>1, <2>2, <2>3, WordIs, Constants
<1>5. CASE c = Faa
  <2>1. m.src = FAA_ID /\ FAA_ID # IdOf[EchoClient] BY <1>2, <1>5, Homes, Constants
  <2>2. m # Word(EchoClient) BY <2>1, WordIs, Constants
  <2>3. packet(m.src, TGT_ID, m.data) \in [tgt : {FAA_ID}, src : {TGT_ID}, data : Texts]
    BY <1>2, <2>1 DEF packet
  <2>4. packet(m.src, TGT_ID, m.data).tgt # IdOf[EchoClient] BY <2>1 DEF packet
  <2> QED BY <2>1, <2>2, <2>3, <2>4, Constants DEF Said, Between
<1> QED BY <1>1, <1>3, <1>4, <1>5, Homes, Constants

-----------------------------------------------------------------------------
(* The invariant.  All of it is about the time until the client has its    *)
(* answer, as long as the server has not said goodbye.                     *)

Lively ==
    /\ stage[EchoServer] # "bye"
    /\ stage[EchoClient] = "hello" \/ Awaiting(EchoClient)

\* Places in the life of a SED b until then: its registration is the first
\* conversation of its program, its controller and the SSS, and succeeds.
Begins(b) ==
    /\ stage[b] = IF b = EchoClient THEN "hello" ELSE "test"
    /\ table[IdOf[b]].status # REG
    /\ cpuRx[b] = <<>> /\ reply[b] = None

Silent(b) ==
    /\ Begins(b)
    /\ cpuTx[b] = <<>> /\ ctlPc[b] = "outer" /\ arrived[b] = 0
    /\ \/ app[b] = "boot" /\ cpuPc[b] = "off" /\ link[b] = "unused"
       \/ app[b] = "boot" /\ cpuPc[b] = "idle" /\ link[b] = "open"
       \/ app[b] = "first" /\ cpuPc[b] = "regSend" /\ link[b] = "open"

Asks(b) ==
    /\ Begins(b)
    /\ app[b] = "first" /\ cpuPc[b] = "regRecv" /\ link[b] = "open"
    /\ \/ cpuTx[b] = <<Request(b)>> /\ ctlPc[b] = "outer" /\ arrived[b] = 0
       \/ /\ cpuTx[b] = <<>> /\ cmd[b] = REG
          /\ \/ ctlPc[b] = "sssHdr" /\ arrived[b] = 0
             \/ ctlPc[b] = "sssBody" /\ reqOp[b] = REG /\ arrived[b] = 1
             \/ ctlPc[b] = "sssWait" /\ reqOp[b] = REG /\ arrived[b] = 2

Granted(b) ==
    /\ stage[b] = IF b = EchoClient THEN "hello" ELSE "test"
    /\ app[b] = "first" /\ cpuPc[b] = "regRecv" /\ link[b] = "open"
    /\ cpuTx[b] = <<>> /\ cpuRx[b] = <<>> /\ cmd[b] = REG
    /\ \/ ctlPc[b] = "sssWait" /\ arrived[b] = 0 /\ reply[b] = REG
       \/ ctlPc[b] = "notify" /\ held[b] = Answer(b)

Relays(b) ==
    /\ link[b] = "open" /\ registered[b] /\ cmd[b] = None
    /\ \/ ctlPc[b] \in {"cpu", "radio"}
       \/ ctlPc[b] = "toRadio" /\ held[b] \in Said(b)
       \/ ctlPc[b] = "toCpu" /\ held[b] \in Heard(b)

\* The answer is the first thing that the CPU hears.
Joins(b) ==
    /\ Relays(b)
    /\ stage[b] = IF b = EchoClient THEN "hello" ELSE "test"
    /\ app[b] = "first" /\ cpuPc[b] = "regRecv"
    /\ cpuTx[b] = <<>>
    /\ cpuRx[b] \in Seq(AnyMsg) /\ cpuRx[b] # <<>> /\ Head(cpuRx[b]) = Answer(b)
    /\ Tail(cpuRx[b]) \in Seq(Heard(b))

Talks(b) ==
    /\ Relays(b)
    /\ cpuTx[b] \in Seq(Said(b)) /\ cpuRx[b] \in Seq(Heard(b))
    /\ \/ cpuPc[b] = "idle" /\ (app[b] = "work" \/ (app[b] = "first" /\ ret[b] = "OK"))
       \/ cpuPc[b] = "recv" /\ app[b] = "work" /\ stage[b] = "received"
    /\ (b = EchoServer /\ stage[b] = "received" /\ cpuPc[b] = "idle") => data[b] \in Heard(b)

Device(b) == Silent(b) \/ Asks(b) \/ Granted(b) \/ Joins(b) \/ Talks(b)

InCalls == {"idle", "regSend", "regRecv", "deregSend", "deregRecv", "deregSkip", "spin", "dead"}

StageTypes ==
    /\ stage \in [Boots -> {"hello", "receive", "test", "received", "bye"}]
    /\ cpuPc \in [Boots -> InCalls \cup {"off", "recv"}]

LocalTypes ==
    /\ app \in [Boots -> Prg!Purposes] /\ ret \in [Boots -> Prg!Results]
    /\ ctlPc \in [Boots -> Ctl!Places] /\ registered \in [Boots -> BOOLEAN]
    /\ cmd \in [Boots -> Ops \cup {None}] /\ reqOp \in [Boots -> Ops]
    /\ arrived \in [Boots -> Nat] /\ reply \in [Boots -> Data \cup {None}]
    /\ table \in [Devices -> Sss!Device \cup {Sss!NoDev}]
    /\ DOMAIN data = Boots /\ DOMAIN held = Boots
    /\ DOMAIN cpuTx = Boots /\ DOMAIN cpuRx = Boots

Seds == LocalTypes /\ \A b \in Boots : Device(b)

\* The emulator, without tools other than the FAA transceiver.
RadioTypes ==
    /\ link \in [Clients -> {"unused", "open"}]
    /\ up \in [Clients -> Seq(Air)] /\ down \in [Clients -> Seq(Air)]
    /\ buf \in [Rad!Ports -> Seq(Air)]
    /\ \A c \in Clients : up[c] \in Seq(Said(c)) /\ buf[Home(c)] \in Seq(Said(c))
    /\ msgs \in Seq(Air)
    /\ rfPc \in {"poll", "read", "mitm", "send", "exited"}
    /\ rfTodo \in Seq(Rad!socks)
    /\ rfPc = "read" => port \in Rad!socks

Sending ==
    /\ hearers \in Seq(Rad!socks)
    /\ \A i, j \in 1..Len(hearers) : hearers[i] = hearers[j] => i = j
    /\ hearers # <<>> <=> rfPc = "send"
    /\ rfPc = "send" => msg \in Air

\* Whoever is connected is the one that is heard at its port.
Sockets ==
    /\ csock \in [Rad!Ports -> Clients \cup {None}]
    /\ waiting \in [Rad!Ports -> Seq(Clients)]
    /\ \A p \in Rad!Ports :
         \/ /\ csock[p] = None /\ waiting[p] = <<>>
            /\ \A c \in Clients : Home(c) = p => link[c] = "unused"
         \/ \E c \in Clients :
              /\ Home(c) = p /\ link[c] = "open"
              /\ \/ csock[p] = c /\ waiting[p] = <<>>
                 \/ csock[p] = None /\ waiting[p] = <<c>>

\* How many of the messages in P are at each place between b's CPU and c's.
FromCpu(b, P)      == Count(Ctl!Untaken(cpuTx, "toRadio")[b], P)
Written(b, P)      == Count(up[b], P)
Buffered(b, P)     == Count(buf[IdOf[b]], P)
InBatch(P)         == Count(msgs, P)
OnAir(c, P)        == IF IdOf[c] \in ToSet(hearers) /\ msg \in P THEN 1 ELSE 0
ToController(c, P) == Count(Ctl!Untaken(down, "toCpu")[c], P)
AtCpu(c, P)        == Count(cpuRx[c], P)

\* On b's side of the emulator, in it, and on c's side of it.
Before(b, P)    == FromCpu(b, P) + Written(b, P)
Within(b, c, P) == Buffered(b, P) + InBatch(P) + OnAir(c, P)
Beyond(c, P)    == ToController(c, P) + AtCpu(c, P)

Way(b) ==
    LET c == Peer(b)
        P == Between(b, c)
    IN  Before(b, P) + Within(b, c, P) + Beyond(c, P)

Echoing == IF InEcho THEN 1 ELSE 0

\* The hello, or its echo, is at one place - once it has been said.
OneOfIt ==
    /\ stage[EchoClient] # "hello" => link[EchoClient] = "open"
    /\ met => link[EchoServer] = "open"
    /\ stage[EchoClient] = "hello" \/ met =>
         Way(EchoClient) + Way(EchoServer) + Echoing
           = IF stage[EchoClient] = "hello" THEN 0 ELSE 1

Whole == Seds /\ RadioTypes /\ Sending /\ Sockets /\ OneOfIt

Inv == StageTypes /\ orders \subseteq Orders /\ (Lively => Whole)

-----------------------------------------------------------------------------
(* Once it is over it stays so.                                            *)

LEMMA StageSteps ==
    ASSUME [Next]_vars
    PROVE  \/ UNCHANGED <<stage, cpuPc>>
           \/ \E b \in Boots : ProgramStep(b)
           \/ \E b \in Boots : UNCHANGED stage /\ cpuPc' = [cpuPc EXCEPT ![b] = "idle"] /\ Launch(b)
<1>1. CASE UNCHANGED vars BY <1>1 DEF vars, cpuVars
<1>2. CASE SssServes \/ SssForgets \/ RadioStep \/ FaaStarts \/ FaaSends \/ FaaShows
  BY <1>2 DEF SssServes, SssForgets, RadioStep, FaaStarts, FaaSends, FaaShows, cpuVars
<1>3. CASE \E b \in Boots : Launch(b) BY <1>3 DEF Launch
<1>4. CASE \E b \in Boots : KillController(b) \/ ControllerStep(b)
  BY <1>4 DEF KillController, ControllerStep
<1>5. CASE \E b \in Boots : ProgramStep(b) BY <1>5
<1> QED BY <1>1, <1>2, <1>3, <1>4, <1>5 DEF Next

\* Where a step of a program can take it.
CpuAt(b, s) == cpuPc' = [cpuPc EXCEPT ![b] = s]

LEMMA ProgramStages ==
    ASSUME NEW b \in Boots, ProgramStep(b)
    PROVE  \/ UNCHANGED stage /\ \E s \in InCalls : CpuAt(b, s)
           \/ stage[b] = "hello" /\ b = EchoClient /\ ToStage(b, "receive") /\ CpuAt(b, "idle")
           \/ /\ stage[b] = "receive" \/ (stage[b] = "test" /\ b = EchoServer)
              /\ ToStage(b, "received") /\ CpuAt(b, "recv")
           \/ stage[b] = "received" /\ b = EchoServer /\ ToStage(b, "test") /\ CpuAt(b, "idle")
           \/ ToStage(b, "bye") /\ (UNCHANGED cpuPc \/ \E s \in InCalls : CpuAt(b, s))
<1> DEFINE Goes == \E s \in InCalls : CpuAt(b, s)
<1>1. CASE Frame(b)
  <2>1. ASSUME Prg!FirstRegister(b) \/ Prg!RegisterAgain(b) PROVE Goes
    <3>1. CpuAt(b, "regSend")
      BY <2>1 DEF CpuAt, Prg!FirstRegister, Prg!RegisterAgain, Prg!CallRegister, Prg!Goto
    <3> QED BY <3>1 DEF InCalls
  <2>2. ASSUME Prg!Recover(b) PROVE Goes
    <3>1. CpuAt(b, "deregSend") BY <2>2 DEF CpuAt, Prg!Recover, Prg!CallDeregister, Prg!Goto
    <3> QED BY <3>1 DEF InCalls
  <2>3. ASSUME Prg!Exit(b) PROVE Goes
    <3>1. CpuAt(b, "dead") BY <2>3 DEF CpuAt, Prg!Exit, Prg!Ends, Prg!Goto
    <3> QED BY <3>1 DEF InCalls
  <2>4. Goes BY <1>1, <2>1, <2>2, <2>3 DEF Frame, Prg!Frame
  <2> QED BY <1>1, <2>4 DEF Frame
<1>2. CASE InCall(b)
  <2>1. Prg!Step(b) BY <1>2 DEF InCall, Prg!InCall
  <2>2. ASSUME Prg!RecvRegister(b) \/ Prg!RecvRegisterEof(b) \/ Prg!Recv(b) \/ Prg!RecvEof(b)
        PROVE  Goes
    <3>1. CpuAt(b, "idle")
      BY <2>2 DEF CpuAt, Prg!RecvRegister, Prg!RecvRegisterEof, Prg!Recv, Prg!RecvEof, Prg!Return
    <3> QED BY <3>1 DEF InCalls
  <2>3. ASSUME Prg!SigPipe(b) \/ Prg!SendRegister(b) \/ Prg!SendDeregister(b)
        PROVE  Goes
    <3>1. CpuAt(b, "dead") \/ CpuAt(b, "regRecv") \/ CpuAt(b, "deregRecv")
      BY <2>3 DEF CpuAt, Prg!SigPipe, Prg!SendRegister, Prg!SendDeregister, Prg!Goto
    <3> QED BY <3>1 DEF InCalls
  <2>4. ASSUME Prg!RecvDeregister(b) \/ Prg!RecvDeregisterEof(b) PROVE Goes
    <3>1. CpuAt(b, "idle") \/ CpuAt(b, "deregSkip") \/ CpuAt(b, "spin")
      BY <2>4 DEF CpuAt, Prg!RecvDeregister, Prg!RecvDeregisterEof, Prg!Goto, Prg!Return
    <3> QED BY <3>1 DEF InCalls
  <2>5. Goes BY <2>1, <2>2, <2>3, <2>4 DEF Prg!Step
  <2> QED BY <1>2, <2>5 DEF InCall
<1>3. CASE Receive(b)
  <2>1. CpuAt(b, "recv") BY <1>3 DEF CpuAt, Receive, Prg!CallRecv, Prg!Goto
  <2>2. stage[b] = "receive" \/ (stage[b] = "test" /\ b = EchoServer) BY <1>3 DEF Receive, At
  <2>3. ToStage(b, "received") BY <1>3 DEF Receive
  <2> QED BY <2>1, <2>2, <2>3
<1>4. CASE Bye(b)
  <2>1. CpuAt(b, "deregSend") BY <1>4 DEF CpuAt, Bye, Prg!Leave, Prg!CallDeregister, Prg!Goto
  <2> QED BY <1>4, <2>1 DEF Bye, InCalls
<1>5. CASE b = EchoClient /\ SayHello
  BY <1>5 DEF CpuAt, SayHello, At, Prg!CallSend, Prg!Return
<1>6. CASE b = EchoClient /\ Check
  <2>1. UNCHANGED cpuPc \/ CpuAt(b, "idle") BY <1>6 DEF CpuAt, Check, Prg!CallSend, Prg!Return
  <2> QED BY <1>6, <2>1 DEF Check, InCalls
<1>7. CASE b = EchoServer /\ Echo
  BY <1>7 DEF CpuAt, Echo, At, Prg!CallSend, Prg!Return
<1> QED BY <1>1, <1>2, <1>3, <1>4, <1>5, <1>6, <1>7 DEF ProgramStep

LEMMA StagesTyped == StageTypes /\ [Next]_vars => StageTypes'
<1> SUFFICES ASSUME StageTypes, [Next]_vars PROVE StageTypes' OBVIOUS
<1>1. CASE UNCHANGED <<stage, cpuPc>> BY <1>1 DEF StageTypes
<1>2. CASE \E b \in Boots : ProgramStep(b)
  <2>1. PICK b \in Boots : ProgramStep(b) BY <1>2
  <2>2. stage' \in [Boots -> {"hello", "receive", "test", "received", "bye"}]
    <3>1. UNCHANGED stage \/ ToStage(b, "receive") \/ ToStage(b, "received")
          \/ ToStage(b, "test") \/ ToStage(b, "bye")
      BY <2>1, ProgramStages
    <3> QED BY <3>1 DEF StageTypes, ToStage
  <2>3. cpuPc' \in [Boots -> InCalls \cup {"off", "recv"}]
    <3>1. UNCHANGED cpuPc \/ \E s \in InCalls \cup {"recv"} : CpuAt(b, s)
      BY <2>1, ProgramStages DEF InCalls
    <3> QED BY <3>1 DEF StageTypes, CpuAt, InCalls
  <2> QED BY <2>2, <2>3 DEF StageTypes
<1>3. CASE \E b \in Boots : UNCHANGED stage /\ cpuPc' = [cpuPc EXCEPT ![b] = "idle"]
  BY <1>3 DEF StageTypes, InCalls
<1> QED BY <1>1, <1>2, <1>3, StageSteps

LEMMA OnceLively == StageTypes /\ [Next]_vars /\ Lively' => Lively
<1> SUFFICES ASSUME StageTypes, [Next]_vars, Lively' PROVE Lively OBVIOUS
<1>1. CASE UNCHANGED <<stage, cpuPc>> BY <1>1 DEF Lively, Awaiting
<1>2. CASE \E b \in Boots : ProgramStep(b)
  <2>1. PICK b \in Boots : ProgramStep(b) BY <1>2
  <2> QED BY <2>1, ProgramStages, Constants
       DEF StageTypes, Lively, Awaiting, ToStage, CpuAt, InCalls
<1>3. CASE \E b \in Boots : UNCHANGED stage /\ cpuPc' = [cpuPc EXCEPT ![b] = "idle"]
  BY <1>3, Constants DEF StageTypes, Lively, Awaiting
<1> QED BY <1>1, <1>2, <1>3, StageSteps

-----------------------------------------------------------------------------
(* The SEDs.                                                               *)

\* What a SED's place depends on.
Own(b) ==
    <<app[b], cpuPc[b], ret[b], stage[b], data[b], cpuTx[b], cpuRx[b], ctlPc[b],
      cmd[b], held[b], registered[b], reqOp[b], arrived[b], reply[b], link[b]>>

LEMMA StillDevice ==
    ASSUME NEW b \in Boots, Device(b), UNCHANGED Own(b),
           table'[IdOf[b]].status = REG => table[IdOf[b]].status = REG
    PROVE  Device(b)'
<1>1. Begins(b) => Begins(b)' BY DEF Begins, Own
<1>2. Relays(b) => Relays(b)' BY DEF Relays, Own, Said, Heard, Air
<1>3. Silent(b) => Silent(b)' BY <1>1 DEF Silent, Own
<1>4. Asks(b) => Asks(b)' BY <1>1 DEF Asks, Own, Request
<1>5. Granted(b) => Granted(b)' BY DEF Granted, Own, Answer
<1>6. Joins(b) => Joins(b)' BY <1>2 DEF Joins, Own, Request, Answer, Said, Heard, Air, AnyMsg
<1>7. Talks(b) => Talks(b)' BY <1>2 DEF Talks, Own, Said, Heard, Air
<1> QED BY <1>3, <1>4, <1>5, <1>6, <1>7 DEF Device

LEMMA OthersStill ==
    ASSUME Seds, NEW b \in Boots, LocalTypes', Device(b)',
           \A e \in Boots \ {b} :
              /\ UNCHANGED Own(e)
              /\ table'[IdOf[e]].status = REG => table[IdOf[e]].status = REG
    PROVE  Seds'
<1>1. ASSUME NEW e \in Boots PROVE Device(e)'
  <2>1. CASE e = b BY <2>1
  <2>2. CASE e # b BY <2>2, StillDevice DEF Seds
  <2> QED BY <2>1, <2>2
<1> QED BY <1>1 DEF Seds

\* The calls of a program that can be before the client has its answer.
LEMMA ProgramCases ==
    ASSUME Seds, StageTypes, Lively', NEW b \in Boots, ProgramStep(b)
    PROVE  \/ UNCHANGED <<stage, data, met>> /\ Silent(b) /\ Prg!FirstRegister(b)
           \/ UNCHANGED <<app, stage, data, met>> /\ Silent(b) /\ Prg!SendRegister(b)
           \/ UNCHANGED <<app, stage, data, met>> /\ Joins(b) /\ Prg!RecvRegister(b)
           \/ Talks(b) /\ Receive(b)
           \/ Talks(b) /\ Prg!Recv(b) /\ InCall(b) /\ b = EchoServer
           \/ Talks(b) /\ b = EchoClient /\ SayHello
           \/ Talks(b) /\ b = EchoServer /\ Echo
<1> DEFINE Goal ==
           \/ UNCHANGED <<stage, data, met>> /\ Silent(b) /\ Prg!FirstRegister(b)
           \/ UNCHANGED <<app, stage, data, met>> /\ Silent(b) /\ Prg!SendRegister(b)
           \/ UNCHANGED <<app, stage, data, met>> /\ Joins(b) /\ Prg!RecvRegister(b)
           \/ Talks(b) /\ Receive(b)
           \/ Talks(b) /\ Prg!Recv(b) /\ InCall(b) /\ b = EchoServer
           \/ Talks(b) /\ b = EchoClient /\ SayHello
           \/ Talks(b) /\ b = EchoServer /\ Echo
<1> SUFFICES Goal OBVIOUS
<1> HIDE DEF Goal
<1>1. Device(b) /\ link[b] # "closed"
      /\ (cpuPc[b] = "idle" => Silent(b) \/ Talks(b))
      /\ (cpuPc[b] = "regSend" => Silent(b))
      /\ (cpuPc[b] = "regRecv" => Joins(b) \/ cpuRx[b] = <<>>)
      /\ (cpuPc[b] = "recv" => Talks(b))
      /\ cpuPc[b] \in {"off", "idle", "regSend", "regRecv", "recv"}
  BY DEF Seds, Device, Silent, Asks, Granted, Joins, Talks, Relays, Begins
<1>2. CASE Frame(b)
  <2>1. ASSUME Prg!FirstRegister(b) PROVE Goal
    <3>1. cpuPc[b] = "idle" /\ app[b] = "boot"
      BY <2>1 DEF Prg!FirstRegister, Prg!At
    <3>2. Silent(b) BY <1>1, <3>1 DEF Talks
    <3> QED BY <1>2, <2>1, <3>2 DEF Frame, Goal
  <2>2. ~Prg!Recover(b) BY <1>1 DEF Prg!Recover, Prg!At, Silent, Talks
  <2>3. ~Prg!RegisterAgain(b) BY <1>1 DEF Prg!RegisterAgain, Prg!At, Silent, Talks
  <2>4. ~Prg!Exit(b) BY <1>1 DEF Prg!Exit, Prg!At, Silent, Talks
  <2> QED BY <1>2, <2>1, <2>2, <2>3, <2>4 DEF Frame, Prg!Frame
<1>3. CASE InCall(b)
  <2>1. Prg!Step(b) /\ UNCHANGED <<app, stage, met>> BY <1>3 DEF InCall, Prg!InCall
  <2>2. cpuPc[b] # "recv" => UNCHANGED data BY <1>3 DEF InCall
  <2>3. ~Prg!SigPipe(b) /\ ~Prg!RecvRegisterEof(b) /\ ~Prg!RecvEof(b)
    BY <1>1 DEF Prg!SigPipe, Prg!RecvRegisterEof, Prg!RecvEof, Prg!Eof
  <2>4. ~Prg!SendDeregister(b) /\ ~Prg!RecvDeregister(b) /\ ~Prg!RecvDeregisterEof(b)
    BY <1>1 DEF Prg!SendDeregister, Prg!RecvDeregister, Prg!RecvDeregisterEof
  <2>5. ASSUME Prg!SendRegister(b) PROVE Goal
    <3>1. cpuPc[b] = "regSend" BY <2>5 DEF Prg!SendRegister
    <3> QED BY <1>1, <2>1, <2>2, <2>5, <3>1 DEF Goal
  <2>6. ASSUME Prg!RecvRegister(b) PROVE Goal
    <3>1. cpuPc[b] = "regRecv" /\ cpuRx[b] # <<>> BY <2>6 DEF Prg!RecvRegister, Prg!Delivered
    <3> QED BY <1>1, <2>1, <2>2, <2>6, <3>1 DEF Goal
  <2>7. ASSUME Prg!Recv(b) PROVE Goal
    <3>1. cpuPc[b] = "recv" /\ cpuPc' = [cpuPc EXCEPT ![b] = "idle"]
      BY <2>7 DEF Prg!Recv, Prg!Return
    <3>2. Talks(b) BY <1>1, <3>1
    <3>3. stage[b] = "received" BY <3>1, <3>2 DEF Talks
    <3>4. b # EchoClient BY <2>1, <3>1, <3>3 DEF Lively, Awaiting, StageTypes
    <3> QED BY <1>3, <2>7, <3>2, <3>4, Constants DEF Goal
  <2> QED BY <2>1, <2>3, <2>4, <2>5, <2>6, <2>7 DEF Prg!Step
<1>4. ASSUME ToStage(b, "bye") PROVE FALSE BY <1>4, Constants DEF ToStage, StageTypes, Lively, Awaiting
<1>5. ASSUME Prg!Working(b) PROVE Talks(b)
  BY <1>1, <1>5 DEF Prg!Working, Prg!At, Silent
<1>6. CASE Receive(b) BY <1>5, <1>6 DEF Receive, At, Goal
<1>8. ~Bye(b) BY <1>4 DEF Bye
<1>9. CASE b = EchoClient /\ SayHello BY <1>5, <1>9 DEF SayHello, At, Goal
<1>10. CASE b = EchoServer /\ Echo BY <1>5, <1>10 DEF Echo, At, Goal
<1>11. ~(b = EchoClient /\ Check) BY <1>4 DEF Check
<1> QED BY <1>2, <1>3, <1>6, <1>8, <1>9, <1>10, <1>11 DEF ProgramStep

\* What a program's step changes, for all that it does.
LEMMA ProgramFrame ==
    ASSUME NEW b \in Boots, ProgramStep(b)
    PROVE  /\ UNCHANGED <<ctlPc, registered, cmd, held, reqOp, arrived, reply, table, sssDown>>
           /\ UNCHANGED <<up, down, waiting, csock, buf, rfPc, rfTodo, port, msgs, msg, hearers>>
BY DEF ProgramStep, ctlVars, reqVars, sssVars, radioVars

LEMMA ProgramSeds ==
    ASSUME Seds, StageTypes, Lively', NEW b \in Boots, ProgramStep(b)
    PROVE  Seds'
<1> DEFINE Others == \A e \in Boots \ {b} :
              /\ UNCHANGED Own(e)
              /\ table'[IdOf[e]].status = REG => table[IdOf[e]].status = REG
<1> SUFFICES LocalTypes' /\ Device(b)' /\ Others BY OthersStill
<1>1. UNCHANGED <<ctlPc, registered, cmd, held, reqOp, arrived, reply, table>> BY ProgramFrame
<1>2. LocalTypes /\ Device(b) BY DEF Seds
<1>3. CASE UNCHANGED <<stage, data, met>> /\ Silent(b) /\ Prg!FirstRegister(b)
  <2>1. /\ UNCHANGED <<link, cpuTx, cpuRx>>
        /\ app' = [app EXCEPT ![b] = "first"]
        /\ cpuPc' = [cpuPc EXCEPT ![b] = "regSend"] /\ ret' = [ret EXCEPT ![b] = None]
        /\ cpuPc[b] = "idle"
    BY <1>3 DEF Prg!FirstRegister, Prg!CallRegister, Prg!Goto, Prg!Move, Prg!None, None
  <2>2. LocalTypes' BY <1>1, <1>2, <1>3, <2>1 DEF LocalTypes, Prg!Purposes, Prg!Results, Prg!None, None
  <2>3. link[b] = "open" BY <1>3, <2>1 DEF Silent
  <2>4. Begins(b)' BY <1>1, <1>3, <2>1 DEF Silent, Begins
  <2>5. Silent(b)' BY <1>1, <1>2, <1>3, <2>1, <2>3, <2>4 DEF Silent, LocalTypes, StageTypes
  <2>6. Others BY <1>1, <1>2, <1>3, <2>1 DEF Own, LocalTypes, StageTypes
  <2> QED BY <2>2, <2>5, <2>6 DEF Device
<1>4. CASE UNCHANGED <<app, stage, data, met>> /\ Silent(b) /\ Prg!SendRegister(b)
  <2>1. /\ UNCHANGED <<link, cpuRx>>
        /\ cpuTx' = [cpuTx EXCEPT ![b] = Append(@, Request(b))]
        /\ cpuPc' = [cpuPc EXCEPT ![b] = "regRecv"] /\ ret' = [ret EXCEPT ![b] = None]
        /\ cpuPc[b] = "regSend"
    BY <1>4 DEF Prg!SendRegister, Prg!scewl_send, Prg!Goto, Prg!None, None, Request,
                Prg!packet, packet, Prg!SSS_ID, SSS_ID, Prg!REG, REG
  <2>2. LocalTypes' BY <1>1, <1>2, <1>4, <2>1 DEF LocalTypes, Prg!Results, Prg!None, None
  <2>3. link[b] = "open" /\ app[b] = "first" BY <1>4, <2>1 DEF Silent
  <2>4. Begins(b)' BY <1>1, <1>4, <2>1 DEF Silent, Begins
  <2>5. cpuTx'[b] = <<Request(b)>>
    <3>1. cpuTx[b] = <<>> BY <1>4 DEF Silent
    <3> QED BY <1>2, <2>1, <3>1 DEF LocalTypes
  <2>6. Asks(b)' BY <1>1, <1>2, <1>4, <2>1, <2>3, <2>4, <2>5 DEF Silent, Asks, LocalTypes, StageTypes, Request
  <2>7. Others BY <1>1, <1>2, <1>4, <2>1 DEF Own, LocalTypes, StageTypes
  <2> QED BY <2>2, <2>6, <2>7 DEF Device
<1>5. CASE UNCHANGED <<app, stage, data, met>> /\ Joins(b) /\ Prg!RecvRegister(b)
  <2>1. /\ UNCHANGED <<link, cpuTx>>
        /\ cpuRx' = [cpuRx EXCEPT ![b] = Tail(@)]
        /\ cpuPc' = [cpuPc EXCEPT ![b] = "idle"]
        /\ ret' = [ret EXCEPT ![b] = Prg!register_result(Head(cpuRx[b]).data)]
    BY <1>5 DEF Prg!RecvRegister, Prg!Consume, Prg!Return
  <2>2. Prg!register_result(Head(cpuRx[b]).data) = "OK"
    BY <1>5 DEF Joins, Answer, packet, Prg!register_result, Prg!REG, REG
  <2>3. LocalTypes' BY <1>1, <1>2, <1>5, <2>1, <2>2 DEF LocalTypes, Prg!Results
  <2>4. Relays(b)' BY <1>1, <1>5, <2>1 DEF Joins, Relays, Said, Heard, Air
  <2>5. cpuTx[b] = <<>> /\ app[b] = "first" /\ Tail(cpuRx[b]) \in Seq(Heard(b))
        /\ stage[b] # "received"
    BY <1>5, Constants DEF Joins
  <2>6. cpuTx'[b] \in Seq(Said(b)) /\ cpuRx'[b] \in Seq(Heard(b)) BY <1>2, <2>1, <2>5 DEF LocalTypes
  <2>7. ret'[b] = "OK" /\ cpuPc'[b] = "idle" BY <1>2, <2>1, <2>2 DEF LocalTypes, StageTypes
  <2>8. Talks(b)' BY <1>5, <2>4, <2>5, <2>6, <2>7 DEF Talks, Said, Heard, Air
  <2>9. Others BY <1>1, <1>2, <1>5, <2>1 DEF Own, LocalTypes, StageTypes
  <2> QED BY <2>3, <2>8, <2>9 DEF Device
<1>6. CASE Talks(b) /\ Receive(b)
  <2>1. /\ UNCHANGED <<link, cpuTx, cpuRx, data>>
        /\ app' = [app EXCEPT ![b] = "work"] /\ stage' = [stage EXCEPT ![b] = "received"]
        /\ cpuPc' = [cpuPc EXCEPT ![b] = "recv"] /\ ret' = [ret EXCEPT ![b] = None]
    BY <1>6 DEF Receive, Prg!CallRecv, Prg!Goto, Prg!Move, Prg!None, None, Works, ToStage
  <2>2. LocalTypes' BY <1>1, <1>2, <2>1 DEF LocalTypes, Prg!Purposes, Prg!Results, Prg!None, None
  <2>3. Relays(b)' BY <1>1, <1>6, <2>1 DEF Talks, Relays, Said, Heard, Air
  <2>4. Talks(b)' BY <1>2, <1>6, <2>1, <2>3 DEF Talks, Said, Heard, Air, LocalTypes, StageTypes
  <2>5. Others BY <1>1, <1>2, <2>1 DEF Own, LocalTypes, StageTypes
  <2> QED BY <2>2, <2>4, <2>5 DEF Device
<1>7. CASE Talks(b) /\ Prg!Recv(b) /\ InCall(b) /\ b = EchoServer
  <2>1. /\ UNCHANGED <<link, cpuTx, app, stage>>
        /\ cpuPc[b] = "recv" /\ cpuRx[b] # <<>>
        /\ cpuRx' = [cpuRx EXCEPT ![b] = Tail(@)] /\ data' = [data EXCEPT ![b] = Head(cpuRx[b])]
        /\ cpuPc' = [cpuPc EXCEPT ![b] = "idle"] /\ ret' = [ret EXCEPT ![b] = "MSG"]
    BY <1>7 DEF Prg!Recv, Prg!Delivered, Prg!Consume, Prg!Return, InCall, Prg!InCall
  <2>2. LocalTypes' BY <1>1, <1>2, <2>1 DEF LocalTypes, Prg!Results
  <2>3. Relays(b)' BY <1>1, <1>7, <2>1 DEF Talks, Relays, Said, Heard, Air
  <2>4. Head(cpuRx[b]) \in Heard(b) /\ Tail(cpuRx[b]) \in Seq(Heard(b))
    BY <1>7, <2>1, HeadTailProperties DEF Talks
  <2>5. Talks(b)' BY <1>2, <1>7, <2>1, <2>3, <2>4 DEF Talks, Said, Heard, Air, LocalTypes, StageTypes
  <2>6. Others BY <1>1, <1>2, <2>1 DEF Own, LocalTypes, StageTypes
  <2> QED BY <2>2, <2>5, <2>6 DEF Device
<1>8. ASSUME Talks(b), NEW m \in Said(b), NEW s, s # "received",
             cpuTx' = [cpuTx EXCEPT ![b] = Append(@, m)], stage' = [stage EXCEPT ![b] = s],
             app' = [app EXCEPT ![b] = "work"], cpuPc' = [cpuPc EXCEPT ![b] = "idle"],
             ret' = [ret EXCEPT ![b] = "OK"], UNCHANGED <<link, cpuRx, data>>
      PROVE  LocalTypes' /\ Device(b)' /\ Others
  <2>1. LocalTypes' BY <1>1, <1>2, <1>8 DEF LocalTypes, Prg!Purposes, Prg!Results
  <2>2. Relays(b)' BY <1>1, <1>8 DEF Talks, Relays, Said, Heard, Air
  <2>3. cpuTx'[b] \in Seq(Said(b))
    <3>1. cpuTx[b] \in Seq(Said(b)) BY <1>8 DEF Talks
    <3> QED BY <1>2, <1>8, <3>1, AppendProperties DEF LocalTypes
  <2>4. Talks(b)' BY <1>2, <1>8, <2>2, <2>3 DEF Talks, Said, Heard, Air, LocalTypes, StageTypes
  <2>5. Others BY <1>1, <1>2, <1>8 DEF Own, LocalTypes, StageTypes
  <2> QED BY <2>1, <2>4, <2>5 DEF Device
<1>9. CASE Talks(b) /\ b = EchoClient /\ SayHello
  <2>1. /\ cpuTx' = [cpuTx EXCEPT ![b] = Append(@, Word(b))] /\ UNCHANGED <<link, cpuRx, data>>
        /\ stage' = [stage EXCEPT ![b] = "receive"] /\ app' = [app EXCEPT ![b] = "work"]
        /\ cpuPc' = [cpuPc EXCEPT ![b] = "idle"] /\ ret' = [ret EXCEPT ![b] = "OK"]
    BY <1>9, Constants DEF SayHello, Prg!CallSend, Prg!scewl_send, Prg!Return, Prg!Move,
        Prg!packet, packet, Word, Works, ToStage
  <2> QED BY <1>8, <1>9, <2>1, WordIs
<1>10. CASE Talks(b) /\ b = EchoServer /\ Echo
  <2>1. stage[b] = "received" /\ cpuPc[b] = "idle" BY <1>10 DEF Echo, At, Prg!CallSend
  <2>2. data[b] \in Heard(b) BY <1>10, <2>1 DEF Talks
  <2>3. PICK m \in Said(b) : m = packet(data[b].src, TGT_ID, data[b].data) BY <1>10, <2>2, EchoIs
  <2>4. /\ cpuTx' = [cpuTx EXCEPT ![b] = Append(@, m)] /\ UNCHANGED <<link, cpuRx, data>>
        /\ stage' = [stage EXCEPT ![b] = "test"] /\ app' = [app EXCEPT ![b] = "work"]
        /\ cpuPc' = [cpuPc EXCEPT ![b] = "idle"] /\ ret' = [ret EXCEPT ![b] = "OK"]
    BY <1>10, <2>3, Constants DEF Echo, Prg!CallSend, Prg!scewl_send, Prg!Return, Prg!Move,
        Prg!packet, packet, Works, ToStage
  <2> QED BY <1>8, <1>10, <2>4
<1> QED BY <1>3, <1>4, <1>5, <1>6, <1>7, <1>9, <1>10, ProgramCases

\* A controller's steps, as long as its registration is the first: it asks the
\* SSS, or relays.
Asking(b) ==
    /\ UNCHANGED <<up, down>>
    /\ \/ /\ Asks(b) /\ UNCHANGED <<cpuRx, held, registered, reply>>
          /\ \/ /\ cpuTx[b] = <<Request(b)>> /\ ctlPc[b] = "outer"
                /\ cpuTx' = [cpuTx EXCEPT ![b] = <<>>] /\ cmd' = [cmd EXCEPT ![b] = REG]
                /\ ctlPc' = [ctlPc EXCEPT ![b] = "sssHdr"] /\ UNCHANGED <<reqOp, arrived>>
             \/ /\ ctlPc[b] = "sssHdr" /\ UNCHANGED <<cpuTx, cmd>>
                /\ ctlPc' = [ctlPc EXCEPT ![b] = "sssBody"]
                /\ reqOp' = [reqOp EXCEPT ![b] = REG] /\ arrived' = [arrived EXCEPT ![b] = @ + 1]
             \/ /\ ctlPc[b] = "sssBody" /\ UNCHANGED <<cpuTx, cmd, reqOp>>
                /\ ctlPc' = [ctlPc EXCEPT ![b] = "sssWait"]
                /\ arrived' = [arrived EXCEPT ![b] = @ + 1]
       \/ /\ Granted(b) /\ UNCHANGED <<cpuTx, reqOp, arrived>>
          /\ \/ /\ ctlPc[b] = "sssWait" /\ held' = [held EXCEPT ![b] = Answer(b)]
                /\ ctlPc' = [ctlPc EXCEPT ![b] = "notify"] /\ reply' = [reply EXCEPT ![b] = None]
                /\ UNCHANGED <<cmd, registered, cpuRx>>
             \/ /\ ctlPc[b] = "notify" /\ held' = [held EXCEPT ![b] = NoMsg] /\ UNCHANGED reply
                /\ ctlPc' = [ctlPc EXCEPT ![b] = "cpu"] /\ cmd' = [cmd EXCEPT ![b] = None]
                /\ registered' = [registered EXCEPT ![b] = TRUE]
                /\ cpuRx' = [cpuRx EXCEPT ![b] = <<Answer(b)>>]

Relaying(b) ==
    /\ Joins(b) \/ Talks(b)
    /\ UNCHANGED <<cmd, registered, reqOp, arrived, reply>>
    /\ \/ \* from the CPU
          /\ ctlPc[b] = "cpu" /\ cpuTx[b] # <<>> /\ Talks(b) /\ UNCHANGED <<cpuRx, up, down>>
          /\ held' = [held EXCEPT ![b] = Head(cpuTx[b])] /\ cpuTx' = [cpuTx EXCEPT ![b] = Tail(@)]
          /\ ctlPc' = [ctlPc EXCEPT ![b] = "toRadio"]
       \/ /\ ctlPc[b] = "toRadio" /\ held[b] \in Said(b) /\ UNCHANGED <<cpuTx, cpuRx, down>>
          /\ held' = [held EXCEPT ![b] = NoMsg] /\ up' = [up EXCEPT ![b] = Append(@, held[b])]
          /\ ctlPc' = [ctlPc EXCEPT ![b] = "cpu"]
       \/ \* from the air
          /\ ctlPc[b] = "radio" /\ down[b] # <<>> /\ UNCHANGED <<cpuTx, cpuRx, up>>
          /\ Head(down[b]) \in Heard(b) /\ down' = [down EXCEPT ![b] = Tail(@)]
          /\ held' = [held EXCEPT ![b] = Head(down[b])] /\ ctlPc' = [ctlPc EXCEPT ![b] = "toCpu"]
       \/ /\ ctlPc[b] = "radio" /\ down[b] # <<>> /\ UNCHANGED <<cpuTx, cpuRx, up, held>>
          /\ Head(down[b]) \notin Heard(b) /\ down' = [down EXCEPT ![b] = Tail(@)]
          /\ ctlPc' = [ctlPc EXCEPT ![b] = "cpu"]
       \/ /\ ctlPc[b] = "toCpu" /\ held[b] \in Heard(b) /\ UNCHANGED <<cpuTx, up, down>>
          /\ held' = [held EXCEPT ![b] = NoMsg] /\ cpuRx' = [cpuRx EXCEPT ![b] = Append(@, held[b])]
          /\ ctlPc' = [ctlPc EXCEPT ![b] = "cpu"]
       \/ \* nothing there
          /\ UNCHANGED <<cpuTx, cpuRx, up, down, held>> /\ ctlPc[b] \in {"cpu", "radio"}
          /\ \E place \in {"cpu", "radio"} : ctlPc' = [ctlPc EXCEPT ![b] = place]

LEMMA ControllerFrame ==
    ASSUME NEW b \in Boots, ControllerStep(b)
    PROVE  /\ UNCHANGED <<app, cpuPc, ret, stage, data, met, link, table, sssDown>>
           /\ UNCHANGED <<waiting, csock, buf, rfPc, rfTodo, port, msgs, msg, hearers>>
<1>1. UNCHANGED <<app, cpuPc, ret, stage, data, met, table, sssDown>>
  BY DEF ControllerStep, sssVars
<1>2. UNCHANGED <<waiting, csock, buf, rfPc, rfTodo, port, msgs, msg, hearers>>
  BY DEF ControllerStep, radioVars
<1>3. UNCHANGED link
  BY DEF ControllerStep, Ctl!Step, Ctl!ReadCommand, Ctl!PollCpu, Ctl!CpuQuiet, Ctl!WriteRadio,
         Ctl!PollRadio, Ctl!RadioQuiet, Ctl!WriteCpu, Ctl!WriteRequestHeader,
         Ctl!WriteRequestBody, Ctl!ReadAnswer, Ctl!NotifyCpu, Ctl!sssLink
<1> QED BY <1>1, <1>2, <1>3

\* The vocabulary is the same in every module.
LEMMA SameWords ==
    /\ Ctl!SSS_ID = SSS_ID /\ Ctl!REG = REG /\ Ctl!DEREG = DEREG /\ Ctl!None = None
    /\ Ctl!Ops = Ops /\ REG \in Ops /\ REG # None /\ None \notin Ops /\ None \notin Data
    /\ Ctl!NoMsg = NoMsg /\ \A t, s, d : Ctl!packet(t, s, d) = packet(t, s, d)
    /\ REG # DEREG /\ REG \in Data /\ Sss!Ops = Ops
BY DEF Ctl!SSS_ID, SSS_ID, Ctl!REG, REG, Ctl!DEREG, DEREG, Ctl!None, None, Ctl!Ops, Ops,
       Ctl!NoMsg, NoMsg, Ctl!packet, packet, Data, ALREADY, Sss!Ops, Sss!REG, Sss!DEREG

LEMMA ControllerCases ==
    ASSUME Seds, RadioTypes, NEW b \in Boots, ControllerStep(b)
    PROVE  Asking(b) \/ Relaying(b)
<1>1. Ctl!Step(b) /\ Device(b) /\ LocalTypes BY DEF ControllerStep, Seds
<1>2. /\ ctlPc[b] = "outer" => Silent(b) \/ Asks(b)
      /\ ctlPc[b] \in {"sssHdr", "sssBody"} => Asks(b)
      /\ ctlPc[b] = "sssWait" => (Asks(b) /\ reply[b] = None) \/ Granted(b)
      /\ ctlPc[b] = "notify" => Granted(b)
      /\ ctlPc[b] \in {"cpu", "radio", "toRadio", "toCpu"} => Joins(b) \/ Talks(b)
  BY <1>1 DEF Device, Silent, Asks, Granted, Joins, Talks, Relays, Begins
<1> USE SameWords
<1>3. CASE Ctl!ReadCommand(b)
  <2>1. ctlPc[b] = "outer" /\ cpuTx[b] # <<>> BY <1>3 DEF Ctl!ReadCommand, Ctl!avail
  <2>2. Asks(b) /\ cpuTx[b] = <<Request(b)>> BY <1>2, <2>1 DEF Silent, Asks
  <2>3. Head(cpuTx[b]) = Request(b) /\ Tail(cpuTx[b]) = <<>> BY <2>2
  <2>4. Request(b).tgt = SSS_ID /\ Request(b).data = REG BY DEF Request, packet
  <2>5. /\ cpuTx' = [cpuTx EXCEPT ![b] = <<>>] /\ cmd' = [cmd EXCEPT ![b] = REG]
        /\ ctlPc' = [ctlPc EXCEPT ![b] = "sssHdr"]
        /\ UNCHANGED <<reqOp, arrived, reply, registered, held, cpuRx, up, down>>
    BY <1>3, <2>3, <2>4 DEF Ctl!ReadCommand, Ctl!handle_registration, Ctl!read_msg, Ctl!Goto,
        Ctl!sssLink
  <2> QED BY <2>1, <2>2, <2>5 DEF Asking
<1>4. CASE Ctl!WriteRequestHeader(b)
  <2>1. ctlPc[b] = "sssHdr" BY <1>4 DEF Ctl!WriteRequestHeader
  <2>2. Asks(b) /\ cmd[b] = REG BY <1>2, <2>1 DEF Asks
  <2> QED BY <1>4, <2>1, <2>2 DEF Ctl!WriteRequestHeader, Ctl!Goto, Ctl!ports, Asking
<1>5. CASE Ctl!WriteRequestBody(b)
  <2>1. ctlPc[b] = "sssBody" BY <1>5 DEF Ctl!WriteRequestBody
  <2>2. Asks(b) BY <1>2, <2>1
  <2> QED BY <1>5, <2>1, <2>2 DEF Ctl!WriteRequestBody, Ctl!Goto, Ctl!ports, Asking
<1>6. CASE Ctl!ReadAnswer(b)
  <2>1. ctlPc[b] = "sssWait" /\ reply[b] # None BY <1>6 DEF Ctl!ReadAnswer
  <2>2. Granted(b) /\ reply[b] = REG BY <1>2, <2>1 DEF Granted
  <2> QED BY <1>6, <2>1, <2>2 DEF Ctl!ReadAnswer, Ctl!Goto, Ctl!ports, Asking, Answer
<1>7. CASE Ctl!NotifyCpu(b)
  <2>1. ctlPc[b] = "notify" BY <1>7 DEF Ctl!NotifyCpu
  <2>2. Granted(b) /\ held[b] = Answer(b) /\ cmd[b] = REG /\ cpuRx[b] = <<>>
    BY <1>2, <2>1 DEF Granted
  <2>3. Answer(b).data = REG BY DEF Answer, packet
  <2>4. registered' = [registered EXCEPT ![b] = TRUE]
    BY <1>7, <2>2, <2>3 DEF Ctl!NotifyCpu, Ctl!after
  <2>5. ctlPc' = [ctlPc EXCEPT ![b] = "cpu"]
    BY <1>1, <1>7, <2>4 DEF Ctl!NotifyCpu, Ctl!Goto, LocalTypes
  <2>6. cpuRx' = [cpuRx EXCEPT ![b] = <<Answer(b)>>]
    <3>1. Append(cpuRx[b], held[b]) = <<Answer(b)>> BY <2>2
    <3> QED BY <1>7, <3>1 DEF Ctl!NotifyCpu, Ctl!send_msg
  <2>7. /\ held' = [held EXCEPT ![b] = NoMsg] /\ cmd' = [cmd EXCEPT ![b] = None]
        /\ UNCHANGED <<cpuTx, reqOp, arrived, reply, up, down>>
    BY <1>7 DEF Ctl!NotifyCpu, Ctl!sssLink
  <2> QED BY <2>1, <2>2, <2>4, <2>5, <2>6, <2>7 DEF Asking
<1>8. CASE Ctl!PollCpu(b)
  <2>1. ctlPc[b] = "cpu" /\ cpuTx[b] # <<>> BY <1>8 DEF Ctl!PollCpu, Ctl!avail
  <2>2. Talks(b) BY <1>2, <2>1 DEF Joins
  <2>3. Head(cpuTx[b]) \in Said(b) BY <2>1, <2>2, HeadTailProperties DEF Talks
  <2>4. Head(cpuTx[b]).tgt # SSS_ID BY <2>3, SaidIs
  <2>5. /\ held' = [held EXCEPT ![b] = Head(cpuTx[b])] /\ cpuTx' = [cpuTx EXCEPT ![b] = Tail(@)]
        /\ ctlPc' = [ctlPc EXCEPT ![b] = "toRadio"]
        /\ UNCHANGED <<cmd, registered, reqOp, arrived, reply, cpuRx, up, down>>
    BY <1>8, <2>4 DEF Ctl!PollCpu, Ctl!read_msg, Ctl!Goto, Ctl!sssLink
  <2> QED BY <2>1, <2>2, <2>5 DEF Relaying
<1>9. CASE Ctl!CpuQuiet(b) \/ Ctl!RadioQuiet(b)
  <2>1. ctlPc[b] \in {"cpu", "radio"} BY <1>9 DEF Ctl!CpuQuiet, Ctl!RadioQuiet
  <2>2. Joins(b) \/ Talks(b) BY <1>2, <2>1
  <2>3. UNCHANGED <<cmd, registered, reqOp, arrived, reply, cpuTx, cpuRx, up, down, held>>
    BY <1>9 DEF Ctl!CpuQuiet, Ctl!RadioQuiet, Ctl!ports, Ctl!sssLink
  <2>4. \E place \in {"cpu", "radio"} : ctlPc' = [ctlPc EXCEPT ![b] = place]
    BY <1>9 DEF Ctl!CpuQuiet, Ctl!RadioQuiet, Ctl!Goto
  <2> QED BY <2>1, <2>2, <2>3, <2>4 DEF Relaying
<1>10. CASE Ctl!WriteRadio(b)
  <2>1. ctlPc[b] = "toRadio" BY <1>10 DEF Ctl!WriteRadio
  <2>2. (Joins(b) \/ Talks(b)) /\ held[b] \in Said(b) BY <1>2, <2>1 DEF Joins, Talks, Relays
  <2>3. packet(held[b].tgt, IdOf[b], held[b].data) = held[b] BY <2>2, SaidIs
  <2>4. /\ held' = [held EXCEPT ![b] = NoMsg] /\ up' = [up EXCEPT ![b] = Append(@, held[b])]
        /\ ctlPc' = [ctlPc EXCEPT ![b] = "cpu"]
        /\ UNCHANGED <<cmd, registered, reqOp, arrived, reply, cpuTx, cpuRx, down>>
    BY <1>10, <2>3 DEF Ctl!WriteRadio, Ctl!send_msg, Ctl!Goto, Ctl!sssLink
  <2> QED BY <2>1, <2>2, <2>4 DEF Relaying
<1>11. CASE Ctl!PollRadio(b)
  <2>1. ctlPc[b] = "radio" /\ down[b] # <<>> BY <1>11 DEF Ctl!PollRadio, Ctl!avail
  <2>2. Joins(b) \/ Talks(b) BY <1>2, <2>1
  <2>3. Head(down[b]) \in Air BY <2>1, Homes, HeadTailProperties DEF RadioTypes
  <2>4. Ctl!accepted(b, Head(down[b])) <=> Head(down[b]) \in Heard(b) BY <2>3, HeardIs
  <2>5. /\ down' = [down EXCEPT ![b] = Tail(@)]
        /\ UNCHANGED <<cmd, registered, reqOp, arrived, reply, cpuTx, cpuRx, up>>
        /\ IF Head(down[b]) \in Heard(b)
           THEN /\ held' = [held EXCEPT ![b] = Head(down[b])]
                /\ ctlPc' = [ctlPc EXCEPT ![b] = "toCpu"]
           ELSE ctlPc' = [ctlPc EXCEPT ![b] = "cpu"] /\ UNCHANGED held
    BY <1>11, <2>4 DEF Ctl!PollRadio, Ctl!read_msg, Ctl!Goto, Ctl!sssLink
  <2> QED BY <2>1, <2>2, <2>5 DEF Relaying
<1>12. CASE Ctl!WriteCpu(b)
  <2>1. ctlPc[b] = "toCpu" BY <1>12 DEF Ctl!WriteCpu
  <2>2. (Joins(b) \/ Talks(b)) /\ held[b] \in Heard(b) BY <1>2, <2>1 DEF Joins, Talks, Relays
  <2>3. Ctl!for_cpu(b, held[b]) = held[b] BY <2>2, HeardIs
  <2>4. /\ held' = [held EXCEPT ![b] = NoMsg] /\ cpuRx' = [cpuRx EXCEPT ![b] = Append(@, held[b])]
        /\ ctlPc' = [ctlPc EXCEPT ![b] = "cpu"]
        /\ UNCHANGED <<cmd, registered, reqOp, arrived, reply, cpuTx, up, down>>
    BY <1>12, <2>3 DEF Ctl!WriteCpu, Ctl!send_msg, Ctl!Goto, Ctl!sssLink
  <2> QED BY <2>1, <2>2, <2>4 DEF Relaying
<1> QED BY <1>1, <1>3, <1>4, <1>5, <1>6, <1>7, <1>8, <1>9, <1>10, <1>11, <1>12 DEF Ctl!Step

LEMMA ControllerSeds ==
    ASSUME Seds, StageTypes, RadioTypes, NEW b \in Boots, ControllerStep(b)
    PROVE  Seds'
<1> DEFINE Others == \A e \in Boots \ {b} :
              /\ UNCHANGED Own(e)
              /\ table'[IdOf[e]].status = REG => table[IdOf[e]].status = REG
<1> SUFFICES LocalTypes' /\ Device(b)' /\ Others BY OthersStill
<1>1. UNCHANGED <<app, cpuPc, ret, stage, data, link, table>> BY ControllerFrame
<1>2. LocalTypes /\ Device(b) BY DEF Seds
<1>3. {"sssHdr", "sssBody", "sssWait", "notify", "cpu", "radio", "toRadio", "toCpu"} \subseteq Ctl!Places
  BY DEF Ctl!Places
<1>4. ASSUME Asking(b) PROVE LocalTypes' /\ Others
  <2>1. /\ \E place \in Ctl!Places : ctlPc' = [ctlPc EXCEPT ![b] = place]
        /\ \E op \in Ops \cup {None} : UNCHANGED cmd \/ cmd' = [cmd EXCEPT ![b] = op]
        /\ \E is \in BOOLEAN : UNCHANGED registered \/ registered' = [registered EXCEPT ![b] = is]
    BY <1>3, <1>4, SameWords DEF Asking
  <2>2. /\ \E op \in Ops : UNCHANGED reqOp \/ reqOp' = [reqOp EXCEPT ![b] = op]
        /\ UNCHANGED reply \/ reply' = [reply EXCEPT ![b] = None]
        /\ UNCHANGED arrived \/ arrived' = [arrived EXCEPT ![b] = @ + 1]
    BY <1>4, SameWords DEF Asking
  <2>3. DOMAIN held' = Boots /\ DOMAIN cpuTx' = Boots /\ DOMAIN cpuRx' = Boots
    BY <1>2, <1>4 DEF LocalTypes, Asking
  <2>4. LocalTypes'
    <3>1. ctlPc' \in [Boots -> Ctl!Places] /\ cmd' \in [Boots -> Ops \cup {None}]
          /\ registered' \in [Boots -> BOOLEAN]
      BY <1>2, <2>1 DEF LocalTypes
    <3>2. reqOp' \in [Boots -> Ops] /\ reply' \in [Boots -> Data \cup {None}]
      BY <1>2, <2>2 DEF LocalTypes
    <3>3. arrived' \in [Boots -> Nat] BY <1>2, <2>2 DEF LocalTypes
    <3> QED BY <1>1, <1>2, <2>3, <3>1, <3>2, <3>3 DEF LocalTypes
  <2>5. Others BY <1>1, <1>2, <1>4 DEF Own, LocalTypes, Asking
  <2> QED BY <2>4, <2>5
<1>5. ASSUME Relaying(b) PROVE LocalTypes' /\ Others
  <2>1. LocalTypes'
    <3>1. \E place \in Ctl!Places : ctlPc' = [ctlPc EXCEPT ![b] = place] BY <1>3, <1>5 DEF Relaying
    <3>2. ctlPc' \in [Boots -> Ctl!Places] BY <1>2, <3>1 DEF LocalTypes
    <3>3. DOMAIN held' = Boots /\ DOMAIN cpuTx' = Boots /\ DOMAIN cpuRx' = Boots
      BY <1>2, <1>5 DEF LocalTypes, Relaying
    <3>4. UNCHANGED <<cmd, registered, reqOp, arrived, reply>> BY <1>5 DEF Relaying
    <3> QED BY <1>1, <1>2, <3>2, <3>3, <3>4 DEF LocalTypes
  <2>2. Others BY <1>1, <1>2, <1>5 DEF Own, LocalTypes, Relaying
  <2> QED BY <2>1, <2>2
<1>6. CASE Asking(b) /\ Asks(b) /\ UNCHANGED <<cpuRx, reply>>
  <2>1. Begins(b)' BY <1>1, <1>6 DEF Asks, Begins
  <2>2. /\ app[b] = "first" /\ cpuPc[b] = "regRecv" /\ link[b] = "open"
        /\ \/ cpuTx[b] = <<Request(b)>> /\ ctlPc[b] = "outer" /\ arrived[b] = 0
           \/ /\ cpuTx[b] = <<>> /\ cmd[b] = REG
              /\ \/ ctlPc[b] = "sssHdr" /\ arrived[b] = 0
                 \/ ctlPc[b] = "sssBody" /\ reqOp[b] = REG /\ arrived[b] = 1
                 \/ ctlPc[b] = "sssWait" /\ reqOp[b] = REG /\ arrived[b] = 2
    BY <1>6 DEF Asks
  <2>3. /\ cpuTx'[b] = <<>> /\ cmd'[b] = REG
        /\ \/ ctlPc'[b] = "sssHdr" /\ arrived'[b] = 0
           \/ ctlPc'[b] = "sssBody" /\ reqOp'[b] = REG /\ arrived'[b] = 1
           \/ ctlPc'[b] = "sssWait" /\ reqOp'[b] = REG /\ arrived'[b] = 2
    <3>1. ctlPc[b] \notin {"notify"} /\ ~(ctlPc[b] = "sssWait" /\ Granted(b)) /\ ~(ctlPc[b] = "notify" /\ Granted(b))
      BY <1>6, <2>2 DEF Granted
    <3> QED BY <1>2, <1>6, <2>2, <3>1 DEF Asking, LocalTypes
  <2>4. Asks(b)' BY <1>1, <2>1, <2>2, <2>3 DEF Asks
  <2> QED BY <1>4, <1>6, <2>4 DEF Device
<1>7. CASE Asking(b) /\ Granted(b) /\ ctlPc[b] = "sssWait" /\ arrived[b] = 0
  <2>1. /\ held' = [held EXCEPT ![b] = Answer(b)] /\ ctlPc' = [ctlPc EXCEPT ![b] = "notify"]
        /\ UNCHANGED <<cmd, cpuTx, cpuRx>>
    BY <1>7 DEF Asking, Asks
  <2>2. Granted(b)' BY <1>1, <1>2, <1>7, <2>1 DEF Granted, LocalTypes, Answer
  <2> QED BY <1>4, <1>7, <2>2 DEF Device
<1>8. CASE Asking(b) /\ Granted(b) /\ ctlPc[b] = "notify"
  <2>1. /\ ctlPc' = [ctlPc EXCEPT ![b] = "cpu"] /\ cmd' = [cmd EXCEPT ![b] = None]
        /\ registered' = [registered EXCEPT ![b] = TRUE] /\ UNCHANGED cpuTx
        /\ cpuRx' = [cpuRx EXCEPT ![b] = <<Answer(b)>>]
    BY <1>8 DEF Asking, Asks
  <2>2. Relays(b)' BY <1>1, <1>2, <1>8, <2>1 DEF Granted, Relays, LocalTypes
  <2>3. cpuRx'[b] = <<Answer(b)>> BY <1>2, <2>1 DEF LocalTypes
  <2>4. cpuRx'[b] # <<>> /\ Head(cpuRx'[b]) = Answer(b) /\ Tail(cpuRx'[b]) \in Seq(Heard(b))
        /\ cpuRx'[b] \in Seq(AnyMsg)
    <3>1. Answer(b) \in AnyMsg BY DEF AnyMsg
    <3> QED BY <2>3, <3>1
  <2>5. Joins(b)' BY <1>1, <1>8, <2>1, <2>2, <2>4 DEF Granted, Joins, Request, Answer, Heard, Air, Said, AnyMsg
  <2> QED BY <1>4, <1>8, <2>5 DEF Device
<1>9. CASE Relaying(b)
  <2>1. Joins(b) => cpuTx[b] = <<>> BY DEF Joins
  <2>2. Relays(b) BY <1>9 DEF Relaying, Joins, Talks
  <2>3. Talks(b) /\ cpuTx[b] # <<>> => Head(cpuTx[b]) \in Said(b) /\ Tail(cpuTx[b]) \in Seq(Said(b))
    BY HeadTailProperties DEF Talks
  <2>4. /\ ctlPc'[b] \in {"cpu", "radio"} \/ (ctlPc'[b] = "toRadio" /\ held'[b] \in Said(b))
              \/ (ctlPc'[b] = "toCpu" /\ held'[b] \in Heard(b))
    BY <1>2, <1>9, <2>3 DEF Relaying, LocalTypes
  <2>5. Relays(b)' BY <1>1, <1>9, <2>2, <2>4 DEF Relays, Relaying, Said, Heard, Air
  <2>6. UNCHANGED cpuTx \/ (Talks(b) /\ cpuTx[b] # <<>> /\ cpuTx' = [cpuTx EXCEPT ![b] = Tail(@)])
    BY <1>9 DEF Relaying
  <2>7. UNCHANGED cpuRx \/ \E m \in Heard(b) : cpuRx' = [cpuRx EXCEPT ![b] = Append(@, m)]
    BY <1>9 DEF Relaying
  <2>8. CASE Talks(b)
    <3>1. cpuTx'[b] \in Seq(Said(b)) BY <1>2, <2>3, <2>6, <2>8 DEF Talks, LocalTypes
    <3>2. cpuRx[b] \in Seq(Heard(b)) BY <2>8 DEF Talks
    <3>3. cpuRx'[b] \in Seq(Heard(b))
      <4>1. CASE UNCHANGED cpuRx BY <3>2, <4>1
      <4>2. ASSUME NEW m \in Heard(b), cpuRx' = [cpuRx EXCEPT ![b] = Append(@, m)]
            PROVE  cpuRx'[b] \in Seq(Heard(b))
        <5>1. cpuRx'[b] = Append(cpuRx[b], m) BY <1>2, <4>2 DEF LocalTypes
        <5> QED BY <3>2, <5>1, AppendProperties
      <4> QED BY <2>7, <4>1, <4>2
    <3>4. Talks(b)' BY <1>1, <2>5, <2>8, <3>1, <3>3 DEF Talks, Said, Heard, Air
    <3> QED BY <1>5, <1>9, <3>4 DEF Device
  <2>9. CASE Joins(b) /\ ~Talks(b)
    <3>1. UNCHANGED cpuTx BY <2>6, <2>9
    <3>2. cpuRx[b] # <<>> /\ Head(cpuRx[b]) = Answer(b) /\ Tail(cpuRx[b]) \in Seq(Heard(b))
          /\ cpuRx[b] \in Seq(AnyMsg)
      BY <2>9 DEF Joins
    <3>3. ASSUME NEW m \in Heard(b), cpuRx' = [cpuRx EXCEPT ![b] = Append(@, m)]
          PROVE  cpuRx'[b] # <<>> /\ Head(cpuRx'[b]) = Answer(b) /\ Tail(cpuRx'[b]) \in Seq(Heard(b))
                 /\ cpuRx'[b] \in Seq(AnyMsg)
      <4>1. cpuRx'[b] = Append(cpuRx[b], m) BY <1>2, <3>3 DEF LocalTypes
      <4>2. m \in AnyMsg BY DEF Heard, AnyMsg
      <4>3. PICK s \in Seq(AnyMsg) : s = cpuRx[b] BY <3>2
      <4>4. s # <<>> /\ Head(s) = Answer(b) /\ Tail(s) \in Seq(Heard(b)) BY <3>2, <4>3
      <4>5. Append(s, m) # <<>> /\ Append(s, m) \in Seq(AnyMsg) /\ Head(Append(s, m)) = Head(s)
            /\ Tail(Append(s, m)) = Append(Tail(s), m)
        BY <4>2, <4>4
      <4>6. Append(Tail(s), m) \in Seq(Heard(b)) BY <4>4
      <4> QED BY <4>1, <4>3, <4>4, <4>5, <4>6
    <3>4. cpuRx'[b] # <<>> /\ Head(cpuRx'[b]) = Answer(b) /\ Tail(cpuRx'[b]) \in Seq(Heard(b))
          /\ cpuRx'[b] \in Seq(AnyMsg)
      BY <2>7, <3>2, <3>3
    <3>5. Joins(b)' BY <1>1, <2>5, <2>9, <3>1, <3>4 DEF Joins, Request, Answer, Said, Heard, Air, AnyMsg
    <3> QED BY <1>5, <1>9, <3>5 DEF Device
  <2> QED BY <1>9, <2>8, <2>9 DEF Relaying
<1>10. Asking(b) => (Asks(b) /\ UNCHANGED <<cpuRx, reply>>) \/ (Granted(b) /\ (ctlPc[b] = "notify" \/ (ctlPc[b] = "sssWait" /\ arrived[b] = 0)))
  BY DEF Asking, Granted
<1> QED BY <1>6, <1>7, <1>8, <1>9, <1>10, ControllerCases

LEMMA ServesSeds ==
    ASSUME Seds, RadioTypes, SssServes
    PROVE  Seds'
<1>1. UNCHANGED <<app, cpuPc, ret, stage, data, cpuTx, cpuRx, ctlPc, registered, cmd, held, link>>
  BY DEF SssServes, cpuVars, ctlVars
<1>2. PICK b \in Boots : Sss!Serve(b) \/ Sss!ServeDead(b) \/ Sss!Discard(b) BY DEF SssServes
<1>3. LocalTypes /\ Device(b) BY DEF Seds
<1>4. link[b] # "closed" BY <1>3 DEF Device, Silent, Asks, Granted, Joins, Talks, Relays
<1>5. Sss!Serve(b) BY <1>2, <1>4 DEF Sss!ServeDead, Sss!Discard
<1> DEFINE answer == IF Sss!Repeats(b) THEN ALREADY ELSE reqOp[b]
<1>6. /\ arrived[b] = 2 /\ arrived' = [arrived EXCEPT ![b] = 0] /\ UNCHANGED reqOp
      /\ reply' = [reply EXCEPT ![b] = answer]
      /\ table' = IF Sss!Repeats(b) THEN table
                  ELSE [table EXCEPT ![IdOf[b]] = [status |-> reqOp[b], csock |-> b]]
  BY <1>5 DEF Sss!Serve, Sss!Record, Sss!Whole, Sss!ALREADY, ALREADY
<1>7. LocalTypes'
  <2>1. reqOp[b] \in Ops /\ answer \in Data BY <1>3 DEF LocalTypes, Ops, Data
  <2>2. IdOf[b] \in Devices BY Constants
  <2>3. reply' \in [Boots -> Data \cup {None}] /\ arrived' \in [Boots -> Nat]
    <3> HIDE DEF answer
    <3> QED BY <1>3, <1>6, <2>1 DEF LocalTypes
  <2>4. table' \in [Devices -> Sss!Device \cup {Sss!NoDev}]
    <3>1. [status |-> reqOp[b], csock |-> b] \in Sss!Device BY <2>1, SameWords DEF Sss!Device
    <3> QED BY <1>3, <1>6, <2>2, <3>1 DEF LocalTypes
  <2> QED BY <1>1, <1>3, <1>6, <2>3, <2>4 DEF LocalTypes, Sss!NoDev, Sss!Device
<1>8. ASSUME NEW e \in Boots \ {b}
      PROVE  UNCHANGED Own(e) /\ (table'[IdOf[e]].status = REG => table[IdOf[e]].status = REG)
  <2>1. IdOf[e] # IdOf[b] /\ IdOf[e] \in Devices BY Constants
  <2> QED BY <1>1, <1>3, <1>6, <2>1 DEF Own, LocalTypes
<1>9. Device(b)'
  <2>1. CASE Asks(b)
    <3>1. ctlPc[b] = "sssWait" /\ reqOp[b] = REG /\ cpuTx[b] = <<>> /\ cmd[b] = REG
      BY <1>6, <2>1 DEF Asks
    <3>2. ~Sss!Repeats(b) BY <2>1, <3>1 DEF Asks, Begins, Sss!Repeats
    <3>3. reply'[b] = REG /\ arrived'[b] = 0 BY <1>3, <1>6, <3>1, <3>2 DEF LocalTypes
    <3>4. Granted(b)' BY <1>1, <2>1, <3>1, <3>3 DEF Asks, Begins, Granted
    <3> QED BY <3>4 DEF Device
  <2>2. CASE Granted(b)
    <3>1. ctlPc[b] = "notify" /\ held[b] = Answer(b) BY <1>6, <2>2 DEF Granted
    <3>2. Granted(b)' BY <1>1, <2>2, <3>1 DEF Granted, Answer
    <3> QED BY <3>2 DEF Device
  <2>3. CASE Joins(b) \/ Talks(b)
    <3>1. Relays(b)' BY <1>1, <2>3 DEF Joins, Talks, Relays, Said, Heard, Air
    <3>2. Joins(b)' \/ Talks(b)' BY <1>1, <2>3, <3>1 DEF Joins, Talks, Request, Answer, Said, Heard, Air, AnyMsg
    <3> QED BY <3>2 DEF Device
  <2>4. ~Silent(b) BY <1>6 DEF Silent
  <2> QED BY <1>3, <2>1, <2>2, <2>3, <2>4 DEF Device
<1> QED BY <1>7, <1>8, <1>9, OthersStill

\* No connection has ended, so there is nothing to forget.
LEMMA ForgetsNothing == ASSUME Seds, RadioTypes, SssForgets PROVE UNCHANGED vars
<1>1. UNCHANGED <<cpuVars, ctlVars, link, up, down, radioVars, faaVars>> BY DEF SssForgets
<1>2. \A d \in Devices : table[d] # Sss!NoDev => link[table[d].csock] # "closed"
  BY Homes DEF Seds, LocalTypes, RadioTypes, Sss!Device
<1>3. ~Sss!GoDown BY <1>2 DEF Sss!GoDown
<1>4. PICK D \in SUBSET Devices : Sss!Forget(D) BY <1>3 DEF SssForgets
<1>5. D = {} BY <1>2, <1>4 DEF Sss!Forget
<1>6. table' = [d \in Devices |-> table[d]] BY <1>4, <1>5 DEF Sss!Forget
<1>7. UNCHANGED table BY <1>6 DEF Seds, LocalTypes
<1>8. UNCHANGED <<reqOp, arrived, reply, sssDown>> BY <1>4 DEF Sss!Forget
<1> QED BY <1>1, <1>7, <1>8 DEF vars, reqVars, sssVars

LEMMA LaunchSeds ==
    ASSUME Seds, StageTypes, RadioTypes, NEW b \in Boots, Launch(b)
    PROVE  Seds' /\ Silent(b)
<1>1. /\ UNCHANGED <<app, ret, stage, data, cpuTx, cpuRx, ctlPc, registered, cmd, held,
                     reqOp, arrived, reply, table>>
      /\ link[b] = "unused" /\ link' = [link EXCEPT ![b] = "open"]
      /\ cpuPc' = [cpuPc EXCEPT ![b] = "idle"]
  BY DEF Launch, Ctl!Start, Ctl!ctlVars, Ctl!ports, sssVars
<1>2. LocalTypes /\ Device(b) BY DEF Seds
<1>3. Silent(b) /\ app[b] = "boot" BY <1>1, <1>2 DEF Device, Silent, Asks, Granted, Joins, Talks, Relays
<1>4. Begins(b)' BY <1>1, <1>3 DEF Silent, Begins
<1>5. link'[b] = "open" /\ cpuPc'[b] = "idle" BY <1>1, Homes DEF RadioTypes, StageTypes
<1>6. Silent(b)' BY <1>1, <1>3, <1>4, <1>5 DEF Silent
<1>7. LocalTypes' BY <1>1, <1>2 DEF LocalTypes
<1>8. ASSUME NEW e \in Boots \ {b}
      PROVE  UNCHANGED Own(e) /\ (table'[IdOf[e]].status = REG => table[IdOf[e]].status = REG)
  BY <1>1, Homes DEF Own, RadioTypes, StageTypes
<1>9. Device(b)' BY <1>6 DEF Device
<1> QED BY <1>3, <1>7, <1>8, <1>9, OthersStill

\* The emulator and the FAA change nothing about a SED but what its antenna
\* has received.
LEMMA OutsideSeds ==
    ASSUME Seds, RadioTypes, RadioStep \/ FaaStarts \/ FaaSends \/ FaaShows
    PROVE  Seds'
<1>1. UNCHANGED <<app, cpuPc, ret, stage, data, cpuTx, cpuRx, ctlPc, registered, cmd, held,
                  reqOp, arrived, reply, table>>
  BY DEF RadioStep, FaaStarts, FaaSends, FaaShows, cpuVars, ctlVars, reqVars, sssVars
<1>2. \A b \in Boots : link'[b] = link[b]
  <2>1. CASE RadioStep \/ FaaSends \/ FaaShows
    BY <2>1 DEF RadioStep, FaaSends, FaaShows, Rad!Writes, Rad!Reads
  <2>2. CASE FaaStarts BY <2>2, Homes, Constants DEF FaaStarts, Rad!Connect, RadioTypes
  <2> QED BY <2>1, <2>2
<1>3. LocalTypes' BY <1>1 DEF Seds, LocalTypes
<1>4. ASSUME NEW b \in Boots PROVE Device(b)'
  <2>1. UNCHANGED Own(b) BY <1>1, <1>2 DEF Own
  <2> QED BY <1>1, <2>1, StillDevice DEF Seds
<1> QED BY <1>3, <1>4 DEF Seds

\* A controller is killed when its program has ended.
LEMMA NoKill == ASSUME Seds, NEW b \in Boots PROVE ~KillController(b)
<1>1. cpuPc[b] # "dead" BY DEF Seds, Device, Silent, Asks, Granted, Joins, Talks
<1> QED BY <1>1 DEF KillController

-----------------------------------------------------------------------------
(* The emulator's sockets.                                                 *)

\* A port is active when the client whose home it is has been started.
LEMMA PortIs ==
    ASSUME Sockets, NEW p \in Rad!Ports
    PROVE  \/ ~Rad!active(p) /\ \A c \in Clients : Home(c) = p => link[c] = "unused"
           \/ /\ Rad!active(p) /\ Rad!conn(p) \in Clients
              /\ Home(Rad!conn(p)) = p /\ link[Rad!conn(p)] = "open"
<1>1. Rad!None = None BY DEF Rad!None, None
<1>2. None \notin Clients BY Homes
<1>3. CASE csock[p] = None /\ waiting[p] = <<>> /\ \A c \in Clients : Home(c) = p => link[c] = "unused"
  <2>1. Rad!conn(p) = None BY <1>1, <1>3 DEF Rad!conn
  <2> QED BY <1>1, <1>3, <2>1 DEF Rad!active
<1>4. ASSUME NEW c \in Clients, Home(c) = p, link[c] = "open",
             \/ csock[p] = c /\ waiting[p] = <<>>
             \/ csock[p] = None /\ waiting[p] = <<c>>
      PROVE  Rad!conn(p) = c /\ Rad!active(p)
  <2>1. Rad!conn(p) = c
    <3>1. CASE csock[p] = c BY <1>1, <1>2, <3>1 DEF Rad!conn
    <3>2. CASE csock[p] = None /\ waiting[p] = <<c>>
      <4>1. waiting[p] # <<>> /\ Head(waiting[p]) = c BY <3>2
      <4> QED BY <1>1, <3>2, <4>1 DEF Rad!conn
    <3> QED BY <1>4, <3>1, <3>2
  <2> QED BY <1>1, <1>2, <2>1 DEF Rad!active
<1>5. \/ /\ csock[p] = None /\ waiting[p] = <<>>
         /\ \A c \in Clients : Home(c) = p => link[c] = "unused"
      \/ \E c \in Clients :
            /\ Home(c) = p /\ link[c] = "open"
            /\ \/ csock[p] = c /\ waiting[p] = <<>>
               \/ csock[p] = None /\ waiting[p] = <<c>>
  BY DEF Sockets
<1> QED BY <1>3, <1>4, <1>5

LEMMA Toolless ==
    ASSUME Sockets
    PROVE  ~Rad!active(Rad!MITM) /\ ~Rad!active(Rad!PROBE) /\ ~Rad!active(Rad!RECVR)
<1>1. ASSUME NEW p \in {Rad!MITM, Rad!PROBE, Rad!RECVR} PROVE ~Rad!active(p)
  <2>1. p \in Rad!Ports /\ p \notin Rad!socks BY Homes
  <2>2. \A c \in Clients : Home(c) # p BY <2>1, Homes
  <2> QED BY <2>1, <2>2, PortIs
<1> QED BY <1>1

\* Looking whether the client is there leaves the sockets as they should be.
LEMMA KeepSockets ==
    ASSUME Sockets, NEW p \in Rad!Ports, Rad!active(p), Rad!Keep(p, Rad!conn(p)), UNCHANGED link
    PROVE  Sockets'
<1>1. Rad!None = None BY DEF Rad!None, None
<1>2. PICK c \in Clients : c = Rad!conn(p) /\ Home(c) = p /\ link[c] = "open" BY PortIs
<1>3. None \notin Clients BY Homes
<1>4. csock' = [csock EXCEPT ![p] = c] BY <1>2 DEF Rad!Keep
<1>5. waiting' = [waiting EXCEPT ![p] = <<>>]
  <2>1. \/ csock[p] = c /\ waiting[p] = <<>>
        \/ csock[p] = None /\ waiting[p] = <<c>>
    BY <1>2, Homes DEF Sockets
  <2>2. (IF csock[p] = None /\ waiting[p] # <<>> THEN Tail(waiting[p]) ELSE waiting[p]) = <<>>
    <3>1. Tail(<<c>>) = <<>> OBVIOUS
    <3> QED BY <1>2, <1>3, <2>1, <3>1
  <2> QED BY <1>1, <2>2 DEF Rad!Keep
<1>6. csock' \in [Rad!Ports -> Clients \cup {None}] BY <1>4 DEF Sockets
<1>7. waiting' \in [Rad!Ports -> Seq(Clients)]
  <2>1. <<>> \in Seq(Clients) OBVIOUS
  <2> QED BY <1>5, <2>1 DEF Sockets
<1>8. csock'[p] = c /\ waiting'[p] = <<>> BY <1>4, <1>5 DEF Sockets
<1>9. \A q \in Rad!Ports \ {p} : csock'[q] = csock[q] /\ waiting'[q] = waiting[q]
  BY <1>4, <1>5 DEF Sockets
<1>10. ASSUME NEW q \in Rad!Ports
       PROVE  \/ /\ csock'[q] = None /\ waiting'[q] = <<>>
                 /\ \A e \in Clients : Home(e) = q => link'[e] = "unused"
              \/ \E e \in Clients :
                   /\ Home(e) = q /\ link'[e] = "open"
                   /\ \/ csock'[q] = e /\ waiting'[q] = <<>>
                      \/ csock'[q] = None /\ waiting'[q] = <<e>>
  <2>1. CASE q = p BY <1>2, <1>8, <2>1
  <2>2. CASE q # p BY <1>9, <2>2 DEF Sockets
  <2> QED BY <2>1, <2>2
<1> QED BY <1>6, <1>7, <1>10 DEF Sockets

-----------------------------------------------------------------------------
(* The emulator's steps, when nothing but the SEDs and the FAA is there.   *)

Moves ==
    /\ UNCHANGED <<up, down, buf, msgs, msg, hearers>>
    /\ rfPc # "send" /\ rfPc' \in {"poll", "read", "mitm"}
    /\ rfTodo' \in Seq(Rad!socks) /\ (rfPc' = "read" => port' \in Rad!socks)

\* A message is taken out of what c has written and the emulator had received
\* before or receives now.
Takes(c) ==
    /\ UNCHANGED <<down, msg, hearers, rfPc, rfTodo, port>> /\ rfPc = "read"
    /\ \E first, rest, received \in Seq(Said(c)) :
          /\ up[c] = first \o rest
          /\ received = buf[Home(c)] \o first /\ received # <<>>
          /\ up' = [up EXCEPT ![c] = rest]
          /\ buf' = [buf EXCEPT ![Home(c)] = Tail(received)]
          /\ msgs' = Append(msgs, Head(received))

Routes ==
    /\ UNCHANGED <<up, down, buf, rfTodo, port>> /\ rfPc = "poll"
    /\ msgs # <<>> /\ msgs' = Tail(msgs) /\ msg' = Head(msgs)
    /\ \/ ~Rad!direct(Head(msgs)) /\ hearers' = DevOrder /\ rfPc' = "send"
       \/ /\ Rad!direct(Head(msgs)) /\ Head(msgs).tgt \in Rad!socks
          /\ hearers' = <<Head(msgs).tgt>> /\ rfPc' = "send"
       \/ Rad!direct(Head(msgs)) /\ rfPc' = "exited" /\ UNCHANGED hearers

Sends ==
    /\ UNCHANGED <<up, buf, msgs, rfTodo, port>>
    /\ rfPc = "send" /\ hearers' = Tail(hearers)
    /\ IF Tail(hearers) = <<>> THEN rfPc' = "poll" ELSE UNCHANGED <<rfPc, msg>>
    /\ \/ UNCHANGED down /\ \A c \in Clients : Home(c) = Head(hearers) => link[c] = "unused"
       \/ \E c \in Clients :
            /\ Home(c) = Head(hearers) /\ link[c] = "open"
            /\ down' = [down EXCEPT ![c] = Append(@, msg)]

LEMMA Split ==
    ASSUME NEW S, NEW u \in Seq(S), NEW k \in 0..Len(u)
    PROVE  /\ SubSeq(u, 1, k) \in Seq(S) /\ SubSeq(u, k + 1, Len(u)) \in Seq(S)
           /\ u = SubSeq(u, 1, k) \o SubSeq(u, k + 1, Len(u))
           /\ Len(SubSeq(u, 1, k)) = k
<1>1. PICK n \in Nat : n = Len(u) OBVIOUS
<1>2. k \in Int /\ k + 1 \in Int /\ 1 \in 1..(n + 1) /\ k \in (1 - 1)..n /\ n \in k..n BY <1>1
<1>3. \A i \in 1..n : u[i] \in S BY <1>1
<1>4. \A i \in 1..k : u[i] \in S BY <1>1, <1>3
<1>5. \A i \in (k + 1)..n : u[i] \in S BY <1>1, <1>3
<1>6. SubSeq(u, 1, k) \in Seq(S) BY <1>2, <1>4, SubSeqProperties
<1>7. SubSeq(u, k + 1, n) \in Seq(S) BY <1>1, <1>2, <1>5, SubSeqProperties
<1>8. SubSeq(u, 1, k) \o SubSeq(u, k + 1, n) = SubSeq(u, 1, n)
  BY <1>1, <1>2, ConcatAdjacentSubSeq
<1>9. SubSeq(u, 1, n) = u BY <1>1, SubSeqFull
<1>10. Len(SubSeq(u, 1, k)) = k BY <1>1, <1>2, <1>4, SubSeqProperties
<1> QED BY <1>1, <1>6, <1>7, <1>8, <1>9, <1>10

\* What recv finds of a client.
LEMMA RecvIs ==
    ASSUME RadioTypes, NEW c \in Clients, NEW p \in Rad!Ports, p = Home(c), c = Rad!conn(p),
           Rad!Recv(p)
    PROVE  \E first, rest, received \in Seq(Said(c)) :
              /\ up[c] = first \o rest /\ received = buf[p] \o first
              /\ Rad!filled(p) = received
              /\ up' = [up EXCEPT ![c] = rest]
              /\ received = <<>> => UNCHANGED up
<1>1. up[c] \in Seq(Said(c)) /\ buf[p] \in Seq(Said(c)) /\ up \in [Clients -> Seq(Air)]
  BY DEF RadioTypes
<1>2. PICK n \in Nat : n = Len(up[c]) BY <1>1
<1>3. PICK k \in 0..n : k = Rad!taken(p) /\ k = (IF n < RecvMax THEN n ELSE RecvMax)
  BY <1>2, EchoAssumption DEF Rad!taken
<1>4. PICK first, rest \in Seq(Said(c)) :
         /\ first = SubSeq(up[c], 1, k) /\ rest = SubSeq(up[c], k + 1, n)
         /\ up[c] = first \o rest /\ Len(first) = k
  <2>1. /\ SubSeq(up[c], 1, k) \in Seq(Said(c)) /\ SubSeq(up[c], k + 1, n) \in Seq(Said(c))
        /\ up[c] = SubSeq(up[c], 1, k) \o SubSeq(up[c], k + 1, n)
        /\ Len(SubSeq(up[c], 1, k)) = k
    BY <1>1, <1>2, Split
  <2> QED BY <2>1
<1>5. PICK received \in Seq(Said(c)) : received = buf[p] \o first
  <2>1. buf[p] \o first \in Seq(Said(c)) BY <1>1, ConcatProperties
  <2> QED BY <2>1
<1>6. Rad!filled(p) = received BY <1>3, <1>4, <1>5 DEF Rad!filled
<1>7. up' = [up EXCEPT ![c] = rest] BY <1>2, <1>3, <1>4 DEF Rad!Recv
<1>8. received = <<>> => UNCHANGED up
  <2> SUFFICES ASSUME received = <<>> PROVE UNCHANGED up OBVIOUS
  <2>1. PICK before \in Seq(Said(c)) : before = buf[p] BY <1>1
  <2>2. before \o first = <<>> BY <1>5, <2>1
  <2>3. first = <<>>
    <3>1. Len(before \o first) = Len(before) + Len(first) OBVIOUS
    <3> QED BY <2>2, <3>1
  <2>4. up[c] = rest
    <3>1. <<>> \o rest = rest OBVIOUS
    <3> QED BY <1>4, <2>3, <3>1
  <2> QED BY <1>1, <1>7, <2>4
<1> QED BY <1>4, <1>5, <1>6, <1>7, <1>8

LEMMA DevicesInOrder == DevOrder \in Seq(Rad!socks) /\ Rad!sockOrder \in Seq(Rad!socks)
<1>1. DevOrder \in Seq(Rad!socks)
  <2>1. DevOrder \in Seq(Devices) /\ Devices \subseteq Rad!socks BY EchoAssumption, Homes
  <2> QED BY <2>1
<1>2. Rad!FAA_ID \in Rad!socks BY Homes DEF Rad!FAA_ID, FAA_ID
<1> QED BY <1>1, <1>2 DEF Rad!sockOrder

LEMMA RadioCases ==
    ASSUME RadioTypes, Sending, Sockets, RadioStep
    PROVE  /\ Moves \/ (\E c \in Clients : link[c] = "open" /\ Takes(c)) \/ Routes \/ Sends
           /\ Sockets'
<1>1. UNCHANGED link BY DEF RadioStep
<1>2. UNCHANGED <<csock, waiting>> => Sockets' BY <1>1 DEF Sockets
<1>3. \A p \in Rad!Ports : Rad!active(p) =>
         /\ Rad!conn(p) \in Clients /\ Home(Rad!conn(p)) = p /\ link[Rad!conn(p)] = "open"
         /\ ~Rad!AtEnd(p)
  BY PortIs DEF Rad!AtEnd
<1>4. Rad!socks \subseteq Rad!Ports BY Homes
<1>5. CASE Rad!ProbeRead
  <2>1. UNCHANGED Rad!sockVars /\ rfPc' = "poll" /\ rfTodo' = Rad!sockOrder
        /\ UNCHANGED <<port, msgs, msg, hearers>>
    BY <1>5, Toolless DEF Rad!ProbeRead
  <2>2. rfPc # "send" BY <1>5 DEF Rad!ProbeRead, Rad!AtPoll
  <2> QED BY <1>2, <2>1, <2>2, DevicesInOrder DEF Rad!sockVars, Moves
<1>6. CASE Rad!PollPort
  <2>1. PICK p \in Rad!socks : p = Head(rfTodo)
    BY <1>6, HeadTailProperties DEF Rad!PollPort, RadioTypes
  <2>2. rfTodo' = Tail(rfTodo) /\ rfTodo' \in Seq(Rad!socks)
    BY <1>6, HeadTailProperties DEF Rad!PollPort, RadioTypes
  <2>3. rfPc = "poll" /\ UNCHANGED <<up, down, buf, msgs, msg, hearers>>
    BY <1>6 DEF Rad!PollPort, Rad!AtPoll
  <2>4. CASE Rad!active(p)
    <3>1. rfPc' = "read" /\ port' = p /\ Rad!Keep(p, Rad!conn(p))
      BY <1>6, <2>1, <2>4 DEF Rad!PollPort
    <3>2. Sockets' BY <1>1, <1>4, <2>4, <3>1, KeepSockets
    <3> QED BY <2>2, <2>3, <3>1, <3>2 DEF Moves
  <2>5. CASE ~Rad!active(p)
    <3>1. UNCHANGED <<rfPc, port, csock, waiting>> BY <1>6, <2>1, <2>5 DEF Rad!PollPort
    <3> QED BY <1>2, <2>2, <2>3, <3>1 DEF Moves
  <2> QED BY <2>4, <2>5
<1>7. CASE Rad!ReadOne
  <2>1. rfPc = "read" /\ UNCHANGED <<rfTodo, port, msg, hearers>> BY <1>7 DEF Rad!ReadOne
  <2>2. PICK p \in Rad!socks : p = port BY <2>1 DEF RadioTypes
  <2>3. CASE Rad!ReadMsg(port, Head(Rad!filled(port)))
    <3>1. Rad!active(p) /\ Rad!Recv(p) /\ Rad!filled(p) # <<>> /\ UNCHANGED down
          /\ Rad!Keep(p, Rad!conn(p))
          /\ buf' = [buf EXCEPT ![p] = Tail(Rad!filled(p))]
      BY <2>2, <2>3 DEF Rad!ReadMsg, Rad!Recv
    <3>2. msgs' = Append(msgs, Head(Rad!filled(p))) /\ UNCHANGED rfPc
      <4>1. ~Rad!ReadNone(p)
        BY <1>3, <1>4, <3>1 DEF Rad!ReadNone
      <4> QED BY <1>7, <2>2, <4>1 DEF Rad!ReadOne
    <3>3. PICK c \in Clients : c = Rad!conn(p) /\ Home(c) = p /\ link[c] = "open"
      BY <1>3, <1>4, <3>1
    <3>4. Takes(c)
      <4>1. p \in Rad!Ports /\ p = Home(c) BY <1>4, <3>3
      <4>2. PICK first, rest, received \in Seq(Said(c)) :
               /\ up[c] = first \o rest /\ received = buf[p] \o first
               /\ Rad!filled(p) = received
               /\ up' = [up EXCEPT ![c] = rest]
               /\ received = <<>> => UNCHANGED up
        BY <3>1, <3>3, <4>1, RecvIs
      <4> QED BY <2>1, <3>1, <3>2, <3>3, <4>2 DEF Takes
    <3>5. Sockets' BY <1>1, <1>4, <3>1, KeepSockets
    <3> QED BY <3>3, <3>4, <3>5
  <2>4. CASE Rad!ReadNone(port) /\ rfPc' = "mitm" /\ UNCHANGED msgs
    <3>1. CASE UNCHANGED Rad!sockVars
      BY <1>2, <2>1, <2>4, <3>1 DEF Rad!sockVars, Moves, RadioTypes
    <3>2. CASE Rad!active(p) /\ Rad!filled(p) = <<>> /\ Rad!Recv(p) /\ UNCHANGED buf
      <4>1. PICK c \in Clients : c = Rad!conn(p) /\ Home(c) = p BY <1>3, <1>4, <3>2
      <4>2. UNCHANGED up BY <1>4, <3>2, <4>1, RecvIs
      <4>3. UNCHANGED down /\ Rad!Keep(p, Rad!conn(p)) BY <3>2 DEF Rad!Recv
      <4>4. Sockets' BY <1>1, <1>4, <3>2, <4>3, KeepSockets
      <4>5. Moves BY <2>1, <2>4, <3>2, <4>2, <4>3 DEF Moves, RadioTypes
      <4> QED BY <4>4, <4>5
    <3> QED BY <1>3, <1>4, <2>2, <2>4, <3>1, <3>2 DEF Rad!ReadNone
  <2> QED BY <1>7, <2>3, <2>4 DEF Rad!ReadOne
<1>8. CASE Rad!MitmActive
  <2>1. rfPc = "mitm" /\ rfPc' = "poll" /\ UNCHANGED <<csock, waiting>>
        /\ UNCHANGED <<up, down, buf, rfTodo, port, msgs, msg, hearers>>
    BY <1>8, Toolless DEF Rad!MitmActive
  <2> QED BY <1>2, <2>1 DEF Moves, RadioTypes
<1>9. CASE Rad!Route
  <2>1. UNCHANGED Rad!sockVars /\ UNCHANGED <<rfTodo, port>> /\ rfPc = "poll"
        /\ msgs # <<>> /\ msgs' = Tail(msgs) /\ msg' = Head(msgs)
    BY <1>9 DEF Rad!Route
  <2>2. \/ ~Rad!direct(Head(msgs)) /\ hearers' = DevOrder /\ rfPc' = "send"
        \/ /\ Rad!direct(Head(msgs)) /\ Head(msgs).tgt \in Rad!socks
           /\ hearers' = <<Head(msgs).tgt>> /\ rfPc' = "send"
        \/ Rad!direct(Head(msgs)) /\ rfPc' = "exited" /\ UNCHANGED hearers
    BY <1>9 DEF Rad!Route
  <2> QED BY <1>2, <2>1, <2>2 DEF Rad!sockVars, Routes
<1>10. CASE Rad!SendOne
  <2>1. rfPc = "send" /\ hearers' = Tail(hearers) /\ UNCHANGED <<rfTodo, port, msgs>>
        /\ IF Tail(hearers) = <<>> THEN rfPc' = "poll" ELSE UNCHANGED <<rfPc, msg>>
    BY <1>10 DEF Rad!SendOne
  <2>2. PICK p \in Rad!socks : p = Head(hearers)
    BY <2>1, HeadTailProperties DEF Sending
  <2>3. Rad!SendMsg(p, msg) BY <1>10, <2>2 DEF Rad!SendOne
  <2>4. CASE ~Rad!active(p)
    <3>1. UNCHANGED Rad!sockVars BY <2>3, <2>4 DEF Rad!SendMsg
    <3>2. \A c \in Clients : Home(c) = p => link[c] = "unused" BY <1>4, <2>4, PortIs
    <3>3. Sends BY <2>1, <2>2, <3>1, <3>2 DEF Rad!sockVars, Sends
    <3> QED BY <1>2, <3>1, <3>3 DEF Rad!sockVars
  <2>5. CASE Rad!active(p)
    <3>1. PICK c \in Clients : c = Rad!conn(p) /\ Home(c) = p /\ link[c] = "open"
      BY <1>3, <1>4, <2>5
    <3>2. /\ down' = [down EXCEPT ![c] = Append(@, msg)]
          /\ Rad!Keep(p, Rad!conn(p)) /\ UNCHANGED <<up, buf>>
      BY <2>3, <2>5, <3>1 DEF Rad!SendMsg
    <3>3. Sockets' BY <1>1, <1>4, <2>5, <3>2, KeepSockets
    <3>4. Sends BY <2>1, <2>2, <3>1, <3>2 DEF Sends
    <3> QED BY <3>3, <3>4
  <2> QED BY <2>4, <2>5
<1>11. ~Rad!RecvrSend /\ ~Rad!ForwardOne /\ ~Rad!MitmReadOne
  BY DEF Rad!RecvrSend, Rad!ForwardOne, Rad!MitmReadOne, RadioTypes
<1> QED BY <1>5, <1>6, <1>7, <1>8, <1>9, <1>10, <1>11 DEF RadioStep, Rad!Emulator

-----------------------------------------------------------------------------
(* The emulator's state.                                                   *)

Waves == RadioTypes /\ Sending /\ Sockets

LEMMA StillWaves ==
    ASSUME Waves
    PROVE  /\ UNCHANGED <<link, up, down, buf, msgs, rfPc, rfTodo, port>> => RadioTypes'
           /\ UNCHANGED <<hearers, rfPc, msg>> => Sending'
           /\ UNCHANGED <<link, csock, waiting>> => Sockets'
<1>1. UNCHANGED <<link, up, down, buf, msgs, rfPc, rfTodo, port>> => RadioTypes'
  BY DEF Waves, RadioTypes, Said, Air
<1>2. UNCHANGED <<hearers, rfPc, msg>> => Sending' BY DEF Waves, Sending, Air, Said
<1>3. UNCHANGED <<link, csock, waiting>> => Sockets' BY DEF Waves, Sockets
<1> QED BY <1>1, <1>2, <1>3

\* Messages come into the sockets of a client, and go.
LEMMA NewUp ==
    ASSUME RadioTypes, NEW c \in Clients, NEW s \in Seq(Said(c)), up' = [up EXCEPT ![c] = s]
    PROVE  up' \in [Clients -> Seq(Air)] /\ \A e \in Clients : up'[e] \in Seq(Said(e))
<1>1. s \in Seq(Air)
  <2>1. Said(c) \subseteq Air BY DEF Air
  <2> QED BY <2>1
<1> QED BY <1>1 DEF RadioTypes

LEMMA NewDown ==
    ASSUME RadioTypes, NEW c \in Clients,
           \/ \E m \in Air : down' = [down EXCEPT ![c] = Append(@, m)]
           \/ down[c] # <<>> /\ down' = [down EXCEPT ![c] = Tail(@)]
    PROVE  down' \in [Clients -> Seq(Air)]
<1>1. down[c] \in Seq(Air) BY DEF RadioTypes
<1>2. ASSUME NEW m \in Air, down' = [down EXCEPT ![c] = Append(@, m)]
      PROVE  down' \in [Clients -> Seq(Air)]
  <2>1. Append(down[c], m) \in Seq(Air) BY <1>1, AppendProperties
  <2> QED BY <1>2, <2>1 DEF RadioTypes
<1>3. CASE down[c] # <<>> /\ down' = [down EXCEPT ![c] = Tail(@)]
  <2>1. Tail(down[c]) \in Seq(Air) BY <1>1, <1>3, HeadTailProperties
  <2> QED BY <1>3, <2>1 DEF RadioTypes
<1> QED BY <1>2, <1>3

LEMMA RadioStepWaves == Waves /\ RadioStep => Waves'
<1> SUFFICES ASSUME Waves, RadioStep PROVE Waves' OBVIOUS
<1>1. UNCHANGED link BY DEF RadioStep
<1>2. RadioTypes /\ Sending /\ Sockets BY DEF Waves
<1>3. Sockets' BY <1>2, RadioCases
<1>4. ASSUME Moves PROVE RadioTypes' /\ Sending'
  <2>1. RadioTypes' BY <1>1, <1>2, <1>4 DEF Moves, RadioTypes, Said, Air
  <2>2. hearers = <<>> /\ rfPc' # "send" BY <1>2, <1>4 DEF Moves, Sending
  <2>3. Sending' BY <1>2, <1>4, <2>2 DEF Moves, Sending
  <2> QED BY <2>1, <2>3
<1>5. ASSUME NEW c \in Clients, Takes(c) PROVE RadioTypes' /\ Sending'
  <2>1. PICK first, rest, received \in Seq(Said(c)) :
          /\ received # <<>>
          /\ up' = [up EXCEPT ![c] = rest]
          /\ buf' = [buf EXCEPT ![Home(c)] = Tail(received)]
          /\ msgs' = Append(msgs, Head(received))
    BY <1>5 DEF Takes
  <2>2. UNCHANGED <<down, msg, hearers, rfPc, rfTodo, port>> BY <1>5 DEF Takes
  <2>3. up' \in [Clients -> Seq(Air)] /\ \A e \in Clients : up'[e] \in Seq(Said(e))
    BY <1>2, <2>1, NewUp
  <2>4. Said(c) \subseteq Air BY DEF Air
  <2>5. PICK left \in Seq(Said(c)) : left = Tail(received) BY <2>1, HeadTailProperties
  <2>6. left \in Seq(Air) BY <2>4
  <2>7. buf' \in [Rad!Ports -> Seq(Air)] /\ \A e \in Clients : buf'[Home(e)] \in Seq(Said(e))
    <3>1. \A e \in Clients : e # c => Home(e) # Home(c) BY Homes
    <3>2. \A e \in Clients : Home(e) \in Rad!Ports BY Homes
    <3> QED BY <1>2, <2>1, <2>5, <2>6, <3>1, <3>2 DEF RadioTypes
  <2>8. msgs' \in Seq(Air)
    <3>1. Head(received) \in Air BY <2>1, <2>4, HeadTailProperties
    <3> QED BY <1>2, <2>1, <3>1, AppendProperties DEF RadioTypes
  <2>9. RadioTypes' BY <1>1, <1>2, <2>2, <2>3, <2>7, <2>8 DEF RadioTypes, Said, Air
  <2>10. Sending' BY <2>2, StillWaves
  <2> QED BY <2>9, <2>10
<1>6. ASSUME Routes PROVE RadioTypes' /\ Sending'
  <2>1. Head(msgs) \in Air /\ Tail(msgs) \in Seq(Air)
    BY <1>2, <1>6, HeadTailProperties DEF Routes, RadioTypes
  <2>2. RadioTypes' BY <1>1, <1>2, <1>6, <2>1 DEF Routes, RadioTypes, Said, Air
  <2>3. hearers = <<>> /\ rfPc = "poll" BY <1>2, <1>6 DEF Routes, Sending
  <2>4. ASSUME hearers' = DevOrder, rfPc' = "send" PROVE Sending'
    <3>1. DevOrder # <<>>
      <4>1. IdOf[EchoClient] \in Devices BY Constants
      <4> QED BY <4>1, EchoAssumption
    <3>2. \A i, j \in 1..Len(DevOrder) : DevOrder[i] = DevOrder[j] => i = j
      <4>1. DOMAIN DevOrder = 1..Len(DevOrder) BY DevicesInOrder
      <4> QED BY <4>1, EchoAssumption
    <3>3. hearers' \in Seq(Rad!socks) /\ hearers' # <<>>
          /\ \A i, j \in 1..Len(hearers') : hearers'[i] = hearers'[j] => i = j
      BY <2>4, <3>1, <3>2, DevicesInOrder
    <3>4. msg' \in Air BY <1>6, <2>1 DEF Routes
    <3>5. Air' = Air /\ Rad!socks' = Rad!socks BY DEF Air, Said, Rad!socks
    <3> QED BY <2>4, <3>3, <3>4, <3>5 DEF Sending
  <2>5. ASSUME NEW p \in Rad!socks, hearers' = <<p>>, rfPc' = "send" PROVE Sending'
    <3>1. <<p>> \in Seq(Rad!socks) /\ <<p>> # <<>> /\ Len(<<p>>) = 1 OBVIOUS
    <3>2. \A i, j \in 1..Len(<<p>>) : <<p>>[i] = <<p>>[j] => i = j BY <3>1
    <3>3. msg' \in Air BY <1>6, <2>1 DEF Routes
    <3>4. Air' = Air /\ Rad!socks' = Rad!socks BY DEF Air, Said, Rad!socks
    <3>5. hearers' \in Seq(Rad!socks) /\ hearers' # <<>>
          /\ \A i, j \in 1..Len(hearers') : hearers'[i] = hearers'[j] => i = j
      BY <2>5, <3>1, <3>2
    <3> QED BY <2>5, <3>3, <3>4, <3>5 DEF Sending
  <2>6. ASSUME rfPc' = "exited", UNCHANGED hearers PROVE Sending'
    BY <1>2, <2>3, <2>6 DEF Sending
  <2>7. Sending' BY <1>6, <2>4, <2>5, <2>6 DEF Routes
  <2> QED BY <2>2, <2>7
<1>7. ASSUME Sends PROVE RadioTypes' /\ Sending'
  <2>1. UNCHANGED <<up, buf, msgs, rfTodo, port>> /\ rfPc = "send" /\ hearers' = Tail(hearers)
        /\ (rfPc' = "poll" \/ UNCHANGED rfPc)
    BY <1>7 DEF Sends
  <2>2. hearers # <<>> /\ msg \in Air BY <1>2, <2>1 DEF Sending
  <2>3. down' \in [Clients -> Seq(Air)]
    <3>1. UNCHANGED down \/ \E c \in Clients : down' = [down EXCEPT ![c] = Append(@, msg)]
      BY <1>7 DEF Sends
    <3> QED BY <1>2, <2>2, <3>1, NewDown DEF RadioTypes
  <2>4. RadioTypes' BY <1>1, <1>2, <2>1, <2>3 DEF RadioTypes, Said, Air
  <2>5. Tail(hearers) \in Seq(Rad!socks) /\ Len(Tail(hearers)) = Len(hearers) - 1
        /\ \A i \in 1..Len(Tail(hearers)) : Tail(hearers)[i] = hearers[i + 1]
    BY <1>2, <2>2, HeadTailProperties DEF Sending
  <2>6. ASSUME NEW i \in 1..Len(Tail(hearers)), NEW j \in 1..Len(Tail(hearers)),
               Tail(hearers)[i] = Tail(hearers)[j]
        PROVE  i = j
    <3>1. i + 1 \in 1..Len(hearers) /\ j + 1 \in 1..Len(hearers) BY <1>2, <2>5 DEF Sending
    <3>2. hearers[i + 1] = hearers[j + 1] BY <2>5, <2>6
    <3>3. i + 1 = j + 1 BY <1>2, <3>1, <3>2 DEF Sending
    <3> QED BY <3>3
  <2>7. Rad!socks' = Rad!socks /\ Air' = Air BY DEF Rad!socks, Air, Said
  <2>8. IF hearers' = <<>> THEN rfPc' = "poll" ELSE rfPc' = "send" /\ msg' \in Air
    BY <1>7, <2>1, <2>2 DEF Sends
  <2>9. hearers' \in Seq(Rad!socks)
        /\ \A i, j \in 1..Len(hearers') : hearers'[i] = hearers'[j] => i = j
    BY <2>1, <2>5, <2>6
  <2>10. Sending' BY <2>7, <2>8, <2>9 DEF Sending
  <2> QED BY <2>4, <2>10
<1> QED BY <1>2, <1>3, <1>4, <1>5, <1>6, <1>7, RadioCases DEF Waves

LEMMA OrdersTyped == orders \subseteq Orders /\ [Next]_vars => orders' \subseteq Orders
<1> SUFFICES ASSUME orders \subseteq Orders, [Next]_vars PROVE orders' \subseteq Orders OBVIOUS
<1>1. CASE UNCHANGED vars BY <1>1 DEF vars, faaVars
<1>2. CASE SssServes \/ SssForgets \/ RadioStep \/ FaaStarts \/ FaaSends \/ FaaShows
  BY <1>2 DEF SssServes, SssForgets, RadioStep, FaaStarts, FaaSends, FaaShows, faaVars
<1>3. CASE \E b \in Boots : Launch(b) \/ KillController(b) \/ ProgramStep(b) \/ ControllerStep(b)
  BY <1>3 DEF Launch, KillController, ProgramStep, ControllerStep, faaVars
<1> QED BY <1>1, <1>2, <1>3 DEF Next

\* The connections of the clients change when one is started only.
LEMMA ProgramLink ==
    ASSUME Seds, StageTypes, Lively', NEW b \in Boots, ProgramStep(b)
    PROVE  UNCHANGED link
<1>1. CASE Prg!FirstRegister(b) BY <1>1 DEF Prg!FirstRegister, Prg!CallRegister
<1>2. CASE Prg!SendRegister(b) BY <1>2 DEF Prg!SendRegister
<1>3. CASE Prg!RecvRegister(b) BY <1>3 DEF Prg!RecvRegister, Prg!Consume
<1>4. CASE Prg!Recv(b) BY <1>4 DEF Prg!Recv, Prg!Consume
<1>5. CASE Receive(b) BY <1>5 DEF Receive, Prg!CallRecv
<1>6. CASE SayHello BY <1>6 DEF SayHello, Prg!CallSend
<1>7. CASE Echo BY <1>7 DEF Echo, Prg!CallSend
<1> QED BY <1>1, <1>2, <1>3, <1>4, <1>5, <1>6, <1>7, ProgramCases

LEMMA ProgramWaves ==
    ASSUME Waves, Seds, StageTypes, Lively', NEW b \in Boots, ProgramStep(b)
    PROVE  Waves'
BY ProgramFrame, ProgramLink, StillWaves DEF Waves

LEMMA ServesWaves == Waves /\ SssServes => Waves'
BY StillWaves DEF Waves, SssServes, radioVars

LEMMA ControllerWaves ==
    ASSUME Waves, Seds, NEW b \in Boots, ControllerStep(b)
    PROVE  Waves'
<1>1. UNCHANGED <<link, waiting, csock, buf, rfPc, rfTodo, port, msgs, msg, hearers>>
  BY ControllerFrame
<1>2. RadioTypes /\ Sending' /\ Sockets' BY <1>1, StillWaves DEF Waves
<1>3. b \in Clients BY Homes
<1>4. CASE UNCHANGED <<up, down>> BY <1>1, <1>2, <1>4, StillWaves DEF Waves
<1>5. CASE \E m \in Said(b) : up' = [up EXCEPT ![b] = Append(@, m)] /\ UNCHANGED down
  <2>1. PICK m \in Said(b) : up' = [up EXCEPT ![b] = Append(@, m)] /\ UNCHANGED down BY <1>5
  <2>2. PICK s \in Seq(Said(b)) : s = Append(up[b], m)
    BY <1>2, <1>3, AppendProperties DEF RadioTypes
  <2>3. up' = [up EXCEPT ![b] = s] BY <2>1, <2>2
  <2>4. up' \in [Clients -> Seq(Air)] /\ \A e \in Clients : up'[e] \in Seq(Said(e))
    BY <1>2, <1>3, <2>3, NewUp
  <2>5. RadioTypes' BY <1>1, <1>2, <2>1, <2>4 DEF RadioTypes, Said, Air
  <2> QED BY <1>2, <2>5 DEF Waves
<1>6. CASE down[b] # <<>> /\ down' = [down EXCEPT ![b] = Tail(@)] /\ UNCHANGED up
  <2>1. down' \in [Clients -> Seq(Air)] BY <1>2, <1>3, <1>6, NewDown
  <2>2. RadioTypes' BY <1>1, <1>2, <1>6, <2>1 DEF RadioTypes, Said, Air
  <2> QED BY <1>2, <2>2 DEF Waves
<1>7. Asking(b) => UNCHANGED <<up, down>> BY DEF Asking
<1>8. Relaying(b) => \/ UNCHANGED <<up, down>>
                     \/ \E m \in Said(b) : up' = [up EXCEPT ![b] = Append(@, m)] /\ UNCHANGED down
                     \/ down[b] # <<>> /\ down' = [down EXCEPT ![b] = Tail(@)] /\ UNCHANGED up
  BY DEF Relaying
<1> QED BY <1>2, <1>4, <1>5, <1>6, <1>7, <1>8, ControllerCases

\* A client's home was free when it connects.
LEMMA Connecting ==
    ASSUME Waves, NEW c \in Clients, link[c] = "unused", link' = [link EXCEPT ![c] = "open"],
           waiting' = [waiting EXCEPT ![Home(c)] = Append(@, c)],
           UNCHANGED <<up, down, csock, buf, rfPc, rfTodo, port, msgs, msg, hearers>>
    PROVE  Waves'
<1>1. RadioTypes /\ Sending' /\ Sockets BY StillWaves DEF Waves
<1>2. Home(c) \in Rad!Ports BY Homes
<1>3. csock[Home(c)] = None /\ waiting[Home(c)] = <<>>
  <2>1. \A e \in Clients : Home(e) = Home(c) => e = c BY Homes
  <2> QED BY <1>1, <1>2, <2>1 DEF Sockets
<1>4. RadioTypes' BY <1>1 DEF RadioTypes, Said, Air
<1>5. waiting' = [waiting EXCEPT ![Home(c)] = <<c>>]
  <2>1. Append(waiting[Home(c)], c) = <<c>> BY <1>3
  <2> QED BY <2>1
<1>6. waiting' \in [Rad!Ports -> Seq(Clients)]
  <2>1. <<c>> \in Seq(Clients) OBVIOUS
  <2> QED BY <1>1, <1>5, <2>1 DEF Sockets
<1>7. ASSUME NEW p \in Rad!Ports
      PROVE  \/ /\ csock'[p] = None /\ waiting'[p] = <<>>
                /\ \A e \in Clients : Home(e) = p => link'[e] = "unused"
             \/ \E e \in Clients :
                  /\ Home(e) = p /\ link'[e] = "open"
                  /\ \/ csock'[p] = e /\ waiting'[p] = <<>>
                     \/ csock'[p] = None /\ waiting'[p] = <<e>>
  <2>1. CASE p = Home(c)
    <3>1. waiting'[p] = <<c>> /\ csock'[p] = None /\ link'[c] = "open"
      BY <1>1, <1>2, <1>3, <1>5, <2>1 DEF Sockets, RadioTypes
    <3> QED BY <2>1, <3>1
  <2>2. CASE p # Home(c)
    <3>1. waiting'[p] = waiting[p] /\ csock'[p] = csock[p] BY <1>1, <1>5, <2>2 DEF Sockets
    <3>2. \A e \in Clients : Home(e) = p => link'[e] = link[e] BY <1>1, <2>2 DEF RadioTypes
    <3> QED BY <1>1, <3>1, <3>2 DEF Sockets
  <2> QED BY <2>1, <2>2
<1>8. Sockets' BY <1>1, <1>6, <1>7 DEF Sockets
<1> QED BY <1>1, <1>4, <1>8 DEF Waves

LEMMA LaunchWaves ==
    ASSUME Waves, NEW b \in Boots, Launch(b)
    PROVE  Waves'
<1>1. /\ link[b] = "unused" /\ link' = [link EXCEPT ![b] = "open"]
      /\ UNCHANGED <<up, down, csock, buf, rfPc, rfTodo, port, msgs, msg, hearers>>
      /\ waiting' = [waiting EXCEPT ![IdOf[b]] = Append(@, b)]
  BY DEF Launch, Ctl!Start, Ctl!ports
<1>2. b \in Clients /\ Home(b) = IdOf[b] BY Homes
<1> QED BY <1>1, <1>2, Connecting

LEMMA FaaWaves ==
    ASSUME Waves, orders \subseteq Orders, FaaStarts \/ FaaSends \/ FaaShows
    PROVE  Waves'
<1>1. Faa \in Clients /\ Faa \notin Boots /\ Home(Faa) = FAA_ID BY Homes, Constants
<1>2. RadioTypes BY DEF Waves
<1>3. CASE FaaStarts
  <2>1. Rad!PortOf(Faa) = FAA_ID BY <1>1 DEF Rad!PortOf, Rad!FAA_ID, FAA_ID
  <2>2. /\ link[Faa] = "unused" /\ link' = [link EXCEPT ![Faa] = "open"]
        /\ UNCHANGED <<up, down, csock, buf, rfPc, rfTodo, port, msgs, msg, hearers>>
        /\ waiting' = [waiting EXCEPT ![FAA_ID] = Append(@, Faa)]
    BY <1>3, <2>1 DEF FaaStarts, Rad!Connect, Rad!localVars
  <2> QED BY <1>1, <2>2, Connecting
<1>4. CASE FaaSends
  <2>1. PICK o \in orders : Rad!Writes(Faa, packet(o.tgt, FAA_ID, o.data)) BY <1>4 DEF FaaSends
  <2>2. PICK m \in Said(Faa) : m = packet(o.tgt, FAA_ID, o.data)
    <3>1. o \in [tgt : Ids, data : Texts] BY EchoAssumption
    <3> QED BY <3>1 DEF Said, packet
  <2>3. /\ up' = [up EXCEPT ![Faa] = Append(@, m)]
        /\ UNCHANGED <<link, down, waiting, csock, buf, rfPc, rfTodo, port, msgs, msg, hearers>>
    BY <2>1, <2>2 DEF Rad!Writes, Rad!localVars
  <2>4. PICK s \in Seq(Said(Faa)) : s = Append(up[Faa], m)
    BY <1>1, <1>2, AppendProperties DEF RadioTypes
  <2>5. up' \in [Clients -> Seq(Air)] /\ \A e \in Clients : up'[e] \in Seq(Said(e))
    BY <1>1, <1>2, <2>3, <2>4, NewUp
  <2>6. RadioTypes' BY <1>2, <2>3, <2>5 DEF RadioTypes, Said, Air
  <2>7. Sending' /\ Sockets' BY <2>3, StillWaves
  <2> QED BY <2>6, <2>7 DEF Waves
<1>5. CASE FaaShows
  <2>1. /\ down[Faa] # <<>> /\ down' = [down EXCEPT ![Faa] = Tail(@)]
        /\ UNCHANGED <<link, up, waiting, csock, buf, rfPc, rfTodo, port, msgs, msg, hearers>>
    BY <1>5 DEF FaaShows, Rad!Reads, Rad!localVars
  <2>2. down' \in [Clients -> Seq(Air)] BY <1>1, <1>2, <2>1, NewDown
  <2>3. RadioTypes' BY <1>2, <2>1, <2>2 DEF RadioTypes, Said, Air
  <2>4. Sending' /\ Sockets' BY <2>1, StillWaves
  <2> QED BY <2>3, <2>4 DEF Waves
<1> QED BY <1>3, <1>4, <1>5

-----------------------------------------------------------------------------
(* Counting.                                                               *)

Outgoing(b) == Ctl!Untaken(cpuTx, "toRadio")[b]
Incoming(b) == Ctl!Untaken(down, "toCpu")[b]

LEMMA UntakenIs ==
    ASSUME NEW b \in Boots
    PROVE  /\ Outgoing(b) = IF ctlPc[b] = "toRadio" THEN <<held[b]>> \o cpuTx[b] ELSE cpuTx[b]
           /\ Incoming(b) = IF ctlPc[b] = "toCpu" THEN <<held[b]>> \o down[b] ELSE down[b]
           /\ Outgoing(b)' = IF ctlPc'[b] = "toRadio" THEN <<held'[b]>> \o cpuTx'[b] ELSE cpuTx'[b]
           /\ Incoming(b)' = IF ctlPc'[b] = "toCpu" THEN <<held'[b]>> \o down'[b] ELSE down'[b]
BY DEF Outgoing, Incoming, Ctl!Untaken

LEMMA Typed ==
    ASSUME Seds, RadioTypes, NEW b \in Boots
    PROVE  /\ cpuTx[b] \in Seq(AnyMsg) /\ cpuRx[b] \in Seq(AnyMsg)
           /\ Outgoing(b) \in Seq(AnyMsg) /\ Incoming(b) \in Seq(AnyMsg)
           /\ up[b] \in Seq(AnyMsg) /\ down[b] \in Seq(AnyMsg)
           /\ buf[IdOf[b]] \in Seq(AnyMsg) /\ msgs \in Seq(AnyMsg)
           /\ ctlPc[b] = "toRadio" => held[b] \in Said(b)
           /\ ctlPc[b] = "toCpu" => held[b] \in Heard(b)
<1>1. /\ Air \subseteq AnyMsg /\ Said(b) \subseteq AnyMsg /\ Heard(b) \subseteq AnyMsg
      /\ Request(b) \in AnyMsg /\ Answer(b) \in AnyMsg
  BY Homes DEF AnyMsg, Air, Heard
<1>2. Device(b) BY DEF Seds
<1>3. b \in Clients /\ Home(b) = IdOf[b] /\ IdOf[b] \in Rad!Ports BY Homes
<1>4. up[b] \in Seq(Air) /\ down[b] \in Seq(Air) /\ buf[IdOf[b]] \in Seq(Air) /\ msgs \in Seq(Air)
  BY <1>3 DEF RadioTypes
<1>5. up[b] \in Seq(AnyMsg) /\ down[b] \in Seq(AnyMsg) /\ buf[IdOf[b]] \in Seq(AnyMsg) /\ msgs \in Seq(AnyMsg)
  BY <1>1, <1>4
<1>6. ctlPc[b] = "toRadio" => held[b] \in Said(b)
  BY <1>2 DEF Device, Silent, Asks, Granted, Joins, Talks, Relays
<1>7. ctlPc[b] = "toCpu" => held[b] \in Heard(b)
  BY <1>2 DEF Device, Silent, Asks, Granted, Joins, Talks, Relays
<1>8. cpuTx[b] \in Seq(AnyMsg)
  <2>1. cpuTx[b] = <<>> \/ cpuTx[b] = <<Request(b)>> \/ cpuTx[b] \in Seq(Said(b))
    BY <1>2 DEF Device, Silent, Asks, Granted, Joins, Talks
  <2>2. <<>> \in Seq(AnyMsg) OBVIOUS
  <2>3. <<Request(b)>> \in Seq(AnyMsg) BY <1>1
  <2>4. cpuTx[b] \in Seq(Said(b)) => cpuTx[b] \in Seq(AnyMsg) BY <1>1
  <2> QED BY <2>1, <2>2, <2>3, <2>4
<1>9. cpuRx[b] \in Seq(AnyMsg)
  <2>1. \/ cpuRx[b] = <<>> \/ cpuRx[b] \in Seq(Heard(b))
        \/ DOMAIN cpuRx = Boots /\ Joins(b)
    BY <1>2 DEF Seds, LocalTypes, Device, Silent, Asks, Granted, Talks, Begins
  <2>2. <<>> \in Seq(AnyMsg) OBVIOUS
  <2>3. cpuRx[b] \in Seq(Heard(b)) => cpuRx[b] \in Seq(AnyMsg) BY <1>1
  <2>4. Joins(b) => cpuRx[b] \in Seq(AnyMsg) BY DEF Joins
  <2> QED BY <2>1, <2>2, <2>3, <2>4
<1>10. Outgoing(b) \in Seq(AnyMsg)
  <2>1. CASE ctlPc[b] = "toRadio"
    <3>1. PICK m \in AnyMsg : m = held[b] BY <1>1, <1>6, <2>1
    <3>2. PICK s \in Seq(AnyMsg) : s = cpuTx[b] BY <1>8
    <3>3. <<m>> \o s \in Seq(AnyMsg) OBVIOUS
    <3> QED BY <2>1, <3>1, <3>2, <3>3, UntakenIs
  <2>2. CASE ctlPc[b] # "toRadio" BY <1>8, <2>2, UntakenIs
  <2> QED BY <2>1, <2>2
<1>11. Incoming(b) \in Seq(AnyMsg)
  <2>1. CASE ctlPc[b] = "toCpu"
    <3>1. PICK m \in AnyMsg : m = held[b] BY <1>1, <1>7, <2>1
    <3>2. PICK s \in Seq(AnyMsg) : s = down[b] BY <1>5
    <3>3. <<m>> \o s \in Seq(AnyMsg) OBVIOUS
    <3> QED BY <2>1, <3>1, <3>2, <3>3, UntakenIs
  <2>2. CASE ctlPc[b] # "toCpu" BY <1>5, <2>2, UntakenIs
  <2> QED BY <2>1, <2>2
<1> QED BY <1>5, <1>6, <1>7, <1>8, <1>9, <1>10, <1>11

LEMMA Sides ==
    ASSUME NEW b \in Boots, NEW P
    PROVE  /\ Before(b, P) = Count(Outgoing(b), P) + Count(up[b], P)
           /\ Before(b, P)' = Count(Outgoing(b)', P) + Count(up'[b], P)
           /\ Beyond(b, P) = Count(Incoming(b), P) + Count(cpuRx[b], P)
           /\ Beyond(b, P)' = Count(Incoming(b)', P) + Count(cpuRx'[b], P)
BY DEF Before, Beyond, FromCpu, Written, ToController, AtCpu, Outgoing, Incoming, Count, Select, Selected

LEMMA SidesTyped ==
    ASSUME Seds, RadioTypes, NEW b \in Boots, NEW P
    PROVE  /\ Count(Outgoing(b), P) \in Nat /\ Count(up[b], P) \in Nat
           /\ Count(Incoming(b), P) \in Nat /\ Count(cpuRx[b], P) \in Nat
           /\ Count(buf[IdOf[b]], P) \in Nat /\ Count(msgs, P) \in Nat
BY Typed, CountTyped

\* The sides of a SED that does not take part.
LEMMA SidesStill ==
    ASSUME NEW b \in Boots, NEW P
    PROVE  /\ UNCHANGED <<ctlPc[b], held[b], cpuTx[b], up[b]>> => Before(b, P)' = Before(b, P)
           /\ UNCHANGED <<ctlPc[b], held[b], down[b], cpuRx[b]>> => Beyond(b, P)' = Beyond(b, P)
BY Sides, UntakenIs

\* The first of a sequence, taken into the controller's hand, still counts.
LEMMA InHand ==
    ASSUME NEW S, NEW s \in Seq(S), s # <<>>
    PROVE  <<Head(s)>> \o Tail(s) = s
OBVIOUS

LEMMA ControllerBefore ==
    ASSUME Seds, RadioTypes, NEW b \in Boots, ControllerStep(b), NEW P, Request(b) \notin P
    PROVE  Before(b, P)' = Before(b, P)
<1>1. LocalTypes /\ up \in [Clients -> Seq(Air)] /\ b \in Clients BY Homes DEF Seds, RadioTypes
<1>2. /\ cpuTx[b] \in Seq(AnyMsg) /\ Outgoing(b) \in Seq(AnyMsg) /\ up[b] \in Seq(AnyMsg)
  BY Typed
<1>3. CASE Asking(b)
  <2>1. ctlPc[b] # "toRadio" /\ ctlPc'[b] # "toRadio" /\ UNCHANGED up
    BY <1>1, <1>3 DEF Asking, Asks, Granted, LocalTypes
  <2>2. Outgoing(b) = cpuTx[b] /\ Outgoing(b)' = cpuTx'[b] BY <2>1, UntakenIs
  <2>3. UNCHANGED cpuTx \/ (cpuTx[b] = <<Request(b)>> /\ cpuTx'[b] = <<>>)
    BY <1>1, <1>3 DEF Asking, LocalTypes
  <2>4. Count(cpuTx'[b], P) = Count(cpuTx[b], P)
    <3>1. Count(<<Request(b)>>, P) = 0 BY CountOne DEF One
    <3> QED BY <2>3, <3>1, CountNothing
  <2> QED BY <2>1, <2>2, <2>4, Sides
<1>4. CASE Relaying(b)
  <2>1. CASE /\ ctlPc[b] = "cpu" /\ cpuTx[b] # <<>> /\ UNCHANGED up
             /\ held' = [held EXCEPT ![b] = Head(cpuTx[b])]
             /\ cpuTx' = [cpuTx EXCEPT ![b] = Tail(@)]
             /\ ctlPc' = [ctlPc EXCEPT ![b] = "toRadio"]
    <3>1. /\ ctlPc'[b] = "toRadio" /\ held'[b] = Head(cpuTx[b]) /\ cpuTx'[b] = Tail(cpuTx[b])
      BY <1>1, <2>1 DEF LocalTypes
    <3>2. Outgoing(b)' = <<Head(cpuTx[b])>> \o Tail(cpuTx[b]) BY <3>1, UntakenIs
    <3>3. Outgoing(b)' = cpuTx[b] BY <1>2, <2>1, <3>2, InHand
    <3>4. Outgoing(b) = cpuTx[b] BY <2>1, UntakenIs
    <3> QED BY <2>1, <3>3, <3>4, Sides
  <2>2. CASE /\ ctlPc[b] = "toRadio" /\ held[b] \in Said(b) /\ UNCHANGED cpuTx
             /\ up' = [up EXCEPT ![b] = Append(@, held[b])]
             /\ ctlPc' = [ctlPc EXCEPT ![b] = "cpu"]
    <3>1. ctlPc'[b] = "cpu" /\ up'[b] = Append(up[b], held[b]) BY <1>1, <2>2 DEF LocalTypes
    <3>2. Outgoing(b)' = cpuTx[b] BY <2>2, <3>1, UntakenIs
    <3>3. Outgoing(b) = <<held[b]>> \o cpuTx[b] BY <2>2, UntakenIs
    <3>4. PICK m \in AnyMsg : m = held[b] BY <1>1, <2>2, Homes DEF AnyMsg, Air
    <3>5. <<m>> \in Seq(AnyMsg) OBVIOUS
    <3>6. Count(<<m>> \o cpuTx[b], P) = Count(<<m>>, P) + Count(cpuTx[b], P)
      BY <1>2, <3>5, CountConcat
    <3>7. Count(<<m>>, P) = One(m, P) BY CountOne
    <3>8. Count(Append(up[b], m), P) = Count(up[b], P) + One(m, P) BY <1>2, CountAppend
    <3>9. Count(cpuTx[b], P) \in Nat /\ Count(up[b], P) \in Nat BY <1>2, CountTyped
    <3>10. One(m, P) \in Nat BY DEF One
    <3>11. Before(b, P) = (One(m, P) + Count(cpuTx[b], P)) + Count(up[b], P)
      BY <3>3, <3>4, <3>6, <3>7, Sides
    <3>12. Before(b, P)' = Count(cpuTx[b], P) + (Count(up[b], P) + One(m, P))
      BY <3>1, <3>2, <3>4, <3>8, Sides
    <3> QED BY <3>9, <3>10, <3>11, <3>12
  <2>3. CASE ctlPc[b] # "toRadio" /\ ctlPc'[b] # "toRadio" /\ UNCHANGED <<cpuTx, up>>
    BY <2>3, UntakenIs, Sides
  <2> QED BY <1>1, <1>4, <2>1, <2>2, <2>3 DEF Relaying, LocalTypes
<1> QED BY <1>3, <1>4, ControllerCases

LEMMA ControllerBeyond ==
    ASSUME Seds, RadioTypes, NEW b \in Boots, ControllerStep(b),
           NEW P, Answer(b) \notin P, Air \cap P \subseteq Heard(b)
    PROVE  Beyond(b, P)' = Beyond(b, P)
<1>1. LocalTypes /\ down \in [Clients -> Seq(Air)] /\ b \in Clients BY Homes DEF Seds, RadioTypes
<1>2. /\ cpuRx[b] \in Seq(AnyMsg) /\ Incoming(b) \in Seq(AnyMsg) /\ down[b] \in Seq(AnyMsg)
  BY Typed
<1>3. CASE Asking(b)
  <2>1. ctlPc[b] # "toCpu" /\ ctlPc'[b] # "toCpu" /\ UNCHANGED down
    BY <1>1, <1>3 DEF Asking, Asks, Granted, LocalTypes
  <2>2. Incoming(b) = down[b] /\ Incoming(b)' = down[b] BY <2>1, UntakenIs
  <2>3. UNCHANGED cpuRx \/ (cpuRx[b] = <<>> /\ cpuRx'[b] = <<Answer(b)>>)
    BY <1>1, <1>3 DEF Asking, Granted, LocalTypes
  <2>4. Count(cpuRx'[b], P) = Count(cpuRx[b], P)
    <3>1. Count(<<Answer(b)>>, P) = 0 BY CountOne DEF One
    <3> QED BY <2>3, <3>1, CountNothing
  <2> QED BY <2>1, <2>2, <2>4, Sides
<1>4. CASE Relaying(b)
  <2>1. CASE /\ ctlPc[b] = "radio" /\ down[b] # <<>> /\ UNCHANGED cpuRx
             /\ Head(down[b]) \in Heard(b) /\ down' = [down EXCEPT ![b] = Tail(@)]
             /\ held' = [held EXCEPT ![b] = Head(down[b])]
             /\ ctlPc' = [ctlPc EXCEPT ![b] = "toCpu"]
    <3>1. /\ ctlPc'[b] = "toCpu" /\ held'[b] = Head(down[b]) /\ down'[b] = Tail(down[b])
      BY <1>1, <2>1 DEF LocalTypes
    <3>2. Incoming(b)' = <<Head(down[b])>> \o Tail(down[b]) BY <3>1, UntakenIs
    <3>3. Incoming(b)' = down[b] BY <1>2, <2>1, <3>2, InHand
    <3>4. Incoming(b) = down[b] BY <2>1, UntakenIs
    <3> QED BY <2>1, <3>3, <3>4, Sides
  <2>2. CASE /\ ctlPc[b] = "radio" /\ down[b] # <<>> /\ UNCHANGED cpuRx
             /\ Head(down[b]) \notin Heard(b) /\ down' = [down EXCEPT ![b] = Tail(@)]
             /\ ctlPc' = [ctlPc EXCEPT ![b] = "cpu"]
    <3>1. ctlPc'[b] = "cpu" /\ down'[b] = Tail(down[b]) BY <1>1, <2>2 DEF LocalTypes
    <3>2. Incoming(b)' = Tail(down[b]) /\ Incoming(b) = down[b] BY <2>2, <3>1, UntakenIs
    <3>3. Head(down[b]) \in Air /\ Tail(down[b]) \in Seq(Air)
      BY <1>1, <2>2, HeadTailProperties
    <3>4. Head(down[b]) \notin P BY <2>2, <3>3
    <3>5. Count(down[b], P) = Count(Tail(down[b]), P) + 0
      BY <1>2, <2>2, <3>4, CountTail DEF One
    <3>6. Count(Tail(down[b]), P) \in Nat BY <3>3, CountTyped
    <3>7. Beyond(b, P) = Count(down[b], P) + Count(cpuRx[b], P) BY <3>2, Sides
    <3>8. Beyond(b, P)' = Count(Tail(down[b]), P) + Count(cpuRx[b], P) BY <2>2, <3>2, Sides
    <3> QED BY <3>5, <3>6, <3>7, <3>8
  <2>3. CASE /\ ctlPc[b] = "toCpu" /\ held[b] \in Heard(b) /\ UNCHANGED down
             /\ cpuRx' = [cpuRx EXCEPT ![b] = Append(@, held[b])]
             /\ ctlPc' = [ctlPc EXCEPT ![b] = "cpu"]
    <3>1. ctlPc'[b] = "cpu" /\ cpuRx'[b] = Append(cpuRx[b], held[b])
      BY <1>1, <2>3 DEF LocalTypes
    <3>2. Incoming(b)' = down[b] BY <2>3, <3>1, UntakenIs
    <3>3. Incoming(b) = <<held[b]>> \o down[b] BY <2>3, UntakenIs
    <3>4. PICK m \in AnyMsg : m = held[b] BY <2>3 DEF AnyMsg, Heard
    <3>5. <<m>> \in Seq(AnyMsg) OBVIOUS
    <3>6. Count(<<m>> \o down[b], P) = Count(<<m>>, P) + Count(down[b], P)
      BY <1>2, <3>5, CountConcat
    <3>7. Count(<<m>>, P) = One(m, P) BY CountOne
    <3>8. Count(Append(cpuRx[b], m), P) = Count(cpuRx[b], P) + One(m, P) BY <1>2, CountAppend
    <3>9. Count(cpuRx[b], P) \in Nat /\ Count(down[b], P) \in Nat BY <1>2, CountTyped
    <3>10. One(m, P) \in Nat BY DEF One
    <3>11. Beyond(b, P) = (One(m, P) + Count(down[b], P)) + Count(cpuRx[b], P)
      BY <3>3, <3>4, <3>6, <3>7, Sides
    <3>12. Beyond(b, P)' = Count(down[b], P) + (Count(cpuRx[b], P) + One(m, P))
      BY <2>3, <3>1, <3>2, <3>4, <3>8, Sides
    <3> QED BY <3>9, <3>10, <3>11, <3>12
  <2>4. CASE ctlPc[b] # "toCpu" /\ ctlPc'[b] # "toCpu" /\ UNCHANGED <<cpuRx, down>>
    BY <2>4, UntakenIs, Sides
  <2> QED BY <1>1, <1>4, <2>1, <2>2, <2>3, <2>4 DEF Relaying, LocalTypes
<1> QED BY <1>3, <1>4, ControllerCases

LEMMA WayIs ==
    ASSUME NEW b \in Boots, NEW c, c = Peer(b), NEW P, P = Between(b, c)
    PROVE  /\ Way(b) = Before(b, P) + Within(b, c, P) + Beyond(c, P)
           /\ Way(b)' = Before(b, P)' + Within(b, c, P)' + Beyond(c, P)'
<1>1. Peer(b)' = Peer(b) BY DEF Peer
<1>2. Between(b, c)' = Between(b, c) BY DEF Between, Texts, HELLO, FLAG, QUIT
<1> QED BY <1>1, <1>2 DEF Way

LEMMA WayTyped ==
    ASSUME Seds, RadioTypes, NEW b \in Boots, NEW c \in Boots, NEW P
    PROVE  Before(b, P) \in Nat /\ Within(b, c, P) \in Nat /\ Beyond(b, P) \in Nat
<1>1. OnAir(c, P) \in Nat BY DEF OnAir
<1>2. /\ FromCpu(b, P) \in Nat /\ Written(b, P) \in Nat /\ Buffered(b, P) \in Nat
      /\ InBatch(P) \in Nat /\ ToController(b, P) \in Nat /\ AtCpu(b, P) \in Nat
  BY SidesTyped DEF FromCpu, Written, Buffered, InBatch, ToController, AtCpu, Outgoing, Incoming
<1> QED BY <1>1, <1>2 DEF Before, Within, Beyond

\* A message reaches the controller.
LEMMA IncomingGrows ==
    ASSUME Seds, RadioTypes, NEW c \in Boots, NEW m \in Air,
           down' = [down EXCEPT ![c] = Append(@, m)], UNCHANGED <<ctlPc, held, cpuRx>>, NEW P
    PROVE  Beyond(c, P)' = Beyond(c, P) + One(m, P)
<1>1. down[c] \in Seq(AnyMsg) /\ Incoming(c) \in Seq(AnyMsg) /\ m \in AnyMsg
  BY Typed DEF AnyMsg
<1>2. down'[c] = Append(down[c], m) BY Homes DEF RadioTypes
<1>3. Incoming(c)' = Append(Incoming(c), m)
  <2>1. CASE ctlPc[c] = "toCpu"
    <3>1. PICK h \in AnyMsg : h = held[c] BY <2>1, Typed DEF AnyMsg, Heard
    <3>2. PICK s \in Seq(AnyMsg) : s = down[c] BY <1>1
    <3>3. <<h>> \o Append(s, m) = Append(<<h>> \o s, m) BY <1>1
    <3> QED BY <1>2, <2>1, <3>1, <3>2, <3>3, UntakenIs
  <2>2. CASE ctlPc[c] # "toCpu" BY <1>2, <2>2, UntakenIs
  <2> QED BY <2>1, <2>2
<1>4. Count(Incoming(c)', P) = Count(Incoming(c), P) + One(m, P) BY <1>1, <1>3, CountAppend
<1>5. Count(Incoming(c), P) \in Nat /\ Count(cpuRx[c], P) \in Nat /\ One(m, P) \in Nat
  BY SidesTyped DEF One
<1>6. Beyond(c, P)' = (Count(Incoming(c), P) + One(m, P)) + Count(cpuRx[c], P) BY <1>4, Sides
<1>7. Beyond(c, P) = Count(Incoming(c), P) + Count(cpuRx[c], P) BY Sides
<1> QED BY <1>5, <1>6, <1>7

LEMMA WithinIs ==
    ASSUME NEW b \in Boots, NEW c \in Boots, NEW P
    PROVE  /\ Within(b, c, P) = Count(buf[IdOf[b]], P) + Count(msgs, P) + OnAir(c, P)
           /\ Within(b, c, P)' = Count(buf'[IdOf[b]], P) + Count(msgs', P) + OnAir(c, P)'
           /\ OnAir(c, P)' = IF IdOf[c] \in ToSet(hearers') /\ msg' \in P THEN 1 ELSE 0
BY DEF Within, Buffered, InBatch, OnAir, Count, Select, Selected, ToSet

\* The emulator takes what it takes of one client and puts it in its batch.
LEMMA TakesCounts ==
    ASSUME Seds, Waves, RadioStep, NEW e \in Clients, Takes(e),
           NEW b \in Boots, NEW c \in Boots, NEW P, \A m \in Air \cap P : m.src = IdOf[b]
    PROVE  Count(up'[b], P) + Within(b, c, P)' = Count(up[b], P) + Within(b, c, P)
<1>1. RadioTypes /\ b \in Clients /\ Home(b) = IdOf[b] /\ IdOf[b] \in Rad!Ports
  BY Homes DEF Waves
<1>2. PICK first, rest, received \in Seq(Said(e)) :
          /\ up[e] = first \o rest
          /\ received = buf[Home(e)] \o first /\ received # <<>>
          /\ up' = [up EXCEPT ![e] = rest]
          /\ buf' = [buf EXCEPT ![Home(e)] = Tail(received)]
          /\ msgs' = Append(msgs, Head(received))
  BY DEF Takes
<1>3. OnAir(c, P)' = OnAir(c, P) /\ OnAir(c, P) \in Nat
  BY WithinIs DEF Takes, OnAir
<1>4. PICK m \in Said(e) : m = Head(received) BY <1>2, HeadTailProperties
<1>5. msgs \in Seq(Air) /\ m \in Air BY <1>1, SaidIs DEF RadioTypes
<1>6. Count(msgs', P) = Count(msgs, P) + One(m, P) BY <1>2, <1>4, <1>5, CountAppend
<1>7. Count(msgs, P) \in Nat /\ One(m, P) \in Nat BY <1>5, CountTyped DEF One
<1>8. CASE e = b
  <2>1. up'[b] = rest /\ buf'[IdOf[b]] = Tail(received)
    BY <1>1, <1>2, <1>8 DEF RadioTypes
  <2>2. PICK before \in Seq(Said(e)) : before = buf[Home(e)] BY <1>1 DEF RadioTypes
  <2>3. Count(up[b], P) = Count(first, P) + Count(rest, P) BY <1>2, <1>8, CountConcat
  <2>4. Count(received, P) = Count(before, P) + Count(first, P) BY <1>2, <2>2, CountConcat
  <2>5. Count(received, P) = Count(Tail(received), P) + One(m, P) BY <1>2, <1>4, CountTail
  <2>6. PICK n1, n2, n3 \in Nat :
          n1 = Count(first, P) /\ n2 = Count(rest, P) /\ n3 = Count(before, P)
    BY CountTyped
  <2>7. PICK n4 \in Nat : n4 = Count(Tail(received), P)
    BY <1>2, HeadTailProperties, CountTyped
  <2>8. PICK n5, n6, n7 \in Nat : n5 = Count(msgs, P) /\ n6 = One(m, P) /\ n7 = OnAir(c, P)
    BY <1>3, <1>7
  <2>9. n3 + n1 = n4 + n6 BY <2>4, <2>5, <2>6, <2>7, <2>8
  <2>10. Count(up[b], P) + Within(b, c, P) = (n1 + n2) + (n3 + n5 + n7)
    BY <1>1, <1>8, <2>2, <2>3, <2>6, <2>8, WithinIs
  <2>11. Count(up'[b], P) + Within(b, c, P)' = n2 + (n4 + (n5 + n6) + n7)
    <3>1. Within(b, c, P)' = Count(buf'[IdOf[b]], P) + Count(msgs', P) + OnAir(c, P)'
      BY WithinIs
    <3>2. Count(buf'[IdOf[b]], P) = n4 /\ Count(up'[b], P) = n2 BY <2>1, <2>6, <2>7
    <3>3. Count(msgs', P) = n5 + n6 /\ OnAir(c, P)' = n7 BY <1>3, <1>6, <2>8
    <3> QED BY <3>1, <3>2, <3>3
  <2>12. n2 + (n4 + (n5 + n6) + n7) = (n4 + n6) + (n2 + n5 + n7) OBVIOUS
  <2>13. (n1 + n2) + (n3 + n5 + n7) = (n3 + n1) + (n2 + n5 + n7) OBVIOUS
  <2> QED BY <2>9, <2>10, <2>11, <2>12, <2>13
<1>9. CASE e # b
  <2>1. Home(e) # Home(b) BY <1>1, <1>9, Homes
  <2>2. up'[b] = up[b] /\ buf'[IdOf[b]] = buf[IdOf[b]]
    BY <1>1, <1>2, <1>9, <2>1 DEF RadioTypes
  <2>3. m \notin P BY <1>1, <1>5, <2>1, SaidIs
  <2>4. One(m, P) = 0 BY <2>3 DEF One
  <2>5. Count(msgs', P) = Count(msgs, P) BY <1>6, <1>7, <2>4
  <2> QED BY <1>3, <2>2, <2>5, WithinIs
<1> QED BY <1>8, <1>9

\* A message of the batch is on the air, for everybody.
LEMMA RoutesCounts ==
    ASSUME Seds, Waves, Routes, NEW b \in Boots, NEW c \in Boots,
           NEW P, \A m \in Air \cap P : ~Rad!direct(m)
    PROVE  Within(b, c, P)' = Within(b, c, P)
<1>1. RadioTypes /\ Sending BY DEF Waves
<1>2. msgs \in Seq(Air) /\ msgs # <<>> /\ msgs' = Tail(msgs) /\ UNCHANGED buf
  BY <1>1 DEF Routes, RadioTypes
<1>3. PICK m \in Air : m = Head(msgs) /\ msg' = m BY <1>2, HeadTailProperties DEF Routes
<1>4. hearers = <<>> BY <1>1 DEF Routes, Sending
<1>5. OnAir(c, P) = 0 BY <1>4 DEF OnAir, ToSet
<1>6. OnAir(c, P)' = One(m, P)
  <2>1. CASE m \in P
    <3>1. hearers' = DevOrder BY <1>3, <2>1 DEF Routes
    <3>2. IdOf[c] \in ToSet(DevOrder)
      <4>1. IdOf[c] \in Devices BY Constants
      <4> QED BY <4>1, EchoAssumption DEF ToSet
    <3> QED BY <1>3, <2>1, <3>1, <3>2, WithinIs DEF One
  <2>2. CASE m \notin P BY <1>3, <2>2, WithinIs DEF One
  <2> QED BY <2>1, <2>2
<1>7. Count(msgs, P) = Count(msgs', P) + One(m, P) BY <1>2, <1>3, CountTail
<1>8. PICK n1, n2 \in Nat : n1 = Count(msgs', P) /\ n2 = One(m, P)
  <2>1. msgs' \in Seq(Air) BY <1>2, HeadTailProperties
  <2> QED BY <2>1, CountTyped DEF One
<1>9. PICK n3 \in Nat : n3 = Count(buf[IdOf[b]], P) BY <1>1, SidesTyped
<1>10. Within(b, c, P)' = n3 + n1 + n2
  <2>1. Within(b, c, P)' = Count(buf'[IdOf[b]], P) + Count(msgs', P) + OnAir(c, P)' BY WithinIs
  <2> QED BY <1>2, <1>6, <1>8, <1>9, <2>1
<1>11. Within(b, c, P) = n3 + (n1 + n2) + 0
  <2>1. Within(b, c, P) = Count(buf[IdOf[b]], P) + Count(msgs, P) + OnAir(c, P) BY WithinIs
  <2> QED BY <1>5, <1>7, <1>8, <1>9, <2>1
<1>12. n3 + (n1 + n2) + 0 = n3 + n1 + n2 OBVIOUS
<1> QED BY <1>10, <1>11, <1>12

\* One after the other hears it - or does not, if it has not been started.
LEMMA SendsCounts ==
    ASSUME Seds, Waves, RadioStep, Sends, NEW b \in Boots, NEW c \in Boots, NEW P
    PROVE  /\ Within(b, c, P)' + Beyond(c, P)' <= Within(b, c, P) + Beyond(c, P)
           /\ link[c] = "open" =>
                 Within(b, c, P)' + Beyond(c, P)' = Within(b, c, P) + Beyond(c, P)
<1>1. RadioTypes /\ Sending BY DEF Waves
<1>2. UNCHANGED <<ctlPc, held, cpuRx>> BY DEF RadioStep, cpuVars, ctlVars
<1>3. UNCHANGED <<buf, msgs>> /\ hearers # <<>> /\ msg \in Air /\ hearers' = Tail(hearers)
      /\ hearers \in Seq(Rad!socks) /\ (Tail(hearers) = <<>> \/ UNCHANGED msg)
  BY <1>1 DEF Sends, Sending
<1>4. c \in Clients /\ Home(c) = IdOf[c] BY Homes
<1>5. \A e \in Clients : Home(e) = Home(c) => e = c BY <1>4, Homes
<1>6. PICK h \in Rad!socks : h = Head(hearers) BY <1>3, HeadTailProperties
<1>7. Tail(hearers) \in Seq(Rad!socks) /\ Len(Tail(hearers)) = Len(hearers) - 1
      /\ \A i \in 1..Len(Tail(hearers)) : Tail(hearers)[i] = hearers[i + 1]
  BY <1>3, HeadTailProperties
<1>8. ToSet(hearers) = {h} \cup ToSet(Tail(hearers)) /\ h \notin ToSet(Tail(hearers))
  <2>1. PICK s \in Seq(Rad!socks) : s = Tail(hearers) BY <1>7
  <2>2. PICK n \in Nat : n = Len(s) /\ Len(hearers) = n + 1
    <3>1. Len(hearers) \in Nat /\ Len(s) \in Nat /\ Len(s) = Len(hearers) - 1 BY <1>3, <1>7, <2>1
    <3> QED BY <3>1
  <2>3. \A i \in 1..n : s[i] = hearers[i + 1] /\ i + 1 \in 1..(n + 1) BY <1>7, <2>1, <2>2
  <2>4. hearers[1] = h BY <1>3, <1>6
  <2>5. DOMAIN hearers = 1..(n + 1) /\ DOMAIN s = 1..n BY <1>3, <2>1, <2>2
  <2>6. \A i \in 1..(n + 1) : i = 1 \/ (i - 1 \in 1..n /\ hearers[i] = s[i - 1])
    <3> SUFFICES ASSUME NEW i \in 1..(n + 1), i # 1 PROVE i - 1 \in 1..n /\ hearers[i] = s[i - 1]
      OBVIOUS
    <3>1. i - 1 \in 1..n /\ (i - 1) + 1 = i BY <2>2
    <3> QED BY <2>3, <3>1
  <2>7. \A i \in 1..n : s[i] # h
    <3>1. \A i, j \in 1..(n + 1) : hearers[i] = hearers[j] => i = j BY <1>1, <2>2 DEF Sending
    <3>2. 1 \in 1..(n + 1) /\ \A i \in 1..n : i + 1 # 1 BY <2>2
    <3> QED BY <2>3, <2>4, <3>1, <3>2
  <2>8. ToSet(s) \subseteq ToSet(hearers) /\ h \in ToSet(hearers)
    <3>1. 1 \in 1..(n + 1) BY <2>2
    <3> QED BY <2>3, <2>4, <2>5, <3>1 DEF ToSet
  <2>9. ToSet(hearers) \subseteq {h} \cup ToSet(s) BY <2>4, <2>5, <2>6 DEF ToSet
  <2>10. h \notin ToSet(s) BY <2>5, <2>7 DEF ToSet
  <2> QED BY <2>1, <2>8, <2>9, <2>10
<1>9. ToSet(<<>>) = {} BY DEF ToSet
<1>10. OnAir(c, P) = IF IdOf[c] \in ToSet(hearers) /\ msg \in P THEN 1 ELSE 0 BY DEF OnAir
<1>11. OnAir(c, P)' = IF IdOf[c] \in ToSet(Tail(hearers)) /\ msg \in P THEN 1 ELSE 0
  <2>1. OnAir(c, P)' = IF IdOf[c] \in ToSet(Tail(hearers)) /\ msg' \in P THEN 1 ELSE 0
    BY <1>3, WithinIs
  <2> QED BY <1>3, <1>9, <2>1
<1>12. PICK n1, n2, n3 \in Nat :
          n1 = Count(buf[IdOf[b]], P) /\ n2 = Count(msgs, P) /\ n3 = Beyond(c, P)
  <2>1. Beyond(c, P) \in Nat BY <1>1, SidesTyped, Sides
  <2> QED BY <1>1, <2>1, SidesTyped
<1>13. Within(b, c, P) = n1 + n2 + OnAir(c, P) BY <1>12, WithinIs
<1>14. Within(b, c, P)' = n1 + n2 + OnAir(c, P)'
  <2>1. Within(b, c, P)' = Count(buf'[IdOf[b]], P) + Count(msgs', P) + OnAir(c, P)' BY WithinIs
  <2> QED BY <1>3, <1>12, <2>1
<1>15. CASE h # IdOf[c]
  <2>1. OnAir(c, P)' = OnAir(c, P) /\ OnAir(c, P) \in Nat BY <1>8, <1>10, <1>11, <1>15
  <2>2. down'[c] = down[c] BY <1>1, <1>4, <1>6, <1>15 DEF Sends, RadioTypes
  <2>3. Beyond(c, P)' = n3 BY <1>2, <1>12, <2>2, SidesStill
  <2> QED BY <1>12, <1>13, <1>14, <2>1, <2>3
<1>16. CASE h = IdOf[c]
  <2>1. OnAir(c, P) = One(msg, P) /\ OnAir(c, P)' = 0 BY <1>8, <1>10, <1>11, <1>16 DEF One
  <2>2. CASE UNCHANGED down /\ link[c] = "unused"
    <3>1. Beyond(c, P)' = n3 BY <1>2, <1>12, <2>2, SidesStill
    <3>2. One(msg, P) \in Nat BY DEF One
    <3> QED BY <1>12, <1>13, <1>14, <2>1, <2>2, <3>1, <3>2
  <2>3. CASE down' = [down EXCEPT ![c] = Append(@, msg)]
    <3>1. Beyond(c, P)' = n3 + One(msg, P) BY <1>1, <1>2, <1>3, <1>12, <2>3, IncomingGrows
    <3>2. One(msg, P) \in Nat BY DEF One
    <3> QED BY <1>12, <1>13, <1>14, <2>1, <3>1, <3>2
  <2> QED BY <1>4, <1>5, <1>6, <1>16, <2>2, <2>3 DEF Sends
<1> QED BY <1>15, <1>16

-----------------------------------------------------------------------------
(* Nothing on the way loses a message to a program that has been launched, *)
(* or repeats it.                                                          *)

LEMMA WordsOnly ==
    ASSUME NEW b \in Boots, NEW P, P = Between(b, Peer(b))
    PROVE  /\ Air \cap P \subseteq Heard(Peer(b))
           /\ \A m \in Air \cap P : m.src = IdOf[b] /\ ~Rad!direct(m)
           /\ \A e \in Boots : Request(e) \notin P /\ Answer(e) \notin P
BY WordIs

LEMMA StillWay ==
    ASSUME UNCHANGED <<cpuTx, cpuRx, ctlPc, held, buf, msgs, msg, hearers>>,
           \A b \in Boots : up'[b] = up[b] /\ down'[b] = down[b]
    PROVE  \A b \in Boots : Way(b)' = Way(b)
<1> SUFFICES ASSUME NEW b \in Boots PROVE Way(b)' = Way(b) OBVIOUS
<1>1. PICK c \in Boots : c = Peer(b) BY Constants
<1>2. PICK P : P = Between(b, c) OBVIOUS
<1>3. Before(b, P)' = Before(b, P) /\ Beyond(c, P)' = Beyond(c, P) BY SidesStill
<1>4. Within(b, c, P)' = Within(b, c, P) BY WithinIs DEF OnAir
<1> QED BY <1>1, <1>2, <1>3, <1>4, WayIs

LEMMA ControllerWay ==
    ASSUME Seds, Waves, NEW e \in Boots, ControllerStep(e)
    PROVE  \A b \in Boots : Way(b)' = Way(b)
<1> SUFFICES ASSUME NEW b \in Boots PROVE Way(b)' = Way(b) OBVIOUS
<1>1. RadioTypes BY DEF Waves
<1>2. PICK c \in Boots : c = Peer(b) BY Constants
<1>3. PICK P : P = Between(b, c) OBVIOUS
<1>4. UNCHANGED <<buf, msgs, msg, hearers>> BY ControllerFrame
<1>5. Within(b, c, P)' = Within(b, c, P) BY <1>4, WithinIs DEF OnAir
<1>6. ASSUME NEW d \in Boots, d # e
      PROVE  UNCHANGED <<ctlPc[d], held[d], cpuTx[d], cpuRx[d], up[d], down[d]>>
  <2>1. LocalTypes /\ d \in Clients BY Homes DEF Seds
  <2>2. CASE Asking(e) BY <1>6, <2>1, <2>2 DEF Asking, LocalTypes
  <2>3. CASE Relaying(e) BY <1>1, <1>6, <2>1, <2>3 DEF Relaying, LocalTypes, RadioTypes
  <2> QED BY <1>1, <2>2, <2>3, ControllerCases
<1>7. Before(b, P)' = Before(b, P)
  <2>1. CASE e = b BY <1>1, <1>2, <1>3, <2>1, WordsOnly, ControllerBefore
  <2>2. CASE e # b BY <1>6, <2>2, SidesStill
  <2> QED BY <2>1, <2>2
<1>8. Beyond(c, P)' = Beyond(c, P)
  <2>1. CASE e = c BY <1>1, <1>2, <1>3, <2>1, WordsOnly, ControllerBeyond
  <2>2. CASE e # c BY <1>6, <2>2, SidesStill
  <2> QED BY <2>1, <2>2
<1> QED BY <1>2, <1>3, <1>5, <1>7, <1>8, WayIs

\* The counts are numbers, before a step and after it.
WayTypes ==
    Seds /\ RadioTypes =>
        \A b, c \in Boots : \A P :
            Before(b, P) \in Nat /\ Within(b, c, P) \in Nat /\ Beyond(b, P) \in Nat

LEMMA WayTypesNow == WayTypes
BY WayTyped DEF WayTypes

LEMMA WayTypesNext == WayTypes'
BY WayTypesNow, PTL

LEMMA WayTypedNext ==
    ASSUME Seds', RadioTypes', NEW b \in Boots, NEW c \in Boots, NEW P
    PROVE  Before(b, P)' \in Nat /\ Within(b, c, P)' \in Nat /\ Beyond(b, P)' \in Nat
BY WayTypesNext DEF WayTypes

LEMMA RadioWay ==
    ASSUME Seds, Waves, RadioStep
    PROVE  \A b \in Boots :
              /\ Way(b)' <= Way(b)
              /\ link[Peer(b)] = "open" => Way(b)' = Way(b)
<1> SUFFICES ASSUME NEW b \in Boots
             PROVE  Way(b)' <= Way(b) /\ (link[Peer(b)] = "open" => Way(b)' = Way(b))
    OBVIOUS
<1>1. RadioTypes /\ Sending /\ Sockets BY DEF Waves
<1>2. PICK c \in Boots : c = Peer(b) BY Constants
<1>3. PICK P : P = Between(b, c) OBVIOUS
<1>4. \A m \in Air \cap P : m.src = IdOf[b] /\ ~Rad!direct(m) BY <1>2, <1>3, WordsOnly
<1>5. UNCHANGED <<cpuTx, cpuRx, ctlPc, held>> BY DEF RadioStep, cpuVars, ctlVars
<1>6. PICK x, y, z \in Nat : x = Before(b, P) /\ y = Within(b, c, P) /\ z = Beyond(c, P)
  BY <1>1, WayTyped
<1>7. Way(b) = x + y + z BY <1>2, <1>3, <1>6, WayIs
<1>8. Way(b)' = Before(b, P)' + Within(b, c, P)' + Beyond(c, P)' BY <1>2, <1>3, WayIs
<1>9. CASE Moves
  <2>1. Way(b)' = Way(b) BY <1>5, <1>9, StillWay DEF Moves
  <2> QED BY <1>7, <2>1
<1>10. ASSUME NEW e \in Clients, Takes(e) PROVE Way(b)' = Way(b)
  <2>1. Count(up'[b], P) + Within(b, c, P)' = Count(up[b], P) + Within(b, c, P)
    BY <1>4, <1>10, TakesCounts
  <2>2. Beyond(c, P)' = z BY <1>5, <1>6, <1>10, SidesStill DEF Takes
  <2>3. Outgoing(b)' = Outgoing(b) BY <1>5, UntakenIs
  <2>4. PICK o, u \in Nat : o = Count(Outgoing(b), P) /\ u = Count(up[b], P)
    BY <1>1, SidesTyped
  <2>5. x = o + u BY <1>6, <2>4, Sides
  <2>6. Before(b, P)' = o + Count(up'[b], P) BY <2>3, <2>4, Sides
  <2>7. Count(up'[b], P) \in Nat /\ Within(b, c, P)' \in Nat
    <3>1. up'[b] \in Seq(Air) /\ buf'[IdOf[b]] \in Seq(Air) /\ msgs' \in Seq(Air)
      <4>1. RadioTypes' BY RadioStepWaves DEF Waves
      <4>2. Air' = Air /\ Clients' = Clients /\ Rad!Ports' = Rad!Ports
        BY DEF Air, Said, Clients, Rad!Ports, Rad!socks, Rad!MITM, Rad!PROBE, Rad!RECVR
      <4>3. b \in Clients /\ IdOf[b] \in Rad!Ports BY Homes
      <4> QED BY <4>1, <4>2, <4>3 DEF RadioTypes
    <3>2. /\ Count(up'[b], P) \in Nat /\ Count(buf'[IdOf[b]], P) \in Nat
          /\ Count(msgs', P) \in Nat
      BY <3>1, CountTyped
    <3>3. OnAir(c, P)' \in Nat BY WithinIs
    <3> QED BY <3>2, <3>3, WithinIs
  <2>8. PICK v, w \in Nat : v = Count(up'[b], P) /\ w = Within(b, c, P)' BY <2>7
  <2>9. v + w = u + y BY <1>6, <2>1, <2>4, <2>8
  <2>10. Way(b)' = (o + v) + w + z BY <1>8, <2>2, <2>6, <2>8
  <2>11. (o + v) + w + z = (o + u) + y + z BY <2>9
  <2> QED BY <1>7, <2>5, <2>10, <2>11
<1>11. CASE Routes
  <2>1. Within(b, c, P)' = y BY <1>4, <1>6, <1>11, RoutesCounts
  <2>2. Before(b, P)' = x /\ Beyond(c, P)' = z BY <1>5, <1>6, <1>11, SidesStill DEF Routes
  <2> QED BY <1>7, <1>8, <2>1, <2>2
<1>12. CASE Sends
  <2>1. /\ Within(b, c, P)' + Beyond(c, P)' <= y + z
        /\ link[c] = "open" => Within(b, c, P)' + Beyond(c, P)' = y + z
    BY <1>6, <1>12, SendsCounts
  <2>2. Before(b, P)' = x BY <1>5, <1>6, <1>12, SidesStill DEF Sends
  <2>3. Within(b, c, P)' \in Nat /\ Beyond(c, P)' \in Nat
    <3>1. RadioTypes' /\ Seds' BY <1>1, RadioStepWaves, OutsideSeds DEF Waves
    <3> QED BY <3>1, WayTypedNext
  <2>4. PICK v, w \in Nat : v = Within(b, c, P)' /\ w = Beyond(c, P)' BY <2>3
  <2>5. v + w <= y + z /\ (link[c] = "open" => v + w = y + z) BY <2>1, <2>4
  <2>6. Way(b)' = x + v + w BY <1>8, <2>2, <2>4
  <2>7. x + v + w <= x + y + z /\ (v + w = y + z => x + v + w = x + y + z) BY <2>5
  <2> QED BY <1>2, <1>7, <2>5, <2>6, <2>7
<1> QED BY <1>1, <1>7, <1>9, <1>10, <1>11, <1>12, RadioCases

LEMMA WayNat ==
    ASSUME Seds, RadioTypes, NEW b \in Boots
    PROVE  Way(b) \in Nat
<1>1. PICK c \in Boots : c = Peer(b) BY Constants
<1>2. PICK P : P = Between(b, c) OBVIOUS
<1>3. PICK x, y, z \in Nat : x = Before(b, P) /\ y = Within(b, c, P) /\ z = Beyond(c, P)
  BY WayTyped
<1>4. x + y + z \in Nat OBVIOUS
<1> QED BY <1>1, <1>2, <1>3, <1>4, WayIs

\* The program of a SED says m, or hears what came first.
LEMMA Says ==
    ASSUME Seds, Waves, NEW e \in Boots, NEW c, c = Peer(e), NEW m \in AnyMsg,
           cpuTx' = [cpuTx EXCEPT ![e] = Append(@, m)],
           UNCHANGED <<cpuRx, ctlPc, held, up, down, buf, msgs, msg, hearers>>
    PROVE  /\ Way(e)' = Way(e) + One(m, Between(e, c))
           /\ Way(c)' = Way(c)
<1>1. RadioTypes /\ LocalTypes /\ c \in Boots /\ c # e /\ Peer(c) = e
  BY Constants DEF Waves, Seds
<1>2. PICK P, Q : P = Between(e, c) /\ Q = Between(c, e) OBVIOUS
<1>3. cpuTx[e] \in Seq(AnyMsg) /\ Outgoing(e) \in Seq(AnyMsg) BY <1>1, Typed
<1>4. cpuTx'[e] = Append(cpuTx[e], m) /\ cpuTx'[c] = cpuTx[c] BY <1>1 DEF LocalTypes
<1>5. Outgoing(e)' = Append(Outgoing(e), m)
  <2>1. CASE ctlPc[e] = "toRadio"
    <3>1. PICK h \in AnyMsg : h = held[e]
      <4>1. held[e] \in Said(e) /\ e \in Clients BY <1>1, <2>1, Typed, Homes
      <4>2. held[e] \in Air BY <4>1, SaidIs
      <4> QED BY <4>2 DEF AnyMsg
    <3>2. PICK s \in Seq(AnyMsg) : s = cpuTx[e] BY <1>3
    <3>3. <<h>> \o Append(s, m) = Append(<<h>> \o s, m) OBVIOUS
    <3> QED BY <1>4, <2>1, <3>1, <3>2, <3>3, UntakenIs
  <2>2. CASE ctlPc[e] # "toRadio" BY <1>4, <2>2, UntakenIs
  <2> QED BY <2>1, <2>2
<1>6. Count(Outgoing(e)', P) = Count(Outgoing(e), P) + One(m, P) BY <1>3, <1>5, CountAppend
<1>7. PICK n1, n2, n3 \in Nat :
          n1 = Count(Outgoing(e), P) /\ n2 = Count(up[e], P) /\ n3 = One(m, P)
  BY <1>1, SidesTyped DEF One
<1>8. PICK n4, n5 \in Nat : n4 = Within(e, c, P) /\ n5 = Beyond(c, P) BY <1>1, WayTyped
<1>9. Within(e, c, P)' = Within(e, c, P) /\ Within(c, e, Q)' = Within(c, e, Q)
  BY <1>1, WithinIs DEF OnAir
<1>10. Beyond(c, P)' = Beyond(c, P) /\ Beyond(e, Q)' = Beyond(e, Q) BY <1>1, SidesStill
<1>11. Before(c, Q)' = Before(c, Q) BY <1>1, <1>4, SidesStill
<1>12. Before(e, P) = n1 + n2 BY <1>7, Sides
<1>13. Before(e, P)' = (n1 + n3) + n2 BY <1>6, <1>7, Sides
<1>14. Way(e) = (n1 + n2) + n4 + n5 BY <1>1, <1>2, <1>8, <1>12, WayIs
<1>15. Way(e)' = ((n1 + n3) + n2) + n4 + n5 BY <1>1, <1>2, <1>8, <1>9, <1>10, <1>13, WayIs
<1>16. ((n1 + n3) + n2) + n4 + n5 = ((n1 + n2) + n4 + n5) + n3 OBVIOUS
<1>17. Way(c)' = Way(c) BY <1>1, <1>2, <1>9, <1>10, <1>11, WayIs
<1> QED BY <1>2, <1>7, <1>14, <1>15, <1>16, <1>17

LEMMA Hears ==
    ASSUME Seds, Waves, NEW e \in Boots, NEW c, c = Peer(e), cpuRx[e] # <<>>,
           cpuRx' = [cpuRx EXCEPT ![e] = Tail(@)],
           UNCHANGED <<cpuTx, ctlPc, held, up, down, buf, msgs, msg, hearers>>
    PROVE  /\ Way(c)' \in Nat
           /\ Way(c) = Way(c)' + One(Head(cpuRx[e]), Between(c, e))
           /\ Way(e)' = Way(e)
<1>1. RadioTypes /\ LocalTypes /\ c \in Boots /\ c # e /\ Peer(c) = e
  BY Constants DEF Waves, Seds
<1>2. PICK P, Q : P = Between(c, e) /\ Q = Between(e, c) OBVIOUS
<1>3. PICK s \in Seq(AnyMsg) : s = cpuRx[e] BY <1>1, Typed
<1>4. cpuRx'[e] = Tail(s) /\ cpuRx'[c] = cpuRx[c] BY <1>1, <1>3 DEF LocalTypes
<1>5. PICK m \in AnyMsg : m = Head(s) BY <1>3, HeadTailProperties
<1>6. Count(s, P) = Count(Tail(s), P) + One(m, P) BY <1>3, <1>5, CountTail
<1>7. Tail(s) \in Seq(AnyMsg) BY <1>3, HeadTailProperties
<1>8. PICK n1, n2, n3 \in Nat :
          n1 = Count(Incoming(e), P) /\ n2 = Count(Tail(s), P) /\ n3 = One(m, P)
  BY <1>1, <1>7, SidesTyped, CountTyped DEF One
<1>9. PICK n4, n5 \in Nat : n4 = Before(c, P) /\ n5 = Within(c, e, P) BY <1>1, WayTyped
<1>10. Within(c, e, P)' = Within(c, e, P) /\ Within(e, c, Q)' = Within(e, c, Q)
  BY <1>1, WithinIs DEF OnAir
<1>11. Before(c, P)' = Before(c, P) /\ Before(e, Q)' = Before(e, Q) BY <1>1, SidesStill
<1>12. Beyond(c, Q)' = Beyond(c, Q) BY <1>1, <1>4, SidesStill
<1>13. Incoming(e)' = Incoming(e) BY UntakenIs
<1>14. Beyond(e, P) = n1 + (n2 + n3) BY <1>3, <1>6, <1>8, Sides
<1>15. Beyond(e, P)' = n1 + n2 BY <1>4, <1>8, <1>13, Sides
<1>16. Way(c) = n4 + n5 + (n1 + (n2 + n3)) BY <1>1, <1>2, <1>9, <1>14, WayIs
<1>17. Way(c)' = n4 + n5 + (n1 + n2) BY <1>1, <1>2, <1>9, <1>10, <1>11, <1>15, WayIs
<1>18. n4 + n5 + (n1 + (n2 + n3)) = (n4 + n5 + (n1 + n2)) + n3 /\ n4 + n5 + (n1 + n2) \in Nat
  OBVIOUS
<1>19. Way(e)' = Way(e) BY <1>1, <1>2, <1>10, <1>11, <1>12, WayIs
<1> QED BY <1>2, <1>3, <1>5, <1>8, <1>16, <1>17, <1>18, <1>19

-----------------------------------------------------------------------------
(* There is one of it.                                                     *)

Places == Way(EchoClient) + Way(EchoServer) + Echoing

\* Steps that neither say it nor lose it.
LEMMA KeepsOne ==
    ASSUME OneOfIt, UNCHANGED met, stage'[EchoClient] = "hello" <=> stage[EchoClient] = "hello",
           \A b \in Boots : link[b] = "open" => link'[b] = "open",
           stage[EchoClient] = "hello" \/ met => Places' = Places
    PROVE  OneOfIt'
<1>1. EchoClient \in Boots /\ EchoServer \in Boots BY Constants
<1>2. stage'[EchoClient] # "hello" => link'[EchoClient] = "open" BY <1>1 DEF OneOfIt
<1>3. met' => link'[EchoServer] = "open" BY <1>1 DEF OneOfIt
<1>4. stage'[EchoClient] = "hello" \/ met' =>
        Places' = IF stage'[EchoClient] = "hello" THEN 0 ELSE 1
  BY DEF OneOfIt, Places
<1> QED BY <1>2, <1>3, <1>4 DEF OneOfIt, Places

LEMMA StillEchoing ==
    ASSUME UNCHANGED <<stage, data>>,
           cpuPc'[EchoServer] = cpuPc[EchoServer] \/ stage[EchoServer] # "received"
    PROVE  Echoing' = Echoing
BY DEF Echoing, InEcho

\* What a program does before its work.
LEMMA JoiningOne ==
    ASSUME OneOfIt, StageTypes, NEW b \in Boots,
           UNCHANGED <<stage, data, met, link>>,
           cpuPc' = [cpuPc EXCEPT ![b] = cpuPc'[b]], stage[b] # "received",
           Way(EchoClient)' = Way(EchoClient) /\ Way(EchoServer)' = Way(EchoServer)
    PROVE  OneOfIt'
<1>1. cpuPc'[EchoServer] = cpuPc[EchoServer] \/ stage[EchoServer] # "received"
  BY Constants DEF StageTypes
<1>2. Echoing' = Echoing BY <1>1, StillEchoing
<1>3. Places' = Places BY <1>2 DEF Places
<1> QED BY <1>3, KeepsOne

LEMMA ProgramOne ==
    ASSUME OneOfIt, Seds, StageTypes, Waves, Lively', NEW b \in Boots, ProgramStep(b)
    PROVE  OneOfIt'
<1>1. UNCHANGED <<ctlPc, held, up, down, buf, msgs, msg, hearers>> BY ProgramFrame
<1>2. UNCHANGED link BY ProgramLink
<1>3. RadioTypes /\ LocalTypes BY DEF Waves, Seds
<1>4. EchoClient \in Boots /\ EchoServer \in Boots /\ EchoClient # EchoServer
      /\ (b = EchoClient \/ b = EchoServer)
      /\ Peer(EchoClient) = EchoServer /\ Peer(EchoServer) = EchoClient
  BY Constants
<1>5. PICK c \in Boots : c = Peer(b) BY Constants
<1>6. ASSUME Way(b)' = Way(b), Way(c)' = Way(c)
      PROVE  Way(EchoClient)' = Way(EchoClient) /\ Way(EchoServer)' = Way(EchoServer)
  BY <1>4, <1>5, <1>6
<1>7. PICK n1, n2 \in Nat : n1 = Way(EchoClient) /\ n2 = Way(EchoServer) BY <1>3, <1>4, WayNat
<1>8. CASE UNCHANGED <<stage, data, met>> /\ Silent(b) /\ Prg!FirstRegister(b)
  <2>1. UNCHANGED <<cpuTx, cpuRx>> /\ cpuPc' = [cpuPc EXCEPT ![b] = "regSend"]
    BY <1>8 DEF Prg!FirstRegister, Prg!CallRegister, Prg!Goto
  <2>2. Way(EchoClient)' = Way(EchoClient) /\ Way(EchoServer)' = Way(EchoServer)
    BY <1>1, <1>4, <2>1, StillWay
  <2>3. stage[b] # "received" BY <1>8 DEF Silent, Begins
  <2>4. cpuPc' = [cpuPc EXCEPT ![b] = cpuPc'[b]] BY <2>1 DEF StageTypes
  <2> QED BY <1>2, <1>8, <2>2, <2>3, <2>4, JoiningOne
<1>9. CASE UNCHANGED <<app, stage, data, met>> /\ Silent(b) /\ Prg!SendRegister(b)
  <2>1. UNCHANGED cpuRx /\ cpuTx' = [cpuTx EXCEPT ![b] = Append(@, Request(b))]
        /\ cpuPc' = [cpuPc EXCEPT ![b] = "regRecv"]
    BY <1>9 DEF Prg!SendRegister, Prg!scewl_send, Prg!Goto, Request,
                Prg!packet, packet, Prg!SSS_ID, SSS_ID, Prg!REG, REG
  <2>2. Request(b) \in AnyMsg BY DEF AnyMsg
  <2>3. Way(b)' = Way(b) + One(Request(b), Between(b, c)) /\ Way(c)' = Way(c)
    BY <1>1, <1>5, <2>1, <2>2, Says
  <2>4. One(Request(b), Between(b, c)) = 0 BY <1>5, WordIs DEF One
  <2>5. Way(b)' = Way(b) BY <1>4, <1>7, <2>3, <2>4
  <2>6. stage[b] # "received" BY <1>9 DEF Silent, Begins
  <2>7. cpuPc' = [cpuPc EXCEPT ![b] = cpuPc'[b]] BY <2>1 DEF StageTypes
  <2> QED BY <1>2, <1>6, <1>9, <2>3, <2>5, <2>6, <2>7, JoiningOne
<1>10. CASE UNCHANGED <<app, stage, data, met>> /\ Joins(b) /\ Prg!RecvRegister(b)
  <2>1. UNCHANGED cpuTx /\ cpuRx' = [cpuRx EXCEPT ![b] = Tail(@)] /\ cpuRx[b] # <<>>
        /\ cpuPc' = [cpuPc EXCEPT ![b] = "idle"] /\ Head(cpuRx[b]) = Answer(b)
    BY <1>10 DEF Prg!RecvRegister, Prg!Consume, Prg!Return, Joins
  <2>2. /\ Way(c)' \in Nat /\ Way(b)' = Way(b)
        /\ Way(c) = Way(c)' + One(Answer(b), Between(c, b))
    BY <1>1, <1>5, <2>1, Hears
  <2>3. One(Answer(b), Between(c, b)) = 0 BY <1>4, <1>5, WordIs DEF One
  <2>4. Way(c)' = Way(c) BY <2>2, <2>3
  <2>5. stage[b] # "received" BY <1>10 DEF Joins
  <2>6. cpuPc' = [cpuPc EXCEPT ![b] = cpuPc'[b]] BY <2>1 DEF StageTypes
  <2> QED BY <1>2, <1>6, <1>10, <2>2, <2>4, <2>5, <2>6, JoiningOne
<1>11. CASE Talks(b) /\ Receive(b)
  <2>1. /\ UNCHANGED <<cpuTx, cpuRx, data, met>> /\ stage' = [stage EXCEPT ![b] = "received"]
        /\ cpuPc' = [cpuPc EXCEPT ![b] = "recv"] /\ stage[b] \in {"receive", "test"}
    BY <1>11 DEF Receive, At, Prg!CallRecv, Prg!Goto, ToStage
  <2>2. Way(EchoClient)' = Way(EchoClient) /\ Way(EchoServer)' = Way(EchoServer)
    BY <1>1, <1>4, <2>1, StillWay
  <2>3. Echoing' = Echoing BY <1>4, <2>1 DEF Echoing, InEcho, StageTypes
  <2>4. stage'[EchoClient] = "hello" <=> stage[EchoClient] = "hello"
    BY <1>4, <2>1 DEF StageTypes
  <2>5. Places' = Places BY <2>2, <2>3 DEF Places
  <2> QED BY <1>2, <2>1, <2>4, <2>5, KeepsOne
<1>12. CASE Talks(b) /\ Prg!Recv(b) /\ InCall(b) /\ b = EchoServer
  <2>1. /\ UNCHANGED <<cpuTx, stage, met>> /\ cpuPc[b] = "recv" /\ cpuRx[b] # <<>>
        /\ cpuRx' = [cpuRx EXCEPT ![b] = Tail(@)] /\ data' = [data EXCEPT ![b] = Head(cpuRx[b])]
        /\ cpuPc' = [cpuPc EXCEPT ![b] = "idle"] /\ stage[b] = "received"
    BY <1>12 DEF Prg!Recv, Prg!Delivered, Prg!Consume, Prg!Return, InCall, Talks
  <2>2. PICK m \in Heard(EchoServer) : m = Head(cpuRx[b])
    BY <1>12, <2>1, HeadTailProperties DEF Talks
  <2>3. PICK P : P = Between(EchoClient, EchoServer) OBVIOUS
  <2>4. m \in P <=> m.src = IdOf[EchoClient]
    <3>1. m \in Air BY <2>2 DEF Heard
    <3> QED BY <1>4, <2>3, <3>1, WordIs, EchoIs
  <2>5. Echoing = 0 BY <1>12, <2>1 DEF Echoing, InEcho
  <2>6. Echoing' = One(m, P)
    <3>1. data'[EchoServer] = m /\ cpuPc'[EchoServer] = "idle" /\ stage'[EchoServer] = "received"
      BY <1>3, <1>4, <1>12, <2>1, <2>2 DEF LocalTypes, StageTypes
    <3> QED BY <2>4, <3>1 DEF Echoing, InEcho, One
  <2>7. /\ Way(EchoClient)' \in Nat /\ Way(EchoServer)' = Way(EchoServer)
        /\ Way(EchoClient) = Way(EchoClient)' + One(m, P)
    BY <1>1, <1>4, <1>12, <2>1, <2>2, <2>3, Hears
  <2>8. PICK n3, n4 \in Nat : n3 = Way(EchoClient)' /\ n4 = One(m, P) BY <2>7 DEF One
  <2>9. Places = (n3 + n4) + n2 + 0 /\ Places' = n3 + n2 + n4
    BY <1>7, <2>5, <2>6, <2>7, <2>8 DEF Places
  <2>10. (n3 + n4) + n2 + 0 = n3 + n2 + n4 OBVIOUS
  <2> QED BY <1>2, <2>1, <2>9, <2>10, KeepsOne
<1>13. CASE Talks(b) /\ b = EchoClient /\ SayHello
  <2>1. /\ cpuTx' = [cpuTx EXCEPT ![b] = Append(@, Word(b))] /\ UNCHANGED <<cpuRx, data>>
        /\ stage' = [stage EXCEPT ![b] = "receive"] /\ cpuPc' = [cpuPc EXCEPT ![b] = "idle"]
        /\ stage[b] = "hello" /\ met' = (link[EchoServer] = "open")
    BY <1>13, Constants DEF SayHello, At, Prg!CallSend, Prg!scewl_send, Prg!Return,
        Prg!packet, packet, Word, ToStage
  <2>2. Word(b) \in AnyMsg /\ One(Word(b), Between(b, c)) = 1
    BY <1>5, WordIs DEF AnyMsg, One
  <2>3. Way(b)' = Way(b) + 1 /\ Way(c)' = Way(c) BY <1>1, <1>5, <2>1, <2>2, Says
  <2>4. Echoing' = Echoing BY <1>4, <1>13, <2>1 DEF Echoing, InEcho, StageTypes
  <2>5. Places = 0 BY <1>13, <2>1 DEF OneOfIt, Places
  <2>6. Echoing \in Nat BY DEF Echoing
  <2>7. n1 + n2 + Echoing = 0 BY <1>7, <2>5 DEF Places
  <2>8. Places' = (n1 + 1) + n2 + Echoing
    BY <1>4, <1>5, <1>7, <1>13, <2>3, <2>4 DEF Places
  <2>9. Places' = 1 BY <2>6, <2>7, <2>8
  <2>10. link'[EchoClient] = "open" BY <1>2, <1>13 DEF Talks, Relays
  <2>11. stage'[EchoClient] # "hello" BY <1>4, <1>13, <2>1 DEF StageTypes
  <2> QED BY <1>2, <2>1, <2>9, <2>10, <2>11 DEF OneOfIt, Places
<1>14. CASE Talks(b) /\ b = EchoServer /\ Echo
  <2>1. /\ cpuTx' = [cpuTx EXCEPT ![b] = Append(@, packet(data[b].src, TGT_ID, data[b].data))]
        /\ UNCHANGED <<cpuRx, data, met>> /\ stage' = [stage EXCEPT ![b] = "test"]
        /\ stage[b] = "received" /\ cpuPc[b] = "idle"
    BY <1>14, Constants DEF Echo, At, Prg!CallSend, Prg!scewl_send, Prg!Return,
        Prg!packet, packet, ToStage
  <2>2. PICK h \in Heard(EchoServer) : h = data[b] BY <1>14, <2>1 DEF Talks
  <2>3. PICK m \in Said(EchoServer) : m = packet(h.src, TGT_ID, h.data) BY <2>2, EchoIs
  <2>4. PICK P : P = Between(EchoServer, EchoClient) OBVIOUS
  <2>5. m \in P <=> h.src = IdOf[EchoClient] BY <1>4, <2>2, <2>3, <2>4, EchoIs, WordIs
  <2>6. Echoing = One(m, P) BY <1>14, <2>1, <2>2, <2>5 DEF Echoing, InEcho, One
  <2>7. Echoing' = 0 BY <1>4, <1>14, <2>1 DEF Echoing, InEcho, StageTypes
  <2>8. m \in AnyMsg BY <1>4, <2>3, Homes, SaidIs DEF AnyMsg
  <2>9. Way(EchoServer)' = Way(EchoServer) + One(m, P) /\ Way(EchoClient)' = Way(EchoClient)
    BY <1>1, <1>4, <1>14, <2>1, <2>2, <2>3, <2>4, <2>8, Says
  <2>10. PICK n3 \in Nat : n3 = One(m, P) BY DEF One
  <2>11. Places = n1 + n2 + n3 /\ Places' = n1 + (n2 + n3) + 0
    BY <1>7, <2>6, <2>7, <2>9, <2>10 DEF Places
  <2>12. n1 + (n2 + n3) + 0 = n1 + n2 + n3 OBVIOUS
  <2>13. stage'[EchoClient] = stage[EchoClient] BY <1>4, <1>14, <2>1 DEF StageTypes
  <2> QED BY <1>2, <2>1, <2>11, <2>12, <2>13, KeepsOne
<1> QED BY <1>8, <1>9, <1>10, <1>11, <1>12, <1>13, <1>14, ProgramCases

LEMMA WayNatNext ==
    ASSUME Seds', RadioTypes', NEW b \in Boots
    PROVE  Way(b)' \in Nat
<1>1. PICK c \in Boots : c = Peer(b) BY Constants
<1>2. PICK P : P = Between(b, c) OBVIOUS
<1>3. PICK x, y, z \in Nat : x = Before(b, P)' /\ y = Within(b, c, P)' /\ z = Beyond(c, P)'
  BY WayTypedNext
<1>4. x + y + z \in Nat OBVIOUS
<1> QED BY <1>1, <1>2, <1>3, <1>4, WayIs

LEMMA RadioOne ==
    ASSUME OneOfIt, Seds, Waves, RadioStep
    PROVE  OneOfIt'
<1>1. RadioTypes /\ RadioTypes' /\ Seds' BY RadioStepWaves, OutsideSeds DEF Waves
<1>2. UNCHANGED <<stage, data, cpuPc, met, link>> BY DEF RadioStep, cpuVars
<1>3. /\ EchoClient \in Boots /\ EchoServer \in Boots
      /\ Peer(EchoClient) = EchoServer /\ Peer(EchoServer) = EchoClient
  BY Constants
<1>4. PICK n1, n2, n3, n4, n5 \in Nat :
          /\ n1 = Way(EchoClient) /\ n2 = Way(EchoServer) /\ n3 = Echoing
          /\ n4 = Way(EchoClient)' /\ n5 = Way(EchoServer)'
  BY <1>1, <1>3, WayNat, WayNatNext DEF Echoing
<1>5. Echoing' = n3 BY <1>2, <1>4, StillEchoing
<1>6. n4 <= n1 /\ n5 <= n2 BY <1>3, <1>4, RadioWay
<1>7. Places = n1 + n2 + n3 /\ Places' = n4 + n5 + n3 BY <1>4, <1>5 DEF Places
<1>8. CASE stage[EchoClient] = "hello"
  <2>1. n1 + n2 + n3 = 0 BY <1>7, <1>8 DEF OneOfIt, Places
  <2>2. n4 + n5 + n3 = 0 BY <1>6, <2>1
  <2> QED BY <1>2, <1>7, <2>1, <2>2, KeepsOne
<1>9. CASE stage[EchoClient] # "hello" /\ met
  <2>1. link[EchoClient] = "open" /\ link[EchoServer] = "open" BY <1>9 DEF OneOfIt
  <2>2. n4 = n1 /\ n5 = n2 BY <1>3, <1>4, <2>1, RadioWay
  <2> QED BY <1>2, <1>7, <2>2, KeepsOne
<1>10. CASE stage[EchoClient] # "hello" /\ ~met BY <1>2, <1>10, KeepsOne
<1> QED BY <1>8, <1>9, <1>10

\* Of the others, only the controllers move it.
LEMMA OthersOne ==
    ASSUME OneOfIt, UNCHANGED <<stage, data, cpuPc, met>>,
           \A b \in Boots : link[b] = "open" => link'[b] = "open",
           \A b \in Boots : Way(b)' = Way(b)
    PROVE  OneOfIt'
<1>1. Places' = Places BY StillEchoing, Constants DEF Places
<1> QED BY <1>1, KeepsOne

LEMMA ControllerOne ==
    ASSUME OneOfIt, Seds, Waves, NEW b \in Boots, ControllerStep(b)
    PROVE  OneOfIt'
BY OthersOne, ControllerWay, ControllerFrame

LEMMA ServesOne ==
    ASSUME OneOfIt, SssServes
    PROVE  OneOfIt'
<1>1. UNCHANGED <<stage, data, cpuPc, met, link, cpuTx, cpuRx, ctlPc, held, buf, msgs, msg, hearers,
                  up, down>>
  BY DEF SssServes, cpuVars, ctlVars, radioVars
<1> QED BY <1>1, StillWay, OthersOne

LEMMA FaaOne ==
    ASSUME OneOfIt, Waves, FaaStarts \/ FaaSends \/ FaaShows
    PROVE  OneOfIt'
<1>1. UNCHANGED <<stage, data, cpuPc, met, cpuTx, cpuRx, ctlPc, held>>
  BY DEF FaaStarts, FaaSends, FaaShows, cpuVars, ctlVars
<1>2. UNCHANGED <<buf, msgs, msg, hearers>>
  BY DEF FaaStarts, FaaSends, FaaShows, Rad!Connect, Rad!Writes, Rad!Reads, Rad!localVars
<1>3. \A b \in Boots : b \in Clients /\ b # Faa BY Homes, Constants
<1>4. \A b \in Boots : up'[b] = up[b] /\ down'[b] = down[b] /\ link'[b] = link[b]
  BY <1>3 DEF Waves, RadioTypes, FaaStarts, FaaSends, FaaShows, Rad!Connect, Rad!Writes, Rad!Reads,
              Rad!localVars
<1> QED BY <1>1, <1>2, <1>4, StillWay, OthersOne

LEMMA LaunchOne ==
    ASSUME OneOfIt, Seds, StageTypes, Waves, NEW b \in Boots, Launch(b)
    PROVE  OneOfIt'
<1>1. /\ UNCHANGED <<stage, data, met, cpuTx, cpuRx, ctlPc, held, buf, msgs, msg, hearers, up, down>>
      /\ cpuPc' = [cpuPc EXCEPT ![b] = "idle"] /\ link' = [link EXCEPT ![b] = "open"]
  BY DEF Launch, Ctl!Start, Ctl!ports, Ctl!ctlVars
<1>2. Silent(b) BY LaunchSeds DEF Waves
<1>3. cpuPc'[EchoServer] = cpuPc[EchoServer] \/ stage[EchoServer] # "received"
  BY <1>1, <1>2, Constants DEF StageTypes, Silent, Begins
<1>4. Echoing' = Echoing BY <1>1, <1>3, StillEchoing
<1>5. Places' = Places BY <1>1, <1>4, StillWay, Constants DEF Places
<1>6. \A e \in Boots : link[e] = "open" => link'[e] = "open"
  BY <1>1, Homes DEF Waves, RadioTypes
<1> QED BY <1>1, <1>5, <1>6, KeepsOne

-----------------------------------------------------------------------------
(* The theorem.                                                            *)

LEMMA NextInv == Inv /\ [Next]_vars => Inv'
<1> SUFFICES ASSUME Inv, [Next]_vars PROVE Inv' OBVIOUS
<1>1. StageTypes' BY StagesTyped DEF Inv
<1>2. orders' \subseteq Orders BY OrdersTyped DEF Inv
<1>3. ASSUME Lively' PROVE Whole'
  <2>1. StageTypes /\ orders \subseteq Orders /\ Whole BY <1>3, OnceLively DEF Inv
  <2>2. Seds /\ Waves /\ RadioTypes /\ OneOfIt BY <2>1 DEF Whole, Waves
  <2>3. ASSUME Seds', Waves', OneOfIt' PROVE Whole' BY <2>3 DEF Whole, Waves
  <2>4. CASE UNCHANGED vars
    <3>1. Seds'
      <4>1. LocalTypes' BY <2>2, <2>4 DEF Seds, LocalTypes, vars, cpuVars, ctlVars, reqVars, sssVars
      <4>2. \A b \in Boots : UNCHANGED Own(b) /\ UNCHANGED table[IdOf[b]]
        BY <2>4 DEF Own, vars, cpuVars, ctlVars, reqVars, sssVars
      <4> QED BY <2>2, <4>1, <4>2, StillDevice DEF Seds
    <3>2. Waves' BY <2>2, <2>4, StillWaves DEF Waves, vars, radioVars
    <3>3. OneOfIt'
      <4>1. UNCHANGED <<stage, data, cpuPc, met, link, cpuTx, cpuRx, ctlPc, held, buf, msgs, msg,
                        hearers, up, down>>
        BY <2>4 DEF vars, cpuVars, ctlVars, radioVars
      <4> QED BY <2>2, <4>1, StillWay, OthersOne
    <3> QED BY <2>3, <3>1, <3>2, <3>3
  <2>5. CASE SssServes BY <2>2, <2>3, <2>5, ServesSeds, ServesWaves, ServesOne
  <2>6. CASE RadioStep BY <2>2, <2>3, <2>6, OutsideSeds, RadioStepWaves, RadioOne
  <2>7. CASE FaaStarts \/ FaaSends \/ FaaShows
    BY <2>1, <2>2, <2>3, <2>7, OutsideSeds, FaaWaves, FaaOne
  <2>8. ASSUME NEW b \in Boots, Launch(b) PROVE Whole'
    BY <2>1, <2>2, <2>3, <2>8, LaunchSeds, LaunchWaves, LaunchOne
  <2>9. ASSUME NEW b \in Boots, ProgramStep(b) PROVE Whole'
    BY <1>3, <2>1, <2>2, <2>3, <2>9, ProgramSeds, ProgramWaves, ProgramOne
  <2>10. ASSUME NEW b \in Boots, ControllerStep(b) PROVE Whole'
    BY <2>1, <2>2, <2>3, <2>10, ControllerSeds, ControllerWaves, ControllerOne
  <2>11. SssForgets => UNCHANGED vars BY <2>2, ForgetsNothing
  <2>12. \A b \in Boots : ~KillController(b) BY <2>2, NoKill
  <2> QED BY <2>4, <2>5, <2>6, <2>7, <2>8, <2>9, <2>10, <2>11, <2>12 DEF Next
<1> QED BY <1>1, <1>2, <1>3 DEF Inv

LEMMA InitInv == Init => Inv
<1> SUFFICES ASSUME Init PROVE Inv OBVIOUS
<1> USE SameWords
<1>1. /\ cpuPc = [b \in Boots |-> "off"] /\ app = [b \in Boots |-> "boot"]
      /\ ret = [b \in Boots |-> None]
      /\ stage = [b \in Boots |-> IF b = EchoClient THEN "hello" ELSE "test"]
      /\ ctlPc = [b \in Boots |-> "outer"] /\ registered = [b \in Boots |-> FALSE]
      /\ cmd = [b \in Boots |-> None] /\ held = [b \in Boots |-> NoMsg]
      /\ cpuTx = [b \in Boots |-> <<>>] /\ cpuRx = [b \in Boots |-> <<>>]
      /\ reqOp = [b \in Boots |-> REG] /\ arrived = [b \in Boots |-> 0]
      /\ reply = [b \in Boots |-> None] /\ data = [b \in Boots |-> Garbage]
      /\ table = [d \in Devices |-> Sss!NoDev] /\ orders = Orders /\ met = FALSE
  BY DEF Init, Prg!ProgramInit, Prg!Init, Prg!None, None, Ctl!CtlInit, Sss!TableInit
<1>2. /\ link = [c \in Clients |-> "unused"]
      /\ up = [c \in Clients |-> <<>>] /\ down = [c \in Clients |-> <<>>]
      /\ waiting = [p \in Rad!Ports |-> <<>>] /\ csock = [p \in Rad!Ports |-> None]
      /\ buf = [p \in Rad!Ports |-> <<>>]
      /\ rfPc = "poll" /\ rfTodo = <<>> /\ msgs = <<>> /\ hearers = <<>>
  <2>1. Rad!Clients = Clients BY DEF Rad!Clients, Clients
  <2> QED BY <2>1 DEF Init, Rad!Init, Rad!None, None
<1>3. \A b \in Boots : b \in Clients /\ Home(b) = IdOf[b] /\ IdOf[b] \in Devices /\ IdOf[b] \in Rad!Ports
  BY Homes
<1>4. StageTypes BY <1>1 DEF StageTypes, InCalls
<1>5. Seds
  <2>1. LocalTypes
    BY <1>1 DEF LocalTypes, Prg!Purposes, Prg!Results, Prg!None, None, Ctl!Places
  <2>2. ASSUME NEW b \in Boots PROVE Silent(b)
    <3>1. table[IdOf[b]].status # REG
      BY <1>1, <1>3 DEF Sss!NoDev, Sss!Absent, REG
    <3>2. Begins(b) BY <1>1, <3>1 DEF Begins
    <3> QED BY <1>1, <1>2, <1>3, <3>2 DEF Silent
  <2> QED BY <2>1, <2>2 DEF Seds, Device
<1>6. RadioTypes
  <2>1. \A c \in Clients : Home(c) \in Rad!Ports BY Homes
  <2>2. up \in [Clients -> Seq(Air)] /\ down \in [Clients -> Seq(Air)] /\ buf \in [Rad!Ports -> Seq(Air)]
        /\ msgs \in Seq(Air) /\ rfTodo \in Seq(Rad!socks)
    BY <1>2
  <2>3. \A c \in Clients : up[c] \in Seq(Said(c)) /\ buf[Home(c)] \in Seq(Said(c))
    BY <1>2, <2>1
  <2> QED BY <1>2, <2>2, <2>3 DEF RadioTypes
<1>7. Sending BY <1>2 DEF Sending
<1>8. Sockets BY <1>2 DEF Sockets
<1>9. OneOfIt
  <2>1. ASSUME NEW b \in Boots PROVE Way(b) = 0
    <3>1. PICK c \in Boots : c = Peer(b) BY Constants
    <3>2. PICK P : P = Between(b, c) OBVIOUS
    <3>3. Outgoing(b) = <<>> /\ Incoming(c) = <<>> BY <1>1, <1>2, <1>3, UntakenIs
    <3>4. OnAir(c, P) = 0 BY <1>2 DEF OnAir, ToSet
    <3>5. up[b] = <<>> /\ cpuRx[c] = <<>> /\ buf[IdOf[b]] = <<>> /\ msgs = <<>>
      BY <1>1, <1>2, <1>3
    <3>6. Before(b, P) = 0 /\ Beyond(c, P) = 0 BY <3>3, <3>5, CountNothing, Sides
    <3>7. Within(b, c, P) = 0 BY <3>4, <3>5, CountNothing, WithinIs
    <3> QED BY <3>1, <3>2, <3>6, <3>7, WayIs
  <2>2. Echoing = 0 BY <1>1, Constants DEF Echoing, InEcho
  <2> QED BY <1>1, <2>1, <2>2, Constants DEF OneOfIt
<1> QED BY <1>1, <1>4, <1>5, <1>6, <1>7, <1>8, <1>9 DEF Inv, Whole

\* What is on the way is what the places hold, and each of it is the hello.
LEMMA WayCounts ==
    ASSUME Seds, RadioTypes, Sending, NEW b \in Boots, NEW c, c = Peer(b)
    PROVE  /\ Len(OnTheWay(b, c)) = Way(b)
           /\ \A m \in ToSet(OnTheWay(b, c)) : m.data = HELLO
           /\ OnTheWay(b, c) \in Seq(AnyMsg)
<1>1. c \in Boots BY Constants
<1>2. PICK P : P = Between(b, c) OBVIOUS
<1>3. PICK s1, s2, s3, s4, s6, s7 \in Seq(AnyMsg) :
          /\ s1 = Outgoing(b) /\ s2 = up[b] /\ s3 = buf[IdOf[b]] /\ s4 = msgs
          /\ s6 = Incoming(c) /\ s7 = cpuRx[c]
  BY <1>1, Typed
<1>4. PICK s5 \in Seq(AnyMsg) : s5 = IF IdOf[c] \in ToSet(hearers) THEN <<msg>> ELSE <<>>
  <2>1. CASE IdOf[c] \in ToSet(hearers)
    <3>1. hearers # <<>> BY <2>1 DEF ToSet
    <3>2. msg \in AnyMsg BY <3>1 DEF Sending, AnyMsg
    <3>3. <<msg>> \in Seq(AnyMsg) BY <3>2
    <3> QED BY <2>1, <3>3
  <2>2. CASE IdOf[c] \notin ToSet(hearers)
    <3>1. <<>> \in Seq(AnyMsg) OBVIOUS
    <3> QED BY <2>2, <3>1
  <2> QED BY <2>1, <2>2
<1>5. PICK t2 \in Seq(AnyMsg) : t2 = s1 \o s2 BY ConcatProperties
<1>6. PICK t3 \in Seq(AnyMsg) : t3 = t2 \o s3 BY ConcatProperties
<1>7. PICK t4 \in Seq(AnyMsg) : t4 = t3 \o s4 BY ConcatProperties
<1>8. PICK t5 \in Seq(AnyMsg) : t5 = t4 \o s5 BY ConcatProperties
<1>9. PICK t6 \in Seq(AnyMsg) : t6 = t5 \o s6 BY ConcatProperties
<1>10. PICK s \in Seq(AnyMsg) : s = t6 \o s7 BY ConcatProperties
<1>11. OnTheWay(b, c) = Select(s, P)
  BY <1>2, <1>3, <1>4, <1>5, <1>6, <1>7, <1>8, <1>9, <1>10 DEF OnTheWay, Outgoing, Incoming
<1>12. Count(s, P) = Count(s1, P) + Count(s2, P) + Count(s3, P) + Count(s4, P) + Count(s5, P)
                      + Count(s6, P) + Count(s7, P)
  <2>1. Count(t2, P) = Count(s1, P) + Count(s2, P) BY <1>5, CountConcat
  <2>2. Count(t3, P) = Count(t2, P) + Count(s3, P) BY <1>6, CountConcat
  <2>3. Count(t4, P) = Count(t3, P) + Count(s4, P) BY <1>7, CountConcat
  <2>4. Count(t5, P) = Count(t4, P) + Count(s5, P) BY <1>8, CountConcat
  <2>5. Count(t6, P) = Count(t5, P) + Count(s6, P) BY <1>9, CountConcat
  <2>6. Count(s, P) = Count(t6, P) + Count(s7, P) BY <1>10, CountConcat
  <2> QED BY <2>1, <2>2, <2>3, <2>4, <2>5, <2>6
<1>13. Count(s5, P) = OnAir(c, P)
  <2>1. CASE IdOf[c] \in ToSet(hearers) BY <1>4, <2>1, CountOne DEF One, OnAir
  <2>2. CASE IdOf[c] \notin ToSet(hearers) BY <1>4, <2>2, CountNothing DEF OnAir
  <2> QED BY <2>1, <2>2
<1>14. Len(Select(s, P)) = Way(b)
  <2>1. PICK n1, n2, n3, n4, n5, n6, n7 \in Nat :
          /\ n1 = Count(s1, P) /\ n2 = Count(s2, P) /\ n3 = Count(s3, P) /\ n4 = Count(s4, P)
          /\ n5 = Count(s5, P) /\ n6 = Count(s6, P) /\ n7 = Count(s7, P)
    BY CountTyped
  <2>2. Before(b, P) = n1 + n2 /\ Beyond(c, P) = n6 + n7 BY <1>1, <1>3, <2>1, Sides
  <2>3. Within(b, c, P) = n3 + n4 + n5 BY <1>1, <1>3, <1>13, <2>1, WithinIs
  <2>4. Way(b) = (n1 + n2) + (n3 + n4 + n5) + (n6 + n7) BY <1>2, <2>2, <2>3, WayIs
  <2>5. Count(s, P) = n1 + n2 + n3 + n4 + n5 + n6 + n7 BY <1>12, <2>1
  <2>6. (n1 + n2) + (n3 + n4 + n5) + (n6 + n7) = n1 + n2 + n3 + n4 + n5 + n6 + n7 OBVIOUS
  <2> QED BY <2>4, <2>5, <2>6 DEF Count
<1>15. \A m \in ToSet(Select(s, P)) : m.data = HELLO
  <2>1. PICK t \in Seq(AnyMsg \cap P) : t = Select(s, P) BY SelectChosen
  <2>2. \A m \in ToSet(t) : m \in AnyMsg \cap P BY DEF ToSet
  <2>3. \A m \in AnyMsg \cap P : m = Word(b) BY <1>2, WordIs DEF AnyMsg
  <2> QED BY <2>1, <2>2, <2>3, WordIs
<1>16. Select(s, P) \in Seq(AnyMsg) BY SelectTyped
<1> QED BY <1>11, <1>14, <1>15, <1>16

LEMMA InvImplies == Inv => HelloConserved
<1> SUFFICES ASSUME Inv, Awaiting(EchoClient), met, Serving
    PROVE  LET there == OnTheWay(EchoClient, EchoServer)
               back  == OnTheWay(EchoServer, EchoClient)
           IN  /\ Len(there) + Len(back) + (IF InEcho THEN 1 ELSE 0) = 1
               /\ \A m \in ToSet(there \o back) : m.data = HELLO
               /\ InEcho => data[EchoServer].data = HELLO
    BY DEF HelloConserved
<1>1. Lively /\ Whole BY DEF Inv, Lively, Serving
<1>2. Seds /\ RadioTypes /\ Sending /\ OneOfIt BY <1>1 DEF Whole
<1>3. /\ EchoClient \in Boots /\ EchoServer \in Boots
      /\ EchoServer = Peer(EchoClient) /\ EchoClient = Peer(EchoServer)
  BY Constants
<1>4. PICK there, back \in Seq(AnyMsg) :
          there = OnTheWay(EchoClient, EchoServer) /\ back = OnTheWay(EchoServer, EchoClient)
  BY <1>2, <1>3, WayCounts
<1>5. Len(there) = Way(EchoClient) /\ Len(back) = Way(EchoServer) BY <1>2, <1>3, <1>4, WayCounts
<1>6. \A m \in ToSet(there) \cup ToSet(back) : m.data = HELLO BY <1>2, <1>3, <1>4, WayCounts
<1>7. stage[EchoClient] # "hello" BY DEF Awaiting
<1>8. Len(there) + Len(back) + (IF InEcho THEN 1 ELSE 0) = 1
  BY <1>2, <1>5, <1>7 DEF OneOfIt, Echoing
<1>9. ToSet(there \o back) \subseteq ToSet(there) \cup ToSet(back)
  <2> SUFFICES ASSUME NEW i \in DOMAIN (there \o back)
               PROVE  (there \o back)[i] \in ToSet(there) \cup ToSet(back)
      BY DEF ToSet
  <2>1. i \in 1..(Len(there) + Len(back)) OBVIOUS
  <2>2. CASE i <= Len(there)
    <3>1. i \in 1..Len(there) /\ (there \o back)[i] = there[i] BY <2>1, <2>2
    <3> QED BY <3>1 DEF ToSet
  <2>3. CASE i > Len(there)
    <3>1. i - Len(there) \in 1..Len(back) /\ (there \o back)[i] = back[i - Len(there)]
      BY <2>1, <2>3
    <3> QED BY <3>1 DEF ToSet
  <2> QED BY <2>1, <2>2, <2>3
<1>10. InEcho => data[EchoServer].data = HELLO
  <2> SUFFICES ASSUME InEcho PROVE data[EchoServer].data = HELLO OBVIOUS
  <2>1. stage[EchoServer] = "received" /\ cpuPc[EchoServer] = "idle"
        /\ data[EchoServer].src = IdOf[EchoClient]
    BY DEF InEcho
  <2>2. Talks(EchoServer)
    BY <1>2, <1>3, <2>1 DEF Seds, Device, Silent, Asks, Granted, Joins, Begins
  <2>3. data[EchoServer] \in Heard(EchoServer) BY <2>1, <2>2 DEF Talks
  <2>4. data[EchoServer] = Word(EchoClient) BY <2>1, <2>3, EchoIs
  <2> QED BY <1>3, <2>4, WordIs
<1> QED BY <1>4, <1>6, <1>8, <1>9, <1>10

\* Until the client has its answer, each SED is at a known place of its
\* registration or relays, each client is at its own socket of the emulator, and
\* the hello or its echo is at one place (controller.c:237-287,
\* radio_waves.py:87-223, echo_client/main.c and echo_server/main.c).
THEOREM SpecInv == Spec => []Inv
<1>1. Init => Inv BY InitInv
<1>2. Inv /\ [Next]_vars => Inv' BY NextInv
<1> QED BY <1>1, <1>2, PTL DEF Spec

\* Nothing on the way between the two programs loses the client's hello or the
\* server's echo of it, repeats it or alters it (controller.c:247-282,
\* radio_waves.py:105-223, echo_server/main.c:55-70).
THEOREM HelloIsConserved == Spec => []HelloConserved
<1>1. Inv => HelloConserved BY InvImplies
<1> QED BY <1>1, SpecInv, PTL

=============================================================================
